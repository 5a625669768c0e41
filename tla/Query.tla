------------------------------- MODULE Query --------------------------------
(***************************************************************************)
(* Query and report (sm_fota/src/sm_main.c) on the socket layer of         *)
(* sm_socket.c, together with the connection of a download as far as it    *)
(* shares that layer: two nodes in one list, events that carry a socket    *)
(* number, numbers that are used again, one request buffer, a timer each.  *)
(*                                                                         *)
(* One task runs everything.  A callback is one action until it calls      *)
(* something that gives the network time: `todo' holds those calls, and    *)
(* each turn of the loop of sm_protocol_write is an action.                *)
(***************************************************************************)
EXTENDS Integers, Sequences, SocketList

CONSTANTS
  BufLen,      \* length of a request, in units that one send may accept
  MaxRequests, \* requests, and answers, under way on a connection
  MaxEvents,   \* messages of the network in the queue of the task
  Updates,     \* may the server have a patch?
  MaxFaults    \* failures of the network and of soc_create in one behaviour

ASSUME QueryAssumption ==
  /\ Nodes = {"query", "http"}     \* p_sm_soc and sm_pHttpNode
  /\ {BufLen, MaxRequests, MaxEvents} \subseteq Nat \ {0} /\ MaxFaults \in Nat
  /\ Updates \in BOOLEAN

VARIABLES
  list,       \* SOC_NodeList, with the soc_id of the two nodes
  timer,      \* SM_CONNECT_TIMER_ID and SM_HTTP_CONNECT_TIMER_ID: the socket each will close
  buffer,     \* p_sm_http_info->buffer
  busy,       \* sm_download_info # NULL
  retryTimer, \* SM_HTTP_RETRY_TIMER_ID
  restart,    \* SM_RESTART_TIMER_ID
  todo,       \* what the callback under way still has to call
  offset,     \* of the loop in sm_protocol_write
  (* the network, by socket number *)
  conn,       \* state of the connection
  events,     \* messages for sm_soc_message_dispatch
  requests,   \* what the server has received and not answered
  answers,    \* what it has sent and sm_protocol_read not received
  asked,      \* a query was made that has not been answered
  faults

download == <<busy, retryTimer, restart>>
call     == <<todo, offset>>
network  == <<conn, events, requests, answers>>
ours     == <<list, timer, buffer, download, call, network, asked>>
qvars    == <<ours, faults>>

Nobody == Invalid
Alive   == {"open", "served"}        \* states of a connection the server serves
Sending == Alive \cup {"silent"}     \* those in which a send is accepted
Types   == {"connect", "refused", "write", "read", "close"}

QueryInit ==
  /\ list = Empty
  /\ timer = [n \in Nodes |-> Nobody]
  /\ buffer = "empty" /\ busy = FALSE /\ retryTimer = FALSE /\ restart = FALSE
  /\ todo = <<>> /\ offset = 0
  /\ conn = [s \in Sockets |-> "free"] /\ events = {}
  /\ requests = [s \in Sockets |-> <<>>] /\ answers = [s \in Sockets |-> <<>>]
  /\ asked = FALSE /\ faults = 0

Fault   == faults < MaxFaults /\ faults' = faults + 1
NoFault == UNCHANGED faults

Idle      == todo = <<>>
Calls(c)  == todo # <<>> /\ Head(todo) = c
Return    == todo' = Tail(todo)

-----------------------------------------------------------------------------
(* Sockets.                                                                  *)

\* sm_http_connect_error: another attempt ("again"), or the end of the download.
ConnectError(end) ==
  IF end = "again" THEN retryTimer' = TRUE /\ UNCHANGED busy
                   ELSE busy' = FALSE /\ UNCHANGED retryTimer

\* Mutant: the timer stays armed.
CallbackLeavesTimer(n, end) ==
  /\ UNCHANGED timer
  /\ IF n = "http" THEN ConnectError(end) ELSE UNCHANGED <<busy, retryTimer>>

\* CloseSocket of the two nodes: sm_protocol_close and sm_http_close.
CloseCallback(n, end) ==
  /\ timer' = [timer EXCEPT ![n] = Nobody]
  /\ IF n = "http" THEN ConnectError(end) ELSE UNCHANGED <<busy, retryTimer>>

\* sm_socket_close: the socket is closed, its callback forgets the number, and
\* the node leaves the list.  Events on their way are not recalled.
Close(s, end) ==
  LET n == GetNode(list, s)
  IN  IF n = Null THEN UNCHANGED <<list, timer, busy, retryTimer, conn, requests, answers>>
      ELSE /\ conn' = [conn EXCEPT ![s] = "free"]
           /\ requests' = [requests EXCEPT ![s] = <<>>]
           /\ answers' = [answers EXCEPT ![s] = <<>>]
           /\ CloseCallback(n, end)
           /\ list' = Delete([list EXCEPT !.soc_id[n] = Invalid], n)

\* sm_socket_creat, and the 20 s timer its callers start.
Created(n) ==
  \E s \in {x \in Sockets : conn[x] = "free"} :
     /\ list' = Insert([list EXCEPT !.soc_id[n] = s], n)
     /\ conn' = [conn EXCEPT ![s] = "connecting"]
     /\ timer' = [timer EXCEPT ![n] = s]
     /\ UNCHANGED <<events, requests, answers>>

\* A failure of sm_socket_creat calls CloseSocket back; the node stays outside.
CreatFails(n, end) ==
  /\ Fault
  /\ CloseCallback(n, end)
  /\ list' = [list EXCEPT !.soc_id[n] = Invalid]
  /\ UNCHANGED network

\* The network has the socket layer told; at most MaxEvents wait, the ends
\* of connections not counted.
Notify(s, type) ==
  /\ type # "close" => <<s, type>> \notin events /\ Cardinality(events) < MaxEvents
  /\ events' = events \cup {<<s, type>>}

-----------------------------------------------------------------------------
(* sm_main.c                                                                 *)

\* The end of sm_sdk_autoCheck and sm_download_report: the request goes into
\* the buffer, and out on the connection that is there, or on a new one.  `then'
\* is what the caller does afterwards.
Submit(request, then) ==
  /\ buffer' = request
  /\ IF list.soc_id["query"] # Invalid
       THEN /\ todo' = <<"send">> \o then /\ offset' = 0
            /\ NoFault
            /\ UNCHANGED <<list, timer, busy, retryTimer, network>>
       ELSE /\ todo' = then /\ UNCHANGED offset
            /\ \/ Created("query") /\ NoFault /\ UNCHANGED <<busy, retryTimer>>
               \/ CreatFails("query", "again")

\* sm_sdk_autoCheck
AutoCheck ==
  /\ Idle
  /\ Submit("query", <<>>)
  /\ asked' = TRUE
  /\ UNCHANGED restart

\* sm_download_report
Report ==
  /\ Calls("report")
  /\ Submit("report", Tail(todo))
  /\ UNCHANGED <<asked, restart>>

\* Mutant: one send is never enough.
ArrivedNever(k) == "garbled"

\* Every send starts at the beginning of the buffer: only one that takes all of
\* it at once arrives as a request.
Arrived(k) == IF k = BufLen /\ offset = 0 THEN buffer ELSE "garbled"

\* After the loop: 15 s for the answer.
Written(s) == timer' = [timer EXCEPT !["query"] = s]

\* The connection takes no more.
Full(s) == Len(requests[s]) + Len(answers[s]) >= MaxRequests

\* A send of the loop of sm_protocol_write takes k units of the buffer.
SendSome ==
  /\ Calls("send")
  /\ LET s == list.soc_id["query"]
     IN  /\ conn[s] \in Sending /\ ~Full(s)
         /\ \E k \in 1 .. BufLen :
              /\ IF k = BufLen THEN NoFault ELSE Fault
              /\ offset' = offset + k
              /\ IF offset + k < BufLen
                   THEN UNCHANGED <<requests, timer, todo>>
                   ELSE /\ requests' = [requests EXCEPT ![s] = Append(@, Arrived(k))]
                        /\ Written(s) /\ Return
  /\ UNCHANGED <<list, buffer, download, conn, events, answers, asked>>

\* A send that would block returns 0, and the loop tries again.  The system will
\* report SOC_WRITE.
SendBlocks ==
  /\ Calls("send") /\ Fault
  /\ LET s == list.soc_id["query"]
     IN  conn[s] \in Sending /\ Notify(s, "write")
  /\ UNCHANGED <<list, timer, buffer, download, call, conn, requests, answers, asked>>

\* Mutant: an error is tried again as well.
SendRetries ==
  /\ Calls("send") /\ conn[list.soc_id["query"]] \in {"connecting", "dead"}
  /\ offset' = 0
  /\ UNCHANGED <<list, timer, buffer, download, todo, network, asked, faults>>

\* It fails on a connection that is broken, or not there yet.
SendFails ==
  /\ Calls("send") /\ Return
  /\ LET s == list.soc_id["query"]
     IN  conn[s] \in {"connecting", "dead"} /\ Close(s, "again")
  /\ UNCHANGED <<buffer, restart, offset, events, asked, faults>>

\* Mutant: a connection that has nothing to say is kept.
ReadKeeps(s) == timer' = [timer EXCEPT !["query"] = Nobody]
                /\ UNCHANGED <<list, busy, retryTimer, conn, requests, answers>>

\* recv returns nothing, or an error.
ReadError(s) == Close(s, "again")

\* sm_protocol_read, sm_read_parse.  The timer is stopped, and not started again.
\* What is received overwrites the buffer; an answer that comes in two parts is
\* parsed in vain, twice.
QueryRead(s) ==
  IF answers[s] = <<>>
    THEN /\ buffer' = "empty" /\ ReadError(s) /\ NoFault
         /\ UNCHANGED <<todo, asked>>
    ELSE /\ buffer' = "answer"
         /\ timer' = [timer EXCEPT !["query"] = Nobody]
         /\ \/ /\ NoFault
               /\ answers' = [answers EXCEPT ![s] = Tail(@)]
               /\ todo' = IF Head(answers[s]) = "update" THEN <<"start">> ELSE <<>>
               /\ asked' = (asked /\ Head(answers[s]) \notin {"update", "no update"})
            \/ /\ Fault /\ Head(answers[s]) # "rest"
               /\ answers' = [answers EXCEPT ![s] = <<"rest">> \o Tail(@)]
               /\ UNCHANGED <<todo, asked>>
         /\ UNCHANGED <<list, busy, retryTimer, conn, requests>>

\* sm_soc_message_dispatch for p_sm_soc.  A connection that is made, and one that
\* can be written to, have the buffer sent.
QueryEvent(s, type) ==
  \/ /\ type \in {"connect", "write"}
     /\ timer' = (IF type = "connect" THEN [timer EXCEPT !["query"] = Nobody] ELSE timer)
     /\ todo' = <<"send">> /\ offset' = 0
     /\ UNCHANGED <<list, buffer, busy, retryTimer, conn, requests, answers, asked, faults>>
  \/ /\ type \in {"refused", "close"}
     /\ Close(s, "again")
     /\ UNCHANGED <<buffer, call, asked, faults>>
  \/ type = "read" /\ QueryRead(s) /\ UNCHANGED offset

-----------------------------------------------------------------------------
(* The download, as far as it uses the same layer (module Download has it in *)
(* full).                                                                    *)

\* sm_http_start, unless a download is under way.
Start ==
  /\ Calls("start") /\ Return
  /\ \/ /\ busy
        /\ NoFault /\ UNCHANGED <<list, timer, busy, retryTimer, network>>
     \/ /\ ~busy /\ busy' = TRUE
        /\ Created("http") /\ NoFault /\ UNCHANGED retryTimer
     \/ /\ ~busy /\ busy' = TRUE
        /\ Fault /\ retryTimer' = TRUE /\ UNCHANGED <<list, timer, network>>
  /\ UNCHANGED <<buffer, restart, offset, asked>>

\* sm_http_retry
Retry ==
  /\ Idle /\ retryTimer /\ ~restart
  /\ \/ Created("http") /\ retryTimer' = FALSE /\ NoFault /\ UNCHANGED busy
     \/ CreatFails("http", "again")
     \/ /\ Fault /\ busy' = FALSE /\ retryTimer' = FALSE
        /\ UNCHANGED <<list, timer, network>>
  /\ UNCHANGED <<buffer, restart, call, asked>>

\* The rest of sm_http_read, of a timeout, after its report: sm_socket_close.
HttpClose ==
  /\ Idle = FALSE /\ Head(todo) \in {"again", "over"} /\ Return
  /\ Close(list.soc_id["http"], Head(todo))
  /\ UNCHANGED <<buffer, restart, offset, events, asked, faults>>

\* Is the patch there, is it wrong or too big, or is there more to come?
HttpRead(s) ==
  \/ /\ conn[s] \in Alive /\ restart' = TRUE
     /\ timer' = [timer EXCEPT !["http"] = Nobody] /\ todo' = <<"report">>
     /\ UNCHANGED <<list, busy, retryTimer, conn, requests, answers>>
  \/ /\ conn[s] \in Alive /\ todo' = <<"report", "over">>
     /\ timer' = [timer EXCEPT !["http"] = Nobody]
     /\ UNCHANGED <<list, download, conn, requests, answers>>
  \/ /\ timer' = [timer EXCEPT !["http"] = s]
     /\ UNCHANGED <<list, download, todo, conn, requests, answers>>
  \/ conn[s] = "dead" /\ Close(s, "again") /\ UNCHANGED <<restart, todo>>

\* sm_soc_message_dispatch for sm_pHttpNode; what sm_http_write sends is in
\* module Download.
HttpEvent(s, type) ==
  \/ /\ type \in {"connect", "write"} /\ conn[s] \in Sending
     /\ timer' = [timer EXCEPT !["http"] = s]
     /\ UNCHANGED <<list, download, todo, conn, requests, answers>>
  \/ /\ type \in {"connect", "write"} /\ conn[s] \notin Sending
     /\ Close(s, "again") /\ UNCHANGED <<restart, todo>>
  \/ type = "read" /\ HttpRead(s)
  \/ type \in {"refused", "close"} /\ Close(s, "again") /\ UNCHANGED <<restart, todo>>

-----------------------------------------------------------------------------
(* What the task loop calls.                                                 *)

\* sm_soc_message_dispatch: events of a number that no node has are dropped.
Dispatch ==
  /\ Idle
  /\ \E e \in events :
       /\ events' = events \ {e}
       /\ CASE GetNode(list, e[1]) = Null ->
                 UNCHANGED <<list, timer, buffer, download, call, conn, requests, answers, asked, faults>>
            [] GetNode(list, e[1]) = "query" ->
                 QueryEvent(e[1], e[2]) /\ UNCHANGED restart
            [] OTHER ->
                 HttpEvent(e[1], e[2]) /\ UNCHANGED <<buffer, offset, asked, faults>>

\* The timeouts of sm_main.c: the socket they were started for is closed.  They
\* go off when the network has nothing to bring, or too early, which is a fault.
QueryTimeout ==
  /\ Idle /\ timer["query"] # Nobody /\ ~restart
  /\ LET s == timer["query"]
     IN  /\ \/ Fault
            \/ NoFault /\ conn[s] = "silent"
            \/ NoFault /\ conn[s] \in Alive /\ requests[s] = <<>> /\ answers[s] = <<>> /\ events = {}
         /\ IF GetNode(list, s) # Null THEN Close(s, "again")
              ELSE /\ timer' = [timer EXCEPT !["query"] = Nobody]
                   /\ UNCHANGED <<list, busy, retryTimer, conn, requests, answers>>
  /\ UNCHANGED <<buffer, restart, call, events, asked>>

\* Those of sm_download.c, where one that waits for data reports first.
HttpTimeout ==
  /\ Idle /\ timer["http"] # Nobody /\ ~restart
  /\ todo' \in {<<"again">>, <<"over">>, <<"report", "again">>, <<"report", "over">>}
  /\ UNCHANGED <<list, timer, buffer, download, offset, network, asked, faults>>

\* sm_restart: RAM and connections are gone.
Restart ==
  /\ Idle /\ restart
  /\ list' = Empty /\ timer' = [n \in Nodes |-> Nobody]
  /\ buffer' = "empty" /\ busy' = FALSE /\ retryTimer' = FALSE /\ restart' = FALSE
  /\ conn' = [s \in Sockets |-> "free"] /\ events' = {}
  /\ requests' = [s \in Sockets |-> <<>>] /\ answers' = [s \in Sockets |-> <<>>]
  /\ asked' = FALSE
  /\ UNCHANGED <<call, faults>>

-----------------------------------------------------------------------------
(* The network and the server.                                               *)

Connects(s) ==
  /\ conn[s] = "connecting"
  /\ \/ conn' = [conn EXCEPT ![s] = "open"] /\ Notify(s, "connect") /\ NoFault
     \/ conn' = [conn EXCEPT ![s] = "dead"] /\ Notify(s, "refused") /\ Fault
     \/ conn' = [conn EXCEPT ![s] = "silent"] /\ UNCHANGED events /\ Fault
  /\ UNCHANGED <<requests, answers>>

\* The connection breaks, and the system notices or does not.
Breaks(s) ==
  /\ conn[s] \in Alive /\ Fault
  /\ \/ conn' = [conn EXCEPT ![s] = "dead"] /\ Notify(s, "close")
     \/ conn' = [conn EXCEPT ![s] = "silent"] /\ UNCHANGED events
  /\ UNCHANGED <<requests, answers>>

GivenUp(s) ==
  /\ conn' = [conn EXCEPT ![s] = "dead"] /\ Notify(s, "close")
  /\ NoFault /\ UNCHANGED <<requests, answers>>

\* The system may notice some day that a peer is silent; a connection on which
\* too much has piled up, while more is sent, is given up for sure.
PeerGone(s) == conn[s] = "silent" /\ requests[s] # <<>> /\ GivenUp(s)
PiledUp(s)  == conn[s] \in Sending /\ Full(s) /\ Calls("send") /\ GivenUp(s)

Reply(request) == CASE request = "query"  -> {"no update"} \cup (IF Updates THEN {"update"} ELSE {})
                    [] request = "report" -> {"ok"}
                    [] OTHER              -> {"bad"}

Answers(s) ==
  /\ conn[s] \in Alive /\ requests[s] # <<>>
  /\ conn' = [conn EXCEPT ![s] = "served"]
  /\ \E a \in Reply(Head(requests[s])) : answers' = [answers EXCEPT ![s] = Append(@, a)]
  /\ requests' = [requests EXCEPT ![s] = Tail(@)]
  /\ NoFault /\ UNCHANGED events

DataReady(s) ==
  /\ conn[s] \in Alive /\ (answers[s] # <<>> \/ list.soc_id["http"] = s)
  /\ conn' = [conn EXCEPT ![s] = "served"]
  /\ Notify(s, "read")
  /\ NoFault /\ UNCHANGED <<requests, answers>>

\* The server closes a connection when it has answered.
ServerCloses(s) ==
  /\ conn[s] = "served" /\ requests[s] = <<>> /\ answers[s] = <<>>
  /\ conn' = [conn EXCEPT ![s] = "dead"] /\ Notify(s, "close")
  /\ NoFault /\ UNCHANGED <<requests, answers>>

Outside(A(_)) ==
  /\ \E s \in Sockets : A(s)
  /\ UNCHANGED <<list, timer, buffer, download, call, asked>>

Send        == SendSome \/ SendBlocks \/ SendFails
TaskStep    == Send \/ Report \/ Start \/ HttpClose
Timers      == QueryTimeout \/ HttpTimeout \/ Retry \/ Restart
Moves       == Outside(Connects) \/ Outside(PiledUp) \/ Outside(Answers)
Delivers    == Outside(DataReady)
Ends        == Outside(ServerCloses)
QueryNext   == TaskStep \/ Dispatch \/ Timers \/ Moves \/ Delivers \/ Ends
               \/ Outside(Breaks) \/ Outside(PeerGone)
=============================================================================
