------------------------------ MODULE Download ------------------------------
(***************************************************************************)
(* The application's download of a patch (sm_fota/src/sm_download.c on the *)
(* sockets of sm_socket.c and the timers of sm_platform.c): sm_http_start  *)
(* opens a connection and erases the download area; the patch is written   *)
(* as it arrives; a lost connection is retried with a Range request; when  *)
(* all of it is there and its MD5 is right, the status word is set to      *)
(* CHECK and the device restarts into the boot loader.                     *)
(*                                                                         *)
(* Everything runs in one task, as callbacks of socket events and timers:  *)
(* an action is one callback, except that each turn of the receive loop of *)
(* sm_http_read is an action, for the network moves on meanwhile.          *)
(*                                                                         *)
(* A cell stands for a run of bytes: FileLen cells are the patch.          *)
(***************************************************************************)
EXTENDS Integers

CONSTANTS
  FileLen,     \* length of the patch on the server
  Area,        \* SM_FLASH_OTA_UPDATE_SIZE
  MaxChunk,    \* cells one recv can return (SM_RECV_BUF)
  RetryCount,  \* SM_HTTP_RETRY_COUNT
  Worlds,      \* TRUE: only the connection fails.  FALSE: also what follows
  Answers,     \* what the server may answer besides what was asked for
  Sums,        \* may the announced MD5 be that of the file, or another one?
  FlashFails,  \* may a write of flash fail?
  LateQuery,   \* may a query be answered while the restart is due?
  DivisionTraps, \* may a division by 0 reset the device?
  MaxLosses    \* failures of the network in one behaviour

ASSUME DownloadAssumption ==
  /\ FileLen \in Nat \ {0} /\ Area \in Nat \ {0} /\ FileLen <= Area
  /\ MaxChunk \in Nat \ {0}
  /\ RetryCount \in Nat
  /\ Answers \subseteq {"whole", "nolength", "split", "big", "redirect", "other"}
  /\ Sums \subseteq BOOLEAN
  /\ FlashFails \in BOOLEAN
  /\ {LateQuery, DivisionTraps} \subseteq BOOLEAN /\ Worlds \subseteq BOOLEAN
  /\ MaxLosses \in Nat

VARIABLES
  good,     \* in Worlds, chosen once
  (* flash *)
  data,     \* the download area
  length,   \* the word that holds the length of the patch
  status,   \* the upgrade status word
  (* sm_download_info *)
  busy,     \* is there one?
  state,    \* SADT_STATE_E
  cur, bin, \* cur_len, bin_len
  retry,
  sum,      \* is the MD5 that was announced the one of the file?
  (* the socket of sm_pHttpNode, and what is under way on it *)
  soc,
  reading,  \* inside the loop of sm_http_read
  blocked,  \* the last send returned SOC_WOULDBLOCK
  request,  \* what the server has received
  reply,    \* what it sends back
  stale,    \* an event of an earlier socket still to be dispatched
  losses,
  (* timers *)
  timer,    \* SM_HTTP_CONNECT_TIMER_ID, with its callback
  retryTimer,
  restart   \* SM_RESTART_TIMER_ID, or the reset itself

flash   == <<data, length, status>>
info    == <<busy, state, cur, bin, retry, sum>>
conn    == <<soc, reading, blocked, request, reply>>
timers  == <<timer, retryTimer, restart>>
vars    == <<good, flash, info, conn, timers, stale, losses>>

-----------------------------------------------------------------------------
(* Flash.  A cell is erased, or holds a cell of the file, or a mixture.      *)
Erased == -1
Mixed  == -2
Blank  == [i \in 0 .. Area - 1 |-> Erased]

\* Flash that has not been erased only loses bits.
Over(old, new) == IF old \in {Erased, new} THEN new ELSE Mixed

\* sm_write_ota_bin: k cells of the file, from cell `from' on, to offset off.
\* Nothing is written when there is nothing or no room; nobody looks at the
\* result.
Write(off, from, k) ==
  \/ data' = [i \in 0 .. Area - 1 |->
                IF i >= off /\ i < off + k /\ off + k <= Area
                  THEN Over(data[i], from + (i - off)) ELSE data[i]]
  \/ FlashFails /\ ~good /\ data' = data

\* A cell that is not of the file.
WriteText(off) ==
  \/ data' = [i \in 0 .. Area - 1 |-> IF i = off THEN Mixed ELSE data[i]]
  \/ FlashFails /\ ~good /\ data' = data

Whole(d, n) == n = FileLen /\ \A i \in 0 .. FileLen - 1 : d[i] = i

\* Mutant: the length is all that is compared.
LengthMatches(d, n) == n = FileLen

\* sm_sys_get_updatefile_md5_string over what is on flash, compared with the
\* MD5 that was announced.
Verified(d, n) == Whole(d, n) /\ sum

-----------------------------------------------------------------------------
NoReply == [head |-> "none", at |-> 0]
Heads   == {"ok", "range", "nolength", "split", "big", "redirect", "other"}

\* Something the server has sent has not been received yet.
Pending ==
  \/ reply.head \in Heads
  \/ reply.head = "half"
  \/ reply.head = "taken" /\ reply.at < FileLen

Init ==
  /\ good \in Worlds
  /\ data = Blank /\ length = Erased /\ status = "IDLE"
  /\ busy = FALSE /\ state = "IDLE" /\ cur = 0 /\ bin = 0 /\ retry = 0 /\ sum = TRUE
  /\ soc = "none" /\ reading = FALSE /\ blocked = FALSE /\ request = "none" /\ reply = NoReply
  /\ stale = FALSE /\ losses = 0
  /\ timer = "off" /\ retryTimer = FALSE /\ restart = "no"

Lost == losses < MaxLosses /\ losses' = losses + 1

Disconnected ==
  /\ soc' = "none" /\ reading' = FALSE /\ blocked' = FALSE
  /\ request' = "none" /\ reply' = NoReply

\* Mutant: an attempt too few.
GivesUpEarly(n) ==
  IF n < RetryCount THEN retryTimer' = TRUE /\ UNCHANGED busy
                    ELSE busy' = FALSE /\ UNCHANGED retryTimer

\* Mutant: the retry is counted, its timer forgotten.
ForgetsTimer(n) ==
  /\ UNCHANGED retryTimer
  /\ IF n <= RetryCount THEN UNCHANGED busy ELSE busy' = FALSE

\* sm_http_connect_error, with info->retry = n.
ConnectError(n) ==
  IF n <= RetryCount THEN retryTimer' = TRUE /\ UNCHANGED busy
                     ELSE busy' = FALSE /\ UNCHANGED retryTimer

\* sm_socket_close with its callback sm_http_close, once info->retry is n.  An
\* event of the closed socket may still be on its way.
Close(n) ==
  /\ retry' = n
  /\ Disconnected /\ timer' = "off"
  /\ ConnectError(n)
  /\ stale' \in {stale, TRUE}

\* sm_restart, or a fault: RAM is lost.
Reset ==
  /\ busy' = FALSE /\ state' = "IDLE" /\ cur' = 0 /\ bin' = 0 /\ retry' = 0 /\ sum' = TRUE
  /\ Disconnected /\ timer' = "off" /\ retryTimer' = FALSE /\ restart' = "reset"
  /\ stale' = FALSE

\* The boot loader consumes the request for an upgrade.
Reboot ==
  /\ restart = "reset"
  /\ restart' = "no"
  /\ status' = IF status = "CHECK" THEN "IDLE" ELSE status
  /\ UNCHANGED <<data, length, info, conn, timer, retryTimer, stale, losses>>

-----------------------------------------------------------------------------
(* sm_http_start and sm_http_retry.                                          *)

\* sm_socket_creat succeeds: 20 s are allowed for the connection.
Created ==
  /\ soc' = "connecting" /\ timer' = "connect"
  /\ UNCHANGED <<reading, blocked, request, reply>>

\* sm_flash_erase_fota_area: the length and the status are in that area.
EraseArea == data' = Blank /\ length' = Erased /\ status' = "BLANK"

\* Mutant: a download does not exclude another one.
AlwaysStart == restart # "reset" /\ (restart = "timer" => LateQuery /\ ~good)

\* One download at a time.  A restart that is due keeps no query from coming in.
CanStart == ~busy /\ restart # "reset" /\ (restart = "timer" => LateQuery /\ ~good)

\* The query was answered with a URL and an MD5.  The area is erased whatever
\* sm_socket_creat returned; when it fails, it has called sm_http_close back.
Start ==
  /\ CanStart
  /\ busy' = TRUE
  /\ sum' \in IF good THEN {TRUE} ELSE Sums
  /\ state' = "IDLE" /\ cur' = 0 /\ bin' = 0 /\ retry' = 0
  /\ \/ Created /\ UNCHANGED <<retryTimer, losses>>
     \/ Lost /\ retryTimer' = TRUE /\ timer' = "off" /\ UNCHANGED conn
  /\ EraseArea
  /\ UNCHANGED <<stale, restart>>

\* The retry timer (60 s); a restart that is due (10 s) comes first.  When
\* sm_socket_creat fails on the last attempt, sm_http_close has freed
\* sm_download_info, which is then dereferenced (line 762): the device resets,
\* or what is read there ends the download.
Retry ==
  /\ retryTimer /\ restart = "no"
  /\ \/ /\ Created
        /\ retryTimer' = FALSE /\ retry' = retry + 1
        /\ UNCHANGED <<busy, state, cur, bin, sum, restart, stale, losses>>
     \/ /\ Lost
        /\ retry < RetryCount
        /\ retry' = retry + 1
        /\ UNCHANGED <<busy, state, cur, bin, sum, conn, timers, stale>>
     \/ /\ Lost
        /\ retry >= RetryCount
        /\ \/ Reset
           \/ /\ busy' = FALSE /\ retryTimer' = FALSE /\ retry' = retry + 1
              /\ UNCHANGED <<state, cur, bin, sum, conn, timer, restart, stale>>
  /\ UNCHANGED flash

\* The connect timer: every callback closes the socket.  It goes off when the
\* network has nothing more to bring; or too early, which is one of its failures.
\* The one that waits for data divides by bin_len first.
Timeout ==
  /\ timer # "off" /\ ~reading /\ restart = "no"
  /\ \/ soc = "open" /\ request = "none" /\ ~Pending /\ UNCHANGED losses
     \/ Lost
  /\ \/ Close(retry) /\ UNCHANGED <<state, cur, bin, sum, restart>>
     \/ timer = "read" /\ bin = 0 /\ DivisionTraps /\ ~good /\ Reset
  /\ UNCHANGED flash

\* SM_RESTART_TIMER_ID
RestartTimer ==
  /\ restart = "timer" /\ ~reading
  /\ Reset
  /\ UNCHANGED <<flash, losses>>

-----------------------------------------------------------------------------
(* Socket events, dispatched by sm_soc_message_dispatch.                     *)

\* sm_package_http_quest
Request == IF cur > 0 THEN "range" ELSE "full"

\* sm_http_write.  Each turn of its loop sends the request from its start, so
\* what arrives after a partial send is garbled.
HttpWrite ==
  /\ \/ request' = Request /\ blocked' = FALSE /\ timer' = "connect" /\ UNCHANGED losses
     \/ Lost /\ request' = "garbled" /\ blocked' = FALSE /\ timer' = "connect"
     \/ Lost /\ request' \in {request, "garbled"} /\ blocked' = TRUE /\ timer' = "write"
  /\ soc' = "open" /\ state' = "WAIT_ACK"
  /\ UNCHANGED <<busy, cur, bin, retry, sum, reading, reply, retryTimer, stale>>

\* send fails, as it does on a socket that is not connected.
SendFails == Close(retry) /\ UNCHANGED <<state, cur, bin, sum>>

Connect ==
  /\ soc = "connecting"
  /\ HttpWrite \/ (Lost /\ SendFails)
  /\ UNCHANGED <<flash, restart>>

Writable ==
  /\ soc = "open" /\ blocked /\ ~reading
  /\ HttpWrite \/ (Lost /\ SendFails)
  /\ UNCHANGED <<flash, restart>>

\* SOC_CLOSE, or SOC_CONNECT with an error: the server closes when it has sent
\* everything, or the connection is lost.
SocketClosed ==
  /\ soc # "none" /\ ~reading
  /\ \/ soc = "open" /\ reply.head # "none" /\ ~Pending /\ UNCHANGED losses
     \/ Lost
  /\ Close(retry)
  /\ UNCHANGED <<flash, state, cur, bin, sum, restart>>

\* An event of an earlier socket finds one with the same number that is not
\* connected yet: its handler closes it, or sm_http_read is told that there is
\* nothing to receive.  It is ignored when there is no such socket.
StaleEvent ==
  /\ stale /\ ~reading
  /\ stale' = FALSE
  /\ \/ /\ soc = "connecting" /\ Lost
        /\ Disconnected /\ timer' = "off" /\ ConnectError(retry)
        /\ UNCHANGED <<state, cur, bin, retry, sum>>
     \/ /\ soc = "connecting"
        /\ timer' = "read"
        /\ UNCHANGED <<info, conn, retryTimer, losses>>
     \/ UNCHANGED <<info, conn, timer, retryTimer, losses>>
  /\ UNCHANGED <<flash, restart>>

\* SOC_READ: sm_http_read begins.
Readable ==
  /\ soc = "open" /\ Pending /\ ~reading
  /\ reading' = TRUE /\ timer' = "off"
  /\ UNCHANGED <<flash, info, soc, blocked, request, reply, retryTimer, restart, stale, losses>>

-----------------------------------------------------------------------------
(* The loop of sm_http_read.                                                 *)

RecvNothing ==
  /\ reading
  /\ reading' = FALSE /\ timer' = "read"
  /\ UNCHANGED <<flash, info, soc, blocked, request, reply, retryTimer, restart, stale, losses>>

RecvFails ==
  /\ reading /\ Lost
  /\ Close(retry)
  /\ UNCHANGED <<flash, state, cur, bin, sum, restart>>

\* A turn of the loop is over; it goes on while cur_len < bin_len.
LoopWhile(c, n) ==
  /\ reading' = (c < n)
  /\ UNCHANGED <<busy, retry, soc, blocked, request, timer, retryTimer, stale>>

\* The patch is there and its MD5 is right: the device restarts in 10 s, or now.
Accept(now) ==
  /\ status' = "CHECK"
  /\ \/ now /\ Reset
     \/ /\ ~now
        /\ restart' = "timer" /\ reading' = FALSE
        /\ UNCHANGED <<busy, retry, sum, soc, blocked, request, timer, retryTimer, stale>>

\* It is there and wrong: it is given up, and what was written stays on flash.
\* sm_download_info is freed and line 736 reads through it: the device resets,
\* or the loop ends, if need be at the error of the next recv.
Discard ==
  /\ UNCHANGED status
  /\ Reset \/ (Close(RetryCount + 1) /\ UNCHANGED <<sum, restart>>)

Judge(now) == IF Verified(data', length') THEN Accept(now) ELSE Discard

\* Something has been written; cur_len is now c and bin_len n, and `left' what
\* is still to come.
Received(left, c, n, now) ==
  \/ /\ c # n
     /\ state' = "TRANSING" /\ cur' = c /\ bin' = n
     /\ reply' = left
     /\ LoopWhile(c, n)
     /\ UNCHANGED <<status, sum, restart>>
  \/ /\ c = n
     /\ Judge(now)
     /\ restart' = "reset" \/ /\ state' = "TRANSING" /\ cur' = c /\ bin' = n
                              /\ soc' = "open" => reply' = left

Taken(k) == [head |-> "taken", at |-> reply.at + k]

Chunks == 0 .. IF FileLen - reply.at < MaxChunk THEN FileLen - reply.at ELSE MaxChunk

\* 200: the body goes to the start of the area; cur_len grows by it.
RecvSuccess ==
  /\ reading /\ reply.head \in {"ok", "nolength"}
  /\ \E k \in Chunks :
       LET n == IF reply.head = "ok" THEN FileLen ELSE 0
       IN  /\ length' = Over(length, n)
           /\ Write(0, reply.at, k)
           /\ Received(Taken(k), cur + k, n, FALSE)
  /\ UNCHANGED losses

\* Mutant: the body goes behind the place where it belongs.
RecvRangeLate ==
  /\ reading /\ reply.head = "range"
  /\ UNCHANGED <<length, losses>>
  /\ \E k \in Chunks : Write(cur + k, reply.at, k) /\ Received(Taken(k), cur + k, bin, FALSE)

\* 206: the body goes behind what is there.
RecvRange ==
  /\ reading /\ reply.head = "range"
  /\ UNCHANGED <<length, losses>>
  /\ \E k \in Chunks : Write(cur, reply.at, k) /\ Received(Taken(k), cur + k, bin, FALSE)

\* A head that comes in two parts is parsed from the first: headLen is 0, and it
\* is written as if it were the patch; Content-Length may be in the other part.
RecvHalfHead ==
  /\ reading /\ reply.head = "split"
  /\ \E n \in {0, FileLen} :
       /\ length' = Over(length, n)
       /\ WriteText(0)
       /\ Received([head |-> "half", at |-> 0], cur + 1, n, FALSE)
  /\ UNCHANGED losses

\* The rest of that head is taken for the patch, too.
RecvOtherHalf ==
  /\ reading /\ reply.head = "half"
  /\ UNCHANGED <<length, losses>>
  /\ WriteText(cur)
  /\ Received([head |-> "taken", at |-> 0], cur + 1, bin, TRUE)

\* What follows the head.
RecvBody ==
  /\ reading /\ reply.head = "taken"
  /\ UNCHANGED <<length, losses>>
  /\ \E k \in Chunks \ {0} : Write(cur, reply.at, k) /\ Received(Taken(k), cur + k, bin, TRUE)

\* A file that does not fit is given up at once.
RecvTooBig ==
  /\ reading /\ reply.head = "big"
  /\ Close(RetryCount + 1)
  /\ UNCHANGED <<flash, state, cur, bin, sum, restart, losses>>

\* 302 is not followed; any other answer ends the loop without a timer.
RecvRefusal ==
  /\ reading /\ reply.head \in {"redirect", "other"}
  /\ reply' = [head |-> "taken", at |-> FileLen]
  /\ reading' = (reply.head = "redirect" /\ cur < bin)
  /\ UNCHANGED <<flash, info, soc, blocked, request, timers, stale, losses>>

Receive == RecvSuccess \/ RecvRange \/ RecvHalfHead \/ RecvOtherHalf \/ RecvBody \/ RecvTooBig \/ RecvRefusal

-----------------------------------------------------------------------------
\* The server: it answers a request for the rest from there on, if there is a
\* rest, and may answer otherwise.
Answer ==
  /\ request # "none" /\ reply = NoReply
  /\ \E h \in Heads :
       /\ \/ request = "full"    /\ h = "ok"
          \/ request = "range"   /\ h = IF cur < FileLen THEN "range" ELSE "other"
          \/ request = "range"   /\ h = "ok" /\ "whole" \in Answers /\ ~good
          \/ request = "garbled" /\ h = "other"
          \/ request # "garbled" /\ h \in Answers /\ ~good
       /\ reply' = [head |-> h, at |-> IF h = "range" THEN cur ELSE 0]
  /\ request' = "none"
  /\ UNCHANGED <<flash, info, soc, reading, blocked, timers, stale, losses>>

Callback == \/ Retry \/ Timeout \/ RestartTimer
            \/ Connect \/ Writable \/ SocketClosed \/ StaleEvent \/ Readable
            \/ RecvNothing \/ RecvFails \/ Receive

Next == (Start \/ Callback \/ Reboot \/ Answer) /\ UNCHANGED good

Spec == Init /\ [][Next]_vars

(***************************************************************************)
(* Timers go off, the socket layer reports what happens, and the server    *)
(* answers, sends what it has announced and then closes the connection.    *)
(***************************************************************************)
Same(A) == A /\ UNCHANGED good

Fairness ==
  /\ WF_vars(Same(Retry)) /\ WF_vars(Same(Timeout)) /\ WF_vars(Same(RestartTimer)) /\ WF_vars(Same(Reboot))
  /\ WF_vars(Same(Connect)) /\ WF_vars(Same(Readable)) /\ WF_vars(Same(RecvNothing \/ Receive))
  /\ WF_vars(Same(Answer)) /\ WF_vars(Same(SocketClosed))
  /\ SF_vars(Same(Receive))

FairSpec == Spec /\ Fairness

-----------------------------------------------------------------------------

(***************************************************************************)
(* The status says CHECK, which makes the boot loader apply the patch, only*)
(* while the whole patch that was announced is on flash.                   *)
(***************************************************************************)
FlagMeansWhole == status = "CHECK" => Whole(data, length)

(***************************************************************************)
(* What sm_download_info counts as received is on flash, in its place, when*)
(* only the connection fails: the Range of the next request relies on it.  *)
(***************************************************************************)
PrefixIntact == good /\ busy => \A i \in 0 .. cur - 1 : i < Area /\ data[i] = i

(***************************************************************************)
(* A download without a connection waits for the retry timer, and the retry*)
(* timer runs for nothing else: otherwise a retry would put sm_pHttpNode   *)
(* into the list of sockets twice, or never come.  The connect timer runs  *)
(* only during a connection, and always until an answer begins; after that *)
(* the code may leave the connection without one (sm_download.c:682, and   *)
(* the loop of sm_http_read when it ends), and the server has to close it. *)
(***************************************************************************)
TimersMatch ==
  /\ retryTimer <=> busy /\ soc = "none"
  /\ timer # "off" => soc # "none"
  /\ soc # "none" => busy
  /\ soc # "none" /\ reply.head = "none" => timer # "off"

(***************************************************************************)
(* Every download ends, with a patch or without, so that the next one can  *)
(* begin.                                                                  *)
(***************************************************************************)
DownloadEnds == busy ~> ~busy

(***************************************************************************)
(* When only the connection fails, a download survives as many failures of *)
(* it as there are retries: the patch is verified.                         *)
(***************************************************************************)
DownloadSucceeds == good /\ busy ~> status = "CHECK"
=============================================================================
