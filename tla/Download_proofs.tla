--------------------------- MODULE Download_proofs ---------------------------
(***************************************************************************)
(* What holds of the download of a patch for every size of file, area and  *)
(* chunk, every number of retries, and whatever the server answers: the    *)
(* timers fit the connection (TimersMatch), what is counted as received is *)
(* on flash (PrefixIntact), and the boot loader is asked to apply a patch  *)
(* only while the whole of it is there (FlagMeansWhole).                   *)
(*                                                                         *)
(* FlagMeansWhole has to outlive what happens while the restart is due, 10 *)
(* seconds in which the connection is still open.  FlagOK says why nothing *)
(* harms the patch then: what may still arrive goes behind cur_len, the end*)
(* of the file is not before it (Behind), and there is no request under way*)
(* whose answer would be written to the start of the area (ConnectionOK).  *)
(***************************************************************************)
EXTENDS Download, TLAPS

-----------------------------------------------------------------------------
(* The invariant.                                                          *)

Cells == 0 .. Area - 1

Types ==
  /\ good \in BOOLEAN /\ busy \in BOOLEAN /\ reading \in BOOLEAN
  /\ blocked \in BOOLEAN /\ retryTimer \in BOOLEAN
  /\ data \in [Cells -> Int] /\ length \in Int
  /\ cur \in Nat /\ bin \in Nat /\ retry \in Nat
  /\ soc \in {"none", "connecting", "open"}
  /\ reply \in [head : Heads \cup {"none", "half", "taken"}, at : 0 .. FileLen]

\* Nothing of what the server has sent will be written.
Quiet == reply.head \in {"none", "other"} \/ (reply.head = "taken" /\ reply.at = FileLen)

\* The server answers one request per connection, and a request that could not be
\* sent as a whole only with a refusal.
ConnectionOK ==
  /\ reading => soc = "open"
  /\ restart = "reset" => soc = "none"
  /\ soc # "open" => reply = NoReply /\ request = "none" /\ ~blocked
  /\ blocked => request \in {"none", "garbled"}
  /\ blocked \/ request # "none" => Quiet

\* Nothing is written behind cur_len.
Behind == busy => \A i \in Cells : i >= cur => data[i] = Erased

FlagOK ==
  status = "CHECK" =>
    /\ Whole(data, length) /\ restart # "no"
    /\ soc # "none" => soc = "open" /\ request = "none" /\ ~blocked /\ reply.head = "taken"

\* While only the connection fails, what the server sends is what comes next.
NextComes ==
  good /\ busy =>
    /\ cur <= FileLen
    /\ request = "full" => cur = 0
    /\ reply.head \in {"none", "ok", "range", "other", "taken"}
    /\ reply.head = "ok" => cur = 0 /\ reply.at = 0
    /\ reply.head = "range" => reply.at = cur
    /\ reply.head = "taken" => reply.at \in {cur, FileLen}

DownloadInv ==
  Types /\ TimersMatch /\ ConnectionOK /\ Behind /\ FlagOK /\ NextComes /\ PrefixIntact

-----------------------------------------------------------------------------
(* Numbers and cells.                                                      *)

\* FileLen fits the area.
LEMMA Sizes == FileLen \in Nat \ {0} /\ Area \in Nat \ {0} /\ FileLen <= Area /\ RetryCount \in Nat
BY DownloadAssumption

\* Flash holds bytes whatever is written over what.
LEMMA OverType ==
  ASSUME NEW o \in Int, NEW n \in Int
  PROVE  Over(o, n) \in Int /\ Over(o, n) \in {n, Mixed} /\ Over(n, n) = n /\ Over(Erased, n) = n
BY DEF Over, Mixed, Erased

\* A write reaches the cells it is about and no other.
LEMMA WriteFacts ==
  ASSUME Types, NEW off \in Nat, NEW from \in Nat, NEW k \in Nat, Write(off, from, k)
  PROVE  /\ data' \in [Cells -> Int]
         /\ \A i \in Cells : i < off \/ i >= off + k => data'[i] = data[i]
         /\ good /\ off + k <= Area =>
              \A i \in Cells : i >= off /\ i < off + k => data'[i] = Over(data[i], from + (i - off))
<1>1. Area \in Nat /\ data \in [Cells -> Int]
  BY Sizes DEF Types
<1>2. CASE data' = [i \in 0 .. Area - 1 |->
                      IF i >= off /\ i < off + k /\ off + k <= Area
                        THEN Over(data[i], from + (i - off)) ELSE data[i]]
  <2>1. \A i \in Cells : i >= off => data[i] \in Int /\ from + (i - off) \in Int
    BY <1>1 DEF Cells
  <2>2. \A i \in Cells : i >= off => Over(data[i], from + (i - off)) \in Int
    BY <2>1, OverType
  <2> QED BY <1>1, <1>2, <2>2 DEF Cells
<1>3. CASE ~good /\ data' = data
  BY <1>1, <1>3
<1> QED BY <1>2, <1>3 DEF Write

\* What is no part of the patch spoils a cell at most.
LEMMA WriteTextFacts ==
  ASSUME Types, NEW off \in Nat, WriteText(off)
  PROVE  /\ data' \in [Cells -> Int]
         /\ \A i \in Cells : i # off => data'[i] = data[i]
<1>1. CASE data' = [i \in 0 .. Area - 1 |-> IF i = off THEN Mixed ELSE data[i]]
  BY <1>1 DEF Types, Cells, Mixed
<1>2. CASE data' = data
  BY <1>2 DEF Types
<1> QED BY <1>1, <1>2 DEF WriteText

\* Nothing under way on a socket.
LEMMA NoReplyType == NoReply \in [head : Heads \cup {"none", "half", "taken"}, at : 0 .. FileLen] /\ NoReply.head = "none"
BY Sizes DEF NoReply

\* A patch that is whole reaches as far as anything was written.
LEMMA WholeReaches ==
  ASSUME NEW d \in [Cells -> Int], NEW n, Whole(d, n), NEW c \in Nat,
         \A i \in Cells : i >= c => d[i] = Erased
  PROVE  c >= FileLen
<1>1. FileLen - 1 \in Cells /\ d[FileLen - 1] = FileLen - 1 /\ FileLen - 1 # Erased
  BY Sizes DEF Whole, Cells, Erased
<1> QED BY <1>1, Sizes DEF Cells

-----------------------------------------------------------------------------
(* How a step can end.                                                     *)

\* The device resets: all that is left is what is on flash.
LEMMA ResetKeeps ==
  ASSUME DownloadInv, UNCHANGED good, Reset,
         data' \in [Cells -> Int], length' \in Int,
         status' = "CHECK" => Whole(data', length')
  PROVE  DownloadInv'
<1>1. /\ busy' = FALSE /\ state' = "IDLE" /\ cur' = 0 /\ bin' = 0 /\ retry' = 0 /\ good' = good
      /\ soc' = "none" /\ reading' = FALSE /\ blocked' = FALSE /\ request' = "none" /\ reply' = NoReply
      /\ timer' = "off" /\ retryTimer' = FALSE /\ restart' = "reset"
  BY DEF Reset, Disconnected
<1>2. Types'
  BY <1>1, NoReplyType DEF Types, DownloadInv
<1> QED BY <1>1, <1>2 DEF DownloadInv, TimersMatch, ConnectionOK, Behind, FlagOK, NextComes, PrefixIntact

\* What is on flash after a step of which c cells count as received.
FlashOK(c) ==
  /\ data' \in [Cells -> Int] /\ length' \in Int
  /\ c \in Nat
  /\ \A i \in Cells : i >= c => data'[i] = Erased
  /\ good => c <= FileLen /\ \A i \in 0 .. c - 1 : i < Area /\ data'[i] = i

\* What sm_socket_close and its callback leave of the connection.
Closed(n) == retry' = n /\ Disconnected /\ timer' = "off" /\ ConnectError(n)

\* The socket is closed: the download waits for its retry or is over.
LEMMA CloseKeeps ==
  ASSUME DownloadInv, UNCHANGED <<good, restart>>, soc # "none", NEW n \in Nat, Closed(n), FlashOK(cur'),
         bin' \in Nat,
         status' = "CHECK" => Whole(data', length') /\ restart # "no"
  PROVE  DownloadInv'
<1>1. /\ retry' = n /\ good' = good /\ restart' = restart
      /\ soc' = "none" /\ reading' = FALSE /\ blocked' = FALSE /\ request' = "none" /\ reply' = NoReply
      /\ timer' = "off"
  BY DEF Closed, Disconnected
<1>4. \/ retryTimer' = TRUE /\ busy' = busy
      \/ busy' = FALSE /\ retryTimer' = retryTimer
  BY Zenon DEF Closed, ConnectError
<1>2. busy /\ ~retryTimer
  BY DEF DownloadInv, TimersMatch, Types
<1>3. Types'
  BY <1>1, <1>2, <1>4, NoReplyType DEF Types, DownloadInv, FlashOK
<1>5. TimersMatch' /\ ConnectionOK'
  <2>1. retryTimer' <=> busy'
    <3>1. CASE retryTimer' = TRUE /\ busy' = busy
      BY <1>2, <3>1, Zenon
    <3>2. CASE busy' = FALSE /\ retryTimer' = retryTimer
      BY <1>2, <3>2, Zenon
    <3> QED BY <1>4, <3>1, <3>2
  <2> QED BY <1>1, <2>1 DEF TimersMatch, ConnectionOK
<1>6. Behind' /\ PrefixIntact'
  <2>1. good' = good
    OBVIOUS
  <2>2. Behind'
    BY DEF Behind, FlashOK
  <2>3. PrefixIntact'
    <3>1. good' => good
      BY <2>1
    <3>2. good => \A i \in 0 .. cur' - 1 : i < Area /\ data'[i] = i
      BY DEF FlashOK
    <3> QED BY <3>1, <3>2 DEF PrefixIntact
  <2> QED BY <2>2, <2>3
<1>7. FlagOK'
  BY <1>1 DEF FlagOK
<1>8. NextComes'
  BY <1>1, NoReplyType DEF NextComes, FlashOK
<1> QED BY <1>3, <1>5, <1>6, <1>7, <1>8 DEF DownloadInv

\* Flash as it is.
LEMMA SameFlash ==
  ASSUME DownloadInv, busy, UNCHANGED <<good, data, length, cur>>
  PROVE  FlashOK(cur)
BY DEF DownloadInv, Types, Behind, NextComes, PrefixIntact, FlashOK

\* The loop of sm_http_read has written something; `left' is still to come.
LEMMA ReceivedKeeps ==
  ASSUME DownloadInv, UNCHANGED good, reading, ~blocked, request = "none",
         NEW c, NEW n \in Nat, NEW left, NEW now \in BOOLEAN,
         FlashOK(c), Received(left, c, n, now),
         left \in [head : {"half", "taken"}, at : 0 .. FileLen],
         c = n /\ Whole(data', length') => left.head = "taken",
         status = "CHECK" => Whole(data', length') /\ left.head = "taken",
         good => left.head = "taken" /\ left.at = c
  PROVE  DownloadInv'
<1>1. soc = "open" /\ busy /\ ~retryTimer
  BY DEF DownloadInv, TimersMatch, ConnectionOK, Types
<1>2. good' = good
  OBVIOUS
<1> DEFINE Goes == /\ UNCHANGED <<busy, retry, soc, blocked, request, timer, retryTimer>>
                   /\ reading' \in BOOLEAN
<1>3. ASSUME Goes, cur' = c, bin' = n, reply' = left, restart' # "reset",
             status' = "CHECK" => Whole(data', length') /\ restart' # "no" /\ left.head = "taken"
      PROVE  DownloadInv'
  <2>1. Types'
    BY <1>2, <1>3 DEF Types, DownloadInv, FlashOK
  <2>2. TimersMatch'
    BY <1>1, <1>3 DEF DownloadInv, TimersMatch
  <2>3. ConnectionOK'
    BY <1>1, <1>3 DEF DownloadInv, ConnectionOK
  <2>4. Behind' /\ PrefixIntact'
    BY <1>1, <1>2, <1>3 DEF Behind, PrefixIntact, FlashOK
  <2>5. FlagOK'
    BY <1>1, <1>3 DEF FlagOK
  <2>6. NextComes'
    BY <1>1, <1>2, <1>3 DEF NextComes, FlashOK
  <2> QED BY <2>1, <2>2, <2>3, <2>4, <2>5, <2>6 DEF DownloadInv
<1>4. CASE c # n
  <2>1. Goes /\ cur' = c /\ bin' = n /\ reply' = left /\ UNCHANGED <<status, restart>>
    <3>1. /\ cur' = c /\ bin' = n /\ reply' = left /\ LoopWhile(c, n) /\ UNCHANGED <<status, restart>>
      BY <1>4, Zenon DEF Received
    <3>2. (c < n) \in BOOLEAN
      OBVIOUS
    <3> QED BY <3>1, <3>2, Zenon DEF LoopWhile
  <2>2. status' = "CHECK" => Whole(data', length') /\ restart' # "no" /\ left.head = "taken"
    BY <2>1 DEF DownloadInv, FlagOK
  <2>3. restart' # "reset"
    BY <1>1, <2>1 DEF DownloadInv, ConnectionOK
  <2> QED BY <1>3, <2>1, <2>2, <2>3
<1>5. CASE c = n /\ Verified(data', length')
  <2>1. Accept(now)
    BY <1>5 DEF Received, Judge
  <2>2. CASE Reset
    BY <1>5, <2>2, ResetKeeps DEF FlashOK, Verified
  <2>3. CASE /\ restart' = "timer" /\ reading' = FALSE
             /\ UNCHANGED <<busy, retry, sum, soc, blocked, request, timer, retryTimer, stale>>
    <3>1. cur' = c /\ bin' = n /\ reply' = left
      BY <1>1, <1>5, <2>3 DEF Received
    <3> QED BY <1>3, <1>5, <2>3, <3>1 DEF Verified
  <2> QED BY <2>1, <2>2, <2>3 DEF Accept
<1>6. CASE c = n /\ ~ Verified(data', length')
  <2>1. Discard
    BY <1>6 DEF Received, Judge
  <2>2. CASE Reset
    BY <2>1, <2>2, ResetKeeps DEF FlashOK, Discard
  <2>3. CASE Close(RetryCount + 1) /\ UNCHANGED <<sum, restart>>
    <3>1. status' = status
      BY <2>1 DEF Discard
    <3>2. restart' # "reset"
      BY <1>1, <2>3 DEF DownloadInv, ConnectionOK
    <3>3. cur' = c /\ bin' = n
      BY <1>6, <3>2 DEF Received
    <3>4. FlashOK(cur')
      BY <3>3
    <3>5. status' = "CHECK" => Whole(data', length') /\ restart # "no"
      BY <3>1 DEF DownloadInv, FlagOK
    <3>6. RetryCount + 1 \in Nat
      BY Sizes
    <3> QED BY <1>1, <2>3, <3>3, <3>4, <3>5, <3>6, CloseKeeps DEF Close, Closed
  <2> QED BY <2>1, <2>2, <2>3 DEF Discard
<1> QED BY <1>4, <1>5, <1>6

-----------------------------------------------------------------------------
(* Every step preserves it.                                                *)

\* At first there is nothing.
LEMMA InitDownload == Init => DownloadInv
<1> SUFFICES ASSUME Init PROVE DownloadInv
  OBVIOUS
<1>1. Types
  <2>1. good \in BOOLEAN
    BY DownloadAssumption DEF Init
  <2>2. data \in [Cells -> Int] /\ length \in Int
    BY DEF Init, Blank, Cells, Erased
  <2> QED BY <2>1, <2>2, NoReplyType DEF Init, Types
<1> QED BY <1>1, NoReplyType
        DEF Init, DownloadInv, TimersMatch, ConnectionOK, Behind, FlagOK, NextComes, PrefixIntact

\* The boot loader has read the status.
LEMMA RebootKeeps ==
  ASSUME DownloadInv, Reboot, UNCHANGED good
  PROVE  DownloadInv'
<1>1. /\ UNCHANGED <<good, data, length, busy, cur, bin, retry, soc, reading, blocked, request, reply,
                     timer, retryTimer>>
      /\ restart' = "no" /\ status' # "CHECK"
  BY DEF Reboot, info, conn
<1> QED BY <1>1 DEF DownloadInv, Types, TimersMatch, ConnectionOK, Behind, FlagOK, NextComes, PrefixIntact, Quiet

\* An area that was erased holds nothing, and the status is erased with it.
LEMMA StartKeeps ==
  ASSUME DownloadInv, Start, UNCHANGED good
  PROVE  DownloadInv'
<1>1. /\ ~busy /\ restart # "reset" /\ soc = "none" /\ ~reading /\ ~blocked
      /\ request = "none" /\ reply = NoReply /\ ~retryTimer /\ timer = "off"
  BY DEF Start, CanStart, DownloadInv, TimersMatch, ConnectionOK, Types
<1>2. /\ good' = good /\ busy' = TRUE /\ cur' = 0 /\ bin' = 0 /\ retry' = 0
      /\ data' = Blank /\ length' = Erased /\ status' = "BLANK" /\ restart' = restart
  BY DEF Start, EraseArea
<1>3. /\ reading' = FALSE /\ blocked' = FALSE /\ request' = "none" /\ reply' = NoReply
      /\ \/ soc' = "connecting" /\ timer' = "connect" /\ retryTimer' = FALSE
         \/ soc' = "none" /\ timer' = "off" /\ retryTimer' = TRUE
  <2>1. CASE Created /\ UNCHANGED <<retryTimer, losses>>
    BY <1>1, <2>1 DEF Created
  <2>2. CASE Lost /\ retryTimer' = TRUE /\ timer' = "off" /\ UNCHANGED conn
    BY <1>1, <2>2 DEF conn
  <2> QED BY <2>1, <2>2 DEF Start
<1>4. Types'
  <2>1. good' \in BOOLEAN
    BY <1>2 DEF DownloadInv, Types
  <2>2. data' \in [Cells -> Int] /\ length' \in Int
    BY <1>2 DEF Blank, Cells, Erased
  <2> QED BY <1>2, <1>3, <2>1, <2>2, NoReplyType DEF Types
<1>5. TimersMatch' /\ ConnectionOK'
  BY <1>1, <1>2, <1>3 DEF TimersMatch, ConnectionOK
<1>6. Behind' /\ PrefixIntact' /\ FlagOK' /\ NextComes'
  BY <1>2, <1>3, Sizes, NoReplyType DEF Behind, PrefixIntact, FlagOK, NextComes, Blank, Cells
<1> QED BY <1>4, <1>5, <1>6 DEF DownloadInv

\* Nothing is on its way when a connection is tried again.
LEMMA RetryKeeps ==
  ASSUME DownloadInv, Retry, UNCHANGED good
  PROVE  DownloadInv'
<1>1. /\ busy /\ soc = "none" /\ restart = "no" /\ retryTimer /\ ~reading /\ ~blocked
      /\ request = "none" /\ reply = NoReply /\ timer = "off" /\ retry + 1 \in Nat /\ status # "CHECK"
  BY DEF Retry, DownloadInv, TimersMatch, ConnectionOK, Types, FlagOK
<1>2. UNCHANGED <<good, data, length, status>>
  BY DEF Retry, flash
<1>3. FlashOK(cur)
  BY <1>1, <1>2 DEF DownloadInv, Types, Behind, NextComes, PrefixIntact, FlashOK
<1>4. CASE Reset
  BY <1>1, <1>2, <1>3, <1>4, ResetKeeps DEF FlashOK
<1>5. CASE /\ UNCHANGED <<cur, bin, reading, blocked, request, reply, restart>>
           /\ retry' = retry + 1
           /\ \/ soc' = "connecting" /\ timer' = "connect" /\ retryTimer' = FALSE /\ busy' = busy
              \/ soc' = soc /\ timer' = timer /\ retryTimer' = retryTimer /\ busy' = busy
              \/ soc' = soc /\ timer' = timer /\ retryTimer' = FALSE /\ busy' = FALSE
  <2>1. good' => good
    BY <1>2
  <2>2. Types'
    BY <1>1, <1>2, <1>5 DEF Types, DownloadInv
  <2>3. TimersMatch' /\ ConnectionOK' /\ FlagOK'
    BY <1>1, <1>2, <1>5 DEF TimersMatch, ConnectionOK, FlagOK
  <2>4. Behind' /\ PrefixIntact' /\ NextComes'
    BY <1>1, <1>3, <1>5, <2>1, NoReplyType DEF FlashOK, Behind, PrefixIntact, NextComes
  <2> QED BY <2>2, <2>3, <2>4 DEF DownloadInv
<1> QED BY <1>4, <1>5 DEF Retry, Created, timers, conn

\* A step that closes the socket and leaves flash alone.
LEMMA EndKeeps ==
  ASSUME DownloadInv, UNCHANGED <<good, flash, cur, bin, restart>>, soc # "none", NEW n \in Nat, Closed(n)
  PROVE  DownloadInv'
<1>1. busy /\ bin' \in Nat /\ cur' = cur
  BY DEF DownloadInv, TimersMatch, Types
<1>2. UNCHANGED <<data, length, status>>
  BY DEF flash
<1>3. FlashOK(cur')
  <2>1. FlashOK(cur)
    BY <1>1, <1>2, SameFlash
  <2> QED BY <1>1, <2>1
<1>4. status' = "CHECK" => Whole(data', length') /\ restart # "no"
  BY <1>2 DEF DownloadInv, FlagOK
<1>5. UNCHANGED <<good, restart>>
  OBVIOUS
<1> QED BY <1>1, <1>3, <1>4, <1>5, CloseKeeps

\* A reset leaves flash as it is.
LEMMA FaultKeeps ==
  ASSUME DownloadInv, UNCHANGED <<good, flash>>, Reset
  PROVE  DownloadInv'
<1>1. UNCHANGED <<data, length, status>> /\ good' = good
  BY DEF flash
<1>2. /\ data' \in [Cells -> Int] /\ length' \in Int
      /\ status' = "CHECK" => Whole(data', length')
  BY <1>1 DEF DownloadInv, Types, FlagOK
<1> QED BY <1>1, <1>2, ResetKeeps

\* The timer goes off, and the callback closes the socket.
LEMMA TimeoutKeeps ==
  ASSUME DownloadInv, Timeout, UNCHANGED good
  PROVE  DownloadInv'
<1>1. UNCHANGED <<good, flash>> /\ soc # "none" /\ retry \in Nat
  BY DEF Timeout, DownloadInv, TimersMatch, Types
<1>2. CASE Reset
  BY <1>1, <1>2, FaultKeeps
<1>3. CASE Close(retry) /\ UNCHANGED <<state, cur, bin, sum, restart>>
  BY <1>1, <1>3, EndKeeps DEF Close, Closed
<1> QED BY <1>2, <1>3 DEF Timeout

\* The restart that is due takes place.
LEMMA RestartTimerKeeps ==
  ASSUME DownloadInv, RestartTimer, UNCHANGED good
  PROVE  DownloadInv'
BY FaultKeeps DEF RestartTimer

\* A request is sent, or what has left of it is garbled.
LEMMA HttpWriteKeeps ==
  ASSUME DownloadInv, HttpWrite, UNCHANGED <<good, flash, restart>>, soc # "none",
         soc = "connecting" \/ blocked
  PROVE  DownloadInv'
<1>1. busy /\ ~retryTimer /\ restart # "reset" /\ Quiet /\ request \in {"none", "garbled"}
  BY NoReplyType DEF DownloadInv, TimersMatch, ConnectionOK, Types, Quiet
<1>2. /\ UNCHANGED <<good, data, length, status, restart, busy, cur, bin, retry, reading, reply, retryTimer>>
      /\ soc' = "open" /\ timer' # "off"
      /\ \/ request' = Request /\ blocked' = FALSE
         \/ request' = "garbled" /\ blocked' = FALSE
         \/ request' \in {"none", "garbled"} /\ blocked' = TRUE
  BY <1>1 DEF HttpWrite, flash
<1>3. status # "CHECK"
  <2> SUFFICES ASSUME status = "CHECK" PROVE FALSE
    OBVIOUS
  <2>1. soc = "open" /\ ~blocked
    BY DEF DownloadInv, FlagOK
  <2> QED BY <2>1
<1>4. FlashOK(cur)
  BY <1>1, <1>2, SameFlash
<1>5. Types'
  BY <1>2 DEF Types, DownloadInv
<1>6. TimersMatch'
  BY <1>1, <1>2 DEF TimersMatch
<1>7. ConnectionOK'
  BY <1>1, <1>2 DEF DownloadInv, ConnectionOK, Quiet
<1>8. FlagOK'
  BY <1>2, <1>3 DEF FlagOK
<1>9. Behind' /\ PrefixIntact'
  BY <1>2 DEF DownloadInv, Behind, PrefixIntact
<1>10. NextComes'
  <2>1. request' = "full" => cur = 0
    BY <1>2, <1>4 DEF Request, FlashOK
  <2> QED BY <1>2, <2>1 DEF DownloadInv, NextComes
<1> QED BY <1>5, <1>6, <1>7, <1>8, <1>9, <1>10 DEF DownloadInv

\* A send that fails closes the socket.
LEMMA SendFailsKeeps ==
  ASSUME DownloadInv, SendFails, UNCHANGED <<good, flash, restart>>, soc # "none"
  PROVE  DownloadInv'
BY EndKeeps DEF SendFails, Close, Closed, DownloadInv, Types

\* The connection is made, and the request sent.
LEMMA ConnectKeeps ==
  ASSUME DownloadInv, Connect, UNCHANGED good
  PROVE  DownloadInv'
BY HttpWriteKeeps, SendFailsKeeps DEF Connect

\* What was left of the request is sent.
LEMMA WritableKeeps ==
  ASSUME DownloadInv, Writable, UNCHANGED good
  PROVE  DownloadInv'
BY HttpWriteKeeps, SendFailsKeeps DEF Writable

\* The server closes the connection, or it is lost.
LEMMA SocketClosedKeeps ==
  ASSUME DownloadInv, SocketClosed, UNCHANGED good
  PROVE  DownloadInv'
BY EndKeeps DEF SocketClosed, Close, Closed, DownloadInv, Types

\* An event that is late closes a connection that is being made, or starts its timer.
LEMMA StaleEventKeeps ==
  ASSUME DownloadInv, StaleEvent, UNCHANGED good
  PROVE  DownloadInv'
<1>1. UNCHANGED <<good, flash, restart>>
  BY DEF StaleEvent
<1>2. CASE /\ soc = "connecting" /\ Lost
           /\ Disconnected /\ timer' = "off" /\ ConnectError(retry)
           /\ UNCHANGED <<state, cur, bin, retry, sum>>
  <2>1. retry \in Nat /\ Closed(retry)
    BY <1>2 DEF Closed, DownloadInv, Types
  <2>2. UNCHANGED <<good, flash, cur, bin, restart>> /\ soc # "none"
    BY <1>1, <1>2
  <2> QED BY <2>1, <2>2, EndKeeps
<1>3. ASSUME UNCHANGED <<info, conn, retryTimer, losses>>,
             timer' = timer \/ (timer' = "read" /\ soc = "connecting")
      PROVE  DownloadInv'
  <2>1. /\ UNCHANGED <<good, data, length, status, restart, busy, cur, bin, retry, reading, reply, retryTimer,
                       soc, blocked, request>>
    BY <1>1, <1>3 DEF flash, info, conn
  <2> QED BY <1>3, <2>1 DEF DownloadInv, Types, TimersMatch, ConnectionOK, Behind, FlagOK, NextComes, PrefixIntact, Quiet
<1>4. CASE UNCHANGED <<info, conn, timer, retryTimer, losses>>
  <2>1. UNCHANGED <<info, conn, retryTimer, losses>> /\ timer' = timer
    BY <1>4
  <2> QED BY <1>3, <2>1
<1>5. CASE soc = "connecting" /\ timer' = "read" /\ UNCHANGED <<info, conn, retryTimer, losses>>
  BY <1>3, <1>5
<1> QED BY <1>2, <1>4, <1>5, Zenon DEF StaleEvent

\* A call of sm_http_read begins or ends.
LEMMA ReadableKeeps ==
  ASSUME DownloadInv, Readable \/ RecvNothing, UNCHANGED good
  PROVE  DownloadInv'
<1>1. /\ UNCHANGED <<good, data, length, status, restart, busy, cur, bin, retry, reply, retryTimer,
                     soc, blocked, request>>
      /\ soc = "open"
      /\ \/ reading' = TRUE /\ timer' = "off" /\ reply.head # "none"
         \/ reading' = FALSE /\ timer' = "read"
  BY DEF Readable, RecvNothing, Pending, Heads, flash, info, DownloadInv, ConnectionOK
<1>2. Types' /\ TimersMatch'
  BY <1>1 DEF DownloadInv, Types, TimersMatch
<1>3. ConnectionOK' /\ FlagOK'
  BY <1>1 DEF DownloadInv, ConnectionOK, FlagOK, Quiet
<1> QED BY <1>1, <1>2, <1>3 DEF DownloadInv, Behind, NextComes, PrefixIntact

\* A recv that fails closes the socket.
LEMMA RecvFailsKeeps ==
  ASSUME DownloadInv, RecvFails, UNCHANGED good
  PROVE  DownloadInv'
BY EndKeeps DEF RecvFails, Close, Closed, DownloadInv, Types, ConnectionOK

\* A file that does not fit ends the download.
LEMMA RecvTooBigKeeps ==
  ASSUME DownloadInv, RecvTooBig, UNCHANGED good
  PROVE  DownloadInv'
<1>1. RetryCount + 1 \in Nat
  BY Sizes
<1>2. UNCHANGED <<good, flash, cur, bin, restart>> /\ soc # "none" /\ Closed(RetryCount + 1)
  BY DEF RecvTooBig, Close, Closed, DownloadInv, ConnectionOK
<1> QED BY <1>1, <1>2, EndKeeps

\* A refusal is all the server sends, and is not written.
LEMMA RecvRefusalKeeps ==
  ASSUME DownloadInv, RecvRefusal, UNCHANGED good
  PROVE  DownloadInv'
<1>1. /\ UNCHANGED <<good, data, length, status, restart, busy, cur, bin, retry, timer, retryTimer,
                     soc, blocked, request>>
      /\ reply.head \in {"redirect", "other"} /\ reply' = [head |-> "taken", at |-> FileLen]
      /\ reading' \in BOOLEAN /\ soc = "open"
  BY DEF RecvRefusal, flash, info, timers, DownloadInv, Types, ConnectionOK
<1>2. reply'.head = "taken" /\ reply'.at = FileLen
  BY <1>1
<1>3. Types'
  BY <1>1, Sizes DEF DownloadInv, Types
<1>4. status # "CHECK"
  BY <1>1 DEF DownloadInv, FlagOK
<1> QED BY <1>1, <1>2, <1>3, <1>4
        DEF DownloadInv, TimersMatch, ConnectionOK, Behind, FlagOK, NextComes, PrefixIntact, Quiet

\* What every turn of the loop that writes something knows.
LEMMA Receiving ==
  ASSUME DownloadInv, reading, ~Quiet
  PROVE  /\ soc = "open" /\ busy /\ ~blocked /\ request = "none"
         /\ status = "CHECK" => reply.head = "taken" /\ Whole(data, length)
         /\ Types /\ Behind /\ NextComes /\ PrefixIntact
         /\ reply.at \in 0 .. FileLen
BY DEF DownloadInv, ConnectionOK, TimersMatch, FlagOK, Types

\* The number of cells a recv returns.
LEMMA ChunkFacts ==
  ASSUME Types, NEW k \in Chunks
  PROVE  k \in Nat /\ reply.at + k \in 0 .. FileLen /\ reply.at \in Nat
         /\ Taken(k) \in [head : {"half", "taken"}, at : 0 .. FileLen]
         /\ Taken(k).head = "taken" /\ Taken(k).at = reply.at + k
BY Sizes, DownloadAssumption DEF Chunks, Types, Taken

\* The body of a 200 goes to the start of the area.
LEMMA RecvSuccessKeeps ==
  ASSUME DownloadInv, RecvSuccess, UNCHANGED good
  PROVE  DownloadInv'
<1>1. reading /\ reply.head \in {"ok", "nolength"}
  BY DEF RecvSuccess
<1>2. /\ soc = "open" /\ busy /\ ~blocked /\ request = "none" /\ status # "CHECK"
      /\ Types /\ Behind /\ NextComes /\ PrefixIntact
  BY <1>1, Receiving DEF Quiet
<1>3. PICK k \in Chunks, n \in {0, FileLen} :
        /\ length' = Over(length, n)
        /\ Write(0, reply.at, k)
        /\ Received(Taken(k), cur + k, n, FALSE)
  BY DEF RecvSuccess
<1>4. /\ k \in Nat /\ reply.at + k \in 0 .. FileLen /\ reply.at \in Nat /\ cur \in Nat /\ n \in Nat
      /\ Taken(k) \in [head : {"half", "taken"}, at : 0 .. FileLen]
      /\ Taken(k).head = "taken" /\ Taken(k).at = reply.at + k
  BY <1>2, <1>3, ChunkFacts, Sizes DEF Types
<1>5. FlashOK(cur + k)
  <2>1. /\ data' \in [Cells -> Int]
        /\ \A i \in Cells : i < 0 \/ i >= 0 + k => data'[i] = data[i]
        /\ good /\ 0 + k <= Area =>
             \A i \in Cells : i >= 0 /\ i < 0 + k => data'[i] = Over(data[i], reply.at + (i - 0))
    BY <1>2, <1>3, <1>4, WriteFacts
  <2>2. length' \in Int
    BY <1>2, <1>3, <1>4, OverType DEF Types
  <2>3. ASSUME NEW i \in Cells, i >= cur + k PROVE data'[i] = Erased
    <3>1. i >= 0 + k /\ i >= cur
      BY <1>4, <2>3, Sizes DEF Cells
    <3> QED BY <1>2, <2>1, <3>1 DEF Behind
  <2>4. ASSUME good PROVE cur + k <= FileLen /\ \A i \in 0 .. (cur + k) - 1 : i < Area /\ data'[i] = i
    <3>1. cur = 0 /\ reply.at = 0 /\ k <= FileLen
      BY <1>1, <1>2, <1>4, <2>4, Sizes DEF NextComes
    <3>2. ASSUME NEW i \in 0 .. k - 1 PROVE i < Area /\ data'[i] = i
      <4>1. i \in Cells /\ i \in Int /\ i < Area /\ i >= 0 /\ i < k
        BY <1>4, <3>1, <3>2, Sizes DEF Cells
      <4>2. data[i] = Erased
        BY <1>2, <3>1, <4>1 DEF Behind
      <4>3. data'[i] = Over(data[i], reply.at + (i - 0)) /\ reply.at + (i - 0) = i
        BY <1>4, <2>1, <2>4, <3>1, <4>1, Sizes
      <4> QED BY <4>1, <4>2, <4>3, OverType
    <3> QED BY <1>4, <3>1, <3>2
  <2> QED BY <1>4, <2>1, <2>2, <2>3, <2>4 DEF FlashOK
<1>6. good => Taken(k).at = cur + k
  BY <1>1, <1>2, <1>4 DEF NextComes
<1> QED BY <1>1, <1>2, <1>3, <1>4, <1>5, <1>6, ReceivedKeeps

\* What goes on behind cur_len.
LEMMA BodyKeeps ==
  ASSUME DownloadInv, UNCHANGED <<good, length>>, reading, ~Quiet, reply.head \in {"range", "taken"},
         NEW k \in Chunks, NEW now \in BOOLEAN,
         Write(cur, reply.at, k), Received(Taken(k), cur + k, bin, now)
  PROVE  DownloadInv'
<1>1. /\ soc = "open" /\ busy /\ ~blocked /\ request = "none"
      /\ status = "CHECK" => Whole(data, length)
      /\ Types /\ Behind /\ NextComes /\ PrefixIntact
  BY Receiving
<1>2. /\ k \in Nat /\ reply.at + k \in 0 .. FileLen /\ reply.at \in Nat /\ cur \in Nat /\ bin \in Nat
      /\ Taken(k) \in [head : {"half", "taken"}, at : 0 .. FileLen]
      /\ Taken(k).head = "taken" /\ Taken(k).at = reply.at + k
  BY <1>1, ChunkFacts DEF Types
<1>3. good => reply.at = cur /\ cur + k <= FileLen
  BY <1>1, <1>2, Sizes DEF NextComes, Quiet
<1>4. /\ data' \in [Cells -> Int]
      /\ \A i \in Cells : i < cur \/ i >= cur + k => data'[i] = data[i]
      /\ good /\ cur + k <= Area =>
           \A i \in Cells : i >= cur /\ i < cur + k => data'[i] = Over(data[i], reply.at + (i - cur))
  BY <1>1, <1>2, WriteFacts
<1>5. FlashOK(cur + k)
  <2>1. length' \in Int
    BY <1>1 DEF Types
  <2>2. ASSUME NEW i \in Cells, i >= cur + k PROVE data'[i] = Erased
    <3>1. i >= cur
      BY <1>2, <2>2, Sizes DEF Cells
    <3> QED BY <1>1, <1>4, <2>2, <3>1 DEF Behind
  <2>3. ASSUME good, NEW i \in 0 .. (cur + k) - 1 PROVE i < Area /\ data'[i] = i
    <3>1. i \in Cells /\ i \in Int /\ i < Area /\ i < cur + k
      BY <1>2, <1>3, <2>3, Sizes DEF Cells
    <3>2. CASE i < cur
      BY <1>1, <1>2, <1>4, <2>3, <3>1, <3>2 DEF PrefixIntact
    <3>3. CASE i >= cur
      <4>1. data[i] = Erased
        BY <1>1, <3>1, <3>3 DEF Behind
      <4>2. data'[i] = Over(data[i], reply.at + (i - cur)) /\ reply.at + (i - cur) = i
        BY <1>2, <1>3, <1>4, <2>3, <3>1, <3>3, Sizes
      <4> QED BY <3>1, <4>1, <4>2, OverType
    <3> QED BY <1>2, <3>1, <3>2, <3>3
  <2> QED BY <1>2, <1>3, <1>4, <2>1, <2>2, <2>3 DEF FlashOK
<1>6. status = "CHECK" => Whole(data', length')
  <2> SUFFICES ASSUME status = "CHECK" PROVE Whole(data', length')
    OBVIOUS
  <2>1. Whole(data, length) /\ cur >= FileLen
    BY <1>1, <1>2, WholeReaches DEF Types, Behind
  <2>2. \A i \in 0 .. FileLen - 1 : i \in Cells /\ i < cur
    BY <1>2, <2>1, Sizes DEF Cells
  <2> QED BY <1>4, <2>1, <2>2 DEF Whole
<1> QED BY <1>1, <1>2, <1>3, <1>5, <1>6, ReceivedKeeps

\* The body of a 206 goes on where the download stands.
LEMMA RecvRangeKeeps ==
  ASSUME DownloadInv, RecvRange, UNCHANGED good
  PROVE  DownloadInv'
BY BodyKeeps DEF RecvRange, Quiet

\* So does what follows a head.
LEMMA RecvBodyKeeps ==
  ASSUME DownloadInv, RecvBody, UNCHANGED good
  PROVE  DownloadInv'
<1>1. PICK k \in Chunks \ {0} : Write(cur, reply.at, k) /\ Received(Taken(k), cur + k, bin, TRUE)
  BY DEF RecvBody
<1>2. /\ reading /\ reply.head = "taken" /\ UNCHANGED <<good, length>>
  BY DEF RecvBody
<1>3. reply.at # FileLen
  <2>1. k \in Nat /\ reply.at + k \in 0 .. FileLen /\ reply.at \in Nat
    BY <1>1, ChunkFacts DEF DownloadInv
  <2> QED BY <1>1, <2>1, Sizes
<1>4. ~Quiet
  BY <1>2, <1>3 DEF Quiet
<1> QED BY <1>1, <1>2, <1>4, BodyKeeps

\* What is written of a head makes no patch, whether it gets to flash or not.
LEMMA RecvHalfHeadKeeps ==
  ASSUME DownloadInv, RecvHalfHead, UNCHANGED good
  PROVE  DownloadInv'
<1> DEFINE left == [head |-> "half", at |-> 0]
<1>1. reading /\ reply.head = "split"
  BY DEF RecvHalfHead
<1>2. /\ soc = "open" /\ busy /\ ~blocked /\ request = "none" /\ status # "CHECK"
      /\ Types /\ Behind /\ NextComes /\ ~good
  BY <1>1, Receiving DEF Quiet, NextComes
<1>3. PICK n \in {0, FileLen} :
        length' = Over(length, n) /\ WriteText(0) /\ Received(left, cur + 1, n, FALSE)
  BY DEF RecvHalfHead
<1>4. cur \in Nat /\ cur + 1 \in Nat /\ n \in Nat /\ left \in [head : {"half", "taken"}, at : 0 .. FileLen]
  BY <1>2, Sizes DEF Types
<1>5. FlashOK(cur + 1)
  <2>1. data' \in [Cells -> Int] /\ \A i \in Cells : i # 0 => data'[i] = data[i]
    BY <1>2, <1>3, WriteTextFacts
  <2>2. length' \in Int
    BY <1>2, <1>3, <1>4, OverType DEF Types
  <2>3. \A i \in Cells : i >= cur + 1 => data'[i] = Erased
    BY <1>2, <1>4, <2>1, Sizes DEF Behind, Cells
  <2> QED BY <1>2, <1>4, <2>1, <2>2, <2>3 DEF FlashOK
<1>6. ~ (cur + 1 = n /\ Whole(data', length'))
  <2> SUFFICES ASSUME cur + 1 = n, Whole(data', length') PROVE FALSE
    OBVIOUS
  <2>1. n = FileLen
    BY <1>4
  <2>2. CASE data' = [i \in 0 .. Area - 1 |-> IF i = 0 THEN Mixed ELSE data[i]]
    <3>1. data'[0] = Mixed
      BY <2>2, Sizes
    <3> QED BY <3>1, Sizes DEF Whole, Mixed
  <2>3. CASE data' = data
    <3>1. cur >= FileLen
      BY <1>2, <1>4, <2>3, WholeReaches DEF Types, Behind
    <3> QED BY <1>4, <2>1, <3>1
  <2> QED BY <1>3, <2>2, <2>3 DEF WriteText
<1> HIDE DEF left
<1> QED BY <1>1, <1>2, <1>3, <1>4, <1>5, <1>6, ReceivedKeeps

\* The other half of a head is taken for the patch, too.
LEMMA RecvOtherHalfKeeps ==
  ASSUME DownloadInv, RecvOtherHalf, UNCHANGED good
  PROVE  DownloadInv'
<1> DEFINE left == [head |-> "taken", at |-> 0]
<1>1. /\ reading /\ reply.head = "half" /\ length' = length /\ WriteText(cur)
      /\ Received(left, cur + 1, bin, TRUE)
  BY DEF RecvOtherHalf
<1>2. /\ soc = "open" /\ busy /\ ~blocked /\ request = "none" /\ status # "CHECK"
      /\ Types /\ Behind /\ NextComes /\ ~good
  BY <1>1, Receiving DEF Quiet, NextComes
<1>3. /\ cur \in Nat /\ cur + 1 \in Nat /\ bin \in Nat
      /\ left \in [head : {"half", "taken"}, at : 0 .. FileLen] /\ left.head = "taken"
  BY <1>2, Sizes DEF Types
<1>4. FlashOK(cur + 1)
  <2>1. data' \in [Cells -> Int] /\ \A i \in Cells : i # cur => data'[i] = data[i]
    BY <1>1, <1>2, <1>3, WriteTextFacts
  <2>2. \A i \in Cells : i >= cur + 1 => data'[i] = Erased
    BY <1>2, <1>3, <2>1, Sizes DEF Behind, Cells
  <2> QED BY <1>1, <1>2, <1>3, <2>1, <2>2 DEF FlashOK, Types
<1> HIDE DEF left
<1> QED BY <1>1, <1>2, <1>3, <1>4, ReceivedKeeps

\* The server answers what it was asked, or something else.
LEMMA AnswerKeeps ==
  ASSUME DownloadInv, Answer, UNCHANGED good
  PROVE  DownloadInv'
<1>1. /\ UNCHANGED <<good, data, length, status, restart, busy, cur, bin, retry, soc, reading, blocked,
                     timer, retryTimer>>
      /\ request # "none" /\ reply = NoReply /\ request' = "none"
  BY DEF Answer, flash, info, timers
<1>2. PICK h \in Heads :
        /\ \/ request = "full"    /\ h = "ok"
           \/ request = "range"   /\ h = IF cur < FileLen THEN "range" ELSE "other"
           \/ request = "range"   /\ h = "ok" /\ "whole" \in Answers /\ ~good
           \/ request = "garbled" /\ h = "other"
           \/ request # "garbled" /\ h \in Answers /\ ~good
        /\ reply' = [head |-> h, at |-> IF h = "range" THEN cur ELSE 0]
  BY DEF Answer
<1>3. soc = "open" /\ cur \in Nat /\ ~ ("range" \in Answers)
  BY <1>1, DownloadAssumption DEF DownloadInv, ConnectionOK, Types
<1>4. h = "range" => cur < FileLen
  BY <1>2, <1>3
<1>5. reply' \in [head : Heads \cup {"none", "half", "taken"}, at : 0 .. FileLen]
  BY <1>2, <1>3, <1>4, Sizes
<1>6. reply'.head = h /\ reply'.at = IF h = "range" THEN cur ELSE 0
  BY <1>2
<1>7. Types' /\ TimersMatch' /\ Behind' /\ PrefixIntact'
  <2>1. Types' /\ Behind' /\ PrefixIntact'
    BY <1>1, <1>5 DEF DownloadInv, Types, Behind, PrefixIntact
  <2>2. reply'.head # "none"
    BY <1>6 DEF Heads
  <2> QED BY <1>1, <2>1, <2>2 DEF DownloadInv, TimersMatch
<1>8. ConnectionOK'
  <2>1. blocked => h = "other"
    BY <1>1, <1>2 DEF DownloadInv, ConnectionOK
  <2> QED BY <1>1, <1>3, <1>6, <2>1 DEF DownloadInv, ConnectionOK, Quiet
<1>9. FlagOK'
  BY <1>1, <1>3 DEF DownloadInv, FlagOK
<1>10. NextComes'
  BY <1>1, <1>2, <1>3, <1>4, <1>6 DEF DownloadInv, NextComes
<1> QED BY <1>7, <1>8, <1>9, <1>10 DEF DownloadInv

\* Nothing happens.
LEMMA StutterDownload ==
  ASSUME DownloadInv, UNCHANGED vars
  PROVE  DownloadInv'
<1>1. UNCHANGED <<good, data, length, status, restart, busy, cur, bin, retry, soc, reading, blocked,
                  request, reply, timer, retryTimer>>
  BY DEF vars, flash, info, conn, timers
<1>2. Types' /\ TimersMatch'
  BY <1>1 DEF DownloadInv, Types, TimersMatch
<1>3. ConnectionOK' /\ FlagOK'
  BY <1>1 DEF DownloadInv, ConnectionOK, FlagOK, Quiet
<1> QED BY <1>1, <1>2, <1>3 DEF DownloadInv, Behind, NextComes, PrefixIntact

-----------------------------------------------------------------------------
(* The theorems.                                                           *)

\* DownloadInv is inductive: one lemma for each action.
LEMMA DownloadsKeepInv == Spec => []DownloadInv
<1>1. DownloadInv /\ [Next]_vars => DownloadInv'
  <2> SUFFICES ASSUME DownloadInv, [Next]_vars PROVE DownloadInv'
    OBVIOUS
  <2> QED BY StartKeeps, RebootKeeps, AnswerKeeps, RetryKeeps, TimeoutKeeps, RestartTimerKeeps,
             ConnectKeeps, WritableKeeps, SocketClosedKeeps, StaleEventKeeps, ReadableKeeps,
             RecvFailsKeeps, RecvSuccessKeeps, RecvRangeKeeps, RecvHalfHeadKeeps, RecvOtherHalfKeeps,
             RecvBodyKeeps, RecvTooBigKeeps, RecvRefusalKeeps, StutterDownload
          DEF Next, Callback, Receive
<1> QED BY InitDownload, <1>1, PTL DEF Spec

(***************************************************************************)
(* Whatever the server answers, however often the connection is lost, and  *)
(* although writes of flash fail unnoticed: the status asks the boot loader*)
(* for an upgrade only while the whole patch that was announced is on      *)
(* flash, also in the 10 seconds before the restart.                       *)
(***************************************************************************)
THEOREM FlagNeedsWhole == Spec => []FlagMeansWhole
<1>1. DownloadInv => FlagMeansWhole
  BY DEF DownloadInv, FlagOK, FlagMeansWhole
<1> QED BY DownloadsKeepInv, <1>1, PTL

(***************************************************************************)
(* While only the connection fails, the bytes cur_len counts are on flash  *)
(* in their places, through every retry and every split of the stream: the *)
(* Range of the next request asks for exactly what is missing.             *)
(***************************************************************************)
THEOREM PrefixStaysIntact == Spec => []PrefixIntact
<1>1. DownloadInv => PrefixIntact
  BY DEF DownloadInv
<1> QED BY DownloadsKeepInv, <1>1, PTL

(***************************************************************************)
(* A download without a connection has its retry timer, and only such a one*)
(* has.  The connect timer runs only while a download has a connection, and*)
(* does so until an answer begins.                                         *)
(***************************************************************************)
THEOREM TimersStayMatched == Spec => []TimersMatch
<1>1. DownloadInv => TimersMatch
  BY DEF DownloadInv
<1> QED BY DownloadsKeepInv, <1>1, PTL
=============================================================================
