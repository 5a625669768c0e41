------------------------------ MODULE MtCoder ------------------------------
(***************************************************************************)
(* The thread pool of the compressor (MtCoder.c): threads take blocks of   *)
(* the input in turn, code them side by side, and whoever has the block    *)
(* that is due writes it and those behind it that are ready.               *)
(*                                                                         *)
(* One action is the code between two calls that another thread can notice:*)
(* an event, the semaphore, a critical section, a callback.  The calls of  *)
(* the system do not fail, except the creation of a thread.  A block is its*)
(* number; what a buffer holds is the number of the block coded into it.   *)
(***************************************************************************)
EXTENDS Integers, Sequences, FiniteSets

CONSTANTS
  NumThreads,   \* numThreadsMax
  NumBlocksMax, \* blocks under way, at least NumThreads + 1
  BlockSize,
  Inputs,       \* records [stream, len, expected]
  MaxFaults,    \* bound: callbacks, allocations and threads that fail
  MaxCalls,     \* bound: calls of MtCoder_Code
  LateCount     \* FALSE: a thread compares its count before the next call

ASSUME CoderAssumption ==
  /\ {NumThreads, NumBlocksMax, BlockSize} \subseteq Nat \ {0} /\ NumBlocksMax > NumThreads
  /\ \A i \in Inputs : i.stream \in BOOLEAN /\ i.len \in Nat

Threads == 0 .. NumThreads - 1
Blocks  == 0 .. NumBlocksMax - 1
None    == -1

VARIABLES
  main,       \* what MtCoder_Code does: "idle", "wait"
  result,     \* what it has returned last
  input, calls, faults,
  created,    \* threads that exist
  th,         \* per thread: pc and the variables of ThreadFunc2
  startEvent, readEvent, finishedEvent, semaphore,
  p,          \* the fields of CMtCoder that are shared
  free,       \* freeBlockList from freeBlockHead on
  bufs,       \* what the buffers of the callback hold
  written     \* blocks handed to Write

events == <<startEvent, readEvent, finishedEvent, semaphore>>

Outside == [pc |-> "start", res |-> "ok", bi |-> None, wi |-> None, buf |-> None,
            finished |-> FALSE, block |-> None, last |-> 0]

BlockOf(x) == [res |-> x.res, buf |-> x.buf, finished |-> x.finished]

Init ==
  /\ main = "idle" /\ result = "none" /\ input \in Inputs /\ calls = 0 /\ faults = 0
  /\ created = {} /\ th = [t \in Threads |-> Outside]
  /\ startEvent = {} /\ readEvent = FALSE /\ finishedEvent = FALSE /\ semaphore = 0
  /\ p = [stopReading |-> FALSE, readRes |-> "ok", writeRes |-> "ok", mtRes |-> "ok",
          blockIndex |-> 0, writeIndex |-> 0, readProcessed |-> 0, ready |-> {},
          blocks |-> [b \in Blocks |-> BlockOf(Outside)], numStarted |-> 0, limit |-> NumThreads, numFinished |-> 0]
  /\ free = <<>> /\ bufs = [b \in Blocks |-> None] /\ written = <<>>

\* A call that may fail: it does so at most MaxFaults times.
MayFail(res) ==
  \/ res = "ok" /\ UNCHANGED faults
  \/ res = "error" /\ faults < MaxFaults /\ faults' = faults + 1

Error(q, res) == [q EXCEPT !.mtRes = IF @ = "ok" THEN res ELSE @]   \* MtProgress_SetError
Wrap(b) == IF b + 1 >= NumBlocksMax THEN 0 ELSE b + 1

-----------------------------------------------------------------------------
(* MtCoder_Code.                                                             *)

\* The thread exists or is created, and is told to start.
CreateAndStart(t) == created' = created \cup {t} /\ startEvent' = startEvent \cup {t}

Reset ==
  [p EXCEPT !.stopReading = FALSE, !.readRes = "ok", !.writeRes = "ok", !.mtRes = "ok",
            !.blockIndex = 0, !.writeIndex = 0, !.readProcessed = 0, !.ready = {},
            !.numStarted = 1, !.limit = NumThreads, !.numFinished = 0]

Call ==
  /\ main = "idle" /\ calls < MaxCalls
  /\ LateCount \/ \A t \in Threads : th[t].pc # "count"
  /\ calls' = calls + 1 /\ p' = Reset /\ free' = [b \in 1 .. NumBlocksMax |-> b - 1]
  /\ semaphore' = NumBlocksMax /\ finishedEvent' = FALSE /\ written' = <<>>
  /\ \/ /\ CreateAndStart(0) /\ readEvent' = TRUE /\ main' = "wait"
        /\ UNCHANGED <<result, faults>>
     \/ /\ 0 \notin created /\ faults < MaxFaults /\ faults' = faults + 1
        /\ readEvent' = FALSE /\ result' = "error"
        /\ UNCHANGED <<main, created, startEvent>>
  /\ UNCHANGED <<input, th, bufs>>

\* finishedEvent: after an error MtCoder_Free ends the threads.
Return ==
  /\ main = "wait" /\ finishedEvent
  /\ finishedEvent' = FALSE /\ main' = "idle"
  /\ result' = IF p.readRes # "ok" THEN p.readRes ELSE IF p.mtRes # "ok" THEN p.mtRes ELSE p.writeRes
  /\ created' = IF result' = "ok" THEN created ELSE {}
  /\ UNCHANGED <<input, calls, faults, th, startEvent, readEvent, semaphore, p, free, bufs, written>>

-----------------------------------------------------------------------------
(* ThreadFunc2, which the threads run after their startEvent.                *)

Go(t, pc) == th' = [th EXCEPT ![t].pc = pc]

Start(t) ==
  /\ th[t].pc = "start" /\ t \in startEvent
  /\ startEvent' = startEvent \ {t} /\ Go(t, "read")
  /\ UNCHANGED <<main, result, input, calls, faults, created, readEvent, finishedEvent, semaphore,
                 p, free, bufs, written>>

\* The thread that has readEvent reads a block, unless the reading is over.
Stopped(t) ==
  /\ th[t].pc = "read" /\ readEvent /\ p.stopReading
  /\ Go(t, "leave")
  /\ UNCHANGED <<main, result, input, calls, faults, created, events, p, free, bufs, written>>

Number(q) == q.readProcessed \div BlockSize

Read(t) ==
  /\ th[t].pc = "read" /\ readEvent /\ ~p.stopReading /\ readEvent' = FALSE
  /\ \E res \in {"ok", "error"} :
       LET rest == input.len - p.readProcessed
           size == IF rest < BlockSize THEN rest ELSE BlockSize
       IN  IF p.mtRes # "ok"
             THEN /\ res = "ok"
                  /\ th' = [th EXCEPT ![t] = [Outside EXCEPT !.pc = "take", !.res = p.mtRes, !.finished = TRUE]]
                  /\ UNCHANGED <<p, faults>>
             ELSE /\ res = "error" => input.stream
                  /\ MayFail(res)
                  /\ th' = [th EXCEPT ![t] = [Outside EXCEPT !.pc = "take", !.res = res, !.block = Number(p),
                              !.finished = IF res = "error" THEN TRUE
                                           ELSE IF input.stream THEN size # BlockSize
                                           ELSE input.len = p.readProcessed + size]]
                  /\ p' = IF res = "ok" THEN [p EXCEPT !.readProcessed = @ + size]
                                           ELSE [Error(p, res) EXCEPT !.readRes = res]
  /\ UNCHANGED <<main, result, input, calls, created, startEvent, finishedEvent, semaphore, free, bufs, written>>

\* A place among the blocks under way, in the order of the reading
Take(t) ==
  /\ th[t].pc = "take" /\ semaphore > 0
  /\ semaphore' = semaphore - 1
  /\ p' = [p EXCEPT !.blockIndex = Wrap(@)]
  /\ LET res == IF th[t].res = "ok" THEN p.mtRes ELSE th[t].res
     IN  th' = [th EXCEPT ![t].pc = "spawn", ![t].bi = p.blockIndex, ![t].res = res,
                          ![t].finished = @ \/ res # "ok"]
  /\ UNCHANGED <<main, result, input, calls, faults, created, startEvent, readEvent, finishedEvent,
                 free, bufs, written>>

\* One more thread is started while there is more to read.
WantsThread(t) ==
  ~th[t].finished /\ p.numStarted < p.limit /\ input.expected # p.readProcessed

Spawn(t) ==
  /\ th[t].pc = "spawn" /\ WantsThread(t)
  /\ \/ CreateAndStart(p.numStarted) /\ Go(t, "spawned") /\ UNCHANGED <<p, faults>>
     \/ /\ p.numStarted \notin created /\ faults < MaxFaults /\ faults' = faults + 1
        /\ p' = Error(p, "error")
        /\ th' = [th EXCEPT ![t].pc = "unlock", ![t].res = "error", ![t].finished = TRUE]
        /\ UNCHANGED <<created, startEvent>>
  /\ UNCHANGED <<main, result, input, calls, readEvent, finishedEvent, semaphore, free, bufs, written>>

\* Mutant: the thread that has read the last block keeps readEvent.
UnlockUnlessLast(t) ==
  /\ \/ th[t].pc \in {"unlock", "spawned"}
     \/ th[t].pc = "spawn" /\ ~WantsThread(t)
  /\ p' = [p EXCEPT !.numStarted = IF th[t].pc = "spawned" THEN @ + 1 ELSE @,
                    !.stopReading = @ \/ th[t].finished]
  /\ readEvent' = ~th[t].finished /\ Go(t, "code")
  /\ UNCHANGED <<main, result, input, calls, faults, created, startEvent, finishedEvent, semaphore,
                 free, bufs, written>>

Unlock(t) ==
  /\ \/ th[t].pc \in {"unlock", "spawned"}
     \/ th[t].pc = "spawn" /\ ~WantsThread(t)
  /\ p' = [p EXCEPT !.numStarted = IF th[t].pc = "spawned" THEN @ + 1 ELSE @,
                    !.stopReading = @ \/ th[t].finished]
  /\ readEvent' = TRUE /\ Go(t, "code")
  /\ UNCHANGED <<main, result, input, calls, faults, created, startEvent, finishedEvent, semaphore,
                 free, bufs, written>>

\* The block is coded into a buffer of its own.
Code(t) ==
  /\ th[t].pc = "code"
  /\ IF th[t].res # "ok"
       THEN /\ th' = [th EXCEPT ![t].pc = "publish", ![t].buf = None]
            /\ p' = [p EXCEPT !.blocks[th[t].bi] = BlockOf(th'[t])]
            /\ UNCHANGED <<faults, free, bufs>>
       ELSE \E res \in {"ok", "error"} :
            /\ MayFail(res) /\ free' = Tail(free)
            /\ bufs' = [bufs EXCEPT ![Head(free)] = th[t].block]
            /\ th' = [th EXCEPT ![t].pc = "publish", ![t].buf = Head(free), ![t].res = res]
            /\ p' = [Error(p, res) EXCEPT !.blocks[th[t].bi] = BlockOf(th'[t])]
  /\ UNCHANGED <<main, result, input, calls, created, events, written>>

Leaves(x) == x.finished \/ x.res # "ok"

\* Mutant: a block is written as soon as nobody writes.
PublishAtOnce(t) ==
  /\ th[t].pc = "publish" /\ p.writeIndex # None
  /\ p' = [p EXCEPT !.writeIndex = None]
  /\ th' = [th EXCEPT ![t].pc = "write", ![t].wi = th[t].bi]
  /\ UNCHANGED <<main, result, input, calls, faults, created, events, free, bufs, written>>

\* Either the block is the one that is due, or it is left for the thread that has it.
Publish(t) ==
  /\ th[t].pc = "publish"
  /\ IF p.writeIndex = th[t].bi
       THEN /\ p' = [p EXCEPT !.writeIndex = None]
            /\ th' = [th EXCEPT ![t].pc = "write", ![t].wi = th[t].bi,
                                ![t].res = IF p.writeRes # "ok" THEN p.writeRes ELSE @]
       ELSE /\ p' = [p EXCEPT !.ready = @ \cup {th[t].bi}]
            /\ Go(t, IF Leaves(th[t]) THEN "leave" ELSE "read")
  /\ UNCHANGED <<main, result, input, calls, faults, created, events, free, bufs, written>>

Write(t) ==
  /\ th[t].pc = "write"
  /\ IF th[t].res = "ok" /\ th[t].buf # None
       THEN \E res \in {"ok", "error"} :
            /\ MayFail(res)
            /\ written' = IF res = "ok" THEN Append(written, bufs[th[t].buf]) ELSE written
            /\ p' = IF res = "ok" THEN p ELSE [Error(p, res) EXCEPT !.writeRes = res]
            /\ th' = [th EXCEPT ![t].pc = "advance", ![t].res = res]
       ELSE Go(t, "advance") /\ UNCHANGED <<faults, written, p>>
  /\ UNCHANGED <<main, result, input, calls, created, events, free, bufs>>

\* The buffer is given back, and the next block is due.
NextDue(t) == Wrap(th[t].wi)

Advance(t) ==
  /\ th[t].pc = "advance"
  /\ free' = IF th[t].buf = None THEN free ELSE <<th[t].buf>> \o free
  /\ p' = IF NextDue(t) \in p.ready THEN [p EXCEPT !.ready = @ \ {NextDue(t)}]
                                    ELSE [p EXCEPT !.writeIndex = NextDue(t)]
  /\ th' = [th EXCEPT ![t].pc = IF NextDue(t) \in p.ready THEN "more" ELSE "done", ![t].wi = NextDue(t)]
  /\ UNCHANGED <<main, result, input, calls, faults, created, events, bufs, written>>

Release(t) ==
  /\ th[t].pc \in {"more", "done"} /\ semaphore' = semaphore + 1
  /\ LET x == th[t]
         b == p.blocks[x.wi]
     IN  th' = [th EXCEPT ![t] =
                  IF x.pc = "more"
                    THEN [x EXCEPT !.pc = "write", !.buf = b.buf, !.finished = b.finished,
                                   !.res = IF x.res = "ok" THEN b.res ELSE x.res]
                    ELSE [x EXCEPT !.pc = IF Leaves(x) THEN "leave" ELSE "read"]]
  /\ UNCHANGED <<main, result, input, calls, faults, created, startEvent, readEvent, finishedEvent,
                 p, free, bufs, written>>

\* ThreadFunc counts the threads that have left, and the last one tells MtCoder_Code.
Leave(t) ==
  /\ th[t].pc = "leave"
  /\ p' = [p EXCEPT !.numFinished = @ + 1]
  /\ th' = [th EXCEPT ![t] = [Outside EXCEPT !.pc = "count", !.last = p.numFinished + 1]]
  /\ UNCHANGED <<main, result, input, calls, faults, created, events, free, bufs, written>>

\* Mutant: the first thread that leaves ends the call.
CountFirst(t) ==
  /\ th[t].pc = "count"
  /\ finishedEvent' = TRUE
  /\ th' = [th EXCEPT ![t] = Outside]
  /\ UNCHANGED <<main, result, input, calls, faults, created, startEvent, readEvent, semaphore,
                 p, free, bufs, written>>

Count(t) ==
  /\ th[t].pc = "count"
  /\ finishedEvent' = (finishedEvent \/ th[t].last = p.numStarted)
  /\ th' = [th EXCEPT ![t] = Outside]
  /\ UNCHANGED <<main, result, input, calls, faults, created, startEvent, readEvent, semaphore,
                 p, free, bufs, written>>

ThreadStep(t) ==
  \/ Start(t) \/ Stopped(t) \/ Read(t) \/ Take(t) \/ Spawn(t) \/ Unlock(t) \/ Code(t)
  \/ Publish(t) \/ Write(t) \/ Advance(t) \/ Release(t) \/ Leave(t) \/ Count(t)

-----------------------------------------------------------------------------
(* Properties.                                                               *)

\* Blocks are written in the order of the input, each at most once, and while nothing has
\* failed none is missing (after an error in one block a later one may still be written).
WrittenInOrder ==
  /\ \A k \in 1 .. Len(written) - 1 : written[k] < written[k + 1]
  /\ p.mtRes = "ok" => written = [k \in 1 .. Len(written) |-> k - 1]

Whole == (input.len + BlockSize - 1) \div BlockSize

\* When a call returns, no thread is inside a callback any more, so that the caller may free
\* what they use, and if it succeeds the whole input is written.
ReturnMeansDone ==
  main = "idle" =>
    /\ \A t \in Threads : th[t].pc \in {"start", "count"}
    /\ result = "ok" => Len(written) >= Whole
=============================================================================
