------------------------------- MODULE MtDec -------------------------------
(***************************************************************************)
(* Decoding with several threads (MtDec.c, with the callbacks of           *)
(* Lzma2DecMt.c): the threads stand in a ring.  The one whose turn it is to*)
(* read finds a block, lets the next one read, decodes, and waits for its  *)
(* turn to write.  What cannot be decoded this way, for want of memory or  *)
(* of room, is kept: the single thread that goes on reads it again.        *)
(*                                                                         *)
(* One action is the code between two calls another thread can notice.     *)
(* Events and critical sections do not fail; allocations, the creation of a*)
(* thread and the callbacks of the caller may.                             *)
(***************************************************************************)
EXTENDS Lzma2Callbacks, SequencesExt

CONSTANTS
  Jobs,         \* records [stream, text, good, outSize, finish, threads, asks]
  InBufSize,    \* props.inBufSize_MT
  MaxFaults     \* bound: how many kinds of failure one behaviour has

ASSUME JobsAssumption ==
  /\ InBufSize \in Nat \ {0}
  /\ \A j \in Jobs : j.outSize >= -1 /\ j.threads \in Nat \ {0}

VARIABLES
  job,        \* the arguments of the call
  main,       \* where the caller is: "call", "mt", "prepare", "st", "reading", "done"
  p,          \* CMtDec
  th,         \* CMtDecThread, and the variables of ThreadFunc2
  canRead, canWrite,   \* threads whose event is set
  parsed,     \* outProcessed_Parse
  written,    \* what outStream was given
  failed      \* what has failed so far: "read", "write", "progress", "memory", "thread",
              \* and with one thread left "alone" (its memory) and "write alone"

mtVars == <<p, th, canRead, canWrite, parsed>>

Threads == 0 .. Max({j.threads : j \in Jobs}) - 1
None    == -1

\* what is private to one turn of ThreadFunc2
Fresh == [blockIndex |-> 0, finish |-> FALSE, res |-> "ok", codeRes |-> "ok", interrupted |-> FALSE,
          needCode |-> FALSE, needWrite |-> FALSE, allocError |-> FALSE, overflow |-> FALSE,
          noThread |-> FALSE, next |-> None, k |-> 0, start |-> 0, size |-> 0, pos |-> 0, asked |-> 0]

\* links: buffers of inBuf; bufs: what they hold; keptStart, kept: inDataSize_Start and inDataSize
NewThread == [pc |-> "read", v |-> Fresh, coder |-> NewCoder, links |-> 0, bufs |-> <<>>,
              keptStart |-> 0, kept |-> 0]

NewMtDec ==
  [blockIndex |-> 1, isAllocError |-> FALSE, overflow |-> FALSE, noThread |-> FALSE,
   readWasFinished |-> FALSE, needInterrupt |-> FALSE, interruptIndex |-> 0,
   readProcessed |-> 0, readRes |-> "ok", codeRes |-> "ok", wasInterrupted |-> FALSE,
   cross |-> <<>>, hasCross |-> FALSE, filledStart |-> 0, numFilled |-> 0, inProcessed |-> 0,
   limit |-> job.threads, started |-> 1, exit |-> FALSE, progress |-> "ok"]

\* What may fail now: nothing, or one of kinds, each of which fails once.
MayFail(kinds) == {"none"} \cup {k \in kinds \ failed : Cardinality(failed) < MaxFaults}
Note(fault)    == failed' = failed \cup ({fault} \ {"none"})

Late(t, v)  == p.needInterrupt /\ v.blockIndex > p.interruptIndex
Go(t, pc)   == [th[t] EXCEPT !.pc = pc]
Set(t, x)   == th' = [th EXCEPT ![t] = x]

\* the progress callback says no
Progressed(q, fault) == [q EXCEPT !.progress = IF fault = "progress" THEN fault ELSE @]

\* MtDec_Interrupt
Interrupted(q, index) ==
  IF ~q.needInterrupt \/ index < q.interruptIndex
    THEN [q EXCEPT !.needInterrupt = TRUE, !.interruptIndex = index] ELSE q

-----------------------------------------------------------------------------
(* The turn to read.                                                         *)

Exit(t) ==
  /\ th[t].pc = "read" /\ t \in canRead /\ p.exit
  /\ canRead' = canRead \ {t}
  /\ Set(t, Go(t, "gone"))
  /\ UNCHANGED <<job, main, p, canWrite, parsed, written, failed>>

TakeTurn(t) ==
  /\ th[t].pc = "read" /\ t \in canRead /\ ~p.exit
  /\ canRead' = canRead \ {t}
  /\ \E fault \in MayFail({"progress"}) :
       /\ Note(fault)
       /\ p' = [Progressed(p, fault) EXCEPT !.blockIndex = @ + 1]
       /\ LET v == [Fresh EXCEPT !.blockIndex = p.blockIndex, !.finish = p.readWasFinished, !.res = p'.progress,
                                 !.interrupted = Late(t, [blockIndex |-> p.blockIndex])]
          IN  Set(t, [th[t] EXCEPT !.v = v,
                        !.pc = IF v.res = "ok" /\ ~v.interrupted THEN "parse" ELSE "pass"])
  /\ UNCHANGED <<job, main, canWrite, parsed, written>>

\* One turn of the loop over the buffers: what lies in the cross block is taken first,
\* and then as much of the stream as a buffer holds.
Rest == Behind(job.stream, p.readProcessed)

Stored(x, k, data) == [x EXCEPT !.bufs = IF k > Len(@) THEN Append(@, data) ELSE [@ EXCEPT ![k] = data],
                                !.links = IF k > @ THEN k ELSE @]

NoMemory(t) ==
  /\ th[t].pc = "parse" /\ th[t].v.k + 1 > th[t].links
  /\ "memory" \in MayFail({"memory"}) /\ Note("memory")
  /\ Set(t, [Go(t, "pass") EXCEPT !.v.finish = TRUE, !.v.allocError = TRUE])
  /\ UNCHANGED <<job, main, p, canRead, canWrite, parsed, written>>

\* what is read; a read that fails may have read something, and a stream that has failed
\* gives nothing any more
Reads(fault) ==
  LET n == IF p.readRes = "ok" THEN Lesser(Len(Rest), InBufSize) ELSE 0
  IN  {SubSeq(Rest, 1, m) : m \in IF fault = "read" THEN {0, Lesser(n, InBufSize - 1)} ELSE {n}}

\* Parse has been called for the n bytes of data: what it means for the block.
AfterParse(t, x, q, data, fromCross, crossOk) ==
  \E r \in {ParseBlock(th[t].coder, x.v.k = 0, data, job, parsed)} :
  LET v   == x.v
      n   == Len(data)
      w   == [v EXCEPT !.needWrite = TRUE, !.k = @ + 1]
      cut == [w EXCEPT !.needCode = TRUE, !.finish = @ \/ r.state = "end",
                       !.size = IF r.used = n THEN @ ELSE IF fromCross THEN r.used ELSE @ - (n - r.used),
                       !.start = IF v.k = 0 THEN r.used ELSE @]
      keep == Behind(data, r.used)
      \* the rest of a block that was read already waits in the cross block
      crossing == r.used # n /\ r.state # "end"
  IN  /\ parsed' = parsed + r.made
      /\ CASE r.state = "overflow" ->
                /\ Set(t, [x EXCEPT !.coder = r.c, !.v = [w EXCEPT !.finish = TRUE, !.overflow = TRUE], !.pc = "pass"])
                /\ p' = [q EXCEPT !.cross = <<>>]
                /\ crossOk
           [] r.state # "overflow" /\ (r.state # "continue" \/ v.finish) /\ crossing /\ ~fromCross /\ ~crossOk ->
                /\ ~q.hasCross
                /\ Set(t, [x EXCEPT !.coder = r.c, !.pc = "pass",
                                    !.v = [w EXCEPT !.needCode = TRUE, !.finish = TRUE, !.allocError = TRUE]])
                /\ p' = q
           [] r.state # "overflow" /\ (r.state # "continue" \/ v.finish) /\ (~crossing \/ fromCross \/ crossOk) ->
                /\ Set(t, [x EXCEPT !.coder = r.c, !.pc = "pass",
                                    !.v = IF crossing THEN [cut EXCEPT !.finish = FALSE] ELSE cut])
                /\ p' = [q EXCEPT !.cross = IF crossing THEN keep ELSE <<>>,
                                  !.hasCross = @ \/ (crossing /\ ~fromCross)]
                /\ crossOk
           [] r.state = "continue" /\ ~v.finish ->
                /\ Set(t, [x EXCEPT !.coder = r.c,
                                    !.v = IF r.used = n THEN w ELSE [w EXCEPT !.res = "fail"],
                                    !.pc = IF r.used = n THEN "parse" ELSE "pass"])
                /\ p' = [q EXCEPT !.cross = <<>>]
                /\ crossOk

ParseCross(t) ==
  /\ th[t].pc = "parse" /\ th[t].v.k = 0 /\ p.cross # <<>>
  /\ LET n == Len(p.cross)
         x == Stored([th[t] EXCEPT !.v.size = n, !.v.start = n], 1, p.cross)
     IN  AfterParse(t, x, p, p.cross, TRUE, TRUE)
  /\ UNCHANGED <<job, main, canRead, canWrite, written, failed>>

ParseRead(t) ==
  /\ th[t].pc = "parse" /\ (th[t].v.k # 0 \/ p.cross = <<>>)
  /\ \E fault \in MayFail({"read", "progress", "memory"}) : \E data \in Reads(fault) :
       /\ Note(fault)
       /\ LET n   == Len(data)
              end == n # InBufSize \/ fault = "read"
              v   == th[t].v
              w   == [v EXCEPT !.size = @ + n, !.start = IF v.k = 0 THEN n ELSE @, !.finish = end]
              q   == Progressed([p EXCEPT !.readProcessed = @ + n, !.readWasFinished = @ \/ end,
                                          !.readRes = IF fault = "read" THEN fault ELSE @], fault)
              x   == Stored([th[t] EXCEPT !.v = w], v.k + 1, data)
              asks == w.size > v.asked
              off == asks /\ (q.progress # "ok" \/ Late(t, v))
          IN  /\ fault = "progress" => asks
              /\ IF off
                   THEN /\ Set(t, [x EXCEPT !.v.res = q.progress, !.v.interrupted = Late(t, v), !.pc = "pass"])
                        /\ p' = q /\ fault # "memory"
                        /\ UNCHANGED parsed
                   ELSE AfterParse(t, [x EXCEPT !.v.asked = w.size], q, data, FALSE, fault # "memory")
  /\ UNCHANGED <<job, main, canRead, canWrite, written>>

-----------------------------------------------------------------------------
(* The reading is passed on.                                                 *)

NextIndex(t, q) == IF t + 1 >= q.started THEN 0 ELSE t + 1

PassOn(t, x, q) ==
  /\ p' = q
  /\ canRead' = IF x.v.finish THEN canRead ELSE canRead \cup {NextIndex(t, q)}
  /\ Set(t, [x EXCEPT !.v.next = NextIndex(t, q), !.v.k = 0, !.pc = "code"])

Checked2(t) ==
  LET v == th[t].v
      w == [v EXCEPT !.interrupted = IF v.res = "ok" /\ ~@ THEN Late(t, v) ELSE @,
                     !.res = IF @ = "ok" THEN p.progress ELSE @]
  IN  IF v.res = "ok" /\ ~v.interrupted THEN w ELSE v

WillCode(v) == v.res = "ok" /\ v.needCode /\ ~v.interrupted

Pass(t) ==
  /\ th[t].pc = "pass"
  /\ \E fault \in MayFail({"memory", "thread"}) :
       LET memory == fault # "memory"
           thread == fault # "thread"
           v  == Checked2(t)
           c  == th[t].coder
           pc == WillCode(v)
           refused == pc /\ (c.inPre = 0 \/ ~memory)
           w  == [v EXCEPT !.codeRes = IF ~pc THEN @ ELSE IF c.inPre = 0 THEN "data" ELSE IF ~memory THEN "mem" ELSE @,
                           !.needCode = @ /\ ~refused,
                           !.finish = @ \/ refused \/ v.res # "ok" \/ v.interrupted]
           x  == [th[t] EXCEPT !.v = w, !.coder = IF pc /\ memory THEN Prepared(c) ELSE c]
           more == ~w.finish /\ p.started < p.limit
       IN  /\ memory \/ (pc /\ NeedsBuffer(c))
           /\ thread \/ more
           /\ Note(fault)
           /\ CASE more /\ thread  -> PassOn(t, x, [p EXCEPT !.started = @ + 1])
                [] more /\ ~thread /\ p.started = 1 ->
                     PassOn(t, [x EXCEPT !.v.finish = TRUE, !.v.needCode = FALSE, !.v.noThread = TRUE], p)
                [] more /\ ~thread /\ p.started # 1 -> PassOn(t, x, [p EXCEPT !.limit = p.started])
                [] ~more -> PassOn(t, x, p)
  /\ UNCHANGED <<job, main, canWrite, parsed, written>>

-----------------------------------------------------------------------------
(* A block is decoded, one buffer at a time.                                 *)

Codes(v) == v.res = "ok" /\ v.needCode /\ v.codeRes = "ok"

BufferOf(x) ==
  LET n == IF x.v.k = 0 THEN x.v.start ELSE Lesser(InBufSize, x.v.size - x.v.pos)
  IN  SubSeq(x.bufs[x.v.k + 1], 1, n)

Code(t) ==
  /\ th[t].pc = "code" /\ Codes(th[t].v)
  /\ \E r \in {CodeBlock(th[t].coder, BufferOf(th[t]))} :
     LET x == th[t]
         w == [x.v EXCEPT !.codeRes = r.res, !.pos = r.c.inCode, !.k = @ + 1]
         y == [x EXCEPT !.coder = r.c, !.v = w]
     IN  CASE r.res # "ok" ->
                /\ p' = Interrupted(p, w.blockIndex)
                /\ Set(t, [y EXCEPT !.pc = "write"]) /\ UNCHANGED failed
           [] r.res = "ok" /\ (r.stop \/ w.pos = w.size) ->
                Set(t, [y EXCEPT !.pc = "write"]) /\ UNCHANGED <<p, failed>>
           [] r.res = "ok" /\ ~(r.stop \/ w.pos = w.size) ->
                \E fault \in MayFail({"progress"}) :
                  /\ Note(fault)
                  /\ p' = Progressed(p, fault)
                  /\ Set(t, [y EXCEPT !.v.res = p'.progress, !.v.interrupted = Late(t, w),
                              !.pc = IF p'.progress # "ok" \/ Late(t, w) THEN "write" ELSE "code"])
  /\ UNCHANGED <<job, main, canRead, canWrite, parsed, written>>

NothingToCode(t) ==
  /\ th[t].pc = "code" /\ ~Codes(th[t].v)
  /\ Set(t, Go(t, "write"))
  /\ UNCHANGED <<job, main, p, canRead, canWrite, parsed, written, failed>>

-----------------------------------------------------------------------------
(* The turn to write.                                                        *)

\* What this block means for the whole, unless an earlier one has put an end to it
Judged(t) ==
  LET v == th[t].v
      alloc == v.allocError \/ v.codeRes = "mem"
  IN  IF p.wasInterrupted THEN p
      ELSE [p EXCEPT !.wasInterrupted = v.codeRes # "ok" \/ v.noThread \/ alloc \/ v.overflow,
                     !.codeRes = v.codeRes, !.noThread = v.noThread,
                     !.isAllocError = alloc, !.overflow = v.overflow]

Flushes(t) ==
  LET v == th[t].v IN
  ~p.wasInterrupted /\ ~v.interrupted /\ ~v.noThread /\ ~v.allocError /\ v.codeRes # "mem" /\ ~v.overflow

\* Mutant: what was not written is forgotten when it is the first.
KeptUnlessFirst(t, q, v, keeps) ==
  LET fills == keeps /\ (v.size # 0 \/ ~v.finish) /\ q.numFilled > 0
  IN  [p |-> [q EXCEPT !.filledStart = IF keeps /\ q.numFilled = 0 THEN t ELSE @,
                       !.numFilled = IF fills THEN @ + 1 ELSE @],
       x |-> IF fills THEN [th[t] EXCEPT !.keptStart = v.start, !.kept = v.size] ELSE th[t]]

\* A block that is not written is kept, with all that come behind it.
Kept(t, q, v, keeps) ==
  LET fills == keeps /\ (v.size # 0 \/ ~v.finish)
  IN  [p |-> [q EXCEPT !.filledStart = IF keeps /\ q.numFilled = 0 THEN t ELSE @,
                       !.numFilled = IF fills THEN @ + 1 ELSE @],
       x |-> IF fills THEN [th[t] EXCEPT !.keptStart = v.start, !.kept = v.size] ELSE th[t]]

\* Mutant: only a thread that goes on wakes thread 0.
HandOnAlone(t, x, q, needContinue) ==
  LET ends == x.v.finish /\ ~needContinue IN
  /\ p' = [q EXCEPT !.exit = @ \/ (ends /\ t # 0)]
  /\ canWrite' = (canWrite \ {t}) \cup
                   (IF ~x.v.finish THEN {x.v.next} ELSE IF needContinue THEN {0} ELSE {})
  /\ canRead' = IF x.v.finish /\ needContinue THEN canRead \cup {0} ELSE canRead
  /\ Set(t, [x EXCEPT !.pc = IF ends /\ t = 0 THEN "gone" ELSE "read", !.v = Fresh])

\* The next one may write; or the decoding goes on with thread 0, or comes to an end.
HandOn(t, x, q, needContinue) ==
  LET ends == x.v.finish /\ ~needContinue IN
  /\ p' = [q EXCEPT !.exit = @ \/ (ends /\ t # 0)]
  /\ canWrite' = (canWrite \ {t}) \cup
                   (IF ~x.v.finish THEN {x.v.next} ELSE IF needContinue THEN {0} ELSE {})
  /\ canRead' = IF x.v.finish /\ ~(ends /\ t = 0) THEN canRead \cup {0} ELSE canRead
  /\ Set(t, [x EXCEPT !.pc = IF ends /\ t = 0 THEN "gone" ELSE "read", !.v = Fresh])

Write(t) ==
  /\ th[t].pc = "write" /\ t \in canWrite /\ ~p.exit
  /\ \E fault \in MayFail({"write", "progress"}) :
       LET v  == th[t].v
           ok == fault # "write"
           c  == th[t].coder
           interrupted == v.interrupted \/ p.wasInterrupted
           q  == Progressed(Judged(t), fault)
           res0  == IF v.needCode THEN q.progress ELSE v.res
           calls == v.needWrite /\ res0 = "ok" /\ Flushes(t)
           torn  == calls /\ Torn(c)
           out   == calls /\ ~torn
           res   == IF torn THEN "fail" ELSE IF out /\ ~ok THEN "write" ELSE IF v.needWrite THEN "ok" ELSE res0
           needContinue == IF ~v.needWrite THEN ~v.finish ELSE out /\ ok /\ AsksForMore(c)
           q2 == [q EXCEPT !.inProcessed = IF calls THEN @ + c.inCode ELSE @,
                           !.wasInterrupted = @ \/ (v.needWrite /\ res # "ok")]
           q3 == IF v.needWrite /\ (res # "ok" \/ (~needContinue /\ ~v.finish))
                   THEN Interrupted(q2, v.blockIndex) ELSE q2
           keeps == /\ ~out
                    /\ \/ ~v.needCode \/ res # "ok" \/ q3.wasInterrupted \/ v.codeRes # "ok"
                       \/ interrupted \/ q3.numFilled # 0
       IN  \E k \in {Kept(t, q3, v, keeps)} :
           /\ ok \/ (out /\ c.outCode > 0)
           /\ fault = "progress" => v.needCode
           /\ Note(fault)
           /\ written' = IF out /\ ok THEN written \o Made(c) ELSE written
           /\ HandOn(t, k.x, k.p, needContinue)
  /\ UNCHANGED <<job, main, parsed>>

ThreadStep(t) ==
  \/ Exit(t) \/ TakeTurn(t) \/ NoMemory(t) \/ ParseCross(t) \/ ParseRead(t) \/ Pass(t)
  \/ Code(t) \/ NothingToCode(t) \/ Write(t)

-----------------------------------------------------------------------------
(* MtDec_PrepareRead and MtDec_Read: what is kept is read again.             *)

FilledBefore(t) == IF t >= p.filledStart THEN t - p.filledStart ELSE t + p.started - p.filledStart

PrepareRead ==
  /\ p' = [p EXCEPT !.hasCross = p.cross # <<>>]
  /\ th' = [t \in Threads |-> IF t > p.started \/ p.numFilled <= FilledBefore(t)
                                THEN [th[t] EXCEPT !.bufs = <<>>, !.links = 0] ELSE th[t]]

HasKept == p.numFilled # 0 \/ p.cross # <<>>

\* [p, th, data, some]: the next piece; again says that a piece was taken before
ReadKept(again) ==
  LET free(x) == [x EXCEPT !.bufs = Tail(@), !.links = @ - 1]
      step(q, h) ==
        LET t == q.filledStart
            x == IF again THEN free(h[t]) ELSE h[t]
            spent == again /\ x.kept = 0
            left  == q.numFilled - 1
            q2 == [q EXCEPT !.numFilled = left,
                            !.filledStart = IF left = 0 THEN @ ELSE IF @ + 1 = q.started THEN 0 ELSE @ + 1]
        IN  IF spent THEN [p |-> q2, th |-> [h EXCEPT ![t] = [x EXCEPT !.bufs = <<>>, !.links = 0]]]
                     ELSE [p |-> q, th |-> [h EXCEPT ![t] = x]]
      piece(q, h) ==
        LET t == q.filledStart
            x == h[t]
            n == IF x.keptStart # 0 THEN x.keptStart ELSE Lesser(InBufSize, x.kept)
        IN  [p |-> q, data |-> SubSeq(x.bufs[1], 1, n), some |-> TRUE,
             th |-> [h EXCEPT ![t] = [x EXCEPT !.keptStart = 0, !.kept = @ - n]]]
      s == IF p.numFilled # 0 THEN step(p, th) ELSE [p |-> p, th |-> th]
  IN  IF s.p.numFilled # 0 THEN piece(s.p, s.th)
      ELSE [p |-> [s.p EXCEPT !.cross = <<>>], th |-> s.th, data |-> s.p.cross, some |-> s.p.cross # <<>>]
=============================================================================
