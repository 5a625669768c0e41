----------------------------- MODULE Lzma2DecMt -----------------------------
(***************************************************************************)
(* Lzma2DecMt_Decode: a stream is decoded by several threads as far as this*)
(* is possible (MtDec), and the rest by one, first out of what the threads *)
(* have kept and then out of the stream.  Thread 0 of the ring is the      *)
(* caller itself.                                                          *)
(***************************************************************************)
EXTENDS MtDec

CONSTANTS
  InBufST,     \* props.inBufSize_ST
  OutStep,     \* props.outStep_ST
  DicBufSize   \* of the decoder that goes on alone

ASSUME StAssumption == InBufST > 0 /\ OutStep > 0 /\ DicBufSize >= DicSize

VARIABLES
  st,          \* the variables of Lzma2Dec_Decode_ST and the fields it uses
  result

vars == <<job, main, mtVars, written, failed, st, result>>

NewSt == [dec |-> New2(DicBufSize), data |-> <<>>, pos |-> 0, wrPos |-> 0, tMode |-> FALSE, again |-> FALSE,
          made |-> 0, readDone |-> FALSE, readRes |-> "ok", left |-> 0, got |-> 0, finish |-> "any"]

Init ==
  /\ job \in Jobs /\ main = "call" /\ p = NewMtDec
  /\ th = [t \in Threads |-> NewThread]
  /\ canRead = {} /\ canWrite = {} /\ parsed = 0 /\ written = <<>> /\ failed = {}
  /\ st = NewSt /\ result = "none"

-----------------------------------------------------------------------------
(* Lzma2DecMt_Decode.                                                        *)

\* MtDec_Code starts with thread 0 in the place of both turns.
Call ==
  /\ main = "call" /\ job.asks = 0
  /\ IF job.threads > 1
       THEN main' = "mt" /\ canRead' = {0} /\ canWrite' = {0}
       ELSE main' = "prepare" /\ UNCHANGED <<canRead, canWrite>>
  /\ UNCHANGED <<job, p, th, parsed, written, failed, st, result>>

\* mtc.needContinue
Continues == p.isAllocError \/ p.noThread \/ p.overflow

Done(res) == main' = "done" /\ result' = res

\* Mutant: what the stream said is forgotten.
ProgressOnly == p.progress

\* mtProgress.res, or readRes; codeRes is not looked at
MtResult == IF p.progress # "ok" THEN p.progress ELSE p.readRes

Return ==
  /\ main = "mt" /\ th[0].pc = "gone"
  /\ IF p.progress = "ok" /\ Continues
       THEN /\ main' = "prepare"
            /\ st' = [st EXCEPT !.tMode = HasKept, !.readDone = p.readWasFinished, !.readRes = p.readRes,
                                !.made = Len(written)]
            /\ PrepareRead
            /\ UNCHANGED result
       ELSE Done(MtResult) /\ UNCHANGED <<st, p, th>>
  /\ UNCHANGED <<job, canRead, canWrite, parsed, written, failed>>

\* Lzma2Dec_Prepare_ST
Prepare ==
  /\ main = "prepare"
  /\ \E fault \in MayFail({"alone"}) :
       /\ Note(fault)
       /\ IF fault = "none" THEN main' = "st" /\ st' = [st EXCEPT !.dec = Lzma2Init(@)] /\ UNCHANGED result
                ELSE Done("mem") /\ UNCHANGED st
  /\ UNCHANGED <<job, mtVars, written>>

-----------------------------------------------------------------------------
(* Lzma2Dec_Decode_ST.                                                       *)

NeedsData == st.pos = Len(st.data)

\* A piece that a thread has kept
TakeKept ==
  /\ main = "st" /\ NeedsData /\ st.tMode
  /\ LET r == ReadKept(st.again)
     IN  /\ p' = r.p /\ th' = r.th
         /\ st' = [st EXCEPT !.data = r.data, !.pos = 0, !.tMode = r.some, !.again = r.data # <<>>]
  /\ UNCHANGED <<job, main, canRead, canWrite, parsed, written, failed, result>>

\* A turn of the loop: read, decode, write.
Room ==
  LET next == IF DicBufSize - st.wrPos > OutStep THEN st.wrPos + OutStep ELSE DicBufSize
  IN  next - st.dec.dec.dicPos

Size1 == IF job.outSize >= 0 THEN Lesser(Room, job.outSize - st.made) ELSE Room
FinishMode ==
  IF job.outSize >= 0 /\ Room >= job.outSize - st.made /\ job.finish THEN "end" ELSE "any"

\* What there is to decode: [data, pos, done, res]
Reading == NeedsData /\ ~st.readDone
Source(fault) ==
  IF ~Reading THEN [data |-> st.data, pos |-> st.pos, done |-> st.readDone, res |-> st.readRes]
  ELSE IF fault = "read" THEN [data |-> <<>>, pos |-> 0, done |-> TRUE, res |-> "read"]
  ELSE [data |-> SubSeq(Rest, 1, Lesser(Len(Rest), InBufST)), pos |-> 0, done |-> Rest = <<>>, res |-> "ok"]

OutFinished(made) == job.outSize >= 0 /\ job.outSize <= made

Verdict(a, made) ==
  CASE a.res # "ok" -> a.res
    [] a.res = "ok" /\ a.status = "mark" ->
         IF job.finish /\ job.outSize >= 0 /\ job.outSize # made THEN "data" ELSE "ok"
    [] a.res = "ok" /\ a.status # "mark" ->
         IF ~job.finish /\ OutFinished(made) THEN "ok" ELSE IF a.status = "input" THEN "eof" ELSE "data"

\* Mutant: the result of the write is not looked at.
GivesUpNever(wrote) == FALSE

\* RINOK(res2)
GivesUp(wrote) == ~wrote

Turn1 ==
  /\ main = "st" /\ ~(NeedsData /\ st.tMode)
  /\ \E fault \in MayFail({"read", "write alone", "progress"}) :
     \E src \in {Source(fault)} :
     \E a \in {Decode2ToDic(st.dec, st.dec.dec.dicPos + Size1, Behind(src.data, src.pos), FinishMode)} :
       LET from  == st.dec.dec.dicPos
           wrote == fault # "write alone"
           goOn  == fault # "progress"
           out  == a.d.dec.dicPos - from
           made == st.made + out
           stop == \/ a.res # "ok" \/ (a.used = 0 /\ out = 0) \/ a.status = "mark"
                   \/ ~job.finish /\ OutFinished(made)
           flush == stop \/ out >= Size1
           piece == [i \in 1 .. a.d.dec.dicPos - st.wrPos |-> a.d.dec.dic[st.wrPos + i - 1]]
           wrap  == IF flush /\ a.d.dec.dicPos = DicBufSize THEN 0 ELSE a.d.dec.dicPos
           verdict == IF stop THEN Verdict(a, made) ELSE "ok"
           next  == [st EXCEPT !.dec = [a.d EXCEPT !.dec.dicPos = wrap], !.data = src.data, !.pos = src.pos + a.used,
                               !.made = made, !.readDone = src.done, !.readRes = src.res,
                               !.wrPos = IF flush THEN wrap ELSE @]
       IN  /\ wrote \/ (flush /\ piece # <<>>)
           /\ goOn \/ ~stop
           /\ fault = "read" => Reading
           /\ Note(fault)
           /\ st' = next
           /\ p' = [p EXCEPT !.readProcessed = IF Reading THEN @ + Len(src.data) ELSE @]
           /\ written' = IF flush /\ wrote THEN written \o piece ELSE written
           /\ CASE GivesUp(wrote) -> Done("write")
                [] ~GivesUp(wrote) /\ stop -> Done(IF verdict = "ok" THEN src.res ELSE verdict)
                [] ~GivesUp(wrote) /\ ~stop /\ ~goOn -> Done("progress")
                [] OTHER -> UNCHANGED <<main, result>>
  /\ UNCHANGED <<job, th, canRead, canWrite, parsed>>

-----------------------------------------------------------------------------
(* Lzma2DecMt_Init and Lzma2DecMt_Read, called again and again for job.asks  *)
(* bytes until one of them gives less: the caller takes the text in pieces.  *)

\* What a call begins with: how much it may make, and what is to be found behind that
NewCall(s) ==
  LET rem == IF job.outSize >= 0 THEN job.outSize - s.made ELSE job.asks + 1
  IN  [s EXCEPT !.left = Lesser(job.asks, rem), !.got = 0, !.readRes = "ok",
                !.finish = IF job.asks >= rem /\ job.finish THEN "end" ELSE "any"]

StartReading ==
  /\ main = "call" /\ job.asks > 0
  /\ \E fault \in MayFail({"alone"}) :
       /\ Note(fault)
       /\ IF fault = "none"
            THEN main' = "reading" /\ st' = NewCall([st EXCEPT !.dec = Lzma2Init(@)]) /\ UNCHANGED result
            ELSE Done("mem") /\ UNCHANGED st
  /\ UNCHANGED <<job, mtVars, written>>

Fetches == NeedsData /\ st.readRes = "ok"
Fetched(fault) ==
  IF fault = "read" THEN <<>>
  ELSE IF Fetches THEN SubSeq(Rest, 1, Lesser(Len(Rest), InBufST)) ELSE Behind(st.data, st.pos)

ReadTurn ==
  /\ main = "reading"
  /\ \E fault \in MayFail({"read"}) : \E data \in {Fetched(fault)} :
     \E a \in {DecodeToBuf(st.dec, st.left, data, st.finish)} :
       LET n    == Len(a.made)
           next == [st EXCEPT !.dec = a.d, !.data = data, !.pos = a.used, !.left = @ - n, !.got = @ + n,
                              !.made = @ + n, !.readRes = IF fault = "read" THEN fault ELSE @]
           ends == a.res # "ok" \/ (a.used = 0 /\ n = 0)
           res  == IF a.res # "ok" THEN a.res ELSE next.readRes
       IN  /\ fault = "read" => Fetches
           /\ Note(fault)
           /\ p' = [p EXCEPT !.readProcessed = IF Fetches THEN @ + Len(data) ELSE @]
           /\ written' = written \o a.made
           /\ IF ends /\ res = "ok" /\ next.got = job.asks
                THEN st' = NewCall(next) /\ UNCHANGED <<main, result>>
              ELSE IF ends THEN Done(res) /\ st' = next
              ELSE st' = next /\ UNCHANGED <<main, result>>
  /\ UNCHANGED <<job, th, canRead, canWrite, parsed>>

Threading(t) == main = "mt" /\ ThreadStep(t) /\ UNCHANGED <<st, result>>

Next == Call \/ Return \/ Prepare \/ TakeKept \/ Turn1 \/ StartReading \/ ReadTurn \/ \E t \in Threads : Threading(t)

\* Of all that can go on, something does: no more is needed, every run of the call is finite.
Spec == Init /\ [][Next]_vars /\ WF_vars(Next)

-----------------------------------------------------------------------------
(* Properties.                                                               *)

\* Whoever decodes a piece, what is written is the text, in order and nothing twice.
WritesText == IsPrefix(written, job.text)

Wanted == SubSeq(job.text, 1, IF job.outSize >= 0 THEN Lesser(job.outSize, Len(job.text)) ELSE Len(job.text))

GoodIsDecoded ==
  job.good =>
    /\ failed \subseteq {"memory", "thread"} => result = "ok"
    /\ result = "ok" /\ "write" \notin failed => written = Wanted

FailureTold ==
  /\ failed \cap {"read", "progress", "alone", "write alone"} # {} => result # "ok"
  /\ job.threads = 1 /\ ~job.good => result # "ok"

\* The result tells how it went.  A good stream is decoded whatever memory or threads are
\* missing, if only the single decoder can be had; when the call says that it went well,
\* all of it was written; and what goes wrong in reading or in the progress callback,
\* whichever thread has met it, and all that goes wrong when one thread is left, its writes
\* included, is told; by one thread, so is a stream that is broken or cut short.  Neither
\* that nor a write that is refused is told while several threads decode: mtc.codeRes is
\* not looked at (Lzma2DecMt.c:919; WriteTold).
ResultTells == main = "done" => GoodIsDecoded /\ FailureTold

\* A write that outStream refuses is told, as Lzma2DecMt.h:35 says: "SZ_ERROR_WRITE  -
\* ISeqOutStream write callback error".  It is not by the threads (Lzma2DecMt.c:919).
WriteTold == main = "done" /\ failed \cap {"write", "write alone"} # {} => result # "ok"

\* Every call returns, whatever turns the threads still hold or wait for.
DecodeReturns == main = "call" ~> main = "done"
=============================================================================
