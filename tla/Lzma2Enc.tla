----------------------------- MODULE Lzma2Enc ------------------------------
(***************************************************************************)
(* The writer of LZMA2 (Lzma2Enc.c) over the compressor: the text goes out *)
(* in chunks, each compressed, or copied when compressing did not pay.     *)
(* After a copy the compressor is put back to where it stood before the    *)
(* chunk, because the reader has not seen the symbols.                     *)
(*                                                                         *)
(* One SOLID block, one thread (module MtCoder has the threads).  The same *)
(* specification holds the two other users of the compressor and its match *)
(* finder: LzmaEnc_Encode and LzmaEnc_MemEncode, which write one stream,   *)
(* and one that calls the match finder as it likes.                        *)
(***************************************************************************)
EXTENDS LzmaEnc

CONSTANT CopyMax   \* LZMA2_COPY_CHUNK_SIZE

ASSUME CopyAssumption == CopyMax \in Nat \ {0}

VARIABLE lz2   \* CLzma2EncInt, the saved state of the compressor, the chunks written

encVars == <<enc, lz2>>

\* Lzma2EncInt_InitBlock; needInitState and needInitProp are set and cleared together
InitBlock == [srcPos |-> 0, needInit |-> TRUE, saved |-> [state |-> 0, reps |-> FirstReps], chunks |-> <<>>]

EncInit ==
  /\ Init
  /\ enc = [NewEnc EXCEPT !.pc = IF set.user = "any" THEN "idle" ELSE IF set.user = "lzma" THEN "begin" ELSE "next",
                          !.chunk = (set.user = "lzma2")]
  /\ lz2 = InitBlock

\* The call of CodeOneMemBlock in EncodeSubblock, and what it does first
BeginSubblock ==
  /\ enc.pc = "next"
  /\ lz2' = [lz2 EXCEPT !.saved = [state |-> enc.state, reps |-> enc.reps]]
  /\ enc' = [enc EXCEPT !.pc = "begin", !.finished = FALSE, !.res = "ok", !.endMark = FALSE, !.syms = <<>>,
                        !.state = IF lz2.needInit THEN 0 ELSE @,
                        !.reps = IF lz2.needInit THEN FirstReps ELSE @]
  /\ UNCHANGED mf /\ NotAsked /\ Kept

Unpacked == enc.nowPos - enc.start

\* The chunk as it goes out compressed
Mode       == IF lz2.srcPos = 0 THEN 3 ELSE IF lz2.needInit THEN 2 ELSE 0
Compressed == [copy |-> FALSE, mode |-> Mode, syms |-> enc.syms, bytes |-> <<>>]

\* and copied from the window, in pieces
Copied(n) ==
  [copy |-> TRUE, mode |-> IF lz2.srcPos + n = 0 THEN 1 ELSE 2, syms |-> <<>>,
   bytes |-> [i \in 1 .. Shorter(Unpacked - n, CopyMax) |-> Cur(mf, n + i - 1 - enc.ahead - Unpacked)]]

Copies == [k \in 1 .. (Unpacked + CopyMax - 1) \div CopyMax |-> Copied((k - 1) * CopyMax)]

\* Mutant: the compressor goes on from the symbols nobody has seen.
RestoredNot(e) == e

\* LzmaEnc_RestoreState
Restored(e) == [e EXCEPT !.state = lz2.saved.state, !.reps = lz2.saved.reps]

Stops(res) == enc' = [enc EXCEPT !.pc = "done", !.res = res]

\* EncodeSubblock after CodeOneMemBlock, and the turn of EncodeMt1 around it.  Which
\* of the two is shorter is left open, and which write fails when the output does.
EndSubblock ==
  /\ enc.pc = "back" /\ enc.chunk
  /\ \/ /\ Unpacked = 0 \/ enc.res # "ok"
        /\ Stops(IF enc.res # "ok" THEN enc.res
                 ELSE IF lz2.srcPos # mf.taken + Avail(mf) THEN "fail" ELSE "ok")
        /\ UNCHANGED lz2
     \/ /\ enc.res = "ok" /\ set.outFails
        /\ Stops("write")
        /\ UNCHANGED lz2
     \/ /\ Unpacked > 0 /\ enc.res = "ok"
        /\ lz2' = [lz2 EXCEPT !.srcPos = @ + Unpacked, !.needInit = FALSE, !.chunks = Append(@, Compressed)]
        /\ enc' = [enc EXCEPT !.pc = "next", !.syms = <<>>]
     \/ /\ Unpacked > 0 /\ enc.res = "ok"
        /\ lz2' = [lz2 EXCEPT !.srcPos = @ + Unpacked, !.chunks = @ \o Copies]
        /\ enc' = [Restored(enc) EXCEPT !.pc = "next", !.syms = <<>>]
  /\ UNCHANGED mf /\ NotAsked /\ Kept

EncNext ==
  \/ set.user = "any" /\ Next /\ UNCHANGED encVars
  \/ CodeOneBlock /\ UNCHANGED lz2
  \/ Planned /\ UNCHANGED lz2
  \/ Choose /\ UNCHANGED lz2
  \/ Look /\ UNCHANGED lz2
  \/ Parse /\ UNCHANGED lz2
  \/ Encode2 /\ UNCHANGED lz2
  \/ BeginSubblock \/ EndSubblock

EncSpec == EncInit /\ [][EncNext]_<<vars, encVars>>

-----------------------------------------------------------------------------
(* The reader: what a decoder makes of the symbols (LzmaDec.c, Lzma2Dec.c).  *)

NewReader == [ok |-> TRUE, out |-> <<>>, state |-> 0, rep |-> <<1, 1, 1, 1>>, need |-> 3, ended |-> FALSE]

Back1(out, d) == out[Len(out) + 1 - d]

LitState(s) == IF s < 4 THEN 0 ELSE IF s < 10 THEN s - 3 ELSE s - 6

ReadLiteral(d, y) ==
  [d EXCEPT !.ok = /\ @ /\ y.prev = (IF d.out = <<>> THEN 0 ELSE Last(d.out))
                   /\ y.matched = (IF d.state < 7 THEN NoByte ELSE Back1(d.out, d.rep[1])),
            !.out = Append(@, y.byte), !.state = LitState(@)]

RECURSIVE CopyBack(_, _, _)
CopyBack(out, d, n) == IF n = 0 THEN out ELSE CopyBack(Append(out, Back1(out, d)), d, n - 1)

Distances(rep, dist) ==
  CASE dist = 0 -> rep
    [] dist = 1 -> <<rep[2], rep[1], rep[3], rep[4]>>
    [] dist = 2 -> <<rep[3], rep[1], rep[2], rep[4]>>
    [] dist = 3 -> <<rep[4], rep[1], rep[2], rep[3]>>
    [] OTHER    -> <<dist - 3, rep[1], rep[2], rep[3]>>

ReadRepetition(d, y) ==
  LET rep == Distances(d.rep, y.dist)
      far == rep[1] > Len(d.out) \/ rep[1] > HistorySize
      next == IF y.dist >= 4 THEN 7 ELSE IF y.dist = 0 /\ y.len = 1 THEN 9 ELSE 8
  IN  IF far \/ ~d.ok THEN [d EXCEPT !.ok = FALSE]
      ELSE [d EXCEPT !.out = CopyBack(@, rep[1], y.len), !.rep = rep,
                     !.state = IF @ < 7 THEN next ELSE IF next = 7 THEN 10 ELSE 11]

ReadSymbol(d, y) ==
  LET e == [d EXCEPT !.ok = @ /\ ~d.ended /\ y.state = d.state /\ y.pos = Len(d.out)]
  IN  IF y.dist = MarkLit THEN ReadLiteral(e, y)
      ELSE IF y.len = 0 THEN [e EXCEPT !.ended = TRUE]
      ELSE ReadRepetition(e, y)

RECURSIVE ReadSymbols(_, _)
ReadSymbols(d, syms) == IF syms = <<>> THEN d ELSE ReadSymbols(ReadSymbol(d, Head(syms)), Tail(syms))

\* need: what the next compressed chunk must reset
ReadChunk(d, c) ==
  IF c.copy
    THEN [d EXCEPT !.ok = @ /\ (c.mode = 1 \/ d.need < 3), !.out = @ \o c.bytes,
                   !.need = IF c.mode = 1 THEN 2 ELSE @]
    ELSE ReadSymbols(
           [d EXCEPT !.ok = @ /\ c.mode >= d.need, !.need = 0,
                     !.state = IF c.mode > 0 THEN 0 ELSE @, !.rep = IF c.mode > 0 THEN <<1, 1, 1, 1>> ELSE @],
           c.syms)

RECURSIVE ReadChunks(_, _)
ReadChunks(d, chunks) == IF chunks = <<>> THEN d ELSE ReadChunks(ReadChunk(d, Head(chunks)), Tail(chunks))

\* All that has been written, with the chunk under way as it stands
Reading == ReadChunks(NewReader, lz2.chunks \o IF enc.syms = <<>> THEN <<>> ELSE <<Compressed>>)

-----------------------------------------------------------------------------
(* Properties.                                                               *)

RECURSIVE Lengths(_)
Lengths(plan) == IF plan = <<>> THEN 0 ELSE Head(plan).len + Lengths(Tail(plan))

\* What has been written reads back as the text up to where the compressor stands: every
\* literal is coded with the bytes and in the state the reader will have, no repetition
\* reaches before the text or the dictionary, a chunk resets what the reader needs, and
\* what a copied chunk did is undone.  The match finder is exactly as far ahead as the
\* compressor counts, and at the end without an error all of the text is out.
EncodesText ==
  enc.pc # "idle" =>
    /\ Reading.ok /\ Reading.out = SubSeq(text, 1, enc.nowPos)
    /\ enc.nowPos + enc.ahead = mf.taken
    /\ enc.plan # <<>> => Lengths(enc.plan) \in {enc.ahead - 1, enc.ahead}
    /\ enc.pc = "done" /\ enc.res = "ok" => enc.nowPos = size /\ Reading.ended = (enc.chunk = FALSE /\ set.endMark)

\* What the steps <<length, distance>> cost from state s on
RECURSIVE Cost(_, _)
Cost(s, steps) ==
  IF steps = <<>> THEN 0
  ELSE LET len  == steps[1][1]
           dist == steps[1][2]
       IN  (IF dist = MarkLit THEN price.lit[s]
            ELSE IF dist = 0 /\ len = 1 THEN price.short[s]
            ELSE IF dist < NumReps THEN RepPrice(s, dist, len) ELSE MatchPrice(s, dist - NumReps, len))
           + Cost(NextState(s, len, dist), Tail(steps))

\* The steps opt tells for position t
RECURSIVE Way(_)
Way(t) ==
  IF t = 0 THEN <<>>
  ELSE LET c == enc.opt[t]
       IN  Way(t - c.len - c.extra)
             \o CASE c.extra = 0 -> << <<c.len, c.dist>> >>
                  [] c.extra = 1 -> << <<1, MarkLit>>, <<c.len, c.dist>> >>
                  [] OTHER       -> << <<c.extra - 1, c.dist>>, <<1, MarkLit>>, <<c.len, 0>> >>

\* The price of a position is what the way to it costs when it is written, in the states
\* the compressor goes through then, also where a way leads over a literal between two
\* repetitions.
PricesRight ==
  enc.pc = "parse" =>
    \A t \in DOMAIN enc.opt \ {0} :
      enc.opt[t].price < Infinity => enc.opt[t].price = Cost(enc.opt[0].state, Way(t))
=============================================================================
