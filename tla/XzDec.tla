------------------------------- MODULE XzDec -------------------------------
(***************************************************************************)
(* Reading an xz archive (XzDec.c): XzDecMt_Decode with one thread reads   *)
(* its input in pieces of any size and calls XzUnpacker_Code with what it  *)
(* has and with the room that is left in its output buffer.                *)
(*                                                                         *)
(* One action is one turn of the loop of XzUnpacker_Code; the data of a    *)
(* block goes through MixCoder_Code, the LZMA2 decoder (Lzma2Dec) and the  *)
(* filters, which keep what they have between two calls.  When the size of *)
(* the output is given, all of the archive is asked for (finishMode).      *)
(***************************************************************************)
EXTENDS XzFilter, Lzma2Dec

CONSTANTS
  InBuf,        \* inBufSize_ST
  OutStep,      \* outStep_ST
  MixBuf,       \* CODER_BUF_SIZE
  DicBuf,       \* dicBufSize of the LZMA2 decoder
  MaxReadFaults \* bound: reads and writes that fail

ASSUME DecAssumption == {InBuf, OutStep, MixBuf, DicBuf} \subseteq Nat \ {0} /\ MaxReadFaults \in Nat

VARIABLES
  archive,      \* what the input stream holds
  rd,           \* CXzDecMt: pc, the input read so far and what is left of it, ...
  u,            \* CXzUnpacker
  text          \* what has been written to the output stream

decVars == <<archive, rd, u, text>>

-----------------------------------------------------------------------------
(* CMixCoder: coder 1 is LZMA2, behind it come the filters; between two      *)
(* coders there is a buffer.                                                 *)

NoMix == [ids |-> <<>>, coders |-> <<>>, bufs |-> <<>>, results |-> <<>>]

Reversed(b) == [i \in DOMAIN b.filters |-> b.filters[Len(b.filters) + 1 - i]]
Empty == [data |-> <<>>, finished |-> FALSE]

\* XzDecMix_Init, with MixCoder_Init: coders of the same kind are used again.
NewMix(m, b) ==
  LET fs  == Reversed(b)
      ids == [i \in DOMAIN fs |-> fs[i].id]
  IN  [ids |-> ids, bufs |-> [i \in 1 .. Len(fs) - 1 |-> Empty], results |-> [i \in DOMAIN fs |-> "ok"],
       coders |-> [i \in DOMAIN fs |->
                     IF i > 1 THEN [b |-> NewBra(fs[i], FALSE)]
                     ELSE [d |-> Lzma2Init(IF m.ids = ids THEN m.coders[1].d ELSE New2(DicBuf))]]]

MixRefuses(b) == \E i \in 1 .. Len(b.filters) - 1 : RefusesProps(b.filters[i])

Code2(i, coder, room, src, finished, finish) ==
  IF i > 1 THEN The({[coder |-> [b |-> r.b], made |-> r.made, used |-> r.used, res |-> r.res, status |-> r.status] :
                       r \in {BraCode2(coder.b, room, src, finished)}})
  ELSE The({[coder |-> [d |-> r.d], made |-> r.made, used |-> r.used, res |-> r.res, status |-> r.status] :
              r \in {DecodeToBuf(coder.d, room, src, finish)}})

FirstError(a, res) == IF a = "ok" THEN res ELSE a

\* x: a pass over the coders, with the input and the room that are left, and what it did
Coded(x, i, r) ==
  LET last == i = Len(x.m.coders)
      m == [x.m EXCEPT
              !.coders[i]  = r.coder,
              !.results[i] = r.res,
              !.bufs = [k \in DOMAIN @ |->
                          CASE k = i     -> [data |-> r.made, finished |-> r.status = "mark"]
                            [] k = i - 1 -> [@[k] EXCEPT !.data = After(r.used, @)]
                            [] OTHER     -> @[k]]]
  IN  [x EXCEPT !.m = m, !.resMain = FirstError(@, r.res),
                !.allFinished = @ /\ r.status = "mark",
                !.status = IF r.status # "mark" /\ Len(m.coders) = 1 /\ r.res = "ok" THEN r.status ELSE @,
                !.src  = IF i = 1 THEN After(r.used, @) ELSE @,
                !.made = IF last THEN @ \o r.made ELSE @,
                !.room = IF last THEN @ - Len(r.made) ELSE @,
                !.processed = @ \/ r.made # <<>> \/ r.used # 0]

Busy(x, i) == i < Len(x.m.coders) /\ x.m.bufs[i].data # <<>>

CodeOne(x, i, srcFinished, finish) ==
  LET room == IF i = Len(x.m.coders) THEN x.room ELSE MixBuf
      one  == IF i = 1 THEN Code2(1, x.m.coders[1], room, x.src, srcFinished, finish)
              ELSE Code2(i, x.m.coders[i], room, x.m.bufs[i - 1].data, x.m.bufs[i - 1].finished, finish)
  IN  IF Busy(x, i) THEN x
      ELSE IF x.m.results[i] # "ok" THEN [x EXCEPT !.resMain = FirstError(@, x.m.results[i])]
      ELSE The({Coded(x, i, r) : r \in {one}})

RECURSIVE CodePass(_, _, _, _)
CodePass(x, i, srcFinished, finish) ==
  IF i > Len(x.m.coders) THEN x
  ELSE The({CodePass(y, i + 1, srcFinished, finish) : y \in {CodeOne(x, i, srcFinished, finish)}})

BeginPass(x) == [x EXCEPT !.processed = FALSE, !.allFinished = TRUE, !.resMain = "ok", !.status = "not finished"]

RECURSIVE CodePasses(_, _, _)
CodePasses(x, srcFinished, finish) ==
  The({IF y.processed THEN CodePasses(y, srcFinished, finish)
       ELSE [y EXCEPT !.status = IF y.allFinished THEN "mark" ELSE @] :
         y \in {CodePass(BeginPass(x), 1, srcFinished, finish)}})

\* MixCoder_Code without an output buffer of its own
MixCode(m, room, src, srcFinished, finish) ==
  CodePasses([m |-> m, room |-> room, src |-> src, made |-> <<>>, status |-> "none", resMain |-> "ok",
              processed |-> FALSE, allFinished |-> FALSE],
             srcFinished, IF Len(m.coders) = 1 THEN finish ELSE "any")

-----------------------------------------------------------------------------
(* XzUnpacker_Code.                                                          *)

\* XzUnpacker_Construct and XzUnpacker_Init
NewUnpacker ==
  [state |-> "stream header", buf |-> <<>>, pos |-> 0, align |-> 0, headerSize |-> 0, preSize |-> 0, flags |-> 0,
   packSize |-> 0, unpackSize |-> 0, numBlocks |-> 0, indexSize |-> 0, indexPos |-> 0, padSize |-> 0,
   started |-> 0, finished |-> 0, crc |-> 0, check |-> 0, sha |-> 0, digest |-> 0,
   block |-> [pack |-> Unknown, unpack |-> Unknown, filters |-> <<>>], mix |-> NoMix]

Coding(state) == rd.pc = "code" /\ u.state = state

\* n bytes of the input are used, and the loop goes on.
Use(n) == rd' = [rd EXCEPT !.in = After(n, @), !.used = @ + n] /\ UNCHANGED <<archive, text>>

\* ... or XzUnpacker_Code returns.
UseAndReturn(n, res, status) ==
  /\ rd' = [rd EXCEPT !.in = After(n, @), !.used = @ + n, !.pc = "coded", !.res = res, !.status = status]
  /\ UNCHANGED <<archive, text>>

UseOr(n, res) == IF res = "ok" THEN Use(n) ELSE UseAndReturn(n, res, "none")

Lacking == Len(rd.in) = 0

NeedsInput ==
  /\ rd.pc = "code" /\ Lacking
  /\ \/ u.state \notin {"block", "block footer"}
     \/ u.state = "block footer" /\ \/ (u.packSize + u.align) % Align # 0
                                    \/ u.pos < CheckSize(u.flags)
  /\ UseAndReturn(0, "ok", "input") /\ UNCHANGED u

StreamHeader ==
  /\ Coding("stream header") /\ ~Lacking
  /\ IF u.pos < HeaderSize
       THEN IF u.pos < Len(Sig) /\ Head(rd.in) # Sig[u.pos + 1]
              THEN UseAndReturn(0, "no archive", "none") /\ UNCHANGED u
              ELSE Use(1) /\ u' = [u EXCEPT !.buf = Append(FirstOf(u.pos, @), Head(rd.in)), !.pos = @ + 1]
       ELSE LET h == ParseHeader1(u.buf)
            IN  IF h.res # "ok" THEN UseAndReturn(0, h.res, "none") /\ u' = [u EXCEPT !.flags = h.flags]
                ELSE /\ Use(0)
                     /\ u' = [u EXCEPT !.flags = h.flags, !.started = @ + 1, !.indexSize = 0, !.numBlocks = 0,
                                       !.sha = CrcInit, !.state = "block header", !.pos = 0, !.buf = <<>>]

\* The first byte is the size of the header, or 0 at the index.
BeginIndex ==
  LET start == IndexStart(u.numBlocks)
  IN  u' = [u EXCEPT !.state = "index", !.buf = start, !.preSize = Len(start), !.indexPos = Len(start),
                     !.indexSize = @ + Len(start), !.digest = u.sha, !.sha = CrcInit,
                     !.crc = CrcCalc(start), !.pos = 1]

BlockHeaderSize ==
  /\ Coding("block header") /\ ~Lacking /\ u.pos = 0
  /\ Use(1)
  /\ IF Head(rd.in) = 0 THEN BeginIndex
     ELSE u' = [u EXCEPT !.buf = <<Head(rd.in)>>, !.pos = 1, !.headerSize = Align * Head(rd.in) + Align]

Least(n) == IF n < Len(rd.in) THEN n ELSE Len(rd.in)

BlockHeaderBytes ==
  /\ Coding("block header") /\ ~Lacking /\ u.pos \notin {0, u.headerSize}
  /\ LET n == Least(u.headerSize - u.pos)
     IN  Use(n) /\ u' = [u EXCEPT !.buf = @ \o FirstOf(n, rd.in), !.pos = @ + n]

BlockHeaderDone ==
  /\ Coding("block header") /\ ~Lacking /\ u.pos # 0 /\ u.pos = u.headerSize
  /\ \E h \in {ParseBlock(u.buf)} :
       LET res == CASE h.res # "ok" -> h.res
                    [] h.res = "ok" /\ (~AreSupported(h.block) \/ MixRefuses(h.block)) -> "unsupported"
                    [] OTHER -> "ok"
       IN  /\ UseOr(0, res)
           /\ u' = [u EXCEPT !.block = h.block, !.packSize = 0, !.unpackSize = 0, !.check = CrcInit,
                             !.state = IF res = "ok" THEN "block" ELSE @,
                             !.mix = IF res = "ok" THEN NewMix(@, h.block) ELSE NoMix]

SizesFit(v) ==
  /\ v.block.pack \in {Unknown, v.packSize}
  /\ v.block.unpack \in {Unknown, v.unpackSize}

\* XzUnpacker_UpdateIndex
InIndex(v) ==
  LET rec == IndexRecord(v.packSize + v.headerSize + CheckSize(v.flags), v.unpackSize)
  IN  [v EXCEPT !.sha = CrcUpdate(@, rec), !.indexSize = @ + Len(rec), !.numBlocks = @ + 1]

Block ==
  /\ Coding("block")
  /\ LET packRest   == u.block.pack - u.packSize
         unpackRest == u.block.unpack - u.unpackSize
         limited    == u.block.pack # Unknown /\ Len(rd.in) >= packRest
         ends       == u.block.unpack # Unknown /\ rd.room >= unpackRest
         src        == IF limited THEN FirstOf(packRest, rd.in) ELSE rd.in
         room       == IF ends THEN unpackRest ELSE rd.room
     IN  IF u.block.pack # Unknown /\ packRest = 0 /\ u.block.unpack = u.unpackSize
           THEN UseAndReturn(0, "data", "none") /\ UNCHANGED u
         ELSE \E x \in {MixCode(u.mix, room, src, limited \/ rd.over, IF ends THEN "end" ELSE rd.finish)} :
           LET n == Len(src) - Len(x.src)
               v == [u EXCEPT !.mix = x.m, !.packSize = @ + n, !.unpackSize = @ + Len(x.made),
                              !.check = CrcUpdate(@, x.made)]
               res == CASE x.resMain # "ok" -> x.resMain
                        [] x.resMain = "ok" /\ x.status # "mark" ->
                             IF v.block.pack = v.packSize /\ x.status = "input" THEN "data" ELSE "ok"
                        [] OTHER -> IF SizesFit(v) THEN "ok" ELSE "data"
               done == x.resMain = "ok" /\ x.status = "mark"
           IN  /\ rd' = [rd EXCEPT !.in = After(n, @), !.used = @ + n, !.room = @ - Len(x.made),
                                   !.made = @ \o x.made, !.gave = @ + Len(x.made), !.res = res,
                                   !.status = IF done THEN "none" ELSE x.status,
                                   !.pc = IF done /\ res = "ok" THEN "code" ELSE "coded"]
               /\ u' = IF done THEN [InIndex(v) EXCEPT !.state = "block footer", !.pos = 0, !.align = 0, !.buf = <<>>]
                               ELSE v
               /\ UNCHANGED <<archive, text>>

BlockPadding ==
  /\ Coding("block footer") /\ ~Lacking /\ (u.packSize + u.align) % Align # 0
  /\ UseOr(1, IF Head(rd.in) = 0 THEN "ok" ELSE "crc")
  /\ u' = [u EXCEPT !.align = @ + 1]

BlockCheck ==
  /\ Coding("block footer") /\ (u.packSize + u.align) % Align = 0
  /\ ~Lacking \/ u.pos = CheckSize(u.flags)
  /\ LET n    == Least(CheckSize(u.flags) - u.pos)
         buf  == u.buf \o FirstOf(n, rd.in)
         done == u.pos + n = CheckSize(u.flags)
     IN  /\ UseOr(n, IF done /\ buf # Digest(u.flags, u.check) THEN "crc" ELSE "ok")
         /\ u' = IF done THEN [u EXCEPT !.state = "block header", !.pos = 0, !.buf = <<>>]
                 ELSE [u EXCEPT !.pos = @ + n, !.buf = buf]

IndexHead ==
  /\ Coding("index") /\ ~Lacking /\ u.pos < u.preSize
  /\ UseOr(1, IF Head(rd.in) = u.buf[u.pos + 1] THEN "ok" ELSE "crc")
  /\ u' = [u EXCEPT !.pos = @ + 1]

\* The index is compared with what the blocks were by its digest.
IndexBody ==
  /\ Coding("index") /\ ~Lacking /\ u.pos = u.preSize /\ u.indexPos < u.indexSize
  /\ LET n == Least(u.indexSize - u.indexPos)
     IN  /\ Use(n)
         /\ u' = [u EXCEPT !.crc = CrcUpdate(@, FirstOf(n, rd.in)), !.sha = CrcUpdate(@, FirstOf(n, rd.in)),
                           !.indexPos = @ + n]

IndexPadding ==
  /\ Coding("index") /\ ~Lacking /\ u.pos = u.preSize /\ u.indexPos >= u.indexSize /\ u.indexPos % Align # 0
  /\ UseOr(1, IF Head(rd.in) = 0 THEN "ok" ELSE "crc")
  /\ u' = [u EXCEPT !.crc = CrcUpdate(@, <<Head(rd.in)>>), !.indexPos = @ + 1, !.indexSize = @ + 1]

IndexDone ==
  /\ Coding("index") /\ ~Lacking /\ u.pos = u.preSize /\ u.indexPos >= u.indexSize /\ u.indexPos % Align = 0
  /\ UseOr(0, IF u.sha = u.digest THEN "ok" ELSE "crc")
  /\ u' = [u EXCEPT !.state = "index crc", !.indexSize = @ + Align, !.pos = 0, !.buf = <<>>]

IndexCrc ==
  /\ Coding("index crc") /\ ~Lacking
  /\ IF u.pos < Align
       THEN Use(1) /\ u' = [u EXCEPT !.buf = Append(@, Head(rd.in)), !.pos = @ + 1]
       ELSE /\ UseOr(0, IF u.buf = Word(u.crc) THEN "ok" ELSE "crc")
            /\ u' = [u EXCEPT !.state = "footer", !.pos = 0, !.buf = <<>>]

Footer ==
  /\ Coding("footer") /\ ~Lacking
  /\ LET n    == Least(FooterSize - u.pos)
         buf  == u.buf \o FirstOf(n, rd.in)
         done == u.pos + n = FooterSize
     IN  /\ UseOr(n, IF done /\ ~FooterFits(u.flags, u.indexSize, buf) THEN "crc" ELSE "ok")
         /\ u' = IF done THEN [u EXCEPT !.state = "padding", !.pos = FooterSize, !.buf = <<>>, !.padSize = 0,
                                        !.finished = @ + 1]
                 ELSE [u EXCEPT !.pos = @ + n, !.buf = buf]

\* Zeros between two streams, and the header of the next one
Padding ==
  /\ Coding("padding") /\ ~Lacking
  /\ IF Head(rd.in) = 0 THEN Use(1) /\ u' = [u EXCEPT !.padSize = @ + 1]
     ELSE IF u.padSize % Align # 0 THEN UseAndReturn(0, "no archive", "none") /\ UNCHANGED u
     ELSE Use(0) /\ u' = [u EXCEPT !.pos = 0, !.state = "stream header"]

UnpackerTurn ==
  \/ NeedsInput \/ StreamHeader \/ BlockHeaderSize \/ BlockHeaderBytes \/ BlockHeaderDone \/ Block
  \/ BlockPadding \/ BlockCheck \/ IndexHead \/ IndexBody \/ IndexPadding \/ IndexDone \/ IndexCrc
  \/ Footer \/ Padding

-----------------------------------------------------------------------------
(* XzDecMt_Decode and XzDecMt_Decode_ST.                                     *)

Huge == 2 ^ 16     \* 2^64

NotReading == [pc |-> "off", pos |-> 0, processed |-> 0, in |-> <<>>, ended |-> FALSE, readRes |-> "ok", over |-> FALSE,
               room |-> 0, used |-> 0, gave |-> 0, made |-> <<>>, res |-> "ok", status |-> "none", faults |-> 0,
               decodeRes |-> "ok", afterEnd |-> FALSE, least |-> 1, given |-> Unknown, counted |-> 0, finish |-> "any"]

DecInit == archive = <<>> /\ rd = NotReading /\ u = NewUnpacker /\ text = <<>>

\* least: the stream gives that many bytes at a time, or more, unless there are fewer;
\* given: outSize, or Unknown
Opened(bytes, least, given) ==
  /\ archive' = bytes /\ rd' = [NotReading EXCEPT !.pc = "feed", !.least = least, !.given = given]
  /\ u' = NewUnpacker /\ text' = <<>>

Faulty(r, res) == res = "ok" \/ r.faults < MaxReadFaults
Counted(r, res) == IF res = "ok" THEN r.faults ELSE r.faults + 1

\* What is missing of the given size: a number that is never negative
Missing(r) == (r.given - r.counted) % Huge

Calling(r) ==
  LET room == OutStep - Len(r.made)
      ends == r.given # Unknown /\ room >= Missing(r)
  IN  [r EXCEPT !.pc = "code", !.over = r.in = <<>>, !.used = 0, !.gave = 0,
                !.room = IF ends THEN Missing(r) ELSE room, !.finish = IF ends THEN "end" ELSE "any"]

\* More input is read when what was read is used up, in pieces as the stream gives them.
Feed ==
  /\ rd.pc = "feed"
  /\ IF rd.in # <<>> \/ rd.ended THEN rd' = Calling(rd)
     ELSE \E res \in {"ok", "read"}, n \in 0 .. InBuf :
            /\ Faulty(rd, res) /\ n <= Len(archive) - rd.pos /\ (res = "read" => n = 0)
            /\ n < rd.least => res = "read" \/ n = Len(archive) - rd.pos
            /\ rd' = Calling([rd EXCEPT !.in = SubSeq(archive, rd.pos + 1, rd.pos + n), !.pos = @ + n,
                                        !.ended = n = 0 \/ res # "ok", !.readRes = res, !.faults = Counted(rd, res)])
  /\ UNCHANGED <<archive, u, text>>

\* XzUnpacker_GetExtraSize, XzUnpacker_IsStreamWasFinished
ExtraSize == CASE u.state = "padding"       -> u.padSize
               [] u.state = "stream header" -> u.padSize + u.pos
               [] OTHER                     -> 0
StreamFinished == u.state = "padding" /\ u.padSize % Align = 0

GoodBefore(r) == r.processed # ExtraSize /\ (ExtraSize # 0 \/ r.pos # r.processed)

\* XzStatInfo_SetStat, and what the call answers
Ended(r, res) ==
  [r EXCEPT
     !.pc = "done", !.made = <<>>,
     !.afterEnd = r.res = "no archive" /\ GoodBefore(r),
     !.decodeRes = CASE r.res = "ok" /\ r.status = "input" -> IF StreamFinished THEN "ok" ELSE "eof"
                     [] r.res = "ok" /\ r.status # "input" -> "data"
                     [] r.res = "no archive"                -> IF GoodBefore(r) THEN "ok" ELSE r.res
                     [] OTHER                               -> r.res,
     !.res = IF res = "ok" /\ r.readRes # "ok" /\ r.processed = r.pos THEN r.readRes ELSE res]

\* Behind the call: the buffer is written when it is full or nothing more comes.  What is
\* written has been counted before, and is counted again.
Deliver ==
  /\ rd.pc = "coded"
  /\ LET over == (rd.used = 0 /\ rd.gave = 0) \/ rd.res # "ok"
         r    == [rd EXCEPT !.processed = @ + rd.used, !.counted = @ + rd.gave]
     IN  IF (over \/ rd.room = 0) /\ rd.made # <<>>
           THEN \E res \in {"ok", "write"} :
                  /\ Faulty(rd, res)
                  /\ LET w == [r EXCEPT !.faults = Counted(rd, res), !.made = <<>>]
                     IN  rd' = CASE res # "ok"         -> Ended(w, res)
                                 [] res = "ok" /\ over  -> Ended(w, rd.res)
                                 [] res = "ok" /\ ~over -> [w EXCEPT !.pc = "feed", !.counted = @ + Len(rd.made)]
                  /\ text' = IF res = "ok" THEN text \o rd.made ELSE text
           ELSE rd' = (IF over THEN Ended(r, rd.res) ELSE [r EXCEPT !.pc = "feed"]) /\ UNCHANGED text
  /\ UNCHANGED <<archive, u>>

DecNext == Feed \/ UnpackerTurn \/ Deliver
=============================================================================
