-------------------------------- MODULE XzIn --------------------------------
(***************************************************************************)
(* Listing an xz file (XzIn.c): the streams in it are found from its end,  *)
(* by their footers and indexes, and no data is decoded.                   *)
(***************************************************************************)
EXTENDS XzFormat

FieldSize(w) == FoldRight(LAMBDA b, n : b + 256 * n, w, 0)
Part(bytes, from, n) == SubSeq(bytes, from + 1, from + n)

\* Xz_ReadIndex2: the records, or res
RECURSIVE ReadRecords(_, _)
ReadRecords(p, n) ==
  IF n = 0 \/ ~p.ok THEN p
  ELSE One({ReadRecords([q EXCEPT !.ok = @ /\ q.val["total"] # 0,
                                  !.blocks = Append(@, [total |-> q.val["total"], unpack |-> q.val["unpack"]])], n - 1) :
              q \in {MaybeField(Field(p, "total"), "unpack", TRUE)}})

ReadIndex2(buf) ==
  LET size  == Len(buf) - Align
      start == [ok |-> size > 0 /\ buf[1] = 0 /\ SumFits(buf, size), left |-> Part(buf, 1, size - 1),
                blocks |-> <<>>, val |-> [count |-> 0, total |-> 0, unpack |-> 0]]
      good(p) == p.ok /\ Len(p.left) < Align /\ p.left = Zeros(Len(p.left))
  IN  One({[res |-> IF good(p) THEN "ok" ELSE "archive", blocks |-> p.blocks] :
             p \in {ReadRecords([c EXCEPT !.ok = @ /\ 2 * c.val["count"] <= size], c.val["count"]) :
                      c \in {Field(start, "count")}}})

SumOver(f(_), blocks) == FoldLeft(LAMBDA n, b : n + f(b), 0, blocks)
UnpackSize(blocks)    == SumOver(LAMBDA b : b.unpack, blocks)
PackSize(blocks)      == SumOver(LAMBDA b : b.total + PadSize(b.total), blocks)

\* The end of the stream that ends at pos or in front of zeros there, 0 if there is none
SigAt(bytes, pos) == pos >= FooterSize /\ Part(bytes, pos - Len(FooterSig), Len(FooterSig)) = FooterSig
LastUsed(bytes, pos) == Max({0} \cup {i \in 1 .. pos : bytes[i] # 0})

EndOfStream(bytes, pos) ==
  LET used == LastUsed(bytes, pos)
  IN  CASE pos % Align # 0 \/ pos < FooterSize -> 0
        [] pos % Align = 0 /\ SigAt(bytes, pos) -> pos
        [] OTHER -> IF used % Align = 0 /\ SigAt(bytes, used) THEN used ELSE 0

\* Xz_ReadHeader
ReadHeader(buf) ==
  IF FirstOf(Len(Sig), buf) = Sig THEN ParseHeader1(buf) ELSE [res |-> "no archive", flags |-> 0]

\* With the index, the header must be where the blocks leave it and have the flags of the footer.
HeaderFits(bytes, at, flags, index) ==
  LET start == at - (PackSize(index.blocks) + HeaderSize)
      h     == ReadHeader(Part(bytes, start, HeaderSize))
      res   == CASE index.res # "ok"               -> index.res
                 [] index.res = "ok" /\ start < 0  -> "archive"
                 [] index.res = "ok" /\ start >= 0 ->
                      IF h.res # "ok" THEN h.res ELSE IF h.flags = flags THEN "ok" ELSE "archive"
  IN  [res |-> res, start |-> start, blocks |-> index.blocks]

\* Xz_ReadBackward
ReadBackward(bytes, pos) ==
  LET end    == EndOfStream(bytes, pos)
      footer == Part(bytes, end - FooterSize, FooterSize)
      body   == Part(footer, Align, Align + 2)
      flags  == body[Align + 2]
      at     == end - FooterSize - Align * (FieldSize(FirstOf(Align, body)) + 1)
      failed(res) == [res |-> res, start |-> pos, blocks |-> <<>>]
  IN  IF end = 0 THEN failed("no archive")
      ELSE IF body[Align + 1] # 0 \/ flags > 15 THEN failed("unsupported")
      ELSE IF FirstOf(Align, footer) # Word(CrcCalc(body)) \/ at < 0 THEN failed("archive")
      ELSE One({HeaderFits(bytes, at, flags, index) : index \in {ReadIndex2(Part(bytes, at, end - FooterSize - at))}})

\* Xzs_ReadBackward: the streams, the last one first
RECURSIVE ReadStreams(_, _, _)
ReadStreams(bytes, pos, streams) ==
  One({IF s.res # "ok" \/ s.start = 0
         THEN [res |-> s.res, streams |-> IF s.res = "ok" THEN Append(streams, s.blocks) ELSE streams]
         ELSE ReadStreams(bytes, s.start, Append(streams, s.blocks)) : s \in {ReadBackward(bytes, pos)}})

Listed(bytes)       == ReadStreams(bytes, Len(bytes), <<>>)
AllBlocks(list)     == FlattenSeq(list.streams)      \* Xzs_GetNumBlocks counts them
TotalUnpacked(list) == UnpackSize(AllBlocks(list))   \* Xzs_GetUnpackSize
=============================================================================
