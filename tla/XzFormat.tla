------------------------------ MODULE XzFormat ------------------------------
(***************************************************************************)
(* The xz container (Xz.c, and the parts of XzEnc.c and XzDec.c that put   *)
(* its fields together and take them apart), in bytes, but with a word of  *)
(* Align bytes and a number that takes VarBase values in its first byte.   *)
(*                                                                         *)
(*   stream header:  XZ_SIG, flags, CRC                                    *)
(*   block:          size, flags, [sizes], filters, padding, CRC;          *)
(*                   the packed data, padding, check                       *)
(*   index:          0, number of blocks, their sizes, padding, CRC        *)
(*   stream footer:  CRC, size of the index, flags, XZ_FOOTER_SIG          *)
(*                                                                         *)
(* A check sum is a number below a prime: it stands for CRC and SHA alike. *)
(***************************************************************************)
EXTENDS Integers, Sequences, SequencesExt

CONSTANTS
  Align,        \* bytes of a word; everything begins at a multiple of it (4)
  VarBase       \* values of a number in one byte (128)

ASSUME FormatAssumption == Align \in {2, 4} /\ VarBase \in 8 .. 128

Lower(a, b)   == IF a < b THEN a ELSE b
One(S)        == CHOOSE x \in S : TRUE     \* of a set with one element, made to give it a name
FirstOf(n, s) == SubSeq(s, 1, n)
After(n, s)   == SubSeq(s, n + 1, Len(s))
Zeros(n)      == [i \in 1 .. n |-> 0]
PadSize(n)    == (Align - (n % Align)) % Align
Word(n)       == [i \in 1 .. Align |-> (n \div 256 ^ (i - 1)) % 256]

RECURSIVE CrcUpdate(_, _)
CrcUpdate(c, s) == IF s = <<>> THEN c ELSE CrcUpdate((31 * c + Head(s) + 7) % 65521, Tail(s))
CrcInit    == 1
CrcCalc(s) == CrcUpdate(CrcInit, s)

\* Xz_WriteVarInt, Xz_ReadVarInt: a number, its low digits first, in as few bytes as can be
RECURSIVE WriteVarInt(_)
WriteVarInt(n) ==
  IF n < VarBase THEN <<n>> ELSE <<VarBase + (n % VarBase)>> \o WriteVarInt(n \div VarBase)

RECURSIVE ReadDigits(_, _, _)
ReadDigits(s, i, n) ==
  IF i = Len(s) \/ i = 9 THEN [size |-> 0, value |-> n]
  ELSE LET b == s[i + 1]
           m == n + (b % VarBase) * VarBase ^ i
       IN  IF b < VarBase THEN [size |-> IF b = 0 /\ i > 0 THEN 0 ELSE i + 1, value |-> m]
                          ELSE ReadDigits(s, i + 1, m)
ReadVarInt(s) == ReadDigits(s, 0, 0)

-----------------------------------------------------------------------------
(* The check of the data: none, one word or more.                            *)

CheckSize(f) == IF f = 0 THEN 0 ELSE Align * 2 ^ ((f - 1) \div 3)

\* The digest of a check sum
Digest(f, c) == FirstOf(CheckSize(f), Word(c) \o Word((7 * c) % 65521) \o Word(c) \o Word(c))

-----------------------------------------------------------------------------
(* The stream header and footer.                                             *)

Sig       == <<253, 55>>
FooterSig == <<89, 90>>
FlagBytes(f) == <<0, f>>
HeaderSize == Len(Sig) + 2 + Align
FooterSize == 2 * Align + 2 + Len(FooterSig)

WriteHeader(f) == Sig \o FlagBytes(f) \o Word(CrcCalc(FlagBytes(f)))

\* Xz_ParseHeader
ParseHeader1(buf) ==
  LET flags == SubSeq(buf, Len(Sig) + 1, Len(Sig) + 2)
      res == CASE Word(CrcCalc(flags)) # After(Len(Sig) + 2, buf) -> "no archive"
               [] flags[1] # 0 \/ flags[2] > 15                   -> "unsupported"
               [] OTHER                                           -> "ok"
  IN  [res |-> res, flags |-> flags[2]]

FooterBody(f, indexSize) == Word(indexSize \div Align - 1) \o FlagBytes(f)

\* Xz_CheckFooter
FooterFits(f, indexSize, buf) ==
  buf = Word(CrcCalc(FooterBody(f, indexSize))) \o FooterBody(f, indexSize) \o FooterSig

-----------------------------------------------------------------------------
(* The header of a block: [pack, unpack, filters], a size of Unknown is left *)
(* out, a filter is [id, props].                                             *)

Unknown  == -1
IdDelta  == 3
IdARM    == 7
IdSPARC  == 9
IdLZMA2  == 33
PackFlag == 64
UnpackFlag == 128
PropsMax == 20

Flags(b) == Len(b.filters) - 1 + (IF b.pack = Unknown THEN 0 ELSE PackFlag)
                               + (IF b.unpack = Unknown THEN 0 ELSE UnpackFlag)
SizeField(n)   == IF n = Unknown THEN <<>> ELSE WriteVarInt(n)
FilterField(f) == WriteVarInt(f.id) \o WriteVarInt(Len(f.props)) \o f.props

\* XzBlock_WriteHeader
BlockHeader(b) ==
  LET fields == <<Flags(b)>> \o SizeField(b.pack) \o SizeField(b.unpack)
                  \o FlattenSeq([i \in DOMAIN b.filters |-> FilterField(b.filters[i])])
      padded == fields \o Zeros(PadSize(1 + Len(fields)))
      header == <<(1 + Len(padded)) \div Align>> \o padded
  IN  header \o Word(CrcCalc(header))

\* XzBlock_Parse reads one field after the other: p is what is left of the header.
Field(p, s) ==
  One({[p EXCEPT !.ok = @ /\ v.size # 0, !.left = After(v.size, @), !.val[s] = v.value] :
         v \in {ReadVarInt(p.left)}})

MaybeField(p, s, there) == IF there /\ p.ok THEN Field(p, s) ELSE p

AddFilter(p) ==
  One({IF ~q.ok \/ q.val["size"] > Len(q.left) \/ q.val["size"] > PropsMax THEN [q EXCEPT !.ok = FALSE]
       ELSE [q EXCEPT !.left = After(q.val["size"], @),
                      !.filters = Append(@, [id |-> q.val["id"], props |-> FirstOf(q.val["size"], q.left)])] :
         q \in {MaybeField(Field(p, "id"), "size", TRUE)}})

RECURSIVE AddFilters(_, _)
AddFilters(p, n) == IF n = 0 \/ ~p.ok THEN p ELSE One({AddFilters(q, n - 1) : q \in {AddFilter(p)}})

Has(flags, f)   == (flags \div f) % 2 = 1
SumFits(buf, n) == Word(CrcCalc(FirstOf(n, buf))) = After(n, buf)

\* What the fields of the header are, and what is wrong with them
Judged(p, buf) ==
  [res |-> CASE ~SumFits(buf, Align * buf[1]) \/ ~p.ok \/ p.val["pack"] = 0 -> "archive"
             [] SumFits(buf, Align * buf[1]) /\ p.ok /\ p.val["pack"] # 0 ->
                  IF (buf[2] % PackFlag) \div 4 # 0 THEN "unsupported"
                  ELSE IF p.left # Zeros(Len(p.left)) THEN "archive" ELSE "ok",
   block |-> [pack |-> p.val["pack"], unpack |-> p.val["unpack"], filters |-> p.filters]]

ParseBlock(buf) ==
  LET start == [ok |-> TRUE, left |-> SubSeq(buf, 3, Align * buf[1]), filters |-> <<>>,
                val |-> [pack |-> Unknown, unpack |-> Unknown, id |-> 0, size |-> 0]]
      sizes == MaybeField(MaybeField(start, "pack", Has(buf[2], PackFlag)), "unpack", Has(buf[2], UnpackFlag))
  IN  One({Judged(p, buf) : p \in {AddFilters(sizes, (buf[2] % 4) + 1)}})

SupportedFilter(f) ==
  \/ f.id = IdDelta /\ Len(f.props) = 1
  \/ f.id \in IdDelta + 1 .. IdSPARC /\ Len(f.props) \in {0, Align}

\* XzBlock_AreSupportedFilters
AreSupported(b) ==
  LET last == b.filters[Len(b.filters)]
  IN  /\ last.id = IdLZMA2 /\ Len(last.props) = 1 /\ last.props[1] <= 40
      /\ \A i \in 1 .. Len(b.filters) - 1 : SupportedFilter(b.filters[i])

-----------------------------------------------------------------------------
(* The index.                                                                *)

IndexRecord(total, unpack) == WriteVarInt(total) \o WriteVarInt(unpack)
IndexStart(n)              == <<0>> \o WriteVarInt(n)

\* XzEncIndex_WriteFooter
WriteFooter(f, n, records) ==
  LET body  == IndexStart(n) \o records
      index == body \o Zeros(PadSize(Len(body)))
      size  == Len(index) + Align
  IN  index \o Word(CrcCalc(index))
        \o Word(CrcCalc(FooterBody(f, size))) \o FooterBody(f, size) \o FooterSig
=============================================================================
