------------------------------ MODULE XzFilter ------------------------------
(***************************************************************************)
(* The filters that stand before LZMA2 when an xz stream is made and behind*)
(* it when one is read (BraState of XzDec.c, with Bra.c and Delta.c), and  *)
(* the stream that the compressor reads through one (SeqInFilter of        *)
(* XzEnc.c).  A byte of data is a digit, Digits are counted round.         *)
(***************************************************************************)
EXTENDS XzFormat

CONSTANTS
  BraBuf,       \* BRA_BUF_SIZE
  FilterBuf,    \* FILTER_BUF_SIZE
  ReadStep      \* bytes that LZMA2 asks of the stream at a time

ASSUME FilterAssumption == {BraBuf, FilterBuf, ReadStep} \subseteq Nat \ {0} /\ BraBuf >= Align

Digits == 10
Branch == 9     \* the last byte of an instruction that jumps (0xEB)

\* Delta_Encode, Delta_Decode: the difference to the byte delta places before
RECURSIVE Delta(_, _, _)
Delta(b, data, done) ==
  IF data = <<>> THEN [b |-> b, data |-> done]
  ELSE LET x == Head(data)
           y == IF b.encode THEN ((x + Digits) - b.last[1]) % Digits ELSE (x + b.last[1]) % Digits
       IN  Delta([b EXCEPT !.last = Append(Tail(@), IF b.encode THEN x ELSE y)], Tail(data), Append(done, y))

\* ARM_Convert: a jump is relative in the text, and absolute behind the encoder.  What does
\* not fill an instruction is left.
Convert(b, data) ==
  LET n == Len(data) - (Len(data) % Align)
      jump(i) == i % Align = 1 /\ i <= n /\ data[i + Align - 1] = Branch
      to(i)   == b.ip + (i - 1) + 2 * Align
  IN  [i \in DOMAIN data |->
         IF ~jump(i) THEN data[i]
         ELSE IF b.encode THEN (data[i] + to(i)) % Digits ELSE (data[i] + (Digits - 1) * to(i)) % Digits]

\* BraState_Filter: [b, data, size], the first size bytes are converted
Filtered(b, data) ==
  IF b.id = IdDelta
    THEN LET r == Delta(b, data, <<>>)
         IN  [b |-> [r.b EXCEPT !.ip = @ + Len(data)], data |-> r.data, size |-> Len(data)]
    ELSE LET n == Len(data) - (Len(data) % Align)
         IN  [b |-> [b EXCEPT !.ip = @ + n], data |-> Convert(b, data), size |-> n]

\* BraState_SetFromMethod, BraState_SetProps, BraState_Init
NewBra(f, encode) ==
  [id |-> f.id, encode |-> encode,
   ip |-> IF f.id = IdDelta \/ f.props = <<>> THEN 0 ELSE f.props[1] + 256 * f.props[2],
   last |-> IF f.id = IdDelta THEN Zeros(f.props[1] + 1) ELSE <<>>,
   buf |-> <<>>, pos |-> 0, conv |-> 0]

RefusesProps(f) ==
  IF f.id = IdDelta THEN Len(f.props) # 1
  ELSE f.props # <<>> /\ (Len(f.props) # Align \/ f.props[1] % Align # 0)

\* Mutant: what does not fill an instruction is kept back at the end too.
TailKept(b, have, finished) ==
  One({[r.b EXCEPT !.buf = r.data, !.conv = r.size] : r \in {Filtered(b, have)}})

\* What the filter leaves is left until there is more, or the last of it.
Converted(b, have, finished) ==
  One({[r.b EXCEPT !.buf = r.data, !.conv = IF r.size = 0 /\ finished THEN Len(have) ELSE r.size] :
         r \in {Filtered(b, have)}})

\* BraState_Code2: the loop, with what is given out, and room and src left
RECURSIVE BraLoop(_, _, _, _, _)
BraLoop(b, given, room, src, finished) ==
  IF room = 0 THEN [b |-> b, made |-> given, left |-> src]
  ELSE IF b.pos # b.conv
    THEN LET n == Lower(b.conv - b.pos, room)
         IN  BraLoop([b EXCEPT !.pos = @ + n], given \o SubSeq(b.buf, b.pos + 1, b.pos + n), room - n, src, finished)
  ELSE LET rest == After(b.pos, b.buf)
           n    == Lower(BraBuf - Len(rest), Len(src))
       IN  One({IF c.conv = 0 THEN [b |-> c, made |-> given, left |-> After(n, src)]
                ELSE BraLoop(c, given, room, After(n, src), finished) :
                  c \in {Converted([b EXCEPT !.pos = 0], rest \o FirstOf(n, src), finished)}})

\* [b, made, used, res, status]
BraCode2(b, room, src, finished) ==
  One({[b |-> r.b, made |-> r.made, used |-> Len(src) - Len(r.left), res |-> "ok",
        status |-> IF Len(r.b.buf) = r.b.pos /\ r.left = <<>> /\ finished THEN "mark" ELSE "not finished"] :
         r \in {BraLoop(b, <<>>, room, src, finished)}})

-----------------------------------------------------------------------------
(* SeqInFilter_Read, called by the compressor until it gives nothing.        *)

\* the filter, what its buffer holds, the stream behind it, whether that has ended
RECURSIVE ReadAll(_, _, _, _, _)
ReadAll(b, buf, src, ended, got) ==
  LET n      == IF ended \/ buf # <<>> THEN 0 ELSE Lower(FilterBuf, Len(src))
      have   == buf \o FirstOf(n, src)
      over   == ended \/ have = <<>>
  IN  One({IF r.made = <<>> /\ r.used = 0 THEN got
           ELSE ReadAll(r.b, After(r.used, have), After(n, src), over, got \o r.made) :
             r \in {BraCode2(b, ReadStep, have, over)}})

ReadThrough(f, data) == ReadAll(NewBra(f, TRUE), <<>>, data, FALSE, <<>>)
=============================================================================
