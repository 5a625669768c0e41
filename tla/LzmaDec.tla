------------------------------ MODULE LzmaDec ------------------------------
(***************************************************************************)
(* The LZMA decoder of the compression library (LzmaDec.c), as operators:  *)
(* a decoder is a record, a call of it returns the decoder behind the call,*)
(* what it used of its input and how it went.                              *)
(*                                                                         *)
(* The range coder is replaced by a code of whole bytes, which keeps what a*)
(* caller can notice: a stream begins with bytes that carry no symbol, a   *)
(* symbol may take two bytes (Lead comes first), it makes one byte of text *)
(* or several, and "code" is 0 behind the last symbol only.                *)
(*                                                                         *)
(*   0           a byte of the start         1 .. 9     that literal       *)
(*   10          Lead                        19         the end mark       *)
(*   10*len+dist a match, len from 2 on      100 + b    b, the last one    *)
(***************************************************************************)
EXTENDS Integers, Sequences, FiniteSetsExt

CONSTANTS
  DicSize,      \* prop.dicSize
  InitSize      \* RC_INIT_SIZE

ASSUME DicAssumption == DicSize \in Nat \ {0} /\ InitSize \in Nat \ {0}

SpecStart   == 9      \* kMatchSpecLenStart: the end mark has been decoded
Restart     == 10     \* more than that: the first bytes are still to come
Lead        == 10
Mark        == 19
RequiredMax == 3      \* LZMA_REQUIRED_INPUT_MAX

IsLast(b)   == b >= 100
Plain(b)    == b % 100
IsMatch(b)  == Plain(b) >= 20
Length(b)   == Plain(b) \div 10
Distance(b) == Plain(b) % 10

\* A loop is the set of the one state it is in behind each of its turns.
The(S) == CHOOSE x \in S : TRUE

Lesser(a, b) == IF a < b THEN a ELSE b

-----------------------------------------------------------------------------
(* LzmaDec_InitDicAndState, LzmaDec_Init.                                    *)

InitDicAndState(d, initDic) ==
  [d EXCEPT !.remain = Restart, !.temp = <<>>,
            !.seen  = IF initDic THEN 0 ELSE @,
            !.check = IF initDic THEN 0 ELSE @]

\* A decoder that has n bytes of dictionary (or of the caller's buffer)
NewDecoder(n) ==
  [dic |-> [i \in 0 .. n - 1 |-> 0], dicPos |-> 0, bufSize |-> n, seen |-> 0, check |-> 0,
   remain |-> Restart, rep |-> 1, temp |-> <<>>, zero |-> FALSE]

LzmaInit(d) == InitDicAndState([d EXCEPT !.dicPos = 0], TRUE)

-----------------------------------------------------------------------------
(* The dictionary.                                                           *)

\* n bytes from rep before dicPos, one after the other
Copy(d, rep, n) ==
  LET at(i) == LET from == d.dicPos - rep + ((i - d.dicPos) % rep)
               IN  d.dic[IF from < 0 THEN from + d.bufSize ELSE from]
  IN  [d EXCEPT !.dic = [i \in DOMAIN @ |-> IF i \in d.dicPos .. d.dicPos + n - 1 THEN at(i) ELSE @[i]],
                !.rep = rep, !.dicPos = @ + n, !.seen = @ + n]

WriteRem(d, limit) ==
  IF d.remain \in {0, SpecStart} THEN d
  ELSE LET n == Lesser(limit - d.dicPos, d.remain)
       IN  [Copy(d, d.rep, n) EXCEPT !.remain = @ - n,
              !.check = IF @ = 0 /\ DicSize - d.seen <= n THEN DicSize ELSE @]

Reaches(d, dist) == dist > 0 /\ dist <= (IF d.check = 0 THEN d.seen ELSE d.check)

-----------------------------------------------------------------------------
(* LZMA_DECODE_REAL and LzmaDec_DecodeReal2: one symbol; the bytes of it are *)
(* there.                                                                    *)

Size(buf) == IF buf[1] = Lead THEN 2 ELSE 1

\* what is decoded first is checked against what there is
Limit2(d, limit) == IF d.check = 0 THEN Lesser(limit, d.dicPos + DicSize - d.seen) ELSE limit

Literal(d, b) ==
  [d EXCEPT !.dic[d.dicPos] = Plain(b), !.dicPos = @ + 1, !.seen = @ + 1]

Match(d, b, limit) ==
  LET n == Lesser(Limit2(d, limit) - d.dicPos, Length(b))
  IN  [Copy(d, Distance(b), n) EXCEPT !.remain = Length(b) - n]

Checked(d) == [d EXCEPT !.check = IF @ = 0 /\ d.seen >= DicSize THEN DicSize ELSE @]

\* [d, used, ok]
DecodeSymbol(d, buf, limit) ==
  LET n == Size(buf)
      b == buf[n]
      ok == \/ Plain(b) = Mark
            \/ IsMatch(b) /\ Reaches(d, Distance(b)) /\ d.dicPos < limit
            \/ Plain(b) \in 1 .. 9 /\ d.dicPos < limit
      made == CASE Plain(b) = Mark -> [d EXCEPT !.remain = SpecStart]
                [] IsMatch(b)      -> The({WriteRem(m, limit) : m \in {Checked(Match(d, b, limit))}})
                [] OTHER           -> Checked(Literal(d, b))
  IN  [d |-> [(IF ok THEN made ELSE d) EXCEPT !.zero = IsLast(b)], used |-> n, ok |-> ok]

Behind(s, n) == SubSeq(s, n + 1, Len(s))

\* The loop: at least one symbol, and on as long as input may be read up to bufLimit.
DecodeReal2(d, buf, bufLimit, limit) ==
  LET goesOn(r) == r.ok /\ r.d.dicPos < limit /\ r.used < bufLimit /\ r.d.remain < SpecStart
      loop[k \in 0 .. Len(buf)] ==
        IF k = 0 THEN {[d |-> d, used |-> 0, ok |-> TRUE]}
        ELSE {IF k = 1 \/ goesOn(r)
                THEN [DecodeSymbol(r.d, Behind(buf, r.used), limit) EXCEPT !.used = @ + r.used]
                ELSE r : r \in loop[k - 1]}
  IN  The(loop[Len(buf)])

\* LzmaDec_TryDummy: is the next symbol there, and what is it?
TryDummy(d, buf) ==
  IF buf = <<>> \/ Len(buf) < Size(buf) THEN "error"
  ELSE IF IsMatch(buf[Size(buf)]) \/ Plain(buf[Size(buf)]) = Mark THEN "match" ELSE "other"

-----------------------------------------------------------------------------
(* LzmaDec_DecodeToDic(d, limit, src, finish): [d, used, res, status].       *)

Answer(d, used, res, status) == [d |-> d, used |-> used, res |-> res, status |-> status, more |-> FALSE]
GoOn(d, used) == [d |-> d, used |-> used, res |-> "ok", status |-> "none", more |-> TRUE]

\* The bytes the stream begins with, which may come one by one
First(d, src) ==
  LET n    == Lesser(Len(src), InitSize - Len(d.temp))
      have == d.temp \o SubSeq(src, 1, n)
  IN  IF have # <<>> /\ have[1] # 0 THEN Answer([d EXCEPT !.temp = have], n, "data", "none")
      ELSE IF Len(have) < InitSize THEN Answer([d EXCEPT !.temp = have], n, "ok", "input")
      ELSE GoOn([d EXCEPT !.temp = <<>>, !.remain = 0, !.rep = 1, !.zero = FALSE], n)

Full(d, limit) == d.dicPos >= limit

\* There is no room, and what that means
NoRoom(d, used, finish) ==
  IF d.remain = 0 /\ d.zero THEN Answer(d, used, "ok", "maybe finished")
  ELSE IF finish = "any" THEN Answer(d, used, "ok", "not finished")
  ELSE Answer(d, used, "data", "not finished")

\* What is decoded is taken from the input, but for the skip bytes that came before it.
Took(r, used, skip) ==
  IF r.ok THEN GoOn(r.d, used + r.used - skip) ELSE Answer(r.d, used, "data", "none")

FromSrc(d, src, used, limit, endNow) ==
  LET in    == Behind(src, used)
      look  == Len(in) < RequiredMax \/ endNow
      dummy == TryDummy(d, in)
  IN  IF look /\ dummy = "error" THEN Answer([d EXCEPT !.temp = in], Len(src), "ok", "input")
      ELSE IF endNow /\ dummy # "match" THEN Answer(d, used, "data", "not finished")
      ELSE Took(DecodeReal2(d, in, IF look THEN 0 ELSE Len(in) - RequiredMax, limit), used, 0)

\* One symbol out of tempBuf with the input that follows it
FromTemp(d, src, used, limit, endNow) ==
  LET in    == Behind(src, used)
      n     == Lesser(RequiredMax - Len(d.temp), Len(in))
      have  == d.temp \o SubSeq(in, 1, n)
      look  == Len(have) < RequiredMax \/ endNow
      dummy == TryDummy(d, have)
  IN  IF look /\ dummy = "error" THEN Answer([d EXCEPT !.temp = have], used + n, "ok", "input")
      ELSE IF endNow /\ dummy # "match" THEN Answer([d EXCEPT !.temp = have], used, "data", "not finished")
      ELSE Took(DecodeReal2([d EXCEPT !.temp = <<>>], have, 0, limit), used, Len(d.temp))

\* A turn of the loop
Turn(a, src, limit, finish) ==
  LET endNow == Full(a.d, limit)
      sure   == a.d.remain = 0 /\ ~a.d.zero /\ finish = "end"
  IN  IF a.d.remain = SpecStart
        THEN IF a.d.zero THEN Answer(a.d, a.used, "ok", "mark") ELSE Answer(a.d, a.used, "data", "none")
      ELSE IF endNow /\ ~sure THEN NoRoom(a.d, a.used, finish)
      ELSE IF a.d.temp = <<>> THEN FromSrc(a.d, src, a.used, limit, endNow)
      ELSE FromTemp(a.d, src, a.used, limit, endNow)

DecodeToDic(d, limit, src, finish) ==
  LET first == IF d.remain >= Restart THEN First(d, src) ELSE GoOn(d, 0)
      begin == IF first.more THEN GoOn(WriteRem(first.d, limit), first.used) ELSE first
      loop[k \in 0 .. Len(src) + Len(d.temp) + 2] ==
        IF k = 0 THEN {begin}
        ELSE {IF a.more THEN Turn(a, src, limit, finish) ELSE a : a \in loop[k - 1]}
  IN  The(loop[Len(src) + Len(d.temp) + 2])
=============================================================================
