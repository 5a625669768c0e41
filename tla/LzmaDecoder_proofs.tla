------------------------- MODULE LzmaDecoder_proofs -------------------------
(***************************************************************************)
(* Proofs about LzmaDecoder, for every stream the format can express, good *)
(* or bad, complete or cut off, every size of the dictionary and of the    *)
(* buffers, and every way the patch is asked for.                          *)
(*                                                                         *)
(* DecoderInv is inductive.  HistoryOK is its heart: the dictionary is a   *)
(* window on the text the symbols before p.next stand for, and remainLen   *)
(* is what the text has beyond it.  BytesOK says that range coder, tempBuf *)
(* and the rest of inbuf hold the stream, each byte of it once.  From it   *)
(* follows what is delivered (DeliversRight).  ReadOK adds, for a stream   *)
(* that is valid and there in full, that every turn of the loops gets      *)
(* something done, so that no call gives up (ReadsRight).                  *)
(***************************************************************************)
EXTENDS LzmaDecoder, FiniteSetTheorems, WellFoundedInduction, TLAPS

-----------------------------------------------------------------------------
(* The invariant.                                                            *)

InCall == pc \notin {"idle", "fill"}
InDic  == pc \in {"dic", "real", "real2", "fromDic"}
Sound  == result = "ok" /\ call.res = "ok"

States == {"idle", "fill", "buf", "dic", "real", "real2", "fromDic", "made", "error"}

\* The states of CLzmaDec for a stream of these symbols.
Decoders(s) ==
  [dic : [0 .. DicBufSize - 1 -> Nat], dicPos : 0 .. DicBufSize, processedPos : Nat,
   checkDicSize : {0, DicSize}, remainLen : 0 .. SpecStart, reps : [0 .. 3 -> 1 .. DicSize],
   afterMatch : BOOLEAN, needFlush : BOOLEAN, tempBuf : Seq(Nat),
   next : 1 .. Len(s) + 1, coded : Nat]

DecoderTypes ==
  /\ stream \in Streams /\ inbuf_size \in InBufs
  /\ f \in [src_curr : Nat, in_size : Nat, in_pos : Nat, unpackSize : Nat, de_len : Nat]
  /\ p \in Decoders(syms)
  /\ call \in [src : Nat, outSize : Nat, finish : {"any", "end"}, made : Seq(Nat),
               dicStart : 0 .. DicBufSize, dicLimit : 0 .. DicBufSize, curFinish : {"any", "end"},
               res : {"ok", "data", "fail"},
               status : {"none", "input", "mark", "maybe finished", "not finished"},
               fed : Seq(Nat), used : Nat, bufLimit : Nat, limit2 : Nat, owed : {0, 1},
               temp : BOOLEAN, lookAhead : Nat]
  /\ pc \in States /\ asked \in Nat /\ got \in Seq(Nat)
  /\ result \in {"ok", "error"} /\ astray \in BOOLEAN

\* Room: what is asked for, what there is and what has been made of it.
RoomOK ==
  /\ f.in_pos <= f.in_size /\ f.in_size <= f.src_curr /\ f.src_curr <= stream.area
  /\ f.unpackSize + Len(got) = stream.unpack
  /\ InCall =>
       /\ f.in_pos <= call.src /\ call.src <= f.in_size
       /\ Len(call.made) + call.outSize <= f.de_len
       /\ Len(call.made) + call.outSize <= f.unpackSize
       /\ call.finish = "end" => Len(call.made) + call.outSize = f.unpackSize
  /\ InDic =>
       /\ call.dicStart <= p.dicPos /\ p.dicPos <= call.dicLimit
       /\ call.dicLimit - call.dicStart <= call.outSize
       /\ call.curFinish = "end" =>
            call.finish = "end" /\ call.dicLimit - call.dicStart = call.outSize

\* How much has been decoded, and what of it has been delivered.
CountOK ==
  /\ pc \in {"idle", "fill"} /\ result = "ok" => p.processedPos = Len(got)
  /\ pc \in {"buf", "made"} => p.processedPos = Len(got) + Len(call.made)
  /\ InDic => p.processedPos = Len(got) + Len(call.made) + (p.dicPos - call.dicStart)
  /\ pc \notin {"fromDic", "error", "idle"} => Sound
  /\ pc = "idle" /\ result = "ok" => call.res = "ok"
  /\ pc = "error" => result = "ok"
  /\ pc = "fromDic" => result = "ok"

\* What has been delivered, and what this call has made, is the text.
DeliveredOK ==
  LET text == Text(syms)
  IN  /\ \A i \in 1 .. Len(got) : got[i] = text[i]
      /\ pc \notin {"idle", "fill", "error"} =>
           \A i \in 1 .. Len(call.made) : call.made[i] = text[Len(got) + i]

\* What is still to be copied of the last match.
Rest(d) == IF d.remainLen = SpecStart THEN 0 ELSE d.remainLen

\* The dictionary holds the end of the text.
Holds(d, text) ==
  \A j \in 1 .. LessOf(d.processedPos, DicBufSize) : At(d, j) = text[d.processedPos + 1 - j]

\* The text behind pos repeats the last dist bytes before it.
Repeats(text, pos, dist, rest) ==
  \A k \in 0 .. rest - 1 : text[pos + 1 + k] = text[pos + 1 - dist + (k % dist)]

\* What has been decoded is what the symbols before the next one say, up to the rest.
History(s, d) ==
  LET known == Meaning(s)[d.next - 1]
  IN  /\ known.ok /\ known.reps = d.reps
      /\ Len(known.text) = d.processedPos + Rest(d)
      /\ Holds(d, known.text)
      /\ Repeats(known.text, d.processedPos, d.reps[0], Rest(d))
      /\ \A k \in 0 .. 3 : d.reps[k] = 1 \/ d.reps[k] <= d.processedPos
      /\ d.afterMatch \/ Rest(d) > 0 => d.processedPos > 0
      /\ d.remainLen = SpecStart => d.next > 1 /\ s[d.next - 1].kind = "mark"

HistoryOK == History(syms, p)

\* How far the first bytes are checked against processedPos.
Checked(d) ==
  /\ d.checkDicSize = DicSize => d.processedPos >= DicSize
  /\ d.checkDicSize = 0 => d.processedPos < DicSize

\* Where decoding stops: at the limits, at a match that is not yet written, at the mark.
CheckOK ==
  /\ p.checkDicSize = DicSize => p.processedPos >= DicSize
  /\ pc # "real2" => Checked(p)
  /\ pc = "dic" /\ p.remainLen # SpecStart => p.remainLen = 0 \/ p.dicPos = call.dicLimit
  /\ pc \in {"real", "real2"} =>
       /\ ~p.needFlush
       /\ p.dicPos <= call.limit2 /\ call.limit2 <= call.dicLimit
       /\ p.checkDicSize = 0 => p.processedPos + (call.limit2 - p.dicPos) <= DicSize
  /\ pc = "real" =>
       /\ p.remainLen = 0 /\ ~AllDone
       /\ \/ p.dicPos < call.limit2
          \/ p.dicPos = call.dicLimit /\ call.curFinish = "end" /\ syms[p.next].kind \in {"match", "mark"}
  /\ pc = "real2" => p.remainLen \in {0, SpecStart} \/ p.dicPos = call.limit2

\* The byte of the stream at index i of inbuf.
Place(i) == f.src_curr - f.in_size + i

\* The range coder and tempBuf have the bytes before those left in inbuf.
BytesOK ==
  LET temp == p.tempBuf
      place == Place(IF InCall THEN call.src ELSE f.in_pos)
  IN  /\ ~astray /\ call.res # "fail"
      /\ p.needFlush => p.next = 1
      /\ pc \notin {"real", "real2", "error"} /\ Sound =>
           /\ p.needFlush =>
                /\ Len(temp) < InitSize /\ Len(temp) = place
                /\ \A k \in 1 .. Len(temp) : temp[k] = k - 1
           /\ ~p.needFlush =>
                /\ p.coded = Coded(syms)[p.next - 1]
                /\ p.coded + Len(temp) = place
                /\ \A k \in 1 .. Len(temp) : temp[k] = p.coded + k - 1
                /\ Len(temp) < RequiredMax
                /\ temp # <<>> /\ ~AllDone => syms[p.next].cost + syms[p.next].late > Len(temp)
      /\ pc \in {"real", "real2"} =>
           /\ p.coded + call.owed = Coded(syms)[p.next - 1]
           /\ \A k \in 1 .. Len(call.fed) : call.fed[k] = p.coded - call.used + k - 1
           /\ ~call.temp => p.coded - call.used = place /\ temp = <<>> /\ Len(call.fed) = f.in_size - call.src
           /\ call.temp => /\ p.coded - call.used + Len(call.fed) = place + call.lookAhead
                           /\ call.src + call.lookAhead <= f.in_size
                           /\ call.bufLimit = 0
           /\ call.bufLimit = 0 \/ call.bufLimit + RequiredMax <= Len(call.fed)
      /\ pc = "real" =>
           /\ call.used + call.owed + syms[p.next].cost + syms[p.next].late <= Len(call.fed)
           /\ call.temp => /\ call.used = 0 /\ call.owed = 0
                           /\ syms[p.next].cost + syms[p.next].late > Len(call.fed) - call.lookAhead
      /\ pc = "real2" =>
           /\ call.used + call.owed <= Len(call.fed)
           /\ call.temp => call.used + call.owed > Len(call.fed) - call.lookAhead

\* What has been delivered has been decoded.
GotOK == Len(got) <= p.processedPos

DecoderInv == DecoderTypes /\ RoomOK /\ CountOK /\ DeliveredOK /\ HistoryOK /\ CheckOK /\ BytesOK

\* The call has used input or made output.
Moved == call.src # f.in_pos \/ call.made # <<>> \/ p.dicPos # call.dicStart

\* Nothing goes wrong, what is still to be delivered is known, and every turn gets something done.
ReadOK ==
  /\ Sound /\ pc # "error"
  /\ pc = "idle" => Len(got) = LessOf(asked, stream.unpack)
  /\ pc # "idle" => LessOf(asked, stream.unpack) - Len(got) = LessOf(f.de_len, f.unpackSize)
  /\ InCall => f.in_pos < f.in_size \/ f.src_curr = stream.area
  /\ pc = "real" => p.dicPos < call.limit2 \/ syms[p.next].kind = "mark"
  /\ f.unpackSize > 0 /\ f.de_len > 0 =>
       /\ pc = "buf" => call.outSize > 0
       /\ pc \in {"dic", "real", "real2"} => call.dicLimit > call.dicStart
       /\ pc = "fromDic" => Moved
       /\ pc = "made" => call.src # f.in_pos \/ call.made # <<>>

WholeOK == Whole => ReadOK

ReadInv == DecoderInv /\ WholeOK

-----------------------------------------------------------------------------
(* Numbers, sequences and functions that are defined from one number to    *)
(* the next.                                                               *)

LEMMA SmallestOf ==
  ASSUME NEW S \in SUBSET Nat, S # {}
  PROVE  \E x \in S : \A y \in S : x <= y
<1> DEFINE T == {0 .. n : n \in S}
<1>1. T \subseteq FiniteSubsetsOf(Nat) /\ T # {}
  <2>1. \A n \in S : 0 .. n \in SUBSET Nat /\ IsFiniteSet(0 .. n)
    BY FS_Interval
  <2>2. QED
    BY <2>1 DEF FiniteSubsetsOf
<1>2. PICK t \in T : \A u \in T : ~ (<<u, t>> \in StrictSubsetOrdering(Nat))
  BY <1>1, WFMin, FS_StrictSubsetOrderingWellFounded
<1>3. PICK x \in S : t = 0 .. x
  OBVIOUS
<1>4. ASSUME NEW y \in S, y < x PROVE FALSE
  <2>1. 0 .. y \in T /\ 0 .. y \subseteq 0 .. x /\ x \in 0 .. x /\ x \notin 0 .. y
    BY <1>4
  <2>2. <<0 .. y, 0 .. x>> \in StrictSubsetOrdering(Nat)
    BY <2>1 DEF StrictSubsetOrdering
  <2>3. QED
    BY <1>2, <1>3, <2>1, <2>2
<1>5. QED
  BY <1>4

\* What holds of a number and is kept from it to the next, up to a bound, holds up to the bound.
LEMMA Counting ==
  ASSUME NEW a \in Nat, NEW n \in Nat, NEW S \in SUBSET Nat, a \in S,
         \A k \in a .. n - 1 : k \in S => k + 1 \in S
  PROVE  \A k \in a .. n : k \in S
<1> DEFINE T == {k \in a .. n : k \notin S}
<1>1. SUFFICES ASSUME T # {} PROVE FALSE
  OBVIOUS
<1>2. PICK x \in T : \A y \in T : x <= y
  <2>1. T \in SUBSET Nat
    OBVIOUS
  <2> HIDE DEF T
  <2>2. QED
    BY <1>1, <2>1, SmallestOf
<1>3. x \in a .. n /\ x \notin S /\ x # a
  OBVIOUS
<1>4. x - 1 \in a .. n - 1 /\ (x - 1) + 1 = x
  BY <1>3
<1>5. x - 1 \in S
  BY <1>2, <1>4
<1>6. QED
  BY <1>3, <1>4, <1>5

\* Steps from one value to the next define a sequence of them.
Turns(n, S) == [1 .. n -> [S -> S]]

LEMMA Recursion ==
  ASSUME NEW S, NEW n \in Nat, NEW b \in S, NEW g \in Turns(n, S)
  PROVE  \E r \in [0 .. n -> S] : r[0] = b /\ \A i \in 1 .. n : r[i] = g[i][r[i - 1]]
<1> USE DEF Turns
<1> DEFINE Up(k, r) == r[0] = b /\ \A i \in 1 .. k : r[i] = g[i][r[i - 1]]
<1>1. PICK A : A = {k \in Nat : k <= n => \E r \in [0 .. k -> S] : Up(k, r)}
  OBVIOUS
<1>2. 0 \in A
  <2>1. PICK r : r = [i \in 0 .. 0 |-> b]
    OBVIOUS
  <2>2. r \in [0 .. 0 -> S] /\ Up(0, r)
    BY <2>1
  <2>3. QED
    BY <1>1, <2>2
<1>3. ASSUME NEW k \in 0 .. n - 1, k \in A PROVE k + 1 \in A
  <2>1. PICK r \in [0 .. k -> S] : Up(k, r)
    BY <1>1, <1>3
  <2>2. PICK q : q = [i \in 0 .. k + 1 |-> IF i = k + 1 THEN g[k + 1][r[k]] ELSE r[i]]
    OBVIOUS
  <2>3. k + 1 \in 1 .. n /\ k \in 0 .. k
    OBVIOUS
  <2>4. g[k + 1][r[k]] \in S
    BY <2>1, <2>3
  <2>5. q \in [0 .. k + 1 -> S]
    BY <2>1, <2>2, <2>4
  <2>6. q[0] = b
    BY <2>1, <2>2
  <2>7. ASSUME NEW i \in 1 .. k + 1 PROVE q[i] = g[i][q[i - 1]]
    <3>1. i - 1 \in 0 .. k /\ q[i - 1] = r[i - 1]
      BY <2>2
    <3>2. CASE i = k + 1
      <4>1. q[i] = g[k + 1][r[k]] /\ i - 1 = k
        BY <2>2, <3>2
      <4>2. QED
        BY <3>1, <3>2, <4>1
    <3>3. CASE i # k + 1
      <4>1. i \in 1 .. k /\ q[i] = r[i]
        BY <2>2, <3>3
      <4>2. QED
        BY <2>1, <3>1, <4>1
    <3>4. QED
      BY <3>2, <3>3
  <2>8. QED
    BY <1>1, <2>5, <2>6, <2>7
<1>4. n \in A
  <2>1. A \in SUBSET Nat
    BY <1>1
  <2>2. \A k \in 0 .. n - 1 : k \in A => k + 1 \in A
    BY <1>3
  <2> HIDE DEF Up
  <2>3. \A k \in 0 .. n : k \in A
    BY <1>2, <2>1, <2>2, Counting
  <2>4. QED
    BY <2>3
<1>5. QED
  BY <1>1, <1>4

LEMMA DivMod ==
  ASSUME NEW a \in Nat, NEW d \in Nat \ {0}
  PROVE  a = d * (a \div d) + (a % d) /\ a % d \in 0 .. d - 1 /\ a \div d \in Nat
BY SMT

LEMMA ModUnique ==
  ASSUME NEW q \in Int, NEW s \in Int, NEW d \in Nat \ {0}, 0 <= s, s < d
  PROVE  (d * q + s) % d = s
BY SMT

-----------------------------------------------------------------------------
(* The text.                                                               *)

\* What is known after some symbols.
Facts == [text : Seq(Nat), reps : [0 .. 3 -> Nat], ok : BOOLEAN]

NothingYet == [text |-> <<>>, reps |-> FirstReps, ok |-> TRUE]

LEMMA MeaningIs ==
  ASSUME NEW s
  PROVE  Meaning(s) = CHOOSE m : m = [n \in 0 .. Len(s) |->
                                        IF n = 0 THEN NothingYet ELSE Told(s[n], n, m[n - 1])]
BY DEF Meaning, NothingYet

\* Sequences end to end.
LEMMA EndToEnd ==
  ASSUME NEW S, NEW s \in Seq(S), NEW t \in Seq(S)
  PROVE  /\ s \o t \in Seq(S) /\ Len(s \o t) = Len(s) + Len(t)
         /\ \A i \in 1 .. Len(s) : (s \o t)[i] = s[i]
         /\ \A i \in 1 .. Len(t) : (s \o t)[Len(s) + i] = t[i]
OBVIOUS

\* A function over the first numbers is a sequence.
LEMMA FunSeq ==
  ASSUME NEW S, NEW n \in Nat, NEW f1 \in [1 .. n -> S]
  PROVE  f1 \in Seq(S) /\ Len(f1) = n /\ \A i \in 1 .. n : f1[i] \in S
OBVIOUS

LEMMA CopiedIs ==
  ASSUME NEW text \in Seq(Nat), NEW dist \in 1 .. Len(text), NEW len \in Nat
  PROVE  /\ Copied(text, dist, len) \in Seq(Nat)
         /\ Len(Copied(text, dist, len)) = Len(text) + len
         /\ \A i \in 1 .. Len(text) : Copied(text, dist, len)[i] = text[i]
         /\ \A k \in 0 .. len - 1 :
              Copied(text, dist, len)[Len(text) + 1 + k] = text[Len(text) + 1 - dist + (k % dist)]
<1>1. PICK t : t = [i \in 1 .. len |-> Last(text, dist - ((i - 1) % dist))]
  OBVIOUS
<1>2. dist \in Nat \ {0} /\ Len(text) \in Nat
  OBVIOUS
<1>3. ASSUME NEW i \in 1 .. len
      PROVE  t[i] \in Nat /\ t[i] = text[Len(text) + 1 - dist + ((i - 1) % dist)]
  <2>1. (i - 1) % dist \in 0 .. dist - 1
    <3>1. i - 1 \in Nat
      OBVIOUS
    <3>2. QED
      BY <1>2, <3>1, DivMod
  <2>2. PICK r : r = (i - 1) % dist
    OBVIOUS
  <2>3. r \in Int /\ Len(text) + 1 - (dist - r) = Len(text) + 1 - dist + r
    BY <1>2, <2>1, <2>2
  <2>4. Len(text) + 1 - dist + r \in 1 .. Len(text)
    BY <1>2, <2>1, <2>2
  <2>5. t[i] = text[Len(text) + 1 - (dist - r)]
    BY <1>1, <2>2 DEF Last
  <2>6. QED
    BY <2>2, <2>3, <2>4, <2>5
<1>4. t \in [1 .. len -> Nat]
  BY <1>1, <1>3
<1>5. t \in Seq(Nat) /\ Len(t) = len
  BY <1>4, FunSeq
<1>6. Copied(text, dist, len) = text \o t
  BY <1>1 DEF Copied
<1>7. /\ text \o t \in Seq(Nat) /\ Len(text \o t) = Len(text) + len
      /\ \A i \in 1 .. Len(text) : (text \o t)[i] = text[i]
      /\ \A i \in 1 .. len : (text \o t)[Len(text) + i] = t[i]
  <2>1. /\ text \o t \in Seq(Nat) /\ Len(text \o t) = Len(text) + Len(t)
        /\ \A i \in 1 .. Len(text) : (text \o t)[i] = text[i]
        /\ \A i \in 1 .. Len(t) : (text \o t)[Len(text) + i] = t[i]
    <3>1. t \in Seq(Nat)
      BY <1>5
    <3>2. QED
      BY <3>1, EndToEnd
  <2>2. QED
    BY <1>5, <2>1
<1>8. ASSUME NEW k \in 0 .. len - 1
      PROVE  (text \o t)[Len(text) + 1 + k] = text[Len(text) + 1 - dist + (k % dist)]
  <2>1. k + 1 \in 1 .. len /\ (k + 1) - 1 = k /\ Len(text) + (k + 1) = Len(text) + 1 + k
    BY <1>2
  <2>2. (text \o t)[Len(text) + (k + 1)] = t[k + 1]
    BY <1>7, <2>1
  <2>3. t[k + 1] = text[Len(text) + 1 - dist + (((k + 1) - 1) % dist)]
    BY <1>3, <2>1
  <2>4. QED
    BY <2>1, <2>2, <2>3
<1>9. QED
  BY <1>6, <1>7, <1>8

LEMMA SpecIs == SpecStart \in Nat /\ SpecStart > 2
BY DEF SpecStart

\* The symbols of the stream.
Format == {s \in Symbol : /\ s.kind \in {"match", "rep"} => s.len \in 2 .. SpecStart - 1
                          /\ s.kind = "match" => s.dist >= 1
                          /\ s.kind = "rep" => s.dist \in 0 .. 3}

\* The effect of a symbol on what is known.
LEMMA ToldIs ==
  ASSUME NEW s \in Format, NEW n \in Nat, NEW b \in Facts, b.ok
  PROVE  LET d == Distance(s, b.reps)
             a == Told(s, n, b)
         IN  /\ s.kind = "mark" => a = b
             /\ s.kind = "literal" => a = [text |-> Append(b.text, n), reps |-> b.reps, ok |-> TRUE]
             /\ s.kind \in {"match", "rep", "short"} =>
                  /\ d \in Nat /\ Length(s) \in 1 .. SpecStart - 1
                  /\ RepsAfter(s, b.reps) \in [0 .. 3 -> Nat] /\ RepsAfter(s, b.reps)[0] = d
                  /\ ~Reaches(b.text, d) => a = [text |-> b.text, reps |-> b.reps, ok |-> FALSE]
                  /\ Reaches(b.text, d) =>
                       a = [text |-> Copied(b.text, d, Length(s)), reps |-> RepsAfter(s, b.reps), ok |-> TRUE]
<1>1. /\ s.kind \in {"literal", "match", "short", "rep", "mark"} /\ s.dist \in Nat
      /\ s.kind \in {"match", "rep"} => s.len \in 2 .. SpecStart - 1
      /\ s.kind = "rep" => s.dist \in 0 .. 3
  BY DEF Format, Symbol
<1>2. b.text \in Seq(Nat) /\ b.reps \in [0 .. 3 -> Nat]
      /\ b = [text |-> b.text, reps |-> b.reps, ok |-> b.ok]
  BY DEF Facts
<1>3. CASE s.kind = "mark"
  BY <1>1, <1>3 DEF Told
<1>4. CASE s.kind = "literal"
  <2>1. Told(s, n, b) = [b EXCEPT !.text = Append(@, n)]
    BY <1>4 DEF Told
  <2>2. QED
    BY <1>2, <1>4, <2>1 DEF Facts
<1>5. CASE s.kind \in {"match", "rep", "short"}
  <2>1. Distance(s, b.reps) \in Nat
    BY <1>1, <1>2, <1>5 DEF Distance
  <2>2. Length(s) \in 1 .. SpecStart - 1
    BY <1>1, <1>5, SpecIs DEF Length
  <2>3. RepsAfter(s, b.reps) \in [0 .. 3 -> Nat] /\ RepsAfter(s, b.reps)[0] = Distance(s, b.reps)
    BY <1>1, <1>2, <1>5, <2>1 DEF RepsAfter, Distance, Pushed, ToFront
  <2>4. CASE ~Reaches(b.text, Distance(s, b.reps))
    <3>1. Told(s, n, b) = [b EXCEPT !.ok = FALSE]
      BY <1>5, <2>4 DEF Told
    <3>2. QED
      BY <1>2, <1>5, <2>1, <2>2, <2>3, <2>4, <3>1
  <2>5. CASE Reaches(b.text, Distance(s, b.reps))
    <3>1. Told(s, n, b) = [text |-> Copied(b.text, Distance(s, b.reps), Length(s)),
                           reps |-> RepsAfter(s, b.reps), ok |-> TRUE]
      BY <1>5, <2>5 DEF Told
    <3>2. QED
      BY <1>5, <2>1, <2>2, <2>3, <2>5, <3>1
  <2>6. QED
    BY <2>4, <2>5
<1>6. QED
  BY <1>1, <1>3, <1>4, <1>5

LEMMA ToldIn ==
  ASSUME NEW s \in Format, NEW n \in Nat, NEW b \in Facts
  PROVE  Told(s, n, b) \in Facts
<1>1. CASE ~b.ok
  BY <1>1 DEF Told
<1>2. CASE b.ok
  <2>1. b.text \in Seq(Nat) /\ b.reps \in [0 .. 3 -> Nat]
    BY DEF Facts
  <2>2. s.kind \in {"literal", "match", "short", "rep", "mark"}
    BY DEF Format, Symbol
  <2>3. CASE s.kind = "mark"
    BY <1>2, <2>3, ToldIs
  <2>4. CASE s.kind = "literal"
    <3>1. Append(b.text, n) \in Seq(Nat)
      BY <2>1
    <3>2. Told(s, n, b) = [text |-> Append(b.text, n), reps |-> b.reps, ok |-> TRUE]
      BY <1>2, <2>4, ToldIs
    <3>3. QED
      BY <2>1, <3>1, <3>2 DEF Facts
  <2>5. CASE s.kind \in {"match", "rep", "short"}
    <3>1. PICK d : d = Distance(s, b.reps)
      OBVIOUS
    <3>2. /\ d \in Nat /\ Length(s) \in 1 .. SpecStart - 1
          /\ RepsAfter(s, b.reps) \in [0 .. 3 -> Nat]
          /\ ~Reaches(b.text, d) => Told(s, n, b) = [text |-> b.text, reps |-> b.reps, ok |-> FALSE]
          /\ Reaches(b.text, d) =>
               Told(s, n, b) = [text |-> Copied(b.text, d, Length(s)), reps |-> RepsAfter(s, b.reps), ok |-> TRUE]
      BY <1>2, <2>5, <3>1, ToldIs
    <3>3. CASE ~Reaches(b.text, d)
      <4>1. [text |-> b.text, reps |-> b.reps, ok |-> FALSE] \in Facts
        BY <2>1 DEF Facts
      <4>2. QED
        BY <3>2, <3>3, <4>1
    <3>4. CASE Reaches(b.text, d)
      <4>1. d \in 1 .. Len(b.text)
        BY <2>1, <3>2, <3>4, StreamAssumption DEF Reaches, LessOf
      <4>2. Length(s) \in Nat
        BY <3>2, SpecIs
      <4>3. Copied(b.text, d, Length(s)) \in Seq(Nat)
        BY <2>1, <4>1, <4>2, CopiedIs
      <4>4. [text |-> Copied(b.text, d, Length(s)), reps |-> RepsAfter(s, b.reps), ok |-> TRUE] \in Facts
        BY <3>2, <4>3 DEF Facts
      <4>5. QED
        BY <3>2, <3>4, <4>4
    <3>5. QED
      BY <3>3, <3>4
  <2>6. QED
    BY <2>2, <2>3, <2>4, <2>5
<1>3. QED
  BY <1>1, <1>2 DEF Facts

LEMMA MeaningDefined ==
  ASSUME NEW s \in Seq(Format)
  PROVE  /\ Meaning(s) \in [0 .. Len(s) -> Facts]
         /\ Meaning(s)[0] = NothingYet
         /\ \A n \in 1 .. Len(s) : Meaning(s)[n] = Told(s[n], n, Meaning(s)[n - 1])
<1> DEFINE F(m) == [n \in 0 .. Len(s) |-> IF n = 0 THEN NothingYet ELSE Told(s[n], n, m[n - 1])]
<1>1. Len(s) \in Nat /\ \A n \in 1 .. Len(s) : s[n] \in Format
  OBVIOUS
<1>2. NothingYet \in Facts
  BY DEF NothingYet, Facts, FirstReps
<1>3. PICK g : g = [n \in 1 .. Len(s) |-> [b \in Facts |-> Told(s[n], n, b)]]
  OBVIOUS
<1>4. g \in [1 .. Len(s) -> [Facts -> Facts]]
  <2>1. ASSUME NEW n \in 1 .. Len(s), NEW b \in Facts PROVE Told(s[n], n, b) \in Facts
    <3>1. s[n] \in Format /\ n \in Nat
      BY <1>1
    <3>2. QED
      BY <3>1, ToldIn
  <2>2. QED
    BY <1>3, <2>1
<1>5. PICK r \in [0 .. Len(s) -> Facts] :
         r[0] = NothingYet /\ \A i \in 1 .. Len(s) : r[i] = g[i][r[i - 1]]
  <2>1. PICK n \in Nat : n = Len(s)
    BY <1>1
  <2>2. g \in Turns(n, Facts)
    BY <1>4, <2>1 DEF Turns
  <2>3. \E r \in [0 .. n -> Facts] : r[0] = NothingYet /\ \A i \in 1 .. n : r[i] = g[i][r[i - 1]]
    BY <1>2, <2>2, Recursion
  <2>4. QED
    BY <2>1, <2>3
<1>6. ASSUME NEW n \in 0 .. Len(s)
      PROVE  r[n] = IF n = 0 THEN NothingYet ELSE Told(s[n], n, r[n - 1])
  <2>1. CASE n = 0
    BY <1>5, <2>1
  <2>2. CASE n # 0
    <3>1. n \in 1 .. Len(s) /\ n - 1 \in 0 .. Len(s)
      BY <2>2
    <3>2. r[n - 1] \in Facts
      BY <1>5, <3>1
    <3>3. g[n][r[n - 1]] = Told(s[n], n, r[n - 1])
      BY <1>3, <3>1, <3>2
    <3>4. QED
      BY <1>5, <2>2, <3>1, <3>3
  <2>3. QED
    BY <2>1, <2>2
<1>7. r = F(r)
  BY <1>6
<1>8. PICK m : m = CHOOSE x : x = F(x)
  OBVIOUS
<1>9. m = F(m)
  BY <1>7, <1>8
<1>10. Meaning(s) = m
  BY <1>8, MeaningIs
<1>11. m[0] = NothingYet /\ \A n \in 1 .. Len(s) : m[n] = Told(s[n], n, m[n - 1])
  BY <1>1, <1>9
<1>12. ASSUME NEW n \in 0 .. Len(s) PROVE m[n] \in Facts
  <2>1. PICK A : A = {k \in Nat : k <= Len(s) => m[k] \in Facts}
    OBVIOUS
  <2>2. A \in SUBSET Nat /\ 0 \in A
    BY <1>2, <1>11, <2>1
  <2>3. ASSUME NEW k \in 0 .. Len(s) - 1, k \in A PROVE k + 1 \in A
    <3>1. k + 1 \in 1 .. Len(s) /\ (k + 1) - 1 = k /\ m[k] \in Facts
      BY <2>1, <2>3, <1>1
    <3>2. m[k + 1] = Told(s[k + 1], k + 1, m[k])
      BY <1>11, <3>1
    <3>3. s[k + 1] \in Format /\ k + 1 \in Nat
      BY <1>1, <3>1
    <3>4. m[k + 1] \in Facts
      BY <3>1, <3>2, <3>3, ToldIn
    <3>5. QED
      BY <2>1, <3>3, <3>4
  <2>4. \A k \in 0 .. Len(s) : k \in A
    BY <1>1, <2>2, <2>3, Counting
  <2>5. QED
    BY <2>1, <2>4
<1>13. m \in [0 .. Len(s) -> Facts]
  BY <1>9, <1>12
<1>14. QED
  BY <1>10, <1>11, <1>13

LEMMA SymbolIs ==
  ASSUME NEW s \in Format
  PROVE  s.cost \in Nat /\ s.late \in {0, 1} /\ s.len \in Nat /\ s.dist \in Nat
         /\ s.kind \in {"literal", "match", "short", "rep", "mark"}
BY DEF Format, Symbol

LEMMA CodedDefined ==
  ASSUME NEW s \in Seq(Format)
  PROVE  /\ Coded(s) \in [0 .. Len(s) -> Nat]
         /\ Coded(s)[0] = InitSize
         /\ \A n \in 1 .. Len(s) : Coded(s)[n] = Coded(s)[n - 1] + s[n].cost + s[n].late
<1> DEFINE F(m) == [n \in 0 .. Len(s) |-> IF n = 0 THEN InitSize ELSE m[n - 1] + s[n].cost + s[n].late]
<1>1. Len(s) \in Nat /\ \A n \in 1 .. Len(s) : s[n].cost \in Nat /\ s[n].late \in Nat
  <2>1. \A n \in 1 .. Len(s) : s[n] \in Format
    OBVIOUS
  <2>2. QED
    BY <2>1, SymbolIs
<1>2. InitSize \in Nat
  BY StreamAssumption
<1>3. PICK g : g = [n \in 1 .. Len(s) |-> [b \in Nat |-> b + s[n].cost + s[n].late]]
  OBVIOUS
<1>4. PICK k \in Nat : k = Len(s)
  BY <1>1
<1>5. g \in Turns(k, Nat)
  <2>1. \A n \in 1 .. Len(s), b \in Nat : b + s[n].cost + s[n].late \in Nat
    BY <1>1
  <2>2. g \in [1 .. Len(s) -> [Nat -> Nat]]
    BY <1>3, <2>1
  <2>3. QED
    BY <1>4, <2>2 DEF Turns
<1>6. PICK r \in [0 .. k -> Nat] : r[0] = InitSize /\ \A i \in 1 .. k : r[i] = g[i][r[i - 1]]
  <2>1. \E r \in [0 .. k -> Nat] : r[0] = InitSize /\ \A i \in 1 .. k : r[i] = g[i][r[i - 1]]
    <3>1. PICK S : S = Nat
      OBVIOUS
    <3>2. InitSize \in S /\ g \in Turns(k, S)
      BY <1>2, <1>5, <3>1
    <3>3. \E r \in [0 .. k -> S] : r[0] = InitSize /\ \A i \in 1 .. k : r[i] = g[i][r[i - 1]]
      BY <3>2, Recursion
    <3>4. QED
      BY <3>1, <3>3
  <2>2. QED
    BY <2>1
<1>7. ASSUME NEW n \in 0 .. Len(s)
      PROVE  r[n] = IF n = 0 THEN InitSize ELSE r[n - 1] + s[n].cost + s[n].late
  <2>1. CASE n = 0
    BY <1>6, <2>1
  <2>2. CASE n # 0
    <3>1. n \in 1 .. Len(s) /\ n - 1 \in 0 .. k
      BY <1>4, <2>2
    <3>2. r[n - 1] \in Nat
      BY <1>6, <3>1
    <3>3. g[n][r[n - 1]] = r[n - 1] + s[n].cost + s[n].late
      BY <1>3, <3>1, <3>2
    <3>4. QED
      BY <1>4, <1>6, <2>2, <3>1, <3>3
  <2>3. QED
    BY <2>1, <2>2
<1>8. r = F(r)
  BY <1>4, <1>6, <1>7
<1>9. PICK m : m = CHOOSE x : x = F(x)
  OBVIOUS
<1>10. m = F(m)
  BY <1>8, <1>9
<1>11. Coded(s) = m
  BY <1>9 DEF Coded
<1>12. m[0] = InitSize /\ \A n \in 1 .. Len(s) : m[n] = m[n - 1] + s[n].cost + s[n].late
  <2>1. \A n \in 0 .. Len(s) : m[n] = IF n = 0 THEN InitSize ELSE m[n - 1] + s[n].cost + s[n].late
    BY <1>10
  <2>2. Len(s) \in Nat
    OBVIOUS
  <2>3. ASSUME NEW n \in 1 .. Len(s) PROVE m[n] = m[n - 1] + s[n].cost + s[n].late
    <3>1. n \in 0 .. Len(s) /\ n # 0
      BY <2>2
    <3>2. QED
      BY <2>1, <3>1
  <2>4. QED
    BY <2>1, <2>2, <2>3
<1>13. ASSUME NEW n \in 0 .. Len(s) PROVE m[n] \in Nat
  <2>1. PICK A : A = {i \in Nat : i <= Len(s) => m[i] \in Nat}
    OBVIOUS
  <2>2. A \in SUBSET Nat /\ 0 \in A
    BY <1>2, <1>12, <2>1
  <2>3. ASSUME NEW i \in 0 .. Len(s) - 1, i \in A PROVE i + 1 \in A
    <3>1. i + 1 \in 1 .. Len(s) /\ (i + 1) - 1 = i /\ m[i] \in Nat
      BY <2>1, <2>3, <1>1
    <3>2. m[i + 1] = m[i] + s[i + 1].cost + s[i + 1].late
      BY <1>12, <3>1
    <3>3. m[i + 1] \in Nat
      BY <1>1, <3>1, <3>2
    <3>4. i + 1 \in Nat
      OBVIOUS
    <3>5. QED
      BY <2>1, <3>3, <3>4
  <2>4. \A i \in 0 .. Len(s) : i \in A
    BY <1>1, <2>2, <2>3, Counting
  <2>5. QED
    BY <2>1, <2>4
<1>14. m \in [0 .. Len(s) -> Nat]
  BY <1>10, <1>13
<1>15. QED
  BY <1>11, <1>12, <1>14

\* A sequence begins with another.
Begins(t, u) == Len(t) <= Len(u) /\ \A i \in 1 .. Len(t) : t[i] = u[i]

\* A symbol only adds to the text, and a bad stream stays bad.
LEMMA ToldGrows ==
  ASSUME NEW s \in Format, NEW n \in Nat, NEW b \in Facts
  PROVE  LET a == Told(s, n, b)
         IN  /\ a.ok => b.ok
             /\ Begins(b.text, a.text)
             /\ a.ok /\ s.kind # "mark" => Len(b.text) < Len(a.text)
<1>1. b.text \in Seq(Nat) /\ Len(b.text) \in Nat
  BY DEF Facts
<1>2. CASE ~b.ok
  <2>1. Told(s, n, b) = b
    BY <1>2 DEF Told
  <2>2. QED
    BY <1>1, <1>2, <2>1 DEF Begins
<1>3. CASE b.ok
  <2>1. s.kind \in {"literal", "match", "short", "rep", "mark"}
    BY SymbolIs
  <2>2. CASE s.kind = "mark"
    <3>1. Told(s, n, b) = b
      BY <1>3, <2>2, ToldIs
    <3>2. QED
      BY <1>1, <1>3, <2>2, <3>1 DEF Begins
  <2>3. CASE s.kind = "literal"
    <3>1. Told(s, n, b) = [text |-> Append(b.text, n), reps |-> b.reps, ok |-> TRUE]
      BY <1>3, <2>3, ToldIs
    <3>2. Len(Append(b.text, n)) = Len(b.text) + 1
          /\ \A i \in 1 .. Len(b.text) : Append(b.text, n)[i] = b.text[i]
      BY <1>1
    <3>3. QED
      BY <1>1, <1>3, <3>1, <3>2 DEF Begins
  <2>4. CASE s.kind \in {"match", "rep", "short"}
    <3>1. PICK d : d = Distance(s, b.reps)
      OBVIOUS
    <3>2. /\ d \in Nat /\ Length(s) \in 1 .. SpecStart - 1
          /\ ~Reaches(b.text, d) => Told(s, n, b) = [text |-> b.text, reps |-> b.reps, ok |-> FALSE]
          /\ Reaches(b.text, d) =>
               Told(s, n, b) = [text |-> Copied(b.text, d, Length(s)), reps |-> RepsAfter(s, b.reps), ok |-> TRUE]
      BY <1>3, <2>4, <3>1, ToldIs
    <3>3. CASE ~Reaches(b.text, d)
      <4>1. Told(s, n, b) = [text |-> b.text, reps |-> b.reps, ok |-> FALSE]
        BY <3>2, <3>3
      <4>2. QED
        BY <1>1, <1>3, <4>1 DEF Begins
    <3>4. CASE Reaches(b.text, d)
      <4>1. d \in 1 .. Len(b.text)
        BY <1>1, <3>2, <3>4, StreamAssumption DEF Reaches, LessOf
      <4>2. Length(s) \in Nat /\ Length(s) >= 1
        BY <3>2, SpecIs
      <4>3. PICK c : c = Copied(b.text, d, Length(s))
        OBVIOUS
      <4>4. Len(c) = Len(b.text) + Length(s) /\ \A i \in 1 .. Len(b.text) : c[i] = b.text[i]
        BY <1>1, <4>1, <4>2, <4>3, CopiedIs
      <4>5. Told(s, n, b) = [text |-> c, reps |-> RepsAfter(s, b.reps), ok |-> TRUE]
        BY <3>2, <3>4, <4>3
      <4>6. QED
        BY <1>1, <1>3, <4>2, <4>4, <4>5 DEF Begins
    <3>5. QED
      BY <3>3, <3>4
  <2>5. QED
    BY <2>1, <2>2, <2>3, <2>4
<1>4. QED
  BY <1>2, <1>3 DEF Facts

\* So the text known so far begins the whole text, and no later symbol needs less input.
LEMMA Grows ==
  ASSUME NEW s \in Seq(Format), NEW n \in 0 .. Len(s), NEW k \in n .. Len(s)
  PROVE  /\ Meaning(s)[k].ok => Meaning(s)[n].ok
         /\ Begins(Meaning(s)[n].text, Meaning(s)[k].text)
         /\ Coded(s)[n] <= Coded(s)[k]
<1>1. Len(s) \in Nat /\ n \in Nat
  OBVIOUS
<1>2. PICK m : m = Meaning(s)
  OBVIOUS
<1>3. PICK c : c = Coded(s)
  OBVIOUS
<1>4. /\ m \in [0 .. Len(s) -> Facts]
      /\ \A i \in 1 .. Len(s) : m[i] = Told(s[i], i, m[i - 1])
  BY <1>2, MeaningDefined
<1>5. /\ c \in [0 .. Len(s) -> Nat]
      /\ \A i \in 1 .. Len(s) : c[i] = c[i - 1] + s[i].cost + s[i].late
  BY <1>3, CodedDefined
<1>6. PICK A : A = {j \in Nat : n <= j /\ j <= Len(s) =>
                      /\ m[j].ok => m[n].ok
                      /\ Begins(m[n].text, m[j].text)
                      /\ c[n] <= c[j]}
  OBVIOUS
<1>7. A \in SUBSET Nat
  BY <1>6
<1>8. n \in A
  <2>1. m[n].text \in Seq(Nat) /\ c[n] \in Nat
    BY <1>4, <1>5 DEF Facts
  <2>2. QED
    BY <1>1, <1>6, <2>1 DEF Begins
<1>9. ASSUME NEW j \in n .. Len(s) - 1, j \in A PROVE j + 1 \in A
  <2>1. j + 1 \in 1 .. Len(s) /\ (j + 1) - 1 = j /\ j \in 0 .. Len(s) /\ j + 1 \in 0 .. Len(s)
    BY <1>1
  <2>2. (m[j].ok => m[n].ok) /\ Begins(m[n].text, m[j].text) /\ c[n] <= c[j]
    BY <1>1, <1>6, <1>9, <2>1
  <2>3. s[j + 1] \in Format /\ m[j] \in Facts /\ m[j + 1] \in Facts /\ m[n] \in Facts
        /\ c[j] \in Nat /\ c[n] \in Nat
    <3>1. s[j + 1] \in Format
      BY <2>1
    <3>2. m[j] \in Facts /\ m[j + 1] \in Facts /\ m[n] \in Facts
      BY <1>4, <2>1
    <3>3. c[j] \in Nat /\ c[n] \in Nat
      BY <1>5, <2>1
    <3>4. QED
      BY <3>1, <3>2, <3>3
  <2>4. m[j + 1] = Told(s[j + 1], j + 1, m[j]) /\ c[j + 1] = c[j] + s[j + 1].cost + s[j + 1].late
    BY <1>4, <1>5, <2>1
  <2>5. (m[j + 1].ok => m[j].ok) /\ Begins(m[j].text, m[j + 1].text)
    BY <2>1, <2>3, <2>4, ToldGrows
  <2>6. Begins(m[n].text, m[j + 1].text)
    <3>1. m[n].text \in Seq(Nat) /\ m[j].text \in Seq(Nat) /\ m[j + 1].text \in Seq(Nat)
      BY <2>3 DEF Facts
    <3>2. PICK t, u, v : t = m[n].text /\ u = m[j].text /\ v = m[j + 1].text
      OBVIOUS
    <3>3. Len(t) \in Nat /\ Len(u) \in Nat /\ Len(v) \in Nat
      BY <3>1, <3>2
    <3>4. Begins(t, u) /\ Begins(u, v)
      BY <2>2, <2>5, <3>2
    <3>5. Begins(t, v)
      BY <3>3, <3>4 DEF Begins
    <3>6. QED
      BY <3>2, <3>5
  <2>7. c[n] <= c[j + 1]
    BY <2>2, <2>3, <2>4, SymbolIs
  <2>8. QED
    BY <1>6, <2>1, <2>2, <2>5, <2>6, <2>7
<1>10. \A j \in n .. Len(s) : j \in A
  BY <1>1, <1>7, <1>8, <1>9, Counting
<1>11. QED
  BY <1>1, <1>2, <1>3, <1>6, <1>10

-----------------------------------------------------------------------------
(* The dictionary.                                                         *)

\* A sequence whose elements are all in a set.
LEMMA SeqIn ==
  ASSUME NEW S, NEW T, NEW s \in Seq(S), \A n \in DOMAIN s : s[n] \in T
  PROVE  s \in Seq(T)
<1>1. s \in [1 .. Len(s) -> S] /\ Len(s) \in Nat
  OBVIOUS
<1>2. s \in [1 .. Len(s) -> T]
  BY <1>1, SMTT(60)
<1>3. QED
  BY <1>1, <1>2

\* What is assumed of a stream.
LEMMA StreamIs ==
  ASSUME stream \in Streams
  PROVE  /\ syms \in Seq(Format) /\ Len(syms) \in Nat
         /\ \A n \in 1 .. Len(syms) : /\ syms[n] \in Format
                                      /\ syms[n].cost + syms[n].late <= RequiredMax
                                      /\ syms[n].kind = "mark" => n = Len(syms)
         /\ stream.unpack \in Nat /\ stream.area \in Nat
         /\ Valid(syms) => stream.unpack <= Len(Text(syms))
<1>1. PICK s : s = syms
  OBVIOUS
<1>2. /\ s \in Seq(Symbol) /\ WellFormed(s)
      /\ \A n \in DOMAIN s : FitsRequired(s[n])
      /\ stream.unpack \in Nat /\ stream.area \in Nat
      /\ Valid(s) => stream.unpack <= Len(Text(s))
  BY <1>1, DecoderAssumption DEF syms
<1>3. DOMAIN s = 1 .. Len(s) /\ Len(s) \in Nat
  <2>1. s \in Seq(Symbol)
    BY <1>2
  <2>2. QED
    BY <2>1
<1>4. \A n \in DOMAIN s : s[n] \in Format
  <2>1. \A n \in DOMAIN s : s[n] \in Symbol
    BY <1>2
  <2>2. QED
    BY <1>2, <2>1 DEF WellFormed, Format
<1>5. s \in Seq(Format)
  <2>1. s \in Seq(Symbol)
    BY <1>2
  <2>2. QED
    BY <1>4, <2>1, SeqIn
<1>6. \A n \in 1 .. Len(s) : s[n].kind = "mark" => n = Len(s)
  BY <1>2, <1>3 DEF WellFormed
<1>7. \A n \in 1 .. Len(s) : s[n].cost + s[n].late <= RequiredMax
  BY <1>2, <1>3 DEF FitsRequired
<1>8. QED
  BY <1>1, <1>2, <1>3, <1>4, <1>5, <1>6, <1>7

LEMMA Sizes ==
  /\ DicSize \in Nat \ {0} /\ InitSize \in Nat \ {0} /\ RequiredMax \in Nat \ {0}
  /\ OutBuf \in Nat \ {0} /\ DicBufSize \in Nat /\ DicBufSize >= DicSize
  /\ InBufs \subseteq Nat \ {0}
BY StreamAssumption, DecoderAssumption

CopyDic(d, dist, n) ==
  [i \in DOMAIN d.dic |->
     IF i \in d.dicPos .. d.dicPos + n - 1 THEN At(d, dist - ((i - d.dicPos) % dist)) ELSE d.dic[i]]

\* A copy has what the text has, when the text repeats itself so far.
LEMMA LessIs ==
  ASSUME NEW a \in Int, NEW b \in Int
  PROVE  /\ LessOf(a, b) \in Int /\ LessOf(a, b) <= a /\ LessOf(a, b) <= b
         /\ LessOf(a, b) = a \/ LessOf(a, b) = b
         /\ \A x \in Int : x \in 1 .. LessOf(a, b) <=> 1 <= x /\ x <= a /\ x <= b
BY DEF LessOf

LEMMA CopyHolds ==
  ASSUME NEW d, NEW text, NEW dist, NEW n, NEW e
  PROVE  /\ d.dic \in [0 .. DicBufSize - 1 -> Nat] /\ d.dicPos \in Nat /\ d.processedPos \in Nat
         /\ text \in Seq(Nat) /\ dist \in 1 .. DicSize /\ dist <= d.processedPos
         /\ n \in Nat /\ d.dicPos + n <= DicBufSize /\ d.processedPos + n <= Len(text)
         /\ Holds(d, text) /\ Repeats(text, d.processedPos, dist, n)
         /\ e.dic = CopyDic(d, dist, n)
         /\ e.dicPos = d.dicPos + n /\ e.processedPos = d.processedPos + n
         => e.dic \in [0 .. DicBufSize - 1 -> Nat] /\ Holds(e, text)
<1>h. SUFFICES ASSUME d.dic \in [0 .. DicBufSize - 1 -> Nat], d.dicPos \in Nat, d.processedPos \in Nat,
         text \in Seq(Nat), dist \in 1 .. DicSize, dist <= d.processedPos,
         n \in Nat, d.dicPos + n <= DicBufSize, d.processedPos + n <= Len(text),
         Holds(d, text), Repeats(text, d.processedPos, dist, n),
         e.dic = CopyDic(d, dist, n),
         e.dicPos = d.dicPos + n, e.processedPos = d.processedPos + n
    PROVE e.dic \in [0 .. DicBufSize - 1 -> Nat] /\ Holds(e, text)
  OBVIOUS
<1>1. PICK P, D : P = d.processedPos /\ D = d.dicPos
  OBVIOUS
<1>2. DicBufSize \in Nat /\ DicSize \in Nat /\ DicSize <= DicBufSize
  BY Sizes
<1>3. PICK a, b : a = d.dic /\ b = e.dic
  OBVIOUS
<1>4. \A j \in 1 .. LessOf(P, DicBufSize) : At(d, j) = text[P + 1 - j]
  BY <1>h, <1>1 DEF Holds
<1>5. \A k \in 0 .. n - 1 : text[P + 1 + k] = text[P + 1 - dist + (k % dist)]
  BY <1>h, <1>1 DEF Repeats
<1>0. P \in Nat /\ D \in Nat /\ n \in Nat
  BY <1>h, <1>1
<1>6. /\ a \in [0 .. DicBufSize - 1 -> Nat]
      /\ b = [i \in 0 .. DicBufSize - 1 |-> IF i \in D .. D + n - 1 THEN At(d, dist - ((i - D) % dist)) ELSE a[i]]
      /\ D + n <= DicBufSize /\ P + n <= Len(text) /\ dist <= P /\ dist \in Nat \ {0} /\ dist <= DicBufSize
      /\ Len(text) \in Nat
  <2>1. a \in [0 .. DicBufSize - 1 -> Nat]
    BY <1>h, <1>3
  <2>2. DOMAIN a = 0 .. DicBufSize - 1
    BY <2>1
  <2>3. b = [i \in 0 .. DicBufSize - 1 |-> IF i \in D .. D + n - 1 THEN At(d, dist - ((i - D) % dist)) ELSE a[i]]
    BY <1>h, <1>1, <1>3, <2>2 DEF CopyDic
  <2>4. D + n <= DicBufSize /\ P + n <= Len(text) /\ dist <= P /\ Len(text) \in Nat
    BY <1>h, <1>1
  <2>5. dist \in Nat \ {0} /\ dist <= DicBufSize
    BY <1>h, <1>2
  <2>6. QED
    BY <2>1, <2>3, <2>4, <2>5
<1>6a. /\ D + n <= DicBufSize /\ P + n <= Len(text) /\ dist <= P /\ dist \in Nat \ {0}
       /\ dist <= DicBufSize /\ Len(text) \in Nat
  BY <1>6
<1>7. ASSUME NEW k \in 0 .. n - 1 PROVE At(d, dist - (k % dist)) = text[P + 1 + k] /\ text[P + 1 + k] \in Nat
  <2>1. PICK r : r = k % dist
    OBVIOUS
  <2>2. r \in 0 .. dist - 1
    <3>1. k \in Nat
      OBVIOUS
    <3>2. QED
      BY <1>6a, <2>1, <3>1, DivMod
  <2>3. dist - r \in 1 .. LessOf(P, DicBufSize)
    <3>1. dist - r \in Int /\ 1 <= dist - r /\ dist - r <= P /\ dist - r <= DicBufSize
      BY <1>0, <1>2, <1>6a, <2>2
    <3>2. QED
      BY <1>0, <1>2, <3>1, LessIs
  <2>4. At(d, dist - r) = text[P + 1 - (dist - r)]
    BY <1>4, <2>3
  <2>5. P + 1 - (dist - r) = P + 1 - dist + r
    BY <1>0, <1>6a, <2>2
  <2>6. text[P + 1 + k] = text[P + 1 - dist + r]
    BY <1>5, <2>1
  <2>7. P + 1 + k \in 1 .. Len(text)
    BY <1>0, <1>6a
  <2>8. text[P + 1 + k] \in Nat
    <3>1. text \in Seq(Nat)
      BY <1>h
    <3>2. QED
      BY <2>7, <3>1
  <2>9. QED
    BY <2>1, <2>4, <2>5, <2>6, <2>8
<1>8. \A i \in D .. D + n - 1 : b[i] = text[P + 1 + (i - D)] /\ b[i] \in Nat
  <2> SUFFICES ASSUME NEW i \in D .. D + n - 1 PROVE b[i] = text[P + 1 + (i - D)] /\ b[i] \in Nat
    OBVIOUS
  <2>1. i - D \in 0 .. n - 1 /\ i \in 0 .. DicBufSize - 1
    BY <1>0, <1>2, <1>6a
  <2>2. b[i] = At(d, dist - ((i - D) % dist))
    BY <1>6, <2>1
  <2>3. QED
    BY <1>7, <2>1, <2>2
<1>9. \A i \in 0 .. DicBufSize - 1 : i \notin D .. D + n - 1 => b[i] = a[i]
  BY <1>6
<1>10. b \in [0 .. DicBufSize - 1 -> Nat]
  <2>1. \A i \in 0 .. DicBufSize - 1 : b[i] \in Nat
    BY <1>6, <1>8, <1>9
  <2>2. b = [i \in 0 .. DicBufSize - 1 |-> b[i]]
    BY <1>6
  <2>3. QED
    BY <2>1, <2>2
<1>11. ASSUME NEW j \in 1 .. LessOf(P + n, DicBufSize) PROVE At(e, j) = text[P + n + 1 - j]
  <2>1. j \in Nat \ {0} /\ j <= P + n /\ j <= DicBufSize
    <3>1. P + n \in Int /\ DicBufSize \in Int /\ j \in Int
      BY <1>0, <1>2, LessIs
    <3>2. 1 <= j /\ j <= P + n /\ j <= DicBufSize
      BY <3>1, LessIs
    <3>3. QED
      BY <3>1, <3>2
  <2>2. At(e, j) = b[D + n - j + (IF D + n < j THEN DicBufSize ELSE 0)]
    <3>1. e.dic = b /\ e.dicPos = D + n
      BY <1>h, <1>1, <1>3
    <3>2. At(e, j) = e.dic[e.dicPos - j + (IF e.dicPos < j THEN DicBufSize ELSE 0)]
      BY DEF At
    <3>3. QED
      BY <1>0, <1>2, <2>1, <3>1, <3>2
  <2>3. CASE j <= n
    <3>1. D + n - j \in D .. D + n - 1 /\ D + n - j \in 0 .. DicBufSize - 1 /\ ~(D + n < j)
      BY <1>0, <1>2, <1>6a, <2>1, <2>3
    <3>2. At(e, j) = b[D + n - j]
      BY <2>2, <3>1
    <3>3. P + 1 + ((D + n - j) - D) = P + n + 1 - j
      BY <1>0, <2>1
    <3>4. QED
      BY <1>8, <3>1, <3>2, <3>3
  <2>4. CASE j > n
    <3>1. j - n \in 1 .. LessOf(P, DicBufSize)
      <4>1. j - n \in Int /\ 1 <= j - n /\ j - n <= P /\ j - n <= DicBufSize
        BY <1>0, <1>2, <2>1, <2>4
      <4>2. QED
        BY <1>0, <1>2, <4>1, LessIs
    <3>2. At(d, j - n) = text[P + 1 - (j - n)]
      BY <1>4, <3>1
    <3>3. P + 1 - (j - n) = P + n + 1 - j
      BY <1>0, <2>1
    <3>4. PICK i : i = D - (j - n) + (IF D < j - n THEN DicBufSize ELSE 0)
      OBVIOUS
    <3>5. At(d, j - n) = a[i]
      BY <1>1, <1>3, <3>4 DEF At
    <3>6. i = D + n - j + (IF D + n < j THEN DicBufSize ELSE 0)
      BY <1>0, <1>2, <2>1, <3>4
    <3>7. i \in 0 .. DicBufSize - 1 /\ i \notin D .. D + n - 1
      <4>1. CASE D < j - n
        <5>1. i = D - (j - n) + DicBufSize
          BY <3>4, <4>1
        <5>2. QED
          BY <1>0, <1>2, <2>1, <2>4, <4>1, <5>1
      <4>2. CASE ~(D < j - n)
        <5>1. i = D - (j - n)
          BY <1>0, <2>1, <3>4, <4>2
        <5>2. D <= DicBufSize
          BY <1>0, <1>2, <1>6a
        <5>3. QED
          BY <1>0, <1>2, <2>1, <2>4, <4>2, <5>1, <5>2
      <4>3. QED
        BY <4>1, <4>2
    <3>8. At(e, j) = a[i]
      BY <1>9, <2>2, <3>6, <3>7
    <3>9. QED
      BY <3>2, <3>3, <3>5, <3>8
  <2>5. j <= n \/ j > n
    BY <1>0, <2>1
  <2>6. QED
    BY <2>3, <2>4, <2>5
<1>12. QED
  BY <1>h, <1>1, <1>3, <1>10, <1>11 DEF Holds

\* What repeats itself from pos on does so from any place behind it.
LEMMA RepeatsOn ==
  ASSUME NEW text, NEW pos \in Nat, NEW dist \in Nat \ {0}, NEW rest \in Nat, NEW l \in 0 .. rest,
         Repeats(text, pos, dist, rest)
  PROVE  Repeats(text, pos + l, dist, rest - l)
<1> SUFFICES ASSUME NEW k \in 0 .. (rest - l) - 1
             PROVE  text[pos + l + 1 + k] = text[pos + l + 1 - dist + (k % dist)]
  BY DEF Repeats
<1>1. \A i \in 0 .. rest - 1 : text[pos + 1 + i] = text[pos + 1 - dist + (i % dist)]
  BY DEF Repeats
<1>2. k \in Nat /\ l \in Nat /\ l + k \in 0 .. rest - 1
  OBVIOUS
<1>3. PICK r : r = k % dist
  OBVIOUS
<1>4. PICK q \in Nat : k = dist * q + r /\ r \in 0 .. dist - 1
  BY <1>2, <1>3, DivMod
<1>5. PICK x : x = (l + r) % dist
  OBVIOUS
<1>6. PICK u \in Nat : l + r = dist * u + x /\ x \in 0 .. dist - 1
  <2>1. l + r \in Nat
    BY <1>2, <1>4
  <2>2. QED
    BY <1>5, <2>1, DivMod
<1>7. (l + k) % dist = x
  <2>1. l + k = dist * (q + u) + x
    BY <1>2, <1>4, <1>6
  <2>2. q + u \in Int /\ x \in Int /\ 0 <= x /\ x < dist
    BY <1>6
  <2>3. (dist * (q + u) + x) % dist = x
    BY <2>2, ModUnique
  <2>4. QED
    BY <2>1, <2>3
<1>8. text[pos + 1 + (l + k)] = text[pos + 1 - dist + x]
  BY <1>1, <1>2, <1>7
<1>9. pos + 1 + (l + k) = pos + l + 1 + k
  BY <1>2
<1>10. CASE l + r < dist
  <2>1. (dist * 0 + (l + r)) % dist = l + r
    <3>1. 0 \in Int /\ l + r \in Int /\ 0 <= l + r
      BY <1>2, <1>4
    <3>2. QED
      BY <1>10, <3>1, ModUnique
  <2>2. x = l + r
    BY <1>2, <1>4, <1>5, <2>1
  <2>3. pos + 1 - dist + x = pos + l + 1 - dist + r
    BY <1>2, <1>4, <2>2
  <2>4. QED
    BY <1>3, <1>8, <1>9, <2>3
<1>11. CASE ~(l + r < dist)
  <2>1. PICK y : y = l + r - dist
    OBVIOUS
  <2>2. y \in 0 .. rest - 1 /\ y \in Nat
    BY <1>2, <1>4, <1>11, <2>1
  <2>3. y % dist = x
    <3>1. y = dist * (u - 1) + x
      BY <1>2, <1>4, <1>6, <2>1
    <3>2. u - 1 \in Int /\ x \in Int /\ 0 <= x /\ x < dist
      BY <1>6
    <3>3. (dist * (u - 1) + x) % dist = x
      BY <3>2, ModUnique
    <3>4. QED
      BY <3>1, <3>3
  <2>4. text[pos + 1 + y] = text[pos + 1 - dist + x]
    BY <1>1, <2>2, <2>3
  <2>5. pos + 1 + y = pos + l + 1 - dist + r
    BY <1>2, <1>4, <2>1
  <2>6. QED
    BY <1>3, <1>8, <1>9, <2>4, <2>5
<1>12. QED
  BY <1>2, <1>4, <1>10, <1>11

LEMMA CopyIs ==
  ASSUME NEW s, NEW d \in Decoders(s), NEW dist, NEW n
  PROVE  CopyMatch(d, dist, n) =
           [dic |-> CopyDic(d, dist, n), dicPos |-> d.dicPos + n, processedPos |-> d.processedPos + n,
            checkDicSize |-> d.checkDicSize, remainLen |-> d.remainLen, reps |-> d.reps,
            afterMatch |-> d.afterMatch, needFlush |-> d.needFlush, tempBuf |-> d.tempBuf,
            next |-> d.next, coded |-> d.coded]
<1>1. PICK x : x = CopyDic(d, dist, n)
  OBVIOUS
<1>2. CopyMatch(d, dist, n) = [d EXCEPT !.dic = x, !.dicPos = @ + n, !.processedPos = @ + n]
  BY <1>1 DEF CopyMatch, CopyDic
<1>3. QED
  BY <1>1, <1>2 DEF Decoders

\* What is known before each symbol.
LEMMA KnownIs ==
  ASSUME NEW s \in Seq(Format), NEW d \in Decoders(s)
  PROVE  /\ d.next \in 1 .. Len(s) + 1 /\ d.next - 1 \in 0 .. Len(s)
         /\ Meaning(s)[d.next - 1] \in Facts
         /\ Meaning(s)[d.next - 1].text \in Seq(Nat) /\ Len(Meaning(s)[d.next - 1].text) \in Nat
<1>1. Len(s) \in Nat /\ d.next \in 1 .. Len(s) + 1
  BY DEF Decoders
<1>2. d.next - 1 \in 0 .. Len(s)
  BY <1>1
<1>3. Meaning(s)[d.next - 1] \in Facts
  BY <1>2, MeaningDefined
<1>4. QED
  BY <1>1, <1>2, <1>3 DEF Facts

\* LzmaDec_WriteRem goes on with a match.
LEMMA RemWritten ==
  ASSUME NEW s \in Seq(Format), NEW d \in Decoders(s), History(s, d), Checked(d),
         NEW limit \in Nat, d.dicPos <= limit, limit <= DicBufSize, NEW e, e = WriteRem(d, limit)
  PROVE  /\ e \in Decoders(s) /\ History(s, e) /\ Checked(e)
         /\ d.dicPos <= e.dicPos /\ e.dicPos <= limit
         /\ e.processedPos = d.processedPos + (e.dicPos - d.dicPos)
         /\ e.remainLen \in {0, SpecStart} \/ e.dicPos = limit
         /\ e.remainLen = SpecStart <=> d.remainLen = SpecStart
         /\ d.remainLen \in {0, SpecStart} => e = d
         /\ e.next = d.next /\ e.coded = d.coded /\ e.needFlush = d.needFlush /\ e.tempBuf = d.tempBuf
<1>1. /\ d.dic \in [0 .. DicBufSize - 1 -> Nat] /\ d.dicPos \in 0 .. DicBufSize /\ d.processedPos \in Nat
      /\ d.checkDicSize \in {0, DicSize} /\ d.remainLen \in 0 .. SpecStart
      /\ d.reps \in [0 .. 3 -> 1 .. DicSize] /\ d.afterMatch \in BOOLEAN
  BY DEF Decoders
<1>2. DicSize \in Nat \ {0} /\ DicBufSize \in Nat
  BY Sizes
<1>2a. PICK P, D, R : P = d.processedPos /\ D = d.dicPos /\ R = d.remainLen
  OBVIOUS
<1>2b. P \in Nat /\ D \in Nat /\ D <= DicBufSize /\ R \in 0 .. SpecStart
       /\ SpecStart \in Nat /\ SpecStart > 2
  BY <1>1, <1>2, <1>2a, SpecIs
<1>3. CASE d.remainLen \in {0, SpecStart}
  <2>1. e = d
    BY <1>3 DEF WriteRem
  <2>2. D <= limit
    BY <1>2a
  <2>3. QED
    BY <1>2a, <1>2b, <1>3, <2>1, <2>2
<1>4. CASE d.remainLen \notin {0, SpecStart}
  <2>1. PICK n : n = LessOf(d.remainLen, limit - d.dicPos)
    OBVIOUS
  <2>2. R \in 1 .. SpecStart - 1 /\ R \in Nat
    BY <1>2a, <1>2b, <1>4
  <2>2a. D <= limit /\ limit <= DicBufSize
    BY <1>2a
  <2>3. n \in Nat /\ n <= R /\ n <= limit - D /\ (n = R \/ n = limit - D)
    <3>1. n = LessOf(R, limit - D)
      BY <1>2a, <2>1
    <3>2. R \in Int /\ limit - D \in Int /\ 0 <= R /\ 0 <= limit - D
      BY <1>2b, <2>2, <2>2a
    <3>3. n \in Int /\ n <= R /\ n <= limit - D /\ (n = R \/ n = limit - D)
      BY <3>1, <3>2, LessIs
    <3>4. QED
      BY <3>2, <3>3
  <2>4. PICK dist : dist = d.reps[0]
    OBVIOUS
  <2>5. dist \in 1 .. DicSize
    BY <1>1, <2>4
  <2>6. PICK m : m = CopyMatch(d, dist, n)
    OBVIOUS
  <2>7. m = [dic |-> CopyDic(d, dist, n), dicPos |-> d.dicPos + n, processedPos |-> d.processedPos + n,
             checkDicSize |-> d.checkDicSize, remainLen |-> d.remainLen, reps |-> d.reps,
             afterMatch |-> d.afterMatch, needFlush |-> d.needFlush, tempBuf |-> d.tempBuf,
             next |-> d.next, coded |-> d.coded]
    BY <2>6, CopyIs
  <2>8. e = [m EXCEPT !.remainLen = @ - n,
                      !.checkDicSize = IF @ = 0 /\ DicSize - d.processedPos <= n THEN DicSize ELSE @]
    BY <1>4, <2>1, <2>4, <2>6 DEF WriteRem
  <2>9. PICK checked : checked = IF d.checkDicSize = 0 /\ DicSize - P <= n THEN DicSize ELSE d.checkDicSize
    OBVIOUS
  <2>10. e = [dic |-> CopyDic(d, dist, n), dicPos |-> D + n, processedPos |-> P + n,
              checkDicSize |-> checked, remainLen |-> R - n, reps |-> d.reps,
              afterMatch |-> d.afterMatch, needFlush |-> d.needFlush, tempBuf |-> d.tempBuf,
              next |-> d.next, coded |-> d.coded]
    BY <1>2a, <2>7, <2>8, <2>9, ZenonT(60)
  <2>11. /\ e.dic = CopyDic(d, dist, n) /\ e.dicPos = D + n /\ e.processedPos = P + n
         /\ e.checkDicSize = checked /\ e.remainLen = R - n /\ e.reps = d.reps
         /\ e.afterMatch = d.afterMatch /\ e.needFlush = d.needFlush /\ e.tempBuf = d.tempBuf
         /\ e.next = d.next /\ e.coded = d.coded
    BY <2>10
  <2>12. PICK text : text = Meaning(s)[d.next - 1].text
    OBVIOUS
  <2>13. text \in Seq(Nat) /\ Len(text) \in Nat
    BY <2>12, KnownIs
  <2>14. Rest(d) = R /\ R > 0
    BY <1>2a, <1>2b, <2>2 DEF Rest
  <2>15. /\ Meaning(s)[d.next - 1].ok /\ Meaning(s)[d.next - 1].reps = d.reps
         /\ Len(text) = P + R
         /\ Holds(d, text) /\ Repeats(text, P, dist, R)
         /\ \A k \in 0 .. 3 : d.reps[k] = 1 \/ d.reps[k] <= P
         /\ P > 0
    BY <1>2a, <2>4, <2>12, <2>14 DEF History
  <2>16. Len(text) = P + R /\ P > 0
    BY <2>15
  <2>17. dist <= P
    BY <1>2b, <2>4, <2>5, <2>15
  <2>18. D + n <= DicBufSize /\ P + n <= Len(text)
    BY <1>2, <1>2b, <2>2, <2>2a, <2>3, <2>16
  <2>19. Repeats(text, P, dist, n)
    <3>1. \A k \in 0 .. n - 1 : k \in 0 .. R - 1
      BY <2>2, <2>3
    <3>2. QED
      BY <2>15, <3>1 DEF Repeats
  <2>20. e.dic \in [0 .. DicBufSize - 1 -> Nat] /\ Holds(e, text)
    <3>1. d.dic \in [0 .. DicBufSize - 1 -> Nat] /\ d.dicPos \in Nat /\ d.processedPos \in Nat
      BY <1>1, <1>2a, <1>2b
    <3>2. dist <= d.processedPos /\ d.dicPos + n <= DicBufSize /\ d.processedPos + n <= Len(text)
      BY <1>2a, <2>17, <2>18
    <3>3. Holds(d, text) /\ Repeats(text, d.processedPos, dist, n)
      BY <1>2a, <2>15, <2>19
    <3>4. e.dic = CopyDic(d, dist, n) /\ e.dicPos = d.dicPos + n /\ e.processedPos = d.processedPos + n
      BY <1>2a, <2>11
    <3>5. n \in Nat
      BY <2>3
    <3>6. QED
      BY <2>5, <2>13, <3>1, <3>2, <3>3, <3>4, <3>5, CopyHolds
  <2>21. Repeats(text, P + n, dist, R - n)
    <3>1. dist \in Nat \ {0} /\ n \in 0 .. R
      BY <1>2, <2>2, <2>3, <2>5
    <3>2. QED
      BY <1>2b, <2>2, <2>15, <3>1, RepeatsOn
  <2>22. R - n \in 0 .. SpecStart - 1 /\ R - n # SpecStart /\ R - n \in 0 .. SpecStart
    BY <1>2b, <2>2, <2>3
  <2>23. checked \in {0, DicSize}
    BY <1>1, <2>9
  <2>24. D + n \in 0 .. DicBufSize /\ P + n \in Nat
    BY <1>2, <1>2b, <2>3, <2>18
  <2>25. e \in Decoders(s)
    <3>1. /\ d.needFlush \in BOOLEAN /\ d.tempBuf \in Seq(Nat) /\ d.next \in 1 .. Len(s) + 1 /\ d.coded \in Nat
      BY DEF Decoders
    <3>2. PICK dic : dic = CopyDic(d, dist, n)
      OBVIOUS
    <3>3. dic \in [0 .. DicBufSize - 1 -> Nat]
      BY <2>11, <2>20, <3>2
    <3>4. QED
      BY <1>1, <2>10, <2>22, <2>23, <2>24, <3>1, <3>2, <3>3 DEF Decoders
  <2>26. Checked(e)
    <3>1. d.checkDicSize \in {0, DicSize} /\ (d.checkDicSize = DicSize => P >= DicSize)
      BY <1>1, <1>2a DEF Checked
    <3>2. (checked = DicSize => P + n >= DicSize) /\ (checked = 0 => P + n < DicSize)
      BY <1>2, <1>2b, <2>3, <2>9, <3>1
    <3>3. QED
      BY <2>11, <3>2 DEF Checked
  <2>27. Rest(e) = R - n
    BY <2>11, <2>22 DEF Rest
  <2>28. History(s, e)
    <3>1. Len(text) = e.processedPos + Rest(e)
      BY <1>2b, <2>2, <2>3, <2>11, <2>16, <2>27
    <3>2. Repeats(text, e.processedPos, e.reps[0], Rest(e))
      BY <2>4, <2>11, <2>21, <2>27
    <3>3. \A k \in 0 .. 3 : e.reps[k] = 1 \/ e.reps[k] <= e.processedPos
      <4> SUFFICES ASSUME NEW k \in 0 .. 3 PROVE e.reps[k] = 1 \/ e.reps[k] <= e.processedPos
        OBVIOUS
      <4>1. PICK r : r = d.reps[k]
        OBVIOUS
      <4>2. r \in Nat /\ (r = 1 \/ r <= P)
        BY <1>1, <1>2, <2>15, <4>1
      <4>3. r = 1 \/ r <= P + n
        BY <1>2b, <2>3, <4>2
      <4>4. QED
        BY <2>11, <4>1, <4>3
    <3>4. e.processedPos > 0
      BY <1>2b, <2>3, <2>11, <2>16
    <3>5. e.remainLen # SpecStart
      BY <2>11, <2>22
    <3>6. Meaning(s)[e.next - 1].ok /\ Meaning(s)[e.next - 1].reps = e.reps /\ text = Meaning(s)[e.next - 1].text
      BY <2>11, <2>12, <2>15
    <3>7. QED
      BY <2>20, <3>1, <3>2, <3>3, <3>4, <3>5, <3>6 DEF History
  <2>29. e.remainLen \in {0, SpecStart} \/ e.dicPos = limit
    <3>1. R - n = 0 \/ D + n = limit
      BY <1>2b, <2>2, <2>3
    <3>2. QED
      BY <2>11, <3>1
  <2>30. e.processedPos = d.processedPos + (e.dicPos - d.dicPos) /\ d.dicPos <= e.dicPos /\ e.dicPos <= limit
    <3>1. (D + n) - D = n /\ D <= D + n /\ D + n <= limit
      BY <1>2b, <2>2a, <2>3
    <3>2. QED
      BY <1>2a, <2>11, <3>1
  <2>31. QED
    BY <1>4, <2>11, <2>22, <2>25, <2>26, <2>28, <2>29, <2>30
<1>5. QED
  BY <1>3, <1>4

-----------------------------------------------------------------------------
(* The steps keep the invariant.                                           *)

Results  == {"ok", "data", "fail"}
Statuses == {"none", "input", "mark", "maybe finished", "not finished"}

LEMMA TypesAre ==
  ASSUME DecoderTypes
  PROVE  /\ f = [src_curr |-> f.src_curr, in_size |-> f.in_size, in_pos |-> f.in_pos,
                 unpackSize |-> f.unpackSize, de_len |-> f.de_len]
         /\ f.src_curr \in Nat /\ f.in_size \in Nat /\ f.in_pos \in Nat
         /\ f.unpackSize \in Nat /\ f.de_len \in Nat
         /\ inbuf_size \in Nat \ {0}
         /\ call.src \in Nat /\ call.outSize \in Nat /\ call.made \in Seq(Nat) /\ Len(call.made) \in Nat
         /\ call.dicStart \in 0 .. DicBufSize /\ call.dicLimit \in 0 .. DicBufSize
         /\ call.res \in Results /\ call.status \in Statuses
         /\ call.finish \in {"any", "end"} /\ call.curFinish \in {"any", "end"}
         /\ call.fed \in Seq(Nat) /\ Len(call.fed) \in Nat
         /\ call.used \in Nat /\ call.bufLimit \in Nat /\ call.limit2 \in Nat
         /\ call.owed \in {0, 1} /\ call.temp \in BOOLEAN /\ call.lookAhead \in Nat
         /\ got \in Seq(Nat) /\ Len(got) \in Nat /\ asked \in Nat
<1>1. inbuf_size \in Nat \ {0}
  BY Sizes DEF DecoderTypes
<1>2. f \in [src_curr : Nat, in_size : Nat, in_pos : Nat, unpackSize : Nat, de_len : Nat]
  BY DEF DecoderTypes
<1>3. call.made \in Seq(Nat) /\ call.fed \in Seq(Nat) /\ got \in Seq(Nat)
  BY DEF DecoderTypes
<1>4. Len(call.made) \in Nat /\ Len(call.fed) \in Nat /\ Len(got) \in Nat
  BY <1>3
<1>5. QED
  BY <1>1, <1>2, <1>3, <1>4 DEF DecoderTypes, Results, Statuses

LEMMA DecoderIs ==
  ASSUME DecoderTypes
  PROVE  /\ p \in Decoders(syms) /\ syms \in Seq(Format)
         /\ p.dic \in [0 .. DicBufSize - 1 -> Nat] /\ p.dicPos \in 0 .. DicBufSize /\ p.dicPos \in Nat
         /\ p.processedPos \in Nat /\ p.checkDicSize \in {0, DicSize} /\ p.remainLen \in 0 .. SpecStart
         /\ p.reps \in [0 .. 3 -> 1 .. DicSize] /\ p.afterMatch \in BOOLEAN /\ p.needFlush \in BOOLEAN
         /\ p.tempBuf \in Seq(Nat) /\ Len(p.tempBuf) \in Nat /\ p.next \in 1 .. Len(syms) + 1 /\ p.next \in Nat
         /\ p.coded \in Nat
<1>1. p \in Decoders(syms) /\ stream \in Streams
  BY DEF DecoderTypes
<1>2. syms \in Seq(Format) /\ Len(syms) \in Nat
  BY <1>1, StreamIs
<1>3. /\ p.dic \in [0 .. DicBufSize - 1 -> Nat] /\ p.dicPos \in 0 .. DicBufSize
      /\ p.processedPos \in Nat /\ p.checkDicSize \in {0, DicSize} /\ p.remainLen \in 0 .. SpecStart
      /\ p.reps \in [0 .. 3 -> 1 .. DicSize] /\ p.afterMatch \in BOOLEAN /\ p.needFlush \in BOOLEAN
      /\ p.tempBuf \in Seq(Nat) /\ p.next \in 1 .. Len(syms) + 1 /\ p.coded \in Nat
  BY <1>1 DEF Decoders
<1>4. p.dicPos \in Nat /\ p.next \in Nat /\ Len(p.tempBuf) \in Nat
  <2>1. Len(p.tempBuf) \in Nat
    BY <1>3
  <2>2. p.next \in Nat
    BY <1>2, <1>3
  <2>3. p.dicPos \in Nat
    BY <1>3, Sizes
  <2>4. QED
    BY <2>1, <2>2, <2>3
<1>5. QED
  BY <1>1, <1>2, <1>3, <1>4

LEMMA StartsSound ==
  ASSUME Init PROVE DecoderInv
<1>1. stream \in Streams /\ inbuf_size \in InBufs
  BY DEF Init
<1>2. stream.unpack \in Nat /\ stream.area \in Nat /\ syms \in Seq(Format) /\ Len(syms) \in Nat
  BY <1>1, StreamIs
<1>3. /\ DicSize \in Nat \ {0} /\ DicBufSize \in Nat /\ InitSize \in Nat \ {0} /\ SpecStart \in Nat
      /\ SpecStart > 2
  BY Sizes, SpecIs
<1>4. f = [src_curr |-> 0, in_size |-> 0, in_pos |-> 0, unpackSize |-> stream.unpack, de_len |-> 0]
  BY DEF Init
<1>5. p = [dic |-> [i \in 0 .. DicBufSize - 1 |-> 0], dicPos |-> 0, processedPos |-> 0,
           checkDicSize |-> 0, remainLen |-> 0, reps |-> FirstReps, afterMatch |-> FALSE,
           needFlush |-> TRUE, tempBuf |-> <<>>, next |-> 1, coded |-> 0]
  BY DEF Init
<1>6. call = NoCall /\ pc = "idle" /\ asked = 0 /\ got = <<>> /\ result = "ok" /\ astray = FALSE
  BY DEF Init
<1>7. p \in Decoders(syms)
  <2>1. FirstReps \in [0 .. 3 -> 1 .. DicSize]
    BY <1>3 DEF FirstReps
  <2>2. PICK dic : dic = [i \in 0 .. DicBufSize - 1 |-> 0]
    OBVIOUS
  <2>3. dic \in [0 .. DicBufSize - 1 -> Nat]
    BY <2>2
  <2>4. <<>> \in Seq(Nat) /\ 1 \in 1 .. Len(syms) + 1
    BY <1>2
  <2>5. QED
    BY <1>3, <1>5, <2>1, <2>2, <2>3, <2>4 DEF Decoders
<1>8. DecoderTypes
  <2>1. f \in [src_curr : Nat, in_size : Nat, in_pos : Nat, unpackSize : Nat, de_len : Nat]
    BY <1>2, <1>4
  <2>2. call \in [src : Nat, outSize : Nat, finish : {"any", "end"}, made : Seq(Nat),
               dicStart : 0 .. DicBufSize, dicLimit : 0 .. DicBufSize, curFinish : {"any", "end"},
               res : {"ok", "data", "fail"},
               status : {"none", "input", "mark", "maybe finished", "not finished"},
               fed : Seq(Nat), used : Nat, bufLimit : Nat, limit2 : Nat, owed : {0, 1},
               temp : BOOLEAN, lookAhead : Nat]
    BY <1>3, <1>6 DEF NoCall
  <2>3. pc \in States /\ asked \in Nat /\ got \in Seq(Nat) /\ result \in {"ok", "error"} /\ astray \in BOOLEAN
    <3>1. pc \in States
      BY <1>6 DEF States
    <3>2. <<>> \in Seq(Nat)
      OBVIOUS
    <3>3. QED
      BY <1>6, <3>1, <3>2
  <2>4. QED
    BY <1>1, <1>7, <2>1, <2>2, <2>3 DEF DecoderTypes
<1>9. RoomOK
  BY <1>2, <1>4, <1>6 DEF RoomOK, InCall, InDic
<1>10. CountOK
  BY <1>5, <1>6 DEF CountOK, InDic, Sound, NoCall
<1>11. DeliveredOK
  BY <1>6 DEF DeliveredOK
<1>12. HistoryOK
  <2>1. Meaning(syms)[p.next - 1] = NothingYet
    BY <1>2, <1>5, MeaningDefined
  <2>2. /\ p.processedPos = 0 /\ p.remainLen = 0 /\ p.reps = FirstReps /\ ~p.afterMatch
    BY <1>5
  <2>3. Rest(p) = 0 /\ p.remainLen # SpecStart
    BY <1>3, <2>2 DEF Rest
  <2>4. Holds(p, <<>>)
    BY <1>3, <2>2 DEF Holds, LessOf
  <2>5. Repeats(<<>>, p.processedPos, p.reps[0], Rest(p))
    BY <2>3 DEF Repeats
  <2>6. \A k \in 0 .. 3 : p.reps[k] = 1
    BY <2>2 DEF FirstReps
  <2>7. QED
    BY <2>1, <2>2, <2>3, <2>4, <2>5, <2>6 DEF HistoryOK, History, NothingYet
<1>13. CheckOK
  BY <1>3, <1>5, <1>6 DEF CheckOK, Checked
<1>14. BytesOK
  BY <1>3, <1>4, <1>5, <1>6 DEF BytesOK, Place, InCall, NoCall
<1>15. QED
  BY <1>8, <1>9, <1>10, <1>11, <1>12, <1>13, <1>14 DEF DecoderInv

\* The variables that a step of the decoder may change.
LEMMA AskKeeps ==
  ASSUME DecoderInv, Ask PROVE DecoderInv'
<1>1. PICK n \in Asks : f' = [f EXCEPT !.de_len = n]
  BY DEF Ask
<1>2. /\ pc = "idle" /\ result = "ok" /\ pc' = "fill"
      /\ UNCHANGED <<stream, inbuf_size, p, call, got, result, astray>> /\ asked' \in Nat
  <2>1. \A k \in Asks : k \in Nat
    BY DecoderAssumption
  <2>2. asked \in Nat
    BY DEF DecoderInv, DecoderTypes
  <2>3. QED
    BY <2>1, <2>2 DEF Ask
<1>3. DecoderTypes
  BY DEF DecoderInv
<1>4. /\ f'.src_curr = f.src_curr /\ f'.in_size = f.in_size /\ f'.in_pos = f.in_pos
      /\ f'.unpackSize = f.unpackSize
      /\ f' \in [src_curr : Nat, in_size : Nat, in_pos : Nat, unpackSize : Nat, de_len : Nat]
  <2>1. n \in Nat
    BY DecoderAssumption
  <2>2. QED
    BY <1>1, <1>3, <2>1, TypesAre
<1>5. syms' = syms
  BY <1>2 DEF syms
<1>6. DecoderTypes'
  BY <1>2, <1>3, <1>4, <1>5, ZenonT(60) DEF DecoderTypes, States
<1>7. RoomOK'
  BY <1>2, <1>4 DEF DecoderInv, RoomOK, InCall, InDic
<1>8. CountOK'
  BY <1>2 DEF DecoderInv, CountOK, Sound, InDic
<1>9. DeliveredOK'
  BY <1>2, <1>5 DEF DecoderInv, DeliveredOK
<1>10. HistoryOK'
  BY <1>2, <1>5 DEF DecoderInv, HistoryOK
<1>11. CheckOK'
  BY <1>2 DEF DecoderInv, CheckOK
<1>12. BytesOK'
  <2>1. call.res = "ok"
    BY <1>2 DEF DecoderInv, CountOK
  <2>2. AllDone' = AllDone
    BY <1>2, <1>5 DEF AllDone
  <2>3. ~InCall /\ ~InCall' /\ Sound /\ Sound'
    BY <1>2, <2>1 DEF InCall, Sound
  <2>4. BytesOK
    BY DEF DecoderInv
  <2>5. QED
    BY <1>2, <1>4, <1>5, <2>2, <2>3, <2>4 DEF BytesOK, Place
<1>13. QED
  BY <1>6, <1>7, <1>8, <1>9, <1>10, <1>11, <1>12 DEF DecoderInv

\* A step that leaves the decoder alone.
LEMMA SamePlace ==
  ASSUME UNCHANGED <<stream, p>>
  PROVE  /\ syms' = syms /\ AllDone' = AllDone /\ HistoryOK' = HistoryOK
<1>1. syms' = syms
  BY DEF syms
<1>2. QED
  BY <1>1 DEF AllDone, HistoryOK

LEMMA FillKeeps ==
  ASSUME DecoderInv, Fill PROVE DecoderInv'
<1> DEFINE out == LessOf(OutBuf, f.de_len)
<1>1. /\ pc = "fill" /\ pc' = "buf" /\ UNCHANGED <<stream, inbuf_size, p, asked, got, result, astray>>
  BY DEF Fill
<1>2. DecoderTypes /\ RoomOK
  BY DEF DecoderInv
<1>3. /\ f.src_curr \in Nat /\ f.in_size \in Nat /\ f.in_pos \in Nat /\ f.unpackSize \in Nat
      /\ f.de_len \in Nat /\ inbuf_size \in Nat \ {0}
  BY <1>2, TypesAre
<1>4. stream \in Streams /\ stream.area \in Nat /\ stream.unpack \in Nat
  <2>1. stream \in Streams
    BY <1>2 DEF DecoderTypes
  <2>2. QED
    BY <2>1, StreamIs
<1>5. Refill \in Nat /\ f.src_curr + Refill <= stream.area
  <2>1. stream.area - f.src_curr \in Nat
    BY <1>2, <1>3, <1>4 DEF RoomOK
  <2>2. QED
    BY <1>3, <1>4, <2>1 DEF Refill, LessOf
<1>6. PICK r : r = Refill
  OBVIOUS
<1>7. f' = IF f.in_pos = f.in_size THEN [f EXCEPT !.in_size = r, !.src_curr = @ + r, !.in_pos = 0] ELSE f
  BY <1>6 DEF Fill
<1>8. f.in_pos <= f.in_size /\ f.in_size <= f.src_curr /\ f.src_curr <= stream.area
      /\ f.unpackSize + Len(got) = stream.unpack
  BY <1>2 DEF RoomOK
<1>9. /\ f' \in [src_curr : Nat, in_size : Nat, in_pos : Nat, unpackSize : Nat, de_len : Nat]
      /\ f'.in_pos \in Nat /\ f'.in_pos <= f'.in_size /\ f'.in_size <= f'.src_curr /\ f'.src_curr <= stream.area
      /\ f'.unpackSize = f.unpackSize /\ f'.de_len = f.de_len
      /\ f'.src_curr - f'.in_size + f'.in_pos = f.src_curr - f.in_size + f.in_pos
  <2>1. r \in Nat /\ f.src_curr + r <= stream.area
    BY <1>5, <1>6
  <2>2. f = [src_curr |-> f.src_curr, in_size |-> f.in_size, in_pos |-> f.in_pos,
             unpackSize |-> f.unpackSize, de_len |-> f.de_len]
    BY <1>2, TypesAre
  <2>3. CASE f.in_pos = f.in_size
    <3>1. f' = [src_curr |-> f.src_curr + r, in_size |-> r, in_pos |-> 0,
                unpackSize |-> f.unpackSize, de_len |-> f.de_len]
      BY <1>7, <2>2, <2>3
    <3>2. QED
      BY <1>3, <1>8, <2>1, <2>3, <3>1
  <2>4. CASE f.in_pos # f.in_size
    BY <1>2, <1>3, <1>7, <1>8, <2>4 DEF DecoderTypes
  <2>5. QED
    BY <2>3, <2>4
<1>10. PICK o : o = LessOf(out, f.unpackSize)
  OBVIOUS
<1>11. /\ o \in Nat /\ o <= f.de_len /\ o <= f.unpackSize /\ (out > f.unpackSize => o = f.unpackSize)
  BY <1>3, <1>10, Sizes DEF LessOf
<1>12. call' = [NoCall EXCEPT !.outSize = o, !.finish = IF out > f.unpackSize THEN "end" ELSE "any",
                              !.src = f'.in_pos]
  BY <1>10 DEF Fill
<1>13. PICK fin \in {"any", "end"} : fin = IF out > f.unpackSize THEN "end" ELSE "any"
  OBVIOUS
<1>14. call' = [src |-> f'.in_pos, outSize |-> o, finish |-> fin, made |-> <<>>,
                dicStart |-> 0, dicLimit |-> 0, curFinish |-> "any", res |-> "ok", status |-> "none",
                fed |-> <<>>, used |-> 0, bufLimit |-> 0, limit2 |-> 0, owed |-> 0,
                temp |-> FALSE, lookAhead |-> 0]
  BY <1>12, <1>13 DEF NoCall
<1>15. <<>> \in Seq(Nat) /\ Len(<<>>) = 0
  OBVIOUS
<1>16. syms' = syms /\ AllDone' = AllDone
  BY <1>1, SamePlace
<1>17. DecoderTypes'
  <2>1. DicBufSize \in Nat
    BY Sizes
  <2>2. call' \in [src : Nat, outSize : Nat, finish : {"any", "end"}, made : Seq(Nat),
               dicStart : 0 .. DicBufSize, dicLimit : 0 .. DicBufSize, curFinish : {"any", "end"},
               res : {"ok", "data", "fail"},
               status : {"none", "input", "mark", "maybe finished", "not finished"},
               fed : Seq(Nat), used : Nat, bufLimit : Nat, limit2 : Nat, owed : {0, 1},
               temp : BOOLEAN, lookAhead : Nat]
    BY <1>9, <1>11, <1>14, <1>15, <2>1
  <2>3. QED
    BY <1>1, <1>2, <1>9, <1>16, <2>2 DEF DecoderTypes, States
<1>18. RoomOK'
  <2>1. o <= f'.de_len /\ o <= f'.unpackSize /\ (fin = "end" => o = f'.unpackSize)
    BY <1>9, <1>11, <1>13
  <2>2. 0 + o = o
    BY <1>11
  <2>3. /\ call'.src = f'.in_pos /\ Len(call'.made) + call'.outSize = o /\ call'.finish = fin
    BY <1>14, <1>15, <2>2
  <2>4. f'.unpackSize + Len(got') = stream'.unpack /\ stream' = stream
    BY <1>1, <1>8, <1>9
  <2>5. f'.in_pos <= f'.in_pos
    BY <1>9
  <2>6. QED
    BY <1>1, <1>9, <2>1, <2>3, <2>4, <2>5 DEF RoomOK, InCall, InDic
<1>19. CountOK'
  <2>1. CountOK
    BY DEF DecoderInv
  <2>2. result = "ok" /\ p.processedPos = Len(got)
    BY <1>1, <2>1 DEF CountOK, Sound
  <2>3. call'.res = "ok" /\ Len(call'.made) = 0
    BY <1>14, <1>15
  <2>4. Len(got) + 0 = Len(got)
    BY <1>2, TypesAre
  <2>5. QED
    BY <1>1, <2>2, <2>3, <2>4 DEF CountOK, Sound, InDic
<1>20. DeliveredOK'
  <2>1. Len(call'.made) = 0
    BY <1>14, <1>15
  <2>2. QED
    BY <1>1, <1>16, <2>1 DEF DecoderInv, DeliveredOK
<1>21. HistoryOK'
  BY <1>1, SamePlace DEF DecoderInv
<1>22. CheckOK'
  BY <1>1 DEF DecoderInv, CheckOK
<1>23. BytesOK'
  <2>1. CountOK /\ BytesOK
    BY DEF DecoderInv
  <2>2. Sound /\ ~InCall /\ InCall'
    BY <1>1, <2>1 DEF CountOK, InCall
  <2>3. call'.src = f'.in_pos /\ call'.res = "ok"
    BY <1>14
  <2>4. Place(call.src)' = Place(f.in_pos)
    BY <1>9, <2>3 DEF Place
  <2>5. QED
    BY <1>1, <1>16, <2>1, <2>2, <2>3, <2>4 DEF BytesOK
<1>24. QED
  BY <1>17, <1>18, <1>19, <1>20, <1>21, <1>22, <1>23 DEF DecoderInv

\* How far the stream has been read when no symbol is being decoded.
Here == Place(IF InCall THEN call.src ELSE f.in_pos)

LEMMA BytesStay ==
  ASSUME BytesOK, UNCHANGED <<stream, astray>>, call'.res # "fail",
         p'.next = p.next, p'.coded = p.coded, p'.needFlush = p.needFlush, p'.tempBuf = p.tempBuf,
         pc \notin {"real", "real2", "error"}, Sound, pc' \notin {"real", "real2"}, Here' = Here
  PROVE  BytesOK'
<1>1. syms' = syms
  BY DEF syms
<1>2. AllDone' = AllDone
  BY <1>1 DEF AllDone
<1>3. QED
  BY <1>1, <1>2 DEF BytesOK, Here

\* The dictionary goes on at its beginning.
LEMMA WrapsAround ==
  ASSUME NEW s \in Seq(Format), NEW d \in Decoders(s), History(s, d), Checked(d), NEW start,
         start = IF d.dicPos = DicBufSize THEN 0 ELSE d.dicPos,
         NEW e, e = [d EXCEPT !.dicPos = start]
  PROVE  /\ e \in Decoders(s) /\ History(s, e) /\ Checked(e)
         /\ e.dicPos = start /\ e.processedPos = d.processedPos /\ e.next = d.next
         /\ e.coded = d.coded /\ e.needFlush = d.needFlush /\ e.tempBuf = d.tempBuf
         /\ e.remainLen = d.remainLen
<1>1. /\ d.dic \in [0 .. DicBufSize - 1 -> Nat] /\ d.dicPos \in 0 .. DicBufSize /\ d.processedPos \in Nat
  BY DEF Decoders
<1>2. DicBufSize \in Nat \ {0}
  BY Sizes
<1>3. start \in 0 .. DicBufSize
  BY <1>1, <1>2
<1>4. /\ e.dic = d.dic /\ e.dicPos = start /\ e.processedPos = d.processedPos /\ e.next = d.next
      /\ e.checkDicSize = d.checkDicSize /\ e.reps = d.reps /\ e.afterMatch = d.afterMatch
      /\ e.coded = d.coded /\ e.needFlush = d.needFlush /\ e.tempBuf = d.tempBuf
      /\ e.remainLen = d.remainLen /\ e \in Decoders(s)
  BY <1>3 DEF Decoders
<1>5. ASSUME NEW j \in 1 .. LessOf(d.processedPos, DicBufSize) PROVE At(e, j) = At(d, j)
  <2>1. j \in Nat /\ 1 <= j /\ j <= DicBufSize
    BY <1>1, <1>2 DEF LessOf
  <2>2. CASE d.dicPos = DicBufSize
    <3>1. At(d, j) = d.dic[DicBufSize - j]
      <4>1. DicBufSize - j + 0 = DicBufSize - j /\ ~(DicBufSize < j)
        BY <1>2, <2>1
      <4>2. QED
        BY <2>2, <4>1 DEF At
    <3>2. At(e, j) = d.dic[DicBufSize - j]
      <4>1. 0 - j + DicBufSize = DicBufSize - j /\ 0 < j
        BY <1>2, <2>1
      <4>2. QED
        BY <1>4, <2>2, <4>1 DEF At
    <3>3. QED
      BY <3>1, <3>2
  <2>3. CASE d.dicPos # DicBufSize
    BY <1>4, <2>3 DEF At
  <2>4. QED
    BY <2>2, <2>3
<1>6. Rest(e) = Rest(d)
  BY <1>4 DEF Rest
<1>7. ASSUME NEW text, Holds(d, text) PROVE Holds(e, text)
  BY <1>4, <1>5, <1>7 DEF Holds
<1>8. History(s, e)
  BY <1>4, <1>6, <1>7 DEF History
<1>9. Checked(e)
  BY <1>4 DEF Checked
<1>10. QED
  BY <1>4, <1>8, <1>9

LEMMA ToBufKeeps ==
  ASSUME DecoderInv, ToBuf PROVE DecoderInv'
<1>1. /\ pc = "buf" /\ pc' = "dic" /\ UNCHANGED <<stream, inbuf_size, f, asked, got, result, astray>>
      /\ syms' = syms
  BY DEF ToBuf, syms
<1>2. DecoderTypes /\ RoomOK /\ CountOK /\ HistoryOK /\ CheckOK /\ BytesOK
  BY DEF DecoderInv
<1>3. /\ p \in Decoders(syms) /\ syms \in Seq(Format) /\ p.dicPos \in 0 .. DicBufSize
      /\ p.processedPos \in Nat
  BY <1>2, DecoderIs
<1>4. /\ call.outSize \in Nat /\ Len(call.made) \in Nat /\ Len(got) \in Nat /\ DicBufSize \in Nat
      /\ call.finish \in {"any", "end"} /\ f.de_len \in Nat /\ f.unpackSize \in Nat
  BY <1>2, Sizes, TypesAre
<1>5. PICK start : start = IF p.dicPos = DicBufSize THEN 0 ELSE p.dicPos
  OBVIOUS
<1>6. PICK far \in BOOLEAN : far <=> call.outSize > DicBufSize - start
  <2>1. (call.outSize > DicBufSize - start) \in BOOLEAN
    OBVIOUS
  <2>2. QED
    BY <2>1
<1>7. PICK limit : limit = IF far THEN DicBufSize ELSE start + call.outSize
  OBVIOUS
<1>8. PICK fin \in {"any", "end"} : fin = IF far THEN "any" ELSE call.finish
  BY <1>4
<1>9. PICK q : q = [p EXCEPT !.dicPos = start]
  OBVIOUS
<1>10. start \in 0 .. DicBufSize /\ start \in Nat
  BY <1>3, <1>4, <1>5
<1>11. /\ limit \in 0 .. DicBufSize /\ limit \in Nat /\ start <= limit /\ limit - start <= call.outSize
       /\ (fin = "end" => call.finish = "end" /\ limit - start = call.outSize)
  BY <1>4, <1>6, <1>7, <1>8, <1>10
<1>12. call' = [call EXCEPT !.dicStart = start, !.dicLimit = limit, !.curFinish = fin]
  BY <1>5, <1>6, <1>7, <1>8 DEF ToBuf
<1>13. p' = WriteRem(q, limit)
  BY <1>5, <1>6, <1>7, <1>9 DEF ToBuf
<1>14. History(syms, p) /\ Checked(p)
  BY <1>1, <1>2 DEF HistoryOK, CheckOK
<1>15. /\ q \in Decoders(syms) /\ History(syms, q) /\ Checked(q)
       /\ q.dicPos = start /\ q.processedPos = p.processedPos /\ q.next = p.next
       /\ q.coded = p.coded /\ q.needFlush = p.needFlush /\ q.tempBuf = p.tempBuf
  BY <1>3, <1>5, <1>9, <1>14, WrapsAround
<1>16. /\ p' \in Decoders(syms) /\ History(syms, p') /\ Checked(p')
       /\ start <= p'.dicPos /\ p'.dicPos <= limit
       /\ p'.processedPos = p.processedPos + (p'.dicPos - start)
       /\ p'.remainLen \in {0, SpecStart} \/ p'.dicPos = limit
       /\ p'.next = p.next /\ p'.coded = p.coded /\ p'.needFlush = p.needFlush /\ p'.tempBuf = p.tempBuf
  <2>1. q.dicPos <= limit /\ limit <= DicBufSize
    BY <1>4, <1>11, <1>15
  <2>2. QED
    BY <1>3, <1>11, <1>13, <1>15, <2>1, RemWritten
<1>17. /\ call'.src = call.src /\ call'.outSize = call.outSize /\ call'.finish = call.finish
       /\ call'.made = call.made /\ call'.dicStart = start /\ call'.dicLimit = limit
       /\ call'.curFinish = fin /\ call'.res = call.res
  BY <1>2, <1>12 DEF DecoderTypes
<1>18. DecoderTypes'
  <2>1. call' \in [src : Nat, outSize : Nat, finish : {"any", "end"}, made : Seq(Nat),
               dicStart : 0 .. DicBufSize, dicLimit : 0 .. DicBufSize, curFinish : {"any", "end"},
               res : {"ok", "data", "fail"},
               status : {"none", "input", "mark", "maybe finished", "not finished"},
               fed : Seq(Nat), used : Nat, bufLimit : Nat, limit2 : Nat, owed : {0, 1},
               temp : BOOLEAN, lookAhead : Nat]
    BY <1>2, <1>10, <1>11, <1>12 DEF DecoderTypes
  <2>2. QED
    BY <1>1, <1>2, <1>16, <2>1 DEF DecoderTypes, States
<1>19. InCall /\ InCall' /\ ~InDic /\ InDic' /\ Sound /\ Sound'
  BY <1>1, <1>2, <1>17 DEF InCall, InDic, CountOK, Sound
<1>20. RoomOK'
  BY <1>1, <1>2, <1>11, <1>16, <1>17, <1>19 DEF RoomOK
<1>21. CountOK'
  <2>1. p.processedPos = Len(got) + Len(call.made)
    BY <1>1, <1>2 DEF CountOK
  <2>2. p'.processedPos = Len(got) + Len(call.made) + (p'.dicPos - start)
    BY <1>16, <2>1
  <2>3. QED
    BY <1>1, <1>17, <1>19, <2>2 DEF CountOK
<1>22. DeliveredOK'
  BY <1>1, <1>17 DEF DecoderInv, DeliveredOK
<1>23. HistoryOK'
  BY <1>1, <1>16 DEF HistoryOK
<1>24. CheckOK'
  <2>1. Checked(p') /\ (p'.remainLen # SpecStart => p'.remainLen = 0 \/ p'.dicPos = call'.dicLimit)
    BY <1>16, <1>17
  <2>2. QED
    BY <1>1, <2>1 DEF CheckOK, Checked
<1>25. BytesOK'
  <2>1. Here' = Here
    BY <1>1, <1>17, <1>19 DEF Here, Place
  <2>2. call'.res # "fail"
    BY <1>19 DEF Sound
  <2>3. QED
    BY <1>1, <1>2, <1>16, <1>19, <2>1, <2>2, BytesStay
<1>26. QED
  BY <1>18, <1>20, <1>21, <1>22, <1>23, <1>24, <1>25 DEF DecoderInv

LEMMA Joined ==
  ASSUME NEW s \in Seq(Nat), NEW t \in Seq(Nat), NEW r, r = s \o t
  PROVE  /\ r \in Seq(Nat) /\ Len(r) = Len(s) + Len(t)
         /\ \A i \in 1 .. Len(s) : r[i] = s[i]
         /\ \A i \in 1 .. Len(t) : r[Len(s) + i] = t[i]
OBVIOUS

LEMMA FromDicKeeps ==
  ASSUME DecoderInv, FromDic PROVE DecoderInv'
<1>1. /\ pc = "fromDic" /\ UNCHANGED <<stream, inbuf_size, f, p, asked, got, result, astray>>
      /\ syms' = syms
  BY DEF FromDic, syms
<1>2. DecoderTypes /\ RoomOK /\ CountOK /\ DeliveredOK /\ HistoryOK /\ CheckOK /\ BytesOK
  BY DEF DecoderInv
<1>3. /\ p \in Decoders(syms) /\ syms \in Seq(Format) /\ p.dicPos \in 0 .. DicBufSize /\ p.dicPos \in Nat
      /\ p.processedPos \in Nat /\ p.dic \in [0 .. DicBufSize - 1 -> Nat]
  BY <1>2, DecoderIs
<1>4. /\ call.outSize \in Nat /\ Len(call.made) \in Nat /\ Len(got) \in Nat /\ DicBufSize \in Nat
      /\ call.dicStart \in 0 .. DicBufSize /\ call.dicLimit \in 0 .. DicBufSize /\ call.made \in Seq(Nat)
      /\ f.de_len \in Nat /\ f.unpackSize \in Nat
  BY <1>2, Sizes, TypesAre
<1>5. /\ call.dicStart <= p.dicPos /\ p.dicPos <= call.dicLimit
      /\ call.dicLimit - call.dicStart <= call.outSize
      /\ InCall /\ InDic
  BY <1>1, <1>2 DEF RoomOK, InDic, InCall
<1>6. PICK n : n = p.dicPos - call.dicStart
  OBVIOUS
<1>6a. PICK D, S, G, M, O, P : /\ D = p.dicPos /\ S = call.dicStart /\ G = Len(got) /\ M = Len(call.made)
                              /\ O = call.outSize /\ P = p.processedPos
  OBVIOUS
<1>6b. /\ D \in Nat /\ D <= DicBufSize /\ S \in Nat /\ G \in Nat /\ M \in Nat /\ O \in Nat /\ P \in Nat
       /\ DicBufSize \in Nat
  BY <1>3, <1>4, <1>6a
<1>7. n \in Nat /\ n <= O /\ D = S + n /\ n <= D
  <2>1. S <= D /\ D <= call.dicLimit /\ call.dicLimit - S <= O /\ call.dicLimit \in Int /\ n = D - S
    BY <1>4, <1>5, <1>6, <1>6a
  <2>2. QED
    BY <1>6b, <2>1
<1>8. PICK bytes : bytes = [i \in 1 .. n |-> p.dic[call.dicStart + i - 1]]
  OBVIOUS
<1>9. bytes \in Seq(Nat) /\ Len(bytes) = n /\ \A i \in 1 .. n : bytes[i] = p.dic[call.dicStart + i - 1]
  <2>1. ASSUME NEW i \in 1 .. n PROVE p.dic[call.dicStart + i - 1] \in Nat
    <3>1. S + i - 1 \in 0 .. DicBufSize - 1
      BY <1>6b, <1>7
    <3>2. QED
      BY <1>3, <1>6a, <3>1
  <2>2. bytes \in [1 .. n -> Nat]
    BY <1>8, <2>1
  <2>3. QED
    BY <1>7, <1>8, <2>2, FunSeq
<1>10. PICK made : made = call.made \o bytes
  OBVIOUS
<1>11. /\ made \in Seq(Nat) /\ Len(made) = Len(call.made) + n
       /\ \A i \in 1 .. Len(call.made) : made[i] = call.made[i]
       /\ \A i \in 1 .. n : made[Len(call.made) + i] = bytes[i]
  <2>1. bytes \in Seq(Nat) /\ Len(bytes) = n
    BY <1>9
  <2>2. call.made \in Seq(Nat)
    BY <1>4
  <2>3. /\ made \in Seq(Nat) /\ Len(made) = Len(call.made) + Len(bytes)
        /\ \A i \in 1 .. Len(call.made) : made[i] = call.made[i]
        /\ \A i \in 1 .. Len(bytes) : made[Len(call.made) + i] = bytes[i]
    <3>1. PICK m, b : m = call.made /\ b = bytes
      OBVIOUS
    <3>2. m \in Seq(Nat) /\ b \in Seq(Nat) /\ made = m \o b
      BY <1>10, <2>1, <2>2, <3>1
    <3>3. /\ made \in Seq(Nat) /\ Len(made) = Len(m) + Len(b)
          /\ \A i \in 1 .. Len(m) : made[i] = m[i]
          /\ \A i \in 1 .. Len(b) : made[Len(m) + i] = b[i]
      BY <3>2, Joined
    <3>4. QED
      BY <3>1, <3>3
  <2>4. QED
    BY <2>1, <2>3
<1>12. call' = [call EXCEPT !.made = made, !.outSize = @ - n]
  BY <1>6, <1>8, <1>10 DEF FromDic
<1>13. pc' \in {"error", "made", "buf"} /\ (pc' # "error" => call.res = "ok")
  BY DEF FromDic
<1>14. call.outSize - n \in Nat
  BY <1>6a, <1>6b, <1>7
<1>15. /\ call'.src = call.src /\ call'.outSize = call.outSize - n /\ call'.finish = call.finish
       /\ call'.made = made /\ call'.res = call.res
  BY <1>2, <1>12 DEF DecoderTypes
<1>16. DecoderTypes'
  <2>1. call' \in [src : Nat, outSize : Nat, finish : {"any", "end"}, made : Seq(Nat),
               dicStart : 0 .. DicBufSize, dicLimit : 0 .. DicBufSize, curFinish : {"any", "end"},
               res : {"ok", "data", "fail"},
               status : {"none", "input", "mark", "maybe finished", "not finished"},
               fed : Seq(Nat), used : Nat, bufLimit : Nat, limit2 : Nat, owed : {0, 1},
               temp : BOOLEAN, lookAhead : Nat]
    BY <1>2, <1>11, <1>12, <1>14 DEF DecoderTypes
  <2>2. pc' \in States
    BY <1>13 DEF States
  <2>3. QED
    BY <1>1, <1>2, <2>1, <2>2 DEF DecoderTypes
<1>17. RoomOK'
  <2>1. Len(made) + (call.outSize - n) = Len(call.made) + call.outSize
    <3>1. (M + n) + (O - n) = M + O
      BY <1>6b, <1>7
    <3>2. QED
      BY <1>6a, <1>11, <3>1
  <2>2. InCall' /\ ~InDic'
    BY <1>13 DEF InCall, InDic
  <2>3. QED
    BY <1>1, <1>2, <1>5, <1>15, <2>1, <2>2 DEF RoomOK
<1>18. p.processedPos = Len(got) + Len(call.made) + n /\ P = G + M + n
  BY <1>2, <1>5, <1>6, <1>6a DEF CountOK
<1>19. CountOK'
  <2>1. p.processedPos = Len(got) + Len(made)
    <3>1. G + M + n = G + (M + n)
      BY <1>6b, <1>7
    <3>2. QED
      BY <1>6a, <1>11, <1>18, <3>1
  <2>2. result = "ok"
    BY <1>1, <1>2 DEF CountOK
  <2>3. ~InDic' /\ pc' \notin {"idle", "fill"}
    BY <1>13 DEF InDic
  <2>4. QED
    BY <1>1, <1>13, <1>15, <2>1, <2>2, <2>3 DEF CountOK, Sound
<1>20. PICK known : known = Meaning(syms)[p.next - 1].text
  OBVIOUS
<1>21. /\ known \in Seq(Nat) /\ Len(known) = p.processedPos + Rest(p) /\ Holds(p, known)
       /\ Begins(known, Text(syms)) /\ Rest(p) \in Nat
  <2>1. p.next - 1 \in 0 .. Len(syms) /\ Len(syms) \in Nat
    BY <1>3, KnownIs
  <2>2. Begins(known, Text(syms))
    BY <1>3, <1>20, <2>1, Grows DEF Text
  <2>3. Rest(p) \in Nat
    BY <1>2, DecoderIs, SpecIs DEF Rest
  <2>4. QED
    BY <1>2, <1>3, <1>20, <2>2, <2>3, KnownIs DEF HistoryOK, History
<1>22. ASSUME NEW i \in 1 .. n PROVE bytes[i] = Text(syms)[Len(got) + Len(call.made) + i]
  <2>1. PICK j : j = n - i + 1
    OBVIOUS
  <2>2. /\ j \in 1 .. n /\ D - j + 0 = S + i - 1 /\ ~(D < j) /\ P + 1 - j = G + M + i
        /\ 1 <= j /\ j <= P /\ j <= DicBufSize /\ j \in Int
    BY <1>6b, <1>7, <1>18, <2>1
  <2>3. At(p, j) = bytes[i]
    BY <1>6a, <1>9, <2>2 DEF At
  <2>4. j \in 1 .. LessOf(P, DicBufSize)
    BY <1>6b, <2>2, LessIs
  <2>5. At(p, j) = known[G + M + i]
    BY <1>6a, <1>21, <2>2, <2>4 DEF Holds
  <2>6. G + M + i \in 1 .. Len(known)
    <3>1. Len(known) = P + Rest(p) /\ Rest(p) \in Nat
      BY <1>6a, <1>21
    <3>2. QED
      BY <1>6b, <1>7, <1>18, <3>1
  <2>7. QED
    BY <1>6a, <1>21, <2>3, <2>5, <2>6 DEF Begins
<1>23. DeliveredOK'
  <2>1. ASSUME NEW i \in 1 .. Len(made) PROVE made[i] = Text(syms)[Len(got) + i]
    <3>1. CASE i <= Len(call.made)
      <4>1. i \in 1 .. Len(call.made)
        BY <1>4, <3>1
      <4>2. pc \notin {"idle", "fill", "error"}
        BY <1>1
      <4>3. call.made[i] = Text(syms)[Len(got) + i]
        BY <1>2, <4>1, <4>2 DEF DeliveredOK
      <4>4. QED
        BY <1>11, <4>1, <4>3
    <3>2. CASE i > Len(call.made)
      <4>1. PICK k : k = i - Len(call.made)
        OBVIOUS
      <4>2. k \in 1 .. n /\ Len(call.made) + k = i /\ Len(got) + Len(call.made) + k = Len(got) + i
        <5>1. i \in 1 .. M + n /\ i > M /\ k = i - M
          BY <1>6a, <1>11, <3>2, <4>1
        <5>2. k \in 1 .. n /\ M + k = i /\ G + M + k = G + i
          BY <1>6b, <1>7, <5>1
        <5>3. QED
          BY <1>6a, <5>2
      <4>3. QED
        BY <1>11, <1>22, <4>2
    <3>3. QED
      BY <1>4, <3>1, <3>2
  <2>2. QED
    BY <1>1, <1>2, <1>15, <2>1 DEF DeliveredOK
<1>24. HistoryOK'
  BY <1>1, <1>2, SamePlace
<1>25. CheckOK'
  BY <1>1, <1>2, <1>13 DEF CheckOK
<1>26. BytesOK'
  <2>1. CASE pc' = "error"
    BY <1>1, <1>2, <1>15, <2>1 DEF BytesOK
  <2>2. CASE pc' # "error"
    <3>1. Here' = Here
      BY <1>1, <1>5, <1>13, <1>15 DEF Here, Place, InCall
    <3>2. Sound
      BY <1>1, <1>2, <1>13, <2>2 DEF Sound, CountOK
    <3>3. call'.res # "fail"
      BY <1>15, <3>2 DEF Sound
    <3>4. QED
      BY <1>1, <1>2, <1>13, <3>1, <3>2, <3>3, BytesStay
  <2>3. QED
    BY <2>1, <2>2
<1>27. QED
  BY <1>16, <1>17, <1>19, <1>23, <1>24, <1>25, <1>26 DEF DecoderInv

LEMMA MadeKeeps ==
  ASSUME DecoderInv, Made PROVE DecoderInv'
<1>1. /\ pc = "made" /\ UNCHANGED <<stream, inbuf_size, p, call, asked, astray>>
      /\ syms' = syms
  BY DEF Made, syms
<1>2. DecoderTypes /\ RoomOK /\ CountOK /\ DeliveredOK /\ HistoryOK /\ CheckOK /\ BytesOK
  BY DEF DecoderInv
<1>3. /\ f = [src_curr |-> f.src_curr, in_size |-> f.in_size, in_pos |-> f.in_pos,
              unpackSize |-> f.unpackSize, de_len |-> f.de_len]
      /\ f.src_curr \in Nat /\ f.in_size \in Nat /\ f.in_pos \in Nat /\ f.unpackSize \in Nat
      /\ f.de_len \in Nat /\ call.src \in Nat /\ Len(call.made) \in Nat /\ Len(got) \in Nat
      /\ call.outSize \in Nat /\ call.made \in Seq(Nat) /\ got \in Seq(Nat)
  BY <1>2, TypesAre
<1>4. PICK n : n = Len(call.made)
  OBVIOUS
<1>5. f' = [src_curr |-> f.src_curr, in_size |-> f.in_size, in_pos |-> call.src,
            unpackSize |-> f.unpackSize - n, de_len |-> f.de_len - n]
  <2>1. f' = [f EXCEPT !.de_len = @ - n, !.unpackSize = @ - n, !.in_pos = call.src]
    BY <1>4 DEF Made
  <2>2. QED
    BY <1>3, <2>1
<1>6. InCall /\ ~InDic /\ Sound
  BY <1>1, <1>2 DEF InCall, InDic, CountOK
<1>7. n \in Nat /\ n <= f.unpackSize /\ n <= f.de_len /\ f.in_pos <= call.src /\ call.src <= f.in_size
  BY <1>2, <1>3, <1>4, <1>6 DEF RoomOK
<1>8. PICK g : g = got \o call.made
  OBVIOUS
<1>9. /\ got' = g /\ g \in Seq(Nat) /\ Len(g) = Len(got) + n
      /\ \A i \in 1 .. Len(got) : g[i] = got[i]
      /\ \A i \in 1 .. n : g[Len(got) + i] = call.made[i]
  <2>1. got' = g
    BY <1>8 DEF Made
  <2>2. got \in Seq(Nat) /\ call.made \in Seq(Nat)
    BY <1>3
  <2>3. QED
    BY <1>4, <1>8, <2>1, <2>2, Joined
<1>10. pc' \in {"idle", "fill"} /\ result' \in {"ok", "error"} /\ (pc' = "fill" => result' = result)
  <2>1. result \in {"ok", "error"}
    BY <1>2 DEF DecoderTypes
  <2>2. QED
    BY <2>1 DEF Made
<1>11. ~InCall' /\ ~InDic'
  BY <1>10 DEF InCall, InDic
<1>12. DecoderTypes'
  <2>1. f' \in [src_curr : Nat, in_size : Nat, in_pos : Nat, unpackSize : Nat, de_len : Nat]
    BY <1>3, <1>5, <1>7
  <2>2. pc' \in States
    BY <1>10 DEF States
  <2>3. QED
    BY <1>1, <1>2, <1>9, <1>10, <2>1, <2>2, ZenonT(60) DEF DecoderTypes
<1>13. RoomOK'
  <2>1. /\ f'.in_pos = call.src /\ f'.in_size = f.in_size /\ f'.src_curr = f.src_curr
        /\ f'.unpackSize = f.unpackSize - n
    BY <1>5
  <2>2. (f.unpackSize - n) + (Len(got) + n) = f.unpackSize + Len(got)
    BY <1>3, <1>7
  <2>3. Len(got') = Len(got) + n
    BY <1>9
  <2>4. QED
    BY <1>1, <1>2, <1>7, <1>11, <2>1, <2>2, <2>3 DEF RoomOK
<1>14. CountOK'
  <2>1. p.processedPos = Len(g)
    BY <1>1, <1>2, <1>4, <1>9 DEF CountOK
  <2>2. result = "ok" /\ call.res = "ok"
    BY <1>6 DEF Sound
  <2>3. QED
    BY <1>1, <1>9, <1>10, <1>11, <2>1, <2>2 DEF CountOK, Sound
<1>15. DeliveredOK'
  <2>1. ASSUME NEW i \in 1 .. Len(g) PROVE g[i] = Text(syms)[i]
    <3>1. CASE i <= Len(got)
      <4>1. i \in 1 .. Len(got)
        BY <1>3, <3>1
      <4>2. got[i] = Text(syms)[i]
        BY <1>2, <4>1 DEF DeliveredOK
      <4>3. QED
        BY <1>9, <4>1, <4>2
    <3>2. CASE i > Len(got)
      <4>1. PICK k : k = i - Len(got)
        OBVIOUS
      <4>2. k \in 1 .. n /\ Len(got) + k = i
        <5>1. Len(got) \in Nat /\ n \in Nat /\ i \in 1 .. Len(got) + n /\ i > Len(got) /\ k = i - Len(got)
          BY <1>3, <1>7, <1>9, <3>2, <4>1
        <5>2. QED
          BY <5>1
      <4>3. pc \notin {"idle", "fill", "error"}
        BY <1>1
      <4>4. call.made[k] = Text(syms)[Len(got) + k]
        BY <1>2, <1>4, <4>2, <4>3 DEF DeliveredOK
      <4>5. QED
        BY <1>9, <4>2, <4>4
    <3>3. QED
      BY <1>3, <3>1, <3>2
  <2>2. QED
    BY <1>1, <1>9, <1>10, <2>1 DEF DeliveredOK
<1>16. HistoryOK'
  BY <1>1, <1>2, SamePlace
<1>17. CheckOK'
  BY <1>1, <1>2, <1>10 DEF CheckOK
<1>18. BytesOK'
  <2>1. Here' = Here
    BY <1>1, <1>5, <1>6, <1>11 DEF Here, Place
  <2>2. call'.res # "fail"
    BY <1>1, <1>6 DEF Sound
  <2>3. QED
    BY <1>1, <1>2, <1>6, <1>10, <2>1, <2>2, BytesStay
<1>19. QED
  BY <1>12, <1>13, <1>14, <1>15, <1>16, <1>17, <1>18 DEF DecoderInv

LEMMA ErrorKeeps ==
  ASSUME DecoderInv, Error PROVE DecoderInv'
<1>1. /\ pc = "error" /\ pc' = "idle" /\ result' = "error"
      /\ UNCHANGED <<stream, inbuf_size, f, p, call, asked, got, astray>> /\ syms' = syms
  BY DEF Error, syms
<1>2. DecoderTypes /\ RoomOK /\ CountOK /\ DeliveredOK /\ HistoryOK /\ CheckOK /\ BytesOK
  BY DEF DecoderInv
<1>3. ~InCall' /\ ~InDic' /\ ~Sound'
  BY <1>1 DEF InCall, InDic, Sound
<1>4. DecoderTypes'
  BY <1>1, <1>2, ZenonT(60) DEF DecoderTypes, States
<1>5. RoomOK'
  BY <1>1, <1>2, <1>3 DEF RoomOK
<1>6. CountOK'
  BY <1>1, <1>3 DEF CountOK
<1>7. DeliveredOK'
  BY <1>1, <1>2 DEF DeliveredOK
<1>8. HistoryOK'
  BY <1>1, <1>2, SamePlace
<1>9. CheckOK'
  BY <1>1, <1>2 DEF CheckOK
<1>10. BytesOK'
  BY <1>1, <1>2, <1>3 DEF BytesOK
<1>11. QED
  BY <1>4, <1>5, <1>6, <1>7, <1>8, <1>9, <1>10 DEF DecoderInv

\* Where the history of a decoder is kept.
SameText(e, d) ==
  /\ e.dic = d.dic /\ e.dicPos = d.dicPos /\ e.processedPos = d.processedPos
  /\ e.checkDicSize = d.checkDicSize /\ e.remainLen = d.remainLen /\ e.reps = d.reps
  /\ e.afterMatch = d.afterMatch /\ e.next = d.next

LEMMA SameHistory ==
  ASSUME NEW s, NEW d, NEW e, SameText(e, d)
  PROVE  /\ History(s, d) => History(s, e)
         /\ Checked(d) => Checked(e)
<1>1. Rest(e) = Rest(d)
  BY DEF SameText, Rest
<1>2. ASSUME NEW text PROVE Holds(d, text) => Holds(e, text)
  BY DEF SameText, Holds, At
<1>3. PICK text : text = Meaning(s)[d.next - 1].text
  OBVIOUS
<1>4. History(s, d) => History(s, e)
  BY <1>1, <1>2 DEF SameText, History
<1>5. QED
  BY <1>4 DEF SameText, Checked

\* LzmaDec_sm_DecodeToDic returns; what is left to show is about the bytes.
LEMMA ReturnKeeps ==
  ASSUME DecoderInv, pc \in {"dic", "real"}, NEW res \in {"ok", "data"}, NEW status \in Statuses,
         NEW src \in Nat, f.in_pos <= src, src <= f.in_size, Returns(res, status, src),
         UNCHANGED <<stream, inbuf_size, f, asked, got, result, astray>>,
         p' \in Decoders(syms), SameText(p', p), BytesOK'
  PROVE  DecoderInv'
<1>1. DecoderTypes /\ RoomOK /\ CountOK /\ DeliveredOK /\ HistoryOK /\ CheckOK
  BY DEF DecoderInv
<1>2. pc' = "fromDic" /\ call' = [call EXCEPT !.res = res, !.status = status, !.src = src]
  BY DEF Returns
<1>3. InCall /\ InCall' /\ InDic /\ InDic' /\ syms' = syms
  BY <1>2 DEF InCall, InDic, syms
<1>4. /\ call'.src = src /\ call'.outSize = call.outSize /\ call'.finish = call.finish
      /\ call'.made = call.made /\ call'.dicStart = call.dicStart /\ call'.dicLimit = call.dicLimit
      /\ call'.curFinish = call.curFinish /\ call'.res = res
  BY <1>1, <1>2 DEF DecoderTypes
<1>5. p'.dicPos = p.dicPos /\ p'.processedPos = p.processedPos
  BY DEF SameText
<1>6. DecoderTypes'
  <2>1. call' \in [src : Nat, outSize : Nat, finish : {"any", "end"}, made : Seq(Nat),
               dicStart : 0 .. DicBufSize, dicLimit : 0 .. DicBufSize, curFinish : {"any", "end"},
               res : {"ok", "data", "fail"},
               status : {"none", "input", "mark", "maybe finished", "not finished"},
               fed : Seq(Nat), used : Nat, bufLimit : Nat, limit2 : Nat, owed : {0, 1},
               temp : BOOLEAN, lookAhead : Nat]
    BY <1>1, <1>2 DEF DecoderTypes, Statuses
  <2>2. QED
    BY <1>1, <1>2, <1>3, <2>1 DEF DecoderTypes, States
<1>7. RoomOK'
  BY <1>1, <1>3, <1>4, <1>5 DEF RoomOK
<1>8. CountOK'
  <2>1. p.processedPos = Len(got) + Len(call.made) + (p.dicPos - call.dicStart) /\ result = "ok"
    BY <1>1, <1>3 DEF CountOK, Sound
  <2>2. QED
    BY <1>2, <1>3, <1>4, <1>5, <2>1 DEF CountOK
<1>9. DeliveredOK'
  BY <1>1, <1>2, <1>3, <1>4 DEF DeliveredOK
<1>10. HistoryOK'
  BY <1>1, <1>3, SameHistory DEF HistoryOK
<1>11. CheckOK'
  <2>1. Checked(p)
    BY <1>1 DEF CheckOK
  <2>2. Checked(p')
    BY <2>1, SameHistory
  <2>3. QED
    BY <1>2, <2>2 DEF CheckOK, Checked
<1>12. QED
  BY <1>6, <1>7, <1>8, <1>9, <1>10, <1>11 DEF DecoderInv

LEMMA MarkedKeeps ==
  ASSUME DecoderInv, Marked PROVE DecoderInv'
<1>1. /\ pc = "dic" /\ UNCHANGED <<stream, inbuf_size, f, p, asked, got, result, astray>>
  BY DEF Marked
<1>2. PICK res \in {"ok", "data"}, status \in Statuses : Returns(res, status, call.src)
  BY DEF Marked, Statuses
<1>3. call.src \in Nat /\ p \in Decoders(syms) /\ f.in_pos <= call.src /\ call.src <= f.in_size
  BY <1>1, TypesAre, DecoderIs DEF DecoderInv, RoomOK, InCall
<1>4. BytesOK'
  <2>1. pc' = "fromDic" /\ call'.src = call.src /\ call'.res = res
    BY <1>2 DEF Returns, DecoderInv, DecoderTypes
  <2>2. Sound /\ InCall /\ InCall'
    BY <1>1, <2>1 DEF DecoderInv, CountOK, InCall
  <2>3. Here' = Here
    BY <1>1, <2>1, <2>2 DEF Here, Place
  <2>4. QED
    BY <1>1, <2>1, <2>2, <2>3, BytesStay DEF DecoderInv
<1>5. SameText(p', p)
  BY <1>1 DEF SameText
<1>6. p' \in Decoders(syms)
  BY <1>1, <1>3
<1>7. QED
  BY <1>1, <1>2, <1>3, <1>4, <1>5, <1>6, ReturnKeeps

LEMMA NoRoomKeeps ==
  ASSUME DecoderInv, NoRoom PROVE DecoderInv'
<1>1. /\ pc = "dic" /\ UNCHANGED <<stream, inbuf_size, f, p, asked, got, result, astray>>
  BY DEF NoRoom, InLoop
<1>2. PICK res \in {"ok", "data"}, status \in Statuses : Returns(res, status, call.src)
  BY DEF NoRoom, Statuses
<1>3. call.src \in Nat /\ p \in Decoders(syms) /\ f.in_pos <= call.src /\ call.src <= f.in_size
  BY <1>1, TypesAre, DecoderIs DEF DecoderInv, RoomOK, InCall
<1>4. BytesOK'
  <2>1. pc' = "fromDic" /\ call'.src = call.src /\ call'.res = res
    BY <1>2 DEF Returns, DecoderInv, DecoderTypes
  <2>2. Sound /\ InCall /\ InCall'
    BY <1>1, <2>1 DEF DecoderInv, CountOK, InCall
  <2>3. Here' = Here
    BY <1>1, <2>1, <2>2 DEF Here, Place
  <2>4. QED
    BY <1>1, <2>1, <2>2, <2>3, BytesStay DEF DecoderInv
<1>5. SameText(p', p)
  BY <1>1 DEF SameText
<1>6. p' \in Decoders(syms)
  BY <1>1, <1>3
<1>7. QED
  BY <1>1, <1>2, <1>3, <1>4, <1>5, <1>6, ReturnKeeps

\* The decoder has the bytes before place.
Kept(s, d, place) ==
  LET temp == d.tempBuf
  IN  /\ d.needFlush =>
           /\ Len(temp) < InitSize /\ Len(temp) = place
           /\ \A k \in 1 .. Len(temp) : temp[k] = k - 1
      /\ ~d.needFlush =>
           /\ d.coded = Coded(s)[d.next - 1]
           /\ d.coded + Len(temp) = place
           /\ \A k \in 1 .. Len(temp) : temp[k] = d.coded + k - 1
           /\ Len(temp) < RequiredMax
           /\ temp # <<>> /\ ~(d.next > Len(s)) => s[d.next].cost + s[d.next].late > Len(temp)

LEMMA BytesKept ==
  /\ BytesOK /\ pc \notin {"real", "real2", "error"} /\ Sound => Kept(syms, p, Here)
  /\ /\ UNCHANGED stream /\ ~astray' /\ call'.res # "fail" /\ (p'.needFlush => p'.next = 1)
     /\ pc' \notin {"real", "real2"} /\ Kept(syms, p', Here')
     => BytesOK'
<1>1. BytesOK /\ pc \notin {"real", "real2", "error"} /\ Sound => Kept(syms, p, Here)
  BY DEF BytesOK, Kept, Here, AllDone
<1>2. ASSUME UNCHANGED stream, ~astray', call'.res # "fail", p'.needFlush => p'.next = 1,
             pc' \notin {"real", "real2"}, Kept(syms, p', Here')
      PROVE  BytesOK'
  <2>1. syms' = syms
    BY <1>2 DEF syms
  <2>2. QED
    BY <1>2, <2>1 DEF BytesOK, Kept, Here, AllDone
<1>3. QED
  BY <1>1, <1>2

\* What is taken from inbuf.
LEMMA InBufIs ==
  ASSUME DecoderTypes, RoomOK, NEW i \in Nat, NEW n \in Nat, i + n <= f.in_size
  PROVE  /\ InBuf(i, n) \in Seq(Nat) /\ Len(InBuf(i, n)) = n
         /\ Place(i) \in Nat /\ Place(i + n) = Place(i) + n
         /\ \A k \in 1 .. n : InBuf(i, n)[k] = Place(i) + k - 1
<1>1. f.src_curr \in Nat /\ f.in_size \in Nat /\ f.in_size <= f.src_curr
  BY TypesAre DEF RoomOK
<1>2. PICK b : b = InBuf(i, n)
  OBVIOUS
<1>3. Place(i) \in Nat /\ Place(i + n) = Place(i) + n
  BY <1>1 DEF Place
<1>4. PICK at : at = Place(i)
  OBVIOUS
<1>5. b = [k \in 1 .. n |-> at + k - 1]
  BY <1>2, <1>4 DEF InBuf, Place
<1>6. b \in [1 .. n -> Nat]
  BY <1>3, <1>4, <1>5
<1>7. b \in Seq(Nat) /\ Len(b) = n
  BY <1>6, FunSeq
<1>8. \A k \in 1 .. n : b[k] = at + k - 1
  BY <1>5
<1>9. QED
  BY <1>2, <1>3, <1>4, <1>7, <1>8

\* The bytes kept and those that come behind them.
LEMMA Behind ==
  ASSUME NEW temp \in Seq(Nat), NEW in \in Seq(Nat), NEW all, all = temp \o in, NEW first \in Nat,
         \A k \in 1 .. Len(temp) : temp[k] = first + k - 1,
         \A k \in 1 .. Len(in) : in[k] = first + Len(temp) + k - 1
  PROVE  /\ all \in Seq(Nat) /\ Len(all) = Len(temp) + Len(in)
         /\ \A k \in 1 .. Len(all) : all[k] = first + k - 1
<1>1. /\ all \in Seq(Nat) /\ Len(all) = Len(temp) + Len(in)
      /\ \A i \in 1 .. Len(temp) : all[i] = temp[i]
      /\ \A i \in 1 .. Len(in) : all[Len(temp) + i] = in[i]
  BY Joined
<1>2. PICK t, n : t = Len(temp) /\ n = Len(in)
  OBVIOUS
<1>3. t \in Nat /\ n \in Nat
  BY <1>2
<1>4. ASSUME NEW k \in 1 .. t + n PROVE all[k] = first + k - 1
  <2>1. CASE k <= t
    <3>1. k \in 1 .. t
      BY <1>3, <2>1
    <3>2. QED
      BY <1>1, <1>2, <3>1
  <2>2. CASE k > t
    <3>1. PICK j : j = k - t
      OBVIOUS
    <3>2. j \in 1 .. n /\ t + j = k /\ first + t + j - 1 = first + k - 1
      BY ONLY <1>3, <2>2, <3>1, k \in 1 .. t + n, first \in Nat
    <3>3. QED
      BY <1>1, <1>2, <3>2
  <2>3. k <= t \/ k > t
    BY ONLY <1>3, k \in 1 .. t + n
  <2>4. QED
    BY <2>1, <2>2, <2>3
<1>5. QED
  BY <1>1, <1>2, <1>4

LEMMA FlushKeeps ==
  ASSUME DecoderInv, Flush PROVE DecoderInv'
<1>1. /\ pc = "dic" /\ p.remainLen # SpecStart /\ p.needFlush
      /\ UNCHANGED <<stream, inbuf_size, f, asked, got, result>>
  BY DEF Flush, InLoop
<1>2. DecoderTypes /\ RoomOK /\ CountOK /\ DeliveredOK /\ HistoryOK /\ CheckOK /\ BytesOK
  BY DEF DecoderInv
<1>3. InCall /\ InDic /\ Sound /\ syms' = syms /\ ~astray
  BY <1>1, <1>2 DEF InCall, InDic, CountOK, BytesOK, syms
<1>4. /\ p.tempBuf \in Seq(Nat) /\ Len(p.tempBuf) \in Nat /\ call.src \in Nat /\ f.in_size \in Nat
      /\ f.src_curr \in Nat /\ f.in_pos \in Nat /\ p \in Decoders(syms) /\ syms \in Seq(Format)
      /\ InitSize \in Nat \ {0} /\ RequiredMax \in Nat \ {0}
  BY <1>2, TypesAre, DecoderIs, Sizes
<1>5. f.in_pos <= call.src /\ call.src <= f.in_size /\ p.next = 1
  BY <1>1, <1>2, <1>3 DEF RoomOK, BytesOK
<1>6. Kept(syms, p, Place(call.src))
  <2>1. Here = Place(call.src)
    BY <1>3 DEF Here
  <2>2. QED
    BY <1>1, <1>2, <1>3, <2>1, BytesKept
<1>7. PICK t, src, place : t = Len(p.tempBuf) /\ src = call.src /\ place = Place(call.src)
  OBVIOUS
<1>8. t < InitSize /\ t = place /\ \A k \in 1 .. t : p.tempBuf[k] = k - 1
  BY <1>1, <1>6, <1>7 DEF Kept
<1>9. PICK n : n = LessOf(Left, InitSize - t)
  OBVIOUS
<1>10. n \in Nat /\ n <= f.in_size - src /\ n <= InitSize - t /\ src \in Nat /\ t \in Nat
  BY <1>4, <1>5, <1>7, <1>8, <1>9 DEF Left, LessOf
<1>11. PICK in : in = InBuf(src, n)
  OBVIOUS
<1>12. src + n <= f.in_size /\ f.in_pos <= src + n /\ src + n \in Nat
  BY <1>4, <1>5, <1>7, <1>10
<1>13. /\ in \in Seq(Nat) /\ Len(in) = n /\ place \in Nat /\ Place(src + n) = place + n
       /\ \A k \in 1 .. n : in[k] = place + k - 1
  BY <1>2, <1>7, <1>10, <1>11, <1>12, InBufIs, ZenonT(60)
<1>14. PICK have : have = p.tempBuf \o in
  OBVIOUS
<1>15. have \in Seq(Nat) /\ Len(have) = t + n /\ \A k \in 1 .. t + n : have[k] = 0 + k - 1
  <2>1. 0 \in Nat /\ 0 + t = place /\ (\A k \in 1 .. t : p.tempBuf[k] = 0 + k - 1)
    BY <1>8, <1>10
  <2>2. PICK temp : temp = p.tempBuf
    OBVIOUS
  <2>3. /\ temp \in Seq(Nat) /\ have = temp \o in
        /\ \A k \in 1 .. Len(temp) : temp[k] = 0 + k - 1
        /\ \A k \in 1 .. Len(in) : in[k] = 0 + Len(temp) + k - 1
    BY <1>4, <1>7, <1>13, <1>14, <2>1, <2>2
  <2>4. /\ have \in Seq(Nat) /\ Len(have) = Len(temp) + Len(in)
        /\ \A k \in 1 .. Len(have) : have[k] = 0 + k - 1
    <3>1. in \in Seq(Nat) /\ 0 \in Nat
      BY <1>13
    <3>2. QED
      BY <2>3, <3>1, Behind
  <2>5. QED
    BY <1>7, <1>13, <2>2, <2>4
<1>16. /\ p.dic \in [0 .. DicBufSize - 1 -> Nat] /\ p.dicPos \in 0 .. DicBufSize
       /\ p.processedPos \in Nat /\ p.checkDicSize \in {0, DicSize} /\ p.remainLen \in 0 .. SpecStart
       /\ p.reps \in [0 .. 3 -> 1 .. DicSize] /\ p.afterMatch \in BOOLEAN /\ p.needFlush \in BOOLEAN
       /\ p.next \in 1 .. Len(syms) + 1 /\ p.coded \in Nat
  BY <1>2, DecoderIs
<1>17. CASE Len(have) < InitSize
  <2>1. /\ p' = [p EXCEPT !.tempBuf = have] /\ Returns("ok", "input", src + n) /\ UNCHANGED astray
    BY <1>7, <1>9, <1>11, <1>14, <1>17 DEF Flush
  <2>2. p' \in Decoders(syms) /\ SameText(p', p) /\ p'.needFlush /\ p'.tempBuf = have /\ p'.next = 1
    BY <1>1, <1>4, <1>5, <1>15, <2>1 DEF Decoders, SameText
  <2>3. pc' = "fromDic" /\ call'.src = src + n /\ call'.res = "ok"
    BY <1>2, <2>1 DEF Returns, DecoderTypes
  <2>4. Here' = Place(src + n)
    BY <1>1, <2>3 DEF Here, Place, InCall
  <2>5. Kept(syms, p', Here')
    <3>1. t + n < InitSize /\ t + n = Here'
      BY <1>8, <1>13, <1>15, <1>17, <2>4
    <3>2. \A k \in 1 .. t + n : have[k] = k - 1
      BY <1>15
    <3>3. QED
      BY <1>15, <2>2, <3>1, <3>2 DEF Kept
  <2>6. BytesOK'
    BY <1>1, <1>3, <2>1, <2>2, <2>3, <2>5, BytesKept
  <2>7. "ok" \in {"ok", "data"} /\ "input" \in Statuses /\ pc \in {"dic", "real"}
    BY <1>1 DEF Statuses
  <2>8. QED
    BY <1>1, <1>12, <2>1, <2>2, <2>6, <2>7, ReturnKeeps
<1>18. CASE ~(Len(have) < InitSize)
  <2>1. /\ p' = [p EXCEPT !.tempBuf = <<>>, !.needFlush = FALSE, !.coded = InitSize]
        /\ call' = [call EXCEPT !.src = @ + n]
        /\ astray' = (have # [i \in 1 .. InitSize |-> i - 1])
        /\ UNCHANGED pc
    BY <1>7, <1>9, <1>11, <1>14, <1>18 DEF Flush
  <2>2. t + n = InitSize
    BY <1>4, <1>10, <1>15, <1>18
  <2>3. ~astray'
    <3>1. have = [i \in 1 .. InitSize |-> i - 1]
      <4>1. have = [i \in 1 .. Len(have) |-> have[i]]
        BY <1>15
      <4>2. QED
        BY <1>15, <2>2, <4>1
    <3>2. QED
      BY <2>1, <3>1
  <2>4. /\ p' \in Decoders(syms) /\ SameText(p', p) /\ ~p'.needFlush /\ p'.tempBuf = <<>>
        /\ p'.next = 1 /\ p'.coded = InitSize
    <3>1. <<>> \in Seq(Nat) /\ InitSize \in Nat
      BY <1>4
    <3>2. QED
      BY <1>4, <1>5, <2>1, <3>1 DEF Decoders, SameText
  <2>5. /\ call'.src = src + n /\ call'.outSize = call.outSize /\ call'.finish = call.finish
        /\ call'.made = call.made /\ call'.dicStart = call.dicStart /\ call'.dicLimit = call.dicLimit
        /\ call'.curFinish = call.curFinish /\ call'.res = call.res
    BY <1>2, <1>7, <2>1 DEF DecoderTypes
  <2>6. InCall' /\ InDic' /\ pc' = "dic" /\ Sound'
    BY <1>1, <1>3, <2>1, <2>5 DEF InCall, InDic, Sound
  <2>7. p'.dicPos = p.dicPos /\ p'.processedPos = p.processedPos /\ p'.remainLen = p.remainLen
    BY <2>4 DEF SameText
  <2>8. DecoderTypes'
    <3>1. call' \in [src : Nat, outSize : Nat, finish : {"any", "end"}, made : Seq(Nat),
                 dicStart : 0 .. DicBufSize, dicLimit : 0 .. DicBufSize, curFinish : {"any", "end"},
                 res : {"ok", "data", "fail"},
                 status : {"none", "input", "mark", "maybe finished", "not finished"},
                 fed : Seq(Nat), used : Nat, bufLimit : Nat, limit2 : Nat, owed : {0, 1},
                 temp : BOOLEAN, lookAhead : Nat]
      <4>1. call.src + n \in Nat
        BY <1>7, <1>12
      <4>2. QED
        BY <1>2, <2>1, <4>1 DEF DecoderTypes
    <3>2. QED
      BY <1>1, <1>2, <1>3, <2>1, <2>3, <2>4, <3>1 DEF DecoderTypes
  <2>9. RoomOK'
    BY <1>1, <1>2, <1>3, <1>12, <2>5, <2>6, <2>7 DEF RoomOK
  <2>10. CountOK'
    <3>1. p.processedPos = Len(got) + Len(call.made) + (p.dicPos - call.dicStart)
      BY <1>2, <1>3 DEF CountOK
    <3>2. QED
      BY <1>1, <2>5, <2>6, <2>7, <3>1 DEF CountOK
  <2>11. DeliveredOK'
    BY <1>1, <1>2, <1>3, <2>5, <2>6 DEF DeliveredOK
  <2>12. HistoryOK'
    BY <1>2, <1>3, <2>4, SameHistory DEF HistoryOK
  <2>13. CheckOK'
    <3>1. Checked(p) /\ (p.remainLen = 0 \/ p.dicPos = call.dicLimit)
      BY <1>1, <1>2 DEF CheckOK
    <3>2. Checked(p')
      BY <2>4, <3>1, SameHistory
    <3>3. QED
      BY <2>5, <2>6, <2>7, <3>1, <3>2 DEF CheckOK, Checked
  <2>14. BytesOK'
    <3>1. Here' = Place(src + n)
      BY <1>1, <2>5, <2>6 DEF Here, Place
    <3>2. Coded(syms)[p'.next - 1] = InitSize
      BY <1>4, <2>4, CodedDefined
    <3>3. InitSize + 0 = Here' /\ 0 < RequiredMax
      BY <1>4, <1>8, <1>13, <2>2, <3>1
    <3>4. Kept(syms, p', Here')
      BY <2>4, <3>2, <3>3 DEF Kept
    <3>5. call'.res # "fail"
      BY <2>6 DEF Sound
    <3>6. QED
      BY <1>1, <2>3, <2>4, <2>6, <3>4, <3>5, BytesKept
  <2>15. QED
    BY <2>8, <2>9, <2>10, <2>11, <2>12, <2>13, <2>14 DEF DecoderInv
<1>19. QED
  BY <1>17, <1>18

\* As long as some of the patch is to come, the stream has another symbol.
LEMMA NotDone ==
  ASSUME stream \in Streams, NEW d \in Decoders(syms), History(syms, d), d.remainLen = 0,
         d.processedPos < stream.unpack
  PROVE  d.next \in 1 .. Len(syms)
<1>1. /\ syms \in Seq(Format) /\ Len(syms) \in Nat /\ stream.unpack \in Nat
      /\ Valid(syms) => stream.unpack <= Len(Text(syms))
  BY StreamIs
<1>2. d.next \in 1 .. Len(syms) + 1 /\ d.processedPos \in Nat
  BY DEF Decoders
<1>3. SUFFICES ASSUME d.next = Len(syms) + 1 PROVE FALSE
  BY <1>1, <1>2
<1>4. d.next - 1 = Len(syms)
  BY <1>1, <1>3
<1>5. Rest(d) = 0
  BY SpecIs DEF Rest
<1>6. Valid(syms) /\ Len(Text(syms)) = d.processedPos + 0
  BY <1>4, <1>5 DEF History, Valid, Text
<1>7. QED
  BY <1>1, <1>2, <1>6

\* What has been decoded, when there is room for more.
LEMMA RoomLeft ==
  ASSUME DecoderTypes, RoomOK, InDic, NEW pos, NEW done, pos \in Nat,
         done = Len(got) + Len(call.made) + (pos - call.dicStart), pos < call.dicLimit
  PROVE  done < stream.unpack
<1>1. /\ Len(call.made) \in Nat /\ Len(got) \in Nat /\ call.outSize \in Nat /\ call.dicStart \in 0 .. DicBufSize
      /\ call.dicLimit \in 0 .. DicBufSize /\ f.unpackSize \in Nat /\ DicBufSize \in Nat
  BY TypesAre, Sizes
<1>2. /\ f.unpackSize + Len(got) = stream.unpack /\ Len(call.made) + call.outSize <= f.unpackSize
      /\ call.dicLimit - call.dicStart <= call.outSize
  BY DEF RoomOK, InDic, InCall
<1>3. PICK G, M, O, S, L, U : /\ G = Len(got) /\ M = Len(call.made) /\ O = call.outSize /\ S = call.dicStart
                              /\ L = call.dicLimit /\ U = f.unpackSize
  OBVIOUS
<1>4. G \in Nat /\ M \in Nat /\ O \in Nat /\ S \in Int /\ L \in Int /\ U \in Nat
  BY <1>1, <1>3
<1>5. /\ U + G = stream.unpack /\ M + O <= U /\ L - S <= O /\ done = G + M + (pos - S) /\ pos < L
  BY <1>2, <1>3
<1>6. QED
  BY <1>4, <1>5

\* LzmaDec_DecodeReal2 is called for the next symbol.
LEMMA LimitIs ==
  ASSUME NEW s, NEW d \in Decoders(s), Checked(d), call.dicLimit \in Nat, d.dicPos <= call.dicLimit
  PROVE  /\ Limit2(d) \in Nat /\ d.dicPos <= Limit2(d) /\ Limit2(d) <= call.dicLimit
         /\ d.checkDicSize = 0 => d.processedPos + (Limit2(d) - d.dicPos) <= DicSize
         /\ d.dicPos < call.dicLimit => d.dicPos < Limit2(d)
<1>1. d.processedPos \in Nat /\ d.dicPos \in Nat /\ DicSize \in Nat \ {0} /\ DicBufSize \in Nat
  BY Sizes DEF Decoders
<1>2. CASE d.checkDicSize = 0
  <2>1. d.processedPos < DicSize
    BY <1>2 DEF Checked
  <2>2. PICK a, b : a = d.dicPos + DicSize - d.processedPos /\ b = call.dicLimit
    OBVIOUS
  <2>3. Limit2(d) = LessOf(b, a)
    BY <1>2, <2>2 DEF Limit2
  <2>4. PICK P, D : P = d.processedPos /\ D = d.dicPos
    OBVIOUS
  <2>5. a = D + DicSize - P /\ P < DicSize /\ D <= b /\ b \in Nat /\ P \in Nat /\ D \in Nat
    BY <1>1, <2>1, <2>2, <2>4
  <2>6. a \in Nat /\ D < a
    BY <1>1, <2>5
  <2>7. PICK l : l = LessOf(b, a)
    OBVIOUS
  <2>8. l \in Nat /\ l <= a /\ l <= b /\ (l = a \/ l = b)
    <3>1. a \in Int /\ b \in Int
      BY <2>5, <2>6
    <3>2. l <= a /\ l <= b /\ (l = a \/ l = b)
      BY <2>7, <3>1, LessIs
    <3>3. QED
      BY <2>5, <2>6, <3>2
  <2>9. D <= l /\ l <= b /\ P + (l - D) <= DicSize /\ (D < b => D < l)
    BY <1>1, <2>5, <2>6, <2>8
  <2>10. QED
    BY <2>2, <2>3, <2>4, <2>7, <2>8, <2>9
<1>3. CASE d.checkDicSize # 0
  BY <1>3 DEF Limit2
<1>4. QED
  BY <1>2, <1>3

LEMMA DecodeKeeps ==
  ASSUME DecoderInv, InLoop, ~p.needFlush, ~AllDone, Full => EndMarkNow /\ syms[p.next].kind \in {"match", "mark"},
         NEW fed \in Seq(Nat), NEW bufLimit \in Nat, NEW temp \in BOOLEAN, NEW lookAhead \in Nat,
         Decode(fed, bufLimit, temp, lookAhead),
         UNCHANGED <<stream, inbuf_size, f, asked, got, result, astray>>,
         p' \in Decoders(syms), SameText(p', p), p'.coded = p.coded, ~p'.needFlush,
         \A k \in 1 .. Len(fed) : fed[k] = p.coded + k - 1,
         syms[p.next].cost + syms[p.next].late <= Len(fed),
         bufLimit = 0 \/ bufLimit + RequiredMax <= Len(fed),
         ~temp => p'.tempBuf = <<>> /\ p.tempBuf = <<>> /\ Len(fed) = f.in_size - call.src,
         temp => /\ p.coded + Len(fed) = Place(call.src) + lookAhead
                 /\ call.src + lookAhead <= f.in_size /\ bufLimit = 0
                 /\ syms[p.next].cost + syms[p.next].late > Len(fed) - lookAhead
  PROVE  DecoderInv'
<1>1. pc = "dic" /\ p.remainLen # SpecStart
  BY DEF InLoop
<1>2. DecoderTypes /\ RoomOK /\ CountOK /\ DeliveredOK /\ HistoryOK /\ CheckOK /\ BytesOK
  BY DEF DecoderInv
<1>3. InCall /\ InDic /\ Sound /\ syms' = syms /\ ~astray
  BY <1>1, <1>2 DEF InCall, InDic, CountOK, BytesOK, syms
<1>4. PICK limit2 : limit2 = Limit2(p)
  OBVIOUS
<1>5. /\ call' = [call EXCEPT !.fed = fed, !.used = 0, !.bufLimit = bufLimit, !.owed = 0,
                              !.limit2 = limit2, !.temp = temp, !.lookAhead = lookAhead]
      /\ pc' = "real"
  BY <1>4 DEF Decode
<1>6. /\ p \in Decoders(syms) /\ syms \in Seq(Format) /\ p.dicPos \in Nat /\ p.coded \in Nat /\ p.next \in Nat
      /\ call.dicLimit \in 0 .. DicBufSize /\ DicBufSize \in Nat /\ p.remainLen \in 0 .. SpecStart
      /\ call.src \in Nat /\ p.processedPos \in Nat
  BY <1>2, DecoderIs, TypesAre, Sizes
<1>7. Checked(p) /\ p.dicPos <= call.dicLimit /\ call.dicLimit \in Nat
  BY <1>1, <1>2, <1>3, <1>6 DEF CheckOK, RoomOK
<1>8. /\ limit2 \in Nat /\ p.dicPos <= limit2 /\ limit2 <= call.dicLimit
      /\ p.checkDicSize = 0 => p.processedPos + (limit2 - p.dicPos) <= DicSize
      /\ p.dicPos < call.dicLimit => p.dicPos < limit2
  BY <1>4, <1>6, <1>7, LimitIs
<1>9. p.remainLen = 0
  <2>1. CASE Full
    BY <2>1 DEF EndMarkNow
  <2>2. CASE ~Full
    BY <1>1, <1>2, <1>6, <2>2 DEF CheckOK, Full
  <2>3. QED
    BY <2>1, <2>2
<1>10. \/ p.dicPos < limit2
       \/ p.dicPos = call.dicLimit /\ call.curFinish = "end" /\ syms[p.next].kind \in {"match", "mark"}
  <2>1. CASE Full
    <3>1. p.dicPos = call.dicLimit
      BY <1>6, <1>7, <2>1 DEF Full
    <3>2. QED
      BY <2>1, <3>1 DEF EndMarkNow
  <2>2. CASE ~Full
    BY <1>6, <1>7, <1>8, <2>2 DEF Full
  <2>3. QED
    BY <2>1, <2>2
<1>11. /\ call'.src = call.src /\ call'.outSize = call.outSize /\ call'.finish = call.finish
       /\ call'.made = call.made /\ call'.dicStart = call.dicStart /\ call'.dicLimit = call.dicLimit
       /\ call'.curFinish = call.curFinish /\ call'.res = call.res
       /\ call'.fed = fed /\ call'.used = 0 /\ call'.bufLimit = bufLimit /\ call'.owed = 0
       /\ call'.limit2 = limit2 /\ call'.temp = temp /\ call'.lookAhead = lookAhead
  BY <1>2, <1>5 DEF DecoderTypes
<1>12. /\ p'.dicPos = p.dicPos /\ p'.processedPos = p.processedPos /\ p'.remainLen = p.remainLen
       /\ p'.checkDicSize = p.checkDicSize /\ p'.next = p.next /\ AllDone' = AllDone
  BY <1>3 DEF SameText, AllDone
<1>13. InCall' /\ InDic' /\ Sound'
  BY <1>3, <1>5, <1>11 DEF InCall, InDic, Sound
<1>14. DecoderTypes'
  <2>1. call' \in [src : Nat, outSize : Nat, finish : {"any", "end"}, made : Seq(Nat),
               dicStart : 0 .. DicBufSize, dicLimit : 0 .. DicBufSize, curFinish : {"any", "end"},
               res : {"ok", "data", "fail"},
               status : {"none", "input", "mark", "maybe finished", "not finished"},
               fed : Seq(Nat), used : Nat, bufLimit : Nat, limit2 : Nat, owed : {0, 1},
               temp : BOOLEAN, lookAhead : Nat]
    BY <1>2, <1>5, <1>8 DEF DecoderTypes
  <2>2. QED
    BY <1>2, <1>3, <1>5, <2>1 DEF DecoderTypes, States
<1>15. RoomOK'
  BY <1>2, <1>3, <1>11, <1>12, <1>13 DEF RoomOK
<1>16. CountOK'
  <2>1. p.processedPos = Len(got) + Len(call.made) + (p.dicPos - call.dicStart)
    BY <1>2, <1>3 DEF CountOK
  <2>2. QED
    BY <1>5, <1>11, <1>12, <1>13, <2>1 DEF CountOK
<1>17. DeliveredOK'
  BY <1>1, <1>2, <1>3, <1>5, <1>11 DEF DeliveredOK
<1>18. HistoryOK'
  BY <1>2, <1>3, SameHistory DEF HistoryOK
<1>19. CheckOK'
  <2>1. Checked(p')
    BY <1>7, SameHistory
  <2>2. QED
    BY <1>3, <1>5, <1>8, <1>9, <1>10, <1>11, <1>12, <2>1 DEF CheckOK, Checked
<1>20. Place(call.src)' = Place(call.src)
  BY <1>11 DEF Place
<1>21. Kept(syms, p, Place(call.src))
  <2>1. Here = Place(call.src)
    BY <1>3 DEF Here
  <2>2. QED
    BY <1>1, <1>2, <1>3, <2>1, BytesKept
<1>22. p.coded = Coded(syms)[p.next - 1] /\ p.coded + Len(p.tempBuf) = Place(call.src)
  BY <1>21 DEF Kept
<1>23. BytesOK'
  <2>1. p.coded - 0 = p.coded /\ p.coded + 0 = p.coded
    BY <1>6
  <2>2. ~temp => p.coded = Place(call.src)
    BY <1>22, <2>1
  <2>3. PICK c, l : c = syms[p.next].cost /\ l = syms[p.next].late
    OBVIOUS
  <2>4. p.next \in 1 .. Len(syms)
    <3>1. p.next \in 1 .. Len(syms) + 1 /\ Len(syms) \in Nat
      BY <1>2, <1>6, DecoderIs
    <3>2. QED
      BY <3>1 DEF AllDone
  <2>5. c \in Nat /\ l \in {0, 1}
    BY <1>6, <2>3, <2>4, SymbolIs
  <2>6. 0 + 0 + c + l = c + l
    BY <2>5
  <2>7. call'.used + call'.owed + c + l <= Len(fed)
    BY <1>11, <2>3, <2>6
  <2>8. InCall' /\ call'.res # "fail" /\ ~astray'
    BY <1>3, <1>13 DEF Sound
  <2>9. p'.coded + call'.owed = Coded(syms)[p'.next - 1]
    BY <1>11, <1>12, <1>22, <2>1
  <2>10. \A k \in 1 .. Len(fed) : fed[k] = p'.coded - call'.used + k - 1
    BY <1>11, <2>1
  <2>11. ~temp => p'.coded - call'.used = Place(call.src) /\ p'.tempBuf = <<>> /\ Len(fed) = f.in_size - call.src
    BY <1>11, <2>1, <2>2
  <2>12. temp => /\ p'.coded - call'.used + Len(fed) = Place(call.src) + lookAhead
                 /\ call.src + lookAhead <= f.in_size /\ bufLimit = 0
    BY <1>11, <2>1
  <2>13. temp => call'.used = 0 /\ call'.owed = 0 /\ c + l > Len(fed) - lookAhead
    BY <1>11, <2>3
  <2>14. bufLimit = 0 \/ bufLimit + RequiredMax <= Len(fed)
    OBVIOUS
  <2>15. pc' = "real" /\ ~p'.needFlush
    BY <1>5
  <2>16. QED
    BY <1>3, <1>11, <1>12, <1>20, <2>3, <2>7, <2>8, <2>9, <2>10, <2>11, <2>12, <2>13, <2>14, <2>15 DEF BytesOK
<1>24. QED
  BY <1>14, <1>15, <1>16, <1>17, <1>18, <1>19, <1>23 DEF DecoderInv

\* What is known where LzmaDec_sm_DecodeToDic goes on to decode.
LEMMA GoesOn ==
  ASSUME DecoderInv, InLoop, ~p.needFlush, Full => EndMarkNow
  PROVE  /\ ~AllDone /\ p.next \in 1 .. Len(syms) /\ Sound /\ InCall /\ pc = "dic"
         /\ syms[p.next].cost \in Nat /\ syms[p.next].late \in {0, 1}
         /\ syms[p.next].cost + syms[p.next].late <= RequiredMax
         /\ p.coded + Len(p.tempBuf) = Place(call.src)
         /\ p.coded = Coded(syms)[p.next - 1]
         /\ Len(p.tempBuf) < RequiredMax
         /\ \A k \in 1 .. Len(p.tempBuf) : p.tempBuf[k] = p.coded + k - 1
         /\ p.tempBuf # <<>> => syms[p.next].cost + syms[p.next].late > Len(p.tempBuf)
         /\ f.in_pos <= call.src /\ call.src <= f.in_size
<1>1. pc = "dic" /\ p.remainLen # SpecStart
  BY DEF InLoop
<1>2. DecoderTypes /\ RoomOK /\ CountOK /\ HistoryOK /\ CheckOK /\ BytesOK
  BY DEF DecoderInv
<1>3. InCall /\ InDic /\ Sound
  BY <1>1, <1>2 DEF InCall, InDic, CountOK
<1>4. /\ p \in Decoders(syms) /\ syms \in Seq(Format) /\ p.dicPos \in Nat
      /\ p.next \in 1 .. Len(syms) + 1 /\ Len(syms) \in Nat /\ call.dicLimit \in 0 .. DicBufSize /\ DicBufSize \in Nat
      /\ stream \in Streams
  <2>1. stream \in Streams
    BY <1>2 DEF DecoderTypes
  <2>2. QED
    BY <1>2, <2>1, DecoderIs, TypesAre, Sizes, StreamIs
<1>5. p.next \in 1 .. Len(syms)
  <2>1. CASE Full
    BY <1>4, <2>1 DEF EndMarkNow, CodeIsZero, AllDone
  <2>2. CASE ~Full
    <3>1. p.dicPos < call.dicLimit
      BY <1>4, <2>2 DEF Full
    <3>2. p.remainLen = 0
      BY <1>1, <1>2, <1>4, <3>1 DEF CheckOK
    <3>3. p.processedPos = Len(got) + Len(call.made) + (p.dicPos - call.dicStart)
      BY <1>2, <1>3 DEF CountOK
    <3>4. p.processedPos < stream.unpack
      BY <1>2, <1>3, <1>4, <3>1, <3>3, RoomLeft
    <3>5. QED
      BY <1>2, <1>4, <3>2, <3>4, NotDone DEF HistoryOK
  <2>3. QED
    BY <2>1, <2>2
<1>6. Kept(syms, p, Place(call.src))
  <2>1. Here = Place(call.src)
    BY <1>3 DEF Here
  <2>2. QED
    BY <1>1, <1>2, <1>3, <2>1, BytesKept
<1>7. ~AllDone /\ ~(p.next > Len(syms))
  BY <1>4, <1>5 DEF AllDone
<1>8. /\ syms[p.next].cost \in Nat /\ syms[p.next].late \in {0, 1}
      /\ syms[p.next].cost + syms[p.next].late <= RequiredMax
  BY <1>4, <1>5, SymbolIs, StreamIs
<1>9. f.in_pos <= call.src /\ call.src <= f.in_size
  BY <1>2, <1>3 DEF RoomOK
<1>10. /\ p.coded + Len(p.tempBuf) = Place(call.src)
       /\ p.coded = Coded(syms)[p.next - 1]
       /\ Len(p.tempBuf) < RequiredMax
       /\ \A k \in 1 .. Len(p.tempBuf) : p.tempBuf[k] = p.coded + k - 1
       /\ p.tempBuf # <<>> => syms[p.next].cost + syms[p.next].late > Len(p.tempBuf)
  BY <1>6, <1>7 DEF Kept
<1>11. QED
  BY <1>1, <1>3, <1>5, <1>7, <1>8, <1>9, <1>10

LEMMA DummyIs ==
  ASSUME DecoderInv, InLoop, ~p.needFlush, Full => EndMarkNow, NEW fed \in Seq(Nat)
  PROVE  /\ TryDummy(fed) = "error" => syms[p.next].cost + syms[p.next].late > Len(fed)
         /\ TryDummy(fed) # "error" => syms[p.next].cost + syms[p.next].late <= Len(fed)
         /\ TryDummy(fed) = "match" => syms[p.next].kind \in {"match", "mark"}
<1>1. ~AllDone
  BY GoesOn
<1>2. PICK n, l : n = syms[p.next].cost + syms[p.next].late /\ l = Len(fed)
  OBVIOUS
<1>3. n \in Nat /\ l \in Nat
  BY <1>2, GoesOn
<1>4. (n > l \/ n <= l) /\ ~(n > l /\ n <= l)
  BY <1>3
<1>5. QED
  BY <1>1, <1>2, <1>4 DEF TryDummy

LEMMA FromSrcKeeps ==
  ASSUME DecoderInv, FromSrc PROVE DecoderInv'
<1>1. /\ InLoop /\ ~p.needFlush /\ p.tempBuf = <<>> /\ (Full => EndMarkNow)
      /\ UNCHANGED <<stream, inbuf_size, f, asked, got, result, astray>>
  BY DEF FromSrc
<1>2. DecoderTypes /\ RoomOK /\ BytesOK
  BY DEF DecoderInv
<1>3. /\ ~AllDone /\ p.next \in 1 .. Len(syms) /\ Sound /\ InCall /\ pc = "dic"
      /\ syms[p.next].cost \in Nat /\ syms[p.next].late \in {0, 1}
      /\ syms[p.next].cost + syms[p.next].late <= RequiredMax
      /\ p.coded + Len(p.tempBuf) = Place(call.src)
      /\ p.coded = Coded(syms)[p.next - 1]
      /\ f.in_pos <= call.src /\ call.src <= f.in_size
  BY <1>1, GoesOn
<1>4. /\ p \in Decoders(syms) /\ syms \in Seq(Format) /\ p.coded \in Nat /\ call.src \in Nat
      /\ f.in_size \in Nat /\ RequiredMax \in Nat \ {0} /\ f.in_pos \in Nat
  BY <1>2, DecoderIs, TypesAre, Sizes
<1>5. PICK fed : fed = InBuf(call.src, Left)
  OBVIOUS
<1>6. PICK n : n = f.in_size - call.src
  OBVIOUS
<1>7. n \in Nat /\ Left = n /\ call.src + n = f.in_size
  <2>1. PICK s, z : s = call.src /\ z = f.in_size
    OBVIOUS
  <2>2. s \in Nat /\ z \in Nat /\ s <= z /\ n = z - s
    BY <1>3, <1>4, <1>6, <2>1
  <2>3. n \in Nat /\ s + n = z
    BY <2>2
  <2>4. QED
    BY <1>6, <2>1, <2>3 DEF Left
<1>8. p.coded = Place(call.src)
  <2>1. Len(p.tempBuf) = 0
    BY <1>1
  <2>2. QED
    BY <1>3, <1>4, <2>1
<1>9. /\ fed \in Seq(Nat) /\ Len(fed) = n /\ Place(call.src + n) = Place(call.src) + n
      /\ \A k \in 1 .. n : fed[k] = p.coded + k - 1
  <2>1. call.src + n <= f.in_size
    BY <1>4, <1>7
  <2>2. fed = InBuf(call.src, n)
    BY <1>5, <1>7
  <2>3. PICK s, at : s = call.src /\ at = Place(call.src)
    OBVIOUS
  <2>4. s \in Nat /\ s + n <= f.in_size /\ fed = InBuf(s, n) /\ at = Place(s)
    BY <1>4, <2>1, <2>2, <2>3
  <2>5. /\ fed \in Seq(Nat) /\ Len(fed) = n /\ Place(s + n) = at + n
        /\ \A k \in 1 .. n : fed[k] = at + k - 1
    BY <1>2, <1>7, <2>4, InBufIs
  <2>6. QED
    BY <1>8, <2>3, <2>5
<1>10. syms' = syms
  BY <1>1 DEF syms
<1>11. ASSUME NEW bufLimit \in Nat, Decode(fed, bufLimit, FALSE, 0), UNCHANGED p,
              Full => syms[p.next].kind \in {"match", "mark"},
              syms[p.next].cost + syms[p.next].late <= Len(fed),
              bufLimit = 0 \/ bufLimit + RequiredMax <= Len(fed)
       PROVE  DecoderInv'
  <2>1. p' \in Decoders(syms) /\ SameText(p', p) /\ p'.coded = p.coded /\ ~p'.needFlush /\ p'.tempBuf = <<>>
    BY <1>1, <1>4, <1>11 DEF SameText
  <2>2. Len(fed) = f.in_size - call.src /\ 0 \in Nat /\ FALSE \in BOOLEAN
    BY <1>6, <1>9
  <2>3. \A k \in 1 .. Len(fed) : fed[k] = p.coded + k - 1
    BY <1>9
  <2>4. Full => EndMarkNow /\ syms[p.next].kind \in {"match", "mark"}
    BY <1>1, <1>11
  <2>5. QED
    BY <1>1, <1>3, <1>9, <1>11, <2>1, <2>2, <2>3, <2>4, DecodeKeeps
<1>12. CASE Enough(fed) /\ ~Full
  <2>1. Decode(fed, Len(fed) - RequiredMax, FALSE, 0) /\ UNCHANGED p
    BY <1>5, <1>12 DEF FromSrc
  <2>2. PICK b : b = Len(fed) - RequiredMax
    OBVIOUS
  <2>3. b \in Nat /\ b + RequiredMax <= Len(fed) /\ RequiredMax <= Len(fed)
    BY <1>4, <1>7, <1>9, <1>12, <2>2 DEF Enough
  <2>4. syms[p.next].cost + syms[p.next].late <= Len(fed)
    <3>1. PICK c, l : c = syms[p.next].cost /\ l = syms[p.next].late
      OBVIOUS
    <3>2. c \in Nat /\ l \in {0, 1} /\ c + l <= RequiredMax
      BY <1>3, <3>1
    <3>3. c + l <= Len(fed)
      BY <1>4, <1>7, <1>9, <2>3, <3>2
    <3>4. QED
      BY <3>1, <3>3
  <2>5. QED
    BY <1>11, <1>12, <2>1, <2>2, <2>3, <2>4
<1>13. CASE ~(Enough(fed) /\ ~Full)
  <2>1. CASE TryDummy(fed) = "error"
    <3>1. p' = [p EXCEPT !.tempBuf = fed] /\ Returns("ok", "input", f.in_size)
      BY <1>5, <1>13, <2>1 DEF FromSrc
    <3>2. p' \in Decoders(syms) /\ SameText(p', p) /\ ~p'.needFlush /\ p'.tempBuf = fed
          /\ p'.next = p.next /\ p'.coded = p.coded
      BY <1>1, <1>4, <1>9, <3>1 DEF Decoders, SameText
    <3>3. pc' = "fromDic" /\ call'.src = f.in_size /\ call'.res = "ok"
      BY <1>2, <3>1 DEF Returns, DecoderTypes
    <3>4. Here' = Place(call.src + n)
      BY <1>1, <1>7, <3>3 DEF Here, Place, InCall
    <3>5. syms[p.next].cost + syms[p.next].late > n
      BY <1>1, <1>9, <2>1, DummyIs
    <3>6. n < RequiredMax
      <4>1. PICK c, l : c = syms[p.next].cost /\ l = syms[p.next].late
        OBVIOUS
      <4>2. c \in Nat /\ l \in {0, 1} /\ c + l <= RequiredMax /\ c + l > n
        BY <1>3, <3>5, <4>1
      <4>3. QED
        BY <1>4, <1>7, <4>2
    <3>7. Kept(syms, p', Here')
      BY <1>3, <1>8, <1>9, <3>2, <3>4, <3>5, <3>6 DEF Kept
    <3>8. ~astray'
      BY <1>1, <1>2 DEF BytesOK
    <3>9. BytesOK'
      BY <1>1, <3>2, <3>3, <3>7, <3>8, BytesKept
    <3>10. "ok" \in {"ok", "data"} /\ "input" \in Statuses /\ pc \in {"dic", "real"} /\ f.in_size <= f.in_size
           /\ f.in_pos <= f.in_size
      BY <1>2, <1>3, <1>4 DEF Statuses, RoomOK
    <3>11. QED
      BY <1>1, <1>4, <3>1, <3>2, <3>9, <3>10, ReturnKeeps
  <2>2. CASE TryDummy(fed) # "error" /\ Full /\ TryDummy(fed) # "match"
    <3>1. UNCHANGED p /\ Returns("data", "not finished", call.src)
      BY <1>5, <1>13, <2>2 DEF FromSrc
    <3>2. p' \in Decoders(syms) /\ SameText(p', p)
      BY <1>4, <3>1 DEF SameText
    <3>3. pc' = "fromDic" /\ call'.src = call.src /\ call'.res = "data"
      BY <1>2, <3>1 DEF Returns, DecoderTypes
    <3>4. Here' = Here
      BY <1>1, <1>3, <3>3 DEF Here, Place, InCall
    <3>5. BytesOK'
      BY <1>1, <1>2, <1>3, <3>1, <3>3, <3>4, BytesStay
    <3>6. "data" \in {"ok", "data"} /\ "not finished" \in Statuses /\ pc \in {"dic", "real"}
      BY <1>3 DEF Statuses
    <3>7. QED
      BY <1>1, <1>3, <1>4, <3>1, <3>2, <3>5, <3>6, ReturnKeeps
  <2>3. CASE TryDummy(fed) # "error" /\ ~(Full /\ TryDummy(fed) # "match")
    <3>1. Decode(fed, 0, FALSE, 0) /\ UNCHANGED p
      BY <1>5, <1>13, <2>3 DEF FromSrc
    <3>2. syms[p.next].cost + syms[p.next].late <= Len(fed) /\ (Full => syms[p.next].kind \in {"match", "mark"})
      BY <1>1, <1>9, <2>3, DummyIs
    <3>3. QED
      BY <1>11, <3>1, <3>2
  <2>4. QED
    BY <2>1, <2>2, <2>3
<1>14. QED
  BY <1>12, <1>13

LEMMA FromTempKeeps ==
  ASSUME DecoderInv, FromTemp PROVE DecoderInv'
<1>1. /\ InLoop /\ ~p.needFlush /\ p.tempBuf # <<>> /\ (Full => EndMarkNow)
      /\ UNCHANGED <<stream, inbuf_size, f, asked, got, result, astray>>
  BY DEF FromTemp
<1>2. DecoderTypes /\ RoomOK /\ BytesOK
  BY DEF DecoderInv
<1>3. /\ ~AllDone /\ p.next \in 1 .. Len(syms) /\ Sound /\ InCall /\ pc = "dic"
      /\ syms[p.next].cost \in Nat /\ syms[p.next].late \in {0, 1}
      /\ syms[p.next].cost + syms[p.next].late <= RequiredMax
      /\ p.coded + Len(p.tempBuf) = Place(call.src)
      /\ p.coded = Coded(syms)[p.next - 1]
      /\ Len(p.tempBuf) < RequiredMax
      /\ \A k \in 1 .. Len(p.tempBuf) : p.tempBuf[k] = p.coded + k - 1
      /\ syms[p.next].cost + syms[p.next].late > Len(p.tempBuf)
      /\ f.in_pos <= call.src /\ call.src <= f.in_size
  BY <1>1, GoesOn
<1>4. /\ p \in Decoders(syms) /\ syms \in Seq(Format) /\ p.coded \in Nat /\ call.src \in Nat
      /\ f.in_size \in Nat /\ RequiredMax \in Nat \ {0} /\ f.in_pos \in Nat
      /\ p.tempBuf \in Seq(Nat) /\ Len(p.tempBuf) \in Nat
  BY <1>2, DecoderIs, TypesAre, Sizes
<1>5. PICK temp, t, src, size, place, first, needs :
        /\ temp = p.tempBuf /\ t = Len(p.tempBuf) /\ src = call.src /\ size = f.in_size
        /\ place = Place(call.src) /\ first = p.coded
        /\ needs = syms[p.next].cost + syms[p.next].late
  OBVIOUS
<1>6. /\ t \in Nat /\ src \in Nat /\ size \in Nat /\ src <= size /\ t < RequiredMax /\ RequiredMax \in Nat
      /\ first \in Nat /\ first + t = place /\ needs \in Nat /\ needs <= RequiredMax /\ needs > t
  <2>1. /\ t \in Nat /\ src \in Nat /\ size \in Nat /\ src <= size /\ t < RequiredMax /\ RequiredMax \in Nat
        /\ first \in Nat /\ first + t = place
    BY <1>3, <1>4, <1>5
  <2>2. PICK c, l : c = syms[p.next].cost /\ l = syms[p.next].late
    OBVIOUS
  <2>3. c \in Nat /\ l \in {0, 1} /\ needs = c + l /\ needs <= RequiredMax /\ needs > t
    BY <1>3, <1>5, <2>2
  <2>4. needs \in Nat
    BY <2>3
  <2>5. QED
    BY <2>1, <2>3, <2>4
<1>7. PICK n : n = LessOf(RequiredMax - t, size - src)
  OBVIOUS
<1>8. n \in Nat /\ n <= RequiredMax - t /\ n <= size - src /\ src + n <= size /\ src + n \in Nat
  <2>1. RequiredMax - t \in Nat /\ size - src \in Nat
    BY <1>6
  <2>2. n \in Nat /\ n <= RequiredMax - t /\ n <= size - src
    BY <1>7, <2>1 DEF LessOf
  <2>3. QED
    BY <1>6, <2>2
<1>9. PICK in : in = InBuf(src, n)
  OBVIOUS
<1>10. /\ in \in Seq(Nat) /\ Len(in) = n /\ place \in Nat /\ Place(src + n) = place + n
       /\ \A k \in 1 .. n : in[k] = place + k - 1
  <2>1. src + n <= f.in_size /\ place = Place(src)
    BY <1>5, <1>8
  <2>2. src \in Nat /\ n \in Nat
    BY <1>6, <1>8
  <2>3. /\ in \in Seq(Nat) /\ Len(in) = n /\ Place(src) \in Nat /\ Place(src + n) = Place(src) + n
        /\ \A k \in 1 .. n : in[k] = Place(src) + k - 1
    BY <1>2, <1>9, <2>1, <2>2, InBufIs
  <2>4. QED
    BY <2>1, <2>3
<1>11. PICK fed : fed = temp \o in
  OBVIOUS
<1>12. fed \in Seq(Nat) /\ Len(fed) = t + n /\ \A k \in 1 .. t + n : fed[k] = first + k - 1
  <2>1. temp \in Seq(Nat) /\ Len(temp) = t
    BY <1>4, <1>5
  <2>2. (\A k \in 1 .. Len(temp) : temp[k] = first + k - 1) /\ first + Len(temp) = place
    BY <1>3, <1>5, <1>6
  <2>3. \A k \in 1 .. Len(in) : in[k] = place + k - 1
    BY <1>10
  <2>4. fed \in Seq(Nat) /\ Len(fed) = Len(temp) + Len(in) /\ \A k \in 1 .. Len(fed) : fed[k] = first + k - 1
    <3>1. in \in Seq(Nat) /\ first \in Nat /\ temp \in Seq(Nat)
      BY <1>6, <1>10, <2>1
    <3>2. /\ fed = temp \o in
          /\ \A k \in 1 .. Len(temp) : temp[k] = first + k - 1
          /\ \A k \in 1 .. Len(in) : in[k] = first + Len(temp) + k - 1
      BY <1>11, <2>2, <2>3
    <3>3. QED
      BY <3>1, <3>2, Behind
  <2>5. QED
    BY <1>10, <2>1, <2>4
<1>13. /\ p' = [p EXCEPT !.tempBuf = fed]
       /\ IF Enough(fed) /\ ~Full THEN Decode(fed, 0, TRUE, n)
          ELSE CASE TryDummy(fed) = "error" -> Returns("ok", "input", src + n)
                 [] TryDummy(fed) # "error" /\ Full /\ TryDummy(fed) # "match" ->
                      Returns("data", "not finished", src)
                 [] OTHER -> Decode(fed, 0, TRUE, n)
  <2>1. n = LessOf(RequiredMax - Len(p.tempBuf), Left)
    BY <1>5, <1>7 DEF Left
  <2>2. fed = p.tempBuf \o InBuf(call.src, n)
    BY <1>5, <1>9, <1>11
  <2>3. QED
    BY <1>5, <2>1, <2>2 DEF FromTemp
<1>14. p' \in Decoders(syms) /\ SameText(p', p) /\ ~p'.needFlush /\ p'.tempBuf = fed
       /\ p'.next = p.next /\ p'.coded = p.coded
  BY <1>1, <1>4, <1>12, <1>13 DEF Decoders, SameText
<1>15. syms' = syms /\ ~astray'
  BY <1>1, <1>2 DEF syms, BytesOK
<1>16. t + n \in Nat /\ (t + n) - n = t /\ first + (t + n) = place + n
  BY <1>6, <1>8
<1>17. ASSUME Decode(fed, 0, TRUE, n), Full => syms[p.next].kind \in {"match", "mark"}, needs <= t + n
       PROVE  DecoderInv'
  <2>1. 0 \in Nat /\ TRUE \in BOOLEAN
    OBVIOUS
  <2>2. \A k \in 1 .. Len(fed) : fed[k] = p.coded + k - 1
    BY <1>5, <1>12
  <2>3. /\ p.coded + Len(fed) = Place(call.src) + n /\ call.src + n <= f.in_size
        /\ syms[p.next].cost + syms[p.next].late > Len(fed) - n
        /\ syms[p.next].cost + syms[p.next].late <= Len(fed)
    BY <1>5, <1>6, <1>8, <1>12, <1>16, <1>17
  <2>4. Full => EndMarkNow /\ syms[p.next].kind \in {"match", "mark"}
    BY <1>1, <1>17
  <2>5. QED
    BY <1>1, <1>3, <1>8, <1>12, <1>14, <1>17, <2>1, <2>2, <2>3, <2>4, DecodeKeeps
<1>18. CASE Enough(fed) /\ ~Full
  <2>1. Decode(fed, 0, TRUE, n)
    BY <1>13, <1>18
  <2>2. needs <= t + n
    <3>1. t + n >= RequiredMax
      BY <1>12, <1>18 DEF Enough
    <3>2. QED
      BY <1>6, <1>16, <3>1
  <2>3. QED
    BY <1>17, <1>18, <2>1, <2>2
<1>19. CASE ~(Enough(fed) /\ ~Full)
  <2>1. CASE TryDummy(fed) = "error"
    <3>1. Returns("ok", "input", src + n)
      BY <1>13, <1>19, <2>1
    <3>2. pc' = "fromDic" /\ call'.src = src + n /\ call'.res = "ok"
      BY <1>2, <3>1 DEF Returns, DecoderTypes
    <3>3. Here' = place + n
      <4>1. Here' = Place(src + n)
        BY <1>1, <3>2 DEF Here, Place, InCall
      <4>2. QED
        BY <1>10, <4>1
    <3>4. needs > t + n /\ t + n < RequiredMax
      <4>1. needs > Len(fed)
        BY <1>1, <1>5, <1>12, <2>1, DummyIs
      <4>2. QED
        BY <1>6, <1>12, <1>16, <4>1
    <3>5. Kept(syms, p', Here')
      BY <1>3, <1>5, <1>12, <1>14, <1>16, <3>3, <3>4 DEF Kept
    <3>6. BytesOK'
      BY <1>1, <1>14, <1>15, <3>2, <3>5, BytesKept
    <3>7. "ok" \in {"ok", "data"} /\ "input" \in Statuses /\ pc \in {"dic", "real"}
          /\ src + n <= f.in_size /\ f.in_pos <= src + n
      <4>1. f.in_pos <= src
        BY <1>3, <1>5
      <4>2. f.in_pos <= src + n
        BY <1>4, <1>6, <1>8, <4>1
      <4>3. QED
        BY <1>3, <1>5, <1>8, <4>2 DEF Statuses
    <3>8. QED
      BY <1>1, <1>8, <1>14, <3>1, <3>6, <3>7, ReturnKeeps
  <2>2. CASE TryDummy(fed) # "error" /\ Full /\ TryDummy(fed) # "match"
    <3>1. Returns("data", "not finished", call.src)
      BY <1>5, <1>13, <1>19, <2>2
    <3>2. pc' = "fromDic" /\ call'.src = call.src /\ call'.res = "data"
      BY <1>2, <3>1 DEF Returns, DecoderTypes
    <3>3. ~Sound'
      BY <3>2 DEF Sound
    <3>4. BytesOK'
      BY <1>14, <1>15, <3>2, <3>3 DEF BytesOK
    <3>5. "data" \in {"ok", "data"} /\ "not finished" \in Statuses /\ pc \in {"dic", "real"}
      BY <1>3 DEF Statuses
    <3>6. QED
      BY <1>1, <1>3, <1>4, <1>14, <3>1, <3>4, <3>5, ReturnKeeps
  <2>3. CASE TryDummy(fed) # "error" /\ ~(Full /\ TryDummy(fed) # "match")
    <3>1. Decode(fed, 0, TRUE, n)
      BY <1>13, <1>19, <2>3
    <3>2. needs <= Len(fed) /\ (Full => syms[p.next].kind \in {"match", "mark"})
      BY <1>1, <1>5, <1>12, <2>3, DummyIs
    <3>3. QED
      BY <1>12, <1>17, <3>1, <3>2
  <2>4. QED
    BY <2>1, <2>2, <2>3
<1>20. QED
  BY <1>18, <1>19

\* A text that goes on leaves in place what the dictionary holds of it.
LEMMA HoldsLonger ==
  ASSUME NEW d, NEW text, NEW more, d.processedPos \in Nat, d.processedPos <= Len(text), Len(text) \in Nat,
         Holds(d, text), Begins(text, more)
  PROVE  Holds(d, more)
<1>1. SUFFICES ASSUME NEW j \in 1 .. LessOf(d.processedPos, DicBufSize)
               PROVE  At(d, j) = more[d.processedPos + 1 - j]
  BY DEF Holds
<1>2. At(d, j) = text[d.processedPos + 1 - j]
  BY DEF Holds
<1>3. d.processedPos + 1 - j \in 1 .. Len(text)
  <2>1. PICK P, n : P = d.processedPos /\ n = Len(text)
    OBVIOUS
  <2>2. P \in Nat /\ n \in Nat /\ P <= n
    BY <2>1
  <2>3. j \in Int /\ 1 <= j /\ j <= P
    <3>1. DicBufSize \in Int /\ P \in Int /\ j \in Int
      BY <2>2, Sizes
    <3>2. j \in 1 .. LessOf(P, DicBufSize)
      BY <2>1
    <3>3. QED
      BY <3>1, <3>2, LessIs
  <2>4. P + 1 - j \in 1 .. n
    BY <2>2, <2>3
  <2>5. QED
    BY <2>1, <2>4
<1>4. QED
  BY <1>2, <1>3 DEF Begins

\* A byte is written behind the others.
LEMMA ByteHolds ==
  ASSUME NEW d, NEW text \in Seq(Nat), NEW byte \in Nat, NEW e,
         d.dic \in [0 .. DicBufSize - 1 -> Nat], d.dicPos \in Nat, d.processedPos \in Nat,
         d.dicPos < DicBufSize, Len(text) = d.processedPos, Holds(d, text),
         e.dic = [d.dic EXCEPT ![d.dicPos] = byte],
         e.dicPos = d.dicPos + 1, e.processedPos = d.processedPos + 1
  PROVE  Holds(e, Append(text, byte))
<1>1. PICK P, D, B, dic, more : /\ P = d.processedPos /\ D = d.dicPos /\ B = DicBufSize /\ dic = e.dic
                                /\ more = Append(text, byte)
  OBVIOUS
<1>2. P \in Nat /\ D \in Nat /\ B \in Nat /\ D < B
  BY <1>1, Sizes
<1>3. more[P + 1] = byte /\ \A i \in 1 .. P : more[i] = text[i]
  <2>1. Len(text) = P
    BY <1>1
  <2>2. QED
    BY <1>1, <2>1
<1>4. dic[D] = byte /\ \A i \in 0 .. B - 1 : i # D => dic[i] = d.dic[i]
  BY <1>1, <1>2
<1>5. SUFFICES ASSUME NEW j \in 1 .. LessOf(P + 1, B)
               PROVE  At(e, j) = more[P + 2 - j]
  <2>1. P + 1 + 1 = P + 2
    BY <1>2
  <2>2. ASSUME NEW j \in Int PROVE P + 1 + 1 - j = P + 2 - j
    BY <1>2
  <2>3. \A j \in 1 .. LessOf(P + 1, B) : j \in Int
    OBVIOUS
  <2>4. QED
    BY <1>1, <2>2, <2>3, ZenonT(60) DEF Holds
<1>6. j \in Int /\ 1 <= j /\ j <= P + 1 /\ j <= B
  BY <1>2, LessIs
<1>7. At(e, j) = dic[D + 1 - j + (IF D + 1 < j THEN B ELSE 0)]
  BY <1>1 DEF At
<1>8. CASE j = 1
  <2>1. D + 1 - j + 0 = D /\ ~(D + 1 < j) /\ P + 2 - j = P + 1
    BY <1>2, <1>8
  <2>2. QED
    BY <1>3, <1>4, <1>7, <2>1
<1>9. CASE j # 1
  <2>1. PICK i : i = j - 1
    OBVIOUS
  <2>2. /\ i \in Int /\ 1 <= i /\ i <= P /\ i <= B - 1 /\ P + 2 - j = P + 1 - i /\ P + 1 - i \in 1 .. P
        /\ D + 1 - j = D - i /\ (D + 1 < j <=> D < i)
    BY <1>2, <1>6, <1>9, <2>1
  <2>3. i \in 1 .. LessOf(P, B)
    <3>1. i <= B
      BY <1>2, <2>2
    <3>2. QED
      BY <1>2, <2>2, <3>1, LessIs
  <2>4. At(d, i) = text[P + 1 - i]
    BY <1>1, <2>3 DEF Holds
  <2>5. At(d, i) = d.dic[D - i + (IF D < i THEN B ELSE 0)]
    BY <1>1 DEF At
  <2>6. PICK x : x = D - i + (IF D < i THEN B ELSE 0)
    OBVIOUS
  <2>7. x \in 0 .. B - 1 /\ x # D
    BY <1>2, <2>2, <2>6
  <2>8. dic[x] = d.dic[x]
    BY <1>4, <2>7
  <2>9. At(e, j) = dic[x]
    BY <1>7, <2>2, <2>6
  <2>10. QED
    BY <1>3, <2>2, <2>4, <2>5, <2>6, <2>8, <2>9
<1>10. QED
  BY <1>8, <1>9

\* As much of a match as there is room for, and what is left of it.
LEMMA CopyHistory ==
  ASSUME NEW s \in Seq(Format), NEW d \in Decoders(s), History(s, d), d.remainLen = 0, d.next \in 1 .. Len(s),
         NEW dist \in 1 .. DicSize, dist <= d.processedPos, NEW len \in 1 .. SpecStart - 1, NEW n \in 0 .. len,
         NEW reps \in [0 .. 3 -> 1 .. DicSize], reps[0] = dist,
         \A k \in 0 .. 3 : reps[k] = 1 \/ reps[k] <= d.processedPos,
         Meaning(s)[d.next] = [text |-> Copied(Meaning(s)[d.next - 1].text, dist, len), reps |-> reps, ok |-> TRUE],
         d.dicPos + n <= DicBufSize, NEW e,
         e.dic = CopyDic(d, dist, n), e.dicPos = d.dicPos + n, e.processedPos = d.processedPos + n,
         e.remainLen = len - n, e.reps = reps, e.next = d.next + 1
  PROVE  e.dic \in [0 .. DicBufSize - 1 -> Nat] /\ History(s, e)
<1>1. /\ d.dic \in [0 .. DicBufSize - 1 -> Nat] /\ d.dicPos \in 0 .. DicBufSize /\ d.processedPos \in Nat
      /\ DicBufSize \in Nat /\ DicSize \in Nat \ {0} /\ SpecStart \in Nat /\ Len(s) \in Nat
      /\ d.next \in Nat
  <2>1. /\ d.dic \in [0 .. DicBufSize - 1 -> Nat] /\ d.dicPos \in 0 .. DicBufSize /\ d.processedPos \in Nat
    BY DEF Decoders
  <2>2. DicBufSize \in Nat /\ DicSize \in Nat \ {0} /\ SpecStart \in Nat
    BY Sizes, SpecIs
  <2>3. Len(s) \in Nat
    OBVIOUS
  <2>4. d.next \in Nat
    BY <2>3
  <2>5. QED
    BY <2>1, <2>2, <2>3, <2>4
<1>2. PICK P, D : P = d.processedPos /\ D = d.dicPos
  OBVIOUS
<1>3. /\ P \in Nat /\ D \in Nat /\ dist \in Nat \ {0} /\ dist <= P /\ len \in Nat /\ n \in Nat /\ n <= len
      /\ 1 <= len /\ len < SpecStart /\ D + n <= DicBufSize
  BY <1>1, <1>2
<1>4. PICK old, text : old = Meaning(s)[d.next - 1].text /\ text = Copied(old, dist, len)
  OBVIOUS
<1>5. old \in Seq(Nat) /\ Len(old) \in Nat
  BY <1>4, KnownIs
<1>6. Rest(d) = 0
  BY <1>1 DEF Rest
<1>7. Len(old) = P /\ Holds(d, old)
  <2>1. Len(old) = P + 0 /\ Holds(d, old)
    BY <1>2, <1>4, <1>6 DEF History
  <2>2. QED
    BY <1>3, <2>1
<1>8. /\ text \in Seq(Nat) /\ Len(text) = P + len
      /\ \A i \in 1 .. P : text[i] = old[i]
      /\ \A k \in 0 .. len - 1 : text[P + 1 + k] = old[P + 1 - dist + (k % dist)]
  <2>1. dist \in 1 .. Len(old)
    BY <1>3, <1>7
  <2>2. len \in Nat
    BY <1>3
  <2>3. /\ text \in Seq(Nat) /\ Len(text) = Len(old) + len
        /\ \A i \in 1 .. Len(old) : text[i] = old[i]
        /\ \A k \in 0 .. len - 1 : text[Len(old) + 1 + k] = old[Len(old) + 1 - dist + (k % dist)]
    <3>1. /\ Copied(old, dist, len) \in Seq(Nat) /\ Len(Copied(old, dist, len)) = Len(old) + len
          /\ \A i \in 1 .. Len(old) : Copied(old, dist, len)[i] = old[i]
          /\ \A k \in 0 .. len - 1 :
               Copied(old, dist, len)[Len(old) + 1 + k] = old[Len(old) + 1 - dist + (k % dist)]
      BY ONLY <1>5, <2>1, <2>2, CopiedIs
    <3>2. QED
      BY <1>4, <3>1
  <2>4. QED
    BY <1>7, <2>3
<1>9. Repeats(text, P, dist, len)
  <2>1. SUFFICES ASSUME NEW k \in 0 .. len - 1
                 PROVE  text[P + 1 + k] = text[P + 1 - dist + (k % dist)]
    BY DEF Repeats
  <2>2. k \in Nat
    BY <1>3
  <2>3. k % dist \in 0 .. dist - 1
    BY <1>3, <2>2, DivMod
  <2>4. PICK r : r = k % dist
    OBVIOUS
  <2>5. r \in 0 .. dist - 1
    BY <2>3, <2>4
  <2>6. P + 1 - dist + r \in 1 .. P
    BY <1>3, <2>5
  <2>7. text[P + 1 + k] = old[P + 1 - dist + r]
    BY <1>8, <2>4
  <2>8. old[P + 1 - dist + r] = text[P + 1 - dist + r]
    BY <1>8, <2>6
  <2>9. QED
    BY <2>4, <2>7, <2>8
<1>10. Holds(d, text)
  <2>1. Begins(old, text)
    BY <1>3, <1>7, <1>8 DEF Begins
  <2>2. d.processedPos <= Len(old) /\ d.processedPos \in Nat
    BY <1>2, <1>3, <1>7
  <2>3. QED
    BY <1>5, <1>7, <2>1, <2>2, HoldsLonger
<1>11. Repeats(text, P, dist, n)
  <2>1. \A k \in 0 .. n - 1 : k \in 0 .. len - 1
    BY <1>3
  <2>2. QED
    BY <1>9, <2>1 DEF Repeats
<1>12. e.dic \in [0 .. DicBufSize - 1 -> Nat] /\ Holds(e, text)
  <2>1. P + n <= Len(text)
    BY <1>3, <1>8
  <2>2. /\ d.dicPos \in Nat /\ d.dicPos + n <= DicBufSize /\ d.processedPos + n <= Len(text)
        /\ Repeats(text, d.processedPos, dist, n)
    BY <1>2, <1>3, <1>11, <2>1
  <2>3. QED
    BY <1>1, <1>2, <1>3, <1>8, <1>10, <2>2, CopyHolds
<1>13. Repeats(text, P + n, dist, len - n)
  <2>1. n \in 0 .. len
    OBVIOUS
  <2>2. QED
    BY <1>3, <1>9, <2>1, RepeatsOn
<1>14. Rest(e) = len - n /\ e.remainLen # SpecStart
  <2>1. len - n # SpecStart
    BY <1>1, <1>3
  <2>2. QED
    BY <2>1 DEF Rest
<1>15. e.next - 1 = d.next
  <2>1. (d.next + 1) - 1 = d.next
    BY <1>1
  <2>2. QED
    BY <2>1
<1>16. Meaning(s)[e.next - 1] = [text |-> text, reps |-> reps, ok |-> TRUE]
  BY <1>4, <1>15
<1>17. Len(text) = e.processedPos + Rest(e)
  <2>1. P + len = (P + n) + (len - n)
    BY <1>3
  <2>2. QED
    BY <1>2, <1>8, <1>14, <2>1
<1>18. Repeats(text, e.processedPos, e.reps[0], Rest(e))
  BY <1>2, <1>13, <1>14
<1>19. \A k \in 0 .. 3 : e.reps[k] = 1 \/ e.reps[k] <= e.processedPos
  <2>1. SUFFICES ASSUME NEW k \in 0 .. 3 PROVE e.reps[k] = 1 \/ e.reps[k] <= e.processedPos
    OBVIOUS
  <2>2. PICK r : r = reps[k]
    OBVIOUS
  <2>3. r \in Nat /\ (r = 1 \/ r <= P)
    <3>1. r \in 1 .. DicSize
      BY <2>2
    <3>2. r = 1 \/ r <= P
      BY <1>2, <2>2
    <3>3. QED
      BY <1>1, <3>1, <3>2
  <2>4. r = 1 \/ r <= P + n
    BY <1>3, <2>3
  <2>5. QED
    BY <1>2, <2>2, <2>4
<1>20. e.processedPos > 0
  BY <1>2, <1>3
<1>21. QED
  BY <1>12, <1>14, <1>16, <1>17, <1>18, <1>19, <1>20 DEF History

\* The range coder gets what comes next in the stream.
LEMMA NotWrong ==
  ASSUME DecoderTypes, NEW n \in Nat, call.used + n <= Len(call.fed),
         \A k \in 1 .. Len(call.fed) : call.fed[k] = p.coded - call.used + k - 1
  PROVE  ~Wrong(n)
<1>1. PICK u, c, l : u = call.used /\ c = p.coded /\ l = Len(call.fed)
  OBVIOUS
<1>2. u \in Nat /\ c \in Nat /\ l \in Nat /\ u + n <= l
  BY <1>1, TypesAre, DecoderIs
<1>3. ASSUME NEW i \in 1 .. n PROVE call.fed[u + i] = c + i - 1
  <2>1. u + i \in 1 .. l /\ c - u + (u + i) - 1 = c + i - 1
    BY ONLY <1>2, n \in Nat, i \in 1 .. n
  <2>2. call.fed[u + i] = c - u + (u + i) - 1
    BY <1>1, <2>1
  <2>3. QED
    BY <2>1, <2>2
<1>4. ~(u + n > l)
  BY ONLY <1>2, n \in Nat
<1>5. QED
  BY <1>1, <1>3, <1>4 DEF Wrong

LEMMA RealIs ==
  ASSUME DecoderInv, pc = "real"
  PROVE  /\ p.next \in 1 .. Len(syms) /\ syms[p.next] \in Format
         /\ syms[p.next].cost \in Nat /\ syms[p.next].late \in {0, 1}
         /\ syms[p.next].cost + syms[p.next].late <= RequiredMax
         /\ InCall /\ InDic /\ Sound /\ p.remainLen = 0 /\ Checked(p)
         /\ call.src \in Nat /\ f.in_pos <= call.src /\ call.src <= f.in_size
         /\ ~Wrong(call.owed + syms[p.next].cost)
<1>1. DecoderTypes /\ RoomOK /\ CountOK /\ HistoryOK /\ CheckOK /\ BytesOK
  BY DEF DecoderInv
<1>2. InCall /\ InDic /\ Sound /\ p.remainLen = 0 /\ Checked(p) /\ ~AllDone
  BY <1>1 DEF InCall, InDic, CountOK, CheckOK
<1>3. syms \in Seq(Format) /\ p.next \in 1 .. Len(syms) + 1 /\ Len(syms) \in Nat /\ stream \in Streams
  <2>1. stream \in Streams
    BY <1>1 DEF DecoderTypes
  <2>2. QED
    BY <1>1, <2>1, DecoderIs, StreamIs
<1>4. p.next \in 1 .. Len(syms)
  BY <1>2, <1>3 DEF AllDone
<1>5. syms[p.next] \in Format /\ syms[p.next].cost + syms[p.next].late <= RequiredMax
  BY <1>3, <1>4, StreamIs
<1>6. syms[p.next].cost \in Nat /\ syms[p.next].late \in {0, 1}
  BY <1>5, SymbolIs
<1>7. call.src \in Nat /\ f.in_pos <= call.src /\ call.src <= f.in_size
  BY <1>1, <1>2, TypesAre DEF RoomOK
<1>8. ~Wrong(call.owed + syms[p.next].cost)
  <2>1. PICK u, o, c, l, z : /\ u = call.used /\ o = call.owed /\ c = syms[p.next].cost /\ l = syms[p.next].late
                             /\ z = Len(call.fed)
    OBVIOUS
  <2>2. u \in Nat /\ o \in {0, 1} /\ c \in Nat /\ l \in {0, 1} /\ z \in Nat
    BY <1>1, <1>6, <2>1, TypesAre
  <2>3. u + o + c + l <= z
    BY <1>1, <2>1 DEF BytesOK
  <2>4. o + c \in Nat /\ u + (o + c) <= z
    BY ONLY <2>2, <2>3
  <2>5. \A k \in 1 .. Len(call.fed) : call.fed[k] = p.coded - call.used + k - 1
    BY <1>1 DEF BytesOK
  <2>6. QED
    BY <1>1, <2>1, <2>4, <2>5, NotWrong
<1>9. QED
  BY <1>2, <1>4, <1>5, <1>6, <1>7, <1>8

\* A symbol has been decoded, and k bytes of it written.
LEMMA SymbolKeeps ==
  ASSUME DecoderInv, pc = "real", NEW k \in Nat, NEW n, n = call.owed + syms[p.next].cost,
         p' \in Decoders(syms), History(syms, p'), p'.dicPos = p.dicPos + k,
         p'.processedPos = p.processedPos + k, p.dicPos + k <= call.limit2,
         p'.next = p.next + 1, p'.coded = p.coded + n, p'.needFlush = p.needFlush,
         p'.tempBuf = p.tempBuf, p'.checkDicSize = p.checkDicSize,
         p'.remainLen \in {0, SpecStart} \/ p'.dicPos = call.limit2,
         p'.remainLen = SpecStart => syms[p.next].kind = "mark",
         call' = [call EXCEPT !.used = @ + n, !.owed = syms[p.next].late],
         pc' = IF syms[p.next].kind # "mark" /\ p'.dicPos < call.limit2 /\ call.used + n < call.bufLimit
                 THEN "real" ELSE "real2",
         UNCHANGED <<stream, inbuf_size, f, asked, got, result, astray>>
  PROVE  DecoderInv'
<1>1. DecoderTypes /\ RoomOK /\ CountOK /\ DeliveredOK /\ HistoryOK /\ CheckOK /\ BytesOK
  BY DEF DecoderInv
<1>2. /\ p.next \in 1 .. Len(syms) /\ InCall /\ InDic /\ Sound /\ Checked(p)
      /\ syms[p.next].cost \in Nat /\ syms[p.next].late \in {0, 1}
  BY RealIs
<1>3. /\ p.dicPos \in Nat /\ p.processedPos \in Nat /\ p.checkDicSize \in {0, DicSize} /\ p.coded \in Nat
      /\ p.next \in Nat /\ syms \in Seq(Format) /\ Len(syms) \in Nat
  BY <1>1, <1>2, DecoderIs
<1>4. /\ call.used \in Nat /\ call.owed \in {0, 1} /\ call.bufLimit \in Nat /\ call.limit2 \in Nat
      /\ Len(call.fed) \in Nat /\ call.temp \in BOOLEAN /\ call.dicLimit \in 0 .. DicBufSize
      /\ call.dicStart \in 0 .. DicBufSize /\ Len(got) \in Nat /\ Len(call.made) \in Nat
      /\ call.lookAhead \in Nat
      /\ DicBufSize \in Nat /\ DicSize \in Nat \ {0} /\ RequiredMax \in Nat
  BY <1>1, TypesAre, Sizes
<1>5. PICK D, P, L, L2, S, G, M : /\ D = p.dicPos /\ P = p.processedPos /\ L = call.dicLimit /\ L2 = call.limit2
                                  /\ S = call.dicStart /\ G = Len(got) /\ M = Len(call.made)
  OBVIOUS
<1>6. PICK u, o, c, l, z, x, b : /\ u = call.used /\ o = call.owed /\ c = syms[p.next].cost /\ l = syms[p.next].late
                                 /\ z = Len(call.fed) /\ x = p.coded /\ b = call.bufLimit
  OBVIOUS
<1>7. /\ D \in Nat /\ P \in Nat /\ L \in Nat /\ L2 \in Nat /\ S \in Nat /\ G \in Nat /\ M \in Nat
      /\ D <= L2 /\ L2 <= L /\ D + k <= L2 /\ S <= D /\ P = G + M + (D - S)
      /\ p.checkDicSize = 0 => P + (L2 - D) <= DicSize
  <2>1. D \in Nat /\ P \in Nat /\ L \in Nat /\ L2 \in Nat /\ S \in Nat /\ G \in Nat /\ M \in Nat
    BY <1>3, <1>4, <1>5
  <2>2. D <= L2 /\ L2 <= L /\ (p.checkDicSize = 0 => P + (L2 - D) <= DicSize)
    BY <1>1, <1>5 DEF CheckOK
  <2>3. S <= D
    BY <1>1, <1>2, <1>5 DEF RoomOK
  <2>4. P = G + M + (D - S)
    BY <1>1, <1>2, <1>5 DEF CountOK
  <2>5. QED
    BY <1>5, <2>1, <2>2, <2>3, <2>4
<1>8. /\ u \in Nat /\ o \in {0, 1} /\ c \in Nat /\ l \in {0, 1} /\ z \in Nat /\ x \in Nat /\ b \in Nat
      /\ n = o + c /\ u + o + c + l <= z
  <2>1. u + o + c + l <= z
    BY <1>1, <1>6 DEF BytesOK
  <2>2. QED
    BY <1>2, <1>3, <1>4, <1>6, <2>1
<1>9. n \in Nat /\ u + n \in Nat /\ (u + n) + l <= z /\ (x + n) - (u + n) = x - u
  BY ONLY <1>8
<1>10. /\ call'.src = call.src /\ call'.outSize = call.outSize /\ call'.finish = call.finish
       /\ call'.made = call.made /\ call'.dicStart = call.dicStart /\ call'.dicLimit = call.dicLimit
       /\ call'.curFinish = call.curFinish /\ call'.res = call.res
       /\ call'.fed = call.fed /\ call'.used = u + n /\ call'.bufLimit = b /\ call'.owed = l
       /\ call'.limit2 = L2 /\ call'.temp = call.temp /\ call'.lookAhead = call.lookAhead
  BY <1>1, <1>5, <1>6 DEF DecoderTypes
<1>11. syms' = syms /\ InCall' /\ InDic' /\ Sound' /\ pc' \in {"real", "real2"} /\ ~astray' /\ ~p.needFlush
  BY <1>1, <1>2, <1>10 DEF syms, InCall, InDic, Sound, BytesOK, CheckOK
<1>12. DecoderTypes'
  <2>1. u + n \in Nat /\ l \in {0, 1}
    BY <1>8, <1>9
  <2>2. call' \in [src : Nat, outSize : Nat, finish : {"any", "end"}, made : Seq(Nat),
               dicStart : 0 .. DicBufSize, dicLimit : 0 .. DicBufSize, curFinish : {"any", "end"},
               res : {"ok", "data", "fail"},
               status : {"none", "input", "mark", "maybe finished", "not finished"},
               fed : Seq(Nat), used : Nat, bufLimit : Nat, limit2 : Nat, owed : {0, 1},
               temp : BOOLEAN, lookAhead : Nat]
    BY <1>1, <1>6, <2>1 DEF DecoderTypes
  <2>3. QED
    BY <1>1, <1>11, <2>2 DEF DecoderTypes, States
<1>13. D + k <= L /\ S <= D + k /\ P + k = G + M + ((D + k) - S)
  BY ONLY <1>7, k \in Nat
<1>14. RoomOK'
  BY <1>1, <1>2, <1>5, <1>10, <1>11, <1>13 DEF RoomOK
<1>15. CountOK'
  <2>1. p'.processedPos = Len(got) + Len(call.made) + (p'.dicPos - call.dicStart)
    BY <1>5, <1>13
  <2>2. QED
    BY <1>10, <1>11, <2>1 DEF CountOK
<1>16. DeliveredOK'
  BY <1>1, <1>10, <1>11 DEF DeliveredOK
<1>17. HistoryOK'
  BY <1>11 DEF HistoryOK
<1>18. p.checkDicSize = 0 => (P + k) + (L2 - (D + k)) <= DicSize
  BY <1>4, <1>7, SMTT(60)
<1>19. p'.checkDicSize = DicSize => p'.processedPos >= DicSize
  <2>1. p.checkDicSize = DicSize => P >= DicSize
    BY <1>1, <1>5 DEF CheckOK
  <2>2. p.checkDicSize = DicSize => P + k >= DicSize
    BY <1>4, <1>7, <2>1, SMTT(60)
  <2>3. QED
    BY <1>5, <2>2
<1>20. pc' = "real" => /\ p'.remainLen = 0 /\ p'.dicPos < L2 /\ Checked(p') /\ u + n < b /\ syms[p.next].kind # "mark"
  <2>1. SUFFICES ASSUME pc' = "real"
                 PROVE  p'.remainLen = 0 /\ p'.dicPos < L2 /\ Checked(p') /\ u + n < b /\ syms[p.next].kind # "mark"
    OBVIOUS
  <2>2. syms[p.next].kind # "mark" /\ p'.dicPos < L2 /\ u + n < b
    BY <1>5, <1>6, <2>1
  <2>3. D + k < L2
    BY <1>5, <2>2
  <2>4. p'.remainLen = 0
    <3>1. p'.dicPos # L2
      BY <1>5, <1>7, <2>3
    <3>2. QED
      BY <1>5, <2>2, <3>1
  <2>5. p'.checkDicSize = 0 => p'.processedPos < DicSize
    <3>1. p.checkDicSize = 0 => P + k < DicSize
      <4>1. SUFFICES ASSUME P + (L2 - D) <= DicSize PROVE P + k < DicSize
        BY <1>7
      <4>2. DicSize \in Nat /\ P \in Nat /\ L2 \in Nat /\ D \in Nat /\ k \in Nat
        BY <1>4, <1>7
      <4>3. QED
        BY ONLY <2>3, <4>1, <4>2
    <3>2. QED
      BY <1>5, <3>1
  <2>6. QED
    BY <1>19, <2>2, <2>4, <2>5 DEF Checked
<1>21. pc' = "real" => p'.next \in 1 .. Len(syms)
  <2>1. SUFFICES ASSUME pc' = "real" PROVE p'.next \in 1 .. Len(syms)
    OBVIOUS
  <2>2. PICK pos, done : pos = D + k /\ done = P + k
    OBVIOUS
  <2>3. pos \in Nat /\ done = Len(got) + Len(call.made) + (pos - call.dicStart) /\ pos < call.dicLimit
    <3>1. D + k < L2
      BY <1>5, <1>20, <2>1
    <3>2. D + k < L /\ D + k \in Nat
      BY ONLY <1>7, <3>1, k \in Nat
    <3>3. done = G + M + (pos - S)
      BY <1>13, <2>2
    <3>4. QED
      BY <1>5, <2>2, <3>2, <3>3
  <2>4. done < stream.unpack
    BY <1>1, <1>2, <2>3, RoomLeft
  <2>5. p'.processedPos < stream.unpack /\ p'.remainLen = 0 /\ stream \in Streams
    BY <1>1, <1>5, <1>20, <2>1, <2>2, <2>4 DEF DecoderTypes
  <2>6. QED
    BY <2>5, NotDone
<1>22. CheckOK'
  <2>1. ~AllDone' <=> ~(p'.next > Len(syms))
    BY <1>11 DEF AllDone
  <2>2. pc' = "real" => ~(p'.next > Len(syms))
    BY <1>3, <1>21
  <2>3. p'.dicPos <= L2 /\ L2 <= L /\ (p'.checkDicSize = 0 => p'.processedPos + (L2 - p'.dicPos) <= DicSize)
    BY <1>5, <1>7, <1>18
  <2>4. p'.remainLen \in {0, SpecStart} \/ p'.dicPos = L2
    BY <1>5
  <2>5. ~p'.needFlush
    BY <1>11
  <2>6. QED
    BY <1>5, <1>10, <1>11, <1>19, <1>20, <2>1, <2>2, <2>3, <2>4, <2>5 DEF CheckOK, Checked
<1>23. BytesOK'
  <2>1. Place(call.src)' = Place(call.src)
    BY <1>10 DEF Place
  <2>2. x + o = Coded(syms)[p.next - 1]
    BY <1>1, <1>6 DEF BytesOK
  <2>3. (x + n) + l = Coded(syms)[p.next]
    <3>1. Coded(syms)[p.next] = (x + o) + c + l
      BY <1>2, <1>3, <1>6, <2>2, CodedDefined
    <3>2. (x + n) + l = (x + o) + c + l
      BY ONLY <1>8
    <3>3. QED
      BY <3>1, <3>2
  <2>4. p'.coded + call'.owed = Coded(syms)[p'.next - 1]
    <3>1. (p.next + 1) - 1 = p.next
      BY <1>3
    <3>2. QED
      BY <1>6, <1>10, <2>3, <3>1
  <2>5. p'.coded - call'.used = p.coded - call.used
    BY <1>6, <1>9, <1>10
  <2>6. /\ \A j \in 1 .. Len(call.fed) : call.fed[j] = p.coded - call.used + j - 1
        /\ ~call.temp => p.coded - call.used = Place(call.src) /\ p.tempBuf = <<>>
                         /\ Len(call.fed) = f.in_size - call.src
        /\ call.temp => /\ p.coded - call.used + Len(call.fed) = Place(call.src) + call.lookAhead
                        /\ call.src + call.lookAhead <= f.in_size
                        /\ call.bufLimit = 0
        /\ call.bufLimit = 0 \/ call.bufLimit + RequiredMax <= Len(call.fed)
        /\ call.temp => /\ call.used = 0 /\ call.owed = 0
                        /\ c + l > Len(call.fed) - call.lookAhead
    BY <1>1, <1>2, <1>6 DEF BytesOK
  <2>7. \A j \in 1 .. Len(call.fed) : call.fed[j] = p'.coded - call'.used + j - 1
    BY <2>5, <2>6
  <2>8. ~call.temp => p'.coded - call'.used = Place(call.src)
    BY <2>5, <2>6
  <2>9. call.temp => p'.coded - call'.used + Len(call.fed) = Place(call.src) + call.lookAhead
    BY <2>5, <2>6
  <2>10. ASSUME pc' = "real"
         PROVE  /\ call'.used + call'.owed + syms[p'.next].cost + syms[p'.next].late <= Len(call.fed)
                /\ ~call.temp
    <3>1. p'.next \in 1 .. Len(syms) /\ u + n < b
      BY <1>20, <1>21, <2>10
    <3>2. /\ syms[p'.next].cost \in Nat /\ syms[p'.next].late \in {0, 1}
          /\ syms[p'.next].cost + syms[p'.next].late <= RequiredMax
      <4>1. stream \in Streams
        BY <1>1 DEF DecoderTypes
      <4>2. QED
        BY <3>1, <4>1, StreamIs, SymbolIs
    <3>3. PICK c2, l2 : c2 = syms[p'.next].cost /\ l2 = syms[p'.next].late
      OBVIOUS
    <3>4. c2 \in Nat /\ l2 \in {0, 1} /\ c2 + l2 <= RequiredMax
      BY <3>2, <3>3
    <3>5. b # 0
      BY <1>8, <1>9, <3>1
    <3>6. b + RequiredMax <= z /\ ~call.temp
      BY <1>6, <2>6, <3>5
    <3>6a. u + n < b /\ u + n \in Nat /\ b \in Nat /\ l \in {0, 1} /\ z \in Nat /\ RequiredMax \in Nat
      BY <1>4, <1>8, <1>9, <3>1
    <3>6b. b + RequiredMax <= z
      BY <3>6
    <3>6c. PICK w : w = u + n
      OBVIOUS
    <3>6d. w < b /\ w \in Nat
      BY <3>6a, <3>6c
    <3>6e. w + l + c2 + l2 <= z
      BY ONLY <3>4, <3>6a, <3>6b, <3>6d
    <3>7. (u + n) + l + c2 + l2 <= z
      BY <3>6c, <3>6e
    <3>8. QED
      BY <1>6, <1>10, <3>3, <3>6, <3>7
  <2>11. (u + n) + l <= z
    BY <1>9
  <2>12. call.temp => (u + n) + l > z - call.lookAhead
    <3>1. SUFFICES ASSUME call.temp PROVE (u + n) + l > z - call.lookAhead
      OBVIOUS
    <3>2. PICK a : a = call.lookAhead
      OBVIOUS
    <3>3. u = 0 /\ o = 0 /\ c + l > z - a /\ a \in Nat
      BY <1>4, <1>6, <2>6, <3>1, <3>2
    <3>4. (u + n) + l > z - a
      BY ONLY <1>8, <3>3
    <3>5. QED
      BY <3>2, <3>4
  <2>13. call'.res # "fail" /\ ~p'.needFlush
    BY <1>11 DEF Sound
  <2>14. /\ call'.used + call'.owed <= Len(call'.fed)
         /\ call'.temp => call'.used + call'.owed > Len(call'.fed) - call'.lookAhead
    BY <1>6, <1>10, <2>11, <2>12
  <2>15. /\ pc' = "real" => /\ call'.used + call'.owed + syms'[p'.next].cost + syms'[p'.next].late <= Len(call'.fed)
                            /\ ~call'.temp
    BY <1>10, <1>11, <2>10
  <2>16. /\ ~call'.temp => p'.coded - call'.used = Place(call.src)' /\ p'.tempBuf = <<>>
                           /\ Len(call'.fed) = f'.in_size - call'.src
         /\ call'.temp => /\ p'.coded - call'.used + Len(call'.fed) = Place(call.src)' + call'.lookAhead
                          /\ call'.src + call'.lookAhead <= f'.in_size
                          /\ call'.bufLimit = 0
         /\ call'.bufLimit = 0 \/ call'.bufLimit + RequiredMax <= Len(call'.fed)
         /\ \A j \in 1 .. Len(call'.fed) : call'.fed[j] = p'.coded - call'.used + j - 1
    BY <1>6, <1>10, <2>1, <2>6, <2>7, <2>8, <2>9
  <2>17. QED
    BY <1>11, <2>4, <2>13, <2>14, <2>15, <2>16 DEF BytesOK
<1>24. QED
  BY <1>12, <1>14, <1>15, <1>16, <1>17, <1>22, <1>23 DEF DecoderInv

\* What the encoder knew, and knows after the next symbol.
LEMMA KnowsNow ==
  ASSUME DecoderInv, pc = "real", NEW b, b = Meaning(syms)[p.next - 1]
  PROVE  /\ b \in Facts /\ b.ok /\ b.reps = p.reps /\ b.text \in Seq(Nat) /\ Len(b.text) = p.processedPos
         /\ Holds(p, b.text) /\ \A k \in 0 .. 3 : p.reps[k] = 1 \/ p.reps[k] <= p.processedPos
         /\ p.afterMatch => p.processedPos > 0
         /\ Meaning(syms)[p.next] = Told(syms[p.next], p.next, b)
         /\ p.next + 1 \in 1 .. Len(syms) + 1 /\ (p.next + 1) - 1 = p.next
         /\ call.limit2 <= DicBufSize
<1>1. DecoderTypes /\ HistoryOK /\ CheckOK
  BY DEF DecoderInv
<1>2. p.next \in 1 .. Len(syms) /\ p.remainLen = 0
  BY RealIs
<1>3. p \in Decoders(syms) /\ syms \in Seq(Format) /\ p.processedPos \in Nat /\ p.next \in Nat /\ Len(syms) \in Nat
  BY <1>1, <1>2, DecoderIs
<1>4. Rest(p) = 0
  BY <1>2, SpecIs DEF Rest
<1>5. b \in Facts /\ b.text \in Seq(Nat)
  BY <1>3, KnownIs
<1>6. Len(b.text) = p.processedPos
  <2>1. Len(b.text) = p.processedPos + 0
    BY <1>1, <1>4 DEF HistoryOK, History
  <2>2. QED
    BY <1>3, <2>1
<1>7. /\ b.ok /\ b.reps = p.reps /\ Holds(p, b.text)
      /\ \A k \in 0 .. 3 : p.reps[k] = 1 \/ p.reps[k] <= p.processedPos
      /\ p.afterMatch => p.processedPos > 0
  BY <1>1 DEF HistoryOK, History
<1>8. Meaning(syms)[p.next] = Told(syms[p.next], p.next, b)
  BY <1>2, <1>3, MeaningDefined
<1>9. p.next + 1 \in 1 .. Len(syms) + 1 /\ (p.next + 1) - 1 = p.next
  BY <1>2, <1>3
<1>10. call.limit2 <= DicBufSize
  <2>1. call.limit2 <= call.dicLimit
    BY <1>1 DEF CheckOK
  <2>2. call.dicLimit \in 0 .. DicBufSize /\ call.limit2 \in Nat /\ DicBufSize \in Nat
    BY <1>1, TypesAre, Sizes
  <2>3. PICK a, c : a = call.limit2 /\ c = call.dicLimit
    OBVIOUS
  <2>4. QED
    BY <2>1, <2>2, <2>3
<1>11. QED
  BY <1>5, <1>6, <1>7, <1>8, <1>9, <1>10

LEMMA ContextsAreRight ==
  ASSUME DecoderInv, pc = "real"
  PROVE  ContextsRight
<1>1. PICK b : b = Meaning(syms)[p.next - 1]
  OBVIOUS
<1>2. PICK text : text = b.text
  OBVIOUS
<1>3. /\ b.reps = p.reps /\ text \in Seq(Nat) /\ Len(text) = p.processedPos
      /\ Holds(p, text) /\ (p.reps[0] = 1 \/ p.reps[0] <= p.processedPos)
      /\ p.afterMatch => p.processedPos > 0
  <2>1. 0 \in 0 .. 3
    OBVIOUS
  <2>2. QED
    BY <1>1, <1>2, <2>1, KnowsNow
<1>4. /\ p.processedPos \in Nat /\ p.dicPos \in Nat /\ p.dicPos <= DicBufSize /\ p.reps \in [0 .. 3 -> 1 .. DicSize]
      /\ DicBufSize \in Nat /\ DicSize \in Nat \ {0} /\ DicBufSize >= DicSize
  BY DecoderIs, Sizes DEF DecoderInv
<1>5. PICK P, D : P = p.processedPos /\ D = p.dicPos
  OBVIOUS
<1>6. P \in Nat /\ D \in Nat /\ D <= DicBufSize /\ DicBufSize \in Nat /\ DicBufSize >= 1
  BY <1>4, <1>5
<1>7. ASSUME NEW j \in Nat, 1 <= j, j <= P, j <= DicBufSize PROVE At(p, j) = Last(text, j)
  <2>1. j \in 1 .. LessOf(P, DicBufSize)
    BY <1>6, <1>7, LessIs
  <2>2. QED
    BY <1>3, <1>5, <2>1 DEF Holds, Last
<1>8. ASSUME text # <<>> PROVE p.dic[(IF p.dicPos = 0 THEN DicBufSize ELSE p.dicPos) - 1] = Last(text, 1)
  <2>1. P >= 1
    <3>1. Len(text) # 0
      BY <1>3, <1>8
    <3>2. QED
      BY <1>3, <1>5, <1>6, <3>1
  <2>2. At(p, 1) = Last(text, 1)
    BY <1>6, <1>7, <2>1
  <2>3. D - 1 + (IF D < 1 THEN DicBufSize ELSE 0) = (IF D = 0 THEN DicBufSize ELSE D) - 1
    BY <1>6
  <2>4. QED
    BY <1>5, <2>2, <2>3 DEF At
<1>9. ASSUME p.afterMatch PROVE At(p, p.reps[0]) = Last(text, b.reps[0])
  <2>1. PICK r : r = p.reps[0]
    OBVIOUS
  <2>2. r \in 1 .. DicSize
    BY <1>4, <2>1
  <2>3. (r = 1 \/ r <= P) /\ P > 0
    BY <1>3, <1>5, <1>9, <2>1
  <2>4. r \in Nat /\ 1 <= r /\ r <= P /\ r <= DicBufSize
    BY <1>4, <1>6, <2>2, <2>3
  <2>5. QED
    BY <1>3, <1>7, <2>1, <2>4
<1>10. QED
  BY <1>1, <1>2, <1>3, <1>8, <1>9 DEF ContextsRight, Before

\* A distance that is not too far is in the text, and in the dictionary.
LEMMA ReachIs ==
  ASSUME DecoderInv, pc = "real", NEW dist \in Nat, dist >= 1
  PROVE  /\ ~TooFar(dist) => dist <= p.processedPos /\ dist <= DicSize
         /\ dist <= p.processedPos /\ dist <= DicSize => ~TooFar(dist)
         /\ ~Nothing => p.processedPos > 0
         /\ p.processedPos > 0 => ~Nothing
<1>1. Checked(p) /\ p.processedPos \in Nat /\ p.checkDicSize \in {0, DicSize} /\ DicSize \in Nat \ {0}
  BY RealIs, DecoderIs, Sizes DEF DecoderInv
<1>2. PICK P, C : P = p.processedPos /\ C = p.checkDicSize
  OBVIOUS
<1>3. P \in Nat /\ C \in {0, DicSize} /\ (C = DicSize => P >= DicSize) /\ (C = 0 => P < DicSize)
  BY <1>1, <1>2 DEF Checked
<1>4. TooFar(dist) <=> IF C = 0 THEN dist - 1 >= P ELSE dist - 1 >= C
  BY <1>2 DEF TooFar
<1>5. Nothing <=> C = 0 /\ P = 0
  BY <1>2 DEF Nothing
<1>6. ~TooFar(dist) => dist <= P /\ dist <= DicSize
  BY <1>1, <1>3, <1>4
<1>7. dist <= P /\ dist <= DicSize => ~TooFar(dist)
  BY <1>1, <1>3, <1>4
<1>8. (~Nothing => P > 0) /\ (P > 0 => ~Nothing)
  BY <1>1, <1>3, <1>5
<1>9. QED
  BY <1>2, <1>6, <1>7, <1>8

LEMMA LiteralKeeps ==
  ASSUME DecoderInv, pc = "real", NEW s, s = syms[p.next], Literal(s),
         NEW n, n = call.owed + s.cost,
         call' = [call EXCEPT !.used = @ + n, !.owed = s.late],
         pc' = IF s.kind # "mark" /\ p'.dicPos < call.limit2 /\ call.used + n < call.bufLimit
                 THEN "real" ELSE "real2",
         UNCHANGED <<stream, inbuf_size, f, asked, got, result, astray>>
  PROVE  DecoderInv'
<1>1. DecoderTypes /\ HistoryOK /\ CheckOK
  BY DEF DecoderInv
<1>2. PICK b : b = Meaning(syms)[p.next - 1]
  OBVIOUS
<1>3. /\ b \in Facts /\ b.ok /\ b.reps = p.reps /\ b.text \in Seq(Nat) /\ Len(b.text) = p.processedPos
      /\ Holds(p, b.text) /\ \A k \in 0 .. 3 : p.reps[k] = 1 \/ p.reps[k] <= p.processedPos
      /\ Meaning(syms)[p.next] = Told(s, p.next, b)
      /\ p.next + 1 \in 1 .. Len(syms) + 1 /\ (p.next + 1) - 1 = p.next
      /\ call.limit2 <= DicBufSize
  BY <1>2, KnowsNow
<1>4. /\ s \in Format /\ p.remainLen = 0 /\ s.cost \in Nat
  BY RealIs
<1>5. /\ p \in Decoders(syms) /\ syms \in Seq(Format) /\ p.dic \in [0 .. DicBufSize - 1 -> Nat] /\ p.dicPos \in Nat
      /\ p.processedPos \in Nat /\ p.coded \in Nat /\ p.next \in Nat /\ call.limit2 \in Nat /\ call.owed \in {0, 1}
      /\ p.reps \in [0 .. 3 -> 1 .. DicSize]
  BY <1>1, DecoderIs, TypesAre
<1>6. p.dicPos < call.limit2
  BY <1>1 DEF Literal, CheckOK
<1>7. p.dicPos < DicBufSize /\ p.dicPos + 1 <= call.limit2 /\ p.dicPos + 1 \in 0 .. DicBufSize /\ DicBufSize \in Nat
  <2>1. PICK D, l : D = p.dicPos /\ l = call.limit2
    OBVIOUS
  <2>2. D \in Nat /\ l \in Nat /\ l <= DicBufSize /\ D < l
    BY <1>3, <1>5, <1>6, <2>1
  <2>3. D < DicBufSize /\ D + 1 <= l /\ D + 1 \in 0 .. DicBufSize /\ DicBufSize \in Nat
    BY <2>2, Sizes
  <2>4. QED
    BY <2>1, <2>3
<1>8. n \in Nat /\ p.coded + n \in Nat
  <2>1. n \in Nat
    BY <1>4, <1>5, SMTT(60)
  <2>2. QED
    BY <1>5, <2>1
<1>9. PICK dic : dic = [p.dic EXCEPT ![p.dicPos] = p.next]
  OBVIOUS
<1>10. p' = [p EXCEPT !.dic = dic, !.dicPos = p.dicPos + 1, !.processedPos = p.processedPos + 1,
                      !.afterMatch = FALSE, !.next = p.next + 1, !.coded = p.coded + n]
  <2>1. p' = [p EXCEPT !.dic[p.dicPos] = p.next,
                       !.dicPos = @ + 1, !.processedPos = @ + 1, !.afterMatch = FALSE,
                       !.next = @ + 1, !.coded = @ + call.owed + s.cost]
    BY ContextsAreRight DEF Literal
  <2>2. p.coded + call.owed + s.cost = p.coded + n
    BY <1>4, <1>5
  <2>3. QED
    BY <1>5, <1>9, <2>1, <2>2 DEF Decoders
<1>11. dic \in [0 .. DicBufSize - 1 -> Nat]
  BY <1>5, <1>9
<1>12. /\ p'.dic = dic /\ p'.dicPos = p.dicPos + 1 /\ p'.processedPos = p.processedPos + 1
       /\ p'.afterMatch = FALSE /\ p'.next = p.next + 1 /\ p'.coded = p.coded + n
       /\ p'.needFlush = p.needFlush /\ p'.tempBuf = p.tempBuf /\ p'.checkDicSize = p.checkDicSize
       /\ p'.reps = p.reps /\ p'.remainLen = 0
  BY <1>4, <1>5, <1>10 DEF Decoders
<1>13. p' \in Decoders(syms)
  <2>1. p.processedPos + 1 \in Nat
    BY <1>5
  <2>2. QED
    BY <1>3, <1>5, <1>7, <1>8, <1>10, <1>11, <2>1 DEF Decoders
<1>14. PICK text : text = Append(b.text, p.next)
  OBVIOUS
<1>15. Meaning(syms)[p'.next - 1] = [text |-> text, reps |-> p.reps, ok |-> TRUE]
  <2>1. s.kind = "literal"
    BY DEF Literal
  <2>2. Told(s, p.next, b) = [text |-> Append(b.text, p.next), reps |-> b.reps, ok |-> TRUE]
    BY <1>3, <1>4, <1>5, <2>1, ToldIs, ZenonT(60)
  <2>3. QED
    BY <1>3, <1>12, <1>14, <2>2
<1>16. Holds(p', text)
  BY <1>3, <1>5, <1>7, <1>9, <1>12, <1>14, ByteHolds
<1>17. Rest(p') = 0 /\ p'.remainLen # SpecStart
  BY <1>12, SpecIs DEF Rest
<1>18. Len(text) = p'.processedPos + Rest(p')
  <2>1. Len(text) = p.processedPos + 1
    BY <1>3, <1>5, <1>14
  <2>2. p.processedPos + 1 = (p.processedPos + 1) + 0
    BY <1>5
  <2>3. QED
    BY <1>12, <1>17, <2>1, <2>2
<1>19. \A k \in 0 .. 3 : p'.reps[k] = 1 \/ p'.reps[k] <= p'.processedPos
  <2>1. SUFFICES ASSUME NEW k \in 0 .. 3 PROVE p.reps[k] = 1 \/ p.reps[k] <= p.processedPos + 1
    BY <1>12
  <2>2. PICK r, P : r = p.reps[k] /\ P = p.processedPos
    OBVIOUS
  <2>3. r \in 1 .. DicSize /\ P \in Nat /\ (r = 1 \/ r <= P)
    BY <1>3, <1>5, <2>2
  <2>4. r = 1 \/ r <= P + 1
    BY <2>3, Sizes
  <2>5. QED
    BY <2>2, <2>4
<1>20. Repeats(text, p'.processedPos, p'.reps[0], Rest(p'))
  BY <1>17 DEF Repeats
<1>21. History(syms, p')
  BY <1>12, <1>15, <1>16, <1>17, <1>18, <1>19, <1>20 DEF History
<1>22. 1 \in Nat /\ p'.remainLen \in {0, SpecStart}
  BY <1>12
<1>23. QED
  BY <1>7, <1>12, <1>13, <1>17, <1>21, <1>22, SymbolKeeps

\* What a symbol that copies adds.
LEMMA CopyTold ==
  ASSUME NEW s \in Format, s.kind \in {"match", "rep", "short"}, NEW n \in Nat, NEW b \in Facts, b.ok,
         Reaches(b.text, Distance(s, b.reps))
  PROVE  Told(s, n, b) = [text |-> Copied(b.text, Distance(s, b.reps), Length(s)),
                          reps |-> RepsAfter(s, b.reps), ok |-> TRUE]
BY ToldIs

LEMMA CopyKeeps ==
  ASSUME DecoderInv, pc = "real", NEW s, s = syms[p.next], NEW b, b = Meaning(syms)[p.next - 1],
         NEW dist \in 1 .. DicSize, dist <= p.processedPos, NEW len \in 1 .. SpecStart - 1, NEW k \in 0 .. len,
         p.dicPos + k <= call.limit2, k = len \/ p.dicPos + k = call.limit2,
         NEW reps \in [0 .. 3 -> 1 .. DicSize], reps[0] = dist,
         \A j \in 0 .. 3 : reps[j] = 1 \/ reps[j] <= p.processedPos,
         Told(s, p.next, b) = [text |-> Copied(b.text, dist, len), reps |-> reps, ok |-> TRUE],
         NEW n, n = call.owed + s.cost,
         p' = [dic |-> CopyDic(p, dist, k), dicPos |-> p.dicPos + k, processedPos |-> p.processedPos + k,
               checkDicSize |-> p.checkDicSize, remainLen |-> len - k, reps |-> reps,
               afterMatch |-> TRUE, needFlush |-> p.needFlush, tempBuf |-> p.tempBuf,
               next |-> p.next + 1, coded |-> p.coded + n],
         call' = [call EXCEPT !.used = @ + n, !.owed = s.late],
         pc' = IF s.kind # "mark" /\ p'.dicPos < call.limit2 /\ call.used + n < call.bufLimit
                 THEN "real" ELSE "real2",
         UNCHANGED <<stream, inbuf_size, f, asked, got, result, astray>>
  PROVE  DecoderInv'
<1>1. DecoderTypes /\ HistoryOK
  BY DEF DecoderInv
<1>2. /\ Meaning(syms)[p.next] = Told(s, p.next, b)
      /\ p.next + 1 \in 1 .. Len(syms) + 1 /\ (p.next + 1) - 1 = p.next
      /\ call.limit2 <= DicBufSize
  BY KnowsNow
<1>3. p.next \in 1 .. Len(syms) /\ p.remainLen = 0 /\ s.cost \in Nat
  BY RealIs
<1>4. /\ p \in Decoders(syms) /\ syms \in Seq(Format) /\ p.dicPos \in Nat
      /\ p.processedPos \in Nat /\ p.coded \in Nat /\ call.limit2 \in Nat /\ call.owed \in {0, 1}
      /\ p.checkDicSize \in {0, DicSize} /\ p.needFlush \in BOOLEAN /\ p.tempBuf \in Seq(Nat)
  BY <1>1, DecoderIs, TypesAre
<1>5. SpecStart \in Nat /\ SpecStart > 2 /\ DicBufSize \in Nat
  BY SpecIs, Sizes
<1>6. p.dicPos + k <= DicBufSize /\ p.dicPos + k \in 0 .. DicBufSize /\ k \in Nat /\ p.processedPos + k \in Nat
      /\ len - k \in 0 .. SpecStart /\ len - k # SpecStart
  <2>1. PICK D, l, P : D = p.dicPos /\ l = call.limit2 /\ P = p.processedPos
    OBVIOUS
  <2>2. D \in Nat /\ l \in Nat /\ P \in Nat /\ l <= DicBufSize /\ D + k <= l
    BY <1>2, <1>4, <2>1
  <2>3. k \in Nat /\ len \in Nat /\ k <= len /\ len < SpecStart
    BY <1>5
  <2>4. D + k <= DicBufSize /\ D + k \in 0 .. DicBufSize /\ P + k \in Nat
        /\ len - k \in 0 .. SpecStart /\ len - k # SpecStart
    BY ONLY <1>5, <2>2, <2>3
  <2>5. QED
    BY <2>1, <2>3, <2>4
<1>7. n \in Nat /\ p.coded + n \in Nat
  <2>1. call.owed \in {0, 1} /\ s.cost \in Nat /\ p.coded \in Nat
    BY <1>3, <1>4
  <2>2. n = call.owed + s.cost
    OBVIOUS
  <2>3. QED
    BY ONLY <2>1, <2>2
<1>8. /\ p'.dic = CopyDic(p, dist, k) /\ p'.dicPos = p.dicPos + k /\ p'.processedPos = p.processedPos + k
      /\ p'.remainLen = len - k /\ p'.reps = reps /\ p'.next = p.next + 1 /\ p'.coded = p.coded + n
      /\ p'.checkDicSize = p.checkDicSize /\ p'.needFlush = p.needFlush /\ p'.tempBuf = p.tempBuf
  OBVIOUS
<1>9. Meaning(syms)[p.next] = [text |-> Copied(Meaning(syms)[p.next - 1].text, dist, len), reps |-> reps, ok |-> TRUE]
  BY <1>2
<1>10. p'.dic \in [0 .. DicBufSize - 1 -> Nat] /\ History(syms, p')
  <2>1. History(syms, p)
    BY <1>1 DEF HistoryOK
  <2>2. /\ p.dicPos + k <= DicBufSize /\ p.next \in 1 .. Len(syms) /\ p.remainLen = 0
        /\ syms \in Seq(Format) /\ p \in Decoders(syms)
    BY <1>3, <1>4, <1>6
  <2>3. /\ dist \in 1 .. DicSize /\ dist <= p.processedPos /\ len \in 1 .. SpecStart - 1 /\ k \in 0 .. len
        /\ reps \in [0 .. 3 -> 1 .. DicSize] /\ reps[0] = dist
        /\ \A j \in 0 .. 3 : reps[j] = 1 \/ reps[j] <= p.processedPos
    OBVIOUS
  <2>4. QED
    BY ONLY <1>8, <1>9, <2>1, <2>2, <2>3, CopyHistory, ZenonT(60)
<1>11. p' \in Decoders(syms)
  <2>1. PICK dic : dic = CopyDic(p, dist, k)
    OBVIOUS
  <2>2. dic \in [0 .. DicBufSize - 1 -> Nat]
    BY <1>8, <1>10, <2>1
  <2>3. QED
    BY <1>2, <1>4, <1>6, <1>7, <2>1, <2>2 DEF Decoders
<1>12. p'.remainLen \in {0, SpecStart} \/ p'.dicPos = call.limit2
  <2>1. k = len => len - k = 0
    BY <1>5
  <2>2. QED
    BY <1>8, <2>1
<1>13. p'.remainLen # SpecStart
  BY <1>6, <1>8
<1>14. QED
  BY <1>6, <1>8, <1>10, <1>11, <1>12, <1>13, SymbolKeeps

LEMMA ShortRepKeeps ==
  ASSUME DecoderInv, pc = "real", NEW s, s = syms[p.next], ShortRep(s),
         NEW n, n = call.owed + s.cost,
         call' = [call EXCEPT !.used = @ + n, !.owed = s.late],
         pc' = IF s.kind # "mark" /\ p'.dicPos < call.limit2 /\ call.used + n < call.bufLimit
                 THEN "real" ELSE "real2",
         UNCHANGED <<stream, inbuf_size, f, asked, got, result, astray>>
  PROVE  DecoderInv'
<1>1. DecoderTypes /\ CheckOK
  BY DEF DecoderInv
<1>2. PICK b : b = Meaning(syms)[p.next - 1]
  OBVIOUS
<1>3. /\ b \in Facts /\ b.ok /\ b.reps = p.reps /\ Len(b.text) = p.processedPos
      /\ \A k \in 0 .. 3 : p.reps[k] = 1 \/ p.reps[k] <= p.processedPos
  BY <1>2, KnowsNow
<1>4. s \in Format /\ p.remainLen = 0 /\ s.cost \in Nat /\ s.kind = "short"
  BY RealIs DEF ShortRep
<1>5. /\ p \in Decoders(syms) /\ p.dicPos \in Nat /\ p.processedPos \in Nat /\ p.coded \in Nat /\ p.next \in Nat
      /\ call.limit2 \in Nat /\ call.owed \in {0, 1} /\ p.reps \in [0 .. 3 -> 1 .. DicSize]
      /\ DicSize \in Nat \ {0} /\ SpecStart \in Nat /\ SpecStart > 2
  BY <1>1, DecoderIs, TypesAre, Sizes, SpecIs
<1>6. PICK dist : dist = p.reps[0]
  OBVIOUS
<1>7. dist \in 1 .. DicSize /\ (dist = 1 \/ dist <= p.processedPos)
  BY <1>3, <1>5, <1>6
<1>8. dist \in Nat /\ dist >= 1
  BY <1>5, <1>7
<1>9. p.processedPos > 0
  BY <1>8, ReachIs DEF ShortRep
<1>10. dist <= p.processedPos
  BY <1>5, <1>7, <1>9
<1>11. p.dicPos < call.limit2
  BY <1>1, <1>4 DEF CheckOK
<1>12. p.dicPos + 1 <= call.limit2
  BY <1>5, <1>11
<1>13. Told(s, p.next, b) = [text |-> Copied(b.text, dist, 1), reps |-> p.reps, ok |-> TRUE]
  <2>1. Distance(s, b.reps) = dist /\ Length(s) = 1 /\ RepsAfter(s, b.reps) = p.reps
    BY <1>3, <1>4, <1>6 DEF Distance, Length, RepsAfter
  <2>2. Reaches(b.text, dist)
    BY <1>3, <1>5, <1>7, <1>8, <1>10, LessIs DEF Reaches
  <2>3. s \in Format /\ s.kind \in {"match", "rep", "short"} /\ p.next \in Nat /\ b \in Facts /\ b.ok
    BY <1>3, <1>4, <1>5
  <2>4. Reaches(b.text, Distance(s, b.reps))
    BY ONLY <2>1, <2>2
  <2>5. Told(s, p.next, b) = [text |-> Copied(b.text, Distance(s, b.reps), Length(s)),
                              reps |-> RepsAfter(s, b.reps), ok |-> TRUE]
    BY ONLY <2>3, <2>4, CopyTold
  <2>6. QED
    BY ONLY <2>1, <2>5
<1>14. p' = [dic |-> CopyDic(p, dist, 1), dicPos |-> p.dicPos + 1, processedPos |-> p.processedPos + 1,
             checkDicSize |-> p.checkDicSize, remainLen |-> 1 - 1, reps |-> p.reps,
             afterMatch |-> TRUE, needFlush |-> p.needFlush, tempBuf |-> p.tempBuf,
             next |-> p.next + 1, coded |-> p.coded + n]
  <2>1. PICK m : m = CopyMatch(p, dist, 1)
    OBVIOUS
  <2>2. p' = [m EXCEPT !.afterMatch = TRUE, !.next = @ + 1, !.coded = @ + call.owed + s.cost]
    BY <1>6, <2>1 DEF ShortRep
  <2>3. m = [dic |-> CopyDic(p, dist, 1), dicPos |-> p.dicPos + 1, processedPos |-> p.processedPos + 1,
             checkDicSize |-> p.checkDicSize, remainLen |-> p.remainLen, reps |-> p.reps,
             afterMatch |-> p.afterMatch, needFlush |-> p.needFlush, tempBuf |-> p.tempBuf,
             next |-> p.next, coded |-> p.coded]
    BY <1>5, <2>1, CopyIs
  <2>4. p.coded + call.owed + s.cost = p.coded + n /\ 1 - 1 = 0
    BY <1>4, <1>5
  <2>5. QED
    BY <1>4, <2>2, <2>3, <2>4
<1>15. 1 \in 1 .. SpecStart - 1 /\ 1 \in 0 .. 1
  BY <1>5
<1>16. p.reps[0] = dist /\ p.reps \in [0 .. 3 -> 1 .. DicSize]
  BY <1>5, <1>6
<1>17. QED
  BY <1>2, <1>3, <1>7, <1>10, <1>12, <1>13, <1>14, <1>15, <1>16, CopyKeeps, ZenonT(60)

LEMMA MatchKeeps ==
  ASSUME DecoderInv, pc = "real", NEW s, s = syms[p.next], Match(s),
         NEW n, n = call.owed + s.cost,
         call' = [call EXCEPT !.used = @ + n, !.owed = s.late],
         pc' = IF s.kind # "mark" /\ p'.dicPos < call.limit2 /\ call.used + n < call.bufLimit
                 THEN "real" ELSE "real2",
         UNCHANGED <<stream, inbuf_size, f, asked, got, result, astray>>
  PROVE  DecoderInv'
<1>1. DecoderTypes /\ CheckOK
  BY DEF DecoderInv
<1>2. PICK b : b = Meaning(syms)[p.next - 1]
  OBVIOUS
<1>3. /\ b \in Facts /\ b.ok /\ b.reps = p.reps /\ Len(b.text) = p.processedPos
      /\ \A k \in 0 .. 3 : p.reps[k] = 1 \/ p.reps[k] <= p.processedPos
  BY <1>2, KnowsNow
<1>4. s \in Format /\ p.remainLen = 0 /\ s.cost \in Nat /\ s.kind \in {"match", "rep"}
  BY RealIs DEF Match
<1>5. /\ p \in Decoders(syms) /\ p.dicPos \in Nat /\ p.processedPos \in Nat /\ p.coded \in Nat /\ p.next \in Nat
      /\ call.limit2 \in Nat /\ call.owed \in {0, 1} /\ p.reps \in [0 .. 3 -> 1 .. DicSize]
      /\ DicSize \in Nat \ {0} /\ SpecStart \in Nat /\ SpecStart > 2
  BY <1>1, DecoderIs, TypesAre, Sizes, SpecIs
<1>6. PICK reps : reps = IF s.kind = "match" THEN Pushed(p.reps, s.dist) ELSE ToFront(p.reps, s.dist)
  OBVIOUS
<1>7. PICK dist : dist = reps[0]
  OBVIOUS
<1>8. PICK P : P = p.processedPos
  OBVIOUS
<1>9. P \in Nat /\ \A k \in 0 .. 3 : p.reps[k] \in 1 .. DicSize /\ (p.reps[k] = 1 \/ p.reps[k] <= P)
  BY <1>3, <1>5, <1>8
<1>10. /\ reps \in [0 .. 3 -> 1 .. DicSize]
       /\ \A k \in 0 .. 3 : reps[k] = 1 \/ reps[k] <= P
       /\ dist <= P
  <2>1. CASE s.kind = "match"
    <3>1. s.dist \in Nat /\ s.dist >= 1
      BY <1>4, <2>1, SymbolIs DEF Format
    <3>2. ~TooFar(s.dist)
      BY <2>1 DEF Match
    <3>3. s.dist <= P /\ s.dist \in 1 .. DicSize
      BY <1>5, <1>8, <3>1, <3>2, ReachIs
    <3>4. reps = [i \in 0 .. 3 |-> IF i = 0 THEN s.dist ELSE p.reps[i - 1]]
      BY <1>6, <2>1 DEF Pushed
    <3>5. ASSUME NEW k \in 0 .. 3 PROVE reps[k] \in 1 .. DicSize /\ (reps[k] = 1 \/ reps[k] <= P)
      <4>1. CASE k = 0
        BY <3>3, <3>4, <4>1
      <4>2. CASE k # 0
        <5>1. k - 1 \in 0 .. 3 /\ reps[k] = p.reps[k - 1]
          BY <3>4, <4>2
        <5>2. QED
          BY <1>9, <5>1
      <4>3. QED
        BY <4>1, <4>2
    <3>6. dist = s.dist
      BY <1>7, <3>4
    <3>7. QED
      BY <3>3, <3>4, <3>5, <3>6
  <2>2. CASE s.kind = "rep"
    <3>1. s.dist \in 0 .. 3
      BY <1>4, <2>2 DEF Format
    <3>2. ~Nothing
      BY <2>2 DEF Match
    <3>3. P > 0
      <4>1. 1 \in Nat /\ 1 >= 1
        OBVIOUS
      <4>2. QED
        BY <1>8, <3>2, <4>1, ReachIs
    <3>4. reps = [i \in 0 .. 3 |-> IF i = 0 THEN p.reps[s.dist] ELSE IF i <= s.dist THEN p.reps[i - 1] ELSE p.reps[i]]
      BY <1>6, <2>2 DEF ToFront
    <3>5. ASSUME NEW k \in 0 .. 3 PROVE reps[k] \in 1 .. DicSize /\ (reps[k] = 1 \/ reps[k] <= P)
      <4>1. \E j \in 0 .. 3 : reps[k] = p.reps[j]
        <5>1. CASE k = 0
          BY <3>1, <3>4, <5>1
        <5>2. CASE k # 0 /\ k <= s.dist
          <6>1. k - 1 \in 0 .. 3 /\ reps[k] = p.reps[k - 1]
            BY <3>4, <5>2
          <6>2. QED
            BY <6>1
        <5>3. CASE k # 0 /\ ~(k <= s.dist)
          BY <3>4, <5>3
        <5>4. QED
          BY <5>1, <5>2, <5>3
      <4>2. QED
        BY <1>9, <4>1
    <3>6. dist \in 1 .. DicSize /\ (dist = 1 \/ dist <= P)
      BY <1>7, <3>5
    <3>7. dist <= P
      BY <1>5, <1>9, <3>3, <3>6
    <3>8. QED
      BY <3>4, <3>5, <3>7
  <2>3. QED
    BY <1>4, <2>1, <2>2
<1>11. dist \in 1 .. DicSize /\ dist \in Nat /\ dist >= 1
  BY <1>5, <1>7, <1>10
<1>12. PICK len : len = s.len
  OBVIOUS
<1>13. len \in 2 .. SpecStart - 1 /\ len \in 1 .. SpecStart - 1 /\ len \in Nat
  BY <1>4, <1>5, <1>12 DEF Format
<1>14. Told(s, p.next, b) = [text |-> Copied(b.text, dist, len), reps |-> reps, ok |-> TRUE]
  <2>1. Length(s) = len
    BY <1>4, <1>12 DEF Length
  <2>2. RepsAfter(s, b.reps) = reps
    BY <1>3, <1>4, <1>6 DEF RepsAfter
  <2>3. Distance(s, b.reps) = dist
    BY <1>3, <1>4, <1>5, <1>7, <2>2, ToldIs
  <2>4. Reaches(b.text, dist)
    BY <1>3, <1>5, <1>8, <1>10, <1>11, LessIs DEF Reaches
  <2>5. s \in Format /\ s.kind \in {"match", "rep", "short"} /\ p.next \in Nat /\ b \in Facts /\ b.ok
    BY <1>3, <1>4, <1>5
  <2>6. Reaches(b.text, Distance(s, b.reps))
    BY ONLY <2>3, <2>4
  <2>7. Told(s, p.next, b) = [text |-> Copied(b.text, Distance(s, b.reps), Length(s)),
                              reps |-> RepsAfter(s, b.reps), ok |-> TRUE]
    BY ONLY <2>5, <2>6, CopyTold
  <2>8. QED
    BY ONLY <2>1, <2>2, <2>3, <2>7
<1>15. PICK k : k = LessOf(len, call.limit2 - p.dicPos)
  OBVIOUS
<1>16. k \in 0 .. len /\ p.dicPos + k <= call.limit2 /\ (k = len \/ p.dicPos + k = call.limit2)
  <2>1. PICK D, l : D = p.dicPos /\ l = call.limit2
    OBVIOUS
  <2>2. D \in Nat /\ l \in Nat /\ D < l
    BY <1>5, <2>1 DEF Match
  <2>3. k = IF len < l - D THEN len ELSE l - D
    BY <1>15, <2>1 DEF LessOf
  <2>4. k \in 0 .. len /\ D + k <= l /\ (k = len \/ D + k = l)
    BY ONLY <1>13, <2>2, <2>3
  <2>5. QED
    BY <2>1, <2>4
<1>17. p' = [dic |-> CopyDic(p, dist, k), dicPos |-> p.dicPos + k, processedPos |-> p.processedPos + k,
             checkDicSize |-> p.checkDicSize, remainLen |-> len - k, reps |-> reps,
             afterMatch |-> TRUE, needFlush |-> p.needFlush, tempBuf |-> p.tempBuf,
             next |-> p.next + 1, coded |-> p.coded + n]
  <2>1. PICK m : m = CopyMatch(p, dist, k)
    OBVIOUS
  <2>2. p' = [m EXCEPT !.reps = reps, !.afterMatch = TRUE, !.remainLen = len - k,
                       !.next = @ + 1, !.coded = @ + call.owed + s.cost]
    BY <1>6, <1>7, <1>12, <1>15, <2>1 DEF Match
  <2>3. m = [dic |-> CopyDic(p, dist, k), dicPos |-> p.dicPos + k, processedPos |-> p.processedPos + k,
             checkDicSize |-> p.checkDicSize, remainLen |-> p.remainLen, reps |-> p.reps,
             afterMatch |-> p.afterMatch, needFlush |-> p.needFlush, tempBuf |-> p.tempBuf,
             next |-> p.next, coded |-> p.coded]
    BY <1>5, <2>1, CopyIs
  <2>4. p.coded + call.owed + s.cost = p.coded + n
    BY <1>4, <1>5
  <2>5. QED
    BY <2>2, <2>3, <2>4
<1>18. reps[0] = dist /\ \A j \in 0 .. 3 : reps[j] = 1 \/ reps[j] <= p.processedPos
  BY <1>7, <1>8, <1>10
<1>19. QED
  BY <1>2, <1>8, <1>10, <1>11, <1>13, <1>14, <1>16, <1>17, <1>18, CopyKeeps, ZenonT(60)

LEMMA MarkKeeps ==
  ASSUME DecoderInv, pc = "real", NEW s, s = syms[p.next], Mark(s),
         NEW n, n = call.owed + s.cost,
         call' = [call EXCEPT !.used = @ + n, !.owed = s.late],
         pc' = IF s.kind # "mark" /\ p'.dicPos < call.limit2 /\ call.used + n < call.bufLimit
                 THEN "real" ELSE "real2",
         UNCHANGED <<stream, inbuf_size, f, asked, got, result, astray>>
  PROVE  DecoderInv'
<1>1. DecoderTypes /\ CheckOK
  BY DEF DecoderInv
<1>2. PICK b : b = Meaning(syms)[p.next - 1]
  OBVIOUS
<1>3. /\ b \in Facts /\ b.ok /\ b.reps = p.reps /\ Len(b.text) = p.processedPos /\ Holds(p, b.text)
      /\ \A k \in 0 .. 3 : p.reps[k] = 1 \/ p.reps[k] <= p.processedPos
      /\ p.afterMatch => p.processedPos > 0
      /\ Meaning(syms)[p.next] = Told(s, p.next, b)
      /\ p.next + 1 \in 1 .. Len(syms) + 1 /\ (p.next + 1) - 1 = p.next
  BY <1>2, KnowsNow
<1>4. s \in Format /\ p.remainLen = 0 /\ s.cost \in Nat /\ s.kind = "mark" /\ p.next \in 1 .. Len(syms)
  BY RealIs DEF Mark
<1>5. /\ p \in Decoders(syms) /\ p.dicPos \in Nat /\ p.processedPos \in Nat /\ p.coded \in Nat /\ p.next \in Nat
      /\ call.limit2 \in Nat /\ call.owed \in {0, 1} /\ SpecStart \in Nat
  BY <1>1, DecoderIs, TypesAre, SpecIs
<1>6. Meaning(syms)[p.next] = b
  BY <1>3, <1>4, <1>5, ToldIs
<1>7. n \in Nat /\ p.coded + n \in Nat /\ p.coded + call.owed + s.cost = p.coded + n
  <2>1. n = call.owed + s.cost /\ s.cost \in Nat /\ call.owed \in {0, 1} /\ p.coded \in Nat
    BY <1>4, <1>5
  <2>2. QED
    BY ONLY <2>1
<1>8. p' = [p EXCEPT !.remainLen = SpecStart, !.next = p.next + 1, !.coded = p.coded + n]
  <2>1. p' = [p EXCEPT !.remainLen = SpecStart, !.next = @ + 1, !.coded = @ + call.owed + s.cost]
    BY DEF Mark
  <2>2. QED
    BY <1>5, <1>7, <2>1 DEF Decoders
<1>9. /\ p'.dic = p.dic /\ p'.dicPos = p.dicPos /\ p'.processedPos = p.processedPos
      /\ p'.reps = p.reps /\ p'.afterMatch = p.afterMatch /\ p'.remainLen = SpecStart
      /\ p'.next = p.next + 1 /\ p'.coded = p.coded + n /\ p'.needFlush = p.needFlush
      /\ p'.tempBuf = p.tempBuf /\ p'.checkDicSize = p.checkDicSize
  BY <1>5, <1>8 DEF Decoders
<1>10. p' \in Decoders(syms)
  <2>1. SpecStart \in 0 .. SpecStart
    BY <1>5
  <2>2. QED
    BY <1>3, <1>5, <1>7, <1>8, <2>1 DEF Decoders
<1>11. Rest(p') = 0
  BY <1>9 DEF Rest
<1>12. Holds(p', b.text)
  BY <1>3, <1>9 DEF Holds, At
<1>13. Repeats(b.text, p'.processedPos, p'.reps[0], Rest(p'))
  BY <1>11 DEF Repeats
<1>14. p'.next > 1 /\ syms[p'.next - 1].kind = "mark"
  <2>1. p.next + 1 > 1
    BY <1>4, <1>5
  <2>2. QED
    BY <1>3, <1>4, <1>9, <2>1
<1>15. Len(b.text) = p'.processedPos + Rest(p')
  BY <1>3, <1>5, <1>9, <1>11
<1>16. History(syms, p')
  <2>1. Meaning(syms)[p'.next - 1] = b
    BY <1>3, <1>6, <1>9
  <2>2. \A k \in 0 .. 3 : p'.reps[k] = 1 \/ p'.reps[k] <= p'.processedPos
    BY <1>3, <1>9
  <2>3. p'.afterMatch \/ Rest(p') > 0 => p'.processedPos > 0
    BY <1>3, <1>9, <1>11
  <2>4. QED
    BY <1>3, <1>9, <1>12, <1>13, <1>14, <1>15, <2>1, <2>2, <2>3 DEF History
<1>17. /\ 0 \in Nat /\ p'.dicPos = p.dicPos + 0 /\ p'.processedPos = p.processedPos + 0
       /\ p.dicPos + 0 <= call.limit2
  BY <1>1, <1>5, <1>9 DEF CheckOK
<1>18. p'.remainLen \in {0, SpecStart}
  BY <1>9
<1>19. QED
  BY <1>4, <1>9, <1>10, <1>16, <1>17, <1>18, SymbolKeeps

LEMMA RefusedKeeps ==
  ASSUME DecoderInv, pc = "real", Returns("data", "none", call.src),
         UNCHANGED <<stream, inbuf_size, f, p, asked, got, result, astray>>
  PROVE  DecoderInv'
<1>1. DecoderTypes /\ BytesOK
  BY DEF DecoderInv
<1>2. pc' = "fromDic" /\ call'.res = "data"
  BY <1>1 DEF Returns, DecoderTypes
<1>3. ~Sound'
  BY <1>2 DEF Sound
<1>4. BytesOK'
  BY <1>1, <1>2, <1>3 DEF BytesOK
<1>5. /\ call.src \in Nat /\ f.in_pos <= call.src /\ call.src <= f.in_size /\ "data" \in {"ok", "data"}
      /\ "none" \in Statuses /\ pc \in {"dic", "real"} /\ p' \in Decoders(syms)
  BY <1>1, RealIs, DecoderIs DEF Statuses
<1>6. SameText(p', p)
  BY DEF SameText
<1>7. QED
  BY <1>4, <1>5, <1>6, ReturnKeeps

LEMMA RealSymbolKeeps ==
  ASSUME DecoderInv, RealSymbol PROVE DecoderInv'
<1>1. pc = "real" /\ UNCHANGED <<stream, inbuf_size, f, asked, got, result>>
  BY DEF RealSymbol
<1>2. PICK s, n : s = syms[p.next] /\ n = call.owed + s.cost
  OBVIOUS
<1>3. astray' = (astray \/ Wrong(n))
  BY <1>2 DEF RealSymbol
<1>4. astray' = astray
  <2>1. ~Wrong(n)
    BY <1>1, <1>2, RealIs
  <2>2. ~astray
    BY DEF DecoderInv, BytesOK
  <2>3. astray \in BOOLEAN
    BY DEF DecoderInv, DecoderTypes
  <2>4. QED
    BY <1>3, <2>1, <2>2, <2>3
<1>5. \/ /\ Literal(s) \/ ShortRep(s) \/ Match(s) \/ Mark(s)
         /\ call' = [call EXCEPT !.used = @ + n, !.owed = s.late]
         /\ pc' = IF s.kind # "mark" /\ p'.dicPos < call.limit2 /\ call.used + n < call.bufLimit
                    THEN "real" ELSE "real2"
      \/ Returns("data", "none", call.src) /\ UNCHANGED p
  BY <1>2 DEF RealSymbol
<1>6. CASE /\ Literal(s) \/ ShortRep(s) \/ Match(s) \/ Mark(s)
           /\ call' = [call EXCEPT !.used = @ + n, !.owed = s.late]
           /\ pc' = IF s.kind # "mark" /\ p'.dicPos < call.limit2 /\ call.used + n < call.bufLimit
                      THEN "real" ELSE "real2"
  <2>1. CASE Literal(s)
    BY <1>1, <1>2, <1>4, <1>6, <2>1, LiteralKeeps
  <2>2. CASE ShortRep(s)
    BY <1>1, <1>2, <1>4, <1>6, <2>2, ShortRepKeeps
  <2>3. CASE Match(s)
    BY <1>1, <1>2, <1>4, <1>6, <2>3, MatchKeeps
  <2>4. CASE Mark(s)
    BY <1>1, <1>2, <1>4, <1>6, <2>4, MarkKeeps
  <2>5. QED
    BY <1>6, <2>1, <2>2, <2>3, <2>4
<1>7. CASE Returns("data", "none", call.src) /\ UNCHANGED p
  BY <1>1, <1>4, <1>7, RefusedKeeps
<1>8. QED
  BY <1>5, <1>6, <1>7

\* What is there after LzmaDec_DecodeReal, and after the rest of a match has been written.
Seen == [p EXCEPT !.coded = @ + call.owed,
                  !.checkDicSize = IF @ = 0 /\ p.processedPos >= DicSize THEN DicSize ELSE @]

LEMMA SeenIs ==
  ASSUME DecoderInv, pc = "real2"
  PROVE  /\ Seen \in Decoders(syms) /\ History(syms, Seen) /\ Checked(Seen)
         /\ Seen.dicPos = p.dicPos /\ Seen.processedPos = p.processedPos /\ Seen.remainLen = p.remainLen
         /\ Seen.next = p.next /\ Seen.coded = p.coded + call.owed
         /\ Seen.needFlush = p.needFlush /\ Seen.tempBuf = p.tempBuf
<1>1. DecoderTypes /\ HistoryOK /\ CheckOK
  BY DEF DecoderInv
<1>2. p \in Decoders(syms) /\ p.coded \in Nat /\ p.checkDicSize \in {0, DicSize} /\ p.processedPos \in Nat
  BY <1>1, DecoderIs
<1>3. call.owed \in Nat /\ DicSize \in Nat \ {0}
  <2>1. call.owed \in {0, 1}
    BY <1>1, TypesAre
  <2>2. QED
    BY <2>1, Sizes
<1>4. PICK c, w : /\ c = p.coded + call.owed
                  /\ w = IF p.checkDicSize = 0 /\ p.processedPos >= DicSize THEN DicSize ELSE p.checkDicSize
  OBVIOUS
<1>5. c \in Nat /\ w \in {0, DicSize}
  BY <1>2, <1>3, <1>4
<1>6. Seen = [p EXCEPT !.coded = c, !.checkDicSize = w]
  BY <1>4 DEF Seen
<1>7. Seen \in Decoders(syms)
  BY <1>2, <1>5, <1>6 DEF Decoders
<1>8. /\ Seen.dic = p.dic /\ Seen.dicPos = p.dicPos /\ Seen.processedPos = p.processedPos
      /\ Seen.checkDicSize = w /\ Seen.remainLen = p.remainLen /\ Seen.reps = p.reps
      /\ Seen.afterMatch = p.afterMatch /\ Seen.next = p.next /\ Seen.coded = c
      /\ Seen.needFlush = p.needFlush /\ Seen.tempBuf = p.tempBuf
  BY <1>2, <1>6 DEF Decoders
<1>9. Checked(Seen)
  <2>1. p.checkDicSize = DicSize => p.processedPos >= DicSize
    BY <1>1 DEF CheckOK
  <2>2. (w = DicSize => p.processedPos >= DicSize) /\ (w = 0 => p.processedPos < DicSize)
    BY <1>2, <1>3, <1>4, <2>1
  <2>3. QED
    BY <1>8, <2>2 DEF Checked
<1>10. History(syms, Seen)
  <2>1. Rest(Seen) = Rest(p)
    BY <1>8 DEF Rest
  <2>2. ASSUME NEW text PROVE Holds(p, text) => Holds(Seen, text)
    BY <1>8 DEF Holds, At
  <2>3. QED
    BY <1>1, <1>8, <2>1, <2>2 DEF HistoryOK, History
<1>11. QED
  BY <1>4, <1>7, <1>8, <1>9, <1>10

LEMMA WrittenIs ==
  ASSUME DecoderInv, pc = "real2", NEW d, d = WriteRem(Seen, call.dicLimit)
  PROVE  /\ d \in Decoders(syms) /\ History(syms, d) /\ Checked(d)
         /\ p.dicPos <= d.dicPos /\ d.dicPos <= call.dicLimit
         /\ d.processedPos = p.processedPos + (d.dicPos - p.dicPos)
         /\ d.remainLen \in {0, SpecStart} \/ d.dicPos = call.dicLimit
         /\ d.next = p.next /\ d.coded = p.coded + call.owed /\ ~d.needFlush /\ d.tempBuf = p.tempBuf
<1>1. DecoderTypes /\ CheckOK /\ RoomOK
  BY DEF DecoderInv
<1>2. syms \in Seq(Format) /\ call.dicLimit \in 0 .. DicBufSize /\ DicBufSize \in Nat
  BY <1>1, DecoderIs, TypesAre, Sizes
<1>3. PICK s, limit : s = Seen /\ limit = call.dicLimit
  OBVIOUS
<1>4. /\ s \in Decoders(syms) /\ History(syms, s) /\ Checked(s)
      /\ s.dicPos = p.dicPos /\ s.processedPos = p.processedPos
      /\ s.next = p.next /\ s.coded = p.coded + call.owed
      /\ s.needFlush = p.needFlush /\ s.tempBuf = p.tempBuf
  BY <1>3, SeenIs
<1>5. limit \in Nat /\ limit <= DicBufSize
  BY <1>2, <1>3
<1>6. s.dicPos <= limit
  BY <1>1, <1>3, <1>4 DEF RoomOK, InDic
<1>7. d = WriteRem(s, limit)
  BY <1>3
<1>8. /\ d \in Decoders(syms) /\ History(syms, d) /\ Checked(d)
      /\ s.dicPos <= d.dicPos /\ d.dicPos <= limit
      /\ d.processedPos = s.processedPos + (d.dicPos - s.dicPos)
      /\ d.remainLen \in {0, SpecStart} \/ d.dicPos = limit
      /\ d.next = s.next /\ d.coded = s.coded /\ d.needFlush = s.needFlush /\ d.tempBuf = s.tempBuf
  BY <1>2, <1>4, <1>5, <1>6, <1>7, RemWritten
<1>9. ~p.needFlush
  BY <1>1 DEF CheckOK
<1>10. QED
  BY <1>3, <1>4, <1>8, <1>9

\* LzmaDec_DecodeReal2 goes on with the next symbol.
LEMMA MoreKeeps ==
  ASSUME DecoderInv, pc = "real2", NEW d, d = WriteRem(Seen, call.dicLimit), p' = d,
         NEW used, used = call.used + call.owed,
         d.dicPos < call.dicLimit, used < call.bufLimit, d.remainLen # SpecStart,
         pc' = "real", call' = [call EXCEPT !.used = used, !.owed = 0, !.limit2 = Limit2(d)],
         UNCHANGED <<stream, inbuf_size, f, asked, got, result, astray>>
  PROVE  DecoderInv'
<1>1. DecoderTypes /\ RoomOK /\ CountOK /\ DeliveredOK /\ HistoryOK /\ CheckOK /\ BytesOK
  BY DEF DecoderInv
<1>2. InCall /\ InDic /\ Sound /\ syms' = syms /\ ~astray
  BY <1>1 DEF InCall, InDic, CountOK, BytesOK, syms
<1>3. /\ d \in Decoders(syms) /\ History(syms, d) /\ Checked(d)
      /\ p.dicPos <= d.dicPos /\ d.dicPos <= call.dicLimit
      /\ d.processedPos = p.processedPos + (d.dicPos - p.dicPos)
      /\ d.remainLen \in {0, SpecStart} \/ d.dicPos = call.dicLimit
      /\ d.next = p.next /\ d.coded = p.coded + call.owed /\ ~d.needFlush /\ d.tempBuf = p.tempBuf
  BY WrittenIs
<1>4. /\ p.dicPos \in Nat /\ p.processedPos \in Nat /\ p.coded \in Nat /\ p.next \in 1 .. Len(syms) + 1
      /\ syms \in Seq(Format) /\ Len(syms) \in Nat
  BY <1>1, DecoderIs
<1>5. /\ call.used \in Nat /\ call.owed \in {0, 1} /\ call.bufLimit \in Nat /\ call.dicLimit \in 0 .. DicBufSize
      /\ call.dicStart \in 0 .. DicBufSize /\ Len(got) \in Nat /\ Len(call.made) \in Nat /\ Len(call.fed) \in Nat
      /\ DicBufSize \in Nat /\ RequiredMax \in Nat
  BY <1>1, TypesAre, Sizes
<1>6. d.dicPos \in Nat
  <2>1. d.dicPos \in 0 .. DicBufSize
    BY <1>3 DEF Decoders
  <2>2. QED
    BY <1>5, <2>1
<1>7. d.remainLen = 0
  <2>1. d.dicPos # call.dicLimit
    BY <1>5, <1>6
  <2>2. QED
    BY <1>3, <2>1
<1>8. PICK limit2 : limit2 = Limit2(d)
  OBVIOUS
<1>9. /\ limit2 \in Nat /\ limit2 <= call.dicLimit /\ d.dicPos < limit2
      /\ d.checkDicSize = 0 => d.processedPos + (limit2 - d.dicPos) <= DicSize
  <2>1. call.dicLimit \in Nat /\ d.dicPos <= call.dicLimit
    BY <1>3, <1>5
  <2>2. QED
    BY <1>3, <1>8, <2>1, LimitIs
<1>10. PICK D, P, E, G, M, S : /\ D = p.dicPos /\ P = p.processedPos /\ E = d.dicPos
                               /\ G = Len(got) /\ M = Len(call.made) /\ S = call.dicStart
  OBVIOUS
<1>11. /\ D \in Nat /\ P \in Nat /\ E \in Nat /\ G \in Nat /\ M \in Nat /\ S \in Nat
       /\ S <= D /\ D <= E /\ P = G + M + (D - S)
  <2>1. S <= D
    BY <1>1, <1>2, <1>10 DEF RoomOK
  <2>2. P = G + M + (D - S)
    BY <1>1, <1>2, <1>10 DEF CountOK
  <2>3. QED
    BY <1>3, <1>4, <1>5, <1>6, <1>10, <2>1, <2>2
<1>12. S <= E /\ P + (E - D) = G + M + (E - S)
  BY ONLY <1>11
<1>13. d.processedPos = Len(got) + Len(call.made) + (d.dicPos - call.dicStart) /\ call.dicStart <= d.dicPos
  BY <1>3, <1>10, <1>12
<1>14. d.next \in 1 .. Len(syms)
  <2>1. PICK done : done = d.processedPos
    OBVIOUS
  <2>2. done = Len(got) + Len(call.made) + (d.dicPos - call.dicStart)
    BY <1>13, <2>1
  <2>3. done < stream.unpack
    BY <1>1, <1>2, <1>6, <2>2, RoomLeft
  <2>4. stream \in Streams
    BY <1>1 DEF DecoderTypes
  <2>5. QED
    BY <1>3, <1>7, <2>1, <2>3, <2>4, NotDone
<1>15. used \in Nat
  BY <1>5
<1>16. /\ call'.src = call.src /\ call'.outSize = call.outSize /\ call'.finish = call.finish
       /\ call'.made = call.made /\ call'.dicStart = call.dicStart /\ call'.dicLimit = call.dicLimit
       /\ call'.curFinish = call.curFinish /\ call'.res = call.res
       /\ call'.fed = call.fed /\ call'.used = used /\ call'.bufLimit = call.bufLimit /\ call'.owed = 0
       /\ call'.limit2 = limit2 /\ call'.temp = call.temp /\ call'.lookAhead = call.lookAhead
  BY <1>1, <1>8 DEF DecoderTypes
<1>17. InCall' /\ InDic' /\ Sound'
  BY <1>2, <1>16 DEF InCall, InDic, Sound
<1>18. DecoderTypes'
  <2>1. call' \in [src : Nat, outSize : Nat, finish : {"any", "end"}, made : Seq(Nat),
               dicStart : 0 .. DicBufSize, dicLimit : 0 .. DicBufSize, curFinish : {"any", "end"},
               res : {"ok", "data", "fail"},
               status : {"none", "input", "mark", "maybe finished", "not finished"},
               fed : Seq(Nat), used : Nat, bufLimit : Nat, limit2 : Nat, owed : {0, 1},
               temp : BOOLEAN, lookAhead : Nat]
    BY <1>1, <1>8, <1>9, <1>15 DEF DecoderTypes
  <2>2. p' \in Decoders(syms)
    BY <1>3
  <2>3. QED
    BY <1>1, <1>2, <2>1, <2>2 DEF DecoderTypes, States
<1>19. RoomOK'
  BY <1>1, <1>2, <1>3, <1>13, <1>16, <1>17 DEF RoomOK
<1>20. CountOK'
  BY <1>13, <1>16, <1>17 DEF CountOK
<1>21. DeliveredOK'
  BY <1>1, <1>2, <1>16 DEF DeliveredOK
<1>22. HistoryOK'
  BY <1>2, <1>3 DEF HistoryOK
<1>23. ~AllDone'
  <2>1. ~(d.next > Len(syms))
    BY <1>4, <1>14
  <2>2. QED
    BY <1>2, <2>1 DEF AllDone
<1>24. CheckOK'
  <2>1. d.dicPos <= limit2
    BY <1>6, <1>9
  <2>2. QED
    BY <1>3, <1>7, <1>9, <1>16, <1>23, <2>1 DEF CheckOK, Checked
<1>25. BytesOK'
  <2>1. Place(call.src)' = Place(call.src)
    BY <1>16 DEF Place
  <2>2. PICK x, u, o, z, b : x = p.coded /\ u = call.used /\ o = call.owed /\ z = Len(call.fed) /\ b = call.bufLimit
    OBVIOUS
  <2>3. x \in Nat /\ u \in Nat /\ o \in {0, 1} /\ z \in Nat /\ b \in Nat /\ used = u + o /\ used < b
    BY <1>4, <1>5, <2>2
  <2>4. (x + o) - (u + o) = x - u /\ (x + o) + 0 = x + o /\ b # 0
    BY ONLY <2>3
  <2>5. x + o = Coded(syms)[p.next - 1]
    BY <1>1, <2>2 DEF BytesOK
  <2>6. /\ \A j \in 1 .. Len(call.fed) : call.fed[j] = p.coded - call.used + j - 1
        /\ ~call.temp => p.coded - call.used = Place(call.src) /\ p.tempBuf = <<>>
                         /\ Len(call.fed) = f.in_size - call.src
        /\ call.temp => call.bufLimit = 0
        /\ call.bufLimit = 0 \/ call.bufLimit + RequiredMax <= Len(call.fed)
    BY <1>1, <1>2 DEF BytesOK
  <2>7. call.temp = FALSE /\ b + RequiredMax <= z
    <3>1. call.temp \in BOOLEAN
      BY <1>1, TypesAre
    <3>2. QED
      BY <2>2, <2>4, <2>6, <3>1
  <2>8. p'.coded - call'.used = p.coded - call.used /\ p'.coded + call'.owed = p.coded + call.owed
    BY <1>3, <1>16, <2>2, <2>3, <2>4
  <2>9. call'.used + call'.owed + syms[p'.next].cost + syms[p'.next].late <= Len(call.fed)
    <3>1. /\ syms[d.next].cost \in Nat /\ syms[d.next].late \in {0, 1}
          /\ syms[d.next].cost + syms[d.next].late <= RequiredMax
      <4>1. stream \in Streams
        BY <1>1 DEF DecoderTypes
      <4>2. QED
        BY <1>14, <4>1, StreamIs, SymbolIs
    <3>2. PICK c, l : c = syms[d.next].cost /\ l = syms[d.next].late
      OBVIOUS
    <3>3. c \in Nat /\ l \in {0, 1} /\ c + l <= RequiredMax /\ RequiredMax \in Nat /\ used \in Nat
      BY <1>5, <1>15, <3>1, <3>2
    <3>4. used + 0 + c + l <= z
      BY ONLY <2>3, <2>7, <3>3
    <3>5. QED
      BY <1>16, <2>2, <3>2, <3>4
  <2>10. p'.coded + call'.owed = Coded(syms)[p'.next - 1]
    BY <1>3, <2>2, <2>5, <2>8
  <2>11. \A j \in 1 .. Len(call.fed) : call.fed[j] = p'.coded - call'.used + j - 1
    BY <2>6, <2>8
  <2>12. p'.coded - call'.used = Place(call.src) /\ p'.tempBuf = <<>> /\ Len(call.fed) = f.in_size - call.src
    BY <1>3, <2>6, <2>7, <2>8
  <2>13. call'.res # "fail" /\ ~p'.needFlush /\ ~call'.temp
    BY <1>3, <1>16, <1>17, <2>7 DEF Sound
  <2>14. call.bufLimit = 0 \/ call.bufLimit + RequiredMax <= Len(call.fed)
    BY <2>6
  <2>15. QED
    BY <1>2, <1>16, <1>17, <2>1, <2>9, <2>10, <2>11, <2>12, <2>13, <2>14 DEF BytesOK
<1>26. QED
  BY <1>18, <1>19, <1>20, <1>21, <1>22, <1>24, <1>25 DEF DecoderInv

\* A turn of LzmaDec_sm_DecodeToDic ends; what has been used of inbuf ends at src.
LEMMA BackKeeps ==
  ASSUME DecoderInv, pc = "real2", NEW d, d = WriteRem(Seen, call.dicLimit),
         p' = [d EXCEPT !.tempBuf = <<>>], NEW src \in Nat, call.src <= src, src <= f.in_size,
         Place(src) = p.coded + call.owed,
         pc' = "dic", call' = [call EXCEPT !.src = src],
         UNCHANGED <<stream, inbuf_size, f, asked, got, result, astray>>
  PROVE  DecoderInv'
<1>1. DecoderTypes /\ RoomOK /\ CountOK /\ DeliveredOK /\ HistoryOK /\ CheckOK /\ BytesOK
  BY DEF DecoderInv
<1>2. InCall /\ InDic /\ Sound /\ syms' = syms /\ ~astray
  BY <1>1 DEF InCall, InDic, CountOK, BytesOK, syms
<1>3. /\ d \in Decoders(syms) /\ History(syms, d) /\ Checked(d)
      /\ p.dicPos <= d.dicPos /\ d.dicPos <= call.dicLimit
      /\ d.processedPos = p.processedPos + (d.dicPos - p.dicPos)
      /\ d.remainLen \in {0, SpecStart} \/ d.dicPos = call.dicLimit
      /\ d.next = p.next /\ d.coded = p.coded + call.owed /\ ~d.needFlush /\ d.tempBuf = p.tempBuf
  BY WrittenIs
<1>4. /\ p.dicPos \in Nat /\ p.processedPos \in Nat /\ p.coded \in Nat /\ p.next \in 1 .. Len(syms) + 1
      /\ syms \in Seq(Format) /\ Len(syms) \in Nat
  BY <1>1, DecoderIs
<1>5. /\ call.src \in Nat /\ f.in_pos \in Nat /\ call.dicLimit \in 0 .. DicBufSize
      /\ call.dicStart \in 0 .. DicBufSize /\ Len(got) \in Nat /\ Len(call.made) \in Nat
      /\ DicBufSize \in Nat /\ RequiredMax \in Nat \ {0}
  BY <1>1, TypesAre, Sizes
<1>6. d.dicPos \in Nat
  <2>1. d.dicPos \in 0 .. DicBufSize
    BY <1>3 DEF Decoders
  <2>2. QED
    BY <1>5, <2>1
<1>7. PICK e : e = [d EXCEPT !.tempBuf = <<>>]
  OBVIOUS
<1>8. e \in Decoders(syms) /\ SameText(e, d) /\ ~e.needFlush /\ e.tempBuf = <<>> /\ e.coded = d.coded
  <2>1. <<>> \in Seq(Nat)
    OBVIOUS
  <2>2. QED
    BY <1>3, <1>7, <2>1 DEF Decoders, SameText
<1>9. History(syms, e) /\ Checked(e)
  BY <1>3, <1>8, SameHistory
<1>10. PICK D, P, E, G, M, S : /\ D = p.dicPos /\ P = p.processedPos /\ E = d.dicPos
                               /\ G = Len(got) /\ M = Len(call.made) /\ S = call.dicStart
  OBVIOUS
<1>11. /\ D \in Nat /\ P \in Nat /\ E \in Nat /\ G \in Nat /\ M \in Nat /\ S \in Nat
       /\ S <= D /\ D <= E /\ P = G + M + (D - S)
  <2>1. S <= D
    BY <1>1, <1>2, <1>10 DEF RoomOK
  <2>2. P = G + M + (D - S)
    BY <1>1, <1>2, <1>10 DEF CountOK
  <2>3. QED
    BY <1>3, <1>4, <1>5, <1>6, <1>10, <2>1, <2>2
<1>12. S <= E /\ P + (E - D) = G + M + (E - S)
  BY ONLY <1>11
<1>13. /\ e.processedPos = Len(got) + Len(call.made) + (e.dicPos - call.dicStart)
       /\ call.dicStart <= e.dicPos /\ e.dicPos <= call.dicLimit
       /\ e.remainLen = d.remainLen /\ e.next = p.next
  BY <1>3, <1>8, <1>10, <1>12 DEF SameText
<1>14. /\ call'.src = src /\ call'.outSize = call.outSize /\ call'.finish = call.finish
       /\ call'.made = call.made /\ call'.dicStart = call.dicStart /\ call'.dicLimit = call.dicLimit
       /\ call'.curFinish = call.curFinish /\ call'.res = call.res
  BY <1>1 DEF DecoderTypes
<1>15. InCall' /\ InDic' /\ Sound' /\ p' = e
  BY <1>2, <1>7, <1>14 DEF InCall, InDic, Sound
<1>16. DecoderTypes'
  <2>1. call' \in [src : Nat, outSize : Nat, finish : {"any", "end"}, made : Seq(Nat),
               dicStart : 0 .. DicBufSize, dicLimit : 0 .. DicBufSize, curFinish : {"any", "end"},
               res : {"ok", "data", "fail"},
               status : {"none", "input", "mark", "maybe finished", "not finished"},
               fed : Seq(Nat), used : Nat, bufLimit : Nat, limit2 : Nat, owed : {0, 1},
               temp : BOOLEAN, lookAhead : Nat]
    BY <1>1 DEF DecoderTypes
  <2>2. QED
    BY <1>1, <1>2, <1>8, <1>15, <2>1 DEF DecoderTypes, States
<1>17. RoomOK'
  <2>1. f.in_pos <= call.src
    BY <1>1, <1>2 DEF RoomOK
  <2>2. f.in_pos <= src
    BY <1>5, <2>1
  <2>3. QED
    BY <1>1, <1>2, <1>13, <1>14, <1>15, <2>2 DEF RoomOK
<1>18. CountOK'
  BY <1>13, <1>14, <1>15 DEF CountOK
<1>19. DeliveredOK'
  BY <1>1, <1>2, <1>14 DEF DeliveredOK
<1>20. HistoryOK'
  BY <1>2, <1>9, <1>15 DEF HistoryOK
<1>21. CheckOK'
  <2>1. e.remainLen # SpecStart => e.remainLen = 0 \/ e.dicPos = call.dicLimit
    <3>1. e.dicPos = d.dicPos
      BY <1>8 DEF SameText
    <3>2. QED
      BY <1>3, <1>13, <3>1
  <2>2. QED
    BY <1>9, <1>14, <1>15, <2>1 DEF CheckOK, Checked
<1>22. BytesOK'
  <2>1. Here' = Place(src)
    BY <1>14, <1>15 DEF Here, Place
  <2>2. e.coded = Coded(syms)[e.next - 1]
    BY <1>1, <1>3, <1>8, <1>13 DEF BytesOK
  <2>3. e.coded + 0 = Place(src) /\ 0 < RequiredMax
    <3>1. e.coded \in Nat
      BY <1>8 DEF Decoders
    <3>2. QED
      BY <1>3, <1>5, <1>8, <3>1
  <2>4. Kept(syms, p', Here')
    <3>1. PICK here : here = Here'
      OBVIOUS
    <3>2. Kept(syms, e, here)
      <4>1. here = Place(src)
        BY <2>1, <3>1
      <4>2. QED
        BY ONLY <1>8, <2>2, <2>3, <4>1 DEF Kept
    <3>3. QED
      BY <1>15, <3>1, <3>2
  <2>5. call'.res # "fail" /\ ~p'.needFlush
    BY <1>8, <1>15 DEF Sound
  <2>6. QED
    BY <1>2, <2>4, <2>5, BytesKept
<1>23. QED
  BY <1>16, <1>17, <1>18, <1>19, <1>20, <1>21, <1>22 DEF DecoderInv

LEMMA RealDoneKeeps ==
  ASSUME DecoderInv, RealDone PROVE DecoderInv'
<1>1. pc = "real2" /\ UNCHANGED <<stream, inbuf_size, f, asked, got, result>>
  BY DEF RealDone
<1>2. DecoderTypes /\ RoomOK /\ CountOK /\ CheckOK /\ BytesOK
  BY DEF DecoderInv
<1>3. PICK used, d, kept : /\ used = call.used + call.owed /\ d = WriteRem(Seen, call.dicLimit)
                           /\ kept = Len(call.fed) - used
  OBVIOUS
<1>4. PICK x, u, o, z, a, src, place : /\ x = p.coded /\ u = call.used /\ o = call.owed /\ z = Len(call.fed)
                                       /\ a = call.lookAhead /\ src = call.src /\ place = Place(call.src)
  OBVIOUS
<1>5. x \in Nat /\ u \in Nat /\ o \in {0, 1} /\ z \in Nat /\ a \in Nat /\ src \in Nat
  BY <1>2, <1>4, TypesAre, DecoderIs
<1>6. /\ u + o <= z
      /\ call.temp => u + o > z - a /\ x - u + z = place + a /\ src + a <= f.in_size
      /\ ~call.temp => x - u = place /\ p.tempBuf = <<>> /\ z = f.in_size - src
  <2>1. InCall
    BY <1>1 DEF InCall
  <2>2. QED
    BY <1>1, <1>2, <1>4, <2>1 DEF BytesOK
<1>7. astray' = astray
  <2>1. call.owed \in Nat /\ call.used + call.owed <= Len(call.fed)
    <3>1. o \in Nat
      BY <1>5
    <3>2. QED
      BY <1>4, <1>6, <3>1
  <2>2. \A k \in 1 .. Len(call.fed) : call.fed[k] = p.coded - call.used + k - 1
    BY <1>1, <1>2 DEF BytesOK
  <2>3. ~Wrong(call.owed)
    BY <1>2, <2>1, <2>2, NotWrong
  <2>4. astray' = (astray \/ Wrong(call.owed)) /\ astray \in BOOLEAN
    BY <1>2 DEF RealDone, DecoderTypes
  <2>5. QED
    BY <2>3, <2>4
<1>8. d \in Decoders(syms) /\ d.tempBuf = p.tempBuf
  BY <1>1, <1>3, WrittenIs
<1>9. f.src_curr \in Nat /\ f.in_size \in Nat /\ f.in_size <= f.src_curr /\ src <= f.in_size
  <2>1. InCall
    BY <1>1 DEF InCall
  <2>2. QED
    BY <1>2, <1>4, <2>1, TypesAre DEF RoomOK
<1>10. PICK more \in BOOLEAN : more = (d.dicPos < call.dicLimit /\ used < call.bufLimit /\ d.remainLen # SpecStart)
  OBVIOUS
<1>11. used = u + o /\ used \in Nat /\ kept = z - used
  BY <1>3, <1>4, <1>5
<1>12. call.temp => kept \in 0 .. call.lookAhead /\ x - u + z = place + a /\ src + a <= f.in_size
  <2>1. SUFFICES ASSUME call.temp PROVE kept \in 0 .. call.lookAhead
    BY <1>6
  <2>2. u + o > z - a
    BY <1>6, <2>1
  <2>3. kept \in 0 .. a
    BY ONLY <1>5, <1>6, <1>11, <2>2
  <2>4. QED
    BY <1>4, <2>3
<1>13. (CASE more -> /\ p' = d /\ pc' = "real"
                    /\ call' = [call EXCEPT !.used = used, !.owed = 0, !.limit2 = Limit2(d)]
         [] ~more /\ ~call.temp -> /\ p' = d /\ pc' = "dic"
                                   /\ call' = [call EXCEPT !.src = @ + used]
         [] ~more /\ call.temp /\ kept \in 0 .. call.lookAhead ->
                /\ p' = [d EXCEPT !.tempBuf = <<>>] /\ pc' = "dic"
                /\ call' = [call EXCEPT !.src = @ + call.lookAhead - kept]
         [] OTHER -> p' = d /\ Returns("fail", "none", call.src))
  BY <1>3, <1>10 DEF RealDone, Seen
<1>14. CASE more
  <2>1. /\ p' = d /\ pc' = "real"
        /\ call' = [call EXCEPT !.used = used, !.owed = 0, !.limit2 = Limit2(d)]
    BY <1>13, <1>14
  <2>2. d.dicPos < call.dicLimit /\ used < call.bufLimit /\ d.remainLen # SpecStart
    BY <1>10, <1>14
  <2>3. QED
    BY <1>1, <1>3, <1>7, <2>1, <2>2, MoreKeeps
<1>15. CASE ~more /\ ~call.temp
  <2>1. p' = d /\ pc' = "dic" /\ call' = [call EXCEPT !.src = src + used]
    BY <1>4, <1>13, <1>15
  <2>2. p' = [d EXCEPT !.tempBuf = <<>>]
    BY <1>6, <1>8, <1>15, <2>1 DEF Decoders
  <2>3. PICK to : to = src + used
    OBVIOUS
  <2>4. to \in Nat /\ src <= to /\ to <= f.in_size
    BY <1>5, <1>6, <1>9, <1>11, <1>15, <2>3
  <2>5. Place(to) = x + o
    <3>1. place = f.src_curr - f.in_size + src /\ Place(to) = f.src_curr - f.in_size + to
      BY <1>4 DEF Place
    <3>2. PICK c, m : c = f.src_curr /\ m = f.in_size
      OBVIOUS
    <3>3. c \in Nat /\ m \in Nat /\ place = c - m + src /\ Place(to) = c - m + to /\ x - u = place
      BY <1>6, <1>9, <1>15, <3>1, <3>2
    <3>4. QED
      BY ONLY <1>5, <1>11, <2>3, <3>3
  <2>6. QED
    BY <1>1, <1>3, <1>4, <1>7, <2>1, <2>2, <2>3, <2>4, <2>5, BackKeeps
<1>16. CASE ~more /\ call.temp
  <2>1. p' = [d EXCEPT !.tempBuf = <<>>] /\ pc' = "dic" /\ call' = [call EXCEPT !.src = src + a - kept]
    BY <1>4, <1>12, <1>13, <1>16
  <2>2. PICK to : to = src + a - kept
    OBVIOUS
  <2>3. kept \in 0 .. a /\ x - u + z = place + a /\ src + a <= f.in_size
    BY <1>4, <1>12, <1>16
  <2>4. to \in Nat /\ src <= to /\ to <= f.in_size
    BY <1>5, <1>9, <2>2, <2>3
  <2>5. Place(to) = x + o
    <3>1. place = f.src_curr - f.in_size + src /\ Place(to) = f.src_curr - f.in_size + to
      BY <1>4 DEF Place
    <3>2. PICK c, m : c = f.src_curr /\ m = f.in_size
      OBVIOUS
    <3>3. c \in Nat /\ m \in Nat /\ place = c - m + src /\ Place(to) = c - m + to
      BY <1>9, <3>1, <3>2
    <3>4. QED
      BY ONLY <1>5, <1>11, <2>2, <2>3, <3>3
  <2>6. QED
    BY <1>1, <1>3, <1>4, <1>7, <2>1, <2>2, <2>4, <2>5, BackKeeps
<1>17. QED
  BY <1>14, <1>15, <1>16

LEMMA StepKeeps ==
  ASSUME DecoderInv, [Next]_vars PROVE DecoderInv'
<1>1. CASE Ask
  BY <1>1, AskKeeps
<1>2. CASE Fill
  BY <1>2, FillKeeps
<1>3. CASE ToBuf
  BY <1>3, ToBufKeeps
<1>4. CASE FromDic
  BY <1>4, FromDicKeeps
<1>5. CASE Made
  BY <1>5, MadeKeeps
<1>6. CASE Error
  BY <1>6, ErrorKeeps
<1>7. CASE Marked
  BY <1>7, MarkedKeeps
<1>8. CASE Flush
  BY <1>8, FlushKeeps
<1>9. CASE NoRoom
  BY <1>9, NoRoomKeeps
<1>10. CASE FromSrc
  BY <1>10, FromSrcKeeps
<1>11. CASE FromTemp
  BY <1>11, FromTempKeeps
<1>12. CASE RealSymbol
  BY <1>12, RealSymbolKeeps
<1>13. CASE RealDone
  BY <1>13, RealDoneKeeps
<1>14. CASE UNCHANGED vars
  <2>1. UNCHANGED <<stream, inbuf_size, f, p, call, pc, asked, got, result, astray>> /\ syms' = syms
    BY <1>14 DEF vars, syms
  <2>2. DecoderTypes /\ RoomOK /\ CountOK /\ DeliveredOK /\ HistoryOK /\ CheckOK /\ BytesOK
    BY DEF DecoderInv
  <2>3. DecoderTypes'
    BY <2>1, <2>2, ZenonT(60) DEF DecoderTypes
  <2>4. RoomOK' /\ CountOK'
    BY <2>1, <2>2 DEF RoomOK, CountOK, InCall, InDic, Sound
  <2>5. DeliveredOK' /\ HistoryOK'
    BY <2>1, <2>2 DEF DeliveredOK, HistoryOK
  <2>6. CheckOK'
    BY <2>1, <2>2 DEF CheckOK, AllDone
  <2>7. BytesOK'
    BY <2>1, <2>2 DEF BytesOK, InCall, Sound, Place, AllDone
  <2>8. QED
    BY <2>3, <2>4, <2>5, <2>6, <2>7 DEF DecoderInv
<1>15. QED
  BY <1>1, <1>2, <1>3, <1>4, <1>5, <1>6, <1>7, <1>8, <1>9, <1>10, <1>11, <1>12, <1>13, <1>14 DEF Next, Decoder

LEMMA GotKeeps ==
  ASSUME DecoderInv, DecoderInv', [Next]_vars, GotOK PROVE GotOK'
<1>1. DecoderTypes' /\ RoomOK' /\ CountOK' /\ Len(got) \in Nat
  BY TypesAre DEF DecoderInv
<1>2. Len(got') \in Nat /\ Len(call'.made) \in Nat /\ p'.dicPos \in Nat /\ call'.dicStart \in 0 .. DicBufSize
  <2>1. got' \in Seq(Nat) /\ call'.made \in Seq(Nat) /\ call'.dicStart \in 0 .. DicBufSize
    BY <1>1 DEF DecoderTypes
  <2>2. p'.dicPos \in 0 .. DicBufSize
    BY <1>1 DEF DecoderTypes, Decoders
  <2>3. Len(got') \in Nat /\ Len(call'.made) \in Nat
    BY <2>1
  <2>4. QED
    BY <2>1, <2>2, <2>3, Sizes
<1>3. PICK G, M, D, S : G = Len(got') /\ M = Len(call'.made) /\ D = p'.dicPos /\ S = call'.dicStart
  OBVIOUS
<1>4. CASE pc' \in {"fill", "buf", "made"}
  <2>1. pc' = "fill" => result' = "ok"
    BY <1>1 DEF CountOK, Sound
  <2>2. p'.processedPos = G \/ p'.processedPos = G + M
    BY <1>1, <1>3, <1>4, <2>1 DEF CountOK
  <2>3. G \in Nat /\ M \in Nat
    BY <1>2, <1>3
  <2>4. G <= p'.processedPos
    BY <2>2, <2>3
  <2>5. QED
    BY <1>3, <2>4 DEF GotOK
<1>5. CASE InDic'
  <2>1. p'.processedPos = G + M + (D - S) /\ S <= D
    BY <1>1, <1>3, <1>5 DEF CountOK, RoomOK
  <2>2. G \in Nat /\ M \in Nat /\ D \in Int /\ S \in Int
    BY <1>2, <1>3
  <2>3. G <= p'.processedPos
    BY <2>1, <2>2
  <2>4. QED
    BY <1>3, <2>3 DEF GotOK
<1>6. CASE UNCHANGED <<p, got>>
  BY <1>6 DEF GotOK
<1>7. CASE Made
  <2>1. pc = "made" /\ p' = p /\ got' = got \o call.made
    BY <1>7 DEF Made
  <2>2. DecoderTypes /\ CountOK
    BY DEF DecoderInv
  <2>3. p.processedPos = Len(got) + Len(call.made)
    BY <2>1, <2>2 DEF CountOK
  <2>4. Len(got') = Len(got) + Len(call.made)
    BY <2>1, <2>2, TypesAre, Joined
  <2>5. Len(got') <= p'.processedPos
    BY <1>2, <2>1, <2>3, <2>4
  <2>6. QED
    BY <2>5 DEF GotOK
<1>8. UNCHANGED <<p, got>> \/ pc' \in {"fill", "buf", "dic", "real", "real2", "fromDic"} \/ Made
  <2>1. Ask \/ Error \/ UNCHANGED vars => UNCHANGED <<p, got>>
    BY DEF Ask, Error, vars
  <2>2. Fill \/ ToBuf => pc' \in {"buf", "dic"}
    BY DEF Fill, ToBuf
  <2>3. FromDic => UNCHANGED <<p, got>>
    BY DEF FromDic
  <2>4. Marked \/ NoRoom => pc' = "fromDic"
    BY DEF Marked, NoRoom, Returns
  <2>5. Flush => pc' \in {"fromDic", "dic"}
    BY DEF Flush, InLoop, Returns
  <2>6. FromSrc => pc' \in {"fromDic", "real"}
    BY DEF FromSrc, Returns, Decode
  <2>7. FromTemp => pc' \in {"fromDic", "real"}
    BY DEF FromTemp, Returns, Decode
  <2>8. RealSymbol => pc' \in {"fromDic", "real", "real2"}
    BY DEF RealSymbol, Returns
  <2>9. RealDone => pc' \in {"fromDic", "real", "dic"}
    BY DEF RealDone, Returns
  <2>10. QED
    BY <2>1, <2>2, <2>3, <2>4, <2>5, <2>6, <2>7, <2>8, <2>9 DEF Next, Decoder
<1>9. QED
  BY <1>4, <1>5, <1>6, <1>7, <1>8 DEF InDic

LEMMA TextDelivered ==
  ASSUME DecoderInv, GotOK PROVE DeliversText
<1>1. DecoderTypes /\ DeliveredOK /\ HistoryOK /\ BytesOK
  BY DEF DecoderInv
<1>2. stream \in Streams
  BY <1>1 DEF DecoderTypes
<1>3. p \in Decoders(syms) /\ syms \in Seq(Format) /\ p.processedPos \in Nat /\ Len(syms) \in Nat /\ got \in Seq(Nat)
  BY <1>1, <1>2, DecoderIs, TypesAre, StreamIs
<1>4. PICK known, text : known = Meaning(syms)[p.next - 1].text /\ text = Text(syms)
  OBVIOUS
<1>5. p.next - 1 \in 0 .. Len(syms) /\ known \in Seq(Nat) /\ Len(known) \in Nat
  BY <1>3, <1>4, KnownIs
<1>6. text \in Seq(Nat) /\ Len(known) <= Len(text)
  <2>1. Len(syms) \in p.next - 1 .. Len(syms) /\ Len(syms) \in 0 .. Len(syms)
    BY <1>3, <1>5
  <2>2. Begins(known, text)
    BY <1>3, <1>4, <1>5, <2>1, Grows DEF Text
  <2>3. Meaning(syms)[Len(syms)] \in Facts
    BY <1>3, <2>1, MeaningDefined
  <2>4. text \in Seq(Nat)
    BY <1>4, <2>3 DEF Text, Facts
  <2>5. QED
    BY <2>2, <2>4 DEF Begins
<1>7. p.processedPos <= Len(known)
  <2>1. Rest(p) \in Nat
    BY <1>1, DecoderIs, SpecIs DEF Rest
  <2>2. Len(known) = p.processedPos + Rest(p)
    BY <1>1, <1>4 DEF HistoryOK, History
  <2>3. QED
    BY <1>3, <2>1, <2>2
<1>8. PICK n : n = Len(got)
  OBVIOUS
<1>9. n \in Nat /\ n <= Len(text) /\ Len(text) \in Nat
  <2>1. n \in Nat /\ Len(text) \in Nat /\ n <= p.processedPos
    BY <1>3, <1>6, <1>8 DEF GotOK
  <2>2. QED
    BY <1>3, <1>5, <1>6, <1>7, <2>1
<1>10. got = SubSeq(text, 1, n)
  <2>1. \A i \in 1 .. n : got[i] = text[i]
    BY <1>1, <1>4, <1>8 DEF DeliveredOK
  <2>2. SubSeq(text, 1, n) \in Seq(Nat) /\ Len(SubSeq(text, 1, n)) = n
        /\ \A i \in 1 .. n : SubSeq(text, 1, n)[i] = text[i]
    BY <1>6, <1>9
  <2>3. QED
    BY <1>3, <1>8, <2>1, <2>2
<1>11. ~astray /\ call.res # "fail"
  BY <1>1 DEF BytesOK
<1>12. QED
  BY <1>4, <1>8, <1>9, <1>10, <1>11 DEF DeliversText

LEMMA Decodes == Spec => [](DecoderInv /\ GotOK)
<1>1. Init => DecoderInv
  BY StartsSound
<1>2. Init /\ DecoderInv => GotOK
  <2>1. SUFFICES ASSUME Init, DecoderInv PROVE GotOK
    OBVIOUS
  <2>2. got = <<>> /\ p.processedPos = 0
    BY <2>1 DEF Init
  <2>3. Len(got) = 0
    BY <2>2
  <2>4. QED
    BY <2>2, <2>3 DEF GotOK
<1>3. (DecoderInv /\ GotOK) /\ [Next]_vars => (DecoderInv /\ GotOK)'
  <2>1. SUFFICES ASSUME DecoderInv, GotOK, [Next]_vars PROVE DecoderInv' /\ GotOK'
    OBVIOUS
  <2>2. DecoderInv'
    BY <2>1, StepKeeps
  <2>3. GotOK'
    BY <2>1, <2>2, GotKeeps
  <2>4. QED
    BY <2>2, <2>3
<1>4. QED
  BY <1>1, <1>2, <1>3, PTL DEF Spec

(***************************************************************************)
(* Whatever is asked for, however the input is cut, whether the stream is  *)
(* good or bad, what read_decode_by_length delivers is a beginning of the  *)
(* text of the stream; the range coder never gets a wrong byte, and the    *)
(* checks of LzmaDec_sm_DecodeToDic for an internal error never fail.      *)
(***************************************************************************)
THEOREM DeliversRight == Spec => []DeliversText
<1>1. DecoderInv /\ GotOK => DeliversText
  BY TextDelivered
<1>2. QED
  BY <1>1, Decodes, PTL

-----------------------------------------------------------------------------
(* A stream that is valid and there in full.                               *)

\* When the whole text has been decoded, only the end mark may be left.
LEMMA Complete ==
  ASSUME DecoderInv, Whole, p.processedPos = stream.unpack
  PROVE  Rest(p) = 0 /\ (p.next \in 1 .. Len(syms) => syms[p.next].kind = "mark")
<1>1. DecoderTypes /\ HistoryOK
  BY DEF DecoderInv
<1>2. stream \in Streams
  BY <1>1 DEF DecoderTypes
<1>3. p \in Decoders(syms) /\ syms \in Seq(Format) /\ p.processedPos \in Nat /\ Len(syms) \in Nat
      /\ p.remainLen \in 0 .. SpecStart
  BY <1>1, <1>2, DecoderIs, StreamIs
<1>4. Valid(syms) /\ p.processedPos = Len(Text(syms))
  BY DEF Whole
<1>5. PICK m, n, l : m = Meaning(syms) /\ n = p.next /\ l = Len(syms)
  OBVIOUS
<1>6. m \in [0 .. l -> Facts] /\ \A i \in 1 .. l : m[i] = Told(syms[i], i, m[i - 1])
  BY <1>3, <1>5, MeaningDefined
<1>7. n \in 1 .. l + 1 /\ n - 1 \in 0 .. l /\ m[n - 1].text \in Seq(Nat) /\ Len(m[n - 1].text) \in Nat /\ l \in Nat
  BY <1>3, <1>5, KnownIs
<1>8. m[l].ok /\ m[l].text = Text(syms) /\ m[l].text \in Seq(Nat) /\ Len(m[l].text) \in Nat
  <2>1. m[l] \in Facts
    BY <1>6, <1>7
  <2>2. m[l].text \in Seq(Nat)
    BY <2>1 DEF Facts
  <2>3. QED
    BY <1>4, <1>5, <2>2 DEF Valid, Text
<1>9. Len(m[n - 1].text) = p.processedPos + Rest(p)
  BY <1>1, <1>5 DEF HistoryOK, History
<1>10. Rest(p) \in Nat
  BY <1>3, SpecIs DEF Rest
<1>11. Rest(p) = 0
  <2>1. l \in n - 1 .. l
    BY <1>7
  <2>2. Begins(m[n - 1].text, m[l].text)
    BY <1>3, <1>5, <1>7, <2>1, Grows
  <2>3. Len(m[n - 1].text) <= p.processedPos
    BY <1>4, <1>8, <2>2 DEF Begins
  <2>4. QED
    BY <1>3, <1>9, <1>10, <2>3
<1>12. ASSUME n \in 1 .. l, syms[n].kind # "mark" PROVE FALSE
  <2>1. m[n] = Told(syms[n], n, m[n - 1]) /\ n \in Nat /\ m[n - 1] \in Facts /\ syms[n] \in Format
    BY <1>3, <1>5, <1>6, <1>7, <1>12
  <2>2. l \in n .. l /\ n \in 0 .. l
    BY <1>7, <1>12
  <2>3. m[n].ok /\ Begins(m[n].text, m[l].text)
    BY <1>3, <1>5, <1>8, <2>2, Grows
  <2>4. Len(m[n - 1].text) < Len(m[n].text)
    BY <1>12, <2>1, <2>3, ToldGrows
  <2>5. m[n] \in Facts
    BY <1>6, <2>2
  <2>6. Len(m[n].text) \in Nat /\ Len(m[n].text) <= p.processedPos
    <3>1. m[n].text \in Seq(Nat)
      BY <2>5 DEF Facts
    <3>2. QED
      BY <1>4, <1>8, <2>3, <3>1 DEF Begins
  <2>7. Len(m[n - 1].text) = p.processedPos
    BY <1>3, <1>9, <1>11
  <2>8. QED
    BY <1>3, <2>4, <2>6, <2>7
<1>13. QED
  BY <1>5, <1>11, <1>12

\* At the end of the patch the whole text has been decoded.
LEMMA FullIs ==
  ASSUME DecoderInv, InDic, p.dicPos >= call.dicLimit, call.curFinish = "end"
  PROVE  p.processedPos = stream.unpack
<1>1. DecoderTypes /\ RoomOK /\ CountOK
  BY DEF DecoderInv
<1>2. /\ p.dicPos \in Nat /\ p.processedPos \in Nat /\ call.dicLimit \in 0 .. DicBufSize /\ DicBufSize \in Nat
      /\ call.dicStart \in 0 .. DicBufSize /\ Len(got) \in Nat /\ Len(call.made) \in Nat /\ call.outSize \in Nat
      /\ f.unpackSize \in Nat
  BY <1>1, DecoderIs, TypesAre, Sizes
<1>3. InCall
  BY DEF InCall, InDic
<1>4. PICK D, S, L, G, M, O, U : /\ D = p.dicPos /\ S = call.dicStart /\ L = call.dicLimit /\ G = Len(got)
                                 /\ M = Len(call.made) /\ O = call.outSize /\ U = f.unpackSize
  OBVIOUS
<1>5. D \in Nat /\ S \in Nat /\ L \in Nat /\ G \in Nat /\ M \in Nat /\ O \in Nat /\ U \in Nat /\ D >= L
  BY <1>2, <1>4
<1>6. D <= L /\ L - S = O /\ M + O = U /\ U + G = stream.unpack
  BY <1>1, <1>3, <1>4 DEF RoomOK
<1>7. p.processedPos = G + M + (D - S)
  BY <1>1, <1>4 DEF CountOK
<1>8. G + M + (D - S) = U + G
  BY ONLY <1>5, <1>6
<1>9. QED
  BY <1>6, <1>7, <1>8

\* When the whole text has been decoded and some of it is still to be delivered, this call has made some of it.
LEMMA MadeSome ==
  ASSUME DecoderInv, InDic, p.processedPos = stream.unpack, f.unpackSize > 0
  PROVE  call.made # <<>> \/ p.dicPos # call.dicStart
<1>1. DecoderTypes /\ RoomOK /\ CountOK
  BY DEF DecoderInv
<1>2. /\ p.dicPos \in Nat /\ Len(got) \in Nat /\ f.unpackSize \in Nat
  BY <1>1, DecoderIs, TypesAre
<1>3. SUFFICES ASSUME call.made = <<>>, p.dicPos = call.dicStart PROVE FALSE
  OBVIOUS
<1>4. Len(call.made) = 0
  BY <1>3
<1>5. p.processedPos = Len(got) + 0 + (p.dicPos - p.dicPos) /\ f.unpackSize + Len(got) = stream.unpack
  BY <1>1, <1>3, <1>4 DEF RoomOK, CountOK
<1>6. QED
  BY <1>2, <1>5

LEMMA MarkIsEnd ==
  ASSUME DecoderInv, Whole, p.remainLen = SpecStart
  PROVE  AllDone /\ p.processedPos = stream.unpack
<1>1. DecoderTypes /\ HistoryOK
  BY DEF DecoderInv
<1>2. stream \in Streams
  BY <1>1 DEF DecoderTypes
<1>3. syms \in Seq(Format) /\ p.processedPos \in Nat /\ Len(syms) \in Nat /\ p.next \in 1 .. Len(syms) + 1
  BY <1>1, <1>2, DecoderIs, StreamIs
<1>4. p.next > 1 /\ syms[p.next - 1].kind = "mark"
  BY <1>1 DEF HistoryOK, History
<1>5. p.next - 1 \in 1 .. Len(syms)
  BY <1>3, <1>4
<1>6. p.next - 1 = Len(syms)
  BY <1>2, <1>4, <1>5, StreamIs
<1>7. AllDone
  BY <1>3, <1>6 DEF AllDone
<1>8. Rest(p) = 0
  BY DEF Rest
<1>9. Len(Text(syms)) = p.processedPos + 0
  BY <1>1, <1>6, <1>8 DEF HistoryOK, History, Text
<1>10. QED
  BY <1>3, <1>7, <1>9 DEF Whole

\* At the end of the input the decoder has all that the next symbol needs.
LEMMA EndOfInput ==
  ASSUME DecoderInv, Whole, pc = "dic", call.src = f.in_size, f.src_curr = stream.area
  PROVE  /\ ~p.needFlush
         /\ p.next \in 1 .. Len(syms) => syms[p.next].cost + syms[p.next].late <= Len(p.tempBuf)
<1>1. DecoderTypes /\ RoomOK /\ CountOK /\ BytesOK
  BY DEF DecoderInv
<1>2. stream \in Streams
  BY <1>1 DEF DecoderTypes
<1>3. syms \in Seq(Format) /\ Len(syms) \in Nat /\ Len(p.tempBuf) \in Nat /\ InitSize \in Nat
  BY <1>1, <1>2, DecoderIs, StreamIs, Sizes
<1>4. Sound /\ InCall
  BY <1>1 DEF CountOK, InCall
<1>5. Place(call.src) = stream.area
  BY <1>1, <1>2, TypesAre, StreamIs DEF Place
<1>6. Kept(syms, p, stream.area)
  <2>1. Here = stream.area
    BY <1>4, <1>5 DEF Here
  <2>2. QED
    BY <1>1, <1>4, <2>1, BytesKept
<1>7. PICK c, l, a, t : c = Coded(syms) /\ l = Len(syms) /\ a = stream.area /\ t = Len(p.tempBuf)
  OBVIOUS
<1>8. /\ c \in [0 .. l -> Nat] /\ c[0] = InitSize /\ c[l] <= a
      /\ \A n \in 1 .. l : c[n] = c[n - 1] + syms[n].cost + syms[n].late
  <2>1. c[l] <= a
    BY <1>7 DEF Whole
  <2>2. QED
    BY <1>3, <1>7, <2>1, CodedDefined
<1>9. l \in Nat /\ a \in Nat /\ t \in Nat
  BY <1>2, <1>3, <1>7, StreamIs
<1>10. ~p.needFlush
  <2>1. SUFFICES ASSUME p.needFlush PROVE FALSE
    OBVIOUS
  <2>2. t < InitSize /\ t = a
    BY <1>6, <1>7, <2>1 DEF Kept
  <2>3. c[0] <= c[l]
    <3>1. 0 \in 0 .. Len(syms) /\ Len(syms) \in 0 .. Len(syms)
      BY <1>3
    <3>2. QED
      BY <1>3, <1>7, <3>1, Grows
  <2>4. c[l] \in Nat
    BY <1>8, <1>9
  <2>5. QED
    BY <1>3, <1>8, <1>9, <2>2, <2>3, <2>4
<1>11. ASSUME p.next \in 1 .. l PROVE syms[p.next].cost + syms[p.next].late <= t
  <2>1. PICK n : n = p.next
    OBVIOUS
  <2>2. n \in 1 .. l /\ n - 1 \in 0 .. l /\ n \in 0 .. l /\ l \in n .. l /\ l \in 0 .. l
    BY <1>9, <1>11, <2>1
  <2>3. c[n] <= c[l]
    BY <1>3, <1>7, <2>2, Grows
  <2>4. PICK x, y : x = syms[n].cost /\ y = syms[n].late
    OBVIOUS
  <2>5. x \in Nat /\ y \in {0, 1}
    BY <1>3, <1>7, <2>2, <2>4, SymbolIs
  <2>6. c[n] = c[n - 1] + x + y
    BY <1>8, <2>2, <2>4
  <2>7. p.coded = c[n - 1] /\ p.coded + t = a
    BY <1>6, <1>7, <1>10, <2>1 DEF Kept
  <2>8. c[n] \in Nat /\ c[n - 1] \in Nat /\ c[l] \in Nat
    BY <1>8, <2>2
  <2>9. PICK v, w, z : v = c[n - 1] /\ w = c[n] /\ z = c[l]
    OBVIOUS
  <2>10. v \in Nat /\ w \in Nat /\ z \in Nat /\ w <= z /\ z <= a /\ w = v + x + y /\ v + t = a
    BY <1>8, <2>3, <2>6, <2>7, <2>8, <2>9
  <2>11. x + y <= t
    BY ONLY <1>9, <2>5, <2>10
  <2>12. QED
    BY <2>1, <2>4, <2>11
<1>12. QED
  BY <1>7, <1>10, <1>11

\* Steps of LzmaDec_sm_DecodeToDic; what is left to show is that it does not stop too early.
LEMMA InsideKeeps ==
  ASSUME ReadInv, Whole, pc \in {"dic", "real", "real2"},
         UNCHANGED <<stream, inbuf_size, f, asked, got, result>>,
         pc' \in {"dic", "real", "real2", "fromDic"}, call'.res = "ok",
         call'.dicStart = call.dicStart, call'.dicLimit = call.dicLimit,
         pc' = "real" => p'.dicPos < call'.limit2 \/ syms'[p'.next].kind = "mark",
         pc' = "fromDic" /\ f.unpackSize > 0 /\ f.de_len > 0 => Moved'
  PROVE  ReadOK'
<1>1. ReadOK
  BY DEF ReadInv, WholeOK
<1>2. InCall /\ InCall' /\ pc # "idle" /\ pc' # "idle"
  BY DEF InCall
<1>3. Sound'
  BY <1>1 DEF ReadOK, Sound
<1>4. Whole'
  BY DEF Whole, syms
<1>5. f.unpackSize > 0 /\ f.de_len > 0 => call.dicLimit > call.dicStart
  BY <1>1 DEF ReadOK
<1>6. f'.unpackSize = f.unpackSize /\ f'.de_len = f.de_len
  OBVIOUS
<1>7. (f'.unpackSize > 0 /\ f'.de_len > 0) =>
         /\ pc' = "buf" => call'.outSize > 0
         /\ pc' \in {"dic", "real", "real2"} => call'.dicLimit > call'.dicStart
         /\ pc' = "fromDic" => Moved'
         /\ pc' = "made" => call'.src # f'.in_pos \/ call'.made # <<>>
  BY <1>5, <1>6
<1>8. LessOf(asked', stream'.unpack) - Len(got') = LessOf(f'.de_len, f'.unpackSize)
  BY <1>1, <1>2 DEF ReadOK
<1>9. f'.in_pos < f'.in_size \/ f'.src_curr = stream'.area
  BY <1>1, <1>2 DEF ReadOK
<1>10. QED
  BY <1>2, <1>3, <1>7, <1>8, <1>9 DEF ReadOK

LEMMA StartsRead ==
  ASSUME Init, DecoderInv PROVE WholeOK
<1>1. /\ stream \in Streams /\ call = NoCall /\ pc = "idle" /\ asked = 0 /\ got = <<>> /\ result = "ok"
  BY DEF Init
<1>2. stream.unpack \in Nat
  BY <1>1, StreamIs
<1>3. Len(got) = LessOf(asked, stream.unpack)
  <2>1. Len(got) = 0 /\ LessOf(0, stream.unpack) = 0
    BY <1>1, <1>2 DEF LessOf
  <2>2. QED
    BY <1>1, <2>1
<1>4. call.res = "ok"
  BY <1>1 DEF NoCall
<1>5. QED
  BY <1>1, <1>3, <1>4 DEF WholeOK, ReadOK, Sound, InCall

LEMMA AskReads ==
  ASSUME ReadInv, Whole, Ask PROVE ReadOK'
<1>1. ReadOK /\ DecoderTypes /\ RoomOK
  BY DEF ReadInv, WholeOK, DecoderInv
<1>2. pc = "idle" /\ pc' = "fill" /\ UNCHANGED <<stream, inbuf_size, p, call, got, result, astray>>
  BY DEF Ask
<1>3. PICK n \in Asks : asked' = asked + n /\ f' = [f EXCEPT !.de_len = n]
  BY DEF Ask
<1>4. n \in Nat
  BY DecoderAssumption
<1>5. f'.de_len = n /\ f'.unpackSize = f.unpackSize
  BY <1>1, <1>3, TypesAre
<1>6. PICK A, U, G, F : A = asked /\ U = stream.unpack /\ G = Len(got) /\ F = f.unpackSize
  OBVIOUS
<1>7. A \in Nat /\ U \in Nat /\ G \in Nat /\ F \in Nat /\ F + G = U /\ G = LessOf(A, U)
  <2>1. stream \in Streams
    BY <1>1 DEF DecoderTypes
  <2>2. A \in Nat /\ U \in Nat /\ G \in Nat /\ F \in Nat
    BY <1>1, <1>6, <2>1, TypesAre, StreamIs
  <2>3. F + G = U
    BY <1>1, <1>6 DEF RoomOK
  <2>4. G = LessOf(A, U)
    BY <1>1, <1>2, <1>6 DEF ReadOK
  <2>5. QED
    BY <2>2, <2>3, <2>4
<1>8. LessOf(A + n, U) - G = LessOf(n, F)
  BY <1>4, <1>7 DEF LessOf
<1>9. LessOf(asked', stream'.unpack) - Len(got') = LessOf(f'.de_len, f'.unpackSize)
  BY <1>2, <1>3, <1>5, <1>6, <1>8
<1>10. ~InCall' /\ Sound'
  BY <1>1, <1>2 DEF InCall, ReadOK, Sound
<1>11. QED
  BY <1>2, <1>9, <1>10 DEF ReadOK

LEMMA FillReads ==
  ASSUME ReadInv, Whole, Fill PROVE ReadOK'
<1>1. ReadOK /\ DecoderTypes /\ RoomOK
  BY DEF ReadInv, WholeOK, DecoderInv
<1>2. pc = "fill" /\ pc' = "buf" /\ UNCHANGED <<stream, inbuf_size, p, asked, got, result, astray>>
  BY DEF Fill
<1>3. /\ f.src_curr \in Nat /\ f.in_size \in Nat /\ f.in_pos \in Nat /\ f.unpackSize \in Nat
      /\ f.de_len \in Nat /\ inbuf_size \in Nat \ {0}
  BY <1>1, TypesAre
<1>4. stream \in Streams /\ stream.area \in Nat
  <2>1. stream \in Streams
    BY <1>1 DEF DecoderTypes
  <2>2. QED
    BY <2>1, StreamIs
<1>5. f.in_pos <= f.in_size /\ f.in_size <= f.src_curr /\ f.src_curr <= stream.area
  BY <1>1 DEF RoomOK
<1>6. PICK r : r = Refill
  OBVIOUS
<1>7. r \in Nat /\ (r = 0 => f.src_curr + r = stream.area)
  BY <1>3, <1>4, <1>5, <1>6 DEF Refill, LessOf
<1>8. f' = IF f.in_pos = f.in_size THEN [f EXCEPT !.in_size = r, !.src_curr = @ + r, !.in_pos = 0] ELSE f
  BY <1>6 DEF Fill
<1>9. /\ f'.unpackSize = f.unpackSize /\ f'.de_len = f.de_len
      /\ f'.in_pos < f'.in_size \/ f'.src_curr = stream.area
  <2>1. f = [src_curr |-> f.src_curr, in_size |-> f.in_size, in_pos |-> f.in_pos,
             unpackSize |-> f.unpackSize, de_len |-> f.de_len]
    BY <1>1, TypesAre
  <2>2. CASE f.in_pos = f.in_size
    <3>1. f' = [src_curr |-> f.src_curr + r, in_size |-> r, in_pos |-> 0,
                unpackSize |-> f.unpackSize, de_len |-> f.de_len]
      BY <1>8, <2>1, <2>2
    <3>2. 0 < r \/ f.src_curr + r = stream.area
      BY <1>7
    <3>3. QED
      BY <3>1, <3>2
  <2>3. CASE f.in_pos # f.in_size
    BY <1>3, <1>5, <1>8, <2>3
  <2>4. QED
    BY <2>2, <2>3
<1>10. PICK out, o : out = LessOf(OutBuf, f.de_len) /\ o = LessOf(out, f.unpackSize)
  OBVIOUS
<1>11. f.unpackSize > 0 /\ f.de_len > 0 => o > 0
  <2>1. OutBuf \in Nat \ {0}
    BY Sizes
  <2>2. QED
    BY <1>3, <1>10, <2>1 DEF LessOf
<1>12. call'.outSize = o /\ call'.res = "ok"
  BY <1>10 DEF Fill, NoCall
<1>13. Sound'
  BY <1>1, <1>2, <1>12 DEF ReadOK, Sound
<1>14. LessOf(asked', stream'.unpack) - Len(got') = LessOf(f'.de_len, f'.unpackSize)
  BY <1>1, <1>2, <1>9 DEF ReadOK
<1>15. QED
  BY <1>2, <1>9, <1>11, <1>12, <1>13, <1>14 DEF ReadOK

LEMMA ToBufReads ==
  ASSUME ReadInv, Whole, ToBuf PROVE ReadOK'
<1>1. ReadOK /\ DecoderTypes /\ RoomOK
  BY DEF ReadInv, WholeOK, DecoderInv
<1>2. pc = "buf" /\ pc' = "dic" /\ UNCHANGED <<stream, inbuf_size, f, asked, got, result, astray>>
  BY DEF ToBuf
<1>3. PICK start, far, limit :
        /\ start = IF p.dicPos = DicBufSize THEN 0 ELSE p.dicPos
        /\ far = (call.outSize > DicBufSize - start)
        /\ limit = IF far THEN DicBufSize ELSE start + call.outSize
  OBVIOUS
<1>4. call' = [call EXCEPT !.dicStart = start, !.dicLimit = limit,
                           !.curFinish = IF far THEN "any" ELSE call.finish]
  BY <1>3 DEF ToBuf
<1>5. call'.dicStart = start /\ call'.dicLimit = limit /\ call'.res = call.res
  BY <1>1, <1>4 DEF DecoderTypes
<1>6. f.unpackSize > 0 /\ f.de_len > 0 => limit > start
  <2>1. SUFFICES ASSUME f.unpackSize > 0, f.de_len > 0 PROVE limit > start
    OBVIOUS
  <2>2. call.outSize > 0 /\ call.outSize \in Nat
    BY <1>1, <1>2, <2>1, TypesAre DEF ReadOK
  <2>3. p.dicPos \in 0 .. DicBufSize /\ DicBufSize \in Nat \ {0}
    <3>1. p.dicPos \in 0 .. DicBufSize
      BY <1>1, DecoderIs
    <3>2. DicBufSize \in Nat \ {0}
      BY Sizes
    <3>3. QED
      BY <3>1, <3>2
  <2>4. start \in 0 .. DicBufSize - 1
    BY <1>3, <2>3
  <2>5. QED
    BY <1>3, <2>2, <2>3, <2>4
<1>7. Sound' /\ InCall /\ InCall'
  BY <1>1, <1>2, <1>5 DEF ReadOK, Sound, InCall
<1>8. f.in_pos < f.in_size \/ f.src_curr = stream.area
  BY <1>1, <1>7 DEF ReadOK
<1>9. LessOf(asked', stream'.unpack) - Len(got') = LessOf(f'.de_len, f'.unpackSize)
  BY <1>1, <1>2 DEF ReadOK
<1>10. QED
  BY <1>2, <1>5, <1>6, <1>7, <1>8, <1>9 DEF ReadOK

LEMMA EmptyIs ==
  ASSUME NEW t \in Seq(Nat), Len(t) = 0 PROVE t = <<>>
OBVIOUS

LEMMA FromDicReads ==
  ASSUME ReadInv, Whole, FromDic, DecoderInv' PROVE ReadOK'
<1>1. ReadOK /\ DecoderTypes /\ RoomOK
  BY DEF ReadInv, WholeOK, DecoderInv
<1>2. pc = "fromDic" /\ UNCHANGED <<stream, inbuf_size, f, p, asked, got, result, astray>>
  BY DEF FromDic
<1>3. InDic /\ InCall /\ Sound
  BY <1>1, <1>2 DEF InDic, InCall, ReadOK
<1>4. PICK n, bytes, made : /\ n = p.dicPos - call.dicStart
                            /\ bytes = [i \in 1 .. n |-> p.dic[call.dicStart + i - 1]]
                            /\ made = call.made \o bytes
  OBVIOUS
<1>5. /\ call' = [call EXCEPT !.made = made, !.outSize = @ - n]
      /\ pc' = IF n = 0 \/ call.outSize = n THEN "made" ELSE "buf"
  BY <1>3, <1>4 DEF FromDic, Sound
<1>6. /\ call'.made = made /\ call'.outSize = call.outSize - n /\ call'.src = call.src /\ call'.res = call.res
  BY <1>1, <1>5 DEF DecoderTypes
<1>7. n \in Nat /\ n <= call.outSize /\ call.outSize \in Nat
  <2>1. p.dicPos \in Nat /\ call.dicStart \in 0 .. DicBufSize /\ DicBufSize \in Nat /\ call.dicLimit \in 0 .. DicBufSize
        /\ call.outSize \in Nat
    BY <1>1, DecoderIs, TypesAre, Sizes
  <2>2. call.dicStart <= p.dicPos /\ p.dicPos <= call.dicLimit /\ call.dicLimit - call.dicStart <= call.outSize
    BY <1>1, <1>3 DEF RoomOK
  <2>3. PICK D, S, L, O : D = p.dicPos /\ S = call.dicStart /\ L = call.dicLimit /\ O = call.outSize
    OBVIOUS
  <2>4. D \in Nat /\ S \in Nat /\ L \in Nat /\ O \in Nat /\ S <= D /\ D <= L /\ L - S <= O /\ n = D - S
    BY <1>4, <2>1, <2>2, <2>3
  <2>5. n \in Nat /\ n <= O
    BY ONLY <2>4
  <2>6. QED
    BY <2>3, <2>4, <2>5
<1>8. pc' = "buf" => call'.outSize > 0
  BY <1>5, <1>6, <1>7
<1>9. made = <<>> => call.made = <<>> /\ n = 0
  <2>1. SUFFICES ASSUME made = <<>> PROVE call.made = <<>> /\ n = 0
    OBVIOUS
  <2>2. call.made \in Seq(Nat) /\ Len(call.made) \in Nat
    BY <1>1, TypesAre
  <2>3. p.processedPos = Len(got) + Len(call.made) + n
    BY <1>3, <1>4 DEF ReadInv, DecoderInv, CountOK
  <2>4. p.processedPos = Len(got) + Len(call'.made)
    BY <1>2, <1>5 DEF DecoderInv, CountOK
  <2>5. Len(call'.made) = 0 /\ Len(got) \in Nat
    BY <1>1, <1>6, <2>1, TypesAre
  <2>6. Len(call.made) = 0 /\ n = 0
    BY <1>7, <2>2, <2>3, <2>4, <2>5
  <2>7. QED
    BY <2>2, <2>6, EmptyIs
<1>10. f.unpackSize > 0 /\ f.de_len > 0 => call'.src # f.in_pos \/ call'.made # <<>>
  <2>1. SUFFICES ASSUME f.unpackSize > 0, f.de_len > 0, call'.src = f.in_pos, call'.made = <<>> PROVE FALSE
    OBVIOUS
  <2>2. Moved
    BY <1>1, <1>2, <2>1 DEF ReadOK
  <2>3. call.src = f.in_pos /\ call.made = <<>> /\ n = 0
    BY <1>6, <1>9, <2>1
  <2>4. p.dicPos # call.dicStart
    BY <2>2, <2>3 DEF Moved
  <2>5. p.dicPos \in Nat /\ call.dicStart \in Int
    BY <1>1, DecoderIs, TypesAre
  <2>6. QED
    BY <1>4, <2>3, <2>4, <2>5
<1>11. Sound' /\ InCall' /\ pc' \in {"made", "buf"}
  BY <1>3, <1>2, <1>5, <1>6 DEF Sound, InCall
<1>12. f.in_pos < f.in_size \/ f.src_curr = stream.area
  BY <1>1, <1>3 DEF ReadOK
<1>13. LessOf(asked', stream'.unpack) - Len(got') = LessOf(f'.de_len, f'.unpackSize)
  BY <1>1, <1>2 DEF ReadOK
<1>14. QED
  BY <1>2, <1>8, <1>10, <1>11, <1>12, <1>13 DEF ReadOK

LEMMA MadeReads ==
  ASSUME ReadInv, Whole, Made PROVE ReadOK'
<1>1. ReadOK /\ DecoderTypes /\ RoomOK
  BY DEF ReadInv, WholeOK, DecoderInv
<1>2. pc = "made" /\ UNCHANGED <<stream, inbuf_size, p, call, asked, astray>>
  BY DEF Made
<1>3. /\ f = [src_curr |-> f.src_curr, in_size |-> f.in_size, in_pos |-> f.in_pos,
              unpackSize |-> f.unpackSize, de_len |-> f.de_len]
      /\ f.unpackSize \in Nat /\ f.de_len \in Nat /\ Len(call.made) \in Nat /\ Len(got) \in Nat
      /\ call.made \in Seq(Nat) /\ got \in Seq(Nat) /\ call.outSize \in Nat /\ asked \in Nat
  BY <1>1, TypesAre
<1>4. PICK n : n = Len(call.made)
  OBVIOUS
<1>5. f' = [src_curr |-> f.src_curr, in_size |-> f.in_size, in_pos |-> call.src,
            unpackSize |-> f.unpackSize - n, de_len |-> f.de_len - n]
  <2>1. f' = [f EXCEPT !.de_len = @ - n, !.unpackSize = @ - n, !.in_pos = call.src]
    BY <1>4 DEF Made
  <2>2. QED
    BY <1>3, <2>1
<1>6. InCall
  BY <1>2 DEF InCall
<1>7. n \in Nat /\ n <= f.unpackSize /\ n <= f.de_len
  BY <1>1, <1>3, <1>4, <1>6 DEF RoomOK
<1>8. Len(got') = Len(got) + n
  <2>1. got' = got \o call.made
    BY DEF Made
  <2>2. QED
    BY <1>3, <1>4, <2>1, Joined
<1>9. f'.unpackSize = f.unpackSize - n /\ f'.de_len = f.de_len - n
  BY <1>5
<1>10. PICK A, U, G, F, L : A = asked /\ U = stream.unpack /\ G = Len(got) /\ F = f.unpackSize /\ L = f.de_len
  OBVIOUS
<1>11. A \in Nat /\ U \in Nat /\ G \in Nat /\ F \in Nat /\ L \in Nat /\ LessOf(A, U) - G = LessOf(L, F)
       /\ n <= F /\ n <= L
  <2>1. stream \in Streams
    BY <1>1 DEF DecoderTypes
  <2>2. LessOf(A, U) - G = LessOf(L, F)
    BY <1>1, <1>2, <1>10 DEF ReadOK
  <2>3. QED
    BY <1>3, <1>7, <1>10, <2>1, <2>2, StreamIs
<1>12. LessOf(A, U) - (G + n) = LessOf(L - n, F - n) /\ (F - n = 0 \/ L - n = 0 => G + n = LessOf(A, U))
  BY <1>7, <1>11 DEF LessOf
<1>13. f'.unpackSize > 0 /\ f'.de_len > 0 => ~Stuck(n)
  <2>1. SUFFICES ASSUME f'.unpackSize > 0, f'.de_len > 0, Stuck(n) PROVE FALSE
    OBVIOUS
  <2>2. n = 0 /\ call.src = f.in_pos
    BY <2>1 DEF Stuck
  <2>3. f.unpackSize > 0 /\ f.de_len > 0
    BY <1>3, <1>9, <2>1, <2>2
  <2>4. call.made = <<>>
    BY <1>3, <1>4, <2>2, EmptyIs
  <2>5. QED
    BY <1>1, <1>2, <2>2, <2>3, <2>4 DEF ReadOK
<1>14. f'.unpackSize \in Nat /\ f'.de_len \in Nat
  BY <1>3, <1>7, <1>9
<1>15. /\ pc' \in {"idle", "fill"} /\ result' = result
       /\ pc' = "idle" => f'.unpackSize = 0 \/ f'.de_len = 0
  <2>1. PICK rest : rest = f'
    OBVIOUS
  <2>2. IF rest.unpackSize = 0 \/ rest.de_len = 0
          THEN pc' = "idle" /\ UNCHANGED result
          ELSE IF Stuck(n)
          THEN pc' = "idle" /\ result' = IF call.status = "mark" THEN "ok" ELSE "error"
          ELSE pc' = "fill" /\ UNCHANGED result
    BY <1>4, <2>1 DEF Made
  <2>3. CASE rest.unpackSize = 0 \/ rest.de_len = 0
    BY <2>1, <2>2, <2>3
  <2>4. CASE ~(rest.unpackSize = 0 \/ rest.de_len = 0)
    <3>1. ~Stuck(n)
      BY <1>13, <1>14, <2>1, <2>4
    <3>2. QED
      BY <2>1, <2>2, <2>4, <3>1
  <2>5. QED
    BY <2>3, <2>4
<1>16. Sound' /\ ~InCall'
  BY <1>1, <1>2, <1>15 DEF ReadOK, Sound, InCall
<1>17. LessOf(asked', stream'.unpack) - Len(got') = LessOf(f'.de_len, f'.unpackSize)
  BY <1>2, <1>8, <1>9, <1>10, <1>12
<1>18. pc' = "idle" => Len(got') = LessOf(asked', stream'.unpack)
  BY <1>2, <1>8, <1>9, <1>10, <1>12, <1>15
<1>19. QED
  BY <1>15, <1>16, <1>17, <1>18 DEF ReadOK

\* A return from LzmaDec_sm_DecodeToDic without an error.
LEMMA ReturnReads ==
  ASSUME ReadInv, Whole, pc \in {"dic", "real", "real2"}, NEW status, NEW src, Returns("ok", status, src),
         UNCHANGED <<stream, inbuf_size, f, asked, got, result>>,
         p'.dicPos = p.dicPos,
         f.unpackSize > 0 /\ f.de_len > 0 => src # f.in_pos \/ call.made # <<>> \/ p.dicPos # call.dicStart
  PROVE  ReadOK'
<1>1. DecoderTypes
  BY DEF ReadInv, DecoderInv
<1>2. pc' = "fromDic" /\ call' = [call EXCEPT !.res = "ok", !.status = status, !.src = src]
  BY DEF Returns
<1>3. /\ call'.src = src /\ call'.made = call.made /\ call'.dicStart = call.dicStart
      /\ call'.dicLimit = call.dicLimit /\ call'.res = "ok"
  BY <1>1, <1>2 DEF DecoderTypes
<1>4. f.unpackSize > 0 /\ f.de_len > 0 => Moved'
  BY <1>3 DEF Moved
<1>5. QED
  BY <1>2, <1>3, <1>4, InsideKeeps

LEMMA ErrorReads ==
  ASSUME ReadInv, Whole, Error PROVE ReadOK'
BY DEF ReadInv, WholeOK, ReadOK, Error

LEMMA MarkedReads ==
  ASSUME ReadInv, Whole, Marked PROVE ReadOK'
<1>1. DecoderInv
  BY DEF ReadInv
<1>2. pc = "dic" /\ p.remainLen = SpecStart /\ UNCHANGED <<stream, inbuf_size, f, p, asked, got, result, astray>>
  BY DEF Marked
<1>3. AllDone /\ p.processedPos = stream.unpack
  BY <1>1, <1>2, MarkIsEnd
<1>4. Returns("ok", "mark", call.src)
  BY <1>3 DEF Marked, CodeIsZero
<1>5. InDic
  BY <1>2 DEF InDic
<1>6. f.unpackSize > 0 => call.made # <<>> \/ p.dicPos # call.dicStart
  BY <1>1, <1>3, <1>5, MadeSome
<1>7. QED
  BY <1>2, <1>4, <1>6, ReturnReads

\* At the end of the dictionary or of what is asked for, something has been made.
LEMMA FullMade ==
  ASSUME ReadInv, Whole, pc = "dic", Full, f.unpackSize > 0, f.de_len > 0
  PROVE  p.dicPos # call.dicStart
<1>1. call.dicLimit > call.dicStart
  BY DEF ReadInv, WholeOK, ReadOK
<1>2. DecoderTypes
  BY DEF ReadInv, DecoderInv
<1>3. p.dicPos \in Nat /\ call.dicLimit \in Int /\ call.dicStart \in Int /\ p.dicPos >= call.dicLimit
  BY <1>2, DecoderIs, TypesAre DEF Full
<1>4. QED
  BY <1>1, <1>3

LEMMA NoRoomReads ==
  ASSUME ReadInv, Whole, NoRoom PROVE ReadOK'
<1>1. DecoderInv
  BY DEF ReadInv
<1>2. pc = "dic" /\ p.remainLen # SpecStart /\ Full /\ UNCHANGED <<stream, inbuf_size, f, p, asked, got, result, astray>>
  BY DEF NoRoom, InLoop
<1>3. f.unpackSize > 0 /\ f.de_len > 0 => p.dicPos # call.dicStart
  BY <1>2, FullMade
<1>4. ASSUME call.curFinish = "end", p.remainLen # 0 PROVE FALSE
  <2>1. InDic /\ p.dicPos >= call.dicLimit
    BY <1>2 DEF InDic, Full
  <2>2. p.processedPos = stream.unpack
    BY <1>1, <1>4, <2>1, FullIs
  <2>3. Rest(p) = 0
    BY <1>1, <2>2, Complete
  <2>4. QED
    BY <1>2, <1>4, <2>3 DEF Rest
<1>5. PICK status : Returns("ok", status, call.src)
  BY <1>4 DEF NoRoom
<1>6. QED
  BY <1>2, <1>3, <1>5, ReturnReads

\* There is input, or it is the end of it.
LEMMA InputLeft ==
  ASSUME ReadInv, Whole, pc = "dic"
  PROVE  call.src # f.in_pos \/ call.src < f.in_size \/ f.src_curr = stream.area
<1>1. InCall
  BY DEF InCall
<1>2. f.in_pos < f.in_size \/ f.src_curr = stream.area
  BY <1>1 DEF ReadInv, WholeOK, ReadOK
<1>3. QED
  BY <1>2

LEMMA FlushReads ==
  ASSUME ReadInv, Whole, Flush PROVE ReadOK'
<1>1. DecoderInv /\ DecoderTypes /\ RoomOK /\ BytesOK /\ CountOK
  BY DEF ReadInv, DecoderInv
<1>2. /\ pc = "dic" /\ p.needFlush /\ UNCHANGED <<stream, inbuf_size, f, asked, got, result>>
  BY DEF Flush, InLoop
<1>3. InCall /\ Sound
  BY <1>1, <1>2 DEF InCall, CountOK
<1>4. PICK t, src, size, z : t = Len(p.tempBuf) /\ src = call.src /\ size = f.in_size /\ z = f.in_pos
  OBVIOUS
<1>5. t \in Nat /\ src \in Nat /\ size \in Nat /\ z \in Nat /\ InitSize \in Nat /\ z <= src /\ src <= size
  <2>1. z <= src /\ src <= size
    BY <1>1, <1>3, <1>4 DEF RoomOK
  <2>2. QED
    BY <1>1, <1>4, <2>1, TypesAre, DecoderIs, Sizes
<1>6. t < InitSize
  BY <1>1, <1>2, <1>3, <1>4 DEF BytesOK
<1>7. PICK n : n = LessOf(Left, InitSize - t)
  OBVIOUS
<1>8. n \in Nat /\ (src < size => n > 0)
  BY <1>4, <1>5, <1>6, <1>7 DEF Left, LessOf
<1>9. src + n # z
  <2>1. SUFFICES ASSUME src + n = z PROVE FALSE
    OBVIOUS
  <2>2. src = z /\ n = 0
    BY <1>5, <1>8, <2>1
  <2>3. src = size
    BY <1>5, <1>8, <2>2
  <2>4. ~(call.src < f.in_size)
    BY <1>4, <1>5, <2>3
  <2>5. f.src_curr = stream.area
    BY <1>2, <1>4, <2>2, <2>4, InputLeft
  <2>6. QED
    BY <1>1, <1>2, <1>4, <2>3, <2>5, EndOfInput
<1>10. PICK have : have = p.tempBuf \o InBuf(call.src, n)
  OBVIOUS
<1>11. IF Len(have) < InitSize
         THEN /\ p' = [p EXCEPT !.tempBuf = have] /\ Returns("ok", "input", src + n)
         ELSE /\ p' = [p EXCEPT !.tempBuf = <<>>, !.needFlush = FALSE, !.coded = InitSize]
              /\ call' = [call EXCEPT !.src = @ + n] /\ UNCHANGED pc
  BY <1>4, <1>7, <1>10 DEF Flush
<1>12. p \in Decoders(syms)
  BY <1>1 DEF DecoderTypes
<1>13. CASE Len(have) < InitSize
  <2>1. p'.dicPos = p.dicPos
    BY <1>11, <1>12, <1>13 DEF Decoders
  <2>2. QED
    BY <1>2, <1>4, <1>9, <1>11, <1>13, <2>1, ReturnReads
<1>14. CASE ~(Len(have) < InitSize)
  <2>1. pc' = "dic" /\ call' = [call EXCEPT !.src = @ + n]
    BY <1>2, <1>11, <1>14
  <2>2. call'.res = "ok" /\ call'.dicStart = call.dicStart /\ call'.dicLimit = call.dicLimit
    BY <1>1, <1>3, <2>1 DEF DecoderTypes, Sound
  <2>3. QED
    BY <1>2, <2>1, <2>2, InsideKeeps
<1>15. QED
  BY <1>13, <1>14

\* checkEndMarkNow: what is left can only be the end mark.
LEMMA LastIsMark ==
  ASSUME DecoderInv, Whole, pc = "dic", EndMarkNow PROVE p.next \in 1 .. Len(syms) /\ syms[p.next].kind = "mark"
<1>1. DecoderTypes /\ Full /\ ~AllDone /\ call.curFinish = "end"
  BY DEF DecoderInv, EndMarkNow, CodeIsZero
<1>2. stream \in Streams
  BY <1>1 DEF DecoderTypes
<1>3. p.next \in 1 .. Len(syms) + 1 /\ Len(syms) \in Nat
  BY <1>1, <1>2, DecoderIs, StreamIs
<1>4. p.next \in 1 .. Len(syms)
  BY <1>1, <1>3 DEF AllDone
<1>5. InDic /\ p.dicPos >= call.dicLimit
  BY <1>1 DEF InDic, Full
<1>6. p.processedPos = stream.unpack
  BY <1>1, <1>5, FullIs
<1>7. QED
  BY <1>4, <1>6, Complete

LEMMA DecodeReads ==
  ASSUME ReadInv, Whole, pc = "dic", Full => EndMarkNow,
         NEW fed, NEW bufLimit, NEW temp, NEW lookAhead, Decode(fed, bufLimit, temp, lookAhead),
         UNCHANGED <<stream, inbuf_size, f, asked, got, result>>,
         p'.dicPos = p.dicPos, p'.next = p.next
  PROVE  ReadOK'
<1>1. DecoderInv /\ DecoderTypes /\ CheckOK /\ CountOK /\ RoomOK
  BY DEF ReadInv, DecoderInv
<1>2. PICK limit2 : limit2 = Limit2(p)
  OBVIOUS
<1>3. /\ call' = [call EXCEPT !.fed = fed, !.used = 0, !.bufLimit = bufLimit, !.owed = 0,
                              !.limit2 = limit2, !.temp = temp, !.lookAhead = lookAhead]
      /\ pc' = "real"
  BY <1>2 DEF Decode
<1>4. /\ call'.res = call.res /\ call'.dicStart = call.dicStart /\ call'.dicLimit = call.dicLimit
      /\ call'.limit2 = limit2
  BY <1>1, <1>3 DEF DecoderTypes
<1>5. call.res = "ok"
  BY <1>1 DEF CountOK, Sound
<1>6. CASE Full
  <2>1. syms[p.next].kind = "mark"
    BY <1>1, <1>6, LastIsMark
  <2>2. syms'[p'.next].kind = "mark"
    BY <2>1 DEF syms
  <2>3. QED
    BY <1>3, <1>4, <1>5, <2>2, InsideKeeps
<1>7. CASE ~Full
  <2>1. p \in Decoders(syms) /\ p.dicPos \in Nat /\ call.dicLimit \in 0 .. DicBufSize /\ DicBufSize \in Nat
    BY <1>1, DecoderIs, TypesAre, Sizes
  <2>2. p.dicPos < call.dicLimit /\ p.dicPos <= call.dicLimit /\ call.dicLimit \in Nat
    BY <1>7, <2>1 DEF Full
  <2>3. Checked(p)
    BY <1>1 DEF CheckOK
  <2>4. p.dicPos < limit2
    BY <1>2, <2>1, <2>2, <2>3, LimitIs
  <2>5. QED
    BY <1>3, <1>4, <1>5, <2>4, InsideKeeps
<1>8. QED
  BY <1>6, <1>7

LEMMA FromSrcReads ==
  ASSUME ReadInv, Whole, FromSrc PROVE ReadOK'
<1>1. DecoderInv /\ DecoderTypes /\ RoomOK
  BY DEF ReadInv, DecoderInv
<1>2. /\ InLoop /\ ~p.needFlush /\ p.tempBuf = <<>> /\ (Full => EndMarkNow) /\ pc = "dic"
      /\ UNCHANGED <<stream, inbuf_size, f, asked, got, result>>
  BY DEF FromSrc, InLoop
<1>3. /\ p.next \in 1 .. Len(syms) /\ syms[p.next].cost \in Nat /\ syms[p.next].late \in {0, 1}
      /\ f.in_pos <= call.src /\ call.src <= f.in_size
  BY <1>1, <1>2, GoesOn
<1>4. PICK fed : fed = InBuf(call.src, Left)
  OBVIOUS
<1>5. call.src \in Nat /\ f.in_size \in Nat /\ f.in_pos \in Nat /\ p \in Decoders(syms)
  BY <1>1, TypesAre, DecoderIs
<1>6. Left \in Nat /\ call.src + Left = f.in_size
  BY <1>3, <1>5 DEF Left
<1>7. fed \in Seq(Nat) /\ Len(fed) = Left
  <2>1. call.src + Left <= f.in_size
    BY <1>5, <1>6
  <2>2. QED
    BY <1>1, <1>4, <1>5, <1>6, <2>1, InBufIs
<1>8. CASE Enough(fed) /\ ~Full
  <2>1. Decode(fed, Len(fed) - RequiredMax, FALSE, 0) /\ UNCHANGED p
    BY <1>4, <1>8 DEF FromSrc
  <2>2. QED
    BY <1>2, <2>1, DecodeReads
<1>9. CASE ~(Enough(fed) /\ ~Full)
  <2>1. CASE TryDummy(fed) = "error"
    <3>1. p' = [p EXCEPT !.tempBuf = fed] /\ Returns("ok", "input", f.in_size)
      BY <1>4, <1>9, <2>1 DEF FromSrc
    <3>2. p'.dicPos = p.dicPos
      BY <1>5, <3>1 DEF Decoders
    <3>3. f.in_size # f.in_pos
      <4>1. SUFFICES ASSUME f.in_size = f.in_pos PROVE FALSE
        OBVIOUS
      <4>2. call.src = f.in_size /\ call.src = f.in_pos /\ ~(call.src < f.in_size)
        BY <1>3, <1>5, <4>1
      <4>3. f.src_curr = stream.area
        BY <1>2, <4>2, InputLeft
      <4>4. syms[p.next].cost + syms[p.next].late <= Len(p.tempBuf)
        BY <1>1, <1>2, <1>3, <4>2, <4>3, EndOfInput
      <4>5. syms[p.next].cost + syms[p.next].late > Len(fed)
        BY <1>1, <1>2, <1>7, <2>1, DummyIs
      <4>6. Len(fed) = 0 /\ Len(p.tempBuf) = 0
        <5>1. Left = 0
          BY <1>5, <1>6, <4>2
        <5>2. QED
          BY <1>2, <1>7, <5>1
      <4>7. QED
        BY <1>3, <4>4, <4>5, <4>6
    <3>4. QED
      BY <1>2, <3>1, <3>2, <3>3, ReturnReads
  <2>2. CASE TryDummy(fed) # "error"
    <3>1. Full => TryDummy(fed) = "match"
      <4>1. SUFFICES ASSUME Full PROVE TryDummy(fed) = "match"
        OBVIOUS
      <4>2. syms[p.next].kind = "mark"
        BY <1>1, <1>2, <4>1, LastIsMark
      <4>3. QED
        BY <2>2, <4>2 DEF TryDummy
    <3>2. Decode(fed, 0, FALSE, 0) /\ UNCHANGED p
      BY <1>4, <1>9, <2>2, <3>1 DEF FromSrc
    <3>3. QED
      BY <1>2, <3>2, DecodeReads
  <2>3. QED
    BY <2>1, <2>2
<1>10. QED
  BY <1>8, <1>9

LEMMA FromTempReads ==
  ASSUME ReadInv, Whole, FromTemp PROVE ReadOK'
<1>1. DecoderInv /\ DecoderTypes /\ RoomOK
  BY DEF ReadInv, DecoderInv
<1>2. /\ InLoop /\ ~p.needFlush /\ (Full => EndMarkNow) /\ pc = "dic"
      /\ UNCHANGED <<stream, inbuf_size, f, asked, got, result>>
  BY DEF FromTemp, InLoop
<1>3. /\ p.next \in 1 .. Len(syms) /\ syms[p.next].cost \in Nat /\ syms[p.next].late \in {0, 1}
      /\ f.in_pos <= call.src /\ call.src <= f.in_size /\ Len(p.tempBuf) < RequiredMax
  BY <1>1, <1>2, GoesOn
<1>4. /\ call.src \in Nat /\ f.in_size \in Nat /\ f.in_pos \in Nat /\ p \in Decoders(syms)
      /\ p.tempBuf \in Seq(Nat) /\ Len(p.tempBuf) \in Nat /\ RequiredMax \in Nat
  BY <1>1, TypesAre, DecoderIs, Sizes
<1>5. PICK t, src, size, z : t = Len(p.tempBuf) /\ src = call.src /\ size = f.in_size /\ z = f.in_pos
  OBVIOUS
<1>6. /\ t \in Nat /\ src \in Nat /\ size \in Nat /\ z \in Nat /\ RequiredMax \in Nat
      /\ z <= src /\ src <= size /\ t < RequiredMax
  BY <1>3, <1>4, <1>5
<1>7. PICK n : n = LessOf(RequiredMax - t, Left)
  OBVIOUS
<1>8. n \in Nat /\ src + n <= size /\ (src < size => n > 0)
  BY <1>5, <1>6, <1>7 DEF Left, LessOf
<1>9. PICK in, fed : in = InBuf(src, n) /\ fed = p.tempBuf \o in
  OBVIOUS
<1>10. fed \in Seq(Nat) /\ Len(fed) = t + n
  <2>1. in \in Seq(Nat) /\ Len(in) = n
    BY <1>1, <1>5, <1>6, <1>8, <1>9, InBufIs
  <2>2. PICK m, b : m = p.tempBuf /\ b = in
    OBVIOUS
  <2>3. m \in Seq(Nat) /\ b \in Seq(Nat) /\ fed = m \o b /\ Len(m) = t /\ Len(b) = n
    BY <1>4, <1>5, <1>9, <2>1, <2>2
  <2>4. fed \in Seq(Nat) /\ Len(fed) = Len(m) + Len(b)
    BY ONLY <2>3, Joined
  <2>5. QED
    BY <2>3, <2>4
<1>11. /\ p' = [p EXCEPT !.tempBuf = fed]
       /\ IF Enough(fed) /\ ~Full THEN Decode(fed, 0, TRUE, n)
          ELSE CASE TryDummy(fed) = "error" -> Returns("ok", "input", src + n)
                 [] TryDummy(fed) # "error" /\ Full /\ TryDummy(fed) # "match" ->
                      Returns("data", "not finished", src)
                 [] OTHER -> Decode(fed, 0, TRUE, n)
  BY <1>5, <1>7, <1>9 DEF FromTemp
<1>12. p'.dicPos = p.dicPos /\ p'.next = p.next
  BY <1>4, <1>11 DEF Decoders
<1>13. CASE Enough(fed) /\ ~Full
  <2>1. Decode(fed, 0, TRUE, n)
    BY <1>11, <1>13
  <2>2. QED
    BY <1>2, <1>12, <2>1, DecodeReads
<1>14. CASE ~(Enough(fed) /\ ~Full)
  <2>1. CASE TryDummy(fed) = "error"
    <3>1. Returns("ok", "input", src + n)
      BY <1>11, <1>14, <2>1
    <3>2. src + n # f.in_pos
      <4>1. SUFFICES ASSUME src + n = z PROVE FALSE
        BY <1>5
      <4>2. src = z /\ n = 0 /\ src = size
        BY <1>6, <1>8, <4>1
      <4>3. call.src = f.in_size /\ call.src = f.in_pos /\ ~(call.src < f.in_size)
        BY <1>5, <1>6, <4>2
      <4>4. f.src_curr = stream.area
        BY <1>2, <4>3, InputLeft
      <4>5. syms[p.next].cost + syms[p.next].late <= t
        BY <1>1, <1>2, <1>3, <1>5, <4>3, <4>4, EndOfInput
      <4>6. syms[p.next].cost + syms[p.next].late > t + n
        BY <1>1, <1>2, <1>10, <2>1, DummyIs
      <4>7. t + n = t
        BY <1>6, <4>2
      <4>8. QED
        BY <1>3, <1>6, <4>5, <4>6, <4>7
    <3>3. QED
      BY <1>2, <1>12, <3>1, <3>2, ReturnReads
  <2>2. CASE TryDummy(fed) # "error"
    <3>1. Full => TryDummy(fed) = "match"
      <4>1. SUFFICES ASSUME Full PROVE TryDummy(fed) = "match"
        OBVIOUS
      <4>2. syms[p.next].kind = "mark"
        BY <1>1, <1>2, <4>1, LastIsMark
      <4>3. QED
        BY <2>2, <4>2 DEF TryDummy
    <3>2. Decode(fed, 0, TRUE, n)
      BY <1>11, <1>14, <2>2, <3>1
    <3>3. QED
      BY <1>2, <1>12, <3>2, DecodeReads
  <2>3. QED
    BY <2>1, <2>2
<1>15. QED
  BY <1>13, <1>14

\* A valid stream has no symbol that is refused.
LEMMA NotRefused ==
  ASSUME ReadInv, Whole, pc = "real", NEW s, s = syms[p.next] PROVE ~Refused(s)
<1>1. DecoderInv
  BY DEF ReadInv
<1>2. DecoderTypes /\ (p.dicPos < call.limit2 \/ s.kind = "mark")
  BY DEF ReadInv, WholeOK, ReadOK, DecoderInv
<1>3. stream \in Streams
  BY <1>2 DEF DecoderTypes
<1>4. /\ p.next \in 1 .. Len(syms) /\ s \in Format /\ syms \in Seq(Format) /\ Len(syms) \in Nat
      /\ p.dicPos \in Nat /\ call.limit2 \in Nat /\ p.processedPos \in Nat /\ p.next \in Nat
  BY <1>1, <1>2, <1>3, RealIs, DecoderIs, TypesAre, StreamIs
<1>5. SUFFICES ASSUME s.kind \in {"match", "rep", "short"}
               PROVE  p.dicPos # call.limit2 /\ ~Nothing /\ (s.kind = "match" => ~TooFar(s.dist))
  BY DEF Refused
<1>6. p.dicPos # call.limit2
  BY <1>2, <1>4, <1>5
<1>7. PICK b : b = Meaning(syms)[p.next - 1]
  OBVIOUS
<1>8. /\ b \in Facts /\ b.ok /\ Len(b.text) = p.processedPos
      /\ Meaning(syms)[p.next] = Told(s, p.next, b)
  BY <1>1, <1>7, KnowsNow
<1>9. Meaning(syms)[p.next].ok
  <2>1. Meaning(syms)[Len(syms)].ok
    BY DEF Whole, Valid
  <2>2. p.next \in 0 .. Len(syms) /\ Len(syms) \in p.next .. Len(syms)
    BY <1>4
  <2>3. QED
    BY <1>4, <2>1, <2>2, Grows
<1>10. PICK d : d = Distance(s, b.reps)
  OBVIOUS
<1>11. d \in Nat /\ Reaches(b.text, d)
  <2>1. d \in Nat /\ (~Reaches(b.text, d) => Told(s, p.next, b) = [text |-> b.text, reps |-> b.reps, ok |-> FALSE])
    BY <1>4, <1>5, <1>8, <1>10, ToldIs
  <2>2. QED
    BY <1>8, <1>9, <2>1
<1>12. d >= 1 /\ d <= p.processedPos /\ d <= DicSize
  <2>1. d \in 1 .. LessOf(p.processedPos, DicSize)
    BY <1>8, <1>11 DEF Reaches
  <2>2. p.processedPos \in Int /\ DicSize \in Int /\ d \in Int
    BY <1>4, <1>11, Sizes
  <2>3. QED
    BY <2>1, <2>2, LessIs
<1>13. p.processedPos > 0
  BY <1>4, <1>11, <1>12
<1>14. ~Nothing /\ ~TooFar(d)
  BY <1>1, <1>11, <1>12, <1>13, ReachIs
<1>15. s.kind = "match" => d = s.dist
  BY <1>10 DEF Distance
<1>16. QED
  BY <1>6, <1>14, <1>15

LEMMA RealSymbolReads ==
  ASSUME ReadInv, Whole, RealSymbol PROVE ReadOK'
<1>1. DecoderInv /\ DecoderTypes
  BY DEF ReadInv, DecoderInv
<1>2. pc = "real" /\ UNCHANGED <<stream, inbuf_size, f, asked, got, result>>
  BY DEF RealSymbol
<1>3. PICK s, n : s = syms[p.next] /\ n = call.owed + s.cost
  OBVIOUS
<1>4. ~Refused(s)
  BY <1>2, <1>3, NotRefused
<1>5. /\ call' = [call EXCEPT !.used = @ + n, !.owed = s.late]
      /\ pc' = IF s.kind # "mark" /\ p'.dicPos < call.limit2 /\ call.used + n < call.bufLimit
                 THEN "real" ELSE "real2"
  BY <1>3, <1>4 DEF RealSymbol
<1>6. /\ call'.res = call.res /\ call'.dicStart = call.dicStart /\ call'.dicLimit = call.dicLimit
      /\ call'.limit2 = call.limit2
  BY <1>1, <1>5 DEF DecoderTypes
<1>7. call.res = "ok"
  BY DEF ReadInv, WholeOK, ReadOK, Sound
<1>8. pc' \in {"real", "real2"} /\ (pc' = "real" => p'.dicPos < call'.limit2)
  BY <1>5, <1>6
<1>9. QED
  BY <1>2, <1>6, <1>7, <1>8, InsideKeeps

LEMMA RealDoneReads ==
  ASSUME ReadInv, Whole, RealDone, DecoderInv' PROVE ReadOK'
<1>1. DecoderInv /\ DecoderTypes
  BY DEF ReadInv, DecoderInv
<1>2. pc = "real2" /\ UNCHANGED <<stream, inbuf_size, f, asked, got, result>>
  BY DEF RealDone
<1>3. PICK used, d, kept : /\ used = call.used + call.owed /\ d = WriteRem(Seen, call.dicLimit)
                           /\ kept = Len(call.fed) - used
  OBVIOUS
<1>4. PICK more \in BOOLEAN : more = (d.dicPos < call.dicLimit /\ used < call.bufLimit /\ d.remainLen # SpecStart)
  OBVIOUS
<1>5. (CASE more -> /\ p' = d /\ pc' = "real"
                    /\ call' = [call EXCEPT !.used = used, !.owed = 0, !.limit2 = Limit2(d)]
         [] ~more /\ ~call.temp -> /\ p' = d /\ pc' = "dic"
                                   /\ call' = [call EXCEPT !.src = @ + used]
         [] ~more /\ call.temp /\ kept \in 0 .. call.lookAhead ->
                /\ p' = [d EXCEPT !.tempBuf = <<>>] /\ pc' = "dic"
                /\ call' = [call EXCEPT !.src = @ + call.lookAhead - kept]
         [] OTHER -> p' = d /\ Returns("fail", "none", call.src))
  BY <1>3, <1>4 DEF RealDone, Seen
<1>6. ~Returns("fail", "none", call.src)
  <2>1. call'.res # "fail"
    BY DEF DecoderInv, BytesOK
  <2>2. Returns("fail", "none", call.src) => call'.res = "fail"
    BY <1>1 DEF Returns, DecoderTypes
  <2>3. QED
    BY <2>1, <2>2
<1>7. call.res = "ok"
  BY DEF ReadInv, WholeOK, ReadOK, Sound
<1>8. CASE more
  <2>1. /\ p' = d /\ pc' = "real"
        /\ call' = [call EXCEPT !.used = used, !.owed = 0, !.limit2 = Limit2(d)]
    BY <1>5, <1>8
  <2>2. call'.res = call.res /\ call'.dicStart = call.dicStart /\ call'.dicLimit = call.dicLimit
    BY <1>1, <2>1 DEF DecoderTypes
  <2>3. p'.dicPos < call'.limit2
    <3>1. p'.dicPos < call'.limit2 \/ p'.dicPos = call'.dicLimit
      BY <2>1 DEF DecoderInv, CheckOK
    <3>2. p'.dicPos < call'.dicLimit
      BY <1>4, <1>8, <2>1, <2>2
    <3>3. p'.dicPos \in 0 .. DicBufSize /\ call'.dicLimit \in 0 .. DicBufSize
      BY DEF DecoderInv, DecoderTypes, Decoders
    <3>4. p'.dicPos # call'.dicLimit
      BY <3>2, <3>3, Sizes
    <3>5. QED
      BY <3>1, <3>4
  <2>4. QED
    BY <1>2, <1>7, <2>1, <2>2, <2>3, InsideKeeps
<1>9. CASE ~more
  <2>1. PICK src : pc' = "dic" /\ call' = [call EXCEPT !.src = src]
    BY <1>5, <1>6, <1>9
  <2>2. call'.res = call.res /\ call'.dicStart = call.dicStart /\ call'.dicLimit = call.dicLimit
    BY <1>1, <2>1 DEF DecoderTypes
  <2>3. QED
    BY <1>2, <1>7, <2>1, <2>2, InsideKeeps
<1>10. QED
  BY <1>8, <1>9

LEMMA ReadStep ==
  ASSUME ReadInv, [Next]_vars PROVE ReadInv'
<1>1. DecoderInv' /\ DecoderInv
  BY StepKeeps DEF ReadInv
<1>2. stream' = stream
  BY DEF Next, Decoder, Ask, Fill, ToBuf, FromDic, Made, Error, Marked, Flush, NoRoom, FromSrc, FromTemp,
         RealSymbol, RealDone, vars
<1>3. ASSUME Whole PROVE ReadOK'
  <2>1. CASE Ask
    BY <1>3, <2>1, AskReads
  <2>2. CASE Fill
    BY <1>3, <2>2, FillReads
  <2>3. CASE ToBuf
    BY <1>3, <2>3, ToBufReads
  <2>4. CASE FromDic
    BY <1>1, <1>3, <2>4, FromDicReads
  <2>5. CASE Made
    BY <1>3, <2>5, MadeReads
  <2>6. CASE Error
    BY <1>3, <2>6, ErrorReads
  <2>7. CASE Marked
    BY <1>3, <2>7, MarkedReads
  <2>8. CASE Flush
    BY <1>3, <2>8, FlushReads
  <2>9. CASE NoRoom
    BY <1>3, <2>9, NoRoomReads
  <2>10. CASE FromSrc
    BY <1>3, <2>10, FromSrcReads
  <2>11. CASE FromTemp
    BY <1>3, <2>11, FromTempReads
  <2>12. CASE RealSymbol
    BY <1>3, <2>12, RealSymbolReads
  <2>13. CASE RealDone
    BY <1>1, <1>3, <2>13, RealDoneReads
  <2>14. CASE UNCHANGED vars
    <3>1. ReadOK
      BY <1>3 DEF ReadInv, WholeOK
    <3>2. UNCHANGED <<stream, f, p, call, pc, asked, got, result>> /\ syms' = syms
      BY <2>14 DEF vars, syms
    <3>3. QED
      BY <3>1, <3>2 DEF ReadOK, Sound, InCall, Moved
  <2>15. QED
    BY <2>1, <2>2, <2>3, <2>4, <2>5, <2>6, <2>7, <2>8, <2>9, <2>10, <2>11, <2>12, <2>13, <2>14 DEF Next, Decoder
<1>4. Whole' <=> Whole
  BY <1>2 DEF Whole, syms
<1>5. WholeOK'
  BY <1>3, <1>4 DEF WholeOK
<1>6. QED
  BY <1>1, <1>5 DEF ReadInv

(***************************************************************************)
(* "Like reading the decoded data from RAM": out of a valid stream that is *)
(* there in full, every call of read_decode_by_length succeeds and leaves  *)
(* behind exactly what has been asked for so far, up to the end of the     *)
(* patch, for every size of the dictionary, of the buffers and of what is  *)
(* asked for at a time.                                                    *)
(***************************************************************************)
THEOREM ReadsRight == Spec => []ReadsLikeRAM
<1>1. Init => ReadInv
  BY StartsSound, StartsRead DEF ReadInv
<1>2. ReadInv /\ [Next]_vars => ReadInv'
  BY ReadStep
<1>3. ReadInv => ReadsLikeRAM
  BY DEF ReadInv, WholeOK, ReadOK, Sound, ReadsLikeRAM
<1>4. QED
  BY <1>1, <1>2, <1>3, PTL DEF Spec
=============================================================================
