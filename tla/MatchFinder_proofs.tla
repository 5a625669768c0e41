--------------------------- MODULE MatchFinder_proofs ---------------------------
(***************************************************************************)
(* Proofs about the match finder of MatchFinder, for every text, history,  *)
(* size of the window, limit of the positions and way the stream is read:  *)
(* the window holds the text wherever it is moved and whatever is          *)
(* normalised, a skip leaves the same tables and trees as a search, and a  *)
(* search returns matches and misses none unless it is cut short.          *)
(***************************************************************************)
EXTENDS MatchFinder, FiniteSetTheorems, WellFoundedInduction, TLAPS

-----------------------------------------------------------------------------
(* Numbers.                                                                  *)

LEMMA SmallestOf ==
  ASSUME NEW S \in SUBSET Nat, S # {}
  PROVE  \E x \in S : \A y \in S : x <= y
<1> DEFINE T == {0 .. n : n \in S}
<1>1. T \subseteq FiniteSubsetsOf(Nat) /\ T # {}
  <2>1. \A n \in S : 0 .. n \in SUBSET Nat /\ IsFiniteSet(0 .. n)
    BY FS_Interval
  <2>2. QED
    BY <2>1 DEF FiniteSubsetsOf
<1>2. PICK t \in T : \A u \in T : ~ (<<u, t>> \in StrictSubsetOrdering(Nat))
  BY <1>1, WFMin, FS_StrictSubsetOrderingWellFounded
<1>3. PICK x \in S : t = 0 .. x
  OBVIOUS
<1>4. ASSUME NEW y \in S, y < x PROVE FALSE
  <2>1. 0 .. y \in T /\ 0 .. y \subseteq 0 .. x /\ x \in 0 .. x /\ x \notin 0 .. y
    BY <1>4
  <2>2. <<0 .. y, 0 .. x>> \in StrictSubsetOrdering(Nat)
    BY <2>1 DEF StrictSubsetOrdering
  <2>3. QED
    BY <1>2, <1>3, <2>1, <2>2
<1>5. QED
  BY <1>4

\* What holds of a number and is kept from it to the next, up to a bound, holds up to the bound.
LEMMA Counting ==
  ASSUME NEW a \in Nat, NEW n \in Nat, NEW S \in SUBSET Nat, a \in S,
         \A k \in a .. n - 1 : k \in S => k + 1 \in S
  PROVE  \A k \in a .. n : k \in S
<1> DEFINE T == {k \in a .. n : k \notin S}
<1>1. SUFFICES ASSUME T # {} PROVE FALSE
  OBVIOUS
<1>2. PICK x \in T : \A y \in T : x <= y
  <2>1. T \in SUBSET Nat
    OBVIOUS
  <2> HIDE DEF T
  <2>2. QED
    BY <1>1, <2>1, SmallestOf
<1>3. x \in a .. n /\ x \notin S /\ x # a
  OBVIOUS
<1>4. x - 1 \in a .. n - 1 /\ (x - 1) + 1 = x
  BY <1>3
<1>5. x - 1 \in S
  BY <1>2, <1>4
<1>6. QED
  BY <1>3, <1>4, <1>5

LEMMA MinOf ==
  ASSUME NEW S \in SUBSET Nat, S # {}
  PROVE  Min(S) \in S /\ \A y \in S : Min(S) <= y
<1>1. \E x \in S : \A y \in S : x <= y
  BY SmallestOf
<1>2. QED
  BY <1>1 DEF Min

LEMMA ShorterOf ==
  ASSUME NEW a \in Int, NEW b \in Int
  PROVE  Shorter(a, b) \in {a, b} /\ Shorter(a, b) <= a /\ Shorter(a, b) <= b
BY DEF Shorter

LEMMA ModOnce ==
  ASSUME NEW x \in Int, NEW d \in Nat \ {0}
  PROVE  /\ 0 <= x /\ x < d => x % d = x
         /\ d <= x /\ x < d + d => x % d = x - d
         /\ x < 0 /\ 0 <= x + d => x % d = x + d
BY SMT

LEMMA DivMod ==
  ASSUME NEW a \in Nat, NEW d \in Nat \ {0}
  PROVE  a = d * (a \div d) + (a % d) /\ a % d \in 0 .. d - 1 /\ a \div d \in Nat
BY SMT

LEMMA HalfOf ==
  ASSUME NEW a \in Nat
  PROVE  a \div 2 \in Nat
BY SMT

\* The sizes the arguments of MatchFinder_Create give.
LEMMA SizesAre ==
  /\ HistorySize \in Nat /\ MatchMaxLen \in Nat \ {0} /\ MaxPos \in Nat \ {0} /\ W \in Nat \ {0}
  /\ W = MaxPos + 1 /\ NormStep \in Nat \ {0} /\ HistorySize + NormStep < MaxPos
  /\ cyclicBufferSize \in Nat \ {0} /\ cyclicBufferSize = HistorySize + 1 /\ cyclicBufferSize < MaxPos
  /\ keepSizeBefore \in Nat /\ keepSizeBefore >= cyclicBufferSize
  /\ keepSizeAfter \in Nat /\ keepSizeAfter >= MatchMaxLen
  /\ blockSize \in Nat /\ blockSize <= MaxPos /\ blockSize > keepSizeBefore + keepSizeAfter
<1>1. /\ HistorySize \in Nat /\ MatchMaxLen \in Nat \ {0} /\ MaxPos \in Nat /\ NormStep \in Nat \ {0}
      /\ AddBefore \in Nat /\ AddAfter \in Nat /\ Reserve \in Nat \ {0} /\ HistorySize + NormStep < MaxPos
      /\ blockSize < W
  BY SettingsAssumption
<1>2. /\ HistorySize \div 2 \in Nat /\ (AddBefore + MatchMaxLen + AddAfter) \div 2 \in Nat
  BY <1>1, HalfOf
<1>3. PICK a, b \in Nat : a = HistorySize \div 2 /\ b = (AddBefore + MatchMaxLen + AddAfter) \div 2
  BY <1>2
<1>4. blockSize = (HistorySize + AddBefore + 1) + (MatchMaxLen + AddAfter) + a + b + Reserve
  BY <1>3 DEF blockSize, keepSizeBefore, keepSizeAfter
<1>5. QED
  BY <1>1, <1>3, <1>4 DEF W, cyclicBufferSize, keepSizeBefore, keepSizeAfter

\* The distance of two positions modulo W.
LEMMA BackIs ==
  ASSUME NEW a \in 0 .. MaxPos, NEW b \in 0 .. MaxPos
  PROVE  Back(a, b) = IF b <= a THEN a - b ELSE a - b + W
<1>1. PICK x \in Int : x = a - b
  OBVIOUS
<1>2. W \in Nat \ {0} /\ W = MaxPos + 1 /\ -W < x /\ x < W
  BY <1>1, SizesAre
<1>3. /\ 0 <= x /\ x < W => x % W = x
      /\ x < 0 /\ 0 <= x + W => x % W = x + W
  BY <1>2, ModOnce
<1>4. Back(a, b) = x % W
  BY <1>1 DEF Back
<1>5. QED
  BY <1>1, <1>2, <1>3, <1>4

LEMMA ModOfSum ==
  ASSUME NEW a \in 0 .. MaxPos, NEW b \in 0 .. MaxPos
  PROVE  (a + b) % W = IF a + b <= MaxPos THEN a + b ELSE a + b - W
<1>1. PICK x \in Int : x = a + b
  OBVIOUS
<1>2. MaxPos \in Nat /\ W \in Nat \ {0} /\ W = MaxPos + 1 /\ 0 <= x /\ x < W + W
  BY <1>1, SizesAre
<1>3. /\ 0 <= x /\ x < W => x % W = x
      /\ W <= x /\ x < W + W => x % W = x - W
  BY <1>2, ModOnce
<1>4. PICK r : r = x % W /\ r = (a + b) % W
  BY <1>1
<1>5. r = IF x <= MaxPos THEN x ELSE x - W
  <2>1. /\ 0 <= x /\ x < W => r = x
        /\ W <= x /\ x < W + W => r = x - W
    BY <1>3, <1>4
  <2>2. QED
    BY <1>2, <2>1
<1>6. x - W = a + b - W
  BY <1>1, <1>2
<1>7. QED
  BY <1>1, <1>4, <1>5, <1>6

LEMMA BackRange ==
  ASSUME NEW a \in 0 .. MaxPos, NEW b \in 0 .. MaxPos
  PROVE  Back(a, b) \in 0 .. MaxPos
BY BackIs, SizesAre

LEMMA MoreAhead ==
  ASSUME NEW s \in 0 .. MaxPos, NEW b \in 0 .. MaxPos, NEW n \in Nat, Back(s, b) + n <= MaxPos
  PROVE  /\ (s + n) % W \in 0 .. MaxPos
         /\ Back((s + n) % W, b) = Back(s, b) + n
<1>1. Back(s, b) = IF b <= s THEN s - b ELSE s - b + W
  BY BackIs
<1>2. n \in 0 .. MaxPos
  BY <1>1, SizesAre
<1>3. (s + n) % W = IF s + n <= MaxPos THEN s + n ELSE s + n - W
  BY <1>2, ModOfSum
<1>4. PICK t : t = (s + n) % W
  OBVIOUS
<1>5. t \in 0 .. MaxPos
  BY <1>2, <1>3, <1>4, SizesAre
<1>6. Back(t, b) = IF b <= t THEN t - b ELSE t - b + W
  BY <1>5, BackIs
<1>7. QED
  BY <1>1, <1>2, <1>3, <1>4, <1>5, <1>6, SizesAre

LEMMA OneOn ==
  ASSUME NEW s \in 0 .. MaxPos, NEW b \in 0 .. MaxPos - 1, Back(s, b) > 0
  PROVE  Back(s, b + 1) = Back(s, b) - 1
<1>1. b \in 0 .. MaxPos /\ b + 1 \in 0 .. MaxPos
  BY SizesAre
<1>2. Back(s, b) = IF b <= s THEN s - b ELSE s - b + W
  BY <1>1, BackIs
<1>3. Back(s, b + 1) = IF b + 1 <= s THEN s - (b + 1) ELSE s - (b + 1) + W
  BY <1>1, BackIs
<1>4. QED
  BY <1>1, <1>2, <1>3, SizesAre

LEMMA BothReduced ==
  ASSUME NEW s \in 0 .. MaxPos, NEW b \in 0 .. MaxPos, NEW sub \in 0 .. b
  PROVE  Back(s, sub) \in 0 .. MaxPos /\ Back(Back(s, sub), b - sub) = Back(s, b)
<1>1. Back(s, sub) \in 0 .. MaxPos /\ b - sub \in 0 .. MaxPos /\ sub \in 0 .. MaxPos
  BY BackRange, SizesAre
<1>2. PICK t : t = Back(s, sub)
  OBVIOUS
<1>3. t = IF sub <= s THEN s - sub ELSE s - sub + W
  BY <1>1, <1>2, BackIs
<1>4. Back(t, b - sub) = IF b - sub <= t THEN t - (b - sub) ELSE t - (b - sub) + W
  BY <1>1, <1>2, BackIs
<1>5. Back(s, b) = IF b <= s THEN s - b ELSE s - b + W
  BY BackIs
<1>6. QED
  BY <1>1, <1>2, <1>3, <1>4, <1>5, SizesAre

-----------------------------------------------------------------------------
(* The window.                                                               *)

Fields == {"window", "buffer", "pos", "streamPos", "posLimit", "lenLimit", "cyc", "end", "result", "rem",
           "h2", "h3", "hv", "taken", "son"}

\* The window shows the text from what is kept behind the position to what was read ahead.
Shows(m) ==
  \A i \in - Shorter(m.taken, keepSizeBefore) .. Avail(m) - 1 : Cur(m, i) = ByteAt(m.taken + i)

\* In memory the window is the text; else it is a block with room before and behind the position.
Placed(m) ==
  IF set.direct
    THEN /\ m.buffer = m.taken /\ m.rem \in Nat /\ m.taken + Avail(m) + m.rem = size
         /\ DOMAIN m.window = 0 .. size - 1 /\ \A i \in 0 .. size - 1 : m.window[i] = ByteAt(i)
    ELSE /\ m.buffer <= m.taken /\ (m.buffer = m.taken \/ m.buffer >= keepSizeBefore)
         /\ m.buffer + Avail(m) <= blockSize /\ m.taken + Avail(m) <= given
         /\ DOMAIN m.window = 0 .. blockSize - 1

WindowOK(m) ==
  /\ DOMAIN m = Fields
  /\ m.pos \in cyclicBufferSize .. MaxPos /\ m.streamPos \in 0 .. MaxPos
  /\ m.buffer \in Nat /\ m.taken \in Nat
  /\ m.end \in BOOLEAN /\ m.result \in {"ok", "fail"}
  /\ Placed(m) /\ Shows(m)

CaseOK == \E c \in Cases : text = c[1] /\ set = c[2]

LEMMA CaseIs ==
  ASSUME CaseOK
  PROVE  /\ text \in Seq(0 .. Bytes - 1) /\ size \in Nat /\ given \in 0 .. size
         /\ set.direct \in BOOLEAN /\ set.mode \in Modes
         /\ set.chunk \in Nat \ {0} /\ set.failAt \in Nat \ {0} /\ set.cut \in Nat \ {0}
         /\ set.direct => given = size
<1>1. PICK c \in Cases : text = c[1] /\ set = c[2]
  BY DEF CaseOK
<1>2. c[1] = text /\ c[2] = set
  BY <1>1
<1>3. /\ text \in Seq(0 .. Bytes - 1) /\ set.direct \in BOOLEAN /\ set.mode \in Modes
      /\ set.chunk \in Nat \ {0} /\ set.failAt \in Nat \ {0} /\ set.cut \in Nat \ {0}
      /\ set.direct => set.failAt > Len(text)
  BY <1>2, SettingsAssumption
<1>4. size \in Nat
  BY <1>3 DEF size
<1>5. QED
  BY <1>3, <1>4 DEF given, size

LEMMA AvailIs ==
  ASSUME NEW m, WindowOK(m)
  PROVE  Avail(m) \in 0 .. MaxPos /\ Avail(m) = Back(m.streamPos, m.pos) /\ m.pos \in 0 .. MaxPos
<1>1. m.streamPos \in 0 .. MaxPos /\ m.pos \in 0 .. MaxPos
  BY SizesAre DEF WindowOK
<1>2. QED
  BY <1>1, BackRange DEF Avail

\* There is enough ahead of the position, or there is no more.
AheadOK(m) == Avail(m) > keepSizeAfter \/ m.taken + Avail(m) = given

\* What has come to its end has been read to the end.
EndOK(m) == m.end \/ m.result = "fail" => m.taken + Avail(m) = given

\* e is at the position of m, with the same tables; there may be more ahead of it.
SamePlace(m, e) ==
  /\ e.pos = m.pos /\ e.cyc = m.cyc /\ e.taken = m.taken
  /\ e.h2 = m.h2 /\ e.h3 = m.h3 /\ e.hv = m.hv /\ e.son = m.son
  /\ Avail(e) >= Avail(m)

\* What one call of ReadBlock reads ahead, and why it stops.
ReadsOK(m, r) ==
  /\ r.n \in Nat /\ r.result \in {"ok", "fail"} /\ r.end \in BOOLEAN
  /\ m.buffer + Avail(m) + r.n <= blockSize /\ m.taken + Avail(m) + r.n <= given
  /\ r.end \/ r.result = "fail" => m.taken + Avail(m) + r.n = given
  /\ ~r.end /\ r.result = "ok" => m.buffer + Avail(m) + r.n = blockSize \/ Avail(m) + r.n > keepSizeAfter

LEMMA ReadLoopIs ==
  ASSUME CaseOK, NEW m, WindowOK(m), ~set.direct
  PROVE  ReadsOK(m, ReadLoop(m))
<1>1. PICK dest, from, most : /\ dest = m.buffer + Avail(m) /\ from = m.taken + Avail(m)
                              /\ most = Shorter(blockSize - dest, given - from)
  OBVIOUS
<1>2. /\ dest \in Nat /\ from \in Nat /\ most \in Nat /\ Avail(m) \in Nat
      /\ m.buffer \in Nat /\ m.taken \in Nat
      /\ most <= blockSize - dest /\ most <= given - from
      /\ dest + most = blockSize \/ from + most = given
  <2>1. /\ m.buffer \in Nat /\ m.taken \in Nat /\ Avail(m) \in Nat
        /\ m.buffer + Avail(m) <= blockSize /\ m.taken + Avail(m) <= given
    BY AvailIs DEF WindowOK, Placed
  <2>2. given \in Nat /\ blockSize \in Nat
    BY CaseIs, SizesAre
  <2>3. dest \in Nat /\ from \in Nat /\ blockSize - dest \in Nat /\ given - from \in Nat
    BY <1>1, <2>1, <2>2
  <2>4. most \in {blockSize - dest, given - from} /\ most <= blockSize - dest /\ most <= given - from
    BY <1>1, <2>3, ShorterOf
  <2>5. QED
    BY <2>1, <2>2, <2>3, <2>4
<1>3. /\ set.chunk \in Nat \ {0} /\ given \in Nat /\ blockSize \in Nat /\ keepSizeAfter \in Nat
      /\ set.failAt \in Nat /\ size \in Nat
  BY CaseIs, SizesAre
<1> DEFINE Upon(n) == n + Shorter(set.chunk, most - n)
           Turn(f, n) ==
             IF dest + n = blockSize THEN [n |-> n, result |-> "ok", end |-> FALSE]
             ELSE IF from + n = given THEN [n |-> n, result |-> IF set.failAt <= size THEN "fail" ELSE "ok",
                                            end |-> set.failAt > size]
             ELSE IF Avail(m) + Upon(n) > keepSizeAfter THEN [n |-> Upon(n), result |-> "ok", end |-> FALSE]
             ELSE f[Upon(n)]
<1>4. PICK S : S = {r \in [n : Nat, result : {"ok", "fail"}, end : BOOLEAN] : ReadsOK(m, r)}
  OBVIOUS
<1>5. ASSUME NEW n \in 0 .. most, n # most PROVE Upon(n) \in n + 1 .. most
  <2>1. Shorter(set.chunk, most - n) \in {set.chunk, most - n} /\ Shorter(set.chunk, most - n) <= most - n
    BY <1>2, <1>3, ShorterOf
  <2>2. QED
    BY <1>2, <1>3, <1>5, <2>1
<1>6. ASSUME NEW f, NEW n \in 0 .. most, n # most => f[Upon(n)] \in S
      PROVE  Turn(f, n) \in S
  <2>1. CASE dest + n = blockSize
    <3>1. PICK r : r = [n |-> n, result |-> "ok", end |-> FALSE]
      OBVIOUS
    <3>2. Turn(f, n) = r
      BY <2>1, <3>1
    <3>3. /\ r \in [n : Nat, result : {"ok", "fail"}, end : BOOLEAN]
          /\ r.n = n /\ r.result = "ok" /\ r.end = FALSE
      BY <3>1
    <3>4. ReadsOK(m, r)
      BY <1>1, <1>2, <1>3, <2>1, <3>3 DEF ReadsOK
    <3>5. QED
      BY <1>4, <3>2, <3>3, <3>4
  <2>2. CASE dest + n # blockSize /\ from + n = given
    <3>1. CASE set.failAt <= size
      <4>1. PICK r : r = [n |-> n, result |-> "fail", end |-> FALSE]
        OBVIOUS
      <4>2. Turn(f, n) = r
        <5>1. (set.failAt > size) = FALSE
          BY <1>3, <3>1
        <5>2. Turn(f, n) = [n |-> n, result |-> IF set.failAt <= size THEN "fail" ELSE "ok", end |-> set.failAt > size]
          BY <2>2
        <5>3. QED
          BY <3>1, <4>1, <5>1, <5>2
      <4>3. /\ r \in [n : Nat, result : {"ok", "fail"}, end : BOOLEAN]
            /\ r.n = n /\ r.result = "fail" /\ r.end = FALSE
        BY <4>1
      <4>4. ReadsOK(m, r)
        BY <1>1, <1>2, <1>3, <2>2, <4>3 DEF ReadsOK
      <4>5. QED
        BY <1>4, <4>2, <4>3, <4>4
    <3>2. CASE ~(set.failAt <= size)
      <4>1. PICK r : r = [n |-> n, result |-> "ok", end |-> TRUE]
        OBVIOUS
      <4>2. Turn(f, n) = r
        <5>1. (set.failAt > size) = TRUE
          BY <1>3, <3>2
        <5>2. Turn(f, n) = [n |-> n, result |-> IF set.failAt <= size THEN "fail" ELSE "ok", end |-> set.failAt > size]
          BY <2>2
        <5>3. QED
          BY <3>2, <4>1, <5>1, <5>2
      <4>3. /\ r \in [n : Nat, result : {"ok", "fail"}, end : BOOLEAN]
            /\ r.n = n /\ r.result = "ok" /\ r.end = TRUE
        BY <4>1
      <4>4. ReadsOK(m, r)
        BY <1>1, <1>2, <1>3, <2>2, <4>3 DEF ReadsOK
      <4>5. QED
        BY <1>4, <4>2, <4>3, <4>4
    <3>3. QED
      BY <3>1, <3>2
  <2>3. CASE dest + n # blockSize /\ from + n # given
    <3>1. n # most
      BY <1>2, <2>3
    <3>2. Upon(n) \in n + 1 .. most
      BY <1>5, <3>1
    <3> HIDE DEF Upon
    <3>3. CASE Avail(m) + Upon(n) > keepSizeAfter
      <4>1. PICK r : r = [n |-> Upon(n), result |-> "ok", end |-> FALSE]
        OBVIOUS
      <4>2. Turn(f, n) = r
        BY <2>3, <3>3, <4>1
      <4>3. /\ r \in [n : Nat, result : {"ok", "fail"}, end : BOOLEAN]
            /\ r.n = Upon(n) /\ r.result = "ok" /\ r.end = FALSE
        BY <3>2, <4>1
      <4>4. ReadsOK(m, r)
        BY <1>1, <1>2, <1>3, <3>2, <3>3, <4>3 DEF ReadsOK
      <4>5. QED
        BY <1>4, <4>2, <4>3, <4>4
    <3>4. CASE ~(Avail(m) + Upon(n) > keepSizeAfter)
      BY <1>6, <2>3, <3>1, <3>4
    <3>5. QED
      BY <3>3, <3>4
  <2>4. QED
    BY <2>1, <2>2, <2>3
<1> HIDE DEF Turn
<1>7. ReadLoop(m) = (CHOOSE f : f = [n \in 0 .. most |-> Turn(f, n)])[0]
  BY <1>1 DEF ReadLoop, Turn, Upon
<1>8. ASSUME NEW f, NEW g, NEW n \in 0 .. most, n # most => f[Upon(n)] = g[Upon(n)]
      PROVE  Turn(f, n) = Turn(g, n)
  BY <1>1, <1>2, <1>8 DEF Turn
<1> HIDE DEF Upon
<1>9. \E f \in [0 .. most -> S] : f = [n \in 0 .. most |-> Turn(f, n)]
  <2> DEFINE Solves(f, j) == \A n \in most - j .. most : f[n] = Turn(f, n)
  <2>1. PICK A : A = {j \in Nat : j <= most => \E f \in [most - j .. most -> S] : Solves(f, j)}
    OBVIOUS
  <2>2. ASSUME NEW j \in 0 .. most, NEW f, \A n \in most - j + 1 .. most : f[n] \in S /\ f[n] = Turn(f, n)
        PROVE  \E g \in [most - j .. most -> S] : Solves(g, j)
    <3>1. PICK x : x = most - j
      OBVIOUS
    <3>2. x \in 0 .. most /\ \A n \in x + 1 .. most : f[n] \in S /\ f[n] = Turn(f, n)
      BY <1>2, <2>2, <3>1
    <3>3. PICK g : g = [n \in x .. most |-> IF n = x THEN Turn(f, x) ELSE f[n]]
      OBVIOUS
    <3>4. g[x] = Turn(f, x) /\ \A n \in x + 1 .. most : g[n] = f[n]
      BY <1>2, <3>2, <3>3
    <3>5. ASSUME NEW n \in x .. most PROVE g[n] = Turn(g, n) /\ g[n] \in S
      <4>1. n \in 0 .. most
        BY <1>2, <3>2
      <4>2. n # most => Upon(n) \in x + 1 .. most
        BY <1>2, <1>5, <3>2, <4>1
      <4>3. n # most => f[Upon(n)] = g[Upon(n)] /\ f[Upon(n)] \in S
        BY <3>2, <3>4, <4>2
      <4>4. Turn(f, n) = Turn(g, n) /\ Turn(f, n) \in S
        BY <1>6, <1>8, <4>1, <4>3
      <4>5. CASE n = x
        BY <3>4, <4>4, <4>5
      <4>6. CASE n # x
        <5>1. n \in x + 1 .. most
          BY <1>2, <3>2, <4>6
        <5>2. QED
          BY <3>2, <3>4, <4>4, <5>1
      <4>7. QED
        BY <4>5, <4>6
    <3>6. g \in [x .. most -> S]
      BY <3>3, <3>4, <3>5
    <3>7. QED
      BY <3>1, <3>5, <3>6
  <2>3. 0 \in A
    <3>1. 0 \in 0 .. most /\ \A n \in most - 0 + 1 .. most : FALSE
      BY <1>2
    <3>2. \E g \in [most - 0 .. most -> S] : Solves(g, 0)
      <4> HIDE DEF Solves
      <4>1. PICK f : f = 0
        OBVIOUS
      <4>2. \A n \in most - 0 + 1 .. most : f[n] \in S /\ f[n] = Turn(f, n)
        BY <3>1
      <4>3. QED
        BY <2>2, <3>1, <4>2
    <3>3. QED
      BY <2>1, <3>2
  <2>4. ASSUME NEW j \in 0 .. most - 1, j \in A PROVE j + 1 \in A
    <3>1. PICK f \in [most - j .. most -> S] : Solves(f, j)
      BY <1>2, <2>1, <2>4
    <3>2. j + 1 \in 0 .. most /\ most - (j + 1) + 1 = most - j
      BY <1>2
    <3>3. \A n \in most - (j + 1) + 1 .. most : f[n] \in S /\ f[n] = Turn(f, n)
      BY <3>1, <3>2
    <3> HIDE DEF Solves
    <3>4. \E g \in [most - (j + 1) .. most -> S] : Solves(g, j + 1)
      BY <2>2, <3>2, <3>3
    <3>5. QED
      BY <2>1, <3>2, <3>4
  <2>5. most \in A
    <3>1. A \in SUBSET Nat
      BY <2>1
    <3>2. \A j \in 0 .. most - 1 : j \in A => j + 1 \in A
      BY <2>4
    <3>3. \A j \in 0 .. most : j \in A
      BY <1>2, <2>3, <3>1, <3>2, Counting
    <3>4. QED
      BY <1>2, <3>3
  <2>6. PICK f \in [most - most .. most -> S] : Solves(f, most)
    BY <1>2, <2>1, <2>5
  <2>7. most - most = 0
    BY <1>2
  <2>8. f \in [0 .. most -> S] /\ \A n \in 0 .. most : f[n] = Turn(f, n)
    BY <2>6, <2>7
  <2>9. f = [n \in 0 .. most |-> Turn(f, n)]
    BY <2>8
  <2>10. QED
    BY <2>8, <2>9
<1>10. PICK f : f = (CHOOSE g : g = [n \in 0 .. most |-> Turn(g, n)])
  OBVIOUS
<1>11. f = [n \in 0 .. most |-> Turn(f, n)]
  BY <1>9, <1>10
<1>12. f[0] \in S
  <2>1. PICK A : A = {j \in Nat : \A n \in most - j .. most : n \in 0 .. most => f[n] \in S}
    OBVIOUS
  <2>2. ASSUME NEW n \in 0 .. most, \A k \in n + 1 .. most : f[k] \in S PROVE f[n] \in S
    <3>1. n # most => f[Upon(n)] \in S
      BY <1>5, <2>2
    <3>2. Turn(f, n) \in S
      BY <1>6, <3>1
    <3>3. QED
      BY <1>11, <3>2
  <2>3. 0 \in A
    <3>1. \A n \in most - 0 .. most : n = most
      BY <1>2
    <3>2. f[most] \in S
      BY <1>2, <2>2
    <3>3. QED
      BY <2>1, <3>1, <3>2
  <2>4. ASSUME NEW j \in 0 .. most - 1, j \in A PROVE j + 1 \in A
    <3>1. PICK x : x = most - (j + 1)
      OBVIOUS
    <3>2. x \in 0 .. most /\ x + 1 = most - j /\ \A n \in x .. most : n = x \/ n \in x + 1 .. most
      BY <1>2, <3>1
    <3>3. \A n \in x + 1 .. most : f[n] \in S
      BY <1>2, <2>1, <2>4, <3>2
    <3>4. f[x] \in S
      BY <2>2, <3>2, <3>3
    <3>5. QED
      BY <2>1, <3>1, <3>2, <3>3, <3>4
  <2>5. most \in A
    <3>1. A \in SUBSET Nat
      BY <2>1
    <3>2. \A j \in 0 .. most - 1 : j \in A => j + 1 \in A
      BY <2>4
    <3>3. \A j \in 0 .. most : j \in A
      BY <1>2, <2>3, <3>1, <3>2, Counting
    <3>4. QED
      BY <1>2, <3>3
  <2>6. QED
    BY <1>2, <2>1, <2>5
<1>13. QED
  BY <1>4, <1>7, <1>10, <1>12

LEMMA StreamRead ==
  ASSUME CaseOK, NEW m, WindowOK(m), ~set.direct
  PROVE  LET e == ReadStream(m)
         IN  /\ WindowOK(e) /\ SamePlace(m, e) /\ e.buffer = m.buffer
             /\ e.end \/ e.result = "fail" => m.taken + Avail(e) = given
             /\ ~e.end /\ e.result = "ok" => m.buffer + Avail(e) = blockSize \/ Avail(e) > keepSizeAfter
<1>1. PICK r, dest, e : r = ReadLoop(m) /\ dest = m.buffer + Avail(m) /\ e = ReadStream(m)
  OBVIOUS
<1>2. ReadsOK(m, r)
  BY <1>1, ReadLoopIs
<1>3. e = [m EXCEPT !.window = [i \in DOMAIN @ |->
                              IF i \in dest .. dest + r.n - 1
                                THEN ByteAt(m.taken + i - m.buffer) ELSE @[i]],
                    !.streamPos = (@ + r.n) % W, !.end = r.end, !.result = r.result]
  BY <1>1 DEF ReadStream
<1>4. PICK w : w = [i \in DOMAIN m.window |-> IF i \in dest .. dest + r.n - 1
                                THEN ByteAt(m.taken + i - m.buffer) ELSE m.window[i]]
  OBVIOUS
<1>5. DOMAIN m = Fields /\ m.streamPos \in 0 .. MaxPos /\ m.pos \in 0 .. MaxPos /\ Avail(m) \in Nat
  BY AvailIs DEF WindowOK
<1>6. /\ DOMAIN e = Fields /\ e.window = w /\ e.streamPos = (m.streamPos + r.n) % W
      /\ e.end = r.end /\ e.result = r.result /\ e.buffer = m.buffer /\ e.taken = m.taken
      /\ e.pos = m.pos /\ e.cyc = m.cyc /\ e.h2 = m.h2 /\ e.h3 = m.h3 /\ e.hv = m.hv /\ e.son = m.son
  BY <1>3, <1>4, <1>5 DEF Fields
<1>7. m.buffer \in Nat /\ m.taken \in Nat /\ blockSize \in Nat /\ given \in Nat /\ blockSize <= MaxPos
  BY CaseIs, SizesAre DEF WindowOK
<1>8. r.n \in Nat /\ Avail(m) + r.n <= MaxPos
  BY <1>2, <1>5, <1>7, SizesAre DEF ReadsOK
<1>9. e.streamPos \in 0 .. MaxPos /\ Avail(e) = Avail(m) + r.n
  BY <1>5, <1>6, <1>8, MoreAhead DEF Avail
<1>10. Placed(e)
  <2>1. DOMAIN w = 0 .. blockSize - 1
    BY <1>4 DEF WindowOK, Placed
  <2>2. QED
    BY <1>2, <1>5, <1>6, <1>7, <1>9, <2>1, SMTT(60) DEF WindowOK, Placed, ReadsOK
<1>11. Shows(e)
  <2>1. PICK k : k = Shorter(m.taken, keepSizeBefore)
    OBVIOUS
  <2>2. k \in Nat /\ k <= m.buffer
    <3>1. m.buffer = m.taken \/ m.buffer >= keepSizeBefore
      BY DEF WindowOK, Placed
    <3>2. QED
      BY <1>7, <2>1, <3>1, SizesAre, ShorterOf
  <2> SUFFICES ASSUME NEW i \in - k .. Avail(m) + r.n - 1
               PROVE  w[m.buffer + i] = ByteAt(m.taken + i)
    <3>1. k = Shorter(e.taken, keepSizeBefore) /\ Avail(e) - 1 = Avail(m) + r.n - 1
      <4>1. e.taken = m.taken /\ Avail(e) = Avail(m) + r.n
        BY <1>6, <1>9
      <4>2. QED
        BY <1>5, <1>8, <2>1, <4>1
    <3>2. \A i \in - k .. Avail(m) + r.n - 1 : e.window[e.buffer + i] = ByteAt(e.taken + i)
      BY <1>6
    <3>3. QED
      BY <3>1, <3>2 DEF Shows, Cur
  <2>3. m.buffer + i \in 0 .. blockSize - 1 /\ i \in Int
    BY <1>2, <1>5, <1>7, <1>8, <2>2 DEF ReadsOK
  <2>4. m.buffer + i \in DOMAIN m.window
    BY <2>3 DEF WindowOK, Placed
  <2>5. CASE i >= Avail(m)
    <3>1. m.buffer + i \in dest .. dest + r.n - 1 /\ m.taken + (m.buffer + i) - m.buffer = m.taken + i
      BY <1>1, <1>5, <1>7, <1>8, <2>3, <2>5
    <3>2. w[m.buffer + i] = ByteAt(m.taken + (m.buffer + i) - m.buffer)
      BY <1>4, <2>4, <3>1
    <3>3. QED
      BY <3>1, <3>2
  <2>6. CASE ~(i >= Avail(m))
    <3>1. /\ m.buffer + i \notin dest .. dest + r.n - 1
          /\ i \in - k .. Avail(m) - 1
      BY <1>1, <1>5, <1>7, <1>8, <2>2, <2>3, <2>6
    <3>2. w[m.buffer + i] = m.window[m.buffer + i]
      BY <1>4, <2>4, <3>1
    <3>3. Cur(m, i) = ByteAt(m.taken + i)
      BY <2>1, <3>1 DEF WindowOK, Shows
    <3>4. QED
      BY <3>2, <3>3 DEF Cur
  <2>7. QED
    BY <2>5, <2>6
<1>12. WindowOK(e)
  BY <1>2, <1>6, <1>9, <1>10, <1>11 DEF WindowOK, ReadsOK
<1>13. SamePlace(m, e)
  BY <1>5, <1>6, <1>8, <1>9 DEF SamePlace
<1>14. QED
  BY <1>1, <1>2, <1>6, <1>9, <1>12, <1>13, <1>5, <1>7, <1>8 DEF ReadsOK

LEMMA DirectRead ==
  ASSUME CaseOK, NEW m, WindowOK(m), set.direct
  PROVE  LET e == ReadDirect(m)
         IN  WindowOK(e) /\ SamePlace(m, e) /\ AheadOK(e) /\ (m.result = "ok" => EndOK(e))
<1>1. PICK n, e : n = Shorter(MaxPos - Avail(m), m.rem) /\ e = ReadDirect(m)
  OBVIOUS
<1>2. /\ DOMAIN m = Fields /\ m.streamPos \in 0 .. MaxPos /\ m.pos \in 0 .. MaxPos
      /\ Avail(m) \in 0 .. MaxPos /\ m.rem \in Nat /\ MaxPos \in Nat
  BY AvailIs, SizesAre DEF WindowOK, Placed
<1>3. n \in Nat /\ n \in {MaxPos - Avail(m), m.rem} /\ n <= MaxPos - Avail(m) /\ n <= m.rem
  <2>1. MaxPos - Avail(m) \in Nat
    BY <1>2
  <2>2. QED
    BY <1>1, <1>2, <2>1, ShorterOf
<1>4. e = [m EXCEPT !.rem = @ - n, !.streamPos = (@ + n) % W, !.end = (m.rem = n)]
  BY <1>1 DEF ReadDirect
<1>5. /\ DOMAIN e = Fields /\ e.window = m.window /\ e.streamPos = (m.streamPos + n) % W
      /\ e.end = (m.rem = n) /\ e.result = m.result /\ e.buffer = m.buffer /\ e.taken = m.taken
      /\ e.rem = m.rem - n
      /\ e.pos = m.pos /\ e.cyc = m.cyc /\ e.h2 = m.h2 /\ e.h3 = m.h3 /\ e.hv = m.hv /\ e.son = m.son
  BY <1>2, <1>4 DEF Fields
<1>6. e.streamPos \in 0 .. MaxPos /\ Avail(e) = Avail(m) + n
  BY <1>2, <1>3, <1>5, MoreAhead DEF Avail
<1>7. m.taken \in Nat /\ m.buffer = m.taken /\ size \in Nat /\ m.taken + Avail(m) + m.rem = size
      /\ DOMAIN m.window = 0 .. size - 1 /\ given = size
      /\ \A i \in 0 .. size - 1 : m.window[i] = ByteAt(i)
  BY CaseIs DEF WindowOK, Placed
<1>8. Placed(e)
  <2>1. e.rem \in Nat /\ e.taken + Avail(e) + e.rem = size
    <3>1. PICK t \in Nat, a \in Nat, r \in Nat : t = m.taken /\ a = Avail(m) /\ r = m.rem
      BY <1>2, <1>7
    <3>2. e.taken = t /\ Avail(e) = a + n /\ e.rem = r - n /\ t + a + r = size
      BY <1>5, <1>6, <1>7, <3>1
    <3>3. r - n \in Nat /\ t + (a + n) + (r - n) = size
      BY <1>3, <3>1, <3>2
    <3>4. QED
      BY <3>2, <3>3
  <2>2. QED
    BY <1>5, <1>7, <2>1 DEF Placed
<1>9. Shows(e)
  <2>1. PICK k : k = Shorter(m.taken, keepSizeBefore)
    OBVIOUS
  <2>2. k \in Nat /\ k <= m.taken
    BY <1>7, <2>1, SizesAre, ShorterOf
  <2> SUFFICES ASSUME NEW i \in - k .. Avail(m) + n - 1
               PROVE  m.window[m.taken + i] = ByteAt(m.taken + i)
    <3>1. k = Shorter(e.taken, keepSizeBefore) /\ Avail(e) - 1 = Avail(m) + n - 1
      <4>1. e.taken = m.taken /\ Avail(e) = Avail(m) + n
        BY <1>5, <1>6
      <4>2. QED
        BY <1>2, <1>3, <2>1, <4>1
    <3>2. \A i \in - k .. Avail(m) + n - 1 : e.window[e.buffer + i] = ByteAt(e.taken + i)
      BY <1>5, <1>7
    <3>3. QED
      BY <3>1, <3>2 DEF Shows, Cur
  <2>3. m.taken + i \in 0 .. size - 1
    <3>1. PICK t \in Nat, a \in Nat, r \in Nat : t = m.taken /\ a = Avail(m) /\ r = m.rem
      BY <1>2, <1>7
    <3>2. t + a + r = size /\ n <= r /\ k <= t /\ i \in - k .. a + n - 1
      BY <1>3, <1>7, <2>2, <3>1
    <3>3. i \in Int /\ - k <= i /\ i < a + n
      BY <1>3, <2>2, <3>1, <3>2
    <3>4. PICK z \in Nat, o \in Nat, b \in Nat, j \in Int : z = size /\ o = n /\ b = k /\ j = i
      BY <1>3, <1>7, <2>2, <3>3
    <3>5. t + a + r = z /\ o <= r /\ b <= t /\ - b <= j /\ j < a + o
      BY <3>2, <3>3, <3>4
    <3>6. t + j \in 0 .. z - 1
      BY <3>1, <3>4, <3>5
    <3>7. QED
      BY <3>1, <3>4, <3>6
  <2>4. QED
    BY <1>7, <2>3
<1>10. WindowOK(e)
  BY <1>2, <1>5, <1>6, <1>8, <1>9 DEF WindowOK
<1>11. SamePlace(m, e)
  BY <1>2, <1>3, <1>5, <1>6 DEF SamePlace
<1>12. AheadOK(e)
  BY <1>2, <1>3, <1>5, <1>6, <1>7, SizesAre, SMTT(60) DEF AheadOK
<1>13. m.result = "ok" => EndOK(e)
  <2>1. CASE m.rem = n
    BY <1>2, <1>3, <1>5, <1>6, <1>7, <2>1 DEF EndOK
  <2>2. CASE m.rem # n
    BY <1>5, <2>2 DEF EndOK
  <2>3. QED
    BY <2>1, <2>2
<1>14. QED
  BY <1>1, <1>10, <1>11, <1>12, <1>13

LEMMA BlockRead ==
  ASSUME CaseOK, NEW m, WindowOK(m), EndOK(m), set.direct \/ m.buffer + keepSizeAfter < blockSize
  PROVE  LET e == ReadBlock(m)
         IN  WindowOK(e) /\ SamePlace(m, e) /\ AheadOK(e) /\ EndOK(e)
<1>1. m.end \in BOOLEAN /\ m.result \in {"ok", "fail"}
  BY DEF WindowOK
<1>2. CASE m.end \/ m.result = "fail"
  <2>1. ReadBlock(m) = m
    BY <1>2 DEF ReadBlock
  <2>2. SamePlace(m, m)
    BY AvailIs DEF SamePlace
  <2>3. AheadOK(m)
    BY <1>2 DEF EndOK, AheadOK
  <2>4. QED
    BY <2>1, <2>2, <2>3
<1>3. CASE ~(m.end \/ m.result = "fail") /\ set.direct
  <2>1. ReadBlock(m) = ReadDirect(m)
    BY <1>3 DEF ReadBlock
  <2>2. PICK e : e = ReadDirect(m)
    OBVIOUS
  <2>3. WindowOK(e) /\ SamePlace(m, e) /\ AheadOK(e)
    BY <1>3, <2>2, DirectRead
  <2>4. EndOK(e)
    <3>1. m.result = "ok" => EndOK(e)
      BY <1>3, <2>2, DirectRead
    <3>2. QED
      BY <1>1, <1>3, <3>1
  <2>5. QED
    BY <2>1, <2>2, <2>3, <2>4
<1>4. CASE ~(m.end \/ m.result = "fail") /\ ~set.direct
  <2>1. ReadBlock(m) = ReadStream(m)
    BY <1>3, <1>4 DEF ReadBlock
  <2>2. PICK e : e = ReadStream(m)
    OBVIOUS
  <2>3. /\ WindowOK(e) /\ SamePlace(m, e) /\ e.buffer = m.buffer
        /\ e.end \/ e.result = "fail" => m.taken + Avail(e) = given
        /\ ~e.end /\ e.result = "ok" => m.buffer + Avail(e) = blockSize \/ Avail(e) > keepSizeAfter
    BY <1>4, <2>2, StreamRead
  <2>4. e.taken = m.taken /\ Avail(e) \in Nat /\ m.buffer \in Nat /\ e.end \in BOOLEAN /\ e.result \in {"ok", "fail"}
    BY <2>3, AvailIs DEF SamePlace, WindowOK
  <2>5. EndOK(e)
    BY <2>3, <2>4 DEF EndOK
  <2>6. AheadOK(e)
    BY <1>4, <2>3, <2>4, SizesAre DEF AheadOK
  <2>7. QED
    BY <2>1, <2>2, <2>3, <2>5, <2>6
<1>5. QED
  BY <1>1, <1>2, <1>3, <1>4, CaseIs

LEMMA BlockMoved ==
  ASSUME CaseOK, NEW m, WindowOK(m), EndOK(m), NeedMove(m)
  PROVE  LET e == MoveBlock(m)
         IN  /\ WindowOK(e) /\ SamePlace(m, e) /\ EndOK(e)
             /\ e.buffer + keepSizeAfter < blockSize
<1>1. PICK from, n, e : from = m.buffer - keepSizeBefore /\ n = Avail(m) + keepSizeBefore /\ e = MoveBlock(m)
  OBVIOUS
<1>2. ~set.direct /\ blockSize - m.buffer <= keepSizeAfter
  BY DEF NeedMove
<1>3. /\ keepSizeBefore \in Nat /\ keepSizeAfter \in Nat /\ blockSize \in Nat
      /\ blockSize > keepSizeBefore + keepSizeAfter /\ given \in Nat
  BY SizesAre, CaseIs
<1>4. /\ DOMAIN m = Fields /\ Avail(m) \in Nat /\ m.buffer \in Nat /\ m.taken \in Nat
      /\ m.buffer <= m.taken /\ m.buffer + Avail(m) <= blockSize /\ m.taken + Avail(m) <= given
      /\ DOMAIN m.window = 0 .. blockSize - 1
  BY <1>2, AvailIs DEF WindowOK, Placed
<1>5. from \in Nat /\ keepSizeBefore <= m.taken
  <2>1. PICK b \in Nat, t \in Nat, x \in Nat, y \in Nat, z \in Nat :
          b = m.buffer /\ t = m.taken /\ x = keepSizeBefore /\ y = keepSizeAfter /\ z = blockSize
    BY <1>3, <1>4
  <2>2. z - b <= y /\ z > x + y /\ b <= t
    BY <1>2, <1>3, <1>4, <2>1
  <2>3. b - x \in Nat /\ x <= t
    BY <2>2
  <2>4. QED
    BY <1>1, <2>1, <2>3
<1>6. PICK w : w = [i \in 0 .. blockSize - 1 |-> IF i < n THEN m.window[from + i] ELSE m.window[i]]
  OBVIOUS
<1>7. e = [m EXCEPT !.window = w, !.buffer = keepSizeBefore]
  BY <1>1, <1>4, <1>6 DEF MoveBlock
<1>8. /\ DOMAIN e = Fields /\ e.window = w /\ e.streamPos = m.streamPos
      /\ e.end = m.end /\ e.result = m.result /\ e.buffer = keepSizeBefore /\ e.taken = m.taken
      /\ e.pos = m.pos /\ e.cyc = m.cyc /\ e.h2 = m.h2 /\ e.h3 = m.h3 /\ e.hv = m.hv /\ e.son = m.son
  BY <1>4, <1>7 DEF Fields
<1>9. Avail(e) = Avail(m)
  BY <1>8 DEF Avail
<1>10. Placed(e)
  <2>1. DOMAIN e.window = 0 .. blockSize - 1
    BY <1>6, <1>8
  <2>2. PICK b \in Nat, a \in Nat, x \in Nat, z \in Nat :
          b = m.buffer /\ a = Avail(m) /\ x = keepSizeBefore /\ z = blockSize /\ b + a <= z /\ b - x \in Nat
    BY <1>1, <1>3, <1>4, <1>5
  <2>3. x + a <= z
    BY <2>2
  <2>4. e.buffer <= e.taken /\ e.buffer >= keepSizeBefore /\ e.buffer + Avail(e) <= blockSize
    BY <1>3, <1>5, <1>8, <1>9, <2>2, <2>3
  <2>5. e.taken + Avail(e) <= given
    BY <1>4, <1>8, <1>9
  <2>6. QED
    BY <1>2, <2>1, <2>4, <2>5 DEF Placed
<1>11. Shows(e)
  <2>1. PICK k : k = Shorter(m.taken, keepSizeBefore)
    OBVIOUS
  <2>2. k \in Nat /\ k <= keepSizeBefore
    BY <1>3, <1>4, <2>1, ShorterOf
  <2> SUFFICES ASSUME NEW i \in - k .. Avail(m) - 1
               PROVE  w[keepSizeBefore + i] = ByteAt(m.taken + i)
    <3>1. k = Shorter(e.taken, keepSizeBefore) /\ Avail(e) - 1 = Avail(m) - 1
      BY <1>8, <1>9, <2>1
    <3>2. \A i \in - k .. Avail(m) - 1 : e.window[e.buffer + i] = ByteAt(e.taken + i)
      BY <1>8
    <3>3. QED
      BY <3>1, <3>2 DEF Shows, Cur
  <2>3. /\ keepSizeBefore + i \in 0 .. blockSize - 1 /\ keepSizeBefore + i < n
        /\ from + (keepSizeBefore + i) = m.buffer + i
    <3>1. i \in Int /\ - keepSizeBefore <= i /\ i < Avail(m)
      BY <1>3, <1>4, <2>2
    <3>2. n = Avail(m) + keepSizeBefore /\ from = m.buffer - keepSizeBefore
      BY <1>1
    <3>3. keepSizeBefore + i \in Nat /\ keepSizeBefore + i < n
      BY <1>3, <1>4, <3>1, <3>2
    <3>4. keepSizeBefore + i < blockSize /\ from + (keepSizeBefore + i) = m.buffer + i
      <4>1. PICK a \in Nat, b \in Nat : a = Avail(m) /\ b = m.buffer
        BY <1>4
      <4>2. b + a <= blockSize /\ keepSizeBefore <= b /\ i < a
        BY <1>1, <1>3, <1>4, <1>5, <3>1, <4>1, SMTT(60)
      <4>3. keepSizeBefore + i < blockSize
        BY <1>3, <3>1, <4>1, <4>2
      <4>4. from + (keepSizeBefore + i) = m.buffer + i
        BY <1>1, <1>3, <3>1, <4>1
      <4>5. QED
        BY <4>3, <4>4
    <3>5. QED
      BY <1>3, <3>3, <3>4
  <2>4. w[keepSizeBefore + i] = m.window[m.buffer + i]
    BY <1>6, <2>3
  <2>5. QED
    BY <2>1, <2>4 DEF WindowOK, Shows, Cur
<1>12. WindowOK(e)
  BY <1>3, <1>8, <1>10, <1>11 DEF WindowOK
<1>13. SamePlace(m, e)
  BY <1>4, <1>8, <1>9 DEF SamePlace
<1>14. EndOK(e)
  BY <1>8, <1>9 DEF EndOK
<1>15. QED
  BY <1>1, <1>3, <1>8, <1>12, <1>13, <1>14

LEMMA MovedAndRead ==
  ASSUME CaseOK, NEW m, WindowOK(m), EndOK(m)
  PROVE  LET e == CheckAndMoveAndRead(m)
         IN  WindowOK(e) /\ SamePlace(m, e) /\ AheadOK(e) /\ EndOK(e)
<1>1. CASE NeedMove(m)
  <2>1. PICK b : b = MoveBlock(m)
    OBVIOUS
  <2>2. WindowOK(b) /\ SamePlace(m, b) /\ EndOK(b) /\ b.buffer + keepSizeAfter < blockSize
    BY <1>1, <2>1, BlockMoved
  <2>3. PICK e : e = ReadBlock(b)
    OBVIOUS
  <2>4. WindowOK(e) /\ SamePlace(b, e) /\ AheadOK(e) /\ EndOK(e)
    BY <2>2, <2>3, BlockRead
  <2>5. SamePlace(m, e)
    <3>1. Avail(m) \in Nat /\ Avail(b) \in Nat /\ Avail(e) \in Nat
      BY <2>2, <2>4, AvailIs
    <3>2. QED
      BY <2>2, <2>4, <3>1 DEF SamePlace
  <2>6. CheckAndMoveAndRead(m) = e
    BY <1>1, <2>1, <2>3 DEF CheckAndMoveAndRead
  <2>7. QED
    BY <2>4, <2>5, <2>6
<1>2. CASE ~NeedMove(m)
  <2>1. set.direct \/ m.buffer + keepSizeAfter < blockSize
    BY <1>2, SizesAre DEF NeedMove, WindowOK
  <2>2. CheckAndMoveAndRead(m) = ReadBlock(m)
    BY <1>2 DEF CheckAndMoveAndRead
  <2>3. PICK e : e = ReadBlock(m)
    OBVIOUS
  <2>4. WindowOK(e) /\ SamePlace(m, e) /\ AheadOK(e) /\ EndOK(e)
    BY <2>1, <2>3, BlockRead
  <2>5. QED
    BY <2>2, <2>3, <2>4
<1>3. QED
  BY <1>1, <1>2

\* The rest of what SetLimits sets: lenLimit is right at every position up to posLimit.
LimitsOK(m) ==
  /\ m.pos < MaxPos /\ m.cyc \in 0 .. cyclicBufferSize - 1
  /\ m.lenLimit = Shorter(Avail(m), MatchMaxLen)
  /\ Avail(m) > 0 =>
       /\ m.posLimit \in m.pos + 1 .. MaxPos
       /\ m.posLimit - m.pos <= cyclicBufferSize - m.cyc
       /\ m.posLimit = m.pos + 1 \/ m.posLimit - m.pos <= Avail(m) - keepSizeAfter

WindowInv(m) == WindowOK(m) /\ AheadOK(m) /\ EndOK(m) /\ LimitsOK(m)

LEMMA LimitsSet ==
  ASSUME CaseOK, NEW m, WindowOK(m), AheadOK(m), EndOK(m), m.pos < MaxPos, m.cyc \in 0 .. cyclicBufferSize - 1
  PROVE  LET e == SetLimits(m)
         IN  WindowInv(e) /\ SamePlace(m, e) /\ Avail(e) = Avail(m)
<1>1. PICK ahead, limit : /\ ahead = Avail(m)
                          /\ limit = Min({MaxPos - m.pos, cyclicBufferSize - m.cyc,
                               IF ahead > keepSizeAfter THEN ahead - keepSizeAfter ELSE Shorter(ahead, 1)})
  OBVIOUS
<1>2. PICK e : e = SetLimits(m)
  OBVIOUS
<1>3. e = [m EXCEPT !.lenLimit = Shorter(ahead, MatchMaxLen), !.posLimit = m.pos + limit]
  BY <1>1, <1>2 DEF SetLimits
<1>4. DOMAIN m = Fields /\ ahead \in Nat /\ m.pos \in Nat /\ MaxPos \in Nat /\ keepSizeAfter \in Nat
      /\ cyclicBufferSize \in Nat
  BY <1>1, AvailIs, SizesAre DEF WindowOK
<1>5. /\ DOMAIN e = Fields /\ e.window = m.window /\ e.streamPos = m.streamPos
      /\ e.end = m.end /\ e.result = m.result /\ e.buffer = m.buffer /\ e.taken = m.taken /\ e.rem = m.rem
      /\ e.pos = m.pos /\ e.cyc = m.cyc /\ e.h2 = m.h2 /\ e.h3 = m.h3 /\ e.hv = m.hv /\ e.son = m.son
      /\ e.lenLimit = Shorter(ahead, MatchMaxLen) /\ e.posLimit = m.pos + limit
  BY <1>3, <1>4 DEF Fields
<1>6. Avail(e) = ahead
  BY <1>1, <1>5 DEF Avail
<1>7. PICK x, y, z \in Nat : /\ x = MaxPos - m.pos /\ y = cyclicBufferSize - m.cyc
                            /\ z = IF ahead > keepSizeAfter THEN ahead - keepSizeAfter ELSE Shorter(ahead, 1)
  <2>1. MaxPos - m.pos \in Nat /\ cyclicBufferSize - m.cyc \in Nat
    BY <1>4
  <2>2. Shorter(ahead, 1) \in Nat
    BY <1>4, ShorterOf
  <2>3. (IF ahead > keepSizeAfter THEN ahead - keepSizeAfter ELSE Shorter(ahead, 1)) \in Nat
    BY <1>4, <2>2
  <2>4. QED
    BY <2>1, <2>3
<1>8. limit \in {x, y, z} /\ limit <= x /\ limit <= y /\ limit <= z /\ limit \in Nat
  <2>1. limit = Min({x, y, z})
    BY <1>1, <1>7
  <2>2. {x, y, z} \in SUBSET Nat /\ {x, y, z} # {}
    OBVIOUS
  <2>3. QED
    BY <2>1, <2>2, MinOf
<1>9. ahead > 0 => limit > 0 /\ (limit = 1 \/ limit <= ahead - keepSizeAfter)
  <2>1. Shorter(ahead, 1) \in {ahead, 1} /\ Shorter(ahead, 1) <= 1 /\ Shorter(ahead, 1) <= ahead
    BY <1>4, ShorterOf
  <2>2. QED
    BY <1>4, <1>7, <1>8, <2>1
<1>10. WindowOK(e)
  <2>1. Placed(e) /\ Shows(e)
    BY <1>1, <1>5, <1>6 DEF WindowOK, Placed, Shows, Cur
  <2>2. QED
    BY <1>5, <2>1 DEF WindowOK
<1>11. AheadOK(e) /\ EndOK(e)
  BY <1>1, <1>5, <1>6 DEF AheadOK, EndOK
<1>12. LimitsOK(e)
  <2>1. ahead > 0 => /\ e.posLimit \in m.pos + 1 .. MaxPos
                     /\ e.posLimit - m.pos <= cyclicBufferSize - m.cyc
                     /\ e.posLimit = m.pos + 1 \/ e.posLimit - m.pos <= ahead - keepSizeAfter
    BY <1>4, <1>5, <1>7, <1>8, <1>9
  <2>2. QED
    BY <1>5, <1>6, <2>1 DEF LimitsOK
<1>13. SamePlace(m, e)
  BY <1>1, <1>4, <1>5, <1>6 DEF SamePlace
<1>14. QED
  BY <1>1, <1>2, <1>6, <1>10, <1>11, <1>12, <1>13 DEF WindowInv

\* All that is stored has been made smaller by sub.
Lowered(m, e, sub) ==
  \/ sub = 0 /\ e.h2 = m.h2 /\ e.h3 = m.h3 /\ e.hv = m.hv /\ e.son = m.son
  \/ /\ sub > 0 /\ e.h2 = Reduced(m.h2, sub) /\ e.h3 = Reduced(m.h3, sub)
     /\ e.hv = Reduced(m.hv, sub) /\ e.son = Reduced(m.son, sub)

LEMMA Normalized ==
  ASSUME CaseOK, NEW m, WindowOK(m), m.pos = MaxPos
  PROVE  LET e == Normalize(m)
             sub == SubValue(m)
         IN  /\ WindowOK(e) /\ sub \in 1 .. m.pos - cyclicBufferSize
             /\ e.pos = m.pos - sub /\ e.cyc = m.cyc /\ e.taken = m.taken /\ Lowered(m, e, sub)
             /\ Avail(e) = Avail(m) /\ e.end = m.end /\ e.result = m.result
<1>1. PICK sub, e : sub = SubValue(m) /\ e = Normalize(m)
  OBVIOUS
<1>2. sub \in 1 .. m.pos - cyclicBufferSize
  <2>1. PICK d : d = m.pos - HistorySize - 1
    OBVIOUS
  <2>2. d \in Nat /\ d >= NormStep /\ NormStep \in Nat \ {0} /\ d = MaxPos - cyclicBufferSize
    BY <2>1, SizesAre
  <2>3. sub = (d \div NormStep) * NormStep
    BY <1>1, <2>1 DEF SubValue
  <2>4. PICK q, r \in Nat : q = d \div NormStep /\ d = NormStep * q + r /\ r < NormStep
    <3>1. d = NormStep * (d \div NormStep) + (d % NormStep) /\ d % NormStep \in 0 .. NormStep - 1 /\ d \div NormStep \in Nat
      BY <2>2, DivMod
    <3>2. QED
      BY <2>2, <3>1
  <2>5. q >= 1
    <3>1. q = 0 => d = r
      BY <2>2, <2>4
    <3>2. QED
      BY <2>2, <2>4, <3>1
  <2>6. NormStep * q >= NormStep /\ NormStep * q = q * NormStep /\ q * NormStep \in Nat
    BY <2>2, <2>4, <2>5, SMT
  <2>7. QED
    BY <2>2, <2>3, <2>4, <2>6, SizesAre
<1>3. DOMAIN m = Fields /\ m.streamPos \in 0 .. MaxPos /\ m.pos \in 0 .. MaxPos
  BY AvailIs DEF WindowOK
<1>4. e = [m EXCEPT !.h2 = Reduced(@, sub), !.h3 = Reduced(@, sub), !.hv = Reduced(@, sub),
                !.son = Reduced(@, sub),
                !.pos = @ - sub, !.posLimit = Back(@, sub), !.streamPos = Back(@, sub)]
  BY <1>1 DEF Normalize
<1>5. /\ DOMAIN e = Fields /\ e.window = m.window /\ e.streamPos = Back(m.streamPos, sub)
      /\ e.end = m.end /\ e.result = m.result /\ e.buffer = m.buffer /\ e.taken = m.taken /\ e.rem = m.rem
      /\ e.pos = m.pos - sub /\ e.cyc = m.cyc
      /\ e.h2 = Reduced(m.h2, sub) /\ e.h3 = Reduced(m.h3, sub)
      /\ e.hv = Reduced(m.hv, sub) /\ e.son = Reduced(m.son, sub)
  BY <1>3, <1>4 DEF Fields
<1>6. e.streamPos \in 0 .. MaxPos /\ Avail(e) = Avail(m)
  <2>1. sub \in 0 .. m.pos
    BY <1>2, <1>3, SizesAre
  <2>2. Back(m.streamPos, sub) \in 0 .. MaxPos /\ Back(Back(m.streamPos, sub), m.pos - sub) = Back(m.streamPos, m.pos)
    BY <1>3, <2>1, BothReduced
  <2>3. QED
    BY <1>5, <2>2 DEF Avail
<1>7. e.pos \in cyclicBufferSize .. MaxPos
  BY <1>2, <1>3, <1>5, SizesAre
<1>8. WindowOK(e)
  <2>1. Placed(e) /\ Shows(e)
    BY <1>5, <1>6 DEF WindowOK, Placed, Shows, Cur
  <2>2. QED
    BY <1>5, <1>6, <1>7, <2>1 DEF WindowOK
<1>9. Lowered(m, e, sub)
  BY <1>2, <1>5, <1>3, SizesAre DEF Lowered
<1>10. QED
  BY <1>1, <1>2, <1>5, <1>6, <1>8, <1>9

\* From one position to the next, sub of which is taken off.
Onward(m, e, sub) ==
  /\ sub \in 0 .. m.pos + 1 - cyclicBufferSize
  /\ e.pos = m.pos + 1 - sub /\ e.taken = m.taken + 1
  /\ e.cyc = IF m.cyc + 1 = cyclicBufferSize THEN 0 ELSE m.cyc + 1
  /\ Lowered(m, e, sub)
  /\ Avail(e) >= Avail(m) - 1

LEMMA NextPlace ==
  ASSUME CaseOK, NEW m, WindowInv(m), Avail(m) > 0
  PROVE  LET e == [m EXCEPT !.cyc = @ + 1, !.buffer = @ + 1, !.pos = @ + 1, !.taken = @ + 1]
         IN  /\ WindowOK(e) /\ EndOK(e) /\ Avail(e) = Avail(m) - 1
             /\ Avail(e) >= keepSizeAfter \/ e.taken + Avail(e) = given
             /\ DOMAIN e = Fields /\ e.pos = m.pos + 1 /\ e.taken = m.taken + 1 /\ e.cyc = m.cyc + 1
             /\ e.posLimit = m.posLimit /\ e.lenLimit = m.lenLimit
             /\ e.h2 = m.h2 /\ e.h3 = m.h3 /\ e.hv = m.hv /\ e.son = m.son
<1>1. PICK e : e = [m EXCEPT !.cyc = @ + 1, !.buffer = @ + 1, !.pos = @ + 1, !.taken = @ + 1]
  OBVIOUS
<1>2. DOMAIN m = Fields /\ WindowOK(m) /\ m.pos \in cyclicBufferSize .. MaxPos - 1 /\ m.pos \in 0 .. MaxPos - 1
      /\ m.streamPos \in 0 .. MaxPos
  BY SizesAre DEF WindowInv, WindowOK, LimitsOK
<1>3. /\ DOMAIN e = Fields /\ e.window = m.window /\ e.streamPos = m.streamPos
      /\ e.end = m.end /\ e.result = m.result /\ e.buffer = m.buffer + 1 /\ e.taken = m.taken + 1 /\ e.rem = m.rem
      /\ e.pos = m.pos + 1 /\ e.cyc = m.cyc + 1 /\ e.posLimit = m.posLimit /\ e.lenLimit = m.lenLimit
      /\ e.h2 = m.h2 /\ e.h3 = m.h3 /\ e.hv = m.hv /\ e.son = m.son
  BY <1>1, <1>2 DEF Fields
<1>4. Avail(e) = Avail(m) - 1
  <2>1. Avail(m) = Back(m.streamPos, m.pos) /\ Back(m.streamPos, m.pos) > 0
    BY DEF Avail
  <2>2. Back(m.streamPos, m.pos + 1) = Back(m.streamPos, m.pos) - 1
    BY <1>2, <2>1, OneOn
  <2>3. QED
    BY <1>3, <2>1, <2>2 DEF Avail
<1>5. PICK a \in Nat : a = Avail(m)
  BY <1>2, AvailIs
<1>6. m.buffer \in Nat /\ m.taken \in Nat /\ keepSizeBefore \in Nat /\ keepSizeAfter \in Nat
      /\ blockSize \in Nat /\ given \in Nat /\ size \in Nat /\ m.end \in BOOLEAN /\ m.result \in {"ok", "fail"}
  BY <1>2, SizesAre, CaseIs DEF WindowOK
<1>7. Placed(e)
  <2>1. CASE set.direct
    <3>1. /\ m.buffer = m.taken /\ m.rem \in Nat /\ m.taken + a + m.rem = size
          /\ DOMAIN m.window = 0 .. size - 1 /\ \A i \in 0 .. size - 1 : m.window[i] = ByteAt(i)
      BY <1>2, <1>5, <2>1 DEF WindowOK, Placed
    <3>2. e.taken + Avail(e) + e.rem = size
      BY <1>3, <1>4, <1>5, <1>6, <3>1
    <3>3. QED
      BY <1>3, <2>1, <3>1, <3>2 DEF Placed
  <2>2. CASE ~set.direct
    <3>1. /\ m.buffer <= m.taken /\ (m.buffer = m.taken \/ m.buffer >= keepSizeBefore)
          /\ m.buffer + a <= blockSize /\ m.taken + a <= given
          /\ DOMAIN m.window = 0 .. blockSize - 1
      BY <1>2, <1>5, <2>2 DEF WindowOK, Placed
    <3>2. /\ e.buffer <= e.taken /\ (e.buffer = e.taken \/ e.buffer >= keepSizeBefore)
          /\ e.buffer + Avail(e) <= blockSize /\ e.taken + Avail(e) <= given
      <4>1. PICK b \in Nat, t \in Nat, s \in Nat, g \in Nat, z \in Nat :
               b = m.buffer /\ t = m.taken /\ s = blockSize /\ g = given /\ z = keepSizeBefore
        BY <1>6
      <4>2. b <= t /\ (b = t \/ b >= z) /\ b + a <= s /\ t + a <= g
        BY <3>1, <4>1
      <4>3. e.buffer = b + 1 /\ e.taken = t + 1 /\ Avail(e) = a - 1
        BY <1>3, <1>4, <1>5, <4>1
      <4>4. b + 1 <= t + 1 /\ (b + 1 = t + 1 \/ b + 1 >= z) /\ (b + 1) + (a - 1) <= s /\ (t + 1) + (a - 1) <= g
        BY <4>1, <4>2
      <4>5. QED
        BY <4>1, <4>3, <4>4
    <3>3. QED
      BY <1>3, <2>2, <3>1, <3>2 DEF Placed
  <2>3. QED
    BY <2>1, <2>2
<1>8. Shows(e)
  <2>1. PICK k, k1 : k = Shorter(m.taken, keepSizeBefore) /\ k1 = Shorter(m.taken + 1, keepSizeBefore)
    OBVIOUS
  <2>2. k \in Nat /\ k1 \in Nat /\ k1 <= k + 1
    BY <1>6, <2>1 DEF Shorter
  <2> SUFFICES ASSUME NEW i \in - k1 .. a - 2
               PROVE  m.window[m.buffer + 1 + i] = ByteAt(m.taken + 1 + i)
    <3>1. k1 = Shorter(e.taken, keepSizeBefore) /\ Avail(e) - 1 = a - 2
      BY <1>3, <1>4, <1>5, <2>1
    <3>2. \A i \in - k1 .. a - 2 : e.window[e.buffer + i] = ByteAt(e.taken + i)
      BY <1>3
    <3>3. QED
      BY <3>1, <3>2 DEF Shows, Cur
  <2>3. i + 1 \in - k .. a - 1 /\ m.buffer + (i + 1) = m.buffer + 1 + i /\ m.taken + (i + 1) = m.taken + 1 + i
    BY <1>5, <1>6, <2>2
  <2>4. m.window[m.buffer + (i + 1)] = ByteAt(m.taken + (i + 1))
    BY <1>2, <1>5, <2>1, <2>3 DEF WindowOK, Shows, Cur
  <2>5. QED
    BY <2>3, <2>4
<1>9. WindowOK(e)
  <2>1. e.pos \in cyclicBufferSize .. MaxPos /\ e.buffer \in Nat /\ e.taken \in Nat
    BY <1>2, <1>3, <1>6, SizesAre
  <2>2. QED
    BY <1>2, <1>3, <1>6, <1>7, <1>8, <2>1 DEF WindowOK
<1>10. EndOK(e)
  BY <1>3, <1>4, <1>5, <1>6 DEF WindowInv, EndOK
<1>11. Avail(e) >= keepSizeAfter \/ e.taken + Avail(e) = given
  BY <1>3, <1>4, <1>5, <1>6 DEF WindowInv, AheadOK
<1>12. QED
  BY <1>1, <1>3, <1>4, <1>9, <1>10, <1>11

LEMMA LimitsChecked ==
  ASSUME CaseOK, NEW m, WindowOK(m), EndOK(m), Avail(m) >= keepSizeAfter \/ m.taken + Avail(m) = given,
         m.cyc \in 0 .. cyclicBufferSize
  PROVE  \E sub \in 0 .. m.pos - cyclicBufferSize :
           LET e == CheckLimits(m)
           IN  /\ WindowInv(e) /\ e.pos = m.pos - sub /\ e.taken = m.taken /\ Lowered(m, e, sub)
               /\ e.cyc = IF m.cyc = cyclicBufferSize THEN 0 ELSE m.cyc
               /\ Avail(e) >= Avail(m)
<1>1. PICK a : a = IF m.pos = MaxPos THEN Normalize(m) ELSE m
  OBVIOUS
<1>2. PICK sub \in 0 .. m.pos - cyclicBufferSize :
        /\ WindowOK(a) /\ a.pos = m.pos - sub /\ a.pos < MaxPos /\ a.cyc = m.cyc /\ a.taken = m.taken
        /\ Lowered(m, a, sub) /\ Avail(a) = Avail(m) /\ a.end = m.end /\ a.result = m.result
  <2>1. m.pos \in cyclicBufferSize .. MaxPos /\ cyclicBufferSize \in Nat /\ MaxPos \in Nat
    BY SizesAre DEF WindowOK
  <2>2. CASE m.pos = MaxPos
    <3>1. PICK sub : sub = SubValue(m)
      OBVIOUS
    <3>2. /\ WindowOK(a) /\ sub \in 1 .. m.pos - cyclicBufferSize
          /\ a.pos = m.pos - sub /\ a.cyc = m.cyc /\ a.taken = m.taken /\ Lowered(m, a, sub)
          /\ Avail(a) = Avail(m) /\ a.end = m.end /\ a.result = m.result
      BY <1>1, <2>2, <3>1, Normalized
    <3>3. sub \in 0 .. m.pos - cyclicBufferSize /\ a.pos < MaxPos
      BY <2>1, <2>2, <3>2
    <3>4. QED
      BY <3>2, <3>3
  <2>3. CASE m.pos # MaxPos
    <3>1. a = m /\ 0 \in 0 .. m.pos - cyclicBufferSize /\ m.pos - 0 = m.pos /\ m.pos < MaxPos
      BY <1>1, <2>1, <2>3
    <3>2. Lowered(m, m, 0)
      BY DEF Lowered
    <3>3. QED
      BY <3>1, <3>2
  <2>4. QED
    BY <2>2, <2>3
<1>3. EndOK(a)
  BY <1>2 DEF EndOK
<1>4. PICK b : b = IF ~a.end /\ Avail(a) = keepSizeAfter THEN CheckAndMoveAndRead(a) ELSE a
  OBVIOUS
<1>5. WindowOK(b) /\ SamePlace(a, b) /\ AheadOK(b) /\ EndOK(b)
  <2>1. CASE ~a.end /\ Avail(a) = keepSizeAfter
    BY <1>2, <1>3, <1>4, <2>1, MovedAndRead
  <2>2. CASE ~(~a.end /\ Avail(a) = keepSizeAfter)
    <3>1. b = a
      BY <1>4, <2>2
    <3>2. AheadOK(a)
      <4>1. a.end \in BOOLEAN
        BY <1>2 DEF WindowOK
      <4>2. Avail(a) \in Nat /\ keepSizeAfter \in Nat
        BY <1>2, AvailIs, SizesAre
      <4>3. CASE a.end
        BY <1>3, <4>3 DEF EndOK, AheadOK
      <4>4. CASE Avail(a) # keepSizeAfter
        BY <1>2, <4>2, <4>4 DEF AheadOK
      <4>5. QED
        BY <2>2, <4>1, <4>3, <4>4
    <3>3. SamePlace(a, a)
      BY <1>2, AvailIs DEF SamePlace
    <3>4. QED
      BY <1>2, <1>3, <3>1, <3>2, <3>3
  <2>3. QED
    BY <2>1, <2>2
<1>6. PICK c : c = [b EXCEPT !.cyc = IF @ = cyclicBufferSize THEN 0 ELSE @]
  OBVIOUS
<1>7. DOMAIN b = Fields /\ b.cyc = m.cyc
  BY <1>2, <1>5 DEF WindowOK, SamePlace
<1>8. /\ DOMAIN c = Fields /\ c.window = b.window /\ c.streamPos = b.streamPos
      /\ c.end = b.end /\ c.result = b.result /\ c.buffer = b.buffer /\ c.taken = b.taken /\ c.rem = b.rem
      /\ c.pos = b.pos /\ c.cyc = IF m.cyc = cyclicBufferSize THEN 0 ELSE m.cyc
      /\ c.h2 = b.h2 /\ c.h3 = b.h3 /\ c.hv = b.hv /\ c.son = b.son
  BY <1>6, <1>7 DEF Fields
<1>9. Avail(c) = Avail(b)
  BY <1>8 DEF Avail
<1>10. WindowOK(c) /\ AheadOK(c) /\ EndOK(c)
  <2>1. Placed(c) /\ Shows(c)
    BY <1>5, <1>8, <1>9 DEF WindowOK, Placed, Shows, Cur
  <2>2. WindowOK(c)
    BY <1>5, <1>8, <2>1 DEF WindowOK
  <2>3. QED
    BY <1>5, <1>8, <1>9, <2>2 DEF AheadOK, EndOK
<1>11. c.pos < MaxPos /\ c.cyc \in 0 .. cyclicBufferSize - 1
  BY <1>2, <1>5, <1>8, SizesAre DEF SamePlace
<1>12. PICK e : e = SetLimits(c)
  OBVIOUS
<1>13. WindowInv(e) /\ SamePlace(c, e) /\ Avail(e) = Avail(c)
  BY <1>10, <1>11, <1>12, LimitsSet
<1>14. CheckLimits(m) = e
  BY <1>1, <1>4, <1>6, <1>12 DEF CheckLimits
<1>15. Lowered(m, e, sub)
  BY <1>2, <1>5, <1>8, <1>13 DEF Lowered, SamePlace
<1>16. QED
  BY <1>2, <1>5, <1>8, <1>9, <1>13, <1>14, <1>15 DEF SamePlace

LEMMA PosMoved ==
  ASSUME CaseOK, NEW m, WindowInv(m), Avail(m) > 0
  PROVE  LET e == MovePos(m)
         IN  WindowInv(e) /\ \E sub \in 0 .. m.pos + 1 - cyclicBufferSize : Onward(m, e, sub)
<1>1. PICK n : n = [m EXCEPT !.cyc = @ + 1, !.buffer = @ + 1, !.pos = @ + 1, !.taken = @ + 1]
  OBVIOUS
<1>2. /\ WindowOK(n) /\ EndOK(n) /\ Avail(n) = Avail(m) - 1
      /\ Avail(n) >= keepSizeAfter \/ n.taken + Avail(n) = given
      /\ n.pos = m.pos + 1 /\ n.taken = m.taken + 1 /\ n.cyc = m.cyc + 1
      /\ n.posLimit = m.posLimit /\ n.lenLimit = m.lenLimit
      /\ n.h2 = m.h2 /\ n.h3 = m.h3 /\ n.hv = m.hv /\ n.son = m.son
  BY <1>1, NextPlace
<1>3. PICK e : e = IF n.pos = n.posLimit THEN CheckLimits(n) ELSE n
  OBVIOUS
<1>4. MovePos(m) = e
  BY <1>1, <1>3 DEF MovePos
<1>5. /\ m.pos \in Nat /\ m.cyc \in 0 .. cyclicBufferSize - 1 /\ cyclicBufferSize \in Nat \ {0}
      /\ Avail(m) \in Nat /\ m.pos >= cyclicBufferSize /\ keepSizeAfter \in Nat
  BY SizesAre, AvailIs DEF WindowInv, WindowOK, LimitsOK
<1>6. CASE n.pos = n.posLimit
  <2>1. n.cyc \in 0 .. cyclicBufferSize
    BY <1>2, <1>5
  <2>2. PICK sub \in 0 .. n.pos - cyclicBufferSize :
           /\ WindowInv(e) /\ e.pos = n.pos - sub /\ e.taken = n.taken /\ Lowered(n, e, sub)
           /\ e.cyc = IF n.cyc = cyclicBufferSize THEN 0 ELSE n.cyc
           /\ Avail(e) >= Avail(n)
    BY <1>2, <1>3, <1>6, <2>1, LimitsChecked
  <2>3. Lowered(m, e, sub)
    BY <1>2, <2>2 DEF Lowered
  <2>4. sub \in 0 .. m.pos + 1 - cyclicBufferSize
    <3>1. n.pos - cyclicBufferSize = m.pos + 1 - cyclicBufferSize
      BY <1>2, <1>5
    <3>2. QED
      BY <3>1
  <2>5. Onward(m, e, sub)
    <3>1. e.cyc = IF m.cyc + 1 = cyclicBufferSize THEN 0 ELSE m.cyc + 1
      BY <1>2, <2>2
    <3>2. Avail(e) >= Avail(m) - 1
      BY <1>2, <2>2
    <3>3. e.pos = m.pos + 1 - sub
      BY <1>2, <1>5, <2>2
    <3>4. QED
      BY <1>2, <2>2, <2>3, <2>4, <3>1, <3>2, <3>3 DEF Onward
  <2>6. QED
    BY <1>4, <2>2, <2>4, <2>5
<1>7. CASE n.pos # n.posLimit
  <2>1. e = n
    BY <1>3, <1>7
  <2>2. /\ m.posLimit \in m.pos + 2 .. MaxPos
        /\ m.posLimit - m.pos <= cyclicBufferSize - m.cyc
        /\ m.posLimit - m.pos <= Avail(m) - keepSizeAfter
    BY <1>2, <1>5, <1>7 DEF WindowInv, LimitsOK
  <2>3. Avail(m) >= keepSizeAfter + 2 /\ Avail(n) > keepSizeAfter /\ m.cyc + 1 < cyclicBufferSize
    BY <1>2, <1>5, <2>2
  <2>4. AheadOK(n)
    BY <2>3 DEF AheadOK
  <2>5. n.lenLimit = Shorter(Avail(n), MatchMaxLen)
    <3>1. m.lenLimit = Shorter(Avail(m), MatchMaxLen)
      BY DEF WindowInv, LimitsOK
    <3>2. MatchMaxLen <= keepSizeAfter /\ MatchMaxLen \in Nat
      BY SizesAre
    <3>3. QED
      BY <1>2, <1>5, <2>3, <3>1, <3>2 DEF Shorter
  <2>6. LimitsOK(n)
    <3>1. PICK a \in Nat, p \in Nat, c \in Nat, l \in Nat : a = Avail(m) /\ p = m.pos /\ c = m.cyc /\ l = m.posLimit
      BY <1>5, <2>2
    <3>2. n.pos < MaxPos /\ n.cyc \in 0 .. cyclicBufferSize - 1
      BY <1>2, <1>5, <2>2, <2>3, <3>1, SizesAre
    <3>3. n.posLimit \in n.pos + 1 .. MaxPos
      BY <1>2, <2>2, <3>1, SizesAre
    <3>4. n.posLimit - n.pos <= cyclicBufferSize - n.cyc
      BY <1>2, <1>5, <2>2, <3>1
    <3>5. n.posLimit - n.pos <= Avail(n) - keepSizeAfter
      BY <1>2, <1>5, <2>2, <3>1
    <3>6. QED
      BY <2>5, <3>2, <3>3, <3>4, <3>5 DEF LimitsOK
  <2>7. Lowered(m, n, 0) /\ 0 \in 0 .. m.pos + 1 - cyclicBufferSize
    BY <1>2, <1>5 DEF Lowered
  <2>8. Onward(m, n, 0)
    BY <1>2, <1>5, <2>3, <2>7 DEF Onward
  <2>9. QED
    BY <1>2, <1>4, <2>1, <2>4, <2>6, <2>7, <2>8 DEF WindowInv
<1>8. QED
  BY <1>6, <1>7

\* e differs from m in the tables and the tree alone.
TablesOnly(m, e) ==
  /\ DOMAIN e = Fields /\ e.window = m.window /\ e.streamPos = m.streamPos
  /\ e.end = m.end /\ e.result = m.result /\ e.buffer = m.buffer /\ e.taken = m.taken /\ e.rem = m.rem
  /\ e.pos = m.pos /\ e.cyc = m.cyc /\ e.posLimit = m.posLimit /\ e.lenLimit = m.lenLimit

LEMMA TablesChanged ==
  ASSUME NEW m, WindowInv(m), NEW e, TablesOnly(m, e)
  PROVE  WindowInv(e) /\ Avail(e) = Avail(m)
<1>1. Avail(e) = Avail(m)
  BY DEF TablesOnly, Avail
<1>2. Placed(e) /\ Shows(e)
  BY <1>1 DEF TablesOnly, WindowInv, WindowOK, Placed, Shows, Cur
<1>3. WindowOK(e)
  BY <1>2 DEF TablesOnly, WindowInv, WindowOK
<1>4. AheadOK(e) /\ EndOK(e) /\ LimitsOK(e)
  BY <1>1 DEF TablesOnly, WindowInv, AheadOK, EndOK, LimitsOK
<1>5. QED
  BY <1>1, <1>3, <1>4 DEF WindowInv

LEMMA EnteredIs ==
  ASSUME NEW m, DOMAIN m = Fields
  PROVE  TablesOnly(m, Entered(m))
<1>1. PICK h2, h3, hv : Entered(m) = [m EXCEPT !.h2 = h2, !.h3 = h3, !.hv = hv]
  BY DEF Entered, Fields
<1>2. QED
  BY <1>1 DEF TablesOnly, Fields

LEMMA SonSet ==
  ASSUME NEW m, NEW e, TablesOnly(m, e), NEW son
  PROVE  TablesOnly(m, [e EXCEPT !.son = son])
BY DEF TablesOnly, Fields

LEMMA LinkedIs ==
  ASSUME NEW m, NEW e, TablesOnly(m, e)
  PROVE  TablesOnly(m, Linked(m, e))
<1>1. PICK son : Linked(m, e) = [e EXCEPT !.son = son]
  BY DEF Linked, TablesOnly, Fields
<1>2. QED
  BY <1>1, SonSet, SMTT(60)

LEMMA WalkedIs ==
  ASSUME NEW m, DOMAIN m = Fields, NEW tables
  PROVE  TablesOnly(m, Walked(m, tables).mf)
<1>1. TablesOnly(m, Entered(m)) /\ TablesOnly(m, Linked(m, Entered(m)))
  BY EnteredIs, LinkedIs
<1>2. \E son : Walked(m, tables).mf \in {Linked(m, Entered(m)), [Entered(m) EXCEPT !.son = son]}
  BY DEF Walked
<1>3. QED
  BY <1>1, <1>2, SonSet

\* A step of the match finder moves it by one byte and keeps what is said of the window.
LEMMA OneGot ==
  ASSUME CaseOK, NEW m, WindowInv(m), Avail(m) > 0
  PROVE  /\ WindowInv(GetMatches(m).mf) /\ Avail(GetMatches(m).mf) >= Avail(m) - 1
         /\ GetMatches(m).mf.taken = m.taken + 1
<1>1. PICK e : e = IF m.lenLimit < MinLen THEN m ELSE Walked(m, FromTables(m)).mf
  OBVIOUS
<1>2. GetMatches(m).mf = MovePos(e)
  BY <1>1 DEF GetMatches
<1>3. DOMAIN m = Fields
  BY DEF WindowInv, WindowOK
<1>4. TablesOnly(m, e)
  <2>1. TablesOnly(m, m)
    BY <1>3 DEF TablesOnly
  <2>2. QED
    BY <1>1, <1>3, <2>1, WalkedIs
<1>5. WindowInv(e) /\ Avail(e) = Avail(m) /\ e.taken = m.taken
  BY <1>4, TablesChanged DEF TablesOnly
<1>6. QED
  BY <1>2, <1>5, PosMoved DEF Onward

LEMMA OneSkipped ==
  ASSUME CaseOK, NEW m, WindowInv(m), Avail(m) > 0
  PROVE  /\ WindowInv(SkipOne(m)) /\ Avail(SkipOne(m)) >= Avail(m) - 1
         /\ SkipOne(m).taken = m.taken + 1
<1>1. PICK e : e = IF m.lenLimit < MinLen THEN m ELSE Linked(m, Entered(m))
  OBVIOUS
<1>2. SkipOne(m) = MovePos(e)
  BY <1>1 DEF SkipOne
<1>3. DOMAIN m = Fields
  BY DEF WindowInv, WindowOK
<1>4. TablesOnly(m, e)
  <2>1. TablesOnly(m, m)
    BY <1>3 DEF TablesOnly
  <2>2. QED
    BY <1>1, <1>3, <2>1, EnteredIs, LinkedIs
<1>5. WindowInv(e) /\ Avail(e) = Avail(m) /\ e.taken = m.taken
  BY <1>4, TablesChanged DEF TablesOnly
<1>6. QED
  BY <1>2, <1>5, PosMoved DEF Onward

LEMMA SkippedIs ==
  ASSUME NEW m, NEW num \in Nat
  PROVE  \E f : /\ f[0] = m /\ \A k \in 1 .. num : f[k] = SkipOne(f[k - 1])
                /\ SkipMany(m, num) = f[num]
<1> DEFINE Rule(f, k) == IF k = 0 THEN m ELSE SkipOne(f[k - 1])
<1>1. PICK A : A = {j \in Nat : \E f : f[0] = m /\ \A k \in 1 .. j : f[k] = SkipOne(f[k - 1])}
  OBVIOUS
<1>2. 0 \in A
  <2>1. PICK f : f = [k \in {0} |-> m]
    OBVIOUS
  <2>2. QED
    BY <1>1, <2>1
<1>3. ASSUME NEW j \in 0 .. num - 1, j \in A PROVE j + 1 \in A
  <2>1. PICK f : f[0] = m /\ \A k \in 1 .. j : f[k] = SkipOne(f[k - 1])
    BY <1>1, <1>3
  <2>2. PICK x : x = SkipOne(f[j])
    OBVIOUS
  <2>3. PICK g : g = [k \in 0 .. j + 1 |-> IF k <= j THEN f[k] ELSE x]
    OBVIOUS
  <2>4. g[0] = m
    BY <2>1, <2>3
  <2>5. ASSUME NEW k \in 1 .. j + 1 PROVE g[k] = SkipOne(g[k - 1])
    <3>1. g[k - 1] = f[k - 1]
      BY <2>3
    <3>2. CASE k <= j
      <4>1. k \in 1 .. j /\ g[k] = f[k]
        BY <2>3, <3>2
      <4>2. QED
        BY <2>1, <3>1, <4>1
    <3>3. CASE ~(k <= j)
      <4>1. k = j + 1 /\ k - 1 = j /\ g[k] = x
        BY <2>3, <3>3
      <4>2. QED
        BY <2>2, <3>1, <4>1
    <3>4. QED
      BY <3>2, <3>3
  <2>6. QED
    BY <1>1, <2>4, <2>5
<1>4. num \in A
  <2>1. A \in SUBSET Nat
    BY <1>1
  <2>2. \A j \in 0 .. num - 1 : j \in A => j + 1 \in A
    BY <1>3
  <2>3. \A j \in 0 .. num : j \in A
    BY <1>2, <2>1, <2>2, Counting
  <2>4. QED
    BY <2>3
<1>5. PICK g : g[0] = m /\ \A k \in 1 .. num : g[k] = SkipOne(g[k - 1])
  BY <1>1, <1>4
<1>6. PICK h : h = [k \in 0 .. num |-> g[k]]
  OBVIOUS
<1>7. h[0] = m /\ \A k \in 1 .. num : h[k] = SkipOne(h[k - 1])
  <2>1. h[0] = g[0]
    BY <1>6
  <2>2. ASSUME NEW k \in 1 .. num PROVE h[k] = SkipOne(h[k - 1])
    <3>1. h[k] = g[k] /\ h[k - 1] = g[k - 1]
      BY <1>6
    <3>2. QED
      BY <1>5, <3>1
  <2>3. QED
    BY <1>5, <2>1, <2>2
<1>8. h = [k \in 0 .. num |-> Rule(h, k)]
  <2>1. ASSUME NEW k \in 0 .. num PROVE h[k] = Rule(h, k)
    <3>1. CASE k = 0
      BY <1>7, <3>1
    <3>2. CASE k # 0
      <4>1. k \in 1 .. num
        BY <3>2
      <4>2. QED
        BY <1>7, <3>2, <4>1
    <3>3. QED
      BY <3>1, <3>2
  <2> HIDE DEF Rule
  <2>2. QED
    BY <1>6, <2>1
<1>9. PICK f : f = (CHOOSE s : s = [k \in 0 .. num |-> Rule(s, k)])
  OBVIOUS
<1>10. f = [k \in 0 .. num |-> Rule(f, k)]
  BY <1>8, <1>9
<1>11. SkipMany(m, num) = f[num]
  BY <1>9 DEF SkipMany
<1>12. f[0] = m /\ \A k \in 1 .. num : f[k] = SkipOne(f[k - 1])
  <2>1. f[0] = Rule(f, 0)
    <3> HIDE DEF Rule
    <3>1. QED
      BY <1>10
  <2>2. ASSUME NEW k \in 1 .. num PROVE f[k] = SkipOne(f[k - 1])
    <3>1. f[k] = Rule(f, k)
      <4> HIDE DEF Rule
      <4>1. k \in 0 .. num
        OBVIOUS
      <4>2. QED
        BY <1>10, <4>1
    <3>2. QED
      BY <3>1
  <2>3. QED
    BY <2>1, <2>2
<1>13. QED
  BY <1>11, <1>12

LEMMA ManySkipped ==
  ASSUME CaseOK, NEW m, WindowInv(m), NEW num \in Nat, num <= Avail(m)
  PROVE  WindowInv(SkipMany(m, num)) /\ SkipMany(m, num).taken = m.taken + num
<1>1. PICK f : /\ f[0] = m /\ \A k \in 1 .. num : f[k] = SkipOne(f[k - 1])
               /\ SkipMany(m, num) = f[num]
  BY SkippedIs
<1>2. Avail(m) \in Nat /\ m.taken \in Nat
  BY AvailIs DEF WindowInv, WindowOK
<1>3. PICK A : A = {k \in Nat : WindowInv(f[k]) /\ Avail(f[k]) >= Avail(m) - k /\ f[k].taken = m.taken + k}
  OBVIOUS
<1>4. 0 \in A
  BY <1>1, <1>2, <1>3
<1>5. ASSUME NEW k \in 0 .. num - 1, k \in A PROVE k + 1 \in A
  <2>1. WindowInv(f[k]) /\ Avail(f[k]) >= Avail(m) - k /\ f[k].taken = m.taken + k
    BY <1>3, <1>5
  <2>2. f[k + 1] = SkipOne(f[k])
    <3>1. k + 1 \in 1 .. num /\ (k + 1) - 1 = k
      OBVIOUS
    <3>2. QED
      BY <1>1, <3>1
  <2>3. Avail(f[k]) \in Nat
    BY <2>1, AvailIs DEF WindowInv
  <2>4. Avail(f[k]) > 0
    BY <1>2, <2>1, <2>3
  <2>5. WindowInv(f[k + 1]) /\ Avail(f[k + 1]) >= Avail(f[k]) - 1 /\ f[k + 1].taken = f[k].taken + 1
    BY <2>1, <2>2, <2>4, OneSkipped
  <2>6. Avail(f[k + 1]) \in Nat
    BY <2>5, AvailIs DEF WindowInv
  <2>7. Avail(f[k + 1]) >= Avail(m) - (k + 1) /\ f[k + 1].taken = m.taken + (k + 1)
    BY <1>2, <2>1, <2>3, <2>5, <2>6
  <2>8. QED
    BY <1>3, <2>5, <2>7
<1>6. num \in A
  <2>1. A \in SUBSET Nat /\ \A k \in 0 .. num - 1 : k \in A => k + 1 \in A
    BY <1>3, <1>5
  <2>2. \A k \in 0 .. num : k \in A
    BY <1>4, <2>1, Counting
  <2>3. QED
    BY <2>2
<1>7. QED
  BY <1>1, <1>3, <1>6

-----------------------------------------------------------------------------
(* The window holds the text.                                                *)

Inv == CaseOK /\ WindowInv(mf)

LEMMA FreshIs ==
  ASSUME CaseOK
  PROVE  WindowInv(SetLimits(ReadBlock(Fresh))) /\ SamePlace(Fresh, SetLimits(ReadBlock(Fresh)))
<1>1. PICK m : m = Fresh
  OBVIOUS
<1>2. /\ DOMAIN m = Fields /\ m.buffer = 0 /\ m.pos = cyclicBufferSize /\ m.streamPos = cyclicBufferSize
      /\ m.cyc = 0 /\ m.end = FALSE /\ m.result = "ok" /\ m.rem = size /\ m.taken = 0
      /\ m.window = IF set.direct THEN [i \in 0 .. size - 1 |-> ByteAt(i)] ELSE [i \in 0 .. blockSize - 1 |-> Bytes]
  BY <1>1 DEF Fresh, Fields
<1>3. /\ cyclicBufferSize \in Nat /\ MaxPos \in Nat /\ cyclicBufferSize < MaxPos /\ cyclicBufferSize \in Nat \ {0}
      /\ keepSizeBefore \in Nat /\ keepSizeAfter \in Nat /\ blockSize \in Nat
      /\ blockSize > keepSizeBefore + keepSizeAfter /\ size \in Nat /\ given \in Nat
  BY SizesAre, CaseIs
<1>4. Avail(m) = 0
  <2>1. cyclicBufferSize \in 0 .. MaxPos
    BY <1>3
  <2>2. Back(cyclicBufferSize, cyclicBufferSize) = cyclicBufferSize - cyclicBufferSize
    BY <2>1, BackIs
  <2>3. QED
    BY <1>2, <1>3, <2>2 DEF Avail
<1>5. Placed(m)
  <2>1. CASE set.direct
    <3>1. m.window = [i \in 0 .. size - 1 |-> ByteAt(i)] /\ m.taken + Avail(m) + m.rem = size
      BY <1>2, <1>3, <1>4, <2>1
    <3>2. QED
      BY <1>2, <1>3, <2>1, <3>1 DEF Placed
  <2>2. CASE ~set.direct
    <3>1. m.window = [i \in 0 .. blockSize - 1 |-> Bytes]
      BY <1>2, <2>2
    <3>2. QED
      BY <1>2, <1>3, <1>4, <2>2, <3>1 DEF Placed
  <2>3. QED
    BY <2>1, <2>2
<1>6. Shows(m)
  <2>1. PICK k : k = Shorter(m.taken, keepSizeBefore)
    OBVIOUS
  <2>2. k = 0
    BY <1>2, <1>3, <2>1 DEF Shorter
  <2>3. \A i \in - k .. Avail(m) - 1 : FALSE
    BY <1>4, <2>2
  <2>4. QED
    BY <2>1, <2>3 DEF Shows
<1>7. WindowOK(m)
  <2>1. m.pos \in cyclicBufferSize .. MaxPos /\ m.streamPos \in 0 .. MaxPos
    BY <1>2, <1>3
  <2>2. m.buffer \in Nat /\ m.taken \in Nat /\ m.result \in {"ok", "fail"}
    BY <1>2
  <2>3. m.end \in BOOLEAN
    <3>1. m.end = FALSE
      BY <1>2
    <3>2. QED
      BY <3>1, Zenon
  <2>4. QED
    BY <1>2, <1>5, <1>6, <2>1, <2>2, <2>3 DEF WindowOK
<1>8. EndOK(m)
  BY <1>2 DEF EndOK
<1>9. PICK b : b = ReadBlock(m)
  OBVIOUS
<1>10. WindowOK(b) /\ SamePlace(m, b) /\ AheadOK(b) /\ EndOK(b)
  <2>1. m.buffer + keepSizeAfter < blockSize
    BY <1>2, <1>3
  <2>2. QED
    BY <1>7, <1>8, <1>9, <2>1, BlockRead
<1>11. b.pos < MaxPos /\ b.cyc \in 0 .. cyclicBufferSize - 1
  BY <1>2, <1>3, <1>10 DEF SamePlace
<1>12. PICK e : e = SetLimits(b)
  OBVIOUS
<1>13. WindowInv(e) /\ SamePlace(b, e) /\ Avail(e) = Avail(b)
  BY <1>10, <1>11, <1>12, LimitsSet
<1>14. SamePlace(m, e)
  BY <1>10, <1>13 DEF SamePlace
<1>15. QED
  BY <1>1, <1>9, <1>12, <1>13, <1>14

LEMMA InitInv ==
  ASSUME Init
  PROVE  Inv
<1>1. CaseOK
  BY DEF Init, CaseOK
<1>2. mf = SetLimits(ReadBlock(Fresh))
  BY DEF Init
<1>3. QED
  BY <1>1, <1>2, FreshIs DEF Inv

LEMMA NextInv ==
  ASSUME Inv, [Next]_vars
  PROVE  Inv'
<1>1. CaseOK /\ WindowInv(mf)
  BY DEF Inv
<1>2. SUFFICES ASSUME text' = text, set' = set, NEW e, e = mf', WindowInv(e)
               PROVE  Inv'
  <2>1. CASE Get
    <3>1. text' = text /\ set' = set /\ mf' = GetMatches(mf).mf /\ Avail(mf) > 0
      BY <2>1 DEF Get
    <3>2. WindowInv(GetMatches(mf).mf)
      BY <1>1, <3>1, OneGot
    <3>3. QED
      BY <1>2, <3>1, <3>2
  <2>2. CASE Skip
    <3>1. PICK num \in 1 .. MaxSkip : text' = text /\ set' = set /\ mf' = SkipMany(mf, num) /\ num <= Avail(mf)
      BY <2>2 DEF Skip
    <3>2. num \in Nat
      OBVIOUS
    <3>3. WindowInv(SkipMany(mf, num))
      BY <1>1, <3>1, <3>2, ManySkipped
    <3>4. QED
      BY <1>2, <3>1, <3>3
  <2>3. CASE UNCHANGED vars
    BY <1>1, <1>2, <2>3 DEF vars
  <2>4. QED
    BY <2>1, <2>2, <2>3 DEF Next
<1>3. CaseOK'
  BY <1>1, <1>2 DEF CaseOK
<1>4. (WindowInv(mf))' <=> WindowInv(e)
  BY <1>2 DEF WindowInv, WindowOK, AheadOK, EndOK, LimitsOK, Placed, Shows, Avail, Back, Cur, ByteAt, given, size
<1>5. QED
  BY <1>2, <1>3, <1>4 DEF Inv

\* The match finder's window and limits, in every state.
THEOREM InvHolds == Spec => []Inv
<1>1. Init => Inv
  BY InitInv
<1>2. Inv /\ [Next]_vars => Inv'
  BY NextInv
<1>3. QED
  BY <1>1, <1>2, PTL DEF Spec

\* The window holds the text (ReadBlock, MoveBlock and Normalize of LzFind.c): what is
\* kept behind the position and all that was read ahead of it.
THEOREM WindowRight == Spec => []WindowHolds
<1>1. ASSUME Inv PROVE WindowHolds
  <2>1. CaseOK /\ WindowOK(mf)
    BY <1>1 DEF Inv, WindowInv
  <2>2. PICK k : k = Shorter(mf.taken, keepSizeBefore)
    OBVIOUS
  <2>3. /\ mf.taken \in Nat /\ mf.buffer \in Nat /\ keepSizeBefore \in Nat /\ Avail(mf) \in Nat
        /\ size \in Nat /\ given \in Nat /\ blockSize \in Nat
    BY <2>1, AvailIs, SizesAre, CaseIs, SMTT(60) DEF WindowOK
  <2>4. k \in Nat /\ k <= mf.taken /\ k <= keepSizeBefore
    BY <2>2, <2>3, ShorterOf
  <2>5. ASSUME NEW i \in - k .. Avail(mf) - 1
        PROVE  mf.buffer + i \in DOMAIN mf.window /\ Cur(mf, i) = ByteAt(mf.taken + i)
    <3>1. Cur(mf, i) = ByteAt(mf.taken + i)
      BY <2>1, <2>2 DEF WindowOK, Shows
    <3>2. CASE set.direct
      <4>1. /\ mf.buffer = mf.taken /\ mf.rem \in Nat /\ mf.taken + Avail(mf) + mf.rem = size
            /\ DOMAIN mf.window = 0 .. size - 1
        BY <2>1, <3>2 DEF WindowOK, Placed
      <4>2. mf.buffer + i \in 0 .. size - 1
        BY <2>3, <2>4, <4>1
      <4>3. QED
        BY <3>1, <4>1, <4>2
    <3>3. CASE ~set.direct
      <4>1. /\ mf.buffer <= mf.taken /\ (mf.buffer = mf.taken \/ mf.buffer >= keepSizeBefore)
            /\ mf.buffer + Avail(mf) <= blockSize /\ DOMAIN mf.window = 0 .. blockSize - 1
        BY <2>1, <3>3 DEF WindowOK, Placed
      <4>2. mf.buffer + i \in 0 .. blockSize - 1
        BY <2>3, <2>4, <4>1
      <4>3. QED
        BY <3>1, <4>1, <4>2
    <3>4. QED
      BY <3>2, <3>3
  <2>6. QED
    BY <2>2, <2>5 DEF WindowHolds
<1>2. QED
  BY <1>1, InvHolds, PTL

-----------------------------------------------------------------------------
(* A skip walks through the tree as a search does.                           *)

WalkFields == {"cur", "ptr0", "ptr1", "len0", "len1", "son", "maxLen", "found", "done"}

WalkStart(m, curMatch, maxLen) ==
  [cur |-> curMatch, ptr0 |-> 2 * m.cyc + 1, ptr1 |-> 2 * m.cyc, len0 |-> 0, len1 |-> 0,
   son |-> m.son, maxLen |-> maxLen, found |-> <<>>, done |-> FALSE]

TreeStep(m, w, get) == IF w.done THEN w ELSE TreeTurn(m, w, get)

LEMMA TreeWalkIs ==
  ASSUME NEW m, NEW curMatch, NEW maxLen, NEW get \in BOOLEAN, set.cut \in Nat
  PROVE  \E f : /\ f[0] = WalkStart(m, curMatch, maxLen)
                /\ \A k \in 1 .. set.cut : f[k] = TreeStep(m, f[k - 1], get)
                /\ TreeWalk(m, curMatch, maxLen, get) = TreeEnded(f[set.cut])
<1>0. PICK cut \in Nat : cut = set.cut
  OBVIOUS
<1>1. PICK w0 : w0 = WalkStart(m, curMatch, maxLen)
  OBVIOUS
<1> DEFINE Rule(f, k) == IF k = 0 THEN w0 ELSE TreeStep(m, f[k - 1], get)
<1>2. PICK A : A = {j \in Nat : \E f : f[0] = w0 /\ \A k \in 1 .. j : f[k] = TreeStep(m, f[k - 1], get)}
  OBVIOUS
<1>3. 0 \in A
  <2>1. PICK f : f = [k \in {0} |-> w0]
    OBVIOUS
  <2>2. QED
    BY <1>2, <2>1
<1>4. ASSUME NEW j \in 0 .. cut - 1, j \in A PROVE j + 1 \in A
  <2>1. PICK f : f[0] = w0 /\ \A k \in 1 .. j : f[k] = TreeStep(m, f[k - 1], get)
    BY <1>2, <1>4
  <2>2. PICK x : x = TreeStep(m, f[j], get)
    OBVIOUS
  <2>3. PICK g : g = [k \in 0 .. j + 1 |-> IF k <= j THEN f[k] ELSE x]
    OBVIOUS
  <2>4. g[0] = w0
    BY <2>1, <2>3
  <2>5. ASSUME NEW k \in 1 .. j + 1 PROVE g[k] = TreeStep(m, g[k - 1], get)
    <3>1. g[k - 1] = f[k - 1]
      BY <2>3
    <3>2. CASE k <= j
      <4>1. k \in 1 .. j /\ g[k] = f[k]
        BY <2>3, <3>2
      <4>2. QED
        BY <2>1, <3>1, <4>1
    <3>3. CASE ~(k <= j)
      <4>1. k = j + 1 /\ k - 1 = j /\ g[k] = x
        BY <2>3, <3>3
      <4>2. QED
        BY <2>2, <3>1, <4>1
    <3>4. QED
      BY <3>2, <3>3
  <2>6. QED
    BY <1>2, <2>4, <2>5
<1>5. cut \in A
  <2>1. A \in SUBSET Nat
    BY <1>2
  <2>2. \A j \in 0 .. cut - 1 : j \in A => j + 1 \in A
    BY <1>4
  <2>3. \A j \in 0 .. cut : j \in A
    BY <1>3, <2>1, <2>2, Counting
  <2>4. QED
    BY <2>3
<1>6. PICK g : g[0] = w0 /\ \A k \in 1 .. cut : g[k] = TreeStep(m, g[k - 1], get)
  BY <1>2, <1>5
<1>7. PICK h : h = [k \in 0 .. cut |-> g[k]]
  OBVIOUS
<1>8. h[0] = w0 /\ \A k \in 1 .. cut : h[k] = TreeStep(m, h[k - 1], get)
  <2>1. h[0] = g[0]
    BY <1>7
  <2>2. ASSUME NEW k \in 1 .. cut PROVE h[k] = TreeStep(m, h[k - 1], get)
    <3>1. h[k] = g[k] /\ h[k - 1] = g[k - 1]
      BY <1>7
    <3>2. QED
      BY <1>6, <3>1
  <2>3. QED
    BY <1>6, <2>1, <2>2
<1>9. h = [k \in 0 .. cut |-> Rule(h, k)]
  <2>1. ASSUME NEW k \in 0 .. cut PROVE h[k] = Rule(h, k)
    <3>1. CASE k = 0
      BY <1>8, <3>1
    <3>2. CASE k # 0
      <4>1. k \in 1 .. cut
        BY <3>2
      <4>2. QED
        BY <1>8, <3>2, <4>1
    <3>3. QED
      BY <3>1, <3>2
  <2> HIDE DEF Rule
  <2>2. QED
    BY <1>7, <2>1
<1>10. PICK f : f = (CHOOSE s : s = [k \in 0 .. cut |-> Rule(s, k)])
  OBVIOUS
<1>11. f = [k \in 0 .. cut |-> Rule(f, k)]
  BY <1>9, <1>10
<1>12. TreeWalk(m, curMatch, maxLen, get) = TreeEnded(f[cut])
  BY <1>0, <1>1, <1>10 DEF TreeWalk, WalkStart, TreeStep
<1>13. f[0] = w0 /\ \A k \in 1 .. cut : f[k] = TreeStep(m, f[k - 1], get)
  <2>1. f[0] = Rule(f, 0)
    <3> HIDE DEF Rule
    <3>1. QED
      BY <1>11
  <2>2. ASSUME NEW k \in 1 .. cut PROVE f[k] = TreeStep(m, f[k - 1], get)
    <3>1. f[k] = Rule(f, k)
      <4> HIDE DEF Rule
      <4>1. k \in 0 .. cut
        OBVIOUS
      <4>2. QED
        BY <1>11, <4>1
    <3>2. QED
      BY <3>1
  <2>3. QED
    BY <2>1, <2>2
<1>14. QED
  BY <1>0, <1>1, <1>12, <1>13

\* MatchLen never says more than the limit, nor less than is known.
LEMMA MatchLenIs ==
  ASSUME NEW m, m.lenLimit \in Nat, NEW delta, NEW n \in 0 .. m.lenLimit
  PROVE  MatchLen(m, delta, n) \in n .. m.lenLimit
<1>1. PICK S : S = {k \in n .. m.lenLimit : k = m.lenLimit \/ Cur(m, k - delta) # Cur(m, k)}
  OBVIOUS
<1>2. S \in SUBSET Nat /\ m.lenLimit \in S
  BY <1>1
<1>3. Min(S) \in S
  BY <1>2, MinOf
<1>4. QED
  BY <1>1, <1>3 DEF MatchLen

\* What a walk of a search and one of a skip have in common.
Alike(m, g, s) ==
  /\ DOMAIN g = WalkFields /\ DOMAIN s = WalkFields
  /\ g.cur = s.cur /\ g.ptr0 = s.ptr0 /\ g.ptr1 = s.ptr1 /\ g.son = s.son
  /\ g.len0 = s.len0 /\ g.len1 = s.len1 /\ g.len0 \in 0 .. m.lenLimit /\ g.len1 \in 0 .. m.lenLimit
  /\ \/ g.done = TRUE /\ s.done = TRUE
     \/ g.done = FALSE /\ s.done = FALSE /\ g.maxLen \in Nat /\ g.maxLen < m.lenLimit

LEMMA AlikeTurn ==
  ASSUME NEW m, m.lenLimit \in Nat, NEW g, NEW s, Alike(m, g, s), g.done = FALSE
  PROVE  Alike(m, TreeTurn(m, g, TRUE), TreeTurn(m, s, FALSE))
<1>1. PICK delta, pair, len : /\ delta = m.pos - g.cur /\ pair = 2 * Node(m, delta)
                              /\ len = MatchLen(m, delta, Shorter(g.len0, g.len1))
  OBVIOUS
<1>2. /\ delta = m.pos - s.cur /\ len = MatchLen(m, delta, Shorter(s.len0, s.len1))
      /\ g.maxLen \in Nat /\ g.maxLen < m.lenLimit /\ s.done = FALSE
  BY <1>1 DEF Alike
<1>3. len \in 0 .. m.lenLimit
  <2>1. Shorter(g.len0, g.len1) \in 0 .. m.lenLimit
    BY DEF Alike, Shorter
  <2>2. PICK n \in 0 .. m.lenLimit : n = Shorter(g.len0, g.len1)
    BY <2>1
  <2>3. len \in n .. m.lenLimit
    BY <1>1, <2>2, MatchLenIs
  <2>4. QED
    BY <2>3
<1>4. PICK found : found = IF g.maxLen < len THEN Append(g.found, Found(len, delta)) ELSE g.found
  OBVIOUS
<1>5. PICK longest : longest = IF g.maxLen < len THEN len ELSE g.maxLen
  OBVIOUS
<1> DEFINE Cut(w)    == [w EXCEPT !.done = TRUE, !.son[w.ptr0] = Empty, !.son[w.ptr1] = Empty]
           Whole(w, f) == [w EXCEPT !.done = TRUE, !.found = f,
                          !.son[w.ptr1] = w.son[pair], !.son[w.ptr0] = w.son[pair + 1]]
           Less(w, f, l) == [w EXCEPT !.found = f, !.maxLen = l, !.len1 = len,
                       !.son[w.ptr1] = w.cur, !.ptr1 = pair + 1, !.cur = w.son[pair + 1]]
           More(w, f, l) == [w EXCEPT !.found = f, !.maxLen = l, !.len0 = len,
                       !.son[w.ptr0] = w.cur, !.ptr0 = pair, !.cur = w.son[pair]]
<1>6. TreeTurn(m, g, TRUE) =
        IF delta >= cyclicBufferSize THEN Cut(g)
        ELSE IF len = m.lenLimit THEN Whole(g, found)
        ELSE IF Cur(m, len - delta) < Cur(m, len) THEN Less(g, found, longest)
        ELSE More(g, found, longest)
  <2>1. len = m.lenLimit => g.maxLen < len
    BY <1>2
  <2>2. QED
    BY <1>1, <1>4, <1>5, <2>1, ZenonT(60) DEF TreeTurn
<1>7. TreeTurn(m, s, FALSE) =
        IF delta >= cyclicBufferSize THEN Cut(s)
        ELSE IF len = m.lenLimit THEN Whole(s, s.found)
        ELSE IF Cur(m, len - delta) < Cur(m, len) THEN Less(s, s.found, s.maxLen)
        ELSE More(s, s.found, s.maxLen)
  BY <1>1, <1>2 DEF TreeTurn
<1>8. len # m.lenLimit => longest \in Nat /\ longest < m.lenLimit
  BY <1>2, <1>3, <1>5
<1>9. DOMAIN g = WalkFields /\ DOMAIN s = WalkFields
      /\ g.cur = s.cur /\ g.ptr0 = s.ptr0 /\ g.ptr1 = s.ptr1 /\ g.son = s.son
      /\ g.len0 = s.len0 /\ g.len1 = s.len1 /\ g.len0 \in 0 .. m.lenLimit /\ g.len1 \in 0 .. m.lenLimit
  BY DEF Alike
<1>10. Alike(m, Cut(g), Cut(s))
  BY <1>9 DEF Alike, WalkFields
<1>11. Alike(m, Whole(g, found), Whole(s, s.found))
  BY <1>9 DEF Alike, WalkFields
<1>12. len # m.lenLimit => Alike(m, Less(g, found, longest), Less(s, s.found, s.maxLen))
  BY <1>2, <1>3, <1>8, <1>9 DEF Alike, WalkFields
<1>13. len # m.lenLimit => Alike(m, More(g, found, longest), More(s, s.found, s.maxLen))
  BY <1>2, <1>3, <1>8, <1>9 DEF Alike, WalkFields
<1> HIDE DEF Cut, Whole, Less, More
<1>14. QED
  BY <1>6, <1>7, <1>10, <1>11, <1>12, <1>13

LEMMA WalksAlike ==
  ASSUME NEW m, m.lenLimit \in Nat, set.cut \in Nat, NEW curMatch, NEW maxLen \in Nat, maxLen < m.lenLimit
  PROVE  TreeWalk(m, curMatch, maxLen, TRUE).son = TreeWalk(m, curMatch, 0, FALSE).son
<1>0. PICK get \in BOOLEAN, skip \in BOOLEAN : get = TRUE /\ skip = FALSE
  OBVIOUS
<1>1. PICK g : /\ g[0] = WalkStart(m, curMatch, maxLen)
               /\ \A k \in 1 .. set.cut : g[k] = TreeStep(m, g[k - 1], get)
               /\ TreeWalk(m, curMatch, maxLen, get) = TreeEnded(g[set.cut])
  BY TreeWalkIs
<1>2. PICK s : /\ s[0] = WalkStart(m, curMatch, 0)
               /\ \A k \in 1 .. set.cut : s[k] = TreeStep(m, s[k - 1], skip)
               /\ TreeWalk(m, curMatch, 0, skip) = TreeEnded(s[set.cut])
  BY TreeWalkIs
<1>3. PICK A : A = {k \in Nat : Alike(m, g[k], s[k])}
  OBVIOUS
<1>4. 0 \in A
  <2>1. Alike(m, WalkStart(m, curMatch, maxLen), WalkStart(m, curMatch, 0))
    BY DEF Alike, WalkStart, WalkFields
  <2>2. QED
    BY <1>1, <1>2, <1>3, <2>1
<1>5. ASSUME NEW k \in 0 .. set.cut - 1, k \in A PROVE k + 1 \in A
  <2>1. PICK a, b : a = g[k] /\ b = s[k]
    OBVIOUS
  <2>2. Alike(m, a, b)
    BY <1>3, <1>5, <2>1
  <2>3. g[k + 1] = TreeStep(m, a, get) /\ s[k + 1] = TreeStep(m, b, skip)
    <3>1. k + 1 \in 1 .. set.cut /\ (k + 1) - 1 = k
      OBVIOUS
    <3>2. QED
      BY <1>1, <1>2, <2>1, <3>1
  <2>4. Alike(m, g[k + 1], s[k + 1])
    <3>1. CASE a.done = TRUE
      <4>1. b.done = TRUE
        BY <2>2, <3>1 DEF Alike
      <4>2. QED
        BY <2>2, <2>3, <3>1, <4>1 DEF TreeStep
    <3>2. CASE a.done = FALSE
      <4>1. b.done = FALSE
        BY <2>2, <3>2 DEF Alike
      <4>2. Alike(m, TreeTurn(m, a, TRUE), TreeTurn(m, b, FALSE))
        BY <2>2, <3>2, AlikeTurn
      <4>3. QED
        BY <1>0, <2>3, <3>2, <4>1, <4>2 DEF TreeStep
    <3>3. QED
      BY <2>2, <3>1, <3>2 DEF Alike
  <2>5. QED
    BY <1>3, <2>4
<1>6. Alike(m, g[set.cut], s[set.cut])
  <2>1. A \in SUBSET Nat /\ \A k \in 0 .. set.cut - 1 : k \in A => k + 1 \in A
    BY <1>3, <1>5
  <2>2. PICK cut \in Nat : cut = set.cut
    OBVIOUS
  <2>3. \A k \in 0 .. cut : k \in A
    BY <1>4, <2>1, <2>2, Counting
  <2>4. QED
    BY <1>3, <2>2, <2>3
<1>7. ASSUME NEW a, NEW b, Alike(m, a, b) PROVE TreeEnded(a).son = TreeEnded(b).son
  <2>1. DOMAIN a = WalkFields /\ DOMAIN b = WalkFields /\ a.son = b.son /\ a.ptr0 = b.ptr0 /\ a.ptr1 = b.ptr1
    BY <1>7 DEF Alike
  <2>2. CASE a.done = TRUE
    <3>1. b.done = TRUE
      BY <1>7, <2>2 DEF Alike
    <3>2. QED
      BY <2>1, <2>2, <3>1 DEF TreeEnded
  <2>3. CASE a.done = FALSE
    <3>1. b.done = FALSE
      BY <1>7, <2>3 DEF Alike
    <3>2. QED
      BY <2>1, <2>3, <3>1 DEF TreeEnded, WalkFields
  <2>4. QED
    BY <1>7, <2>2, <2>3 DEF Alike
<1>8. TreeEnded(g[set.cut]).son = TreeEnded(s[set.cut]).son
  BY <1>6, <1>7
<1>9. QED
  BY <1>0, <1>1, <1>2, <1>8

\* A search through a chain changes nothing but the place of the position.
ChainStart(m, curMatch, maxLen) ==
  [cur |-> curMatch, son |-> [m.son EXCEPT ![m.cyc] = curMatch],
   maxLen |-> maxLen, found |-> <<>>, done |-> FALSE]

ChainStep(m, w) == IF w.done THEN w ELSE ChainTurn(m, w)

LEMMA ChainWalkIs ==
  ASSUME NEW m, NEW curMatch, NEW maxLen, set.cut \in Nat
  PROVE  \E f : /\ f[0] = ChainStart(m, curMatch, maxLen)
                /\ \A k \in 1 .. set.cut : f[k] = ChainStep(m, f[k - 1])
                /\ ChainWalk(m, curMatch, maxLen) = f[set.cut]
<1>0. PICK cut \in Nat : cut = set.cut
  OBVIOUS
<1>1. PICK w0 : w0 = ChainStart(m, curMatch, maxLen)
  OBVIOUS
<1> DEFINE Rule(f, k) == IF k = 0 THEN w0 ELSE ChainStep(m, f[k - 1])
<1>2. PICK A : A = {j \in Nat : \E f : f[0] = w0 /\ \A k \in 1 .. j : f[k] = ChainStep(m, f[k - 1])}
  OBVIOUS
<1>3. 0 \in A
  <2>1. PICK f : f = [k \in {0} |-> w0]
    OBVIOUS
  <2>2. QED
    BY <1>2, <2>1
<1>4. ASSUME NEW j \in 0 .. cut - 1, j \in A PROVE j + 1 \in A
  <2>1. PICK f : f[0] = w0 /\ \A k \in 1 .. j : f[k] = ChainStep(m, f[k - 1])
    BY <1>2, <1>4
  <2>2. PICK x : x = ChainStep(m, f[j])
    OBVIOUS
  <2>3. PICK g : g = [k \in 0 .. j + 1 |-> IF k <= j THEN f[k] ELSE x]
    OBVIOUS
  <2>4. g[0] = w0
    BY <2>1, <2>3
  <2>5. ASSUME NEW k \in 1 .. j + 1 PROVE g[k] = ChainStep(m, g[k - 1])
    <3>1. g[k - 1] = f[k - 1]
      BY <2>3
    <3>2. CASE k <= j
      <4>1. k \in 1 .. j /\ g[k] = f[k]
        BY <2>3, <3>2
      <4>2. QED
        BY <2>1, <3>1, <4>1
    <3>3. CASE ~(k <= j)
      <4>1. k = j + 1 /\ k - 1 = j /\ g[k] = x
        BY <2>3, <3>3
      <4>2. QED
        BY <2>2, <3>1, <4>1
    <3>4. QED
      BY <3>2, <3>3
  <2>6. QED
    BY <1>2, <2>4, <2>5
<1>5. cut \in A
  <2>1. A \in SUBSET Nat
    BY <1>2
  <2>2. \A j \in 0 .. cut - 1 : j \in A => j + 1 \in A
    BY <1>4
  <2>3. \A j \in 0 .. cut : j \in A
    BY <1>3, <2>1, <2>2, Counting
  <2>4. QED
    BY <2>3
<1>6. PICK g : g[0] = w0 /\ \A k \in 1 .. cut : g[k] = ChainStep(m, g[k - 1])
  BY <1>2, <1>5
<1>7. PICK h : h = [k \in 0 .. cut |-> g[k]]
  OBVIOUS
<1>8. h[0] = w0 /\ \A k \in 1 .. cut : h[k] = ChainStep(m, h[k - 1])
  <2>1. h[0] = g[0]
    BY <1>7
  <2>2. ASSUME NEW k \in 1 .. cut PROVE h[k] = ChainStep(m, h[k - 1])
    <3>1. h[k] = g[k] /\ h[k - 1] = g[k - 1]
      BY <1>7
    <3>2. QED
      BY <1>6, <3>1
  <2>3. QED
    BY <1>6, <2>1, <2>2
<1>9. h = [k \in 0 .. cut |-> Rule(h, k)]
  <2>1. ASSUME NEW k \in 0 .. cut PROVE h[k] = Rule(h, k)
    <3>1. CASE k = 0
      BY <1>8, <3>1
    <3>2. CASE k # 0
      <4>1. k \in 1 .. cut
        BY <3>2
      <4>2. QED
        BY <1>8, <3>2, <4>1
    <3>3. QED
      BY <3>1, <3>2
  <2> HIDE DEF Rule
  <2>2. QED
    BY <1>7, <2>1
<1>10. PICK f : f = (CHOOSE s : s = [k \in 0 .. cut |-> Rule(s, k)])
  OBVIOUS
<1>11. f = [k \in 0 .. cut |-> Rule(f, k)]
  BY <1>9, <1>10
<1>12. ChainWalk(m, curMatch, maxLen) = f[cut]
  BY <1>0, <1>1, <1>10 DEF ChainWalk, ChainStart, ChainStep
<1>13. f[0] = w0 /\ \A k \in 1 .. cut : f[k] = ChainStep(m, f[k - 1])
  <2>1. f[0] = Rule(f, 0)
    <3> HIDE DEF Rule
    <3>1. QED
      BY <1>11
  <2>2. ASSUME NEW k \in 1 .. cut PROVE f[k] = ChainStep(m, f[k - 1])
    <3>1. f[k] = Rule(f, k)
      <4> HIDE DEF Rule
      <4>1. k \in 0 .. cut
        OBVIOUS
      <4>2. QED
        BY <1>11, <4>1
    <3>2. QED
      BY <3>1
  <2>3. QED
    BY <2>1, <2>2
<1>14. QED
  BY <1>0, <1>1, <1>12, <1>13

LEMMA ChainSon ==
  ASSUME NEW m, set.cut \in Nat, NEW curMatch, NEW maxLen
  PROVE  ChainWalk(m, curMatch, maxLen).son = [m.son EXCEPT ![m.cyc] = curMatch]
<1>1. PICK f : /\ f[0] = ChainStart(m, curMatch, maxLen)
               /\ \A k \in 1 .. set.cut : f[k] = ChainStep(m, f[k - 1])
               /\ ChainWalk(m, curMatch, maxLen) = f[set.cut]
  BY ChainWalkIs
<1>2. PICK son : son = [m.son EXCEPT ![m.cyc] = curMatch]
  OBVIOUS
<1> DEFINE Links(w) == DOMAIN w = {"cur", "son", "maxLen", "found", "done"} /\ w.son = son
<1>3. PICK A : A = {k \in Nat : Links(f[k])}
  OBVIOUS
<1>4. 0 \in A
  <2>1. Links(ChainStart(m, curMatch, maxLen))
    BY <1>2 DEF ChainStart
  <2> HIDE DEF Links
  <2>2. QED
    BY <1>1, <1>3, <2>1
<1>5. ASSUME NEW w, Links(w) PROVE Links(ChainStep(m, w))
  <2>1. ASSUME NEW cur, NEW l, NEW fs, NEW d
        PROVE  /\ Links([w EXCEPT !.cur = cur]) /\ Links([w EXCEPT !.done = TRUE])
               /\ Links([[w EXCEPT !.cur = cur] EXCEPT !.maxLen = l, !.found = fs, !.done = d])
    BY <1>5
  <2>2. CASE w.done
    BY <1>5, <2>2 DEF ChainStep
  <2>3. CASE ~w.done
    <3> HIDE DEF Links
    <3>1. ChainStep(m, w) = ChainTurn(m, w)
      BY <2>3 DEF ChainStep
    <3>2. PICK delta, cur, len : /\ delta = m.pos - w.cur /\ cur = w.son[Node(m, delta)]
                                 /\ len = MatchLen(m, delta, 1)
      OBVIOUS
    <3>3. PICK fs, d : fs = Append([w EXCEPT !.cur = cur].found, Found(len, delta)) /\ d = (len = m.lenLimit)
      OBVIOUS
    <3>4. PICK next, more : /\ next = [w EXCEPT !.cur = cur]
                            /\ more = [[w EXCEPT !.cur = cur] EXCEPT !.maxLen = len, !.found = fs, !.done = d]
      OBVIOUS
    <3>5. Links(next) /\ Links(more) /\ Links([w EXCEPT !.done = TRUE])
      BY <2>1, <3>4
    <3>6. ChainTurn(m, w) \in {[w EXCEPT !.done = TRUE], more, next}
      BY <3>2, <3>3, <3>4 DEF ChainTurn
    <3>7. QED
      BY <3>1, <3>5, <3>6
  <2>4. QED
    BY <2>2, <2>3
<1>6. ASSUME NEW k \in 0 .. set.cut - 1, k \in A PROVE k + 1 \in A
  <2> HIDE DEF Links
  <2>1. f[k + 1] = ChainStep(m, f[k])
    <3>1. k + 1 \in 1 .. set.cut /\ (k + 1) - 1 = k
      OBVIOUS
    <3>2. QED
      BY <1>1, <3>1
  <2>2. QED
    BY <1>3, <1>5, <1>6, <2>1
<1>7. Links(f[set.cut])
  <2> HIDE DEF Links
  <2>1. A \in SUBSET Nat /\ \A k \in 0 .. set.cut - 1 : k \in A => k + 1 \in A
    BY <1>3, <1>6
  <2>2. PICK cut \in Nat : cut = set.cut
    OBVIOUS
  <2>3. \A k \in 0 .. cut : k \in A
    BY <1>4, <2>1, <2>2, Counting
  <2>4. QED
    BY <1>3, <2>2, <2>3
<1>8. QED
  BY <1>1, <1>2, <1>7

\* The longest match the tables give is no longer than the limit.
LEMMA TablesGive ==
  ASSUME NEW m, m.lenLimit \in Nat, MinLen <= m.lenLimit, FromTables(m) # <<>>
  PROVE  Last(FromTables(m)).len \in 0 .. m.lenLimit
<1>1. PICK d2, d3, two, three, both :
        /\ d2 = m.pos - m.h2[Hash2(m)] /\ d3 = m.pos - m.h3[Hash3(m)]
        /\ two = (IF MinLen > 2 /\ Usable(m, d2) THEN <<Found(2, d2)>> ELSE <<>>)
        /\ three = (IF MinLen > 3 /\ d2 # d3 /\ Usable(m, d3) THEN <<Found(3, d3)>> ELSE <<>>)
        /\ both = two \o three
  OBVIOUS
<1>2. PICK last : last = both[Len(both)]
  OBVIOUS
<1>3. FromTables(m) = IF both = <<>> THEN <<>>
                      ELSE [both EXCEPT ![Len(both)].len = MatchLen(m, last.dist + 1, last.len)]
  BY <1>1, <1>2, ZenonT(60) DEF FromTables
<1>4. MinLen \in {2, 3, 4}
  BY DEF MinLen
<1>5. /\ both # <<>> /\ Len(both) \in 1 .. 2 /\ DOMAIN both = 1 .. Len(both)
      /\ DOMAIN last = {"len", "dist"} /\ last.len \in 0 .. m.lenLimit
  <2>1. both # <<>>
    BY <1>3
  <2>2. CASE two = <<>>
    <3>1. three = <<Found(3, d3)>> /\ MinLen > 3 /\ both = three
      BY <1>1, <2>1, <2>2, SMTT(60)
    <3>2. last = Found(3, d3) /\ Len(both) = 1
      BY <1>2, <3>1
    <3>3. QED
      BY <1>4, <2>1, <3>1, <3>2 DEF Found
  <2>3. CASE two # <<>>
    <3>1. two = <<Found(2, d2)>> /\ MinLen > 2
      BY <1>1, <2>3
    <3>2. CASE three = <<>>
      <4>1. both = two
        BY <1>1, <3>1, <3>2
      <4>2. last = Found(2, d2) /\ Len(both) = 1
        BY <1>2, <3>1, <4>1
      <4>3. QED
        BY <1>4, <2>1, <3>1, <4>1, <4>2 DEF Found
    <3>3. CASE three # <<>>
      <4>1. three = <<Found(3, d3)>> /\ MinLen > 3
        BY <1>1, <3>3
      <4>2. PICK a, b : a = Found(2, d2) /\ b = Found(3, d3)
        OBVIOUS
      <4>3. both = <<a>> \o <<b>>
        BY <1>1, <3>1, <4>1, <4>2
      <4>4. Len(both) = 2 /\ both[2] = b /\ DOMAIN both = 1 .. 2
        BY <4>3
      <4>5. last = Found(3, d3)
        BY <1>2, <4>2, <4>4
      <4>6. QED
        BY <1>4, <2>1, <4>1, <4>4, <4>5 DEF Found
    <3>4. QED
      BY <3>2, <3>3
  <2>4. QED
    BY <2>2, <2>3
<1>6. PICK len : len = MatchLen(m, last.dist + 1, last.len)
  OBVIOUS
<1>7. len \in 0 .. m.lenLimit
  <2>1. PICK n \in 0 .. m.lenLimit : n = last.len
    BY <1>5
  <2>2. len \in n .. m.lenLimit
    BY <1>6, <2>1, MatchLenIs
  <2>3. QED
    BY <2>2
<1>8. PICK f : f = FromTables(m)
  OBVIOUS
<1>9. f = [both EXCEPT ![Len(both)].len = len]
  BY <1>3, <1>5, <1>6, <1>8
<1>10. f[Len(both)].len = len /\ DOMAIN f = 1 .. Len(both)
  <2>1. f[Len(both)] = [last EXCEPT !.len = len] /\ DOMAIN f = 1 .. Len(both)
    BY <1>2, <1>5, <1>9
  <2>2. QED
    BY <1>5, <2>1
<1>11. Len(f) = Len(both)
  <2>1. f \in [1 .. Len(both) -> {f[i] : i \in 1 .. Len(both)}]
    BY <1>9, <1>10
  <2>2. QED
    BY <1>5, <1>10, <2>1
<1>12. QED
  BY <1>7, <1>8, <1>10, <1>11 DEF Last

LEMMA SameLinks ==
  ASSUME CaseOK, NEW m, WindowInv(m), m.lenLimit >= MinLen
  PROVE  Linked(m, Entered(m)) = Walked(m, FromTables(m)).mf
<1>1. PICK e, cur, tables : e = Entered(m) /\ cur = m.hv[HashV(m)] /\ tables = FromTables(m)
  OBVIOUS
<1>2. PICK maxLen : maxLen = IF tables = <<>> \/ Last(tables).len < MinLen - 1 THEN MinLen - 1 ELSE Last(tables).len
  OBVIOUS
<1>3. set.cut \in Nat /\ m.lenLimit \in Nat /\ MinLen \in {2, 3, 4} /\ DOMAIN m = Fields
  <2>1. Avail(m) \in Nat /\ m.lenLimit = Shorter(Avail(m), MatchMaxLen)
    BY AvailIs DEF WindowInv, LimitsOK
  <2>2. m.lenLimit \in Nat
    BY <2>1, SizesAre, ShorterOf
  <2>3. set.cut \in Nat /\ DOMAIN m = Fields
    BY CaseIs DEF WindowInv, WindowOK
  <2>4. QED
    BY <2>2, <2>3 DEF MinLen
<1>4. TablesOnly(m, e)
  BY <1>1, <1>3, EnteredIs
<1>5. DOMAIN e = Fields /\ e.lenLimit = m.lenLimit /\ e.cyc = m.cyc
  BY <1>4 DEF TablesOnly
<1>6. maxLen \in 0 .. m.lenLimit
  <2>1. tables # <<>> => Last(tables).len \in 0 .. m.lenLimit
    BY <1>1, <1>3, TablesGive
  <2>2. QED
    BY <1>2, <1>3, <2>1
<1>7. CASE maxLen = m.lenLimit
  BY <1>1, <1>2, <1>7 DEF Walked
<1>8. CASE maxLen # m.lenLimit
  <2>1. PICK walk, link :
          /\ walk = IF set.mode = "hc4" THEN ChainWalk(e, cur, maxLen).son ELSE TreeWalk(e, cur, maxLen, TRUE).son
          /\ link = IF set.mode = "hc4" THEN [e.son EXCEPT ![m.cyc] = cur] ELSE TreeWalk(e, cur, 0, FALSE).son
    OBVIOUS
  <2>2. Walked(m, tables).mf = [e EXCEPT !.son = walk]
    BY <1>1, <1>2, <1>8, <2>1 DEF Walked
  <2>3. Linked(m, e) = [e EXCEPT !.son = link]
    BY <1>1, <1>5, <2>1 DEF Linked, Fields
  <2>4. walk = link
    <3>1. CASE set.mode = "hc4"
      <4>1. ChainWalk(e, cur, maxLen).son = [e.son EXCEPT ![e.cyc] = cur]
        BY <1>3, ChainSon
      <4>2. QED
        BY <1>5, <2>1, <3>1, <4>1
    <3>2. CASE set.mode # "hc4"
      <4>1. maxLen \in Nat /\ maxLen < e.lenLimit /\ e.lenLimit \in Nat
        BY <1>3, <1>5, <1>6, <1>8
      <4>2. TreeWalk(e, cur, maxLen, TRUE).son = TreeWalk(e, cur, 0, FALSE).son
        BY <1>3, <4>1, WalksAlike
      <4>3. walk = TreeWalk(e, cur, maxLen, TRUE).son /\ link = TreeWalk(e, cur, 0, FALSE).son
        BY <2>1, <3>2
      <4>4. QED
        BY <4>2, <4>3
    <3>3. QED
      BY <3>1, <3>2
  <2>5. QED
    BY <1>1, <2>2, <2>3, <2>4
<1>9. QED
  BY <1>7, <1>8

\* A byte that is skipped leaves the match finder as one that is looked up does
\* (SkipMatchesSpec against GetMatchesSpec1, and the two of each mode, of LzFind.c).
THEOREM SkipsRight == Spec => []SkipLikesGet
<1>1. ASSUME Inv PROVE SkipLikesGet
  <2>1. CaseOK /\ WindowInv(mf)
    BY <1>1 DEF Inv
  <2>2. CASE mf.lenLimit < MinLen
    BY <2>2 DEF SkipLikesGet, SkipOne, GetMatches
  <2>3. CASE ~(mf.lenLimit < MinLen)
    <3>1. mf.lenLimit \in Nat /\ MinLen \in {2, 3, 4}
      <4>1. Avail(mf) \in Nat /\ mf.lenLimit = Shorter(Avail(mf), MatchMaxLen)
        BY <2>1, AvailIs DEF WindowInv, LimitsOK
      <4>2. QED
        BY <4>1, SizesAre, ShorterOf DEF MinLen
    <3>2. Linked(mf, Entered(mf)) = Walked(mf, FromTables(mf)).mf
      BY <2>1, <2>3, <3>1, SameLinks
    <3>3. QED
      BY <2>3, <3>2 DEF SkipLikesGet, SkipOne, GetMatches
  <2>4. QED
    BY <2>2, <2>3
<1>2. QED
  BY <1>1, InvHolds, PTL

-----------------------------------------------------------------------------
(* The order of the places of the text, by the n bytes that begin at them.   *)

Agree(a, b, n) == \A i \in 0 .. n - 1 : ByteAt(a + i) = ByteAt(b + i)

Strict(a, b, n) == \E k \in 0 .. n - 1 : Agree(a, b, k) /\ ByteAt(a + k) < ByteAt(b + k)

Below(a, b, n) == Agree(a, b, n) \/ Strict(a, b, n)

LEMMA ByteIs ==
  ASSUME CaseOK, NEW i \in Nat, i < size
  PROVE  ByteAt(i) \in 0 .. Bytes - 1 /\ ByteAt(i) \in Int
<1>1. text \in Seq(0 .. Bytes - 1) /\ i + 1 \in 1 .. Len(text)
  BY CaseIs DEF size
<1>2. Bytes \in Nat
  BY SettingsAssumption
<1>3. QED
  BY <1>1, <1>2 DEF ByteAt

LEMMA AgreeFewer ==
  ASSUME NEW a, NEW b, NEW n \in Nat, NEW k \in 0 .. n, Agree(a, b, n)
  PROVE  Agree(a, b, k)
<1>1. \A i \in 0 .. k - 1 : i \in 0 .. n - 1
  OBVIOUS
<1>2. QED
  BY <1>1 DEF Agree

LEMMA AgreeSym ==
  ASSUME NEW a, NEW b, NEW n, Agree(a, b, n)
  PROVE  Agree(b, a, n)
BY DEF Agree

LEMMA AgreeTrans ==
  ASSUME NEW a, NEW b, NEW c, NEW n, Agree(a, b, n), Agree(b, c, n)
  PROVE  Agree(a, c, n)
BY DEF Agree

\* Where two places do not agree there is a first byte that differs.
LEMMA FirstDiffers ==
  ASSUME NEW a, NEW b, NEW n \in Nat, ~ Agree(a, b, n)
  PROVE  \E k \in 0 .. n - 1 : Agree(a, b, k) /\ ByteAt(a + k) # ByteAt(b + k)
<1>1. PICK S : S = {i \in 0 .. n - 1 : ByteAt(a + i) # ByteAt(b + i)}
  OBVIOUS
<1>2. S \in SUBSET Nat /\ S # {}
  BY <1>1 DEF Agree
<1>3. PICK k \in S : \A i \in S : k <= i
  BY <1>2, SmallestOf
<1>4. Agree(a, b, k)
  <2>1. ASSUME NEW i \in 0 .. k - 1 PROVE ByteAt(a + i) = ByteAt(b + i)
    <3>1. i \in 0 .. n - 1 /\ i \notin S
      BY <1>1, <1>3
    <3>2. QED
      BY <1>1, <3>1
  <2>2. QED
    BY <2>1 DEF Agree
<1>5. QED
  BY <1>1, <1>4

LEMMA Comparable ==
  ASSUME CaseOK, NEW n \in Nat, NEW a \in Nat, NEW b \in Nat, a + n <= size, b + n <= size
  PROVE  /\ Below(a, b, n) \/ Below(b, a, n)
         /\ ~ Agree(a, b, n) => Strict(a, b, n) \/ Strict(b, a, n)
<1>1. ASSUME ~ Agree(a, b, n) PROVE Strict(a, b, n) \/ Strict(b, a, n)
  <2>1. PICK k \in 0 .. n - 1 : Agree(a, b, k) /\ ByteAt(a + k) # ByteAt(b + k)
    BY <1>1, FirstDiffers
  <2>2. ByteAt(a + k) \in Int /\ ByteAt(b + k) \in Int
    <3>1. a + k \in Nat /\ a + k < size /\ b + k \in Nat /\ b + k < size
      BY CaseIs
    <3>2. QED
      BY <3>1, ByteIs
  <2>3. Agree(b, a, k)
    BY <2>1, AgreeSym
  <2>4. QED
    BY <2>1, <2>2, <2>3 DEF Strict
<1>2. QED
  BY <1>1 DEF Below

LEMMA BelowShorter ==
  ASSUME NEW a, NEW b, NEW n \in Nat, NEW k \in 0 .. n, Below(a, b, n)
  PROVE  Below(a, b, k)
<1>1. CASE Agree(a, b, n)
  BY <1>1, AgreeFewer DEF Below
<1>2. CASE Strict(a, b, n)
  <2>1. PICK j \in 0 .. n - 1 : Agree(a, b, j) /\ ByteAt(a + j) < ByteAt(b + j)
    BY <1>2 DEF Strict
  <2>2. CASE j < k
    <3>1. j \in 0 .. k - 1
      BY <2>2
    <3>2. QED
      BY <2>1, <3>1 DEF Below, Strict
  <2>3. CASE ~(j < k)
    <3>1. j \in Nat /\ k \in 0 .. j
      BY <2>3
    <3>2. QED
      BY <2>1, <3>1, AgreeFewer DEF Below
  <2>4. QED
    BY <2>2, <2>3
<1>3. QED
  BY <1>1, <1>2 DEF Below

\* Below one that agrees, and above one.
LEMMA BelowAgrees ==
  ASSUME NEW a, NEW b, NEW c, NEW n \in Nat
  PROVE  /\ Below(a, b, n) /\ Agree(b, c, n) => Below(a, c, n)
         /\ Agree(a, b, n) /\ Below(b, c, n) => Below(a, c, n)
<1>1. ASSUME Below(a, b, n), Agree(b, c, n) PROVE Below(a, c, n)
  <2>1. CASE Agree(a, b, n)
    BY <1>1, <2>1, AgreeTrans DEF Below
  <2>2. CASE Strict(a, b, n)
    <3>1. PICK j \in 0 .. n - 1 : Agree(a, b, j) /\ ByteAt(a + j) < ByteAt(b + j)
      BY <2>2 DEF Strict
    <3>2. Agree(b, c, j)
      <4>1. j \in 0 .. n
        OBVIOUS
      <4>2. QED
        BY <1>1, <4>1, AgreeFewer
    <3>3. Agree(a, c, j)
      BY <3>1, <3>2, AgreeTrans
    <3>4. ByteAt(b + j) = ByteAt(c + j)
      BY <1>1 DEF Agree
    <3>5. QED
      BY <3>1, <3>3, <3>4 DEF Below, Strict
  <2>3. QED
    BY <1>1, <2>1, <2>2 DEF Below
<1>2. ASSUME Agree(a, b, n), Below(b, c, n) PROVE Below(a, c, n)
  <2>1. CASE Agree(b, c, n)
    BY <1>2, <2>1, AgreeTrans DEF Below
  <2>2. CASE Strict(b, c, n)
    <3>1. PICK j \in 0 .. n - 1 : Agree(b, c, j) /\ ByteAt(b + j) < ByteAt(c + j)
      BY <2>2 DEF Strict
    <3>2. Agree(a, b, j)
      <4>1. j \in 0 .. n
        OBVIOUS
      <4>2. QED
        BY <1>2, <4>1, AgreeFewer
    <3>3. Agree(a, c, j)
      BY <3>1, <3>2, AgreeTrans
    <3>4. ByteAt(a + j) = ByteAt(b + j)
      BY <1>2 DEF Agree
    <3>5. QED
      BY <3>1, <3>3, <3>4 DEF Below, Strict
  <2>3. QED
    BY <1>2, <2>1, <2>2 DEF Below
<1>3. QED
  BY <1>1, <1>2

LEMMA BelowTrans ==
  ASSUME CaseOK, NEW n \in Nat, NEW a \in Nat, NEW b \in Nat, NEW c \in Nat,
         a + n <= size, b + n <= size, c + n <= size, Below(a, b, n), Below(b, c, n)
  PROVE  Below(a, c, n) /\ (Strict(a, b, n) \/ Strict(b, c, n) => Strict(a, c, n))
<1>1. CASE Agree(a, b, n) /\ Agree(b, c, n)
  <2>1. ~ Strict(a, b, n) /\ ~ Strict(b, c, n)
    <3>1. ASSUME NEW x \in Nat, NEW y \in Nat, x + n <= size, y + n <= size, Agree(x, y, n), Strict(x, y, n)
          PROVE  FALSE
      <4>1. PICK k \in 0 .. n - 1 : ByteAt(x + k) < ByteAt(y + k)
        BY <3>1 DEF Strict
      <4>2. ByteAt(x + k) = ByteAt(y + k)
        BY <3>1 DEF Agree
      <4>3. x + k \in Nat /\ x + k < size
        BY <3>1, CaseIs
      <4>4. ByteAt(x + k) \in Int
        BY <4>3, ByteIs
      <4>5. QED
        BY <4>1, <4>2, <4>4
    <3>2. QED
      BY <1>1, <3>1
  <2>2. QED
    BY <1>1, <2>1, AgreeTrans DEF Below
<1>2. ASSUME NEW j \in 0 .. n - 1, NEW k \in 0 .. n - 1, Agree(a, b, j), Agree(b, c, k),
             ByteAt(a + j) < ByteAt(b + j), ByteAt(b + k) < ByteAt(c + k)
      PROVE  Strict(a, c, n)
  <2>1. /\ ByteAt(a + j) \in Int /\ ByteAt(b + j) \in Int /\ ByteAt(c + j) \in Int
        /\ ByteAt(a + k) \in Int /\ ByteAt(b + k) \in Int /\ ByteAt(c + k) \in Int
    <3>1. ASSUME NEW x \in Nat, x + n <= size, NEW i \in 0 .. n - 1 PROVE ByteAt(x + i) \in Int
      <4>1. x + i \in Nat /\ x + i < size
        BY <3>1, CaseIs
      <4>2. QED
        BY <4>1, ByteIs
    <3>2. QED
      BY <3>1
  <2>2. CASE j <= k
    <3>1. Agree(b, c, j) /\ Agree(a, c, j)
      <4>1. j \in 0 .. k /\ k \in Nat
        BY <2>2
      <4>2. Agree(b, c, j)
        BY <1>2, <4>1, AgreeFewer
      <4>3. QED
        BY <1>2, <4>2, AgreeTrans
    <3>2. ByteAt(b + j) <= ByteAt(c + j)
      <4>1. CASE j = k
        BY <1>2, <2>1, <4>1
      <4>2. CASE j # k
        <5>1. j \in 0 .. k - 1
          BY <2>2, <4>2
        <5>2. QED
          BY <1>2, <2>1, <5>1 DEF Agree
      <4>3. QED
        BY <4>1, <4>2
    <3>3. ByteAt(a + j) < ByteAt(c + j)
      BY <1>2, <2>1, <3>2
    <3>4. QED
      BY <3>1, <3>3 DEF Strict
  <2>3. CASE ~(j <= k)
    <3>1. Agree(a, b, k) /\ Agree(a, c, k)
      <4>1. k \in 0 .. j /\ j \in Nat
        BY <2>3
      <4>2. Agree(a, b, k)
        BY <1>2, <4>1, AgreeFewer
      <4>3. QED
        BY <1>2, <4>2, AgreeTrans
    <3>2. ByteAt(a + k) = ByteAt(b + k)
      <4>1. k \in 0 .. j - 1
        BY <2>3
      <4>2. QED
        BY <1>2, <4>1 DEF Agree
    <3>3. ByteAt(a + k) < ByteAt(c + k)
      BY <1>2, <2>1, <3>2
    <3>4. QED
      BY <3>1, <3>3 DEF Strict
  <2>4. QED
    BY <2>2, <2>3
<1>3. CASE Strict(a, b, n) /\ Strict(b, c, n)
  BY <1>2, <1>3 DEF Strict, Below
<1>4. CASE Agree(a, b, n) /\ Strict(b, c, n)
  <2>1. PICK k \in 0 .. n - 1 : Agree(b, c, k) /\ ByteAt(b + k) < ByteAt(c + k)
    BY <1>4 DEF Strict
  <2>2. k \in 0 .. n
    OBVIOUS
  <2>3. Agree(a, b, k) /\ ByteAt(a + k) = ByteAt(b + k)
    BY <1>4, <2>2, AgreeFewer DEF Agree
  <2>4. Agree(a, c, k)
    BY <2>1, <2>3, AgreeTrans
  <2>5. QED
    BY <2>1, <2>3, <2>4 DEF Strict, Below
<1>5. CASE Strict(a, b, n) /\ Agree(b, c, n)
  <2>1. PICK k \in 0 .. n - 1 : Agree(a, b, k) /\ ByteAt(a + k) < ByteAt(b + k)
    BY <1>5 DEF Strict
  <2>2. k \in 0 .. n
    OBVIOUS
  <2>3. Agree(b, c, k) /\ ByteAt(b + k) = ByteAt(c + k)
    BY <1>5, <2>2, AgreeFewer DEF Agree
  <2>4. Agree(a, c, k)
    BY <2>1, <2>3, AgreeTrans
  <2>5. QED
    BY <2>1, <2>3, <2>4 DEF Strict, Below
<1>6. QED
  BY <1>1, <1>3, <1>4, <1>5 DEF Below

\* What lies between two that agree in k bytes agrees with both in these.
LEMMA Between ==
  ASSUME CaseOK, NEW n \in Nat, NEW a \in Nat, NEW b \in Nat, NEW c \in Nat, NEW k \in 0 .. n,
         a + n <= size, b + n <= size, c + n <= size, Below(a, b, n), Below(b, c, n), Agree(a, c, k)
  PROVE  Agree(a, b, k) /\ Agree(b, c, k)
<1>1. Below(a, b, k) /\ Below(b, c, k)
  BY BelowShorter
<1>2. a + k <= size /\ b + k <= size /\ c + k <= size /\ k \in Nat
  BY CaseIs, SMTT(60)
<1>3. ~ Strict(a, c, k)
  <2>1. ASSUME Strict(a, c, k) PROVE FALSE
    <3>1. PICK j \in 0 .. k - 1 : ByteAt(a + j) < ByteAt(c + j)
      BY <2>1 DEF Strict
    <3>2. ByteAt(a + j) = ByteAt(c + j)
      BY DEF Agree
    <3>3. a + j \in Nat /\ a + j < size
      BY <1>2, CaseIs
    <3>4. ByteAt(a + j) \in Int
      BY <3>3, ByteIs
    <3>5. QED
      BY <3>1, <3>2, <3>4
  <2>2. QED
    BY <2>1
<1>4. ~ Strict(a, b, k) /\ ~ Strict(b, c, k)
  BY <1>1, <1>2, <1>3, BelowTrans
<1>5. QED
  BY <1>1, <1>4 DEF Below

-----------------------------------------------------------------------------
(* Places of the text behind the position, and what the tables say of them.  *)

\* The places a walk may reach.
Past(m) == {a \in 0 .. m.taken - 1 : m.taken - a < cyclicBufferSize}

\* What a number in a table stands for: a place of the text, if it is not too old.
Live(m, v)  == m.pos - v < cyclicBufferSize
Where(m, v) == m.taken - (m.pos - v)

LEMMA PlaceIs ==
  ASSUME CaseOK, NEW m, WindowInv(m)
  PROVE  /\ DOMAIN m = Fields /\ m.taken \in Nat /\ m.pos \in Nat /\ m.pos >= cyclicBufferSize
         /\ cyclicBufferSize \in Nat \ {0} /\ m.cyc \in 0 .. cyclicBufferSize - 1
         /\ m.lenLimit \in Nat /\ m.lenLimit = Shorter(given - m.taken, MatchMaxLen)
         /\ m.lenLimit <= Avail(m) /\ Avail(m) \in Nat /\ size \in Nat /\ given \in 0 .. size
         /\ m.taken + m.lenLimit <= size /\ keepSizeBefore >= cyclicBufferSize /\ keepSizeBefore \in Nat
         /\ m.taken + Avail(m) <= given
<1>1. /\ DOMAIN m = Fields /\ m.taken \in Nat /\ m.pos \in Nat /\ m.pos >= cyclicBufferSize
      /\ cyclicBufferSize \in Nat \ {0} /\ m.cyc \in 0 .. cyclicBufferSize - 1
      /\ keepSizeBefore >= cyclicBufferSize /\ keepSizeBefore \in Nat
      /\ keepSizeAfter \in Nat /\ MatchMaxLen \in Nat /\ keepSizeAfter >= MatchMaxLen
  BY SizesAre, AvailIs DEF WindowInv, WindowOK, LimitsOK
<1>2. Avail(m) \in Nat /\ size \in Nat /\ given \in 0 .. size
  BY AvailIs, CaseIs DEF WindowInv
<1>3. m.taken + Avail(m) <= given
  <2>1. CASE set.direct
    <3>1. m.rem \in Nat /\ m.taken + Avail(m) + m.rem = size /\ given = size
      BY <2>1, CaseIs DEF WindowInv, WindowOK, Placed
    <3>2. PICK t \in Nat, a \in Nat, r \in Nat : t = m.taken /\ a = Avail(m) /\ r = m.rem
      BY <1>1, <1>2, <3>1
    <3>3. t + a + r = size
      BY <3>1, <3>2
    <3>4. t + a <= size
      BY <1>2, <3>2, <3>3
    <3>5. QED
      BY <3>1, <3>2, <3>4
  <2>2. CASE ~set.direct
    BY <2>2 DEF WindowInv, WindowOK, Placed
  <2>3. QED
    BY <2>1, <2>2
<1>4. m.lenLimit = Shorter(Avail(m), MatchMaxLen)
  BY DEF WindowInv, LimitsOK
<1>5. PICK t \in Nat, a \in Nat, g \in Nat : t = m.taken /\ a = Avail(m) /\ g = given
  BY <1>1, <1>2
<1>6. t + a <= g /\ (a > keepSizeAfter \/ t + a = g)
  BY <1>3, <1>5 DEF WindowInv, AheadOK
<1>7. m.lenLimit \in Nat /\ m.lenLimit <= a
  BY <1>1, <1>4, <1>5, ShorterOf
<1>8. Shorter(a, MatchMaxLen) = Shorter(g - t, MatchMaxLen)
  <2>1. CASE t + a = g
    <3>1. g - t = a
      BY <1>5, <2>1
    <3>2. QED
      BY <3>1
  <2>2. CASE a > keepSizeAfter
    <3>1. ~(a < MatchMaxLen) /\ ~(g - t < MatchMaxLen)
      BY <1>1, <1>5, <1>6, <2>2
    <3>2. QED
      BY <3>1 DEF Shorter
  <2>3. QED
    BY <1>6, <2>1, <2>2
<1>9. m.lenLimit = Shorter(given - m.taken, MatchMaxLen)
  BY <1>4, <1>5, <1>8
<1>10. t + m.lenLimit <= size
  BY <1>2, <1>5, <1>6, <1>7
<1>11. QED
  BY <1>1, <1>2, <1>3, <1>5, <1>7, <1>9, <1>10

\* What the window shows i bytes from the position.
LEMMA Reading ==
  ASSUME CaseOK, NEW m, WindowInv(m), NEW i \in Int, i < Avail(m), - i <= m.taken, - i < cyclicBufferSize
  PROVE  Cur(m, i) = ByteAt(m.taken + i)
<1>1. m.taken \in Nat /\ keepSizeBefore \in Nat /\ Avail(m) \in Nat /\ keepSizeBefore >= cyclicBufferSize
      /\ cyclicBufferSize \in Nat
  BY PlaceIs
<1>2. PICK k : k = Shorter(m.taken, keepSizeBefore)
  OBVIOUS
<1>3. k \in {m.taken, keepSizeBefore}
  BY <1>1, <1>2, ShorterOf
<1>4. i \in - k .. Avail(m) - 1
  BY <1>1, <1>3
<1>5. QED
  BY <1>2, <1>4 DEF WindowInv, WindowOK, Shows

\* MatchLen finds the length of the match.
LEMMA MatchLenRight ==
  ASSUME CaseOK, NEW m, WindowInv(m), NEW p \in Past(m), NEW n \in 0 .. m.lenLimit, Agree(p, m.taken, n)
  PROVE  LET delta == m.taken - p
             len   == MatchLen(m, delta, n)
         IN  /\ len \in n .. m.lenLimit /\ Agree(p, m.taken, len)
             /\ len < m.lenLimit => /\ ByteAt(p + len) # ByteAt(m.taken + len)
                                    /\ Cur(m, len - delta) = ByteAt(p + len)
                                    /\ Cur(m, len) = ByteAt(m.taken + len)
<1>1. PICK t \in Nat, delta \in Nat : t = m.taken /\ delta = t - p
  BY PlaceIs DEF Past
<1>2. p \in Nat /\ delta < cyclicBufferSize /\ delta > 0 /\ m.lenLimit \in Nat /\ m.lenLimit <= Avail(m)
      /\ Avail(m) \in Nat /\ cyclicBufferSize \in Nat
  BY <1>1, PlaceIs DEF Past
<1>3. PICK S : S = {k \in n .. m.lenLimit : k = m.lenLimit \/ Cur(m, k - delta) # Cur(m, k)}
  OBVIOUS
<1>4. S \in SUBSET Nat /\ m.lenLimit \in S
  BY <1>2, <1>3
<1>5. PICK len : len = MatchLen(m, delta, n) /\ len = Min(S)
  BY <1>3 DEF MatchLen
<1>6. len \in S /\ \A k \in S : len <= k
  BY <1>4, <1>5, MinOf
<1>7. len \in n .. m.lenLimit /\ (len = m.lenLimit \/ Cur(m, len - delta) # Cur(m, len))
  BY <1>3, <1>6
<1>8. ASSUME NEW k \in 0 .. m.lenLimit - 1
      PROVE  Cur(m, k - delta) = ByteAt(p + k) /\ Cur(m, k) = ByteAt(m.taken + k)
  <2>1. /\ k - delta \in Int /\ k - delta < Avail(m) /\ - (k - delta) <= m.taken /\ - (k - delta) < cyclicBufferSize
        /\ m.taken + (k - delta) = p + k
    BY <1>1, <1>2
  <2>2. k \in Int /\ k < Avail(m) /\ - k <= m.taken /\ - k < cyclicBufferSize
    BY <1>1, <1>2
  <2>3. Cur(m, k - delta) = ByteAt(m.taken + (k - delta)) /\ Cur(m, k) = ByteAt(m.taken + k)
    BY <2>1, <2>2, Reading
  <2>4. QED
    BY <2>1, <2>3
<1>9. Agree(p, m.taken, len)
  <2>1. ASSUME NEW i \in 0 .. len - 1 PROVE ByteAt(p + i) = ByteAt(m.taken + i)
    <3>1. CASE i < n
      <4>1. i \in 0 .. n - 1
        BY <3>1
      <4>2. QED
        BY <4>1 DEF Agree
    <3>2. CASE ~(i < n)
      <4>1. i \in n .. m.lenLimit /\ i \in 0 .. m.lenLimit - 1 /\ i \notin S
        BY <1>2, <1>6, <1>7, <3>2
      <4>2. Cur(m, i - delta) = Cur(m, i)
        BY <1>3, <4>1
      <4>3. QED
        BY <1>8, <4>1, <4>2
    <3>3. QED
      BY <3>1, <3>2
  <2>2. QED
    BY <2>1 DEF Agree
<1>10. len < m.lenLimit => /\ ByteAt(p + len) # ByteAt(m.taken + len)
                           /\ Cur(m, len - delta) = ByteAt(p + len) /\ Cur(m, len) = ByteAt(m.taken + len)
  <2>1. len < m.lenLimit => len \in 0 .. m.lenLimit - 1
    BY <1>2, <1>7
  <2>2. QED
    BY <1>7, <1>8, <2>1
<1>11. QED
  BY <1>1, <1>5, <1>7, <1>9, <1>10

LEMMA NodeIs ==
  ASSUME NEW m, m.cyc \in 0 .. cyclicBufferSize - 1, cyclicBufferSize \in Nat,
         NEW d \in 0 .. cyclicBufferSize - 1
  PROVE  /\ Node(m, d) \in 0 .. cyclicBufferSize - 1 /\ Node(m, 0) = m.cyc
         /\ \A b \in 0 .. cyclicBufferSize - 1 : Node(m, d) = Node(m, b) => d = b
<1>1. PICK c \in Nat : c = m.cyc /\ c < cyclicBufferSize
  OBVIOUS
<1>2. \A b \in 0 .. cyclicBufferSize - 1 : Node(m, b) = IF b > c THEN c - b + cyclicBufferSize ELSE c - b
  BY <1>1 DEF Node
<1>3. QED
  BY <1>1, <1>2

\* The next position finds the places in the same nodes.
LEMMA NodeStays ==
  ASSUME NEW m, NEW e, m.cyc \in 0 .. cyclicBufferSize - 1, cyclicBufferSize \in Nat \ {0},
         e.cyc = IF m.cyc + 1 = cyclicBufferSize THEN 0 ELSE m.cyc + 1,
         NEW d \in Nat, d + 1 < cyclicBufferSize
  PROVE  Node(e, d + 1) = Node(m, d)
<1>1. PICK c \in Nat : c = m.cyc /\ c < cyclicBufferSize
  OBVIOUS
<1>2. Node(m, d) = IF d > c THEN c - d + cyclicBufferSize ELSE c - d
  BY <1>1 DEF Node
<1>3. Node(e, d + 1) = IF d + 1 > e.cyc THEN e.cyc - (d + 1) + cyclicBufferSize ELSE e.cyc - (d + 1)
  <2>1. e.cyc \in Nat
    BY <1>1
  <2>2. QED
    BY <2>1 DEF Node
<1>4. QED
  BY <1>1, <1>2, <1>3

\* The two places of a node in the tree.
Slot(m, a, s) == 2 * Node(m, m.taken - a) + s

Nodes(m) == Past(m) \cup {m.taken}

LEMMA SlotIs ==
  ASSUME CaseOK, NEW m, WindowInv(m), NEW a \in Nodes(m), NEW s \in {0, 1}
  PROVE  /\ Slot(m, a, s) \in 0 .. 2 * cyclicBufferSize - 1
         /\ Slot(m, m.taken, 0) = 2 * m.cyc /\ Slot(m, m.taken, 1) = 2 * m.cyc + 1
         /\ \A b \in Nodes(m), t \in {0, 1} : Slot(m, a, s) = Slot(m, b, t) => a = b /\ s = t
<1>1. m.taken \in Nat /\ m.cyc \in 0 .. cyclicBufferSize - 1 /\ cyclicBufferSize \in Nat \ {0}
  BY PlaceIs
<1>2. \A b \in Nodes(m) : b \in 0 .. m.taken /\ m.taken - b \in 0 .. cyclicBufferSize - 1
  BY <1>1 DEF Nodes, Past
<1>3. \A b \in Nodes(m) : Node(m, m.taken - b) \in 0 .. cyclicBufferSize - 1
  BY <1>1, <1>2, NodeIs
<1>4. PICK x \in 0 .. cyclicBufferSize - 1 : x = Node(m, m.taken - a)
  BY <1>3
<1>5. Slot(m, a, s) = 2 * x + s
  BY <1>4 DEF Slot
<1>6. ASSUME NEW b \in Nodes(m), NEW t \in {0, 1}, Slot(m, a, s) = Slot(m, b, t) PROVE a = b /\ s = t
  <2>1. PICK y \in 0 .. cyclicBufferSize - 1 : y = Node(m, m.taken - b)
    BY <1>3
  <2>2. 2 * x + s = 2 * y + t
    BY <1>5, <1>6, <2>1 DEF Slot
  <2>3. x = y /\ s = t
    BY <1>1, <2>2
  <2>4. m.taken - a = m.taken - b
    BY <1>1, <1>2, <1>4, <2>1, <2>3, NodeIs
  <2>5. QED
    BY <1>1, <1>2, <2>3, <2>4
<1>7. Slot(m, m.taken, 0) = 2 * m.cyc /\ Slot(m, m.taken, 1) = 2 * m.cyc + 1
  <2>1. m.taken - m.taken = 0 /\ 0 \in 0 .. cyclicBufferSize - 1
    BY <1>1
  <2>2. Node(m, m.taken - m.taken) = m.cyc
    BY <1>1, <2>1, NodeIs
  <2>3. QED
    BY <1>1, <2>2 DEF Slot
<1>8. Slot(m, a, s) \in 0 .. 2 * cyclicBufferSize - 1
  BY <1>1, <1>4, <1>5
<1>9. QED
  BY <1>6, <1>7, <1>8

\* A number of a table that is not too old is a place behind the position.
LEMMA WhereIs ==
  ASSUME CaseOK, NEW m, WindowInv(m), NEW v \in Nat
  PROVE  /\ Where(m, v) \in Int /\ m.taken - Where(m, v) = m.pos - v
         /\ Where(m, v) \in 0 .. m.taken - 1 /\ Live(m, v) => Where(m, v) \in Past(m)
         /\ Live(m, v) \/ m.pos - v >= cyclicBufferSize
         /\ ~ Live(m, Empty)
<1>1. PICK t \in Nat, p \in Nat : t = m.taken /\ p = m.pos /\ p >= cyclicBufferSize /\ cyclicBufferSize \in Nat
  BY PlaceIs
<1>2. Where(m, v) = t - (p - v)
  BY <1>1 DEF Where
<1>3. Where(m, v) \in Int /\ t - Where(m, v) = p - v
  BY <1>1, <1>2
<1>4. QED
  BY <1>1, <1>3 DEF Live, Past, Empty

-----------------------------------------------------------------------------
(* What the tables say of the places behind the position.                    *)

\* The hashes of a place of the text.
Two(a)   == (ByteAt(a) + ByteAt(a + 1)) % Bytes
Three(a) == <<Two(a), (ByteAt(a) + ByteAt(a + 2)) % Bytes>>
All(a) ==
  CASE MinLen = 2 -> <<ByteAt(a), ByteAt(a + 1)>>
    [] MinLen = 3 -> Three(a)
    [] MinLen = 4 -> <<(ByteAt(a) + ByteAt(a + 1) + ByteAt(a + 2) + ByteAt(a + 3)) % Bytes, 0>>

Key2 == [a \in Nat |-> Two(a)]
Key3 == [a \in Nat |-> Three(a)]
KeyV == [a \in Nat |-> All(a)]

Values == 0 .. Bytes - 1

LEMMA MinLenIs ==
  ASSUME CaseOK
  PROVE  MinLen \in {2, 3, 4}
BY DEF MinLen

LEMMA SumRange ==
  ASSUME NEW x \in Int
  PROVE  x % Bytes \in Values
<1>1. Bytes \in Nat \ {0}
  BY SettingsAssumption
<1>2. QED
  BY <1>1 DEF Values

\* Equal remainders of sums that differ in one byte tell that byte.
LEMMA SumTells ==
  ASSUME NEW x \in Values, NEW y \in Values, NEW z \in Values, (x + y) % Bytes = (x + z) % Bytes
  PROVE  y = z
<1>1. PICK b \in Nat \ {0} : b = Bytes
  BY SettingsAssumption
<1>2. x \in 0 .. b - 1 /\ y \in 0 .. b - 1 /\ z \in 0 .. b - 1
  BY <1>1 DEF Values
<1>3. ASSUME NEW v \in 0 .. b - 1
      PROVE  (x + v) % b = IF x + v < b THEN x + v ELSE x + v - b
  <2>1. PICK u \in Nat : u = x + v /\ u < b + b
    BY <1>2
  <2>2. CASE u < b
    BY <1>1, <2>1, <2>2, ModOnce
  <2>3. CASE b <= u
    <3>1. u % b = u - b
      BY <1>1, <2>1, <2>3, ModOnce
    <3>2. x + v - b = u - b /\ ~ (x + v < b)
      BY <1>1, <1>2, <2>1, <2>3
    <3>3. QED
      BY <2>1, <3>1, <3>2
  <2>4. QED
    BY <1>2, <2>1, <2>2, <2>3
<1>4. /\ (x + y) % b = IF x + y < b THEN x + y ELSE x + y - b
      /\ (x + z) % b = IF x + z < b THEN x + z ELSE x + z - b
  BY <1>2, <1>3
<1>5. (x + y) % b = (x + z) % b
  BY <1>1
<1>6. QED
  BY <1>2, <1>4, <1>5

LEMMA ByteValue ==
  ASSUME CaseOK, NEW a \in Nat, a < size
  PROVE  ByteAt(a) \in Values /\ ByteAt(a) \in Int
BY ByteIs DEF Values

\* The hashes of a place are keys of the tables.
LEMMA KeyRange ==
  ASSUME CaseOK, NEW a \in Nat, a + MinLen <= size
  PROVE  /\ Key2[a] \in Values /\ (MinLen > 2 => Key3[a] \in Pairs) /\ KeyV[a] \in Pairs
         /\ Key2[a] = Two(a) /\ Key3[a] = Three(a) /\ KeyV[a] = All(a)
<1>1. size \in Nat /\ MinLen \in {2, 3, 4} /\ Bytes \in Nat \ {0}
  BY CaseIs, MinLenIs, SettingsAssumption
<1>2. ASSUME NEW i \in 0 .. MinLen - 1 PROVE ByteAt(a + i) \in Values /\ ByteAt(a + i) \in Int
  BY <1>1, ByteValue
<1>3. a + 0 = a
  OBVIOUS
<1>4. ByteAt(a) \in Values /\ ByteAt(a + 1) \in Values /\ ByteAt(a) \in Int /\ ByteAt(a + 1) \in Int
  BY <1>1, <1>2, <1>3
<1>5. Two(a) \in Values
  BY <1>4, SumRange DEF Two
<1>6. ASSUME MinLen > 2 PROVE Three(a) \in Pairs
  <2>1. ByteAt(a + 2) \in Int
    BY <1>1, <1>2, <1>6
  <2>2. (ByteAt(a) + ByteAt(a + 2)) % Bytes \in Values
    BY <1>4, <2>1, SumRange
  <2>3. QED
    BY <1>5, <2>2 DEF Three, Pairs, Values
<1>7. All(a) \in Pairs
  <2>1. CASE MinLen = 2
    BY <1>4, <2>1 DEF All, Pairs, Values
  <2>2. CASE MinLen = 3
    BY <1>6, <2>2 DEF All
  <2>3. CASE MinLen = 4
    <3>1. ByteAt(a + 2) \in Int /\ ByteAt(a + 3) \in Int
      BY <1>2, <2>3
    <3>2. (ByteAt(a) + ByteAt(a + 1) + ByteAt(a + 2) + ByteAt(a + 3)) % Bytes \in Values
      BY <1>4, <3>1, SumRange
    <3>3. 0 \in Values
      BY <1>1 DEF Values
    <3>4. All(a) = <<(ByteAt(a) + ByteAt(a + 1) + ByteAt(a + 2) + ByteAt(a + 3)) % Bytes, 0>>
      BY <2>3 DEF All
    <3>5. QED
      BY <3>2, <3>3, <3>4 DEF Pairs, Values
  <2>4. QED
    BY <1>1, <2>1, <2>2, <2>3
<1>8. QED
  BY <1>5, <1>6, <1>7 DEF Key2, Key3, KeyV

\* The window gives the position its hashes.
LEMMA HashIs ==
  ASSUME CaseOK, NEW m, WindowInv(m), m.lenLimit >= MinLen
  PROVE  /\ Hash2(m) = Key2[m.taken] /\ (MinLen > 2 => Hash3(m) = Key3[m.taken])
         /\ HashV(m) = KeyV[m.taken] /\ m.taken + MinLen <= size
<1>1. PICK t \in Nat, l \in Nat, n \in Nat : t = m.taken /\ l = m.lenLimit /\ n = size
  BY PlaceIs
<1>2. MinLen \in {2, 3, 4} /\ l <= Avail(m) /\ Avail(m) \in Nat /\ t + l <= n /\ l >= MinLen
      /\ cyclicBufferSize \in Nat \ {0}
  BY <1>1, PlaceIs, MinLenIs
<1>3. ASSUME NEW i \in 0 .. MinLen - 1 PROVE Cur(m, i) = ByteAt(t + i)
  <2>1. i \in Int /\ i < Avail(m) /\ - i <= m.taken /\ - i < cyclicBufferSize
    BY <1>1, <1>2
  <2>2. QED
    BY <1>1, <2>1, Reading
<1>4. Cur(m, 0) = ByteAt(t) /\ Cur(m, 1) = ByteAt(t + 1)
  <2>1. Cur(m, 0) = ByteAt(t + 0) /\ t + 0 = t
    BY <1>2, <1>3
  <2>2. QED
    BY <1>2, <1>3, <2>1
<1>5. Hash2(m) = Two(t)
  BY <1>4 DEF Hash2, Two
<1>6. MinLen > 2 => Hash3(m) = Three(t)
  BY <1>2, <1>3, <1>4, <1>5 DEF Hash3, Three
<1>7. HashV(m) = All(t)
  <2>1. CASE MinLen = 2
    BY <1>4, <2>1 DEF HashV, All
  <2>2. CASE MinLen = 3
    BY <1>6, <2>2 DEF HashV, All
  <2>3. CASE MinLen = 4
    <3>1. Cur(m, 2) = ByteAt(t + 2) /\ Cur(m, 3) = ByteAt(t + 3)
      BY <1>3, <2>3
    <3>2. QED
      BY <1>4, <2>3, <3>1 DEF HashV, All
  <2>4. QED
    BY <1>2, <2>1, <2>2, <2>3
<1>8. t + MinLen <= n
  BY <1>1, <1>2
<1>9. Key2[t] = Two(t) /\ Key3[t] = Three(t) /\ KeyV[t] = All(t)
  BY <1>1, <1>8, KeyRange
<1>10. QED
  BY <1>1, <1>5, <1>6, <1>7, <1>8, <1>9

\* Places with the same bytes have the same hashes.
LEMMA SameKeys ==
  ASSUME CaseOK, NEW a \in Nat, NEW b \in Nat
  PROVE  /\ Agree(a, b, 2) => Key2[a] = Key2[b]
         /\ Agree(a, b, 3) => Key3[a] = Key3[b] /\ Key2[a] = Key2[b]
         /\ Agree(a, b, MinLen) => KeyV[a] = KeyV[b]
<1>1. a + 0 = a /\ b + 0 = b /\ MinLen \in {2, 3, 4}
  BY MinLenIs
<1>2. ASSUME NEW n \in {2, 3, 4}, Agree(a, b, n)
      PROVE  /\ ByteAt(a) = ByteAt(b) /\ ByteAt(a + 1) = ByteAt(b + 1)
             /\ n > 2 => ByteAt(a + 2) = ByteAt(b + 2)
             /\ n > 3 => ByteAt(a + 3) = ByteAt(b + 3)
  BY <1>1, <1>2 DEF Agree
<1>3. ASSUME NEW n \in {2, 3, 4}, Agree(a, b, n)
      PROVE  Two(a) = Two(b) /\ (n > 2 => Three(a) = Three(b))
  BY <1>2, <1>3 DEF Two, Three
<1>4. ASSUME Agree(a, b, MinLen) PROVE All(a) = All(b)
  <2>1. CASE MinLen = 2
    BY <1>2, <1>4, <2>1 DEF All
  <2>2. CASE MinLen = 3
    BY <1>3, <1>4, <2>2 DEF All
  <2>3. CASE MinLen = 4
    <3>1. /\ ByteAt(a) = ByteAt(b) /\ ByteAt(a + 1) = ByteAt(b + 1)
          /\ ByteAt(a + 2) = ByteAt(b + 2) /\ ByteAt(a + 3) = ByteAt(b + 3)
      BY <1>2, <1>4, <2>3
    <3>2. QED
      BY <2>3, <3>1 DEF All
  <2>4. QED
    BY <1>1, <2>1, <2>2, <2>3
<1>5. QED
  BY <1>3, <1>4 DEF Key2, Key3, KeyV

\* Given the first byte, Hash2 tells the second, Hash3 the second and the third.
LEMMA HashTells ==
  ASSUME CaseOK, NEW a \in Nat, NEW b \in Nat, ByteAt(a) = ByteAt(b)
  PROVE  /\ a + 2 <= size /\ b + 2 <= size /\ Key2[a] = Key2[b] => Agree(a, b, 2)
         /\ a + 3 <= size /\ b + 3 <= size /\ Key3[a] = Key3[b] => Agree(a, b, 3)
<1>1. size \in Nat /\ a + 0 = a /\ b + 0 = b
  BY CaseIs
<1>2. ASSUME a + 2 <= size, b + 2 <= size, Two(a) = Two(b) PROVE ByteAt(a + 1) = ByteAt(b + 1)
  <2>1. a < size /\ a + 1 < size /\ b + 1 < size
    BY <1>1, <1>2
  <2>2. ByteAt(a) \in Values /\ ByteAt(a + 1) \in Values /\ ByteAt(b + 1) \in Values
    BY <2>1, ByteValue
  <2>3. QED
    BY <1>2, <2>2, SumTells DEF Two
<1>3. ASSUME a + 3 <= size, b + 3 <= size, Three(a) = Three(b)
      PROVE  ByteAt(a + 1) = ByteAt(b + 1) /\ ByteAt(a + 2) = ByteAt(b + 2)
  <2>1. a < size /\ a + 2 < size /\ b + 2 < size /\ a + 2 <= size /\ b + 2 <= size
    BY <1>1, <1>3
  <2>2. ByteAt(a) \in Values /\ ByteAt(a + 2) \in Values /\ ByteAt(b + 2) \in Values
    BY <2>1, ByteValue
  <2>3. Two(a) = Two(b) /\ (ByteAt(a) + ByteAt(a + 2)) % Bytes = (ByteAt(b) + ByteAt(b + 2)) % Bytes
    BY <1>3 DEF Three
  <2>4. ByteAt(a + 2) = ByteAt(b + 2)
    BY <2>2, <2>3, SumTells
  <2>5. QED
    BY <1>2, <2>1, <2>3, <2>4
<1>4. ASSUME ByteAt(a + 1) = ByteAt(b + 1) PROVE Agree(a, b, 2)
  BY <1>1, <1>4 DEF Agree
<1>5. ASSUME ByteAt(a + 1) = ByteAt(b + 1), ByteAt(a + 2) = ByteAt(b + 2) PROVE Agree(a, b, 3)
  BY <1>1, <1>5 DEF Agree
<1>6. QED
  BY <1>2, <1>3, <1>4, <1>5 DEF Key2, Key3

-----------------------------------------------------------------------------
\* A table has for each key the last place that has it, if that is not too old.
Latest(m, t, key, D) ==
  /\ t \in [D -> Nat]
  /\ \A a \in Past(m) : key[a] \in D /\ Live(m, t[key[a]]) /\ Where(m, t[key[a]]) >= a
  /\ \A k \in D : Live(m, t[k]) => Where(m, t[k]) \in 0 .. m.taken - 1 /\ key[Where(m, t[k])] = k

\* What one number becomes with a normalisation that takes sub off.
Low(v, sub) == IF sub = 0 THEN v ELSE IF v <= sub THEN Empty ELSE v - sub

\* e is one position further than m.
Further(m, e, sub) ==
  sub \in 0 .. m.pos + 1 - cyclicBufferSize /\ e.pos = m.pos + 1 - sub /\ e.taken = m.taken + 1

LEMMA LowIs ==
  ASSUME CaseOK, NEW m, WindowInv(m), NEW e, NEW sub, Further(m, e, sub), NEW v \in Nat
  PROVE  /\ Low(v, sub) \in Nat
         /\ Live(e, Low(v, sub)) => Live(m, v) /\ Where(e, Low(v, sub)) = Where(m, v)
         /\ Live(m, v) /\ m.pos - v + 1 < cyclicBufferSize =>
              Live(e, Low(v, sub)) /\ Where(e, Low(v, sub)) = Where(m, v)
<1>1. PICK p \in Nat, t \in Nat, c \in Nat : p = m.pos /\ t = m.taken /\ c = cyclicBufferSize /\ p >= c
  BY PlaceIs
<1>2. PICK s \in Nat : s = sub /\ s <= p + 1 - c
  BY <1>1 DEF Further
<1>3. e.pos = p + 1 - s /\ e.taken = t + 1
  BY <1>1, <1>2 DEF Further
<1>4. Low(v, sub) = IF v <= s /\ s # 0 THEN 0 ELSE v - s
  BY <1>2 DEF Low, Empty
<1>5. Low(v, sub) \in Nat
  BY <1>2, <1>4
<1>6. QED
  BY <1>1, <1>2, <1>3, <1>4, <1>5 DEF Live, Where

LEMMA PastNext ==
  ASSUME CaseOK, NEW m, WindowInv(m), NEW e, e.taken = m.taken + 1
  PROVE  /\ Past(e) \subseteq Nodes(m)
         /\ \A a \in Past(e) : a \in 0 .. m.taken /\ m.taken + 1 - a < cyclicBufferSize
         /\ \A a \in Past(m) : a \in 0 .. m.taken - 1
<1>1. m.taken \in Nat /\ cyclicBufferSize \in Nat
  BY PlaceIs
<1>2. QED
  BY <1>1 DEF Past, Nodes

\* The position goes into a table.
LEMMA LatestNext ==
  ASSUME CaseOK, NEW m, WindowInv(m), NEW e, NEW sub, Further(m, e, sub),
         NEW t, NEW key, NEW D, Latest(m, t, key, D), key[m.taken] \in D,
         NEW new, new = [k \in D |-> Low([t EXCEPT ![key[m.taken]] = m.pos][k], sub)]
  PROVE  Latest(e, new, key, D)
<1>1. PICK p \in Nat, T \in Nat, c \in Nat : p = m.pos /\ T = m.taken /\ c = cyclicBufferSize /\ p >= c /\ c > 0
  BY PlaceIs
<1>2. t \in [D -> Nat]
  BY DEF Latest
<1>3. PICK u : u = [t EXCEPT ![key[T]] = p]
  OBVIOUS
<1>4. u \in [D -> Nat] /\ u[key[T]] = p /\ \A k \in D : k # key[T] => u[k] = t[k]
  BY <1>1, <1>2, <1>3
<1>5. \A k \in D : new[k] = Low(u[k], sub)
  BY <1>1, <1>3
<1>6. new \in [D -> Nat]
  BY <1>1, <1>3, <1>4, LowIs
<1>7. Where(m, p) = T /\ (c > 1 => Live(m, p)) /\ p - p = 0
  BY <1>1 DEF Where, Live
<1>8. e.taken = T + 1
  BY <1>1 DEF Further
<1>9. ASSUME NEW a \in Past(e)
      PROVE  key[a] \in D /\ Live(e, new[key[a]]) /\ Where(e, new[key[a]]) >= a
  <2>1. a \in Nodes(m) /\ a \in 0 .. T /\ T + 1 - a < c
    BY <1>1, <1>8, PastNext
  <2>2. CASE key[a] = key[T]
    <3>1. new[key[a]] = Low(p, sub) /\ key[a] \in D
      BY <1>1, <1>4, <1>5, <2>2
    <3>2. m.pos - p + 1 < cyclicBufferSize /\ Live(m, p)
      BY <1>1, <1>7, <2>1
    <3>3. QED
      BY <1>1, <1>7, <2>1, <3>1, <3>2, LowIs
  <2>3. CASE key[a] # key[T]
    <3>1. a \in Past(m)
      BY <1>1, <2>1, <2>3 DEF Nodes
    <3>2. key[a] \in D /\ Live(m, t[key[a]]) /\ Where(m, t[key[a]]) >= a
      BY <3>1 DEF Latest
    <3>3. PICK v \in Nat : v = t[key[a]] /\ new[key[a]] = Low(v, sub)
      BY <1>2, <1>4, <1>5, <2>3, <3>2
    <3>4. T - Where(m, v) = p - v /\ Where(m, v) \in Int
      BY <1>1, WhereIs
    <3>5. m.pos - v + 1 < cyclicBufferSize
      BY <1>1, <2>1, <3>2, <3>3, <3>4
    <3>6. QED
      BY <3>2, <3>3, <3>5, LowIs
  <2>4. QED
    BY <2>2, <2>3
<1>10. ASSUME NEW k \in D, Live(e, new[k])
       PROVE  Where(e, new[k]) \in 0 .. T /\ key[Where(e, new[k])] = k
  <2>1. u[k] \in Nat
    BY <1>4
  <2>2. Live(m, u[k]) /\ Where(e, new[k]) = Where(m, u[k])
    BY <1>5, <1>10, <2>1, LowIs
  <2>3. CASE k = key[T]
    BY <1>1, <1>4, <1>7, <2>2, <2>3
  <2>4. CASE k # key[T]
    <3>1. PICK b : b = Where(m, u[k])
      OBVIOUS
    <3>2. b \in 0 .. T - 1 /\ key[b] = k
      BY <1>1, <1>4, <2>2, <2>4, <3>1 DEF Latest
    <3>3. b \in 0 .. T
      BY <1>1, <3>2
    <3>4. QED
      BY <2>2, <3>1, <3>2, <3>3
  <2>5. QED
    BY <2>3, <2>4
<1>11. \A k \in D : Live(e, new[k]) => Where(e, new[k]) \in 0 .. e.taken - 1 /\ key[Where(e, new[k])] = k
  BY <1>1, <1>8, <1>10
<1>12. QED
  BY <1>6, <1>9, <1>11 DEF Latest

-----------------------------------------------------------------------------
(* The tree.  What lies under a node is older than it and has its hash; on   *)
(* side 0 it is below it in the order of the text, on side 1 above it.       *)

Side(m, q, p, h) == IF h = 0 THEN Below(q, p, m.lenLimit) ELSE Below(p, q, m.lenLimit)
Far(m, q, p, h)  == IF h = 0 THEN Strict(q, p, m.lenLimit) ELSE Strict(p, q, m.lenLimit)

LEMMA Sides ==
  ASSUME CaseOK, NEW m, WindowInv(m), NEW h \in {0, 1},
         NEW a \in 0 .. m.taken, NEW b \in 0 .. m.taken
  PROVE  /\ Side(m, a, b, h) <=> Side(m, b, a, 1 - h)
         /\ Far(m, a, b, h) <=> Far(m, b, a, 1 - h)
         /\ Side(m, a, b, h) \/ Side(m, a, b, 1 - h)
         /\ ~ Agree(a, b, m.lenLimit) => Far(m, a, b, h) \/ Far(m, a, b, 1 - h)
         /\ Agree(a, b, m.lenLimit) => Side(m, a, b, h)
         /\ Far(m, a, b, h) => Side(m, a, b, h) /\ ~ Side(m, a, b, 1 - h) /\ ~ Agree(a, b, m.lenLimit)
         /\ Side(m, a, b, h) /\ Side(m, a, b, 1 - h) => Agree(a, b, m.lenLimit)
<1>1. PICK L \in Nat, n \in Nat : L = m.lenLimit /\ n = size /\ m.taken + L <= n /\ m.taken \in Nat
  BY PlaceIs
<1>2. a \in Nat /\ b \in Nat /\ a + L <= size /\ b + L <= size
  BY <1>1
<1>3. /\ Below(a, b, L) \/ Below(b, a, L)
      /\ ~ Agree(a, b, L) => Strict(a, b, L) \/ Strict(b, a, L)
  BY <1>1, <1>2, Comparable
<1>4. ASSUME NEW c \in 0 .. m.taken, NEW d \in 0 .. m.taken, Strict(c, d, L), Below(d, c, L) PROVE FALSE
  <2>1. c \in Nat /\ d \in Nat /\ c + L <= size /\ d + L <= size
    BY <1>1
  <2>2. Below(c, d, L)
    BY <1>4 DEF Below
  <2>3. Strict(c, c, L)
    BY <1>1, <1>4, <2>1, <2>2, BelowTrans
  <2>4. PICK k \in 0 .. L - 1 : ByteAt(c + k) < ByteAt(c + k)
    BY <2>3 DEF Strict
  <2>5. ByteAt(c + k) \in Int
    <3>1. c + k \in Nat /\ c + k < size
      BY <1>1, <2>1, <2>4
    <3>2. QED
      BY <3>1, ByteIs
  <2>6. QED
    BY <2>4, <2>5
<1>5. Agree(a, b, L) <=> Agree(b, a, L)
  BY AgreeSym
<1>6. CASE h = 0
  <2>1. 1 - h = 1 /\ 1 - h # 0
    BY <1>6
  <2>2. /\ Side(m, a, b, h) = Below(a, b, L) /\ Side(m, b, a, 1 - h) = Below(a, b, L)
        /\ Side(m, a, b, 1 - h) = Below(b, a, L)
        /\ Far(m, a, b, h) = Strict(a, b, L) /\ Far(m, b, a, 1 - h) = Strict(a, b, L)
        /\ Far(m, a, b, 1 - h) = Strict(b, a, L)
    BY <1>1, <1>6, <2>1 DEF Side, Far
  <2>3. Strict(a, b, L) => ~ Below(b, a, L)
    BY <1>4
  <2>4. QED
    BY <1>1, <1>3, <1>5, <2>2, <2>3 DEF Below
<1>7. CASE h = 1
  <2>1. 1 - h = 0 /\ h # 0
    BY <1>7
  <2>2. /\ Side(m, a, b, h) = Below(b, a, L) /\ Side(m, b, a, 1 - h) = Below(b, a, L)
        /\ Side(m, a, b, 1 - h) = Below(a, b, L)
        /\ Far(m, a, b, h) = Strict(b, a, L) /\ Far(m, b, a, 1 - h) = Strict(b, a, L)
        /\ Far(m, a, b, 1 - h) = Strict(a, b, L)
    BY <1>1, <1>7, <2>1 DEF Side, Far
  <2>3. Strict(b, a, L) => ~ Below(a, b, L)
    BY <1>4
  <2>4. QED
    BY <1>1, <1>3, <1>5, <2>2, <2>3 DEF Below
<1>8. QED
  BY <1>6, <1>7

LEMMA SidesTrans ==
  ASSUME CaseOK, NEW m, WindowInv(m), NEW h \in {0, 1},
         NEW a \in 0 .. m.taken, NEW b \in 0 .. m.taken, NEW c \in 0 .. m.taken,
         Side(m, a, b, h), Side(m, b, c, h)
  PROVE  /\ Side(m, a, c, h)
         /\ Far(m, a, b, h) \/ Far(m, b, c, h) => Far(m, a, c, h)
         /\ \A k \in 0 .. m.lenLimit : Agree(a, c, k) => Agree(a, b, k) /\ Agree(b, c, k)
<1>1. PICK L \in Nat, n \in Nat : L = m.lenLimit /\ n = size /\ m.taken + L <= n /\ m.taken \in Nat
  BY PlaceIs
<1>2. a \in Nat /\ b \in Nat /\ c \in Nat /\ a + L <= size /\ b + L <= size /\ c + L <= size
  BY <1>1
<1>3. CASE h = 0
  <2>1. Below(a, b, L) /\ Below(b, c, L)
    BY <1>1, <1>3 DEF Side
  <2>2. Below(a, c, L) /\ (Strict(a, b, L) \/ Strict(b, c, L) => Strict(a, c, L))
    BY <1>1, <1>2, <2>1, BelowTrans
  <2>3. \A k \in 0 .. L : Agree(a, c, k) => Agree(a, b, k) /\ Agree(b, c, k)
    BY <1>1, <1>2, <2>1, Between
  <2>4. QED
    BY <1>1, <1>3, <2>2, <2>3 DEF Side, Far
<1>4. CASE h = 1
  <2>1. Below(b, a, L) /\ Below(c, b, L)
    BY <1>1, <1>4 DEF Side
  <2>2. Below(c, a, L) /\ (Strict(b, a, L) \/ Strict(c, b, L) => Strict(c, a, L))
    BY <1>1, <1>2, <2>1, BelowTrans
  <2>3. \A k \in 0 .. L : Agree(c, a, k) => Agree(c, b, k) /\ Agree(b, a, k)
    BY <1>1, <1>2, <2>1, Between
  <2>4. \A k \in 0 .. L : Agree(a, c, k) => Agree(a, b, k) /\ Agree(b, c, k)
    BY <2>3, AgreeSym
  <2>5. QED
    BY <1>1, <1>4, <2>2, <2>4 DEF Side, Far
<1>5. QED
  BY <1>3, <1>4

-----------------------------------------------------------------------------
(* A walk takes the tree apart and leaves two holes in it, x[0] is the node  *)
(* with the hole for what is below the position, x[1] that for what is above.*)

\* I says what may lie under a node.
Under(m, I) ==
  \A a \in Nodes(m) : a \in I[a] /\ \A q \in I[a] : q \in 0 .. a /\ KeyV[q] = KeyV[a]

\* The number v in place s of the node a.
Leads(m, v, I, a, s) ==
  v \in Nat /\ (Live(m, v) => /\ Where(m, v) \in 0 .. a - 1
                              /\ \A q \in I[Where(m, v)] : q \in I[a] /\ Side(m, q, a, s))

HoleSide(m, x, h) == IF x[h] = m.taken THEN h ELSE 1 - h
Hole(m, x, h)     == Slot(m, x[h], HoleSide(m, x, h))
Open(m, x, a, s)  == \E h \in {0, 1} : a = x[h] /\ s = HoleSide(m, x, h)

Sons(son) == son \in [0 .. 2 * cyclicBufferSize - 1 -> Nat]

Sound(m, son, I, x) ==
  \A a \in Nodes(m), s \in {0, 1} : ~ Open(m, x, a, s) => Leads(m, son[Slot(m, a, s)], I, a, s)

SoundAll(m, son, I) ==
  \A a \in Nodes(m), s \in {0, 1} : Leads(m, son[Slot(m, a, s)], I, a, s)

\* v is the node to be looked at.
Hand(m, v, I, x) ==
  v \in Nat /\ (Live(m, v) =>
    /\ Where(m, v) \in 0 .. m.taken - 1
    /\ \A q \in I[Where(m, v)] : q \in I[m.taken]
    /\ \A h \in {0, 1} : x[h] # m.taken =>
         /\ Where(m, v) < x[h]
         /\ \A q \in I[Where(m, v)] :
              Side(m, q, x[h], 1 - h) /\ (Side(m, q, m.taken, h) => q \in I[x[h]]))

Owners(m, x) ==
  x \in [{0, 1} -> Nodes(m)] /\ \A h \in {0, 1} : x[h] # m.taken => Far(m, x[h], m.taken, h)

Places == [Nat -> SUBSET Nat]

TreeHand(m, son, v, I, x) ==
  Sons(son) /\ I \in Places /\ Under(m, I) /\ Owners(m, x) /\ Sound(m, son, I, x) /\ Hand(m, v, I, x)

LEMMA NodesAre ==
  ASSUME CaseOK, NEW m, WindowInv(m)
  PROVE  /\ m.taken \in Nat /\ m.taken \in Nodes(m) /\ cyclicBufferSize \in Nat \ {0}
         /\ \A a \in Nodes(m) : a \in 0 .. m.taken /\ a \in Nat
         /\ \A a \in Past(m) : a \in Nodes(m) /\ a \in 0 .. m.taken - 1
<1>1. m.taken \in Nat /\ cyclicBufferSize \in Nat \ {0}
  BY PlaceIs
<1>2. QED
  BY <1>1 DEF Nodes, Past

\* Where the holes are.
LEMMA HolesAre ==
  ASSUME CaseOK, NEW m, WindowInv(m), NEW x, x \in [{0, 1} -> Nodes(m)]
  PROVE  /\ \A h \in {0, 1} : HoleSide(m, x, h) \in {0, 1} /\ Hole(m, x, h) \in 0 .. 2 * cyclicBufferSize - 1
         /\ \A h \in {0, 1}, a \in Nodes(m), s \in {0, 1} :
              Slot(m, a, s) = Hole(m, x, h) <=> a = x[h] /\ s = HoleSide(m, x, h)
         /\ Hole(m, x, 0) # Hole(m, x, 1)
<1>1. \A h \in {0, 1} : HoleSide(m, x, h) \in {0, 1} /\ x[h] \in Nodes(m)
  BY DEF HoleSide
<1>2. \A h \in {0, 1} : Hole(m, x, h) \in 0 .. 2 * cyclicBufferSize - 1
  BY <1>1, SlotIs DEF Hole
<1>3. ASSUME NEW h \in {0, 1}, NEW a \in Nodes(m), NEW s \in {0, 1}
      PROVE  Slot(m, a, s) = Hole(m, x, h) <=> a = x[h] /\ s = HoleSide(m, x, h)
  BY <1>1, SlotIs DEF Hole
<1>4. Hole(m, x, 0) # Hole(m, x, 1)
  <2>1. ASSUME Hole(m, x, 0) = Hole(m, x, 1) PROVE FALSE
    <3>1. Slot(m, x[0], HoleSide(m, x, 0)) = Hole(m, x, 1)
      BY <2>1 DEF Hole
    <3>2. x[0] = x[1] /\ HoleSide(m, x, 0) = HoleSide(m, x, 1)
      BY <1>1, <1>3, <3>1
    <3>3. QED
      BY <3>2 DEF HoleSide
  <2>2. QED
    BY <2>1
<1>5. QED
  BY <1>1, <1>2, <1>3, <1>4

\* The node to be looked at has no hole.
LEMMA HandPlace ==
  ASSUME CaseOK, NEW m, WindowInv(m), NEW son, NEW v, NEW I, NEW x, TreeHand(m, son, v, I, x),
         Live(m, v), NEW p, p = Where(m, v)
  PROVE  /\ v \in Nat /\ p \in 0 .. m.taken - 1 /\ p \in Past(m) /\ p \in Nodes(m) /\ p # m.taken
         /\ \A g \in {0, 1} : x[g] # p /\ x[g] \in Nodes(m) /\ x[g] \in Nat
         /\ \A s \in {0, 1} : ~ Open(m, x, p, s)
<1>1. v \in Nat /\ p \in 0 .. m.taken - 1 /\ x \in [{0, 1} -> Nodes(m)] /\ m.taken \in Nat
  BY NodesAre DEF TreeHand, Hand, Owners
<1>2. p \in Past(m)
  BY <1>1, WhereIs
<1>3. p \in Nodes(m) /\ p # m.taken
  BY <1>1, <1>2, NodesAre
<1>4. ASSUME NEW g \in {0, 1} PROVE x[g] # p /\ x[g] \in Nodes(m) /\ x[g] \in Nat
  <2>1. x[g] \in Nodes(m)
    BY <1>1
  <2>2. x[g] \in Nat
    BY <2>1, NodesAre
  <2>3. x[g] # m.taken => p < x[g]
    BY DEF TreeHand, Hand
  <2>4. x[g] # p
    BY <1>1, <2>2, <2>3
  <2>5. QED
    BY <2>1, <2>2, <2>4
<1>5. \A s \in {0, 1} : ~ Open(m, x, p, s)
  BY <1>4 DEF Open
<1>6. QED
  BY <1>1, <1>2, <1>3, <1>4, <1>5

\* v fills the hole h, and its node has the hole now.
Turned(m, son, v, x, h, son2, x2) ==
  \A a \in Nodes(m), s \in {0, 1} :
    /\ ~ Open(m, x2, a, s) => (a = x[h] /\ s = HoleSide(m, x, h)) \/ ~ Open(m, x, a, s)
    /\ son2[Slot(m, a, s)] = IF a = x[h] /\ s = HoleSide(m, x, h) THEN v ELSE son[Slot(m, a, s)]

\* A node that is below the position goes with what is below it into hole 0, and the
\* walk goes on above the node; and the other way round.
LEMMA SideTurn ==
  ASSUME CaseOK, NEW m, WindowInv(m), NEW son, NEW v, NEW I, NEW x, TreeHand(m, son, v, I, x),
         Live(m, v), NEW h \in {0, 1}, NEW p, p = Where(m, v), Far(m, p, m.taken, h),
         NEW I2, I2 = [I EXCEPT ![p] = {q \in I[p] : Side(m, q, m.taken, h)}],
         NEW son2, son2 = [son EXCEPT ![Hole(m, x, h)] = v],
         NEW x2, x2 = [x EXCEPT ![h] = p]
  PROVE  Turned(m, son, v, x, h, son2, x2) /\ TreeHand(m, son2, son[Slot(m, p, 1 - h)], I2, x2)
<1>1. PICK T \in Nat : T = m.taken
  BY NodesAre
<1>2. v \in Nat /\ p \in 0 .. T - 1 /\ p \in Past(m) /\ p \in Nodes(m) /\ p # T
  BY <1>1, HandPlace
<1>3. /\ x \in [{0, 1} -> Nodes(m)] /\ I \in Places /\ Under(m, I) /\ Sons(son)
      /\ \A g \in {0, 1} : x[g] # T => Far(m, x[g], T, g)
  BY <1>1 DEF TreeHand, Owners
<1>4. /\ \A q \in I[p] : q \in I[T]
      /\ \A g \in {0, 1} : x[g] # T =>
           /\ p < x[g]
           /\ \A q \in I[p] : Side(m, q, x[g], 1 - g) /\ (Side(m, q, T, g) => q \in I[x[g]])
  BY <1>1 DEF TreeHand, Hand
<1>5. \A g \in {0, 1} : x[g] # p /\ x[g] \in Nodes(m)
  BY <1>2, <1>3, <1>4
<1>6. 1 - h \in {0, 1} /\ h # 1 - h /\ 1 - (1 - h) = h
  OBVIOUS
<1>7. \A s \in {0, 1} : ~ Open(m, x, p, s)
  BY HandPlace
<1>8. \A s \in {0, 1} : Leads(m, son[Slot(m, p, s)], I, p, s)
  BY <1>2, <1>7 DEF TreeHand, Sound
<1>9. x2 \in [{0, 1} -> Nodes(m)] /\ x2[h] = p /\ x2[1 - h] = x[1 - h]
  BY <1>2, <1>3, <1>6
<1>10. /\ HoleSide(m, x2, h) = 1 - h /\ HoleSide(m, x2, 1 - h) = HoleSide(m, x, 1 - h)
  BY <1>1, <1>2, <1>9 DEF HoleSide
<1>11. I2 \in Places /\ (\A a \in Nat : a # p => I2[a] = I[a]) /\ I2[p] = {q \in I[p] : Side(m, q, T, h)}
  BY <1>1, <1>2, <1>3 DEF Places
<1>12. \A a \in Nat : \A q \in I2[a] : q \in I[a]
  BY <1>11
<1>13. ASSUME NEW a \in Nodes(m), NEW s \in {0, 1}
       PROVE  /\ ~ Open(m, x2, a, s) => (a = x[h] /\ s = HoleSide(m, x, h)) \/ ~ Open(m, x, a, s)
              /\ son2[Slot(m, a, s)] = IF a = x[h] /\ s = HoleSide(m, x, h) THEN v ELSE son[Slot(m, a, s)]
  <2>1. Slot(m, a, s) \in 0 .. 2 * cyclicBufferSize - 1
    BY SlotIs
  <2>2. Slot(m, a, s) = Hole(m, x, h) <=> a = x[h] /\ s = HoleSide(m, x, h)
    BY <1>3, HolesAre
  <2>3. son2[Slot(m, a, s)] = IF a = x[h] /\ s = HoleSide(m, x, h) THEN v ELSE son[Slot(m, a, s)]
    BY <1>3, <2>1, <2>2 DEF Sons
  <2>4. ASSUME Open(m, x, a, s), ~ (a = x[h] /\ s = HoleSide(m, x, h)) PROVE Open(m, x2, a, s)
    <3>1. PICK g \in {0, 1} : a = x[g] /\ s = HoleSide(m, x, g)
      BY <2>4 DEF Open
    <3>2. g = 1 - h
      BY <2>4, <3>1
    <3>3. a = x2[1 - h] /\ s = HoleSide(m, x2, 1 - h)
      BY <1>9, <1>10, <3>1, <3>2
    <3>4. QED
      BY <1>6, <3>3 DEF Open
  <2>5. QED
    BY <2>3, <2>4
<1>14. Sons(son2)
  BY <1>2, <1>3, HolesAre DEF Sons
<1>15. Under(m, I2)
  <2>1. ASSUME NEW a \in Nodes(m)
        PROVE  a \in I2[a] /\ \A q \in I2[a] : q \in 0 .. a /\ KeyV[q] = KeyV[a]
    <3>1. a \in Nat /\ a \in I[a] /\ \A q \in I[a] : q \in 0 .. a /\ KeyV[q] = KeyV[a]
      BY <1>3, NodesAre DEF Under
    <3>2. CASE a = p
      <4>1. Side(m, p, T, h)
        BY <1>1, <1>2, Sides
      <4>2. QED
        BY <1>11, <3>1, <3>2, <4>1
    <3>3. CASE a # p
      BY <1>11, <3>1, <3>3
    <3>4. QED
      BY <3>2, <3>3
  <2>2. QED
    BY <2>1 DEF Under
<1>16. Owners(m, x2)
  <2>1. ASSUME NEW g \in {0, 1}, x2[g] # T PROVE Far(m, x2[g], T, g)
    <3>1. CASE g = h
      BY <1>1, <1>9, <3>1
    <3>2. CASE g = 1 - h
      BY <1>3, <1>6, <1>9, <2>1, <3>2
    <3>3. QED
      BY <3>1, <3>2
  <2>2. QED
    BY <1>1, <1>9, <2>1 DEF Owners
<1>17. ASSUME NEW a \in Nodes(m), NEW q \in I[a] PROVE q \in 0 .. T
  BY <1>1, <1>3, NodesAre DEF Under
<1>18. ASSUME NEW b \in 0 .. p - 1 PROVE I2[b] = I[b]
  BY <1>2, <1>11
<1>19. Sound(m, son2, I2, x2)
  <2>1. ASSUME NEW a \in Nodes(m), NEW s \in {0, 1}, ~ Open(m, x2, a, s)
        PROVE  Leads(m, son2[Slot(m, a, s)], I2, a, s)
    <3>1. CASE a = x[h] /\ s = HoleSide(m, x, h)
      <4>1. son2[Slot(m, a, s)] = v /\ a # p /\ a \in Nat
        BY <1>5, <1>13, <3>1, NodesAre
      <4>2. p \in 0 .. a - 1 /\ \A q \in I2[p] : q \in I2[a] /\ Side(m, q, a, s)
        <5>1. CASE x[h] = T
          <6>1. s = h /\ a = T
            BY <1>1, <3>1, <5>1 DEF HoleSide
          <6>2. QED
            BY <1>2, <1>4, <1>11, <6>1
        <5>2. CASE x[h] # T
          <6>1. s = 1 - h /\ a = x[h]
            BY <1>1, <3>1, <5>2 DEF HoleSide
          <6>2. p < a
            BY <1>4, <5>2, <6>1
          <6>3. ASSUME NEW q \in I2[p] PROVE q \in I2[a] /\ Side(m, q, a, s)
            <7>1. q \in I[p] /\ Side(m, q, T, h)
              BY <1>11
            <7>2. q \in I[a] /\ Side(m, q, a, s)
              BY <1>4, <5>2, <6>1, <7>1
            <7>3. QED
              BY <1>11, <4>1, <7>2
          <6>4. QED
            BY <1>2, <4>1, <6>2, <6>3
        <5>3. QED
          BY <5>1, <5>2
      <4>3. QED
        BY <1>2, <4>1, <4>2 DEF Leads
    <3>2. CASE ~ (a = x[h] /\ s = HoleSide(m, x, h))
      <4>1. ~ Open(m, x, a, s) /\ son2[Slot(m, a, s)] = son[Slot(m, a, s)]
        BY <1>13, <2>1, <3>2
      <4>2. PICK u : u = son[Slot(m, a, s)]
        OBVIOUS
      <4>3. Leads(m, u, I, a, s)
        BY <4>1, <4>2 DEF TreeHand, Sound
      <4>4. ASSUME Live(m, u) PROVE /\ Where(m, u) \in 0 .. a - 1
                                    /\ \A q \in I2[Where(m, u)] : q \in I2[a] /\ Side(m, q, a, s)
        <5>1. PICK b : b = Where(m, u) /\ b \in 0 .. a - 1 /\ \A q \in I[b] : q \in I[a] /\ Side(m, q, a, s)
          BY <4>3, <4>4 DEF Leads
        <5>2. a \in Nat /\ b \in Nat
          BY <5>1, NodesAre
        <5>3. CASE a # p
          BY <1>11, <1>12, <5>1, <5>2, <5>3
        <5>4. CASE a = p
          <6>1. s = h
            <7>1. CASE s = 1 - h
              <8>1. a = x2[h] /\ s = HoleSide(m, x2, h)
                BY <1>9, <1>10, <5>4, <7>1
              <8>2. QED
                BY <2>1, <8>1 DEF Open
            <7>2. QED
              BY <7>1
          <6>2. I2[b] = I[b]
            BY <1>18, <5>1, <5>4
          <6>3. ASSUME NEW q \in I[b] PROVE q \in I2[p]
            <7>1. q \in I[p] /\ Side(m, q, p, h)
              BY <5>1, <5>4, <6>1
            <7>2. q \in 0 .. T /\ p \in 0 .. T /\ T \in 0 .. T
              BY <1>2, <1>17, <7>1
            <7>3. Side(m, p, T, h)
              BY <1>1, <7>2, Sides
            <7>4. Side(m, q, T, h)
              BY <1>1, <7>1, <7>2, <7>3, SidesTrans
            <7>5. QED
              BY <1>11, <7>1, <7>4
          <6>4. QED
            BY <5>1, <5>4, <6>2, <6>3
        <5>5. QED
          BY <5>3, <5>4
      <4>5. u \in Nat
        BY <4>3 DEF Leads
      <4>6. QED
        BY <4>1, <4>2, <4>4, <4>5 DEF Leads
    <3>3. QED
      BY <3>1, <3>2
  <2>2. QED
    BY <2>1 DEF Sound
<1>20. Hand(m, son[Slot(m, p, 1 - h)], I2, x2)
  <2>1. PICK u : u = son[Slot(m, p, 1 - h)]
    OBVIOUS
  <2>2. Leads(m, u, I, p, 1 - h)
    BY <1>6, <1>8, <2>1
  <2>3. u \in Nat
    BY <2>2 DEF Leads
  <2>4. ASSUME Live(m, u)
        PROVE  /\ Where(m, u) \in 0 .. T - 1
               /\ \A q \in I2[Where(m, u)] : q \in I2[T]
               /\ \A g \in {0, 1} : x2[g] # T =>
                    /\ Where(m, u) < x2[g]
                    /\ \A q \in I2[Where(m, u)] :
                         Side(m, q, x2[g], 1 - g) /\ (Side(m, q, T, g) => q \in I2[x2[g]])
    <3>1. PICK b : b = Where(m, u) /\ b \in 0 .. p - 1 /\ \A q \in I[b] : q \in I[p] /\ Side(m, q, p, 1 - h)
      BY <2>2, <2>4 DEF Leads
    <3>2. I2[b] = I[b] /\ I2[T] = I[T]
      BY <1>1, <1>2, <1>11, <1>18, <3>1
    <3>3. b \in 0 .. T - 1 /\ \A q \in I2[b] : q \in I2[T]
      BY <1>2, <1>4, <3>1, <3>2
    <3>4. ASSUME NEW g \in {0, 1}, x2[g] # T
          PROVE  b < x2[g] /\ \A q \in I2[b] : Side(m, q, x2[g], 1 - g) /\ (Side(m, q, T, g) => q \in I2[x2[g]])
      <4>1. CASE g = h
        BY <1>2, <1>9, <1>11, <3>1, <3>2, <4>1
      <4>2. CASE g = 1 - h
        <5>1. x2[g] = x[g] /\ x[g] # T /\ x[g] # p /\ x[g] \in Nat
          BY <1>5, <1>9, <3>4, <4>2, NodesAre
        <5>2. p < x[g]
          BY <1>4, <5>1
        <5>3. b < x2[g]
          BY <1>2, <3>1, <5>1, <5>2
        <5>4. QED
          BY <1>4, <1>11, <3>1, <3>2, <5>1, <5>3
      <4>3. QED
        BY <4>1, <4>2
    <3>5. QED
      BY <3>1, <3>3, <3>4
  <2>5. QED
    BY <1>1, <2>1, <2>3, <2>4 DEF Hand
<1>21. TreeHand(m, son2, son[Slot(m, p, 1 - h)], I2, x2)
  BY <1>11, <1>14, <1>15, <1>16, <1>19, <1>20 DEF TreeHand
<1>22. QED
  BY <1>1, <1>13, <1>21 DEF Turned

\* Both holes are filled.
Plugged(m, son, x, u, son2) ==
  /\ Sons(son2)
  /\ \A a \in Nodes(m), s \in {0, 1} :
       /\ ~ Open(m, x, a, s) => son2[Slot(m, a, s)] = son[Slot(m, a, s)]
       /\ \A h \in {0, 1} : a = x[h] /\ s = HoleSide(m, x, h) => son2[Slot(m, a, s)] = u[h]

LEMMA PluggedIs ==
  ASSUME CaseOK, NEW m, WindowInv(m), NEW son, Sons(son), NEW x, x \in [{0, 1} -> Nodes(m)],
         NEW u, \A h \in {0, 1} : u[h] \in Nat
  PROVE  /\ Plugged(m, son, x, u, [son EXCEPT ![Hole(m, x, 0)] = u[0], ![Hole(m, x, 1)] = u[1]])
         /\ Plugged(m, son, x, u, [son EXCEPT ![Hole(m, x, 1)] = u[1], ![Hole(m, x, 0)] = u[0]])
<1>1. PICK h0, h1 : h0 = Hole(m, x, 0) /\ h1 = Hole(m, x, 1)
  OBVIOUS
<1>2. h0 # h1 /\ h0 \in 0 .. 2 * cyclicBufferSize - 1 /\ h1 \in 0 .. 2 * cyclicBufferSize - 1
  BY <1>1, HolesAre
<1>3. PICK s2 : s2 = [son EXCEPT ![h0] = u[0], ![h1] = u[1]]
  OBVIOUS
<1>4. s2 = [son EXCEPT ![h1] = u[1], ![h0] = u[0]]
  BY <1>2, <1>3 DEF Sons
<1>5. /\ Sons(s2) /\ s2[h0] = u[0] /\ s2[h1] = u[1]
      /\ \A k \in 0 .. 2 * cyclicBufferSize - 1 : k # h0 /\ k # h1 => s2[k] = son[k]
  BY <1>2, <1>3 DEF Sons
<1>6. ASSUME NEW a \in Nodes(m), NEW s \in {0, 1}
      PROVE  /\ ~ Open(m, x, a, s) => s2[Slot(m, a, s)] = son[Slot(m, a, s)]
             /\ \A h \in {0, 1} : a = x[h] /\ s = HoleSide(m, x, h) => s2[Slot(m, a, s)] = u[h]
  <2>1. Slot(m, a, s) \in 0 .. 2 * cyclicBufferSize - 1
    BY SlotIs
  <2>2. /\ Slot(m, a, s) = h0 <=> a = x[0] /\ s = HoleSide(m, x, 0)
        /\ Slot(m, a, s) = h1 <=> a = x[1] /\ s = HoleSide(m, x, 1)
    BY <1>1, HolesAre
  <2>3. QED
    BY <1>5, <2>1, <2>2 DEF Open
<1>7. Plugged(m, son, x, u, s2)
  BY <1>5, <1>6 DEF Plugged
<1>8. QED
  BY <1>1, <1>3, <1>4, <1>7

LEMMA PluggedSound ==
  ASSUME CaseOK, NEW m, WindowInv(m), NEW son, NEW I, NEW x, Sound(m, son, I, x),
         NEW u, NEW son2, Plugged(m, son, x, u, son2),
         \A h \in {0, 1} : Leads(m, u[h], I, x[h], HoleSide(m, x, h))
  PROVE  SoundAll(m, son2, I)
<1>1. ASSUME NEW a \in Nodes(m), NEW s \in {0, 1} PROVE Leads(m, son2[Slot(m, a, s)], I, a, s)
  <2>1. CASE Open(m, x, a, s)
    <3>1. PICK h \in {0, 1} : a = x[h] /\ s = HoleSide(m, x, h)
      BY <2>1 DEF Open
    <3>2. QED
      BY <3>1 DEF Plugged
  <2>2. CASE ~ Open(m, x, a, s)
    BY <2>2 DEF Plugged, Sound
  <2>3. QED
    BY <2>1, <2>2
<1>2. QED
  BY <1>1 DEF SoundAll

\* Where the walk ends the holes are closed.
LEMMA EmptySound ==
  ASSUME CaseOK, NEW m, WindowInv(m), NEW son, NEW v, NEW I, NEW x, TreeHand(m, son, v, I, x),
         NEW son2, Plugged(m, son, x, [h \in {0, 1} |-> Empty], son2)
  PROVE  SoundAll(m, son2, I)
<1>1. Empty \in Nat /\ ~ Live(m, Empty)
  BY WhereIs DEF Empty
<1>2. \A h \in {0, 1} : Leads(m, [g \in {0, 1} |-> Empty][h], I, x[h], HoleSide(m, x, h))
  BY <1>1 DEF Leads
<1>3. QED
  BY <1>2, PluggedSound DEF TreeHand

\* A node that is the same as far as it matters gives its place to the position.
LEMMA WholeTurn ==
  ASSUME CaseOK, NEW m, WindowInv(m), NEW son, NEW v, NEW I, NEW x, TreeHand(m, son, v, I, x),
         Live(m, v), NEW p, p = Where(m, v), Agree(p, m.taken, m.lenLimit), NEW son2,
         Plugged(m, son, x, [h \in {0, 1} |-> son[Slot(m, p, h)]], son2)
  PROVE  SoundAll(m, son2, I)
<1>1. PICK T \in Nat : T = m.taken
  BY NodesAre
<1>2. v \in Nat /\ p \in 0 .. T - 1 /\ p \in Past(m) /\ p \in Nodes(m) /\ p # T
  BY <1>1, HandPlace
<1>3. x \in [{0, 1} -> Nodes(m)] /\ Under(m, I)
  BY DEF TreeHand, Owners
<1>4. /\ \A q \in I[p] : q \in I[T]
      /\ \A g \in {0, 1} : x[g] # T =>
           /\ p < x[g]
           /\ \A q \in I[p] : Side(m, q, x[g], 1 - g) /\ (Side(m, q, T, g) => q \in I[x[g]])
  BY <1>1 DEF TreeHand, Hand
<1>5. \A g \in {0, 1} : x[g] # p /\ x[g] \in Nodes(m) /\ x[g] \in Nat
  BY HandPlace
<1>6. \A s \in {0, 1} : ~ Open(m, x, p, s)
  BY HandPlace
<1>7. \A s \in {0, 1} : Leads(m, son[Slot(m, p, s)], I, p, s)
  BY <1>2, <1>6 DEF TreeHand, Sound
<1>8. ASSUME NEW h \in {0, 1} PROVE Leads(m, son[Slot(m, p, h)], I, x[h], HoleSide(m, x, h))
  <2>1. PICK u : u = son[Slot(m, p, h)]
    OBVIOUS
  <2>2. Leads(m, u, I, p, h) /\ u \in Nat
    BY <1>7, <2>1 DEF Leads
  <2>3. ASSUME Live(m, u)
        PROVE  /\ Where(m, u) \in 0 .. x[h] - 1
               /\ \A q \in I[Where(m, u)] : q \in I[x[h]] /\ Side(m, q, x[h], HoleSide(m, x, h))
    <3>1. PICK b : b = Where(m, u) /\ b \in 0 .. p - 1 /\ \A q \in I[b] : q \in I[p] /\ Side(m, q, p, h)
      BY <2>2, <2>3 DEF Leads
    <3>2. ASSUME NEW q \in I[b] PROVE Side(m, q, T, h)
      <4>1. q \in 0 .. T /\ p \in 0 .. T /\ T \in 0 .. T /\ Side(m, q, p, h)
        BY <1>2, <1>3, <3>1 DEF Under
      <4>2. Side(m, p, T, h)
        BY <1>1, <4>1, Sides
      <4>3. QED
        BY <1>1, <4>1, <4>2, SidesTrans
    <3>3. CASE x[h] = T
      <4>1. HoleSide(m, x, h) = h
        BY <1>1, <3>3 DEF HoleSide
      <4>2. QED
        BY <1>2, <1>4, <3>1, <3>2, <3>3, <4>1
    <3>4. CASE x[h] # T
      <4>1. HoleSide(m, x, h) = 1 - h /\ p < x[h]
        BY <1>1, <1>4, <3>4 DEF HoleSide
      <4>2. b \in 0 .. x[h] - 1
        BY <1>2, <1>5, <3>1, <4>1
      <4>3. QED
        BY <1>4, <3>1, <3>2, <3>4, <4>1, <4>2
    <3>5. QED
      BY <3>3, <3>4
  <2>4. QED
    BY <2>1, <2>2, <2>3 DEF Leads
<1>9. \A h \in {0, 1} : Leads(m, [g \in {0, 1} |-> son[Slot(m, p, g)]][h], I, x[h], HoleSide(m, x, h))
  BY <1>8
<1>10. SoundAll(m, son2, I)
  BY <1>9, PluggedSound DEF TreeHand
<1>11. QED
  BY <1>10

-----------------------------------------------------------------------------
(* A walk that is not cut short loses nothing: of the nodes V that can be    *)
(* reached, what may lie under one does, as long as it is in K.              *)

\* Places that nothing newer, and not the position, makes useless.
Needed(m, K) == \A q \in K : q \in 0 .. m.taken - 1 /\ ~ Agree(q, m.taken, m.lenLimit)

Older(m, K) == \A q \in K : q \in 0 .. m.taken - 1

Behind(m, v, I, q) == Live(m, v) /\ q \in I[Where(m, v)]

Complete(m, son, v, I, x, V, K) ==
  /\ V \subseteq Nodes(m) /\ m.taken \in V /\ \A h \in {0, 1} : x[h] \in V
  /\ Live(m, v) => Where(m, v) \in V
  /\ \A a \in V, q \in K : q \in I[a] /\ q # a =>
       \/ \E s \in {0, 1} : ~ Open(m, x, a, s) /\ Behind(m, son[Slot(m, a, s)], I, q)
       \/ \E h \in {0, 1} : a = x[h] /\ Behind(m, v, I, q) /\ Side(m, q, m.taken, h)
  /\ \A a \in V, s \in {0, 1} : ~ Open(m, x, a, s) /\ Live(m, son[Slot(m, a, s)]) =>
       /\ Where(m, son[Slot(m, a, s)]) \in V /\ son[Slot(m, a, s)] # v
       /\ \A b \in V, t \in {0, 1} :
            ~ Open(m, x, b, t) /\ son[Slot(m, b, t)] = son[Slot(m, a, s)] => b = a /\ t = s

CompleteAll(m, son, I, V, K) ==
  /\ V \subseteq Nodes(m) /\ m.taken \in V
  /\ \A a \in V, q \in K : q \in I[a] /\ q # a => \E s \in {0, 1} : Behind(m, son[Slot(m, a, s)], I, q)
  /\ \A a \in V, s \in {0, 1} : Live(m, son[Slot(m, a, s)]) =>
       /\ Where(m, son[Slot(m, a, s)]) \in V
       /\ \A b \in V, t \in {0, 1} : son[Slot(m, b, t)] = son[Slot(m, a, s)] => b = a /\ t = s

LEMMA WhereTells ==
  ASSUME CaseOK, NEW m, WindowInv(m), NEW u \in Nat, NEW v \in Nat, Where(m, u) = Where(m, v)
  PROVE  u = v
<1>1. PICK t \in Nat, p \in Nat : t = m.taken /\ p = m.pos
  BY PlaceIs
<1>2. PICK a \in Int : a = Where(m, u) /\ a = Where(m, v)
  BY WhereIs
<1>3. t - a = p - u /\ t - a = p - v
  BY <1>1, <1>2, WhereIs
<1>4. QED
  BY <1>1, <1>2, <1>3

\* A turn that goes on, past the node p on side h.
Passing(m, son, v, I, x, h, p, I2, son2, x2) ==
  /\ TreeHand(m, son, v, I, x) /\ Live(m, v) /\ p = Where(m, v) /\ Far(m, p, m.taken, h)
  /\ I2 = [I EXCEPT ![p] = {q \in I[p] : Side(m, q, m.taken, h)}]
  /\ son2 = [son EXCEPT ![Hole(m, x, h)] = v] /\ x2 = [x EXCEPT ![h] = p]

LEMMA SideComplete ==
  ASSUME CaseOK, NEW m, WindowInv(m), NEW son, NEW v, NEW I, NEW x, NEW h \in {0, 1}, NEW p,
         NEW I2, NEW son2, NEW x2, Passing(m, son, v, I, x, h, p, I2, son2, x2),
         NEW V, NEW K, Older(m, K), Complete(m, son, v, I, x, V, K)
  PROVE  Complete(m, son2, son[Slot(m, p, 1 - h)], I2, x2, V, K)
<1> SUFFICES ASSUME /\ TreeHand(m, son, v, I, x) /\ Live(m, v) /\ p = Where(m, v) /\ Far(m, p, m.taken, h)
                    /\ I2 = [I EXCEPT ![p] = {q \in I[p] : Side(m, q, m.taken, h)}]
                    /\ son2 = [son EXCEPT ![Hole(m, x, h)] = v] /\ x2 = [x EXCEPT ![h] = p]
             PROVE  Complete(m, son2, son[Slot(m, p, 1 - h)], I2, x2, V, K)
  BY DEF Passing
<1>a. PICK T \in Nat : T = m.taken
  BY NodesAre
<1>b. PICK w : w = son[Slot(m, p, 1 - h)]
  OBVIOUS
<1>1. T = m.taken /\ w = son[Slot(m, p, 1 - h)] /\ \A q \in K : q \in 0 .. T - 1
  BY <1>a, <1>b DEF Older
<1>2. /\ p \in Past(m) /\ p # T /\ \A s \in {0, 1} : ~ Open(m, x, p, s)
      /\ \A a \in Nodes(m), s \in {0, 1} :
           /\ ~ Open(m, x2, a, s) => (a = x[h] /\ s = HoleSide(m, x, h)) \/ ~ Open(m, x, a, s)
           /\ son2[Slot(m, a, s)] = IF a = x[h] /\ s = HoleSide(m, x, h) THEN v ELSE son[Slot(m, a, s)]
  <2>1. p \in Past(m) /\ p # m.taken /\ \A s \in {0, 1} : ~ Open(m, x, p, s)
    BY HandPlace
  <2>2. \A a \in Nodes(m), s \in {0, 1} :
           /\ ~ Open(m, x2, a, s) => (a = x[h] /\ s = HoleSide(m, x, h)) \/ ~ Open(m, x, a, s)
           /\ son2[Slot(m, a, s)] = IF a = x[h] /\ s = HoleSide(m, x, h) THEN v ELSE son[Slot(m, a, s)]
    <3>1. Turned(m, son, v, x, h, son2, x2)
      BY SideTurn
    <3>2. QED
      BY <3>1 DEF Turned
  <2>3. QED
    BY <1>1, <2>1, <2>2
<1>3. x \in [{0, 1} -> Nodes(m)] /\ I \in Places /\ Sons(son) /\ v \in Nat /\ Under(m, I)
  BY DEF TreeHand, Owners, Hand
<1>4. p \in Nodes(m) /\ p \in 0 .. T - 1 /\ V \subseteq Nodes(m) /\ T \in V /\ p \in V
      /\ \A g \in {0, 1} : x[g] \in V
  BY <1>1, <1>2, NodesAre DEF Complete
<1>5. 1 - h \in {0, 1} /\ h # 1 - h /\ \A g \in {0, 1} : g = h \/ g = 1 - h
  OBVIOUS
<1>6. \A s \in {0, 1} : Leads(m, son[Slot(m, p, s)], I, p, s)
  BY <1>2, <1>4 DEF TreeHand, Sound
<1>7. x2 \in [{0, 1} -> Nodes(m)] /\ x2[h] = p /\ x2[1 - h] = x[1 - h] /\ p # x[h] /\ p # x[1 - h]
  <2>1. ASSUME NEW g \in {0, 1} PROVE p # x[g]
    <3>1. HoleSide(m, x, g) \in {0, 1}
      BY <1>3, HolesAre
    <3>2. QED
      BY <1>2, <3>1 DEF Open
  <2>2. QED
    BY <1>3, <1>4, <1>5, <2>1
<1>8. /\ HoleSide(m, x2, h) = 1 - h /\ HoleSide(m, x2, 1 - h) = HoleSide(m, x, 1 - h)
      /\ HoleSide(m, x, h) \in {0, 1} /\ HoleSide(m, x, 1 - h) \in {0, 1}
  <2>1. HoleSide(m, x2, h) = 1 - h
    BY <1>1, <1>2, <1>7 DEF HoleSide
  <2>2. HoleSide(m, x2, 1 - h) = HoleSide(m, x, 1 - h)
    BY <1>7 DEF HoleSide
  <2>3. QED
    BY <1>3, <1>5, <2>1, <2>2, HolesAre
<1>9. (\A a \in Nat : a # p => I2[a] = I[a]) /\ I2[p] = {q \in I[p] : Side(m, q, T, h)}
  BY <1>1, <1>2, <1>3, <1>4 DEF Places
<1>10. \A a \in Nodes(m) : \A q \in I2[a] : q \in I[a]
  BY <1>9, NodesAre
<1>11. ASSUME NEW u \in Nat, u # v, Live(m, u), Where(m, u) \in V PROVE I2[Where(m, u)] = I[Where(m, u)]
  <2>1. Where(m, u) # p
    BY <1>3, <1>11, WhereTells
  <2>2. Where(m, u) \in Nat
    BY <1>4, <1>11, NodesAre
  <2>3. QED
    BY <1>9, <2>1, <2>2
<1>12. ASSUME NEW a \in Nodes(m), NEW s \in {0, 1} PROVE son[Slot(m, a, s)] \in Nat
  BY <1>3, SlotIs DEF Sons
<1>13. ASSUME NEW a \in V, NEW s \in {0, 1}, ~ Open(m, x, a, s), Live(m, son[Slot(m, a, s)])
       PROVE  /\ Where(m, son[Slot(m, a, s)]) \in V /\ son[Slot(m, a, s)] # v
              /\ \A b \in V, t \in {0, 1} :
                   ~ Open(m, x, b, t) /\ son[Slot(m, b, t)] = son[Slot(m, a, s)] => b = a /\ t = s
  BY <1>13 DEF Complete
<1>14. ~ Open(m, x2, x[h], HoleSide(m, x, h)) /\ x[h] \in Nodes(m)
  <2>1. ASSUME NEW g \in {0, 1}, x[h] = x2[g], HoleSide(m, x, h) = HoleSide(m, x2, g) PROVE FALSE
    <3>1. g = 1 - h
      BY <1>5, <1>7, <2>1
    <3>2. x[h] = x[1 - h] /\ HoleSide(m, x, h) = HoleSide(m, x, 1 - h)
      BY <1>7, <1>8, <2>1, <3>1
    <3>3. Hole(m, x, h) = Hole(m, x, 1 - h)
      BY <3>2 DEF Hole
    <3>4. Hole(m, x, 0) # Hole(m, x, 1)
      BY <1>3, HolesAre
    <3>5. QED
      BY <3>3, <3>4
  <2>2. QED
    BY <1>4, <2>1 DEF Open
<1>15. ASSUME NEW a \in Nodes(m), NEW s \in {0, 1}, Open(m, x2, a, s), ~ Open(m, x, a, s)
       PROVE  a = p /\ s = 1 - h
  <2>1. PICK g \in {0, 1} : a = x2[g] /\ s = HoleSide(m, x2, g)
    BY <1>15 DEF Open
  <2>2. CASE g = h
    BY <1>7, <1>8, <2>1, <2>2
  <2>3. CASE g = 1 - h
    <3>1. a = x[1 - h] /\ s = HoleSide(m, x, 1 - h)
      BY <1>7, <1>8, <2>1, <2>3
    <3>2. QED
      BY <1>5, <1>15, <3>1 DEF Open
  <2>4. QED
    BY <1>5, <2>2, <2>3
<1>16. ASSUME NEW a \in V, NEW q \in K, q \in I2[a], q # a
       PROVE  \/ \E s \in {0, 1} : ~ Open(m, x2, a, s) /\ Behind(m, son2[Slot(m, a, s)], I2, q)
              \/ \E g \in {0, 1} : a = x2[g] /\ Behind(m, w, I2, q) /\ Side(m, q, T, g)
  <2>1. q \in I[a] /\ a \in Nodes(m)
    BY <1>4, <1>10, <1>16
  <2>2. \/ \E s \in {0, 1} : ~ Open(m, x, a, s) /\ Behind(m, son[Slot(m, a, s)], I, q)
        \/ \E g \in {0, 1} : a = x[g] /\ Behind(m, v, I, q) /\ Side(m, q, T, g)
    BY <1>1, <1>16, <2>1 DEF Complete
  <2>3. ASSUME NEW s \in {0, 1}, ~ Open(m, x, a, s), Behind(m, son[Slot(m, a, s)], I, q)
        PROVE  \/ ~ Open(m, x2, a, s) /\ Behind(m, son2[Slot(m, a, s)], I2, q)
               \/ a = p /\ s = 1 - h /\ Behind(m, w, I2, q)
    <3>1. PICK u \in Nat : u = son[Slot(m, a, s)]
      BY <1>12, <2>1
    <3>2. Live(m, u) /\ q \in I[Where(m, u)] /\ Where(m, u) \in V /\ u # v
      BY <1>13, <2>3, <3>1 DEF Behind
    <3>3. Behind(m, u, I2, q)
      BY <1>11, <3>2 DEF Behind
    <3>4. CASE Open(m, x2, a, s)
      BY <1>1, <1>15, <2>1, <2>3, <3>1, <3>3, <3>4
    <3>5. CASE ~ Open(m, x2, a, s)
      <4>1. ~ (a = x[h] /\ s = HoleSide(m, x, h))
        BY <2>3 DEF Open
      <4>2. son2[Slot(m, a, s)] = u
        BY <1>2, <2>1, <3>1, <4>1
      <4>3. QED
        BY <3>3, <3>5, <4>2
    <3>6. QED
      BY <3>4, <3>5
  <2>4. ASSUME NEW g \in {0, 1}, a = x[g], Behind(m, v, I, q), Side(m, q, T, g)
        PROVE  \/ \E s \in {0, 1} : ~ Open(m, x2, a, s) /\ Behind(m, son2[Slot(m, a, s)], I2, q)
               \/ \E k \in {0, 1} : a = x2[k] /\ Behind(m, w, I2, q) /\ Side(m, q, T, k)
    <3>1. q \in I[p]
      BY <2>4 DEF Behind
    <3>2. CASE g = h
      <4>1. q \in I2[p]
        BY <1>9, <2>4, <3>1, <3>2
      <4>2. Behind(m, v, I2, q)
        BY <4>1 DEF Behind
      <4>3. son2[Slot(m, a, HoleSide(m, x, h))] = v
        BY <1>2, <1>8, <2>1, <2>4, <3>2
      <4>4. ~ Open(m, x2, a, HoleSide(m, x, h))
        BY <1>14, <2>4, <3>2
      <4>5. QED
        BY <1>8, <4>2, <4>3, <4>4
    <3>3. CASE g = 1 - h
      <4>1. q \in 0 .. T - 1 /\ q \in 0 .. T /\ p \in 0 .. T /\ T \in 0 .. T
        BY <1>1, <1>4
      <4>2. ~ Side(m, p, T, 1 - h)
        BY <1>1, <4>1, Sides
      <4>3. q # p
        BY <2>4, <3>3, <4>2
      <4>4. PICK s \in {0, 1} : Behind(m, son[Slot(m, p, s)], I, q)
        BY <1>4, <1>7, <1>5, <3>1, <4>3 DEF Complete
      <4>5. s = 1 - h
        <5>1. ASSUME s = h PROVE FALSE
          <6>1. Side(m, q, p, h)
            BY <1>6, <4>4, <5>1 DEF Leads, Behind
          <6>2. Side(m, p, T, h)
            BY <1>1, <4>1, Sides
          <6>3. Far(m, q, T, h)
            BY <1>1, <4>1, <6>1, <6>2, SidesTrans
          <6>4. ~ Side(m, q, T, 1 - h)
            BY <1>1, <4>1, <6>3, Sides
          <6>5. QED
            BY <2>4, <3>3, <6>4
        <5>2. QED
          BY <5>1
      <4>6. \/ ~ Open(m, x2, p, s) /\ Behind(m, son2[Slot(m, p, s)], I2, q)
            \/ Behind(m, w, I2, q)
        <5>1. PICK u \in Nat : u = son[Slot(m, p, s)]
          BY <1>4, <1>12
        <5>2. Live(m, u) /\ q \in I[Where(m, u)] /\ Where(m, u) \in V /\ u # v
          BY <1>2, <1>4, <1>13, <4>4, <5>1 DEF Behind
        <5>3. QED
          BY <1>1, <1>11, <4>5, <5>1, <5>2 DEF Behind
      <4>7. Behind(m, w, I2, q)
        <5>1. Open(m, x2, p, s)
          BY <1>7, <1>8, <4>5 DEF Open
        <5>2. QED
          BY <4>6, <5>1
      <4>8. QED
        BY <1>5, <1>7, <2>4, <3>3, <4>7
    <3>4. QED
      BY <1>5, <3>2, <3>3
  <2>5. CASE \E s \in {0, 1} : ~ Open(m, x, a, s) /\ Behind(m, son[Slot(m, a, s)], I, q)
    <3>1. PICK s \in {0, 1} : ~ Open(m, x, a, s) /\ Behind(m, son[Slot(m, a, s)], I, q)
      BY <2>5
    <3>2. CASE a = p /\ s = 1 - h /\ Behind(m, w, I2, q)
      <4>1. a = x2[h] /\ Side(m, q, T, h)
        BY <1>7, <1>9, <1>16, <3>2
      <4>2. QED
        BY <3>2, <4>1
    <3>3. QED
      BY <2>3, <3>1, <3>2
  <2>6. QED
    BY <2>2, <2>4, <2>5
<1>17. ASSUME NEW a \in V, NEW s \in {0, 1}, ~ Open(m, x2, a, s), Live(m, son2[Slot(m, a, s)])
       PROVE  /\ Where(m, son2[Slot(m, a, s)]) \in V /\ son2[Slot(m, a, s)] # w
              /\ \A b \in V, t \in {0, 1} :
                   ~ Open(m, x2, b, t) /\ son2[Slot(m, b, t)] = son2[Slot(m, a, s)] => b = a /\ t = s
  <2>1. /\ a \in Nodes(m) /\ V \subseteq Nodes(m)
        /\ \A b \in V, t \in {0, 1} :
             /\ ~ Open(m, x2, b, t) => (b = x[h] /\ t = HoleSide(m, x, h)) \/ ~ Open(m, x, b, t)
             /\ son2[Slot(m, b, t)] = IF b = x[h] /\ t = HoleSide(m, x, h) THEN v ELSE son[Slot(m, b, t)]
    BY <1>2, <1>4
  <2>2. CASE a = x[h] /\ s = HoleSide(m, x, h)
    <3>1. son2[Slot(m, a, s)] = v
      BY <2>1, <2>2
    <3>2. v # w
      <4>1. ASSUME v = w PROVE FALSE
        <5>1. Where(m, w) \in 0 .. p - 1
          BY <1>1, <1>5, <1>6, <4>1 DEF Leads
        <5>2. QED
          BY <1>4, <4>1, <5>1
      <4>2. QED
        BY <4>1
    <3>3. ASSUME NEW b \in V, NEW t \in {0, 1}, ~ Open(m, x2, b, t), son2[Slot(m, b, t)] = v
          PROVE  b = x[h] /\ t = HoleSide(m, x, h)
      <4>1. ASSUME ~ (b = x[h] /\ t = HoleSide(m, x, h)) PROVE FALSE
        <5>1. ~ Open(m, x, b, t) /\ son[Slot(m, b, t)] = v
          BY <2>1, <3>3, <4>1
        <5>2. QED
          BY <1>13, <5>1
      <4>2. QED
        BY <4>1
    <3>4. QED
      BY <1>4, <2>2, <3>1, <3>2, <3>3
  <2>3. CASE ~ (a = x[h] /\ s = HoleSide(m, x, h))
    <3>1. ~ Open(m, x, a, s) /\ son2[Slot(m, a, s)] = son[Slot(m, a, s)]
      BY <1>17, <2>1, <2>3
    <3>2. PICK u : u = son[Slot(m, a, s)]
      OBVIOUS
    <3>3. Live(m, u) /\ Where(m, u) \in V /\ u # v
      BY <1>13, <1>17, <3>1, <3>2
    <3>4. u # w
      <4>1. ASSUME u = w PROVE FALSE
        <5>1. p = a /\ 1 - h = s
          BY <1>1, <1>2, <1>4, <1>5, <1>13, <1>17, <3>1, <3>2, <4>1
        <5>2. QED
          BY <1>7, <1>8, <1>17, <5>1 DEF Open
      <4>2. QED
        BY <4>1
    <3>5. ASSUME NEW b \in V, NEW t \in {0, 1}, ~ Open(m, x2, b, t), son2[Slot(m, b, t)] = u
          PROVE  b = a /\ t = s
      <4>1. ~ (b = x[h] /\ t = HoleSide(m, x, h))
        BY <2>1, <3>3, <3>5
      <4>2. ~ Open(m, x, b, t) /\ son[Slot(m, b, t)] = u
        BY <2>1, <3>5, <4>1
      <4>3. QED
        BY <1>13, <1>17, <3>1, <3>2, <4>2
    <3>6. QED
      BY <3>1, <3>2, <3>3, <3>4, <3>5
  <2>4. QED
    BY <2>2, <2>3
<1>18. Live(m, w) => Where(m, w) \in V
  BY <1>1, <1>2, <1>4, <1>5, <1>13
<1>19. \A g \in {0, 1} : x2[g] \in V
  BY <1>4, <1>5, <1>7
<1>20. Complete(m, son2, w, I2, x2, V, K)
  <2>1. V \subseteq Nodes(m) /\ m.taken \in V /\ \A g \in {0, 1} : x2[g] \in V
    BY <1>1, <1>4, <1>19
  <2>2. \A a \in V, q \in K : q \in I2[a] /\ q # a =>
          \/ \E s \in {0, 1} : ~ Open(m, x2, a, s) /\ Behind(m, son2[Slot(m, a, s)], I2, q)
          \/ \E g \in {0, 1} : a = x2[g] /\ Behind(m, w, I2, q) /\ Side(m, q, m.taken, g)
    <3>1. TAKE a \in V, q \in K
    <3>2. HAVE q \in I2[a] /\ q # a
    <3>3. \/ \E s \in {0, 1} : ~ Open(m, x2, a, s) /\ Behind(m, son2[Slot(m, a, s)], I2, q)
          \/ \E g \in {0, 1} : a = x2[g] /\ Behind(m, w, I2, q) /\ Side(m, q, T, g)
      BY <1>16, <3>2
    <3>4. QED
      BY <1>1, <3>3
  <2>3. \A a \in V, s \in {0, 1} : ~ Open(m, x2, a, s) /\ Live(m, son2[Slot(m, a, s)]) =>
          /\ Where(m, son2[Slot(m, a, s)]) \in V /\ son2[Slot(m, a, s)] # w
          /\ \A b \in V, t \in {0, 1} :
               ~ Open(m, x2, b, t) /\ son2[Slot(m, b, t)] = son2[Slot(m, a, s)] => b = a /\ t = s
    BY <1>17
  <2>4. QED
    BY <2>1, <2>2, <2>3, <1>18 DEF Complete
<1>21. QED
  BY <1>1, <1>20

LEMMA WholeComplete ==
  ASSUME CaseOK, NEW m, WindowInv(m), NEW son, NEW v, NEW I, NEW x, TreeHand(m, son, v, I, x),
         Live(m, v), NEW p, p = Where(m, v), Agree(p, m.taken, m.lenLimit), NEW son2,
         Plugged(m, son, x, [h \in {0, 1} |-> son[Slot(m, p, h)]], son2),
         NEW V, NEW K, Needed(m, K), Complete(m, son, v, I, x, V, K)
  PROVE  CompleteAll(m, son2, I, V \ {p}, K)
<1>1. PICK T \in Nat : T = m.taken
  BY NodesAre
<1>2. p \in Past(m) /\ p # T /\ \A s \in {0, 1} : ~ Open(m, x, p, s)
  BY <1>1, HandPlace
<1>3. x \in [{0, 1} -> Nodes(m)] /\ Sons(son) /\ v \in Nat /\ Under(m, I)
  BY DEF TreeHand, Owners, Hand
<1>4. p \in Nodes(m) /\ p \in 0 .. T - 1 /\ V \subseteq Nodes(m) /\ T \in V /\ p \in V
      /\ \A g \in {0, 1} : x[g] \in V
  BY <1>1, <1>2, NodesAre DEF Complete
<1>5. \A s \in {0, 1} : Leads(m, son[Slot(m, p, s)], I, p, s)
  BY <1>2, <1>4 DEF TreeHand, Sound
<1>6. \A g \in {0, 1} : p # x[g] /\ HoleSide(m, x, g) \in {0, 1}
  <2>1. ASSUME NEW g \in {0, 1} PROVE p # x[g] /\ HoleSide(m, x, g) \in {0, 1}
    <3>1. HoleSide(m, x, g) \in {0, 1}
      BY <1>3, HolesAre
    <3>2. QED
      BY <1>2, <3>1 DEF Open
  <2>2. QED
    BY <2>1
<1>7. ASSUME NEW a \in Nodes(m), NEW s \in {0, 1} PROVE son[Slot(m, a, s)] \in Nat
  BY <1>3, SlotIs DEF Sons
<1>8. ASSUME NEW a \in V, NEW s \in {0, 1}, ~ Open(m, x, a, s), Live(m, son[Slot(m, a, s)])
      PROVE  /\ Where(m, son[Slot(m, a, s)]) \in V /\ Where(m, son[Slot(m, a, s)]) # p
             /\ \A b \in V, t \in {0, 1} :
                  ~ Open(m, x, b, t) /\ son[Slot(m, b, t)] = son[Slot(m, a, s)] => b = a /\ t = s
  <2>1. /\ Where(m, son[Slot(m, a, s)]) \in V /\ son[Slot(m, a, s)] # v
        /\ \A b \in V, t \in {0, 1} :
             ~ Open(m, x, b, t) /\ son[Slot(m, b, t)] = son[Slot(m, a, s)] => b = a /\ t = s
    BY <1>8 DEF Complete
  <2>2. Where(m, son[Slot(m, a, s)]) # p
    BY <1>3, <1>4, <1>7, <2>1, WhereTells
  <2>3. QED
    BY <2>1, <2>2
<1>9. ASSUME NEW a \in Nodes(m), NEW s \in {0, 1}
      PROVE  /\ ~ Open(m, x, a, s) => son2[Slot(m, a, s)] = son[Slot(m, a, s)]
             /\ \A g \in {0, 1} : a = x[g] /\ s = HoleSide(m, x, g) =>
                  son2[Slot(m, a, s)] = son[Slot(m, p, g)]
  <2>1. \A g \in {0, 1} : [h \in {0, 1} |-> son[Slot(m, p, h)]][g] = son[Slot(m, p, g)]
    OBVIOUS
  <2>2. QED
    BY <2>1 DEF Plugged
<1>10. ASSUME NEW a \in V \ {p}, NEW q \in K, q \in I[a], q # a
       PROVE  \E s \in {0, 1} : Behind(m, son2[Slot(m, a, s)], I, q)
  <2>1. a \in V /\ a \in Nodes(m)
    BY <1>4
  <2>2. \/ \E s \in {0, 1} : ~ Open(m, x, a, s) /\ Behind(m, son[Slot(m, a, s)], I, q)
        \/ \E g \in {0, 1} : a = x[g] /\ Behind(m, v, I, q) /\ Side(m, q, T, g)
    BY <1>1, <1>10, <2>1 DEF Complete
  <2>3. CASE \E s \in {0, 1} : ~ Open(m, x, a, s) /\ Behind(m, son[Slot(m, a, s)], I, q)
    BY <1>9, <2>1, <2>3
  <2>4. ASSUME NEW g \in {0, 1}, a = x[g], Behind(m, v, I, q), Side(m, q, T, g)
        PROVE  \E s \in {0, 1} : Behind(m, son2[Slot(m, a, s)], I, q)
    <3>1. q \in I[p] /\ q # p
      BY <1>1, <2>4 DEF Behind, Needed
    <3>2. PICK s \in {0, 1} : Behind(m, son[Slot(m, p, s)], I, q)
      BY <1>4, <1>6, <3>1 DEF Complete
    <3>3. q \in 0 .. T /\ p \in 0 .. T /\ T \in 0 .. T /\ ~ Agree(q, T, m.lenLimit)
      BY <1>1, <1>4 DEF Needed
    <3>4. Side(m, q, p, s)
      BY <1>5, <3>2 DEF Leads, Behind
    <3>5. Side(m, p, T, s)
      BY <1>1, <3>3, Sides
    <3>6. Side(m, q, T, s)
      BY <1>1, <3>3, <3>4, <3>5, SidesTrans
    <3>7. s = g
      <4>1. ASSUME s = 1 - g PROVE FALSE
        BY <1>1, <2>4, <3>3, <3>6, <4>1, Sides
      <4>2. QED
        BY <4>1
    <3>8. son2[Slot(m, a, HoleSide(m, x, g))] = son[Slot(m, p, g)]
      BY <1>6, <1>9, <2>1, <2>4
    <3>9. QED
      BY <1>6, <3>2, <3>7, <3>8
  <2>5. QED
    BY <2>2, <2>3, <2>4
<1>11. ASSUME NEW a \in V \ {p}, NEW s \in {0, 1}
       PROVE  \E c \in V, k \in {0, 1} :
                /\ ~ Open(m, x, c, k) /\ son2[Slot(m, a, s)] = son[Slot(m, c, k)]
                /\ \/ ~ Open(m, x, a, s) /\ c = a /\ k = s
                   \/ c = p /\ a = x[k] /\ s = HoleSide(m, x, k)
  <2>1. a \in V /\ a \in Nodes(m)
    BY <1>4
  <2>2. CASE ~ Open(m, x, a, s)
    BY <1>9, <2>1, <2>2
  <2>3. CASE Open(m, x, a, s)
    <3>1. PICK g \in {0, 1} : a = x[g] /\ s = HoleSide(m, x, g)
      BY <2>3 DEF Open
    <3>2. QED
      BY <1>2, <1>4, <1>9, <2>1, <3>1
  <2>4. QED
    BY <2>2, <2>3
<1>12. ASSUME NEW a \in V \ {p}, NEW s \in {0, 1}, Live(m, son2[Slot(m, a, s)])
       PROVE  /\ Where(m, son2[Slot(m, a, s)]) \in V \ {p}
              /\ \A b \in V \ {p}, t \in {0, 1} :
                   son2[Slot(m, b, t)] = son2[Slot(m, a, s)] => b = a /\ t = s
  <2>1. PICK c \in V, k \in {0, 1} :
          /\ ~ Open(m, x, c, k) /\ son2[Slot(m, a, s)] = son[Slot(m, c, k)]
          /\ \/ ~ Open(m, x, a, s) /\ c = a /\ k = s
             \/ c = p /\ a = x[k] /\ s = HoleSide(m, x, k)
    BY <1>11
  <2>2. /\ Where(m, son[Slot(m, c, k)]) \in V /\ Where(m, son[Slot(m, c, k)]) # p
        /\ \A b \in V, t \in {0, 1} :
             ~ Open(m, x, b, t) /\ son[Slot(m, b, t)] = son[Slot(m, c, k)] => b = c /\ t = k
    BY <1>8, <1>12, <2>1
  <2>3. ASSUME NEW b \in V \ {p}, NEW t \in {0, 1}, son2[Slot(m, b, t)] = son2[Slot(m, a, s)]
        PROVE  b = a /\ t = s
    <3>1. PICK d \in V, j \in {0, 1} :
            /\ ~ Open(m, x, d, j) /\ son2[Slot(m, b, t)] = son[Slot(m, d, j)]
            /\ \/ ~ Open(m, x, b, t) /\ d = b /\ j = t
               \/ d = p /\ b = x[j] /\ t = HoleSide(m, x, j)
      BY <1>11
    <3>2. d = c /\ j = k
      BY <2>1, <2>2, <2>3, <3>1
    <3>3. QED
      BY <2>1, <3>1, <3>2
  <2>4. QED
    BY <2>1, <2>2, <2>3
<1>13. V \ {p} \subseteq Nodes(m) /\ m.taken \in V \ {p}
  BY <1>1, <1>2, <1>4
<1>14. QED
  BY <1>10, <1>12, <1>13 DEF CompleteAll

LEMMA EmptyComplete ==
  ASSUME CaseOK, NEW m, WindowInv(m), NEW son, NEW v, NEW I, NEW x, x \in [{0, 1} -> Nodes(m)], ~ Live(m, v),
         NEW son2, Plugged(m, son, x, [h \in {0, 1} |-> Empty], son2),
         NEW V, NEW K, Complete(m, son, v, I, x, V, K)
  PROVE  CompleteAll(m, son2, I, V, K)
<1>1. ~ Live(m, Empty)
  BY WhereIs DEF Empty
<1>2. V \subseteq Nodes(m) /\ m.taken \in V
  BY DEF Complete
<1>3. ASSUME NEW a \in V, NEW s \in {0, 1}
      PROVE  IF Open(m, x, a, s) THEN ~ Live(m, son2[Slot(m, a, s)])
                                 ELSE son2[Slot(m, a, s)] = son[Slot(m, a, s)]
  <2>1. a \in Nodes(m)
    BY <1>2
  <2>2. CASE Open(m, x, a, s)
    <3>1. PICK g \in {0, 1} : a = x[g] /\ s = HoleSide(m, x, g)
      BY <2>2 DEF Open
    <3>2. son2[Slot(m, a, s)] = Empty
      BY <2>1, <3>1 DEF Plugged
    <3>3. QED
      BY <1>1, <2>2, <3>2
  <2>3. CASE ~ Open(m, x, a, s)
    BY <2>1, <2>3 DEF Plugged
  <2>4. QED
    BY <2>2, <2>3
<1>4. ASSUME NEW a \in V, NEW q \in K, q \in I[a], q # a
      PROVE  \E s \in {0, 1} : Behind(m, son2[Slot(m, a, s)], I, q)
  <2>1. PICK s \in {0, 1} : ~ Open(m, x, a, s) /\ Behind(m, son[Slot(m, a, s)], I, q)
    BY <1>4 DEF Complete, Behind
  <2>2. QED
    BY <1>3, <2>1
<1>5. ASSUME NEW a \in V, NEW s \in {0, 1}, Live(m, son2[Slot(m, a, s)])
      PROVE  /\ Where(m, son2[Slot(m, a, s)]) \in V
             /\ \A b \in V, t \in {0, 1} : son2[Slot(m, b, t)] = son2[Slot(m, a, s)] => b = a /\ t = s
  <2>1. ~ Open(m, x, a, s) /\ son2[Slot(m, a, s)] = son[Slot(m, a, s)]
    BY <1>3, <1>5
  <2>2. /\ Where(m, son[Slot(m, a, s)]) \in V
        /\ \A b \in V, t \in {0, 1} :
             ~ Open(m, x, b, t) /\ son[Slot(m, b, t)] = son[Slot(m, a, s)] => b = a /\ t = s
    BY <1>5, <2>1 DEF Complete
  <2>3. ASSUME NEW b \in V, NEW t \in {0, 1}, son2[Slot(m, b, t)] = son2[Slot(m, a, s)]
        PROVE  b = a /\ t = s
    <3>1. ~ Open(m, x, b, t) /\ son2[Slot(m, b, t)] = son[Slot(m, b, t)]
      BY <1>3, <1>5, <2>3
    <3>2. QED
      BY <2>1, <2>2, <2>3, <3>1
  <2>4. QED
    BY <2>1, <2>2, <2>3
<1>6. QED
  BY <1>2, <1>4, <1>5 DEF CompleteAll

-----------------------------------------------------------------------------
(* The turns of the walk of a search.                                        *)

\* n bytes of the node with the hole h are known to be those of the position.
Reach(m, x, h, n) ==
  n \in 0 .. m.lenLimit /\ (IF x[h] = m.taken THEN n = 0 ELSE Agree(x[h], m.taken, n))

Stand(m, w, I, x) ==
  /\ DOMAIN w = WalkFields /\ w.done = FALSE /\ w.maxLen \in Nat /\ w.maxLen < m.lenLimit
  /\ TreeHand(m, w.son, w.cur, I, x)
  /\ w.ptr1 = Hole(m, x, 0) /\ w.ptr0 = Hole(m, x, 1)
  /\ Reach(m, x, 0, w.len1) /\ Reach(m, x, 1, w.len0)

MatchOf(m, w) == MatchLen(m, m.pos - w.cur, Shorter(w.len0, w.len1))

Lengthened(m, w) == IF w.maxLen < MatchOf(m, w)
                      THEN Append(w.found, Found(MatchOf(m, w), m.pos - w.cur)) ELSE w.found

LEMMA HandIs ==
  ASSUME CaseOK, NEW m, WindowInv(m), NEW w, NEW I, NEW x, Stand(m, w, I, x),
         Live(m, w.cur), NEW p, p = Where(m, w.cur)
  PROVE  /\ p \in Past(m) /\ p \in 0 .. m.taken - 1 /\ m.pos - w.cur = m.taken - p
         /\ p \in Nodes(m) /\ x \in [{0, 1} -> Nodes(m)] /\ p \in I[p] /\ w.cur \in Nat /\ Sons(w.son)
         /\ \A h \in {0, 1} : x[h] # m.taken =>
              Side(m, p, x[h], 1 - h) /\ Far(m, x[h], m.taken, h) /\ x[h] \in 0 .. m.taken
<1>1. w.cur \in Nat /\ Where(m, w.cur) \in 0 .. m.taken - 1 /\ x \in [{0, 1} -> Nodes(m)]
  BY DEF Stand, TreeHand, Hand, Owners
<1>2. p \in Past(m) /\ m.pos - w.cur = m.taken - p
  BY <1>1, WhereIs
<1>3. p \in Nodes(m)
  BY <1>2, NodesAre
<1>4. p \in I[p]
  BY <1>3 DEF Stand, TreeHand, Under
<1>5. ASSUME NEW h \in {0, 1}, x[h] # m.taken
      PROVE  Side(m, p, x[h], 1 - h) /\ Far(m, x[h], m.taken, h) /\ x[h] \in 0 .. m.taken
  <2>1. Side(m, p, x[h], 1 - h)
    BY <1>4, <1>5 DEF Stand, TreeHand, Hand
  <2>2. Far(m, x[h], m.taken, h)
    BY <1>5 DEF Stand, TreeHand, Owners
  <2>3. x[h] \in 0 .. m.taken
    BY <1>1, NodesAre
  <2>4. QED
    BY <2>1, <2>2, <2>3
<1>6. Sons(w.son)
  BY DEF Stand, TreeHand
<1>7. QED
  BY <1>1, <1>2, <1>3, <1>4, <1>5, <1>6

\* What the walk knows before it compares is true.
LEMMA KnownIs ==
  ASSUME CaseOK, NEW m, WindowInv(m), NEW w, NEW I, NEW x, Stand(m, w, I, x),
         Live(m, w.cur), NEW p, p = Where(m, w.cur)
  PROVE  \E n \in 0 .. m.lenLimit : n = Shorter(w.len0, w.len1) /\ Agree(p, m.taken, n)
<1>1. PICK T \in Nat, L \in Nat : T = m.taken /\ L = m.lenLimit
  BY PlaceIs
<1>2. p \in 0 .. T /\ T \in 0 .. T
  BY <1>1, HandIs
<1>3. \A h \in {0, 1} : x[h] # T => Side(m, p, x[h], 1 - h) /\ Far(m, x[h], T, h) /\ x[h] \in 0 .. T
  BY <1>1, HandIs
<1>4. PICK n0 \in 0 .. L, n1 \in 0 .. L : n0 = w.len0 /\ n1 = w.len1
  BY <1>1 DEF Stand, Reach
<1>5. PICK n \in 0 .. L : n = Shorter(w.len0, w.len1) /\ n <= n0 /\ n <= n1
  BY <1>4 DEF Shorter
<1>6. ASSUME NEW h \in {0, 1}, Side(m, p, T, h), NEW k \in 0 .. L, n <= k,
             IF x[h] = T THEN k = 0 ELSE Agree(x[h], T, k)
      PROVE  Agree(p, T, n)
  <2>1. CASE x[h] = T
    <3>1. n = 0
      BY <1>6, <2>1
    <3>2. QED
      BY <3>1 DEF Agree
  <2>2. CASE x[h] # T
    <3>1. Side(m, p, x[h], 1 - h) /\ x[h] \in 0 .. T
      BY <1>3, <2>2
    <3>2. Side(m, x[h], p, h)
      BY <1>1, <1>2, <3>1, Sides
    <3>3. Agree(p, T, k)
      BY <1>1, <1>2, <1>6, <2>2, <3>1, <3>2, SidesTrans
    <3>4. n \in 0 .. k /\ k \in Nat
      BY <1>6
    <3>5. QED
      BY <3>3, <3>4, AgreeFewer
  <2>3. QED
    BY <2>1, <2>2
<1>7. Side(m, p, T, 0) \/ Side(m, p, T, 1)
  <2>1. Side(m, p, T, 0) \/ Side(m, p, T, 1 - 0)
    BY <1>1, <1>2, Sides
  <2>2. QED
    BY <2>1
<1>8. /\ IF x[0] = T THEN n1 = 0 ELSE Agree(x[0], T, n1)
      /\ IF x[1] = T THEN n0 = 0 ELSE Agree(x[1], T, n0)
  BY <1>1, <1>4 DEF Stand, Reach
<1>9. Agree(p, T, n)
  BY <1>5, <1>6, <1>7, <1>8
<1>10. QED
  BY <1>1, <1>5, <1>9

LEMMA MatchOfIs ==
  ASSUME CaseOK, NEW m, WindowInv(m), NEW w, NEW I, NEW x, Stand(m, w, I, x),
         Live(m, w.cur), NEW p, p = Where(m, w.cur)
  PROVE  LET len == MatchOf(m, w)
             d   == m.pos - w.cur
         IN  /\ len \in 0 .. m.lenLimit /\ Agree(p, m.taken, len)
             /\ len < m.lenLimit => ~ Agree(p, m.taken, len + 1)
             /\ len < m.lenLimit => IF Cur(m, len - d) < Cur(m, len) THEN Far(m, p, m.taken, 0)
                                                                     ELSE Far(m, p, m.taken, 1)
<1>1. PICK T \in Nat, L \in Nat : T = m.taken /\ L = m.lenLimit /\ T + L <= size /\ size \in Nat
  BY PlaceIs
<1>2. PICK n \in 0 .. L : n = Shorter(w.len0, w.len1) /\ Agree(p, T, n)
  BY <1>1, KnownIs
<1>3. p \in Past(m) /\ p \in 0 .. T - 1 /\ m.pos - w.cur = T - p
  BY <1>1, HandIs
<1>4. PICK len, d : len = MatchOf(m, w) /\ d = T - p /\ len = MatchLen(m, d, n)
  BY <1>2, <1>3 DEF MatchOf
<1>5. /\ len \in n .. L /\ Agree(p, T, len)
      /\ len < L => /\ ByteAt(p + len) # ByteAt(T + len)
                    /\ Cur(m, len - d) = ByteAt(p + len) /\ Cur(m, len) = ByteAt(T + len)
  BY <1>1, <1>2, <1>3, <1>4, MatchLenRight
<1>6. len \in 0 .. L /\ len \in Nat
  BY <1>1, <1>2, <1>5
<1>7. ASSUME len < L
      PROVE  /\ ~ Agree(p, T, len + 1)
             /\ IF Cur(m, len - d) < Cur(m, len) THEN Far(m, p, T, 0) ELSE Far(m, p, T, 1)
  <2>1. ~ Agree(p, T, len + 1)
    <3>1. len \in 0 .. (len + 1) - 1
      BY <1>6
    <3>2. QED
      BY <1>5, <1>7, <3>1 DEF Agree
  <2>2. p + len \in Nat /\ T + len \in Nat /\ p + len < size /\ T + len < size
    BY <1>1, <1>3, <1>6, <1>7
  <2>3. PICK y \in Int, z \in Int : y = ByteAt(p + len) /\ z = ByteAt(T + len)
    BY <2>2, ByteIs
  <2>4. y # z /\ len \in 0 .. L - 1 /\ (Cur(m, len - d) < Cur(m, len) <=> y < z)
    BY <1>5, <1>6, <1>7, <2>3
  <2>5. CASE y < z
    <3>1. Strict(p, T, L)
      BY <1>5, <2>3, <2>4, <2>5 DEF Strict
    <3>2. QED
      BY <1>1, <2>1, <2>4, <2>5, <3>1 DEF Far
  <2>6. CASE ~ (y < z)
    <3>1. z < y
      BY <2>3, <2>4, <2>6
    <3>2. Agree(T, p, len)
      BY <1>5, AgreeSym
    <3>3. Strict(T, p, L)
      BY <2>3, <2>4, <3>1, <3>2 DEF Strict
    <3>4. QED
      BY <1>1, <2>1, <2>4, <2>6, <3>3 DEF Far
  <2>7. QED
    BY <2>5, <2>6
<1>8. QED
  BY <1>1, <1>3, <1>4, <1>5, <1>6, <1>7

\* The text has nothing more that is near enough.
LEMMA TurnDead ==
  ASSUME CaseOK, NEW m, WindowInv(m), NEW w, NEW I, NEW x, Stand(m, w, I, x), ~ Live(m, w.cur),
         NEW w2, w2 = TreeTurn(m, w, TRUE)
  PROVE  /\ w2.done = TRUE /\ w2.found = w.found /\ Sons(w2.son) /\ SoundAll(m, w2.son, I)
         /\ \A V, K : Complete(m, w.son, w.cur, I, x, V, K) => CompleteAll(m, w2.son, I, V, K)
<1>1. TreeHand(m, w.son, w.cur, I, x) /\ Sons(w.son) /\ x \in [{0, 1} -> Nodes(m)] /\ w.cur \in Nat
      /\ DOMAIN w = WalkFields
  BY DEF Stand, TreeHand, Owners, Hand
<1>2. m.pos - w.cur >= cyclicBufferSize
  BY <1>1, WhereIs
<1>3. w2 = [w EXCEPT !.done = TRUE, !.son[w.ptr0] = Empty, !.son[w.ptr1] = Empty]
  BY <1>2 DEF TreeTurn
<1>4. w2.done = TRUE /\ w2.found = w.found /\ w2.son = [w.son EXCEPT ![w.ptr0] = Empty, ![w.ptr1] = Empty]
  BY <1>1, <1>3 DEF WalkFields
<1>5. PICK u : u = [h \in {0, 1} |-> Empty]
  OBVIOUS
<1>6. u[0] = Empty /\ u[1] = Empty /\ \A h \in {0, 1} : u[h] \in Nat
  BY <1>5 DEF Empty
<1>7. Plugged(m, w.son, x, u, [w.son EXCEPT ![Hole(m, x, 1)] = u[1], ![Hole(m, x, 0)] = u[0]])
  BY <1>1, <1>6, PluggedIs
<1>8. Plugged(m, w.son, x, [h \in {0, 1} |-> Empty], w2.son)
  BY <1>4, <1>5, <1>6, <1>7 DEF Stand
<1>9. Sons(w2.son)
  BY <1>8 DEF Plugged
<1>10. SoundAll(m, w2.son, I)
  BY <1>1, <1>8, EmptySound
<1>11. ASSUME NEW V, NEW K, Complete(m, w.son, w.cur, I, x, V, K) PROVE CompleteAll(m, w2.son, I, V, K)
  BY <1>1, <1>8, <1>11, EmptyComplete
<1>12. QED
  BY <1>4, <1>9, <1>10, <1>11

\* One more than the match is not a match, so that what is known to match in all is whole.
LEMMA TurnWhole ==
  ASSUME CaseOK, NEW m, WindowInv(m), NEW w, NEW I, NEW x, Stand(m, w, I, x), Live(m, w.cur),
         MatchOf(m, w) = m.lenLimit, NEW w2, w2 = TreeTurn(m, w, TRUE), NEW p, p = Where(m, w.cur)
  PROVE  /\ w2.done = TRUE /\ w2.found = Lengthened(m, w) /\ Sons(w2.son) /\ SoundAll(m, w2.son, I)
         /\ \A V, K : Needed(m, K) /\ Complete(m, w.son, w.cur, I, x, V, K) =>
              CompleteAll(m, w2.son, I, V \ {p}, K)
<1>1. TreeHand(m, w.son, w.cur, I, x) /\ Sons(w.son) /\ x \in [{0, 1} -> Nodes(m)] /\ w.cur \in Nat
      /\ DOMAIN w = WalkFields /\ w.maxLen < m.lenLimit
  BY DEF Stand, TreeHand, Owners, Hand
<1>2. PICK d \in Nat : d = m.pos - w.cur /\ d < cyclicBufferSize /\ d = m.taken - p /\ m.taken \in Nat
      /\ cyclicBufferSize \in Nat
  <2>1. p \in 0 .. m.taken - 1 /\ m.pos - w.cur = m.taken - p /\ m.taken \in Nat /\ cyclicBufferSize \in Nat
    BY HandIs, PlaceIs
  <2>2. m.pos - w.cur < cyclicBufferSize
    BY DEF Live
  <2>3. QED
    BY <2>1, <2>2
<1>3. PICK found : found = Lengthened(m, w)
  OBVIOUS
<1>4. PICK pair : pair = 2 * Node(m, d)
  OBVIOUS
<1>5. w2 = [w EXCEPT !.done = TRUE, !.found = found,
                     !.son[w.ptr1] = w.son[pair], !.son[w.ptr0] = w.son[pair + 1]]
  <2>1. ~ (d >= cyclicBufferSize)
    BY <1>2
  <2>2. MatchLen(m, d, Shorter(w.len0, w.len1)) = m.lenLimit
        /\ found = IF w.maxLen < m.lenLimit THEN Append(w.found, Found(m.lenLimit, d)) ELSE w.found
    BY <1>2, <1>3 DEF MatchOf, Lengthened
  <2>3. QED
    BY <1>1, <1>2, <1>4, <2>1, <2>2 DEF TreeTurn
<1>6. pair = Slot(m, p, 0) /\ pair + 1 = Slot(m, p, 1)
  <2>1. p \in Nodes(m)
    BY HandIs
  <2>2. Slot(m, p, 0) = 2 * Node(m, d) + 0 /\ Slot(m, p, 1) = 2 * Node(m, d) + 1 /\ Slot(m, p, 0) \in Nat
    BY <1>2, <2>1, SlotIs DEF Slot
  <2>3. d \in 0 .. cyclicBufferSize - 1
    BY <1>2
  <2>4. Node(m, d) \in Nat
    BY <2>3, NodeIs, PlaceIs
  <2>5. QED
    BY <1>4, <2>2, <2>4
<1>7. w2.done = TRUE /\ w2.found = found
      /\ w2.son = [w.son EXCEPT ![w.ptr1] = w.son[pair], ![w.ptr0] = w.son[pair + 1]]
  BY <1>1, <1>5 DEF WalkFields
<1>8. PICK u : u = [h \in {0, 1} |-> w.son[Slot(m, p, h)]]
  OBVIOUS
<1>9. u[0] = w.son[pair] /\ u[1] = w.son[pair + 1] /\ \A h \in {0, 1} : u[h] \in Nat
  <2>1. \A h \in {0, 1} : Slot(m, p, h) \in 0 .. 2 * cyclicBufferSize - 1
    BY HandIs, SlotIs
  <2>2. QED
    BY <1>1, <1>6, <1>8, <2>1 DEF Sons
<1>10. Plugged(m, w.son, x, u, [w.son EXCEPT ![Hole(m, x, 0)] = u[0], ![Hole(m, x, 1)] = u[1]])
  BY <1>1, <1>9, PluggedIs
<1>11. Plugged(m, w.son, x, [h \in {0, 1} |-> w.son[Slot(m, p, h)]], w2.son)
  BY <1>7, <1>8, <1>9, <1>10 DEF Stand
<1>12. Sons(w2.son)
  BY <1>11 DEF Plugged
<1>13. Agree(p, m.taken, m.lenLimit)
  BY MatchOfIs
<1>14. SoundAll(m, w2.son, I)
  BY <1>1, <1>11, <1>13, WholeTurn, ZenonT(60)
<1>15. ASSUME NEW V, NEW K, Needed(m, K), Complete(m, w.son, w.cur, I, x, V, K)
       PROVE  CompleteAll(m, w2.son, I, V \ {p}, K)
  BY <1>1, <1>11, <1>13, <1>15, WholeComplete
<1>16. QED
  BY <1>3, <1>7, <1>12, <1>14, <1>15

\* One turn that goes on, past the node p on side h.
Passed(m, w, I, x, h, w2, I2, x2) ==
  LET p == Where(m, w.cur)
  IN  /\ Far(m, p, m.taken, h)
      /\ I2 = [I EXCEPT ![p] = {q \in I[p] : Side(m, q, m.taken, h)}] /\ x2 = [x EXCEPT ![h] = p]
      /\ w2.son = [w.son EXCEPT ![Hole(m, x, h)] = w.cur] /\ w2.cur = w.son[Slot(m, p, 1 - h)]
      /\ w2.found = Lengthened(m, w)
      /\ w2.maxLen = IF w.maxLen < MatchOf(m, w) THEN MatchOf(m, w) ELSE w.maxLen

LEMMA TurnSide ==
  ASSUME CaseOK, NEW m, WindowInv(m), NEW w, NEW I, NEW x, Stand(m, w, I, x), Live(m, w.cur),
         MatchOf(m, w) # m.lenLimit, NEW w2, w2 = TreeTurn(m, w, TRUE)
  PROVE  \E h \in {0, 1} : \E I2, x2 : Passed(m, w, I, x, h, w2, I2, x2) /\ Stand(m, w2, I2, x2)
<1>1. TreeHand(m, w.son, w.cur, I, x) /\ Sons(w.son) /\ x \in [{0, 1} -> Nodes(m)] /\ w.cur \in Nat
      /\ DOMAIN w = WalkFields /\ w.maxLen < m.lenLimit /\ w.maxLen \in Nat /\ m.lenLimit \in Nat
      /\ w.done = FALSE
  BY PlaceIs DEF Stand, TreeHand, Owners, Hand
<1>2. PICK p : p = Where(m, w.cur)
  OBVIOUS
<1>3. PICK d \in Nat : d = m.pos - w.cur /\ d < cyclicBufferSize /\ d = m.taken - p /\ m.taken \in Nat
      /\ cyclicBufferSize \in Nat
  <2>1. p \in 0 .. m.taken - 1 /\ m.pos - w.cur = m.taken - p /\ m.taken \in Nat /\ cyclicBufferSize \in Nat
    BY <1>2, HandIs, PlaceIs
  <2>2. m.pos - w.cur < cyclicBufferSize
    BY DEF Live
  <2>3. QED
    BY <2>1, <2>2
<1>4. PICK found, len, longest :
         /\ len = MatchOf(m, w) /\ found = Lengthened(m, w)
         /\ longest = IF w.maxLen < len THEN len ELSE w.maxLen
  OBVIOUS
<1>5. /\ len \in 0 .. m.lenLimit /\ len # m.lenLimit /\ Agree(p, m.taken, len)
      /\ IF Cur(m, len - d) < Cur(m, len) THEN Far(m, p, m.taken, 0) ELSE Far(m, p, m.taken, 1)
  <2>1. len \in 0 .. m.lenLimit
    BY <1>2, <1>4, MatchOfIs
  <2>2. len < m.lenLimit
    BY <1>1, <1>4, <2>1
  <2>3. QED
    BY <1>2, <1>3, <1>4, <2>2, MatchOfIs
<1>6. PICK pair : pair = 2 * Node(m, d)
  OBVIOUS
<1>7. p \in Nodes(m) /\ p # m.taken
  <2>1. p \in Nodes(m) /\ p \in 0 .. m.taken - 1
    BY <1>2, HandIs
  <2>2. QED
    BY <1>3, <2>1
<1>8. pair = Slot(m, p, 0) /\ pair + 1 = Slot(m, p, 1)
  <2>1. Slot(m, p, 0) = 2 * Node(m, d) + 0 /\ Slot(m, p, 1) = 2 * Node(m, d) + 1
    BY <1>3 DEF Slot
  <2>2. d \in 0 .. cyclicBufferSize - 1
    BY <1>3
  <2>3. Node(m, d) \in Nat
    BY <2>2, NodeIs, PlaceIs
  <2>4. QED
    BY <1>6, <2>1, <2>3
<1>9. w2 = IF Cur(m, len - d) < Cur(m, len)
             THEN [w EXCEPT !.found = found, !.maxLen = longest, !.len1 = len,
                            !.son[w.ptr1] = w.cur, !.ptr1 = pair + 1, !.cur = w.son[pair + 1]]
             ELSE [w EXCEPT !.found = found, !.maxLen = longest, !.len0 = len,
                            !.son[w.ptr0] = w.cur, !.ptr0 = pair, !.cur = w.son[pair]]
  <2>1. ~ (d >= cyclicBufferSize) /\ len # m.lenLimit
    BY <1>3, <1>5
  <2>2. MatchLen(m, d, Shorter(w.len0, w.len1)) = len
        /\ found = IF w.maxLen < len THEN Append(w.found, Found(len, d)) ELSE w.found
    BY <1>3, <1>4 DEF MatchOf, Lengthened
  <2>3. QED
    BY <1>3, <1>4, <1>6, <2>1, <2>2 DEF TreeTurn
<1>10. longest \in Nat /\ longest < m.lenLimit
  BY <1>1, <1>4, <1>5
<1>11. ASSUME NEW h \in {0, 1}, Far(m, p, m.taken, h), DOMAIN w2 = WalkFields, w2.done = FALSE,
              w2.found = found, w2.maxLen = longest,
              w2.son = [w.son EXCEPT ![Hole(m, x, h)] = w.cur], w2.cur = w.son[Slot(m, p, 1 - h)],
              IF h = 0 THEN /\ w2.ptr1 = Slot(m, p, 1) /\ w2.ptr0 = w.ptr0 /\ w2.len1 = len /\ w2.len0 = w.len0
                       ELSE /\ w2.ptr0 = Slot(m, p, 0) /\ w2.ptr1 = w.ptr1 /\ w2.len0 = len /\ w2.len1 = w.len1
       PROVE  \E I2, x2 : Passed(m, w, I, x, h, w2, I2, x2) /\ Stand(m, w2, I2, x2)
  <2>1. PICK I2, x2 : /\ I2 = [I EXCEPT ![p] = {q \in I[p] : Side(m, q, m.taken, h)}]
                      /\ x2 = [x EXCEPT ![h] = p]
    OBVIOUS
  <2>2. Passed(m, w, I, x, h, w2, I2, x2)
    BY <1>2, <1>4, <1>11, <2>1 DEF Passed
  <2>3. TreeHand(m, w2.son, w2.cur, I2, x2)
    <3>1. PICK s2, v, t : s2 = [w.son EXCEPT ![Hole(m, x, h)] = w.cur] /\ v = w.cur /\ t = w.son
      OBVIOUS
    <3>2. TreeHand(m, t, v, I, x) /\ Live(m, v) /\ p = Where(m, v) /\ s2 = [t EXCEPT ![Hole(m, x, h)] = v]
      BY <1>1, <1>2, <3>1
    <3>3. Far(m, p, m.taken, h)
      BY <1>11
    <3>4. TreeHand(m, s2, t[Slot(m, p, 1 - h)], I2, x2)
      BY <2>1, <3>2, <3>3, SideTurn
    <3>5. QED
      BY <1>11, <3>1, <3>4
  <2>4. x2 \in [{0, 1} -> Nodes(m)] /\ x2[h] = p /\ x2[1 - h] = x[1 - h]
    BY <1>1, <1>7, <2>1
  <2>5. Hole(m, x2, h) = Slot(m, p, 1 - h) /\ Hole(m, x2, 1 - h) = Hole(m, x, 1 - h)
    <3>1. HoleSide(m, x2, h) = 1 - h /\ HoleSide(m, x2, 1 - h) = HoleSide(m, x, 1 - h)
      BY <1>7, <2>4 DEF HoleSide
    <3>2. QED
      BY <2>4, <3>1 DEF Hole
  <2>6. Reach(m, x2, h, len)
    BY <1>5, <1>7, <2>4 DEF Reach
  <2>7. \A n : Reach(m, x, 1 - h, n) => Reach(m, x2, 1 - h, n)
    BY <2>4 DEF Reach
  <2>8. /\ w2.ptr1 = Hole(m, x2, 0) /\ w2.ptr0 = Hole(m, x2, 1)
        /\ Reach(m, x2, 0, w2.len1) /\ Reach(m, x2, 1, w2.len0)
    <3>1. CASE h = 0
      <4>1. 1 - h = 1 /\ h # 1
        BY <3>1
      <4>2. w2.ptr1 = Slot(m, p, 1) /\ w2.ptr0 = w.ptr0 /\ w2.len1 = len /\ w2.len0 = w.len0
        BY <1>11, <3>1, <4>1
      <4>3. QED
        BY <2>5, <2>6, <2>7, <3>1, <4>1, <4>2 DEF Stand
    <3>2. CASE h = 1
      <4>1. 1 - h = 0 /\ h # 0
        BY <3>2
      <4>2. w2.ptr0 = Slot(m, p, 0) /\ w2.ptr1 = w.ptr1 /\ w2.len0 = len /\ w2.len1 = w.len1
        BY <1>11, <3>2, <4>1
      <4>3. QED
        BY <2>5, <2>6, <2>7, <3>2, <4>1, <4>2 DEF Stand
    <3>3. QED
      BY <3>1, <3>2
  <2>9. Stand(m, w2, I2, x2)
    BY <1>10, <1>11, <2>3, <2>8 DEF Stand
  <2>10. QED
    BY <2>2, <2>9
<1>12. CASE Cur(m, len - d) < Cur(m, len)
  <2>1. w2 = [w EXCEPT !.found = found, !.maxLen = longest, !.len1 = len,
                       !.son[w.ptr1] = w.cur, !.ptr1 = pair + 1, !.cur = w.son[pair + 1]]
    BY <1>9, <1>12
  <2>2. /\ DOMAIN w2 = WalkFields /\ w2.done = FALSE /\ w2.found = found /\ w2.maxLen = longest
        /\ w2.son = [w.son EXCEPT ![w.ptr1] = w.cur] /\ w2.cur = w.son[pair + 1]
        /\ w2.ptr1 = pair + 1 /\ w2.ptr0 = w.ptr0 /\ w2.len1 = len /\ w2.len0 = w.len0
    BY <1>1, <2>1 DEF WalkFields
  <2>3. Far(m, p, m.taken, 0) /\ w.ptr1 = Hole(m, x, 0)
    BY <1>5, <1>12 DEF Stand
  <2>4. PICK h \in {0, 1} : h = 0 /\ 1 - h = 1
    OBVIOUS
  <2>5. \E I2, x2 : Passed(m, w, I, x, h, w2, I2, x2) /\ Stand(m, w2, I2, x2)
    BY <1>8, <1>11, <2>2, <2>3, <2>4
  <2>6. QED
    BY <2>5
<1>13. CASE ~ (Cur(m, len - d) < Cur(m, len))
  <2>1. w2 = [w EXCEPT !.found = found, !.maxLen = longest, !.len0 = len,
                       !.son[w.ptr0] = w.cur, !.ptr0 = pair, !.cur = w.son[pair]]
    BY <1>9, <1>13
  <2>2. /\ DOMAIN w2 = WalkFields /\ w2.done = FALSE /\ w2.found = found /\ w2.maxLen = longest
        /\ w2.son = [w.son EXCEPT ![w.ptr0] = w.cur] /\ w2.cur = w.son[pair]
        /\ w2.ptr0 = pair /\ w2.ptr1 = w.ptr1 /\ w2.len0 = len /\ w2.len1 = w.len1
    BY <1>1, <2>1 DEF WalkFields
  <2>3. Far(m, p, m.taken, 1) /\ w.ptr0 = Hole(m, x, 1)
    BY <1>5, <1>13 DEF Stand
  <2>4. PICK h \in {0, 1} : h = 1 /\ 1 - h = 0 /\ h # 0
    OBVIOUS
  <2>5. \E I2, x2 : Passed(m, w, I, x, h, w2, I2, x2) /\ Stand(m, w2, I2, x2)
    <3>1. /\ Far(m, p, m.taken, h) /\ w2.son = [w.son EXCEPT ![Hole(m, x, h)] = w.cur]
          /\ w2.cur = w.son[Slot(m, p, 1 - h)]
      BY <1>8, <2>2, <2>3, <2>4
    <3>2. IF h = 0 THEN /\ w2.ptr1 = Slot(m, p, 1) /\ w2.ptr0 = w.ptr0 /\ w2.len1 = len /\ w2.len0 = w.len0
                   ELSE /\ w2.ptr0 = Slot(m, p, 0) /\ w2.ptr1 = w.ptr1 /\ w2.len0 = len /\ w2.len1 = w.len1
      BY <1>8, <2>2, <2>4
    <3>3. QED
      BY <1>11, <2>2, <3>1, <3>2
  <2>6. QED
    BY <2>5
<1>14. QED
  BY <1>12, <1>13

-----------------------------------------------------------------------------
(* What a search finds.                                                      *)

Item == [len : Nat, dist : Int]

\* A match, as long as it can be.
Good(m, f) ==
  /\ f \in Item /\ f.len \in 0 .. m.lenLimit
  /\ \E p \in Past(m) : /\ f.dist = m.taken - p - 1 /\ Agree(p, m.taken, f.len)
                        /\ f.len < m.lenLimit => ~ Agree(p, m.taken, f.len + 1)

\* Matches longer than low, each longer than the one before it.
IsList(m, fs, low) ==
  /\ fs \in Seq(Item)
  /\ \A i \in 1 .. Len(fs) : Good(m, fs[i]) /\ low < fs[i].len
  /\ \A i \in 1 .. Len(fs) - 1 : fs[i].len < fs[i + 1].len

Capped(fs, top) == \A i \in 1 .. Len(fs) : fs[i].len <= top

\* q is where the last n bytes of this kind were.
Nearest(m, q, n) == Agree(q, m.taken, n) /\ \A p \in q + 1 .. m.taken - 1 : ~ Agree(p, m.taken, n)

Has(m, fs, q, n) == \E i \in 1 .. Len(fs) : fs[i].dist = m.taken - q - 1 /\ fs[i].len >= n

LEMMA ListLonger ==
  ASSUME NEW m, NEW fs, NEW low \in Nat, NEW top \in Nat, IsList(m, fs, low), Capped(fs, top), low <= top,
         NEW f, Good(m, f), top < f.len
  PROVE  /\ IsList(m, Append(fs, f), low) /\ Capped(Append(fs, f), f.len)
         /\ \A q, n : Has(m, fs, q, n) => Has(m, Append(fs, f), q, n)
         /\ \A q, n : f.dist = m.taken - q - 1 /\ f.len >= n => Has(m, Append(fs, f), q, n)
<1>1. f \in Item /\ f.len \in Nat /\ fs \in Seq(Item)
  BY DEF Good, IsList, Item
<1>2. PICK gs : gs = Append(fs, f)
  OBVIOUS
<1>3. PICK n \in Nat : n = Len(fs)
  BY <1>1
<1>4. gs \in Seq(Item) /\ Len(gs) = n + 1 /\ gs[n + 1] = f /\ \A i \in 1 .. n : gs[i] = fs[i]
  BY <1>1, <1>2, <1>3
<1>5. \A i \in 1 .. n + 1 : i \in 1 .. n \/ i = n + 1
  BY <1>3
<1>6. \A i \in 1 .. n : Good(m, fs[i]) /\ low < fs[i].len /\ fs[i].len <= top /\ fs[i].len \in Nat
  BY <1>3 DEF IsList, Capped, Good, Item
<1>7. ASSUME NEW i \in 1 .. n + 1 PROVE Good(m, gs[i]) /\ low < gs[i].len /\ gs[i].len <= f.len
  <2>1. CASE i = n + 1
    BY <1>1, <1>4, <2>1
  <2>2. CASE i \in 1 .. n
    <3>1. gs[i] = fs[i]
      BY <1>4, <2>2
    <3>2. PICK l \in Nat : l = fs[i].len /\ low < l /\ l <= top
      BY <1>6, <2>2
    <3>3. l <= f.len
      BY <1>1, <3>2
    <3>4. QED
      BY <1>6, <2>2, <3>1, <3>2, <3>3
  <2>3. QED
    BY <1>5, <2>1, <2>2
<1>8. ASSUME NEW i \in 1 .. n PROVE gs[i].len < gs[i + 1].len
  <2>1. CASE i = n
    BY <1>1, <1>4, <1>6, <2>1
  <2>2. CASE i # n
    <3>1. i \in 1 .. n - 1 /\ i + 1 \in 1 .. n
      BY <1>3, <2>2
    <3>2. fs[i].len < fs[i + 1].len
      BY <1>3, <3>1 DEF IsList
    <3>3. QED
      BY <1>4, <3>1, <3>2
  <2>3. QED
    BY <2>1, <2>2
<1>9. Len(gs) - 1 = n
  BY <1>3, <1>4
<1>10. IsList(m, gs, low)
  BY <1>4, <1>7, <1>8, <1>9 DEF IsList
<1>11. Capped(gs, f.len)
  BY <1>4, <1>7 DEF Capped
<1>12. ASSUME NEW q, NEW k, Has(m, fs, q, k) PROVE Has(m, gs, q, k)
  <2>1. PICK i \in 1 .. n : fs[i].dist = m.taken - q - 1 /\ fs[i].len >= k
    BY <1>3, <1>12 DEF Has
  <2>2. i \in 1 .. Len(gs) /\ gs[i] = fs[i]
    BY <1>3, <1>4, <2>1
  <2>3. QED
    BY <2>1, <2>2 DEF Has
<1>13. ASSUME NEW q, NEW k, f.dist = m.taken - q - 1, f.len >= k PROVE Has(m, gs, q, k)
  <2>1. n + 1 \in 1 .. Len(gs)
    BY <1>3, <1>4
  <2>2. QED
    BY <1>4, <1>13, <2>1 DEF Has
<1>14. QED
  BY <1>2, <1>10, <1>11, <1>12, <1>13

-----------------------------------------------------------------------------
(* The walk.                                                                 *)

Full == set.cut >= cyclicBufferSize

Seeks(m, w, I, K, low) ==
  \A q \in K, n \in 1 .. m.lenLimit : Nearest(m, q, n) /\ low < n =>
    Has(m, w.found, q, n) \/ (Behind(m, w.cur, I, q) /\ w.maxLen < n)

Finds(m, fs, K, low) ==
  \A q \in K, n \in 1 .. m.lenLimit : Nearest(m, q, n) /\ low < n => Has(m, fs, q, n)

\* k turns are over.
Walking(m, w, I, x, V, K, low, k) ==
  /\ Stand(m, w, I, x) /\ IsList(m, w.found, low) /\ Capped(w.found, w.maxLen) /\ low <= w.maxLen
  /\ Live(m, w.cur) => Where(m, w.cur) <= m.taken - 1 - k
  /\ Full => Complete(m, w.son, w.cur, I, x, V, K) /\ Seeks(m, w, I, K, low)

Unlike(m, K) == {q \in K : ~ Agree(q, m.taken, m.lenLimit)}

Stopped(m, son, fs, I, V, K, low) ==
  /\ Sons(son) /\ I \in Places /\ Under(m, I) /\ SoundAll(m, son, I) /\ IsList(m, fs, low)
  /\ Full => CompleteAll(m, son, I, V, Unlike(m, K)) /\ Finds(m, fs, K, low)

\* What has another hash than the position stays.
Spared(m, I0, I, V0, V) ==
  /\ I[m.taken] = I0[m.taken]
  /\ \A a \in Nodes(m) : KeyV[a] # KeyV[m.taken] => I[a] = I0[a] /\ (a \in V0 => a \in V)

WalkAt(m, w, I0, V0, K, low, k) ==
  \E I, V : /\ Spared(m, I0, I, V0, V)
            /\ \/ w.done = FALSE /\ V = V0 /\ \E x : Walking(m, w, I, x, V0, K, low, k)
               \/ w.done = TRUE /\ Stopped(m, w.son, w.found, I, V, K, low)

\* What a turn adds to the list.
LEMMA Lengthens ==
  ASSUME CaseOK, NEW m, WindowInv(m), NEW w, NEW I, NEW x, Stand(m, w, I, x), Live(m, w.cur),
         NEW low \in Nat, IsList(m, w.found, low), Capped(w.found, w.maxLen), low <= w.maxLen,
         NEW p, p = Where(m, w.cur), NEW top,
         top = IF w.maxLen < MatchOf(m, w) THEN MatchOf(m, w) ELSE w.maxLen
  PROVE  /\ IsList(m, Lengthened(m, w), low) /\ Capped(Lengthened(m, w), top) /\ top \in Nat /\ low <= top
         /\ \A q, n : Has(m, w.found, q, n) => Has(m, Lengthened(m, w), q, n)
         /\ \A n \in 1 .. m.lenLimit : Agree(p, m.taken, n) /\ w.maxLen < n => Has(m, Lengthened(m, w), p, n)
         /\ \A n \in 1 .. m.lenLimit : ~ Agree(p, m.taken, n) /\ w.maxLen < n => top < n /\ MatchOf(m, w) < n
<1>1. PICK T \in Nat, L \in Nat, c \in Nat : T = m.taken /\ L = m.lenLimit /\ c = w.maxLen
  BY PlaceIs DEF Stand
<1>2. PICK len \in 0 .. L : /\ len = MatchOf(m, w) /\ Agree(p, T, len)
                            /\ len < L => ~ Agree(p, T, len + 1)
  BY <1>1, MatchOfIs
<1>3. p \in Past(m) /\ p \in 0 .. T - 1 /\ m.pos - w.cur = T - p
  BY <1>1, HandIs
<1>4. PICK f : f = Found(len, m.pos - w.cur)
  OBVIOUS
<1>5. f = [len |-> len, dist |-> T - p - 1]
  BY <1>3, <1>4 DEF Found
<1>6. f \in Item /\ f.len = len /\ f.dist = T - p - 1
  BY <1>3, <1>5 DEF Item
<1>7. Good(m, f)
  BY <1>1, <1>2, <1>3, <1>6 DEF Good
<1>8. PICK fs : fs = Lengthened(m, w) /\ fs = IF c < len THEN Append(w.found, f) ELSE w.found
  BY <1>1, <1>2, <1>4 DEF Lengthened
<1>9. IsList(m, fs, low) /\ Capped(fs, top) /\ top \in Nat /\ low <= top
      /\ (\A q, n : Has(m, w.found, q, n) => Has(m, fs, q, n))
      /\ (c < len => \A n : len >= n => Has(m, fs, p, n))
  <2>1. CASE c < len
    <3>1. fs = Append(w.found, f) /\ top = len
      BY <1>1, <1>2, <1>8, <2>1
    <3>2. /\ IsList(m, fs, low) /\ Capped(fs, f.len)
          /\ \A q, n : Has(m, w.found, q, n) => Has(m, fs, q, n)
          /\ \A q, n : f.dist = m.taken - q - 1 /\ f.len >= n => Has(m, fs, q, n)
      BY <1>1, <1>6, <1>7, <2>1, <3>1, ListLonger
    <3>3. QED
      BY <1>1, <1>6, <2>1, <3>1, <3>2
  <2>2. CASE ~ (c < len)
    BY <1>1, <1>2, <1>8, <2>2
  <2>3. QED
    BY <2>1, <2>2
<1>10. ASSUME NEW n \in 1 .. L, Agree(p, T, n) PROVE len >= n
  <2>1. ASSUME len < n PROVE FALSE
    <3>1. len + 1 \in 0 .. n /\ len < L /\ n \in Nat
      BY <1>1, <2>1
    <3>2. Agree(p, T, len + 1)
      BY <1>10, <3>1, AgreeFewer
    <3>3. QED
      BY <1>2, <3>1, <3>2
  <2>2. QED
    BY <1>1, <2>1
<1>11. ASSUME NEW n \in 1 .. L, ~ Agree(p, T, n) PROVE len < n
  <2>1. ASSUME len >= n PROVE FALSE
    <3>1. n \in 0 .. len /\ len \in Nat
      BY <1>1, <2>1
    <3>2. QED
      BY <1>2, <1>11, <3>1, AgreeFewer
  <2>2. QED
    BY <1>1, <2>1
<1>12. ASSUME NEW n \in 1 .. L, Agree(p, T, n), c < n PROVE Has(m, fs, p, n)
  BY <1>1, <1>9, <1>10, <1>12
<1>13. ASSUME NEW n \in 1 .. L, ~ Agree(p, T, n), c < n PROVE top < n /\ len < n
  BY <1>1, <1>2, <1>11, <1>13
<1>14. QED
  BY <1>1, <1>2, <1>8, <1>9, <1>12, <1>13

\* Fewer places in K are easier.
LEMMA FewerComplete ==
  ASSUME NEW m, NEW son, NEW v, NEW I, NEW x, NEW V, NEW K, NEW J \in SUBSET K
  PROVE  /\ Complete(m, son, v, I, x, V, K) => Complete(m, son, v, I, x, V, J)
         /\ CompleteAll(m, son, I, V, K) => CompleteAll(m, son, I, V, J)
<1>1. J \subseteq K
  OBVIOUS
<1>2. ASSUME Complete(m, son, v, I, x, V, K) PROVE Complete(m, son, v, I, x, V, J)
  <2>1. \A a \in V, q \in J : q \in I[a] /\ q # a =>
          \/ \E s \in {0, 1} : ~ Open(m, x, a, s) /\ Behind(m, son[Slot(m, a, s)], I, q)
          \/ \E h \in {0, 1} : a = x[h] /\ Behind(m, v, I, q) /\ Side(m, q, m.taken, h)
    BY <1>1, <1>2 DEF Complete
  <2>2. QED
    BY <1>2, <2>1 DEF Complete
<1>3. ASSUME CompleteAll(m, son, I, V, K) PROVE CompleteAll(m, son, I, V, J)
  <2>1. \A a \in V, q \in J : q \in I[a] /\ q # a => \E s \in {0, 1} : Behind(m, son[Slot(m, a, s)], I, q)
    BY <1>1, <1>3 DEF CompleteAll
  <2>2. QED
    BY <1>3, <2>1 DEF CompleteAll
<1>4. QED
  BY <1>2, <1>3

LEMMA WalkDead ==
  ASSUME CaseOK, NEW m, WindowInv(m), NEW w, NEW I, NEW x, NEW V, NEW K, NEW low \in Nat, NEW k \in Nat,
         Walking(m, w, I, x, V, K, low, k), ~ Live(m, w.cur), NEW w2, w2 = TreeTurn(m, w, TRUE)
  PROVE  w2.done = TRUE /\ Stopped(m, w2.son, w2.found, I, V, K, low)
<1>1. Stand(m, w, I, x) /\ IsList(m, w.found, low)
  BY DEF Walking
<1>2. w2.done = TRUE /\ w2.found = w.found /\ Sons(w2.son) /\ SoundAll(m, w2.son, I)
  BY <1>1, TurnDead
<1>3. \A U, J : Complete(m, w.son, w.cur, I, x, U, J) => CompleteAll(m, w2.son, I, U, J)
  BY <1>1, TurnDead
<1>4. I \in Places /\ Under(m, I)
  BY <1>1 DEF Stand, TreeHand
<1>5. ASSUME Full PROVE CompleteAll(m, w2.son, I, V, Unlike(m, K)) /\ Finds(m, w2.found, K, low)
  <2>1. Complete(m, w.son, w.cur, I, x, V, K) /\ Seeks(m, w, I, K, low)
    BY <1>5 DEF Walking
  <2>2. CompleteAll(m, w2.son, I, V, K) /\ Unlike(m, K) \in SUBSET K
    BY <1>3, <2>1 DEF Unlike
  <2>3. CompleteAll(m, w2.son, I, V, Unlike(m, K))
    BY <2>2, FewerComplete
  <2>4. Finds(m, w2.found, K, low)
    BY <1>2, <2>1 DEF Seeks, Finds, Behind
  <2>5. QED
    BY <2>3, <2>4
<1>6. QED
  BY <1>1, <1>2, <1>4, <1>5 DEF Stopped

\* The node to be looked at has the hash of the position.
LEMMA SameHash ==
  ASSUME CaseOK, NEW m, WindowInv(m), NEW w, NEW I, NEW x, Stand(m, w, I, x), Live(m, w.cur),
         NEW p, p = Where(m, w.cur)
  PROVE  KeyV[p] = KeyV[m.taken] /\ \A q \in I[p] : q \in 0 .. p /\ p \in 0 .. m.taken - 1
<1>1. p \in Nodes(m) /\ p \in I[p] /\ p \in 0 .. m.taken - 1 /\ m.taken \in Nodes(m)
  BY HandIs, NodesAre
<1>2. Under(m, I) /\ \A q \in I[p] : q \in I[m.taken]
  BY DEF Stand, TreeHand, Hand
<1>3. KeyV[p] = KeyV[m.taken]
  BY <1>1, <1>2 DEF Under
<1>4. \A q \in I[p] : q \in 0 .. p
  BY <1>1, <1>2 DEF Under
<1>5. QED
  BY <1>1, <1>3, <1>4

LEMMA WalkWhole ==
  ASSUME CaseOK, NEW m, WindowInv(m), NEW w, NEW I, NEW x, NEW V, NEW K, NEW low \in Nat, NEW k \in Nat,
         Older(m, K), Walking(m, w, I, x, V, K, low, k), Live(m, w.cur), MatchOf(m, w) = m.lenLimit,
         NEW w2, w2 = TreeTurn(m, w, TRUE), NEW p, p = Where(m, w.cur)
  PROVE  w2.done = TRUE /\ Stopped(m, w2.son, w2.found, I, V \ {p}, K, low)
<1>1. Stand(m, w, I, x) /\ IsList(m, w.found, low) /\ Capped(w.found, w.maxLen) /\ low <= w.maxLen
  BY DEF Walking
<1>2. w2.done = TRUE /\ w2.found = Lengthened(m, w) /\ Sons(w2.son) /\ SoundAll(m, w2.son, I)
  BY <1>1, TurnWhole
<1>3. \A U, J : Needed(m, J) /\ Complete(m, w.son, w.cur, I, x, U, J) => CompleteAll(m, w2.son, I, U \ {p}, J)
  BY <1>1, TurnWhole
<1>4. I \in Places /\ Under(m, I)
  BY <1>1 DEF Stand, TreeHand
<1>5. PICK top : top = IF w.maxLen < MatchOf(m, w) THEN MatchOf(m, w) ELSE w.maxLen
  OBVIOUS
<1>6. /\ IsList(m, w2.found, low)
      /\ \A q, n : Has(m, w.found, q, n) => Has(m, w2.found, q, n)
      /\ \A n \in 1 .. m.lenLimit : Agree(p, m.taken, n) /\ w.maxLen < n => Has(m, w2.found, p, n)
  BY <1>1, <1>2, <1>5, Lengthens
<1>7. ASSUME Full PROVE CompleteAll(m, w2.son, I, V \ {p}, Unlike(m, K)) /\ Finds(m, w2.found, K, low)
  <2>1. Complete(m, w.son, w.cur, I, x, V, K) /\ Seeks(m, w, I, K, low)
    BY <1>7 DEF Walking
  <2>2. Unlike(m, K) \in SUBSET K /\ Needed(m, Unlike(m, K))
    BY DEF Unlike, Needed, Older
  <2>3. Complete(m, w.son, w.cur, I, x, V, Unlike(m, K))
    BY <2>1, <2>2, FewerComplete
  <2>4. CompleteAll(m, w2.son, I, V \ {p}, Unlike(m, K))
    BY <1>3, <2>2, <2>3
  <2>5. ASSUME NEW q \in K, NEW n \in 1 .. m.lenLimit, Nearest(m, q, n), low < n PROVE Has(m, w2.found, q, n)
    <3>1. CASE Has(m, w.found, q, n)
      BY <1>6, <3>1
    <3>2. CASE Behind(m, w.cur, I, q) /\ w.maxLen < n
      <4>1. q \in 0 .. p /\ p \in 0 .. m.taken - 1
        BY <1>1, <3>2, SameHash DEF Behind
      <4>2. CASE q = p
        BY <1>6, <2>5, <3>2, <4>2 DEF Nearest
      <4>3. CASE q # p
        <5>1. p \in q + 1 .. m.taken - 1
          BY <4>1, <4>3, NodesAre
        <5>2. Agree(p, m.taken, m.lenLimit)
          BY <1>1, MatchOfIs
        <5>3. Agree(p, m.taken, n)
          BY <5>2, AgreeFewer, PlaceIs
        <5>4. QED
          BY <2>5, <5>1, <5>3 DEF Nearest
      <4>4. QED
        BY <4>2, <4>3
    <3>3. QED
      BY <2>1, <2>5, <3>1, <3>2 DEF Seeks
  <2>6. QED
    BY <2>4, <2>5 DEF Finds
<1>8. QED
  BY <1>2, <1>4, <1>6, <1>7 DEF Stopped

LEMMA WalkSide ==
  ASSUME CaseOK, NEW m, WindowInv(m), NEW w, NEW I, NEW x, NEW V, NEW K, NEW low \in Nat, NEW k \in Nat,
         Older(m, K), Walking(m, w, I, x, V, K, low, k), Live(m, w.cur), MatchOf(m, w) # m.lenLimit,
         NEW w2, w2 = TreeTurn(m, w, TRUE)
  PROVE  \E I2, x2 : Walking(m, w2, I2, x2, V, K, low, k + 1) /\ w2.done = FALSE /\ Spared(m, I, I2, V, V)
<1>1. Stand(m, w, I, x) /\ IsList(m, w.found, low) /\ Capped(w.found, w.maxLen) /\ low <= w.maxLen
  BY DEF Walking
<1>2. PICK h \in {0, 1} : \E I2, x2 : Passed(m, w, I, x, h, w2, I2, x2) /\ Stand(m, w2, I2, x2)
  BY <1>1, TurnSide
<1>3. PICK I2, x2 : Passed(m, w, I, x, h, w2, I2, x2) /\ Stand(m, w2, I2, x2)
  BY <1>2
<1>4. PICK p : p = Where(m, w.cur)
  OBVIOUS
<1>5. /\ Far(m, p, m.taken, h)
      /\ I2 = [I EXCEPT ![p] = {q \in I[p] : Side(m, q, m.taken, h)}] /\ x2 = [x EXCEPT ![h] = p]
      /\ w2.son = [w.son EXCEPT ![Hole(m, x, h)] = w.cur] /\ w2.cur = w.son[Slot(m, p, 1 - h)]
      /\ w2.found = Lengthened(m, w)
      /\ w2.maxLen = IF w.maxLen < MatchOf(m, w) THEN MatchOf(m, w) ELSE w.maxLen
  BY <1>3, <1>4 DEF Passed
<1>6. PICK T \in Nat, L \in Nat : T = m.taken /\ L = m.lenLimit
  BY PlaceIs
<1>7. /\ p \in Past(m) /\ p \in 0 .. T - 1 /\ p \in Nodes(m) /\ p \in I[p] /\ x \in [{0, 1} -> Nodes(m)]
      /\ T \in 0 .. T
  BY <1>1, <1>4, <1>6, HandIs
<1>8. /\ KeyV[p] = KeyV[T] /\ (\A q \in I[p] : q \in 0 .. p) /\ I \in Places
      /\ TreeHand(m, w.son, w.cur, I, x) /\ Under(m, I)
  BY <1>1, <1>4, <1>6, SameHash DEF Stand, TreeHand
<1>9. \A a \in Nat : a # p => I2[a] = I[a]
  BY <1>5, <1>7, <1>8 DEF Places
<1>10. Spared(m, I, I2, V, V)
  <2>1. I2[T] = I[T]
    BY <1>6, <1>7, <1>9
  <2>2. \A a \in Nodes(m) : KeyV[a] # KeyV[T] => I2[a] = I[a]
    BY <1>8, <1>9, NodesAre
  <2>3. QED
    BY <1>6, <2>1, <2>2 DEF Spared
<1>11. /\ IsList(m, w2.found, low) /\ Capped(w2.found, w2.maxLen) /\ w2.maxLen \in Nat /\ low <= w2.maxLen
       /\ \A q, n : Has(m, w.found, q, n) => Has(m, w2.found, q, n)
       /\ \A n \in 1 .. m.lenLimit : Agree(p, m.taken, n) /\ w.maxLen < n => Has(m, w2.found, p, n)
       /\ \A n \in 1 .. m.lenLimit : ~ Agree(p, m.taken, n) /\ w.maxLen < n => w2.maxLen < n
  <2>1. PICK top : top = IF w.maxLen < MatchOf(m, w) THEN MatchOf(m, w) ELSE w.maxLen
    OBVIOUS
  <2>2. /\ IsList(m, Lengthened(m, w), low) /\ Capped(Lengthened(m, w), top) /\ top \in Nat /\ low <= top
        /\ \A q, n : Has(m, w.found, q, n) => Has(m, Lengthened(m, w), q, n)
        /\ \A n \in 1 .. m.lenLimit : Agree(p, m.taken, n) /\ w.maxLen < n => Has(m, Lengthened(m, w), p, n)
        /\ \A n \in 1 .. m.lenLimit : ~ Agree(p, m.taken, n) /\ w.maxLen < n => top < n /\ MatchOf(m, w) < n
    BY <1>1, <1>4, <2>1, Lengthens
  <2>3. w2.maxLen = top
    BY <1>5, <2>1
  <2>4. QED
    BY <1>5, <2>2, <2>3, ZenonT(60)
<1>12. 1 - h \in {0, 1} /\ \A s \in {0, 1} : s = h \/ s = 1 - h
  OBVIOUS
<1>13. \A s \in {0, 1} : Leads(m, w.son[Slot(m, p, s)], I, p, s)
  <2>1. \A s \in {0, 1} : ~ Open(m, x, p, s)
    BY <1>4, <1>8, HandPlace
  <2>2. QED
    BY <1>7, <1>8, <2>1 DEF TreeHand, Sound
<1>14. Live(m, w2.cur) => Where(m, w2.cur) \in 0 .. p - 1
  BY <1>5, <1>12, <1>13 DEF Leads
<1>15. Live(m, w2.cur) => Where(m, w2.cur) <= m.taken - 1 - (k + 1)
  <2>1. Live(m, w.cur) => Where(m, w.cur) <= m.taken - 1 - k
    BY DEF Walking
  <2>2. PICK b : b = Where(m, w2.cur)
    OBVIOUS
  <2>3. ASSUME b \in 0 .. p - 1 PROVE b <= T - 1 - (k + 1)
    <3>1. p \in Int /\ p <= T - 1 - k /\ b \in Int /\ b <= p - 1
      BY <1>4, <1>6, <1>7, <2>1, <2>3
    <3>2. QED
      BY <3>1
  <2>4. QED
    BY <1>6, <1>14, <2>2, <2>3
<1>16. ASSUME Full PROVE Complete(m, w2.son, w2.cur, I2, x2, V, K) /\ Seeks(m, w2, I2, K, low)
  <2>1. Complete(m, w.son, w.cur, I, x, V, K) /\ Seeks(m, w, I, K, low)
    BY <1>16 DEF Walking
  <2>2. Complete(m, w2.son, w2.cur, I2, x2, V, K)
    <3>1. PICK s2, v, t : s2 = w2.son /\ v = w.cur /\ t = w.son
      OBVIOUS
    <3>2. /\ TreeHand(m, t, v, I, x) /\ Live(m, v) /\ p = Where(m, v) /\ s2 = [t EXCEPT ![Hole(m, x, h)] = v]
          /\ Complete(m, t, v, I, x, V, K)
      BY <1>4, <1>5, <1>8, <2>1, <3>1
    <3>3. Passing(m, t, v, I, x, h, p, I2, s2, x2) /\ Older(m, K) /\ h \in {0, 1}
      BY <1>2, <1>5, <3>2 DEF Passing
    <3>5. Complete(m, s2, t[Slot(m, p, 1 - h)], I2, x2, V, K)
      BY <3>2, <3>3, SideComplete
    <3>4. QED
      BY <1>5, <3>1, <3>5
  <2>3. ASSUME NEW q \in K, NEW n \in 1 .. L, Nearest(m, q, n), low < n
        PROVE  Has(m, w2.found, q, n) \/ (Behind(m, w2.cur, I2, q) /\ w2.maxLen < n)
    <3>1. CASE Has(m, w.found, q, n)
      BY <1>11, <3>1
    <3>2. CASE Behind(m, w.cur, I, q) /\ w.maxLen < n
      <4>1. q \in I[p] /\ q \in 0 .. p /\ q \in 0 .. T
        BY <1>4, <1>7, <1>8, <3>2 DEF Behind
      <4>2. CASE q = p
        BY <1>6, <1>11, <2>3, <3>2, <4>2 DEF Nearest
      <4>3. CASE q # p
        <5>1. p \in q + 1 .. T - 1
          BY <1>7, <4>1, <4>3
        <5>2. ~ Agree(p, T, n) /\ Agree(q, T, n)
          BY <1>6, <2>3, <5>1 DEF Nearest
        <5>3. w2.maxLen < n
          BY <1>6, <1>11, <3>2, <5>2
        <5>4. p \in V /\ \A g \in {0, 1} : p # x[g]
          BY <1>4, <1>8, <2>1, HandPlace DEF Complete
        <5>5. PICK s \in {0, 1} : Behind(m, w.son[Slot(m, p, s)], I, q)
          BY <2>1, <4>1, <4>3, <5>4 DEF Complete
        <5>6. s = 1 - h
          <6>1. ASSUME s = h PROVE FALSE
            <7>1. Side(m, q, p, h)
              BY <1>13, <5>5, <6>1 DEF Leads, Behind
            <7>2. Side(m, p, T, h) /\ p \in 0 .. T
              BY <1>5, <1>6, <1>7, Sides
            <7>3. n \in 0 .. L
              OBVIOUS
            <7>4. Agree(p, T, n)
              BY <1>6, <1>7, <4>1, <5>2, <7>1, <7>2, <7>3, SidesTrans
            <7>5. QED
              BY <5>2, <7>4
          <6>2. QED
            BY <1>12, <6>1
        <5>7. Live(m, w2.cur) /\ q \in I[Where(m, w2.cur)]
          BY <1>5, <5>5, <5>6 DEF Behind
        <5>8. Where(m, w2.cur) \in 0 .. p - 1
          BY <1>14, <5>7
        <5>9. I2[Where(m, w2.cur)] = I[Where(m, w2.cur)]
          <6>1. PICK b : b = Where(m, w2.cur)
            OBVIOUS
          <6>2. b \in Nat /\ b # p
            <7>1. b \in 0 .. p - 1
              BY <5>8, <6>1
            <7>2. p \in Int
              BY <1>7
            <7>3. QED
              BY <7>1, <7>2
          <6>3. QED
            BY <1>9, <6>1, <6>2
        <5>10. QED
          BY <5>3, <5>7, <5>9 DEF Behind
      <4>4. QED
        BY <4>2, <4>3
    <3>3. QED
      BY <1>6, <2>1, <2>3, <3>1, <3>2 DEF Seeks
  <2>4. Seeks(m, w2, I2, K, low)
    BY <1>6, <2>3 DEF Seeks
  <2>5. QED
    BY <2>2, <2>4
<1>17. Walking(m, w2, I2, x2, V, K, low, k + 1)
  BY <1>3, <1>11, <1>15, <1>16 DEF Walking
<1>18. w2.done = FALSE
  BY <1>3 DEF Stand
<1>19. QED
  BY <1>10, <1>17, <1>18

LEMMA SparedOn ==
  ASSUME NEW m, NEW I0, NEW I1, NEW I2, NEW V0, NEW V1, NEW V2, Spared(m, I0, I1, V0, V1), Spared(m, I1, I2, V1, V2)
  PROVE  Spared(m, I0, I2, V0, V2)
BY DEF Spared

LEMMA WalkTurn ==
  ASSUME CaseOK, NEW m, WindowInv(m), NEW w, NEW I0, NEW V0, NEW K, NEW low \in Nat, NEW k \in Nat,
         Older(m, K), WalkAt(m, w, I0, V0, K, low, k), NEW get \in BOOLEAN, get = TRUE
  PROVE  WalkAt(m, TreeStep(m, w, get), I0, V0, K, low, k + 1)
<1>1. PICK I, V : /\ Spared(m, I0, I, V0, V)
                  /\ \/ w.done = FALSE /\ V = V0 /\ \E x : Walking(m, w, I, x, V0, K, low, k)
                     \/ w.done = TRUE /\ Stopped(m, w.son, w.found, I, V, K, low)
  BY DEF WalkAt
<1>2. CASE w.done = TRUE
  <2>1. TreeStep(m, w, get) = w
    BY <1>2 DEF TreeStep
  <2>2. QED
    BY <1>1, <1>2, <2>1 DEF WalkAt
<1>3. CASE w.done = FALSE /\ V = V0 /\ \E x : Walking(m, w, I, x, V0, K, low, k)
  <2>1. PICK w2 : w2 = TreeTurn(m, w, TRUE)
    OBVIOUS
  <2>2. TreeStep(m, w, get) = w2
    BY <1>3, <2>1 DEF TreeStep
  <2>3. PICK x : Walking(m, w, I, x, V0, K, low, k)
    BY <1>3
  <2>4. Spared(m, I0, I, V0, V0)
    BY <1>1, <1>3
  <2>5. CASE ~ Live(m, w.cur)
    <3>1. w2.done = TRUE /\ Stopped(m, w2.son, w2.found, I, V0, K, low)
      BY <2>1, <2>3, <2>5, WalkDead
    <3>2. QED
      BY <2>2, <2>4, <3>1 DEF WalkAt
  <2>6. CASE Live(m, w.cur) /\ MatchOf(m, w) = m.lenLimit
    <3>1. PICK p : p = Where(m, w.cur)
      OBVIOUS
    <3>2. w2.done = TRUE /\ Stopped(m, w2.son, w2.found, I, V0 \ {p}, K, low)
      BY <2>1, <2>3, <2>6, <3>1, WalkWhole
    <3>3. KeyV[p] = KeyV[m.taken]
      BY <2>3, <2>6, <3>1, SameHash DEF Walking
    <3>4. Spared(m, I0, I, V0, V0 \ {p})
      BY <2>4, <3>3 DEF Spared
    <3>5. QED
      BY <2>2, <3>2, <3>4 DEF WalkAt
  <2>7. CASE Live(m, w.cur) /\ MatchOf(m, w) # m.lenLimit
    <3>1. PICK I2, x2 : Walking(m, w2, I2, x2, V0, K, low, k + 1) /\ w2.done = FALSE /\ Spared(m, I, I2, V0, V0)
      BY <2>1, <2>3, <2>7, WalkSide
    <3>2. Spared(m, I0, I2, V0, V0)
      BY <2>4, <3>1, SparedOn
    <3>3. QED
      BY <2>2, <3>1, <3>2 DEF WalkAt
  <2>8. QED
    BY <2>5, <2>6, <2>7
<1>4. QED
  BY <1>1, <1>2, <1>3

\* A walk that is cut short closes the holes; when it may go over all that is kept it
\* is not cut short before there is nothing left.
LEMMA WalkEnds ==
  ASSUME CaseOK, NEW m, WindowInv(m), NEW w, NEW I0, NEW V0, NEW K, NEW low \in Nat,
         WalkAt(m, w, I0, V0, K, low, set.cut)
  PROVE  \E I, V : Spared(m, I0, I, V0, V) /\ Stopped(m, TreeEnded(w).son, TreeEnded(w).found, I, V, K, low)
<1>1. PICK I, V : /\ Spared(m, I0, I, V0, V)
                  /\ \/ w.done = FALSE /\ V = V0 /\ \E x : Walking(m, w, I, x, V0, K, low, set.cut)
                     \/ w.done = TRUE /\ Stopped(m, w.son, w.found, I, V, K, low)
  BY DEF WalkAt
<1>2. CASE w.done = TRUE /\ Stopped(m, w.son, w.found, I, V, K, low)
  BY <1>1, <1>2 DEF TreeEnded
<1>3. CASE w.done = FALSE /\ V = V0 /\ \E x : Walking(m, w, I, x, V0, K, low, set.cut)
  <2>1. PICK x : Walking(m, w, I, x, V0, K, low, set.cut)
    BY <1>3
  <2>2. Stand(m, w, I, x) /\ IsList(m, w.found, low)
    BY <2>1 DEF Walking
  <2>3. TreeHand(m, w.son, w.cur, I, x) /\ Sons(w.son) /\ x \in [{0, 1} -> Nodes(m)] /\ w.cur \in Nat
        /\ DOMAIN w = WalkFields
    BY <2>2 DEF Stand, TreeHand, Owners, Hand
  <2>4. PICK w2 : w2 = [w EXCEPT !.son[w.ptr0] = Empty, !.son[w.ptr1] = Empty]
    OBVIOUS
  <2>5. TreeEnded(w) = w2
    BY <1>3, <2>4 DEF TreeEnded
  <2>6. w2.found = w.found /\ w2.son = [w.son EXCEPT ![w.ptr0] = Empty, ![w.ptr1] = Empty]
    BY <2>3, <2>4 DEF WalkFields
  <2>7. PICK u : u = [h \in {0, 1} |-> Empty]
    OBVIOUS
  <2>8. u[0] = Empty /\ u[1] = Empty /\ \A h \in {0, 1} : u[h] \in Nat
    BY <2>7 DEF Empty
  <2>9. Plugged(m, w.son, x, u, [w.son EXCEPT ![Hole(m, x, 1)] = u[1], ![Hole(m, x, 0)] = u[0]])
    BY <2>3, <2>8, PluggedIs
  <2>10. Plugged(m, w.son, x, [h \in {0, 1} |-> Empty], w2.son)
    BY <2>2, <2>6, <2>7, <2>8, <2>9 DEF Stand
  <2>11. Sons(w2.son) /\ SoundAll(m, w2.son, I)
    BY <2>3, <2>10, EmptySound DEF Plugged
  <2>12. I \in Places /\ Under(m, I)
    BY <2>3 DEF TreeHand
  <2>13. ASSUME Full PROVE CompleteAll(m, w2.son, I, V0, Unlike(m, K)) /\ Finds(m, w2.found, K, low)
    <3>1. Complete(m, w.son, w.cur, I, x, V0, K) /\ Seeks(m, w, I, K, low)
      BY <2>1, <2>13 DEF Walking
    <3>2. ~ Live(m, w.cur)
      <4>1. SUFFICES ASSUME Live(m, w.cur) PROVE FALSE
        OBVIOUS
      <4>2. PICK b : b = Where(m, w.cur)
        OBVIOUS
      <4>3. b <= m.taken - 1 - set.cut
        BY <2>1, <4>1, <4>2 DEF Walking
      <4>4. PICK T \in Nat, c \in Nat, n \in Nat : T = m.taken /\ c = cyclicBufferSize /\ n = set.cut /\ n >= c
        BY <2>13, PlaceIs, CaseIs DEF Full
      <4>5. b \in Past(m) /\ b \in Int
        <5>1. b \in 0 .. m.taken - 1
          BY <2>3, <4>1, <4>2 DEF TreeHand, Hand
        <5>2. QED
          BY <2>3, <4>1, <4>2, <5>1, WhereIs
      <4>6. T - b < c
        BY <4>4, <4>5 DEF Past
      <4>7. b <= T - 1 - n
        BY <4>3, <4>4
      <4>8. QED
        BY <4>4, <4>5, <4>6, <4>7
    <3>3. CompleteAll(m, w2.son, I, V0, K)
      BY <2>3, <2>10, <3>1, <3>2, EmptyComplete
    <3>4. Unlike(m, K) \in SUBSET K
      BY DEF Unlike
    <3>5. CompleteAll(m, w2.son, I, V0, Unlike(m, K))
      BY <3>3, <3>4, FewerComplete
    <3>6. Finds(m, w2.found, K, low)
      BY <2>6, <3>1, <3>2 DEF Seeks, Finds, Behind
    <3>7. QED
      BY <3>5, <3>6
  <2>14. Stopped(m, w2.son, w2.found, I, V0, K, low)
    BY <2>2, <2>6, <2>11, <2>12, <2>13 DEF Stopped
  <2>15. QED
    BY <1>1, <1>3, <2>5, <2>14
<1>4. QED
  BY <1>1, <1>2, <1>3

LEMMA WalkFinds ==
  ASSUME CaseOK, NEW m, WindowInv(m), NEW I0, NEW V0, NEW K, NEW low \in Nat, Older(m, K), NEW v,
         WalkAt(m, WalkStart(m, v, low), I0, V0, K, low, 0)
  PROVE  \E I, V : /\ Spared(m, I0, I, V0, V)
                   /\ Stopped(m, TreeWalk(m, v, low, TRUE).son, TreeWalk(m, v, low, TRUE).found, I, V, K, low)
<1>0. PICK get \in BOOLEAN : get = TRUE
  OBVIOUS
<1>1. PICK cut \in Nat : cut = set.cut
  BY CaseIs
<1>2. PICK f : /\ f[0] = WalkStart(m, v, low)
               /\ \A k \in 1 .. set.cut : f[k] = TreeStep(m, f[k - 1], get)
               /\ TreeWalk(m, v, low, get) = TreeEnded(f[set.cut])
  BY <1>1, TreeWalkIs
<1>3. PICK A : A = {k \in Nat : WalkAt(m, f[k], I0, V0, K, low, k)}
  OBVIOUS
<1>4. 0 \in A
  BY <1>2, <1>3
<1>5. ASSUME NEW k \in 0 .. cut - 1, k \in A PROVE k + 1 \in A
  <2>1. PICK w : w = f[k]
    OBVIOUS
  <2>2. WalkAt(m, w, I0, V0, K, low, k) /\ k \in Nat
    BY <1>3, <1>5, <2>1
  <2>3. f[k + 1] = TreeStep(m, w, get)
    <3>1. k + 1 \in 1 .. cut /\ (k + 1) - 1 = k
      BY <1>1
    <3>2. QED
      BY <1>1, <1>2, <2>1, <3>1
  <2>4. WalkAt(m, TreeStep(m, w, get), I0, V0, K, low, k + 1)
    BY <1>0, <2>2, WalkTurn
  <2>5. QED
    BY <1>3, <2>2, <2>3, <2>4
<1>6. cut \in A
  <2>1. A \in SUBSET Nat /\ 0 \in Nat
    BY <1>3
  <2>2. \A k \in 0 .. cut : k \in A
    BY <1>1, <1>4, <1>5, <2>1, Counting
  <2>3. QED
    BY <1>1, <2>2
<1>7. WalkAt(m, f[cut], I0, V0, K, low, set.cut)
  BY <1>1, <1>3, <1>6
<1>8. PICK w : w = f[cut]
  OBVIOUS
<1>9. \E I, V : Spared(m, I0, I, V0, V) /\ Stopped(m, TreeEnded(w).son, TreeEnded(w).found, I, V, K, low)
  BY <1>7, <1>8, WalkEnds
<1>10. TreeWalk(m, v, low, TRUE) = TreeEnded(w)
  BY <1>0, <1>1, <1>2, <1>8
<1>11. QED
  BY <1>9, <1>10

-----------------------------------------------------------------------------
(* The trees between two searches: hv leads to the root of each.             *)

\* Places that no newer one makes useless.
Kept(m) == {q \in Past(m) : \A p \in q + 1 .. m.taken - 1 : ~ Agree(p, q, m.lenLimit)}

Linking(m, I, V) ==
  \A a \in V, s \in {0, 1} : Live(m, m.son[Slot(m, a, s)]) =>
    /\ Where(m, m.son[Slot(m, a, s)]) \in V
    /\ \A b \in V, t \in {0, 1} : m.son[Slot(m, b, t)] = m.son[Slot(m, a, s)] => b = a /\ t = s

Reached(m, hv, I, V) ==
  /\ V \subseteq Past(m)
  /\ \A a \in V, q \in Kept(m) : q \in I[a] /\ q # a => \E s \in {0, 1} : Behind(m, m.son[Slot(m, a, s)], I, q)
  /\ Linking(m, I, V)
  /\ \A k \in Pairs : Live(m, hv[k]) => Where(m, hv[k]) \in V
  /\ \A q \in Kept(m) : Behind(m, hv[KeyV[q]], I, q)

TreeIs(m, hv, I, V) ==
  /\ Sons(m.son) /\ I \in Places
  /\ \A a \in Past(m) : a \in I[a] /\ \A q \in I[a] : q \in 0 .. a /\ KeyV[q] = KeyV[a]
  /\ \A a \in Past(m), s \in {0, 1} : Leads(m, m.son[Slot(m, a, s)], I, a, s)
  /\ Full => Reached(m, hv, I, V)

\* Under the position may lie all that has its hash.
Joined(m, I, I0) ==
  /\ I0 \in Places /\ \A a \in Nat : a # m.taken => I0[a] = I[a]
  /\ \A q : q \in I0[m.taken] <=> q \in 0 .. m.taken /\ KeyV[q] = KeyV[m.taken]

\* What a table says that is not too old is a place behind the position.
LEMMA LatestPast ==
  ASSUME CaseOK, NEW m, WindowInv(m), NEW t, NEW key, NEW D, Latest(m, t, key, D), NEW k \in D, Live(m, t[k])
  PROVE  Where(m, t[k]) \in Past(m) /\ key[Where(m, t[k])] = k
<1>1. t[k] \in Nat /\ Where(m, t[k]) \in 0 .. m.taken - 1 /\ key[Where(m, t[k])] = k
  BY DEF Latest
<1>2. QED
  BY <1>1, WhereIs

LEMMA JoinedExists ==
  ASSUME CaseOK, NEW m, WindowInv(m), NEW I, I \in Places
  PROVE  \E I0 : Joined(m, I, I0)
<1>1. PICK T \in Nat : T = m.taken
  BY NodesAre
<1>2. PICK S : S = {q \in 0 .. T : KeyV[q] = KeyV[T]}
  OBVIOUS
<1>3. S \in SUBSET Nat
  BY <1>2
<1>4. PICK I0 : I0 = [I EXCEPT ![T] = S]
  OBVIOUS
<1>5. I0 \in Places /\ I0[T] = S /\ \A a \in Nat : a # T => I0[a] = I[a]
  BY <1>3, <1>4 DEF Places
<1>6. \A q : q \in S <=> q \in 0 .. T /\ KeyV[q] = KeyV[T]
  BY <1>2
<1>7. Joined(m, I, I0)
  BY <1>1, <1>5, <1>6 DEF Joined
<1>8. QED
  BY <1>7

LEMMA WalkBegins ==
  ASSUME CaseOK, NEW m, WindowInv(m), m.lenLimit >= MinLen, NEW hv, Latest(m, hv, KeyV, Pairs),
         NEW I, NEW V, TreeIs(m, hv, I, V), NEW I0, Joined(m, I, I0),
         NEW low \in Nat, low >= MinLen - 1, low < m.lenLimit, NEW v, v = hv[KeyV[m.taken]]
  PROVE  WalkAt(m, WalkStart(m, v, low), I0, V \cup {m.taken}, Kept(m), low, 0)
<1>1. PICK T \in Nat, L \in Nat : T = m.taken /\ L = m.lenLimit
  BY PlaceIs
<1>2. PICK w : w = WalkStart(m, v, low)
  OBVIOUS
<1>3. /\ DOMAIN w = WalkFields /\ w.cur = v /\ w.ptr0 = 2 * m.cyc + 1 /\ w.ptr1 = 2 * m.cyc
      /\ w.len0 = 0 /\ w.len1 = 0 /\ w.son = m.son /\ w.maxLen = low /\ w.found = <<>> /\ w.done = FALSE
  BY <1>2 DEF WalkStart, WalkFields
<1>4. PICK x : x = [h \in {0, 1} |-> T]
  OBVIOUS
<1>5. T \in Nodes(m) /\ x \in [{0, 1} -> Nodes(m)] /\ \A h \in {0, 1} : x[h] = m.taken /\ HoleSide(m, x, h) = h
  BY <1>1, <1>4, NodesAre DEF HoleSide
<1>6. Hole(m, x, 0) = 2 * m.cyc /\ Hole(m, x, 1) = 2 * m.cyc + 1
  BY <1>1, <1>5, SlotIs DEF Hole
<1>7. \A s \in {0, 1} : Open(m, x, T, s) /\ \A a : a # T => ~ Open(m, x, a, s)
  BY <1>1, <1>5 DEF Open
<1>8. /\ \A a \in Nodes(m) : a \in Nat /\ a \in 0 .. T /\ (a = T \/ a \in Past(m))
      /\ \A a \in Past(m) : a \in Nat /\ a # T /\ a \in 0 .. T - 1
  BY <1>1, NodesAre DEF Nodes
<1>9. /\ I0 \in Places /\ (\A a \in Nat : a # T => I0[a] = I[a]) /\ T \in I0[T]
      /\ \A q : q \in I0[T] <=> q \in 0 .. T /\ KeyV[q] = KeyV[T]
  BY <1>1 DEF Joined
<1>10. Sons(m.son) /\ \A a \in Past(m) : a \in I[a] /\ \A q \in I[a] : q \in 0 .. a /\ KeyV[q] = KeyV[a]
  BY DEF TreeIs
<1>11. Under(m, I0)
  BY <1>8, <1>9, <1>10 DEF Under
<1>12. KeyV[T] \in Pairs /\ v \in Nat /\ v = hv[KeyV[T]]
  BY <1>1, KeyRange, PlaceIs, MinLenIs DEF Latest
<1>13. Live(m, v) => /\ Where(m, v) \in 0 .. T - 1 /\ Where(m, v) \in Past(m) /\ KeyV[Where(m, v)] = KeyV[T]
                     /\ I0[Where(m, v)] = I[Where(m, v)]
  <2>1. ASSUME Live(m, v) PROVE Where(m, v) \in Past(m) /\ KeyV[Where(m, v)] = KeyV[T]
    BY <1>12, <2>1, LatestPast
  <2>2. QED
    BY <1>8, <1>9, <2>1
<1>14. ASSUME NEW a \in Past(m), NEW s \in {0, 1}
       PROVE  Leads(m, m.son[Slot(m, a, s)], I, a, s) /\ Leads(m, m.son[Slot(m, a, s)], I0, a, s)
              /\ (\A q : Behind(m, m.son[Slot(m, a, s)], I, q) => Behind(m, m.son[Slot(m, a, s)], I0, q))
  <2>1. PICK u : u = m.son[Slot(m, a, s)]
    OBVIOUS
  <2>2. Leads(m, u, I, a, s)
    BY <2>1 DEF TreeIs
  <2>3. ASSUME Live(m, u) PROVE I0[Where(m, u)] = I[Where(m, u)]
    <3>1. PICK b : b = Where(m, u)
      OBVIOUS
    <3>2. b \in 0 .. a - 1
      BY <2>2, <2>3, <3>1 DEF Leads
    <3>3. b \in Nat /\ b # T
      BY <1>8, <3>2
    <3>4. QED
      BY <1>9, <3>1, <3>3
  <2>4. I0[a] = I[a]
    BY <1>8, <1>9
  <2>5. Leads(m, u, I0, a, s)
    BY <2>2, <2>3, <2>4 DEF Leads
  <2>6. \A q : Behind(m, u, I, q) => Behind(m, u, I0, q)
    BY <2>3 DEF Behind
  <2>7. QED
    BY <2>1, <2>2, <2>5, <2>6
<1>15. Sound(m, m.son, I0, x)
  <2>1. ASSUME NEW a \in Nodes(m), NEW s \in {0, 1}, ~ Open(m, x, a, s) PROVE Leads(m, m.son[Slot(m, a, s)], I0, a, s)
    <3>1. a \in Past(m)
      BY <1>7, <1>8, <2>1
    <3>2. QED
      BY <1>14, <3>1
  <2>2. QED
    BY <2>1 DEF Sound
<1>16. Hand(m, v, I0, x)
  <2>1. ASSUME Live(m, v), NEW q \in I0[Where(m, v)] PROVE q \in I0[T]
    <3>1. PICK b : b = Where(m, v)
      OBVIOUS
    <3>2. b \in Past(m) /\ KeyV[b] = KeyV[T] /\ q \in I[b] /\ b \in 0 .. T - 1
      BY <1>13, <2>1, <3>1
    <3>3. q \in 0 .. b /\ KeyV[q] = KeyV[T]
      BY <1>10, <3>2
    <3>4. q \in 0 .. T
      BY <3>2, <3>3
    <3>5. QED
      BY <1>9, <3>3, <3>4
  <2>2. QED
    BY <1>1, <1>5, <1>12, <1>13, <2>1 DEF Hand
<1>17. Stand(m, w, I0, x)
  <2>1. Owners(m, x)
    BY <1>5 DEF Owners
  <2>2. TreeHand(m, w.son, w.cur, I0, x)
    BY <1>3, <1>9, <1>10, <1>11, <1>15, <1>16, <2>1 DEF TreeHand
  <2>3. Reach(m, x, 0, w.len1) /\ Reach(m, x, 1, w.len0)
    BY <1>1, <1>3, <1>5 DEF Reach
  <2>4. QED
    BY <1>3, <1>6, <2>2, <2>3 DEF Stand
<1>18. IsList(m, w.found, low) /\ Capped(w.found, w.maxLen) /\ low <= w.maxLen
  BY <1>3 DEF IsList, Capped
<1>19. Live(m, w.cur) => Where(m, w.cur) <= m.taken - 1 - 0
  BY <1>1, <1>3, <1>13
<1>20. ASSUME Full PROVE Complete(m, w.son, w.cur, I0, x, V \cup {T}, Kept(m)) /\ Seeks(m, w, I0, Kept(m), low)
  <2>1. Reached(m, hv, I, V)
    BY <1>20 DEF TreeIs
  <2>2. V \subseteq Past(m) /\ V \cup {T} \subseteq Nodes(m) /\ \A q \in Kept(m) : q \in Past(m) /\ q \in 0 .. T /\ q \in Nat
    BY <1>1, <1>8, <2>1 DEF Reached, Nodes, Kept
  <2>3. Live(m, v) => Where(m, v) \in V
    BY <1>12, <2>1 DEF Reached
  <2>4. ASSUME NEW q \in Kept(m), KeyV[q] = KeyV[T] PROVE Behind(m, v, I0, q)
    <3>1. Behind(m, v, I, q)
      BY <1>12, <2>1, <2>4 DEF Reached
    <3>2. QED
      BY <1>13, <3>1 DEF Behind
  <2>5. ASSUME NEW a \in V \cup {T}, NEW q \in Kept(m), q \in I0[a], q # a
        PROVE  \/ \E s \in {0, 1} : ~ Open(m, x, a, s) /\ Behind(m, m.son[Slot(m, a, s)], I0, q)
               \/ \E h \in {0, 1} : a = x[h] /\ Behind(m, v, I0, q) /\ Side(m, q, m.taken, h)
    <3>1. CASE a = T
      <4>1. Behind(m, v, I0, q)
        BY <1>9, <2>4, <2>5, <3>1
      <4>2. q \in 0 .. m.taken /\ m.taken \in 0 .. m.taken /\ 0 \in {0, 1} /\ 1 - 0 = 1
        BY <1>1, <2>2
      <4>3. Side(m, q, m.taken, 0) \/ Side(m, q, m.taken, 1)
        BY <4>2, Sides
      <4>4. a = x[0] /\ a = x[1]
        BY <1>1, <1>5, <3>1
      <4>5. QED
        BY <4>1, <4>3, <4>4
    <3>2. CASE a # T
      <4>1. a \in V /\ a \in Past(m)
        BY <2>2, <2>5, <3>2
      <4>2. I0[a] = I[a]
        BY <1>8, <1>9, <4>1
      <4>3. PICK s \in {0, 1} : Behind(m, m.son[Slot(m, a, s)], I, q)
        BY <2>1, <2>5, <4>1, <4>2 DEF Reached
      <4>4. Behind(m, m.son[Slot(m, a, s)], I0, q) /\ ~ Open(m, x, a, s)
        BY <1>7, <1>14, <3>2, <4>1, <4>3
      <4>5. QED
        BY <4>4
    <3>3. QED
      BY <3>1, <3>2
  <2>6. ASSUME NEW a \in V \cup {T}, NEW s \in {0, 1}, ~ Open(m, x, a, s), Live(m, m.son[Slot(m, a, s)])
        PROVE  /\ Where(m, m.son[Slot(m, a, s)]) \in V \cup {T} /\ m.son[Slot(m, a, s)] # v
               /\ \A b \in V \cup {T}, t \in {0, 1} :
                    ~ Open(m, x, b, t) /\ m.son[Slot(m, b, t)] = m.son[Slot(m, a, s)] => b = a /\ t = s
    <3>1. a \in V /\ a \in Past(m) /\ \A b \in V \cup {T}, t \in {0, 1} : ~ Open(m, x, b, t) => b \in V
      BY <1>7, <2>2, <2>6
    <3>2. /\ Where(m, m.son[Slot(m, a, s)]) \in V
          /\ \A b \in V, t \in {0, 1} : m.son[Slot(m, b, t)] = m.son[Slot(m, a, s)] => b = a /\ t = s
      BY <2>1, <2>6, <3>1 DEF Reached, Linking
    <3>3. ASSUME m.son[Slot(m, a, s)] = v PROVE FALSE
      <4>1. PICK b : b = Where(m, v)
        OBVIOUS
      <4>2. Live(m, v) /\ b \in 0 .. a - 1 /\ \A q \in I[b] : q \in I[a]
        BY <1>14, <2>6, <3>1, <3>3, <4>1 DEF Leads
      <4>3. b \in Past(m) /\ KeyV[b] = KeyV[T]
        BY <1>13, <4>1, <4>2
      <4>4. KeyV[a] = KeyV[T]
        BY <1>10, <3>1, <4>2, <4>3
      <4>5. b >= a
        BY <1>12, <3>1, <4>1, <4>4 DEF Latest
      <4>6. a \in Nat
        BY <1>8, <3>1
      <4>7. QED
        BY <4>2, <4>5, <4>6
    <3>4. QED
      BY <3>1, <3>2, <3>3
  <2>7. Complete(m, w.son, w.cur, I0, x, V \cup {T}, Kept(m))
    <3>1. T = m.taken /\ T \in V \cup {T} /\ \A h \in {0, 1} : x[h] \in V \cup {T}
      BY <1>1, <1>5
    <3>2. QED
      BY <1>3, <2>2, <2>3, <2>5, <2>6, <3>1 DEF Complete
  <2>8. ASSUME NEW q \in Kept(m), NEW n \in 1 .. L, Nearest(m, q, n), low < n
        PROVE  Behind(m, v, I0, q) /\ low < n
    <3>1. MinLen \in 0 .. n /\ n \in Nat
      BY <2>8, MinLenIs
    <3>2. Agree(q, T, MinLen)
      BY <1>1, <2>8, <3>1, AgreeFewer DEF Nearest
    <3>3. KeyV[q] = KeyV[T]
      BY <1>1, <2>2, <3>2, SameKeys
    <3>4. QED
      BY <2>4, <2>8, <3>3
  <2>9. Seeks(m, w, I0, Kept(m), low)
    BY <1>1, <1>3, <2>8 DEF Seeks
  <2>10. QED
    BY <2>7, <2>9
<1>21. Walking(m, w, I0, x, V \cup {T}, Kept(m), low, 0)
  BY <1>17, <1>18, <1>19, <1>20 DEF Walking
<1>22. Spared(m, I0, I0, V \cup {T}, V \cup {T})
  BY DEF Spared
<1>23. WalkAt(m, w, I0, V \cup {T}, Kept(m), low, 0)
  BY <1>3, <1>21, <1>22 DEF WalkAt
<1>24. QED
  BY <1>1, <1>2, <1>23

-----------------------------------------------------------------------------
(* The trees at the next position.                                           *)

\* e is where the position has gone; son was the tree and hv the table before it.
Goes(m, son, hv, e, hv1, sub) ==
  /\ Further(m, e, sub) /\ e.cyc = IF m.cyc + 1 = cyclicBufferSize THEN 0 ELSE m.cyc + 1
  /\ e.lenLimit \in 0 .. m.lenLimit
  /\ e.son = [i \in DOMAIN son |-> Low(son[i], sub)]
  /\ hv1 = [k \in Pairs |-> Low([hv EXCEPT ![KeyV[m.taken]] = m.pos][k], sub)]

LEMMA PlaceStays ==
  ASSUME CaseOK, NEW m, WindowInv(m), NEW son, NEW hv, NEW e, NEW hv1, NEW sub, Goes(m, son, hv, e, hv1, sub),
         NEW a \in Past(e)
  PROVE  /\ a \in Nodes(m) /\ a \in 0 .. m.taken /\ m.taken - a + 1 < cyclicBufferSize
         /\ Node(e, e.taken - a) = Node(m, m.taken - a)
<1>1. PICK T \in Nat, c \in Nat \ {0} : T = m.taken /\ c = cyclicBufferSize
  BY PlaceIs
<1>2. e.taken = T + 1
  BY <1>1 DEF Goes, Further
<1>3. a \in Nodes(m) /\ a \in 0 .. T /\ T + 1 - a < c
  BY <1>1, <1>2, PastNext
<1>4. PICK d \in Nat : d = T - a /\ d + 1 = e.taken - a /\ d + 1 < c
  BY <1>1, <1>2, <1>3
<1>5. Node(e, d + 1) = Node(m, d)
  BY <1>1, <1>4, NodeStays, PlaceIs DEF Goes
<1>6. QED
  BY <1>1, <1>3, <1>4, <1>5

\* A number that leads to a place that is still there.
LEMMA LowGoes ==
  ASSUME CaseOK, NEW m, WindowInv(m), NEW e, NEW sub, Further(m, e, sub), NEW u \in Nat
  PROVE  /\ Low(u, sub) \in Nat
         /\ Live(e, Low(u, sub)) => Live(m, u) /\ Where(e, Low(u, sub)) = Where(m, u)
         /\ \A q \in Past(e) : Live(m, u) /\ q \in 0 .. Where(m, u) =>
              Live(e, Low(u, sub)) /\ Where(e, Low(u, sub)) = Where(m, u)
         /\ Live(e, Low(u, sub)) /\ Where(m, u) \in 0 .. m.taken => Where(m, u) \in Past(e)
<1>1. PICK T \in Nat, c \in Nat \ {0}, p \in Nat : T = m.taken /\ c = cyclicBufferSize /\ p = m.pos
  BY PlaceIs
<1>2. e.taken = T + 1 /\ sub \in Int /\ e.pos = p + 1 - sub
  BY <1>1 DEF Further
<1>3. PICK b : b = Where(m, u)
  OBVIOUS
<1>4. b \in Int /\ T - b = p - u
  BY <1>1, <1>3, WhereIs
<1>5. /\ Low(u, sub) \in Nat
      /\ Live(e, Low(u, sub)) => Live(m, u) /\ Where(e, Low(u, sub)) = b
      /\ Live(m, u) /\ m.pos - u + 1 < cyclicBufferSize =>
           Live(e, Low(u, sub)) /\ Where(e, Low(u, sub)) = b
  BY <1>3, LowIs
<1>6. ASSUME NEW q \in Past(e), Live(m, u), q \in 0 .. b
      PROVE  Live(e, Low(u, sub)) /\ Where(e, Low(u, sub)) = b
  <2>1. T + 1 - q < c /\ q \in Nat /\ q <= b
    BY <1>1, <1>2, <1>4, <1>6 DEF Past
  <2>2. T + 1 - b < c
    BY <1>1, <1>4, <2>1
  <2>3. m.pos - u + 1 < cyclicBufferSize
    BY <1>1, <1>4, <2>2
  <2>4. QED
    BY <1>5, <1>6, <2>3
<1>7. ASSUME Live(e, Low(u, sub)), b \in 0 .. T PROVE b \in Past(e)
  <2>1. PICK v \in Nat : v = Low(u, sub)
    BY <1>5
  <2>2. e.pos - v < c /\ Where(e, v) = b
    BY <1>1, <1>5, <1>7, <2>1 DEF Live
  <2>3. T + 1 - (p + 1 - sub - v) = b
    BY <1>2, <2>2 DEF Where
  <2>4. T + 1 - b < c /\ b \in 0 .. T + 1 - 1
    BY <1>1, <1>2, <1>7, <2>1, <2>2, <2>3
  <2>5. QED
    BY <1>1, <1>2, <2>4 DEF Past
<1>8. QED
  BY <1>1, <1>3, <1>5, <1>6, <1>7

LEMMA SonGoes ==
  ASSUME CaseOK, NEW m, WindowInv(m), NEW son, Sons(son), NEW hv, NEW e, NEW hv1, NEW sub,
         Goes(m, son, hv, e, hv1, sub), NEW a \in Past(e), NEW s \in {0, 1}
  PROVE  \E u \in Nat : u = son[Slot(m, a, s)] /\ e.son[Slot(e, a, s)] = Low(u, sub)
<1>1. a \in Nodes(m) /\ Node(e, e.taken - a) = Node(m, m.taken - a)
  BY PlaceStays
<1>2. Slot(e, a, s) = Slot(m, a, s) /\ Slot(m, a, s) \in 0 .. 2 * cyclicBufferSize - 1
  BY <1>1, SlotIs DEF Slot
<1>3. QED
  BY <1>2 DEF Sons, Goes

LEMMA LeadsOn ==
  ASSUME CaseOK, NEW m, WindowInv(m), NEW son, Sons(son), NEW hv, NEW e, NEW hv1, NEW sub,
         Goes(m, son, hv, e, hv1, sub), NEW a \in Past(e), NEW s \in {0, 1},
         NEW I, Leads(m, son[Slot(m, a, s)], I, a, s)
  PROVE  Leads(e, e.son[Slot(e, a, s)], I, a, s)
<1>1. PICK u \in Nat : u = son[Slot(m, a, s)] /\ e.son[Slot(e, a, s)] = Low(u, sub)
  BY SonGoes
<1>2. PICK v \in Nat : v = Low(u, sub) /\ (Live(e, v) => Live(m, u) /\ Where(e, v) = Where(m, u))
  <2>1. Further(m, e, sub)
    BY DEF Goes
  <2>2. QED
    BY <2>1, LowGoes
<1>3. PICK l \in Nat, L \in Nat : l = e.lenLimit /\ L = m.lenLimit /\ l \in 0 .. L
  BY PlaceIs DEF Goes
<1>4. \A q : Side(m, q, a, s) => Side(e, q, a, s)
  BY <1>3, BelowShorter DEF Side
<1>5. Leads(m, u, I, a, s)
  BY <1>1
<1>6. Leads(e, v, I, a, s)
  BY <1>2, <1>4, <1>5 DEF Leads
<1>7. QED
  BY <1>1, <1>2, <1>6

LEMMA TreeGoes ==
  ASSUME CaseOK, NEW m, WindowInv(m), m.lenLimit >= MinLen, NEW hv, Latest(m, hv, KeyV, Pairs),
         NEW I, NEW V, TreeIs(m, hv, I, V), NEW I0, Joined(m, I, I0), NEW I1, NEW V1,
         Spared(m, I0, I1, V \cup {m.taken}, V1), NEW son, NEW fs, NEW low, Stopped(m, son, fs, I1, V1, Kept(m), low),
         NEW e, WindowInv(e), NEW hv1, NEW sub, Goes(m, son, hv, e, hv1, sub)
  PROVE  TreeIs(e, hv1, I1, V1 \cap Past(e))
<1>1. PICK T \in Nat, L \in Nat, l \in Nat : T = m.taken /\ L = m.lenLimit /\ l = e.lenLimit /\ l \in 0 .. L
  BY PlaceIs DEF Goes
<1>2. Further(m, e, sub) /\ e.taken = T + 1
  BY <1>1 DEF Goes, Further
<1>3. Sons(son) /\ I1 \in Places /\ Under(m, I1) /\ SoundAll(m, son, I1)
  BY DEF Stopped
<1>4. \A a \in Past(e) : a \in Nodes(m) /\ a \in 0 .. T /\ a \in Nat /\ (a = T \/ a \in Past(m))
  BY <1>1, PlaceStays DEF Nodes
<1>5. Sons(e.son)
  <2>1. \A i \in 0 .. 2 * cyclicBufferSize - 1 : Low(son[i], sub) \in Nat
    BY <1>2, <1>3, LowGoes DEF Sons
  <2>2. e.son = [i \in 0 .. 2 * cyclicBufferSize - 1 |-> Low(son[i], sub)]
    BY <1>3 DEF Goes, Sons
  <2>3. QED
    BY <2>1, <2>2 DEF Sons
<1>6. \A a \in Past(e) : a \in I1[a] /\ \A q \in I1[a] : q \in 0 .. a /\ KeyV[q] = KeyV[a]
  BY <1>3, <1>4 DEF Under
<1>7. \A a \in Past(e), s \in {0, 1} : Leads(e, e.son[Slot(e, a, s)], I1, a, s)
  BY <1>3, <1>4, LeadsOn DEF SoundAll
<1>8. ASSUME Full PROVE Reached(e, hv1, I1, V1 \cap Past(e))
  <2>1. CompleteAll(m, son, I1, V1, Unlike(m, Kept(m))) /\ Reached(m, hv, I, V)
    BY <1>8 DEF Stopped, TreeIs
  <2>2. V1 \subseteq Nodes(m) /\ T \in V1
    BY <1>1, <2>1 DEF CompleteAll
  <2>3. ASSUME NEW q \in Kept(e), q # T PROVE q \in Kept(m) /\ q \in Unlike(m, Kept(m)) /\ q \in Past(e) /\ q \in Past(m)
    <3>1. q \in Past(e) /\ q \in Past(m) /\ q \in 0 .. T - 1
      BY <1>1, <1>4, <2>3 DEF Kept, Past
    <3>2. \A p \in q + 1 .. T : ~ Agree(p, q, l)
      BY <1>1, <1>2, <2>3 DEF Kept
    <3>3. \A p \in q + 1 .. T : ~ Agree(p, q, L)
      BY <1>1, <3>2, AgreeFewer
    <3>4. q \in Kept(m)
      BY <1>1, <3>1, <3>3 DEF Kept
    <3>5. T \in q + 1 .. T
      BY <1>1, <3>1
    <3>6. ~ Agree(q, T, L)
      BY <3>3, <3>5, AgreeSym
    <3>7. QED
      BY <1>1, <3>1, <3>4, <3>6 DEF Unlike
  <2>4. \A q \in Kept(e) : q \in Past(e) /\ q \in 0 .. T
    BY <1>4 DEF Kept
  <2>5. ASSUME NEW u \in Nat, NEW q \in Past(e), Live(m, u), q \in 0 .. Where(m, u), q \in I1[Where(m, u)]
        PROVE  Behind(e, Low(u, sub), I1, q)
    <3>1. Live(e, Low(u, sub)) /\ Where(e, Low(u, sub)) = Where(m, u)
      BY <1>2, <2>5, LowGoes
    <3>2. QED
      BY <2>5, <3>1 DEF Behind
  <2>6. ASSUME NEW a \in V1 \cap Past(e), NEW q \in Kept(e), q \in I1[a], q # a
        PROVE  \E s \in {0, 1} : Behind(e, e.son[Slot(e, a, s)], I1, q)
    <3>1. q # T
      <4>1. q \in 0 .. a /\ a \in 0 .. T
        BY <1>4, <1>6, <2>6
      <4>2. QED
        BY <1>1, <2>6, <4>1
    <3>2. PICK s \in {0, 1} : Behind(m, son[Slot(m, a, s)], I1, q)
      BY <2>1, <2>3, <2>6, <3>1 DEF CompleteAll
    <3>3. PICK u \in Nat : u = son[Slot(m, a, s)] /\ e.son[Slot(e, a, s)] = Low(u, sub)
      BY <1>3, SonGoes
    <3>4. Live(m, u) /\ q \in I1[Where(m, u)]
      BY <3>2, <3>3 DEF Behind
    <3>5. Where(m, u) \in Nodes(m)
      <4>1. Where(m, u) \in V1
        BY <2>1, <3>3, <3>4 DEF CompleteAll
      <4>2. QED
        BY <2>2, <4>1
    <3>6. q \in 0 .. Where(m, u)
      BY <1>3, <3>4, <3>5 DEF Under
    <3>7. QED
      BY <2>4, <2>5, <3>3, <3>4, <3>6
  <2>7. Linking(e, I1, V1 \cap Past(e))
    <3>1. ASSUME NEW a \in V1 \cap Past(e), NEW s \in {0, 1}, Live(e, e.son[Slot(e, a, s)])
          PROVE  /\ Where(e, e.son[Slot(e, a, s)]) \in V1 \cap Past(e)
                 /\ \A b \in V1 \cap Past(e), t \in {0, 1} :
                      e.son[Slot(e, b, t)] = e.son[Slot(e, a, s)] => b = a /\ t = s
      <4>1. PICK u \in Nat : u = son[Slot(m, a, s)] /\ e.son[Slot(e, a, s)] = Low(u, sub)
        BY <1>3, SonGoes
      <4>2. Live(m, u) /\ Where(e, Low(u, sub)) = Where(m, u)
        BY <1>2, <3>1, <4>1, LowGoes
      <4>3. /\ Where(m, u) \in V1
            /\ \A b \in V1, t \in {0, 1} : son[Slot(m, b, t)] = u => b = a /\ t = s
        BY <2>1, <4>1, <4>2 DEF CompleteAll
      <4>4. Where(m, u) \in 0 .. m.taken
        BY <2>2, <4>3, NodesAre
      <4>5. Where(m, u) \in Past(e)
        BY <1>2, <3>1, <4>1, <4>4, LowGoes
      <4>6. ASSUME NEW b \in V1 \cap Past(e), NEW t \in {0, 1}, e.son[Slot(e, b, t)] = e.son[Slot(e, a, s)]
            PROVE  b = a /\ t = s
        <5>1. PICK y \in Nat : y = son[Slot(m, b, t)] /\ e.son[Slot(e, b, t)] = Low(y, sub)
          BY <1>3, SonGoes
        <5>2. Live(e, Low(y, sub)) /\ Where(e, Low(y, sub)) = Where(m, u)
          BY <3>1, <4>1, <4>2, <4>6, <5>1
        <5>3. Where(m, y) = Where(m, u)
          BY <1>2, <5>2, LowGoes
        <5>4. y = u
          BY <5>3, WhereTells
        <5>5. QED
          BY <4>3, <5>1, <5>4
      <4>7. QED
        BY <4>1, <4>2, <4>3, <4>5, <4>6
    <3>2. QED
      BY <3>1 DEF Linking
  <2>8. PICK key \in Pairs : key = KeyV[T]
    BY <1>1, KeyRange, PlaceIs, MinLenIs
  <2>9. hv \in [Pairs -> Nat] /\ m.pos \in Nat
    BY PlaceIs DEF Latest
  <2>10. hv1[key] = Low(m.pos, sub) /\ \A k \in Pairs : k # key => hv1[k] = Low(hv[k], sub)
    BY <1>1, <2>8, <2>9 DEF Goes
  <2>11. Where(m, m.pos) = T
    BY <1>1, <2>9 DEF Where
  <2>12. ASSUME NEW a \in Past(m), KeyV[a] # key PROVE I1[a] = I[a] /\ (a \in V => a \in V1)
    <3>1. a \in Nodes(m) /\ a \in Nat /\ a # T
      BY <1>1, <2>12, NodesAre
    <3>2. I0[a] = I[a]
      BY <1>1, <3>1 DEF Joined
    <3>3. I1[a] = I0[a] /\ (a \in V \cup {m.taken} => a \in V1)
      BY <1>1, <2>8, <2>12, <3>1 DEF Spared
    <3>4. QED
      BY <3>2, <3>3
  <2>13. ASSUME NEW k \in Pairs, Live(e, hv1[k]) PROVE Where(e, hv1[k]) \in V1 \cap Past(e)
    <3>1. CASE k = key
      <4>1. Where(e, Low(m.pos, sub)) = T /\ T \in 0 .. m.taken
        BY <1>1, <1>2, <2>9, <2>10, <2>11, <2>13, <3>1, LowGoes
      <4>2. T \in Past(e)
        BY <1>2, <2>9, <2>10, <2>11, <2>13, <3>1, <4>1, LowGoes
      <4>3. QED
        BY <2>2, <2>10, <3>1, <4>1, <4>2
    <3>2. CASE k # key
      <4>1. PICK u \in Nat : u = hv[k] /\ hv1[k] = Low(u, sub)
        BY <2>9, <2>10, <3>2
      <4>2. Live(m, u) /\ Where(e, Low(u, sub)) = Where(m, u)
        BY <1>2, <2>13, <4>1, LowGoes
      <4>3. PICK b : b = Where(m, u)
        OBVIOUS
      <4>4. b \in Past(m) /\ KeyV[b] = k /\ b \in V
        BY <2>1, <4>1, <4>2, <4>3, LatestPast DEF Reached
      <4>5. b \in V1
        BY <2>12, <3>2, <4>4
      <4>6. b \in 0 .. m.taken
        BY <4>4, NodesAre
      <4>7. b \in Past(e)
        BY <1>2, <2>13, <4>1, <4>3, <4>6, LowGoes
      <4>8. QED
        BY <4>1, <4>2, <4>3, <4>5, <4>7
    <3>3. QED
      BY <3>1, <3>2
  <2>14. ASSUME NEW q \in Kept(e) PROVE Behind(e, hv1[KeyV[q]], I1, q)
    <3>1. CASE KeyV[q] = key
      <4>1. q \in 0 .. T /\ q \in Past(e)
        BY <2>4
      <4>2. I1[T] = I0[T] /\ q \in I0[T]
        BY <1>1, <2>8, <3>1, <4>1 DEF Spared, Joined
      <4>3. Live(m, m.pos)
        <5>1. PICK c \in Nat \ {0}, p \in Nat : c = cyclicBufferSize /\ p = m.pos
          BY PlaceIs
        <5>2. p - p < c
          BY <5>1
        <5>3. QED
          BY <5>1, <5>2 DEF Live
      <4>4. Behind(e, Low(m.pos, sub), I1, q)
        BY <1>1, <2>5, <2>9, <2>11, <4>1, <4>2, <4>3
      <4>5. QED
        BY <2>10, <3>1, <4>4
    <3>2. CASE KeyV[q] # key
      <4>1. q \in Kept(m) /\ q \in Past(e) /\ q \in Past(m)
        BY <2>3, <2>8, <3>2
      <4>2. KeyV[q] \in Pairs
        BY <4>1 DEF Latest
      <4>3. PICK u \in Nat : u = hv[KeyV[q]] /\ hv1[KeyV[q]] = Low(u, sub)
        BY <2>9, <2>10, <3>2, <4>2
      <4>4. PICK b : b = Where(m, u)
        OBVIOUS
      <4>5. Live(m, u) /\ q \in I[b]
        BY <2>1, <4>1, <4>3, <4>4 DEF Reached, Behind
      <4>6. b \in Past(m) /\ KeyV[b] = KeyV[q]
        BY <4>2, <4>3, <4>4, <4>5, LatestPast
      <4>7. q \in I1[b]
        BY <2>12, <3>2, <4>5, <4>6
      <4>8. q \in 0 .. b
        BY <4>5, <4>6 DEF TreeIs
      <4>9. QED
        BY <2>5, <4>1, <4>3, <4>4, <4>5, <4>7, <4>8
    <3>3. QED
      BY <3>1, <3>2
  <2>15. QED
    BY <2>6, <2>7, <2>13, <2>14 DEF Reached
<1>9. QED
  BY <1>3, <1>5, <1>6, <1>7, <1>8 DEF TreeIs

-----------------------------------------------------------------------------
(* The chains.                                                               *)

Link(m, son, a) == son[Node(m, m.taken - a)]

\* From a place the chain goes to the last one before it that has its hash.
Chained(m, u, a) ==
  /\ u \in Nat
  /\ Live(m, u) => Where(m, u) \in 0 .. a - 1 /\ KeyV[Where(m, u)] = KeyV[a]
  /\ \A b \in Past(m) : b < a /\ KeyV[b] = KeyV[a] => Live(m, u) /\ Where(m, u) >= b

ChainIs(m) ==
  /\ m.son \in [0 .. cyclicBufferSize - 1 -> Nat]
  /\ \A a \in Past(m) : Chained(m, Link(m, m.son, a), a)

\* The position is the first of the chain of its hash.
LEMMA ChainJoins ==
  ASSUME CaseOK, NEW m, WindowInv(m), m.lenLimit >= MinLen, NEW hv, Latest(m, hv, KeyV, Pairs), ChainIs(m),
         NEW v, v = hv[KeyV[m.taken]], NEW son, son = [m.son EXCEPT ![m.cyc] = v]
  PROVE  /\ son \in [0 .. cyclicBufferSize - 1 -> Nat]
         /\ \A a \in Nodes(m) : Chained(m, Link(m, son, a), a)
<1>1. PICK T \in Nat, c \in Nat \ {0} : T = m.taken /\ c = cyclicBufferSize /\ m.cyc \in 0 .. c - 1
  BY PlaceIs
<1>2. KeyV[T] \in Pairs /\ v \in Nat /\ v = hv[KeyV[T]]
  BY <1>1, KeyRange, PlaceIs, MinLenIs DEF Latest
<1>3. m.son \in [0 .. c - 1 -> Nat]
  BY <1>1 DEF ChainIs
<1>4. son \in [0 .. c - 1 -> Nat] /\ son[m.cyc] = v /\ \A i \in 0 .. c - 1 : i # m.cyc => son[i] = m.son[i]
  BY <1>1, <1>2, <1>3
<1>5. Chained(m, v, T)
  <2>1. ASSUME Live(m, v) PROVE Where(m, v) \in 0 .. T - 1 /\ KeyV[Where(m, v)] = KeyV[T]
    BY <1>1, <1>2, <2>1 DEF Latest
  <2>2. ASSUME NEW b \in Past(m), KeyV[b] = KeyV[T] PROVE Live(m, v) /\ Where(m, v) >= b
    BY <1>2, <2>2 DEF Latest
  <2>3. QED
    BY <1>2, <2>1, <2>2 DEF Chained
<1>6. ASSUME NEW a \in Nodes(m) PROVE Chained(m, Link(m, son, a), a)
  <2>1. a \in 0 .. T /\ (a = T \/ (a \in Past(m) /\ a # T))
      <3>1. a = T \/ a \in Past(m)
      BY <1>1 DEF Nodes
    <3>2. a \in 0 .. T /\ (a \in Past(m) => a \in 0 .. T - 1)
      BY <1>1, NodesAre
    <3>3. QED
      BY <1>1, <3>1, <3>2
  <2>2. CASE a = T
    <3>1. T - T = 0 /\ 0 \in 0 .. c - 1
      BY <1>1
    <3>2. Node(m, 0) = m.cyc
      BY <1>1, <3>1, NodeIs
    <3>3. Link(m, son, T) = v
      BY <1>1, <1>4, <3>1, <3>2 DEF Link
    <3>4. QED
      BY <1>5, <2>2, <3>3
  <2>3. CASE a \in Past(m) /\ a # T
    <3>1. PICK d \in 0 .. c - 1 : d = T - a /\ d # 0
      BY <1>1, <2>1, <2>3 DEF Past
    <3>2. 0 \in 0 .. c - 1 /\ Node(m, d) \in 0 .. c - 1 /\ Node(m, 0) = m.cyc /\ Node(m, d) # Node(m, 0)
      BY <1>1, <3>1, NodeIs
    <3>3. Link(m, son, a) = Link(m, m.son, a)
      BY <1>1, <1>4, <3>1, <3>2 DEF Link
    <3>4. QED
      BY <2>3, <3>3 DEF ChainIs
  <2>4. QED
    BY <2>1, <2>2, <2>3
<1>7. QED
  BY <1>1, <1>4, <1>6

LEMMA ChainGoes ==
  ASSUME CaseOK, NEW m, WindowInv(m), NEW son, son \in [0 .. cyclicBufferSize - 1 -> Nat],
         \A a \in Nodes(m) : Chained(m, Link(m, son, a), a),
         NEW hv, NEW e, NEW hv1, NEW sub, Goes(m, son, hv, e, hv1, sub)
  PROVE  ChainIs(e)
<1>1. PICK T \in Nat, c \in Nat \ {0} : T = m.taken /\ c = cyclicBufferSize /\ m.cyc \in 0 .. c - 1
  BY PlaceIs
<1>2. Further(m, e, sub) /\ e.taken = T + 1
  BY <1>1 DEF Goes, Further
<1>3. e.son \in [0 .. c - 1 -> Nat]
  <2>1. \A i \in 0 .. c - 1 : Low(son[i], sub) \in Nat
    BY <1>1, <1>2, LowGoes
  <2>2. e.son = [i \in 0 .. c - 1 |-> Low(son[i], sub)]
    BY <1>1 DEF Goes
  <2>3. QED
    BY <2>1, <2>2
<1>4. ASSUME NEW a \in Past(e) PROVE Chained(e, Link(e, e.son, a), a)
  <2>1. a \in Nodes(m) /\ a \in 0 .. T /\ Node(e, e.taken - a) = Node(m, m.taken - a) /\ T - a + 1 < c
    BY <1>1, PlaceStays
  <2>2. PICK u : u = Link(m, son, a)
    OBVIOUS
  <2>3. Chained(m, u, a)
    BY <2>1, <2>2
  <2>4. Link(e, e.son, a) = Low(u, sub)
    <3>1. PICK d \in 0 .. c - 1 : d = T - a
      BY <1>1, <2>1
    <3>2. PICK i \in 0 .. c - 1 : i = Node(m, m.taken - a)
      BY <1>1, <3>1, NodeIs
    <3>3. e.son[i] = Low(son[i], sub)
      BY <1>1, <3>2 DEF Goes
    <3>4. QED
      BY <2>1, <2>2, <3>2, <3>3 DEF Link
  <2>5. PICK v : v = Low(u, sub)
    OBVIOUS
  <2>6. u \in Nat /\ v \in Nat
    BY <1>2, <2>3, <2>5, LowGoes DEF Chained
  <2>7. ASSUME Live(e, v) PROVE Where(e, v) \in 0 .. a - 1 /\ KeyV[Where(e, v)] = KeyV[a]
    <3>1. Live(m, u) /\ Where(e, v) = Where(m, u)
      BY <1>2, <2>5, <2>6, <2>7, LowGoes
    <3>2. QED
      BY <2>3, <3>1 DEF Chained
  <2>8. ASSUME NEW b \in Past(e), b < a, KeyV[b] = KeyV[a] PROVE Live(e, v) /\ Where(e, v) >= b
    <3>1. b \in Past(m) /\ b \in Nat
      <4>1. b \in 0 .. T /\ T + 1 - b < c
        BY <1>1, <1>2, PastNext
      <4>2. b \in 0 .. T - 1 /\ T - b < c
        <5>1. b < T
          BY <1>1, <2>1, <2>8, <4>1
        <5>2. QED
          BY <1>1, <4>1, <5>1, SMTT(60)
      <4>3. QED
        BY <1>1, <4>2 DEF Past
    <3>2. Live(m, u) /\ Where(m, u) >= b /\ Where(m, u) \in 0 .. a - 1
      BY <2>3, <2>8, <3>1 DEF Chained
    <3>3. b \in 0 .. Where(m, u)
      BY <2>1, <3>1, <3>2
    <3>4. Live(e, v) /\ Where(e, v) = Where(m, u)
      BY <1>2, <2>5, <2>6, <3>2, <3>3, LowGoes
    <3>5. QED
      BY <3>2, <3>4
  <2>9. QED
    BY <2>4, <2>5, <2>6, <2>7, <2>8 DEF Chained
<1>5. QED
  BY <1>1, <1>3, <1>4 DEF ChainIs

-----------------------------------------------------------------------------
(* The search through a chain.                                               *)

ChainFields == {"cur", "son", "maxLen", "found", "done"}

Chasing(m, w, low) ==
  \A q \in Past(m), n \in 1 .. m.lenLimit : Nearest(m, q, n) /\ low < n =>
    Has(m, w.found, q, n) \/ (Live(m, w.cur) /\ Where(m, w.cur) >= q /\ w.maxLen < n)

\* k turns are over.
ChainGoing(m, w, son, low, k) ==
  /\ w.done = FALSE /\ w.maxLen \in Nat /\ w.maxLen < m.lenLimit /\ low <= w.maxLen /\ Capped(w.found, w.maxLen)
  /\ Live(m, w.cur) => /\ Where(m, w.cur) \in 0 .. m.taken - 1 /\ Where(m, w.cur) <= m.taken - 1 - k
                       /\ KeyV[Where(m, w.cur)] = KeyV[m.taken]
  /\ Chasing(m, w, low)

ChainAt(m, w, son, low, k) ==
  /\ DOMAIN w = ChainFields /\ w.son = son /\ w.cur \in Nat /\ IsList(m, w.found, low) /\ MinLen - 1 <= low
  /\ ChainGoing(m, w, son, low, k) \/ (w.done = TRUE /\ Finds(m, w.found, Past(m), low))

LEMMA ChainBegins ==
  ASSUME CaseOK, NEW m, WindowInv(m), m.lenLimit >= MinLen, NEW hv, Latest(m, hv, KeyV, Pairs),
         NEW v, v = hv[KeyV[m.taken]], NEW low \in Nat, low >= MinLen - 1, low < m.lenLimit
  PROVE  ChainAt(m, ChainStart(m, v, low), [m.son EXCEPT ![m.cyc] = v], low, 0)
<1>1. PICK T \in Nat, L \in Nat : T = m.taken /\ L = m.lenLimit
  BY PlaceIs
<1>2. PICK w : w = ChainStart(m, v, low)
  OBVIOUS
<1>3. /\ DOMAIN w = ChainFields /\ w.cur = v /\ w.son = [m.son EXCEPT ![m.cyc] = v]
      /\ w.maxLen = low /\ w.found = <<>> /\ w.done = FALSE
  BY <1>2 DEF ChainStart, ChainFields
<1>4. KeyV[T] \in Pairs /\ v \in Nat /\ v = hv[KeyV[T]]
  BY <1>1, KeyRange, PlaceIs, MinLenIs DEF Latest
<1>5. Live(m, v) => Where(m, v) \in 0 .. T - 1 /\ KeyV[Where(m, v)] = KeyV[T]
  BY <1>1, <1>4 DEF Latest
<1>6. IsList(m, w.found, low) /\ Capped(w.found, w.maxLen)
  BY <1>3 DEF IsList, Capped
<1>7. ASSUME NEW q \in Past(m), NEW n \in 1 .. L, Nearest(m, q, n), low < n
      PROVE  Live(m, v) /\ Where(m, v) >= q
  <2>1. MinLen \in 0 .. n /\ n \in Nat
    BY <1>7, MinLenIs
  <2>2. Agree(q, T, MinLen)
    BY <1>1, <1>7, <2>1, AgreeFewer DEF Nearest
  <2>3. KeyV[q] = KeyV[T]
    BY <1>1, <2>2, SameKeys, NodesAre
  <2>4. QED
    BY <1>4, <2>3 DEF Latest
<1>8. Chasing(m, w, low)
  BY <1>1, <1>3, <1>7 DEF Chasing
<1>9. Live(m, w.cur) => Where(m, w.cur) <= m.taken - 1 - 0
  BY <1>1, <1>3, <1>5
<1>10. ChainGoing(m, w, [m.son EXCEPT ![m.cyc] = v], low, 0)
  BY <1>1, <1>3, <1>5, <1>6, <1>8, <1>9 DEF ChainGoing
<1>11. QED
  BY <1>2, <1>3, <1>4, <1>6, <1>10 DEF ChainAt

\* Where the comparison of two bytes is worth more than it says.
LEMMA Worth ==
  ASSUME CaseOK, NEW m, WindowInv(m), NEW p \in Past(m), NEW d, d = m.taken - p, NEW c \in Nat, c < m.lenLimit
  PROVE  /\ Cur(m, c - d) = ByteAt(p + c) /\ Cur(m, c) = ByteAt(m.taken + c)
         /\ Cur(m, - d) = ByteAt(p) /\ Cur(m, 0) = ByteAt(m.taken)
<1>1. PICK T \in Nat, L \in Nat, y \in Nat \ {0}, A \in Nat :
        T = m.taken /\ L = m.lenLimit /\ y = cyclicBufferSize /\ A = Avail(m) /\ L <= A
  BY PlaceIs
<1>2. p \in 0 .. T - 1 /\ T - p < y
  BY <1>1 DEF Past
<1>3. ASSUME NEW n \in Nat, n < L PROVE Cur(m, n - d) = ByteAt(p + n) /\ Cur(m, n) = ByteAt(T + n)
  <2>1. PICK i \in Int : i = n - d /\ i < A /\ - i <= T /\ - i < y /\ T + i = p + n
    BY <1>1, <1>2, <1>3
  <2>2. Cur(m, i) = ByteAt(m.taken + i)
    BY <1>1, <2>1, Reading
  <2>3. n \in Int /\ n < A /\ - n <= T /\ - n < y
    BY <1>1, <1>3
  <2>4. Cur(m, n) = ByteAt(m.taken + n)
    BY <1>1, <2>3, Reading
  <2>5. QED
    BY <1>1, <2>1, <2>2, <2>4
<1>4. Cur(m, c - d) = ByteAt(p + c) /\ Cur(m, c) = ByteAt(T + c)
  BY <1>1, <1>3
<1>5. 0 \in Nat /\ 0 < L /\ 0 - d = - d /\ p + 0 = p /\ T + 0 = T
  BY <1>1, <1>2
<1>6. Cur(m, - d) = ByteAt(p) /\ Cur(m, 0) = ByteAt(T)
  BY <1>3, <1>5
<1>7. QED
  BY <1>1, <1>4, <1>6

\* One turn, at the place p.
Chain1(m, w, w2, p, son, low, k) ==
  /\ w2.son = son /\ DOMAIN w2 = ChainFields /\ w2.cur = Link(m, son, p)
  /\ \/ /\ w2.found = w.found /\ w2.maxLen = w.maxLen /\ w2.done = FALSE
        /\ ~ Agree(p, m.taken, w.maxLen + 1)
     \/ \E len \in 1 .. m.lenLimit :
          /\ w.maxLen < len /\ Agree(p, m.taken, len) /\ (len < m.lenLimit => ~ Agree(p, m.taken, len + 1))
          /\ w2.found = Append(w.found, [len |-> len, dist |-> m.taken - p - 1])
          /\ w2.maxLen = len /\ w2.done = (len = m.lenLimit)

LEMMA ChainTurnIs ==
  ASSUME CaseOK, NEW m, WindowInv(m), NEW w, NEW son, NEW low \in Nat, NEW k \in Nat,
         ChainAt(m, w, son, low, k), ChainGoing(m, w, son, low, k), Live(m, w.cur), NEW p, p = Where(m, w.cur),
         NEW w2, w2 = ChainTurn(m, w)
  PROVE  Chain1(m, w, w2, p, son, low, k)
<1>1. PICK T \in Nat, L \in Nat, c \in Nat, y \in Nat \ {0} :
        T = m.taken /\ L = m.lenLimit /\ c = w.maxLen /\ c < L /\ y = cyclicBufferSize
  BY PlaceIs DEF ChainGoing
<1>2. DOMAIN w = ChainFields /\ w.son = son /\ w.cur \in Nat /\ w.done = FALSE
  BY DEF ChainAt, ChainGoing
<1>3. p \in 0 .. T - 1 /\ p \in Past(m) /\ T - p = m.pos - w.cur
  <2>1. Where(m, w.cur) \in 0 .. m.taken - 1
    BY DEF ChainGoing
  <2>2. QED
    BY <1>1, <1>2, <2>1, WhereIs
<1>4. PICK d \in Nat \ {0} : d = T - p /\ d = m.pos - w.cur /\ d < y
  BY <1>1, <1>3 DEF Past
<1>5. PICK next : next = [w EXCEPT !.cur = w.son[Node(m, d)]]
  OBVIOUS
<1>6. next.cur = Link(m, son, p) /\ next.son = son /\ next.maxLen = c /\ next.found = w.found /\ next.done = FALSE
      /\ DOMAIN next = ChainFields
  BY <1>1, <1>2, <1>4, <1>5 DEF Link, ChainFields
<1>7. PICK worth : worth <=> Cur(m, c - d) = Cur(m, c) /\ Cur(m, - d) = Cur(m, 0)
  OBVIOUS
<1>8. PICK len : len = MatchLen(m, d, 1)
  OBVIOUS
<1>9. w2 = IF worth /\ c < len
             THEN [next EXCEPT !.maxLen = len, !.found = Append(@, Found(len, d)), !.done = (len = L)]
             ELSE next
  <2>1. ~ (d >= cyclicBufferSize)
    BY <1>1, <1>4
  <2>2. QED
    BY <1>1, <1>4, <1>5, <1>7, <1>8, <2>1 DEF ChainTurn
<1>10. worth <=> ByteAt(p + c) = ByteAt(T + c) /\ ByteAt(p) = ByteAt(T)
  BY <1>1, <1>3, <1>4, <1>7, Worth
<1>11. ASSUME worth
       PROVE  /\ len \in 1 .. L /\ Agree(p, T, len)
              /\ len < L => ~ Agree(p, T, len + 1)
  <2>1. 1 \in 0 .. L /\ Agree(p, T, 1)
    <3>1. \A i \in 0 .. 1 - 1 : i = 0
      OBVIOUS
    <3>2. p + 0 = p /\ T + 0 = T
      BY <1>1, <1>3
    <3>3. Agree(p, T, 1)
      BY <1>10, <1>11, <3>1, <3>2 DEF Agree
    <3>4. QED
      BY <1>1, <3>3
  <2>2. /\ len \in 1 .. L /\ Agree(p, T, len)
        /\ len < L => ByteAt(p + len) # ByteAt(T + len)
    BY <1>1, <1>3, <1>4, <1>8, <2>1, MatchLenRight
  <2>3. len < L => ~ Agree(p, T, len + 1)
    <3>1. len \in 0 .. (len + 1) - 1
      BY <2>2
    <3>2. QED
      BY <2>2, <3>1 DEF Agree
  <2>4. QED
    BY <2>2, <2>3
<1>12. CASE worth /\ c < len
  <2>1. PICK f, more : f = Found(len, d) /\ more = Append(w.found, f)
    OBVIOUS
  <2>2. f = [len |-> len, dist |-> T - p - 1]
    BY <1>4, <2>1 DEF Found
  <2>3. w2 = [next EXCEPT !.maxLen = len, !.found = more, !.done = (len = L)]
    BY <1>6, <1>9, <1>12, <2>1
  <2>4. /\ w2.son = son /\ DOMAIN w2 = ChainFields /\ w2.cur = Link(m, son, p)
        /\ w2.found = more /\ w2.maxLen = len /\ w2.done = (len = L)
    BY <1>6, <2>3 DEF ChainFields
  <2>5. QED
    BY <1>1, <1>11, <1>12, <2>1, <2>2, <2>4 DEF Chain1
<1>13. CASE ~ (worth /\ c < len)
  <2>1. w2 = next
    BY <1>9, <1>13
  <2>2. ~ Agree(p, T, c + 1)
    <3>1. SUFFICES ASSUME Agree(p, T, c + 1) PROVE FALSE
      OBVIOUS
    <3>2. c \in 0 .. (c + 1) - 1 /\ 0 \in 0 .. (c + 1) - 1 /\ p + 0 = p /\ T + 0 = T
      BY <1>1, <1>3
    <3>3. worth
      BY <1>10, <3>1, <3>2 DEF Agree
    <3>4. len \in 1 .. L /\ len <= c /\ ~ Agree(p, T, len + 1)
      BY <1>1, <1>11, <1>13, <3>3
    <3>5. len + 1 \in 0 .. c + 1 /\ c + 1 \in Nat
      BY <1>1, <3>4
    <3>6. QED
      BY <3>1, <3>4, <3>5, AgreeFewer
  <2>3. QED
    BY <1>1, <1>6, <2>1, <2>2 DEF Chain1
<1>14. QED
  BY <1>12, <1>13

LEMMA ChainOn ==
  ASSUME CaseOK, NEW m, WindowInv(m), NEW w, NEW son, \A a \in Nodes(m) : Chained(m, Link(m, son, a), a),
         NEW low \in Nat, NEW k \in Nat,
         ChainAt(m, w, son, low, k), ChainGoing(m, w, son, low, k), Live(m, w.cur),
         NEW w2, w2 = ChainTurn(m, w)
  PROVE  ChainAt(m, w2, son, low, k + 1)
<1>1. PICK T \in Nat, L \in Nat, c \in Nat :
        T = m.taken /\ L = m.lenLimit /\ c = w.maxLen /\ c < L /\ low <= c
  BY PlaceIs DEF ChainGoing
<1>2. DOMAIN w = ChainFields /\ w.son = son /\ w.cur \in Nat /\ IsList(m, w.found, low) /\ Capped(w.found, w.maxLen)
      /\ Chasing(m, w, low)
  BY DEF ChainAt, ChainGoing
<1>3. PICK p : p = Where(m, w.cur)
  OBVIOUS
<1>4. Chain1(m, w, w2, p, son, low, k)
  BY <1>3, ChainTurnIs
<1>5. p \in 0 .. T - 1 /\ p \in Past(m) /\ p <= T - 1 - k /\ KeyV[p] = KeyV[T]
  <2>1. Where(m, w.cur) \in 0 .. m.taken - 1 /\ Where(m, w.cur) <= m.taken - 1 - k
        /\ KeyV[Where(m, w.cur)] = KeyV[m.taken]
    BY DEF ChainGoing
  <2>2. Where(m, w.cur) \in Past(m)
    BY <1>2, <2>1, WhereIs
  <2>3. QED
    BY <1>1, <1>3, <2>1, <2>2
<1>6. PICK u : u = w2.cur /\ u = Link(m, son, p)
  BY <1>4 DEF Chain1
<1>7. Chained(m, u, p)
  BY <1>5, <1>6, NodesAre
<1>8. u \in Nat
  BY <1>7 DEF Chained
<1>9. Live(m, u) => /\ Where(m, u) \in 0 .. T - 1 /\ Where(m, u) <= T - 1 - (k + 1)
                    /\ KeyV[Where(m, u)] = KeyV[T]
  <2>1. PICK b : b = Where(m, u)
    OBVIOUS
  <2>2. ASSUME Live(m, u) PROVE b \in 0 .. T - 1 /\ b <= T - 1 - (k + 1) /\ KeyV[b] = KeyV[T]
    <3>1. b \in 0 .. p - 1 /\ KeyV[b] = KeyV[p]
      BY <1>7, <2>1, <2>2 DEF Chained
    <3>2. p \in Int /\ b \in Int /\ b >= 0 /\ b <= p - 1 /\ p <= T - 1 /\ p <= T - 1 - k
      BY <1>1, <1>5, <3>1
    <3>3. b \in 0 .. T - 1 /\ b <= T - 1 - (k + 1)
      BY <1>1, <3>2
    <3>4. QED
      BY <1>5, <3>1, <3>3
  <2>3. QED
    BY <2>1, <2>2
<1>10. ASSUME NEW q \in Past(m), NEW n \in 1 .. L, Nearest(m, q, n), low < n, ~ Has(m, w.found, q, n)
       PROVE  /\ c < n
              /\ (q = p /\ Agree(p, T, n)) \/ (~ Agree(p, T, n) /\ Live(m, u) /\ Where(m, u) >= q)
  <2>1. p >= q /\ c < n
    BY <1>1, <1>2, <1>3, <1>10 DEF Chasing
  <2>2. q \in 0 .. T - 1
    BY <1>1, NodesAre
  <2>3. CASE q = p
    BY <1>1, <1>10, <2>1, <2>3 DEF Nearest
  <2>4. CASE q # p
    <3>1. p \in q + 1 .. T - 1 /\ q < p
      BY <1>5, <2>1, <2>2, <2>4
    <3>2. ~ Agree(p, T, n) /\ Agree(q, T, n)
      BY <1>1, <1>10, <3>1 DEF Nearest
    <3>3. MinLen \in 0 .. n /\ n \in Nat
      <4>1. MinLen - 1 <= low
        BY DEF ChainAt
      <4>2. QED
        BY <1>10, <4>1, MinLenIs
    <3>4. KeyV[q] = KeyV[p]
      <4>1. Agree(q, T, MinLen)
        BY <3>2, <3>3, AgreeFewer
      <4>2. QED
        BY <1>1, <1>5, <2>2, <4>1, SameKeys
    <3>5. Live(m, u) /\ Where(m, u) >= q
      BY <1>7, <3>1, <3>4 DEF Chained
    <3>6. QED
      BY <2>1, <3>2, <3>5
  <2>5. QED
    BY <2>3, <2>4
<1>11. CASE /\ w2.found = w.found /\ w2.maxLen = w.maxLen /\ w2.done = FALSE
            /\ ~ Agree(p, m.taken, w.maxLen + 1)
  <2>1. ASSUME NEW q \in Past(m), NEW n \in 1 .. L, Nearest(m, q, n), low < n
        PROVE  Has(m, w2.found, q, n) \/ (Live(m, u) /\ Where(m, u) >= q /\ c < n)
    <3>1. SUFFICES ASSUME ~ Has(m, w.found, q, n) PROVE Live(m, u) /\ Where(m, u) >= q /\ c < n
      BY <1>11
    <3>2. /\ c < n
          /\ (q = p /\ Agree(p, T, n)) \/ (~ Agree(p, T, n) /\ Live(m, u) /\ Where(m, u) >= q)
      BY <1>10, <2>1, <3>1
    <3>3. ~ Agree(p, T, n)
      <4>1. SUFFICES ASSUME Agree(p, T, n) PROVE FALSE
        OBVIOUS
      <4>2. c + 1 \in 0 .. n /\ n \in Nat
        BY <1>1, <3>2
      <4>3. Agree(p, T, c + 1)
        BY <4>1, <4>2, AgreeFewer
      <4>4. QED
        BY <1>1, <1>11, <4>3
    <3>4. QED
      BY <3>2, <3>3
  <2>2. Chasing(m, w2, low)
    BY <1>1, <1>6, <1>11, <2>1 DEF Chasing
  <2>3. ChainGoing(m, w2, son, low, k + 1)
    BY <1>1, <1>2, <1>6, <1>9, <1>11, <2>2 DEF ChainGoing
  <2>4. QED
    BY <1>2, <1>4, <1>6, <1>8, <1>11, <2>3 DEF ChainAt, Chain1
<1>12. ASSUME NEW len \in 1 .. m.lenLimit,
              w.maxLen < len, Agree(p, m.taken, len), len < m.lenLimit => ~ Agree(p, m.taken, len + 1),
              w2.found = Append(w.found, [len |-> len, dist |-> m.taken - p - 1]),
              w2.maxLen = len, w2.done = (len = m.lenLimit)
       PROVE  ChainAt(m, w2, son, low, k + 1)
  <2>1. PICK f, more : f = [len |-> len, dist |-> T - p - 1] /\ more = Append(w.found, f) /\ more = w2.found
    BY <1>1, <1>12
  <2>2. len \in 1 .. L /\ len \in Nat /\ c < len
    BY <1>1, <1>12
  <2>3. Good(m, f) /\ f.len = len /\ f.dist = T - p - 1
    <3>1. f \in Item /\ f.len = len /\ f.dist = T - p - 1
      BY <1>5, <2>1, <2>2 DEF Item
    <3>2. QED
      BY <1>1, <1>5, <1>12, <2>2, <3>1 DEF Good
  <2>4. /\ IsList(m, more, low) /\ Capped(more, f.len)
        /\ \A q, n : Has(m, w.found, q, n) => Has(m, more, q, n)
        /\ \A q, n : f.dist = m.taken - q - 1 /\ f.len >= n => Has(m, more, q, n)
    BY <1>1, <1>2, <2>1, <2>2, <2>3, ListLonger
  <2>5. ASSUME NEW q \in Past(m), NEW n \in 1 .. L, Nearest(m, q, n), low < n
        PROVE  Has(m, more, q, n) \/ (Live(m, u) /\ Where(m, u) >= q /\ len < n)
    <3>1. CASE Has(m, w.found, q, n)
      BY <2>4, <3>1
    <3>2. CASE ~ Has(m, w.found, q, n)
      <4>1. /\ c < n
            /\ (q = p /\ Agree(p, T, n)) \/ (~ Agree(p, T, n) /\ Live(m, u) /\ Where(m, u) >= q)
        BY <1>10, <2>5, <3>2
      <4>2. CASE q = p /\ Agree(p, T, n)
        <5>1. len >= n
          <6>1. SUFFICES ASSUME len < n PROVE FALSE
            BY <2>2
          <6>2. len + 1 \in 0 .. n /\ len < L /\ n \in Nat
            BY <1>1, <2>2, <6>1
          <6>3. Agree(p, T, len + 1)
            BY <4>2, <6>2, AgreeFewer
          <6>4. QED
            BY <1>1, <1>12, <6>2, <6>3
        <5>2. QED
          BY <1>1, <2>3, <2>4, <4>2, <5>1
      <4>3. CASE ~ Agree(p, T, n) /\ Live(m, u) /\ Where(m, u) >= q
        <5>1. len < n
          <6>1. SUFFICES ASSUME n <= len PROVE FALSE
            BY <2>2
          <6>2. n \in 0 .. len
            BY <2>2, <6>1
          <6>3. QED
            BY <1>1, <1>12, <2>2, <4>3, <6>2, AgreeFewer
        <5>2. QED
          BY <4>3, <5>1
      <4>4. QED
        BY <4>1, <4>2, <4>3
    <3>3. QED
      BY <3>1, <3>2
  <2>6. DOMAIN w2 = ChainFields /\ w2.son = son
    BY <1>4 DEF Chain1
  <2>7. CASE len = L
    <3>1. Finds(m, more, Past(m), low)
      BY <1>1, <2>5, <2>7 DEF Finds
    <3>2. w2.done = TRUE
      BY <1>1, <1>12, <2>7
    <3>3. QED
      BY <1>6, <1>8, <2>1, <2>4, <2>6, <3>1, <3>2 DEF ChainAt
  <2>8. CASE len # L
    <3>1. w2.done = FALSE /\ len < L /\ low <= len
      <4>1. w2.done = FALSE
        BY <1>1, <1>12, <2>8
      <4>2. len < L /\ low <= len
        BY <1>1, <2>2, <2>8
      <4>3. QED
        BY <4>1, <4>2
    <3>2. Chasing(m, w2, low)
      BY <1>1, <1>6, <1>12, <2>1, <2>5 DEF Chasing
    <3>3. ChainGoing(m, w2, son, low, k + 1)
      BY <1>1, <1>6, <1>9, <1>12, <2>1, <2>2, <2>3, <2>4, <3>1, <3>2 DEF ChainGoing
    <3>4. QED
      BY <1>6, <1>8, <2>1, <2>4, <2>6, <3>3 DEF ChainAt
  <2>9. QED
    BY <2>7, <2>8
<1>13. QED
  BY <1>4, <1>11, <1>12 DEF Chain1

LEMMA ChainStepOn ==
  ASSUME CaseOK, NEW m, WindowInv(m), NEW w, NEW son, \A a \in Nodes(m) : Chained(m, Link(m, son, a), a),
         NEW low \in Nat, NEW k \in Nat, ChainAt(m, w, son, low, k)
  PROVE  ChainAt(m, ChainStep(m, w), son, low, k + 1)
<1>1. CASE ChainGoing(m, w, son, low, k) /\ Live(m, w.cur)
  <2>1. PICK w2 : w2 = ChainTurn(m, w)
    OBVIOUS
  <2>2. ChainStep(m, w) = w2
    BY <1>1, <2>1 DEF ChainStep, ChainGoing
  <2>3. ChainAt(m, w2, son, low, k + 1)
    BY <1>1, <2>1, ChainOn
  <2>4. QED
    BY <2>2, <2>3
<1>2. CASE ChainGoing(m, w, son, low, k) /\ ~ Live(m, w.cur)
  <2>1. w.cur \in Nat /\ DOMAIN w = ChainFields /\ w.done = FALSE
    BY <1>2 DEF ChainAt, ChainGoing
  <2>2. m.pos - w.cur >= cyclicBufferSize
    BY <1>2, <2>1, WhereIs
  <2>3. PICK w2 : w2 = [w EXCEPT !.done = TRUE]
    OBVIOUS
  <2>4. ChainStep(m, w) = w2
    BY <2>1, <2>2, <2>3 DEF ChainStep, ChainTurn
  <2>5. w2.done = TRUE /\ DOMAIN w2 = ChainFields /\ w2.son = w.son /\ w2.cur = w.cur /\ w2.found = w.found
    BY <2>1, <2>3 DEF ChainFields
  <2>6. Finds(m, w2.found, Past(m), low)
    BY <1>2, <2>5 DEF ChainGoing, Chasing, Finds
  <2>7. QED
    BY <2>4, <2>5, <2>6 DEF ChainAt
<1>3. CASE w.done = TRUE /\ Finds(m, w.found, Past(m), low)
  <2>1. ChainStep(m, w) = w
    BY <1>3 DEF ChainStep
  <2>2. QED
    BY <1>3, <2>1 DEF ChainAt
<1>4. QED
  BY <1>1, <1>2, <1>3 DEF ChainAt

LEMMA ChainFinds ==
  ASSUME CaseOK, NEW m, WindowInv(m), NEW v, NEW low \in Nat, NEW son,
         \A a \in Nodes(m) : Chained(m, Link(m, son, a), a), ChainAt(m, ChainStart(m, v, low), son, low, 0),
         NEW r, r = ChainWalk(m, v, low)
  PROVE  r.son = son /\ IsList(m, r.found, low) /\ (Full => Finds(m, r.found, Past(m), low))
<1>1. PICK cut \in Nat : cut = set.cut
  BY CaseIs
<1>2. PICK f : /\ f[0] = ChainStart(m, v, low)
               /\ \A k \in 1 .. set.cut : f[k] = ChainStep(m, f[k - 1])
               /\ ChainWalk(m, v, low) = f[set.cut]
  BY <1>1, ChainWalkIs
<1>3. PICK A : A = {k \in Nat : ChainAt(m, f[k], son, low, k)}
  OBVIOUS
<1>4. 0 \in A
  BY <1>2, <1>3
<1>5. ASSUME NEW k \in 0 .. cut - 1, k \in A PROVE k + 1 \in A
  <2>1. PICK w : w = f[k]
    OBVIOUS
  <2>2. ChainAt(m, w, son, low, k) /\ k \in Nat
    BY <1>3, <1>5, <2>1
  <2>3. f[k + 1] = ChainStep(m, w)
    <3>1. k + 1 \in 1 .. cut /\ (k + 1) - 1 = k
      BY <1>1
    <3>2. QED
      BY <1>1, <1>2, <2>1, <3>1
  <2>4. ChainAt(m, ChainStep(m, w), son, low, k + 1)
    BY <2>2, ChainStepOn
  <2>5. QED
    BY <1>3, <2>2, <2>3, <2>4
<1>6. cut \in A
  <2>1. A \in SUBSET Nat /\ 0 \in Nat
    BY <1>3
  <2>2. \A k \in 0 .. cut : k \in A
    BY <1>1, <1>4, <1>5, <2>1, Counting
  <2>3. QED
    BY <1>1, <2>2
<1>7. ChainAt(m, r, son, low, cut)
  BY <1>1, <1>2, <1>3, <1>6
<1>8. ASSUME Full PROVE Finds(m, r.found, Past(m), low)
  <2>1. CASE ChainGoing(m, r, son, low, cut)
    <3>1. ~ Live(m, r.cur)
      <4>1. SUFFICES ASSUME Live(m, r.cur) PROVE FALSE
        OBVIOUS
      <4>2. PICK b : b = Where(m, r.cur)
        OBVIOUS
      <4>3. b <= m.taken - 1 - cut /\ b \in 0 .. m.taken - 1
        BY <2>1, <4>1, <4>2 DEF ChainGoing
      <4>4. PICK T \in Nat, c \in Nat : T = m.taken /\ c = cyclicBufferSize /\ cut >= c
        BY <1>1, <1>8, PlaceIs DEF Full
      <4>5. b \in Past(m)
        <5>1. r.cur \in Nat
          BY <1>7 DEF ChainAt
        <5>2. QED
          BY <4>1, <4>2, <4>3, <5>1, WhereIs
      <4>6. T - b < c /\ b \in Int /\ b <= T - 1 - cut
        BY <4>3, <4>4, <4>5 DEF Past
      <4>7. QED
        BY <4>4, <4>6
    <3>2. QED
      BY <2>1, <3>1 DEF ChainGoing, Chasing, Finds
  <2>2. QED
    BY <1>7, <2>1 DEF ChainAt
<1>9. QED
  BY <1>7, <1>8 DEF ChainAt

-----------------------------------------------------------------------------
(* What the tables of two and three bytes find.                              *)

Tables(m) ==
  /\ MinLen > 2 => Latest(m, m.h2, Key2, Values)
  /\ MinLen > 3 => Latest(m, m.h3, Key3, Pairs)
  /\ Latest(m, m.hv, KeyV, Pairs)

\* Nothing the mode looks for is nearer than p.
Newest(m, p) ==
  p \in Past(m) /\ \A q \in Past(m), n \in MinLen .. m.lenLimit : Agree(q, m.taken, n) => q <= p

Stretched(m, d, n) == [len |-> MatchLen(m, d, n), dist |-> d - 1]

LEMMA JoinOne ==
  ASSUME NEW a, NEW b
  PROVE  /\ <<>> \o <<>> = <<>> /\ <<a>> \o <<>> = <<a>> /\ <<>> \o <<b>> = <<b>> /\ <<a>> \o <<b>> = <<a, b>>
<1>1. <<>> \o <<>> = <<>>
  OBVIOUS
<1>2. <<a>> \o <<>> = <<a>>
  OBVIOUS
<1>3. <<>> \o <<b>> = <<b>>
  OBVIOUS
<1>4. <<a>> \o <<b>> = <<a, b>>
  <2>1. PICK s, t, S : s = <<a>> \o <<b>> /\ t = <<a, b>> /\ S = {a, b}
    OBVIOUS
  <2>2. s \in Seq(S) /\ Len(s) = 2 /\ s[1] = a /\ s[2] = b
    BY <2>1
  <2>3. t \in Seq(S) /\ Len(t) = 2 /\ t[1] = a /\ t[2] = b
    BY <2>1
  <2>4. \A i \in 1 .. 2 : s[i] = t[i]
    <3>1. \A i \in 1 .. 2 : i = 1 \/ i = 2
      OBVIOUS
    <3>2. QED
      BY <2>2, <2>3, <3>1
  <2>5. s = t
    <3>1. s = [i \in 1 .. Len(s) |-> s[i]] /\ t = [i \in 1 .. Len(t) |-> t[i]]
      BY <2>2, <2>3
    <3>2. [i \in 1 .. 2 |-> s[i]] = [i \in 1 .. 2 |-> t[i]]
      BY <2>4
    <3>3. QED
      BY <2>2, <2>3, <3>1, <3>2
  <2>6. QED
    BY <2>1, <2>5
<1>5. QED
  BY <1>1, <1>2, <1>3, <1>4

\* What FromTables makes of what it finds.
LEMMA FromTablesIs ==
  ASSUME NEW m, NEW d2, d2 = m.pos - m.h2[Hash2(m)], NEW d3, d3 = m.pos - m.h3[Hash3(m)],
         MinLen > 2 => d2 \in Int, MinLen > 3 => d3 \in Int
  PROVE  \/ FromTables(m) = <<>>
         \/ /\ MinLen > 2 /\ Usable(m, d2) /\ (MinLen > 3 => d2 = d3 \/ ~ Usable(m, d3))
            /\ FromTables(m) = <<Stretched(m, d2, 2)>>
         \/ /\ MinLen > 3 /\ Usable(m, d3) /\ FromTables(m) = <<Stretched(m, d3, 3)>>
         \/ /\ MinLen > 3 /\ Usable(m, d2) /\ d2 # d3 /\ Usable(m, d3) /\ MinLen > 2
            /\ FromTables(m) = <<Found(2, d2), Stretched(m, d3, 3)>>
<1>1. PICK a, b : a = Found(2, d2) /\ b = Found(3, d3)
  OBVIOUS
<1>2. a = [len |-> 2, dist |-> d2 - 1] /\ b = [len |-> 3, dist |-> d3 - 1]
  BY <1>1 DEF Found
<1>3. PICK two, three : /\ two = IF MinLen > 2 /\ Usable(m, d2) THEN <<a>> ELSE <<>>
                        /\ three = IF MinLen > 3 /\ d2 # d3 /\ Usable(m, d3) THEN <<b>> ELSE <<>>
  OBVIOUS
<1>4. PICK both : both = two \o three
  OBVIOUS
<1>5. FromTables(m) = IF both = <<>> THEN <<>>
        ELSE [both EXCEPT ![Len(both)].len = MatchLen(m, both[Len(both)].dist + 1, both[Len(both)].len)]
  BY <1>1, <1>3, <1>4 DEF FromTables
<1>6. MinLen \in Nat
  BY DEF MinLen
<1>a. (MinLen > 2 => a.dist + 1 = d2) /\ (MinLen > 3 => b.dist + 1 = d3)
  BY <1>2
<1>7. CASE ~ (MinLen > 2 /\ Usable(m, d2)) /\ ~ (MinLen > 3 /\ d2 # d3 /\ Usable(m, d3))
  <2>1. both = <<>>
    BY <1>3, <1>4, <1>7, JoinOne
  <2>2. QED
    BY <1>5, <2>1
<1>8. CASE (MinLen > 2 /\ Usable(m, d2)) /\ ~ (MinLen > 3 /\ d2 # d3 /\ Usable(m, d3))
  <2>1. both = <<a>>
    BY <1>3, <1>4, <1>8, JoinOne
  <2>2. FromTables(m) = <<Stretched(m, d2, 2)>>
    BY <1>2, <1>a, <1>5, <1>8, <2>1 DEF Stretched
  <2>3. QED
    BY <1>8, <2>2
<1>9. CASE ~ (MinLen > 2 /\ Usable(m, d2)) /\ (MinLen > 3 /\ d2 # d3 /\ Usable(m, d3))
  <2>1. both = <<b>>
    BY <1>3, <1>4, <1>9, JoinOne
  <2>2. FromTables(m) = <<Stretched(m, d3, 3)>>
    BY <1>2, <1>a, <1>5, <1>9, <2>1 DEF Stretched
  <2>3. QED
    BY <1>9, <2>2
<1>10. CASE (MinLen > 2 /\ Usable(m, d2)) /\ (MinLen > 3 /\ d2 # d3 /\ Usable(m, d3))
  <2>1. both = <<a, b>>
    BY <1>3, <1>4, <1>10, JoinOne
  <2>2. FromTables(m) = <<a, Stretched(m, d3, 3)>>
    BY <1>2, <1>a, <1>5, <1>10, <2>1 DEF Stretched
  <2>3. QED
    BY <1>1, <1>10, <2>2
<1>11. QED
  BY <1>7, <1>8, <1>9, <1>10

\* The last place that has a hash of the position, if it has its first byte as well.
LEMMA UsableIs ==
  ASSUME CaseOK, NEW m, WindowInv(m), m.lenLimit > 0, NEW t, NEW key, NEW D, Latest(m, t, key, D),
         NEW k \in D, k = key[m.taken], NEW d, d = m.pos - t[k], Usable(m, d)
  PROVE  \E p \in Past(m) :
           /\ d = m.taken - p /\ key[p] = key[m.taken] /\ ByteAt(p) = ByteAt(m.taken)
           /\ \A q \in Past(m) : key[q] = key[m.taken] => q <= p
<1>1. Live(m, t[k]) /\ t[k] \in Nat
  BY DEF Usable, Live, Latest
<1>2. PICK p : p = Where(m, t[k])
  OBVIOUS
<1>3. p \in Past(m) /\ key[p] = k
  BY <1>1, <1>2, LatestPast
<1>4. d = m.taken - p
  BY <1>1, <1>2, WhereIs
<1>5. 0 \in Nat /\ 0 < m.lenLimit
  BY PlaceIs
<1>6. ByteAt(p) = ByteAt(m.taken)
  BY <1>3, <1>4, <1>5, Worth DEF Usable
<1>7. ASSUME NEW q \in Past(m), key[q] = k PROVE q <= p
  <2>1. Where(m, t[k]) >= q
    BY <1>7 DEF Latest
  <2>2. p \in Int /\ q \in Int
    BY <1>3, NodesAre
  <2>3. QED
    BY <1>2, <2>1, <2>2
<1>8. QED
  BY <1>3, <1>4, <1>6, <1>7

LEMMA Stretches ==
  ASSUME CaseOK, NEW m, WindowInv(m), NEW p \in Past(m), NEW d, d = m.taken - p,
         NEW n \in 0 .. m.lenLimit, Agree(p, m.taken, n)
  PROVE  Good(m, Stretched(m, d, n)) /\ Stretched(m, d, n).len >= n /\ Stretched(m, d, n).dist = m.taken - p - 1
<1>1. PICK T \in Nat, L \in Nat : T = m.taken /\ L = m.lenLimit
  BY PlaceIs
<1>2. PICK len : len = MatchLen(m, d, n)
  OBVIOUS
<1>3. len \in n .. L /\ Agree(p, T, len) /\ (len < L => ByteAt(p + len) # ByteAt(T + len))
  BY <1>1, <1>2, MatchLenRight
<1>4. len \in 0 .. L /\ len \in Nat /\ len >= n
  BY <1>1, <1>3
<1>5. len < L => ~ Agree(p, T, len + 1)
  <2>1. len \in 0 .. (len + 1) - 1
    BY <1>4
  <2>2. QED
    BY <1>3, <2>1 DEF Agree
<1>6. PICK f : f = Stretched(m, d, n)
  OBVIOUS
<1>7. p \in 0 .. T - 1
  BY <1>1, NodesAre
<1>8. f = [len |-> len, dist |-> T - p - 1]
  BY <1>1, <1>2, <1>6 DEF Stretched
<1>9. f.len = len /\ f.dist = T - p - 1 /\ f \in Item
  BY <1>1, <1>4, <1>7, <1>8 DEF Item
<1>10. Good(m, f)
  BY <1>1, <1>3, <1>4, <1>5, <1>9 DEF Good
<1>11. QED
  BY <1>1, <1>4, <1>6, <1>9, <1>10

LEMMA Single ==
  ASSUME NEW m, NEW f, Good(m, f), f.len > 0
  PROVE  IsList(m, <<f>>, 0) /\ Len(<<f>>) = 1 /\ <<f>>[1] = f
<1>1. f \in Item /\ f.len \in Nat
  BY DEF Good, Item
<1>2. PICK fs : fs = <<f>>
  OBVIOUS
<1>3. fs \in Seq(Item) /\ Len(fs) = 1 /\ fs[1] = f
  BY <1>1, <1>2
<1>4. \A i \in 1 .. 1 : i = 1
  OBVIOUS
<1>5. \A i \in 1 .. Len(fs) : Good(m, fs[i]) /\ 0 < fs[i].len
  BY <1>1, <1>3, <1>4
<1>6. \A i \in 1 .. Len(fs) - 1 : FALSE
  BY <1>3
<1>7. IsList(m, fs, 0)
  BY <1>3, <1>5, <1>6 DEF IsList
<1>8. QED
  BY <1>2, <1>3, <1>7

LEMMA Double ==
  ASSUME NEW m, NEW f, Good(m, f), f.len > 0, NEW g, Good(m, g), f.len < g.len
  PROVE  IsList(m, <<f, g>>, 0) /\ Len(<<f, g>>) = 2 /\ <<f, g>>[2] = g
<1>1. f \in Item /\ f.len \in Nat /\ g \in Item /\ g.len \in Nat
  BY DEF Good, Item
<1>2. PICK fs : fs = <<f, g>>
  OBVIOUS
<1>3. fs \in Seq(Item) /\ Len(fs) = 2 /\ fs[1] = f /\ fs[2] = g
  BY <1>1, <1>2
<1>4. \A i \in 1 .. 2 : i = 1 \/ i = 2
  OBVIOUS
<1>5. \A i \in 1 .. Len(fs) : Good(m, fs[i]) /\ 0 < fs[i].len
  BY <1>1, <1>3, <1>4
<1>6. \A i \in 1 .. Len(fs) - 1 : i = 1 /\ i + 1 = 2
  BY <1>3
<1>7. IsList(m, fs, 0)
  BY <1>3, <1>5, <1>6 DEF IsList
<1>8. QED
  BY <1>2, <1>3, <1>7

\* What the tables give: matches, and the last is of the newest place of all that the
\* mode looks for.
FromNewest(m, fs) ==
  /\ IsList(m, fs, 0)
  /\ fs # <<>> => \E p : Newest(m, p) /\ fs[Len(fs)].dist = m.taken - p - 1

LEMMA TablesFind ==
  ASSUME CaseOK, NEW m, WindowInv(m), m.lenLimit >= MinLen, Tables(m)
  PROVE  FromNewest(m, FromTables(m))
<1>1. PICK T \in Nat, L \in Nat : T = m.taken /\ L = m.lenLimit /\ T + L <= size /\ L > 0 /\ L >= MinLen
  BY PlaceIs, MinLenIs
<1>2. MinLen \in {2, 3, 4} /\ size \in Nat
  BY MinLenIs, PlaceIs
<1>3. /\ Hash2(m) = Key2[T] /\ (MinLen > 2 => Hash3(m) = Key3[T])
      /\ Key2[T] \in Values /\ (MinLen > 2 => Key3[T] \in Pairs)
  BY <1>1, HashIs, KeyRange
<1>4. PICK d2, d3 : d2 = m.pos - m.h2[Hash2(m)] /\ d3 = m.pos - m.h3[Hash3(m)]
  OBVIOUS
<1>5. ASSUME MinLen > 2, Usable(m, d2)
      PROVE  \E p \in Past(m) : /\ d2 = T - p /\ Agree(p, T, 2) /\ Newest(m, p) /\ Key2[p] = Key2[T]
                                /\ \A q \in Past(m) : Key2[q] = Key2[T] => q <= p
  <2>1. Latest(m, m.h2, Key2, Values)
    BY <1>5 DEF Tables
  <2>2. PICK k \in Values : k = Key2[T] /\ Hash2(m) = k
    BY <1>3, <1>5, <2>1
  <2>a. PICK t : t = m.h2
    OBVIOUS
  <2>b. Latest(m, t, Key2, Values) /\ d2 = m.pos - t[k]
    BY <1>4, <2>1, <2>2, <2>a
  <2>3. PICK p \in Past(m) : /\ d2 = T - p /\ Key2[p] = Key2[T] /\ ByteAt(p) = ByteAt(T)
                             /\ \A q \in Past(m) : Key2[q] = Key2[T] => q <= p
    BY <1>1, <1>5, <2>2, <2>b, UsableIs
  <2>4. p \in 0 .. T - 1
    BY <1>1, NodesAre
  <2>5. Agree(p, T, 2)
    <3>1. p + 2 <= size /\ T + 2 <= size /\ p \in Nat
      BY <1>1, <1>2, <1>5, <2>4
    <3>2. QED
      BY <2>3, <3>1, HashTells
  <2>6. ASSUME NEW q \in Past(m), NEW n \in MinLen .. L, Agree(q, T, n) PROVE q <= p
    <3>1. 2 \in 0 .. n /\ n \in Nat /\ q \in Nat
      BY <1>2, <2>6, NodesAre
    <3>2. Key2[q] = Key2[T]
      BY <2>6, <3>1, AgreeFewer, SameKeys
    <3>3. QED
      BY <2>3, <3>2
  <2>7. QED
    BY <1>1, <2>3, <2>5, <2>6 DEF Newest
<1>6. ASSUME MinLen > 3, Usable(m, d3)
      PROVE  \E p \in Past(m) : /\ d3 = T - p /\ Agree(p, T, 3) /\ Newest(m, p) /\ Key3[p] = Key3[T]
                                /\ \A q \in Past(m) : Key3[q] = Key3[T] => q <= p
  <2>1. Latest(m, m.h3, Key3, Pairs) /\ MinLen > 2
    BY <1>2, <1>6 DEF Tables
  <2>2. PICK k \in Pairs : k = Key3[T] /\ Hash3(m) = k
    BY <1>3, <1>6, <2>1
  <2>a. PICK t : t = m.h3
    OBVIOUS
  <2>b. Latest(m, t, Key3, Pairs) /\ d3 = m.pos - t[k]
    BY <1>4, <2>1, <2>2, <2>a
  <2>3. PICK p \in Past(m) : /\ d3 = T - p /\ Key3[p] = Key3[T] /\ ByteAt(p) = ByteAt(T)
                             /\ \A q \in Past(m) : Key3[q] = Key3[T] => q <= p
    BY <1>1, <1>6, <2>2, <2>b, UsableIs
  <2>4. p \in 0 .. T - 1
    BY <1>1, NodesAre
  <2>5. Agree(p, T, 3)
    <3>1. p + 3 <= size /\ T + 3 <= size /\ p \in Nat
      BY <1>1, <1>2, <1>6, <2>4
    <3>2. QED
      BY <2>3, <3>1, HashTells
  <2>6. ASSUME NEW q \in Past(m), NEW n \in MinLen .. L, Agree(q, T, n) PROVE q <= p
    <3>1. 3 \in 0 .. n /\ n \in Nat /\ q \in Nat
      BY <1>2, <1>6, <2>6, NodesAre
    <3>2. Key3[q] = Key3[T]
      BY <2>6, <3>1, AgreeFewer, SameKeys
    <3>3. QED
      BY <2>3, <3>2
  <2>7. QED
    BY <1>1, <2>3, <2>5, <2>6 DEF Newest
<1>7. ASSUME NEW p \in Past(m), NEW d, d = T - p, NEW n \in 1 .. L, Agree(p, T, n)
      PROVE  /\ Good(m, Stretched(m, d, n)) /\ Stretched(m, d, n).len >= n
             /\ Stretched(m, d, n).dist = m.taken - p - 1 /\ Stretched(m, d, n).len > 0
  <2>1. n \in 0 .. m.lenLimit
    BY <1>1
  <2>2. PICK f : f = Stretched(m, d, n)
    OBVIOUS
  <2>3. Good(m, f) /\ f.len >= n /\ f.dist = m.taken - p - 1
    BY <1>1, <1>7, <2>1, <2>2, Stretches
  <2>4. f.len \in Nat
    BY <2>3 DEF Good, Item
  <2>5. f.len > 0
    BY <2>3, <2>4
  <2>6. QED
    BY <2>2, <2>3, <2>5
<1>8. ASSUME NEW fs, NEW p \in Past(m), NEW d, d = T - p, NEW n \in 1 .. L, Agree(p, T, n), Newest(m, p),
             fs = <<Stretched(m, d, n)>>
      PROVE  FromNewest(m, fs)
  <2>1. PICK f : f = Stretched(m, d, n)
    OBVIOUS
  <2>2. Good(m, f) /\ f.len > 0 /\ f.dist = m.taken - p - 1
    BY <1>7, <1>8, <2>1
  <2>3. IsList(m, fs, 0) /\ Len(fs) = 1 /\ fs[1] = f
    BY <1>8, <2>1, <2>2, Single
  <2>4. QED
    BY <1>8, <2>2, <2>3 DEF FromNewest
<1>9. CASE FromTables(m) = <<>>
  BY <1>9 DEF FromNewest, IsList
<1>10. CASE MinLen > 2 /\ Usable(m, d2) /\ FromTables(m) = <<Stretched(m, d2, 2)>>
  <2>1. PICK p \in Past(m) : d2 = T - p /\ Agree(p, T, 2) /\ Newest(m, p)
    BY <1>5, <1>10
  <2>2. 2 \in 1 .. L
    BY <1>1, <1>2, <1>10
  <2>3. QED
    BY <1>8, <1>10, <2>1, <2>2
<1>11. CASE MinLen > 3 /\ Usable(m, d3) /\ FromTables(m) = <<Stretched(m, d3, 3)>>
  <2>1. PICK p \in Past(m) : d3 = T - p /\ Agree(p, T, 3) /\ Newest(m, p)
    BY <1>6, <1>11
  <2>2. 3 \in 1 .. L
    BY <1>1, <1>2, <1>11
  <2>3. QED
    BY <1>8, <1>11, <2>1, <2>2
<1>12. CASE /\ MinLen > 3 /\ Usable(m, d2) /\ d2 # d3 /\ Usable(m, d3) /\ MinLen > 2
            /\ FromTables(m) = <<Found(2, d2), Stretched(m, d3, 3)>>
  <2>1. PICK p \in Past(m) : /\ d2 = T - p /\ Agree(p, T, 2) /\ Key2[p] = Key2[T]
                             /\ \A q \in Past(m) : Key2[q] = Key2[T] => q <= p
    BY <1>5, <1>12
  <2>2. PICK r \in Past(m) : /\ d3 = T - r /\ Agree(r, T, 3) /\ Newest(m, r)
                             /\ \A q \in Past(m) : Key3[q] = Key3[T] => q <= r
    BY <1>6, <1>12
  <2>3. p \in 0 .. T - 1 /\ r \in 0 .. T - 1 /\ p # r
    BY <1>1, <1>12, <2>1, <2>2, NodesAre
  <2>4. ~ Agree(p, T, 3)
    <3>1. SUFFICES ASSUME Agree(p, T, 3) PROVE FALSE
      OBVIOUS
    <3>2. Key3[p] = Key3[T] /\ Key2[r] = Key2[T]
      BY <2>2, <2>3, <3>1, SameKeys
    <3>3. p <= r /\ r <= p
      BY <2>1, <2>2, <3>2
    <3>4. QED
      BY <2>3, <3>3
  <2>5. PICK f, g : f = Found(2, d2) /\ g = Stretched(m, d3, 3)
    OBVIOUS
  <2>6. f = [len |-> 2, dist |-> T - p - 1]
    BY <2>1, <2>5 DEF Found
  <2>7. f \in Item /\ f.len = 2 /\ f.dist = T - p - 1
    BY <1>1, <2>3, <2>6 DEF Item
  <2>8. Good(m, f)
    <3>1. 2 \in 0 .. L /\ 2 + 1 = 3
      BY <1>1, <1>2, <1>12
    <3>2. QED
      BY <1>1, <2>1, <2>4, <2>7, <3>1 DEF Good
  <2>9. Good(m, g) /\ g.len >= 3 /\ g.dist = m.taken - r - 1
    <3>1. 3 \in 1 .. L
      BY <1>1, <1>2, <1>12
    <3>2. QED
      BY <1>7, <2>2, <2>5, <3>1
  <2>10. f.len < g.len /\ f.len > 0
    <3>1. g.len \in Nat
      BY <2>9 DEF Good, Item
    <3>2. QED
      BY <2>7, <2>9, <3>1
  <2>11. IsList(m, <<f, g>>, 0) /\ Len(<<f, g>>) = 2 /\ <<f, g>>[2] = g
    BY <2>8, <2>9, <2>10, Double
  <2>12. FromTables(m) = <<f, g>>
    BY <1>12, <2>5
  <2>13. QED
    BY <2>2, <2>9, <2>11, <2>12 DEF FromNewest
<1>13. \/ FromTables(m) = <<>>
       \/ /\ MinLen > 2 /\ Usable(m, d2) /\ FromTables(m) = <<Stretched(m, d2, 2)>>
       \/ /\ MinLen > 3 /\ Usable(m, d3) /\ FromTables(m) = <<Stretched(m, d3, 3)>>
       \/ /\ MinLen > 3 /\ Usable(m, d2) /\ d2 # d3 /\ Usable(m, d3) /\ MinLen > 2
          /\ FromTables(m) = <<Found(2, d2), Stretched(m, d3, 3)>>
  <2>1. MinLen > 2 => d2 \in Int
    <3>1. SUFFICES ASSUME MinLen > 2 PROVE d2 \in Int
      OBVIOUS
    <3>2. Latest(m, m.h2, Key2, Values)
      BY <3>1 DEF Tables
    <3>3. m.h2[Hash2(m)] \in Nat /\ m.pos \in Nat
      BY <1>3, <3>2, PlaceIs DEF Latest
    <3>4. QED
      BY <1>4, <3>3
  <2>2. MinLen > 3 => d3 \in Int
    <3>1. SUFFICES ASSUME MinLen > 3 PROVE d3 \in Int
      OBVIOUS
    <3>2. Latest(m, m.h3, Key3, Pairs) /\ MinLen > 2
      BY <1>2, <3>1 DEF Tables
    <3>3. m.h3[Hash3(m)] \in Nat /\ m.pos \in Nat
      BY <1>3, <3>2, PlaceIs DEF Latest
    <3>4. QED
      BY <1>4, <3>3
  <2>3. QED
    BY <1>4, <2>1, <2>2, FromTablesIs
<1>14. QED
  BY <1>9, <1>10, <1>11, <1>12, <1>13

-----------------------------------------------------------------------------
(* A search.                                                                 *)

\* e is at the place of m.
Beside(m, e) == e.pos = m.pos /\ e.taken = m.taken /\ e.cyc = m.cyc /\ e.lenLimit = m.lenLimit

LEMMA BesideIs ==
  ASSUME NEW m, NEW e, Beside(m, e)
  PROVE  /\ Past(e) = Past(m) /\ Nodes(e) = Nodes(m) /\ Kept(e) = Kept(m)
         /\ \A v : (Live(e, v) <=> Live(m, v)) /\ Where(e, v) = Where(m, v)
         /\ \A a, s : Slot(e, a, s) = Slot(m, a, s)
         /\ \A q, a, s : Side(e, q, a, s) <=> Side(m, q, a, s)
         /\ \A q, n : Nearest(e, q, n) <=> Nearest(m, q, n)
         /\ \A fs, q, n : Has(e, fs, q, n) <=> Has(m, fs, q, n)
<1>1. Past(e) = Past(m)
  BY DEF Beside, Past
<1>2. Nodes(e) = Nodes(m) /\ Kept(e) = Kept(m)
  BY <1>1 DEF Beside, Nodes, Kept
<1>3. \A v : (Live(e, v) <=> Live(m, v)) /\ Where(e, v) = Where(m, v)
  BY DEF Beside, Live, Where
<1>4. \A a, s : Slot(e, a, s) = Slot(m, a, s)
  BY DEF Beside, Slot, Node
<1>5. \A q, a, s : Side(e, q, a, s) <=> Side(m, q, a, s)
  BY DEF Beside, Side
<1>6. \A q, n : Nearest(e, q, n) <=> Nearest(m, q, n)
  BY DEF Beside, Nearest
<1>7. \A fs, q, n : Has(e, fs, q, n) <=> Has(m, fs, q, n)
  BY DEF Beside, Has
<1>8. QED
  BY <1>1, <1>2, <1>3, <1>4, <1>5, <1>6, <1>7

LEMMA BesideLists ==
  ASSUME NEW m, NEW e, Beside(m, e)
  PROVE  /\ \A fs, low : IsList(e, fs, low) <=> IsList(m, fs, low)
         /\ \A fs, K, low : Finds(e, fs, K, low) <=> Finds(m, fs, K, low)
         /\ \A t, key, D : Latest(e, t, key, D) <=> Latest(m, t, key, D)
<1>1. \A f : Good(e, f) <=> Good(m, f)
  BY BesideIs DEF Good, Beside
<1>2. \A fs, low : IsList(e, fs, low) <=> IsList(m, fs, low)
  BY <1>1 DEF IsList
<1>3. \A fs, K, low : Finds(e, fs, K, low) <=> Finds(m, fs, K, low)
  BY BesideIs DEF Finds, Beside
<1>4. \A t, key, D : Latest(e, t, key, D) <=> Latest(m, t, key, D)
  BY BesideIs DEF Latest, Beside
<1>5. QED
  BY <1>2, <1>3, <1>4

LEMMA BesideTrees ==
  ASSUME NEW m, NEW e, Beside(m, e), e.son = m.son, NEW hv, NEW I, NEW V
  PROVE  /\ TreeIs(e, hv, I, V) <=> TreeIs(m, hv, I, V)
         /\ ChainIs(e) <=> ChainIs(m)
<1>1. \A v, a, s : Leads(e, v, I, a, s) <=> Leads(m, v, I, a, s)
  BY BesideIs DEF Leads
<1>2. \A v, q : Behind(e, v, I, q) <=> Behind(m, v, I, q)
  BY BesideIs DEF Behind
<1>3. Linking(e, I, V) <=> Linking(m, I, V)
  BY BesideIs DEF Linking
<1>4. Reached(e, hv, I, V) <=> Reached(m, hv, I, V)
  BY <1>2, <1>3, BesideIs DEF Reached
<1>5. TreeIs(e, hv, I, V) <=> TreeIs(m, hv, I, V)
  BY <1>1, <1>4, BesideIs DEF TreeIs
<1>6. \A u, a : Chained(e, u, a) <=> Chained(m, u, a)
  BY BesideIs DEF Chained
<1>7. \A a : Link(e, e.son, a) = Link(m, m.son, a)
  BY DEF Link, Node, Beside
<1>8. ChainIs(e) <=> ChainIs(m)
  BY <1>6, <1>7, BesideIs DEF ChainIs
<1>9. QED
  BY <1>5, <1>8

\* What a search gives: matches, and the nearest of every length if it is not cut short.
Result(m, fs) ==
  /\ IsList(m, fs, 0)
  /\ Full => \A q \in Past(m), n \in MinLen .. m.lenLimit : Nearest(m, q, n) => Has(m, fs, q, n)

LEMMA NearestKept ==
  ASSUME CaseOK, NEW m, WindowInv(m), NEW q \in Past(m), NEW n \in 0 .. m.lenLimit, Nearest(m, q, n)
  PROVE  q \in Kept(m)
<1>1. m.lenLimit \in Nat /\ n \in Nat
  BY PlaceIs
<1>2. ASSUME NEW p \in q + 1 .. m.taken - 1, Agree(p, q, m.lenLimit) PROVE FALSE
  <2>1. Agree(p, q, n)
    BY <1>1, <1>2, AgreeFewer
  <2>2. Agree(p, m.taken, n)
    BY <2>1, AgreeTrans DEF Nearest
  <2>3. QED
    BY <1>2, <2>2 DEF Nearest
<1>3. QED
  BY <1>2 DEF Kept

\* One list after another.
LEMMA ListsJoin ==
  ASSUME NEW m, NEW fs, IsList(m, fs, 0), NEW gs, NEW low \in Nat, IsList(m, gs, low),
         fs # <<>> => fs[Len(fs)].len <= low
  PROVE  /\ IsList(m, fs \o gs, 0)
         /\ \A q, n : Has(m, fs, q, n) \/ Has(m, gs, q, n) => Has(m, fs \o gs, q, n)
<1>1. fs \in Seq(Item) /\ gs \in Seq(Item)
  BY DEF IsList
<1>2. PICK a \in Nat, b \in Nat : a = Len(fs) /\ b = Len(gs)
  BY <1>1
<1>3. PICK hs : hs = fs \o gs
  OBVIOUS
<1>4. hs \in Seq(Item) /\ Len(hs) = a + b
  BY <1>1, <1>2, <1>3
<1>5. \A i \in 1 .. a : hs[i] = fs[i] /\ i \in 1 .. a + b
  BY <1>1, <1>2, <1>3
<1>6. ASSUME NEW i \in 1 .. b PROVE a + i \in 1 .. a + b /\ hs[a + i] = gs[i]
  <2>1. a + i \in 1 .. a + b /\ ~ (a + i <= a) /\ a + i - a = i
    BY <1>2
  <2>2. QED
    BY <1>1, <1>2, <1>3, <2>1
<1>7. ASSUME NEW i \in 1 .. a + b, i \notin 1 .. a PROVE \E j \in 1 .. b : i = a + j
  <2>1. i - a \in 1 .. b /\ i = a + (i - a)
    BY <1>2, <1>7
  <2>2. QED
    BY <2>1
<1>8. /\ \A i \in 1 .. a : Good(m, fs[i]) /\ 0 < fs[i].len
      /\ \A i \in 1 .. b : Good(m, gs[i]) /\ low < gs[i].len /\ gs[i].len \in Nat
  BY <1>2 DEF IsList, Good, Item
<1>9. ASSUME NEW i \in 1 .. a + b PROVE Good(m, hs[i]) /\ 0 < hs[i].len
  <2>1. CASE i \in 1 .. a
    BY <1>5, <1>8, <2>1
  <2>2. CASE i \notin 1 .. a
    <3>1. PICK j \in 1 .. b : i = a + j
      BY <1>7, <2>2
    <3>2. hs[i] = gs[j]
      BY <1>6, <3>1
    <3>3. PICK l \in Nat : l = gs[j].len /\ low < l
      BY <1>8
    <3>4. 0 < l
      BY <3>3
    <3>5. QED
      BY <1>8, <3>2, <3>3, <3>4
  <2>3. QED
    BY <2>1, <2>2
<1>10. ASSUME NEW i \in 1 .. a + b - 1 PROVE hs[i].len < hs[i + 1].len
  <2>1. CASE i + 1 \in 1 .. a
    <3>1. i \in 1 .. a /\ i \in 1 .. a - 1
      BY <1>2, <2>1
    <3>2. fs[i].len < fs[i + 1].len
      BY <1>2, <3>1 DEF IsList
    <3>3. QED
      BY <1>5, <2>1, <3>1, <3>2
  <2>2. CASE i = a
    <3>1. 1 \in 1 .. b /\ i \in 1 .. a
      BY <1>2, <2>2
    <3>2. hs[i] = fs[a] /\ hs[i + 1] = gs[1]
      BY <1>5, <1>6, <2>2, <3>1
    <3>3. fs # <<>>
      BY <1>2, <2>2, <3>1
    <3>4. fs[a].len <= low
      BY <1>2, <3>3
    <3>5. PICK l \in Nat : l = gs[1].len /\ low < l
      BY <1>8, <3>1
    <3>6. PICK y \in Nat : y = fs[a].len
      BY <1>2, <2>2, <3>1 DEF IsList, Good, Item
    <3>7. y < l
      BY <3>4, <3>5, <3>6
    <3>8. QED
      BY <3>2, <3>5, <3>6, <3>7
  <2>3. CASE i > a
    <3>1. PICK j \in Nat : j = i - a
      BY <1>2, <2>3
    <3>2. j \in 1 .. b - 1 /\ j \in 1 .. b /\ j + 1 \in 1 .. b /\ i = a + j /\ i + 1 = a + (j + 1)
      BY <1>2, <2>3, <3>1
    <3>3. hs[i] = gs[j] /\ hs[i + 1] = gs[j + 1]
      BY <1>6, <3>2
    <3>4. gs[j].len < gs[j + 1].len
      BY <1>2, <3>2 DEF IsList
    <3>5. QED
      BY <3>3, <3>4
  <2>4. i + 1 \in 1 .. a \/ i = a \/ i > a
    BY <1>2
  <2>5. QED
    BY <2>1, <2>2, <2>3, <2>4
<1>11. IsList(m, hs, 0)
  BY <1>4, <1>9, <1>10 DEF IsList
<1>12. ASSUME NEW q, NEW n, Has(m, fs, q, n) \/ Has(m, gs, q, n) PROVE Has(m, hs, q, n)
  <2>1. CASE Has(m, fs, q, n)
    <3>1. PICK i \in 1 .. a : fs[i].dist = m.taken - q - 1 /\ fs[i].len >= n
      BY <1>2, <2>1 DEF Has
    <3>2. i \in 1 .. Len(hs) /\ hs[i] = fs[i]
      BY <1>4, <1>5
    <3>3. QED
      BY <3>1, <3>2 DEF Has
  <2>2. CASE Has(m, gs, q, n)
    <3>1. PICK i \in 1 .. b : gs[i].dist = m.taken - q - 1 /\ gs[i].len >= n
      BY <1>2, <2>2 DEF Has
    <3>2. a + i \in 1 .. Len(hs) /\ hs[a + i] = gs[i]
      BY <1>4, <1>6
    <3>3. QED
      BY <3>1, <3>2 DEF Has
  <2>3. QED
    BY <1>12, <2>1, <2>2
<1>13. QED
  BY <1>3, <1>11, <1>12

-----------------------------------------------------------------------------
(* What the match finder knows between two searches.                         *)

Links(m) ==
  Tables(m) /\ IF set.mode = "hc4" THEN ChainIs(m) ELSE \E I, V : TreeIs(m, m.hv, I, V)

State(m) == m.lenLimit >= MinLen => Links(m)

\* What normalisation does to a table, or nothing.
Dropped(f, g, sub) == (sub = 0 /\ g = f) \/ (sub > 0 /\ g = Reduced(f, sub))

IsLow(g, f, D, sub) == g = [k \in D |-> Low(f[k], sub)]

LEMMA DroppedIs ==
  ASSUME NEW D, NEW f \in [D -> Nat], NEW g, NEW sub \in Nat, Dropped(f, g, sub)
  PROVE  IsLow(g, f, D, sub)
<1>1. CASE sub = 0
  <2>1. g = f
    BY <1>1 DEF Dropped
  <2>2. \A k \in D : Low(f[k], sub) = f[k]
    BY <1>1 DEF Low
  <2>3. QED
    BY <2>1, <2>2 DEF IsLow
<1>2. CASE sub # 0
  <2>1. g = [k \in D |-> IF f[k] <= sub THEN Empty ELSE f[k] - sub]
    BY <1>2 DEF Dropped, Reduced
  <2>2. \A k \in D : Low(f[k], sub) = IF f[k] <= sub THEN Empty ELSE f[k] - sub
    BY <1>2 DEF Low
  <2>3. QED
    BY <2>1, <2>2 DEF IsLow
<1>3. QED
  BY <1>1, <1>2

LEMMA TableGoes ==
  ASSUME CaseOK, NEW m, WindowInv(m), NEW e, NEW sub, Further(m, e, sub),
         NEW t, NEW key, NEW D, Latest(m, t, key, D), key[m.taken] \in D,
         NEW f, f = [t EXCEPT ![key[m.taken]] = m.pos], NEW g, Dropped(f, g, sub)
  PROVE  IsLow(g, f, D, sub) /\ Latest(e, g, key, D)
<1>1. t \in [D -> Nat] /\ m.pos \in Nat
  BY PlaceIs DEF Latest
<1>2. f \in [D -> Nat]
  BY <1>1
<1>3. sub \in Nat
  BY PlaceIs DEF Further
<1>4. IsLow(g, f, D, sub)
  BY <1>2, <1>3, DroppedIs
<1>5. g = [k \in D |-> Low([t EXCEPT ![key[m.taken]] = m.pos][k], sub)]
  BY <1>4 DEF IsLow
<1>6. Latest(e, g, key, D)
  BY <1>5, LatestNext
<1>7. QED
  BY <1>4, <1>6

\* m1 is m with the position in its tables, e the next one.
LEMMA TablesGo ==
  ASSUME CaseOK, NEW m, WindowInv(m), m.lenLimit >= MinLen, Tables(m),
         NEW m1, m1.pos = m.pos, m1.taken = m.taken,
         m1.h2 = Entered(m).h2, m1.h3 = Entered(m).h3, m1.hv = Entered(m).hv,
         NEW e, NEW sub, Onward(m1, e, sub)
  PROVE  Tables(e) /\ IsLow(e.hv, [m.hv EXCEPT ![KeyV[m.taken]] = m.pos], Pairs, sub)
<1>1. PICK T \in Nat, p \in Nat : T = m.taken /\ p = m.pos /\ T + MinLen <= size
  BY PlaceIs, HashIs
<1>2. /\ Hash2(m) = Key2[T] /\ (MinLen > 2 => Hash3(m) = Key3[T]) /\ HashV(m) = KeyV[T]
      /\ Key2[T] \in Values /\ (MinLen > 2 => Key3[T] \in Pairs) /\ KeyV[T] \in Pairs
  BY <1>1, HashIs, KeyRange
<1>3. MinLen \in {2, 3, 4} /\ DOMAIN m = Fields
  BY MinLenIs, PlaceIs
<1>4. /\ MinLen > 2 => m1.h2 = [m.h2 EXCEPT ![Key2[T]] = p]
      /\ MinLen > 3 => m1.h3 = [m.h3 EXCEPT ![Key3[T]] = p]
      /\ m1.hv = [m.hv EXCEPT ![KeyV[T]] = p]
  BY <1>1, <1>2, <1>3 DEF Entered, Fields
<1>5. Further(m, e, sub) /\ sub \in Nat
  BY <1>1, PlaceIs DEF Onward, Further
<1>6. Lowered(m1, e, sub)
  BY DEF Onward
<1>7. CaseOK /\ WindowInv(m) /\ Further(m, e, sub) /\ T = m.taken /\ p = m.pos
  BY <1>1, <1>5
<1>9. ASSUME MinLen > 2 PROVE Latest(e, e.h2, Key2, Values)
  <2>1. Latest(m, m.h2, Key2, Values)
    BY <1>9 DEF Tables
  <2>2. PICK g, f, t : g = e.h2 /\ f = m1.h2 /\ t = m.h2
    OBVIOUS
  <2>3. /\ Latest(m, t, Key2, Values) /\ f = [t EXCEPT ![Key2[T]] = p]
        /\ Dropped(f, g, sub)
    BY <1>4, <1>6, <1>9, <2>1, <2>2 DEF Lowered, Dropped
  <2>4. /\ Key2[m.taken] \in Values /\ f = [t EXCEPT ![Key2[m.taken]] = m.pos]
    BY <1>1, <1>2, <2>3
  <2>6. Latest(e, g, Key2, Values)
    BY <1>7, <2>3, <2>4, TableGoes
  <2>5. QED
    BY <2>2, <2>6
<1>10. ASSUME MinLen > 3 PROVE Latest(e, e.h3, Key3, Pairs)
  <2>1. Latest(m, m.h3, Key3, Pairs) /\ MinLen > 2
    BY <1>3, <1>10 DEF Tables
  <2>2. PICK g, f, t : g = e.h3 /\ f = m1.h3 /\ t = m.h3
    OBVIOUS
  <2>3. /\ Latest(m, t, Key3, Pairs) /\ f = [t EXCEPT ![Key3[T]] = p]
        /\ Dropped(f, g, sub)
    BY <1>4, <1>6, <1>10, <2>1, <2>2 DEF Lowered, Dropped
  <2>4. /\ Key3[m.taken] \in Pairs /\ f = [t EXCEPT ![Key3[m.taken]] = m.pos]
    BY <1>1, <1>2, <2>1, <2>3
  <2>6. Latest(e, g, Key3, Pairs)
    BY <1>7, <2>3, <2>4, TableGoes
  <2>5. QED
    BY <2>2, <2>6
<1>11. Latest(e, e.hv, KeyV, Pairs) /\ IsLow(e.hv, [m.hv EXCEPT ![KeyV[m.taken]] = m.pos], Pairs, sub)
  <2>1. Latest(m, m.hv, KeyV, Pairs)
    BY DEF Tables
  <2>2. PICK g, f, t : g = e.hv /\ f = m1.hv /\ t = m.hv
    OBVIOUS
  <2>3. /\ Latest(m, t, KeyV, Pairs) /\ f = [t EXCEPT ![KeyV[T]] = p]
        /\ Dropped(f, g, sub)
    BY <1>4, <1>6, <2>1, <2>2 DEF Lowered, Dropped
  <2>4. /\ KeyV[m.taken] \in Pairs /\ f = [t EXCEPT ![KeyV[m.taken]] = m.pos]
    BY <1>1, <1>2, <2>3
  <2>6. Latest(e, g, KeyV, Pairs)
    BY <1>7, <2>3, <2>4, TableGoes
  <2>8. t \in [Pairs -> Nat] /\ p \in Nat
    BY <2>3 DEF Latest
  <2>9. f \in [Pairs -> Nat]
    BY <2>3, <2>8
  <2>7. IsLow(g, f, Pairs, sub)
    BY <1>5, <2>3, <2>9, DroppedIs
  <2>5. QED
    BY <2>2, <2>4, <2>6, <2>7
<1>12. QED
  BY <1>9, <1>10, <1>11 DEF Tables

-----------------------------------------------------------------------------
(* One position further.                                                     *)

\* The position goes into the tables before the tree or the chain is walked.
LEMMA EnteredSame ==
  ASSUME CaseOK, NEW m, WindowInv(m), m.lenLimit >= MinLen, Tables(m), NEW e0, e0 = Entered(m)
  PROVE  /\ TablesOnly(m, e0) /\ WindowInv(e0) /\ Beside(m, e0) /\ e0.son = m.son /\ e0.lenLimit >= MinLen
         /\ HashV(m) = KeyV[e0.taken] /\ Latest(e0, m.hv, KeyV, Pairs)
<1>1. DOMAIN m = Fields
  BY PlaceIs
<1>2. TablesOnly(m, e0)
  BY <1>1, EnteredIs
<1>3. WindowInv(e0)
  BY <1>2, TablesChanged
<1>4. Beside(m, e0)
  BY <1>2 DEF TablesOnly, Beside
<1>5. e0.son = m.son
  BY <1>1 DEF Entered, Fields
<1>6. HashV(m) = KeyV[m.taken]
  BY HashIs
<1>7. Latest(m, m.hv, KeyV, Pairs)
  BY DEF Tables
<1>8. Latest(e0, m.hv, KeyV, Pairs)
  BY <1>4, <1>7, BesideLists
<1>9. e0.taken = m.taken /\ e0.lenLimit = m.lenLimit
  BY <1>4 DEF Beside
<1>10. QED
  BY <1>2, <1>3, <1>4, <1>5, <1>6, <1>8, <1>9

\* What the walk through a tree leaves.
TreeSearch(m, v, low, I0, V) ==
  \E I1, V1 : /\ Spared(m, I0, I1, V \cup {m.taken}, V1)
              /\ Stopped(m, TreeWalk(m, v, low, TRUE).son, TreeWalk(m, v, low, TRUE).found, I1, V1, Kept(m), low)

LEMMA TreeWalked ==
  ASSUME CaseOK, NEW m, WindowInv(m), m.lenLimit >= MinLen, Tables(m), NEW e0, e0 = Entered(m),
         NEW I, NEW V, TreeIs(m, m.hv, I, V), NEW I0, Joined(e0, I, I0),
         NEW low \in Nat, low >= MinLen - 1, low < m.lenLimit
  PROVE  TreeIs(e0, m.hv, I, V) /\ TreeSearch(e0, m.hv[HashV(m)], low, I0, V)
<1>1. /\ TablesOnly(m, e0) /\ WindowInv(e0) /\ Beside(m, e0) /\ e0.son = m.son /\ e0.lenLimit >= MinLen
      /\ HashV(m) = KeyV[e0.taken] /\ Latest(e0, m.hv, KeyV, Pairs)
  BY EnteredSame
<1>2. PICK hv, v : hv = m.hv /\ v = hv[KeyV[e0.taken]]
  OBVIOUS
<1>3. TreeIs(e0, hv, I, V)
  BY <1>1, <1>2, BesideTrees
<1>4. e0.lenLimit = m.lenLimit
  BY <1>1 DEF Beside
<1>5. /\ CaseOK /\ WindowInv(e0) /\ e0.lenLimit >= MinLen /\ Latest(e0, hv, KeyV, Pairs) /\ TreeIs(e0, hv, I, V)
      /\ Joined(e0, I, I0) /\ low \in Nat /\ low >= MinLen - 1 /\ low < e0.lenLimit /\ v = hv[KeyV[e0.taken]]
  BY <1>1, <1>2, <1>3, <1>4
<1>6. WalkAt(e0, WalkStart(e0, v, low), I0, V \cup {e0.taken}, Kept(e0), low, 0)
  BY <1>5, WalkBegins
<1>7. Older(e0, Kept(e0))
  BY DEF Older, Kept, Past
<1>8. PICK V0, K : V0 = V \cup {e0.taken} /\ K = Kept(e0)
  OBVIOUS
<1>9. WalkAt(e0, WalkStart(e0, v, low), I0, V0, K, low, 0) /\ Older(e0, K)
  BY <1>6, <1>7, <1>8
<1>10. \E I1, V1 : /\ Spared(e0, I0, I1, V0, V1)
                   /\ Stopped(e0, TreeWalk(e0, v, low, TRUE).son, TreeWalk(e0, v, low, TRUE).found, I1, V1, K, low)
  BY <1>5, <1>9, WalkFinds
<1>11. TreeSearch(e0, v, low, I0, V)
  BY <1>8, <1>10 DEF TreeSearch
<1>12. QED
  BY <1>1, <1>2, <1>3, <1>11

\* What the walk along a chain leaves.
ChainSearch(m, v, low) ==
  /\ ChainWalk(m, v, low).son = [m.son EXCEPT ![m.cyc] = v] /\ IsList(m, ChainWalk(m, v, low).found, low)
  /\ Full => Finds(m, ChainWalk(m, v, low).found, Past(m), low)

ChainLinked(m, son) ==
  /\ son \in [0 .. cyclicBufferSize - 1 -> Nat]
  /\ \A a \in Nodes(m) : Chained(m, Link(m, son, a), a)

LEMMA ChainWalked ==
  ASSUME CaseOK, NEW m, WindowInv(m), m.lenLimit >= MinLen, Tables(m), NEW e0, e0 = Entered(m), ChainIs(m)
  PROVE  /\ ChainLinked(e0, [e0.son EXCEPT ![e0.cyc] = m.hv[HashV(m)]])
         /\ \A low \in Nat : low >= MinLen - 1 /\ low < m.lenLimit => ChainSearch(e0, m.hv[HashV(m)], low)
<1>1. /\ TablesOnly(m, e0) /\ WindowInv(e0) /\ Beside(m, e0) /\ e0.son = m.son /\ e0.lenLimit >= MinLen
      /\ HashV(m) = KeyV[e0.taken] /\ Latest(e0, m.hv, KeyV, Pairs)
  BY EnteredSame
<1>2. PICK hv, v : hv = m.hv /\ v = hv[KeyV[e0.taken]]
  OBVIOUS
<1>3. ChainIs(e0)
  BY <1>1, BesideTrees
<1>4. e0.lenLimit = m.lenLimit
  BY <1>1 DEF Beside
<1>5. PICK son : son = [e0.son EXCEPT ![e0.cyc] = v]
  OBVIOUS
<1>6. /\ CaseOK /\ WindowInv(e0) /\ e0.lenLimit >= MinLen /\ Latest(e0, hv, KeyV, Pairs) /\ ChainIs(e0)
      /\ v = hv[KeyV[e0.taken]] /\ son = [e0.son EXCEPT ![e0.cyc] = v]
  BY <1>1, <1>2, <1>3, <1>5
<1>7. /\ son \in [0 .. cyclicBufferSize - 1 -> Nat]
      /\ \A a \in Nodes(e0) : Chained(e0, Link(e0, son, a), a)
  BY <1>6, ChainJoins
<1>8. ASSUME NEW low \in Nat, low >= MinLen - 1, low < m.lenLimit PROVE ChainSearch(e0, v, low)
  <2>1. low < e0.lenLimit
    BY <1>4, <1>8
  <2>2. ChainAt(e0, ChainStart(e0, v, low), son, low, 0)
    BY <1>6, <1>8, <2>1, ChainBegins
  <2>3. PICK r : r = ChainWalk(e0, v, low)
    OBVIOUS
  <2>4. r.son = son /\ IsList(e0, r.found, low) /\ (Full => Finds(e0, r.found, Past(e0), low))
    BY <1>6, <1>7, <2>2, <2>3, ChainFinds
  <2>5. QED
    BY <1>5, <2>3, <2>4 DEF ChainSearch
<1>9. ChainLinked(e0, son)
  BY <1>7 DEF ChainLinked
<1>10. QED
  BY <1>1, <1>2, <1>5, <1>8, <1>9
-----------------------------------------------------------------------------
LEMMA LimitShrinks ==
  ASSUME CaseOK, NEW m, WindowInv(m), NEW e, WindowInv(e), e.taken = m.taken + 1
  PROVE  e.lenLimit \in 0 .. m.lenLimit
<1>1. PICK a \in Int, b \in Int, x \in Nat : a = given - m.taken /\ b = given - e.taken /\ x = MatchMaxLen
  BY PlaceIs, SizesAre
<1>2. b < a
  BY <1>1, PlaceIs
<1>3. m.lenLimit = Shorter(a, x) /\ e.lenLimit = Shorter(b, x) /\ m.lenLimit \in Nat /\ e.lenLimit \in Nat
  BY <1>1, PlaceIs
<1>4. Shorter(b, x) <= Shorter(a, x)
  BY <1>1, <1>2 DEF Shorter
<1>5. PICK y \in Nat, z \in Nat : y = m.lenLimit /\ z = e.lenLimit
  BY <1>3
<1>6. QED
  BY <1>3, <1>4, <1>5

\* m1 is e0 with the links son.
LEMMA GoesIs ==
  ASSUME CaseOK, NEW m, WindowInv(m), m.lenLimit >= MinLen, Tables(m), NEW e0, e0 = Entered(m),
         NEW D, NEW son \in [D -> Nat], NEW m1, m1 = [e0 EXCEPT !.son = son],
         NEW e, WindowInv(e), NEW sub, Onward(m1, e, sub)
  PROVE  Tables(e) /\ Goes(e0, son, m.hv, e, e.hv, sub)
<1>1. TablesOnly(m, e0) /\ WindowInv(e0)
  BY EnteredSame
<1>2. /\ m1.son = son /\ m1.h2 = e0.h2 /\ m1.h3 = e0.h3 /\ m1.hv = e0.hv
      /\ m1.pos = m.pos /\ m1.taken = m.taken /\ m1.cyc = m.cyc
      /\ e0.pos = m.pos /\ e0.taken = m.taken /\ e0.cyc = m.cyc /\ e0.lenLimit = m.lenLimit
  BY <1>1 DEF TablesOnly, Fields
<1>3. /\ m1.pos = m.pos /\ m1.taken = m.taken
      /\ m1.h2 = Entered(m).h2 /\ m1.h3 = Entered(m).h3 /\ m1.hv = Entered(m).hv
  BY <1>2
<1>4. Tables(e) /\ IsLow(e.hv, [m.hv EXCEPT ![KeyV[m.taken]] = m.pos], Pairs, sub)
  BY <1>3, TablesGo
<1>5. /\ Further(e0, e, sub) /\ e.cyc = IF e0.cyc + 1 = cyclicBufferSize THEN 0 ELSE e0.cyc + 1
  BY <1>2 DEF Onward, Further
<1>6. e.lenLimit \in 0 .. e0.lenLimit
  <2>1. e.taken = m.taken + 1
    BY <1>2 DEF Onward
  <2>2. e.lenLimit \in 0 .. m.lenLimit
    BY <2>1, LimitShrinks
  <2>3. QED
    BY <1>2, <2>2
<1>7. sub \in Nat
  BY <1>1, <1>5, PlaceIs DEF Further
<1>8. e.son = [i \in DOMAIN son |-> Low(son[i], sub)]
  <2>1. PICK g : g = e.son
    OBVIOUS
  <2>2. Dropped(son, g, sub)
    BY <1>2, <2>1 DEF Onward, Lowered, Dropped
  <2>3. IsLow(g, son, D, sub)
    BY <1>7, <2>2, DroppedIs
  <2>4. DOMAIN son = D
    OBVIOUS
  <2>5. QED
    BY <2>1, <2>3, <2>4 DEF IsLow
<1>9. e.hv = [k \in Pairs |-> Low([m.hv EXCEPT ![KeyV[e0.taken]] = e0.pos][k], sub)]
  BY <1>2, <1>4 DEF IsLow
<1>10. QED
  BY <1>4, <1>5, <1>6, <1>8, <1>9 DEF Goes

\* The links of the next position, by mode.
LEMMA LinksGoTree ==
  ASSUME CaseOK, NEW m, WindowInv(m), m.lenLimit >= MinLen, set.mode # "hc4", Links(m), Avail(m) > 0,
         NEW e, e = MovePos(Linked(m, Entered(m)))
  PROVE  Links(e)
<1>1. PICK e0, v, low : e0 = Entered(m) /\ v = m.hv[HashV(m)] /\ low = MinLen - 1
  OBVIOUS
<1>2. Tables(m) /\ \E I, V : TreeIs(m, m.hv, I, V)
  BY DEF Links
<1>3. PICK I, V : TreeIs(m, m.hv, I, V)
  BY <1>2
<1>4. /\ TablesOnly(m, e0) /\ WindowInv(e0) /\ Beside(m, e0) /\ e0.son = m.son /\ e0.lenLimit >= MinLen
      /\ HashV(m) = KeyV[e0.taken] /\ Latest(e0, m.hv, KeyV, Pairs)
  BY <1>1, <1>2, EnteredSame
<1>5. I \in Places
  BY <1>3 DEF TreeIs
<1>6. PICK I0 : Joined(e0, I, I0)
  BY <1>4, <1>5, JoinedExists
<1>7. low \in Nat /\ low >= MinLen - 1 /\ low < m.lenLimit /\ m.lenLimit \in Nat /\ MinLen \in {2, 3, 4}
  <2>1. MinLen \in {2, 3, 4} /\ m.lenLimit \in Nat
    BY MinLenIs, PlaceIs
  <2>2. QED
    BY <1>1, <2>1
<1>8. TreeIs(e0, m.hv, I, V) /\ TreeSearch(e0, v, low, I0, V)
  BY <1>1, <1>2, <1>3, <1>6, <1>7, TreeWalked
<1>9. PICK son, fs : son = TreeWalk(e0, v, low, TRUE).son /\ fs = TreeWalk(e0, v, low, TRUE).found
  OBVIOUS
<1>10. PICK I1, V1 : Spared(e0, I0, I1, V \cup {e0.taken}, V1) /\ Stopped(e0, son, fs, I1, V1, Kept(e0), low)
  BY <1>8, <1>9 DEF TreeSearch
<1>11. son = TreeWalk(e0, v, 0, FALSE).son
  <2>1. e0.lenLimit = m.lenLimit /\ set.cut \in Nat
    BY <1>4, CaseIs DEF Beside
  <2>2. QED
    BY <1>7, <1>9, <2>1, WalksAlike
<1>12. PICK m1 : m1 = [e0 EXCEPT !.son = son]
  OBVIOUS
<1>13. Linked(m, Entered(m)) = m1
  BY <1>1, <1>4, <1>11, <1>12 DEF Linked, TablesOnly, Fields
<1>14. PICK D : D = 0 .. 2 * cyclicBufferSize - 1
  OBVIOUS
<1>15. son \in [D -> Nat]
  BY <1>10, <1>14 DEF Stopped, Sons
<1>16. WindowInv(m1) /\ Avail(m1) > 0
  <2>1. TablesOnly(m, m1)
    BY <1>4, <1>12, SonSet
  <2>2. QED
    BY <2>1, TablesChanged
<1>17. e = MovePos(m1)
  BY <1>13
<1>18. WindowInv(e) /\ \E sub : Onward(m1, e, sub)
  BY <1>16, <1>17, PosMoved
<1>19. PICK sub : Onward(m1, e, sub)
  BY <1>18
<1>20. Tables(e) /\ Goes(e0, son, m.hv, e, e.hv, sub)
  BY <1>1, <1>2, <1>12, <1>15, <1>18, <1>19, GoesIs
<1>21. PICK hv, hv1 : hv = m.hv /\ hv1 = e.hv
  OBVIOUS
<1>22. /\ CaseOK /\ WindowInv(e0) /\ e0.lenLimit >= MinLen /\ Latest(e0, hv, KeyV, Pairs) /\ TreeIs(e0, hv, I, V)
       /\ Joined(e0, I, I0) /\ Spared(e0, I0, I1, V \cup {e0.taken}, V1)
       /\ Stopped(e0, son, fs, I1, V1, Kept(e0), low) /\ WindowInv(e) /\ Goes(e0, son, hv, e, hv1, sub)
  BY <1>4, <1>6, <1>8, <1>10, <1>18, <1>20, <1>21
<1>23. TreeIs(e, hv1, I1, V1 \cap Past(e))
  BY <1>22, TreeGoes
<1>24. QED
  BY <1>20, <1>21, <1>23 DEF Links

LEMMA LinksGoChain ==
  ASSUME CaseOK, NEW m, WindowInv(m), m.lenLimit >= MinLen, set.mode = "hc4", Links(m), Avail(m) > 0,
         NEW e, e = MovePos(Linked(m, Entered(m)))
  PROVE  Links(e)
<1>1. PICK e0, v : e0 = Entered(m) /\ v = m.hv[HashV(m)]
  OBVIOUS
<1>2. Tables(m) /\ ChainIs(m)
  BY DEF Links
<1>3. /\ TablesOnly(m, e0) /\ WindowInv(e0) /\ Beside(m, e0) /\ e0.son = m.son /\ e0.lenLimit >= MinLen
      /\ HashV(m) = KeyV[e0.taken] /\ Latest(e0, m.hv, KeyV, Pairs)
  BY <1>1, <1>2, EnteredSame
<1>4. PICK son : son = [e0.son EXCEPT ![e0.cyc] = v]
  OBVIOUS
<1>5. ChainLinked(e0, son)
  BY <1>1, <1>2, <1>4, ChainWalked
<1>6. PICK m1 : m1 = [e0 EXCEPT !.son = son]
  OBVIOUS
<1>7. Linked(m, Entered(m)) = m1
  BY <1>1, <1>3, <1>4, <1>6 DEF Linked, TablesOnly, Fields
<1>8. PICK D : D = 0 .. cyclicBufferSize - 1
  OBVIOUS
<1>9. son \in [D -> Nat]
  BY <1>5, <1>8 DEF ChainLinked
<1>10. WindowInv(m1) /\ Avail(m1) > 0
  <2>1. TablesOnly(m, m1)
    BY <1>3, <1>6, SonSet
  <2>2. QED
    BY <2>1, TablesChanged
<1>11. e = MovePos(m1)
  BY <1>7
<1>12. WindowInv(e) /\ \E sub : Onward(m1, e, sub)
  BY <1>10, <1>11, PosMoved
<1>13. PICK sub : Onward(m1, e, sub)
  BY <1>12
<1>14. Tables(e) /\ Goes(e0, son, m.hv, e, e.hv, sub)
  BY <1>1, <1>2, <1>6, <1>9, <1>12, <1>13, GoesIs
<1>15. PICK hv, hv1 : hv = m.hv /\ hv1 = e.hv
  OBVIOUS
<1>16. /\ CaseOK /\ WindowInv(e0) /\ son \in [0 .. cyclicBufferSize - 1 -> Nat]
       /\ \A a \in Nodes(e0) : Chained(e0, Link(e0, son, a), a)
       /\ Goes(e0, son, hv, e, hv1, sub)
  BY <1>3, <1>5, <1>14, <1>15 DEF ChainLinked
<1>17. ChainIs(e)
  BY <1>16, ChainGoes
<1>18. QED
  BY <1>14, <1>17 DEF Links

\* What the match finder knows it knows at the next position.
LEMMA StateGoes ==
  ASSUME CaseOK, NEW m, WindowInv(m), State(m), Avail(m) > 0, NEW e, e = SkipOne(m)
  PROVE  State(e)
<1>1. WindowInv(e) /\ e.taken = m.taken + 1
  BY OneSkipped
<1>2. e.lenLimit \in 0 .. m.lenLimit
  BY <1>1, LimitShrinks
<1>3. m.lenLimit \in Nat /\ MinLen \in Nat
  BY PlaceIs, MinLenIs
<1>4. CASE m.lenLimit < MinLen
  <2>1. ~ (e.lenLimit >= MinLen)
    BY <1>2, <1>3, <1>4
  <2>2. QED
    BY <2>1 DEF State
<1>5. CASE ~ (m.lenLimit < MinLen)
  <2>1. m.lenLimit >= MinLen
    BY <1>3, <1>5
  <2>2. Links(m)
    BY <2>1 DEF State
  <2>3. e = MovePos(Linked(m, Entered(m)))
    BY <1>5 DEF SkipOne
  <2>4. Links(e)
    BY <2>1, <2>2, <2>3, LinksGoTree, LinksGoChain
  <2>5. QED
    BY <2>4 DEF State
<1>6. QED
  BY <1>4, <1>5

-----------------------------------------------------------------------------
(* What a search returns.                                                    *)

\* From what length the walk looks on.
Lowest(fs) == IF fs = <<>> \/ Last(fs).len < MinLen - 1 THEN MinLen - 1 ELSE Last(fs).len

LEMMA LowestIs ==
  ASSUME CaseOK, NEW m, WindowInv(m), m.lenLimit >= MinLen, NEW fs, IsList(m, fs, 0)
  PROVE  /\ Lowest(fs) \in Nat /\ Lowest(fs) >= MinLen - 1 /\ Lowest(fs) <= m.lenLimit
         /\ fs # <<>> => /\ fs[Len(fs)].len <= Lowest(fs) /\ Good(m, fs[Len(fs)])
                         /\ Lowest(fs) >= MinLen => fs[Len(fs)].len = Lowest(fs)
         /\ fs = <<>> => Lowest(fs) = MinLen - 1
<1>1. MinLen \in {2, 3, 4} /\ m.lenLimit \in Nat
  BY MinLenIs, PlaceIs
<1>2. CASE fs = <<>>
  BY <1>1, <1>2 DEF Lowest
<1>3. CASE fs # <<>>
  <2>1. fs \in Seq(Item) /\ Len(fs) \in 1 .. Len(fs)
    BY <1>3 DEF IsList
  <2>2. PICK f : f = fs[Len(fs)]
    OBVIOUS
  <2>3. Good(m, f)
    BY <2>1, <2>2 DEF IsList
  <2>4. Last(fs) = f
    BY <2>2 DEF Last
  <2>5. PICK l \in Nat : l = f.len /\ l <= m.lenLimit
    BY <1>1, <2>3 DEF Good, Item
  <2>6. Lowest(fs) = IF l < MinLen - 1 THEN MinLen - 1 ELSE l
    BY <1>3, <2>4, <2>5 DEF Lowest
  <2>7. PICK low : low = Lowest(fs)
    OBVIOUS
  <2>8. low \in Nat /\ low >= MinLen - 1 /\ low <= m.lenLimit /\ l <= low /\ (low >= MinLen => l = low)
    BY <1>1, <2>5, <2>6, <2>7
  <2>9. QED
    BY <1>3, <2>2, <2>3, <2>5, <2>7, <2>8
<1>4. QED
  BY <1>2, <1>3

\* gs: what the walk has found.
LEMMA Results ==
  ASSUME CaseOK, NEW m, WindowInv(m), m.lenLimit >= MinLen, NEW fs, FromNewest(m, fs),
         NEW low, low = Lowest(fs), NEW gs, IsList(m, gs, low),
         Full => \A q \in Past(m), n \in MinLen .. m.lenLimit : Nearest(m, q, n) /\ low < n => Has(m, gs, q, n)
  PROVE  Result(m, fs \o gs)
<1>1. IsList(m, fs, 0)
  BY DEF FromNewest
<1>2. /\ low \in Nat /\ low >= MinLen - 1 /\ low <= m.lenLimit
      /\ fs # <<>> => /\ fs[Len(fs)].len <= low /\ Good(m, fs[Len(fs)])
                      /\ low >= MinLen => fs[Len(fs)].len = low
      /\ fs = <<>> => low = MinLen - 1
  BY <1>1, LowestIs
<1>3. MinLen \in {2, 3, 4} /\ m.lenLimit \in Nat /\ m.taken \in Nat
  BY MinLenIs, PlaceIs
<1>4. /\ IsList(m, fs \o gs, 0)
      /\ \A q, n : Has(m, fs, q, n) \/ Has(m, gs, q, n) => Has(m, fs \o gs, q, n)
  BY <1>1, <1>2, ListsJoin
<1>5. ASSUME Full, NEW q \in Past(m), NEW n \in MinLen .. m.lenLimit, Nearest(m, q, n)
      PROVE  Has(m, fs, q, n) \/ Has(m, gs, q, n)
  <2>1. CASE low < n
    BY <1>5, <2>1
  <2>2. CASE ~ (low < n)
    <3>1. n \in Nat /\ n <= low /\ low >= MinLen
      BY <1>2, <1>3, <1>5, <2>2
    <3>2. fs # <<>>
      BY <1>2, <1>3, <3>1
    <3>3. PICK f : f = fs[Len(fs)]
      OBVIOUS
    <3>4. f.len = low /\ Good(m, f)
      BY <1>2, <3>1, <3>2, <3>3
    <3>5. PICK p : Newest(m, p) /\ f.dist = m.taken - p - 1
      BY <3>2, <3>3 DEF FromNewest
    <3>6. PICK r \in Past(m) : f.dist = m.taken - r - 1 /\ Agree(r, m.taken, low)
      BY <3>4 DEF Good
    <3>7. p \in Past(m) /\ p \in Int /\ r \in Int /\ q \in Int /\ p <= m.taken - 1
      BY <1>3, <1>5, <3>5, <3>6, NodesAre DEF Newest, Past
    <3>8. r = p
      BY <1>3, <3>5, <3>6, <3>7
    <3>9. Agree(p, m.taken, n)
      <4>1. n \in 0 .. low
        BY <3>1
      <4>2. QED
        BY <1>2, <3>6, <3>8, <4>1, AgreeFewer
    <3>10. q <= p
      BY <1>5, <3>5 DEF Newest, Nearest
    <3>11. p \notin q + 1 .. m.taken - 1
      BY <1>5, <3>9 DEF Nearest
    <3>12. p = q
      BY <1>3, <3>7, <3>10, <3>11
    <3>13. Len(fs) \in 1 .. Len(fs)
      BY <1>1, <3>2 DEF IsList
    <3>14. Has(m, fs, q, n)
      BY <3>1, <3>3, <3>4, <3>5, <3>12, <3>13 DEF Has
    <3>15. QED
      BY <3>14
  <2>3. QED
    BY <2>1, <2>2
<1>6. QED
  BY <1>4, <1>5 DEF Result

LEMMA NoList ==
  ASSUME NEW m, NEW low
  PROVE  IsList(m, <<>>, low)
<1>1. <<>> \in Seq(Item) /\ Len(<<>>) = 0
  OBVIOUS
<1>2. QED
  BY <1>1 DEF IsList

\* What GetMatches finds.
LEMMA GetFinds ==
  ASSUME CaseOK, NEW m, WindowInv(m), State(m)
  PROVE  Result(m, GetMatches(m).found)
<1>1. MinLen \in {2, 3, 4} /\ m.lenLimit \in Nat
  BY MinLenIs, PlaceIs
<1>2. CASE m.lenLimit < MinLen
  <2>1. GetMatches(m).found = <<>>
    BY <1>2 DEF GetMatches
  <2>2. MinLen .. m.lenLimit = {}
    BY <1>1, <1>2
  <2>3. QED
    BY <2>1, <2>2, NoList DEF Result
<1>3. CASE ~ (m.lenLimit < MinLen)
  <2>1. m.lenLimit >= MinLen
    BY <1>1, <1>3
  <2>2. Links(m) /\ Tables(m)
    BY <2>1 DEF State, Links
  <2>3. PICK e0, v, fs, low : e0 = Entered(m) /\ v = m.hv[HashV(m)] /\ fs = FromTables(m) /\ low = Lowest(fs)
    OBVIOUS
  <2>4. FromNewest(m, fs)
    BY <2>1, <2>2, <2>3, TablesFind
  <2>5. IsList(m, fs, 0)
    BY <2>4 DEF FromNewest
  <2>6. low \in Nat /\ low >= MinLen - 1 /\ low <= m.lenLimit
    BY <2>1, <2>3, <2>5, LowestIs
  <2>7. /\ TablesOnly(m, e0) /\ WindowInv(e0) /\ Beside(m, e0)
    BY <2>1, <2>2, <2>3, EnteredSame
  <2>8. CASE low = m.lenLimit
    <3>1. GetMatches(m).found = fs
      BY <1>3, <2>3, <2>8 DEF GetMatches, Walked, Lowest
    <3>2. fs \o <<>> = fs
      BY <2>5 DEF IsList
    <3>3. ASSUME NEW n \in MinLen .. m.lenLimit PROVE ~ (low < n)
      BY <1>1, <2>8
    <3>4. IsList(m, <<>>, low)
      BY NoList
    <3>5. Result(m, fs \o <<>>)
      BY <2>1, <2>3, <2>4, <3>3, <3>4, Results
    <3>6. QED
      BY <3>1, <3>2, <3>5
  <2>9. CASE low # m.lenLimit
    <3>1. low < m.lenLimit
      BY <1>1, <2>6, <2>9
    <3>2. PICK gs : gs = IF set.mode = "hc4" THEN ChainWalk(e0, v, low).found ELSE TreeWalk(e0, v, low, TRUE).found
      OBVIOUS
    <3>3. GetMatches(m).found = fs \o gs
      BY <1>3, <2>3, <2>9, <3>2 DEF GetMatches, Walked, Lowest
    <3>4. PICK K : K = IF set.mode = "hc4" THEN Past(e0) ELSE Kept(e0)
      OBVIOUS
    <3>5. IsList(e0, gs, low) /\ (Full => Finds(e0, gs, K, low))
      <4>1. CASE set.mode = "hc4"
        <5>1. ChainIs(m)
          BY <2>2, <4>1 DEF Links
        <5>2. ChainSearch(e0, v, low)
          BY <2>1, <2>2, <2>3, <2>6, <3>1, <5>1, ChainWalked
        <5>3. QED
          BY <3>2, <3>4, <4>1, <5>2 DEF ChainSearch
      <4>2. CASE set.mode # "hc4"
        <5>1. PICK I, V : TreeIs(m, m.hv, I, V)
          BY <2>2, <4>2 DEF Links
        <5>2. I \in Places
          BY <5>1 DEF TreeIs
        <5>3. PICK I0 : Joined(e0, I, I0)
          BY <2>7, <5>2, JoinedExists
        <5>4. TreeSearch(e0, v, low, I0, V)
          BY <2>1, <2>2, <2>3, <2>6, <3>1, <5>1, <5>3, TreeWalked
        <5>5. QED
          BY <3>2, <3>4, <4>2, <5>4 DEF TreeSearch, Stopped
      <4>3. QED
        BY <4>1, <4>2
    <3>6. IsList(m, gs, low) /\ (Full => Finds(m, gs, K, low)) /\ Past(e0) = Past(m) /\ Kept(e0) = Kept(m)
      BY <2>7, <3>5, BesideLists, BesideIs
    <3>7. ASSUME Full, NEW q \in Past(m), NEW n \in MinLen .. m.lenLimit, Nearest(m, q, n), low < n
          PROVE  Has(m, gs, q, n)
      <4>1. n \in 0 .. m.lenLimit /\ n \in 1 .. m.lenLimit
        BY <1>1, <3>7
      <4>2. q \in Kept(m)
        BY <3>7, <4>1, NearestKept
      <4>3. q \in K
        BY <3>4, <3>6, <3>7, <4>2
      <4>4. QED
        BY <3>6, <3>7, <4>1, <4>3 DEF Finds
    <3>8. Result(m, fs \o gs)
      BY <2>1, <2>3, <2>4, <3>6, <3>7, Results
    <3>9. QED
      BY <3>3, <3>8
  <2>10. QED
    BY <2>8, <2>9
<1>4. QED
  BY <1>2, <1>3

-----------------------------------------------------------------------------
LEMMA SameText ==
  ASSUME text' = text, set' = set
  PROVE  /\ MinLen' = MinLen /\ Key2' = Key2 /\ Key3' = Key3 /\ KeyV' = KeyV /\ (Full' <=> Full)
         /\ \A a, b, n : /\ Agree(a, b, n)' <=> Agree(a, b, n)
                         /\ Below(a, b, n)' <=> Below(a, b, n)
<1>1. MinLen' = MinLen /\ (Full' <=> Full)
  BY DEF MinLen, Full
<1>2. \A a : Two(a)' = Two(a)
  BY DEF Two, ByteAt
<1>3. \A a : Three(a)' = Three(a)
  BY <1>2 DEF Three, ByteAt
<1>4. \A a : All(a)' = All(a)
  BY <1>1, <1>3 DEF All, ByteAt
<1>5. Key2' = Key2 /\ Key3' = Key3 /\ KeyV' = KeyV
  BY <1>2, <1>3, <1>4 DEF Key2, Key3, KeyV
<1>6. \A a, b, n : Agree(a, b, n)' <=> Agree(a, b, n)
  BY DEF Agree, ByteAt
<1>7. \A a, b, n : Strict(a, b, n)' <=> Strict(a, b, n)
  BY <1>6 DEF Strict, ByteAt
<1>8. \A a, b, n : Below(a, b, n)' <=> Below(a, b, n)
  BY <1>6, <1>7 DEF Below
<1>9. QED
  BY <1>1, <1>5, <1>6, <1>8

LEMMA SameLinksOn ==
  ASSUME text' = text, set' = set
  PROVE  \A e : State(e)' <=> State(e)
<1>1. \A e, t, key, D : Latest(e, t, key, D)' <=> Latest(e, t, key, D)
  BY DEF Latest, Past, Live, Where, cyclicBufferSize
<1>2. \A e : Tables(e)' <=> Tables(e)
  BY <1>1, SameText DEF Tables
<1>3. \A e : Kept(e)' = Kept(e)
  BY SameText DEF Kept, Past
<1>4. \A e, v, q : \A I : Behind(e, v, I, q)' <=> Behind(e, v, I, q)
  BY DEF Behind, Live, Where, cyclicBufferSize
<1>5. \A e, I, V : Linking(e, I, V)' <=> Linking(e, I, V)
  BY DEF Linking, Live, Where, Slot, Node, cyclicBufferSize
<1>6. \A e, q, a, s : Side(e, q, a, s)' <=> Side(e, q, a, s)
  BY SameText DEF Side
<1>7. \A e, v, I, a, s : Leads(e, v, I, a, s)' <=> Leads(e, v, I, a, s)
  BY <1>6 DEF Leads, Live, Where, cyclicBufferSize
<1>8. \A e, hv, I, V : Reached(e, hv, I, V)' <=> Reached(e, hv, I, V)
  BY <1>3, <1>4, <1>5, SameText DEF Reached, Past, Live, Where, Slot, Node, cyclicBufferSize, Pairs
<1>9. \A e, hv, I, V : TreeIs(e, hv, I, V)' <=> TreeIs(e, hv, I, V)
  BY <1>7, <1>8, SameText DEF TreeIs, Sons, Places, Past, Slot, Node, cyclicBufferSize
<1>10. \A e, u, a : Chained(e, u, a)' <=> Chained(e, u, a)
  BY SameText DEF Chained, Live, Where, Past, cyclicBufferSize
<1>11. \A e : ChainIs(e)' <=> ChainIs(e)
  BY <1>10 DEF ChainIs, Past, Link, Node, cyclicBufferSize
<1>12. \A e : Links(e)' <=> Links(e)
  BY <1>2, <1>9, <1>11 DEF Links
<1>13. QED
  BY <1>12, SameText DEF State
-----------------------------------------------------------------------------
(* What is found, against the text.                                          *)

SameBytes(a, dist, len) == \A i \in 0 .. len - 1 : ByteAt(a + i) = ByteAt(a + i - dist - 1)
Longest(a) == Shorter(given - a, MatchMaxLen)

\* AreMatches and NothingMissed of any place and list.
MatchesOf(a, ds) ==
  /\ \A k \in DOMAIN ds : /\ ds[k].dist < a /\ ds[k].dist < HistorySize /\ ds[k].len <= Longest(a)
                          /\ SameBytes(a, ds[k].dist, ds[k].len)
                          /\ ds[k].len < Longest(a) => ~ SameBytes(a, ds[k].dist, ds[k].len + 1)
  /\ \A k \in 1 .. Len(ds) - 1 : ds[k].len < ds[k + 1].len

NearestOf(a, ds) ==
  \A len \in MinLen .. Longest(a) : \A dist \in 0 .. Shorter(a, HistorySize) - 1 :
    SameBytes(a, dist, len) /\ (\A d \in 0 .. dist - 1 : ~ SameBytes(a, d, len)) =>
      \E k \in DOMAIN ds : ds[k].dist = dist /\ ds[k].len >= len

FoundRight(a, ds) == MatchesOf(a, ds) /\ (Full => NearestOf(a, ds))

LEMMA FoundIs ==
  FoundRight(at, distances) => AreMatches /\ (set.cut >= cyclicBufferSize => NothingMissed)
<1>1. \A d, l : Equal(d, l) <=> SameBytes(at, d, l)
  BY DEF Equal, SameBytes
<1>2. Limit = Longest(at)
  BY DEF Limit, Longest
<1>3. MatchesOf(at, distances) => AreMatches
  BY <1>1, <1>2 DEF MatchesOf, AreMatches
<1>4. NearestOf(at, distances) => NothingMissed
  BY <1>1, <1>2 DEF NearestOf, NothingMissed
<1>5. QED
  BY <1>3, <1>4 DEF FoundRight, Full

LEMMA SameFound ==
  ASSUME text' = text, set' = set
  PROVE  \A a, ds : FoundRight(a, ds)' <=> FoundRight(a, ds)
<1>1. \A a, d, l : SameBytes(a, d, l)' <=> SameBytes(a, d, l)
  BY DEF SameBytes, ByteAt
<1>2. \A a : Longest(a)' = Longest(a)
  BY DEF Longest, given, size, Shorter
<1>3. \A a, ds : MatchesOf(a, ds)' <=> MatchesOf(a, ds)
  BY <1>1, <1>2 DEF MatchesOf
<1>4. \A a, ds : NearestOf(a, ds)' <=> NearestOf(a, ds)
  BY <1>1, <1>2, SameText DEF NearestOf, Shorter
<1>5. QED
  BY <1>3, <1>4, SameText DEF FoundRight

LEMMA NoneFound ==
  ASSUME CaseOK
  PROVE  FoundRight(size, <<>>)
<1>1. PICK n \in Int : n = given - size /\ n <= 0
  BY CaseIs
<1>2. Longest(size) = Shorter(n, MatchMaxLen) /\ MatchMaxLen \in Nat \ {0}
  BY <1>1, SizesAre DEF Longest
<1>3. Shorter(n, MatchMaxLen) <= 0 /\ Shorter(n, MatchMaxLen) \in Int
  BY <1>1, <1>2 DEF Shorter
<1>4. MinLen .. Longest(size) = {}
  BY <1>2, <1>3, MinLenIs
<1>5. DOMAIN <<>> = {} /\ Len(<<>>) = 0
  OBVIOUS
<1>6. MatchesOf(size, <<>>)
  <2>1. \A k \in 1 .. Len(<<>>) - 1 : FALSE
    BY <1>5
  <2>2. QED
    BY <1>5, <2>1 DEF MatchesOf
<1>7. NearestOf(size, <<>>)
  BY <1>4 DEF NearestOf
<1>8. QED
  BY <1>6, <1>7 DEF FoundRight

\* Bytes that a place has in common with the position are those its distance leads to.
LEMMA SameIsAgree ==
  ASSUME NEW T \in Nat, NEW p \in 0 .. T - 1, NEW n \in Int
  PROVE  SameBytes(T, T - p - 1, n) <=> Agree(p, T, n)
<1>1. ASSUME NEW i \in 0 .. n - 1 PROVE T + i - (T - p - 1) - 1 = p + i
  OBVIOUS
<1>2. QED
  BY <1>1 DEF SameBytes, Agree

LEMMA ResultRight ==
  ASSUME CaseOK, NEW m, WindowInv(m), NEW fs, Result(m, fs)
  PROVE  FoundRight(m.taken, fs)
<1>1. PICK T \in Nat, L \in Nat, h \in Nat : T = m.taken /\ L = m.lenLimit /\ h = HistorySize /\ cyclicBufferSize = h + 1
  BY PlaceIs, SizesAre
<1>2. Longest(T) = L
  BY <1>1, PlaceIs DEF Longest
<1>3. IsList(m, fs, 0) /\ DOMAIN fs = 1 .. Len(fs) /\ fs \in Seq(Item)
  BY DEF Result, IsList
<1>4. \A p : p \in Past(m) <=> p \in 0 .. T - 1 /\ T - p < h + 1
  BY <1>1 DEF Past
<1>5. ASSUME NEW k \in DOMAIN fs
      PROVE  /\ fs[k].dist < T /\ fs[k].dist < HistorySize /\ fs[k].len <= Longest(T)
             /\ SameBytes(T, fs[k].dist, fs[k].len)
             /\ fs[k].len < Longest(T) => ~ SameBytes(T, fs[k].dist, fs[k].len + 1)
  <2>1. PICK f : f = fs[k]
    OBVIOUS
  <2>2. Good(m, f)
    BY <1>3, <2>1 DEF IsList
  <2>3. PICK l \in Nat : l = f.len /\ l <= L
    BY <1>1, <2>2 DEF Good, Item
  <2>4. PICK p \in Past(m) : f.dist = T - p - 1 /\ Agree(p, T, l) /\ (l < L => ~ Agree(p, T, l + 1))
    BY <1>1, <2>2, <2>3 DEF Good
  <2>5. p \in 0 .. T - 1 /\ T - p < h + 1
    BY <1>4, <2>4
  <2>6. T - p - 1 < T /\ T - p - 1 < h
    BY <2>5
  <2>7. SameBytes(T, T - p - 1, l) <=> Agree(p, T, l)
    BY <2>5, SameIsAgree
  <2>8. SameBytes(T, T - p - 1, l + 1) <=> Agree(p, T, l + 1)
    BY <2>5, SameIsAgree
  <2>9. QED
    BY <1>1, <1>2, <2>1, <2>3, <2>4, <2>6, <2>7, <2>8
<1>6. MatchesOf(T, fs)
  BY <1>3, <1>5 DEF MatchesOf, IsList
<1>7. ASSUME Full, NEW len \in MinLen .. L, NEW dist \in 0 .. Shorter(T, h) - 1,
             SameBytes(T, dist, len), \A d \in 0 .. dist - 1 : ~ SameBytes(T, d, len)
      PROVE  \E k \in DOMAIN fs : fs[k].dist = dist /\ fs[k].len >= len
  <2>1. PICK s \in Nat : s = Shorter(T, h) /\ s <= T /\ s <= h
    BY <1>1 DEF Shorter
  <2>2. PICK q \in Int : q = T - dist - 1
    BY <1>7, <2>1
  <2>3. q \in 0 .. T - 1 /\ T - q < h + 1 /\ dist = T - q - 1 /\ dist \in Nat
    BY <1>7, <2>1, <2>2
  <2>4. q \in Past(m)
    BY <1>4, <2>3
  <2>5. len \in Int
    BY <1>7, MinLenIs
  <2>6. Agree(q, T, len)
    BY <1>7, <2>3, <2>5, SameIsAgree
  <2>7. ASSUME NEW p \in q + 1 .. T - 1 PROVE ~ Agree(p, T, len)
    <3>1. p \in 0 .. T - 1 /\ T - p - 1 \in 0 .. dist - 1
      BY <2>3
    <3>2. ~ SameBytes(T, T - p - 1, len)
      BY <1>7, <3>1
    <3>3. QED
      BY <2>5, <3>1, <3>2, SameIsAgree
  <2>8. Nearest(m, q, len)
    BY <1>1, <2>6, <2>7 DEF Nearest
  <2>9. Has(m, fs, q, len)
    BY <1>1, <1>7, <2>4, <2>8 DEF Result
  <2>10. QED
    BY <1>1, <1>3, <2>3, <2>9 DEF Has
<1>8. Full => NearestOf(T, fs)
  BY <1>1, <1>2, <1>7 DEF NearestOf
<1>9. QED
  BY <1>1, <1>6, <1>8 DEF FoundRight

-----------------------------------------------------------------------------
(* Every search of a run.                                                    *)

LEMMA NothingYet ==
  ASSUME CaseOK, NEW m, WindowInv(m), m.taken = 0
  PROVE  /\ Past(m) = {} /\ Kept(m) = {} /\ ~ Live(m, Empty)
         /\ \A key, D : Latest(m, [k \in D |-> Empty], key, D)
<1>1. Past(m) = {} /\ Kept(m) = {}
  BY DEF Past, Kept
<1>2. Empty \in Nat
  BY DEF Empty
<1>3. ~ Live(m, Empty)
  BY <1>2, WhereIs
<1>4. ASSUME NEW key, NEW D PROVE Latest(m, [k \in D |-> Empty], key, D)
  <2>1. PICK t : t = [k \in D |-> Empty]
    OBVIOUS
  <2>2. t \in [D -> Nat] /\ \A k \in D : t[k] = Empty
    BY <1>2, <2>1
  <2>3. QED
    BY <1>1, <1>3, <2>1, <2>2 DEF Latest
<1>5. QED
  BY <1>1, <1>3, <1>4

LEMMA FreshState ==
  ASSUME CaseOK, NEW m, WindowInv(m), SamePlace(Fresh, m)
  PROVE  State(m)
<1>1. PICK one : one = IF set.mode = "hc4" THEN 1 ELSE 2
  OBVIOUS
<1>2. /\ m.taken = 0 /\ m.h2 = [k \in 0 .. Bytes - 1 |-> Empty] /\ m.h3 = [k \in Pairs |-> Empty]
      /\ m.hv = [k \in Pairs |-> Empty] /\ m.son = [k \in 0 .. one * cyclicBufferSize - 1 |-> Empty]
  BY <1>1 DEF SamePlace, Fresh
<1>3. /\ Past(m) = {} /\ Kept(m) = {} /\ ~ Live(m, Empty)
      /\ \A key, D : Latest(m, [k \in D |-> Empty], key, D)
  BY <1>2, NothingYet
<1>4. Tables(m)
  <2>1. m.h2 = [k \in Values |-> Empty]
    BY <1>2 DEF Values
  <2>2. Latest(m, m.h2, Key2, Values)
    BY <1>3, <2>1
  <2>3. Latest(m, m.h3, Key3, Pairs)
    BY <1>2, <1>3
  <2>4. Latest(m, m.hv, KeyV, Pairs)
    BY <1>2, <1>3
  <2>5. QED
    BY <2>2, <2>3, <2>4 DEF Tables
<1>5. Empty \in Nat /\ cyclicBufferSize \in Nat \ {0}
  BY SizesAre DEF Empty
<1>6. CASE set.mode = "hc4"
  <2>1. m.son = [k \in 0 .. cyclicBufferSize - 1 |-> Empty]
    BY <1>1, <1>2, <1>5, <1>6
  <2>2. ChainIs(m)
    BY <1>3, <1>5, <2>1 DEF ChainIs
  <2>3. QED
    BY <1>4, <1>6, <2>2 DEF State, Links
<1>7. CASE set.mode # "hc4"
  <2>1. PICK son : son = m.son /\ son = [k \in 0 .. 2 * cyclicBufferSize - 1 |-> Empty]
    BY <1>1, <1>2, <1>7
  <2>2. Sons(m.son)
    BY <1>5, <2>1 DEF Sons
  <2>3. PICK I : I = [a \in Nat |-> {}]
    OBVIOUS
  <2>4. I \in Places
    BY <2>3 DEF Places
  <2>5. PICK hv : hv = m.hv /\ \A k \in Pairs : hv[k] = Empty
    BY <1>2
  <2>6. Reached(m, hv, I, {})
    BY <1>3, <2>5 DEF Reached, Linking
  <2>7. TreeIs(m, hv, I, {})
    BY <1>3, <2>2, <2>4, <2>6 DEF TreeIs
  <2>8. QED
    BY <1>4, <1>7, <2>5, <2>7 DEF State, Links
<1>8. QED
  BY <1>6, <1>7

LEMMA ManyState ==
  ASSUME CaseOK, NEW m, WindowInv(m), State(m), NEW num \in Nat, num <= Avail(m)
  PROVE  State(SkipMany(m, num))
<1>1. PICK f : /\ f[0] = m /\ \A k \in 1 .. num : f[k] = SkipOne(f[k - 1])
               /\ SkipMany(m, num) = f[num]
  BY SkippedIs
<1>2. Avail(m) \in Nat
  BY AvailIs DEF WindowInv
<1>3. PICK A : A = {k \in Nat : WindowInv(f[k]) /\ Avail(f[k]) >= Avail(m) - k /\ State(f[k])}
  OBVIOUS
<1>4. 0 \in A
  BY <1>1, <1>2, <1>3
<1>5. ASSUME NEW k \in 0 .. num - 1, k \in A PROVE k + 1 \in A
  <2>1. WindowInv(f[k]) /\ Avail(f[k]) >= Avail(m) - k /\ State(f[k])
    BY <1>3, <1>5
  <2>2. f[k + 1] = SkipOne(f[k])
    <3>1. k + 1 \in 1 .. num /\ (k + 1) - 1 = k
      OBVIOUS
    <3>2. QED
      BY <1>1, <3>1
  <2>3. Avail(f[k]) \in Nat
    BY <2>1, AvailIs DEF WindowInv
  <2>4. Avail(f[k]) > 0
    BY <1>2, <2>1, <2>3
  <2>5. PICK a, b : a = f[k] /\ b = f[k + 1]
    OBVIOUS
  <2>6. WindowInv(a) /\ State(a) /\ Avail(a) > 0 /\ b = SkipOne(a)
    BY <2>1, <2>2, <2>4, <2>5
  <2>7. WindowInv(b) /\ Avail(b) >= Avail(a) - 1
    BY <2>6, OneSkipped
  <2>8. State(b)
    BY <2>6, StateGoes
  <2>9. Avail(b) \in Nat
    BY <2>7, AvailIs DEF WindowInv
  <2>10. Avail(b) >= Avail(m) - (k + 1)
    BY <1>2, <2>1, <2>3, <2>5, <2>7, <2>9
  <2>11. QED
    BY <1>3, <2>5, <2>7, <2>8, <2>10
<1>6. num \in A
  <2>1. A \in SUBSET Nat /\ \A k \in 0 .. num - 1 : k \in A => k + 1 \in A
    BY <1>3, <1>5
  <2>2. \A k \in 0 .. num : k \in A
    BY <1>4, <2>1, Counting
  <2>3. QED
    BY <2>2
<1>7. QED
  BY <1>1, <1>3, <1>6

\* A search leaves the match finder as a skip does.
LEMMA GetIsSkip ==
  ASSUME CaseOK, NEW m, WindowInv(m)
  PROVE  GetMatches(m).mf = SkipOne(m)
<1>1. CASE m.lenLimit < MinLen
  BY <1>1 DEF SkipOne, GetMatches
<1>2. CASE ~ (m.lenLimit < MinLen)
  <2>1. m.lenLimit >= MinLen
    BY <1>2, PlaceIs, MinLenIs
  <2>2. Linked(m, Entered(m)) = Walked(m, FromTables(m)).mf
    BY <2>1, SameLinks
  <2>3. QED
    BY <1>2, <2>2 DEF SkipOne, GetMatches
<1>3. QED
  BY <1>1, <1>2

\* The tables and the trees know the text behind the position, and what was found last is right.
KnowsInv == Inv /\ State(mf) /\ FoundRight(at, distances)

LEMMA KnowsInit ==
  ASSUME Init
  PROVE  KnowsInv
<1>1. Inv
  BY InitInv
<1>2. CaseOK
  BY <1>1 DEF Inv
<1>3. mf = SetLimits(ReadBlock(Fresh)) /\ at = size /\ distances = <<>>
  BY DEF Init
<1>4. State(mf)
  BY <1>2, <1>3, FreshIs, FreshState
<1>5. FoundRight(at, distances)
  BY <1>2, <1>3, NoneFound
<1>6. QED
  BY <1>1, <1>4, <1>5 DEF KnowsInv

LEMMA KnowsNext ==
  ASSUME KnowsInv, [Next]_vars
  PROVE  KnowsInv'
<1>1. CaseOK /\ WindowInv(mf) /\ State(mf) /\ FoundRight(at, distances) /\ Inv
  BY DEF KnowsInv, Inv
<1>2. Inv'
  BY <1>1, NextInv
<1>3. SUFFICES ASSUME text' = text, set' = set, NEW e, e = mf', State(e),
                      NEW a, a = at', NEW ds, ds = distances', FoundRight(a, ds)
               PROVE  KnowsInv'
  <2>1. CASE Get
    <3>1. /\ text' = text /\ set' = set /\ Avail(mf) > 0 /\ mf' = GetMatches(mf).mf
          /\ distances' = GetMatches(mf).found /\ at' = mf.taken
      BY <2>1 DEF Get
    <3>2. mf' = SkipOne(mf)
      BY <1>1, <3>1, GetIsSkip
    <3>3. State(SkipOne(mf))
      BY <1>1, <3>1, StateGoes
    <3>4. FoundRight(mf.taken, GetMatches(mf).found)
      BY <1>1, GetFinds, ResultRight
    <3>5. QED
      BY <1>3, <3>1, <3>2, <3>3, <3>4
  <2>2. CASE Skip
    <3>1. PICK num \in 1 .. MaxSkip : /\ text' = text /\ set' = set /\ mf' = SkipMany(mf, num) /\ num <= Avail(mf)
                                      /\ distances' = <<>> /\ at' = size
      BY <2>2 DEF Skip
    <3>2. num \in Nat
      OBVIOUS
    <3>3. State(SkipMany(mf, num))
      BY <1>1, <3>1, <3>2, ManyState
    <3>4. FoundRight(size, <<>>)
      BY <1>1, NoneFound
    <3>5. QED
      BY <1>3, <3>1, <3>3, <3>4
  <2>3. CASE UNCHANGED vars
    <3>1. text' = text /\ set' = set /\ mf' = mf /\ at' = at /\ distances' = distances
      BY <2>3 DEF vars
    <3>2. QED
      BY <1>1, <1>3, <3>1
  <2>4. QED
    BY <2>1, <2>2, <2>3 DEF Next
<1>4. State(mf)'
  BY <1>3, SameLinksOn
<1>5. FoundRight(at, distances)'
  BY <1>3, SameFound
<1>6. QED
  BY <1>2, <1>4, <1>5 DEF KnowsInv

\* What GetMatches returns (Bt2 to Bt4 and Hc4 of LzFind.c) is a list of matches, each as long
\* as the limit lets it be and longer than the one before it, in a window that holds the text;
\* and when cutValue does not cut the walk short no nearest match of any length is missed.
THEOREM FindsRight == Spec => []MatchesHold
<1>1. Init => KnowsInv
  BY KnowsInit
<1>2. KnowsInv /\ [Next]_vars => KnowsInv'
  BY KnowsNext
<1>3. KnowsInv => AreMatches /\ (set.cut >= cyclicBufferSize => NothingMissed)
  BY FoundIs DEF KnowsInv
<1>4. AreMatches /\ (set.cut >= cyclicBufferSize => NothingMissed) /\ WindowHolds => MatchesHold
  BY DEF MatchesHold
<1>5. QED
  BY <1>1, <1>2, <1>3, <1>4, WindowRight, PTL DEF Spec

=============================================================================
