---------------------------- MODULE Bsdiff_proofs ----------------------------
(***************************************************************************)
(* What holds of the host tool for all old and new firmwares: the sort of  *)
(* the suffixes never contradicts their order (Ranked), whatever pivots are*)
(* taken, and the blocks of the scan reproduce the new firmware            *)
(* (Reproduces), whatever the search finds.                                *)
(***************************************************************************)
EXTENDS Bsdiff, FiniteSetTheorems, WellFoundedInduction, TLAPS

-----------------------------------------------------------------------------
(* The invariant of the sort.                                              *)

UpTo(v)  == {x \in Suffixes : V[x] <= v}
Under(v) == {x \in Suffixes : V[x] < v}
Alone(k) == \A x \in Suffixes : V[x] = V[k] => x = k

Frames == [start : Suffixes, members : (SUBSET Suffixes) \ {{}}, equal : BOOLEAN]

SortTypes ==
  /\ old \in Olds /\ V \in [Suffixes -> Suffixes] /\ sorted \subseteq Suffixes
  /\ head \in 1 .. oldsize + 1 /\ h \in Nat \ {0} /\ i \in 0 .. oldsize + 1
  /\ frames \in Seq(Frames)

\* V gives the last place of a group, and the scan is between two groups.
PlacesOK ==
  /\ \A k \in Suffixes : Cardinality(UpTo(V[k])) = V[k] + 1
  /\ Cardinality(Under(i)) = i

\* The group that is being split, the one before i, has not been sorted.
Splitting(k) == frames # <<>> /\ V[k] = i - 1

\* What is left of it lies in the frames, one behind the other.
Below(fs, j) == {x \in Suffixes : V[x] < i - 1 \/ \E l \in 1 .. j - 1 : x \in fs[l].members}

FramesOK(fs) ==
  /\ fs # <<>> => i - 1 \in Suffixes \ sorted
  /\ fs # <<>> => \A k \in Suffixes : V[k] = i - 1 <=> \E j \in DOMAIN fs : k \in fs[j].members
  /\ \A j, l \in DOMAIN fs : j < l =>
       \A a \in fs[j].members, b \in fs[l].members : a # b /\ Before(a, b)
  /\ \A j \in DOMAIN fs :
       /\ fs[j].start = Cardinality(Below(fs, j))
       /\ \A k \in fs[j].members : k + h <= oldsize
       /\ fs[j].equal => \A a, b \in fs[j].members : a # b => SameStart(a, b, h + h)

\* Groups of one are sorted when the scan has passed them.
SortedOK ==
  /\ \A s \in sorted : \E k \in Suffixes : V[k] = s /\ Alone(k)
  /\ \A s \in 0 .. head - 1 : s \in sorted
  /\ \A k \in Suffixes :
       Alone(k) /\ V[k] \notin sorted => Splitting(k) \/ (V[k] >= i /\ h = 1 /\ k < oldsize)

\* Groups the scan has passed agree in twice as many bytes.
RoundOK ==
  \A a, b \in Suffixes :
    a # b /\ V[a] = V[b] /\ V[a] < i => Splitting(a) \/ SameStart(a, b, h + h)

SortInv == SortTypes /\ PlacesOK /\ FramesOK(frames) /\ SortedOK /\ RoundOK /\ Ranked

-----------------------------------------------------------------------------
(* Numbers and finite sets.                                                *)

LEMMA SmallestInSet ==
  ASSUME NEW S \in SUBSET Nat, S # {}
  PROVE  Smallest(S) \in S /\ \A y \in S : Smallest(S) <= y
<1> DEFINE T == {0 .. n : n \in S}
<1>1. T \subseteq FiniteSubsetsOf(Nat) /\ T # {}
  <2>1. \A n \in S : 0 .. n \in SUBSET Nat /\ IsFiniteSet(0 .. n)
    BY FS_Interval
  <2>2. QED
    BY <2>1 DEF FiniteSubsetsOf
<1>2. PICK t \in T : \A u \in T : ~ (<<u, t>> \in StrictSubsetOrdering(Nat))
  BY <1>1, WFMin, FS_StrictSubsetOrderingWellFounded
<1>3. PICK x \in S : t = 0 .. x
  OBVIOUS
<1>4. ASSUME NEW y \in S, y < x PROVE FALSE
  <2>1. 0 .. y \in T /\ 0 .. y \subseteq 0 .. x /\ x \in 0 .. x /\ x \notin 0 .. y
    BY <1>4
  <2>2. <<0 .. y, 0 .. x>> \in StrictSubsetOrdering(Nat)
    BY <2>1 DEF StrictSubsetOrdering
  <2>3. QED
    BY <1>2, <1>3, <2>1, <2>2
<1>5. \A y \in S : x <= y
  BY <1>4
<1>6. QED
  BY <1>5 DEF Smallest

\* What holds of 0 and is kept from one number to the next, up to a bound, holds of all.
LEMMA Counting ==
  ASSUME NEW n \in Nat, NEW S \in SUBSET Nat, 0 \in S,
         \A k \in 0 .. n - 1 : k \in S => k + 1 \in S
  PROVE  \A k \in 0 .. n : k \in S
<1> DEFINE T == {k \in 0 .. n : k \notin S}
<1>1. SUFFICES ASSUME T # {} PROVE FALSE
  OBVIOUS
<1>2. PICK x \in T : \A y \in T : x <= y
  <2>1. T \in SUBSET Nat
    OBVIOUS
  <2> HIDE DEF T
  <2>2. QED
    BY <1>1, <2>1, SmallestInSet
<1>3. x \in 1 .. n /\ x - 1 \in 0 .. n - 1 /\ x \notin S
  OBVIOUS
<1>4. x - 1 \in S
  BY <1>2, <1>3
<1>5. (x - 1) + 1 = x
  BY <1>3
<1>6. QED
  BY <1>3, <1>4, <1>5

LEMMA OldFinite ==
  ASSUME old \in Olds
  PROVE  /\ oldsize \in Nat /\ DOMAIN old = 0 .. oldsize - 1
         /\ \A k \in 0 .. oldsize - 1 : old[k] \in Nat
         /\ IsFiniteSet(Suffixes) /\ Cardinality(Suffixes) = oldsize + 1
<1>1. oldsize \in Nat
  BY SortAssumption, FS_CardinalityType DEF oldsize
<1>2. DOMAIN old = 0 .. oldsize - 1 /\ \A k \in 0 .. oldsize - 1 : old[k] \in Nat
  BY SortAssumption DEF oldsize
<1>3. IsFiniteSet(0 .. oldsize) /\ Cardinality(0 .. oldsize) = oldsize + 1
  <2> HIDE DEF oldsize
  <2>1. IsFiniteSet(0 .. oldsize) /\ Cardinality(0 .. oldsize) = IF 0 > oldsize THEN 0 ELSE oldsize - 0 + 1
    BY <1>1, FS_Interval
  <2>2. QED
    BY <1>1, <2>1
<1>4. QED
  BY <1>1, <1>2, <1>3 DEF Suffixes

LEMMA Sizes ==
  ASSUME old \in Olds, NEW S \in SUBSET Suffixes
  PROVE  /\ IsFiniteSet(S) /\ Cardinality(S) \in 0 .. oldsize + 1
         /\ S = {} <=> Cardinality(S) = 0
         /\ \A T \in SUBSET Suffixes : S \subseteq T =>
              Cardinality(S) <= Cardinality(T) /\ (Cardinality(S) = Cardinality(T) => S = T)
<1>1. IsFiniteSet(Suffixes) /\ Cardinality(Suffixes) = oldsize + 1 /\ oldsize \in Nat
  BY OldFinite
<1>2. IsFiniteSet(S) /\ Cardinality(S) <= oldsize + 1
  BY <1>1, FS_Subset
<1>3. Cardinality(S) \in Nat
  BY <1>2, FS_CardinalityType
<1>4. S = {} <=> Cardinality(S) = 0
  BY <1>2, FS_EmptySet
<1>5. ASSUME NEW T \in SUBSET Suffixes, S \subseteq T
      PROVE  Cardinality(S) <= Cardinality(T) /\ (Cardinality(S) = Cardinality(T) => S = T)
  <2>1. IsFiniteSet(T)
    BY <1>1, FS_Subset
  <2>2. QED
    BY <1>5, <2>1, FS_Subset
<1>6. QED
  BY <1>1, <1>2, <1>3, <1>4, <1>5

LEMMA Together ==
  ASSUME old \in Olds, NEW S \in SUBSET Suffixes, NEW T \in SUBSET Suffixes, S \cap T = {}
  PROVE  Cardinality(S \cup T) = Cardinality(S) + Cardinality(T)
<1>1. IsFiniteSet(S) /\ IsFiniteSet(T)
  BY Sizes
<1>2. Cardinality(S) \in Nat /\ Cardinality(T) \in Nat
  BY <1>1, FS_CardinalityType
<1>3. Cardinality(S \cup T) = Cardinality(S) + Cardinality(T) - Cardinality(S \cap T)
  BY <1>1, FS_Union
<1>4. Cardinality(S \cap T) = 0
  BY FS_EmptySet
<1>5. QED
  BY <1>2, <1>3, <1>4

LEMMA One ==
  ASSUME old \in Olds, NEW S \in SUBSET Suffixes, Cardinality(S) = 1
  PROVE  \E x \in Suffixes : S = {x}
BY Sizes, FS_Singleton

-----------------------------------------------------------------------------
(* The order of the suffixes.                                              *)

LEMMA NotBeforeItself ==
  ASSUME old \in Olds, NEW a \in Suffixes, NEW b \in Suffixes, Before(a, b)
  PROVE  a # b
<1>1. SUFFICES ASSUME a = b PROVE FALSE
  OBVIOUS
<1>2. /\ oldsize \in Nat /\ \A k \in 0 .. oldsize - 1 : old[k] \in Nat
      /\ a \in 0 .. oldsize
  BY OldFinite DEF Suffixes
<1>3. PICK n \in 0 .. oldsize - a - 1 : a + n = oldsize \/ old[a + n] < old[a + n]
  BY <1>1 DEF Before
<1>4. a + n \in 0 .. oldsize - 1
  BY <1>2, <1>3
<1>5. QED
  BY <1>2, <1>3, <1>4

\* The order of two suffixes that agree is that of the suffixes behind.
LEMMA BeforeBehind ==
  ASSUME old \in Olds, NEW a \in Suffixes, NEW b \in Suffixes, NEW n \in Nat,
         SameStart(a, b, n), Before(a + n, b + n)
  PROVE  Before(a, b)
<1>1. oldsize \in Nat /\ a \in Nat /\ b \in Nat
  BY OldFinite DEF Suffixes
<1>2. PICK q \in 0 .. oldsize - (b + n) - 1 :
        /\ \A k \in 0 .. q - 1 : (a + n) + k < oldsize /\ old[(a + n) + k] = old[(b + n) + k]
        /\ (a + n) + q = oldsize \/ old[(a + n) + q] < old[(b + n) + q]
  BY DEF Before
<1>3. n + q \in 0 .. oldsize - b - 1
  BY <1>1
<1>4. a + (n + q) = (a + n) + q /\ b + (n + q) = (b + n) + q
  BY <1>1
<1>5. ASSUME NEW k \in 0 .. (n + q) - 1
      PROVE  a + k < oldsize /\ old[a + k] = old[b + k]
  <2>1. CASE k < n
    BY <2>1 DEF SameStart
  <2>2. CASE k >= n
    <3>1. k - n \in 0 .. q - 1 /\ (a + n) + (k - n) = a + k /\ (b + n) + (k - n) = b + k
      BY <1>1, <2>2
    <3>2. QED
      BY <1>2, <3>1
  <2>3. QED
    BY <2>1, <2>2
<1>6. QED
  BY <1>2, <1>3, <1>4, <1>5 DEF Before

LEMMA SameBehind ==
  ASSUME old \in Olds, NEW a \in Suffixes, NEW b \in Suffixes, NEW n \in Nat,
         SameStart(a, b, n), SameStart(a + n, b + n, n)
  PROVE  SameStart(a, b, n + n)
<1>1. oldsize \in Nat /\ a \in Nat /\ b \in Nat
  BY OldFinite DEF Suffixes
<1>2. ASSUME NEW k \in 0 .. (n + n) - 1
      PROVE  a + k < oldsize /\ b + k < oldsize /\ old[a + k] = old[b + k]
  <2>1. CASE k < n
    BY <2>1 DEF SameStart
  <2>2. CASE k >= n
    <3>1. k - n \in 0 .. n - 1 /\ (a + n) + (k - n) = a + k /\ (b + n) + (k - n) = b + k
      BY <1>1, <2>2
    <3>2. QED
      BY <3>1 DEF SameStart
  <2>3. QED
    BY <2>1, <2>2
<1>3. QED
  BY <1>2 DEF SameStart

-----------------------------------------------------------------------------
(* Frames.                                                                 *)

LEMMA FrameParts ==
  ASSUME NEW f \in Frames
  PROVE  f.start \in Suffixes /\ f.members \in SUBSET Suffixes /\ f.members # {} /\ f.equal \in BOOLEAN
<1>1. f.members \in (SUBSET Suffixes) \ {{}}
  BY DEF Frames
<1>2. f.start \in Suffixes /\ f.equal \in BOOLEAN
  BY DEF Frames
<1>3. QED
  BY <1>1, <1>2

\* The first frame may be parted in two.
LEMMA Parted ==
  ASSUME SortTypes, NEW f \in Frames, NEW T \in Seq(Frames), FramesOK(<<f>> \o T),
         NEW A, NEW B, A # {}, B # {}, A \cup B = f.members,
         \A a \in A, b \in B : a # b /\ Before(a, b),
         NEW ea \in BOOLEAN, ea => \A a, b \in A : a # b => SameStart(a, b, h + h),
         NEW eb \in BOOLEAN, eb => \A a, b \in B : a # b => SameStart(a, b, h + h)
  PROVE  /\ Frame(f.start, A, ea) \in Frames /\ Frame(f.start + Cardinality(A), B, eb) \in Frames
         /\ FramesOK(<<Frame(f.start, A, ea), Frame(f.start + Cardinality(A), B, eb)>> \o T)
<1> DEFINE fs == <<f>> \o T
           x  == Frame(f.start, A, ea)
           y  == Frame(f.start + Cardinality(A), B, eb)
           gs == <<x, y>> \o T
<1>1. /\ DOMAIN fs = 1 .. Len(T) + 1 /\ fs[1] = f /\ \A j \in 2 .. Len(T) + 1 : fs[j] = T[j - 1]
      /\ fs # <<>>
  OBVIOUS
<1>2. /\ DOMAIN gs = 1 .. Len(T) + 2 /\ gs[1] = x /\ gs[2] = y
      /\ \A j \in 3 .. Len(T) + 2 : gs[j] = T[j - 2]
  OBVIOUS
<1>3. \A j \in 3 .. Len(T) + 2 : j - 1 \in 2 .. Len(T) + 1 /\ gs[j] = fs[j - 1]
  BY <1>1, <1>2
<1>4. /\ x.start = f.start /\ x.members = A /\ x.equal = ea
      /\ y.start = f.start + Cardinality(A) /\ y.members = B /\ y.equal = eb
  BY DEF Frame
<1>5. /\ A \in SUBSET Suffixes /\ B \in SUBSET Suffixes /\ f.members \in SUBSET Suffixes /\ A \cap B = {}
      /\ oldsize \in Nat /\ old \in Olds /\ Len(T) \in Nat
  BY OldFinite DEF Frames, SortTypes
<1> HIDE DEF fs, gs, x, y
<1>6. /\ i - 1 \in Suffixes \ sorted
      /\ \A k \in Suffixes : V[k] = i - 1 <=> \E j \in DOMAIN fs : k \in fs[j].members
      /\ \A j, l \in DOMAIN fs : j < l => \A a \in fs[j].members, b \in fs[l].members : a # b /\ Before(a, b)
      /\ \A j \in DOMAIN fs :
           /\ fs[j].start = Cardinality(Below(fs, j))
           /\ \A k \in fs[j].members : k + h <= oldsize
           /\ fs[j].equal => \A a, b \in fs[j].members : a # b => SameStart(a, b, h + h)
  BY <1>1 DEF FramesOK, fs
<1>7. \A k \in A \cup B : V[k] = i - 1 /\ k + h <= oldsize
  BY <1>1, <1>5, <1>6
<1>8. Below(gs, 1) = Below(fs, 1)
  BY DEF Below
<1>9. Below(gs, 2) = Below(fs, 1) \cup A /\ Below(fs, 1) \cap A = {}
  <2>1. \A k \in A : ~(V[k] < i - 1)
    BY <1>5, <1>7 DEF SortTypes, Suffixes
  <2>2. QED
    BY <1>2, <1>4, <1>5, <2>1 DEF Below
<1>10. \A j \in 3 .. Len(T) + 2 : Below(gs, j) = Below(fs, j - 1)
  <2> SUFFICES ASSUME NEW j \in 3 .. Len(T) + 2, NEW k \in Suffixes
               PROVE  (\E l \in 1 .. j - 1 : k \in gs[l].members)
                        <=> \E l \in 1 .. (j - 1) - 1 : k \in fs[l].members
    BY DEF Below
  <2>1. ASSUME NEW l \in 1 .. j - 1, k \in gs[l].members
        PROVE  \E q \in 1 .. (j - 1) - 1 : k \in fs[q].members
    <3>1. CASE l \in {1, 2}
      <4>1. k \in fs[1].members
        BY <1>1, <1>2, <1>4, <2>1, <3>1
      <4>2. QED
        BY <4>1, <1>5
    <3>2. CASE l >= 3
      <4>1. l \in 3 .. Len(T) + 2 /\ l - 1 \in 1 .. (j - 1) - 1
        BY <3>2, <1>5
      <4>2. QED
        BY <4>1, <2>1, <1>3
    <3>3. QED
      BY <3>1, <3>2
  <2>2. ASSUME NEW q \in 1 .. (j - 1) - 1, k \in fs[q].members
        PROVE  \E l \in 1 .. j - 1 : k \in gs[l].members
    <3>1. CASE q = 1
      <4>1. k \in gs[1].members \/ k \in gs[2].members
        BY <1>1, <1>2, <1>4, <2>2, <3>1
      <4>2. QED
        BY <4>1, <1>5
    <3>2. CASE q >= 2
      <4>1. q + 1 \in 3 .. Len(T) + 2 /\ q + 1 \in 1 .. j - 1 /\ (q + 1) - 1 = q
        BY <3>2, <1>5
      <4>2. QED
        BY <4>1, <2>2, <1>3
    <3>3. QED
      BY <3>1, <3>2
  <2>3. QED
    BY <2>1, <2>2
<1>11. f.start = Cardinality(Below(fs, 1)) /\ f.start \in 0 .. oldsize
  <2>1. f.start \in Suffixes
    BY FrameParts
  <2>2. 1 \in DOMAIN fs
    BY <1>1, <1>5
  <2>3. fs[1].start = Cardinality(Below(fs, 1))
    BY <1>6, <2>2
  <2>4. QED
    BY <1>1, <2>1, <2>3 DEF Suffixes
<1>12. y.start = Cardinality(Below(gs, 2)) /\ y.start \in Suffixes
  <2>1. Below(fs, 1) \in SUBSET Suffixes
    BY DEF Below
  <2>2. Cardinality(Below(gs, 2)) = f.start + Cardinality(A)
    BY <1>5, <1>9, <1>11, <2>1, Together
  <2>3. PICK b \in B : TRUE
    OBVIOUS
  <2>4. b \in Suffixes /\ b \notin Below(gs, 2)
    <3>1. b \in Suffixes /\ V[b] \in 0 .. oldsize /\ V[b] = i - 1
      BY <1>5, <1>7 DEF SortTypes, Suffixes
    <3>2. b \notin Below(fs, 1)
      BY <3>1 DEF Below
    <3>3. QED
      BY <1>5, <1>9, <3>1, <3>2
  <2>5. Below(gs, 2) \in SUBSET Suffixes
    BY DEF Below
  <2>6. Cardinality(Below(gs, 2)) \in 0 .. oldsize
    <3>1. Cardinality(Below(gs, 2)) \in 0 .. oldsize + 1
      BY <1>5, <2>5, Sizes
    <3>2. Cardinality(Below(gs, 2)) # oldsize + 1
      BY <1>5, <2>4, <2>5, Sizes, OldFinite
    <3>3. QED
      BY <1>5, <3>1, <3>2
  <2>7. QED
    BY <1>4, <2>2, <2>6 DEF Suffixes
<1>13. x \in Frames /\ y \in Frames
  BY <1>4, <1>5, <1>12 DEF x, y, Frame, Frames
<1>14. \A k \in Suffixes : V[k] = i - 1 <=> \E j \in DOMAIN gs : k \in gs[j].members
  <2> SUFFICES ASSUME NEW k \in Suffixes
               PROVE  (\E j \in DOMAIN fs : k \in fs[j].members) <=> \E j \in DOMAIN gs : k \in gs[j].members
    BY <1>6
  <2>1. ASSUME NEW j \in DOMAIN fs, k \in fs[j].members PROVE \E l \in DOMAIN gs : k \in gs[l].members
    <3>1. CASE j = 1
      <4>1. k \in gs[1].members \/ k \in gs[2].members
        BY <1>1, <1>2, <1>4, <2>1, <3>1
      <4>2. QED
        BY <4>1, <1>2, <1>5
    <3>2. CASE j # 1
      <4>1. j + 1 \in 3 .. Len(T) + 2 /\ (j + 1) - 1 = j
        BY <1>1, <1>5, <3>2
      <4>2. gs[j + 1] = fs[j] /\ j + 1 \in DOMAIN gs
        BY <4>1, <1>2, <1>3, <1>5
      <4>3. QED
        BY <4>2, <2>1
    <3>3. QED
      BY <3>1, <3>2
  <2>2. ASSUME NEW l \in DOMAIN gs, k \in gs[l].members PROVE \E j \in DOMAIN fs : k \in fs[j].members
    <3>1. CASE l \in {1, 2}
      <4>1. k \in fs[1].members
        BY <1>1, <1>2, <1>4, <2>2, <3>1
      <4>2. 1 \in DOMAIN fs
        BY <1>1, <1>5
      <4>3. QED
        BY <4>1, <4>2
    <3>2. CASE l \notin {1, 2}
      <4>1. l \in 3 .. Len(T) + 2
        BY <1>2, <1>5, <3>2
      <4>2. l - 1 \in DOMAIN fs /\ gs[l] = fs[l - 1]
        BY <1>1, <1>3, <4>1
      <4>3. QED
        BY <2>2, <4>2
    <3>3. QED
      BY <3>1, <3>2
  <2>3. QED
    BY <2>1, <2>2
<1>15. ASSUME NEW j \in DOMAIN gs, NEW l \in DOMAIN gs, j < l, NEW a \in gs[j].members, NEW b \in gs[l].members
       PROVE  a # b /\ Before(a, b)
  <2>1. CASE j = 1 /\ l = 2
    BY <2>1, <1>2, <1>4
  <2>2. CASE j \in {1, 2} /\ l # 2
    <3>1. l \in 3 .. Len(T) + 2 /\ l - 1 \in DOMAIN fs /\ 1 < l - 1 /\ 1 \in DOMAIN fs
      BY <2>2, <1>1, <1>2, <1>5, <1>15
    <3>2. a \in fs[1].members /\ b \in fs[l - 1].members
      BY <2>2, <3>1, <1>1, <1>2, <1>3, <1>4
    <3>3. QED
      BY <3>1, <3>2, <1>6
  <2>3. CASE j \notin {1, 2}
    <3>1. /\ j \in 3 .. Len(T) + 2 /\ l \in 3 .. Len(T) + 2 /\ j - 1 \in DOMAIN fs /\ l - 1 \in DOMAIN fs
          /\ j - 1 < l - 1
      BY <2>3, <1>1, <1>2, <1>5, <1>15
    <3>2. QED
      BY <3>1, <1>3, <1>6
  <2>4. QED
    BY <2>1, <2>2, <2>3, <1>2, <1>5, <1>15
<1>16. ASSUME NEW j \in DOMAIN gs
       PROVE  /\ gs[j].start = Cardinality(Below(gs, j))
              /\ \A k \in gs[j].members : k + h <= oldsize
              /\ gs[j].equal => \A a, b \in gs[j].members : a # b => SameStart(a, b, h + h)
  <2>1. CASE j = 1
    BY <2>1, <1>2, <1>4, <1>7, <1>8, <1>11
  <2>2. CASE j = 2
    BY <2>2, <1>2, <1>4, <1>7, <1>12
  <2>3. CASE j \notin {1, 2}
    <3>1. j \in 3 .. Len(T) + 2 /\ j - 1 \in DOMAIN fs
      BY <2>3, <1>1, <1>2, <1>5
    <3>2. QED
      BY <3>1, <1>3, <1>6, <1>10
  <2>4. QED
    BY <2>1, <2>2, <2>3
<1>17. FramesOK(gs)
  BY <1>6, <1>14, <1>15, <1>16 DEF FramesOK
<1>18. QED
  BY <1>13, <1>17 DEF gs, x, y

\* The first frame may be seen as one of equal keys, or not.
LEMMA Relabelled ==
  ASSUME NEW f \in Frames, NEW g \in Frames, NEW T \in Seq(Frames), FramesOK(<<f>> \o T),
         g.start = f.start, g.members = f.members,
         g.equal => \A a, b \in f.members : a # b => SameStart(a, b, h + h)
  PROVE  FramesOK(<<g>> \o T)
<1> DEFINE fs == <<f>> \o T
           gs == <<g>> \o T
<1>1. /\ DOMAIN gs = DOMAIN fs /\ gs # <<>> /\ fs # <<>>
      /\ gs[1] = g /\ fs[1] = f /\ \A j \in DOMAIN fs : j # 1 => gs[j] = fs[j]
      /\ DOMAIN fs = 1 .. Len(T) + 1 /\ Len(T) \in Nat
  OBVIOUS
<1>2. FramesOK(fs)
  OBVIOUS
<1> HIDE DEF fs, gs
<1>3. \A j \in DOMAIN fs : gs[j].start = fs[j].start /\ gs[j].members = fs[j].members
  BY <1>1
<1>4. ASSUME NEW j \in DOMAIN fs PROVE Below(gs, j) = Below(fs, j)
  <2>1. \A l \in 1 .. j - 1 : gs[l].members = fs[l].members
    BY <1>1, <1>3
  <2>2. QED
    BY <2>1 DEF Below
<1>5. ASSUME NEW j \in DOMAIN fs
      PROVE  /\ gs[j].start = Cardinality(Below(gs, j))
             /\ \A k \in gs[j].members : k + h <= oldsize
             /\ gs[j].equal => \A a, b \in gs[j].members : a # b => SameStart(a, b, h + h)
  <2>1. /\ fs[j].start = Cardinality(Below(fs, j))
        /\ \A k \in fs[j].members : k + h <= oldsize
        /\ fs[j].equal => \A a, b \in fs[j].members : a # b => SameStart(a, b, h + h)
    BY <1>2 DEF FramesOK
  <2>2. gs[j].equal => \A a, b \in gs[j].members : a # b => SameStart(a, b, h + h)
    BY <1>1, <2>1
  <2>3. QED
    BY <1>3, <1>4, <2>1, <2>2
<1>6. /\ i - 1 \in Suffixes \ sorted
      /\ \A k \in Suffixes : V[k] = i - 1 <=> \E j \in DOMAIN gs : k \in gs[j].members
  BY <1>1, <1>2, <1>3 DEF FramesOK
<1>7. \A j, l \in DOMAIN gs : j < l =>
        \A a \in gs[j].members, b \in gs[l].members : a # b /\ Before(a, b)
  BY <1>1, <1>2, <1>3 DEF FramesOK
<1>8. FramesOK(gs)
  BY <1>1, <1>5, <1>6, <1>7 DEF FramesOK
<1>9. QED
  BY <1>8 DEF gs

LEMMA Two ==
  ASSUME NEW S, NEW a \in S, NEW b \in S
  PROVE  <<a>> \o <<b>> = <<a, b>>
<1>1. PICK X, Y : X = <<a>> \o <<b>> /\ Y = <<a, b>>
  OBVIOUS
<1>2. X \in Seq(S) /\ Len(X) = 2 /\ X[1] = a /\ X[2] = b
  BY <1>1
<1>3. Y \in Seq(S) /\ Len(Y) = 2 /\ Y[1] = a /\ Y[2] = b
  BY <1>1
<1>4. X = Y
  BY <1>2, <1>3
<1>5. QED
  BY <1>1, <1>4

LEMMA TwoBefore ==
  ASSUME NEW S, NEW a \in S, NEW b \in S, NEW T \in Seq(S)
  PROVE  <<b>> \o T \in Seq(S) /\ <<a, b>> \o T = <<a>> \o (<<b>> \o T)
<1>1. PICK U : U = <<b>> \o T
  OBVIOUS
<1>2. /\ U \in Seq(S) /\ Len(U) = Len(T) + 1 /\ U[1] = b
      /\ \A k \in 1 .. Len(T) : U[k + 1] = T[k]
      /\ Len(T) \in Nat
  BY <1>1
<1>3. PICK X, Y : X = <<a, b>> \o T /\ Y = <<a>> \o U
  OBVIOUS
<1>4. /\ X \in Seq(S) /\ Len(X) = Len(T) + 2 /\ X[1] = a /\ X[2] = b
      /\ \A k \in 1 .. Len(T) : X[k + 2] = T[k]
  BY <1>3
<1>5. /\ Y \in Seq(S) /\ Len(Y) = Len(U) + 1 /\ Y[1] = a
      /\ \A k \in 1 .. Len(U) : Y[k + 1] = U[k]
  BY <1>2, <1>3
<1>6. ASSUME NEW k \in 1 .. Len(T) + 2 PROVE X[k] = Y[k]
  <2>1. CASE k \in {1, 2}
    BY <1>2, <1>4, <1>5, <2>1
  <2>2. CASE k \notin {1, 2}
    <3>1. k - 2 \in 1 .. Len(T) /\ (k - 2) + 2 = k /\ k - 1 \in 1 .. Len(U) /\ (k - 1) + 1 = k
          /\ (k - 2) + 1 = k - 1
      BY <1>2, <2>2
    <3>2. X[k] = T[k - 2] /\ Y[k] = U[k - 1] /\ U[k - 1] = T[k - 2]
      BY <1>2, <1>4, <1>5, <3>1
    <3>3. QED
      BY <3>2
  <2>3. QED
    BY <2>1, <2>2
<1>7. X = Y
  BY <1>2, <1>4, <1>5, <1>6
<1>8. QED
  BY <1>1, <1>2, <1>3, <1>7

-----------------------------------------------------------------------------
(* The steps of the sort.                                                  *)

\* The first frame is settled: its members have the last of their places.
LEMMA Settled ==
  ASSUME SortTypes, PlacesOK, SortedOK, RoundOK, Ranked, frames # <<>>,
         NEW f \in Frames, NEW T \in Seq(Frames), FramesOK(<<f>> \o T),
         \A a, b \in f.members : a # b => SameStart(a, b, h + h),
         Settle(f.start, f.members), frames' = T, UNCHANGED <<old, head, h, i>>
  PROVE  SortInv'
<1> DEFINE fs == <<f>> \o T
           F  == f.members
           w  == f.start + Cardinality(F) - 1
           L  == i - 1
<1>1. /\ DOMAIN fs = 1 .. Len(T) + 1 /\ fs[1] = f /\ \A j \in DOMAIN T : fs[j + 1] = T[j] /\ j + 1 \in DOMAIN fs
      /\ fs # <<>> /\ 1 \in DOMAIN fs /\ DOMAIN T = 1 .. Len(T) /\ Len(T) \in Nat
  OBVIOUS
<1> HIDE DEF fs
<1>2. /\ old \in Olds /\ oldsize \in Nat /\ Suffixes = 0 .. oldsize
      /\ \A k \in Suffixes : V[k] \in Suffixes /\ V[k] \in Nat
      /\ i \in Nat /\ h \in Nat /\ h >= 1
  <2>1. old \in Olds /\ oldsize \in Nat /\ Suffixes = 0 .. oldsize
    BY OldFinite DEF SortTypes, Suffixes
  <2>2. \A k \in Suffixes : V[k] \in Suffixes
    BY DEF SortTypes
  <2>3. i \in Nat /\ h \in Nat /\ h >= 1
    BY <2>1 DEF SortTypes
  <2>4. QED
    BY <2>1, <2>2, <2>3
<1>3. oldsize' = oldsize /\ Suffixes' = Suffixes
  BY DEF oldsize, Suffixes
<1>4. /\ L \in Suffixes \ sorted
      /\ \A k \in Suffixes : V[k] = L <=> \E j \in DOMAIN fs : k \in fs[j].members
      /\ \A j, l \in DOMAIN fs : j < l => \A a \in fs[j].members, b \in fs[l].members : a # b /\ Before(a, b)
      /\ \A j \in DOMAIN fs :
           /\ fs[j].start = Cardinality(Below(fs, j))
           /\ \A k \in fs[j].members : k + h <= oldsize
           /\ fs[j].equal => \A a, b \in fs[j].members : a # b => SameStart(a, b, h + h)
  BY <1>1 DEF FramesOK, fs
<1>5. F \in SUBSET Suffixes /\ F # {} /\ f.start \in Suffixes
  BY FrameParts
<1>6. \A k \in F : V[k] = L
  BY <1>1, <1>4, <1>5
<1>7. Below(fs, 1) = Under(L) /\ f.start = Cardinality(Under(L))
  <2>1. Below(fs, 1) = Under(L)
    BY DEF Below, Under
  <2>2. QED
    BY <2>1, <1>1, <1>4
<1>8. Under(L) \in SUBSET Suffixes /\ UpTo(L) \in SUBSET Suffixes
  BY DEF Under, UpTo
<1>9. Cardinality(UpTo(L)) = L + 1 /\ Cardinality(F) \in Nat /\ Cardinality(F) >= 1
  <2>1. PICK k \in F : TRUE
    BY <1>5
  <2>2. V[k] = L /\ k \in Suffixes
    BY <1>5, <1>6, <2>1
  <2>3. Cardinality(UpTo(L)) = L + 1
    BY <2>2 DEF PlacesOK
  <2>4. Cardinality(F) \in 0 .. oldsize + 1 /\ Cardinality(F) # 0
    BY <1>2, <1>5, Sizes
  <2>5. QED
    BY <1>2, <2>3, <2>4
<1>10. Under(L) \cap F = {} /\ Under(L) \cup F \subseteq UpTo(L)
  BY <1>2, <1>4, <1>5, <1>6 DEF Under, UpTo
<1>11. Cardinality(Under(L) \cup F) = w + 1 /\ w \in Nat /\ f.start <= w
  <2>1. Cardinality(Under(L) \cup F) = Cardinality(Under(L)) + Cardinality(F)
    BY <1>2, <1>5, <1>8, <1>10, Together
  <2>2. f.start \in Nat
    BY <1>2, <1>5
  <2>3. QED
    BY <1>7, <1>9, <2>1, <2>2
<1>12. w <= L /\ (w = L => Under(L) \cup F = UpTo(L))
  <2>1. Under(L) \cup F \in SUBSET Suffixes
    BY <1>5, <1>8
  <2>2. /\ Cardinality(Under(L) \cup F) <= Cardinality(UpTo(L))
        /\ Cardinality(Under(L) \cup F) = Cardinality(UpTo(L)) => Under(L) \cup F = UpTo(L)
    BY <1>2, <1>8, <1>10, <2>1, Sizes
  <2>3. QED
    BY <1>2, <1>4, <1>9, <1>11, <2>2
<1> HIDE DEF w, F
<1>13. \A k \in Suffixes : V'[k] = IF k \in F THEN w ELSE V[k]
  BY DEF Settle, F, w
<1>14. w \in Suffixes /\ V' \in [Suffixes -> Suffixes]
  <2>1. w \in Suffixes
    BY <1>2, <1>4, <1>11, <1>12
  <2>2. V' = [k \in Suffixes |-> IF k \in F THEN w ELSE V[k]]
    BY DEF Settle, F, w
  <2>3. QED
    BY <1>2, <2>1, <2>2
<1>15. ASSUME NEW k \in Suffixes, V[k] < L PROVE V[k] < f.start /\ V[k] < w /\ k \notin F
  <2>1. UpTo(V[k]) \subseteq Under(L) /\ UpTo(V[k]) \in SUBSET Suffixes
    BY <1>2, <1>4, <1>15 DEF UpTo, Under
  <2>2. V[k] + 1 <= f.start
    <3>1. Cardinality(UpTo(V[k])) = V[k] + 1
      BY DEF PlacesOK
    <3>2. Cardinality(UpTo(V[k])) <= Cardinality(Under(L))
      BY <1>2, <1>8, <2>1, Sizes
    <3>3. QED
      BY <1>7, <3>1, <3>2
  <2>3. k \notin F
    BY <1>2, <1>4, <1>6, <1>15
  <2>4. QED
    BY <1>2, <1>5, <1>11, <2>2, <2>3
<1>16. ASSUME NEW k \in Suffixes, V[k] = L, k \notin F PROVE w < L
  <2>1. k \in UpTo(L) /\ k \notin Under(L)
    BY <1>2, <1>4, <1>16 DEF UpTo, Under
  <2>2. QED
    BY <1>2, <1>4, <1>11, <1>12, <1>16, <2>1
<1>17. \A k \in Suffixes : V[k] > L => k \notin F /\ V[k] > w
  BY <1>2, <1>4, <1>6, <1>11, <1>12
\* What the values are afterwards, by those before
<1>18. \A k \in Suffixes : \/ V[k] < L /\ V'[k] = V[k] /\ k \notin F /\ V'[k] < w
                           \/ V[k] = L /\ V'[k] = w /\ k \in F
                           \/ V[k] = L /\ V'[k] = L /\ k \notin F /\ w < L
                           \/ V[k] > L /\ V'[k] = V[k] /\ k \notin F /\ V'[k] > w
  BY <1>2, <1>4, <1>6, <1>13, <1>15, <1>16, <1>17
<1>19. L \in Nat /\ w \in Nat /\ w <= L /\ i = L + 1
  BY <1>2, <1>4, <1>11, <1>12
<1> HIDE DEF L
<1>20. T # <<>> => w < L
  <2>1. SUFFICES ASSUME T # <<>> PROVE \E k \in Suffixes : V[k] = L /\ k \notin F
    BY <1>16
  <2>2. 1 \in DOMAIN T /\ 2 \in DOMAIN fs /\ fs[2] = T[1] /\ T[1] \in Frames
    BY <1>1, <2>1
  <2>3. PICK k \in T[1].members : k \in Suffixes
    BY <2>2, FrameParts
  <2>4. V[k] = L
    BY <1>4, <2>2, <2>3
  <2>5. k \notin F
    <3>1. 1 \in DOMAIN fs /\ F = fs[1].members /\ k \in fs[2].members
      BY <1>1, <2>2, <2>3 DEF F
    <3>2. \A a \in fs[1].members, b \in fs[2].members : a # b
      BY <1>4, <2>2, <3>1
    <3>3. QED
      BY <3>1, <3>2
  <2>6. QED
    BY <2>3, <2>4, <2>5
<1>21. SortTypes'
  <2>1. sorted' \subseteq Suffixes
    BY <1>5 DEF Settle, SortTypes
  <2>2. QED
    BY <1>3, <1>14, <2>1 DEF SortTypes, Frames
<1>22. PlacesOK'
  <2>1. ASSUME NEW k \in Suffixes PROVE Cardinality(UpTo(V[k])') = V'[k] + 1
    <3>1. CASE V'[k] = w
      <4>1. UpTo(V[k])' = {x \in Suffixes : V'[x] <= w}
        BY <1>3, <3>1 DEF UpTo
      <4>2. {x \in Suffixes : V'[x] <= w} = Under(L) \cup F
        BY <1>2, <1>5, <1>18, <1>19 DEF Under, F
      <4>3. QED
        BY <1>11, <3>1, <4>1, <4>2
    <3>2. CASE V'[k] # w
      <4>1. V'[k] = V[k]
        BY <1>18, <3>2
      <4>2. UpTo(V[k])' = {x \in Suffixes : V'[x] <= V[k]}
        BY <1>3, <4>1 DEF UpTo
      <4>3. {x \in Suffixes : V'[x] <= V[k]} = UpTo(V[k])
        <5>1. ASSUME NEW x \in Suffixes PROVE V'[x] <= V[k] <=> V[x] <= V[k]
          <6>1. V[x] \in Nat /\ V[k] \in Nat
            BY <1>2
          <6>2. CASE V[k] < L
            BY <1>18, <1>19, <3>2, <6>1, <6>2
          <6>3. CASE V[k] >= L
            BY <1>18, <1>19, <3>2, <6>1, <6>3
          <6>4. QED
            BY <1>19, <6>1, <6>2, <6>3
        <5>2. QED
          BY <5>1 DEF UpTo
      <4>4. QED
        BY <4>1, <4>2, <4>3 DEF PlacesOK
    <3>3. QED
      BY <3>1, <3>2
  <2>2. Under(i)' = Under(i)
    BY <1>2, <1>3, <1>18, <1>19 DEF Under
  <2>3. \A k \in Suffixes' : Cardinality(UpTo(V[k])') = V'[k] + 1
    BY <1>3, <2>1
  <2>4. (Cardinality(Under(i)) = i)'
    BY <2>2 DEF PlacesOK
  <2>5. QED
    BY <2>3, <2>4 DEF PlacesOK
<1>23. \A j \in DOMAIN T : Below(T, j)' = Below(fs, j + 1)
  <2> SUFFICES ASSUME NEW j \in DOMAIN T, NEW k \in Suffixes
               PROVE  (V'[k] < L \/ \E l \in 1 .. j - 1 : k \in T[l].members)
                        <=> (V[k] < L \/ \E l \in 1 .. (j + 1) - 1 : k \in fs[l].members)
    BY <1>3 DEF Below, L
  <2>1. w < L
    BY <1>1, <1>20
  <2>2. CASE k \in F
    <3>1. V'[k] < L /\ k \in fs[1].members /\ 1 \in 1 .. (j + 1) - 1
      BY <1>1, <1>13, <2>1, <2>2 DEF F
    <3>2. QED
      BY <3>1
  <2>3. CASE k \notin F
    <3>1. V'[k] = V[k]
      BY <1>13, <2>3
    <3>2. ASSUME NEW l \in 1 .. j - 1, k \in T[l].members PROVE \E q \in 1 .. (j + 1) - 1 : k \in fs[q].members
      <4>1. l \in DOMAIN T /\ l + 1 \in 1 .. (j + 1) - 1 /\ fs[l + 1] = T[l]
        BY <1>1
      <4>2. QED
        BY <3>2, <4>1
    <3>3. ASSUME NEW q \in 1 .. (j + 1) - 1, k \in fs[q].members PROVE \E l \in 1 .. j - 1 : k \in T[l].members
      <4>1. q # 1
        BY <1>1, <2>3, <3>3 DEF F
      <4>2. q - 1 \in 1 .. j - 1 /\ q - 1 \in DOMAIN T /\ (q - 1) + 1 = q
        BY <1>1, <4>1
      <4>3. fs[q] = T[q - 1]
        BY <1>1, <4>2
      <4>4. QED
        BY <3>3, <4>2, <4>3
    <3>4. QED
      BY <3>1, <3>2, <3>3
  <2>4. QED
    BY <2>2, <2>3
<1>24. \A a, b : Before(a, b)' <=> Before(a, b)
  BY <1>3 DEF Before
<1>25. \A a, b, n : SameStart(a, b, n)' <=> SameStart(a, b, n)
  BY <1>3 DEF SameStart
<1>26. \A k \in Suffixes : V'[k] = L /\ T # <<>> <=> \E j \in DOMAIN T : k \in T[j].members
  <2> SUFFICES ASSUME NEW k \in Suffixes
               PROVE  V'[k] = L /\ T # <<>> <=> \E j \in DOMAIN T : k \in T[j].members
    OBVIOUS
  <2>1. ASSUME NEW j \in DOMAIN T, k \in T[j].members PROVE V'[k] = L /\ T # <<>>
    <3>1. j + 1 \in DOMAIN fs /\ k \in fs[j + 1].members /\ 1 < j + 1 /\ T # <<>>
      BY <1>1, <2>1
    <3>2. V[k] = L
      BY <1>4, <3>1
    <3>3. k \notin F
      BY <1>1, <1>4, <3>1 DEF F
    <3>4. QED
      BY <1>13, <3>1, <3>2, <3>3
  <2>2. ASSUME V'[k] = L, T # <<>> PROVE \E j \in DOMAIN T : k \in T[j].members
    <3>1. k \notin F /\ V[k] = L
      BY <1>13, <1>19, <1>20, <2>2
    <3>2. PICK l \in DOMAIN fs : k \in fs[l].members
      BY <1>4, <3>1
    <3>3. l # 1
      BY <1>1, <3>1, <3>2 DEF F
    <3>4. l - 1 \in DOMAIN T /\ (l - 1) + 1 = l
      BY <1>1, <3>3
    <3>5. fs[l] = T[l - 1]
      BY <1>1, <3>4
    <3>6. QED
      BY <3>2, <3>4, <3>5
  <2>3. QED
    BY <2>1, <2>2
<1>27. FramesOK(T)'
  <2>1. T # <<>> => L \in Suffixes \ sorted'
    <3>1. T # <<>> => f.start # L
      BY <1>2, <1>5, <1>11, <1>20, <1>19
    <3>2. QED
      BY <1>4, <3>1 DEF Settle
  <2>2. \A j, l \in DOMAIN T : j < l => \A a \in T[j].members, b \in T[l].members : a # b /\ Before(a, b)
    <3> SUFFICES ASSUME NEW j \in DOMAIN T, NEW l \in DOMAIN T, j < l
                 PROVE  \A a \in T[j].members, b \in T[l].members : a # b /\ Before(a, b)
      OBVIOUS
    <3>1. j + 1 \in DOMAIN fs /\ l + 1 \in DOMAIN fs /\ j + 1 < l + 1 /\ fs[j + 1] = T[j] /\ fs[l + 1] = T[l]
      BY <1>1
    <3>2. QED
      BY <1>4, <3>1
  <2>3. \A j \in DOMAIN T :
           /\ T[j].start = Cardinality(Below(T, j)')
           /\ \A k \in T[j].members : k + h <= oldsize
           /\ T[j].equal => \A a, b \in T[j].members : a # b => SameStart(a, b, h + h)
    BY <1>1, <1>4, <1>23
  <2>4. /\ T # <<>> => (i - 1 \in Suffixes \ sorted)'
        /\ T # <<>> => \A k \in Suffixes' : V'[k] = (i - 1)' <=> \E j \in DOMAIN T : k \in T[j].members
    BY <1>3, <1>26, <2>1 DEF L
  <2>5. QED
    BY <1>3, <1>24, <1>25, <2>2, <2>3, <2>4 DEF FramesOK
<1>28. \A k \in Suffixes : k \notin F => (Alone(k)' <=> Alone(k)) \/ V[k] = L
  BY <1>2, <1>3, <1>18, <1>19 DEF Alone
<1>29. (\A s \in sorted : \E k \in Suffixes : V[k] = s /\ Alone(k))'
  <2> SUFFICES ASSUME NEW s \in sorted' PROVE \E k \in Suffixes : V'[k] = s /\ Alone(k)'
    BY <1>3
  <2>1. CASE s \in sorted
    <3>1. PICK k \in Suffixes : V[k] = s /\ Alone(k)
      BY <2>1 DEF SortedOK
    <3>2. V[k] # L
      BY <1>4, <2>1, <3>1
    <3>3. k \notin F /\ V'[k] = s
      BY <1>6, <1>13, <3>1, <3>2 DEF F
    <3>4. QED
      BY <1>28, <3>1, <3>2, <3>3
  <2>2. CASE s \notin sorted
    <3>1. Cardinality(F) = 1 /\ s = f.start
      BY <2>2 DEF Settle, F
    <3>2. PICK k \in Suffixes : F = {k}
      BY <1>2, <1>5, <3>1, One DEF F
    <3>3. w = s
      BY <1>2, <1>5, <3>1 DEF w
    <3>4. V'[k] = s /\ Alone(k)'
      BY <1>2, <1>3, <1>18, <1>19, <3>2, <3>3 DEF Alone
    <3>5. QED
      BY <3>4
  <2>3. QED
    BY <2>1, <2>2
<1>30. (\A s \in 0 .. head - 1 : s \in sorted)'
  BY DEF Settle, SortedOK
<1>31. ASSUME NEW k \in Suffixes, Alone(k)', V'[k] \notin sorted'
       PROVE  (T # <<>> /\ V'[k] = L) \/ (V'[k] >= i /\ h = 1 /\ k < oldsize)
  <2>1. CASE k \in F
    <3>1. F = {k}
      <4>1. \A x \in F : V'[x] = V'[k]
        BY <1>5, <1>13, <2>1 DEF F
      <4>2. QED
        BY <1>3, <1>5, <1>31, <2>1, <4>1 DEF Alone, F
    <3>2. Cardinality(F) = 1
      BY <3>1, FS_Singleton
    <3>3. w = f.start /\ V'[k] = w
      BY <1>2, <1>5, <1>13, <2>1, <3>2 DEF w
    <3>4. f.start \in sorted'
      BY <3>2 DEF Settle, F
    <3>5. QED
      BY <1>31, <3>3, <3>4
  <2>2. CASE k \notin F /\ V[k] = L
    <3>1. \E j \in DOMAIN T : k \in T[j].members
      <4>1. PICK l \in DOMAIN fs : k \in fs[l].members
        BY <1>4, <2>2
      <4>2. l # 1
        BY <1>1, <2>2, <4>1 DEF F
      <4>3. l - 1 \in DOMAIN T /\ (l - 1) + 1 = l
        BY <1>1, <4>2
      <4>4. fs[l] = T[l - 1]
        BY <1>1, <4>3
      <4>5. QED
        BY <4>1, <4>3, <4>4
    <3>2. QED
      BY <1>26, <3>1
  <2>3. CASE k \notin F /\ V[k] # L
    <3>1. Alone(k) /\ V'[k] = V[k] /\ V[k] \notin sorted
      BY <1>13, <1>28, <1>31, <2>3 DEF Settle
    <3>2. ~Splitting(k)
      BY <2>3 DEF Splitting, L
    <3>3. QED
      BY <3>1, <3>2 DEF SortedOK
  <2>4. QED
    BY <2>1, <2>2, <2>3
<1>32. SortedOK'
  <2>1. (\A k \in Suffixes : Alone(k) /\ V[k] \notin sorted => Splitting(k) \/ (V[k] >= i /\ h = 1 /\ k < oldsize))'
    BY <1>3, <1>31 DEF Splitting, L
  <2>2. QED
    BY <1>29, <1>30, <2>1 DEF SortedOK
<1>33. RoundOK'
  <2> SUFFICES ASSUME NEW a \in Suffixes, NEW b \in Suffixes, a # b, V'[a] = V'[b], V'[a] < i
               PROVE  (T # <<>> /\ V'[a] = L) \/ SameStart(a, b, h + h)
    BY <1>3, <1>25 DEF RoundOK, Splitting, L
  <2>1. CASE a \in F /\ b \in F
    BY <2>1 DEF F
  <2>2. CASE a \notin F /\ V[a] = L
    <3>1. V'[a] = L
      BY <1>13, <2>2
    <3>2. T # <<>>
      <4>1. PICK l \in DOMAIN fs : a \in fs[l].members
        BY <1>4, <2>2
      <4>2. l # 1
        BY <1>1, <2>2, <4>1 DEF F
      <4>3. QED
        BY <1>1, <4>2
    <3>3. QED
      BY <3>1, <3>2
  <2>3. CASE V[a] # L
    <3>1. V[b] = V[a] /\ V'[a] = V[a]
      BY <1>2, <1>18, <1>19, <2>3
    <3>2. ~Splitting(a)
      BY <2>3 DEF Splitting, L
    <3>3. QED
      BY <3>1, <3>2 DEF RoundOK
  <2>4. CASE a \in F /\ b \notin F
    BY <1>2, <1>18, <1>19, <2>4
  <2>5. QED
    BY <1>18, <2>1, <2>2, <2>3, <2>4
<1>34. ASSUME NEW a \in F, NEW b \in Suffixes, b \notin F, V[b] = L PROVE Before(a, b)
  <2>1. PICK l \in DOMAIN fs : b \in fs[l].members
    BY <1>4, <1>34
  <2>2. l # 1
    BY <1>1, <1>34, <2>1 DEF F
  <2>3. 1 < l /\ a \in fs[1].members
    BY <1>1, <2>2 DEF F
  <2>4. QED
    BY <1>1, <1>4, <2>1, <2>3
<1>35. Ranked'
  <2> SUFFICES ASSUME NEW a \in Suffixes, NEW b \in Suffixes
               PROVE  /\ V'[a] < V'[b] => Before(a, b)
                      /\ a # b /\ V'[a] = V'[b] => SameStart(a, b, h)
    BY <1>3, <1>24, <1>25 DEF Ranked
  <2>1. ASSUME V'[a] < V'[b] PROVE Before(a, b)
    <3>1. CASE V[a] < V[b]
      BY <3>1 DEF Ranked
    <3>2. CASE ~(V[a] < V[b])
      <4>1. a \in F /\ b \notin F /\ V[b] = L
        BY <1>2, <1>18, <1>19, <2>1, <3>2
      <4>2. QED
        BY <1>34, <4>1
    <3>3. QED
      BY <3>1, <3>2
  <2>2. ASSUME a # b, V'[a] = V'[b] PROVE SameStart(a, b, h)
    <3>1. V[a] = V[b]
      BY <1>2, <1>18, <1>19, <2>2
    <3>2. QED
      BY <2>2, <3>1 DEF Ranked
  <2>3. QED
    BY <2>1, <2>2
<1>36. FramesOK(frames)'
  BY <1>27
<1>37. QED
  BY <1>21, <1>22, <1>32, <1>33, <1>35, <1>36 DEF SortInv

\* Members of the group that is split agree in h bytes, and keys are read inside V.
LEMMA KeysOK ==
  ASSUME SortInv, frames # <<>>
  PROVE  /\ top \in Frames /\ Tail(frames) \in Seq(Frames) /\ frames = <<top>> \o Tail(frames)
         /\ \A k \in top.members : k \in Suffixes /\ k + h \in Suffixes /\ Key(k) \in Suffixes /\ Key(k) \in Nat
         /\ \A a, b \in top.members : a # b =>
              /\ SameStart(a, b, h)
              /\ Key(a) < Key(b) => Before(a, b)
              /\ Key(a) = Key(b) => SameStart(a, b, h + h)
<1>1. frames \in Seq(Frames) /\ old \in Olds /\ h \in Nat /\ V \in [Suffixes -> Suffixes]
  BY DEF SortInv, SortTypes
<1>2. top \in Frames /\ Tail(frames) \in Seq(Frames) /\ frames = <<top>> \o Tail(frames) /\ 1 \in DOMAIN frames
  BY <1>1 DEF top
<1>3. top.members \in SUBSET Suffixes
  BY <1>2, FrameParts
<1>4. oldsize \in Nat
  BY <1>1, OldFinite
<1>5. ASSUME NEW k \in top.members
      PROVE  k \in Suffixes /\ k + h \in Suffixes /\ Key(k) \in Suffixes /\ Key(k) \in Nat
  <2>1. k + h <= oldsize
    BY <1>2 DEF SortInv, FramesOK, top
  <2>2. k \in Suffixes /\ k + h \in Suffixes
    <3>1. k \in Suffixes
      BY <1>3
    <3>2. k \in 0 .. oldsize
      BY <3>1 DEF Suffixes
    <3>3. k + h \in 0 .. oldsize
      BY <1>1, <1>4, <2>1, <3>2
    <3>4. QED
      BY <3>1, <3>3 DEF Suffixes
  <2>3. Key(k) \in Suffixes
    BY <1>1, <2>2 DEF Key
  <2>4. QED
    BY <1>4, <2>2, <2>3 DEF Suffixes
<1>6. ASSUME NEW a \in top.members, NEW b \in top.members, a # b
      PROVE  /\ SameStart(a, b, h)
             /\ Key(a) < Key(b) => Before(a, b)
             /\ Key(a) = Key(b) => SameStart(a, b, h + h)
  <2>1. V[a] = i - 1 /\ V[b] = i - 1
    BY <1>2, <1>5 DEF SortInv, FramesOK, top
  <2>2. SameStart(a, b, h)
    BY <1>5, <1>6, <2>1 DEF SortInv, Ranked
  <2>3. ASSUME Key(a) < Key(b) PROVE Before(a, b)
    <3>1. Before(a + h, b + h)
      BY <1>5, <2>3 DEF SortInv, Ranked, Key
    <3>2. QED
      BY <1>1, <1>5, <2>2, <3>1, BeforeBehind
  <2>4. ASSUME Key(a) = Key(b) PROVE SameStart(a, b, h + h)
    <3>1. a + h # b + h
      <4>1. a \in 0 .. oldsize /\ b \in 0 .. oldsize
        BY <1>5 DEF Suffixes
      <4>2. QED
        BY <1>1, <1>6, <4>1
    <3>2. SameStart(a + h, b + h, h)
      BY <1>5, <2>4, <3>1 DEF SortInv, Ranked, Key
    <3>3. QED
      BY <1>1, <1>5, <2>2, <3>2, SameBehind
  <2>5. QED
    BY <2>2, <2>3, <2>4
<1>7. QED
  BY <1>2, <1>5, <1>6

LEMMA SelectionKeeps ==
  ASSUME SortInv, Selection
  PROVE  SortInv'
<1>1. frames # <<>>
  BY DEF Selection, InSplit
<1>2. /\ top \in Frames /\ Tail(frames) \in Seq(Frames) /\ frames = <<top>> \o Tail(frames)
      /\ \A k \in top.members : k \in Suffixes /\ Key(k) \in Nat
      /\ \A a, b \in top.members : a # b =>
           /\ Key(a) < Key(b) => Before(a, b)
           /\ Key(a) = Key(b) => SameStart(a, b, h + h)
  BY <1>1, KeysOK
<1>3. top.members \in SUBSET Suffixes /\ top.members # {}
  BY <1>2, FrameParts
<1>4. PICK x : x = Smallest({Key(k) : k \in top.members})
  OBVIOUS
<1>5. x \in {Key(k) : k \in top.members} /\ \A k \in top.members : x <= Key(k)
  <2>1. PICK K : K = {Key(k) : k \in top.members}
    OBVIOUS
  <2>2. K \in SUBSET Nat /\ K # {}
    BY <1>2, <1>3, <2>1
  <2>3. x \in K /\ \A y \in K : x <= y
    BY <1>4, <2>1, <2>2, SmallestInSet
  <2>4. QED
    BY <2>1, <2>3
<1>6. PICK same : same = {k \in top.members : Key(k) = x}
  OBVIOUS
<1>7. /\ Settle(top.start, same)
      /\ frames' = IF same = top.members THEN Tail(frames)
                   ELSE <<Frame(top.start + Cardinality(same), top.members \ same, FALSE)>> \o Tail(frames)
      /\ UNCHANGED <<old, head, h, i>>
  BY <1>4, <1>6 DEF Selection
<1>8. same # {} /\ \A a, b \in same : a # b => SameStart(a, b, h + h)
  BY <1>2, <1>5, <1>6
<1>9. SortTypes /\ PlacesOK /\ SortedOK /\ RoundOK /\ Ranked /\ FramesOK(<<top>> \o Tail(frames))
  BY <1>2 DEF SortInv
<1>10. CASE same = top.members
  BY <1>1, <1>2, <1>7, <1>8, <1>9, <1>10, Settled
<1>11. CASE same # top.members
  <2>1. PICK rest : rest = top.members \ same
    OBVIOUS
  <2>2. rest # {} /\ same \cup rest = top.members /\ \A a \in same, b \in rest : a # b /\ Before(a, b)
    BY <1>2, <1>5, <1>6, <1>11, <2>1
  <2>3. PICK f : f = Frame(top.start, same, TRUE)
    OBVIOUS
  <2>4. PICK g : g = Frame(top.start + Cardinality(same), rest, FALSE)
    OBVIOUS
  <2>5. f \in Frames /\ g \in Frames /\ FramesOK(<<f, g>> \o Tail(frames))
    BY <1>2, <1>8, <1>9, <2>2, <2>3, <2>4, Parted
  <2>6. PICK T : T = <<g>> \o Tail(frames)
    OBVIOUS
  <2>7. T \in Seq(Frames) /\ <<f, g>> \o Tail(frames) = <<f>> \o T
    BY <1>2, <2>5, <2>6
  <2>8. FramesOK(<<f>> \o T)
    BY <2>5, <2>7
  <2>9. f.start = top.start /\ f.members = same
    BY <2>3 DEF Frame
  <2>10. frames' = T
    BY <1>7, <1>11, <2>1, <2>4, <2>6
  <2>11. QED
    BY <1>1, <1>7, <1>8, <1>9, <2>5, <2>7, <2>8, <2>9, <2>10, Settled
<1>12. QED
  BY <1>10, <1>11

LEMMA MiddleKeeps ==
  ASSUME SortInv, Middle
  PROVE  SortInv'
<1>1. frames # <<>> /\ top.equal = TRUE
  BY DEF Middle, InSplit
<1>2. top \in Frames /\ Tail(frames) \in Seq(Frames) /\ frames = <<top>> \o Tail(frames)
  BY <1>1, KeysOK
<1>3. \A a, b \in top.members : a # b => SameStart(a, b, h + h)
  <2>1. 1 \in DOMAIN frames /\ FramesOK(frames)
    BY <1>1 DEF SortInv, SortTypes
  <2>2. frames[1].equal => \A a, b \in frames[1].members : a # b => SameStart(a, b, h + h)
    BY <2>1 DEF FramesOK
  <2>3. QED
    BY <1>1, <2>2 DEF top
<1>4. SortTypes /\ PlacesOK /\ SortedOK /\ RoundOK /\ Ranked /\ FramesOK(<<top>> \o Tail(frames))
  BY <1>2 DEF SortInv
<1>5. Settle(top.start, top.members) /\ frames' = Tail(frames) /\ UNCHANGED <<old, head, h, i>>
  BY DEF Middle
<1>6. QED
  BY <1>1, <1>2, <1>3, <1>4, <1>5, Settled

\* Steps that change only the frames and the place of the scan
LEMMA SameOrder ==
  ASSUME UNCHANGED <<old, V>>
  PROVE  /\ oldsize' = oldsize /\ Suffixes' = Suffixes
         /\ \A v : UpTo(v)' = UpTo(v) /\ Under(v)' = Under(v)
         /\ \A k : Alone(k)' <=> Alone(k)
         /\ \A a, b : Before(a, b)' <=> Before(a, b)
         /\ \A a, b, n : SameStart(a, b, n)' <=> SameStart(a, b, n)
<1>1. oldsize' = oldsize /\ Suffixes' = Suffixes
  BY DEF oldsize, Suffixes
<1>2. QED
  BY <1>1 DEF UpTo, Under, Alone, Before, SameStart

LEMMA PartitionKeeps ==
  ASSUME SortInv, Partition
  PROVE  SortInv'
<1>1. frames # <<>>
  BY DEF Partition, InSplit
<1>2. /\ top \in Frames /\ Tail(frames) \in Seq(Frames) /\ frames = <<top>> \o Tail(frames)
      /\ \A k \in top.members : k \in Suffixes /\ Key(k) \in Nat
      /\ \A a, b \in top.members : a # b =>
           /\ Key(a) < Key(b) => Before(a, b)
           /\ Key(a) = Key(b) => SameStart(a, b, h + h)
  BY <1>1, KeysOK
<1>3. PICK x \in {Key(k) : k \in top.members} :
        frames' = Parts({k \in top.members : Key(k) < x}, {k \in top.members : Key(k) = x},
                        {k \in top.members : Key(k) > x}) \o Tail(frames)
  BY DEF Partition
<1>4. x \in Nat
  BY <1>2
<1>5. PICK less, same, more, rest :
        /\ less = {k \in top.members : Key(k) < x} /\ same = {k \in top.members : Key(k) = x}
        /\ more = {k \in top.members : Key(k) > x} /\ rest = less \cup same
  OBVIOUS
<1>6. /\ same # {} /\ less \cup same \cup more = top.members /\ rest # {}
      /\ \A a, b \in same : a # b => SameStart(a, b, h + h)
      /\ \A a \in less, b \in same : a # b /\ Before(a, b)
      /\ \A a \in rest, b \in more : a # b /\ Before(a, b)
  BY <1>2, <1>4, <1>5
<1>7. FramesOK(<<top>> \o Tail(frames)) /\ SortTypes
  BY <1>2 DEF SortInv
<1> DEFINE s == top.start + Cardinality(less)
<1>8. PICK M, T : /\ M = IF more = {} THEN <<>> ELSE <<Frame(s + Cardinality(same), more, FALSE)>>
                  /\ T = M \o Tail(frames)
  OBVIOUS
<1>9. frames' = (IF less = {} THEN <<>> ELSE <<Frame(top.start, less, FALSE)>>)
                  \o <<Frame(s, same, TRUE)>> \o M \o Tail(frames)
  BY <1>3, <1>5, <1>8 DEF Parts
<1>10. PICK f : f = Frame(top.start, rest, FALSE)
  OBVIOUS
<1>11. /\ less \in SUBSET Suffixes /\ same \in SUBSET Suffixes /\ old \in Olds
       /\ Cardinality(less) \in Nat /\ Cardinality(same) \in Nat /\ top.start \in Nat
       /\ Cardinality(rest) = Cardinality(less) + Cardinality(same)
  <2>1. less \in SUBSET Suffixes /\ same \in SUBSET Suffixes /\ old \in Olds
    BY <1>2, <1>5, <1>7 DEF SortTypes
  <2>2. less \cap same = {}
    BY <1>6
  <2>3. Cardinality(less) \in Nat /\ Cardinality(same) \in Nat
    BY <2>1, Sizes
  <2>4. top.start \in Nat
    BY <1>2, <2>1, FrameParts, OldFinite DEF Suffixes
  <2>5. QED
    BY <1>5, <2>1, <2>2, <2>3, <2>4, Together
\* The greater keys first, then the smaller ones
<1>12. M \in Seq(Frames) /\ T \in Seq(Frames) /\ f \in Frames /\ FramesOK(<<f>> \o T)
  <2>1. CASE more = {}
    <3>1. T = Tail(frames) /\ M \in Seq(Frames)
      BY <1>2, <1>8, <2>1
    <3>2. f.start = top.start /\ f.members = top.members /\ f.equal = FALSE
      BY <1>5, <1>6, <1>10, <2>1 DEF Frame
    <3>3. f \in Frames
      <4>1. rest = top.members /\ rest \in (SUBSET Suffixes) \ {{}} /\ top.start \in Suffixes
        BY <1>2, <1>5, <1>6, <2>1, FrameParts
      <4>2. QED
        BY <1>10, <4>1 DEF Frame, Frames
    <3>4. FramesOK(<<f>> \o Tail(frames))
      BY <1>2, <1>7, <3>2, <3>3, Relabelled
    <3>5. QED
      BY <1>2, <3>1, <3>3, <3>4
  <2>2. CASE more # {}
    <3>1. PICK g : g = Frame(top.start + Cardinality(rest), more, FALSE)
      OBVIOUS
    <3>2. f \in Frames /\ g \in Frames /\ FramesOK(<<f, g>> \o Tail(frames))
      <4>1. rest \cup more = top.members
        BY <1>5, <1>6
      <4>2. QED
        BY <1>2, <1>6, <1>7, <1>10, <2>2, <3>1, <4>1, Parted
    <3>3. g = Frame(s + Cardinality(same), more, FALSE)
      <4>1. top.start + Cardinality(rest) = s + Cardinality(same)
        BY <1>11
      <4>2. QED
        BY <3>1, <4>1
    <3>4. T = <<g>> \o Tail(frames) /\ M \in Seq(Frames)
      <4>1. M = <<g>>
        BY <1>8, <2>2, <3>3
      <4>2. T = <<g>> \o Tail(frames)
        BY <1>8, <4>1, Zenon
      <4>3. g \in Frames
        BY <3>2
      <4>4. QED
        BY <4>1, <4>2, <4>3
    <3>5. T \in Seq(Frames) /\ <<f, g>> \o Tail(frames) = <<f>> \o T
      <4>1. f \in Frames /\ g \in Frames /\ Tail(frames) \in Seq(Frames)
        BY <1>2, <3>2
      <4>2. /\ <<g>> \o Tail(frames) \in Seq(Frames)
            /\ <<f, g>> \o Tail(frames) = <<f>> \o (<<g>> \o Tail(frames))
        BY <4>1, TwoBefore
      <4>3. QED
        BY <3>4, <4>2, Zenon
    <3>6. QED
      BY <3>2, <3>4, <3>5
  <2>3. QED
    BY <2>1, <2>2
<1>13. frames' \in Seq(Frames) /\ FramesOK(frames')
  <2>1. PICK y : y = Frame(s, same, TRUE)
    OBVIOUS
  <2>2. CASE less = {}
    <3>1. rest = same /\ Cardinality(less) = 0 /\ s = top.start
      BY <1>5, <1>11, <2>2, FS_EmptySet
    <3>2. frames' = <<y>> \o T
      BY <1>2, <1>9, <1>12, <2>1, <2>2, <1>8
    <3>3. f.start = s /\ f.members = same /\ y.start = s /\ y.members = same /\ y.equal = TRUE
      BY <1>10, <2>1, <3>1 DEF Frame
    <3>4. y \in Frames
      BY <1>12, <2>1, <3>3, FrameParts DEF Frame, Frames
    <3>5. FramesOK(<<y>> \o T)
      BY <1>6, <1>12, <3>3, <3>4, Relabelled
    <3>6. QED
      BY <1>12, <3>2, <3>4, <3>5
  <2>3. CASE less # {}
    <3>1. PICK g : g = Frame(top.start, less, FALSE)
      OBVIOUS
    <3>2. f.start = top.start /\ f.members = less \cup same
      BY <1>5, <1>10 DEF Frame
    <3>3. g \in Frames /\ y \in Frames /\ FramesOK(<<g, y>> \o T)
      <4>1. g = Frame(f.start, less, FALSE) /\ y = Frame(f.start + Cardinality(less), same, TRUE)
        BY <2>1, <3>1, <3>2
      <4>2. QED
        BY <1>6, <1>7, <1>12, <2>3, <3>2, <4>1, Parted
    <3>4. frames' = <<g, y>> \o T
      <4>1. frames' = <<g>> \o <<y>> \o M \o Tail(frames)
        BY <1>9, <2>1, <2>3, <3>1
      <4>2. M \in Seq(Frames)
        BY <1>12
      <4>3. PICK N, U : N = M /\ U = Tail(frames)
        OBVIOUS
      <4>4. <<g>> \o <<y>> = <<g, y>>
        BY <3>3, Two
      <4>5. <<g, y>> \o N \o U = <<g, y>> \o (N \o U)
        <5>1. PICK P : P = <<g, y>>
          OBVIOUS
        <5>2. P \in Seq(Frames) /\ N \in Seq(Frames) /\ U \in Seq(Frames)
          BY <1>2, <3>3, <4>2, <4>3, <5>1
        <5>3. P \o N \o U = P \o (N \o U)
          BY <5>2
        <5>4. QED
          BY <5>1, <5>3
      <4>6. QED
        BY <4>1, <4>3, <4>4, <4>5, <1>8
    <3>5. QED
      BY <1>12, <3>3, <3>4
  <2>4. QED
    BY <2>2, <2>3
<1>14. UNCHANGED <<old, V, sorted, head, h, i>>
  BY DEF Partition
<1>15. frames' # <<>>
  BY <1>2, <1>9, <1>12, <1>13, <1>8
<1>16. FramesOK(frames)'
  <2>1. \A fs, j : Below(fs, j)' = Below(fs, j)
    BY <1>14, SameOrder DEF Below
  <2>2. QED
    BY <1>13, <1>14, <2>1, SameOrder DEF FramesOK
<1>17. (SortTypes /\ PlacesOK /\ SortedOK /\ RoundOK /\ Ranked)'
  <2>1. SortTypes'
    BY <1>13, <1>14, SameOrder DEF SortInv, SortTypes, Frames
  <2>2. PlacesOK' /\ Ranked'
    BY <1>14, SameOrder DEF SortInv, PlacesOK, Ranked
  <2>3. \A k : Splitting(k)' <=> Splitting(k)
    BY <1>1, <1>14, <1>15 DEF Splitting
  <2>4. SortedOK' /\ RoundOK'
    BY <1>14, <2>3, SameOrder DEF SortInv, SortedOK, RoundOK
  <2>5. QED
    BY <2>1, <2>2, <2>4
<1>18. QED
  BY <1>16, <1>17 DEF SortInv

\* What the sort knows when no group is being split
LEMMA Idle ==
  ASSUME SortInv, frames = <<>>
  PROVE  /\ old \in Olds /\ oldsize \in Nat /\ Suffixes = 0 .. oldsize
         /\ \A k \in Suffixes : V[k] \in 0 .. oldsize /\ Cardinality(UpTo(V[k])) = V[k] + 1
         /\ h \in Nat /\ h >= 1 /\ i \in 0 .. oldsize + 1 /\ Cardinality(Under(i)) = i
         /\ sorted \subseteq 0 .. oldsize
         /\ \A s \in sorted : \E k \in Suffixes : V[k] = s /\ Alone(k)
         /\ \A k \in Suffixes : Alone(k) /\ V[k] \notin sorted => V[k] >= i /\ h = 1 /\ k < oldsize
         /\ \A a, b \in Suffixes : a # b /\ V[a] = V[b] /\ V[a] < i => SameStart(a, b, h + h)
<1>1. old \in Olds /\ V \in [Suffixes -> Suffixes] /\ sorted \subseteq Suffixes
      /\ h \in Nat \ {0} /\ i \in 0 .. oldsize + 1
  BY DEF SortInv, SortTypes
<1>2. oldsize \in Nat /\ Suffixes = 0 .. oldsize
  BY <1>1, OldFinite DEF Suffixes
<1>3. \A k \in Suffixes : ~Splitting(k)
  BY DEF Splitting
<1>4. \A k \in Suffixes : V[k] \in 0 .. oldsize /\ Cardinality(UpTo(V[k])) = V[k] + 1
  BY <1>1, <1>2 DEF SortInv, PlacesOK
<1>5. Cardinality(Under(i)) = i /\ \A s \in sorted : \E k \in Suffixes : V[k] = s /\ Alone(k)
  BY DEF SortInv, PlacesOK, SortedOK
<1>6. \A k \in Suffixes : Alone(k) /\ V[k] \notin sorted => V[k] >= i /\ h = 1 /\ k < oldsize
  BY <1>3 DEF SortInv, SortedOK
<1>7. \A a, b \in Suffixes : a # b /\ V[a] = V[b] /\ V[a] < i => SameStart(a, b, h + h)
  BY <1>3 DEF SortInv, RoundOK
<1>8. QED
  BY <1>1, <1>2, <1>4, <1>5, <1>6, <1>7

LEMMA SkipKeeps ==
  ASSUME SortInv, Skip
  PROVE  SortInv'
<1>1. frames = <<>> /\ i \in sorted /\ UNCHANGED <<old, V, sorted, h, frames>>
      /\ head' = IF i = 0 THEN i' ELSE head
  BY DEF Skip
<1>2. /\ oldsize \in Nat /\ Suffixes = 0 .. oldsize
      /\ \A k \in Suffixes : V[k] \in 0 .. oldsize /\ Cardinality(UpTo(V[k])) = V[k] + 1
      /\ i \in 0 .. oldsize + 1 /\ sorted \subseteq 0 .. oldsize
      /\ \A s \in sorted : \E k \in Suffixes : V[k] = s /\ Alone(k)
      /\ \A k \in Suffixes : Alone(k) /\ V[k] \notin sorted => V[k] >= i /\ h = 1 /\ k < oldsize
      /\ \A a, b \in Suffixes : a # b /\ V[a] = V[b] /\ V[a] < i => SameStart(a, b, h + h)
  BY <1>1, Idle
<1>3. PICK S : S = {k \in i .. oldsize + 1 : k \notin sorted}
  OBVIOUS
<1>4. i' \in S /\ \A k \in S : i' <= k
  <2>1. S \in SUBSET Nat /\ oldsize + 1 \in S
    BY <1>2, <1>3
  <2>2. i' = Smallest(S)
    BY <1>3 DEF Skip
  <2>3. QED
    BY <2>1, <2>2, SmallestInSet
<1>5. PICK j : j = i'
  OBVIOUS
<1>6. j \in i + 1 .. oldsize + 1 /\ \A k \in i .. j - 1 : k \in sorted
  <2>1. i \in Nat /\ oldsize \in Nat /\ i \in sorted
    BY <1>1, <1>2
  <2>2. j \in S /\ \A k \in S : j <= k
    BY <1>4, <1>5
  <2>3. j \in i .. oldsize + 1 /\ j \notin sorted
    BY <1>3, <2>2
  <2>4. ASSUME NEW k \in i .. j - 1, k \notin sorted PROVE FALSE
    <3>1. k \in S
      BY <1>3, <2>1, <2>3, <2>4
    <3>2. QED
      BY <2>1, <2>2, <2>3, <3>1
  <2>5. QED
    BY <2>1, <2>3, <2>4
<1>7. Cardinality(Under(j)) = j
  <2>1. j - 1 \in sorted
    BY <1>2, <1>6
  <2>2. PICK k \in Suffixes : V[k] = j - 1
    BY <1>2, <2>1
  <2>3. Under(j) = UpTo(V[k])
    <3>1. \A x \in Suffixes : V[x] \in Nat
      BY <1>2
    <3>2. j \in Nat
      BY <1>2, <1>6
    <3>3. \A x \in Suffixes : V[x] < j <=> V[x] <= V[k]
      BY <2>2, <3>1, <3>2
    <3>4. QED
      BY <3>3 DEF Under, UpTo
  <2>4. QED
    BY <1>2, <1>6, <2>2, <2>3
<1>8. head' \in 1 .. oldsize + 1 /\ \A s \in 0 .. head' - 1 : s \in sorted
  <2>1. CASE i = 0
    <3>1. head' = j
      BY <1>1, <1>5, <2>1
    <3>2. QED
      BY <1>2, <1>6, <2>1, <3>1
  <2>2. CASE i # 0
    BY <1>1, <2>2 DEF SortInv, SortTypes, SortedOK
  <2>3. QED
    BY <2>1, <2>2
<1>9. \A k \in Suffixes : Alone(k) /\ V[k] \notin sorted => V[k] >= j /\ h = 1 /\ k < oldsize
  BY <1>2, <1>6
<1>10. ASSUME NEW a \in Suffixes, NEW b \in Suffixes, a # b, V[a] = V[b], V[a] < j
       PROVE  SameStart(a, b, h + h)
  <2>1. V[a] \notin sorted
    BY <1>2, <1>10 DEF Alone
  <2>2. QED
    BY <1>2, <1>6, <1>10, <2>1
<1>11. SortTypes'
  <2>1. i' \in 0 .. oldsize + 1
    BY <1>2, <1>5, <1>6
  <2>2. QED
    BY <1>1, <1>8, <2>1, SameOrder DEF SortInv, SortTypes, Frames
<1>12. PlacesOK' /\ Ranked'
  <2>1. (Cardinality(Under(i)) = i)'
    <3>1. Under(i)' = Under(j)
      BY <1>1, <1>5, SameOrder DEF Under
    <3>2. QED
      BY <1>5, <1>7, <3>1
  <2>2. (\A k \in Suffixes : Cardinality(UpTo(V[k])) = V[k] + 1)'
    BY <1>1, SameOrder DEF SortInv, PlacesOK
  <2>3. Ranked'
    BY <1>1, SameOrder DEF SortInv, Ranked
  <2>4. QED
    BY <2>1, <2>2, <2>3 DEF PlacesOK
<1>13. FramesOK(frames)'
  BY <1>1 DEF FramesOK
<1>14. SortedOK'
  <2>1. (\A s \in sorted : \E k \in Suffixes : V[k] = s /\ Alone(k))'
    BY <1>1, <1>2, SameOrder
  <2>2. (\A s \in 0 .. head - 1 : s \in sorted)'
    BY <1>1, <1>8
  <2>3. (\A k \in Suffixes : Alone(k) /\ V[k] \notin sorted => Splitting(k) \/ (V[k] >= i /\ h = 1 /\ k < oldsize))'
    BY <1>1, <1>5, <1>9, SameOrder
  <2>4. QED
    BY <2>1, <2>2, <2>3 DEF SortedOK
<1>15. RoundOK'
  BY <1>1, <1>5, <1>10, SameOrder DEF RoundOK
<1>16. QED
  BY <1>11, <1>12, <1>13, <1>14, <1>15 DEF SortInv

LEMMA SplitGroupKeeps ==
  ASSUME SortInv, SplitGroup
  PROVE  SortInv'
<1>1. frames = <<>> /\ i <= oldsize /\ i \notin sorted /\ UNCHANGED <<old, V, sorted, head, h>>
  BY DEF SplitGroup
<1>2. /\ old \in Olds /\ oldsize \in Nat /\ Suffixes = 0 .. oldsize
      /\ \A k \in Suffixes : V[k] \in 0 .. oldsize /\ Cardinality(UpTo(V[k])) = V[k] + 1
      /\ h \in Nat /\ h >= 1 /\ i \in 0 .. oldsize + 1 /\ Cardinality(Under(i)) = i
      /\ \A s \in sorted : \E k \in Suffixes : V[k] = s /\ Alone(k)
      /\ \A k \in Suffixes : Alone(k) /\ V[k] \notin sorted => V[k] >= i /\ h = 1 /\ k < oldsize
      /\ \A a, b \in Suffixes : a # b /\ V[a] = V[b] /\ V[a] < i => SameStart(a, b, h + h)
  BY <1>1, Idle
<1>3. PICK S : S = {V[k] : k \in Suffixes} \cap (i .. oldsize)
  OBVIOUS
<1>4. PICK last : last = Smallest(S)
  OBVIOUS
<1>5. PICK mem : mem = {k \in Suffixes : V[k] = last}
  OBVIOUS
<1>6. last \in S /\ \A v \in S : last <= v
  <2>1. S \in SUBSET Nat
    BY <1>2, <1>3
  <2>2. S # {}
    <3>1. SUFFICES ASSUME S = {} PROVE FALSE
      OBVIOUS
    <3>2. Under(i) = Suffixes
      <4>1. ASSUME NEW k \in Suffixes PROVE V[k] < i
        <5>1. V[k] \notin i .. oldsize
          BY <1>3, <3>1
        <5>2. V[k] \in 0 .. oldsize /\ i \in Nat /\ oldsize \in Nat
          BY <1>2
        <5>3. QED
          BY <5>1, <5>2
      <4>2. QED
        BY <4>1 DEF Under
    <3>3. Cardinality(Suffixes) = oldsize + 1
      BY <1>2, OldFinite
    <3>4. QED
      BY <1>1, <1>2, <3>2, <3>3
  <2>3. QED
    BY <1>4, <2>1, <2>2, SmallestInSet
<1>7. last \in i .. oldsize /\ mem # {} /\ mem \in SUBSET Suffixes
  BY <1>3, <1>5, <1>6
<1>8. \A k \in Suffixes : V[k] < i \/ V[k] >= last
  BY <1>2, <1>3, <1>6
<1>9. PICK f : f = Frame(i, mem, FALSE)
  OBVIOUS
<1>10. frames' = <<f>> /\ i' = last + 1
  BY <1>3, <1>4, <1>5, <1>9 DEF SplitGroup
<1>11. f \in Frames /\ f.start = i /\ f.members = mem /\ f.equal = FALSE
  <2>1. i \in Suffixes
    BY <1>1, <1>2
  <2>2. QED
    BY <1>7, <1>9, <2>1 DEF Frame, Frames
<1>12. Under(last) = Under(i) /\ UpTo(last) = Under(i) \cup mem /\ Under(i) \cap mem = {}
  <2>1. \A k \in Suffixes : V[k] \in Nat
    BY <1>2
  <2>2. i \in Nat /\ last \in Nat /\ i <= last
    BY <1>2, <1>7
  <2>3. \A k \in Suffixes : (V[k] < i <=> V[k] < last) /\ (V[k] <= last <=> V[k] < i \/ V[k] = last)
    BY <1>8, <2>1, <2>2
  <2>4. QED
    BY <1>5, <2>1, <2>2, <2>3 DEF Under, UpTo
<1>13. Cardinality(UpTo(last)) = last + 1
  BY <1>2, <1>5, <1>7
<1>14. last \notin sorted
  <2>1. SUFFICES ASSUME last \in sorted PROVE FALSE
    OBVIOUS
  <2>2. PICK k \in Suffixes : V[k] = last /\ Alone(k)
    BY <1>2, <2>1
  <2>3. mem = {k}
    BY <1>5, <2>2 DEF Alone
  <2>4. Cardinality(mem) = 1
    BY <2>3, FS_Singleton
  <2>5. Cardinality(Under(i) \cup mem) = Cardinality(Under(i)) + Cardinality(mem)
    <3>1. Under(i) \in SUBSET Suffixes
      BY DEF Under
    <3>2. QED
      BY <1>2, <1>7, <1>12, <3>1, Together
  <2>6. i = last
    BY <1>2, <1>7, <1>12, <1>13, <2>4, <2>5
  <2>7. QED
    BY <1>1, <2>1, <2>6
<1>15. \A k \in mem : k + h <= oldsize
  <2> SUFFICES ASSUME NEW k \in mem PROVE k + h <= oldsize
    OBVIOUS
  <2>1. k \in Suffixes /\ V[k] = last
    BY <1>5
  <2>2. CASE Alone(k)
    BY <1>2, <1>14, <2>1, <2>2
  <2>3. CASE ~Alone(k)
    <3>1. PICK b \in Suffixes : V[k] = V[b] /\ k # b
      BY <2>3 DEF Alone
    <3>2. SameStart(k, b, h)
      BY <2>1, <3>1 DEF SortInv, Ranked
    <3>3. h - 1 \in 0 .. h - 1
      BY <1>2
    <3>4. k + (h - 1) < oldsize
      BY <3>2, <3>3 DEF SameStart
    <3>5. QED
      BY <1>2, <2>1, <3>4
  <2>4. QED
    BY <2>2, <2>3
<1>16. SortTypes'
  <2>1. frames' \in Seq(Frames)
    BY <1>10, <1>11
  <2>2. i' \in 0 .. oldsize + 1
    BY <1>2, <1>7, <1>10
  <2>3. QED
    BY <1>1, <2>1, <2>2, SameOrder DEF SortInv, SortTypes, Frames
<1>17. PlacesOK' /\ Ranked'
  <2>1. (Cardinality(Under(i)) = i)'
    <3>1. Under(i)' = UpTo(last)
      <4>1. Under(i)' = Under(last + 1)
        BY <1>1, <1>10, SameOrder DEF Under
      <4>2. last \in Nat /\ \A k \in Suffixes : V[k] \in Nat
        BY <1>2, <1>7
      <4>3. \A k \in Suffixes : V[k] < last + 1 <=> V[k] <= last
        BY <4>2
      <4>4. QED
        BY <4>1, <4>3 DEF Under, UpTo
    <3>2. QED
      BY <1>10, <1>13, <3>1
  <2>2. (\A k \in Suffixes : Cardinality(UpTo(V[k])) = V[k] + 1)'
    BY <1>1, SameOrder DEF SortInv, PlacesOK
  <2>3. Ranked'
    BY <1>1, SameOrder DEF SortInv, Ranked
  <2>4. QED
    BY <2>1, <2>2, <2>3 DEF PlacesOK
<1>18. i' - 1 = last
  BY <1>7, <1>10, <1>2
<1>19. FramesOK(frames)'
  <2>1. DOMAIN frames' = {1} /\ frames'[1] = f /\ frames' # <<>>
    BY <1>10
  <2>2. (Below(frames, 1))' = Under(last)
    <3>1. \A k : ~ \E l \in 1 .. 1 - 1 : k \in frames'[l].members
      OBVIOUS
    <3>2. QED
      BY <1>1, <1>18, <3>1, SameOrder DEF Below, Under
  <2>3. (i - 1 \in Suffixes \ sorted)'
    BY <1>1, <1>2, <1>7, <1>14, <1>18, SameOrder
  <2>4. (\A k \in Suffixes : V[k] = i - 1 <=> \E j \in DOMAIN frames : k \in frames[j].members)'
    BY <1>1, <1>5, <1>11, <1>18, <2>1, SameOrder
  <2>5. (\A j \in DOMAIN frames :
           /\ frames[j].start = Cardinality(Below(frames, j))
           /\ \A k \in frames[j].members : k + h <= oldsize
           /\ frames[j].equal => \A a, b \in frames[j].members : a # b => SameStart(a, b, h + h))'
    BY <1>1, <1>2, <1>11, <1>12, <1>15, <2>1, <2>2, SameOrder
  <2>6. (\A j, l \in DOMAIN frames : j < l =>
           \A a \in frames[j].members, b \in frames[l].members : a # b /\ Before(a, b))'
    BY <2>1
  <2>7. QED
    BY <2>3, <2>4, <2>5, <2>6 DEF FramesOK
<1>20. \A k \in Suffixes : Splitting(k)' <=> V[k] = last
  BY <1>1, <1>10, <1>18 DEF Splitting
<1>21. SortedOK'
  <2>1. (\A s \in sorted : \E k \in Suffixes : V[k] = s /\ Alone(k))'
    BY <1>1, <1>2, SameOrder
  <2>2. (\A s \in 0 .. head - 1 : s \in sorted)'
    BY <1>1 DEF SortInv, SortedOK
  <2>3. ASSUME NEW k \in Suffixes, Alone(k), V[k] \notin sorted
        PROVE  V[k] = last \/ (V[k] >= last + 1 /\ h = 1 /\ k < oldsize)
    BY <1>2, <1>7, <1>8, <2>3
  <2>4. (\A k \in Suffixes : Alone(k) /\ V[k] \notin sorted => Splitting(k) \/ (V[k] >= i /\ h = 1 /\ k < oldsize))'
    BY <1>1, <1>10, <1>20, <2>3, SameOrder
  <2>5. QED
    BY <2>1, <2>2, <2>4 DEF SortedOK
<1>22. RoundOK'
  <2>1. ASSUME NEW a \in Suffixes, NEW b \in Suffixes, a # b, V[a] = V[b], V[a] < last + 1
        PROVE  V[a] = last \/ SameStart(a, b, h + h)
    <3>1. last \in Nat /\ V[a] \in Nat
      BY <1>2, <1>7
    <3>2. V[a] = last \/ V[a] < i
      BY <1>8, <2>1, <3>1
    <3>3. QED
      BY <1>2, <2>1, <3>2
  <2>2. QED
    BY <1>1, <1>10, <1>20, <2>1, SameOrder DEF RoundOK
<1>23. QED
  BY <1>16, <1>17, <1>19, <1>21, <1>22 DEF SortInv

LEMMA NextRoundKeeps ==
  ASSUME SortInv, NextRound
  PROVE  SortInv'
<1>1. frames = <<>> /\ i = oldsize + 1 /\ h' = h + h /\ i' = 0 /\ UNCHANGED <<old, V, sorted, head, frames>>
  BY DEF NextRound
<1>2. /\ oldsize \in Nat /\ Suffixes = 0 .. oldsize
      /\ \A k \in Suffixes : V[k] \in 0 .. oldsize
      /\ h \in Nat /\ h >= 1
      /\ \A k \in Suffixes : Alone(k) /\ V[k] \notin sorted => V[k] >= i /\ h = 1 /\ k < oldsize
      /\ \A a, b \in Suffixes : a # b /\ V[a] = V[b] /\ V[a] < i => SameStart(a, b, h + h)
  BY <1>1, Idle
<1>3. SortTypes'
  BY <1>1, <1>2, SameOrder DEF SortInv, SortTypes, Frames
<1>4. PlacesOK'
  <2>1. (Cardinality(Under(i)) = i)'
    <3>1. Under(i)' = {}
      BY <1>1, <1>2, SameOrder DEF Under
    <3>2. QED
      BY <1>1, <3>1, FS_EmptySet
  <2>2. (\A k \in Suffixes : Cardinality(UpTo(V[k])) = V[k] + 1)'
    BY <1>1, SameOrder DEF SortInv, PlacesOK
  <2>3. QED
    BY <2>1, <2>2 DEF PlacesOK
<1>5. FramesOK(frames)'
  BY <1>1 DEF FramesOK
<1>6. SortedOK'
  <2>1. (\A s \in sorted : \E k \in Suffixes : V[k] = s /\ Alone(k))'
    BY <1>1, SameOrder DEF SortInv, SortedOK
  <2>2. (\A s \in 0 .. head - 1 : s \in sorted)'
    BY <1>1 DEF SortInv, SortedOK
  <2>3. \A k \in Suffixes : ~(Alone(k) /\ V[k] \notin sorted)
    BY <1>1, <1>2
  <2>4. (\A k \in Suffixes : ~(Alone(k) /\ V[k] \notin sorted))'
    BY <1>1, <2>3, SameOrder
  <2>5. QED
    BY <2>1, <2>2, <2>4 DEF SortedOK
<1>7. RoundOK'
  BY <1>1, <1>2, SameOrder DEF RoundOK
<1>8. Ranked'
  BY <1>1, <1>2, SameOrder DEF SortInv, Ranked
<1>9. QED
  BY <1>3, <1>4, <1>5, <1>6, <1>7, <1>8 DEF SortInv

LEMMA SortStarts ==
  ASSUME SortInit
  PROVE  SortInv
<1>1. /\ old \in Olds /\ head = 1 /\ h = 1 /\ i = 0 /\ frames = <<>>
      /\ V = [k \in Suffixes |-> IF k = oldsize THEN 0 ELSE Bucket(old, old[k])]
      /\ sorted = {0} \cup {V[k] : k \in {x \in DOMAIN old : old[x] > 0 /\ \A y \in DOMAIN old : old[y] = old[x] => y = x}}
  BY DEF SortInit
<1>2. /\ oldsize \in Nat /\ Suffixes = 0 .. oldsize /\ DOMAIN old = 0 .. oldsize - 1
      /\ \A k \in 0 .. oldsize - 1 : old[k] \in Nat
  BY <1>1, OldFinite DEF Suffixes
<1> DEFINE D == 0 .. oldsize - 1
           Low(c) == {k \in D : old[k] <= c}
<1>3. D \in SUBSET Suffixes /\ oldsize \in Suffixes /\ oldsize \notin D /\ \A k \in Suffixes : k # oldsize => k \in D
  BY <1>2
<1>4. V[oldsize] = 0 /\ \A k \in D : V[k] = Cardinality(Low(old[k]))
  BY <1>1, <1>2, <1>3 DEF Bucket
<1>5. \A c : Low(c) \in SUBSET Suffixes /\ Low(c) \in SUBSET D
  BY <1>3
<1>6. Cardinality(D) = oldsize
  <2>1. IsFiniteSet(0 .. oldsize - 1)
        /\ Cardinality(0 .. oldsize - 1) = IF 0 > oldsize - 1 THEN 0 ELSE (oldsize - 1) - 0 + 1
    BY <1>2, FS_Interval
  <2>2. QED
    BY <1>2, <2>1
<1>7. ASSUME NEW k \in D PROVE V[k] \in 1 .. oldsize /\ k \in Low(old[k])
  <2>1. k \in Low(old[k])
    BY <1>2
  <2>2. Cardinality(Low(old[k])) \in 0 .. oldsize + 1 /\ Cardinality(Low(old[k])) # 0
    BY <1>1, <1>5, <2>1, Sizes
  <2>3. Cardinality(Low(old[k])) <= Cardinality(D)
    BY <1>1, <1>3, <1>5, Sizes
  <2>4. QED
    BY <1>2, <1>4, <1>6, <2>1, <2>2, <2>3
<1>8. ASSUME NEW a \in D, NEW b \in D, old[a] < old[b] PROVE V[a] < V[b]
  <2>1. Low(old[a]) \subseteq Low(old[b]) /\ b \in Low(old[b]) /\ b \notin Low(old[a])
    BY <1>2, <1>8
  <2>2. /\ Cardinality(Low(old[a])) <= Cardinality(Low(old[b]))
        /\ Cardinality(Low(old[a])) # Cardinality(Low(old[b]))
    BY <1>1, <1>5, <2>1, Sizes
  <2>3. V[a] \in Nat /\ V[b] \in Nat
    BY <1>7
  <2>4. QED
    BY <1>4, <2>2, <2>3
<1> HIDE DEF D, Low
<1>9. \A a, b \in D : old[a] = old[b] => V[a] = V[b]
  BY <1>4
<1>10. \A k \in D : old[k] \in Nat
  BY <1>2 DEF D
<1>11. \A a, b \in D : /\ V[a] < V[b] <=> old[a] < old[b]
                       /\ V[a] <= V[b] <=> old[a] <= old[b]
                       /\ V[a] = V[b] <=> old[a] = old[b]
  <2> SUFFICES ASSUME NEW a \in D, NEW b \in D
               PROVE  /\ V[a] < V[b] <=> old[a] < old[b]
                      /\ V[a] <= V[b] <=> old[a] <= old[b]
                      /\ V[a] = V[b] <=> old[a] = old[b]
    OBVIOUS
  <2>1. V[a] \in Nat /\ V[b] \in Nat
    BY <1>7
  <2>2. old[a] \in Nat /\ old[b] \in Nat
    BY <1>10
  <2>3. old[a] < old[b] => V[a] < V[b]
    BY <1>8
  <2>4. old[b] < old[a] => V[b] < V[a]
    BY <1>8
  <2>5. old[a] = old[b] => V[a] = V[b]
    BY <1>9
  <2>6. QED
    BY <2>1, <2>2, <2>3, <2>4, <2>5
<1>12. V \in [Suffixes -> Suffixes]
  <2>1. ASSUME NEW k \in Suffixes PROVE V[k] \in Suffixes
    BY <1>2, <1>3, <1>4, <1>7
  <2>2. QED
    BY <1>1, <2>1
<1>13. SortTypes
  <2>1. sorted \subseteq Suffixes
    BY <1>1, <1>2, <1>3, <1>12 DEF D
  <2>2. head \in 1 .. oldsize + 1 /\ i \in 0 .. oldsize + 1 /\ h \in Nat \ {0}
    BY <1>1, <1>2
  <2>3. QED
    BY <1>1, <1>12, <2>1, <2>2 DEF SortTypes
<1>14. PlacesOK
  <2>1. ASSUME NEW k \in Suffixes PROVE Cardinality(UpTo(V[k])) = V[k] + 1
    <3>1. CASE k = oldsize
      <4>1. UpTo(V[k]) = {oldsize}
        <5>1. \A x \in D : ~(V[x] <= 0)
          BY <1>7
        <5>2. QED
          BY <1>3, <1>4, <3>1, <5>1 DEF UpTo
      <4>2. Cardinality({oldsize}) = 1
        BY FS_Singleton
      <4>3. QED
        BY <1>4, <3>1, <4>1, <4>2
    <3>2. CASE k # oldsize
      <4>1. k \in D /\ V[k] \in 1 .. oldsize
        BY <1>3, <1>7, <3>2
      <4>2. 0 <= V[k]
        BY <4>1
      <4>3. UpTo(V[k]) = Low(old[k]) \cup {oldsize} /\ Low(old[k]) \cap {oldsize} = {}
        BY <1>3, <1>4, <1>11, <4>1, <4>2 DEF UpTo, Low
      <4>4. Cardinality(Low(old[k]) \cup {oldsize}) = Cardinality(Low(old[k])) + Cardinality({oldsize})
        BY <1>1, <1>3, <1>5, <4>3, Together
      <4>5. Cardinality({oldsize}) = 1
        BY FS_Singleton
      <4>6. QED
        BY <1>4, <4>1, <4>3, <4>4, <4>5
    <3>3. QED
      BY <3>1, <3>2
  <2>2. Cardinality(Under(i)) = i
    <3>1. \A k \in Suffixes : V[k] \in 0 .. oldsize
      BY <1>2, <1>12
    <3>2. Under(i) = {}
      BY <1>1, <1>2, <3>1 DEF Under
    <3>3. QED
      BY <1>1, <3>2, FS_EmptySet
  <2>3. QED
    BY <2>1, <2>2 DEF PlacesOK
<1>15. FramesOK(frames)
  BY <1>1 DEF FramesOK
<1>16. \A k \in D : V[k] # V[oldsize] /\ ~(V[k] < V[oldsize])
  BY <1>4, <1>7
<1>17. SortedOK
  <2>1. ASSUME NEW s \in sorted PROVE \E k \in Suffixes : V[k] = s /\ Alone(k)
    <3>1. CASE s = 0
      <4>1. Alone(oldsize)
        BY <1>3, <1>16 DEF Alone
      <4>2. QED
        BY <1>3, <1>4, <3>1, <4>1
    <3>2. CASE s # 0
      <4>1. PICK k \in D : V[k] = s /\ \A y \in D : old[y] = old[k] => y = k
        BY <1>1, <1>2, <2>1, <3>2 DEF D
      <4>2. Alone(k)
        BY <1>3, <1>11, <1>16, <4>1 DEF Alone
      <4>3. QED
        BY <1>3, <4>1, <4>2
    <3>3. QED
      BY <3>1, <3>2
  <2>2. \A s \in 0 .. head - 1 : s \in sorted
    BY <1>1
  <2>3. ASSUME NEW k \in Suffixes, V[k] \notin sorted PROVE V[k] >= i /\ h = 1 /\ k < oldsize
    <3>1. k # oldsize
      BY <1>1, <1>4, <2>3
    <3>2. k \in D /\ V[k] \in 1 .. oldsize
      BY <1>3, <1>7, <3>1
    <3>3. k < oldsize
      BY <1>2, <3>2 DEF D
    <3>4. QED
      BY <1>1, <3>2, <3>3
  <2>4. QED
    BY <2>1, <2>2, <2>3 DEF SortedOK
<1>18. RoundOK
  <2>1. \A k \in Suffixes : V[k] \in 0 .. oldsize
    BY <1>2, <1>12
  <2>2. \A k \in Suffixes : ~(V[k] < i)
    BY <1>1, <2>1
  <2>3. QED
    BY <2>2 DEF RoundOK
<1>19. Ranked
  <2> SUFFICES ASSUME NEW a \in Suffixes, NEW b \in Suffixes
               PROVE  /\ V[a] < V[b] => Before(a, b)
                      /\ a # b /\ V[a] = V[b] => SameStart(a, b, h)
    BY DEF Ranked
  <2>1. ASSUME V[a] < V[b] PROVE Before(a, b)
    <3>1. b \in D
      <4>1. V[a] \in 0 .. oldsize
        BY <1>2, <1>12
      <4>2. ~(V[a] < 0)
        BY <4>1
      <4>3. QED
        BY <1>3, <1>4, <2>1, <4>2
    <3>2. 0 \in 0 .. oldsize - b - 1 /\ b + 0 = b /\ a + 0 = a
      BY <1>2, <3>1 DEF D
    <3>3. a = oldsize \/ old[a] < old[b]
      BY <1>3, <1>11, <2>1, <3>1
    <3>4. \A k \in 0 .. 0 - 1 : a + k < oldsize /\ old[a + k] = old[b + k]
      OBVIOUS
    <3>5. QED
      BY <3>2, <3>3, <3>4 DEF Before
  <2>2. ASSUME a # b, V[a] = V[b] PROVE SameStart(a, b, h)
    <3>1. a \in D /\ b \in D
      BY <1>3, <1>16, <2>2
    <3>2. old[a] = old[b]
      BY <1>11, <2>2, <3>1
    <3>3. a < oldsize /\ b < oldsize /\ a \in Nat /\ b \in Nat
      BY <1>2, <3>1 DEF D
    <3>4. \A k \in 0 .. h - 1 : k = 0
      BY <1>1
    <3>5. QED
      BY <3>2, <3>3, <3>4 DEF SameStart
  <2>3. QED
    BY <2>1, <2>2
<1>20. QED
  BY <1>13, <1>14, <1>15, <1>17, <1>18, <1>19 DEF SortInv

\* Whatever is the next step of the sort, and what leaves it alone
LEMMA SortKeeps ==
  ASSUME SortInv, SortNext \/ UNCHANGED sortVars
  PROVE  SortInv'
<1>1. CASE Skip
  BY <1>1, SkipKeeps
<1>2. CASE SplitGroup
  BY <1>2, SplitGroupKeeps
<1>3. CASE NextRound
  BY <1>3, NextRoundKeeps
<1>4. CASE Selection
  BY <1>4, SelectionKeeps
<1>5. CASE Partition
  BY <1>5, PartitionKeeps
<1>6. CASE Middle
  BY <1>6, MiddleKeeps
<1>7. CASE UNCHANGED sortVars
  <2>1. UNCHANGED <<old, V, sorted, head, h, i, frames>>
    BY <1>7 DEF sortVars
  <2>2. SortTypes'
    BY <2>1, SameOrder DEF SortInv, SortTypes, Frames
  <2>3. PlacesOK' /\ Ranked'
    BY <2>1, SameOrder DEF SortInv, PlacesOK, Ranked
  <2>4. \A k : Splitting(k)' <=> Splitting(k)
    BY <2>1 DEF Splitting
  <2>5. SortedOK' /\ RoundOK'
    BY <2>1, <2>4, SameOrder DEF SortInv, SortedOK, RoundOK
  <2>6. FramesOK(frames)'
    <3>1. \A fs, j : Below(fs, j)' = Below(fs, j)
      BY <2>1, SameOrder DEF Below
    <3>2. QED
      BY <2>1, <3>1, SameOrder DEF SortInv, FramesOK
  <2>7. QED
    BY <2>2, <2>3, <2>5, <2>6 DEF SortInv
<1>8. QED
  BY <1>1, <1>2, <1>3, <1>4, <1>5, <1>6, <1>7 DEF SortNext

LEMMA SortStep ==
  ASSUME [Next]_vars
  PROVE  SortNext \/ UNCHANGED sortVars
BY DEF Next, vars, Sort, ReadNew, Outer, Find, Score, InnerEnds, Extend, Divide, Emit

(***************************************************************************)
(* The sort never puts a suffix before one that is smaller, and suffixes   *)
(* that share a place agree in their first h bytes, whatever the old       *)
(* firmware, the pivots of split and the size from which a group is sorted *)
(* by selection, and although V is read while it is changed.               *)
(***************************************************************************)
THEOREM SortsRight == Spec => []Ranked
<1>1. Init => SortInv
  BY SortStarts DEF Init
<1>2. SortInv /\ [Next]_vars => SortInv'
  BY SortKeeps, SortStep
<1>3. SortInv => Ranked
  BY DEF SortInv
<1>4. QED
  BY <1>1, <1>2, <1>3, PTL DEF Spec

-----------------------------------------------------------------------------
(* The search.                                                             *)

\* Every place has been filled when the sort is at its end.
LEMMA PlacesFilled ==
  ASSUME SortInv, head = oldsize + 1
  PROVE  \A k \in Suffixes : I[k] \in Suffixes
<1>1. oldsize \in Nat
  BY OldFinite DEF SortInv, SortTypes
<1>2. \A k \in Suffixes : \E x \in Suffixes : V[x] = k
  BY <1>1 DEF SortInv, SortedOK, Suffixes
<1>3. QED
  BY <1>2 DEF I

LEMMA MatchInside ==
  ASSUME old \in Olds, newsize \in Nat, NEW p \in Suffixes, NEW scan \in 0 .. newsize
  PROVE  MatchLen(p, scan) \in 0 .. newsize - scan
<1>1. oldsize \in Nat /\ p \in 0 .. oldsize
  BY OldFinite DEF Suffixes
<1>2. PICK limit : limit = Shorter(oldsize - p, newsize - scan)
  OBVIOUS
<1>3. limit \in Nat /\ limit <= newsize - scan
  BY <1>1, <1>2 DEF Shorter
<1>4. PICK S : S = {n \in 0 .. limit : n = limit \/ old[p + n] # new[scan + n]}
  OBVIOUS
<1>5. S \in SUBSET Nat /\ limit \in S
  BY <1>3, <1>4
<1>6. Smallest(S) \in S
  BY <1>5, SmallestInSet
<1>7. MatchLen(p, scan) = Smallest(S)
  BY <1>2, <1>4 DEF MatchLen
<1>8. QED
  BY <1>3, <1>4, <1>6, <1>7

\* One step of the binary search.
Halve(find, scan, r) ==
  LET place == I
      st == r[1]
      en == r[2]
      x  == st + (en - st) \div 2
      lx == MatchLen(place[st], scan)
      ly == MatchLen(place[en], scan)
  IN  IF en - st < 2
        THEN IF lx > ly THEN [len |-> lx, pos |-> place[st]] ELSE [len |-> ly, pos |-> place[en]]
        ELSE IF Less(place[x], scan) THEN find[<<x, en>>] ELSE find[<<st, x>>]

Ranges == Suffixes \X Suffixes

LEMMA SearchIs ==
  ASSUME NEW scan
  PROVE  Search(scan) = (CHOOSE find : find = [r \in Ranges |-> Halve(find, scan, r)])[<<0, oldsize>>]
BY DEF Search, Halve, Ranges

\* A step looks only at smaller ranges.
LEMMA Halves ==
  ASSUME old \in Olds, NEW st \in Suffixes, NEW en \in Suffixes, en - st >= 2
  PROVE  LET x == st + (en - st) \div 2
         IN  x \in Suffixes /\ en - x < en - st /\ x - st < en - st
<1>1. oldsize \in Nat /\ st \in 0 .. oldsize /\ en \in 0 .. oldsize
  BY OldFinite DEF Suffixes
<1>2. QED
  BY <1>1 DEF Suffixes

LEMMA StepUp ==
  ASSUME old \in Olds, NEW scan, NEW n \in Nat, NEW f,
         \A q \in Ranges : q[2] - q[1] <= n => f[q] = Halve(f, scan, q)
  PROVE  \E g : \A r \in Ranges : r[2] - r[1] <= n + 1 => g[r] = Halve(g, scan, r)
<1>1. PICK g : g = [r \in Ranges |-> Halve(f, scan, r)]
  OBVIOUS
<1>2. \A r \in Ranges : g[r] = Halve(f, scan, r)
  BY <1>1
<1>3. \A q \in Ranges : q[2] - q[1] <= n => g[q] = f[q]
  BY <1>2
<1>4. ASSUME NEW r \in Ranges, r[2] - r[1] <= n + 1 PROVE g[r] = Halve(g, scan, r)
  <2>1. PICK st \in Suffixes, en \in Suffixes : r = <<st, en>>
    BY DEF Ranges
  <2>2. oldsize \in Nat /\ st \in 0 .. oldsize /\ en \in 0 .. oldsize
    BY OldFinite DEF Suffixes
  <2>3. CASE en - st < 2
    BY <1>2, <2>1, <2>3 DEF Halve
  <2>4. CASE ~(en - st < 2)
    <3>1. PICK x : x = st + (en - st) \div 2
      OBVIOUS
    <3>2. x \in Suffixes /\ en - x < en - st /\ x - st < en - st
      BY <2>2, <2>4, <3>1, Halves
    <3>3. x \in Int
      BY <2>2, <3>2 DEF Suffixes
    <3>4. <<x, en>> \in Ranges /\ <<st, x>> \in Ranges
      BY <3>2 DEF Ranges
    <3>5. en - x <= n /\ x - st <= n
      BY <1>4, <2>1, <2>2, <3>2, <3>3
    <3>6. g[<<x, en>>] = f[<<x, en>>] /\ g[<<st, x>>] = f[<<st, x>>]
      BY <1>3, <3>4, <3>5
    <3>7. Halve(f, scan, r) = Halve(g, scan, r)
      BY <2>1, <3>1, <3>6 DEF Halve
    <3>8. QED
      BY <1>2, <3>7
  <2>5. QED
    BY <2>3, <2>4
<1>5. QED
  BY <1>4

LEMMA SearchDefined ==
  ASSUME old \in Olds, NEW scan
  PROVE  \E f : /\ Search(scan) = f[<<0, oldsize>>]
                /\ \A r \in Ranges : f[r] = Halve(f, scan, r)
<1>1. oldsize \in Nat /\ Suffixes = 0 .. oldsize
  BY OldFinite DEF Suffixes
<1>2. PICK S : S = {n \in Nat : \E f : \A r \in Ranges : r[2] - r[1] <= n => f[r] = Halve(f, scan, r)}
  OBVIOUS
<1>3. 0 \in S
  <2>1. PICK f : f = [r \in Ranges |-> Halve(r, scan, r)]
    OBVIOUS
  <2>2. ASSUME NEW r \in Ranges, r[2] - r[1] <= 0 PROVE f[r] = Halve(f, scan, r)
    <3>1. r[1] \in Int /\ r[2] \in Int
      BY <1>1 DEF Ranges
    <3>2. r[2] - r[1] < 2
      BY <2>2, <3>1
    <3>3. QED
      BY <2>1, <3>2 DEF Halve
  <2>3. QED
    BY <1>2, <2>2
<1>4. ASSUME NEW n \in 0 .. oldsize - 1, n \in S PROVE n + 1 \in S
  <2>1. PICK f : \A r \in Ranges : r[2] - r[1] <= n => f[r] = Halve(f, scan, r)
    BY <1>2, <1>4
  <2>2. n \in Nat
    OBVIOUS
  <2>3. \E g : \A r \in Ranges : r[2] - r[1] <= n + 1 => g[r] = Halve(g, scan, r)
    BY <2>1, <2>2, StepUp
  <2>4. QED
    BY <1>2, <2>2, <2>3
<1>5. oldsize \in S
  <2>1. S \in SUBSET Nat
    BY <1>2
  <2>2. \A n \in 0 .. oldsize : n \in S
    BY <1>1, <1>3, <1>4, <2>1, Counting
  <2>3. QED
    BY <1>1, <2>2
<1>6. PICK f : \A r \in Ranges : r[2] - r[1] <= oldsize => f[r] = Halve(f, scan, r)
  BY <1>2, <1>5
<1>7. \A r \in Ranges : r[2] - r[1] <= oldsize
  BY <1>1 DEF Ranges
<1>8. PICK g : g = [r \in Ranges |-> Halve(f, scan, r)]
  OBVIOUS
<1>9. \A r \in Ranges : g[r] = f[r]
  BY <1>6, <1>7, <1>8
<1>10. \A r \in Ranges : Halve(g, scan, r) = Halve(f, scan, r)
  <2> SUFFICES ASSUME NEW r \in Ranges PROVE Halve(g, scan, r) = Halve(f, scan, r)
    OBVIOUS
  <2>1. PICK st \in Suffixes, en \in Suffixes : r = <<st, en>>
    BY DEF Ranges
  <2>2. CASE en - st < 2
    BY <2>1, <2>2 DEF Halve
  <2>3. CASE ~(en - st < 2)
    <3>1. PICK x : x = st + (en - st) \div 2
      OBVIOUS
    <3>2. x \in Suffixes
      BY <1>1, <2>3, <3>1, Halves
    <3>3. g[<<x, en>>] = f[<<x, en>>] /\ g[<<st, x>>] = f[<<st, x>>]
      BY <1>9, <3>2 DEF Ranges
    <3>4. QED
      BY <2>1, <3>1, <3>3 DEF Halve
  <2>4. QED
    BY <2>2, <2>3
<1>11. g = [r \in Ranges |-> Halve(g, scan, r)]
  BY <1>8, <1>10
<1>12. PICK found : found = CHOOSE find : find = [r \in Ranges |-> Halve(find, scan, r)]
  OBVIOUS
<1>13. found = [r \in Ranges |-> Halve(found, scan, r)]
  BY <1>11, <1>12
<1>14. Search(scan) = found[<<0, oldsize>>]
  BY <1>12, SearchIs
<1>15. \A r \in Ranges : found[r] = Halve(found, scan, r)
  BY <1>13
<1>16. QED
  BY <1>14, <1>15

\* The search gives a place in the old firmware and the length of its match.
LEMMA SearchFinds ==
  ASSUME SortInv, head = oldsize + 1, NEW scan
  PROVE  \E p \in Suffixes : Search(scan) = [len |-> MatchLen(p, scan), pos |-> p]
<1>1. old \in Olds /\ oldsize \in Nat /\ Suffixes = 0 .. oldsize
  BY OldFinite DEF SortInv, SortTypes, Suffixes
<1>2. PICK f : /\ Search(scan) = f[<<0, oldsize>>]
               /\ \A r \in Ranges : f[r] = Halve(f, scan, r)
  BY <1>1, SearchDefined
<1> DEFINE Found(r) == \E p \in Suffixes : f[r] = [len |-> MatchLen(p, scan), pos |-> p]
<1>3. PICK S : S = {n \in Nat : \A r \in Ranges : r[2] - r[1] <= n => Found(r)}
  OBVIOUS
<1>4. ASSUME NEW st \in Suffixes, NEW en \in Suffixes, en - st < 2 PROVE Found(<<st, en>>)
  <2>1. I[st] \in Suffixes /\ I[en] \in Suffixes
    BY PlacesFilled
  <2>2. <<st, en>> \in Ranges
    BY DEF Ranges
  <2>3. \/ f[<<st, en>>] = [len |-> MatchLen(I[st], scan), pos |-> I[st]]
        \/ f[<<st, en>>] = [len |-> MatchLen(I[en], scan), pos |-> I[en]]
    BY <1>2, <1>4, <2>2 DEF Halve
  <2>4. QED
    BY <2>1, <2>3
<1> HIDE DEF Found
<1>5. 0 \in S
  <2>1. ASSUME NEW r \in Ranges, r[2] - r[1] <= 0 PROVE Found(r)
    <3>1. PICK st \in Suffixes, en \in Suffixes : r = <<st, en>>
      BY DEF Ranges
    <3>2. en - st < 2
      BY <1>1, <2>1, <3>1
    <3>3. QED
      BY <1>4, <3>1, <3>2
  <2>2. QED
    BY <1>3, <2>1
<1>6. ASSUME NEW n \in 0 .. oldsize - 1, n \in S PROVE n + 1 \in S
  <2>1. ASSUME NEW r \in Ranges, r[2] - r[1] <= n + 1 PROVE Found(r)
    <3>1. PICK st \in Suffixes, en \in Suffixes : r = <<st, en>>
      BY DEF Ranges
    <3>2. CASE en - st < 2
      BY <1>4, <3>1, <3>2
    <3>3. CASE ~(en - st < 2)
      <4>1. PICK x : x = st + (en - st) \div 2
        OBVIOUS
      <4>2. x \in Suffixes /\ en - x < en - st /\ x - st < en - st
        BY <1>1, <3>3, <4>1, Halves
      <4>3. en - x <= n /\ x - st <= n
        BY <1>1, <2>1, <3>1, <4>2
      <4>4. <<x, en>> \in Ranges /\ <<st, x>> \in Ranges /\ r \in Ranges
        BY <4>2 DEF Ranges
      <4>5. Found(<<x, en>>) /\ Found(<<st, x>>)
        BY <1>3, <1>6, <4>3, <4>4
      <4>6. f[r] = f[<<x, en>>] \/ f[r] = f[<<st, x>>]
        BY <1>2, <3>1, <3>3, <4>1, <4>4 DEF Halve
      <4>7. QED
        BY <4>5, <4>6 DEF Found
    <3>4. QED
      BY <3>2, <3>3
  <2>2. QED
    BY <1>3, <2>1
<1>7. oldsize \in S
  <2>1. S \in SUBSET Nat
    BY <1>3
  <2>2. \A n \in 0 .. oldsize : n \in S
    BY <1>1, <1>5, <1>6, <2>1, Counting
  <2>3. QED
    BY <1>1, <2>2
<1>8. <<0, oldsize>> \in Ranges
  BY <1>1 DEF Ranges
<1>9. oldsize - 0 <= oldsize
  BY <1>1
<1>10. Found(<<0, oldsize>>)
  BY <1>3, <1>7, <1>8, <1>9
<1>11. QED
  BY <1>2, <1>10 DEF Found

\* A greatest score exists.
LEMMA BestExists ==
  ASSUME NEW n \in Nat, NEW sc, \A k \in 0 .. n : sc[k] \in Int
  PROVE  \E k \in 0 .. n : \A l \in 0 .. n : sc[l] <= sc[k]
<1>1. PICK S : S = {q \in Nat : \E k \in 0 .. q : \A l \in 0 .. q : sc[l] <= sc[k]}
  OBVIOUS
<1>2. 0 \in S
  <2>1. sc[0] \in Int
    OBVIOUS
  <2>2. QED
    BY <1>1, <2>1
<1>3. ASSUME NEW q \in 0 .. n - 1, q \in S PROVE q + 1 \in S
  <2>1. PICK k \in 0 .. q : \A l \in 0 .. q : sc[l] <= sc[k]
    BY <1>1, <1>3
  <2>2. sc[k] \in Int /\ sc[q + 1] \in Int /\ \A l \in 0 .. q : sc[l] \in Int
    OBVIOUS
  <2>3. \A l \in 0 .. q + 1 : l \in 0 .. q \/ l = q + 1
    OBVIOUS
  <2>4. CASE sc[q + 1] <= sc[k]
    <3>1. k \in 0 .. q + 1 /\ \A l \in 0 .. q + 1 : sc[l] <= sc[k]
      BY <2>1, <2>3, <2>4
    <3>2. QED
      BY <1>1, <3>1
  <2>5. CASE ~(sc[q + 1] <= sc[k])
    <3>1. q + 1 \in 0 .. q + 1 /\ \A l \in 0 .. q + 1 : sc[l] <= sc[q + 1]
      BY <2>1, <2>2, <2>3, <2>5
    <3>2. QED
      BY <1>1, <3>1
  <2>6. QED
    BY <2>4, <2>5
<1>4. n \in S
  <2>1. S \in SUBSET Nat
    BY <1>1
  <2>2. \A q \in 0 .. n : q \in S
    BY <1>2, <1>3, <2>1, Counting
  <2>3. QED
    BY <2>2
<1>5. QED
  BY <1>1, <1>4

-----------------------------------------------------------------------------
(* The invariant of the scan.                                              *)

Fields == {"scan", "scsc", "len", "pos", "oldscore", "lastscan", "lastpos", "lastoffset", "lenf", "lenb"}

\* Nothing has been scanned while the old firmware is being sorted.
SortFirst ==
  IF pc = "sort"
    THEN /\ new = <<>> /\ blocks = <<>> /\ data = <<>>
         /\ m.scan = 0 /\ m.len = 0 /\ m.pos = 0 /\ m.lastscan = 0 /\ m.lastpos = 0
    ELSE new \in News /\ head = oldsize + 1

\* The scan is in the new firmware, and matches are in both.
ScanOK ==
  /\ m.scan \in 0 .. newsize /\ m.len \in Nat /\ m.pos \in 0 .. oldsize
  /\ m.lastscan \in 0 .. m.scan /\ m.lastpos \in 0 .. oldsize
  /\ m.scan < newsize /\ pc # "inner" => m.scan + m.len <= newsize
  /\ pc = "score" => m.scan < newsize
  /\ pc \in {"share", "emit"} =>
       /\ m.lenf \in 0 .. Shorter(m.scan - m.lastscan, oldsize - m.lastpos)
       /\ m.lenb \in 0 .. Shorter(m.scan - m.lastscan, m.pos)
       /\ m.scan = newsize => m.lenb = 0
  /\ pc = "emit" => m.lastscan + m.lenf <= m.scan - m.lenb
  /\ pc = "outer" => m.scan < newsize \/ m.lastscan = newsize
  /\ pc = "done" => m.lastscan = newsize

\* What db holds of a block that begins at a of the new firmware and at o of the old one
Written(j, a, o) ==
  /\ data[j].diff = [k \in 1 .. blocks[j].diff |-> (new[a + k - 1] - old[o + k - 1]) % Bytes]
  /\ data[j].extra = [k \in 1 .. blocks[j].extra |-> new[a + blocks[j].diff + k - 1]]

\* Block j begins at at[j] of the new firmware and takes the old one from op[j] on.
Chained(at, op) ==
  /\ \A j \in 1 .. Len(blocks) + 1 : at[j] \in Nat /\ op[j] \in Nat
  /\ at[1] = 0 /\ op[1] = 0
  /\ at[Len(blocks) + 1] = m.lastscan /\ op[Len(blocks) + 1] = m.lastpos
  /\ \A j \in 1 .. Len(blocks) :
       /\ at[j + 1] = at[j] + blocks[j].diff + blocks[j].extra /\ at[j + 1] <= newsize
       /\ op[j + 1] = op[j] + blocks[j].diff + blocks[j].adjust /\ op[j] + blocks[j].diff <= oldsize
       /\ Written(j, at[j], op[j])

Streams == [diff : Seq(0 .. Bytes - 1), extra : Seq(0 .. Bytes - 1)]

BlocksOK ==
  /\ blocks \in Seq(Block) /\ data \in Seq(Streams) /\ Len(data) = Len(blocks)
  /\ \E at, op : Chained(at, op)

ToolInv == SortInv /\ DOMAIN m = Fields /\ SortFirst /\ ScanOK /\ BlocksOK

LEMMA NewFinite ==
  ASSUME SortFirst
  PROVE  /\ newsize \in Nat
         /\ pc # "sort" => DOMAIN new = 0 .. newsize - 1 /\ \A k \in 0 .. newsize - 1 : new[k] \in 0 .. Bytes - 1
<1>1. CASE pc = "sort"
  <2>1. DOMAIN new = {}
    BY <1>1 DEF SortFirst
  <2>2. newsize = 0
    BY <2>1, FS_EmptySet DEF newsize
  <2>3. QED
    BY <1>1, <2>2
<1>2. CASE pc # "sort"
  <2>1. new \in News
    BY <1>2 DEF SortFirst
  <2>2. IsFiniteSet(DOMAIN new) /\ DOMAIN new = 0 .. newsize - 1
    BY <2>1, DiffAssumption DEF newsize
  <2>3. newsize \in Nat
    BY <2>2, FS_CardinalityType DEF newsize
  <2>4. \A k \in DOMAIN new : new[k] \in 0 .. Bytes - 1
    BY <2>1, DiffAssumption
  <2>5. QED
    BY <2>2, <2>3, <2>4
<1>3. QED
  BY <1>1, <1>2

\* What all steps of the scan start from
LEMMA Scanning ==
  ASSUME ToolInv
  PROVE  /\ old \in Olds /\ oldsize \in Nat /\ Suffixes = 0 .. oldsize /\ newsize \in Nat
         /\ DOMAIN m = Fields
         /\ m.scan \in 0 .. newsize /\ m.len \in Nat /\ m.pos \in 0 .. oldsize
         /\ m.lastscan \in 0 .. m.scan /\ m.lastpos \in 0 .. oldsize
<1>1. old \in Olds /\ SortFirst /\ ScanOK /\ DOMAIN m = Fields
  BY DEF ToolInv, SortInv, SortTypes
<1>2. oldsize \in Nat /\ Suffixes = 0 .. oldsize /\ newsize \in Nat
  BY <1>1, OldFinite, NewFinite DEF Suffixes
<1>3. QED
  BY <1>1, <1>2 DEF ScanOK

LEMMA ToolStarts ==
  ASSUME Init
  PROVE  ToolInv
<1>1. SortInv
  BY SortStarts DEF Init
<1>2. /\ pc = "sort" /\ new = <<>> /\ blocks = <<>> /\ data = <<>>
      /\ m = [scan |-> 0, scsc |-> 0, len |-> 0, pos |-> 0, oldscore |-> 0,
              lastscan |-> 0, lastpos |-> 0, lastoffset |-> 0, lenf |-> 0, lenb |-> 0]
  BY DEF Init
<1>3. DOMAIN m = Fields /\ SortFirst
  BY <1>2 DEF Fields, SortFirst
<1>4. newsize \in Nat /\ oldsize \in Nat
  BY <1>1, <1>3, NewFinite, OldFinite DEF SortInv, SortTypes
<1>5. ScanOK
  BY <1>2, <1>4 DEF ScanOK
<1>6. BlocksOK
  <2>1. PICK at : at = [j \in {1} |-> 0]
    OBVIOUS
  <2>2. Chained(at, at)
    BY <1>2, <2>1 DEF Chained
  <2>3. QED
    BY <1>2, <2>2 DEF BlocksOK
<1>7. QED
  BY <1>1, <1>3, <1>5, <1>6 DEF ToolInv

\* Steps that leave the blocks alone
LEMMA BlocksKept ==
  ASSUME BlocksOK, UNCHANGED <<old, new, blocks, data>>, m'.lastscan = m.lastscan, m'.lastpos = m.lastpos
  PROVE  BlocksOK'
<1>1. PICK at, op : Chained(at, op)
  BY DEF BlocksOK
<1>2. newsize' = newsize /\ oldsize' = oldsize
  BY DEF newsize, oldsize
<1>3. Chained(at, op)'
  <2>1. /\ old' = old /\ new' = new /\ blocks' = blocks /\ data' = data
        /\ m'.lastscan = m.lastscan /\ m'.lastpos = m.lastpos
    OBVIOUS
  <2>2. (/\ \A j \in 1 .. Len(blocks) + 1 : at[j] \in Nat /\ op[j] \in Nat
         /\ at[1] = 0 /\ op[1] = 0
         /\ at[Len(blocks) + 1] = m.lastscan /\ op[Len(blocks) + 1] = m.lastpos)'
    BY <1>1, <2>1 DEF Chained
  <2>3. (\A j \in 1 .. Len(blocks) :
       /\ at[j + 1] = at[j] + blocks[j].diff + blocks[j].extra /\ at[j + 1] <= newsize
       /\ op[j + 1] = op[j] + blocks[j].diff + blocks[j].adjust /\ op[j] + blocks[j].diff <= oldsize)'
    BY <1>1, <1>2, <2>1 DEF Chained
  <2>4. ASSUME NEW j, NEW a, NEW o, Written(j, a, o) PROVE Written(j, a, o)'
    BY <2>1, <2>4 DEF Written
  <2>5. \A j \in 1 .. Len(blocks)' : Written(j, at[j], op[j])'
    BY <1>1, <2>1, <2>4 DEF Chained
  <2>6. QED
    BY <2>2, <2>3, <2>5 DEF Chained
<1>4. QED
  BY <1>3 DEF BlocksOK

\* Steps of the scan leave the sort and the firmwares alone
LEMMA SortKept ==
  ASSUME ToolInv, pc # "sort", pc' # "sort", UNCHANGED <<sortVars, new>>
  PROVE  SortInv' /\ SortFirst' /\ newsize' = newsize /\ oldsize' = oldsize /\ UNCHANGED <<old, new>>
<1>1. SortInv'
  BY SortKeeps DEF ToolInv
<1>2. newsize' = newsize /\ oldsize' = oldsize /\ UNCHANGED <<old, new, head>>
  BY DEF newsize, oldsize, sortVars
<1>3. SortFirst'
  BY <1>2 DEF ToolInv, SortFirst
<1>4. QED
  BY <1>1, <1>2, <1>3

LEMMA SortTool ==
  ASSUME ToolInv, Sort
  PROVE  ToolInv'
<1>1. pc = "sort" /\ SortNext /\ UNCHANGED <<pc, new, m, blocks, data>>
  BY DEF Sort
<1>2. SortInv'
  BY <1>1, SortKeeps DEF ToolInv
<1>3. DOMAIN m' = Fields /\ SortFirst'
  BY <1>1 DEF ToolInv, SortFirst
<1>4. old' = old
  BY <1>1 DEF SortNext, Skip, SplitGroup, NextRound, Selection, Partition, Middle
<1>5. newsize' = newsize /\ oldsize' = oldsize
  BY <1>1, <1>4 DEF newsize, oldsize
<1>6. ScanOK'
  BY <1>1, <1>5 DEF ToolInv, ScanOK
<1>7. BlocksOK'
  BY <1>1, <1>4, BlocksKept DEF ToolInv
<1>8. QED
  BY <1>2, <1>3, <1>6, <1>7 DEF ToolInv

LEMMA ReadNewTool ==
  ASSUME ToolInv, ReadNew
  PROVE  ToolInv'
<1>1. /\ pc = "sort" /\ Finished /\ new' \in News /\ pc' = "outer"
      /\ UNCHANGED <<sortVars, m, blocks, data>>
  BY DEF ReadNew
<1>2. SortInv'
  BY <1>1, SortKeeps DEF ToolInv
<1>3. oldsize' = oldsize /\ UNCHANGED <<old, head>>
  BY <1>1 DEF oldsize, sortVars
<1>4. DOMAIN m' = Fields /\ SortFirst'
  BY <1>1, <1>3 DEF ToolInv, SortFirst, Finished
<1>5. newsize' \in Nat /\ oldsize \in Nat
  <2>1. newsize' \in Nat
    BY <1>1, DiffAssumption, FS_CardinalityType DEF newsize
  <2>2. QED
    BY <2>1, Scanning
<1>6. /\ blocks = <<>> /\ data = <<>>
      /\ m.scan = 0 /\ m.len = 0 /\ m.pos = 0 /\ m.lastscan = 0 /\ m.lastpos = 0
  BY <1>1 DEF ToolInv, SortFirst
<1>7. ScanOK'
  BY <1>1, <1>3, <1>5, <1>6 DEF ScanOK
<1>8. BlocksOK'
  <2>1. PICK at : at = [j \in {1} |-> 0]
    OBVIOUS
  <2>2. Chained(at, at)'
    BY <1>1, <1>6, <2>1 DEF Chained
  <2>3. QED
    BY <1>1, <1>6, <2>2 DEF BlocksOK
<1>9. QED
  BY <1>2, <1>4, <1>7, <1>8 DEF ToolInv

LEMMA OuterTool ==
  ASSUME ToolInv, Outer
  PROVE  ToolInv'
<1>1. pc = "outer" /\ UNCHANGED <<sortVars, new, blocks, data>> /\ pc' \in {"inner", "done"}
  BY DEF Outer
<1>2. SortInv' /\ SortFirst' /\ newsize' = newsize /\ oldsize' = oldsize /\ UNCHANGED <<old, new>>
  BY <1>1, SortKept
<1>3. /\ oldsize \in Nat /\ newsize \in Nat /\ DOMAIN m = Fields
      /\ m.scan \in 0 .. newsize /\ m.len \in Nat /\ m.pos \in 0 .. oldsize
      /\ m.lastscan \in 0 .. m.scan /\ m.lastpos \in 0 .. oldsize
  BY Scanning
<1>4. /\ m.scan < newsize => m.scan + m.len <= newsize
      /\ m.scan < newsize \/ m.lastscan = newsize
  BY <1>1 DEF ToolInv, ScanOK
<1>5. CASE m.scan < newsize
  <2>1. m' = [m EXCEPT !.oldscore = 0, !.scan = @ + m.len, !.scsc = m.scan + m.len] /\ pc' = "inner"
    BY <1>5 DEF Outer
  <2>2. /\ DOMAIN m' = Fields /\ m'.scan = m.scan + m.len /\ m'.len = m.len /\ m'.pos = m.pos
        /\ m'.lastscan = m.lastscan /\ m'.lastpos = m.lastpos
    BY <1>3, <2>1 DEF Fields
  <2>3. ScanOK'
    BY <1>2, <1>3, <1>4, <1>5, <2>1, <2>2 DEF ScanOK
  <2>4. BlocksOK'
    BY <1>1, <1>2, <2>2, BlocksKept DEF ToolInv
  <2>5. QED
    BY <1>2, <2>2, <2>3, <2>4 DEF ToolInv
<1>6. CASE ~(m.scan < newsize)
  <2>1. pc' = "done" /\ m' = m
    BY <1>6 DEF Outer
  <2>2. ScanOK'
    BY <1>2, <1>3, <1>4, <1>6, <2>1 DEF ScanOK
  <2>3. BlocksOK'
    BY <1>1, <1>2, <2>1, BlocksKept DEF ToolInv
  <2>4. QED
    BY <1>2, <1>3, <2>1, <2>2, <2>3 DEF ToolInv
<1>7. QED
  BY <1>5, <1>6

LEMMA FindTool ==
  ASSUME ToolInv, Find
  PROVE  ToolInv'
<1>1. /\ pc = "inner" /\ m.scan < newsize /\ pc' = "score"
      /\ m' = [m EXCEPT !.len = Search(m.scan).len, !.pos = Search(m.scan).pos]
      /\ UNCHANGED <<sortVars, new, blocks, data>>
  BY DEF Find
<1>2. SortInv' /\ SortFirst' /\ newsize' = newsize /\ oldsize' = oldsize /\ UNCHANGED <<old, new>>
  BY <1>1, SortKept
<1>3. /\ old \in Olds /\ oldsize \in Nat /\ Suffixes = 0 .. oldsize /\ newsize \in Nat /\ DOMAIN m = Fields
      /\ m.scan \in 0 .. newsize /\ m.lastscan \in 0 .. m.scan /\ m.lastpos \in 0 .. oldsize
  BY Scanning
<1>4. PICK p \in Suffixes : Search(m.scan) = [len |-> MatchLen(p, m.scan), pos |-> p]
  <2>1. SortInv /\ head = oldsize + 1
    BY <1>1 DEF ToolInv, SortFirst
  <2>2. QED
    BY <2>1, SearchFinds
<1>5. MatchLen(p, m.scan) \in 0 .. newsize - m.scan
  BY <1>3, MatchInside
<1>6. /\ DOMAIN m' = Fields /\ m'.scan = m.scan /\ m'.len = MatchLen(p, m.scan) /\ m'.pos = p
      /\ m'.lastscan = m.lastscan /\ m'.lastpos = m.lastpos
  BY <1>1, <1>3, <1>4 DEF Fields
<1>7. ScanOK'
  <2>1. m'.len \in Nat /\ m'.scan + m'.len <= newsize
    BY <1>3, <1>5, <1>6
  <2>2. QED
    BY <1>1, <1>2, <1>3, <1>6, <2>1 DEF ScanOK
<1>8. BlocksOK'
  BY <1>1, <1>2, <1>6, BlocksKept DEF ToolInv
<1>9. QED
  BY <1>2, <1>6, <1>7, <1>8 DEF ToolInv

LEMMA ScoreTool ==
  ASSUME ToolInv, Score
  PROVE  ToolInv'
<1>1. pc = "score" /\ UNCHANGED <<sortVars, new, blocks, data>>
  BY DEF Score
<1>2. /\ oldsize \in Nat /\ newsize \in Nat /\ DOMAIN m = Fields
      /\ m.scan \in 0 .. newsize /\ m.len \in Nat /\ m.pos \in 0 .. oldsize
      /\ m.lastscan \in 0 .. m.scan /\ m.lastpos \in 0 .. oldsize
  BY Scanning
<1>3. PICK x, y, z :
        \/ m' = [m EXCEPT !.oldscore = x, !.scsc = y] /\ pc' = "extend"
        \/ m' = [m EXCEPT !.scan = @ + 1, !.scsc = y, !.oldscore = z] /\ pc' = "inner"
  BY DEF Score
<1>4. /\ DOMAIN m' = Fields /\ m'.len = m.len /\ m'.pos = m.pos
      /\ m'.lastscan = m.lastscan /\ m'.lastpos = m.lastpos
      /\ (m'.scan = m.scan /\ pc' = "extend") \/ (m'.scan = m.scan + 1 /\ pc' = "inner")
  BY <1>2, <1>3 DEF Fields
<1>5. SortInv' /\ SortFirst' /\ newsize' = newsize /\ oldsize' = oldsize /\ UNCHANGED <<old, new>>
  BY <1>1, <1>4, SortKept
<1>6. m.scan < newsize /\ m.scan + m.len <= newsize
  BY <1>1 DEF ToolInv, ScanOK
<1>7. ScanOK'
  BY <1>2, <1>4, <1>5, <1>6 DEF ScanOK
<1>8. BlocksOK'
  BY <1>1, <1>4, <1>5, BlocksKept DEF ToolInv
<1>9. QED
  BY <1>4, <1>5, <1>7, <1>8 DEF ToolInv

LEMMA InnerEndsTool ==
  ASSUME ToolInv, InnerEnds
  PROVE  ToolInv'
<1>1. /\ pc = "inner" /\ m.scan = newsize /\ pc' = "extend"
      /\ UNCHANGED <<sortVars, new, m, blocks, data>>
  BY DEF InnerEnds
<1>2. SortInv' /\ SortFirst' /\ newsize' = newsize /\ oldsize' = oldsize /\ UNCHANGED <<old, new>>
  BY <1>1, SortKept
<1>3. /\ oldsize \in Nat /\ newsize \in Nat /\ DOMAIN m = Fields
      /\ m.scan \in 0 .. newsize /\ m.len \in Nat /\ m.pos \in 0 .. oldsize
      /\ m.lastscan \in 0 .. m.scan /\ m.lastpos \in 0 .. oldsize
  BY Scanning
<1>4. ScanOK'
  BY <1>1, <1>2, <1>3 DEF ScanOK
<1>5. BlocksOK'
  BY <1>1, <1>2, BlocksKept DEF ToolInv
<1>6. QED
  BY <1>1, <1>2, <1>3, <1>4, <1>5 DEF ToolInv

\* A best length is one of those tried.
LEMMA BestIn ==
  ASSUME NEW n \in Nat, NEW sc, \A k \in 0 .. n : sc[k] \in Int
  PROVE  Smallest({k \in 0 .. n : \A l \in 0 .. n : sc[l] <= sc[k]}) \in 0 .. n
<1>1. PICK S : S = {k \in 0 .. n : \A l \in 0 .. n : sc[l] <= sc[k]}
  OBVIOUS
<1>2. S \in SUBSET Nat /\ S # {}
  <2>1. PICK k \in 0 .. n : \A l \in 0 .. n : sc[l] <= sc[k]
    BY BestExists
  <2>2. k \in S
    BY <1>1, <2>1
  <2>3. QED
    BY <1>1, <2>2
<1>3. Smallest(S) \in S
  BY <1>2, SmallestInSet
<1>4. QED
  BY <1>1, <1>3

LEMMA CountOf ==
  ASSUME NEW a \in Int, NEW b \in Int, NEW S \in SUBSET (a .. b)
  PROVE  Cardinality(S) \in Nat
BY FS_Interval, FS_Subset, FS_CardinalityType

LEMMA ForwardIn ==
  ASSUME ToolInv
  PROVE  Forward \in 0 .. Shorter(m.scan - m.lastscan, oldsize - m.lastpos)
<1>1. PICK n : n = Shorter(m.scan - m.lastscan, oldsize - m.lastpos)
  OBVIOUS
<1>2. n \in Nat
  BY <1>1, Scanning DEF Shorter
<1> DEFINE Agreeing(k) == {s \in 0 .. k - 1 : old[m.lastpos + s] = new[m.lastscan + s]}
           Sc(k) == 2 * Cardinality(Agreeing(k)) - k
<1>3. Forward = Smallest({k \in 0 .. n : \A l \in 0 .. n : Sc(l) <= Sc(k)})
  BY <1>1 DEF Forward, FirstBest, Quantify
<1>4. ASSUME NEW k \in 0 .. n PROVE Sc(k) \in Int
  <2>1. PICK S : S = Agreeing(k)
    OBVIOUS
  <2>2. S \in SUBSET (0 .. k - 1) /\ 0 \in Int /\ k - 1 \in Int
    BY <1>2, <2>1
  <2>3. Cardinality(S) \in Nat
    BY <2>2, CountOf
  <2>4. QED
    BY <1>2, <2>1, <2>3
<1> HIDE DEF Sc
<1>5. PICK sc : sc = [k \in 0 .. n |-> Sc(k)]
  OBVIOUS
<1>6. \A k \in 0 .. n : sc[k] \in Int /\ sc[k] = Sc(k)
  BY <1>4, <1>5
<1>7. {k \in 0 .. n : \A l \in 0 .. n : Sc(l) <= Sc(k)} = {k \in 0 .. n : \A l \in 0 .. n : sc[l] <= sc[k]}
  BY <1>6
<1>8. Smallest({k \in 0 .. n : \A l \in 0 .. n : sc[l] <= sc[k]}) \in 0 .. n
  BY <1>2, <1>6, BestIn
<1>9. QED
  BY <1>1, <1>3, <1>7, <1>8

LEMMA BackwardIn ==
  ASSUME ToolInv
  PROVE  /\ Backward \in 0 .. Shorter(m.scan - m.lastscan, m.pos)
         /\ m.scan = newsize => Backward = 0
<1>1. PICK n : n = Shorter(m.scan - m.lastscan, m.pos)
  OBVIOUS
<1>2. n \in Nat /\ m.scan \in Nat /\ newsize \in Nat
  BY <1>1, Scanning DEF Shorter
<1>3. CASE m.scan < newsize
  <2> DEFINE Agreeing(k) == {s \in 1 .. k : old[m.pos - s] = new[m.scan - s]}
             Sc(k) == 2 * Cardinality(Agreeing(k)) - k
  <2>1. Backward = Smallest({k \in 0 .. n : \A l \in 0 .. n : Sc(l) <= Sc(k)})
    BY <1>1, <1>3 DEF Backward, FirstBest, Quantify
  <2>2. ASSUME NEW k \in 0 .. n PROVE Sc(k) \in Int
    <3>1. PICK S : S = Agreeing(k)
      OBVIOUS
    <3>2. S \in SUBSET (1 .. k) /\ 1 \in Int /\ k \in Int
      BY <1>2, <3>1
    <3>3. Cardinality(S) \in Nat
      BY <3>2, CountOf
    <3>4. QED
      BY <1>2, <3>1, <3>3
  <2> HIDE DEF Sc
  <2>3. PICK sc : sc = [k \in 0 .. n |-> Sc(k)]
    OBVIOUS
  <2>4. \A k \in 0 .. n : sc[k] \in Int /\ sc[k] = Sc(k)
    BY <2>2, <2>3
  <2>5. {k \in 0 .. n : \A l \in 0 .. n : Sc(l) <= Sc(k)} = {k \in 0 .. n : \A l \in 0 .. n : sc[l] <= sc[k]}
    BY <2>4
  <2>6. Smallest({k \in 0 .. n : \A l \in 0 .. n : sc[l] <= sc[k]}) \in 0 .. n
    BY <1>2, <2>4, BestIn
  <2>7. Backward \in 0 .. n
    BY <2>1, <2>5, <2>6
  <2>8. QED
    BY <1>1, <1>2, <1>3, <2>7
<1>4. CASE ~(m.scan < newsize)
  <2>1. Backward = 0
    BY <1>4 DEF Backward
  <2>2. QED
    BY <1>1, <1>2, <2>1
<1>5. QED
  BY <1>3, <1>4

LEMMA ShareIn ==
  ASSUME NEW n \in Nat
  PROVE  Share(n) \in 0 .. n
<1> DEFINE from == m.lastscan + m.lenf - n
           First(k)  == {s \in 0 .. k - 1 : new[from + s] = old[m.lastpos + m.lenf - n + s]}
           Second(k) == {s \in 0 .. k - 1 : new[m.scan - m.lenb + s] = old[m.pos - m.lenb + s]}
           Sc(k) == Cardinality(First(k)) - Cardinality(Second(k))
<1>1. Share(n) = Smallest({k \in 0 .. n : \A l \in 0 .. n : Sc(l) <= Sc(k)})
  BY DEF Share, FirstBest, Quantify
<1>2. ASSUME NEW k \in 0 .. n PROVE Sc(k) \in Int
  <2>1. PICK S, T : S = First(k) /\ T = Second(k)
    OBVIOUS
  <2>2. S \in SUBSET (0 .. k - 1) /\ T \in SUBSET (0 .. k - 1) /\ 0 \in Int /\ k - 1 \in Int
    BY <2>1
  <2>3. Cardinality(S) \in Nat /\ Cardinality(T) \in Nat
    BY <2>2, CountOf
  <2>4. QED
    BY <2>1, <2>3
<1> HIDE DEF Sc
<1>3. PICK sc : sc = [k \in 0 .. n |-> Sc(k)]
  OBVIOUS
<1>4. \A k \in 0 .. n : sc[k] \in Int /\ sc[k] = Sc(k)
  BY <1>2, <1>3
<1>5. {k \in 0 .. n : \A l \in 0 .. n : Sc(l) <= Sc(k)} = {k \in 0 .. n : \A l \in 0 .. n : sc[l] <= sc[k]}
  BY <1>4
<1>6. Smallest({k \in 0 .. n : \A l \in 0 .. n : sc[l] <= sc[k]}) \in 0 .. n
  BY <1>4, BestIn
<1>7. QED
  BY <1>1, <1>5, <1>6

LEMMA ExtendTool ==
  ASSUME ToolInv, Extend
  PROVE  ToolInv'
<1>1. pc = "extend" /\ UNCHANGED <<sortVars, new, blocks, data>>
  BY DEF Extend
<1>2. \/ pc' = "share" /\ m' = [m EXCEPT !.lenf = Forward, !.lenb = Backward]
      \/ pc' = "outer" /\ m' = m /\ m.scan # newsize
  BY DEF Extend, EndsBlock
<1>3. /\ oldsize \in Nat /\ newsize \in Nat /\ DOMAIN m = Fields
      /\ m.scan \in 0 .. newsize /\ m.len \in Nat /\ m.pos \in 0 .. oldsize
      /\ m.lastscan \in 0 .. m.scan /\ m.lastpos \in 0 .. oldsize
  BY Scanning
<1>4. m.scan < newsize => m.scan + m.len <= newsize
  BY <1>1 DEF ToolInv, ScanOK
<1>5. SortInv' /\ SortFirst' /\ newsize' = newsize /\ oldsize' = oldsize /\ UNCHANGED <<old, new>>
  BY <1>1, <1>2, SortKept
<1>6. CASE pc' = "share" /\ m' = [m EXCEPT !.lenf = Forward, !.lenb = Backward]
  <2>1. /\ DOMAIN m' = Fields /\ m'.scan = m.scan /\ m'.len = m.len /\ m'.pos = m.pos
        /\ m'.lastscan = m.lastscan /\ m'.lastpos = m.lastpos /\ m'.lenf = Forward /\ m'.lenb = Backward
    BY <1>3, <1>6 DEF Fields
  <2>2. /\ Forward \in 0 .. Shorter(m.scan - m.lastscan, oldsize - m.lastpos)
        /\ Backward \in 0 .. Shorter(m.scan - m.lastscan, m.pos)
        /\ m.scan = newsize => Backward = 0
    BY ForwardIn, BackwardIn
  <2>3. ScanOK'
    BY <1>3, <1>4, <1>5, <1>6, <2>1, <2>2 DEF ScanOK, Shorter
  <2>4. BlocksOK'
    BY <1>1, <1>5, <2>1, BlocksKept DEF ToolInv
  <2>5. QED
    BY <1>5, <2>1, <2>3, <2>4 DEF ToolInv
<1>7. CASE pc' = "outer" /\ m' = m /\ m.scan # newsize
  <2>1. ScanOK'
    BY <1>3, <1>4, <1>5, <1>7 DEF ScanOK
  <2>2. BlocksOK'
    BY <1>1, <1>5, <1>7, BlocksKept DEF ToolInv
  <2>3. QED
    BY <1>3, <1>5, <1>7, <2>1, <2>2 DEF ToolInv
<1>8. QED
  BY <1>2, <1>6, <1>7

LEMMA DivideTool ==
  ASSUME ToolInv, Divide
  PROVE  ToolInv'
<1>1. pc = "share" /\ pc' = "emit" /\ UNCHANGED <<sortVars, new, blocks, data>>
  BY DEF Divide
<1>2. m' = IF Overlap > 0 THEN [m EXCEPT !.lenf = @ + Share(Overlap) - Overlap, !.lenb = @ - Share(Overlap)] ELSE m
  BY DEF Divide
<1>3. /\ oldsize \in Nat /\ newsize \in Nat /\ DOMAIN m = Fields
      /\ m.scan \in 0 .. newsize /\ m.len \in Nat /\ m.pos \in 0 .. oldsize
      /\ m.lastscan \in 0 .. m.scan /\ m.lastpos \in 0 .. oldsize
  BY Scanning
<1>4. /\ m.scan < newsize => m.scan + m.len <= newsize
      /\ m.lenf \in 0 .. Shorter(m.scan - m.lastscan, oldsize - m.lastpos)
      /\ m.lenb \in 0 .. Shorter(m.scan - m.lastscan, m.pos)
      /\ m.scan = newsize => m.lenb = 0
  BY <1>1 DEF ToolInv, ScanOK
<1>5. SortInv' /\ SortFirst' /\ newsize' = newsize /\ oldsize' = oldsize /\ UNCHANGED <<old, new>>
  BY <1>1, SortKept
<1>6. /\ m.lenf \in Nat /\ m.lenf <= m.scan - m.lastscan /\ m.lenf <= oldsize - m.lastpos
      /\ m.lenb \in Nat /\ m.lenb <= m.scan - m.lastscan /\ m.lenb <= m.pos
  BY <1>3, <1>4 DEF Shorter
<1>7. Overlap = (m.lastscan + m.lenf) - (m.scan - m.lenb) /\ Overlap \in Int
  BY <1>3, <1>6 DEF Overlap
<1>8. /\ DOMAIN m' = Fields /\ m'.scan = m.scan /\ m'.len = m.len /\ m'.pos = m.pos
      /\ m'.lastscan = m.lastscan /\ m'.lastpos = m.lastpos
  BY <1>2, <1>3 DEF Fields
<1>9. /\ m'.lenf \in 0 .. m.lenf /\ m'.lenb \in 0 .. m.lenb
      /\ m'.lastscan + m'.lenf <= m'.scan - m'.lenb
  <2>1. CASE Overlap > 0
    <3>1. PICK s : s = Share(Overlap)
      OBVIOUS
    <3>2. s \in 0 .. Overlap
      BY <1>7, <2>1, <3>1, ShareIn
    <3>3. m'.lenf = m.lenf + s - Overlap /\ m'.lenb = m.lenb - s
      BY <1>2, <1>3, <2>1, <3>1 DEF Fields
    <3>4. QED
      BY <1>3, <1>6, <1>7, <1>8, <2>1, <3>2, <3>3
  <2>2. CASE ~(Overlap > 0)
    BY <1>2, <1>3, <1>6, <1>7, <2>2
  <2>3. QED
    BY <2>1, <2>2
<1>10. ScanOK'
  <2>1. /\ m'.lenf \in 0 .. Shorter(m'.scan - m'.lastscan, oldsize - m'.lastpos)
        /\ m'.lenb \in 0 .. Shorter(m'.scan - m'.lastscan, m'.pos)
        /\ m'.scan = newsize => m'.lenb = 0
    BY <1>3, <1>4, <1>6, <1>8, <1>9 DEF Shorter
  <2>2. QED
    BY <1>1, <1>3, <1>4, <1>5, <1>8, <1>9, <2>1 DEF ScanOK, Shorter
<1>11. BlocksOK'
  BY <1>1, <1>5, <1>8, BlocksKept DEF ToolInv
<1>12. QED
  BY <1>5, <1>8, <1>10, <1>11 DEF ToolInv

LEMMA FunSeq ==
  ASSUME NEW S, NEW n \in Nat, NEW f, f = [k \in 1 .. n |-> f[k]], \A k \in 1 .. n : f[k] \in S
  PROVE  f \in Seq(S) /\ Len(f) = n
<1>1. f \in [1 .. n -> S]
  OBVIOUS
<1>2. QED
  BY <1>1

LEMMA EmitTool ==
  ASSUME ToolInv, Emit
  PROVE  ToolInv'
<1>1. pc = "emit" /\ pc' = "outer" /\ UNCHANGED <<sortVars, new>>
      /\ m' = [m EXCEPT !.lastscan = m.scan - m.lenb, !.lastpos = m.pos - m.lenb, !.lastoffset = m.pos - m.scan]
  BY DEF Emit
<1>2. PICK extra : extra = (m.scan - m.lenb) - (m.lastscan + m.lenf)
  OBVIOUS
<1>3. PICK adjust : adjust = (m.pos - m.lenb) - (m.lastpos + m.lenf)
  OBVIOUS
<1>4. PICK bl : bl = [diff |-> m.lenf, extra |-> extra, adjust |-> adjust]
  OBVIOUS
<1>5. PICK dd, de : /\ dd = [k \in 1 .. m.lenf |-> (new[m.lastscan + k - 1] - old[m.lastpos + k - 1]) % Bytes]
                    /\ de = [k \in 1 .. extra |-> new[m.lastscan + m.lenf + k - 1]]
  OBVIOUS
<1>6. PICK dt : dt = [diff |-> dd, extra |-> de]
  OBVIOUS
<1>7. blocks' = Append(blocks, bl) /\ data' = Append(data, dt)
  BY <1>2, <1>3, <1>4, <1>5, <1>6 DEF Emit
<1>8. /\ old \in Olds /\ oldsize \in Nat /\ newsize \in Nat /\ DOMAIN m = Fields
      /\ m.scan \in 0 .. newsize /\ m.len \in Nat /\ m.pos \in 0 .. oldsize
      /\ m.lastscan \in 0 .. m.scan /\ m.lastpos \in 0 .. oldsize
  BY Scanning
<1>9. /\ m.scan < newsize => m.scan + m.len <= newsize
      /\ m.lenf \in 0 .. Shorter(m.scan - m.lastscan, oldsize - m.lastpos)
      /\ m.lenb \in 0 .. Shorter(m.scan - m.lastscan, m.pos)
      /\ m.scan = newsize => m.lenb = 0
      /\ m.lastscan + m.lenf <= m.scan - m.lenb
  BY <1>1 DEF ToolInv, ScanOK
<1>10. SortInv' /\ SortFirst' /\ newsize' = newsize /\ oldsize' = oldsize /\ UNCHANGED <<old, new>>
  BY <1>1, SortKept
<1>11. /\ m.lenf \in Nat /\ m.lenf <= oldsize - m.lastpos
       /\ m.lenb \in Nat /\ m.lenb <= m.scan - m.lastscan /\ m.lenb <= m.pos
  BY <1>8, <1>9 DEF Shorter
<1>12. /\ DOMAIN m' = Fields /\ m'.scan = m.scan /\ m'.len = m.len /\ m'.pos = m.pos
       /\ m'.lastscan = m.scan - m.lenb /\ m'.lastpos = m.pos - m.lenb
  BY <1>1, <1>8 DEF Fields
<1>13. extra \in Nat /\ adjust \in Int
  BY <1>2, <1>3, <1>8, <1>9, <1>11
<1>14. ScanOK'
  <2>1. m'.lastscan \in 0 .. m'.scan /\ m'.lastpos \in 0 .. oldsize
    BY <1>8, <1>11, <1>12
  <2>2. m'.scan < newsize \/ m'.lastscan = newsize
    BY <1>8, <1>9, <1>12
  <2>3. QED
    BY <1>1, <1>8, <1>9, <1>10, <1>12, <2>1, <2>2 DEF ScanOK
<1>15. PICK n : n = Len(blocks)
  OBVIOUS
<1>16. blocks \in Seq(Block) /\ data \in Seq(Streams) /\ Len(data) = n /\ n \in Nat
  BY <1>15 DEF ToolInv, BlocksOK
<1>17. PICK at, op : Chained(at, op)
  BY DEF ToolInv, BlocksOK
<1>18. /\ \A j \in 1 .. n + 1 : at[j] \in Nat /\ op[j] \in Nat
       /\ at[1] = 0 /\ op[1] = 0 /\ at[n + 1] = m.lastscan /\ op[n + 1] = m.lastpos
  BY <1>15, <1>17 DEF Chained
<1>19. PICK at2, op2 : /\ at2 = [j \in 1 .. n + 2 |-> IF j <= n + 1 THEN at[j] ELSE m.scan - m.lenb]
                       /\ op2 = [j \in 1 .. n + 2 |-> IF j <= n + 1 THEN op[j] ELSE m.pos - m.lenb]
  OBVIOUS
<1>20. /\ \A j \in 1 .. n + 1 : at2[j] = at[j] /\ op2[j] = op[j]
       /\ at2[n + 2] = m.scan - m.lenb /\ op2[n + 2] = m.pos - m.lenb
  BY <1>16, <1>19
<1>21. bl \in Block /\ bl.diff = m.lenf /\ bl.extra = extra /\ bl.adjust = adjust
  BY <1>4, <1>11, <1>13 DEF Block
<1>22. blocks' \in Seq(Block) /\ Len(blocks') = n + 1 /\ blocks'[n + 1] = bl
       /\ \A j \in 1 .. n : blocks'[j] = blocks[j]
  BY <1>7, <1>15, <1>16, <1>21
<1>23. dt \in Streams /\ dt.diff = dd /\ dt.extra = de
  <2>1. \A k \in 0 .. newsize - 1 : new[k] \in 0 .. Bytes - 1
    BY <1>1, NewFinite DEF ToolInv
  <2>2. \A k \in 0 .. oldsize - 1 : old[k] \in Nat
    BY <1>8, OldFinite
  <2>3. Bytes \in Nat /\ Bytes # 0
    BY DiffAssumption
  <2>4. ASSUME NEW k \in 1 .. m.lenf
        PROVE  (new[m.lastscan + k - 1] - old[m.lastpos + k - 1]) % Bytes \in 0 .. Bytes - 1
    <3>1. m.lastscan + k - 1 \in 0 .. newsize - 1 /\ m.lastpos + k - 1 \in 0 .. oldsize - 1
      BY <1>8, <1>9, <1>11
    <3>2. new[m.lastscan + k - 1] \in Int /\ old[m.lastpos + k - 1] \in Int
      BY <2>1, <2>2, <2>3, <3>1
    <3>3. PICK d \in Int : d = new[m.lastscan + k - 1] - old[m.lastpos + k - 1]
      BY <3>2
    <3>4. d % Bytes \in 0 .. Bytes - 1
      BY <2>3
    <3>5. QED
      BY <3>3, <3>4
  <2>5. ASSUME NEW k \in 1 .. extra PROVE new[m.lastscan + m.lenf + k - 1] \in 0 .. Bytes - 1
    <3>1. m.lastscan + m.lenf + k - 1 \in 0 .. newsize - 1
      BY <1>2, <1>8, <1>11, <1>13
    <3>2. QED
      BY <2>1, <3>1
  <2>6. dd \in Seq(0 .. Bytes - 1)
    <3>1. dd = [k \in 1 .. m.lenf |-> dd[k]] /\ \A k \in 1 .. m.lenf : dd[k] \in 0 .. Bytes - 1
      BY <1>5, <2>4
    <3>2. QED
      BY <1>11, <3>1, FunSeq
  <2>7. de \in Seq(0 .. Bytes - 1)
    <3>1. de = [k \in 1 .. extra |-> de[k]] /\ \A k \in 1 .. extra : de[k] \in 0 .. Bytes - 1
      BY <1>5, <2>5
    <3>2. QED
      BY <1>13, <3>1, FunSeq
  <2>8. QED
    BY <1>6, <2>6, <2>7 DEF Streams
<1>24. data' \in Seq(Streams) /\ Len(data') = n + 1 /\ data'[n + 1] = dt
       /\ \A j \in 1 .. n : data'[j] = data[j]
  BY <1>7, <1>16, <1>23
<1>25. Chained(at2, op2)'
  <2>1. (/\ \A j \in 1 .. Len(blocks) + 1 : at2[j] \in Nat /\ op2[j] \in Nat
         /\ at2[1] = 0 /\ op2[1] = 0
         /\ at2[Len(blocks) + 1] = m.lastscan /\ op2[Len(blocks) + 1] = m.lastpos)'
    <3>1. m.scan - m.lenb \in Nat /\ m.pos - m.lenb \in Nat
      BY <1>8, <1>11
    <3>2. \A j \in 1 .. n + 2 : at2[j] \in Nat /\ op2[j] \in Nat
      <4>1. \A j \in 1 .. n + 2 : j \in 1 .. n + 1 \/ j = n + 2
        BY <1>16
      <4>2. QED
        BY <1>18, <1>20, <3>1, <4>1
    <3>3. 1 \in 1 .. n + 1 /\ (n + 1) + 1 = n + 2
      BY <1>16
    <3>4. QED
      BY <1>12, <1>18, <1>20, <1>22, <3>2, <3>3
  <2>2. ASSUME NEW j \in 1 .. n + 1
        PROVE  /\ at2[j + 1] = at2[j] + blocks'[j].diff + blocks'[j].extra /\ at2[j + 1] <= newsize
               /\ op2[j + 1] = op2[j] + blocks'[j].diff + blocks'[j].adjust
               /\ op2[j] + blocks'[j].diff <= oldsize
               /\ Written(j, at2[j], op2[j])'
    <3>1. CASE j \in 1 .. n
      <4>1. /\ at[j + 1] = at[j] + blocks[j].diff + blocks[j].extra /\ at[j + 1] <= newsize
            /\ op[j + 1] = op[j] + blocks[j].diff + blocks[j].adjust
            /\ op[j] + blocks[j].diff <= oldsize
            /\ Written(j, at[j], op[j])
        BY <1>15, <1>17, <3>1 DEF Chained
      <4>2. j \in 1 .. n + 1 /\ j + 1 \in 1 .. n + 1
        BY <1>16, <3>1
      <4>3. /\ at2[j] = at[j] /\ op2[j] = op[j] /\ at2[j + 1] = at[j + 1] /\ op2[j + 1] = op[j + 1]
            /\ blocks'[j] = blocks[j] /\ data'[j] = data[j]
        BY <1>20, <1>22, <1>24, <3>1, <4>2
      <4>4. Written(j, at[j], op[j])'
        BY <1>10, <4>1, <4>3 DEF Written
      <4>5. QED
        BY <4>1, <4>3, <4>4
    <3>2. CASE j = n + 1
      <4>1. /\ at2[j] = m.lastscan /\ op2[j] = m.lastpos /\ at2[j + 1] = m.scan - m.lenb
            /\ op2[j + 1] = m.pos - m.lenb
        <5>1. n + 1 \in 1 .. n + 1 /\ (n + 1) + 1 = n + 2
          BY <1>16
        <5>2. QED
          BY <1>18, <1>20, <3>2, <5>1
      <4>2. /\ blocks'[j].diff = m.lenf /\ blocks'[j].extra = extra /\ blocks'[j].adjust = adjust
            /\ data'[j].diff = dd /\ data'[j].extra = de
        BY <1>21, <1>22, <1>23, <1>24, <3>2
      <4>3. /\ at2[j + 1] = at2[j] + blocks'[j].diff + blocks'[j].extra /\ at2[j + 1] <= newsize
            /\ op2[j + 1] = op2[j] + blocks'[j].diff + blocks'[j].adjust
            /\ op2[j] + blocks'[j].diff <= oldsize
        BY <1>2, <1>3, <1>8, <1>11, <1>13, <4>1, <4>2
      <4>4. PICK a, o : a = m.lastscan /\ o = m.lastpos
        OBVIOUS
      <4>5. Written(j, a, o)'
        BY <1>5, <1>10, <4>2, <4>4 DEF Written
      <4>6. at2[j] = a /\ op2[j] = o
        BY <4>1, <4>4
      <4>7. QED
        BY <4>3, <4>5, <4>6
    <3>3. QED
      BY <1>16, <3>1, <3>2
  <2>3. 1 .. Len(blocks)' = 1 .. n + 1
    BY <1>22
  <2>4. (\A j \in 1 .. Len(blocks) :
       /\ at2[j + 1] = at2[j] + blocks[j].diff + blocks[j].extra /\ at2[j + 1] <= newsize
       /\ op2[j + 1] = op2[j] + blocks[j].diff + blocks[j].adjust /\ op2[j] + blocks[j].diff <= oldsize)'
    BY <1>10, <2>2, <2>3
  <2>5. \A j \in 1 .. Len(blocks)' : Written(j, at2[j], op2[j])'
    BY <2>2, <2>3
  <2>6. QED
    BY <2>1, <2>4, <2>5 DEF Chained
<1>26. BlocksOK'
  BY <1>22, <1>24, <1>25 DEF BlocksOK
<1>27. QED
  BY <1>10, <1>12, <1>14, <1>26 DEF ToolInv

\* A difference of two bytes, added to the second, gives the first.
LEMMA ByteBack ==
  ASSUME NEW a \in 0 .. Bytes - 1, NEW b \in 0 .. Bytes - 1
  PROVE  (a + ((b - a) % Bytes)) % Bytes = b
<1>1. Bytes \in Nat /\ Bytes > 0
  BY DiffAssumption
<1>2. CASE a <= b
  <2>1. (b - a) % Bytes = b - a
    BY <1>1, <1>2
  <2>2. b % Bytes = b
    BY <1>1
  <2>3. a + (b - a) = b
    BY <1>1
  <2>4. QED
    BY <2>1, <2>2, <2>3
<1>3. CASE a > b
  <2>1. (b - a) % Bytes = b - a + Bytes
    BY <1>1, <1>3
  <2>2. (b + Bytes) % Bytes = b
    BY <1>1
  <2>3. a + (b - a + Bytes) = b + Bytes
    BY <1>1
  <2>4. QED
    BY <2>1, <2>2, <2>3
<1>4. QED
  BY <1>1, <1>2, <1>3

\* The positions of the chain are those of the boot loader.
LEMMA Starts ==
  ASSUME BlocksOK, NEW at, NEW op, Chained(at, op)
  PROVE  /\ \A j \in 1 .. Len(blocks) + 1 : NewStart(blocks)[j] = at[j]
         /\ \A j \in 1 .. Len(blocks) : OldStart(blocks)[j] = op[j]
<1>1. PICK n : n = Len(blocks)
  OBVIOUS
<1>2. n \in Nat /\ \A j \in 1 .. n : blocks[j].diff \in Nat /\ blocks[j].extra \in Nat /\ blocks[j].adjust \in Int
  <2>1. \A j \in 1 .. n : blocks[j] \in Block
    BY <1>1 DEF BlocksOK
  <2>2. n \in Nat
    BY <1>1 DEF BlocksOK
  <2>3. QED
    BY <2>1, <2>2 DEF Block
<1>3. /\ \A j \in 1 .. n + 1 : at[j] \in Nat /\ op[j] \in Nat
      /\ at[1] = 0 /\ op[1] = 0
      /\ \A j \in 1 .. n : /\ at[j + 1] = at[j] + blocks[j].diff + blocks[j].extra
                           /\ op[j + 1] = op[j] + blocks[j].diff + blocks[j].adjust
  BY <1>1 DEF Chained
<1> DEFINE N(f) == [j \in 1 .. n + 1 |-> IF j = 1 THEN 0 ELSE f[j - 1] + blocks[j - 1].diff + blocks[j - 1].extra]
           O(f) == [j \in 1 .. n |-> IF j = 1 THEN 0 ELSE f[j - 1] + blocks[j - 1].diff + blocks[j - 1].adjust]
<1>4. PICK a, o : a = [j \in 1 .. n + 1 |-> at[j]] /\ o = [j \in 1 .. n |-> op[j]]
  OBVIOUS
<1>5. ASSUME NEW j \in 1 .. n + 1, j # 1 PROVE j - 1 \in 1 .. n /\ (j - 1) + 1 = j
  BY <1>2, <1>5
<1>6. a = N(a)
  <2>1. ASSUME NEW j \in 1 .. n + 1
        PROVE  a[j] = IF j = 1 THEN 0 ELSE a[j - 1] + blocks[j - 1].diff + blocks[j - 1].extra
    <3>1. CASE j = 1
      BY <1>3, <1>4, <3>1
    <3>2. CASE j # 1
      <4>1. j - 1 \in 1 .. n /\ (j - 1) + 1 = j /\ j - 1 \in 1 .. n + 1
        BY <1>2, <1>5, <3>2
      <4>2. at[j] = at[j - 1] + blocks[j - 1].diff + blocks[j - 1].extra
        BY <1>3, <4>1
      <4>3. QED
        BY <1>4, <3>2, <4>1, <4>2
    <3>3. QED
      BY <3>1, <3>2
  <2>2. QED
    BY <1>4, <2>1
<1>7. o = O(o)
  <2>1. ASSUME NEW j \in 1 .. n
        PROVE  o[j] = IF j = 1 THEN 0 ELSE o[j - 1] + blocks[j - 1].diff + blocks[j - 1].adjust
    <3>1. CASE j = 1
      BY <1>3, <1>4, <3>1
    <3>2. CASE j # 1
      <4>1. j - 1 \in 1 .. n /\ (j - 1) + 1 = j
        BY <1>2, <3>2
      <4>2. op[j] = op[j - 1] + blocks[j - 1].diff + blocks[j - 1].adjust
        BY <1>3, <4>1
      <4>3. QED
        BY <1>4, <3>2, <4>1, <4>2
    <3>3. QED
      BY <3>1, <3>2
  <2>2. QED
    BY <1>4, <2>1
<1>8. NewStart(blocks) = CHOOSE f : f = N(f)
  BY <1>1 DEF NewStart
<1>9. OldStart(blocks) = CHOOSE f : f = O(f)
  BY <1>1 DEF OldStart
<1>10. PICK p, q : p = NewStart(blocks) /\ q = OldStart(blocks)
  OBVIOUS
<1>11. p = N(p)
  BY <1>6, <1>8, <1>10
<1>12. q = O(q)
  BY <1>7, <1>9, <1>10
<1>13. \A j \in 1 .. n + 1 : p[j] = IF j = 1 THEN 0 ELSE p[j - 1] + blocks[j - 1].diff + blocks[j - 1].extra
  BY <1>11
<1>14. \A j \in 1 .. n : q[j] = IF j = 1 THEN 0 ELSE q[j - 1] + blocks[j - 1].diff + blocks[j - 1].adjust
  BY <1>12
<1> HIDE DEF N, O
<1>15. PICK S : S = {k \in Nat : (k + 1 \in 1 .. n + 1 => p[k + 1] = at[k + 1]) /\ (k + 1 \in 1 .. n => q[k + 1] = op[k + 1])}
  OBVIOUS
<1>16. 0 \in S
  BY <1>3, <1>13, <1>14, <1>15
<1>17. ASSUME NEW k \in 0 .. n - 1, k \in S PROVE k + 1 \in S
  <2>1. k + 1 \in 1 .. n /\ k + 1 \in 1 .. n + 1 /\ k + 2 \in 1 .. n + 1 /\ k + 2 # 1 /\ (k + 2) - 1 = k + 1
        /\ (k + 1) + 1 = k + 2
    BY <1>2
  <2>2. p[k + 1] = at[k + 1] /\ q[k + 1] = op[k + 1]
    BY <1>15, <1>17, <2>1
  <2>3. p[k + 2] = at[k + 2]
    <3>1. p[k + 2] = p[k + 1] + blocks[k + 1].diff + blocks[k + 1].extra
      BY <1>13, <2>1
    <3>2. at[k + 2] = at[k + 1] + blocks[k + 1].diff + blocks[k + 1].extra
      BY <1>3, <2>1
    <3>3. QED
      BY <2>2, <3>1, <3>2
  <2>4. k + 2 \in 1 .. n => q[k + 2] = op[k + 2]
    <3>1. k + 2 \in 1 .. n => q[k + 2] = q[k + 1] + blocks[k + 1].diff + blocks[k + 1].adjust
      BY <1>14, <2>1
    <3>2. op[k + 2] = op[k + 1] + blocks[k + 1].diff + blocks[k + 1].adjust
      BY <1>3, <2>1
    <3>3. QED
      BY <2>2, <3>1, <3>2
  <2>5. QED
    BY <1>15, <2>1, <2>3, <2>4
<1>18. \A k \in 0 .. n : k \in S
  <2>1. S \in SUBSET Nat
    BY <1>15
  <2>2. QED
    BY <1>2, <1>16, <1>17, <2>1, Counting
<1>19. ASSUME NEW j \in 1 .. n + 1 PROVE p[j] = at[j] /\ (j \in 1 .. n => q[j] = op[j])
  <2>1. j - 1 \in 0 .. n /\ (j - 1) + 1 = j
    BY <1>2
  <2>2. j - 1 \in S
    BY <1>18, <2>1
  <2>3. QED
    BY <1>15, <2>1, <2>2
<1>20. \A j \in 1 .. n : j \in 1 .. n + 1
  BY <1>2
<1>21. QED
  BY <1>1, <1>10, <1>19, <1>20

\* A function that is one sequence, and behind it another
LEMMA Joined ==
  ASSUME NEW S, NEW s \in Seq(S), NEW t \in Seq(S), NEW f \in [1 .. Len(s) + Len(t) -> S],
         \A k \in 1 .. Len(s) : f[k] = s[k], \A k \in 1 .. Len(t) : f[Len(s) + k] = t[k]
  PROVE  s \o t = f
<1>1. PICK u : u = s \o t
  OBVIOUS
<1>2. /\ u \in [1 .. Len(s) + Len(t) -> S] /\ Len(s) \in Nat /\ Len(t) \in Nat
      /\ \A k \in 1 .. Len(s) : u[k] = s[k]
      /\ \A k \in 1 .. Len(t) : u[Len(s) + k] = t[k]
  <2>1. /\ u \in Seq(S) /\ Len(u) = Len(s) + Len(t) /\ Len(s) \in Nat /\ Len(t) \in Nat
        /\ \A k \in 1 .. Len(s) : u[k] = s[k]
        /\ \A k \in 1 .. Len(t) : u[Len(s) + k] = t[k]
    BY <1>1
  <2>2. u \in [1 .. Len(u) -> S]
    BY <2>1
  <2>3. QED
    BY <2>1, <2>2
<1>3. ASSUME NEW k \in 1 .. Len(s) + Len(t) PROVE u[k] = f[k]
  <2>1. CASE k <= Len(s)
    BY <1>2, <2>1
  <2>2. CASE k > Len(s)
    <3>1. k - Len(s) \in 1 .. Len(t) /\ Len(s) + (k - Len(s)) = k
      BY <1>2, <2>2
    <3>2. QED
      BY <1>2, <3>1
  <2>3. QED
    BY <1>2, <2>1, <2>2
<1>4. u = f
  BY <1>2, <1>3
<1>5. QED
  BY <1>1, <1>4

LEMMA ToolReproduces ==
  ASSUME ToolInv
  PROVE  Reproduces
<1>1. PICK at, op : Chained(at, op)
  BY DEF ToolInv, BlocksOK
<1>2. PICK n : n = Len(blocks)
  OBVIOUS
<1>3. /\ n \in Nat /\ DOMAIN blocks = 1 .. n
      /\ \A j \in 1 .. n : blocks[j].diff \in Nat /\ blocks[j].extra \in Nat
      /\ \A j \in 1 .. n : data[j].extra \in Seq(0 .. Bytes - 1)
  <2>1. blocks \in Seq(Block) /\ data \in Seq(Streams) /\ Len(data) = n
    BY <1>2 DEF ToolInv, BlocksOK
  <2>2. n \in Nat /\ DOMAIN blocks = 1 .. n
    BY <1>2, <2>1
  <2>3. \A j \in 1 .. n : blocks[j] \in Block /\ data[j] \in Streams
    BY <1>2, <2>1
  <2>4. QED
    BY <2>2, <2>3 DEF Block, Streams
<1>4. /\ \A j \in 1 .. n + 1 : NewStart(blocks)[j] = at[j]
      /\ \A j \in 1 .. n : OldStart(blocks)[j] = op[j]
  BY <1>1, <1>2, Starts DEF ToolInv
<1>5. /\ \A j \in 1 .. n + 1 : at[j] \in Nat /\ op[j] \in Nat
      /\ at[n + 1] = m.lastscan
      /\ \A j \in 1 .. n :
           /\ at[j + 1] = at[j] + blocks[j].diff + blocks[j].extra /\ at[j + 1] <= newsize
           /\ op[j] + blocks[j].diff <= oldsize
           /\ Written(j, at[j], op[j])
  BY <1>1, <1>2 DEF Chained
<1>6. \A j \in 1 .. n : j \in 1 .. n + 1 /\ j + 1 \in 1 .. n + 1
  BY <1>3
<1>7. BlocksInside
  <2>1. ASSUME NEW j \in 1 .. n
        PROVE  /\ blocks[j].diff >= 0 /\ blocks[j].extra >= 0
               /\ OldStart(blocks)[j] >= 0 /\ OldStart(blocks)[j] + blocks[j].diff <= oldsize
    <3>1. OldStart(blocks)[j] = op[j] /\ op[j] \in Nat /\ blocks[j].diff \in Nat /\ blocks[j].extra \in Nat
      BY <1>3, <1>4, <1>5, <1>6
    <3>2. op[j] + blocks[j].diff <= oldsize
      BY <1>5
    <3>3. QED
      BY <3>1, <3>2
  <2>2. QED
    BY <1>3, <2>1 DEF BlocksInside
<1>8. NewStart(blocks)[Len(blocks) + 1] = m.lastscan
  <2>1. n + 1 \in 1 .. n + 1
    BY <1>3
  <2>2. QED
    BY <1>2, <1>4, <1>5, <2>1
<1>9. pc = "done" => m.lastscan = newsize
  BY DEF ToolInv, ScanOK
<1>10. ASSUME NEW j \in 1 .. n
       PROVE  Rebuilt(j) = [k \in 1 .. blocks[j].diff + blocks[j].extra |-> new[NewStart(blocks)[j] + k - 1]]
  <2>1. pc # "sort"
    BY <1>2, <1>3, <1>10 DEF ToolInv, SortFirst
  <2>2. /\ oldsize \in Nat /\ newsize \in Nat /\ Bytes \in Nat /\ Bytes > 0 /\ old \in Olds
        /\ \A k \in 0 .. newsize - 1 : new[k] \in 0 .. Bytes - 1
        /\ \A k \in 0 .. oldsize - 1 : old[k] \in 0 .. Bytes - 1
    <3>1. \A k \in 0 .. newsize - 1 : new[k] \in 0 .. Bytes - 1
      BY <2>1, NewFinite DEF ToolInv
    <3>2. \A k \in 0 .. oldsize - 1 : old[k] \in 0 .. Bytes - 1
      BY Scanning, OldFinite, DiffAssumption
    <3>3. QED
      BY <3>1, <3>2, Scanning, DiffAssumption
  <2>3. PICK d, e, a, o : d = blocks[j].diff /\ e = blocks[j].extra /\ a = at[j] /\ o = op[j]
    OBVIOUS
  <2>4. /\ d \in Nat /\ e \in Nat /\ a \in Nat /\ o \in Nat /\ a + d + e <= newsize /\ o + d <= oldsize
        /\ NewStart(blocks)[j] = a /\ OldStart(blocks)[j] = o
    BY <1>3, <1>4, <1>5, <1>6, <2>3
  <2>5. PICK f : f = [k \in 1 .. d + e |-> new[a + k - 1]]
    OBVIOUS
  <2>6. PICK s, t : /\ s = [k \in 1 .. d |-> (old[o + k - 1] + data[j].diff[k]) % Bytes]
                    /\ t = data[j].extra
    OBVIOUS
  <2>7. ASSUME NEW k \in 1 .. d PROVE s[k] = new[a + k - 1] /\ s[k] \in 0 .. Bytes - 1
    <3>1. o + k - 1 \in 0 .. oldsize - 1 /\ a + k - 1 \in 0 .. newsize - 1
      BY <2>2, <2>4
    <3>2. old[o + k - 1] \in 0 .. Bytes - 1 /\ new[a + k - 1] \in 0 .. Bytes - 1
      BY <2>2, <3>1
    <3>3. data[j].diff[k] = (new[a + k - 1] - old[o + k - 1]) % Bytes
      <4>1. data[j].diff = [l \in 1 .. d |-> (new[a + l - 1] - old[o + l - 1]) % Bytes]
        BY <1>5, <2>3 DEF Written
      <4>2. QED
        BY <4>1, Zenon
    <3>4. s[k] = (old[o + k - 1] + data[j].diff[k]) % Bytes
      BY <2>6, Zenon
    <3>5. (old[o + k - 1] + ((new[a + k - 1] - old[o + k - 1]) % Bytes)) % Bytes = new[a + k - 1]
      BY <3>2, ByteBack
    <3>6. s[k] = new[a + k - 1]
      BY <3>3, <3>4, <3>5, Zenon
    <3>7. QED
      BY <3>2, <3>6
  <2>8. s \in Seq(0 .. Bytes - 1) /\ Len(s) = d
    BY <2>4, <2>6, <2>7
  <2>9. t = [k \in 1 .. e |-> new[a + d + k - 1]]
    BY <1>5, <2>3, <2>6 DEF Written
  <2>10. t \in Seq(0 .. Bytes - 1) /\ Len(t) = e
    <3>1. t \in Seq(0 .. Bytes - 1)
      BY <1>3, <2>6
    <3>2. DOMAIN t = 1 .. e
      BY <2>9
    <3>3. QED
      BY <2>4, <3>1, <3>2
  <2>11. \A k \in 1 .. d : f[k] = s[k]
    BY <2>4, <2>5, <2>7
  <2>12. ASSUME NEW k \in 1 .. e PROVE f[d + k] = t[k]
    <3>1. d + k \in 1 .. d + e /\ a + (d + k) - 1 = a + d + k - 1
      BY <2>4
    <3>2. f[d + k] = new[a + (d + k) - 1]
      BY <2>5, <3>1
    <3>3. t[k] = new[a + d + k - 1]
      BY <2>9, Zenon
    <3>4. QED
      BY <3>1, <3>2, <3>3
  <2>13. s \o t = f
    <3>1. \A k \in 1 .. Len(s) : f[k] = s[k]
      BY <2>8, <2>11
    <3>2. \A k \in 1 .. Len(t) : f[Len(s) + k] = t[k]
      BY <2>8, <2>10, <2>12
    <3>3. f \in [1 .. Len(s) + Len(t) -> 0 .. Bytes - 1]
      <4>1. ASSUME NEW k \in 1 .. d + e PROVE new[a + k - 1] \in 0 .. Bytes - 1
        <5>1. a + k - 1 \in 0 .. newsize - 1
          BY <2>2, <2>4
        <5>2. QED
          BY <2>2, <5>1
      <4>2. f \in [1 .. d + e -> 0 .. Bytes - 1]
        BY <2>5, <4>1
      <4>3. QED
        BY <2>8, <2>10, <4>2
    <3>4. PICK S : S = 0 .. Bytes - 1
      OBVIOUS
    <3>5. s \in Seq(S) /\ t \in Seq(S) /\ f \in [1 .. Len(s) + Len(t) -> S]
      BY <2>8, <2>10, <3>3, <3>4
    <3>6. QED
      BY ONLY <3>1, <3>2, <3>5, Joined
  <2>14. Rebuilt(j) = s \o t
    BY <2>3, <2>4, <2>6 DEF Rebuilt
  <2>15. QED
    BY <2>3, <2>4, <2>5, <2>13, <2>14
<1>11. QED
  BY <1>3, <1>7, <1>8, <1>9, <1>10 DEF Reproduces

LEMMA ToolKeeps ==
  ASSUME ToolInv, [Next]_vars
  PROVE  ToolInv'
<1>1. CASE Sort
  BY <1>1, SortTool
<1>2. CASE ReadNew
  BY <1>2, ReadNewTool
<1>3. CASE Outer
  BY <1>3, OuterTool
<1>4. CASE Find
  BY <1>4, FindTool
<1>5. CASE Score
  BY <1>5, ScoreTool
<1>6. CASE InnerEnds
  BY <1>6, InnerEndsTool
<1>7. CASE Extend
  BY <1>7, ExtendTool
<1>8. CASE Divide
  BY <1>8, DivideTool
<1>9. CASE Emit
  BY <1>9, EmitTool
<1>10. CASE UNCHANGED vars
  <2>1. UNCHANGED sortVars /\ UNCHANGED <<old, head, pc, new, m, blocks, data>>
    BY <1>10 DEF vars, sortVars
  <2>2. SortInv'
    BY <2>1, SortKeeps DEF ToolInv
  <2>3. newsize' = newsize /\ oldsize' = oldsize
    BY <2>1 DEF newsize, oldsize
  <2>4. DOMAIN m' = Fields /\ SortFirst' /\ ScanOK'
    BY <2>1, <2>3 DEF ToolInv, SortFirst, ScanOK
  <2>5. BlocksOK'
    BY <2>1, BlocksKept DEF ToolInv
  <2>6. QED
    BY <2>2, <2>4, <2>5 DEF ToolInv
<1>11. QED
  BY <1>1, <1>2, <1>3, <1>4, <1>5, <1>6, <1>7, <1>8, <1>9, <1>10 DEF Next

(***************************************************************************)
(* What the boot loader makes of the old firmware and the blocks is the new*)
(* firmware, up to the place the scan has written and in the end all of it,*)
(* for all firmwares, whatever the search finds and however the matches    *)
(* overlap; and every block reads inside the old firmware.                 *)
(***************************************************************************)
THEOREM PatchReproduces == Spec => []Reproduces
<1>1. Init => ToolInv
  BY ToolStarts
<1>2. ToolInv /\ [Next]_vars => ToolInv'
  BY ToolKeeps
<1>3. ToolInv => Reproduces
  BY ToolReproduces
<1>4. QED
  BY <1>1, <1>2, <1>3, PTL DEF Spec
=============================================================================
