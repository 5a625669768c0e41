----------------------------- MODULE SuffixSort -----------------------------
(***************************************************************************)
(* qsufsort and split, the sort of all suffixes of the old firmware with   *)
(* which the host tool starts (bsdiff.c): in round h the groups of suffixes*)
(* with the same first h bytes are split by the group of the suffix that is*)
(* h bytes behind, while those groups are being split themselves.          *)
(*                                                                         *)
(* A group lies at successive places of I, and V gives for each of its     *)
(* members the last of them; inside a group the order of I means nothing,  *)
(* so that a group is a set here, and the pivot, which the code takes from *)
(* its middle, is any member.                                              *)
(***************************************************************************)
EXTENDS Integers, Sequences, FiniteSets

CONSTANTS
  Olds,       \* old firmwares, as functions on 0 .. oldsize-1
  SmallSort   \* a group below this size is sorted by selection

ASSUME SortAssumption ==
  /\ \A o \in Olds : /\ IsFiniteSet(DOMAIN o) /\ DOMAIN o = 0 .. Cardinality(DOMAIN o) - 1
                    /\ \A k \in DOMAIN o : o[k] \in Nat
  /\ SmallSort \in Nat \ {0, 1}

VARIABLES
  old,
  V,
  sorted,   \* the places of I that hold a negative number: groups of one
  head,     \* -I[0]: the length of the first run of them, as last written
  h,
  i,        \* the scan through I
  frames    \* the calls of split under way, the innermost first

sortVars == <<old, V, sorted, head, h, i, frames>>

oldsize  == Cardinality(DOMAIN old)
Suffixes == 0 .. oldsize

Smallest(S) == CHOOSE x \in S : \A y \in S : x <= y

\* The place behind the bytes of old that are not greater than c.
Bucket(o, c) == Cardinality({k \in DOMAIN o : o[k] <= c})

SortInit ==
  /\ old \in Olds
  /\ V = [k \in Suffixes |-> IF k = oldsize THEN 0 ELSE Bucket(old, old[k])]
  /\ sorted = {0} \cup {V[k] : k \in {x \in DOMAIN old : old[x] > 0 /\ \A y \in DOMAIN old : old[y] = old[x] => y = x}}
  /\ head = 1 /\ h = 1 /\ i = 0 /\ frames = <<>>

Finished == i = 0 /\ head = oldsize + 1

\* A run of groups of one is passed over, and its length written to its first place.
Skip ==
  /\ frames = <<>> /\ ~Finished /\ i \in sorted
  /\ i' = Smallest({k \in i .. oldsize + 1 : k \notin sorted})
  /\ head' = IF i = 0 THEN i' ELSE head
  /\ UNCHANGED <<old, V, sorted, h, frames>>

Frame(start, members, equal) == [start |-> start, members |-> members, equal |-> equal]

SplitGroup ==
  /\ frames = <<>> /\ i <= oldsize /\ i \notin sorted
  /\ LET last == Smallest({V[k] : k \in Suffixes} \cap (i .. oldsize))
     IN  /\ frames' = <<Frame(i, {k \in Suffixes : V[k] = last}, FALSE)>>
         /\ i' = last + 1
  /\ UNCHANGED <<old, V, sorted, head, h>>

\* Mutant: h grows by one place too many.
NextRoundBeyond ==
  /\ frames = <<>> /\ i = oldsize + 1
  /\ h' = h + h + 1 /\ i' = 0
  /\ UNCHANGED <<old, V, sorted, head, frames>>

NextRound ==
  /\ frames = <<>> /\ i = oldsize + 1
  /\ h' = h + h /\ i' = 0
  /\ UNCHANGED <<old, V, sorted, head, frames>>

-----------------------------------------------------------------------------
(* split.                                                                    *)

top == frames[1]

Key(k) == V[k + h]

\* The members get the last of their places.
Settle(start, members) ==
  /\ V' = [k \in Suffixes |-> IF k \in members THEN start + Cardinality(members) - 1 ELSE V[k]]
  /\ sorted' = IF Cardinality(members) = 1 THEN sorted \cup {start} ELSE sorted

InSplit(equal) == frames # <<>> /\ top.equal = equal

\* A turn of the loop for a small group: those with the smallest key.
Selection ==
  /\ InSplit(FALSE) /\ Cardinality(top.members) < SmallSort
  /\ LET x    == Smallest({Key(k) : k \in top.members})
         same == {k \in top.members : Key(k) = x}
     IN  /\ Settle(top.start, same)
         /\ frames' = IF same = top.members THEN Tail(frames)
                      ELSE <<Frame(top.start + Cardinality(same), top.members \ same, FALSE)>> \o Tail(frames)
  /\ UNCHANGED <<old, head, h, i>>

Parts(less, equal, more) ==
  LET jj == top.start + Cardinality(less)
  IN  (IF less = {} THEN <<>> ELSE <<Frame(top.start, less, FALSE)>>)
        \o <<Frame(jj, equal, TRUE)>>
        \o (IF more = {} THEN <<>> ELSE <<Frame(jj + Cardinality(equal), more, FALSE)>>)

\* A large group: smaller, equal and greater keys, the smaller ones first.
Partition ==
  /\ InSplit(FALSE) /\ Cardinality(top.members) >= SmallSort
  /\ \E x \in {Key(k) : k \in top.members} :
       frames' = Parts({k \in top.members : Key(k) < x}, {k \in top.members : Key(k) = x},
                       {k \in top.members : Key(k) > x}) \o Tail(frames)
  /\ UNCHANGED <<old, V, sorted, head, h, i>>

Middle ==
  /\ InSplit(TRUE)
  /\ Settle(top.start, top.members)
  /\ frames' = Tail(frames)
  /\ UNCHANGED <<old, head, h, i>>

SortNext == Skip \/ SplitGroup \/ NextRound \/ Selection \/ Partition \/ Middle

\* I at the end.
I == [k \in Suffixes |-> CHOOSE x \in Suffixes : V[x] = k]

-----------------------------------------------------------------------------

\* The end of the file comes before every byte.
Before(a, b) ==
  \E n \in 0 .. oldsize - b - 1 :
    /\ \A k \in 0 .. n - 1 : a + k < oldsize /\ old[a + k] = old[b + k]
    /\ a + n = oldsize \/ old[a + n] < old[b + n]

SameStart(a, b, n) == \A k \in 0 .. n - 1 : a + k < oldsize /\ b + k < oldsize /\ old[a + k] = old[b + k]

(***************************************************************************)
(* V never contradicts the order of the suffixes, although it is read while*)
(* it is being changed, and suffixes that share a value agree in their     *)
(* first h bytes, so that reading V h places on stays inside V.            *)
(***************************************************************************)
Ranked ==
  \A a, b \in Suffixes :
    /\ V[a] < V[b] => Before(a, b)
    /\ a # b /\ V[a] = V[b] => SameStart(a, b, h)
=============================================================================
