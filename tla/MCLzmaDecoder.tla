---------------------------- MODULE MCLzmaDecoder ----------------------------
(* Streams of a few symbols for LzmaDecoder: bytes that are read early and    *)
(* late, matches that fill the dictionary, reach across its end or too far.   *)
EXTENDS LzmaDecoder

CONSTANT MaxSyms

Lit(cost, late)         == [kind |-> "literal", len |-> 0, dist |-> 0, cost |-> cost, late |-> late]
Mat(len, dist, cost, late) == [kind |-> "match", len |-> len, dist |-> dist, cost |-> cost, late |-> late]
Rep(len, k, cost)       == [kind |-> "rep", len |-> len, dist |-> k, cost |-> cost, late |-> 0]
Short                   == [kind |-> "short", len |-> 0, dist |-> 0, cost |-> 0, late |-> 1]
EndMark                 == [kind |-> "mark", len |-> 0, dist |-> 0, cost |-> RequiredMax, late |-> 0]

First    == {Lit(0, 0), Lit(1, 1), Short, Mat(2, 1, 1, 0)}
Alphabet == {Lit(0, 1), Lit(1, 0), Mat(2, 1, 0, 0), Mat(4, 2, RequiredMax - 1, 1), Mat(3, 3, 1, 1),
             Rep(2, 1, 1), Short}

Sequences ==
  {<<s>> : s \in First} \cup
  UNION {{<<s>> \o t : s \in First, t \in [1 .. n -> Alphabet]} : n \in 1 .. MaxSyms - 1}

\* A bad stream ends with the symbol that is bad.
Minimal(s) == Valid(SubSeq(s, 1, Len(s) - 1))

Symbols == {s \in Sequences : Minimal(s)}

\* Whole, cut short in the area, with an end mark, and longer than unpackSize.
MCStreams ==
  LET long(s) == Coded(s)[Len(s)]
      size(s) == Len(Text(s))
      two     == {s \in Symbols : Len(s) = 2 /\ Valid(s)}
  IN  {[syms |-> s, unpack |-> size(s) + (IF Valid(s) THEN 0 ELSE 1), area |-> long(s) + 1] : s \in Symbols}
      \cup {[syms |-> s, unpack |-> size(s), area |-> long(s) - 1] : s \in two}
      \cup {[syms |-> Append(s, EndMark), unpack |-> size(s), area |-> long(s) + RequiredMax] : s \in two}
      \cup {[syms |-> s, unpack |-> size(s) - 1, area |-> long(s) + 1] : s \in two}
=============================================================================
