----------------------------- MODULE LzmaStream -----------------------------
(***************************************************************************)
(* What an LZMA stream says, for LzmaDecoder: a stream is a sequence of    *)
(* symbols, each of which is coded in so many bytes, and the text it stands*)
(* for is what a decoder with an unlimited history would write.            *)
(***************************************************************************)
EXTENDS Integers, Sequences

CONSTANTS
  DicSize,      \* prop.dicSize
  InitSize,     \* RC_INIT_SIZE
  RequiredMax   \* LZMA_REQUIRED_INPUT_MAX

ASSUME StreamAssumption ==
  /\ {DicSize, InitSize, RequiredMax} \subseteq Nat \ {0}

(***************************************************************************)
(* cost: the bytes that are read before a bit of the symbol is decoded.    *)
(* late: the byte that NORMALIZE would read after its last bit; the next   *)
(* symbol reads it if nobody else has.                                     *)
(***************************************************************************)
Symbol == [kind : {"literal", "match", "short", "rep", "mark"},
           len  : Nat,   \* of a match or a rep
           dist : Nat,   \* of a match; the index into reps of a rep
           cost : Nat, late : {0, 1}]

FitsRequired(s) == s.cost + s.late <= RequiredMax

SpecStart == 274    \* kMatchSpecLenStart: more than the length of any match

\* What the format can say; nothing comes behind the end mark.
WellFormed(syms) ==
  \A n \in DOMAIN syms :
    /\ syms[n].kind \in {"match", "rep"} => syms[n].len \in 2 .. SpecStart - 1
    /\ syms[n].kind = "match" => syms[n].dist >= 1
    /\ syms[n].kind = "rep" => syms[n].dist \in 0 .. 3
    /\ syms[n].kind = "mark" => n = Len(syms)

-----------------------------------------------------------------------------
\* A literal is a byte of its own, named by its position among the symbols.
Last(text, dist) == text[Len(text) + 1 - dist]

Copied(text, dist, len) ==
  text \o [i \in 1 .. len |-> Last(text, dist - ((i - 1) % dist))]

\* The distance of rep k comes to the front.
ToFront(reps, k) == [i \in 0 .. 3 |-> IF i = 0 THEN reps[k] ELSE IF i <= k THEN reps[i - 1] ELSE reps[i]]
Pushed(reps, d)  == [i \in 0 .. 3 |-> IF i = 0 THEN d ELSE reps[i - 1]]
FirstReps        == [i \in 0 .. 3 |-> 1]

LessOf(a, b) == IF a < b THEN a ELSE b

Reaches(text, dist) == dist \in 1 .. LessOf(Len(text), DicSize)

\* What a match or a rep copies, and the distances after it.
Distance(s, reps) ==
  CASE s.kind = "match" -> s.dist
    [] s.kind = "rep"   -> reps[s.dist]
    [] OTHER            -> reps[0]

Length(s) == IF s.kind = "short" THEN 1 ELSE s.len

RepsAfter(s, reps) ==
  CASE s.kind = "match" -> Pushed(reps, s.dist)
    [] s.kind = "rep"   -> ToFront(reps, s.dist)
    [] OTHER            -> reps

\* Symbol s, the n-th, after b; a distance beyond the text makes the stream invalid.
Told(s, n, b) ==
  CASE ~b.ok \/ s.kind = "mark" -> b
    [] b.ok /\ s.kind = "literal" -> [b EXCEPT !.text = Append(@, n)]
    [] b.ok /\ s.kind \in {"match", "rep", "short"} ->
         LET d == Distance(s, b.reps)
         IN  IF Reaches(b.text, d)
               THEN [text |-> Copied(b.text, d, Length(s)), reps |-> RepsAfter(s, b.reps), ok |-> TRUE]
               ELSE [b EXCEPT !.ok = FALSE]

\* [text, reps, ok] after the first n symbols.
Meaning(syms) ==
  LET m[n \in 0 .. Len(syms)] ==
        IF n = 0 THEN [text |-> <<>>, reps |-> FirstReps, ok |-> TRUE]
        ELSE Told(syms[n], n, m[n - 1])
  IN  m

Text(syms)  == Meaning(syms)[Len(syms)].text
Valid(syms) == Meaning(syms)[Len(syms)].ok

\* Bytes of the stream up to the end of symbol n.
Coded(syms) ==
  LET c[n \in 0 .. Len(syms)] ==
        IF n = 0 THEN InitSize ELSE c[n - 1] + syms[n].cost + syms[n].late
  IN  c
=============================================================================
