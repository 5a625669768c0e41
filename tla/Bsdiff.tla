------------------------------- MODULE Bsdiff -------------------------------
(***************************************************************************)
(* The host tool that makes a patch (main of bsdiff.c): the old firmware is*)
(* sorted, the new one is scanned for what the old one has, and every match*)
(* that is not the continuation of the last one becomes a block, which is  *)
(* extended as far as it pays to both sides.                               *)
(*                                                                         *)
(* What the boot loader makes of the blocks is PatchGeometry.  A byte is a *)
(* number below Bytes, and a difference of two is taken modulo Bytes.      *)
(***************************************************************************)
EXTENDS SuffixSort, PatchGeometry, FiniteSetsExt

CONSTANTS
  News,    \* new firmwares
  Bytes,   \* 256
  Slack    \* 32: so much better must a match be than the last one continued

ASSUME DiffAssumption ==
  /\ \A n \in News : IsFiniteSet(DOMAIN n) /\ DOMAIN n = 0 .. Cardinality(DOMAIN n) - 1
  /\ \A f \in Olds \cup News : \A k \in DOMAIN f : f[k] \in 0 .. Bytes - 1
  /\ Bytes \in Nat \ {0} /\ Slack \in Nat

VARIABLES
  pc, new,
  m,        \* scan, scsc, len, pos, oldscore, lastscan, lastpos, lastoffset, lenf, lenb
  blocks,   \* the chain, and the lengths in db
  data      \* what db holds behind the lengths of each block

vars == <<sortVars, pc, new, m, blocks, data>>

newsize == Cardinality(DOMAIN new)

Init ==
  /\ SortInit
  /\ pc = "sort" /\ new = <<>> /\ blocks = <<>> /\ data = <<>>
  /\ m = [scan |-> 0, scsc |-> 0, len |-> 0, pos |-> 0, oldscore |-> 0,
          lastscan |-> 0, lastpos |-> 0, lastoffset |-> 0, lenf |-> 0, lenb |-> 0]

Sort == pc = "sort" /\ SortNext /\ UNCHANGED <<pc, new, m, blocks, data>>

\* The new firmware is read when the old one has been sorted.
ReadNew ==
  /\ pc = "sort" /\ frames = <<>> /\ Finished
  /\ new' \in News /\ pc' = "outer"
  /\ UNCHANGED <<sortVars, m, blocks, data>>

-----------------------------------------------------------------------------
(* search.                                                                   *)

Shorter(a, b) == IF a < b THEN a ELSE b

\* matchlen of old from k on and new from scan on
MatchLen(k, scan) ==
  LET limit == Shorter(oldsize - k, newsize - scan)
  IN  Smallest({n \in 0 .. limit : n = limit \/ old[k + n] # new[scan + n]})

\* memcmp of the shorter length
Less(k, scan) ==
  LET n == MatchLen(k, scan)
  IN  k + n < oldsize /\ scan + n < newsize /\ old[k + n] < new[scan + n]

\* [len, pos] of the best of the places that binary search leaves.
Search(scan) ==
  LET place == I
      find[r \in Suffixes \X Suffixes] ==
        LET st == r[1]
            en == r[2]
            x  == st + (en - st) \div 2
            lx == MatchLen(place[st], scan)
            ly == MatchLen(place[en], scan)
        IN  IF en - st < 2
              THEN IF lx > ly THEN [len |-> lx, pos |-> place[st]] ELSE [len |-> ly, pos |-> place[en]]
              ELSE IF Less(place[x], scan) THEN find[<<x, en>>] ELSE find[<<st, x>>]
  IN  find[<<0, oldsize>>]

-----------------------------------------------------------------------------
(* The scan.                                                                 *)

\* The last match, continued, has this byte of the new firmware.
Continues(k) == k + m.lastoffset < oldsize /\ old[k + m.lastoffset] = new[k]

Outer ==
  /\ pc = "outer"
  /\ IF m.scan < newsize
       THEN /\ m' = [m EXCEPT !.oldscore = 0, !.scan = @ + m.len, !.scsc = m.scan + m.len]
            /\ pc' = "inner"
       ELSE pc' = "done" /\ UNCHANGED m
  /\ UNCHANGED <<sortVars, new, blocks, data>>

\* Mutant: a match of length 0 is one, too.
WorthEmpty(len, score) == len = score \/ len > score + Slack

\* The search goes no further: the last match goes on, or this one is much better.
Worth(len, score) == (len = score /\ len # 0) \/ len > score + Slack

Find ==
  /\ pc = "inner" /\ m.scan < newsize
  /\ LET best == Search(m.scan) IN m' = [m EXCEPT !.len = best.len, !.pos = best.pos]
  /\ pc' = "score"
  /\ UNCHANGED <<sortVars, new, blocks, data>>

Score ==
  /\ pc = "score"
  /\ LET upto  == m.scan + m.len
         score == m.oldscore + Quantify(m.scsc .. upto - 1, Continues)
         scsc  == IF m.scsc > upto THEN m.scsc ELSE upto
     IN  IF Worth(m.len, score)
           THEN m' = [m EXCEPT !.oldscore = score, !.scsc = scsc] /\ pc' = "extend"
           ELSE /\ m' = [m EXCEPT !.scan = @ + 1, !.scsc = scsc,
                                  !.oldscore = IF Continues(m.scan) THEN score - 1 ELSE score]
                /\ pc' = "inner"
  /\ UNCHANGED <<sortVars, new, blocks, data>>

InnerEnds ==
  /\ pc = "inner" /\ m.scan = newsize
  /\ pc' = "extend"
  /\ UNCHANGED <<sortVars, new, m, blocks, data>>

-----------------------------------------------------------------------------
(* A block.                                                                  *)

\* The first of 0 .. n with the greatest score.
FirstBest(n, score(_)) ==
  Smallest({k \in 0 .. n : \A l \in 0 .. n : score(l) <= score(k)})

\* lenf: how far the last match goes on, as long as half the bytes agree.
Forward ==
  LET agree(k) == old[m.lastpos + k] = new[m.lastscan + k]
      score(n) == 2 * Quantify(0 .. n - 1, agree) - n
  IN  FirstBest(Shorter(m.scan - m.lastscan, oldsize - m.lastpos), score)

\* lenb: how far back the new match goes.
Backward ==
  LET agree(k) == old[m.pos - k] = new[m.scan - k]
      score(n) == 2 * Quantify(1 .. n, agree) - n
  IN  IF m.scan < newsize THEN FirstBest(Shorter(m.scan - m.lastscan, m.pos), score) ELSE 0

\* lens: where two blocks overlap, what is left to the first.
Share(overlap) ==
  LET from == m.lastscan + m.lenf - overlap
      first(k)  == new[from + k] = old[m.lastpos + m.lenf - overlap + k]
      second(k) == new[m.scan - m.lenb + k] = old[m.pos - m.lenb + k]
      score(n)  == Quantify(0 .. n - 1, first) - Quantify(0 .. n - 1, second)
  IN  FirstBest(overlap, score)

\* Mutant: the end of the new firmware does not end a block.
NewMatchOnly == m.len # m.oldscore

\* A match that is not the last one continued, or the end of the new firmware.
EndsBlock == m.len # m.oldscore \/ m.scan = newsize

Extend ==
  /\ pc = "extend"
  /\ IF EndsBlock THEN pc' = "share" /\ m' = [m EXCEPT !.lenf = Forward, !.lenb = Backward]
                  ELSE pc' = "outer" /\ UNCHANGED m
  /\ UNCHANGED <<sortVars, new, blocks, data>>

Overlap == (m.lastscan + m.lenf) - (m.scan - m.lenb)

Divide ==
  /\ pc = "share"
  /\ LET lens == Share(Overlap)
     IN  m' = IF Overlap > 0 THEN [m EXCEPT !.lenf = @ + lens - Overlap, !.lenb = @ - lens] ELSE m
  /\ pc' = "emit"
  /\ UNCHANGED <<sortVars, new, blocks, data>>

Emit ==
  /\ pc = "emit"
  /\ LET extra == (m.scan - m.lenb) - (m.lastscan + m.lenf)
     IN  /\ blocks' = Append(blocks, [diff |-> m.lenf, extra |-> extra,
                                      adjust |-> (m.pos - m.lenb) - (m.lastpos + m.lenf)])
         /\ data' = Append(data,
              [diff  |-> [k \in 1 .. m.lenf |-> (new[m.lastscan + k - 1] - old[m.lastpos + k - 1]) % Bytes],
               extra |-> [k \in 1 .. extra |-> new[m.lastscan + m.lenf + k - 1]]])
  /\ m' = [m EXCEPT !.lastscan = m.scan - m.lenb, !.lastpos = m.pos - m.lenb,
                    !.lastoffset = m.pos - m.scan]
  /\ pc' = "outer"
  /\ UNCHANGED <<sortVars, new>>

Next == Sort \/ ReadNew \/ Outer \/ Find \/ Score \/ InnerEnds \/ Extend \/ Divide \/ Emit

Spec == Init /\ [][Next]_vars /\ WF_vars(Next)

-----------------------------------------------------------------------------

\* What the boot loader makes of block j, reading the old firmware where the
\* chain says that the block begins.
Rebuilt(j) ==
  LET from == OldStart(blocks)[j]
  IN  [k \in 1 .. blocks[j].diff |-> (old[from + k - 1] + data[j].diff[k]) % Bytes] \o data[j].extra

(***************************************************************************)
(* Every block reads inside the old firmware and has no negative length:   *)
(* what FirmwarePatch takes for granted of a patch (the comments of its    *)
(* Patches), with the blocks chained as the boot loader does.              *)
(***************************************************************************)
BlocksInside ==
  \A j \in DOMAIN blocks :
    /\ blocks[j].diff >= 0 /\ blocks[j].extra >= 0
    /\ OldStart(blocks)[j] >= 0 /\ OldStart(blocks)[j] + blocks[j].diff <= oldsize

(***************************************************************************)
(* The boot loader makes the new firmware out of the old one and the blocks*)
(* so far up to the place the scan has written, and in the end all of it,  *)
(* wherever matches begin, overlap and end.                                *)
(***************************************************************************)
Reproduces ==
  LET at == NewStart(blocks)
  IN  /\ BlocksInside
      /\ at[Len(blocks) + 1] = m.lastscan
      /\ pc = "done" => m.lastscan = newsize
      /\ \A j \in DOMAIN blocks :
           Rebuilt(j) = [k \in 1 .. blocks[j].diff + blocks[j].extra |-> new[at[j] + k - 1]]

(***************************************************************************)
(* The rounds of the sort come to an end, and the scan to that of the new  *)
(* firmware.                                                               *)
(***************************************************************************)
ToolEnds == <>(pc = "done")
=============================================================================
