--------------------------- MODULE MCFirmwarePatch ---------------------------
(* Instances of FirmwarePatch: two cells to a sector, patches of one or two  *)
(* blocks that rewrite a firmware of NewCells cells.                          *)
EXTENDS FirmwarePatch

CONSTANTS OldCells, NewCells   \* lengths of the old and of the new firmware

Single == {<<[diff |-> d, extra |-> NewCells - d, adjust |-> 0]>> :
             d \in 0 .. IF NewCells < OldCells THEN NewCells ELSE OldCells}

Double ==
  {<<[diff |-> n[1], extra |-> n[2], adjust |-> a],
     [diff |-> n[3], extra |-> n[4], adjust |-> 0]>> :
      n \in {m \in [1 .. 4 -> 0 .. NewCells] : m[1] + m[2] + m[3] + m[4] = NewCells},
      a \in -OldCells .. OldCells}

\* Both blocks read inside the old firmware, as the patches of bsdiff do.
InsideOld(p) ==
  \A j \in DOMAIN p : OldStart(p)[j] >= 0 /\ OldStart(p)[j] + p[j].diff <= OldCells

\* TLC keeps the elements of this set, and not the test that selects them.
Listed(S) == {x : x \in S}

AllPatches == {p \in Single \cup Double : InsideOld(p)}

\* No empty run of old bytes starts at a sector boundary.
Accepted == {p \in AllPatches : \A j \in DOMAIN p : p[j].diff > 0 \/ Offset(NewStart(p)[j]) # 0}

\* Every sector the patch rewrites is one that it reads.
Gapless ==
  Listed({p \in Accepted : \A c \in 0 .. NewCells - 1 : ReadByPatch(p, Sector(c))})

\* And none ends with an empty run of extra bytes behind the last sector, for
\* which a backup is recycled although no record of that sector will follow.
EndsInside ==
  Listed({p \in Gapless : p[Len(p)].extra > 0 \/ Offset(NewCells) # 0})

\* With a chain of more blocks than the boot loader has room for.
TooLong ==
  <<[diff |-> 1, extra |-> 0, adjust |-> 0], [diff |-> 1, extra |-> 0, adjust |-> 0],
    [diff |-> NewCells - 2, extra |-> 0, adjust |-> 0]>>

AnyPatch == Listed(AllPatches \cup {TooLong})

FlashWrites == {"flagErase", "magicErase", "magicWrite", "seaErase", "seaWrite",
                "stErase", "fwErase", "fwWrite", "clear"}

RewriteSteps == {"fwErase", "fwWrite", "clear"}
=============================================================================
