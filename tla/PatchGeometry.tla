---------------------------- MODULE PatchGeometry ----------------------------
(***************************************************************************)
(* The geometry of an in-place differential upgrade: flash sectors, the    *)
(* chain of blocks of a patch, and the tests the boot loader makes on them *)
(* (smfota/src/sm_arch_interface.c, smfota/inc/arch_interface.h).          *)
(*                                                                         *)
(* Flash is counted in cells: SectorSize cells make one sector, the unit   *)
(* that is erased (32 KiB in the code).                                    *)
(***************************************************************************)
EXTENDS Integers, Sequences

CONSTANTS
  SectorSize,   \* cells per sector (F_SECTORE_SIZE)
  Pool,         \* sectors the status table has an entry for (F_BK_POOL_NUM)
  SeaSlots      \* sectors of the backup sea (bk_max_sector)

ASSUME GeometryAssumption ==
  /\ SectorSize \in Nat \ {0}
  /\ Pool       \in Nat \ {0}
  /\ SeaSlots   \in Nat \ {0}

Sectors == 0 .. Pool - 1
Offsets == 0 .. SectorSize - 1
Slots   == 0 .. SeaSlots - 1

Sector(pos) == pos \div SectorSize     \* F_ALIGN_SECTOR, as a sector number
Offset(pos) == pos % SectorSize

Least(S)    == CHOOSE x \in S : \A y \in S : x <= y
Greatest(S) == CHOOSE x \in S : \A y \in S : y <= x

(***************************************************************************)
(* A block of a patch copies `diff' cells from the old firmware (adding a  *)
(* difference), inserts `extra' new cells and then moves the position in   *)
(* the old firmware by `adjust'.  The chain at the head of a patch repeats *)
(* diff and adjust of every block; OldStart(p)[j] is the position in the   *)
(* old firmware at which block j begins.                                   *)
(***************************************************************************)
Block == [diff : Nat, extra : Nat, adjust : Int]

OldStart(p) ==
  LET start[j \in 1 .. Len(p)] ==
        IF j = 1 THEN 0 ELSE start[j - 1] + p[j - 1].diff + p[j - 1].adjust
  IN  start

NewStart(p) ==
  LET start[j \in 1 .. Len(p) + 1] ==
        IF j = 1 THEN 0 ELSE start[j - 1] + p[j - 1].diff + p[j - 1].extra
  IN  start

\* The new firmware fits the flash: the positions at which the blocks begin,
\* and the one at which the last one ends, are below the end of the pool.
FitsPool(p) ==
  \E start \in [1 .. Len(p) + 1 -> 0 .. Pool * SectorSize - 1] :
     /\ start[1] = 0
     /\ \A j \in DOMAIN p : start[j + 1] = start[j] + p[j].diff + p[j].extra

NewLength(p) == NewStart(p)[Len(p) + 1]

\* Does sector k touch the old cells from..to?  Both ends count, as in the code.
Touches(k, from, to) == k * SectorSize + SectorSize >= from /\ k * SectorSize <= to

\* backup_old_sector: some block of the chain reads sector k of the old firmware.
ReadByPatch(p, k) ==
  LET start == OldStart(p)
  IN  \E j \in DOMAIN p : Touches(k, start[j], start[j] + p[j].diff)

\* Mutant: only the rest of the current block is looked at.
StillReadHere(p, cur, oldpos, k) == Touches(k, oldpos, OldStart(p)[cur] + p[cur].diff)

\* check_and_recycle_old_backup: block `cur', from the position oldpos on, or a
\* later block still reads sector k.
StillRead(p, cur, oldpos, k) ==
  LET start == OldStart(p)
  IN  \E j \in cur .. Len(p) :
        Touches(k, IF j = cur THEN oldpos ELSE start[j], start[j] + p[j].diff)

\* Mutant: always up to the end of the sector.
ChunkToEnd(newpos, remain) == SectorSize - Offset(newpos)

\* The cells up to the end of the current sector, or all that remain: the split
\* decode_and_patch makes so that no write crosses a sector boundary.
ChunkLength(newpos, remain) ==
  IF Sector(newpos) # Sector(newpos + remain) THEN SectorSize - Offset(newpos) ELSE remain
=============================================================================
