------------------------ MODULE PatchRecovery_proofs ------------------------
(***************************************************************************)
(* Proofs about the patch engine of FirmwarePatch, for every flash         *)
(* geometry, every set of patches and every set of points at which power   *)
(* may be lost: the types and the slots of the sea first, then that the    *)
(* engine computes the new firmware and keeps its backups, through any     *)
(* number of power losses.  The last part proves that the boot loader      *)
(* finishes what it acknowledges: what is on flash is always enough to     *)
(* resume, the status says that the upgrade is over only when it is, every *)
(* step is one of UpgradePromise or changes nothing of it, and no sector   *)
(* is rewritten before its old bytes are safe, also when backups are       *)
(* recycled.                                                               *)
(***************************************************************************)
EXTENDS FirmwarePatch, FiniteSetTheorems, WellFoundedInduction, TLAPS

-----------------------------------------------------------------------------
(* Facts about the geometry.                                                 *)

LEMMA SectorOffset ==
  ASSUME NEW p \in Nat
  PROVE  /\ Sector(p) \in Nat
         /\ Offset(p) \in Offsets
         /\ p = SectorSize * Sector(p) + Offset(p)
BY GeometryAssumption DEF Sector, Offset, Offsets

LEMMA SectorInPool ==
  ASSUME NEW p \in 0 .. Pool * SectorSize - 1
  PROVE  Sector(p) \in Sectors
<1> DEFINE q == Sector(p)
<1>1. q \in Nat /\ p = SectorSize * q + Offset(p) /\ Offset(p) \in Nat
  BY SectorOffset, GeometryAssumption DEF Offsets
<1>2. ASSUME q >= Pool PROVE FALSE
  <2>1. SectorSize * q >= SectorSize * Pool
    BY <1>1, <1>2, GeometryAssumption
  <2>2. QED
    BY <1>1, <2>1, GeometryAssumption
<1>3. QED
  BY <1>1, <1>2, GeometryAssumption DEF Sectors

\* A chunk is never longer than what remains.
LEMMA ChunkBound ==
  ASSUME NEW p \in Nat, NEW r \in Nat
  PROVE  ChunkLength(p, r) \in 0 .. r
<1> DEFINE a == Sector(p)
           b == Sector(p + r)
<1>1. /\ a \in Nat /\ Offset(p) \in Nat /\ Offset(p) < SectorSize
      /\ p = SectorSize * a + Offset(p)
  BY SectorOffset, GeometryAssumption DEF Offsets
<1>2. /\ b \in Nat /\ Offset(p + r) \in Nat /\ Offset(p + r) < SectorSize
      /\ p + r = SectorSize * b + Offset(p + r)
  BY SectorOffset, GeometryAssumption DEF Offsets
<1>3. CASE a = b
  BY <1>3 DEF ChunkLength
<1>4. CASE a # b
  <2>1. a < b
    <3>1. ASSUME a > b PROVE FALSE
      <4>1. SectorSize * a >= SectorSize * (b + 1)
        BY <1>1, <1>2, <3>1, GeometryAssumption
      <4>2. SectorSize * (b + 1) = SectorSize * b + SectorSize
        BY <1>2, GeometryAssumption
      <4>3. QED
        BY <1>1, <1>2, <4>1, <4>2, GeometryAssumption
    <3>2. QED
      BY <1>1, <1>2, <1>4, <3>1
  <2>2. SectorSize * b >= SectorSize * (a + 1)
    BY <1>1, <1>2, <2>1, GeometryAssumption
  <2>3. SectorSize * (a + 1) = SectorSize * a + SectorSize
    BY <1>1, GeometryAssumption
  <2>4. SectorSize - Offset(p) \in 0 .. r
    BY <1>1, <1>2, <2>2, <2>3, GeometryAssumption
  <2>5. QED
    BY <1>4, <2>4 DEF ChunkLength
<1>5. QED
  BY <1>3, <1>4

\* A non-empty set of numbers has a least one: of the intervals 0..n that end
\* in the set, one contains no other.
LEMMA LeastInSet ==
  ASSUME NEW S \in SUBSET Nat, S # {}
  PROVE  /\ Least(S) \in S
         /\ \A y \in S : Least(S) <= y
<1> DEFINE T == {0 .. n : n \in S}
<1>1. T \subseteq FiniteSubsetsOf(Nat) /\ T # {}
  <2>1. \A n \in S : 0 .. n \in SUBSET Nat /\ IsFiniteSet(0 .. n)
    BY FS_Interval
  <2>2. QED
    BY <2>1 DEF FiniteSubsetsOf
<1>2. PICK t \in T : \A u \in T : ~ (<<u, t>> \in StrictSubsetOrdering(Nat))
  BY <1>1, WFMin, FS_StrictSubsetOrderingWellFounded
<1>3. PICK x \in S : t = 0 .. x
  OBVIOUS
<1>4. ASSUME NEW y \in S, y < x PROVE FALSE
  <2>1. 0 .. y \in T /\ 0 .. y \subseteq 0 .. x /\ x \in 0 .. x /\ x \notin 0 .. y
    BY <1>4
  <2>2. <<0 .. y, 0 .. x>> \in StrictSubsetOrdering(Nat)
    BY <2>1 DEF StrictSubsetOrdering
  <2>3. QED
    BY <1>2, <1>3, <2>1, <2>2
<1>5. \A y \in S : x <= y
  BY <1>4
<1>6. QED
  BY <1>5 DEF Least

LEMMA GreatestSector ==
  ASSUME NEW S \in SUBSET Sectors, S # {}
  PROVE  Greatest(S) \in S
<1> DEFINE T == {Pool - k : k \in S}
<1>1. T \in SUBSET Nat /\ T # {}
  <2>1. \A k \in S : Pool - k \in Nat
    BY GeometryAssumption DEF Sectors
  <2>2. QED
    BY <2>1
<1>2. PICK n \in T : \A m \in T : n <= m
  BY <1>1, LeastInSet
<1>3. PICK x \in S : n = Pool - x
  BY <1>2
<1>4. \A y \in S : y <= x
  BY <1>2, <1>3, GeometryAssumption DEF Sectors
<1>5. QED
  BY <1>4 DEF Greatest

LEMMA CardinalityOfSectors ==
  ASSUME NEW S \in SUBSET Sectors
  PROVE  Cardinality(S) \in Nat
<1>1. 0 \in Int /\ Pool - 1 \in Int
  BY GeometryAssumption
<1>2. IsFiniteSet(Sectors)
  BY <1>1, FS_Interval DEF Sectors
<1>3. IsFiniteSet(S)
  BY <1>2, FS_Subset
<1>4. QED
  BY <1>3, FS_CardinalityType

-----------------------------------------------------------------------------
(***************************************************************************)
(* Type correctness.  It needs the position in the patch to stay inside    *)
(* the flash, so that the sector being rewritten is one: CursorOK says that*)
(* what is done plus what remains of a run of cells is the end of that run *)
(* in the new firmware.                                                    *)
(***************************************************************************)
Begin(p) ==
  CHOOSE s \in [1 .. Len(p) + 1 -> 0 .. Pool * SectorSize - 1] :
     /\ s[1] = 0
     /\ \A j \in DOMAIN p : s[j + 1] = s[j] + p[j].diff + p[j].extra

LoopSteps == {"resume", "magicErase", "magicWrite", "chunk", "backup", "recErase", "recWrite",
              "select", "seaErase", "seaWrite", "stErase", "stWrite", "patch", "fwErase",
              "fwWrite"}

CursorOK ==
  pc \in LoopSteps =>
    newpos + remain = IF phase = "diff" THEN Begin(patch)[blk] + patch[blk].diff
                                        ELSE Begin(patch)[blk + 1]

\* After a status word is written, the loop is never entered in the middle.
FlagOK == flag.then \in {"app", "open", "clear"}

TypeInv == TypeOK /\ CursorOK /\ FlagOK

LEMMA PatchParts ==
  ASSUME NEW p \in Patches
  PROVE  /\ Len(p) \in Nat \ {0} /\ DOMAIN p = 1 .. Len(p)
         /\ \A j \in 1 .. Len(p) : /\ p[j].diff \in Nat /\ p[j].extra \in Nat
                                   /\ p[j].adjust \in Int
<1>1. p \in Seq(Block) /\ p # <<>>
  BY PatchAssumption
<1>2. \A j \in 1 .. Len(p) : p[j] \in Block
  BY <1>1
<1>3. Len(p) # 0
  BY <1>1
<1>4. QED
  BY <1>1, <1>2, <1>3 DEF Block

LEMMA BeginParts ==
  ASSUME NEW p \in Patches
  PROVE  /\ Begin(p) \in [1 .. Len(p) + 1 -> 0 .. Pool * SectorSize - 1]
         /\ Begin(p)[1] = 0
         /\ \A j \in 1 .. Len(p) : Begin(p)[j + 1] = Begin(p)[j] + p[j].diff + p[j].extra
<1>1. FitsPool(p)
  BY PatchAssumption
<1>2. DOMAIN p = 1 .. Len(p)
  BY PatchParts
<1>3. QED
  BY <1>1, <1>2 DEF FitsPool, Begin

\* While the patch is applied, the current sector exists.
LEMMA CurInPool ==
  ASSUME TypeInv, pc \in LoopSteps
  PROVE  Cur \in Sectors /\ Temp \in 0 .. remain /\ newpos + remain \in 0 .. Pool * SectorSize - 1
<1>1. patch \in Patches /\ blk \in 1 .. Len(patch) /\ newpos \in Nat /\ remain \in Nat
  BY PatchParts DEF TypeInv, TypeOK
<1>a. /\ blk \in 1 .. Len(patch) + 1 /\ blk + 1 \in 1 .. Len(patch) + 1
      /\ patch[blk].diff \in Nat /\ patch[blk].extra \in Nat
  <2>1. Len(patch) \in Nat
    BY <1>1, PatchParts
  <2>2. QED
    BY <1>1, <2>1, PatchParts
<1>b. Begin(patch) \in [1 .. Len(patch) + 1 -> 0 .. Pool * SectorSize - 1]
  BY <1>1, BeginParts
<1>c. Begin(patch)[blk + 1] = Begin(patch)[blk] + patch[blk].diff + patch[blk].extra
  BY <1>1, BeginParts
<1>2. /\ Begin(patch)[blk] \in 0 .. Pool * SectorSize - 1
      /\ Begin(patch)[blk + 1] \in 0 .. Pool * SectorSize - 1
  BY <1>a, <1>b
<1>3. newpos + remain \in 0 .. Pool * SectorSize - 1
  BY <1>1, <1>2, <1>a, <1>c, GeometryAssumption DEF TypeInv, CursorOK
<1>4. newpos \in 0 .. Pool * SectorSize - 1
  BY <1>1, <1>3, GeometryAssumption
<1>5. QED
  BY <1>1, <1>3, <1>4, SectorInPool, ChunkBound DEF Cur, Temp

LEMMA ContentTypes ==
  /\ Erased \in Content /\ Garbage \in Content
  /\ \A p \in Int : Old(p) \in Content /\ New(p) \in Content
  /\ ErasedImage \in Image
  /\ Unused \in Entry /\ NoEntries \in [Sectors -> Entry]
BY DEF Erased, Garbage, Old, New, Content, ErasedImage, Image, Unused, Entry, NoEntries

LEMMA TypeInit == Init => TypeInv
<1> SUFFICES ASSUME Init PROVE TypeInv
  OBVIOUS
<1>1. \A k \in Sectors, o \in Offsets : Old(k * SectorSize + o) \in Content
  BY ContentTypes, GeometryAssumption DEF Sectors, Offsets
<1>2. fw \in [Sectors -> Image]
  <2>1. \A k \in Sectors : [o \in Offsets |-> Old(k * SectorSize + o)] \in Image
    BY <1>1 DEF Image
  <2>2. QED
    BY <2>1 DEF Init
<1>3. blk \in DOMAIN patch
  BY PatchParts DEF Init
<1>4. 0 \in Sectors
  BY GeometryAssumption DEF Sectors
<1>5. sea \in [Slots -> Image] /\ ftab \in [Sectors -> Entry] /\ table \in [Sectors -> Entry]
  BY ContentTypes DEF Init
<1>6. flag \in [want : Statuses, then : Steps] /\ FlagOK
  BY DEF Init, Statuses, Steps, FlagOK
<1>7. crashes \in 0 .. MaxCrashes
  BY PatchAssumption DEF Init
<1>8. pc \in Steps /\ status \in Statuses /\ lastbk \in Int /\ slot \in Slots \cup {NoSlot}
  BY DEF Init, Steps, Statuses, NoSector, NoSlot
<1>a. /\ patch \in Patches /\ magic \in {"SET", "BLANK"} /\ phase \in {"diff", "extra"}
      /\ remain \in Nat /\ newpos \in Nat /\ oldpos \in Int
      /\ bkmap \subseteq Slots \cup {NoSlot} /\ used \in Int /\ oldest \in Sectors
  BY <1>4 DEF Init
<1>c. en \in BOOLEAN /\ decoded \in BOOLEAN
  BY Zenon DEF Init
<1>b. image \in Image
  BY ContentTypes DEF Init
<1>9. TypeOK
  BY <1>2, <1>3, <1>5, <1>6, <1>7, <1>8, <1>a, <1>b, <1>c DEF TypeOK
<1>10. CursorOK
  BY DEF Init, CursorOK, LoopSteps
<1>11. QED
  BY <1>6, <1>9, <1>10 DEF TypeInv

\* The end of the body of the loop keeps the position inside the patch.
LEMMA AdvanceKeeps ==
  ASSUME TypeInv, pc \in LoopSteps, Advance, UNCHANGED patch
  PROVE  /\ blk' \in DOMAIN patch /\ phase' \in {"diff", "extra"}
         /\ remain' \in Nat /\ newpos' \in Nat /\ oldpos' \in Int
         /\ pc' \in {"chunk", "clear"} /\ decoded' \in BOOLEAN
         /\ CursorOK'
<1> DEFINE left == remain - Temp
           old  == IF phase = "diff" THEN oldpos + Temp ELSE oldpos
<1>1. /\ patch \in Patches /\ blk \in 1 .. Len(patch) /\ DOMAIN patch = 1 .. Len(patch)
      /\ Len(patch) \in Nat /\ newpos \in Nat /\ remain \in Nat /\ oldpos \in Int
      /\ phase \in {"diff", "extra"} /\ decoded \in BOOLEAN
  BY PatchParts DEF TypeInv, TypeOK
<1>2. Temp \in 0 .. remain
  BY CurInPool
<1>3. left \in Nat /\ old \in Int /\ newpos + Temp \in Nat
  BY <1>1, <1>2
<1>4. /\ patch[blk].diff \in Nat /\ patch[blk].extra \in Nat /\ patch[blk].adjust \in Int
      /\ blk < Len(patch) => blk + 1 \in 1 .. Len(patch) /\ patch[blk + 1].diff \in Nat
  BY <1>1, PatchParts
<1>5. /\ newpos + remain = IF phase = "diff" THEN Begin(patch)[blk] + patch[blk].diff
                                             ELSE Begin(patch)[blk + 1]
      /\ Begin(patch)[blk + 1] = Begin(patch)[blk] + patch[blk].diff + patch[blk].extra
  BY <1>1, BeginParts DEF TypeInv, CursorOK
<1>6. /\ Begin(patch)[blk] \in Int /\ Begin(patch)[blk + 1] \in Int
  <2>1. Begin(patch) \in [1 .. Len(patch) + 1 -> 0 .. Pool * SectorSize - 1]
    BY <1>1, BeginParts
  <2>2. blk \in 1 .. Len(patch) + 1 /\ blk + 1 \in 1 .. Len(patch) + 1
    BY <1>1
  <2>3. QED
    BY <2>1, <2>2, GeometryAssumption
<1>7. newpos' = newpos + Temp
  BY DEF Advance
<1>8. CASE /\ left # 0
           /\ remain' = left /\ oldpos' = old
           /\ Goto("chunk")
           /\ UNCHANGED <<blk, phase, decoded>>
  BY <1>1, <1>2, <1>3, <1>5, <1>7, <1>8 DEF Goto, CursorOK
<1>9. CASE /\ left = 0 /\ phase = "diff"
           /\ phase' = "extra" /\ remain' = patch[blk].extra /\ oldpos' = old
           /\ Goto("chunk")
           /\ UNCHANGED <<blk, decoded>>
  BY <1>1, <1>2, <1>3, <1>4, <1>5, <1>6, <1>7, <1>9 DEF Goto, CursorOK
<1>10. CASE /\ left = 0 /\ phase = "extra" /\ blk < Len(patch)
            /\ blk' = blk + 1 /\ phase' = "diff" /\ remain' = patch[blk + 1].diff
            /\ oldpos' = old + patch[blk].adjust
            /\ Goto("chunk")
            /\ UNCHANGED decoded
  BY <1>1, <1>2, <1>3, <1>4, <1>5, <1>6, <1>7, <1>10 DEF Goto, CursorOK
<1>11. CASE /\ left = 0 /\ phase = "extra" /\ blk = Len(patch)
            /\ oldpos' = old + patch[blk].adjust
            /\ decoded' = TRUE
            /\ Goto("clear")
            /\ UNCHANGED <<blk, phase, remain>>
  BY <1>1, <1>2, <1>3, <1>4, <1>7, <1>11 DEF Goto, CursorOK, LoopSteps
<1>12. QED
  BY <1>8, <1>9, <1>10, <1>11 DEF Advance

\* Steps that leave the loop variables alone.
LEMMA CursorStays ==
  ASSUME TypeInv, UNCHANGED <<patch, cursor>>, pc' \in LoopSteps => pc \in LoopSteps
  PROVE  /\ CursorOK'
         /\ patch' \in Patches /\ blk' \in DOMAIN patch' /\ phase' \in {"diff", "extra"}
         /\ remain' \in Nat /\ newpos' \in Nat /\ oldpos' \in Int
         /\ en' \in BOOLEAN /\ lastbk' \in Int
BY DEF TypeInv, TypeOK, CursorOK, cursor

LEMMA EntryTypes ==
  ASSUME NEW t \in [Sectors -> Entry], NEW k \in Sectors
  PROVE  /\ [t EXCEPT ![k].st = "C"] \in [Sectors -> Entry]
         /\ \A s \in Slots :
              [t EXCEPT ![k] = [st |-> "S", slot |-> s]] \in [Sectors -> Entry]
<1>1. [t EXCEPT ![k].st = "C"] \in [Sectors -> Entry]
  BY DEF Entry
<1>2. \A s \in Slots : [st |-> "S", slot |-> s] \in Entry
  BY DEF Entry
<1>3. QED
  BY <1>1, <1>2


\* Whatever the patch computes for a cell is a content.
LEMMA PatchedContent ==
  ASSUME TypeInv, pc \in LoopSteps, NEW o \in Offsets
  PROVE  Patched(o) \in Content /\ Rest(o) \in Content
<1>1. Cur \in Sectors
  BY CurInPool
<1>2. /\ o \in Int /\ newpos \in Int /\ SectorSize \in Int /\ Cur \in Int
  BY <1>1, GeometryAssumption DEF TypeInv, TypeOK, Sectors, Offsets
<1>3. Patched(o) \in Content
  BY <1>2, ContentTypes DEF Patched
<1>4. Rest(o) \in Content
  BY <1>1, ContentTypes DEF Rest, TypeInv, TypeOK, Image
<1>5. QED
  BY <1>3, <1>4

\* A write cut short still leaves a content in every cell.
LEMMA TornImage ==
  ASSUME NEW img \in Image, NEW n
  PROVE  Torn(img, n) \in Image
BY ContentTypes DEF Torn, Image

\* The slot for the next backup is a slot.
LEMMA FreeSlot ==
  ASSUME Free # {}
  PROVE  Least(Free) \in Slots /\ Least(Free) \notin bkmap
<1>1. Free \in SUBSET Nat
  BY DEF Free, Slots
<1>2. QED
  BY <1>1, LeastInSet DEF Free

LEMMA VictimInPool ==
  ASSUME Recyclable # {}
  PROVE  /\ Least(Recyclable) \in Sectors
         /\ table[Least(Recyclable)].st = "S"
<1>1. Recyclable \in SUBSET Nat
  BY DEF Recyclable, Sectors
<1>2. QED
  BY <1>1, LeastInSet DEF Recyclable

LEMMA OldestInPool ==
  ASSUME oldest \in Sectors, NEW t
  PROVE  OldestAfter(t) \in Sectors
<1> DEFINE run == {k \in Sectors : k >= oldest /\ \A j \in oldest .. k : t[j].st = "C"}
<1>1. CASE run = {}
  BY <1>1 DEF OldestAfter
<1>2. CASE run # {}
  BY <1>2, GreatestSector DEF OldestAfter
<1>3. QED
  BY <1>1, <1>2

\* What Resume rebuilds from the table on flash.
LEMMA ResumedTypes ==
  ASSUME TypeInv, Resume
  PROVE  /\ bkmap' \subseteq Slots \cup {NoSlot}
         /\ used' \in Int
         /\ lastbk' \in Int
<1> DEFINE inSea == {k \in Recorded(ftab) : ftab[k].st = "S"}
<1>1. Recorded(ftab) \in SUBSET Sectors /\ inSea \in SUBSET Sectors
  BY DEF Recorded
<1>2. bkmap' \subseteq Slots \cup {NoSlot}
  BY <1>1 DEF Resume, TypeInv, TypeOK, Entry
<1>3. used' \in Int
  BY <1>1, CardinalityOfSectors DEF Resume
<1>4. lastbk' \in Int
  <2>1. CASE Recorded(ftab) = {}
    BY <2>1, GeometryAssumption DEF Resume, Sectors, NoSector
  <2>2. CASE Recorded(ftab) # {}
    <3>1. Greatest(Recorded(ftab)) \in Int
      BY <1>1, <2>2, GreatestSector DEF Sectors
    <3>2. QED
      BY <2>2, <3>1 DEF Resume, ResumeSector
  <2>3. QED
    BY <2>1, <2>2
<1>5. QED
  BY <1>2, <1>3, <1>4

-----------------------------------------------------------------------------
(* Every action keeps the types and the place in the patch.                  *)

LEMMA TypeExecute ==
  ASSUME TypeInv, Execute \/ Prepare \/ Restart \/ Crash
  PROVE  TypeInv'
<1> USE DEF TypeInv
<1>1. CASE FlagErase
  BY <1>1, CursorStays
     DEF FlagErase, TypeOK, FlagOK, Statuses, Steps, Goto, LoopSteps, cursor, backup, scratch
<1>2. CASE FlagWrite
  <2>1. flag.want \in Statuses /\ flag.then \in Steps /\ flag.then \notin LoopSteps
    BY DEF TypeOK, FlagOK, LoopSteps
  <2>2. flag' \in [want : Statuses, then : Steps] /\ FlagOK' /\ pc' \in Steps
    BY <1>2, <2>1 DEF FlagWrite, SetStatus, Goto, TypeOK, FlagOK, Statuses, Steps
  <2>3. pc' \notin LoopSteps
    BY <1>2, <2>1 DEF FlagWrite, SetStatus, Goto, LoopSteps
  <2>4. QED
    BY <1>2, <2>1, <2>2, <2>3, CursorStays DEF FlagWrite, TypeOK, cursor, backup
<1>3. CASE Boot
  <2>1. /\ flag' \in [want : Statuses, then : Steps] /\ FlagOK'
        /\ pc' \in Steps /\ pc' \notin LoopSteps
    BY <1>3 DEF Boot, SetStatus, Goto, TypeOK, FlagOK, Statuses, Steps, LoopSteps
  <2>2. QED
    BY <1>3, <2>1, CursorStays DEF Boot, TypeOK, flash, cursor, backup
<1>4. CASE Open
  <2>1. /\ 1 \in 1 .. Len(patch) /\ DOMAIN patch = 1 .. Len(patch) /\ patch[1].diff \in Nat
        /\ 1 \in 1 .. Len(patch) + 1 /\ Begin(patch)[1] = 0
    <3>1. patch \in Patches
      BY DEF TypeOK
    <3>2. QED
      BY <3>1, PatchParts, BeginParts
  <2>2. 0 \in Sectors
    BY GeometryAssumption DEF Sectors
  <2>3. pc' \in Steps /\ CursorOK' /\ FlagOK'
    BY <1>4, <2>1 DEF Open, Goto, Steps, CursorOK, FlagOK, flash
  <2>4. QED
    BY <1>4, <2>1, <2>2, <2>3, ContentTypes DEF Open, TypeOK, flash
<1>5. CASE Start
  <2>1. /\ CursorOK' /\ FlagOK' /\ pc' \in Steps /\ en' = TRUE
    BY <1>5 DEF Start, Goto, CursorOK, FlagOK, LoopSteps, Steps, flash, scratch
  <2>2. QED
    BY <1>5, <2>1 DEF Start, TypeOK, flash, backup, scratch
<1>6. CASE Resume
  <2>1. /\ CursorOK' /\ FlagOK' /\ pc' \in Steps /\ en' = FALSE
    BY <1>6 DEF Resume, Goto, CursorOK, FlagOK, LoopSteps, Steps, flash, scratch
  <2>2. table' \in [Sectors -> Entry]
    BY <1>6 DEF Resume, TypeOK
  <2>3. /\ bkmap' \subseteq Slots \cup {NoSlot} /\ used' \in Int /\ lastbk' \in Int
    BY <1>6, ResumedTypes
  <2>4. UNCHANGED <<flash, blk, phase, remain, newpos, oldpos, oldest, scratch, crashes>>
    BY <1>6 DEF Resume
  <2>5. QED
    BY <2>1, <2>2, <2>3, <2>4 DEF TypeOK, flash, scratch
<1>7. CASE MagicErase
  BY <1>7, CursorStays, ContentTypes
     DEF MagicErase, TypeOK, FlagOK, Steps, Goto, LoopSteps, cursor, backup, scratch
<1>8. CASE MagicWrite
  BY <1>8, CursorStays
     DEF MagicWrite, TypeOK, FlagOK, Steps, Goto, LoopSteps, cursor, backup, scratch
<1>9. ASSUME ResetRAM, UNCHANGED patch
      PROVE  /\ pc' \in Steps /\ CursorOK' /\ FlagOK' /\ blk' \in DOMAIN patch'
             /\ phase' \in {"diff", "extra"} /\ remain' \in Nat /\ newpos' \in Nat
             /\ oldpos' \in Int /\ en' \in BOOLEAN /\ lastbk' \in Int
             /\ table' \in [Sectors -> Entry] /\ bkmap' \subseteq Slots \cup {NoSlot}
             /\ used' \in Int /\ oldest' \in Sectors /\ slot' \in Slots \cup {NoSlot}
             /\ image' \in Image /\ flag' \in [want : Statuses, then : Steps]
             /\ decoded' \in BOOLEAN
  <2>1. 1 \in DOMAIN patch
    BY PatchParts DEF TypeOK
  <2>2. 0 \in Sectors
    BY GeometryAssumption DEF Sectors
  <2>3. en' = FALSE /\ decoded' = FALSE
    BY <1>9 DEF ResetRAM
  <2>4. /\ pc' \in Steps /\ CursorOK' /\ FlagOK' /\ flag' \in [want : Statuses, then : Steps]
    BY <1>9 DEF ResetRAM, Steps, Statuses, CursorOK, FlagOK, LoopSteps
  <2>5. en' \in BOOLEAN /\ decoded' \in BOOLEAN
    BY <2>3, Zenon
  <2>6. /\ phase' \in {"diff", "extra"} /\ remain' \in Nat /\ newpos' \in Nat
        /\ oldpos' \in Int /\ lastbk' \in Int /\ blk' \in DOMAIN patch'
        /\ bkmap' \subseteq Slots \cup {NoSlot}
        /\ used' \in Int /\ oldest' \in Sectors /\ slot' \in Slots \cup {NoSlot}
    BY <1>9, <2>1, <2>2 DEF ResetRAM, NoSector, NoSlot
  <2>7. table' \in [Sectors -> Entry] /\ image' \in Image
    BY <1>9, ContentTypes DEF ResetRAM
  <2>8. QED
    BY <2>4, <2>5, <2>6, <2>7
<1>10. CASE Restart
  BY <1>9, <1>10 DEF Restart, TypeOK, flash
<1>11. CASE Crash
  <2>1. patch' = patch /\ ResetRAM
    BY <1>11 DEF Crash
  <2>2. crashes' \in 0 .. MaxCrashes
    BY <1>11, PatchAssumption DEF Crash, TypeOK
  <2>3. fw' \in [Sectors -> Image] /\ sea' \in [Slots -> Image]
    <3>1. PICK n \in Offsets :
            /\ fw'  = IF pc = "fwWrite"  THEN [fw EXCEPT ![Cur] = Torn(image, n)] ELSE fw
            /\ sea' = IF pc = "seaWrite" THEN [sea EXCEPT ![slot] = Torn(fw[Cur], n)] ELSE sea
      BY <1>11 DEF Crash
    <3>2. Torn(image, n) \in Image
      BY TornImage DEF TypeOK
    <3>3. pc = "seaWrite" => Torn(fw[Cur], n) \in Image
      BY CurInPool, TornImage DEF TypeOK, LoopSteps
    <3>4. QED
      BY <3>1, <3>2, <3>3 DEF TypeOK
  <2>4. UNCHANGED <<status, patch>>
    BY <1>11 DEF Crash
  <2>5. magic' \in {"SET", "BLANK"} /\ ftab' \in [Sectors -> Entry]
    <3>1. \A n \in Sectors : TornTable(n) \in [Sectors -> Entry]
      BY ContentTypes DEF TornTable, TypeOK
    <3>2. QED
      BY <1>11, <3>1 DEF Crash, TypeOK
  <2>6. QED
    BY <1>9, <2>1, <2>2, <2>3, <2>4, <2>5 DEF TypeOK
<1>12. QED
  BY <1>1, <1>2, <1>3, <1>4, <1>5, <1>6, <1>7, <1>8, <1>10, <1>11 DEF Execute, Prepare

LEMMA TypeBackUp ==
  ASSUME TypeInv, BackUp
  PROVE  TypeInv'
<1> USE DEF TypeInv
<1>1. CASE AlreadyBackedUp
  BY <1>1, CursorStays
     DEF AlreadyBackedUp, TypeOK, FlagOK, Steps, Goto, LoopSteps, flash, cursor, backup, scratch
<1>2. CASE Recycle
  <2> DEFINE victim == Least(Recyclable)
  <2>1. victim \in Sectors
    BY <1>2, VictimInPool DEF Recycle
  <2>2. table' = [table EXCEPT ![victim].st = "C"]
    BY <1>2 DEF Recycle
  <2>3. table' \in [Sectors -> Entry]
    BY <2>1, <2>2, EntryTypes DEF TypeOK
  <2>4. oldest' \in Sectors
    BY <1>2, OldestInPool DEF Recycle, TypeOK
  <2>5. bkmap' \subseteq Slots \cup {NoSlot} /\ used' \in Int
    BY <1>2 DEF Recycle, TypeOK
  <2>6. pc' \in Steps /\ pc \in LoopSteps /\ UNCHANGED <<flash, cursor, scratch, crashes>>
    BY <1>2 DEF Recycle, Goto, Steps, LoopSteps
  <2>7. QED
    BY <2>3, <2>4, <2>5, <2>6, CursorStays DEF TypeOK, FlagOK, flash, scratch
<1>3. CASE RecycleFails
  <2>1. oldest' \in Sectors
    BY <1>3, OldestInPool DEF RecycleFails, TypeOK
  <2>2. /\ pc' \in Steps /\ pc' \notin LoopSteps /\ FlagOK'
        /\ flag' \in [want : Statuses, then : Steps]
    BY <1>3 DEF RecycleFails, Fail, SetStatus, Goto, Steps, Statuses, LoopSteps, FlagOK
  <2>3. QED
    BY <1>3, <2>1, <2>2, CursorStays DEF RecycleFails, TypeOK, flash
<1>4. CASE TableErase
  BY <1>4, CursorStays, ContentTypes
     DEF TableErase, TypeOK, FlagOK, Steps, Goto, LoopSteps, cursor, backup, scratch
<1>5. CASE TableWrite
  <2>1. used' \in Int /\ pc' \in Steps /\ pc \in LoopSteps
    BY <1>5 DEF TableWrite, TypeOK, Goto, Steps, LoopSteps
  <2>2. QED
    BY <1>5, <2>1, CursorStays DEF TableWrite, TypeOK, FlagOK, cursor, scratch
<1>6. CASE Select
  <2>1. slot' \in Slots \cup {NoSlot} /\ bkmap' \subseteq Slots \cup {NoSlot}
    BY <1>6, FreeSlot DEF Select, TypeOK
  <2>2. pc' \in Steps /\ pc \in LoopSteps
    BY <1>6 DEF Select, Goto, Steps, LoopSteps
  <2>3. UNCHANGED <<flash, cursor, table, used, oldest, image, flag, decoded, crashes>>
    BY <1>6 DEF Select
  <2>4. QED
    BY <2>1, <2>2, <2>3, CursorStays DEF TypeOK, FlagOK, flash
<1>7. CASE SeaErase
  BY <1>7, CursorStays, ContentTypes
     DEF SeaErase, TypeOK, FlagOK, Steps, Goto, LoopSteps, cursor, backup, scratch
<1>8. CASE SeaWrite
  <2>1. Cur \in Sectors /\ pc \in LoopSteps
    BY <1>8, CurInPool DEF SeaWrite, LoopSteps
  <2>2. sea' \in [Slots -> Image]
    BY <1>8, <2>1 DEF SeaWrite, TypeOK
  <2>3. table' \in [Sectors -> Entry]
    <3>1. [st |-> "S", slot |-> slot] \in Entry
      BY DEF Entry, TypeOK
    <3>2. QED
      BY <1>8, <2>1, <3>1 DEF SeaWrite, TypeOK
  <2>4. pc' \in Steps
    BY <1>8 DEF SeaWrite, Goto, Steps
  <2>5. UNCHANGED <<status, patch, fw, magic, ftab, cursor, bkmap, used, oldest, scratch, crashes>>
    BY <1>8 DEF SeaWrite
  <2>6. QED
    BY <2>1, <2>2, <2>3, <2>4, <2>5, CursorStays DEF TypeOK, FlagOK, scratch
<1>9. QED
  BY <1>1, <1>2, <1>3, <1>4, <1>5, <1>6, <1>7, <1>8 DEF BackUp

LEMMA TypeRewrite ==
  ASSUME TypeInv, Rewrite
  PROVE  TypeInv'
<1> USE DEF TypeInv
<1>1. CASE Chunk
  <2>1. pc \in LoopSteps /\ en' \in BOOLEAN
    BY <1>1 DEF Chunk, LoopSteps
  <2>2. UNCHANGED <<flash, lastbk, backup, slot, image, flag, crashes>>
    BY <1>1 DEF Chunk
  <2>3. CASE en'
    BY <1>1, <2>1, <2>2, <2>3
       DEF Chunk, TypeOK, CursorOK, FlagOK, Goto, Steps, LoopSteps, flash, backup
  <2>4. CASE ~en'
    <3>1. Advance /\ patch' = patch
      BY <1>1, <2>2, <2>4 DEF Chunk, flash
    <3>2. QED
      BY <2>1, <2>2, <3>1, AdvanceKeeps DEF TypeOK, FlagOK, Steps, flash, backup
  <2>5. QED
    BY <2>1, <2>3, <2>4
<1>2. CASE PatchChunk
  <2>1. pc \in LoopSteps /\ UNCHANGED <<flash, en, lastbk, backup, slot, flag, crashes>>
    BY <1>2 DEF PatchChunk, LoopSteps
  <2>2. CASE Offset(newpos) # 0 /\ Temp = 0
    <3>1. Advance /\ image' = image /\ patch' = patch
      BY <1>2, <2>1, <2>2 DEF PatchChunk, flash
    <3>2. QED
      BY <2>1, <3>1, AdvanceKeeps DEF TypeOK, FlagOK, Steps, flash, backup
  <2>3. CASE ~(Offset(newpos) # 0 /\ Temp = 0)
    <3>1. image' = [o \in Offsets |-> IF InChunk(o) THEN Patched(o) ELSE Rest(o)]
      BY <1>2, <2>3 DEF PatchChunk
    <3>2. image' \in Image
      BY <2>1, <3>1, PatchedContent DEF Image
    <3>3. pc' \in Steps /\ UNCHANGED <<blk, phase, remain, newpos, oldpos, decoded>>
      BY <1>2, <2>3 DEF PatchChunk, Goto, Steps
    <3>4. CursorOK'
      BY <2>1, <3>3 DEF CursorOK, flash
    <3>5. QED
      BY <2>1, <3>2, <3>3, <3>4 DEF TypeOK, FlagOK, flash, backup
  <2>4. QED
    BY <2>2, <2>3
<1>3. CASE PatchRefused
  <2>1. /\ pc' \in Steps /\ pc' \notin LoopSteps /\ FlagOK'
        /\ flag' \in [want : Statuses, then : Steps]
    BY <1>3 DEF PatchRefused, Fail, SetStatus, Goto, Steps, Statuses, LoopSteps, FlagOK
  <2>2. QED
    BY <1>3, <2>1, CursorStays DEF PatchRefused, TypeOK, flash, backup
<1>4. CASE FirmwareErase
  BY <1>4, CursorStays, ContentTypes
     DEF FirmwareErase, TypeOK, FlagOK, Steps, Goto, LoopSteps, cursor, backup, scratch
<1>5. CASE FirmwareWrite
  <2>1. pc \in LoopSteps /\ Advance /\ patch' = patch
    BY <1>5 DEF FirmwareWrite, LoopSteps
  <2>2. fw' \in [Sectors -> Image]
    BY <1>5 DEF FirmwareWrite, TypeOK
  <2>3. UNCHANGED <<status, patch, sea, magic, ftab, en, lastbk, backup, slot, image, flag, crashes>>
    BY <1>5 DEF FirmwareWrite
  <2>4. QED
    BY <2>1, <2>2, <2>3, AdvanceKeeps DEF TypeOK, FlagOK, Steps, backup
<1>6. CASE Clear
  <2>1. /\ pc' \in Steps /\ pc' \notin LoopSteps /\ FlagOK'
        /\ flag' \in [want : Statuses, then : Steps]
    BY <1>6 DEF Clear, Goto, Steps, Statuses, LoopSteps, FlagOK
  <2>2. QED
    BY <1>6, <2>1, CursorStays, ContentTypes DEF Clear, TypeOK, backup
<1>7. QED
  BY <1>1, <1>2, <1>3, <1>4, <1>5, <1>6 DEF Rewrite

LEMMA TypeNext == TypeInv /\ [Next]_vars => TypeInv'
<1> SUFFICES ASSUME TypeInv, [Next]_vars PROVE TypeInv'
  OBVIOUS
<1>1. CASE Next
  BY <1>1, TypeExecute, TypeBackUp, TypeRewrite DEF Next, Step
<1>2. CASE UNCHANGED vars
  BY <1>2 DEF vars, flash, cursor, backup, scratch, TypeInv, TypeOK, CursorOK, FlagOK
<1>3. QED
  BY <1>1, <1>2

(***************************************************************************)
(* Every variable keeps its type: the sector being rewritten exists, so    *)
(* does the slot a backup goes to, and no index leaves the patch (the      *)
(* bounds decode_and_patch relies on and never checks).                    *)
(***************************************************************************)
THEOREM TypeCorrect == Spec => []TypeOK
<1>1. TypeInv => TypeOK
  BY DEF TypeInv
<1>2. QED
  BY <1>1, TypeInit, TypeNext, PTL DEF Spec

-----------------------------------------------------------------------------
(***************************************************************************)
(* The slots of the sea, without a power loss.  SlotsDistinct is not       *)
(* inductive: the slot that is being filled must already be taken and      *)
(* belong to nobody (FillingOK), and Resume, which rebuilds the map from   *)
(* what it finds on flash, must be out of reach (MagicOK: the magic word   *)
(* is set only from MagicWrite to Clear).                                  *)
(***************************************************************************)
FillingOK ==
  pc \in {"seaErase", "seaWrite"} =>
    /\ slot \in bkmap
    /\ \A k \in Sectors : table[k].st = "S" => table[k].slot # slot

MagicOK ==
  magic = "SET" =>
    \/ pc \in {"chunk", "backup", "recErase", "select", "seaErase", "seaWrite", "stErase",
               "patch", "fwErase", "fwWrite", "clear"}
    \/ pc \in {"flagErase", "flagWrite"} /\ flag.then = "clear" /\ flag.want # "UPDATEED"

SlotsInv == SlotsDistinct /\ FillingOK /\ MagicOK

\* Steps that change no entry of the table and no bit of the map.
LEMMA SlotsStay ==
  ASSUME SlotsInv, UNCHANGED <<table, bkmap, slot>>,
         pc' \in {"seaErase", "seaWrite"} => pc \in {"seaErase", "seaWrite"}
  PROVE  SlotsDistinct' /\ FillingOK'
BY DEF SlotsInv, SlotsDistinct, FillingOK

\* An empty table holds no slot.
LEMMA EmptyTable ==
  ASSUME table' = NoEntries, pc' \notin {"seaErase", "seaWrite"}
  PROVE  SlotsDistinct' /\ FillingOK'
BY DEF NoEntries, Unused, SlotsDistinct, FillingOK

LEMMA SlotsNext ==
  ASSUME CrashPoints = {}, TypeInv, SlotsInv, [Next]_vars
  PROVE  SlotsInv'
<1> USE DEF Goto
<1>1. CASE Boot
  BY <1>1, SlotsStay DEF Boot, SetStatus, SlotsInv, MagicOK, flash, backup
<1>2. CASE FlagErase
  BY <1>2, SlotsStay DEF FlagErase, SlotsInv, MagicOK, backup, scratch
<1>3. CASE FlagWrite
  <2>1. pc' \notin {"seaErase", "seaWrite"}
    BY <1>3 DEF FlagWrite, SetStatus, TypeInv, FlagOK
  <2>2. MagicOK'
    BY <1>3 DEF FlagWrite, SetStatus, SlotsInv, MagicOK
  <2>3. QED
    BY <1>3, <2>1, <2>2, SlotsStay DEF FlagWrite, SlotsInv, backup
<1>4. CASE Open
  BY <1>4, EmptyTable DEF Open, SlotsInv, MagicOK, flash
<1>5. CASE Start
  BY <1>5, SlotsStay DEF Start, SlotsInv, MagicOK, flash, backup, scratch
<1>6. CASE Resume
  BY <1>6 DEF Resume, SlotsInv, MagicOK
<1>7. CASE MagicErase
  BY <1>7, SlotsStay DEF MagicErase, SlotsInv, MagicOK, backup, scratch
<1>8. CASE MagicWrite
  BY <1>8, SlotsStay DEF MagicWrite, SlotsInv, MagicOK, backup, scratch
<1>9. CASE AlreadyBackedUp
  BY <1>9, SlotsStay DEF AlreadyBackedUp, SlotsInv, MagicOK, flash, backup, scratch
<1>10. CASE Recycle
  <2> DEFINE victim == Least(Recyclable)
  <2>1. victim \in Sectors /\ table[victim].st = "S"
    BY <1>10, VictimInPool DEF Recycle
  <2>2. /\ table' = [table EXCEPT ![victim].st = "C"]
        /\ bkmap' = bkmap \ {table[victim].slot}
        /\ pc' = "recErase" /\ magic' = magic
    BY <1>10 DEF Recycle, flash
  <2>3. \A k \in Sectors : table'[k].st = "S" => k # victim /\ table'[k] = table[k]
    BY <2>1, <2>2 DEF TypeInv, TypeOK, Entry
  <2>4. SlotsDistinct'
    BY <2>1, <2>2, <2>3 DEF SlotsInv, SlotsDistinct
  <2>5. QED
    BY <2>2, <2>4 DEF SlotsInv, FillingOK, MagicOK
<1>11. CASE RecycleFails
  BY <1>11, SlotsStay DEF RecycleFails, Fail, SetStatus, SlotsInv, MagicOK, flash
<1>12. CASE TableErase
  BY <1>12, SlotsStay DEF TableErase, SlotsInv, MagicOK, backup, scratch
<1>13. CASE TableWrite
  BY <1>13, SlotsStay DEF TableWrite, SlotsInv, MagicOK, scratch
<1>14. CASE Select
  <2>1. MagicOK'
    BY <1>14 DEF Select, SlotsInv, MagicOK, flash
  <2>2. CASE ReadByPatch(patch, Cur) /\ Free # {}
    <3>1. slot' \notin bkmap /\ bkmap' = bkmap \cup {slot'} /\ table' = table
      BY <1>14, <2>2, FreeSlot DEF Select
    <3>2. QED
      BY <2>1, <3>1 DEF SlotsInv, SlotsDistinct, FillingOK
  <2>3. CASE ~(ReadByPatch(patch, Cur) /\ Free # {})
    <3>1. pc' = "patch" /\ UNCHANGED <<table, bkmap, slot>>
      BY <1>14, <2>3 DEF Select
    <3>2. QED
      BY <2>1, <3>1, SlotsStay DEF SlotsInv
  <2>4. QED
    BY <2>2, <2>3
<1>15. CASE SeaErase
  BY <1>15, SlotsStay DEF SeaErase, SlotsInv, MagicOK, backup, scratch
<1>16. CASE SeaWrite
  <2>1. Cur \in Sectors
    BY <1>16, CurInPool DEF SeaWrite, LoopSteps
  <2>2. /\ table' = [table EXCEPT ![Cur] = [st |-> "S", slot |-> slot]]
        /\ bkmap' = bkmap /\ pc' = "stErase" /\ magic' = magic
    BY <1>16 DEF SeaWrite
  <2>3. /\ table'[Cur].slot = slot
        /\ \A k \in Sectors \ {Cur} : table'[k] = table[k]
    BY <2>1, <2>2 DEF TypeInv, TypeOK
  <2>4. /\ slot \in bkmap
        /\ \A k \in Sectors : table[k].st = "S" => table[k].slot # slot
    BY <1>16 DEF SeaWrite, SlotsInv, FillingOK
  <2>5. SlotsDistinct'
    BY <2>1, <2>2, <2>3, <2>4 DEF SlotsInv, SlotsDistinct
  <2>6. QED
    BY <2>2, <2>5 DEF SlotsInv, FillingOK, MagicOK
<1>17. CASE Chunk
  BY <1>17, SlotsStay DEF Chunk, Advance, SlotsInv, MagicOK, flash, backup
<1>18. CASE PatchChunk
  BY <1>18, SlotsStay DEF PatchChunk, Advance, SlotsInv, MagicOK, flash, backup
<1>19. CASE PatchRefused
  BY <1>19, SlotsStay DEF PatchRefused, Fail, SetStatus, SlotsInv, MagicOK, flash, backup
<1>20. CASE FirmwareErase
  BY <1>20, SlotsStay DEF FirmwareErase, SlotsInv, MagicOK, backup, scratch
<1>21. CASE FirmwareWrite
  BY <1>21, SlotsStay DEF FirmwareWrite, Advance, SlotsInv, MagicOK, backup
<1>22. CASE Clear
  BY <1>22, SlotsStay DEF Clear, SlotsInv, MagicOK, backup
<1>23. CASE Restart
  BY <1>23, EmptyTable DEF Restart, ResetRAM, SlotsInv, MagicOK, flash
<1>24. CASE Crash
  BY <1>24 DEF Crash
<1>25. CASE UNCHANGED vars
  BY <1>25, SlotsStay DEF vars, flash, backup, scratch, SlotsInv, MagicOK
<1>26. QED
  BY <1>1, <1>2, <1>3, <1>4, <1>5, <1>6, <1>7, <1>8, <1>9, <1>10, <1>11, <1>12, <1>13, <1>14,
     <1>15, <1>16, <1>17, <1>18, <1>19, <1>20, <1>21, <1>22, <1>23, <1>24, <1>25
     DEF Next, Step, Execute, Prepare, BackUp, Rewrite

(***************************************************************************)
(* Without a power loss no two sectors ever share a slot of the backup sea,*)
(* and no slot in use counts as free, however small the sea is and however *)
(* often slots are recycled (bk_map against bk_r_status in                 *)
(* check_and_recycle_old_backup and backup_old_sector).                    *)
(***************************************************************************)
THEOREM SlotsStayDistinct ==
  ASSUME CrashPoints = {}
  PROVE  Spec => []SlotsDistinct
<1>1. Init => SlotsInv
  BY DEF Init, NoEntries, Unused, SlotsInv, SlotsDistinct, FillingOK, MagicOK
<1>2. TypeInv /\ SlotsInv /\ [Next]_vars => SlotsInv'
  BY SlotsNext
<1>3. SlotsInv => SlotsDistinct
  BY DEF SlotsInv
<1>4. QED
  BY <1>1, <1>2, <1>3, TypeInit, TypeNext, PTL DEF Spec

-----------------------------------------------------------------------------
(* Facts about numbers, sectors and the chain of a patch.                    *)

\* What holds at a number and is kept by its successors, up to a bound, holds
\* at all of them.
LEMMA CountUp ==
  ASSUME NEW n \in Nat, NEW S \in SUBSET Nat, 0 \in S,
         \A i \in 0 .. n - 1 : i \in S => i + 1 \in S
  PROVE  \A i \in 0 .. n : i \in S
<1> DEFINE T == {i \in 0 .. n : i \notin S}
<1>1. SUFFICES ASSUME T # {} PROVE FALSE
  OBVIOUS
<1>2. T \in SUBSET Nat
  OBVIOUS
<1>3. PICK m \in T : \A y \in T : m <= y
  BY <1>1, <1>2, LeastInSet
<1>4. m # 0 /\ m \in 0 .. n /\ m \notin S
  OBVIOUS
<1>5. PICK i \in 0 .. n - 1 : m = i + 1
  <2>1. m - 1 \in 0 .. n - 1 /\ m = (m - 1) + 1
    BY <1>4
  <2>2. QED
    BY <2>1
<1>6. i \in S
  <2>1. i \in 0 .. n /\ ~(m <= i)
    BY <1>4, <1>5
  <2>2. QED
    BY <1>3, <2>1
<1>7. QED
  BY <1>4, <1>5, <1>6

LEMMA GreatestIsUpper ==
  ASSUME NEW S \in SUBSET Sectors, S # {}
  PROVE  Greatest(S) \in S /\ \A y \in S : y <= Greatest(S)
<1> DEFINE T == {Pool - k : k \in S}
<1>1. T \in SUBSET Nat /\ T # {}
  <2>1. \A k \in S : Pool - k \in Nat
    BY GeometryAssumption DEF Sectors
  <2>2. QED
    BY <2>1
<1>2. PICK n \in T : \A m \in T : n <= m
  BY <1>1, LeastInSet
<1>3. PICK x \in S : n = Pool - x
  BY <1>2
<1>4. \A y \in S : y <= x
  BY <1>2, <1>3, GeometryAssumption DEF Sectors
<1>5. QED
  BY <1>4 DEF Greatest

\* The product is opaque to the solver: its steps are stated once.
LEMMA SectorStart ==
  ASSUME NEW a \in Int, NEW b \in Int
  PROVE  /\ a * SectorSize \in Int
         /\ (a + 1) * SectorSize = a * SectorSize + SectorSize
         /\ a <= b => a * SectorSize <= b * SectorSize
         /\ a < b => a * SectorSize + SectorSize <= b * SectorSize
<1>1. SectorSize \in Nat /\ SectorSize > 0
  BY GeometryAssumption
<1>2. a * SectorSize \in Int /\ (a + 1) * SectorSize = a * SectorSize + SectorSize
  BY <1>1
<1>3. ASSUME a <= b PROVE a * SectorSize <= b * SectorSize
  <2>1. (b - a) * SectorSize >= 0
    BY <1>1, <1>3
  <2>2. QED
    BY <1>1, <2>1
<1>4. ASSUME a < b PROVE a * SectorSize + SectorSize <= b * SectorSize
  <2>1. (b - a - 1) * SectorSize >= 0
    BY <1>1, <1>4
  <2>2. QED
    BY <1>1, <2>1
<1>5. QED
  BY <1>2, <1>3, <1>4

\* A position is the cell Offset(p) of the sector Sector(p), and of no other.
LEMMA CellOf ==
  ASSUME NEW p \in Nat
  PROVE  /\ Sector(p) \in Nat /\ Offset(p) \in Offsets
         /\ p = Sector(p) * SectorSize + Offset(p)
         /\ Sector(p) * SectorSize <= p /\ p < Sector(p) * SectorSize + SectorSize
<1>1. /\ Sector(p) \in Nat /\ Offset(p) \in Offsets
      /\ p = SectorSize * Sector(p) + Offset(p)
  BY SectorOffset
<1>2. QED
  BY <1>1, GeometryAssumption DEF Offsets

LEMMA SectorUnique ==
  ASSUME NEW p \in Nat, NEW k \in Int,
         k * SectorSize <= p, p < k * SectorSize + SectorSize
  PROVE  Sector(p) = k /\ Offset(p) = p - k * SectorSize
<1>1. /\ Sector(p) \in Nat /\ p = Sector(p) * SectorSize + Offset(p)
      /\ Sector(p) * SectorSize <= p /\ p < Sector(p) * SectorSize + SectorSize
      /\ Offset(p) \in Int
  BY CellOf DEF Offsets
<1>2. SectorSize \in Nat /\ k * SectorSize \in Int /\ Sector(p) * SectorSize \in Int
  BY <1>1, SectorStart, GeometryAssumption
<1>3. ~(Sector(p) < k)
  BY <1>1, <1>2, SectorStart
<1>4. ~(k < Sector(p))
  BY <1>1, <1>2, SectorStart
<1>5. QED
  BY <1>1, <1>2, <1>3, <1>4

\* A sector that holds a position of a run is touched by the run.
LEMMA TouchesAround ==
  ASSUME NEW k, NEW from \in Int, NEW to \in Int, NEW p \in Int,
         SectorSize \in Int, k * SectorSize \in Int,
         from <= p, p <= to, k * SectorSize <= p, p < k * SectorSize + SectorSize
  PROVE  Touches(k, from, to)
<1>1. PICK s \in Int : s = k * SectorSize
  OBVIOUS
<1>2. s + SectorSize >= from /\ s <= to
  BY <1>1
<1>3. QED
  BY <1>1, <1>2 DEF Touches

LEMMA SectorMonotone ==
  ASSUME NEW p \in Nat, NEW q \in Nat, p <= q
  PROVE  Sector(p) <= Sector(q)
<1>1. /\ Sector(p) \in Nat /\ Sector(q) \in Nat
      /\ Sector(p) * SectorSize <= p /\ q < Sector(q) * SectorSize + SectorSize
  BY CellOf
<1>2. SectorSize \in Nat /\ Sector(p) * SectorSize \in Int /\ Sector(q) * SectorSize \in Int
  BY <1>1, SectorStart, GeometryAssumption
<1>3. ~(Sector(q) < Sector(p))
  BY <1>1, <1>2, SectorStart
<1>4. QED
  BY <1>1, <1>3

\* A chunk stays in its sector, and only one that fills it reaches its end.
LEMMA ChunkInSector ==
  ASSUME NEW p \in Nat, NEW r \in Nat
  PROVE  /\ ChunkLength(p, r) \in 0 .. r
         /\ p + ChunkLength(p, r) <= Sector(p) * SectorSize + SectorSize
         /\ Sector(p + ChunkLength(p, r)) # Sector(p) =>
              p + ChunkLength(p, r) = (Sector(p) + 1) * SectorSize
<1> DEFINE a == Sector(p)
           n == ChunkLength(p, r)
<1>1. n \in 0 .. r
  BY ChunkBound
<1>2. /\ a \in Nat /\ Offset(p) \in Nat /\ p = a * SectorSize + Offset(p)
      /\ a * SectorSize <= p /\ p < a * SectorSize + SectorSize
      /\ SectorSize \in Nat /\ a * SectorSize \in Int
      /\ (a + 1) * SectorSize = a * SectorSize + SectorSize
  BY CellOf, SectorStart, GeometryAssumption DEF Offsets
<1>3. CASE a # Sector(p + r)
  BY <1>1, <1>2, <1>3 DEF ChunkLength
<1>4. CASE a = Sector(p + r)
  <2>1. p + r < a * SectorSize + SectorSize
    BY <1>2, <1>4, CellOf
  <2>2. n = r
    BY <1>4 DEF ChunkLength
  <2>3. QED
    BY <1>1, <1>2, <1>4, <2>1, <2>2
<1>5. QED
  BY <1>3, <1>4

\* OldStart, one block at a time: a function with its equations exists, since
\* one on the first blocks extends to the next.
OldEquations(p, f, n) ==
  \A j \in 1 .. n : f[j] = IF j = 1 THEN 0 ELSE f[j - 1] + p[j - 1].diff + p[j - 1].adjust

LEMMA OldStartExists ==
  ASSUME NEW p \in Patches
  PROVE  \E f \in [1 .. Len(p) -> Int] : OldEquations(p, f, Len(p))
<1> DEFINE S == {n \in Nat : \E f \in [1 .. n -> Int] : OldEquations(p, f, n)}
<1>1. /\ Len(p) \in Nat
      /\ \A j \in 1 .. Len(p) : p[j].diff \in Nat /\ p[j].adjust \in Int
  BY PatchParts
<1>2. 0 \in S
  <2>1. [j \in 1 .. 0 |-> 0] \in [1 .. 0 -> Int]
    OBVIOUS
  <2>2. \A f : OldEquations(p, f, 0)
    BY DEF OldEquations
  <2>3. QED
    BY <2>1, <2>2
<1>3. ASSUME NEW n \in 0 .. Len(p) - 1, n \in S PROVE n + 1 \in S
  <2>1. PICK f \in [1 .. n -> Int] : OldEquations(p, f, n)
    BY <1>3
  <2> DEFINE next == IF n = 0 THEN 0 ELSE f[n] + p[n].diff + p[n].adjust
             g == [j \in 1 .. n + 1 |-> IF j = n + 1 THEN next ELSE f[j]]
  <2>2. n \in Nat /\ next \in Int
    <3>1. CASE n = 0
      BY <3>1
    <3>2. CASE n # 0
      <4>1. n \in 1 .. Len(p) /\ n \in 1 .. n
        BY <1>1, <3>2
      <4>2. QED
        BY <1>1, <2>1, <4>1
    <3>3. QED
      BY <3>1, <3>2
  <2>3. g \in [1 .. n + 1 -> Int]
    BY <2>2
  <2>4. ASSUME NEW j \in 1 .. n + 1
        PROVE  g[j] = IF j = 1 THEN 0 ELSE g[j - 1] + p[j - 1].diff + p[j - 1].adjust
    <3>1. CASE j = n + 1
      <4>1. CASE n = 0
        BY <3>1, <4>1
      <4>2. CASE n # 0
        <5>1. j - 1 = n /\ n \in 1 .. n + 1 /\ n # n + 1 /\ j # 1
          BY <2>2, <3>1, <4>2
        <5>2. g[j - 1] = f[n] /\ g[j] = next
          BY <3>1, <5>1
        <5>3. QED
          BY <4>2, <5>1, <5>2
      <4>3. QED
        BY <4>1, <4>2
    <3>2. CASE j # n + 1
      <4>1. j \in 1 .. n /\ g[j] = f[j]
        BY <2>2, <3>2
      <4>2. f[j] = IF j = 1 THEN 0 ELSE f[j - 1] + p[j - 1].diff + p[j - 1].adjust
        BY <2>1, <4>1 DEF OldEquations
      <4>3. j # 1 => j - 1 \in 1 .. n + 1 /\ j - 1 # n + 1
        BY <2>2, <4>1
      <4>4. j # 1 => g[j - 1] = f[j - 1]
        BY <4>3
      <4>5. QED
        BY <4>1, <4>2, <4>4
    <3>3. QED
      BY <3>1, <3>2
  <2>5. OldEquations(p, g, n + 1)
    BY <2>4 DEF OldEquations
  <2>6. QED
    BY <2>2, <2>3, <2>5
<1>4. S \in SUBSET Nat /\ Len(p) \in 0 .. Len(p)
  BY <1>1
<1>5. Len(p) \in S
  <2>1. \A i \in 0 .. Len(p) - 1 : i \in S => i + 1 \in S
    BY <1>3
  <2> HIDE DEF S
  <2>2. QED
    BY <1>1, <1>2, <1>4, <2>1, CountUp
<1>6. QED
  BY <1>5

LEMMA OldStartStep ==
  ASSUME NEW p \in Patches
  PROVE  /\ \A j \in 1 .. Len(p) : OldStart(p)[j] \in Int
         /\ OldStart(p)[1] = 0
         /\ \A j \in 1 .. Len(p) - 1 :
              OldStart(p)[j + 1] = OldStart(p)[j] + p[j].diff + p[j].adjust
<1> DEFINE F(f) == [j \in 1 .. Len(p) |->
                      IF j = 1 THEN 0 ELSE f[j - 1] + p[j - 1].diff + p[j - 1].adjust]
<1>1. PICK f \in [1 .. Len(p) -> Int] : OldEquations(p, f, Len(p))
  BY OldStartExists
<1>2. f = F(f)
  BY <1>1 DEF OldEquations
<1>3. OldStart(p) = CHOOSE g : g = F(g)
  BY DEF OldStart
<1>4. OldStart(p) = F(OldStart(p))
  BY <1>2, <1>3
<1> DEFINE g == OldStart(p)
<1>5. \A j \in 1 .. Len(p) : g[j] = IF j = 1 THEN 0 ELSE g[j - 1] + p[j - 1].diff + p[j - 1].adjust
  BY <1>4
<1> HIDE DEF g
<1>6. /\ Len(p) \in Nat \ {0}
      /\ \A j \in 1 .. Len(p) : p[j].diff \in Nat /\ p[j].adjust \in Int
  BY PatchParts
<1>7. g[1] = 0
  BY <1>5, <1>6
<1>8. ASSUME NEW j \in 1 .. Len(p) - 1
      PROVE  g[j + 1] = g[j] + p[j].diff + p[j].adjust
  <2>1. j + 1 \in 1 .. Len(p) /\ j + 1 # 1 /\ (j + 1) - 1 = j
    BY <1>6
  <2>2. QED
    BY <1>5, <2>1
<1> DEFINE S == {n \in Nat : n + 1 \in 1 .. Len(p) => g[n + 1] \in Int}
<1>9. S \in SUBSET Nat /\ 0 \in S
  BY <1>7
<1>10. ASSUME NEW n \in 0 .. (Len(p) - 1) - 1, n \in S PROVE n + 1 \in S
  <2>1. n + 1 \in 1 .. Len(p) - 1 /\ n + 1 \in 1 .. Len(p) /\ n + 1 \in Nat
    BY <1>6
  <2>2. g[n + 1] \in Int /\ p[n + 1].diff \in Nat /\ p[n + 1].adjust \in Int
    BY <1>6, <1>10, <2>1
  <2>3. PICK j \in 1 .. Len(p) - 1 : j = n + 1
    BY <2>1
  <2>4. g[j + 1] \in Int
    <3>1. g[j + 1] = g[j] + p[j].diff + p[j].adjust
      BY <1>8
    <3>2. QED
      BY <2>2, <2>3, <3>1
  <2>5. QED
    BY <2>1, <2>3, <2>4
<1>11. \A n \in 0 .. Len(p) - 1 : n \in S
  <2>1. Len(p) - 1 \in Nat
    BY <1>6
  <2> HIDE DEF S
  <2>2. QED
    BY <1>9, <1>10, <2>1, CountUp
<1>12. ASSUME NEW j \in 1 .. Len(p) PROVE g[j] \in Int
  <2>1. j - 1 \in 0 .. Len(p) - 1 /\ (j - 1) + 1 = j
    BY <1>6
  <2>2. QED
    BY <1>11, <2>1
<1>13. QED
  BY <1>7, <1>8, <1>12 DEF g

\* Begin is NewStart: the blocks follow one another in the new firmware.
LEMMA NewStartIsBegin ==
  ASSUME NEW p \in Patches
  PROVE  \A j \in 1 .. Len(p) + 1 : NewStart(p)[j] = Begin(p)[j]
<1> DEFINE F(f) == [j \in 1 .. Len(p) + 1 |->
                      IF j = 1 THEN 0 ELSE f[j - 1] + p[j - 1].diff + p[j - 1].extra]
           b == Begin(p)
           g == NewStart(p)
<1>1. /\ b \in [1 .. Len(p) + 1 -> 0 .. Pool * SectorSize - 1] /\ b[1] = 0
      /\ \A j \in 1 .. Len(p) : b[j + 1] = b[j] + p[j].diff + p[j].extra
  BY BeginParts
<1>2. Len(p) \in Nat
  BY PatchParts
<1>3. b = F(b)
  <2>1. ASSUME NEW j \in 1 .. Len(p) + 1 PROVE b[j] = F(b)[j]
    <3>1. CASE j = 1
      BY <1>1, <3>1
    <3>2. CASE j # 1
      <4>1. j - 1 \in 1 .. Len(p) /\ (j - 1) + 1 = j
        BY <1>2, <3>2
      <4>2. b[j] = b[j - 1] + p[j - 1].diff + p[j - 1].extra
        BY <1>1, <4>1
      <4>3. QED
        BY <3>2, <4>2
    <3>3. QED
      BY <3>1, <3>2
  <2> HIDE DEF b
  <2>2. QED
    BY <1>1, <2>1
<1>4. g = CHOOSE f : f = F(f)
  BY DEF NewStart
<1>5. g = F(g)
  <2> HIDE DEF b
  <2>1. QED
    BY <1>3, <1>4
<1>6. \A j \in 1 .. Len(p) + 1 : g[j] = IF j = 1 THEN 0 ELSE g[j - 1] + p[j - 1].diff + p[j - 1].extra
  BY <1>5
<1> HIDE DEF b, g
<1> DEFINE S == {n \in Nat : g[n + 1] = b[n + 1]}
<1>7. S \in SUBSET Nat /\ 0 \in S
  BY <1>1, <1>2, <1>6
<1>8. ASSUME NEW n \in 0 .. Len(p) - 1, n \in S PROVE n + 1 \in S
  <2>1. n + 1 \in 1 .. Len(p) /\ (n + 1) + 1 \in 1 .. Len(p) + 1 /\ ((n + 1) + 1) - 1 = n + 1
        /\ (n + 1) + 1 # 1 /\ n + 1 \in Nat
    BY <1>2
  <2>2. g[(n + 1) + 1] = g[n + 1] + p[n + 1].diff + p[n + 1].extra
    BY <1>6, <2>1
  <2>3. b[(n + 1) + 1] = b[n + 1] + p[n + 1].diff + p[n + 1].extra
    BY <1>1, <2>1
  <2>4. QED
    BY <1>8, <2>1, <2>2, <2>3
<1>9. \A n \in 0 .. Len(p) : n \in S
  <2> HIDE DEF S
  <2>1. QED
    BY <1>2, <1>7, <1>8, CountUp
<1>10. ASSUME NEW j \in 1 .. Len(p) + 1 PROVE g[j] = b[j]
  <2>1. j - 1 \in 0 .. Len(p) /\ (j - 1) + 1 = j
    BY <1>2
  <2>2. QED
    BY <1>9, <2>1
<1>11. QED
  BY <1>10 DEF b, g

\* The end of the new firmware is behind every block of it.
LEMMA NewEnd ==
  ASSUME NEW p \in Patches
  PROVE  /\ NewLength(p) = Begin(p)[Len(p) + 1]
         /\ NewLength(p) \in 0 .. Pool * SectorSize - 1
         /\ \A j \in 1 .. Len(p) + 1 : Begin(p)[j] \in Nat /\ Begin(p)[j] <= NewLength(p)
<1> DEFINE b == Begin(p)
           n == Len(p)
<1>1. /\ b \in [1 .. n + 1 -> 0 .. Pool * SectorSize - 1]
      /\ \A j \in 1 .. n : b[j + 1] = b[j] + p[j].diff + p[j].extra
  BY BeginParts
<1>2. n \in Nat /\ \A j \in 1 .. n : p[j].diff \in Nat /\ p[j].extra \in Nat
  BY PatchParts
<1>3. NewLength(p) = b[n + 1]
  BY <1>2, NewStartIsBegin DEF NewLength
<1> HIDE DEF b, n
<1>4. \A j \in 1 .. n + 1 : b[j] \in Nat
  BY <1>1, GeometryAssumption
<1> DEFINE S == {i \in Nat : i <= n => b[(n + 1) - i] <= b[n + 1]}
<1>5. S \in SUBSET Nat /\ 0 \in S
  BY <1>2, <1>4
<1>6. ASSUME NEW i \in 0 .. n - 1, i \in S PROVE i + 1 \in S
  <2>1. PICK j \in 1 .. n : j = (n + 1) - (i + 1)
    BY <1>2
  <2>2. /\ j \in 1 .. n + 1 /\ j + 1 \in 1 .. n + 1 /\ n + 1 \in 1 .. n + 1
        /\ j + 1 = (n + 1) - i /\ i <= n /\ i + 1 \in Nat
    BY <1>2, <2>1
  <2>3. b[j + 1] <= b[n + 1]
    BY <1>6, <2>2
  <2>4. b[j] <= b[j + 1]
    <3>1. b[j + 1] = b[j] + p[j].diff + p[j].extra
      BY <1>1
    <3>2. QED
      BY <1>2, <1>4, <2>2, <3>1
  <2>5. b[j] <= b[n + 1]
    BY <1>4, <2>2, <2>3, <2>4
  <2>6. QED
    BY <2>1, <2>2, <2>5
<1>7. \A i \in 0 .. n : i \in S
  <2> HIDE DEF S
  <2>1. QED
    BY <1>2, <1>5, <1>6, CountUp
<1>8. ASSUME NEW j \in 1 .. n + 1 PROVE b[j] <= b[n + 1]
  <2>1. PICK i \in 0 .. n : j = (n + 1) - i
    <3>1. (n + 1) - j \in 0 .. n /\ j = (n + 1) - ((n + 1) - j)
      BY <1>2
    <3>2. QED
      BY <3>1
  <2>2. i <= n /\ i \in S
    BY <1>2, <1>7
  <2>3. QED
    BY <2>1, <2>2
<1>9. n + 1 \in 1 .. n + 1
  BY <1>2
<1>10. QED
  BY <1>1, <1>3, <1>4, <1>8, <1>9 DEF b, n
-----------------------------------------------------------------------------
(***************************************************************************)
(* The invariant.  Body is the loop over the chunks; Front is the sector   *)
(* at which a patch that was cut is still skipping, or the current one.    *)
(***************************************************************************)
Body == {"chunk", "backup", "recErase", "recWrite", "select", "seaErase", "seaWrite",
         "stErase", "stWrite", "patch", "fwErase", "fwWrite"}

\* Before the erased table is written back, and between clear_patch_status and
\* the status word, flash does not say how far the patch has come.
Unsaved == {"recWrite", "stWrite", "record"}

\* In these steps the table on flash is the one in RAM.
Synced == {"chunk", "backup", "select", "seaErase", "seaWrite", "patch", "fwErase", "fwWrite"}

Filling  == {"seaErase", "seaWrite"}
Starting == {"resume", "magicErase", "magicWrite"}

Front == IF en THEN Cur ELSE lastbk

Failing    == pc \in {"flagErase", "flagWrite"} /\ flag.then = "clear"
Requesting == pc \in {"flagErase", "flagWrite"} /\ flag.then = "open"
Running    == pc \in Body \/ pc = "clear" \/ Failing

\* Every patch reads cells of the pool, and a patch that may be cut reads some
\* cell of every sector it rewrites.
InsidePool(p) ==
  \A j \in 1 .. Len(p) :
    OldStart(p)[j] >= 0 /\ OldStart(p)[j] + p[j].diff <= Pool * SectorSize

ReadsAll(p) == \A c \in Nat : c < NewLength(p) => ReadByPatch(p, Sector(c))

Hypotheses ==
  /\ CrashPoints \cap Unsaved = {}
  /\ RiskFirst = FALSE
  /\ \A p \in Patches : InsidePool(p)
  /\ \A p \in CrashPatches : ReadsAll(p)

\* What a table of records promises: a sector on record is in the sea, a sector
\* without a record that the patch reads is still the old one.
InSea(t, s) ==
  \A k \in Sectors : t[k].st = "S" => t[k].slot \in Slots /\ s[t[k].slot] = OldImage(k)
InPlace(t, f, p) ==
  \A k \in Sectors : t[k].st = "U" /\ ReadByPatch(p, k) => f[k] = OldImage(k)

\* No record is ahead of sector m, those recycled are behind it, and if the
\* patch may be cut, no sector behind it is without one.
FrontAt(t, m, p) ==
  \A k \in Sectors :
    /\ k > m => t[k].st = "U"
    /\ t[k].st = "C" => k < m
    /\ k < m /\ p \in CrashPatches => t[k].st # "U"

\* The cells of the new firmware below n are in place.
DoneTo(n, f, p) ==
  \A c \in Nat : c < n /\ c < NewLength(p) => f[Sector(c)][Offset(c)] = New(c)

AllOld(f) == \A k \in Sectors : f[k] = OldImage(k)

\* What the status word says at each step.
StatusOK ==
  /\ pc \in LoopSteps \cup {"open"} => status = "UPDATE"
  /\ pc \in {"flagErase", "flagWrite"} =>
       \/ flag.then = "open"  /\ flag.want = "UPDATE"
       \/ flag.then = "app"   /\ flag.want \in {"UPDATEED", "IDLE"}
       \/ flag.then = "clear" /\ flag.want = "IDLE"
  /\ pc = "flagErase" => \/ flag.then = "open"  /\ status = "CHECK"
                         \/ flag.then = "clear" /\ status = "UPDATE"
                         \/ flag.then = "app"   /\ status = "UPDATEED"
  /\ pc = "flagWrite" => status = "BLANK"
  /\ pc = "record" => flag.want = "UPDATEED" /\ flag.then = "app"
  /\ status = "CHECK" => pc = "boot" \/ (pc = "flagErase" /\ flag.then = "open")

\* The magic word guards the table, and is set from the first record on.
MagicSet ==
  /\ magic = "BLANK" => ftab = NoEntries
  /\ magic = "SET" /\ (patch \notin CrashPatches \/ ftab[0].st = "U") => Running
  /\ pc \in Body \ {"recWrite", "stWrite"} => magic = "SET"
  /\ status = "CHECK" \/ Requesting \/ pc \in {"magicErase", "magicWrite"} => magic = "BLANK"

\* An upgrade that has not begun finds the old firmware.
Pristine ==
  (\/ status = "CHECK" \/ Requesting
   \/ status = "UPDATE" /\ magic = "BLANK" /\ pc \notin Unsaved) =>
  AllOld(fw)

\* What a reset would find.
FlashOK ==
  magic = "SET" =>
    /\ InSea(ftab, sea) /\ InPlace(ftab, fw, patch)
    /\ \E m \in Sectors : FrontAt(ftab, m, patch) /\ DoneTo(m * SectorSize, fw, patch)

\* The position in the old firmware.
OldPosition ==
  pc \in LoopSteps =>
    /\ phase = "diff"  => /\ oldpos >= OldStart(patch)[blk]
                          /\ oldpos + remain = OldStart(patch)[blk] + patch[blk].diff
    /\ phase = "extra" => oldpos = OldStart(patch)[blk] + patch[blk].diff

\* The table in RAM against the one on flash.
TableRight ==
  /\ pc \in Body => /\ InSea(table, sea) /\ InPlace(table, fw, patch)
                    /\ FrontAt(table, Front, patch)
  /\ pc \in Starting => table = NoEntries /\ newpos = 0
  /\ pc \in Synced => ftab = table
  /\ pc \in {"recErase", "recWrite", "select"} \cup Filling => table[Cur].st # "S"
  /\ pc \in Filling => ReadByPatch(patch, Cur)
  /\ pc \in {"stErase", "stWrite", "patch", "fwErase", "fwWrite"} /\ ReadByPatch(patch, Cur) =>
       table[Cur].st = "S"

\* Which cells of the new firmware are in place.
ProgressOK ==
  /\ pc \in Body => Front \in Sectors /\ DoneTo(Front * SectorSize, fw, patch)
  /\ pc \in Body \ {"fwWrite"} /\ en => DoneTo(newpos, fw, patch)
  /\ pc \in Body \cup Starting => ~decoded
  /\ pc \in Body \ {"chunk"} => en
  /\ pc \in {"magicErase", "magicWrite"} => en
  /\ pc = "chunk" /\ ~en => newpos <= lastbk * SectorSize
  /\ pc \in {"fwErase", "fwWrite"} =>
       \A o \in Offsets :
         /\ image[o] # Garbage
         /\ Cur * SectorSize + o < newpos + Temp => image[o] = New(Cur * SectorSize + o)

\* The slots of the sea: none has two owners, and one is free for a sector that
\* needs it.
SlotsRight ==
  /\ SlotsDistinct
  /\ bkmap \subseteq Slots
  /\ pc \in Body =>
       Cardinality(bkmap) <= IF pc \in {"seaErase", "seaWrite", "stErase", "stWrite"}
                               THEN used + 1 ELSE used
  /\ pc \in {"recErase", "recWrite", "select"} => Free # {}
  /\ pc \in Filling => slot \in bkmap /\ \A k \in Sectors : table[k].st = "S" => table[k].slot # slot
  /\ pc \in Starting => bkmap = {} /\ used = 0

\* What has been decoded is the new firmware.
FirmwareOK == NoGarbage /\ (decoded => DoneTo(NewLength(patch), fw, patch))

RecoveryInv ==
  /\ StatusOK /\ MagicSet /\ Pristine /\ FlashOK /\ OldPosition
  /\ TableRight /\ ProgressOK /\ SlotsRight /\ FirmwareOK

-----------------------------------------------------------------------------
(* The initial state, and steps that leave the firmware, the sea and the     *)
(* table on flash alone.                                                     *)

LEMMA RecoveryInit == Init => RecoveryInv
<1> SUFFICES ASSUME Init PROVE RecoveryInv
  OBVIOUS
<1>1. AllOld(fw)
  BY DEF Init, AllOld, OldImage
<1>2. StatusOK /\ MagicSet /\ FlashOK /\ OldPosition
  BY DEF Init, StatusOK, MagicSet, Requesting, FlashOK, OldPosition, LoopSteps, Body
<1>3. TableRight /\ ProgressOK
  BY DEF Init, TableRight, ProgressOK, Body, Starting, Synced, Filling
<1>4. SlotsRight
  BY DEF Init, SlotsRight, SlotsDistinct, NoEntries, Unused, Body, Filling, Starting
<1>5. FirmwareOK
  <2>1. NoGarbage
    BY DEF Init, NoGarbage, Old, Garbage
  <2>2. ~decoded
    BY Zenon DEF Init
  <2>3. QED
    BY <2>1, <2>2 DEF FirmwareOK
<1>6. QED
  BY <1>1, <1>2, <1>3, <1>4, <1>5 DEF RecoveryInv, Pristine

\* Steps outside the body of the loop, to others outside it.
LEMMA OutsideStays ==
  ASSUME RecoveryInv, UNCHANGED <<fw, sea, ftab, magic, patch, backup>>,
         pc' \notin LoopSteps, decoded' => decoded
  PROVE  /\ FlashOK' /\ OldPosition' /\ TableRight' /\ ProgressOK' /\ SlotsRight' /\ FirmwareOK'
<1>1. /\ pc' \notin Body /\ pc' \notin Starting /\ pc' \notin Synced /\ pc' \notin Filling
      /\ pc' \notin {"recErase", "recWrite", "select", "stErase", "stWrite", "patch",
                     "fwErase", "fwWrite", "magicErase", "magicWrite", "chunk"}
  BY DEF LoopSteps, Body, Starting, Synced, Filling
<1>2. FlashOK'
  BY DEF RecoveryInv, FlashOK
<1>3. OldPosition' /\ TableRight' /\ ProgressOK'
  BY <1>1 DEF OldPosition, TableRight, ProgressOK
<1>4. SlotsRight'
  BY <1>1 DEF RecoveryInv, SlotsRight, SlotsDistinct, backup
<1>5. NoGarbage'
  BY DEF RecoveryInv, FirmwareOK, NoGarbage
<1>6. ASSUME decoded' PROVE DoneTo(NewLength(patch'), fw', patch')
  <2>1. decoded
    BY <1>6
  <2>2. DoneTo(NewLength(patch), fw, patch)
    BY <2>1 DEF RecoveryInv, FirmwareOK
  <2>3. QED
    BY <2>2
<1>7. FirmwareOK'
  BY <1>5, <1>6 DEF FirmwareOK
<1>8. QED
  BY <1>2, <1>3, <1>4, <1>7

LEMMA BootRecovery ==
  ASSUME TypeInv, RecoveryInv, Boot
  PROVE  RecoveryInv'
<1>1. /\ pc = "boot" /\ pc' \in {"flagErase", "open", "app"}
      /\ UNCHANGED <<flash, cursor, backup, slot, image, decoded, crashes>>
  BY DEF Boot, SetStatus, Goto
<1>2. UNCHANGED <<fw, sea, ftab, magic, patch, status, backup, decoded>>
  BY <1>1 DEF flash
<1>3. StatusOK'
  BY <1>1, <1>2 DEF Boot, SetStatus, Goto, StatusOK, LoopSteps
<1>4. MagicSet'
  BY <1>1, <1>2 DEF RecoveryInv, Boot, SetStatus, Goto, MagicSet, Requesting, Running, Failing, Body
<1>5. Pristine'
  BY <1>1, <1>2 DEF RecoveryInv, Boot, SetStatus, Goto, Pristine, Requesting, Unsaved
<1>6. pc' \notin LoopSteps
  BY <1>1 DEF LoopSteps
<1>7. QED
  BY <1>2, <1>3, <1>4, <1>5, <1>6, OutsideStays DEF RecoveryInv

LEMMA FlagEraseRecovery ==
  ASSUME TypeInv, RecoveryInv, FlagErase
  PROVE  RecoveryInv'
<1>1. /\ pc \in {"flagErase", "record"} /\ pc' = "flagWrite" /\ status' = "BLANK"
      /\ UNCHANGED <<fw, sea, ftab, magic, patch, backup, decoded, flag>>
  BY DEF FlagErase, Goto, scratch
<1>2. StatusOK'
  BY <1>1 DEF RecoveryInv, StatusOK, LoopSteps
<1>3. MagicSet'
  BY <1>1 DEF RecoveryInv, StatusOK, MagicSet, Requesting, Running, Failing, Body
<1>4. Pristine'
  BY <1>1 DEF RecoveryInv, StatusOK, Pristine, Requesting
<1>5. pc' \notin LoopSteps
  BY <1>1 DEF LoopSteps
<1>6. QED
  BY <1>1, <1>2, <1>3, <1>4, <1>5, OutsideStays DEF RecoveryInv

LEMMA FlagWriteRecovery ==
  ASSUME TypeInv, RecoveryInv, FlagWrite
  PROVE  RecoveryInv'
<1>1. /\ pc = "flagWrite" /\ status' = flag.want
      /\ UNCHANGED <<fw, sea, ftab, magic, patch, backup, decoded>>
  BY DEF FlagWrite
<1>2. \/ flag.then = "open"  /\ flag.want = "UPDATE" /\ pc' = "open" /\ flag' = flag
      \/ flag.then = "app"   /\ flag.want = "UPDATEED" /\ pc' = "flagErase"
         /\ flag' = [want |-> "IDLE", then |-> "app"]
      \/ flag.then = "app"   /\ flag.want = "IDLE" /\ pc' = "app" /\ flag' = flag
      \/ flag.then = "clear" /\ flag.want = "IDLE" /\ pc' = "clear" /\ flag' = flag
  BY DEF FlagWrite, RecoveryInv, StatusOK, SetStatus, Goto
<1>3. StatusOK'
  BY <1>1, <1>2 DEF StatusOK, LoopSteps
<1>4. MagicSet'
  BY <1>1, <1>2 DEF RecoveryInv, MagicSet, Requesting, Running, Failing, Body
<1>5. Pristine'
  BY <1>1, <1>2 DEF RecoveryInv, Pristine, Requesting
<1>6. pc' \notin LoopSteps
  BY <1>2 DEF LoopSteps
<1>7. QED
  BY <1>1, <1>3, <1>4, <1>5, <1>6, OutsideStays DEF RecoveryInv

LEMMA OpenRecovery ==
  ASSUME TypeInv, RecoveryInv, Open
  PROVE  RecoveryInv'
<1>1. /\ pc = "open" /\ pc' \in {"app", "resume"} /\ status = "UPDATE"
      /\ UNCHANGED <<status, fw, sea, ftab, magic, patch, flag>>
      /\ table' = NoEntries /\ bkmap' = {} /\ used' = 0 /\ newpos' = 0 /\ oldpos' = 0
      /\ blk' = 1 /\ phase' = "diff" /\ remain' = patch[1].diff
  BY DEF Open, Goto, flash, RecoveryInv, StatusOK
<1>2. ~decoded'
  BY Zenon DEF Open
<1>3. StatusOK'
  BY <1>1 DEF StatusOK
<1>4. MagicSet'
  BY <1>1 DEF RecoveryInv, MagicSet, Requesting, Running, Failing, Body
<1>5. Pristine'
  BY <1>1 DEF RecoveryInv, Pristine, Requesting, Unsaved
<1>6. FlashOK'
  BY <1>1 DEF RecoveryInv, FlashOK
<1>7. OldPosition'
  <2>1. patch \in Patches
    BY DEF TypeInv, TypeOK
  <2>2. OldStart(patch)[1] = 0 /\ patch[1].diff \in Nat
    BY <2>1, PatchParts, OldStartStep
  <2>3. QED
    BY <1>1, <2>2 DEF OldPosition
<1>8. TableRight' /\ ProgressOK'
  BY <1>1, <1>2 DEF TableRight, ProgressOK, Body, Starting, Synced, Filling
<1>9. SlotsRight'
  BY <1>1 DEF SlotsRight, SlotsDistinct, NoEntries, Unused, Body, Starting, Filling
<1>10. FirmwareOK'
  BY <1>1, <1>2 DEF RecoveryInv, FirmwareOK, NoGarbage
<1>11. QED
  BY <1>3, <1>4, <1>5, <1>6, <1>7, <1>8, <1>9, <1>10 DEF RecoveryInv

LEMMA StartRecovery ==
  ASSUME TypeInv, RecoveryInv, Start
  PROVE  RecoveryInv'
<1>1. /\ pc = "resume" /\ pc' = "magicErase" /\ magic = "BLANK"
      /\ UNCHANGED <<status, fw, sea, ftab, magic, patch, flag, blk, phase, remain, newpos, oldpos,
                     table, bkmap, used>>
  BY DEF Start, Goto, flash, backup, scratch
<1>2. en' /\ decoded' = decoded
  BY Zenon DEF Start, scratch
<1>3. StatusOK' /\ MagicSet' /\ Pristine'
  BY <1>1 DEF RecoveryInv, StatusOK, MagicSet, Pristine, Requesting, Running, Failing, Body,
              Unsaved, LoopSteps
<1>4. FlashOK' /\ OldPosition'
  BY <1>1 DEF RecoveryInv, FlashOK, OldPosition, LoopSteps
<1>5. ~decoded'
  BY <1>1, <1>2 DEF RecoveryInv, ProgressOK, Starting
<1>6. TableRight' /\ ProgressOK'
  BY <1>1, <1>2, <1>5 DEF RecoveryInv, TableRight, ProgressOK, Body, Starting, Synced, Filling
<1>7. SlotsRight'
  BY <1>1 DEF RecoveryInv, SlotsRight, SlotsDistinct, Body, Starting, Filling
<1>8. FirmwareOK'
  BY <1>1, <1>5 DEF RecoveryInv, FirmwareOK, NoGarbage
<1>9. QED
  BY <1>3, <1>4, <1>6, <1>7, <1>8 DEF RecoveryInv

LEMMA MagicEraseRecovery ==
  ASSUME TypeInv, RecoveryInv, MagicErase
  PROVE  RecoveryInv'
<1>1. /\ pc = "magicErase" /\ pc' = "magicWrite" /\ magic' = "BLANK" /\ ftab' = NoEntries
      /\ UNCHANGED <<status, fw, sea, patch, flag, blk, phase, remain, newpos, oldpos,
                     table, bkmap, used>>
  BY DEF MagicErase, Goto, cursor, backup, scratch
<1>2. en' = en /\ decoded' = decoded
  BY Zenon DEF MagicErase, cursor, scratch
<1>3. en /\ ~decoded
  BY <1>1 DEF RecoveryInv, ProgressOK, Starting
<1>4. StatusOK' /\ MagicSet' /\ Pristine'
  BY <1>1 DEF RecoveryInv, StatusOK, MagicSet, Pristine, Requesting, Running, Failing, Body,
              Unsaved, LoopSteps
<1>5. FlashOK' /\ OldPosition'
  BY <1>1 DEF RecoveryInv, FlashOK, OldPosition, LoopSteps
<1>6. en' /\ ~decoded'
  BY <1>2, <1>3
<1>7. TableRight' /\ ProgressOK'
  BY <1>1, <1>6 DEF RecoveryInv, TableRight, ProgressOK, Body, Starting, Synced, Filling
<1>8. SlotsRight'
  BY <1>1 DEF RecoveryInv, SlotsRight, SlotsDistinct, Body, Starting, Filling
<1>9. FirmwareOK'
  BY <1>1, <1>6 DEF RecoveryInv, FirmwareOK, NoGarbage
<1>10. QED
  BY <1>4, <1>5, <1>7, <1>8, <1>9 DEF RecoveryInv

\* Without a record, the patch is at its beginning and the firmware is the old one.
LEMMA NothingDone ==
  /\ \A p : FrontAt(NoEntries, 0, p)
  /\ \A f, p : DoneTo(0, f, p)
  /\ \A s : InSea(NoEntries, s)
  /\ \A f, p : AllOld(f) => InPlace(NoEntries, f, p)
  /\ 0 * SectorSize = 0 /\ 0 \in Sectors /\ Sector(0) = 0
<1>1. 0 * SectorSize = 0 /\ 0 \in Sectors /\ Sector(0) = 0
  BY GeometryAssumption DEF Sectors, Sector
<1>2. \A p : FrontAt(NoEntries, 0, p)
  BY DEF FrontAt, NoEntries, Unused, Sectors
<1>3. \A f, p : DoneTo(0, f, p)
  BY DEF DoneTo
<1>4. \A s : InSea(NoEntries, s)
  BY DEF InSea, NoEntries, Unused
<1>5. \A f, p : AllOld(f) => InPlace(NoEntries, f, p)
  BY DEF AllOld, InPlace
<1>6. QED
  BY <1>1, <1>2, <1>3, <1>4, <1>5

LEMMA MagicWriteRecovery ==
  ASSUME TypeInv, RecoveryInv, MagicWrite
  PROVE  RecoveryInv'
<1>1. /\ pc = "magicWrite" /\ pc' = "chunk" /\ magic' = "SET" /\ magic = "BLANK"
      /\ UNCHANGED <<status, ftab, fw, sea, patch, flag, blk, phase, remain, newpos, oldpos,
                     table, bkmap, used>>
      /\ status = "UPDATE" /\ ftab = NoEntries /\ table = NoEntries /\ newpos = 0
      /\ bkmap = {} /\ used = 0
  BY DEF MagicWrite, Goto, cursor, backup, scratch, RecoveryInv, MagicSet, TableRight, SlotsRight,
         StatusOK, LoopSteps, Starting
<1>2. en' = en /\ decoded' = decoded
  BY Zenon DEF MagicWrite, cursor, scratch
<1>3. en /\ ~decoded
  BY <1>1 DEF RecoveryInv, ProgressOK, Starting
<1>4. en' /\ ~decoded'
  BY <1>2, <1>3
<1>5. AllOld(fw)
  BY <1>1 DEF RecoveryInv, Pristine, Unsaved
<1>6. Front' = 0
  BY <1>1, <1>4, NothingDone DEF Front, Cur
<1>7. StatusOK' /\ MagicSet' /\ Pristine'
  BY <1>1 DEF RecoveryInv, StatusOK, MagicSet, Pristine, Requesting, Running, Failing, Body,
              Unsaved, LoopSteps
<1>8. FlashOK'
  BY <1>1, <1>5, NothingDone DEF FlashOK
<1>9. OldPosition'
  BY <1>1 DEF RecoveryInv, OldPosition, LoopSteps
<1>10. TableRight'
  BY <1>1, <1>5, <1>6, NothingDone DEF TableRight, Body, Starting, Synced, Filling
<1>11. ProgressOK'
  BY <1>1, <1>4, <1>6, NothingDone DEF ProgressOK, Body, Starting
<1>12. SlotsRight'
  <2>1. Cardinality({}) = 0
    BY FS_EmptySet
  <2>2. QED
    BY <1>1, <2>1 DEF RecoveryInv, SlotsRight, SlotsDistinct, Body, Starting, Filling
<1>13. FirmwareOK'
  BY <1>1, <1>4 DEF RecoveryInv, FirmwareOK, NoGarbage
<1>14. QED
  BY <1>7, <1>8, <1>9, <1>10, <1>11, <1>12, <1>13 DEF RecoveryInv

\* The error path: the status word is written, the firmware left as it is.
LEMMA FailRecovery ==
  ASSUME TypeInv, RecoveryInv, pc \in Body \ {"recWrite", "stWrite"}, Fail,
         UNCHANGED <<flash, table, bkmap, decoded>>
  PROVE  RecoveryInv'
<1>1. /\ pc' = "flagErase" /\ flag' = [want |-> "IDLE", then |-> "clear"]
      /\ UNCHANGED <<status, fw, sea, ftab, magic, patch, table, bkmap, decoded>>
  BY DEF Fail, SetStatus, Goto, flash
<1>2. pc \in LoopSteps /\ status = "UPDATE" /\ magic = "SET"
  BY DEF RecoveryInv, StatusOK, MagicSet, LoopSteps, Body
<1>3. StatusOK' /\ MagicSet' /\ Pristine'
  BY <1>1, <1>2 DEF RecoveryInv, StatusOK, MagicSet, Pristine, Requesting, Running, Failing, Body,
              LoopSteps
<1>4. FlashOK'
  BY <1>1 DEF RecoveryInv, FlashOK
<1>5. OldPosition' /\ TableRight' /\ ProgressOK'
  BY <1>1 DEF OldPosition, TableRight, ProgressOK, LoopSteps, Body, Starting, Synced, Filling
<1>6. SlotsRight'
  BY <1>1 DEF RecoveryInv, SlotsRight, SlotsDistinct, Body, Starting, Filling
<1>7. decoded' = decoded
  BY Zenon
<1>8. ~decoded
  BY DEF RecoveryInv, ProgressOK
<1>9. ~decoded'
  BY <1>7, <1>8
<1>10. FirmwareOK'
  BY <1>1, <1>9 DEF RecoveryInv, FirmwareOK, NoGarbage
<1>11. QED
  BY <1>3, <1>4, <1>5, <1>6, <1>10 DEF RecoveryInv

LEMMA ClearRecovery ==
  ASSUME TypeInv, RecoveryInv, Clear
  PROVE  RecoveryInv'
<1>1. /\ pc = "clear" /\ pc' = "record" /\ flag' = [want |-> "UPDATEED", then |-> "app"]
      /\ magic' = "BLANK" /\ ftab' = NoEntries
      /\ UNCHANGED <<status, fw, sea, patch, table, bkmap>>
  BY DEF Clear, Goto, backup
<1>2. decoded' = decoded
  BY Zenon DEF Clear
<1>3. StatusOK' /\ MagicSet' /\ Pristine'
  BY <1>1 DEF RecoveryInv, StatusOK, MagicSet, Pristine, Requesting, Running, Failing, Body,
              LoopSteps, Unsaved
<1>4. FlashOK'
  BY <1>1 DEF FlashOK
<1>5. OldPosition' /\ TableRight' /\ ProgressOK'
  BY <1>1 DEF OldPosition, TableRight, ProgressOK, LoopSteps, Body, Starting, Synced, Filling
<1>6. SlotsRight'
  BY <1>1 DEF RecoveryInv, SlotsRight, SlotsDistinct, Body, Starting, Filling
<1>7. NoGarbage'
  BY <1>1 DEF RecoveryInv, FirmwareOK, NoGarbage
<1>8. ASSUME decoded' PROVE DoneTo(NewLength(patch'), fw', patch')
  <2>1. decoded
    BY <1>2, <1>8
  <2>2. QED
    BY <1>1, <2>1 DEF RecoveryInv, FirmwareOK
<1>9. FirmwareOK'
  BY <1>7, <1>8 DEF FirmwareOK
<1>10. QED
  BY <1>3, <1>4, <1>5, <1>6, <1>9 DEF RecoveryInv

\* A reset: RAM starts afresh, flash is as it was, or as the lost write left it.
LEMMA ResetRecovery ==
  ASSUME TypeInv, RecoveryInv, ResetRAM, UNCHANGED <<status, patch, magic, ftab>>,
         NoGarbage', FlashOK',
         status # "CHECK" /\ ~Requesting /\ pc \in Unsaved => status # "UPDATE",
         status = "CHECK" \/ (status = "UPDATE" /\ magic = "BLANK") => fw' = fw,
         magic = "SET" => patch \in CrashPatches /\ ftab[0].st # "U"
  PROVE  RecoveryInv'
<1>1. /\ pc' = "boot" /\ table' = NoEntries /\ bkmap' = {} /\ flag' = [want |-> "IDLE", then |-> "app"]
  BY DEF ResetRAM
<1>2. ~decoded'
  BY Zenon DEF ResetRAM
<1>3. StatusOK' /\ MagicSet'
  BY <1>1 DEF RecoveryInv, StatusOK, MagicSet, LoopSteps, Body, Requesting
<1>4. Pristine'
  BY <1>1 DEF RecoveryInv, StatusOK, Pristine, Requesting, Unsaved
<1>5. OldPosition' /\ TableRight' /\ ProgressOK'
  BY <1>1 DEF OldPosition, TableRight, ProgressOK, LoopSteps, Body, Starting, Synced, Filling
<1>6. SlotsRight'
  BY <1>1 DEF SlotsRight, SlotsDistinct, NoEntries, Unused, Body, Starting, Filling
<1>7. FirmwareOK'
  BY <1>2 DEF FirmwareOK
<1>8. QED
  BY <1>3, <1>4, <1>5, <1>6, <1>7 DEF RecoveryInv

LEMMA RestartRecovery ==
  ASSUME TypeInv, RecoveryInv, Restart
  PROVE  RecoveryInv'
<1>1. /\ pc = "app" /\ ResetRAM
      /\ UNCHANGED <<status, patch, magic, ftab, fw, sea>>
  BY DEF Restart, flash
<1>2. NoGarbage' /\ FlashOK'
  BY <1>1 DEF RecoveryInv, FirmwareOK, NoGarbage, FlashOK
<1>3. magic = "SET" => patch \in CrashPatches /\ ftab[0].st # "U"
  BY <1>1 DEF RecoveryInv, MagicSet, Running, Failing, Body
<1>4. pc \notin Unsaved
  BY <1>1 DEF Unsaved
<1>5. QED
  BY <1>1, <1>2, <1>3, <1>4, ResetRecovery

-----------------------------------------------------------------------------
(* Taking up a patch that was cut.                                           *)

\* The sector at which Resume takes up is one up to which everything is in
\* place, and the table is as it is when that sector is the current one.
LEMMA ResumeFront ==
  ASSUME NEW t \in [Sectors -> Entry], NEW p \in CrashPatches, NEW m \in Sectors,
         FrontAt(t, m, p), t[0].st # "U"
  PROVE  /\ Recorded(t) # {} /\ ResumeSector(t) \in Sectors /\ ResumeSector(t) <= m
         /\ FrontAt(t, ResumeSector(t), p)
         /\ \A k \in Sectors : t[k].st = "S" => k \in Recorded(t)
<1>1. /\ \A k \in Sectors : k \in Nat /\ k < Pool
      /\ \A k \in Sectors : k < m => t[k].st # "U"
      /\ \A k \in Sectors : k > m => t[k].st = "U"
      /\ \A k \in Sectors : t[k].st = "C" => k < m
      /\ \A k \in Sectors : t[k].st \in {"U", "S", "C"}
      /\ m \in Nat /\ Pool \in Nat /\ 0 \in Sectors
  BY GeometryAssumption DEF FrontAt, Sectors, Entry
<1>2. \A k \in Sectors : k < m \/ (k = m /\ t[m].st # "U") => k \in Recorded(t)
  BY <1>1 DEF Recorded, Sectors
<1>3. \A k \in Recorded(t) : k \in Sectors /\ k <= m /\ t[k].st # "U"
  BY <1>1 DEF Recorded
<1>4. 0 \in Recorded(t) /\ Recorded(t) \in SUBSET Sectors
  BY <1>1 DEF Recorded
<1> DEFINE last == Greatest(Recorded(t))
<1>5. last \in Recorded(t) /\ \A k \in Recorded(t) : k <= last
  BY <1>4, GreatestIsUpper
<1>6. \A k \in Sectors : t[k].st = "S" => k \in Recorded(t)
  BY <1>1, <1>2
<1>7. CASE t[last].st = "S"
  <2>1. ResumeSector(t) = last
    BY <1>7 DEF ResumeSector
  <2> HIDE DEF last
  <2>2. last \in Sectors /\ last <= m /\ last \in Nat
    BY <1>1, <1>3, <1>5
  <2>3. ASSUME NEW k \in Sectors, k > last PROVE t[k].st = "U"
    <3>1. k \notin Recorded(t) /\ k \in Nat
      BY <1>1, <1>5, <2>2, <2>3
    <3>2. k >= m
      BY <1>1, <1>2, <3>1
    <3>3. QED
      BY <1>1, <1>2, <3>1, <3>2
  <2>4. ASSUME NEW k \in Sectors, t[k].st = "C" PROVE k < last
    BY <1>1, <1>2, <1>5, <1>7, <2>2, <2>4
  <2>5. ASSUME NEW k \in Sectors, k < last PROVE t[k].st # "U"
    BY <1>1, <2>2, <2>5
  <2>6. QED
    BY <1>4, <1>6, <2>1, <2>2, <2>3, <2>4, <2>5 DEF FrontAt
<1>8. CASE t[last].st # "S"
  <2>1. ResumeSector(t) = last + 1
    BY <1>8 DEF ResumeSector
  <2> HIDE DEF last
  <2>2. last \in Sectors /\ last \in Nat /\ last < m
    BY <1>1, <1>3, <1>5, <1>8
  <2>3. last + 1 = m
    <3>1. PICK k \in Sectors : k = last + 1
      BY <1>1, <2>2 DEF Sectors
    <3>2. ~(k < m)
      BY <1>1, <1>2, <1>5, <2>2, <3>1
    <3>3. QED
      BY <1>1, <2>2, <3>1, <3>2
  <2>4. QED
    BY <1>1, <1>4, <1>6, <2>1, <2>3
<1>9. QED
  BY <1>7, <1>8

\* Two sectors in the sea cannot share a slot: it would hold both.
LEMMA SlotsApart ==
  ASSUME NEW t, NEW s, InSea(t, s)
  PROVE  \A j, k \in Sectors : t[j].st = "S" /\ t[k].st = "S" /\ t[j].slot = t[k].slot => j = k
<1> SUFFICES ASSUME NEW j \in Sectors, NEW k \in Sectors,
                    t[j].st = "S", t[k].st = "S", t[j].slot = t[k].slot
             PROVE  j = k
  OBVIOUS
<1>1. OldImage(j) = OldImage(k) /\ 0 \in Offsets
  BY GeometryAssumption DEF InSea, Offsets
<1>2. Old(j * SectorSize + 0) = Old(k * SectorSize + 0)
  BY <1>1 DEF OldImage
<1>3. j * SectorSize + 0 = k * SectorSize + 0
  BY <1>2 DEF Old
<1>4. /\ j \in Int /\ k \in Int /\ SectorSize \in Nat /\ SectorSize > 0
      /\ j * SectorSize \in Int /\ k * SectorSize \in Int
  BY SectorStart, GeometryAssumption DEF Sectors
<1>5. ~(j < k) /\ ~(k < j)
  BY <1>3, <1>4, SectorStart
<1>6. QED
  BY <1>4, <1>5

LEMMA SomeSectors ==
  ASSUME NEW S \in SUBSET Sectors
  PROVE  IsFiniteSet(S)
<1>1. 0 \in Int /\ Pool - 1 \in Int
  BY GeometryAssumption
<1>2. IsFiniteSet(Sectors)
  BY <1>1, FS_Interval DEF Sectors
<1>3. QED
  BY <1>2, FS_Subset

\* No more slots are in use than sectors are in the sea.
LEMMA SlotsCounted ==
  ASSUME NEW t, NEW S \in SUBSET Sectors
  PROVE  Cardinality({t[k].slot : k \in S}) <= Cardinality(S)
<1> DEFINE T == {t[k].slot : k \in S}
           f == [k \in S |-> t[k].slot]
<1>1. IsFiniteSet(S)
  BY SomeSectors
<1>2. f \in Surjection(S, T)
  BY DEF Surjection
<1>3. QED
  BY <1>1, <1>2, FS_Surjection

LEMMA ResumeRecovery ==
  ASSUME Hypotheses, TypeInv, RecoveryInv, Resume
  PROVE  RecoveryInv'
<1> DEFINE R == ResumeSector(ftab)
           inSea == {k \in Recorded(ftab) : ftab[k].st = "S"}
<1>1. /\ pc = "resume" /\ pc' = "chunk" /\ magic = "SET"
      /\ UNCHANGED <<status, fw, sea, ftab, magic, patch, flag, blk, phase, remain, newpos, oldpos>>
      /\ table' = ftab
      /\ bkmap' = {ftab[k].slot : k \in inSea} /\ used' = Cardinality(inSea)
  BY DEF Resume, Goto, flash, scratch
<1>2. ~en' /\ decoded' = decoded
  BY Zenon DEF Resume, scratch
<1>3. ~decoded'
  BY <1>1, <1>2 DEF RecoveryInv, ProgressOK, Starting
<1>4. patch \in CrashPatches /\ ftab[0].st # "U"
  BY <1>1 DEF RecoveryInv, MagicSet, Running, Failing, Body
<1>5. ftab \in [Sectors -> Entry] /\ newpos = 0
  BY <1>1 DEF TypeInv, TypeOK, RecoveryInv, TableRight, Starting
<1>6. PICK m \in Sectors : FrontAt(ftab, m, patch) /\ DoneTo(m * SectorSize, fw, patch)
  BY <1>1 DEF RecoveryInv, FlashOK
<1>7. /\ Recorded(ftab) # {} /\ R \in Sectors /\ R <= m
      /\ FrontAt(ftab, R, patch)
      /\ \A k \in Sectors : ftab[k].st = "S" => k \in Recorded(ftab)
  BY <1>4, <1>5, <1>6, ResumeFront
<1>8. lastbk' = R
  BY <1>7 DEF Resume
<1> HIDE DEF R
<1>9. Front' = R
  BY <1>2, <1>8 DEF Front
<1>10. StatusOK' /\ MagicSet' /\ Pristine'
  BY <1>1 DEF RecoveryInv, StatusOK, MagicSet, Pristine, Requesting, Running, Failing, Body,
              LoopSteps, Unsaved
<1>11. FlashOK' /\ OldPosition'
  BY <1>1 DEF RecoveryInv, FlashOK, OldPosition, LoopSteps
<1>12. InSea(ftab, sea) /\ InPlace(ftab, fw, patch)
  BY <1>1 DEF RecoveryInv, FlashOK
<1>13. TableRight'
  BY <1>1, <1>7, <1>9, <1>12 DEF TableRight, Body, Starting, Synced, Filling
<1>14. ProgressOK'
  <2>1. R \in Nat /\ m \in Nat
    BY <1>7 DEF Sectors
  <2>2. R * SectorSize <= m * SectorSize /\ 0 * SectorSize <= R * SectorSize
        /\ R * SectorSize \in Int /\ m * SectorSize \in Int
    BY <1>7, <2>1, SectorStart
  <2>3. DoneTo(R * SectorSize, fw, patch)
    BY <1>6, <2>2 DEF DoneTo
  <2>4. newpos' <= lastbk' * SectorSize
    BY <1>1, <1>5, <1>8, <2>2, NothingDone
  <2>5. QED
    BY <1>1, <1>2, <1>3, <1>7, <1>9, <2>3, <2>4 DEF ProgressOK, Body, Starting
<1>15. SlotsRight'
  <2>1. \A k \in Sectors : ftab[k].st = "S" => k \in inSea
    BY <1>7
  <2>2. inSea \in SUBSET Sectors
    BY DEF Recorded
  <2>3. SlotsDistinct'
    BY <1>1, <1>12, <2>1, SlotsApart DEF SlotsDistinct
  <2>4. bkmap' \subseteq Slots
    <3>1. \A k \in inSea : ftab[k].slot \in Slots
      BY <1>12, <2>2 DEF InSea
    <3>2. QED
      BY <1>1, <3>1
  <2>5. Cardinality(bkmap') <= used'
    BY <1>1, <2>2, SlotsCounted
  <2>6. QED
    BY <1>1, <2>3, <2>4, <2>5 DEF SlotsRight, Body, Starting, Filling
<1>16. FirmwareOK'
  BY <1>1, <1>3 DEF RecoveryInv, FirmwareOK, NoGarbage
<1>17. QED
  BY <1>10, <1>11, <1>13, <1>14, <1>15, <1>16 DEF RecoveryInv

-----------------------------------------------------------------------------
(* Steps that write the firmware, the sea or the table on flash.             *)

\* A cell of the new firmware is in a sector of the pool.
LEMMA NewCell ==
  ASSUME NEW p \in Patches, NEW c \in Nat, c < NewLength(p)
  PROVE  Sector(c) \in Sectors /\ Offset(c) \in Offsets
<1>1. NewLength(p) \in 0 .. Pool * SectorSize - 1
  BY NewEnd
<1>2. Pool * SectorSize \in Int
  BY SectorStart, GeometryAssumption
<1>3. c \in 0 .. Pool * SectorSize - 1
  BY <1>1, <1>2
<1>4. QED
  BY <1>3, SectorInPool, CellOf

\* What is in place before a sector is not touched by a write to that sector.
LEMMA DoneBefore ==
  ASSUME NEW p \in Patches, NEW k \in Sectors, NEW f \in [Sectors -> Image], NEW img,
         DoneTo(k * SectorSize, f, p)
  PROVE  DoneTo(k * SectorSize, [f EXCEPT ![k] = img], p)
<1> SUFFICES ASSUME NEW c \in Nat, c < k * SectorSize, c < NewLength(p)
             PROVE  [f EXCEPT ![k] = img][Sector(c)][Offset(c)] = New(c)
  BY DEF DoneTo
<1>1. Sector(c) \in Sectors
  BY NewCell
<1>2. Sector(c) # k
  <2>1. Sector(c) \in Nat /\ Sector(c) * SectorSize <= c /\ k * SectorSize \in Int
    BY CellOf, SectorStart DEF Sectors
  <2>2. QED
    BY <2>1
<1>3. f[Sector(c)][Offset(c)] = New(c)
  BY DEF DoneTo
<1>4. QED
  BY <1>1, <1>2, <1>3

\* A sector that is not read, or is in the sea, may be written.
LEMMA InPlaceStays ==
  ASSUME NEW t, NEW p, NEW k \in Sectors, NEW f \in [Sectors -> Image], NEW img,
         InPlace(t, f, p), ReadByPatch(p, k) => t[k].st # "U"
  PROVE  InPlace(t, [f EXCEPT ![k] = img], p)
BY DEF InPlace

\* A slot without an owner may be written.
LEMMA InSeaStays ==
  ASSUME NEW t, NEW x \in Slots, NEW s \in [Slots -> Image], NEW img,
         InSea(t, s), \A k \in Sectors : t[k].st = "S" => t[k].slot # x
  PROVE  InSea(t, [s EXCEPT ![x] = img])
BY DEF InSea

LEMMA CrashRecovery ==
  ASSUME Hypotheses, TypeInv, RecoveryInv, Crash
  PROVE  RecoveryInv'
<1>1. /\ pc \in CrashPoints /\ pc \notin Unsaved /\ patch \in CrashPatches /\ ResetRAM
      /\ UNCHANGED <<status, patch>>
  BY DEF Crash, Hypotheses
<1>2. UNCHANGED <<magic, ftab>>
  BY <1>1 DEF Crash, Unsaved
<1>3. PICK n \in Offsets :
        /\ fw'  = IF pc = "fwWrite"  THEN [fw EXCEPT ![Cur] = Torn(image, n)] ELSE fw
        /\ sea' = IF pc = "seaWrite" THEN [sea EXCEPT ![slot] = Torn(fw[Cur], n)] ELSE sea
  BY DEF Crash
<1>4. magic = "SET" => ftab[0].st # "U"
  <2>1. magic = "SET" => Recorded(ftab) # {}
    <3>1. RiskFirst = FALSE
      BY DEF Hypotheses
    <3>2. magic = "SET" /\ Recorded(ftab) = {} => RiskFirst
      BY DEF Crash
    <3>3. QED
      BY <3>1, <3>2
  <2>2. Recorded(ftab) # {} => ftab[0].st # "U"
    BY DEF Recorded, Sectors
  <2>3. QED
    BY <2>1, <2>2
<1>5. fw \in [Sectors -> Image] /\ sea \in [Slots -> Image] /\ patch \in Patches
  BY DEF TypeInv, TypeOK
<1>6. CASE pc = "fwWrite"
  <2>1. /\ fw' = [fw EXCEPT ![Cur] = Torn(image, n)] /\ sea' = sea
        /\ pc \in Body /\ pc \in Synced /\ pc \in LoopSteps
    BY <1>3, <1>6 DEF Body, Synced, LoopSteps
  <2>2. Cur \in Sectors
    BY <2>1, CurInPool
  <2>3. en
    BY <1>6, <2>1 DEF RecoveryInv, ProgressOK
  <2>4. Front = Cur
    BY <2>3 DEF Front
  <2>5. /\ ftab = table /\ InSea(table, sea) /\ InPlace(table, fw, patch)
        /\ FrontAt(table, Cur, patch)
        /\ ReadByPatch(patch, Cur) => table[Cur].st = "S"
        /\ DoneTo(Cur * SectorSize, fw, patch)
    BY <1>6, <2>1, <2>4 DEF RecoveryInv, TableRight, ProgressOK
  <2>6. FlashOK'
    <3>1. InPlace(table, fw', patch)
      BY <1>5, <2>1, <2>2, <2>5, InPlaceStays
    <3>2. DoneTo(Cur * SectorSize, fw', patch)
      BY <1>5, <2>1, <2>2, <2>5, DoneBefore
    <3>3. QED
      BY <1>1, <1>2, <2>1, <2>2, <2>5, <3>1, <3>2 DEF FlashOK
  <2>7. NoGarbage'
    <3>1. \A o \in Offsets : image[o] # Garbage
      BY <1>6 DEF RecoveryInv, ProgressOK
    <3>2. \A o \in Offsets : Torn(image, n)[o] # Garbage
      BY <3>1 DEF Torn, Erased, Garbage
    <3>3. QED
      BY <1>5, <2>1, <2>2, <3>2 DEF RecoveryInv, FirmwareOK, NoGarbage
  <2>8. magic = "SET" /\ status = "UPDATE"
    BY <1>6, <2>1 DEF RecoveryInv, MagicSet, StatusOK
  <2>9. QED
    BY <1>1, <1>2, <1>4, <2>6, <2>7, <2>8, ResetRecovery
<1>7. CASE pc # "fwWrite"
  <2>1. fw' = fw
    BY <1>3, <1>7
  <2>2. NoGarbage'
    BY <2>1 DEF RecoveryInv, FirmwareOK, NoGarbage
  <2>3. magic = "SET" => InSea(ftab, sea')
    <3>1. CASE pc = "seaWrite"
      <4>1. /\ ftab = table /\ slot \in Slots
            /\ \A k \in Sectors : table[k].st = "S" => table[k].slot # slot
            /\ InSea(table, sea)
        BY <3>1 DEF RecoveryInv, TableRight, SlotsRight, Synced, Filling, Body
      <4>2. QED
        BY <1>3, <1>5, <3>1, <4>1, InSeaStays
    <3>2. CASE pc # "seaWrite"
      BY <1>3, <3>2 DEF RecoveryInv, FlashOK
    <3>3. QED
      BY <3>1, <3>2
  <2>4. FlashOK'
    BY <1>1, <1>2, <2>1, <2>3 DEF RecoveryInv, FlashOK
  <2>5. QED
    BY <1>1, <1>2, <1>4, <2>1, <2>2, <2>4, ResetRecovery
<1>8. QED
  BY <1>6, <1>7

\* What every step of the body of the loop finds.
LEMMA InBody ==
  ASSUME TypeInv, RecoveryInv, pc \in Body
  PROVE  /\ patch \in Patches /\ Cur \in Sectors /\ Front \in Sectors
         /\ newpos \in Nat /\ remain \in Nat /\ oldpos \in Int /\ Temp \in 0 .. remain
         /\ newpos + remain <= NewLength(patch)
         /\ status = "UPDATE" /\ ~decoded /\ pc \in LoopSteps
         /\ pc \notin {"recWrite", "stWrite"} => magic = "SET"
         /\ pc # "chunk" => en /\ Front = Cur
         /\ InSea(table, sea) /\ InPlace(table, fw, patch) /\ FrontAt(table, Front, patch)
         /\ DoneTo(Front * SectorSize, fw, patch)
         /\ fw \in [Sectors -> Image] /\ sea \in [Slots -> Image] /\ table \in [Sectors -> Entry]
         /\ SectorSize \in Nat
<1>1. pc \in LoopSteps
  BY DEF Body, LoopSteps
<1>2. Cur \in Sectors /\ Temp \in 0 .. remain
  BY <1>1, CurInPool
<1>3. patch \in Patches /\ newpos \in Nat /\ remain \in Nat /\ oldpos \in Int
      /\ fw \in [Sectors -> Image] /\ sea \in [Slots -> Image] /\ table \in [Sectors -> Entry]
  BY DEF TypeInv, TypeOK
<1>4. newpos + remain <= NewLength(patch)
  <2>1. blk \in 1 .. Len(patch) /\ Len(patch) \in Nat
        /\ patch[blk].diff \in Nat /\ patch[blk].extra \in Nat
    <3>1. blk \in DOMAIN patch
      BY DEF TypeInv, TypeOK
    <3>2. QED
      BY <1>3, <3>1, PatchParts
  <2>2. blk \in 1 .. Len(patch) + 1 /\ blk + 1 \in 1 .. Len(patch) + 1
    BY <2>1
  <2>3. /\ Begin(patch)[blk + 1] \in Nat /\ Begin(patch)[blk + 1] <= NewLength(patch)
        /\ Begin(patch)[blk] \in Nat
        /\ Begin(patch)[blk + 1] = Begin(patch)[blk] + patch[blk].diff + patch[blk].extra
    BY <1>3, <2>1, <2>2, NewEnd, BeginParts
  <2>4. NewLength(patch) \in Int
    BY <1>3, NewEnd
  <2>5. newpos + remain = IF phase = "diff" THEN Begin(patch)[blk] + patch[blk].diff
                                            ELSE Begin(patch)[blk + 1]
    BY <1>1 DEF TypeInv, CursorOK
  <2>6. QED
    BY <1>3, <2>1, <2>3, <2>4, <2>5
<1>5. ~decoded /\ Front \in Sectors /\ DoneTo(Front * SectorSize, fw, patch)
  BY DEF RecoveryInv, ProgressOK
<1>6. pc # "chunk" => en
  BY DEF RecoveryInv, ProgressOK
<1>7. pc # "chunk" => Front = Cur
  BY <1>6 DEF Front
<1>8. status = "UPDATE" /\ (pc \notin {"recWrite", "stWrite"} => magic = "SET")
  BY <1>1 DEF RecoveryInv, StatusOK, MagicSet
<1>9. InSea(table, sea) /\ InPlace(table, fw, patch) /\ FrontAt(table, Front, patch)
  BY DEF RecoveryInv, TableRight
<1>10. QED
  BY <1>1, <1>2, <1>3, <1>4, <1>5, <1>6, <1>7, <1>8, <1>9, GeometryAssumption

\* Steps from the body of the loop to the body that leave status word, position
\* and firmware alone.
LEMMA BodyStays ==
  ASSUME TypeInv, RecoveryInv, pc \in Body, pc' \in Body \ {"chunk"}, en, pc # "fwWrite",
         UNCHANGED <<status, patch, fw, flag, blk, phase, remain, newpos, oldpos, lastbk>>,
         en' = en, decoded' = decoded
  PROVE  /\ StatusOK' /\ OldPosition' /\ FirmwareOK'
         /\ en' /\ Cur' = Cur /\ Temp' = Temp /\ Front' = Cur
         /\ (pc' \notin {"fwErase", "fwWrite"}) => ProgressOK'
<1>1. /\ pc \in LoopSteps /\ pc' \in LoopSteps
      /\ pc' \notin {"flagErase", "flagWrite", "record", "boot", "magicErase", "magicWrite"}
  BY DEF Body, LoopSteps
<1>2. status = "UPDATE" /\ ~decoded /\ Cur \in Sectors
  BY InBody
<1>3. en' /\ ~decoded'
  BY <1>2
<1>4. Cur' = Cur /\ Temp' = Temp
  BY DEF Cur, Temp
<1>5. Front = Cur
  BY DEF Front
<1>6. Front' = Cur
  BY <1>3, <1>4 DEF Front
<1>7. StatusOK'
  BY <1>1, <1>2 DEF StatusOK
<1>8. OldPosition'
  BY <1>1 DEF RecoveryInv, OldPosition
<1>9. FirmwareOK'
  BY <1>3 DEF RecoveryInv, FirmwareOK, NoGarbage
<1>10. DoneTo(newpos, fw, patch) /\ DoneTo(Cur * SectorSize, fw, patch)
  BY <1>5 DEF RecoveryInv, ProgressOK
<1>11. ASSUME pc' \notin {"fwErase", "fwWrite"} PROVE ProgressOK'
  <2>1. pc' \notin Starting
    BY <1>1 DEF Body, Starting
  <2>2. QED
    BY <1>2, <1>3, <1>6, <1>10, <1>11, <2>1 DEF ProgressOK
<1>12. QED
  BY <1>3, <1>4, <1>6, <1>7, <1>8, <1>9, <1>11

LEMMA AlreadyBackedUpRecovery ==
  ASSUME TypeInv, RecoveryInv, AlreadyBackedUp
  PROVE  RecoveryInv'
<1>1. /\ pc = "backup" /\ pc' = "patch" /\ table[Cur].st = "S"
      /\ UNCHANGED <<status, fw, sea, ftab, magic, patch, flag, blk, phase, remain, newpos, oldpos,
                     lastbk, table, bkmap, used>>
  BY DEF AlreadyBackedUp, Goto, flash, cursor, backup, scratch
<1>2. en' = en /\ decoded' = decoded
  BY Zenon DEF AlreadyBackedUp, cursor, scratch
<1>3. pc \in Body /\ pc' \in Body \ {"chunk"} /\ pc \in Synced
  BY <1>1 DEF Body, Synced
<1>4. magic = "SET" /\ en /\ Front = Cur
  BY <1>1, <1>3, InBody
<1>5. /\ StatusOK' /\ OldPosition' /\ FirmwareOK' /\ ProgressOK'
      /\ Cur' = Cur /\ Front' = Cur
  BY <1>1, <1>2, <1>3, <1>4, BodyStays
<1>6. MagicSet' /\ Pristine'
  BY <1>1, <1>3, <1>4 DEF RecoveryInv, MagicSet, Pristine, Requesting, Running, Unsaved
<1>7. FlashOK'
  BY <1>1 DEF RecoveryInv, FlashOK
<1>8. TableRight'
  BY <1>1, <1>3, <1>4, <1>5 DEF RecoveryInv, TableRight, Starting, Filling
<1>9. SlotsRight'
  BY <1>1, <1>3 DEF RecoveryInv, SlotsRight, SlotsDistinct, Starting, Filling
<1>10. QED
  BY <1>5, <1>6, <1>7, <1>8, <1>9 DEF RecoveryInv

\* A set of slots that is not all of them leaves one free.
LEMMA SlotsFinite ==
  ASSUME NEW S \in SUBSET Slots
  PROVE  /\ IsFiniteSet(S) /\ Cardinality(S) \in Nat /\ Cardinality(S) <= SeaSlots
         /\ Cardinality(S) < SeaSlots => Slots \ S # {}
<1>1. 0 \in Int /\ SeaSlots - 1 \in Int /\ SeaSlots > 0
  BY GeometryAssumption
<1>2. IsFiniteSet(Slots) /\ Cardinality(Slots) = SeaSlots
  BY <1>1, FS_Interval, GeometryAssumption DEF Slots
<1>3. IsFiniteSet(S) /\ Cardinality(S) <= Cardinality(Slots)
  BY <1>2, FS_Subset
<1>4. Cardinality(S) \in Nat
  BY <1>3, FS_CardinalityType
<1>5. Cardinality(S) < SeaSlots => S # Slots
  BY <1>1, <1>2, <1>4
<1>6. QED
  BY <1>2, <1>3, <1>4, <1>5

LEMMA RecycleRecovery ==
  ASSUME TypeInv, RecoveryInv, Recycle
  PROVE  RecoveryInv'
<1> DEFINE victim == Least(Recyclable)
           x == table[victim].slot
<1>1. /\ pc = "backup" /\ pc' = "recErase" /\ table[Cur].st # "S"
      /\ used >= SeaSlots /\ used' = used - 1
      /\ UNCHANGED <<status, fw, sea, ftab, magic, patch, flag, blk, phase, remain, newpos, oldpos,
                     lastbk>>
      /\ table' = [table EXCEPT ![victim].st = "C"] /\ bkmap' = bkmap \ {x}
      /\ Recyclable # {}
  BY DEF Recycle, Goto, flash, cursor, scratch
<1>2. en' = en /\ decoded' = decoded
  BY Zenon DEF Recycle, cursor, scratch
<1>3. pc \in Body /\ pc' \in Body \ {"chunk"} /\ pc \in Synced
  BY <1>1 DEF Body, Synced
<1>4. /\ magic = "SET" /\ en /\ Front = Cur /\ Cur \in Sectors
      /\ InSea(table, sea) /\ InPlace(table, fw, patch) /\ FrontAt(table, Cur, patch)
      /\ table \in [Sectors -> Entry]
  BY <1>1, <1>3, InBody
<1>5. /\ StatusOK' /\ OldPosition' /\ FirmwareOK' /\ ProgressOK'
      /\ Cur' = Cur /\ Front' = Cur
  BY <1>1, <1>2, <1>3, <1>4, BodyStays
<1>6. MagicSet' /\ Pristine'
  BY <1>1, <1>3, <1>4 DEF RecoveryInv, MagicSet, Pristine, Requesting, Running, Unsaved
<1>7. FlashOK'
  BY <1>1 DEF RecoveryInv, FlashOK
<1>8. victim \in Sectors /\ table[victim].st = "S"
  BY <1>1, VictimInPool
<1> HIDE DEF victim
<1>9. /\ table'[victim].st = "C"
      /\ \A k \in Sectors : k # victim => table'[k] = table[k]
  BY <1>1, <1>4, <1>8 DEF Entry
<1>10. victim # Cur /\ victim < Cur
  <2>1. ~(victim > Cur)
    BY <1>4, <1>8 DEF FrontAt
  <2>2. QED
    BY <1>1, <1>4, <1>8, <2>1 DEF Sectors
<1>11. InSea(table', sea) /\ InPlace(table', fw, patch) /\ FrontAt(table', Cur, patch)
  <2>1. InSea(table', sea)
    BY <1>4, <1>9 DEF InSea
  <2>2. InPlace(table', fw, patch)
    BY <1>4, <1>9 DEF InPlace
  <2>3. FrontAt(table', Cur, patch)
    BY <1>4, <1>8, <1>9, <1>10 DEF FrontAt, Sectors
  <2>4. QED
    BY <2>1, <2>2, <2>3
<1>12. table'[Cur].st # "S"
  BY <1>1, <1>4, <1>9, <1>10
<1>13. TableRight'
  BY <1>1, <1>3, <1>5, <1>11, <1>12 DEF TableRight, Starting, Filling, Synced
<1>14. SlotsRight'
  <2>1. x \in bkmap /\ bkmap \subseteq Slots /\ Cardinality(bkmap) <= used
        /\ \A j \in Sectors \ {victim} : table[j].st = "S" => table[j].slot # x
    BY <1>1, <1>3, <1>8 DEF RecoveryInv, SlotsRight, SlotsDistinct
  <2>2. SlotsDistinct'
    BY <1>1, <1>8, <1>9, <2>1 DEF RecoveryInv, SlotsRight, SlotsDistinct
  <2>3. /\ Cardinality(bkmap) \in Nat /\ used \in Int /\ IsFiniteSet(bkmap)
    BY <2>1, SlotsFinite DEF TypeInv, TypeOK
  <2>4. Cardinality(bkmap') = Cardinality(bkmap) - 1
    BY <1>1, <2>1, <2>3, FS_RemoveElement
  <2>5. Cardinality(bkmap') <= used'
    BY <1>1, <2>1, <2>3, <2>4
  <2>6. Free' # {}
    BY <1>1, <2>1 DEF Free
  <2>7. QED
    BY <1>1, <2>1, <2>2, <2>5, <2>6 DEF SlotsRight, Starting, Filling
<1>15. QED
  BY <1>5, <1>6, <1>7, <1>13, <1>14 DEF RecoveryInv

LEMMA TableEraseRecovery ==
  ASSUME TypeInv, RecoveryInv, TableErase
  PROVE  RecoveryInv'
<1>1. /\ \/ pc = "recErase" /\ pc' = "recWrite"
         \/ pc = "stErase" /\ pc' = "stWrite"
      /\ magic' = "BLANK" /\ ftab' = NoEntries
      /\ UNCHANGED <<status, fw, sea, patch, flag, blk, phase, remain, newpos, oldpos,
                     lastbk, table, bkmap, used>>
  BY DEF TableErase, Goto, cursor, backup, scratch
<1>2. en' = en /\ decoded' = decoded
  BY Zenon DEF TableErase, cursor, scratch
<1>3. pc \in Body /\ pc' \in Body \ {"chunk"}
  BY <1>1 DEF Body
<1>4. en /\ Front = Cur /\ status = "UPDATE"
  BY <1>1, <1>3, InBody
<1>5. /\ StatusOK' /\ OldPosition' /\ FirmwareOK' /\ ProgressOK'
      /\ Cur' = Cur /\ Front' = Cur
  BY <1>1, <1>2, <1>3, <1>4, BodyStays
<1>6. MagicSet' /\ Pristine' /\ FlashOK'
  BY <1>1, <1>3, <1>4 DEF RecoveryInv, MagicSet, Pristine, FlashOK, Requesting, Unsaved
<1>7. TableRight'
  BY <1>1, <1>3, <1>4, <1>5 DEF RecoveryInv, TableRight, Starting, Filling, Synced
<1>8. SlotsRight'
  BY <1>1, <1>3 DEF RecoveryInv, SlotsRight, SlotsDistinct, Starting, Filling, Free
<1>9. QED
  BY <1>5, <1>6, <1>7, <1>8 DEF RecoveryInv

LEMMA TableWriteRecovery ==
  ASSUME TypeInv, RecoveryInv, TableWrite
  PROVE  RecoveryInv'
<1>1. /\ \/ pc = "recWrite" /\ pc' = "select" /\ used' = used
         \/ pc = "stWrite" /\ pc' = "patch" /\ used' = used + 1
      /\ magic' = "SET" /\ ftab' = table
      /\ UNCHANGED <<status, fw, sea, patch, flag, blk, phase, remain, newpos, oldpos,
                     lastbk, table, bkmap>>
  BY DEF TableWrite, Goto, cursor, scratch
<1>2. en' = en /\ decoded' = decoded
  BY Zenon DEF TableWrite, cursor, scratch
<1>3. pc \in Body /\ pc' \in Body \ {"chunk"}
  BY <1>1 DEF Body
<1>4. /\ en /\ Front = Cur /\ status = "UPDATE" /\ Cur \in Sectors
      /\ InSea(table, sea) /\ InPlace(table, fw, patch) /\ FrontAt(table, Cur, patch)
      /\ DoneTo(Cur * SectorSize, fw, patch)
  BY <1>1, <1>3, InBody
<1>5. /\ StatusOK' /\ OldPosition' /\ FirmwareOK' /\ ProgressOK'
      /\ Cur' = Cur /\ Front' = Cur
  BY <1>1, <1>2, <1>3, <1>4, BodyStays
<1>6. MagicSet' /\ Pristine'
  BY <1>1, <1>3, <1>4 DEF RecoveryInv, MagicSet, Pristine, Requesting, Running
<1>7. FlashOK'
  BY <1>1, <1>4 DEF FlashOK
<1>8. TableRight'
  BY <1>1, <1>3, <1>4, <1>5 DEF RecoveryInv, TableRight, Starting, Filling
<1>9. SlotsRight'
  BY <1>1, <1>3 DEF RecoveryInv, SlotsRight, SlotsDistinct, Starting, Filling, Free
<1>10. QED
  BY <1>5, <1>6, <1>7, <1>8, <1>9 DEF RecoveryInv

LEMMA SelectRecovery ==
  ASSUME TypeInv, RecoveryInv, Select
  PROVE  RecoveryInv'
<1>1. /\ pc \in {"select", "backup"} /\ table[Cur].st # "S"
      /\ pc = "backup" => used < SeaSlots
      /\ UNCHANGED <<status, fw, sea, ftab, magic, patch, flag, blk, phase, remain, newpos, oldpos,
                     lastbk, table, used>>
  BY DEF Select, flash, cursor, RecoveryInv, TableRight
<1>2. en' = en /\ decoded' = decoded
  BY Zenon DEF Select, cursor
<1>3. pc \in Body /\ pc \in Synced
  BY <1>1 DEF Body, Synced
<1>4. /\ magic = "SET" /\ en /\ Front = Cur /\ Cur \in Sectors
      /\ InSea(table, sea) /\ InPlace(table, fw, patch) /\ FrontAt(table, Cur, patch)
  BY <1>1, <1>3, InBody
<1>5. Free # {}
  <2>1. CASE pc = "select"
    BY <2>1 DEF RecoveryInv, SlotsRight
  <2>2. CASE pc = "backup"
    <3>1. bkmap \in SUBSET Slots /\ Cardinality(bkmap) <= used
      BY <1>3, <2>2 DEF RecoveryInv, SlotsRight
    <3>2. Cardinality(bkmap) \in Nat /\ used \in Int /\ SeaSlots \in Int
      BY <3>1, SlotsFinite, GeometryAssumption DEF TypeInv, TypeOK
    <3>3. Cardinality(bkmap) < SeaSlots
      BY <1>1, <2>2, <3>1, <3>2
    <3>4. QED
      BY <3>1, <3>3, SlotsFinite DEF Free
  <2>3. QED
    BY <1>1, <2>1, <2>2
<1>6. Cardinality(bkmap) <= used /\ bkmap \in SUBSET Slots /\ Cardinality(bkmap) \in Nat
      /\ used \in Int /\ IsFiniteSet(bkmap)
  <2>1. Cardinality(bkmap) <= used /\ bkmap \in SUBSET Slots
    BY <1>1, <1>3 DEF RecoveryInv, SlotsRight
  <2>2. QED
    BY <2>1, SlotsFinite DEF TypeInv, TypeOK
<1>7. CASE ReadByPatch(patch, Cur)
  <2>1. /\ pc' = "seaErase" /\ slot' = Least(Free) /\ bkmap' = bkmap \cup {slot'}
    BY <1>5, <1>7 DEF Select, Goto
  <2>2. slot' \in Slots /\ slot' \notin bkmap
    BY <1>5, <2>1, FreeSlot
  <2>3. pc' \in Body \ {"chunk"}
    BY <2>1 DEF Body
  <2>4. /\ StatusOK' /\ OldPosition' /\ FirmwareOK' /\ ProgressOK'
        /\ Cur' = Cur /\ Front' = Cur
    BY <1>1, <1>2, <1>3, <1>4, <2>1, <2>3, BodyStays
  <2>5. MagicSet' /\ Pristine' /\ FlashOK'
    BY <1>1, <1>4, <2>1, <2>3 DEF RecoveryInv, MagicSet, Pristine, FlashOK, Requesting, Running
  <2>6. TableRight'
    BY <1>1, <1>3, <1>4, <1>7, <2>1, <2>4 DEF RecoveryInv, TableRight, Starting
  <2>7. Cardinality(bkmap') <= used' + 1
    <3>1. Cardinality(bkmap \cup {slot'}) = Cardinality(bkmap) + 1
      BY <1>6, <2>2, FS_AddElement
    <3>2. QED
      BY <1>1, <1>6, <2>1, <3>1
  <2>8. SlotsRight'
    BY <1>1, <1>6, <2>1, <2>2, <2>7 DEF RecoveryInv, SlotsRight, SlotsDistinct, Starting
  <2>9. QED
    BY <2>4, <2>5, <2>6, <2>8 DEF RecoveryInv
<1>8. CASE ~ReadByPatch(patch, Cur)
  <2>1. pc' = "patch" /\ UNCHANGED <<slot, bkmap>>
    BY <1>8 DEF Select, Goto
  <2>3. pc' \in Body \ {"chunk"}
    BY <2>1 DEF Body
  <2>4. /\ StatusOK' /\ OldPosition' /\ FirmwareOK' /\ ProgressOK'
        /\ Cur' = Cur /\ Front' = Cur
    BY <1>1, <1>2, <1>3, <1>4, <2>1, <2>3, BodyStays
  <2>5. MagicSet' /\ Pristine' /\ FlashOK'
    BY <1>1, <1>4, <2>1, <2>3 DEF RecoveryInv, MagicSet, Pristine, FlashOK, Requesting, Running
  <2>6. TableRight'
    BY <1>1, <1>3, <1>4, <1>8, <2>1, <2>4 DEF RecoveryInv, TableRight, Starting, Filling
  <2>7. SlotsRight'
    BY <1>1, <1>6, <2>1 DEF RecoveryInv, SlotsRight, SlotsDistinct, Starting, Filling
  <2>8. QED
    BY <2>4, <2>5, <2>6, <2>7 DEF RecoveryInv
<1>9. QED
  BY <1>7, <1>8

LEMMA SeaEraseRecovery ==
  ASSUME TypeInv, RecoveryInv, SeaErase
  PROVE  RecoveryInv'
<1>1. /\ pc = "seaErase" /\ pc' = "seaWrite" /\ sea' = [sea EXCEPT ![slot] = ErasedImage]
      /\ UNCHANGED <<status, fw, ftab, magic, patch, flag, blk, phase, remain, newpos, oldpos,
                     lastbk, table, bkmap, used, slot>>
  BY DEF SeaErase, Goto, cursor, backup, scratch
<1>2. en' = en /\ decoded' = decoded
  BY Zenon DEF SeaErase, cursor, scratch
<1>3. pc \in Body /\ pc' \in Body \ {"chunk"} /\ pc \in Synced /\ pc \in Filling
  BY <1>1 DEF Body, Synced, Filling
<1>4. /\ magic = "SET" /\ en /\ Front = Cur
      /\ InSea(table, sea) /\ sea \in [Slots -> Image]
  BY <1>1, <1>3, InBody
<1>5. /\ StatusOK' /\ OldPosition' /\ FirmwareOK' /\ ProgressOK'
      /\ Cur' = Cur /\ Front' = Cur
  BY <1>1, <1>2, <1>3, <1>4, BodyStays
<1>6. /\ slot \in Slots /\ ftab = table
      /\ \A k \in Sectors : table[k].st = "S" => table[k].slot # slot
  BY <1>3 DEF RecoveryInv, SlotsRight, TableRight
<1>7. InSea(table, sea')
  BY <1>1, <1>4, <1>6, InSeaStays
<1>8. MagicSet' /\ Pristine' /\ FlashOK'
  BY <1>1, <1>3, <1>4, <1>6, <1>7 DEF RecoveryInv, MagicSet, Pristine, FlashOK, Requesting, Running
<1>9. TableRight'
  BY <1>1, <1>3, <1>4, <1>5, <1>7 DEF RecoveryInv, TableRight, Starting
<1>10. SlotsRight'
  BY <1>1, <1>3 DEF RecoveryInv, SlotsRight, SlotsDistinct, Starting
<1>11. QED
  BY <1>5, <1>8, <1>9, <1>10 DEF RecoveryInv

LEMMA SeaWriteRecovery ==
  ASSUME TypeInv, RecoveryInv, SeaWrite
  PROVE  RecoveryInv'
<1>1. /\ pc = "seaWrite" /\ pc' = "stErase" /\ sea' = [sea EXCEPT ![slot] = fw[Cur]]
      /\ table' = [table EXCEPT ![Cur] = [st |-> "S", slot |-> slot]]
      /\ UNCHANGED <<status, fw, ftab, magic, patch, flag, blk, phase, remain, newpos, oldpos,
                     lastbk, bkmap, used, slot>>
  BY DEF SeaWrite, Goto, cursor, scratch
<1>2. en' = en /\ decoded' = decoded
  BY Zenon DEF SeaWrite, cursor, scratch
<1>3. pc \in Body /\ pc' \in Body \ {"chunk"} /\ pc \in Synced /\ pc \in Filling
  BY <1>1 DEF Body, Synced, Filling
<1>4. /\ magic = "SET" /\ en /\ Front = Cur /\ Cur \in Sectors
      /\ InSea(table, sea) /\ InPlace(table, fw, patch) /\ FrontAt(table, Cur, patch)
      /\ sea \in [Slots -> Image] /\ table \in [Sectors -> Entry]
  BY <1>1, <1>3, InBody
<1>5. /\ StatusOK' /\ OldPosition' /\ FirmwareOK' /\ ProgressOK'
      /\ Cur' = Cur /\ Front' = Cur
  BY <1>1, <1>2, <1>3, <1>4, BodyStays
<1>6. /\ slot \in bkmap /\ bkmap \subseteq Slots /\ ftab = table
      /\ \A k \in Sectors : table[k].st = "S" => table[k].slot # slot
      /\ ReadByPatch(patch, Cur) /\ table[Cur].st # "S" /\ SlotsDistinct
  BY <1>1, <1>3 DEF RecoveryInv, SlotsRight, TableRight
<1>7. fw[Cur] = OldImage(Cur)
  <2>1. table[Cur].st = "U"
    <3>1. table[Cur].st \in {"U", "S", "C"}
      BY <1>4 DEF Entry
    <3>2. table[Cur].st # "C"
      BY <1>4 DEF FrontAt, Sectors
    <3>3. QED
      BY <1>6, <3>1, <3>2
  <2>2. QED
    BY <1>4, <1>6, <2>1 DEF InPlace
<1>8. InSea(table, sea')
  BY <1>1, <1>4, <1>6, InSeaStays
<1>9. /\ table'[Cur].st = "S" /\ table'[Cur].slot = slot
      /\ \A k \in Sectors : k # Cur => table'[k] = table[k]
  BY <1>1, <1>4
<1>10. InSea(table', sea') /\ InPlace(table', fw, patch) /\ FrontAt(table', Cur, patch)
  <2>1. sea'[slot] = OldImage(Cur)
    BY <1>1, <1>4, <1>6, <1>7
  <2>2. InSea(table', sea')
    BY <1>6, <1>8, <1>9, <2>1 DEF InSea
  <2>3. InPlace(table', fw, patch)
    BY <1>4, <1>9 DEF InPlace
  <2>4. FrontAt(table', Cur, patch)
    BY <1>4, <1>9 DEF FrontAt, Sectors
  <2>5. QED
    BY <2>2, <2>3, <2>4
<1>11. MagicSet' /\ Pristine' /\ FlashOK'
  BY <1>1, <1>3, <1>4, <1>6, <1>8 DEF RecoveryInv, MagicSet, Pristine, FlashOK, Requesting, Running
<1>12. TableRight'
  BY <1>1, <1>3, <1>4, <1>5, <1>9, <1>10 DEF TableRight, Starting, Filling, Synced
<1>13. SlotsRight'
  <2>1. SlotsDistinct'
    BY <1>1, <1>6, <1>9 DEF SlotsDistinct
  <2>2. QED
    BY <1>1, <1>3, <2>1 DEF RecoveryInv, SlotsRight, Starting, Filling
<1>14. QED
  BY <1>5, <1>11, <1>12, <1>13 DEF RecoveryInv

LEMMA FirmwareEraseRecovery ==
  ASSUME TypeInv, RecoveryInv, FirmwareErase
  PROVE  RecoveryInv'
<1>1. /\ pc = "fwErase" /\ pc' = "fwWrite" /\ fw' = [fw EXCEPT ![Cur] = ErasedImage]
      /\ UNCHANGED <<status, sea, ftab, magic, patch, flag, blk, phase, remain, newpos, oldpos,
                     lastbk, table, bkmap, used, slot, image>>
  BY DEF FirmwareErase, Goto, cursor, backup, scratch
<1>2. en' = en /\ decoded' = decoded
  BY Zenon DEF FirmwareErase, cursor, scratch
<1>3. pc \in Body /\ pc' \in Body /\ pc \in Synced /\ pc' \in LoopSteps
  BY <1>1 DEF Body, Synced, LoopSteps
<1>4. /\ magic = "SET" /\ en /\ Front = Cur /\ Cur \in Sectors /\ ~decoded
      /\ InSea(table, sea) /\ InPlace(table, fw, patch) /\ FrontAt(table, Cur, patch)
      /\ DoneTo(Cur * SectorSize, fw, patch) /\ patch \in Patches
      /\ fw \in [Sectors -> Image] /\ status = "UPDATE" /\ pc \in LoopSteps
  BY <1>1, <1>3, InBody
<1>5. en' /\ ~decoded' /\ Cur' = Cur /\ Temp' = Temp
  BY <1>1, <1>2, <1>4 DEF Cur, Temp
<1>6. Front' = Cur
  BY <1>5 DEF Front
<1>7. ftab = table /\ (ReadByPatch(patch, Cur) => table[Cur].st = "S")
  BY <1>1, <1>3 DEF RecoveryInv, TableRight
<1>8. InPlace(table, fw', patch)
  BY <1>1, <1>4, <1>7, InPlaceStays
<1>9. DoneTo(Cur * SectorSize, fw', patch)
  BY <1>1, <1>4, DoneBefore
<1>10. StatusOK' /\ MagicSet' /\ Pristine'
  BY <1>1, <1>3, <1>4 DEF RecoveryInv, StatusOK, MagicSet, Pristine, Requesting, Running
<1>11. FlashOK'
  BY <1>1, <1>4, <1>7, <1>8, <1>9 DEF FlashOK
<1>12. OldPosition'
  BY <1>1, <1>4 DEF RecoveryInv, OldPosition
<1>13. TableRight'
  BY <1>1, <1>3, <1>4, <1>5, <1>6, <1>7, <1>8 DEF TableRight, Starting, Filling
<1>14. ProgressOK'
  BY <1>1, <1>4, <1>5, <1>6, <1>9 DEF RecoveryInv, ProgressOK, Starting
<1>15. SlotsRight'
  BY <1>1, <1>3 DEF RecoveryInv, SlotsRight, SlotsDistinct, Starting, Filling
<1>16. FirmwareOK'
  <2>1. \A o \in Offsets : ErasedImage[o] # Garbage
    BY DEF ErasedImage, Erased, Garbage
  <2>2. NoGarbage'
    BY <1>1, <1>4, <2>1 DEF RecoveryInv, FirmwareOK, NoGarbage
  <2>3. QED
    BY <1>5, <2>2 DEF FirmwareOK
<1>17. QED
  BY <1>10, <1>11, <1>12, <1>13, <1>14, <1>15, <1>16 DEF RecoveryInv

-----------------------------------------------------------------------------
(* The end of the body of the loop.                                          *)

LEMMA AdvanceMoves ==
  ASSUME TypeInv, RecoveryInv, pc \in Body, Advance, patch' = patch
  PROVE  /\ newpos' = newpos + Temp /\ newpos' \in Nat /\ newpos' <= NewLength(patch)
         /\ pc' \in {"chunk", "clear"}
         /\ pc' = "chunk" => ~decoded'
         /\ pc' = "clear" => newpos' = NewLength(patch)
         /\ newpos' <= Cur * SectorSize + SectorSize
         /\ Cur' = Cur \/ (Cur' = Cur + 1 /\ newpos' = (Cur + 1) * SectorSize /\ newpos < newpos')
         /\ Cur' \in Sectors
         /\ OldPosition'
<1> DEFINE left == remain - Temp
           old  == IF phase = "diff" THEN oldpos + Temp ELSE oldpos
           from == OldStart(patch)
<1>1. /\ patch \in Patches /\ newpos \in Nat /\ remain \in Nat /\ oldpos \in Int
      /\ Temp \in 0 .. remain /\ newpos + remain <= NewLength(patch) /\ ~decoded
      /\ pc \in LoopSteps /\ Cur \in Sectors /\ SectorSize \in Nat
  BY InBody
<1>2. /\ NewLength(patch) \in 0 .. Pool * SectorSize - 1 /\ Pool * SectorSize \in Int
      /\ NewLength(patch) = Begin(patch)[Len(patch) + 1]
  BY <1>1, NewEnd, SectorStart, GeometryAssumption
<1>3. newpos' = newpos + Temp
  BY DEF Advance
<1>4. newpos' \in Nat /\ newpos' <= NewLength(patch)
  BY <1>1, <1>2, <1>3
<1>5. /\ newpos' <= Cur * SectorSize + SectorSize
      /\ Cur' # Cur => newpos' = (Cur + 1) * SectorSize
  BY <1>1, <1>3, ChunkInSector DEF Cur, Temp
<1>6. Cur' = Cur \/ (Cur' = Cur + 1 /\ newpos' = (Cur + 1) * SectorSize /\ newpos < newpos')
  <2>1. SUFFICES ASSUME Cur' # Cur
                 PROVE  Cur' = Cur + 1 /\ newpos' = (Cur + 1) * SectorSize /\ newpos < newpos'
    OBVIOUS
  <2>2. newpos' = (Cur + 1) * SectorSize
    BY <1>5, <2>1
  <2>3. Cur \in Int /\ Cur + 1 \in Int /\ SectorSize > 0 /\ (Cur + 1) * SectorSize \in Int
        /\ (Cur + 1) * SectorSize = Cur * SectorSize + SectorSize
    <3>1. Cur \in Int /\ Cur + 1 \in Int
      BY <1>1 DEF Sectors
    <3>2. QED
      BY <3>1, SectorStart, GeometryAssumption
  <2>4. Sector(newpos') = Cur + 1
    <3>1. PICK k \in Int : k = Cur + 1
      BY <2>3
    <3>2. k * SectorSize <= newpos' /\ newpos' < k * SectorSize + SectorSize
      BY <1>1, <2>2, <2>3, <3>1
    <3>3. QED
      BY <1>4, <3>1, <3>2, SectorUnique
  <2>5. newpos < Cur * SectorSize + SectorSize
    BY <1>1, CellOf DEF Cur
  <2>6. QED
    BY <1>1, <1>4, <2>2, <2>3, <2>4, <2>5 DEF Cur
<1>7. Cur' \in Sectors
  <2>1. newpos' \in 0 .. Pool * SectorSize - 1
    BY <1>2, <1>4
  <2>2. QED
    BY <2>1, SectorInPool DEF Cur
<1>8. /\ blk \in 1 .. Len(patch) /\ phase \in {"diff", "extra"} /\ Len(patch) \in Nat
      /\ patch[blk].diff \in Nat /\ patch[blk].adjust \in Int
      /\ from[blk] \in Int
  <2>1. blk \in DOMAIN patch /\ phase \in {"diff", "extra"}
    BY DEF TypeInv, TypeOK
  <2>2. QED
    BY <1>1, <2>1, PatchParts, OldStartStep
<1>9. /\ phase = "diff"  => oldpos >= from[blk] /\ oldpos + remain = from[blk] + patch[blk].diff
      /\ phase = "extra" => oldpos = from[blk] + patch[blk].diff
  BY <1>1 DEF RecoveryInv, OldPosition
<1>10. CASE /\ left # 0
            /\ remain' = left /\ oldpos' = old
            /\ Goto("chunk")
            /\ UNCHANGED <<blk, phase, decoded>>
  <2>1. ~decoded' /\ pc' = "chunk"
    BY <1>1, <1>10 DEF Goto
  <2>2. OldPosition'
    BY <1>1, <1>8, <1>9, <1>10 DEF OldPosition
  <2>3. QED
    BY <1>3, <1>4, <1>5, <1>6, <1>7, <2>1, <2>2
<1>11. CASE /\ left = 0 /\ phase = "diff"
            /\ phase' = "extra" /\ remain' = patch[blk].extra /\ oldpos' = old
            /\ Goto("chunk")
            /\ UNCHANGED <<blk, decoded>>
  <2>1. ~decoded' /\ pc' = "chunk"
    BY <1>1, <1>11 DEF Goto
  <2>2. OldPosition'
    BY <1>1, <1>8, <1>9, <1>11 DEF OldPosition
  <2>3. QED
    BY <1>3, <1>4, <1>5, <1>6, <1>7, <2>1, <2>2
<1>12. CASE /\ left = 0 /\ phase = "extra" /\ blk < Len(patch)
            /\ blk' = blk + 1 /\ phase' = "diff" /\ remain' = patch[blk + 1].diff
            /\ oldpos' = old + patch[blk].adjust
            /\ Goto("chunk")
            /\ UNCHANGED decoded
  <2>1. ~decoded' /\ pc' = "chunk"
    BY <1>1, <1>12 DEF Goto
  <2>2. blk + 1 \in 1 .. Len(patch) /\ blk \in 1 .. Len(patch) - 1
    BY <1>8, <1>12
  <2>3. from[blk + 1] = from[blk] + patch[blk].diff + patch[blk].adjust
        /\ from[blk + 1] \in Int /\ patch[blk + 1].diff \in Nat
    BY <1>1, <2>2, OldStartStep, PatchParts
  <2>4. oldpos' = from[blk + 1]
    BY <1>8, <1>9, <1>12, <2>3
  <2>5. OldPosition'
    BY <1>12, <2>3, <2>4 DEF OldPosition
  <2>6. QED
    BY <1>3, <1>4, <1>5, <1>6, <1>7, <2>1, <2>5
<1>13. CASE /\ left = 0 /\ phase = "extra" /\ blk = Len(patch)
            /\ oldpos' = old + patch[blk].adjust
            /\ decoded' = TRUE
            /\ Goto("clear")
            /\ UNCHANGED <<blk, phase, remain>>
  <2>1. pc' = "clear"
    BY <1>13 DEF Goto
  <2>2. newpos' = NewLength(patch)
    <3>1. newpos + remain = Begin(patch)[blk + 1]
      BY <1>1, <1>13 DEF TypeInv, CursorOK
    <3>2. QED
      BY <1>1, <1>2, <1>3, <1>13, <3>1
  <2>3. OldPosition'
    BY <2>1 DEF OldPosition, LoopSteps
  <2>4. QED
    BY <1>3, <1>4, <1>5, <1>6, <1>7, <2>1, <2>2, <2>3
<1>14. QED
  BY <1>10, <1>11, <1>12, <1>13 DEF Advance

\* The sector that is left behind is on record if the patch may be cut.
LEMMA FrontMoves ==
  ASSUME NEW t, NEW p, NEW k \in Sectors, NEW m \in Sectors, m = k \/ m = k + 1,
         FrontAt(t, k, p),
         m # k => t[k].st # "U" \/ p \notin CrashPatches
  PROVE  FrontAt(t, m, p)
BY DEF FrontAt, Sectors

LEMMA AdvanceRecovery ==
  ASSUME TypeInv, RecoveryInv, pc \in {"chunk", "patch", "fwWrite"}, Advance,
         UNCHANGED <<status, patch, sea, magic, ftab, flag, table, bkmap, used, lastbk>>,
         en' = en,
         en => DoneTo(newpos', fw', patch),
         ~en => fw' = fw /\ Cur # lastbk,
         InPlace(table, fw', patch), NoGarbage',
         en /\ Cur' # Cur => table[Cur].st # "U" \/ patch \notin CrashPatches
  PROVE  RecoveryInv'
<1>1. /\ pc \in Body /\ pc \in Synced /\ pc \notin Filling
      /\ pc \notin {"recErase", "stErase", "recWrite", "stWrite", "select"}
  BY DEF Body, Synced, Filling
<1>2. /\ newpos' = newpos + Temp /\ newpos' \in Nat /\ newpos' <= NewLength(patch)
      /\ pc' \in {"chunk", "clear"}
      /\ pc' = "chunk" => ~decoded'
      /\ pc' = "clear" => newpos' = NewLength(patch)
      /\ newpos' <= Cur * SectorSize + SectorSize
      /\ Cur' = Cur \/ (Cur' = Cur + 1 /\ newpos' = (Cur + 1) * SectorSize /\ newpos < newpos')
      /\ Cur' \in Sectors
      /\ OldPosition'
  BY <1>1, AdvanceMoves
<1>3. /\ magic = "SET" /\ Cur \in Sectors /\ Front \in Sectors /\ status = "UPDATE"
      /\ InSea(table, sea) /\ FrontAt(table, Front, patch) /\ patch \in Patches
      /\ newpos \in Nat /\ DoneTo(Front * SectorSize, fw, patch) /\ ftab = table
      /\ SectorSize \in Nat
  BY <1>1, InBody DEF RecoveryInv, TableRight
<1>4. pc' \in Body <=> pc' = "chunk"
  BY <1>2 DEF Body
<1>5. StatusOK' /\ MagicSet' /\ Pristine'
  BY <1>1, <1>2, <1>3, <1>4
     DEF RecoveryInv, StatusOK, MagicSet, Pristine, Requesting, Running, LoopSteps
<1>6. SlotsRight'
  BY <1>1, <1>2 DEF RecoveryInv, SlotsRight, SlotsDistinct, Starting, Filling
<1>7. NewLength(patch) \in Int
  BY <1>3, NewEnd
<1>8. CASE en
  <2>1. Front = Cur
    BY <1>8 DEF Front
  <2>2. en'
    BY <1>8
  <2>3. Front' = Cur'
    BY <2>2 DEF Front
  <2>4. Cur' * SectorSize <= newpos' /\ Cur' * SectorSize \in Int
    <3>1. Cur' * SectorSize <= newpos'
      BY <1>2, CellOf DEF Cur
    <3>2. Cur' \in Int
      BY <1>2 DEF Sectors
    <3>3. QED
      BY <3>1, <3>2, SectorStart
  <2>5. DoneTo(newpos', fw', patch) /\ DoneTo(Cur' * SectorSize, fw', patch)
    BY <1>2, <1>8, <2>4 DEF DoneTo
  <2>6. FrontAt(table, Cur', patch)
    <3>1. Cur' # Cur => table[Cur].st # "U" \/ patch \notin CrashPatches
      BY <1>8
    <3>2. QED
      BY <1>2, <1>3, <2>1, <3>1, FrontMoves
  <2>7. FlashOK'
    BY <1>2, <1>3, <2>5, <2>6 DEF FlashOK
  <2>8. TableRight'
    BY <1>2, <1>3, <1>4, <2>3, <2>6 DEF TableRight, Starting, Filling, Synced
  <2>9. ProgressOK'
    BY <1>2, <1>4, <2>2, <2>3, <2>5 DEF ProgressOK, Starting
  <2>10. FirmwareOK'
    <3>1. CASE pc' = "chunk"
      BY <1>2, <3>1 DEF FirmwareOK
    <3>2. CASE pc' = "clear"
      BY <1>2, <2>5, <3>2 DEF FirmwareOK
    <3>3. QED
      BY <1>2, <3>1, <3>2
  <2>11. QED
    BY <1>2, <1>5, <1>6, <2>7, <2>8, <2>9, <2>10 DEF RecoveryInv
<1>9. CASE ~en
  <2>1. Front = lastbk /\ pc = "chunk"
    BY <1>1, <1>9 DEF Front, RecoveryInv, ProgressOK
  <2>2. ~en' /\ fw' = fw /\ Cur # lastbk
    BY <1>9
  <2>3. Front' = lastbk
    BY <2>2 DEF Front
  <2>4. newpos' <= lastbk * SectorSize
    <3>1. newpos <= lastbk * SectorSize
      BY <1>9, <2>1 DEF RecoveryInv, ProgressOK
    <3>2. Cur \in Int /\ lastbk \in Int /\ Cur * SectorSize \in Int /\ lastbk * SectorSize \in Int
      <4>1. Cur \in Int /\ lastbk \in Int
        BY <1>3, <2>1 DEF Sectors
      <4>2. QED
        BY <4>1, SectorStart
    <3>3. Cur * SectorSize <= newpos
      BY <1>3, CellOf DEF Cur
    <3>4. ~(lastbk < Cur)
      <4>1. lastbk < Cur => lastbk * SectorSize + SectorSize <= Cur * SectorSize
        BY <3>2, SectorStart
      <4>2. SectorSize > 0
        BY GeometryAssumption
      <4>3. QED
        BY <1>3, <3>1, <3>2, <3>3, <4>1, <4>2
    <3>5. Cur * SectorSize + SectorSize <= lastbk * SectorSize
      BY <2>2, <3>2, <3>4, SectorStart
    <3>6. QED
      BY <1>2, <1>3, <3>2, <3>5
  <2>5. FlashOK'
    BY <1>3, <2>1, <2>2 DEF FlashOK
  <2>6. TableRight'
    BY <1>2, <1>3, <1>4, <2>1, <2>2, <2>3 DEF TableRight, Starting, Filling, Synced
  <2>7. ProgressOK'
    BY <1>2, <1>3, <1>4, <2>1, <2>2, <2>3, <2>4 DEF ProgressOK, Starting
  <2>8. FirmwareOK'
    <3>1. CASE pc' = "chunk"
      BY <1>2, <3>1 DEF FirmwareOK
    <3>2. CASE pc' = "clear"
      <4>1. NewLength(patch) <= lastbk * SectorSize
        BY <1>2, <2>4, <3>2
      <4>2. lastbk * SectorSize \in Int
        <5>1. lastbk \in Int
          BY <1>3, <2>1 DEF Sectors
        <5>2. QED
          BY <5>1, SectorStart
      <4>3. DoneTo(NewLength(patch), fw', patch)
        BY <1>3, <1>7, <2>1, <2>2, <4>1, <4>2 DEF DoneTo
      <4>4. QED
        BY <4>3 DEF FirmwareOK
    <3>3. QED
      BY <1>2, <3>1, <3>2
  <2>9. QED
    BY <1>2, <1>5, <1>6, <2>5, <2>6, <2>7, <2>8 DEF RecoveryInv
<1>10. QED
  BY <1>8, <1>9

-----------------------------------------------------------------------------
(* The bytes that are computed.                                              *)

\* Every old byte a chunk reads is where patch_diff looks it up.
LEMMA SourceIsOld ==
  ASSUME Hypotheses, TypeInv, RecoveryInv, pc = "patch", phase = "diff", ~DiffRefused,
         NEW p \in Int, oldpos <= p, p < oldpos + Temp
  PROVE  Source(p) = Old(p)
<1> DEFINE from == OldStart(patch)
           k == Sector(p)
           a == Sector(oldpos)
           b == Sector(oldpos + Temp)
<1>1. /\ pc \in Body /\ pc \in LoopSteps
      /\ patch \in Patches /\ newpos \in Nat /\ remain \in Nat /\ oldpos \in Int
      /\ Temp \in 0 .. remain /\ Cur \in Sectors
      /\ InSea(table, sea) /\ InPlace(table, fw, patch) /\ table \in [Sectors -> Entry]
      /\ SectorSize \in Nat
  <2>1. pc \in Body
    BY DEF Body
  <2>2. QED
    BY <2>1, InBody
<1>2. /\ blk \in 1 .. Len(patch) /\ DOMAIN patch = 1 .. Len(patch) /\ patch[blk].diff \in Nat
      /\ from[blk] \in Int
  <2>1. blk \in DOMAIN patch
    BY DEF TypeInv, TypeOK
  <2>2. QED
    BY <1>1, <2>1, PatchParts, OldStartStep
<1>3. oldpos >= from[blk] /\ oldpos + remain = from[blk] + patch[blk].diff
  BY <1>1 DEF RecoveryInv, OldPosition
<1>4. from[blk] >= 0 /\ from[blk] + patch[blk].diff <= Pool * SectorSize
  BY <1>1, <1>2 DEF Hypotheses, InsidePool
<1>5. Pool * SectorSize \in Int
  BY SectorStart, GeometryAssumption
<1> HIDE DEF from
<1>6. p \in 0 .. Pool * SectorSize - 1 /\ oldpos \in Nat /\ oldpos + Temp \in Nat /\ p \in Nat
  BY <1>1, <1>2, <1>3, <1>4, <1>5
<1>7. /\ k \in Sectors /\ k \in Nat /\ Offset(p) \in Offsets
      /\ p = k * SectorSize + Offset(p)
      /\ k * SectorSize <= p /\ p < k * SectorSize + SectorSize /\ k * SectorSize \in Int
  <2>1. k \in Nat
    BY <1>6, CellOf
  <2>2. QED
    BY <1>6, <2>1, SectorInPool, CellOf, SectorStart
<1>8. ReadByPatch(patch, k)
  <2>1. Touches(k, from[blk], from[blk] + patch[blk].diff)
    <3>1. PICK r \in Int, n \in Nat, e \in Int :
            r = from[blk] /\ n = patch[blk].diff /\ e = r + n
      BY <1>2
    <3>2. p \in Int /\ r <= p /\ p <= e /\ SectorSize \in Int
      BY <1>1, <1>3, <1>6, <3>1, GeometryAssumption
    <3>3. QED
      BY <1>7, <3>1, <3>2, TouchesAround
  <2>2. QED
    BY <1>2, <2>1 DEF ReadByPatch, from
<1>9. Temp <= SectorSize
  <2>1. Cur * SectorSize <= newpos /\ newpos + Temp <= Cur * SectorSize + SectorSize
    BY <1>1, CellOf, ChunkInSector DEF Cur, Temp
  <2>2. Cur * SectorSize \in Int
    BY <1>1, SectorStart DEF Sectors
  <2>3. QED
    BY <1>1, <2>1, <2>2
<1>10. k = a \/ k = b
  <2>1. a <= k /\ k <= b /\ a \in Nat /\ b \in Nat
    BY <1>1, <1>6, SectorMonotone, CellOf
  <2>2. /\ b * SectorSize <= oldpos + Temp /\ oldpos < a * SectorSize + SectorSize
        /\ a * SectorSize \in Int /\ b * SectorSize \in Int
    BY <1>6, <2>1, CellOf, SectorStart
  <2>3. ~(a + 1 < b)
    <3>1. PICK c \in Int : c = a + 1
      BY <2>1
    <3>2. c * SectorSize = a * SectorSize + SectorSize
      BY <2>1, <3>1, SectorStart
    <3>3. c < b => c * SectorSize + SectorSize <= b * SectorSize
      BY <2>1, SectorStart
    <3>4. QED
      BY <1>1, <1>6, <1>9, <2>2, <3>1, <3>2, <3>3
  <2>4. QED
    BY <2>1, <2>3, <1>7
<1>11. table[k].st # "C"
  BY <1>10 DEF DiffRefused, Looked
<1>12. table[k].st \in {"U", "S", "C"}
  BY <1>1, <1>7 DEF Entry
<1>13. OldImage(k)[Offset(p)] = Old(p)
  BY <1>7 DEF OldImage
<1>14. CASE table[k].st = "S"
  <2>1. sea[table[k].slot] = OldImage(k)
    BY <1>1, <1>7, <1>14 DEF InSea
  <2>2. QED
    BY <1>13, <1>14, <2>1 DEF Source
<1>15. CASE table[k].st = "U"
  <2>1. fw[k] = OldImage(k)
    BY <1>1, <1>7, <1>8, <1>15 DEF InPlace
  <2>2. QED
    BY <1>13, <1>15, <2>1 DEF Source
<1>16. QED
  BY <1>11, <1>12, <1>14, <1>15

LEMMA PatchedIsNew ==
  ASSUME Hypotheses, TypeInv, RecoveryInv, pc = "patch", ~(phase = "diff" /\ DiffRefused),
         NEW o \in Offsets, InChunk(o)
  PROVE  Patched(o) = New(Cur * SectorSize + o)
<1> DEFINE q == Cur * SectorSize + o
           p == oldpos + (q - newpos)
<1>1. newpos \in Nat /\ oldpos \in Int /\ Temp \in Nat /\ Cur \in Sectors
  <2>1. pc \in Body
    BY DEF Body
  <2>2. QED
    BY <2>1, InBody
<1>2. /\ newpos = Cur * SectorSize + Offset(newpos) /\ Offset(newpos) \in Int
      /\ Cur * SectorSize \in Int /\ o \in Int
  <2>1. Cur \in Int
    BY <1>1 DEF Sectors
  <2>2. newpos = Cur * SectorSize + Offset(newpos) /\ Offset(newpos) \in Offsets
    BY <1>1, CellOf DEF Cur
  <2>3. QED
    BY <2>1, <2>2, SectorStart DEF Offsets
<1>3. q \in Int /\ p \in Int /\ oldpos <= p /\ p < oldpos + Temp
  BY <1>1, <1>2 DEF InChunk
<1>4. CASE phase = "extra"
  BY <1>4 DEF Patched
<1>5. CASE phase = "diff"
  <2>1. Source(p) = Old(p)
    BY <1>3, <1>5, SourceIsOld
  <2>2. QED
    BY <1>5, <2>1 DEF Patched
<1>6. QED
  BY <1>4, <1>5 DEF TypeInv, TypeOK

LEMMA ChunkRecovery ==
  ASSUME TypeInv, RecoveryInv, Chunk
  PROVE  RecoveryInv'
<1>1. /\ pc = "chunk" /\ pc \in Body /\ pc \in Synced
      /\ UNCHANGED <<status, fw, sea, ftab, magic, patch, flag, lastbk, table, bkmap, used>>
  BY DEF Chunk, flash, backup, Body, Synced
<1>2. en' <=> (en \/ Cur = lastbk)
  BY Zenon DEF Chunk
<1>3. /\ patch \in Patches /\ Cur \in Sectors /\ Front \in Sectors /\ newpos \in Nat
      /\ status = "UPDATE" /\ ~decoded /\ magic = "SET"
      /\ InSea(table, sea) /\ InPlace(table, fw, patch) /\ FrontAt(table, Front, patch)
      /\ DoneTo(Front * SectorSize, fw, patch) /\ SectorSize \in Nat
  BY <1>1, InBody
<1>4. CASE en'
  <2>1. /\ pc' = "backup" /\ UNCHANGED <<blk, phase, remain, newpos, oldpos>>
    BY <1>4 DEF Chunk, Goto
  <2>2. decoded' = decoded
    BY <1>4, Zenon DEF Chunk
  <2>3. ~decoded' /\ Cur' = Cur
    BY <1>3, <2>1, <2>2 DEF Cur
  <2>4. Front' = Cur
    BY <1>4, <2>3 DEF Front
  <2>5. Front = Cur
    BY <1>2, <1>4 DEF Front
  <2>6. DoneTo(newpos, fw, patch)
    <3>1. CASE en
      BY <1>1, <3>1 DEF RecoveryInv, ProgressOK
    <3>2. CASE ~en
      <4>1. newpos <= Cur * SectorSize
        BY <1>1, <1>2, <1>4, <3>2 DEF RecoveryInv, ProgressOK
      <4>2. Cur * SectorSize \in Int
        BY <1>3, SectorStart DEF Sectors
      <4>3. QED
        BY <1>3, <2>5, <4>1, <4>2 DEF DoneTo
    <3>3. QED
      BY <3>1, <3>2
  <2>7. StatusOK' /\ MagicSet' /\ Pristine'
    BY <1>1, <1>3, <2>1 DEF RecoveryInv, StatusOK, MagicSet, Pristine, Requesting, Running, Body,
                            LoopSteps
  <2>8. FlashOK' /\ OldPosition'
    BY <1>1, <2>1 DEF RecoveryInv, FlashOK, OldPosition, LoopSteps
  <2>9. TableRight'
    BY <1>1, <1>3, <2>1, <2>4, <2>5 DEF RecoveryInv, TableRight, Body, Starting, Synced, Filling
  <2>10. ProgressOK'
    BY <1>1, <1>3, <1>4, <2>1, <2>3, <2>4, <2>5, <2>6 DEF ProgressOK, Starting
  <2>11. SlotsRight'
    BY <1>1, <2>1 DEF RecoveryInv, SlotsRight, SlotsDistinct, Starting, Filling
  <2>12. FirmwareOK'
    BY <1>1, <2>3 DEF RecoveryInv, FirmwareOK, NoGarbage
  <2>13. QED
    BY <2>7, <2>8, <2>9, <2>10, <2>11, <2>12 DEF RecoveryInv
<1>5. CASE ~en'
  <2>1. Advance
    BY <1>5 DEF Chunk
  <2>2. ~en /\ Cur # lastbk
    BY <1>2, <1>5
  <2>3. en' = en
    <3>1. en \in BOOLEAN
      BY DEF TypeInv, TypeOK
    <3>2. en = FALSE
      BY <2>2, <3>1, Zenon
    <3>3. en' = FALSE
      BY <1>1, <2>2, <3>2, Zenon DEF Chunk
    <3>4. QED
      BY <3>2, <3>3
  <2>4. InPlace(table, fw', patch) /\ NoGarbage'
    BY <1>1, <1>3 DEF RecoveryInv, FirmwareOK, NoGarbage
  <2>5. QED
    BY <1>1, <2>1, <2>2, <2>3, <2>4, AdvanceRecovery
<1>6. QED
  BY <1>4, <1>5

LEMMA PatchChunkRecovery ==
  ASSUME Hypotheses, TypeInv, RecoveryInv, PatchChunk
  PROVE  RecoveryInv'
<1>1. /\ pc = "patch" /\ pc \in Body /\ pc \in Synced /\ ~(phase = "diff" /\ DiffRefused)
      /\ UNCHANGED <<status, fw, sea, ftab, magic, patch, flag, lastbk, table, bkmap, used>>
  BY DEF PatchChunk, flash, backup, Body, Synced
<1>2. en' = en
  BY Zenon DEF PatchChunk
<1>3. /\ patch \in Patches /\ Cur \in Sectors /\ newpos \in Nat /\ Temp \in Nat
      /\ status = "UPDATE" /\ ~decoded /\ magic = "SET" /\ en /\ Front = Cur
      /\ InSea(table, sea) /\ InPlace(table, fw, patch) /\ FrontAt(table, Cur, patch)
      /\ DoneTo(Cur * SectorSize, fw, patch) /\ SectorSize \in Nat
      /\ fw \in [Sectors -> Image] /\ remain \in Nat /\ Temp <= remain
      /\ newpos + remain <= NewLength(patch) /\ NewLength(patch) \in Int
  <2>1. NewLength(patch) \in Int
    BY NewEnd DEF TypeInv, TypeOK
  <2>2. QED
    BY <1>1, <2>1, InBody
<1>4. NoGarbage /\ DoneTo(newpos, fw, patch)
  BY <1>1, <1>3 DEF RecoveryInv, FirmwareOK, ProgressOK
<1>5. CASE Offset(newpos) # 0 /\ Temp = 0
  <2>1. Advance
    BY <1>5 DEF PatchChunk
  <2>2. newpos' = newpos
    BY <1>3, <1>5, <2>1 DEF Advance
  <2>3. Cur' = Cur /\ DoneTo(newpos', fw', patch) /\ InPlace(table, fw', patch)
    BY <1>1, <1>3, <1>4, <2>2 DEF Cur
  <2>4. NoGarbage'
    BY <1>1, <1>4 DEF NoGarbage
  <2>5. QED
    BY <1>1, <1>2, <1>3, <2>1, <2>3, <2>4, AdvanceRecovery
<1>6. CASE ~(Offset(newpos) # 0 /\ Temp = 0)
  <2>1. /\ pc' = "fwErase" /\ UNCHANGED <<blk, phase, remain, newpos, oldpos>>
        /\ image' = [o \in Offsets |-> IF InChunk(o) THEN Patched(o) ELSE Rest(o)]
    BY <1>6 DEF PatchChunk, Goto
  <2>2. decoded' = decoded
    BY <1>6, Zenon DEF PatchChunk
  <2>3. pc' \in Body \ {"chunk"}
    BY <2>1 DEF Body
  <2>4. /\ StatusOK' /\ OldPosition' /\ FirmwareOK' /\ en'
        /\ Cur' = Cur /\ Temp' = Temp /\ Front' = Cur
    BY <1>1, <1>2, <1>3, <2>1, <2>2, <2>3, BodyStays
  <2>5. MagicSet' /\ Pristine' /\ FlashOK'
    BY <1>1, <1>3, <2>1, <2>3 DEF RecoveryInv, MagicSet, Pristine, FlashOK, Requesting, Running
  <2>6. TableRight'
    BY <1>1, <1>3, <2>1, <2>3, <2>4 DEF RecoveryInv, TableRight, Starting, Filling
  <2>7. ASSUME NEW o \in Offsets
        PROVE  /\ image'[o] # Garbage
               /\ Cur * SectorSize + o < newpos + Temp =>
                    image'[o] = New(Cur * SectorSize + o)
    <3> DEFINE q == Cur * SectorSize + o
    <3>1. /\ Cur * SectorSize \in Int /\ o \in Nat /\ o < SectorSize /\ Cur \in Nat
          /\ newpos = Cur * SectorSize + Offset(newpos) /\ Offset(newpos) \in Nat
          /\ 0 <= Cur * SectorSize
      <4>1. Cur \in Nat /\ o \in Nat /\ o < SectorSize
        BY <1>3, GeometryAssumption DEF Sectors, Offsets
      <4>2. newpos = Cur * SectorSize + Offset(newpos) /\ Offset(newpos) \in Offsets
        BY <1>3, CellOf DEF Cur
      <4>3. 0 * SectorSize <= Cur * SectorSize /\ 0 * SectorSize = 0
        BY <4>1, SectorStart, NothingDone
      <4>4. QED
        BY <4>1, <4>2, <4>3, SectorStart DEF Offsets
    <3>2. CASE InChunk(o)
      <4>1. image'[o] = New(q)
        BY <1>1, <2>1, <3>2, PatchedIsNew
      <4>2. QED
        BY <4>1 DEF New, Garbage
    <3>3. CASE ~InChunk(o)
      <4>1. image'[o] = Rest(o)
        BY <2>1, <3>3
      <4>2. Rest(o) # Garbage
        BY <1>3, <1>4 DEF Rest, NoGarbage, Erased, Garbage
      <4>3. ASSUME q < newpos + Temp PROVE Rest(o) = New(q)
        <5>1. q < newpos /\ Offset(newpos) # 0
          BY <1>3, <3>1, <3>3, <4>3 DEF InChunk
        <5>2. q \in Nat /\ Sector(q) = Cur /\ Offset(q) = o
          <6>1. q \in Nat /\ Cur * SectorSize <= q /\ q < Cur * SectorSize + SectorSize
            BY <1>3, <3>1
          <6>2. Sector(q) = Cur /\ Offset(q) = q - Cur * SectorSize
            BY <3>1, <6>1, SectorUnique
          <6>3. QED
            BY <3>1, <6>1, <6>2
        <5>3. q < NewLength(patch)
          BY <1>3, <5>1, <5>2
        <5>4. fw[Sector(q)][Offset(q)] = New(q)
          BY <1>4, <5>1, <5>2, <5>3 DEF DoneTo
        <5>5. QED
          BY <5>1, <5>2, <5>4 DEF Rest
      <4>4. QED
        BY <4>1, <4>2, <4>3
    <3>4. QED
      BY <3>2, <3>3
  <2>8. ProgressOK'
    BY <1>1, <1>3, <1>4, <2>1, <2>2, <2>3, <2>4, <2>7 DEF ProgressOK, Starting
  <2>9. SlotsRight'
    BY <1>1, <2>1 DEF RecoveryInv, SlotsRight, SlotsDistinct, Starting, Filling
  <2>10. QED
    BY <2>4, <2>5, <2>6, <2>8, <2>9 DEF RecoveryInv
<1>7. QED
  BY <1>5, <1>6

LEMMA FirmwareWriteRecovery ==
  ASSUME Hypotheses, TypeInv, RecoveryInv, FirmwareWrite
  PROVE  RecoveryInv'
<1>1. /\ pc = "fwWrite" /\ pc \in Body /\ pc \in Synced /\ Advance
      /\ fw' = [fw EXCEPT ![Cur] = image]
      /\ UNCHANGED <<status, sea, ftab, magic, patch, flag, lastbk, table, bkmap, used>>
  BY DEF FirmwareWrite, backup, Body, Synced
<1>2. en' = en
  BY Zenon DEF FirmwareWrite
<1>3. /\ patch \in Patches /\ Cur \in Sectors /\ newpos \in Nat /\ en /\ Front = Cur
      /\ InPlace(table, fw, patch) /\ DoneTo(Cur * SectorSize, fw, patch)
      /\ fw \in [Sectors -> Image] /\ Temp \in Nat /\ SectorSize \in Nat
  BY <1>1, InBody
<1>4. /\ \A o \in Offsets :
           /\ image[o] # Garbage
           /\ Cur * SectorSize + o < newpos + Temp => image[o] = New(Cur * SectorSize + o)
      /\ ReadByPatch(patch, Cur) => table[Cur].st = "S"
      /\ NoGarbage
  BY <1>1 DEF RecoveryInv, ProgressOK, TableRight, FirmwareOK
<1>5. /\ newpos' = newpos + Temp /\ newpos' \in Nat /\ newpos' <= NewLength(patch)
      /\ newpos' <= Cur * SectorSize + SectorSize
      /\ Cur' = Cur \/ newpos < newpos'
  BY <1>1, AdvanceMoves
<1>6. InPlace(table, fw', patch)
  BY <1>1, <1>3, <1>4, InPlaceStays
<1>7. DoneTo(newpos', fw', patch)
  <2>1. SUFFICES ASSUME NEW c \in Nat, c < newpos', c < NewLength(patch)
                 PROVE  fw'[Sector(c)][Offset(c)] = New(c)
    BY DEF DoneTo
  <2>2. /\ Sector(c) \in Sectors /\ Offset(c) \in Offsets /\ Sector(c) \in Nat
        /\ c = Sector(c) * SectorSize + Offset(c) /\ Sector(c) * SectorSize <= c
        /\ c < Sector(c) * SectorSize + SectorSize
    BY <1>3, <2>1, NewCell, CellOf
  <2>3. CASE Sector(c) = Cur
    <3>1. image[Offset(c)] = New(c)
      BY <1>4, <1>5, <2>1, <2>2, <2>3
    <3>2. QED
      BY <1>1, <1>3, <2>3, <3>1
  <2>4. CASE Sector(c) # Cur
    <3>1. Cur \in Int /\ Sector(c) \in Int
      BY <1>3, <2>2 DEF Sectors
    <3>2. Cur * SectorSize \in Int /\ Sector(c) * SectorSize \in Int
      BY <3>1, SectorStart
    <3>3. ~(Cur < Sector(c))
      <4>1. Cur < Sector(c) => Cur * SectorSize + SectorSize <= Sector(c) * SectorSize
        BY <3>1, SectorStart
      <4>2. QED
        BY <1>3, <1>5, <2>1, <2>2, <3>2, <4>1
    <3>4. Sector(c) * SectorSize + SectorSize <= Cur * SectorSize
      <4>1. Sector(c) < Cur
        BY <2>4, <3>1, <3>3
      <4>2. QED
        BY <3>1, <4>1, SectorStart
    <3>5. c < Cur * SectorSize
      BY <1>3, <2>2, <3>2, <3>4
    <3>6. fw[Sector(c)][Offset(c)] = New(c)
      BY <1>3, <2>1, <3>5 DEF DoneTo
    <3>7. QED
      BY <1>1, <1>3, <2>2, <2>4, <3>6
  <2>5. QED
    BY <2>3, <2>4
<1>8. NoGarbage'
  BY <1>1, <1>3, <1>4 DEF NoGarbage
<1>9. Cur' # Cur => table[Cur].st # "U" \/ patch \notin CrashPatches
  <2>1. SUFFICES ASSUME newpos < newpos', patch \in CrashPatches PROVE ReadByPatch(patch, Cur)
    BY <1>4, <1>5
  <2>2. newpos < NewLength(patch)
    <3>1. NewLength(patch) \in Int
      BY <1>3, NewEnd
    <3>2. QED
      BY <1>3, <1>5, <2>1, <3>1
  <2>3. QED
    BY <1>3, <2>1, <2>2 DEF Hypotheses, ReadsAll, Cur
<1>10. QED
  BY <1>1, <1>2, <1>3, <1>6, <1>7, <1>8, <1>9, AdvanceRecovery

LEMMA RecoveryNext ==
  ASSUME Hypotheses, TypeInv, RecoveryInv, [Next]_vars
  PROVE  RecoveryInv'
<1>1. CASE RecycleFails
  <2>1. pc \in Body \ {"recWrite", "stWrite"} /\ Fail /\ UNCHANGED <<flash, table, bkmap>>
    BY <1>1 DEF RecycleFails, Body
  <2>2. decoded' = decoded
    BY <1>1, Zenon DEF RecycleFails
  <2>3. QED
    BY <2>1, <2>2, FailRecovery
<1>2. CASE PatchRefused
  <2>1. pc \in Body \ {"recWrite", "stWrite"} /\ Fail /\ UNCHANGED <<flash, table, bkmap>>
    BY <1>2 DEF PatchRefused, Body, backup
  <2>2. decoded' = decoded
    BY <1>2, Zenon DEF PatchRefused
  <2>3. QED
    BY <2>1, <2>2, FailRecovery
<1>3. CASE UNCHANGED vars
  <2>1. /\ UNCHANGED <<status, patch, fw, sea, magic, ftab, pc, blk, phase, remain, newpos, oldpos,
                       lastbk, table, bkmap, used, slot, image, flag>>
    BY <1>3 DEF vars, flash, cursor, backup, scratch
  <2>2. en' = en /\ decoded' = decoded
    BY <1>3, Zenon DEF vars, cursor, scratch
  <2>3. Cur' = Cur /\ Temp' = Temp
    BY <2>1 DEF Cur, Temp
  <2>4. Front' = Front
    <3>1. CASE en
      BY <2>1, <2>2, <2>3, <3>1 DEF Front
    <3>2. CASE ~en
      BY <2>1, <2>2, <3>2 DEF Front
    <3>3. QED
      BY <3>1, <3>2
  <2>5. StatusOK' /\ MagicSet' /\ Pristine' /\ FlashOK' /\ OldPosition'
    BY <2>1 DEF RecoveryInv, StatusOK, MagicSet, Pristine, FlashOK, OldPosition, Requesting,
                Running, Failing
  <2>6. TableRight'
    BY <2>1, <2>3, <2>4 DEF RecoveryInv, TableRight
  <2>7. ProgressOK'
    BY <2>1, <2>2, <2>3, <2>4 DEF RecoveryInv, ProgressOK
  <2>8. SlotsRight' /\ FirmwareOK'
    BY <2>1, <2>2 DEF RecoveryInv, SlotsRight, SlotsDistinct, Free, FirmwareOK, NoGarbage
  <2>9. QED
    BY <2>5, <2>6, <2>7, <2>8 DEF RecoveryInv
<1>4. CASE Execute
  BY <1>4, BootRecovery, FlagEraseRecovery, FlagWriteRecovery DEF Execute
<1>5. CASE Prepare
  BY <1>5, OpenRecovery, StartRecovery, ResumeRecovery, MagicEraseRecovery, MagicWriteRecovery
     DEF Prepare
<1>6. CASE BackUp
  BY <1>1, <1>6, AlreadyBackedUpRecovery, RecycleRecovery, TableEraseRecovery, TableWriteRecovery,
     SelectRecovery, SeaEraseRecovery, SeaWriteRecovery DEF BackUp
<1>7. CASE Rewrite
  BY <1>2, <1>7, ChunkRecovery, PatchChunkRecovery, FirmwareEraseRecovery, FirmwareWriteRecovery,
     ClearRecovery DEF Rewrite
<1>8. QED
  BY <1>3, <1>4, <1>5, <1>6, <1>7, RestartRecovery, CrashRecovery DEF Next, Step

LEMMA RecoveryHolds ==
  ASSUME Hypotheses
  PROVE  Spec => [](TypeInv /\ RecoveryInv)
<1>1. Init => TypeInv /\ RecoveryInv
  BY TypeInit, RecoveryInit
<1>2. TypeInv /\ RecoveryInv /\ [Next]_vars => (TypeInv /\ RecoveryInv)'
  BY TypeNext, RecoveryNext
<1>3. QED
  BY <1>1, <1>2, PTL DEF Spec

(***************************************************************************)
(* The bytes patch_diff and patch_extra write are those of the new         *)
(* firmware, whatever the patch, however small the sea and wherever power  *)
(* is lost, and when decode_and_patch returns 0 the firmware is the new    *)
(* one (the question left open at sm_arch_interface.c:679).  Power may be  *)
(* lost during patches that read some byte of every sector they rewrite,   *)
(* once the first backup is on record, and at every step but the three     *)
(* before which flash does not say how far the patch has come.             *)
(***************************************************************************)
THEOREM DecodesTheNew ==
  ASSUME Hypotheses
  PROVE  Spec => []DecodedIsNew
<1>1. TypeInv /\ RecoveryInv => DecodedIsNew
  <2>1. SUFFICES ASSUME TypeInv, RecoveryInv PROVE DecodedIsNew
    OBVIOUS
  <2>2. patch \in Patches
    BY <2>1 DEF TypeInv, TypeOK
  <2>3. NewLength(patch) \in Nat
    BY <2>2, NewEnd
  <2>4. ASSUME decoded PROVE NewIsWhole
    <3>1. DoneTo(NewLength(patch), fw, patch)
      BY <2>1, <2>4 DEF RecoveryInv, FirmwareOK
    <3>2. \A c \in 0 .. NewLength(patch) - 1 : c \in Nat /\ c < NewLength(patch)
      BY <2>3
    <3>3. QED
      BY <3>1, <3>2 DEF DoneTo, NewIsWhole
  <2>5. QED
    BY <2>1, <2>4 DEF DecodedIsNew, RecoveryInv, FirmwareOK
<1>2. QED
  BY <1>1, RecoveryHolds, PTL

(***************************************************************************)
(* Whenever a record in flash says that a sector is in the sea, the sea    *)
(* holds its whole old content (backup_old_sector and                      *)
(* check_and_recycle_old_backup), under the same hypotheses.               *)
(***************************************************************************)
THEOREM BackupsStayIntact ==
  ASSUME Hypotheses
  PROVE  Spec => []BackupsIntact
<1>1. TypeInv /\ RecoveryInv => BackupsIntact
  <2>1. SUFFICES ASSUME TypeInv, RecoveryInv PROVE BackupsIntact
    OBVIOUS
  <2>2. CASE magic = "SET"
    BY <2>1, <2>2 DEF RecoveryInv, FlashOK, InSea, BackupsIntact
  <2>3. CASE magic = "BLANK"
    BY <2>1, <2>3 DEF RecoveryInv, MagicSet, NoEntries, Unused, BackupsIntact
  <2>4. magic \in {"SET", "BLANK"}
    BY <2>1 DEF TypeInv, TypeOK
  <2>5. QED
    BY <2>2, <2>3, <2>4
<1>2. QED
  BY <1>1, RecoveryHolds, PTL

(***************************************************************************)
(* No two sectors share a slot of the sea, also after any number of resets *)
(* (the map that Resume rebuilds from the table), under the same           *)
(* hypotheses.                                                             *)
(***************************************************************************)
THEOREM SlotsSurvive ==
  ASSUME Hypotheses
  PROVE  Spec => []SlotsDistinct
<1>1. RecoveryInv => SlotsDistinct
  BY DEF RecoveryInv, SlotsRight
<1>2. QED
  BY <1>1, RecoveryHolds, PTL

-----------------------------------------------------------------------------
(* A patch that is not refused: it has room in the chain, no run of old      *)
(* bytes is empty at a sector boundary, each ends before the pool does, and  *)
(* the sea has a slot for every sector that is rewritten, so that no backup  *)
(* is ever recycled.                                                         *)
Finishes(p) ==
  /\ Len(p) <= MaxBlocks /\ NewLength(p) > 0
  /\ \A j \in 1 .. Len(p) : /\ p[j].diff > 0 \/ Offset(NewStart(p)[j]) # 0
                            /\ OldStart(p)[j] + p[j].diff < Pool * SectorSize
  /\ Sector(NewLength(p)) < SeaSlots

\* Power is not lost between the erase and the write of the status word either.
NothingFails ==
  /\ Hypotheses
  /\ "flagWrite" \notin CrashPoints
  /\ \A p \in Patches : Finishes(p)

\* No backup is cancelled.
NoneCancelled(t) == \A k \in Sectors : t[k].st # "C"

InTable(t) == {k \in Sectors : t[k].st = "S"}

\* Slots are counted only for sectors on record.
UsedCounted ==
  pc \in Body =>
    used + (IF pc \in {"stErase", "stWrite"} THEN 1 ELSE 0) <= Cardinality(InTable(table))

\* A run of old bytes that has begun has bytes left.
DiffLeft ==
  pc \in LoopSteps /\ phase = "diff" => remain > 0 \/ patch[blk].diff = 0

\* Nothing fails, and what ends the upgrade comes after the whole firmware.
EndOK ==
  /\ status = "BLANK" => pc = "flagWrite"
  /\ pc \in {"flagErase", "flagWrite"} => flag.then # "clear"
  /\ pc = "app" => status \in {"UPDATEED", "IDLE"}
  /\ \/ status \in {"UPDATEED", "IDLE"}
     \/ status = "BLANK" /\ flag.want # "UPDATE"
     \/ pc \in {"clear", "record"}
     => DoneTo(NewLength(patch), fw, patch)

\* The sector being rewritten is neither erased nor written to what it was.
RewriteOK ==
  /\ pc = "fwWrite" => fw[Cur] = ErasedImage
  /\ pc \in {"fwErase", "fwWrite"} => image[0] # Old(Cur * SectorSize)

PromiseInv ==
  /\ NoneCancelled(table) /\ NoneCancelled(ftab)
  /\ UsedCounted /\ DiffLeft /\ EndOK /\ RewriteOK

-----------------------------------------------------------------------------
LEMMA PromiseInit == Init => PromiseInv
<1> SUFFICES ASSUME Init PROVE PromiseInv
  OBVIOUS
<1>1. NoneCancelled(table) /\ NoneCancelled(ftab)
  BY DEF Init, NoneCancelled, NoEntries, Unused
<1>2. UsedCounted /\ DiffLeft /\ EndOK /\ RewriteOK
  BY DEF Init, UsedCounted, DiffLeft, EndOK, RewriteOK, Body, LoopSteps
<1>3. QED
  BY <1>1, <1>2 DEF PromiseInv

-----------------------------------------------------------------------------
(* Nothing fails.                                                            *)

\* At most one slot is in use for every sector before the current one.
LEMMA RoomInSea ==
  ASSUME NothingFails, TypeInv, RecoveryInv, PromiseInv, pc \in Body, en, table[Cur].st # "S",
         pc \notin {"stErase", "stWrite"}
  PROVE  used < SeaSlots
<1>1. /\ patch \in Patches /\ Cur \in Sectors /\ newpos \in Nat /\ remain \in Nat
      /\ newpos + remain <= NewLength(patch) /\ FrontAt(table, Front, patch) /\ Front = Cur
  BY InBody DEF Front
<1>2. NewLength(patch) \in Nat
  BY <1>1, NewEnd
<1>3. Cur <= Sector(NewLength(patch))
  BY <1>1, <1>2, SectorMonotone DEF Cur
<1>4. Sector(NewLength(patch)) < SeaSlots /\ Sector(NewLength(patch)) \in Nat
  BY <1>1, <1>2, CellOf DEF NothingFails, Finishes
<1>5. Cur < SeaSlots
  BY <1>1, <1>3, <1>4, GeometryAssumption DEF Sectors
<1>6. InTable(table) \subseteq 0 .. Cur - 1
  <2>1. ASSUME NEW k \in InTable(table) PROVE k \in 0 .. Cur - 1
    <3>1. k \in Sectors /\ k # Cur /\ ~(k > Cur)
      BY <1>1 DEF InTable, FrontAt
    <3>2. QED
      BY <1>1, <3>1 DEF Sectors
  <2>2. QED
    BY <2>1
<1>7. Cardinality(InTable(table)) <= Cur
  <2>1. Cur \in Nat
    BY <1>1 DEF Sectors
  <2>2. IsFiniteSet(0 .. Cur - 1) /\ Cardinality(0 .. Cur - 1) = Cur
    <3>1. 0 \in Int /\ Cur - 1 \in Int /\ (Cur - 1) - 0 + 1 = Cur
      BY <2>1
    <3>2. QED
      BY <2>1, <3>1, FS_Interval
  <2>3. QED
    BY <1>6, <2>2, FS_Subset
<1>8. used \in Int /\ used <= Cardinality(InTable(table))
  BY DEF TypeInv, TypeOK, PromiseInv, UsedCounted
<1>9. Cardinality(InTable(table)) \in Nat
  BY SomeSectors, FS_CardinalityType DEF InTable
<1>10. QED
  BY <1>1, <1>5, <1>7, <1>8, <1>9, GeometryAssumption DEF Sectors

LEMMA NoRefusal ==
  ASSUME NothingFails, TypeInv, RecoveryInv, PromiseInv
  PROVE  ~Recycle /\ ~RecycleFails /\ ~PatchRefused
<1>1. ASSUME Recycle \/ RecycleFails PROVE FALSE
  <2>1. pc = "backup" /\ table[Cur].st # "S" /\ used >= SeaSlots
    BY <1>1 DEF Recycle, RecycleFails
  <2>2. pc \in Body /\ en
    BY <2>1 DEF Body, RecoveryInv, ProgressOK
  <2>3. used < SeaSlots /\ used \in Int
    BY <2>1, <2>2, RoomInSea DEF TypeInv, TypeOK
  <2>4. QED
    BY <2>1, <2>3, GeometryAssumption
<1>2. ASSUME PatchRefused PROVE FALSE
  <2>1. pc = "patch" /\ phase = "diff" /\ DiffRefused /\ pc \in Body /\ pc \in LoopSteps
    BY <1>2 DEF PatchRefused, Body, LoopSteps
  <2>2. /\ patch \in Patches /\ Cur \in Sectors /\ newpos \in Nat /\ remain \in Nat
        /\ Temp \in 0 .. remain /\ oldpos \in Int
    BY <2>1, InBody
  <2>3. blk \in 1 .. Len(patch) /\ Len(patch) \in Nat /\ patch[blk].diff \in Nat
    BY <2>2, PatchParts DEF TypeInv, TypeOK
  <2>4. newpos + remain = Begin(patch)[blk] + patch[blk].diff
    BY <2>1 DEF TypeInv, CursorOK
  <2>5. ASSUME remain = 0 PROVE Offset(newpos) # 0
    <3>1. patch[blk].diff = 0
      BY <2>1, <2>5 DEF PromiseInv, DiffLeft
    <3>2. blk \in 1 .. Len(patch) + 1
      BY <2>3
    <3>3. NewStart(patch)[blk] = Begin(patch)[blk] /\ Begin(patch)[blk] \in Nat
      BY <2>2, <3>2, NewStartIsBegin, NewEnd
    <3>4. newpos = NewStart(patch)[blk]
      BY <2>2, <2>4, <2>5, <3>1, <3>3
    <3>5. patch[blk].diff > 0 \/ Offset(NewStart(patch)[blk]) # 0
      BY <2>2, <2>3 DEF NothingFails, Finishes
    <3>6. QED
      BY <3>1, <3>4, <3>5
  <2>6. \A k \in Looked : table[k].st # "C"
    <3>1. oldpos >= OldStart(patch)[blk] /\ oldpos + remain = OldStart(patch)[blk] + patch[blk].diff
      BY <2>1 DEF RecoveryInv, OldPosition
    <3>2. /\ OldStart(patch)[blk] >= 0 /\ OldStart(patch)[blk] \in Int
          /\ OldStart(patch)[blk] + patch[blk].diff < Pool * SectorSize
      BY <2>2, <2>3, OldStartStep DEF NothingFails, Hypotheses, InsidePool, Finishes
    <3>3. Pool * SectorSize \in Int
      BY GeometryAssumption, SectorStart
    <3>4. oldpos \in 0 .. Pool * SectorSize - 1 /\ oldpos + Temp \in 0 .. Pool * SectorSize - 1
      <4>1. PICK O \in Int, D \in Nat, P \in Int :
              O = OldStart(patch)[blk] /\ D = patch[blk].diff /\ P = Pool * SectorSize
        BY <2>3, <3>2, <3>3
      <4>2. O >= 0 /\ O + D < P /\ oldpos >= O /\ oldpos + remain = O + D
        BY <3>1, <3>2, <4>1
      <4>3. oldpos \in 0 .. P - 1 /\ oldpos + Temp \in 0 .. P - 1
        BY <2>2, <4>1, <4>2
      <4>4. QED
        BY <4>1, <4>3
    <3>5. Looked \subseteq Sectors
      BY <3>4, SectorInPool DEF Looked
    <3>6. QED
      BY <3>5 DEF PromiseInv, NoneCancelled
  <2>7. /\ Offset(newpos) \in Nat /\ Offset(newpos) < SectorSize /\ SectorSize \in Nat
        /\ newpos = Cur * SectorSize + Offset(newpos) /\ Cur * SectorSize \in Int
        /\ newpos + Temp <= Cur * SectorSize + SectorSize
    <3>1. Cur \in Int
      BY <2>2 DEF Sectors
    <3>2. Cur * SectorSize \in Int /\ SectorSize \in Nat
      BY <3>1, SectorStart, GeometryAssumption
    <3>3. /\ Offset(newpos) \in Offsets /\ newpos = Cur * SectorSize + Offset(newpos)
      BY <2>2, CellOf DEF Cur
    <3>4. newpos + Temp <= Cur * SectorSize + SectorSize
      BY <2>2, ChunkInSector DEF Cur, Temp
    <3>5. QED
      BY <3>2, <3>3, <3>4 DEF Offsets
  <2>8. Temp = 0 => remain = 0
    BY <2>2, <2>7 DEF Temp, ChunkLength
  <2>9. /\ newpos + Temp - 1 \in Nat /\ Cur * SectorSize <= newpos + Temp - 1
        /\ newpos + Temp - 1 < Cur * SectorSize + SectorSize
    <3>1. Temp > 0 \/ Offset(newpos) > 0
      BY <2>2, <2>5, <2>7, <2>8
    <3>2. Cur * SectorSize >= 0
      <4>1. 0 * SectorSize = 0
        BY <2>7
      <4>2. 0 <= Cur /\ Cur \in Int
        BY <2>2 DEF Sectors
      <4>3. QED
        BY <4>1, <4>2, SectorStart
    <3>3. QED
      BY <2>2, <2>7, <3>1, <3>2
  <2>10. Sector(newpos + Temp - 1) = Cur
    <3>1. Cur \in Int
      BY <2>2 DEF Sectors
    <3>2. QED
      BY <2>9, <3>1, SectorUnique
  <2>11. QED
    BY <2>1, <2>6, <2>10 DEF DiffRefused
<1>3. QED
  BY <1>1, <1>2

-----------------------------------------------------------------------------
(* The steps keep the invariant.                                             *)

LEMMA NoneCancelledStays ==
  ASSUME PromiseInv, table' = table \/ table' = ftab \/ table' = NoEntries,
         ftab' = ftab \/ ftab' = table \/ ftab' = NoEntries
  PROVE  NoneCancelled(table') /\ NoneCancelled(ftab')
<1>1. NoneCancelled(NoEntries)
  BY DEF NoneCancelled, NoEntries, Unused
<1>2. NoneCancelled(table) /\ NoneCancelled(ftab)
  BY DEF PromiseInv
<1>3. QED
  BY <1>1, <1>2

\* Steps to a place outside the loop.
LEMMA OutsidePromise ==
  ASSUME PromiseInv, pc' \notin LoopSteps, EndOK',
         table' = table \/ table' = NoEntries, ftab' = ftab \/ ftab' = NoEntries
  PROVE  PromiseInv'
<1>1. pc' \notin Body /\ pc' \notin {"fwErase", "fwWrite"}
  BY DEF LoopSteps, Body
<1>2. UsedCounted' /\ DiffLeft' /\ RewriteOK'
  BY <1>1 DEF UsedCounted, DiffLeft, RewriteOK
<1>3. NoneCancelled(table') /\ NoneCancelled(ftab')
  BY NoneCancelledStays
<1>4. QED
  BY <1>2, <1>3 DEF PromiseInv

\* Steps to a place in the loop.
LEMMA InsidePromise ==
  ASSUME pc' \in LoopSteps, status' = "UPDATE", DiffLeft', UsedCounted', RewriteOK',
         NoneCancelled(table'), NoneCancelled(ftab')
  PROVE  PromiseInv'
<1>1. EndOK'
  BY DEF EndOK, LoopSteps
<1>2. QED
  BY <1>1 DEF PromiseInv

\* Steps of the loop that leave the position and the records in RAM alone.
LEMMA LoopPromise ==
  ASSUME TypeInv, RecoveryInv, PromiseInv, pc \in LoopSteps,
         pc' \in LoopSteps \ {"fwErase", "fwWrite"},
         UNCHANGED <<status, patch, phase, remain, blk, table>>,
         ftab' = ftab \/ ftab' = table \/ ftab' = NoEntries, UsedCounted'
  PROVE  PromiseInv'
<1>1. status' = "UPDATE"
  BY DEF RecoveryInv, StatusOK
<1>2. DiffLeft'
  BY DEF PromiseInv, DiffLeft
<1>3. RewriteOK'
  BY DEF RewriteOK
<1>4. NoneCancelled(table') /\ NoneCancelled(ftab')
  BY NoneCancelledStays
<1>5. QED
  BY <1>1, <1>2, <1>3, <1>4, InsidePromise

LEMMA ExecutePromise ==
  ASSUME NothingFails, TypeInv, RecoveryInv, PromiseInv, Execute
  PROVE  PromiseInv'
<1>1. CASE Boot
  <2>1. pc = "boot" /\ pc' \notin LoopSteps /\ UNCHANGED <<status, patch, fw, ftab, table>>
    BY <1>1 DEF Boot, SetStatus, Goto, LoopSteps, flash, backup
  <2>2. EndOK'
    BY <1>1, <2>1 DEF Boot, SetStatus, Goto, PromiseInv, EndOK
  <2>3. QED
    BY <2>1, <2>2, OutsidePromise
<1>2. CASE FlagErase
  <2>1. /\ pc \in {"flagErase", "record"} /\ pc' = "flagWrite" /\ status' = "BLANK"
        /\ UNCHANGED <<patch, fw, ftab, table, flag>>
    BY <1>2 DEF FlagErase, Goto, backup, scratch
  <2>2. pc' \notin LoopSteps
    BY <2>1 DEF LoopSteps
  <2>3. EndOK'
    BY <2>1 DEF PromiseInv, EndOK, RecoveryInv, StatusOK
  <2>4. QED
    BY <2>1, <2>2, <2>3, OutsidePromise
<1>3. CASE FlagWrite
  <2>1. /\ pc = "flagWrite" /\ status' = flag.want /\ UNCHANGED <<patch, fw, ftab, table>>
        /\ status = "BLANK"
    BY <1>3 DEF FlagWrite, backup, RecoveryInv, StatusOK
  <2>2. CASE flag.then = "open" /\ flag.want = "UPDATE"
    <3>1. pc' = "open" /\ status' = "UPDATE"
      BY <1>3, <2>1, <2>2 DEF FlagWrite, Goto
    <3>2. EndOK' /\ pc' \notin LoopSteps
      BY <3>1 DEF EndOK, LoopSteps
    <3>3. QED
      BY <2>1, <3>2, OutsidePromise
  <2>3. CASE flag.then = "app" /\ flag.want \in {"UPDATEED", "IDLE"}
    <3>1. DoneTo(NewLength(patch), fw, patch)
      BY <2>1, <2>3 DEF PromiseInv, EndOK
    <3>2. /\ pc' = "app" \/ (pc' = "flagErase" /\ flag'.then = "app")
          /\ status' \in {"UPDATEED", "IDLE"}
      BY <1>3, <2>1, <2>3 DEF FlagWrite, SetStatus, Goto
    <3>3. EndOK' /\ pc' \notin LoopSteps
      BY <2>1, <3>1, <3>2 DEF EndOK, LoopSteps
    <3>4. QED
      BY <2>1, <3>3, OutsidePromise
  <2>4. QED
    BY <2>1, <2>2, <2>3 DEF RecoveryInv, StatusOK, PromiseInv, EndOK
<1>4. QED
  BY <1>1, <1>2, <1>3 DEF Execute

LEMMA PreparePromise ==
  ASSUME NothingFails, TypeInv, RecoveryInv, PromiseInv, Prepare
  PROVE  PromiseInv'
<1>1. patch \in Patches
  BY DEF TypeInv, TypeOK
<1>2. CASE Open
  <2>1. /\ pc = "open" /\ blk' = 1 /\ phase' = "diff" /\ remain' = patch[1].diff
        /\ table' = NoEntries /\ UNCHANGED <<status, patch, fw, ftab>>
    BY <1>2 DEF Open, flash
  <2>2. Len(patch) <= MaxBlocks /\ Len(patch) \in Nat /\ MaxBlocks \in Nat
    BY <1>1, PatchParts, PatchAssumption DEF NothingFails, Finishes
  <2>3. pc' = "resume"
    BY <1>2, <2>2 DEF Open, Goto
  <2>4. status' = "UPDATE"
    BY <2>1 DEF RecoveryInv, StatusOK
  <2>5. DiffLeft'
    <3>1. patch[1].diff \in Nat
      BY <1>1, PatchParts
    <3>2. QED
      BY <2>1, <3>1 DEF DiffLeft
  <2>6. UsedCounted' /\ RewriteOK' /\ pc' \in LoopSteps
    BY <2>3 DEF UsedCounted, RewriteOK, Body, LoopSteps
  <2>7. QED
    BY <2>1, <2>4, <2>5, <2>6, NoneCancelledStays, InsidePromise
<1>3. CASE Start
  <2>1. /\ pc = "resume" /\ pc' = "magicErase"
        /\ UNCHANGED <<status, patch, phase, remain, blk, table, ftab>>
    BY <1>3 DEF Start, Goto, flash, backup
  <2>2. UsedCounted' /\ pc \in LoopSteps /\ pc' \in LoopSteps \ {"fwErase", "fwWrite"}
    BY <2>1 DEF UsedCounted, Body, LoopSteps
  <2>3. QED
    BY <2>1, <2>2, LoopPromise
<1>4. CASE Resume
  <2>1. /\ pc = "resume" /\ pc' = "chunk" /\ table' = ftab
        /\ UNCHANGED <<status, patch, phase, remain, blk, ftab>>
        /\ used' = Cardinality({k \in Recorded(ftab) : ftab[k].st = "S"})
    BY <1>4 DEF Resume, Goto, flash
  <2>2. UsedCounted'
    <3>1. {k \in Recorded(ftab) : ftab[k].st = "S"} \subseteq InTable(ftab)
      BY DEF Recorded, InTable
    <3>2. IsFiniteSet(InTable(ftab))
      BY SomeSectors DEF InTable
    <3>3. used' <= Cardinality(InTable(ftab)) /\ used' \in Nat
      BY <2>1, <3>1, <3>2, FS_Subset, FS_CardinalityType
    <3>4. Cardinality(InTable(ftab)) \in Nat
      BY <3>2, FS_CardinalityType
    <3>5. QED
      BY <2>1, <3>3, <3>4 DEF UsedCounted
  <2>3. status' = "UPDATE" /\ pc' \in LoopSteps /\ pc \in LoopSteps
    BY <2>1 DEF RecoveryInv, StatusOK, LoopSteps
  <2>4. DiffLeft' /\ RewriteOK'
    BY <2>1, <2>3 DEF PromiseInv, DiffLeft, RewriteOK
  <2>5. QED
    BY <2>1, <2>2, <2>3, <2>4, NoneCancelledStays, InsidePromise
<1>5. CASE MagicErase
  <2>1. /\ pc = "magicErase" /\ pc' = "magicWrite" /\ ftab' = NoEntries
        /\ UNCHANGED <<status, patch, phase, remain, blk, table>>
    BY <1>5 DEF MagicErase, Goto, cursor, backup
  <2>2. UsedCounted' /\ pc \in LoopSteps /\ pc' \in LoopSteps \ {"fwErase", "fwWrite"}
    BY <2>1 DEF UsedCounted, Body, LoopSteps
  <2>3. QED
    BY <2>1, <2>2, LoopPromise
<1>6. CASE MagicWrite
  <2>1. /\ pc = "magicWrite" /\ pc' = "chunk"
        /\ UNCHANGED <<status, patch, phase, remain, blk, table, used, ftab>>
    BY <1>6 DEF MagicWrite, Goto, cursor, backup
  <2>2. used = 0
    BY <2>1 DEF RecoveryInv, SlotsRight, Starting
  <2>3. Cardinality(InTable(table)) \in Nat
    BY SomeSectors, FS_CardinalityType DEF InTable
  <2>4. UsedCounted' /\ pc \in LoopSteps /\ pc' \in LoopSteps \ {"fwErase", "fwWrite"}
    BY <2>1, <2>2, <2>3 DEF UsedCounted, LoopSteps
  <2>5. QED
    BY <2>1, <2>4, LoopPromise
<1>7. QED
  BY <1>2, <1>3, <1>4, <1>5, <1>6 DEF Prepare

LEMMA BackUpPromise ==
  ASSUME NothingFails, TypeInv, RecoveryInv, PromiseInv, BackUp
  PROVE  PromiseInv'
<1>1. ~Recycle /\ ~RecycleFails
  BY NoRefusal
<1>2. CASE AlreadyBackedUp
  <2>1. /\ pc = "backup" /\ pc' = "patch"
        /\ UNCHANGED <<status, patch, phase, remain, blk, table, used, ftab>>
    BY <1>2 DEF AlreadyBackedUp, Goto, flash, cursor, backup
  <2>2. UsedCounted' /\ pc \in LoopSteps /\ pc' \in LoopSteps \ {"fwErase", "fwWrite"}
    BY <2>1 DEF PromiseInv, UsedCounted, Body, LoopSteps
  <2>3. QED
    BY <2>1, <2>2, LoopPromise
<1>3. CASE TableErase
  <2>1. /\ pc \in {"recErase", "stErase"} /\ pc' = IF pc = "recErase" THEN "recWrite" ELSE "stWrite"
        /\ ftab' = NoEntries /\ UNCHANGED <<status, patch, phase, remain, blk, table, used>>
    BY <1>3 DEF TableErase, Goto, cursor, backup
  <2>2. UsedCounted' /\ pc \in LoopSteps /\ pc' \in LoopSteps \ {"fwErase", "fwWrite"}
    BY <2>1 DEF PromiseInv, UsedCounted, Body, LoopSteps
  <2>3. QED
    BY <2>1, <2>2, LoopPromise
<1>4. CASE TableWrite
  <2>1. /\ pc \in {"recWrite", "stWrite"} /\ ftab' = table
        /\ UNCHANGED <<status, patch, phase, remain, blk, table>>
        /\ \/ pc = "recWrite" /\ pc' = "select" /\ used' = used
           \/ pc = "stWrite" /\ pc' = "patch" /\ used' = used + 1
    BY <1>4 DEF TableWrite, Goto, cursor
  <2>2. used \in Int
    BY DEF TypeInv, TypeOK
  <2>3. Cardinality(InTable(table)) \in Nat
    BY SomeSectors, FS_CardinalityType DEF InTable
  <2>4. UsedCounted' /\ pc \in LoopSteps /\ pc' \in LoopSteps \ {"fwErase", "fwWrite"}
    BY <2>1, <2>2, <2>3 DEF PromiseInv, UsedCounted, Body, LoopSteps
  <2>5. QED
    BY <2>1, <2>4, LoopPromise
<1>5. CASE Select
  <2>1. /\ pc \in {"select", "backup"} /\ pc' \in {"seaErase", "patch"}
        /\ UNCHANGED <<status, patch, phase, remain, blk, table, used, ftab>>
    BY <1>5 DEF Select, Goto, flash, cursor
  <2>2. UsedCounted' /\ pc \in LoopSteps /\ pc' \in LoopSteps \ {"fwErase", "fwWrite"}
    BY <2>1 DEF PromiseInv, UsedCounted, Body, LoopSteps
  <2>3. QED
    BY <2>1, <2>2, LoopPromise
<1>6. CASE SeaErase
  <2>1. /\ pc = "seaErase" /\ pc' = "seaWrite"
        /\ UNCHANGED <<status, patch, phase, remain, blk, table, used, ftab>>
    BY <1>6 DEF SeaErase, Goto, cursor, backup
  <2>2. UsedCounted' /\ pc \in LoopSteps /\ pc' \in LoopSteps \ {"fwErase", "fwWrite"}
    BY <2>1 DEF PromiseInv, UsedCounted, Body, LoopSteps
  <2>3. QED
    BY <2>1, <2>2, LoopPromise
<1>7. CASE SeaWrite
  <2>1. /\ pc = "seaWrite" /\ pc' = "stErase"
        /\ table' = [table EXCEPT ![Cur] = [st |-> "S", slot |-> slot]]
        /\ UNCHANGED <<status, patch, phase, remain, blk, used, ftab>>
    BY <1>7 DEF SeaWrite, Goto, cursor
  <2>2. pc \in Body /\ pc \in LoopSteps /\ pc \in Filling
    BY <2>1 DEF Body, LoopSteps, Filling
  <2>3. Cur \in Sectors /\ table \in [Sectors -> Entry] /\ status = "UPDATE" /\ used \in Int
    BY <2>2, InBody DEF TypeInv, TypeOK
  <2>4. table[Cur].st # "S"
    BY <2>2 DEF RecoveryInv, TableRight
  <2>5. NoneCancelled(table') /\ NoneCancelled(ftab')
    BY <2>1, <2>3 DEF PromiseInv, NoneCancelled
  <2>6. InTable(table') = InTable(table) \cup {Cur} /\ Cur \notin InTable(table)
    BY <2>1, <2>3, <2>4 DEF InTable
  <2>7. IsFiniteSet(InTable(table)) /\ Cardinality(InTable(table)) \in Nat
    BY SomeSectors, FS_CardinalityType DEF InTable
  <2>8. Cardinality(InTable(table')) = Cardinality(InTable(table)) + 1
    BY <2>6, <2>7, FS_AddElement
  <2>9. used <= Cardinality(InTable(table))
    BY <2>1, <2>2, <2>3 DEF PromiseInv, UsedCounted
  <2>10. UsedCounted'
    BY <2>1, <2>3, <2>7, <2>8, <2>9 DEF UsedCounted
  <2>11. DiffLeft' /\ RewriteOK' /\ pc' \in LoopSteps
    BY <2>1, <2>2 DEF PromiseInv, DiffLeft, RewriteOK, LoopSteps
  <2>12. status' = "UPDATE"
    BY <2>1, <2>3
  <2>13. QED
    BY <2>5, <2>10, <2>11, <2>12, InsidePromise
<1>8. QED
  BY <1>1, <1>2, <1>3, <1>4, <1>5, <1>6, <1>7 DEF BackUp

\* The end of the body of the loop.
LEMMA AdvancePromise ==
  ASSUME TypeInv, RecoveryInv, PromiseInv, RecoveryInv', pc \in {"chunk", "patch", "fwWrite"}, Advance,
         UNCHANGED <<status, patch, ftab, table, used, flag>>
  PROVE  PromiseInv'
<1>1. pc \in Body /\ pc \in LoopSteps /\ pc \notin {"stErase", "stWrite"}
  BY DEF Body, LoopSteps
<1>2. /\ patch \in Patches /\ remain \in Nat /\ Temp \in 0 .. remain /\ status' = "UPDATE"
  BY <1>1, InBody
<1>3. pc' \in {"chunk", "clear"}
  BY DEF Advance, Goto
<1>4. CASE pc' = "chunk"
  <2>1. UsedCounted' /\ RewriteOK' /\ pc' \in LoopSteps
    BY <1>1, <1>4 DEF PromiseInv, UsedCounted, RewriteOK, LoopSteps
  <2>2. DiffLeft'
    <3>1. CASE remain - Temp # 0
      <4>1. remain' = remain - Temp
        BY <3>1 DEF Advance
      <4>2. QED
        BY <1>2, <3>1, <4>1 DEF DiffLeft
    <3>2. CASE remain - Temp = 0 /\ phase = "diff"
      <4>1. phase' = "extra"
        BY <3>2 DEF Advance
      <4>2. QED
        BY <4>1 DEF DiffLeft
    <3>3. CASE remain - Temp = 0 /\ phase = "extra" /\ blk < Len(patch)
      <4>1. blk' = blk + 1 /\ remain' = patch[blk + 1].diff /\ patch' = patch
        BY <3>3 DEF Advance
      <4>2. blk \in 1 .. Len(patch) /\ Len(patch) \in Nat
        BY <1>2, PatchParts DEF TypeInv, TypeOK
      <4>3. blk + 1 \in 1 .. Len(patch)
        BY <3>3, <4>2
      <4>4. patch[blk + 1].diff \in Nat
        BY <1>2, <4>3, PatchParts
      <4>5. QED
        BY <4>1, <4>4 DEF DiffLeft
    <3>4. CASE remain - Temp = 0 /\ phase = "extra" /\ blk = Len(patch)
      BY <1>4, <3>4 DEF Advance, Goto
    <3>5. QED
      BY <3>1, <3>2, <3>3, <3>4 DEF Advance
  <2>3. QED
    BY <1>2, <2>1, <2>2, NoneCancelledStays, InsidePromise
<1>5. CASE pc' = "clear"
  <2>1. decoded'
    BY <1>5 DEF Advance, Goto
  <2>2. DoneTo(NewLength(patch'), fw', patch')
    BY <2>1 DEF RecoveryInv, FirmwareOK
  <2>3. EndOK' /\ pc' \notin LoopSteps
    BY <1>2, <1>5, <2>2 DEF EndOK, LoopSteps
  <2>4. QED
    BY <2>3, OutsidePromise
<1>6. QED
  BY <1>3, <1>4, <1>5

LEMMA RewritePromise ==
  ASSUME NothingFails, TypeInv, RecoveryInv, PromiseInv, RecoveryInv', Rewrite
  PROVE  PromiseInv'
<1>1. CASE Chunk
  <2>1. /\ pc = "chunk" /\ UNCHANGED <<status, patch, ftab, table, used, flag>>
    BY <1>1 DEF Chunk, flash, backup
  <2>2. CASE Advance
    BY <2>1, <2>2, AdvancePromise
  <2>3. CASE ~Advance
    <3>1. pc' = "backup" /\ UNCHANGED <<phase, remain, blk>>
      BY <1>1, <2>3 DEF Chunk, Goto
    <3>2. UsedCounted' /\ pc \in LoopSteps /\ pc' \in LoopSteps \ {"fwErase", "fwWrite"}
      BY <2>1, <3>1 DEF PromiseInv, UsedCounted, Body, LoopSteps
    <3>3. QED
      BY <2>1, <3>1, <3>2, LoopPromise
  <2>4. QED
    BY <2>2, <2>3
<1>2. CASE PatchChunk
  <2>1. /\ pc = "patch" /\ UNCHANGED <<status, patch, fw, ftab, table, used, flag>>
        /\ pc \in Body /\ pc \in LoopSteps
    BY <1>2 DEF PatchChunk, flash, backup, Body, LoopSteps
  <2>2. CASE Offset(newpos) # 0 /\ Temp = 0
    BY <1>2, <2>1, <2>2, AdvancePromise DEF PatchChunk
  <2>3. CASE ~(Offset(newpos) # 0 /\ Temp = 0)
    <3>1. /\ image' = [o \in Offsets |-> IF InChunk(o) THEN Patched(o) ELSE Rest(o)]
          /\ pc' = "fwErase" /\ UNCHANGED <<blk, phase, remain, newpos>>
      BY <1>2, <2>3 DEF PatchChunk, Goto
    <3>2. UsedCounted' /\ DiffLeft' /\ pc' \in LoopSteps /\ status' = "UPDATE"
      BY <2>1, <3>1, InBody DEF PromiseInv, UsedCounted, DiffLeft, Body, LoopSteps
    <3>3. /\ Cur \in Sectors /\ newpos \in Nat /\ Temp \in Nat /\ SectorSize \in Nat \ {0}
          /\ Cur' = Cur /\ Temp' = Temp
      BY <2>1, <3>1, InBody, GeometryAssumption DEF Cur, Temp
    <3>4. /\ Cur \in Int /\ Cur * SectorSize \in Int /\ Offset(newpos) \in Nat
          /\ newpos = Cur * SectorSize + Offset(newpos) /\ 0 \in Offsets
      <4>1. Cur \in Int
        BY <3>3 DEF Sectors
      <4>2. Offset(newpos) \in Nat /\ newpos = Cur * SectorSize + Offset(newpos)
        BY <3>3, CellOf DEF Cur, Offsets
      <4>3. QED
        BY <3>3, <4>1, <4>2, SectorStart DEF Offsets
    <3>5. image'[0] # Old(Cur * SectorSize)
      <4>1. CASE Cur * SectorSize < newpos + Temp
        <5>1. Cur * SectorSize + 0 < newpos' + Temp' => image'[0] = New(Cur * SectorSize + 0)
          BY <3>1, <3>3, <3>4 DEF RecoveryInv, ProgressOK
        <5>2. Cur * SectorSize + 0 = Cur * SectorSize
          BY <3>4
        <5>3. QED
          BY <3>1, <3>3, <4>1, <5>1, <5>2 DEF New, Old
      <4>2. CASE ~(Cur * SectorSize < newpos + Temp)
        <5>1. Temp = 0 /\ Offset(newpos) = 0
          BY <3>3, <3>4, <4>2
        <5>2. ~InChunk(0) /\ Rest(0) = Erased
          BY <5>1 DEF InChunk, Rest
        <5>3. QED
          BY <3>1, <3>4, <5>2 DEF Erased, Old
      <4>3. QED
        BY <4>1, <4>2
    <3>6. RewriteOK'
      BY <3>1, <3>3, <3>5 DEF RewriteOK
    <3>7. QED
      BY <2>1, <3>2, <3>6, NoneCancelledStays, InsidePromise
  <2>4. QED
    BY <2>2, <2>3
<1>3. ~PatchRefused
  BY NoRefusal
<1>4. CASE FirmwareErase
  <2>1. /\ pc = "fwErase" /\ pc' = "fwWrite" /\ fw' = [fw EXCEPT ![Cur] = ErasedImage]
        /\ UNCHANGED <<status, patch, phase, remain, blk, newpos, table, used, ftab, image>>
    BY <1>4 DEF FirmwareErase, Goto, cursor, backup, scratch
  <2>2. pc \in Body /\ pc \in LoopSteps /\ pc' \in LoopSteps
    BY <2>1 DEF Body, LoopSteps
  <2>3. Cur \in Sectors /\ fw \in [Sectors -> Image] /\ status' = "UPDATE" /\ Cur' = Cur
    BY <2>1, <2>2, InBody DEF Cur
  <2>4. RewriteOK'
    BY <2>1, <2>3 DEF PromiseInv, RewriteOK
  <2>5. UsedCounted' /\ DiffLeft'
    BY <2>1, <2>2 DEF PromiseInv, UsedCounted, DiffLeft
  <2>6. QED
    BY <2>1, <2>2, <2>3, <2>4, <2>5, NoneCancelledStays, InsidePromise
<1>5. CASE FirmwareWrite
  <2>1. /\ pc = "fwWrite" /\ Advance /\ UNCHANGED <<status, patch, ftab, table, used, flag>>
    BY <1>5 DEF FirmwareWrite, backup
  <2>2. QED
    BY <2>1, AdvancePromise
<1>6. CASE Clear
  <2>1. /\ pc = "clear" /\ pc' = "record" /\ ftab' = NoEntries
        /\ UNCHANGED <<status, patch, fw, table>>
    BY <1>6 DEF Clear, Goto, backup
  <2>2. EndOK' /\ pc' \notin LoopSteps
    BY <2>1 DEF PromiseInv, EndOK, LoopSteps
  <2>3. QED
    BY <2>1, <2>2, OutsidePromise
<1>7. QED
  BY <1>1, <1>2, <1>3, <1>4, <1>5, <1>6 DEF Rewrite

LEMMA ResetPromise ==
  ASSUME NothingFails, TypeInv, RecoveryInv, PromiseInv, Restart \/ Crash
  PROVE  PromiseInv'
<1>1. /\ pc' = "boot" /\ table' = NoEntries /\ UNCHANGED <<status, patch>> /\ pc' \notin LoopSteps
  BY DEF Restart, Crash, ResetRAM, flash, LoopSteps
<1>2. ftab' = ftab
  BY DEF Restart, Crash, flash, NothingFails, Hypotheses, Unsaved
<1>3. pc # "flagWrite" /\ status # "BLANK"
  BY DEF Restart, Crash, NothingFails, PromiseInv, EndOK
<1>4. status \in {"UPDATEED", "IDLE"} => DoneTo(NewLength(patch), fw', patch)
  <2>1. CASE pc = "fwWrite"
    BY <2>1 DEF RecoveryInv, StatusOK, LoopSteps
  <2>2. CASE pc # "fwWrite"
    <3>1. fw' = fw
      BY <2>2 DEF Restart, Crash, flash
    <3>2. QED
      BY <3>1 DEF PromiseInv, EndOK
  <2>3. QED
    BY <2>1, <2>2
<1>5. EndOK'
  BY <1>1, <1>3, <1>4 DEF EndOK
<1>6. QED
  BY <1>1, <1>2, <1>5, OutsidePromise

LEMMA PromiseNext ==
  ASSUME NothingFails, TypeInv, RecoveryInv, PromiseInv, RecoveryInv', [Next]_vars
  PROVE  PromiseInv'
<1>1. CASE UNCHANGED vars
  <2>1. UNCHANGED <<status, patch, fw, ftab, pc, blk, phase, remain, newpos, table, used, image, flag>>
    BY <1>1 DEF vars, flash, cursor, backup, scratch
  <2>2. Cur' = Cur
    BY <2>1 DEF Cur
  <2>3. QED
    BY <2>1, <2>2 DEF PromiseInv, UsedCounted, DiffLeft, EndOK, RewriteOK
<1>2. QED
  BY <1>1, ExecutePromise, PreparePromise, BackUpPromise, RewritePromise, ResetPromise
     DEF Next, Step

LEMMA PromiseHolds ==
  ASSUME NothingFails
  PROVE  Spec => [](TypeInv /\ RecoveryInv /\ PromiseInv)
<1>1. Hypotheses
  BY DEF NothingFails
<1>2. Init => TypeInv /\ RecoveryInv /\ PromiseInv
  BY TypeInit, RecoveryInit, PromiseInit
<1>3. TypeInv /\ RecoveryInv /\ PromiseInv /\ [Next]_vars => (TypeInv /\ RecoveryInv /\ PromiseInv)'
  BY <1>1, TypeNext, RecoveryNext, PromiseNext
<1>4. QED
  BY <1>2, <1>3, PTL DEF Spec

\* The new firmware is whole, in the words of the model and of the proofs.
LEMMA WholeIsDone ==
  ASSUME TypeInv
  PROVE  NewIsWhole <=> DoneTo(NewLength(patch), fw, patch)
<1>1. NewLength(patch) \in Nat
  BY NewEnd DEF TypeInv, TypeOK
<1>2. \A c : c \in 0 .. NewLength(patch) - 1 <=> c \in Nat /\ c < NewLength(patch)
  BY <1>1
<1>3. QED
  BY <1>2 DEF NewIsWhole, DoneTo

(***************************************************************************)
(* The status word says the upgrade is over only when the firmware is the  *)
(* new one (mi_iot_execute, firmware_patch), for patches that are not      *)
(* refused and power that is lost at any step but the four between which   *)
(* flash says neither how far the patch has come nor what was asked for.   *)
(***************************************************************************)
THEOREM EndIsNew ==
  ASSUME NothingFails
  PROVE  Spec => []UpgradedIsNew
<1>1. TypeInv /\ PromiseInv => UpgradedIsNew
  BY WholeIsDone DEF PromiseInv, EndOK, UpgradedIsNew
<1>2. QED
  BY <1>1, PromiseHolds, PTL

-----------------------------------------------------------------------------
(* What is on flash is enough to resume.                                     *)

\* The records that the scan of the table covers are a beginning of it.
LEMMA RecordedPrefix ==
  ASSUME NEW t, Recorded(t) # {}
  PROVE  \E g \in Sectors : g \in Recorded(t) /\ Recorded(t) = 0 .. g /\ Cardinality(Recorded(t)) = g + 1
<1>1. Recorded(t) \in SUBSET Sectors
  BY DEF Recorded
<1>2. PICK g \in Recorded(t) : \A y \in Recorded(t) : y <= g
  BY <1>1, GreatestIsUpper
<1>3. g \in Sectors /\ g \in Nat
  BY <1>1 DEF Sectors
<1>4. Recorded(t) = 0 .. g
  <2>1. ASSUME NEW k \in 0 .. g PROVE k \in Recorded(t)
    <3>1. k \in Sectors
      BY <1>3, GeometryAssumption DEF Sectors
    <3>2. 0 .. k \subseteq 0 .. g
      BY <1>3
    <3>3. QED
      BY <1>2, <3>1, <3>2 DEF Recorded
  <2>2. ASSUME NEW k \in Recorded(t) PROVE k \in 0 .. g
    BY <1>1, <1>2, <1>3 DEF Sectors
  <2>3. QED
    BY <2>1, <2>2
<1>5. Cardinality(0 .. g) = g + 1
  BY <1>3, FS_Interval
<1>6. QED
  BY <1>2, <1>3, <1>4, <1>5

(***************************************************************************)
(* While some sector is on record, a reset would resume correctly: every   *)
(* new byte before the sector at which decode_and_patch resumes is in      *)
(* place, and every old byte needed from there on is in the sea or still   *)
(* in the firmware, for patches that are not refused.                      *)
(***************************************************************************)
THEOREM AlwaysResumable ==
  ASSUME NothingFails
  PROVE  Spec => []Resumable
<1>1. TypeInv /\ RecoveryInv /\ PromiseInv => Resumable
  <2>1. SUFFICES ASSUME TypeInv, RecoveryInv, PromiseInv, magic = "SET", Recorded(ftab) # {}
                 PROVE  /\ \A c \in 0 .. NewStart(patch)[Len(patch) + 1] - 1 :
                             Sector(c) < ResumesAt => fw[Sector(c)][Offset(c)] = New(c)
                        /\ \A j \in DOMAIN patch : \A d \in 0 .. patch[j].diff - 1 :
                             Available(OldStart(patch)[j] + d)
    BY DEF Resumable
  <2>2. patch \in Patches /\ fw \in [Sectors -> Image] /\ ftab \in [Sectors -> Entry]
    BY <2>1 DEF TypeInv, TypeOK
  <2>3. PICK m \in Sectors : FrontAt(ftab, m, patch) /\ DoneTo(m * SectorSize, fw, patch)
    BY <2>1 DEF RecoveryInv, FlashOK
  <2>4. InSea(ftab, sea) /\ InPlace(ftab, fw, patch) /\ NoneCancelled(ftab)
    BY <2>1 DEF RecoveryInv, FlashOK, PromiseInv
  <2>5. PICK g \in Sectors : g \in Recorded(ftab) /\ Cardinality(Recorded(ftab)) = g + 1
    BY <2>1, RecordedPrefix
  <2>6. ftab[g].st = "S"
    <3>1. ftab[g].st # "U" /\ ftab[g] \in Entry
      BY <2>2, <2>5 DEF Recorded, Sectors
    <3>2. QED
      BY <2>4, <3>1 DEF NoneCancelled, Entry
  <2>7. ResumesAt = g /\ g <= m
    <3>1. (g + 1) - 1 = g /\ g \in Int /\ m \in Int
      BY DEF Sectors
    <3>2. ~(g > m)
      BY <2>3, <2>6 DEF FrontAt
    <3>3. QED
      BY <2>5, <2>6, <3>1, <3>2 DEF ResumesAt
  <2>8. ASSUME NEW c \in 0 .. NewStart(patch)[Len(patch) + 1] - 1, Sector(c) < ResumesAt
        PROVE  fw[Sector(c)][Offset(c)] = New(c)
    <3>1. NewLength(patch) \in Nat /\ c \in 0 .. NewLength(patch) - 1
      BY <2>2, NewEnd DEF NewLength
    <3>2. c \in Nat /\ c < NewLength(patch) /\ Sector(c) < m
      <4>1. c \in Nat /\ c < NewLength(patch)
        BY <3>1
      <4>2. Sector(c) \in Nat
        BY <4>1, CellOf
      <4>3. QED
        BY <2>7, <2>8, <4>1, <4>2 DEF Sectors
    <3>3. c < m * SectorSize
      <4>1. /\ Sector(c) \in Int /\ m \in Int /\ m * SectorSize \in Int
            /\ Sector(c) * SectorSize \in Int
        <5>1. Sector(c) \in Int /\ m \in Int
          BY <3>2, CellOf DEF Sectors
        <5>2. QED
          BY <5>1, SectorStart
      <4>2. Sector(c) * SectorSize + SectorSize <= m * SectorSize
        BY <3>2, <4>1, SectorStart
      <4>3. c < Sector(c) * SectorSize + SectorSize
        BY <3>2, CellOf
      <4>4. QED
        BY <3>2, <4>1, <4>2, <4>3, GeometryAssumption
    <3>4. QED
      BY <2>3, <3>2, <3>3 DEF DoneTo
  <2>9. ASSUME NEW j \in DOMAIN patch, NEW d \in 0 .. patch[j].diff - 1
        PROVE  Available(OldStart(patch)[j] + d)
    <3> DEFINE p == OldStart(patch)[j] + d
    <3>1. j \in 1 .. Len(patch) /\ patch[j].diff \in Nat /\ OldStart(patch)[j] \in Int
      BY <2>2, PatchParts, OldStartStep
    <3>2. /\ OldStart(patch)[j] >= 0
          /\ OldStart(patch)[j] + patch[j].diff < Pool * SectorSize
      BY <2>2, <3>1 DEF NothingFails, Hypotheses, InsidePool, Finishes
    <3>3. Pool * SectorSize \in Int
      BY GeometryAssumption, SectorStart
    <3>4. p \in Nat /\ p \in 0 .. Pool * SectorSize - 1
      BY <3>1, <3>2, <3>3
    <3>5. Sector(p) \in Sectors /\ Offset(p) \in Offsets
      BY <3>4, SectorInPool, CellOf
    <3>6. Sector(p) * SectorSize + Offset(p) = p
      BY <3>4, CellOf
    <3>7. OldImage(Sector(p))[Offset(p)] = Old(p)
      BY <3>5, <3>6 DEF OldImage
    <3>8. CASE ftab[Sector(p)].st = "S"
      BY <2>4, <3>5, <3>7, <3>8 DEF InSea, Available
    <3>9. CASE ftab[Sector(p)].st = "U"
      <4>1. ReadByPatch(patch, Sector(p))
        <5>1. /\ Sector(p) * SectorSize <= p /\ p < Sector(p) * SectorSize + SectorSize
              /\ Sector(p) * SectorSize \in Int
          <6>1. Sector(p) \in Int
            BY <3>4, CellOf
          <6>2. QED
            BY <3>4, <6>1, CellOf, SectorStart
        <5>2. Touches(Sector(p), OldStart(patch)[j], OldStart(patch)[j] + patch[j].diff)
          <6>1. OldStart(patch)[j] <= p /\ p <= OldStart(patch)[j] + patch[j].diff
            BY <3>1
          <6>2. OldStart(patch)[j] + patch[j].diff \in Int /\ p \in Int
            BY <3>1
          <6>3. SectorSize \in Int
            BY GeometryAssumption
          <6>4. QED
            BY <3>1, <5>1, <6>1, <6>2, <6>3, TouchesAround
        <5>3. QED
          BY <5>2 DEF ReadByPatch
      <4>2. QED
        BY <2>4, <3>5, <3>7, <3>9, <4>1 DEF InPlace, Available
    <3>10. ftab[Sector(p)].st \in {"U", "S"}
      BY <2>2, <2>4, <3>5 DEF NoneCancelled, Entry
    <3>11. QED
      BY <3>8, <3>9, <3>10
  <2>10. QED
    BY <2>8, <2>9
<1>2. QED
  BY <1>1, PromiseHolds, PTL

-----------------------------------------------------------------------------
(* The refinement, step by step.                                             *)

\* Steps that leave the firmware alone, and a status word that is not blank.
LEMMA QuietStep ==
  ASSUME UNCHANGED <<fw, patch, status>>, status # "BLANK", pc # "app", pc' # "app"
  PROVE  UNCHANGED Promise!vars
<1>1. FirmwareIs' = FirmwareIs
  BY DEF FirmwareIs, NewIsWhole
<1>2. RequestIs' = RequestIs
  BY DEF RequestIs
<1>3. (pc = "app")' = (pc = "app")
  OBVIOUS
<1>4. QED
  BY <1>1, <1>2, <1>3 DEF Promise!vars

LEMMA ExecuteKeeps ==
  ASSUME NothingFails, TypeInv, RecoveryInv, PromiseInv, Execute
  PROVE  [Promise!Next]_(Promise!vars)
<1>1. UNCHANGED <<fw, patch>>
  BY DEF Execute, Boot, FlagErase, FlagWrite, flash
<1>2. FirmwareIs' = FirmwareIs
  BY <1>1 DEF FirmwareIs, NewIsWhole
<1>3. CASE Boot
  <2>1. pc = "boot" /\ status' = status /\ status # "BLANK"
    BY <1>3 DEF Boot, flash, PromiseInv, EndOK
  <2>2. CASE pc' = "app"
    <3>1. status = "IDLE"
      BY <1>3, <2>1, <2>2 DEF Boot, SetStatus, Goto
    <3>2. RequestIs = "acknowledged" /\ RequestIs' = "acknowledged"
      BY <2>1, <3>1 DEF RequestIs
    <3>3. Promise!Run
      BY <1>2, <2>1, <2>2, <3>2 DEF Promise!Run
    <3>4. QED
      BY <3>3 DEF Promise!Next
  <2>3. CASE pc' # "app"
    BY <1>1, <2>1, <2>3, QuietStep
  <2>4. QED
    BY <2>2, <2>3
<1>4. CASE FlagErase
  <2>1. /\ pc \in {"flagErase", "record"} /\ pc' = "flagWrite" /\ status' = "BLANK" /\ flag' = flag
    BY <1>4 DEF FlagErase, Goto, scratch
  <2>2. (pc = "app")' = (pc = "app") /\ pc # "app"
    BY <2>1
  <2>3. ASSUME RequestIs' = RequestIs PROVE UNCHANGED Promise!vars
    BY <1>2, <2>2, <2>3 DEF Promise!vars
  <2>4. CASE pc = "flagErase"
    BY <2>1, <2>3, <2>4 DEF RequestIs, RecoveryInv, StatusOK, PromiseInv, EndOK
  <2>5. CASE pc = "record"
    <3>1. flag.want = "UPDATEED" /\ DoneTo(NewLength(patch), fw, patch)
      BY <2>5 DEF RecoveryInv, StatusOK, PromiseInv, EndOK
    <3>2. FirmwareIs = "new"
      BY <3>1, WholeIsDone DEF FirmwareIs
    <3>3. RequestIs' = "acknowledged"
      BY <2>1, <3>1 DEF RequestIs
    <3>4. RequestIs \in {"pending", "acknowledged"}
      BY DEF RequestIs
    <3>5. CASE RequestIs = "pending"
      <4>1. Promise!Acknowledge
        BY <1>2, <2>2, <3>2, <3>3, <3>5 DEF Promise!Acknowledge
      <4>2. QED
        BY <4>1 DEF Promise!Next
    <3>6. QED
      BY <2>3, <3>3, <3>4, <3>5
  <2>6. QED
    BY <2>1, <2>4, <2>5
<1>5. CASE FlagWrite
  <2>1. pc = "flagWrite" /\ status' = flag.want /\ status = "BLANK"
    BY <1>5 DEF FlagWrite, RecoveryInv, StatusOK
  <2>2. CASE flag.then = "open" /\ flag.want = "UPDATE"
    <3>1. pc' = "open" /\ status' = "UPDATE"
      BY <1>5, <2>1, <2>2 DEF FlagWrite, Goto
    <3>2. RequestIs' = RequestIs
      BY <2>1, <2>2, <3>1 DEF RequestIs
    <3>3. (pc = "app")' = (pc = "app")
      BY <2>1, <3>1
    <3>4. QED
      BY <1>2, <3>2, <3>3 DEF Promise!vars
  <2>3. CASE flag.then = "app" /\ flag.want \in {"UPDATEED", "IDLE"}
    <3>1. RequestIs = "acknowledged" /\ RequestIs' = "acknowledged"
      BY <2>1, <2>3 DEF RequestIs
    <3>2. pc' \in {"app", "flagErase"}
      BY <1>5, <2>1, <2>3 DEF FlagWrite, SetStatus, Goto
    <3>3. CASE pc' = "app"
      <4>1. Promise!Run
        BY <1>2, <2>1, <3>1, <3>3 DEF Promise!Run
      <4>2. QED
        BY <4>1 DEF Promise!Next
    <3>4. CASE pc' = "flagErase"
      <4>1. (pc = "app")' = (pc = "app")
        BY <2>1, <3>4
      <4>2. QED
        BY <1>2, <3>1, <4>1 DEF Promise!vars
    <3>5. QED
      BY <3>2, <3>3, <3>4
  <2>4. QED
    BY <2>1, <2>2, <2>3 DEF RecoveryInv, StatusOK, PromiseInv, EndOK
<1>6. QED
  BY <1>3, <1>4, <1>5 DEF Execute

LEMMA PrepareKeeps ==
  ASSUME NothingFails, TypeInv, RecoveryInv, PromiseInv, Prepare \/ BackUp
  PROVE  [Promise!Next]_(Promise!vars)
<1>1. ~RecycleFails
  BY NoRefusal
<1>2. UNCHANGED <<fw, patch, status>>
  BY <1>1 DEF Prepare, Open, Start, Resume, MagicErase, MagicWrite, BackUp, AlreadyBackedUp, Recycle,
              TableErase, TableWrite, Select, SeaErase, SeaWrite, flash
<1>3. pc \in LoopSteps \cup {"open"}
  BY DEF Prepare, Open, Start, Resume, MagicErase, MagicWrite, BackUp, AlreadyBackedUp, Recycle,
         RecycleFails, TableErase, TableWrite, Select, SeaErase, SeaWrite, LoopSteps
<1>4. status # "BLANK" /\ pc # "app"
  BY <1>3 DEF RecoveryInv, StatusOK, LoopSteps
<1>5. pc' # "app"
  <2>1. CASE Open
    <3>1. Len(patch) <= MaxBlocks /\ Len(patch) \in Nat /\ MaxBlocks \in Nat
      BY PatchParts, PatchAssumption DEF NothingFails, Finishes, TypeInv, TypeOK
    <3>2. QED
      BY <2>1, <3>1 DEF Open, Goto
  <2>2. CASE ~Open
    BY <1>1, <2>2 DEF Prepare, Start, Resume, MagicErase, MagicWrite, BackUp, AlreadyBackedUp, Recycle,
                      TableErase, TableWrite, Select, SeaErase, SeaWrite, Goto
  <2>3. QED
    BY <2>1, <2>2
<1>6. QED
  BY <1>2, <1>4, <1>5, QuietStep

\* A step that rewrites the firmware and leaves something of the old one changed.
LEMMA RewrittenStep ==
  ASSUME status = "UPDATE", status' = "UPDATE", pc # "app", pc' # "app", FirmwareIs' # "old",
         FirmwareIs' = "new" => FirmwareIs # "old"
  PROVE  [Promise!Next]_(Promise!vars)
<1>1. RequestIs = "pending" /\ RequestIs' = "pending"
  BY DEF RequestIs
<1>2. FirmwareIs \in {"old", "partial", "new"} /\ FirmwareIs' \in {"partial", "new"}
  BY DEF FirmwareIs
<1>3. (pc = "app")' = (pc = "app")
  OBVIOUS
<1>4. CASE FirmwareIs' = "partial"
  <2>1. Promise!Rewrite
    BY <1>1, <1>3, <1>4 DEF Promise!Rewrite
  <2>2. QED
    BY <2>1 DEF Promise!Next
<1>5. CASE FirmwareIs' = "new" /\ FirmwareIs = "partial"
  <2>1. Promise!Finish
    BY <1>1, <1>3, <1>5 DEF Promise!Finish
  <2>2. QED
    BY <2>1 DEF Promise!Next
<1>6. CASE FirmwareIs' = "new" /\ FirmwareIs = "new"
  BY <1>1, <1>3, <1>6 DEF Promise!vars
<1>7. QED
  BY <1>2, <1>4, <1>5, <1>6

\* A sector whose first cell is not the old one makes the firmware something
\* other than the old one.
LEMMA NotOld ==
  ASSUME NEW k \in Sectors, fw[k][0] # Old(k * SectorSize)
  PROVE  FirmwareIs # "old"
<1>1. 0 \in Offsets /\ k * SectorSize + 0 = k * SectorSize
  <2>1. k * SectorSize \in Int
    BY SectorStart DEF Sectors
  <2>2. QED
    BY <2>1, GeometryAssumption DEF Offsets
<1>2. OldImage(k)[0] = Old(k * SectorSize)
  BY <1>1 DEF OldImage
<1>3. fw[k] # OldImage(k)
  BY <1>2
<1>4. QED
  BY <1>3 DEF FirmwareIs

LEMMA RewriteKeeps ==
  ASSUME NothingFails, TypeInv, RecoveryInv, PromiseInv, TypeInv', RecoveryInv', PromiseInv', Rewrite
  PROVE  [Promise!Next]_(Promise!vars)
<1>1. CASE Chunk \/ PatchChunk \/ Clear
  <2>1. UNCHANGED <<fw, patch, status>> /\ pc \in {"chunk", "patch", "clear"} /\ pc' # "app"
    BY <1>1 DEF Chunk, PatchChunk, Clear, Advance, Goto, flash
  <2>2. status # "BLANK"
    BY <2>1 DEF PromiseInv, EndOK
  <2>3. QED
    BY <2>1, <2>2, QuietStep
<1>2. ~PatchRefused
  BY NoRefusal
<1>3. ASSUME FirmwareErase \/ FirmwareWrite PROVE [Promise!Next]_(Promise!vars)
  <2>1. /\ pc \in {"fwErase", "fwWrite"} /\ UNCHANGED <<patch, status>> /\ pc \in Body /\ pc # "app"
    BY <1>3 DEF FirmwareErase, FirmwareWrite, Body
  <2>2. Cur \in Sectors /\ fw \in [Sectors -> Image] /\ status = "UPDATE" /\ newpos \in Nat
    BY <2>1, InBody
  <2>3. pc' # "app"
    BY <1>3 DEF FirmwareErase, FirmwareWrite, Advance, Goto
  <2>4. ErasedImage[0] # Old(Cur * SectorSize)
    <3>1. 0 \in Offsets
      BY GeometryAssumption DEF Offsets
    <3>2. QED
      BY <3>1 DEF ErasedImage, Erased, Old
  <2>5. fw'[Cur][0] # Old(Cur * SectorSize)
    <3>1. CASE FirmwareErase
      BY <2>2, <2>4, <3>1 DEF FirmwareErase
    <3>2. CASE FirmwareWrite
      BY <2>2, <3>2 DEF FirmwareWrite, PromiseInv, RewriteOK
    <3>3. QED
      BY <1>3, <3>1, <3>2
  <2>6. FirmwareIs' # "old"
    <3>1. fw'[Cur] # OldImage(Cur)
      <4>1. 0 \in Offsets /\ Cur * SectorSize + 0 = Cur * SectorSize
        <5>1. Cur * SectorSize \in Int
          BY <2>2, SectorStart DEF Sectors
        <5>2. QED
          BY <5>1, GeometryAssumption DEF Offsets
      <4>2. OldImage(Cur)[0] = Old(Cur * SectorSize)
        BY <4>1 DEF OldImage
      <4>3. QED
        BY <2>5, <4>2
    <3>2. ~(\A k \in Sectors : fw'[k] = OldImage(k))
      BY <2>2, <3>1
    <3>3. QED
      BY <3>2 DEF FirmwareIs, OldImage
  <2>7. ASSUME FirmwareIs' = "new" PROVE FirmwareIs # "old"
    <3>1. CASE FirmwareWrite
      <4>1. fw[Cur] = ErasedImage
        BY <3>1 DEF FirmwareWrite, PromiseInv, RewriteOK
      <4>2. QED
        BY <2>2, <2>4, <4>1, NotOld
    <3>2. CASE FirmwareErase
      <4>1. fw'[Cur] = ErasedImage /\ patch' = patch
        BY <2>2, <3>2 DEF FirmwareErase
      <4>2. \A c \in 0 .. NewLength(patch) - 1 : fw'[Sector(c)][Offset(c)] = New(c)
        <5>1. NewIsWhole'
          BY <2>7 DEF FirmwareIs
        <5>2. QED
          BY <4>1, <5>1 DEF NewIsWhole
      <4>3. patch \in Patches /\ NewLength(patch) \in Nat
        BY <2>1, InBody, NewEnd
      <4>4. /\ Cur * SectorSize \in Nat /\ Sector(Cur * SectorSize) = Cur
            /\ Offset(Cur * SectorSize) = 0 /\ Cur * SectorSize <= newpos
        <5>1. Cur \in Int /\ 0 <= Cur /\ SectorSize \in Nat \ {0}
          BY <2>2, GeometryAssumption DEF Sectors
        <5>2. 0 * SectorSize <= Cur * SectorSize /\ Cur * SectorSize \in Int
          BY <5>1, SectorStart
        <5>3. 0 * SectorSize = 0
          BY <5>1
        <5>4. Cur * SectorSize \in Nat
          BY <5>2, <5>3
        <5>5. Sector(Cur * SectorSize) = Cur /\ Offset(Cur * SectorSize) = Cur * SectorSize - Cur * SectorSize
          <6>1. Cur * SectorSize <= Cur * SectorSize /\ Cur * SectorSize < Cur * SectorSize + SectorSize
            BY <5>1, <5>4
          <6>2. QED
            BY <5>1, <5>4, <6>1, SectorUnique
        <5>6. Cur * SectorSize <= newpos
          BY <2>2, CellOf DEF Cur
        <5>7. QED
          BY <5>4, <5>5, <5>6
      <4>5. ~(Cur * SectorSize < NewLength(patch))
        <5>1. ASSUME Cur * SectorSize < NewLength(patch) PROVE FALSE
          <6>1. Cur * SectorSize \in 0 .. NewLength(patch) - 1
            BY <4>3, <4>4, <5>1
          <6>2. fw'[Cur][0] = New(Cur * SectorSize)
            BY <4>2, <4>4, <6>1
          <6>3. 0 \in Offsets
            BY GeometryAssumption DEF Offsets
          <6>4. QED
            BY <4>1, <6>2, <6>3 DEF ErasedImage, Erased, New
        <5>2. QED
          BY <5>1
      <4>6. DoneTo(newpos, fw, patch)
        <5>1. pc = "fwErase" /\ pc \in Body \ {"fwWrite"} /\ en
          BY <3>2 DEF FirmwareErase, Body, RecoveryInv, ProgressOK
        <5>2. QED
          BY <5>1 DEF RecoveryInv, ProgressOK
      <4>7. DoneTo(NewLength(patch), fw, patch)
        BY <2>2, <4>3, <4>4, <4>5, <4>6 DEF DoneTo
      <4>8. NewIsWhole
        BY <4>7, WholeIsDone
      <4>9. QED
        BY <4>8 DEF FirmwareIs
    <3>3. QED
      BY <1>3, <3>1, <3>2
  <2>8. QED
    BY <2>1, <2>2, <2>3, <2>6, <2>7, RewrittenStep
<1>4. QED
  BY <1>1, <1>2, <1>3 DEF Rewrite

LEMMA ResetKeeps ==
  ASSUME NothingFails, TypeInv, RecoveryInv, PromiseInv, Restart \/ Crash
  PROVE  [Promise!Next]_(Promise!vars)
<1>1. /\ pc' = "boot" /\ UNCHANGED <<status, patch>> /\ pc # "flagWrite" /\ status # "BLANK"
  BY DEF Restart, Crash, ResetRAM, flash, NothingFails, PromiseInv, EndOK
<1>2. CASE pc = "fwWrite"
  <2>1. pc \in Body
    BY <1>2 DEF Body
  <2>2. /\ Cur \in Sectors /\ fw \in [Sectors -> Image] /\ status = "UPDATE"
        /\ image[0] # Old(Cur * SectorSize) /\ fw[Cur] = ErasedImage
    BY <1>2, <2>1, InBody DEF PromiseInv, RewriteOK
  <2>3. PICK n \in Offsets : fw' = [fw EXCEPT ![Cur] = Torn(image, n)]
    BY <1>2 DEF Restart, Crash
  <2>4. 0 \in Offsets /\ Erased # Old(Cur * SectorSize)
    BY GeometryAssumption DEF Offsets, Erased, Old
  <2>5. fw'[Cur][0] # Old(Cur * SectorSize) /\ fw[Cur][0] # Old(Cur * SectorSize)
    BY <2>2, <2>3, <2>4 DEF Torn, ErasedImage
  <2>6. FirmwareIs # "old"
    BY <2>2, <2>5, NotOld
  <2>7. FirmwareIs' # "old"
    <3>1. OldImage(Cur)[0] = Old(Cur * SectorSize)
      <4>1. Cur * SectorSize + 0 = Cur * SectorSize
        <5>1. Cur * SectorSize \in Int
          BY <2>2, SectorStart DEF Sectors
        <5>2. QED
          BY <5>1
      <4>2. QED
        BY <2>4, <4>1 DEF OldImage
    <3>2. ~(\A k \in Sectors : fw'[k] = OldImage(k))
      BY <2>2, <2>5, <3>1
    <3>3. QED
      BY <3>2 DEF FirmwareIs, OldImage
  <2>8. QED
    BY <1>1, <1>2, <2>2, <2>6, <2>7, RewrittenStep
<1>3. CASE pc # "fwWrite"
  <2>1. fw' = fw
    BY <1>3 DEF Restart, Crash, flash
  <2>2. FirmwareIs' = FirmwareIs
    BY <1>1, <2>1 DEF FirmwareIs, NewIsWhole
  <2>3. RequestIs' = RequestIs
    BY <1>1 DEF RequestIs
  <2>4. CASE pc = "app"
    <3>1. Promise!Reset
      BY <1>1, <2>2, <2>3, <2>4 DEF Promise!Reset
    <3>2. QED
      BY <3>1 DEF Promise!Next
  <2>5. CASE pc # "app"
    BY <1>1, <2>1, <2>5, QuietStep
  <2>6. QED
    BY <2>4, <2>5
<1>4. QED
  BY <1>2, <1>3

LEMMA PromiseBegins ==
  ASSUME NothingFails
  PROVE  Init => Promise!Init
<1>1. SUFFICES ASSUME Init PROVE Promise!Init
  OBVIOUS
<1>2. patch \in Patches /\ fw = [k \in Sectors |-> OldImage(k)]
  BY <1>1 DEF Init, OldImage
<1>3. NewLength(patch) \in Nat /\ NewLength(patch) > 0
  BY <1>2, NewEnd DEF NothingFails, Finishes
<1>4. 0 \in Nat /\ Sector(0) \in Sectors /\ Offset(0) \in Offsets
  BY <1>2, <1>3, NewCell
<1>5. fw[Sector(0)][Offset(0)] # New(0)
  BY <1>2, <1>4 DEF OldImage, Old, New
<1>6. ~NewIsWhole
  BY <1>3, <1>5 DEF NewIsWhole
<1>7. FirmwareIs = "old"
  BY <1>2, <1>6 DEF FirmwareIs
<1>8. RequestIs = "pending" /\ (pc = "app") = FALSE
  BY <1>1 DEF Init, RequestIs
<1>9. QED
  BY <1>7, <1>8 DEF Promise!Init

(***************************************************************************)
(* The boot loader implements UpgradePromise, for patches that are not     *)
(* refused: the firmware goes from the old one to the new one, the         *)
(* application runs only before or after that, and once mi_iot_execute has *)
(* acknowledged the upgrade the firmware is never touched again, whatever  *)
(* resets come in between.  (That it is some day acknowledged is fairness.)*)
(***************************************************************************)
THEOREM StepsKeepPromise ==
  ASSUME NothingFails
  PROVE  Spec => Promise!Init /\ [][Promise!Next]_(Promise!vars)
<1>1. Init => Promise!Init
  BY PromiseBegins
<1>2. TypeInv /\ RecoveryInv /\ PromiseInv /\ (TypeInv /\ RecoveryInv /\ PromiseInv)' /\ [Next]_vars
        => [Promise!Next]_(Promise!vars)
  <2>1. SUFFICES ASSUME TypeInv, RecoveryInv, PromiseInv, TypeInv', RecoveryInv', PromiseInv',
                        [Next]_vars
                 PROVE  [Promise!Next]_(Promise!vars)
    OBVIOUS
  <2>2. CASE UNCHANGED vars
    <3>1. UNCHANGED <<fw, patch, status, flag, pc>>
      BY <2>2 DEF vars, flash, scratch
    <3>2. FirmwareIs' = FirmwareIs /\ RequestIs' = RequestIs
      BY <3>1 DEF FirmwareIs, NewIsWhole, RequestIs
    <3>3. (pc = "app")' = (pc = "app")
      BY <3>1
    <3>4. QED
      BY <3>2, <3>3 DEF Promise!vars
  <2>3. QED
    BY <2>1, <2>2, ExecuteKeeps, PrepareKeeps, RewriteKeeps, ResetKeeps DEF Next, Step
<1>3. QED
  BY <1>1, <1>2, PromiseHolds, PTL DEF Spec

-----------------------------------------------------------------------------
(***************************************************************************)
(* Write-ahead, with backups that are recycled.  A recycled record names a *)
(* sector that nothing reads from the current sector on; a patch that was  *)
(* cut goes back to the sector of the last record.  Between a recycling    *)
(* and the next record the two differ, and power must not be lost there.   *)
(***************************************************************************)
Unrecorded == {"select", "seaErase", "seaWrite", "stErase"}

\* The patch does not end with an empty run at a sector boundary.
EndsInside(p) == p[Len(p)].extra > 0 \/ Offset(NewLength(p)) # 0

RecyclesSafely ==
  /\ Hypotheses
  /\ CrashPoints \cap Unrecorded = {}
  /\ \A p \in CrashPatches : EndsInside(p)

\* From position n on, nothing reads a sector whose backup is recycled.
NotNeeded(t, p, n) ==
  \A k \in Sectors : t[k].st = "C" =>
    \A j \in 1 .. Len(p) : \A d \in 0 .. p[j].diff - 1 :
      Begin(p)[j] + d >= n => Sector(OldStart(p)[j] + d) # k

\* The position in a run of new bytes.
ExtraLeft ==
  pc \in LoopSteps /\ phase = "extra" =>
    remain <= patch[blk].extra /\ (remain > 0 \/ patch[blk].extra = 0)

\* Only the first chunk of a sector finds it without a backup.
SectorBegun ==
  pc \in {"chunk", "backup"} /\ en /\ patch \in CrashPatches /\ newpos > Cur * SectorSize =>
  table[Cur].st = "S"

RecycledOK ==
  pc \in Body /\ patch \in CrashPatches => NotNeeded(table, patch, Front * SectorSize)

ResumesOK ==
  magic = "SET" /\ pc \notin Unrecorded /\ patch \in CrashPatches /\ Recorded(ftab) # {} =>
  NotNeeded(ftab, patch, ResumeSector(ftab) * SectorSize)

RewriteInv == ExtraLeft /\ SectorBegun /\ RecycledOK /\ ResumesOK

LEMMA RewriteInit == Init => RewriteInv
BY DEF Init, RewriteInv, ExtraLeft, SectorBegun, RecycledOK, ResumesOK, Body, LoopSteps

-----------------------------------------------------------------------------
LEMMA BeginMonotone ==
  ASSUME NEW p \in Patches, NEW i \in 1 .. Len(p) + 1, NEW j \in 1 .. Len(p) + 1, i <= j
  PROVE  Begin(p)[i] <= Begin(p)[j]
<1> DEFINE b == Begin(p)
           n == Len(p)
<1>1. /\ n \in Nat /\ \A k \in 1 .. n + 1 : b[k] \in Nat
      /\ \A k \in 1 .. n : b[k] <= b[k + 1]
  <2>1. /\ n \in Nat \ {0}
        /\ \A k \in 1 .. n : p[k].diff \in Nat /\ p[k].extra \in Nat
    BY PatchParts
  <2>2. \A k \in 1 .. n : b[k + 1] = b[k] + p[k].diff + p[k].extra
    BY BeginParts
  <2>3. \A k \in 1 .. n + 1 : b[k] \in Nat
    BY NewEnd
  <2>4. ASSUME NEW k \in 1 .. n PROVE b[k] <= b[k + 1]
    <3>1. k \in 1 .. n + 1
      BY <2>1
    <3>2. b[k] \in Nat /\ p[k].diff \in Nat /\ p[k].extra \in Nat
      BY <2>1, <2>3, <3>1
    <3>3. b[k + 1] = b[k] + p[k].diff + p[k].extra
      BY <2>2
    <3>4. QED
      BY <3>2, <3>3
  <2>5. QED
    BY <2>1, <2>3, <2>4
<1> HIDE DEF b, n
<1>2. i \in 1 .. n + 1 /\ j \in 1 .. n + 1
  BY DEF n
<1> DEFINE S == {m \in Nat : i + m <= n + 1 => b[i] <= b[i + m]}
<1>3. S \in SUBSET Nat /\ 0 \in S
  BY <1>1, <1>2
<1>4. ASSUME NEW m \in 0 .. (j - i) - 1, m \in S PROVE m + 1 \in S
  <2>1. PICK k \in Int : k = i + m
    BY <1>2
  <2>2. CASE k + 1 <= n + 1
    <3>1. k \in 1 .. n /\ k \in 1 .. n + 1 /\ k + 1 \in 1 .. n + 1
      BY <1>1, <1>2, <2>1, <2>2
    <3>2. b[i] <= b[k]
      BY <1>1, <1>4, <2>1, <3>1
    <3>3. b[i] <= b[k + 1]
      BY <1>1, <1>2, <3>1, <3>2
    <3>4. i + (m + 1) = k + 1
      BY <1>2, <2>1
    <3>5. QED
      BY <3>3, <3>4
  <2>3. CASE ~(k + 1 <= n + 1)
    BY <1>1, <1>2, <2>1, <2>3
  <2>4. QED
    BY <2>2, <2>3
<1>5. PICK m \in Nat : m = j - i /\ i + m = j
  <2>1. j - i \in Nat /\ i + (j - i) = j
    BY <1>2
  <2>2. QED
    BY <2>1
<1>6. \A x \in 0 .. m : x \in S
  <2> HIDE DEF S
  <2>1. \A x \in 0 .. m - 1 : x \in S => x + 1 \in S
    BY <1>4, <1>5
  <2>2. QED
    BY <1>3, <2>1, CountUp
<1>7. m \in S
  <2> HIDE DEF S
  <2>1. m \in 0 .. m
    BY <1>5
  <2>2. QED
    BY <1>6, <2>1
<1>8. QED
  BY <1>2, <1>5, <1>7 DEF b

\* A patch that may be cut reads the sector it rewrites, wherever it stands.
LEMMA ReadHere ==
  ASSUME RecyclesSafely, TypeInv, RecoveryInv, RewriteInv, pc \in Body, patch \in CrashPatches
  PROVE  ReadByPatch(patch, Cur)
<1> DEFINE L == NewLength(patch)
           n == Len(patch)
<1>1. /\ patch \in Patches /\ newpos \in Nat /\ remain \in Nat /\ newpos + remain <= L
      /\ pc \in LoopSteps /\ L \in Nat
  BY InBody, NewEnd
<1>2. \A c \in Nat : c < L => ReadByPatch(patch, Sector(c))
  BY DEF RecyclesSafely, Hypotheses, ReadsAll
<1>3. CASE newpos < L
  BY <1>1, <1>2, <1>3 DEF Cur
<1>4. CASE newpos = L /\ Offset(L) # 0
  <2>1. /\ Sector(L) \in Nat /\ Offset(L) \in Nat /\ L = Sector(L) * SectorSize + Offset(L)
        /\ L < Sector(L) * SectorSize + SectorSize /\ Sector(L) * SectorSize \in Int
    BY <1>1, CellOf, SectorStart DEF Offsets
  <2>2. Sector(L) * SectorSize >= 0
    <3>1. 0 * SectorSize = 0
      BY GeometryAssumption
    <3>2. QED
      BY <2>1, <3>1, SectorStart
  <2>3. /\ L - 1 \in Nat /\ Sector(L) * SectorSize <= L - 1
        /\ L - 1 < Sector(L) * SectorSize + SectorSize
    <3>1. PICK z \in Nat : z = Sector(L) * SectorSize
      BY <2>1, <2>2
    <3>2. PICK o \in Nat : o = Offset(L) /\ o # 0
      BY <1>4, <2>1
    <3>3. L = z + o /\ L < z + SectorSize
      BY <2>1, <3>1, <3>2
    <3>4. L - 1 \in Nat /\ z <= L - 1 /\ L - 1 < z + SectorSize
      BY <3>1, <3>2, <3>3, GeometryAssumption
    <3>5. QED
      BY <3>1, <3>4
  <2>4. Sector(L - 1) = Sector(L)
    BY <2>1, <2>3, SectorUnique
  <2>5. L - 1 < L
    BY <1>1
  <2>6. QED
    BY <1>2, <1>4, <2>3, <2>4, <2>5 DEF Cur
<1>5. CASE newpos = L /\ patch[n].extra > 0
  <2>1. /\ n \in Nat \ {0} /\ blk \in 1 .. n /\ remain = 0 /\ phase \in {"diff", "extra"}
        /\ patch[n].extra \in Nat /\ patch[n].diff \in Nat
        /\ patch[blk].extra \in Nat /\ patch[blk].diff \in Nat
    <3>1. n \in Nat \ {0} /\ blk \in 1 .. n /\ remain = 0 /\ phase \in {"diff", "extra"}
      BY <1>1, <1>5, PatchParts DEF TypeInv, TypeOK
    <3>2. n \in 1 .. n
      BY <3>1
    <3>3. QED
      BY <1>1, <3>1, <3>2, PatchParts
  <2>2. /\ n \in 1 .. n + 1 /\ n + 1 \in 1 .. n + 1 /\ n \in 1 .. n
        /\ blk \in 1 .. n + 1 /\ blk + 1 \in 1 .. n + 1
    BY <2>1
  <2>3. /\ Begin(patch)[n + 1] = Begin(patch)[n] + patch[n].diff + patch[n].extra
        /\ Begin(patch)[blk + 1] = Begin(patch)[blk] + patch[blk].diff + patch[blk].extra
        /\ Begin(patch)[n + 1] = L
        /\ Begin(patch)[n] \in Nat /\ Begin(patch)[blk] \in Nat /\ Begin(patch)[blk + 1] \in Nat
    BY <1>1, <2>1, <2>2, BeginParts, NewEnd
  <2>4. Begin(patch)[n] < L
    <3>1. PICK b \in Nat, d \in Nat, x \in Nat :
            b = Begin(patch)[n] /\ d = patch[n].diff /\ x = patch[n].extra
      BY <2>1, <2>3
    <3>2. L = b + d + x /\ x > 0
      BY <1>5, <2>3, <3>1
    <3>3. QED
      BY <3>1, <3>2
  <2>5. newpos + remain = IF phase = "diff" THEN Begin(patch)[blk] + patch[blk].diff
                                            ELSE Begin(patch)[blk + 1]
    BY <1>1 DEF TypeInv, CursorOK
  <2>6. CASE blk < n
    <3>1. blk + 1 <= n
      BY <2>1, <2>6
    <3>2. Begin(patch)[blk + 1] <= Begin(patch)[n]
      BY <1>1, <2>2, <3>1, BeginMonotone
    <3>3. QED
      BY <1>1, <1>5, <2>1, <2>3, <2>4, <2>5, <3>2
  <2>7. CASE blk = n
    <3>1. phase = "extra" => patch[blk].extra = 0
      BY <1>1, <2>1 DEF RewriteInv, ExtraLeft
    <3>2. phase = "diff"
      BY <1>5, <2>1, <2>7, <3>1
    <3>3. QED
      BY <1>1, <1>5, <2>1, <2>3, <2>5, <2>7, <3>2
  <2>8. QED
    BY <2>1, <2>6, <2>7
<1>6. newpos = L => Offset(L) # 0 \/ patch[n].extra > 0
  BY DEF RecyclesSafely, EndsInside
<1>7. QED
  BY <1>1, <1>3, <1>4, <1>5, <1>6

\* What check_and_recycle_old_backup cancels, nothing reads any more.
LEMMA RecycledIsDone ==
  ASSUME Hypotheses, TypeInv, RecoveryInv, RewriteInv, pc \in Body, NEW k \in Sectors,
         ~StillRead(patch, blk, oldpos, k),
         NEW j \in 1 .. Len(patch), NEW d \in 0 .. patch[j].diff - 1,
         Begin(patch)[j] + d >= newpos
  PROVE  Sector(OldStart(patch)[j] + d) # k
<1> DEFINE q == OldStart(patch)[j] + d
<1>1. /\ patch \in Patches /\ newpos \in Nat /\ remain \in Nat /\ pc \in LoopSteps
      /\ oldpos \in Int
  BY InBody
<1>2. /\ Len(patch) \in Nat \ {0} /\ blk \in 1 .. Len(patch) /\ phase \in {"diff", "extra"}
  BY <1>1, PatchParts DEF TypeInv, TypeOK
<1>3. /\ patch[j].diff \in Nat /\ patch[j].extra \in Nat
      /\ patch[blk].diff \in Nat /\ patch[blk].extra \in Nat
      /\ OldStart(patch)[j] \in Int /\ OldStart(patch)[blk] \in Int
  BY <1>1, <1>2, PatchParts, OldStartStep
<1>4. /\ j \in 1 .. Len(patch) + 1 /\ j + 1 \in 1 .. Len(patch) + 1 /\ blk \in 1 .. Len(patch) + 1
      /\ blk + 1 \in 1 .. Len(patch) + 1
  BY <1>2
<1>5. /\ Begin(patch)[j + 1] = Begin(patch)[j] + patch[j].diff + patch[j].extra
      /\ Begin(patch)[j] \in Nat /\ Begin(patch)[j + 1] \in Nat
      /\ Begin(patch)[blk] \in Nat /\ Begin(patch)[blk + 1] \in Nat
      /\ Begin(patch)[blk + 1] = Begin(patch)[blk] + patch[blk].diff + patch[blk].extra
  BY <1>1, <1>2, <1>4, BeginParts, NewEnd
<1>6. newpos + remain = IF phase = "diff" THEN Begin(patch)[blk] + patch[blk].diff
                                          ELSE Begin(patch)[blk + 1]
  BY <1>1 DEF TypeInv, CursorOK
<1>7. /\ phase = "diff" => /\ oldpos >= OldStart(patch)[blk]
                           /\ oldpos + remain = OldStart(patch)[blk] + patch[blk].diff
      /\ phase = "extra" => oldpos = OldStart(patch)[blk] + patch[blk].diff
  BY <1>1 DEF RecoveryInv, OldPosition
<1>a. phase = "extra" => remain <= patch[blk].extra
  BY <1>1 DEF RewriteInv, ExtraLeft
<1>b. PICK B \in Nat, D \in Nat, X \in Nat, O \in Int :
        B = Begin(patch)[blk] /\ D = patch[blk].diff /\ X = patch[blk].extra /\ O = OldStart(patch)[blk]
  BY <1>3, <1>5
<1>e. newpos \in Nat /\ remain \in Nat /\ oldpos \in Int
  BY <1>1
<1>c. /\ newpos >= B
      /\ phase = "diff" => newpos - B = oldpos - O
      /\ phase = "extra" => newpos >= B + D
  <2>1. CASE phase = "diff"
    <3>1. newpos + remain = B + D /\ oldpos >= O /\ oldpos + remain = O + D
      BY <1>6, <1>7, <1>b, <2>1
    <3>2. newpos >= B /\ newpos - B = oldpos - O
      BY <1>e, <3>1
    <3>3. QED
      BY <2>1, <3>2
  <2>2. CASE phase = "extra"
    <3>1. newpos + remain = B + D + X /\ remain <= X
      BY <1>5, <1>6, <1>a, <1>b, <2>2
    <3>2. newpos >= B + D /\ newpos >= B
      BY <1>e, <3>1
    <3>3. QED
      BY <2>2, <3>2
  <2>3. QED
    BY <1>2, <2>1, <2>2
<1>d. q \in Nat
  <2>1. OldStart(patch)[j] >= 0
    BY <1>1 DEF Hypotheses, InsidePool
  <2>2. PICK o \in Int, n \in Nat : o = OldStart(patch)[j] /\ n = patch[j].diff
    BY <1>3
  <2>3. o \in Nat /\ d \in 0 .. n - 1
    BY <2>1, <2>2
  <2>4. o + d \in Nat
    BY <2>3
  <2>5. QED
    BY <2>2, <2>4
<1>8. ASSUME Sector(q) = k, q >= (IF j = blk THEN oldpos ELSE OldStart(patch)[j]), blk <= j
      PROVE  FALSE
  <2>1. q \in Int /\ q < OldStart(patch)[j] + patch[j].diff
    <3>1. PICK o \in Int, n \in Nat : o = OldStart(patch)[j] /\ n = patch[j].diff
      BY <1>3
    <3>2. o + d \in Int /\ o + d < o + n
      BY <3>1
    <3>3. QED
      BY <3>1, <3>2
  <2>2. k * SectorSize <= q /\ q < k * SectorSize + SectorSize /\ k * SectorSize \in Int
    <3>1. k \in Int
      BY DEF Sectors
    <3>2. k * SectorSize \in Int
      BY <3>1, SectorStart
    <3>3. QED
      BY <1>8, <1>d, <3>2, CellOf
  <2>3. Touches(k, IF j = blk THEN oldpos ELSE OldStart(patch)[j], OldStart(patch)[j] + patch[j].diff)
    <3>1. PICK e \in Int : e = OldStart(patch)[j] + patch[j].diff
      BY <1>3
    <3>2. ASSUME NEW x \in Int, q >= x
          PROVE  Touches(k, x, OldStart(patch)[j] + patch[j].diff)
      <4>1. SectorSize \in Int /\ q <= e
        BY <2>1, <3>1, GeometryAssumption
      <4>2. QED
        BY <2>1, <2>2, <3>1, <3>2, <4>1, TouchesAround
    <3>3. QED
      BY <1>1, <1>3, <1>8, <3>2
  <2>4. j \in blk .. Len(patch)
    BY <1>2, <1>8
  <2>5. QED
    BY <2>3, <2>4 DEF StillRead
<1>9. CASE j < blk
  <2>1. Begin(patch)[j + 1] <= Begin(patch)[blk]
    <3>1. j + 1 <= blk
      BY <1>2, <1>9
    <3>2. QED
      BY <1>1, <1>4, <3>1, BeginMonotone
  <2>2. Begin(patch)[blk] <= newpos
    BY <1>b, <1>c
  <2>3. PICK E \in Nat, C \in Nat, V \in Nat :
          E = Begin(patch)[j + 1] /\ C = Begin(patch)[j] /\ V = patch[j].extra
    BY <1>3, <1>5
  <2>4. PICK D2 \in Nat : D2 = patch[j].diff
    BY <1>3
  <2>5. E = C + D2 + V
    BY <1>5, <2>3, <2>4
  <2>6. E <= newpos
    <3>1. E <= B
      BY <1>b, <2>1, <2>3
    <3>2. B <= newpos
      BY <1>b, <2>2
    <3>3. QED
      BY <1>e, <3>1, <3>2
  <2>7. C + d >= newpos
    BY <2>3
  <2>8. d < D2 /\ d \in Int
    BY <2>4
  <2>9. QED
    BY <1>e, <2>5, <2>6, <2>7, <2>8
<1>10. CASE j = blk
  <2>1. CASE phase = "extra"
    <3>1. B + d >= newpos /\ d < D /\ newpos >= B + D
      BY <1>3, <1>10, <1>b, <1>c, <2>1
    <3>2. PICK e \in Int, c \in Int : e = d /\ c = newpos
      BY <1>b, <1>e
    <3>3. B + e >= c /\ e < D /\ c >= B + D
      BY <3>1, <3>2
    <3>4. QED
      BY <3>3
  <2>2. CASE phase = "diff"
    <3>1. q >= oldpos
      <4>1. B + d >= newpos /\ newpos - B = oldpos - O /\ q = O + d
        <5>1. B + d >= newpos
          BY <1>10, <1>b
        <5>2. q = O + d
          BY <1>10, <1>b
        <5>3. QED
          BY <1>c, <2>2, <5>1, <5>2
      <4>2. QED
        BY <1>e, <4>1
    <3>2. QED
      BY <1>8, <1>10, <3>1
  <2>3. QED
    BY <1>2, <2>1, <2>2
<1>11. CASE j > blk
  <2>1. q >= OldStart(patch)[j]
    BY <1>3
  <2>2. QED
    BY <1>2, <1>8, <1>11, <2>1
<1>12. QED
  BY <1>2, <1>9, <1>10, <1>11

-----------------------------------------------------------------------------
(* The steps keep what recycling promises.                                   *)

LEMMA NotNeededLater ==
  ASSUME NEW t, NEW p \in Patches, NEW n \in Int, NEW m \in Int, n <= m, NotNeeded(t, p, n)
  PROVE  NotNeeded(t, p, m)
<1>1. ASSUME NEW j \in 1 .. Len(p), NEW d \in 0 .. p[j].diff - 1, Begin(p)[j] + d >= m
      PROVE  Begin(p)[j] + d >= n
  <2>1. Begin(p)[j] \in Nat /\ d \in Int
    <3>1. j \in 1 .. Len(p) + 1
      BY PatchParts
    <3>2. QED
      BY <3>1, NewEnd
  <2>2. QED
    BY <1>1, <2>1
<1>2. QED
  BY <1>1 DEF NotNeeded

LEMMA ResumesSame ==
  ASSUME RewriteInv, UNCHANGED <<ftab, magic, patch>>, pc \notin Unrecorded
  PROVE  ResumesOK'
BY DEF RewriteInv, ResumesOK

\* Steps to a place outside the loop.
LEMMA OutsideRewrite ==
  ASSUME pc' \notin LoopSteps, ResumesOK'
  PROVE  RewriteInv'
<1>1. pc' \notin Body /\ pc' \notin {"chunk", "backup"}
  BY DEF LoopSteps, Body
<1>2. QED
  BY <1>1 DEF RewriteInv, ExtraLeft, SectorBegun, RecycledOK

\* Steps inside the body of the loop that leave position and records alone.
LEMMA BodyRewrite ==
  ASSUME RewriteInv, pc \in Body, pc' \in Body \ {"chunk", "backup"}, ResumesOK',
         UNCHANGED <<patch, phase, remain, blk, newpos, lastbk, table>>, en' = en
  PROVE  RewriteInv'
<1>1. pc \in LoopSteps /\ pc' \in LoopSteps /\ pc' \in Body
  BY DEF Body, LoopSteps
<1>2. Cur' = Cur
  BY DEF Cur
<1>3. Front' = Front
  <2>1. CASE en
    BY <1>2, <2>1 DEF Front
  <2>2. CASE ~en
    BY <2>2 DEF Front
  <2>3. QED
    BY <2>1, <2>2
<1>4. RecycledOK'
  BY <1>1, <1>3 DEF RewriteInv, RecycledOK
<1>5. ExtraLeft' /\ SectorBegun'
  BY <1>1 DEF RewriteInv, ExtraLeft, SectorBegun
<1>6. QED
  BY <1>4, <1>5 DEF RewriteInv

LEMMA OutsideSteps ==
  ASSUME Hypotheses, TypeInv, RecoveryInv, RewriteInv,
         Execute \/ RecycleFails \/ PatchRefused \/ Clear \/ Restart \/ Crash,
         CrashPoints \cap Unrecorded = {}
  PROVE  RewriteInv'
<1>1. pc' \notin LoopSteps
  BY DEF Execute, Boot, FlagErase, FlagWrite, RecycleFails, PatchRefused, Fail, SetStatus, Goto, Clear,
         Restart, Crash, ResetRAM, LoopSteps, RecoveryInv, StatusOK
<1>2. CASE Clear
  <2>1. ResumesOK'
    BY <1>2 DEF Clear, ResumesOK
  <2>2. QED
    BY <1>1, <2>1, OutsideRewrite
<1>3. CASE Crash
  <2>1. pc \notin Unrecorded /\ UNCHANGED <<ftab, magic, patch>>
    BY <1>3 DEF Crash, Hypotheses, Unsaved
  <2>2. QED
    BY <1>1, <2>1, ResumesSame, OutsideRewrite
<1>4. CASE Execute \/ RecycleFails \/ PatchRefused \/ Restart
  <2>1. pc \notin Unrecorded /\ UNCHANGED <<ftab, magic, patch>>
    BY <1>4 DEF Execute, Boot, FlagErase, FlagWrite, RecycleFails, PatchRefused, Restart, flash, Unrecorded
  <2>2. QED
    BY <1>1, <2>1, ResumesSame, OutsideRewrite
<1>5. QED
  BY <1>2, <1>3, <1>4

\* With every sector before m on record, and m itself, the scan ends at m.
LEMMA LastRecord ==
  ASSUME NEW t, NEW p \in CrashPatches, NEW m \in Sectors, FrontAt(t, m, p), t[m].st = "S"
  PROVE  Greatest(Recorded(t)) = m
<1>1. m \in Recorded(t)
  <2>1. ASSUME NEW j \in 0 .. m PROVE t[j].st # "U"
    <3>1. j \in Sectors /\ (j < m \/ j = m)
      BY GeometryAssumption DEF Sectors
    <3>2. QED
      BY <3>1 DEF FrontAt
  <2>2. QED
    BY <2>1 DEF Recorded
<1>2. ASSUME NEW k \in Recorded(t) PROVE k <= m
  <2>1. k \in Sectors /\ t[k].st # "U"
    BY DEF Recorded, Sectors
  <2>2. ~(k > m)
    BY <2>1 DEF FrontAt
  <2>3. QED
    BY <2>1, <2>2 DEF Sectors
<1>3. Recorded(t) \in SUBSET Sectors
  BY DEF Recorded
<1>4. Greatest(Recorded(t)) \in Recorded(t) /\ m <= Greatest(Recorded(t))
  BY <1>1, <1>3, GreatestIsUpper
<1>5. QED
  BY <1>2, <1>3, <1>4 DEF Sectors

LEMMA PrepareRewrite ==
  ASSUME Hypotheses, TypeInv, RecoveryInv, RewriteInv, RecoveryInv', Prepare
  PROVE  RewriteInv'
<1>1. CASE Open
  <2>1. /\ pc = "open" /\ pc' \in {"app", "resume"} /\ phase' = "diff"
        /\ UNCHANGED <<ftab, magic, patch>>
    BY <1>1 DEF Open, Goto, flash
  <2>2. ResumesOK'
    BY <2>1, ResumesSame DEF Unrecorded
  <2>3. QED
    BY <2>1, <2>2 DEF RewriteInv, ExtraLeft, SectorBegun, RecycledOK, Body
<1>2. CASE Start \/ MagicErase
  <2>1. /\ pc \in {"resume", "magicErase"} /\ pc' \in {"magicErase", "magicWrite"}
        /\ UNCHANGED <<patch, phase, remain, blk>>
    BY <1>2 DEF Start, MagicErase, Goto, flash, cursor
  <2>2. ResumesOK'
    <3>1. CASE Start
      BY <2>1, <3>1, ResumesSame DEF Start, flash, Unrecorded
    <3>2. CASE MagicErase
      BY <3>2 DEF MagicErase, ResumesOK
    <3>3. QED
      BY <1>2, <3>1, <3>2
  <2>3. ExtraLeft'
    BY <2>1 DEF RewriteInv, ExtraLeft, LoopSteps
  <2>4. QED
    BY <2>1, <2>2, <2>3 DEF RewriteInv, SectorBegun, RecycledOK, Body
<1>3. CASE MagicWrite
  <2>1. /\ pc = "magicWrite" /\ pc' = "chunk" /\ UNCHANGED <<patch, phase, remain, blk, newpos, ftab, table>>
    BY <1>3 DEF MagicWrite, Goto, cursor, backup
  <2>2. ftab = NoEntries /\ table = NoEntries /\ newpos = 0
    BY <2>1 DEF RecoveryInv, MagicSet, TableRight, Starting
  <2>3. \A k \in Sectors : NoEntries[k].st = "U"
    BY DEF NoEntries, Unused
  <2>4. Recorded(ftab') = {}
    BY <2>1, <2>2, <2>3, GeometryAssumption DEF Recorded, Sectors
  <2>5. ResumesOK'
    BY <2>4 DEF ResumesOK
  <2>6. RecycledOK'
    BY <2>1, <2>2, <2>3 DEF RecycledOK, NotNeeded
  <2>7. ExtraLeft'
    BY <2>1 DEF RewriteInv, ExtraLeft, LoopSteps
  <2>8. SectorBegun'
    <3>1. newpos' = 0 /\ Cur' = Sector(0)
      <4>1. newpos' = 0
        BY <2>1, <2>2
      <4>2. QED
        BY <4>1 DEF Cur
    <3>2. 0 * SectorSize = 0 /\ Sector(0) * SectorSize \in Int /\ 0 <= Sector(0) * SectorSize
      <4>1. Sector(0) \in Nat
        BY CellOf
      <4>2. 0 * SectorSize = 0
        BY GeometryAssumption
      <4>3. QED
        BY <4>1, <4>2, SectorStart
    <3>3. ~(newpos' > Cur' * SectorSize)
      BY <3>1, <3>2
    <3>4. QED
      BY <3>3 DEF SectorBegun
  <2>9. QED
    BY <2>5, <2>6, <2>7, <2>8 DEF RewriteInv
<1>4. CASE Resume
  <2>1. /\ pc = "resume" /\ pc' = "chunk" /\ table' = ftab /\ ~en' /\ magic = "SET"
        /\ UNCHANGED <<patch, phase, remain, blk, newpos, ftab, magic>>
        /\ Recorded(ftab) # {} => lastbk' = ResumeSector(ftab)
    BY <1>4 DEF Resume, Goto, flash
  <2>2. ResumesOK'
    BY <2>1, ResumesSame DEF Unrecorded
  <2>3. SectorBegun'
    BY <2>1 DEF SectorBegun
  <2>4. ExtraLeft'
    BY <2>1 DEF RewriteInv, ExtraLeft, LoopSteps
  <2>5. RecycledOK'
    <3>1. SUFFICES ASSUME patch \in CrashPatches PROVE NotNeeded(ftab, patch, lastbk' * SectorSize)
      BY <2>1 DEF RecycledOK, Front
    <3>2. ftab[0].st # "U"
      BY <2>1, <3>1 DEF RecoveryInv, MagicSet, Running, Failing, Body
    <3>3. Recorded(ftab) # {}
      <4>1. 0 \in Sectors /\ \A j \in 0 .. 0 : j = 0
        BY GeometryAssumption DEF Sectors
      <4>2. QED
        BY <3>2, <4>1 DEF Recorded
    <3>4. QED
      BY <2>1, <3>1, <3>3 DEF RewriteInv, ResumesOK, Unrecorded
  <2>6. QED
    BY <2>2, <2>3, <2>4, <2>5 DEF RewriteInv
<1>5. QED
  BY <1>1, <1>2, <1>3, <1>4 DEF Prepare

LEMMA BackUpRewrite ==
  ASSUME RecyclesSafely, TypeInv, RecoveryInv, RewriteInv, RecoveryInv', BackUp, ~RecycleFails
  PROVE  RewriteInv'
<1>1. CASE AlreadyBackedUp
  <2>1. /\ pc = "backup" /\ pc' = "patch"
        /\ UNCHANGED <<patch, phase, remain, blk, newpos, lastbk, table, ftab, magic>>
    BY <1>1 DEF AlreadyBackedUp, Goto, flash, cursor, backup
  <2>2. en' = en
    BY <1>1, Zenon DEF AlreadyBackedUp, cursor
  <2>3. ResumesOK'
    BY <2>1, ResumesSame DEF Unrecorded
  <2>4. pc \in Body /\ pc' \in Body \ {"chunk", "backup"}
    BY <2>1 DEF Body
  <2>5. QED
    BY <2>1, <2>2, <2>3, <2>4, BodyRewrite
<1>2. CASE TableErase
  <2>1. /\ pc \in {"recErase", "stErase"} /\ pc' \in {"recWrite", "stWrite"} /\ magic' = "BLANK"
        /\ UNCHANGED <<patch, phase, remain, blk, newpos, lastbk, table>>
    BY <1>2 DEF TableErase, Goto, cursor, backup
  <2>2. en' = en
    BY <1>2, Zenon DEF TableErase, cursor
  <2>3. ResumesOK'
    BY <2>1 DEF ResumesOK
  <2>4. pc \in Body /\ pc' \in Body \ {"chunk", "backup"}
    BY <2>1 DEF Body
  <2>5. QED
    BY <2>1, <2>2, <2>3, <2>4, BodyRewrite
<1>3. CASE TableWrite
  <2>1. /\ pc \in {"recWrite", "stWrite"} /\ ftab' = table
        /\ pc' = IF pc = "recWrite" THEN "select" ELSE "patch"
        /\ UNCHANGED <<patch, phase, remain, blk, newpos, lastbk, table>>
    BY <1>3 DEF TableWrite, Goto, cursor
  <2>2. en' = en
    BY <1>3, Zenon DEF TableWrite, cursor
  <2>3. pc \in Body /\ pc' \in Body \ {"chunk", "backup"} /\ pc # "chunk"
    BY <2>1 DEF Body
  <2>4. ResumesOK'
    <3>1. CASE pc = "recWrite"
      BY <2>1, <3>1 DEF ResumesOK, Unrecorded
    <3>2. CASE pc = "stWrite"
      <4>1. SUFFICES ASSUME patch \in CrashPatches
                     PROVE  NotNeeded(table, patch, ResumeSector(table) * SectorSize)
        BY <2>1 DEF ResumesOK
      <4>2. /\ Cur \in Sectors /\ FrontAt(table, Front, patch) /\ Front = Cur
        BY <2>3, InBody
      <4>3. ReadByPatch(patch, Cur)
        BY <2>3, <4>1, ReadHere
      <4>4. table[Cur].st = "S"
        BY <3>2, <4>3 DEF RecoveryInv, TableRight
      <4>5. Greatest(Recorded(table)) = Cur
        BY <4>1, <4>2, <4>4, LastRecord
      <4>6. ResumeSector(table) = Cur
        BY <4>4, <4>5 DEF ResumeSector
      <4>7. QED
        BY <2>3, <4>1, <4>2, <4>6 DEF RewriteInv, RecycledOK
    <3>3. QED
      BY <2>1, <3>1, <3>2
  <2>5. QED
    BY <2>1, <2>2, <2>3, <2>4, BodyRewrite
<1>4. CASE Select
  <2>1. /\ pc \in {"select", "backup"} /\ pc' \in {"seaErase", "patch"}
        /\ UNCHANGED <<patch, phase, remain, blk, newpos, lastbk, table, ftab, magic>>
        /\ pc' = "patch" => ~(ReadByPatch(patch, Cur) /\ Free # {})
    BY <1>4 DEF Select, Goto, flash, cursor
  <2>2. en' = en
    BY <1>4, Zenon DEF Select, cursor
  <2>3. pc \in Body /\ pc' \in Body \ {"chunk", "backup"}
    BY <2>1 DEF Body
  <2>4. ResumesOK'
    <3>1. CASE pc' = "seaErase"
      BY <3>1 DEF ResumesOK, Unrecorded
    <3>2. CASE pc = "backup"
      BY <2>1, <3>2, ResumesSame DEF Unrecorded
    <3>3. CASE pc = "select" /\ pc' = "patch"
      <4>1. Free # {}
        BY <3>3 DEF RecoveryInv, SlotsRight
      <4>2. patch \notin CrashPatches
        BY <2>1, <2>3, <3>3, <4>1, ReadHere
      <4>3. QED
        BY <2>1, <4>2 DEF ResumesOK
    <3>4. QED
      BY <2>1, <3>1, <3>2, <3>3
  <2>5. QED
    BY <2>1, <2>2, <2>3, <2>4, BodyRewrite
<1>5. CASE SeaErase
  <2>1. /\ pc = "seaErase" /\ pc' = "seaWrite"
        /\ UNCHANGED <<patch, phase, remain, blk, newpos, lastbk, table>>
    BY <1>5 DEF SeaErase, Goto, cursor, backup
  <2>2. en' = en
    BY <1>5, Zenon DEF SeaErase, cursor
  <2>3. ResumesOK' /\ pc \in Body /\ pc' \in Body \ {"chunk", "backup"}
    BY <2>1 DEF ResumesOK, Unrecorded, Body
  <2>4. QED
    BY <2>1, <2>2, <2>3, BodyRewrite
<1>6. CASE SeaWrite
  <2>1. /\ pc = "seaWrite" /\ pc' = "stErase"
        /\ table' = [table EXCEPT ![Cur] = [st |-> "S", slot |-> slot]]
        /\ UNCHANGED <<patch, phase, remain, blk, newpos, lastbk>>
    BY <1>6 DEF SeaWrite, Goto, cursor
  <2>2. pc \in Body /\ pc \in LoopSteps /\ pc' \in LoopSteps /\ pc # "chunk"
    BY <2>1 DEF Body, LoopSteps
  <2>3. /\ Cur \in Sectors /\ table \in [Sectors -> Entry] /\ Front = Cur /\ en
    BY <2>2, InBody
  <2>4. en' = en
    BY <1>6, Zenon DEF SeaWrite, cursor
  <2>5. Front' = Cur
    BY <2>1, <2>3, <2>4 DEF Front, Cur
  <2>6. \A k \in Sectors : table'[k].st = "C" => table[k].st = "C"
    BY <2>1, <2>3
  <2>7. RecycledOK'
    BY <2>1, <2>2, <2>3, <2>5, <2>6 DEF RewriteInv, RecycledOK, NotNeeded
  <2>8. ResumesOK' /\ SectorBegun'
    BY <2>1 DEF ResumesOK, Unrecorded, SectorBegun
  <2>9. ExtraLeft'
    BY <2>1, <2>2 DEF RewriteInv, ExtraLeft
  <2>10. QED
    BY <2>7, <2>8, <2>9 DEF RewriteInv
<1>7. CASE Recycle
  <2> DEFINE victim == Least(Recyclable)
  <2>1. /\ pc = "backup" /\ pc' = "recErase" /\ table[Cur].st # "S" /\ Recyclable # {}
        /\ table' = [table EXCEPT ![victim].st = "C"]
        /\ UNCHANGED <<patch, phase, remain, blk, newpos, lastbk, ftab, magic>>
    BY <1>7 DEF Recycle, Goto, flash, cursor
  <2>2. pc \in Body /\ pc \in LoopSteps /\ pc' \in LoopSteps /\ pc # "chunk"
    BY <2>1 DEF Body, LoopSteps
  <2>3. /\ Cur \in Sectors /\ table \in [Sectors -> Entry] /\ Front = Cur /\ en /\ newpos \in Nat
    BY <2>2, InBody
  <2>4. en' = en
    BY <1>7, Zenon DEF Recycle, cursor
  <2>5. Front' = Cur
    BY <2>1, <2>3, <2>4 DEF Front, Cur
  <2>6. victim \in Sectors /\ ~StillRead(patch, blk, oldpos, victim)
    <3>1. Recyclable \in SUBSET Nat
      BY DEF Recyclable, Sectors
    <3>2. victim \in Recyclable
      BY <2>1, <3>1, LeastInSet
    <3>3. QED
      BY <3>2 DEF Recyclable
  <2>7. RecycledOK'
    <3>1. SUFFICES ASSUME patch \in CrashPatches PROVE NotNeeded(table', patch, Cur * SectorSize)
      BY <2>1, <2>5 DEF RecycledOK
    <3>2. Cur * SectorSize <= newpos /\ Cur * SectorSize \in Int
      <4>1. Cur \in Int
        BY <2>3 DEF Sectors
      <4>2. QED
        BY <2>3, <4>1, SectorStart, CellOf DEF Cur
    <3>3. ~(newpos > Cur * SectorSize)
      BY <2>1, <2>3, <3>1 DEF RewriteInv, SectorBegun
    <3>4. newpos = Cur * SectorSize
      BY <2>3, <3>2, <3>3
    <3>5. ASSUME NEW k \in Sectors, table'[k].st = "C", NEW j \in 1 .. Len(patch),
                 NEW d \in 0 .. patch[j].diff - 1, Begin(patch)[j] + d >= Cur * SectorSize
          PROVE  Sector(OldStart(patch)[j] + d) # k
      <4>1. CASE k = victim
        BY <2>2, <2>6, <3>4, <3>5, <4>1, RecycledIsDone DEF RecyclesSafely
      <4>2. CASE k # victim
        <5>1. table[k].st = "C"
          BY <2>1, <2>3, <2>6, <3>5, <4>2
        <5>2. NotNeeded(table, patch, Cur * SectorSize)
          BY <2>2, <2>3, <3>1 DEF RewriteInv, RecycledOK
        <5>3. QED
          BY <3>5, <5>1, <5>2 DEF NotNeeded
      <4>3. QED
        BY <4>1, <4>2
    <3>6. QED
      BY <3>5 DEF NotNeeded
  <2>8. ResumesOK'
    BY <2>1, ResumesSame DEF Unrecorded
  <2>9. ExtraLeft' /\ SectorBegun'
    BY <2>1, <2>2 DEF RewriteInv, ExtraLeft, SectorBegun
  <2>10. QED
    BY <2>7, <2>8, <2>9 DEF RewriteInv
<1>8. QED
  BY <1>1, <1>2, <1>3, <1>4, <1>5, <1>6, <1>7 DEF BackUp

\* The end of the body of the loop.
LEMMA AdvanceRewrite ==
  ASSUME RecyclesSafely, TypeInv, RecoveryInv, RewriteInv, pc \in {"chunk", "patch", "fwWrite"},
         Advance, UNCHANGED <<patch, ftab, magic, table, lastbk>>, en' = en, pc = "chunk" => ~en
  PROVE  RewriteInv'
<1>1. pc \in Body /\ pc \in LoopSteps /\ pc \notin Unrecorded
  BY DEF Body, LoopSteps, Unrecorded
<1>2. /\ patch \in Patches /\ remain \in Nat /\ Temp \in 0 .. remain /\ Cur \in Sectors
      /\ Front \in Sectors /\ newpos \in Nat
  BY <1>1, InBody
<1>3. /\ pc' \in {"chunk", "clear"} /\ newpos' \in Nat
      /\ Cur' = Cur \/ (Cur' = Cur + 1 /\ newpos' = (Cur + 1) * SectorSize)
      /\ Cur' \in Sectors
  BY <1>1, AdvanceMoves
<1>4. ResumesOK'
  BY <1>1, ResumesSame
<1>5. CASE pc' = "clear"
  BY <1>4, <1>5, OutsideRewrite DEF LoopSteps
<1>6. CASE pc' = "chunk"
  <2>1. ExtraLeft'
    <3>1. blk \in 1 .. Len(patch) /\ phase \in {"diff", "extra"}
      BY <1>2, PatchParts DEF TypeInv, TypeOK
    <3>2. patch[blk].extra \in Nat
      BY <1>2, <3>1, PatchParts
    <3>3. CASE remain - Temp # 0
      <4>1. remain' = remain - Temp /\ UNCHANGED <<phase, blk, patch>>
        BY <3>3 DEF Advance
      <4>2. phase = "extra" => remain <= patch[blk].extra
        BY <1>1 DEF RewriteInv, ExtraLeft
      <4>3. PICK x \in Nat : x = patch[blk].extra
        BY <3>2
      <4>4. phase = "extra" => remain' <= x /\ remain' > 0
        BY <1>2, <3>3, <4>1, <4>2, <4>3
      <4>5. QED
        BY <4>1, <4>3, <4>4 DEF ExtraLeft
    <3>4. CASE remain - Temp = 0 /\ phase = "diff"
      <4>1. phase' = "extra" /\ remain' = patch[blk].extra /\ UNCHANGED <<blk, patch>>
        BY <3>4 DEF Advance
      <4>2. QED
        BY <3>2, <4>1 DEF ExtraLeft
    <3>5. CASE remain - Temp = 0 /\ phase = "extra"
      <4>1. phase' = "diff"
        BY <1>6, <3>5 DEF Advance, Goto
      <4>2. QED
        BY <4>1 DEF ExtraLeft
    <3>6. QED
      BY <3>1, <3>3, <3>4, <3>5
  <2>2. SectorBegun'
    <3>1. SUFFICES ASSUME en', patch \in CrashPatches, newpos' > Cur' * SectorSize
                   PROVE  table[Cur'].st = "S"
      BY DEF SectorBegun
    <3>2. en /\ pc \in {"patch", "fwWrite"}
      BY <3>1
    <3>3. CASE Cur' = Cur
      <4>1. ReadByPatch(patch, Cur)
        BY <1>1, <3>1, ReadHere
      <4>2. QED
        BY <3>2, <3>3, <4>1 DEF RecoveryInv, TableRight
    <3>4. CASE Cur' = Cur + 1 /\ newpos' = (Cur + 1) * SectorSize
      <4>1. newpos' = Cur' * SectorSize
        BY <3>4
      <4>2. QED
        BY <1>3, <3>1, <4>1
    <3>5. QED
      BY <1>3, <3>3, <3>4
  <2>3. Front' = Front \/ (Front = Cur /\ Front' = Cur')
    <3>1. CASE en
      BY <3>1 DEF Front
    <3>2. CASE ~en
      BY <3>2 DEF Front
    <3>3. QED
      BY <3>1, <3>2
  <2>4. Front' \in Sectors /\ Front <= Front'
    BY <1>2, <1>3, <2>3 DEF Sectors
  <2>5. RecycledOK'
    <3>1. SUFFICES ASSUME patch \in CrashPatches PROVE NotNeeded(table, patch, Front' * SectorSize)
      BY DEF RecycledOK
    <3>2. NotNeeded(table, patch, Front * SectorSize)
      BY <1>1, <3>1 DEF RewriteInv, RecycledOK
    <3>3. PICK a \in Int, b \in Int : a = Front /\ b = Front' /\ a <= b
      BY <1>2, <2>4 DEF Sectors
    <3>4. a * SectorSize \in Int /\ b * SectorSize \in Int /\ a * SectorSize <= b * SectorSize
      BY <3>3, SectorStart
    <3>5. QED
      BY <1>2, <3>2, <3>3, <3>4, NotNeededLater
  <2>6. QED
    BY <1>4, <2>1, <2>2, <2>5 DEF RewriteInv
<1>7. QED
  BY <1>3, <1>5, <1>6

LEMMA RewriteRewrite ==
  ASSUME RecyclesSafely, TypeInv, RecoveryInv, RewriteInv, RecoveryInv', Rewrite, ~PatchRefused, ~Clear
  PROVE  RewriteInv'
<1>1. CASE Chunk
  <2>1. /\ pc = "chunk" /\ UNCHANGED <<patch, ftab, magic, table, lastbk>>
        /\ pc \in Body /\ pc \in LoopSteps
    BY <1>1 DEF Chunk, flash, backup, Body, LoopSteps
  <2>2. /\ en' = (en \/ Cur = lastbk)
        /\ ~en' => Advance
        /\ en' => Goto("backup") /\ UNCHANGED <<blk, phase, remain, newpos>>
    BY <1>1 DEF Chunk
  <2>3. CASE ~en'
    <3>1. ~en /\ ~(Cur = lastbk)
      BY <2>2, <2>3, Zenon
    <3>2. en' = FALSE /\ en = FALSE
      BY <2>2, <3>1, Zenon DEF TypeInv, TypeOK
    <3>3. QED
      BY <2>1, <2>2, <2>3, <3>1, <3>2, AdvanceRewrite
  <2>4. CASE en'
    <3>1. pc' = "backup" /\ UNCHANGED <<blk, phase, remain, newpos>> /\ Cur' = Cur
      BY <2>2, <2>4 DEF Goto, Cur
    <3>2. Front' = Front
      <4>1. Front' = Cur
        BY <2>4, <3>1 DEF Front
      <4>2. Front = Cur
        BY <2>2, <2>4 DEF Front
      <4>3. QED
        BY <4>1, <4>2
    <3>3. ResumesOK'
      BY <2>1, ResumesSame DEF Unrecorded
    <3>4. RecycledOK' /\ ExtraLeft'
      BY <2>1, <3>1, <3>2 DEF RewriteInv, RecycledOK, ExtraLeft
    <3>5. SectorBegun'
      <4>1. CASE en
        BY <2>1, <3>1, <4>1 DEF RewriteInv, SectorBegun
      <4>2. CASE ~en
        <5>1. newpos <= Cur * SectorSize
          BY <2>1, <2>2, <2>4, <4>2 DEF RecoveryInv, ProgressOK
        <5>2. newpos \in Int /\ Cur * SectorSize \in Int
          <6>1. newpos \in Int /\ Cur \in Sectors
            BY <2>1, InBody
          <6>2. QED
            BY <6>1, SectorStart DEF Sectors
        <5>3. ~(newpos' > Cur' * SectorSize)
          BY <3>1, <5>1, <5>2
        <5>4. QED
          BY <5>3 DEF SectorBegun
      <4>3. QED
        BY <4>1, <4>2
    <3>6. QED
      BY <3>3, <3>4, <3>5 DEF RewriteInv
  <2>5. QED
    BY <2>3, <2>4
<1>2. CASE PatchChunk
  <2>1. /\ pc = "patch" /\ UNCHANGED <<patch, ftab, magic, table, lastbk>> /\ pc \in Body
    BY <1>2 DEF PatchChunk, flash, backup, Body
  <2>2. en' = en
    BY <1>2, Zenon DEF PatchChunk
  <2>3. CASE Offset(newpos) # 0 /\ Temp = 0
    BY <1>2, <2>1, <2>2, <2>3, AdvanceRewrite DEF PatchChunk
  <2>4. CASE ~(Offset(newpos) # 0 /\ Temp = 0)
    <3>1. pc' = "fwErase" /\ UNCHANGED <<blk, phase, remain, newpos>>
      BY <1>2, <2>4 DEF PatchChunk, Goto
    <3>2. ResumesOK'
      BY <2>1, ResumesSame DEF Unrecorded
    <3>3. pc' \in Body \ {"chunk", "backup"}
      BY <3>1 DEF Body
    <3>4. QED
      BY <2>1, <2>2, <3>1, <3>2, <3>3, BodyRewrite
  <2>5. QED
    BY <2>3, <2>4
<1>3. CASE FirmwareErase
  <2>1. /\ pc = "fwErase" /\ pc' = "fwWrite"
        /\ UNCHANGED <<patch, phase, remain, blk, newpos, lastbk, table, ftab, magic>>
    BY <1>3 DEF FirmwareErase, Goto, cursor, backup
  <2>2. en' = en
    BY <1>3, Zenon DEF FirmwareErase, cursor
  <2>3. ResumesOK' /\ pc \in Body /\ pc' \in Body \ {"chunk", "backup"}
    BY <2>1, ResumesSame DEF Unrecorded, Body
  <2>4. QED
    BY <2>1, <2>2, <2>3, BodyRewrite
<1>4. CASE FirmwareWrite
  <2>1. /\ pc = "fwWrite" /\ Advance /\ UNCHANGED <<patch, ftab, magic, table, lastbk>>
    BY <1>4 DEF FirmwareWrite, backup
  <2>2. en' = en
    BY <1>4, Zenon DEF FirmwareWrite
  <2>3. QED
    BY <2>1, <2>2, AdvanceRewrite
<1>5. QED
  BY <1>1, <1>2, <1>3, <1>4 DEF Rewrite

LEMMA RewriteNext ==
  ASSUME RecyclesSafely, TypeInv, RecoveryInv, RewriteInv, RecoveryInv', [Next]_vars
  PROVE  RewriteInv'
<1>1. CASE UNCHANGED vars
  <2>1. UNCHANGED <<patch, magic, ftab, pc, blk, phase, remain, newpos, lastbk, table>>
    BY <1>1 DEF vars, flash, cursor, backup
  <2>2. en' = en
    BY <1>1, Zenon DEF vars, cursor
  <2>3. Cur' = Cur
    BY <2>1 DEF Cur
  <2>4. Front' = Front
    <3>1. CASE en
      BY <2>1, <2>2, <2>3, <3>1 DEF Front
    <3>2. CASE ~en
      BY <2>1, <2>2, <3>2 DEF Front
    <3>3. QED
      BY <3>1, <3>2
  <2>5. ExtraLeft' /\ ResumesOK' /\ RecycledOK'
    BY <2>1, <2>4 DEF RewriteInv, ExtraLeft, ResumesOK, RecycledOK
  <2>6. SectorBegun'
    BY <2>1, <2>2, <2>3 DEF RewriteInv, SectorBegun
  <2>7. QED
    BY <2>5, <2>6 DEF RewriteInv
<1>2. CASE Execute \/ RecycleFails \/ PatchRefused \/ Clear \/ Restart \/ Crash
  BY <1>2, OutsideSteps DEF RecyclesSafely
<1>3. CASE (Prepare \/ BackUp \/ Rewrite) /\ ~(RecycleFails \/ PatchRefused \/ Clear)
  BY <1>3, PrepareRewrite, BackUpRewrite, RewriteRewrite DEF RecyclesSafely
<1>4. QED
  BY <1>1, <1>2, <1>3 DEF Next, Step

(***************************************************************************)
(* Write-ahead: a sector of the firmware is erased and rewritten only when *)
(* what is on flash at that moment is enough to resume, also when backups  *)
(* are recycled because the sea is smaller than the firmware               *)
(* (backup_old_sector, check_and_recycle_old_backup), unless power is lost *)
(* between a recycling and the next record.                                *)
(***************************************************************************)
THEOREM RewritesAreSafe ==
  ASSUME RecyclesSafely
  PROVE  Spec => []SafeToRewrite
<1>1. Hypotheses
  BY DEF RecyclesSafely
<1>2. Init => TypeInv /\ RecoveryInv /\ RewriteInv
  BY TypeInit, RecoveryInit, RewriteInit
<1>3. TypeInv /\ RecoveryInv /\ RewriteInv /\ [Next]_vars => (TypeInv /\ RecoveryInv /\ RewriteInv)'
  BY <1>1, TypeNext, RecoveryNext, RewriteNext
<1>4. TypeInv /\ RecoveryInv /\ RewriteInv => SafeToRewrite
  <2>1. SUFFICES ASSUME TypeInv, RecoveryInv, RewriteInv, pc \in {"fwErase", "fwWrite"},
                        patch \in CrashPatches
                 PROVE  Resumable
    BY DEF SafeToRewrite
  <2>2. pc \in Body /\ pc \in Synced /\ pc # "chunk"
    BY <2>1 DEF Body, Synced
  <2>3. /\ patch \in Patches /\ Cur \in Sectors /\ InSea(table, sea) /\ InPlace(table, fw, patch)
        /\ FrontAt(table, Cur, patch) /\ DoneTo(Cur * SectorSize, fw, patch) /\ ftab = table
        /\ table \in [Sectors -> Entry] /\ Front = Cur
    BY <2>1, <2>2, InBody DEF RecoveryInv, TableRight
  <2>4. ReadByPatch(patch, Cur)
    BY <2>1, <2>2, ReadHere
  <2>5. ftab[Cur].st = "S"
    BY <2>1, <2>3, <2>4 DEF RecoveryInv, TableRight
  <2>6. Greatest(Recorded(ftab)) = Cur
    BY <2>1, <2>3, <2>5, LastRecord
  <2>7. NotNeeded(ftab, patch, Cur * SectorSize)
    BY <2>1, <2>2, <2>3 DEF RewriteInv, RecycledOK
  <2>8. ASSUME Recorded(ftab) # {}
        PROVE  ResumesAt = Cur
    <3>1. PICK g \in Sectors : /\ g \in Recorded(ftab) /\ Recorded(ftab) = 0 .. g
                               /\ Cardinality(Recorded(ftab)) = g + 1
      BY <2>8, RecordedPrefix
    <3>2. g = Cur
      <4>1. Recorded(ftab) \in SUBSET Sectors
        BY DEF Recorded
      <4>2. Cur \in 0 .. g /\ g <= Cur
        BY <2>6, <2>8, <3>1, <4>1, GreatestIsUpper
      <4>3. QED
        BY <2>3, <4>2 DEF Sectors
    <3>3. (Cur + 1) - 1 = Cur
      BY <2>3 DEF Sectors
    <3>4. QED
      BY <2>5, <3>1, <3>2, <3>3 DEF ResumesAt
  <2>9. ASSUME NEW c \in 0 .. NewStart(patch)[Len(patch) + 1] - 1, Sector(c) < Cur
        PROVE  fw[Sector(c)][Offset(c)] = New(c)
    <3>1. NewLength(patch) \in Nat /\ c \in 0 .. NewLength(patch) - 1
      BY <2>3, NewEnd DEF NewLength
    <3>2. c \in Nat /\ c < NewLength(patch)
      BY <3>1
    <3>3. c < Cur * SectorSize
      <4>1. PICK a \in Int, b \in Int : a = Sector(c) /\ b = Cur /\ a < b
        BY <2>3, <2>9, <3>2, CellOf DEF Sectors
      <4>2. /\ a * SectorSize \in Int /\ b * SectorSize \in Int
            /\ a * SectorSize + SectorSize <= b * SectorSize
        BY <4>1, SectorStart
      <4>3. c < a * SectorSize + SectorSize
        BY <3>2, <4>1, CellOf
      <4>4. c < b * SectorSize
        BY <3>2, <4>2, <4>3, GeometryAssumption
      <4>5. QED
        BY <4>1, <4>4
    <3>4. QED
      BY <2>3, <3>2, <3>3 DEF DoneTo
  <2>10. ASSUME NEW j \in DOMAIN patch, NEW d \in 0 .. patch[j].diff - 1,
                Sector(NewStart(patch)[j] + d) >= Cur
         PROVE  Available(OldStart(patch)[j] + d)
    <3> DEFINE p == OldStart(patch)[j] + d
    <3>1. /\ j \in 1 .. Len(patch) /\ j \in 1 .. Len(patch) + 1 /\ patch[j].diff \in Nat
          /\ OldStart(patch)[j] \in Int
      BY <2>3, PatchParts, OldStartStep
    <3>2. NewStart(patch)[j] = Begin(patch)[j] /\ Begin(patch)[j] \in Nat
      BY <2>3, <3>1, NewStartIsBegin, NewEnd
    <3>3. Begin(patch)[j] + d >= Cur * SectorSize
      <4>1. PICK q \in Nat : q = Begin(patch)[j] + d
        BY <3>1, <3>2
      <4>2. PICK a \in Int, b \in Int : a = Sector(q) /\ b = Cur /\ b <= a
        <5>1. Sector(q) \in Int /\ Cur \in Int
          <6>1. Sector(q) \in Int
            BY <4>1, CellOf
          <6>2. Cur \in Int
            BY <2>3 DEF Sectors
          <6>3. QED
            BY <6>1, <6>2
        <5>2. Sector(q) >= Cur
          BY <2>10, <3>2, <4>1
        <5>3. QED
          BY <5>1, <5>2
      <4>3. b * SectorSize \in Int /\ a * SectorSize \in Int /\ b * SectorSize <= a * SectorSize
        BY <4>2, SectorStart
      <4>4. a * SectorSize <= q
        BY <4>1, <4>2, CellOf
      <4>5. b * SectorSize <= q
        BY <4>1, <4>3, <4>4
      <4>6. QED
        BY <4>1, <4>2, <4>5
    <3>4. OldStart(patch)[j] >= 0 /\ OldStart(patch)[j] + patch[j].diff <= Pool * SectorSize
      BY <1>1, <2>3, <3>1 DEF Hypotheses, InsidePool
    <3>5. Pool * SectorSize \in Int
      BY GeometryAssumption, SectorStart
    <3>6. p \in Nat /\ p \in 0 .. Pool * SectorSize - 1
      BY <3>1, <3>4, <3>5
    <3>7. Sector(p) \in Sectors /\ Offset(p) \in Offsets
      BY <3>6, SectorInPool, CellOf
    <3>8. Sector(p) * SectorSize + Offset(p) = p
      BY <3>6, CellOf
    <3>9. OldImage(Sector(p))[Offset(p)] = Old(p)
      BY <3>7, <3>8 DEF OldImage
    <3>10. ftab[Sector(p)].st # "C"
      BY <2>7, <3>1, <3>3, <3>7 DEF NotNeeded
    <3>11. CASE ftab[Sector(p)].st = "S"
      BY <2>3, <3>7, <3>9, <3>11 DEF InSea, Available
    <3>12. CASE ftab[Sector(p)].st = "U"
      <4>1. ReadByPatch(patch, Sector(p))
        <5>1. PICK z \in Int : z = Sector(p) * SectorSize
          <6>1. Sector(p) \in Int
            BY <3>6, CellOf
          <6>2. QED
            BY <6>1, SectorStart
        <5>2. z <= p /\ p < z + SectorSize
          BY <3>6, <5>1, CellOf
        <5>3. PICK x \in Int, w \in Nat : x = OldStart(patch)[j] /\ w = patch[j].diff
          BY <3>1
        <5>4. p = x + d /\ d < w /\ d \in Nat
          BY <3>1, <5>3
        <5>5. z + SectorSize >= x /\ z <= x + w
          BY <3>6, <5>2, <5>4, GeometryAssumption
        <5>6. Touches(Sector(p), OldStart(patch)[j], OldStart(patch)[j] + patch[j].diff)
          BY <5>1, <5>3, <5>5 DEF Touches
        <5>7. QED
          BY <5>6 DEF ReadByPatch
      <4>2. QED
        BY <2>3, <3>7, <3>9, <3>12, <4>1 DEF InPlace, Available
    <3>13. ftab[Sector(p)].st \in {"U", "S", "C"}
      BY <2>3, <3>7 DEF Entry
    <3>14. QED
      BY <3>10, <3>11, <3>12, <3>13
  <2>11. QED
    BY <2>8, <2>9, <2>10 DEF Resumable
<1>5. QED
  BY <1>2, <1>3, <1>4, PTL DEF Spec
=============================================================================
