---------------------------- MODULE FirmwarePatch ----------------------------
(***************************************************************************)
(* The boot loader's side of an upgrade (smfota/src/sm_fota.c,             *)
(* sm_arch_interface.c): mi_iot_execute reads the upgrade status and       *)
(* firmware_patch rewrites the firmware in place, sector by sector.  Before*)
(* a sector is overwritten, its old content is copied to the backup sea;   *)
(* a table in flash records which sectors are there, so that a patch cut   *)
(* by a power loss can resume.                                             *)
(*                                                                         *)
(* Every erase and every write of flash is an action of its own, so that a *)
(* power loss (Crash) can fall between any two of them.                    *)
(***************************************************************************)
EXTENDS PatchGeometry, FiniteSets

CONSTANTS
  Patches,      \* the patches that may lie in the download area
  MaxBlocks,    \* MAX_TOPATCH_BLOCK_NUM
  CrashPoints,  \* the steps before which power may be lost
  CrashPatches, \* the patches during which it may be lost
  MaxCrashes,   \* how often it may be lost
  RiskFirst     \* may it be lost before the first backup is on record?

ASSUME PatchAssumption ==
  /\ Patches \subseteq Seq(Block) \ {<<>>}
  /\ \A p \in Patches : FitsPool(p)
  /\ MaxBlocks \in Nat
  /\ MaxCrashes \in Nat
  /\ RiskFirst \in BOOLEAN

VARIABLES
  (* flash: survives a power loss *)
  status,     \* the upgrade status word
  patch,      \* the patch in the download area
  fw,         \* the firmware, a content for every cell of every sector
  sea,        \* the backup sea
  magic,      \* the word that says a patch is in progress
  ftab,       \* the backup status table, in the sector of the magic word
  (* RAM *)
  pc,         \* the next step
  blk, phase, remain, newpos, oldpos,   \* position in the patch
  en, lastbk, \* is patching enabled; if not, the sector at which it resumes
  table, bkmap, used, oldest,           \* bk_r_status, bk_map, bk_map_used, bk_used_oldest
  slot,       \* the sea sector being filled
  image,      \* the sector image about to be written
  flag,       \* the status word being written, and the step that follows
  decoded,    \* did decode_and_patch return 0?
  (* history *)
  crashes

flash   == <<status, patch, fw, sea, magic, ftab>>
cursor  == <<blk, phase, remain, newpos, oldpos, en, lastbk>>
backup  == <<table, bkmap, used, oldest>>
scratch == <<slot, image, flag, decoded>>
vars    == <<flash, pc, cursor, backup, scratch, crashes>>

-----------------------------------------------------------------------------
(* Contents of a cell: the old byte of position p, the new byte of position  *)
(* p, erased flash, or a byte computed from the wrong old byte.              *)
Old(p)  == <<"old", p>>
New(p)  == <<"new", p>>
Erased  == <<"erased", 0>>
Garbage == <<"garbage", 0>>
Content == {"old", "new", "erased", "garbage"} \X Int

Image       == [Offsets -> Content]
ErasedImage == [o \in Offsets |-> Erased]

NoSlot   == -1
NoSector == -1
Entry    == [st : {"U", "S", "C"}, slot : Slots \cup {NoSlot}]
Unused   == [st |-> "U", slot |-> NoSlot]
NoEntries == [k \in Sectors |-> Unused]

Statuses == {"IDLE", "CHECK", "UPDATE", "UPDATEED", "BLANK"}

Steps == {"boot", "app", "flagErase", "flagWrite", "open", "resume", "magicErase",
          "magicWrite", "chunk", "backup", "recErase", "recWrite", "select", "seaErase",
          "seaWrite", "stErase", "stWrite", "patch", "fwErase", "fwWrite", "clear", "record"}

Cur  == Sector(newpos)                  \* the sector being rewritten
Temp == ChunkLength(newpos, remain)     \* the cells of it this chunk covers

-----------------------------------------------------------------------------
Init ==
  /\ status = "CHECK"
  /\ patch \in Patches
  /\ fw = [k \in Sectors |-> [o \in Offsets |-> Old(k * SectorSize + o)]]
  /\ sea = [s \in Slots |-> ErasedImage]
  /\ magic = "BLANK" /\ ftab = NoEntries
  /\ pc = "boot"
  /\ blk = 1 /\ phase = "diff" /\ remain = 0 /\ newpos = 0 /\ oldpos = 0
  /\ en = FALSE /\ lastbk = NoSector
  /\ table = NoEntries /\ bkmap = {} /\ used = 0 /\ oldest = 0
  /\ slot = NoSlot /\ image = ErasedImage
  /\ flag = [want |-> "IDLE", then |-> "app"]
  /\ decoded = FALSE
  /\ crashes = 0

Goto(step) == pc' = step

\* mi_iot_set_fota_status(s), then `step': an erase and a write of the sector
\* that holds the status word.
SetStatus(s, step) ==
  /\ flag' = [want |-> s, then |-> step]
  /\ Goto("flagErase")

FlagErase ==
  /\ pc \in {"flagErase", "record"}
  /\ status' = "BLANK"
  /\ Goto("flagWrite")
  /\ UNCHANGED <<patch, fw, sea, magic, ftab, cursor, backup, scratch, crashes>>

FlagWrite ==
  /\ pc = "flagWrite"
  /\ status' = flag.want
  /\ IF flag.want = "UPDATEED" THEN SetStatus("IDLE", "app")
                               ELSE Goto(flag.then) /\ UNCHANGED flag
  /\ UNCHANGED <<patch, fw, sea, magic, ftab, cursor, backup, slot, image, decoded, crashes>>

\* Mutants: an interrupted patch is not taken up again; the status that ends
\* the upgrade is written before the patch.
BootForgets ==
  /\ pc = "boot"
  /\ \/ status = "CHECK" /\ SetStatus("UPDATE", "open")
     \/ status # "CHECK" /\ Goto("app") /\ UNCHANGED flag
  /\ UNCHANGED <<flash, cursor, backup, slot, image, decoded, crashes>>

BootAcknowledges ==
  /\ pc = "boot"
  /\ IF status = "CHECK" THEN SetStatus("IDLE", "open") ELSE Goto("app") /\ UNCHANGED flag
  /\ UNCHANGED <<flash, cursor, backup, slot, image, decoded, crashes>>

\* mi_iot_execute: what the status word asks for.
Boot ==
  /\ pc = "boot"
  /\ \/ status = "CHECK"    /\ SetStatus("UPDATE", "open")
     \/ status = "UPDATE"   /\ Goto("open") /\ UNCHANGED flag
     \/ status = "UPDATEED" /\ SetStatus("UPDATEED", "app")
     \/ status \in {"IDLE", "BLANK"} /\ Goto("app") /\ UNCHANGED flag
  /\ UNCHANGED <<flash, cursor, backup, slot, image, decoded, crashes>>

\* firmware_patch up to the check of the chain: a chain that is too long is
\* refused with -3, and the status word keeps saying UPDATE.
Open ==
  /\ pc = "open"
  /\ blk' = 1 /\ phase' = "diff" /\ newpos' = 0 /\ oldpos' = 0
  /\ remain' = patch[1].diff
  /\ table' = NoEntries /\ bkmap' = {} /\ used' = 0 /\ oldest' = 0
  /\ Goto(IF Len(patch) > MaxBlocks THEN "app" ELSE "resume")
  /\ decoded' = FALSE
  /\ UNCHANGED <<flash, en, lastbk, slot, image, flag, crashes>>

-----------------------------------------------------------------------------
(* The head of decode_and_patch: is there a patch to resume?                 *)

\* The sectors the scan of the table covers: it stops at the first one that
\* has no record.
Recorded(t) == {k \in Sectors : \A j \in 0 .. k : t[j].st # "U"}

Start ==
  /\ pc = "resume" /\ magic = "BLANK"
  /\ en' = TRUE
  /\ Goto("magicErase")
  /\ UNCHANGED <<flash, blk, phase, remain, newpos, oldpos, lastbk, backup, scratch, crashes>>

\* Mutant: a sector whose backup is on record counts as rewritten.
SectorAfter(t) == Greatest(Recorded(t)) + 1

\* The last sector on record is rewritten again, unless its backup has been
\* recycled: then it is complete.
ResumeSector(t) ==
  LET last == Greatest(Recorded(t)) IN IF t[last].st = "S" THEN last ELSE last + 1

\* With no sector on record last_bk_addr is read without having been written.
Resume ==
  /\ pc = "resume" /\ magic = "SET"
  /\ en' = FALSE
  /\ table' = ftab
  /\ LET inSea == {k \in Recorded(ftab) : ftab[k].st = "S"}
     IN  /\ bkmap' = {ftab[k].slot : k \in inSea}
         /\ used' = Cardinality(inSea)
  /\ IF Recorded(ftab) = {} THEN lastbk' \in Sectors \cup {NoSector}
                            ELSE lastbk' = ResumeSector(ftab)
  /\ Goto("chunk")
  /\ UNCHANGED <<flash, blk, phase, remain, newpos, oldpos, oldest, scratch, crashes>>

MagicErase ==
  /\ pc = "magicErase"
  /\ magic' = "BLANK" /\ ftab' = NoEntries
  /\ Goto("magicWrite")
  /\ UNCHANGED <<status, patch, fw, sea, cursor, backup, scratch, crashes>>

MagicWrite ==
  /\ pc = "magicWrite"
  /\ magic' = "SET"
  /\ Goto("chunk")
  /\ UNCHANGED <<status, patch, fw, sea, ftab, cursor, backup, scratch, crashes>>

-----------------------------------------------------------------------------
(* The loop of decode_and_patch over the chunks of the patch.                *)

\* The end of the body of the loop: the positions move past the chunk.
Advance ==
  LET left == remain - Temp
      old  == IF phase = "diff" THEN oldpos + Temp ELSE oldpos
  IN  /\ newpos' = newpos + Temp
      /\ \/ /\ left # 0
            /\ remain' = left /\ oldpos' = old
            /\ Goto("chunk")
            /\ UNCHANGED <<blk, phase, decoded>>
         \/ /\ left = 0 /\ phase = "diff"
            /\ phase' = "extra" /\ remain' = patch[blk].extra /\ oldpos' = old
            /\ Goto("chunk")
            /\ UNCHANGED <<blk, decoded>>
         \/ /\ left = 0 /\ phase = "extra" /\ blk < Len(patch)
            /\ blk' = blk + 1 /\ phase' = "diff" /\ remain' = patch[blk + 1].diff
            /\ oldpos' = old + patch[blk].adjust
            /\ Goto("chunk")
            /\ UNCHANGED decoded
         \/ /\ left = 0 /\ phase = "extra" /\ blk = Len(patch)
            /\ oldpos' = old + patch[blk].adjust
            /\ decoded' = TRUE
            /\ Goto("clear")
            /\ UNCHANGED <<blk, phase, remain>>

\* Mutant: an error starts decode_and_patch over.
FailRetries == Goto("resume") /\ UNCHANGED flag

\* decode_and_patch returns an error: firmware_patch writes IDLE and goes on.
Fail == SetStatus("IDLE", "clear")

Chunk ==
  /\ pc = "chunk"
  /\ en' = (en \/ Cur = lastbk)
  /\ IF en' THEN Goto("backup") /\ UNCHANGED <<blk, phase, remain, newpos, oldpos, decoded>>
            ELSE Advance
  /\ UNCHANGED <<flash, lastbk, backup, slot, image, flag, crashes>>

-----------------------------------------------------------------------------
(* backup_old_sector and check_and_recycle_old_backup.                       *)

AlreadyBackedUp ==
  /\ pc = "backup" /\ table[Cur].st = "S"
  /\ Goto("patch")
  /\ UNCHANGED <<flash, cursor, backup, scratch, crashes>>

\* The sectors whose backup nothing from here on will read.
Recyclable ==
  {k \in Sectors : /\ k >= oldest /\ table[k].st = "S"
                   /\ ~StillRead(patch, blk, oldpos, k)}

\* bk_used_oldest moves to the last of the recycled sectors that follow it.
OldestAfter(t) ==
  LET run == {k \in Sectors : k >= oldest /\ \A j \in oldest .. k : t[j].st = "C"}
  IN  IF run = {} THEN oldest ELSE Greatest(run)

\* Mutant: the record of the recycled sector is not cancelled.
RecycleUnsynced ==
  /\ pc = "backup" /\ table[Cur].st # "S" /\ used >= SeaSlots
  /\ Recyclable # {}
  /\ bkmap' = bkmap \ {table[Least(Recyclable)].slot}
  /\ used' = used - 1
  /\ Goto("select")
  /\ UNCHANGED <<flash, cursor, table, oldest, scratch, crashes>>

Recycle ==
  /\ pc = "backup" /\ table[Cur].st # "S" /\ used >= SeaSlots
  /\ Recyclable # {}
  /\ LET victim == Least(Recyclable)
     IN  /\ table' = [table EXCEPT ![victim].st = "C"]
         /\ bkmap' = bkmap \ {table[victim].slot}
         /\ oldest' = OldestAfter(table')
  /\ used' = used - 1
  /\ Goto("recErase")
  /\ UNCHANGED <<flash, cursor, scratch, crashes>>

RecycleFails ==
  /\ pc = "backup" /\ table[Cur].st # "S" /\ used >= SeaSlots
  /\ Recyclable = {}
  /\ Fail
  /\ oldest' = OldestAfter(table)
  /\ UNCHANGED <<flash, cursor, table, bkmap, used, slot, image, decoded, crashes>>

\* A record of the table is not aligned to a sector, so arch_write_flash reads
\* the sector of the magic word and the table, erases it and writes it back.
TableErase ==
  /\ pc \in {"recErase", "stErase"}
  /\ magic' = "BLANK" /\ ftab' = NoEntries
  /\ Goto(IF pc = "recErase" THEN "recWrite" ELSE "stWrite")
  /\ UNCHANGED <<status, patch, fw, sea, cursor, backup, scratch, crashes>>

TableWrite ==
  /\ pc \in {"recWrite", "stWrite"}
  /\ magic' = "SET" /\ ftab' = table
  /\ IF pc = "recWrite" THEN Goto("select") /\ UNCHANGED used
                        ELSE Goto("patch") /\ used' = used + 1
  /\ UNCHANGED <<status, patch, fw, sea, cursor, table, bkmap, oldest, scratch, crashes>>

\* Mutant: slots that are in use are not left out.
AnySlot == Slots

\* The sector goes to the first free slot of the sea, if a block reads it.
Free == Slots \ bkmap

Select ==
  /\ \/ pc = "select"
     \/ pc = "backup" /\ table[Cur].st # "S" /\ used < SeaSlots
  /\ IF ReadByPatch(patch, Cur) /\ Free # {}
       THEN /\ slot' = Least(Free)
            /\ bkmap' = bkmap \cup {slot'}
            /\ Goto("seaErase")
       ELSE Goto("patch") /\ UNCHANGED <<slot, bkmap>>
  /\ UNCHANGED <<flash, cursor, table, used, oldest, image, flag, decoded, crashes>>

SeaErase ==
  /\ pc = "seaErase"
  /\ sea' = [sea EXCEPT ![slot] = ErasedImage]
  /\ Goto("seaWrite")
  /\ UNCHANGED <<status, patch, fw, magic, ftab, cursor, backup, scratch, crashes>>

SeaWrite ==
  /\ pc = "seaWrite"
  /\ sea' = [sea EXCEPT ![slot] = fw[Cur]]
  /\ table' = [table EXCEPT ![Cur] = [st |-> "S", slot |-> slot]]
  /\ Goto("stErase")
  /\ UNCHANGED <<status, patch, fw, magic, ftab, cursor, bkmap, used, oldest, scratch, crashes>>

-----------------------------------------------------------------------------
(* patch_diff and patch_extra.                                               *)

\* The old sectors patch_diff looks up: the second one also when the chunk
\* ends exactly at its start.
Looked == {Sector(oldpos), Sector(oldpos + Temp)}

DiffRefused ==
  \/ Cur # Sector(newpos + Temp - 1)     \* an empty chunk at a sector boundary
  \/ \E k \in Looked : table[k].st = "C"

\* The byte patch_diff computes for offset o of the current sector.
Source(p)   == IF table[Sector(p)].st = "S" THEN sea[table[Sector(p)].slot][Offset(p)]
                                            ELSE fw[Sector(p)][Offset(p)]
Patched(o)  == LET q == Cur * SectorSize + o
                   p == oldpos + (q - newpos)
               IN  CASE phase = "extra"     -> New(q)
                     [] Source(p) = Old(p)  -> New(q)
                     [] OTHER               -> Garbage

InChunk(o) == o >= Offset(newpos) /\ o < Offset(newpos) + Temp

\* Mutant: the sector is not read before it is rewritten.
RestLost(o) == Erased

\* What the write leaves in the other cells of the sector.
Rest(o) == IF Offset(newpos) = 0 THEN Erased ELSE fw[Cur][o]

\* A chunk at the start of a sector erases the sector and writes the chunk; any
\* other one makes arch_write_flash read, erase and rewrite the whole sector.
PatchChunk ==
  /\ pc = "patch"
  /\ ~(phase = "diff" /\ DiffRefused)
  /\ IF Offset(newpos) # 0 /\ Temp = 0
       THEN Advance /\ UNCHANGED image
       ELSE /\ image' = [o \in Offsets |-> IF InChunk(o) THEN Patched(o) ELSE Rest(o)]
            /\ Goto("fwErase")
            /\ UNCHANGED <<blk, phase, remain, newpos, oldpos, decoded>>
  /\ UNCHANGED <<flash, en, lastbk, backup, slot, flag, crashes>>

PatchRefused ==
  /\ pc = "patch" /\ phase = "diff" /\ DiffRefused
  /\ Fail
  /\ UNCHANGED <<flash, cursor, backup, slot, image, decoded, crashes>>

FirmwareErase ==
  /\ pc = "fwErase"
  /\ fw' = [fw EXCEPT ![Cur] = ErasedImage]
  /\ Goto("fwWrite")
  /\ UNCHANGED <<status, patch, sea, magic, ftab, cursor, backup, scratch, crashes>>

FirmwareWrite ==
  /\ pc = "fwWrite"
  /\ fw' = [fw EXCEPT ![Cur] = image]
  /\ Advance
  /\ UNCHANGED <<status, patch, sea, magic, ftab, en, lastbk, backup, slot, image, flag, crashes>>

\* clear_patch_status; its 0 is what firmware_patch returns, also after an error.
Clear ==
  /\ pc = "clear"
  /\ magic' = "BLANK" /\ ftab' = NoEntries
  /\ flag' = [want |-> "UPDATEED", then |-> "app"]
  /\ Goto("record")
  /\ UNCHANGED <<status, patch, fw, sea, cursor, backup, slot, image, decoded, crashes>>

-----------------------------------------------------------------------------
(* The environment.                                                          *)

\* RAM after a reset.
ResetRAM ==
  /\ pc' = "boot"
  /\ blk' = 1 /\ phase' = "diff" /\ remain' = 0 /\ newpos' = 0 /\ oldpos' = 0
  /\ en' = FALSE /\ lastbk' = NoSector
  /\ table' = NoEntries /\ bkmap' = {} /\ used' = 0 /\ oldest' = 0
  /\ slot' = NoSlot /\ image' = ErasedImage
  /\ flag' = [want |-> "IDLE", then |-> "app"]
  /\ decoded' = FALSE

\* The part of a sector image that is on flash when power fails during the
\* write: flash is written page by page, in order.
Torn(img, n) == [o \in Offsets |-> IF o < n THEN img[o] ELSE Erased]

\* The magic word and the records of the sectors before n, written before the
\* page with the rest.
TornTable(n) == [k \in Sectors |-> IF k < n THEN table[k] ELSE Unused]

Crash ==
  /\ crashes < MaxCrashes /\ pc \in CrashPoints /\ patch \in CrashPatches
  /\ magic = "SET" /\ Recorded(ftab) = {} => RiskFirst
  /\ crashes' = crashes + 1
  /\ \E n \in Offsets :
       /\ fw'  = IF pc = "fwWrite"  THEN [fw EXCEPT ![Cur] = Torn(image, n)] ELSE fw
       /\ sea' = IF pc = "seaWrite" THEN [sea EXCEPT ![slot] = Torn(fw[Cur], n)] ELSE sea
  /\ \/ UNCHANGED <<magic, ftab>>
     \/ /\ pc \in {"recWrite", "stWrite"}
        /\ magic' = "SET"
        /\ \E n \in Sectors \ {0} : ftab' = TornTable(n)
  /\ ResetRAM
  /\ UNCHANGED <<status, patch>>

\* The firmware runs; sooner or later the device is reset.
Restart ==
  /\ pc = "app"
  /\ ResetRAM
  /\ UNCHANGED <<flash, crashes>>

Execute == Boot \/ FlagErase \/ FlagWrite
Prepare == Open \/ Start \/ Resume \/ MagicErase \/ MagicWrite
BackUp  == \/ AlreadyBackedUp \/ Recycle \/ RecycleFails \/ TableErase \/ TableWrite
           \/ Select \/ SeaErase \/ SeaWrite
Rewrite == \/ Chunk \/ PatchChunk \/ PatchRefused \/ FirmwareErase \/ FirmwareWrite \/ Clear

Step == Execute \/ Prepare \/ BackUp \/ Rewrite
Next == Step \/ Restart \/ Crash

Spec     == Init /\ [][Next]_vars
FairSpec == Spec /\ WF_vars(Step)

-----------------------------------------------------------------------------
TypeOK ==
  /\ status \in Statuses /\ patch \in Patches
  /\ fw \in [Sectors -> Image] /\ sea \in [Slots -> Image]
  /\ magic \in {"SET", "BLANK"} /\ ftab \in [Sectors -> Entry]
  /\ pc \in Steps
  /\ blk \in DOMAIN patch /\ phase \in {"diff", "extra"}
  /\ remain \in Nat /\ newpos \in Nat /\ oldpos \in Int
  /\ en \in BOOLEAN /\ lastbk \in Int
  /\ table \in [Sectors -> Entry] /\ bkmap \subseteq Slots \cup {NoSlot}
  /\ used \in Int /\ oldest \in Sectors
  /\ slot \in Slots \cup {NoSlot} /\ image \in Image
  /\ flag \in [want : Statuses, then : Steps]
  /\ decoded \in BOOLEAN
  /\ crashes \in 0 .. MaxCrashes

OldImage(k) == [o \in Offsets |-> Old(k * SectorSize + o)]

NewIsWhole == \A c \in 0 .. NewLength(patch) - 1 : fw[Sector(c)][Offset(c)] = New(c)

(***************************************************************************)
(* No byte of the new firmware is ever computed from a byte of the old one *)
(* that the patch has already overwritten (the open question at            *)
(* sm_arch_interface.c:679), and when decode_and_patch returns 0, the      *)
(* firmware is the new one.                                                *)
(***************************************************************************)
NoGarbage    == \A k \in Sectors : \A o \in Offsets : fw[k][o] # Garbage
DecodedIsNew == NoGarbage /\ (decoded => NewIsWhole)

(***************************************************************************)
(* Whenever a record in flash says that a sector is in the sea, the sea    *)
(* holds its whole old content: a copy is complete before it is recorded,  *)
(* and a slot is reused only after its record is cancelled.                *)
(***************************************************************************)
BackupsIntact ==
  \A k \in Sectors : ftab[k].st = "S" => sea[ftab[k].slot] = OldImage(k)

(***************************************************************************)
(* No two sectors share a slot of the sea, and no slot that holds a backup *)
(* counts as free.                                                         *)
(***************************************************************************)
SlotsDistinct ==
  \A k \in Sectors : table[k].st = "S" =>
     /\ table[k].slot \in bkmap
     /\ \A j \in Sectors \ {k} : table[j].st = "S" => table[j].slot # table[k].slot

(***************************************************************************)
(* While the magic word is set and some sector is on record, a reset here  *)
(* would resume correctly: every new byte before the sector it resumes at  *)
(* is in place, and every old byte needed from there on is in the sea or   *)
(* still in the firmware.                                                  *)
(***************************************************************************)
ResumesAt ==
  LET n == Cardinality(Recorded(ftab)) IN IF ftab[n - 1].st = "S" THEN n - 1 ELSE n

Available(p) ==
  \/ ftab[Sector(p)].st = "S" /\ sea[ftab[Sector(p)].slot][Offset(p)] = Old(p)
  \/ ftab[Sector(p)].st = "U" /\ fw[Sector(p)][Offset(p)] = Old(p)

Resumable ==
  magic = "SET" /\ Recorded(ftab) # {} =>
    LET at   == ResumesAt
        from == OldStart(patch)
        to   == NewStart(patch)
    IN  /\ \A c \in 0 .. to[Len(patch) + 1] - 1 :
              Sector(c) < at => fw[Sector(c)][Offset(c)] = New(c)
        /\ \A j \in DOMAIN patch : \A d \in 0 .. patch[j].diff - 1 :
              Sector(to[j] + d) >= at => Available(from[j] + d)

(***************************************************************************)
(* Write-ahead: a sector of the firmware is erased and rewritten only when *)
(* what is on flash at that moment is enough to resume.                    *)
(***************************************************************************)
SafeToRewrite ==
  pc \in {"fwErase", "fwWrite"} /\ patch \in CrashPatches => Resumable

(***************************************************************************)
(* The status word says the upgrade is over only when the firmware is the  *)
(* new one.                                                                *)
(***************************************************************************)
UpgradedIsNew == status \in {"UPDATEED", "IDLE"} => NewIsWhole

(***************************************************************************)
(* A failed patch is not recorded as an upgrade ("if the upgrade           *)
(* succeeded", sm_fota.c:693).                                             *)
(***************************************************************************)
FailureNotRecorded == status = "UPDATEED" => decoded

(***************************************************************************)
(* Every start of the boot loader ends by starting the firmware.           *)
(***************************************************************************)
BootEnds == (pc = "boot") ~> (pc = "app")

(***************************************************************************)
(* An upgrade that was asked for is finished, whatever resets interrupt it.*)
(***************************************************************************)
UpgradeCompletes == <>(pc = "app" /\ NewIsWhole)

(***************************************************************************)
(* The boot loader keeps the promise of UpgradePromise.  The firmware is   *)
(* "old" as long as no cell the new one occupies has changed; the request  *)
(* is acknowledged by the first write of a status that ends the upgrade.   *)
(***************************************************************************)
FirmwareIs ==
  IF NewIsWhole THEN "new"
  ELSE IF \A k \in Sectors : fw[k] = OldImage(k) THEN "old" ELSE "partial"

RequestIs ==
  IF status \in {"UPDATEED", "IDLE"} \/ (status = "BLANK" /\ flag.want # "UPDATE")
    THEN "acknowledged" ELSE "pending"

Promise == INSTANCE UpgradePromise WITH
  firmware <- FirmwareIs, request <- RequestIs, running <- pc = "app"

KeepsPromise == Promise!Spec
=============================================================================
