----------------------------- MODULE FlashDriver -----------------------------
(***************************************************************************)
(* Flash as the boot loader reads and writes it: arch_write_flash (of      *)
(* smfota/src/sm_arch_interface.c) on mi_bl_read_flash, mi_bl_write_flash  *)
(* and mi_bl_earse_flash (smfota/src/sm_fota.c), which split an operation  *)
(* into the pages and blocks of the vendor's FTL.                          *)
(*                                                                         *)
(* An action is one call of the FTL; each may fail.                        *)
(***************************************************************************)
EXTENDS Integers, Sequences

CONSTANTS
  PageSize,    \* NOR_PAGE_SIZE
  BlockPages,  \* blk_page_count
  Blocks,      \* blocks on the device
  MaxCalls     \* operations in one behaviour

ASSUME FlashAssumption ==
  /\ PageSize \in Nat \ {0} /\ BlockPages \in Nat \ {0} /\ Blocks \in Nat \ {0}
  /\ MaxCalls \in Nat

BlockSize == BlockPages * PageSize
Size      == Blocks * BlockSize
Addresses == 0 .. Size - 1

VARIABLES
  flash,              \* the byte at every address
  pc,                 \* what goes on
  op, addr, size,     \* the operation under way or the last one,
  before,             \* and flash when it began
  vBlock, vPage,      \* the next page
  align,              \* vAlignOffset
  count, remain,      \* vSizeCount, vSizeRemain; remain is needWriteSize, too
  buf,                \* the bytes read so far, or the bytes to write
  sent,               \* how many of those are written
  ok,                 \* did the last operation succeed?
  calls

cursor == <<vBlock, vPage>>
read   == <<align, count>>
task   == <<op, addr, size, before>>
vars   == <<flash, pc, task, cursor, read, remain, buf, sent, ok, calls>>

\* A byte of flash at first is its address; the bytes a caller writes have the
\* numbers behind; FF is an erased byte, Mixed what is left of two.
FF      == -1
Mixed   == -2
Byte(i) == Size + i
Bytes   == Int

-----------------------------------------------------------------------------
\* FTL_AddrToBlockPage
BlockOf(a)  == a \div BlockSize
InBlock(a)  == a % BlockSize
PageOf(a)   == InBlock(a) \div PageSize

\* The first address of page p of block b.
PageAddr(b, p) == b * BlockSize + p * PageSize

NextPage ==
  IF vPage + 1 > BlockPages - 1 THEN vBlock' = vBlock + 1 /\ vPage' = 0
                                ELSE vBlock' = vBlock /\ vPage' = vPage + 1

OnDevice == vBlock < Blocks /\ vPage < BlockPages

\* Bytes from..to-1 of the page under the cursor.
Copied(from, to) == [i \in 1 .. to - from |-> flash[PageAddr(vBlock, vPage) + from + i - 1]]

Init ==
  /\ flash = [a \in Addresses |-> a]
  /\ pc = "idle" /\ op = "none" /\ addr = 0 /\ size = 0 /\ before = flash
  /\ vBlock = 0 /\ vPage = 0 /\ align = 0 /\ count = 0 /\ remain = 0
  /\ buf = <<>> /\ sent = 0 /\ ok = TRUE /\ calls = 0

Call(what, a, n) ==
  /\ pc = "idle" /\ calls < MaxCalls
  /\ calls' = calls + 1
  /\ op' = what /\ addr' = a /\ size' = n /\ before' = flash

Return(result) == pc' = "idle" /\ ok' = result

-----------------------------------------------------------------------------
(* rs_ua_flash_read: less than a page, in one page or in two; or a head up to *)
(* the end of a page, whole pages and a rest.                                 *)

ReadCall(a, n) ==
  /\ Call("read", a, n)
  /\ align' = a % PageSize
  /\ vBlock' = BlockOf(a - align') /\ vPage' = PageOf(a - align')
  /\ count' = n \div PageSize /\ remain' = n % PageSize
  /\ buf' = <<>> /\ sent' = 0 /\ ok' = FALSE
  /\ pc' = IF n \div PageSize = 0 THEN "small" ELSE IF align' # 0 THEN "head" ELSE "pages"
  /\ UNCHANGED flash

\* Mutant: bytes that end with the page count as bytes in two pages.
ReadSmallStrict ==
  /\ pc = "small" /\ OnDevice
  /\ IF PageSize - align > remain
       THEN /\ buf' = Copied(align, align + remain)
            /\ Return(TRUE)
            /\ UNCHANGED <<cursor, remain>>
       ELSE /\ buf' = Copied(align, PageSize)
            /\ remain' = remain - (PageSize - align)
            /\ NextPage
            /\ pc' = "rest" /\ UNCHANGED ok
  /\ UNCHANGED <<flash, task, read, sent, calls>>

\* Section A: all of it is in one page, or the rest is in the next one.
ReadSmall ==
  /\ pc = "small" /\ OnDevice
  /\ IF PageSize - align >= remain
       THEN /\ buf' = Copied(align, align + remain)
            /\ Return(TRUE)
            /\ UNCHANGED <<cursor, remain>>
       ELSE /\ buf' = Copied(align, PageSize)
            /\ remain' = remain - (PageSize - align)
            /\ NextPage
            /\ pc' = "rest" /\ UNCHANGED ok
  /\ UNCHANGED <<flash, task, read, sent, calls>>

\* Mutant: the sizes are not computed again for what is left.
ReadHeadOnly ==
  /\ pc = "head" /\ OnDevice
  /\ buf' = Copied(align, PageSize)
  /\ NextPage
  /\ pc' = "pages"
  /\ UNCHANGED <<flash, task, read, remain, sent, ok, calls>>

\* Section B: the head.
ReadHead ==
  /\ pc = "head" /\ OnDevice
  /\ buf' = Copied(align, PageSize)
  /\ LET left == size - (PageSize - align)
     IN  /\ count' = left \div PageSize /\ remain' = left % PageSize
         /\ pc' = IF left \div PageSize = 0 THEN "rest" ELSE "pages"
  /\ NextPage
  /\ UNCHANGED <<flash, task, align, sent, ok, calls>>

ReadPage ==
  /\ pc = "pages" /\ OnDevice
  /\ buf' = buf \o Copied(0, PageSize)
  /\ count' = count - 1
  /\ NextPage
  /\ \/ count > 1 /\ UNCHANGED <<pc, ok>>
     \/ count = 1 /\ remain # 0 /\ pc' = "rest" /\ UNCHANGED ok
     \/ count = 1 /\ remain = 0 /\ Return(TRUE)
  /\ UNCHANGED <<flash, task, align, remain, sent, calls>>

ReadRest ==
  /\ pc = "rest" /\ OnDevice
  /\ buf' = buf \o Copied(0, remain)
  /\ Return(TRUE)
  /\ UNCHANGED <<flash, task, cursor, read, remain, sent, calls>>

-----------------------------------------------------------------------------
(* arch_write_flash: n bytes to address a.  A write inside a block reads the  *)
(* block, erases it and writes all of it back.                                *)

WriteCall(a, n) ==
  /\ Call("write", a, n)
  /\ align' = InBlock(a)
  /\ vBlock' = BlockOf(a - align') /\ vPage' = 0
  /\ sent' = 0 /\ ok' = FALSE
  /\ count' = 0
  /\ LET new   == [i \in 1 .. n |-> Byte(i)]
         start == a - align'
         all   == [i \in 1 .. BlockSize |->
                     IF i > align' /\ i <= align' + n THEN Byte(i - align') ELSE flash[start + i - 1]]
     IN  \/ align' = 0 /\ buf' = new /\ remain' = n /\ pc' = "write"
         \/ align' # 0 /\ buf' = all /\ remain' = BlockSize /\ pc' = "erase"
  /\ UNCHANGED flash

\* Mutant: the erase is a block too long.
EraseTwoBlocks == [x \in Addresses |-> IF BlockOf(x) \in {vBlock, vBlock + 1} THEN FF ELSE flash[x]]

EraseBlock == [x \in Addresses |-> IF BlockOf(x) = vBlock THEN FF ELSE flash[x]]

\* mi_bl_earse_flash on its own: refused unless the address is in the first page
\* of a block.
EraseCall(a) ==
  /\ Call("erase", a, 0)
  /\ align' = 0 /\ count' = 0 /\ remain' = 0 /\ buf' = <<>> /\ sent' = 0 /\ ok' = FALSE
  /\ vBlock' = BlockOf(a) /\ vPage' = PageOf(a)
  /\ pc' = IF PageOf(a) = 0 THEN "erase" ELSE "idle"
  /\ UNCHANGED flash

Erase ==
  /\ pc = "erase"
  /\ flash' = EraseBlock
  /\ \/ op = "erase" /\ Return(TRUE)
     \/ op = "write" /\ pc' = "write" /\ UNCHANGED ok
  /\ UNCHANGED <<task, cursor, read, remain, buf, sent, calls>>

\* NOR flash that has not been erased only loses bits.
Over(old, new) == IF old = FF THEN new ELSE IF new = FF \/ new = old THEN old ELSE Mixed

\* Mutant: the last page of a write is not filled up.
FilledWrong(i) == IF i <= Len(buf) THEN buf[i] ELSE Mixed

\* The last page of a write is filled up with FF.
Filled(i) == IF i <= Len(buf) THEN buf[i] ELSE FF

\* mi_bl_write_flash: a page.  Only pages before the last one move on to the
\* next block.
WritePage ==
  LET last == remain <= PageSize
      wrap == ~last /\ vPage > BlockPages - 1
      b    == IF wrap THEN vBlock + 1 ELSE vBlock
      p    == IF wrap THEN 0 ELSE vPage
      from == PageAddr(b, p)
  IN  /\ pc = "write" /\ b < Blocks /\ p < BlockPages
      /\ flash' = [x \in Addresses |->
                      IF x >= from /\ x < from + PageSize
                        THEN Over(flash[x], Filled(sent + (x - from) + 1)) ELSE flash[x]]
      /\ \/ last /\ Return(TRUE) /\ sent' = sent + remain /\ UNCHANGED <<remain, cursor>>
         \/ /\ ~last /\ UNCHANGED <<pc, ok>>
            /\ remain' = remain - PageSize /\ sent' = sent + PageSize
            /\ vBlock' = b /\ vPage' = p + 1
      /\ UNCHANGED <<task, read, buf, calls>>

-----------------------------------------------------------------------------
\* A call of the FTL fails, as it does for a page that does not exist.
Fails ==
  /\ pc # "idle"
  /\ Return(FALSE)
  /\ UNCHANGED <<flash, task, cursor, read, remain, buf, sent, calls>>

Reads  == ReadSmall \/ ReadHead \/ ReadPage \/ ReadRest
Writes == Erase \/ WritePage

Next ==
  \/ \E a \in Addresses, n \in 0 .. Size : a + n <= Size /\ ReadCall(a, n)
  \/ \E a \in Addresses, n \in 1 .. BlockSize : InBlock(a) + n <= BlockSize /\ WriteCall(a, n)
  \/ \E a \in Addresses : EraseCall(a)
  \/ Reads \/ Writes \/ Fails

Spec == Init /\ [][Next]_vars

-----------------------------------------------------------------------------
TypeOK ==
  /\ flash \in [Addresses -> Bytes] /\ before \in [Addresses -> Bytes]
  /\ pc \in {"idle", "small", "head", "pages", "rest", "erase", "write"}
  /\ op \in {"none", "read", "write", "erase"}
  /\ addr \in Addresses /\ size \in 0 .. Size
  /\ vBlock \in 0 .. Blocks /\ vPage \in 0 .. BlockPages - 1
  /\ align \in 0 .. BlockSize - 1 /\ count \in 0 .. Size /\ remain \in 0 .. BlockSize
  /\ buf \in Seq(Bytes) /\ sent \in 0 .. BlockSize
  /\ ok \in BOOLEAN /\ calls \in 0 .. MaxCalls

(***************************************************************************)
(* A read that succeeds has delivered the bytes asked for, however they lie*)
(* in pages and blocks.                                                    *)
(***************************************************************************)
ReadExact ==
  op = "read" /\ ok => buf = [i \in 1 .. size |-> flash[addr + i - 1]]

(***************************************************************************)
(* A read never needs a page that holds nothing of what is asked for: at   *)
(* the end of flash that page would not exist, and the read would fail.    *)
(***************************************************************************)
ReadsOnlyNeeded ==
  op = "read" /\ pc # "idle" =>
    /\ OnDevice
    /\ size > 0 => PageAddr(vBlock, vPage) < addr + size

(***************************************************************************)
(* A write inside a block that succeeds changes the bytes it is about and  *)
(* no other; a write to the start of a block does so on erased flash.      *)
(***************************************************************************)
Target == addr .. addr + size - 1

WriteExact ==
  op = "write" /\ ok =>
    \A x \in Addresses :
      IF x \in Target THEN align # 0 \/ before[x] = FF => flash[x] = Byte(x - addr + 1)
                      ELSE flash[x] = before[x]

(***************************************************************************)
(* Wherever a write is cut, the sector holds what it held, or a beginning  *)
(* of what it is to hold and erased flash behind it; no other sector has   *)
(* changed.  This is the tearing that FirmwarePatch allows a power loss.   *)
(***************************************************************************)
Torn(n) ==
  \A x \in Addresses :
    IF BlockOf(x) # BlockOf(addr) THEN flash[x] = before[x]
    ELSE flash[x] = IF InBlock(x) < n THEN Filled(InBlock(x) + 1) ELSE FF

TornInOrder ==
  op = "write" /\ (align # 0 \/ \A x \in Addresses : BlockOf(x) = BlockOf(addr) => before[x] = FF) =>
    flash = before \/ \E n \in 0 .. BlockSize : Torn(n)
=============================================================================
