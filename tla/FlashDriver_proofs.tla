------------------------- MODULE FlashDriver_proofs -------------------------
(***************************************************************************)
(* What holds of the flash driver for every size of pages, blocks and      *)
(* device: a read delivers the bytes asked for (ReadExact) and asks for no *)
(* page behind them (ReadsOnlyNeeded); a write that succeeds has changed   *)
(* the bytes it is about and no other (WriteExact), and wherever it is cut,*)
(* the sector holds a beginning of what it is to hold and erased flash     *)
(* behind it, and no other sector has changed (TornInOrder).               *)
(*                                                                         *)
(* ReadInv says where a read stands: what it has delivered is the flash    *)
(* from addr up to the cursor, and what remains is count pages and remain  *)
(* bytes.  It needs that the cursor, a block and a page, is an address     *)
(* (NextPageAddr, PageStart).                                              *)
(*                                                                         *)
(* WriteInv says where a write stands: the pages before the cursor carry   *)
(* what buf has for them, over what the sector held when the first page was*)
(* written (Ground).  It needs that a write never leaves its block, so that*)
(* the step to the next block in mi_bl_write_flash is never taken.         *)
(***************************************************************************)
EXTENDS FlashDriver, SequenceTheorems, TLAPS

-----------------------------------------------------------------------------
(* Numbers.                                                                *)

\* Division as the code does it, with a remainder.
LEMMA DivMod ==
  ASSUME NEW a \in Nat, NEW d \in Nat \ {0}
  PROVE  a = d * (a \div d) + (a % d) /\ a % d \in 0 .. d - 1 /\ a \div d \in Nat
BY SMT

\* The remainder is unique.
LEMMA ModUnique ==
  ASSUME NEW q \in Int, NEW s \in Int, NEW d \in Nat \ {0}, 0 <= s, s < d
  PROVE  (d * q + s) % d = s
BY SMT

\* Products of natural numbers are natural.
LEMMA Prod ==
  ASSUME NEW a \in Nat, NEW b \in Nat
  PROVE  a * b \in Nat
BY SMT

\* Products with the same factor compare as the others do.
LEMMA Mono ==
  ASSUME NEW a \in Int, NEW b \in Int, NEW d \in Nat, a * d < b * d
  PROVE  a < b
BY SMT

-----------------------------------------------------------------------------
(* Pages and bytes.                                                        *)

\* FTL_AddrToBlockPage of the start of a page is that page.
LEMMA PageStart ==
  ASSUME NEW a \in Addresses, a % PageSize = 0
  PROVE  /\ PageAddr(BlockOf(a), PageOf(a)) = a
         /\ PageOf(a) \in 0 .. BlockPages - 1 /\ BlockOf(a) \in 0 .. Blocks - 1
<1> DEFINE b == BlockOf(a)
           r == InBlock(a)
           p == PageOf(a)
           s == r % PageSize
<1>1. /\ BlockSize = BlockPages * PageSize
      /\ a \in Nat /\ a < Blocks * BlockSize
      /\ BlockSize \in Nat \ {0} /\ PageSize \in Nat \ {0}
      /\ BlockPages \in Nat \ {0} /\ Blocks \in Nat \ {0}
  BY FlashAssumption, Prod DEF Addresses, Size, BlockSize
<1>2. a = BlockSize * b + r /\ r \in 0 .. BlockSize - 1 /\ b \in Nat
  BY <1>1, DivMod DEF BlockOf, InBlock
<1>3. r = PageSize * p + s /\ s \in 0 .. PageSize - 1 /\ p \in Nat
  <2>1. p = r \div PageSize
    BY DEF PageOf
  <2> HIDE DEF b, r, p
  <2>2. r \in Nat
    BY <1>1, <1>2
  <2>3. r = PageSize * (r \div PageSize) + (r % PageSize)
        /\ r % PageSize \in 0 .. PageSize - 1 /\ r \div PageSize \in Nat
    BY <1>1, <2>2, DivMod, Zenon
  <2> QED BY <2>1, <2>3
<1> HIDE DEF b, r, p, s
<1>4. s = 0
  <2>1. a = PageSize * (BlockPages * b + p) + s
    BY <1>1, <1>2, <1>3
  <2>2. BlockPages * b + p \in Int
    BY <1>1, <1>2, <1>3
  <2> QED BY <1>1, <1>3, <2>1, <2>2, ModUnique
<1>5. p < BlockPages
  <2>1. p * PageSize < BlockPages * PageSize
    BY <1>1, <1>2, <1>3, <1>4
  <2> QED BY <1>1, <1>3, <2>1, Mono
<1>6. b < Blocks
  <2>1. b * BlockSize < Blocks * BlockSize
    BY <1>1, <1>2
  <2> QED BY <1>1, <1>2, <2>1, Mono
<1>7. b * BlockSize + p * PageSize = a
  BY <1>1, <1>2, <1>3, <1>4
<1> QED BY <1>1, <1>2, <1>3, <1>5, <1>6, <1>7 DEF PageAddr, b, p

\* n bytes of flash from address a on.
Slice(a, n) == [i \in 1 .. n |-> flash[a + i - 1]]

\* The address of the cursor.
At == PageAddr(vBlock, vPage)

\* "vPage++, and the next block at the end of one": the cursor moves on by a page.
LEMMA NextPageAddr ==
  ASSUME vBlock \in Nat, vPage \in 0 .. BlockPages - 1, NextPage
  PROVE  /\ At' = At + PageSize
         /\ vBlock' \in Nat /\ vPage' \in 0 .. BlockPages - 1
<1>1. PageSize \in Nat /\ BlockPages \in Nat \ {0}
  BY FlashAssumption
<1>2. CASE vPage + 1 > BlockPages - 1
  <2>1. vBlock' = vBlock + 1 /\ vPage' = 0 /\ BlockPages = vPage + 1
    BY <1>1, <1>2 DEF NextPage
  <2> QED BY <1>1, <2>1 DEF At, PageAddr, BlockSize
<1>3. CASE ~ (vPage + 1 > BlockPages - 1)
  <2>1. vBlock' = vBlock /\ vPage' = vPage + 1
    BY <1>3 DEF NextPage
  <2> QED BY <1>1, <1>3, <2>1 DEF At, PageAddr, BlockSize
<1> QED BY <1>2, <1>3

\* A page of the device lies inside it.
LEMMA PageInside ==
  ASSUME NEW b \in 0 .. Blocks - 1, NEW p \in 0 .. BlockPages - 1
  PROVE  PageAddr(b, p) \in Nat /\ PageAddr(b, p) + PageSize <= Size
<1>1. PageSize \in Nat /\ BlockPages \in Nat /\ Blocks \in Nat
  BY FlashAssumption
<1>2. PageAddr(b, p) = (b * BlockPages + p) * PageSize /\ Size = (Blocks * BlockPages) * PageSize
  BY <1>1 DEF PageAddr, Size, BlockSize
<1>3. b * BlockPages + p + 1 <= Blocks * BlockPages
  BY <1>1
<1>4. (b * BlockPages + p + 1) * PageSize <= (Blocks * BlockPages) * PageSize
  BY <1>1, <1>3
<1> QED BY <1>1, <1>2, <1>4

\* A cursor at an address inside the device is a page of it.
LEMMA BlockInside ==
  ASSUME vBlock \in Nat, vPage \in Nat, At < Size
  PROVE  vBlock < Blocks
<1>1. PageSize \in Nat /\ BlockPages \in Nat /\ Blocks \in Nat /\ BlockSize \in Nat
  BY FlashAssumption, Prod DEF BlockSize
<1>2. vBlock * BlockSize < Blocks * BlockSize
  BY <1>1 DEF At, PageAddr, Size
<1> QED BY <1>1, <1>2, Mono

\* Bytes of the device are a sequence of bytes.
LEMMA SliceIsSeq ==
  ASSUME flash \in [Addresses -> Int], NEW a \in Nat, NEW n \in Nat, a + n <= Size
  PROVE  Slice(a, n) \in Seq(Int) /\ Len(Slice(a, n)) = n
<1>1. Size \in Nat
  BY FlashAssumption, Prod DEF Size, BlockSize
<1>2. \A i \in 1 .. n : flash[a + i - 1] \in Int
  BY <1>1 DEF Addresses
<1> QED BY <1>2 DEF Slice

\* Bytes read one after the other are the bytes from the first on.
LEMMA SliceConcat ==
  ASSUME flash \in [Addresses -> Int], NEW a \in Nat, NEW n \in Nat, NEW k \in Nat, a + n + k <= Size
  PROVE  Slice(a, n) \o Slice(a + n, k) = Slice(a, n + k)
<1>1. Size \in Nat
  BY FlashAssumption, Prod DEF Size, BlockSize
<1>2. /\ Slice(a, n) \in Seq(Int) /\ Len(Slice(a, n)) = n
      /\ Slice(a + n, k) \in Seq(Int) /\ Len(Slice(a + n, k)) = k
      /\ Slice(a, n + k) \in Seq(Int) /\ Len(Slice(a, n + k)) = n + k
  BY <1>1, SliceIsSeq
<1>3. \A i \in 1 .. n + k : (Slice(a, n) \o Slice(a + n, k))[i] = Slice(a, n + k)[i]
  BY <1>1, <1>2 DEF Slice
<1>4. /\ Slice(a, n) \o Slice(a + n, k) \in Seq(Int)
      /\ Len(Slice(a, n) \o Slice(a + n, k)) = n + k
  BY <1>2, ConcatProperties
<1> QED BY <1>2, <1>3, <1>4, SeqEqual

-----------------------------------------------------------------------------
(* The invariant.                                                          *)

ReadSteps == {"small", "head", "pages", "rest"}

\* Types, and what pc says of op and ok.
ShapeOK ==
  /\ flash \in [Addresses -> Int]
  /\ pc \in {"idle", "erase", "write"} \cup ReadSteps
  /\ pc \in ReadSteps <=> op = "read" /\ pc # "idle"
  /\ ok => pc = "idle"
  /\ vBlock \in Nat /\ vPage \in Nat
  /\ buf \in Seq(Int) /\ sent \in Nat /\ remain \in Nat

\* Nobody reads beyond the device.
RequestOK == op = "read" => addr \in Addresses /\ size \in Nat /\ addr + size <= Size

\* Before the first page: the cursor is at the page of addr.
BeforeFirst ==
  pc \in {"small", "head"} =>
    /\ vPage < BlockPages
    /\ buf = <<>> /\ align \in 0 .. PageSize - 1
    /\ At = addr - align
    /\ pc = "small" => count = 0 /\ remain = size /\ size < PageSize
    /\ pc = "head" => align > 0 /\ size >= PageSize

\* After it: what was read is what precedes the cursor.
AfterFirst ==
  pc \in {"pages", "rest"} =>
    /\ vPage < BlockPages
    /\ count \in Nat /\ remain \in 0 .. PageSize - 1
    /\ Len(buf) <= size /\ buf = Slice(addr, Len(buf))
    /\ At = addr + Len(buf)
    /\ size - Len(buf) = count * PageSize + remain
    /\ pc = "pages" => count > 0
    /\ pc = "rest" => count = 0 /\ remain > 0

ReadInv == ShapeOK /\ RequestOK /\ BeforeFirst /\ AfterFirst /\ ReadExact

-----------------------------------------------------------------------------
(* Every step preserves it.                                                *)

\* At first nothing is read.
LEMMA InitRead == Init => ReadInv
<1> SUFFICES ASSUME Init PROVE ReadInv
  OBVIOUS
<1>1. Size \in Nat
  BY FlashAssumption, Prod DEF Size, BlockSize
<1> QED BY <1>1 DEF Init, ReadInv, ShapeOK, RequestOK, BeforeFirst, AfterFirst, ReadExact, Addresses, ReadSteps

\* The sizes rs_ua_flash_read computes first.
LEMMA ReadCallRead ==
  ASSUME ReadInv, NEW a \in Addresses, NEW n \in 0 .. Size, a + n <= Size, ReadCall(a, n)
  PROVE  ReadInv'
<1> DEFINE o == a % PageSize
           q == a - o
<1>1. PageSize \in Nat \ {0} /\ BlockPages \in Nat /\ Size \in Nat /\ a \in Nat
  BY FlashAssumption, Prod DEF Size, BlockSize, Addresses
<1>2. o \in 0 .. PageSize - 1 /\ q \in Addresses /\ q % PageSize = 0
  <2>1. a \in Nat /\ a < Size
    BY <1>1 DEF Addresses
  <2>2. a = PageSize * (a \div PageSize) + o /\ o \in 0 .. PageSize - 1 /\ a \div PageSize \in Nat
    BY <1>1, <2>1, DivMod
  <2> HIDE DEF o
  <2>3. q = PageSize * (a \div PageSize) + 0 /\ q >= 0
    BY <1>1, <2>1, <2>2
  <2>4. q % PageSize = 0
    <3>1. a \div PageSize \in Int
      BY <2>2
    <3> QED BY <1>1, <2>3, <3>1, ModUnique
  <2> QED BY <1>1, <2>1, <2>2, <2>3, <2>4 DEF Addresses
<1>3. /\ PageAddr(BlockOf(q), PageOf(q)) = q
      /\ PageOf(q) \in 0 .. BlockPages - 1 /\ BlockOf(q) \in 0 .. Blocks - 1
  BY <1>2, PageStart
<1>4. /\ align' = o /\ vBlock' = BlockOf(q) /\ vPage' = PageOf(q)
      /\ count' = n \div PageSize /\ remain' = n % PageSize
      /\ buf' = <<>> /\ sent' = 0 /\ ~ ok' /\ flash' = flash
      /\ pc' = IF n \div PageSize = 0 THEN "small" ELSE IF o # 0 THEN "head" ELSE "pages"
      /\ op' = "read" /\ addr' = a /\ size' = n
  BY DEF ReadCall, Call
<1>5. n = PageSize * (n \div PageSize) + (n % PageSize) /\ n % PageSize \in 0 .. PageSize - 1 /\ n \div PageSize \in Nat
  <2>1. n \in Nat
    BY <1>1
  <2> QED BY <1>1, <2>1, DivMod, Zenon
<1> HIDE DEF o, q
<1>6. q = a - o
  BY DEF q
<1>7. Slice(addr, Len(buf))' = <<>> /\ Len(buf)' = 0
  BY <1>4 DEF Slice
<1> DEFINE c == n \div PageSize
           r == n % PageSize
<1>8. n = c * PageSize + r /\ r \in 0 .. PageSize - 1 /\ c \in Nat
  BY <1>1, <1>5
<1>9. count' = c /\ remain' = r /\ pc' = IF c = 0 THEN "small" ELSE IF o # 0 THEN "head" ELSE "pages"
  BY <1>4
<1> HIDE DEF c, r
<1>10. ShapeOK' /\ RequestOK' /\ ReadExact'
  BY <1>1, <1>3, <1>4, <1>8, <1>9 DEF ReadInv, ShapeOK, RequestOK, ReadExact, ReadSteps
<1>11. BeforeFirst'
  <2>1. c # 0 => n >= PageSize
    BY <1>1, <1>8
  <2>2. c = 0 => r = n
    BY <1>1, <1>8
  <2>3. At' = a - o
    BY <1>3, <1>4, <1>6 DEF At, PageAddr
  <2> QED BY <1>1, <1>2, <1>3, <1>4, <1>8, <1>9, <2>1, <2>2, <2>3 DEF BeforeFirst
<1>12. AfterFirst'
  <2>1. At' = a - o
    BY <1>3, <1>4, <1>6 DEF At, PageAddr
  <2> QED BY <1>1, <1>2, <1>3, <1>4, <1>7, <1>8, <1>9, <2>1 DEF AfterFirst
<1> QED BY <1>10, <1>11, <1>12 DEF ReadInv

\* What is copied from the page under the cursor is what flash has there.
LEMMA CopiedIsSlice ==
  ASSUME ShapeOK, OnDevice, NEW from \in Nat, NEW to \in Nat, from <= to, to <= PageSize
  PROVE  /\ Copied(from, to) = Slice(At + from, to - from)
         /\ Copied(from, to) \in Seq(Int) /\ Len(Copied(from, to)) = to - from
         /\ At \in Nat /\ At + PageSize <= Size
<1>1. PageSize \in Nat /\ Size \in Nat /\ BlockPages \in Nat /\ Blocks \in Nat
  BY FlashAssumption, Prod DEF Size, BlockSize
<1>2. At \in Nat /\ At + PageSize <= Size
  BY <1>1, PageInside DEF At, OnDevice, ShapeOK
<1>3. Copied(from, to) = Slice(At + from, to - from)
  BY DEF Copied, Slice, At
<1>4. /\ At + from \in Nat /\ to - from \in Nat /\ (At + from) + (to - from) <= Size
      /\ flash \in [Addresses -> Int]
  BY <1>1, <1>2 DEF ShapeOK
<1> QED BY <1>2, <1>3, <1>4, SliceIsSeq

\* A read under way, with the types of all it uses.
Reading ==
  /\ ShapeOK /\ op = "read" /\ ~ ok /\ pc # "idle"
  /\ PageSize \in Nat \ {0} /\ BlockPages \in Nat /\ Size \in Nat
  /\ addr \in Nat /\ addr \in Addresses /\ size \in Nat /\ addr + size <= Size
  /\ vBlock \in Nat /\ vPage \in 0 .. BlockPages - 1

\* What is known while a read is under way.
LEMMA ReadingFacts ==
  ASSUME ReadInv, pc \in ReadSteps, OnDevice
  PROVE  Reading
<1>1. PageSize \in Nat \ {0} /\ BlockPages \in Nat /\ Size \in Nat
  BY FlashAssumption, Prod DEF Size, BlockSize
<1>2. ShapeOK /\ RequestOK
  BY DEF ReadInv
<1>3. op = "read" /\ ~ ok /\ pc # "idle" /\ vBlock \in Nat /\ vPage \in Nat
  BY <1>2 DEF ShapeOK, ReadSteps
<1>4. addr \in Addresses /\ addr \in Nat /\ size \in Nat /\ addr + size <= Size
  BY <1>1, <1>2, <1>3 DEF RequestOK, Addresses
<1> QED BY <1>1, <1>2, <1>3, <1>4 DEF OnDevice, Reading

\* The read under way ends with the bytes asked for.
LEMMA Done ==
  ASSUME Reading, UNCHANGED <<flash, task, sent>>,
         buf' = Slice(addr, size), Return(TRUE),
         vBlock' \in Nat, vPage' \in Nat, remain' \in Nat
  PROVE  ReadInv'
<1>1. /\ flash' = flash /\ op' = op /\ addr' = addr /\ size' = size /\ sent' = sent
      /\ pc' = "idle"
  BY DEF task, Return
<1>2. buf' \in Seq(Int)
  BY SliceIsSeq DEF Reading, ShapeOK
<1>3. ShapeOK'
  BY <1>1, <1>2 DEF Reading, ShapeOK, ReadSteps
<1>4. RequestOK' /\ BeforeFirst' /\ AfterFirst'
  BY <1>1 DEF Reading, RequestOK, BeforeFirst, AfterFirst
<1>5. ReadExact'
  BY <1>1 DEF ReadExact, Slice
<1> QED BY <1>3, <1>4, <1>5 DEF ReadInv

\* The read under way goes on with m bytes of it done.
LEMMA Onward ==
  ASSUME Reading, UNCHANGED <<flash, task, sent, ok>>,
         NEW m \in 0 .. size, buf' = Slice(addr, m),
         At' = addr + m, vBlock' \in Nat, vPage' \in 0 .. BlockPages - 1,
         count' \in Nat, remain' \in 0 .. PageSize - 1,
         size - m = count' * PageSize + remain',
         \/ pc' = "pages" /\ count' > 0
         \/ pc' = "rest" /\ count' = 0 /\ remain' > 0
  PROVE  ReadInv'
<1>1. /\ flash' = flash /\ op' = op /\ addr' = addr /\ size' = size /\ sent' = sent /\ ok' = ok
      /\ m \in Nat /\ m <= size
  BY DEF task, Reading
<1>2. buf' \in Seq(Int) /\ Len(buf') = m
  BY <1>1, SliceIsSeq DEF Reading, ShapeOK
<1>3. ShapeOK'
  BY <1>1, <1>2 DEF Reading, ShapeOK, ReadSteps
<1>4. RequestOK' /\ BeforeFirst' /\ ReadExact'
  BY <1>1 DEF Reading, RequestOK, BeforeFirst, ReadExact
<1>5. buf' = Slice(addr, Len(buf))'
  BY <1>1, <1>2 DEF Slice
<1>6. AfterFirst'
  <2>1. vPage' < BlockPages /\ Len(buf)' <= size' /\ At' = addr' + Len(buf)'
    BY <1>1, <1>2 DEF Reading
  <2>2. size' - Len(buf)' = count' * PageSize + remain'
    BY <1>1, <1>2
  <2> QED BY <1>5, <2>1, <2>2, Zenon DEF AfterFirst
<1> QED BY <1>3, <1>4, <1>6 DEF ReadInv

\* Section A.
LEMMA ReadSmallRead ==
  ASSUME ReadInv, ReadSmall
  PROVE  ReadInv'
<1>1. Reading /\ pc = "small"
  BY ReadingFacts DEF ReadSmall, ReadSteps
<1>2. /\ align \in 0 .. PageSize - 1 /\ At = addr - align
      /\ count = 0 /\ remain = size /\ size < PageSize
  BY <1>1 DEF ReadInv, BeforeFirst
<1>3. UNCHANGED <<flash, task, align, count, sent>> /\ OnDevice
  BY DEF ReadSmall, read
<1>4. CASE PageSize - align >= remain
  <2>1. buf' = Copied(align, align + remain) /\ Return(TRUE) /\ UNCHANGED <<vBlock, vPage, remain>>
    BY <1>4 DEF ReadSmall, cursor
  <2>2. /\ align \in Nat /\ align + remain \in Nat /\ align <= align + remain /\ align + remain <= PageSize
        /\ At + align = addr /\ (align + remain) - align = size
    BY <1>1, <1>2, <1>4 DEF Reading
  <2>3. buf' = Slice(addr, size)
    BY <1>1, <1>3, <2>1, <2>2, CopiedIsSlice DEF Reading
  <2> QED BY <1>1, <1>2, <1>3, <2>1, <2>3, Done DEF Reading
<1>5. CASE ~ (PageSize - align >= remain)
  <2> DEFINE n == PageSize - align
  <2>1. buf' = Copied(align, PageSize) /\ remain' = remain - n /\ pc' = "rest" /\ ok' = ok /\ NextPage
    BY <1>5 DEF ReadSmall
  <2>2. n \in 0 .. size /\ n < size /\ align \in Nat /\ At + align = addr
    BY <1>1, <1>2, <1>5 DEF Reading
  <2>3. buf' = Slice(addr, n)
    BY <1>1, <1>2, <1>3, <2>1, <2>2, CopiedIsSlice DEF Reading
  <2>4. At' = At + PageSize /\ vBlock' \in Nat /\ vPage' \in 0 .. BlockPages - 1
    BY <1>1, <2>1, NextPageAddr DEF Reading
  <2>5. At' = addr + n
    BY <1>1, <1>2, <2>4 DEF Reading
  <2>6. count' = 0 /\ remain' \in 1 .. PageSize - 1 /\ size - n = count' * PageSize + remain'
    BY <1>1, <1>2, <1>3, <2>1, <2>2 DEF Reading
  <2> HIDE DEF n
  <2> QED BY <1>1, <1>3, <2>1, <2>2, <2>3, <2>4, <2>5, <2>6, Onward
<1> QED BY <1>4, <1>5

\* Section B, the head.
LEMMA ReadHeadRead ==
  ASSUME ReadInv, ReadHead
  PROVE  ReadInv'
<1> DEFINE n == PageSize - align
           left == size - n
           c == left \div PageSize
           r == left % PageSize
<1>1. Reading /\ pc = "head"
  BY ReadingFacts DEF ReadHead, ReadSteps
<1>2. /\ align \in 1 .. PageSize - 1 /\ At = addr - align /\ size >= PageSize
  BY <1>1 DEF ReadInv, BeforeFirst, Reading
<1>3. /\ UNCHANGED <<flash, task, sent, ok>> /\ OnDevice /\ NextPage
      /\ buf' = Copied(align, PageSize) /\ count' = c /\ remain' = r
      /\ pc' = IF c = 0 THEN "rest" ELSE "pages"
  BY DEF ReadHead
<1>4. n \in 0 .. size /\ align \in Nat /\ At + align = addr /\ left \in Nat /\ left > 0
  BY <1>1, <1>2 DEF Reading
<1>5. buf' = Slice(addr, n)
  BY <1>1, <1>2, <1>3, <1>4, CopiedIsSlice DEF Reading
<1>6. At' = At + PageSize /\ vBlock' \in Nat /\ vPage' \in 0 .. BlockPages - 1
  BY <1>1, <1>3, NextPageAddr DEF Reading
<1>7. At' = addr + n
  BY <1>1, <1>2, <1>6 DEF Reading
<1>8. left = PageSize * c + r /\ r \in 0 .. PageSize - 1 /\ c \in Nat
  <2> HIDE DEF left
  <2> QED BY <1>1, <1>4, DivMod, Zenon DEF Reading
<1>9. size - n = left
  BY <1>1, <1>4 DEF Reading
<1> HIDE DEF n, left, c, r
<1>10. size - n = count' * PageSize + remain' /\ remain' \in 0 .. PageSize - 1 /\ count' \in Nat
  BY <1>1, <1>3, <1>8, <1>9 DEF Reading
<1>11. c = 0 => remain' > 0
  BY <1>1, <1>3, <1>4, <1>8 DEF Reading
<1> QED BY <1>1, <1>3, <1>4, <1>5, <1>6, <1>7, <1>8, <1>10, <1>11, Onward

\* Section B, the whole pages.
LEMMA ReadPageRead ==
  ASSUME ReadInv, ReadPage
  PROVE  ReadInv'
<1> DEFINE n == Len(buf)
           m == n + PageSize
<1>1. Reading /\ pc = "pages"
  BY ReadingFacts DEF ReadPage, ReadSteps
<1>2. /\ count \in Nat \ {0} /\ remain \in 0 .. PageSize - 1
      /\ n \in Nat /\ n <= size /\ buf = Slice(addr, n) /\ At = addr + n
      /\ size - n = count * PageSize + remain
  BY <1>1 DEF ReadInv, AfterFirst, Reading, ShapeOK
<1>3. /\ UNCHANGED <<flash, task, remain, sent>> /\ OnDevice /\ NextPage
      /\ buf' = buf \o Copied(0, PageSize) /\ count' = count - 1
  BY DEF ReadPage
<1> HIDE DEF n
<1>4. size - m = (count - 1) * PageSize + remain /\ m \in Nat
  BY <1>1, <1>2 DEF Reading
<1>5. (count - 1) * PageSize \in Nat
  BY <1>1, <1>2, Prod DEF Reading
<1>6. m \in 0 .. size
  BY <1>1, <1>2, <1>4, <1>5 DEF Reading
<1>7. buf' = Slice(addr, m)
  <2>1. Copied(0, PageSize) = Slice(addr + n, PageSize)
    BY <1>1, <1>2, <1>3, CopiedIsSlice DEF Reading
  <2>2. flash \in [Addresses -> Int] /\ PageSize \in Nat /\ addr \in Nat /\ addr + n + PageSize <= Size
    BY <1>1, <1>2, <1>6 DEF Reading, ShapeOK
  <2>3. Slice(addr, n) \o Slice(addr + n, PageSize) = Slice(addr, n + PageSize)
    BY <1>2, <2>2, SliceConcat, Zenon
  <2> QED BY <1>2, <1>3, <2>1, <2>3
<1>8. At' = At + PageSize /\ vBlock' \in Nat /\ vPage' \in 0 .. BlockPages - 1
  BY <1>1, <1>3, NextPageAddr DEF Reading
<1>9. At' = addr + m
  BY <1>1, <1>2, <1>8 DEF Reading
<1> HIDE DEF m
<1>10. CASE count = 1 /\ remain = 0 /\ Return(TRUE)
  <2>1. m = size
    BY <1>1, <1>4, <1>6, <1>10 DEF Reading
  <2> QED BY <1>1, <1>3, <1>7, <1>8, <1>10, <2>1, Done DEF Reading
<1>11. CASE \/ count > 1 /\ UNCHANGED <<pc, ok>>
            \/ count = 1 /\ remain # 0 /\ pc' = "rest" /\ UNCHANGED ok
  <2>1. count' \in Nat /\ remain' \in 0 .. PageSize - 1 /\ size - m = count' * PageSize + remain'
    BY <1>1, <1>2, <1>3, <1>4 DEF Reading
  <2>2. \/ pc' = "pages" /\ count' > 0
        \/ pc' = "rest" /\ count' = 0 /\ remain' > 0
    BY <1>1, <1>2, <1>3, <1>11 DEF Reading
  <2> QED BY <1>1, <1>3, <1>6, <1>7, <1>8, <1>9, <1>11, <2>1, <2>2, Onward
<1> QED BY <1>10, <1>11 DEF ReadPage

\* The rest, of section A.2 or B.
LEMMA ReadRestRead ==
  ASSUME ReadInv, ReadRest
  PROVE  ReadInv'
<1> DEFINE n == Len(buf)
<1>1. Reading /\ pc = "rest"
  BY ReadingFacts DEF ReadRest, ReadSteps
<1>2. /\ count = 0 /\ remain \in 0 .. PageSize - 1
      /\ n \in Nat /\ n <= size /\ buf = Slice(addr, n) /\ At = addr + n
      /\ size - n = count * PageSize + remain
  BY <1>1 DEF ReadInv, AfterFirst, Reading, ShapeOK
<1>3. /\ UNCHANGED <<flash, task, vBlock, vPage, remain, sent>> /\ OnDevice
      /\ buf' = buf \o Copied(0, remain) /\ Return(TRUE)
  BY DEF ReadRest, cursor
<1> HIDE DEF n
<1>4. size = n + remain
  BY <1>1, <1>2 DEF Reading
<1>5. Copied(0, remain) = Slice(addr + n, remain)
  BY <1>1, <1>2, <1>3, CopiedIsSlice DEF Reading
<1>6. buf' = Slice(addr, size)
  <2>1. /\ flash \in [Addresses -> Int] /\ remain \in Nat /\ addr \in Nat
        /\ addr + n + remain <= Size
    BY <1>1, <1>2, <1>4 DEF Reading, ShapeOK
  <2>2. Slice(addr, n) \o Slice(addr + n, remain) = Slice(addr, n + remain)
    BY <1>2, <2>1, SliceConcat, Zenon
  <2> QED BY <1>2, <1>3, <1>4, <1>5, <2>2
<1> QED BY <1>1, <1>2, <1>3, <1>6, Done DEF Reading

\* Whatever is not a read leaves ShapeOK as all there is to show.
LEMMA NotReading ==
  ASSUME ShapeOK', op' # "read"
  PROVE  ReadInv'
BY DEF ReadInv, ShapeOK, RequestOK, BeforeFirst, AfterFirst, ReadExact, ReadSteps

\* The block of an address lies inside the device.
LEMMA BlockStart ==
  ASSUME NEW a \in Addresses
  PROVE  /\ BlockSize \in Nat \ {0} /\ Size \in Nat /\ a \in Nat
         /\ InBlock(a) \in 0 .. BlockSize - 1 /\ PageOf(a) \in Nat /\ BlockOf(a) \in Nat
         /\ a - InBlock(a) \in Nat /\ a - InBlock(a) + BlockSize <= Size
         /\ BlockOf(a - InBlock(a)) \in Nat
<1>1. /\ PageSize \in Nat \ {0} /\ BlockSize \in Nat \ {0} /\ Blocks \in Nat
      /\ Size \in Nat /\ a \in Nat /\ a < Size
  BY FlashAssumption, Prod DEF Addresses, Size, BlockSize
<1>2. /\ a = BlockSize * BlockOf(a) + InBlock(a)
      /\ InBlock(a) \in 0 .. BlockSize - 1 /\ BlockOf(a) \in Nat
  BY <1>1, DivMod DEF BlockOf, InBlock
<1>3. PageOf(a) \in Nat
  <2>1. InBlock(a) \in Nat
    BY <1>1, <1>2
  <2> QED BY <1>1, <2>1, DivMod, Zenon DEF PageOf
<1>4. a - InBlock(a) = BlockSize * BlockOf(a) /\ a - InBlock(a) \in Nat
  BY <1>1, <1>2, Prod
<1>5. BlockOf(a - InBlock(a)) \in Nat
  BY <1>1, <1>4, DivMod, Zenon DEF BlockOf
<1>6. BlockOf(a) < Blocks
  <2>1. BlockOf(a) * BlockSize < Blocks * BlockSize
    BY <1>1, <1>2 DEF Size
  <2> QED BY <1>1, <1>2, <2>1, Mono
<1>7. (BlockOf(a) + 1) * BlockSize <= Blocks * BlockSize
  BY <1>1, <1>2, <1>6
<1>8. a - InBlock(a) + BlockSize <= Size
  BY <1>1, <1>2, <1>4, <1>7 DEF Size
<1> QED BY <1>1, <1>2, <1>3, <1>4, <1>5, <1>8

\* arch_write_flash leaves reads alone.
LEMMA WriteCallRead ==
  ASSUME ReadInv, NEW a \in Addresses, NEW n \in 1 .. BlockSize, InBlock(a) + n <= BlockSize, WriteCall(a, n)
  PROVE  ReadInv'
<1> DEFINE s == a - InBlock(a)
           new == [i \in 1 .. n |-> Byte(i)]
           all == [i \in 1 .. BlockSize |->
                     IF i > InBlock(a) /\ i <= InBlock(a) + n THEN Byte(i - InBlock(a)) ELSE flash[s + i - 1]]
<1>1. /\ BlockSize \in Nat \ {0} /\ Size \in Nat /\ s \in Nat /\ s + BlockSize <= Size
      /\ InBlock(a) \in 0 .. BlockSize - 1 /\ BlockOf(s) \in Nat
  BY BlockStart
<1>2. flash \in [Addresses -> Int]
  BY DEF ReadInv, ShapeOK
<1>3. /\ flash' = flash /\ op' = "write" /\ pc' \in {"write", "erase"} /\ ok' = FALSE
      /\ vBlock' = BlockOf(s) /\ vPage' = 0 /\ sent' = 0
      /\ \/ buf' = new /\ remain' = n
         \/ buf' = all /\ remain' = BlockSize
  BY DEF WriteCall, Call
<1> HIDE DEF s
<1>4. new \in Seq(Int)
  BY <1>1 DEF Byte
<1>5. all \in Seq(Int)
  <2>1. \A i \in 1 .. BlockSize : s + i - 1 \in Addresses
    BY <1>1 DEF Addresses
  <2>2. \A i \in 1 .. BlockSize :
           (IF i > InBlock(a) /\ i <= InBlock(a) + n THEN Byte(i - InBlock(a)) ELSE flash[s + i - 1]) \in Int
    BY <1>1, <1>2, <2>1 DEF Byte
  <2> QED BY <1>1, <2>2
<1>6. buf' \in Seq(Int)
  BY <1>3, <1>4, <1>5
<1>7. ShapeOK'
  BY <1>1, <1>2, <1>3, <1>6 DEF ShapeOK, ReadSteps
<1> QED BY <1>3, <1>7, NotReading

\* mi_bl_earse_flash leaves reads alone.
LEMMA EraseCallRead ==
  ASSUME ReadInv, NEW a \in Addresses, EraseCall(a)
  PROVE  ReadInv'
<1>1. PageOf(a) \in Nat /\ BlockOf(a) \in Nat
  BY BlockStart
<1>2. /\ flash' = flash /\ op' = "erase" /\ pc' \in {"erase", "idle"} /\ ok' = FALSE
      /\ vBlock' = BlockOf(a) /\ vPage' = PageOf(a) /\ sent' = 0 /\ buf' = <<>> /\ remain' = 0
  BY DEF EraseCall, Call
<1>3. ShapeOK'
  BY <1>1, <1>2 DEF ReadInv, ShapeOK, ReadSteps
<1> QED BY <1>2, <1>3, NotReading

\* An erased block is still bytes.
LEMMA EraseRead ==
  ASSUME ReadInv, Erase
  PROVE  ReadInv'
<1>1. ShapeOK /\ pc = "erase" /\ op # "read"
  BY DEF Erase, ReadInv, ShapeOK, ReadSteps
<1>2. /\ UNCHANGED <<op, vBlock, vPage, remain, buf, sent>> /\ flash' = EraseBlock
      /\ \/ pc' = "idle" /\ ok' = TRUE
         \/ pc' = "write" /\ ok' = ok
  BY DEF Erase, Return, task, cursor
<1>3. flash' \in [Addresses -> Int]
  BY <1>1, <1>2 DEF EraseBlock, FF, ShapeOK
<1>4. ShapeOK'
  BY <1>1, <1>2, <1>3 DEF ShapeOK, ReadSteps
<1> QED BY <1>1, <1>2, <1>4, NotReading

\* A page that is written is still bytes.
LEMMA WritePageRead ==
  ASSUME ReadInv, WritePage
  PROVE  ReadInv'
<1>1. ShapeOK /\ pc = "write" /\ op # "read"
  BY DEF WritePage, ReadInv, ShapeOK, ReadSteps
<1>2. PICK from \in Int :
        flash' = [x \in Addresses |->
                    IF x >= from /\ x < from + PageSize
                      THEN Over(flash[x], Filled(sent + (x - from) + 1)) ELSE flash[x]]
  <2> DEFINE wrap == ~ (remain <= PageSize) /\ vPage > BlockPages - 1
             b == IF wrap THEN vBlock + 1 ELSE vBlock
             p == IF wrap THEN 0 ELSE vPage
  <2>1. flash' = [x \in Addresses |->
                    IF x >= PageAddr(b, p) /\ x < PageAddr(b, p) + PageSize
                      THEN Over(flash[x], Filled(sent + (x - PageAddr(b, p)) + 1)) ELSE flash[x]]
    BY DEF WritePage
  <2>2. b \in Nat /\ p \in Nat
    BY <1>1 DEF ShapeOK
  <2> HIDE DEF b, p
  <2>3. PageAddr(b, p) \in Int
    BY <2>2, FlashAssumption, Prod DEF PageAddr, BlockSize
  <2> QED BY <2>1, <2>3
<1>3. flash' \in [Addresses -> Int]
  <2>1. \A i \in Int : i >= 1 => Filled(i) \in Int
    BY <1>1 DEF Filled, FF, ShapeOK
  <2>2. \A x \in Addresses : x \in Int
    BY FlashAssumption, Prod DEF Addresses, Size, BlockSize
  <2>3. ASSUME NEW x \in Addresses, x >= from
        PROVE  Over(flash[x], Filled(sent + (x - from) + 1)) \in Int
    <3>1. flash[x] \in Int /\ Filled(sent + (x - from) + 1) \in Int
      BY <1>1, <2>1, <2>2, <2>3 DEF ShapeOK
    <3> QED BY <3>1 DEF Over, FF, Mixed
  <2> QED BY <1>1, <1>2, <2>3 DEF ShapeOK
<1>4. /\ UNCHANGED <<op, buf>> /\ sent' \in Nat /\ remain' \in Nat /\ vBlock' \in Nat /\ vPage' \in Nat
      /\ \/ pc' = "idle" /\ ok' = TRUE
         \/ pc' = "write" /\ ok' = ok
  BY <1>1, FlashAssumption DEF WritePage, Return, task, cursor, ShapeOK
<1>5. ShapeOK'
  BY <1>1, <1>3, <1>4 DEF ShapeOK, ReadSteps
<1> QED BY <1>1, <1>4, <1>5, NotReading

\* A read that fails has nothing to show.
LEMMA FailsRead ==
  ASSUME ReadInv, Fails
  PROVE  ReadInv'
<1>1. UNCHANGED <<flash, op, addr, size, vBlock, vPage, remain, buf, sent>> /\ pc' = "idle" /\ ok' = FALSE
  BY DEF Fails, Return, task, cursor
<1>2. ShapeOK' /\ RequestOK'
  BY <1>1 DEF ReadInv, ShapeOK, RequestOK, ReadSteps
<1> QED BY <1>1, <1>2 DEF ReadInv, BeforeFirst, AfterFirst, ReadExact

\* Nothing happens.
LEMMA StutterRead ==
  ASSUME ReadInv, UNCHANGED vars
  PROVE  ReadInv'
<1>1. UNCHANGED <<flash, pc, op, addr, size, vBlock, vPage, align, count, remain, buf, sent, ok>>
  BY DEF vars, task, cursor, read
<1>2. UNCHANGED <<At, Slice(addr, Len(buf))>>
  BY <1>1 DEF At, PageAddr, Slice
<1> QED BY <1>1, <1>2 DEF ReadInv, ShapeOK, RequestOK, BeforeFirst, AfterFirst, ReadExact

-----------------------------------------------------------------------------
(* The theorems.                                                           *)

\* ReadInv is inductive: one lemma for each action.
LEMMA ReadsKeepInv == Spec => []ReadInv
<1>1. ReadInv /\ [Next]_vars => ReadInv'
  <2> SUFFICES ASSUME ReadInv, [Next]_vars PROVE ReadInv'
    OBVIOUS
  <2> QED BY ReadCallRead, ReadSmallRead, ReadHeadRead, ReadPageRead, ReadRestRead, WriteCallRead,
             EraseCallRead, EraseRead, WritePageRead, FailsRead, StutterRead DEF Next, Reads, Writes
<1> QED BY InitRead, <1>1, PTL DEF Spec

\* A read under way has a byte to fetch from the page under the cursor.
LEMMA NeededFollows == ReadInv => ReadsOnlyNeeded
<1> SUFFICES ASSUME ReadInv, op = "read", pc # "idle"
             PROVE  OnDevice /\ (size > 0 => At < addr + size)
  BY DEF ReadsOnlyNeeded, At
<1>1. /\ pc \in ReadSteps /\ vBlock \in Nat /\ vPage \in Nat
      /\ addr \in Addresses /\ size \in Nat /\ addr + size <= Size
  BY DEF ReadInv, ShapeOK, RequestOK
<1>2. /\ PageSize \in Nat \ {0} /\ BlockPages \in Nat /\ Blocks \in Nat /\ Size \in Nat
      /\ addr \in Nat /\ addr < Size
  BY <1>1, FlashAssumption, Prod DEF Size, BlockSize, Addresses
<1>3. vPage < BlockPages /\ At < Size /\ (size > 0 => At < addr + size)
  <2>1. CASE pc \in {"small", "head"}
    BY <1>1, <1>2, <2>1 DEF ReadInv, BeforeFirst
  <2>2. CASE pc \in {"pages", "rest"}
    <3> DEFINE n == Len(buf)
    <3>1. /\ vPage < BlockPages /\ n \in Nat /\ At = addr + n
          /\ count \in Nat /\ remain \in Nat /\ size - n = count * PageSize + remain
          /\ count > 0 \/ remain > 0
      BY <1>2, <2>2 DEF ReadInv, AfterFirst, ShapeOK
    <3> HIDE DEF n
    <3>2. count * PageSize \in Nat /\ (count > 0 => count * PageSize > 0)
      BY <1>2, <3>1
    <3>3. n < size
      BY <1>1, <3>1, <3>2
    <3> QED BY <1>1, <1>2, <3>1, <3>3
  <2> QED BY <1>1, <2>1, <2>2 DEF ReadSteps
<1>4. vBlock < Blocks
  BY <1>1, <1>3, BlockInside
<1> QED BY <1>3, <1>4 DEF OnDevice

(***************************************************************************)
(* Whatever the sizes of pages and blocks, a read that succeeds delivers   *)
(* the bytes of flash it was asked for, in each of the seven ways in which *)
(* rs_ua_flash_read splits it.                                             *)
(***************************************************************************)
THEOREM ReadsAreExact == Spec => []ReadExact
<1>1. ReadInv => ReadExact
  BY DEF ReadInv
<1> QED BY ReadsKeepInv, <1>1, PTL

(***************************************************************************)
(* No read asks the FTL for a page that holds none of its bytes, so that   *)
(* none fails at the end of the device.                                    *)
(***************************************************************************)
THEOREM ReadsStayInside == Spec => []ReadsOnlyNeeded
BY ReadsKeepInv, NeededFollows, PTL

-----------------------------------------------------------------------------
(* Blocks and bytes.                                                       *)

\* The quotient is unique.
LEMMA DivUnique ==
  ASSUME NEW q \in Int, NEW s \in Int, NEW d \in Nat \ {0}, 0 <= s, s < d
  PROVE  (d * q + s) \div d = q
BY SMT

\* An address is a block and a place in it.
LEMMA AddressParts ==
  ASSUME NEW x \in Addresses
  PROVE  /\ x \in Int /\ BlockSize \in Nat \ {0}
         /\ BlockOf(x) \in Nat /\ BlockOf(x) < Blocks /\ InBlock(x) \in 0 .. BlockSize - 1
         /\ x = BlockOf(x) * BlockSize + InBlock(x)
<1>1. /\ BlockSize \in Nat \ {0} /\ Blocks \in Nat /\ x \in Nat /\ x < Blocks * BlockSize
  BY FlashAssumption, Prod DEF Addresses, Size, BlockSize
<1>2. /\ x = BlockSize * BlockOf(x) + InBlock(x)
      /\ InBlock(x) \in 0 .. BlockSize - 1 /\ BlockOf(x) \in Nat
  BY <1>1, DivMod DEF BlockOf, InBlock
<1>3. BlockOf(x) < Blocks
  <2>1. BlockOf(x) * BlockSize < Blocks * BlockSize
    BY <1>1, <1>2
  <2> QED BY <1>1, <1>2, <2>1, Mono
<1> QED BY <1>1, <1>2, <1>3

\* An address between the ends of a block is in it.
LEMMA PartsAddress ==
  ASSUME NEW b \in Nat, NEW j \in Int, 0 <= j, j < BlockSize, BlockSize \in Nat \ {0}
  PROVE  BlockOf(b * BlockSize + j) = b /\ InBlock(b * BlockSize + j) = j
<1>1. b * BlockSize + j = BlockSize * b + j
  OBVIOUS
<1> QED BY <1>1, DivUnique, ModUnique DEF BlockOf, InBlock

-----------------------------------------------------------------------------
(* The invariant.                                                          *)

\* The request: bytes of one block.
WriteRequest ==
  /\ addr \in Addresses /\ size \in 1 .. BlockSize
  /\ align = InBlock(addr) /\ align + size <= BlockSize
  /\ before \in [Addresses -> Int]

\* What is to be written: the bytes of the caller, with those of the block
\* around them unless they begin it.
WriteBuffer ==
  LET start == addr - align
  IN  IF align = 0
        THEN buf = [i \in 1 .. size |-> Byte(i)]
        ELSE buf = [i \in 1 .. BlockSize |->
                      IF i > align /\ i <= align + size THEN Byte(i - align) ELSE before[start + i - 1]]

\* What a byte of the sector is when the write of the pages begins.
Ground(x) == IF align = 0 THEN before[x] ELSE FF

\* Flash while the pages are written: the first sent bytes of the block are.
Written ==
  \A x \in Addresses :
    flash[x] = IF BlockOf(x) # BlockOf(addr) THEN before[x]
               ELSE IF InBlock(x) < sent THEN Over(Ground(x), Filled(InBlock(x) + 1)) ELSE Ground(x)

\* The cursor of a write is behind what was sent, in the block of addr.
WriteCursor ==
  /\ vBlock = BlockOf(addr) /\ vPage \in 0 .. BlockPages - 1
  /\ sent = vPage * PageSize /\ remain = Len(buf) - sent /\ remain > 0

Writing ==
  /\ WriteRequest /\ WriteBuffer /\ sent <= Len(buf)
  /\ flash = before \/ Written
  /\ pc \in {"erase", "write"} => WriteCursor
  /\ pc = "erase" => align # 0 /\ sent = 0 /\ flash = before
  /\ pc = "write" => Written
  /\ ok => Written /\ sent = Len(buf)

WriteInv ==
  /\ pc = "write" => op = "write"
  /\ op = "write" => Writing

-----------------------------------------------------------------------------
(* Every step preserves it.                                                *)

\* A byte that is erased takes what is written, and writing FF changes none.
LEMMA OverFacts ==
  ASSUME NEW o, NEW n
  PROVE  Over(FF, n) = n /\ Over(o, FF) = o
BY DEF Over

\* At the end of the buffer there is nothing but FF: the rest of a page changes nothing.
LEMMA BehindBuffer ==
  ASSUME NEW i \in Int, i > Len(buf), NEW o
  PROVE  Over(o, Filled(i)) = o
<1>1. Len(buf) < i => Filled(i) = FF
  BY DEF Filled
<1> QED BY <1>1, OverFacts

\* The buffer is as long as what remains to be written at first, and no longer than a block.
LEMMA BufferLength ==
  ASSUME WriteRequest, WriteBuffer
  PROVE  /\ Len(buf) \in 1 .. BlockSize
         /\ align = 0 => Len(buf) = size
         /\ align # 0 => Len(buf) = BlockSize
<1>1. BlockSize \in Nat \ {0} /\ align \in 0 .. BlockSize - 1 /\ size \in 1 .. BlockSize
  BY AddressParts DEF WriteRequest
<1>2. CASE align = 0
  BY <1>1, <1>2 DEF WriteBuffer
<1>3. CASE align # 0
  BY <1>1, <1>3 DEF WriteBuffer
<1> QED BY <1>2, <1>3

\* The call reads the block when it is to keep parts of it.
LEMMA WriteCallWrites ==
  ASSUME ReadInv, NEW a \in Addresses, NEW n \in 1 .. BlockSize, InBlock(a) + n <= BlockSize, WriteCall(a, n)
  PROVE  WriteInv'
<1> DEFINE s == a - InBlock(a)
           new == [i \in 1 .. n |-> Byte(i)]
           all == [i \in 1 .. BlockSize |->
                     IF i > InBlock(a) /\ i <= InBlock(a) + n THEN Byte(i - InBlock(a)) ELSE flash[s + i - 1]]
<1>1. flash \in [Addresses -> Int] /\ BlockPages \in Nat \ {0} /\ PageSize \in Nat
  BY FlashAssumption DEF ReadInv, ShapeOK
<1>2. /\ flash' = flash /\ before' = flash /\ op' = "write" /\ addr' = a /\ size' = n
      /\ align' = InBlock(a) /\ ok' = FALSE
      /\ vBlock' = BlockOf(s) /\ vPage' = 0 /\ sent' = 0
      /\ \/ align' = 0 /\ buf' = new /\ remain' = n /\ pc' = "write"
         \/ align' # 0 /\ buf' = all /\ remain' = BlockSize /\ pc' = "erase"
  BY DEF WriteCall, Call
<1>3. /\ BlockSize \in Nat \ {0} /\ InBlock(a) \in 0 .. BlockSize - 1 /\ a \in Int
      /\ BlockOf(a) \in Nat /\ s = BlockOf(a) * BlockSize + 0
  BY AddressParts
<1>4. BlockOf(s) = BlockOf(a)
  BY <1>3, PartsAddress
<1> HIDE DEF s
<1>5. WriteRequest'
  BY <1>1, <1>2 DEF WriteRequest
<1>6. WriteBuffer' /\ Len(buf)' = remain' /\ remain' > 0
  <2>1. CASE align' = 0 /\ buf' = new /\ remain' = n
    BY <1>2, <1>3, <2>1 DEF WriteBuffer, Byte
  <2>2. CASE align' # 0 /\ buf' = all /\ remain' = BlockSize
    BY <1>2, <1>3, <2>2 DEF WriteBuffer, s, Byte
  <2> QED BY <1>2, <2>1, <2>2
<1> HIDE DEF new, all
<1>7. pc' = "write" => Written'
  <2> SUFFICES ASSUME pc' = "write" PROVE Written'
    OBVIOUS
  <2>1. align' = 0
    BY <1>2
  <2>2. \A x \in Addresses : InBlock(x) \in 0 .. BlockSize - 1
    BY AddressParts
  <2> QED BY <1>2, <1>3, <2>1, <2>2 DEF Written, Ground
<1>8. WriteCursor'
  BY <1>1, <1>2, <1>4, <1>6 DEF WriteCursor
<1> QED BY <1>2, <1>5, <1>6, <1>7, <1>8 DEF WriteInv, Writing

\* The block is erased.
LEMMA EraseWrites ==
  ASSUME ReadInv, WriteInv, Erase
  PROVE  WriteInv'
<1>0. pc' = "write" => op' = "write"
  BY DEF Erase, Return, task
<1> SUFFICES ASSUME op' = "write" PROVE Writing'
  BY <1>0 DEF WriteInv
<1>1. /\ UNCHANGED <<op, addr, size, before, vBlock, vPage, align, remain, buf, sent, ok>>
      /\ pc = "erase" /\ flash' = EraseBlock /\ pc' = "write"
  BY DEF Erase, task, cursor, read
<1>2. /\ WriteRequest /\ WriteBuffer /\ sent = 0 /\ flash = before /\ WriteCursor /\ align # 0 /\ ~ ok
      /\ sent <= Len(buf)
  BY <1>1 DEF WriteInv, Writing, ReadInv, ShapeOK
<1>3. WriteRequest' /\ WriteBuffer' /\ WriteCursor' /\ (sent <= Len(buf))'
  BY <1>1, <1>2 DEF WriteRequest, WriteBuffer, WriteCursor
<1>4. Written'
  <2>1. \A x \in Addresses : InBlock(x) \in 0 .. BlockSize - 1 /\ BlockSize \in Nat
    BY AddressParts
  <2>2. vBlock = BlockOf(addr)
    BY <1>2 DEF WriteCursor
  <2>3. \A x \in Addresses : flash'[x] = IF BlockOf(x) = BlockOf(addr) THEN FF ELSE before[x]
    BY <1>1, <1>2, <2>2 DEF EraseBlock
  <2> QED BY <1>1, <1>2, <2>1, <2>3 DEF Written, Ground
<1> QED BY <1>1, <1>2, <1>3, <1>4 DEF Writing

\* What a write under way knows of its page: it lies in the block of addr.
PageFacts ==
  /\ op = "write" /\ pc = "write" /\ ~ ok
  /\ WriteRequest /\ WriteBuffer /\ WriteCursor /\ Written
  /\ PageSize \in Nat \ {0} /\ BlockSize \in Nat \ {0}
  /\ BlockOf(addr) \in Nat
  /\ sent \in Nat /\ sent + PageSize <= BlockSize
  /\ Len(buf) \in 1 .. BlockSize /\ sent < Len(buf)

\* While a page is to be written, all of that is known.
LEMMA WritingPage ==
  ASSUME ReadInv, WriteInv, pc = "write"
  PROVE  PageFacts
<1>1. op = "write" /\ ~ ok
  BY DEF WriteInv, ReadInv, ShapeOK
<1>2. WriteRequest /\ WriteBuffer /\ WriteCursor /\ Written
  BY <1>1 DEF WriteInv, Writing
<1>3. PageSize \in Nat \ {0} /\ BlockPages \in Nat /\ BlockSize = BlockPages * PageSize
  BY FlashAssumption DEF BlockSize
<1>4. BlockSize \in Nat \ {0} /\ BlockOf(addr) \in Nat
  BY <1>2, AddressParts DEF WriteRequest
<1>5. vPage \in 0 .. BlockPages - 1 /\ sent = vPage * PageSize
  BY <1>2 DEF WriteCursor
<1>6. Len(buf) \in 1 .. BlockSize
  BY <1>2, BufferLength
<1>7. sent \in Nat
  BY <1>3, <1>5
<1>8. sent + PageSize <= BlockSize
  <2>1. (vPage + 1) * PageSize <= BlockPages * PageSize
    BY <1>3, <1>5
  <2> QED BY <1>3, <1>5, <2>1
<1>9. sent < Len(buf)
  BY <1>2, <1>4, <1>6, <1>7 DEF WriteCursor
<1> QED BY <1>1, <1>2, <1>3, <1>4, <1>6, <1>7, <1>8, <1>9 DEF PageFacts

\* The page the cursor is at gets what buf has for it; the step to the next block never
\* is taken.
LEMMA PageWritten ==
  ASSUME PageFacts, WritePage
  PROVE  /\ \A x \in Addresses :
              flash'[x] = IF BlockOf(x) = BlockOf(addr) /\ InBlock(x) >= sent /\ InBlock(x) < sent + PageSize
                            THEN Over(flash[x], Filled(InBlock(x) + 1)) ELSE flash[x]
         /\ \/ /\ remain <= PageSize /\ Return(TRUE) /\ sent' = Len(buf) /\ UNCHANGED <<remain, vBlock, vPage>>
            \/ /\ remain > PageSize /\ UNCHANGED <<pc, ok, vBlock>>
               /\ remain' = remain - PageSize /\ sent' = sent + PageSize /\ vPage' = vPage + 1
<1> DEFINE from == PageAddr(vBlock, vPage)
<1>1. /\ vBlock = BlockOf(addr) /\ vPage \in 0 .. BlockPages - 1 /\ sent = vPage * PageSize
      /\ remain = Len(buf) - sent /\ remain > 0
      /\ BlockPages \in Nat
  BY FlashAssumption DEF PageFacts, WriteCursor
<1>2. ~ (vPage > BlockPages - 1)
  BY <1>1
<1>3. flash' = [x \in Addresses |->
                  IF x >= from /\ x < from + PageSize
                    THEN Over(flash[x], Filled(sent + (x - from) + 1)) ELSE flash[x]]
  BY <1>2 DEF WritePage
<1>4. \/ /\ remain <= PageSize /\ Return(TRUE) /\ sent' = sent + remain /\ UNCHANGED <<remain, vBlock, vPage>>
      \/ /\ remain > PageSize /\ UNCHANGED <<pc, ok, vBlock>>
         /\ remain' = remain - PageSize /\ sent' = sent + PageSize /\ vPage' = vPage + 1
  <2>1. remain \in Int /\ PageSize \in Int
    BY <1>1 DEF PageFacts
  <2>2. \/ remain <= PageSize /\ Return(TRUE) /\ sent' = sent + remain /\ UNCHANGED <<remain, cursor>>
        \/ /\ ~ (remain <= PageSize) /\ UNCHANGED <<pc, ok>>
           /\ remain' = remain - PageSize /\ sent' = sent + PageSize
           /\ vBlock' = vBlock /\ vPage' = vPage + 1
    BY <1>2, Zenon DEF WritePage
  <2>3. remain > PageSize <=> ~ (remain <= PageSize)
    BY <2>1
  <2> QED BY <2>2, <2>3, Zenon DEF cursor
<1>5. sent + remain = Len(buf)
  BY <1>1 DEF PageFacts
<1>6. from = BlockOf(addr) * BlockSize + sent
  BY <1>1 DEF PageAddr
<1> HIDE DEF from
<1>7. ASSUME NEW x \in Addresses
      PROVE  flash'[x] = IF BlockOf(x) = BlockOf(addr) /\ InBlock(x) >= sent /\ InBlock(x) < sent + PageSize
                           THEN Over(flash[x], Filled(InBlock(x) + 1)) ELSE flash[x]
  <2> DEFINE b == BlockOf(addr)
             c == BlockOf(x)
             j == InBlock(x)
  <2>1. /\ x = c * BlockSize + j /\ j \in 0 .. BlockSize - 1 /\ c \in Nat /\ x \in Int
        /\ BlockSize \in Nat \ {0}
    BY AddressParts
  <2>2. b \in Nat /\ sent \in Nat /\ PageSize \in Nat /\ sent + PageSize <= BlockSize /\ from = b * BlockSize + sent
    BY <1>6 DEF PageFacts
  <2> HIDE DEF b, c, j
  <2>3. CASE c = b
    <3>1. x - from = j - sent
      BY <2>1, <2>2, <2>3
    <3>2. (x >= from /\ x < from + PageSize) <=> (j >= sent /\ j < sent + PageSize)
      BY <2>1, <2>2, <3>1
    <3>3. sent + (x - from) + 1 = j + 1
      BY <2>1, <2>2, <3>1
    <3> QED BY <1>3, <2>3, <3>2, <3>3 DEF b, c, j
  <2>4. CASE c # b
    <3>1. ~ (x >= from /\ x < from + PageSize)
      <4> SUFFICES ASSUME x >= from, x < from + PageSize PROVE c = b
        BY <2>4
      <4>1. b * BlockSize < (c + 1) * BlockSize /\ c * BlockSize < (b + 1) * BlockSize
        BY <2>1, <2>2
      <4>2. b < c + 1 /\ c < b + 1
        BY <2>1, <2>2, <4>1, Mono
      <4> QED BY <2>1, <2>2, <4>2
    <3> QED BY <1>3, <2>4, <3>1 DEF b, c
  <2> QED BY <2>3, <2>4
<1> QED BY <1>4, <1>5, <1>7

\* A page is written: what was sent is flash, the rest is as it was.
LEMMA WritePageWrites ==
  ASSUME ReadInv, WriteInv, WritePage
  PROVE  WriteInv'
<1>1. PageFacts
  BY WritingPage DEF WritePage
<1>2. /\ UNCHANGED <<op, addr, size, before, align, buf>>
      /\ op' = "write"
  BY <1>1 DEF WritePage, task, read, PageFacts
<1>3. WriteRequest' /\ WriteBuffer'
  BY <1>1, <1>2 DEF PageFacts, WriteRequest, WriteBuffer
<1>4. /\ sent \in Nat /\ PageSize \in Nat \ {0} /\ Len(buf) \in Nat /\ sent < Len(buf)
      /\ remain = Len(buf) - sent
  BY <1>1 DEF PageFacts, WriteCursor
<1>5. \/ sent' = sent + PageSize
      \/ sent' = Len(buf) /\ Len(buf) <= sent + PageSize
  <2>1. \/ remain <= PageSize /\ sent' = Len(buf)
        \/ sent' = sent + PageSize
    BY <1>1, PageWritten
  <2> QED BY <1>4, <2>1
<1>6. Written'
  <2> SUFFICES ASSUME NEW x \in Addresses, BlockOf(x) = BlockOf(addr)
               PROVE  flash'[x] = IF InBlock(x) < sent' THEN Over(Ground(x), Filled(InBlock(x) + 1)) ELSE Ground(x)
    <3>1. \A x \in Addresses : BlockOf(x) # BlockOf(addr) => flash'[x] = before[x]
      BY <1>1, PageWritten DEF PageFacts, Written
    <3>2. \A x \in Addresses : Ground(x)' = Ground(x) /\ Filled(InBlock(x) + 1)' = Filled(InBlock(x) + 1)
      BY <1>2 DEF Ground, Filled
    <3> QED BY <1>2, <3>1, <3>2 DEF Written
  <2>1. InBlock(x) \in Nat
    BY AddressParts
  <2>2. flash[x] = IF InBlock(x) < sent THEN Over(Ground(x), Filled(InBlock(x) + 1)) ELSE Ground(x)
    BY <1>1 DEF PageFacts, Written
  <2>3. flash'[x] = IF InBlock(x) >= sent /\ InBlock(x) < sent + PageSize
                      THEN Over(flash[x], Filled(InBlock(x) + 1)) ELSE flash[x]
    BY <1>1, PageWritten
  <2>4. flash'[x] = IF InBlock(x) < sent + PageSize THEN Over(Ground(x), Filled(InBlock(x) + 1)) ELSE Ground(x)
    BY <1>4, <2>1, <2>2, <2>3
  <2>5. InBlock(x) >= Len(buf) => Over(Ground(x), Filled(InBlock(x) + 1)) = Ground(x)
    BY <1>4, <2>1, BehindBuffer
  <2> QED BY <1>4, <1>5, <2>1, <2>4, <2>5
<1>7. CASE remain <= PageSize
  <2>1. pc' = "idle" /\ sent' = Len(buf)
    <3>1. ~ (remain > PageSize)
      BY <1>4, <1>7
    <3> QED BY <1>1, <3>1, PageWritten, Zenon DEF Return
  <2> QED BY <1>2, <1>3, <1>4, <1>6, <2>1 DEF WriteInv, Writing
<1>8. CASE ~ (remain <= PageSize)
  <2>1. /\ UNCHANGED <<pc, ok, vBlock>> /\ remain' = remain - PageSize /\ sent' = sent + PageSize /\ vPage' = vPage + 1
    BY <1>1, <1>4, <1>8, PageWritten
  <2>2. pc = "write" /\ ~ ok /\ WriteCursor
    BY <1>1 DEF PageFacts
  <2>3. sent' <= Len(buf) /\ remain' = Len(buf') - sent' /\ remain' > 0 /\ sent' = vPage' * PageSize
    BY <1>2, <1>4, <1>8, <2>1, <2>2, FlashAssumption DEF WriteCursor
  <2>4. vPage' \in 0 .. BlockPages - 1
    <3>1. /\ BlockPages \in Nat /\ BlockSize = BlockPages * PageSize /\ Len(buf) <= BlockSize
          /\ vPage \in Nat /\ sent = vPage * PageSize /\ BlockSize \in Nat
      BY <1>1, <2>2, FlashAssumption DEF WriteCursor, BlockSize, PageFacts
    <3>2. (vPage + 1) * PageSize < BlockPages * PageSize
      BY <1>4, <1>8, <3>1
    <3>3. vPage + 1 < BlockPages
      BY <1>4, <3>1, <3>2, Mono
    <3> QED BY <2>1, <3>1, <3>3
  <2>5. WriteCursor'
    BY <1>2, <2>1, <2>2, <2>3, <2>4 DEF WriteCursor
  <2> QED BY <1>2, <1>3, <1>6, <2>1, <2>2, <2>3, <2>5 DEF WriteInv, Writing
<1> QED BY <1>7, <1>8

\* A call of the FTL that fails leaves what was written.
LEMMA FailsWrites ==
  ASSUME WriteInv, Fails
  PROVE  WriteInv'
<1>1. /\ UNCHANGED <<flash, op, addr, size, before, align, buf, sent>> /\ pc' = "idle" /\ ok' = FALSE
  BY DEF Fails, Return, task, read
<1>2. UNCHANGED <<WriteRequest, WriteBuffer, Written>>
  BY <1>1 DEF WriteRequest, WriteBuffer, Written, Ground, Filled
<1> QED BY <1>1, <1>2 DEF WriteInv, Writing

\* Nothing happens.
LEMMA StutterWrites ==
  ASSUME WriteInv, UNCHANGED vars
  PROVE  WriteInv'
<1>1. UNCHANGED <<flash, pc, op, addr, size, before, vBlock, vPage, align, remain, buf, sent, ok>>
  BY DEF vars, task, cursor, read
<1>2. UNCHANGED <<WriteRequest, WriteBuffer, Written, WriteCursor>>
  BY <1>1 DEF WriteRequest, WriteBuffer, Written, WriteCursor, Ground, Filled
<1> QED BY <1>1, <1>2 DEF WriteInv, Writing

\* Reads and erases are no writes.
LEMMA OthersWrite ==
  ASSUME ReadInv, WriteInv,
         \/ \E a \in Addresses, n \in 0 .. Size : ReadCall(a, n)
         \/ \E a \in Addresses : EraseCall(a)
         \/ Reads
  PROVE  WriteInv'
<1>1. CASE \/ \E a \in Addresses, n \in 0 .. Size : ReadCall(a, n)
           \/ \E a \in Addresses : EraseCall(a)
  BY <1>1 DEF ReadCall, EraseCall, Call, WriteInv
<1>2. CASE Reads
  <2>1. pc \in ReadSteps
    BY <1>2 DEF Reads, ReadSmall, ReadHead, ReadPage, ReadRest, ReadSteps
  <2>2. op = "read"
    BY <2>1 DEF ReadInv, ShapeOK
  <2>3. op' = "read" /\ pc' # "write"
    BY <1>2, <2>2 DEF Reads, ReadSmall, ReadHead, ReadPage, ReadRest, task, Return
  <2> QED BY <2>3 DEF WriteInv
<1> QED BY <1>1, <1>2

-----------------------------------------------------------------------------
(* The theorems.                                                           *)

\* WriteInv is inductive beside ReadInv.
LEMMA WritesKeepInv == Spec => [](ReadInv /\ WriteInv)
<1>1. Init => WriteInv
  BY DEF Init, WriteInv
<1>2. ReadInv /\ WriteInv /\ [Next]_vars => WriteInv'
  <2> SUFFICES ASSUME ReadInv, WriteInv, [Next]_vars PROVE WriteInv'
    OBVIOUS
  <2> QED BY OthersWrite, WriteCallWrites, EraseWrites, WritePageWrites, FailsWrites, StutterWrites
          DEF Next, Writes
<1> QED BY <1>1, <1>2, ReadsKeepInv, PTL DEF Spec

\* Once all is sent, the bytes of the caller are on flash and the others are what they were.
LEMMA ExactFollows == ReadInv /\ WriteInv => WriteExact
<1> SUFFICES ASSUME ReadInv, WriteInv, op = "write", ok, NEW x \in Addresses
             PROVE  IF x \in Target THEN align # 0 \/ before[x] = FF => flash[x] = Byte(x - addr + 1)
                                    ELSE flash[x] = before[x]
  BY DEF WriteExact
<1> DEFINE j == InBlock(x)
           B == BlockOf(addr) * BlockSize
<1>1. WriteRequest /\ WriteBuffer /\ Written /\ sent = Len(buf)
  BY DEF WriteInv, Writing
<1>2. /\ x \in Int /\ BlockSize \in Nat \ {0} /\ BlockOf(x) \in Nat /\ j \in 0 .. BlockSize - 1
      /\ x = BlockOf(x) * BlockSize + j
  BY AddressParts
<1>3. /\ addr \in Int /\ BlockOf(addr) \in Nat /\ align \in 0 .. BlockSize - 1 /\ addr = B + align
      /\ size \in 1 .. BlockSize /\ align + size <= BlockSize
  BY <1>1, AddressParts DEF WriteRequest
<1>4. sent \in 1 .. BlockSize /\ (align = 0 => sent = size) /\ (align # 0 => sent = BlockSize)
  BY <1>1, BufferLength
<1>5. B \in Nat
  BY <1>2, <1>3, Prod
<1>6. CASE BlockOf(x) # BlockOf(addr)
  <2>1. x \notin Target
    <3> SUFFICES ASSUME x \in Target PROVE FALSE
      OBVIOUS
    <3>1. x - B \in Int /\ 0 <= x - B /\ x - B < BlockSize /\ x = B + (x - B)
      BY <1>2, <1>3, <1>5 DEF Target
    <3>2. BlockOf(B + (x - B)) = BlockOf(addr)
      BY <1>2, <1>3, <3>1, PartsAddress
    <3> QED BY <1>6, <3>1, <3>2
  <2>2. flash[x] = before[x]
    BY <1>1, <1>6 DEF Written
  <2> QED BY <2>1, <2>2
<1>7. CASE BlockOf(x) = BlockOf(addr)
  <2>1. x = B + j
    BY <1>2, <1>7
  <2>2. flash[x] = IF j < sent THEN Over(Ground(x), Filled(j + 1)) ELSE Ground(x)
    BY <1>1, <1>7 DEF Written
  <2>3. x \in Target <=> j >= align /\ j < align + size
    <3> HIDE DEF j, B
    <3> QED BY <1>2, <1>3, <1>5, <2>1 DEF Target
  <2>4. x - addr = j - align /\ x - addr + 1 = j + 1 - align
    <3> HIDE DEF j, B
    <3> QED BY <1>2, <1>3, <1>5, <2>1
  <2>5. j < sent => Filled(j + 1) = buf[j + 1]
    <3> HIDE DEF j
    <3> QED BY <1>1, <1>2, <1>4 DEF Filled
  <2>6. CASE align = 0
    <3>1. j < sent => Filled(j + 1) = Byte(j + 1)
      BY <1>1, <1>2, <1>3, <1>4, <2>5, <2>6 DEF WriteBuffer
    <3>2. before[x] = FF => Over(before[x], Filled(j + 1)) = Filled(j + 1)
      BY OverFacts
    <3> HIDE DEF j
    <3> QED BY <1>2, <1>3, <1>4, <2>2, <2>3, <2>4, <2>6, <3>1, <3>2 DEF Ground
  <2>7. CASE align # 0
    <3>1. j < sent
      BY <1>2, <1>4, <2>7
    <3>2. PICK i \in 1 .. BlockSize : i = j + 1
      BY <1>2
    <3>3. flash[x] = buf[i]
      BY <2>2, <2>5, <2>7, <3>1, <3>2, OverFacts DEF Ground
    <3>4. buf[i] = IF i > align /\ i <= align + size THEN Byte(i - align) ELSE before[addr - align + i - 1]
      BY <1>1, <2>7 DEF WriteBuffer
    <3>5. addr - align + i - 1 = x /\ x - addr + 1 = i - align
      <4> HIDE DEF j, B
      <4> QED BY <1>2, <1>3, <1>5, <2>1, <3>2
    <3>6. x \in Target <=> i > align /\ i <= align + size
      <4> HIDE DEF j, B
      <4> QED BY <1>2, <1>3, <2>3, <3>2
    <3> QED BY <2>7, <3>3, <3>4, <3>5, <3>6
  <2> QED BY <2>6, <2>7
<1> QED BY <1>6, <1>7

\* On erased ground the pages that were sent are all there is.
LEMMA TornFollows == ReadInv /\ WriteInv => TornInOrder
<1> SUFFICES ASSUME ReadInv, WriteInv, op = "write", flash # before,
                    align # 0 \/ \A x \in Addresses : BlockOf(x) = BlockOf(addr) => before[x] = FF
             PROVE  \E n \in 0 .. BlockSize : Torn(n)
  BY DEF TornInOrder
<1>1. WriteRequest /\ WriteBuffer /\ Written /\ sent <= Len(buf) /\ sent \in Nat
  BY DEF WriteInv, Writing, ReadInv, ShapeOK
<1>2. sent \in 0 .. BlockSize
  <2>1. Len(buf) \in 1 .. BlockSize /\ BlockSize \in Nat
    BY <1>1, BufferLength, AddressParts DEF WriteRequest
  <2> QED BY <1>1, <2>1
<1>3. ASSUME NEW x \in Addresses, BlockOf(x) = BlockOf(addr)
      PROVE  flash[x] = IF InBlock(x) < sent THEN Filled(InBlock(x) + 1) ELSE FF
  <2>1. Ground(x) = FF
    BY <1>3 DEF Ground
  <2> QED BY <1>1, <1>3, <2>1, OverFacts DEF Written
<1>4. Torn(sent)
  BY <1>1, <1>3 DEF Torn, Written
<1> QED BY <1>2, <1>4

(***************************************************************************)
(* Whatever the sizes of pages, blocks and device, an arch_write_flash     *)
(* inside a block that succeeds changes the bytes it was given and leaves  *)
(* every other byte of flash as it was; a write to the start of a block    *)
(* does so where flash was erased.                                         *)
(***************************************************************************)
THEOREM WritesAreExact == Spec => []WriteExact
BY WritesKeepInv, ExactFollows, PTL

(***************************************************************************)
(* Wherever an arch_write_flash is cut, the sector is what it was, or a    *)
(* beginning of what it is to be with erased flash behind it, and no other *)
(* sector has changed: what FirmwarePatch lets a power loss leave behind.  *)
(***************************************************************************)
THEOREM WritesTearInOrder == Spec => []TornInOrder
BY WritesKeepInv, TornFollows, PTL
=============================================================================
