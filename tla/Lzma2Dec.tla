------------------------------ MODULE Lzma2Dec ------------------------------
(***************************************************************************)
(* The LZMA2 decoder (Lzma2Dec.c), as operators.  A stream is a sequence of*)
(* chunks: a control byte, sizes and properties, and the data, which is    *)
(* copied or decoded by LzmaDec.  A chunk that resets the dictionary begins*)
(* a block.                                                                *)
(*                                                                         *)
(* The bytes of the sizes and the properties are one byte here,            *)
(* 16 * unpack + pack, in which unpack = 0 stands for properties that are  *)
(* refused; the states UNPACK0 .. PROP are the one state "head".           *)
(***************************************************************************)
EXTENDS LzmaDec

CopyReset   == 1           \* LZMA2_CONTROL_COPY_RESET_DIC
Resets(c)   == c = CopyReset \/ c >= 224
Copies(c)   == c < 128     \* LZMA2_IS_UNCOMPRESSED_STATE

New2(n) ==
  [dec |-> NewDecoder(n), state |-> "control", control |-> 0, level |-> 224, extra |-> FALSE,
   unpack |-> 0, pack |-> 0]

Lzma2Init(p) ==
  [p EXCEPT !.state = "control", !.level = 224, !.extra = FALSE, !.unpack = 0, !.dec = LzmaInit(@)]

UpdateState(p, b) ==
  CASE p.state = "control" ->
         LET q == [p EXCEPT !.extra = FALSE, !.control = b]
         IN  CASE b = 0         -> [q EXCEPT !.state = "finished"]
               [] b = CopyReset -> [q EXCEPT !.state = "head", !.level = 192]
               [] Copies(b) /\ b # CopyReset ->
                    [q EXCEPT !.state = IF b > 2 \/ p.level = 224 THEN "error" ELSE "head"]
               [] ~Copies(b) /\ b < p.level -> [q EXCEPT !.state = "error"]
               [] OTHER         -> [q EXCEPT !.state = "head", !.level = 0]
    [] p.state = "head" ->
         IF b < 16 \/ b >= 128 THEN [p EXCEPT !.state = "error"]
         ELSE [p EXCEPT !.unpack = b \div 16, !.pack = b % 16, !.state = "data"]

-----------------------------------------------------------------------------
(* Lzma2Dec_DecodeToDic(p, dicLimit, src, finish): [d, used, res, status].   *)

Failed2(p, used) == Answer([p EXCEPT !.state = "error"], used, "data", "none")

\* LzmaDec_UpdateWithUncompressed
Uncompressed(d, src) ==
  LET n == Len(src)
  IN  [d EXCEPT !.dic = [i \in DOMAIN @ |-> IF i \in d.dicPos .. d.dicPos + n - 1
                                              THEN Plain(src[i - d.dicPos + 1]) ELSE @[i]],
                !.dicPos = @ + n, !.seen = @ + n,
                !.check = IF @ = 0 /\ DicSize - d.seen <= n THEN DicSize ELSE @]

CopyChunk(p, in, used, out) ==
  LET n    == Lesser(Len(in), out)
      d    == IF p.state = "data" THEN InitDicAndState(p.dec, p.control = CopyReset) ELSE p.dec
      rest == p.unpack - n
  IN  IF in = <<>> THEN Answer(p, used, "ok", "input")
      ELSE IF n = 0 THEN Failed2(p, used)
      ELSE GoOn([p EXCEPT !.dec = Uncompressed(d, SubSeq(in, 1, n)), !.unpack = rest,
                          !.state = IF rest = 0 THEN "control" ELSE "cont"], used + n)

AfterDecode(p, d, a, used) ==
  LET n   == a.d.dicPos - d.dicPos
      q   == [p EXCEPT !.state = "cont", !.dec = a.d, !.pack = @ - a.used, !.unpack = @ - n]
      at  == used + a.used
  IN  CASE a.res # "ok" -> Failed2(q, at)
        [] a.res = "ok" /\ a.status = "input" ->
             IF q.pack = 0 THEN Failed2(q, at) ELSE Answer(q, at, "ok", "input")
        [] a.res = "ok" /\ a.status # "input" /\ a.used = 0 /\ n = 0 ->
             IF a.status = "maybe finished" /\ q.unpack = 0 /\ q.pack = 0
               THEN GoOn([q EXCEPT !.state = "control"], at) ELSE Failed2(q, at)
        [] OTHER -> GoOn(q, at)

LzmaChunk(p, in, used, out) ==
  LET d == IF p.state = "data" THEN InitDicAndState(p.dec, p.control >= 224) ELSE p.dec
  IN  The({AfterDecode(p, d, a, used) :
             a \in {DecodeToDic(d, d.dicPos + out, SubSeq(in, 1, Lesser(Len(in), p.pack)),
                                IF out = p.unpack THEN "end" ELSE "any")}})

Turn2(p, used, limit, src, finish) ==
  LET full == p.dec.dicPos = limit
      next == UpdateState(p, src[used + 1])
      out  == Lesser(limit - p.dec.dicPos, p.unpack)
  IN  CASE p.state = "error"    -> Answer(p, used, "data", "none")
        [] p.state = "finished" -> Answer(p, used, "ok", "mark")
        [] p.state \notin {"error", "finished"} /\ full /\ finish = "any" ->
             Answer(p, used, "ok", "not finished")
        [] p.state \in {"control", "head"} /\ ~(full /\ finish = "any") ->
             IF used = Len(src) THEN Answer(p, used, "ok", "input")
             ELSE IF full /\ next.state # "finished" THEN Failed2(next, used + 1)
             ELSE GoOn(next, used + 1)
        [] p.state \in {"data", "cont"} /\ ~(full /\ finish = "any") ->
             IF Copies(p.control) THEN CopyChunk(p, Behind(src, used), used, out)
                                  ELSE LzmaChunk(p, Behind(src, used), used, out)

Decode2ToDic(p, limit, src, finish) ==
  LET n == 2 * Len(src) + 4
      loop[k \in 0 .. n] ==
        IF k = 0 THEN {GoOn(p, 0)}
        ELSE {IF a.more THEN Turn2(a.d, a.used, limit, src, finish) ELSE a : a \in loop[k - 1]}
  IN  The(loop[n])

\* Lzma2Dec_DecodeToBuf(p, out, src, finish): [d, used, res, status, made]
DecodeToBuf(p, outSize, src, finish) ==
  LET start(a) == IF a.d.dec.dicPos = a.d.dec.bufSize THEN 0 ELSE a.d.dec.dicPos
      left(a)  == outSize - Len(a.made)
      once(a)  == LET room == a.d.dec.bufSize - start(a)
                  IN  Decode2ToDic([a.d EXCEPT !.dec.dicPos = start(a)], start(a) + Lesser(room, left(a)),
                                   Behind(src, a.used), IF room >= left(a) THEN finish ELSE "any")
      add(a, r) == LET from == start(a)
                       n    == r.d.dec.dicPos - from
                   IN  [d |-> r.d, used |-> a.used + r.used, res |-> r.res, status |-> r.status,
                        made |-> a.made \o [i \in 1 .. n |-> r.d.dec.dic[from + i - 1]],
                        more |-> r.res = "ok" /\ n > 0 /\ left(a) > n]
      loop[k \in 0 .. outSize + 2] ==
        IF k = 0 THEN {[d |-> p, used |-> 0, res |-> "ok", status |-> "none", made |-> <<>>, more |-> TRUE]}
        ELSE UNION {IF a.more THEN {add(a, r) : r \in {once(a)}} ELSE {a} : a \in loop[k - 1]}
  IN  The(loop[outSize + 2])

-----------------------------------------------------------------------------
(* Lzma2Dec_Parse(p, outSize, src, checkFinish): the boundaries are found    *)
(* without decoding anything; [d, used, status].                             *)

Parsed(p, used, out, status) == [d |-> p, used |-> used, out |-> out, status |-> status]
On(p, used, out) == Parsed(p, used, out, "go on")

ParseHeader(p, used, out, src) ==
  LET q == UpdateState(p, src[used + 1])
  IN  IF used = Len(src) THEN Parsed(p, used, out, "input")
      ELSE CASE q.state = "head" /\ p.state = "control" /\ Resets(q.control) -> Parsed(q, used + 1, out, "new block")
             [] ~(q.state = "head" /\ p.state = "control" /\ Resets(q.control))
                /\ out = 0 /\ q.state # "finished" -> Parsed(q, used + 1, out, "not finished")
             [] out > 0 /\ q.state = "data" -> Parsed(q, used + 1, out, "new chunk")
             [] OTHER -> On(q, used + 1, out)

Skipped(p, n) == [p EXCEPT !.dec.dicPos = @ + n, !.unpack = @ - n]

ParseCopied(p, used, out, src) ==
  LET n == Min({Len(src) - used, p.unpack, out})
  IN  IF used = Len(src) THEN Parsed(p, used, out, "input")
      ELSE On([Skipped(p, n) EXCEPT !.state = IF p.unpack = n THEN "control" ELSE "cont"], used + n, out - n)

ParsePacked(p, used, out, src) ==
  LET q == [p EXCEPT !.extra = TRUE]
      n == Lesser(Len(src) - used, p.pack)
      m == Lesser(out, p.unpack)
      r == [q EXCEPT !.pack = @ - n, !.state = IF used < Len(src) THEN "cont" ELSE @]
  IN  IF used = Len(src) /\ p.pack # 0 THEN Parsed(q, used, out, "input")
      ELSE IF used < Len(src) /\ p.state = "data" /\ src[used + 1] # 0
        THEN Parsed([q EXCEPT !.state = "error", !.pack = @ - 1], used + 1, out, "error")
      ELSE IF r.pack # 0 THEN On(r, used + n, out)
      ELSE On([Skipped(r, m) EXCEPT !.state = IF m = p.unpack THEN "control" ELSE @], used + n, out - m)

ParseTurn(a, src, checkFinish) ==
  LET p == a.d
  IN  CASE p.state = "error"    -> Parsed(p, a.used, a.out, "error")
        [] p.state = "finished" -> Parsed(p, a.used, a.out, "mark")
        [] p.state \notin {"error", "finished"} /\ a.out = 0 /\ (~checkFinish \/ p.state \in {"data", "cont"}) ->
             Parsed(p, a.used, a.out, "not finished")
        [] p.state \in {"control", "head"} /\ (a.out > 0 \/ checkFinish) -> ParseHeader(p, a.used, a.out, src)
        [] p.state \in {"data", "cont"} /\ a.out > 0 ->
             IF Copies(p.control) THEN ParseCopied(p, a.used, a.out, src) ELSE ParsePacked(p, a.used, a.out, src)

Parse(p, outSize, src, checkFinish) ==
  LET n == 2 * Len(src) + 3
      loop[k \in 0 .. n] ==
        IF k = 0 THEN {On(p, 0, outSize)}
        ELSE {IF a.status = "go on" THEN ParseTurn(a, src, checkFinish) ELSE a : a \in loop[k - 1]}
  IN  The(loop[n])

UnpackExtra(p) == IF p.extra THEN p.unpack ELSE 0      \* Lzma2Dec_GetUnpackExtra
=============================================================================
