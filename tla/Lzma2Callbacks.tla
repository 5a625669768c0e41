--------------------------- MODULE Lzma2Callbacks ---------------------------
(***************************************************************************)
(* What Lzma2DecMt gives to MtDec: Parse finds where a block ends, PreCode *)
(* and Code decode a block into a buffer of its own, Write hands it on.    *)
(* A coder is a record of its decoder and of what is known about its block.*)
(***************************************************************************)
EXTENDS Lzma2Dec

CONSTANTS
  OutBlockMax,   \* props.outBlockMax
  SmallBlock     \* 1 << 14: blocks smaller than this are decoded together

ASSUME CallbackAssumption == OutBlockMax \in Nat \ {0} /\ SmallBlock \in Nat \ {0}

NewCoder ==
  [dec |-> New2(0), state |-> "continue", parseStatus |-> "none", inPre |-> 0, outPre |-> 0,
   inCode |-> 0, outCode |-> 0, res |-> "ok", needInit |-> FALSE, outBufSize |-> 0]

\* The first call of Parse for a block; the buffer is kept.
StartCall(c) ==
  [NewCoder EXCEPT !.dec = Lzma2Init(c.dec), !.outBufSize = c.outBufSize, !.needInit = c.needInit]

-----------------------------------------------------------------------------
(* Lzma2DecMt_MtCallback_Parse.                                              *)

\* How much the block may still make, and whether it must be seen to its end:
\* outSize < 0 is a size that is not given.
BlockLimit(job, parsed) ==
  IF job.outSize >= 0 THEN Lesser(OutBlockMax, job.outSize - parsed) ELSE OutBlockMax
CheckFinish(job, parsed) ==
  ~(job.outSize >= 0 /\ OutBlockMax >= job.outSize - parsed /\ ~job.finish)

\* One call of Lzma2Dec_Parse, and what is made of it; point is the last place where
\* the block may end although it is a small one.
AfterTurn(s, a, limit, check) ==
  LET used == s.used + a.used
      q    == [s EXCEPT !.dec = a.d, !.used = used, !.status = a.status]
      pos  == a.d.dec.dicPos
      end  == [q EXCEPT !.more = FALSE]
  IN  CASE a.status = "new chunk" -> IF a.d.unpack > OutBlockMax - pos THEN [end EXCEPT !.overflow = TRUE] ELSE q
        [] a.status = "new block" ->
             IF pos = 0 THEN q ELSE IF pos >= SmallBlock THEN end
             ELSE [q EXCEPT !.point = [dicPos |-> pos, used |-> used]]
        [] a.status = "not finished" /\ check -> [end EXCEPT !.overflow = TRUE]
        [] OTHER -> [end EXCEPT !.rem = UnpackExtra(a.d)]

ScanTurn(s, src, limit, check) ==
  The({AfterTurn(s, a, limit, check) :
         a \in {Parse(s.dec, limit - s.dec.dec.dicPos, Behind(src, s.used), check)}})

Scan(dec, src, limit, check) ==
  LET n == 2 * Len(src) + 3
      loop[k \in 0 .. n] ==
        IF k = 0 THEN {[dec |-> dec, used |-> 0, status |-> "none", overflow |-> FALSE, rem |-> 0,
                        point |-> [dicPos |-> 0, used |-> 0], more |-> TRUE]}
        ELSE {IF s.more THEN ScanTurn(s, src, limit, check) ELSE s : s \in loop[k - 1]}
  IN  The({IF s.point.dicPos # 0 /\ s.status \notin {"new block", "mark", "error"}
             THEN [s EXCEPT !.status = "new block", !.rem = 0, !.overflow = FALSE,
                            !.dec.dec.dicPos = s.point.dicPos, !.used = s.point.used]
             ELSE s : s \in loop[n]})

\* [c, used, state, made]: made is added to outProcessed_Parse.
AfterScan(c, s, limit) ==
  LET pos   == s.dec.dec.dicPos
      used  == IF ~s.overflow /\ s.status = "new block" THEN s.used - 1 ELSE s.used
      state == CASE s.overflow -> "overflow"
                 [] ~s.overflow /\ s.status = "input" -> "continue"
                 [] ~s.overflow /\ s.status = "new block" -> "new"
                 [] OTHER -> "end"
      size  == IF state = "end" /\ s.status # "mark" THEN pos + Lesser(limit - pos, s.rem) ELSE pos
  IN  [c |-> [c EXCEPT !.dec = s.dec, !.inPre = @ + used, !.parseStatus = s.status, !.state = state,
                       !.outPre = IF s.overflow THEN @ ELSE size],
       used |-> used, state |-> state, made |-> IF state \in {"new", "end"} THEN size ELSE 0]

ParseBlock(coder, start, src, job, parsed) ==
  LET c     == IF start THEN StartCall(coder) ELSE coder
      limit == BlockLimit(job, parsed)
  IN  The({AfterScan(c, s, limit) : s \in {Scan(c.dec, src, limit, CheckFinish(job, parsed))}})

-----------------------------------------------------------------------------
(* Lzma2DecMt_MtCallback_PreCode and _Code.                                  *)

NeedsBuffer(c) == c.inPre # 0 /\ c.outBufSize < c.outPre

\* PreCode when memory is there
Prepared(c) ==
  IF c.inPre = 0 THEN [c EXCEPT !.res = "data"]
  ELSE [c EXCEPT !.dec.dec = [NewDecoder(c.outPre) EXCEPT !.dicPos = c.dec.dec.dicPos], !.needInit = TRUE,
                 !.outBufSize = IF @ < c.outPre THEN c.outPre ELSE @]

BlockEnds(c) == c.parseStatus \in {"mark", "new block"}

\* Code: [c, res, stop]
AfterCode(c, a, src) ==
  LET q == [c EXCEPT !.dec = a.d, !.res = a.res, !.inCode = @ + a.used, !.outCode = a.d.dec.dicPos]
      whole == q.inPre = q.inCode
  IN  [c |-> q,
       res |-> IF a.res # "ok" THEN a.res
               ELSE IF BlockEnds(c) /\ (a.used # Len(src) \/ (whole /\ q.outPre # q.outCode)) THEN "fail"
               ELSE "ok",
       stop |-> \/ a.used # Len(src)
                \/ BlockEnds(c) /\ whole
                \/ ~BlockEnds(c) /\ q.outPre = q.outCode]

CodeBlock(coder, src) ==
  LET c == IF coder.needInit THEN [coder EXCEPT !.dec = Lzma2Init(@), !.needInit = FALSE] ELSE coder
  IN  The({AfterCode(c, a, src) :
             a \in {Decode2ToDic(c.dec, c.outPre, src, IF BlockEnds(c) THEN "end" ELSE "any")}})

-----------------------------------------------------------------------------
(* Lzma2DecMt_MtCallback_Write.                                              *)

\* a block that was parsed to its end must have been decoded to it
Torn(c) == c.res = "ok" /\ BlockEnds(c) /\ (c.outPre # c.outCode \/ c.inPre # c.inCode)

Made(c) == [i \in 1 .. c.outCode |-> c.dec.dec.dic[i - 1]]

\* needContinue2
AsksForMore(c) == c.state \notin {"overflow", "end"}
=============================================================================
