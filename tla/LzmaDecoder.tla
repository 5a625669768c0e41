---------------------------- MODULE LzmaDecoder -----------------------------
(***************************************************************************)
(* The decoder of the boot loader: read_decode_by_length                   *)
(* (sm_arch_interface.c), which delivers the next bytes of the patch out of*)
(* flash, and LzmaDec (sm_lzma_decoder.c) under it, called again and again *)
(* with whatever input there is and room for whatever is asked for.        *)
(*                                                                         *)
(* Bits and probabilities are left out: LzmaStream says what the symbols   *)
(* are and which bytes each needs.  What is kept is where every byte goes, *)
(* from flash into inbuf, tempBuf and the range coder, and from the        *)
(* dictionary into outbuf.  A byte of the stream is its position in it.    *)
(***************************************************************************)
EXTENDS LzmaStream

CONSTANTS
  Streams,     \* [syms, unpack, area]: unpackSize, and src_end - src_start
  InBufs,      \* sizes of inbuf
  OutBuf,      \* size of outbuf
  DicBufSize,
  Asks,        \* what decode_and_patch asks for at a time
  MaxAsked     \* and in all

ASSUME DecoderAssumption ==
  /\ \A t \in Streams :
       /\ t.syms \in Seq(Symbol) /\ WellFormed(t.syms)
       /\ \A n \in DOMAIN t.syms : FitsRequired(t.syms[n])
       /\ Valid(t.syms) => t.unpack <= Len(Text(t.syms))
       /\ t.unpack \in Nat /\ t.area \in Nat
  /\ InBufs \subseteq Nat \ {0} /\ OutBuf \in Nat \ {0}
  /\ DicBufSize \in Nat /\ DicBufSize >= DicSize
  /\ Asks \subseteq Nat /\ MaxAsked \in Nat

VARIABLES
  stream, inbuf_size,
  f,        \* decode_f_man
  p,        \* CLzmaDec
  call,     \* the calls under way: arguments and local variables
  pc,
  asked,    \* how much has been asked for so far
  got,      \* and delivered
  result,   \* of the last read_decode_by_length
  astray    \* the range coder has been given a wrong byte, or one that is not there

vars == <<stream, inbuf_size, f, p, call, pc, asked, got, result, astray>>

syms   == stream.syms
Before == Meaning(syms)[p.next - 1]     \* what the encoder knew at this symbol
AllDone == p.next > Len(syms)
CodeIsZero == AllDone                   \* the encoder's flush; never by chance

NoCall == [src |-> 0, outSize |-> 0, finish |-> "any", made |-> <<>>,
           dicStart |-> 0, dicLimit |-> 0, curFinish |-> "any", res |-> "ok", status |-> "none",
           fed |-> <<>>, used |-> 0, bufLimit |-> 0, limit2 |-> 0, owed |-> 0,
           temp |-> FALSE, lookAhead |-> 0]

Init ==
  /\ stream \in Streams /\ inbuf_size \in InBufs
  /\ f = [src_curr |-> 0, in_size |-> 0, in_pos |-> 0, unpackSize |-> stream.unpack, de_len |-> 0]
  /\ p = [dic |-> [i \in 0 .. DicBufSize - 1 |-> 0], dicPos |-> 0, processedPos |-> 0,
          checkDicSize |-> 0, remainLen |-> 0, reps |-> FirstReps, afterMatch |-> FALSE,
          needFlush |-> TRUE, tempBuf |-> <<>>, next |-> 1, coded |-> 0]
  /\ call = NoCall /\ pc = "idle"
  /\ asked = 0 /\ got = <<>> /\ result = "ok" /\ astray = FALSE

-----------------------------------------------------------------------------
(* The dictionary.                                                           *)

\* The byte dist before dicPos.
At(d, dist) == d.dic[d.dicPos - dist + (IF d.dicPos < dist THEN DicBufSize ELSE 0)]

\* n bytes from dist before dicPos, one after the other.
CopyMatch(d, dist, n) ==
  [d EXCEPT
     !.dic = [i \in DOMAIN @ |->
                IF i \in d.dicPos .. d.dicPos + n - 1
                  THEN At(d, dist - ((i - d.dicPos) % dist)) ELSE @[i]],
     !.dicPos = @ + n,
     !.processedPos = @ + n]

\* Mutant: the rest of a match does not count towards the size of the dictionary.
WriteRemUnchecked(d, limit) ==
  IF d.remainLen \in {0, SpecStart} THEN d
  ELSE LET len == LessOf(d.remainLen, limit - d.dicPos)
       IN  [CopyMatch(d, d.reps[0], len) EXCEPT !.remainLen = @ - len, !.processedPos = d.processedPos]

\* LzmaDec_WriteRem
WriteRem(d, limit) ==
  IF d.remainLen \in {0, SpecStart} THEN d
  ELSE LET len == LessOf(d.remainLen, limit - d.dicPos)
       IN  [CopyMatch(d, d.reps[0], len) EXCEPT
              !.remainLen = @ - len,
              !.checkDicSize = IF @ = 0 /\ DicSize - d.processedPos <= len THEN DicSize ELSE @]

-----------------------------------------------------------------------------
(* read_decode_by_length and LzmaDec_sm_DecodeToBuf.                         *)

Ask ==
  /\ pc = "idle" /\ result = "ok"
  /\ \E n \in Asks :
       /\ asked + n <= MaxAsked
       /\ asked' = asked + n
       /\ f' = [f EXCEPT !.de_len = n]
  /\ pc' = "fill"
  /\ UNCHANGED <<stream, inbuf_size, p, call, got, result, astray>>

\* What is left of the area, up to the size of inbuf.
Refill == LessOf(stream.area - f.src_curr, inbuf_size)

\* inbuf is filled when it has been used up; a turn of the loop delivers what
\* fits into outbuf, and no more than the patch has.
Fill ==
  /\ pc = "fill"
  /\ f' = IF f.in_pos = f.in_size
            THEN [f EXCEPT !.in_size = Refill, !.src_curr = @ + Refill, !.in_pos = 0] ELSE f
  /\ LET out == LessOf(OutBuf, f.de_len)
     IN  call' = [NoCall EXCEPT !.outSize = LessOf(out, f.unpackSize),
                                !.finish  = IF out > f.unpackSize THEN "end" ELSE "any",
                                !.src     = f'.in_pos]
  /\ pc' = "buf"
  /\ UNCHANGED <<stream, inbuf_size, p, asked, got, result, astray>>

\* A turn of LzmaDec_sm_DecodeToBuf: decode up to the end of the dictionary at most.
ToBuf ==
  /\ pc = "buf"
  /\ LET start == IF p.dicPos = DicBufSize THEN 0 ELSE p.dicPos
         far   == call.outSize > DicBufSize - start
         limit == IF far THEN DicBufSize ELSE start + call.outSize
     IN  /\ call' = [call EXCEPT !.dicStart = start, !.dicLimit = limit,
                                 !.curFinish = IF far THEN "any" ELSE call.finish]
         /\ p' = WriteRem([p EXCEPT !.dicPos = start], limit)
  /\ pc' = "dic"
  /\ UNCHANGED <<stream, inbuf_size, f, asked, got, result, astray>>

\* What has been decoded is copied out.
FromDic ==
  /\ pc = "fromDic"
  /\ LET n == p.dicPos - call.dicStart
     IN  /\ call' = [call EXCEPT !.made = @ \o [i \in 1 .. n |-> p.dic[call.dicStart + i - 1]],
                                 !.outSize = @ - n]
         /\ pc' = IF call.res # "ok" THEN "error"
                  ELSE IF n = 0 \/ call.outSize = n THEN "made" ELSE "buf"
  /\ UNCHANGED <<stream, inbuf_size, f, p, asked, got, result, astray>>

\* Mutant: when the decoder needs more input, there will be more.
StuckUnlessInput(n) == call.src = f.in_pos /\ n = 0 /\ call.status # "input"

\* Neither input used nor output made.
Stuck(n) == call.src = f.in_pos /\ n = 0

\* The end of a turn of read_decode_by_length.
Made ==
  /\ pc = "made"
  /\ LET n == Len(call.made)
         rest == [f EXCEPT !.de_len = @ - n, !.unpackSize = @ - n, !.in_pos = call.src]
     IN  /\ f' = rest
         /\ got' = got \o call.made
         /\ IF rest.unpackSize = 0 \/ rest.de_len = 0
              THEN pc' = "idle" /\ UNCHANGED result
              ELSE IF Stuck(n)
              THEN pc' = "idle" /\ result' = IF call.status = "mark" THEN "ok" ELSE "error"
              ELSE pc' = "fill" /\ UNCHANGED result
  /\ UNCHANGED <<stream, inbuf_size, p, call, asked, astray>>

Error ==
  /\ pc = "error"
  /\ pc' = "idle" /\ result' = "error"
  /\ UNCHANGED <<stream, inbuf_size, f, p, call, asked, got, astray>>

-----------------------------------------------------------------------------
(* LzmaDec_sm_DecodeToDic.                                                   *)

\* The bytes of inbuf from index i on, n of them.
InBuf(i, n) == [k \in 1 .. n |-> f.src_curr - f.in_size + i + k - 1]

Left == f.in_size - call.src      \* inSize

InLoop == pc = "dic" /\ p.remainLen # SpecStart

\* LzmaDec_sm_DecodeToDic returns.
Returns(res, status, src) ==
  /\ call' = [call EXCEPT !.res = res, !.status = status, !.src = src]
  /\ pc' = "fromDic"

Marked ==
  /\ pc = "dic" /\ p.remainLen = SpecStart
  /\ IF CodeIsZero THEN Returns("ok", "mark", call.src) ELSE Returns("data", "none", call.src)
  /\ UNCHANGED <<stream, inbuf_size, f, p, asked, got, result, astray>>

\* needFlush: the first bytes of the stream, which may come one by one.
Flush ==
  /\ InLoop /\ p.needFlush
  /\ LET n    == LessOf(Left, InitSize - Len(p.tempBuf))
         have == p.tempBuf \o InBuf(call.src, n)
     IN  IF Len(have) < InitSize
           THEN /\ p' = [p EXCEPT !.tempBuf = have]
                /\ Returns("ok", "input", call.src + n)
                /\ UNCHANGED astray
           ELSE /\ p' = [p EXCEPT !.tempBuf = <<>>, !.needFlush = FALSE, !.coded = InitSize]
                /\ call' = [call EXCEPT !.src = @ + n]
                /\ astray' = (have # [i \in 1 .. InitSize |-> i - 1])
                /\ UNCHANGED pc
  /\ UNCHANGED <<stream, inbuf_size, f, asked, got, result>>

Full == p.dicPos >= call.dicLimit

\* There is no room, and the caller does not ask for the end.
NoRoom ==
  /\ InLoop /\ ~p.needFlush /\ Full
  /\ \/ p.remainLen = 0 /\ CodeIsZero /\ Returns("ok", "maybe finished", call.src)
     \/ /\ ~(p.remainLen = 0 /\ CodeIsZero)
        /\ \/ call.curFinish = "any" /\ Returns("ok", "not finished", call.src)
           \/ call.curFinish = "end" /\ p.remainLen # 0 /\ Returns("data", "not finished", call.src)
  /\ UNCHANGED <<stream, inbuf_size, f, p, asked, got, result, astray>>

\* checkEndMarkNow
EndMarkNow == Full /\ p.remainLen = 0 /\ ~CodeIsZero /\ call.curFinish = "end"

\* LzmaDec_TryDummy: is the next symbol there, and what is it?
TryDummy(fed) ==
  IF AllDone \/ syms[p.next].cost + syms[p.next].late > Len(fed) THEN "error"
  ELSE IF syms[p.next].kind \in {"match", "mark"} THEN "match" ELSE "other"

\* Mutant: less is enough to go on without looking ahead.
EnoughLess(fed) == Len(fed) + 1 >= RequiredMax

\* So much that no symbol can need more.
Enough(fed) == Len(fed) >= RequiredMax

\* LzmaDec_DecodeReal2: up to the size of the dictionary at most, as long as the
\* first bytes of the text are checked against processedPos.
Limit2(d) ==
  IF d.checkDicSize = 0 THEN LessOf(call.dicLimit, d.dicPos + DicSize - d.processedPos)
                        ELSE call.dicLimit

Decode(fed, bufLimit, temp, lookAhead) ==
  /\ call' = [call EXCEPT !.fed = fed, !.used = 0, !.bufLimit = bufLimit, !.owed = 0,
                          !.limit2 = Limit2(p), !.temp = temp, !.lookAhead = lookAhead]
  /\ pc' = "real"

\* Input is decoded where it lies, or kept in tempBuf when it may not suffice.
FromSrc ==
  /\ InLoop /\ ~p.needFlush /\ p.tempBuf = <<>> /\ (Full => EndMarkNow)
  /\ LET fed == InBuf(call.src, Left)
     IN  IF Enough(fed) /\ ~Full
           THEN Decode(fed, Len(fed) - RequiredMax, FALSE, 0) /\ UNCHANGED p
           ELSE CASE TryDummy(fed) = "error" ->
                       p' = [p EXCEPT !.tempBuf = fed] /\ Returns("ok", "input", f.in_size)
                  [] TryDummy(fed) # "error" /\ Full /\ TryDummy(fed) # "match" ->
                       Returns("data", "not finished", call.src) /\ UNCHANGED p
                  [] OTHER -> Decode(fed, 0, FALSE, 0) /\ UNCHANGED p
  /\ UNCHANGED <<stream, inbuf_size, f, asked, got, result, astray>>

\* One symbol out of tempBuf, with as much input behind it as fits.
FromTemp ==
  /\ InLoop /\ ~p.needFlush /\ p.tempBuf # <<>> /\ (Full => EndMarkNow)
  /\ LET n   == LessOf(RequiredMax - Len(p.tempBuf), Left)
         fed == p.tempBuf \o InBuf(call.src, n)
     IN  /\ p' = [p EXCEPT !.tempBuf = fed]
         /\ IF Enough(fed) /\ ~Full THEN Decode(fed, 0, TRUE, n)
            ELSE CASE TryDummy(fed) = "error" -> Returns("ok", "input", call.src + n)
                   [] TryDummy(fed) # "error" /\ Full /\ TryDummy(fed) # "match" ->
                        Returns("data", "not finished", call.src)
                   [] OTHER -> Decode(fed, 0, TRUE, n)
  /\ UNCHANGED <<stream, inbuf_size, f, asked, got, result, astray>>

-----------------------------------------------------------------------------
(* LzmaDec_DecodeReal.                                                       *)

\* The next n bytes of the input go to the range coder.
Wrong(n) ==
  \/ call.used + n > Len(call.fed)
  \/ \E i \in 1 .. n : call.fed[call.used + i] # p.coded + i - 1

\* The contexts of a literal are the byte before it and, after a match, the byte
\* the last distance points to; with others than the encoder's it is garbage.
ContextsRight ==
  LET text == Before.text
  IN  /\ p.processedPos = Len(text)
      /\ text # <<>> => p.dic[(IF p.dicPos = 0 THEN DicBufSize ELSE p.dicPos) - 1] = Last(text, 1)
      /\ p.afterMatch => At(p, p.reps[0]) = Last(text, Before.reps[0])

Literal(s) ==
  /\ s.kind = "literal"
  /\ p' = [p EXCEPT !.dic[p.dicPos] = IF ContextsRight THEN p.next ELSE 0,
                    !.dicPos = @ + 1, !.processedPos = @ + 1, !.afterMatch = FALSE,
                    !.next = @ + 1, !.coded = @ + call.owed + s.cost]

Nothing == p.checkDicSize = 0 /\ p.processedPos = 0

ShortRep(s) ==
  /\ s.kind = "short" /\ ~Nothing
  /\ p' = [CopyMatch(p, p.reps[0], 1) EXCEPT !.afterMatch = TRUE,
             !.next = @ + 1, !.coded = @ + call.owed + s.cost]

TooFar(d) == IF p.checkDicSize = 0 THEN d - 1 >= p.processedPos ELSE d - 1 >= p.checkDicSize

\* As much of a match as there is room for; the rest is remainLen.
Match(s) ==
  /\ \/ s.kind = "match" /\ ~TooFar(s.dist)
     \/ s.kind = "rep" /\ ~Nothing
  /\ p.dicPos < call.limit2
  /\ LET reps == IF s.kind = "match" THEN Pushed(p.reps, s.dist) ELSE ToFront(p.reps, s.dist)
         len  == LessOf(s.len, call.limit2 - p.dicPos)
     IN  p' = [CopyMatch(p, reps[0], len) EXCEPT !.reps = reps, !.afterMatch = TRUE,
                 !.remainLen = s.len - len,
                 !.next = @ + 1, !.coded = @ + call.owed + s.cost]

Mark(s) ==
  /\ s.kind = "mark"
  /\ p' = [p EXCEPT !.remainLen = SpecStart, !.next = @ + 1, !.coded = @ + call.owed + s.cost]

Refused(s) ==
  \/ s.kind = "match" /\ (TooFar(s.dist) \/ p.dicPos = call.limit2)
  \/ s.kind = "rep" /\ (Nothing \/ p.dicPos = call.limit2)
  \/ s.kind = "short" /\ Nothing

\* A turn of the loop.  The local variables are written to p at once: after an
\* error, which does not write them back, p is not used again.
RealSymbol ==
  /\ pc = "real" /\ ~AllDone
  /\ LET s == syms[p.next]
         n == call.owed + s.cost
     IN  /\ astray' = (astray \/ Wrong(n))
         /\ \/ /\ Literal(s) \/ ShortRep(s) \/ Match(s) \/ Mark(s)
               /\ call' = [call EXCEPT !.used = @ + n, !.owed = s.late]
               /\ pc' = IF s.kind # "mark" /\ p'.dicPos < call.limit2 /\ call.used + n < call.bufLimit
                          THEN "real" ELSE "real2"
            \/ /\ Refused(s)
               /\ Returns("data", "none", call.src) /\ UNCHANGED p
  /\ UNCHANGED <<stream, inbuf_size, f, asked, got, result>>

\* The rest of LzmaDec_DecodeReal2, and of the turn of LzmaDec_sm_DecodeToDic.
\* What tempBuf had before this turn comes first among the bytes that were used.
RealDone ==
  /\ pc = "real2"
  /\ astray' = (astray \/ Wrong(call.owed))
  /\ LET used == call.used + call.owed
         seen == [p EXCEPT !.coded = @ + call.owed,
                           !.checkDicSize = IF @ = 0 /\ p.processedPos >= DicSize THEN DicSize ELSE @]
         d    == WriteRem(seen, call.dicLimit)
         more == d.dicPos < call.dicLimit /\ used < call.bufLimit /\ d.remainLen # SpecStart
         kept == Len(call.fed) - used
     IN  CASE more ->
                /\ p' = d /\ pc' = "real"
                /\ call' = [call EXCEPT !.used = used, !.owed = 0, !.limit2 = Limit2(d)]
           [] ~more /\ ~call.temp ->
                /\ p' = d /\ pc' = "dic"
                /\ call' = [call EXCEPT !.src = @ + used]
           [] ~more /\ call.temp /\ kept \in 0 .. call.lookAhead ->
                /\ p' = [d EXCEPT !.tempBuf = <<>>] /\ pc' = "dic"
                /\ call' = [call EXCEPT !.src = @ + call.lookAhead - kept]
           [] OTHER -> p' = d /\ Returns("fail", "none", call.src)
  /\ UNCHANGED <<stream, inbuf_size, f, asked, got, result>>

Decoder == \/ Fill \/ ToBuf \/ FromDic \/ Made \/ Error
           \/ Marked \/ Flush \/ NoRoom \/ FromSrc \/ FromTemp
           \/ RealSymbol \/ RealDone

Next == Ask \/ Decoder

Spec == Init /\ [][Next]_vars /\ WF_vars(Decoder)

-----------------------------------------------------------------------------

(***************************************************************************)
(* What is delivered is a beginning of the text, whatever is asked for,    *)
(* wherever the dictionary wraps around, and when the stream is bad; and   *)
(* however the input is cut, the range coder gets every byte of it once and*)
(* in its order and never reads behind the end of the input it was given:  *)
(* the two checks marked "some internal error" never fail.                 *)
(***************************************************************************)
DeliversText ==
  LET text == Text(syms)
  IN  /\ Len(got) <= Len(text) /\ got = SubSeq(text, 1, Len(got))
      /\ ~astray /\ call.res # "fail"

(***************************************************************************)
(* "Like reading the decoded data from RAM" (the comment at                *)
(* sm_arch_interface.c:297): out of a valid stream that is there in full,  *)
(* every call delivers all it asks for, up to the end of the patch.        *)
(***************************************************************************)
Whole ==
  /\ Valid(syms) /\ stream.unpack = Len(Text(syms))
  /\ Coded(syms)[Len(syms)] <= stream.area

ReadsLikeRAM ==
  pc = "idle" /\ Whole =>
    /\ result = "ok"
    /\ Len(got) = LessOf(asked, stream.unpack)

(***************************************************************************)
(* Every call returns, also when the stream or the input ends too early.   *)
(***************************************************************************)
CallsReturn == pc # "idle" ~> pc = "idle"
=============================================================================
