------------------------------ MODULE LzmaEnc ------------------------------
(***************************************************************************)
(* The compressor (LzmaEnc.c) over its match finder: which literals and    *)
(* which repetitions it makes of a text.  In the fast mode it looks one    *)
(* byte ahead; otherwise it keeps, for the next positions, the cheapest way*)
(* known to reach each of them (GetOptimum), reads the match finder as it  *)
(* goes, and writes that way down backwards (Backward).                    *)
(*                                                                         *)
(* One action is the code from one call of GetMatches to the next.  The    *)
(* range coder is left out: a symbol is written as a whole, with the bytes *)
(* its coding depends on.  Prices come from a table of the instance, which *)
(* may make anything cheap or dear, as the statistics of a text may.       *)
(***************************************************************************)
EXTENDS MatchFinder

CONSTANTS
  MaxLen,      \* LZMA_MATCH_LEN_MAX
  NumOpts,     \* kNumOpts
  BlockLimit,  \* 1 << 17, the length of a block of CodeOneBlock
  NearDist,    \* 0x80: a match of two bytes may not be farther away
  FarDist,     \* <<1 << 9, 1 << 15>>
  PairRatio,   \* 1 << 7, of ChangePair
  Weights,     \* sequence of tables of prices
  UnpackMax,   \* LZMA2_UNPACK_SIZE_MAX
  ChunkSlack   \* 300, what a chunk of LZMA2 keeps free

NumFastBytes == MatchMaxLen
MarkLit      == -1
NumReps      == 4
Infinity     == 1000000

\* user: who calls; algo: fast or best; weights: which prices; endMark: writeEndMark;
\* outFails: does the output fail?
ASSUME EncAssumption ==
  /\ \A s \in {c[2] : c \in Cases} :
       /\ s.user \in {"any", "lzma", "lzma2"} /\ s.algo \in {"fast", "best"}
       /\ s.weights \in DOMAIN Weights /\ s.endMark \in BOOLEAN /\ s.outFails \in BOOLEAN
  /\ NumFastBytes < NumOpts /\ NumFastBytes <= MaxLen /\ MaxLen <= ChunkSlack
  /\ AddBefore >= NumOpts /\ AddBefore + HistorySize >= UnpackMax /\ AddAfter >= MaxLen

VARIABLE enc   \* CLzmaEnc, where in CodeOneBlock it is, and the symbols it has written

price == Weights[set.weights]

-----------------------------------------------------------------------------
(* States and repeated distances.                                            *)

LiteralNext(s)  == IF s < 4 THEN 0 ELSE IF s < 10 THEN s - 3 ELSE s - 6
MatchNext(s)    == IF s < 7 THEN 7 ELSE 10
RepNext(s)      == IF s < 7 THEN 8 ELSE 11
ShortRepNext(s) == IF s < 7 THEN 9 ELSE 11
LitAfterMatch   == 4
LitAfterRep     == 5
RepAfterLit     == 8

FirstReps     == [i \in 0 .. NumReps - 1 |-> 1]
Pushed(r, d)  == [i \in DOMAIN r |-> IF i = 0 THEN d ELSE r[i - 1]]
ToFront(r, k) == [i \in DOMAIN r |-> IF i = 0 THEN r[k] ELSE IF i <= k THEN r[i - 1] ELSE r[i]]

\* dist: MarkLit, the number of a repeated distance, or a distance and NumReps
NextReps(r, dist) ==
  IF dist = MarkLit THEN r
  ELSE IF dist < NumReps THEN ToFront(r, dist) ELSE Pushed(r, dist - NumReps + 1)

NextState(s, len, dist) ==
  IF dist = MarkLit THEN LiteralNext(s)
  ELSE IF dist = 0 /\ len = 1 THEN ShortRepNext(s)
  ELSE IF dist < NumReps THEN RepNext(s) ELSE MatchNext(s)

-----------------------------------------------------------------------------
(* Reading ahead.                                                            *)

\* data[i], after GetMatches has moved on by one
Data(m, i) == Cur(m, i - 1)

\* How far data and what lies rep before it are equal, from n on, below lim
Run(m, rep, n, lim) ==
  IF n >= lim THEN n
  ELSE Min({k \in n .. lim : k = lim \/ Data(m, k) # Data(m, k - rep)})

RepLen(m, rep, lim) == LET k == Run(m, rep, 0, lim) IN IF k < 2 THEN 0 ELSE k

\* A match as long as the match finder looks for is followed to its end.
Told(got) ==
  LET found == got.found
  IN  [mf |-> got.mf,
       len |-> IF found = <<>> THEN 0
               ELSE IF Last(found).len # NumFastBytes THEN Last(found).len
               ELSE Run(got.mf, Last(found).dist + 1, NumFastBytes, Shorter(Avail(mf), MaxLen)),
       enc |-> [enc EXCEPT !.ahead = @ + 1, !.numAvail = Avail(mf), !.matches = found]]

\* a set of the one outcome
ReadMatchDistances == {Told(got) : got \in {GetMatches(mf)}}

\* The match finder has been asked: r is what it told.
Asked(r) == at' = mf.taken /\ distances' = r.enc.matches

\* MOVE_POS
Moved(m, n) == SkipMany(m, n)

\* the nearest match of at least that length
DistOf(matches, len) == matches[Min({k \in DOMAIN matches : matches[k].len >= len})].dist

-----------------------------------------------------------------------------
(* What GetOptimum returns at once, and what GetOptimumFast returns:         *)
(* <<len, dist, bytes to skip>>.                                             *)

Longest(lens) == CHOOSE i \in DOMAIN lens : \A j \in DOMAIN lens :
                   lens[j] < lens[i] \/ (lens[j] = lens[i] /\ i <= j)

RepLens(m, e, lim) == [i \in 0 .. NumReps - 1 |-> RepLen(m, e.reps[i], lim)]

AsRep(i, len)   == <<len, i, len - 1>>
AsMatch(d, len) == <<len, d + NumReps, len - 1>>
AsLit           == <<1, MarkLit, 0>>
Later           == <<>>

ChangePair(small, big) == big \div PairRatio > small

\* From the longest match down, as long as one byte less is much nearer
Nearer(matches, mainLen) ==
  LET from[k \in 1 .. Len(matches)] ==
        IF k > 1 /\ matches[k].len = matches[k - 1].len + 1
                 /\ ChangePair(matches[k - 1].dist, matches[k].dist)
          THEN from[k - 1] ELSE k
      k == from[Len(matches)]
      len == mainLen - (Len(matches) - k)
  IN  IF len = 2 /\ matches[k].dist >= NearDist THEN <<1, matches[k].dist>> ELSE <<len, matches[k].dist>>

MainPair(matches, mainLen) == IF mainLen >= 2 THEN Nearer(matches, mainLen) ELSE <<mainLen, 0>>

\* GetOptimumFast up to its second look at the match finder
FastFirst(m, e, mainLen) ==
  LET lim  == Shorter(e.numAvail, MaxLen)
      reps == RepLens(m, e, lim)
      long == {i \in DOMAIN reps : reps[i] >= NumFastBytes}
      best == Longest(reps)
      main == MainPair(e.matches, mainLen)
      worth == reps[best] >= 2 /\ (\/ reps[best] + 1 >= main[1]
                                   \/ reps[best] + 2 >= main[1] /\ main[2] >= FarDist[1]
                                   \/ reps[best] + 3 >= main[1] /\ main[2] >= FarDist[2])
  IN  IF e.numAvail < 2 THEN AsLit
      ELSE IF long # {} THEN AsRep(Min(long), reps[Min(long)])
      ELSE IF mainLen >= NumFastBytes THEN AsMatch(Last(e.matches).dist, mainLen)
      ELSE IF worth THEN AsRep(best, reps[best])
      ELSE IF main[1] < 2 \/ lim <= 2 THEN AsLit
      ELSE Later

\* and behind it: main is what had been found, one byte before; len1 what is found now.
FastSecond(m, e, len1, main) ==
  LET dist1 == Last(e.matches).dist
      better == len1 >= 2 /\ (\/ len1 >= main[1] /\ dist1 < main[2]
                              \/ len1 = main[1] + 1 /\ ~ChangePair(main[2], dist1)
                              \/ len1 > main[1] + 1
                              \/ len1 + 1 >= main[1] /\ main[1] >= 3 /\ ChangePair(dist1, main[2]))
      limit == IF main[1] - 1 > 2 THEN main[1] - 1 ELSE 2
  IN  IF better \/ \E i \in DOMAIN e.reps : RepLen(m, e.reps[i], limit) = limit THEN AsLit
      ELSE <<main[1], main[2] + NumReps, IF main[1] > 2 THEN main[1] - 2 ELSE 0>>

-----------------------------------------------------------------------------
(* Optimal parsing.  opt[t] is the cheapest way known to position t: its last*)
(* step has length len and distance dist; with extra = 1 a literal stands    *)
(* before it, with extra > 1 a step of that length less one, and a literal.  *)

NoWay == [price |-> Infinity, len |-> 0, dist |-> 0, extra |-> 0, state |-> 0, reps |-> FirstReps]

Offer(t, p, len, dist, extra) == [to |-> t, price |-> p, len |-> len, dist |-> dist, extra |-> extra]

Taken(opt, o) ==
  IF o.price < opt[o.to].price
    THEN [opt EXCEPT ![o.to] = [@ EXCEPT !.price = o.price, !.len = o.len, !.dist = o.dist, !.extra = o.extra]]
    ELSE opt

\* The offers are taken in their order; opt grows to the farthest of them.
Improved(opt, offers) ==
  LET far == Max({0} \cup {offers[k].to : k \in DOMAIN offers} \cup DOMAIN opt)
  IN  FoldLeft(Taken, [t \in 0 .. far |-> IF t \in DOMAIN opt THEN opt[t] ELSE NoWay], offers)

RepPrice(s, i, len)   == price.rep[s] + price.which[i] + price.repLen[len]
MatchPrice(s, d, len) == price.match[s] + price.dist[d] + price.len[len]

\* Lengths 2 .. len of the i-th repeated distance, from position cur
RepOffers(cur, p, s, i, len) ==
  [k \in 1 .. (IF len < 2 THEN 0 ELSE len - 1) |->
     Offer(cur + k + 1, p + RepPrice(s, i, k + 1), k + 1, i, 0)]

MatchOffer(cur, p, s, matches, len) ==
  LET d == DistOf(matches, len)
  IN  Offer(cur + len, p + MatchPrice(s, d, len), len, d + NumReps, 0)

\* x : LIT : REP_0, where x has length len, comes from `before' bytes back, costs
\* p, and leaves state s.
LitRep0(m, cur, p, s, len, back, dist, full) ==
  LET len2 == Run(m, back, len + 1, Shorter(len + 1 + NumFastBytes, full)) - len
      s2   == IF dist < NumReps THEN LitAfterRep ELSE LitAfterMatch
  IN  IF len2 < 3 THEN <<>>
      ELSE <<Offer(cur + len + len2, p + price.lit[s] + RepPrice(s2, 0, len2 - 1), len2 - 1, dist, len + 1)>>

\* GetOptimum before its loop: the first step is a literal, a byte of the last
\* distance, a repeated distance or a match.
FirstWays(m, e, reps, mainLen) ==
  LET lit   == [NoWay EXCEPT !.price = price.lit[e.state], !.len = 1, !.dist = MarkLit]
      short == [NoWay EXCEPT !.price = price.short[e.state], !.len = 1, !.dist = 0]
      one   == IF Data(m, 0) = Data(m, - e.reps[0]) /\ short.price < lit.price THEN short ELSE lit
      start == IF reps[0] >= 2 THEN reps[0] + 1 ELSE 2
      offers == FlattenSeq([i \in 1 .. NumReps |-> RepOffers(0, 0, e.state, i - 1, reps[i - 1])])
                  \o [k \in 1 .. (IF mainLen < start THEN 0 ELSE mainLen - start + 1) |->
                        MatchOffer(0, 0, e.state, e.matches, start + k - 1)]
  IN  Improved([t \in {0, 1} |-> IF t = 0 THEN [NoWay EXCEPT !.state = e.state, !.reps = e.reps] ELSE one],
               offers)

BestFirst(m, e, mainLen) ==
  LET lim  == Shorter(e.numAvail, MaxLen)
      reps == RepLens(m, e, lim)
      best == Longest(reps)
      opt  == FirstWays(m, e, reps, mainLen)
  IN  IF e.numAvail < 2 THEN [now |-> AsLit]
      ELSE IF reps[best] >= NumFastBytes THEN [now |-> AsRep(best, reps[best])]
      ELSE IF mainLen >= NumFastBytes THEN [now |-> AsMatch(Last(e.matches).dist, mainLen)]
      ELSE IF mainLen < 2 /\ Data(m, 0) # Data(m, - e.reps[0]) /\ reps[best] < 2 THEN [now |-> AsLit]
      ELSE IF mainLen < 2 /\ reps[best] < 2 THEN [now |-> <<1, opt[1].dist, 0>>]
      ELSE [now |-> Later, opt |-> opt]

\* Mutant: a literal before the step is forgotten.
StateAtPlain(opt, cur) ==
  LET c == opt[cur] IN NextState(opt[cur - c.len].state, c.len, c.dist)

\* The state and the distances of the way to cur
StateAt(opt, cur) ==
  LET c == opt[cur]
  IN  IF c.extra > 0 THEN RepAfterLit ELSE NextState(opt[cur - c.len].state, c.len, c.dist)

RepsAt(opt, cur) ==
  LET c == opt[cur] IN NextReps(opt[cur - c.len - c.extra].reps, c.dist)

\* A literal, or the byte of the last distance, from cur
NextByte(opt, cur, s, same) ==
  LET n     == opt[cur + 1]
      lit   == opt[cur].price + price.lit[s]
      short == opt[cur].price + price.short[s]
      isLit == lit < n.price
      a     == IF isLit THEN [n EXCEPT !.price = lit, !.len = 1, !.dist = MarkLit, !.extra = 0] ELSE n
      may   == same /\ (a.len < 2 \/ (a.dist # 0 /\ a.extra <= 1)) /\ short <= a.price
  IN  [next |-> IF may THEN [a EXCEPT !.price = short, !.len = 1, !.dist = 0, !.extra = 0] ELSE a,
       isLit |-> isLit /\ ~may]

\* The ways that begin at cur with something longer; full: how far they may look.
LiteralThenRep(m, cur, p, s, reps, full) ==
  LET len == Run(m, reps[0], 1, Shorter(NumFastBytes + 1, full))
  IN  IF full <= 2 \/ len < 3 THEN <<>>
      ELSE <<Offer(cur + len, p + price.lit[s] + RepPrice(LiteralNext(s), 0, len - 1), len - 1, 0, 1)>>

RepWays(m, cur, p, s, i, rep, full) ==
  LET len == RepLen(m, rep, Shorter(full, NumFastBytes))
  IN  IF len = 0 THEN <<>>
      ELSE RepOffers(cur, p, s, i, len)
             \o LitRep0(m, cur, p + RepPrice(s, i, len), RepNext(s), len, rep, i, full)

MatchWays(m, cur, p, s, matches, len, mainLen, full) ==
  LET d == DistOf(matches, len)
  IN  <<MatchOffer(cur, p, s, matches, len)>>
        \o (IF len # mainLen /\ \A k \in DOMAIN matches : matches[k].len # len THEN <<>>
            ELSE LitRep0(m, cur, p + MatchPrice(s, d, len), MatchNext(s), len, d + 1, d + NumReps, full))

\* One turn of the loop of GetOptimum, behind ReadMatchDistances
NextWays(m, e, opt0, cur, newLen) ==
  LET s     == StateAt(opt0, cur)
      reps  == RepsAt(opt0, cur)
      p     == opt0[cur].price
      same  == Data(m, 0) = Data(m, - reps[0])
      byte  == NextByte(opt0, cur, s, same)
      opt   == [opt0 EXCEPT ![cur].state = s, ![cur].reps = reps, ![cur + 1] = byte.next]
      full  == Shorter(e.numAvail, NumOpts - 1 - cur)
      main  == Shorter(newLen, Shorter(full, NumFastBytes))
      rep0  == RepLen(m, reps[0], Shorter(full, NumFastBytes))
      start == IF rep0 > 0 THEN rep0 + 1 ELSE 2
      offers ==
        (IF byte.isLit \/ same THEN <<>> ELSE LiteralThenRep(m, cur, p, s, reps, full))
          \o FlattenSeq([i \in 1 .. NumReps |-> RepWays(m, cur, p, s, i - 1, reps[i - 1], full)])
          \o FlattenSeq([k \in 1 .. (IF main < start THEN 0 ELSE main - start + 1) |->
                           MatchWays(m, cur, p, s, e.matches, start + k - 1, main, full)])
  IN  IF full < 2 THEN opt ELSE Improved(opt, offers)

\* One turn of Backward: what it writes goes into the places from wr on, which the
\* way still to be followed has left.
Stored(opt, i, len, dist) == [opt EXCEPT ![i].len = len, ![i].dist = dist]

BackTurn(w) ==
  LET c    == w.opt[w.cur]
      cur  == w.cur - c.len - c.extra
      len  == IF c.extra = 0 THEN c.len ELSE IF c.extra = 1 THEN 1 ELSE c.extra - 1
      dist == IF c.extra = 1 THEN MarkLit ELSE c.dist
      v    == CASE c.extra = 0 -> w
                [] c.extra = 1 -> [w EXCEPT !.wr = @ - 1, !.opt = Stored(@, w.wr - 1, c.len, c.dist)]
                [] OTHER       -> [w EXCEPT !.wr = @ - 2, !.opt = Stored(Stored(@, w.wr - 1, c.len, 0),
                                                                         w.wr - 2, 1, MarkLit)]
  IN  IF cur = 0 THEN [v EXCEPT !.way = <<len, dist, 0>>]
      ELSE [v EXCEPT !.cur = cur, !.wr = @ - 1, !.opt = Stored(@, v.wr - 1, len, dist)]

\* The first step of the way to cur, and those that come behind it
Backward(opt, cur) ==
  LET turn[k \in 0 .. cur] ==
        IF k = 0 THEN [opt |-> opt, cur |-> cur, wr |-> cur + 1, way |-> <<>>]
        ELSE LET w == turn[k - 1] IN IF w.way # <<>> THEN w ELSE BackTurn(w)
      end == turn[cur]
  IN  [way |-> end.way, plan |-> [k \in 1 .. cur + 1 - end.wr |-> end.opt[end.wr + k - 1]]]

-----------------------------------------------------------------------------
(* Writing.                                                                  *)

NoByte == Bytes

\* A symbol: what is written and what its coding depends on.
Literal(m, e) ==
  [len |-> 1, dist |-> MarkLit, state |-> e.state, pos |-> e.nowPos,
   byte |-> Cur(m, - e.ahead),
   prev |-> IF e.nowPos = 0 THEN 0 ELSE Cur(m, - e.ahead - 1),
   matched |-> IF e.state < 7 THEN NoByte ELSE Cur(m, - e.ahead - e.reps[0])]

Repetition(e, len, dist) ==
  [len |-> len, dist |-> dist, state |-> e.state, pos |-> e.nowPos,
   byte |-> NoByte, prev |-> NoByte, matched |-> NoByte]

EndMark(e) == Repetition(e, 0, NumReps)

\* The body of the loop of CodeOneBlock behind GetOptimum
Emitted(m, e, len, dist) ==
  [e EXCEPT !.syms = Append(@, IF dist = MarkLit THEN Literal(m, e) ELSE Repetition(e, len, dist)),
            !.state = NextState(@, len, dist), !.reps = NextReps(@, dist),
            !.nowPos = @ + len, !.ahead = @ - len, !.pc = "choose", !.opt = <<>>, !.cur = 0]

\* failed: a write has failed
CheckErrors(m, e, failed) ==
  IF m.result = "fail" THEN [e EXCEPT !.res = "read", !.finished = TRUE]
  ELSE IF failed THEN [e EXCEPT !.res = "write", !.finished = TRUE]
  ELSE e

Flush(m, e) ==
  CheckErrors(m, [e EXCEPT !.finished = TRUE, !.pc = "back",
                           !.syms = IF e.endMark THEN Append(@, EndMark(e)) ELSE @],
              set.outFails /\ ~e.chunk)

\* The end of the loop.  A chunk ends when it may become too long, or when so much
\* has been written that it may become too large, which is left open here.
EndTurn(m, e) ==
  LET processed == e.nowPos - e.start
      tooLong   == processed + NumOpts + ChunkSlack >= UnpackMax
  IN  IF e.ahead > 0 THEN {e}
      ELSE IF Avail(m) = 0 THEN {Flush(m, e)}
      ELSE IF e.chunk THEN {Flush(m, e)} \cup (IF tooLong THEN {} ELSE {e})
      ELSE IF processed >= BlockLimit THEN {CheckErrors(m, [e EXCEPT !.pc = "back"], w) : w \in {FALSE, set.outFails}}
      ELSE {e}

\* way: <<length, distance, bytes to skip>>
Codes(m, e, way) ==
  \E n \in {Moved(m, way[3])} :
    /\ mf' = n
    /\ enc' \in EndTurn(n, Emitted(n, [e EXCEPT !.ahead = @ + way[3]], way[1], way[2]))

-----------------------------------------------------------------------------
(* LzmaEnc_CodeOneBlock.                                                     *)

\* LzmaEnc_Init, and what AllocAndInit clears
NewEnc ==
  [pc |-> "begin", chunk |-> FALSE, endMark |-> set.endMark, nowPos |-> 0, start |-> 0, finished |-> FALSE,
   res |-> "ok", state |-> 0, reps |-> FirstReps, ahead |-> 0, numAvail |-> 0, mainLen |-> 0,
   matches |-> <<>>, plan |-> <<>>, opt |-> <<>>, cur |-> 0, syms |-> <<>>]

Kept == UNCHANGED <<text, set>>
NotAsked == UNCHANGED <<at, distances>>

Resumed(m, e) == IF Avail(m) = 0 THEN Flush(m, e) ELSE e

\* Up to the loop: the first byte is a literal.
CodeOneBlock ==
  /\ enc.pc = "begin"
  /\ LET e == CheckErrors(mf, [enc EXCEPT !.start = enc.nowPos, !.pc = "choose"], FALSE)
     IN  IF e.res # "ok"
           THEN enc' = [e EXCEPT !.pc = "back"] /\ UNCHANGED mf /\ NotAsked
         ELSE IF e.nowPos > 0 \/ Avail(mf) = 0
           THEN enc' = Resumed(mf, e) /\ UNCHANGED mf /\ NotAsked
         ELSE \E r \in ReadMatchDistances :
                /\ mf' = r.mf /\ Asked(r)
                /\ enc' = Resumed(r.mf, Emitted(r.mf, [r.enc EXCEPT !.pc = "choose", !.start = 0], 1, MarkLit))
  /\ Kept

\* What GetOptimum has planned
Planned ==
  /\ enc.pc = "choose" /\ enc.plan # <<>>
  /\ LET c == Head(enc.plan)
     IN  Codes(mf, [enc EXCEPT !.plan = Tail(@)], <<c.len, c.dist, 0>>)
  /\ NotAsked /\ Kept

\* GetOptimum up to its loop, GetOptimumFast up to its second look
Choose ==
  /\ enc.pc = "choose" /\ enc.plan = <<>>
  /\ \E r \in IF enc.ahead = 0 THEN ReadMatchDistances ELSE {[mf |-> mf, enc |-> enc, len |-> enc.mainLen]} :
       LET fast  == FastFirst(r.mf, r.enc, r.len)
           first == BestFirst(r.mf, r.enc, r.len)
       IN  /\ IF set.algo = "fast"
                THEN IF fast # Later THEN Codes(r.mf, r.enc, fast)
                     ELSE mf' = r.mf /\ enc' = [r.enc EXCEPT !.pc = "look", !.mainLen = r.len]
                ELSE IF first.now # Later THEN Codes(r.mf, r.enc, first.now)
                     ELSE mf' = r.mf /\ enc' = [r.enc EXCEPT !.pc = "parse", !.opt = first.opt, !.cur = 0]
           /\ IF enc.ahead = 0 THEN Asked(r) ELSE NotAsked
  /\ Kept

\* The second look of GetOptimumFast
Look ==
  /\ enc.pc = "look"
  /\ \E r \in ReadMatchDistances :
       /\ Codes(r.mf, [r.enc EXCEPT !.mainLen = r.len],
                FastSecond(r.mf, r.enc, r.len, MainPair(enc.matches, enc.mainLen)))
       /\ Asked(r)
  /\ Kept

Follows(m, e, back) == Codes(m, [e EXCEPT !.plan = back.plan], back.way)

\* A turn of the loop of GetOptimum
Parse ==
  /\ enc.pc = "parse"
  /\ LET cur == enc.cur + 1
     IN  IF cur = Max(DOMAIN enc.opt)
           THEN Follows(mf, enc, Backward(enc.opt, cur)) /\ NotAsked
           ELSE \E r \in ReadMatchDistances :
                  /\ IF r.len >= NumFastBytes
                       THEN Follows(r.mf, [r.enc EXCEPT !.mainLen = r.len], Backward(enc.opt, cur))
                       ELSE /\ mf' = r.mf
                            /\ enc' = [r.enc EXCEPT !.cur = cur, !.opt = NextWays(r.mf, r.enc, enc.opt, cur, r.len)]
                  /\ Asked(r)
  /\ Kept

\* LzmaEnc_Encode2, and what LzmaEnc_MemEncode adds
Encode2 ==
  /\ enc.pc = "back" /\ ~enc.chunk
  /\ enc' = IF enc.res = "ok" /\ ~enc.finished THEN [enc EXCEPT !.pc = "begin"]
            ELSE [enc EXCEPT !.pc = "done", !.res = IF @ = "ok" /\ set.direct /\ enc.nowPos # size THEN "fail" ELSE @]
  /\ UNCHANGED mf /\ NotAsked /\ Kept
=============================================================================
