---------------------------- MODULE MatchFinder ----------------------------
(***************************************************************************)
(* The match finder of the compressor (LzFind.c): a window that slides over*)
(* the text, hash tables of the positions where two, three and four bytes  *)
(* were last seen, and behind them a binary tree (bt) or a chain (hc) of   *)
(* the positions that share a hash.                                        *)
(*                                                                         *)
(* Positions are numbers below W (2^32 in the code); when pos reaches      *)
(* MaxPos everything that is stored is made smaller (Normalize).  A byte   *)
(* is a number below Bytes.  The hashes collide as much as the code allows:*)
(* given the first byte, Hash2 tells the second and Hash3 the second and   *)
(* the third, which the code relies on; HashV promises nothing.            *)
(***************************************************************************)
EXTENDS Integers, Sequences, SequencesExt, FiniteSetsExt

CONSTANTS
  Bytes,       \* 256
  Cases,       \* pairs of what is compressed, a sequence, and a record of settings
  HistorySize, AddBefore, MatchMaxLen, AddAfter,   \* arguments of Create
  Reserve,     \* 1 << 19, what the window is larger than it must be
  MaxPos,      \* kMaxValForNormalize
  NormStep,    \* kNormalizeStepMin
  MaxSkip      \* bound: how many bytes the client skips at a time

Modes == {"bt2", "bt3", "bt4", "hc4"}
Empty == 0                             \* kEmptyHashValue
W     == MaxPos + 1

cyclicBufferSize == HistorySize + 1
keepSizeBefore   == HistorySize + AddBefore + 1
keepSizeAfter    == MatchMaxLen + AddAfter

\* MatchFinder_Create: the window may be larger than what must be kept.
blockSize ==
  keepSizeBefore + keepSizeAfter + HistorySize \div 2
    + (AddBefore + MatchMaxLen + AddAfter) \div 2 + Reserve

\* direct: the text is the window; chunk: what one read of the stream returns at
\* most; failAt: where the stream begins to fail; cut: cutValue.
ASSUME SettingsAssumption ==
  /\ \A c \in Cases :
       /\ c[1] \in Seq(0 .. Bytes - 1)
       /\ c[2].mode \in Modes /\ c[2].direct \in BOOLEAN
       /\ c[2].direct => c[2].failAt > Len(c[1])
       /\ {c[2].chunk, c[2].failAt, c[2].cut} \subseteq Nat \ {0}
  /\ {Bytes, NormStep, MatchMaxLen, Reserve} \subseteq Nat \ {0}
  /\ {HistorySize, AddBefore, AddAfter, MaxPos, MaxSkip} \subseteq Nat
  /\ blockSize < W /\ keepSizeBefore < MaxPos /\ HistorySize + NormStep < MaxPos

VARIABLES
  text, set,    \* what is compressed, and how
  mf,           \* CMatchFinder
  at,           \* where in the text matches were looked for last, size after a skip
  distances     \* what it found: sequence of [len, dist], dist from 0

vars == <<text, set, mf, at, distances>>

size == Len(text)

ByteAt(i) == text[i + 1]

\* what the stream gives of the text before it ends or fails
given == IF set.failAt <= size THEN set.failAt ELSE size

Back(a, b)  == (a - b) % W
Avail(m)    == Back(m.streamPos, m.pos)           \* GetNumAvailableBytes
Shorter(a, b) == IF a < b THEN a ELSE b
MinLen == IF set.mode = "bt2" THEN 2 ELSE IF set.mode = "bt3" THEN 3 ELSE 4

-----------------------------------------------------------------------------
(* The window.                                                               *)

\* One turn of the loop of ReadBlock, n bytes after its beginning.  The loop ends
\* when there is no room, the stream fails or ends, or enough lies ahead.
ReadLoop(m) ==
  LET dest == m.buffer + Avail(m)
      from == m.taken + Avail(m)
      most == Shorter(blockSize - dest, given - from)
      loop[n \in 0 .. most] ==
        LET next == n + Shorter(set.chunk, most - n)
        IN  IF dest + n = blockSize THEN [n |-> n, result |-> "ok", end |-> FALSE]
            ELSE IF from + n = given THEN [n |-> n, result |-> IF set.failAt <= size THEN "fail" ELSE "ok",
                                           end |-> set.failAt > size]
            ELSE IF Avail(m) + next > keepSizeAfter THEN [n |-> next, result |-> "ok", end |-> FALSE]
            ELSE loop[next]
  IN  loop[0]

ReadStream(m) ==
  LET r    == ReadLoop(m)
      dest == m.buffer + Avail(m)
  IN  [m EXCEPT !.window = [i \in DOMAIN @ |->
                              IF i \in dest .. dest + r.n - 1
                                THEN ByteAt(m.taken + i - m.buffer) ELSE @[i]],
                !.streamPos = (@ + r.n) % W, !.end = r.end, !.result = r.result]

ReadDirect(m) ==
  LET n == Shorter(MaxPos - Avail(m), m.rem)
  IN  [m EXCEPT !.rem = @ - n, !.streamPos = (@ + n) % W, !.end = (m.rem = n)]

ReadBlock(m) ==
  IF m.end \/ m.result = "fail" THEN m
  ELSE IF set.direct THEN ReadDirect(m)
  ELSE ReadStream(m)

NeedMove(m) == ~set.direct /\ blockSize - m.buffer <= keepSizeAfter

MoveBlock(m) ==
  LET from == m.buffer - keepSizeBefore
      n    == Avail(m) + keepSizeBefore
  IN  [m EXCEPT !.window = [i \in DOMAIN @ |-> IF i < n THEN @[from + i] ELSE @[i]],
                !.buffer = keepSizeBefore]

CheckAndMoveAndRead(m) == ReadBlock(IF NeedMove(m) THEN MoveBlock(m) ELSE m)

SetLimits(m) ==
  LET ahead == Avail(m)
      limit == Min({MaxPos - m.pos, cyclicBufferSize - m.cyc,
                    IF ahead > keepSizeAfter THEN ahead - keepSizeAfter ELSE Shorter(ahead, 1)})
  IN  [m EXCEPT !.lenLimit = Shorter(ahead, MatchMaxLen), !.posLimit = m.pos + limit]

Reduced(f, sub) == [k \in DOMAIN f |-> IF f[k] <= sub THEN Empty ELSE f[k] - sub]

\* Mutant: as much as possible is taken off.
SubValueWhole(m) == m.pos - 1

SubValue(m) == ((m.pos - HistorySize - 1) \div NormStep) * NormStep

Normalize(m) ==
  LET sub == SubValue(m)
  IN  [m EXCEPT !.h2 = Reduced(@, sub), !.h3 = Reduced(@, sub), !.hv = Reduced(@, sub),
                !.son = Reduced(@, sub),
                !.pos = @ - sub, !.posLimit = Back(@, sub), !.streamPos = Back(@, sub)]

CheckLimits(m) ==
  LET a == IF m.pos = MaxPos THEN Normalize(m) ELSE m
      b == IF ~a.end /\ Avail(a) = keepSizeAfter THEN CheckAndMoveAndRead(a) ELSE a
  IN  SetLimits([b EXCEPT !.cyc = IF @ = cyclicBufferSize THEN 0 ELSE @])

MovePos(m) ==
  LET next == [m EXCEPT !.cyc = @ + 1, !.buffer = @ + 1, !.pos = @ + 1, !.taken = @ + 1]
  IN  IF next.pos = next.posLimit THEN CheckLimits(next) ELSE next

Pairs == (0 .. Bytes - 1) \X (0 .. Bytes - 1)

\* MatchFinder_Create, and what MatchFinder_Init sets; taken counts the bytes for the
\* properties
Fresh ==
  [window |-> IF set.direct THEN [i \in 0 .. size - 1 |-> ByteAt(i)]
              ELSE [i \in 0 .. blockSize - 1 |-> Bytes],
   buffer |-> 0, pos |-> cyclicBufferSize, streamPos |-> cyclicBufferSize, posLimit |-> 0,
   lenLimit |-> 0, cyc |-> 0, end |-> FALSE, result |-> "ok", rem |-> size,
   h2 |-> [k \in 0 .. Bytes - 1 |-> Empty], h3 |-> [k \in Pairs |-> Empty],
   hv |-> [k \in Pairs |-> Empty], taken |-> 0,
   son |-> [k \in 0 .. (IF set.mode = "hc4" THEN 1 ELSE 2) * cyclicBufferSize - 1 |-> Empty]]

-----------------------------------------------------------------------------
(* The hashes.                                                               *)

Cur(m, i) == m.window[m.buffer + i]

Hash2(m) == (Cur(m, 0) + Cur(m, 1)) % Bytes
Hash3(m) == <<Hash2(m), (Cur(m, 0) + Cur(m, 2)) % Bytes>>
HashV(m) ==
  CASE MinLen = 2 -> <<Cur(m, 0), Cur(m, 1)>>
    [] MinLen = 3 -> Hash3(m)
    [] MinLen = 4 -> <<(Cur(m, 0) + Cur(m, 1) + Cur(m, 2) + Cur(m, 3)) % Bytes, 0>>

\* the position goes into every table the mode has
Entered(m) ==
  [m EXCEPT !.h2 = IF MinLen > 2 THEN [@ EXCEPT ![Hash2(m)] = m.pos] ELSE @,
            !.h3 = IF MinLen > 3 THEN [@ EXCEPT ![Hash3(m)] = m.pos] ELSE @,
            !.hv[HashV(m)] = m.pos]

\* The length of the match delta back, of which the first n bytes are known to be equal
MatchLen(m, delta, n) ==
  Min({k \in n .. m.lenLimit : k = m.lenLimit \/ Cur(m, k - delta) # Cur(m, k)})

\* Mutant: an equal hash counts as an equal byte.
UsableUnseen(m, delta) == delta < cyclicBufferSize

Usable(m, delta) == delta < cyclicBufferSize /\ Cur(m, - delta) = Cur(m, 0)

Found(len, delta) == [len |-> len, dist |-> delta - 1]

-----------------------------------------------------------------------------
(* The tree and the chain.                                                   *)

Node(m, delta) == m.cyc - delta + IF delta > m.cyc THEN cyclicBufferSize ELSE 0

\* One turn of the loops of GetMatchesSpec1 and of SkipMatchesSpec: w is where
\* the walk stands, ptr0 and ptr1 the two places of the tree still to be filled.
TreeTurn(m, w, get) ==
  LET delta == m.pos - w.cur
      pair  == 2 * Node(m, delta)
      len   == MatchLen(m, delta, Shorter(w.len0, w.len1))
      longer == get /\ w.maxLen < len
      found == IF longer THEN Append(w.found, Found(len, delta)) ELSE w.found
      whole == len = m.lenLimit /\ (get => longer)
      less  == Cur(m, len - delta) < Cur(m, len)
  IN  IF delta >= cyclicBufferSize
        THEN [w EXCEPT !.done = TRUE, !.son[w.ptr0] = Empty, !.son[w.ptr1] = Empty]
      ELSE IF whole
        THEN [w EXCEPT !.done = TRUE, !.found = found,
                       !.son[w.ptr1] = w.son[pair], !.son[w.ptr0] = w.son[pair + 1]]
      ELSE IF less
        THEN [w EXCEPT !.found = found, !.maxLen = IF longer THEN len ELSE @, !.len1 = len,
                       !.son[w.ptr1] = w.cur, !.ptr1 = pair + 1, !.cur = w.son[pair + 1]]
        ELSE [w EXCEPT !.found = found, !.maxLen = IF longer THEN len ELSE @, !.len0 = len,
                       !.son[w.ptr0] = w.cur, !.ptr0 = pair, !.cur = w.son[pair]]

\* When the walk is cut short, both places end here.
TreeEnded(w) == IF w.done THEN w ELSE [w EXCEPT !.son[w.ptr0] = Empty, !.son[w.ptr1] = Empty]

TreeWalk(m, curMatch, maxLen, get) ==
  LET walk[k \in 0 .. set.cut] ==
        IF k = 0
          THEN [cur |-> curMatch, ptr0 |-> 2 * m.cyc + 1, ptr1 |-> 2 * m.cyc, len0 |-> 0, len1 |-> 0,
                son |-> m.son, maxLen |-> maxLen, found |-> <<>>, done |-> FALSE]
          ELSE LET w == walk[k - 1] IN IF w.done THEN w ELSE TreeTurn(m, w, get)
  IN  TreeEnded(walk[set.cut])

\* Hc_GetMatchesSpec
ChainTurn(m, w) ==
  LET delta == m.pos - w.cur
      worth == Cur(m, w.maxLen - delta) = Cur(m, w.maxLen) /\ Cur(m, - delta) = Cur(m, 0)
      len   == MatchLen(m, delta, 1)
      next  == [w EXCEPT !.cur = w.son[Node(m, delta)]]
  IN  IF delta >= cyclicBufferSize THEN [w EXCEPT !.done = TRUE]
      ELSE IF worth /\ w.maxLen < len
        THEN [next EXCEPT !.maxLen = len, !.found = Append(@, Found(len, delta)), !.done = len = m.lenLimit]
        ELSE next

ChainWalk(m, curMatch, maxLen) ==
  LET walk[k \in 0 .. set.cut] ==
        IF k = 0
          THEN [cur |-> curMatch, son |-> [m.son EXCEPT ![m.cyc] = curMatch],
                maxLen |-> maxLen, found |-> <<>>, done |-> FALSE]
          ELSE LET w == walk[k - 1] IN IF w.done THEN w ELSE ChainTurn(m, w)
  IN  walk[set.cut]

-----------------------------------------------------------------------------
(* GetMatches and Skip of each mode.  They return the match finder and what  *)
(* was found.                                                                *)

\* What the tables of two and three bytes give: the last of it is the longest and
\* is extended as far as it goes.
FromTables(m) ==
  LET d2    == m.pos - m.h2[Hash2(m)]
      d3    == m.pos - m.h3[Hash3(m)]
      two   == IF MinLen > 2 /\ Usable(m, d2) THEN <<Found(2, d2)>> ELSE <<>>
      three == IF MinLen > 3 /\ d2 # d3 /\ Usable(m, d3) THEN <<Found(3, d3)>> ELSE <<>>
      both  == two \o three
      last  == both[Len(both)]
  IN  IF both = <<>> THEN <<>>
      ELSE [both EXCEPT ![Len(both)].len = MatchLen(m, last.dist + 1, last.len)]

\* the position takes its place before those that share its hash
Linked(m, e) ==
  [e EXCEPT !.son = IF set.mode = "hc4" THEN [@ EXCEPT ![m.cyc] = m.hv[HashV(m)]]
                    ELSE TreeWalk(e, m.hv[HashV(m)], 0, FALSE).son]

\* tables: what the tables have given
Walked(m, tables) ==
  LET maxLen == IF tables = <<>> \/ Last(tables).len < MinLen - 1 THEN MinLen - 1 ELSE Last(tables).len
      walk   == IF set.mode = "hc4" THEN ChainWalk(Entered(m), m.hv[HashV(m)], maxLen)
                                    ELSE TreeWalk(Entered(m), m.hv[HashV(m)], maxLen, TRUE)
  IN  IF maxLen = m.lenLimit THEN [mf |-> Linked(m, Entered(m)), found |-> tables]
      ELSE [mf |-> [Entered(m) EXCEPT !.son = walk.son], found |-> tables \o walk.found]

GetMatches(m) ==
  LET got == Walked(m, FromTables(m))
  IN  IF m.lenLimit < MinLen THEN [mf |-> MovePos(m), found |-> <<>>]
      ELSE [mf |-> MovePos(got.mf), found |-> got.found]

\* Mutant: a skipped byte is not linked to those before it.
SkipUnlinked(m) == MovePos(IF m.lenLimit < MinLen THEN m ELSE Entered(m))

SkipOne(m) == MovePos(IF m.lenLimit < MinLen THEN m ELSE Linked(m, Entered(m)))

SkipMany(m, num) ==
  LET skipped[k \in 0 .. num] == IF k = 0 THEN m ELSE SkipOne(skipped[k - 1])
  IN  skipped[num]

-----------------------------------------------------------------------------
(* The client.                                                               *)

Init ==
  /\ \E c \in Cases : text = c[1] /\ set = c[2]
  /\ mf \in {SetLimits(ReadBlock(m)) : m \in {Fresh}} /\ at = size /\ distances = <<>>

Get ==
  /\ Avail(mf) > 0
  /\ LET got == GetMatches(mf) IN mf' = got.mf /\ distances' = got.found
  /\ at' = mf.taken
  /\ UNCHANGED <<text, set>>

Skip ==
  \E num \in 1 .. MaxSkip :
    /\ num <= Avail(mf)
    /\ mf' = SkipMany(mf, num) /\ distances' = <<>> /\ at' = size
    /\ UNCHANGED <<text, set>>

Next == Get \/ Skip

Spec == Init /\ [][Next]_vars

-----------------------------------------------------------------------------
(* Properties.                                                               *)

\* The window holds the text: what is kept behind the position, and all that was
\* read ahead of it, through every move of the block and every normalisation.
WindowHolds ==
  \A i \in - Shorter(mf.taken, keepSizeBefore) .. Avail(mf) - 1 :
    mf.buffer + i \in DOMAIN mf.window /\ Cur(mf, i) = ByteAt(mf.taken + i)

Equal(dist, len) == \A i \in 0 .. len - 1 : ByteAt(at + i) = ByteAt(at + i - dist - 1)
Limit == Shorter(given - at, MatchMaxLen)

AreMatches ==
  /\ \A k \in DOMAIN distances :
       LET f == distances[k] IN
         /\ f.dist < at /\ f.dist < HistorySize /\ f.len <= Limit
         /\ Equal(f.dist, f.len)
         /\ f.len < Limit => ~Equal(f.dist, f.len + 1)
  /\ \A k \in 1 .. Len(distances) - 1 : distances[k].len < distances[k + 1].len

\* for every length the mode looks for, the nearest match (that a longer one may hide)
NothingMissed ==
  \A len \in MinLen .. Limit :
    \A dist \in 0 .. Shorter(at, HistorySize) - 1 :
      Equal(dist, len) /\ (\A d \in 0 .. dist - 1 : ~Equal(d, len)) =>
        \E k \in DOMAIN distances : distances[k].dist = dist /\ distances[k].len >= len

\* What is found is a match: inside the history, equal, as long as it can be, and
\* each one longer than the one before it; it is found in a window that holds the
\* text, whatever was moved and normalised; and when the walk is not cut short
\* nothing is missed.
MatchesHold == WindowHolds /\ AreMatches /\ (set.cut >= cyclicBufferSize => NothingMissed)

\* A byte that is skipped leaves the match finder as one that is looked up does.
SkipLikesGet == Avail(mf) > 0 => SkipOne(mf) = GetMatches(mf).mf
=============================================================================
