--------------------------- MODULE MtCoder_proofs ---------------------------
(***************************************************************************)
(* What holds of the thread pool of the compressor for every number of     *)
(* threads and blocks under way, every input and every combination of      *)
(* failures: blocks are written in the order of the input, none is missing *)
(* while nothing has failed (WrittenInOrder), and when MtCoder_Code returns*)
(* nobody is inside a callback and the whole input has been written        *)
(* (ReturnMeansDone).                                                      *)
(*                                                                         *)
(* A thread knows its place in the ring, not the number of its block; the  *)
(* proof follows the numbers.  T blocks have been given a place and the    *)
(* blocks before W have left the ring; tk is the block of each thread, U   *)
(* the blocks that have a buffer, and bf says which.  UnderWay relates them*)
(* to the fields of CMtCoder; that such numbers exist is the invariant.    *)
(***************************************************************************)
EXTENDS MtCoder, FiniteSetTheorems, TLAPS

\* MtCoder_Code and the threads, with whatever caller.
CoderVars == <<main, result, input, calls, faults, created, th, events, p, free, bufs, written>>
CoderNext == Call \/ Return \/ \E t \in Threads : ThreadStep(t)
CoderSpec == Init /\ [][CoderNext]_CoderVars

-----------------------------------------------------------------------------
(* The invariant.                                                          *)

Results == {"ok", "error"}
Steps   == {"start", "read", "take", "spawn", "spawned", "unlock", "code", "publish", "write",
            "advance", "more", "done", "leave", "count"}
Indices == Blocks \cup {None}

Thread == [pc : Steps, res : Results, bi : Indices, wi : Indices, buf : Indices,
           finished : BOOLEAN, block : Nat \cup {None}, last : Nat]

Shared == [stopReading : BOOLEAN, readRes : Results, writeRes : Results, mtRes : Results,
           blockIndex : Blocks, writeIndex : Indices, readProcessed : Nat, ready : SUBSET Blocks,
           blocks : [Blocks -> [res : Results, buf : Indices, finished : BOOLEAN]],
           numStarted : Nat, limit : {NumThreads}, numFinished : Nat]

Turn    == {"take", "spawn", "spawned", "unlock"}   \* between the wait for readEvent and its release
Fresh   == {"spawn", "spawned", "unlock", "code"}   \* a block that has no buffer yet
Coded   == {"publish", "write", "advance"}
Writing == {"write", "advance", "more"}
Holding == Fresh \cup Coded \cup {"more"}           \* those that have a block of the ring
Leaving == {"more", "done"}                         \* a place of the ring still to be released

Step(t)   == th[t].pc
In(steps) == {t \in Threads : Step(t) \in steps}

CoderTypes ==
  /\ main \in {"idle", "wait"} /\ input \in Inputs
  /\ th \in [Threads -> Thread]
  /\ startEvent \subseteq Threads /\ semaphore \in Nat
  /\ readEvent \in BOOLEAN /\ finishedEvent \in BOOLEAN
  /\ p \in Shared
  /\ free \in Seq(Blocks) /\ bufs \in [Blocks -> Int] /\ written \in Seq(Int)

\* Threads that have been told to start and have not been counted
Team    == {t \in Threads : t \in startEvent \/ Step(t) \notin {"start", "count"}}
Started == IF In({"spawned"}) = {} THEN p.numStarted ELSE p.numStarted + 1

TeamOK ==
  /\ p.numStarted >= 1 /\ Started <= NumThreads
  /\ p.numFinished + Cardinality(Team) = Started
  /\ \A t \in startEvent : Step(t) = "start"
  /\ \A t \in Threads : t >= Started => t \notin startEvent /\ Step(t) = "start"
  /\ In({"spawned"}) # {} => p.numStarted \in startEvent \/ Step(p.numStarted) = "read"
  /\ \A t \in In({"count"}) : th[t].last <= p.numFinished
  /\ finishedEvent => Team = {}

\* One thread reads at a time; T blocks have been given a place.
TurnOK(T, tk) ==
  /\ \A t, u \in In(Turn) : t = u
  /\ readEvent \/ p.stopReading => In(Turn) = {}
  /\ p.readProcessed <= input.len
  /\ In(Turn) = {} /\ ~p.stopReading => p.readProcessed = T * BlockSize
  /\ p.stopReading /\ p.mtRes = "ok" => input.len <= T * BlockSize
  /\ \A t \in In({"take"}) :
       /\ th[t].res = "ok" => th[t].block = T
       /\ ~th[t].finished => p.readProcessed = (T + 1) * BlockSize
       /\ th[t].finished /\ th[t].res = "ok" => input.len <= (T + 1) * BlockSize
  /\ \A t \in In(Turn \ {"take"}) :
       /\ tk[t] = T - 1
       /\ ~th[t].finished => p.readProcessed = T * BlockSize
       /\ th[t].finished /\ p.mtRes = "ok" => input.len <= T * BlockSize

\* Blocks W .. T - 1 are under way, and each has its place in the ring: a thread holds it,
\* or it waits there for the thread that writes.
Place(k) == k % NumBlocksMax

RingOK(T, W, tk) ==
  /\ W <= T /\ semaphore + (T - W) + Cardinality(In(Leaving)) = NumBlocksMax
  /\ p.blockIndex = Place(T)
  /\ \A t \in In(Holding) : W <= tk[t] /\ tk[t] < T
  /\ \A t, u \in In(Holding) : tk[t] = tk[u] => t = u
  /\ \A t \in In(Fresh \cup {"publish"}) : th[t].bi = Place(tk[t])
  /\ \A t \in In(Writing) : tk[t] = W /\ th[t].wi = Place(W)
  /\ p.writeIndex = IF In(Writing) = {} THEN Place(W) ELSE None
  /\ \A b \in p.ready : \E k \in W .. T - 1 : b = Place(k)
  /\ \A k \in W .. T - 1 : Place(k) \in p.ready <=> \A t \in In(Holding) : tk[t] # k
  /\ Place(W) \notin p.ready

\* What is known of block k, which a thread holds or which is ready.
Ready(W, T) == {k \in W .. T - 1 : Place(k) \in p.ready} \cup (IF In({"more"}) = {} THEN {} ELSE {W})

\* Blocks U have a buffer, bf says which.
BuffersOK(T, W, tk, U, bf) ==
  /\ U \subseteq W .. T - 1 /\ Len(free) + Cardinality(U) = NumBlocksMax
  /\ \A i, j \in 1 .. Len(free) : free[i] = free[j] => i = j
  /\ \A k \in U : bufs[bf[k]] = k /\ \A i \in 1 .. Len(free) : free[i] # bf[k]
  /\ \A k, l \in U : bf[k] = bf[l] => k = l
  /\ \A t \in In(Fresh) : tk[t] \notin U /\ (th[t].res = "ok" => th[t].block = tk[t])
  /\ \A t \in In(Coded) : th[t].buf = IF tk[t] \in U THEN bf[tk[t]] ELSE None
  /\ \A k \in Ready(W, T) : p.blocks[Place(k)].buf = IF k \in U THEN bf[k] ELSE None
  /\ \A t \in In({"publish"}) : p.blocks[Place(tk[t])] = BlockOf(th[t])
  /\ p.mtRes = "ok" => (\A t \in In(Coded) : tk[t] \in U) /\ Ready(W, T) \subseteq U

\* An error is known to all, and nobody ends without one before the reading is over.
ErrorsOK(T, W) ==
  /\ \A t \in Threads : th[t].res # "ok" => p.mtRes # "ok" /\ Step(t) \notin {"start", "count"}
  /\ \A k \in Ready(W, T) : p.blocks[Place(k)].res # "ok" => p.mtRes # "ok"
  /\ p.readRes # "ok" \/ p.writeRes # "ok" => p.mtRes # "ok"
  /\ \A t \in In({"code", "publish", "write", "advance", "done"}) : th[t].finished => p.stopReading
  /\ \A k \in Ready(W, T) : p.blocks[Place(k)].finished => p.stopReading
  /\ In({"leave"}) # {} \/ p.numFinished > 0 => p.stopReading \/ p.mtRes # "ok"

\* What is written: blocks before W, and W when it has just been handed on.
Due(W) == IF In({"advance"}) = {} THEN W ELSE W + 1

OutputOK(W) ==
  /\ \A k \in 1 .. Len(written) - 1 : written[k] < written[k + 1]
  /\ \A k \in 1 .. Len(written) : written[k] < Due(W)
  /\ p.mtRes = "ok" => Len(written) = Due(W) /\ \A k \in 1 .. Len(written) : written[k] = k - 1

UnderWay(T, W, tk, U, bf) ==
  /\ TurnOK(T, tk) /\ RingOK(T, W, tk) /\ BuffersOK(T, W, tk, U, bf)
  /\ ErrorsOK(T, W) /\ OutputOK(W)

AtRest ==
  /\ Team = {} /\ (\A t \in Threads : th[t].res = "ok") /\ WrittenInOrder
  /\ result = "ok" => Len(written) >= Whole

CoderInv ==
  /\ CoderTypes
  /\ main = "idle" => AtRest
  /\ main = "wait" =>
       /\ TeamOK
       /\ \E T, W \in Nat, tk \in [Threads -> Nat], U \in SUBSET Nat, bf \in [Nat -> Blocks] :
            UnderWay(T, W, tk, U, bf)

-----------------------------------------------------------------------------
(* Numbers.                                                                *)

LEMMA Sizes ==
  /\ NumThreads \in Nat /\ NumThreads >= 1 /\ NumBlocksMax \in Nat /\ NumBlocksMax > NumThreads
  /\ NumBlocksMax >= 2 /\ BlockSize \in Nat /\ BlockSize >= 1
  /\ \A i \in Inputs : i.stream \in BOOLEAN /\ i.len \in Nat
  /\ IsFiniteSet(Threads) /\ 0 \in Threads /\ 0 \in Blocks
<1>1. /\ NumThreads \in Nat \ {0} /\ NumBlocksMax \in Nat \ {0} /\ BlockSize \in Nat \ {0}
      /\ NumBlocksMax > NumThreads
  BY CoderAssumption
<1>2. IsFiniteSet(Threads)
  BY <1>1, FS_Interval DEF Threads
<1>3. QED
  BY <1>1, <1>2, CoderAssumption DEF Threads, Blocks

LEMMA DivMod ==
  ASSUME NEW a \in Nat, NEW d \in Nat \ {0}
  PROVE  a = d * (a \div d) + (a % d) /\ a % d \in 0 .. d - 1 /\ a \div d \in Nat
BY SMT

LEMMA ModUnique ==
  ASSUME NEW q \in Int, NEW s \in Int, NEW d \in Nat \ {0}, 0 <= s, s < d
  PROVE  (d * q + s) % d = s
BY SMT

\* T whole blocks are T blocks.
LEMMA WholeBlocks ==
  ASSUME NEW n \in Nat
  PROVE  /\ n * BlockSize \in Nat /\ (n * BlockSize) \div BlockSize = n
         /\ (n + 1) * BlockSize = n * BlockSize + BlockSize
<1>1. BlockSize \in Nat \ {0}
  BY Sizes
<1> QED BY <1>1, SMT

\* What W blocks hold is no more than W blocks.
LEMMA WholeFits ==
  ASSUME NEW n \in Nat, NEW len \in Nat, len <= n * BlockSize
  PROVE  (len + BlockSize - 1) \div BlockSize <= n
<1> DEFINE a == len + BlockSize - 1
           q == a \div BlockSize
<1>1. BlockSize \in Nat \ {0} /\ a \in Nat
  BY Sizes
<1>2. a = BlockSize * q + (a % BlockSize) /\ a % BlockSize \in 0 .. BlockSize - 1 /\ q \in Nat
  BY <1>1, DivMod
<1> HIDE DEF q
<1>3. BlockSize * q < BlockSize * (n + 1)
  <2>1. BlockSize * (n + 1) = n * BlockSize + BlockSize
    BY <1>1
  <2>2. BlockSize * q \in Int /\ n * BlockSize \in Int
    BY <1>1, <1>2
  <2>3. a < n * BlockSize + BlockSize
    BY <1>1, <2>2
  <2>4. QED
    BY <1>1, <1>2, <2>1, <2>2, <2>3
<1>4. q < n + 1
  BY <1>1, <1>2, <1>3
<1>5. q <= n
  BY <1>2, <1>4
<1>6. QED
  BY <1>5 DEF q

\* The places of the ring
LEMMA PlaceNext ==
  ASSUME NEW k \in Nat
  PROVE  Place(k) \in Blocks /\ Wrap(Place(k)) = Place(k + 1)
<1>1. NumBlocksMax \in Nat \ {0}
  BY Sizes
<1> DEFINE q == k \div NumBlocksMax
           s == k % NumBlocksMax
<1>2. k = NumBlocksMax * q + s /\ s \in 0 .. NumBlocksMax - 1 /\ q \in Nat
  BY <1>1, DivMod
<1> HIDE DEF q, s
<1>3. CASE s + 1 < NumBlocksMax
  <2>1. k + 1 = NumBlocksMax * q + (s + 1)
    BY <1>1, <1>2
  <2>2. (k + 1) % NumBlocksMax = s + 1
    BY <1>1, <1>2, <1>3, <2>1, ModUnique
  <2>3. QED
    BY <1>1, <1>2, <1>3, <2>2 DEF Place, Wrap, Blocks, s
<1>4. CASE s + 1 = NumBlocksMax
  <2>1. k + 1 = NumBlocksMax * (q + 1) + 0
    BY <1>1, <1>2, <1>4
  <2>2. (k + 1) % NumBlocksMax = 0
    BY <1>1, <1>2, <2>1, ModUnique
  <2>3. QED
    BY <1>1, <1>2, <1>4, <2>2 DEF Place, Wrap, Blocks, s
<1>5. QED
  BY <1>1, <1>2, <1>3, <1>4

\* No two blocks under way have the same place.
LEMMA PlaceUnique ==
  ASSUME NEW j \in Nat, NEW k \in Nat, j - k < NumBlocksMax, k - j < NumBlocksMax,
         Place(j) = Place(k)
  PROVE  j = k
<1>1. NumBlocksMax \in Nat \ {0}
  BY Sizes
<1> DEFINE x == j \div NumBlocksMax
           y == k \div NumBlocksMax
           s == j % NumBlocksMax
<1>2. /\ j = NumBlocksMax * x + s /\ s \in 0 .. NumBlocksMax - 1 /\ x \in Nat
      /\ k = NumBlocksMax * y + s /\ y \in Nat
  BY <1>1, DivMod DEF Place
<1> HIDE DEF x, y, s
<1>3. ASSUME NEW a \in Nat, NEW b \in Nat, a < b
      PROVE  NumBlocksMax * b - NumBlocksMax * a >= NumBlocksMax
  <2>1. NumBlocksMax * b = NumBlocksMax * a + NumBlocksMax * (b - a)
    BY <1>1
  <2>2. NumBlocksMax * (b - a) >= NumBlocksMax
    BY <1>1, <1>3
  <2>3. NumBlocksMax * a \in Int /\ NumBlocksMax * b \in Int
    BY <1>1
  <2>4. QED
    BY <1>1, <2>1, <2>2, <2>3
<1>4. NumBlocksMax * x \in Int /\ NumBlocksMax * y \in Int
  BY <1>1, <1>2
<1>5. CASE x < y
  BY <1>1, <1>2, <1>3, <1>4, <1>5
<1>6. CASE y < x
  BY <1>1, <1>2, <1>3, <1>4, <1>6
<1>7. CASE x = y
  BY <1>2, <1>7
<1>8. QED
  BY <1>2, <1>5, <1>6, <1>7

-----------------------------------------------------------------------------
(* One thread moves, the others stay.                                      *)

Others(t) == \A u \in Threads \ {t} : th'[u] = th[u]

\* The places a thread has a block in, and the block
Keeps(t) == /\ th'[t].bi = th[t].bi /\ th'[t].wi = th[t].wi
            /\ th'[t].buf = th[t].buf /\ th'[t].block = th[t].block

\* Errors are not forgotten.
Worse == p'.mtRes = "ok" => p.mtRes = "ok"

SamePlaces == /\ p'.blockIndex = p.blockIndex /\ p'.writeIndex = p.writeIndex
              /\ p'.ready = p.ready
Pool == SamePlaces /\ p'.blocks = p.blocks

LEMMA ThreadFields ==
  ASSUME CoderTypes, NEW t \in Threads
  PROVE  /\ th[t] \in Thread /\ th[t].pc \in Steps /\ th[t].res \in Results
         /\ th[t].bi \in Indices /\ th[t].wi \in Indices /\ th[t].buf \in Indices
         /\ th[t].finished \in BOOLEAN /\ th[t].block \in Nat \cup {None} /\ th[t].last \in Nat
<1>1. th[t] \in Thread
  BY DEF CoderTypes
<1> QED BY <1>1 DEF Thread

LEMMA SharedFields ==
  ASSUME CoderTypes
  PROVE  /\ p.stopReading \in BOOLEAN /\ p.readRes \in Results /\ p.writeRes \in Results
         /\ p.mtRes \in Results /\ p.blockIndex \in Blocks /\ p.writeIndex \in Indices
         /\ p.readProcessed \in Nat /\ p.ready \in SUBSET Blocks
         /\ p.blocks \in [Blocks -> [res : Results, buf : Indices, finished : BOOLEAN]]
         /\ p.numStarted \in Nat /\ p.limit = NumThreads /\ p.numFinished \in Nat
BY DEF CoderTypes, Shared

LEMMA Moves ==
  ASSUME CoderTypes, NEW t \in Threads, NEW x \in Thread, th' = [th EXCEPT ![t] = x]
  PROVE  th' \in [Threads -> Thread] /\ th'[t] = x /\ Others(t)
BY DEF CoderTypes, Others

\* MtProgress_SetError
LEMMA ErrorFields ==
  ASSUME NEW q \in Shared, NEW res \in Results
  PROVE  /\ Error(q, res) \in Shared
         /\ Error(q, res).mtRes = "ok" => q.mtRes = "ok" /\ res = "ok"
         /\ res = "ok" => Error(q, res) = q
         /\ Error(q, res).stopReading = q.stopReading /\ Error(q, res).readRes = q.readRes
         /\ Error(q, res).writeRes = q.writeRes /\ Error(q, res).blockIndex = q.blockIndex
         /\ Error(q, res).writeIndex = q.writeIndex /\ Error(q, res).readProcessed = q.readProcessed
         /\ Error(q, res).ready = q.ready /\ Error(q, res).blocks = q.blocks
         /\ Error(q, res).numStarted = q.numStarted /\ Error(q, res).limit = q.limit
         /\ Error(q, res).numFinished = q.numFinished
<1>1. q.mtRes \in Results
  BY DEF Shared
<1>2. CASE q.mtRes = "ok"
  <2>1. Error(q, res) = [q EXCEPT !.mtRes = res]
    BY <1>2 DEF Error, Shared
  <2>2. res = "ok" => Error(q, res) = q
    BY <2>1, <1>2 DEF Shared
  <2>3. QED
    BY <2>1, <2>2, <1>2 DEF Shared
<1>3. CASE q.mtRes # "ok"
  <2>1. Error(q, res) = q
    BY <1>3 DEF Error, Shared
  <2>2. QED
    BY <2>1, <1>3
<1>4. QED
  BY <1>2, <1>3

\* Sets of threads, when one moves
LEMMA InSame ==
  ASSUME NEW t \in Threads, Others(t), NEW S, th[t].pc \in S <=> th'[t].pc \in S
  PROVE  {u \in Threads : th'[u].pc \in S} = {u \in Threads : th[u].pc \in S}
BY DEF Others

LEMMA InMore ==
  ASSUME NEW t \in Threads, Others(t), NEW S, th[t].pc \notin S, th'[t].pc \in S
  PROVE  /\ {u \in Threads : th'[u].pc \in S} = {u \in Threads : th[u].pc \in S} \cup {t}
         /\ t \notin {u \in Threads : th[u].pc \in S}
BY DEF Others

LEMMA InLess ==
  ASSUME NEW t \in Threads, Others(t), NEW S, th[t].pc \in S, th'[t].pc \notin S
  PROVE  /\ {u \in Threads : th'[u].pc \in S} = {u \in Threads : th[u].pc \in S} \ {t}
         /\ t \in {u \in Threads : th[u].pc \in S}
BY DEF Others

-----------------------------------------------------------------------------
(* Steps that do not touch what a part of the invariant is about.          *)

LEMMA TurnFrame ==
  ASSUME NEW t \in Threads, Others(t), th[t].pc \notin Turn, th'[t].pc \notin Turn,
         UNCHANGED <<input, readEvent>>, Worse,
         p'.stopReading = p.stopReading, p'.readProcessed = p.readProcessed,
         NEW T \in Nat, NEW tk, NEW tk2, \A u \in Threads \ {t} : tk2[u] = tk[u],
         TurnOK(T, tk)
  PROVE  TurnOK(T, tk2)'
<1>1. /\ In(Turn)' = In(Turn) /\ t \notin In(Turn)
      /\ In({"take"})' = In({"take"}) /\ t \notin In({"take"})
      /\ In(Turn \ {"take"})' = In(Turn \ {"take"}) /\ t \notin In(Turn \ {"take"})
  BY DEF In, Step, Others, Turn
<1>2. \A u \in In(Turn) : u \in Threads \ {t} /\ th'[u] = th[u] /\ tk2[u] = tk[u]
  BY <1>1 DEF In, Others
<1>3. In({"take"}) \subseteq In(Turn) /\ In(Turn \ {"take"}) \subseteq In(Turn)
  BY DEF In, Turn
<1>4. QED
  BY <1>1, <1>2, <1>3 DEF TurnOK, Worse

LEMMA OutputFrame ==
  ASSUME NEW t \in Threads, Others(t), th[t].pc = "advance" <=> th'[t].pc = "advance",
         UNCHANGED written, Worse, NEW W \in Nat, OutputOK(W)
  PROVE  OutputOK(W)'
<1>1. In({"advance"})' = In({"advance"})
  BY DEF In, Step, Others
<1>2. Due(W)' = Due(W)
  BY <1>1 DEF Due
<1>3. QED
  BY <1>2 DEF OutputOK, Worse

LEMMA RingFrame ==
  ASSUME NEW t \in Threads, Others(t), UNCHANGED semaphore, SamePlaces,
         th[t].pc \in Holding <=> th'[t].pc \in Holding,
         th[t].pc \in Writing <=> th'[t].pc \in Writing,
         th[t].pc \in Leaving <=> th'[t].pc \in Leaving,
         th'[t].pc \in Fresh \cup {"publish"} => th[t].pc \in Fresh,
         th'[t].pc \in Holding => th'[t].bi = th[t].bi /\ th'[t].wi = th[t].wi,
         NEW T \in Nat, NEW W \in Nat, NEW tk, RingOK(T, W, tk)
  PROVE  RingOK(T, W, tk)'
<1>1. In(Holding)' = In(Holding) /\ In(Writing)' = In(Writing) /\ In(Leaving)' = In(Leaving)
  BY DEF In, Step, Others
<1>2. In(Fresh \cup {"publish"})' \subseteq In(Fresh \cup {"publish"})
  BY DEF In, Step, Others
<1>3. \A u \in In(Fresh \cup {"publish"})' : th'[u].bi = th[u].bi
  BY DEF In, Step, Others, Holding, Coded
<1>4. \A u \in In(Writing)' : th'[u].wi = th[u].wi
  BY DEF In, Step, Others, Holding, Coded, Writing
<1>5. /\ (semaphore + (T - W) + Cardinality(In(Leaving)) = NumBlocksMax)'
      /\ (p.writeIndex = IF In(Writing) = {} THEN Place(W) ELSE None)'
  BY <1>1, Zenon DEF RingOK, SamePlaces
<1>6. \A u \in In(Fresh \cup {"publish"})' : th'[u].bi = Place(tk[u])
  BY <1>2, <1>3 DEF RingOK
<1>7. \A u \in In(Writing)' : tk[u] = W /\ th'[u].wi = Place(W)
  BY <1>1, <1>4 DEF RingOK
<1>8. /\ \A u \in In(Holding)' : W <= tk[u] /\ tk[u] < T
      /\ \A u, v \in In(Holding)' : tk[u] = tk[v] => u = v
      /\ \A k \in W .. T - 1 : Place(k) \in p'.ready <=> \A u \in In(Holding)' : tk[u] # k
  BY <1>1 DEF RingOK, SamePlaces
<1>9. QED
  BY <1>5, <1>6, <1>7, <1>8 DEF RingOK, SamePlaces

LEMMA BuffersFrame ==
  ASSUME NEW t \in Threads, Others(t), UNCHANGED <<free, bufs>>, Worse, p'.blocks = p.blocks,
         NEW T \in Nat, NEW T2 \in Nat, NEW W \in Nat, T <= T2,
         NEW tk, NEW tk2, \A u \in Threads \ {t} : tk2[u] = tk[u],
         NEW U, NEW bf, BuffersOK(T, W, tk, U, bf),
         th'[t].pc \in Fresh => tk2[t] \notin U /\ (th'[t].res = "ok" => th'[t].block = tk2[t]),
         th'[t].pc \in Coded => /\ th'[t].buf = IF tk2[t] \in U THEN bf[tk2[t]] ELSE None
                                /\ p'.mtRes = "ok" => tk2[t] \in U,
         th'[t].pc # "publish",
         \A k \in Ready(W, T2)' : /\ p.blocks[Place(k)].buf = IF k \in U THEN bf[k] ELSE None
                                  /\ p'.mtRes = "ok" => k \in U
  PROVE  BuffersOK(T2, W, tk2, U, bf)'
<1>1. /\ (Len(free) + Cardinality(U) = NumBlocksMax)'
      /\ \A i, j \in 1 .. Len(free') : free'[i] = free'[j] => i = j
      /\ \A k \in U : bufs'[bf[k]] = k /\ \A i \in 1 .. Len(free') : free'[i] # bf[k]
      /\ \A k, l \in U : bf[k] = bf[l] => k = l
  BY DEF BuffersOK
<1>2. U \subseteq W .. T2 - 1
  BY DEF BuffersOK
<1>3. \A u \in In(Fresh)' : tk2[u] \notin U /\ (th'[u].res = "ok" => th'[u].block = tk2[u])
  BY DEF BuffersOK, In, Step, Others
<1>4. \A u \in In(Coded)' : th'[u].buf = IF tk2[u] \in U THEN bf[tk2[u]] ELSE None
  BY DEF BuffersOK, In, Step, Others
<1>5. \A u \in In({"publish"})' : p'.blocks[Place(tk2[u])] = BlockOf(th'[u])
  BY DEF BuffersOK, In, Step, Others, BlockOf
<1>6. \A k \in Ready(W, T2)' : p'.blocks[Place(k)].buf = IF k \in U THEN bf[k] ELSE None
  OBVIOUS
<1>7. p'.mtRes = "ok" => (\A u \in In(Coded)' : tk2[u] \in U) /\ Ready(W, T2)' \subseteq U
  BY DEF BuffersOK, In, Step, Others, Worse
<1>8. QED
  BY <1>1, <1>2, <1>3, <1>4, <1>5, <1>6, <1>7 DEF BuffersOK

\* An error of the thread, or of what it leaves to be written, is known already.
LEMMA ErrorsFrame ==
  ASSUME NEW t \in Threads, Others(t), Worse, p.stopReading => p'.stopReading,
         NEW T \in Nat, NEW T2 \in Nat, NEW W \in Nat, NEW W2 \in Nat, ErrorsOK(T, W),
         th'[t].res # "ok" => p'.mtRes # "ok" /\ th'[t].pc \notin {"start", "count"},
         p'.readRes # "ok" \/ p'.writeRes # "ok" => p'.mtRes # "ok",
         th'[t].pc \in {"code", "publish", "write", "advance", "done"} /\ th'[t].finished => p'.stopReading,
         th'[t].pc = "leave" \/ p'.numFinished # p.numFinished => p'.stopReading \/ p'.mtRes # "ok",
         \A k \in Ready(W2, T2)' :
           \/ k \in Ready(W, T) /\ p'.blocks[Place(k)] = p.blocks[Place(k)]
           \/ th[t].pc = "publish" /\ p'.blocks[Place(k)] = BlockOf(th[t])
  PROVE  ErrorsOK(T2, W2)'
<1>1. \A u \in Threads : th'[u].res # "ok" => p'.mtRes # "ok" /\ th'[u].pc \notin {"start", "count"}
  BY DEF ErrorsOK, Others, Worse, Step
<1>2. \A k \in Ready(W2, T2)' : p'.blocks[Place(k)].res # "ok" => p'.mtRes # "ok"
  BY DEF ErrorsOK, Worse, BlockOf
<1>3. \A u \in In({"code", "publish", "write", "advance", "done"})' : th'[u].finished => p'.stopReading
  BY DEF ErrorsOK, In, Step, Others
<1>4. \A k \in Ready(W2, T2)' : p'.blocks[Place(k)].finished => p'.stopReading
  <2>1. th[t].pc = "publish" /\ th[t].finished => p.stopReading
    BY DEF ErrorsOK, In, Step
  <2>2. QED
    BY <2>1 DEF ErrorsOK, BlockOf
<1>5. In({"leave"})' # {} \/ p'.numFinished > 0 => p'.stopReading \/ p'.mtRes # "ok"
  <2>1. In({"leave"})' # {} => In({"leave"}) # {} \/ th'[t].pc = "leave"
    BY DEF In, Step, Others
  <2>2. QED
    BY <2>1 DEF ErrorsOK, Worse
<1>6. QED
  BY <1>1, <1>2, <1>3, <1>4, <1>5 DEF ErrorsOK, Step

\* What is ready stays so while nobody begins or ends to take over the next block.
LEMMA ReadySame ==
  ASSUME NEW t \in Threads, Others(t), p'.ready = p.ready,
         th[t].pc = "more" <=> th'[t].pc = "more", NEW T, NEW W
  PROVE  Ready(W, T)' = Ready(W, T)
<1>1. In({"more"})' = In({"more"})
  BY DEF In, Step, Others
<1>2. QED
  BY <1>1 DEF Ready

LEMMA TeamFrame ==
  ASSUME CoderTypes, NEW t \in Threads, Others(t), TeamOK, UNCHANGED <<startEvent, finishedEvent>>,
         th[t].pc \notin {"start", "count"}, th'[t].pc \notin {"start", "count"},
         th[t].pc = "spawned" <=> th'[t].pc = "spawned",
         th[t].pc = "read" => In({"spawned"}) = {},
         p'.numStarted = p.numStarted, p'.numFinished = p.numFinished
  PROVE  TeamOK'
<1>1. Team' = Team /\ In({"spawned"})' = In({"spawned"}) /\ In({"count"})' = In({"count"})
  BY DEF Team, In, Step, Others
<1>2. Started' = Started
  BY <1>1 DEF Started
<1>3. \A u \in startEvent' : Step(u)' = "start"
  <2>1. t \notin startEvent
    BY DEF TeamOK, Step
  <2>2. \A u \in startEvent : u \in Threads \ {t}
    BY <2>1 DEF CoderTypes
  <2>3. QED
    BY <2>2 DEF TeamOK, Step, Others
<1>4. In({"spawned"})' # {} => (p.numStarted \in startEvent \/ Step(p.numStarted) = "read")'
  <2>1. SUFFICES ASSUME In({"spawned"}) # {} PROVE (p.numStarted \in startEvent \/ Step(p.numStarted) = "read")'
    BY <1>1
  <2>2. p.numStarted \in startEvent \/ Step(p.numStarted) = "read"
    BY <2>1 DEF TeamOK
  <2>3. p.numStarted \in Threads
    BY <2>1, Sizes, SharedFields DEF TeamOK, Started, Threads
  <2>4. p.numStarted # t \/ p.numStarted \in startEvent
    BY <2>1, <2>2 DEF Step
  <2>5. QED
    BY <2>2, <2>3, <2>4 DEF Step, Others
<1>5. \A u \in In({"count"})' : th'[u].last <= p'.numFinished
  BY <1>1 DEF TeamOK, In, Others, Step
<1>6. \A u \in Threads : u >= Started => u \notin startEvent' /\ Step(u)' = "start"
  <2>1. ~(t >= Started)
    BY DEF TeamOK, Step
  <2>2. QED
    BY <2>1 DEF TeamOK, Step, Others
<1>7. QED
  BY <1>1, <1>2, <1>3, <1>4, <1>5, <1>6 DEF TeamOK

-----------------------------------------------------------------------------
(* What each step of a thread does to its variables and to CMtCoder.       *)

LEMMA GoFacts ==
  ASSUME CoderTypes, NEW t \in Threads, NEW pc \in Steps, Go(t, pc)
  PROVE  /\ th' \in [Threads -> Thread] /\ Others(t) /\ th'[t].pc = pc /\ Keeps(t)
         /\ th'[t].res = th[t].res /\ th'[t].finished = th[t].finished /\ th'[t].last = th[t].last
<1> DEFINE x == [th[t] EXCEPT !.pc = pc]
<1>1. th[t] \in Thread
  BY ThreadFields
<1>2. x \in Thread /\ th' = [th EXCEPT ![t] = x]
  BY <1>1 DEF Go, Thread, CoderTypes
<1>3. th' \in [Threads -> Thread] /\ th'[t] = x /\ Others(t)
  BY <1>2, Moves
<1>4. QED
  BY <1>1, <1>3 DEF Keeps, Thread

LEMMA StartFacts ==
  ASSUME CoderTypes, NEW t \in Threads, Start(t)
  PROVE  /\ CoderTypes' /\ Others(t) /\ th'[t].pc = "read"
         /\ th'[t].res = th[t].res /\ th'[t].last = th[t].last
<1>1. "read" \in Steps
  BY DEF Steps
<1>2. th' \in [Threads -> Thread] /\ Others(t) /\ th'[t].pc = "read" /\ th'[t].res = th[t].res
      /\ th'[t].last = th[t].last
  BY <1>1, GoFacts DEF Start
<1>3. CoderTypes'
  BY <1>2 DEF Start, CoderTypes
<1>4. QED
  BY <1>2, <1>3

LEMMA StoppedFacts ==
  ASSUME CoderTypes, NEW t \in Threads, Stopped(t)
  PROVE  CoderTypes' /\ Others(t) /\ th'[t].pc = "leave" /\ th'[t].res = th[t].res
<1>1. "leave" \in Steps
  BY DEF Steps
<1>2. th' \in [Threads -> Thread] /\ Others(t) /\ th'[t].pc = "leave" /\ th'[t].res = th[t].res
  BY <1>1, GoFacts DEF Stopped
<1>3. CoderTypes'
  BY <1>2 DEF Stopped, CoderTypes, events
<1>4. QED
  BY <1>2, <1>3

\* The number of the block that is read, and how much of the input belongs to it
Rest == input.len - p.readProcessed
Part == IF Rest < BlockSize THEN Rest ELSE BlockSize

LEMMA ReadFacts ==
  ASSUME CoderTypes, NEW t \in Threads, Read(t), p.readProcessed <= input.len
  PROVE  /\ CoderTypes' /\ Others(t) /\ th'[t].pc = "take" /\ Pool /\ Worse
         /\ p'.stopReading = p.stopReading /\ p'.writeRes = p.writeRes
         /\ p'.numStarted = p.numStarted /\ p'.numFinished = p.numFinished
         /\ \/ /\ th'[t].res # "ok" /\ th'[t].finished /\ p'.mtRes # "ok"
               /\ p'.readProcessed = p.readProcessed
            \/ /\ p.mtRes = "ok" /\ p'.mtRes = "ok" /\ th'[t].res = "ok" /\ p'.readRes = p.readRes
               /\ th'[t].block = Number(p) /\ p'.readProcessed = p.readProcessed + Part
               /\ ~th'[t].finished => Part = BlockSize
               /\ th'[t].finished => input.len <= p.readProcessed + Part \/ Part # BlockSize
<1> USE DEF Rest, Part
<1>1. p \in Shared /\ p.readProcessed \in Nat /\ p.mtRes \in Results /\ p.readRes \in Results
  BY SharedFields DEF CoderTypes
<1>2. Number(p) \in Nat
  BY <1>1, Sizes, DivMod DEF Number
<1>3. input.len \in Nat /\ Part \in Nat
  BY <1>1, Sizes DEF CoderTypes
<1>4. PICK res \in {"ok", "error"} :
       LET rest == input.len - p.readProcessed
           size == IF rest < BlockSize THEN rest ELSE BlockSize
       IN  IF p.mtRes # "ok"
             THEN /\ res = "ok"
                  /\ th' = [th EXCEPT ![t] = [Outside EXCEPT !.pc = "take", !.res = p.mtRes, !.finished = TRUE]]
                  /\ UNCHANGED <<p, faults>>
             ELSE /\ res = "error" => input.stream
                  /\ MayFail(res)
                  /\ th' = [th EXCEPT ![t] = [Outside EXCEPT !.pc = "take", !.res = res, !.block = Number(p),
                              !.finished = IF res = "error" THEN TRUE
                                           ELSE IF input.stream THEN size # BlockSize
                                           ELSE input.len = p.readProcessed + size]]
                  /\ p' = IF res = "ok" THEN [p EXCEPT !.readProcessed = @ + size]
                                           ELSE [Error(p, res) EXCEPT !.readRes = res]
  BY DEF Read
<1> DEFINE fin == IF res = "error" THEN TRUE
                  ELSE IF input.stream THEN Part # BlockSize
                  ELSE input.len = p.readProcessed + Part
           x == [Outside EXCEPT !.pc = "take", !.res = p.mtRes, !.finished = TRUE]
           y == [Outside EXCEPT !.pc = "take", !.res = res, !.block = Number(p), !.finished = fin]
<1>5. CASE p.mtRes # "ok"
  <2>1. p' = p /\ th' = [th EXCEPT ![t] = x]
    BY <1>4, <1>5
  <2>2. x \in Thread /\ x.pc = "take" /\ x.res = p.mtRes /\ x.finished
    BY <1>1 DEF Thread, Outside, Indices, None, Steps, Results
  <2> HIDE DEF x
  <2>3. th' \in [Threads -> Thread] /\ th'[t] = x /\ Others(t)
    BY <2>1, <2>2, Moves
  <2>4. CoderTypes'
    BY <2>1, <2>3 DEF CoderTypes, Read
  <2>5. QED
    BY <1>5, <2>1, <2>2, <2>3, <2>4 DEF Pool, SamePlaces, Worse
<1>6. CASE p.mtRes = "ok"
  <2>1. /\ th' = [th EXCEPT ![t] = y]
        /\ p' = IF res = "ok" THEN [p EXCEPT !.readProcessed = @ + Part]
                              ELSE [Error(p, res) EXCEPT !.readRes = res]
    BY <1>4, <1>6
  <2>2. fin \in BOOLEAN
    BY DEF fin
  <2> HIDE DEF fin
  <2>3. y \in Thread /\ y.pc = "take" /\ y.res = res /\ y.finished = fin /\ y.block = Number(p)
    BY <1>2, <2>2 DEF Thread, Outside, Indices, None, Steps, Results
  <2> HIDE DEF y
  <2>4. th' \in [Threads -> Thread] /\ th'[t] = y /\ Others(t)
    BY <2>1, <2>3, Moves
  <2>5. CASE res = "ok"
    <3>1. p' = [p EXCEPT !.readProcessed = @ + Part]
      BY <2>1, <2>5
    <3>2. /\ p' \in Shared /\ Pool /\ p'.mtRes = p.mtRes /\ p'.readRes = p.readRes
          /\ p'.writeRes = p.writeRes /\ p'.stopReading = p.stopReading
          /\ p'.numStarted = p.numStarted /\ p'.numFinished = p.numFinished
          /\ p'.readProcessed = p.readProcessed + Part
      <4>1. p.readProcessed + Part \in Nat /\ p \in Shared
        BY <1>1, <1>3
      <4>2. /\ p' \in Shared /\ p'.readProcessed = p.readProcessed + Part
            /\ p'.mtRes = p.mtRes /\ p'.readRes = p.readRes
            /\ p'.writeRes = p.writeRes /\ p'.stopReading = p.stopReading
            /\ p'.numStarted = p.numStarted /\ p'.numFinished = p.numFinished
        BY <3>1, <4>1 DEF Shared
      <4>3. Pool
        BY <3>1, <4>1 DEF Shared, Pool, SamePlaces
      <4>4. QED
        BY <4>2, <4>3
    <3>3. CoderTypes'
      BY <2>4, <3>2 DEF CoderTypes, Read
    <3>4. \/ input.stream /\ (fin <=> Part # BlockSize)
          \/ ~input.stream /\ (fin <=> input.len = p.readProcessed + Part)
      BY <2>5, Zenon DEF fin
    <3> HIDE DEF Part
    <3>5. ~fin => Part = BlockSize
      <4>1. input.len # p.readProcessed + Part => Part = BlockSize
        BY <1>1, <1>3, Sizes DEF Part
      <4>2. QED
        BY <3>4, <4>1, Zenon
    <3>6. fin => input.len <= p.readProcessed + Part \/ Part # BlockSize
      <4>1. input.len = p.readProcessed + Part => input.len <= p.readProcessed + Part
        BY <1>1, <1>3
      <4>2. QED
        BY <3>4, <4>1, Zenon
    <3>7. QED
      BY <1>6, <2>3, <2>4, <2>5, <3>2, <3>3, <3>5, <3>6 DEF Worse
  <2>6. CASE res = "error"
    <3> DEFINE e == Error(p, res)
    <3>1. /\ e \in Shared /\ e.mtRes # "ok"
          /\ e.stopReading = p.stopReading /\ e.readRes = p.readRes
          /\ e.writeRes = p.writeRes /\ e.blockIndex = p.blockIndex
          /\ e.writeIndex = p.writeIndex /\ e.readProcessed = p.readProcessed
          /\ e.ready = p.ready /\ e.blocks = p.blocks
          /\ e.numStarted = p.numStarted /\ e.limit = p.limit
          /\ e.numFinished = p.numFinished
      BY <1>1, <2>6, ErrorFields DEF Results
    <3>2. p' = [e EXCEPT !.readRes = res]
      BY <2>1, <2>6
    <3> HIDE DEF e
    <3>3. /\ p' \in Shared /\ Pool /\ p'.mtRes # "ok"
          /\ p'.writeRes = p.writeRes /\ p'.stopReading = p.stopReading
          /\ p'.numStarted = p.numStarted /\ p'.numFinished = p.numFinished
          /\ p'.readProcessed = p.readProcessed
      BY <2>6, <3>1, <3>2 DEF Shared, Pool, SamePlaces, Results
    <3>4. CoderTypes'
      BY <2>4, <3>3 DEF CoderTypes, Read
    <3>5. fin
      BY <2>6 DEF fin
    <3>6. QED
      BY <2>3, <2>4, <2>6, <3>3, <3>4, <3>5 DEF Worse
  <2>7. QED
    BY <2>5, <2>6
<1>7. QED
  BY <1>5, <1>6

LEMMA TakeFacts ==
  ASSUME CoderTypes, NEW t \in Threads, Take(t)
  PROVE  /\ CoderTypes' /\ Others(t) /\ th'[t].pc = "spawn" /\ semaphore > 0 /\ semaphore' = semaphore - 1
         /\ th'[t].bi = p.blockIndex /\ th'[t].block = th[t].block
         /\ th'[t].res = IF th[t].res = "ok" THEN p.mtRes ELSE th[t].res
         /\ th'[t].finished <=> th[t].finished \/ th'[t].res # "ok"
         /\ p'.blockIndex = Wrap(p.blockIndex)
         /\ p'.stopReading = p.stopReading /\ p'.readRes = p.readRes /\ p'.writeRes = p.writeRes
         /\ p'.mtRes = p.mtRes /\ p'.writeIndex = p.writeIndex /\ p'.readProcessed = p.readProcessed
         /\ p'.ready = p.ready /\ p'.blocks = p.blocks
         /\ p'.numStarted = p.numStarted /\ p'.numFinished = p.numFinished
<1>1. /\ th[t] \in Thread /\ p \in Shared /\ p.mtRes \in Results /\ p.blockIndex \in Blocks
      /\ th[t].res \in Results /\ th[t].finished \in BOOLEAN
  BY SharedFields, ThreadFields DEF CoderTypes
<1> DEFINE res == IF th[t].res = "ok" THEN p.mtRes ELSE th[t].res
           fin == th[t].finished \/ res # "ok"
           x == [th[t] EXCEPT !.pc = "spawn", !.bi = p.blockIndex, !.res = res, !.finished = fin]
<1>2. res \in Results /\ fin \in BOOLEAN
  BY <1>1
<1>3. th' = [th EXCEPT ![t] = x]
  <2>1. th' = [th EXCEPT ![t].pc = "spawn", ![t].bi = p.blockIndex, ![t].res = res,
                         ![t].finished = @ \/ res # "ok"]
    BY DEF Take
  <2> HIDE DEF res
  <2>2. QED
    BY <1>1, <2>1 DEF CoderTypes, Thread
<1> HIDE DEF fin, res
<1>4. x \in Thread /\ x.pc = "spawn" /\ x.bi = p.blockIndex /\ x.block = th[t].block /\ x.res = res
      /\ x.finished = fin
  BY <1>1, <1>2 DEF Thread, Steps, Indices
<1> HIDE DEF x
<1>5. th' \in [Threads -> Thread] /\ th'[t] = x /\ Others(t)
  BY <1>3, <1>4, Moves
<1>6. Wrap(p.blockIndex) \in Blocks
  BY <1>1, Sizes DEF Wrap, Blocks
<1>7. p' = [p EXCEPT !.blockIndex = Wrap(@)]
  BY DEF Take
<1>8. /\ p' \in Shared /\ p'.blockIndex = Wrap(p.blockIndex)
      /\ p'.stopReading = p.stopReading /\ p'.readRes = p.readRes /\ p'.writeRes = p.writeRes
      /\ p'.mtRes = p.mtRes /\ p'.writeIndex = p.writeIndex /\ p'.readProcessed = p.readProcessed
      /\ p'.ready = p.ready /\ p'.blocks = p.blocks
      /\ p'.numStarted = p.numStarted /\ p'.numFinished = p.numFinished
  BY <1>1, <1>6, <1>7 DEF Shared
<1>9. semaphore > 0 /\ semaphore' = semaphore - 1 /\ semaphore \in Nat
  BY DEF Take, CoderTypes
<1>10. CoderTypes'
  BY <1>5, <1>8, <1>9 DEF Take, CoderTypes
<1>11. th'[t].finished <=> th[t].finished \/ th'[t].res # "ok"
  BY <1>4, <1>5, Zenon DEF fin
<1>12. QED
  BY <1>4, <1>5, <1>8, <1>9, <1>10, <1>11 DEF res

LEMMA SpawnFacts ==
  ASSUME CoderTypes, NEW t \in Threads, Spawn(t), Started <= NumThreads
  PROVE  /\ CoderTypes' /\ Others(t) /\ th[t].pc = "spawn" /\ ~th[t].finished /\ p.numStarted < NumThreads
         /\ Keeps(t) /\ Pool /\ p.numStarted \in Threads
         /\ p'.stopReading = p.stopReading /\ p'.readRes = p.readRes /\ p'.writeRes = p.writeRes
         /\ p'.readProcessed = p.readProcessed
         /\ p'.numStarted = p.numStarted /\ p'.numFinished = p.numFinished
         /\ \/ /\ th'[t].pc = "spawned" /\ startEvent' = startEvent \cup {p.numStarted} /\ p' = p
               /\ th'[t].res = th[t].res /\ ~th'[t].finished
            \/ /\ th'[t].pc = "unlock" /\ startEvent' = startEvent /\ p'.mtRes # "ok"
               /\ th'[t].res # "ok" /\ th'[t].finished
<1>1. /\ th[t] \in Thread /\ p \in Shared /\ p.mtRes \in Results /\ p.limit = NumThreads
      /\ p.numStarted \in Nat
  BY SharedFields, ThreadFields DEF CoderTypes
<1>2. th[t].pc = "spawn" /\ ~th[t].finished /\ p.numStarted < NumThreads /\ p.numStarted \in Threads
  BY <1>1, Sizes DEF Spawn, WantsThread, Threads
<1>3. CASE CreateAndStart(p.numStarted) /\ Go(t, "spawned") /\ UNCHANGED <<p, faults>>
  <2>1. "spawned" \in Steps
    BY DEF Steps
  <2>2. /\ th' \in [Threads -> Thread] /\ Others(t) /\ th'[t].pc = "spawned" /\ Keeps(t)
        /\ th'[t].res = th[t].res /\ th'[t].finished = th[t].finished
    BY <1>3, <2>1, GoFacts
  <2>3. ~th'[t].finished
    BY <1>2, <2>2, Zenon
  <2>4. CoderTypes'
    BY <1>2, <1>3, <2>2 DEF CoderTypes, CreateAndStart, Spawn
  <2>5. QED
    BY <1>2, <1>3, <2>2, <2>3, <2>4 DEF Pool, SamePlaces, CreateAndStart
<1>4. CASE /\ p' = Error(p, "error") /\ UNCHANGED <<created, startEvent>>
           /\ th' = [th EXCEPT ![t].pc = "unlock", ![t].res = "error", ![t].finished = TRUE]
  <2> DEFINE x == [th[t] EXCEPT !.pc = "unlock", !.res = "error", !.finished = TRUE]
  <2>1. x \in Thread /\ th' = [th EXCEPT ![t] = x]
    BY <1>1, <1>4 DEF Thread, Steps, Results, CoderTypes
  <2>2. th' \in [Threads -> Thread] /\ th'[t] = x /\ Others(t)
    BY <2>1, Moves
  <2>3. /\ p' \in Shared /\ p'.mtRes # "ok" /\ Pool
        /\ p'.stopReading = p.stopReading /\ p'.readRes = p.readRes /\ p'.writeRes = p.writeRes
        /\ p'.readProcessed = p.readProcessed
        /\ p'.numStarted = p.numStarted /\ p'.numFinished = p.numFinished
    BY <1>1, <1>4, ErrorFields DEF Results, Pool, SamePlaces
  <2>4. CoderTypes'
    BY <1>4, <2>2, <2>3 DEF CoderTypes, Spawn
  <2>5. QED
    BY <1>1, <1>2, <1>4, <2>2, <2>3, <2>4 DEF Keeps, Thread
<1>5. QED
  BY <1>3, <1>4 DEF Spawn

LEMMA UnlockFacts ==
  ASSUME CoderTypes, NEW t \in Threads, Unlock(t)
  PROVE  /\ CoderTypes' /\ Others(t) /\ th[t].pc \in {"spawn", "spawned", "unlock"} /\ th'[t].pc = "code"
         /\ Keeps(t) /\ Pool /\ readEvent' = TRUE
         /\ th'[t].res = th[t].res /\ th'[t].finished = th[t].finished
         /\ p'.stopReading <=> p.stopReading \/ th[t].finished
         /\ p'.readRes = p.readRes /\ p'.writeRes = p.writeRes /\ p'.mtRes = p.mtRes
         /\ p'.readProcessed = p.readProcessed /\ p'.numFinished = p.numFinished
         /\ p'.numStarted = IF th[t].pc = "spawned" THEN p.numStarted + 1 ELSE p.numStarted
<1>1. /\ th[t] \in Thread /\ p \in Shared /\ p.stopReading \in BOOLEAN /\ th[t].finished \in BOOLEAN
      /\ p.numStarted \in Nat
  BY SharedFields, ThreadFields DEF CoderTypes
<1>2. "code" \in Steps
  BY DEF Steps
<1>3. /\ th' \in [Threads -> Thread] /\ Others(t) /\ th'[t].pc = "code" /\ Keeps(t)
      /\ th'[t].res = th[t].res /\ th'[t].finished = th[t].finished
  BY <1>2, GoFacts DEF Unlock
<1> DEFINE n == IF th[t].pc = "spawned" THEN p.numStarted + 1 ELSE p.numStarted
           s == p.stopReading \/ th[t].finished
<1>4. n \in Nat /\ s \in BOOLEAN
  BY <1>1
<1>5. p' = [p EXCEPT !.numStarted = n, !.stopReading = s]
  BY <1>1 DEF Unlock
<1> HIDE DEF n, s
<1>6. /\ p' \in Shared /\ Pool /\ p'.stopReading = s /\ p'.numStarted = n
      /\ p'.readRes = p.readRes /\ p'.writeRes = p.writeRes /\ p'.mtRes = p.mtRes
      /\ p'.readProcessed = p.readProcessed /\ p'.numFinished = p.numFinished
  BY <1>1, <1>4, <1>5 DEF Shared, Pool, SamePlaces
<1>7. CoderTypes'
  BY <1>3, <1>6 DEF CoderTypes, Unlock
<1>8. p'.stopReading <=> p.stopReading \/ th[t].finished
  BY <1>6, Zenon DEF s
<1>9. th[t].pc \in {"spawn", "spawned", "unlock"} /\ readEvent' = TRUE
  BY DEF Unlock
<1>10. QED
  BY <1>3, <1>6, <1>7, <1>8, <1>9 DEF n

\* The block is coded, or nothing is done after an error.
LEMMA CodeFacts ==
  ASSUME CoderTypes, NEW t \in Threads, Code(t), th[t].bi \in Blocks, Len(free) >= 1
  PROVE  /\ CoderTypes' /\ Others(t) /\ th[t].pc = "code" /\ th'[t].pc = "publish"
         /\ th'[t].bi = th[t].bi /\ th'[t].finished = th[t].finished /\ Worse
         /\ p'.blockIndex = p.blockIndex /\ p'.writeIndex = p.writeIndex /\ p'.ready = p.ready
         /\ p'.blocks = [p.blocks EXCEPT ![th[t].bi] = BlockOf(th'[t])]
         /\ p'.stopReading = p.stopReading /\ p'.readRes = p.readRes /\ p'.writeRes = p.writeRes
         /\ p'.readProcessed = p.readProcessed
         /\ p'.numStarted = p.numStarted /\ p'.numFinished = p.numFinished
         /\ th'[t].res # "ok" => th[t].res # "ok" \/ p'.mtRes # "ok"
         /\ \/ /\ th[t].res # "ok" /\ th'[t].res # "ok" /\ th'[t].buf = None
               /\ free' = free /\ bufs' = bufs /\ p'.mtRes = p.mtRes
            \/ /\ th[t].res = "ok" /\ th'[t].buf = Head(free) /\ free' = Tail(free)
               /\ bufs' = [bufs EXCEPT ![Head(free)] = th[t].block]
<1>1. /\ th[t] \in Thread /\ p \in Shared /\ p.mtRes \in Results /\ th[t].bi \in Indices
      /\ th[t].finished \in BOOLEAN /\ th[t].res \in Results
      /\ p.blocks \in [Blocks -> [res : Results, buf : Indices, finished : BOOLEAN]]
  BY SharedFields, ThreadFields DEF CoderTypes
<1>2. \A x \in Thread : BlockOf(x) \in [res : Results, buf : Indices, finished : BOOLEAN]
  BY DEF BlockOf, Thread
<1>3. th[t].pc = "code" /\ UNCHANGED <<main, result, input, calls, created, events, written>>
  BY DEF Code
<1>4. CASE th[t].res # "ok"
  <2> DEFINE x == [th[t] EXCEPT !.pc = "publish", !.buf = None]
             b == [p.blocks EXCEPT ![th[t].bi] = BlockOf(th'[t])]
  <2>1. /\ th' = [th EXCEPT ![t].pc = "publish", ![t].buf = None]
        /\ p' = [p EXCEPT !.blocks[th[t].bi] = BlockOf(th'[t])]
        /\ free' = free /\ bufs' = bufs
    BY <1>4 DEF Code
  <2>2. x \in Thread /\ th' = [th EXCEPT ![t] = x]
    BY <1>1, <2>1 DEF Thread, Steps, Indices, CoderTypes
  <2>3. th' \in [Threads -> Thread] /\ th'[t] = x /\ Others(t)
    BY <2>2, Moves
  <2>4. b \in [Blocks -> [res : Results, buf : Indices, finished : BOOLEAN]]
    BY <1>1, <1>2, <2>2, <2>3
  <2>5. p' = [p EXCEPT !.blocks = b]
    BY <2>1, <1>1 DEF Shared
  <2> HIDE DEF b
  <2>6. /\ p' \in Shared /\ p'.blocks = b
        /\ p'.blockIndex = p.blockIndex /\ p'.writeIndex = p.writeIndex /\ p'.ready = p.ready
        /\ p'.stopReading = p.stopReading /\ p'.readRes = p.readRes /\ p'.writeRes = p.writeRes
        /\ p'.readProcessed = p.readProcessed /\ p'.mtRes = p.mtRes
        /\ p'.numStarted = p.numStarted /\ p'.numFinished = p.numFinished
    BY <1>1, <2>4, <2>5 DEF Shared
  <2>7. CoderTypes'
    BY <1>3, <2>1, <2>3, <2>6 DEF CoderTypes, events
  <2>8. x.pc = "publish" /\ x.bi = th[t].bi /\ x.finished = th[t].finished /\ x.res = th[t].res /\ x.buf = None
    BY <1>1 DEF Thread
  <2> HIDE DEF x
  <2>9. QED
    BY <1>3, <1>4, <2>1, <2>3, <2>6, <2>7, <2>8 DEF b, Worse
<1>5. CASE th[t].res = "ok"
  <2>1. PICK res \in {"ok", "error"} :
            /\ MayFail(res) /\ free' = Tail(free)
            /\ bufs' = [bufs EXCEPT ![Head(free)] = th[t].block]
            /\ th' = [th EXCEPT ![t].pc = "publish", ![t].buf = Head(free), ![t].res = res]
            /\ p' = [Error(p, res) EXCEPT !.blocks[th[t].bi] = BlockOf(th'[t])]
    BY <1>5 DEF Code
  <2> DEFINE x == [th[t] EXCEPT !.pc = "publish", !.buf = Head(free), !.res = res]
             b == [p.blocks EXCEPT ![th[t].bi] = BlockOf(th'[t])]
             e == Error(p, res)
  <2>2. free \in Seq(Blocks) /\ free # <<>> /\ bufs \in [Blocks -> Int]
    BY DEF CoderTypes
  <2>3. Head(free) \in Blocks /\ Tail(free) \in Seq(Blocks)
    BY <2>2
  <2>4. x \in Thread /\ th' = [th EXCEPT ![t] = x]
    BY <1>1, <2>1, <2>3 DEF Thread, Steps, Indices, CoderTypes, Results
  <2>5. th' \in [Threads -> Thread] /\ th'[t] = x /\ Others(t)
    BY <2>4, Moves
  <2>6. b \in [Blocks -> [res : Results, buf : Indices, finished : BOOLEAN]]
    BY <1>1, <1>2, <2>4, <2>5
  <2>7. /\ e \in Shared /\ (e.mtRes = "ok" => p.mtRes = "ok" /\ res = "ok")
        /\ e.stopReading = p.stopReading /\ e.readRes = p.readRes
        /\ e.writeRes = p.writeRes /\ e.blockIndex = p.blockIndex
        /\ e.writeIndex = p.writeIndex /\ e.readProcessed = p.readProcessed
        /\ e.ready = p.ready /\ e.blocks = p.blocks
        /\ e.numStarted = p.numStarted /\ e.numFinished = p.numFinished
    BY <1>1, ErrorFields DEF Results
  <2> HIDE DEF e
  <2>8. p' = [e EXCEPT !.blocks = b]
    <3>1. p' = [e EXCEPT !.blocks[th[t].bi] = BlockOf(th'[t])]
      BY <2>1 DEF e
    <3>2. QED
      BY <3>1, <2>7 DEF Shared
  <2> HIDE DEF b
  <2>9. /\ p' \in Shared /\ p'.blocks = b /\ p'.mtRes = e.mtRes
        /\ p'.blockIndex = p.blockIndex /\ p'.writeIndex = p.writeIndex /\ p'.ready = p.ready
        /\ p'.stopReading = p.stopReading /\ p'.readRes = p.readRes /\ p'.writeRes = p.writeRes
        /\ p'.readProcessed = p.readProcessed
        /\ p'.numStarted = p.numStarted /\ p'.numFinished = p.numFinished
    BY <2>6, <2>7, <2>8 DEF Shared
  <2>10. bufs' \in [Blocks -> Int]
    BY <1>1, <2>1, <2>2, <2>3, ThreadFields DEF None
  <2>11. CoderTypes'
    BY <1>3, <2>1, <2>3, <2>5, <2>9, <2>10 DEF CoderTypes, events
  <2>12. x.pc = "publish" /\ x.bi = th[t].bi /\ x.finished = th[t].finished /\ x.res = res /\ x.buf = Head(free)
    BY <1>1 DEF Thread
  <2> HIDE DEF x
  <2>13. QED
    BY <1>3, <1>5, <2>1, <2>5, <2>7, <2>9, <2>11, <2>12 DEF b, Worse
<1>6. QED
  BY <1>4, <1>5

\* What a step leaves of CMtCoder when it does not touch the ring
Counted == /\ p'.stopReading = p.stopReading /\ p'.readRes = p.readRes
           /\ p'.readProcessed = p.readProcessed
           /\ p'.numStarted = p.numStarted /\ p'.numFinished = p.numFinished

LEMMA PublishFacts ==
  ASSUME CoderTypes, NEW t \in Threads, Publish(t), th[t].bi \in Blocks
  PROVE  /\ CoderTypes' /\ Others(t) /\ th[t].pc = "publish"
         /\ th'[t].buf = th[t].buf /\ th'[t].finished = th[t].finished
         /\ p'.blockIndex = p.blockIndex /\ p'.blocks = p.blocks /\ p'.mtRes = p.mtRes
         /\ p'.writeRes = p.writeRes /\ Counted
         /\ \/ /\ p.writeIndex = th[t].bi /\ p'.writeIndex = None /\ p'.ready = p.ready
               /\ th'[t].pc = "write" /\ th'[t].wi = th[t].bi
               /\ th'[t].res # "ok" => th[t].res # "ok" \/ p.writeRes # "ok"
            \/ /\ p.writeIndex # th[t].bi /\ p'.writeIndex = p.writeIndex
               /\ p'.ready = p.ready \cup {th[t].bi}
               /\ th'[t].pc \in {"read", "leave"} /\ th'[t].res = th[t].res
               /\ th'[t].pc = "leave" => Leaves(th[t])
<1>1. /\ th[t] \in Thread /\ p \in Shared /\ th[t].res \in Results /\ p.writeRes \in Results
      /\ p.ready \subseteq Blocks
  BY SharedFields, ThreadFields DEF CoderTypes
<1>2. th[t].pc = "publish" /\ UNCHANGED <<main, result, input, calls, faults, created, events, free, bufs, written>>
  BY DEF Publish
<1>3. CASE p.writeIndex = th[t].bi
  <2> DEFINE res == IF p.writeRes # "ok" THEN p.writeRes ELSE th[t].res
             x == [th[t] EXCEPT !.pc = "write", !.wi = th[t].bi, !.res = res]
  <2>1. /\ p' = [p EXCEPT !.writeIndex = None]
        /\ th' = [th EXCEPT ![t].pc = "write", ![t].wi = th[t].bi,
                            ![t].res = IF p.writeRes # "ok" THEN p.writeRes ELSE @]
    BY <1>3 DEF Publish
  <2>2. res \in Results /\ (res # "ok" => th[t].res # "ok" \/ p.writeRes # "ok")
    BY <1>1
  <2>3. th' = [th EXCEPT ![t] = x]
    BY <1>1, <2>1 DEF CoderTypes, Thread
  <2> HIDE DEF res
  <2>4. /\ x \in Thread /\ x.pc = "write" /\ x.wi = th[t].bi /\ x.res = res
        /\ x.buf = th[t].buf /\ x.finished = th[t].finished
    BY <1>1, <2>2 DEF Thread, Steps, Indices
  <2> HIDE DEF x
  <2>5. th' \in [Threads -> Thread] /\ th'[t] = x /\ Others(t)
    BY <2>3, <2>4, Moves
  <2>6. /\ p' \in Shared /\ p'.writeIndex = None /\ p'.ready = p.ready
        /\ p'.blockIndex = p.blockIndex /\ p'.blocks = p.blocks /\ p'.mtRes = p.mtRes
        /\ p'.writeRes = p.writeRes /\ Counted
    BY <1>1, <2>1 DEF Shared, Indices, Counted
  <2>7. CoderTypes'
    BY <1>2, <2>5, <2>6 DEF CoderTypes, events
  <2>8. QED
    BY <1>2, <1>3, <2>2, <2>4, <2>5, <2>6, <2>7
<1>4. CASE p.writeIndex # th[t].bi
  <2> DEFINE pc == IF Leaves(th[t]) THEN "leave" ELSE "read"
  <2>1. p' = [p EXCEPT !.ready = @ \cup {th[t].bi}] /\ Go(t, pc)
    BY <1>4 DEF Publish
  <2>2. pc \in Steps /\ pc \in {"read", "leave"} /\ (pc = "leave" => Leaves(th[t]))
    BY DEF Steps
  <2> HIDE DEF pc
  <2>3. /\ th' \in [Threads -> Thread] /\ Others(t) /\ th'[t].pc = pc /\ Keeps(t)
        /\ th'[t].res = th[t].res /\ th'[t].finished = th[t].finished
    BY <2>1, <2>2, GoFacts
  <2>4. p.ready \cup {th[t].bi} \in SUBSET Blocks
    BY <1>1
  <2>5. /\ p' \in Shared /\ p'.writeIndex = p.writeIndex /\ p'.ready = p.ready \cup {th[t].bi}
        /\ p'.blockIndex = p.blockIndex /\ p'.blocks = p.blocks /\ p'.mtRes = p.mtRes
        /\ p'.writeRes = p.writeRes /\ Counted
    BY <1>1, <2>1, <2>4 DEF Shared, Counted
  <2>6. CoderTypes'
    BY <1>2, <2>3, <2>5 DEF CoderTypes, events
  <2>7. QED
    BY <1>2, <1>4, <2>2, <2>3, <2>5, <2>6 DEF Keeps
<1>5. QED
  BY <1>3, <1>4

LEMMA WriteFacts ==
  ASSUME CoderTypes, NEW t \in Threads, Write(t), th[t].buf # None => bufs[th[t].buf] \in Int
  PROVE  /\ CoderTypes' /\ Others(t) /\ th[t].pc = "write" /\ th'[t].pc = "advance" /\ Keeps(t)
         /\ th'[t].finished = th[t].finished /\ Pool /\ Worse /\ Counted
         /\ p'.writeRes # "ok" => p.writeRes # "ok" \/ p'.mtRes # "ok"
         /\ th'[t].res # "ok" => th[t].res # "ok" \/ p'.mtRes # "ok"
         /\ \/ /\ th[t].res = "ok" /\ th[t].buf # None
               /\ written' = Append(written, bufs[th[t].buf])
            \/ written' = written /\ (p'.mtRes # "ok" \/ th[t].res # "ok" \/ th[t].buf = None)
<1>1. /\ th[t] \in Thread /\ p \in Shared /\ th[t].res \in Results /\ written \in Seq(Int)
      /\ p.writeRes \in Results
  BY SharedFields, ThreadFields DEF CoderTypes
<1>2. th[t].pc = "write" /\ UNCHANGED <<main, result, input, calls, created, events, free, bufs>>
  BY DEF Write
<1>3. CASE th[t].res = "ok" /\ th[t].buf # None
  <2>1. PICK res \in {"ok", "error"} :
            /\ MayFail(res)
            /\ written' = IF res = "ok" THEN Append(written, bufs[th[t].buf]) ELSE written
            /\ p' = IF res = "ok" THEN p ELSE [Error(p, res) EXCEPT !.writeRes = res]
            /\ th' = [th EXCEPT ![t].pc = "advance", ![t].res = res]
    BY <1>3 DEF Write
  <2> DEFINE x == [th[t] EXCEPT !.pc = "advance", !.res = res]
             e == Error(p, res)
  <2>2. th' = [th EXCEPT ![t] = x]
    BY <1>1, <2>1 DEF CoderTypes, Thread
  <2>3. /\ x \in Thread /\ x.pc = "advance" /\ x.wi = th[t].wi /\ x.res = res /\ x.bi = th[t].bi
        /\ x.buf = th[t].buf /\ x.finished = th[t].finished /\ x.block = th[t].block
    BY <1>1 DEF Thread, Steps, Results
  <2> HIDE DEF x
  <2>4. th' \in [Threads -> Thread] /\ th'[t] = x /\ Others(t)
    BY <2>2, <2>3, Moves
  <2>5. Keeps(t)
    BY <2>3, <2>4 DEF Keeps
  <2>6. written' \in Seq(Int)
    BY <1>1, <1>3, <2>1
  <2>7. CASE res = "ok"
    <3>1. p' = p /\ written' = Append(written, bufs[th[t].buf])
      BY <2>1, <2>7
    <3>2. CoderTypes'
      BY <1>2, <2>4, <2>6, <3>1 DEF CoderTypes, events
    <3>3. Pool /\ Worse /\ Counted
      BY <3>1 DEF Pool, SamePlaces, Worse, Counted
    <3>4. QED
      BY <1>2, <1>3, <2>3, <2>4, <2>5, <2>7, <3>1, <3>2, <3>3
  <2>8. CASE res = "error"
    <3>1. /\ e \in Shared /\ e.mtRes # "ok"
          /\ e.stopReading = p.stopReading /\ e.readRes = p.readRes
          /\ e.blockIndex = p.blockIndex
          /\ e.writeIndex = p.writeIndex /\ e.readProcessed = p.readProcessed
          /\ e.ready = p.ready /\ e.blocks = p.blocks
          /\ e.numStarted = p.numStarted /\ e.numFinished = p.numFinished
      BY <1>1, <2>8, ErrorFields DEF Results
    <3>2. p' = [e EXCEPT !.writeRes = res] /\ written' = written
      BY <2>1, <2>8
    <3> HIDE DEF e
    <3>3. p' \in Shared /\ p'.mtRes # "ok" /\ Pool /\ Worse /\ Counted
      BY <2>8, <3>1, <3>2 DEF Shared, Results, Pool, SamePlaces, Worse, Counted
    <3>4. CoderTypes'
      BY <1>2, <2>4, <2>6, <3>3 DEF CoderTypes, events
    <3>5. QED
      BY <1>2, <1>3, <2>3, <2>4, <2>5, <3>2, <3>3, <3>4
  <2>9. QED
    BY <2>7, <2>8
<1>4. CASE ~(th[t].res = "ok" /\ th[t].buf # None)
  <2>1. Go(t, "advance") /\ UNCHANGED <<faults, written, p>>
    BY <1>4 DEF Write
  <2>2. "advance" \in Steps
    BY DEF Steps
  <2>3. /\ th' \in [Threads -> Thread] /\ Others(t) /\ th'[t].pc = "advance" /\ Keeps(t)
        /\ th'[t].res = th[t].res /\ th'[t].finished = th[t].finished
    BY <2>1, <2>2, GoFacts
  <2>4. CoderTypes'
    BY <1>2, <2>1, <2>3 DEF CoderTypes, events
  <2>5. QED
    BY <1>2, <1>4, <2>1, <2>3, <2>4 DEF Pool, SamePlaces, Worse, Counted
<1>5. QED
  BY <1>3, <1>4

LEMMA AdvanceFacts ==
  ASSUME CoderTypes, NEW t \in Threads, Advance(t), th[t].wi \in Blocks
  PROVE  /\ CoderTypes' /\ Others(t) /\ th[t].pc = "advance" /\ th'[t].wi = NextDue(t)
         /\ th'[t].res = th[t].res /\ th'[t].finished = th[t].finished
         /\ free' = IF th[t].buf = None THEN free ELSE <<th[t].buf>> \o free
         /\ p'.blockIndex = p.blockIndex /\ p'.blocks = p.blocks /\ p'.mtRes = p.mtRes
         /\ p'.writeRes = p.writeRes /\ Counted
         /\ \/ /\ NextDue(t) \in p.ready /\ p'.ready = p.ready \ {NextDue(t)}
               /\ th'[t].pc = "more" /\ p'.writeIndex = p.writeIndex
            \/ /\ NextDue(t) \notin p.ready /\ p'.ready = p.ready
               /\ th'[t].pc = "done" /\ p'.writeIndex = NextDue(t)
<1>1. th[t] \in Thread /\ p \in Shared /\ p.ready \subseteq Blocks /\ th[t].buf \in Indices
  BY SharedFields, ThreadFields DEF CoderTypes
<1>2. th[t].pc = "advance" /\ UNCHANGED <<main, result, input, calls, faults, created, events, bufs, written>>
  BY DEF Advance
<1>3. NextDue(t) \in Blocks
  BY Sizes DEF NextDue, Wrap, Blocks
<1> DEFINE pc == IF NextDue(t) \in p.ready THEN "more" ELSE "done"
           x == [th[t] EXCEPT !.pc = pc, !.wi = NextDue(t)]
<1>4. th' = [th EXCEPT ![t] = x]
  <2>1. th' = [th EXCEPT ![t].pc = pc, ![t].wi = NextDue(t)]
    BY DEF Advance
  <2> HIDE DEF pc
  <2>2. QED
    BY <1>1, <2>1 DEF CoderTypes, Thread
<1>5. pc \in Steps
  BY DEF Steps
<1> HIDE DEF pc
<1>6. x \in Thread /\ x.pc = pc /\ x.wi = NextDue(t) /\ x.res = th[t].res /\ x.finished = th[t].finished
  BY <1>1, <1>3, <1>5 DEF Thread, Indices
<1> HIDE DEF x
<1>7. th' \in [Threads -> Thread] /\ th'[t] = x /\ Others(t)
  BY <1>4, <1>6, Moves
<1>8. free' = IF th[t].buf = None THEN free ELSE <<th[t].buf>> \o free
  BY DEF Advance
<1>9. free' \in Seq(Blocks)
  BY <1>1, <1>8 DEF CoderTypes, Indices
<1>10. CASE NextDue(t) \in p.ready
  <2>1. p' = [p EXCEPT !.ready = @ \ {NextDue(t)}] /\ pc = "more"
    BY <1>10 DEF Advance, pc
  <2>2. /\ p' \in Shared /\ p'.ready = p.ready \ {NextDue(t)} /\ p'.writeIndex = p.writeIndex
        /\ p'.blockIndex = p.blockIndex /\ p'.blocks = p.blocks /\ p'.mtRes = p.mtRes
        /\ p'.writeRes = p.writeRes /\ Counted
    BY <1>1, <2>1 DEF Shared, Counted
  <2>3. CoderTypes'
    BY <1>2, <1>7, <1>9, <2>2 DEF CoderTypes, events
  <2>4. QED
    BY <1>2, <1>6, <1>7, <1>8, <1>10, <2>1, <2>2, <2>3
<1>11. CASE NextDue(t) \notin p.ready
  <2>1. p' = [p EXCEPT !.writeIndex = NextDue(t)] /\ pc = "done"
    BY <1>11 DEF Advance, pc
  <2>2. /\ p' \in Shared /\ p'.ready = p.ready /\ p'.writeIndex = NextDue(t)
        /\ p'.blockIndex = p.blockIndex /\ p'.blocks = p.blocks /\ p'.mtRes = p.mtRes
        /\ p'.writeRes = p.writeRes /\ Counted
    BY <1>1, <1>3, <2>1 DEF Shared, Counted, Indices
  <2>3. CoderTypes'
    BY <1>2, <1>7, <1>9, <2>2 DEF CoderTypes, events
  <2>4. QED
    BY <1>2, <1>6, <1>7, <1>8, <1>11, <2>1, <2>2, <2>3
<1>12. QED
  BY <1>10, <1>11

LEMMA ReleaseFacts ==
  ASSUME CoderTypes, NEW t \in Threads, Release(t),
         th[t].pc = "more" => th[t].wi \in Blocks
  PROVE  /\ CoderTypes' /\ Others(t) /\ p' = p /\ semaphore' = semaphore + 1
         /\ th'[t].wi = th[t].wi
         /\ \/ /\ th[t].pc = "more" /\ th'[t].pc = "write"
               /\ th'[t].buf = p.blocks[th[t].wi].buf
               /\ th'[t].finished = p.blocks[th[t].wi].finished
               /\ th'[t].res # "ok" => th[t].res # "ok" \/ p.blocks[th[t].wi].res # "ok"
            \/ /\ th[t].pc = "done" /\ th'[t].pc \in {"read", "leave"} /\ th'[t].res = th[t].res
               /\ th'[t].pc = "leave" => Leaves(th[t])
<1>1. /\ th[t] \in Thread /\ p \in Shared /\ th[t].res \in Results
      /\ p.blocks \in [Blocks -> [res : Results, buf : Indices, finished : BOOLEAN]]
  BY SharedFields, ThreadFields DEF CoderTypes
<1>2. /\ th[t].pc \in {"more", "done"} /\ semaphore' = semaphore + 1 /\ p' = p
      /\ UNCHANGED <<main, result, input, calls, faults, created, startEvent, readEvent, finishedEvent,
                     free, bufs, written>>
  BY DEF Release
<1> DEFINE b == p.blocks[th[t].wi]
<1>3. th[t].pc = "more" => b \in [res : Results, buf : Indices, finished : BOOLEAN]
  BY <1>1
<1> DEFINE res == IF th[t].res = "ok" THEN b.res ELSE th[t].res
           x == [th[t] EXCEPT !.pc = "write", !.buf = b.buf, !.finished = b.finished, !.res = res]
           pc == IF Leaves(th[t]) THEN "leave" ELSE "read"
           y == [th[t] EXCEPT !.pc = pc]
<1>4. semaphore' \in Nat
  BY <1>2 DEF CoderTypes
<1>5. CASE th[t].pc = "more"
  <2>1. th' = [th EXCEPT ![t] = x]
    BY <1>5 DEF Release
  <2>2. res \in Results /\ (res # "ok" => th[t].res # "ok" \/ b.res # "ok")
    BY <1>1, <1>3, <1>5
  <2> HIDE DEF res
  <2>3. /\ x \in Thread /\ x.pc = "write" /\ x.buf = b.buf /\ x.finished = b.finished /\ x.res = res
        /\ x.wi = th[t].wi
    BY <1>1, <1>3, <1>5, <2>2 DEF Thread, Steps
  <2> HIDE DEF x
  <2>4. th' \in [Threads -> Thread] /\ th'[t] = x /\ Others(t)
    BY <2>1, <2>3, Moves
  <2>5. CoderTypes'
    BY <1>2, <1>4, <2>4 DEF CoderTypes
  <2>6. QED
    BY <1>2, <1>5, <2>2, <2>3, <2>4, <2>5
<1>6. CASE th[t].pc = "done"
  <2>1. th' = [th EXCEPT ![t] = y]
    BY <1>6 DEF Release
  <2>2. pc \in Steps /\ pc \in {"read", "leave"} /\ (pc = "leave" => Leaves(th[t]))
    BY DEF Steps
  <2> HIDE DEF pc
  <2>3. y \in Thread /\ y.pc = pc /\ y.res = th[t].res /\ y.wi = th[t].wi
    BY <1>1, <2>2 DEF Thread
  <2> HIDE DEF y
  <2>4. th' \in [Threads -> Thread] /\ th'[t] = y /\ Others(t)
    BY <2>1, <2>3, Moves
  <2>5. CoderTypes'
    BY <1>2, <1>4, <2>4 DEF CoderTypes
  <2>6. QED
    BY <1>2, <1>6, <2>2, <2>3, <2>4, <2>5
<1>7. QED
  BY <1>2, <1>5, <1>6

LEMMA LeaveFacts ==
  ASSUME CoderTypes, NEW t \in Threads, Leave(t)
  PROVE  /\ CoderTypes' /\ Others(t) /\ th[t].pc = "leave" /\ th'[t].pc = "count" /\ th'[t].res = "ok"
         /\ th'[t].last = p'.numFinished /\ p'.numFinished = p.numFinished + 1
         /\ Pool /\ p'.mtRes = p.mtRes /\ p'.writeRes = p.writeRes
         /\ p'.stopReading = p.stopReading /\ p'.readRes = p.readRes
         /\ p'.readProcessed = p.readProcessed /\ p'.numStarted = p.numStarted
<1>1. p \in Shared /\ p.numFinished \in Nat
  BY SharedFields DEF CoderTypes
<1> DEFINE n == p.numFinished + 1
           x == [Outside EXCEPT !.pc = "count", !.last = n]
<1>2. x \in Thread /\ x.pc = "count" /\ x.res = "ok" /\ x.last = n /\ n = p.numFinished + 1
  <2>1. n \in Nat
    BY <1>1
  <2> HIDE DEF n
  <2>2. x \in Thread /\ x.pc = "count" /\ x.res = "ok" /\ x.last = n
    BY <2>1 DEF Outside, Thread, Steps, Results, Indices, None
  <2>3. QED
    BY <2>2 DEF n
<1>3. th' = [th EXCEPT ![t] = x]
  BY DEF Leave
<1> HIDE DEF x
<1>4. th' \in [Threads -> Thread] /\ th'[t] = x /\ Others(t)
  BY <1>2, <1>3, Moves
<1>5. p' = [p EXCEPT !.numFinished = @ + 1]
  BY DEF Leave
<1>6. /\ p' \in Shared /\ p'.numFinished = p.numFinished + 1
      /\ Pool /\ p'.mtRes = p.mtRes /\ p'.writeRes = p.writeRes
      /\ p'.stopReading = p.stopReading /\ p'.readRes = p.readRes
      /\ p'.readProcessed = p.readProcessed /\ p'.numStarted = p.numStarted
  BY <1>1, <1>5 DEF Shared, Pool, SamePlaces
<1>7. CoderTypes'
  BY <1>4, <1>6 DEF CoderTypes, Leave, events
<1>8. QED
  BY <1>2, <1>4, <1>6, <1>7 DEF Leave

LEMMA CountFacts ==
  ASSUME CoderTypes, NEW t \in Threads, Count(t)
  PROVE  /\ CoderTypes' /\ Others(t) /\ th[t].pc = "count" /\ th'[t].pc = "start" /\ th'[t].res = "ok"
         /\ p' = p /\ (finishedEvent' => finishedEvent \/ th[t].last = p.numStarted)
<1>1. Outside \in Thread /\ Outside.pc = "start" /\ Outside.res = "ok"
  BY DEF Outside, Thread, Steps, Results, Indices, None
<1>2. th' = [th EXCEPT ![t] = Outside]
  BY DEF Count
<1>3. th' \in [Threads -> Thread] /\ th'[t] = Outside /\ Others(t)
  BY <1>1, <1>2, Moves
<1>4. finishedEvent' = (finishedEvent \/ th[t].last = p.numStarted) /\ p' = p /\ th[t].pc = "count"
  BY DEF Count
<1>5. finishedEvent' \in BOOLEAN
  BY <1>4, Zenon
<1>6. CoderTypes'
  BY <1>3, <1>4, <1>5 DEF CoderTypes, Count
<1>7. finishedEvent' => finishedEvent \/ th[t].last = p.numStarted
  BY <1>4, Zenon
<1>8. QED
  BY <1>1, <1>3, <1>4, <1>6, <1>7

-----------------------------------------------------------------------------
(* The threads of a call.                                                  *)

LEMMA TeamFinite == CoderTypes => IsFiniteSet(Team) /\ Team \subseteq Threads /\ Cardinality(Team) \in Nat
<1>1. Team \subseteq Threads
  BY DEF Team
<1>2. QED
  BY <1>1, Sizes, FS_Subset, FS_CardinalityType

\* Who reads a block is alone.
LEMMA OneReads ==
  ASSUME NEW T, NEW tk, TurnOK(T, tk), NEW t \in Threads, Step(t) \in Turn
  PROVE  In(Turn) = {t} /\ ~readEvent /\ ~p.stopReading
<1>1. t \in In(Turn)
  BY DEF In
<1>2. QED
  BY <1>1, Zenon DEF TurnOK

LEMMA StartTeam ==
  ASSUME CoderTypes, TeamOK, NEW t \in Threads, Start(t)
  PROVE  TeamOK'
<1>1. /\ Others(t) /\ th'[t].pc = "read" /\ th[t].pc = "start" /\ t \in startEvent
      /\ startEvent' = startEvent \ {t} /\ p' = p /\ finishedEvent' = finishedEvent
      /\ startEvent \subseteq Threads /\ th'[t].last = th[t].last
  BY StartFacts DEF Start, CoderTypes
<1>2. Team' = Team /\ In({"spawned"})' = In({"spawned"}) /\ In({"count"})' = In({"count"})
  BY <1>1 DEF Team, In, Step, Others
<1>3. Started' = Started
  BY <1>1, <1>2 DEF Started
<1>4. \A u \in startEvent' : Step(u)' = "start"
  BY <1>1 DEF TeamOK, Step, Others
<1>5. t \in Nat /\ Started \in Nat /\ ~(t >= Started)
  BY <1>1, SharedFields DEF TeamOK, Started, Threads
<1>6. \A u \in Threads : u >= Started => u \notin startEvent' /\ Step(u)' = "start"
  BY <1>1, <1>5 DEF TeamOK, Step, Others
<1>7. In({"spawned"})' # {} => (p.numStarted \in startEvent \/ Step(p.numStarted) = "read")'
  <2>1. SUFFICES ASSUME In({"spawned"}) # {} PROVE (p.numStarted \in startEvent \/ Step(p.numStarted) = "read")'
    BY <1>2
  <2>2. p.numStarted \in startEvent \/ Step(p.numStarted) = "read"
    BY <2>1 DEF TeamOK
  <2>3. p.numStarted \in Threads
    BY <2>1, Sizes, SharedFields DEF TeamOK, Started, Threads
  <2>4. CASE p.numStarted = t
    BY <1>1, <2>4 DEF Step
  <2>5. CASE p.numStarted # t
    BY <1>1, <2>2, <2>3, <2>5 DEF Step, Others
  <2>6. QED
    BY <2>4, <2>5
<1>8. \A u \in In({"count"})' : th'[u].last <= p'.numFinished
  BY <1>1, <1>2 DEF TeamOK, In, Step, Others
<1>9. QED
  BY <1>1, <1>2, <1>3, <1>4, <1>6, <1>7, <1>8 DEF TeamOK

LEMMA SpawnTeam ==
  ASSUME CoderTypes, TeamOK, NEW t \in Threads, Spawn(t), NEW T, NEW tk, TurnOK(T, tk)
  PROVE  TeamOK'
<1>1. Started <= NumThreads
  BY DEF TeamOK
<1>2. /\ Others(t) /\ th[t].pc = "spawn" /\ p.numStarted < NumThreads /\ p.numStarted \in Threads
      /\ p'.numStarted = p.numStarted /\ p'.numFinished = p.numFinished
      /\ \/ th'[t].pc = "spawned" /\ startEvent' = startEvent \cup {p.numStarted}
         \/ th'[t].pc = "unlock" /\ startEvent' = startEvent
  BY <1>1, SpawnFacts
<1>3. finishedEvent' = finishedEvent
  BY DEF Spawn
<1>4. In(Turn) = {t}
  BY <1>2, OneReads DEF Step, Turn
<1>5. In({"spawned"}) = {}
  BY <1>2, <1>4 DEF In, Step, Turn
<1>6. CASE th'[t].pc = "unlock"
  BY <1>2, <1>3, <1>6, TeamFrame
<1>7. CASE th'[t].pc = "spawned"
  <2> DEFINE n == p.numStarted
  <2>1. startEvent' = startEvent \cup {n} /\ startEvent \subseteq Threads /\ n \in Nat
    BY <1>2, <1>7, SharedFields DEF CoderTypes
  <2>2. Started = n
    BY <1>5 DEF Started
  <2>3. n \notin startEvent /\ Step(n) = "start" /\ n # t
    <3>1. n >= Started
      BY <2>1, <2>2
    <3>2. QED
      BY <1>2, <3>1 DEF TeamOK, Step
  <2>4. n \notin Team /\ Team' = Team \cup {n}
    BY <1>2, <1>7, <2>1, <2>3 DEF Team, Step, Others
  <2>5. Cardinality(Team') = Cardinality(Team) + 1
    BY <2>4, TeamFinite, FS_AddElement
  <2>6. In({"spawned"})' = {t} /\ In({"count"})' = In({"count"})
    BY <1>2, <1>5, <1>7 DEF In, Step, Others
  <2>7. Started' = n + 1
    BY <1>2, <2>6 DEF Started
  <2>8. p'.numStarted >= 1 /\ Started' <= NumThreads
    BY <1>2, <2>1, <2>7, Sizes DEF TeamOK
  <2>9. (p.numFinished + Cardinality(Team) = Started)'
    <3>1. p.numFinished + Cardinality(Team) = n /\ p.numFinished \in Nat /\ Cardinality(Team) \in Nat
      BY <2>2, TeamFinite, SharedFields DEF TeamOK
    <3>2. QED
      BY <1>2, <2>5, <2>7, <3>1
  <2>10. \A u \in startEvent' : Step(u)' = "start"
    <3>1. t \notin startEvent
      BY <1>2 DEF TeamOK, Step
    <3>2. \A u \in startEvent' : u \in Threads \ {t} /\ Step(u) = "start"
      BY <1>2, <2>1, <2>3, <3>1 DEF TeamOK
    <3>3. QED
      BY <1>2, <3>2 DEF Step, Others
  <2>11. \A u \in Threads : u >= Started' => u \notin startEvent' /\ Step(u)' = "start"
    <3>1. \A u \in Threads : u >= n + 1 => u >= Started /\ u # n
      BY <2>1, <2>2 DEF Threads
    <3>2. t < Started
      <4>1. t >= Started => Step(t) = "start"
        BY DEF TeamOK
      <4>2. QED
        BY <1>2, <2>1, <2>2, <4>1 DEF Step, Threads
    <3>3. \A u \in Threads : u >= n + 1 => u # t
      BY <2>1, <2>2, <3>2 DEF Threads
    <3>4. QED
      BY <1>2, <2>1, <2>7, <3>1, <3>3 DEF TeamOK, Step, Others
  <2>12. \A u \in In({"count"})' : th'[u].last <= p'.numFinished
    BY <1>2, <2>6 DEF TeamOK, In, Step, Others
  <2>13. ~finishedEvent
    <3>1. t \in Team
      BY <1>2 DEF Team, Step
    <3>2. QED
      BY <3>1 DEF TeamOK
  <2>14. p'.numStarted \in startEvent'
    BY <1>2, <2>1
  <2>15. QED
    BY <1>3, <2>8, <2>9, <2>10, <2>11, <2>12, <2>13, <2>14 DEF TeamOK
<1>8. QED
  BY <1>2, <1>6, <1>7

LEMMA UnlockTeam ==
  ASSUME CoderTypes, TeamOK, NEW t \in Threads, Unlock(t), NEW T, NEW tk, TurnOK(T, tk)
  PROVE  TeamOK'
<1>1. /\ Others(t) /\ th[t].pc \in {"spawn", "spawned", "unlock"} /\ th'[t].pc = "code"
      /\ p'.numFinished = p.numFinished
      /\ p'.numStarted = IF th[t].pc = "spawned" THEN p.numStarted + 1 ELSE p.numStarted
      /\ finishedEvent' = finishedEvent /\ startEvent' = startEvent /\ startEvent \subseteq Threads
  BY UnlockFacts DEF Unlock, CoderTypes
<1>2. In(Turn) = {t}
  BY <1>1, OneReads DEF Step, Turn
<1>3. In({"spawned"})' = {} /\ In({"count"})' = In({"count"}) /\ Team' = Team
  BY <1>1, <1>2 DEF In, Step, Others, Turn, Team
<1>4. In({"spawned"}) = IF th[t].pc = "spawned" THEN {t} ELSE {}
  BY <1>1, <1>2 DEF In, Step, Turn
<1>5. Started' = Started
  BY <1>1, <1>3, <1>4 DEF Started
<1>6. t \notin startEvent
  BY <1>1 DEF TeamOK, Step
<1>7. \A u \in startEvent' : Step(u)' = "start"
  BY <1>1, <1>6 DEF TeamOK, Step, Others
<1>8. \A u \in Threads : u >= Started => u \notin startEvent' /\ Step(u)' = "start"
  <2>1. ~(t >= Started)
    BY <1>1 DEF TeamOK, Step
  <2>2. QED
    BY <1>1, <2>1 DEF TeamOK, Step, Others
<1>9. p'.numStarted >= 1
  BY <1>1, SharedFields DEF TeamOK
<1>10. \A u \in In({"count"})' : th'[u].last <= p'.numFinished
  BY <1>1, <1>3 DEF TeamOK, In, Step, Others
<1>11. QED
  BY <1>1, <1>3, <1>5, <1>7, <1>8, <1>9, <1>10 DEF TeamOK

LEMMA LeaveTeam ==
  ASSUME CoderTypes, TeamOK, NEW t \in Threads, Leave(t)
  PROVE  TeamOK'
<1>1. /\ Others(t) /\ th[t].pc = "leave" /\ th'[t].pc = "count"
      /\ th'[t].last = p'.numFinished /\ p'.numFinished = p.numFinished + 1
      /\ p'.numStarted = p.numStarted /\ p.numFinished \in Nat
      /\ finishedEvent' = finishedEvent /\ startEvent' = startEvent /\ startEvent \subseteq Threads
  BY LeaveFacts, SharedFields DEF Leave, CoderTypes, events
<1>2. t \notin startEvent
  BY <1>1 DEF TeamOK, Step
<1>3. t \in Team /\ Team' = Team \ {t}
  BY <1>1, <1>2 DEF Team, Step, Others
<1>4. Cardinality(Team') = Cardinality(Team) - 1 /\ Cardinality(Team) \in Nat
  BY <1>3, TeamFinite, FS_RemoveElement
<1>5. In({"spawned"})' = In({"spawned"})
  BY <1>1 DEF In, Step, Others
<1>6. Started' = Started
  BY <1>1, <1>5 DEF Started
<1>7. (p.numFinished + Cardinality(Team) = Started)'
  <2>1. p.numFinished + Cardinality(Team) = Started
    BY DEF TeamOK
  <2>2. QED
    BY <1>1, <1>4, <1>6, <2>1
<1>8. \A u \in startEvent' : Step(u)' = "start"
  BY <1>1, <1>2 DEF TeamOK, Step, Others
<1>9. \A u \in Threads : u >= Started => u \notin startEvent' /\ Step(u)' = "start"
  <2>1. ~(t >= Started)
    BY <1>1 DEF TeamOK, Step
  <2>2. QED
    BY <1>1, <2>1 DEF TeamOK, Step, Others
<1>10. In({"spawned"})' # {} => (p.numStarted \in startEvent \/ Step(p.numStarted) = "read")'
  <2>1. SUFFICES ASSUME In({"spawned"}) # {} PROVE (p.numStarted \in startEvent \/ Step(p.numStarted) = "read")'
    BY <1>5
  <2>2. p.numStarted \in startEvent \/ Step(p.numStarted) = "read"
    BY <2>1 DEF TeamOK
  <2>3. p.numStarted \in Threads
    BY <2>1, Sizes, SharedFields DEF TeamOK, Started, Threads
  <2>4. p.numStarted # t
    BY <1>1, <1>2, <2>2 DEF Step
  <2>5. QED
    BY <1>1, <2>2, <2>3, <2>4 DEF Step, Others
<1>11. \A u \in In({"count"})' : th'[u].last <= p'.numFinished
  <2>1. SUFFICES ASSUME NEW u \in In({"count"})' PROVE th'[u].last <= p'.numFinished
    OBVIOUS
  <2>2. CASE u = t
    BY <1>1, <2>2
  <2>3. CASE u # t
    <3>1. u \in In({"count"}) /\ th'[u] = th[u] /\ u \in Threads
      BY <1>1, <2>3 DEF In, Step, Others
    <3>2. th[u].last \in Nat /\ th[u].last <= p.numFinished
      BY <3>1, ThreadFields DEF TeamOK
    <3>3. QED
      BY <1>1, <3>1, <3>2
  <2>4. QED
    BY <2>2, <2>3
<1>12. ~finishedEvent
  BY <1>3 DEF TeamOK
<1>13. QED
  BY <1>1, <1>6, <1>7, <1>8, <1>9, <1>10, <1>11, <1>12 DEF TeamOK

\* The thread that was counted last is the last one.
LEMMA CountTeam ==
  ASSUME CoderTypes, TeamOK, NEW t \in Threads, Count(t)
  PROVE  TeamOK'
<1>1. /\ Others(t) /\ th[t].pc = "count" /\ th'[t].pc = "start" /\ p' = p
      /\ finishedEvent' => finishedEvent \/ th[t].last = p.numStarted
  BY CountFacts
<1>2. startEvent' = startEvent /\ startEvent \subseteq Threads
  BY DEF Count, CoderTypes
<1>3. t \notin startEvent
  BY <1>1 DEF TeamOK, Step
<1>4. Team' = Team /\ In({"spawned"})' = In({"spawned"}) /\ In({"count"})' \subseteq In({"count"}) \ {t}
  BY <1>1, <1>2, <1>3 DEF Team, In, Step, Others
<1>5. Started' = Started
  BY <1>1, <1>4 DEF Started
<1>6. \A u \in startEvent' : Step(u)' = "start"
  BY <1>1, <1>2, <1>3 DEF TeamOK, Step, Others
<1>7. \A u \in Threads : u >= Started => u \notin startEvent' /\ Step(u)' = "start"
  BY <1>1, <1>2 DEF TeamOK, Step, Others
<1>8. In({"spawned"}) # {} => /\ p.numStarted \in startEvent \/ Step(p.numStarted) = "read"
                              /\ p.numStarted \in Threads
  BY Sizes, SharedFields DEF TeamOK, Started, Threads
<1>9. In({"spawned"})' # {} => (p.numStarted \in startEvent \/ Step(p.numStarted) = "read")'
  <2>1. SUFFICES ASSUME In({"spawned"}) # {} PROVE (p.numStarted \in startEvent \/ Step(p.numStarted) = "read")'
    BY <1>4
  <2>2. p.numStarted # t
    BY <1>1, <1>3, <1>8, <2>1 DEF Step
  <2>3. QED
    BY <1>1, <1>2, <1>8, <2>1, <2>2 DEF Step, Others
<1>10. \A u \in In({"count"})' : th'[u].last <= p'.numFinished
  BY <1>1, <1>4 DEF TeamOK, In, Others
<1>11. ASSUME th[t].last = p.numStarted PROVE Team = {}
  <2>1. p.numFinished >= p.numStarted
    BY <1>1, <1>11, SharedFields DEF TeamOK, In, Step
  <2>2. /\ p.numFinished + Cardinality(Team) = Started /\ p.numFinished \in Nat /\ p.numStarted \in Nat
        /\ Cardinality(Team) \in Nat /\ IsFiniteSet(Team)
    BY TeamFinite, SharedFields DEF TeamOK
  <2>3. In({"spawned"}) = {}
    <3>1. SUFFICES ASSUME NEW u \in In({"spawned"}) PROVE FALSE
      OBVIOUS
    <3>2. u \in Threads /\ Step(u) = "spawned" /\ u \in Team
      BY DEF In, Team
    <3>3. p.numStarted \in Team /\ p.numStarted # u
      BY <1>8, <3>1, <3>2 DEF TeamOK, Team
    <3>4. {u, p.numStarted} \subseteq Team /\ Cardinality({u, p.numStarted}) = 2
      <4>1. Cardinality({u}) = 1 /\ IsFiniteSet({u})
        BY FS_Singleton
      <4>2. Cardinality({u} \cup {p.numStarted}) = 2
        <5>1. p.numStarted \notin {u}
          BY <3>3
        <5>2. Cardinality({u} \cup {p.numStarted}) = Cardinality({u}) + 1
          BY <4>1, <5>1, FS_AddElement
        <5>3. QED
          BY <4>1, <5>2
      <4>3. {u} \cup {p.numStarted} = {u, p.numStarted}
        OBVIOUS
      <4>4. QED
        BY <3>2, <3>3, <4>2, <4>3
    <3>5. 2 <= Cardinality(Team)
      BY <2>2, <3>4, FS_Subset
    <3>6. Started <= p.numStarted + 1
      BY <2>2 DEF Started
    <3>7. QED
      BY <2>1, <2>2, <3>5, <3>6
  <2>4. Cardinality(Team) = 0
    BY <2>1, <2>2, <2>3 DEF Started
  <2>5. QED
    BY <2>2, <2>4, FS_EmptySet
<1>12. finishedEvent' => Team' = {}
  BY <1>1, <1>4, <1>11 DEF TeamOK
<1>13. QED
  BY <1>1, <1>4, <1>5, <1>6, <1>7, <1>9, <1>10, <1>12 DEF TeamOK

-----------------------------------------------------------------------------
(* The turn to read.                                                       *)

LEMMA ReadTurn ==
  ASSUME CoderTypes, NEW t \in Threads, Read(t), NEW T \in Nat, NEW tk, TurnOK(T, tk)
  PROVE  TurnOK(T, tk)' /\ (th'[t].res = "ok" => th'[t].block = T)
<1>1. /\ In(Turn) = {} /\ ~p.stopReading /\ readEvent' = FALSE /\ input' = input
      /\ p.readProcessed <= input.len
  BY DEF Read, TurnOK
<1>2. /\ p.readProcessed = T * BlockSize /\ p.readProcessed \in Nat /\ input.len \in Nat
      /\ BlockSize \in Nat /\ BlockSize >= 1 /\ (T + 1) * BlockSize = T * BlockSize + BlockSize
  BY <1>1, SharedFields, Sizes, WholeBlocks DEF TurnOK, CoderTypes
<1>3. /\ Others(t) /\ th'[t].pc = "take" /\ p'.stopReading = p.stopReading
      /\ \/ th'[t].res # "ok" /\ th'[t].finished /\ p'.readProcessed = p.readProcessed
         \/ /\ th'[t].block = Number(p) /\ p'.readProcessed = p.readProcessed + Part
            /\ ~th'[t].finished => Part = BlockSize
            /\ th'[t].finished => input.len <= p.readProcessed + Part \/ Part # BlockSize
  BY <1>1, ReadFacts
<1>4. Number(p) = T
  BY <1>2, WholeBlocks DEF Number
<1>5. Part \in Nat /\ p.readProcessed + Part <= input.len /\ Part <= BlockSize
      /\ (Part # BlockSize => input.len <= p.readProcessed + Part)
  BY <1>1, <1>2 DEF Part, Rest
<1>6. In(Turn)' = {t} /\ In({"take"})' = {t} /\ In(Turn \ {"take"})' = {}
  BY <1>1, <1>3 DEF In, Step, Others, Turn
<1>7. p'.readProcessed <= input.len
  BY <1>1, <1>3, <1>5
<1>8. th'[t].res = "ok" => th'[t].block = T
  BY <1>3, <1>4
<1>9. ~th'[t].finished => p'.readProcessed = (T + 1) * BlockSize
  <2> HIDE DEF Part, Rest
  <2>1. ASSUME ~th'[t].finished PROVE Part = BlockSize /\ p'.readProcessed = p.readProcessed + Part
    BY <1>3, <2>1, Zenon
  <2>2. QED
    BY <1>2, <2>1
<1>10. th'[t].finished /\ th'[t].res = "ok" => input.len <= (T + 1) * BlockSize
  <2> HIDE DEF Part, Rest
  <2>1. ASSUME th'[t].finished, th'[t].res = "ok" PROVE input.len <= p.readProcessed + Part \/ Part # BlockSize
    BY <1>3, <2>1, Zenon
  <2>2. ASSUME th'[t].finished, th'[t].res = "ok" PROVE input.len <= p.readProcessed + Part
    BY <1>5, <2>1, <2>2, Zenon
  <2>3. p.readProcessed + Part <= T * BlockSize + BlockSize
    BY <1>2, <1>5
  <2>4. QED
    BY <1>2, <1>5, <2>2, <2>3
<1>11. QED
  BY <1>1, <1>3, <1>6, <1>7, <1>8, <1>9, <1>10 DEF TurnOK

LEMMA TakeTurn ==
  ASSUME CoderTypes, NEW t \in Threads, Take(t), NEW T \in Nat, NEW tk, NEW tk2, TurnOK(T, tk),
         th[t].res # "ok" => p.mtRes # "ok", tk2[t] = T
  PROVE  TurnOK(T + 1, tk2)'
<1>1. th[t].pc = "take" /\ readEvent' = readEvent /\ input' = input
  BY DEF Take
<1>2. In(Turn) = {t} /\ ~readEvent /\ ~p.stopReading
  BY <1>1, OneReads DEF Step, Turn
<1>3. /\ Others(t) /\ th'[t].pc = "spawn"
      /\ th'[t].res = IF th[t].res = "ok" THEN p.mtRes ELSE th[t].res
      /\ th'[t].finished <=> th[t].finished \/ th'[t].res # "ok"
      /\ p'.stopReading = p.stopReading /\ p'.mtRes = p.mtRes /\ p'.readProcessed = p.readProcessed
  BY TakeFacts
<1>4. In(Turn)' = {t} /\ In({"take"})' = {} /\ In(Turn \ {"take"})' = {t}
  BY <1>2, <1>3 DEF In, Step, Others, Turn
<1>5. t \in In({"take"})
  BY <1>1 DEF In, Step
<1>6. ~th'[t].finished => p'.readProcessed = (T + 1) * BlockSize
  <2>1. ~th'[t].finished => ~th[t].finished
    BY <1>3, Zenon
  <2>2. QED
    BY <1>3, <1>5, <2>1 DEF TurnOK
<1>7. th'[t].finished /\ p'.mtRes = "ok" => input.len <= (T + 1) * BlockSize
  <2>1. p.mtRes = "ok" => th[t].res = "ok" /\ th'[t].res = "ok"
    BY <1>3
  <2>2. th'[t].finished /\ p.mtRes = "ok" => th[t].finished /\ th[t].res = "ok"
    BY <1>3, <2>1, Zenon
  <2>3. QED
    BY <1>3, <1>5, <2>2 DEF TurnOK
<1>8. tk2[t] = (T + 1) - 1
  OBVIOUS
<1>9. QED
  BY <1>1, <1>2, <1>3, <1>4, <1>6, <1>7, <1>8 DEF TurnOK

LEMMA SpawnTurn ==
  ASSUME CoderTypes, TeamOK, NEW t \in Threads, Spawn(t), NEW T \in Nat, NEW tk, TurnOK(T, tk)
  PROVE  TurnOK(T, tk)'
<1>1. Started <= NumThreads
  BY DEF TeamOK
<1>2. /\ Others(t) /\ th[t].pc = "spawn" /\ ~th[t].finished
      /\ p'.stopReading = p.stopReading /\ p'.readProcessed = p.readProcessed
      /\ \/ th'[t].pc = "spawned" /\ ~th'[t].finished
         \/ th'[t].pc = "unlock" /\ p'.mtRes # "ok" /\ th'[t].finished
  BY <1>1, SpawnFacts
<1>3. input' = input /\ readEvent' = readEvent
  BY DEF Spawn
<1>4. In(Turn) = {t} /\ ~readEvent /\ ~p.stopReading
  BY <1>2, OneReads DEF Step, Turn
<1>5. In(Turn)' = {t} /\ In({"take"})' = {} /\ In(Turn \ {"take"})' = {t}
  BY <1>2, <1>4 DEF In, Step, Others, Turn
<1>6. t \in In(Turn \ {"take"})
  BY <1>2 DEF In, Step, Turn
<1>7. tk[t] = T - 1 /\ p.readProcessed = T * BlockSize
  BY <1>2, <1>6 DEF TurnOK
<1>8. th'[t].finished => p'.mtRes # "ok"
  BY <1>2
<1>9. QED
  BY <1>2, <1>3, <1>4, <1>5, <1>7, <1>8 DEF TurnOK

LEMMA UnlockTurn ==
  ASSUME CoderTypes, NEW t \in Threads, Unlock(t), NEW T \in Nat, NEW tk, TurnOK(T, tk)
  PROVE  TurnOK(T, tk)'
<1>1. /\ Others(t) /\ th[t].pc \in {"spawn", "spawned", "unlock"} /\ th'[t].pc = "code"
      /\ p'.stopReading <=> p.stopReading \/ th[t].finished
      /\ p'.mtRes = p.mtRes /\ p'.readProcessed = p.readProcessed
  BY UnlockFacts
<1>2. input' = input
  BY DEF Unlock
<1>3. In(Turn) = {t} /\ ~readEvent /\ ~p.stopReading
  BY <1>1, OneReads DEF Step, Turn
<1>4. In(Turn)' = {} /\ In({"take"})' = {} /\ In(Turn \ {"take"})' = {}
  BY <1>1, <1>3 DEF In, Step, Others, Turn
<1>5. t \in In(Turn \ {"take"})
  BY <1>1 DEF In, Step, Turn
<1>6. ~p'.stopReading => p'.readProcessed = T * BlockSize
  <2>1. ~p'.stopReading => ~th[t].finished
    BY <1>1, Zenon
  <2>2. QED
    BY <1>1, <1>5, <2>1 DEF TurnOK
<1>7. p'.stopReading /\ p'.mtRes = "ok" => input.len <= T * BlockSize
  <2>1. p'.stopReading => th[t].finished
    BY <1>1, <1>3, Zenon
  <2>2. QED
    BY <1>1, <1>5, <2>1 DEF TurnOK
<1>8. p'.readProcessed <= input'.len
  BY <1>1, <1>2 DEF TurnOK
<1>9. QED
  BY <1>2, <1>4, <1>6, <1>7, <1>8 DEF TurnOK

-----------------------------------------------------------------------------
(* The ring.                                                               *)

LEMMA InFinite ==
  ASSUME NEW S
  PROVE  LET A == {u \in Threads : th[u].pc \in S}
         IN  IsFiniteSet(A) /\ Cardinality(A) \in Nat
<1> DEFINE A == {u \in Threads : th[u].pc \in S}
<1>1. A \subseteq Threads
  OBVIOUS
<1>2. QED
  BY <1>1, Sizes, FS_Subset, FS_CardinalityType

\* No more than NumBlocksMax blocks are under way, so that each has its own place.
LEMMA RingPlaces ==
  ASSUME CoderTypes, NEW T \in Nat, NEW W \in Nat, NEW tk, RingOK(T, W, tk)
  PROVE  /\ T - W <= NumBlocksMax /\ (semaphore > 0 => T - W < NumBlocksMax) /\ W <= T
         /\ \A j, k \in W .. T - 1 : Place(j) = Place(k) => j = k
         /\ \A k \in Nat : Place(k) \in Blocks
<1>1. semaphore + (T - W) + Cardinality(In(Leaving)) = NumBlocksMax /\ W <= T
  BY DEF RingOK
<1>2. Cardinality(In(Leaving)) \in Nat
  BY InFinite DEF In, Step
<1>3. semaphore \in Nat /\ NumBlocksMax \in Nat
  BY Sizes DEF CoderTypes
<1>4. T - W <= NumBlocksMax /\ (semaphore > 0 => T - W < NumBlocksMax)
  BY <1>1, <1>2, <1>3
<1>5. ASSUME NEW j \in W .. T - 1, NEW k \in W .. T - 1, Place(j) = Place(k)
      PROVE  j = k
  <2>1. j \in Nat /\ k \in Nat /\ j - k < NumBlocksMax /\ k - j < NumBlocksMax
    BY <1>3, <1>4
  <2>2. QED
    BY <1>5, <2>1, PlaceUnique
<1>6. QED
  BY <1>1, <1>4, <1>5, PlaceNext

LEMMA TakeRing ==
  ASSUME CoderTypes, NEW t \in Threads, Take(t), NEW T \in Nat, NEW W \in Nat,
         NEW tk \in [Threads -> Nat], NEW tk2, RingOK(T, W, tk),
         \A u \in Threads \ {t} : tk2[u] = tk[u], tk2[t] = T
  PROVE  RingOK(T + 1, W, tk2)'
<1>1. /\ Others(t) /\ th[t].pc = "take" /\ th'[t].pc = "spawn" /\ semaphore > 0 /\ semaphore' = semaphore - 1
      /\ th'[t].bi = p.blockIndex /\ p'.blockIndex = Wrap(p.blockIndex)
      /\ p'.writeIndex = p.writeIndex /\ p'.ready = p.ready
  BY TakeFacts DEF Take
<1>2. /\ In(Holding)' = In(Holding) \cup {t} /\ t \notin In(Holding)
      /\ In(Writing)' = In(Writing) /\ t \notin In(Writing) /\ In(Leaving)' = In(Leaving)
      /\ In(Fresh \cup {"publish"})' = In(Fresh \cup {"publish"}) \cup {t}
      /\ t \notin In(Fresh \cup {"publish"})
  BY <1>1 DEF In, Step, Others, Holding, Writing, Leaving, Fresh, Coded
<1>3. W <= T /\ T - W < NumBlocksMax /\ Place(T) \in Blocks /\ NumBlocksMax \in Nat
  BY <1>1, RingPlaces, Sizes
<1>4. (semaphore + (T + 1 - W) + Cardinality(In(Leaving)) = NumBlocksMax)'
  <2>1. semaphore + (T - W) + Cardinality(In(Leaving)) = NumBlocksMax
    BY DEF RingOK
  <2>2. Cardinality(In(Leaving)) \in Nat /\ semaphore \in Nat
    BY InFinite DEF In, Step, CoderTypes
  <2>3. QED
    BY <1>1, <1>2, <2>1, <2>2
<1>5. p'.blockIndex = Place(T + 1)
  BY <1>1, PlaceNext DEF RingOK
<1>6. \A u \in In(Holding) : u \in Threads \ {t} /\ tk2[u] = tk[u] /\ W <= tk[u] /\ tk[u] < T /\ tk[u] \in Nat
  BY <1>2 DEF RingOK, In
<1>7. \A u \in In(Holding)' : W <= tk2[u] /\ tk2[u] < T + 1
  BY <1>2, <1>3, <1>6
<1>8. \A u, v \in In(Holding)' : tk2[u] = tk2[v] => u = v
  BY <1>2, <1>6 DEF RingOK
<1>9. \A u \in In(Fresh \cup {"publish"})' : th'[u].bi = Place(tk2[u])
  BY <1>1, <1>2 DEF RingOK, In, Others
<1>10. \A u \in In(Writing)' : tk2[u] = W /\ th'[u].wi = Place(W)
  BY <1>1, <1>2 DEF RingOK, In, Others
<1>11. p'.writeIndex = IF In(Writing)' = {} THEN Place(W) ELSE None
  BY <1>1, <1>2, Zenon DEF RingOK
<1>12. \A b \in p'.ready : \E k \in W .. (T + 1) - 1 : b = Place(k)
  <2>1. \A k \in W .. T - 1 : k \in W .. (T + 1) - 1
    OBVIOUS
  <2>2. QED
    BY <1>1, <2>1 DEF RingOK
<1>13. Place(T) \notin p.ready
  <2>1. ASSUME NEW k \in W .. T - 1, Place(T) = Place(k) PROVE FALSE
    <3>1. k \in Nat /\ T - k < NumBlocksMax /\ k - T < NumBlocksMax /\ k # T
      BY <1>3
    <3>2. QED
      BY <2>1, <3>1, PlaceUnique
  <2>2. QED
    BY <2>1 DEF RingOK
<1>14. \A k \in W .. (T + 1) - 1 : Place(k) \in p'.ready <=> \A u \in In(Holding)' : tk2[u] # k
  <2>1. SUFFICES ASSUME NEW k \in W .. (T + 1) - 1
                 PROVE  Place(k) \in p.ready <=> \A u \in In(Holding)' : tk2[u] # k
    BY <1>1
  <2>2. CASE k = T
    BY <1>2, <1>13, <2>2
  <2>3. CASE k # T
    <3>1. k \in W .. T - 1
      BY <2>3
    <3>2. Place(k) \in p.ready <=> \A u \in In(Holding) : tk[u] # k
      BY <3>1 DEF RingOK
    <3>3. (\A u \in In(Holding)' : tk2[u] # k) <=> \A u \in In(Holding) : tk[u] # k
      BY <1>2, <1>6, <2>3
    <3>4. QED
      BY <3>2, <3>3
  <2>4. QED
    BY <2>2, <2>3
<1>15. Place(W) \notin p'.ready
  BY <1>1 DEF RingOK
<1>16. W <= T + 1
  BY <1>3
<1>17. (W <= T + 1 /\ semaphore + ((T + 1) - W) + Cardinality(In(Leaving)) = NumBlocksMax)'
  BY <1>4, <1>16
<1>18. /\ (\A u \in In(Holding) : W <= tk2[u] /\ tk2[u] < T + 1)'
       /\ (\A u, v \in In(Holding) : tk2[u] = tk2[v] => u = v)'
       /\ (\A u \in In(Fresh \cup {"publish"}) : th[u].bi = Place(tk2[u]))'
       /\ (\A u \in In(Writing) : tk2[u] = W /\ th[u].wi = Place(W))'
  BY <1>7, <1>8, <1>9, <1>10
<1>19. /\ (p.blockIndex = Place(T + 1))'
       /\ (p.writeIndex = IF In(Writing) = {} THEN Place(W) ELSE None)'
       /\ (Place(W) \notin p.ready)'
  BY <1>5, <1>11, <1>15
<1>20. /\ (\A b \in p.ready : \E k \in W .. (T + 1) - 1 : b = Place(k))'
       /\ (\A k \in W .. (T + 1) - 1 : Place(k) \in p.ready <=> \A u \in In(Holding) : tk2[u] # k)'
  BY <1>12, <1>14
<1>21. QED
  BY <1>17, <1>18, <1>19, <1>20, Zenon DEF RingOK

\* The block that is published is the one that is due, or is not.
LEMMA PublishRing ==
  ASSUME CoderTypes, NEW t \in Threads, Publish(t), NEW T \in Nat, NEW W \in Nat,
         NEW tk \in [Threads -> Nat], RingOK(T, W, tk)
  PROVE  /\ RingOK(T, W, tk)' /\ th[t].bi = Place(tk[t]) /\ tk[t] \in W .. T - 1
         /\ th'[t].pc \in {"read", "leave"} => tk[t] # W
<1>1. th[t].pc = "publish"
  BY DEF Publish
<1>2. t \in In(Fresh \cup {"publish"}) /\ t \in In(Holding) /\ t \notin In(Writing)
  BY <1>1 DEF In, Step, Holding, Coded, Writing
<1>3. th[t].bi = Place(tk[t]) /\ tk[t] \in W .. T - 1 /\ tk[t] \in Nat
  BY <1>2 DEF RingOK
<1>4. th[t].bi \in Blocks /\ W <= T /\ W \in W .. T - 1
  BY <1>3, RingPlaces
<1>5. None \notin Blocks
  BY Sizes DEF None, Blocks
<1>6. /\ Others(t) /\ p'.blockIndex = p.blockIndex
      /\ \/ /\ p.writeIndex = th[t].bi /\ p'.writeIndex = None /\ p'.ready = p.ready
            /\ th'[t].pc = "write" /\ th'[t].wi = th[t].bi
         \/ /\ p.writeIndex # th[t].bi /\ p'.writeIndex = p.writeIndex
            /\ p'.ready = p.ready \cup {th[t].bi}
            /\ th'[t].pc \in {"read", "leave"}
  BY <1>4, PublishFacts
<1>7. semaphore' = semaphore
  BY DEF Publish, events
<1>8. In(Leaving)' = In(Leaving)
  BY <1>1, <1>6 DEF In, Step, Others, Leaving
<1>9. /\ (W <= T /\ semaphore + (T - W) + Cardinality(In(Leaving)) = NumBlocksMax)'
      /\ p'.blockIndex = Place(T)
  BY <1>6, <1>7, <1>8 DEF RingOK
<1>10. \A u \in In(Fresh \cup {"publish"})' : th'[u].bi = Place(tk[u])
  <2>1. In(Fresh \cup {"publish"})' \subseteq In(Fresh \cup {"publish"}) \ {t}
    BY <1>1, <1>6 DEF In, Step, Others, Fresh
  <2>2. QED
    BY <1>6, <2>1 DEF RingOK, Others, In
<1>11. CASE /\ p.writeIndex = th[t].bi /\ p'.writeIndex = None /\ p'.ready = p.ready
            /\ th'[t].pc = "write" /\ th'[t].wi = th[t].bi
  <2>1. In(Writing) = {} /\ p.writeIndex = Place(W)
    BY <1>4, <1>5, <1>11 DEF RingOK
  <2>2. tk[t] = W
    BY <1>3, <1>4, <1>11, <2>1, RingPlaces
  <2>3. In(Writing)' = {t} /\ In(Holding)' = In(Holding)
    BY <1>1, <1>6, <1>11, <2>1 DEF In, Step, Others, Writing, Holding, Coded
  <2>4. \A u \in In(Writing)' : tk[u] = W /\ th'[u].wi = Place(W)
    BY <1>3, <1>11, <2>2, <2>3
  <2>5. p'.writeIndex = IF In(Writing)' = {} THEN Place(W) ELSE None
    BY <1>11, <2>3
  <2>6. /\ \A u \in In(Holding)' : W <= tk[u] /\ tk[u] < T
        /\ \A u, v \in In(Holding)' : tk[u] = tk[v] => u = v
        /\ \A b \in p'.ready : \E k \in W .. T - 1 : b = Place(k)
        /\ \A k \in W .. T - 1 : Place(k) \in p'.ready <=> \A u \in In(Holding)' : tk[u] # k
        /\ Place(W) \notin p'.ready
    BY <1>11, <2>3 DEF RingOK
  <2>7. RingOK(T, W, tk)'
    BY <1>9, <1>10, <2>4, <2>5, <2>6 DEF RingOK
  <2>8. QED
    BY <1>3, <1>11, <2>7
<1>12. CASE /\ p.writeIndex # th[t].bi /\ p'.writeIndex = p.writeIndex
            /\ p'.ready = p.ready \cup {th[t].bi}
            /\ th'[t].pc \in {"read", "leave"}
  <2>1. In(Writing)' = In(Writing) /\ In(Holding)' = In(Holding) \ {t}
    BY <1>1, <1>6, <1>12 DEF In, Step, Others, Writing, Holding, Coded, Fresh
  <2>2. tk[t] # W
    <3>1. CASE In(Writing) = {}
      BY <1>3, <1>12, <3>1 DEF RingOK
    <3>2. CASE In(Writing) # {}
      <4>1. PICK u \in In(Writing) : TRUE
        BY <3>2
      <4>2. tk[u] = W /\ u \in In(Holding) /\ u # t
        BY <1>2, <4>1 DEF RingOK, In, Holding, Writing, Coded
      <4>3. QED
        BY <1>2, <4>2 DEF RingOK
    <3>3. QED
      BY <3>1, <3>2
  <2>3. \A u \in In(Writing)' : tk[u] = W /\ th'[u].wi = Place(W)
    BY <1>2, <1>6, <2>1 DEF RingOK, Others, In
  <2>4. p'.writeIndex = IF In(Writing)' = {} THEN Place(W) ELSE None
    BY <1>12, <2>1, Zenon DEF RingOK
  <2>5. /\ \A u \in In(Holding)' : W <= tk[u] /\ tk[u] < T
        /\ \A u, v \in In(Holding)' : tk[u] = tk[v] => u = v
    BY <2>1 DEF RingOK
  <2>6. \A b \in p'.ready : \E k \in W .. T - 1 : b = Place(k)
    BY <1>3, <1>12 DEF RingOK
  <2>7. \A k \in W .. T - 1 : Place(k) \in p'.ready <=> \A u \in In(Holding)' : tk[u] # k
    <3>1. SUFFICES ASSUME NEW k \in W .. T - 1
                   PROVE  Place(k) \in p'.ready <=> \A u \in In(Holding)' : tk[u] # k
      OBVIOUS
    <3>2. CASE k = tk[t]
      <4>1. Place(k) \in p'.ready
        BY <1>3, <1>12, <3>2
      <4>2. \A u \in In(Holding)' : tk[u] # k
        BY <1>2, <2>1, <3>2 DEF RingOK
      <4>3. QED
        BY <4>1, <4>2
    <3>3. CASE k # tk[t]
      <4>1. Place(k) # Place(tk[t])
        BY <1>3, <3>3, RingPlaces
      <4>2. Place(k) \in p'.ready <=> Place(k) \in p.ready
        BY <1>3, <1>12, <4>1
      <4>3. Place(k) \in p.ready <=> \A u \in In(Holding) : tk[u] # k
        BY DEF RingOK
      <4>4. (\A u \in In(Holding)' : tk[u] # k) <=> \A u \in In(Holding) : tk[u] # k
        BY <2>1, <3>3
      <4>5. QED
        BY <4>2, <4>3, <4>4
    <3>4. QED
      BY <3>2, <3>3
  <2>8. Place(W) \notin p'.ready
    <3>1. Place(W) # Place(tk[t])
      BY <1>3, <1>4, <2>2, RingPlaces
    <3>2. QED
      BY <1>3, <1>12, <3>1 DEF RingOK
  <2>9. RingOK(T, W, tk)'
    BY <1>9, <1>10, <2>3, <2>4, <2>5, <2>6, <2>7, <2>8 DEF RingOK
  <2>10. QED
    BY <1>3, <2>2, <2>9
<1>13. QED
  BY <1>6, <1>11, <1>12

\* The thread that writes block W is alone, and the next block is ready, held or not read.
LEMMA Writer ==
  ASSUME CoderTypes, NEW T \in Nat, NEW W \in Nat, NEW tk \in [Threads -> Nat], RingOK(T, W, tk),
         NEW t \in Threads, t \in In(Writing)
  PROVE  /\ tk[t] = W /\ th[t].wi = Place(W) /\ In(Writing) = {t} /\ W < T /\ t \in In(Holding)
         /\ p.writeIndex = None
         /\ \A u \in In(Holding) \ {t} : W + 1 <= tk[u]
<1>1. /\ tk[t] = W /\ th[t].wi = Place(W) /\ p.writeIndex = None
  BY DEF RingOK
<1>2. In(Writing) \subseteq In(Holding)
  BY DEF In, Writing, Holding, Coded
<1>3. W < T
  BY <1>1, <1>2 DEF RingOK
<1>4. \A u \in In(Holding) \ {t} : tk[u] # W /\ W <= tk[u] /\ tk[u] \in Nat
  BY <1>1, <1>2 DEF RingOK, In
<1>5. \A u \in In(Writing) : u = t
  BY <1>2, <1>4 DEF RingOK
<1>6. QED
  BY <1>1, <1>2, <1>3, <1>4, <1>5

LEMMA AdvanceRing ==
  ASSUME CoderTypes, NEW t \in Threads, Advance(t), NEW T \in Nat, NEW W \in Nat,
         NEW tk \in [Threads -> Nat], NEW tk2, RingOK(T, W, tk),
         \A u \in Threads \ {t} : tk2[u] = tk[u], tk2[t] = W + 1
  PROVE  RingOK(T, W + 1, tk2)' /\ NextDue(t) = Place(W + 1)
<1>1. th[t].pc = "advance" /\ semaphore' = semaphore
  BY DEF Advance, events
<1>2. t \in In(Writing) /\ t \in In(Holding) /\ t \notin In(Fresh \cup {"publish"}) /\ t \notin In(Leaving)
  BY <1>1 DEF In, Step, Holding, Coded, Writing, Fresh, Leaving
<1>3. /\ tk[t] = W /\ th[t].wi = Place(W) /\ In(Writing) = {t} /\ W < T /\ p.writeIndex = None
      /\ \A u \in In(Holding) \ {t} : W + 1 <= tk[u]
  <2>1. t \in In(Writing) /\ RingOK(T, W, tk) /\ CoderTypes
    BY <1>2
  <2>2. tk[t] = W /\ th[t].wi = Place(W) /\ W < T /\ p.writeIndex = None
    BY <2>1, Writer
  <2>3. In(Writing) = {t}
    BY <2>1, Writer
  <2>4. \A u \in In(Holding) \ {t} : W + 1 <= tk[u]
    BY <2>1, Writer
  <2>5. QED
    BY <2>2, <2>3, <2>4
<1>4. th[t].wi \in Blocks /\ NextDue(t) = Place(W + 1)
  BY <1>3, PlaceNext DEF NextDue
<1>5. /\ Others(t) /\ th'[t].wi = Place(W + 1) /\ p'.blockIndex = p.blockIndex
      /\ \/ /\ Place(W + 1) \in p.ready /\ p'.ready = p.ready \ {Place(W + 1)}
            /\ th'[t].pc = "more" /\ p'.writeIndex = p.writeIndex
         \/ /\ Place(W + 1) \notin p.ready /\ p'.ready = p.ready
            /\ th'[t].pc = "done" /\ p'.writeIndex = Place(W + 1)
  BY <1>4, AdvanceFacts
<1>6. In(Leaving)' = In(Leaving) \cup {t}
  BY <1>1, <1>5 DEF In, Step, Others, Leaving
<1>7. (W + 1 <= T /\ semaphore + (T - (W + 1)) + Cardinality(In(Leaving)) = NumBlocksMax)'
  <2>1. IsFiniteSet(In(Leaving)) /\ Cardinality(In(Leaving)) \in Nat /\ semaphore \in Nat
    BY InFinite DEF In, Step, CoderTypes
  <2>2. Cardinality(In(Leaving)') = Cardinality(In(Leaving)) + 1
    BY <1>2, <1>6, <2>1, FS_AddElement
  <2>3. semaphore + (T - W) + Cardinality(In(Leaving)) = NumBlocksMax
    BY DEF RingOK
  <2>4. QED
    BY <1>1, <1>3, <2>1, <2>2, <2>3
<1>8. /\ In(Fresh \cup {"publish"})' = In(Fresh \cup {"publish"})
      /\ In(Holding)' \subseteq In(Holding)
  BY <1>1, <1>5 DEF In, Step, Others, Fresh, Holding, Coded
<1>9. \A u \in In(Fresh \cup {"publish"})' : th'[u].bi = Place(tk2[u])
  BY <1>2, <1>5, <1>8 DEF RingOK, In, Others
<1>10. \A u \in In(Holding) \ {t} : tk2[u] = tk[u] /\ W + 1 <= tk[u] /\ tk[u] < T /\ tk[u] \in Nat
  BY <1>3 DEF RingOK, In
<1>11. \A k \in W + 1 .. T - 1 : k \in W .. T - 1 /\ k # W
  OBVIOUS
<1>12. \A b \in p.ready : \E k \in W + 1 .. T - 1 : b = Place(k)
  <2>1. SUFFICES ASSUME NEW b \in p.ready PROVE \E k \in W + 1 .. T - 1 : b = Place(k)
    OBVIOUS
  <2>2. PICK k \in W .. T - 1 : b = Place(k)
    BY DEF RingOK
  <2>3. k # W
    BY <2>1, <2>2 DEF RingOK
  <2>4. k \in W + 1 .. T - 1
    BY <2>3
  <2>5. QED
    BY <2>2, <2>4
<1>13. \A k \in W + 1 .. T - 1 : Place(k) \in p.ready <=> \A u \in In(Holding) \ {t} : tk2[u] # k
  <2>1. SUFFICES ASSUME NEW k \in W + 1 .. T - 1
                 PROVE  Place(k) \in p.ready <=> \A u \in In(Holding) \ {t} : tk2[u] # k
    OBVIOUS
  <2>2. Place(k) \in p.ready <=> \A u \in In(Holding) : tk[u] # k
    BY <1>11 DEF RingOK
  <2>3. tk[t] # k
    BY <1>3
  <2>4. QED
    BY <1>10, <2>2, <2>3
<1>14. \A u, v \in In(Holding) \ {t} : tk2[u] = tk2[v] => u = v
  BY <1>10 DEF RingOK
<1>15. CASE /\ Place(W + 1) \in p.ready /\ p'.ready = p.ready \ {Place(W + 1)}
            /\ th'[t].pc = "more" /\ p'.writeIndex = p.writeIndex
  <2>1. In(Holding)' = In(Holding) /\ In(Writing)' = {t}
    BY <1>1, <1>2, <1>3, <1>5, <1>15 DEF In, Step, Others, Writing, Holding, Coded, Fresh
  <2>2. W + 1 \in W + 1 .. T - 1
    <3>1. PICK k \in W + 1 .. T - 1 : Place(W + 1) = Place(k)
      BY <1>12, <1>15
    <3>2. QED
      BY <3>1
  <2>3. \A u \in In(Holding) \ {t} : tk2[u] # W + 1
    BY <1>13, <1>15, <2>2
  <2>4. \A u \in In(Holding)' : W + 1 <= tk2[u] /\ tk2[u] < T
    BY <1>10, <2>1, <2>2
  <2>5. \A u, v \in In(Holding)' : tk2[u] = tk2[v] => u = v
    BY <1>14, <2>1, <2>3
  <2>6. \A u \in In(Writing)' : tk2[u] = W + 1 /\ th'[u].wi = Place(W + 1)
    BY <1>5, <2>1
  <2>7. p'.writeIndex = IF In(Writing)' = {} THEN Place(W + 1) ELSE None
    BY <1>3, <1>15, <2>1
  <2>8. \A b \in p'.ready : \E k \in W + 1 .. T - 1 : b = Place(k)
    BY <1>12, <1>15
  <2>9. \A k \in W + 1 .. T - 1 : Place(k) \in p'.ready <=> \A u \in In(Holding)' : tk2[u] # k
    <3>1. SUFFICES ASSUME NEW k \in W + 1 .. T - 1
                   PROVE  Place(k) \in p'.ready <=> \A u \in In(Holding)' : tk2[u] # k
      OBVIOUS
    <3>2. CASE k = W + 1
      BY <1>2, <1>15, <2>1, <3>2
    <3>3. CASE k # W + 1
      <4>1. Place(k) # Place(W + 1)
        BY <1>11, <2>2, <3>3, RingPlaces
      <4>2. Place(k) \in p'.ready <=> Place(k) \in p.ready
        BY <1>15, <4>1
      <4>3. Place(k) \in p.ready <=> \A u \in In(Holding) \ {t} : tk2[u] # k
        BY <1>13
      <4>4. (\A u \in In(Holding)' : tk2[u] # k) <=> \A u \in In(Holding) \ {t} : tk2[u] # k
        BY <2>1, <3>3
      <4>5. QED
        BY <4>2, <4>3, <4>4
    <3>4. QED
      BY <3>2, <3>3
  <2>10. Place(W + 1) \notin p'.ready
    BY <1>15
  <2>11. (p.blockIndex = Place(T))'
    BY <1>5 DEF RingOK
  <2>12. QED
    BY <1>4, <1>7, <1>9, <2>4, <2>5, <2>6, <2>7, <2>8, <2>9, <2>10, <2>11, Zenon DEF RingOK
<1>16. CASE /\ Place(W + 1) \notin p.ready /\ p'.ready = p.ready
            /\ th'[t].pc = "done" /\ p'.writeIndex = Place(W + 1)
  <2>1. In(Holding)' = In(Holding) \ {t} /\ In(Writing)' = {}
    BY <1>1, <1>3, <1>5, <1>16 DEF In, Step, Others, Writing, Holding, Coded, Fresh
  <2>2. \A u \in In(Holding)' : W + 1 <= tk2[u] /\ tk2[u] < T
    BY <1>10, <2>1
  <2>3. \A u, v \in In(Holding)' : tk2[u] = tk2[v] => u = v
    BY <1>14, <2>1
  <2>4. \A u \in In(Writing)' : tk2[u] = W + 1 /\ th'[u].wi = Place(W + 1)
    BY <2>1
  <2>5. p'.writeIndex = IF In(Writing)' = {} THEN Place(W + 1) ELSE None
    BY <1>16, <2>1
  <2>6. \A b \in p'.ready : \E k \in W + 1 .. T - 1 : b = Place(k)
    BY <1>12, <1>16
  <2>7. \A k \in W + 1 .. T - 1 : Place(k) \in p'.ready <=> \A u \in In(Holding)' : tk2[u] # k
    BY <1>13, <1>16, <2>1
  <2>8. Place(W + 1) \notin p'.ready
    BY <1>16
  <2>9. (p.blockIndex = Place(T))'
    BY <1>5 DEF RingOK
  <2>10. QED
    BY <1>4, <1>7, <1>9, <2>2, <2>3, <2>4, <2>5, <2>6, <2>7, <2>8, <2>9, Zenon DEF RingOK
<1>17. QED
  BY <1>5, <1>15, <1>16

LEMMA ReleaseRing ==
  ASSUME CoderTypes, NEW t \in Threads, Release(t), th[t].pc = "more" => th[t].wi \in Blocks,
         NEW T \in Nat, NEW W \in Nat, NEW tk \in [Threads -> Nat], RingOK(T, W, tk)
  PROVE  RingOK(T, W, tk)'
<1>1. /\ Others(t) /\ p' = p /\ semaphore' = semaphore + 1 /\ th'[t].wi = th[t].wi
      /\ \/ th[t].pc = "more" /\ th'[t].pc = "write"
         \/ th[t].pc = "done" /\ th'[t].pc \in {"read", "leave"}
  BY ReleaseFacts
<1>2. /\ In(Leaving)' = In(Leaving) \ {t} /\ t \in In(Leaving)
      /\ In(Holding)' = In(Holding) /\ In(Writing)' = In(Writing)
      /\ In(Fresh \cup {"publish"})' = In(Fresh \cup {"publish"}) /\ t \notin In(Fresh \cup {"publish"})
  BY <1>1 DEF In, Step, Others, Fresh, Holding, Coded, Writing, Leaving
<1>3. (W <= T /\ semaphore + (T - W) + Cardinality(In(Leaving)) = NumBlocksMax)'
  <2>1. IsFiniteSet(In(Leaving)) /\ Cardinality(In(Leaving)) \in Nat /\ semaphore \in Nat
    BY InFinite DEF In, Step, CoderTypes
  <2>2. Cardinality(In(Leaving)') = Cardinality(In(Leaving)) - 1
    <3>1. Cardinality(In(Leaving) \ {t}) = Cardinality(In(Leaving)) - 1
      BY <1>2, <2>1, FS_RemoveElement
    <3>2. QED
      BY <1>2, <3>1
  <2>3. semaphore + (T - W) + Cardinality(In(Leaving)) = NumBlocksMax /\ W <= T
    BY DEF RingOK
  <2>4. QED
    BY <1>1, <2>1, <2>2, <2>3
<1>4. /\ (\A u \in In(Holding) : W <= tk[u] /\ tk[u] < T)'
      /\ (\A u, v \in In(Holding) : tk[u] = tk[v] => u = v)'
  BY <1>2 DEF RingOK
<1>5. (\A u \in In(Fresh \cup {"publish"}) : th[u].bi = Place(tk[u]))'
  BY <1>1, <1>2 DEF RingOK, Others, In
<1>6. (\A u \in In(Writing) : tk[u] = W /\ th[u].wi = Place(W))'
  BY <1>1, <1>2 DEF RingOK, Others, In
<1>7. /\ (p.blockIndex = Place(T))'
      /\ (p.writeIndex = IF In(Writing) = {} THEN Place(W) ELSE None)'
      /\ (Place(W) \notin p.ready)'
  BY <1>1, <1>2, Zenon DEF RingOK
<1>8. /\ (\A b \in p.ready : \E k \in W .. T - 1 : b = Place(k))'
      /\ (\A k \in W .. T - 1 : Place(k) \in p.ready <=> \A u \in In(Holding) : tk[u] # k)'
  <2>1. p'.ready = p.ready
    BY <1>1
  <2>2. (\A b \in p.ready : \E k \in W .. T - 1 : b = Place(k))'
    BY <2>1 DEF RingOK
  <2>3. (\A k \in W .. T - 1 : Place(k) \in p.ready <=> \A u \in In(Holding) : tk[u] # k)'
    BY <1>2, <2>1 DEF RingOK
  <2>4. QED
    BY <2>2, <2>3
<1>9. QED
  BY <1>3, <1>4, <1>5, <1>6, <1>7, <1>8, Zenon DEF RingOK

-----------------------------------------------------------------------------
(* The buffers.                                                            *)

LEMMA TakeFirst ==
  ASSUME NEW s \in Seq(Blocks), Len(s) >= 1
  PROVE  /\ Head(s) \in Blocks /\ Head(s) = s[1] /\ Len(Tail(s)) = Len(s) - 1 /\ Len(s) \in Nat
         /\ \A i \in 1 .. Len(Tail(s)) : Tail(s)[i] = s[i + 1] /\ i + 1 \in 1 .. Len(s) /\ i + 1 # 1
         /\ 1 \in 1 .. Len(s)
<1>1. s # <<>> /\ Len(s) \in Nat
  OBVIOUS
<1>2. Head(s) \in Blocks /\ Head(s) = s[1] /\ Len(Tail(s)) = Len(s) - 1
  BY <1>1
<1>3. \A i \in 1 .. Len(Tail(s)) : Tail(s)[i] = s[i + 1]
  BY <1>1
<1>4. \A i \in 1 .. Len(Tail(s)) : i + 1 \in 1 .. Len(s) /\ i + 1 # 1
  BY <1>1, <1>2
<1>5. QED
  BY <1>1, <1>2, <1>3, <1>4

LEMMA GiveBack ==
  ASSUME NEW s \in Seq(Blocks), NEW b \in Blocks
  PROVE  /\ Len(<<b>> \o s) = Len(s) + 1 /\ (<<b>> \o s)[1] = b /\ Len(s) \in Nat
         /\ \A i \in 1 .. Len(s) + 1 : i # 1 => (<<b>> \o s)[i] = s[i - 1] /\ i - 1 \in 1 .. Len(s)
<1>1. <<b>> \in Seq(Blocks) /\ Len(<<b>>) = 1 /\ <<b>>[1] = b /\ Len(s) \in Nat
  OBVIOUS
<1>2. Len(<<b>> \o s) = Len(s) + 1 /\ (<<b>> \o s)[1] = b
  BY <1>1
<1>3. \A i \in 1 .. Len(s) + 1 : i # 1 => i - 1 \in 1 .. Len(s)
  BY <1>1
<1>4. \A i \in 1 .. Len(s) + 1 : i # 1 => (<<b>> \o s)[i] = s[i - 1]
  BY <1>1
<1>5. QED
  BY <1>1, <1>2, <1>3, <1>4

\* A block that is held is not ready.
LEMMA HeldNotReady ==
  ASSUME CoderTypes, NEW T \in Nat, NEW W \in Nat, NEW tk \in [Threads -> Nat], RingOK(T, W, tk),
         NEW t \in Threads, t \in In(Fresh \cup {"publish"})
  PROVE  /\ tk[t] \in W .. T - 1 /\ tk[t] \in Nat /\ t \in In(Holding)
         /\ th[t].bi = Place(tk[t]) /\ Place(tk[t]) \in Blocks
         /\ Place(tk[t]) \notin p.ready /\ (In({"more"}) # {} => W < tk[t])
<1>1. t \in In(Holding) /\ t \notin In({"more"})
  BY DEF In, Holding, Coded, Fresh
<1>2. tk[t] \in W .. T - 1 /\ tk[t] \in Nat /\ th[t].bi = Place(tk[t])
  BY <1>1 DEF RingOK
<1>3. Place(tk[t]) \notin p.ready
  BY <1>1, <1>2 DEF RingOK
<1>4. ASSUME In({"more"}) # {} PROVE W < tk[t]
  <2>1. PICK u \in In({"more"}) : TRUE
    BY <1>4
  <2>2. u \in In(Writing) /\ u \in In(Holding) /\ u # t
    BY <1>1, <2>1 DEF In, Writing, Holding
  <2>3. tk[u] = W
    BY <2>2 DEF RingOK
  <2>4. tk[t] # tk[u]
    BY <1>1, <2>2 DEF RingOK
  <2>5. QED
    BY <1>2, <2>3, <2>4
<1>5. Place(tk[t]) \in Blocks
  BY <1>2, PlaceNext
<1>6. QED
  BY <1>1, <1>2, <1>3, <1>4, <1>5

LEMMA HeldApart ==
  ASSUME CoderTypes, NEW T \in Nat, NEW W \in Nat, NEW tk \in [Threads -> Nat], RingOK(T, W, tk),
         NEW t \in Threads, t \in In(Fresh \cup {"publish"}), NEW k \in Ready(W, T)
  PROVE  k \in W .. T - 1 /\ k # tk[t] /\ Place(k) # Place(tk[t])
<1>1. CoderTypes /\ RingOK(T, W, tk) /\ t \in In(Fresh \cup {"publish"})
  OBVIOUS
<1>2. tk[t] \in W .. T - 1
  BY <1>1, HeldNotReady
<1>3. Place(tk[t]) \notin p.ready
  BY <1>1, HeldNotReady
<1>4. In({"more"}) # {} => W < tk[t]
  BY <1>1, HeldNotReady
<1>5. k \in W .. T - 1 /\ k # tk[t]
  BY <1>2, <1>3, <1>4 DEF Ready
<1>6. Place(k) # Place(tk[t])
  BY <1>1, <1>2, <1>5, RingPlaces
<1>7. QED
  BY <1>5, <1>6

LEMMA FewBlocks ==
  ASSUME NEW a \in Nat, NEW b \in Nat, a <= b
  PROVE  IsFiniteSet(a .. b - 1) /\ Cardinality(a .. b - 1) = b - a
<1>1. a \in Int /\ b - 1 \in Int
  OBVIOUS
<1>2. /\ IsFiniteSet(a .. (b - 1))
      /\ Cardinality(a .. (b - 1)) = IF a > b - 1 THEN 0 ELSE (b - 1) - a + 1
  BY <1>1, FS_Interval
<1>3. QED
  BY <1>2

\* There is a buffer for each block that has none.
LEMMA BufferLeft ==
  ASSUME CoderTypes, NEW T \in Nat, NEW W \in Nat, NEW tk \in [Threads -> Nat], RingOK(T, W, tk),
         NEW U, NEW bf, BuffersOK(T, W, tk, U, bf), NEW c \in W .. T - 1, c \notin U
  PROVE  Len(free) >= 1 /\ IsFiniteSet(U) /\ Cardinality(U) \in Nat
<1>1. U \subseteq W .. T - 1 /\ Len(free) + Cardinality(U) = NumBlocksMax
  BY DEF BuffersOK
<1>2. W <= T /\ T - W <= NumBlocksMax /\ NumBlocksMax \in Nat
  BY RingPlaces, Sizes
<1> DEFINE J == W .. T - 1
<1>3. IsFiniteSet(J) /\ Cardinality(J) = T - W
  BY FewBlocks, <1>2
<1>4. c \in J /\ U \subseteq J \ {c}
  BY <1>1
<1> HIDE DEF J
<1>5. IsFiniteSet(J \ {c}) /\ Cardinality(J \ {c}) = Cardinality(J) - 1
  BY <1>3, <1>4, FS_RemoveElement
<1>6. IsFiniteSet(U) /\ Cardinality(U) <= Cardinality(J \ {c})
  BY <1>4, <1>5, FS_Subset
<1>7. Cardinality(U) \in Nat
  BY <1>6, FS_CardinalityType
<1>8. Len(free) \in Nat
  BY DEF CoderTypes
<1>9. Len(free) >= 1
  BY <1>1, <1>2, <1>3, <1>5, <1>6, <1>7, <1>8
<1>10. QED
  BY <1>6, <1>7, <1>9

LEMMA CodeBuffers ==
  ASSUME CoderTypes, NEW t \in Threads, Code(t), NEW T \in Nat, NEW W \in Nat,
         NEW tk \in [Threads -> Nat], RingOK(T, W, tk),
         NEW U \in SUBSET Nat, NEW bf \in [Nat -> Blocks], BuffersOK(T, W, tk, U, bf),
         th[t].res # "ok" => p.mtRes # "ok"
  PROVE  \E V \in SUBSET Nat, b2 \in [Nat -> Blocks] : BuffersOK(T, W, tk, V, b2)'
<1> DEFINE c == tk[t]
           h == Head(free)
<1>1. th[t].pc = "code"
  BY DEF Code
<1>2. t \in In(Fresh \cup {"publish"}) /\ t \in In(Fresh)
  BY <1>1 DEF In, Step, Fresh
<1>3. CoderTypes /\ RingOK(T, W, tk) /\ t \in In(Fresh \cup {"publish"})
  BY <1>2
<1>4. c \in W .. T - 1 /\ c \in Nat /\ t \in In(Holding)
  BY <1>3, HeldNotReady
<1>5. th[t].bi = Place(c) /\ Place(c) \in Blocks
  BY <1>3, HeldNotReady
<1>6. \A k \in Ready(W, T) : k \in W .. T - 1 /\ k # c /\ Place(k) # Place(c)
  BY <1>3, HeldApart
<1>7. /\ c \in W .. T - 1 /\ c \in Nat /\ t \in In(Holding) /\ th[t].bi = Place(c) /\ Place(c) \in Blocks
      /\ \A k \in Ready(W, T) : k \in W .. T - 1 /\ k # c /\ Place(k) # Place(c)
  BY <1>4, <1>5, <1>6
<1>8. c \notin U /\ (th[t].res = "ok" => th[t].block = c)
  BY <1>2 DEF BuffersOK
<1>9. Len(free) >= 1 /\ IsFiniteSet(U) /\ Cardinality(U) \in Nat
  BY <1>7, <1>8, BufferLeft
<1>10. free \in Seq(Blocks) /\ bufs \in [Blocks -> Int] /\ p.blocks \in [Blocks -> [res : Results, buf : Indices, finished : BOOLEAN]]
  BY SharedFields DEF CoderTypes
<1>11. /\ Others(t) /\ th'[t].pc = "publish" /\ Worse /\ p'.ready = p.ready
      /\ p'.blocks = [p.blocks EXCEPT ![Place(c)] = BlockOf(th'[t])]
      /\ \/ /\ th[t].res # "ok" /\ th'[t].buf = None
            /\ free' = free /\ bufs' = bufs /\ p'.mtRes = p.mtRes
         \/ /\ th[t].res = "ok" /\ th'[t].buf = h /\ free' = Tail(free)
            /\ bufs' = [bufs EXCEPT ![h] = th[t].block]
  <2>1. CoderTypes /\ Code(t) /\ th[t].bi \in Blocks /\ Len(free) >= 1
    BY <1>7, <1>9
  <2>2. Others(t) /\ th'[t].pc = "publish" /\ Worse /\ p'.ready = p.ready
    BY <2>1, CodeFacts
  <2>3. p'.blocks = [p.blocks EXCEPT ![th[t].bi] = BlockOf(th'[t])]
    BY <2>1, CodeFacts
  <2>4. \/ /\ th[t].res # "ok" /\ th'[t].buf = None
           /\ free' = free /\ bufs' = bufs /\ p'.mtRes = p.mtRes
        \/ /\ th[t].res = "ok" /\ th'[t].buf = h /\ free' = Tail(free)
           /\ bufs' = [bufs EXCEPT ![h] = th[t].block]
    BY <2>1, CodeFacts
  <2>5. QED
    BY <1>5, <2>2, <2>3, <2>4
<1> HIDE DEF h
<1>12. Ready(W, T)' = Ready(W, T)
  BY <1>1, <1>11, ReadySame
<1>13. ASSUME NEW k \in Ready(W, T) PROVE p'.blocks[Place(k)] = p.blocks[Place(k)]
  <2>1. k \in Nat /\ Place(k) # Place(c)
    BY <1>6
  <2>2. Place(k) \in Blocks
    BY <2>1, PlaceNext
  <2>3. QED
    BY <1>10, <1>11, <2>1, <2>2
<1>14. /\ In(Fresh)' = In(Fresh) \ {t} /\ In(Coded)' = In(Coded) \cup {t} /\ t \notin In(Coded)
       /\ In({"publish"})' = In({"publish"}) \cup {t} /\ t \notin In({"publish"})
       /\ In(Coded) \subseteq In(Holding) /\ In(Fresh) \subseteq In(Holding)
       /\ In({"publish"}) \subseteq In(Fresh \cup {"publish"}) /\ In({"publish"}) \subseteq In(Holding)
  BY <1>1, <1>11 DEF In, Step, Others, Fresh, Coded, Holding
<1>15. \A u \in In(Holding) \ {t} : u \in Threads \ {t} /\ th'[u] = th[u] /\ tk[u] # c /\ tk[u] \in W .. T - 1
  BY <1>7, <1>11 DEF RingOK, In, Others
<1>16. \A u \in In({"publish"})' : p'.blocks[Place(tk[u])] = BlockOf(th'[u])
  <2>1. SUFFICES ASSUME NEW u \in In({"publish"})' PROVE p'.blocks[Place(tk[u])] = BlockOf(th'[u])
    OBVIOUS
  <2>2. CASE u = t
    BY <1>7, <1>10, <1>11, <2>2
  <2>3. CASE u # t
    <3>1. u \in In({"publish"}) /\ u \in In(Holding) \ {t}
      BY <1>14, <2>3
    <3>2. Place(tk[u]) # Place(c)
      BY <1>7, <1>15, <3>1, RingPlaces
    <3>3. p.blocks[Place(tk[u])] = BlockOf(th[u])
      BY <3>1 DEF BuffersOK
    <3>4. BlockOf(th'[u]) = BlockOf(th[u])
      BY <1>15, <3>1
    <3>5. QED
      BY <1>10, <1>11, <3>2, <3>3, <3>4
  <2>4. QED
    BY <2>2, <2>3
<1>17. CASE /\ th[t].res # "ok" /\ th'[t].buf = None
            /\ free' = free /\ bufs' = bufs /\ p'.mtRes = p.mtRes
  <2>1. /\ (Len(free) + Cardinality(U) = NumBlocksMax)' /\ U \subseteq W .. T - 1
        /\ \A i, j \in 1 .. Len(free') : free'[i] = free'[j] => i = j
        /\ \A k \in U : bufs'[bf[k]] = k /\ \A i \in 1 .. Len(free') : free'[i] # bf[k]
        /\ \A k, l \in U : bf[k] = bf[l] => k = l
    BY <1>17 DEF BuffersOK
  <2>2. \A u \in In(Fresh)' : tk[u] \notin U /\ (th'[u].res = "ok" => th'[u].block = tk[u])
    BY <1>14, <1>15 DEF BuffersOK
  <2>3. \A u \in In(Coded)' : th'[u].buf = IF tk[u] \in U THEN bf[tk[u]] ELSE None
    <3>1. th'[t].buf = IF tk[t] \in U THEN bf[tk[t]] ELSE None
      BY <1>8, <1>17
    <3>2. \A u \in In(Coded) : th'[u].buf = IF tk[u] \in U THEN bf[tk[u]] ELSE None
      BY <1>14, <1>15 DEF BuffersOK
    <3>3. QED
      BY <1>14, <3>1, <3>2
  <2>4. \A k \in Ready(W, T)' : p'.blocks[Place(k)].buf = IF k \in U THEN bf[k] ELSE None
    BY <1>12, <1>13 DEF BuffersOK
  <2>5. p'.mtRes # "ok"
    BY <1>17
  <2>6. BuffersOK(T, W, tk, U, bf)'
    BY <1>16, <2>1, <2>2, <2>3, <2>4, <2>5 DEF BuffersOK
  <2>7. QED
    BY <2>6
<1>18. CASE /\ th[t].res = "ok" /\ th'[t].buf = h /\ free' = Tail(free)
            /\ bufs' = [bufs EXCEPT ![h] = th[t].block]
  <2>1. /\ h \in Blocks /\ h = free[1] /\ Len(free') = Len(free) - 1 /\ Len(free) \in Nat
        /\ \A i \in 1 .. Len(free') : free'[i] = free[i + 1] /\ i + 1 \in 1 .. Len(free) /\ i + 1 # 1
        /\ 1 \in 1 .. Len(free)
    BY <1>9, <1>10, <1>18, TakeFirst DEF h
  <2>2. PICK V \in SUBSET Nat, b2 \in [Nat -> Blocks] : V = U \cup {c} /\ b2 = [bf EXCEPT ![c] = h]
    <3>1. U \cup {c} \in SUBSET Nat /\ [bf EXCEPT ![c] = h] \in [Nat -> Blocks]
      BY <1>7, <2>1
    <3>2. QED
      BY <3>1
  <2>3. V \in SUBSET Nat /\ b2 \in [Nat -> Blocks] /\ b2[c] = h /\ (\A k \in U : b2[k] = bf[k] /\ k # c)
    BY <1>7, <1>8, <2>1, <2>2
  <2>4. Cardinality(V) = Cardinality(U) + 1
    BY <1>8, <1>9, <2>2, FS_AddElement
  <2>5. Len(free) + Cardinality(U) = NumBlocksMax /\ U \subseteq W .. T - 1
    BY DEF BuffersOK
  <2>6. V \subseteq W .. T - 1
    BY <1>7, <2>5, <2>2
  <2>7. Len(free') + Cardinality(V) = NumBlocksMax
    BY <1>9, <2>1, <2>4, <2>5
  <2>8. Len(free') + Cardinality(V) = NumBlocksMax /\ V \subseteq W .. T - 1
    BY <2>6, <2>7
  <2>9. \A i, j \in 1 .. Len(free') : free'[i] = free'[j] => i = j
    <3>1. SUFFICES ASSUME NEW i \in 1 .. Len(free'), NEW j \in 1 .. Len(free'), free'[i] = free'[j] PROVE i = j
      OBVIOUS
    <3>2. free[i + 1] = free[j + 1] /\ i + 1 \in 1 .. Len(free) /\ j + 1 \in 1 .. Len(free)
      BY <2>1, <3>1
    <3>3. i + 1 = j + 1
      BY <3>2 DEF BuffersOK
    <3>4. QED
      BY <3>3
  <2>10. \A k \in U : bufs[bf[k]] = k /\ bf[k] \in Blocks /\ bf[k] # h
                     /\ \A i \in 1 .. Len(free) : free[i] # bf[k]
    <3>1. \A k \in U : bf[k] \in Blocks
      OBVIOUS
    <3>2. \A k \in U : bufs[bf[k]] = k /\ \A i \in 1 .. Len(free) : free[i] # bf[k]
      BY DEF BuffersOK
    <3>3. QED
      BY <2>1, <3>1, <3>2
  <2>11. \A k \in U : bufs'[b2[k]] = k /\ \A i \in 1 .. Len(free') : free'[i] # b2[k]
    <3>1. SUFFICES ASSUME NEW k \in U PROVE bufs'[b2[k]] = k /\ \A i \in 1 .. Len(free') : free'[i] # b2[k]
      OBVIOUS
    <3>2. b2[k] = bf[k] /\ bufs'[bf[k]] = bufs[bf[k]]
      BY <1>10, <1>18, <2>3, <2>10
    <3>3. \A i \in 1 .. Len(free') : free'[i] # bf[k]
      BY <2>1, <2>10
    <3>4. QED
      BY <2>10, <3>2, <3>3
  <2>12. bufs'[b2[c]] = c
    BY <1>8, <1>10, <1>18, <2>1, <2>3
  <2>13. \A i \in 1 .. Len(free') : free'[i] # b2[c]
    <3>1. SUFFICES ASSUME NEW i \in 1 .. Len(free'), free'[i] = h PROVE FALSE
      BY <2>3
    <3>2. free[i + 1] = free[1] /\ i + 1 \in 1 .. Len(free) /\ i + 1 # 1 /\ 1 \in 1 .. Len(free)
      BY <2>1, <3>1
    <3>3. QED
      BY <3>2 DEF BuffersOK
  <2>14. \A k, l \in V : b2[k] = b2[l] => k = l
    <3>1. \A k, l \in U : bf[k] = bf[l] => k = l
      BY DEF BuffersOK
    <3>2. QED
      BY <2>3, <2>10, <2>2, <3>1
  <2>15. \A u \in In(Fresh)' : tk[u] \notin V /\ (th'[u].res = "ok" => th'[u].block = tk[u])
    BY <1>14, <1>15, <2>2 DEF BuffersOK
  <2>16. \A u \in In(Coded)' : th'[u].buf = IF tk[u] \in V THEN b2[tk[u]] ELSE None
    <3>1. th'[t].buf = IF tk[t] \in V THEN b2[tk[t]] ELSE None
      BY <1>18, <2>3, <2>2
    <3>2. \A u \in In(Coded) : th'[u].buf = IF tk[u] \in V THEN b2[tk[u]] ELSE None
      <4>1. SUFFICES ASSUME NEW u \in In(Coded) PROVE th'[u].buf = IF tk[u] \in V THEN b2[tk[u]] ELSE None
        OBVIOUS
      <4>2. th'[u].buf = th[u].buf /\ tk[u] # c
        BY <1>14, <1>15
      <4>3. th[u].buf = IF tk[u] \in U THEN bf[tk[u]] ELSE None
        BY DEF BuffersOK
      <4>4. QED
        BY <2>3, <2>2, <4>2, <4>3
    <3>3. QED
      BY <1>14, <3>1, <3>2
  <2>17. \A k \in Ready(W, T)' : p'.blocks[Place(k)].buf = IF k \in V THEN b2[k] ELSE None
    <3>1. SUFFICES ASSUME NEW k \in Ready(W, T) PROVE p'.blocks[Place(k)].buf = IF k \in V THEN b2[k] ELSE None
      BY <1>12
    <3>2. p'.blocks[Place(k)].buf = IF k \in U THEN bf[k] ELSE None
      BY <1>13 DEF BuffersOK
    <3>3. k # c
      BY <1>7
    <3>4. QED
      BY <2>3, <2>2, <3>2, <3>3
  <2>18. p'.mtRes = "ok" => (\A u \in In(Coded)' : tk[u] \in V) /\ Ready(W, T)' \subseteq V
    BY <1>11, <1>12, <1>14, <2>2 DEF BuffersOK, Worse
  <2>19. \A k \in V : bufs'[b2[k]] = k /\ \A i \in 1 .. Len(free') : free'[i] # b2[k]
    BY <2>11, <2>12, <2>13, <2>2
  <2>20. BuffersOK(T, W, tk, V, b2)'
    <3>1. /\ (V \subseteq W .. T - 1 /\ Len(free) + Cardinality(V) = NumBlocksMax)'
          /\ (\A i, j \in 1 .. Len(free) : free[i] = free[j] => i = j)'
          /\ (\A k \in V : bufs[b2[k]] = k /\ \A i \in 1 .. Len(free) : free[i] # b2[k])'
          /\ (\A k, l \in V : b2[k] = b2[l] => k = l)'
      BY <2>8, <2>9, <2>14, <2>19
    <3>2. /\ (\A u \in In(Fresh) : tk[u] \notin V /\ (th[u].res = "ok" => th[u].block = tk[u]))'
          /\ (\A u \in In(Coded) : th[u].buf = IF tk[u] \in V THEN b2[tk[u]] ELSE None)'
          /\ (\A k \in Ready(W, T) : p.blocks[Place(k)].buf = IF k \in V THEN b2[k] ELSE None)'
      BY <2>15, <2>16, <2>17
    <3>3. /\ (\A u \in In({"publish"}) : p.blocks[Place(tk[u])] = BlockOf(th[u]))'
          /\ (p.mtRes = "ok" => (\A u \in In(Coded) : tk[u] \in V) /\ Ready(W, T) \subseteq V)'
      BY <1>16, <2>18
    <3>4. QED
      BY <3>1, <3>2, <3>3, Zenon DEF BuffersOK
  <2>21. QED
    BY <2>20
<1>19. QED
  BY <1>11, <1>17, <1>18

\* What is ready when the next block is due was ready before.
LEMMA AdvanceReady ==
  ASSUME CoderTypes, NEW t \in Threads, Advance(t), NEW T \in Nat, NEW W \in Nat,
         NEW tk \in [Threads -> Nat], RingOK(T, W, tk), NEW k \in Ready(W + 1, T)'
  PROVE  k \in Ready(W, T) /\ k # W /\ k \in W + 1 .. T - 1
<1>1. th[t].pc = "advance"
  BY DEF Advance
<1>2. t \in In(Writing)
  BY <1>1 DEF In, Step, Writing
<1>3. CoderTypes /\ RingOK(T, W, tk) /\ t \in In(Writing)
  BY <1>2
<1>4. th[t].wi = Place(W) /\ W < T
  BY <1>3, Writer
<1>5. In(Writing) = {t}
  BY <1>3, Writer
<1>6. th[t].wi \in Blocks /\ NextDue(t) = Place(W + 1)
  BY <1>4, PlaceNext DEF NextDue
<1>7. /\ Others(t)
      /\ \/ /\ Place(W + 1) \in p.ready /\ p'.ready = p.ready \ {Place(W + 1)} /\ th'[t].pc = "more"
         \/ /\ Place(W + 1) \notin p.ready /\ p'.ready = p.ready /\ th'[t].pc = "done"
  BY <1>6, AdvanceFacts
<1>8. ASSUME k \in W + 1 .. T - 1, Place(k) \in p.ready PROVE k \in Ready(W, T) /\ k # W
  BY <1>8 DEF Ready
<1>9. CASE k \in W + 1 .. T - 1 /\ Place(k) \in p'.ready
  BY <1>7, <1>8, <1>9
<1>10. CASE ~(k \in W + 1 .. T - 1 /\ Place(k) \in p'.ready)
  <2>1. k = W + 1 /\ In({"more"})' # {}
    BY <1>10 DEF Ready
  <2>2. PICK u \in Threads : th'[u].pc = "more"
    BY <2>1 DEF In, Step
  <2>3. u = t
    <3>1. SUFFICES ASSUME u # t PROVE FALSE
      OBVIOUS
    <3>2. u \in In(Writing)
      BY <1>7, <2>2, <3>1 DEF In, Step, Others, Writing
    <3>3. QED
      BY <1>5, <3>1, <3>2
  <2>4. Place(W + 1) \in p.ready
    BY <1>7, <2>2, <2>3
  <2>5. PICK j \in W .. T - 1 : Place(W + 1) = Place(j)
    BY <2>4 DEF RingOK
  <2>6. j # W
    BY <2>4, <2>5 DEF RingOK
  <2>7. W + 1 \in W + 1 .. T - 1
    BY <2>5, <2>6
  <2>8. QED
    BY <1>8, <2>1, <2>4, <2>7
<1>11. QED
  BY <1>9, <1>10

LEMMA AdvanceBuffers ==
  ASSUME CoderTypes, NEW t \in Threads, Advance(t), NEW T \in Nat, NEW W \in Nat,
         NEW tk \in [Threads -> Nat], NEW tk2, RingOK(T, W, tk),
         \A u \in Threads \ {t} : tk2[u] = tk[u], tk2[t] = W + 1,
         NEW U \in SUBSET Nat, NEW bf \in [Nat -> Blocks], BuffersOK(T, W, tk, U, bf)
  PROVE  BuffersOK(T, W + 1, tk2, U \ {W}, bf)'
<1>1. th[t].pc = "advance" /\ bufs' = bufs
  BY DEF Advance
<1>2. t \in In(Writing) /\ t \in In(Coded) /\ t \in In(Holding) /\ t \notin In(Fresh \cup {"publish"})
  BY <1>1 DEF In, Step, Writing, Coded, Holding, Fresh
<1>3. CoderTypes /\ RingOK(T, W, tk) /\ t \in In(Writing)
  BY <1>2
<1>4. tk[t] = W /\ th[t].wi = Place(W) /\ W < T
  BY <1>3, Writer
<1>5. th[t].wi \in Blocks
  BY <1>4, PlaceNext
<1>6. /\ Others(t) /\ p'.blocks = p.blocks /\ p'.mtRes = p.mtRes /\ th'[t].pc \in {"more", "done"}
      /\ free' = IF th[t].buf = None THEN free ELSE <<th[t].buf>> \o free
  BY <1>5, AdvanceFacts
<1>7. th[t].buf = IF W \in U THEN bf[W] ELSE None
  BY <1>2, <1>4 DEF BuffersOK
<1>8. /\ In(Fresh)' = In(Fresh) /\ t \notin In(Fresh) /\ In({"publish"})' = In({"publish"})
      /\ In(Coded)' = In(Coded) \ {t} /\ In(Fresh) \subseteq In(Holding) /\ In(Coded) \subseteq In(Holding)
      /\ t \notin In({"publish"}) /\ In({"publish"}) \subseteq In(Holding)
  BY <1>1, <1>6 DEF In, Step, Others, Fresh, Coded, Holding
<1>9. \A u \in In(Holding) \ {t} : u \in Threads \ {t} /\ th'[u] = th[u] /\ tk2[u] = tk[u] /\ tk[u] # W
  BY <1>2, <1>4, <1>6 DEF RingOK, In, Others
<1>10. /\ \A k \in U : bufs[bf[k]] = k /\ \A i \in 1 .. Len(free) : free[i] # bf[k]
       /\ \A k, l \in U : bf[k] = bf[l] => k = l
       /\ \A i, j \in 1 .. Len(free) : free[i] = free[j] => i = j
  BY DEF BuffersOK
<1>11. free \in Seq(Blocks) /\ Len(free) \in Nat /\ U \subseteq W .. T - 1
       /\ Len(free) + Cardinality(U) = NumBlocksMax
  BY DEF BuffersOK, CoderTypes
<1>12. U \ {W} \subseteq W + 1 .. T - 1
  BY <1>11
<1>13. IsFiniteSet(U) /\ Cardinality(U) \in Nat
  <2>1. IsFiniteSet(W .. T - 1)
    BY <1>4, FewBlocks
  <2>2. IsFiniteSet(U)
    BY <1>11, <2>1, FS_Subset
  <2>3. QED
    BY <2>2, FS_CardinalityType
<1>14. /\ Len(free') + Cardinality(U \ {W}) = NumBlocksMax
       /\ \A i, j \in 1 .. Len(free') : free'[i] = free'[j] => i = j
       /\ \A k \in U \ {W} : \A i \in 1 .. Len(free') : free'[i] # bf[k]
  <2>1. CASE W \notin U
    <3>1. free' = free /\ U \ {W} = U
      BY <1>6, <1>7, <2>1
    <3>2. QED
      BY <1>10, <1>11, <3>1
  <2>2. CASE W \in U
    <3>1. bf[W] \in Blocks /\ bf[W] # None
      BY Sizes DEF Blocks, None
    <3>2. free' = <<bf[W]>> \o free
      BY <1>6, <1>7, <2>2, <3>1
    <3>3. /\ Len(free') = Len(free) + 1 /\ free'[1] = bf[W]
          /\ \A i \in 1 .. Len(free') : i # 1 => free'[i] = free[i - 1] /\ i - 1 \in 1 .. Len(free)
      BY <1>11, <3>1, <3>2, GiveBack
    <3>4. Cardinality(U \ {W}) = Cardinality(U) - 1
      BY <1>13, <2>2, FS_RemoveElement
    <3>5. Len(free') + Cardinality(U \ {W}) = NumBlocksMax
      BY <1>11, <1>13, <3>3, <3>4
    <3>6. \A i \in 1 .. Len(free') : i # 1 => free'[i] # bf[W]
      BY <1>10, <2>2, <3>3
    <3>7. ASSUME NEW i \in 1 .. Len(free'), NEW j \in 1 .. Len(free'), free'[i] = free'[j] PROVE i = j
      <4>1. CASE i = 1
        BY <3>3, <3>6, <3>7, <4>1
      <4>2. CASE j = 1
        BY <3>3, <3>6, <3>7, <4>2
      <4>3. CASE i # 1 /\ j # 1
        <5>1. free[i - 1] = free[j - 1] /\ i - 1 \in 1 .. Len(free) /\ j - 1 \in 1 .. Len(free)
          BY <3>3, <3>7, <4>3
        <5>2. i - 1 = j - 1
          BY <1>10, <5>1
        <5>3. QED
          BY <5>2
      <4>4. QED
        BY <4>1, <4>2, <4>3
    <3>8. ASSUME NEW k \in U \ {W}, NEW i \in 1 .. Len(free') PROVE free'[i] # bf[k]
      <4>1. CASE i = 1
        BY <1>10, <2>2, <3>3, <4>1
      <4>2. CASE i # 1
        BY <1>10, <3>3, <4>2
      <4>3. QED
        BY <4>1, <4>2
    <3>9. QED
      BY <3>5, <3>7, <3>8
  <2>3. QED
    BY <2>1, <2>2
<1>15. \A k \in U \ {W} : bufs'[bf[k]] = k
  BY <1>1, <1>10
<1>16. \A u \in In(Fresh)' : tk2[u] \notin U \ {W} /\ (th'[u].res = "ok" => th'[u].block = tk2[u])
  BY <1>8, <1>9 DEF BuffersOK
<1>17. \A u \in In(Coded)' : th'[u].buf = IF tk2[u] \in U \ {W} THEN bf[tk2[u]] ELSE None
  <2>1. SUFFICES ASSUME NEW u \in In(Coded) \ {t}
                 PROVE  th'[u].buf = IF tk2[u] \in U \ {W} THEN bf[tk2[u]] ELSE None
    BY <1>8
  <2>2. th[u].buf = IF tk[u] \in U THEN bf[tk[u]] ELSE None
    BY DEF BuffersOK
  <2>3. th'[u] = th[u] /\ tk2[u] = tk[u] /\ tk[u] # W
    BY <1>8, <1>9
  <2>4. QED
    BY <2>2, <2>3
<1>18. \A k \in Ready(W + 1, T)' : k \in Ready(W, T) /\ k # W
  BY <1>3, AdvanceReady
<1>19. \A k \in Ready(W + 1, T)' : p'.blocks[Place(k)].buf = IF k \in U \ {W} THEN bf[k] ELSE None
  BY <1>6, <1>18 DEF BuffersOK
<1>20. \A u \in In({"publish"})' : p'.blocks[Place(tk2[u])] = BlockOf(th'[u])
  <2>1. SUFFICES ASSUME NEW u \in In({"publish"}) PROVE p'.blocks[Place(tk2[u])] = BlockOf(th'[u])
    BY <1>8
  <2>2. p.blocks[Place(tk[u])] = BlockOf(th[u])
    BY DEF BuffersOK
  <2>3. th'[u] = th[u] /\ tk2[u] = tk[u]
    BY <1>8, <1>9
  <2>4. QED
    BY <1>6, <2>2, <2>3
<1>21. p'.mtRes = "ok" => (\A u \in In(Coded)' : tk2[u] \in U \ {W}) /\ Ready(W + 1, T)' \subseteq U \ {W}
  <2>1. SUFFICES ASSUME p.mtRes = "ok"
                 PROVE  (\A u \in In(Coded)' : tk2[u] \in U \ {W}) /\ Ready(W + 1, T)' \subseteq U \ {W}
    BY <1>6
  <2>2. (\A u \in In(Coded) : tk[u] \in U) /\ Ready(W, T) \subseteq U
    BY <2>1 DEF BuffersOK
  <2>3. \A u \in In(Coded)' : tk2[u] \in U \ {W}
    BY <1>8, <1>9, <2>2
  <2>4. QED
    BY <1>18, <2>2, <2>3
<1>22. /\ (U \ {W} \subseteq W + 1 .. T - 1 /\ Len(free) + Cardinality(U \ {W}) = NumBlocksMax)'
       /\ (\A i, j \in 1 .. Len(free) : free[i] = free[j] => i = j)'
       /\ (\A k \in U \ {W} : bufs[bf[k]] = k /\ \A i \in 1 .. Len(free) : free[i] # bf[k])'
       /\ (\A k, l \in U \ {W} : bf[k] = bf[l] => k = l)'
  BY <1>10, <1>12, <1>14, <1>15
<1>23. QED
  BY <1>16, <1>17, <1>19, <1>20, <1>21, <1>22, Zenon DEF BuffersOK

-----------------------------------------------------------------------------
(* The steps, one by one.                                                  *)

Going(T, W, tk, U, bf) == CoderTypes /\ TeamOK /\ UnderWay(T, W, tk, U, bf)

\* Steps of a thread that has no block and does not read
LEMMA Bystander ==
  ASSUME NEW t \in Threads, Others(t), th[t].pc \in {"start", "read", "leave", "count"},
         th'[t].pc \in {"start", "read", "leave", "count"}, Pool,
         UNCHANGED <<input, readEvent, semaphore, free, bufs, written>>,
         p'.stopReading = p.stopReading, p'.readProcessed = p.readProcessed,
         p'.readRes = p.readRes, p'.writeRes = p.writeRes, p'.mtRes = p.mtRes,
         th'[t].res # "ok" => p.mtRes # "ok" /\ th'[t].pc \notin {"start", "count"},
         th'[t].pc = "leave" \/ p'.numFinished # p.numFinished => p.stopReading \/ p.mtRes # "ok",
         NEW T \in Nat, NEW W \in Nat, NEW tk, NEW U, NEW bf, UnderWay(T, W, tk, U, bf)
  PROVE  UnderWay(T, W, tk, U, bf)'
<1>1. /\ TurnOK(T, tk) /\ RingOK(T, W, tk) /\ BuffersOK(T, W, tk, U, bf)
      /\ ErrorsOK(T, W) /\ OutputOK(W)
  BY DEF UnderWay
<1>2. /\ Worse /\ SamePlaces /\ p'.blocks = p.blocks /\ p'.ready = p.ready
  BY DEF Worse, Pool, SamePlaces
<1>3. /\ th[t].pc \notin Turn /\ th'[t].pc \notin Turn
      /\ th[t].pc \notin Holding /\ th'[t].pc \notin Holding
      /\ th[t].pc \notin Writing /\ th'[t].pc \notin Writing
      /\ th[t].pc \notin Leaving /\ th'[t].pc \notin Leaving
      /\ th'[t].pc \notin Fresh /\ th'[t].pc \notin Coded /\ th'[t].pc \notin Fresh \cup {"publish"}
      /\ th[t].pc # "advance" /\ th'[t].pc # "advance" /\ th'[t].pc # "publish"
      /\ th[t].pc # "more" /\ th'[t].pc # "more"
      /\ th'[t].pc \notin {"code", "publish", "write", "advance", "done"}
  BY DEF Turn, Holding, Writing, Leaving, Fresh, Coded
<1>4. Ready(W, T)' = Ready(W, T)
  BY <1>2, <1>3, ReadySame
<1>5. TurnOK(T, tk)'
  BY <1>1, <1>2, <1>3, TurnFrame
<1>6. RingOK(T, W, tk)'
  BY <1>1, <1>2, <1>3, RingFrame
<1>7. \A k \in Ready(W, T)' : /\ p.blocks[Place(k)].buf = IF k \in U THEN bf[k] ELSE None
                              /\ p'.mtRes = "ok" => k \in U
  BY <1>1, <1>4 DEF BuffersOK
<1>8. BuffersOK(T, W, tk, U, bf)'
  <2>1. /\ BuffersOK(T, W, tk, U, bf) /\ UNCHANGED <<free, bufs>> /\ Worse /\ p'.blocks = p.blocks
        /\ T <= T /\ (\A u \in Threads \ {t} : tk[u] = tk[u])
        /\ th'[t].pc \notin Fresh /\ th'[t].pc \notin Coded /\ th'[t].pc # "publish"
    BY <1>1, <1>2, <1>3
  <2>2. QED
    BY <2>1, <1>7, BuffersFrame
<1>9. p'.readRes # "ok" \/ p'.writeRes # "ok" => p'.mtRes # "ok"
  BY <1>1 DEF ErrorsOK
<1>10. ErrorsOK(T, W)'
  BY <1>1, <1>2, <1>3, <1>4, <1>9, ErrorsFrame
<1>11. OutputOK(W)'
  BY <1>1, <1>2, <1>3, OutputFrame
<1>12. QED
  BY <1>5, <1>6, <1>8, <1>10, <1>11, Zenon DEF UnderWay

LEMMA StartStep ==
  ASSUME NEW T \in Nat, NEW W \in Nat, NEW tk, NEW U, NEW bf, Going(T, W, tk, U, bf),
         NEW t \in Threads, Start(t)
  PROVE  Going(T, W, tk, U, bf)'
<1>1. CoderTypes /\ TeamOK /\ UnderWay(T, W, tk, U, bf)
  BY DEF Going
<1>2. CoderTypes' /\ Others(t) /\ th'[t].pc = "read" /\ th'[t].res = th[t].res
  BY <1>1, StartFacts
<1>3. TeamOK'
  BY <1>1, StartTeam
<1>4. /\ th[t].pc = "start" /\ p' = p
      /\ UNCHANGED <<input, readEvent, semaphore, free, bufs, written>>
  BY DEF Start
<1>5. Pool
  BY <1>4 DEF Pool, SamePlaces
<1>6. th[t].res # "ok" => p.mtRes # "ok"
  BY <1>1 DEF UnderWay, ErrorsOK
<1>7. UnderWay(T, W, tk, U, bf)'
  BY <1>1, <1>2, <1>4, <1>5, <1>6, Bystander
<1>8. QED
  BY <1>2, <1>3, <1>7 DEF Going

LEMMA StoppedStep ==
  ASSUME NEW T \in Nat, NEW W \in Nat, NEW tk, NEW U, NEW bf, Going(T, W, tk, U, bf),
         NEW t \in Threads, Stopped(t)
  PROVE  Going(T, W, tk, U, bf)'
<1>1. CoderTypes /\ TeamOK /\ UnderWay(T, W, tk, U, bf) /\ TurnOK(T, tk)
  BY DEF Going, UnderWay
<1>2. CoderTypes' /\ Others(t) /\ th'[t].pc = "leave" /\ th'[t].res = th[t].res
  BY <1>1, StoppedFacts
<1>3. /\ th[t].pc = "read" /\ p' = p /\ p.stopReading /\ readEvent
      /\ UNCHANGED <<input, startEvent, finishedEvent, readEvent, semaphore, free, bufs, written>>
  BY DEF Stopped, events
<1>4. In({"spawned"}) = {}
  BY <1>1, <1>3 DEF TurnOK, In, Turn
<1>5. TeamOK'
  BY <1>1, <1>2, <1>3, <1>4, TeamFrame
<1>6. Pool
  BY <1>3 DEF Pool, SamePlaces
<1>7. th[t].res # "ok" => p.mtRes # "ok"
  BY <1>1 DEF UnderWay, ErrorsOK
<1>8. UnderWay(T, W, tk, U, bf)'
  BY <1>1, <1>2, <1>3, <1>6, <1>7, Bystander
<1>9. QED
  BY <1>2, <1>5, <1>8 DEF Going

LEMMA LeaveStep ==
  ASSUME NEW T \in Nat, NEW W \in Nat, NEW tk, NEW U, NEW bf, Going(T, W, tk, U, bf),
         NEW t \in Threads, Leave(t)
  PROVE  Going(T, W, tk, U, bf)'
<1>1. CoderTypes /\ TeamOK /\ UnderWay(T, W, tk, U, bf)
  BY DEF Going
<1>2. /\ CoderTypes' /\ Others(t) /\ th[t].pc = "leave" /\ th'[t].pc = "count" /\ th'[t].res = "ok"
      /\ Pool /\ p'.mtRes = p.mtRes /\ p'.writeRes = p.writeRes
      /\ p'.stopReading = p.stopReading /\ p'.readRes = p.readRes
      /\ p'.readProcessed = p.readProcessed
  BY <1>1, LeaveFacts
<1>3. TeamOK'
  BY <1>1, LeaveTeam
<1>4. UNCHANGED <<input, readEvent, semaphore, free, bufs, written>>
  BY DEF Leave, events
<1>5. p.stopReading \/ p.mtRes # "ok"
  <2>1. In({"leave"}) # {}
    BY <1>2 DEF In, Step
  <2>2. QED
    BY <1>1, <2>1 DEF UnderWay, ErrorsOK
<1>6. UnderWay(T, W, tk, U, bf)'
  BY <1>1, <1>2, <1>4, <1>5, Bystander
<1>7. QED
  BY <1>2, <1>3, <1>6 DEF Going

LEMMA CountStep ==
  ASSUME NEW T \in Nat, NEW W \in Nat, NEW tk, NEW U, NEW bf, Going(T, W, tk, U, bf),
         NEW t \in Threads, Count(t)
  PROVE  Going(T, W, tk, U, bf)'
<1>1. CoderTypes /\ TeamOK /\ UnderWay(T, W, tk, U, bf)
  BY DEF Going
<1>2. CoderTypes' /\ Others(t) /\ th[t].pc = "count" /\ th'[t].pc = "start" /\ th'[t].res = "ok" /\ p' = p
  BY <1>1, CountFacts
<1>3. TeamOK'
  BY <1>1, CountTeam
<1>4. UNCHANGED <<input, readEvent, semaphore, free, bufs, written>>
  BY DEF Count
<1>5. Pool
  BY <1>2 DEF Pool, SamePlaces
<1>6. UnderWay(T, W, tk, U, bf)'
  BY <1>1, <1>2, <1>4, <1>5, Bystander
<1>7. QED
  BY <1>2, <1>3, <1>6 DEF Going

LEMMA ReadStep ==
  ASSUME NEW T \in Nat, NEW W \in Nat, NEW tk, NEW U, NEW bf, Going(T, W, tk, U, bf),
         NEW t \in Threads, Read(t)
  PROVE  Going(T, W, tk, U, bf)'
<1>1. /\ CoderTypes /\ TeamOK /\ TurnOK(T, tk) /\ RingOK(T, W, tk) /\ BuffersOK(T, W, tk, U, bf)
      /\ ErrorsOK(T, W) /\ OutputOK(W)
  BY DEF Going, UnderWay
<1>2. p.readProcessed <= input.len
  BY <1>1 DEF TurnOK
<1>3. /\ CoderTypes' /\ Others(t) /\ th'[t].pc = "take" /\ Pool /\ Worse
      /\ p'.stopReading = p.stopReading /\ p'.writeRes = p.writeRes
      /\ p'.numStarted = p.numStarted /\ p'.numFinished = p.numFinished
      /\ (p'.mtRes # "ok" \/ (th'[t].res = "ok" /\ p'.readRes = p.readRes /\ p'.mtRes = p.mtRes))
  BY <1>1, <1>2, ReadFacts
<1>4. /\ th[t].pc = "read" /\ readEvent
      /\ UNCHANGED <<startEvent, finishedEvent, semaphore, free, bufs, written>>
  BY DEF Read
<1>5. SamePlaces /\ p'.blocks = p.blocks /\ p'.ready = p.ready
  BY <1>3 DEF Pool, SamePlaces
<1>6. /\ th[t].pc \notin Holding /\ th'[t].pc \notin Holding
      /\ th[t].pc \notin Writing /\ th'[t].pc \notin Writing
      /\ th[t].pc \notin Leaving /\ th'[t].pc \notin Leaving
      /\ th'[t].pc \notin Fresh /\ th'[t].pc \notin Coded /\ th'[t].pc \notin Fresh \cup {"publish"}
      /\ th[t].pc # "advance" /\ th'[t].pc # "advance" /\ th'[t].pc # "publish"
      /\ th[t].pc # "more" /\ th'[t].pc # "more"
      /\ th'[t].pc \notin {"code", "publish", "write", "advance", "done"}
      /\ th[t].pc \notin {"start", "count"} /\ th'[t].pc \notin {"start", "count"}
      /\ th[t].pc # "spawned" /\ th'[t].pc # "spawned" /\ th'[t].pc # "leave"
  BY <1>3, <1>4 DEF Holding, Writing, Leaving, Fresh, Coded
<1>7. In({"spawned"}) = {}
  BY <1>1, <1>4 DEF TurnOK, In, Turn
<1>8. TeamOK'
  BY <1>1, <1>3, <1>4, <1>6, <1>7, TeamFrame
<1>9. TurnOK(T, tk)'
  BY <1>1, ReadTurn
<1>10. RingOK(T, W, tk)'
  BY <1>1, <1>3, <1>4, <1>5, <1>6, RingFrame
<1>11. Ready(W, T)' = Ready(W, T)
  BY <1>3, <1>5, <1>6, ReadySame
<1>12. \A k \in Ready(W, T)' : /\ p.blocks[Place(k)].buf = IF k \in U THEN bf[k] ELSE None
                               /\ p'.mtRes = "ok" => k \in U
  BY <1>1, <1>3, <1>11 DEF BuffersOK, Worse
<1>13. BuffersOK(T, W, tk, U, bf)'
  <2>1. /\ BuffersOK(T, W, tk, U, bf) /\ UNCHANGED <<free, bufs>> /\ Worse /\ p'.blocks = p.blocks
        /\ T <= T /\ (\A u \in Threads \ {t} : tk[u] = tk[u])
        /\ th'[t].pc \notin Fresh /\ th'[t].pc \notin Coded /\ th'[t].pc # "publish"
    BY <1>1, <1>3, <1>4, <1>5, <1>6
  <2>2. QED
    BY <2>1, <1>3, <1>12, BuffersFrame
<1>14. th'[t].res # "ok" => p'.mtRes # "ok"
  BY <1>3
<1>15. p'.readRes # "ok" \/ p'.writeRes # "ok" => p'.mtRes # "ok"
  BY <1>1, <1>3 DEF ErrorsOK, Worse
<1>16. ErrorsOK(T, W)'
  BY <1>1, <1>3, <1>5, <1>6, <1>11, <1>14, <1>15, ErrorsFrame
<1>17. OutputOK(W)'
  BY <1>1, <1>3, <1>4, <1>6, OutputFrame
<1>18. UnderWay(T, W, tk, U, bf)'
  BY <1>9, <1>10, <1>13, <1>16, <1>17, Zenon DEF UnderWay
<1>19. QED
  BY <1>3, <1>8, <1>18 DEF Going

LEMMA TakeStep ==
  ASSUME NEW T \in Nat, NEW W \in Nat, NEW tk \in [Threads -> Nat], NEW tk2, NEW U, NEW bf,
         Going(T, W, tk, U, bf), NEW t \in Threads, Take(t),
         \A u \in Threads \ {t} : tk2[u] = tk[u], tk2[t] = T
  PROVE  Going(T + 1, W, tk2, U, bf)'
<1>1. /\ CoderTypes /\ TeamOK /\ TurnOK(T, tk) /\ RingOK(T, W, tk) /\ BuffersOK(T, W, tk, U, bf)
      /\ ErrorsOK(T, W) /\ OutputOK(W)
  BY DEF Going, UnderWay
<1>2. /\ CoderTypes' /\ Others(t) /\ th'[t].pc = "spawn"
      /\ th'[t].block = th[t].block
      /\ th'[t].res = IF th[t].res = "ok" THEN p.mtRes ELSE th[t].res
      /\ p'.stopReading = p.stopReading /\ p'.readRes = p.readRes /\ p'.writeRes = p.writeRes
      /\ p'.mtRes = p.mtRes
      /\ p'.ready = p.ready /\ p'.blocks = p.blocks
      /\ p'.numStarted = p.numStarted /\ p'.numFinished = p.numFinished
  BY <1>1, TakeFacts
<1>3. /\ th[t].pc = "take" /\ UNCHANGED <<startEvent, finishedEvent, free, bufs, written>>
  BY DEF Take
<1>4. /\ th'[t].pc \notin Coded /\ th'[t].pc # "publish"
      /\ th[t].pc # "advance" /\ th'[t].pc # "advance"
      /\ th'[t].pc \notin {"code", "publish", "write", "advance", "done"}
      /\ th[t].pc \notin {"start", "count"} /\ th'[t].pc \notin {"start", "count"}
      /\ th[t].pc # "spawned" /\ th'[t].pc # "spawned" /\ th'[t].pc # "leave"
      /\ th[t].pc # "read" /\ th[t].pc # "more" /\ th'[t].pc # "more"
      /\ t \in In({"take"})
  BY <1>2, <1>3 DEF Coded, In, Step
<1>5. TeamOK'
  BY <1>1, <1>2, <1>3, <1>4, TeamFrame
<1>6. th[t].res # "ok" => p.mtRes # "ok"
  BY <1>1 DEF ErrorsOK
<1>7. Worse
  BY <1>2 DEF Worse
<1>8. TurnOK(T + 1, tk2)'
  BY <1>1, <1>6, TakeTurn
<1>9. RingOK(T + 1, W, tk2)'
  BY <1>1, TakeRing
<1>10. U \subseteq W .. T - 1 /\ T \notin U /\ T + 1 \in Nat /\ T <= T + 1
  BY <1>1 DEF BuffersOK
<1>11. th'[t].res = "ok" => th'[t].block = tk2[t]
  BY <1>1, <1>2, <1>4 DEF TurnOK
<1>12. Ready(W, T + 1)' \subseteq Ready(W, T)
  <2>1. In({"more"})' = In({"more"})
    BY <1>2, <1>4 DEF In, Step, Others
  <2>2. W <= T
    BY <1>1 DEF RingOK
  <2>3. t \in In(Holding)'
    BY <1>2 DEF In, Step, Holding, Fresh
  <2>4. T \in W .. T + 1 - 1
    BY <2>2
  <2>5. Place(T) \notin p.ready
    BY <1>2, <1>9, <2>3, <2>4 DEF RingOK
  <2>6. Ready(W, T + 1)' = {k \in W .. T : Place(k) \in p.ready} \cup (IF In({"more"}) = {} THEN {} ELSE {W})
    BY <1>2, <2>1 DEF Ready
  <2>7. {k \in W .. T : Place(k) \in p.ready} \subseteq {k \in W .. T - 1 : Place(k) \in p.ready}
    BY <2>5
  <2>8. QED
    BY <2>6, <2>7 DEF Ready
<1>13. \A k \in Ready(W, T + 1)' : /\ p.blocks[Place(k)].buf = IF k \in U THEN bf[k] ELSE None
                                   /\ p'.mtRes = "ok" => k \in U
  BY <1>1, <1>2, <1>12 DEF BuffersOK
<1>14. BuffersOK(T + 1, W, tk2, U, bf)'
  <2>1. /\ BuffersOK(T, W, tk, U, bf) /\ UNCHANGED <<free, bufs>> /\ Worse /\ p'.blocks = p.blocks
        /\ T <= T + 1 /\ T + 1 \in Nat /\ (\A u \in Threads \ {t} : tk2[u] = tk[u])
        /\ tk2[t] \notin U /\ (th'[t].res = "ok" => th'[t].block = tk2[t])
        /\ th'[t].pc \notin Coded /\ th'[t].pc # "publish"
    BY <1>1, <1>2, <1>3, <1>4, <1>7, <1>10, <1>11
  <2>2. QED
    BY <2>1, <1>2, <1>13, BuffersFrame
<1>15. th'[t].res # "ok" => p'.mtRes # "ok"
  BY <1>2, <1>6
<1>16. p'.readRes # "ok" \/ p'.writeRes # "ok" => p'.mtRes # "ok"
  BY <1>1, <1>2 DEF ErrorsOK
<1>17. \A k \in Ready(W, T + 1)' : k \in Ready(W, T) /\ p'.blocks[Place(k)] = p.blocks[Place(k)]
  BY <1>2, <1>12
<1>18. ErrorsOK(T + 1, W)'
  BY <1>1, <1>2, <1>4, <1>7, <1>10, <1>15, <1>16, <1>17, ErrorsFrame
<1>19. OutputOK(W)'
  BY <1>1, <1>2, <1>3, <1>4, <1>7, OutputFrame
<1>20. UnderWay(T + 1, W, tk2, U, bf)'
  BY <1>8, <1>9, <1>14, <1>18, <1>19, Zenon DEF UnderWay
<1>21. QED
  BY <1>2, <1>5, <1>20 DEF Going

\* A block without a buffer goes on to be coded.
LEMMA FreshStep ==
  ASSUME NEW t \in Threads, Others(t), th[t].pc \in Fresh, th'[t].pc \in Fresh, Pool, Worse,
         UNCHANGED <<semaphore, free, bufs, written>>, Keeps(t),
         th'[t].res = "ok" => th[t].res = "ok", th'[t].res # "ok" => p'.mtRes # "ok",
         p.stopReading => p'.stopReading, p'.readRes = p.readRes, p'.writeRes = p.writeRes,
         p'.numFinished = p.numFinished, th'[t].pc = "code" /\ th'[t].finished => p'.stopReading,
         NEW T \in Nat, NEW W \in Nat, NEW tk, NEW U, NEW bf, TurnOK(T, tk)', RingOK(T, W, tk),
         BuffersOK(T, W, tk, U, bf), ErrorsOK(T, W), OutputOK(W)
  PROVE  UnderWay(T, W, tk, U, bf)'
<1>1. SamePlaces /\ p'.blocks = p.blocks /\ p'.ready = p.ready
  BY DEF Pool, SamePlaces
<1>2. /\ th[t].pc \in Holding /\ th'[t].pc \in Holding
      /\ th[t].pc \notin Writing /\ th'[t].pc \notin Writing
      /\ th[t].pc \notin Leaving /\ th'[t].pc \notin Leaving
      /\ th'[t].pc \notin Coded /\ th'[t].pc # "leave" /\ th'[t].pc \notin {"start", "count"}
      /\ th[t].pc # "advance" /\ th'[t].pc # "advance" /\ th'[t].pc # "publish"
      /\ th[t].pc # "more" /\ th'[t].pc # "more"
      /\ (th'[t].pc \in {"code", "publish", "write", "advance", "done"} => th'[t].pc = "code")
  BY DEF Holding, Writing, Leaving, Fresh, Coded
<1>3. RingOK(T, W, tk)'
  BY <1>1, <1>2, RingFrame DEF Keeps
<1>4. Ready(W, T)' = Ready(W, T)
  BY <1>1, <1>2, ReadySame
<1>5. \A k \in Ready(W, T)' : /\ p.blocks[Place(k)].buf = IF k \in U THEN bf[k] ELSE None
                              /\ p'.mtRes = "ok" => k \in U
  BY <1>4 DEF BuffersOK, Worse
<1>6. tk[t] \notin U /\ (th'[t].res = "ok" => th'[t].block = tk[t])
  BY DEF BuffersOK, In, Step, Keeps
<1>7. BuffersOK(T, W, tk, U, bf)'
  <2>1. /\ BuffersOK(T, W, tk, U, bf) /\ UNCHANGED <<free, bufs>> /\ Worse /\ p'.blocks = p.blocks
        /\ T <= T /\ (\A u \in Threads \ {t} : tk[u] = tk[u])
        /\ tk[t] \notin U /\ (th'[t].res = "ok" => th'[t].block = tk[t])
        /\ th'[t].pc \notin Coded /\ th'[t].pc # "publish"
    BY <1>1, <1>2, <1>6
  <2>2. QED
    BY <2>1, <1>5, BuffersFrame
<1>8. p'.readRes # "ok" \/ p'.writeRes # "ok" => p'.mtRes # "ok"
  BY DEF ErrorsOK, Worse
<1>9. ErrorsOK(T, W)'
  BY <1>1, <1>2, <1>4, <1>8, ErrorsFrame
<1>10. OutputOK(W)'
  BY <1>2, OutputFrame
<1>11. QED
  BY <1>3, <1>7, <1>9, <1>10, Zenon DEF UnderWay

LEMMA SpawnStep ==
  ASSUME NEW T \in Nat, NEW W \in Nat, NEW tk, NEW U, NEW bf, Going(T, W, tk, U, bf),
         NEW t \in Threads, Spawn(t)
  PROVE  Going(T, W, tk, U, bf)'
<1>1. /\ CoderTypes /\ TeamOK /\ TurnOK(T, tk) /\ RingOK(T, W, tk) /\ BuffersOK(T, W, tk, U, bf)
      /\ ErrorsOK(T, W) /\ OutputOK(W)
  BY DEF Going, UnderWay
<1>2. Started <= NumThreads
  BY <1>1 DEF TeamOK
<1>3. /\ CoderTypes' /\ Others(t) /\ th[t].pc = "spawn"
      /\ Keeps(t) /\ Pool
      /\ p'.stopReading = p.stopReading /\ p'.readRes = p.readRes /\ p'.writeRes = p.writeRes
      /\ p'.numFinished = p.numFinished
      /\ \/ th'[t].pc = "spawned" /\ p' = p /\ th'[t].res = th[t].res
         \/ th'[t].pc = "unlock" /\ p'.mtRes # "ok" /\ th'[t].res # "ok"
  BY <1>1, <1>2, SpawnFacts
<1>4. UNCHANGED <<semaphore, free, bufs, written>>
  BY DEF Spawn
<1>5. TeamOK'
  BY <1>1, SpawnTeam
<1>6. TurnOK(T, tk)'
  BY <1>1, SpawnTurn
<1>7. th[t].res # "ok" => p.mtRes # "ok"
  BY <1>1 DEF ErrorsOK
<1>8. /\ th[t].pc \in Fresh /\ th'[t].pc \in Fresh /\ Worse
      /\ th'[t].res = "ok" => th[t].res = "ok"
      /\ th'[t].res # "ok" => p'.mtRes # "ok"
      /\ th'[t].pc # "code"
  BY <1>3, <1>7 DEF Fresh, Worse
<1>9. UnderWay(T, W, tk, U, bf)'
  BY <1>1, <1>3, <1>4, <1>6, <1>8, FreshStep
<1>10. QED
  BY <1>3, <1>5, <1>9 DEF Going

LEMMA UnlockStep ==
  ASSUME NEW T \in Nat, NEW W \in Nat, NEW tk, NEW U, NEW bf, Going(T, W, tk, U, bf),
         NEW t \in Threads, Unlock(t)
  PROVE  Going(T, W, tk, U, bf)'
<1>1. /\ CoderTypes /\ TeamOK /\ TurnOK(T, tk) /\ RingOK(T, W, tk) /\ BuffersOK(T, W, tk, U, bf)
      /\ ErrorsOK(T, W) /\ OutputOK(W)
  BY DEF Going, UnderWay
<1>2. /\ CoderTypes' /\ Others(t) /\ th[t].pc \in {"spawn", "spawned", "unlock"} /\ th'[t].pc = "code"
      /\ Keeps(t) /\ Pool
      /\ th'[t].res = th[t].res /\ th'[t].finished = th[t].finished
      /\ (p'.stopReading <=> p.stopReading \/ th[t].finished)
      /\ p'.readRes = p.readRes /\ p'.writeRes = p.writeRes /\ p'.mtRes = p.mtRes
      /\ p'.numFinished = p.numFinished
  BY <1>1, UnlockFacts
<1>3. UNCHANGED <<semaphore, free, bufs, written>>
  BY DEF Unlock
<1>4. TeamOK'
  BY <1>1, UnlockTeam
<1>5. TurnOK(T, tk)'
  BY <1>1, UnlockTurn
<1>6. th[t].res # "ok" => p.mtRes # "ok"
  BY <1>1 DEF ErrorsOK
<1>7. /\ th[t].pc \in Fresh /\ th'[t].pc \in Fresh /\ Worse
      /\ th'[t].res = "ok" => th[t].res = "ok"
      /\ th'[t].res # "ok" => p'.mtRes # "ok"
  BY <1>2, <1>6 DEF Fresh, Worse
<1>8. /\ p.stopReading => p'.stopReading
      /\ th'[t].pc = "code" /\ th'[t].finished => p'.stopReading
  BY <1>2
<1>9. UnderWay(T, W, tk, U, bf)'
  BY <1>1, <1>2, <1>3, <1>5, <1>7, <1>8, FreshStep
<1>10. QED
  BY <1>2, <1>4, <1>9 DEF Going

LEMMA CodeStep ==
  ASSUME NEW T \in Nat, NEW W \in Nat, NEW tk \in [Threads -> Nat],
         NEW U \in SUBSET Nat, NEW bf \in [Nat -> Blocks],
         Going(T, W, tk, U, bf), NEW t \in Threads, Code(t)
  PROVE  \E V \in SUBSET Nat, b2 \in [Nat -> Blocks] : Going(T, W, tk, V, b2)'
<1>1. /\ CoderTypes /\ TeamOK /\ TurnOK(T, tk) /\ RingOK(T, W, tk) /\ BuffersOK(T, W, tk, U, bf)
      /\ ErrorsOK(T, W) /\ OutputOK(W)
  BY DEF Going, UnderWay
<1>2. th[t].pc = "code" /\ UNCHANGED <<input, startEvent, readEvent, finishedEvent, semaphore, written>>
  BY DEF Code, events
<1>3. t \in In(Fresh \cup {"publish"}) /\ t \in In(Fresh)
  BY <1>2 DEF In, Step, Fresh
<1>4. CoderTypes /\ RingOK(T, W, tk) /\ t \in In(Fresh \cup {"publish"})
  BY <1>1, <1>3
<1>5. th[t].bi = Place(tk[t]) /\ Place(tk[t]) \in Blocks
  BY <1>4, HeldNotReady
<1>6. tk[t] \in W .. T - 1
  BY <1>4, HeldNotReady
<1>7. tk[t] \notin U
  BY <1>1, <1>3 DEF BuffersOK
<1>8. Len(free) >= 1
  BY <1>1, <1>6, <1>7, BufferLeft
<1>9. /\ CoderTypes' /\ Others(t) /\ th'[t].pc = "publish"
      /\ th'[t].bi = th[t].bi /\ th'[t].finished = th[t].finished /\ Worse
      /\ p'.blockIndex = p.blockIndex /\ p'.writeIndex = p.writeIndex /\ p'.ready = p.ready
      /\ p'.blocks = [p.blocks EXCEPT ![Place(tk[t])] = BlockOf(th'[t])]
      /\ p'.stopReading = p.stopReading /\ p'.readRes = p.readRes /\ p'.writeRes = p.writeRes
      /\ p'.readProcessed = p.readProcessed
      /\ p'.numStarted = p.numStarted /\ p'.numFinished = p.numFinished
      /\ (th'[t].res # "ok" => th[t].res # "ok" \/ p'.mtRes # "ok")
  <2>1. CoderTypes /\ Code(t) /\ th[t].bi \in Blocks /\ Len(free) >= 1
    BY <1>1, <1>5, <1>8
  <2>2. /\ CoderTypes' /\ Others(t) /\ th'[t].pc = "publish"
        /\ th'[t].bi = th[t].bi /\ th'[t].finished = th[t].finished /\ Worse
    BY <2>1, CodeFacts
  <2>3. /\ p'.blockIndex = p.blockIndex /\ p'.writeIndex = p.writeIndex /\ p'.ready = p.ready
        /\ p'.stopReading = p.stopReading /\ p'.readRes = p.readRes /\ p'.writeRes = p.writeRes
        /\ p'.readProcessed = p.readProcessed
        /\ p'.numStarted = p.numStarted /\ p'.numFinished = p.numFinished
    BY <2>1, CodeFacts
  <2>4. p'.blocks = [p.blocks EXCEPT ![th[t].bi] = BlockOf(th'[t])]
    BY <2>1, CodeFacts
  <2>5. th'[t].res # "ok" => th[t].res # "ok" \/ p'.mtRes # "ok"
    BY <2>1, CodeFacts
  <2>6. QED
    BY <1>5, <2>2, <2>3, <2>4, <2>5
<1>10. th[t].res # "ok" => p.mtRes # "ok"
  BY <1>1 DEF ErrorsOK
<1>11. PICK V \in SUBSET Nat, b2 \in [Nat -> Blocks] : BuffersOK(T, W, tk, V, b2)'
  BY <1>1, <1>10, CodeBuffers
<1>12. SamePlaces
  BY <1>9 DEF SamePlaces
<1>13. /\ th[t].pc \notin Turn /\ th'[t].pc \notin Turn
       /\ th[t].pc \in Holding /\ th'[t].pc \in Holding /\ th[t].pc \in Fresh
       /\ th[t].pc \notin Writing /\ th'[t].pc \notin Writing
       /\ th[t].pc \notin Leaving /\ th'[t].pc \notin Leaving
       /\ th[t].pc # "advance" /\ th'[t].pc # "advance" /\ th'[t].pc # "leave"
       /\ th[t].pc # "more" /\ th'[t].pc # "more"
       /\ th[t].pc \notin {"start", "count"} /\ th'[t].pc \notin {"start", "count"}
       /\ th[t].pc # "spawned" /\ th'[t].pc # "spawned" /\ th[t].pc # "read"
  BY <1>2, <1>9 DEF Turn, Holding, Writing, Leaving, Fresh, Coded
<1>14. th'[t].wi = th[t].wi
  <2>1. th \in [Threads -> Thread]
    BY <1>1 DEF CoderTypes
  <2>2. \/ th' = [th EXCEPT ![t].pc = "publish", ![t].buf = None]
        \/ \E res : th' = [th EXCEPT ![t].pc = "publish", ![t].buf = Head(free), ![t].res = res]
    BY DEF Code
  <2>3. CASE th' = [th EXCEPT ![t].pc = "publish", ![t].buf = None]
    BY <2>1, <2>3 DEF Thread
  <2>4. ASSUME NEW res, th' = [th EXCEPT ![t].pc = "publish", ![t].buf = Head(free), ![t].res = res]
        PROVE  th'[t].wi = th[t].wi
    BY <2>1, <2>4 DEF Thread
  <2>5. QED
    BY <2>2, <2>3, <2>4
<1>15. TeamOK'
  BY <1>1, <1>2, <1>9, <1>13, TeamFrame
<1>16. TurnOK(T, tk)'
  BY <1>1, <1>2, <1>9, <1>13, TurnFrame
<1>17. RingOK(T, W, tk)'
  BY <1>1, <1>2, <1>9, <1>12, <1>13, <1>14, RingFrame
<1>18. Ready(W, T)' = Ready(W, T)
  BY <1>9, <1>13, ReadySame
<1>19. ASSUME NEW k \in Ready(W, T) PROVE p'.blocks[Place(k)] = p.blocks[Place(k)]
  <2>1. k \in W .. T - 1 /\ Place(k) # Place(tk[t])
    BY <1>4, HeldApart
  <2>2. k \in Nat
    BY <2>1
  <2>3. Place(k) \in Blocks
    BY <2>2, PlaceNext
  <2>4. p.blocks \in [Blocks -> [res : Results, buf : Indices, finished : BOOLEAN]]
    BY <1>1, SharedFields
  <2>5. QED
    BY <1>9, <2>1, <2>3, <2>4
<1>20. th'[t].res # "ok" => p'.mtRes # "ok"
  BY <1>9, <1>10 DEF Worse
<1>21. p'.readRes # "ok" \/ p'.writeRes # "ok" => p'.mtRes # "ok"
  BY <1>1, <1>9 DEF ErrorsOK, Worse
<1>22. th'[t].finished => p'.stopReading
  BY <1>1, <1>2, <1>9 DEF ErrorsOK, In, Step
<1>23. \A k \in Ready(W, T)' : k \in Ready(W, T) /\ p'.blocks[Place(k)] = p.blocks[Place(k)]
  BY <1>18, <1>19
<1>24. ErrorsOK(T, W)'
  BY <1>1, <1>9, <1>13, <1>20, <1>21, <1>22, <1>23, ErrorsFrame
<1>25. OutputOK(W)'
  BY <1>1, <1>2, <1>9, <1>13, OutputFrame
<1>26. UnderWay(T, W, tk, V, b2)'
  BY <1>11, <1>16, <1>17, <1>24, <1>25, Zenon DEF UnderWay
<1>27. Going(T, W, tk, V, b2)'
  BY <1>9, <1>15, <1>26, Zenon DEF Going
<1>28. QED
  BY <1>27

LEMMA PublishStep ==
  ASSUME NEW T \in Nat, NEW W \in Nat, NEW tk \in [Threads -> Nat], NEW U, NEW bf,
         Going(T, W, tk, U, bf), NEW t \in Threads, Publish(t)
  PROVE  Going(T, W, tk, U, bf)'
<1>1. /\ CoderTypes /\ TeamOK /\ TurnOK(T, tk) /\ RingOK(T, W, tk) /\ BuffersOK(T, W, tk, U, bf)
      /\ ErrorsOK(T, W) /\ OutputOK(W)
  BY DEF Going, UnderWay
<1>2. /\ th[t].pc = "publish"
      /\ UNCHANGED <<input, startEvent, readEvent, finishedEvent, semaphore, free, bufs, written>>
  BY DEF Publish, events
<1>3. t \in In({"publish"}) /\ t \in In(Coded)
  BY <1>2 DEF In, Step, Coded
<1>4. RingOK(T, W, tk)'
  BY <1>1, PublishRing
<1>5. th[t].bi = Place(tk[t])
  BY <1>1, PublishRing
<1>6. tk[t] \in W .. T - 1
  BY <1>1, PublishRing
<1>7. th[t].bi \in Blocks
  BY <1>5, PlaceNext
<1>8. /\ CoderTypes' /\ Others(t)
      /\ th'[t].buf = th[t].buf /\ th'[t].finished = th[t].finished
      /\ p'.blocks = p.blocks /\ p'.mtRes = p.mtRes /\ p'.writeRes = p.writeRes /\ Counted
      /\ \/ /\ p'.ready = p.ready /\ th'[t].pc = "write"
            /\ th'[t].res # "ok" => th[t].res # "ok" \/ p.writeRes # "ok"
         \/ /\ p'.ready = p.ready \cup {th[t].bi}
            /\ th'[t].pc \in {"read", "leave"} /\ th'[t].res = th[t].res
            /\ th'[t].pc = "leave" => Leaves(th[t])
  BY <1>1, <1>7, PublishFacts
<1>9. /\ th[t].pc \notin Turn /\ th'[t].pc \notin Turn /\ th'[t].pc \notin Fresh
      /\ th[t].pc # "advance" /\ th'[t].pc # "advance" /\ th'[t].pc # "publish"
      /\ th[t].pc # "more" /\ th'[t].pc # "more"
      /\ th[t].pc \notin {"start", "count"} /\ th'[t].pc \notin {"start", "count"}
      /\ th[t].pc # "spawned" /\ th'[t].pc # "spawned" /\ th[t].pc # "read"
      /\ (th'[t].pc \in Coded => th'[t].pc = "write")
  BY <1>2, <1>8 DEF Turn, Fresh, Coded
<1>10. /\ Worse /\ p'.stopReading = p.stopReading /\ p'.readRes = p.readRes
       /\ p'.readProcessed = p.readProcessed
       /\ p'.numStarted = p.numStarted /\ p'.numFinished = p.numFinished
  BY <1>8 DEF Worse, Counted
<1>11. TeamOK'
  BY <1>1, <1>2, <1>8, <1>9, <1>10, TeamFrame
<1>12. TurnOK(T, tk)'
  BY <1>1, <1>2, <1>8, <1>9, <1>10, TurnFrame
<1>13. /\ th[t].buf = IF tk[t] \in U THEN bf[tk[t]] ELSE None
       /\ p.blocks[Place(tk[t])] = BlockOf(th[t])
       /\ p.mtRes = "ok" => tk[t] \in U
  BY <1>1, <1>3 DEF BuffersOK
<1>14. In({"more"})' = In({"more"})
  BY <1>8, <1>9 DEF In, Step, Others
<1>15. ASSUME NEW k \in Ready(W, T)' PROVE k \in Ready(W, T) \/ k = tk[t]
  <2>1. CASE p'.ready = p.ready
    BY <1>14, <1>15, <2>1 DEF Ready
  <2>2. CASE p'.ready = p.ready \cup {Place(tk[t])}
    <3>1. CASE k \in W .. T - 1 /\ Place(k) = Place(tk[t])
      BY <1>1, <1>6, <3>1, RingPlaces
    <3>2. CASE ~(k \in W .. T - 1 /\ Place(k) = Place(tk[t]))
      BY <1>14, <1>15, <2>2, <3>2 DEF Ready
    <3>3. QED
      BY <3>1, <3>2
  <2>3. QED
    BY <1>5, <1>8, <2>1, <2>2
<1>16. \A k \in Ready(W, T)' : /\ p.blocks[Place(k)].buf = IF k \in U THEN bf[k] ELSE None
                               /\ p'.mtRes = "ok" => k \in U
  <2>1. SUFFICES ASSUME NEW k \in Ready(W, T)'
                 PROVE  /\ p.blocks[Place(k)].buf = IF k \in U THEN bf[k] ELSE None
                        /\ p'.mtRes = "ok" => k \in U
    OBVIOUS
  <2>2. CASE k \in Ready(W, T)
    BY <1>1, <1>8, <2>2 DEF BuffersOK
  <2>3. CASE k = tk[t]
    BY <1>8, <1>13, <2>3 DEF BlockOf
  <2>4. QED
    BY <1>15, <2>2, <2>3
<1>17. BuffersOK(T, W, tk, U, bf)'
  <2>1. /\ BuffersOK(T, W, tk, U, bf) /\ UNCHANGED <<free, bufs>> /\ Worse /\ p'.blocks = p.blocks
        /\ T <= T /\ (\A u \in Threads \ {t} : tk[u] = tk[u])
        /\ th'[t].pc \notin Fresh /\ th'[t].pc # "publish"
        /\ th'[t].buf = (IF tk[t] \in U THEN bf[tk[t]] ELSE None)
        /\ (p'.mtRes = "ok" => tk[t] \in U)
    BY <1>1, <1>2, <1>8, <1>9, <1>10, <1>13
  <2>2. QED
    BY <2>1, <1>8, <1>16, BuffersFrame
<1>18. /\ th[t].res # "ok" => p.mtRes # "ok"
       /\ p.readRes # "ok" \/ p.writeRes # "ok" => p.mtRes # "ok"
       /\ th[t].finished => p.stopReading
  BY <1>1, <1>2 DEF ErrorsOK, In, Step
<1>19. th'[t].res # "ok" => p'.mtRes # "ok"
  BY <1>8, <1>18
<1>20. p'.readRes # "ok" \/ p'.writeRes # "ok" => p'.mtRes # "ok"
  BY <1>8, <1>10, <1>18
<1>21. /\ th'[t].finished => p'.stopReading
       /\ th'[t].pc = "leave" => p'.stopReading \/ p'.mtRes # "ok"
  BY <1>8, <1>10, <1>18 DEF Leaves
<1>22. \A k \in Ready(W, T)' :
         \/ k \in Ready(W, T) /\ p'.blocks[Place(k)] = p.blocks[Place(k)]
         \/ th[t].pc = "publish" /\ p'.blocks[Place(k)] = BlockOf(th[t])
  BY <1>2, <1>8, <1>13, <1>15
<1>23. ErrorsOK(T, W)'
  BY <1>1, <1>8, <1>9, <1>10, <1>19, <1>20, <1>21, <1>22, ErrorsFrame
<1>24. OutputOK(W)'
  BY <1>1, <1>2, <1>8, <1>9, <1>10, OutputFrame
<1>25. UnderWay(T, W, tk, U, bf)'
  BY <1>4, <1>12, <1>17, <1>23, <1>24, Zenon DEF UnderWay
<1>26. QED
  BY <1>8, <1>11, <1>25 DEF Going

\* The block that is due is appended, or there was an error.
LEMMA WriteOutput ==
  ASSUME CoderTypes, NEW t \in Threads, Write(t), NEW T \in Nat, NEW W \in Nat,
         NEW tk \in [Threads -> Nat], NEW U, NEW bf \in [Nat -> Blocks],
         RingOK(T, W, tk), BuffersOK(T, W, tk, U, bf), ErrorsOK(T, W), OutputOK(W), U \subseteq Nat
  PROVE  OutputOK(W)' /\ CoderTypes'
<1>1. th[t].pc = "write"
  BY DEF Write
<1>2. t \in In(Writing) /\ t \in In(Coded)
  BY <1>1 DEF In, Step, Writing, Coded
<1>3. CoderTypes /\ RingOK(T, W, tk) /\ t \in In(Writing)
  BY <1>2
<1>4. tk[t] = W /\ In(Writing) = {t}
  <2>1. tk[t] = W
    BY <1>3, Writer
  <2>2. In(Writing) = {t}
    BY <1>3, Writer
  <2>3. QED
    BY <2>1, <2>2
<1>5. th[t].buf = IF W \in U THEN bf[W] ELSE None
  BY <1>2, <1>4 DEF BuffersOK
<1>6. th[t].buf # None => W \in U /\ th[t].buf = bf[W] /\ bufs[th[t].buf] = W
  BY <1>5 DEF BuffersOK
<1>7. p.mtRes = "ok" => th[t].buf # None /\ th[t].res = "ok"
  <2>1. p.mtRes = "ok" => W \in U
    BY <1>2, <1>4 DEF BuffersOK
  <2>2. bf[W] # None
    BY Sizes DEF Blocks, None
  <2>3. th[t].res # "ok" => p.mtRes # "ok"
    BY DEF ErrorsOK
  <2>4. QED
    BY <1>5, <2>1, <2>2, <2>3
<1>8. th[t].buf # None => bufs[th[t].buf] \in Int
  BY <1>6
<1>9. /\ CoderTypes' /\ Others(t) /\ th'[t].pc = "advance" /\ Worse
      /\ \/ /\ th[t].res = "ok" /\ th[t].buf # None
            /\ written' = Append(written, bufs[th[t].buf])
         \/ written' = written /\ (p'.mtRes # "ok" \/ th[t].res # "ok" \/ th[t].buf = None)
  BY <1>8, WriteFacts
<1>10. In({"advance"}) = {} /\ In({"advance"})' # {}
  <2>1. \A u \in In({"advance"}) : u \in In(Writing) /\ u # t
    BY <1>1 DEF In, Step, Writing
  <2>2. In({"advance"}) = {}
    BY <1>4, <2>1
  <2>3. t \in In({"advance"})'
    BY <1>9 DEF In, Step
  <2>4. QED
    BY <2>2, <2>3
<1>11. Due(W) = W /\ Due(W)' = W + 1
  BY <1>10 DEF Due
<1>12. /\ \A k \in 1 .. Len(written) - 1 : written[k] < written[k + 1]
       /\ \A k \in 1 .. Len(written) : written[k] < W
       /\ p.mtRes = "ok" => Len(written) = W /\ \A k \in 1 .. Len(written) : written[k] = k - 1
  BY <1>11 DEF OutputOK
<1>13. written \in Seq(Int) /\ Len(written) \in Nat
  BY DEF CoderTypes
<1>14. CASE written' = Append(written, W)
  <2>1. /\ Len(written') = Len(written) + 1 /\ written'[Len(written) + 1] = W
        /\ \A k \in 1 .. Len(written) : written'[k] = written[k] /\ written[k] \in Int
    BY <1>13, <1>14
  <2>2. ASSUME NEW k \in 1 .. Len(written') - 1 PROVE written'[k] < written'[k + 1]
    <3>1. CASE k = Len(written)
      BY <1>12, <2>1, <3>1
    <3>2. CASE k # Len(written)
      <4>1. k \in 1 .. Len(written) - 1 /\ k + 1 \in 1 .. Len(written) /\ k \in 1 .. Len(written)
        BY <1>13, <2>1, <3>2
      <4>2. QED
        BY <1>12, <2>1, <4>1
    <3>3. QED
      BY <3>1, <3>2
  <2>3. ASSUME NEW k \in 1 .. Len(written') PROVE written'[k] < W + 1
    <3>1. CASE k = Len(written) + 1
      BY <2>1, <3>1
    <3>2. CASE k # Len(written) + 1
      <4>1. k \in 1 .. Len(written)
        BY <1>13, <2>1, <3>2
      <4>2. written[k] < W /\ written'[k] = written[k] /\ written[k] \in Int
        BY <1>12, <2>1, <4>1
      <4>3. QED
        BY <4>2
    <3>3. QED
      BY <3>1, <3>2
  <2>4. ASSUME p'.mtRes = "ok"
        PROVE  Len(written') = W + 1 /\ \A k \in 1 .. Len(written') : written'[k] = k - 1
    <3>1. Len(written) = W /\ \A k \in 1 .. Len(written) : written[k] = k - 1
      BY <1>9, <1>12, <2>4 DEF Worse
    <3>2. ASSUME NEW k \in 1 .. Len(written') PROVE written'[k] = k - 1
      <4>1. CASE k = W + 1
        BY <2>1, <3>1, <4>1
      <4>2. CASE k # W + 1
        <5>1. k \in 1 .. Len(written)
          BY <1>13, <2>1, <3>1, <4>2
        <5>2. QED
          BY <2>1, <3>1, <5>1
      <4>3. QED
        BY <4>1, <4>2
    <3>3. QED
      BY <2>1, <3>1, <3>2
  <2>5. QED
    BY <1>9, <1>11, <2>2, <2>3, <2>4 DEF OutputOK
<1>15. CASE written' = written /\ p'.mtRes # "ok"
  <2>1. \A k \in 1 .. Len(written') : written'[k] < W + 1
    BY <1>12, <1>13, <1>15
  <2>2. \A k \in 1 .. Len(written') - 1 : written'[k] < written'[k + 1]
    BY <1>12, <1>15
  <2>3. QED
    BY <1>9, <1>11, <1>15, <2>1, <2>2 DEF OutputOK
<1>16. written' = Append(written, W) \/ (written' = written /\ p'.mtRes # "ok")
  BY <1>6, <1>7, <1>9 DEF Worse
<1>17. QED
  BY <1>9, <1>14, <1>15, <1>16

LEMMA WriteStep ==
  ASSUME NEW T \in Nat, NEW W \in Nat, NEW tk \in [Threads -> Nat],
         NEW U \in SUBSET Nat, NEW bf \in [Nat -> Blocks],
         Going(T, W, tk, U, bf), NEW t \in Threads, Write(t)
  PROVE  Going(T, W, tk, U, bf)'
<1>1. /\ CoderTypes /\ TeamOK /\ TurnOK(T, tk) /\ RingOK(T, W, tk) /\ BuffersOK(T, W, tk, U, bf)
      /\ ErrorsOK(T, W) /\ OutputOK(W)
  BY DEF Going, UnderWay
<1>2. /\ th[t].pc = "write"
      /\ UNCHANGED <<input, startEvent, readEvent, finishedEvent, semaphore, free, bufs>>
  BY DEF Write, events
<1>3. OutputOK(W)' /\ CoderTypes'
  <2>1. U \subseteq Nat
    OBVIOUS
  <2>2. QED
    BY <1>1, <2>1, WriteOutput
<1>4. t \in In(Coded)
  BY <1>2 DEF In, Step, Coded
<1>5. th[t].buf = (IF tk[t] \in U THEN bf[tk[t]] ELSE None) /\ (p.mtRes = "ok" => tk[t] \in U)
  BY <1>1, <1>4 DEF BuffersOK
<1>6. th[t].buf # None => bufs[th[t].buf] \in Int
  <2>1. th[t].buf # None => th[t].buf \in Blocks
    BY <1>1, ThreadFields DEF Indices
  <2>2. QED
    BY <1>1, <2>1 DEF CoderTypes
<1>7. /\ Others(t) /\ th'[t].pc = "advance" /\ Keeps(t)
      /\ th'[t].finished = th[t].finished /\ Pool /\ Worse /\ Counted
      /\ p'.writeRes # "ok" => p.writeRes # "ok" \/ p'.mtRes # "ok"
      /\ th'[t].res # "ok" => th[t].res # "ok" \/ p'.mtRes # "ok"
  BY <1>1, <1>6, WriteFacts
<1>8. /\ SamePlaces /\ p'.blocks = p.blocks /\ p'.ready = p.ready
      /\ p'.stopReading = p.stopReading /\ p'.readRes = p.readRes
      /\ p'.readProcessed = p.readProcessed
      /\ p'.numStarted = p.numStarted /\ p'.numFinished = p.numFinished
      /\ th'[t].bi = th[t].bi /\ th'[t].wi = th[t].wi /\ th'[t].buf = th[t].buf
  BY <1>7 DEF Pool, SamePlaces, Counted, Keeps
<1>9. /\ th[t].pc \notin Turn /\ th'[t].pc \notin Turn /\ th'[t].pc \notin Fresh
      /\ th[t].pc \in Holding /\ th'[t].pc \in Holding
      /\ th[t].pc \in Writing /\ th'[t].pc \in Writing
      /\ th[t].pc \notin Leaving /\ th'[t].pc \notin Leaving
      /\ th'[t].pc \notin Fresh \cup {"publish"} /\ th'[t].pc # "publish" /\ th'[t].pc # "leave"
      /\ th[t].pc # "more" /\ th'[t].pc # "more"
      /\ th[t].pc \notin {"start", "count"} /\ th'[t].pc \notin {"start", "count"}
      /\ th[t].pc # "spawned" /\ th'[t].pc # "spawned" /\ th[t].pc # "read"
  BY <1>2, <1>7 DEF Turn, Fresh, Holding, Coded, Writing, Leaving
<1>10. TeamOK'
  BY <1>1, <1>2, <1>7, <1>8, <1>9, TeamFrame
<1>11. TurnOK(T, tk)'
  BY <1>1, <1>2, <1>7, <1>8, <1>9, TurnFrame
<1>12. RingOK(T, W, tk)'
  BY <1>1, <1>2, <1>7, <1>8, <1>9, RingFrame
<1>13. Ready(W, T)' = Ready(W, T)
  BY <1>7, <1>8, <1>9, ReadySame
<1>14. \A k \in Ready(W, T)' : /\ p.blocks[Place(k)].buf = IF k \in U THEN bf[k] ELSE None
                               /\ p'.mtRes = "ok" => k \in U
  BY <1>1, <1>7, <1>13 DEF BuffersOK, Worse
<1>15. BuffersOK(T, W, tk, U, bf)'
  <2>1. /\ BuffersOK(T, W, tk, U, bf) /\ UNCHANGED <<free, bufs>> /\ Worse /\ p'.blocks = p.blocks
        /\ T <= T /\ (\A u \in Threads \ {t} : tk[u] = tk[u])
        /\ th'[t].pc \notin Fresh /\ th'[t].pc # "publish"
        /\ th'[t].buf = (IF tk[t] \in U THEN bf[tk[t]] ELSE None)
        /\ (p'.mtRes = "ok" => tk[t] \in U)
    BY <1>1, <1>2, <1>5, <1>7, <1>8, <1>9 DEF Worse
  <2>2. QED
    BY <2>1, <1>7, <1>14, BuffersFrame
<1>16. /\ th[t].res # "ok" => p.mtRes # "ok"
       /\ p.readRes # "ok" \/ p.writeRes # "ok" => p.mtRes # "ok"
       /\ th[t].finished => p.stopReading
  BY <1>1, <1>2 DEF ErrorsOK, In, Step
<1>17. th'[t].res # "ok" => p'.mtRes # "ok"
  BY <1>7, <1>16 DEF Worse
<1>18. p'.readRes # "ok" \/ p'.writeRes # "ok" => p'.mtRes # "ok"
  BY <1>7, <1>8, <1>16 DEF Worse
<1>19. th'[t].finished => p'.stopReading
  BY <1>7, <1>8, <1>16
<1>20. ErrorsOK(T, W)'
  BY <1>1, <1>7, <1>8, <1>9, <1>13, <1>17, <1>18, <1>19, ErrorsFrame
<1>21. UnderWay(T, W, tk, U, bf)'
  BY <1>3, <1>11, <1>12, <1>15, <1>20, Zenon DEF UnderWay
<1>22. QED
  BY <1>3, <1>10, <1>21 DEF Going

LEMMA AdvanceStep ==
  ASSUME NEW T \in Nat, NEW W \in Nat, NEW tk \in [Threads -> Nat], NEW tk2,
         NEW U \in SUBSET Nat, NEW bf \in [Nat -> Blocks],
         Going(T, W, tk, U, bf), NEW t \in Threads, Advance(t),
         \A u \in Threads \ {t} : tk2[u] = tk[u], tk2[t] = W + 1
  PROVE  Going(T, W + 1, tk2, U \ {W}, bf)'
<1>1. /\ CoderTypes /\ TeamOK /\ TurnOK(T, tk) /\ RingOK(T, W, tk) /\ BuffersOK(T, W, tk, U, bf)
      /\ ErrorsOK(T, W) /\ OutputOK(W) /\ W + 1 \in Nat
  BY DEF Going, UnderWay
<1>2. /\ th[t].pc = "advance"
      /\ UNCHANGED <<input, startEvent, readEvent, finishedEvent, semaphore, bufs, written>>
  BY DEF Advance, events
<1>3. t \in In(Writing) /\ t \in In({"advance"})
  BY <1>2 DEF In, Step, Writing
<1>4. CoderTypes /\ RingOK(T, W, tk) /\ t \in In(Writing)
  BY <1>1, <1>3
<1>5. th[t].wi = Place(W)
  BY <1>4, Writer
<1>6. In(Writing) = {t}
  BY <1>4, Writer
<1>7. th[t].wi \in Blocks
  BY <1>5, PlaceNext
<1>8. /\ CoderTypes' /\ Others(t)
      /\ th'[t].res = th[t].res /\ th'[t].finished = th[t].finished
      /\ p'.blocks = p.blocks /\ p'.mtRes = p.mtRes /\ p'.writeRes = p.writeRes /\ Counted
      /\ th'[t].pc \in {"more", "done"}
  BY <1>1, <1>7, AdvanceFacts
<1>9. /\ th[t].pc \notin Turn /\ th'[t].pc \notin Turn
      /\ th'[t].pc # "advance" /\ th'[t].pc # "leave"
      /\ th[t].pc \notin {"start", "count"} /\ th'[t].pc \notin {"start", "count"}
      /\ th[t].pc # "spawned" /\ th'[t].pc # "spawned" /\ th[t].pc # "read" /\ th[t].pc # "publish"
  BY <1>2, <1>8 DEF Turn
<1>10. /\ Worse /\ p'.stopReading = p.stopReading /\ p'.readRes = p.readRes
       /\ p'.readProcessed = p.readProcessed
       /\ p'.numStarted = p.numStarted /\ p'.numFinished = p.numFinished
  BY <1>8 DEF Worse, Counted
<1>11. TeamOK'
  BY <1>1, <1>2, <1>8, <1>9, <1>10, TeamFrame
<1>12. TurnOK(T, tk2)'
  BY <1>1, <1>2, <1>8, <1>9, <1>10, TurnFrame
<1>13. RingOK(T, W + 1, tk2)'
  BY <1>1, AdvanceRing
<1>14. BuffersOK(T, W + 1, tk2, U \ {W}, bf)'
  BY <1>1, AdvanceBuffers
<1>15. /\ th[t].res # "ok" => p.mtRes # "ok"
       /\ p.readRes # "ok" \/ p.writeRes # "ok" => p.mtRes # "ok"
       /\ th[t].finished => p.stopReading
  BY <1>1, <1>2 DEF ErrorsOK, In, Step
<1>16. th'[t].res # "ok" => p'.mtRes # "ok"
  BY <1>8, <1>15
<1>17. p'.readRes # "ok" \/ p'.writeRes # "ok" => p'.mtRes # "ok"
  BY <1>8, <1>10, <1>15
<1>18. th'[t].finished => p'.stopReading
  BY <1>8, <1>10, <1>15
<1>19. \A k \in Ready(W + 1, T)' : k \in Ready(W, T)
  BY <1>4, AdvanceReady
<1>20. \A k \in Ready(W + 1, T)' : k \in Ready(W, T) /\ p'.blocks[Place(k)] = p.blocks[Place(k)]
  BY <1>8, <1>19
<1>21. ErrorsOK(T, W + 1)'
  BY <1>1, <1>8, <1>9, <1>10, <1>16, <1>17, <1>18, <1>20, ErrorsFrame
<1>22. OutputOK(W + 1)'
  <2>1. In({"advance"})' = {}
    <3>1. ASSUME NEW u \in In({"advance"})' PROVE FALSE
      <4>1. u # t /\ u \in Threads /\ th'[u].pc = "advance"
        BY <1>9, <3>1 DEF In, Step
      <4>2. u \in In(Writing)
        BY <1>8, <4>1 DEF In, Step, Writing, Others
      <4>3. QED
        BY <1>6, <4>1, <4>2
    <3>2. QED
      BY <3>1
  <2>2. Due(W + 1)' = W + 1 /\ Due(W) = W + 1
    BY <1>3, <2>1 DEF Due
  <2>3. QED
    BY <1>1, <1>2, <1>8, <2>2 DEF OutputOK
<1>23. UnderWay(T, W + 1, tk2, U \ {W}, bf)'
  BY <1>12, <1>13, <1>14, <1>21, <1>22, Zenon DEF UnderWay
<1>24. QED
  BY <1>8, <1>11, <1>23, Zenon DEF Going

LEMMA ReleaseStep ==
  ASSUME NEW T \in Nat, NEW W \in Nat, NEW tk \in [Threads -> Nat], NEW U, NEW bf,
         Going(T, W, tk, U, bf), NEW t \in Threads, Release(t)
  PROVE  Going(T, W, tk, U, bf)'
<1>1. /\ CoderTypes /\ TeamOK /\ TurnOK(T, tk) /\ RingOK(T, W, tk) /\ BuffersOK(T, W, tk, U, bf)
      /\ ErrorsOK(T, W) /\ OutputOK(W)
  BY DEF Going, UnderWay
<1>2. /\ th[t].pc \in {"more", "done"}
      /\ UNCHANGED <<input, startEvent, readEvent, finishedEvent, free, bufs, written>>
  BY DEF Release
<1>3. ASSUME th[t].pc = "more"
      PROVE  /\ t \in In({"more"}) /\ tk[t] = W /\ th[t].wi = Place(W) /\ th[t].wi \in Blocks
             /\ W < T /\ In({"more"}) = {t} /\ W \in Ready(W, T)
  <2>1. t \in In(Writing) /\ t \in In({"more"}) /\ In({"more"}) \subseteq In(Writing)
    BY <1>3 DEF In, Step, Writing
  <2>2. CoderTypes /\ RingOK(T, W, tk) /\ t \in In(Writing)
    BY <1>1, <2>1
  <2>3. tk[t] = W
    BY <2>2, Writer
  <2>4. th[t].wi = Place(W)
    BY <2>2, Writer
  <2>5. In(Writing) = {t}
    BY <2>2, Writer
  <2>6. W < T
    BY <2>2, Writer
  <2>7. Place(W) \in Blocks
    BY PlaceNext
  <2>8. W \in Ready(W, T)
    BY <2>1 DEF Ready
  <2>9. QED
    BY <2>1, <2>3, <2>4, <2>5, <2>6, <2>7, <2>8
<1>4. /\ CoderTypes' /\ Others(t) /\ p' = p
      /\ \/ /\ th[t].pc = "more" /\ th'[t].pc = "write"
            /\ th'[t].buf = p.blocks[th[t].wi].buf
            /\ th'[t].finished = p.blocks[th[t].wi].finished
            /\ th'[t].res # "ok" => th[t].res # "ok" \/ p.blocks[th[t].wi].res # "ok"
         \/ /\ th[t].pc = "done" /\ th'[t].pc \in {"read", "leave"} /\ th'[t].res = th[t].res
            /\ th'[t].pc = "leave" => Leaves(th[t])
  BY <1>1, <1>3, ReleaseFacts
<1>5. /\ th[t].pc \notin Turn /\ th'[t].pc \notin Turn /\ th'[t].pc \notin Fresh
      /\ th[t].pc # "advance" /\ th'[t].pc # "advance" /\ th'[t].pc # "publish"
      /\ th[t].pc \notin {"start", "count"} /\ th'[t].pc \notin {"start", "count"}
      /\ th[t].pc # "spawned" /\ th'[t].pc # "spawned" /\ th[t].pc # "read"
      /\ (th'[t].pc \in Coded => th[t].pc = "more")
      /\ (th'[t].pc \in {"code", "publish", "write", "advance", "done"} => th[t].pc = "more")
  BY <1>2, <1>4 DEF Turn, Fresh, Coded
<1>6. /\ Worse /\ p'.stopReading = p.stopReading /\ p'.readRes = p.readRes /\ p'.writeRes = p.writeRes
      /\ p'.readProcessed = p.readProcessed /\ p'.blocks = p.blocks /\ p'.ready = p.ready
      /\ p'.numStarted = p.numStarted /\ p'.numFinished = p.numFinished /\ p'.mtRes = p.mtRes
  BY <1>4 DEF Worse
<1>7. TeamOK'
  BY <1>1, <1>2, <1>4, <1>5, <1>6, TeamFrame
<1>8. TurnOK(T, tk)'
  BY <1>1, <1>2, <1>4, <1>5, <1>6, TurnFrame
<1>9. RingOK(T, W, tk)'
  BY <1>1, <1>3, ReleaseRing
<1>10. ASSUME NEW k \in Ready(W, T)' PROVE k \in Ready(W, T)
  <2>1. In({"more"})' \subseteq In({"more"})
    BY <1>4 DEF In, Step, Others
  <2>2. QED
    BY <1>6, <1>10, <2>1 DEF Ready
<1>11. \A k \in Ready(W, T)' : /\ p.blocks[Place(k)].buf = IF k \in U THEN bf[k] ELSE None
                               /\ p'.mtRes = "ok" => k \in U
  BY <1>1, <1>6, <1>10 DEF BuffersOK
<1>12. ASSUME th[t].pc = "more"
       PROVE  /\ th'[t].buf = IF tk[t] \in U THEN bf[tk[t]] ELSE None
              /\ p'.mtRes = "ok" => tk[t] \in U
  <2>1. W \in Ready(W, T) /\ tk[t] = W /\ th[t].wi = Place(W)
    BY <1>3, <1>12
  <2>2. p.blocks[Place(W)].buf = (IF W \in U THEN bf[W] ELSE None) /\ (p.mtRes = "ok" => W \in U)
    BY <1>1, <2>1 DEF BuffersOK
  <2>3. QED
    BY <1>4, <1>6, <1>12, <2>1, <2>2
<1>13. BuffersOK(T, W, tk, U, bf)'
  <2>1. /\ BuffersOK(T, W, tk, U, bf) /\ UNCHANGED <<free, bufs>> /\ Worse /\ p'.blocks = p.blocks
        /\ T <= T /\ (\A u \in Threads \ {t} : tk[u] = tk[u])
        /\ th'[t].pc \notin Fresh /\ th'[t].pc # "publish"
    BY <1>1, <1>2, <1>5, <1>6
  <2>2. th'[t].pc \in Coded => /\ th'[t].buf = IF tk[t] \in U THEN bf[tk[t]] ELSE None
                               /\ p'.mtRes = "ok" => tk[t] \in U
    BY <1>5, <1>12
  <2>3. QED
    BY <2>1, <2>2, <1>4, <1>11, BuffersFrame
<1>14. /\ th[t].res # "ok" => p.mtRes # "ok"
       /\ p.readRes # "ok" \/ p.writeRes # "ok" => p.mtRes # "ok"
       /\ th[t].pc = "done" /\ th[t].finished => p.stopReading
  BY <1>1, <1>2 DEF ErrorsOK, In, Step
<1>15. th[t].pc = "more" => /\ p.blocks[th[t].wi].res # "ok" => p.mtRes # "ok"
                            /\ p.blocks[th[t].wi].finished => p.stopReading
  BY <1>1, <1>3 DEF ErrorsOK
<1>16. th'[t].res # "ok" => p'.mtRes # "ok"
  BY <1>4, <1>6, <1>14, <1>15
<1>17. p'.readRes # "ok" \/ p'.writeRes # "ok" => p'.mtRes # "ok"
  BY <1>6, <1>14
<1>18. /\ th'[t].pc \in {"code", "publish", "write", "advance", "done"} /\ th'[t].finished => p'.stopReading
       /\ th'[t].pc = "leave" => p'.stopReading \/ p'.mtRes # "ok"
  BY <1>4, <1>5, <1>6, <1>14, <1>15 DEF Leaves
<1>19. \A k \in Ready(W, T)' : k \in Ready(W, T) /\ p'.blocks[Place(k)] = p.blocks[Place(k)]
  BY <1>6, <1>10
<1>20. ErrorsOK(T, W)'
  BY <1>1, <1>4, <1>5, <1>6, <1>16, <1>17, <1>18, <1>19, ErrorsFrame
<1>21. OutputOK(W)'
  BY <1>1, <1>2, <1>4, <1>5, <1>6, OutputFrame
<1>22. UnderWay(T, W, tk, U, bf)'
  BY <1>8, <1>9, <1>13, <1>20, <1>21, Zenon DEF UnderWay
<1>23. QED
  BY <1>4, <1>7, <1>22, Zenon DEF Going

-----------------------------------------------------------------------------
(* The invariant holds.                                                    *)

LEMMA Found ==
  ASSUME main = "wait", CoderInv
  PROVE  \E T, W \in Nat, tk \in [Threads -> Nat], U \in SUBSET Nat, bf \in [Nat -> Blocks] :
           Going(T, W, tk, U, bf)
<1>1. CoderTypes /\ TeamOK
  BY DEF CoderInv
<1>2. PICK T \in Nat, W \in Nat, tk \in [Threads -> Nat], U \in SUBSET Nat, bf \in [Nat -> Blocks] :
        UnderWay(T, W, tk, U, bf)
  BY DEF CoderInv
<1>3. Going(T, W, tk, U, bf)
  BY <1>1, <1>2 DEF Going
<1>4. QED
  BY <1>3

LEMMA Goes ==
  ASSUME main' = "wait", NEW T \in Nat, NEW W \in Nat, NEW tk \in [Threads -> Nat],
         NEW U \in SUBSET Nat, NEW bf \in [Nat -> Blocks], Going(T, W, tk, U, bf)'
  PROVE  CoderInv'
<1>1. CoderTypes' /\ TeamOK' /\ UnderWay(T, W, tk, U, bf)'
  BY DEF Going
<1>2. \E T2, W2 \in Nat, tk2 \in [Threads -> Nat], U2 \in SUBSET Nat, bf2 \in [Nat -> Blocks] :
        UnderWay(T2, W2, tk2, U2, bf2)'
  BY <1>1
<1>3. QED
  BY <1>1, <1>2 DEF CoderInv

LEMMA ThreadKeeps ==
  ASSUME CoderInv, main = "wait", NEW t \in Threads, ThreadStep(t)
  PROVE  CoderInv'
<1>1. PICK T \in Nat, W \in Nat, tk \in [Threads -> Nat], U \in SUBSET Nat, bf \in [Nat -> Blocks] :
        Going(T, W, tk, U, bf)
  BY Found, Zenon
<1>2. main' = "wait"
  BY DEF ThreadStep, Start, Stopped, Read, Take, Spawn, Unlock, Code, Publish, Write, Advance,
         Release, Leave, Count
<1>3. CASE \/ Start(t) \/ Stopped(t) \/ Read(t) \/ Spawn(t) \/ Unlock(t) \/ Publish(t)
           \/ Write(t) \/ Release(t) \/ Leave(t) \/ Count(t)
  <2>1. Going(T, W, tk, U, bf)'
    BY <1>1, <1>3, StartStep, StoppedStep, ReadStep, SpawnStep, UnlockStep, PublishStep, WriteStep,
       ReleaseStep, LeaveStep, CountStep
  <2>2. QED
    BY <1>2, <2>1, Goes
<1>4. CASE Take(t)
  <2>1. PICK tk2 \in [Threads -> Nat] : tk2 = [tk EXCEPT ![t] = T]
    OBVIOUS
  <2>2. (\A u \in Threads \ {t} : tk2[u] = tk[u]) /\ tk2[t] = T /\ T + 1 \in Nat
    BY <2>1
  <2>3. Going(T + 1, W, tk2, U, bf)'
    BY <1>1, <1>4, <2>2, TakeStep
  <2>4. QED
    BY <1>2, <2>2, <2>3, Goes
<1>5. CASE Code(t)
  <2>1. PICK V \in SUBSET Nat, b2 \in [Nat -> Blocks] : Going(T, W, tk, V, b2)'
    BY <1>1, <1>5, CodeStep
  <2>2. QED
    BY <1>2, <2>1, Goes
<1>6. CASE Advance(t)
  <2>1. PICK tk2 \in [Threads -> Nat] : tk2 = [tk EXCEPT ![t] = W + 1]
    <3>1. W + 1 \in Nat
      OBVIOUS
    <3>2. [tk EXCEPT ![t] = W + 1] \in [Threads -> Nat]
      BY <3>1
    <3>3. QED
      BY <3>2
  <2>2. (\A u \in Threads \ {t} : tk2[u] = tk[u]) /\ tk2[t] = W + 1 /\ W + 1 \in Nat
    BY <2>1
  <2>3. Going(T, W + 1, tk2, U \ {W}, bf)'
    BY <1>1, <1>6, <2>2, AdvanceStep
  <2>4. U \ {W} \in SUBSET Nat
    OBVIOUS
  <2>5. QED
    BY <1>2, <2>2, <2>3, <2>4, Goes
<1>7. QED
  BY <1>3, <1>4, <1>5, <1>6 DEF ThreadStep

\* Nobody is at work: the threads that exist wait for their startEvent, or count themselves.
LEMMA NoTeam ==
  ASSUME CoderTypes, Team = {}
  PROVE  startEvent = {} /\ \A t \in Threads : th[t].pc \in {"start", "count"}
BY DEF Team, CoderTypes, Step

\* Between two calls a thread can only count itself.
LEMMA RestKeeps ==
  ASSUME CoderInv, main = "idle", NEW t \in Threads, ThreadStep(t)
  PROVE  CoderInv'
<1>1. CoderTypes /\ AtRest
  BY DEF CoderInv
<1>2. startEvent = {} /\ \A u \in Threads : th[u].pc \in {"start", "count"}
  BY <1>1, NoTeam DEF AtRest
<1>3. th[t].pc \in {"start", "count"} /\ t \notin startEvent
  BY <1>2, Zenon
<1>4. Count(t)
  BY <1>3 DEF ThreadStep, Start, Stopped, Read, Take, Spawn, Unlock, Code, Publish, Write, Advance,
              Release, Leave
<1>5. CoderTypes' /\ Others(t) /\ th'[t].pc = "start" /\ th'[t].res = "ok" /\ p' = p
  BY <1>1, <1>4, CountFacts
<1>6. main' = "idle" /\ UNCHANGED <<result, input, startEvent, written>>
  BY <1>4 DEF Count
<1>7. \A u \in Threads : th'[u].pc \in {"start", "count"} /\ th'[u].res = "ok"
  BY <1>1, <1>2, <1>5 DEF Others, AtRest
<1>8. Team' = {}
  BY <1>2, <1>6, <1>7 DEF Team, Step
<1>9. WrittenInOrder' /\ (result' = "ok" => Len(written') >= Whole')
  BY <1>1, <1>5, <1>6 DEF AtRest, WrittenInOrder, Whole
<1>10. AtRest'
  BY <1>7, <1>8, <1>9 DEF AtRest
<1>11. QED
  BY <1>5, <1>6, <1>10 DEF CoderInv

\* What WrittenInOrder says of a sequence that holds 0, 1, 2 and so on
LEMMA Counts ==
  ASSUME NEW s \in Seq(Int), \A k \in 1 .. Len(s) : s[k] = k - 1
  PROVE  s = [k \in 1 .. Len(s) |-> k - 1]
<1>1. s = [k \in 1 .. Len(s) |-> s[k]]
  OBVIOUS
<1>2. QED
  BY <1>1

LEMMA Ordered ==
  ASSUME CoderTypes, NEW W \in Nat, OutputOK(W)
  PROVE  WrittenInOrder
<1>1. \A k \in 1 .. Len(written) - 1 : written[k] < written[k + 1]
  BY DEF OutputOK
<1>2. ASSUME p.mtRes = "ok" PROVE written = [k \in 1 .. Len(written) |-> k - 1]
  <2>1. written \in Seq(Int) /\ \A k \in 1 .. Len(written) : written[k] = k - 1
    BY <1>2 DEF OutputOK, CoderTypes
  <2>2. QED
    BY <2>1, Counts
<1>3. QED
  BY <1>1, <1>2 DEF WrittenInOrder

\* MtCoder_Code returns: everybody has left, and the block that is due has not been read.
LEMMA ReturnKeeps ==
  ASSUME CoderInv, Return
  PROVE  CoderInv'
<1>1. main = "wait" /\ finishedEvent /\ finishedEvent' = FALSE /\ main' = "idle"
      /\ result' = (IF p.readRes # "ok" THEN p.readRes ELSE IF p.mtRes # "ok" THEN p.mtRes ELSE p.writeRes)
      /\ UNCHANGED <<input, th, startEvent, readEvent, semaphore, p, free, bufs, written>>
  BY DEF Return
<1>2. PICK T \in Nat, W \in Nat, tk \in [Threads -> Nat], U \in SUBSET Nat, bf \in [Nat -> Blocks] :
        Going(T, W, tk, U, bf)
  BY <1>1, Found
<1>3. /\ CoderTypes /\ TeamOK /\ TurnOK(T, tk) /\ RingOK(T, W, tk) /\ BuffersOK(T, W, tk, U, bf)
      /\ ErrorsOK(T, W) /\ OutputOK(W)
  BY <1>2 DEF Going, UnderWay
<1>4. Team = {}
  BY <1>1, <1>3 DEF TeamOK
<1>5. startEvent = {} /\ \A t \in Threads : th[t].pc \in {"start", "count"}
  BY <1>3, <1>4, NoTeam
<1>6. In(Holding) = {} /\ In({"advance"}) = {} /\ In({"spawned"}) = {} /\ In(Turn) = {}
  BY <1>5 DEF In, Step, Holding, Fresh, Coded, Turn
<1>7. \A t \in Threads : th[t].res = "ok"
  BY <1>3, <1>5 DEF ErrorsOK, Step
<1>8. T = W
  <2>1. W <= T
    BY <1>3 DEF RingOK
  <2>2. SUFFICES ASSUME W < T PROVE FALSE
    BY <2>1
  <2>3. W \in W .. T - 1
    BY <2>2
  <2>4. Place(W) \in p.ready
    BY <1>3, <1>6, <2>3 DEF RingOK
  <2>5. Place(W) \notin p.ready
    BY <1>3 DEF RingOK
  <2>6. QED
    BY <2>4, <2>5
<1>9. p.numFinished > 0
  <2>1. Cardinality(Team) = 0
    BY <1>4, FS_EmptySet
  <2>2. p.numFinished + Cardinality(Team) = p.numStarted /\ p.numStarted >= 1
    BY <1>3, <1>6 DEF TeamOK, Started
  <2>3. p.numFinished \in Nat /\ p.numStarted \in Nat
    BY <1>3, SharedFields
  <2>4. QED
    BY <2>1, <2>2, <2>3
<1>10. ASSUME p.mtRes = "ok" PROVE Len(written) >= Whole
  <2>1. p.stopReading
    BY <1>3, <1>9, <1>10 DEF ErrorsOK
  <2>2. input.len <= T * BlockSize
    BY <1>3, <1>10, <2>1 DEF TurnOK
  <2>3. input.len \in Nat
    BY <1>3, Sizes DEF CoderTypes
  <2>4. Whole <= T
    BY <2>2, <2>3, WholeFits DEF Whole
  <2>5. Len(written) = W
    BY <1>3, <1>6, <1>10 DEF OutputOK, Due
  <2>6. Whole \in Int
    <3>1. BlockSize \in Nat \ {0}
      BY Sizes
    <3>2. QED
      BY <2>3, <3>1 DEF Whole
  <2>7. QED
    BY <1>8, <2>4, <2>5, <2>6
<1>11. result' = "ok" => Len(written) >= Whole
  BY <1>1, <1>10
<1>12. WrittenInOrder
  BY <1>3, Ordered
<1>13. CoderTypes'
  BY <1>1, <1>3 DEF CoderTypes
<1>14. Team' = {} /\ WrittenInOrder' /\ (\A t \in Threads : th'[t].res = "ok")
  BY <1>1, <1>4, <1>7, <1>12 DEF Team, Step, WrittenInOrder
<1>15. result' = "ok" => Len(written') >= Whole'
  BY <1>1, <1>11 DEF Whole
<1>16. AtRest'
  BY <1>14, <1>15 DEF AtRest
<1>17. QED
  BY <1>1, <1>13, <1>16 DEF CoderInv

LEMMA ResetFields ==
  ASSUME CoderTypes
  PROVE  /\ Reset \in Shared
         /\ Reset.stopReading = FALSE /\ Reset.readRes = "ok" /\ Reset.writeRes = "ok" /\ Reset.mtRes = "ok"
         /\ Reset.blockIndex = 0 /\ Reset.writeIndex = 0 /\ Reset.readProcessed = 0 /\ Reset.ready = {}
         /\ Reset.numStarted = 1 /\ Reset.numFinished = 0
<1>1. p \in Shared
  BY DEF CoderTypes
<1>2. 0 \in Blocks /\ 0 \in Indices
  BY Sizes DEF Indices
<1>3. QED
  BY <1>1, <1>2 DEF Shared, Reset, Results

\* What a call starts with, whether the first thread can be created or not
LEMMA CallFacts ==
  ASSUME CoderTypes, Call
  PROVE  /\ CoderTypes' /\ p' = Reset /\ free' = [b \in 1 .. NumBlocksMax |-> b - 1]
         /\ Len(free') = NumBlocksMax /\ semaphore' = NumBlocksMax /\ written' = <<>>
         /\ finishedEvent' = FALSE /\ UNCHANGED <<input, th, bufs>>
<1>1. /\ p' = Reset /\ free' = [b \in 1 .. NumBlocksMax |-> b - 1] /\ semaphore' = NumBlocksMax
      /\ finishedEvent' = FALSE /\ written' = <<>> /\ UNCHANGED <<input, th, bufs>>
      /\ main = "idle" /\ main' \in {"idle", "wait"} /\ readEvent' \in BOOLEAN
      /\ startEvent' \in {startEvent, startEvent \cup {0}}
  BY DEF Call, CreateAndStart
<1>2. NumBlocksMax \in Nat /\ 0 \in Threads
  BY Sizes
<1>3. \A b \in 1 .. NumBlocksMax : b - 1 \in Blocks
  BY <1>2 DEF Blocks
<1>4. free' \in Seq(Blocks) /\ Len(free') = NumBlocksMax
  BY <1>1, <1>2, <1>3
<1>5. startEvent' \subseteq Threads
  BY <1>1, <1>2 DEF CoderTypes
<1>6. p' \in Shared
  BY <1>1, ResetFields
<1>7. written' \in Seq(Int)
  BY <1>1
<1>8. CoderTypes'
  BY <1>1, <1>2, <1>4, <1>5, <1>6, <1>7 DEF CoderTypes
<1>9. QED
  BY <1>1, <1>4, <1>8

\* Nothing has been read yet.
LEMMA Begun ==
  ASSUME CoderTypes', \A t \in Threads : th'[t].pc = "start" /\ th'[t].res = "ok",
         p' = Reset, CoderTypes, free' = [b \in 1 .. NumBlocksMax |-> b - 1], Len(free') = NumBlocksMax,
         semaphore' = NumBlocksMax, written' = <<>>
  PROVE  \E T, W \in Nat, tk \in [Threads -> Nat], U \in SUBSET Nat, bf \in [Nat -> Blocks] :
           UnderWay(T, W, tk, U, bf)'
<1>1. /\ p'.stopReading = FALSE /\ p'.readRes = "ok" /\ p'.writeRes = "ok" /\ p'.mtRes = "ok"
      /\ p'.blockIndex = 0 /\ p'.writeIndex = 0 /\ p'.readProcessed = 0 /\ p'.ready = {}
      /\ p'.numStarted = 1 /\ p'.numFinished = 0
  BY ResetFields
<1>2. \A S : "start" \notin S => In(S)' = {}
  BY DEF In, Step
<1>3. /\ In(Turn)' = {} /\ In({"take"})' = {} /\ In(Turn \ {"take"})' = {} /\ In(Leaving)' = {}
      /\ In(Holding)' = {} /\ In(Fresh \cup {"publish"})' = {} /\ In(Writing)' = {} /\ In(Fresh)' = {}
      /\ In(Coded)' = {} /\ In({"publish"})' = {} /\ In({"more"})' = {} /\ In({"leave"})' = {}
      /\ In({"code", "publish", "write", "advance", "done"})' = {} /\ In({"advance"})' = {}
  BY <1>2 DEF Turn, Leaving, Holding, Fresh, Writing, Coded
<1>4. PICK tk \in [Threads -> Nat] : tk = [t \in Threads |-> 0]
  OBVIOUS
<1>5. PICK bf \in [Nat -> Blocks] : bf = [k \in Nat |-> 0]
  BY Sizes
<1>6. 0 .. 0 - 1 = {}
  OBVIOUS
<1>7. Ready(0, 0)' = {}
  BY <1>3, <1>6 DEF Ready
<1>8. input' \in Inputs /\ input'.len \in Nat /\ 0 * BlockSize = 0
  BY Sizes DEF CoderTypes
<1>9. TurnOK(0, tk)'
  <2>1. /\ (\A t, u \in In(Turn) : t = u)'
        /\ (readEvent \/ p.stopReading => In(Turn) = {})'
        /\ (p.readProcessed <= input.len)'
        /\ (In(Turn) = {} /\ ~p.stopReading => p.readProcessed = 0 * BlockSize)'
        /\ (p.stopReading /\ p.mtRes = "ok" => input.len <= 0 * BlockSize)'
    BY <1>1, <1>3, <1>8
  <2>2. QED
    BY <1>3, <2>1, Zenon DEF TurnOK
<1>10. Place(0) = 0
  <2>1. NumBlocksMax \in Nat \ {0} /\ 0 = NumBlocksMax * 0 + 0
    BY Sizes
  <2>2. QED
    BY <2>1, ModUnique DEF Place
<1>11. Cardinality({}) = 0
  BY FS_EmptySet
<1>12. RingOK(0, 0, tk)'
  <2>1. NumBlocksMax + (0 - 0) + 0 = NumBlocksMax
    BY Sizes
  <2>2. (semaphore + (0 - 0) + Cardinality(In(Leaving)) = NumBlocksMax)'
    BY <1>3, <1>11, <2>1
  <2>3. /\ (p.blockIndex = Place(0))' /\ (p.writeIndex = IF In(Writing) = {} THEN Place(0) ELSE None)'
        /\ (Place(0) \notin p.ready)'
    BY <1>1, <1>3, <1>10 DEF Place
  <2>4. 0 <= 0
    OBVIOUS
  <2>5. QED
    BY <1>1, <1>3, <1>6, <2>2, <2>3, <2>4, Zenon DEF RingOK
<1>13. BuffersOK(0, 0, tk, {}, bf)'
  <2>1. Len(free') + Cardinality({}) = NumBlocksMax
    BY <1>11, Sizes
  <2>2. \A i, j \in 1 .. Len(free') : free'[i] = free'[j] => i = j
    <3>1. SUFFICES ASSUME NEW i \in 1 .. Len(free'), NEW j \in 1 .. Len(free'), free'[i] = free'[j]
                   PROVE  i = j
      OBVIOUS
    <3>2. i \in 1 .. NumBlocksMax /\ j \in 1 .. NumBlocksMax
      OBVIOUS
    <3>3. free'[i] = i - 1 /\ free'[j] = j - 1
      BY <3>2
    <3>4. i - 1 = j - 1
      BY <3>1, <3>3
    <3>5. QED
      BY <3>4
  <2>3. QED
    BY <1>3, <1>7, <2>1, <2>2 DEF BuffersOK
<1>14. ErrorsOK(0, 0)'
  BY <1>1, <1>3, <1>7 DEF ErrorsOK
<1>15. OutputOK(0)'
  BY <1>3 DEF OutputOK, Due
<1>16. UnderWay(0, 0, tk, {}, bf)'
  BY <1>9, <1>12, <1>13, <1>14, <1>15, Zenon DEF UnderWay
<1>17. 0 \in Nat /\ {} \in SUBSET Nat
  OBVIOUS
<1>18. QED
  BY <1>16, <1>17

LEMMA CallKeeps ==
  ASSUME CoderInv, Call, ~LateCount
  PROVE  CoderInv'
<1>1. main = "idle"
  BY DEF Call
<1>2. CoderTypes /\ AtRest
  BY <1>1 DEF CoderInv
<1>3. \A t \in Threads : th[t].pc # "count"
  BY DEF Call
<1>4. startEvent = {} /\ (\A t \in Threads : th[t].pc \in {"start", "count"}) /\ \A t \in Threads : th[t].res = "ok"
  BY <1>2, NoTeam DEF AtRest
<1>5. /\ CoderTypes' /\ p' = Reset /\ free' = [b \in 1 .. NumBlocksMax |-> b - 1]
      /\ Len(free') = NumBlocksMax /\ semaphore' = NumBlocksMax /\ written' = <<>>
      /\ finishedEvent' = FALSE /\ UNCHANGED <<input, th, bufs>>
  BY <1>2, CallFacts
<1>6. \A t \in Threads : th'[t].pc = "start" /\ th'[t].res = "ok"
  BY <1>3, <1>4, <1>5
<1>7. CASE startEvent' = startEvent \cup {0} /\ main' = "wait"
  <2>1. startEvent' = {0} /\ 0 \in Threads
    BY <1>4, <1>7, Sizes
  <2>2. In({"spawned"})' = {} /\ In({"count"})' = {}
    BY <1>6 DEF In, Step
  <2>3. p'.numStarted = 1 /\ p'.numFinished = 0
    BY <1>2, <1>5, ResetFields
  <2>4. Started' = 1
    BY <2>2, <2>3 DEF Started
  <2>5. Team' = {0}
    BY <1>6, <2>1 DEF Team, Step
  <2>6. Cardinality(Team') = 1
    BY <2>5, FS_Singleton
  <2>7. (\A t \in Threads : t >= Started => t \notin startEvent /\ Step(t) = "start")'
    <3>1. \A t \in Threads : t >= 1 => t \notin {0}
      BY DEF Threads
    <3>2. QED
      BY <1>6, <2>1, <2>4, <3>1 DEF Step
  <2>8. TeamOK'
    <3>1. 1 <= NumThreads
      BY Sizes
    <3>2. (p.numStarted >= 1)' /\ (Started <= NumThreads)'
      BY <2>3, <2>4, <3>1
    <3>3. (p.numFinished + Cardinality(Team) = Started)'
      BY <2>3, <2>4, <2>6
    <3>4. (\A t \in startEvent : Step(t) = "start")'
      BY <1>6, <2>1 DEF Step
    <3>5. QED
      BY <1>5, <2>2, <2>7, <3>2, <3>3, <3>4, Zenon DEF TeamOK
  <2>9. \E T, W \in Nat, tk \in [Threads -> Nat], U \in SUBSET Nat, bf \in [Nat -> Blocks] :
          UnderWay(T, W, tk, U, bf)'
    BY <1>2, <1>5, <1>6, Begun
  <2>10. QED
    BY <1>5, <1>7, <2>8, <2>9 DEF CoderInv
<1>8. CASE startEvent' = startEvent /\ main' = "idle" /\ result' = "error"
  <2>1. Team' = {}
    BY <1>4, <1>6, <1>8 DEF Team, Step
  <2>2. Len(written') = 0 /\ written' \in Seq(Int)
    BY <1>5
  <2>3. written' = [k \in 1 .. Len(written') |-> k - 1]
    BY <2>2, Counts
  <2>4. WrittenInOrder'
    BY <2>2, <2>3 DEF WrittenInOrder
  <2>5. AtRest'
    BY <1>6, <1>8, <2>1, <2>4 DEF AtRest
  <2>6. QED
    BY <1>5, <1>8, <2>5 DEF CoderInv
<1>9. (startEvent' = startEvent \cup {0} /\ main' = "wait")
        \/ (startEvent' = startEvent /\ main' = "idle" /\ result' = "error")
  BY <1>1 DEF Call, CreateAndStart
<1>10. QED
  BY <1>7, <1>8, <1>9

LEMMA CoderInit == Init => CoderInv
<1> SUFFICES ASSUME Init PROVE CoderInv
  OBVIOUS
<1>1. NumThreads \in Nat /\ NumBlocksMax \in Nat /\ 0 \in Blocks /\ 0 \in Indices
  BY Sizes DEF Indices
<1>2. Outside \in Thread /\ Outside.pc = "start" /\ Outside.res = "ok"
  BY DEF Outside, Thread, Steps, Results, Indices
<1>3. BlockOf(Outside) \in [res : Results, buf : Indices, finished : BOOLEAN]
  BY DEF Outside, BlockOf, Results, Indices
<1>4. th = [t \in Threads |-> Outside]
  BY DEF Init
<1>5. th \in [Threads -> Thread] /\ \A t \in Threads : th[t].pc = "start" /\ th[t].res = "ok"
  BY <1>2, <1>4
<1>6. p \in Shared
  <2>1. [b \in Blocks |-> BlockOf(Outside)] \in [Blocks -> [res : Results, buf : Indices, finished : BOOLEAN]]
    BY <1>3
  <2> DEFINE blocks == [b \in Blocks |-> BlockOf(Outside)]
  <2>2. p = [stopReading |-> FALSE, readRes |-> "ok", writeRes |-> "ok", mtRes |-> "ok",
             blockIndex |-> 0, writeIndex |-> 0, readProcessed |-> 0, ready |-> {},
             blocks |-> blocks, numStarted |-> 0, limit |-> NumThreads, numFinished |-> 0]
    BY DEF Init
  <2> HIDE DEF blocks
  <2>3. QED
    BY <1>1, <2>1, <2>2 DEF Shared, Results, blocks
<1>7. bufs \in [Blocks -> Int]
  BY DEF Init, None
<1>8. free = <<>> /\ written = <<>> /\ startEvent = {} /\ main = "idle" /\ result = "none" /\ input \in Inputs
      /\ semaphore = 0 /\ readEvent = FALSE /\ finishedEvent = FALSE
  BY DEF Init
<1>9. CoderTypes
  <2>1. free \in Seq(Blocks) /\ written \in Seq(Int) /\ semaphore \in Nat /\ startEvent \subseteq Threads
    BY <1>8
  <2>2. main \in {"idle", "wait"} /\ readEvent \in BOOLEAN /\ finishedEvent \in BOOLEAN
    BY <1>8
  <2>3. QED
    BY <1>5, <1>6, <1>7, <1>8, <2>1, <2>2, Zenon DEF CoderTypes
<1>10. Team = {}
  BY <1>5, <1>8 DEF Team, Step
<1>11. Len(written) = 0 /\ written \in Seq(Int)
  BY <1>8
<1>12. written = [k \in 1 .. Len(written) |-> k - 1]
  BY <1>11, Counts
<1>13. WrittenInOrder
  BY <1>11, <1>12 DEF WrittenInOrder
<1>14. AtRest
  BY <1>5, <1>8, <1>10, <1>13 DEF AtRest
<1>15. QED
  BY <1>8, <1>9, <1>14 DEF CoderInv

LEMMA CoderStutter ==
  ASSUME CoderInv, UNCHANGED CoderVars
  PROVE  CoderInv'
<1>1. UNCHANGED <<main, result, input, th, startEvent, readEvent, finishedEvent, semaphore, p, free, bufs, written>>
  BY DEF CoderVars, events
<1>2. CoderTypes'
  BY <1>1 DEF CoderInv, CoderTypes
<1>3. CASE main = "idle"
  <2>1. AtRest
    BY <1>3 DEF CoderInv
  <2>2. Team' = Team
    BY <1>1 DEF Team, Step
  <2>3. AtRest'
    BY <1>1, <2>1, <2>2 DEF AtRest, WrittenInOrder, Whole
  <2>4. QED
    BY <1>1, <1>2, <1>3, <2>3 DEF CoderInv
<1>4. CASE main = "wait"
  <2>1. PICK T \in Nat, W \in Nat, tk \in [Threads -> Nat], U \in SUBSET Nat, bf \in [Nat -> Blocks] :
          Going(T, W, tk, U, bf)
    BY <1>4, Found
  <2>2. /\ TeamOK /\ TurnOK(T, tk) /\ RingOK(T, W, tk) /\ BuffersOK(T, W, tk, U, bf)
        /\ ErrorsOK(T, W) /\ OutputOK(W)
    BY <2>1 DEF Going, UnderWay
  <2>3. \A S : In(S)' = In(S)
    BY <1>1 DEF In, Step
  <2>4. Team' = Team /\ Started' = Started
    BY <1>1, <2>3 DEF Team, Step, Started
  <2>5. Ready(W, T)' = Ready(W, T) /\ Due(W)' = Due(W)
    BY <1>1, <2>3 DEF Ready, Due
  <2>6. TeamOK'
    BY <1>1, <2>2, <2>3, <2>4 DEF TeamOK, Step
  <2>7. TurnOK(T, tk)'
    BY <1>1, <2>2, <2>3 DEF TurnOK
  <2>8. RingOK(T, W, tk)'
    BY <1>1, <2>2, <2>3 DEF RingOK
  <2>9. BuffersOK(T, W, tk, U, bf)'
    <3>1. In(Fresh)' = In(Fresh) /\ In(Coded)' = In(Coded) /\ In({"publish"})' = In({"publish"})
      BY <2>3
    <3>2. th' = th /\ p' = p /\ free' = free /\ bufs' = bufs /\ Ready(W, T)' = Ready(W, T)
      BY <1>1, <2>5
    <3>3. BuffersOK(T, W, tk, U, bf)
      BY <2>2
    <3>4. QED
      BY <3>1, <3>2, <3>3 DEF BuffersOK
  <2>10. ErrorsOK(T, W)'
    BY <1>1, <2>2, <2>3, <2>5 DEF ErrorsOK, Step
  <2>11. OutputOK(W)'
    BY <1>1, <2>2, <2>5 DEF OutputOK
  <2>12. Going(T, W, tk, U, bf)'
    BY <1>2, <2>6, <2>7, <2>8, <2>9, <2>10, <2>11, Zenon DEF Going, UnderWay
  <2>13. main' = "wait"
    BY <1>1, <1>4
  <2>14. QED
    BY <2>12, <2>13, Goes
<1>5. QED
  BY <1>3, <1>4 DEF CoderInv, CoderTypes

\* The invariant, as long as no thread of one call is late for the count of the next.
THEOREM CoderInvariant == ASSUME ~LateCount PROVE CoderSpec => []CoderInv
<1>1. Init => CoderInv
  BY CoderInit
<1>2. CoderInv /\ [CoderNext]_CoderVars => CoderInv'
  <2> SUFFICES ASSUME CoderInv, [CoderNext]_CoderVars PROVE CoderInv'
    OBVIOUS
  <2>1. CASE UNCHANGED CoderVars
    BY <2>1, CoderStutter
  <2>2. CASE Call
    BY <2>2, CallKeeps
  <2>3. CASE Return
    BY <2>3, ReturnKeeps
  <2>4. ASSUME NEW t \in Threads, ThreadStep(t) PROVE CoderInv'
    <3>1. main \in {"idle", "wait"}
      BY DEF CoderInv, CoderTypes
    <3>2. CASE main = "idle"
      BY <2>4, <3>2, RestKeeps
    <3>3. CASE main = "wait"
      BY <2>4, <3>3, ThreadKeeps
    <3>4. QED
      BY <3>1, <3>2, <3>3
  <2>5. QED
    BY <2>1, <2>2, <2>3, <2>4 DEF CoderNext
<1>3. QED
  BY <1>1, <1>2, PTL DEF CoderSpec

\* Blocks are written in the order of the input, each at most once, and none is missing while
\* nothing has failed: Publish hands a block to Write only when it is the one that is due.
THEOREM InOrder == ASSUME ~LateCount PROVE CoderSpec => []WrittenInOrder
<1>1. CoderInv => WrittenInOrder
  <2> SUFFICES ASSUME CoderInv PROVE WrittenInOrder
    OBVIOUS
  <2>1. CASE main = "idle"
    BY <2>1 DEF CoderInv, AtRest
  <2>2. CASE main = "wait"
    <3>1. PICK T \in Nat, W \in Nat, tk \in [Threads -> Nat], U \in SUBSET Nat, bf \in [Nat -> Blocks] :
            Going(T, W, tk, U, bf)
      BY <2>2, Found
    <3>2. CoderTypes /\ OutputOK(W)
      BY <3>1 DEF Going, UnderWay
    <3>3. QED
      BY <3>2, Ordered
  <2>3. QED
    BY <2>1, <2>2 DEF CoderInv, CoderTypes
<1>2. CoderSpec => []CoderInv
  BY CoderInvariant
<1>3. QED
  BY <1>1, <1>2, PTL

\* When MtCoder_Code returns, no thread is inside a callback, and if it says so the whole input
\* has been written: finishedEvent is set by the last of the threads that were started.
THEOREM ReturnsDone == ASSUME ~LateCount PROVE CoderSpec => []ReturnMeansDone
<1>1. CoderInv => ReturnMeansDone
  <2> SUFFICES ASSUME CoderInv, main = "idle"
               PROVE  /\ \A t \in Threads : th[t].pc \in {"start", "count"}
                      /\ result = "ok" => Len(written) >= Whole
    BY DEF ReturnMeansDone
  <2>1. CoderTypes /\ AtRest
    BY DEF CoderInv
  <2>2. QED
    BY <2>1, NoTeam DEF AtRest
<1>2. CoderSpec => []CoderInv
  BY CoderInvariant
<1>3. QED
  BY <1>1, <1>2, PTL

=============================================================================
