---------------------------- MODULE MCLzma2Enc -----------------------------
(* Texts of two bytes for the match finder alone, for the compressor, and for *)
(* LZMA2: all short ones, and longer ones with a period.                      *)
EXTENDS Lzma2Enc

CONSTANTS TextLen, LongLen, ChunkLen, ParseLen

All(n)  == [1 .. n -> 0 .. Bytes - 1]
Long(n) == {[i \in 1 .. n |-> IF i % p \in q THEN 1 ELSE 0] : p \in 2 .. 5, q \in SUBSET (0 .. 3)}

\* a period that is broken now and then
Broken(n) == {[i \in 1 .. n |-> IF i % p = 0 THEN 1 - ((i % q) % 2) ELSE (i % q) % 2] : p \in {7, 9, 11}, q \in 3 .. 4}

\* cheap literals; cheap repetitions; prices that follow the state
MCWeights ==
  [w \in 1 .. 3 |->
     [lit    |-> [s \in 0 .. 11 |-> CASE w = 1 -> 5 [] w = 2 -> 9 [] OTHER -> 2 + ((5 * s) % 7)],
      short  |-> [s \in 0 .. 11 |-> CASE w = 1 -> 6 [] w = 2 -> 4 [] OTHER -> 3 + ((3 * s) % 5)],
      rep    |-> [s \in 0 .. 11 |-> CASE w = 1 -> 3 [] w = 2 -> 2 [] OTHER -> 1 + ((7 * s) % 6)],
      match  |-> [s \in 0 .. 11 |-> CASE w = 1 -> 9 [] w = 2 -> 4 [] OTHER -> 3 + ((2 * s) % 5)],
      which  |-> [i \in 0 .. 3 |-> i],
      dist   |-> [d \in 0 .. HistorySize - 1 |-> d],
      repLen |-> [n \in 2 .. MaxLen |-> IF w = 3 THEN (3 * n) % 5 ELSE n \div 2],
      len    |-> [n \in 2 .. MaxLen |-> IF w = 3 THEN (2 * n) % 5 ELSE n \div 2]]]

Setting(user, modes, algos, weights, marks) ==
  [user : {user}, mode : modes, direct : {FALSE}, chunk : {99}, failAt : {99}, cut : {9},
   algo : algos, weights : weights, endMark : marks, outFails : {FALSE}]

Finder ==
  {s \in [user : {"any"}, mode : Modes, direct : BOOLEAN, chunk : {1, 99}, failAt : {5, 99}, cut : {1, 9},
          algo : {"fast"}, weights : {1}, endMark : {FALSE}, outFails : {FALSE}] :
     /\ s.direct => s.chunk = 99 /\ s.failAt = 99
     /\ s.failAt = 5 => s.chunk = 99 /\ s.cut = 9}

Both == {"fast", "best"}

MCFarDist == <<1, 2>>

\* a stream that fails, an output that fails, a text in memory
Faulty(user) ==
  {[s EXCEPT !.failAt = 5] : s \in Setting(user, {"bt4"}, Both, {1}, {FALSE})}
    \cup {[s EXCEPT !.outFails = TRUE] : s \in Setting(user, {"bt4"}, Both, {1}, {TRUE})}
    \cup {[s EXCEPT !.direct = TRUE] : s \in Setting(user, {"bt2"}, Both, {3}, {TRUE})}

Alone == (All(TextLen) \cup Long(LongLen)) \X Finder

Streams ==
  ((Long(LongLen) \cup Broken(LongLen) \cup UNION {All(n) : n \in {0, 1, 5}})
       \X (Setting("lzma", {"bt2", "hc4"}, Both, 1 .. 3, {TRUE}) \cup Faulty("lzma")))

Chunks ==
  (Long(ChunkLen) \cup UNION {All(n) : n \in 0 .. 3})
       \X (Setting("lzma2", {"bt2"}, Both, 1 .. 3, {FALSE}) \cup Faulty("lzma2"))

Parsed == All(ParseLen) \X Setting("lzma", {"bt2"}, {"best"}, {2, 3}, {FALSE})

MCCases == Alone \cup Streams \cup Parsed \cup Chunks
=============================================================================
