---------------------------- MODULE MCLzma2DecMt ----------------------------
(* Streams of a few chunks for Lzma2DecMt.  A chunk is its control byte and    *)
(* its symbols; the text is worked out from the chunks and not from the bytes. *)
EXTENDS Lzma2DecMt

Made2(text, s) ==
  IF s < 20 THEN Append(text, s)
  ELSE text \o [i \in 1 .. s \div 10 |-> text[Len(text) + 1 - (s % 10) + ((i - 1) % (s % 10))]]
TextOf(chunks) ==
  LET syms == FoldLeft(LAMBDA a, c : a \o c.syms, <<>>, chunks)
  IN  FoldLeft(Made2, <<>>, syms)
SizeOf(c) == FoldLeft(LAMBDA n, s : n + (IF s < 20 THEN 1 ELSE s \div 10), 0, c.syms)

Coded(c) ==
  LET n == Len(c.syms)
  IN  IF c.control < 128 THEN <<c.control, 16 * n>> \o c.syms
      ELSE LET data == FoldLeft(LAMBDA a, s : a \o (IF s < 20 THEN <<s>> ELSE <<Lead, s>>), <<0>>, c.syms)
           IN  <<c.control, 16 * SizeOf(c) + Len(data)>> \o [data EXCEPT ![Len(data)] = @ + 100]
Bytes(chunks) == FoldLeft(LAMBDA a, c : a \o Coded(c), <<>>, chunks)

Chunk(control, syms) == [control |-> control, syms |-> syms]

\* Blocks of one and of several chunks, small ones and ones that are too large
Good ==
  { <<Chunk(1, <<1, 2, 3>>), Chunk(224, <<4, 31>>), Chunk(1, <<5>>), Chunk(2, <<6>>)>>,
    <<Chunk(224, <<1, 2>>), Chunk(128, <<3>>), Chunk(224, <<4, 5, 6>>), Chunk(1, <<7>>)>>,
    <<Chunk(1, <<1>>), Chunk(1, <<2>>), Chunk(192, <<21, 3>>), Chunk(224, <<4>>), Chunk(1, <<5, 6>>)>>,
    <<Chunk(1, <<1, 2>>), Chunk(224, <<3, 51>>), Chunk(1, <<4, 5>>)>>,
    <<>> }

Whole(chunks, threads, outSize, finish) ==
  [stream |-> Bytes(chunks) \o <<0>>, text |-> TextOf(chunks), good |-> TRUE,
   outSize |-> outSize, finish |-> finish, threads |-> threads, asks |-> 0]

\* with the size given, too small and right; cut short; and with a byte that is wrong
MCJobs ==
  {Whole(g, n, -1, TRUE) : g \in Good, n \in {1, 2, 3}}
  \cup {Whole(g, 2, Len(TextOf(g)), TRUE) : g \in Good}
  \cup {Whole(g, n, 4, FALSE) : g \in Good \ {<<>>}, n \in {1, 2}}
  \cup {[Whole(g, n, -1, TRUE) EXCEPT !.stream = SubSeq(@, 1, Len(@) - 3), !.good = FALSE]
          : g \in Good \ {<<>>}, n \in {1, 2}}
  \cup {[Whole(g, 1, size, FALSE) EXCEPT !.asks = n] :
          g \in Good \ {<<>>}, n \in {2, 3}, size \in {-1, 4}}
  \cup {[Whole(g, 1, Len(TextOf(g)), TRUE) EXCEPT !.asks = 3] : g \in Good}
  \cup {[Whole(g, n, -1, TRUE) EXCEPT !.stream[8] = 29, !.good = FALSE] : g \in Good \ {<<>>}, n \in {1, 2}}
=============================================================================
