---------------------------- MODULE MCXzArchive ----------------------------
(* Inputs for XzArchive: empty, one block and a bit, whole blocks, and more   *)
(* blocks than may be under way; with no filter and with each, the check in   *)
(* none, one or two words.                                                    *)
EXTENDS XzArchive

Blocks0(s, n, expected) ==
  [file |-> FALSE, stream |-> s, len |-> n, expected |-> expected, threads |-> NumThreads,
   text |-> <<>>, filter |-> <<>>, check |-> 0, sizes |-> FALSE]

Archive(t, filter, check, threads, sizes) ==
  [file |-> TRUE, stream |-> TRUE, len |-> Len(t), expected |-> -1, threads |-> threads,
   text |-> t, filter |-> filter, check |-> check, sizes |-> sizes]

ARM   == <<[id |-> IdARM, props |-> <<>>]>>
ARMIp == <<[id |-> IdARM, props |-> <<4, 0>>]>>
Diff  == <<[id |-> IdDelta, props |-> <<1>>]>>

MCFates == [kept |-> 1, cut |-> 3, changed |-> 3, twice |-> 2, followed |-> 2]

MCInputs ==
  {Blocks0(TRUE, 10, -1), Blocks0(TRUE, 4, 4), Blocks0(FALSE, 6, -1), Blocks0(FALSE, 0, -1)}
  \cup {Archive(t, <<>>, 1, 1, FALSE) : t \in {<<>>, <<9, 4>>, <<3, 9, 4, 9, 5>>}}
  \cup {Archive(<<3, 9, 4, 9, 5>>, ARMIp, 4, 1, TRUE), Archive(<<3, 9, 4, 9, 5>>, Diff, 4, 1, FALSE)}
  \cup {Archive(<<3, 9, 4>>, ARM, 0, 2, TRUE)}
=============================================================================
