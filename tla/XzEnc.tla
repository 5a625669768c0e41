------------------------------- MODULE XzEnc -------------------------------
(***************************************************************************)
(* The xz encoder (XzEnc.c): a text is cut into blocks, which are packed   *)
(* one after the other, or by the threads of MtCoder, whose callbacks Code *)
(* and Write are those of the encoder: Code makes a block in a buffer of   *)
(* its own, Write hands it on and adds it to the index.  What MtCoder      *)
(* carries around is the number of the block.                              *)
(*                                                                         *)
(* Lzma2Enc uses MtCoder too: an input whose file is FALSE is one of its   *)
(* calls, and what is written then is not read here.                       *)
(***************************************************************************)
EXTENDS MtCoder, XzFilter

CONSTANTS
  ChunkMax      \* bytes of an LZMA2 chunk

ASSUME EncAssumption ==
  /\ ChunkMax \in 1 .. 7
  /\ \A i \in Inputs : i.file => /\ i.stream /\ Len(i.text) = i.len
                                 /\ {f \in Range(i.filter) : RefusesProps(f)} = {}

\* The text that a block is made of
DataOf(i, b) == SubSeq(i.text, b * BlockSize + 1, IF (b + 1) * BlockSize < i.len THEN (b + 1) * BlockSize ELSE i.len)

\* Lzma2Enc_Encode2, of text that does not get shorter: chunks that are copied
RECURSIVE Chunks(_, _)
Chunks(control, data) ==
  IF data = <<>> THEN <<0>>
  ELSE LET n == IF ChunkMax < Len(data) THEN ChunkMax ELSE Len(data)
       IN  <<control, 16 * n>> \o FirstOf(n, data) \o Chunks(2, After(n, data))

Filters(i) == Append(i.filter, [id |-> IdLZMA2, props |-> <<1>>])

\* Xz_CompressBlock: the sizes are in the header where the block is made in a buffer, of which
\* the header is written when the rest is there.
Framed(i, data, packed, sizes) ==
  LET header == BlockHeader([pack |-> IF sizes THEN Len(packed) ELSE Unknown,
                             unpack |-> IF sizes THEN Len(data) ELSE Unknown, filters |-> Filters(i)])
      size   == Len(header) + Len(packed) + CheckSize(i.check)
  IN  [bytes |-> header \o packed \o Zeros(PadSize(Len(packed))) \o Digest(i.check, CrcCalc(data)),
       record |-> IndexRecord(size, Len(data))]

BlockOfText(i, data, sizes) ==
  One({Framed(i, data, Chunks(1, got), sizes) :
         got \in {IF i.filter = <<>> THEN data ELSE ReadThrough(i.filter[1], data)}})

\* XzEnc_Encode: what it has written when the blocks of the list are, and the footer
FileOf(i, list, sizes) ==
  One({WriteHeader(i.check) \o FlattenSeq([k \in DOMAIN blocks |-> blocks[k].bytes])
         \o WriteFooter(i.check, Len(list), FlattenSeq([k \in DOMAIN blocks |-> blocks[k].record])) :
         blocks \in {[k \in DOMAIN list |-> BlockOfText(i, DataOf(i, list[k]), sizes)]}})

-----------------------------------------------------------------------------
(* XzEnc_Encode with one thread.                                             *)

Single == input.file /\ input.threads = 1

EncodeAlone ==
  /\ main = "idle" /\ Single /\ calls < MaxCalls
  /\ main' = "alone" /\ calls' = calls + 1 /\ written' = <<>>
  /\ UNCHANGED <<result, input, faults, created, th, events, p, free, bufs>>

\* A block takes BlockSize bytes and does not look for more; a block that gets less has
\* seen the end.
SawEnd(b) == (b + 1) * BlockSize > input.len

EncodeBlock ==
  /\ main = "alone"
  /\ \E res \in {"ok", "error"} :
       /\ MayFail(res)
       /\ written' = IF res = "ok" THEN Append(written, Len(written)) ELSE written
       /\ IF res = "ok" /\ ~SawEnd(Len(written))
            THEN UNCHANGED <<main, result>>
            ELSE main' = "idle" /\ result' = res
  /\ UNCHANGED <<input, calls, created, th, events, p, free, bufs>>

-----------------------------------------------------------------------------
EncodeMt   == Call /\ ~Single
Encoding   == Return \/ EncodeBlock \/ \E t \in Threads : ThreadStep(t)
EncNext    == EncodeMt \/ EncodeAlone \/ Encoding

\* XzEnc_Destroy: the threads have been waited for and are gone.
Destroyed ==
  /\ created' = {} /\ th' = [t \in Threads |-> Outside]
  /\ startEvent' = {} /\ readEvent' = FALSE /\ finishedEvent' = FALSE /\ semaphore' = 0
  /\ p' = Reset /\ free' = <<>> /\ bufs' = [b \in Blocks |-> None]
=============================================================================
