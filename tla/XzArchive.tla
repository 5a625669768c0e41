----------------------------- MODULE XzArchive -----------------------------
(***************************************************************************)
(* An archive is made by the encoder (XzEnc, on the threads of MtCoder or  *)
(* alone) and read back by the decoder (XzDec).  In between it may be cut  *)
(* short, one of its bytes may change, or something may follow it.         *)
(***************************************************************************)
EXTENDS XzEnc, XzDec, XzIn

CONSTANTS
  Fates,        \* what happens to an archive, and the fewest bytes at a time it is read in:
                \* a function of "kept", "cut", "changed", "twice" and "followed"
  GivenMax      \* the longest text of which the reader is given the size

VARIABLES fate

encVars == <<main, result, input, calls, faults, created, th, events, p, free, bufs, written>>
allVars == <<encVars, decVars, fate>>

XzInit == Init /\ DecInit /\ fate = "none"

File == FileOf(input, written, input.threads > 1 \/ input.sizes)

\* A byte is changed in its high half: the low half of the size of a copied chunk says nothing.
Change == 16

\* What is read, for every fate of the archive
Archives(f, bytes) ==
  CASE f = "kept"     -> {bytes}
    [] f = "cut"      -> {FirstOf(n, bytes) : n \in 0 .. Len(bytes) - 1}
    [] f = "changed"  -> IF input.check = 0 THEN {}
                         ELSE {[bytes EXCEPT ![n] = (@ + Change) % 256] : n \in DOMAIN bytes}
    [] f = "twice"    -> {bytes \o Zeros(2 * Align) \o bytes, bytes \o bytes}
    [] f = "followed" -> {bytes \o <<1>>, bytes \o <<0, 1>>, bytes \o Zeros(Align) \o FirstOf(1, Sig) \o <<1>>}

Open ==
  /\ input.file /\ main = "idle" /\ result = "ok" /\ calls = MaxCalls /\ fate = "none"
  /\ \A t \in Threads : th[t].pc = "start"
  /\ fate' \in DOMAIN Fates
  /\ \E bytes \in {File} : \E a \in Archives(fate', bytes) :
       \E given \in {Unknown} \cup (IF fate' = "kept" /\ input.len <= GivenMax THEN {input.len} ELSE {}) :
         Opened(a, Fates[fate'], given)
  /\ Destroyed /\ UNCHANGED <<main, result, input, calls, faults, written>>

Encode == EncNext /\ fate = "none" /\ UNCHANGED <<decVars, fate>>
Decode == DecNext /\ UNCHANGED <<encVars, fate>>

XzNext == Encode \/ Open \/ Decode

XzFairness ==
  /\ WF_allVars(Return /\ UNCHANGED <<decVars, fate>>)
  /\ WF_allVars(EncodeBlock /\ UNCHANGED <<decVars, fate>>)
  /\ \A t \in Threads : WF_allVars(ThreadStep(t) /\ UNCHANGED <<decVars, fate>>)
  /\ WF_allVars(Decode)

XzSpec == XzInit /\ [][XzNext]_allVars /\ XzFairness

-----------------------------------------------------------------------------
(* Properties.                                                               *)

Expected == IF fate = "twice" THEN input.text \o input.text ELSE input.text
Accepted == rd.pc = "done" /\ rd.res = "ok" /\ rd.decodeRes = "ok"

\* The list of what is in it is right for a whole archive, also when bytes of the data have
\* changed, which it does not look at; and there is none of one that is cut or followed.
ListTells ==
  \E list \in {Listed(archive)} :
    /\ fate \in {"kept", "twice"} => list.res = "ok" /\ Len(list.streams) = u.finished
                                   /\ Len(Head(list.streams)) = u.numBlocks
    /\ fate \in {"cut", "followed"} => list.res # "ok"
    /\ list.res = "ok" => TotalUnpacked(list) = Len(Expected)

\* What comes out of an archive is the text that was packed, in whatever pieces the archive
\* comes and whoever packed it: nothing else is written on the way, and it is complete when the
\* archive is accepted.  One that is cut short or of which a byte has changed is not accepted,
\* and what follows an archive is noticed and does not take away from it.
ReadsBack ==
  /\ fate \in {"kept", "twice", "cut", "followed"} => IsPrefix(text, Expected)
  /\ Accepted => text = Expected
  /\ rd.pc = "done" /\ rd.faults = 0 =>
       /\ CASE fate \in {"kept", "twice"}  -> Accepted
            [] fate \in {"cut", "changed"} -> ~Accepted
            [] fate = "followed" -> text = Expected /\ rd.afterEnd /\ rd.decodeRes = "ok"
       /\ ListTells

\* Every call of the encoder returns, and so does the decoder's, whatever it reads.
CallsEnd ==
  /\ main \in {"wait", "alone"} ~> main = "idle"
  /\ rd.pc # "off" ~> rd.pc = "done"
=============================================================================
