--------------------------- MODULE UpgradePromise ---------------------------
(***************************************************************************)
(* What the boot loader promises about one upgrade, whatever resets        *)
(* interrupt it: the firmware goes from the old one to the new one, the    *)
(* application runs only before or after that, and once the upgrade is     *)
(* acknowledged the firmware is never touched again.                       *)
(***************************************************************************)
VARIABLES
  firmware,   \* "old", "partial" or "new"
  request,    \* "pending" or "acknowledged"
  running     \* does the application run?

vars == <<firmware, request, running>>

Init == firmware = "old" /\ request = "pending" /\ running = FALSE

\* The firmware is being rewritten, for the first time or again.
Rewrite ==
  /\ request = "pending" /\ ~running
  /\ firmware' = "partial"
  /\ UNCHANGED <<request, running>>

Finish ==
  /\ firmware = "partial" /\ request = "pending"
  /\ firmware' = "new"
  /\ UNCHANGED <<request, running>>

Acknowledge ==
  /\ firmware = "new" /\ request = "pending"
  /\ request' = "acknowledged"
  /\ UNCHANGED <<firmware, running>>

Run ==
  /\ request = "acknowledged" /\ ~running
  /\ running' = TRUE
  /\ UNCHANGED <<firmware, request>>

Reset ==
  /\ running
  /\ running' = FALSE
  /\ UNCHANGED <<firmware, request>>

Next == Rewrite \/ Finish \/ Acknowledge \/ Run \/ Reset

Spec == Init /\ [][Next]_vars /\ WF_vars(Acknowledge)
=============================================================================
