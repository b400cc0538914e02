-------------------------- MODULE MCScrapeRotation --------------------------
(* ScrapeRotation on small instances.  Symbols only meet in the loops of a *)
(* reconciliation, each step of which touches one symbol: the races of     *)
(* ingestions, passes and cadence changes are explored on one, and the     *)
(* theorems of ScrapeRotationProofs are about any number of them.          *)
EXTENDS ScrapeRotation

(* A bound of the safety run: the last write of the ledger, the purchase   *)
(* after a sale, is explored with no restart before it and no change of    *)
(* the cadence around it, which the earlier writes have.                   *)
LastWriteAlone == writes = MaxWrites => restarts = 0 /\ rearm.pc = "idle"
=============================================================================
