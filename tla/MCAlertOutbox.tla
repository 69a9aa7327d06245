---------------------------- MODULE MCAlertOutbox ----------------------------
(* Finite constants for AlertOutbox. *)
EXTENDS AlertOutbox, TLC

CONSTANTS d1, d2
MCDispatcher == {d1, d2}
MCWorkerId == [d \in MCDispatcher |-> d]

Symmetry == Permutations(MCDispatcher) \cup Permutations(Alert)
=============================================================================
