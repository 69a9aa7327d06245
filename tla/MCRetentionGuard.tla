-------------------------- MODULE MCRetentionGuard --------------------------
(* Two maintenance requests, interchangeable; each is its own owner_id. *)
EXTENDS RetentionGuard, TLC

CONSTANTS m1, m2

MCOwner == [w \in {m1, m2} |-> w]
Symmetry == Permutations({m1, m2})
=============================================================================
