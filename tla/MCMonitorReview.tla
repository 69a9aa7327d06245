---------------------------- MODULE MCMonitorReview ----------------------------
\* Three workers with an owner_id and a heartbeat row each.
EXTENDS MonitorReview

CONSTANTS w1, w2, w3

DistinctOwner == [w \in Worker |-> CASE w = w1 -> "a" [] w = w2 -> "b" [] OTHER -> "c"]
=============================================================================
