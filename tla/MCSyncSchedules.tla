-------------------------- MODULE MCSyncSchedules --------------------------
(* Small instances of SyncSchedules for TLC. *)
EXTENDS SyncSchedules, TLC

CONSTANTS s1, s2, r1, r2, r3

OneSource     == {s1}
TwoRequests   == {r1, r2}
ThreeRequests == {r1, r2, r3}

\* Disabled, refreshed every 5 minutes, refreshed every 10 minutes.
ThreeIntervals == {0, 5, 20}

Symmetry == Permutations(Requests) \cup Permutations(Sources)
=============================================================================
