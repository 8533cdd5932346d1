--------------------------- MODULE MCItemDownload ---------------------------
(* Small instances of ItemDownload for TLC.                                 *)
EXTENDS ItemDownload, TLC

CONSTANTS i1, a1, a2, r1, r2

OneItem == {i1}
TwoAttempts == {a1, a2}
TwoRequests == {r1, r2}

\* Upstream serves what it lists.
ExactLens == {FileSize}

\* It serves less, or more.
AnyLens == {1, 2, 3}

\* Faults after which Temporal simply runs the activity again.
RetriedFaults == {"error", "delete_ack_lost", "sync_timeout", "forget", "api_crash"}

Symmetry == Permutations(Attempts) \cup Permutations(Requests)
=============================================================================
