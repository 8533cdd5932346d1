-------------------------- MODULE MCSiteEnrolment --------------------------
(* An instance of SiteEnrolment for TLC. *)
EXTENDS SiteEnrolment, TLC

CONSTANTS s1, s2, e1, e2, k1, k2, r1, r2

TwoSites    == {s1, s2}
TwoEnrol    == {e1, e2}
TwoAccess   == {k1, k2}
TwoRequests == {r1, r2}

Symmetry ==
    Permutations(Sites) \cup Permutations(EnrolTokens)
        \cup Permutations(AccessTokens) \cup Permutations(Requests)
=============================================================================
