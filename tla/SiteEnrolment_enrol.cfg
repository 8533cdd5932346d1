\* Two sites, and calls that are answered too late.
SPECIFICATION Spec
CONSTANTS
    s1 = s1
    s2 = s2
    e1 = e1
    e2 = e2
    k1 = k1
    k2 = k2
    r1 = r1
    r2 = r2
    None = None
    Sites <- TwoSites
    EnrolTokens <- TwoEnrol
    AccessTokens <- TwoAccess
    Requests <- TwoRequests
    LateCalls = TRUE
SYMMETRY Symmetry
INVARIANTS TokenEnrolsOneSite AccessFollowsApproval
