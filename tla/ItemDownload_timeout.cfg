\* The timeout of a download workflow between its last PATCH and complete_upload.
CONSTANTS
    i1 = i1
    a1 = a1
    a2 = a2
    r1 = r1
    r2 = r2
    None = None
    Items <- OneItem
    Attempts <- TwoAttempts
    Requests <- TwoRequests
    FileSize = 2
    StreamLens <- ExactLens
    FaultKinds <- AllFaults
    MaxFaults = 1
SPECIFICATION Spec
INVARIANT FullySyncedIsStored
