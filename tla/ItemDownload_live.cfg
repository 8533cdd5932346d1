\* Liveness with an upstream that serves what it lists, under faults that Temporal retries.
CONSTANTS
    i1 = i1
    a1 = a1
    a2 = a2
    r1 = r1
    r2 = r2
    None = None
    Items <- OneItem
    Attempts <- TwoAttempts
    Requests <- TwoRequests
    FileSize = 2
    StreamLens <- ExactLens
    FaultKinds <- RetriedFaults
    MaxFaults = 3
SPECIFICATION FairSpec
PROPERTIES EventuallyStored EventuallyDeleted SkippedIsInProgress
INVARIANTS FullySyncedIsStored TrueMeansStored
