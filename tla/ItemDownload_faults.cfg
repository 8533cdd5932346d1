\* Every fault, and an upstream that serves less or more than it lists.
CONSTANTS
    i1 = i1
    a1 = a1
    a2 = a2
    r1 = r1
    r2 = r2
    None = None
    Items <- OneItem
    Attempts <- TwoAttempts
    Requests <- TwoRequests
    FileSize = 2
    StreamLens <- AnyLens
    FaultKinds <- AllFaults
    MaxFaults = 4
SPECIFICATION Spec
SYMMETRY Symmetry
INVARIANT OnlyRemovedAreDeleted
PROPERTY ImplementsStore
