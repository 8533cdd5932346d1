\* The server dies during a purge and a PATCH.  The ids of sources run out.
CHECK_DEADLOCK FALSE
CONSTANTS
    s1 = s1
    s2 = s2
    r1 = r1
    r2 = r2
    r3 = r3
    Off = Off
    Keep = Keep
    Sources <- OneSource
    Requests <- TwoRequests
    Intervals <- ThreeIntervals
    FaultKinds <- AllFaults
    MaxFaults = 1
SPECIFICATION FairSpec
PROPERTY EventuallyStarted
