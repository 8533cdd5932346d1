\* Three days and more of refreshes, with two faults.
CONSTANTS
    s1 = s1
    t1 = t1
    t2 = t2
    t3 = t3
    t4 = t4
    t5 = t5
    t6 = t6
    None = None
    Blank = Blank
    Own = Own
    Sources <- OneSource
    Tokens <- SixTokens
    RunTime = 1
    Interval = 2
    Duration = 4
    MaxTime = 7
    FaultKinds <- AllFaults
    MaxFaults = 2
SPECIFICATION Spec
SYMMETRY Symmetry
INVARIANTS TypeOK RefreshGoesOn ScheduledTokenIsGood RunKeepsAccess
