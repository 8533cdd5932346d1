\* A PUT between the two reads of a cleanup.
CONSTANTS
    Versions <- TwoVersions
    UpstreamKeep = 1
    VersionsToKeep = 2
    Like <- LikeIsEqual
    Overlap = TRUE
SPECIFICATION Spec
PROPERTY RemovesOnlyUnlisted
