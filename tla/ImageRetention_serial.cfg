\* A sync starts when the cleanup of the last one is over; one version name contains another.
CONSTANTS
    Versions <- ThreeVersions
    UpstreamKeep = 1
    VersionsToKeep = 2
    Like <- LikeOneInTwo
    Overlap = FALSE
SPECIFICATION FairSpec
INVARIANTS TypeOK IndexServesStored
PROPERTIES CleanupKeepsLatest EventuallyCurrent
