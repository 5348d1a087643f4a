SPECIFICATION FairSpec
CONSTANTS
    Size <- MCSize
    Tag <- MCTag
    None = None
    Release = 2
    Rollback = FALSE
    Budget = 3
    SendTimeout = 2
    ReadTimeout = 1
INVARIANTS OneArtifact GaveUpOnlyOffline OvershootBounded
PROPERTIES DownloadEnds TransfersArtifacts
