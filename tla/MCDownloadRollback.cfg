SPECIFICATION Spec
CONSTANTS
    Size <- MCSize
    Tag <- MCTag
    None = None
    Release = 2
    Rollback = TRUE
    Budget = 3
    SendTimeout = 2
    ReadTimeout = 1
INVARIANT OneArtifact
