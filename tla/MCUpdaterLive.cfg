SPECIFICATION FairSpec
CONSTANTS
    None = None
    MaxRuns = 1
    MaxMisses = 2
PROPERTIES WindowCloses RunEnds
