SPECIFICATION FairSpec
CONSTANTS
    None = None
    MaxU64 = 10
    Manifests <- MCManifests
    FirstInstalls <- MCFirstInstalls
    Durations = {0, 30}
    RequestTimeout = 30
    Delays <- MCDelays
    MaxTimes = 4
    Budget = 60
    AppTimeout = 75
    MaxManual = 1
INVARIANTS CycleTypeOK AnswersInTime TimedOutOnlySlow EndOfLifeMonotone ChoicesKept
PROPERTIES NeverOlder StaysOnChannel CatchesUp
