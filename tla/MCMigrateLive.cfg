\* One identity and two failures, so that the undo of a failure fails, and the rerun after a
\* crash is cut off as well.
SPECIFICATION FairSpec
CONSTANTS
    Ids = {i1}
    Absent = Absent
    Torn = Torn
    Stamps = {1}
    MaxSuffix = 3
    MaxFaults = 2
PROPERTY EventuallyMigrated
