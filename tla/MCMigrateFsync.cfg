SPECIFICATION Spec
CONSTANTS
    Ids = {i1, i2}
    Absent = Absent
    Torn = Torn
    Stamps = {1}
    MaxSuffix = 3
    MaxFaults = 1
PROPERTY EveryFailureRestores
