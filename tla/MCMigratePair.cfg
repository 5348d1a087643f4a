\* Two runs in the same second, a legacy identity and one that the client generated, and no
\* failure at all.
SPECIFICATION PairSpec
CONSTANTS
    Ids = {i1, i2}
    Absent = Absent
    Torn = Torn
    Stamps = {1}
    MaxSuffix = 3
    MaxFaults = 0
SYMMETRY Symmetry
CHECK_DEADLOCK FALSE
INVARIANT NothingLost
