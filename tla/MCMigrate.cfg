\* Three identities: one found in the legacy home, one generated by the client, one by a
\* downgraded service, all in the same second; one failure anywhere.
SPECIFICATION FreshSpec
CONSTANTS
    Ids = {i1, i2, i3}
    Absent = Absent
    Torn = Torn
    Stamps = {1}
    MaxSuffix = 3
    MaxFaults = 1
SYMMETRY Symmetry
INVARIANTS TypeOK NothingLost PublishedWhole InstalledIsDurable
PROPERTIES MovesIdentities FailureRestores LegacySecured StartsClean
