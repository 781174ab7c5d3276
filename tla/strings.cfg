\* Three interchangeable keys, one string each, room for two.
CONSTANTS
    Key = {k1, k2, k3}
    Value = {v1}
    Field = {}
    EmptyKey = EmptyKey
    MaxCacheSize = 2
    TTLs = {1, 2}
    MaxTime = 3
    MaxAccess = 3
    MaxListLen = 0
    Log1p <- MCLog1p
SYMMETRY MCSymmetry
SPECIFICATION Spec
INVARIANTS WithinCapacity StatsPopulated
PROPERTIES EvictsExpiredFirst EvictionSparesBetterKeys DeadlineOnlyByOwner
