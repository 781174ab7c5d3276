\* Two keys, each of which may be a string, a list and a hash at once.
CONSTANTS
    Key = {k1, k2}
    Value = {v1, v2}
    Field = {f1}
    EmptyKey = EmptyKey
    MaxCacheSize = 2
    TTLs = {1}
    MaxTime = 2
    MaxAccess = 2
    MaxListLen = 2
    Log1p <- MCLog1p
SYMMETRY MCSymmetry
SPECIFICATION Spec
INVARIANTS TypeOK MetaTracksStores NoEmptyCollections
INVARIANTS LazyExpiryInvisible LazyUpdatesInvisible
PROPERTIES RenameMovesKey
