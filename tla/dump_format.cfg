\* Two keys of any type, dumped and loaded at any time, with spaces in what is stored.
CONSTANTS
    k1 = k1
    k2 = k2
    f1 = f1
    v1 = v1
    Key = {k1, k2}
    Field = {f1}
    Value = {v1}
    WordsIn <- MCWordsIn
    EmptyKey = EmptyKey
    MaxCacheSize = 2
    TTLs = {1}
    MaxTime = 1
    MaxAccess = 2
    MaxListLen = 1
    Log1p <- MCLog1p
SPECIFICATION DumpSpec
INVARIANT SilentLoadLosesNothing
SYMMETRY MCSymmetry
