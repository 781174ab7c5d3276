\* One client, every command, proper and improper, room for one entry.
CONSTANTS
    k1 = k1
    k2 = k2
    f1 = f1
    f2 = f2
    v1 = v1
    v2 = v2
    e1 = e1
    e2 = e2
    e3 = e3
    e4 = e4
    word = word
    EmptyKey = EmptyKey
    Log1p <- MCLog1p
    Key = {k1, k2}
    Field = {f1}
    Value = {v1, v2}
    Worker = {w1}
    Requests <- MCCommands
    Pushes <- MCNone
    MaxCacheSize = 1
    TTLs = {1}
    MaxTime = 1
    MaxAccess = 5
    MaxListLen = 2
SPECIFICATION HandlerSpec
INVARIANTS HandlerTypeOK RepliesWellFormed
PROPERTIES ErrorsChangeNothing ImplementsDatabase
\* A push stops where the bounds do.
CHECK_DEADLOCK FALSE
