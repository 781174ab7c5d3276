\* Two pushes of two elements on one list, and what other clients do to it.
CONSTANTS
    k1 = k1
    k2 = k2
    f1 = f1
    f2 = f2
    v1 = v1
    v2 = v2
    e1 = e1
    e2 = e2
    e3 = e3
    e4 = e4
    word = word
    EmptyKey = EmptyKey
    Log1p <- MCLog1p
    Key = {k1, k2}
    Field = {}
    Value = {v1, e1, e2, e3, e4}
    Worker = {w1, w2}
    Requests <- MCMeddling
    Pushes <- MCPushes
    MaxCacheSize = 2
    TTLs = {1}
    MaxTime = 1
    MaxAccess = 5
    MaxListLen = 4
SPECIFICATION HandlerSpec
INVARIANTS PushedInOrder
\* A push stops where the bounds do.
CHECK_DEADLOCK FALSE
