\* Two commands, replies of every form, requests in pieces, a server that may die.
CONSTANTS
    k1 = k1
    k2 = k2
    f1 = f1
    f2 = f2
    v1 = v1
    v2 = v2
    e1 = e1
    e2 = e2
    e3 = e3
    e4 = e4
    word = word
    EmptyKey = EmptyKey
    junk = junk
    star1 = star1
    Star = Star
    Length = Length
    Starred = {star1}
    Tears <- MCTears
    Log1p <- MCLog1p
    Pushes <- MCNone
    Key = {k1}
    Field = {f1}
    Value = {v1, star1}
    Worker = {w1}
    MaxCacheSize = 2
    TTLs = {1}
    MaxTime = 1
    Requests <- MCTyped
    MaxCuts = 2
    MaxCommands = 2
    MaxAccess = 29
    MaxListLen = 30
SPECIFICATION ClientSpec
INVARIANT InStep
PROPERTY PromptReturns
\* The client may quit.
CHECK_DEADLOCK FALSE
