CONSTANTS
    x = x
    y = y
    Worker = {w1, w2}
    Main = Main
    Persister = Persister
    Handler = Handler
    Nobody = Nobody
    Write = {x, y}
    NoWrite = NoWrite
    StoreOf <- MCStoreOf
    MaxStarts = 2
SPECIFICATION Spec
INVARIANT TypeOK
PROPERTIES DumpIsSnapshot PeriodicallyPersisted SignalEndsUnlessHeld
\* The process may end for good.
CHECK_DEADLOCK FALSE
