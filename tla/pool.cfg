\* More tasks than workers, and workers than one.
CONSTANTS
    Worker = {w1, w2, w3}
    Task = {t1, t2, t3}
    NoTask = NoTask
    Nobody = Nobody
SPECIFICATION Spec
INVARIANTS TypeOK NoLostWakeup
PROPERTY ImplementsWorkQueue
