\* Two threads, two keys: every interleaving of two calls.
CONSTANTS
    Threads = {t1, t2}
    Keys = {k1, k2}
    NoThread = NoThread
    NoKey = NoKey
SPECIFICATION FairSpec
INVARIANTS HandedOnce ForPinsEntry LockDiscipline FirstErrorKept
PROPERTIES CallsReturn ImplementsHandoff
\* Once the map is destroyed no call is made any more.
CHECK_DEADLOCK FALSE
