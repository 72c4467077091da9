\* The unlocked decrement of synchronizedMap_remove against an insert or a sweep.
CONSTANTS
    Threads = {t1, t2}
    Keys = {k1, k2}
    NoThread = NoThread
    NoKey = NoKey
SPECIFICATION Spec
SYMMETRY Symmetry
INVARIANT CountIsZero
CHECK_DEADLOCK FALSE
