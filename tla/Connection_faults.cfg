\* Whatever may fail does, and callbacks call the API while the connection is
\* destroyed.
CONSTANTS
    s1 = s1
    s2 = s2
    s3 = s3
    a1 = a1
    a2 = a2
    Main = a1
    Obj = Obj
    NoThread = NoThread
    None = None
    Sessions = {s1, s2, s3}
    Apps = {a1, a2}
    Operations = {"create", "destroy", "appDestroy"}
    Conditions = {"alloc", "enqueue", "create", "nomem", "sweep", "stop", "dispatch",
                  "race", "late", "spurious", "waitFails", "reuse"}
SPECIFICATION Spec
SYMMETRY Symmetry
INVARIANTS Custody JoinNeverWaits UtilityAlive
\* When the connection is gone nothing needs to happen any more.
CHECK_DEADLOCK FALSE
