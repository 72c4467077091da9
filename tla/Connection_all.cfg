\* Two sessions, two applications; callbacks create and destroy sessions too,
\* and mamaEnvSession_create may fail.
CONSTANTS
    s1 = s1
    s2 = s2
    s3 = s3
    a1 = a1
    a2 = a2
    Main = a1
    Obj = Obj
    NoThread = NoThread
    None = None
    Sessions = {s1, s2}
    Apps = {a1, a2}
    Operations = {"create", "destroy", "appDestroy"}
    Conditions = {"create"}
SPECIFICATION FairSpec
INVARIANTS NothingLost AllDestroyed NoCircularWait
PROPERTIES ImplementsLifecycle CreateReturns DestroyedIsFreed ConnectionIsFreed
\* When the connection is gone nothing needs to happen any more.
CHECK_DEADLOCK FALSE
