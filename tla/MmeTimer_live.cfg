\* Progress, under ticks that never end: applications create and destroy timers
\* and destroy a session's events, callbacks shut timers down too.
CONSTANTS
    s1 = s1
    s2 = s2
    x1 = x1
    x2 = x2
    a1 = a1
    a2 = a2
    NoThread = NoThread
    None = None
    Sessions = {s1}
    Apps = {a1}
    Timers = {x1, x2}
    Home <- OneHome
    AppOps = {"create", "destroy", "destroyAll"}
    CallbackOps = {"create", "destroy", "shutdown", "destroyAll"}
    Conditions = {"timer"}
SPECIFICATION FairSpec
INVARIANT NoCircularWait
PROPERTIES DestroyCompletes SessionDrains
\* When both timers are gone nothing needs to happen any more.
CHECK_DEADLOCK FALSE
