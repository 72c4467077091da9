\* Two sessions with one timer each, two applications; callbacks call everything,
\* applications everything but the sweep of a session (a callback of the other
\* session does that), and what may fail in the environment does.
CONSTANTS
    s1 = s1
    s2 = s2
    x1 = x1
    x2 = x2
    a1 = a1
    a2 = a2
    NoThread = NoThread
    None = None
    Sessions = {s1, s2}
    Apps = {a1, a2}
    Timers = {x1, x2}
    Home <- TwoHomes
    AppOps = {"create", "destroy", "shutdown"}
    CallbackOps = {"create", "destroy", "shutdown", "destroyAll"}
    Conditions = {"alloc", "nullLock", "timer", "enqueue", "abandon"}
SPECIFICATION Spec
SYMMETRY Apps2
INVARIANTS InUse NoUseAfterFree DestroyedOnce ShutdownQuiesces DestroyTakesEffect
PROPERTY ImplementsEventObject
\* When both timers are gone nothing needs to happen any more.
CHECK_DEADLOCK FALSE
