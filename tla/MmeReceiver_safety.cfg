\* An inbox and a subscription on one session, two applications; applications and
\* callbacks call everything, and what may fail in the environment does.
CONSTANTS
    s1 = s1
    i1 = i1
    u1 = u1
    a1 = a1
    a2 = a2
    NoThread = NoThread
    None = None
    Sessions = {s1}
    Apps = {a1, a2}
    Inboxes = {i1}
    Subscriptions = {u1}
    Home <- PairHome
    AppOps = {"create", "destroy", "shutdown", "destroyAll", "stop"}
    CallbackOps = {"create", "destroy", "shutdown", "destroyAll", "stop"}
    Conditions = {"alloc", "create", "enqueue", "abandon", "unreported"}
SPECIFICATION Spec
SYMMETRY Apps2
INVARIANTS InUse NoUseAfterFree ShutdownQuiesces
INVARIANTS FinaliseNeverWaits OnlyShutdownDeadlocks
PROPERTY ImplementsEventObject
\* When all objects are gone nothing needs to happen any more.
CHECK_DEADLOCK FALSE
