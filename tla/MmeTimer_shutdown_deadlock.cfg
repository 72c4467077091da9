\* Violation:  an application shuts a timer down while its callback destroys it.
CONSTANTS
    s1 = s1
    s2 = s2
    x1 = x1
    x2 = x2
    a1 = a1
    a2 = a2
    NoThread = NoThread
    None = None
    Sessions = {s1}
    Apps = {a1}
    Timers = {x1, x2}
    Home <- OneHome
    AppOps = {"create", "shutdown"}
    CallbackOps = {"destroy"}
    Conditions = {}
SPECIFICATION Spec
INVARIANT NoCircularWait
CHECK_DEADLOCK FALSE
