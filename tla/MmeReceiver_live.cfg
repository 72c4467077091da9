\* Progress: an application and the callbacks create and destroy receivers and
\* destroy the session's events; callbacks shut receivers down too; MAMA fails to
\* create some.
CONSTANTS
    s1 = s1
    i1 = i1
    u1 = u1
    a1 = a1
    a2 = a2
    NoThread = NoThread
    None = None
    Sessions = {s1}
    Apps = {a1}
    Inboxes = {i1}
    Subscriptions = {u1}
    Home <- PairHome
    AppOps = {"create", "destroy", "destroyAll"}
    CallbackOps = {"create", "destroy", "shutdown", "destroyAll"}
    Conditions = {"create"}
SPECIFICATION FairSpec
PROPERTIES DestroyCompletes SessionDrains
\* When all objects are gone nothing needs to happen any more.
CHECK_DEADLOCK FALSE
