\* The events of one of two sessions cannot be destroyed.
CONSTANTS
    s1 = s1
    s2 = s2
    s3 = s3
    a1 = a1
    a2 = a2
    Main = a1
    Obj = Obj
    NoThread = NoThread
    None = None
    Sessions = {s1, s2}
    Apps = {a1}
    Operations = {}
    Conditions = {"sweep"}
SPECIFICATION Spec
INVARIANT AllDestroyed
\* When the connection is gone nothing needs to happen any more.
CHECK_DEADLOCK FALSE
