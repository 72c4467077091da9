\* Three threads make every call; the platform does what it may.
CONSTANTS
    Threads = {t1, t2, t3}
    NoThread = NoThread
    Conditions = {"spurious", "lock", "unlock", "broadcast", "condWait", "clock"}
SPECIFICATION FairSpec
INVARIANTS NoSleeperFromBroadcast OkMeansSet
PROPERTY SetReleases
\* Once the event is destroyed no call is made any more.
CHECK_DEADLOCK FALSE
