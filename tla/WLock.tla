-------------------------------- MODULE WLock --------------------------------
(***************************************************************************)
(* The wlock of the WOMBAT common library, as the code under src/ uses it: *)
(* a mutex its owner may take again.  mamaEnvTimer_onTimerTick holds       *)
(* m_lock while the callback runs, and the callback may destroy its own    *)
(* timer, which takes m_lock once more (mamaEnvTimer.c:115-119,            *)
(* mamaEnvSession.c:482-490).                                              *)
(***************************************************************************)
EXTENDS Integers

CONSTANT NoThread

Free == [owner |-> NoThread, depth |-> 0]

Locks(T) == [owner : T \cup {NoThread}, depth : Nat]

CanLock(l, t) == l.owner \in {t, NoThread}

Locked(l, t) == [owner |-> t, depth |-> l.depth + 1]

\* Unlocking a lock that the thread does not own has no effect.
Unlocked(l, t) ==
    IF l.owner # t THEN l
    ELSE IF l.depth = 1 THEN Free
    ELSE [owner |-> t, depth |-> l.depth - 1]

=============================================================================
