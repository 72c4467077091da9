------------------------------ MODULE MamaEvent ------------------------------
(***************************************************************************)
(* The manual-reset event of mamaEnvEvent.c (the GCC implementation): a    *)
(* flag, the mutex that protects it and the condition that wakes those who *)
(* wait for it.  createSession and destroyConnection use one each to wait  *)
(* for the connection's object queue.                                      *)
(*                                                                         *)
(* A call is split where it takes the mutex, where it lets go of it, and   *)
(* where pthread_cond_wait puts it to sleep.  The waits test the flag once *)
(* (`if`, not `while`), so whatever wakes a sleeper ends its wait.         *)
(***************************************************************************)
EXTENDS Naturals

CONSTANTS
    Threads,    \* threads that use the event
    NoThread,   \* owner of a free mutex
    Conditions  \* what the platform may do: a subset of AllConditions

(* spurious   pthread_cond_wait returns though nobody has broadcast        *)
(* lock       pthread_mutex_lock fails                                     *)
(* unlock     pthread_mutex_unlock fails and the caller keeps the mutex    *)
(* broadcast  pthread_cond_broadcast fails                                 *)
(* condWait   pthread_cond_wait or pthread_cond_timedwait fails at once    *)
(* clock      clock_gettime fails                                          *)
AllConditions == {"spurious", "lock", "unlock", "broadcast", "condWait", "clock"}

ASSUME EventAssumption == NoThread \notin Threads /\ Conditions \subseteq AllConditions

VARIABLES
    alive,  \* FALSE once mamaEnv_destroyEvent has freed the event
    state,  \* m_state: 1 while the event is signaled
    mutex,  \* m_mutex: its owner, or NoThread
    pc,     \* where each thread is in its call
    ret,    \* its return code
    seen,   \* history: the event has been signaled during the thread's call
    stray   \* history: threads whose call a spurious wakeup has ended

vars == <<alive, state, mutex, pc, ret, seen, stray>>

Calls    == {"set", "reset", "wait", "timedWait"}
Asleep   == {"asleep", "asleepTimed"}
Holding  == {"broadcast", "signal", "clear", "test", "testTimed", "unlock", "leave"}
Statuses == {"OK", "PLATFORM"}

\* Among the types: the mutex belongs to the thread in a locked section, or to one
\* whose unlock has failed; a sleeper does not keep it.
TypeOK ==
    /\ alive \in BOOLEAN
    /\ state \in {0, 1}
    /\ mutex \in Threads \cup {NoThread}
    /\ pc \in [Threads -> {"idle", "woken"} \cup Calls \cup Asleep \cup Holding]
    /\ ret \in [Threads -> Statuses]
    /\ seen \in [Threads -> BOOLEAN]
    /\ stray \subseteq Threads
    /\ \A t \in Threads :
         /\ pc[t] \in Holding => mutex = t
         /\ mutex = t /\ pc[t] \notin Holding =>
                "unlock" \in Conditions /\ pc[t] \in {"idle"} \cup Calls

\* mamaEnv_createEvent
Init ==
    /\ alive = TRUE
    /\ state = 0
    /\ mutex = NoThread
    /\ pc = [t \in Threads |-> "idle"]
    /\ ret = [t \in Threads |-> "OK"]
    /\ seen = [t \in Threads |-> FALSE]
    /\ stray = {}

Goto(t, place) == pc' = [pc EXCEPT ![t] = place]

\* The call has its status.  It still holds the mutex at "unlock" (set, reset) and
\* at "leave" (the two waits).
End(t, place, status) == Goto(t, place) /\ ret' = [ret EXCEPT ![t] = status]

-----------------------------------------------------------------------------
Call(t, op) ==
    /\ alive /\ pc[t] = "idle"
    /\ Goto(t, op)
    /\ seen' = [seen EXCEPT ![t] = FALSE]
    /\ stray' = stray \ {t}
    /\ UNCHANGED <<alive, state, mutex, ret>>

Locked(op) ==
    CASE op = "set" -> "broadcast"
      [] op = "reset" -> "clear"
      [] op = "wait" -> "test"
      [] op = "timedWait" -> "testTimed"

\* pthread_mutex_lock.  A mutex that a failed unlock has left to its caller is
\* free for nobody, the caller included: it is not recursive.
Lock(t) ==
    /\ pc[t] \in Calls
    /\ mutex = NoThread
    /\ mutex' = t
    /\ Goto(t, Locked(pc[t]))
    /\ UNCHANGED <<alive, state, ret, seen, stray>>

LockFails(t) ==
    /\ "lock" \in Conditions
    /\ pc[t] \in Calls
    /\ Goto(t, "idle")
    /\ ret' = [ret EXCEPT ![t] = "PLATFORM"]
    /\ UNCHANGED <<alive, state, mutex, seen, stray>>

\* pthread_mutex_unlock, and return.
Unlock(t) ==
    /\ pc[t] \in {"unlock", "leave"}
    /\ mutex' = NoThread
    /\ Goto(t, "idle")
    /\ UNCHANGED <<alive, state, ret, seen, stray>>

\* The call has done its work and reports an error.
UnlockFails(t) ==
    /\ "unlock" \in Conditions
    /\ pc[t] \in {"unlock", "leave"}
    /\ End(t, "idle", "PLATFORM")
    /\ UNCHANGED <<alive, state, mutex, seen, stray>>

-----------------------------------------------------------------------------
(* mamaEnv_setEvent                                                        *)

Sleepers == {u \in Threads : pc[u] \in Asleep}

\* (mutant) pthread_cond_signal
BroadcastToOne(t) ==
    /\ pc[t] = "broadcast"
    /\ \E S \in SUBSET Sleepers :
         /\ Sleepers # {} => \E u \in S : S = {u}
         /\ pc' = [u \in Threads |-> IF u \in S THEN "woken"
                                     ELSE IF u = t THEN "signal" ELSE pc[u]]
         /\ ret' = [u \in Threads |-> IF u \in S THEN "OK" ELSE ret[u]]
    /\ UNCHANGED <<alive, state, mutex, seen, stray>>

\* pthread_cond_broadcast: the waits that sleep will return OK.
Broadcast(t) ==
    /\ pc[t] = "broadcast"
    /\ pc' = [u \in Threads |-> IF u \in Sleepers THEN "woken"
                                ELSE IF u = t THEN "signal" ELSE pc[u]]
    /\ ret' = [u \in Threads |-> IF u \in Sleepers THEN "OK" ELSE ret[u]]
    /\ seen' = [u \in Threads |-> seen[u] \/ u \in Sleepers]
    /\ UNCHANGED <<alive, state, mutex, stray>>

\* Nobody is woken, and the flag stays as it was.
BroadcastFails(t) ==
    /\ "broadcast" \in Conditions
    /\ pc[t] = "broadcast"
    /\ End(t, "unlock", "PLATFORM")
    /\ UNCHANGED <<alive, state, mutex, seen, stray>>

Signal(t) ==
    /\ pc[t] = "signal"
    /\ state' = 1
    /\ End(t, "unlock", "OK")
    /\ UNCHANGED <<alive, mutex, seen, stray>>

-----------------------------------------------------------------------------
(* mamaEnv_resetEvent                                                      *)

Clear(t) ==
    /\ pc[t] = "clear"
    /\ state' = 0
    /\ End(t, "unlock", "OK")
    /\ UNCHANGED <<alive, mutex, seen, stray>>

-----------------------------------------------------------------------------
(* mamaEnv_waitEvent and mamaEnv_timedWaitEvent                            *)

\* The event is signaled: there is nothing to wait for.
TestSignaled(t) ==
    /\ pc[t] \in {"test", "testTimed"}
    /\ state = 1
    /\ End(t, "leave", "OK")
    /\ seen' = [seen EXCEPT ![t] = TRUE]
    /\ UNCHANGED <<alive, state, mutex, stray>>

\* pthread_cond_wait lets go of the mutex and sleeps in one step.
Sleep(t) ==
    /\ pc[t] \in {"test", "testTimed"}
    /\ state = 0
    /\ mutex' = NoThread
    /\ Goto(t, IF pc[t] = "test" THEN "asleep" ELSE "asleepTimed")
    /\ UNCHANGED <<alive, state, ret, seen, stray>>

\* The wait ends at once; it has never slept and still holds the mutex.
CondWaitFails(t) ==
    /\ "condWait" \in Conditions
    /\ pc[t] \in {"test", "testTimed"} /\ state = 0
    /\ End(t, "leave", "PLATFORM")
    /\ UNCHANGED <<alive, state, mutex, seen, stray>>

ClockFails(t) ==
    /\ "clock" \in Conditions
    /\ pc[t] = "testTimed" /\ state = 0
    /\ End(t, "leave", "PLATFORM")
    /\ UNCHANGED <<alive, state, mutex, seen, stray>>

\* (mutant) a timeout is reported as success.
TimedOutOk(t) ==
    /\ pc[t] = "asleepTimed"
    /\ Goto(t, "woken")
    /\ ret' = [ret EXCEPT ![t] = "OK"]
    /\ UNCHANGED <<alive, state, mutex, seen, stray>>

\* pthread_cond_timedwait returns ETIMEDOUT, not -1, so the status is not
\* TIMEOUT (:297).
TimedOut(t) ==
    /\ pc[t] = "asleepTimed"
    /\ Goto(t, "woken")
    /\ ret' = [ret EXCEPT ![t] = "PLATFORM"]
    /\ UNCHANGED <<alive, state, mutex, seen, stray>>

SpuriousWakeup(t) ==
    /\ "spurious" \in Conditions
    /\ pc[t] \in Asleep
    /\ Goto(t, "woken")
    /\ ret' = [ret EXCEPT ![t] = "OK"]
    /\ stray' = stray \cup {t}
    /\ UNCHANGED <<alive, state, mutex, seen>>

\* The sleeper has the mutex again; its status is known.
Reacquire(t) ==
    /\ pc[t] = "woken"
    /\ mutex = NoThread
    /\ mutex' = t
    /\ Goto(t, "leave")
    /\ UNCHANGED <<alive, state, ret, seen, stray>>

-----------------------------------------------------------------------------
\* mamaEnv_destroyEvent.  No thread is in a call, or makes one after it.
Destroy ==
    /\ alive
    /\ \A t \in Threads : pc[t] = "idle"
    /\ alive' = FALSE
    /\ UNCHANGED <<state, mutex, pc, ret, seen, stray>>

Enter(t) == Lock(t) \/ Reacquire(t)

Continue(t) ==
    Broadcast(t) \/ Signal(t) \/ Clear(t) \/ TestSignaled(t) \/ Sleep(t) \/ Unlock(t)

Platform(t) ==
    \/ LockFails(t) \/ UnlockFails(t) \/ BroadcastFails(t)
    \/ CondWaitFails(t) \/ ClockFails(t) \/ TimedOut(t) \/ SpuriousWakeup(t)

Next ==
    \/ \E t \in Threads, op \in Calls : Call(t, op)
    \/ \E t \in Threads : Enter(t) \/ Continue(t) \/ Platform(t)
    \/ Destroy

\* A thread that can run does, and one that waits for a mutex which is free
\* again and again is served, as the platform's mutexes do.
Fairness == \A t \in Threads : WF_vars(Continue(t)) /\ SF_vars(Enter(t))

Spec == Init /\ [][Next]_vars
FairSpec == Spec /\ Fairness

-----------------------------------------------------------------------------
(* Properties                                                              *)

\* No wakeup is lost: nobody sleeps while the event is signaled, whatever sets,
\* resets and waits race (the flag is tested and the thread put to sleep under
\* the mutex that a set holds, mamaEnvEvent.c:243-256, :327-332).
NoSleeperWhenSet == state = 1 => Sleepers = {}

\* The inductive form: from its broadcast on, a set keeps out those who would
\* go to sleep.
NoSleeperFromBroadcast ==
    /\ TypeOK
    /\ NoSleeperWhenSet
    /\ \A t \in Threads : pc[t] = "signal" => Sleepers = {}

\* A wait that returns OK has seen the event signaled: the flag was set when it
\* looked, or a set woke it.
WaitMeansSet ==
    \A t \in Threads : pc[t] = "leave" /\ ret[t] = "OK" => seen[t]

\* A wait that returns OK has seen the event signaled, or the platform has woken
\* it for nothing, from the moment it wakes up; a timeout and a failing clock are
\* told apart from both.
OkMeansSet ==
    /\ TypeOK
    /\ \A t \in Threads :
         pc[t] \in {"woken", "leave"} /\ ret[t] = "OK" => seen[t] \/ t \in stray

\* A failed unlock has left the mutex to a thread that is out of its call.
MutexIsLost == \E t \in Threads : mutex = t /\ pc[t] \notin Holding

\* A set whose broadcast has failed; it says so to its caller.
SetHasFailed(t) == pc[t] = "unlock" /\ ret[t] = "PLATFORM"

\* One set that has got the mutex releases every thread that sleeps, even if a
\* reset comes before they have the mutex back; or else it fails and says so, or
\* a failed unlock keeps everyone out of the mutex.
SetReleases ==
    \A t, u \in Threads :
        pc[t] \in Asleep /\ pc[u] = "broadcast"
            ~> pc[t] = "idle" \/ SetHasFailed(u) \/ MutexIsLost
=============================================================================
