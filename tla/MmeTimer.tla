------------------------------ MODULE MmeTimer ------------------------------
(***************************************************************************)
(* Session timers: creation, ticks, shutdown and destruction               *)
(* (mamaEnvTimer.c, the timer functions of mamaEnvSession.c and            *)
(* mamaManagedEnvironment.c).                                              *)
(*                                                                         *)
(* A session has one queue and one dispatcher, so a session stands for its *)
(* dispatcher's thread too.  The dispatcher runs the ticks of the timers   *)
(* of its session and the destroy events queued for them.  Application     *)
(* threads, and the callbacks the dispatchers run, call the API.  A timer  *)
(* has two locks: m_lock covers its callback, m_destroyLock makes the      *)
(* dispatcher stand back between two ticks so that a thread that wants to  *)
(* destroy the timer gets m_lock.                                          *)
(*                                                                         *)
(* The session's map is the atomic hand-off that SynchronizedMap refines   *)
(* (HandoffMap); its lock is a variable here because `for` holds it while  *)
(* shutdown waits for m_lock.                                              *)
(***************************************************************************)
EXTENDS WLock, FiniteSets

CONSTANTS
    Sessions,     \* sessions, and their dispatcher threads
    Apps,         \* application threads
    Timers,       \* timers that may be created
    Home,         \* the session each timer is created on
    AppOps,       \* what application threads call: a subset of Operations
    CallbackOps,  \* what timer callbacks call
    Conditions,   \* what the environment may do: a subset of AllConditions
    None          \* no timer and no session

Operations == {"create", "destroy", "shutdown", "destroyAll"}

(* early    a callback uses its own timer before createTimer has returned  *)
(* late     createTimer is running, or is called by a callback, while the  *)
(*          session is destroyed                                           *)
(* alloc    mamaEnvTimer_allocate fails                                    *)
(* nullLock wlock_create fails for m_destroyLock                           *)
(* timer    mamaTimer_create fails                                         *)
(* insert   synchronizedMap_insert fails                                   *)
(* enqueue  mamaQueue_enqueueEvent fails                                   *)
(* abandon  removeAll leaves entries behind, when its count is too small   *)
(*          (SynchronizedMap.tla, SweepStop)                               *)
AllConditions == {"early", "late", "alloc", "nullLock", "timer", "insert",
                  "enqueue", "abandon"}

Threads == Apps \cup Sessions

ASSUME ConstantsAssumption ==
    /\ Apps \cap Sessions = {}
    /\ Timers \cap Sessions = {}
    /\ NoThread \notin Threads
    /\ None \notin Timers \cup Sessions
    /\ Home \in [Timers -> Sessions]
    /\ AppOps \subseteq Operations
    /\ CallbackOps \subseteq Operations
    /\ Conditions \subseteq AllConditions

VARIABLES
    phase,        \* the mmeTimer: not there, allocated, with a mamaTimer, freed
    callback,     \* m_callback is not NULL
    lock,         \* m_lock
    destroyLock,  \* m_destroyLock
    nullLock,     \* timers whose m_destroyLock could not be created
    map,          \* the timers that are in their session's m_timers
    mapLock,      \* who holds the lock of each session's m_timers over a step
    queued,       \* how many onTimerDestroy events are queued for each timer
    pc,           \* where each thread is in the API
    arg,          \* the timer or session of the call
    claimed,      \* what the call has taken out of the map
    dpc,          \* where each dispatcher is
    dtimer,       \* the timer it serves
    published,    \* timers whose handle createTimer has returned
    closing,      \* sessions whose destruction has begun
    destroyed,    \* history: destroyTimer has taken the timer out of the map, or
                  \* has not found it with the handle createTimer returned
    silenced      \* history: no callback of the timer may run any more

mapVars    == <<map, mapLock>>
lockVars   == <<lock, destroyLock, nullLock>>
callVars   == <<pc, arg, claimed>>
dispVars   == <<dpc, dtimer>>
histVars   == <<published, closing, destroyed, silenced>>
vars == <<phase, callback, lock, destroyLock, nullLock, map, mapLock, queued,
          pc, arg, claimed, dpc, dtimer, published, closing, destroyed, silenced>>

CreatePlaces   == {"createTimer", "insert", "publish"}
DestroyPlaces  == {"destroyLock", "clear", "enqueue"}
CallPlaces     == {"idle", "remove", "find", "shutdown", "removeAll", "sweep"}
                    \cup CreatePlaces \cup DestroyPlaces
TickPlaces     == {"tickLock", "callback", "handshake", "standBack"}
FinalPlaces    == {"finalDestroyLock", "finalLock"}
DispatchPlaces == {"idle"} \cup TickPlaces \cup FinalPlaces

ObjectTypes ==
    /\ phase \in [Timers -> {"none", "allocated", "open", "freed"}]
    /\ callback \in [Timers -> BOOLEAN]
    /\ lock \in [Timers -> Locks(Threads)]
    /\ destroyLock \in [Timers -> Locks(Threads)]
    /\ nullLock \subseteq Timers
    /\ map \subseteq Timers
    /\ mapLock \in [Sessions -> Threads \cup {NoThread}]
    /\ queued \in [Timers -> Nat]
    /\ published \subseteq Timers
    /\ closing \subseteq Sessions
    /\ destroyed \subseteq Timers
    /\ silenced \subseteq Timers

CallTypes ==
    /\ pc \in [Threads -> CallPlaces]
    /\ arg \in [Threads -> Timers \cup Sessions \cup {None}]
    /\ claimed \in [Threads -> SUBSET Timers]
    /\ \A t \in Threads :
         /\ pc[t] \in {"remove", "find", "shutdown"} \cup CreatePlaces
                        \cup DestroyPlaces => arg[t] \in Timers
         /\ pc[t] = "removeAll" => arg[t] \in Sessions

DispatchTypes ==
    /\ dpc \in [Sessions -> DispatchPlaces]
    /\ dtimer \in [Sessions -> Timers \cup {None}]
    /\ \A s \in Sessions : dpc[s] # "idle" =>
         dtimer[s] \in Timers /\ Home[dtimer[s]] = s

TypeOK == ObjectTypes /\ CallTypes /\ DispatchTypes

Init ==
    /\ phase = [x \in Timers |-> "none"]
    /\ callback = [x \in Timers |-> FALSE]
    /\ lock = [x \in Timers |-> Free]
    /\ destroyLock = [x \in Timers |-> Free]
    /\ nullLock = {}
    /\ map = {}
    /\ mapLock = [s \in Sessions |-> NoThread]
    /\ queued = [x \in Timers |-> 0]
    /\ pc = [t \in Threads |-> "idle"]
    /\ arg = [t \in Threads |-> None]
    /\ claimed = [t \in Threads |-> {}]
    /\ dpc = [s \in Sessions |-> "idle"]
    /\ dtimer = [s \in Sessions |-> None]
    /\ published = {}
    /\ closing = {}
    /\ destroyed = {}
    /\ silenced = {}

-----------------------------------------------------------------------------
\* A dispatcher calls the API only from inside a callback.
CanCall(t, op) ==
    /\ pc[t] = "idle"
    /\ IF t \in Apps THEN op \in AppOps
       ELSE op \in CallbackOps /\ dpc[t] = "callback"

\* The handles a thread can know: those createTimer has returned, and the one
\* that was passed to the callback the thread is running.
Knows(t, x) ==
    \/ x \in published
    \/ "early" \in Conditions /\ t \in Sessions /\ dtimer[t] = x

Goto(t, place, what) ==
    /\ pc' = [pc EXCEPT ![t] = place]
    /\ arg' = [arg EXCEPT ![t] = what]

Return(t) == Goto(t, "idle", None)

MapFree(x) == mapLock[Home[x]] = NoThread

\* No thread is creating a timer on session s.
NoCreation(s) ==
    \A u \in Threads : pc[u] \in CreatePlaces => Home[arg[u]] # s

-----------------------------------------------------------------------------
(* mamaEnv_createTimer                                                     *)

\* mamaEnvTimer_allocate.  If m_destroyLock cannot be created the function
\* still reports success (mamaEnvTimer.c:25-31).
CreateAllocate(t, x) ==
    /\ CanCall(t, "create")
    /\ phase[x] = "none"
    /\ Home[x] \notin closing \/ ("late" \in Conditions /\ t \in Sessions)
    /\ \/ /\ phase' = [phase EXCEPT ![x] = "allocated"]
          /\ callback' = [callback EXCEPT ![x] = TRUE]
          /\ \/ UNCHANGED nullLock
             \/ "nullLock" \in Conditions /\ nullLock' = nullLock \cup {x}
          /\ Goto(t, "createTimer", x)
       \/ /\ "alloc" \in Conditions
          /\ phase' = [phase EXCEPT ![x] = "freed"]
          /\ UNCHANGED <<callback, nullLock, pc, arg>>
    /\ UNCHANGED <<lock, destroyLock, mapVars, queued, claimed, dispVars, histVars>>

\* (mutant) the handle is given out before the timer is in the map.
CreateMamaTimerPublishes(t) ==
    LET x == arg[t] IN
    /\ pc[t] = "createTimer"
    /\ phase' = [phase EXCEPT ![x] = "open"]
    /\ published' = published \cup {x}
    /\ Goto(t, "insert", x)
    /\ UNCHANGED <<callback, lockVars, mapVars, queued, claimed, dispVars, closing,
                   destroyed, silenced>>

\* mamaTimer_create: from here on the timer ticks.
CreateMamaTimer(t) ==
    LET x == arg[t] IN
    /\ pc[t] = "createTimer"
    /\ phase' = [phase EXCEPT ![x] = "open"]
    /\ Goto(t, "insert", x)
    /\ UNCHANGED <<callback, lockVars, mapVars, queued, claimed, dispVars, histVars>>

\* synchronizedMap_insert.
CreateInsert(t) ==
    LET x == arg[t] IN
    /\ pc[t] = "insert"
    /\ MapFree(x)
    /\ map' = map \cup {x}
    /\ Goto(t, "publish", x)
    /\ UNCHANGED <<phase, callback, lockVars, mapLock, queued, claimed, dispVars, histVars>>

\* mamaTimer_create or synchronizedMap_insert has failed: the calling thread
\* destroys the wrapper on the spot (mamaEnvSession.c:111-113).
CreateFails(t) ==
    LET x == arg[t] IN
    /\ \/ pc[t] = "createTimer" /\ "timer" \in Conditions
       \/ pc[t] = "insert" /\ "insert" \in Conditions
    /\ phase' = [phase EXCEPT ![x] = "freed"]
    /\ Return(t)
    /\ UNCHANGED <<callback, lockVars, mapVars, queued, claimed, dispVars, histVars>>

\* localMamaTimer = timer->m_timer, after the timer has been put into the map.
CreateReturn(t) ==
    /\ pc[t] = "publish"
    /\ published' = published \cup {arg[t]}
    /\ Return(t)
    /\ UNCHANGED <<phase, callback, lockVars, mapVars, queued, claimed, dispVars,
                   closing, destroyed, silenced>>

-----------------------------------------------------------------------------
(* mamaEnv_destroyTimer and mamaEnvSession_destroyTimer                    *)

DestroyTimer(t, x) ==
    /\ CanCall(t, "destroy")
    /\ Knows(t, x)
    /\ Goto(t, "remove", x)
    /\ UNCHANGED <<phase, callback, lockVars, mapVars, queued, claimed, dispVars, histVars>>

\* (mutants) the timer is found but not removed; the map stays locked.
DestroyFind(t) ==
    LET x == arg[t] IN
    /\ pc[t] = "remove"
    /\ MapFree(x)
    /\ x \in map
    /\ claimed' = [claimed EXCEPT ![t] = @ \cup {x}]
    /\ destroyed' = destroyed \cup {x}
    /\ Goto(t, "destroyLock", x)
    /\ UNCHANGED <<phase, callback, lockVars, mapVars, queued, dispVars,
                   published, closing, silenced>>

DestroyRemoveKeepsLock(t) ==
    LET x == arg[t] IN
    /\ pc[t] = "remove"
    /\ MapFree(x)
    /\ x \in map
    /\ map' = map \ {x}
    /\ mapLock' = [mapLock EXCEPT ![Home[x]] = t]
    /\ claimed' = [claimed EXCEPT ![t] = @ \cup {x}]
    /\ destroyed' = destroyed \cup {x}
    /\ Goto(t, "destroyLock", x)
    /\ UNCHANGED <<phase, callback, lockVars, queued, dispVars,
                   published, closing, silenced>>

\* synchronizedMap_remove finds the timer: this thread will destroy it.
DestroyRemove(t) ==
    LET x == arg[t] IN
    /\ pc[t] = "remove"
    /\ MapFree(x)
    /\ x \in map
    /\ map' = map \ {x}
    /\ claimed' = [claimed EXCEPT ![t] = @ \cup {x}]
    /\ destroyed' = destroyed \cup {x}
    /\ Goto(t, "destroyLock", x)
    /\ UNCHANGED <<phase, callback, lockVars, mapLock, queued, dispVars,
                   published, closing, silenced>>

\* It does not: "it has already been removed, still return OK".
DestroyAbsent(t) ==
    LET x == arg[t] IN
    /\ pc[t] = "remove"
    /\ MapFree(x)
    /\ x \notin map
    /\ destroyed' = destroyed \cup ({x} \cap published)
    /\ Return(t)
    /\ UNCHANGED <<phase, callback, lockVars, mapVars, queued, claimed, dispVars,
                   published, closing, silenced>>

DestroyLock(t) ==
    LET x == arg[t] IN
    /\ pc[t] = "destroyLock"
    /\ x \notin nullLock
    /\ CanLock(destroyLock[x], t)
    /\ destroyLock' = [destroyLock EXCEPT ![x] = Locked(@, t)]
    /\ Goto(t, "clear", x)
    /\ UNCHANGED <<phase, callback, lock, nullLock, mapVars, queued, claimed,
                   dispVars, histVars>>

\* A callback that silences its own timer is still running; it ends before it
\* counts as silenced (TickReturn).
Silence(t, x) ==
    /\ callback' = [callback EXCEPT ![x] = FALSE]
    /\ silenced' = IF t \in Sessions /\ dtimer[t] = x THEN silenced
                   ELSE silenced \cup {x}

\* Lock m_lock, clear the callback, unlock both locks.
DestroyClear(t) ==
    LET x == arg[t] IN
    /\ pc[t] = "clear"
    /\ CanLock(lock[x], t)
    /\ Silence(t, x)
    /\ destroyLock' = [destroyLock EXCEPT ![x] = Unlocked(@, t)]
    /\ Goto(t, "enqueue", x)
    /\ UNCHANGED <<phase, lock, nullLock, mapVars, queued, claimed, dispVars,
                   published, closing, destroyed>>

\* (mutant) the sweep ends after its first timer.
DestroyEnqueueOne(t) ==
    LET x == arg[t] IN
    /\ pc[t] = "enqueue"
    /\ queued' = [queued EXCEPT ![x] = @ + 1]
    /\ claimed' = [claimed EXCEPT ![t] = {}]
    /\ Return(t)
    /\ UNCHANGED <<phase, callback, lockVars, mapVars, dispVars, histVars>>

\* mamaQueue_enqueueEvent; then the next entry of the sweep, or return.
DestroyEnqueue(t) ==
    LET x == arg[t] IN
    /\ pc[t] = "enqueue"
    /\ \/ queued' = [queued EXCEPT ![x] = @ + 1]
       \/ "enqueue" \in Conditions /\ UNCHANGED queued
    /\ claimed' = [claimed EXCEPT ![t] = @ \ {x}]
    /\ IF claimed'[t] = {} THEN Return(t) ELSE Goto(t, "sweep", None)
    /\ UNCHANGED <<phase, callback, lockVars, mapVars, dispVars, histVars>>

-----------------------------------------------------------------------------
(* mamaEnv_shutdownTimer                                                   *)

ShutdownTimer(t, x) ==
    /\ CanCall(t, "shutdown")
    /\ Knows(t, x)
    /\ Goto(t, "find", x)
    /\ UNCHANGED <<phase, callback, lockVars, mapVars, queued, claimed, dispVars, histVars>>

\* (mutant) find the timer in the map, then shut it down without the map's lock.
ShutdownFindUnlocked(t) ==
    LET x == arg[t] IN
    /\ pc[t] = "find"
    /\ MapFree(x)
    /\ IF x \in map THEN Goto(t, "shutdown", x) ELSE Return(t)
    /\ UNCHANGED <<phase, callback, lockVars, mapVars, queued, claimed, dispVars, histVars>>

\* synchronizedMap_for finds the timer and keeps the map locked; or it returns
\* NOT_FOUND.
ShutdownFind(t) ==
    LET x == arg[t] IN
    /\ pc[t] = "find"
    /\ MapFree(x)
    /\ IF x \in map
       THEN mapLock' = [mapLock EXCEPT ![Home[x]] = t] /\ Goto(t, "shutdown", x)
       ELSE Return(t) /\ UNCHANGED mapLock
    /\ UNCHANGED <<phase, callback, lockVars, map, queued, claimed, dispVars, histVars>>

\* (mutant) the callback is cleared without m_lock.
ShutdownClearUnlocked(t) ==
    LET x == arg[t] IN
    /\ pc[t] = "shutdown"
    /\ Silence(t, x)
    /\ mapLock' = [mapLock EXCEPT ![Home[x]] = NoThread]
    /\ Return(t)
    /\ UNCHANGED <<phase, lockVars, map, queued, claimed, dispVars, published,
                   closing, destroyed>>

\* mamaEnvTimer_shutdown: lock, clear the callback, unlock; unlock the map.
ShutdownClear(t) ==
    LET x == arg[t] IN
    /\ pc[t] = "shutdown"
    /\ CanLock(lock[x], t)
    /\ Silence(t, x)
    /\ mapLock' = [mapLock EXCEPT ![Home[x]] = NoThread]
    /\ Return(t)
    /\ UNCHANGED <<phase, lockVars, map, queued, claimed, dispVars, published,
                   closing, destroyed>>

-----------------------------------------------------------------------------
(* mamaEnvSession_destroyAllEvents, the timers' part                       *)

\* Called once for a session; the application does not call createTimer on it
\* any more, and unless "late" no call is in progress and no callback makes one.
DestroyAllEvents(t, s) ==
    /\ CanCall(t, "destroyAll")
    /\ s \notin closing
    /\ NoCreation(s) \/ "late" \in Conditions
    /\ closing' = closing \cup {s}
    /\ Goto(t, "removeAll", s)
    /\ UNCHANGED <<phase, callback, lockVars, mapVars, queued, claimed, dispVars,
                   published, destroyed, silenced>>

HomeTimers(s) == {x \in map : Home[x] = s}

\* synchronizedMap_removeAll empties the map at once.
SweepMap(t) ==
    LET s == arg[t] IN
    /\ pc[t] = "removeAll"
    /\ mapLock[s] = NoThread
    /\ map' = map \ HomeTimers(s)
    /\ \E S \in SUBSET HomeTimers(s) :
         /\ S = HomeTimers(s) \/ "abandon" \in Conditions
         /\ claimed' = [claimed EXCEPT ![t] = S]
         /\ IF S = {} THEN Return(t) ELSE Goto(t, "sweep", None)
    /\ UNCHANGED <<phase, callback, lockVars, mapLock, queued, dispVars, histVars>>

\* mamaEnvSession_onDestroyAllTimersCallback for the next entry.
SweepNext(t) ==
    /\ pc[t] = "sweep"
    /\ \E x \in claimed[t] : Goto(t, "destroyLock", x)
    /\ UNCHANGED <<phase, callback, lockVars, mapVars, queued, claimed, dispVars, histVars>>

-----------------------------------------------------------------------------
(* The dispatcher                                                          *)

Dispatch(s, place, x) ==
    /\ dpc' = [dpc EXCEPT ![s] = place]
    /\ dtimer' = [dtimer EXCEPT ![s] = x]

\* The queue holds a tick of a timer that exists: mamaEnvTimer_onTimerTick.
TickBegin(s, x) ==
    /\ dpc[s] = "idle"
    /\ Home[x] = s
    /\ phase[x] = "open"
    /\ Dispatch(s, "tickLock", x)
    /\ UNCHANGED <<phase, callback, lockVars, mapVars, queued, callVars, histVars>>

\* (mutant) the callback runs without m_lock.
TickUnlocked(s) ==
    LET x == dtimer[s] IN
    /\ dpc[s] = "tickLock"
    /\ Dispatch(s, IF callback[x] THEN "callback" ELSE "handshake", x)
    /\ UNCHANGED <<phase, callback, lockVars, mapVars, queued, callVars, histVars>>

\* Lock m_lock; run the callback if there is one, else unlock.
TickLock(s) ==
    LET x == dtimer[s] IN
    /\ dpc[s] = "tickLock"
    /\ CanLock(lock[x], s)
    /\ IF callback[x]
       THEN lock' = [lock EXCEPT ![x] = Locked(@, s)] /\ Dispatch(s, "callback", x)
       ELSE UNCHANGED lock /\ Dispatch(s, "handshake", x)
    /\ UNCHANGED <<phase, callback, destroyLock, nullLock, mapVars, queued,
                   callVars, histVars>>

\* (mutant) the dispatcher does not stand back between two ticks.
TickReturnAtOnce(s) ==
    LET x == dtimer[s] IN
    /\ dpc[s] = "callback"
    /\ pc[s] = "idle"
    /\ lock' = [lock EXCEPT ![x] = Unlocked(@, s)]
    /\ silenced' = IF callback[x] THEN silenced ELSE silenced \cup {x}
    /\ Dispatch(s, "idle", None)
    /\ UNCHANGED <<phase, callback, destroyLock, nullLock, mapVars, queued,
                   callVars, published, closing, destroyed>>

\* The callback returns; unlock m_lock.
TickReturn(s) ==
    LET x == dtimer[s] IN
    /\ dpc[s] = "callback"
    /\ pc[s] = "idle"
    /\ lock' = [lock EXCEPT ![x] = Unlocked(@, s)]
    /\ silenced' = IF callback[x] THEN silenced ELSE silenced \cup {x}
    /\ Dispatch(s, "handshake", x)
    /\ UNCHANGED <<phase, callback, destroyLock, nullLock, mapVars, queued,
                   callVars, published, closing, destroyed>>

\* "Allow destroy function to grab the main lock": lock m_destroyLock ...
TickHandshake(s) ==
    LET x == dtimer[s] IN
    /\ dpc[s] = "handshake"
    /\ x \notin nullLock
    /\ CanLock(destroyLock[x], s)
    /\ destroyLock' = [destroyLock EXCEPT ![x] = Locked(@, s)]
    /\ Dispatch(s, "standBack", x)
    /\ UNCHANGED <<phase, callback, lock, nullLock, mapVars, queued, callVars, histVars>>

\* ... and unlock it.
TickEnd(s) ==
    LET x == dtimer[s] IN
    /\ dpc[s] = "standBack"
    /\ destroyLock' = [destroyLock EXCEPT ![x] = Unlocked(@, s)]
    /\ Dispatch(s, "idle", None)
    /\ UNCHANGED <<phase, callback, lock, nullLock, mapVars, queued, callVars, histVars>>

\* mamaEnvTimer_onTimerDestroy is dispatched.
FinaliseBegin(s, x) ==
    /\ dpc[s] = "idle"
    /\ Home[x] = s
    /\ queued[x] > 0
    /\ queued' = [queued EXCEPT ![x] = @ - 1]
    /\ Dispatch(s, "finalDestroyLock", x)
    /\ UNCHANGED <<phase, callback, lockVars, mapVars, callVars, histVars>>

FinaliseLock(s) ==
    LET x == dtimer[s] IN
    /\ dpc[s] = "finalDestroyLock"
    /\ x \notin nullLock
    /\ CanLock(destroyLock[x], s)
    /\ destroyLock' = [destroyLock EXCEPT ![x] = Locked(@, s)]
    /\ Dispatch(s, "finalLock", x)
    /\ UNCHANGED <<phase, callback, lock, nullLock, mapVars, queued, callVars, histVars>>

\* Lock m_lock and mamaEnvTimer_destroy: the mama timer, both locks and the
\* wrapper are gone.
FinaliseFree(s) ==
    LET x == dtimer[s] IN
    /\ dpc[s] = "finalLock"
    /\ CanLock(lock[x], s)
    /\ phase' = [phase EXCEPT ![x] = "freed"]
    /\ lock' = [lock EXCEPT ![x] = Free]
    /\ destroyLock' = [destroyLock EXCEPT ![x] = Free]
    /\ Dispatch(s, "idle", None)
    /\ UNCHANGED <<callback, nullLock, mapVars, queued, callVars, histVars>>

-----------------------------------------------------------------------------
\* The API calls a thread may begin, and the steps of a call that has begun.
Begin(t) ==
    \/ \E x \in Timers : CreateAllocate(t, x) \/ DestroyTimer(t, x) \/ ShutdownTimer(t, x)
    \/ \E s \in Sessions : DestroyAllEvents(t, s)

WaitMap(t) ==
    CreateInsert(t) \/ DestroyRemove(t) \/ DestroyAbsent(t) \/ ShutdownFind(t) \/ SweepMap(t)

Continue(t) ==
    \/ CreateMamaTimer(t) \/ CreateFails(t) \/ CreateReturn(t)
    \/ DestroyClear(t) \/ DestroyEnqueue(t)
    \/ ShutdownClear(t)
    \/ SweepNext(t)

Tick(s) == TickLock(s) \/ TickHandshake(s) \/ TickEnd(s)

Finalise(s) == FinaliseLock(s) \/ FinaliseFree(s)

Next ==
    \/ \E t \in Threads : Begin(t) \/ WaitMap(t) \/ DestroyLock(t) \/ Continue(t)
    \/ \E s \in Sessions :
         \/ \E x \in Timers : TickBegin(s, x) \/ FinaliseBegin(s, x)
         \/ Tick(s) \/ TickReturn(s) \/ Finalise(s)

Spec == Init /\ [][Next]_vars

(* A thread that can go on does (WF).  The map's lock and m_destroyLock are *)
(* held for a few instructions at a time, so who waits for them is served  *)
(* in the end (SF).  Nothing of the kind is assumed of m_lock, which the   *)
(* dispatcher of a busy timer holds nearly all the time.  A callback       *)
(* returns, whatever it calls (SF), and the queue is a FIFO: a destroy     *)
(* event in it is dispatched however many ticks there are (SF).            *)
Fairness ==
    /\ \A t \in Threads :
         WF_vars(Continue(t)) /\ SF_vars(WaitMap(t)) /\ SF_vars(DestroyLock(t))
    /\ \A s \in Sessions :
         /\ WF_vars(Tick(s)) /\ SF_vars(TickReturn(s)) /\ WF_vars(Finalise(s))
         /\ \A x \in Timers : SF_vars(FinaliseBegin(s, x))

FairSpec == Spec /\ Fairness

-----------------------------------------------------------------------------
(* Properties                                                              *)

\* The thread is at a statement that reads or writes the wrapper x.
Uses(t, x) ==
    \/ arg[t] = x /\ pc[t] \in CreatePlaces \cup DestroyPlaces \cup {"shutdown"}
    \/ t \in Sessions /\ dpc[t] # "idle" /\ dtimer[t] = x

\* A timer is freed only when no thread, the dispatcher included, is using its
\* wrapper, no event for it is queued and the map cannot lead to it any more.
NoUseAfterFree ==
    \A x \in Timers : phase[x] = "freed" =>
        /\ \A t \in Threads : ~Uses(t, x) /\ x \notin claimed[t]
        /\ queued[x] = 0
        /\ x \notin map

\* At most one destroy event is ever queued for a timer, however many threads
\* destroy it and its session at the same time.
DestroyedOnce ==
    \A x \in Timers :
        /\ queued[x] <= 1
        /\ \A t, u \in Threads : x \in claimed[t] \cap claimed[u] => t = u
        /\ queued[x] > 0 => x \notin map /\ \A t \in Threads : x \notin claimed[t]

\* When shutdownTimer has returned, or destroyTimer has cleared the callback, no
\* thread is running the timer's callback, and none will (ReadMe.md:84-86, 126).
ShutdownQuiesces ==
    \A s \in Sessions : dpc[s] = "callback" => dtimer[s] \notin silenced

\* onTimerDestroy never has to wait for a lock: by the time the event is
\* dispatched every thread that could hold one has let go of it, so the two
\* locks are destroyed unlocked (mamaEnvTimer.c:92-97).
FinaliseNeverWaits ==
    \A s \in Sessions :
        /\ dpc[s] = "finalDestroyLock" => CanLock(destroyLock[dtimer[s]], s)
        /\ dpc[s] \in FinalPlaces => CanLock(lock[dtimer[s]], s)

\* The thread that t waits for, if any.
WaitsFor(t) ==
    LET x == IF t \in Sessions /\ pc[t] = "idle" THEN dtimer[t] ELSE arg[t]
        place == IF t \in Sessions /\ pc[t] = "idle" THEN dpc[t] ELSE pc[t]
        owner ==
            CASE place \in {"insert", "remove", "find"} -> mapLock[Home[x]]
              [] place = "removeAll" -> mapLock[x]
              [] place \in {"destroyLock", "handshake", "finalDestroyLock"} ->
                   destroyLock[x].owner
              [] place \in {"clear", "shutdown", "tickLock", "finalLock"} -> lock[x].owner
              [] OTHER -> t
    IN IF owner = t THEN NoThread ELSE owner

\* No threads wait for one another's locks in a circle.
NoCircularWait ==
    \A S \in SUBSET Threads : S # {} => \E t \in S : WaitsFor(t) \notin S

\* destroyTimer does what its return code says: a timer it did not find "has
\* already been removed", and no timer it was called for with the handle that
\* createTimer has returned is in the map, or gets there (mamaEnvSession.c:227).
DestroyTakesEffect == destroyed \cap map = {}

\* A timer for which destroyTimer is called is freed in the end, however often
\* it ticks.
DestroyCompletes ==
    \A x \in Timers :
        (\E t \in Threads : pc[t] = "remove" /\ arg[t] = x) ~> phase[x] = "freed"

\* A session that is destroyed gets rid of every timer, so that its queue can be
\* destroyed in the end (ReadMe.md:8; mamaEnvSession.c:282).
SessionDrains ==
    \A s \in Sessions : s \in closing ~>
        \A x \in Timers : Home[x] = s => phase[x] \in {"none", "freed"}

-----------------------------------------------------------------------------
(* The inductive invariants.  Custody: a timer is being created, or is in  *)
(* the map, or belongs to one call that destroys it, or waits in the queue, *)
(* or is being finalised; the clauses say so pair by pair.                 *)

Creating(t, x) == pc[t] \in {"createTimer", "insert"} /\ arg[t] = x
Finalising(x)  == dpc[Home[x]] \in FinalPlaces /\ dtimer[Home[x]] = x
Ticking(x)     == dpc[Home[x]] \in TickPlaces /\ dtimer[Home[x]] = x
InCallback(x)  == dpc[Home[x]] = "callback" /\ dtimer[Home[x]] = x

Unclaimed(x) == \A t \in Threads : x \notin claimed[t]

MapCustody ==
    \A x \in map : Unclaimed(x) /\ queued[x] = 0 /\ ~Finalising(x)

ClaimCustody ==
    \A t \in Threads, x \in Timers : x \in claimed[t] =>
        /\ \A u \in Threads : x \in claimed[u] => u = t
        /\ queued[x] = 0 /\ ~Finalising(x)

QueueCustody ==
    \A x \in Timers : queued[x] <= 1 /\ (queued[x] > 0 => ~Finalising(x))

CreateCustody ==
    \A t \in Threads, x \in Timers : Creating(t, x) =>
        /\ x \notin map /\ Unclaimed(x) /\ queued[x] = 0 /\ ~Finalising(x)
        /\ \A u \in Threads : Creating(u, x) => u = t

\* What has not been created is nowhere.
NoneIsNowhere ==
    \A x \in Timers : phase[x] = "none" =>
        /\ x \notin map /\ Unclaimed(x) /\ queued[x] = 0
        /\ ~Finalising(x) /\ ~Ticking(x)
        /\ x \notin silenced
        /\ \A t \in Threads : ~Creating(t, x) /\ ~(pc[t] = "shutdown" /\ arg[t] = x)

\* A call that destroys timers works on one it has claimed; no other call has any.
\* A dispatcher is in a call only while it runs a callback.
CallCustody ==
    /\ \A s \in Sessions : pc[s] # "idle" => dpc[s] = "callback"
    /\ \A t \in Threads :
         /\ pc[t] \in DestroyPlaces => arg[t] \in claimed[t]
         /\ pc[t] \notin DestroyPlaces \cup {"sweep"} => claimed[t] = {}

\* m_lock is held, over a step, only while the callback runs.
LockCustody ==
    \A x \in Timers :
        lock[x] = IF InCallback(x) THEN [owner |-> Home[x], depth |-> 1] ELSE Free

HoldsDestroyLock(t, x) ==
    \/ pc[t] = "clear" /\ arg[t] = x
    \/ t \in Sessions /\ dpc[t] \in {"standBack", "finalLock"} /\ dtimer[t] = x

DestroyLockCustody ==
    \A x \in Timers :
        /\ \A t \in Threads :
             HoldsDestroyLock(t, x) => destroyLock[x] = [owner |-> t, depth |-> 1]
        /\ (\A t \in Threads : ~HoldsDestroyLock(t, x)) => destroyLock[x] = Free

\* A silenced timer has no callback, so that no tick runs one.
SilencedStaysSilent == \A x \in silenced : ~callback[x]

Custody ==
    /\ TypeOK
    /\ MapCustody /\ ClaimCustody /\ QueueCustody /\ CreateCustody
    /\ NoneIsNowhere /\ CallCustody
    /\ LockCustody /\ DestroyLockCustody
    /\ SilencedStaysSilent /\ ShutdownQuiesces

(* What holds besides when createTimer is not raced by its own callback or *)
(* by destroySession, and its insertion does not fail.                     *)
Quiet == Conditions \cap {"early", "late", "insert"} = {}

\* Whatever somebody may still use exists.
InUseIsOpen ==
    \A x \in Timers :
        /\ x \in map => phase[x] = "open"
        /\ ~Unclaimed(x) => phase[x] = "open"
        /\ queued[x] > 0 => phase[x] = "open"
        /\ Finalising(x) \/ Ticking(x) => phase[x] = "open"
        /\ \A t \in Threads : arg[t] = x =>
             /\ pc[t] = "createTimer" => phase[x] = "allocated"
             /\ pc[t] = "insert" => phase[x] = "open"

\* A timer that createTimer is about to return is in the map and known to nobody.
UnpublishedIsPrivate ==
    /\ \A t \in Threads : pc[t] \in CreatePlaces => arg[t] \notin published
    /\ \A x \in published : phase[x] # "none"
    /\ \A t \in Threads : pc[t] = "publish" => arg[t] \in map
    /\ \A t \in Threads : pc[t] \in {"remove", "find", "shutdown"} => arg[t] \in published
    /\ destroyed \subseteq published
    /\ \A s \in closing : NoCreation(s)
    /\ \A t \in Threads : pc[t] = "removeAll" => arg[t] \in closing
    /\ \A t, u \in Threads :
         pc[t] \in CreatePlaces /\ pc[u] \in CreatePlaces /\ arg[t] = arg[u] => t = u

\* The map's lock pins the timer that shutdown works on.
ShutdownPins ==
    /\ \A t \in Threads : pc[t] = "shutdown" =>
         arg[t] \in map /\ mapLock[Home[arg[t]]] = t
    /\ \A s \in Sessions : mapLock[s] # NoThread =>
         pc[mapLock[s]] = "shutdown" /\ Home[arg[mapLock[s]]] = s

InUse ==
    /\ Custody
    /\ InUseIsOpen /\ UnpublishedIsPrivate /\ ShutdownPins
    /\ DestroyTakesEffect

\* A new timer has its callback; from the destroy event on it has none.
CallbackStages ==
    /\ \A t \in Threads :
         /\ pc[t] = "createTimer" => callback[arg[t]]
         /\ pc[t] = "enqueue" => ~callback[arg[t]]
    /\ \A x \in Timers : queued[x] > 0 \/ Finalising(x) => ~callback[x]

-----------------------------------------------------------------------------
\* Timers keep the promise of EventObject.
Stage(x) ==
    CASE phase[x] \in {"none", "allocated"} -> "absent"
      [] phase[x] = "freed" -> "gone"
      [] phase[x] = "open" ->
           IF x \in map \/ \E t \in Threads : pc[t] = "insert" /\ arg[t] = x
           THEN "live" ELSE "claimed"

CanTick(x) == phase[x] = "open" /\ callback[x]

Abstract == INSTANCE EventObject WITH
    Objects <- Timers,
    stage   <- [x \in Timers |-> Stage(x)],
    enabled <- [x \in Timers |-> CanTick(x)],
    running <- [x \in Timers |-> InCallback(x)],
    quiet   <- [x \in Timers |-> x \in silenced]

ImplementsEventObject == Abstract!Spec
=============================================================================
