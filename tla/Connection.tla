----------------------------- MODULE Connection -----------------------------
(***************************************************************************)
(* Connections and their sessions (mamaEnvConnection.c, and the functions  *)
(* of mamaEnvSession.c it calls to create and destroy a session).          *)
(*                                                                         *)
(* A connection has two lists of sessions, a queue whose dispatcher (Obj   *)
(* here) creates and frees sessions, and a timer on that queue.  A caller  *)
(* of createSession waits for Obj to start the session's dispatcher;       *)
(* destroySession moves the session to the second list, where each tick of *)
(* the timer looks for sessions whose event objects are gone, stops their  *)
(* dispatchers and frees them.  destroyConnection stops the timer,         *)
(* destroys all sessions and makes Obj do the same until the list is       *)
(* empty.                                                                  *)
(*                                                                         *)
(* The event objects of a session are one value here: none, live, or       *)
(* claimed by destroyAllEvents (MmeTimer.tla has the details).  A session  *)
(* stands for its dispatcher's thread too.                                 *)
(***************************************************************************)
EXTENDS Naturals, Sequences, FiniteSets

CONSTANTS
    Sessions,     \* sessions that may be created, and their dispatchers
    Apps,         \* application threads
    Main,         \* the one that created the connection
    Obj,          \* the dispatcher of m_objectQueue
    Operations,   \* what is called: a subset of AllOperations
    Conditions,   \* what may go wrong: a subset of AllConditions
    NoThread,     \* owner of a list no thread has locked
    None          \* no session

\* Callbacks create sessions and destroy their own, applications destroy sessions;
\* that applications create sessions goes without saying.
AllOperations == {"create", "destroy", "appDestroy"}

(* alloc    a map of mamaEnvSession_allocate cannot be created             *)
(* enqueue  mamaQueue_enqueueEvent, or mamaEnv_createEvent before it, fails*)
(* create   mamaEnvSession_create fails                                    *)
(* nomem    list_allocate_element has no memory                            *)
(* sweep    mamaEnvSession_destroyAllEvents fails: an object cannot be     *)
(*          destroyed                                                      *)
(* stop     mamaEnvSession_destroy fails                                   *)
(* dispatch mamaQueue_timedDispatch fails                                  *)
(* race     callbacks call the API while the connection is destroyed       *)
(* late     a callback creates an event object on its session, which is    *)
(*          being destroyed (MmeTimer.tla, SessionDrains)                  *)
(* spurious a wait ends with OK before its event is signaled              *)
(*          (MamaEvent.tla, WaitMeansSet)                                  *)
(* waitFails  mamaEnv_waitEvent fails                                      *)
(* reuse    the memory of a list element that has been freed is given to   *)
(*          the next one                                                   *)
AllConditions == {"alloc", "enqueue", "create", "nomem", "sweep", "stop",
                  "dispatch", "race", "late", "spurious", "waitFails", "reuse"}

Callers == Apps \cup Sessions
Threads == Callers \cup {Obj}

ASSUME ConnectionAssumption ==
    /\ Main \in Apps
    /\ Apps \cap Sessions = {}
    /\ Obj \notin Callers
    /\ NoThread \notin Threads
    /\ None \notin Sessions
    /\ Operations \subseteq AllOperations
    /\ Conditions \subseteq AllConditions

VARIABLES
    connection,         \* open, or freed by destroyConnection
    timer,              \* m_sessionTimer ticks
    sessions,           \* m_sessions
    destroyedSessions,  \* m_destroyedSessions
    sessionsLock,       \* the thread that enumerates m_sessions
    destroyedLock,      \* the thread that enumerates m_destroyedSessions
    queue,              \* m_objectQueue: the creator of a create event, or Obj
                        \* for onDestroyAllSessions
    destroySynch,       \* m_destroySynch is signaled
    phase,              \* the memory of each mmeSession
    dispatcher,         \* its queue and dispatcher
    objects,            \* its event objects
    inCallback,         \* its dispatcher runs a callback of one of them
    utility,            \* a creator's utility structure: m_status when m_synch
                        \* is signaled
    pc,                 \* where each thread is
    arg,                \* the session it works on
    todo,               \* the elements left of its list_for_each
    failed,             \* m_error of Main's list_for_each is not OK
    lastEvent,          \* Obj is in onDestroyAllSessions
    left,               \* the session in the utility structure of a creator whose
                        \* wait ended early, while an event points there
    closing,            \* history: sessions whose destruction has begun
    reused              \* history: Obj has read a list element after its memory
                        \* was given away

listVars    == <<sessions, destroyedSessions, sessionsLock, destroyedLock>>
queueVars   == <<queue, destroySynch, lastEvent, left>>
sessionVars == <<phase, dispatcher, objects, inCallback>>
callVars    == <<utility, pc, arg, todo, failed>>
vars == <<reused, connection, timer, closing, sessions, destroyedSessions,
          sessionsLock, destroyedLock, queue, destroySynch, lastEvent, left, phase,
          dispatcher, objects, inCallback, utility, pc, arg, todo, failed>>

CreatePlaces  == {"enqueue", "wait", "add"}
DestroyPlaces == {"remove", "sweep", "mark"}
MainPlaces    == {"each", "waitAll", "freeConnection"}
ObjPlaces     == {"enumerate", "stop", "freeSession", "timedDispatch", "signal"}
Places == {"idle"} \cup CreatePlaces \cup DestroyPlaces \cup MainPlaces \cup ObjPlaces

ListTypes ==
    /\ connection \in {"open", "freed"}
    /\ timer \in BOOLEAN /\ destroySynch \in BOOLEAN /\ reused \in BOOLEAN
    /\ failed \in BOOLEAN /\ lastEvent \in BOOLEAN
    /\ sessions \subseteq Sessions /\ destroyedSessions \subseteq Sessions
    /\ closing \subseteq Sessions
    /\ sessionsLock \in {Main, NoThread} /\ destroyedLock \in {Obj, NoThread}
    /\ queue \in Seq(Threads)
    /\ left \in [Callers -> Sessions \cup {None}]

SessionTypes ==
    /\ phase \in [Sessions -> {"none", "allocated", "freed"}]
    /\ dispatcher \in [Sessions -> {"none", "running", "stopped"}]
    /\ objects \in [Sessions -> {"none", "live", "claimed"}]
    /\ inCallback \in [Sessions -> BOOLEAN]

CallTypes ==
    /\ utility \in [Callers -> {"none", "pending", "OK", "failed"}]
    /\ pc \in [Threads -> Places]
    /\ \A t \in Callers : pc[t] \notin ObjPlaces
    /\ \A t \in Threads \ {Main} : pc[t] \notin MainPlaces
    /\ pc[Obj] \in {"idle"} \cup ObjPlaces
    /\ arg \in [Threads -> Sessions \cup {None}]
    /\ todo \in [{Main, Obj} -> SUBSET Sessions]

TypeOK == ListTypes /\ SessionTypes /\ CallTypes

\* mamaEnv_createConnection
Init ==
    /\ connection = "open"
    /\ reused = FALSE
    /\ timer = TRUE
    /\ closing = {}
    /\ sessions = {} /\ destroyedSessions = {}
    /\ sessionsLock = NoThread /\ destroyedLock = NoThread
    /\ queue = <<>>
    /\ destroySynch = FALSE
    /\ lastEvent = FALSE
    /\ left = [t \in Callers |-> None]
    /\ phase = [s \in Sessions |-> "none"]
    /\ dispatcher = [s \in Sessions |-> "none"]
    /\ objects = [s \in Sessions |-> "none"]
    /\ inCallback = [s \in Sessions |-> FALSE]
    /\ utility = [t \in Callers |-> "none"]
    /\ pc = [t \in Threads |-> "idle"]
    /\ arg = [t \in Threads |-> None]
    /\ todo = [t \in {Main, Obj} |-> {}]
    /\ failed = FALSE

-----------------------------------------------------------------------------
Goto(t, place, s) ==
    /\ pc' = [pc EXCEPT ![t] = place]
    /\ arg' = [arg EXCEPT ![t] = s]

Return(t) == Goto(t, "idle", None)

\* Once destroyConnection has been called nobody else uses the connection, but
\* for the callbacks, which the application cannot stop.
CanCall(t) ==
    /\ pc[t] = "idle"
    /\ connection = "open"
    /\ timer \/ ("race" \in Conditions /\ t \in Sessions)
    /\ t \in Sessions => inCallback[t]

\* A list can be locked, once more, by the thread that enumerates it.
CanLock(owner, t) == owner \in {t, NoThread}

\* mamaEnvSession_deallocate
Deallocate(s) == phase' = [phase EXCEPT ![s] = "freed"]

-----------------------------------------------------------------------------
(* mamaEnv_createSession                                                   *)

\* mamaEnvSession_allocate.  If one of its maps cannot be created it returns
\* NOMEM and the structure, which nobody frees (mamaEnvSession.c:254-275).
AllocateSession(t, s) ==
    /\ CanCall(t)
    /\ t \in Sessions => "create" \in Operations
    /\ phase[s] = "none"
    /\ phase' = [phase EXCEPT ![s] = "allocated"]
    /\ \/ Goto(t, "enqueue", s)
       \/ "alloc" \in Conditions /\ UNCHANGED <<pc, arg>>
    /\ UNCHANGED <<reused, connection, timer, closing, listVars, queueVars,
                   dispatcher, objects, inCallback, utility, todo, failed>>

EnqueueCreate(t) ==
    /\ pc[t] = "enqueue"
    /\ \/ /\ queue' = Append(queue, t)
          /\ utility' = [utility EXCEPT ![t] = "pending"]
          /\ Goto(t, "wait", arg[t])
          /\ UNCHANGED phase
       \/ /\ "enqueue" \in Conditions
          /\ Deallocate(arg[t])
          /\ Return(t)
          /\ UNCHANGED <<queue, utility>>
    /\ UNCHANGED <<reused, connection, timer, closing, listVars, destroySynch,
                   lastEvent, left, dispatcher, objects, inCallback, todo,
                   failed>>

\* createSession leaves its utility structure, and m_synch.  If its wait has ended
\* early an event still points there.
LeaveUtility(t, early) ==
    /\ utility' = [utility EXCEPT ![t] = "none"]
    /\ left' = [left EXCEPT ![t] =
         IF (early \/ @ # None) /\ \E i \in 1..Len(queue) : queue[i] = t
         THEN arg[t] ELSE None]

\* (mutant) the session is not freed when its creation has failed.
WaitCreatedKeeps(t) ==
    /\ pc[t] = "wait" /\ utility[t] # "pending"
    /\ LeaveUtility(t, FALSE)
    /\ IF utility[t] = "failed" THEN Return(t) ELSE Goto(t, "add", arg[t])
    /\ UNCHANGED <<reused, connection, timer, closing, listVars, queue,
                   destroySynch, lastEvent, sessionVars, todo, failed>>

\* The wait ends when m_synch is signaled, with what Obj has put into m_status;
\* or before that, and then m_status is the OK of createSession; or it fails.
WaitCreated(t) ==
    /\ pc[t] = "wait"
    /\ \/ /\ \/ utility[t] = "OK" /\ LeaveUtility(t, FALSE)
             \/ /\ "spurious" \in Conditions /\ utility[t] = "pending"
                /\ LeaveUtility(t, TRUE)
          /\ Goto(t, "add", arg[t])
          /\ UNCHANGED phase
       \/ /\ \/ utility[t] = "failed" /\ LeaveUtility(t, FALSE)
             \/ "waitFails" \in Conditions /\ LeaveUtility(t, TRUE)
          /\ Deallocate(arg[t])
          /\ Return(t)
    /\ UNCHANGED <<reused, connection, timer, closing, listVars, queue,
                   destroySynch, lastEvent, dispatcher, objects, inCallback,
                   todo, failed>>

\* mamaEnvConnection_addSessionToList.  Without memory for the element, the
\* session is freed while its dispatcher runs.
AddSession(t) ==
    /\ pc[t] = "add"
    /\ \/ /\ CanLock(sessionsLock, t)
          /\ sessions' = sessions \cup {arg[t]}
          /\ UNCHANGED phase
       \/ /\ "nomem" \in Conditions
          /\ Deallocate(arg[t])
          /\ UNCHANGED sessions
    /\ Return(t)
    /\ UNCHANGED <<reused, connection, timer, closing, destroyedSessions,
                   sessionsLock, destroyedLock, queueVars, dispatcher, objects,
                   inCallback, utility, todo, failed>>

-----------------------------------------------------------------------------
(* mamaEnv_destroySession                                                  *)

\* A session is destroyed by one caller: there is no second handle to it, but for
\* the one its own callbacks have.
DestroySession(t, s) ==
    /\ CanCall(t)
    /\ IF t \in Sessions THEN "destroy" \in Operations /\ t = s
                         ELSE "appDestroy" \in Operations
    /\ s \in sessions /\ s \notin closing
    /\ closing' = closing \cup {s}
    /\ Goto(t, "remove", s)
    /\ UNCHANGED <<reused, connection, timer, listVars, queueVars, sessionVars,
                   utility, todo, failed>>

\* The call ends; Main goes on with its list_for_each, if it is in one, whose
\* m_error is overwritten by each element's status (mamaEnvConnection.c:461).
DestroyReturns(t, error) ==
    IF t = Main /\ sessionsLock = Main
    THEN Goto(t, "each", None) /\ failed' = error
    ELSE Return(t) /\ UNCHANGED failed

\* (mutant) the session stays in m_sessions.
RemoveSessionNot(t) ==
    /\ pc[t] = "remove"
    /\ CanLock(sessionsLock, t)
    /\ Goto(t, "sweep", arg[t])
    /\ UNCHANGED <<reused, connection, timer, closing, listVars, queueVars,
                   sessionVars, utility, todo, failed>>

\* (mutant) m_sessions stays locked.
RemoveSessionKeepsLock(t) ==
    /\ pc[t] = "remove"
    /\ CanLock(sessionsLock, t)
    /\ sessions' = sessions \ {arg[t]}
    /\ sessionsLock' = t
    /\ Goto(t, "sweep", arg[t])
    /\ UNCHANGED <<reused, connection, timer, closing, destroyedSessions,
                   destroyedLock, queueVars, sessionVars, utility, todo,
                   failed>>

RemoveSession(t) ==
    /\ pc[t] = "remove"
    /\ CanLock(sessionsLock, t)
    /\ sessions' = sessions \ {arg[t]}
    /\ Goto(t, "sweep", arg[t])
    /\ UNCHANGED <<reused, connection, timer, closing, destroyedSessions,
                   sessionsLock, destroyedLock, queueVars, sessionVars, utility,
                   todo, failed>>

\* mamaEnvSession_destroyAllEvents: it waits for callbacks of the session, unless
\* it is called by one.
SweepEvents(t) ==
    LET s == arg[t] IN
    /\ pc[t] = "sweep"
    /\ ~inCallback[s] \/ t = s
    /\ objects' = [objects EXCEPT ![s] = IF @ = "live" THEN "claimed" ELSE @]
    /\ \/ Goto(t, "mark", s) /\ UNCHANGED failed
       \/ /\ "sweep" \in Conditions /\ objects[s] = "live"
          /\ DestroyReturns(t, TRUE)
    /\ UNCHANGED <<reused, connection, timer, closing, listVars, queueVars,
                   phase, dispatcher, inCallback, utility, todo>>

\* (mutant) the session is put back into m_sessions.
MarkDestroyedInSessions(t) ==
    /\ pc[t] = "mark"
    /\ CanLock(sessionsLock, t)
    /\ sessions' = sessions \cup {arg[t]}
    /\ DestroyReturns(t, FALSE)
    /\ UNCHANGED <<reused, connection, timer, closing, destroyedSessions,
                   sessionsLock, destroyedLock, queueVars, sessionVars, utility,
                   todo>>

MarkDestroyed(t) ==
    /\ pc[t] = "mark"
    /\ \/ /\ CanLock(destroyedLock, t)
          /\ destroyedSessions' = destroyedSessions \cup {arg[t]}
          /\ DestroyReturns(t, FALSE)
       \/ /\ "nomem" \in Conditions
          /\ DestroyReturns(t, TRUE)
          /\ UNCHANGED destroyedSessions
    /\ UNCHANGED <<reused, connection, timer, closing, sessions, sessionsLock,
                   destroyedLock, queueVars, sessionVars, utility, todo>>

-----------------------------------------------------------------------------
(* mamaEnv_destroyConnection                                               *)

\* mamaTimer_destroy, and the start of list_for_each on m_sessions.  (If
\* mamaTimer_destroy fails the call returns and nothing has changed.)
DestroyConnection ==
    /\ connection = "open" /\ timer /\ pc[Main] = "idle"
    /\ \A t \in Apps : pc[t] = "idle"
    /\ "race" \in Conditions \/ \A t \in Sessions : pc[t] = "idle"
    /\ timer' = FALSE
    /\ sessionsLock' = Main
    /\ todo' = [todo EXCEPT ![Main] = sessions]
    /\ failed' = FALSE
    /\ Goto(Main, "each", None)
    /\ UNCHANGED <<reused, connection, closing, sessions, destroyedSessions,
                   destroyedLock, queueVars, sessionVars, utility>>

\* mamaEnvConnection_onSessionListEnumerate
EachSession ==
    /\ pc[Main] = "each"
    /\ \E s \in todo[Main] :
         /\ todo' = [todo EXCEPT ![Main] = @ \ {s}]
         /\ closing' = closing \cup {s}
         /\ Goto(Main, "remove", s)
    /\ UNCHANGED <<reused, connection, timer, listVars, queueVars, sessionVars,
                   utility, failed>>

EnqueueDestroyAll ==
    /\ pc[Main] = "each" /\ todo[Main] = {}
    /\ sessionsLock' = NoThread
    /\ \/ /\ ~failed
          /\ queue' = Append(queue, Obj)
          /\ Goto(Main, "waitAll", None)
       \/ /\ failed \/ "enqueue" \in Conditions
          /\ Return(Main)
          /\ UNCHANGED queue
    /\ UNCHANGED <<reused, connection, timer, closing, sessions,
                   destroyedSessions, destroyedLock, destroySynch, lastEvent,
                   left, sessionVars, utility, todo, failed>>

\* When the wait fails nothing is freed, and there is no second try.
WaitDestroyed ==
    /\ pc[Main] = "waitAll"
    /\ \/ /\ destroySynch \/ "spurious" \in Conditions
          /\ Goto(Main, "freeConnection", None)
       \/ "waitFails" \in Conditions /\ Return(Main)
    /\ UNCHANGED <<reused, connection, timer, closing, listVars, queueVars,
                   sessionVars, utility, todo, failed>>

\* mamaEnvConnection_deallocate: mamaDispatcher_destroy joins Obj's thread.
FreeConnection ==
    /\ pc[Main] = "freeConnection"
    /\ pc[Obj] = "idle"
    /\ connection' = "freed"
    /\ Return(Main)
    /\ UNCHANGED <<reused, timer, closing, listVars, queueVars, sessionVars,
                   utility, todo, failed>>

-----------------------------------------------------------------------------
(* The dispatcher of the object queue                                      *)

\* The event of t at the head of the queue points to t's structure; or to the stack
\* where t had one, and then to the structure of its next call, if it waits again.
\* (It may find garbage there as well: the program then ends, and so does the
\* behaviour.)
PointsToCall(t) == pc[t] = "wait"
EventSession(t) == IF PointsToCall(t) THEN arg[t] ELSE left[t]

TakeEvent(t) ==
    /\ queue' = Tail(queue)
    /\ left' = [left EXCEPT ![t] =
         IF \E i \in 2..Len(queue) : queue[i] = t THEN @ ELSE None]

\* m_status, and m_synch is signaled.
Signal(t, status) ==
    utility' = IF PointsToCall(t) THEN [utility EXCEPT ![t] = status] ELSE utility

\* (mutant) the creator is told nothing when the creation fails.
OnSessionCreateSilent ==
    /\ connection = "open"
    /\ pc[Obj] \in {"idle", "timedDispatch"}
    /\ queue # <<>> /\ Head(queue) # Obj
    /\ LET t == Head(queue) IN
       /\ \/ /\ dispatcher' = [dispatcher EXCEPT ![EventSession(t)] = "running"]
             /\ Signal(t, "OK")
          \/ "create" \in Conditions /\ UNCHANGED <<dispatcher, utility>>
       /\ TakeEvent(t)
    /\ UNCHANGED <<reused, connection, timer, closing, listVars, destroySynch,
                   lastEvent, phase, objects, inCallback, pc, arg, todo,
                   failed>>

\* (mutant) a creation that has failed is queued once more.
OnSessionCreateRetries ==
    /\ connection = "open"
    /\ pc[Obj] \in {"idle", "timedDispatch"}
    /\ queue # <<>> /\ Head(queue) # Obj
    /\ LET t == Head(queue) IN
       \/ /\ dispatcher' = [dispatcher EXCEPT ![EventSession(t)] = "running"]
          /\ Signal(t, "OK")
          /\ TakeEvent(t)
       \/ /\ "create" \in Conditions
          /\ Signal(t, "failed")
          /\ queue' = Append(Tail(queue), t)
          /\ UNCHANGED <<dispatcher, left>>
    /\ UNCHANGED <<reused, connection, timer, closing, listVars, destroySynch,
                   lastEvent, phase, objects, inCallback, pc, arg, todo,
                   failed>>

\* mamaEnvConnection_onSessionCreate, from the queue or from a timedDispatch.
OnSessionCreate ==
    /\ connection = "open"
    /\ pc[Obj] \in {"idle", "timedDispatch"}
    /\ queue # <<>> /\ Head(queue) # Obj
    /\ LET t == Head(queue) IN
       /\ \/ /\ dispatcher' = [dispatcher EXCEPT ![EventSession(t)] = "running"]
             /\ Signal(t, "OK")
          \/ /\ "create" \in Conditions
             /\ Signal(t, "failed")
             /\ UNCHANGED dispatcher
       /\ TakeEvent(t)
    /\ UNCHANGED <<reused, connection, timer, closing, listVars, destroySynch,
                   lastEvent, phase, objects, inCallback, pc, arg, todo,
                   failed>>

\* The start of list_for_each on m_destroyedSessions.
EnumerateDestroyed ==
    /\ destroyedLock' = Obj
    /\ todo' = [todo EXCEPT ![Obj] = destroyedSessions]
    /\ Goto(Obj, "enumerate", None)

OnSessionTimerTick ==
    /\ connection = "open" /\ timer
    /\ pc[Obj] = "idle"
    /\ EnumerateDestroyed
    /\ UNCHANGED <<reused, connection, timer, closing, sessions,
                   destroyedSessions, sessionsLock, queueVars, sessionVars,
                   utility, failed>>

\* (mutant) the event is not signaled when there is no session.
OnDestroyAllSilent ==
    /\ connection = "open"
    /\ pc[Obj] = "idle"
    /\ queue # <<>> /\ Head(queue) = Obj
    /\ queue' = Tail(queue)
    /\ IF destroyedSessions = {}
       THEN UNCHANGED <<destroyedLock, todo, pc, arg, lastEvent>>
       ELSE EnumerateDestroyed /\ lastEvent' = TRUE
    /\ UNCHANGED <<reused, connection, timer, closing, sessions,
                   destroyedSessions, sessionsLock, destroySynch, left,
                   sessionVars, utility, failed>>

OnDestroyAllSessions ==
    /\ connection = "open"
    /\ pc[Obj] = "idle"
    /\ queue # <<>> /\ Head(queue) = Obj
    /\ queue' = Tail(queue)
    /\ lastEvent' = TRUE
    /\ IF destroyedSessions = {}
       THEN Goto(Obj, "signal", None) /\ UNCHANGED <<destroyedLock, todo>>
       ELSE EnumerateDestroyed
    /\ UNCHANGED <<reused, connection, timer, closing, sessions,
                   destroyedSessions, sessionsLock, destroySynch, left,
                   sessionVars, utility, failed>>

\* mamaEnvSession_canDestroy: the session has a queue, and no objects are open.
CanDestroy(s) == dispatcher[s] # "none" /\ objects[s] = "none"

SkipSession ==
    /\ pc[Obj] = "enumerate"
    /\ \E s \in todo[Obj] :
         /\ ~CanDestroy(s)
         /\ todo' = [todo EXCEPT ![Obj] = @ \ {s}]
    /\ UNCHANGED <<reused, connection, timer, closing, listVars, queueVars,
                   sessionVars, utility, pc, arg, failed>>

\* (mutant) canDestroy is not asked.
TakeSessionUnasked ==
    /\ pc[Obj] = "enumerate"
    /\ \E s \in todo[Obj] :
         /\ todo' = [todo EXCEPT ![Obj] = @ \ {s}]
         /\ destroyedSessions' = destroyedSessions \ {s}
         /\ Goto(Obj, "stop", s)
    /\ UNCHANGED <<reused, connection, timer, closing, sessions, sessionsLock,
                   destroyedLock, queueVars, sessionVars, utility, failed>>

\* The session leaves the list.  Its element is freed with it, and read twice more.
TakeSession ==
    /\ pc[Obj] = "enumerate"
    /\ \E s \in todo[Obj] :
         /\ CanDestroy(s)
         /\ todo' = [todo EXCEPT ![Obj] = @ \ {s}]
         /\ destroyedSessions' = destroyedSessions \ {s}
         /\ Goto(Obj, "stop", s)
    /\ UNCHANGED <<reused, connection, timer, closing, sessions, sessionsLock,
                   destroyedLock, queueVars, sessionVars, utility, failed>>

\* mamaEnvSession_destroy: mamaDispatcher_destroy joins the dispatcher's thread.
StopSession ==
    LET s == arg[Obj] IN
    /\ pc[Obj] = "stop"
    /\ ~inCallback[s]
    /\ \/ /\ dispatcher' = [dispatcher EXCEPT ![s] = "stopped"]
          /\ Goto(Obj, "freeSession", s)
       \/ /\ "stop" \in Conditions
          /\ Goto(Obj, "enumerate", None)
          /\ UNCHANGED dispatcher
    /\ UNCHANGED <<reused, connection, timer, closing, listVars, queueVars,
                   phase, objects, inCallback, utility, todo, failed>>

\* list_allocate_element has given the memory of that element to a call that adds a
\* session to a list: it is that call's session which Obj reads from now on.
ReuseElement(t) ==
    /\ "reuse" \in Conditions
    /\ pc[t] \in {"add", "mark"}
    /\ pc[Obj] \in {"stop", "freeSession"}
    /\ ~reused
    /\ reused' = TRUE
    /\ arg' = [arg EXCEPT ![Obj] = arg[t]]
    /\ UNCHANGED <<connection, timer, closing, listVars, queueVars, sessionVars,
                   utility, pc, todo, failed>>

FreeSession ==
    /\ pc[Obj] = "freeSession"
    /\ Deallocate(arg[Obj])
    /\ Goto(Obj, "enumerate", None)
    /\ UNCHANGED <<reused, connection, timer, closing, listVars, queueVars,
                   dispatcher, objects, inCallback, utility, todo, failed>>

\* (mutant) onDestroyAllSessions enumerates the list once.
EndEnumerateOnce ==
    /\ pc[Obj] = "enumerate" /\ todo[Obj] = {}
    /\ destroyedLock' = NoThread
    /\ Goto(Obj, IF lastEvent THEN "signal" ELSE "idle", None)
    /\ UNCHANGED <<reused, connection, timer, closing, sessions,
                   destroyedSessions, sessionsLock, queueVars, sessionVars,
                   utility, todo, failed>>

EndEnumerate ==
    /\ pc[Obj] = "enumerate" /\ todo[Obj] = {}
    /\ destroyedLock' = NoThread
    /\ Goto(Obj, IF ~lastEvent THEN "idle"
                 ELSE IF destroyedSessions = {} THEN "signal" ELSE "timedDispatch",
            None)
    /\ UNCHANGED <<reused, connection, timer, closing, sessions,
                   destroyedSessions, sessionsLock, queueVars, sessionVars,
                   utility, todo, failed>>

\* mamaQueue_timedDispatch returns, with or without having dispatched an event;
\* if it fails the loop ends though sessions are left.
TimedDispatchReturns ==
    /\ pc[Obj] = "timedDispatch"
    /\ \/ EnumerateDestroyed
       \/ "dispatch" \in Conditions /\ Goto(Obj, "signal", None)
            /\ UNCHANGED <<destroyedLock, todo>>
    /\ UNCHANGED <<reused, connection, timer, closing, sessions,
                   destroyedSessions, sessionsLock, queueVars, sessionVars,
                   utility, failed>>

SignalDestroyed ==
    /\ pc[Obj] = "signal"
    /\ destroySynch' = TRUE
    /\ lastEvent' = FALSE
    /\ Goto(Obj, "idle", None)
    /\ UNCHANGED <<reused, connection, timer, closing, listVars, queue, left,
                   sessionVars, utility, todo, failed>>

-----------------------------------------------------------------------------
(* The event objects of a session: created by anyone who has the session,  *)
(* called back by its dispatcher, and finalised by it once they are        *)
(* claimed.                                                                *)

CreateObject(s) ==
    /\ s \in sessions \ closing \/ ("late" \in Conditions /\ inCallback[s])
    /\ dispatcher[s] = "running" /\ objects[s] # "live"
    /\ objects' = [objects EXCEPT ![s] = "live"]
    /\ UNCHANGED <<reused, connection, timer, closing, listVars, queueVars,
                   phase, dispatcher, inCallback, callVars>>

BeginCallback(s) ==
    /\ dispatcher[s] = "running" /\ objects[s] = "live" /\ ~inCallback[s]
    /\ inCallback' = [inCallback EXCEPT ![s] = TRUE]
    /\ UNCHANGED <<reused, connection, timer, closing, listVars, queueVars,
                   phase, dispatcher, objects, callVars>>

EndCallback(s) ==
    /\ inCallback[s] /\ pc[s] = "idle"
    /\ inCallback' = [inCallback EXCEPT ![s] = FALSE]
    /\ UNCHANGED <<reused, connection, timer, closing, listVars, queueVars,
                   phase, dispatcher, objects, callVars>>

FinaliseObjects(s) ==
    /\ dispatcher[s] = "running" /\ objects[s] = "claimed" /\ ~inCallback[s]
    /\ objects' = [objects EXCEPT ![s] = "none"]
    /\ UNCHANGED <<reused, connection, timer, closing, listVars, queueVars,
                   phase, dispatcher, inCallback, callVars>>

-----------------------------------------------------------------------------
Begin(t) ==
    \E s \in Sessions : AllocateSession(t, s) \/ DestroySession(t, s)

\* The steps of a call that wait for a list or for a callback, and the others.
Contend(t) == AddSession(t) \/ RemoveSession(t) \/ SweepEvents(t) \/ MarkDestroyed(t)

Continue(t) == EnqueueCreate(t) \/ WaitCreated(t)

ContinueDestroy ==
    EachSession \/ EnqueueDestroyAll \/ WaitDestroyed \/ FreeConnection

Enumerate ==
    SkipSession \/ TakeSession \/ StopSession \/ FreeSession \/ EndEnumerate
      \/ TimedDispatchReturns \/ SignalDestroyed

Objects(s) ==
    CreateObject(s) \/ BeginCallback(s) \/ EndCallback(s) \/ FinaliseObjects(s)

Next ==
    \/ \E t \in Callers : Begin(t) \/ Continue(t) \/ Contend(t) \/ ReuseElement(t)
    \/ DestroyConnection \/ ContinueDestroy
    \/ OnSessionCreate \/ OnSessionTimerTick \/ OnDestroyAllSessions \/ Enumerate
    \/ \E s \in Sessions : Objects(s)

Spec == Init /\ [][Next]_vars

(***************************************************************************)
(* Every thread goes on with its call, callbacks return, and the event     *)
(* objects that have been claimed are finalised (MmeTimer.tla,             *)
(* DestroyCompletes).  A thread that waits for a list gets it: a list is   *)
(* enumerated for a moment, once a second.  One that waits for a callback  *)
(* gets past it (the hand-shake of MmeTimer.tla).  The object queue is     *)
(* first-in first-out, so an event, or a tick, has its turn.               *)
(***************************************************************************)
Fairness ==
    /\ \A t \in Callers : WF_vars(Continue(t)) /\ SF_vars(Contend(t))
    /\ WF_vars(ContinueDestroy) /\ WF_vars(Enumerate)
    /\ SF_vars(OnSessionCreate) /\ SF_vars(OnSessionTimerTick)
    /\ SF_vars(OnDestroyAllSessions)
    /\ \A s \in Sessions : WF_vars(EndCallback(s)) /\ WF_vars(FinaliseObjects(s))

FairSpec == Spec /\ Fairness

-----------------------------------------------------------------------------
(* Properties                                                              *)

\* The thread has the session in hand, outside the lists.
HolderPlaces == CreatePlaces \cup {"sweep", "mark", "stop", "freeSession"}
Holds(t, s) == pc[t] \in HolderPlaces /\ arg[t] = s

OneCustodian ==
    /\ sessions \cap destroyedSessions = {}
    /\ \A s \in sessions \cup destroyedSessions : phase[s] = "allocated"
    /\ \A t \in Threads, s \in Sessions : Holds(t, s) =>
         /\ phase[s] = "allocated"
         /\ s \notin sessions \cup destroyedSessions
         /\ \A u \in Threads : Holds(u, s) => u = t

\* A session is in one list, or in the hands of one thread, and then its memory
\* is there; nobody can reach one that has been freed, whatever fails on the way
\* from m_sessions to m_destroyedSessions to mamaEnvSession_deallocate.  (Until Obj
\* has read the session of a list element that is no longer its own: after that
\* nothing is sure.)
Custody == reused \/ OneCustodian

\* No session is lost on that way: one that has not been freed is in a list or in
\* somebody's hands ("If something went wrong then delete the session.",
\* mamaEnvConnection.c:110).
NothingLost ==
    \A s \in Sessions : phase[s] = "allocated" =>
        s \in sessions \cup destroyedSessions \/ \E t \in Threads : Holds(t, s)

\* When destroyConnection has freed the connection, all of its sessions are
\* destroyed: no dispatcher of one runs (mamaManagedEnvironment.h:48-50).
AllDestroyed ==
    connection = "freed" => \A s \in Sessions : dispatcher[s] # "running"

StopIsFree ==
    pc[Obj] = "stop" => objects[arg[Obj]] = "none" /\ ~inCallback[arg[Obj]]

\* mamaEnvSession_destroy, which is called with m_destroyedSessions locked, never
\* waits for a callback, and the event objects are gone before their queue is:
\* what canDestroy has said still holds (mamaEnvConnection.c:386-392).
JoinNeverWaits == reused \/ StopIsFree

PointsToWaiter ==
    \A i \in 1..Len(queue) : queue[i] # Obj =>
        \/ left[queue[i]] # None
        \/ /\ pc[queue[i]] = "wait" /\ utility[queue[i]] = "pending"
           /\ \A j \in 1..Len(queue) : queue[j] = queue[i] => j = i

\* An event on the object queue points to the utility structure of a createSession
\* that waits for it, on that call's stack, and no other event does; unless the
\* wait of its caller has failed or has ended before it was signaled
\* (mamaEnvConnection.c:79-93, mamaEnvEvent.c:327).
UtilityAlive == reused \/ PointsToWaiter

\* The thread that t waits for, if any.
WaitsFor(t) ==
    LET s == arg[t]
        holder ==
            CASE pc[t] \in {"add", "remove"} -> sessionsLock
              [] pc[t] = "mark" -> destroyedLock
              [] pc[t] \in {"sweep", "stop"} -> IF inCallback[s] THEN s ELSE t
              [] pc[t] = "wait" -> IF utility[t] = "pending" THEN Obj ELSE t
              [] pc[t] = "waitAll" -> IF destroySynch THEN t ELSE Obj
              [] pc[t] = "freeConnection" -> IF pc[Obj] = "idle" THEN t ELSE Obj
              [] OTHER -> t
    IN IF holder = t THEN NoThread ELSE holder

\* No threads wait for one another in a circle, over the lists, the callbacks and
\* the object queue.
NoCircularWait ==
    \A S \in SUBSET Threads : S # {} => \E t \in S : WaitsFor(t) \notin S

\* createSession returns, though it waits for another thread.
CreateReturns == \A t \in Callers : pc[t] = "enqueue" ~> pc[t] = "idle"

\* destroySession frees the session in the end, by the session timer.
DestroyedIsFreed == \A s \in Sessions : s \in closing ~> phase[s] = "freed"

\* destroyConnection does not wait for ever for the sessions' events.
ConnectionIsFreed == ~timer ~> connection = "freed"

(***************************************************************************)
(* The inductive invariant behind Custody, JoinNeverWaits and UtilityAlive. *)
(* It holds whatever Conditions are, until reused.                         *)
(***************************************************************************)

\* A session's dispatcher is in a call only while it runs a callback, and destroys
\* its own session.
CallbackCustody ==
    \A s \in Sessions :
        /\ pc[s] # "idle" => inCallback[s]
        /\ pc[s] \in DestroyPlaces => arg[s] = s
        /\ inCallback[s] => objects[s] # "none"

WorksOnSession == CreatePlaces \cup DestroyPlaces \cup {"stop", "freeSession"}

\* A callback that has come to destroy its session when Main has taken it out of
\* the list, and waits for the callback.
Overtaken(t) ==
    /\ t \in Sessions
    /\ sessionsLock = Main /\ pc[Main] = "sweep" /\ arg[Main] = t

\* A session that somebody is about to take out of m_sessions is there, and one
\* thread is about to; or Main is, and a callback waits for the list in vain.
RemoveCustody ==
    /\ \A t \in Threads : pc[t] \in WorksOnSession => arg[t] \in Sessions
    /\ \A t \in Threads : pc[t] = "remove" =>
         /\ arg[t] \in closing
         /\ arg[t] \in sessions \/ Overtaken(t)
    /\ \A t, u \in Threads :
         pc[t] = "remove" /\ pc[u] = "remove" /\ arg[t] = arg[u] =>
           t = u \/ (sessionsLock = Main /\ Main \in {t, u})

\* destroyConnection has m_sessions locked from its first session to its last;
\* the sessions it has still to destroy stay in the list.
MainCustody ==
    /\ sessionsLock = Main <=>
         pc[Main] = "each" \/ (pc[Main] \in DestroyPlaces /\ ~timer)
    /\ pc[Main] \in MainPlaces => ~timer
    /\ ~timer => pc[Main] \notin CreatePlaces
    /\ ~timer => \A t \in Apps \ {Main} : pc[t] = "idle"
    /\ todo[Main] \subseteq sessions \ {arg[Main]}
    /\ sessionsLock # Main => todo[Main] = {}

\* So does the object dispatcher with m_destroyedSessions.
ObjCustody ==
    /\ destroyedLock = Obj <=> pc[Obj] \in {"enumerate", "stop", "freeSession"}
    /\ todo[Obj] \subseteq destroyedSessions
    /\ destroyedLock # Obj => todo[Obj] = {}

\* The utility structure is in use while its owner waits.
UtilityCustody ==
    /\ PointsToWaiter
    /\ \A t \in Callers : utility[t] # "none" <=> pc[t] = "wait"

IInv ==
    /\ TypeOK
    /\ OneCustodian
    /\ CallbackCustody /\ RemoveCustody
    /\ MainCustody /\ ObjCustody
    /\ UtilityCustody
    /\ StopIsFree

(***************************************************************************)
(* What holds besides when no step of destruction fails, no callback calls *)
(* the API while the connection is destroyed, the waits end when they are  *)
(* told to, and the memory of a list element is not given away too early.  *)
(***************************************************************************)
Sound == Conditions \subseteq {"enqueue", "create", "late"}

\* No wait has ended early, and no element has been read too late.
WaitsAreSound == ~reused /\ left = [t \in Callers |-> None]

\* A session's dispatcher runs from mamaEnvSession_create to mamaEnvSession_destroy,
\* and only meanwhile it has event objects.
SessionStages ==
    \A s \in Sessions :
        /\ phase[s] = "none" => dispatcher[s] = "none" /\ s \notin closing
        /\ phase[s] = "freed" => dispatcher[s] # "running"
        /\ objects[s] # "none" => dispatcher[s] = "running"
        /\ s \in sessions => dispatcher[s] = "running"
        /\ s \in destroyedSessions => dispatcher[s] = "running" /\ s \in closing

CreatorStages ==
    \A t \in Callers : pc[t] \in CreatePlaces =>
        /\ arg[t] \notin closing
        /\ dispatcher[arg[t]] =
             IF pc[t] = "add" \/ utility[t] = "OK" THEN "running" ELSE "none"

DestroyerStages ==
    \A t \in Threads :
        /\ pc[t] \in {"sweep", "mark", "stop", "freeSession"} => arg[t] \in closing
        /\ pc[t] \in {"sweep", "mark", "stop"} => dispatcher[arg[t]] = "running"
        /\ pc[t] = "freeSession" => dispatcher[arg[t]] = "stopped"

\* destroyConnection has gone through m_sessions.
Enumerated == ~timer /\ sessionsLock # Main

\* destroyConnection leaves no session in m_sessions, and none anywhere when
\* m_destroySynch is signaled.
Draining ==
    /\ ~timer => \A t \in Callers \ {Main} : pc[t] = "idle"
    /\ sessionsLock = Main =>
         sessions \subseteq todo[Main] \cup {s \in {arg[Main]} : pc[Main] = "remove"}
    /\ Enumerated => sessions = {}
    /\ (\E i \in 1..Len(queue) : queue[i] = Obj) \/ lastEvent \/ destroySynch
         \/ pc[Main] = "freeConnection" \/ connection = "freed" => Enumerated
    /\ pc[Obj] = "signal" => lastEvent
    /\ pc[Obj] = "signal" \/ destroySynch
         \/ pc[Main] = "freeConnection" \/ connection = "freed" =>
         destroyedSessions = {} /\ pc[Obj] \in {"idle", "signal"}

SoundInv ==
    /\ IInv
    /\ NothingLost
    /\ SessionStages /\ CreatorStages /\ DestroyerStages
    /\ Draining

\* Sessions keep the promise of SessionLifecycle.
Stage(s) ==
    IF phase[s] = "none" THEN "absent"
    ELSE IF phase[s] = "freed" THEN "gone"
    ELSE IF dispatcher[s] = "none" THEN "creating"
    ELSE IF s \in closing THEN "closing"
    ELSE "open"

Lifecycle == INSTANCE SessionLifecycle WITH
    stage  <- [s \in Sessions |-> Stage(s)],
    busy   <- {s \in Sessions : objects[s] # "none"},
    closed <- connection = "freed"

ImplementsLifecycle == Lifecycle!Spec
=============================================================================
