----------------------------- MODULE MmeReceiver -----------------------------
(***************************************************************************)
(* Inboxes and subscriptions: creation, callbacks, shutdown, destruction,  *)
(* and the sweep of a session's maps (mamaEnvInbox.c,                      *)
(* mamaEnvSubscription.c, and their functions in mamaEnvSession.c and      *)
(* mamaManagedEnvironment.c).                                              *)
(*                                                                         *)
(* Sessions, threads, dispatchers and the hand-off map are as in MmeTimer. *)
(* A receiver has one lock and several callbacks, and its dispatcher does  *)
(* not stand back between two of them.  An inbox is freed by its destroy   *)
(* event.  A subscription's destroy event only asks MAMA to destroy it; it *)
(* is freed when MAMA reports that it has, at once on the thread that      *)
(* asked, or later through the session's queue.  Until then the dispatcher *)
(* keeps m_lock.                                                           *)
(***************************************************************************)
EXTENDS WLock, FiniteSets

CONSTANTS
    Sessions,       \* sessions, and their dispatcher threads
    Apps,           \* application threads
    Inboxes,        \* inboxes that may be created
    Subscriptions,  \* subscriptions that may be created
    Home,           \* the session each is created on
    AppOps,         \* what application threads call: a subset of Operations
    CallbackOps,    \* what callbacks call
    Conditions,     \* what the environment may do: a subset of AllConditions
    None            \* no object, no map and no callback

Operations == {"create", "destroy", "shutdown", "destroyAll", "stop"}

(* early, late, alloc, insert, enqueue, abandon: as in MmeTimer            *)
(* create      MAMA fails to create the inbox or the subscription          *)
(* unreported  MAMA may not report that a subscription is destroyed, for   *)
(*             example because it never was created                        *)
AllConditions == {"early", "late", "alloc", "create", "insert", "enqueue",
                  "abandon", "unreported"}

Objects == Inboxes \cup Subscriptions
Threads == Apps \cup Sessions
Maps    == Sessions \X {"inboxes", "subscriptions"}
Kinds   == {"create", "error", "message"}

ASSUME ConstantsAssumption ==
    /\ Apps \cap Sessions = {}
    /\ Inboxes \cap Subscriptions = {}
    /\ NoThread \notin Threads
    /\ None \notin Objects \cup Maps \cup Kinds
    /\ Home \in [Objects -> Sessions]
    /\ AppOps \subseteq Operations
    /\ CallbackOps \subseteq Operations
    /\ Conditions \subseteq AllConditions

VARIABLES
    phase,      \* the wrapper, see Phases
    callbacks,  \* which of its callbacks are not NULL
    lock,       \* m_lock
    map,        \* the objects that are in the map of their session
    mapLock,    \* who holds the lock of each map over a step
    queued,     \* how many destroy events are queued for each object
    active,     \* sessions whose queue has not been deactivated
    pc,         \* where each thread is in the API
    arg,        \* the object of the call
    sweeping,   \* the map that the call's sweep has come to
    claimed,    \* what the call has taken out of the map
    dpc,        \* where each dispatcher is
    dobj,       \* the object it serves
    dkind,      \* the callback it has been asked for
    published,  \* objects whose handle has been returned
    closing,    \* sessions whose destruction has begun
    silenced    \* history: the callbacks of each object that may not run any more

mapVars  == <<map, mapLock>>
callVars == <<pc, arg, sweeping, claimed>>
dispVars == <<dpc, dobj, dkind>>
histVars == <<published, closing, silenced>>
vars == <<phase, callbacks, lock, map, mapLock, queued, active, pc, arg, sweeping,
          claimed, dpc, dobj, dkind, published, closing, silenced>>

\* abandoned: creation has failed; destroying: MAMA has been asked to destroy
\* the subscription.  Both are freed when MAMA reports.
Phases == {"none", "allocated", "open", "abandoned", "destroying", "freed"}

CreatePlaces   == {"create", "insert", "publish"}
DestroyPlaces  == {"clear", "enqueue"}
ObjectPlaces   == {"remove", "find", "shutdown"} \cup CreatePlaces \cup DestroyPlaces
CallPlaces     == {"idle", "removeAll", "sweep"} \cup ObjectPlaces
DispatchPlaces == {"idle", "callbackLock", "callback", "finalLock"}

ObjectTypes ==
    /\ phase \in [Objects -> Phases]
    /\ callbacks \in [Objects -> SUBSET Kinds]
    /\ lock \in [Objects -> Locks(Threads)]
    /\ map \subseteq Objects
    /\ mapLock \in [Maps -> Threads \cup {NoThread}]
    /\ queued \in [Objects -> Nat]
    /\ active \subseteq Sessions
    /\ published \subseteq Objects
    /\ closing \subseteq Sessions
    /\ silenced \in [Objects -> SUBSET Kinds]

CallTypes ==
    /\ pc \in [Threads -> CallPlaces]
    /\ arg \in [Threads -> Objects \cup {None}]
    /\ sweeping \in [Threads -> Maps \cup {None}]
    /\ claimed \in [Threads -> SUBSET Objects]
    /\ \A t \in Threads :
         /\ pc[t] \in ObjectPlaces => arg[t] \in Objects
         /\ pc[t] \in {"removeAll", "sweep"} => sweeping[t] \in Maps

DispatchTypes ==
    /\ dpc \in [Sessions -> DispatchPlaces]
    /\ dobj \in [Sessions -> Objects \cup {None}]
    /\ dkind \in [Sessions -> Kinds \cup {None}]
    /\ \A s \in Sessions :
         /\ dpc[s] # "idle" => dobj[s] \in Objects /\ Home[dobj[s]] = s
         /\ dpc[s] \in {"callbackLock", "callback"} => dkind[s] \in Kinds

TypeOK == ObjectTypes /\ CallTypes /\ DispatchTypes

Init ==
    /\ phase = [x \in Objects |-> "none"]
    /\ callbacks = [x \in Objects |-> {}]
    /\ lock = [x \in Objects |-> Free]
    /\ map = {}
    /\ mapLock = [m \in Maps |-> NoThread]
    /\ queued = [x \in Objects |-> 0]
    /\ active = Sessions
    /\ pc = [t \in Threads |-> "idle"]
    /\ arg = [t \in Threads |-> None]
    /\ sweeping = [t \in Threads |-> None]
    /\ claimed = [t \in Threads |-> {}]
    /\ dpc = [s \in Sessions |-> "idle"]
    /\ dobj = [s \in Sessions |-> None]
    /\ dkind = [s \in Sessions |-> None]
    /\ published = {}
    /\ closing = {}
    /\ silenced = [x \in Objects |-> {}]

-----------------------------------------------------------------------------
\* A dispatcher calls the API only from inside a callback.
CanCall(t, op) ==
    /\ pc[t] = "idle"
    /\ IF t \in Apps THEN op \in AppOps
       ELSE op \in CallbackOps /\ dpc[t] = "callback"

\* The handles a thread can know: those that have been returned, and the one
\* that was passed to the callback the thread is running.
Knows(t, x) ==
    \/ x \in published
    \/ "early" \in Conditions /\ t \in Sessions /\ dobj[t] = x

Goto(t, place, x) ==
    /\ pc' = [pc EXCEPT ![t] = place]
    /\ arg' = [arg EXCEPT ![t] = x]

Return(t) == Goto(t, "idle", None)

\* m_inboxes or m_subscriptions of the object's session.
MapOf(x) == <<Home[x], IF x \in Inboxes THEN "inboxes" ELSE "subscriptions">>

MapFree(x) == mapLock[MapOf(x)] = NoThread

\* No thread is creating an object on session s.
NoCreation(s) ==
    \A u \in Threads : pc[u] \in CreatePlaces => Home[arg[u]] # s

-----------------------------------------------------------------------------
(* mamaEnv_createInbox and mamaEnvSession_createSubscription               *)

Allocate(t, x, kinds) ==
    /\ CanCall(t, "create")
    /\ phase[x] = "none"
    /\ Home[x] \notin closing \/ ("late" \in Conditions /\ t \in Sessions)
    /\ \/ /\ phase' = [phase EXCEPT ![x] = "allocated"]
          /\ callbacks' = [callbacks EXCEPT ![x] = kinds]
          /\ Goto(t, "create", x)
       \/ /\ "alloc" \in Conditions
          /\ phase' = [phase EXCEPT ![x] = "freed"]
          /\ UNCHANGED <<callbacks, pc, arg>>
    /\ UNCHANGED <<lock, mapVars, queued, active, sweeping, claimed, dispVars, histVars>>

AllocateInbox(t, x)        == x \in Inboxes /\ Allocate(t, x, {"error", "message"})
AllocateSubscription(t, x) == x \in Subscriptions /\ Allocate(t, x, Kinds)

\* mamaInbox_create, mamaSubscription_createBasic or _createBasicWildCard: from
\* here on MAMA calls back.
MamaCreates(t) ==
    LET x == arg[t] IN
    /\ pc[t] = "create"
    /\ phase' = [phase EXCEPT ![x] = "open"]
    /\ Goto(t, "insert", x)
    /\ UNCHANGED <<callbacks, lock, mapVars, queued, active, sweeping, claimed,
                   dispVars, histVars>>

CreateInbox(t)        == arg[t] \in Inboxes /\ MamaCreates(t)
CreateSubscription(t) == arg[t] \in Subscriptions /\ MamaCreates(t)

\* synchronizedMap_insert
CreateInsert(t) ==
    LET x == arg[t] IN
    /\ pc[t] = "insert"
    /\ MapFree(x)
    /\ map' = map \cup {x}
    /\ Goto(t, "publish", x)
    /\ UNCHANGED <<phase, callbacks, lock, mapLock, queued, active, sweeping, claimed,
                   dispVars, histVars>>

CreationFails(t) ==
    \/ pc[t] = "create" /\ "create" \in Conditions
    \/ pc[t] = "insert" /\ "insert" \in Conditions

\* The calling thread destroys the inbox on the spot.
CreateInboxFails(t) ==
    LET x == arg[t] IN
    /\ CreationFails(t)
    /\ x \in Inboxes
    /\ phase' = [phase EXCEPT ![x] = "freed"]
    /\ Return(t)
    /\ UNCHANGED <<callbacks, lock, mapVars, queued, active, sweeping, claimed,
                   dispVars, histVars>>

\* The calling thread asks MAMA to destroy the subscription; MAMA reports on this
\* thread (mamaEnvSubscription_deallocate), or later, or not at all.
CreateSubscriptionFails(t) ==
    LET x == arg[t] IN
    /\ CreationFails(t)
    /\ x \in Subscriptions
    /\ \E p \in {"freed", IF pc[t] = "create" THEN "abandoned" ELSE "destroying"} :
         phase' = [phase EXCEPT ![x] = p]
    /\ Return(t)
    /\ UNCHANGED <<callbacks, lock, mapVars, queued, active, sweeping, claimed,
                   dispVars, histVars>>

\* The wrapper is read once more, after it has been put into the map.
CreateReturn(t) ==
    /\ pc[t] = "publish"
    /\ published' = published \cup {arg[t]}
    /\ Return(t)
    /\ UNCHANGED <<phase, callbacks, lock, mapVars, queued, active, sweeping, claimed,
                   dispVars, closing, silenced>>

-----------------------------------------------------------------------------
(* mamaEnv_destroyInbox, mamaEnv_destroySubscription                       *)

Destroy(t, x) ==
    /\ CanCall(t, "destroy")
    /\ Knows(t, x)
    /\ Goto(t, "remove", x)
    /\ UNCHANGED <<phase, callbacks, lock, mapVars, queued, active, sweeping, claimed,
                   dispVars, histVars>>

DestroyInbox(t, x)        == x \in Inboxes /\ Destroy(t, x)
DestroySubscription(t, x) == x \in Subscriptions /\ Destroy(t, x)

\* (mutant) the object is found but not removed.
DestroyFind(t) ==
    LET x == arg[t] IN
    /\ pc[t] = "remove"
    /\ MapFree(x)
    /\ IF x \in map
       THEN claimed' = [claimed EXCEPT ![t] = {x}] /\ Goto(t, "clear", x)
       ELSE UNCHANGED claimed /\ Return(t)
    /\ UNCHANGED <<phase, callbacks, lock, mapVars, queued, active, sweeping,
                   dispVars, histVars>>

\* (mutant) the map stays locked until the callbacks are cleared.
DestroyRemoveKeepsLock(t) ==
    LET x == arg[t] IN
    /\ pc[t] = "remove"
    /\ mapLock[MapOf(x)] \in {NoThread, t}
    /\ map' = map \ {x}
    /\ IF x \in map
       THEN /\ claimed' = [claimed EXCEPT ![t] = {x}]
            /\ Goto(t, "clear", x)
            /\ mapLock' = [mapLock EXCEPT ![MapOf(x)] = t]
       ELSE UNCHANGED <<claimed, mapLock>> /\ Return(t)
    /\ UNCHANGED <<phase, callbacks, lock, queued, active, sweeping,
                   dispVars, histVars>>

\* synchronizedMap_remove: this thread will destroy the object, or "it has
\* already been removed, still return OK".
DestroyRemove(t) ==
    LET x == arg[t] IN
    /\ pc[t] = "remove"
    /\ MapFree(x)
    /\ map' = map \ {x}
    /\ IF x \in map
       THEN claimed' = [claimed EXCEPT ![t] = {x}] /\ Goto(t, "clear", x)
       ELSE UNCHANGED claimed /\ Return(t)
    /\ UNCHANGED <<phase, callbacks, lock, mapLock, queued, active, sweeping,
                   dispVars, histVars>>

\* The callbacks K are cleared.  One that clears itself is still running; it ends
\* before it counts as silenced (CallbackReturn).
Silence(t, x, K) ==
    /\ callbacks' = [callbacks EXCEPT ![x] = @ \ K]
    /\ silenced' = [silenced EXCEPT ![x] =
                      @ \cup (IF t \in Sessions /\ dobj[t] = x THEN K \ {dkind[t]} ELSE K)]

\* (mutant) the callbacks are cleared without m_lock.
ClearUnlocked(t) ==
    /\ pc[t] = "clear"
    /\ Silence(t, arg[t], Kinds)
    /\ Goto(t, "enqueue", arg[t])
    /\ UNCHANGED <<phase, lock, mapVars, queued, active, sweeping, claimed, dispVars,
                   published, closing>>

\* (mutant) m_lock is not unlocked.
ClearKeepsLock(t) ==
    LET x == arg[t] IN
    /\ pc[t] = "clear"
    /\ CanLock(lock[x], t)
    /\ lock' = [lock EXCEPT ![x] = Locked(@, t)]
    /\ Silence(t, x, Kinds)
    /\ Goto(t, "enqueue", x)
    /\ UNCHANGED <<phase, mapVars, queued, active, sweeping, claimed, dispVars,
                   published, closing>>

\* Lock m_lock, clear all callbacks, unlock.
Clear(t) ==
    LET x == arg[t] IN
    /\ pc[t] = "clear"
    /\ CanLock(lock[x], t)
    /\ Silence(t, x, Kinds)
    /\ Goto(t, "enqueue", x)
    /\ UNCHANGED <<phase, lock, mapVars, queued, active, sweeping, claimed, dispVars,
                   published, closing>>

ClearInbox(t)        == arg[t] \in Inboxes /\ Clear(t)
ClearSubscription(t) == arg[t] \in Subscriptions /\ Clear(t)

\* (mutant) destroyAllEvents returns when it has swept the inboxes.
NextMapReturns(t) ==
    /\ sweeping' = [sweeping EXCEPT ![t] = None]
    /\ Return(t)

\* destroyAllEvents goes on from the inboxes to the subscriptions.
NextMap(t) ==
    LET m == sweeping[t] IN
    IF m # None /\ m[2] = "inboxes"
    THEN /\ sweeping' = [sweeping EXCEPT ![t] = <<m[1], "subscriptions">>]
         /\ Goto(t, "removeAll", None)
    ELSE /\ sweeping' = [sweeping EXCEPT ![t] = None]
         /\ Return(t)

\* mamaQueue_enqueueEvent; then the next entry, the next map, or return.
DestroyEnqueue(t) ==
    LET x == arg[t] IN
    /\ pc[t] = "enqueue"
    /\ \/ queued' = [queued EXCEPT ![x] = @ + 1]
       \/ "enqueue" \in Conditions /\ UNCHANGED queued
    /\ claimed' = [claimed EXCEPT ![t] = @ \ {x}]
    /\ IF claimed[t] = {x} THEN NextMap(t)
       ELSE Goto(t, "sweep", None) /\ UNCHANGED sweeping
    /\ UNCHANGED <<phase, callbacks, lock, mapVars, active, dispVars, histVars>>

-----------------------------------------------------------------------------
(* mamaEnv_shutdownInbox, mamaEnv_shutdownSubscription                     *)

Shutdown(t, x) ==
    /\ CanCall(t, "shutdown")
    /\ Knows(t, x)
    /\ Goto(t, "find", x)
    /\ UNCHANGED <<phase, callbacks, lock, mapVars, queued, active, sweeping, claimed,
                   dispVars, histVars>>

ShutdownInbox(t, x)        == x \in Inboxes /\ Shutdown(t, x)
ShutdownSubscription(t, x) == x \in Subscriptions /\ Shutdown(t, x)

\* (mutant) the object is found, then shut down without the map's lock.
ShutdownFindUnlocked(t) ==
    LET x == arg[t] IN
    /\ pc[t] = "find"
    /\ MapFree(x)
    /\ IF x \in map THEN Goto(t, "shutdown", x) ELSE Return(t)
    /\ UNCHANGED <<phase, callbacks, lock, mapVars, queued, active, sweeping, claimed,
                   dispVars, histVars>>

\* synchronizedMap_for finds the object and keeps the map locked; or it returns
\* NOT_FOUND.
ShutdownFind(t) ==
    LET x == arg[t] IN
    /\ pc[t] = "find"
    /\ MapFree(x)
    /\ IF x \in map
       THEN mapLock' = [mapLock EXCEPT ![MapOf(x)] = t] /\ Goto(t, "shutdown", x)
       ELSE Return(t) /\ UNCHANGED mapLock
    /\ UNCHANGED <<phase, callbacks, lock, map, queued, active, sweeping, claimed,
                   dispVars, histVars>>

\* Lock m_lock, clear the message callback and no other, unlock; unlock the map.
StopMessages(t) ==
    LET x == arg[t] IN
    /\ pc[t] = "shutdown"
    /\ CanLock(lock[x], t)
    /\ Silence(t, x, {"message"})
    /\ mapLock' = [mapLock EXCEPT ![MapOf(x)] = NoThread]
    /\ Return(t)
    /\ UNCHANGED <<phase, lock, map, queued, active, sweeping, claimed, dispVars,
                   published, closing>>

StopInbox(t)        == arg[t] \in Inboxes /\ StopMessages(t)
StopSubscription(t) == arg[t] \in Subscriptions /\ StopMessages(t)

-----------------------------------------------------------------------------
(* mamaEnvSession_destroyAllEvents, mamaEnv_shutdownSession                *)

\* Called once for a session; the application does not create anything on it any
\* more, and unless "late" no call is in progress and no callback makes one.
DestroyAllEvents(t, s) ==
    /\ CanCall(t, "destroyAll")
    /\ s \notin closing
    /\ NoCreation(s) \/ "late" \in Conditions
    /\ closing' = closing \cup {s}
    /\ sweeping' = [sweeping EXCEPT ![t] = <<s, "inboxes">>]
    /\ Goto(t, "removeAll", None)
    /\ UNCHANGED <<phase, callbacks, lock, mapVars, queued, active, claimed, dispVars,
                   published, silenced>>

Contents(m) == {x \in map : MapOf(x) = m}

\* synchronizedMap_removeAll empties the map at once.
SweepMap(t) ==
    LET m == sweeping[t] IN
    /\ pc[t] = "removeAll"
    /\ mapLock[m] = NoThread
    /\ map' = map \ Contents(m)
    /\ \E S \in SUBSET Contents(m) :
         /\ S = Contents(m) \/ "abandon" \in Conditions
         /\ claimed' = [claimed EXCEPT ![t] = S]
         /\ IF S = {} THEN NextMap(t) ELSE Goto(t, "sweep", None) /\ UNCHANGED sweeping
    /\ UNCHANGED <<phase, callbacks, lock, mapLock, queued, active, dispVars, histVars>>

SweepTo(t, x) ==
    /\ pc[t] = "sweep"
    /\ x \in claimed[t]
    /\ Goto(t, "clear", x)
    /\ UNCHANGED <<phase, callbacks, lock, mapVars, queued, active, sweeping, claimed,
                   dispVars, histVars>>

SweepInbox(t)        == \E x \in Inboxes : SweepTo(t, x)
SweepSubscription(t) == \E x \in Subscriptions : SweepTo(t, x)

\* mamaQueue_deactivate: "Stop dispatching events".
ShutdownSession(t, s) ==
    /\ CanCall(t, "stop")
    /\ active' = active \ {s}
    /\ UNCHANGED <<phase, callbacks, lock, mapVars, queued, callVars, dispVars, histVars>>

-----------------------------------------------------------------------------
(* The dispatcher                                                          *)

Dispatch(s, place, x, kind) ==
    /\ dpc' = [dpc EXCEPT ![s] = place]
    /\ dobj' = [dobj EXCEPT ![s] = x]
    /\ dkind' = [dkind EXCEPT ![s] = kind]

\* The queue holds something for an object that exists.
Deliver(s, x, kind) ==
    /\ dpc[s] = "idle" /\ s \in active
    /\ Home[x] = s
    /\ phase[x] \in {"open", "destroying"}
    /\ Dispatch(s, "callbackLock", x, kind)
    /\ UNCHANGED <<phase, callbacks, lock, mapVars, queued, active, callVars, histVars>>

OnErrorCallback(s, x)   == x \in Inboxes /\ Deliver(s, x, "error")
OnMessageCallback(s, x) == x \in Inboxes /\ Deliver(s, x, "message")
OnCreateBasic(s, x)     == x \in Subscriptions /\ Deliver(s, x, "create")
OnErrorBasic(s, x)      == x \in Subscriptions /\ Deliver(s, x, "error")
OnMsgBasic(s, x)        == x \in Subscriptions /\ Deliver(s, x, "message")

\* (mutant) the callback is called without m_lock.
CallbackUnlocked(s) ==
    LET x == dobj[s] IN
    /\ dpc[s] = "callbackLock"
    /\ IF dkind[s] \in callbacks[x] THEN Dispatch(s, "callback", x, dkind[s])
       ELSE Dispatch(s, "idle", None, None)
    /\ UNCHANGED <<phase, callbacks, lock, mapVars, queued, active, callVars, histVars>>

\* Lock m_lock; call the original callback if there is one, else unlock.
CallbackLock(s) ==
    LET x == dobj[s] IN
    /\ dpc[s] = "callbackLock"
    /\ CanLock(lock[x], s)
    /\ IF dkind[s] \in callbacks[x]
       THEN /\ lock' = [lock EXCEPT ![x] = Locked(@, s)]
            /\ Dispatch(s, "callback", x, dkind[s])
       ELSE UNCHANGED lock /\ Dispatch(s, "idle", None, None)
    /\ UNCHANGED <<phase, callbacks, mapVars, queued, active, callVars, histVars>>

\* The callback returns; unlock m_lock.
CallbackReturn(s) ==
    LET x == dobj[s] IN
    /\ dpc[s] = "callback"
    /\ pc[s] = "idle"
    /\ lock' = [lock EXCEPT ![x] = Unlocked(@, s)]
    /\ silenced' = [silenced EXCEPT ![x] = @ \cup ({dkind[s]} \ callbacks[x])]
    /\ Dispatch(s, "idle", None, None)
    /\ UNCHANGED <<phase, callbacks, mapVars, queued, active, callVars, published, closing>>

\* The destroy event is dispatched.
FinaliseBegin(s, x) ==
    /\ dpc[s] = "idle" /\ s \in active
    /\ Home[x] = s
    /\ queued[x] > 0
    /\ queued' = [queued EXCEPT ![x] = @ - 1]
    /\ Dispatch(s, "finalLock", x, None)
    /\ UNCHANGED <<phase, callbacks, lock, mapVars, active, callVars, histVars>>

\* mamaEnvSubscription_deallocate, mamaEnvInbox_destroy: unlock and destroy m_lock,
\* free the wrapper.
Deallocate(x) ==
    /\ phase' = [phase EXCEPT ![x] = "freed"]
    /\ lock' = [lock EXCEPT ![x] = Free]

\* Lock m_lock and mamaEnvInbox_destroy.
OnInboxDestroy(s) ==
    LET x == dobj[s] IN
    /\ dpc[s] = "finalLock"
    /\ x \in Inboxes
    /\ CanLock(lock[x], s)
    /\ Deallocate(x)
    /\ Dispatch(s, "idle", None, None)
    /\ UNCHANGED <<callbacks, mapVars, queued, active, callVars, histVars>>

\* Lock m_lock and mamaSubscription_destroy.  If MAMA reports from within, the
\* subscription is freed; else m_lock is kept.
OnSubscriptionDestroy(s) ==
    LET x == dobj[s] IN
    /\ dpc[s] = "finalLock"
    /\ x \in Subscriptions
    /\ CanLock(lock[x], s)
    /\ \/ Deallocate(x)
       \/ /\ phase' = [phase EXCEPT ![x] = "destroying"]
          /\ lock' = [lock EXCEPT ![x] = Locked(@, s)]
    /\ Dispatch(s, "idle", None, None)
    /\ UNCHANGED <<callbacks, mapVars, queued, active, callVars, histVars>>

\* mamaEnvSubscription_onDestroy: MAMA reports later.
OnDestroy(s, x) ==
    /\ dpc[s] = "idle" /\ s \in active
    /\ Home[x] = s
    /\ phase[x] \in {"abandoned", "destroying"}
    /\ Deallocate(x)
    /\ UNCHANGED <<callbacks, mapVars, queued, active, callVars, dispVars, histVars>>

-----------------------------------------------------------------------------
\* The calls a thread may begin, and the steps of a call that has begun.
Begin(t) ==
    \/ \E x \in Objects :
         \/ AllocateInbox(t, x) \/ AllocateSubscription(t, x)
         \/ DestroyInbox(t, x) \/ DestroySubscription(t, x)
         \/ ShutdownInbox(t, x) \/ ShutdownSubscription(t, x)
    \/ \E s \in Sessions : DestroyAllEvents(t, s) \/ ShutdownSession(t, s)

WaitMap(t) == CreateInsert(t) \/ DestroyRemove(t) \/ ShutdownFind(t) \/ SweepMap(t)

Continue(t) ==
    \/ CreateInbox(t) \/ CreateSubscription(t)
    \/ CreateInboxFails(t) \/ CreateSubscriptionFails(t) \/ CreateReturn(t)
    \/ ClearInbox(t) \/ ClearSubscription(t) \/ DestroyEnqueue(t)
    \/ StopInbox(t) \/ StopSubscription(t)
    \/ SweepInbox(t) \/ SweepSubscription(t)

Traffic(s) ==
    \E x \in Objects :
        \/ OnErrorCallback(s, x) \/ OnMessageCallback(s, x)
        \/ OnCreateBasic(s, x) \/ OnErrorBasic(s, x) \/ OnMsgBasic(s, x)

Serve(s) == CallbackLock(s) \/ OnInboxDestroy(s) \/ OnSubscriptionDestroy(s)

Next ==
    \/ \E t \in Threads : Begin(t) \/ WaitMap(t) \/ Continue(t)
    \/ \E s \in Sessions :
         \/ Traffic(s) \/ Serve(s) \/ CallbackReturn(s)
         \/ \E x \in Objects : FinaliseBegin(s, x) \/ OnDestroy(s, x)

Spec == Init /\ [][Next]_vars

(* A thread that can go on does (WF); a map's lock is held for a few       *)
(* instructions, unless by a shutdown, so who waits for it is served in    *)
(* the end (SF).  A callback returns, whatever it calls, and the queue is  *)
(* a FIFO: a destroy event in it, or MAMA's report, is dispatched (SF).    *)
(* Nothing is assumed of m_lock; see TrafficEnds.                          *)
Fairness ==
    /\ \A t \in Threads : WF_vars(Continue(t)) /\ SF_vars(WaitMap(t))
    /\ \A s \in Sessions :
         /\ WF_vars(Serve(s)) /\ SF_vars(CallbackReturn(s))
         /\ \A x \in Objects :
              /\ SF_vars(FinaliseBegin(s, x))
              /\ "unreported" \notin Conditions => SF_vars(OnDestroy(s, x))

FairSpec == Spec /\ Fairness

-----------------------------------------------------------------------------
(* Properties                                                              *)

\* The thread is at a statement that reads or writes the wrapper x.
Uses(t, x) ==
    \/ arg[t] = x /\ pc[t] \in CreatePlaces \cup DestroyPlaces \cup {"shutdown"}
    \/ t \in Sessions /\ dpc[t] # "idle" /\ dobj[t] = x

\* A wrapper is freed only when no thread, the dispatcher included, is using it,
\* no event for it is queued and the map cannot lead to it any more, whether
\* the destroy event frees it or MAMA's report (mamaEnvInbox.c:64,
\* mamaEnvSubscription.c:154).
NoUseAfterFree ==
    \A x \in Objects : phase[x] = "freed" =>
        /\ \A t \in Threads : ~Uses(t, x) /\ x \notin claimed[t]
        /\ queued[x] = 0
        /\ x \notin map

\* When shutdownInbox or shutdownSubscription has returned, no thread is running
\* the object's message callback, and none will; when destroyInbox or
\* destroySubscription has cleared the callbacks, that is so for all of them
\* (ReadMe.md:84-86; mamaEnvSession.c:445-448).
ShutdownQuiesces ==
    \A s \in Sessions : dpc[s] = "callback" => dkind[s] \notin silenced[dobj[s]]

\* The destroy event never has to wait for m_lock, so that the dispatcher cannot
\* be stopped by a thread that goes on using an object that is being destroyed,
\* and the lock is destroyed by its owner (mamaEnvSubscription.c:116, :142).
FinaliseNeverWaits ==
    \A s \in Sessions : dpc[s] = "finalLock" => CanLock(lock[dobj[s]], s)

\* The thread that t waits for, if any.
WaitsFor(t) ==
    LET serving == t \in Sessions /\ pc[t] = "idle"
        x       == IF serving THEN dobj[t] ELSE arg[t]
        place   == IF serving THEN dpc[t] ELSE pc[t]
        owner   ==
            CASE place \in {"insert", "remove", "find"} -> mapLock[MapOf(x)]
              [] place = "removeAll" -> mapLock[sweeping[t]]
              [] place \in {"clear", "shutdown", "callbackLock", "finalLock"} -> lock[x].owner
              [] OTHER -> t
    IN IF owner = t THEN NoThread ELSE owner

\* Threads that wait for one another in a circle are a shutdown, which keeps the
\* map locked, and the callback it waits for, which needs the map
\* (mamaManagedEnvironment.c:52, :78); or they are among callbacks of two sessions,
\* each in a call that needs the other.  No destroy, creation or sweep closes a
\* circle, since none of them keeps one lock while it waits for another
\* (mamaEnvSession.c:157-178, :440-475).
OnlyShutdownDeadlocks ==
    \A S \in SUBSET Threads : S # {} /\ (\A t \in S : WaitsFor(t) \in S) =>
        \/ \E t \in S, d \in S \cap Sessions :
             pc[t] = "shutdown" /\ WaitsFor(t) = d /\ WaitsFor(d) = t
        \/ \E d, e \in S \cap Sessions : d # e /\ pc[d] # "idle" /\ pc[e] # "idle"

\* From some time on MAMA reports nothing more to the callbacks.  A receiver has
\* no m_destroyLock, so a session that is never without messages may keep m_lock
\* from the thread that wants to destroy it.
TrafficEnds == <>[][\A s \in Sessions : ~Traffic(s)]_vars

\* An inbox or a subscription that is destroyed is freed in the end, once there is
\* a pause in the traffic; a subscription that MAMA destroys later does not leak
\* (ReadMe.md:8; mamaEnvSubscription.c:99-100).
DestroyCompletes ==
    TrafficEnds =>
        \A x \in Objects : (queued[x] > 0 \/ \E t \in Threads : pc[t] = "clear" /\ arg[t] = x)
                              ~> phase[x] = "freed"

\* A session that is destroyed gets rid of every inbox and every subscription,
\* the ones whose creation has failed too, so that its queue can be destroyed in
\* the end (mamaEnvSession.c:282, :381-387).
SessionDrains ==
    TrafficEnds =>
        \A s \in Sessions : s \in closing ~>
            \A x \in Objects : Home[x] = s => phase[x] \in {"none", "freed"}

-----------------------------------------------------------------------------
(* The inductive invariants.  Custody: an object is being created, or is   *)
(* in its map, or belongs to one call that destroys it, or waits in the    *)
(* queue, or is being finalised, or waits for MAMA's report.               *)

Creating(t, x) == pc[t] \in {"create", "insert"} /\ arg[t] = x
Finalising(x)  == dpc[Home[x]] = "finalLock" /\ dobj[Home[x]] = x
Delivering(x)  == dpc[Home[x]] = "callbackLock" /\ dobj[Home[x]] = x
InCallback(x)  == dpc[Home[x]] = "callback" /\ dobj[Home[x]] = x

Unclaimed(x) == \A t \in Threads : x \notin claimed[t]

MapCustody ==
    \A x \in map : Unclaimed(x) /\ queued[x] = 0 /\ ~Finalising(x)

ClaimCustody ==
    \A t \in Threads, x \in Objects : x \in claimed[t] =>
        /\ \A u \in Threads : x \in claimed[u] => u = t
        /\ queued[x] = 0 /\ ~Finalising(x)

QueueCustody ==
    \A x \in Objects : queued[x] <= 1 /\ (queued[x] > 0 => ~Finalising(x))

CreateCustody ==
    \A t \in Threads, x \in Objects : Creating(t, x) =>
        /\ x \notin map /\ Unclaimed(x) /\ queued[x] = 0 /\ ~Finalising(x)
        /\ \A u \in Threads : Creating(u, x) => u = t

\* What has not been created is nowhere, and what is given up is nowhere else.
NowhereElse ==
    \A x \in Objects : phase[x] \in {"none", "abandoned", "destroying"} =>
        /\ x \notin map /\ Unclaimed(x) /\ queued[x] = 0 /\ ~Finalising(x)
        /\ \A t \in Threads : ~Creating(t, x)

NoneIsSilent ==
    \A x \in Objects : phase[x] = "none" =>
        /\ silenced[x] = {} /\ ~Delivering(x) /\ ~InCallback(x)
        /\ \A t \in Threads : ~(pc[t] = "shutdown" /\ arg[t] = x)

\* A call that destroys objects works on one it has claimed; no other call has any.
\* A dispatcher is in a call only while it runs a callback.
CallCustody ==
    /\ \A s \in Sessions : pc[s] # "idle" => dpc[s] = "callback"
    /\ \A t \in Threads :
         /\ pc[t] \in DestroyPlaces => arg[t] \in claimed[t]
         /\ pc[t] \in DestroyPlaces /\ sweeping[t] = None => claimed[t] = {arg[t]}
         /\ pc[t] \notin DestroyPlaces \cup {"sweep"} => claimed[t] = {}
         /\ sweeping[t] # None => pc[t] \in {"removeAll", "sweep"} \cup DestroyPlaces
         /\ \A x \in claimed[t] : sweeping[t] # None => MapOf(x) = sweeping[t]

\* Over a step m_lock is held by the dispatcher only, and always during a callback.
LockCustody ==
    \A x \in Objects :
        /\ lock[x].owner \in {Home[x], NoThread}
        /\ lock[x].owner = NoThread <=> lock[x].depth = 0
        /\ InCallback(x) => lock[x].owner = Home[x]

\* A silenced callback is NULL, so that it is not called.
SilencedStaysSilent == \A x \in Objects : silenced[x] \cap callbacks[x] = {}

Custody ==
    /\ TypeOK
    /\ MapCustody /\ ClaimCustody /\ QueueCustody /\ CreateCustody
    /\ NowhereElse /\ NoneIsSilent /\ CallCustody
    /\ LockCustody /\ SilencedStaysSilent /\ ShutdownQuiesces

(* What holds besides when creation is not raced by the object's own       *)
(* callback or by destroySession, and the insertion does not fail.         *)
Quiet == Conditions \cap {"early", "late", "insert"} = {}

\* Whatever somebody may still use exists.
InUseIsOpen ==
    \A x \in Objects :
        /\ x \in map => phase[x] = "open"
        /\ ~Unclaimed(x) => phase[x] = "open"
        /\ queued[x] > 0 => phase[x] = "open"
        /\ Finalising(x) => phase[x] = "open"
        /\ Delivering(x) => phase[x] \in {"open", "destroying"}
        /\ InCallback(x) => phase[x] = "open"
        /\ \A t \in Threads : arg[t] = x =>
             /\ pc[t] = "create" => phase[x] = "allocated"
             /\ pc[t] = "insert" => phase[x] = "open"

\* A new object has its message callback; from the queue to MAMA's report all of
\* an object's callbacks are NULL.
CallbackStages ==
    /\ \A t \in Threads :
         /\ pc[t] = "create" => "message" \in callbacks[arg[t]]
         /\ pc[t] = "enqueue" => callbacks[arg[t]] = {}
    /\ \A x \in Objects :
         queued[x] > 0 \/ Finalising(x) \/ phase[x] = "destroying" => callbacks[x] = {}

\* An object whose handle is about to be returned is in the map, known to nobody.
UnpublishedIsPrivate ==
    /\ \A t \in Threads : pc[t] \in CreatePlaces => arg[t] \notin published
    /\ \A x \in published : phase[x] # "none"
    /\ \A t \in Threads : pc[t] = "publish" => arg[t] \in map
    /\ \A t \in Threads : pc[t] \in {"remove", "find", "shutdown"} => arg[t] \in published
    /\ \A s \in closing : NoCreation(s)
    /\ \A t \in Threads : sweeping[t] # None => sweeping[t][1] \in closing
    /\ \A t, u \in Threads :
         pc[t] \in CreatePlaces /\ pc[u] \in CreatePlaces /\ arg[t] = arg[u] => t = u

\* The map's lock pins the object that shutdown works on.
ShutdownPins ==
    /\ \A t \in Threads : pc[t] = "shutdown" =>
         arg[t] \in map /\ mapLock[MapOf(arg[t])] = t
    /\ \A m \in Maps : mapLock[m] # NoThread =>
         pc[mapLock[m]] = "shutdown" /\ MapOf(arg[mapLock[m]]) = m

InUse ==
    /\ Custody
    /\ InUseIsOpen /\ CallbackStages /\ UnpublishedIsPrivate /\ ShutdownPins

-----------------------------------------------------------------------------
\* Inboxes and subscriptions keep the promise of EventObject, for messages.
Stage(x) ==
    CASE phase[x] \in {"none", "allocated", "abandoned"} -> "absent"
      [] phase[x] = "destroying" -> "claimed"
      [] phase[x] = "freed" -> "gone"
      [] phase[x] = "open" ->
           IF x \in map \/ \E t \in Threads : pc[t] = "insert" /\ arg[t] = x
           THEN "live" ELSE "claimed"

Receives(x) == phase[x] \in {"open", "destroying"} /\ "message" \in callbacks[x]
Running(x)  == InCallback(x) /\ dkind[Home[x]] = "message"

Abstract == INSTANCE EventObject WITH
    stage   <- [x \in Objects |-> Stage(x)],
    enabled <- [x \in Objects |-> Receives(x)],
    running <- [x \in Objects |-> Running(x)],
    quiet   <- [x \in Objects |-> "message" \in silenced[x]]

ImplementsEventObject == Abstract!Spec
=============================================================================
