# A verification of MME

MME (the MAMA Managed Environment, `src/ReadMe.md`) wraps the event objects of
OpenMAMA (timers, inboxes, subscriptions) so that they can be destroyed and shut
down from any thread. It is 2358 lines of C in eight files and the headers
beside them, one of which (`src/mama/systree.h`) is a library of macros. There
are no tests in the repository; asserts are active in its builds. OpenMAMA and
its WOMBAT common library are used and not contained.

The directory holds TLA+ modules translated from that code, TLC configurations,
proofs for TLAPS, and `PROJECT.json`, which says for every definition which lines
it models, and lists the runs, the findings, the hazards and the theorems.

    tlc -workers 2 -config MmeTimer_safety.cfg MCMmeTimer      # a run
    tlapm MmeTimerProofs.tla                                   # the proofs

## 1. The system

| part | code | state | operations |
|---|---|---|---|
| synchronized map | `mamaSynchronizedMap.c` | tree, count of entries, lock | create, destroy, insert, remove, for, foreach, removeAll |
| red-black tree | `mama/systree.h` | nodes, colours | the BSD macros: insert, remove, find, next |
| synchronization event | `mamaEnvEvent.c` | flag, mutex, condition | create, destroy, set, reset, wait, timedWait |
| timer | `mamaEnvTimer.c` | callback, `m_lock`, `m_destroyLock`, the MAMA timer | allocate, destroy, shutdown, onTimerTick, onTimerDestroy |
| inbox | `mamaEnvInbox.c` | two callbacks, `m_lock`, the MAMA inbox | allocate, destroy, shutdown, onMessage, onError, onInboxDestroy |
| subscription | `mamaEnvSubscription.c` | callbacks, `m_lock`, the MAMA subscription | allocate, create, destroy, shutdown, six callbacks, onSubscriptionDestroy |
| session | `mamaEnvSession.c` | queue, dispatcher, a map per kind of object | create and destroy each kind of object, destroyAllEvents, create, destroy, canDestroy |
| connection | `mamaEnvConnection.c` | object queue with its dispatcher and timer, two lists of sessions | create and destroy connection and session, the session timer, the enumerations |
| managed environment | `mamaManagedEnvironment.c` | none | shutdownInbox, shutdownTimer, shutdownSubscription, argument checks |

How they interact. An application thread, or a callback on a dispatcher's
thread, calls the API. Creating an object allocates a wrapper, creates the MAMA
object, which from then on calls back on the session's dispatcher, and inserts
the wrapper into the session's map. Destroying one takes it out of the map,
clears its callbacks under its lock and enqueues an event on the session's
queue; the dispatcher finalises and frees it. Shutting one down clears the
callback while the map is locked. Destroying a session sweeps its three maps in
that way and moves the session to the connection's second list; the dispatcher
of the connection's object queue frees it when its queue has no open objects.
The object dispatcher also starts every session, while `createSession` waits on
an event. `destroyConnection` destroys all sessions, and waits on another event
until the second list is empty.

What is hard, and what each part has to get right:

* **map**: the count is updated outside the lock, and `removeAll` trusts it.
  Each object must be handed to one destroyer, and the object that `for` works
  on must stay.
* **event**: no wakeup may be lost, and who returns from a wait must have been
  told.
* **timer**: the dispatcher frees the wrapper while other threads have been in
  its locks; callbacks destroy their own timer; a busy timer must let its
  destroyer in; ticks start before `createTimer` has returned; destruction by
  several threads and by the session's sweep meet; shutdown means quiet.
* **inbox, subscription**: the same with a single lock; a subscription's
  MAMA-side destroy callback frees it, and errors arrive on the same lock.
* **session, connection**: a session moves from thread to list to thread to
  list, each step under another lock, while enumerations of both lists run;
  nobody may reach it when it is freed, and nobody may forget it; one of several
  destructions fails; the structure that a queued event points to is on a stack;
  callbacks make the calls that wait for callbacks.

## 2. The modules

| module | models | with |
|---|---|---|
| `RBTree` | the red-black tree the map is made of, link by link, turn of a loop by turn | 1 cfg, `RBTreeLemmas`, `RBTreeBalance`, `RBTreeProofs` |
| `SynchronizedMap` | the map, split at its lock and at each access to the count outside it | `MCSynchronizedMap`, 2 cfgs, `SynchronizedMapProofs` |
| `HandoffMap` | what the map promises: an atomic hand-off | instantiated by `SynchronizedMap` |
| `WLock` | the library's recursive lock (external), as operators | extended by `MmeTimer` and `MmeReceiver` |
| `MmeTimer` | timers, their session's map and queue, and all callers | `MCMmeTimer`, 3 cfgs, `MmeTimerProofs` |
| `MmeReceiver` | inboxes and subscriptions, their session's two maps, its queue, and all callers | `MCMmeReceiver`, 2 cfgs, `MmeReceiverProofs` |
| `EventObject` | what ReadMe promises about an event object: two-stage destruction, shutdown | instantiated by `MmeTimer` and `MmeReceiver` |
| `MamaEvent` | the event: flag, mutex, condition | 1 cfg, `MamaEventProofs` |
| `Connection` | connection and sessions, lists, object queue | `MCConnection`, 3 cfgs, `ConnectionProofs` |
| `SessionLifecycle` | what the header promises about sessions and connections | instantiated by `Connection` |

How they fit. `RBTree` is proved to be a set of keys, which is how `SynchronizedMap`
has it: its insertions, removals and lookups are single steps there, since on one head
there is one operation at a time. `MmeTimer` and `MmeReceiver` use the map as the
atomic hand-off that `SynchronizedMap` is proved to be, except for its lock, which
`for` holds over a step. The three maps of a session meet in two places only, its
dispatcher and the sweep of destroySession; timers and receivers share neither
wrappers nor locks, so each module has one kind of the two and its own part of the
sweep. `Connection` uses the event objects of a session as one value (none, live,
claimed) and a `wait` as the flag of `MamaEvent`. Where a module below does not keep
its promise, the one above takes that over as a *condition*: `late` in `Connection` is
a callback that creates an object on a session whose destruction has begun, which in
`MmeTimer` can keep a session from draining; `abandon` in `MmeTimer` and `MmeReceiver`
is a `removeAll` whose count was too small; `spurious` and `waitFails` in `Connection`
are the waits of `MamaEvent` that end though nobody has set the event.

Conventions. `pc` says where each thread is in a call; a call is split where it
takes a lock, lets go of one that others wait for, calls back, waits or touches
shared state without a lock. `Conditions` is a constant: the set of things that
may go wrong (an allocation or a library call that fails, a race the API does
not exclude). A run names its conditions, so a violation shows what is to blame,
and a passing run says under which conditions the code is right. Operators with
the comment `(mutant)` are mistakes a programmer could make; they are in no
specification, and each property has one that breaks it.

### RBTree

A node is its key: the key is an address, and `synchronizedMap_compare` compares
nothing else. `mem` holds the roots of the heads (the map's and one for each
removeAll), and both children, the parent and the colour of each node; all heads share
the nodes, as in memory. `op` has, for each head, the operation that is on it, where
it is, and its pointers (`elm`, `parent`); `keys` is a history, what has been put
under a head and not taken out. RB_INSERT of a key that is in the tree already changes
nothing and returns the node (`InsertEqual`); the map, which inserts each object once,
does not look at the result.

Each turn of a loop is a step, and the operations of different heads interleave: the
map's lock admits one operation on the map's head, while a removeAll empties its own
without the lock. RB_INSERT is `Insert`, `InsertDescend`, `InsertEqual` or
`InsertLink`, and then the turns of RB_INSERT_COLOR (`UncleIsRed`, `UncleIsBlack`,
`InsertDone`); RB_REMOVE is `RemoveNode`, `SuccessorDescend`, `UnlinkOld` or
`UnlinkSuccessor` (with `Splice` and `TakePlace`), and the turns of RB_REMOVE_COLOR
(`SiblingIsRed`, `NephewsAreBlack`, `NearIsRed`, `FarIsRed`, `RemoveDone`). A turn
with several rotations in the code is several steps here, each of which leads back to
the tests at the head of the loop; these then come out as in the code, which does not
repeat them. The macros come in mirrored pairs; an operator with a side (`Rotate`,
`SideOf`, `Opposite`) stands for both. A NULL that the macros would dereference is
outside the domains, so that TLC stops at one. RB_FIND and RB_FOREACH are walks in the
same way (`FindDescend`, `LeftmostDescend`, `Following`, `Ascend`).

### SynchronizedMap

The tree is the set of its keys. Insert is `InsertLink` (tree, under the lock)
and `InsertCount` (count and unlock); remove is `RemoveFound`, the unlock, then
`RemoveLoad` and `RemoveStore`, the two halves of the unlocked `--`. `foreach`
visits under the lock; `removeAll` copies the tree and the count under it
(`SweepCopy`, `SweepReset`) and then calls back without it until its own count,
not its tree, says that nothing is left (`SweepNext`, `SweepStop`).

### MmeTimer

One action per statement that other threads can tell apart. createTimer:
`CreateAllocate`, `CreateMamaTimer` (the timer ticks), `CreateInsert`,
`CreateReturn`, or `CreateFails`. destroyTimer: `DestroyTimer`, `DestroyRemove`
or `DestroyAbsent`, `DestroyLock` (m_destroyLock), `DestroyClear` (m_lock, the
callback, both unlocks), `DestroyEnqueue`. destroySession's sweep of the timers:
`DestroyAllEvents`, `SweepMap`, `SweepNext` and the same destroy steps per timer.
shutdownTimer: `ShutdownTimer`, `ShutdownFind` (takes the map's lock),
`ShutdownClear`. The dispatcher: `TickBegin`, `TickLock`, `TickReturn`,
`TickHandshake`, `TickEnd`, and `FinaliseBegin`, `FinaliseLock`, `FinaliseFree`
for the destroy event. Locks are recursive (`WLock`).

### MmeReceiver

Creation: `AllocateInbox` or `AllocateSubscription`, `CreateInbox` or
`CreateSubscription` (MAMA calls back from then on), `CreateInsert`,
`CreateReturn`, or `CreateInboxFails`, `CreateSubscriptionFails`. Destruction:
`DestroyInbox` or `DestroySubscription`, `DestroyRemove`, `ClearInbox` or
`ClearSubscription` (all callbacks, under `m_lock`), `DestroyEnqueue`. Shutdown:
`ShutdownInbox` or `ShutdownSubscription`, `ShutdownFind` (takes the map's lock),
`StopInbox` or `StopSubscription` (the message callback only). destroySession's
sweep: `DestroyAllEvents`, `SweepMap`, `SweepInbox` or `SweepSubscription` and the
same destroy steps, first the inboxes, then the subscriptions (`NextMap`).
shutdownSession: `ShutdownSession`. The dispatcher: `OnErrorCallback`,
`OnMessageCallback`, `OnCreateBasic`, `OnErrorBasic`, `OnMsgBasic` (something for
the object is taken from the queue), `CallbackLock`, `CallbackReturn`, and for the
destroy event `FinaliseBegin`, `OnInboxDestroy` or `OnSubscriptionDestroy`;
`OnDestroy` is MAMA's report. `callbacks` is the set of an object's callbacks that
are not NULL. The callbacks a basic subscription passes to MAMA for gaps, quality
and recaps are NULL (`mamaEnvSubscription.c:10-12`); the wildcard message callback
differs from the basic one in its arguments, and is not told apart from it.

A subscription is freed in two stages. `OnSubscriptionDestroy` calls
`mamaSubscription_destroy` with `m_lock` held; MAMA may report the destruction
from within, which frees the wrapper, or later, which is phase `destroying` with
`m_lock` kept by the dispatcher's thread until `OnDestroy`. Creation that fails
leaves phase `abandoned`, which only the report ends (condition `unreported`: it
may not come).

### MamaEvent

`Lock`, the locked section, `Unlock`; a wait is `TestSignaled` and, when the flag
is clear, `Sleep` (which lets go of the mutex), a wakeup by `Broadcast`,
`TimedOut` or `SpuriousWakeup`, and `Reacquire`. The flag is tested once, as the
`if` of the code does. Each call of the platform may fail: `LockFails`,
`BroadcastFails` (the flag stays clear), `CondWaitFails` (the wait has the mutex
again), `ClockFails`, and `UnlockFails`, after which the mutex stays locked for good
and the call says so. Two history variables tell why a wait ended: `seen`, the
event was signaled; `stray`, the platform woke the thread for nothing.

### Connection

`Obj` is the dispatcher of the object queue, `Main` the application thread that
created the connection, a session stands for its own dispatcher's thread. In
`queue` an event is named by whom it is for: the caller of createSession (whose
utility structure it points to), or `Obj` for `onDestroyAllSessions`. When the wait
of createSession fails or ends early the call goes on (`LeaveUtility`): `left` then
has the session in the structure that the queued event still points to, on a stack
that has been left; `OnSessionCreate` works on what it finds there.
createSession: `AllocateSession`, `EnqueueCreate`, `WaitCreated`, `AddSession`.
destroySession: `DestroySession`, `RemoveSession`, `SweepEvents`,
`MarkDestroyed`. destroyConnection: `DestroyConnection`, `EachSession` (followed
by the steps of destroySession), `EnqueueDestroyAll`, `WaitDestroyed`,
`FreeConnection`. The object dispatcher: `OnSessionCreate`, `OnSessionTimerTick`,
`OnDestroyAllSessions`, and in the two enumerations `SkipSession`, `TakeSession`,
`StopSession`, `FreeSession`, `EndEnumerate`, `TimedDispatchReturns`,
`SignalDestroyed`. `TakeSession` frees the list element that `StopSession` and
`FreeSession` read once more (`mamaEnvConnection.c:310`, `:392`, `:395`);
`ReuseElement` is an addSessionToList that gets its memory meanwhile, so that they
read its session instead, and `reused` records that Obj has done so.
`appDestroy` in `Operations` are destroySessions by applications, `create` and
`destroy` what callbacks call.

A list of the WOMBAT library is taken to lock itself in each call, with a lock
its holder may take again, to keep it locked in `list_for_each`, and to have
looked at the next element before it calls back: the callbacks under `src/src/`,
which remove the element they are given while other threads use the list, are
right only with such a list.

## 3. What the runs show

The bounds are the constants of each cfg; nothing else is bounded (queues and
counters are finite because the objects are, and each is used once).

| run | instance | shows |
|---|---|---|
| `rbtree` | six entries, two heads | `IsTheSetOfItsKeys`, `RedBlack`, `LinksAgree`, `OperationsEnd` |
| `map` | 2 threads, 2 keys | `HandedOnce`, `ForPinsEntry`, `LockDiscipline`, `FirstErrorKept`; `CallsReturn`; `ImplementsHandoff` |
| `event` | 3 threads; spurious wakeups, and every call of the platform may fail | `NoSleeperFromBroadcast` (no lost wakeup), `OkMeansSet`, `SetReleases` (one set releases all) |
| `timer_safety` | 2 sessions, a timer each, 2 applications, all calls, all failures | `NoUseAfterFree`, `DestroyedOnce`, `ShutdownQuiesces`, `DestroyTakesEffect`, the inductive `InUse`; `ImplementsEventObject` |
| `timer_live` | 1 session, 2 timers; callbacks call everything, the application everything but shutdown | `NoCircularWait`, `DestroyCompletes`, `SessionDrains` |
| `receiver_safety` | 1 session, an inbox and a subscription, 2 applications, all calls, all failures | `NoUseAfterFree`, `ShutdownQuiesces`, `FinaliseNeverWaits`, `OnlyShutdownDeadlocks`, the inductive `InUse`; `ImplementsEventObject` |
| `receiver_live` | the same objects; callbacks call everything, the application everything but shutdown; creations fail | `DestroyCompletes`, `SessionDrains` |
| `connection` | 2 sessions, 2 applications, callbacks create and destroy, creation may fail | `NothingLost`, `AllDestroyed`, `NoCircularWait`; `ImplementsLifecycle`; `CreateReturns`, `DestroyedIsFreed`, `ConnectionIsFreed` |
| `connection_faults` | 3 sessions, all conditions | `Custody`, `JoinNeverWaits`, `UtilityAlive` |
| `map_count` | 2 threads, 2 keys | **violated**: `CountIsZero`, the assert of removeAll |
| `timer_shutdown_deadlock` | 2 timers | **violated**: `NoCircularWait`, when an application shuts down what a callback destroys |
| `connection_error_masked` | 2 sessions, an application that creates them and destroys the connection, `sweep` | **violated**: `AllDestroyed` |

Why the bounds are enough. The steps of the code touch one object, one map and one
queue, and compare identities only. Two threads on one object are what each race of
the map needs; the event has a third, so that a set has two sleepers to wake. Two
timers on one session show the map and the queue shared, one timer on each of two
sessions the dispatchers beside each other. Two sessions let one be created or
enumerated while the other is freed, and the third of `connection_faults` lets all of
it happen at the same time. In `timer_safety` the applications do not sweep a session:
a callback of the other session does, which is a thread of another dispatcher to the
session that is swept. An inbox and a subscription on one session have the dispatcher
in common and are in two maps, so that a sweep goes from one to the other; two inboxes
would share what two timers of `timer_live` share. Six entries of a tree are enough
for every branch of the rebalancing to be taken on both sides, with an operation on
the other head at any point of it. What a removal passes on to the next level takes
ten; with `N = 10` and `Locals = {}` the same invariants hold too, and the proofs are
for any number. Two applications and the callbacks are all the kinds of caller there
are. The symmetry sets permute only constants the specification treats alike (the
applications only, when `Home` is fixed to two sessions), and never in a run with a
liveness property.

Findings. Each violation run checks one property and is a finding of
`PROJECT.json` that quotes the line it contradicts:

* `mamaSynchronizedMap.c:180`: the count is decremented after the unlock.
* `mamaManagedEnvironment.c:100`: shutdownTimer waits for `m_lock` with the map
  locked; the callback that holds `m_lock` waits for the map.
* `mamaEnvConnection.c:461`: an element's error is overwritten by the next one's
  success, and destroyConnection leaves its session running. Nobody calls
  destroySession in that run, and no callback calls anything, so that the failure
  which is lost is one that destroyConnection was told of.

The same models show more, when a configuration is given the condition or the
caller named here; the hazards of `PROJECT.json` have each at its line.

Timers:

* `early` in `timer_live`: `DestroyCompletes`. A timer ticks before it is in the
  map (`mamaEnvSession.c:97-100`), so a destroyTimer in its first callback finds
  nothing, returns OK ("it has already been removed", `:227`), and the timer stays.
  `DestroyTakesEffect` speaks of the handle createTimer has returned, and holds with
  every condition.
* `early` or `insert` in `timer_safety`: `NoUseAfterFree` (`:103`, `:112`).
  `late` in `timer_live`: `SessionDrains` (`:393`).
* Two sessions in `timer_live`, whose callbacks destroy each other's timers:
  `NoCircularWait` (`:483`).
* Applications that shut timers down in `timer_live`: `DestroyCompletes`; shutdown
  does not take part in the hand-shake (`mamaEnvTimer.c:136`).

Inboxes and subscriptions:

* `early` or `insert` in `receiver_safety`: `NoUseAfterFree`, as for timers
  (`mamaEnvSession.c:59`, `:68`, `:419`).
* `OnlyShutdownDeadlocks` allows two circles of waiting threads. The first is the
  deadlock of shutdownTimer (`mamaManagedEnvironment.c:52`, `:78`), and
  `receiver_safety` reaches it; the second takes callbacks of two sessions. The
  property says that there is no third.
* The operation `stop` in `receiver_live`: `SessionDrains`. ReadMe (`:139-142`)
  has an application call shutdownSession and then destroySession; the destroy
  events of the second go to a queue the first has deactivated
  (`mamaManagedEnvironment.c:26`), and nothing is freed.
* `unreported` in `receiver_live`: `SessionDrains`; a subscription whose creation
  has failed waits for a report that need not come (`mamaEnvSession.c:428`).
* `ShutdownQuiesces` says nothing of the error callback after shutdownInbox: the
  code clears the message callback only (`mamaEnvInbox.c:137`), where ReadMe
  (`:127`) says that no further callbacks will be invoked.

The event:

* `WaitMeansSet` instead of `OkMeansSet` in `event`: a spurious wakeup ends a wait
  with OK, as `mamaEnvEvent.c:327` has `if` where `while` is needed.

Connections:

* `AllDestroyed` with `dispatch` (`mamaEnvConnection.c:342`) or `nomem` (`:112`);
  `NothingLost` with `alloc` (`:77`).
* `AllDestroyed` with `spurious` or `waitFails`. A wait of createSession (`:92`) that
  fails (`:93`) or ends early (`mamaEnvEvent.c:327`) makes the call return while the
  event that points to its stack is queued; the object dispatcher then works on a
  session that has been freed, or on that of the caller's next call. `UtilityAlive` without
  `left[queue[i]] # None` is violated by the same traces. It holds with both
  conditions as it stands: no other path leaves the pointer behind.
* `NothingLost`, `AllDestroyed`, `NoCircularWait` with `reuse`, and `Custody` and
  `JoinNeverWaits` without `reused`. The object dispatcher reads the session of a list
  element it has freed (`:389-395`); when a createSession gets that memory, the new
  session is stopped and freed, and the old one is forgotten.
* `NoCircularWait` with `race`: a callback destroys its session while
  destroyConnection, with the list locked, waits for it (`:141`).

## 4. Fairness

Liveness needs that threads run, and that what the code waits for without
bound does happen; `Fairness` says so in each module.

* Weak fairness for every step of a call that waits for nothing: a thread the
  system schedules. None for the *start* of a call. `RBTree` has it for each head: the
  thread whose operation has begun there runs on.
* Strong fairness for a lock that is held for a few instructions (the map's,
  `m_destroyLock`, the event's mutex, a list's): whoever waits for one that is
  free again and again gets it, as with the platform's mutexes.
* None for `m_lock`, which a busy timer's dispatcher holds nearly always: that a
  destroyer gets it is what the hand-shake is for, and is a result
  (`DestroyCompletes`), not an assumption. `Connection` uses that result (strong
  fairness of `SweepEvents`).
* A queue is first-in first-out, so that an event in it is dispatched though
  ticks or messages go on (strong fairness of the dispatching actions), and so is
  MAMA's report of a destruction, unless it is `unreported`. Callbacks return.
* Receivers have no `m_destroyLock`, so nothing in the code gets a destroyer past
  a session that is never without messages. `DestroyCompletes` and
  `SessionDrains` of `MmeReceiver` therefore start from `TrafficEnds`: from some
  time on MAMA has nothing more to say to the callbacks. Without it they are
  false, and for timers, which tick for ever, it is not needed.

## 5. What is proved

For any number of threads, keys, sessions and timers; TLAPS checks every step.

**RBTreeProofs**, on the lemmas of **RBTreeLemmas** and **RBTreeBalance**. For any
number of entries and of heads, and at every turn of every loop. The difficulty is
that a tree is defined by recursion and that induction over it is not available to
the provers. So the nodes are *labelled*: `under[n]` is the set of the keys below n,
`rank[n]` the number of black nodes on a path down from n. What it means that the
labels are right is local, a matter of a node and its children (`Sorted`, `Nested`,
`Ranked`, `Coloured`), and so is what a step does to them. `IInv` says that there are
labels under which every head's tree is right, up to what the operation on it has yet
to restore (`Balanced`: a red node that may have a red parent, or one that is short of
a black one), and the operation's pointers are where they should be (`Pointers`: what
a descent has passed by is on the other side of the key). It is inductive: a rotation
changes the labels of two nodes, a link or an unlinked node those of its ancestors,
and a successor that takes the place of an old node is a renaming that keeps the
order. Steps of one head leave the labels of the others alone because no node belongs
to two heads, nor a detached one to any (`Owned`), and without that nothing else would
be inductive, as the heads share their memory. From it `TypeOK`, `IsTheSetOfItsKeys`,
`LinksAgree`, `RedBlack`, and `BlackHeightsAgree`: the black nodes on all paths down
from a node are as many. That last one is not in a run, since it asks for the labels.
Assumption: `TreeAssumption` (the map's head is not a removeAll's).

**SynchronizedMapProofs.** `IInv` is inductive: an entry is in the tree, or in
the local tree of one removeAll, or handed out; the lock is held exactly in the
locked sections; an object being inserted is in no map. `HandedOnce` alone is not
inductive, because it does not say that what a sweep has copied is gone from the
tree. From it: `TypeOK`, `HandedOnce`, `ForPinsEntry`, `LockDiscipline`, and
`MapImplementsHandoff`, the refinement, step by step. `FirstErrorKept` speaks of the
places where callbacks run, and becomes inductive (`ErrorKept`) with the places
before them. Assumption: `NullAssumption` (no thread is NoThread, no key is NoKey).

**MamaEventProofs.** `NoSleeperWhenSet` needs that between its broadcast and the
moment it sets the flag a set keeps the mutex, and so keeps sleepers out
(`NoSleeperFromBroadcast`); it holds whatever the platform does. (A mutex that could
not be unlocked keeps everybody out, sleepers too.) `OkMeansSet`: a
wait that returns OK has seen the event signaled or was woken for nothing; without
spurious wakeups nobody is (`NothingStray`), which gives `WaitMeansSet` under the
hypothesis `"spurious" \notin Conditions`.

**MmeTimerProofs.** `Custody` is inductive *for every choice of Conditions*: a
timer is being created, in the map, claimed by one call, queued, or being
finalised, never two of them; `m_lock` is held over a step exactly while the
callback runs, `m_destroyLock` exactly at the three places that hold it; a
silenced timer has no callback. From it `TypeOK`, `DestroyedOnce`,
`ShutdownQuiesces`, `FinaliseNeverWaits`, and, with `Settled` (nobody is still
creating a timer whose handle has been returned, so it does not get into the map any
more), `DestroyTakesEffect`. `InUse` adds that who works on a
wrapper works on an open one; it is inductive, and gives `NoUseAfterFree`, under the
hypothesis that the conditions `early`, `late` and `insert` do not occur (`Quiet`):
both `early` and `insert` break it (section 3). `NoCircularWait` is proved from `InUse` under
two more hypotheses (`OneDispatcher`), which are what the findings of section 3
violate: there is one session, and applications do not shut timers down. The
dispatcher then waits for nothing but `m_destroyLock`, whose owner is at "clear"
for the same timer, so that both would have claimed it. Assumption:
`ConstantsAssumption`.

`ImplementsEventObject` is proved under `Quiet` as well: each step of a timer is
a step of `EventObject` or none. `InUse` gives the stage of the timer that the step is
about; `CallbackStages`, inductive on top of it, says when its callback is set,
without which neither the start of ticking nor its end could be told from a stutter.

**MmeReceiverProofs.** The same two levels. `Custody` is inductive *for every
choice of Conditions*, and has two places more than a timer's: a subscription may
wait for MAMA's report. Who claims an object is told by `CallCustody`: the call it
was found by, or a sweep of its map. `m_lock` is held over a step by the
dispatcher only, which is why a destroy event never waits (`FinaliseNeverWaits`).
From it `TypeOK` and `ShutdownQuiesces`. `InUse` says in which phase whatever can
be reached is; that a subscription which waits for the report is in no callback
needs `CallbackStages`, since messages for it may still be in the queue, and
that a sweep does not take an object away from the thread that is creating it
needs `UnpublishedIsPrivate`. It gives `NoUseAfterFree`, again under `Quiet`.
`OnlyShutdownDeadlocks` is proved *for every choice of Conditions*, sessions and
calls, from `Custody` and `MapLockOwners` (a map is locked over a step only by a
shutdown): who waits in a circle waits for a dispatcher or for a shutdown, and a
shutdown waits for a dispatcher, so a dispatcher is in the circle. If it waits for
another one, there are two. If it waits for a shutdown, that one waits for this
dispatcher or for another. Assumption: `ConstantsAssumption`.

`ImplementsEventObject` is proved under `Quiet` as well. A subscription is
freed by a step of the dispatcher or by MAMA's report, and both are `Free` of
`EventObject`. Creation that fails is `CreateFails` when the wrapper is freed; a
subscription that waits for MAMA's report until then has not come into being.

**ConnectionProofs.** `IInv` is inductive *for every choice of Conditions* and any
number of sessions. `Custody` says that a session is in at most one list or in one
thread's hands, and that nobody can reach one that has been freed. It does not say
what a thread at a given place works on, so `IInv` adds: a thread at one of the places
`WorksOnSession` has a session to work on; a thread about to take its session out of
the list finds it there (`RemoveCustody`), unless it is a callback that
destroyConnection has overtaken (`Overtaken`), which then waits for the list until the
connection is gone; what `Main` and `Obj` have still to visit is in the list they keep
locked (`MainCustody`, `ObjCustody`); a callback that is in a call is still in its
callback (`CallbackCustody`); an event of createSession is in the queue only while its
caller waits (`UtilityCustody`), or has left its structure behind (`left`). From it
`TypeOK`, `Custody`, `JoinNeverWaits`, `UtilityAlive`. All of it holds until Obj has
read a list element whose memory was given away (`reused`), after which it may stop
and free any session. Assumption: `ConnectionAssumption`.

Then what holds when no step of destruction fails, no callback calls the API while
the connection is destroyed, waits end when they should and freed elements are not
reused (`Sound`; creation may fail, and
callbacks may create objects late). `SoundInv` adds to `IInv` in which stage a
session is, wherever it is found (`SessionStages`, `CreatorStages`,
`DestroyerStages`), that none is lost (`NothingLost`), and what destroyConnection
has still to do (`Draining`): its list is empty when it asks Obj for the rest, and so
is the other when Obj answers. From it `NothingLost`, `AllDestroyed`, `NoCircularWait`
and `ImplementsLifecycle`. Section 3 has runs that violate the first three without
`Sound`.

**With TLC only.** Liveness under fairness, and what needs ENABLED; so also that the
loops of the red-black tree end (`OperationsEnd`): the proofs say what holds at each
turn, and that no turn meets a NULL it does not ask for, not that there is a last one.
`NoCircularWait` is proved for one session's timers: with two sessions whose callbacks
destroy each other's timers it does not hold.

## 6. What is not modelled

* The splay tree of `systree.h`, and the macros of its red-black tree that the map
  does not use. Which of two addresses is the greater is up to the allocator, so
  every order of insertion is explored.
* createTimer and the creation of receivers in one module: a session with both
  kinds is swept map by map, and the kinds meet nowhere else (section 2).
* Basic and wildcard subscriptions separately: they differ in the data passed to
  MAMA and to the callback.
* NULL-argument checks, logging, queue names, the closure arguments.
* `createConnection` failing: it undoes its own steps before anyone has the
  connection. A failing `mamaTimer_destroy` at the start of destroyConnection: it
  returns with nothing changed, a stutter. A failing `mamaEnv_setEvent` in the object
  dispatcher's handlers (`mamaEnvConnection.c:352`, `:368`): the model always signals;
  if it fails its caller waits for ever.
* Handles an application uses after it has destroyed them, and the reuse of the
  address of a timer, an inbox, a subscription or a session for a new one: a caller
  that does it is wrong. (The freed list element that MME itself reads is modelled,
  see `Connection`.) The exceptions are callbacks, which
  run on MME's own threads and cannot be told to stop: the conditions `early`,
  `late` and `race` are theirs. A callback destroys its own session only, so that
  a session has one destroyer besides destroyConnection.
* `synchronizedMap_foreach` is in the map's module although nothing calls it.
* The Windows event (`mamaEnvEvent.c:10-127`), the build files, and the headers,
  which declare what the sources define.
