--------------------------- MODULE SynchronizedMap ---------------------------
(***************************************************************************)
(* The map a session keeps its event objects in                            *)
(* (src/src/mamaSynchronizedMap.c): a red-black tree under one lock, and a  *)
(* count of its entries that is not always updated under that lock.        *)
(*                                                                         *)
(* The tree is the set of its keys; the callback of `for` and of `foreach` *)
(* runs while the caller holds the lock, the callback of `removeAll` does  *)
(* not.  Every call takes the lock exactly once, so the model splits a     *)
(* call at the lock, at each access to the count that is made outside it,  *)
(* and at each callback.  The lock is never taken again by its holder (no  *)
(* callback of the code re-enters the map), so an owner is all it needs.   *)
(***************************************************************************)
EXTENDS Integers

CONSTANTS
    Threads,    \* threads that call the map
    Keys,       \* addresses of the objects put into it
    NoThread,   \* owner of a free lock
    NoKey       \* argument of a call that has none

ASSUME NullAssumption == NoThread \notin Threads /\ NoKey \notin Keys

VARIABLES
    alive,          \* FALSE once synchronizedMap_destroy has freed the map
    lock,           \* m_lock: its owner, or NoThread
    tree,           \* m_tree: the keys reachable from the root
    numberEntries,  \* m_numberEntries
    pc,             \* where each thread is in its call
    arg,            \* the key the thread's call is about
    reg,            \* the count as loaded by an unfinished ++ or --
    pending,        \* the entries an enumeration in progress has still to visit
    entriesLeft,    \* entriesLeft of removeAll
    ret,            \* the return code of the call, as far as it is known
    inserted,       \* history: keys that have been linked into the tree
    handed,         \* history: how often each key's data left the map
    failed          \* history: a callback of the call has reported an error

lockVars == <<alive, lock>>
callVars == <<pc, arg, reg, pending, entriesLeft, ret, failed>>
vars == <<alive, lock, tree, numberEntries, pc, arg, reg, pending,
          entriesLeft, ret, inserted, handed, failed>>

Statuses == {"OK", "ERROR", "NOMEM", "INVALID_ARG", "NOT_FOUND"}

\* The places where a call waits for the lock, where it holds it, and where it
\* goes on without it.
Waiting  == {"insert", "remove", "for", "foreach", "removeAll"}
Locked   == {"linked", "calling", "visiting", "copied"}
Unlocked == {"removed", "loaded", "sweeping", "swept"}
Keyed    == {"insert", "linked", "remove", "removed", "loaded", "for", "calling"}
Places   == {"idle"} \cup Waiting \cup Locked \cup Unlocked

TypeOK ==
    /\ alive \in BOOLEAN
    /\ lock \in Threads \cup {NoThread}
    /\ tree \subseteq Keys
    /\ numberEntries \in Int
    /\ pc \in [Threads -> Places]
    /\ arg \in [Threads -> Keys \cup {NoKey}]
    /\ reg \in [Threads -> Int]
    /\ pending \in [Threads -> SUBSET Keys]
    /\ entriesLeft \in [Threads -> Int]
    /\ ret \in [Threads -> Statuses]
    /\ inserted \subseteq Keys
    /\ handed \in [Keys -> Nat]
    /\ failed \in [Threads -> BOOLEAN]
    /\ \A t \in Threads : pc[t] \in Keyed => arg[t] \in Keys

\* synchronizedMap_create
Init ==
    /\ alive = TRUE
    /\ lock = NoThread
    /\ tree = {}
    /\ numberEntries = 0
    /\ pc = [t \in Threads |-> "idle"]
    /\ arg = [t \in Threads |-> NoKey]
    /\ reg = [t \in Threads |-> 0]
    /\ pending = [t \in Threads |-> {}]
    /\ entriesLeft = [t \in Threads |-> 0]
    /\ ret = [t \in Threads |-> "OK"]
    /\ inserted = {}
    /\ handed = [k \in Keys |-> 0]
    /\ failed = [t \in Threads |-> FALSE]

-----------------------------------------------------------------------------
(* The lock and the return of a call.                                      *)

Acquire(t) == lock = NoThread /\ lock' = t
Release(t) == lock = t /\ lock' = NoThread

Goto(t, place) == pc' = [pc EXCEPT ![t] = place]

\* The call returns: its locals are gone.
Return(t, status) ==
    /\ Goto(t, "idle")
    /\ arg' = [arg EXCEPT ![t] = NoKey]
    /\ reg' = [reg EXCEPT ![t] = 0]
    /\ pending' = [pending EXCEPT ![t] = {}]
    /\ entriesLeft' = [entriesLeft EXCEPT ![t] = 0]
    /\ ret' = [ret EXCEPT ![t] = status]
    /\ UNCHANGED failed

\* A thread makes a call.  An object is inserted once, by the thread that has
\* just created it; nothing in the library uses a map that it has destroyed.
Call(t, op, k) ==
    /\ alive
    /\ pc[t] = "idle"
    /\ op \in {"insert", "remove", "for"} <=> k # NoKey
    /\ op = "insert" =>
         /\ k \notin inserted
         /\ \A u \in Threads : ~(pc[u] = "insert" /\ arg[u] = k)
    /\ Goto(t, op)
    /\ arg' = [arg EXCEPT ![t] = k]
    /\ ret' = [ret EXCEPT ![t] = "OK"]
    /\ failed' = [failed EXCEPT ![t] = FALSE]
    /\ UNCHANGED <<alive, lock, tree, numberEntries, reg, pending,
                   entriesLeft, inserted, handed>>

-----------------------------------------------------------------------------
(* synchronizedMap_insert                                                  *)

\* calloc of the tree node fails: nothing is touched.
InsertNoMem(t) ==
    /\ pc[t] = "insert"
    /\ Return(t, "NOMEM")
    /\ UNCHANGED <<lockVars, tree, numberEntries, inserted, handed>>

\* Lock, RB_INSERT, and the load of m_numberEntries++.
InsertLink(t) ==
    /\ pc[t] = "insert"
    /\ Acquire(t)
    /\ tree' = tree \cup {arg[t]}
    /\ inserted' = inserted \cup {arg[t]}
    /\ reg' = [reg EXCEPT ![t] = numberEntries]
    /\ Goto(t, "linked")
    /\ UNCHANGED <<alive, numberEntries, arg, pending, entriesLeft, ret,
                   handed, failed>>

\* The store of m_numberEntries++, and unlock.
InsertCount(t) ==
    /\ pc[t] = "linked"
    /\ numberEntries' = reg[t] + 1
    /\ Release(t)
    /\ Return(t, "OK")
    /\ UNCHANGED <<alive, tree, inserted, handed>>

-----------------------------------------------------------------------------
(* synchronizedMap_remove                                                  *)

\* Lock, RB_FIND, RB_REMOVE, unlock, and the write of *data: from here on the
\* caller has the object.
RemoveFound(t) ==
    /\ pc[t] = "remove"
    /\ lock = NoThread
    /\ arg[t] \in tree
    /\ tree' = tree \ {arg[t]}
    /\ handed' = [handed EXCEPT ![arg[t]] = @ + 1]
    /\ Goto(t, "removed")
    /\ UNCHANGED <<lockVars, numberEntries, arg, reg, pending, entriesLeft,
                   ret, inserted, failed>>

\* The load of m_numberEntries--, without the lock.
RemoveLoad(t) ==
    /\ pc[t] = "removed"
    /\ reg' = [reg EXCEPT ![t] = numberEntries]
    /\ Goto(t, "loaded")
    /\ UNCHANGED <<lockVars, tree, numberEntries, arg, pending, entriesLeft,
                   ret, inserted, handed, failed>>

\* The store of m_numberEntries--, without the lock.
RemoveStore(t) ==
    /\ pc[t] = "loaded"
    /\ numberEntries' = reg[t] - 1
    /\ Return(t, "OK")
    /\ UNCHANGED <<lockVars, tree, inserted, handed>>

\* (mutants) the path without an entry forgets to unlock; it forgets its status.
RemoveAbsentKeepsLock(t) ==
    /\ pc[t] = "remove"
    /\ Acquire(t)
    /\ arg[t] \notin tree
    /\ Return(t, "INVALID_ARG")
    /\ UNCHANGED <<alive, tree, numberEntries, inserted, handed>>

RemoveAbsentNoStatus(t) ==
    /\ pc[t] = "remove"
    /\ lock = NoThread
    /\ arg[t] \notin tree
    /\ Return(t, "uninitialised")
    /\ UNCHANGED <<lockVars, tree, numberEntries, inserted, handed>>

\* RB_FIND finds nothing: unlock and report it.
RemoveAbsent(t) ==
    /\ pc[t] = "remove"
    /\ lock = NoThread
    /\ arg[t] \notin tree
    /\ Return(t, "INVALID_ARG")
    /\ UNCHANGED <<lockVars, tree, numberEntries, inserted, handed>>

-----------------------------------------------------------------------------
(* synchronizedMap_for                                                     *)

\* (mutant) find the entry under the lock, call back without it.
ForFoundUnlocked(t) ==
    /\ pc[t] = "for"
    /\ lock = NoThread
    /\ arg[t] \in tree
    /\ Goto(t, "calling")
    /\ UNCHANGED <<lockVars, tree, numberEntries, arg, reg, pending,
                   entriesLeft, ret, inserted, handed, failed>>

ForFound(t) ==
    /\ pc[t] = "for"
    /\ Acquire(t)
    /\ arg[t] \in tree
    /\ Goto(t, "calling")
    /\ UNCHANGED <<alive, tree, numberEntries, arg, reg, pending, entriesLeft,
                   ret, inserted, handed, failed>>

\* The callback returns; its code is the caller's.
ForReturn(t) ==
    /\ pc[t] = "calling"
    /\ Release(t)
    /\ \E status \in {"OK", "ERROR"} : Return(t, status)
    /\ UNCHANGED <<alive, tree, numberEntries, inserted, handed>>

ForAbsent(t) ==
    /\ pc[t] = "for"
    /\ lock = NoThread
    /\ arg[t] \notin tree
    /\ Return(t, "NOT_FOUND")
    /\ UNCHANGED <<lockVars, tree, numberEntries, inserted, handed>>

-----------------------------------------------------------------------------
(* synchronizedMap_foreach                                                 *)

ForeachBegin(t) ==
    /\ pc[t] = "foreach"
    /\ Acquire(t)
    /\ pending' = [pending EXCEPT ![t] = tree]
    /\ Goto(t, "visiting")
    /\ UNCHANGED <<alive, tree, numberEntries, arg, reg, entriesLeft, ret,
                   inserted, handed, failed>>

\* (mutant) the last return code is the one that is kept.
KeepLast(t, status) ==
    /\ ret' = [ret EXCEPT ![t] = status]
    /\ failed' = [failed EXCEPT ![t] = @ \/ status # "OK"]

\* The first error is the one that is kept (`if (MAMA_STATUS_OK == ret) ret =
\* cbret`): what a callback that ended with `status` makes of the return code.
KeepFirst(t, status) ==
    /\ ret' = [ret EXCEPT ![t] = IF @ = "OK" THEN status ELSE @]
    /\ failed' = [failed EXCEPT ![t] = @ \/ status # "OK"]

\* One callback.  `stop` is ignoreErrors = 0: the first error ends the loop.
ForeachVisit(t) ==
    /\ pc[t] = "visiting"
    /\ \E k \in pending[t], status \in {"OK", "ERROR"}, stop \in BOOLEAN :
         /\ KeepFirst(t, status)
         /\ pending' = [pending EXCEPT ![t] =
                          IF stop /\ ret'[t] # "OK" THEN {} ELSE @ \ {k}]
    /\ UNCHANGED <<lockVars, tree, numberEntries, pc, arg, reg, entriesLeft,
                   inserted, handed>>

ForeachEnd(t) ==
    /\ pc[t] = "visiting"
    /\ pending[t] = {}
    /\ Release(t)
    /\ Return(t, ret[t])
    /\ UNCHANGED <<alive, tree, numberEntries, inserted, handed>>

-----------------------------------------------------------------------------
(* synchronizedMap_removeAll                                               *)

\* Lock, read the count, RB_COPY.
SweepCopy(t) ==
    /\ pc[t] = "removeAll"
    /\ Acquire(t)
    /\ entriesLeft' = [entriesLeft EXCEPT ![t] = numberEntries]
    /\ pending' = [pending EXCEPT ![t] = tree]
    /\ Goto(t, "copied")
    /\ UNCHANGED <<alive, tree, numberEntries, arg, reg, ret, inserted,
                   handed, failed>>

\* (mutant) the copied tree stays reachable from the map.
SweepResetKeepsTree(t) ==
    /\ pc[t] = "copied"
    /\ numberEntries' = 0
    /\ Release(t)
    /\ Goto(t, "sweeping")
    /\ UNCHANGED <<alive, tree, arg, reg, pending, entriesLeft, ret, inserted,
                   handed, failed>>

\* RB_INIT, reset the count, unlock.
SweepReset(t) ==
    /\ pc[t] = "copied"
    /\ tree' = {}
    /\ numberEntries' = 0
    /\ Release(t)
    /\ Goto(t, "sweeping")
    /\ UNCHANGED <<alive, arg, reg, pending, entriesLeft, ret, inserted,
                   handed, failed>>

\* Unlink one entry of the local tree and give it to the callback.
SweepNext(t) ==
    /\ pc[t] = "sweeping"
    /\ entriesLeft[t] > 0
    /\ \E k \in pending[t], status \in {"OK", "ERROR"} :
         /\ pending' = [pending EXCEPT ![t] = @ \ {k}]
         /\ handed' = [handed EXCEPT ![k] = @ + 1]
         /\ KeepFirst(t, status)
    /\ entriesLeft' = [entriesLeft EXCEPT ![t] = @ - 1]
    /\ UNCHANGED <<lockVars, tree, numberEntries, pc, arg, reg, inserted>>

\* The loop ends when the count says so, or when the local tree is empty.
SweepStop(t) ==
    /\ pc[t] = "sweeping"
    /\ entriesLeft[t] <= 0 \/ pending[t] = {}
    /\ Goto(t, "swept")
    /\ UNCHANGED <<lockVars, tree, numberEntries, arg, reg, pending,
                   entriesLeft, ret, inserted, handed, failed>>

\* assert(map->m_numberEntries == 0), the last statement; see CountIsZero.
SweepReturn(t) ==
    /\ pc[t] = "swept"
    /\ Return(t, ret[t])
    /\ UNCHANGED <<lockVars, tree, numberEntries, inserted, handed>>

-----------------------------------------------------------------------------
\* synchronizedMap_destroy.  Its callers make sure that no thread is in the map
\* any more; the entries still linked are not given to anybody.
Destroy ==
    /\ alive
    /\ \A t \in Threads : pc[t] = "idle"
    /\ alive' = FALSE
    /\ tree' = {}
    /\ UNCHANGED <<lock, numberEntries, callVars, inserted, handed>>

\* The steps of a call after it has the lock, and those that wait for it.
Continue(t) ==
    \/ InsertNoMem(t) \/ InsertCount(t)
    \/ RemoveLoad(t) \/ RemoveStore(t)
    \/ ForReturn(t)
    \/ ForeachVisit(t) \/ ForeachEnd(t)
    \/ SweepReset(t) \/ SweepNext(t) \/ SweepStop(t) \/ SweepReturn(t)

Enter(t) ==
    \/ InsertLink(t)
    \/ RemoveFound(t) \/ RemoveAbsent(t)
    \/ ForFound(t) \/ ForAbsent(t)
    \/ ForeachBegin(t)
    \/ SweepCopy(t)

Next ==
    \/ \E t \in Threads, op \in Waiting, k \in Keys \cup {NoKey} : Call(t, op, k)
    \/ \E t \in Threads : Enter(t) \/ Continue(t)
    \/ Destroy

\* A thread that can run does (WF), and a thread that waits for a lock which is
\* free again and again is served (SF), as the platform's mutexes do.
Fairness == \A t \in Threads : WF_vars(Continue(t)) /\ SF_vars(Enter(t))

Spec == Init /\ [][Next]_vars
FairSpec == Spec /\ Fairness

-----------------------------------------------------------------------------
(* Properties                                                              *)

\* The data of an entry leaves the map at most once, whatever removes and
\* sweeps run at the same time: two threads never both get the object to
\* destroy (mamaSynchronizedMap.c:161-171 against :231-247).
HandedOnce == \A k \in Keys : handed[k] <= 1

\* While the callback of `for` runs, its entry is in the tree and nobody has
\* been given its data.  This is what the comment at
\* mamaManagedEnvironment.c:98-99 relies on: an object cannot be destroyed
\* while shutdown works on it.
ForPinsEntry ==
    \A t \in Threads :
        pc[t] = "calling" => arg[t] \in tree /\ handed[arg[t]] = 0

\* The lock is free exactly when no thread is in a locked section; a map that
\* has been destroyed had its lock free (the assert at :80).
LockDiscipline ==
    /\ \A t \in Threads : lock = t <=> pc[t] \in Locked
    /\ ~alive => lock = NoThread

\* A call that enumerates entries reports an error exactly when one of the
\* callbacks failed, also when later callbacks succeed (:109, :267-269).
FirstErrorKept ==
    \A t \in Threads :
        pc[t] \in {"visiting", "sweeping", "swept"} =>
            (ret[t] # "OK" <=> failed[t])

\* Every call returns: no path leaves the lock taken.
CallsReturn == \A t \in Threads : pc[t] # "idle" ~> pc[t] = "idle"

\* The assert that ends removeAll (:282): the count is zero.
CountIsZero == \A t \in Threads : pc[t] = "swept" => numberEntries = 0

\* Entry k is in the local tree of the removeAll that t runs.
Holds(t, k) == pc[t] \in {"sweeping", "swept"} /\ k \in pending[t]

(* The inductive invariant behind HandedOnce, ForPinsEntry and             *)
(* LockDiscipline: an entry is in one place at a time.                     *)

\* What is in the map has been put in and has not been handed out.
TreeCustody == \A k \in tree : k \in inserted /\ handed[k] = 0

\* What a removeAll has copied belongs to it alone once the map is unlocked, and
\* is the whole tree while it is locked.
SweepCustody ==
    /\ \A t \in Threads : pc[t] = "copied" => pending[t] = tree
    /\ \A t \in Threads, k \in Keys : Holds(t, k) =>
         /\ k \in inserted /\ k \notin tree /\ handed[k] = 0
         /\ \A u \in Threads : Holds(u, k) => u = t

\* An object being inserted is in no map, and one thread inserts it.
InsertCustody ==
    \A t \in Threads : pc[t] = "insert" =>
        /\ arg[t] \notin inserted
        /\ \A u \in Threads : pc[u] = "insert" /\ arg[u] = arg[t] => u = t

HandedCustody == \A k \in Keys : handed[k] > 0 => k \in inserted

\* After synchronizedMap_destroy nothing is called.
DeadIsIdle == ~alive => \A t \in Threads : pc[t] = "idle"

IInv ==
    /\ TypeOK
    /\ LockDiscipline
    /\ DeadIsIdle
    /\ TreeCustody
    /\ SweepCustody
    /\ InsertCustody
    /\ HandedCustody
    /\ HandedOnce
    /\ ForPinsEntry

\* Where an entry is, for the refinement of HandoffMap.
Where(k) ==
    IF k \in tree THEN "inside"
    ELSE IF \E t \in Threads : Holds(t, k) THEN "claimed"
    ELSE IF handed[k] > 0 THEN "handed"
    ELSE IF k \in inserted THEN "lost"
    ELSE "outside"

\* The map is an atomic hand-off: each of its calls, however its steps
\* interleave with other calls, is one step of HandoffMap.
Abstract == INSTANCE HandoffMap WITH where <- [k \in Keys |-> Where(k)]
ImplementsHandoff == Abstract!Spec
=============================================================================
