--------------------------- MODULE ConnectionProofs ---------------------------
(***************************************************************************)
(* Proofs about Connection, for any sessions and application threads.  The *)
(* invariant IInv is inductive whatever Conditions are; SoundInv, in a     *)
(* Sound environment, adds that nothing is lost, and sessions and          *)
(* connections then implement SessionLifecycle.                            *)
(***************************************************************************)
EXTENDS Connection, TLAPS

-----------------------------------------------------------------------------
(* What a step of one thread does to the calls.                            *)

\* A thread that goes to a place where it may be keeps the types.
LEMMA GotoTypes ==
  ASSUME CallTypes, NEW t \in Threads, NEW place \in Places,
         NEW s \in Sessions \cup {None}, Goto(t, place, s),
         t \in Callers => place \notin ObjPlaces,
         t # Main => place \notin MainPlaces,
         t = Obj => place \in {"idle"} \cup ObjPlaces,
         utility' \in [Callers -> {"none", "pending", "OK", "failed"}],
         todo' \in [{Main, Obj} -> SUBSET Sessions]
  PROVE  CallTypes'
  BY DEF CallTypes, Goto

\* Who holds what after a thread has gone somewhere.
LEMMA GotoHolds ==
  ASSUME CallTypes, NEW t \in Threads, NEW place, NEW x, Goto(t, place, x)
  PROVE  /\ \A u \in Threads, s \in Sessions : u # t => (Holds(u, s)' <=> Holds(u, s))
         /\ \A s \in Sessions : Holds(t, s)' <=> place \in HolderPlaces /\ x = s
  BY DEF CallTypes, Goto, Holds

\* The queue with one more event.
LEMMA AppendAt ==
  ASSUME NEW q \in Seq(Threads), NEW t \in Threads
  PROVE  /\ Append(q, t) \in Seq(Threads)
         /\ Len(Append(q, t)) = Len(q) + 1
         /\ \A i \in 1..Len(q) : Append(q, t)[i] = q[i]
         /\ Append(q, t)[Len(q) + 1] = t
  OBVIOUS

\* Where a call of destroySession goes when it ends.
LEMMA DestroyReturnsTo ==
  ASSUME NEW t \in Threads, NEW error \in BOOLEAN, DestroyReturns(t, error)
  PROVE  \E place \in {"idle", "each"} :
           /\ Goto(t, place, None)
           /\ place = "each" <=> (t = Main /\ sessionsLock = Main)
           /\ failed' \in {failed, error}
  BY DEF DestroyReturns, Return

-----------------------------------------------------------------------------
(* The ways in which custody of a session changes.                         *)

\* Nobody gets hold of a session.
LEMMA KeepCustody ==
  ASSUME OneCustodian, UNCHANGED <<sessions, destroyedSessions, phase>>,
         \A u \in Threads, x \in Sessions : Holds(u, x)' => Holds(u, x)
  PROVE  OneCustodian'
  BY DEF OneCustodian

\* Who holds a session frees it.
LEMMA FreeCustody ==
  ASSUME TypeOK, OneCustodian, NEW t \in Threads, NEW s \in Sessions, Holds(t, s),
         phase' = [phase EXCEPT ![s] = "freed"],
         UNCHANGED <<sessions, destroyedSessions>>,
         \A u \in Threads, x \in Sessions : Holds(u, x)' => u # t /\ Holds(u, x)
  PROVE  OneCustodian'
  BY DEF OneCustodian

\* A thread that holds none takes a session out of its list.
LEMMA TakeCustody ==
  ASSUME TypeOK, OneCustodian, NEW t \in Threads, NEW s \in sessions \cup destroyedSessions,
         sessions' \subseteq sessions \ {s},
         destroyedSessions' \subseteq destroyedSessions \ {s},
         UNCHANGED phase,
         \A x \in Sessions : ~Holds(t, x),
         \A u \in Threads, x \in Sessions :
           Holds(u, x)' => Holds(u, x) \/ (u = t /\ x = s)
  PROVE  OneCustodian'
  BY DEF OneCustodian, TypeOK, ListTypes

\* A thread puts the session it holds into a list.
LEMMA PutCustody ==
  ASSUME TypeOK, OneCustodian, NEW t \in Threads, NEW s \in Sessions, Holds(t, s),
         sessions' \cap destroyedSessions' = {},
         sessions' \cup destroyedSessions' \subseteq sessions \cup destroyedSessions \cup {s},
         UNCHANGED phase,
         \A u \in Threads, x \in Sessions : Holds(u, x)' => u # t /\ Holds(u, x)
  PROVE  OneCustodian'
  BY DEF OneCustodian, TypeOK, ListTypes

-----------------------------------------------------------------------------
(* Each action keeps the invariant.                                        *)

\* The invariant holds at first.
LEMMA InitIInv == Init => IInv
<1> SUFFICES ASSUME Init PROVE IInv
  OBVIOUS
<1>1. TypeOK
  <2>1. ListTypes
    <3>1. queue \in Seq(Threads)
      BY DEF Init
    <3>2. QED
      BY <3>1, Zenon DEF Init, ListTypes
  <2>2. SessionTypes
    BY DEF Init, SessionTypes
  <2>3. CallTypes
    BY DEF Init, CallTypes, Threads, Places, MainPlaces, ObjPlaces
  <2>4. QED
    BY <2>1, <2>2, <2>3 DEF TypeOK
<1>2. OneCustodian /\ CallbackCustody /\ StopIsFree
  BY DEF Init, OneCustodian, Holds, HolderPlaces, CreatePlaces, CallbackCustody,
     DestroyPlaces, StopIsFree, Threads, Callers
<1>3. RemoveCustody
  BY DEF Init, RemoveCustody, WorksOnSession, CreatePlaces, DestroyPlaces
<1>4. MainCustody /\ ObjCustody
  BY ConnectionAssumption DEF Init, MainCustody, ObjCustody, MainPlaces,
     Threads, Callers
<1>5. UtilityCustody
  BY DEF Init, UtilityCustody, PointsToWaiter, Threads
<1>6. QED
  BY <1>1, <1>2, <1>3, <1>4, <1>5 DEF IInv

\* IInv is kept when createSession allocates its session, which nobody else knows.
LEMMA AllocateSessionKeepsIInv ==
  ASSUME IInv, NEW t \in Callers, NEW s \in Sessions, AllocateSession(t, s)
  PROVE  IInv'
<1>1. ListTypes'
  BY DEF AllocateSession, listVars, queueVars, IInv, TypeOK, ListTypes
<1>2. SessionTypes'
  BY DEF AllocateSession, IInv, TypeOK, SessionTypes
<1>3. CallTypes'
  <2>1. CASE Goto(t, "enqueue", s)
    BY GotoTypes, ConnectionAssumption DEF AllocateSession, IInv, TypeOK,
       CallTypes, Threads, Places, CreatePlaces, MainPlaces, ObjPlaces
  <2>2. CASE UNCHANGED <<pc, arg>>
    BY <2>2 DEF AllocateSession, IInv, TypeOK, CallTypes
  <2>3. QED
    BY <2>1, <2>2 DEF AllocateSession
<1>4. OneCustodian'
  BY DEF AllocateSession, Goto, listVars, IInv, TypeOK, SessionTypes, CallTypes,
     OneCustodian, Holds
<1>5. CallbackCustody'
  BY DEF AllocateSession, CanCall, Goto, IInv, TypeOK, CallTypes,
     CallbackCustody, Threads, Callers, DestroyPlaces
<1>6. RemoveCustody'
  BY ConnectionAssumption DEF AllocateSession, CanCall, Goto, listVars, IInv,
     TypeOK, CallTypes, RemoveCustody, Overtaken, Threads, Callers
<1>7. MainCustody'
  BY ConnectionAssumption DEF AllocateSession, CanCall, Goto, listVars, IInv,
     TypeOK, CallTypes, MainCustody, Threads, Callers, MainPlaces
<1>8. ObjCustody'
  BY DEF AllocateSession, Goto, listVars, IInv, TypeOK, CallTypes, ObjCustody,
     Threads
<1>9. UtilityCustody'
  BY DEF AllocateSession, CanCall, Goto, queueVars, IInv, TypeOK, ListTypes,
     CallTypes, UtilityCustody, PointsToWaiter, Threads
<1>10. StopIsFree'
  BY DEF AllocateSession, Goto, IInv, TypeOK, CallTypes, StopIsFree, Threads
<1>11. QED
  BY <1>1, <1>2, <1>3, <1>4, <1>5, <1>6, <1>7, <1>8, <1>9, <1>10 DEF IInv,
     TypeOK

\* IInv is kept when createSession queues its event, or frees the session.
LEMMA EnqueueCreateKeepsIInv ==
  ASSUME IInv, NEW t \in Callers, EnqueueCreate(t)
  PROVE  IInv'
<1>1. ListTypes'
  BY DEF EnqueueCreate, listVars, IInv, TypeOK, ListTypes, Threads
<1>2. SessionTypes'
  BY DEF EnqueueCreate, Deallocate, IInv, TypeOK, SessionTypes
<1>3. CallTypes'
  <2>1. arg[t] \in Sessions /\ t \in Threads /\ t # Obj
    BY ConnectionAssumption DEF EnqueueCreate, IInv, RemoveCustody,
       WorksOnSession, CreatePlaces, Threads
  <2>2. PICK place \in {"idle", "wait"}, x \in {arg[t], None} : Goto(t, place, x)
    BY DEF EnqueueCreate, Return
  <2>3. utility' \in [Callers -> {"none", "pending", "OK", "failed"}]
    BY DEF EnqueueCreate, IInv, TypeOK, CallTypes
  <2>4. todo' \in [{Main, Obj} -> SUBSET Sessions]
    BY DEF EnqueueCreate, IInv, TypeOK, CallTypes
  <2>5. QED
    BY <2>1, <2>2, <2>3, <2>4, GotoTypes DEF IInv, TypeOK, Places, CreatePlaces,
       MainPlaces, ObjPlaces
<1>4. OneCustodian'
  <2>1. t \in Threads /\ arg[t] \in Sessions /\ Holds(t, arg[t])
    BY DEF EnqueueCreate, IInv, RemoveCustody, WorksOnSession, CreatePlaces,
       Threads, Holds, HolderPlaces
  <2>2. CASE Goto(t, "wait", arg[t]) /\ UNCHANGED phase
    <3>1. \A u \in Threads, x \in Sessions : Holds(u, x)' => Holds(u, x)
      BY <2>1, <2>2, GotoHolds DEF IInv, TypeOK
    <3>2. QED
      BY <2>2, <3>1, KeepCustody DEF EnqueueCreate, IInv, listVars
  <2>3. CASE Deallocate(arg[t]) /\ Return(t)
    <3>1. \A u \in Threads, x \in Sessions : Holds(u, x)' => u # t /\ Holds(u, x)
      BY <2>1, <2>3, GotoHolds DEF Return, IInv, TypeOK, HolderPlaces,
         CreatePlaces
    <3>2. QED
      BY <2>1, <2>3, <3>1, FreeCustody DEF EnqueueCreate, Deallocate, IInv,
         listVars
  <2>4. QED
    BY <2>2, <2>3 DEF EnqueueCreate
<1>5. CallbackCustody'
  BY DEF EnqueueCreate, Return, Goto, IInv, TypeOK, CallTypes, CallbackCustody,
     Threads, Callers, DestroyPlaces
<1>6. RemoveCustody'
  <2>1. t \in Threads /\ arg[t] \in Sessions /\ pc[t] = "enqueue"
    BY DEF EnqueueCreate, IInv, RemoveCustody, WorksOnSession, CreatePlaces,
       Threads
  <2>2. \A u \in Threads : u # t => pc'[u] = pc[u] /\ arg'[u] = arg[u]
    BY DEF EnqueueCreate, Return, Goto, IInv, TypeOK, CallTypes
  <2>3. pc'[t] = "idle" \/ (pc'[t] = "wait" /\ arg'[t] = arg[t])
    BY <2>1 DEF EnqueueCreate, Return, Goto, IInv, TypeOK, CallTypes
  <2>4. UNCHANGED <<sessions, sessionsLock, closing>>
    BY DEF EnqueueCreate, listVars
  <2>5. Main \in Threads
    BY ConnectionAssumption DEF Threads, Callers
  <2>6. \A u \in Threads : Overtaken(u) => Overtaken(u)'
    BY <2>1, <2>2, <2>4, <2>5 DEF Overtaken
  <2>7. QED
    BY <2>1, <2>2, <2>3, <2>4, <2>6 DEF IInv, RemoveCustody, WorksOnSession,
       CreatePlaces, DestroyPlaces
<1>7. MainCustody'
  BY ConnectionAssumption DEF EnqueueCreate, Return, Goto, listVars, IInv,
     TypeOK, CallTypes, MainCustody, Threads, Callers, CreatePlaces, MainPlaces
<1>8. ObjCustody'
  BY DEF EnqueueCreate, Return, Goto, listVars, IInv, TypeOK, CallTypes,
     ObjCustody, Threads
<1>9. UtilityCustody'
  <2>1. t \in Threads /\ t # Obj /\ pc[t] = "enqueue"
    BY ConnectionAssumption DEF EnqueueCreate, Threads
  <2>2. UNCHANGED left /\ \A i \in 1..Len(queue) : queue[i] # t \/ left[t] # None
    BY <2>1 DEF EnqueueCreate, IInv, UtilityCustody, PointsToWaiter
  <2>3. CASE /\ queue' = Append(queue, t)
             /\ utility' = [utility EXCEPT ![t] = "pending"]
             /\ Goto(t, "wait", arg[t])
    <3>1. /\ Len(queue') = Len(queue) + 1 /\ queue'[Len(queue) + 1] = t
          /\ \A i \in 1..Len(queue) : queue'[i] = queue[i]
      BY <2>3
    <3>2. /\ pc'[t] = "wait" /\ utility'[t] = "pending"
          /\ \A u \in Threads : u # t => pc'[u] = pc[u]
          /\ \A u \in Callers : u # t => utility'[u] = utility[u]
      BY <2>1, <2>3 DEF Goto, IInv, TypeOK, CallTypes
    <3>3. Len(queue) \in Nat /\ \A i \in 1..Len(queue) : queue[i] \in Threads
      BY DEF IInv, TypeOK, ListTypes
    <3>4. PointsToWaiter'
      <4>1. \A i, j \in 1..Len(queue') :
              queue'[i] = queue'[j] /\ queue'[i] # Obj /\ left[queue'[i]] = None => i = j
        BY <2>2, <3>1, <3>3 DEF IInv, UtilityCustody, PointsToWaiter
      <4>2. \A i \in 1..Len(queue') : queue'[i] # Obj =>
              \/ left[queue'[i]] # None
              \/ pc'[queue'[i]] = "wait" /\ utility'[queue'[i]] = "pending"
        BY <3>1, <3>2, <3>3 DEF IInv, UtilityCustody, PointsToWaiter, Threads
      <4>3. QED
        BY <2>2, <4>1, <4>2 DEF PointsToWaiter
    <3>5. QED
      BY <3>2, <3>4 DEF IInv, UtilityCustody, Threads
  <2>4. CASE Return(t) /\ UNCHANGED <<queue, utility>>
    <3>1. pc'[t] = "idle" /\ \A u \in Threads : u # t => pc'[u] = pc[u]
      BY <2>1, <2>4 DEF Return, Goto, IInv, TypeOK, CallTypes
    <3>2. QED
      BY <2>1, <2>2, <2>4, <3>1 DEF IInv, UtilityCustody, PointsToWaiter, TypeOK,
         ListTypes, Threads
  <2>5. QED
    BY <2>3, <2>4 DEF EnqueueCreate
<1>10. StopIsFree'
  BY DEF EnqueueCreate, Return, Goto, IInv, TypeOK, CallTypes, StopIsFree,
     Threads
<1>11. QED
  BY <1>1, <1>2, <1>3, <1>4, <1>5, <1>6, <1>7, <1>8, <1>9, <1>10 DEF IInv,
     TypeOK

\* IInv is kept when createSession wakes, or frees the session.
LEMMA WaitCreatedKeepsIInv ==
  ASSUME IInv, NEW t \in Callers, WaitCreated(t)
  PROVE  IInv'
<1>1. ListTypes'
  <2>1. left' \in [Callers -> Sessions \cup {None}]
    BY DEF WaitCreated, LeaveUtility, IInv, TypeOK, ListTypes, RemoveCustody,
       WorksOnSession, CreatePlaces, Threads
  <2>2. QED
    BY <2>1 DEF WaitCreated, listVars, IInv, TypeOK, ListTypes
<1>2. SessionTypes'
  BY DEF WaitCreated, Deallocate, IInv, TypeOK, SessionTypes
<1>3. CallTypes'
  <2>1. arg[t] \in Sessions /\ t \in Threads /\ t # Obj
    BY ConnectionAssumption DEF WaitCreated, IInv, RemoveCustody,
       WorksOnSession, CreatePlaces, Threads
  <2>2. PICK place \in {"idle", "add"}, x \in {arg[t], None} : Goto(t, place, x)
    BY DEF WaitCreated, Return
  <2>3. utility' \in [Callers -> {"none", "pending", "OK", "failed"}]
    BY DEF WaitCreated, LeaveUtility, IInv, TypeOK, CallTypes
  <2>4. todo' \in [{Main, Obj} -> SUBSET Sessions]
    BY DEF WaitCreated, IInv, TypeOK, CallTypes
  <2>5. QED
    BY <2>1, <2>2, <2>3, <2>4, GotoTypes DEF IInv, TypeOK, Places, CreatePlaces,
       MainPlaces, ObjPlaces
<1>4. OneCustodian'
  <2>1. t \in Threads /\ arg[t] \in Sessions /\ Holds(t, arg[t])
    BY DEF WaitCreated, IInv, RemoveCustody, WorksOnSession, CreatePlaces,
       Threads, Holds, HolderPlaces
  <2>2. CASE Goto(t, "add", arg[t]) /\ UNCHANGED phase
    <3>1. \A u \in Threads, x \in Sessions : Holds(u, x)' => Holds(u, x)
      BY <2>1, <2>2, GotoHolds DEF IInv, TypeOK
    <3>2. QED
      BY <2>2, <3>1, KeepCustody DEF WaitCreated, IInv, listVars
  <2>3. CASE Deallocate(arg[t]) /\ Return(t)
    <3>1. \A u \in Threads, x \in Sessions : Holds(u, x)' => u # t /\ Holds(u, x)
      BY <2>1, <2>3, GotoHolds DEF Return, IInv, TypeOK, HolderPlaces,
         CreatePlaces
    <3>2. QED
      BY <2>1, <2>3, <3>1, FreeCustody DEF WaitCreated, Deallocate, IInv,
         listVars
  <2>4. QED
    BY <2>2, <2>3 DEF WaitCreated
<1>5. CallbackCustody'
  BY DEF WaitCreated, Return, Goto, IInv, TypeOK, CallTypes, CallbackCustody,
     Threads, Callers, DestroyPlaces
<1>6. RemoveCustody'
  <2>1. t \in Threads /\ arg[t] \in Sessions /\ pc[t] = "wait"
    BY DEF WaitCreated, IInv, RemoveCustody, WorksOnSession, CreatePlaces,
       Threads
  <2>2. \A u \in Threads : u # t => pc'[u] = pc[u] /\ arg'[u] = arg[u]
    BY DEF WaitCreated, Return, Goto, IInv, TypeOK, CallTypes
  <2>3. pc'[t] = "idle" \/ (pc'[t] = "add" /\ arg'[t] = arg[t])
    BY <2>1 DEF WaitCreated, Return, Goto, IInv, TypeOK, CallTypes
  <2>4. UNCHANGED <<sessions, sessionsLock, closing>>
    BY DEF WaitCreated, listVars
  <2>5. Main \in Threads
    BY ConnectionAssumption DEF Threads, Callers
  <2>6. \A u \in Threads : Overtaken(u) => Overtaken(u)'
    BY <2>1, <2>2, <2>4, <2>5 DEF Overtaken
  <2>7. QED
    BY <2>1, <2>2, <2>3, <2>4, <2>6 DEF IInv, RemoveCustody, WorksOnSession,
       CreatePlaces, DestroyPlaces
<1>7. MainCustody'
  BY ConnectionAssumption DEF WaitCreated, Return, Goto, listVars, IInv, TypeOK,
     CallTypes, MainCustody, Threads, Callers, DestroyPlaces, MainPlaces, Places
<1>8. ObjCustody'
  BY DEF WaitCreated, Return, Goto, listVars, IInv, TypeOK, CallTypes,
     ObjCustody, Threads
<1>9. UtilityCustody'
  <2>1. /\ t \in Threads /\ t # Obj /\ pc[t] = "wait" /\ arg[t] # None
        /\ UNCHANGED queue
    BY ConnectionAssumption DEF WaitCreated, IInv, RemoveCustody, WorksOnSession,
       CreatePlaces, Threads
  <2>2. /\ pc'[t] # "wait" /\ utility' = [utility EXCEPT ![t] = "none"]
        /\ \A u \in Threads : u # t => pc'[u] = pc[u]
    BY <2>1 DEF WaitCreated, LeaveUtility, Return, Goto, IInv, TypeOK, CallTypes
  <2>3. PICK early \in BOOLEAN :
          /\ LeaveUtility(t, early)
          /\ early \/ utility[t] # "pending"
    BY DEF WaitCreated
  <2>4. \A i \in 1..Len(queue) : queue[i] # Obj => left'[queue[i]] # None
          \/ (queue[i] # t /\ left[queue[i]] = None)
    BY <2>1, <2>3 DEF LeaveUtility, IInv, TypeOK, ListTypes, UtilityCustody,
       PointsToWaiter, Threads
  <2>5. \A u \in Callers : u # t => utility'[u] = utility[u]
    BY <2>2 DEF IInv, TypeOK, CallTypes
  <2>6. utility'[t] = "none"
    BY <2>2 DEF IInv, TypeOK, CallTypes
  <2>7. PointsToWaiter'
    BY <2>1, <2>2, <2>4, <2>5 DEF IInv, TypeOK, ListTypes, UtilityCustody,
       PointsToWaiter, Threads
  <2>8. QED
    BY <2>1, <2>2, <2>5, <2>6, <2>7 DEF IInv, UtilityCustody, Threads
<1>10. StopIsFree'
  BY DEF WaitCreated, Return, Goto, IInv, TypeOK, CallTypes, StopIsFree,
     Threads
<1>11. QED
  BY <1>1, <1>2, <1>3, <1>4, <1>5, <1>6, <1>7, <1>8, <1>9, <1>10 DEF IInv,
     TypeOK

\* IInv is kept when createSession hands its session to m_sessions, or frees it.
LEMMA AddSessionKeepsIInv ==
  ASSUME IInv, NEW t \in Callers, AddSession(t)
  PROVE  IInv'
<1>1. ListTypes'
  <2>1. arg[t] \in Sessions
    BY DEF AddSession, IInv, RemoveCustody, WorksOnSession, CreatePlaces,
       Threads
  <2>2. QED
    BY <2>1 DEF AddSession, queueVars, IInv, TypeOK, ListTypes
<1>2. SessionTypes'
  BY DEF AddSession, Deallocate, IInv, TypeOK, SessionTypes
<1>3. CallTypes'
  BY DEF AddSession, Return, Goto, IInv, TypeOK, CallTypes, Threads, MainPlaces,
     ObjPlaces, Places
<1>4. OneCustodian'
  <2>1. t \in Threads /\ arg[t] \in Sessions /\ Holds(t, arg[t])
    BY DEF AddSession, IInv, RemoveCustody, WorksOnSession, CreatePlaces,
       Threads, Holds, HolderPlaces
  <2>2. \A u \in Threads, x \in Sessions : Holds(u, x)' => u # t /\ Holds(u, x)
    BY <2>1, GotoHolds DEF AddSession, Return, IInv, TypeOK, HolderPlaces,
       CreatePlaces
  <2>3. CASE sessions' = sessions \cup {arg[t]} /\ UNCHANGED phase
    <3>1. UNCHANGED destroyedSessions
      BY DEF AddSession
    <3>2. sessions' \cap destroyedSessions' = {}
      BY <2>1, <2>3, <3>1 DEF IInv, OneCustodian
    <3>3. QED
      BY <2>1, <2>2, <2>3, <3>1, <3>2, PutCustody DEF IInv
  <2>4. CASE Deallocate(arg[t]) /\ UNCHANGED sessions
    BY <2>1, <2>2, <2>4, FreeCustody DEF AddSession, Deallocate, IInv
  <2>5. QED
    BY <2>3, <2>4 DEF AddSession
<1>5. CallbackCustody'
  BY DEF AddSession, Return, Goto, IInv, CallbackCustody, DestroyPlaces
<1>6. RemoveCustody'
  BY DEF AddSession, Return, Goto, IInv, TypeOK, CallTypes, RemoveCustody,
     WorksOnSession, Overtaken, CreatePlaces, DestroyPlaces
<1>7. MainCustody'
  BY DEF AddSession, Return, Goto, IInv, MainCustody, CreatePlaces, MainPlaces
<1>8. ObjCustody'
  BY DEF AddSession, Return, Goto, IInv, ObjCustody
<1>9. UtilityCustody'
  BY DEF AddSession, Return, Goto, queueVars, IInv, UtilityCustody, PointsToWaiter
<1>10. StopIsFree'
  BY DEF AddSession, Return, Goto, IInv, StopIsFree
<1>11. QED
  BY <1>1, <1>2, <1>3, <1>4, <1>5, <1>6, <1>7, <1>8, <1>9, <1>10 DEF IInv,
     TypeOK

\* IInv is kept when destroySession finds its session in m_sessions.
LEMMA DestroySessionKeepsIInv ==
  ASSUME IInv, NEW t \in Callers, NEW s \in Sessions, DestroySession(t, s)
  PROVE  IInv'
<1>1. ListTypes'
  BY DEF DestroySession, listVars, queueVars, IInv, TypeOK, ListTypes
<1>2. SessionTypes'
  BY DEF DestroySession, sessionVars, IInv, TypeOK, SessionTypes
<1>3. CallTypes'
  BY ConnectionAssumption DEF DestroySession, Goto, IInv, TypeOK, CallTypes,
     Threads, DestroyPlaces, MainPlaces, ObjPlaces, Places
<1>4. OneCustodian'
  <2>1. t \in Threads /\ Goto(t, "remove", s)
    BY DEF DestroySession, Threads
  <2>2. \A u \in Threads, x \in Sessions : Holds(u, x)' => Holds(u, x)
    BY <2>1, GotoHolds DEF IInv, TypeOK, HolderPlaces, CreatePlaces
  <2>3. QED
    BY <2>2, KeepCustody DEF DestroySession, listVars, sessionVars, IInv
<1>5. CallbackCustody'
  BY DEF DestroySession, CanCall, Goto, sessionVars, IInv, TypeOK, CallTypes,
     CallbackCustody
<1>6. RemoveCustody'
  BY DEF DestroySession, CanCall, Goto, listVars, IInv, TypeOK, CallTypes,
     RemoveCustody, Overtaken
<1>7. MainCustody'
  BY ConnectionAssumption DEF DestroySession, CanCall, Goto, listVars, IInv,
     MainCustody, MainPlaces
<1>8. ObjCustody'
  BY DEF DestroySession, Goto, listVars, IInv, TypeOK, CallTypes, ObjCustody
<1>9. UtilityCustody'
  BY DEF DestroySession, CanCall, Goto, queueVars, IInv, UtilityCustody,
     PointsToWaiter
<1>10. StopIsFree'
  BY DEF DestroySession, Goto, sessionVars, IInv, TypeOK, CallTypes,
     StopIsFree
<1>11. QED
  BY <1>1, <1>2, <1>3, <1>4, <1>5, <1>6, <1>7, <1>8, <1>9, <1>10 DEF IInv,
     TypeOK

\* IInv is kept when destroySession takes the session out of m_sessions.
LEMMA RemoveSessionKeepsIInv ==
  ASSUME IInv, NEW t \in Callers, RemoveSession(t)
  PROVE  IInv'
<1>1. ListTypes'
  BY DEF RemoveSession, queueVars, IInv, TypeOK, ListTypes
<1>2. SessionTypes'
  BY DEF RemoveSession, sessionVars, IInv, TypeOK, SessionTypes
<1>3. CallTypes'
  BY DEF RemoveSession, Goto, IInv, TypeOK, CallTypes, Threads, DestroyPlaces,
     MainPlaces, ObjPlaces, Places
<1>4. OneCustodian'
  <2>1. t \in Threads /\ arg[t] \in Sessions /\ \A x \in Sessions : ~Holds(t, x)
    BY DEF RemoveSession, IInv, RemoveCustody, WorksOnSession, DestroyPlaces,
       Threads, Holds, HolderPlaces, CreatePlaces
  <2>2. arg[t] \in sessions
    BY ConnectionAssumption DEF RemoveSession, CanLock, IInv, RemoveCustody,
       Overtaken, Threads, Callers
  <2>3. \A u \in Threads, x \in Sessions : Holds(u, x)' =>
          Holds(u, x) \/ (u = t /\ x = arg[t])
    BY <2>1, GotoHolds DEF RemoveSession, IInv, TypeOK
  <2>4. /\ sessions' = sessions \ {arg[t]} /\ UNCHANGED <<destroyedSessions, phase>>
        /\ arg[t] \notin destroyedSessions
    BY <2>2 DEF RemoveSession, sessionVars, IInv, OneCustodian
  <2>5. QED
    BY <2>1, <2>2, <2>3, <2>4, TakeCustody DEF IInv
<1>5. CallbackCustody'
  BY DEF RemoveSession, Goto, sessionVars, IInv, CallbackCustody, DestroyPlaces
<1>6. RemoveCustody'
  BY ConnectionAssumption DEF RemoveSession, CanLock, Goto, IInv, TypeOK,
     CallTypes, RemoveCustody, WorksOnSession, Overtaken, CallbackCustody,
     MainCustody, Threads, Callers, DestroyPlaces
<1>7. MainCustody'
  BY ConnectionAssumption DEF RemoveSession, CanLock, Goto, IInv, MainCustody,
     Threads, Callers, CreatePlaces, DestroyPlaces, MainPlaces
<1>8. ObjCustody'
  BY DEF RemoveSession, Goto, IInv, ObjCustody
<1>9. UtilityCustody'
  BY DEF RemoveSession, Goto, queueVars, IInv, UtilityCustody, PointsToWaiter
<1>10. StopIsFree'
  BY DEF RemoveSession, Goto, sessionVars, IInv, StopIsFree
<1>11. QED
  BY <1>1, <1>2, <1>3, <1>4, <1>5, <1>6, <1>7, <1>8, <1>9, <1>10 DEF IInv,
     TypeOK

\* IInv is kept when destroySession destroys the event objects.
LEMMA SweepEventsKeepsIInv ==
  ASSUME IInv, NEW t \in Callers, SweepEvents(t)
  PROVE  IInv'
<1>1. ListTypes'
  BY DEF SweepEvents, DestroyReturns, listVars, queueVars, IInv, TypeOK,
     ListTypes, SessionTypes
<1>2. SessionTypes'
  BY DEF SweepEvents, DestroyReturns, IInv, TypeOK, ListTypes, SessionTypes
<1>3. CallTypes'
  BY DEF SweepEvents, DestroyReturns, Return, Goto, IInv, TypeOK, CallTypes,
     Threads, DestroyPlaces, MainPlaces, ObjPlaces, Places
<1>4. OneCustodian'
  <2>1. t \in Threads /\ arg[t] \in Sessions /\ Holds(t, arg[t])
    BY DEF SweepEvents, IInv, RemoveCustody, WorksOnSession, DestroyPlaces,
       Threads, Holds, HolderPlaces
  <2>2. PICK place \in {"mark", "idle", "each"}, x \in {arg[t], None} :
          Goto(t, place, x) /\ (place = "mark" => x = arg[t])
    BY <2>1, DestroyReturnsTo DEF SweepEvents
  <2>3. \A u \in Threads, y \in Sessions : Holds(u, y)' => Holds(u, y)
    BY <2>1, <2>2, GotoHolds DEF IInv, TypeOK, HolderPlaces, CreatePlaces
  <2>4. QED
    BY <2>3, KeepCustody DEF SweepEvents, listVars, IInv
<1>5. CallbackCustody'
  BY DEF SweepEvents, DestroyReturns, Return, Goto, IInv, TypeOK, CallTypes,
     CallbackCustody, Threads, Callers, DestroyPlaces
<1>6. RemoveCustody'
  <2>1. t \in Threads /\ arg[t] \in Sessions /\ pc[t] = "sweep"
    BY DEF SweepEvents, IInv, RemoveCustody, WorksOnSession, DestroyPlaces,
       Threads

  <2>2. PICK place \in {"mark", "idle", "each"}, x \in {arg[t], None} :
          Goto(t, place, x) /\ (place = "mark" => x = arg[t])
    BY <2>1, DestroyReturnsTo DEF SweepEvents
  <2>3. /\ pc'[t] = place /\ arg'[t] = x
        /\ \A u \in Threads : u # t => pc'[u] = pc[u] /\ arg'[u] = arg[u]
    BY <2>1, <2>2 DEF Goto, IInv, TypeOK, CallTypes
  <2>4. UNCHANGED <<sessions, sessionsLock, closing>>
    BY DEF SweepEvents, listVars
  <2>5. Main \in Threads /\ Main \notin Sessions
    BY ConnectionAssumption DEF Threads, Callers
  <2>6. \A u \in Threads : pc[u] = "remove" /\ Overtaken(u) => Overtaken(u)'
    <3>1. ASSUME NEW u \in Threads, pc[u] = "remove", Overtaken(u), t = Main
          PROVE  FALSE
      <4>1. u \in Sessions /\ arg[t] = u
        BY <3>1 DEF Overtaken
      <4>2. inCallback[u]
        BY <3>1, <4>1 DEF IInv, CallbackCustody
      <4>3. QED
        BY <3>1, <4>1, <4>2 DEF SweepEvents
    <3>2. QED
      BY <2>3, <2>4, <2>5, <3>1 DEF Overtaken
  <2>7. QED
    BY <2>1, <2>2, <2>3, <2>4, <2>6 DEF IInv, RemoveCustody, WorksOnSession,
       CreatePlaces, DestroyPlaces
<1>7. MainCustody'
  BY ConnectionAssumption DEF SweepEvents, DestroyReturns, Return, Goto,
     listVars, IInv, TypeOK, CallTypes, MainCustody, Threads, Callers,
     CreatePlaces, DestroyPlaces, MainPlaces
<1>8. ObjCustody'
  BY DEF SweepEvents, DestroyReturns, Return, Goto, listVars, IInv, TypeOK,
     CallTypes, ObjCustody, Threads
<1>9. UtilityCustody'
  BY DEF SweepEvents, DestroyReturns, Return, Goto, queueVars, IInv, TypeOK,
     ListTypes, CallTypes, UtilityCustody, PointsToWaiter, Threads
<1>10. StopIsFree'
  <2>1. t \in Threads /\ t # Obj /\ Obj \in Threads
    BY ConnectionAssumption DEF Threads
  <2>2. pc'[Obj] = pc[Obj] /\ arg'[Obj] = arg[Obj] /\ UNCHANGED inCallback
    BY <2>1 DEF SweepEvents, DestroyReturns, Return, Goto, IInv, TypeOK,
       CallTypes
  <2>3. \A s \in Sessions : objects[s] = "none" => objects'[s] = "none"
    BY DEF SweepEvents
  <2>4. pc[Obj] = "stop" => arg[Obj] \in Sessions
    BY <2>1 DEF IInv, RemoveCustody, WorksOnSession
  <2>5. QED
    BY <2>2, <2>3, <2>4 DEF IInv, StopIsFree
<1>11. QED
  BY <1>1, <1>2, <1>3, <1>4, <1>5, <1>6, <1>7, <1>8, <1>9, <1>10 DEF IInv,
     TypeOK

\* IInv is kept when destroySession hands the session to m_destroyedSessions.
LEMMA MarkDestroyedKeepsIInv ==
  ASSUME IInv, NEW t \in Callers, MarkDestroyed(t)
  PROVE  IInv'
<1>1. ListTypes'
  <2>1. arg[t] \in Sessions /\ t \in Threads
    BY DEF MarkDestroyed, IInv, RemoveCustody, WorksOnSession, DestroyPlaces,
       Threads
  <2>2. failed' \in BOOLEAN
    BY <2>1, DestroyReturnsTo DEF MarkDestroyed, IInv, TypeOK, ListTypes
  <2>3. QED
    BY <2>1, <2>2 DEF MarkDestroyed, queueVars, IInv, TypeOK, ListTypes
<1>2. SessionTypes'
  BY DEF MarkDestroyed, sessionVars, IInv, TypeOK, SessionTypes
<1>3. CallTypes'
  <2>1. t \in Threads /\ t # Obj
    BY ConnectionAssumption DEF Threads
  <2>2. PICK place \in {"idle", "each"} :
          Goto(t, place, None) /\ (place = "each" => t = Main)
    BY <2>1, DestroyReturnsTo DEF MarkDestroyed
  <2>3. UNCHANGED <<utility, todo>>
    BY DEF MarkDestroyed
  <2>4. utility' \in [Callers -> {"none", "pending", "OK", "failed"}]
    BY <2>3 DEF IInv, TypeOK, CallTypes
  <2>5. todo' \in [{Main, Obj} -> SUBSET Sessions]
    BY <2>3 DEF IInv, TypeOK, CallTypes
  <2>6. QED
    BY <2>1, <2>2, <2>4, <2>5, GotoTypes DEF IInv, TypeOK, Places, MainPlaces,
       ObjPlaces
<1>4. OneCustodian'
  <2>1. t \in Threads /\ arg[t] \in Sessions /\ Holds(t, arg[t])
    BY DEF MarkDestroyed, IInv, RemoveCustody, WorksOnSession, DestroyPlaces,
       Threads, Holds, HolderPlaces
  <2>2. PICK place \in {"idle", "each"} : Goto(t, place, None)
    BY <2>1, DestroyReturnsTo DEF MarkDestroyed
  <2>3. \A u \in Threads, x \in Sessions : Holds(u, x)' => u # t /\ Holds(u, x)
    BY <2>1, <2>2, GotoHolds DEF IInv, TypeOK, HolderPlaces, CreatePlaces
  <2>4. UNCHANGED <<sessions, phase>>
    BY DEF MarkDestroyed, sessionVars
  <2>5. CASE destroyedSessions' = destroyedSessions \cup {arg[t]}
    <3>1. sessions' \cap destroyedSessions' = {}
      BY <2>1, <2>4, <2>5 DEF IInv, OneCustodian
    <3>2. QED
      BY <2>1, <2>3, <2>4, <2>5, <3>1, PutCustody DEF IInv
  <2>6. CASE UNCHANGED destroyedSessions
    BY <2>3, <2>4, <2>6, KeepCustody DEF IInv
  <2>7. QED
    BY <2>5, <2>6 DEF MarkDestroyed
<1>5. CallbackCustody'
  BY DEF MarkDestroyed, DestroyReturns, Return, Goto, sessionVars, IInv, TypeOK,
     CallTypes, CallbackCustody, Threads, Callers, DestroyPlaces
<1>6. RemoveCustody'
  <2>1. t \in Threads /\ arg[t] \in Sessions /\ pc[t] = "mark"
    BY DEF MarkDestroyed, IInv, RemoveCustody, WorksOnSession, DestroyPlaces,
       Threads

  <2>2. PICK place \in {"idle", "each"} : Goto(t, place, None)
    BY <2>1, DestroyReturnsTo DEF MarkDestroyed
  <2>3. /\ pc'[t] = place
        /\ \A u \in Threads : u # t => pc'[u] = pc[u] /\ arg'[u] = arg[u]
    BY <2>1, <2>2 DEF Goto, IInv, TypeOK, CallTypes
  <2>4. UNCHANGED <<sessions, sessionsLock, closing>>
    BY DEF MarkDestroyed
  <2>5. Main \in Threads
    BY ConnectionAssumption DEF Threads, Callers
  <2>6. \A u \in Threads : Overtaken(u) => Overtaken(u)'
    BY <2>1, <2>3, <2>4, <2>5 DEF Overtaken
  <2>7. QED
    BY <2>3, <2>4, <2>6 DEF IInv, RemoveCustody, WorksOnSession, CreatePlaces,
       DestroyPlaces
<1>7. MainCustody'
  BY ConnectionAssumption DEF MarkDestroyed, DestroyReturns, Return, Goto, IInv,
     TypeOK, CallTypes, MainCustody, Threads, Callers, CreatePlaces, MainPlaces,
     Places
<1>8. ObjCustody'
  BY DEF MarkDestroyed, DestroyReturns, Return, Goto, IInv, TypeOK, CallTypes,
     ObjCustody, Threads
<1>9. UtilityCustody'
  BY DEF MarkDestroyed, DestroyReturns, Return, Goto, queueVars, IInv, TypeOK,
     ListTypes, CallTypes, UtilityCustody, PointsToWaiter, Threads
<1>10. StopIsFree'
  BY DEF MarkDestroyed, DestroyReturns, Return, Goto, sessionVars, IInv, TypeOK,
     CallTypes, StopIsFree, Threads
<1>11. QED
  BY <1>1, <1>2, <1>3, <1>4, <1>5, <1>6, <1>7, <1>8, <1>9, <1>10 DEF IInv,
     TypeOK

\* IInv is kept when destroyConnection locks m_sessions when nobody else is in a call.
LEMMA DestroyConnectionKeepsIInv ==
  ASSUME IInv, DestroyConnection
  PROVE  IInv'
<1>1. ListTypes'
  BY DEF DestroyConnection, Goto, queueVars, sessionVars, IInv, TypeOK,
     ListTypes, SessionTypes
<1>2. SessionTypes'
  BY DEF DestroyConnection, sessionVars, IInv, TypeOK, SessionTypes
<1>3. CallTypes'
  BY ConnectionAssumption DEF DestroyConnection, Goto, IInv, TypeOK, ListTypes,
     CallTypes, Threads, Callers, MainPlaces, ObjPlaces, Places
<1>4. OneCustodian'
  BY ConnectionAssumption DEF DestroyConnection, Goto, sessionVars, IInv,
     TypeOK, CallTypes, OneCustodian, Holds
<1>5. CallbackCustody'
  BY ConnectionAssumption DEF DestroyConnection, Goto, sessionVars, IInv,
     CallbackCustody
<1>6. RemoveCustody'
  BY DEF DestroyConnection, Goto, IInv, RemoveCustody, WorksOnSession,
     Overtaken, CreatePlaces, DestroyPlaces
<1>7. MainCustody'
  BY ConnectionAssumption DEF DestroyConnection, Goto, IInv, TypeOK, ListTypes,
     CallTypes, MainCustody, Threads, Callers, CreatePlaces
<1>8. ObjCustody'
  BY ConnectionAssumption DEF DestroyConnection, Goto, IInv, ObjCustody, Callers
<1>9. UtilityCustody'
  BY DEF DestroyConnection, Goto, queueVars, IInv, UtilityCustody, PointsToWaiter
<1>10. StopIsFree'
  BY DEF DestroyConnection, Goto, sessionVars, IInv, StopIsFree
<1>11. QED
  BY <1>1, <1>2, <1>3, <1>4, <1>5, <1>6, <1>7, <1>8, <1>9, <1>10 DEF IInv,
     TypeOK

\* IInv is kept when destroyConnection calls destroySession for an element of the list.
LEMMA EachSessionKeepsIInv ==
  ASSUME IInv, EachSession
  PROVE  IInv'
<1>1. ListTypes'
  BY DEF EachSession, listVars, queueVars, IInv, TypeOK, ListTypes, CallTypes
<1>2. SessionTypes'
  BY DEF EachSession, sessionVars, IInv, TypeOK, SessionTypes
<1>3. CallTypes'
  BY ConnectionAssumption DEF EachSession, Goto, IInv, TypeOK, CallTypes,
     Threads, Callers, DestroyPlaces, ObjPlaces, Places
<1>4. OneCustodian'
  <2>1. Main \in Threads
    BY ConnectionAssumption DEF Threads, Callers
  <2>2. PICK s \in todo[Main] : Goto(Main, "remove", s)
    BY DEF EachSession
  <2>3. \A u \in Threads, x \in Sessions : Holds(u, x)' => Holds(u, x)
    BY <2>1, <2>2, GotoHolds DEF IInv, TypeOK, HolderPlaces, CreatePlaces
  <2>4. QED
    BY <2>3, KeepCustody DEF EachSession, listVars, sessionVars, IInv
<1>5. CallbackCustody'
  BY ConnectionAssumption DEF EachSession, Goto, sessionVars, IInv,
     CallbackCustody
<1>6. RemoveCustody'
  BY DEF EachSession, Goto, listVars, IInv, TypeOK, CallTypes, RemoveCustody,
     Overtaken, MainCustody
<1>7. MainCustody'
  BY DEF EachSession, Goto, listVars, IInv, TypeOK, CallTypes, MainCustody,
     CreatePlaces, DestroyPlaces, MainPlaces
<1>8. ObjCustody'
  BY DEF EachSession, Goto, listVars, IInv, ObjCustody
<1>9. UtilityCustody'
  BY DEF EachSession, Goto, queueVars, IInv, UtilityCustody, PointsToWaiter
<1>10. StopIsFree'
  BY DEF EachSession, Goto, sessionVars, IInv, StopIsFree
<1>11. QED
  BY <1>1, <1>2, <1>3, <1>4, <1>5, <1>6, <1>7, <1>8, <1>9, <1>10 DEF IInv,
     TypeOK

\* IInv is kept when destroyConnection lets go of m_sessions and queues its event.
LEMMA EnqueueDestroyAllKeepsIInv ==
  ASSUME IInv, EnqueueDestroyAll
  PROVE  IInv'
<1>1. ListTypes'
  <2>1. queue' \in Seq(Threads)
    BY DEF EnqueueDestroyAll, IInv, TypeOK, ListTypes, Threads
  <2>2. QED
    BY <2>1 DEF EnqueueDestroyAll, IInv, TypeOK, ListTypes
<1>2. SessionTypes'
  BY DEF EnqueueDestroyAll, sessionVars, IInv, TypeOK, SessionTypes
<1>3. CallTypes'
  BY DEF EnqueueDestroyAll, Return, Goto, IInv, TypeOK, CallTypes, Threads,
     MainPlaces, ObjPlaces, Places
<1>4. OneCustodian'
  BY ConnectionAssumption DEF EnqueueDestroyAll, Return, Goto, sessionVars,
     IInv, TypeOK, CallTypes, OneCustodian, Holds
<1>5. CallbackCustody'
  BY DEF EnqueueDestroyAll, Return, Goto, sessionVars, IInv, TypeOK, CallTypes,
     CallbackCustody, Threads, Callers, DestroyPlaces
<1>6. RemoveCustody'
  BY DEF EnqueueDestroyAll, Return, Goto, IInv, TypeOK, CallTypes,
     RemoveCustody, WorksOnSession, Overtaken, CreatePlaces, DestroyPlaces
<1>7. MainCustody'
  BY ConnectionAssumption DEF EnqueueDestroyAll, Return, Goto, IInv, TypeOK,
     CallTypes, MainCustody, Threads, Callers, CreatePlaces, DestroyPlaces,
     Places
<1>8. ObjCustody'
  BY DEF EnqueueDestroyAll, Return, Goto, IInv, TypeOK, CallTypes, ObjCustody,
     Threads
<1>9. UtilityCustody'
  <2>1. Main \in Callers /\ Main \in Threads /\ Obj \in Threads /\ pc[Main] = "each"
    BY ConnectionAssumption DEF EnqueueDestroyAll, Threads, Callers
  <2>2. /\ pc'[Main] # "wait" /\ \A u \in Threads : u # Main => pc'[u] = pc[u]
        /\ UNCHANGED <<utility, left>>
    BY DEF EnqueueDestroyAll, Return, Goto, IInv, TypeOK, CallTypes
  <2>3. /\ Len(queue) \in Nat /\ \A i \in 1..Len(queue) : queue[i] \in Threads
        /\ \A i \in 1..Len(queue) : queue[i] # Main \/ left[Main] # None
    BY <2>1, ConnectionAssumption DEF IInv, TypeOK, ListTypes, UtilityCustody,
       PointsToWaiter
  <2>4. PointsToWaiter'
    <3>1. CASE queue' = Append(queue, Obj)
      <4>1. /\ Len(queue') = Len(queue) + 1 /\ queue'[Len(queue) + 1] = Obj
            /\ \A i \in 1..Len(queue) : queue'[i] = queue[i]
        BY <3>1
      <4>2. QED
        BY <2>2, <2>3, <4>1 DEF IInv, UtilityCustody, PointsToWaiter
    <3>2. CASE UNCHANGED queue
      BY <2>2, <2>3, <3>2 DEF IInv, UtilityCustody, PointsToWaiter
    <3>3. QED
      BY <3>1, <3>2 DEF EnqueueDestroyAll
  <2>5. QED
    BY <2>1, <2>2, <2>4 DEF IInv, UtilityCustody, Threads
<1>10. StopIsFree'
  BY DEF EnqueueDestroyAll, Return, Goto, sessionVars, IInv, TypeOK, CallTypes,
     StopIsFree, Threads
<1>11. QED
  BY <1>1, <1>2, <1>3, <1>4, <1>5, <1>6, <1>7, <1>8, <1>9, <1>10 DEF IInv,
     TypeOK

\* IInv is kept when destroyConnection wakes.
LEMMA WaitDestroyedKeepsIInv ==
  ASSUME IInv, WaitDestroyed
  PROVE  IInv'
<1>1. PICK place \in {"idle", "freeConnection"} : Goto(Main, place, None)
  BY DEF WaitDestroyed, Return
<1>2. /\ pc[Main] = "waitAll" /\ ~timer /\ Main \in Threads /\ Main # Obj
      /\ UNCHANGED <<timer, closing, todo, utility, failed>>
      /\ UNCHANGED listVars /\ UNCHANGED queueVars /\ UNCHANGED sessionVars
  BY ConnectionAssumption DEF WaitDestroyed, IInv, MainCustody, MainPlaces,
     Threads, Callers
<1>3. TypeOK'
  <2>1. ListTypes' /\ SessionTypes'
    BY DEF WaitDestroyed, listVars, queueVars, sessionVars, IInv, TypeOK,
       ListTypes, SessionTypes
  <2>2. CallTypes'
    BY <1>1, <1>2, GotoTypes DEF IInv, TypeOK, CallTypes, Places, MainPlaces,
       ObjPlaces
  <2>3. QED
    BY <2>1, <2>2 DEF TypeOK
<1>4. \A u \in Threads : u # Main => pc'[u] = pc[u] /\ arg'[u] = arg[u]
  BY <1>1 DEF Goto, IInv, TypeOK, CallTypes
<1>5. pc'[Main] = place /\ arg'[Main] = None
  BY <1>1, <1>2 DEF Goto, IInv, TypeOK, CallTypes
<1>6. OneCustodian'
  <2>1. \A u \in Threads, x \in Sessions : Holds(u, x)' => Holds(u, x)
    BY <1>4, <1>5 DEF Holds, HolderPlaces, CreatePlaces
  <2>2. QED
    BY <1>2, <2>1, KeepCustody DEF IInv, listVars, sessionVars
<1>7. CallbackCustody'
  BY <1>2, <1>4, ConnectionAssumption DEF IInv, CallbackCustody, sessionVars,
     Threads, Callers
<1>8. RemoveCustody'
  BY <1>2, <1>4, <1>5 DEF IInv, RemoveCustody, Overtaken, WorksOnSession,
     CreatePlaces, DestroyPlaces, listVars
<1>9. MainCustody'
  BY <1>2, <1>4, <1>5, ConnectionAssumption DEF IInv, TypeOK, ListTypes,
     MainCustody, CreatePlaces, DestroyPlaces, MainPlaces, listVars, Threads,
     Callers
<1>10. ObjCustody' /\ StopIsFree'
  BY <1>2, <1>4 DEF IInv, ObjCustody, StopIsFree, listVars, sessionVars, Threads
<1>11. UtilityCustody'
  <2>1. \A t \in Callers : pc'[t] = "wait" <=> pc[t] = "wait"
    BY <1>2, <1>4, <1>5 DEF Threads
  <2>2. \A i \in 1..Len(queue) : queue[i] \in Threads
    BY DEF IInv, TypeOK, ListTypes
  <2>3. QED
    BY <1>2, <2>1, <2>2 DEF IInv, UtilityCustody, PointsToWaiter, queueVars,
       Threads
<1>12. QED
  BY <1>3, <1>6, <1>7, <1>8, <1>9, <1>10, <1>11 DEF IInv

\* IInv is kept when destroyConnection frees the connection.
LEMMA FreeConnectionKeepsIInv ==
  ASSUME IInv, FreeConnection
  PROVE  IInv'
<1>1. ListTypes'
  BY DEF FreeConnection, listVars, queueVars, IInv, TypeOK, ListTypes
<1>2. SessionTypes'
  BY DEF FreeConnection, sessionVars, IInv, TypeOK, SessionTypes
<1>3. CallTypes'
  BY ConnectionAssumption DEF FreeConnection, Return, Goto, IInv, TypeOK,
     CallTypes, Threads, Callers, ObjPlaces
<1>4. OneCustodian'
  <2>1. Main \in Threads
    BY ConnectionAssumption DEF Threads, Callers
  <2>2. PICK place \in {"idle"} : Goto(Main, place, None)
    BY DEF FreeConnection, EnumerateDestroyed, Return
  <2>3. \A u \in Threads, x \in Sessions : Holds(u, x)' => Holds(u, x)
    BY <2>1, <2>2, GotoHolds DEF IInv, TypeOK, HolderPlaces, CreatePlaces
  <2>4. QED
    BY <2>3, KeepCustody DEF FreeConnection, listVars, sessionVars, IInv
<1>5. CallbackCustody'
  BY ConnectionAssumption DEF FreeConnection, Return, Goto, sessionVars, IInv,
     CallbackCustody
<1>6. RemoveCustody'
  BY DEF FreeConnection, Return, Goto, listVars, IInv, RemoveCustody,
     WorksOnSession, Overtaken, CreatePlaces, DestroyPlaces
<1>7. MainCustody'
  BY DEF FreeConnection, Return, Goto, listVars, IInv, MainCustody,
     CreatePlaces, DestroyPlaces, MainPlaces
<1>8. ObjCustody'
  BY DEF FreeConnection, Return, Goto, listVars, IInv, ObjCustody
<1>9. UtilityCustody'
  BY DEF FreeConnection, Return, Goto, queueVars, IInv, UtilityCustody,
     PointsToWaiter
<1>10. StopIsFree'
  BY DEF FreeConnection, Return, Goto, StopIsFree
<1>11. QED
  BY <1>1, <1>2, <1>3, <1>4, <1>5, <1>6, <1>7, <1>8, <1>9, <1>10 DEF IInv,
     TypeOK

\* IInv is kept when the object dispatcher answers createSession.
LEMMA OnSessionCreateKeepsIInv ==
  ASSUME IInv, OnSessionCreate
  PROVE  IInv'
<1>1. ListTypes'
  <2>1. queue' \in Seq(Threads)
    BY DEF OnSessionCreate, TakeEvent, IInv, TypeOK, ListTypes
  <2>2. left' \in [Callers -> Sessions \cup {None}]
    BY DEF OnSessionCreate, TakeEvent, IInv, TypeOK, ListTypes, Threads
  <2>3. QED
    BY <2>1, <2>2 DEF OnSessionCreate, listVars, IInv, TypeOK, ListTypes
<1>2. SessionTypes'
  BY DEF OnSessionCreate, IInv, TypeOK, SessionTypes
<1>3. CallTypes'
  BY DEF OnSessionCreate, Signal, IInv, TypeOK, CallTypes
<1>4. OneCustodian'
  BY DEF OnSessionCreate, listVars, IInv, OneCustodian, Holds
<1>5. CallbackCustody'
  BY DEF OnSessionCreate, IInv, CallbackCustody
<1>6. RemoveCustody'
  BY DEF OnSessionCreate, listVars, IInv, RemoveCustody, Overtaken
<1>7. MainCustody'
  BY DEF OnSessionCreate, listVars, IInv, MainCustody
<1>8. ObjCustody'
  BY DEF OnSessionCreate, listVars, IInv, ObjCustody
<1>9. UtilityCustody'
  <2> DEFINE t == Head(queue)
  <2>1. /\ t \in Callers /\ queue \in Seq(Threads) /\ queue # <<>> /\ t = queue[1]
        /\ 1 \in 1..Len(queue) /\ t # Obj
    BY DEF OnSessionCreate, IInv, TypeOK, ListTypes, Threads
  <2>2. /\ queue' = Tail(queue) /\ UNCHANGED pc
        /\ left' = [left EXCEPT ![t] =
             IF \E i \in 2..Len(queue) : queue[i] = t THEN @ ELSE None]
    BY DEF OnSessionCreate, TakeEvent
  <2>3. /\ Len(queue') = Len(queue) - 1
        /\ \A i \in 1..Len(queue') : queue'[i] = queue[i + 1] /\ i + 1 \in 2..Len(queue)
    BY <2>1, <2>2
  <2>4. \A i \in 1..Len(queue') : queue'[i] \in Callers => left'[queue'[i]] = left[queue'[i]]
    BY <2>1, <2>2, <2>3 DEF IInv, TypeOK, ListTypes
  <2>5. \A u \in Callers : u # t => utility'[u] = utility[u]
    BY <2>1 DEF OnSessionCreate, Signal, IInv, TypeOK, CallTypes
  <2>6. \A i \in 1..Len(queue') : queue'[i] = t => left[t] # None
    BY <2>1, <2>3 DEF IInv, UtilityCustody, PointsToWaiter
  <2>7. PointsToWaiter'
    <3> SUFFICES ASSUME NEW i \in 1..Len(queue'), queue'[i] # Obj,
                        left'[queue'[i]] = None
                 PROVE  /\ pc[queue'[i]] = "wait" /\ utility'[queue'[i]] = "pending"
                        /\ \A j \in 1..Len(queue') : queue'[j] = queue'[i] => j = i
      BY <2>2 DEF PointsToWaiter
    <3>1. /\ i + 1 \in 1..Len(queue) /\ queue'[i] = queue[i + 1]
          /\ queue'[i] \in Callers
      BY <2>1, <2>3 DEF Threads
    <3>2. left[queue[i + 1]] = None /\ queue[i + 1] # t
      BY <2>4, <2>6, <3>1
    <3>3. /\ pc[queue[i + 1]] = "wait" /\ utility[queue[i + 1]] = "pending"
          /\ \A j \in 1..Len(queue) : queue[j] = queue[i + 1] => j = i + 1
      BY <3>1, <3>2 DEF IInv, UtilityCustody, PointsToWaiter
    <3>4. ASSUME NEW j \in 1..Len(queue'), queue'[j] = queue'[i]
          PROVE  j = i
      <4>1. j + 1 \in 1..Len(queue) /\ queue[j + 1] = queue[i + 1]
        BY <2>1, <2>3, <3>1, <3>4
      <4>2. j + 1 = i + 1
        BY <3>3, <4>1
      <4>3. QED
        BY <4>2
    <3>5. QED
      BY <2>5, <3>1, <3>2, <3>3, <3>4
  <2>8. QED
    <3>1. ASSUME NEW u \in Callers
          PROVE  utility'[u] # "none" <=> pc[u] = "wait"
      <4>1. utility[u] # "none" <=> pc[u] = "wait"
        BY DEF IInv, UtilityCustody
      <4>2. CASE u = t /\ pc[t] = "wait"
        <5>1. utility'[t] \in {"OK", "failed"}
          BY <2>1, <4>2 DEF OnSessionCreate, Signal, PointsToCall, IInv, TypeOK,
             CallTypes
        <5>2. QED
          BY <4>2, <5>1
      <4>3. CASE u = t /\ pc[t] # "wait"
        BY <4>1, <4>3 DEF OnSessionCreate, Signal, PointsToCall
      <4>4. QED
        BY <2>5, <4>1, <4>2, <4>3
    <3>2. UNCHANGED pc
      BY DEF OnSessionCreate
    <3>3. QED
      BY <2>7, <3>1, <3>2 DEF UtilityCustody
<1>10. StopIsFree'
  BY DEF OnSessionCreate, StopIsFree
<1>11. QED
  BY <1>1, <1>2, <1>3, <1>4, <1>5, <1>6, <1>7, <1>8, <1>9, <1>10 DEF IInv,
     TypeOK

\* IInv is kept when the timer starts an enumeration of m_destroyedSessions.
LEMMA OnSessionTimerTickKeepsIInv ==
  ASSUME IInv, OnSessionTimerTick
  PROVE  IInv'
<1>1. ListTypes'
  BY DEF OnSessionTimerTick, EnumerateDestroyed, queueVars, IInv, TypeOK,
     ListTypes
<1>2. SessionTypes'
  BY DEF OnSessionTimerTick, sessionVars, IInv, TypeOK, SessionTypes
<1>3. CallTypes'
  BY ConnectionAssumption DEF OnSessionTimerTick, EnumerateDestroyed, Goto,
     IInv, TypeOK, ListTypes, CallTypes, Threads, MainPlaces, ObjPlaces, Places
<1>4. OneCustodian'
  BY ConnectionAssumption DEF OnSessionTimerTick, EnumerateDestroyed, Goto,
     sessionVars, IInv, TypeOK, CallTypes, OneCustodian, Holds
<1>5. CallbackCustody'
  BY ConnectionAssumption DEF OnSessionTimerTick, EnumerateDestroyed, Goto,
     sessionVars, IInv, CallbackCustody, Callers
<1>6. RemoveCustody'
  BY DEF OnSessionTimerTick, EnumerateDestroyed, Goto, IInv, RemoveCustody,
     WorksOnSession, Overtaken, CreatePlaces, DestroyPlaces
<1>7. MainCustody'
  BY ConnectionAssumption DEF OnSessionTimerTick, EnumerateDestroyed, Goto,
     IInv, MainCustody, Callers
<1>8. ObjCustody'
  BY DEF OnSessionTimerTick, EnumerateDestroyed, Goto, IInv, TypeOK, CallTypes,
     ObjCustody, Threads
<1>9. UtilityCustody'
  BY DEF OnSessionTimerTick, EnumerateDestroyed, Goto, queueVars, IInv,
     UtilityCustody, PointsToWaiter
<1>10. StopIsFree'
  BY DEF OnSessionTimerTick, EnumerateDestroyed, Goto, StopIsFree
<1>11. QED
  BY <1>1, <1>2, <1>3, <1>4, <1>5, <1>6, <1>7, <1>8, <1>9, <1>10 DEF IInv,
     TypeOK

\* IInv is kept when the last event starts an enumeration of m_destroyedSessions.
LEMMA OnDestroyAllSessionsKeepsIInv ==
  ASSUME IInv, OnDestroyAllSessions
  PROVE  IInv'
<1>1. ListTypes'
  BY DEF OnDestroyAllSessions, EnumerateDestroyed, IInv, TypeOK, ListTypes
<1>2. SessionTypes'
  BY DEF OnDestroyAllSessions, sessionVars, IInv, TypeOK, SessionTypes
<1>3. CallTypes'
  BY ConnectionAssumption DEF OnDestroyAllSessions, EnumerateDestroyed, Goto,
     IInv, TypeOK, ListTypes, CallTypes, Threads, MainPlaces, ObjPlaces, Places
<1>4. OneCustodian'
  <2>1. Obj \in Threads
    BY ConnectionAssumption DEF Threads, Callers
  <2>2. PICK place \in {"signal", "enumerate"} : Goto(Obj, place, None)
    BY DEF OnDestroyAllSessions, EnumerateDestroyed, Return
  <2>3. \A u \in Threads, x \in Sessions : Holds(u, x)' => Holds(u, x)
    BY <2>1, <2>2, GotoHolds DEF IInv, TypeOK, HolderPlaces, CreatePlaces
  <2>4. QED
    BY <2>3, KeepCustody DEF OnDestroyAllSessions, sessionVars, IInv
<1>5. CallbackCustody'
  BY ConnectionAssumption DEF OnDestroyAllSessions, EnumerateDestroyed, Goto,
     sessionVars, IInv, TypeOK, CallTypes, CallbackCustody, Threads, Callers
<1>6. RemoveCustody'
  BY ConnectionAssumption DEF OnDestroyAllSessions, EnumerateDestroyed, Goto,
     IInv, TypeOK, CallTypes, RemoveCustody, WorksOnSession, Overtaken, Threads,
     Callers, CreatePlaces, DestroyPlaces
<1>7. MainCustody'
  BY ConnectionAssumption DEF OnDestroyAllSessions, EnumerateDestroyed, Goto,
     IInv, TypeOK, CallTypes, MainCustody, Threads, Callers
<1>8. ObjCustody'
  BY DEF OnDestroyAllSessions, EnumerateDestroyed, Goto, IInv, TypeOK,
     ListTypes, CallTypes, ObjCustody
<1>9. UtilityCustody'
  BY DEF OnDestroyAllSessions, EnumerateDestroyed, Goto, IInv, TypeOK,
     ListTypes, CallTypes, UtilityCustody, PointsToWaiter, Threads
<1>10. StopIsFree'
  BY DEF OnDestroyAllSessions, EnumerateDestroyed, Goto, IInv, TypeOK,
     CallTypes, StopIsFree
<1>11. QED
  BY <1>1, <1>2, <1>3, <1>4, <1>5, <1>6, <1>7, <1>8, <1>9, <1>10 DEF IInv,
     TypeOK

\* IInv is kept when the enumeration leaves a session whose event objects still live.
LEMMA SkipSessionKeepsIInv ==
  ASSUME IInv, SkipSession
  PROVE  IInv'
<1>1. ListTypes'
  BY DEF SkipSession, listVars, queueVars, IInv, TypeOK, ListTypes
<1>2. SessionTypes'
  BY DEF SkipSession, sessionVars, IInv, TypeOK, SessionTypes
<1>3. CallTypes'
  BY DEF SkipSession, IInv, TypeOK, CallTypes
<1>4. OneCustodian'
  BY DEF SkipSession, listVars, sessionVars, IInv, OneCustodian, Holds
<1>5. CallbackCustody'
  BY DEF SkipSession, sessionVars, IInv, CallbackCustody
<1>6. RemoveCustody'
  BY DEF SkipSession, listVars, IInv, RemoveCustody, Overtaken
<1>7. MainCustody'
  BY DEF SkipSession, listVars, IInv, MainCustody
<1>8. ObjCustody'
  BY DEF SkipSession, listVars, IInv, ObjCustody
<1>9. UtilityCustody'
  BY DEF SkipSession, queueVars, IInv, UtilityCustody, PointsToWaiter
<1>10. StopIsFree'
  BY DEF SkipSession, StopIsFree
<1>11. QED
  BY <1>1, <1>2, <1>3, <1>4, <1>5, <1>6, <1>7, <1>8, <1>9, <1>10 DEF IInv,
     TypeOK

\* IInv is kept when the enumeration takes a session out of the list.
LEMMA TakeSessionKeepsIInv ==
  ASSUME IInv, TakeSession
  PROVE  IInv'
<1>1. ListTypes'
  BY DEF TakeSession, queueVars, IInv, TypeOK, ListTypes
<1>2. SessionTypes'
  BY DEF TakeSession, sessionVars, IInv, TypeOK, SessionTypes
<1>3. CallTypes'
  BY DEF TakeSession, Goto, IInv, TypeOK, CallTypes, Threads, MainPlaces,
     ObjPlaces, Places
<1>4. OneCustodian'
  <2>1. Obj \in Threads /\ \A x \in Sessions : ~Holds(Obj, x)
    BY DEF TakeSession, Threads, Holds, HolderPlaces, CreatePlaces
  <2>2. PICK s \in todo[Obj] :
          destroyedSessions' = destroyedSessions \ {s} /\ Goto(Obj, "stop", s)
    BY DEF TakeSession
  <2>3. s \in destroyedSessions /\ s \in Sessions /\ s \notin sessions
    BY DEF IInv, TypeOK, ListTypes, ObjCustody, OneCustodian
  <2>4. \A u \in Threads, x \in Sessions : Holds(u, x)' =>
          Holds(u, x) \/ (u = Obj /\ x = s)
    BY <2>1, <2>2, GotoHolds DEF IInv, TypeOK
  <2>5. UNCHANGED <<sessions, phase>>
    BY DEF TakeSession, sessionVars
  <2>6. QED
    BY <2>1, <2>2, <2>3, <2>4, <2>5, TakeCustody DEF IInv
<1>5. CallbackCustody'
  BY DEF TakeSession, Goto, sessionVars, IInv, TypeOK, CallTypes,
     CallbackCustody, Callers
<1>6. RemoveCustody'
  BY DEF TakeSession, Goto, IInv, TypeOK, CallTypes, RemoveCustody, Overtaken
<1>7. MainCustody'
  BY DEF TakeSession, Goto, IInv, MainCustody, DestroyPlaces
<1>8. ObjCustody'
  BY DEF TakeSession, Goto, IInv, TypeOK, CallTypes, ObjCustody
<1>9. UtilityCustody'
  BY DEF TakeSession, Goto, queueVars, IInv, UtilityCustody, PointsToWaiter
<1>10. StopIsFree'
  BY DEF TakeSession, CanDestroy, Goto, sessionVars, IInv, TypeOK, CallTypes,
     StopIsFree, CallbackCustody
<1>11. QED
  BY <1>1, <1>2, <1>3, <1>4, <1>5, <1>6, <1>7, <1>8, <1>9, <1>10 DEF IInv,
     TypeOK

\* IInv is kept when the dispatcher of a session is stopped.
LEMMA StopSessionKeepsIInv ==
  ASSUME IInv, StopSession
  PROVE  IInv'
<1>1. ListTypes'
  BY DEF StopSession, listVars, queueVars, IInv, TypeOK, ListTypes
<1>2. SessionTypes'
  BY DEF StopSession, IInv, TypeOK, SessionTypes
<1>3. CallTypes'
  BY DEF StopSession, Goto, IInv, TypeOK, CallTypes, Threads, MainPlaces,
     ObjPlaces, Places
<1>4. OneCustodian'
  BY ConnectionAssumption DEF StopSession, Goto, listVars, IInv, TypeOK,
     CallTypes, OneCustodian, Holds, HolderPlaces
<1>5. CallbackCustody'
  BY DEF StopSession, Goto, IInv, TypeOK, CallTypes, CallbackCustody, Threads,
     Callers
<1>6. RemoveCustody'
  BY ConnectionAssumption DEF StopSession, Goto, listVars, IInv, TypeOK,
     CallTypes, RemoveCustody, WorksOnSession, Overtaken, Threads, Callers,
     CreatePlaces, DestroyPlaces
<1>7. MainCustody'
  BY ConnectionAssumption DEF StopSession, Goto, listVars, IInv, TypeOK,
     CallTypes, MainCustody, Threads, Callers
<1>8. ObjCustody'
  BY DEF StopSession, Goto, listVars, IInv, TypeOK, CallTypes, ObjCustody
<1>9. UtilityCustody'
  BY DEF StopSession, Goto, queueVars, IInv, TypeOK, ListTypes, CallTypes,
     UtilityCustody, PointsToWaiter, Threads
<1>10. StopIsFree'
  BY DEF StopSession, Goto, IInv, TypeOK, CallTypes, StopIsFree
<1>11. QED
  BY <1>1, <1>2, <1>3, <1>4, <1>5, <1>6, <1>7, <1>8, <1>9, <1>10 DEF IInv,
     TypeOK

\* IInv is kept when a session is freed by the thread that took it.
LEMMA FreeSessionKeepsIInv ==
  ASSUME IInv, FreeSession
  PROVE  IInv'
<1>1. ListTypes'
  BY DEF FreeSession, listVars, queueVars, IInv, TypeOK, ListTypes
<1>2. SessionTypes'
  BY DEF FreeSession, Deallocate, Goto, listVars, queueVars, IInv, TypeOK,
     ListTypes, SessionTypes
<1>3. CallTypes'
  BY DEF FreeSession, Goto, IInv, TypeOK, CallTypes, Threads, MainPlaces,
     ObjPlaces, Places
<1>4. OneCustodian'
  <2>1. Obj \in Threads /\ arg[Obj] \in Sessions /\ Holds(Obj, arg[Obj])
    BY DEF FreeSession, IInv, RemoveCustody, WorksOnSession, Threads, Holds,
       HolderPlaces
  <2>2. \A u \in Threads, x \in Sessions : Holds(u, x)' => u # Obj /\ Holds(u, x)
    BY <2>1, GotoHolds DEF FreeSession, IInv, TypeOK, HolderPlaces, CreatePlaces
  <2>3. QED
    BY <2>1, <2>2, FreeCustody DEF FreeSession, Deallocate, listVars, IInv
<1>5. CallbackCustody'
  BY DEF FreeSession, Goto, IInv, TypeOK, CallTypes, CallbackCustody, Callers
<1>6. RemoveCustody'
  BY DEF FreeSession, Goto, listVars, IInv, TypeOK, CallTypes, RemoveCustody,
     WorksOnSession, Overtaken, CreatePlaces, DestroyPlaces
<1>7. MainCustody'
  BY DEF FreeSession, Goto, listVars, IInv, MainCustody, CreatePlaces,
     DestroyPlaces, MainPlaces
<1>8. ObjCustody'
  BY DEF FreeSession, Goto, listVars, IInv, ObjCustody
<1>9. UtilityCustody'
  BY DEF FreeSession, Goto, queueVars, IInv, UtilityCustody, PointsToWaiter
<1>10. StopIsFree'
  BY DEF FreeSession, Goto, StopIsFree
<1>11. QED
  BY <1>1, <1>2, <1>3, <1>4, <1>5, <1>6, <1>7, <1>8, <1>9, <1>10 DEF IInv,
     TypeOK

\* IInv is kept when the enumeration lets go of m_destroyedSessions.
LEMMA EndEnumerateKeepsIInv ==
  ASSUME IInv, EndEnumerate
  PROVE  IInv'
<1>1. ListTypes'
  BY DEF EndEnumerate, queueVars, IInv, TypeOK, ListTypes
<1>2. SessionTypes'
  BY DEF EndEnumerate, sessionVars, IInv, TypeOK, SessionTypes
<1>3. CallTypes'
  BY DEF EndEnumerate, Goto, IInv, TypeOK, CallTypes, Threads, MainPlaces,
     ObjPlaces, Places
<1>4. OneCustodian'
  BY ConnectionAssumption DEF EndEnumerate, Goto, sessionVars, IInv, TypeOK,
     CallTypes, OneCustodian, Holds
<1>5. CallbackCustody'
  BY DEF EndEnumerate, Goto, sessionVars, IInv, TypeOK, CallTypes,
     CallbackCustody, Callers
<1>6. RemoveCustody'
  BY DEF EndEnumerate, Goto, IInv, RemoveCustody, WorksOnSession, Overtaken,
     CreatePlaces, DestroyPlaces
<1>7. MainCustody'
  BY ConnectionAssumption DEF EndEnumerate, Goto, IInv, MainCustody, Callers
<1>8. ObjCustody'
  BY ConnectionAssumption DEF EndEnumerate, Goto, IInv, TypeOK, CallTypes,
     ObjCustody, Threads
<1>9. UtilityCustody'
  BY DEF EndEnumerate, Goto, queueVars, IInv, UtilityCustody, PointsToWaiter
<1>10. StopIsFree'
  BY DEF EndEnumerate, Goto, StopIsFree
<1>11. QED
  BY <1>1, <1>2, <1>3, <1>4, <1>5, <1>6, <1>7, <1>8, <1>9, <1>10 DEF IInv,
     TypeOK

\* IInv is kept when onDestroyAllSessions has dispatched the default queue.
LEMMA TimedDispatchReturnsKeepsIInv ==
  ASSUME IInv, TimedDispatchReturns
  PROVE  IInv'
<1>1. ListTypes'
  BY DEF TimedDispatchReturns, EnumerateDestroyed, queueVars, IInv, TypeOK,
     ListTypes
<1>2. SessionTypes'
  BY DEF TimedDispatchReturns, sessionVars, IInv, TypeOK, SessionTypes
<1>3. CallTypes'
  BY DEF TimedDispatchReturns, EnumerateDestroyed, Goto, IInv, TypeOK,
     ListTypes, CallTypes, Threads, MainPlaces, ObjPlaces, Places
<1>4. OneCustodian'
  <2>1. Obj \in Threads
    BY ConnectionAssumption DEF Threads, Callers
  <2>2. PICK place \in {"signal", "enumerate"} : Goto(Obj, place, None)
    BY DEF TimedDispatchReturns, EnumerateDestroyed, Return
  <2>3. \A u \in Threads, x \in Sessions : Holds(u, x)' => Holds(u, x)
    BY <2>1, <2>2, GotoHolds DEF IInv, TypeOK, HolderPlaces, CreatePlaces
  <2>4. QED
    BY <2>3, KeepCustody DEF TimedDispatchReturns, sessionVars, IInv
<1>5. CallbackCustody'
  BY DEF TimedDispatchReturns, EnumerateDestroyed, Goto, sessionVars, IInv,
     TypeOK, CallTypes, CallbackCustody, Threads, Callers
<1>6. RemoveCustody'
  BY ConnectionAssumption DEF TimedDispatchReturns, EnumerateDestroyed, Goto,
     IInv, TypeOK, CallTypes, RemoveCustody, WorksOnSession, Overtaken, Threads,
     Callers, CreatePlaces, DestroyPlaces
<1>7. MainCustody'
  BY ConnectionAssumption DEF TimedDispatchReturns, EnumerateDestroyed, Goto,
     IInv, TypeOK, CallTypes, MainCustody, Threads, Callers
<1>8. ObjCustody'
  BY DEF TimedDispatchReturns, EnumerateDestroyed, Goto, IInv, TypeOK,
     CallTypes, ObjCustody, Threads
<1>9. UtilityCustody'
  BY DEF TimedDispatchReturns, EnumerateDestroyed, Goto, queueVars, IInv,
     TypeOK, ListTypes, CallTypes, UtilityCustody, PointsToWaiter, Threads
<1>10. StopIsFree'
  BY DEF TimedDispatchReturns, EnumerateDestroyed, Goto, IInv, TypeOK,
     CallTypes, StopIsFree
<1>11. QED
  BY <1>1, <1>2, <1>3, <1>4, <1>5, <1>6, <1>7, <1>8, <1>9, <1>10 DEF IInv,
     TypeOK

\* IInv is kept when onDestroyAllSessions wakes destroyConnection.
LEMMA SignalDestroyedKeepsIInv ==
  ASSUME IInv, SignalDestroyed
  PROVE  IInv'
<1>1. ListTypes'
  BY DEF SignalDestroyed, Goto, listVars, sessionVars, IInv, TypeOK, ListTypes,
     SessionTypes
<1>2. SessionTypes'
  BY DEF SignalDestroyed, sessionVars, IInv, TypeOK, SessionTypes
<1>3. CallTypes'
  BY DEF SignalDestroyed, Goto, IInv, TypeOK, CallTypes, Threads, MainPlaces,
     Places
<1>4. OneCustodian'
  BY ConnectionAssumption DEF SignalDestroyed, Goto, listVars, sessionVars,
     IInv, TypeOK, CallTypes, OneCustodian, Holds
<1>5. CallbackCustody'
  BY DEF SignalDestroyed, Goto, sessionVars, IInv, TypeOK, CallTypes,
     CallbackCustody, Callers
<1>6. RemoveCustody'
  BY DEF SignalDestroyed, Goto, listVars, IInv, RemoveCustody, WorksOnSession,
     Overtaken, CreatePlaces, DestroyPlaces
<1>7. MainCustody'
  BY ConnectionAssumption DEF SignalDestroyed, Goto, listVars, IInv,
     MainCustody, Callers
<1>8. ObjCustody'
  BY DEF SignalDestroyed, Goto, listVars, IInv, ObjCustody
<1>9. UtilityCustody'
  BY DEF SignalDestroyed, Goto, IInv, UtilityCustody, PointsToWaiter
<1>10. StopIsFree'
  BY DEF SignalDestroyed, Goto, StopIsFree
<1>11. QED
  BY <1>1, <1>2, <1>3, <1>4, <1>5, <1>6, <1>7, <1>8, <1>9, <1>10 DEF IInv,
     TypeOK

\* IInv is kept when a session gets an event object.
LEMMA CreateObjectKeepsIInv ==
  ASSUME IInv, NEW s \in Sessions, CreateObject(s)
  PROVE  IInv'
<1>1. ListTypes'
  BY DEF CreateObject, listVars, queueVars, callVars, IInv, TypeOK, ListTypes
<1>2. SessionTypes'
  BY DEF CreateObject, IInv, TypeOK, SessionTypes
<1>3. CallTypes'
  BY DEF CreateObject, callVars, IInv, TypeOK, CallTypes
<1>4. OneCustodian'
  BY DEF CreateObject, listVars, callVars, IInv, OneCustodian, Holds
<1>5. CallbackCustody'
  BY DEF CreateObject, callVars, IInv, CallbackCustody
<1>6. RemoveCustody'
  BY DEF CreateObject, listVars, callVars, IInv, RemoveCustody, Overtaken
<1>7. MainCustody'
  BY DEF CreateObject, listVars, callVars, IInv, MainCustody
<1>8. ObjCustody'
  BY DEF CreateObject, listVars, callVars, IInv, ObjCustody
<1>9. UtilityCustody'
  BY DEF CreateObject, queueVars, callVars, IInv, UtilityCustody, PointsToWaiter
<1>10. StopIsFree'
  BY DEF CreateObject, callVars, IInv, StopIsFree, OneCustodian, Holds, Threads,
     HolderPlaces
<1>11. QED
  BY <1>1, <1>2, <1>3, <1>4, <1>5, <1>6, <1>7, <1>8, <1>9, <1>10 DEF IInv,
     TypeOK

\* IInv is kept when a session's dispatcher calls back.
LEMMA BeginCallbackKeepsIInv ==
  ASSUME IInv, NEW s \in Sessions, BeginCallback(s)
  PROVE  IInv'
<1>1. ListTypes'
  BY DEF BeginCallback, listVars, queueVars, callVars, IInv, TypeOK, ListTypes
<1>2. SessionTypes'
  BY DEF BeginCallback, IInv, TypeOK, SessionTypes
<1>3. CallTypes'
  BY DEF BeginCallback, callVars, IInv, TypeOK, CallTypes
<1>4. OneCustodian'
  BY DEF BeginCallback, listVars, callVars, IInv, OneCustodian, Holds
<1>5. CallbackCustody'
  BY DEF BeginCallback, callVars, IInv, CallbackCustody
<1>6. RemoveCustody'
  BY DEF BeginCallback, listVars, callVars, IInv, RemoveCustody, Overtaken
<1>7. MainCustody'
  BY DEF BeginCallback, listVars, callVars, IInv, MainCustody
<1>8. ObjCustody'
  BY DEF BeginCallback, listVars, callVars, IInv, ObjCustody
<1>9. UtilityCustody'
  BY DEF BeginCallback, queueVars, callVars, IInv, UtilityCustody, PointsToWaiter
<1>10. StopIsFree'
  BY DEF BeginCallback, callVars, IInv, StopIsFree
<1>11. QED
  BY <1>1, <1>2, <1>3, <1>4, <1>5, <1>6, <1>7, <1>8, <1>9, <1>10 DEF IInv,
     TypeOK

\* IInv is kept when a callback returns.
LEMMA EndCallbackKeepsIInv ==
  ASSUME IInv, NEW s \in Sessions, EndCallback(s)
  PROVE  IInv'
<1>1. ListTypes'
  BY DEF EndCallback, listVars, queueVars, callVars, IInv, TypeOK, ListTypes
<1>2. SessionTypes'
  BY DEF EndCallback, IInv, TypeOK, SessionTypes
<1>3. CallTypes'
  BY DEF EndCallback, callVars, IInv, TypeOK, CallTypes
<1>4. OneCustodian'
  BY DEF EndCallback, listVars, callVars, IInv, OneCustodian, Holds
<1>5. CallbackCustody'
  BY DEF EndCallback, callVars, IInv, CallbackCustody
<1>6. RemoveCustody'
  BY DEF EndCallback, listVars, callVars, IInv, RemoveCustody, Overtaken
<1>7. MainCustody'
  BY DEF EndCallback, listVars, callVars, IInv, MainCustody
<1>8. ObjCustody'
  BY DEF EndCallback, listVars, callVars, IInv, ObjCustody
<1>9. UtilityCustody'
  BY DEF EndCallback, queueVars, callVars, IInv, UtilityCustody, PointsToWaiter
<1>10. StopIsFree'
  BY DEF EndCallback, callVars, IInv, StopIsFree
<1>11. QED
  BY <1>1, <1>2, <1>3, <1>4, <1>5, <1>6, <1>7, <1>8, <1>9, <1>10 DEF IInv,
     TypeOK

\* IInv is kept when the event objects of a session are gone.
LEMMA FinaliseObjectsKeepsIInv ==
  ASSUME IInv, NEW s \in Sessions, FinaliseObjects(s)
  PROVE  IInv'
<1>1. ListTypes'
  BY DEF FinaliseObjects, listVars, queueVars, callVars, IInv, TypeOK, ListTypes
<1>2. SessionTypes'
  BY DEF FinaliseObjects, IInv, TypeOK, SessionTypes
<1>3. CallTypes'
  BY DEF FinaliseObjects, callVars, IInv, TypeOK, CallTypes
<1>4. OneCustodian'
  BY DEF FinaliseObjects, listVars, callVars, IInv, OneCustodian, Holds
<1>5. CallbackCustody'
  BY DEF FinaliseObjects, callVars, IInv, CallbackCustody
<1>6. RemoveCustody'
  BY DEF FinaliseObjects, listVars, callVars, IInv, RemoveCustody, Overtaken
<1>7. MainCustody'
  BY DEF FinaliseObjects, listVars, callVars, IInv, MainCustody
<1>8. ObjCustody'
  BY DEF FinaliseObjects, listVars, callVars, IInv, ObjCustody
<1>9. UtilityCustody'
  BY DEF FinaliseObjects, queueVars, callVars, IInv, UtilityCustody,
     PointsToWaiter
<1>10. StopIsFree'
  BY DEF FinaliseObjects, callVars, IInv, StopIsFree
<1>11. QED
  BY <1>1, <1>2, <1>3, <1>4, <1>5, <1>6, <1>7, <1>8, <1>9, <1>10 DEF IInv,
     TypeOK

\* IInv is kept when nothing changes.
LEMMA StutterKeepsIInv ==
  ASSUME IInv, UNCHANGED vars
  PROVE  IInv'
<1>1. TypeOK'
  BY DEF vars, IInv, TypeOK, ListTypes, SessionTypes, CallTypes
<1>2. OneCustodian' /\ CallbackCustody' /\ StopIsFree' /\ ObjCustody'
  BY DEF vars, IInv, OneCustodian, Holds, CallbackCustody, StopIsFree, ObjCustody
<1>3. RemoveCustody' /\ MainCustody'
  BY DEF vars, IInv, RemoveCustody, Overtaken, MainCustody
<1>4. UtilityCustody'
  BY DEF vars, IInv, UtilityCustody, PointsToWaiter
<1>5. QED
  BY <1>1, <1>2, <1>3, <1>4 DEF IInv

\* IInv is kept when any step is taken.
LEMMA NextKeepsIInv == IInv /\ [Next]_vars => reused' \/ IInv'
<1> SUFFICES ASSUME IInv, [Next]_vars PROVE reused' \/ IInv'
  OBVIOUS
<1>1. ASSUME NEW t \in Callers, Begin(t)
      PROVE  IInv'
  BY <1>1, AllocateSessionKeepsIInv, DestroySessionKeepsIInv DEF Begin
<1>2. ASSUME NEW t \in Callers, Continue(t) \/ Contend(t)
      PROVE  IInv'
  BY <1>2, EnqueueCreateKeepsIInv, WaitCreatedKeepsIInv, AddSessionKeepsIInv,
     RemoveSessionKeepsIInv, SweepEventsKeepsIInv, MarkDestroyedKeepsIInv
  DEF Continue, Contend
<1>3. ASSUME DestroyConnection \/ ContinueDestroy
      PROVE  IInv'
  BY <1>3, DestroyConnectionKeepsIInv, EachSessionKeepsIInv,
     EnqueueDestroyAllKeepsIInv, WaitDestroyedKeepsIInv, FreeConnectionKeepsIInv
  DEF ContinueDestroy
<1>4. ASSUME OnSessionCreate \/ OnSessionTimerTick \/ OnDestroyAllSessions
      PROVE  IInv'
  BY <1>4, OnSessionCreateKeepsIInv, OnSessionTimerTickKeepsIInv,
     OnDestroyAllSessionsKeepsIInv
<1>5. ASSUME Enumerate
      PROVE  IInv'
  BY <1>5, SkipSessionKeepsIInv, TakeSessionKeepsIInv, StopSessionKeepsIInv,
     FreeSessionKeepsIInv, EndEnumerateKeepsIInv, TimedDispatchReturnsKeepsIInv,
     SignalDestroyedKeepsIInv
  DEF Enumerate
<1>6. ASSUME NEW s \in Sessions, Objects(s)
      PROVE  IInv'
  BY <1>6, CreateObjectKeepsIInv, BeginCallbackKeepsIInv, EndCallbackKeepsIInv,
     FinaliseObjectsKeepsIInv
  DEF Objects
<1>7. CASE UNCHANGED vars
  BY <1>7, StutterKeepsIInv
<1>8. ASSUME NEW t \in Callers, ReuseElement(t)
      PROVE  reused'
  BY <1>8 DEF ReuseElement
<1>9. QED
  BY <1>1, <1>2, <1>3, <1>4, <1>5, <1>6, <1>7, <1>8 DEF Next

\* Once reused is true it remains so.
LEMMA ReusedStays == reused /\ [Next]_vars => reused'
<1> SUFFICES ASSUME reused, [Next]_vars PROVE reused'
  OBVIOUS
<1>1. ASSUME NEW t \in Callers, Begin(t) \/ Continue(t) \/ Contend(t)
      PROVE  reused'
  BY <1>1 DEF Begin, AllocateSession, DestroySession, Continue, EnqueueCreate,
     WaitCreated, Contend, AddSession, RemoveSession, SweepEvents, MarkDestroyed
<1>2. ASSUME NEW t \in Callers, ReuseElement(t)
      PROVE  reused'
  BY <1>2 DEF ReuseElement
<1>3. ASSUME DestroyConnection \/ ContinueDestroy
      PROVE  reused'
  BY <1>3 DEF DestroyConnection, ContinueDestroy, EachSession, EnqueueDestroyAll,
     WaitDestroyed, FreeConnection
<1>4. ASSUME OnSessionCreate \/ OnSessionTimerTick \/ OnDestroyAllSessions
      PROVE  reused'
  BY <1>4 DEF OnSessionCreate, OnSessionTimerTick, OnDestroyAllSessions
<1>5. ASSUME Enumerate
      PROVE  reused'
  BY <1>5 DEF Enumerate, SkipSession, TakeSession, StopSession, FreeSession,
     EndEnumerate, TimedDispatchReturns, SignalDestroyed
<1>6. ASSUME NEW s \in Sessions, Objects(s)
      PROVE  reused'
  BY <1>6 DEF Objects, CreateObject, BeginCallback, EndCallback, FinaliseObjects
<1>7. QED
  BY <1>1, <1>2, <1>3, <1>4, <1>5, <1>6 DEF Next, vars


-----------------------------------------------------------------------------
(* The theorems.                                                           *)

\* The invariant holds in every behaviour, whatever fails and whatever callbacks
\* do while the connection is destroyed, until Obj reads a list element whose
\* memory is no longer its own.
THEOREM ConnectionInv == Spec => [](reused \/ IInv)
<1>1. Init => reused \/ IInv
  BY InitIInv
<1>2. (reused \/ IInv) /\ [Next]_vars => (reused \/ IInv)'
  BY NextKeepsIInv, ReusedStays
<1>3. QED
  BY <1>1, <1>2, PTL DEF Spec

\* Every variable keeps its type until then.
THEOREM ConnectionTypeCorrect == Spec => [](reused \/ TypeOK)
<1>1. IInv => TypeOK
  BY DEF IInv
<1>2. QED
  BY <1>1, ConnectionInv, PTL

\* A session is in one list or in one thread's hands, and nobody can reach one
\* that has been freed, until then.
THEOREM SessionCustodyAlways == Spec => []Custody
<1>1. reused \/ IInv => Custody
  BY DEF IInv, Custody
<1>2. QED
  BY <1>1, ConnectionInv, PTL

\* mamaEnvSession_destroy never waits for a callback, nor cuts off an event object,
\* until then.
THEOREM JoinNeverWaitsAlways == Spec => []JoinNeverWaits
<1>1. reused \/ IInv => JoinNeverWaits
  BY DEF IInv, JoinNeverWaits
<1>2. QED
  BY <1>1, ConnectionInv, PTL

\* The structure on createSession's stack is there while an event points to it,
\* unless that call's wait has failed or ended early; until then.
THEOREM UtilityAliveAlways == Spec => []UtilityAlive
<1>1. reused \/ IInv => UtilityAlive
  BY DEF IInv, UtilityCustody, UtilityAlive
<1>2. QED
  BY <1>1, ConnectionInv, PTL

-----------------------------------------------------------------------------
(***************************************************************************)
(* Sessions and connections implement SessionLifecycle, and nothing is     *)
(* lost, for any number of sessions and threads, when no step of           *)
(* destruction fails, no callback calls the API while the connection is    *)
(* destroyed, and the waits and the memory are as the code takes them to   *)
(* be (Sound).                                                             *)
(***************************************************************************)

\* What a Sound environment does not do.
LEMMA SoundMeans ==
  ASSUME Sound
  PROVE  /\ "alloc" \notin Conditions /\ "nomem" \notin Conditions
         /\ "sweep" \notin Conditions /\ "stop" \notin Conditions
         /\ "dispatch" \notin Conditions /\ "race" \notin Conditions
         /\ "spurious" \notin Conditions /\ "waitFails" \notin Conditions
         /\ "reuse" \notin Conditions
  BY DEF Sound

\* Then no wait ends early and no element is read too late.
LEMMA WaitsStaySound ==
  ASSUME Sound
  PROVE  WaitsAreSound /\ [Next]_vars => WaitsAreSound'
<1> SUFFICES ASSUME WaitsAreSound, [Next]_vars PROVE WaitsAreSound'
  OBVIOUS
<1>1. ASSUME NEW t \in Callers, Begin(t) \/ EnqueueCreate(t) \/ Contend(t)
      PROVE  WaitsAreSound'
  <2>1. UNCHANGED <<reused, left>>
    BY <1>1 DEF queueVars, Begin, AllocateSession, DestroySession, EnqueueCreate,
       Contend, AddSession, RemoveSession, SweepEvents, MarkDestroyed
  <2>2. QED
    BY <2>1 DEF WaitsAreSound
<1>2. ASSUME NEW t \in Callers, WaitCreated(t)
      PROVE  WaitsAreSound'
  <2>1. LeaveUtility(t, FALSE) /\ UNCHANGED reused
    BY <1>2, SoundMeans DEF WaitCreated
  <2>2. QED
    BY <2>1 DEF LeaveUtility, WaitsAreSound
<1>3. ASSUME NEW t \in Callers, ReuseElement(t)
      PROVE  FALSE
  BY <1>3, SoundMeans DEF ReuseElement
<1>4. ASSUME DestroyConnection \/ ContinueDestroy
      PROVE  WaitsAreSound'
  BY <1>4 DEF WaitsAreSound, queueVars, DestroyConnection, ContinueDestroy,
     EachSession, EnqueueDestroyAll, WaitDestroyed, FreeConnection
<1>5. CASE OnSessionCreate
  <2>1. TakeEvent(Head(queue)) /\ UNCHANGED reused
    BY <1>5 DEF OnSessionCreate
  <2>2. QED
    BY <2>1 DEF TakeEvent, WaitsAreSound
<1>6. ASSUME OnSessionTimerTick \/ OnDestroyAllSessions \/ Enumerate
      PROVE  WaitsAreSound'
  BY <1>6 DEF WaitsAreSound, queueVars, OnSessionTimerTick, OnDestroyAllSessions,
     Enumerate, SkipSession, TakeSession, StopSession, FreeSession, EndEnumerate,
     TimedDispatchReturns, SignalDestroyed
<1>7. ASSUME NEW s \in Sessions, Objects(s)
      PROVE  WaitsAreSound'
  BY <1>7 DEF WaitsAreSound, queueVars, Objects, CreateObject, BeginCallback,
     EndCallback, FinaliseObjects
<1>8. CASE UNCHANGED vars
  BY <1>8 DEF WaitsAreSound, vars
<1>9. QED
  BY <1>1, <1>2, <1>3, <1>4, <1>5, <1>6, <1>7, <1>8 DEF Next, Continue

\* A step of a thread t that loses nothing: what it had in hand it still has, or
\* has freed, or has put into a list.
LEMMA GotoLosesNothing ==
  ASSUME SoundInv, NEW t \in Threads, NEW place, NEW x, Goto(t, place, x),
         \A s \in Sessions :
           /\ Holds(t, s) \/ s \in sessions \cup destroyedSessions \/ phase[s] # "allocated"
           /\ phase'[s] = "allocated"
           => \/ s \in sessions' \cup destroyedSessions'
              \/ place \in HolderPlaces /\ x = s
              \/ \E u \in Threads : u # t /\ Holds(u, s)
  PROVE  NothingLost'
<1>1. /\ \A u \in Threads, s \in Sessions : u # t => (Holds(u, s)' <=> Holds(u, s))
      /\ \A s \in Sessions : Holds(t, s)' <=> place \in HolderPlaces /\ x = s
  BY GotoHolds DEF SoundInv, IInv, TypeOK
<1>2. QED
  BY <1>1 DEF SoundInv, NothingLost

\* The creator t waits for its session, which nobody else knows.
Created(t) ==
    /\ pc[t] = "wait" /\ utility[t] = "pending"
    /\ arg[t] \in Sessions /\ Holds(t, arg[t])
    /\ phase[arg[t]] = "allocated" /\ dispatcher[arg[t]] = "none"
    /\ arg[t] \notin sessions \cup destroyedSessions \cup closing

\* So does the one whose event is the first of the queue.
LEMMA HeadOfQueue ==
  ASSUME SoundInv, WaitsAreSound, OnSessionCreate
  PROVE  \E t \in Callers : t = Head(queue) /\ Created(t)
<1>1. /\ queue # <<>> /\ queue \in Seq(Threads) /\ Head(queue) # Obj
      /\ 1 \in 1..Len(queue) /\ Head(queue) = queue[1]
  BY DEF OnSessionCreate, SoundInv, IInv, TypeOK, ListTypes
<1>2. Head(queue) \in Callers
  BY <1>1 DEF Threads
<1>3. pc[Head(queue)] = "wait" /\ utility[Head(queue)] = "pending"
  BY <1>1, <1>2 DEF WaitsAreSound, SoundInv, IInv, UtilityCustody, PointsToWaiter
<1>4. arg[Head(queue)] \in Sessions /\ Holds(Head(queue), arg[Head(queue)])
  BY <1>2, <1>3 DEF SoundInv, IInv, RemoveCustody, WorksOnSession, CreatePlaces,
     Threads, Holds, HolderPlaces
<1>5. /\ phase[arg[Head(queue)]] = "allocated"
      /\ arg[Head(queue)] \notin sessions \cup destroyedSessions
  BY <1>2, <1>4 DEF SoundInv, IInv, OneCustodian, Threads
<1>6. dispatcher[arg[Head(queue)]] = "none" /\ arg[Head(queue)] \notin closing
  BY <1>2, <1>3 DEF SoundInv, CreatorStages, CreatePlaces
<1>7. QED
  BY <1>2, <1>3, <1>4, <1>5, <1>6 DEF Created

\* SoundInv is kept when createSession allocates the structure.
LEMMA AllocateSessionKeepsSound ==
  ASSUME Sound, SoundInv, NEW t \in Callers, NEW s \in Sessions, AllocateSession(t, s)
  PROVE  SoundInv'
<1>1. NothingLost'
  <2>1. Goto(t, "enqueue", s) /\ phase' = [phase EXCEPT ![s] = "allocated"] /\ pc[t] = "idle"
    BY SoundMeans DEF AllocateSession, CanCall
  <2>2. UNCHANGED <<sessions, destroyedSessions>>
    BY DEF AllocateSession, listVars
  <2>3. \A x \in Sessions : ~Holds(t, x)
    BY <2>1 DEF Holds, HolderPlaces, CreatePlaces
  <2>4. QED
    BY <2>1, <2>2, <2>3, GotoLosesNothing DEF Threads, HolderPlaces,
       CreatePlaces
<1>2. SessionStages'
  BY DEF AllocateSession, listVars, SoundInv, SessionStages
<1>3. CreatorStages'
  BY DEF AllocateSession, Goto, CanCall, SoundInv, IInv, TypeOK, CallTypes,
     CreatorStages, SessionStages, UtilityCustody, Threads
<1>4. DestroyerStages'
  BY DEF AllocateSession, Goto, SoundInv, IInv, TypeOK, CallTypes,
     DestroyerStages
<1>5. Draining'
  BY ConnectionAssumption DEF Sound, AllocateSession, Goto, CanCall, listVars,
     queueVars, SoundInv, IInv, TypeOK, CallTypes, Draining, Enumerated,
     Callers, Threads
<1>6. IInv'
  BY AllocateSessionKeepsIInv DEF SoundInv
<1>7. QED
  BY <1>1, <1>2, <1>3, <1>4, <1>5, <1>6 DEF SoundInv

\* SoundInv is kept when the create event is put into the queue.
LEMMA EnqueueCreateKeepsSound ==
  ASSUME Sound, SoundInv, NEW t \in Callers, EnqueueCreate(t)
  PROVE  SoundInv'
<1>1. NothingLost'
  <2>1. pc[t] = "enqueue" /\ arg[t] \in Sessions /\ UNCHANGED <<sessions, destroyedSessions>>
    BY DEF EnqueueCreate, listVars, SoundInv, IInv, RemoveCustody,
       WorksOnSession, CreatePlaces, Threads
  <2>2. \A x \in Sessions : Holds(t, x) => x = arg[t]
    BY DEF Holds
  <2>3. CASE Goto(t, "wait", arg[t]) /\ UNCHANGED phase
    BY <2>1, <2>2, <2>3, GotoLosesNothing DEF Threads, HolderPlaces,
       CreatePlaces
  <2>4. CASE Goto(t, "idle", None) /\ phase' = [phase EXCEPT ![arg[t]] = "freed"]
    BY <2>1, <2>2, <2>4, GotoLosesNothing DEF Threads, SoundInv, IInv, TypeOK,
       SessionTypes
  <2>5. QED
    BY <2>3, <2>4 DEF EnqueueCreate, Return, Deallocate
<1>2. SessionStages'
  <2>1. /\ pc[t] = "enqueue" /\ arg[t] \in Sessions /\ Holds(t, arg[t])
        /\ UNCHANGED <<sessions, destroyedSessions, dispatcher, objects, closing>>
    BY DEF EnqueueCreate, listVars, SoundInv, IInv, RemoveCustody,
       WorksOnSession, CreatePlaces, Threads, Holds, HolderPlaces
  <2>2. dispatcher[arg[t]] = "none"
    BY <2>1 DEF SoundInv, CreatorStages, CreatePlaces, IInv, UtilityCustody
  <2>3. \A s \in Sessions : phase'[s] = phase[s] \/ (s = arg[t] /\ phase'[s] = "freed")
    BY DEF EnqueueCreate, Deallocate, SoundInv, IInv, TypeOK, SessionTypes
  <2>4. QED
    BY <2>1, <2>2, <2>3 DEF SoundInv, SessionStages
<1>3. CreatorStages'
  BY DEF EnqueueCreate, Goto, Return, SoundInv, IInv, TypeOK, CallTypes,
     CreatorStages, UtilityCustody, CreatePlaces, Threads
<1>4. DestroyerStages'
  <2>1. PICK place, x : place \in {"wait", "idle"} /\ Goto(t, place, x)
    BY DEF EnqueueCreate, Return
  <2>2. UNCHANGED <<dispatcher, closing>>
    BY DEF EnqueueCreate
  <2>3. QED
    BY <2>1, <2>2 DEF Goto, SoundInv, IInv, TypeOK, CallTypes, DestroyerStages
<1>5. Draining'
  <2>1. timer /\ sessionsLock # Main
    BY DEF EnqueueCreate, SoundInv, IInv, MainCustody, Draining, CreatePlaces,
       MainPlaces
  <2>2. PICK place, x : place \in {"wait", "idle"} /\ Goto(t, place, x)
    BY DEF EnqueueCreate, Return
  <2>3. /\ ~\E i \in 1..Len(queue) : queue[i] = Obj
        /\ ~lastEvent /\ ~destroySynch /\ pc[Main] # "freeConnection" /\ connection # "freed"
        /\ pc[Obj] # "signal"
    BY <2>1 DEF SoundInv, Draining, Enumerated
  <2>4. ~\E i \in 1..Len(queue') : queue'[i] = Obj
    <3>1. CASE queue' = Append(queue, t)
      BY <2>3, <3>1, ConnectionAssumption
    <3>2. QED
      BY <2>3, <3>1 DEF EnqueueCreate
  <2>5. pc'[Obj] # "signal" /\ pc'[Main] # "freeConnection"
    BY <2>2, <2>3 DEF Goto
  <2>6. UNCHANGED <<timer, sessionsLock, lastEvent, destroySynch, connection>>
    BY DEF EnqueueCreate, listVars
  <2>7. QED
    BY <2>1, <2>3, <2>4, <2>5, <2>6 DEF Draining, Enumerated
<1>6. IInv'
  BY EnqueueCreateKeepsIInv DEF SoundInv
<1>7. QED
  BY <1>1, <1>2, <1>3, <1>4, <1>5, <1>6 DEF SoundInv

\* SoundInv is kept when createSession has been told the outcome.
LEMMA WaitCreatedKeepsSound ==
  ASSUME Sound, SoundInv, NEW t \in Callers, WaitCreated(t)
  PROVE  SoundInv'
<1>1. NothingLost'
  <2>1. pc[t] = "wait" /\ arg[t] \in Sessions /\ UNCHANGED <<sessions, destroyedSessions>>
    BY DEF WaitCreated, listVars, SoundInv, IInv, RemoveCustody, WorksOnSession,
       CreatePlaces, Threads
  <2>2. \A x \in Sessions : Holds(t, x) => x = arg[t]
    BY DEF Holds
  <2>3. CASE Goto(t, "add", arg[t]) /\ UNCHANGED phase
    BY <2>1, <2>2, <2>3, GotoLosesNothing DEF Threads, HolderPlaces,
       CreatePlaces
  <2>4. CASE Goto(t, "idle", None) /\ phase' = [phase EXCEPT ![arg[t]] = "freed"]
    BY <2>1, <2>2, <2>4, GotoLosesNothing DEF Threads, SoundInv, IInv, TypeOK,
       SessionTypes
  <2>5. QED
    BY <2>3, <2>4 DEF WaitCreated, Return, Deallocate
<1>2. SessionStages'
  BY SoundMeans DEF WaitCreated, Deallocate, listVars, SoundInv, IInv, TypeOK,
     SessionTypes, SessionStages, CreatorStages, CreatePlaces
<1>3. CreatorStages'
  BY SoundMeans DEF WaitCreated, LeaveUtility, Goto, Return, SoundInv, IInv, TypeOK, CallTypes,
     CreatorStages, UtilityCustody, CreatePlaces, Threads
<1>4. DestroyerStages'
  BY DEF WaitCreated, Goto, Return, SoundInv, IInv, TypeOK, CallTypes,
     DestroyerStages
<1>5. Draining'
  BY ConnectionAssumption DEF Sound, WaitCreated, Goto, Return, listVars,
     queueVars, SoundInv, IInv, TypeOK, CallTypes, Draining, Enumerated,
     Callers, Threads
<1>6. IInv'
  BY WaitCreatedKeepsIInv DEF SoundInv
<1>7. QED
  BY <1>1, <1>2, <1>3, <1>4, <1>5, <1>6 DEF SoundInv

\* SoundInv is kept when the session is put into m_sessions.
LEMMA AddSessionKeepsSound ==
  ASSUME Sound, SoundInv, NEW t \in Callers, AddSession(t)
  PROVE  SoundInv'
<1>1. NothingLost'
  BY DEF Sound, AddSession, Goto, Return, SoundInv, NothingLost, Holds
<1>2. SessionStages'
  BY DEF Sound, AddSession, SoundInv, SessionStages, CreatorStages, CreatePlaces
<1>3. CreatorStages'
  BY DEF AddSession, Goto, Return, SoundInv, IInv, TypeOK, CallTypes,
     CreatorStages, CreatePlaces
<1>4. DestroyerStages'
  BY DEF AddSession, Goto, Return, SoundInv, DestroyerStages
<1>5. Draining'
  BY DEF AddSession, Goto, Return, queueVars, SoundInv, IInv, Draining,
     Enumerated, MainCustody, CreatePlaces, MainPlaces
<1>6. IInv'
  BY AddSessionKeepsIInv DEF SoundInv
<1>7. QED
  BY <1>1, <1>2, <1>3, <1>4, <1>5, <1>6 DEF SoundInv

\* SoundInv is kept when a session is destroyed.
LEMMA DestroySessionKeepsSound ==
  ASSUME Sound, SoundInv, NEW t \in Callers, NEW s \in Sessions, DestroySession(t, s)
  PROVE  SoundInv'
<1>1. NothingLost'
  BY DEF DestroySession, Goto, CanCall, listVars, sessionVars, SoundInv,
     NothingLost, Holds, HolderPlaces, CreatePlaces
<1>2. SessionStages'
  BY DEF DestroySession, listVars, sessionVars, SoundInv, SessionStages
<1>3. CreatorStages'
  BY DEF DestroySession, Goto, sessionVars, SoundInv, IInv, TypeOK, CallTypes,
     CreatorStages, OneCustodian, Holds, HolderPlaces, CreatePlaces, Threads
<1>4. DestroyerStages'
  BY DEF DestroySession, Goto, sessionVars, SoundInv, IInv, TypeOK, CallTypes,
     DestroyerStages
<1>5. Draining'
  BY DEF Sound, DestroySession, Goto, CanCall, listVars, queueVars, SoundInv,
     Draining, Enumerated
<1>6. IInv'
  BY DestroySessionKeepsIInv DEF SoundInv
<1>7. QED
  BY <1>1, <1>2, <1>3, <1>4, <1>5, <1>6 DEF SoundInv

\* SoundInv is kept when it leaves m_sessions.
LEMMA RemoveSessionKeepsSound ==
  ASSUME Sound, SoundInv, NEW t \in Callers, RemoveSession(t)
  PROVE  SoundInv'
<1>1. NothingLost'
  BY DEF RemoveSession, Goto, sessionVars, SoundInv, IInv, TypeOK, CallTypes,
     NothingLost, Holds, HolderPlaces, Threads
<1>2. SessionStages'
  BY DEF RemoveSession, sessionVars, SoundInv, SessionStages
<1>3. CreatorStages'
  BY DEF RemoveSession, Goto, sessionVars, SoundInv, CreatorStages, CreatePlaces
<1>4. DestroyerStages'
  <2>1. pc[t] = "remove" /\ t \in Threads /\ arg[t] \in closing
    BY DEF RemoveSession, SoundInv, IInv, RemoveCustody, Threads
  <2>2. arg[t] \in sessions
    BY <2>1 DEF SoundInv, IInv, RemoveCustody, Overtaken, MainCustody, Draining
  <2>3. dispatcher[arg[t]] = "running"
    BY <2>2 DEF SoundInv, SessionStages, IInv, TypeOK, ListTypes
  <2>4. Goto(t, "sweep", arg[t]) /\ UNCHANGED <<dispatcher, closing>>
    BY DEF RemoveSession, sessionVars
  <2>5. QED
    BY <2>1, <2>3, <2>4 DEF Goto, SoundInv, DestroyerStages
<1>5. Draining'
  BY DEF RemoveSession, Goto, queueVars, SoundInv, Draining, Enumerated
<1>6. IInv'
  BY RemoveSessionKeepsIInv DEF SoundInv
<1>7. QED
  BY <1>1, <1>2, <1>3, <1>4, <1>5, <1>6 DEF SoundInv

\* SoundInv is kept when its event objects are destroyed.
LEMMA SweepEventsKeepsSound ==
  ASSUME Sound, SoundInv, NEW t \in Callers, SweepEvents(t)
  PROVE  SoundInv'
<1>1. NothingLost'
  <2>1. /\ Goto(t, "mark", arg[t]) /\ UNCHANGED <<phase, sessions, destroyedSessions>>
        /\ \A x \in Sessions : Holds(t, x) => x = arg[t]
    BY SoundMeans DEF SweepEvents, listVars, Holds
  <2>2. QED
    BY <2>1, GotoLosesNothing DEF Threads, HolderPlaces
<1>2. SessionStages'
  BY DEF SweepEvents, listVars, SoundInv, SessionStages
<1>3. CreatorStages'
  BY DEF SweepEvents, Goto, Return, DestroyReturns, SoundInv, IInv, TypeOK,
     CallTypes, CreatorStages, CreatePlaces, Threads
<1>4. DestroyerStages'
  <2>1. Goto(t, "mark", arg[t]) /\ pc[t] = "sweep" /\ t \in Threads
    BY SoundMeans DEF SweepEvents, Threads
  <2>2. UNCHANGED <<dispatcher, closing>>
    BY DEF SweepEvents
  <2>3. QED
    BY <2>1, <2>2 DEF Goto, SoundInv, DestroyerStages
<1>5. Draining'
  BY ConnectionAssumption DEF Sound, SweepEvents, Goto, DestroyReturns,
     listVars, queueVars, SoundInv, IInv, TypeOK, CallTypes, Draining,
     Enumerated, Callers, Threads
<1>6. IInv'
  BY SweepEventsKeepsIInv DEF SoundInv
<1>7. QED
  BY <1>1, <1>2, <1>3, <1>4, <1>5, <1>6 DEF SoundInv

\* SoundInv is kept when it enters m_destroyedSessions.
LEMMA MarkDestroyedKeepsSound ==
  ASSUME Sound, SoundInv, NEW t \in Callers, MarkDestroyed(t)
  PROVE  SoundInv'
<1>1. NothingLost'
  <2>1. /\ destroyedSessions' = destroyedSessions \cup {arg[t]} /\ UNCHANGED <<phase, sessions>>
        /\ DestroyReturns(t, FALSE) /\ t \in Threads
        /\ \A x \in Sessions : Holds(t, x) => x = arg[t]
    BY SoundMeans DEF MarkDestroyed, sessionVars, Holds, Threads
  <2>2. PICK place \in {"idle", "each"} : Goto(t, place, None)
    BY <2>1, DestroyReturnsTo
  <2>3. QED
    BY <2>1, <2>2, GotoLosesNothing
<1>2. SessionStages'
  BY DEF MarkDestroyed, DestroyReturns, sessionVars, SoundInv, SessionStages,
     DestroyerStages, Threads
<1>3. CreatorStages'
  BY DEF MarkDestroyed, Goto, Return, DestroyReturns, sessionVars, SoundInv,
     IInv, TypeOK, CallTypes, CreatorStages, CreatePlaces, Threads
<1>4. DestroyerStages'
  BY DEF MarkDestroyed, Goto, Return, DestroyReturns, sessionVars, SoundInv,
     IInv, TypeOK, CallTypes, DestroyerStages
<1>5. Draining'
  BY ConnectionAssumption DEF MarkDestroyed, Goto, Return, DestroyReturns,
     queueVars, SoundInv, IInv, TypeOK, CallTypes, Draining, Enumerated,
     MainCustody, DestroyPlaces, Callers, Threads
<1>6. IInv'
  BY MarkDestroyedKeepsIInv DEF SoundInv
<1>7. QED
  BY <1>1, <1>2, <1>3, <1>4, <1>5, <1>6 DEF SoundInv

\* SoundInv is kept when the connection is destroyed.
LEMMA DestroyConnectionKeepsSound ==
  ASSUME Sound, SoundInv, DestroyConnection
  PROVE  SoundInv'
<1>1. NothingLost'
  BY DEF DestroyConnection, Goto, sessionVars, SoundInv, NothingLost, Holds,
     HolderPlaces, CreatePlaces
<1>2. SessionStages'
  BY DEF DestroyConnection, sessionVars, SoundInv, SessionStages
<1>3. CreatorStages'
  BY DEF Sound, DestroyConnection, Goto, CreatorStages, CreatePlaces, Callers
<1>4. DestroyerStages'
  BY DEF DestroyConnection, Goto, sessionVars, SoundInv, DestroyerStages
<1>5. Draining'
  BY DEF Sound, DestroyConnection, Goto, queueVars, SoundInv, IInv, TypeOK,
     CallTypes, Draining, Enumerated, Callers
<1>6. IInv'
  BY DestroyConnectionKeepsIInv DEF SoundInv
<1>7. QED
  BY <1>1, <1>2, <1>3, <1>4, <1>5, <1>6 DEF SoundInv

\* SoundInv is kept when destroyConnection comes to a session.
LEMMA EachSessionKeepsSound ==
  ASSUME Sound, SoundInv, EachSession
  PROVE  SoundInv'
<1>1. NothingLost'
  BY DEF EachSession, Goto, listVars, sessionVars, SoundInv, NothingLost, Holds,
     HolderPlaces, CreatePlaces
<1>2. SessionStages'
  <2>1. PICK s \in todo[Main] : closing' = closing \cup {s}
    BY DEF EachSession
  <2>2. s \in sessions
    BY <2>1 DEF SoundInv, IInv, MainCustody
  <2>3. phase[s] = "allocated"
    BY <2>2 DEF SoundInv, IInv, OneCustodian
  <2>4. UNCHANGED <<phase, dispatcher, objects, sessions, destroyedSessions>>
    BY DEF EachSession, sessionVars, listVars
  <2>5. QED
    BY <2>1, <2>3, <2>4 DEF SoundInv, SessionStages
<1>3. CreatorStages'
  <2>1. PICK s : Goto(Main, "remove", s)
    BY DEF EachSession
  <2>2. \A t \in Callers \ {Main} : pc[t] = "idle"
    BY DEF EachSession, SoundInv, Draining, IInv, MainCustody, MainPlaces
  <2>3. QED
    BY <2>1, <2>2 DEF Goto, SoundInv, IInv, TypeOK, CallTypes, Threads,
       CreatorStages, CreatePlaces
<1>4. DestroyerStages'
  BY DEF EachSession, Goto, sessionVars, SoundInv, DestroyerStages
<1>5. Draining'
  BY ConnectionAssumption DEF EachSession, Goto, listVars, queueVars, SoundInv,
     IInv, TypeOK, CallTypes, Draining, Enumerated, Callers, Threads
<1>6. IInv'
  BY EachSessionKeepsIInv DEF SoundInv
<1>7. QED
  BY <1>1, <1>2, <1>3, <1>4, <1>5, <1>6 DEF SoundInv

\* SoundInv is kept when destroyConnection has come to all of them.
LEMMA EnqueueDestroyAllKeepsSound ==
  ASSUME Sound, SoundInv, EnqueueDestroyAll
  PROVE  SoundInv'
<1>1. NothingLost'
  <2>1. PICK place \in {"waitAll", "idle"} : Goto(Main, place, None)
    BY DEF EnqueueDestroyAll, Return
  <2>2. /\ UNCHANGED <<phase, sessions, destroyedSessions>> /\ pc[Main] = "each"
        /\ \A x \in Sessions : ~Holds(Main, x)
    BY DEF EnqueueDestroyAll, sessionVars, Holds, HolderPlaces, CreatePlaces
  <2>3. QED
    BY <2>1, <2>2, GotoLosesNothing, ConnectionAssumption DEF Threads, Callers
<1>2. SessionStages'
  BY DEF EnqueueDestroyAll, sessionVars, SoundInv, SessionStages
<1>3. CreatorStages'
  <2>1. PICK place \in {"waitAll", "idle"} : Goto(Main, place, None)
    BY DEF EnqueueDestroyAll, Return
  <2>2. UNCHANGED <<dispatcher, closing, utility>>
    BY DEF EnqueueDestroyAll, sessionVars
  <2>3. QED
    BY <2>1, <2>2 DEF Goto, SoundInv, IInv, TypeOK, CallTypes, CreatorStages,
       CreatePlaces
<1>4. DestroyerStages'
  BY DEF EnqueueDestroyAll, Goto, Return, sessionVars, SoundInv, IInv, TypeOK,
     CallTypes, DestroyerStages
<1>5. Draining'
  BY ConnectionAssumption DEF EnqueueDestroyAll, Goto, Return, SoundInv, IInv,
     TypeOK, CallTypes, Draining, Enumerated, MainCustody, MainPlaces, Callers,
     Threads
<1>6. IInv'
  BY EnqueueDestroyAllKeepsIInv DEF SoundInv
<1>7. QED
  BY <1>1, <1>2, <1>3, <1>4, <1>5, <1>6 DEF SoundInv

\* SoundInv is kept when destroyConnection is told that they are gone.
LEMMA WaitDestroyedKeepsSound ==
  ASSUME Sound, SoundInv, WaitDestroyed
  PROVE  SoundInv'
<1>. Goto(Main, "freeConnection", None) /\ destroySynch
  BY SoundMeans DEF WaitDestroyed
<1>1. NothingLost'
  BY DEF WaitDestroyed, Goto, listVars, sessionVars, SoundInv, NothingLost,
     Holds, HolderPlaces, CreatePlaces
<1>2. SessionStages'
  BY DEF WaitDestroyed, listVars, sessionVars, SoundInv, SessionStages
<1>3. CreatorStages'
  BY DEF WaitDestroyed, Goto, sessionVars, SoundInv, CreatorStages, CreatePlaces
<1>4. DestroyerStages'
  BY DEF WaitDestroyed, Goto, sessionVars, SoundInv, DestroyerStages
<1>5. Draining'
  BY DEF WaitDestroyed, Goto, listVars, queueVars, SoundInv, Draining,
     Enumerated
<1>6. IInv'
  BY WaitDestroyedKeepsIInv DEF SoundInv
<1>7. QED
  BY <1>1, <1>2, <1>3, <1>4, <1>5, <1>6 DEF SoundInv

\* SoundInv is kept when the connection is freed.
LEMMA FreeConnectionKeepsSound ==
  ASSUME Sound, SoundInv, FreeConnection
  PROVE  SoundInv'
<1>1. NothingLost'
  BY DEF FreeConnection, Goto, Return, listVars, sessionVars, SoundInv,
     NothingLost, Holds, HolderPlaces, CreatePlaces
<1>2. SessionStages'
  BY DEF FreeConnection, listVars, sessionVars, SoundInv, SessionStages
<1>3. CreatorStages'
  BY DEF FreeConnection, Goto, Return, sessionVars, SoundInv, CreatorStages,
     CreatePlaces
<1>4. DestroyerStages'
  BY DEF FreeConnection, Goto, Return, sessionVars, SoundInv, DestroyerStages
<1>5. Draining'
  BY DEF FreeConnection, Goto, Return, listVars, SoundInv, Draining, Enumerated
<1>6. IInv'
  BY FreeConnectionKeepsIInv DEF SoundInv
<1>7. QED
  BY <1>1, <1>2, <1>3, <1>4, <1>5, <1>6 DEF SoundInv

\* SoundInv is kept when a session's dispatcher is started, or not.
LEMMA OnSessionCreateKeepsSound ==
  ASSUME Sound, SoundInv, WaitsAreSound, OnSessionCreate
  PROVE  SoundInv'
<1>1. NothingLost'
  BY DEF OnSessionCreate, listVars, SoundInv, NothingLost, Holds
<1>2. SessionStages'
  <2>1. PICK t \in Callers : t = Head(queue) /\ Created(t)
    BY HeadOfQueue
  <2>2. \A s \in Sessions \ {arg[t]} : dispatcher'[s] = dispatcher[s]
    BY <2>1 DEF OnSessionCreate, EventSession, PointsToCall, Created, SoundInv, IInv,
       TypeOK, SessionTypes
  <2>3. UNCHANGED <<phase, objects, sessions, destroyedSessions, closing>>
    BY DEF OnSessionCreate, listVars
  <2>4. QED
    BY <2>1, <2>2, <2>3 DEF Created, SoundInv, SessionStages
<1>3. CreatorStages'
  <2>1. PICK t \in Callers : t = Head(queue) /\ Created(t)
    BY HeadOfQueue
  <2>2. \/ /\ dispatcher' = [dispatcher EXCEPT ![arg[t]] = "running"]
           /\ utility' = [utility EXCEPT ![t] = "OK"]
        \/ /\ utility' = [utility EXCEPT ![t] = "failed"]
           /\ UNCHANGED dispatcher
    BY <2>1 DEF OnSessionCreate, EventSession, PointsToCall, Signal, Created
  <2>3. UNCHANGED <<pc, arg, closing>>
    BY DEF OnSessionCreate
  <2>4. ASSUME NEW u \in Callers, u # t, pc[u] \in CreatePlaces
        PROVE  arg[u] \in Sessions /\ arg[u] # arg[t]
    BY <2>1, <2>4 DEF Created, Holds, HolderPlaces, SoundInv, IInv, OneCustodian,
       RemoveCustody, WorksOnSession, Threads
  <2>5. dispatcher \in [Sessions -> {"none", "running", "stopped"}]
        /\ utility \in [Callers -> {"none", "pending", "OK", "failed"}]
    BY DEF SoundInv, IInv, TypeOK, SessionTypes, CallTypes
  <2>6. pc[t] = "wait" /\ arg[t] \in Sessions /\ dispatcher[arg[t]] = "none"
    BY <2>1 DEF Created
  <2>7. ASSUME NEW u \in Callers, u # t, pc[u] \in CreatePlaces
        PROVE  dispatcher'[arg[u]] = dispatcher[arg[u]] /\ utility'[u] = utility[u]
    BY <2>2, <2>4, <2>5, <2>6, <2>7
  <2>8. dispatcher'[arg[t]] = IF utility'[t] = "OK" THEN "running" ELSE "none"
    BY <2>2, <2>5, <2>6
  <2>9. QED
    BY <2>3, <2>6, <2>7, <2>8 DEF SoundInv, CreatorStages
<1>4. DestroyerStages'
  BY DEF OnSessionCreate, SoundInv, IInv, TypeOK, ListTypes, SessionTypes,
     CallTypes, DestroyerStages, ObjPlaces, Threads
<1>5. Draining'
  <2>1. queue' = Tail(queue) /\ queue \in Seq(Threads) /\ queue # <<>>
    BY DEF OnSessionCreate, TakeEvent, SoundInv, IInv, TypeOK, ListTypes
  <2>2. (\E i \in 1..Len(queue') : queue'[i] = Obj) =>
          \E i \in 1..Len(queue) : queue[i] = Obj
    <3> SUFFICES ASSUME NEW i \in 1..Len(queue'), queue'[i] = Obj
                 PROVE  \E k \in 1..Len(queue) : queue[k] = Obj
      OBVIOUS
    <3>1. i + 1 \in 1..Len(queue) /\ queue[i + 1] = Obj
      BY <2>1
    <3>2. QED
      BY <3>1
  <2>3. QED
    BY <2>2 DEF OnSessionCreate, listVars, SoundInv, Draining, Enumerated
<1>6. IInv'
  BY OnSessionCreateKeepsIInv DEF SoundInv
<1>7. QED
  BY <1>1, <1>2, <1>3, <1>4, <1>5, <1>6 DEF SoundInv

\* SoundInv is kept when the session timer ticks.
LEMMA OnSessionTimerTickKeepsSound ==
  ASSUME Sound, SoundInv, OnSessionTimerTick
  PROVE  SoundInv'
<1>1. NothingLost'
  BY DEF OnSessionTimerTick, Goto, EnumerateDestroyed, sessionVars, SoundInv,
     NothingLost, Holds, HolderPlaces, CreatePlaces
<1>2. SessionStages'
  BY DEF OnSessionTimerTick, sessionVars, SoundInv, SessionStages
<1>3. CreatorStages'
  BY ConnectionAssumption DEF OnSessionTimerTick, Goto, EnumerateDestroyed,
     sessionVars, SoundInv, CreatorStages
<1>4. DestroyerStages'
  BY DEF OnSessionTimerTick, Goto, EnumerateDestroyed, sessionVars, SoundInv,
     DestroyerStages
<1>5. Draining'
  BY DEF OnSessionTimerTick, Goto, EnumerateDestroyed, queueVars, SoundInv,
     IInv, Draining, Enumerated, ObjCustody
<1>6. IInv'
  BY OnSessionTimerTickKeepsIInv DEF SoundInv
<1>7. QED
  BY <1>1, <1>2, <1>3, <1>4, <1>5, <1>6 DEF SoundInv

\* SoundInv is kept when the object dispatcher begins to destroy all sessions.
LEMMA OnDestroyAllSessionsKeepsSound ==
  ASSUME Sound, SoundInv, OnDestroyAllSessions
  PROVE  SoundInv'
<1>1. NothingLost'
  <2>1. PICK place \in {"signal", "enumerate"} : Goto(Obj, place, None)
    BY DEF OnDestroyAllSessions, EnumerateDestroyed
  <2>2. \A u \in Threads, x \in Sessions : Holds(u, x) => Holds(u, x)'
    <3>1. pc[Obj] = "idle" /\ Obj \in Threads /\ CallTypes
      BY DEF OnDestroyAllSessions, SoundInv, IInv, TypeOK, Threads
    <3>2. \A x \in Sessions : ~Holds(Obj, x)
      BY <3>1 DEF Holds, HolderPlaces, CreatePlaces
    <3>3. QED
      BY <2>1, <3>1, <3>2, GotoHolds
  <2>3. UNCHANGED <<phase, sessions, destroyedSessions>>
    BY DEF OnDestroyAllSessions, sessionVars
  <2>4. QED
    BY <2>2, <2>3 DEF SoundInv, NothingLost
<1>2. SessionStages'
  BY DEF OnDestroyAllSessions, sessionVars, SoundInv, SessionStages
<1>3. CreatorStages'
  BY ConnectionAssumption DEF OnDestroyAllSessions, Goto, EnumerateDestroyed,
     sessionVars, SoundInv, IInv, TypeOK, CallTypes, CreatorStages, Threads
<1>4. DestroyerStages'
  BY DEF OnDestroyAllSessions, Goto, EnumerateDestroyed, sessionVars, SoundInv,
     IInv, TypeOK, CallTypes, DestroyerStages
<1>5. Draining'
  BY ConnectionAssumption DEF OnDestroyAllSessions, Goto, EnumerateDestroyed,
     SoundInv, IInv, TypeOK, CallTypes, Draining, Enumerated, Callers, Threads
<1>6. IInv'
  BY OnDestroyAllSessionsKeepsIInv DEF SoundInv
<1>7. QED
  BY <1>1, <1>2, <1>3, <1>4, <1>5, <1>6 DEF SoundInv

\* SoundInv is kept when a session still has event objects.
LEMMA SkipSessionKeepsSound ==
  ASSUME Sound, SoundInv, SkipSession
  PROVE  SoundInv'
<1>1. NothingLost'
  BY DEF SkipSession, listVars, sessionVars, SoundInv, NothingLost, Holds
<1>2. SessionStages'
  BY DEF SkipSession, listVars, sessionVars, SoundInv, SessionStages
<1>3. CreatorStages'
  BY DEF SkipSession, sessionVars, SoundInv, CreatorStages
<1>4. DestroyerStages'
  BY DEF SkipSession, sessionVars, SoundInv, DestroyerStages
<1>5. Draining'
  BY DEF SkipSession, listVars, queueVars, SoundInv, IInv, Draining, Enumerated,
     MainCustody, DestroyPlaces
<1>6. IInv'
  BY SkipSessionKeepsIInv DEF SoundInv
<1>7. QED
  BY <1>1, <1>2, <1>3, <1>4, <1>5, <1>6 DEF SoundInv

\* SoundInv is kept when a session leaves m_destroyedSessions.
LEMMA TakeSessionKeepsSound ==
  ASSUME Sound, SoundInv, TakeSession
  PROVE  SoundInv'
<1>1. NothingLost'
  <2>1. PICK s \in todo[Obj] :
          destroyedSessions' = destroyedSessions \ {s} /\ Goto(Obj, "stop", s)
    BY DEF TakeSession
  <2>2. /\ UNCHANGED <<phase, sessions>> /\ pc[Obj] = "enumerate"
        /\ \A x \in Sessions : ~Holds(Obj, x)
    BY DEF TakeSession, sessionVars, Holds, HolderPlaces, CreatePlaces
  <2>3. QED
    BY <2>1, <2>2, GotoLosesNothing DEF Threads, HolderPlaces
<1>2. SessionStages'
  BY DEF TakeSession, sessionVars, SoundInv, SessionStages
<1>3. CreatorStages'
  BY DEF TakeSession, Goto, sessionVars, SoundInv, IInv, TypeOK, CallTypes,
     CreatorStages
<1>4. DestroyerStages'
  BY DEF TakeSession, Goto, sessionVars, SoundInv, IInv, TypeOK, CallTypes,
     DestroyerStages, SessionStages, ObjCustody
<1>5. Draining'
  BY DEF TakeSession, Goto, queueVars, SoundInv, IInv, Draining, Enumerated,
     MainCustody, DestroyPlaces
<1>6. IInv'
  BY TakeSessionKeepsIInv DEF SoundInv
<1>7. QED
  BY <1>1, <1>2, <1>3, <1>4, <1>5, <1>6 DEF SoundInv

\* SoundInv is kept when its dispatcher is stopped.
LEMMA StopSessionKeepsSound ==
  ASSUME Sound, SoundInv, StopSession
  PROVE  SoundInv'
<1>1. NothingLost'
  BY DEF Sound, StopSession, Goto, listVars, SoundInv, IInv, TypeOK, CallTypes,
     NothingLost, Holds, HolderPlaces
<1>2. SessionStages'
  BY DEF StopSession, listVars, SoundInv, IInv, TypeOK, SessionTypes,
     SessionStages, OneCustodian, StopIsFree, Holds, HolderPlaces, Threads
<1>3. CreatorStages'
  BY DEF StopSession, Goto, SoundInv, IInv, TypeOK, SessionTypes, CallTypes,
     CreatorStages, OneCustodian, RemoveCustody, WorksOnSession, Holds, HolderPlaces,
     Threads
<1>4. DestroyerStages'
  BY DEF StopSession, Goto, SoundInv, IInv, TypeOK, ListTypes, SessionTypes,
     CallTypes, DestroyerStages, OneCustodian, Holds, HolderPlaces, Threads
<1>5. Draining'
  BY ConnectionAssumption DEF StopSession, Goto, listVars, queueVars, SoundInv,
     IInv, TypeOK, CallTypes, Draining, Enumerated, Callers, Threads
<1>6. IInv'
  BY StopSessionKeepsIInv DEF SoundInv
<1>7. QED
  BY <1>1, <1>2, <1>3, <1>4, <1>5, <1>6 DEF SoundInv

\* SoundInv is kept when it is freed.
LEMMA FreeSessionKeepsSound ==
  ASSUME Sound, SoundInv, FreeSession
  PROVE  SoundInv'
<1>1. NothingLost'
  BY DEF FreeSession, Goto, Deallocate, listVars, SoundInv, IInv, TypeOK,
     SessionTypes, NothingLost, Holds
<1>2. SessionStages'
  BY DEF FreeSession, Deallocate, listVars, SoundInv, SessionStages,
     DestroyerStages, Threads
<1>3. CreatorStages'
  BY DEF FreeSession, Goto, SoundInv, IInv, TypeOK, CallTypes, CreatorStages
<1>4. DestroyerStages'
  BY DEF FreeSession, Goto, SoundInv, IInv, TypeOK, CallTypes, DestroyerStages
<1>5. Draining'
  BY DEF FreeSession, Goto, listVars, queueVars, SoundInv, Draining, Enumerated
<1>6. IInv'
  BY FreeSessionKeepsIInv DEF SoundInv
<1>7. QED
  BY <1>1, <1>2, <1>3, <1>4, <1>5, <1>6 DEF SoundInv

\* SoundInv is kept when an enumeration ends.
LEMMA EndEnumerateKeepsSound ==
  ASSUME Sound, SoundInv, EndEnumerate
  PROVE  SoundInv'
<1>1. NothingLost'
  BY DEF EndEnumerate, Goto, sessionVars, SoundInv, NothingLost, Holds,
     HolderPlaces, CreatePlaces
<1>2. SessionStages'
  BY DEF EndEnumerate, sessionVars, SoundInv, SessionStages
<1>3. CreatorStages'
  BY DEF EndEnumerate, Goto, sessionVars, SoundInv, IInv, TypeOK, CallTypes,
     CreatorStages
<1>4. DestroyerStages'
  BY DEF EndEnumerate, Goto, sessionVars, SoundInv, DestroyerStages
<1>5. Draining'
  BY DEF EndEnumerate, Goto, queueVars, SoundInv, Draining, Enumerated
<1>6. IInv'
  BY EndEnumerateKeepsIInv DEF SoundInv
<1>7. QED
  BY <1>1, <1>2, <1>3, <1>4, <1>5, <1>6 DEF SoundInv

\* SoundInv is kept when the enumeration begins again.
LEMMA TimedDispatchReturnsKeepsSound ==
  ASSUME Sound, SoundInv, TimedDispatchReturns
  PROVE  SoundInv'
<1>1. NothingLost'
  <2>1. /\ Goto(Obj, "enumerate", None) /\ UNCHANGED <<phase, sessions, destroyedSessions>>
        /\ pc[Obj] = "timedDispatch"
    BY SoundMeans DEF TimedDispatchReturns, EnumerateDestroyed, sessionVars
  <2>2. \A x \in Sessions : ~Holds(Obj, x)
    BY <2>1 DEF Holds, HolderPlaces, CreatePlaces
  <2>3. QED
    BY <2>1, <2>2, GotoLosesNothing DEF Threads
<1>2. SessionStages'
  BY DEF TimedDispatchReturns, sessionVars, SoundInv, SessionStages
<1>3. CreatorStages'
  <2>1. Goto(Obj, "enumerate", None) /\ UNCHANGED <<dispatcher, closing, utility>>
    BY SoundMeans DEF TimedDispatchReturns, EnumerateDestroyed, sessionVars
  <2>2. QED
    BY <2>1, ConnectionAssumption DEF Goto, SoundInv, CreatorStages
<1>4. DestroyerStages'
  BY DEF TimedDispatchReturns, Goto, EnumerateDestroyed, sessionVars, SoundInv,
     IInv, TypeOK, CallTypes, DestroyerStages
<1>5. Draining'
  BY ConnectionAssumption DEF Sound, TimedDispatchReturns, Goto,
     EnumerateDestroyed, queueVars, SoundInv, IInv, TypeOK, CallTypes, Draining,
     Enumerated, Callers, Threads
<1>6. IInv'
  BY TimedDispatchReturnsKeepsIInv DEF SoundInv
<1>7. QED
  BY <1>1, <1>2, <1>3, <1>4, <1>5, <1>6 DEF SoundInv

\* SoundInv is kept when m_destroySynch is signaled.
LEMMA SignalDestroyedKeepsSound ==
  ASSUME Sound, SoundInv, SignalDestroyed
  PROVE  SoundInv'
<1>1. NothingLost'
  BY DEF SignalDestroyed, Goto, listVars, sessionVars, SoundInv, NothingLost,
     Holds, HolderPlaces, CreatePlaces
<1>2. SessionStages'
  BY DEF SignalDestroyed, listVars, sessionVars, SoundInv, SessionStages
<1>3. CreatorStages'
  BY DEF SignalDestroyed, Goto, sessionVars, SoundInv, IInv, TypeOK, CallTypes,
     CreatorStages
<1>4. DestroyerStages'
  BY DEF SignalDestroyed, Goto, sessionVars, SoundInv, DestroyerStages
<1>5. Draining'
  BY DEF SignalDestroyed, Goto, listVars, SoundInv, IInv, TypeOK, CallTypes,
     Draining, Enumerated, Threads
<1>6. IInv'
  BY SignalDestroyedKeepsIInv DEF SoundInv
<1>7. QED
  BY <1>1, <1>2, <1>3, <1>4, <1>5, <1>6 DEF SoundInv

\* SoundInv is kept when an event object is created.
LEMMA CreateObjectKeepsSound ==
  ASSUME Sound, SoundInv, NEW s \in Sessions, CreateObject(s)
  PROVE  SoundInv'
<1>1. NothingLost'
  BY DEF CreateObject, listVars, callVars, SoundInv, NothingLost, Holds
<1>2. SessionStages'
  BY DEF CreateObject, listVars, SoundInv, SessionStages
<1>3. CreatorStages'
  BY DEF CreateObject, callVars, SoundInv, CreatorStages
<1>4. DestroyerStages'
  BY DEF CreateObject, callVars, SoundInv, DestroyerStages
<1>5. Draining'
  BY DEF CreateObject, listVars, queueVars, callVars, SoundInv, Draining,
     Enumerated
<1>6. IInv'
  BY CreateObjectKeepsIInv DEF SoundInv
<1>7. QED
  BY <1>1, <1>2, <1>3, <1>4, <1>5, <1>6 DEF SoundInv

\* SoundInv is kept when a callback begins.
LEMMA BeginCallbackKeepsSound ==
  ASSUME Sound, SoundInv, NEW s \in Sessions, BeginCallback(s)
  PROVE  SoundInv'
<1>1. NothingLost'
  BY DEF BeginCallback, listVars, callVars, SoundInv, NothingLost, Holds
<1>2. SessionStages'
  BY DEF BeginCallback, listVars, SoundInv, SessionStages
<1>3. CreatorStages'
  BY DEF BeginCallback, callVars, SoundInv, CreatorStages
<1>4. DestroyerStages'
  BY DEF BeginCallback, callVars, SoundInv, DestroyerStages
<1>5. Draining'
  BY DEF BeginCallback, listVars, queueVars, callVars, SoundInv, Draining,
     Enumerated
<1>6. IInv'
  BY BeginCallbackKeepsIInv DEF SoundInv
<1>7. QED
  BY <1>1, <1>2, <1>3, <1>4, <1>5, <1>6 DEF SoundInv

\* SoundInv is kept when a callback returns.
LEMMA EndCallbackKeepsSound ==
  ASSUME Sound, SoundInv, NEW s \in Sessions, EndCallback(s)
  PROVE  SoundInv'
<1>1. NothingLost'
  BY DEF EndCallback, listVars, callVars, SoundInv, NothingLost, Holds
<1>2. SessionStages'
  BY DEF EndCallback, listVars, SoundInv, SessionStages
<1>3. CreatorStages'
  BY DEF EndCallback, callVars, SoundInv, CreatorStages
<1>4. DestroyerStages'
  BY DEF EndCallback, callVars, SoundInv, DestroyerStages
<1>5. Draining'
  BY DEF EndCallback, listVars, queueVars, callVars, SoundInv, Draining,
     Enumerated
<1>6. IInv'
  BY EndCallbackKeepsIInv DEF SoundInv
<1>7. QED
  BY <1>1, <1>2, <1>3, <1>4, <1>5, <1>6 DEF SoundInv

\* SoundInv is kept when the event objects are gone.
LEMMA FinaliseObjectsKeepsSound ==
  ASSUME Sound, SoundInv, NEW s \in Sessions, FinaliseObjects(s)
  PROVE  SoundInv'
<1>1. NothingLost'
  BY DEF FinaliseObjects, listVars, callVars, SoundInv, NothingLost, Holds
<1>2. SessionStages'
  BY DEF FinaliseObjects, listVars, SoundInv, SessionStages
<1>3. CreatorStages'
  BY DEF FinaliseObjects, callVars, SoundInv, CreatorStages
<1>4. DestroyerStages'
  BY DEF FinaliseObjects, callVars, SoundInv, DestroyerStages
<1>5. Draining'
  BY DEF FinaliseObjects, listVars, queueVars, callVars, SoundInv, Draining,
     Enumerated
<1>6. IInv'
  BY FinaliseObjectsKeepsIInv DEF SoundInv
<1>7. QED
  BY <1>1, <1>2, <1>3, <1>4, <1>5, <1>6 DEF SoundInv

-----------------------------------------------------------------------------
(* The stronger invariant, and what it means.                              *)

\* SoundInv holds at first.
LEMMA InitSound ==
  ASSUME Init
  PROVE  SoundInv
<1>1. IInv
  BY InitIInv
<1>2. NothingLost /\ SessionStages
  BY DEF Init, NothingLost, SessionStages
<1>3. CreatorStages /\ DestroyerStages
  BY DEF Init, CreatorStages, DestroyerStages, CreatePlaces, Threads
<1>4. Draining
  BY ConnectionAssumption DEF Init, Draining, Threads, Callers
<1>5. QED
  BY <1>1, <1>2, <1>3, <1>4 DEF SoundInv

\* SoundInv is kept when nothing happens.
LEMMA StutterKeepsSound ==
  ASSUME SoundInv, UNCHANGED vars
  PROVE  SoundInv'
<1>1. IInv'
  BY StutterKeepsIInv DEF SoundInv
<1>2. NothingLost' /\ SessionStages'
  BY DEF vars, SoundInv, NothingLost, Holds, SessionStages
<1>3. CreatorStages' /\ DestroyerStages'
  BY DEF vars, SoundInv, CreatorStages, DestroyerStages
<1>4. Draining'
  BY DEF vars, SoundInv, Draining, Enumerated
<1>5. QED
  BY <1>1, <1>2, <1>3, <1>4 DEF SoundInv

\* SoundInv is kept when any step is taken.
LEMMA NextKeepsSound ==
  ASSUME Sound
  PROVE  SoundInv /\ WaitsAreSound /\ [Next]_vars => SoundInv'
<1> SUFFICES ASSUME SoundInv, WaitsAreSound, [Next]_vars PROVE SoundInv'
  OBVIOUS
<1>1. ASSUME NEW t \in Callers, Begin(t)
      PROVE  SoundInv'
  BY <1>1, AllocateSessionKeepsSound, DestroySessionKeepsSound DEF Begin
<1>2. ASSUME NEW t \in Callers, Continue(t) \/ Contend(t)
      PROVE  SoundInv'
  BY <1>2, EnqueueCreateKeepsSound, WaitCreatedKeepsSound, AddSessionKeepsSound,
     RemoveSessionKeepsSound, SweepEventsKeepsSound, MarkDestroyedKeepsSound
  DEF Continue, Contend
<1>3. ASSUME DestroyConnection \/ ContinueDestroy
      PROVE  SoundInv'
  BY <1>3, DestroyConnectionKeepsSound, EachSessionKeepsSound,
     EnqueueDestroyAllKeepsSound, WaitDestroyedKeepsSound,
     FreeConnectionKeepsSound DEF ContinueDestroy
<1>4. ASSUME OnSessionCreate \/ OnSessionTimerTick \/ OnDestroyAllSessions
      PROVE  SoundInv'
  BY <1>4, OnSessionCreateKeepsSound, OnSessionTimerTickKeepsSound,
     OnDestroyAllSessionsKeepsSound
<1>5. ASSUME Enumerate
      PROVE  SoundInv'
  BY <1>5, SkipSessionKeepsSound, TakeSessionKeepsSound, StopSessionKeepsSound,
     FreeSessionKeepsSound, EndEnumerateKeepsSound,
     TimedDispatchReturnsKeepsSound, SignalDestroyedKeepsSound DEF Enumerate
<1>6. ASSUME NEW s \in Sessions, Objects(s)
      PROVE  SoundInv'
  BY <1>6, CreateObjectKeepsSound, BeginCallbackKeepsSound,
     EndCallbackKeepsSound, FinaliseObjectsKeepsSound DEF Objects
<1>7. CASE UNCHANGED vars
  BY <1>7, StutterKeepsSound
<1>8. ASSUME NEW t \in Callers, ReuseElement(t)
      PROVE  FALSE
  BY <1>8, SoundMeans DEF ReuseElement
<1>9. QED
  BY <1>1, <1>2, <1>3, <1>4, <1>5, <1>6, <1>7, <1>8 DEF Next

\* The invariant holds in every behaviour when no step of destruction fails and no
\* callback calls the API while the connection is destroyed.
THEOREM SoundInvAlways == Sound => (Spec => [](SoundInv /\ WaitsAreSound))
<1> SUFFICES ASSUME Sound PROVE Spec => [](SoundInv /\ WaitsAreSound)
  OBVIOUS
<1>1. Init => SoundInv /\ WaitsAreSound
  BY InitSound DEF Init, WaitsAreSound
<1>2. SoundInv /\ WaitsAreSound /\ [Next]_vars => (SoundInv /\ WaitsAreSound)'
  BY NextKeepsSound, WaitsStaySound
<1>3. QED
  BY <1>1, <1>2, PTL DEF Spec

\* No session is lost on its way from createSession to mamaEnvSession_deallocate.
THEOREM NothingLostAlways == Sound => (Spec => []NothingLost)
<1> SUFFICES ASSUME Sound PROVE Spec => []NothingLost
  OBVIOUS
<1>1. SoundInv => NothingLost
  BY DEF SoundInv
<1>2. Spec => [](SoundInv /\ WaitsAreSound)
  BY SoundInvAlways
<1>3. QED
  BY <1>1, <1>2, PTL

\* When the connection is about to be freed, or has been, no session is left.
LEMMA NoneLeft ==
  ASSUME SoundInv, pc[Main] = "freeConnection" \/ connection = "freed",
         connection = "open" => pc[Obj] = "idle"
  PROVE  \A s \in Sessions : phase[s] # "allocated"
<1>1. Enumerated /\ sessions = {} /\ destroyedSessions = {} /\ pc[Obj] \in {"idle", "signal"}
  BY DEF SoundInv, Draining
<1>2. \A t \in Callers \ {Main} : pc[t] = "idle"
  BY <1>1 DEF SoundInv, Draining, Enumerated
<1>3. pc[Main] \notin HolderPlaces
  BY <1>1, ConnectionAssumption DEF Enumerated, SoundInv, IInv, MainCustody,
     HolderPlaces, DestroyPlaces, TypeOK, CallTypes, ObjPlaces, Callers
<1>4. \A t \in Threads : pc[t] \notin HolderPlaces
  BY <1>1, <1>2, <1>3 DEF Threads, HolderPlaces, CreatePlaces
<1>5. QED
  BY <1>1, <1>4 DEF SoundInv, NothingLost, Holds

\* When the connection has been freed no dispatcher of a session runs.
THEOREM AllDestroyedAlways == Sound => (Spec => []AllDestroyed)
<1> SUFFICES ASSUME Sound PROVE Spec => []AllDestroyed
  OBVIOUS
<1>1. SoundInv => AllDestroyed
  <2> SUFFICES ASSUME SoundInv, connection = "freed" PROVE AllDestroyed
    BY DEF AllDestroyed
  <2>1. \A s \in Sessions : phase[s] # "allocated"
    BY NoneLeft
  <2>2. QED
    BY <2>1 DEF SoundInv, SessionStages, AllDestroyed, IInv, TypeOK,
       SessionTypes
<1>2. Spec => [](SoundInv /\ WaitsAreSound)
  BY SoundInvAlways
<1>3. QED
  BY <1>1, <1>2, PTL

-----------------------------------------------------------------------------
(* Nobody waits in a circle.                                               *)

\* The object dispatcher waits for nobody.
LEMMA ObjWaitsForNobody ==
  ASSUME SoundInv
  PROVE  WaitsFor(Obj) = NoThread
  BY ConnectionAssumption
  DEF WaitsFor, SoundInv, IInv, TypeOK, CallTypes, ObjPlaces, StopIsFree

\* Who is idle waits for nobody.
LEMMA IdleWaitsForNobody ==
  ASSUME NEW t, pc[t] = "idle"
  PROVE  WaitsFor(t) = NoThread
  BY DEF WaitsFor

\* Another caller waits for a list, for the object dispatcher, or, when it has come
\* to the event objects of a session, for the session's callback.
LEMMA CallerWaits ==
  ASSUME SoundInv, NEW t \in Callers
  PROVE  \/ WaitsFor(t) \in {NoThread, sessionsLock, Obj}
         \/ /\ pc[t] = "sweep" /\ WaitsFor(t) = arg[t]
            /\ arg[t] \in Sessions /\ t # arg[t]
<1>1. destroyedLock \in {Obj, NoThread} /\ pc[t] \in Places \ ObjPlaces
  BY DEF SoundInv, IInv, TypeOK, ListTypes, CallTypes, Threads
<1>2. pc[t] = "sweep" => arg[t] \in Sessions
  BY DEF SoundInv, IInv, RemoveCustody, WorksOnSession, DestroyPlaces, Threads
<1>3. QED
  BY <1>1, <1>2 DEF WaitsFor, Places, CreatePlaces, DestroyPlaces, MainPlaces,
     ObjPlaces

\* In any set of threads there is one that waits for none of them.
LEMMA SomebodyGoesOn ==
  ASSUME SoundInv, NEW S \in SUBSET Threads, S # {}
  PROVE  \E t \in S : WaitsFor(t) \notin S
<1> SUFFICES ASSUME \A t \in S : WaitsFor(t) \in S
             PROVE  FALSE
  OBVIOUS
<1>1. Obj \notin S /\ NoThread \notin S
  BY ObjWaitsForNobody, ConnectionAssumption
<1>2. \A t \in S : pc[t] # "idle" /\ t \in Callers
  BY <1>1, IdleWaitsForNobody DEF Threads
<1>3. PICK t \in S : TRUE
  OBVIOUS
<1>4. CASE sessionsLock = Main
  <2>1. ~timer
    BY <1>4 DEF SoundInv, IInv, MainCustody, MainPlaces
  <2>2. S = {Main}
    BY <1>2, <2>1 DEF SoundInv, Draining
  <2>3. WaitsFor(Main) # Main
    BY ConnectionAssumption DEF WaitsFor, Callers, Threads
  <2>4. QED
    BY <2>2, <2>3
<1>5. CASE sessionsLock # Main
  <2>1. sessionsLock = NoThread
    BY <1>5 DEF SoundInv, IInv, TypeOK, ListTypes
  <2>2. \A u \in S : pc[u] = "sweep" /\ WaitsFor(u) = arg[u] /\ arg[u] \in Sessions /\ u # arg[u]
    BY <1>1, <1>2, <2>1, CallerWaits
  <2>3. arg[t] \in S /\ arg[t] \in Sessions /\ pc[arg[t]] = "sweep" /\ arg[arg[t]] # arg[t]
    BY <1>3, <2>2
  <2>4. QED
    BY <2>3 DEF SoundInv, IInv, CallbackCustody, DestroyPlaces
<1>6. QED
  BY <1>4, <1>5

\* No threads wait for one another in a circle.
THEOREM NoCircularWaitAlways == Sound => (Spec => []NoCircularWait)
<1> SUFFICES ASSUME Sound PROVE Spec => []NoCircularWait
  OBVIOUS
<1>1. SoundInv => NoCircularWait
  BY SomebodyGoesOn DEF NoCircularWait
<1>2. Spec => [](SoundInv /\ WaitsAreSound)
  BY SoundInvAlways
<1>3. QED
  BY <1>1, <1>2, PTL

-----------------------------------------------------------------------------
(* The refinement.                                                         *)

\* A step in which no session changes its stage, gets its first event object or
\* loses its last is none of SessionLifecycle's.
LEMMA KeptStutters ==
  ASSUME UNCHANGED connection, \A s \in Sessions : Stage(s)' = Stage(s),
         \A s \in Sessions : objects'[s] # "none" <=> objects[s] # "none"
  PROVE  UNCHANGED Lifecycle!vars
  BY DEF Lifecycle!vars

\* A step in which one session changes its stage.
LEMMA StageMoves ==
  ASSUME NEW s \in Sessions, NEW from, NEW to, UNCHANGED <<connection, objects>>,
         Stage(s) = from, Stage(s)' = to,
         \A x \in Sessions : x # s => Stage(x)' = Stage(x)
  PROVE  Lifecycle!Move(s, from, to)
<1>1. [x \in Sessions |-> Stage(x)]' = [[x \in Sessions |-> Stage(x)] EXCEPT ![s] = to]
  OBVIOUS
<1>2. QED
  BY <1>1 DEF Lifecycle!Move

\* A new session is created.
LEMMA AllocateSessionRefines ==
  ASSUME Sound, SoundInv, NEW t \in Callers, NEW s \in Sessions, AllocateSession(t, s)
  PROVE  Lifecycle!Create(s)
<1>1. /\ connection = "open" /\ phase[s] = "none" /\ phase' = [phase EXCEPT ![s] = "allocated"]
      /\ UNCHANGED <<connection, objects, dispatcher, closing>>
  BY DEF AllocateSession, CanCall
<1>2. dispatcher[s] = "none"
  BY <1>1 DEF SoundInv, SessionStages
<1>3. \A x \in Sessions : phase'[x] = IF x = s THEN "allocated" ELSE phase[x]
  BY <1>1 DEF SoundInv, IInv, TypeOK, SessionTypes
<1>4. Lifecycle!Move(s, "absent", "creating")
  BY <1>1, <1>2, <1>3, StageMoves DEF Stage
<1>5. QED
  BY <1>1, <1>4 DEF Lifecycle!Create

\* Who creates a session frees it when that fails.
LEMMA CreatorFrees ==
  ASSUME SoundInv, NEW t \in Callers, pc[t] \in CreatePlaces,
         pc[t] # "add" /\ utility[t] # "OK", Deallocate(arg[t]),
         UNCHANGED <<connection, objects, dispatcher, closing>>
  PROVE  \E s \in Sessions : Lifecycle!CreateFails(s)
<1>1. arg[t] \in Sessions /\ Holds(t, arg[t]) /\ t \in Threads
  BY DEF SoundInv, IInv, RemoveCustody, WorksOnSession, Holds, HolderPlaces,
     Threads
<1>2. phase[arg[t]] = "allocated" /\ dispatcher[arg[t]] = "none"
  BY <1>1 DEF SoundInv, IInv, OneCustodian, CreatorStages
<1>3. \A x \in Sessions : phase'[x] = IF x = arg[t] THEN "freed" ELSE phase[x]
  BY DEF Deallocate, SoundInv, IInv, TypeOK, SessionTypes
<1>4. Lifecycle!Move(arg[t], "creating", "gone")
  BY <1>1, <1>2, <1>3, StageMoves DEF Stage
<1>5. QED
  BY <1>1, <1>4 DEF Lifecycle!CreateFails

\* The create event is put into the queue, or the creation fails.
LEMMA EnqueueCreateRefines ==
  ASSUME SoundInv, NEW t \in Callers, EnqueueCreate(t)
  PROVE  UNCHANGED Lifecycle!vars \/ \E s \in Sessions : Lifecycle!CreateFails(s)
<1>1. pc[t] = "enqueue" /\ UNCHANGED <<connection, objects, dispatcher, closing>>
  BY DEF EnqueueCreate
<1>2. utility[t] # "OK"
  BY <1>1 DEF SoundInv, IInv, UtilityCustody
<1>3. UNCHANGED phase \/ Deallocate(arg[t])
  BY DEF EnqueueCreate
<1>4. QED
  BY <1>1, <1>2, <1>3, KeptStutters, CreatorFrees DEF Stage, CreatePlaces

\* createSession has been told the outcome.
LEMMA WaitCreatedRefines ==
  ASSUME Sound, SoundInv, NEW t \in Callers, WaitCreated(t)
  PROVE  UNCHANGED Lifecycle!vars \/ \E s \in Sessions : Lifecycle!CreateFails(s)
<1>1. pc[t] = "wait" /\ UNCHANGED <<connection, objects, dispatcher, closing>>
  BY DEF WaitCreated
<1>2. UNCHANGED phase \/ (utility[t] = "failed" /\ Deallocate(arg[t]))
  BY SoundMeans DEF WaitCreated
<1>3. QED
  BY <1>1, <1>2, KeptStutters, CreatorFrees DEF Stage, CreatePlaces

\* A session that is open is destroyed.
LEMMA BeginsToClose ==
  ASSUME SoundInv, NEW s \in sessions, s \notin closing, closing' = closing \cup {s},
         UNCHANGED <<connection, sessionVars>>
  PROVE  Lifecycle!Destroy(s)
<1>1. s \in Sessions /\ phase[s] = "allocated" /\ dispatcher[s] = "running"
  BY DEF SoundInv, IInv, TypeOK, ListTypes, OneCustodian, SessionStages
<1>2. Lifecycle!Move(s, "open", "closing")
  BY <1>1, StageMoves DEF Stage, sessionVars
<1>3. QED
  BY <1>2 DEF Lifecycle!Destroy

\* destroyConnection comes to a session, which may have been destroyed already.
LEMMA EachSessionRefines ==
  ASSUME SoundInv, EachSession
  PROVE  UNCHANGED Lifecycle!vars \/ \E s \in Sessions : Lifecycle!Destroy(s)
<1>1. PICK s \in todo[Main] : closing' = closing \cup {s}
  BY DEF EachSession
<1>2. s \in sessions /\ s \in Sessions /\ UNCHANGED <<connection, sessionVars>>
  BY DEF EachSession, SoundInv, IInv, MainCustody, TypeOK, ListTypes
<1>3. CASE s \in closing
  BY <1>1, <1>2, <1>3, KeptStutters DEF Stage, sessionVars
<1>4. QED
  BY <1>1, <1>2, <1>3, BeginsToClose

\* The connection is freed.
LEMMA FreeConnectionRefines ==
  ASSUME SoundInv, FreeConnection
  PROVE  Lifecycle!Close
<1>1. \A s \in Sessions : phase[s] # "allocated"
  BY NoneLeft DEF FreeConnection
<1>2. \A s \in Sessions : Stage(s) \in {"absent", "gone"}
  BY <1>1 DEF Stage, SoundInv, IInv, TypeOK, SessionTypes
<1>3. UNCHANGED sessionVars /\ UNCHANGED closing /\ connection' = "freed"
  BY DEF FreeConnection
<1>4. QED
  BY <1>2, <1>3 DEF Lifecycle!Close, Stage, sessionVars

\* A session's dispatcher is started, or not.
LEMMA OnSessionCreateRefines ==
  ASSUME SoundInv, WaitsAreSound, OnSessionCreate
  PROVE  UNCHANGED Lifecycle!vars \/ \E s \in Sessions : Lifecycle!Opened(s)
<1>1. PICK t \in Callers : t = Head(queue) /\ Created(t)
  BY HeadOfQueue
<1>2. UNCHANGED <<connection, objects, phase, closing>>
  BY DEF OnSessionCreate
<1>3. CASE UNCHANGED dispatcher
  BY <1>2, <1>3, KeptStutters DEF Stage
<1>4. CASE dispatcher' = [dispatcher EXCEPT ![arg[t]] = "running"]
  <2>1. \A x \in Sessions :
          dispatcher'[x] = IF x = arg[t] THEN "running" ELSE dispatcher[x]
    BY <1>4 DEF SoundInv, IInv, TypeOK, SessionTypes
  <2>2. Lifecycle!Move(arg[t], "creating", "open")
    BY <1>1, <1>2, <2>1, StageMoves DEF Stage, Created
  <2>3. QED
    BY <1>1, <2>2 DEF Created, Lifecycle!Opened
<1>5. QED
  BY <1>1, <1>3, <1>4 DEF OnSessionCreate, EventSession, PointsToCall, Created

\* The dispatcher of a session that is destroyed is stopped.
LEMMA StopSessionStutters ==
  ASSUME SoundInv, StopSession
  PROVE  UNCHANGED Lifecycle!vars
<1>1. /\ pc[Obj] = "stop" /\ arg[Obj] \in Sessions /\ Obj \in Threads
      /\ UNCHANGED <<connection, objects, phase, closing>>
  BY DEF StopSession, SoundInv, IInv, RemoveCustody, WorksOnSession, Threads
<1>2. arg[Obj] \in closing /\ dispatcher[arg[Obj]] = "running"
  BY <1>1 DEF SoundInv, DestroyerStages
<1>3. \A x \in Sessions : dispatcher'[x] = "none" <=> dispatcher[x] = "none"
  BY <1>2 DEF StopSession, SoundInv, IInv, TypeOK, SessionTypes
<1>4. QED
  BY <1>1, <1>2, <1>3, KeptStutters DEF Stage

\* A session is freed when its event objects are.
LEMMA FreeSessionRefines ==
  ASSUME SoundInv, FreeSession
  PROVE  \E s \in Sessions : Lifecycle!Remove(s)
<1>1. /\ pc[Obj] = "freeSession" /\ arg[Obj] \in Sessions /\ Obj \in Threads
      /\ UNCHANGED <<connection, objects, dispatcher, closing>>
      /\ phase' = [phase EXCEPT ![arg[Obj]] = "freed"]
  BY DEF FreeSession, Deallocate, SoundInv, IInv, RemoveCustody, WorksOnSession,
     Threads
<1>2. arg[Obj] \in closing /\ dispatcher[arg[Obj]] = "stopped"
  BY <1>1 DEF SoundInv, DestroyerStages
<1>3. phase[arg[Obj]] = "allocated"
  BY <1>1 DEF SoundInv, IInv, OneCustodian, Holds, HolderPlaces
<1>4. objects[arg[Obj]] = "none"
  BY <1>1, <1>2 DEF SoundInv, SessionStages
<1>5. \A x \in Sessions : phase'[x] = IF x = arg[Obj] THEN "freed" ELSE phase[x]
  BY <1>1 DEF SoundInv, IInv, TypeOK, SessionTypes
<1>6. Lifecycle!Move(arg[Obj], "closing", "gone")
  BY <1>1, <1>2, <1>3, <1>5, StageMoves DEF Stage
<1>7. QED
  BY <1>1, <1>4, <1>6 DEF Lifecycle!Remove

\* A session that runs gets its first event object or loses its last.
LEMMA ObjectsAreUse ==
  ASSUME SoundInv, NEW s \in Sessions, dispatcher[s] = "running",
         NEW v, objects' = [objects EXCEPT ![s] = v],
         UNCHANGED <<connection, closing, phase, dispatcher>>
  PROVE  Lifecycle!Use(s)
<1>1. phase[s] = "allocated"
  BY DEF SoundInv, SessionStages, IInv, TypeOK, SessionTypes
<1>2. Stage(s) \in {"open", "closing"}
  BY <1>1 DEF Stage
<1>3. \A x \in Sessions : objects'[x] = IF x = s THEN v ELSE objects[x]
  BY DEF SoundInv, IInv, TypeOK, SessionTypes
<1>4. {x \in Sessions : objects'[x] # "none"}
        \in {{x \in Sessions : objects[x] # "none"} \cup {s},
             {x \in Sessions : objects[x] # "none"} \ {s}}
  <2>1. CASE v = "none"
    BY <1>3, <2>1
  <2>2. CASE v # "none"
    BY <1>3, <2>2
  <2>3. QED
    BY <2>1, <2>2
<1>5. [x \in Sessions |-> Stage(x)]' = [x \in Sessions |-> Stage(x)]
  BY DEF Stage
<1>6. QED
  BY <1>2, <1>4, <1>5 DEF Lifecycle!Use

\* The event objects of a session are claimed: it has them still.
LEMMA SweepEventsStutters ==
  ASSUME SoundInv, NEW t \in Callers, SweepEvents(t)
  PROVE  UNCHANGED Lifecycle!vars
<1>1. \A s \in Sessions : objects'[s] # "none" <=> objects[s] # "none"
  BY DEF SweepEvents, SoundInv, IInv, TypeOK, SessionTypes
<1>2. UNCHANGED <<connection, closing, phase, dispatcher>>
  BY DEF SweepEvents
<1>3. QED
  BY <1>1, <1>2, KeptStutters DEF Stage

\* Every other step leaves the sessions alone.
LEMMA OthersStutter ==
  ASSUME UNCHANGED <<connection, closing, sessionVars>>
  PROVE  UNCHANGED Lifecycle!vars
  BY KeptStutters DEF Stage, sessionVars

\* Every step is one of SessionLifecycle, or none.
LEMMA NextRefines ==
  ASSUME Sound
  PROVE  SoundInv /\ WaitsAreSound /\ [Next]_vars => [Lifecycle!Next]_Lifecycle!vars
<1> SUFFICES ASSUME SoundInv, WaitsAreSound, [Next]_vars
             PROVE  Lifecycle!Next \/ UNCHANGED Lifecycle!vars
  OBVIOUS
<1>1. ASSUME NEW t \in Callers, Begin(t)
      PROVE  Lifecycle!Next
  <2>1. PICK s \in Sessions : AllocateSession(t, s) \/ DestroySession(t, s)
    BY <1>1 DEF Begin
  <2>2. CASE AllocateSession(t, s)
    BY <2>2, AllocateSessionRefines DEF Lifecycle!Next
  <2>3. CASE DestroySession(t, s)
    <3>1. Lifecycle!Destroy(s)
      BY <2>3, BeginsToClose DEF DestroySession
    <3>2. QED
      BY <3>1 DEF Lifecycle!Next
  <2>4. QED
    BY <2>1, <2>2, <2>3
<1>2. ASSUME NEW t \in Callers, Continue(t)
      PROVE  Lifecycle!Next \/ UNCHANGED Lifecycle!vars
  BY <1>2, EnqueueCreateRefines, WaitCreatedRefines DEF Continue, Lifecycle!Next
<1>3. ASSUME NEW t \in Callers, Contend(t)
      PROVE  UNCHANGED Lifecycle!vars
  <2>1. CASE AddSession(t)
    <3>1. UNCHANGED <<connection, closing, sessionVars>>
      BY <2>1, SoundMeans DEF AddSession, sessionVars
    <3>2. QED
      BY <3>1, OthersStutter
  <2>2. CASE SweepEvents(t)
    BY <2>2, SweepEventsStutters
  <2>3. CASE RemoveSession(t) \/ MarkDestroyed(t)
    BY <2>3, OthersStutter DEF RemoveSession, MarkDestroyed
  <2>4. QED
    BY <1>3, <2>1, <2>2, <2>3 DEF Contend
<1>4. CASE FreeConnection
  BY <1>4, FreeConnectionRefines DEF Lifecycle!Next
<1>5. CASE EachSession
  BY <1>5, EachSessionRefines DEF Lifecycle!Next
<1>6. CASE DestroyConnection \/ EnqueueDestroyAll \/ WaitDestroyed
  BY <1>6, OthersStutter DEF DestroyConnection, EnqueueDestroyAll, WaitDestroyed
<1>7. CASE OnSessionCreate
  BY <1>7, OnSessionCreateRefines DEF Lifecycle!Next
<1>8. CASE OnSessionTimerTick \/ OnDestroyAllSessions
  BY <1>8, OthersStutter DEF OnSessionTimerTick, OnDestroyAllSessions
<1>9. CASE FreeSession
  BY <1>9, FreeSessionRefines DEF Lifecycle!Next
<1>10. CASE StopSession
  BY <1>10, StopSessionStutters
<1>11. CASE SkipSession \/ TakeSession \/ EndEnumerate \/ TimedDispatchReturns \/ SignalDestroyed
  BY <1>11, OthersStutter DEF SkipSession, TakeSession, EndEnumerate,
     TimedDispatchReturns, SignalDestroyed
<1>12. ASSUME NEW s \in Sessions, CreateObject(s) \/ FinaliseObjects(s)
       PROVE  Lifecycle!Next
  <2>1. Lifecycle!Use(s)
    BY <1>12, ObjectsAreUse DEF CreateObject, FinaliseObjects
  <2>2. QED
    BY <2>1 DEF Lifecycle!Next
<1>13. ASSUME NEW s \in Sessions, BeginCallback(s) \/ EndCallback(s)
       PROVE  UNCHANGED Lifecycle!vars
  BY <1>13, KeptStutters DEF BeginCallback, EndCallback, Stage
<1>14. CASE UNCHANGED vars
  BY <1>14, OthersStutter DEF vars, sessionVars
<1>15. ASSUME NEW t \in Callers, ReuseElement(t)
       PROVE  FALSE
  BY <1>15, SoundMeans DEF ReuseElement
<1>16. QED
  BY <1>1, <1>2, <1>3, <1>4, <1>5, <1>6, <1>7, <1>8, <1>9, <1>10, <1>11, <1>12,
     <1>13, <1>14, <1>15 DEF Next, ContinueDestroy, Enumerate, Objects

\* Sessions and connections keep the promise of SessionLifecycle for any number of
\* threads and sessions: a session is gone only when its event objects are, and the
\* connection only when its sessions are (ReadMe.md, "Event destruction").
THEOREM ImplementsLifecycleAlways == Sound => (Spec => ImplementsLifecycle)
<1> SUFFICES ASSUME Sound PROVE Spec => ImplementsLifecycle
  OBVIOUS
<1>1. Init => Lifecycle!Init
  BY DEF Init, Lifecycle!Init, Stage
<1>2. SoundInv /\ WaitsAreSound /\ [Next]_vars => [Lifecycle!Next]_Lifecycle!vars
  BY NextRefines
<1>3. Spec => [](SoundInv /\ WaitsAreSound)
  BY SoundInvAlways
<1>4. QED
  BY <1>1, <1>2, <1>3, PTL DEF Spec, ImplementsLifecycle, Lifecycle!Spec
==============================================================================
