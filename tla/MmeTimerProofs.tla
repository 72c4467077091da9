---------------------------- MODULE MmeTimerProofs ----------------------------
(***************************************************************************)
(* Proofs about MmeTimer, for any sessions, applications and timers.       *)
(*                                                                         *)
(* Custody is inductive whatever the environment does.  InUse adds what    *)
(* holds when createTimer is not raced (Quiet), and is inductive then.     *)
(* Under it timers implement EventObject.                                  *)
(***************************************************************************)
EXTENDS MmeTimer, TLAPS

\* The owner in the record of a lock.
LEMMA OwnerOf == \A u, d : [owner |-> u, depth |-> d].owner = u
  OBVIOUS

\* At first there are no timers.
LEMMA InitCustody == Init => Custody
  BY ConstantsAssumption DEF Init, Custody, TypeOK, ObjectTypes, CallTypes,
     DispatchTypes, Locks, Free, MapCustody, QueueCustody, ClaimCustody,
     CreateCustody, NoneIsNowhere, CallCustody, LockCustody, DestroyLockCustody,
     HoldsDestroyLock, SilencedStaysSilent, ShutdownQuiesces, Unclaimed,
     Finalising, Ticking, Creating, InCallback, CallPlaces, DispatchPlaces,
     Threads, CreatePlaces, DestroyPlaces

\* Custody is kept when createTimer allocates a wrapper nobody knows.
LEMMA CreateAllocateKeepsCustody ==
  ASSUME Custody, NEW t \in Threads, NEW x \in Timers, CreateAllocate(t, x)
  PROVE  Custody'
<1>1. ObjectTypes'
  <2>1. callback' \in [Timers -> BOOLEAN]
    BY DEF Custody, TypeOK, ObjectTypes, CreateAllocate
  <2>2. QED
    BY <2>1 DEF Custody, TypeOK, ObjectTypes, CreateAllocate, mapVars, histVars
<1>2. CallTypes'
  BY DEF CreateAllocate, Goto, Custody, TypeOK, CallTypes, CallPlaces,
     CreatePlaces
<1>3. DispatchTypes'
  BY DEF CreateAllocate, dispVars, Custody, TypeOK, DispatchTypes
<1>4. MapCustody' /\ QueueCustody'
  BY DEF CreateAllocate, mapVars, dispVars, Custody, MapCustody, QueueCustody,
     Unclaimed, Finalising
<1>5. ClaimCustody'
  BY DEF CreateAllocate, dispVars, Custody, ClaimCustody, Finalising
<1>6. CreateCustody'
  <2>1. \A u \in Threads, y \in Timers :
          Creating(u, y)' => Creating(u, y) \/ (u = t /\ y = x)
    BY DEF CreateAllocate, Goto, Custody, TypeOK, CallTypes, Creating
  <2>2. x \notin map /\ Unclaimed(x) /\ queued[x] = 0 /\ ~Finalising(x)
        /\ \A u \in Threads : ~Creating(u, x)
    BY DEF Custody, NoneIsNowhere, CreateAllocate
  <2>3. \A y \in Timers : ((~Finalising(y))' <=> ~Finalising(y)) /\ (Unclaimed(y)' <=> Unclaimed(y))
    BY DEF CreateAllocate, dispVars, Finalising, Unclaimed
  <2>4. UNCHANGED <<map, queued>>
    BY DEF CreateAllocate, mapVars
  <2>5. QED
    BY <2>1, <2>2, <2>3, <2>4 DEF Custody, CreateCustody
<1>7. NoneIsNowhere'
  BY DEF CreateAllocate, Goto, mapVars, dispVars, histVars, Custody, TypeOK,
     ObjectTypes, CallTypes, NoneIsNowhere, Unclaimed, Finalising, Ticking,
     Creating
<1>8. CallCustody'
  BY ConstantsAssumption DEF CreateAllocate, CanCall, Goto, dispVars, histVars,
     Custody, TypeOK, CallTypes, CallCustody, Threads, DestroyPlaces
<1>9. LockCustody'
  BY DEF CreateAllocate, dispVars, Custody, LockCustody, InCallback
<1>10. DestroyLockCustody'
  <2>1. \A u \in Threads, y \in Timers : HoldsDestroyLock(u, y)' <=> HoldsDestroyLock(u, y)
    BY DEF CreateAllocate, CanCall, Goto, dispVars, Custody, TypeOK, CallTypes,
       HoldsDestroyLock
  <2>2. UNCHANGED destroyLock
    BY DEF CreateAllocate
  <2>3. QED
    BY <2>1, <2>2 DEF Custody, DestroyLockCustody
<1>11. SilencedStaysSilent' /\ ShutdownQuiesces'
  BY DEF CreateAllocate, dispVars, histVars, Custody, TypeOK, ObjectTypes,
     SilencedStaysSilent, ShutdownQuiesces, NoneIsNowhere
<1>12. QED
  BY <1>1, <1>2, <1>3, <1>4, <1>5, <1>6, <1>7, <1>8, <1>9, <1>10, <1>11 DEF
     Custody, TypeOK

\* Custody is kept when createTimer creates the MAMA timer, which ticks.
LEMMA CreateMamaTimerKeepsCustody ==
  ASSUME Custody, NEW t \in Threads, CreateMamaTimer(t)
  PROVE  Custody'
<1>1. ObjectTypes'
  BY DEF CreateMamaTimer, lockVars, mapVars, histVars, Custody, TypeOK,
     ObjectTypes, CallTypes, CallPlaces
<1>2. CallTypes'
  BY DEF CreateMamaTimer, Goto, Custody, TypeOK, CallTypes, CallPlaces,
     CreatePlaces
<1>3. DispatchTypes'
  BY DEF CreateMamaTimer, dispVars, Custody, TypeOK, DispatchTypes
<1>4. MapCustody' /\ QueueCustody'
  BY DEF CreateMamaTimer, mapVars, dispVars, Custody, MapCustody, QueueCustody,
     Unclaimed, Finalising
<1>5. ClaimCustody'
  BY DEF CreateMamaTimer, dispVars, Custody, ClaimCustody, Finalising
<1>6. CreateCustody'
  BY DEF CreateMamaTimer, Goto, mapVars, dispVars, Custody, CreateCustody,
     Creating, Unclaimed, Finalising
<1>7. NoneIsNowhere'
  BY DEF CreateMamaTimer, Goto, mapVars, dispVars, histVars, Custody,
     NoneIsNowhere, Unclaimed, Finalising, Ticking, Creating
<1>8. CallCustody'
  BY DEF CreateMamaTimer, Goto, dispVars, Custody, CallCustody, DestroyPlaces
<1>9. LockCustody'
  BY DEF CreateMamaTimer, lockVars, dispVars, Custody, LockCustody, InCallback
<1>10. DestroyLockCustody'
  BY DEF CreateMamaTimer, Goto, lockVars, dispVars, Custody, DestroyLockCustody,
     HoldsDestroyLock
<1>11. SilencedStaysSilent' /\ ShutdownQuiesces'
  BY DEF CreateMamaTimer, dispVars, histVars, Custody, SilencedStaysSilent,
     ShutdownQuiesces
<1>12. QED
  BY <1>1, <1>2, <1>3, <1>4, <1>5, <1>6, <1>7, <1>8, <1>9, <1>10, <1>11 DEF
     Custody, TypeOK

\* Custody is kept when createTimer puts the wrapper into the map.
LEMMA CreateInsertKeepsCustody ==
  ASSUME Custody, NEW t \in Threads, CreateInsert(t)
  PROVE  Custody'
<1>1. ObjectTypes'
  BY DEF CreateInsert, lockVars, histVars, Custody, TypeOK, ObjectTypes,
     CallTypes, CallPlaces
<1>2. CallTypes'
  BY DEF CreateInsert, Goto, Custody, TypeOK, CallTypes, CallPlaces,
     CreatePlaces
<1>3. DispatchTypes'
  BY DEF CreateInsert, dispVars, Custody, TypeOK, DispatchTypes
<1>4. MapCustody' /\ QueueCustody'
  BY DEF CreateInsert, dispVars, Custody, TypeOK, CallTypes, MapCustody,
     QueueCustody, CreateCustody, Unclaimed, Finalising, Creating, CreatePlaces
<1>5. ClaimCustody'
  BY DEF CreateInsert, dispVars, Custody, ClaimCustody, Finalising
<1>6. CreateCustody'
  BY DEF CreateInsert, Goto, dispVars, Custody, TypeOK, CallTypes,
     CreateCustody, Creating, Unclaimed, Finalising
<1>7. NoneIsNowhere'
  BY DEF CreateInsert, Goto, dispVars, histVars, Custody, NoneIsNowhere,
     Unclaimed, Finalising, Ticking, Creating
<1>8. CallCustody'
  BY DEF CreateInsert, Goto, dispVars, Custody, CallCustody, DestroyPlaces
<1>9. LockCustody'
  BY DEF CreateInsert, lockVars, dispVars, Custody, LockCustody, InCallback
<1>10. DestroyLockCustody'
  BY DEF CreateInsert, Goto, lockVars, dispVars, Custody, DestroyLockCustody,
     HoldsDestroyLock
<1>11. SilencedStaysSilent' /\ ShutdownQuiesces'
  BY DEF CreateInsert, dispVars, histVars, Custody, SilencedStaysSilent,
     ShutdownQuiesces
<1>12. QED
  BY <1>1, <1>2, <1>3, <1>4, <1>5, <1>6, <1>7, <1>8, <1>9, <1>10, <1>11 DEF
     Custody, TypeOK

\* Custody is kept when createTimer frees what it has allocated.
LEMMA CreateFailsKeepsCustody ==
  ASSUME Custody, NEW t \in Threads, CreateFails(t)
  PROVE  Custody'
<1>1. ObjectTypes'
  BY DEF CreateFails, lockVars, mapVars, histVars, Custody, TypeOK, ObjectTypes,
     CallTypes, CallPlaces
<1>2. CallTypes'
  BY DEF CreateFails, Return, Goto, Custody, TypeOK, CallTypes, CallPlaces,
     CreatePlaces, DestroyPlaces
<1>3. DispatchTypes'
  BY DEF CreateFails, dispVars, Custody, TypeOK, DispatchTypes
<1>4. MapCustody' /\ QueueCustody'
  BY DEF CreateFails, mapVars, dispVars, Custody, MapCustody, QueueCustody,
     Unclaimed, Finalising
<1>5. ClaimCustody'
  BY DEF CreateFails, dispVars, Custody, ClaimCustody, Finalising
<1>6. CreateCustody'
  BY DEF CreateFails, Return, Goto, mapVars, dispVars, Custody, TypeOK,
     CallTypes, CreateCustody, Creating, Unclaimed, Finalising
<1>7. NoneIsNowhere'
  BY DEF CreateFails, Return, Goto, mapVars, dispVars, histVars, Custody,
     TypeOK, CallTypes, NoneIsNowhere, Unclaimed, Finalising, Ticking, Creating
<1>8. CallCustody'
  BY DEF CreateFails, Return, Goto, dispVars, Custody, CallCustody,
     DestroyPlaces
<1>9. LockCustody'
  BY DEF CreateFails, lockVars, dispVars, Custody, LockCustody, InCallback
<1>10. DestroyLockCustody'
  BY DEF CreateFails, Return, Goto, lockVars, dispVars, Custody,
     DestroyLockCustody, HoldsDestroyLock
<1>11. SilencedStaysSilent' /\ ShutdownQuiesces'
  BY DEF CreateFails, dispVars, histVars, Custody, SilencedStaysSilent,
     ShutdownQuiesces
<1>12. QED
  BY <1>1, <1>2, <1>3, <1>4, <1>5, <1>6, <1>7, <1>8, <1>9, <1>10, <1>11 DEF
     Custody, TypeOK

\* Custody is kept when createTimer returns the wrapper.
LEMMA CreateReturnKeepsCustody ==
  ASSUME Custody, NEW t \in Threads, CreateReturn(t)
  PROVE  Custody'
<1>1. ObjectTypes'
  BY DEF CreateReturn, lockVars, mapVars, Custody, TypeOK, ObjectTypes,
     CallTypes, CallPlaces
<1>2. CallTypes'
  BY DEF CreateReturn, Return, Goto, Custody, TypeOK, CallTypes, CallPlaces,
     CreatePlaces, DestroyPlaces
<1>3. DispatchTypes'
  BY DEF CreateReturn, dispVars, Custody, TypeOK, DispatchTypes
<1>4. MapCustody' /\ QueueCustody'
  BY DEF CreateReturn, mapVars, dispVars, Custody, MapCustody, QueueCustody,
     Unclaimed, Finalising
<1>5. ClaimCustody'
  BY DEF CreateReturn, dispVars, Custody, ClaimCustody, Finalising
<1>6. CreateCustody'
  BY DEF CreateReturn, Return, Goto, mapVars, dispVars, Custody, CreateCustody,
     Creating, Unclaimed, Finalising
<1>7. NoneIsNowhere'
  BY DEF CreateReturn, Return, Goto, mapVars, dispVars, Custody, NoneIsNowhere,
     Unclaimed, Finalising, Ticking, Creating
<1>8. CallCustody'
  BY DEF CreateReturn, Return, Goto, dispVars, Custody, CallCustody,
     DestroyPlaces
<1>9. LockCustody'
  BY DEF CreateReturn, lockVars, dispVars, Custody, LockCustody, InCallback
<1>10. DestroyLockCustody'
  BY DEF CreateReturn, Return, Goto, lockVars, dispVars, Custody,
     DestroyLockCustody, HoldsDestroyLock
<1>11. SilencedStaysSilent' /\ ShutdownQuiesces'
  BY DEF CreateReturn, dispVars, Custody, SilencedStaysSilent, ShutdownQuiesces
<1>12. QED
  BY <1>1, <1>2, <1>3, <1>4, <1>5, <1>6, <1>7, <1>8, <1>9, <1>10, <1>11 DEF
     Custody, TypeOK

\* Custody is kept when destroyTimer is called.
LEMMA DestroyTimerKeepsCustody ==
  ASSUME Custody, NEW t \in Threads, NEW x \in Timers, DestroyTimer(t, x)
  PROVE  Custody'
<1>1. ObjectTypes'
  BY DEF DestroyTimer, lockVars, mapVars, histVars, Custody, TypeOK, ObjectTypes
<1>2. CallTypes'
  BY DEF DestroyTimer, Goto, Custody, TypeOK, CallTypes, CallPlaces
<1>3. DispatchTypes'
  BY DEF DestroyTimer, dispVars, Custody, TypeOK, DispatchTypes
<1>4. MapCustody' /\ QueueCustody'
  BY DEF DestroyTimer, mapVars, dispVars, Custody, MapCustody, QueueCustody,
     Unclaimed, Finalising
<1>5. ClaimCustody'
  BY DEF DestroyTimer, dispVars, Custody, ClaimCustody, Finalising
<1>6. CreateCustody'
  BY DEF DestroyTimer, CanCall, Goto, mapVars, dispVars, Custody, CreateCustody,
     Creating, Unclaimed, Finalising
<1>7. NoneIsNowhere'
  BY DEF DestroyTimer, CanCall, Goto, mapVars, dispVars, histVars, Custody,
     NoneIsNowhere, Unclaimed, Finalising, Ticking, Creating
<1>8. CallCustody'
  BY ConstantsAssumption DEF DestroyTimer, CanCall, Goto, dispVars, Custody,
     CallCustody, DestroyPlaces
<1>9. LockCustody'
  BY DEF DestroyTimer, lockVars, dispVars, Custody, LockCustody, InCallback
<1>10. DestroyLockCustody'
  BY DEF DestroyTimer, CanCall, Goto, lockVars, dispVars, Custody,
     DestroyLockCustody, HoldsDestroyLock
<1>11. SilencedStaysSilent' /\ ShutdownQuiesces'
  BY DEF DestroyTimer, dispVars, histVars, Custody, SilencedStaysSilent,
     ShutdownQuiesces
<1>12. QED
  BY <1>1, <1>2, <1>3, <1>4, <1>5, <1>6, <1>7, <1>8, <1>9, <1>10, <1>11 DEF
     Custody, TypeOK

\* Custody is kept when destroyTimer removes the wrapper, and so claims it.
LEMMA DestroyRemoveKeepsCustody ==
  ASSUME Custody, NEW t \in Threads, DestroyRemove(t)
  PROVE  Custody'
<1>1. ObjectTypes'
  BY DEF DestroyRemove, lockVars, Custody, TypeOK, ObjectTypes
<1>2. CallTypes'
  BY DEF DestroyRemove, Goto, Custody, TypeOK, CallTypes, CallPlaces,
     DestroyPlaces
<1>3. DispatchTypes'
  BY DEF DestroyRemove, dispVars, Custody, TypeOK, DispatchTypes
<1>4. MapCustody' /\ QueueCustody'
  BY DEF DestroyRemove, dispVars, Custody, MapCustody, QueueCustody, Unclaimed,
     Finalising
<1>5. ClaimCustody'
  BY DEF DestroyRemove, dispVars, Custody, ClaimCustody, MapCustody, Unclaimed,
     Finalising
<1>6. CreateCustody'
  BY DEF DestroyRemove, Goto, dispVars, Custody, CreateCustody, Creating,
     Unclaimed, Finalising
<1>7. NoneIsNowhere'
  BY DEF DestroyRemove, Goto, dispVars, Custody, NoneIsNowhere, Unclaimed,
     Finalising, Ticking, Creating
<1>8. CallCustody'
  BY DEF DestroyRemove, Goto, dispVars, Custody, TypeOK, CallTypes, CallCustody,
     DestroyPlaces
<1>9. LockCustody'
  BY DEF DestroyRemove, lockVars, dispVars, Custody, LockCustody, InCallback
<1>10. DestroyLockCustody'
  BY DEF DestroyRemove, Goto, lockVars, dispVars, Custody, DestroyLockCustody,
     HoldsDestroyLock
<1>11. SilencedStaysSilent' /\ ShutdownQuiesces'
  BY DEF DestroyRemove, dispVars, Custody, SilencedStaysSilent, ShutdownQuiesces
<1>12. QED
  BY <1>1, <1>2, <1>3, <1>4, <1>5, <1>6, <1>7, <1>8, <1>9, <1>10, <1>11 DEF
     Custody, TypeOK

\* Custody is kept when destroyTimer finds no wrapper in the map.
LEMMA DestroyAbsentKeepsCustody ==
  ASSUME Custody, NEW t \in Threads, DestroyAbsent(t)
  PROVE  Custody'
<1>1. ObjectTypes'
  BY DEF DestroyAbsent, lockVars, mapVars, Custody, TypeOK, ObjectTypes,
     CallTypes
<1>2. CallTypes'
  BY DEF DestroyAbsent, Return, Goto, Custody, TypeOK, CallTypes, CallPlaces,
     CreatePlaces, DestroyPlaces
<1>3. DispatchTypes'
  BY DEF DestroyAbsent, dispVars, Custody, TypeOK, DispatchTypes
<1>4. MapCustody' /\ QueueCustody'
  BY DEF DestroyAbsent, mapVars, dispVars, Custody, MapCustody, QueueCustody,
     Unclaimed, Finalising
<1>5. ClaimCustody'
  BY DEF DestroyAbsent, dispVars, Custody, ClaimCustody, Finalising
<1>6. CreateCustody'
  BY DEF DestroyAbsent, Return, Goto, mapVars, dispVars, Custody, CreateCustody,
     Creating, Unclaimed, Finalising
<1>7. NoneIsNowhere'
  BY DEF DestroyAbsent, Return, Goto, mapVars, dispVars, Custody, NoneIsNowhere,
     Unclaimed, Finalising, Ticking, Creating
<1>8. CallCustody'
  BY DEF DestroyAbsent, Return, Goto, dispVars, Custody, CallCustody,
     DestroyPlaces
<1>9. LockCustody'
  BY DEF DestroyAbsent, lockVars, dispVars, Custody, LockCustody, InCallback
<1>10. DestroyLockCustody'
  BY DEF DestroyAbsent, Return, Goto, lockVars, dispVars, Custody,
     DestroyLockCustody, HoldsDestroyLock
<1>11. SilencedStaysSilent' /\ ShutdownQuiesces'
  BY DEF DestroyAbsent, dispVars, Custody, SilencedStaysSilent, ShutdownQuiesces
<1>12. QED
  BY <1>1, <1>2, <1>3, <1>4, <1>5, <1>6, <1>7, <1>8, <1>9, <1>10, <1>11 DEF
     Custody, TypeOK

\* Custody is kept when destroyTimer takes m_destroyLock.
LEMMA DestroyLockKeepsCustody ==
  ASSUME Custody, NEW t \in Threads, DestroyLock(t)
  PROVE  Custody'
<1>1. ObjectTypes'
  BY DEF DestroyLock, Goto, CanLock, Locked, mapVars, dispVars, histVars,
     Custody, TypeOK, ObjectTypes, CallTypes, Locks, CallPlaces
<1>2. CallTypes'
  BY DEF DestroyLock, Goto, Custody, TypeOK, CallTypes, CallPlaces,
     DestroyPlaces
<1>3. DispatchTypes'
  BY DEF DestroyLock, dispVars, Custody, TypeOK, DispatchTypes
<1>4. MapCustody' /\ QueueCustody'
  BY DEF DestroyLock, mapVars, dispVars, Custody, MapCustody, QueueCustody,
     Unclaimed, Finalising
<1>5. ClaimCustody'
  BY DEF DestroyLock, dispVars, Custody, ClaimCustody, Finalising
<1>6. CreateCustody'
  BY DEF DestroyLock, Goto, mapVars, dispVars, Custody, CreateCustody, Creating,
     Unclaimed, Finalising
<1>7. NoneIsNowhere'
  BY DEF DestroyLock, Goto, mapVars, dispVars, histVars, Custody, NoneIsNowhere,
     Unclaimed, Finalising, Ticking, Creating
<1>8. CallCustody'
  BY DEF DestroyLock, Goto, dispVars, Custody, CallCustody, DestroyPlaces
<1>9. LockCustody'
  BY DEF DestroyLock, dispVars, Custody, LockCustody, InCallback
<1>10. DestroyLockCustody'
  BY ConstantsAssumption DEF DestroyLock, Goto, CanLock, Locked, mapVars,
     dispVars, histVars, Custody, TypeOK, ObjectTypes, CallTypes,
     DestroyLockCustody, HoldsDestroyLock, Free, CallCustody, ClaimCustody,
     Finalising, DestroyPlaces
<1>11. SilencedStaysSilent' /\ ShutdownQuiesces'
  BY DEF DestroyLock, dispVars, histVars, Custody, SilencedStaysSilent,
     ShutdownQuiesces
<1>12. QED
  BY <1>1, <1>2, <1>3, <1>4, <1>5, <1>6, <1>7, <1>8, <1>9, <1>10, <1>11 DEF
     Custody, TypeOK

\* Custody is kept when destroyTimer silences the timer under m_lock.
LEMMA DestroyClearKeepsCustody ==
  ASSUME Custody, NEW t \in Threads, DestroyClear(t)
  PROVE  Custody'
<1>1. ObjectTypes'
  <2>1. arg[t] \in Timers /\ destroyLock[arg[t]] = [owner |-> t, depth |-> 1]
    BY DEF DestroyClear, Custody, TypeOK, CallTypes, DestroyLockCustody,
       HoldsDestroyLock, DestroyPlaces
  <2>2. destroyLock' = [destroyLock EXCEPT ![arg[t]] = Free]
    BY <2>1 DEF DestroyClear, Unlocked, Free
  <2>3. QED
    BY <2>1, <2>2 DEF DestroyClear, Silence, Free, mapVars, Custody, TypeOK,
       ObjectTypes, Locks
<1>2. CallTypes'
  BY DEF DestroyClear, Goto, Custody, TypeOK, CallTypes, CallPlaces,
     DestroyPlaces
<1>3. DispatchTypes'
  BY DEF DestroyClear, dispVars, Custody, TypeOK, DispatchTypes
<1>4. MapCustody' /\ QueueCustody'
  BY DEF DestroyClear, mapVars, dispVars, Custody, MapCustody, QueueCustody,
     Unclaimed, Finalising
<1>5. ClaimCustody'
  BY DEF DestroyClear, dispVars, Custody, ClaimCustody, Finalising
<1>6. CreateCustody'
  <2>1. \A u \in Threads, y \in Timers : Creating(u, y)' => Creating(u, y)
    BY DEF DestroyClear, Goto, Creating
  <2>2. \A y \in Timers : (~Finalising(y))' <=> ~Finalising(y)
    BY DEF DestroyClear, dispVars, Finalising
  <2>3. \A u \in Threads, y \in Timers : Creating(u, y) => Unclaimed(y)'
    BY DEF DestroyClear, Custody, CreateCustody, Unclaimed
  <2>4. QED
    BY <2>1, <2>2, <2>3 DEF DestroyClear, mapVars, Custody, CreateCustody
<1>7. NoneIsNowhere'
  BY DEF DestroyClear, Goto, Silence, mapVars, dispVars, Custody, NoneIsNowhere,
     Unclaimed, Finalising, Ticking, Creating, CallCustody, DestroyPlaces
<1>8. CallCustody'
  BY DEF DestroyClear, Goto, dispVars, Custody, CallCustody, DestroyPlaces
<1>9. LockCustody'
  BY DEF DestroyClear, dispVars, Custody, LockCustody, InCallback
<1>10. DestroyLockCustody'
  <2>1. arg[t] \in Timers /\ destroyLock[arg[t]] = [owner |-> t, depth |-> 1]
    BY DEF DestroyClear, Custody, TypeOK, CallTypes, DestroyLockCustody,
       HoldsDestroyLock, DestroyPlaces
  <2>2. destroyLock' = [destroyLock EXCEPT ![arg[t]] = Free]
    BY <2>1 DEF DestroyClear, Unlocked, Free
  <2>3. ASSUME NEW u \in Threads, HoldsDestroyLock(u, arg[t])
        PROVE  u = t
    <3>1. destroyLock[arg[t]] = [owner |-> u, depth |-> 1]
      BY <2>1, <2>3 DEF Custody, DestroyLockCustody
    <3>2. [owner |-> u, depth |-> 1] = [owner |-> t, depth |-> 1]
      BY <2>1, <3>1
    <3>3. QED
      BY <3>2, OwnerOf
  <2>4. t \in Sessions => dpc[t] = "callback"
    BY DEF Custody, CallCustody, DestroyClear, Threads
  <2>5. \A u \in Threads, y \in Timers :
          HoldsDestroyLock(u, y)' <=> (HoldsDestroyLock(u, y) /\ ~(u = t /\ y = arg[t]))
    BY <2>4 DEF DestroyClear, Goto, dispVars, Custody, TypeOK, CallTypes,
       HoldsDestroyLock
  <2>6. \A u \in Threads, y \in Timers : y = arg[t] => ~HoldsDestroyLock(u, y)'
    BY <2>1, <2>3, <2>5
  <2>7. QED
    BY <2>2, <2>5, <2>6 DEF Custody, TypeOK, ObjectTypes, DestroyLockCustody
<1>11. SilencedStaysSilent' /\ ShutdownQuiesces'
  BY ConstantsAssumption DEF DestroyClear, Silence, CanLock, dispVars, Custody,
     TypeOK, ObjectTypes, CallTypes, DispatchTypes, SilencedStaysSilent,
     ShutdownQuiesces, LockCustody, InCallback, Threads, DestroyPlaces
<1>12. QED
  BY <1>1, <1>2, <1>3, <1>4, <1>5, <1>6, <1>7, <1>8, <1>9, <1>10, <1>11 DEF
     Custody, TypeOK

\* Custody is kept when destroyTimer gives the wrapper to the queue.
LEMMA DestroyEnqueueKeepsCustody ==
  ASSUME Custody, NEW t \in Threads, DestroyEnqueue(t)
  PROVE  Custody'
<1>1. ObjectTypes'
  BY DEF DestroyEnqueue, lockVars, mapVars, histVars, Custody, TypeOK,
     ObjectTypes
<1>2. CallTypes'
  BY DEF DestroyEnqueue, Return, Goto, Custody, TypeOK, CallTypes, CallPlaces,
     CreatePlaces, DestroyPlaces
<1>3. DispatchTypes'
  BY DEF DestroyEnqueue, dispVars, Custody, TypeOK, DispatchTypes
<1>4. MapCustody' /\ QueueCustody'
  BY DEF DestroyEnqueue, Return, Goto, lockVars, mapVars, dispVars, Custody,
     TypeOK, ObjectTypes, MapCustody, QueueCustody, ClaimCustody, CallCustody,
     Unclaimed, Finalising, DestroyPlaces
<1>5. ClaimCustody'
  BY DEF DestroyEnqueue, dispVars, Custody, TypeOK, ObjectTypes, CallTypes,
     ClaimCustody, CallCustody, Finalising, DestroyPlaces
<1>6. CreateCustody'
  <2>1. CASE claimed'[t] = {}
    BY DEF DestroyEnqueue, Return, Goto, lockVars, mapVars, dispVars, Custody,
       TypeOK, ObjectTypes, CallTypes, CreateCustody, ClaimCustody, CallCustody,
       Creating, Unclaimed, Finalising, DestroyPlaces
  <2>2. CASE claimed'[t] # {}
    BY <2>2 DEF DestroyEnqueue, Return, Goto, lockVars, mapVars, dispVars,
       Custody, TypeOK, ObjectTypes, CallTypes, CreateCustody, CallCustody,
       Creating, Unclaimed, Finalising
  <2>3. QED
    BY <2>1, <2>2
<1>7. NoneIsNowhere'
  BY DEF DestroyEnqueue, Return, Goto, mapVars, dispVars, histVars, Custody,
     TypeOK, ObjectTypes, CallTypes, NoneIsNowhere, Unclaimed, Finalising,
     Ticking, Creating, CallCustody, DestroyPlaces
<1>8. CallCustody'
  BY DEF DestroyEnqueue, Return, Goto, dispVars, Custody, TypeOK, CallTypes,
     CallCustody, Threads, DestroyPlaces
<1>9. LockCustody'
  BY DEF DestroyEnqueue, lockVars, dispVars, Custody, LockCustody, InCallback
<1>10. DestroyLockCustody'
  <2>1. \A u \in Threads, y \in Timers : HoldsDestroyLock(u, y)' <=> HoldsDestroyLock(u, y)
    BY DEF DestroyEnqueue, Return, Goto, dispVars, Custody, TypeOK, CallTypes,
       HoldsDestroyLock
  <2>2. UNCHANGED destroyLock
    BY DEF DestroyEnqueue, lockVars
  <2>3. QED
    BY <2>1, <2>2 DEF Custody, DestroyLockCustody
<1>11. SilencedStaysSilent' /\ ShutdownQuiesces'
  BY DEF DestroyEnqueue, dispVars, histVars, Custody, SilencedStaysSilent,
     ShutdownQuiesces
<1>12. QED
  BY <1>1, <1>2, <1>3, <1>4, <1>5, <1>6, <1>7, <1>8, <1>9, <1>10, <1>11 DEF
     Custody, TypeOK

\* Custody is kept when shutdownTimer is called.
LEMMA ShutdownTimerKeepsCustody ==
  ASSUME Custody, NEW t \in Threads, NEW x \in Timers, ShutdownTimer(t, x)
  PROVE  Custody'
<1>1. ObjectTypes'
  BY DEF ShutdownTimer, lockVars, mapVars, histVars, Custody, TypeOK,
     ObjectTypes
<1>2. CallTypes'
  BY DEF ShutdownTimer, Goto, Custody, TypeOK, CallTypes, CallPlaces
<1>3. DispatchTypes'
  BY DEF ShutdownTimer, dispVars, Custody, TypeOK, DispatchTypes
<1>4. MapCustody' /\ QueueCustody'
  BY DEF ShutdownTimer, mapVars, dispVars, Custody, MapCustody, QueueCustody,
     Unclaimed, Finalising
<1>5. ClaimCustody'
  BY DEF ShutdownTimer, dispVars, Custody, ClaimCustody, Finalising
<1>6. CreateCustody'
  BY DEF ShutdownTimer, CanCall, Goto, mapVars, dispVars, Custody,
     CreateCustody, Creating, Unclaimed, Finalising
<1>7. NoneIsNowhere'
  BY DEF ShutdownTimer, CanCall, Goto, mapVars, dispVars, histVars, Custody,
     NoneIsNowhere, Unclaimed, Finalising, Ticking, Creating
<1>8. CallCustody'
  BY ConstantsAssumption DEF ShutdownTimer, CanCall, Goto, dispVars, Custody,
     CallCustody, DestroyPlaces
<1>9. LockCustody'
  BY DEF ShutdownTimer, lockVars, dispVars, Custody, LockCustody, InCallback
<1>10. DestroyLockCustody'
  BY DEF ShutdownTimer, CanCall, Goto, lockVars, dispVars, Custody,
     DestroyLockCustody, HoldsDestroyLock
<1>11. SilencedStaysSilent' /\ ShutdownQuiesces'
  BY DEF ShutdownTimer, dispVars, histVars, Custody, SilencedStaysSilent,
     ShutdownQuiesces
<1>12. QED
  BY <1>1, <1>2, <1>3, <1>4, <1>5, <1>6, <1>7, <1>8, <1>9, <1>10, <1>11 DEF
     Custody, TypeOK

\* Custody is kept when shutdownTimer finds the wrapper and locks the map.
LEMMA ShutdownFindKeepsCustody ==
  ASSUME Custody, NEW t \in Threads, ShutdownFind(t)
  PROVE  Custody'
<1>1. ObjectTypes'
  <2>1. CASE arg[t] \in map
    BY DEF ShutdownFind, lockVars, histVars, Custody, TypeOK, ObjectTypes
  <2>2. CASE arg[t] \notin map
    BY DEF ShutdownFind, lockVars, histVars, Custody, TypeOK, ObjectTypes
  <2>3. QED
    BY <2>1, <2>2
<1>2. CallTypes'
  <2>1. CASE arg[t] \in map
    BY <2>1 DEF ShutdownFind, Goto, Custody, TypeOK, CallTypes, CallPlaces
  <2>2. CASE arg[t] \notin map
    BY DEF ShutdownFind, Return, Goto, Custody, TypeOK, CallTypes, CallPlaces,
       CreatePlaces, DestroyPlaces
  <2>3. QED
    BY <2>1, <2>2
<1>3. DispatchTypes'
  BY DEF ShutdownFind, dispVars, Custody, TypeOK, DispatchTypes
<1>4. MapCustody' /\ QueueCustody'
  BY DEF ShutdownFind, dispVars, Custody, MapCustody, QueueCustody, Unclaimed,
     Finalising
<1>5. ClaimCustody'
  BY DEF ShutdownFind, dispVars, Custody, ClaimCustody, Finalising
<1>6. CreateCustody'
  <2>1. \A u \in Threads, y \in Timers : Creating(u, y)' => Creating(u, y)
    BY DEF ShutdownFind, Return, Goto, Custody, TypeOK, CallTypes, Creating
  <2>2. \A y \in Timers : (~Finalising(y))' <=> ~Finalising(y)
    BY DEF ShutdownFind, dispVars, Finalising
  <2>3. \A u \in Threads, y \in Timers : Creating(u, y) => Unclaimed(y)'
    BY DEF ShutdownFind, Custody, CreateCustody, Unclaimed
  <2>4. QED
    BY <2>1, <2>2, <2>3 DEF ShutdownFind, Custody, CreateCustody
<1>7. NoneIsNowhere'
  BY DEF ShutdownFind, Return, Goto, dispVars, histVars, Custody, TypeOK,
     CallTypes, NoneIsNowhere, Unclaimed, Finalising, Ticking, Creating
<1>8. CallCustody'
  BY DEF ShutdownFind, Return, Goto, dispVars, Custody, TypeOK, CallTypes,
     CallCustody, Threads, DestroyPlaces
<1>9. LockCustody'
  BY DEF ShutdownFind, lockVars, dispVars, Custody, LockCustody, InCallback
<1>10. DestroyLockCustody'
  <2>1. \A u \in Threads, y \in Timers : HoldsDestroyLock(u, y)' <=> HoldsDestroyLock(u, y)
    BY DEF ShutdownFind, Return, Goto, dispVars, Custody, TypeOK, CallTypes,
       HoldsDestroyLock
  <2>2. UNCHANGED destroyLock
    BY DEF ShutdownFind, lockVars
  <2>3. QED
    BY <2>1, <2>2 DEF Custody, DestroyLockCustody
<1>11. SilencedStaysSilent' /\ ShutdownQuiesces'
  BY DEF ShutdownFind, dispVars, histVars, Custody, SilencedStaysSilent,
     ShutdownQuiesces
<1>12. QED
  BY <1>1, <1>2, <1>3, <1>4, <1>5, <1>6, <1>7, <1>8, <1>9, <1>10, <1>11 DEF
     Custody, TypeOK

\* Custody is kept when shutdownTimer silences the timer under m_lock.
LEMMA ShutdownClearKeepsCustody ==
  ASSUME Custody, NEW t \in Threads, ShutdownClear(t)
  PROVE  Custody'
<1>1. ObjectTypes'
  <2>1. arg[t] \in Timers /\ Home[arg[t]] \in Sessions
    BY ConstantsAssumption DEF Custody, TypeOK, CallTypes, ShutdownClear
  <2>2. silenced' \subseteq Timers /\ callback' \in [Timers -> BOOLEAN]
    BY <2>1 DEF Custody, TypeOK, ObjectTypes, ShutdownClear, Silence
  <2>3. mapLock' \in [Sessions -> Threads \cup {NoThread}]
    BY <2>1 DEF Custody, TypeOK, ObjectTypes, ShutdownClear
  <2>4. QED
    BY <2>2, <2>3 DEF Custody, TypeOK, ObjectTypes, ShutdownClear, lockVars
<1>2. CallTypes'
  BY DEF ShutdownClear, Return, Goto, Custody, TypeOK, CallTypes, CallPlaces,
     CreatePlaces, DestroyPlaces
<1>3. DispatchTypes'
  BY DEF ShutdownClear, dispVars, Custody, TypeOK, DispatchTypes
<1>4. MapCustody' /\ QueueCustody'
  BY DEF ShutdownClear, dispVars, Custody, MapCustody, QueueCustody, Unclaimed,
     Finalising
<1>5. ClaimCustody'
  BY DEF ShutdownClear, dispVars, Custody, ClaimCustody, Finalising
<1>6. CreateCustody'
  BY DEF ShutdownClear, Return, Goto, dispVars, Custody, CreateCustody,
     Creating, Unclaimed, Finalising
<1>7. NoneIsNowhere'
  BY DEF ShutdownClear, Return, Goto, Silence, dispVars, Custody, TypeOK,
     CallTypes, NoneIsNowhere, Unclaimed, Finalising, Ticking, Creating
<1>8. CallCustody'
  BY DEF ShutdownClear, Return, Goto, dispVars, Custody, CallCustody,
     DestroyPlaces
<1>9. LockCustody'
  BY DEF ShutdownClear, lockVars, dispVars, Custody, LockCustody, InCallback
<1>10. DestroyLockCustody'
  BY DEF ShutdownClear, Return, Goto, lockVars, dispVars, Custody,
     DestroyLockCustody, HoldsDestroyLock
<1>11. SilencedStaysSilent' /\ ShutdownQuiesces'
  BY ConstantsAssumption DEF ShutdownClear, Silence, CanLock, dispVars, Custody,
     TypeOK, ObjectTypes, CallTypes, DispatchTypes, SilencedStaysSilent,
     ShutdownQuiesces, LockCustody, InCallback, Threads
<1>12. QED
  BY <1>1, <1>2, <1>3, <1>4, <1>5, <1>6, <1>7, <1>8, <1>9, <1>10, <1>11 DEF
     Custody, TypeOK

\* Custody is kept when destroySession starts on its event objects.
LEMMA DestroyAllEventsKeepsCustody ==
  ASSUME Custody, NEW t \in Threads, NEW s \in Sessions, DestroyAllEvents(t, s)
  PROVE  Custody'
<1>1. ObjectTypes'
  BY DEF DestroyAllEvents, lockVars, mapVars, Custody, TypeOK, ObjectTypes
<1>2. CallTypes'
  BY DEF DestroyAllEvents, Goto, Custody, TypeOK, CallTypes, CallPlaces,
     CreatePlaces, DestroyPlaces
<1>3. DispatchTypes'
  BY DEF DestroyAllEvents, dispVars, Custody, TypeOK, DispatchTypes
<1>4. MapCustody' /\ QueueCustody'
  BY DEF DestroyAllEvents, mapVars, dispVars, Custody, MapCustody, QueueCustody,
     Unclaimed, Finalising
<1>5. ClaimCustody'
  BY DEF DestroyAllEvents, dispVars, Custody, ClaimCustody, Finalising
<1>6. CreateCustody'
  BY DEF DestroyAllEvents, Goto, mapVars, dispVars, Custody, TypeOK, CallTypes,
     CreateCustody, Creating, Unclaimed, Finalising
<1>7. NoneIsNowhere'
  BY DEF DestroyAllEvents, CanCall, Goto, mapVars, dispVars, Custody,
     NoneIsNowhere, Unclaimed, Finalising, Ticking, Creating
<1>8. CallCustody'
  BY ConstantsAssumption DEF DestroyAllEvents, CanCall, Goto, dispVars, Custody,
     CallCustody, DestroyPlaces
<1>9. LockCustody'
  BY DEF DestroyAllEvents, lockVars, dispVars, Custody, LockCustody, InCallback
<1>10. DestroyLockCustody'
  BY DEF DestroyAllEvents, CanCall, Goto, lockVars, dispVars, Custody,
     DestroyLockCustody, HoldsDestroyLock
<1>11. SilencedStaysSilent' /\ ShutdownQuiesces'
  BY DEF DestroyAllEvents, dispVars, Custody, SilencedStaysSilent,
     ShutdownQuiesces
<1>12. QED
  BY <1>1, <1>2, <1>3, <1>4, <1>5, <1>6, <1>7, <1>8, <1>9, <1>10, <1>11 DEF
     Custody, TypeOK

\* Custody is kept when removeAll claims all of the map.
LEMMA SweepMapKeepsCustody ==
  ASSUME Custody, NEW t \in Threads, SweepMap(t)
  PROVE  Custody'
<1>1. ObjectTypes'
  BY DEF SweepMap, lockVars, histVars, Custody, TypeOK, ObjectTypes
<1>2. CallTypes'
  BY DEF SweepMap, Return, Goto, HomeTimers, Custody, TypeOK, ObjectTypes,
     CallTypes, CallPlaces, CreatePlaces, DestroyPlaces
<1>3. DispatchTypes'
  BY DEF SweepMap, dispVars, Custody, TypeOK, DispatchTypes
<1>4. MapCustody' /\ QueueCustody'
  BY DEF SweepMap, dispVars, Custody, MapCustody, QueueCustody, Unclaimed,
     Finalising
<1>5. ClaimCustody'
  BY DEF SweepMap, HomeTimers, dispVars, Custody, ClaimCustody, MapCustody,
     Unclaimed, Finalising
<1>6. CreateCustody'
  <2>1. \A u \in Threads, y \in Timers : Creating(u, y)' => Creating(u, y)
    BY DEF SweepMap, Return, Goto, Custody, TypeOK, CallTypes, Creating
  <2>2. \A y \in Timers : (~Finalising(y))' <=> ~Finalising(y)
    BY DEF SweepMap, dispVars, Finalising
  <2>3. \A u \in Threads, y \in Timers : Creating(u, y) => Unclaimed(y)'
    BY DEF SweepMap, HomeTimers, Custody, CreateCustody, Unclaimed
  <2>4. map' \subseteq map /\ UNCHANGED queued
    BY DEF SweepMap
  <2>5. QED
    BY <2>1, <2>2, <2>3, <2>4 DEF Custody, CreateCustody
<1>7. NoneIsNowhere'
  BY DEF SweepMap, Return, Goto, HomeTimers, dispVars, histVars, Custody,
     TypeOK, CallTypes, NoneIsNowhere, Unclaimed, Finalising, Ticking, Creating
<1>8. CallCustody'
  BY DEF SweepMap, Return, Goto, dispVars, Custody, TypeOK, CallTypes,
     CallCustody, Threads, DestroyPlaces
<1>9. LockCustody'
  BY DEF SweepMap, lockVars, dispVars, Custody, LockCustody, InCallback
<1>10. DestroyLockCustody'
  <2>1. \A u \in Threads, y \in Timers : HoldsDestroyLock(u, y)' <=> HoldsDestroyLock(u, y)
    BY DEF SweepMap, Return, Goto, dispVars, Custody, TypeOK, CallTypes,
       HoldsDestroyLock
  <2>2. UNCHANGED destroyLock
    BY DEF SweepMap, lockVars
  <2>3. QED
    BY <2>1, <2>2 DEF Custody, DestroyLockCustody
<1>11. SilencedStaysSilent' /\ ShutdownQuiesces'
  BY DEF SweepMap, dispVars, histVars, Custody, SilencedStaysSilent,
     ShutdownQuiesces
<1>12. QED
  BY <1>1, <1>2, <1>3, <1>4, <1>5, <1>6, <1>7, <1>8, <1>9, <1>10, <1>11 DEF
     Custody, TypeOK

\* Custody is kept when removeAll goes on to the next wrapper.
LEMMA SweepNextKeepsCustody ==
  ASSUME Custody, NEW t \in Threads, SweepNext(t)
  PROVE  Custody'
<1>1. ObjectTypes'
  BY DEF SweepNext, lockVars, mapVars, histVars, Custody, TypeOK, ObjectTypes
<1>2. CallTypes'
  BY DEF SweepNext, Goto, Custody, TypeOK, CallTypes, CallPlaces, DestroyPlaces
<1>3. DispatchTypes'
  BY DEF SweepNext, dispVars, Custody, TypeOK, DispatchTypes
<1>4. MapCustody' /\ QueueCustody'
  BY DEF SweepNext, mapVars, dispVars, Custody, MapCustody, QueueCustody,
     Unclaimed, Finalising
<1>5. ClaimCustody'
  BY DEF SweepNext, dispVars, Custody, ClaimCustody, Finalising
<1>6. CreateCustody'
  BY DEF SweepNext, Goto, mapVars, dispVars, Custody, CreateCustody, Creating,
     Unclaimed, Finalising
<1>7. NoneIsNowhere'
  BY DEF SweepNext, Goto, mapVars, dispVars, histVars, Custody, NoneIsNowhere,
     Unclaimed, Finalising, Ticking, Creating
<1>8. CallCustody'
  BY DEF SweepNext, Goto, dispVars, Custody, TypeOK, CallTypes, CallCustody,
     DestroyPlaces
<1>9. LockCustody'
  BY DEF SweepNext, lockVars, dispVars, Custody, LockCustody, InCallback
<1>10. DestroyLockCustody'
  BY DEF SweepNext, Goto, lockVars, dispVars, Custody, DestroyLockCustody,
     HoldsDestroyLock
<1>11. SilencedStaysSilent' /\ ShutdownQuiesces'
  BY DEF SweepNext, dispVars, histVars, Custody, SilencedStaysSilent,
     ShutdownQuiesces
<1>12. QED
  BY <1>1, <1>2, <1>3, <1>4, <1>5, <1>6, <1>7, <1>8, <1>9, <1>10, <1>11 DEF
     Custody, TypeOK

\* Custody is kept when MAMA delivers a tick.
LEMMA TickBeginKeepsCustody ==
  ASSUME Custody, NEW s \in Sessions, NEW x \in Timers, TickBegin(s, x)
  PROVE  Custody'
<1>1. ObjectTypes'
  BY DEF TickBegin, lockVars, mapVars, histVars, Custody, TypeOK, ObjectTypes
<1>2. CallTypes'
  BY DEF TickBegin, callVars, Custody, TypeOK, CallTypes
<1>3. DispatchTypes'
  BY DEF TickBegin, Dispatch, Custody, TypeOK, DispatchTypes, DispatchPlaces,
     TickPlaces
<1>4. MapCustody' /\ QueueCustody'
  BY DEF TickBegin, Dispatch, mapVars, callVars, Custody, MapCustody,
     QueueCustody, Unclaimed, Finalising, FinalPlaces
<1>5. ClaimCustody'
  BY DEF TickBegin, Dispatch, callVars, Custody, ClaimCustody, Finalising,
     FinalPlaces
<1>6. CreateCustody'
  BY DEF TickBegin, Dispatch, mapVars, callVars, Custody, CreateCustody,
     Creating, Unclaimed, Finalising, FinalPlaces
<1>7. NoneIsNowhere'
  BY DEF TickBegin, Dispatch, mapVars, callVars, histVars, Custody, TypeOK,
     DispatchTypes, NoneIsNowhere, Unclaimed, Finalising, Ticking, Creating
<1>8. CallCustody'
  BY DEF TickBegin, Dispatch, callVars, Custody, CallCustody
<1>9. LockCustody'
  BY DEF TickBegin, Dispatch, lockVars, Custody, LockCustody, InCallback
<1>10. DestroyLockCustody'
  BY DEF TickBegin, Dispatch, lockVars, callVars, Custody, DestroyLockCustody,
     HoldsDestroyLock
<1>11. SilencedStaysSilent' /\ ShutdownQuiesces'
  BY DEF TickBegin, Dispatch, histVars, Custody, SilencedStaysSilent,
     ShutdownQuiesces
<1>12. QED
  BY <1>1, <1>2, <1>3, <1>4, <1>5, <1>6, <1>7, <1>8, <1>9, <1>10, <1>11 DEF
     Custody, TypeOK

\* Custody is kept when the tick takes m_lock and calls back.
LEMMA TickLockKeepsCustody ==
  ASSUME Custody, NEW s \in Sessions, TickLock(s)
  PROVE  Custody'
<1>1. ObjectTypes'
  <2>1. dtimer[s] \in Timers /\ lock[dtimer[s]] = Free
    BY DEF TickLock, Custody, TypeOK, ObjectTypes, DispatchTypes, LockCustody,
       InCallback
  <2>2. lock' = [lock EXCEPT ![dtimer[s]] = [owner |-> s, depth |-> 1]] \/ UNCHANGED lock
    BY <2>1 DEF TickLock, Locked, Free
  <2>3. [owner |-> s, depth |-> 1] \in Locks(Threads)
    BY DEF Locks, Threads
  <2>4. lock' \in [Timers -> Locks(Threads)]
    BY <2>2, <2>3 DEF Custody, TypeOK, ObjectTypes
  <2>5. QED
    BY <2>4 DEF Custody, TypeOK, ObjectTypes, TickLock, mapVars, histVars
<1>2. CallTypes'
  BY DEF TickLock, callVars, Custody, TypeOK, CallTypes
<1>3. DispatchTypes'
  BY DEF TickLock, Dispatch, Custody, TypeOK, DispatchTypes, DispatchPlaces,
     TickPlaces
<1>4. MapCustody' /\ QueueCustody'
  <2>1. \A y \in Timers : (~Finalising(y))' <=> ~Finalising(y)
    BY ConstantsAssumption DEF TickLock, Dispatch, Custody, TypeOK,
       DispatchTypes, Finalising, FinalPlaces
  <2>2. QED
    BY <2>1 DEF TickLock, mapVars, callVars, Custody, TypeOK, ObjectTypes,
       MapCustody, QueueCustody, Unclaimed
<1>5. ClaimCustody'
  BY ConstantsAssumption DEF TickLock, Dispatch, callVars, Custody, TypeOK,
     DispatchTypes, ClaimCustody, Finalising, FinalPlaces
<1>6. CreateCustody'
  BY ConstantsAssumption DEF TickLock, Dispatch, mapVars, callVars, Custody,
     TypeOK, DispatchTypes, CreateCustody, Creating, Unclaimed, Finalising,
     FinalPlaces
<1>7. NoneIsNowhere'
  BY ConstantsAssumption DEF TickLock, Dispatch, mapVars, callVars, histVars,
     Custody, TypeOK, DispatchTypes, NoneIsNowhere, Unclaimed, Finalising,
     Ticking, Creating, TickPlaces
<1>8. CallCustody'
  BY DEF TickLock, Dispatch, callVars, Custody, TypeOK, DispatchTypes,
     CallCustody
<1>9. LockCustody'
  BY ConstantsAssumption DEF TickLock, Dispatch, Locked, Free, Custody, TypeOK,
     ObjectTypes, DispatchTypes, LockCustody, InCallback
<1>10. DestroyLockCustody'
  <2>1. \A u \in Threads, y \in Timers : HoldsDestroyLock(u, y)' <=> HoldsDestroyLock(u, y)
    BY DEF TickLock, Dispatch, callVars, Custody, TypeOK, DispatchTypes,
       HoldsDestroyLock
  <2>2. UNCHANGED destroyLock
    BY DEF TickLock
  <2>3. QED
    BY <2>1, <2>2 DEF Custody, DestroyLockCustody
<1>11. SilencedStaysSilent' /\ ShutdownQuiesces'
  BY DEF TickLock, Dispatch, histVars, Custody, TypeOK, DispatchTypes,
     SilencedStaysSilent, ShutdownQuiesces
<1>12. QED
  BY <1>1, <1>2, <1>3, <1>4, <1>5, <1>6, <1>7, <1>8, <1>9, <1>10, <1>11 DEF
     Custody, TypeOK

\* Custody is kept when the callback returns.
LEMMA TickReturnKeepsCustody ==
  ASSUME Custody, NEW s \in Sessions, TickReturn(s)
  PROVE  Custody'
<1>1. ObjectTypes'
  BY DEF TickReturn, Unlocked, Free, mapVars, Custody, TypeOK, ObjectTypes,
     DispatchTypes, Locks, LockCustody, InCallback
<1>2. CallTypes'
  BY DEF TickReturn, callVars, Custody, TypeOK, CallTypes
<1>3. DispatchTypes'
  BY DEF TickReturn, Dispatch, Custody, TypeOK, DispatchTypes, DispatchPlaces,
     TickPlaces
<1>4. MapCustody' /\ QueueCustody'
  BY DEF TickReturn, Dispatch, mapVars, callVars, Custody, MapCustody,
     QueueCustody, Unclaimed, Finalising, FinalPlaces
<1>5. ClaimCustody'
  BY DEF TickReturn, Dispatch, callVars, Custody, ClaimCustody, Finalising,
     FinalPlaces
<1>6. CreateCustody'
  BY DEF TickReturn, Dispatch, mapVars, callVars, Custody, CreateCustody,
     Creating, Unclaimed, Finalising, FinalPlaces
<1>7. NoneIsNowhere'
  BY DEF TickReturn, Dispatch, mapVars, callVars, Custody, TypeOK,
     DispatchTypes, NoneIsNowhere, Unclaimed, Finalising, Ticking, Creating,
     TickPlaces
<1>8. CallCustody'
  BY DEF TickReturn, Dispatch, callVars, Custody, CallCustody
<1>9. LockCustody'
  BY DEF TickReturn, Dispatch, Unlocked, Custody, TypeOK, ObjectTypes,
     DispatchTypes, LockCustody, InCallback
<1>10. DestroyLockCustody'
  BY DEF TickReturn, Dispatch, callVars, Custody, DestroyLockCustody,
     HoldsDestroyLock
<1>11. SilencedStaysSilent' /\ ShutdownQuiesces'
  BY DEF TickReturn, Dispatch, Custody, TypeOK, DispatchTypes,
     SilencedStaysSilent, ShutdownQuiesces
<1>12. QED
  BY <1>1, <1>2, <1>3, <1>4, <1>5, <1>6, <1>7, <1>8, <1>9, <1>10, <1>11 DEF
     Custody, TypeOK

\* Custody is kept when the tick, once silenced, waits for m_destroyLock.
LEMMA TickHandshakeKeepsCustody ==
  ASSUME Custody, NEW s \in Sessions, TickHandshake(s)
  PROVE  Custody'
<1>1. ObjectTypes'
  BY DEF TickHandshake, Locked, mapVars, histVars, Custody, TypeOK, ObjectTypes,
     DispatchTypes, Locks, Threads
<1>2. CallTypes'
  BY DEF TickHandshake, callVars, Custody, TypeOK, CallTypes
<1>3. DispatchTypes'
  BY DEF TickHandshake, Dispatch, Custody, TypeOK, DispatchTypes,
     DispatchPlaces, TickPlaces
<1>4. MapCustody' /\ QueueCustody'
  BY DEF TickHandshake, Dispatch, mapVars, callVars, Custody, MapCustody,
     QueueCustody, Unclaimed, Finalising, FinalPlaces
<1>5. ClaimCustody'
  BY DEF TickHandshake, Dispatch, callVars, Custody, ClaimCustody, Finalising,
     FinalPlaces
<1>6. CreateCustody'
  BY DEF TickHandshake, Dispatch, mapVars, callVars, Custody, CreateCustody,
     Creating, Unclaimed, Finalising, FinalPlaces
<1>7. NoneIsNowhere'
  BY DEF TickHandshake, Dispatch, mapVars, callVars, histVars, Custody,
     NoneIsNowhere, Unclaimed, Finalising, Ticking, Creating, TickPlaces
<1>8. CallCustody'
  BY DEF TickHandshake, Dispatch, callVars, Custody, CallCustody
<1>9. LockCustody'
  BY DEF TickHandshake, Dispatch, Custody, LockCustody, InCallback
<1>10. DestroyLockCustody'
  BY ConstantsAssumption DEF TickHandshake, Dispatch, CanLock, Locked, mapVars,
     callVars, Custody, TypeOK, ObjectTypes, CallTypes, DispatchTypes,
     DestroyLockCustody, HoldsDestroyLock, Free, CallCustody, ClaimCustody,
     Finalising, Threads, CreatePlaces, DestroyPlaces, FinalPlaces
<1>11. SilencedStaysSilent' /\ ShutdownQuiesces'
  BY DEF TickHandshake, Dispatch, histVars, Custody, SilencedStaysSilent,
     ShutdownQuiesces
<1>12. QED
  BY <1>1, <1>2, <1>3, <1>4, <1>5, <1>6, <1>7, <1>8, <1>9, <1>10, <1>11 DEF
     Custody, TypeOK

\* Custody is kept when the tick is over.
LEMMA TickEndKeepsCustody ==
  ASSUME Custody, NEW s \in Sessions, TickEnd(s)
  PROVE  Custody'
<1>1. ObjectTypes'
  BY DEF TickEnd, Unlocked, Free, mapVars, histVars, Custody, TypeOK,
     ObjectTypes, DispatchTypes, Locks, DestroyLockCustody, HoldsDestroyLock,
     Threads
<1>2. CallTypes'
  BY DEF TickEnd, callVars, Custody, TypeOK, CallTypes
<1>3. DispatchTypes'
  BY DEF TickEnd, Dispatch, Custody, TypeOK, DispatchTypes, DispatchPlaces
<1>4. MapCustody' /\ QueueCustody'
  BY DEF TickEnd, Dispatch, mapVars, callVars, Custody, MapCustody,
     QueueCustody, Unclaimed, Finalising, FinalPlaces
<1>5. ClaimCustody'
  BY DEF TickEnd, Dispatch, callVars, Custody, ClaimCustody, Finalising,
     FinalPlaces
<1>6. CreateCustody'
  BY DEF TickEnd, Dispatch, mapVars, callVars, Custody, CreateCustody, Creating,
     Unclaimed, Finalising, FinalPlaces
<1>7. NoneIsNowhere'
  BY ConstantsAssumption DEF TickEnd, Dispatch, mapVars, callVars, histVars,
     Custody, NoneIsNowhere, Unclaimed, Finalising, Ticking, Creating,
     TickPlaces
<1>8. CallCustody'
  BY DEF TickEnd, Dispatch, callVars, Custody, CallCustody
<1>9. LockCustody'
  BY DEF TickEnd, Dispatch, Custody, LockCustody, InCallback
<1>10. DestroyLockCustody'
  BY ConstantsAssumption DEF TickEnd, Dispatch, Unlocked, Free, mapVars,
     callVars, histVars, Custody, TypeOK, ObjectTypes, CallTypes, DispatchTypes,
     DestroyLockCustody, HoldsDestroyLock, CallCustody, ClaimCustody, Threads,
     CreatePlaces, DestroyPlaces
<1>11. SilencedStaysSilent' /\ ShutdownQuiesces'
  BY DEF TickEnd, Dispatch, histVars, Custody, SilencedStaysSilent,
     ShutdownQuiesces
<1>12. QED
  BY <1>1, <1>2, <1>3, <1>4, <1>5, <1>6, <1>7, <1>8, <1>9, <1>10, <1>11 DEF
     Custody, TypeOK

\* Custody is kept when the dispatcher takes the destroy event.
LEMMA FinaliseBeginKeepsCustody ==
  ASSUME Custody, NEW s \in Sessions, NEW x \in Timers, FinaliseBegin(s, x)
  PROVE  Custody'
<1>1. ObjectTypes'
  BY DEF FinaliseBegin, lockVars, mapVars, histVars, Custody, TypeOK,
     ObjectTypes
<1>2. CallTypes'
  BY DEF FinaliseBegin, callVars, Custody, TypeOK, CallTypes
<1>3. DispatchTypes'
  BY DEF FinaliseBegin, Dispatch, Custody, TypeOK, DispatchTypes,
     DispatchPlaces, FinalPlaces
<1>4. MapCustody' /\ QueueCustody'
  BY DEF FinaliseBegin, Dispatch, mapVars, callVars, Custody, TypeOK,
     ObjectTypes, DispatchTypes, MapCustody, QueueCustody, Unclaimed, Finalising
<1>5. ClaimCustody'
  BY DEF FinaliseBegin, Dispatch, callVars, Custody, TypeOK, DispatchTypes,
     ClaimCustody, Finalising
<1>6. CreateCustody'
  BY DEF FinaliseBegin, Dispatch, mapVars, callVars, Custody, TypeOK,
     DispatchTypes, CreateCustody, Creating, Unclaimed, Finalising
<1>7. NoneIsNowhere'
  BY DEF FinaliseBegin, Dispatch, mapVars, callVars, histVars, Custody, TypeOK,
     DispatchTypes, NoneIsNowhere, Unclaimed, Finalising, Ticking, Creating
<1>8. CallCustody'
  BY DEF FinaliseBegin, Dispatch, callVars, Custody, CallCustody
<1>9. LockCustody'
  BY DEF FinaliseBegin, Dispatch, lockVars, Custody, LockCustody, InCallback
<1>10. DestroyLockCustody'
  <2>1. \A u \in Threads, y \in Timers : HoldsDestroyLock(u, y)' <=> HoldsDestroyLock(u, y)
    BY DEF FinaliseBegin, Dispatch, callVars, HoldsDestroyLock
  <2>2. UNCHANGED destroyLock
    BY DEF FinaliseBegin, lockVars
  <2>3. QED
    BY <2>1, <2>2 DEF Custody, DestroyLockCustody
<1>11. SilencedStaysSilent' /\ ShutdownQuiesces'
  BY DEF FinaliseBegin, Dispatch, histVars, Custody, SilencedStaysSilent,
     ShutdownQuiesces
<1>12. QED
  BY <1>1, <1>2, <1>3, <1>4, <1>5, <1>6, <1>7, <1>8, <1>9, <1>10, <1>11 DEF
     Custody, TypeOK

\* Custody is kept when onTimerDestroy takes m_destroyLock.
LEMMA FinaliseLockKeepsCustody ==
  ASSUME Custody, NEW s \in Sessions, FinaliseLock(s)
  PROVE  Custody'
<1>1. ObjectTypes'
  BY DEF FinaliseLock, Locked, mapVars, histVars, Custody, TypeOK, ObjectTypes,
     DispatchTypes, Locks, Threads
<1>2. CallTypes'
  BY DEF FinaliseLock, callVars, Custody, TypeOK, CallTypes
<1>3. DispatchTypes'
  BY DEF FinaliseLock, Dispatch, Custody, TypeOK, DispatchTypes, DispatchPlaces,
     FinalPlaces
<1>4. MapCustody' /\ QueueCustody'
  BY DEF FinaliseLock, Dispatch, mapVars, callVars, Custody, MapCustody,
     QueueCustody, Unclaimed, Finalising, FinalPlaces
<1>5. ClaimCustody'
  BY DEF FinaliseLock, Dispatch, callVars, Custody, ClaimCustody, Finalising,
     FinalPlaces
<1>6. CreateCustody'
  BY DEF FinaliseLock, Dispatch, mapVars, callVars, Custody, CreateCustody,
     Creating, Unclaimed, Finalising, FinalPlaces
<1>7. NoneIsNowhere'
  BY DEF FinaliseLock, Dispatch, mapVars, callVars, histVars, Custody,
     NoneIsNowhere, Unclaimed, Finalising, Ticking, Creating, FinalPlaces
<1>8. CallCustody'
  BY DEF FinaliseLock, Dispatch, callVars, Custody, CallCustody
<1>9. LockCustody'
  BY DEF FinaliseLock, Dispatch, Custody, LockCustody, InCallback
<1>10. DestroyLockCustody'
  BY ConstantsAssumption DEF FinaliseLock, Dispatch, CanLock, Locked, callVars,
     Custody, TypeOK, ObjectTypes, CallTypes, DispatchTypes, DestroyLockCustody,
     HoldsDestroyLock, Free, CallCustody, ClaimCustody, Finalising, Threads,
     CreatePlaces, DestroyPlaces, FinalPlaces
<1>11. SilencedStaysSilent' /\ ShutdownQuiesces'
  BY DEF FinaliseLock, Dispatch, histVars, Custody, SilencedStaysSilent,
     ShutdownQuiesces
<1>12. QED
  BY <1>1, <1>2, <1>3, <1>4, <1>5, <1>6, <1>7, <1>8, <1>9, <1>10, <1>11 DEF
     Custody, TypeOK

\* Custody is kept when onTimerDestroy frees the wrapper.
LEMMA FinaliseFreeKeepsCustody ==
  ASSUME Custody, NEW s \in Sessions, FinaliseFree(s)
  PROVE  Custody'
<1>1. ObjectTypes'
  BY DEF FinaliseFree, mapVars, histVars, Custody, TypeOK, ObjectTypes,
     DispatchTypes, Locks, Free
<1>2. CallTypes'
  BY DEF FinaliseFree, callVars, Custody, TypeOK, CallTypes
<1>3. DispatchTypes'
  BY DEF FinaliseFree, Dispatch, Custody, TypeOK, DispatchTypes, DispatchPlaces
<1>4. MapCustody' /\ QueueCustody'
  BY DEF FinaliseFree, Dispatch, mapVars, callVars, Custody, TypeOK,
     DispatchTypes, MapCustody, QueueCustody, Unclaimed, Finalising, FinalPlaces
<1>5. ClaimCustody'
  BY ConstantsAssumption DEF FinaliseFree, Dispatch, callVars, Custody,
     ClaimCustody, Finalising, FinalPlaces
<1>6. CreateCustody'
  BY DEF FinaliseFree, Dispatch, mapVars, callVars, Custody, TypeOK,
     DispatchTypes, CreateCustody, Creating, Unclaimed, Finalising, FinalPlaces
<1>7. NoneIsNowhere'
  BY DEF FinaliseFree, Dispatch, mapVars, callVars, histVars, Custody, TypeOK,
     DispatchTypes, NoneIsNowhere, Unclaimed, Finalising, Ticking, Creating,
     TickPlaces, FinalPlaces
<1>8. CallCustody'
  BY DEF FinaliseFree, Dispatch, callVars, Custody, CallCustody
<1>9. LockCustody'
  BY DEF FinaliseFree, Dispatch, Custody, TypeOK, DispatchTypes, LockCustody,
     InCallback
<1>10. DestroyLockCustody'
  <2>1. dtimer[s] \in Timers /\ destroyLock[dtimer[s]] = [owner |-> s, depth |-> 1]
    BY DEF FinaliseFree, Custody, TypeOK, DispatchTypes, DestroyLockCustody,
       HoldsDestroyLock, Threads
  <2>2. ASSUME NEW u \in Threads, HoldsDestroyLock(u, dtimer[s])
        PROVE  u = s
    <3>1. destroyLock[dtimer[s]] = [owner |-> u, depth |-> 1]
      BY <2>1, <2>2 DEF Custody, DestroyLockCustody
    <3>2. [owner |-> u, depth |-> 1] = [owner |-> s, depth |-> 1]
      BY <2>1, <3>1
    <3>3. QED
      BY <3>2, OwnerOf
  <2>3. pc[s] = "idle"
    BY DEF Custody, CallCustody, FinaliseFree
  <2>4. \A u \in Threads, y \in Timers :
          HoldsDestroyLock(u, y)' <=> (HoldsDestroyLock(u, y) /\ ~(u = s /\ y = dtimer[s]))
    BY <2>3 DEF FinaliseFree, Dispatch, callVars, Custody, TypeOK,
       DispatchTypes, HoldsDestroyLock
  <2>5. QED
    BY <2>2, <2>4 DEF FinaliseFree, Custody, TypeOK, ObjectTypes,
       DestroyLockCustody
<1>11. SilencedStaysSilent' /\ ShutdownQuiesces'
  BY DEF FinaliseFree, Dispatch, histVars, Custody, SilencedStaysSilent,
     ShutdownQuiesces
<1>12. QED
  BY <1>1, <1>2, <1>3, <1>4, <1>5, <1>6, <1>7, <1>8, <1>9, <1>10, <1>11 DEF
     Custody, TypeOK

\* Custody is kept when nothing changes.
LEMMA StutterKeepsCustody ==
  ASSUME Custody, UNCHANGED vars
  PROVE  Custody'
  BY DEF vars, Custody, TypeOK, ObjectTypes, CallTypes, DispatchTypes,
     MapCustody, QueueCustody, ClaimCustody, CreateCustody, NoneIsNowhere,
     CallCustody, LockCustody, DestroyLockCustody, HoldsDestroyLock,
     SilencedStaysSilent, ShutdownQuiesces, Unclaimed, Finalising, Ticking,
     Creating, InCallback

\* Custody is kept when any step is taken.
LEMMA NextKeepsCustody == Custody /\ [Next]_vars => Custody'
<1> SUFFICES ASSUME Custody, [Next]_vars PROVE Custody'
  OBVIOUS
<1>1. ASSUME NEW t \in Threads, Begin(t)
      PROVE  Custody'
  BY <1>1, CreateAllocateKeepsCustody, DestroyTimerKeepsCustody,
     ShutdownTimerKeepsCustody, DestroyAllEventsKeepsCustody DEF Begin
<1>2. ASSUME NEW t \in Threads, WaitMap(t) \/ DestroyLock(t)
      PROVE  Custody'
  BY <1>2, CreateInsertKeepsCustody, DestroyRemoveKeepsCustody,
     DestroyAbsentKeepsCustody, ShutdownFindKeepsCustody, SweepMapKeepsCustody,
     DestroyLockKeepsCustody DEF WaitMap
<1>3. ASSUME NEW t \in Threads, Continue(t)
      PROVE  Custody'
  BY <1>3, CreateMamaTimerKeepsCustody, CreateFailsKeepsCustody,
     CreateReturnKeepsCustody, DestroyClearKeepsCustody,
     DestroyEnqueueKeepsCustody, ShutdownClearKeepsCustody,
     SweepNextKeepsCustody DEF Continue
<1>4. ASSUME NEW s \in Sessions, NEW x \in Timers, TickBegin(s, x) \/ FinaliseBegin(s, x)
      PROVE  Custody'
  BY <1>4, TickBeginKeepsCustody, FinaliseBeginKeepsCustody
<1>5. ASSUME NEW s \in Sessions, Tick(s) \/ TickReturn(s) \/ Finalise(s)
      PROVE  Custody'
  BY <1>5, TickLockKeepsCustody, TickHandshakeKeepsCustody, TickEndKeepsCustody,
     TickReturnKeepsCustody, FinaliseLockKeepsCustody, FinaliseFreeKeepsCustody
  DEF Tick, Finalise
<1>6. CASE UNCHANGED vars
  BY <1>6, StutterKeepsCustody
<1>7. QED
  BY <1>1, <1>2, <1>3, <1>4, <1>5, <1>6 DEF Next

\* Custody holds in every behaviour, whatever the environment does.
THEOREM CustodyAlways == Spec => []Custody
<1>1. Init => Custody
  BY InitCustody
<1>2. Custody /\ [Next]_vars => Custody'
  BY NextKeepsCustody
<1>3. QED
  BY <1>1, <1>2, PTL DEF Spec

\* Every variable keeps its type.
THEOREM TypeCorrect == Spec => []TypeOK
<1>1. Custody => TypeOK
  BY DEF Custody
<1>2. QED
  BY <1>1, CustodyAlways, PTL

\* At most one destroy event is queued for a timer, and one call claims it.
THEOREM DestroyedOnceAlways == Spec => []DestroyedOnce
<1>1. Custody => DestroyedOnce
  BY DEF Custody, DestroyedOnce, MapCustody, ClaimCustody, QueueCustody
<1>2. QED
  BY <1>1, CustodyAlways, PTL

\* A timer that has been silenced is in no callback.
THEOREM ShutdownQuiescesAlways == Spec => []ShutdownQuiesces
<1>1. Custody => ShutdownQuiesces
  BY DEF Custody
<1>2. QED
  BY <1>1, CustodyAlways, PTL

\* onTimerDestroy finds both locks free or its own.
THEOREM FinaliseNeverWaitsAlways == Spec => []FinaliseNeverWaits
<1>1. ASSUME Custody, NEW s \in Sessions, dpc[s] \in FinalPlaces
      PROVE  CanLock(lock[dtimer[s]], s)
  <2>1. dtimer[s] \in Timers /\ Home[dtimer[s]] = s
    BY <1>1 DEF Custody, TypeOK, DispatchTypes, FinalPlaces
  <2>2. ~InCallback(dtimer[s])
    BY <1>1, <2>1 DEF InCallback, FinalPlaces
  <2>3. lock[dtimer[s]] = Free
    BY <1>1, <2>1, <2>2 DEF Custody, LockCustody
  <2>4. QED
    BY <2>3 DEF CanLock, Free
<1>2. ASSUME Custody, NEW s \in Sessions, dpc[s] = "finalDestroyLock"
      PROVE  CanLock(destroyLock[dtimer[s]], s)
  <2>1. dtimer[s] \in Timers /\ Home[dtimer[s]] = s /\ Finalising(dtimer[s])
    BY <1>2 DEF Custody, TypeOK, DispatchTypes, Finalising, FinalPlaces
  <2>2. ASSUME NEW t \in Threads, HoldsDestroyLock(t, dtimer[s])
        PROVE  FALSE
    <3>1. CASE pc[t] = "clear" /\ arg[t] = dtimer[s]
      BY <1>2, <2>1, <3>1 DEF Custody, CallCustody, ClaimCustody, DestroyPlaces
    <3>2. CASE t \in Sessions /\ dpc[t] \in {"standBack", "finalLock"}
                             /\ dtimer[t] = dtimer[s]
      BY <1>2, <3>2 DEF Custody, TypeOK, DispatchTypes
    <3>3. QED
      BY <2>2, <3>1, <3>2 DEF HoldsDestroyLock
  <2>3. destroyLock[dtimer[s]] = Free
    BY <1>2, <2>1, <2>2 DEF Custody, DestroyLockCustody
  <2>4. QED
    BY <2>3 DEF CanLock, Free
<1>3. Custody => FinaliseNeverWaits
  BY <1>1, <1>2 DEF FinaliseNeverWaits
<1>4. QED
  BY <1>3, CustodyAlways, PTL

-----------------------------------------------------------------------------
(* When createTimer is not raced.                                          *)

\* The invariant holds at first.
LEMMA InitInUse == Init => InUse
  BY InitCustody, ConstantsAssumption DEF Init, InUse, InUseIsOpen,
     UnpublishedIsPrivate, ShutdownPins, DestroyTakesEffect, Unclaimed,
     Finalising, Ticking, CreatePlaces

\* InUse is kept when createTimer allocates a wrapper nobody knows.
LEMMA CreateAllocateKeepsInUse ==
  ASSUME Quiet, InUse, NEW t \in Threads, NEW x \in Timers, CreateAllocate(t, x)
  PROVE  InUse'
<1>1. Custody'
  BY CreateAllocateKeepsCustody DEF InUse
<1>2. InUseIsOpen'
  BY DEF CreateAllocate, Goto, mapVars, dispVars, InUse, Custody, TypeOK,
     ObjectTypes, CallTypes, InUseIsOpen, Unclaimed, Finalising, Ticking
<1>3. UnpublishedIsPrivate'
  <2>1. CASE phase' = [phase EXCEPT ![x] = "allocated"] /\ Goto(t, "createTimer", x)
    BY <2>1 DEF CreateAllocate, Goto, mapVars, histVars, Custody, TypeOK,
       CallTypes, InUse, UnpublishedIsPrivate, InUseIsOpen, NoCreation, Quiet,
       CreatePlaces
  <2>2. CASE phase' = [phase EXCEPT ![x] = "freed"] /\ UNCHANGED <<callback, nullLock, pc, arg>>
    BY <2>2 DEF CreateAllocate, mapVars, histVars, InUse, UnpublishedIsPrivate,
       NoCreation
  <2>3. QED
    BY <2>1, <2>2 DEF CreateAllocate
<1>4. ShutdownPins'
  BY DEF CreateAllocate, CanCall, Goto, mapVars, InUse, Custody, TypeOK,
     ObjectTypes, CallTypes, ShutdownPins
<1>5. DestroyTakesEffect'
  BY DEF CreateAllocate, mapVars, histVars, InUse, DestroyTakesEffect
<1>6. QED
  BY <1>1, <1>2, <1>3, <1>4, <1>5 DEF InUse

\* InUse is kept when createTimer creates the MAMA timer, which ticks.
LEMMA CreateMamaTimerKeepsInUse ==
  ASSUME Quiet, InUse, NEW t \in Threads, CreateMamaTimer(t)
  PROVE  InUse'
<1>1. Custody'
  BY CreateMamaTimerKeepsCustody DEF InUse
<1>2. InUseIsOpen'
  BY DEF CreateMamaTimer, Goto, mapVars, dispVars, InUse, Custody, TypeOK,
     ObjectTypes, CallTypes, InUseIsOpen, UnpublishedIsPrivate, Unclaimed,
     Finalising, Ticking, CreatePlaces
<1>3. UnpublishedIsPrivate'
  BY DEF CreateMamaTimer, Goto, mapVars, histVars, InUse, UnpublishedIsPrivate,
     NoCreation, CreatePlaces
<1>4. ShutdownPins'
  BY DEF CreateMamaTimer, Goto, mapVars, InUse, ShutdownPins
<1>5. DestroyTakesEffect'
  BY DEF CreateMamaTimer, mapVars, histVars, InUse, DestroyTakesEffect
<1>6. QED
  BY <1>1, <1>2, <1>3, <1>4, <1>5 DEF InUse

\* InUse is kept when createTimer puts the wrapper into the map.
LEMMA CreateInsertKeepsInUse ==
  ASSUME Quiet, InUse, NEW t \in Threads, CreateInsert(t)
  PROVE  InUse'
<1>1. Custody'
  BY CreateInsertKeepsCustody DEF InUse
<1>2. InUseIsOpen'
  BY DEF CreateInsert, Goto, dispVars, InUse, InUseIsOpen, Unclaimed,
     Finalising, Ticking
<1>3. UnpublishedIsPrivate'
  BY DEF CreateInsert, Goto, histVars, InUse, UnpublishedIsPrivate, NoCreation,
     CreatePlaces
<1>4. ShutdownPins'
  BY DEF CreateInsert, Goto, InUse, ShutdownPins
<1>5. DestroyTakesEffect'
  BY DEF CreateInsert, histVars, InUse, DestroyTakesEffect,
     UnpublishedIsPrivate, CreatePlaces
<1>6. QED
  BY <1>1, <1>2, <1>3, <1>4, <1>5 DEF InUse

\* InUse is kept when createTimer frees what it has allocated.
LEMMA CreateFailsKeepsInUse ==
  ASSUME Quiet, InUse, NEW t \in Threads, CreateFails(t)
  PROVE  InUse'
<1>1. Custody'
  BY CreateFailsKeepsCustody DEF InUse
<1>2. InUseIsOpen'
  BY DEF CreateFails, Return, Goto, mapVars, dispVars, Quiet, InUse, Custody,
     TypeOK, CallTypes, InUseIsOpen, CreateCustody, Unclaimed, Finalising,
     Ticking, Creating
<1>3. UnpublishedIsPrivate'
  BY DEF CreateFails, Return, Goto, mapVars, histVars, InUse, Custody, TypeOK,
     CallTypes, UnpublishedIsPrivate, NoCreation, CreatePlaces
<1>4. ShutdownPins'
  BY DEF CreateFails, Return, Goto, mapVars, InUse, ShutdownPins
<1>5. DestroyTakesEffect'
  BY DEF CreateFails, mapVars, histVars, InUse, DestroyTakesEffect
<1>6. QED
  BY <1>1, <1>2, <1>3, <1>4, <1>5 DEF InUse

\* InUse is kept when createTimer returns the wrapper.
LEMMA CreateReturnKeepsInUse ==
  ASSUME Quiet, InUse, NEW t \in Threads, CreateReturn(t)
  PROVE  InUse'
<1>1. Custody'
  BY CreateReturnKeepsCustody DEF InUse
<1>2. InUseIsOpen'
  BY DEF CreateReturn, Return, Goto, mapVars, dispVars, InUse, InUseIsOpen,
     Unclaimed, Finalising, Ticking
<1>3. UnpublishedIsPrivate'
  BY DEF CreateReturn, Return, Goto, mapVars, InUse, Custody, TypeOK, CallTypes,
     UnpublishedIsPrivate, NoCreation, NoneIsNowhere, CreatePlaces
<1>4. ShutdownPins'
  BY DEF CreateReturn, Return, Goto, mapVars, InUse, ShutdownPins
<1>5. DestroyTakesEffect'
  BY DEF CreateReturn, mapVars, InUse, DestroyTakesEffect
<1>6. QED
  BY <1>1, <1>2, <1>3, <1>4, <1>5 DEF InUse

\* InUse is kept when destroyTimer is called.
LEMMA DestroyTimerKeepsInUse ==
  ASSUME Quiet, InUse, NEW t \in Threads, NEW x \in Timers, DestroyTimer(t, x)
  PROVE  InUse'
<1>1. Custody'
  BY DestroyTimerKeepsCustody DEF InUse
<1>2. InUseIsOpen'
  BY DEF DestroyTimer, CanCall, Goto, mapVars, dispVars, InUse, InUseIsOpen,
     Unclaimed, Finalising, Ticking
<1>3. UnpublishedIsPrivate'
  BY DEF DestroyTimer, Knows, Goto, mapVars, histVars, Quiet, InUse, Custody,
     TypeOK, CallTypes, UnpublishedIsPrivate, NoCreation, CreatePlaces
<1>4. ShutdownPins'
  BY DEF DestroyTimer, CanCall, Goto, mapVars, InUse, ShutdownPins
<1>5. DestroyTakesEffect'
  BY DEF DestroyTimer, mapVars, histVars, InUse, DestroyTakesEffect
<1>6. QED
  BY <1>1, <1>2, <1>3, <1>4, <1>5 DEF InUse

\* InUse is kept when destroyTimer removes the wrapper, and so claims it.
LEMMA DestroyRemoveKeepsInUse ==
  ASSUME Quiet, InUse, NEW t \in Threads, DestroyRemove(t)
  PROVE  InUse'
<1>1. Custody'
  BY DestroyRemoveKeepsCustody DEF InUse
<1>2. InUseIsOpen'
  BY DEF DestroyRemove, Goto, dispVars, InUse, InUseIsOpen, Unclaimed,
     Finalising, Ticking
<1>3. UnpublishedIsPrivate'
  BY DEF DestroyRemove, Goto, InUse, UnpublishedIsPrivate, NoCreation,
     CreatePlaces
<1>4. ShutdownPins'
  BY ConstantsAssumption DEF DestroyRemove, Goto, MapFree, InUse, ShutdownPins
<1>5. DestroyTakesEffect'
  BY DEF DestroyRemove, InUse, DestroyTakesEffect
<1>6. QED
  BY <1>1, <1>2, <1>3, <1>4, <1>5 DEF InUse

\* InUse is kept when destroyTimer finds no wrapper in the map.
LEMMA DestroyAbsentKeepsInUse ==
  ASSUME Quiet, InUse, NEW t \in Threads, DestroyAbsent(t)
  PROVE  InUse'
<1>1. Custody'
  BY DestroyAbsentKeepsCustody DEF InUse
<1>2. InUseIsOpen'
  BY DEF DestroyAbsent, Return, Goto, mapVars, dispVars, InUse, InUseIsOpen,
     Unclaimed, Finalising, Ticking
<1>3. UnpublishedIsPrivate'
  BY DEF DestroyAbsent, Return, Goto, mapVars, InUse, Custody, TypeOK,
     CallTypes, UnpublishedIsPrivate, NoCreation, CreatePlaces
<1>4. ShutdownPins'
  BY DEF DestroyAbsent, Return, Goto, mapVars, InUse, ShutdownPins
<1>5. DestroyTakesEffect'
  BY DEF DestroyAbsent, mapVars, InUse, DestroyTakesEffect
<1>6. QED
  BY <1>1, <1>2, <1>3, <1>4, <1>5 DEF InUse

\* InUse is kept when destroyTimer takes m_destroyLock.
LEMMA DestroyLockKeepsInUse ==
  ASSUME Quiet, InUse, NEW t \in Threads, DestroyLock(t)
  PROVE  InUse'
<1>1. Custody'
  BY DestroyLockKeepsCustody DEF InUse
<1>2. InUseIsOpen'
  BY DEF DestroyLock, Goto, mapVars, dispVars, InUse, InUseIsOpen, Unclaimed,
     Finalising, Ticking
<1>3. UnpublishedIsPrivate'
  BY DEF DestroyLock, Goto, mapVars, histVars, InUse, UnpublishedIsPrivate,
     NoCreation, CreatePlaces
<1>4. ShutdownPins'
  BY DEF DestroyLock, Goto, mapVars, InUse, ShutdownPins
<1>5. DestroyTakesEffect'
  BY DEF DestroyLock, mapVars, histVars, InUse, DestroyTakesEffect
<1>6. QED
  BY <1>1, <1>2, <1>3, <1>4, <1>5 DEF InUse

\* InUse is kept when destroyTimer silences the timer under m_lock.
LEMMA DestroyClearKeepsInUse ==
  ASSUME Quiet, InUse, NEW t \in Threads, DestroyClear(t)
  PROVE  InUse'
<1>1. Custody'
  BY DestroyClearKeepsCustody DEF InUse
<1>2. InUseIsOpen'
  BY DEF DestroyClear, Goto, mapVars, dispVars, InUse, InUseIsOpen, Unclaimed,
     Finalising, Ticking
<1>3. UnpublishedIsPrivate'
  BY DEF DestroyClear, Goto, mapVars, InUse, UnpublishedIsPrivate, NoCreation,
     CreatePlaces
<1>4. ShutdownPins'
  BY DEF DestroyClear, Goto, mapVars, InUse, ShutdownPins
<1>5. DestroyTakesEffect'
  BY DEF DestroyClear, mapVars, InUse, DestroyTakesEffect
<1>6. QED
  BY <1>1, <1>2, <1>3, <1>4, <1>5 DEF InUse

\* InUse is kept when destroyTimer gives the wrapper to the queue.
LEMMA DestroyEnqueueKeepsInUse ==
  ASSUME Quiet, InUse, NEW t \in Threads, DestroyEnqueue(t)
  PROVE  InUse'
<1>1. Custody'
  BY DestroyEnqueueKeepsCustody DEF InUse
<1>2. InUseIsOpen'
  <2>1. /\ pc \in [Threads -> CallPlaces] /\ claimed \in [Threads -> SUBSET Timers]
        /\ DOMAIN arg = Threads
    BY DEF InUse, Custody, TypeOK, CallTypes
  <2>2. pc'[t] \in {"idle", "sweep"}
    BY <2>1 DEF DestroyEnqueue, Return, Goto
  <2>3. \A u \in Threads : u # t => pc'[u] = pc[u] /\ arg'[u] = arg[u]
    BY <2>1 DEF DestroyEnqueue, Return, Goto
  <2>4. UNCHANGED <<phase, map, dpc, dtimer, published, closing, destroyed>>
    BY DEF DestroyEnqueue, mapVars, dispVars, histVars
  <2>5. arg[t] \in claimed[t]
    BY DEF DestroyEnqueue, InUse, Custody, CallCustody, DestroyPlaces
  <2>6. \A y \in Timers : ~Unclaimed(y)' => ~Unclaimed(y)
    BY <2>1 DEF DestroyEnqueue, Unclaimed
  <2>7. arg[t] \in Timers /\ phase[arg[t]] = "open"
    BY <2>1, <2>5 DEF InUse, InUseIsOpen, Unclaimed
  <2>8. \A y \in Timers : y # arg[t] => queued'[y] = queued[y]
    BY DEF DestroyEnqueue, InUse, Custody, TypeOK, ObjectTypes
  <2>9. QED
    BY <2>2, <2>3, <2>4, <2>6, <2>7, <2>8 DEF InUse, InUseIsOpen, Finalising,
       Ticking
<1>3. UnpublishedIsPrivate'
  <2>1. /\ pc \in [Threads -> CallPlaces] /\ claimed \in [Threads -> SUBSET Timers]
        /\ DOMAIN arg = Threads
    BY DEF InUse, Custody, TypeOK, CallTypes
  <2>2. pc'[t] \in {"idle", "sweep"}
    BY <2>1 DEF DestroyEnqueue, Return, Goto
  <2>3. \A u \in Threads : u # t => pc'[u] = pc[u] /\ arg'[u] = arg[u]
    BY <2>1 DEF DestroyEnqueue, Return, Goto
  <2>4. UNCHANGED <<phase, map, dpc, dtimer, published, closing, destroyed>>
    BY DEF DestroyEnqueue, mapVars, dispVars, histVars
  <2>5. QED
    BY <2>2, <2>3, <2>4 DEF InUse, UnpublishedIsPrivate, NoCreation,
       CreatePlaces
<1>4. ShutdownPins'
  BY DEF DestroyEnqueue, Return, Goto, mapVars, InUse, Custody, TypeOK,
     ObjectTypes, CallTypes, ShutdownPins
<1>5. DestroyTakesEffect'
  BY DEF DestroyEnqueue, mapVars, histVars, InUse, DestroyTakesEffect
<1>6. QED
  BY <1>1, <1>2, <1>3, <1>4, <1>5 DEF InUse

\* InUse is kept when shutdownTimer is called.
LEMMA ShutdownTimerKeepsInUse ==
  ASSUME Quiet, InUse, NEW t \in Threads, NEW x \in Timers, ShutdownTimer(t, x)
  PROVE  InUse'
<1>1. Custody'
  BY ShutdownTimerKeepsCustody DEF InUse
<1>2. InUseIsOpen'
  BY DEF ShutdownTimer, CanCall, Goto, mapVars, dispVars, InUse, InUseIsOpen,
     Unclaimed, Finalising, Ticking
<1>3. UnpublishedIsPrivate'
  BY DEF ShutdownTimer, Knows, Goto, mapVars, histVars, Quiet, InUse, Custody,
     TypeOK, CallTypes, UnpublishedIsPrivate, NoCreation, CreatePlaces
<1>4. ShutdownPins'
  BY DEF ShutdownTimer, CanCall, Goto, mapVars, InUse, ShutdownPins
<1>5. DestroyTakesEffect'
  BY DEF ShutdownTimer, mapVars, histVars, InUse, DestroyTakesEffect
<1>6. QED
  BY <1>1, <1>2, <1>3, <1>4, <1>5 DEF InUse

\* InUse is kept when shutdownTimer finds the wrapper and locks the map.
LEMMA ShutdownFindKeepsInUse ==
  ASSUME Quiet, InUse, NEW t \in Threads, ShutdownFind(t)
  PROVE  InUse'
<1>1. Custody'
  BY ShutdownFindKeepsCustody DEF InUse
<1>2. InUseIsOpen'
  <2>1. /\ pc \in [Threads -> CallPlaces] /\ claimed \in [Threads -> SUBSET Timers]
        /\ DOMAIN arg = Threads
    BY DEF InUse, Custody, TypeOK, CallTypes
  <2>2. pc'[t] \in {"idle", "shutdown"}
    BY <2>1 DEF ShutdownFind, Return, Goto
  <2>3. \A u \in Threads : u # t =>
          pc'[u] = pc[u] /\ arg'[u] = arg[u] /\ claimed'[u] = claimed[u]
    BY <2>1 DEF ShutdownFind, Return, Goto
  <2>4. UNCHANGED <<phase, map, queued, claimed, dpc, dtimer, published, closing, destroyed>>
    BY DEF ShutdownFind, dispVars, histVars
  <2>5. QED
    BY <2>2, <2>3, <2>4 DEF InUse, InUseIsOpen, Finalising, Ticking, Unclaimed
<1>3. UnpublishedIsPrivate'
  <2>1. /\ pc \in [Threads -> CallPlaces] /\ claimed \in [Threads -> SUBSET Timers]
        /\ DOMAIN arg = Threads
    BY DEF InUse, Custody, TypeOK, CallTypes
  <2>2. pc'[t] \in {"idle", "shutdown"}
    BY <2>1 DEF ShutdownFind, Return, Goto
  <2>3. \A u \in Threads : u # t =>
          pc'[u] = pc[u] /\ arg'[u] = arg[u] /\ claimed'[u] = claimed[u]
    BY <2>1 DEF ShutdownFind, Return, Goto
  <2>4. UNCHANGED <<phase, map, queued, claimed, dpc, dtimer, published, closing, destroyed>>
    BY DEF ShutdownFind, dispVars, histVars
  <2>5. pc'[t] = "shutdown" => arg'[t] \in published
    BY <2>1 DEF ShutdownFind, Return, Goto, InUse, UnpublishedIsPrivate
  <2>6. QED
    BY <2>2, <2>3, <2>4, <2>5 DEF InUse, UnpublishedIsPrivate, NoCreation,
       CreatePlaces
<1>4. ShutdownPins'
  BY ConstantsAssumption DEF ShutdownFind, Return, Goto, MapFree, InUse,
     Custody, TypeOK, ObjectTypes, CallTypes, ShutdownPins
<1>5. DestroyTakesEffect'
  BY DEF ShutdownFind, histVars, InUse, DestroyTakesEffect
<1>6. QED
  BY <1>1, <1>2, <1>3, <1>4, <1>5 DEF InUse

\* InUse is kept when shutdownTimer silences the timer under m_lock.
LEMMA ShutdownClearKeepsInUse ==
  ASSUME Quiet, InUse, NEW t \in Threads, ShutdownClear(t)
  PROVE  InUse'
<1>1. Custody'
  BY ShutdownClearKeepsCustody DEF InUse
<1>2. InUseIsOpen'
  BY DEF ShutdownClear, Return, Goto, dispVars, InUse, InUseIsOpen, Unclaimed,
     Finalising, Ticking
<1>3. UnpublishedIsPrivate'
  BY DEF ShutdownClear, Return, Goto, InUse, Custody, TypeOK, CallTypes,
     UnpublishedIsPrivate, NoCreation, CreatePlaces
<1>4. ShutdownPins'
  BY DEF ShutdownClear, Return, Goto, InUse, Custody, TypeOK, ObjectTypes,
     CallTypes, ShutdownPins
<1>5. DestroyTakesEffect'
  BY DEF ShutdownClear, InUse, DestroyTakesEffect
<1>6. QED
  BY <1>1, <1>2, <1>3, <1>4, <1>5 DEF InUse

\* InUse is kept when destroySession starts on its event objects.
LEMMA DestroyAllEventsKeepsInUse ==
  ASSUME Quiet, InUse, NEW t \in Threads, NEW s \in Sessions, DestroyAllEvents(t, s)
  PROVE  InUse'
<1>1. Custody'
  BY DestroyAllEventsKeepsCustody DEF InUse
<1>2. InUseIsOpen'
  BY ConstantsAssumption DEF DestroyAllEvents, Goto, mapVars, dispVars, InUse,
     InUseIsOpen, Unclaimed, Finalising, Ticking
<1>3. UnpublishedIsPrivate'
  BY DEF DestroyAllEvents, Goto, mapVars, Quiet, InUse, Custody, TypeOK,
     CallTypes, UnpublishedIsPrivate, NoCreation, CreatePlaces
<1>4. ShutdownPins'
  BY DEF DestroyAllEvents, CanCall, Goto, mapVars, InUse, ShutdownPins
<1>5. DestroyTakesEffect'
  BY DEF DestroyAllEvents, mapVars, InUse, DestroyTakesEffect
<1>6. QED
  BY <1>1, <1>2, <1>3, <1>4, <1>5 DEF InUse

\* InUse is kept when removeAll claims all of the map.
LEMMA SweepMapKeepsInUse ==
  ASSUME Quiet, InUse, NEW t \in Threads, SweepMap(t)
  PROVE  InUse'
<1>1. Custody'
  BY SweepMapKeepsCustody DEF InUse
<1>2. InUseIsOpen'
  <2>1. /\ pc \in [Threads -> CallPlaces] /\ claimed \in [Threads -> SUBSET Timers]
        /\ DOMAIN arg = Threads
    BY DEF InUse, Custody, TypeOK, CallTypes
  <2>2. pc'[t] \in {"idle", "sweep"}
    BY <2>1 DEF SweepMap, Return, Goto
  <2>3. \A u \in Threads : u # t =>
          pc'[u] = pc[u] /\ arg'[u] = arg[u] /\ claimed'[u] = claimed[u]
    BY <2>1 DEF SweepMap, Return, Goto
  <2>4. /\ map' = map \ HomeTimers(arg[t])
        /\ UNCHANGED <<phase, callback, lock, destroyLock, nullLock, mapLock, queued,
                       dpc, dtimer, published, closing, destroyed, silenced>>
    BY DEF SweepMap, lockVars, dispVars, histVars
  <2>5. claimed'[t] \subseteq map
    BY <2>1 DEF SweepMap, HomeTimers
  <2>6. \A y \in Timers : ~Unclaimed(y)' => ~Unclaimed(y) \/ y \in map
    BY <2>3, <2>5 DEF Unclaimed
  <2>7. QED
    BY <2>2, <2>3, <2>4, <2>6 DEF InUse, InUseIsOpen, Finalising, Ticking
<1>3. UnpublishedIsPrivate'
  <2>1. /\ pc \in [Threads -> CallPlaces] /\ claimed \in [Threads -> SUBSET Timers]
        /\ DOMAIN arg = Threads
    BY DEF InUse, Custody, TypeOK, CallTypes
  <2>2. pc'[t] \in {"idle", "sweep"}
    BY <2>1 DEF SweepMap, Return, Goto
  <2>3. \A u \in Threads : u # t =>
          pc'[u] = pc[u] /\ arg'[u] = arg[u] /\ claimed'[u] = claimed[u]
    BY <2>1 DEF SweepMap, Return, Goto
  <2>4. /\ map' = map \ HomeTimers(arg[t])
        /\ UNCHANGED <<phase, callback, lock, destroyLock, nullLock, mapLock, queued,
                       dpc, dtimer, published, closing, destroyed, silenced>>
    BY DEF SweepMap, lockVars, dispVars, histVars
  <2>5. pc[t] = "removeAll" /\ arg[t] \in closing /\ mapLock[arg[t]] = NoThread
    BY DEF SweepMap, InUse, UnpublishedIsPrivate
  <2>6. \A u \in Threads : pc'[u] = "publish" => arg'[u] \in map'
    <3>1. SUFFICES ASSUME NEW u \in Threads, u # t, pc[u] = "publish",
                          arg[u] \in HomeTimers(arg[t])
                   PROVE  FALSE
      BY <2>2, <2>3, <2>4 DEF InUse, UnpublishedIsPrivate
    <3>2. QED
      BY <2>5, <3>1 DEF InUse, UnpublishedIsPrivate, NoCreation, CreatePlaces,
         HomeTimers
  <2>7. QED
    BY <2>2, <2>3, <2>4, <2>6 DEF InUse, UnpublishedIsPrivate, NoCreation,
       CreatePlaces
<1>4. ShutdownPins'
  <2>1. /\ pc \in [Threads -> CallPlaces] /\ claimed \in [Threads -> SUBSET Timers]
        /\ DOMAIN arg = Threads
    BY DEF InUse, Custody, TypeOK, CallTypes
  <2>2. pc'[t] \in {"idle", "sweep"}
    BY <2>1 DEF SweepMap, Return, Goto
  <2>3. \A u \in Threads : u # t =>
          pc'[u] = pc[u] /\ arg'[u] = arg[u] /\ claimed'[u] = claimed[u]
    BY <2>1 DEF SweepMap, Return, Goto
  <2>4. /\ map' = map \ HomeTimers(arg[t])
        /\ UNCHANGED <<phase, callback, lock, destroyLock, nullLock, mapLock, queued,
                       dpc, dtimer, published, closing, destroyed, silenced>>
    BY DEF SweepMap, lockVars, dispVars, histVars
  <2>5. pc[t] = "removeAll" /\ arg[t] \in closing /\ mapLock[arg[t]] = NoThread
    BY DEF SweepMap, InUse, UnpublishedIsPrivate
  <2>6. ASSUME NEW u \in Threads, pc'[u] = "shutdown"
        PROVE  arg'[u] \in map' /\ mapLock'[Home[arg'[u]]] = u
    <3>1. pc[u] = "shutdown" /\ arg'[u] = arg[u] /\ arg[u] \in map
          /\ mapLock[Home[arg[u]]] = u
      BY <2>2, <2>3, <2>6 DEF InUse, ShutdownPins
    <3>2. Home[arg[u]] # arg[t]
      BY <2>5, <3>1, ConstantsAssumption
    <3>3. QED
      BY <2>4, <3>1, <3>2 DEF HomeTimers
  <2>7. ASSUME NEW s \in Sessions, mapLock'[s] # NoThread
        PROVE  pc'[mapLock'[s]] = "shutdown" /\ Home[arg'[mapLock'[s]]] = s
    <3>1. mapLock[s] \in Threads
      BY <2>4, <2>7 DEF InUse, Custody, TypeOK, ObjectTypes
    <3>2. QED
      BY <2>3, <2>4, <2>5, <2>7, <3>1 DEF InUse, ShutdownPins
  <2>8. QED
    BY <2>6, <2>7 DEF ShutdownPins
<1>5. DestroyTakesEffect'
  BY DEF SweepMap, histVars, InUse, DestroyTakesEffect
<1>6. QED
  BY <1>1, <1>2, <1>3, <1>4, <1>5 DEF InUse

\* InUse is kept when removeAll goes on to the next wrapper.
LEMMA SweepNextKeepsInUse ==
  ASSUME Quiet, InUse, NEW t \in Threads, SweepNext(t)
  PROVE  InUse'
<1>1. Custody'
  BY SweepNextKeepsCustody DEF InUse
<1>2. InUseIsOpen'
  BY DEF SweepNext, Goto, mapVars, dispVars, InUse, InUseIsOpen, Unclaimed,
     Finalising, Ticking
<1>3. UnpublishedIsPrivate'
  BY DEF SweepNext, Goto, mapVars, histVars, InUse, UnpublishedIsPrivate,
     NoCreation, CreatePlaces
<1>4. ShutdownPins'
  BY DEF SweepNext, Goto, mapVars, InUse, ShutdownPins
<1>5. DestroyTakesEffect'
  BY DEF SweepNext, mapVars, histVars, InUse, DestroyTakesEffect
<1>6. QED
  BY <1>1, <1>2, <1>3, <1>4, <1>5 DEF InUse

\* InUse is kept when MAMA delivers a tick.
LEMMA TickBeginKeepsInUse ==
  ASSUME Quiet, InUse, NEW s \in Sessions, NEW x \in Timers, TickBegin(s, x)
  PROVE  InUse'
<1>1. Custody'
  BY TickBeginKeepsCustody DEF InUse
<1>2. InUseIsOpen'
  BY DEF TickBegin, Dispatch, mapVars, callVars, InUse, Custody, TypeOK,
     DispatchTypes, InUseIsOpen, Unclaimed, Finalising, Ticking
<1>3. UnpublishedIsPrivate'
  BY DEF TickBegin, mapVars, callVars, histVars, InUse, UnpublishedIsPrivate,
     NoCreation
<1>4. ShutdownPins'
  BY DEF TickBegin, mapVars, callVars, InUse, ShutdownPins
<1>5. DestroyTakesEffect'
  BY DEF TickBegin, mapVars, histVars, InUse, DestroyTakesEffect
<1>6. QED
  BY <1>1, <1>2, <1>3, <1>4, <1>5 DEF InUse

\* InUse is kept when the tick takes m_lock and calls back.
LEMMA TickLockKeepsInUse ==
  ASSUME Quiet, InUse, NEW s \in Sessions, TickLock(s)
  PROVE  InUse'
<1>1. Custody'
  BY TickLockKeepsCustody DEF InUse
<1>2. InUseIsOpen'
  BY ConstantsAssumption DEF TickLock, Dispatch, mapVars, callVars, InUse,
     Custody, TypeOK, DispatchTypes, InUseIsOpen, Unclaimed, Finalising,
     Ticking, TickPlaces
<1>3. UnpublishedIsPrivate'
  BY DEF TickLock, mapVars, callVars, histVars, InUse, UnpublishedIsPrivate,
     NoCreation
<1>4. ShutdownPins'
  BY DEF TickLock, mapVars, callVars, InUse, ShutdownPins
<1>5. DestroyTakesEffect'
  BY DEF TickLock, mapVars, histVars, InUse, DestroyTakesEffect
<1>6. QED
  BY <1>1, <1>2, <1>3, <1>4, <1>5 DEF InUse

\* InUse is kept when the callback returns.
LEMMA TickReturnKeepsInUse ==
  ASSUME Quiet, InUse, NEW s \in Sessions, TickReturn(s)
  PROVE  InUse'
<1>1. Custody'
  BY TickReturnKeepsCustody DEF InUse
<1>2. InUseIsOpen'
  BY DEF TickReturn, Dispatch, mapVars, callVars, InUse, InUseIsOpen, Unclaimed,
     Finalising, Ticking, TickPlaces
<1>3. UnpublishedIsPrivate'
  BY DEF TickReturn, mapVars, callVars, InUse, UnpublishedIsPrivate, NoCreation
<1>4. ShutdownPins'
  BY DEF TickReturn, mapVars, callVars, InUse, ShutdownPins
<1>5. DestroyTakesEffect'
  BY DEF TickReturn, mapVars, InUse, DestroyTakesEffect
<1>6. QED
  BY <1>1, <1>2, <1>3, <1>4, <1>5 DEF InUse

\* InUse is kept when the tick, once silenced, waits for m_destroyLock.
LEMMA TickHandshakeKeepsInUse ==
  ASSUME Quiet, InUse, NEW s \in Sessions, TickHandshake(s)
  PROVE  InUse'
<1>1. Custody'
  BY TickHandshakeKeepsCustody DEF InUse
<1>2. InUseIsOpen'
  BY DEF TickHandshake, Dispatch, mapVars, callVars, InUse, InUseIsOpen,
     Unclaimed, Finalising, Ticking, TickPlaces
<1>3. UnpublishedIsPrivate'
  BY DEF TickHandshake, mapVars, callVars, histVars, InUse,
     UnpublishedIsPrivate, NoCreation
<1>4. ShutdownPins'
  BY DEF TickHandshake, mapVars, callVars, InUse, ShutdownPins
<1>5. DestroyTakesEffect'
  BY DEF TickHandshake, mapVars, histVars, InUse, DestroyTakesEffect
<1>6. QED
  BY <1>1, <1>2, <1>3, <1>4, <1>5 DEF InUse

\* InUse is kept when the tick is over.
LEMMA TickEndKeepsInUse ==
  ASSUME Quiet, InUse, NEW s \in Sessions, TickEnd(s)
  PROVE  InUse'
<1>1. Custody'
  BY TickEndKeepsCustody DEF InUse
<1>2. InUseIsOpen'
  BY ConstantsAssumption DEF TickEnd, Dispatch, mapVars, callVars, InUse,
     InUseIsOpen, Unclaimed, Finalising, Ticking, TickPlaces
<1>3. UnpublishedIsPrivate'
  BY DEF TickEnd, mapVars, callVars, histVars, InUse, UnpublishedIsPrivate,
     NoCreation
<1>4. ShutdownPins'
  BY DEF TickEnd, mapVars, callVars, InUse, ShutdownPins
<1>5. DestroyTakesEffect'
  BY DEF TickEnd, mapVars, histVars, InUse, DestroyTakesEffect
<1>6. QED
  BY <1>1, <1>2, <1>3, <1>4, <1>5 DEF InUse

\* InUse is kept when the dispatcher takes the destroy event.
LEMMA FinaliseBeginKeepsInUse ==
  ASSUME Quiet, InUse, NEW s \in Sessions, NEW x \in Timers, FinaliseBegin(s, x)
  PROVE  InUse'
<1>1. Custody'
  BY FinaliseBeginKeepsCustody DEF InUse
<1>2. InUseIsOpen'
  BY DEF FinaliseBegin, Dispatch, mapVars, callVars, InUse, Custody, TypeOK,
     DispatchTypes, InUseIsOpen, Unclaimed, Finalising, Ticking
<1>3. UnpublishedIsPrivate'
  BY DEF FinaliseBegin, mapVars, callVars, histVars, InUse,
     UnpublishedIsPrivate, NoCreation
<1>4. ShutdownPins'
  BY DEF FinaliseBegin, mapVars, callVars, InUse, ShutdownPins
<1>5. DestroyTakesEffect'
  BY DEF FinaliseBegin, mapVars, histVars, InUse, DestroyTakesEffect
<1>6. QED
  BY <1>1, <1>2, <1>3, <1>4, <1>5 DEF InUse

\* InUse is kept when onTimerDestroy takes m_destroyLock.
LEMMA FinaliseLockKeepsInUse ==
  ASSUME Quiet, InUse, NEW s \in Sessions, FinaliseLock(s)
  PROVE  InUse'
<1>1. Custody'
  BY FinaliseLockKeepsCustody DEF InUse
<1>2. InUseIsOpen'
  BY DEF FinaliseLock, Dispatch, mapVars, callVars, InUse, InUseIsOpen,
     Unclaimed, Finalising, Ticking, FinalPlaces
<1>3. UnpublishedIsPrivate'
  BY DEF FinaliseLock, mapVars, callVars, histVars, InUse, UnpublishedIsPrivate,
     NoCreation
<1>4. ShutdownPins'
  BY DEF FinaliseLock, mapVars, callVars, InUse, ShutdownPins
<1>5. DestroyTakesEffect'
  BY DEF FinaliseLock, mapVars, histVars, InUse, DestroyTakesEffect
<1>6. QED
  BY <1>1, <1>2, <1>3, <1>4, <1>5 DEF InUse

\* InUse is kept when onTimerDestroy frees the wrapper.
LEMMA FinaliseFreeKeepsInUse ==
  ASSUME Quiet, InUse, NEW s \in Sessions, FinaliseFree(s)
  PROVE  InUse'
<1>1. Custody'
  BY FinaliseFreeKeepsCustody DEF InUse
<1>2. InUseIsOpen'
  <2>1. dpc[s] = "finalLock" /\ dtimer[s] \in Timers /\ Home[dtimer[s]] = s
    BY DEF FinaliseFree, InUse, Custody, TypeOK, DispatchTypes
  <2>2. /\ dpc' = [dpc EXCEPT ![s] = "idle"] /\ dtimer' = [dtimer EXCEPT ![s] = None]
        /\ phase' = [phase EXCEPT ![dtimer[s]] = "freed"]
        /\ UNCHANGED <<map, queued, claimed, pc, arg>>
    BY DEF FinaliseFree, Dispatch, mapVars, callVars
  <2>3. /\ dtimer[s] \notin map /\ Unclaimed(dtimer[s]) /\ queued[dtimer[s]] = 0
        /\ \A u \in Threads : ~Creating(u, dtimer[s])
    <3>1. Finalising(dtimer[s])
      BY <2>1 DEF Finalising, FinalPlaces
    <3>2. queued[dtimer[s]] \in Nat
      BY <2>1 DEF InUse, Custody, TypeOK, ObjectTypes
    <3>3. QED
      BY <2>1, <3>1, <3>2 DEF InUse, Custody, MapCustody, ClaimCustody,
         QueueCustody, CreateCustody, Unclaimed
  <2>4. \A y \in Timers : (Finalising(y) \/ Ticking(y))' =>
          y # dtimer[s] /\ (Finalising(y) \/ Ticking(y))
    <3>1. dpc'[s] = "idle" /\ \A v \in Sessions : v # s => dpc'[v] = dpc[v] /\ dtimer'[v] = dtimer[v]
      BY <2>2 DEF InUse, Custody, TypeOK, DispatchTypes
    <3>2. QED
      BY <2>1, <3>1, ConstantsAssumption DEF Finalising, Ticking, TickPlaces,
         FinalPlaces
  <2>5. QED
    BY <2>2, <2>3, <2>4 DEF InUse, InUseIsOpen, Unclaimed, Creating
<1>3. UnpublishedIsPrivate'
  BY DEF FinaliseFree, mapVars, callVars, histVars, InUse, UnpublishedIsPrivate,
     NoCreation
<1>4. ShutdownPins'
  BY DEF FinaliseFree, mapVars, callVars, InUse, ShutdownPins
<1>5. DestroyTakesEffect'
  BY DEF FinaliseFree, mapVars, histVars, InUse, DestroyTakesEffect
<1>6. QED
  BY <1>1, <1>2, <1>3, <1>4, <1>5 DEF InUse

\* InUse is kept when nothing changes.
LEMMA StutterKeepsInUse ==
  ASSUME InUse, UNCHANGED vars
  PROVE  InUse'
<1>1. Custody'
  BY StutterKeepsCustody DEF InUse
<1>2. QED
  BY <1>1 DEF vars, InUse, InUseIsOpen, UnpublishedIsPrivate, ShutdownPins,
     DestroyTakesEffect, Unclaimed, Finalising, Ticking, NoCreation

\* InUse is kept by any step, if createTimer is not raced.
LEMMA NextKeepsInUse == Quiet /\ InUse /\ [Next]_vars => InUse'
<1> SUFFICES ASSUME Quiet, InUse, [Next]_vars PROVE InUse'
  OBVIOUS
<1>1. ASSUME NEW t \in Threads, Begin(t)
      PROVE  InUse'
  BY <1>1, CreateAllocateKeepsInUse, DestroyTimerKeepsInUse,
     ShutdownTimerKeepsInUse, DestroyAllEventsKeepsInUse DEF Begin
<1>2. ASSUME NEW t \in Threads, WaitMap(t) \/ DestroyLock(t)
      PROVE  InUse'
  BY <1>2, CreateInsertKeepsInUse, DestroyRemoveKeepsInUse,
     DestroyAbsentKeepsInUse, ShutdownFindKeepsInUse, SweepMapKeepsInUse,
     DestroyLockKeepsInUse DEF WaitMap
<1>3. ASSUME NEW t \in Threads, Continue(t)
      PROVE  InUse'
  BY <1>3, CreateMamaTimerKeepsInUse, CreateFailsKeepsInUse,
     CreateReturnKeepsInUse, DestroyClearKeepsInUse, DestroyEnqueueKeepsInUse,
     ShutdownClearKeepsInUse, SweepNextKeepsInUse DEF Continue
<1>4. ASSUME NEW s \in Sessions, NEW x \in Timers, TickBegin(s, x) \/ FinaliseBegin(s, x)
      PROVE  InUse'
  BY <1>4, TickBeginKeepsInUse, FinaliseBeginKeepsInUse
<1>5. ASSUME NEW s \in Sessions, Tick(s) \/ TickReturn(s) \/ Finalise(s)
      PROVE  InUse'
  BY <1>5, TickLockKeepsInUse, TickHandshakeKeepsInUse, TickEndKeepsInUse,
     TickReturnKeepsInUse, FinaliseLockKeepsInUse, FinaliseFreeKeepsInUse
  DEF Tick, Finalise
<1>6. CASE UNCHANGED vars
  BY <1>6, StutterKeepsInUse
<1>7. QED
  BY <1>1, <1>2, <1>3, <1>4, <1>5, <1>6 DEF Next

\* The stronger invariant, when no callback uses its timer before createTimer has
\* returned, createTimer is not raced by destroySession, and the map has memory.
THEOREM InUseAlways == Quiet => (Spec => []InUse)
<1> SUFFICES ASSUME Quiet PROVE Spec => []InUse
  OBVIOUS
<1>1. Init => InUse
  BY InitInUse
<1>2. InUse /\ [Next]_vars => InUse'
  BY NextKeepsInUse
<1>3. QED
  BY <1>1, <1>2, PTL DEF Spec

\* Then no thread ever uses a timer that has been freed.
THEOREM NoUseAfterFreeAlways == Quiet => (Spec => []NoUseAfterFree)
<1> SUFFICES ASSUME Quiet PROVE Spec => []NoUseAfterFree
  OBVIOUS
<1>1. ASSUME InUse, NEW x \in Timers, phase[x] = "freed"
      PROVE  /\ \A t \in Threads : ~Uses(t, x) /\ x \notin claimed[t]
             /\ queued[x] = 0 /\ x \notin map
  <2>1. x \notin map /\ Unclaimed(x) /\ queued[x] = 0 /\ ~Finalising(x) /\ ~Ticking(x)
    BY <1>1 DEF InUse, InUseIsOpen, Custody, TypeOK, ObjectTypes
  <2>2. ASSUME NEW t \in Threads, arg[t] = x,
               pc[t] \in CreatePlaces \cup DestroyPlaces \cup {"shutdown"}
        PROVE  FALSE
    BY <1>1, <2>2 DEF InUse, InUseIsOpen, UnpublishedIsPrivate, ShutdownPins,
       Custody, CallCustody, Unclaimed, CreatePlaces
  <2>3. ASSUME NEW t \in Sessions, dpc[t] # "idle", dtimer[t] = x
        PROVE  FALSE
    BY <1>1, <2>1, <2>3 DEF InUse, Custody, TypeOK, DispatchTypes,
       DispatchPlaces, Finalising, Ticking
  <2>4. QED
    BY <2>1, <2>2, <2>3 DEF Uses, Unclaimed
<1>2. InUse => NoUseAfterFree
  BY <1>1 DEF NoUseAfterFree
<1>3. QED
  BY <1>2, InUseAlways, PTL

-----------------------------------------------------------------------------
(* Destruction takes effect, whatever the environment does.                *)

\* Nobody is creating a timer that has been published or destroyed: it does not
\* get into the map any more.
Settled ==
    /\ DestroyTakesEffect
    /\ \A x \in Timers : x \in published \cup destroyed =>
         phase[x] # "none" /\ \A t \in Threads : ~Creating(t, x)
    /\ \A t \in Threads : pc[t] = "publish" =>
         phase[arg[t]] # "none" /\ \A u \in Threads : ~Creating(u, arg[t])

\* A call that begins creates only what has never been there.
LEMMA BeginKeepsSettled ==
  ASSUME Custody, Settled, NEW t \in Threads, Begin(t)
  PROVE  Settled'
<1>1. ASSUME NEW x \in Timers, CreateAllocate(t, x) PROVE Settled'
  <2>1. CASE phase' = [phase EXCEPT ![x] = "allocated"] /\ Goto(t, "createTimer", x)
    BY <1>1, <2>1 DEF CreateAllocate, Goto, mapVars, histVars, Custody, TypeOK,
       ObjectTypes, CallTypes, Settled, DestroyTakesEffect, Creating, CreatePlaces
  <2>2. CASE phase' = [phase EXCEPT ![x] = "freed"] /\ UNCHANGED <<callback, nullLock, pc, arg>>
    BY <1>1, <2>2 DEF CreateAllocate, mapVars, histVars, Custody, TypeOK,
       ObjectTypes, CallTypes, Settled, DestroyTakesEffect, Creating, CreatePlaces
  <2>3. QED
    BY <1>1, <2>1, <2>2 DEF CreateAllocate
<1>2. ASSUME NEW x \in Timers, DestroyTimer(t, x) \/ ShutdownTimer(t, x) PROVE Settled'
  BY <1>2 DEF DestroyTimer, ShutdownTimer, Goto, mapVars, histVars, Custody,
     TypeOK, CallTypes, Settled, DestroyTakesEffect, Creating
<1>3. ASSUME NEW s \in Sessions, DestroyAllEvents(t, s) PROVE Settled'
  BY <1>3 DEF DestroyAllEvents, Goto, mapVars, Custody, TypeOK, CallTypes,
     Settled, DestroyTakesEffect, Creating
<1>4. QED
  BY <1>1, <1>2, <1>3 DEF Begin

\* What is put into the map was being created; what is looked up was not.
LEMMA WaitKeepsSettled ==
  ASSUME Custody, Settled, NEW t \in Threads, WaitMap(t) \/ DestroyLock(t)
  PROVE  Settled'
<1>1. CASE CreateInsert(t)
  BY <1>1 DEF CreateInsert, Goto, histVars, Custody, TypeOK, CallTypes,
     NoneIsNowhere, CreateCustody, Settled, DestroyTakesEffect, Creating,
     CreatePlaces
<1>2. CASE DestroyRemove(t)
  BY <1>2 DEF DestroyRemove, Goto, Custody, TypeOK, CallTypes, NoneIsNowhere,
     CreateCustody, Settled, DestroyTakesEffect, Creating
<1>3. CASE DestroyAbsent(t)
  BY <1>3 DEF DestroyAbsent, Return, Goto, mapVars, Custody, TypeOK, CallTypes,
     Settled, DestroyTakesEffect, Creating
<1>4. CASE ShutdownFind(t)
  BY <1>4 DEF ShutdownFind, Return, Goto, histVars, Custody, TypeOK, CallTypes,
     Settled, DestroyTakesEffect, Creating
<1>5. CASE SweepMap(t)
  <2>1. /\ map' \subseteq map /\ UNCHANGED <<phase, published, destroyed>>
        /\ \A u \in Threads : pc'[u] \in {"createTimer", "insert", "publish"} =>
             pc'[u] = pc[u] /\ arg'[u] = arg[u]
    BY <1>5 DEF SweepMap, Return, Goto, histVars, Custody, TypeOK, CallTypes
  <2>2. QED
    BY <2>1 DEF Settled, DestroyTakesEffect, Creating
<1>6. CASE DestroyLock(t)
  BY <1>6 DEF DestroyLock, Goto, mapVars, histVars, Custody, TypeOK, CallTypes,
     Settled, DestroyTakesEffect, Creating
<1>7. QED
  BY <1>1, <1>2, <1>3, <1>4, <1>5, <1>6 DEF WaitMap

\* createTimer publishes what is already in the map; the other steps of a call
\* that has begun touch neither the map nor what is created.
LEMMA ContinueKeepsSettled ==
  ASSUME Custody, Settled, NEW t \in Threads, Continue(t)
  PROVE  Settled'
<1>1. CASE CreateMamaTimer(t)
  BY <1>1 DEF CreateMamaTimer, Goto, mapVars, histVars, Custody, TypeOK,
     ObjectTypes, CallTypes, Settled, DestroyTakesEffect, Creating, CreatePlaces
<1>2. CASE CreateFails(t)
  BY <1>2 DEF CreateFails, Return, Goto, mapVars, histVars, Custody, TypeOK,
     ObjectTypes, CallTypes, Settled, DestroyTakesEffect, Creating, CreatePlaces
<1>3. CASE CreateReturn(t)
  BY <1>3 DEF CreateReturn, Return, Goto, mapVars, Custody, TypeOK, CallTypes,
     Settled, DestroyTakesEffect, Creating, CreatePlaces
<1>4. CASE DestroyClear(t)
  BY <1>4 DEF DestroyClear, Goto, mapVars, Custody, TypeOK, CallTypes, Settled,
     DestroyTakesEffect, Creating
<1>5. CASE DestroyEnqueue(t)
  <2>1. /\ UNCHANGED <<map, phase, published, destroyed>>
        /\ \A u \in Threads : pc'[u] \in {"createTimer", "insert", "publish"} =>
             pc'[u] = pc[u] /\ arg'[u] = arg[u]
    BY <1>5 DEF DestroyEnqueue, Return, Goto, mapVars, histVars, Custody, TypeOK,
       CallTypes
  <2>2. QED
    BY <2>1 DEF Settled, DestroyTakesEffect, Creating
<1>6. CASE ShutdownClear(t)
  BY <1>6 DEF ShutdownClear, Return, Goto, Custody, TypeOK, CallTypes, Settled,
     DestroyTakesEffect, Creating
<1>7. CASE SweepNext(t)
  BY <1>7 DEF SweepNext, Goto, mapVars, histVars, Custody, TypeOK, CallTypes,
     Settled, DestroyTakesEffect, Creating
<1>8. QED
  BY <1>1, <1>2, <1>3, <1>4, <1>5, <1>6, <1>7 DEF Continue

\* The dispatcher puts nothing into the map, and what it frees is not new again.
LEMMA DispatcherKeepsSettled ==
  ASSUME Custody, Settled, NEW s \in Sessions,
         \/ \E x \in Timers : TickBegin(s, x) \/ FinaliseBegin(s, x)
         \/ Tick(s) \/ TickReturn(s) \/ Finalise(s)
  PROVE  Settled'
<1>1. /\ UNCHANGED <<map, pc, arg, published, destroyed>>
      /\ phase' = phase \/ \E x \in Timers : phase' = [phase EXCEPT ![x] = "freed"]
  BY DEF TickBegin, FinaliseBegin, Tick, TickLock, TickHandshake, TickEnd,
     TickReturn, Finalise, FinaliseLock, FinaliseFree, mapVars, callVars,
     histVars, Custody, TypeOK, DispatchTypes, FinalPlaces
<1>2. \A x \in Timers : phase[x] # "none" => phase'[x] # "none"
  BY <1>1 DEF Custody, TypeOK, ObjectTypes
<1>3. QED
  BY <1>1, <1>2 DEF Settled, DestroyTakesEffect, Creating, Custody, TypeOK,
     CallTypes, CreatePlaces

\* Whatever callbacks use before createTimer has returned, whatever creation races
\* with and whatever fails, a timer that destroyTimer has been called for with the
\* handle createTimer returned is not in the map, and does not get there.
THEOREM DestroyTakesEffectAlways == Spec => []DestroyTakesEffect
<1>1. Init => Settled
  BY DEF Init, Settled, DestroyTakesEffect
<1>2. Custody /\ Settled /\ [Next]_vars => Settled'
  <2>1. ASSUME Settled, UNCHANGED vars PROVE Settled'
    BY <2>1 DEF vars, Settled, DestroyTakesEffect, Creating
  <2>2. QED
    BY <2>1, BeginKeepsSettled, WaitKeepsSettled, ContinueKeepsSettled,
       DispatcherKeepsSettled DEF Next
<1>3. Settled => DestroyTakesEffect
  BY DEF Settled
<1>4. QED
  BY <1>1, <1>2, <1>3, CustodyAlways, PTL DEF Spec
-----------------------------------------------------------------------------
(* Nobody waits in a circle.                                               *)

\* One dispatcher, and applications that leave shutdownTimer to it.
OneDispatcher ==
    /\ \A r, s \in Sessions : r = s
    /\ "shutdown" \notin AppOps

\* Only callbacks shut timers down.
ShutdownByCallback == \A t \in Threads : pc[t] \in {"find", "shutdown"} => t \in Sessions

\* ShutdownByCallback is kept when any step is taken.
LEMMA NextKeepsShutdownByCallback ==
  ASSUME OneDispatcher
  PROVE  InUse /\ ShutdownByCallback /\ [Next]_vars => ShutdownByCallback'
<1> SUFFICES ASSUME InUse, ShutdownByCallback, [Next]_vars PROVE ShutdownByCallback'
  OBVIOUS
<1>1. CallTypes
  BY DEF InUse, Custody, TypeOK
<1>2. ASSUME NEW t \in Threads, Begin(t)
      PROVE  ShutdownByCallback'
  BY <1>1, <1>2 DEF Begin, CreateAllocate, DestroyTimer, ShutdownTimer,
     DestroyAllEvents, CanCall, Goto, CallTypes, ShutdownByCallback,
     OneDispatcher, Threads
<1>3. ASSUME NEW t \in Threads, WaitMap(t)
      PROVE  ShutdownByCallback'
  BY <1>1, <1>3 DEF WaitMap, CreateInsert, DestroyRemove, DestroyAbsent,
     ShutdownFind, SweepMap, Goto, Return, CallTypes, ShutdownByCallback
<1>4. ASSUME NEW t \in Threads, DestroyLock(t) \/ Continue(t)
      PROVE  ShutdownByCallback'
  BY <1>1, <1>4 DEF DestroyLock, Continue, CreateMamaTimer, CreateFails,
     CreateReturn, DestroyClear, DestroyEnqueue, ShutdownClear, SweepNext, Goto,
     Return, CallTypes, ShutdownByCallback
<1>5. ASSUME NEW s \in Sessions,
             \/ \E x \in Timers : TickBegin(s, x) \/ FinaliseBegin(s, x)
             \/ Tick(s) \/ TickReturn(s) \/ Finalise(s)
      PROVE  ShutdownByCallback'
  BY <1>5 DEF TickBegin, FinaliseBegin, Tick, TickLock, TickHandshake, TickEnd,
     TickReturn, Finalise, FinaliseLock, FinaliseFree, callVars,
     ShutdownByCallback
<1>6. CASE UNCHANGED vars
  BY <1>6 DEF vars, ShutdownByCallback
<1>7. QED
  BY <1>2, <1>3, <1>4, <1>5, <1>6 DEF Next

\* Who holds m_lock over a step is the dispatcher in the timer's callback.
LEMMA LockOwner ==
  ASSUME InUse, NEW x \in Timers
  PROVE  \/ lock[x].owner = NoThread
         \/ lock[x].owner = Home[x] /\ InCallback(x)
<1>1. lock[x] = IF InCallback(x) THEN [owner |-> Home[x], depth |-> 1] ELSE Free
  BY DEF InUse, Custody, LockCustody
<1>2. QED
  BY <1>1 DEF Free

\* Who holds m_destroyLock is at one of the three places where it may be.
LEMMA DestroyLockOwner ==
  ASSUME InUse, NEW x \in Timers
  PROVE  \/ destroyLock[x].owner = NoThread
         \/ HoldsDestroyLock(destroyLock[x].owner, x) /\ destroyLock[x].owner \in Threads
<1>1. ASSUME NEW t \in Threads, HoldsDestroyLock(t, x)
      PROVE  HoldsDestroyLock(destroyLock[x].owner, x) /\ destroyLock[x].owner \in Threads
  <2>1. destroyLock[x] = [owner |-> t, depth |-> 1]
    BY <1>1 DEF InUse, Custody, DestroyLockCustody
  <2>2. destroyLock[x].owner = t
    BY <2>1
  <2>3. QED
    BY <1>1, <2>2
<1>2. CASE \A t \in Threads : ~HoldsDestroyLock(t, x)
  BY <1>2 DEF InUse, Custody, DestroyLockCustody, Free
<1>3. QED
  BY <1>1, <1>2

\* The map is locked, over a step, by a callback that shuts a timer down.
LEMMA MapLockOwner ==
  ASSUME InUse, ShutdownByCallback, NEW s \in Sessions
  PROVE  \/ mapLock[s] = NoThread
         \/ mapLock[s] \in Sessions /\ pc[mapLock[s]] = "shutdown"
  BY DEF InUse, Custody, TypeOK, ObjectTypes, ShutdownPins, ShutdownByCallback

\* The dispatcher waits for m_destroyLock only.
LEMMA DispatcherWaits ==
  ASSUME InUse, OneDispatcher, ShutdownByCallback, NEW d \in Sessions
  PROVE  \/ WaitsFor(d) = NoThread
         \/ /\ pc[d] = "destroyLock" /\ arg[d] \in Timers
            /\ WaitsFor(d) = destroyLock[arg[d]].owner
         \/ /\ dpc[d] \in {"handshake", "finalDestroyLock"} /\ dtimer[d] \in Timers
            /\ WaitsFor(d) = destroyLock[dtimer[d]].owner
<1>1. d \in Threads /\ Home \in [Timers -> Sessions] /\ \A s \in Sessions : s = d
  BY ConstantsAssumption DEF OneDispatcher, Threads
<1>2. CASE pc[d] = "idle"
  <2>1. dpc[d] \in DispatchPlaces /\ (dpc[d] # "idle" => dtimer[d] \in Timers)
    BY DEF InUse, Custody, TypeOK, DispatchTypes
  <2>2. dpc[d] # "idle" => lock[dtimer[d]].owner \in {NoThread, d}
    BY <1>1, <2>1, LockOwner
  <2>3. QED
    BY <1>2, <2>1, <2>2 DEF WaitsFor, DispatchPlaces, TickPlaces, FinalPlaces
<1>3. CASE pc[d] \in {"insert", "remove", "find"}
  <2>1. arg[d] \in Timers
    BY <1>1, <1>3 DEF InUse, Custody, TypeOK, CallTypes, CreatePlaces
  <2>2. mapLock[Home[arg[d]]] = NoThread
    BY <1>1, <1>3, <2>1, MapLockOwner
  <2>3. QED
    BY <1>3, <2>2 DEF WaitsFor
<1>4. CASE pc[d] = "removeAll"
  <2>1. arg[d] \in Sessions
    BY <1>1, <1>4 DEF InUse, Custody, TypeOK, CallTypes
  <2>2. mapLock[arg[d]] = NoThread
    BY <1>1, <1>4, <2>1, MapLockOwner
  <2>3. QED
    BY <1>4, <2>2 DEF WaitsFor
<1>5. CASE pc[d] \in {"destroyLock", "clear", "shutdown"}
  <2>1. arg[d] \in Timers
    BY <1>1, <1>5 DEF InUse, Custody, TypeOK, CallTypes, DestroyPlaces
  <2>2. lock[arg[d]].owner \in {NoThread, d}
    BY <1>1, <2>1, LockOwner
  <2>3. QED
    BY <1>5, <2>1, <2>2 DEF WaitsFor
<1>6. CASE pc[d] \in CallPlaces \ {"idle", "insert", "remove", "find", "removeAll",
                                   "destroyLock", "clear", "shutdown"}
  BY <1>6 DEF WaitsFor, CallPlaces, CreatePlaces, DestroyPlaces
<1>7. QED
  BY <1>1, <1>2, <1>3, <1>4, <1>5, <1>6 DEF InUse, Custody, TypeOK, CallTypes

\* An application waits for the map, for m_lock or for m_destroyLock.
LEMMA ApplicationWaits ==
  ASSUME InUse, ShutdownByCallback, NEW t \in Apps
  PROVE  \/ WaitsFor(t) = NoThread
         \/ WaitsFor(t) \in Sessions /\ pc[WaitsFor(t)] = "shutdown"
         \/ /\ pc[t] = "clear" /\ arg[t] \in Timers /\ WaitsFor(t) = Home[arg[t]]
            /\ InCallback(arg[t])
         \/ /\ pc[t] = "destroyLock" /\ arg[t] \in Timers
            /\ WaitsFor(t) = destroyLock[arg[t]].owner
<1>1. t \in Threads /\ t \notin Sessions /\ Home \in [Timers -> Sessions]
  BY ConstantsAssumption DEF Threads
<1>2. CASE pc[t] \in {"insert", "remove", "find"}
  <2>1. arg[t] \in Timers
    BY <1>1, <1>2 DEF InUse, Custody, TypeOK, CallTypes, CreatePlaces
  <2>2. \/ mapLock[Home[arg[t]]] = NoThread
        \/ /\ mapLock[Home[arg[t]]] \in Sessions
           /\ pc[mapLock[Home[arg[t]]]] = "shutdown"
    BY <1>1, <2>1, MapLockOwner
  <2>3. QED
    BY <1>1, <1>2, <2>2 DEF WaitsFor
<1>3. CASE pc[t] = "removeAll"
  <2>1. arg[t] \in Sessions
    BY <1>1, <1>3 DEF InUse, Custody, TypeOK, CallTypes
  <2>2. \/ mapLock[arg[t]] = NoThread
        \/ mapLock[arg[t]] \in Sessions /\ pc[mapLock[arg[t]]] = "shutdown"
    BY <2>1, MapLockOwner
  <2>3. QED
    BY <1>1, <1>3, <2>2 DEF WaitsFor
<1>4. CASE pc[t] \in {"destroyLock", "clear"}
  <2>1. arg[t] \in Timers
    BY <1>1, <1>4 DEF InUse, Custody, TypeOK, CallTypes, DestroyPlaces
  <2>2. lock[arg[t]].owner = NoThread
          \/ (lock[arg[t]].owner = Home[arg[t]] /\ InCallback(arg[t]))
    BY <2>1, LockOwner
  <2>3. QED
    BY <1>1, <1>4, <2>1, <2>2 DEF WaitsFor
<1>5. CASE pc[t] \in CallPlaces \ {"insert", "remove", "find", "removeAll", "destroyLock",
                                   "clear", "shutdown"}
  BY <1>1, <1>5 DEF WaitsFor, CallPlaces, CreatePlaces, DestroyPlaces
<1>6. QED
  BY <1>1, <1>2, <1>3, <1>4, <1>5 DEF InUse, Custody, TypeOK, CallTypes,
     ShutdownByCallback

\* In any set of threads there is one that waits for none of them.
LEMMA SomebodyGoesOn ==
  ASSUME InUse, OneDispatcher, ShutdownByCallback, NEW S \in SUBSET Threads, S # {}
  PROVE  \E t \in S : WaitsFor(t) \notin S
<1> SUFFICES ASSUME \A t \in S : WaitsFor(t) \in S
             PROVE  FALSE
  OBVIOUS
<1>1. NoThread \notin S
  BY ConstantsAssumption
<1>2. ASSUME NEW u \in S \cap Apps, NEW x \in Timers, pc[u] = "clear", arg[u] = x
      PROVE  Home[x] \in S \cap Sessions /\ InCallback(x)
  <2>1. \/ WaitsFor(u) = Home[x] /\ InCallback(x)
        \/ WaitsFor(u) \in S \cap Sessions /\ pc[WaitsFor(u)] = "shutdown"
    BY <1>1, <1>2, ApplicationWaits
  <2>2. WaitsFor(u) = Home[x] /\ InCallback(x)
    <3>1. u \notin Sessions
      BY ConstantsAssumption
    <3>2. WaitsFor(u) = IF lock[x].owner = u THEN NoThread ELSE lock[x].owner
      BY <1>2, <3>1 DEF WaitsFor
    <3>3. QED
      BY <1>1, <3>2, LockOwner
  <2>3. QED
    BY <2>2, ConstantsAssumption
<1>3. ASSUME NEW d \in S \cap Sessions
      PROVE  FALSE
  <2>1. PICK y \in Timers :
          /\ WaitsFor(d) = destroyLock[y].owner
          /\ \/ pc[d] = "destroyLock" /\ arg[d] = y
             \/ dpc[d] \in {"handshake", "finalDestroyLock"}
    BY <1>1, DispatcherWaits
  <2> DEFINE u == destroyLock[y].owner
  <2>2. u \in S /\ u # d /\ HoldsDestroyLock(u, y)
    <3>1. WaitsFor(d) # d
      BY ConstantsAssumption DEF WaitsFor, Threads
    <3>2. QED
      BY <1>1, <2>1, <3>1, DestroyLockOwner
  <2>3. u \in Apps /\ pc[u] = "clear" /\ arg[u] = y
    BY <2>2 DEF OneDispatcher, Threads, HoldsDestroyLock
  <2>4. InCallback(y) /\ Home[y] = d
    BY <1>2, <2>2, <2>3 DEF OneDispatcher
  <2>5. pc[d] = "destroyLock" /\ arg[d] = y
    BY <2>1, <2>4 DEF InCallback
  <2>6. y \in claimed[d] /\ y \in claimed[u]
    BY <2>2, <2>3, <2>5 DEF InUse, Custody, CallCustody, DestroyPlaces, Threads
  <2>7. QED
    BY <2>2, <2>6 DEF InUse, Custody, ClaimCustody, Threads
<1>4. PICK t \in S : t \in Apps
  BY <1>3 DEF Threads
<1>5. pc[t] = "destroyLock" /\ arg[t] \in Timers /\ WaitsFor(t) = destroyLock[arg[t]].owner
  BY <1>1, <1>3, <1>4, ApplicationWaits, <1>2
<1>6. HoldsDestroyLock(WaitsFor(t), arg[t]) /\ WaitsFor(t) \in S
  BY <1>1, <1>5, DestroyLockOwner
<1>7. WaitsFor(t) \in Apps /\ pc[WaitsFor(t)] = "clear" /\ arg[WaitsFor(t)] = arg[t]
  BY <1>3, <1>6 DEF Threads, HoldsDestroyLock
<1>8. QED
  BY <1>2, <1>3, <1>5, <1>6, <1>7

\* No threads wait for one another's locks in a circle, for any number of timers and
\* of applications, when there is one dispatcher and only its callbacks call
\* shutdownTimer.
THEOREM NoCircularWaitAlways == Quiet /\ OneDispatcher => (Spec => []NoCircularWait)
<1> SUFFICES ASSUME Quiet, OneDispatcher PROVE Spec => []NoCircularWait
  OBVIOUS
<1>1. Init => ShutdownByCallback
  BY DEF Init, ShutdownByCallback
<1>2. InUse /\ ShutdownByCallback /\ [Next]_vars => ShutdownByCallback'
  BY NextKeepsShutdownByCallback
<1>3. InUse /\ ShutdownByCallback => NoCircularWait
  BY SomebodyGoesOn DEF NoCircularWait
<1>4. Spec => []InUse
  BY InUseAlways
<1>5. QED
  BY <1>1, <1>2, <1>3, <1>4, PTL DEF Spec

-----------------------------------------------------------------------------
(***************************************************************************)
(* Timers implement EventObject, whatever threads and sessions there are,  *)
(* when creation is not raced (Quiet): each step of MmeTimer is one step   *)
(* of EventObject, or none.                                                *)
(***************************************************************************)

IInv == InUse /\ CallbackStages

\* Only creation, shutdown and destruction write m_callback, and whoever silences
\* a timer has it from the map.
LEMMA CallbackStep ==
  ASSUME IInv, NEW x \in Timers, NEW b \in BOOLEAN,
         callback' = [callback EXCEPT ![x] = b],
         UNCHANGED <<queued, dpc, dtimer>>,
         NEW t \in Threads,
         \A u \in Threads : u # t => pc'[u] = pc[u] /\ arg'[u] = arg[u],
         pc'[t] \in {"createTimer", "enqueue"} => arg'[t] = x,
         pc'[t] = "createTimer" => b, pc'[t] = "enqueue" => ~b,
         b => Unclaimed(x) /\ queued[x] = 0 /\ ~Finalising(x),
         ~b => \A u \in Threads : ~Creating(u, x)
  PROVE  CallbackStages'
<1>1. \A y \in Timers : callback'[y] = IF y = x THEN b ELSE callback[y]
  BY DEF IInv, InUse, Custody, TypeOK, ObjectTypes
<1>2. \A u \in Threads : pc[u] \in {"createTimer", "enqueue"} => arg[u] \in Timers
  BY DEF IInv, InUse, Custody, TypeOK, CallTypes, CreatePlaces, DestroyPlaces
<1>3. ASSUME NEW u \in Threads, pc'[u] = "createTimer" PROVE callback'[arg'[u]]
  BY <1>1, <1>2, <1>3 DEF IInv, CallbackStages, Creating
<1>4. ASSUME NEW u \in Threads, pc'[u] = "enqueue" PROVE ~callback'[arg'[u]]
  <2>1. CASE u = t
    BY <1>1, <1>4, <2>1
  <2>2. CASE u # t
    <3>1. arg[u] \in claimed[u]
      BY <1>4, <2>2 DEF IInv, InUse, Custody, CallCustody, DestroyPlaces
    <3>2. QED
      BY <1>1, <1>2, <1>4, <2>2, <3>1 DEF IInv, CallbackStages, Unclaimed
  <2>3. QED
    BY <2>1, <2>2
<1>5. ASSUME NEW y \in Timers, queued'[y] > 0 \/ Finalising(y)' PROVE ~callback'[y]
  BY <1>1, <1>5 DEF IInv, CallbackStages, Finalising, InUse, Custody, TypeOK,
     ObjectTypes
<1>6. QED
  BY <1>3, <1>4, <1>5 DEF CallbackStages

\* The steps that leave m_callback, the queue and the dispatchers alone.
LEMMA PlaceStep ==
  ASSUME IInv, UNCHANGED <<callback, queued>>,
         \A x \in Timers : Finalising(x)' => Finalising(x),
         \A u \in Threads : pc'[u] \in {"createTimer", "enqueue"} =>
                              pc'[u] = pc[u] /\ arg'[u] = arg[u]
  PROVE  CallbackStages'
  BY DEF IInv, CallbackStages

\* CallbackStages is kept by a step that is begun.
LEMMA BeginKeepsStages ==
  ASSUME IInv, NEW t \in Threads, Begin(t)
  PROVE  CallbackStages'
<1>1. ASSUME NEW x \in Timers, CreateAllocate(t, x)
      PROVE  CallbackStages'
  <2>1. Unclaimed(x) /\ queued[x] = 0 /\ ~Finalising(x)
    BY <1>1 DEF CreateAllocate, IInv, InUse, Custody, NoneIsNowhere
  <2>2. UNCHANGED <<queued, dpc, dtimer>> /\ pc[t] = "idle"
    BY <1>1 DEF CreateAllocate, CanCall, dispVars
  <2>3. CASE /\ callback' = [callback EXCEPT ![x] = TRUE]
             /\ Goto(t, "createTimer", x)
    <3>1. /\ pc'[t] = "createTimer" /\ arg'[t] = x
          /\ \A u \in Threads : u # t => pc'[u] = pc[u] /\ arg'[u] = arg[u]
      BY <2>3 DEF Goto, IInv, InUse, Custody, TypeOK, CallTypes
    <3>2. QED
      BY <2>1, <2>2, <2>3, <3>1, CallbackStep
  <2>4. CASE UNCHANGED <<callback, pc, arg>>
    BY <2>2, <2>4, PlaceStep DEF Finalising
  <2>5. QED
    BY <1>1, <2>3, <2>4 DEF CreateAllocate
<1>2. ASSUME NEW x \in Timers, DestroyTimer(t, x) \/ ShutdownTimer(t, x)
      PROVE  CallbackStages'
  BY <1>2, PlaceStep DEF DestroyTimer, ShutdownTimer, Goto, Finalising,
     dispVars, IInv, InUse, Custody, TypeOK, CallTypes
<1>3. ASSUME NEW s \in Sessions, DestroyAllEvents(t, s)
      PROVE  CallbackStages'
  BY <1>3, PlaceStep DEF DestroyAllEvents, Goto, Finalising, dispVars, IInv,
     InUse, Custody, TypeOK, CallTypes
<1>4. QED
  BY <1>1, <1>2, <1>3 DEF Begin

\* CallbackStages is kept by a step that waits for a map or for m_destroyLock.
LEMMA WaitKeepsStages ==
  ASSUME IInv, NEW t \in Threads, WaitMap(t) \/ DestroyLock(t)
  PROVE  CallbackStages'
<1>1. UNCHANGED <<callback, queued, dpc, dtimer>>
  BY DEF WaitMap, CreateInsert, DestroyRemove, DestroyAbsent, ShutdownFind,
     SweepMap, DestroyLock, dispVars
<1>2. /\ pc'[t] \notin {"createTimer", "enqueue"}
      /\ \A u \in Threads : u # t => pc'[u] = pc[u] /\ arg'[u] = arg[u]
  <2>1. CASE CreateInsert(t) \/ DestroyRemove(t) \/ DestroyAbsent(t)
    BY <2>1 DEF CreateInsert, DestroyRemove, DestroyAbsent, Return, Goto, IInv,
       InUse, Custody, TypeOK, CallTypes
  <2>2. CASE ShutdownFind(t) \/ SweepMap(t) \/ DestroyLock(t)
    BY <2>2 DEF ShutdownFind, SweepMap, DestroyLock, Return, Goto, IInv, InUse,
       Custody, TypeOK, CallTypes
  <2>3. QED
    BY <2>1, <2>2 DEF WaitMap
<1>3. QED
  BY <1>1, <1>2, PlaceStep DEF Finalising

\* CallbackStages is kept when a call goes on.
LEMMA ContinueKeepsStages ==
  ASSUME IInv, NEW t \in Threads, Continue(t)
  PROVE  CallbackStages'
<1>1. CASE CreateMamaTimer(t) \/ CreateFails(t) \/ CreateReturn(t) \/ SweepNext(t)
  <2>1. UNCHANGED <<callback, queued, dpc, dtimer>>
    BY <1>1 DEF CreateMamaTimer, CreateFails, CreateReturn, SweepNext, dispVars
  <2>2. /\ pc'[t] \notin {"createTimer", "enqueue"}
        /\ \A u \in Threads : u # t => pc'[u] = pc[u] /\ arg'[u] = arg[u]
    BY <1>1 DEF CreateMamaTimer, CreateFails, CreateReturn, SweepNext, Return,
       Goto, IInv, InUse, Custody, TypeOK, CallTypes
  <2>3. QED
    BY <2>1, <2>2, PlaceStep DEF Finalising
<1>2. CASE DestroyClear(t)
  <2>1. PICK x \in Timers : x = arg[t]
    BY <1>2 DEF DestroyClear, IInv, InUse, Custody, TypeOK, CallTypes,
       DestroyPlaces
  <2>2. x \in claimed[t]
    BY <1>2, <2>1 DEF DestroyClear, IInv, InUse, Custody, CallCustody,
       DestroyPlaces
  <2>3. \A u \in Threads : ~Creating(u, x)
    BY <2>2 DEF IInv, InUse, Custody, CreateCustody, Unclaimed
  <2>4. /\ callback' = [callback EXCEPT ![x] = FALSE]
        /\ UNCHANGED <<queued, dpc, dtimer>>
    BY <1>2, <2>1 DEF DestroyClear, Silence, dispVars
  <2>5. /\ pc'[t] = "enqueue" /\ arg'[t] = x
        /\ \A u \in Threads : u # t => pc'[u] = pc[u] /\ arg'[u] = arg[u]
    BY <1>2, <2>1 DEF DestroyClear, Goto, IInv, InUse, Custody, TypeOK,
       CallTypes
  <2>6. QED
    BY <2>3, <2>4, <2>5, CallbackStep
<1>3. CASE ShutdownClear(t)
  <2>1. PICK x \in Timers : x = arg[t]
    BY <1>3 DEF ShutdownClear, IInv, InUse, Custody, TypeOK, CallTypes
  <2>2. x \in map
    BY <1>3, <2>1 DEF ShutdownClear, IInv, InUse, ShutdownPins
  <2>3. \A u \in Threads : ~Creating(u, x)
    BY <2>2 DEF IInv, InUse, Custody, CreateCustody
  <2>4. /\ callback' = [callback EXCEPT ![x] = FALSE]
        /\ UNCHANGED <<queued, dpc, dtimer>>
    BY <1>3, <2>1 DEF ShutdownClear, Silence, dispVars
  <2>5. /\ pc'[t] = "idle"
        /\ \A u \in Threads : u # t => pc'[u] = pc[u] /\ arg'[u] = arg[u]
    BY <1>3 DEF ShutdownClear, Return, Goto, IInv, InUse, Custody, TypeOK,
       CallTypes
  <2>6. QED
    BY <2>3, <2>4, <2>5, CallbackStep
<1>4. CASE DestroyEnqueue(t)
  <2>1. PICK x \in Timers : x = arg[t]
    BY <1>4 DEF DestroyEnqueue, IInv, InUse, Custody, TypeOK, CallTypes,
       DestroyPlaces
  <2>2. ~callback[x]
    BY <1>4, <2>1 DEF DestroyEnqueue, IInv, CallbackStages
  <2>3. /\ UNCHANGED <<callback, dpc, dtimer>>
        /\ \A y \in Timers : y # x => queued'[y] = queued[y]
    BY <1>4, <2>1 DEF DestroyEnqueue, dispVars, IInv, InUse, Custody, TypeOK,
       ObjectTypes
  <2>4. /\ pc'[t] \in {"idle", "sweep"}
        /\ \A u \in Threads : u # t => pc'[u] = pc[u] /\ arg'[u] = arg[u]
    BY <1>4 DEF DestroyEnqueue, Return, Goto, IInv, InUse, Custody, TypeOK,
       CallTypes
  <2>5. QED
    BY <2>2, <2>3, <2>4 DEF IInv, CallbackStages, Finalising
<1>5. QED
  BY <1>1, <1>2, <1>3, <1>4 DEF Continue

\* CallbackStages is kept by the dispatcher.
LEMMA DispatcherKeepsStages ==
  ASSUME IInv, NEW s \in Sessions,
         \/ \E x \in Timers : TickBegin(s, x) \/ FinaliseBegin(s, x)
         \/ Tick(s) \/ TickReturn(s) \/ Finalise(s)
  PROVE  CallbackStages'
<1>1. UNCHANGED <<callback, pc, arg>>
  BY DEF TickBegin, FinaliseBegin, Tick, TickLock, TickHandshake, TickEnd,
     TickReturn, Finalise, FinaliseLock, FinaliseFree, callVars
<1>2. ASSUME NEW x \in Timers, queued'[x] > 0
      PROVE  queued[x] > 0
  BY <1>2 DEF TickBegin, FinaliseBegin, Tick, TickLock, TickHandshake, TickEnd,
     TickReturn, Finalise, FinaliseLock, FinaliseFree, IInv, InUse, Custody,
     TypeOK, ObjectTypes
<1>3. ASSUME NEW x \in Timers, Finalising(x)'
      PROVE  Finalising(x) \/ queued[x] > 0
  <2>1. CASE Home[x] # s
    BY <1>3, <2>1, ConstantsAssumption DEF TickBegin, FinaliseBegin, Tick,
       TickLock, TickHandshake, TickEnd, TickReturn, Finalise, FinaliseLock,
       FinaliseFree, Dispatch, Finalising, IInv, InUse, Custody, TypeOK,
       DispatchTypes
  <2>2. CASE Home[x] = s
    BY <1>3, <2>2 DEF TickBegin, FinaliseBegin, Tick, TickLock, TickHandshake,
       TickEnd, TickReturn, Finalise, FinaliseLock, FinaliseFree, Dispatch,
       Finalising, FinalPlaces, IInv, InUse, Custody, TypeOK, DispatchTypes
  <2>3. QED
    BY <2>1, <2>2
<1>4. QED
  BY <1>1, <1>2, <1>3 DEF IInv, CallbackStages

\* The invariant that the refinement rests on.
LEMMA InvAlways == Quiet => (Spec => []IInv)
<1> SUFFICES ASSUME Quiet PROVE Spec => []IInv
  OBVIOUS
<1>1. Init => CallbackStages
  BY ConstantsAssumption DEF Init, CallbackStages, Finalising, FinalPlaces
<1>2. InUse /\ CallbackStages /\ [Next]_vars => CallbackStages'
  <2> SUFFICES ASSUME IInv, [Next]_vars PROVE CallbackStages'
    BY DEF IInv
  <2>1. CASE UNCHANGED vars
    BY <2>1, PlaceStep DEF vars, Finalising
  <2>2. QED
    BY <2>1, BeginKeepsStages, WaitKeepsStages, ContinueKeepsStages,
       DispatcherKeepsStages DEF Next
<1>3. QED
  BY <1>1, <1>2, InUseAlways, PTL DEF Spec, IInv

-----------------------------------------------------------------------------
\* What EventObject sees of the state.
Silenced(x) == x \in silenced

W == <<[x \in Timers |-> Stage(x)], [x \in Timers |-> CanTick(x)],
       [x \in Timers |-> InCallback(x)], [x \in Timers |-> Silenced(x)]>>

StageKept   == \A x \in Timers : Stage(x)' = Stage(x)
EnabledKept == \A x \in Timers : CanTick(x)' <=> CanTick(x)
RunningKept == \A x \in Timers : InCallback(x)' <=> InCallback(x)
QuietKept   == \A x \in Timers : Silenced(x)' <=> Silenced(x)

\* What is enabled is a function of EventObject, kept with EnabledKept.
LEMMA EnabledFunction ==
  ASSUME EnabledKept
  PROVE  [x \in Timers |-> CanTick(x)]' = [x \in Timers |-> CanTick(x)]
  BY DEF EnabledKept, CanTick

\* And what is running.
LEMMA RunningFunction ==
  ASSUME RunningKept
  PROVE  [x \in Timers |-> InCallback(x)]' = [x \in Timers |-> InCallback(x)]
  BY DEF RunningKept, InCallback

\* And what is quiet.
LEMMA QuietFunction ==
  ASSUME QuietKept
  PROVE  [x \in Timers |-> Silenced(x)]' = [x \in Timers |-> Silenced(x)]
  BY DEF QuietKept, Silenced

\* A step that keeps all four is none of EventObject's.
LEMMA AllKeptStutters ==
  ASSUME StageKept, EnabledKept, RunningKept, QuietKept
  PROVE  W' = W
  BY EnabledFunction, RunningFunction, QuietFunction DEF StageKept, W

\* A step that changes only the stage of an object.
LEMMA OnlyStageChanges ==
  ASSUME NEW x \in Timers, NEW v, EnabledKept, RunningKept, QuietKept,
         \A y \in Timers : Stage(y)' = IF y = x THEN v ELSE Stage(y)
  PROVE  /\ Stage(x) = "absent" /\ v = "gone" => Abstract!CreateFails(x)
         /\ Stage(x) = "claimed" /\ v = "gone" /\ ~CanTick(x) /\ ~InCallback(x)
              => Abstract!Free(x)
<1>1. [y \in Timers |-> Stage(y)]' = [[y \in Timers |-> Stage(y)] EXCEPT ![x] = v]
  OBVIOUS
<1>2. QED
  BY <1>1, EnabledFunction, RunningFunction, QuietFunction
  DEF Abstract!CreateFails, Abstract!Free, Silenced

\* An object becomes quiet, or not.
LEMMA QuietChanges ==
  ASSUME NEW x \in Timers, NEW b \in BOOLEAN, Silenced(x)' <=> b,
         \A y \in Timers : y # x => (Silenced(y)' <=> Silenced(y))
  PROVE  [y \in Timers |-> Silenced(y)]' = [[y \in Timers |-> Silenced(y)] EXCEPT ![x] = b]
<1> DEFINE F == [y \in Timers |-> Silenced(y)]'
           G == [[y \in Timers |-> Silenced(y)] EXCEPT ![x] = b]
<1>1. \A y \in Timers : F[y] = G[y]
  <2> SUFFICES ASSUME NEW y \in Timers PROVE F[y] = G[y]
    OBVIOUS
  <2>1. CASE y = x
    BY <2>1 DEF Silenced
  <2>2. CASE y # x
    <3>1. Silenced(y)' <=> Silenced(y)
      BY <2>2
    <3>2. QED
      BY <2>2, <3>1 DEF Silenced
  <2>3. QED
    BY <2>1, <2>2
<1>2. QED
  BY <1>1

\* A step that changes only which callbacks may run.
LEMMA OnlyEnabledChanges ==
  ASSUME NEW x \in Timers, StageKept, RunningKept,
         \A y \in Timers : CanTick(y)' <=> (CanTick(y) /\ y # x)
  PROVE  /\ /\ Stage(x) \in {"live", "claimed"} /\ ~InCallback(x)
            /\ \A y \in Timers : Silenced(y)' <=> (Silenced(y) \/ y = x)
            => Abstract!Silence(x)
         /\ InCallback(x) /\ QuietKept => Abstract!SilenceSelf(x)
<1> DEFINE stage   == [y \in Timers |-> Stage(y)]
           enabled == [y \in Timers |-> CanTick(y)]
           quiet   == [y \in Timers |-> Silenced(y)]
<1>1. stage' = stage
  BY DEF StageKept
<1>2. enabled' = [enabled EXCEPT ![x] = FALSE]
  BY DEF CanTick
<1>3. CASE \A y \in Timers : Silenced(y)' <=> (Silenced(y) \/ y = x)
  <2>1. quiet' = [quiet EXCEPT ![x] = TRUE]
    BY <1>3, QuietChanges
  <2>2. QED
    BY <1>1, <1>2, <2>1, RunningFunction, QuietFunction
    DEF Abstract!Silence, Abstract!SilenceSelf, Abstract!Exists, Silenced
<1>4. CASE ~(\A y \in Timers : Silenced(y)' <=> (Silenced(y) \/ y = x))
  BY <1>1, <1>2, <1>4, RunningFunction, QuietFunction DEF Abstract!SilenceSelf,
     Silenced
<1>5. QED
  BY <1>3, <1>4

-----------------------------------------------------------------------------
\* The steps of the calls that no other thread sees.
LEMMA CallStepStutters ==
  ASSUME NEW t, UNCHANGED <<phase, callback, map, dpc, dtimer, silenced>>,
         \A u \in Threads : u # t => pc'[u] = pc[u] /\ arg'[u] = arg[u],
         pc[t] # "insert", pc'[t] # "insert"
  PROVE  W' = W
<1>1. \A x \in Timers : (\E u \in Threads : pc'[u] = "insert" /\ arg'[u] = x)
                          <=> (\E u \in Threads : pc[u] = "insert" /\ arg[u] = x)
  OBVIOUS
<1>2. StageKept
  BY <1>1 DEF StageKept, Stage
<1>3. EnabledKept /\ RunningKept /\ QuietKept
  BY DEF EnabledKept, RunningKept, QuietKept, CanTick, InCallback, Silenced
<1>4. QED
  BY <1>2, <1>3, AllKeptStutters

\* The first steps of destruction, shutdown and sweep, the second of shutdown and
\* destruction, and the last of creation and destruction.
LEMMA QuietCallsStutter ==
  ASSUME IInv, NEW t \in Threads,
         \/ \E x \in Timers : DestroyTimer(t, x) \/ ShutdownTimer(t, x)
         \/ \E s \in Sessions : DestroyAllEvents(t, s)
         \/ DestroyAbsent(t) \/ ShutdownFind(t) \/ DestroyLock(t)
         \/ CreateReturn(t) \/ DestroyEnqueue(t) \/ SweepNext(t)
  PROVE  W' = W
<1>1. UNCHANGED <<phase, callback, map, dpc, dtimer, silenced>>
  BY DEF DestroyTimer, ShutdownTimer, DestroyAllEvents, DestroyAbsent,
     ShutdownFind, DestroyLock, CreateReturn, DestroyEnqueue, SweepNext,
     mapVars, dispVars, histVars
<1>2. /\ pc[t] # "insert" /\ pc'[t] # "insert"
      /\ \A u \in Threads : u # t => pc'[u] = pc[u] /\ arg'[u] = arg[u]
  <2>1. CASE \/ \E x \in Timers : DestroyTimer(t, x) \/ ShutdownTimer(t, x)
             \/ \E s \in Sessions : DestroyAllEvents(t, s)
    BY <2>1 DEF DestroyTimer, ShutdownTimer, DestroyAllEvents, CanCall, Goto,
       IInv, InUse, Custody, TypeOK, CallTypes
  <2>2. CASE DestroyAbsent(t) \/ ShutdownFind(t) \/ DestroyLock(t)
    BY <2>2 DEF DestroyAbsent, ShutdownFind, DestroyLock, Return, Goto, IInv,
       InUse, Custody, TypeOK, CallTypes
  <2>3. CASE CreateReturn(t) \/ DestroyEnqueue(t) \/ SweepNext(t)
    BY <2>3 DEF CreateReturn, DestroyEnqueue, SweepNext, Return, Goto, IInv,
       InUse, Custody, TypeOK, CallTypes
  <2>4. QED
    BY <2>1, <2>2, <2>3
<1>3. QED
  BY <1>1, <1>2, CallStepStutters

-----------------------------------------------------------------------------
(* Creation.                                                               *)

\* A timer that is being created has no callback to run yet, and one for which
\* there is no memory is gone at once.
LEMMA CreateAllocateRefines ==
  ASSUME IInv, NEW t \in Threads, NEW x \in Timers, CreateAllocate(t, x)
  PROVE  Abstract!CreateFails(x) \/ W' = W
<1>1. /\ phase[x] = "none"
      /\ \A y \in Timers : y # x => phase'[y] = phase[y] /\ callback'[y] = callback[y]
  BY DEF CreateAllocate, IInv, InUse, Custody, TypeOK, ObjectTypes
<1>2. \A y \in Timers : (\E u \in Threads : pc'[u] = "insert" /\ arg'[u] = y)
                          <=> (\E u \in Threads : pc[u] = "insert" /\ arg[u] = y)
  BY DEF CreateAllocate, CanCall, Goto, IInv, InUse, Custody, TypeOK, CallTypes
<1>3. UNCHANGED <<map, dpc, dtimer, silenced>> /\ phase'[x] \in {"allocated", "freed"}
  BY DEF CreateAllocate, mapVars, dispVars, histVars, IInv, InUse, Custody,
     TypeOK, ObjectTypes
<1>4. EnabledKept /\ RunningKept /\ QuietKept
  BY <1>1, <1>3 DEF EnabledKept, RunningKept, QuietKept, CanTick, InCallback,
     Silenced
<1>5. CASE phase'[x] = "allocated"
  <2>1. StageKept
    BY <1>1, <1>2, <1>3, <1>5 DEF StageKept, Stage
  <2>2. QED
    BY <1>4, <2>1, AllKeptStutters
<1>6. CASE phase'[x] = "freed"
  <2>1. Stage(x) = "absent" /\ Stage(x)' = "gone"
    BY <1>1, <1>6 DEF Stage
  <2>2. \A y \in Timers : y # x => Stage(y)' = Stage(y)
    BY <1>1, <1>2, <1>3 DEF Stage
  <2>3. QED
    BY <1>4, <2>1, <2>2, OnlyStageChanges
<1>7. QED
  BY <1>3, <1>5, <1>6

\* The other timers keep their stage when one is created.
LEMMA PhaseStep ==
  ASSUME IInv, NEW x \in Timers, NEW p, phase' = [phase EXCEPT ![x] = p],
         NEW t, \A u \in Threads : u # t => pc'[u] = pc[u] /\ arg'[u] = arg[u],
         pc[t] = "insert" => arg[t] = x, pc'[t] = "insert" => arg'[t] = x,
         UNCHANGED map
  PROVE  \A y \in Timers : y # x => Stage(y)' = Stage(y)
<1> SUFFICES ASSUME NEW y \in Timers, y # x PROVE Stage(y)' = Stage(y)
  OBVIOUS
<1>1. phase'[y] = phase[y]
  BY DEF IInv, InUse, Custody, TypeOK, ObjectTypes
<1>2. (\E u \in Threads : pc'[u] = "insert" /\ arg'[u] = y)
        <=> (\E u \in Threads : pc[u] = "insert" /\ arg[u] = y)
  OBVIOUS
<1>3. QED
  BY <1>1, <1>2 DEF Stage

\* The timer begins to tick.
LEMMA CreateMamaTimerRefines ==
  ASSUME IInv, NEW t \in Threads, CreateMamaTimer(t)
  PROVE  \E x \in Timers : Abstract!Create(x)
<1> PICK x \in Timers : x = arg[t]
  BY DEF CreateMamaTimer, IInv, InUse, Custody, TypeOK, CallTypes, CreatePlaces
<1>1. phase[x] = "allocated" /\ callback[x] = TRUE
  BY DEF CreateMamaTimer, IInv, InUse, Custody, TypeOK, ObjectTypes,
     InUseIsOpen, CallbackStages
<1>2. phase' = [phase EXCEPT ![x] = "open"] /\ pc'[t] = "insert" /\ arg'[t] = x
  BY DEF CreateMamaTimer, Goto, IInv, InUse, Custody, TypeOK, CallTypes
<1>3. \A u \in Threads : u # t => pc'[u] = pc[u] /\ arg'[u] = arg[u]
  BY DEF CreateMamaTimer, Goto, IInv, InUse, Custody, TypeOK, CallTypes
<1>4. UNCHANGED <<map, callback, dpc, dtimer, silenced>> /\ pc[t] = "createTimer"
  BY DEF CreateMamaTimer, mapVars, dispVars, histVars
<1>5. Stage(x) = "absent" /\ Stage(x)' = "live"
  BY <1>1, <1>2 DEF Stage, IInv, InUse, Custody, TypeOK, ObjectTypes
<1>6. \A y \in Timers : y # x => Stage(y)' = Stage(y)
  BY <1>2, <1>3, <1>4, PhaseStep
<1>7. \A y \in Timers : CanTick(y)' <=> (CanTick(y) \/ y = x)
  BY <1>1, <1>2, <1>4 DEF CanTick, IInv, InUse, Custody, TypeOK, ObjectTypes
<1>8. RunningKept /\ QuietKept
  BY <1>4 DEF RunningKept, QuietKept, InCallback, Silenced
<1>9. [y \in Timers |-> Stage(y)]' = [[y \in Timers |-> Stage(y)] EXCEPT ![x] = "live"]
  BY <1>5, <1>6
<1>10. [y \in Timers |-> CanTick(y)]' = [[y \in Timers |-> CanTick(y)] EXCEPT ![x] = TRUE]
  BY <1>7 DEF CanTick
<1>11. Abstract!Create(x)
  BY <1>5, <1>8, <1>9, <1>10, RunningFunction, QuietFunction DEF
     Abstract!Create, Silenced
<1>12. QED
  BY <1>11

\* The insertion into the map is not seen: the timer is live before and after.
LEMMA CreateInsertStutters ==
  ASSUME IInv, NEW t \in Threads, CreateInsert(t)
  PROVE  W' = W
<1>1. \A u \in Threads : u # t => pc'[u] = pc[u] /\ arg'[u] = arg[u]
  BY DEF CreateInsert, Goto, IInv, InUse, Custody, TypeOK, CallTypes
<1>2. pc[t] = "insert" /\ pc'[t] # "insert" /\ map' = map \cup {arg[t]}
  BY DEF CreateInsert, Goto, IInv, InUse, Custody, TypeOK, CallTypes
<1>3. \A y \in Timers :
        (y \in map' \/ \E u \in Threads : pc'[u] = "insert" /\ arg'[u] = y)
          <=> (y \in map \/ \E u \in Threads : pc[u] = "insert" /\ arg[u] = y)
  BY <1>1, <1>2
<1>4. StageKept
  BY <1>3 DEF StageKept, Stage, CreateInsert
<1>5. EnabledKept /\ RunningKept /\ QuietKept
  BY DEF CreateInsert, EnabledKept, RunningKept, QuietKept, CanTick, InCallback,
     Silenced, dispVars, histVars
<1>6. QED
  BY <1>4, <1>5, AllKeptStutters

\* MAMA does not create the timer.
LEMMA CreateFailsRefines ==
  ASSUME Quiet, IInv, NEW t \in Threads, CreateFails(t)
  PROVE  \E x \in Timers : Abstract!CreateFails(x)
<1>1. pc[t] = "createTimer"
  BY DEF Quiet, CreateFails
<1> PICK x \in Timers : x = arg[t]
  BY <1>1 DEF IInv, InUse, Custody, TypeOK, CallTypes, CreatePlaces
<1>2. phase[x] = "allocated" /\ phase' = [phase EXCEPT ![x] = "freed"]
  BY <1>1 DEF CreateFails, IInv, InUse, InUseIsOpen
<1>3. pc'[t] # "insert" /\ \A u \in Threads : u # t => pc'[u] = pc[u] /\ arg'[u] = arg[u]
  BY DEF CreateFails, Return, Goto, IInv, InUse, Custody, TypeOK, CallTypes
<1>4. UNCHANGED <<map, callback, dpc, dtimer, silenced>>
  BY DEF CreateFails, mapVars, dispVars, histVars
<1>5. \A y \in Timers : y # x => Stage(y)' = Stage(y)
  BY <1>1, <1>2, <1>3, <1>4, PhaseStep
<1>6. EnabledKept /\ RunningKept /\ QuietKept
  BY <1>2, <1>4 DEF EnabledKept, RunningKept, QuietKept, CanTick, InCallback,
     Silenced, IInv, InUse, Custody, TypeOK, ObjectTypes
<1>7. Stage(x) = "absent" /\ Stage(x)' = "gone"
  BY <1>2 DEF Stage, IInv, InUse, Custody, TypeOK, ObjectTypes
<1>8. QED
  BY <1>5, <1>6, <1>7, OnlyStageChanges

-----------------------------------------------------------------------------
(* Destruction and shutdown.                                               *)

\* Timers that leave their map, none of which is being created, are claimed.
LEMMA MapStep ==
  ASSUME IInv, NEW S \in SUBSET map, map' = map \ S, UNCHANGED phase,
         \A y \in Timers : (\E u \in Threads : pc'[u] = "insert" /\ arg'[u] = y)
                              <=> (\E u \in Threads : pc[u] = "insert" /\ arg[u] = y),
         EnabledKept, RunningKept, QuietKept
  PROVE  (\E C \in SUBSET Timers : Abstract!Claim(C)) \/ W' = W
<1>1. S \subseteq Timers
  BY DEF IInv, InUse, Custody, TypeOK, ObjectTypes
<1>2. \A y \in S : /\ phase[y] = "open"
                   /\ ~(\E u \in Threads : pc[u] = "insert" /\ arg[u] = y)
  BY <1>1 DEF IInv, InUse, InUseIsOpen, Custody, CreateCustody, Creating
<1>3. \A y \in S : Stage(y) = "live" /\ Stage(y)' = "claimed"
  <2> SUFFICES ASSUME NEW y \in S PROVE Stage(y) = "live" /\ Stage(y)' = "claimed"
    OBVIOUS
  <2>1. phase[y] = "open" /\ phase'[y] = "open" /\ y \in Timers /\ y \in map /\ y \notin map'
    BY <1>1, <1>2
  <2>2. ~(\E u \in Threads : pc'[u] = "insert" /\ arg'[u] = y)
    BY <1>1, <1>2
  <2>3. QED
    BY <2>1, <2>2 DEF Stage
<1>4. \A y \in Timers : y \notin S => Stage(y)' = Stage(y)
  BY DEF Stage
<1>5. CASE S = {}
  <2>1. StageKept
    BY <1>4, <1>5 DEF StageKept
  <2>2. QED
    BY <2>1, AllKeptStutters
<1>6. CASE S # {}
  <2>1. [y \in Timers |-> Stage(y)]'
          = [y \in Timers |-> IF y \in S THEN "claimed" ELSE [z \in Timers |-> Stage(z)][y]]
    BY <1>3, <1>4
  <2>2. Abstract!Claim(S)
    BY <1>1, <1>3, <1>6, <2>1, EnabledFunction, RunningFunction, QuietFunction
    DEF Abstract!Claim, Silenced
  <2>3. QED
    BY <1>1, <2>2
<1>7. QED
  BY <1>5, <1>6

\* The caller of remove that gets the timer claims it.
LEMMA DestroyRemoveRefines ==
  ASSUME IInv, NEW t \in Threads, DestroyRemove(t)
  PROVE  (\E C \in SUBSET Timers : Abstract!Claim(C)) \/ W' = W
<1> DEFINE S == map \cap {arg[t]}
<1>1. map' = map \ S /\ phase' = phase
  BY DEF DestroyRemove
<1>2. \A y \in Timers : (\E u \in Threads : pc'[u] = "insert" /\ arg'[u] = y)
                           <=> (\E u \in Threads : pc[u] = "insert" /\ arg[u] = y)
  BY DEF DestroyRemove, Return, Goto, IInv, InUse, Custody, TypeOK, CallTypes
<1>3. EnabledKept /\ RunningKept /\ QuietKept
  BY DEF DestroyRemove, EnabledKept, RunningKept, QuietKept, CanTick,
     InCallback, Silenced, dispVars, histVars
<1>4. S \in SUBSET map
  OBVIOUS
<1> HIDE DEF S
<1>5. QED
  BY <1>1, <1>2, <1>3, <1>4, MapStep

\* A sweep claims all the timers of its map.
LEMMA SweepMapRefines ==
  ASSUME IInv, NEW t \in Threads, SweepMap(t)
  PROVE  (\E C \in SUBSET Timers : Abstract!Claim(C)) \/ W' = W
<1> DEFINE S == HomeTimers(arg[t])
<1>1. map' = map \ S /\ phase' = phase
  BY DEF SweepMap
<1>2. \A y \in Timers : (\E u \in Threads : pc'[u] = "insert" /\ arg'[u] = y)
                           <=> (\E u \in Threads : pc[u] = "insert" /\ arg[u] = y)
  <2>1. pc[t] # "insert" /\ pc'[t] # "insert"
    BY DEF SweepMap, Return, Goto, IInv, InUse, Custody, TypeOK, CallTypes
  <2>2. \A u \in Threads : u # t => pc'[u] = pc[u] /\ arg'[u] = arg[u]
    BY DEF SweepMap, Return, Goto, IInv, InUse, Custody, TypeOK, CallTypes
  <2>3. QED
    BY <2>1, <2>2
<1>3. EnabledKept /\ RunningKept /\ QuietKept
  BY DEF SweepMap, EnabledKept, RunningKept, QuietKept, CanTick, InCallback,
     Silenced, dispVars, histVars
<1>4. S \in SUBSET map
  BY DEF HomeTimers
<1> HIDE DEF S
<1>5. QED
  BY <1>1, <1>2, <1>3, <1>4, MapStep

\* A thread that silences an open timer is the dispatcher that runs its callback,
\* or holds m_lock, so that nobody runs it.
LEMMA SilenceStep ==
  ASSUME IInv, NEW t \in Threads, NEW x \in Timers,
         phase[x] = "open", CanLock(lock[x], t), Silence(t, x),
         UNCHANGED <<phase, map, dpc, dtimer>>,
         pc[t] \notin {"idle", "insert"}, pc'[t] # "insert",
         \A u \in Threads : u # t => pc'[u] = pc[u] /\ arg'[u] = arg[u]
  PROVE  Abstract!Silence(x) \/ Abstract!SilenceSelf(x)
<1>1. StageKept
  <2>1. \A y \in Timers : (\E u \in Threads : pc'[u] = "insert" /\ arg'[u] = y)
                            <=> (\E u \in Threads : pc[u] = "insert" /\ arg[u] = y)
    OBVIOUS
  <2>2. QED
    BY <2>1 DEF StageKept, Stage
<1>2. RunningKept
  BY DEF RunningKept, InCallback
<1>3. \A y \in Timers : CanTick(y)' <=> (CanTick(y) /\ y # x)
  BY DEF Silence, CanTick, IInv, InUse, Custody, TypeOK, ObjectTypes
<1>4. CASE t \in Sessions /\ dtimer[t] = x
  <2>1. InCallback(x)
    BY <1>4 DEF InCallback, IInv, InUse, Custody, CallCustody, TypeOK,
       DispatchTypes
  <2>2. QuietKept
    BY <1>4 DEF Silence, QuietKept, Silenced
  <2>3. QED
    BY <1>1, <1>2, <1>3, <2>1, <2>2, OnlyEnabledChanges
<1>5. CASE ~(t \in Sessions /\ dtimer[t] = x)
  <2>1. \A y \in Timers : Silenced(y)' <=> (Silenced(y) \/ y = x)
    BY <1>5 DEF Silence, Silenced
  <2>2. ~InCallback(x)
    <3> SUFFICES ASSUME InCallback(x) PROVE FALSE
      OBVIOUS
    <3>1. lock[x] = [owner |-> Home[x], depth |-> 1] /\ Home[x] \in Sessions
      BY ConstantsAssumption DEF IInv, InUse, Custody, LockCustody
    <3>2. t = Home[x]
      BY <3>1, OwnerOf, ConstantsAssumption DEF CanLock, Threads
    <3>3. QED
      BY <1>5, <3>1, <3>2 DEF InCallback
  <2>3. Stage(x) \in {"live", "claimed"}
    BY DEF Stage
  <2>4. QED
    BY <1>1, <1>2, <1>3, <2>1, <2>2, <2>3, OnlyEnabledChanges
<1>6. QED
  BY <1>4, <1>5

\* destroyTimer clears the callback.
LEMMA DestroyClearRefines ==
  ASSUME IInv, NEW t \in Threads, DestroyClear(t)
  PROVE  \E x \in Timers : Abstract!Silence(x) \/ Abstract!SilenceSelf(x)
<1> PICK x \in Timers : x = arg[t]
  BY DEF DestroyClear, IInv, InUse, Custody, TypeOK, CallTypes, DestroyPlaces
<1>1. phase[x] = "open"
  BY DEF DestroyClear, IInv, InUse, InUseIsOpen, Custody, CallCustody,
     Unclaimed, DestroyPlaces
<1>2. /\ CanLock(lock[x], t) /\ Silence(t, x)
      /\ UNCHANGED <<phase, map, dpc, dtimer>>
  BY DEF DestroyClear, mapVars, dispVars
<1>3. /\ pc[t] = "clear" /\ pc'[t] = "enqueue"
      /\ \A u \in Threads : u # t => pc'[u] = pc[u] /\ arg'[u] = arg[u]
  BY DEF DestroyClear, Goto, IInv, InUse, Custody, TypeOK, CallTypes
<1>4. QED
  BY <1>1, <1>2, <1>3, SilenceStep

\* shutdownTimer clears the callback.
LEMMA ShutdownClearRefines ==
  ASSUME IInv, NEW t \in Threads, ShutdownClear(t)
  PROVE  \E x \in Timers : Abstract!Silence(x) \/ Abstract!SilenceSelf(x)
<1> PICK x \in Timers : x = arg[t]
  BY DEF ShutdownClear, IInv, InUse, Custody, TypeOK, CallTypes
<1>1. phase[x] = "open"
  BY DEF ShutdownClear, IInv, InUse, InUseIsOpen, ShutdownPins
<1>2. /\ CanLock(lock[x], t) /\ Silence(t, x)
      /\ UNCHANGED <<phase, map, dpc, dtimer>>
  BY DEF ShutdownClear, dispVars
<1>3. /\ pc[t] = "shutdown" /\ pc'[t] = "idle"
      /\ \A u \in Threads : u # t => pc'[u] = pc[u] /\ arg'[u] = arg[u]
  BY DEF ShutdownClear, Return, Goto, IInv, InUse, Custody, TypeOK, CallTypes
<1>4. QED
  BY <1>1, <1>2, <1>3, SilenceStep

-----------------------------------------------------------------------------
(* The dispatcher.                                                         *)

\* The dispatcher of s moves on; which callbacks run is changed for x at most.
LEMMA OthersRun ==
  ASSUME IInv, NEW s \in Sessions, NEW place, NEW y, NEW x \in Timers, dpc[s] # "idle",
         dtimer[s] = x, Dispatch(s, place, y), y = x \/ place # "callback"
  PROVE  \A z \in Timers : z # x => (InCallback(z)' <=> InCallback(z))
<1> SUFFICES ASSUME NEW z \in Timers, z # x PROVE InCallback(z)' <=> InCallback(z)
  OBVIOUS
<1>1. CASE Home[z] = s
  BY <1>1 DEF Dispatch, InCallback, IInv, InUse, Custody, TypeOK, DispatchTypes
<1>2. CASE Home[z] # s
  BY <1>2, ConstantsAssumption
  DEF Dispatch, InCallback, IInv, InUse, Custody, TypeOK, DispatchTypes
<1>3. QED
  BY <1>1, <1>2

\* The dispatcher of s goes from one place outside the callback to another.
LEMMA DispatchStutters ==
  ASSUME IInv, NEW s \in Sessions, NEW place \in DispatchPlaces, place # "callback",
         NEW y, Dispatch(s, place, y), dpc[s] # "callback",
         UNCHANGED <<phase, callback, map, pc, arg, silenced>>
  PROVE  W' = W
<1>1. RunningKept
  BY ConstantsAssumption DEF RunningKept, Dispatch, InCallback, IInv, InUse,
     Custody, TypeOK, DispatchTypes
<1>2. StageKept /\ EnabledKept /\ QuietKept
  BY DEF StageKept, EnabledKept, QuietKept, Stage, CanTick, Silenced
<1>3. QED
  BY <1>1, <1>2, AllKeptStutters

\* The steps before and after a callback, and the first two of finalisation.
LEMMA OutsideStutters ==
  ASSUME IInv, NEW s \in Sessions,
         \/ \E x \in Timers : TickBegin(s, x) \/ FinaliseBegin(s, x)
         \/ TickHandshake(s) \/ TickEnd(s) \/ FinaliseLock(s)
  PROVE  W' = W
<1>1. UNCHANGED <<phase, callback, map, pc, arg, silenced>> /\ dpc[s] # "callback"
  BY DEF TickBegin, FinaliseBegin, TickHandshake, TickEnd, FinaliseLock,
     mapVars, callVars, histVars
<1>2. \E place \in DispatchPlaces : place # "callback" /\ \E y : Dispatch(s, place, y)
  <2>1. /\ {"tickLock", "finalDestroyLock", "standBack", "idle", "finalLock"}
             \subseteq DispatchPlaces
        /\ "callback" \notin {"tickLock", "finalDestroyLock", "standBack", "idle", "finalLock"}
    BY DEF DispatchPlaces, TickPlaces, FinalPlaces
  <2>2. QED
    BY <2>1 DEF TickBegin, FinaliseBegin, TickHandshake, TickEnd, FinaliseLock
<1>3. QED
  BY <1>1, <1>2, DispatchStutters

\* The callback is called, under m_lock.
LEMMA TickLockRefines ==
  ASSUME IInv, NEW s \in Sessions, TickLock(s)
  PROVE  (\E x \in Timers : Abstract!Run(x)) \/ W' = W
<1> PICK x \in Timers : x = dtimer[s] /\ Home[x] = s
  BY DEF TickLock, IInv, InUse, Custody, TypeOK, DispatchTypes
<1>1. UNCHANGED <<phase, callback, map, pc, arg, silenced>> /\ dpc[s] = "tickLock"
  BY DEF TickLock, mapVars, callVars, histVars
<1>2. CASE ~callback[x]
  <2>1. Dispatch(s, "handshake", x) /\ "handshake" \in DispatchPlaces
    BY <1>2 DEF TickLock, DispatchPlaces, TickPlaces
  <2>2. QED
    BY <1>1, <2>1, DispatchStutters
<1>3. CASE callback[x]
  <2>1. Dispatch(s, "callback", x)
    BY <1>3 DEF TickLock
  <2>2. InCallback(x)' /\ ~InCallback(x)
    BY <1>1, <2>1 DEF Dispatch, InCallback, IInv, InUse, Custody, TypeOK,
       DispatchTypes
  <2>3. \A y \in Timers : InCallback(y)' <=> (InCallback(y) \/ y = x)
    BY <1>1, <2>1, <2>2, OthersRun
  <2>4. [y \in Timers |-> InCallback(y)]' = [[y \in Timers |-> InCallback(y)] EXCEPT ![x] = TRUE]
    BY <2>3 DEF InCallback
  <2>5. phase[x] = "open"
    BY <1>1 DEF IInv, InUse, InUseIsOpen, Ticking, TickPlaces
  <2>6. Stage(x) \in {"live", "claimed"} /\ CanTick(x)
    BY <1>3, <2>5 DEF Stage, CanTick
  <2>7. StageKept /\ EnabledKept /\ QuietKept
    BY <1>1 DEF StageKept, EnabledKept, QuietKept, Stage, CanTick, Silenced
  <2>8. [y \in Timers |-> Stage(y)]' = [y \in Timers |-> Stage(y)]
    BY <2>7 DEF StageKept
  <2>9. Abstract!Run(x)
    BY <2>2, <2>4, <2>6, <2>7, <2>8, EnabledFunction, QuietFunction
    DEF Abstract!Run, Abstract!Exists, Silenced
  <2>10. QED
    BY <2>9
<1>4. QED
  BY <1>2, <1>3

\* The callback returns; if it has silenced its timer, the timer is quiet now.
LEMMA TickReturnRefines ==
  ASSUME IInv, NEW s \in Sessions, TickReturn(s)
  PROVE  \E x \in Timers : Abstract!Return(x)
<1> PICK x \in Timers : x = dtimer[s] /\ Home[x] = s
  BY DEF TickReturn, IInv, InUse, Custody, TypeOK, DispatchTypes
<1>1. /\ UNCHANGED <<phase, callback, map, pc, arg>>
      /\ dpc[s] = "callback" /\ Dispatch(s, "handshake", x)
      /\ silenced' = IF callback[x] THEN silenced ELSE silenced \cup {x}
  BY DEF TickReturn, mapVars, callVars
<1>2. InCallback(x) /\ ~InCallback(x)'
  BY <1>1 DEF Dispatch, InCallback, IInv, InUse, Custody, TypeOK, DispatchTypes
<1>3. \A y \in Timers : InCallback(y)' <=> (InCallback(y) /\ y # x)
  BY <1>1, <1>2, OthersRun
<1>4. [y \in Timers |-> InCallback(y)]' = [[y \in Timers |-> InCallback(y)] EXCEPT ![x] = FALSE]
  BY <1>3 DEF InCallback
<1>5. StageKept /\ EnabledKept
  BY <1>1 DEF StageKept, EnabledKept, Stage, CanTick
<1>6. [y \in Timers |-> Stage(y)]' = [y \in Timers |-> Stage(y)]
  BY <1>5 DEF StageKept
<1>7. phase[x] = "open"
  BY <1>1 DEF IInv, InUse, InUseIsOpen, Ticking, TickPlaces
<1>8. [y \in Timers |-> Silenced(y)]'
        = [[y \in Timers |-> Silenced(y)] EXCEPT ![x] = Silenced(x) \/ ~CanTick(x)]
  <2> DEFINE b == Silenced(x) \/ ~CanTick(x)
  <2>1. Silenced(x)' <=> b
    BY <1>1, <1>7 DEF Silenced, CanTick
  <2>2. \A y \in Timers : y # x => (Silenced(y)' <=> Silenced(y))
    BY <1>1 DEF Silenced
  <2>3. b \in BOOLEAN
    OBVIOUS
  <2> HIDE DEF b
  <2>4. [y \in Timers |-> Silenced(y)]' = [[y \in Timers |-> Silenced(y)] EXCEPT ![x] = b]
    BY <2>1, <2>2, <2>3, QuietChanges
  <2>5. QED
    BY <2>4 DEF b
<1>9. Abstract!Return(x)
  BY <1>2, <1>4, <1>5, <1>6, <1>8, EnabledFunction DEF Abstract!Return, Silenced
<1>10. QED
  BY <1>9

\* The timer is freed: claimed, without a callback, and none running.
LEMMA FinaliseFreeRefines ==
  ASSUME IInv, NEW s \in Sessions, FinaliseFree(s)
  PROVE  \E x \in Timers : Abstract!Free(x)
<1> PICK x \in Timers : x = dtimer[s] /\ Home[x] = s
  BY DEF FinaliseFree, IInv, InUse, Custody, TypeOK, DispatchTypes
<1>1. Finalising(x) /\ dpc[s] = "finalLock" /\ ~InCallback(x)
  BY DEF FinaliseFree, Finalising, FinalPlaces, InCallback
<1>2. phase[x] = "open" /\ ~callback[x]
  BY <1>1 DEF IInv, InUse, InUseIsOpen, CallbackStages
<1>3. x \notin map /\ \A u \in Threads : ~(pc[u] = "insert" /\ arg[u] = x)
  BY <1>1 DEF IInv, InUse, Custody, MapCustody, CreateCustody, Creating
<1>4. /\ phase' = [phase EXCEPT ![x] = "freed"] /\ Dispatch(s, "idle", None)
      /\ UNCHANGED <<callback, map, pc, arg, silenced>>
  BY DEF FinaliseFree, mapVars, callVars, histVars
<1>5. RunningKept
  BY <1>1, <1>4, ConstantsAssumption DEF RunningKept, Dispatch, InCallback,
     IInv, InUse, Custody, TypeOK, DispatchTypes
<1>6. Stage(x) = "claimed" /\ Stage(x)' = "gone"
  BY <1>2, <1>3, <1>4 DEF Stage, IInv, InUse, Custody, TypeOK, ObjectTypes
<1>7. \A y \in Timers : y # x => Stage(y)' = Stage(y)
  BY <1>4 DEF Stage, IInv, InUse, Custody, TypeOK, ObjectTypes
<1>8. EnabledKept /\ QuietKept /\ ~CanTick(x)
  BY <1>2, <1>4 DEF EnabledKept, QuietKept, CanTick, Silenced, IInv, InUse,
     Custody, TypeOK, ObjectTypes
<1>9. Abstract!Free(x)
  BY <1>1, <1>5, <1>6, <1>7, <1>8, OnlyStageChanges
<1>10. QED
  BY <1>9

-----------------------------------------------------------------------------
\* At first no timer has been created.
LEMMA InitRefines == Init => Abstract!Init
<1> SUFFICES ASSUME Init PROVE Abstract!Init
  OBVIOUS
<1>1. \A x \in Timers : Stage(x) = "absent"
  BY DEF Init, Stage
<1>2. \A x \in Timers : CanTick(x) = FALSE
  BY DEF Init, CanTick
<1>3. \A x \in Timers : InCallback(x) = FALSE
  BY ConstantsAssumption DEF Init, InCallback
<1>4. \A x \in Timers : (x \in silenced) = FALSE
  BY DEF Init
<1>5. QED
  BY <1>1, <1>2, <1>3, <1>4 DEF Abstract!Init

\* A step that leaves everything alone.
LEMMA StutterStutters == UNCHANGED vars => W' = W
<1> SUFFICES ASSUME UNCHANGED vars PROVE W' = W
  OBVIOUS
<1>1. StageKept /\ EnabledKept /\ RunningKept /\ QuietKept
  BY DEF vars, StageKept, EnabledKept, RunningKept, QuietKept, Stage, CanTick,
     InCallback, Silenced
<1>2. QED
  BY <1>1, AllKeptStutters

\* Every step is a step of EventObject or is not seen.
LEMMA NextRefines == Quiet /\ IInv /\ [Next]_vars => [Abstract!Next]_W
<1> SUFFICES ASSUME Quiet, IInv, [Next]_vars PROVE Abstract!Next \/ W' = W
  OBVIOUS
<1>1. ASSUME NEW t \in Threads, Begin(t)
      PROVE  Abstract!Next \/ W' = W
  BY <1>1, CreateAllocateRefines, QuietCallsStutter DEF Begin, Abstract!Next
<1>2. ASSUME NEW t \in Threads, WaitMap(t) \/ DestroyLock(t)
      PROVE  Abstract!Next \/ W' = W
  BY <1>2, CreateInsertStutters, DestroyRemoveRefines, SweepMapRefines,
     QuietCallsStutter DEF WaitMap, Abstract!Next
<1>3. ASSUME NEW t \in Threads, Continue(t)
      PROVE  Abstract!Next \/ W' = W
  <2>1. CASE CreateMamaTimer(t) \/ CreateFails(t)
    BY <2>1, CreateMamaTimerRefines, CreateFailsRefines DEF Abstract!Next
  <2>2. CASE DestroyClear(t) \/ ShutdownClear(t)
    BY <2>2, DestroyClearRefines, ShutdownClearRefines DEF Abstract!Next
  <2>3. QED
    BY <1>3, <2>1, <2>2, QuietCallsStutter DEF Continue
<1>4. ASSUME NEW s \in Sessions,
             \/ \E x \in Timers : TickBegin(s, x) \/ FinaliseBegin(s, x)
             \/ Tick(s) \/ TickReturn(s) \/ Finalise(s)
      PROVE  Abstract!Next \/ W' = W
  BY <1>4, OutsideStutters, TickLockRefines, TickReturnRefines,
     FinaliseFreeRefines DEF Tick, Finalise, Abstract!Next
<1>5. CASE UNCHANGED vars
  BY <1>5, StutterStutters
<1>6. QED
  BY <1>1, <1>2, <1>3, <1>4, <1>5 DEF Next

\* Timers are event objects for any number of threads, sessions and timers: once
\* somebody is told that the ticks have stopped they have, and nothing is freed
\* that may still tick (ReadMe.md, "Event destruction").
THEOREM ImplementsEventObjectAlways == Quiet => (Spec => ImplementsEventObject)
<1> SUFFICES ASSUME Quiet PROVE Spec => ImplementsEventObject
  OBVIOUS
<1>1. Init => Abstract!Init
  BY InitRefines
<1>2. IInv /\ [Next]_vars => [Abstract!Next]_Abstract!vars
  BY NextRefines DEF W, Abstract!vars, Silenced
<1>3. Spec => []IInv
  BY InvAlways
<1>4. QED
  BY <1>1, <1>2, <1>3, PTL DEF Spec, ImplementsEventObject, Abstract!Spec
==============================================================================
