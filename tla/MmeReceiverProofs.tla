-------------------------- MODULE MmeReceiverProofs --------------------------
(***************************************************************************)
(* Proofs about MmeReceiver, for any sessions, applications, inboxes and   *)
(* subscriptions.                                                          *)
(*                                                                         *)
(* Custody is inductive whatever the environment does.  InUse adds what    *)
(* holds when creation is not raced (Quiet), and is inductive then.  Under *)
(* it inboxes and subscriptions implement EventObject.                     *)
(***************************************************************************)
EXTENDS MmeReceiver, TLAPS

\* At first there are no objects.
LEMMA InitCustody == Init => Custody
  BY ConstantsAssumption DEF Init, Custody, TypeOK, ObjectTypes, CallTypes,
     DispatchTypes, Locks, Free, MapCustody, QueueCustody, ClaimCustody,
     CreateCustody, NowhereElse, NoneIsSilent, CallCustody, LockCustody,
     SilencedStaysSilent, ShutdownQuiesces, Unclaimed, Finalising, Delivering,
     Creating, InCallback, CallPlaces, DispatchPlaces, Threads, CreatePlaces,
     DestroyPlaces, Phases, ObjectPlaces

\* After the inboxes of a session come its subscriptions.
LEMMA NextMapIsMap ==
  ASSUME NEW m \in Maps
  PROVE  <<m[1], "subscriptions">> \in Maps
  BY DEF Maps

\* A call of destroyAllEvents that goes on is at a map.
LEMMA NextMapTypes ==
  ASSUME CallTypes, NEW t \in Threads, NextMap(t)
  PROVE  /\ sweeping' \in [Threads -> Maps \cup {None}]
         /\ pc'[t] \in {"removeAll", "sweep"} => sweeping'[t] \in Maps
<1>1. CASE sweeping[t] # None /\ sweeping[t][2] = "inboxes"
  <2> DEFINE m == <<sweeping[t][1], "subscriptions">>
  <2>1. m \in Maps
    BY <1>1, NextMapIsMap DEF CallTypes
  <2>2. sweeping' = [sweeping EXCEPT ![t] = m]
    BY <1>1 DEF NextMap
  <2> HIDE DEF m
  <2>3. QED
    BY <2>1, <2>2 DEF CallTypes
<1>2. CASE ~(sweeping[t] # None /\ sweeping[t][2] = "inboxes")
  BY <1>2 DEF NextMap, Return, Goto, CallTypes
<1>3. QED
  BY <1>1, <1>2

\* Unlocking a lock whose depth counts its owner leaves a lock.
LEMMA UnlockedIsLock ==
  ASSUME NEW l \in Locks(Threads), NEW t, l.owner = NoThread <=> l.depth = 0, t # NoThread
  PROVE  Unlocked(l, t) \in Locks(Threads)
<1>1. CASE l.owner # t
  BY <1>1 DEF Unlocked
<1>2. CASE l.owner = t /\ l.depth = 1
  BY DEF Unlocked, Free, Locks
<1>3. CASE l.owner = t /\ l.depth # 1
  BY <1>3 DEF Unlocked, Locks
<1>4. QED
  BY <1>1, <1>2, <1>3

\* Custody is kept when createInbox or createSubscription allocates a wrapper nobody knows.
LEMMA AllocateKeepsCustody ==
  ASSUME Custody, NEW t \in Threads, NEW x \in Objects, NEW kinds \in SUBSET Kinds, "message" \in kinds,
         Allocate(t, x, kinds)
  PROVE  Custody'
<1>1. ObjectTypes'
  <2>1. phase' \in [Objects -> Phases]
    BY DEF Allocate, Custody, TypeOK, ObjectTypes, Phases
  <2>2. QED
    BY <2>1 DEF Allocate, Custody, TypeOK, ObjectTypes, mapVars, histVars
<1>2. CallTypes'
  BY DEF Allocate, Goto, Custody, TypeOK, CallTypes, CreatePlaces, ObjectPlaces,
     CallPlaces
<1>3. DispatchTypes'
  BY DEF Allocate, dispVars, Custody, TypeOK, DispatchTypes
<1>4. MapCustody'
  BY DEF Allocate, mapVars, dispVars, Custody, MapCustody, Finalising, Unclaimed
<1>5. ClaimCustody'
  BY DEF Allocate, dispVars, Custody, ClaimCustody, Finalising
<1>6. QueueCustody'
  BY DEF Allocate, dispVars, Custody, QueueCustody, Finalising
<1>7. CreateCustody'
  <2>1. \A u \in Threads : u # t => pc'[u] = pc[u] /\ arg'[u] = arg[u]
    BY DEF Allocate, Goto, Custody, TypeOK, CallTypes
  <2>2. pc'[t] \in {"idle", "create"}
    BY DEF Allocate, CanCall, Goto, Custody, TypeOK, CallTypes
  <2>3. UNCHANGED <<map, queued, claimed, dpc, dobj, dkind, silenced>>
    BY DEF Allocate, mapVars, dispVars, histVars
  <2>4. /\ phase[x] = "none" /\ pc[t] = "idle" /\ (pc'[t] = "create" => arg'[t] = x)
        /\ \A y \in Objects : y # x => phase'[y] = phase[y]
    BY DEF Allocate, CanCall, Goto, Custody, TypeOK, ObjectTypes, CallTypes
  <2>5. QED
    BY <2>1, <2>2, <2>3, <2>4 DEF Custody, CreateCustody, NowhereElse, Creating,
       Unclaimed, Finalising
<1>8. NowhereElse'
  <2>1. \A u \in Threads : u # t => pc'[u] = pc[u] /\ arg'[u] = arg[u]
    BY DEF Allocate, Goto, Custody, TypeOK, CallTypes
  <2>2. UNCHANGED <<map, queued, claimed, dpc, dobj, dkind, silenced>>
    BY DEF Allocate, mapVars, dispVars, histVars
  <2>3. /\ phase[x] = "none" /\ pc[t] = "idle" /\ phase'[x] \in {"allocated", "freed"}
        /\ \A y \in Objects : y # x => phase'[y] = phase[y]
    BY DEF Allocate, CanCall, Custody, TypeOK, ObjectTypes
  <2>4. \A y \in Objects : y # x => (Creating(t, y)' <=> Creating(t, y))
    BY DEF Allocate, CanCall, Goto, Creating, Custody, TypeOK, CallTypes
  <2>5. QED
    BY <2>1, <2>2, <2>3, <2>4 DEF Custody, NowhereElse, Creating, Unclaimed,
       Finalising
<1>9. NoneIsSilent'
  BY DEF Allocate, Goto, dispVars, histVars, Custody, TypeOK, ObjectTypes,
     CallTypes, NoneIsSilent, Delivering, InCallback
<1>10. CallCustody'
  BY ConstantsAssumption DEF Allocate, CanCall, Goto, mapVars, dispVars,
     Custody, TypeOK, CallTypes, CallCustody, Threads, DestroyPlaces
<1>11. LockCustody'
  BY DEF Allocate, dispVars, Custody, LockCustody, InCallback
<1>12. SilencedStaysSilent'
  BY DEF Allocate, histVars, Custody, TypeOK, ObjectTypes, SilencedStaysSilent,
     NoneIsSilent
<1>13. ShutdownQuiesces'
  BY DEF Allocate, dispVars, histVars, Custody, ShutdownQuiesces
<1>14. QED
  BY <1>1, <1>2, <1>3, <1>4, <1>5, <1>6, <1>7, <1>8, <1>9, <1>10, <1>11, <1>12,
     <1>13 DEF Custody, TypeOK

\* Custody is kept when MAMA creates the object, and calls back from here on.
LEMMA MamaCreatesKeepsCustody ==
  ASSUME Custody, NEW t \in Threads, MamaCreates(t)
  PROVE  Custody'
<1>1. ObjectTypes'
  BY DEF MamaCreates, mapVars, histVars, Custody, TypeOK, ObjectTypes,
     CallTypes, Phases, CallPlaces
<1>2. CallTypes'
  BY DEF MamaCreates, Goto, Custody, TypeOK, CallTypes, CreatePlaces,
     ObjectPlaces, CallPlaces
<1>3. DispatchTypes'
  BY DEF MamaCreates, dispVars, Custody, TypeOK, DispatchTypes
<1>4. MapCustody'
  BY DEF MamaCreates, mapVars, dispVars, Custody, MapCustody, Finalising,
     Unclaimed
<1>5. ClaimCustody'
  BY DEF MamaCreates, dispVars, Custody, ClaimCustody, Finalising
<1>6. QueueCustody'
  BY DEF MamaCreates, dispVars, Custody, QueueCustody, Finalising
<1>7. CreateCustody'
  BY DEF MamaCreates, Goto, mapVars, dispVars, Custody, CreateCustody, Creating,
     Finalising, Unclaimed
<1>8. NowhereElse'
  BY DEF MamaCreates, Goto, mapVars, dispVars, Custody, NowhereElse, Creating,
     Finalising, Unclaimed
<1>9. NoneIsSilent'
  BY DEF MamaCreates, Goto, dispVars, histVars, Custody, NoneIsSilent,
     Delivering, InCallback
<1>10. CallCustody'
  BY DEF MamaCreates, Goto, dispVars, Custody, CallCustody, DestroyPlaces
<1>11. LockCustody'
  BY DEF MamaCreates, dispVars, Custody, LockCustody, InCallback
<1>12. SilencedStaysSilent'
  BY DEF MamaCreates, histVars, Custody, SilencedStaysSilent
<1>13. ShutdownQuiesces'
  BY DEF MamaCreates, dispVars, histVars, Custody, ShutdownQuiesces
<1>14. QED
  BY <1>1, <1>2, <1>3, <1>4, <1>5, <1>6, <1>7, <1>8, <1>9, <1>10, <1>11, <1>12,
     <1>13 DEF Custody, TypeOK

\* Custody is kept when creation puts the wrapper into its map.
LEMMA CreateInsertKeepsCustody ==
  ASSUME Custody, NEW t \in Threads, CreateInsert(t)
  PROVE  Custody'
<1>1. ObjectTypes'
  BY DEF CreateInsert, histVars, Custody, TypeOK, ObjectTypes, CallTypes,
     CallPlaces
<1>2. CallTypes'
  BY DEF CreateInsert, Goto, Custody, TypeOK, CallTypes, CreatePlaces,
     ObjectPlaces, CallPlaces
<1>3. DispatchTypes'
  BY DEF CreateInsert, dispVars, Custody, TypeOK, DispatchTypes
<1>4. MapCustody'
  BY DEF CreateInsert, dispVars, Custody, TypeOK, CallTypes, MapCustody,
     CreateCustody, Creating, Finalising, Unclaimed, CallPlaces
<1>5. ClaimCustody'
  BY DEF CreateInsert, dispVars, Custody, ClaimCustody, Finalising
<1>6. QueueCustody'
  BY DEF CreateInsert, dispVars, Custody, QueueCustody, Finalising
<1>7. CreateCustody'
  BY DEF CreateInsert, Goto, dispVars, Custody, TypeOK, CallTypes,
     CreateCustody, Creating, Finalising, Unclaimed
<1>8. NowhereElse'
  BY DEF CreateInsert, Goto, dispVars, Custody, NowhereElse, Creating,
     Finalising, Unclaimed
<1>9. NoneIsSilent'
  BY DEF CreateInsert, Goto, dispVars, histVars, Custody, NoneIsSilent,
     Delivering, InCallback
<1>10. CallCustody'
  BY DEF CreateInsert, Goto, dispVars, Custody, CallCustody, DestroyPlaces
<1>11. LockCustody'
  BY DEF CreateInsert, dispVars, Custody, LockCustody, InCallback
<1>12. SilencedStaysSilent'
  BY DEF CreateInsert, histVars, Custody, SilencedStaysSilent
<1>13. ShutdownQuiesces'
  BY DEF CreateInsert, dispVars, histVars, Custody, ShutdownQuiesces
<1>14. QED
  BY <1>1, <1>2, <1>3, <1>4, <1>5, <1>6, <1>7, <1>8, <1>9, <1>10, <1>11, <1>12,
     <1>13 DEF Custody, TypeOK

\* Custody is kept when createInbox frees what it has allocated.
LEMMA CreateInboxFailsKeepsCustody ==
  ASSUME Custody, NEW t \in Threads, CreateInboxFails(t)
  PROVE  Custody'
<1>1. ObjectTypes'
  BY DEF CreateInboxFails, CreationFails, mapVars, histVars, Custody, TypeOK,
     ObjectTypes, CallTypes, Phases, CallPlaces
<1>2. CallTypes'
  BY DEF CreateInboxFails, Return, Goto, Custody, TypeOK, CallTypes,
     CreatePlaces, DestroyPlaces, ObjectPlaces, CallPlaces
<1>3. DispatchTypes'
  BY DEF CreateInboxFails, dispVars, Custody, TypeOK, DispatchTypes
<1>4. MapCustody'
  BY DEF CreateInboxFails, mapVars, dispVars, Custody, MapCustody, Finalising,
     Unclaimed
<1>5. ClaimCustody'
  BY DEF CreateInboxFails, dispVars, Custody, ClaimCustody, Finalising
<1>6. QueueCustody'
  BY DEF CreateInboxFails, dispVars, Custody, QueueCustody, Finalising
<1>7. CreateCustody'
  BY DEF CreateInboxFails, Return, Goto, mapVars, dispVars, Custody, TypeOK,
     CallTypes, CreateCustody, Creating, Finalising, Unclaimed
<1>8. NowhereElse'
  BY DEF CreateInboxFails, Return, Goto, mapVars, dispVars, Custody, TypeOK,
     CallTypes, NowhereElse, Creating, Finalising, Unclaimed
<1>9. NoneIsSilent'
  BY DEF CreateInboxFails, CreationFails, Return, Goto, dispVars, histVars,
     Custody, NoneIsSilent, Delivering, InCallback
<1>10. CallCustody'
  BY DEF CreateInboxFails, CreationFails, Return, Goto, dispVars, Custody,
     CallCustody, DestroyPlaces
<1>11. LockCustody'
  BY DEF CreateInboxFails, dispVars, Custody, LockCustody, InCallback
<1>12. SilencedStaysSilent'
  BY DEF CreateInboxFails, histVars, Custody, SilencedStaysSilent
<1>13. ShutdownQuiesces'
  BY DEF CreateInboxFails, dispVars, histVars, Custody, ShutdownQuiesces
<1>14. QED
  BY <1>1, <1>2, <1>3, <1>4, <1>5, <1>6, <1>7, <1>8, <1>9, <1>10, <1>11, <1>12,
     <1>13 DEF Custody, TypeOK

\* Custody is kept when createSubscription asks MAMA to destroy what it has allocated.
LEMMA CreateSubscriptionFailsKeepsCustody ==
  ASSUME Custody, NEW t \in Threads, CreateSubscriptionFails(t)
  PROVE  Custody'
<1>1. ObjectTypes'
  BY DEF CreateSubscriptionFails, CreationFails, mapVars, histVars, Custody,
     TypeOK, ObjectTypes, CallTypes, Phases, CallPlaces
<1>2. CallTypes'
  BY DEF CreateSubscriptionFails, Return, Goto, Custody, TypeOK, CallTypes,
     CreatePlaces, DestroyPlaces, ObjectPlaces, CallPlaces
<1>3. DispatchTypes'
  BY DEF CreateSubscriptionFails, dispVars, Custody, TypeOK, DispatchTypes
<1>4. MapCustody'
  BY DEF CreateSubscriptionFails, mapVars, dispVars, Custody, MapCustody,
     Finalising, Unclaimed
<1>5. ClaimCustody'
  BY DEF CreateSubscriptionFails, dispVars, Custody, ClaimCustody, Finalising
<1>6. QueueCustody'
  BY DEF CreateSubscriptionFails, dispVars, Custody, QueueCustody, Finalising
<1>7. CreateCustody'
  BY DEF CreateSubscriptionFails, Return, Goto, mapVars, dispVars, Custody,
     TypeOK, CallTypes, CreateCustody, Creating, Finalising, Unclaimed
<1>8. NowhereElse'
  BY DEF CreateSubscriptionFails, CreationFails, Return, Goto, mapVars,
     dispVars, Custody, TypeOK, CallTypes, NowhereElse, CreateCustody, Creating,
     Finalising, Unclaimed
<1>9. NoneIsSilent'
  BY DEF CreateSubscriptionFails, CreationFails, Return, Goto, dispVars,
     histVars, Custody, NoneIsSilent, Delivering, InCallback
<1>10. CallCustody'
  BY DEF CreateSubscriptionFails, CreationFails, Return, Goto, dispVars,
     Custody, CallCustody, DestroyPlaces
<1>11. LockCustody'
  BY DEF CreateSubscriptionFails, dispVars, Custody, LockCustody, InCallback
<1>12. SilencedStaysSilent'
  BY DEF CreateSubscriptionFails, histVars, Custody, SilencedStaysSilent
<1>13. ShutdownQuiesces'
  BY DEF CreateSubscriptionFails, dispVars, histVars, Custody, ShutdownQuiesces
<1>14. QED
  BY <1>1, <1>2, <1>3, <1>4, <1>5, <1>6, <1>7, <1>8, <1>9, <1>10, <1>11, <1>12,
     <1>13 DEF Custody, TypeOK

\* Custody is kept when creation returns the handle.
LEMMA CreateReturnKeepsCustody ==
  ASSUME Custody, NEW t \in Threads, CreateReturn(t)
  PROVE  Custody'
<1>1. ObjectTypes'
  BY DEF CreateReturn, mapVars, Custody, TypeOK, ObjectTypes, CallTypes,
     CallPlaces
<1>2. CallTypes'
  BY DEF CreateReturn, Return, Goto, Custody, TypeOK, CallTypes, CreatePlaces,
     DestroyPlaces, ObjectPlaces, CallPlaces
<1>3. DispatchTypes'
  BY DEF CreateReturn, dispVars, Custody, TypeOK, DispatchTypes
<1>4. MapCustody'
  BY DEF CreateReturn, mapVars, dispVars, Custody, MapCustody, Finalising,
     Unclaimed
<1>5. ClaimCustody'
  BY DEF CreateReturn, dispVars, Custody, ClaimCustody, Finalising
<1>6. QueueCustody'
  BY DEF CreateReturn, dispVars, Custody, QueueCustody, Finalising
<1>7. CreateCustody'
  BY DEF CreateReturn, Return, Goto, mapVars, dispVars, Custody, CreateCustody,
     Creating, Finalising, Unclaimed
<1>8. NowhereElse'
  BY DEF CreateReturn, Return, Goto, mapVars, dispVars, Custody, NowhereElse,
     Creating, Finalising, Unclaimed
<1>9. NoneIsSilent'
  BY DEF CreateReturn, Return, Goto, dispVars, Custody, NoneIsSilent,
     Delivering, InCallback
<1>10. CallCustody'
  BY DEF CreateReturn, Return, Goto, dispVars, Custody, CallCustody,
     DestroyPlaces
<1>11. LockCustody'
  BY DEF CreateReturn, dispVars, Custody, LockCustody, InCallback
<1>12. SilencedStaysSilent'
  BY DEF CreateReturn, Custody, SilencedStaysSilent
<1>13. ShutdownQuiesces'
  BY DEF CreateReturn, dispVars, Custody, ShutdownQuiesces
<1>14. QED
  BY <1>1, <1>2, <1>3, <1>4, <1>5, <1>6, <1>7, <1>8, <1>9, <1>10, <1>11, <1>12,
     <1>13 DEF Custody, TypeOK

\* Custody is kept when a call of destroyInbox or destroySubscription begins.
LEMMA DestroyKeepsCustody ==
  ASSUME Custody, NEW t \in Threads, NEW x \in Objects, Destroy(t, x)
  PROVE  Custody'
<1>1. ObjectTypes'
  BY DEF Destroy, mapVars, histVars, Custody, TypeOK, ObjectTypes
<1>2. CallTypes'
  BY DEF Destroy, Goto, Custody, TypeOK, CallTypes, ObjectPlaces, CallPlaces
<1>3. DispatchTypes'
  BY DEF Destroy, dispVars, Custody, TypeOK, DispatchTypes
<1>4. MapCustody'
  BY DEF Destroy, mapVars, dispVars, Custody, MapCustody, Finalising, Unclaimed
<1>5. ClaimCustody'
  BY DEF Destroy, dispVars, Custody, ClaimCustody, Finalising
<1>6. QueueCustody'
  BY DEF Destroy, dispVars, Custody, QueueCustody, Finalising
<1>7. CreateCustody'
  BY DEF Destroy, CanCall, Goto, mapVars, dispVars, Custody, CreateCustody,
     Creating, Finalising, Unclaimed
<1>8. NowhereElse'
  BY DEF Destroy, CanCall, Goto, mapVars, dispVars, Custody, NowhereElse,
     Creating, Finalising, Unclaimed
<1>9. NoneIsSilent'
  BY DEF Destroy, Goto, dispVars, histVars, Custody, TypeOK, CallTypes,
     NoneIsSilent, Delivering, InCallback
<1>10. CallCustody'
  BY ConstantsAssumption DEF Destroy, CanCall, Goto, dispVars, Custody,
     CallCustody, DestroyPlaces
<1>11. LockCustody'
  BY DEF Destroy, dispVars, Custody, LockCustody, InCallback
<1>12. SilencedStaysSilent'
  BY DEF Destroy, histVars, Custody, SilencedStaysSilent
<1>13. ShutdownQuiesces'
  BY DEF Destroy, dispVars, histVars, Custody, ShutdownQuiesces
<1>14. QED
  BY <1>1, <1>2, <1>3, <1>4, <1>5, <1>6, <1>7, <1>8, <1>9, <1>10, <1>11, <1>12,
     <1>13 DEF Custody, TypeOK

\* Custody is kept when a call that removes the wrapper from its map claims it.
LEMMA DestroyRemoveKeepsCustody ==
  ASSUME Custody, NEW t \in Threads, DestroyRemove(t)
  PROVE  Custody'
<1>1. ObjectTypes'
  BY DEF DestroyRemove, histVars, Custody, TypeOK, ObjectTypes
<1>2. CallTypes'
  <2>1. \A u \in Threads : u # t => pc'[u] = pc[u] /\ arg'[u] = arg[u] /\ claimed'[u] =
          claimed[u]
    BY DEF DestroyRemove, Return, Goto, Custody, TypeOK, CallTypes
  <2>2. pc'[t] \in {"idle", "clear"}
    BY DEF DestroyRemove, Return, Goto, Custody, TypeOK, CallTypes
  <2>3. UNCHANGED <<phase, queued, sweeping, dpc, dobj, dkind, silenced>>
    BY DEF DestroyRemove, dispVars, histVars
  <2>4. pc' \in [Threads -> CallPlaces] /\ arg' \in [Threads -> Objects \cup {None}]
        /\ (pc'[t] = "clear" => arg'[t] \in Objects)
    BY DEF DestroyRemove, Return, Goto, Custody, TypeOK, CallTypes, CallPlaces,
       ObjectPlaces, DestroyPlaces
  <2>5. claimed' \in [Threads -> SUBSET Objects]
    BY DEF DestroyRemove, Custody, TypeOK, CallTypes, ObjectTypes
  <2>6. QED
    BY <2>1, <2>2, <2>3, <2>4, <2>5 DEF Custody, TypeOK, CallTypes,
       ObjectPlaces, CreatePlaces, DestroyPlaces
<1>3. DispatchTypes'
  BY DEF DestroyRemove, dispVars, Custody, TypeOK, DispatchTypes
<1>4. MapCustody'
  BY DEF DestroyRemove, dispVars, Custody, TypeOK, CallTypes, MapCustody,
     Finalising, Unclaimed
<1>5. ClaimCustody'
  <2>1. \A u \in Threads : u # t => pc'[u] = pc[u] /\ arg'[u] = arg[u] /\ claimed'[u] =
          claimed[u]
    BY DEF DestroyRemove, Return, Goto, Custody, TypeOK, CallTypes
  <2>2. UNCHANGED <<phase, queued, sweeping, dpc, dobj, dkind, silenced>>
    BY DEF DestroyRemove, dispVars, histVars
  <2>3. /\ arg[t] \in Objects /\ map' = map \ {arg[t]}
        /\ IF arg[t] \in map THEN claimed'[t] = {arg[t]} /\ arg'[t] = arg[t]
           ELSE claimed'[t] = claimed[t] /\ pc'[t] = "idle"
    BY DEF DestroyRemove, Return, Goto, Custody, TypeOK, CallTypes, ObjectPlaces
  <2>4. QED
    BY <2>1, <2>2, <2>3 DEF Custody, ClaimCustody, MapCustody, Unclaimed,
       Finalising
<1>6. QueueCustody'
  BY DEF DestroyRemove, dispVars, Custody, QueueCustody, Finalising
<1>7. CreateCustody'
  <2>1. \A u \in Threads : u # t => pc'[u] = pc[u] /\ arg'[u] = arg[u] /\ claimed'[u] =
          claimed[u]
    BY DEF DestroyRemove, Return, Goto, Custody, TypeOK, CallTypes
  <2>2. pc'[t] \in {"idle", "clear"}
    BY DEF DestroyRemove, Return, Goto, Custody, TypeOK, CallTypes
  <2>3. UNCHANGED <<phase, queued, sweeping, dpc, dobj, dkind, silenced>>
    BY DEF DestroyRemove, dispVars, histVars
  <2>4. /\ arg[t] \in Objects /\ map' = map \ {arg[t]}
        /\ IF arg[t] \in map THEN claimed'[t] = {arg[t]} /\ arg'[t] = arg[t]
           ELSE claimed'[t] = claimed[t] /\ pc'[t] = "idle"
    BY DEF DestroyRemove, Return, Goto, Custody, TypeOK, CallTypes, ObjectPlaces
  <2>5. QED
    BY <2>1, <2>2, <2>3, <2>4 DEF Custody, CreateCustody, Creating, Unclaimed,
       Finalising
<1>8. NowhereElse'
  <2>1. \A u \in Threads : u # t => pc'[u] = pc[u] /\ arg'[u] = arg[u] /\ claimed'[u] =
          claimed[u]
    BY DEF DestroyRemove, Return, Goto, Custody, TypeOK, CallTypes
  <2>2. UNCHANGED <<phase, queued, sweeping, dpc, dobj, dkind, silenced>>
    BY DEF DestroyRemove, dispVars, histVars
  <2>3. /\ arg[t] \in Objects /\ map' = map \ {arg[t]}
        /\ IF arg[t] \in map THEN claimed'[t] = {arg[t]} /\ arg'[t] = arg[t]
           ELSE claimed'[t] = claimed[t] /\ pc'[t] = "idle"
    BY DEF DestroyRemove, Return, Goto, Custody, TypeOK, CallTypes, ObjectPlaces
  <2>4. QED
    BY <2>1, <2>2, <2>3 DEF Custody, NowhereElse, Creating, Unclaimed,
       Finalising
<1>9. NoneIsSilent'
  BY DEF DestroyRemove, Return, Goto, dispVars, histVars, Custody, TypeOK,
     CallTypes, NoneIsSilent, Delivering, InCallback
<1>10. CallCustody'
  <2>1. \A u \in Threads : u # t => pc'[u] = pc[u] /\ arg'[u] = arg[u] /\ claimed'[u] =
          claimed[u]
    BY DEF DestroyRemove, Return, Goto, Custody, TypeOK, CallTypes
  <2>2. UNCHANGED <<phase, queued, sweeping, dpc, dobj, dkind, silenced>>
    BY DEF DestroyRemove, dispVars, histVars
  <2>3. /\ arg[t] \in Objects /\ claimed[t] = {} /\ sweeping[t] = None
        /\ \/ pc'[t] = "clear" /\ claimed'[t] = {arg[t]} /\ arg'[t] = arg[t]
           \/ pc'[t] = "idle" /\ claimed'[t] = {}
    BY DEF DestroyRemove, Return, Goto, Custody, TypeOK, CallTypes, CallCustody,
       ObjectPlaces, DestroyPlaces
  <2>4. t \in Sessions => dpc[t] = "callback"
    BY DEF DestroyRemove, Custody, CallCustody
  <2>5. \A v \in Sessions : pc'[v] # "idle" => dpc'[v] = "callback"
    BY <2>1, <2>2, <2>4 DEF Custody, CallCustody, Threads
  <2>6. QED
    BY <2>1, <2>2, <2>3, <2>5 DEF Custody, CallCustody, DestroyPlaces
<1>11. LockCustody'
  BY DEF DestroyRemove, dispVars, Custody, LockCustody, InCallback
<1>12. SilencedStaysSilent'
  BY DEF DestroyRemove, histVars, Custody, SilencedStaysSilent
<1>13. ShutdownQuiesces'
  BY DEF DestroyRemove, dispVars, histVars, Custody, ShutdownQuiesces
<1>14. QED
  BY <1>1, <1>2, <1>3, <1>4, <1>5, <1>6, <1>7, <1>8, <1>9, <1>10, <1>11, <1>12,
     <1>13 DEF Custody, TypeOK

\* Custody is kept when all callbacks are cleared under m_lock.
LEMMA ClearKeepsCustody ==
  ASSUME Custody, NEW t \in Threads, Clear(t)
  PROVE  Custody'
<1>1. ObjectTypes'
  BY DEF Clear, Silence, mapVars, Custody, TypeOK, ObjectTypes, CallTypes,
     CallPlaces
<1>2. CallTypes'
  BY DEF Clear, Goto, Custody, TypeOK, CallTypes, DestroyPlaces, ObjectPlaces,
     CallPlaces
<1>3. DispatchTypes'
  BY DEF Clear, dispVars, Custody, TypeOK, DispatchTypes
<1>4. MapCustody'
  BY DEF Clear, mapVars, dispVars, Custody, MapCustody, Finalising, Unclaimed
<1>5. ClaimCustody'
  BY DEF Clear, dispVars, Custody, ClaimCustody, Finalising
<1>6. QueueCustody'
  BY DEF Clear, dispVars, Custody, QueueCustody, Finalising
<1>7. CreateCustody'
  <2>1. \A u \in Threads : u # t => pc'[u] = pc[u] /\ arg'[u] = arg[u]
    BY DEF Clear, Goto
  <2>2. pc'[t] \in {"enqueue"}
    BY DEF Clear, Goto, Custody, TypeOK, CallTypes
  <2>3. UNCHANGED <<map, queued, claimed, dpc, dobj>>
    BY DEF Clear, mapVars, dispVars
  <2>4. QED
    BY <2>1, <2>2, <2>3 DEF Custody, CreateCustody, Creating, Unclaimed,
       Finalising
<1>8. NowhereElse'
  BY DEF Clear, Goto, mapVars, dispVars, Custody, NowhereElse, Creating,
     Finalising, Unclaimed
<1>9. NoneIsSilent'
  BY DEF Clear, Silence, Goto, dispVars, Custody, NoneIsSilent, NowhereElse,
     CallCustody, Delivering, InCallback, Unclaimed, DestroyPlaces
<1>10. CallCustody'
  BY DEF Clear, Goto, dispVars, Custody, CallCustody, DestroyPlaces
<1>11. LockCustody'
  BY DEF Clear, dispVars, Custody, LockCustody, InCallback
<1>12. SilencedStaysSilent'
  BY DEF Clear, Silence, Custody, TypeOK, ObjectTypes, SilencedStaysSilent
<1>13. ShutdownQuiesces'
  BY ConstantsAssumption DEF Clear, Silence, dispVars, Custody, TypeOK,
     DispatchTypes, ShutdownQuiesces, LockCustody, InCallback, CanLock, Threads
<1>14. QED
  BY <1>1, <1>2, <1>3, <1>4, <1>5, <1>6, <1>7, <1>8, <1>9, <1>10, <1>11, <1>12,
     <1>13 DEF Custody, TypeOK

\* Custody is kept when the wrapper is given to the queue.
LEMMA DestroyEnqueueKeepsCustody ==
  ASSUME Custody, NEW t \in Threads, DestroyEnqueue(t)
  PROVE  Custody'
<1>1. ObjectTypes'
  BY DEF DestroyEnqueue, mapVars, histVars, Custody, TypeOK, ObjectTypes
<1>2. CallTypes'
  <2>1. \A u \in Threads : u # t => pc'[u] = pc[u] /\ arg'[u] = arg[u] /\ claimed'[u] =
          claimed[u] /\ sweeping'[u] = sweeping[u]
    BY DEF DestroyEnqueue, NextMap, Return, Goto, Custody, TypeOK, CallTypes
  <2>2. pc'[t] \in {"idle", "removeAll", "sweep"}
    BY DEF DestroyEnqueue, NextMap, Return, Goto, Custody, TypeOK, CallTypes
  <2>3. /\ sweeping' \in [Threads -> Maps \cup {None}]
        /\ pc'[t] \in {"removeAll", "sweep"} => sweeping'[t] \in Maps
    <3>1. CASE NextMap(t)
      BY <3>1, NextMapTypes DEF Custody, TypeOK
    <3>2. CASE UNCHANGED sweeping /\ claimed[t] # {arg[t]}
      BY <3>2 DEF DestroyEnqueue, Custody, TypeOK, CallTypes, CallCustody,
         DestroyPlaces
    <3>3. QED
      BY <3>1, <3>2 DEF DestroyEnqueue
  <2>4. pc' \in [Threads -> CallPlaces] /\ arg' \in [Threads -> Objects \cup {None}]
    BY DEF DestroyEnqueue, NextMap, Return, Goto, Custody, TypeOK, CallTypes,
       CallPlaces
  <2>5. claimed' \in [Threads -> SUBSET Objects]
    BY DEF DestroyEnqueue, Custody, TypeOK, CallTypes
  <2>6. QED
    BY <2>1, <2>2, <2>3, <2>4, <2>5 DEF Custody, TypeOK, CallTypes,
       ObjectPlaces, CreatePlaces, DestroyPlaces
<1>3. DispatchTypes'
  BY DEF DestroyEnqueue, dispVars, Custody, TypeOK, DispatchTypes
<1>4. MapCustody'
  <2>1. \A u \in Threads : u # t => pc'[u] = pc[u] /\ arg'[u] = arg[u] /\ claimed'[u] =
          claimed[u] /\ sweeping'[u] = sweeping[u]
    BY DEF DestroyEnqueue, NextMap, Return, Goto, Custody, TypeOK, CallTypes
  <2>2. UNCHANGED <<phase, map, dpc, dobj, dkind, silenced>>
    BY DEF DestroyEnqueue, mapVars, dispVars, histVars
  <2>3. /\ claimed'[t] = claimed[t] \ {arg[t]} /\ arg[t] \in claimed[t]
        /\ \A y \in Objects : y # arg[t] => queued'[y] = queued[y]
    BY DEF DestroyEnqueue, Custody, TypeOK, ObjectTypes, CallTypes, CallCustody,
       DestroyPlaces
  <2>4. QED
    BY <2>1, <2>2, <2>3 DEF Custody, TypeOK, ObjectTypes, MapCustody, Unclaimed,
       Finalising
<1>5. ClaimCustody'
  BY DEF DestroyEnqueue, dispVars, Custody, TypeOK, ObjectTypes, CallTypes,
     ClaimCustody, CallCustody, Finalising, DestroyPlaces
<1>6. QueueCustody'
  <2>1. UNCHANGED <<phase, map, dpc, dobj, dkind, silenced>>
    BY DEF DestroyEnqueue, mapVars, dispVars, histVars
  <2>2. /\ claimed'[t] = claimed[t] \ {arg[t]} /\ arg[t] \in claimed[t] /\ arg[t] \in Objects
        /\ \A y \in Objects : y # arg[t] => queued'[y] = queued[y]
        /\ queued'[arg[t]] \in {queued[arg[t]], queued[arg[t]] + 1}
    BY DEF DestroyEnqueue, Custody, TypeOK, ObjectTypes, CallTypes, CallCustody,
       DestroyPlaces
  <2>3. QED
    BY <2>1, <2>2 DEF Custody, QueueCustody, ClaimCustody, Finalising
<1>7. CreateCustody'
  <2>1. \A u \in Threads : u # t => pc'[u] = pc[u] /\ arg'[u] = arg[u] /\ claimed'[u] =
          claimed[u] /\ sweeping'[u] = sweeping[u]
    BY DEF DestroyEnqueue, NextMap, Return, Goto, Custody, TypeOK, CallTypes
  <2>2. pc'[t] \in {"idle", "removeAll", "sweep"}
    BY DEF DestroyEnqueue, NextMap, Return, Goto, Custody, TypeOK, CallTypes
  <2>3. UNCHANGED <<phase, map, dpc, dobj, dkind, silenced>>
    BY DEF DestroyEnqueue, mapVars, dispVars, histVars
  <2>4. /\ claimed'[t] = claimed[t] \ {arg[t]} /\ arg[t] \in claimed[t]
        /\ \A y \in Objects : y # arg[t] => queued'[y] = queued[y]
    BY DEF DestroyEnqueue, Custody, TypeOK, ObjectTypes, CallTypes, CallCustody,
       DestroyPlaces
  <2>5. QED
    BY <2>1, <2>2, <2>3, <2>4 DEF Custody, CreateCustody, Creating, Unclaimed,
       Finalising
<1>8. NowhereElse'
  <2>1. \A u \in Threads : u # t => pc'[u] = pc[u] /\ arg'[u] = arg[u] /\ claimed'[u] =
          claimed[u] /\ sweeping'[u] = sweeping[u]
    BY DEF DestroyEnqueue, NextMap, Return, Goto, Custody, TypeOK, CallTypes
  <2>2. pc'[t] \in {"idle", "removeAll", "sweep"}
    BY DEF DestroyEnqueue, NextMap, Return, Goto, Custody, TypeOK, CallTypes
  <2>3. UNCHANGED <<phase, map, dpc, dobj, dkind, silenced>>
    BY DEF DestroyEnqueue, mapVars, dispVars, histVars
  <2>4. /\ claimed'[t] = claimed[t] \ {arg[t]} /\ arg[t] \in claimed[t] /\ arg[t] \in Objects
        /\ \A y \in Objects : y # arg[t] => queued'[y] = queued[y]
        /\ queued'[arg[t]] \in {queued[arg[t]], queued[arg[t]] + 1}
    BY DEF DestroyEnqueue, Custody, TypeOK, ObjectTypes, CallTypes, CallCustody,
       DestroyPlaces
  <2>5. QED
    BY <2>1, <2>2, <2>3, <2>4 DEF Custody, NowhereElse, Creating, Unclaimed,
       Finalising
<1>9. NoneIsSilent'
  <2>1. \A u \in Threads : u # t => pc'[u] = pc[u] /\ arg'[u] = arg[u] /\ claimed'[u] =
          claimed[u] /\ sweeping'[u] = sweeping[u]
    BY DEF DestroyEnqueue, NextMap, Return, Goto, Custody, TypeOK, CallTypes
  <2>2. pc'[t] \in {"idle", "removeAll", "sweep"}
    BY DEF DestroyEnqueue, NextMap, Return, Goto, Custody, TypeOK, CallTypes
  <2>3. UNCHANGED <<phase, map, dpc, dobj, dkind, silenced>>
    BY DEF DestroyEnqueue, mapVars, dispVars, histVars
  <2>4. QED
    BY <2>1, <2>2, <2>3 DEF Custody, NoneIsSilent, Delivering, InCallback
<1>10. CallCustody'
  BY DEF DestroyEnqueue, NextMap, Return, Goto, dispVars, Custody, TypeOK,
     CallTypes, CallCustody, Threads, DestroyPlaces
<1>11. LockCustody'
  BY DEF DestroyEnqueue, dispVars, Custody, LockCustody, InCallback
<1>12. SilencedStaysSilent'
  BY DEF DestroyEnqueue, histVars, Custody, SilencedStaysSilent
<1>13. ShutdownQuiesces'
  BY DEF DestroyEnqueue, dispVars, histVars, Custody, ShutdownQuiesces
<1>14. QED
  BY <1>1, <1>2, <1>3, <1>4, <1>5, <1>6, <1>7, <1>8, <1>9, <1>10, <1>11, <1>12,
     <1>13 DEF Custody, TypeOK

\* Custody is kept when a call of shutdownInbox or shutdownSubscription begins.
LEMMA ShutdownKeepsCustody ==
  ASSUME Custody, NEW t \in Threads, NEW x \in Objects, Shutdown(t, x)
  PROVE  Custody'
<1>1. ObjectTypes'
  BY DEF Shutdown, mapVars, histVars, Custody, TypeOK, ObjectTypes
<1>2. CallTypes'
  BY DEF Shutdown, Goto, Custody, TypeOK, CallTypes, ObjectPlaces, CallPlaces
<1>3. DispatchTypes'
  BY DEF Shutdown, dispVars, Custody, TypeOK, DispatchTypes
<1>4. MapCustody'
  BY DEF Shutdown, mapVars, dispVars, Custody, MapCustody, Finalising, Unclaimed
<1>5. ClaimCustody'
  BY DEF Shutdown, dispVars, Custody, ClaimCustody, Finalising
<1>6. QueueCustody'
  BY DEF Shutdown, dispVars, Custody, QueueCustody, Finalising
<1>7. CreateCustody'
  BY DEF Shutdown, CanCall, Goto, mapVars, dispVars, Custody, CreateCustody,
     Creating, Finalising, Unclaimed
<1>8. NowhereElse'
  BY DEF Shutdown, CanCall, Goto, mapVars, dispVars, Custody, NowhereElse,
     Creating, Finalising, Unclaimed
<1>9. NoneIsSilent'
  BY DEF Shutdown, Goto, dispVars, histVars, Custody, TypeOK, CallTypes,
     NoneIsSilent, Delivering, InCallback
<1>10. CallCustody'
  BY ConstantsAssumption DEF Shutdown, CanCall, Goto, dispVars, Custody,
     CallCustody, DestroyPlaces
<1>11. LockCustody'
  BY DEF Shutdown, dispVars, Custody, LockCustody, InCallback
<1>12. SilencedStaysSilent'
  BY DEF Shutdown, histVars, Custody, SilencedStaysSilent
<1>13. ShutdownQuiesces'
  BY DEF Shutdown, dispVars, histVars, Custody, ShutdownQuiesces
<1>14. QED
  BY <1>1, <1>2, <1>3, <1>4, <1>5, <1>6, <1>7, <1>8, <1>9, <1>10, <1>11, <1>12,
     <1>13 DEF Custody, TypeOK

\* Custody is kept when a shutdown finds the wrapper and locks the map.
LEMMA ShutdownFindKeepsCustody ==
  ASSUME Custody, NEW t \in Threads, ShutdownFind(t)
  PROVE  Custody'
<1>1. ObjectTypes'
  BY DEF ShutdownFind, histVars, Custody, TypeOK, ObjectTypes
<1>2. CallTypes'
  <2>1. \A u \in Threads : u # t => pc'[u] = pc[u] /\ arg'[u] = arg[u]
    BY DEF ShutdownFind, Return, Goto, Custody, TypeOK, CallTypes
  <2>2. pc'[t] \in {"idle", "shutdown"}
    BY DEF ShutdownFind, Return, Goto, Custody, TypeOK, CallTypes
  <2>3. UNCHANGED <<phase, map, queued, claimed, sweeping, dpc, dobj, dkind, silenced>>
    BY DEF ShutdownFind, dispVars, histVars
  <2>4. /\ pc' \in [Threads -> CallPlaces] /\ arg' \in [Threads -> Objects \cup {None}]
        /\ pc'[t] = "shutdown" => arg'[t] \in Objects
    BY DEF ShutdownFind, Return, Goto, Custody, TypeOK, CallTypes, CallPlaces,
       ObjectPlaces
  <2>5. QED
    BY <2>1, <2>2, <2>3, <2>4 DEF Custody, TypeOK, CallTypes, ObjectPlaces,
       CreatePlaces, DestroyPlaces
<1>3. DispatchTypes'
  BY DEF ShutdownFind, dispVars, Custody, TypeOK, DispatchTypes
<1>4. MapCustody'
  BY DEF ShutdownFind, dispVars, Custody, MapCustody, Finalising, Unclaimed
<1>5. ClaimCustody'
  BY DEF ShutdownFind, dispVars, Custody, ClaimCustody, Finalising
<1>6. QueueCustody'
  BY DEF ShutdownFind, dispVars, Custody, QueueCustody, Finalising
<1>7. CreateCustody'
  <2>1. \A u \in Threads : u # t => pc'[u] = pc[u] /\ arg'[u] = arg[u]
    BY DEF ShutdownFind, Return, Goto, Custody, TypeOK, CallTypes
  <2>2. pc'[t] \in {"idle", "shutdown"}
    BY DEF ShutdownFind, Return, Goto, Custody, TypeOK, CallTypes
  <2>3. UNCHANGED <<phase, map, queued, claimed, sweeping, dpc, dobj, dkind, silenced>>
    BY DEF ShutdownFind, dispVars, histVars
  <2>4. QED
    BY <2>1, <2>2, <2>3 DEF Custody, CreateCustody, Creating, Unclaimed,
       Finalising
<1>8. NowhereElse'
  <2>1. \A u \in Threads : u # t => pc'[u] = pc[u] /\ arg'[u] = arg[u]
    BY DEF ShutdownFind, Return, Goto, Custody, TypeOK, CallTypes
  <2>2. pc'[t] \in {"idle", "shutdown"}
    BY DEF ShutdownFind, Return, Goto, Custody, TypeOK, CallTypes
  <2>3. UNCHANGED <<phase, map, queued, claimed, sweeping, dpc, dobj, dkind, silenced>>
    BY DEF ShutdownFind, dispVars, histVars
  <2>4. QED
    BY <2>1, <2>2, <2>3 DEF Custody, NowhereElse, Creating, Unclaimed,
       Finalising
<1>9. NoneIsSilent'
  BY DEF ShutdownFind, Return, Goto, dispVars, histVars, Custody, TypeOK,
     CallTypes, NoneIsSilent, NowhereElse, Delivering, InCallback
<1>10. CallCustody'
  BY DEF ShutdownFind, Return, Goto, dispVars, histVars, Custody, TypeOK,
     CallTypes, CallCustody, Threads, DestroyPlaces
<1>11. LockCustody'
  BY DEF ShutdownFind, dispVars, Custody, LockCustody, InCallback
<1>12. SilencedStaysSilent'
  BY DEF ShutdownFind, histVars, Custody, SilencedStaysSilent
<1>13. ShutdownQuiesces'
  BY DEF ShutdownFind, dispVars, histVars, Custody, ShutdownQuiesces
<1>14. QED
  BY <1>1, <1>2, <1>3, <1>4, <1>5, <1>6, <1>7, <1>8, <1>9, <1>10, <1>11, <1>12,
     <1>13 DEF Custody, TypeOK

\* Custody is kept when the message callback is cleared under m_lock.
LEMMA StopMessagesKeepsCustody ==
  ASSUME Custody, NEW t \in Threads, StopMessages(t)
  PROVE  Custody'
<1>1. ObjectTypes'
  BY ConstantsAssumption DEF StopMessages, Silence, Return, Goto, dispVars,
     Custody, TypeOK, ObjectTypes, CallTypes, DispatchTypes, CanLock, Locked,
     Unlocked, Free, Locks, Threads, Objects, Maps, Kinds, Phases, CreatePlaces,
     DestroyPlaces, ObjectPlaces, CallPlaces, DispatchPlaces
<1>2. CallTypes'
  BY DEF StopMessages, Return, Goto, Custody, TypeOK, CallTypes, CreatePlaces,
     DestroyPlaces, ObjectPlaces, CallPlaces
<1>3. DispatchTypes'
  BY DEF StopMessages, dispVars, Custody, TypeOK, DispatchTypes
<1>4. MapCustody'
  BY DEF StopMessages, dispVars, Custody, MapCustody, Finalising, Unclaimed
<1>5. ClaimCustody'
  BY DEF StopMessages, dispVars, Custody, ClaimCustody, Finalising
<1>6. QueueCustody'
  BY DEF StopMessages, dispVars, Custody, QueueCustody, Finalising
<1>7. CreateCustody'
  BY DEF StopMessages, Return, Goto, dispVars, Custody, CreateCustody, Creating,
     Finalising, Unclaimed
<1>8. NowhereElse'
  BY DEF StopMessages, Return, Goto, dispVars, Custody, NowhereElse, Creating,
     Finalising, Unclaimed
<1>9. NoneIsSilent'
  BY DEF StopMessages, Silence, Return, Goto, dispVars, Custody, TypeOK,
     CallTypes, NoneIsSilent, Delivering, InCallback
<1>10. CallCustody'
  BY DEF StopMessages, Return, Goto, dispVars, Custody, CallCustody,
     DestroyPlaces
<1>11. LockCustody'
  BY DEF StopMessages, dispVars, Custody, LockCustody, InCallback
<1>12. SilencedStaysSilent'
  BY DEF StopMessages, Silence, Custody, TypeOK, ObjectTypes,
     SilencedStaysSilent
<1>13. ShutdownQuiesces'
  BY ConstantsAssumption DEF StopMessages, Silence, dispVars, Custody, TypeOK,
     DispatchTypes, ShutdownQuiesces, LockCustody, InCallback, CanLock, Threads
<1>14. QED
  BY <1>1, <1>2, <1>3, <1>4, <1>5, <1>6, <1>7, <1>8, <1>9, <1>10, <1>11, <1>12,
     <1>13 DEF Custody, TypeOK

\* Custody is kept when destroySession starts on its event objects.
LEMMA DestroyAllEventsKeepsCustody ==
  ASSUME Custody, NEW t \in Threads, NEW s \in Sessions, DestroyAllEvents(t, s)
  PROVE  Custody'
<1>1. ObjectTypes'
  BY DEF DestroyAllEvents, mapVars, Custody, TypeOK, ObjectTypes
<1>2. CallTypes'
  BY DEF DestroyAllEvents, Goto, Custody, TypeOK, CallTypes, Maps, CreatePlaces,
     DestroyPlaces, ObjectPlaces, CallPlaces
<1>3. DispatchTypes'
  BY DEF DestroyAllEvents, dispVars, Custody, TypeOK, DispatchTypes
<1>4. MapCustody'
  BY DEF DestroyAllEvents, mapVars, dispVars, Custody, MapCustody, Finalising,
     Unclaimed
<1>5. ClaimCustody'
  BY DEF DestroyAllEvents, dispVars, Custody, ClaimCustody, Finalising
<1>6. QueueCustody'
  BY DEF DestroyAllEvents, dispVars, Custody, QueueCustody, Finalising
<1>7. CreateCustody'
  BY DEF DestroyAllEvents, CanCall, Goto, mapVars, dispVars, Custody,
     CreateCustody, Creating, Finalising, Unclaimed
<1>8. NowhereElse'
  BY DEF DestroyAllEvents, CanCall, Goto, mapVars, dispVars, Custody,
     NowhereElse, Creating, Finalising, Unclaimed
<1>9. NoneIsSilent'
  BY DEF DestroyAllEvents, CanCall, Goto, dispVars, Custody, NoneIsSilent,
     Delivering, InCallback
<1>10. CallCustody'
  BY ConstantsAssumption DEF DestroyAllEvents, CanCall, Goto, dispVars, Custody,
     TypeOK, CallTypes, CallCustody, DestroyPlaces
<1>11. LockCustody'
  BY DEF DestroyAllEvents, dispVars, Custody, LockCustody, InCallback
<1>12. SilencedStaysSilent'
  BY DEF DestroyAllEvents, Custody, SilencedStaysSilent
<1>13. ShutdownQuiesces'
  BY DEF DestroyAllEvents, dispVars, Custody, ShutdownQuiesces
<1>14. QED
  BY <1>1, <1>2, <1>3, <1>4, <1>5, <1>6, <1>7, <1>8, <1>9, <1>10, <1>11, <1>12,
     <1>13 DEF Custody, TypeOK

\* Custody is kept when removeAll claims all of a map.
LEMMA SweepMapKeepsCustody ==
  ASSUME Custody, NEW t \in Threads, SweepMap(t)
  PROVE  Custody'
<1>1. ObjectTypes'
  BY DEF SweepMap, histVars, Custody, TypeOK, ObjectTypes
<1>2. CallTypes'
  <2>1. \A u \in Threads : u # t => pc'[u] = pc[u] /\ arg'[u] = arg[u] /\ claimed'[u] =
          claimed[u] /\ sweeping'[u] = sweeping[u]
    BY DEF SweepMap, NextMap, Return, Goto, Custody, TypeOK, CallTypes
  <2>2. pc'[t] \in {"idle", "removeAll", "sweep"}
    BY DEF SweepMap, NextMap, Return, Goto, Custody, TypeOK, CallTypes
  <2>3. /\ sweeping' \in [Threads -> Maps \cup {None}]
        /\ pc'[t] \in {"removeAll", "sweep"} => sweeping'[t] \in Maps
    <3>1. CASE NextMap(t)
      BY <3>1, NextMapTypes DEF Custody, TypeOK
    <3>2. CASE UNCHANGED sweeping
      BY <3>2 DEF SweepMap, Custody, TypeOK, CallTypes
    <3>3. QED
      BY <3>1, <3>2 DEF SweepMap
  <2>4. pc' \in [Threads -> CallPlaces] /\ arg' \in [Threads -> Objects \cup {None}]
    BY DEF SweepMap, NextMap, Return, Goto, Custody, TypeOK, CallTypes,
       CallPlaces
  <2>5. claimed' \in [Threads -> SUBSET Objects]
    BY DEF SweepMap, Contents, Custody, TypeOK, CallTypes, ObjectTypes
  <2>6. QED
    BY <2>1, <2>2, <2>3, <2>4, <2>5 DEF Custody, TypeOK, CallTypes,
       ObjectPlaces, CreatePlaces, DestroyPlaces
<1>3. DispatchTypes'
  BY DEF SweepMap, dispVars, Custody, TypeOK, DispatchTypes
<1>4. MapCustody'
  BY DEF SweepMap, dispVars, Custody, MapCustody, Finalising, Unclaimed
<1>5. ClaimCustody'
  BY DEF SweepMap, dispVars, Custody, ClaimCustody, MapCustody, Finalising,
     Unclaimed, Contents
<1>6. QueueCustody'
  BY DEF SweepMap, dispVars, Custody, QueueCustody, Finalising
<1>7. CreateCustody'
  <2>1. \A u \in Threads : u # t => pc'[u] = pc[u] /\ arg'[u] = arg[u] /\ claimed'[u] =
          claimed[u] /\ sweeping'[u] = sweeping[u]
    BY DEF SweepMap, NextMap, Return, Goto, Custody, TypeOK, CallTypes
  <2>2. pc'[t] \in {"idle", "removeAll", "sweep"}
    BY DEF SweepMap, NextMap, Return, Goto, Custody, TypeOK, CallTypes
  <2>3. UNCHANGED <<phase, queued, dpc, dobj, dkind, silenced>>
    BY DEF SweepMap, dispVars, histVars
  <2>4. /\ map' = map \ Contents(sweeping[t]) /\ claimed'[t] \subseteq Contents(sweeping[t])
        /\ claimed[t] = {}
    BY DEF SweepMap, Custody, CallCustody, DestroyPlaces
  <2>5. QED
    BY <2>1, <2>2, <2>3, <2>4 DEF Custody, CreateCustody, Creating, Unclaimed,
       Finalising, Contents
<1>8. NowhereElse'
  <2>1. \A u \in Threads : u # t => pc'[u] = pc[u] /\ arg'[u] = arg[u] /\ claimed'[u] =
          claimed[u] /\ sweeping'[u] = sweeping[u]
    BY DEF SweepMap, NextMap, Return, Goto, Custody, TypeOK, CallTypes
  <2>2. pc'[t] \in {"idle", "removeAll", "sweep"}
    BY DEF SweepMap, NextMap, Return, Goto, Custody, TypeOK, CallTypes
  <2>3. UNCHANGED <<phase, queued, dpc, dobj, dkind, silenced>>
    BY DEF SweepMap, dispVars, histVars
  <2>4. /\ map' = map \ Contents(sweeping[t]) /\ claimed'[t] \subseteq Contents(sweeping[t])
        /\ claimed[t] = {}
    BY DEF SweepMap, Custody, CallCustody, DestroyPlaces
  <2>5. QED
    BY <2>1, <2>2, <2>3, <2>4 DEF Custody, NowhereElse, Creating, Unclaimed,
       Finalising, Contents
<1>9. NoneIsSilent'
  <2>1. \A u \in Threads : u # t => pc'[u] = pc[u] /\ arg'[u] = arg[u] /\ claimed'[u] =
          claimed[u] /\ sweeping'[u] = sweeping[u]
    BY DEF SweepMap, NextMap, Return, Goto, Custody, TypeOK, CallTypes
  <2>2. pc'[t] \in {"idle", "removeAll", "sweep"}
    BY DEF SweepMap, NextMap, Return, Goto, Custody, TypeOK, CallTypes
  <2>3. UNCHANGED <<phase, queued, dpc, dobj, dkind, silenced>>
    BY DEF SweepMap, dispVars, histVars
  <2>4. QED
    BY <2>1, <2>2, <2>3 DEF Custody, NoneIsSilent, Delivering, InCallback
<1>10. CallCustody'
  BY DEF SweepMap, NextMap, Return, Goto, dispVars, Custody, TypeOK, CallTypes,
     CallCustody, Contents, Threads, DestroyPlaces
<1>11. LockCustody'
  BY DEF SweepMap, dispVars, Custody, LockCustody, InCallback
<1>12. SilencedStaysSilent'
  BY DEF SweepMap, histVars, Custody, SilencedStaysSilent
<1>13. ShutdownQuiesces'
  BY DEF SweepMap, dispVars, histVars, Custody, ShutdownQuiesces
<1>14. QED
  BY <1>1, <1>2, <1>3, <1>4, <1>5, <1>6, <1>7, <1>8, <1>9, <1>10, <1>11, <1>12,
     <1>13 DEF Custody, TypeOK

\* Custody is kept when removeAll goes on to the next wrapper.
LEMMA SweepToKeepsCustody ==
  ASSUME Custody, NEW t \in Threads, NEW x \in Objects, SweepTo(t, x)
  PROVE  Custody'
<1>1. ObjectTypes'
  BY DEF SweepTo, mapVars, histVars, Custody, TypeOK, ObjectTypes
<1>2. CallTypes'
  BY DEF SweepTo, Goto, Custody, TypeOK, CallTypes, DestroyPlaces, ObjectPlaces,
     CallPlaces
<1>3. DispatchTypes'
  BY DEF SweepTo, dispVars, Custody, TypeOK, DispatchTypes
<1>4. MapCustody'
  BY DEF SweepTo, mapVars, dispVars, Custody, MapCustody, Finalising, Unclaimed
<1>5. ClaimCustody'
  BY DEF SweepTo, dispVars, Custody, ClaimCustody, Finalising
<1>6. QueueCustody'
  BY DEF SweepTo, dispVars, Custody, QueueCustody, Finalising
<1>7. CreateCustody'
  BY DEF SweepTo, Goto, mapVars, dispVars, Custody, CreateCustody, Creating,
     Finalising, Unclaimed
<1>8. NowhereElse'
  BY DEF SweepTo, Goto, mapVars, dispVars, Custody, NowhereElse, Creating,
     Finalising, Unclaimed
<1>9. NoneIsSilent'
  BY DEF SweepTo, Goto, dispVars, histVars, Custody, NoneIsSilent, Delivering,
     InCallback
<1>10. CallCustody'
  BY ConstantsAssumption DEF SweepTo, Goto, dispVars, Custody, TypeOK,
     CallTypes, CallCustody, DestroyPlaces
<1>11. LockCustody'
  BY DEF SweepTo, dispVars, Custody, LockCustody, InCallback
<1>12. SilencedStaysSilent'
  BY DEF SweepTo, histVars, Custody, SilencedStaysSilent
<1>13. ShutdownQuiesces'
  BY DEF SweepTo, dispVars, histVars, Custody, ShutdownQuiesces
<1>14. QED
  BY <1>1, <1>2, <1>3, <1>4, <1>5, <1>6, <1>7, <1>8, <1>9, <1>10, <1>11, <1>12,
     <1>13 DEF Custody, TypeOK

\* Custody is kept when a session's queue is deactivated.
LEMMA ShutdownSessionKeepsCustody ==
  ASSUME Custody, NEW t \in Threads, NEW s \in Sessions, ShutdownSession(t, s)
  PROVE  Custody'
<1>1. ObjectTypes'
  BY DEF ShutdownSession, mapVars, histVars, Custody, TypeOK, ObjectTypes
<1>2. CallTypes'
  BY DEF ShutdownSession, callVars, Custody, TypeOK, CallTypes
<1>3. DispatchTypes'
  BY DEF ShutdownSession, dispVars, Custody, TypeOK, DispatchTypes
<1>4. MapCustody'
  BY DEF ShutdownSession, mapVars, callVars, dispVars, Custody, MapCustody,
     Finalising, Unclaimed
<1>5. ClaimCustody'
  BY DEF ShutdownSession, callVars, dispVars, Custody, ClaimCustody, Finalising
<1>6. QueueCustody'
  BY DEF ShutdownSession, dispVars, Custody, QueueCustody, Finalising
<1>7. CreateCustody'
  BY DEF ShutdownSession, mapVars, callVars, dispVars, Custody, CreateCustody,
     Creating, Finalising, Unclaimed
<1>8. NowhereElse'
  BY DEF ShutdownSession, mapVars, callVars, dispVars, Custody, NowhereElse,
     Creating, Finalising, Unclaimed
<1>9. NoneIsSilent'
  BY DEF ShutdownSession, callVars, dispVars, histVars, Custody, NoneIsSilent,
     Delivering, InCallback
<1>10. CallCustody'
  BY DEF ShutdownSession, callVars, dispVars, Custody, CallCustody
<1>11. LockCustody'
  BY DEF ShutdownSession, dispVars, Custody, LockCustody, InCallback
<1>12. SilencedStaysSilent'
  BY DEF ShutdownSession, histVars, Custody, SilencedStaysSilent
<1>13. ShutdownQuiesces'
  BY DEF ShutdownSession, dispVars, histVars, Custody, ShutdownQuiesces
<1>14. QED
  BY <1>1, <1>2, <1>3, <1>4, <1>5, <1>6, <1>7, <1>8, <1>9, <1>10, <1>11, <1>12,
     <1>13 DEF Custody, TypeOK

\* Custody is kept when MAMA delivers something to an object.
LEMMA DeliverKeepsCustody ==
  ASSUME Custody, NEW s \in Sessions, NEW x \in Objects, NEW kind \in Kinds, Deliver(s, x, kind)
  PROVE  Custody'
<1>1. ObjectTypes'
  BY DEF Deliver, mapVars, histVars, Custody, TypeOK, ObjectTypes
<1>2. CallTypes'
  BY DEF Deliver, callVars, Custody, TypeOK, CallTypes
<1>3. DispatchTypes'
  BY DEF Deliver, Dispatch, Custody, TypeOK, DispatchTypes, DispatchPlaces
<1>4. MapCustody'
  BY DEF Deliver, Dispatch, mapVars, callVars, Custody, MapCustody, Finalising,
     Unclaimed
<1>5. ClaimCustody'
  BY DEF Deliver, Dispatch, callVars, Custody, ClaimCustody, Finalising
<1>6. QueueCustody'
  BY DEF Deliver, Dispatch, Custody, QueueCustody, Finalising
<1>7. CreateCustody'
  BY DEF Deliver, Dispatch, mapVars, callVars, Custody, CreateCustody, Creating,
     Finalising, Unclaimed
<1>8. NowhereElse'
  BY DEF Deliver, Dispatch, mapVars, callVars, Custody, NowhereElse, Creating,
     Finalising, Unclaimed
<1>9. NoneIsSilent'
  BY DEF Deliver, Dispatch, callVars, histVars, Custody, TypeOK, DispatchTypes,
     NoneIsSilent, Delivering, InCallback
<1>10. CallCustody'
  BY DEF Deliver, Dispatch, callVars, Custody, CallCustody
<1>11. LockCustody'
  BY DEF Deliver, Dispatch, Custody, LockCustody, InCallback
<1>12. SilencedStaysSilent'
  BY DEF Deliver, histVars, Custody, SilencedStaysSilent
<1>13. ShutdownQuiesces'
  BY DEF Deliver, Dispatch, histVars, Custody, ShutdownQuiesces
<1>14. QED
  BY <1>1, <1>2, <1>3, <1>4, <1>5, <1>6, <1>7, <1>8, <1>9, <1>10, <1>11, <1>12,
     <1>13 DEF Custody, TypeOK

\* Custody is kept when the dispatcher takes m_lock and calls back.
LEMMA CallbackLockKeepsCustody ==
  ASSUME Custody, NEW s \in Sessions, CallbackLock(s)
  PROVE  Custody'
<1>1. ObjectTypes'
  <2>1. dobj[s] \in Objects /\ lock[dobj[s]] \in Locks(Threads) /\ s \in Threads
    BY DEF CallbackLock, Custody, TypeOK, ObjectTypes, DispatchTypes, Threads
  <2>2. /\ Free \in Locks(Threads) /\ Locked(lock[dobj[s]], s) \in Locks(Threads)
        /\ Unlocked(lock[dobj[s]], s) \in Locks(Threads)
    BY <2>1, UnlockedIsLock, ConstantsAssumption DEF Custody, LockCustody,
       Locks, Locked, Free
  <2>3. lock' \in [Objects -> Locks(Threads)]
    BY <2>2 DEF CallbackLock, Custody, TypeOK, ObjectTypes
  <2>4. QED
    BY <2>3 DEF CallbackLock, mapVars, histVars, Custody, TypeOK, ObjectTypes
<1>2. CallTypes'
  BY DEF CallbackLock, callVars, Custody, TypeOK, CallTypes
<1>3. DispatchTypes'
  <2>1. CASE dkind[s] \in callbacks[dobj[s]]
    BY DEF CallbackLock, Dispatch, Custody, TypeOK, DispatchTypes,
       DispatchPlaces
  <2>2. CASE dkind[s] \notin callbacks[dobj[s]]
    BY DEF CallbackLock, Dispatch, Custody, TypeOK, DispatchTypes,
       DispatchPlaces
  <2>3. QED
    BY <2>1, <2>2
<1>4. MapCustody'
  BY ConstantsAssumption DEF CallbackLock, Dispatch, mapVars, callVars, Custody,
     TypeOK, ObjectTypes, DispatchTypes, MapCustody, Finalising, Unclaimed
<1>5. ClaimCustody'
  BY ConstantsAssumption DEF CallbackLock, Dispatch, callVars, Custody, TypeOK,
     DispatchTypes, ClaimCustody, Finalising
<1>6. QueueCustody'
  BY ConstantsAssumption DEF CallbackLock, Dispatch, Custody, TypeOK,
     DispatchTypes, QueueCustody, Finalising
<1>7. CreateCustody'
  BY ConstantsAssumption DEF CallbackLock, Dispatch, mapVars, callVars, Custody,
     TypeOK, DispatchTypes, CreateCustody, Creating, Finalising, Unclaimed
<1>8. NowhereElse'
  <2>1. \A v \in Sessions : v # s => dpc'[v] = dpc[v] /\ dobj'[v] = dobj[v] /\ dkind'[v] = dkind[v]
    BY DEF CallbackLock, Dispatch, Custody, TypeOK, DispatchTypes
  <2>2. dpc'[s] \in {"idle", "callback"}
    BY DEF CallbackLock, Dispatch, Custody, TypeOK, DispatchTypes
  <2>3. UNCHANGED <<phase, map, queued, claimed, pc, arg>>
    BY DEF CallbackLock, mapVars, callVars
  <2>4. QED
    BY <2>1, <2>2, <2>3, ConstantsAssumption DEF Custody, NowhereElse, Creating,
       Unclaimed, Finalising
<1>9. NoneIsSilent'
  BY ConstantsAssumption DEF CallbackLock, Dispatch, callVars, histVars,
     Custody, TypeOK, DispatchTypes, NoneIsSilent, Delivering, InCallback
<1>10. CallCustody'
  BY DEF CallbackLock, Dispatch, callVars, Custody, TypeOK, DispatchTypes,
     CallCustody
<1>11. LockCustody'
  <2>1. \A v \in Sessions : v # s => dpc'[v] = dpc[v] /\ dobj'[v] = dobj[v] /\ dkind'[v] = dkind[v]
    BY DEF CallbackLock, Dispatch, Custody, TypeOK, DispatchTypes
  <2>2. /\ dobj[s] \in Objects /\ Home[dobj[s]] = s /\ s # NoThread
        /\ lock[dobj[s]] \in Locks(Threads)
        /\ CanLock(lock[dobj[s]], s)
    BY ConstantsAssumption DEF CallbackLock, Threads, Custody, TypeOK,
       ObjectTypes, DispatchTypes
  <2>3. CASE dkind[s] \in callbacks[dobj[s]]
    <3>1. lock' = [lock EXCEPT ![dobj[s]] = Locked(@, s)] /\ dobj'[s] = dobj[s]
      BY <2>3 DEF CallbackLock, Dispatch, Custody, TypeOK, DispatchTypes
    <3>2. Locked(lock[dobj[s]], s).owner = s /\ Locked(lock[dobj[s]], s).depth # 0
      BY <2>2 DEF Locked, Locks
    <3>3. QED
      BY <2>1, <2>2, <3>1, <3>2, ConstantsAssumption
         DEF Custody, TypeOK, ObjectTypes, LockCustody, InCallback
  <2>4. CASE dkind[s] \notin callbacks[dobj[s]]
    <3>1. UNCHANGED lock /\ dpc'[s] = "idle"
      BY <2>4 DEF CallbackLock, Dispatch, Custody, TypeOK, DispatchTypes
    <3>2. QED
      BY <2>1, <3>1, ConstantsAssumption DEF Custody, LockCustody, InCallback
  <2>5. QED
    BY <2>3, <2>4
<1>12. SilencedStaysSilent'
  BY DEF CallbackLock, histVars, Custody, SilencedStaysSilent
<1>13. ShutdownQuiesces'
  BY DEF CallbackLock, Dispatch, histVars, Custody, TypeOK, DispatchTypes,
     ShutdownQuiesces, SilencedStaysSilent
<1>14. QED
  BY <1>1, <1>2, <1>3, <1>4, <1>5, <1>6, <1>7, <1>8, <1>9, <1>10, <1>11, <1>12,
     <1>13 DEF Custody, TypeOK

\* Custody is kept when a callback returns.
LEMMA CallbackReturnKeepsCustody ==
  ASSUME Custody, NEW s \in Sessions, CallbackReturn(s)
  PROVE  Custody'
<1>1. ObjectTypes'
  <2>1. dobj[s] \in Objects /\ lock[dobj[s]] \in Locks(Threads) /\ s \in Threads
    BY DEF CallbackReturn, Custody, TypeOK, ObjectTypes, DispatchTypes, Threads
  <2>2. /\ Free \in Locks(Threads) /\ Locked(lock[dobj[s]], s) \in Locks(Threads)
        /\ Unlocked(lock[dobj[s]], s) \in Locks(Threads)
    BY <2>1, UnlockedIsLock, ConstantsAssumption DEF Custody, LockCustody,
       Locks, Locked, Free
  <2>3. lock' \in [Objects -> Locks(Threads)]
    BY <2>1, <2>2 DEF CallbackReturn, Custody, TypeOK, ObjectTypes
  <2>4. phase' \in [Objects -> Phases] /\ silenced' \in [Objects -> SUBSET Kinds]
    BY DEF CallbackReturn, Custody, TypeOK, ObjectTypes, DispatchTypes
  <2>5. QED
    BY <2>3, <2>4 DEF CallbackReturn, mapVars, Custody, TypeOK, ObjectTypes
<1>2. CallTypes'
  BY DEF CallbackReturn, callVars, Custody, TypeOK, CallTypes
<1>3. DispatchTypes'
  BY DEF CallbackReturn, Dispatch, Custody, TypeOK, DispatchTypes,
     DispatchPlaces
<1>4. MapCustody'
  BY DEF CallbackReturn, Dispatch, mapVars, callVars, Custody, MapCustody,
     Finalising, Unclaimed
<1>5. ClaimCustody'
  BY DEF CallbackReturn, Dispatch, callVars, Custody, ClaimCustody, Finalising
<1>6. QueueCustody'
  BY DEF CallbackReturn, Dispatch, Custody, QueueCustody, Finalising
<1>7. CreateCustody'
  BY DEF CallbackReturn, Dispatch, mapVars, callVars, Custody, CreateCustody,
     Creating, Finalising, Unclaimed
<1>8. NowhereElse'
  BY DEF CallbackReturn, Dispatch, mapVars, callVars, Custody, NowhereElse,
     Creating, Finalising, Unclaimed
<1>9. NoneIsSilent'
  <2>1. \A v \in Sessions : v # s => dpc'[v] = dpc[v] /\ dobj'[v] = dobj[v] /\ dkind'[v] = dkind[v]
    BY DEF CallbackReturn, Dispatch
  <2>2. dpc'[s] \in {"idle"}
    BY DEF CallbackReturn, Dispatch, Custody, TypeOK, DispatchTypes
  <2>3. UNCHANGED <<phase, pc, arg>>
    BY DEF CallbackReturn, callVars
  <2>4. \A y \in Objects : y # dobj[s] => silenced'[y] = silenced[y]
    BY DEF CallbackReturn
  <2>5. dobj[s] \in Objects /\ phase[dobj[s]] # "none"
    BY DEF CallbackReturn, Custody, TypeOK, DispatchTypes, NoneIsSilent,
       InCallback
  <2>6. QED
    BY <2>1, <2>2, <2>3, <2>4, <2>5, ConstantsAssumption DEF Custody,
       NoneIsSilent, Delivering, InCallback
<1>10. CallCustody'
  BY DEF CallbackReturn, Dispatch, callVars, Custody, CallCustody
<1>11. LockCustody'
  BY ConstantsAssumption DEF CallbackReturn, Dispatch, mapVars, Custody, TypeOK,
     DispatchTypes, LockCustody, InCallback, Unlocked, Free, Threads
<1>12. SilencedStaysSilent'
  BY DEF CallbackReturn, Custody, SilencedStaysSilent
<1>13. ShutdownQuiesces'
  BY DEF CallbackReturn, Dispatch, Custody, TypeOK, DispatchTypes,
     ShutdownQuiesces
<1>14. QED
  BY <1>1, <1>2, <1>3, <1>4, <1>5, <1>6, <1>7, <1>8, <1>9, <1>10, <1>11, <1>12,
     <1>13 DEF Custody, TypeOK

\* Custody is kept when the dispatcher takes a destroy event.
LEMMA FinaliseBeginKeepsCustody ==
  ASSUME Custody, NEW s \in Sessions, NEW x \in Objects, FinaliseBegin(s, x)
  PROVE  Custody'
<1>1. ObjectTypes'
  BY DEF FinaliseBegin, mapVars, histVars, Custody, TypeOK, ObjectTypes
<1>2. CallTypes'
  BY DEF FinaliseBegin, callVars, Custody, TypeOK, CallTypes
<1>3. DispatchTypes'
  BY DEF FinaliseBegin, Dispatch, Custody, TypeOK, DispatchTypes, DispatchPlaces
<1>4. MapCustody'
  BY DEF FinaliseBegin, Dispatch, mapVars, callVars, Custody, TypeOK,
     DispatchTypes, MapCustody, Finalising, Unclaimed
<1>5. ClaimCustody'
  BY DEF FinaliseBegin, Dispatch, callVars, Custody, TypeOK, DispatchTypes,
     ClaimCustody, Finalising
<1>6. QueueCustody'
  BY DEF FinaliseBegin, Dispatch, Custody, TypeOK, ObjectTypes, DispatchTypes,
     QueueCustody, Finalising
<1>7. CreateCustody'
  BY DEF FinaliseBegin, Dispatch, mapVars, callVars, Custody, TypeOK,
     DispatchTypes, CreateCustody, Creating, Finalising, Unclaimed
<1>8. NowhereElse'
  BY DEF FinaliseBegin, Dispatch, mapVars, callVars, Custody, TypeOK,
     DispatchTypes, NowhereElse, Creating, Finalising, Unclaimed
<1>9. NoneIsSilent'
  BY DEF FinaliseBegin, Dispatch, callVars, histVars, Custody, NoneIsSilent,
     Delivering, InCallback
<1>10. CallCustody'
  BY DEF FinaliseBegin, Dispatch, callVars, Custody, CallCustody
<1>11. LockCustody'
  BY DEF FinaliseBegin, Dispatch, Custody, LockCustody, InCallback
<1>12. SilencedStaysSilent'
  BY DEF FinaliseBegin, histVars, Custody, SilencedStaysSilent
<1>13. ShutdownQuiesces'
  BY DEF FinaliseBegin, Dispatch, histVars, Custody, ShutdownQuiesces
<1>14. QED
  BY <1>1, <1>2, <1>3, <1>4, <1>5, <1>6, <1>7, <1>8, <1>9, <1>10, <1>11, <1>12,
     <1>13 DEF Custody, TypeOK

\* Custody is kept when onInboxDestroy frees the wrapper.
LEMMA OnInboxDestroyKeepsCustody ==
  ASSUME Custody, NEW s \in Sessions, OnInboxDestroy(s)
  PROVE  Custody'
<1>1. ObjectTypes'
  BY DEF OnInboxDestroy, Deallocate, mapVars, histVars, Custody, TypeOK,
     ObjectTypes, Free, Locks, Objects, Phases
<1>2. CallTypes'
  BY DEF OnInboxDestroy, callVars, Custody, TypeOK, CallTypes
<1>3. DispatchTypes'
  BY DEF OnInboxDestroy, Dispatch, Custody, TypeOK, DispatchTypes,
     DispatchPlaces
<1>4. MapCustody'
  BY DEF OnInboxDestroy, Dispatch, mapVars, callVars, Custody, TypeOK,
     DispatchTypes, MapCustody, Finalising, Unclaimed
<1>5. ClaimCustody'
  BY DEF OnInboxDestroy, Dispatch, callVars, Custody, TypeOK, DispatchTypes,
     ClaimCustody, Finalising
<1>6. QueueCustody'
  BY DEF OnInboxDestroy, Dispatch, Custody, TypeOK, DispatchTypes, QueueCustody,
     Finalising
<1>7. CreateCustody'
  BY DEF OnInboxDestroy, Dispatch, mapVars, callVars, Custody, TypeOK,
     DispatchTypes, CreateCustody, Creating, Finalising, Unclaimed
<1>8. NowhereElse'
  BY DEF OnInboxDestroy, Deallocate, Dispatch, mapVars, callVars, Custody,
     TypeOK, DispatchTypes, NowhereElse, Creating, Finalising, Unclaimed
<1>9. NoneIsSilent'
  BY DEF OnInboxDestroy, Deallocate, Dispatch, callVars, histVars, Custody,
     NoneIsSilent, Delivering, InCallback
<1>10. CallCustody'
  BY DEF OnInboxDestroy, Dispatch, callVars, Custody, CallCustody
<1>11. LockCustody'
  BY DEF OnInboxDestroy, Deallocate, Dispatch, Custody, TypeOK, DispatchTypes,
     LockCustody, InCallback, Free
<1>12. SilencedStaysSilent'
  BY DEF OnInboxDestroy, histVars, Custody, SilencedStaysSilent
<1>13. ShutdownQuiesces'
  BY DEF OnInboxDestroy, Dispatch, histVars, Custody, ShutdownQuiesces
<1>14. QED
  BY <1>1, <1>2, <1>3, <1>4, <1>5, <1>6, <1>7, <1>8, <1>9, <1>10, <1>11, <1>12,
     <1>13 DEF Custody, TypeOK

\* Custody is kept when onSubscriptionDestroy asks MAMA to destroy the subscription.
LEMMA OnSubscriptionDestroyKeepsCustody ==
  ASSUME Custody, NEW s \in Sessions, OnSubscriptionDestroy(s)
  PROVE  Custody'
<1>1. ObjectTypes'
  <2>1. dobj[s] \in Objects /\ lock[dobj[s]] \in Locks(Threads) /\ s \in Threads
    BY DEF OnSubscriptionDestroy, Custody, TypeOK, ObjectTypes, DispatchTypes,
       Threads
  <2>2. /\ Free \in Locks(Threads) /\ Locked(lock[dobj[s]], s) \in Locks(Threads)
        /\ Unlocked(lock[dobj[s]], s) \in Locks(Threads)
    BY <2>1, UnlockedIsLock, ConstantsAssumption DEF Custody, LockCustody,
       Locks, Locked, Free
  <2>3. lock' \in [Objects -> Locks(Threads)]
    BY <2>2 DEF OnSubscriptionDestroy, Deallocate, Custody, TypeOK, ObjectTypes
  <2>4. phase' \in [Objects -> Phases] /\ silenced' \in [Objects -> SUBSET Kinds]
    BY DEF OnSubscriptionDestroy, Deallocate, histVars, Custody, TypeOK,
       ObjectTypes, Phases
  <2>5. QED
    BY <2>3, <2>4 DEF OnSubscriptionDestroy, mapVars, histVars, Custody, TypeOK,
       ObjectTypes
<1>2. CallTypes'
  BY DEF OnSubscriptionDestroy, callVars, Custody, TypeOK, CallTypes
<1>3. DispatchTypes'
  BY DEF OnSubscriptionDestroy, Dispatch, Custody, TypeOK, DispatchTypes,
     DispatchPlaces
<1>4. MapCustody'
  BY DEF OnSubscriptionDestroy, Dispatch, mapVars, callVars, Custody, TypeOK,
     DispatchTypes, MapCustody, Finalising, Unclaimed
<1>5. ClaimCustody'
  BY DEF OnSubscriptionDestroy, Dispatch, callVars, Custody, TypeOK,
     DispatchTypes, ClaimCustody, Finalising
<1>6. QueueCustody'
  BY DEF OnSubscriptionDestroy, Dispatch, Custody, TypeOK, DispatchTypes,
     QueueCustody, Finalising
<1>7. CreateCustody'
  <2>1. \A v \in Sessions : v # s => dpc'[v] = dpc[v] /\ dobj'[v] = dobj[v] /\ dkind'[v] = dkind[v]
    BY DEF OnSubscriptionDestroy, Dispatch
  <2>2. dpc'[s] \in {"idle"}
    BY DEF OnSubscriptionDestroy, Dispatch, Custody, TypeOK, DispatchTypes
  <2>3. UNCHANGED <<map, queued, claimed, pc, arg>>
    BY DEF OnSubscriptionDestroy, mapVars, callVars
  <2>4. /\ dobj[s] \in Objects /\ Home[dobj[s]] = s /\ Finalising(dobj[s])
        /\ \A y \in Objects : y # dobj[s] => phase'[y] = phase[y]
    BY DEF OnSubscriptionDestroy, Deallocate, Finalising, Custody, TypeOK,
       ObjectTypes, DispatchTypes
  <2>5. \A y \in Objects : Finalising(y)' => y # dobj[s] /\ Finalising(y)
    BY <2>1, <2>2, <2>4, ConstantsAssumption DEF Finalising
  <2>6. QED
    BY <2>3, <2>5 DEF Custody, CreateCustody, Creating, Unclaimed
<1>8. NowhereElse'
  <2>1. \A v \in Sessions : v # s => dpc'[v] = dpc[v] /\ dobj'[v] = dobj[v] /\ dkind'[v] = dkind[v]
    BY DEF OnSubscriptionDestroy, Dispatch
  <2>2. dpc'[s] \in {"idle"}
    BY DEF OnSubscriptionDestroy, Dispatch, Custody, TypeOK, DispatchTypes
  <2>3. UNCHANGED <<map, queued, claimed, pc, arg>>
    BY DEF OnSubscriptionDestroy, mapVars, callVars
  <2>4. /\ dobj[s] \in Objects /\ Home[dobj[s]] = s /\ Finalising(dobj[s])
        /\ \A y \in Objects : y # dobj[s] => phase'[y] = phase[y]
    BY DEF OnSubscriptionDestroy, Deallocate, Finalising, Custody, TypeOK,
       ObjectTypes, DispatchTypes
  <2>5. \A y \in Objects : Finalising(y)' => y # dobj[s] /\ Finalising(y)
    BY <2>1, <2>2, <2>4, ConstantsAssumption DEF Finalising
  <2>6. /\ dobj[s] \notin map /\ Unclaimed(dobj[s]) /\ queued[dobj[s]] = 0
        /\ \A u \in Threads : ~Creating(u, dobj[s])
    BY <2>4 DEF Custody, TypeOK, ObjectTypes, MapCustody, ClaimCustody,
       QueueCustody, CreateCustody, Unclaimed
  <2>7. QED
    BY <2>3, <2>4, <2>5, <2>6 DEF Custody, NowhereElse, Creating, Unclaimed
<1>9. NoneIsSilent'
  BY DEF OnSubscriptionDestroy, Deallocate, Dispatch, callVars, histVars,
     Custody, TypeOK, ObjectTypes, NoneIsSilent, Delivering, InCallback
<1>10. CallCustody'
  BY DEF OnSubscriptionDestroy, Dispatch, callVars, Custody, CallCustody
<1>11. LockCustody'
  BY ConstantsAssumption DEF OnSubscriptionDestroy, Deallocate, Dispatch,
     mapVars, callVars, histVars, Custody, TypeOK, ObjectTypes, DispatchTypes,
     LockCustody, InCallback, CanLock, Locked, Free, Locks, Threads, Phases
<1>12. SilencedStaysSilent'
  BY DEF OnSubscriptionDestroy, histVars, Custody, SilencedStaysSilent
<1>13. ShutdownQuiesces'
  BY DEF OnSubscriptionDestroy, Dispatch, histVars, Custody, ShutdownQuiesces
<1>14. QED
  BY <1>1, <1>2, <1>3, <1>4, <1>5, <1>6, <1>7, <1>8, <1>9, <1>10, <1>11, <1>12,
     <1>13 DEF Custody, TypeOK

\* Custody is kept when MAMA reports that a subscription is destroyed.
LEMMA OnDestroyKeepsCustody ==
  ASSUME Custody, NEW s \in Sessions, NEW x \in Objects, OnDestroy(s, x)
  PROVE  Custody'
<1>1. ObjectTypes'
  BY DEF OnDestroy, Deallocate, mapVars, histVars, Custody, TypeOK, ObjectTypes,
     Free, Locks, Phases
<1>2. CallTypes'
  BY DEF OnDestroy, callVars, Custody, TypeOK, CallTypes
<1>3. DispatchTypes'
  BY DEF OnDestroy, dispVars, Custody, TypeOK, DispatchTypes
<1>4. MapCustody'
  BY DEF OnDestroy, mapVars, callVars, dispVars, Custody, MapCustody,
     Finalising, Unclaimed
<1>5. ClaimCustody'
  BY DEF OnDestroy, callVars, dispVars, Custody, ClaimCustody, Finalising
<1>6. QueueCustody'
  BY DEF OnDestroy, dispVars, Custody, QueueCustody, Finalising
<1>7. CreateCustody'
  BY DEF OnDestroy, mapVars, callVars, dispVars, Custody, CreateCustody,
     Creating, Finalising, Unclaimed
<1>8. NowhereElse'
  BY DEF OnDestroy, Deallocate, mapVars, callVars, dispVars, Custody,
     NowhereElse, Creating, Finalising, Unclaimed
<1>9. NoneIsSilent'
  BY DEF OnDestroy, Deallocate, callVars, dispVars, histVars, Custody,
     NoneIsSilent, Delivering, InCallback
<1>10. CallCustody'
  BY DEF OnDestroy, callVars, dispVars, Custody, CallCustody
<1>11. LockCustody'
  BY DEF OnDestroy, Deallocate, dispVars, Custody, LockCustody, InCallback, Free
<1>12. SilencedStaysSilent'
  BY DEF OnDestroy, histVars, Custody, SilencedStaysSilent
<1>13. ShutdownQuiesces'
  BY DEF OnDestroy, dispVars, histVars, Custody, ShutdownQuiesces
<1>14. QED
  BY <1>1, <1>2, <1>3, <1>4, <1>5, <1>6, <1>7, <1>8, <1>9, <1>10, <1>11, <1>12,
     <1>13 DEF Custody, TypeOK

\* Custody is kept when nothing happens.
LEMMA StutterKeepsCustody ==
  ASSUME Custody, UNCHANGED vars
  PROVE  Custody'
  BY DEF vars, Custody, TypeOK, ObjectTypes, CallTypes, DispatchTypes,
     MapCustody, QueueCustody, ClaimCustody, CreateCustody, NowhereElse,
     NoneIsSilent, CallCustody, LockCustody, SilencedStaysSilent,
     ShutdownQuiesces, Unclaimed, Finalising, Delivering, Creating, InCallback

\* Custody is kept by any step.
LEMMA NextKeepsCustody == Custody /\ [Next]_vars => Custody'
<1> SUFFICES ASSUME Custody, [Next]_vars PROVE Custody'
  OBVIOUS
<1>1. ASSUME NEW t \in Threads, NEW x \in Objects,
             AllocateInbox(t, x) \/ AllocateSubscription(t, x)
      PROVE  Custody'
  <2>1. {"error", "message"} \in SUBSET Kinds /\ Kinds \in SUBSET Kinds
        /\ "message" \in Kinds
    BY DEF Kinds
  <2>2. QED
    BY <1>1, <2>1, AllocateKeepsCustody DEF AllocateInbox, AllocateSubscription
<1>2. ASSUME NEW t \in Threads, Begin(t)
      PROVE  Custody'
  BY <1>1, <1>2, DestroyKeepsCustody, ShutdownKeepsCustody,
     DestroyAllEventsKeepsCustody, ShutdownSessionKeepsCustody DEF Begin,
     DestroyInbox, DestroySubscription, ShutdownInbox, ShutdownSubscription
<1>3. ASSUME NEW t \in Threads, WaitMap(t)
      PROVE  Custody'
  BY <1>3, CreateInsertKeepsCustody, DestroyRemoveKeepsCustody,
     ShutdownFindKeepsCustody, SweepMapKeepsCustody DEF WaitMap
<1>4. ASSUME NEW t \in Threads, Continue(t)
      PROVE  Custody'
  BY <1>4, MamaCreatesKeepsCustody, CreateInboxFailsKeepsCustody,
     CreateSubscriptionFailsKeepsCustody, CreateReturnKeepsCustody,
     ClearKeepsCustody, DestroyEnqueueKeepsCustody, StopMessagesKeepsCustody,
     SweepToKeepsCustody DEF Continue, CreateInbox, CreateSubscription,
     ClearInbox, ClearSubscription, StopInbox, StopSubscription, SweepInbox,
     SweepSubscription, Objects
<1>5. ASSUME NEW s \in Sessions, Traffic(s)
      PROVE  Custody'
  BY <1>5, DeliverKeepsCustody
  DEF Traffic, OnErrorCallback, OnMessageCallback, OnCreateBasic, OnErrorBasic,
      OnMsgBasic, Kinds
<1>6. ASSUME NEW s \in Sessions, Serve(s) \/ CallbackReturn(s)
      PROVE  Custody'
  BY <1>6, CallbackLockKeepsCustody, OnInboxDestroyKeepsCustody,
     OnSubscriptionDestroyKeepsCustody, CallbackReturnKeepsCustody DEF Serve
<1>7. ASSUME NEW s \in Sessions, NEW x \in Objects, FinaliseBegin(s, x) \/ OnDestroy(s, x)
      PROVE  Custody'
  BY <1>7, FinaliseBeginKeepsCustody, OnDestroyKeepsCustody
<1>8. CASE UNCHANGED vars
  BY <1>8, StutterKeepsCustody
<1>9. QED
  BY <1>2, <1>3, <1>4, <1>5, <1>6, <1>7, <1>8 DEF Next

\* Custody holds in every behaviour, whatever the environment does.
THEOREM CustodyAlways == Spec => []Custody
<1>1. Init => Custody
  BY InitCustody
<1>2. Custody /\ [Next]_vars => Custody'
  BY NextKeepsCustody
<1>3. QED
  BY <1>1, <1>2, PTL DEF Spec

\* Every variable keeps its type.
THEOREM TypeCorrect == Spec => []TypeOK
<1>1. Custody => TypeOK
  BY DEF Custody
<1>2. QED
  BY <1>1, CustodyAlways, PTL

\* A callback that shutdown or destroy has silenced is not running.
THEOREM ShutdownQuiescesAlways == Spec => []ShutdownQuiesces
<1>1. Custody => ShutdownQuiesces
  BY DEF Custody
<1>2. QED
  BY <1>1, CustodyAlways, PTL

\* onInboxDestroy and onSubscriptionDestroy find m_lock free or their own.
THEOREM FinaliseNeverWaitsAlways == Spec => []FinaliseNeverWaits
<1>1. ASSUME Custody, NEW s \in Sessions, dpc[s] = "finalLock"
      PROVE  CanLock(lock[dobj[s]], s)
  <2>1. dobj[s] \in Objects /\ Home[dobj[s]] = s
    BY <1>1 DEF Custody, TypeOK, DispatchTypes
  <2>2. lock[dobj[s]].owner \in {s, NoThread}
    BY <1>1, <2>1 DEF Custody, LockCustody
  <2>3. QED
    BY <2>2 DEF CanLock
<1>2. Custody => FinaliseNeverWaits
  BY <1>1 DEF FinaliseNeverWaits
<1>3. QED
  BY <1>2, CustodyAlways, PTL

-----------------------------------------------------------------------------
(* When creation is not raced and maps have memory.                        *)

\* At first nothing is in use.
LEMMA InitInUse == Init => InUse
  BY InitCustody, ConstantsAssumption DEF Init, InUse, InUseIsOpen,
     CallbackStages, UnpublishedIsPrivate, ShutdownPins, Unclaimed, Finalising,
     Delivering, InCallback, CreatePlaces

\* InUse is kept when createInbox or createSubscription allocates a wrapper nobody knows.
LEMMA AllocateKeepsInUse ==
  ASSUME Quiet, InUse, NEW t \in Threads, NEW x \in Objects, NEW kinds \in SUBSET Kinds, "message" \in kinds,
         Allocate(t, x, kinds)
  PROVE  InUse'
<1>1. Custody'
  BY AllocateKeepsCustody DEF InUse
<1>2. InUseIsOpen'
  BY DEF Allocate, Goto, mapVars, dispVars, InUse, Custody, TypeOK, ObjectTypes,
     CallTypes, InUseIsOpen, Finalising, Delivering, InCallback, Unclaimed
<1>3. CallbackStages'
  <2>1. \A u \in Threads : u # t => pc'[u] = pc[u] /\ arg'[u] = arg[u]
    BY DEF Allocate, Goto, InUse, Custody, TypeOK, CallTypes
  <2>2. pc'[t] \in {"idle", "create"}
    BY DEF Allocate, CanCall, Goto, InUse, Custody, TypeOK, CallTypes
  <2>3. UNCHANGED <<queued, dpc, dobj>>
    BY DEF Allocate, dispVars
  <2>4. /\ phase[x] = "none" /\ pc[t] = "idle"
        /\ pc'[t] = "create" => arg'[t] = x /\ "message" \in callbacks'[x]
        /\ phase'[x] \in {"allocated", "freed"}
        /\ \A y \in Objects : y # x => phase'[y] = phase[y] /\ callbacks'[y] = callbacks[y]
    BY DEF Allocate, CanCall, Goto, InUse, Custody, TypeOK, ObjectTypes,
       CallTypes
  <2>5. queued[x] = 0 /\ ~Finalising(x)
    BY <2>4 DEF InUse, Custody, NowhereElse
  <2>6. \A u \in Threads : pc[u] \in {"create", "enqueue"} => arg[u] # x /\ arg[u] \in Objects
    BY <2>4 DEF InUse, Custody, TypeOK, CallTypes, CallCustody, NowhereElse,
       Creating, Unclaimed, ObjectPlaces, CreatePlaces, DestroyPlaces
  <2>7. QED
    BY <2>1, <2>2, <2>3, <2>4, <2>5, <2>6 DEF InUse, CallbackStages, Finalising
<1>4. UnpublishedIsPrivate'
  <2>1. \A u \in Threads : u # t => pc'[u] = pc[u] /\ arg'[u] = arg[u]
    BY DEF Allocate, Goto, InUse, Custody, TypeOK, CallTypes
  <2>2. pc'[t] \in {"idle", "create"}
    BY DEF Allocate, CanCall, Goto, InUse, Custody, TypeOK, CallTypes
  <2>3. UNCHANGED <<map, published, closing, sweeping>>
    BY DEF Allocate, mapVars, histVars
  <2>4. /\ phase[x] = "none" /\ pc[t] = "idle" /\ (pc'[t] = "create" => arg'[t] = x)
        /\ phase'[x] \in {"allocated", "freed"}
        /\ \A y \in Objects : y # x => phase'[y] = phase[y] /\ callbacks'[y] = callbacks[y]
    BY DEF Allocate, CanCall, Goto, InUse, Custody, TypeOK, ObjectTypes,
       CallTypes
  <2>5. x \notin published /\ Home[x] \notin closing
    BY DEF Allocate, Quiet, InUse, UnpublishedIsPrivate
  <2>6. \A u \in Threads : pc[u] \in CreatePlaces => arg[u] # x
    BY <2>4 DEF InUse, Custody, NowhereElse, Creating, UnpublishedIsPrivate,
       CreatePlaces
  <2>7. QED
    BY <2>1, <2>2, <2>3, <2>4, <2>5, <2>6 DEF InUse, Custody, TypeOK,
       ObjectTypes, UnpublishedIsPrivate, NoCreation, CreatePlaces
<1>5. ShutdownPins'
  <2>1. \A u \in Threads : u # t => pc'[u] = pc[u] /\ arg'[u] = arg[u]
    BY DEF Allocate, Goto, InUse, Custody, TypeOK, CallTypes
  <2>2. pc'[t] \in {"idle", "create"}
    BY DEF Allocate, CanCall, Goto, InUse, Custody, TypeOK, CallTypes
  <2>3. UNCHANGED <<map, mapLock>>
    BY DEF Allocate, mapVars
  <2>4. /\ phase[x] = "none" /\ pc[t] = "idle" /\ (pc'[t] = "create" => arg'[t] = x)
        /\ phase'[x] \in {"allocated", "freed"}
        /\ \A y \in Objects : y # x => phase'[y] = phase[y] /\ callbacks'[y] = callbacks[y]
    BY DEF Allocate, CanCall, Goto, InUse, Custody, TypeOK, ObjectTypes,
       CallTypes
  <2>5. QED
    BY <2>1, <2>2, <2>3, <2>4 DEF InUse, Custody, TypeOK, ObjectTypes,
       ShutdownPins
<1>6. QED
  BY <1>1, <1>2, <1>3, <1>4, <1>5 DEF InUse

\* InUse is kept when MAMA creates the object, and calls back from here on.
LEMMA MamaCreatesKeepsInUse ==
  ASSUME Quiet, InUse, NEW t \in Threads, MamaCreates(t)
  PROVE  InUse'
<1>1. Custody'
  BY MamaCreatesKeepsCustody DEF InUse
<1>2. InUseIsOpen'
  BY DEF MamaCreates, Goto, mapVars, dispVars, InUse, Custody, TypeOK,
     ObjectTypes, CallTypes, InUseIsOpen, CreateCustody, Creating, Finalising,
     Delivering, InCallback, Unclaimed
<1>3. CallbackStages'
  BY DEF MamaCreates, Goto, dispVars, InUse, CallbackStages, Finalising
<1>4. UnpublishedIsPrivate'
  BY DEF MamaCreates, Goto, mapVars, histVars, InUse, UnpublishedIsPrivate,
     NoCreation, CreatePlaces
<1>5. ShutdownPins'
  BY DEF MamaCreates, Goto, mapVars, InUse, ShutdownPins
<1>6. QED
  BY <1>1, <1>2, <1>3, <1>4, <1>5 DEF InUse

\* InUse is kept when creation puts the wrapper into its map.
LEMMA CreateInsertKeepsInUse ==
  ASSUME Quiet, InUse, NEW t \in Threads, CreateInsert(t)
  PROVE  InUse'
<1>1. Custody'
  BY CreateInsertKeepsCustody DEF InUse
<1>2. InUseIsOpen'
  BY DEF CreateInsert, Goto, dispVars, InUse, InUseIsOpen, Finalising,
     Delivering, InCallback, Unclaimed
<1>3. CallbackStages'
  BY DEF CreateInsert, Goto, dispVars, InUse, CallbackStages, Finalising
<1>4. UnpublishedIsPrivate'
  BY DEF CreateInsert, Goto, histVars, InUse, UnpublishedIsPrivate, NoCreation,
     CreatePlaces
<1>5. ShutdownPins'
  BY DEF CreateInsert, Goto, InUse, ShutdownPins
<1>6. QED
  BY <1>1, <1>2, <1>3, <1>4, <1>5 DEF InUse

\* InUse is kept when createInbox frees what it has allocated.
LEMMA CreateInboxFailsKeepsInUse ==
  ASSUME Quiet, InUse, NEW t \in Threads, CreateInboxFails(t)
  PROVE  InUse'
<1>1. Custody'
  BY CreateInboxFailsKeepsCustody DEF InUse
<1>2. InUseIsOpen'
  BY DEF CreateInboxFails, CreationFails, Return, Goto, mapVars, dispVars,
     InUse, Quiet, Custody, TypeOK, CallTypes, InUseIsOpen, CreateCustody,
     Creating, Finalising, Delivering, InCallback, Unclaimed
<1>3. CallbackStages'
  BY DEF CreateInboxFails, Return, Goto, dispVars, InUse, Custody, TypeOK,
     CallTypes, CallbackStages, Finalising
<1>4. UnpublishedIsPrivate'
  BY DEF CreateInboxFails, Return, Goto, mapVars, histVars, InUse, Custody,
     TypeOK, CallTypes, UnpublishedIsPrivate, NoCreation, CreatePlaces
<1>5. ShutdownPins'
  BY DEF CreateInboxFails, CreationFails, Return, Goto, mapVars, InUse,
     ShutdownPins
<1>6. QED
  BY <1>1, <1>2, <1>3, <1>4, <1>5 DEF InUse

\* InUse is kept when createSubscription asks MAMA to destroy what it has allocated.
LEMMA CreateSubscriptionFailsKeepsInUse ==
  ASSUME Quiet, InUse, NEW t \in Threads, CreateSubscriptionFails(t)
  PROVE  InUse'
<1>1. Custody'
  BY CreateSubscriptionFailsKeepsCustody DEF InUse
<1>2. InUseIsOpen'
  BY DEF CreateSubscriptionFails, CreationFails, Return, Goto, mapVars,
     dispVars, InUse, Quiet, Custody, TypeOK, CallTypes, InUseIsOpen,
     CreateCustody, Creating, Finalising, Delivering, InCallback, Unclaimed
<1>3. CallbackStages'
  BY DEF CreateSubscriptionFails, CreationFails, Return, Goto, dispVars, InUse,
     Quiet, Custody, TypeOK, CallTypes, CallbackStages, Finalising
<1>4. UnpublishedIsPrivate'
  BY DEF CreateSubscriptionFails, Return, Goto, mapVars, histVars, InUse,
     Custody, TypeOK, CallTypes, UnpublishedIsPrivate, NoCreation, CreatePlaces
<1>5. ShutdownPins'
  BY DEF CreateSubscriptionFails, CreationFails, Return, Goto, mapVars, InUse,
     ShutdownPins
<1>6. QED
  BY <1>1, <1>2, <1>3, <1>4, <1>5 DEF InUse

\* InUse is kept when creation returns the handle.
LEMMA CreateReturnKeepsInUse ==
  ASSUME Quiet, InUse, NEW t \in Threads, CreateReturn(t)
  PROVE  InUse'
<1>1. Custody'
  BY CreateReturnKeepsCustody DEF InUse
<1>2. InUseIsOpen'
  BY DEF CreateReturn, Return, Goto, mapVars, dispVars, InUse, InUseIsOpen,
     Finalising, Delivering, InCallback, Unclaimed
<1>3. CallbackStages'
  BY DEF CreateReturn, Return, Goto, dispVars, InUse, CallbackStages, Finalising
<1>4. UnpublishedIsPrivate'
  BY DEF CreateReturn, Return, Goto, mapVars, InUse, Custody, TypeOK,
     ObjectTypes, CallTypes, UnpublishedIsPrivate, InUseIsOpen, NoCreation,
     CreatePlaces
<1>5. ShutdownPins'
  BY DEF CreateReturn, Return, Goto, mapVars, InUse, ShutdownPins
<1>6. QED
  BY <1>1, <1>2, <1>3, <1>4, <1>5 DEF InUse

\* InUse is kept when a call of destroyInbox or destroySubscription begins.
LEMMA DestroyKeepsInUse ==
  ASSUME Quiet, InUse, NEW t \in Threads, NEW x \in Objects, Destroy(t, x)
  PROVE  InUse'
<1>1. Custody'
  BY DestroyKeepsCustody DEF InUse
<1>2. InUseIsOpen'
  BY DEF Destroy, CanCall, Goto, mapVars, dispVars, InUse, InUseIsOpen,
     Finalising, Delivering, InCallback, Unclaimed
<1>3. CallbackStages'
  BY DEF Destroy, CanCall, Goto, dispVars, InUse, CallbackStages, Finalising
<1>4. UnpublishedIsPrivate'
  BY DEF Destroy, Goto, mapVars, histVars, InUse, Quiet, Custody, TypeOK,
     CallTypes, UnpublishedIsPrivate, Knows, NoCreation, CreatePlaces
<1>5. ShutdownPins'
  BY DEF Destroy, CanCall, Goto, mapVars, InUse, ShutdownPins
<1>6. QED
  BY <1>1, <1>2, <1>3, <1>4, <1>5 DEF InUse

\* InUse is kept when a call that removes the wrapper from its map claims it.
LEMMA DestroyRemoveKeepsInUse ==
  ASSUME Quiet, InUse, NEW t \in Threads, DestroyRemove(t)
  PROVE  InUse'
<1>1. Custody'
  BY DestroyRemoveKeepsCustody DEF InUse
<1>2. InUseIsOpen'
  <2>1. \A u \in Threads : u # t => pc'[u] = pc[u] /\ arg'[u] = arg[u] /\ claimed'[u] =
          claimed[u]
    BY DEF DestroyRemove, Return, Goto, InUse, Custody, TypeOK, CallTypes
  <2>2. pc'[t] \in {"idle", "clear"}
    BY DEF DestroyRemove, Return, Goto, InUse, Custody, TypeOK, CallTypes
  <2>3. UNCHANGED <<phase, queued, dpc, dobj>>
    BY DEF DestroyRemove, dispVars
  <2>4. /\ arg[t] \in Objects /\ map' = map \ {arg[t]} /\ pc[t] = "remove"
        /\ IF arg[t] \in map THEN claimed'[t] = {arg[t]} /\ arg'[t] = arg[t]
           ELSE claimed'[t] = claimed[t] /\ pc'[t] = "idle"
    BY DEF DestroyRemove, Return, Goto, InUse, Custody, TypeOK, CallTypes,
       ObjectPlaces
  <2>5. QED
    BY <2>1, <2>2, <2>3, <2>4 DEF InUse, InUseIsOpen, Unclaimed, Finalising,
       Delivering, InCallback
<1>3. CallbackStages'
  BY DEF DestroyRemove, Return, Goto, dispVars, InUse, Custody, TypeOK,
     CallTypes, CallbackStages, Finalising
<1>4. UnpublishedIsPrivate'
  <2>1. \A u \in Threads : u # t => pc'[u] = pc[u] /\ arg'[u] = arg[u] /\ claimed'[u] =
          claimed[u]
    BY DEF DestroyRemove, Return, Goto, InUse, Custody, TypeOK, CallTypes
  <2>2. pc'[t] \in {"idle", "clear"}
    BY DEF DestroyRemove, Return, Goto, InUse, Custody, TypeOK, CallTypes
  <2>3. UNCHANGED <<phase, published, closing, sweeping>>
    BY DEF DestroyRemove, histVars
  <2>4. /\ arg[t] \in Objects /\ map' = map \ {arg[t]} /\ pc[t] = "remove"
        /\ IF arg[t] \in map THEN claimed'[t] = {arg[t]} /\ arg'[t] = arg[t]
           ELSE claimed'[t] = claimed[t] /\ pc'[t] = "idle"
    BY DEF DestroyRemove, Return, Goto, InUse, Custody, TypeOK, CallTypes,
       ObjectPlaces
  <2>5. QED
    BY <2>1, <2>2, <2>3, <2>4 DEF InUse, UnpublishedIsPrivate, NoCreation,
       CreatePlaces
<1>5. ShutdownPins'
  <2>1. \A u \in Threads : u # t => pc'[u] = pc[u] /\ arg'[u] = arg[u] /\ claimed'[u] =
          claimed[u]
    BY DEF DestroyRemove, Return, Goto, InUse, Custody, TypeOK, CallTypes
  <2>2. pc'[t] \in {"idle", "clear"}
    BY DEF DestroyRemove, Return, Goto, InUse, Custody, TypeOK, CallTypes
  <2>3. UNCHANGED <<mapLock>>
    BY DEF DestroyRemove
  <2>4. /\ arg[t] \in Objects /\ map' = map \ {arg[t]} /\ pc[t] = "remove"
        /\ IF arg[t] \in map THEN claimed'[t] = {arg[t]} /\ arg'[t] = arg[t]
           ELSE claimed'[t] = claimed[t] /\ pc'[t] = "idle"
    BY DEF DestroyRemove, Return, Goto, InUse, Custody, TypeOK, CallTypes,
       ObjectPlaces
  <2>5. mapLock[MapOf(arg[t])] = NoThread
    BY DEF DestroyRemove, MapFree
  <2>6. \A u \in Threads : pc[u] = "shutdown" => arg[u] # arg[t]
    BY <2>5, ConstantsAssumption DEF InUse, ShutdownPins
  <2>7. QED
    BY <2>1, <2>2, <2>3, <2>4, <2>6 DEF InUse, Custody, TypeOK, ObjectTypes,
       ShutdownPins
<1>6. QED
  BY <1>1, <1>2, <1>3, <1>4, <1>5 DEF InUse

\* InUse is kept when all callbacks are cleared under m_lock.
LEMMA ClearKeepsInUse ==
  ASSUME Quiet, InUse, NEW t \in Threads, Clear(t)
  PROVE  InUse'
<1>1. Custody'
  BY ClearKeepsCustody DEF InUse
<1>2. InUseIsOpen'
  BY DEF Clear, Goto, mapVars, dispVars, InUse, InUseIsOpen, Finalising,
     Delivering, InCallback, Unclaimed
<1>3. CallbackStages'
  BY DEF Clear, Silence, Goto, mapVars, dispVars, InUse, Custody, TypeOK,
     ObjectTypes, CallTypes, CallbackStages, InUseIsOpen, CallCustody,
     UnpublishedIsPrivate, Finalising, Unclaimed, ObjectPlaces, CallPlaces
<1>4. UnpublishedIsPrivate'
  BY DEF Clear, Goto, mapVars, InUse, UnpublishedIsPrivate, NoCreation,
     CreatePlaces
<1>5. ShutdownPins'
  BY DEF Clear, Goto, mapVars, InUse, ShutdownPins
<1>6. QED
  BY <1>1, <1>2, <1>3, <1>4, <1>5 DEF InUse

\* InUse is kept when the wrapper is given to the queue.
LEMMA DestroyEnqueueKeepsInUse ==
  ASSUME Quiet, InUse, NEW t \in Threads, DestroyEnqueue(t)
  PROVE  InUse'
<1>1. Custody'
  BY DestroyEnqueueKeepsCustody DEF InUse
<1>2. InUseIsOpen'
  <2>1. \A u \in Threads : u # t => pc'[u] = pc[u] /\ arg'[u] = arg[u] /\ claimed'[u] =
          claimed[u] /\ sweeping'[u] = sweeping[u]
    BY DEF DestroyEnqueue, NextMap, Return, Goto, InUse, Custody, TypeOK,
       CallTypes
  <2>2. pc'[t] \in {"idle", "removeAll", "sweep"}
    BY DEF DestroyEnqueue, NextMap, Return, Goto, InUse, Custody, TypeOK,
       CallTypes
  <2>3. UNCHANGED <<phase, map, dpc, dobj>>
    BY DEF DestroyEnqueue, mapVars, dispVars
  <2>4. /\ claimed'[t] = claimed[t] \ {arg[t]} /\ arg[t] \in claimed[t]
        /\ arg[t] \in Objects /\ pc[t] = "enqueue"
        /\ \A y \in Objects : y # arg[t] => queued'[y] = queued[y]
    BY DEF DestroyEnqueue, InUse, Custody, TypeOK, ObjectTypes, CallTypes,
       CallCustody, DestroyPlaces
  <2>5. QED
    BY <2>1, <2>2, <2>3, <2>4 DEF InUse, InUseIsOpen, Unclaimed, Finalising,
       Delivering, InCallback
<1>3. CallbackStages'
  <2>1. \A u \in Threads : u # t => pc'[u] = pc[u] /\ arg'[u] = arg[u] /\ claimed'[u] =
          claimed[u] /\ sweeping'[u] = sweeping[u]
    BY DEF DestroyEnqueue, NextMap, Return, Goto, InUse, Custody, TypeOK,
       CallTypes
  <2>2. pc'[t] \in {"idle", "removeAll", "sweep"}
    BY DEF DestroyEnqueue, NextMap, Return, Goto, InUse, Custody, TypeOK,
       CallTypes
  <2>3. UNCHANGED <<phase, callbacks, dpc, dobj>>
    BY DEF DestroyEnqueue, dispVars
  <2>4. /\ claimed'[t] = claimed[t] \ {arg[t]} /\ arg[t] \in claimed[t]
        /\ arg[t] \in Objects /\ pc[t] = "enqueue"
        /\ \A y \in Objects : y # arg[t] => queued'[y] = queued[y]
    BY DEF DestroyEnqueue, InUse, Custody, TypeOK, ObjectTypes, CallTypes,
       CallCustody, DestroyPlaces
  <2>5. QED
    BY <2>1, <2>2, <2>3, <2>4 DEF InUse, CallbackStages, Finalising
<1>4. UnpublishedIsPrivate'
  <2>1. \A u \in Threads : u # t => pc'[u] = pc[u] /\ arg'[u] = arg[u] /\ claimed'[u] =
          claimed[u] /\ sweeping'[u] = sweeping[u]
    BY DEF DestroyEnqueue, NextMap, Return, Goto, InUse, Custody, TypeOK,
       CallTypes
  <2>2. pc'[t] \in {"idle", "removeAll", "sweep"}
    BY DEF DestroyEnqueue, NextMap, Return, Goto, InUse, Custody, TypeOK,
       CallTypes
  <2>3. UNCHANGED <<phase, map, published, closing>>
    BY DEF DestroyEnqueue, mapVars, histVars
  <2>4. sweeping'[t] # None => sweeping'[t][1] \in closing
    <3>1. CASE NextMap(t)
      BY <3>1 DEF NextMap, InUse, Custody, TypeOK, CallTypes,
         UnpublishedIsPrivate
    <3>2. CASE UNCHANGED sweeping
      BY <3>2 DEF InUse, UnpublishedIsPrivate
    <3>3. QED
      BY <3>1, <3>2 DEF DestroyEnqueue
  <2>5. QED
    BY <2>1, <2>2, <2>3, <2>4 DEF InUse, UnpublishedIsPrivate, NoCreation,
       CreatePlaces
<1>5. ShutdownPins'
  <2>1. \A u \in Threads : u # t => pc'[u] = pc[u] /\ arg'[u] = arg[u] /\ claimed'[u] =
          claimed[u] /\ sweeping'[u] = sweeping[u]
    BY DEF DestroyEnqueue, NextMap, Return, Goto, InUse, Custody, TypeOK,
       CallTypes
  <2>2. pc'[t] \in {"idle", "removeAll", "sweep"}
    BY DEF DestroyEnqueue, NextMap, Return, Goto, InUse, Custody, TypeOK,
       CallTypes
  <2>3. UNCHANGED <<map, mapLock>>
    BY DEF DestroyEnqueue, mapVars
  <2>4. /\ claimed'[t] = claimed[t] \ {arg[t]} /\ arg[t] \in claimed[t]
        /\ arg[t] \in Objects /\ pc[t] = "enqueue"
        /\ \A y \in Objects : y # arg[t] => queued'[y] = queued[y]
    BY DEF DestroyEnqueue, InUse, Custody, TypeOK, ObjectTypes, CallTypes,
       CallCustody, DestroyPlaces
  <2>5. QED
    BY <2>1, <2>2, <2>3, <2>4 DEF InUse, Custody, TypeOK, ObjectTypes,
       ShutdownPins
<1>6. QED
  BY <1>1, <1>2, <1>3, <1>4, <1>5 DEF InUse

\* InUse is kept when a call of shutdownInbox or shutdownSubscription begins.
LEMMA ShutdownKeepsInUse ==
  ASSUME Quiet, InUse, NEW t \in Threads, NEW x \in Objects, Shutdown(t, x)
  PROVE  InUse'
<1>1. Custody'
  BY ShutdownKeepsCustody DEF InUse
<1>2. InUseIsOpen'
  BY DEF Shutdown, CanCall, Goto, mapVars, dispVars, InUse, InUseIsOpen,
     Finalising, Delivering, InCallback, Unclaimed
<1>3. CallbackStages'
  BY DEF Shutdown, CanCall, Goto, dispVars, InUse, CallbackStages, Finalising
<1>4. UnpublishedIsPrivate'
  BY DEF Shutdown, Goto, mapVars, histVars, InUse, Quiet, Custody, TypeOK,
     CallTypes, UnpublishedIsPrivate, Knows, NoCreation, CreatePlaces
<1>5. ShutdownPins'
  BY DEF Shutdown, CanCall, Goto, mapVars, InUse, ShutdownPins
<1>6. QED
  BY <1>1, <1>2, <1>3, <1>4, <1>5 DEF InUse

\* InUse is kept when a shutdown finds the wrapper and locks the map.
LEMMA ShutdownFindKeepsInUse ==
  ASSUME Quiet, InUse, NEW t \in Threads, ShutdownFind(t)
  PROVE  InUse'
<1>1. Custody'
  BY ShutdownFindKeepsCustody DEF InUse
<1>2. InUseIsOpen'
  <2>1. \A u \in Threads : u # t => pc'[u] = pc[u] /\ arg'[u] = arg[u]
    BY DEF ShutdownFind, Return, Goto, InUse, Custody, TypeOK, CallTypes
  <2>2. pc'[t] \in {"idle", "shutdown"}
    BY DEF ShutdownFind, Return, Goto, InUse, Custody, TypeOK, CallTypes
  <2>3. UNCHANGED <<phase, queued, map, claimed, dpc, dobj>>
    BY DEF ShutdownFind, dispVars
  <2>4. QED
    BY <2>1, <2>2, <2>3 DEF InUse, InUseIsOpen, Unclaimed, Finalising,
       Delivering, InCallback
<1>3. CallbackStages'
  <2>1. \A u \in Threads : u # t => pc'[u] = pc[u] /\ arg'[u] = arg[u]
    BY DEF ShutdownFind, Return, Goto, InUse, Custody, TypeOK, CallTypes
  <2>2. pc'[t] \in {"idle", "shutdown"}
    BY DEF ShutdownFind, Return, Goto, InUse, Custody, TypeOK, CallTypes
  <2>3. UNCHANGED <<phase, callbacks, queued, dpc, dobj>>
    BY DEF ShutdownFind, dispVars
  <2>4. QED
    BY <2>1, <2>2, <2>3 DEF InUse, CallbackStages, Finalising
<1>4. UnpublishedIsPrivate'
  <2>1. \A u \in Threads : u # t => pc'[u] = pc[u] /\ arg'[u] = arg[u]
    BY DEF ShutdownFind, Return, Goto, InUse, Custody, TypeOK, CallTypes
  <2>2. UNCHANGED <<phase, map, published, closing, sweeping>>
    BY DEF ShutdownFind, histVars
  <2>3. /\ pc[t] = "find" /\ mapLock[MapOf(arg[t])] = NoThread
        /\ IF arg[t] \in map
           THEN pc'[t] = "shutdown" /\ arg'[t] = arg[t]
                /\ mapLock' = [mapLock EXCEPT ![MapOf(arg[t])] = t]
           ELSE pc'[t] = "idle" /\ UNCHANGED mapLock
    BY DEF ShutdownFind, MapFree, Return, Goto, InUse, Custody, TypeOK,
       CallTypes
  <2>4. QED
    BY <2>1, <2>2, <2>3 DEF InUse, UnpublishedIsPrivate, NoCreation,
       CreatePlaces
<1>5. ShutdownPins'
  <2>1. \A u \in Threads : u # t => pc'[u] = pc[u] /\ arg'[u] = arg[u]
    BY DEF ShutdownFind, Return, Goto, InUse, Custody, TypeOK, CallTypes
  <2>2. UNCHANGED <<map>>
    BY DEF ShutdownFind
  <2>3. /\ pc[t] = "find" /\ mapLock[MapOf(arg[t])] = NoThread
        /\ IF arg[t] \in map
           THEN pc'[t] = "shutdown" /\ arg'[t] = arg[t]
                /\ mapLock' = [mapLock EXCEPT ![MapOf(arg[t])] = t]
           ELSE pc'[t] = "idle" /\ UNCHANGED mapLock
    BY DEF ShutdownFind, MapFree, Return, Goto, InUse, Custody, TypeOK,
       CallTypes
  <2>4. MapOf(arg[t]) \in Maps
    BY ConstantsAssumption DEF ShutdownFind, InUse, Custody, TypeOK, CallTypes,
       ObjectPlaces, MapOf, Maps
  <2>5. \A u \in Threads : pc[u] = "shutdown" => MapOf(arg[u]) # MapOf(arg[t])
    BY <2>3, ConstantsAssumption DEF InUse, ShutdownPins
  <2>6. CASE arg[t] \in map
    <3>1. \A u \in Threads : pc'[u] = "shutdown" =>
             arg'[u] \in map /\ mapLock'[MapOf(arg'[u])] = u
      <4>1. ASSUME NEW u \in Threads, u # t, pc[u] = "shutdown"
            PROVE  arg[u] \in map /\ mapLock'[MapOf(arg[u])] = u
        <5>1. arg[u] \in map /\ mapLock[MapOf(arg[u])] = u
          BY <4>1 DEF InUse, ShutdownPins
        <5>2. mapLock'[MapOf(arg[u])] = mapLock[MapOf(arg[u])]
          <6>1. MapOf(arg[u]) # MapOf(arg[t])
            BY <2>5, <4>1
          <6>2. mapLock' = [mapLock EXCEPT ![MapOf(arg[t])] = t]
            BY <2>3, <2>6
          <6>3. QED
            BY <6>1, <6>2
        <5>3. QED
          BY <5>1, <5>2
      <4>2. mapLock'[MapOf(arg[t])] = t
        BY <2>3, <2>4, <2>6 DEF InUse, Custody, TypeOK, ObjectTypes
      <4>3. ASSUME NEW u \in Threads, pc'[u] = "shutdown"
            PROVE  arg'[u] \in map /\ mapLock'[MapOf(arg'[u])] = u
        <5>1. CASE u = t
          BY <2>3, <2>6, <4>2, <5>1
        <5>2. CASE u # t
          BY <2>1, <4>1, <4>3, <5>2
        <5>3. QED
          BY <5>1, <5>2
      <4>4. QED
        BY <4>3
    <3>2. ASSUME NEW m \in Maps, mapLock'[m] # NoThread
          PROVE  pc'[mapLock'[m]] = "shutdown" /\ MapOf(arg'[mapLock'[m]]) = m
      <4>1. CASE m = MapOf(arg[t])
        BY <2>3, <2>6, <4>1 DEF InUse, Custody, TypeOK, ObjectTypes
      <4>2. CASE m # MapOf(arg[t])
        BY <2>1, <2>3, <3>2 DEF InUse, Custody, TypeOK, ObjectTypes,
           ShutdownPins
      <4>3. QED
        BY <4>1, <4>2
    <3>3. QED
      BY <2>2, <3>1, <3>2 DEF ShutdownPins
  <2>7. CASE arg[t] \notin map
    BY <2>1, <2>2, <2>3, <2>7 DEF InUse, Custody, TypeOK, ObjectTypes,
       ShutdownPins
  <2>8. QED
    BY <2>6, <2>7
<1>6. QED
  BY <1>1, <1>2, <1>3, <1>4, <1>5 DEF InUse

\* InUse is kept when the message callback is cleared under m_lock.
LEMMA StopMessagesKeepsInUse ==
  ASSUME Quiet, InUse, NEW t \in Threads, StopMessages(t)
  PROVE  InUse'
<1>1. Custody'
  BY StopMessagesKeepsCustody DEF InUse
<1>2. InUseIsOpen'
  BY DEF StopMessages, Return, Goto, dispVars, InUse, InUseIsOpen, Finalising,
     Delivering, InCallback, Unclaimed
<1>3. CallbackStages'
  BY DEF StopMessages, Silence, Return, Goto, dispVars, InUse, Custody, TypeOK,
     ObjectTypes, CallTypes, CallbackStages, InUseIsOpen, ShutdownPins,
     Finalising
<1>4. UnpublishedIsPrivate'
  BY DEF StopMessages, Return, Goto, InUse, Custody, TypeOK, CallTypes,
     UnpublishedIsPrivate, NoCreation, CreatePlaces
<1>5. ShutdownPins'
  BY DEF StopMessages, Return, Goto, InUse, Custody, TypeOK, ObjectTypes,
     CallTypes, ShutdownPins
<1>6. QED
  BY <1>1, <1>2, <1>3, <1>4, <1>5 DEF InUse

\* InUse is kept when destroySession starts on its event objects.
LEMMA DestroyAllEventsKeepsInUse ==
  ASSUME Quiet, InUse, NEW t \in Threads, NEW s \in Sessions, DestroyAllEvents(t, s)
  PROVE  InUse'
<1>1. Custody'
  BY DestroyAllEventsKeepsCustody DEF InUse
<1>2. InUseIsOpen'
  BY DEF DestroyAllEvents, CanCall, Goto, mapVars, dispVars, InUse, InUseIsOpen,
     Finalising, Delivering, InCallback, Unclaimed
<1>3. CallbackStages'
  BY DEF DestroyAllEvents, CanCall, Goto, dispVars, InUse, CallbackStages,
     Finalising
<1>4. UnpublishedIsPrivate'
  BY DEF DestroyAllEvents, CanCall, Goto, mapVars, InUse, Quiet,
     UnpublishedIsPrivate, NoCreation, CreatePlaces
<1>5. ShutdownPins'
  BY DEF DestroyAllEvents, CanCall, Goto, mapVars, InUse, ShutdownPins
<1>6. QED
  BY <1>1, <1>2, <1>3, <1>4, <1>5 DEF InUse

\* InUse is kept when removeAll claims all of a map.
LEMMA SweepMapKeepsInUse ==
  ASSUME Quiet, InUse, NEW t \in Threads, SweepMap(t)
  PROVE  InUse'
<1>1. Custody'
  BY SweepMapKeepsCustody DEF InUse
<1>2. InUseIsOpen'
  <2>1. \A u \in Threads : u # t => pc'[u] = pc[u] /\ arg'[u] = arg[u] /\ claimed'[u] =
          claimed[u] /\ sweeping'[u] = sweeping[u]
    BY DEF SweepMap, NextMap, Return, Goto, InUse, Custody, TypeOK, CallTypes
  <2>2. pc'[t] \in {"idle", "removeAll", "sweep"}
    BY DEF SweepMap, NextMap, Return, Goto, InUse, Custody, TypeOK, CallTypes
  <2>3. UNCHANGED <<phase, queued, dpc, dobj>>
    BY DEF SweepMap, dispVars
  <2>4. map' \subseteq map /\ claimed'[t] \subseteq map
    BY DEF SweepMap, Contents, InUse, Custody, TypeOK, CallTypes
  <2>5. QED
    BY <2>1, <2>2, <2>3, <2>4 DEF InUse, InUseIsOpen, Unclaimed, Finalising,
       Delivering, InCallback
<1>3. CallbackStages'
  <2>1. \A u \in Threads : u # t => pc'[u] = pc[u] /\ arg'[u] = arg[u] /\ claimed'[u] =
          claimed[u] /\ sweeping'[u] = sweeping[u]
    BY DEF SweepMap, NextMap, Return, Goto, InUse, Custody, TypeOK, CallTypes
  <2>2. pc'[t] \in {"idle", "removeAll", "sweep"}
    BY DEF SweepMap, NextMap, Return, Goto, InUse, Custody, TypeOK, CallTypes
  <2>3. UNCHANGED <<phase, callbacks, queued, dpc, dobj>>
    BY DEF SweepMap, dispVars
  <2>4. QED
    BY <2>1, <2>2, <2>3 DEF InUse, CallbackStages, Finalising
<1>4. UnpublishedIsPrivate'
  <2>1. \A u \in Threads : u # t => pc'[u] = pc[u] /\ arg'[u] = arg[u] /\ claimed'[u] =
          claimed[u] /\ sweeping'[u] = sweeping[u]
    BY DEF SweepMap, NextMap, Return, Goto, InUse, Custody, TypeOK, CallTypes
  <2>2. pc'[t] \in {"idle", "removeAll", "sweep"}
    BY DEF SweepMap, NextMap, Return, Goto, InUse, Custody, TypeOK, CallTypes
  <2>3. UNCHANGED <<phase, published, closing>>
    BY DEF SweepMap, histVars
  <2>4. /\ map' = map \ Contents(sweeping[t]) /\ mapLock[sweeping[t]] = NoThread
        /\ pc[t] = "removeAll" /\ sweeping[t] # None
    BY ConstantsAssumption DEF SweepMap, InUse, Custody, TypeOK, CallTypes
  <2>5. sweeping'[t] # None => sweeping'[t][1] \in closing
    <3>1. CASE NextMap(t)
      BY <3>1 DEF NextMap, InUse, Custody, TypeOK, CallTypes,
         UnpublishedIsPrivate
    <3>2. CASE UNCHANGED sweeping
      BY <3>2 DEF InUse, UnpublishedIsPrivate
    <3>3. QED
      BY <3>1, <3>2 DEF SweepMap
  <2>6. \A u \in Threads : pc[u] = "publish" => MapOf(arg[u]) # sweeping[t]
    BY <2>4 DEF InUse, UnpublishedIsPrivate, NoCreation, CreatePlaces, MapOf
  <2>7. QED
    BY <2>1, <2>2, <2>3, <2>4, <2>5, <2>6 DEF InUse, UnpublishedIsPrivate,
       NoCreation, CreatePlaces, Contents
<1>5. ShutdownPins'
  <2>1. \A u \in Threads : u # t => pc'[u] = pc[u] /\ arg'[u] = arg[u] /\ claimed'[u] =
          claimed[u] /\ sweeping'[u] = sweeping[u]
    BY DEF SweepMap, NextMap, Return, Goto, InUse, Custody, TypeOK, CallTypes
  <2>2. pc'[t] \in {"idle", "removeAll", "sweep"}
    BY DEF SweepMap, NextMap, Return, Goto, InUse, Custody, TypeOK, CallTypes
  <2>3. UNCHANGED <<mapLock>>
    BY DEF SweepMap
  <2>4. /\ map' = map \ Contents(sweeping[t]) /\ mapLock[sweeping[t]] = NoThread
        /\ pc[t] = "removeAll" /\ sweeping[t] # None
    BY ConstantsAssumption DEF SweepMap, InUse, Custody, TypeOK, CallTypes
  <2>5. QED
    BY <2>1, <2>2, <2>3, <2>4, ConstantsAssumption DEF InUse, Custody, TypeOK,
       ObjectTypes, ShutdownPins, Contents
<1>6. QED
  BY <1>1, <1>2, <1>3, <1>4, <1>5 DEF InUse

\* InUse is kept when removeAll goes on to the next wrapper.
LEMMA SweepToKeepsInUse ==
  ASSUME Quiet, InUse, NEW t \in Threads, NEW x \in Objects, SweepTo(t, x)
  PROVE  InUse'
<1>1. Custody'
  BY SweepToKeepsCustody DEF InUse
<1>2. InUseIsOpen'
  BY DEF SweepTo, Goto, mapVars, dispVars, InUse, InUseIsOpen, Finalising,
     Delivering, InCallback, Unclaimed
<1>3. CallbackStages'
  BY DEF SweepTo, Goto, dispVars, InUse, CallbackStages, Finalising
<1>4. UnpublishedIsPrivate'
  BY DEF SweepTo, Goto, mapVars, histVars, InUse, UnpublishedIsPrivate,
     NoCreation, CreatePlaces
<1>5. ShutdownPins'
  BY DEF SweepTo, Goto, mapVars, InUse, ShutdownPins
<1>6. QED
  BY <1>1, <1>2, <1>3, <1>4, <1>5 DEF InUse

\* InUse is kept when a session's queue is deactivated.
LEMMA ShutdownSessionKeepsInUse ==
  ASSUME Quiet, InUse, NEW t \in Threads, NEW s \in Sessions, ShutdownSession(t, s)
  PROVE  InUse'
<1>1. Custody'
  BY ShutdownSessionKeepsCustody DEF InUse
<1>2. InUseIsOpen'
  BY DEF ShutdownSession, mapVars, callVars, dispVars, InUse, InUseIsOpen,
     Finalising, Delivering, InCallback, Unclaimed
<1>3. CallbackStages'
  BY DEF ShutdownSession, callVars, dispVars, InUse, CallbackStages, Finalising
<1>4. UnpublishedIsPrivate'
  BY DEF ShutdownSession, mapVars, callVars, histVars, InUse,
     UnpublishedIsPrivate, NoCreation
<1>5. ShutdownPins'
  BY DEF ShutdownSession, mapVars, callVars, InUse, ShutdownPins
<1>6. QED
  BY <1>1, <1>2, <1>3, <1>4, <1>5 DEF InUse

\* InUse is kept when MAMA delivers something to an object.
LEMMA DeliverKeepsInUse ==
  ASSUME Quiet, InUse, NEW s \in Sessions, NEW x \in Objects, NEW kind \in Kinds, Deliver(s, x, kind)
  PROVE  InUse'
<1>1. Custody'
  BY DeliverKeepsCustody DEF InUse
<1>2. InUseIsOpen'
  BY DEF Deliver, Dispatch, mapVars, callVars, InUse, Custody, TypeOK,
     DispatchTypes, InUseIsOpen, Finalising, Delivering, InCallback, Unclaimed
<1>3. CallbackStages'
  BY DEF Deliver, Dispatch, callVars, InUse, CallbackStages, Finalising
<1>4. UnpublishedIsPrivate'
  BY DEF Deliver, mapVars, callVars, histVars, InUse, UnpublishedIsPrivate,
     NoCreation
<1>5. ShutdownPins'
  BY DEF Deliver, mapVars, callVars, InUse, ShutdownPins
<1>6. QED
  BY <1>1, <1>2, <1>3, <1>4, <1>5 DEF InUse

\* InUse is kept when the dispatcher takes m_lock and calls back.
LEMMA CallbackLockKeepsInUse ==
  ASSUME Quiet, InUse, NEW s \in Sessions, CallbackLock(s)
  PROVE  InUse'
<1>1. Custody'
  BY CallbackLockKeepsCustody DEF InUse
<1>2. InUseIsOpen'
  <2>1. \A v \in Sessions : v # s => dpc'[v] = dpc[v] /\ dobj'[v] = dobj[v] /\ dkind'[v] = dkind[v]
    BY DEF CallbackLock, Dispatch, InUse, Custody, TypeOK, DispatchTypes
  <2>2. dpc'[s] \in {"idle", "callback"}
    BY DEF CallbackLock, Dispatch, InUse, Custody, TypeOK, DispatchTypes
  <2>3. UNCHANGED <<phase, map, queued, claimed, pc, arg>>
    BY DEF CallbackLock, mapVars, callVars
  <2>4. /\ dobj[s] \in Objects /\ Home[dobj[s]] = s
        /\ dpc'[s] = "callback" => dobj'[s] = dobj[s] /\ callbacks[dobj[s]] # {}
    BY DEF CallbackLock, Dispatch, InUse, Custody, TypeOK, DispatchTypes
  <2>5. dpc'[s] = "callback" => phase[dobj[s]] = "open"
    BY <2>4 DEF CallbackLock, InUse, InUseIsOpen, CallbackStages, Delivering
  <2>6. QED
    BY <2>1, <2>2, <2>3, <2>4, <2>5, ConstantsAssumption
       DEF InUse, InUseIsOpen, Unclaimed, Finalising, Delivering, InCallback
<1>3. CallbackStages'
  <2>1. \A v \in Sessions : v # s => dpc'[v] = dpc[v] /\ dobj'[v] = dobj[v] /\ dkind'[v] = dkind[v]
    BY DEF CallbackLock, Dispatch, InUse, Custody, TypeOK, DispatchTypes
  <2>2. dpc'[s] \in {"idle", "callback"}
    BY DEF CallbackLock, Dispatch, InUse, Custody, TypeOK, DispatchTypes
  <2>3. UNCHANGED <<phase, callbacks, queued, pc, arg>>
    BY DEF CallbackLock, callVars
  <2>4. QED
    BY <2>1, <2>2, <2>3, ConstantsAssumption DEF InUse, CallbackStages,
       Finalising
<1>4. UnpublishedIsPrivate'
  BY DEF CallbackLock, mapVars, callVars, histVars, InUse, UnpublishedIsPrivate,
     NoCreation
<1>5. ShutdownPins'
  BY DEF CallbackLock, mapVars, callVars, InUse, ShutdownPins
<1>6. QED
  BY <1>1, <1>2, <1>3, <1>4, <1>5 DEF InUse

\* InUse is kept when a callback returns.
LEMMA CallbackReturnKeepsInUse ==
  ASSUME Quiet, InUse, NEW s \in Sessions, CallbackReturn(s)
  PROVE  InUse'
<1>1. Custody'
  BY CallbackReturnKeepsCustody DEF InUse
<1>2. InUseIsOpen'
  BY DEF CallbackReturn, Dispatch, mapVars, callVars, InUse, Custody, TypeOK,
     DispatchTypes, InUseIsOpen, Finalising, Delivering, InCallback, Unclaimed
<1>3. CallbackStages'
  BY DEF CallbackReturn, Dispatch, callVars, InUse, CallbackStages, Finalising
<1>4. UnpublishedIsPrivate'
  BY DEF CallbackReturn, mapVars, callVars, InUse, UnpublishedIsPrivate,
     NoCreation
<1>5. ShutdownPins'
  BY DEF CallbackReturn, mapVars, callVars, InUse, ShutdownPins
<1>6. QED
  BY <1>1, <1>2, <1>3, <1>4, <1>5 DEF InUse

\* InUse is kept when the dispatcher takes a destroy event.
LEMMA FinaliseBeginKeepsInUse ==
  ASSUME Quiet, InUse, NEW s \in Sessions, NEW x \in Objects, FinaliseBegin(s, x)
  PROVE  InUse'
<1>1. Custody'
  BY FinaliseBeginKeepsCustody DEF InUse
<1>2. InUseIsOpen'
  BY DEF FinaliseBegin, Dispatch, mapVars, callVars, InUse, Custody, TypeOK,
     DispatchTypes, InUseIsOpen, Finalising, Delivering, InCallback, Unclaimed
<1>3. CallbackStages'
  BY DEF FinaliseBegin, Dispatch, callVars, InUse, Custody, TypeOK,
     DispatchTypes, CallbackStages, Finalising
<1>4. UnpublishedIsPrivate'
  BY DEF FinaliseBegin, mapVars, callVars, histVars, InUse,
     UnpublishedIsPrivate, NoCreation
<1>5. ShutdownPins'
  BY DEF FinaliseBegin, mapVars, callVars, InUse, ShutdownPins
<1>6. QED
  BY <1>1, <1>2, <1>3, <1>4, <1>5 DEF InUse

\* InUse is kept when onInboxDestroy frees the wrapper.
LEMMA OnInboxDestroyKeepsInUse ==
  ASSUME Quiet, InUse, NEW s \in Sessions, OnInboxDestroy(s)
  PROVE  InUse'
<1>1. Custody'
  BY OnInboxDestroyKeepsCustody DEF InUse
<1>2. InUseIsOpen'
  <2>1. \A v \in Sessions : v # s => dpc'[v] = dpc[v] /\ dobj'[v] = dobj[v] /\ dkind'[v] = dkind[v]
    BY DEF OnInboxDestroy, Dispatch
  <2>2. dpc'[s] \in {"idle"}
    BY DEF OnInboxDestroy, Dispatch, InUse, Custody, TypeOK, DispatchTypes
  <2>3. UNCHANGED <<map, queued, claimed, pc, arg, callbacks>>
    BY DEF OnInboxDestroy, mapVars, callVars
  <2>4. /\ dobj[s] \in Objects /\ Home[dobj[s]] = s /\ Finalising(dobj[s])
        /\ \A y \in Objects : y # dobj[s] => phase'[y] = phase[y]
    BY DEF OnInboxDestroy, Deallocate, Finalising, InUse, Custody, TypeOK,
       DispatchTypes
  <2>5. /\ dobj[s] \notin map /\ Unclaimed(dobj[s]) /\ queued[dobj[s]] = 0
        /\ \A u \in Threads : ~Creating(u, dobj[s])
    BY <2>4 DEF InUse, Custody, TypeOK, ObjectTypes, MapCustody, ClaimCustody,
       QueueCustody, CreateCustody, Unclaimed
  <2>6. QED
    BY <2>1, <2>2, <2>3, <2>4, <2>5, ConstantsAssumption DEF InUse, InUseIsOpen,
       Unclaimed, Finalising, Delivering, InCallback, Creating
<1>3. CallbackStages'
  <2>1. \A v \in Sessions : v # s => dpc'[v] = dpc[v] /\ dobj'[v] = dobj[v] /\ dkind'[v] = dkind[v]
    BY DEF OnInboxDestroy, Dispatch
  <2>2. dpc'[s] \in {"idle"}
    BY DEF OnInboxDestroy, Dispatch, InUse, Custody, TypeOK, DispatchTypes
  <2>3. UNCHANGED <<map, queued, claimed, pc, arg, callbacks>>
    BY DEF OnInboxDestroy, mapVars, callVars
  <2>4. /\ dobj[s] \in Objects /\ Home[dobj[s]] = s /\ Finalising(dobj[s])
        /\ \A y \in Objects : y # dobj[s] => phase'[y] = phase[y]
    BY DEF OnInboxDestroy, Deallocate, Finalising, InUse, Custody, TypeOK,
       DispatchTypes
  <2>5. QED
    BY <2>1, <2>2, <2>3, <2>4, ConstantsAssumption DEF InUse, CallbackStages,
       Finalising
<1>4. UnpublishedIsPrivate'
  BY DEF OnInboxDestroy, Deallocate, mapVars, callVars, histVars, InUse,
     UnpublishedIsPrivate, NoCreation
<1>5. ShutdownPins'
  BY DEF OnInboxDestroy, mapVars, callVars, InUse, ShutdownPins
<1>6. QED
  BY <1>1, <1>2, <1>3, <1>4, <1>5 DEF InUse

\* InUse is kept when onSubscriptionDestroy asks MAMA to destroy the subscription.
LEMMA OnSubscriptionDestroyKeepsInUse ==
  ASSUME Quiet, InUse, NEW s \in Sessions, OnSubscriptionDestroy(s)
  PROVE  InUse'
<1>1. Custody'
  BY OnSubscriptionDestroyKeepsCustody DEF InUse
<1>2. InUseIsOpen'
  <2>1. \A v \in Sessions : v # s => dpc'[v] = dpc[v] /\ dobj'[v] = dobj[v] /\ dkind'[v] = dkind[v]
    BY DEF OnSubscriptionDestroy, Dispatch
  <2>2. dpc'[s] \in {"idle"}
    BY DEF OnSubscriptionDestroy, Dispatch, InUse, Custody, TypeOK,
       DispatchTypes
  <2>3. UNCHANGED <<map, queued, claimed, pc, arg, callbacks>>
    BY DEF OnSubscriptionDestroy, mapVars, callVars
  <2>4. /\ dobj[s] \in Objects /\ Home[dobj[s]] = s /\ Finalising(dobj[s])
        /\ \A y \in Objects : y # dobj[s] => phase'[y] = phase[y]
    BY DEF OnSubscriptionDestroy, Deallocate, Finalising, InUse, Custody,
       TypeOK, ObjectTypes, DispatchTypes
  <2>5. /\ dobj[s] \notin map /\ Unclaimed(dobj[s]) /\ queued[dobj[s]] = 0
        /\ \A u \in Threads : ~Creating(u, dobj[s])
    BY <2>4 DEF InUse, Custody, TypeOK, ObjectTypes, MapCustody, ClaimCustody,
       QueueCustody, CreateCustody, Unclaimed
  <2>6. QED
    BY <2>1, <2>2, <2>3, <2>4, <2>5, ConstantsAssumption DEF InUse, InUseIsOpen,
       Unclaimed, Finalising, Delivering, InCallback, Creating
<1>3. CallbackStages'
  <2>1. \A v \in Sessions : v # s => dpc'[v] = dpc[v] /\ dobj'[v] = dobj[v] /\ dkind'[v] = dkind[v]
    BY DEF OnSubscriptionDestroy, Dispatch
  <2>2. dpc'[s] \in {"idle"}
    BY DEF OnSubscriptionDestroy, Dispatch, InUse, Custody, TypeOK,
       DispatchTypes
  <2>3. UNCHANGED <<map, queued, claimed, pc, arg, callbacks>>
    BY DEF OnSubscriptionDestroy, mapVars, callVars
  <2>4. /\ dobj[s] \in Objects /\ Home[dobj[s]] = s /\ Finalising(dobj[s])
        /\ \A y \in Objects : y # dobj[s] => phase'[y] = phase[y]
    BY DEF OnSubscriptionDestroy, Deallocate, Finalising, InUse, Custody,
       TypeOK, ObjectTypes, DispatchTypes
  <2>5. QED
    BY <2>1, <2>2, <2>3, <2>4, ConstantsAssumption DEF InUse, CallbackStages,
       Finalising
<1>4. UnpublishedIsPrivate'
  BY DEF OnSubscriptionDestroy, Deallocate, mapVars, callVars, histVars, InUse,
     Custody, TypeOK, ObjectTypes, UnpublishedIsPrivate, NoCreation
<1>5. ShutdownPins'
  BY DEF OnSubscriptionDestroy, mapVars, callVars, InUse, ShutdownPins
<1>6. QED
  BY <1>1, <1>2, <1>3, <1>4, <1>5 DEF InUse

\* InUse is kept when MAMA reports that a subscription is destroyed.
LEMMA OnDestroyKeepsInUse ==
  ASSUME Quiet, InUse, NEW s \in Sessions, NEW x \in Objects, OnDestroy(s, x)
  PROVE  InUse'
<1>1. Custody'
  BY OnDestroyKeepsCustody DEF InUse
<1>2. InUseIsOpen'
  BY DEF OnDestroy, Deallocate, mapVars, callVars, dispVars, InUse, InUseIsOpen,
     Finalising, Delivering, InCallback, Unclaimed
<1>3. CallbackStages'
  BY DEF OnDestroy, Deallocate, callVars, dispVars, InUse, CallbackStages,
     Finalising
<1>4. UnpublishedIsPrivate'
  BY DEF OnDestroy, Deallocate, mapVars, callVars, histVars, InUse,
     UnpublishedIsPrivate, NoCreation
<1>5. ShutdownPins'
  BY DEF OnDestroy, mapVars, callVars, InUse, ShutdownPins
<1>6. QED
  BY <1>1, <1>2, <1>3, <1>4, <1>5 DEF InUse

\* InUse is kept when nothing happens.
LEMMA StutterKeepsInUse ==
  ASSUME InUse, UNCHANGED vars
  PROVE  InUse'
<1>1. Custody'
  BY StutterKeepsCustody DEF InUse
<1>2. QED
  BY <1>1 DEF vars, InUse, InUseIsOpen, CallbackStages, UnpublishedIsPrivate,
     ShutdownPins, Unclaimed, Finalising, Delivering, InCallback, NoCreation

\* InUse is kept by any step, if creation is not raced and maps have memory.
LEMMA NextKeepsInUse == Quiet /\ InUse /\ [Next]_vars => InUse'
<1> SUFFICES ASSUME Quiet, InUse, [Next]_vars PROVE InUse'
  OBVIOUS
<1>1. ASSUME NEW t \in Threads, NEW x \in Objects,
             AllocateInbox(t, x) \/ AllocateSubscription(t, x)
      PROVE  InUse'
  <2>1. {"error", "message"} \in SUBSET Kinds /\ Kinds \in SUBSET Kinds
        /\ "message" \in Kinds
    BY DEF Kinds
  <2>2. QED
    BY <1>1, <2>1, AllocateKeepsInUse DEF AllocateInbox, AllocateSubscription
<1>2. ASSUME NEW t \in Threads, Begin(t)
      PROVE  InUse'
  BY <1>1, <1>2, DestroyKeepsInUse, ShutdownKeepsInUse,
     DestroyAllEventsKeepsInUse, ShutdownSessionKeepsInUse DEF Begin,
     DestroyInbox, DestroySubscription, ShutdownInbox, ShutdownSubscription
<1>3. ASSUME NEW t \in Threads, WaitMap(t)
      PROVE  InUse'
  BY <1>3, CreateInsertKeepsInUse, DestroyRemoveKeepsInUse,
     ShutdownFindKeepsInUse, SweepMapKeepsInUse DEF WaitMap
<1>4. ASSUME NEW t \in Threads, Continue(t)
      PROVE  InUse'
  BY <1>4, MamaCreatesKeepsInUse, CreateInboxFailsKeepsInUse,
     CreateSubscriptionFailsKeepsInUse, CreateReturnKeepsInUse, ClearKeepsInUse,
     DestroyEnqueueKeepsInUse, StopMessagesKeepsInUse, SweepToKeepsInUse DEF
     Continue, CreateInbox, CreateSubscription, ClearInbox, ClearSubscription,
     StopInbox, StopSubscription, SweepInbox, SweepSubscription, Objects
<1>5. ASSUME NEW s \in Sessions, Traffic(s)
      PROVE  InUse'
  BY <1>5, DeliverKeepsInUse
  DEF Traffic, OnErrorCallback, OnMessageCallback, OnCreateBasic, OnErrorBasic,
      OnMsgBasic, Kinds
<1>6. ASSUME NEW s \in Sessions, Serve(s) \/ CallbackReturn(s)
      PROVE  InUse'
  BY <1>6, CallbackLockKeepsInUse, OnInboxDestroyKeepsInUse,
     OnSubscriptionDestroyKeepsInUse, CallbackReturnKeepsInUse DEF Serve
<1>7. ASSUME NEW s \in Sessions, NEW x \in Objects, FinaliseBegin(s, x) \/ OnDestroy(s, x)
      PROVE  InUse'
  BY <1>7, FinaliseBeginKeepsInUse, OnDestroyKeepsInUse
<1>8. CASE UNCHANGED vars
  BY <1>8, StutterKeepsInUse
<1>9. QED
  BY <1>2, <1>3, <1>4, <1>5, <1>6, <1>7, <1>8 DEF Next

\* The stronger invariant, when no callback uses its object before creation has
\* returned, creation is not raced by destroySession, and the maps have memory.
THEOREM InUseAlways == Quiet => (Spec => []InUse)
<1> SUFFICES ASSUME Quiet PROVE Spec => []InUse
  OBVIOUS
<1>1. Init => InUse
  BY InitInUse
<1>2. InUse /\ [Next]_vars => InUse'
  BY NextKeepsInUse
<1>3. QED
  BY <1>1, <1>2, PTL DEF Spec

\* Then no thread ever uses an inbox or a subscription that has been freed.
THEOREM NoUseAfterFreeAlways == Quiet => (Spec => []NoUseAfterFree)
<1> SUFFICES ASSUME Quiet PROVE Spec => []NoUseAfterFree
  OBVIOUS
<1>1. ASSUME InUse, NEW x \in Objects, phase[x] = "freed"
      PROVE  /\ \A t \in Threads : ~Uses(t, x) /\ x \notin claimed[t]
             /\ queued[x] = 0 /\ x \notin map
  <2>1. /\ x \notin map /\ Unclaimed(x) /\ queued[x] = 0
        /\ ~Finalising(x) /\ ~Delivering(x) /\ ~InCallback(x)
    BY <1>1 DEF InUse, InUseIsOpen, Custody, TypeOK, ObjectTypes
  <2>2. ASSUME NEW t \in Threads, arg[t] = x,
               pc[t] \in CreatePlaces \cup DestroyPlaces \cup {"shutdown"}
        PROVE  FALSE
    BY <1>1, <2>2 DEF InUse, InUseIsOpen, UnpublishedIsPrivate, ShutdownPins,
       Custody, CallCustody, Unclaimed, CreatePlaces
  <2>3. ASSUME NEW t \in Sessions, dpc[t] # "idle", dobj[t] = x
        PROVE  FALSE
    BY <1>1, <2>1, <2>3 DEF InUse, Custody, TypeOK, DispatchTypes,
       DispatchPlaces, Finalising, Delivering, InCallback
  <2>4. QED
    BY <2>1, <2>2, <2>3 DEF Uses, Unclaimed
<1>2. InUse => NoUseAfterFree
  BY <1>1 DEF NoUseAfterFree
<1>3. QED
  BY <1>2, InUseAlways, PTL

-----------------------------------------------------------------------------
(* Who waits in a circle.                                                  *)

\* A map is locked over a step only by a shutdown of one of its objects.
MapLockOwners ==
    \A m \in Maps : mapLock[m] # NoThread =>
        pc[mapLock[m]] = "shutdown" /\ MapOf(arg[mapLock[m]]) = m

\* MapLockOwners is kept when a thread that is in no shutdown goes somewhere.
LEMMA GotoKeepsMapLockOwners ==
  ASSUME TypeOK, MapLockOwners, NEW t \in Threads, NEW place, NEW x,
         Goto(t, place, x), UNCHANGED mapLock, pc[t] # "shutdown"
  PROVE  MapLockOwners'
  BY DEF TypeOK, ObjectTypes, CallTypes, MapLockOwners, Goto, MapOf

\* MapLockOwners is kept when a shutdown locks the map.
LEMMA ShutdownFindKeepsMapLockOwners ==
  ASSUME TypeOK, MapLockOwners, NEW t \in Threads, ShutdownFind(t)
  PROVE  MapLockOwners'
<1>1. pc[t] = "find"
  BY DEF ShutdownFind
<1>2. CASE arg[t] \in map
  <2>1. /\ mapLock' = [mapLock EXCEPT ![MapOf(arg[t])] = t]
        /\ pc' = [pc EXCEPT ![t] = "shutdown"]
        /\ arg' = [arg EXCEPT ![t] = arg[t]]
    BY <1>2 DEF ShutdownFind, Goto
  <2>2. QED
    BY <1>1, <2>1 DEF TypeOK, ObjectTypes, CallTypes, MapLockOwners, MapOf
<1>3. CASE arg[t] \notin map
  BY <1>1, <1>3, GotoKeepsMapLockOwners DEF ShutdownFind, Return
<1>4. QED
  BY <1>2, <1>3

\* MapLockOwners is kept when a shutdown unlocks the map.
LEMMA StopMessagesKeepsMapLockOwners ==
  ASSUME TypeOK, MapLockOwners, NEW t \in Threads, StopMessages(t)
  PROVE  MapLockOwners'
<1>1. /\ pc[t] = "shutdown"
      /\ mapLock' = [mapLock EXCEPT ![MapOf(arg[t])] = NoThread]
      /\ pc' = [pc EXCEPT ![t] = "idle"]
      /\ arg' = [arg EXCEPT ![t] = None]
  BY DEF StopMessages, Return, Goto
<1>2. QED
  BY <1>1, ConstantsAssumption
  DEF TypeOK, ObjectTypes, CallTypes, MapLockOwners, MapOf

\* MapLockOwners is kept when any step is taken.
LEMMA NextKeepsMapLockOwners == TypeOK /\ MapLockOwners /\ [Next]_vars => MapLockOwners'
<1> SUFFICES ASSUME TypeOK, MapLockOwners, [Next]_vars PROVE MapLockOwners'
  OBVIOUS
<1>1. CASE UNCHANGED <<mapLock, pc, arg>>
  BY <1>1 DEF MapLockOwners, MapOf
<1>2. ASSUME NEW t \in Threads, Begin(t)
      PROVE  MapLockOwners'
  <2>1. /\ pc[t] = "idle"
        /\ UNCHANGED mapLock
        /\ UNCHANGED <<pc, arg>> \/ \E place, x : Goto(t, place, x)
    BY <1>2 DEF Begin, CanCall, AllocateInbox, AllocateSubscription, Allocate,
       DestroyInbox, DestroySubscription, Destroy, ShutdownInbox,
       ShutdownSubscription, Shutdown, DestroyAllEvents, ShutdownSession,
       mapVars, callVars
  <2>2. QED
    BY <1>1, <2>1, GotoKeepsMapLockOwners
<1>3. ASSUME NEW t \in Threads, CreateInsert(t) \/ DestroyRemove(t) \/ SweepMap(t)
      PROVE  MapLockOwners'
  <2>1. /\ pc[t] # "shutdown"
        /\ UNCHANGED mapLock
        /\ \E place, x : Goto(t, place, x)
    BY <1>3 DEF CreateInsert, DestroyRemove, SweepMap, NextMap, Return
  <2>2. QED
    BY <2>1, GotoKeepsMapLockOwners
<1>4. ASSUME NEW t \in Threads, Continue(t), ~StopInbox(t), ~StopSubscription(t)
      PROVE  MapLockOwners'
  <2>1. /\ pc[t] # "shutdown"
        /\ UNCHANGED mapLock
        /\ \E place, x : Goto(t, place, x)
    BY <1>4 DEF Continue, CreateInbox, CreateSubscription, MamaCreates,
       CreateInboxFails, CreateSubscriptionFails, CreationFails, CreateReturn,
       ClearInbox, ClearSubscription, Clear, DestroyEnqueue, NextMap,
       SweepInbox, SweepSubscription, SweepTo, Return, mapVars
  <2>2. QED
    BY <2>1, GotoKeepsMapLockOwners
<1>5. ASSUME NEW s \in Sessions,
             \/ Traffic(s) \/ Serve(s) \/ CallbackReturn(s)
             \/ \E x \in Objects : FinaliseBegin(s, x) \/ OnDestroy(s, x)
      PROVE  UNCHANGED <<mapLock, pc, arg>>
  BY <1>5 DEF Traffic, OnErrorCallback, OnMessageCallback, OnCreateBasic,
     OnErrorBasic, OnMsgBasic, Deliver, Serve, CallbackLock, OnInboxDestroy,
     OnSubscriptionDestroy, CallbackReturn, FinaliseBegin, OnDestroy, mapVars,
     callVars
<1>6. QED
  BY <1>1, <1>2, <1>3, <1>4, <1>5, ShutdownFindKeepsMapLockOwners,
     StopMessagesKeepsMapLockOwners
  DEF Next, WaitMap, StopInbox, StopSubscription, vars

\* Who waits is in a call, and waits for the dispatcher of the call's object, or
\* for another thread's shutdown.
LEMMA WhoWaits ==
  ASSUME Custody, MapLockOwners, NEW t \in Threads, WaitsFor(t) # NoThread
  PROVE  /\ pc[t] # "idle"
         /\ WaitsFor(t) # t
         /\ \/ pc[t] \in {"clear", "shutdown"} /\ WaitsFor(t) \in Sessions
            \/ pc[t] # "shutdown" /\ pc[WaitsFor(t)] = "shutdown"
<1>1. TypeOK
  BY DEF Custody
<1>2. WaitsFor(t) # t
  BY DEF WaitsFor
<1>3. \A x \in Objects : MapOf(x) \in Maps /\ Home[x] \in Sessions
  BY ConstantsAssumption DEF MapOf, Maps
<1>4. ~(t \in Sessions /\ pc[t] = "idle")
  <2> SUFFICES ASSUME t \in Sessions, pc[t] = "idle" PROVE FALSE
    OBVIOUS
  <2>1. dpc[t] \in DispatchPlaces /\ (dpc[t] # "idle" => dobj[t] \in Objects /\ Home[dobj[t]] = t)
    BY <1>1 DEF TypeOK, DispatchTypes
  <2>2. dpc[t] # "idle" => lock[dobj[t]].owner \in {t, NoThread}
    BY <2>1 DEF Custody, LockCustody
  <2>3. QED
    BY <2>1, <2>2 DEF WaitsFor, DispatchPlaces
<1>5. CASE pc[t] \in {"insert", "remove", "find"}
  <2>1. arg[t] \in Objects
    BY <1>1, <1>5 DEF TypeOK, CallTypes, ObjectPlaces, CreatePlaces
  <2>2. WaitsFor(t) = mapLock[MapOf(arg[t])]
    BY <1>4, <1>5 DEF WaitsFor
  <2>3. QED
    BY <1>2, <1>3, <1>5, <2>1, <2>2 DEF MapLockOwners
<1>6. CASE pc[t] = "removeAll"
  <2>1. sweeping[t] \in Maps
    BY <1>1, <1>6 DEF TypeOK, CallTypes
  <2>2. WaitsFor(t) = mapLock[sweeping[t]]
    BY <1>4, <1>6 DEF WaitsFor
  <2>3. QED
    BY <1>2, <1>6, <2>1, <2>2 DEF MapLockOwners
<1>7. CASE pc[t] \in {"clear", "shutdown"}
  <2>1. arg[t] \in Objects
    BY <1>1, <1>7 DEF TypeOK, CallTypes, ObjectPlaces, DestroyPlaces
  <2>2. WaitsFor(t) = lock[arg[t]].owner
    BY <1>4, <1>7 DEF WaitsFor
  <2>3. QED
    BY <1>2, <1>3, <1>7, <2>1, <2>2 DEF Custody, LockCustody
<1>8. CASE pc[t] \in {"idle", "create", "publish", "enqueue", "sweep"}
  BY <1>4, <1>8 DEF WaitsFor
<1>9. pc[t] \in CallPlaces
  BY <1>1 DEF TypeOK, CallTypes
<1>10. QED
  BY <1>5, <1>6, <1>7, <1>8, <1>9
  DEF CallPlaces, ObjectPlaces, CreatePlaces, DestroyPlaces

\* Whatever races and whatever fails, and for any number of sessions and threads,
\* all of which may make any call: threads that wait in a circle are a shutdown and
\* the callback it waits for, or are among callbacks of two sessions.
THEOREM OnlyShutdownDeadlocksAlways == Spec => []OnlyShutdownDeadlocks
<1>1. Init => MapLockOwners
  BY DEF Init, MapLockOwners
<1>2. Custody /\ MapLockOwners /\ [Next]_vars => MapLockOwners'
  BY NextKeepsMapLockOwners DEF Custody
<1>3. Custody /\ MapLockOwners => OnlyShutdownDeadlocks
  <2> SUFFICES ASSUME Custody, MapLockOwners,
                      NEW S \in SUBSET Threads, S # {}, \A t \in S : WaitsFor(t) \in S
               PROVE  \/ \E t \in S, d \in S \cap Sessions :
                           pc[t] = "shutdown" /\ WaitsFor(t) = d /\ WaitsFor(d) = t
                      \/ \E d, e \in S \cap Sessions :
                           d # e /\ pc[d] # "idle" /\ pc[e] # "idle"
    BY DEF OnlyShutdownDeadlocks
  <2>1. \A t \in S : /\ pc[t] # "idle" /\ WaitsFor(t) \in S /\ WaitsFor(t) # t
                    /\ \/ pc[t] \in {"clear", "shutdown"} /\ WaitsFor(t) \in Sessions
                       \/ pc[t] # "shutdown" /\ pc[WaitsFor(t)] = "shutdown"
    BY WhoWaits, ConstantsAssumption
  <2>2. PICK d \in S : d \in Sessions
    BY <2>1
  <2>3. CASE WaitsFor(d) \in Sessions
    BY <2>1, <2>2, <2>3
  <2>4. CASE pc[WaitsFor(d)] = "shutdown"
    <3>1. WaitsFor(WaitsFor(d)) \in S \cap Sessions
      BY <2>1, <2>2, <2>4
    <3>2. QED
      BY <2>1, <2>2, <2>4, <3>1
  <2>5. QED
    BY <2>1, <2>2, <2>3, <2>4
<1>4. QED
  BY <1>1, <1>2, <1>3, CustodyAlways, PTL DEF Spec

-----------------------------------------------------------------------------
(***************************************************************************)
(* Inboxes and subscriptions implement EventObject, whatever threads and   *)
(* sessions there are, when creation is not raced (Quiet): each step of    *)
(* MmeReceiver is one step of EventObject, or none.                        *)
(***************************************************************************)

\* What EventObject sees of the state.
Silenced(x) == "message" \in silenced[x]

W == <<[x \in Objects |-> Stage(x)], [x \in Objects |-> Receives(x)],
       [x \in Objects |-> Running(x)], [x \in Objects |-> Silenced(x)]>>

StageKept   == \A x \in Objects : Stage(x)' = Stage(x)
EnabledKept == \A x \in Objects : Receives(x)' <=> Receives(x)
RunningKept == \A x \in Objects : Running(x)' <=> Running(x)
QuietKept   == \A x \in Objects : Silenced(x)' <=> Silenced(x)

\* What is enabled is a function of EventObject, kept with EnabledKept.
LEMMA EnabledFunction ==
  ASSUME EnabledKept
  PROVE  [x \in Objects |-> Receives(x)]' = [x \in Objects |-> Receives(x)]
  BY DEF EnabledKept, Receives

\* And what is running.
LEMMA RunningFunction ==
  ASSUME RunningKept
  PROVE  [x \in Objects |-> Running(x)]' = [x \in Objects |-> Running(x)]
  BY DEF RunningKept, Running

\* And what is quiet.
LEMMA QuietFunction ==
  ASSUME QuietKept
  PROVE  [x \in Objects |-> Silenced(x)]' = [x \in Objects |-> Silenced(x)]
  BY DEF QuietKept, Silenced

\* A step that keeps all four is none of EventObject's.
LEMMA AllKeptStutters ==
  ASSUME StageKept, EnabledKept, RunningKept, QuietKept
  PROVE  W' = W
  BY EnabledFunction, RunningFunction, QuietFunction DEF StageKept, W

\* A step that changes only the stage of an object.
LEMMA OnlyStageChanges ==
  ASSUME NEW x \in Objects, NEW v, EnabledKept, RunningKept, QuietKept,
         \A y \in Objects : Stage(y)' = IF y = x THEN v ELSE Stage(y)
  PROVE  /\ Stage(x) = "absent" /\ v = "gone" => Abstract!CreateFails(x)
         /\ Stage(x) = "claimed" /\ v = "gone" /\ ~Receives(x) /\ ~Running(x)
              => Abstract!Free(x)
<1>1. [y \in Objects |-> Stage(y)]' = [[y \in Objects |-> Stage(y)] EXCEPT ![x] = v]
  OBVIOUS
<1>2. QED
  BY <1>1, EnabledFunction, RunningFunction, QuietFunction
  DEF Abstract!CreateFails, Abstract!Free, Silenced

\* An object becomes quiet, or not.
LEMMA QuietChanges ==
  ASSUME NEW x \in Objects, NEW b \in BOOLEAN, Silenced(x)' <=> b,
         \A y \in Objects : y # x => (Silenced(y)' <=> Silenced(y))
  PROVE  [y \in Objects |-> Silenced(y)]' = [[y \in Objects |-> Silenced(y)] EXCEPT ![x] = b]
<1> DEFINE F == [y \in Objects |-> Silenced(y)]'
           G == [[y \in Objects |-> Silenced(y)] EXCEPT ![x] = b]
<1>1. \A y \in Objects : F[y] = G[y]
  <2> SUFFICES ASSUME NEW y \in Objects PROVE F[y] = G[y]
    OBVIOUS
  <2>1. CASE y = x
    BY <2>1 DEF Silenced
  <2>2. CASE y # x
    <3>1. Silenced(y)' <=> Silenced(y)
      BY <2>2
    <3>2. QED
      BY <2>2, <3>1 DEF Silenced
  <2>3. QED
    BY <2>1, <2>2
<1>2. QED
  BY <1>1

\* A step that changes only which callbacks may run.
LEMMA OnlyEnabledChanges ==
  ASSUME NEW x \in Objects, StageKept, RunningKept,
         \A y \in Objects : Receives(y)' <=> (Receives(y) /\ y # x)
  PROVE  /\ /\ Stage(x) \in {"live", "claimed"} /\ ~Running(x)
            /\ \A y \in Objects : Silenced(y)' <=> (Silenced(y) \/ y = x)
            => Abstract!Silence(x)
         /\ Running(x) /\ QuietKept => Abstract!SilenceSelf(x)
<1> DEFINE stage   == [y \in Objects |-> Stage(y)]
           enabled == [y \in Objects |-> Receives(y)]
           quiet   == [y \in Objects |-> Silenced(y)]
<1>1. stage' = stage
  BY DEF StageKept
<1>2. enabled' = [enabled EXCEPT ![x] = FALSE]
  BY DEF Receives
<1>3. CASE \A y \in Objects : Silenced(y)' <=> (Silenced(y) \/ y = x)
  <2>1. quiet' = [quiet EXCEPT ![x] = TRUE]
    BY <1>3, QuietChanges
  <2>2. QED
    BY <1>1, <1>2, <2>1, RunningFunction, QuietFunction
    DEF Abstract!Silence, Abstract!SilenceSelf, Abstract!Exists, Silenced
<1>4. CASE ~(\A y \in Objects : Silenced(y)' <=> (Silenced(y) \/ y = x))
  BY <1>1, <1>2, <1>4, RunningFunction, QuietFunction DEF Abstract!SilenceSelf,
     Silenced
<1>5. QED
  BY <1>3, <1>4

-----------------------------------------------------------------------------
\* The steps of the calls that no other thread sees.
LEMMA CallStepStutters ==
  ASSUME NEW t, UNCHANGED <<phase, callbacks, map, dpc, dobj, dkind, silenced>>,
         \A u \in Threads : u # t => pc'[u] = pc[u] /\ arg'[u] = arg[u],
         pc[t] # "insert", pc'[t] # "insert"
  PROVE  W' = W
<1>1. \A x \in Objects : (\E u \in Threads : pc'[u] = "insert" /\ arg'[u] = x)
                           <=> (\E u \in Threads : pc[u] = "insert" /\ arg[u] = x)
  OBVIOUS
<1>2. StageKept
  BY <1>1 DEF StageKept, Stage
<1>3. EnabledKept /\ RunningKept /\ QuietKept
  BY DEF EnabledKept, RunningKept, QuietKept, Receives, Running, InCallback,
     Silenced
<1>4. QED
  BY <1>2, <1>3, AllKeptStutters

\* The wrapper is returned to the caller.
LEMMA CreateReturnStutters ==
  ASSUME InUse, NEW t \in Threads, CreateReturn(t)
  PROVE  W' = W
  BY CallStepStutters DEF CreateReturn, Return, Goto, InUse, Custody, TypeOK,
     CallTypes, mapVars, dispVars

\* A destruction begins.
LEMMA DestroyStutters ==
  ASSUME InUse, NEW t \in Threads, NEW x \in Objects, Destroy(t, x)
  PROVE  W' = W
  BY CallStepStutters DEF Destroy, CanCall, Goto, InUse, Custody, TypeOK,
     CallTypes, mapVars, dispVars, histVars

\* The destroy event is put into the queue, or lost.
LEMMA DestroyEnqueueStutters ==
  ASSUME InUse, NEW t \in Threads, pc[t] = "enqueue", DestroyEnqueue(t)
  PROVE  W' = W
<1>1. pc'[t] # "insert" /\ \A u \in Threads : u # t => pc'[u] = pc[u] /\ arg'[u] = arg[u]
  BY DEF DestroyEnqueue, NextMap, Return, Goto, InUse, Custody, TypeOK,
     CallTypes
<1>2. QED
  BY <1>1, CallStepStutters DEF DestroyEnqueue, mapVars, dispVars, histVars

\* A shutdown begins.
LEMMA ShutdownStutters ==
  ASSUME InUse, NEW t \in Threads, NEW x \in Objects, Shutdown(t, x)
  PROVE  W' = W
  BY CallStepStutters DEF Shutdown, CanCall, Goto, InUse, Custody, TypeOK,
     CallTypes, mapVars, dispVars, histVars

\* A shutdown looks for its object.
LEMMA ShutdownFindStutters ==
  ASSUME InUse, NEW t \in Threads, ShutdownFind(t)
  PROVE  W' = W
  BY CallStepStutters DEF ShutdownFind, Return, Goto, InUse, Custody, TypeOK,
     CallTypes, dispVars, histVars

\* The destruction of a session begins.
LEMMA DestroyAllEventsStutters ==
  ASSUME InUse, NEW t \in Threads, NEW s \in Sessions, DestroyAllEvents(t, s)
  PROVE  W' = W
  BY CallStepStutters DEF DestroyAllEvents, CanCall, Goto, InUse, Custody,
     TypeOK, CallTypes, mapVars, dispVars

\* A sweep goes on with the next of its objects.
LEMMA SweepToStutters ==
  ASSUME InUse, NEW t \in Threads, NEW x \in Objects, SweepTo(t, x)
  PROVE  W' = W
  BY CallStepStutters DEF SweepTo, Goto, InUse, Custody, TypeOK, CallTypes,
     mapVars, dispVars, histVars

\* A queue is deactivated.
LEMMA ShutdownSessionStutters ==
  ASSUME InUse, NEW t \in Threads, NEW s \in Sessions, ShutdownSession(t, s)
  PROVE  W' = W
  BY CallStepStutters DEF ShutdownSession, CanCall, InUse, Custody, TypeOK,
     CallTypes, mapVars, callVars, dispVars, histVars

\* The dispatcher of s turns to an object, without calling it back yet.
LEMMA DispatchStutters ==
  ASSUME InUse, NEW s \in Sessions, NEW place \in {"callbackLock", "finalLock", "idle"},
         NEW x, NEW kind, Dispatch(s, place, x, kind), dpc[s] # "callback",
         UNCHANGED <<phase, callbacks, map, pc, arg, silenced>>
  PROVE  W' = W
<1>1. \A y \in Objects : InCallback(y)' <=> InCallback(y)
  BY ConstantsAssumption DEF Dispatch, InCallback, InUse, Custody, TypeOK,
     DispatchTypes, Objects
<1>2. \A y \in Objects : InCallback(y) => dkind'[Home[y]] = dkind[Home[y]]
  BY ConstantsAssumption DEF Dispatch, InCallback, InUse, Custody, TypeOK,
     DispatchTypes, Objects
<1>3. RunningKept
  BY <1>1, <1>2 DEF RunningKept, Running
<1>4. StageKept /\ EnabledKept /\ QuietKept
  BY DEF StageKept, EnabledKept, QuietKept, Stage, Receives, Silenced
<1>5. QED
  BY <1>3, <1>4, AllKeptStutters

-----------------------------------------------------------------------------
(* Creation.                                                               *)

\* An object that is being created has no message callback to run yet, and one
\* for which there is no memory is gone at once.
LEMMA AllocateRefines ==
  ASSUME InUse, NEW t \in Threads, NEW x \in Objects, NEW kinds, Allocate(t, x, kinds)
  PROVE  Abstract!CreateFails(x) \/ W' = W
<1>1. /\ phase[x] = "none" /\ phase' \in [Objects -> Phases]
      /\ \A y \in Objects : y # x => phase'[y] = phase[y] /\ callbacks'[y] = callbacks[y]
  BY DEF Allocate, InUse, Custody, TypeOK, ObjectTypes, Phases
<1>2. \A y \in Objects : (\E u \in Threads : pc'[u] = "insert" /\ arg'[u] = y)
                           <=> (\E u \in Threads : pc[u] = "insert" /\ arg[u] = y)
  BY DEF Allocate, CanCall, Goto, InUse, Custody, TypeOK, CallTypes
<1>3. EnabledKept /\ RunningKept /\ QuietKept
  BY <1>1 DEF Allocate, EnabledKept, RunningKept, QuietKept, Receives, Running,
     InCallback, Silenced, dispVars, histVars, InUse, Custody, TypeOK,
     ObjectTypes
<1>4. map' = map
  BY DEF Allocate, mapVars
<1>5. CASE phase'[x] = "allocated"
  <2>1. StageKept
    BY <1>1, <1>2, <1>4, <1>5 DEF StageKept, Stage
  <2>2. QED
    BY <1>3, <2>1, AllKeptStutters
<1>6. CASE phase'[x] = "freed"
  <2>1. Stage(x) = "absent" /\ Stage(x)' = "gone"
    BY <1>1, <1>6 DEF Stage
  <2>2. \A y \in Objects : y # x => Stage(y)' = Stage(y)
    BY <1>1, <1>2, <1>4 DEF Stage
  <2>3. QED
    BY <1>3, <2>1, <2>2, OnlyStageChanges
<1>7. QED
  BY <1>5, <1>6 DEF Allocate, InUse, Custody, TypeOK, ObjectTypes

\* A step that only moves one object to another phase, when no sweep or insertion
\* is about it.
LEMMA PhaseStep ==
  ASSUME InUse, NEW x \in Objects, NEW p \in Phases, phase' = [phase EXCEPT ![x] = p],
         NEW t, \A u \in Threads : u # t => pc'[u] = pc[u] /\ arg'[u] = arg[u],
         pc[t] = "insert" => arg[t] = x, pc'[t] = "insert" => arg'[t] = x,
         UNCHANGED map
  PROVE  \A y \in Objects : y # x => Stage(y)' = Stage(y)
<1> SUFFICES ASSUME NEW y \in Objects, y # x PROVE Stage(y)' = Stage(y)
  OBVIOUS
<1>1. phase'[y] = phase[y]
  BY DEF InUse, Custody, TypeOK, ObjectTypes
<1>2. (\E u \in Threads : pc'[u] = "insert" /\ arg'[u] = y)
        <=> (\E u \in Threads : pc[u] = "insert" /\ arg[u] = y)
  OBVIOUS
<1>3. QED
  BY <1>1, <1>2 DEF Stage

\* MAMA begins to call back.
LEMMA MamaCreatesRefines ==
  ASSUME InUse, NEW t \in Threads, MamaCreates(t)
  PROVE  \E x \in Objects : Abstract!Create(x)
<1> PICK x \in Objects : x = arg[t]
  BY DEF MamaCreates, InUse, Custody, TypeOK, CallTypes, ObjectPlaces,
     CreatePlaces
<1>1. x \in Objects /\ phase[x] = "allocated" /\ "message" \in callbacks[x]
  BY DEF MamaCreates, InUse, Custody, TypeOK, CallTypes, ObjectPlaces,
     CreatePlaces, InUseIsOpen, CallbackStages
<1>2. phase' = [phase EXCEPT ![x] = "open"] /\ pc'[t] = "insert" /\ arg'[t] = x
  BY DEF MamaCreates, Goto, InUse, Custody, TypeOK, CallTypes
<1>3. \A u \in Threads : u # t => pc'[u] = pc[u] /\ arg'[u] = arg[u]
  BY DEF MamaCreates, Goto, InUse, Custody, TypeOK, CallTypes
<1>4. UNCHANGED <<map, callbacks, dpc, dobj, dkind, silenced>> /\ pc[t] = "create"
  BY DEF MamaCreates, mapVars, dispVars, histVars
<1>5. Stage(x) = "absent" /\ Stage(x)' = "live"
  BY <1>1, <1>2 DEF Stage, InUse, Custody, TypeOK, ObjectTypes
<1>6. \A y \in Objects : y # x => Stage(y)' = Stage(y)
  BY <1>1, <1>2, <1>3, <1>4, PhaseStep DEF Phases
<1>7. \A y \in Objects : Receives(y)' <=> (Receives(y) \/ y = x)
  BY <1>1, <1>2, <1>4 DEF Receives, InUse, Custody, TypeOK, ObjectTypes
<1>8. RunningKept /\ QuietKept
  BY <1>4 DEF RunningKept, QuietKept, Running, InCallback, Silenced
<1>9. [y \in Objects |-> Stage(y)]' = [[y \in Objects |-> Stage(y)] EXCEPT ![x] = "live"]
  BY <1>5, <1>6
<1>10. [y \in Objects |-> Receives(y)]' = [[y \in Objects |-> Receives(y)] EXCEPT ![x] = TRUE]
  BY <1>7 DEF Receives
<1>11. Abstract!Create(x)
  BY <1>1, <1>5, <1>8, <1>9, <1>10, RunningFunction, QuietFunction
  DEF Abstract!Create, Silenced
<1>12. QED
  BY <1>1, <1>11

\* The insertion into the map is not seen: the object is live before and after.
LEMMA CreateInsertStutters ==
  ASSUME InUse, NEW t \in Threads, CreateInsert(t)
  PROVE  W' = W
<1>1. arg[t] \in Objects /\ phase[arg[t]] = "open"
  BY DEF CreateInsert, InUse, Custody, TypeOK, CallTypes, ObjectPlaces,
     CreatePlaces, InUseIsOpen
<1>2. \A u \in Threads : u # t => pc'[u] = pc[u] /\ arg'[u] = arg[u]
  BY DEF CreateInsert, Goto, InUse, Custody, TypeOK, CallTypes
<1>3. pc[t] = "insert" /\ pc'[t] # "insert" /\ map' = map \cup {arg[t]}
  BY DEF CreateInsert, Goto, InUse, Custody, TypeOK, CallTypes
<1>4. \A y \in Objects :
        (y \in map' \/ \E u \in Threads : pc'[u] = "insert" /\ arg'[u] = y)
          <=> (y \in map \/ \E u \in Threads : pc[u] = "insert" /\ arg[u] = y)
  BY <1>2, <1>3
<1>5. StageKept
  BY <1>4 DEF StageKept, Stage, CreateInsert
<1>6. EnabledKept /\ RunningKept /\ QuietKept
  BY DEF CreateInsert, EnabledKept, RunningKept, QuietKept, Receives, Running,
     InCallback, Silenced, dispVars, histVars
<1>7. QED
  BY <1>5, <1>6, AllKeptStutters

\* MAMA does not create the object: it is gone, or waits for MAMA's report and
\* has been absent all the time.
LEMMA CreationFailsRefines ==
  ASSUME Quiet, InUse, NEW t \in Threads,
         CreateInboxFails(t) \/ CreateSubscriptionFails(t)
  PROVE  (\E x \in Objects : Abstract!CreateFails(x)) \/ W' = W
<1>1. pc[t] = "create"
  BY DEF Quiet, CreateInboxFails, CreateSubscriptionFails, CreationFails
<1> PICK x \in Objects : x = arg[t]
  BY <1>1 DEF InUse, Custody, TypeOK, CallTypes, ObjectPlaces, CreatePlaces
<1>2. x \in Objects /\ phase[x] = "allocated"
  BY <1>1 DEF InUse, Custody, TypeOK, CallTypes, ObjectPlaces, CreatePlaces,
     InUseIsOpen
<1>3. PICK p \in {"freed", "abandoned"} : phase' = [phase EXCEPT ![x] = p]
  BY <1>1 DEF CreateInboxFails, CreateSubscriptionFails
<1>4. pc'[t] # "insert" /\ \A u \in Threads : u # t => pc'[u] = pc[u] /\ arg'[u] = arg[u]
  BY DEF CreateInboxFails, CreateSubscriptionFails, Return, Goto, InUse,
     Custody, TypeOK, CallTypes
<1>5. UNCHANGED <<map, callbacks, dpc, dobj, dkind, silenced>>
  BY DEF CreateInboxFails, CreateSubscriptionFails, mapVars, dispVars, histVars
<1>6. \A y \in Objects : y # x => Stage(y)' = Stage(y)
  BY <1>1, <1>2, <1>3, <1>4, <1>5, PhaseStep DEF Phases
<1>7. EnabledKept /\ RunningKept /\ QuietKept
  BY <1>2, <1>3, <1>5 DEF EnabledKept, RunningKept, QuietKept, Receives,
     Running, InCallback, Silenced, InUse, Custody, TypeOK, ObjectTypes
<1>8. Stage(x) = "absent"
  BY <1>2 DEF Stage
<1>9. Stage(x)' = IF p = "freed" THEN "gone" ELSE "absent"
  BY <1>2, <1>3 DEF Stage, InUse, Custody, TypeOK, ObjectTypes
<1>10. CASE p = "freed"
  <2>1. \A y \in Objects : Stage(y)' = IF y = x THEN "gone" ELSE Stage(y)
    BY <1>6, <1>9, <1>10
  <2>2. Abstract!CreateFails(x)
    BY <1>2, <1>7, <1>8, <2>1, OnlyStageChanges
  <2>3. QED
    BY <1>2, <2>2
<1>11. CASE p = "abandoned"
  <2>1. StageKept
    BY <1>6, <1>8, <1>9, <1>11 DEF StageKept
  <2>2. QED
    BY <1>7, <2>1, AllKeptStutters
<1>12. QED
  BY <1>10, <1>11

-----------------------------------------------------------------------------
(* Destruction and shutdown.                                               *)

\* Objects that leave their map, none of which is being created, are claimed.
LEMMA MapStep ==
  ASSUME InUse, NEW S \in SUBSET map, map' = map \ S, UNCHANGED phase,
         \A y \in Objects : (\E u \in Threads : pc'[u] = "insert" /\ arg'[u] = y)
                              <=> (\E u \in Threads : pc[u] = "insert" /\ arg[u] = y),
         EnabledKept, RunningKept, QuietKept
  PROVE  (\E C \in SUBSET Objects : Abstract!Claim(C)) \/ W' = W
<1>1. S \subseteq Objects
  BY DEF InUse, Custody, TypeOK, ObjectTypes
<1>2. \A y \in S : /\ phase[y] = "open"
                   /\ ~(\E u \in Threads : pc[u] = "insert" /\ arg[u] = y)
  BY <1>1 DEF InUse, InUseIsOpen, Custody, CreateCustody, Creating
<1>3. \A y \in S : Stage(y) = "live" /\ Stage(y)' = "claimed"
  <2> SUFFICES ASSUME NEW y \in S PROVE Stage(y) = "live" /\ Stage(y)' = "claimed"
    OBVIOUS
  <2>1. phase[y] = "open" /\ phase'[y] = "open" /\ y \in Objects /\ y \in map /\ y \notin map'
    BY <1>1, <1>2
  <2>2. ~(\E u \in Threads : pc'[u] = "insert" /\ arg'[u] = y)
    BY <1>1, <1>2
  <2>3. QED
    BY <2>1, <2>2 DEF Stage
<1>4. \A y \in Objects : y \notin S => Stage(y)' = Stage(y)
  BY DEF Stage
<1>5. CASE S = {}
  <2>1. StageKept
    BY <1>4, <1>5 DEF StageKept
  <2>2. QED
    BY <2>1, AllKeptStutters
<1>6. CASE S # {}
  <2>1. [y \in Objects |-> Stage(y)]'
          = [y \in Objects |-> IF y \in S THEN "claimed" ELSE [z \in Objects |-> Stage(z)][y]]
    BY <1>3, <1>4
  <2>2. Abstract!Claim(S)
    BY <1>1, <1>3, <1>6, <2>1, EnabledFunction, RunningFunction, QuietFunction
    DEF Abstract!Claim, Silenced
  <2>3. QED
    BY <1>1, <2>2
<1>7. QED
  BY <1>5, <1>6

\* The caller of remove that gets the object claims it.
LEMMA DestroyRemoveRefines ==
  ASSUME InUse, NEW t \in Threads, DestroyRemove(t)
  PROVE  (\E C \in SUBSET Objects : Abstract!Claim(C)) \/ W' = W
<1> DEFINE S == map \cap {arg[t]}
<1>1. map' = map \ S /\ phase' = phase
  BY DEF DestroyRemove
<1>2. \A y \in Objects : (\E u \in Threads : pc'[u] = "insert" /\ arg'[u] = y)
                           <=> (\E u \in Threads : pc[u] = "insert" /\ arg[u] = y)
  BY DEF DestroyRemove, Return, Goto, InUse, Custody, TypeOK, CallTypes
<1>3. EnabledKept /\ RunningKept /\ QuietKept
  BY DEF DestroyRemove, EnabledKept, RunningKept, QuietKept, Receives, Running,
     InCallback, Silenced, dispVars, histVars
<1>4. S \in SUBSET map
  OBVIOUS
<1> HIDE DEF S
<1>5. QED
  BY <1>1, <1>2, <1>3, <1>4, MapStep

\* A sweep claims all the objects of its map.
LEMMA SweepMapRefines ==
  ASSUME InUse, NEW t \in Threads, SweepMap(t)
  PROVE  (\E C \in SUBSET Objects : Abstract!Claim(C)) \/ W' = W
<1> DEFINE S == Contents(sweeping[t])
<1>1. map' = map \ S /\ phase' = phase
  BY DEF SweepMap
<1>2. \A y \in Objects : (\E u \in Threads : pc'[u] = "insert" /\ arg'[u] = y)
                           <=> (\E u \in Threads : pc[u] = "insert" /\ arg[u] = y)
  <2>1. pc[t] # "insert" /\ pc'[t] # "insert"
    BY DEF SweepMap, NextMap, Return, Goto, InUse, Custody, TypeOK, CallTypes
  <2>2. \A u \in Threads : u # t => pc'[u] = pc[u] /\ arg'[u] = arg[u]
    BY DEF SweepMap, NextMap, Return, Goto, InUse, Custody, TypeOK, CallTypes
  <2>3. QED
    BY <2>1, <2>2
<1>3. EnabledKept /\ RunningKept /\ QuietKept
  BY DEF SweepMap, EnabledKept, RunningKept, QuietKept, Receives, Running,
     InCallback, Silenced, dispVars, histVars
<1>4. S \in SUBSET map
  BY DEF Contents
<1> HIDE DEF S
<1>5. QED
  BY <1>1, <1>2, <1>3, <1>4, MapStep

\* A thread that silences an open object is the dispatcher that runs its message
\* callback, or holds m_lock, so that nobody runs it.
LEMMA SilenceStep ==
  ASSUME InUse, NEW t \in Threads, NEW x \in Objects, NEW K \in SUBSET Kinds, "message" \in K,
         phase[x] = "open", CanLock(lock[x], t), Silence(t, x, K),
         UNCHANGED <<phase, map, dpc, dobj, dkind>>,
         pc[t] \notin {"idle", "insert"}, pc'[t] # "insert",
         \A u \in Threads : u # t => pc'[u] = pc[u] /\ arg'[u] = arg[u]
  PROVE  Abstract!Silence(x) \/ Abstract!SilenceSelf(x)
<1>1. StageKept
  <2>1. \A y \in Objects : (\E u \in Threads : pc'[u] = "insert" /\ arg'[u] = y)
                             <=> (\E u \in Threads : pc[u] = "insert" /\ arg[u] = y)
    OBVIOUS
  <2>2. QED
    BY <2>1 DEF StageKept, Stage
<1>2. RunningKept
  BY DEF RunningKept, Running, InCallback
<1>3. \A y \in Objects : Receives(y)' <=> (Receives(y) /\ y # x)
  BY DEF Silence, Receives, InUse, Custody, TypeOK, ObjectTypes
<1>4. CASE t \in Sessions /\ dobj[t] = x /\ dkind[t] = "message"
  <2>1. Running(x)
    BY <1>4 DEF Running, InCallback, InUse, Custody, CallCustody, TypeOK,
       DispatchTypes
  <2>2. QuietKept
    BY <1>4 DEF Silence, QuietKept, Silenced, InUse, Custody, TypeOK,
       ObjectTypes
  <2>3. QED
    BY <1>1, <1>2, <1>3, <2>1, <2>2, OnlyEnabledChanges
<1>5. CASE ~(t \in Sessions /\ dobj[t] = x /\ dkind[t] = "message")
  <2>1. \A y \in Objects : Silenced(y)' <=> (Silenced(y) \/ y = x)
    BY <1>5 DEF Silence, Silenced, InUse, Custody, TypeOK, ObjectTypes
  <2>2. ~Running(x)
    <3> SUFFICES ASSUME Running(x) PROVE FALSE
      OBVIOUS
    <3>1. lock[x].owner = Home[x] /\ Home[x] \in Sessions
      BY ConstantsAssumption DEF Running, InUse, Custody, LockCustody
    <3>2. t = Home[x]
      BY <3>1, ConstantsAssumption DEF CanLock, Threads
    <3>3. QED
      BY <1>5, <3>1, <3>2 DEF Running, InCallback
  <2>3. Stage(x) \in {"live", "claimed"}
    BY DEF Stage
  <2>4. QED
    BY <1>1, <1>2, <1>3, <2>1, <2>2, <2>3, OnlyEnabledChanges
<1>6. QED
  BY <1>4, <1>5
\* All callbacks are cleared.
LEMMA ClearRefines ==
  ASSUME InUse, NEW t \in Threads, Clear(t)
  PROVE  \E x \in Objects : Abstract!Silence(x) \/ Abstract!SilenceSelf(x)
<1> PICK x \in Objects : x = arg[t]
  BY DEF Clear, InUse, Custody, TypeOK, CallTypes, ObjectPlaces, DestroyPlaces
<1>1. phase[x] = "open"
  BY DEF Clear, InUse, InUseIsOpen, Custody, CallCustody, Unclaimed,
     DestroyPlaces
<1>2. /\ CanLock(lock[x], t) /\ Silence(t, x, Kinds)
      /\ UNCHANGED <<phase, map, dpc, dobj, dkind>>
  BY DEF Clear, mapVars, dispVars
<1>3. /\ pc[t] = "clear" /\ pc'[t] = "enqueue"
      /\ \A u \in Threads : u # t => pc'[u] = pc[u] /\ arg'[u] = arg[u]
  BY DEF Clear, Goto, InUse, Custody, TypeOK, CallTypes
<1>4. "message" \in Kinds
  BY DEF Kinds
<1>5. QED
  BY <1>1, <1>2, <1>3, <1>4, SilenceStep

\* The message callback is cleared.
LEMMA StopMessagesRefines ==
  ASSUME InUse, NEW t \in Threads, StopMessages(t)
  PROVE  \E x \in Objects : Abstract!Silence(x) \/ Abstract!SilenceSelf(x)
<1> PICK x \in Objects : x = arg[t]
  BY DEF StopMessages, InUse, Custody, TypeOK, CallTypes, ObjectPlaces
<1>1. phase[x] = "open"
  BY DEF StopMessages, InUse, InUseIsOpen, ShutdownPins
<1>2. /\ CanLock(lock[x], t) /\ Silence(t, x, {"message"})
      /\ UNCHANGED <<phase, map, dpc, dobj, dkind>>
  BY DEF StopMessages, dispVars
<1>3. /\ pc[t] = "shutdown" /\ pc'[t] = "idle"
      /\ \A u \in Threads : u # t => pc'[u] = pc[u] /\ arg'[u] = arg[u]
  BY DEF StopMessages, Return, Goto, InUse, Custody, TypeOK, CallTypes
<1>4. {"message"} \subseteq Kinds
  BY DEF Kinds
<1>5. QED
  BY <1>1, <1>2, <1>3, <1>4, SilenceStep

-----------------------------------------------------------------------------
(* The dispatcher.                                                         *)

\* What is being called back, or finalised, or was reported, turns to one object.
LEMMA OtherRunning ==
  ASSUME InUse, NEW s \in Sessions, NEW place, NEW y, NEW kind, Dispatch(s, place, y, kind)
  PROVE  \A x \in Objects : Home[x] # s => (Running(x)' <=> Running(x))
  BY ConstantsAssumption DEF Dispatch, Running, InCallback, InUse, Custody,
     TypeOK, DispatchTypes, Objects

\* The queue hands out something for an object.
LEMMA DeliverStutters ==
  ASSUME InUse, NEW s \in Sessions, NEW x \in Objects, NEW kind, Deliver(s, x, kind)
  PROVE  W' = W
  BY DispatchStutters DEF Deliver, mapVars, callVars, histVars

\* The queue hands out a destroy event.
LEMMA FinaliseBeginStutters ==
  ASSUME InUse, NEW s \in Sessions, NEW x \in Objects, FinaliseBegin(s, x)
  PROVE  W' = W
  BY DispatchStutters DEF FinaliseBegin, mapVars, callVars, histVars

\* A dispatcher that finalises an object runs no callback before or after it.
LEMMA FinaliseRunsNothing ==
  ASSUME InUse, NEW s \in Sessions, dpc[s] = "finalLock", Dispatch(s, "idle", None, None)
  PROVE  RunningKept
<1> SUFFICES ASSUME NEW y \in Objects PROVE Running(y)' <=> Running(y)
  BY DEF RunningKept
<1>1. CASE Home[y] = s
  BY <1>1 DEF Dispatch, Running, InCallback, InUse, Custody, TypeOK,
     DispatchTypes
<1>2. CASE Home[y] # s
  BY <1>2, OtherRunning
<1>3. QED
  BY <1>1, <1>2

\* A callback is called, under m_lock.
LEMMA CallbackLockRefines ==
  ASSUME InUse, NEW s \in Sessions, CallbackLock(s)
  PROVE  (\E x \in Objects : Abstract!Run(x)) \/ W' = W
<1> PICK x \in Objects : x = dobj[s] /\ Home[x] = s
  BY DEF CallbackLock, InUse, Custody, TypeOK, DispatchTypes
<1>1. UNCHANGED <<phase, callbacks, map, pc, arg, silenced>> /\ dpc[s] = "callbackLock"
  BY DEF CallbackLock, mapVars, callVars, histVars
<1>2. CASE dkind[s] \notin callbacks[x]
  <2>1. Dispatch(s, "idle", None, None)
    BY <1>2 DEF CallbackLock
  <2>2. QED
    BY <1>1, <2>1, DispatchStutters
<1>3. CASE dkind[s] \in callbacks[x]
  <2>1. Dispatch(s, "callback", x, dkind[s])
    BY <1>3 DEF CallbackLock
  <2>2. InCallback(x)' /\ ~InCallback(x) /\ dkind' = dkind
    BY <1>1, <2>1 DEF Dispatch, InCallback, InUse, Custody, TypeOK,
       DispatchTypes
  <2>3. \A y \in Objects : y # x => (Running(y)' <=> Running(y))
    <3> SUFFICES ASSUME NEW y \in Objects, y # x PROVE Running(y)' <=> Running(y)
      OBVIOUS
    <3>1. CASE Home[y] = s
      BY <1>1, <2>1, <3>1 DEF Dispatch, Running, InCallback, InUse, Custody,
         TypeOK, DispatchTypes
    <3>2. CASE Home[y] # s
      BY <2>1, <3>2, OtherRunning
    <3>3. QED
      BY <3>1, <3>2
  <2>4. StageKept /\ EnabledKept /\ QuietKept
    BY <1>1 DEF StageKept, EnabledKept, QuietKept, Stage, Receives, Silenced
  <2>5. CASE dkind[s] # "message"
    <3>1. RunningKept
      BY <2>2, <2>3, <2>5 DEF RunningKept, Running
    <3>2. QED
      BY <2>4, <3>1, AllKeptStutters
  <2>6. CASE dkind[s] = "message"
    <3>1. phase[x] = "open"
      BY <1>1, <1>3 DEF InUse, InUseIsOpen, CallbackStages, Delivering
    <3>2. Stage(x) \in {"live", "claimed"} /\ Receives(x)
      BY <1>3, <2>6, <3>1 DEF Stage, Receives
    <3>3. ~Running(x) /\ \A y \in Objects : Running(y)' <=> (Running(y) \/ y = x)
      BY <2>2, <2>3, <2>6 DEF Running
    <3>4. [y \in Objects |-> Running(y)]' = [[y \in Objects |-> Running(y)] EXCEPT ![x] = TRUE]
      BY <3>3 DEF Running
    <3>5. [y \in Objects |-> Stage(y)]' = [y \in Objects |-> Stage(y)]
      BY <2>4 DEF StageKept
    <3>6. Abstract!Run(x)
      BY <2>4, <3>2, <3>3, <3>4, <3>5, EnabledFunction, QuietFunction
      DEF Abstract!Run, Abstract!Exists, Silenced
    <3>7. QED
      BY <3>6
  <2>7. QED
    BY <2>5, <2>6
<1>4. QED
  BY <1>2, <1>3

\* A callback returns; if it has silenced itself, the object is quiet now.
LEMMA CallbackReturnRefines ==
  ASSUME InUse, NEW s \in Sessions, CallbackReturn(s)
  PROVE  (\E x \in Objects : Abstract!Return(x)) \/ W' = W
<1> PICK x \in Objects : x = dobj[s] /\ Home[x] = s
  BY DEF CallbackReturn, InUse, Custody, TypeOK, DispatchTypes
<1>1. /\ UNCHANGED <<phase, callbacks, map, pc, arg>>
      /\ dpc[s] = "callback" /\ Dispatch(s, "idle", None, None)
      /\ silenced' = [silenced EXCEPT ![x] = @ \cup ({dkind[s]} \ callbacks[x])]
  BY DEF CallbackReturn, mapVars, callVars
<1>2. StageKept /\ EnabledKept
  BY <1>1 DEF StageKept, EnabledKept, Stage, Receives
<1>3. InCallback(x) /\ ~InCallback(x)'
  BY <1>1 DEF Dispatch, InCallback, InUse, Custody, TypeOK, DispatchTypes
<1>4. \A y \in Objects : y # x => (Running(y)' <=> Running(y))
  <2> SUFFICES ASSUME NEW y \in Objects, y # x PROVE Running(y)' <=> Running(y)
    OBVIOUS
  <2>1. CASE Home[y] = s
    BY <1>1, <2>1 DEF Dispatch, Running, InCallback, InUse, Custody, TypeOK,
       DispatchTypes
  <2>2. CASE Home[y] # s
    BY <1>1, <2>2, OtherRunning
  <2>3. QED
    BY <2>1, <2>2
<1>5. phase[x] = "open"
  BY <1>3 DEF InUse, InUseIsOpen
<1>6. CASE dkind[s] # "message"
  <2>1. RunningKept
    BY <1>3, <1>4, <1>6 DEF RunningKept, Running
  <2>2. QuietKept
    BY <1>1, <1>6 DEF QuietKept, Silenced, InUse, Custody, TypeOK, ObjectTypes
  <2>3. QED
    BY <1>2, <2>1, <2>2, AllKeptStutters
<1>7. CASE dkind[s] = "message"
  <2>1. Running(x) /\ \A y \in Objects : Running(y)' <=> (Running(y) /\ y # x)
    BY <1>3, <1>4, <1>7 DEF Running
  <2>2. [y \in Objects |-> Running(y)]' = [[y \in Objects |-> Running(y)] EXCEPT ![x] = FALSE]
    BY <2>1 DEF Running
  <2>3. [y \in Objects |-> Stage(y)]' = [y \in Objects |-> Stage(y)]
    BY <1>2 DEF StageKept
  <2>4. [y \in Objects |-> Silenced(y)]'
          = [[y \in Objects |-> Silenced(y)] EXCEPT ![x] = Silenced(x) \/ ~Receives(x)]
    <3> DEFINE b == Silenced(x) \/ ~Receives(x)
    <3>1. Silenced(x)' <=> b
      BY <1>1, <1>5, <1>7 DEF Silenced, Receives, InUse, Custody, TypeOK,
         ObjectTypes
    <3>2. \A y \in Objects : y # x => (Silenced(y)' <=> Silenced(y))
      BY <1>1 DEF Silenced, InUse, Custody, TypeOK, ObjectTypes
    <3>3. b \in BOOLEAN
      OBVIOUS
    <3> HIDE DEF b
    <3>4. [y \in Objects |-> Silenced(y)]' = [[y \in Objects |-> Silenced(y)] EXCEPT ![x] = b]
      BY <3>1, <3>2, <3>3, QuietChanges
    <3>5. QED
      BY <3>4 DEF b
  <2>5. Abstract!Return(x)
    BY <1>2, <2>1, <2>2, <2>3, <2>4, EnabledFunction DEF Abstract!Return,
       Silenced
  <2>6. QED
    BY <2>5
<1>8. QED
  BY <1>6, <1>7

\* An object that is freed: claimed, all its callbacks NULL, and none running.
LEMMA FreeStep ==
  ASSUME InUse, NEW x \in Objects, phase[x] \in {"open", "destroying"}, callbacks[x] = {},
         x \notin map, \A u \in Threads : ~(pc[u] = "insert" /\ arg[u] = x),
         ~InCallback(x), phase' = [phase EXCEPT ![x] = "freed"],
         UNCHANGED <<callbacks, map, pc, arg, silenced>>, RunningKept
  PROVE  Abstract!Free(x)
<1>1. Stage(x) = "claimed" /\ Stage(x)' = "gone"
  BY DEF Stage, InUse, Custody, TypeOK, ObjectTypes
<1>2. \A y \in Objects : y # x => Stage(y)' = Stage(y)
  BY DEF Stage, InUse, Custody, TypeOK, ObjectTypes
<1>3. EnabledKept /\ QuietKept /\ ~Receives(x) /\ ~Running(x)
  BY DEF EnabledKept, QuietKept, Receives, Silenced, Running, InUse, Custody,
     TypeOK, ObjectTypes
<1>4. QED
  BY <1>1, <1>2, <1>3, OnlyStageChanges
\* An inbox is freed by its destroy event.
LEMMA OnInboxDestroyRefines ==
  ASSUME InUse, NEW s \in Sessions, OnInboxDestroy(s)
  PROVE  \E x \in Objects : Abstract!Free(x)
<1> PICK x \in Objects : x = dobj[s] /\ Home[x] = s
  BY DEF OnInboxDestroy, InUse, Custody, TypeOK, DispatchTypes
<1>1. Finalising(x) /\ ~InCallback(x)
  BY DEF OnInboxDestroy, Finalising, InCallback
<1>2. phase[x] = "open" /\ callbacks[x] = {}
  BY <1>1 DEF InUse, InUseIsOpen, CallbackStages
<1>3. x \notin map /\ \A u \in Threads : ~(pc[u] = "insert" /\ arg[u] = x)
  BY <1>1 DEF InUse, Custody, MapCustody, CreateCustody, Creating
<1>4. /\ phase' = [phase EXCEPT ![x] = "freed"] /\ Dispatch(s, "idle", None, None)
      /\ UNCHANGED <<callbacks, map, pc, arg, silenced>>
  BY DEF OnInboxDestroy, Deallocate, mapVars, callVars, histVars
<1>5. RunningKept
  BY <1>1, <1>4, FinaliseRunsNothing DEF OnInboxDestroy
<1>6. QED
  BY <1>1, <1>2, <1>3, <1>4, <1>5, FreeStep

\* MAMA destroys a subscription at once, or it waits for MAMA's report as it
\* waited in the queue.
LEMMA OnSubscriptionDestroyRefines ==
  ASSUME InUse, NEW s \in Sessions, OnSubscriptionDestroy(s)
  PROVE  (\E x \in Objects : Abstract!Free(x)) \/ W' = W
<1> PICK x \in Objects : x = dobj[s] /\ Home[x] = s
  BY DEF OnSubscriptionDestroy, InUse, Custody, TypeOK, DispatchTypes
<1>1. Finalising(x) /\ ~InCallback(x)
  BY DEF OnSubscriptionDestroy, Finalising, InCallback
<1>2. phase[x] = "open" /\ callbacks[x] = {}
  BY <1>1 DEF InUse, InUseIsOpen, CallbackStages
<1>3. x \notin map /\ \A u \in Threads : ~(pc[u] = "insert" /\ arg[u] = x)
  BY <1>1 DEF InUse, Custody, MapCustody, CreateCustody, Creating
<1>4. /\ Dispatch(s, "idle", None, None)
      /\ UNCHANGED <<callbacks, map, pc, arg, silenced>>
  BY DEF OnSubscriptionDestroy, mapVars, callVars, histVars
<1>5. RunningKept
  BY <1>1, <1>4, FinaliseRunsNothing DEF OnSubscriptionDestroy
<1>6. CASE phase' = [phase EXCEPT ![x] = "freed"]
  BY <1>1, <1>2, <1>3, <1>4, <1>5, <1>6, FreeStep
<1>7. CASE phase' = [phase EXCEPT ![x] = "destroying"]
  <2>1. Stage(x) = "claimed" /\ Stage(x)' = "claimed"
    BY <1>2, <1>3, <1>7 DEF Stage, InUse, Custody, TypeOK, ObjectTypes
  <2>2. \A y \in Objects : y # x => Stage(y)' = Stage(y)
    BY <1>4, <1>7 DEF Stage, InUse, Custody, TypeOK, ObjectTypes
  <2>3. StageKept
    BY <2>1, <2>2 DEF StageKept
  <2>4. EnabledKept /\ QuietKept
    BY <1>2, <1>4, <1>7 DEF EnabledKept, QuietKept, Receives, Silenced, InUse,
       Custody, TypeOK, ObjectTypes
  <2>5. QED
    BY <1>5, <2>3, <2>4, AllKeptStutters
<1>8. QED
  BY <1>6, <1>7 DEF OnSubscriptionDestroy, Deallocate

\* MAMA reports later: a subscription that never was created is gone, and one
\* that was is freed.
LEMMA OnDestroyRefines ==
  ASSUME InUse, NEW s \in Sessions, NEW x \in Objects, OnDestroy(s, x)
  PROVE  Abstract!CreateFails(x) \/ Abstract!Free(x)
<1>1. /\ phase' = [phase EXCEPT ![x] = "freed"]
      /\ UNCHANGED <<callbacks, map, pc, arg, silenced, dpc, dobj, dkind>>
  BY DEF OnDestroy, Deallocate, mapVars, callVars, dispVars, histVars
<1>2. RunningKept
  BY <1>1 DEF RunningKept, Running, InCallback
<1>3. CASE phase[x] = "abandoned"
  <2>1. Stage(x) = "absent" /\ Stage(x)' = "gone"
    BY <1>1, <1>3 DEF Stage, InUse, Custody, TypeOK, ObjectTypes
  <2>2. \A y \in Objects : y # x => Stage(y)' = Stage(y)
    BY <1>1 DEF Stage, InUse, Custody, TypeOK, ObjectTypes
  <2>3. EnabledKept /\ QuietKept
    BY <1>1, <1>3 DEF EnabledKept, QuietKept, Receives, Silenced, InUse,
       Custody, TypeOK, ObjectTypes
  <2>4. QED
    BY <1>2, <2>1, <2>2, <2>3, OnlyStageChanges
<1>4. CASE phase[x] = "destroying"
  <2>1. callbacks[x] = {} /\ ~InCallback(x)
    BY <1>4 DEF OnDestroy, InCallback, InUse, CallbackStages
  <2>2. x \notin map /\ \A u \in Threads : ~(pc[u] = "insert" /\ arg[u] = x)
    BY <1>4 DEF InUse, Custody, NowhereElse, Creating
  <2>3. QED
    BY <1>1, <1>2, <1>4, <2>1, <2>2, FreeStep
<1>5. QED
  BY <1>3, <1>4 DEF OnDestroy

-----------------------------------------------------------------------------
\* At first no object has been created.
LEMMA InitRefines == Init => Abstract!Init
<1> SUFFICES ASSUME Init PROVE Abstract!Init
  OBVIOUS
<1>1. \A x \in Objects : Stage(x) = "absent"
  BY DEF Init, Stage
<1>2. \A x \in Objects : Receives(x) = FALSE
  BY DEF Init, Receives
<1>3. \A x \in Objects : Running(x) = FALSE
  BY ConstantsAssumption DEF Init, Running, InCallback
<1>4. \A x \in Objects : ("message" \in silenced[x]) = FALSE
  BY DEF Init
<1>5. QED
  BY <1>1, <1>2, <1>3, <1>4 DEF Abstract!Init

\* A step that leaves everything alone.
LEMMA StutterStutters == UNCHANGED vars => W' = W
<1> SUFFICES ASSUME UNCHANGED vars PROVE W' = W
  OBVIOUS
<1>1. StageKept /\ EnabledKept /\ RunningKept /\ QuietKept
  BY DEF vars, StageKept, EnabledKept, RunningKept, QuietKept, Stage, Receives,
     Running, InCallback, Silenced
<1>2. QED
  BY <1>1, AllKeptStutters

\* Every step is a step of EventObject or is not seen.
LEMMA NextRefines == Quiet /\ InUse /\ [Next]_vars => [Abstract!Next]_W
<1> SUFFICES ASSUME Quiet, InUse, [Next]_vars PROVE Abstract!Next \/ W' = W
  OBVIOUS
<1>1. ASSUME NEW t \in Threads, Begin(t)
      PROVE  Abstract!Next \/ W' = W
  BY <1>1, AllocateRefines, DestroyStutters, ShutdownStutters,
     DestroyAllEventsStutters, ShutdownSessionStutters DEF Begin, AllocateInbox,
     AllocateSubscription, DestroyInbox, DestroySubscription, ShutdownInbox,
     ShutdownSubscription, Abstract!Next
<1>2. ASSUME NEW t \in Threads, WaitMap(t)
      PROVE  Abstract!Next \/ W' = W
  BY <1>2, CreateInsertStutters, DestroyRemoveRefines, ShutdownFindStutters,
     SweepMapRefines DEF WaitMap, Abstract!Next
<1>3. ASSUME NEW t \in Threads, Continue(t)
      PROVE  Abstract!Next \/ W' = W
  <2>1. CASE CreateInbox(t) \/ CreateSubscription(t)
    BY <2>1, MamaCreatesRefines DEF CreateInbox, CreateSubscription,
       Abstract!Next
  <2>2. CASE CreateInboxFails(t) \/ CreateSubscriptionFails(t)
    BY <2>2, CreationFailsRefines DEF Abstract!Next
  <2>3. CASE CreateReturn(t) \/ DestroyEnqueue(t)
    BY <2>3, CreateReturnStutters, DestroyEnqueueStutters DEF DestroyEnqueue
  <2>4. CASE ClearInbox(t) \/ ClearSubscription(t)
    BY <2>4, ClearRefines DEF ClearInbox, ClearSubscription, Abstract!Next
  <2>5. CASE StopInbox(t) \/ StopSubscription(t)
    BY <2>5, StopMessagesRefines DEF StopInbox, StopSubscription, Abstract!Next
  <2>6. CASE SweepInbox(t) \/ SweepSubscription(t)
    BY <2>6, SweepToStutters DEF SweepInbox, SweepSubscription, Objects
  <2>7. QED
    BY <1>3, <2>1, <2>2, <2>3, <2>4, <2>5, <2>6 DEF Continue
<1>4. ASSUME NEW s \in Sessions, Traffic(s)
      PROVE  Abstract!Next \/ W' = W
  BY <1>4, DeliverStutters DEF Traffic, OnErrorCallback, OnMessageCallback,
     OnCreateBasic, OnErrorBasic, OnMsgBasic
<1>5. ASSUME NEW s \in Sessions, Serve(s) \/ CallbackReturn(s)
      PROVE  Abstract!Next \/ W' = W
  BY <1>5, CallbackLockRefines, OnInboxDestroyRefines,
     OnSubscriptionDestroyRefines, CallbackReturnRefines DEF Serve,
     Abstract!Next
<1>6. ASSUME NEW s \in Sessions, NEW x \in Objects, FinaliseBegin(s, x) \/ OnDestroy(s, x)
      PROVE  Abstract!Next \/ W' = W
  BY <1>6, FinaliseBeginStutters, OnDestroyRefines DEF Abstract!Next
<1>7. CASE UNCHANGED vars
  BY <1>7, StutterStutters
<1>8. QED
  BY <1>1, <1>2, <1>3, <1>4, <1>5, <1>6, <1>7 DEF Next

\* Inboxes and subscriptions are event objects for any number of threads, sessions
\* and objects: once somebody is told that messages have stopped they have, and
\* nothing is freed that may still call back (ReadMe.md, "Event destruction").
THEOREM ImplementsEventObjectAlways == Quiet => (Spec => ImplementsEventObject)
<1> SUFFICES ASSUME Quiet PROVE Spec => ImplementsEventObject
  OBVIOUS
<1>1. Init => Abstract!Init
  BY InitRefines
<1>2. InUse /\ [Next]_vars => [Abstract!Next]_Abstract!vars
  BY NextRefines DEF W, Abstract!vars, Silenced
<1>3. Spec => []InUse
  BY InUseAlways
<1>4. QED
  BY <1>1, <1>2, <1>3, PTL DEF Spec, ImplementsEventObject, Abstract!Spec
==============================================================================
