--------------------------- MODULE MamaEventProofs ---------------------------
(***************************************************************************)
(* Proofs about MamaEvent, for any number of threads.                      *)
(***************************************************************************)
EXTENDS MamaEvent, TLAPS

\* Every step keeps sleepers out from a set's broadcast on.
LEMMA NextKeepsSleepersOut ==
  ASSUME NoSleeperFromBroadcast, [Next]_vars
  PROVE  NoSleeperFromBroadcast'
<1>1. ASSUME NEW t \in Threads, NEW op \in Calls, Call(t, op)
      PROVE  NoSleeperFromBroadcast'
  BY <1>1, EventAssumption DEF Call, Goto, TypeOK, NoSleeperWhenSet,
     NoSleeperFromBroadcast, Sleepers, Statuses, Calls, Asleep, Holding
<1>2. ASSUME NEW t \in Threads, Lock(t)
      PROVE  NoSleeperFromBroadcast'
  BY <1>2, EventAssumption DEF Lock, Goto, Locked, TypeOK, NoSleeperWhenSet,
     NoSleeperFromBroadcast, Sleepers, Statuses, Calls, Asleep, Holding
<1>3. ASSUME NEW t \in Threads, LockFails(t)
      PROVE  NoSleeperFromBroadcast'
  BY <1>3, EventAssumption DEF LockFails, Goto, TypeOK, NoSleeperWhenSet,
     NoSleeperFromBroadcast, Sleepers, Statuses, Calls, Asleep, Holding
<1>4. ASSUME NEW t \in Threads, Unlock(t)
      PROVE  NoSleeperFromBroadcast'
  BY <1>4, EventAssumption DEF Unlock, Goto, TypeOK, NoSleeperWhenSet,
     NoSleeperFromBroadcast, Sleepers, Statuses, Calls, Asleep, Holding
<1>5. ASSUME NEW t \in Threads, Broadcast(t)
      PROVE  NoSleeperFromBroadcast'
  BY <1>5, EventAssumption DEF Broadcast, TypeOK, NoSleeperWhenSet,
     NoSleeperFromBroadcast, Sleepers, Statuses, Calls, Asleep, Holding
<1>6. ASSUME NEW t \in Threads, Signal(t)
      PROVE  NoSleeperFromBroadcast'
  BY <1>6, EventAssumption DEF Signal, Goto, End, TypeOK, NoSleeperWhenSet,
     NoSleeperFromBroadcast, Sleepers, Statuses, Calls, Asleep, Holding
<1>7. ASSUME NEW t \in Threads, Clear(t)
      PROVE  NoSleeperFromBroadcast'
  BY <1>7, EventAssumption DEF Clear, Goto, End, TypeOK, NoSleeperWhenSet,
     NoSleeperFromBroadcast, Sleepers, Statuses, Calls, Asleep, Holding
<1>8. ASSUME NEW t \in Threads, TestSignaled(t)
      PROVE  NoSleeperFromBroadcast'
  BY <1>8, EventAssumption DEF TestSignaled, Goto, End, TypeOK,
     NoSleeperWhenSet, NoSleeperFromBroadcast, Sleepers, Statuses, Calls,
     Asleep, Holding
<1>9. ASSUME NEW t \in Threads, Sleep(t)
      PROVE  NoSleeperFromBroadcast'
  BY <1>9, EventAssumption DEF Sleep, Goto, TypeOK, NoSleeperWhenSet,
     NoSleeperFromBroadcast, Sleepers, Statuses, Calls, Asleep, Holding
<1>10. ASSUME NEW t \in Threads, ClockFails(t)
      PROVE  NoSleeperFromBroadcast'
  BY <1>10, EventAssumption DEF ClockFails, Goto, End, TypeOK, NoSleeperWhenSet,
     NoSleeperFromBroadcast, Sleepers, Statuses, Calls, Asleep, Holding
<1>11. ASSUME NEW t \in Threads, TimedOut(t)
      PROVE  NoSleeperFromBroadcast'
  BY <1>11, EventAssumption DEF TimedOut, Goto, TypeOK, NoSleeperWhenSet,
     NoSleeperFromBroadcast, Sleepers, Statuses, Calls, Asleep, Holding
<1>12. ASSUME NEW t \in Threads, SpuriousWakeup(t)
      PROVE  NoSleeperFromBroadcast'
  BY <1>12, EventAssumption DEF SpuriousWakeup, Goto, TypeOK, NoSleeperWhenSet,
     NoSleeperFromBroadcast, Sleepers, Statuses, Calls, Asleep, Holding
<1>13. ASSUME NEW t \in Threads, Reacquire(t)
      PROVE  NoSleeperFromBroadcast'
  BY <1>13, EventAssumption DEF Reacquire, Goto, TypeOK, NoSleeperWhenSet,
     NoSleeperFromBroadcast, Sleepers, Statuses, Calls, Asleep, Holding
<1>14. ASSUME NEW t \in Threads, UnlockFails(t)
      PROVE  NoSleeperFromBroadcast'
  BY <1>14, EventAssumption DEF UnlockFails, Goto, End, TypeOK,
     NoSleeperWhenSet, NoSleeperFromBroadcast, Sleepers, Statuses, Calls,
     Asleep, Holding
<1>15. ASSUME NEW t \in Threads, BroadcastFails(t)
      PROVE  NoSleeperFromBroadcast'
  BY <1>15, EventAssumption DEF BroadcastFails, Goto, End, TypeOK,
     NoSleeperWhenSet, NoSleeperFromBroadcast, Sleepers, Statuses, Calls,
     Asleep, Holding
<1>16. ASSUME NEW t \in Threads, CondWaitFails(t)
      PROVE  NoSleeperFromBroadcast'
  BY <1>16, EventAssumption DEF CondWaitFails, Goto, End, TypeOK,
     NoSleeperWhenSet, NoSleeperFromBroadcast, Sleepers, Statuses, Calls,
     Asleep, Holding
<1>17. CASE Destroy
  BY <1>17 DEF Destroy, TypeOK, NoSleeperWhenSet, NoSleeperFromBroadcast,
     Sleepers, Statuses, Calls, Asleep, Holding
<1>18. CASE UNCHANGED vars
  BY <1>18 DEF vars, TypeOK, NoSleeperWhenSet, NoSleeperFromBroadcast, Sleepers,
     Statuses, Calls, Asleep, Holding
<1>19. QED
  BY <1>1, <1>2, <1>3, <1>4, <1>5, <1>6, <1>7, <1>8, <1>9, <1>10, <1>11, <1>12,
     <1>13, <1>14, <1>15, <1>16, <1>17, <1>18
     DEF Next, Enter, Continue, Platform

\* The inductive invariant: from its broadcast on, a set keeps sleepers out.
THEOREM SleepersKeptOut == Spec => []NoSleeperFromBroadcast
<1>1. Init => NoSleeperFromBroadcast
  BY EventAssumption DEF Init, TypeOK, NoSleeperWhenSet, NoSleeperFromBroadcast,
     Sleepers, Statuses, Calls, Asleep, Holding
<1>2. NoSleeperFromBroadcast /\ [Next]_vars => NoSleeperFromBroadcast'
  BY NextKeepsSleepersOut
<1>3. QED
  BY <1>1, <1>2, PTL DEF Spec

\* Every variable keeps its type, and the mutex is held exactly in the locked
\* sections, unless a failed unlock has left it to its caller.
THEOREM EventTypeCorrect == Spec => []TypeOK
<1>1. NoSleeperFromBroadcast => TypeOK
  BY DEF NoSleeperFromBroadcast
<1>2. QED
  BY <1>1, SleepersKeptOut, PTL

\* No wakeup is lost, whatever the platform does.
THEOREM NoLostWakeup == Spec => []NoSleeperWhenSet
<1>1. NoSleeperFromBroadcast => NoSleeperWhenSet
  BY DEF NoSleeperFromBroadcast
<1>2. QED
  BY <1>1, SleepersKeptOut, PTL

\* Every step keeps what a wait that returns OK has seen.
LEMMA NextKeepsOkMeansSet ==
  ASSUME OkMeansSet, [Next]_vars
  PROVE  OkMeansSet'
<1>1. ASSUME NEW t \in Threads, NEW op \in Calls, Call(t, op)
      PROVE  OkMeansSet'
  BY <1>1, EventAssumption DEF Call, Goto, TypeOK, OkMeansSet, Sleepers,
     Statuses, Calls, Asleep, Holding
<1>2. ASSUME NEW t \in Threads, Lock(t)
      PROVE  OkMeansSet'
  BY <1>2, EventAssumption DEF Lock, Goto, Locked, TypeOK, OkMeansSet, Sleepers,
     Statuses, Calls, Asleep, Holding
<1>3. ASSUME NEW t \in Threads, LockFails(t)
      PROVE  OkMeansSet'
  BY <1>3, EventAssumption DEF LockFails, Goto, TypeOK, OkMeansSet, Sleepers,
     Statuses, Calls, Asleep, Holding
<1>4. ASSUME NEW t \in Threads, Unlock(t)
      PROVE  OkMeansSet'
  BY <1>4, EventAssumption DEF Unlock, Goto, TypeOK, OkMeansSet, Sleepers,
     Statuses, Calls, Asleep, Holding
<1>5. ASSUME NEW t \in Threads, Broadcast(t)
      PROVE  OkMeansSet'
  BY <1>5, EventAssumption DEF Broadcast, TypeOK, OkMeansSet, Sleepers,
     Statuses, Calls, Asleep, Holding
<1>6. ASSUME NEW t \in Threads, Signal(t)
      PROVE  OkMeansSet'
  BY <1>6, EventAssumption DEF Signal, Goto, End, TypeOK, OkMeansSet, Sleepers,
     Statuses, Calls, Asleep, Holding
<1>7. ASSUME NEW t \in Threads, Clear(t)
      PROVE  OkMeansSet'
  BY <1>7, EventAssumption DEF Clear, Goto, End, TypeOK, OkMeansSet, Sleepers,
     Statuses, Calls, Asleep, Holding
<1>8. ASSUME NEW t \in Threads, TestSignaled(t)
      PROVE  OkMeansSet'
  BY <1>8, EventAssumption DEF TestSignaled, Goto, End, TypeOK, OkMeansSet,
     Sleepers, Statuses, Calls, Asleep, Holding
<1>9. ASSUME NEW t \in Threads, Sleep(t)
      PROVE  OkMeansSet'
  BY <1>9, EventAssumption DEF Sleep, Goto, TypeOK, OkMeansSet, Sleepers,
     Statuses, Calls, Asleep, Holding
<1>10. ASSUME NEW t \in Threads, ClockFails(t)
      PROVE  OkMeansSet'
  BY <1>10, EventAssumption DEF ClockFails, Goto, End, TypeOK, OkMeansSet,
     Sleepers, Statuses, Calls, Asleep, Holding
<1>11. ASSUME NEW t \in Threads, TimedOut(t)
      PROVE  OkMeansSet'
  BY <1>11, EventAssumption DEF TimedOut, Goto, TypeOK, OkMeansSet, Sleepers,
     Statuses, Calls, Asleep, Holding
<1>12. ASSUME NEW t \in Threads, SpuriousWakeup(t)
      PROVE  OkMeansSet'
  BY <1>12, EventAssumption DEF SpuriousWakeup, Goto, TypeOK, OkMeansSet,
     Sleepers, Statuses, Calls, Asleep, Holding
<1>13. ASSUME NEW t \in Threads, Reacquire(t)
      PROVE  OkMeansSet'
  BY <1>13, EventAssumption DEF Reacquire, Goto, TypeOK, OkMeansSet, Sleepers,
     Statuses, Calls, Asleep, Holding
<1>14. ASSUME NEW t \in Threads, UnlockFails(t)
      PROVE  OkMeansSet'
  BY <1>14, EventAssumption DEF UnlockFails, Goto, End, TypeOK,
     OkMeansSet, Sleepers, Statuses, Calls, Asleep, Holding
<1>15. ASSUME NEW t \in Threads, BroadcastFails(t)
      PROVE  OkMeansSet'
  BY <1>15, EventAssumption DEF BroadcastFails, Goto, End, TypeOK,
     OkMeansSet, Sleepers, Statuses, Calls, Asleep, Holding
<1>16. ASSUME NEW t \in Threads, CondWaitFails(t)
      PROVE  OkMeansSet'
  BY <1>16, EventAssumption DEF CondWaitFails, Goto, End, TypeOK,
     OkMeansSet, Sleepers, Statuses, Calls, Asleep, Holding
<1>17. CASE Destroy
  BY <1>17 DEF Destroy, TypeOK, OkMeansSet, Sleepers, Statuses, Calls, Asleep,
     Holding
<1>18. CASE UNCHANGED vars
  BY <1>18 DEF vars, TypeOK, OkMeansSet, Sleepers, Statuses, Calls, Asleep,
     Holding
<1>19. QED
  BY <1>1, <1>2, <1>3, <1>4, <1>5, <1>6, <1>7, <1>8, <1>9, <1>10, <1>11, <1>12,
     <1>13, <1>14, <1>15, <1>16, <1>17, <1>18
     DEF Next, Enter, Continue, Platform

\* A wait that returns OK has been told, by a set or, wrongly, by the platform;
\* a timeout is never reported as OK.
THEOREM OkMeansSetAlways == Spec => []OkMeansSet
<1>1. Init => OkMeansSet
  BY EventAssumption DEF Init, TypeOK, OkMeansSet, Sleepers, Statuses, Calls,
     Asleep, Holding
<1>2. OkMeansSet /\ [Next]_vars => OkMeansSet'
  BY NextKeepsOkMeansSet
<1>3. QED
  BY <1>1, <1>2, PTL DEF Spec

\* Without spurious wakeups nobody is woken for nothing.
LEMMA NothingStray ==
  ASSUME "spurious" \notin Conditions, stray = {}, [Next]_vars
  PROVE  stray' = {}
  BY DEF Next, vars, Enter, Continue, Platform, Call, Lock, LockFails, Unlock,
     UnlockFails, Broadcast, BroadcastFails, Signal, Clear, TestSignaled, Sleep,
     CondWaitFails, ClockFails, TimedOut, SpuriousWakeup, Reacquire, Destroy

\* On a platform without spurious wakeups a wait that returns OK has seen the
\* event signaled.
THEOREM WaitMeansSetAlways == "spurious" \notin Conditions => (Spec => []WaitMeansSet)
<1> SUFFICES ASSUME "spurious" \notin Conditions PROVE Spec => []WaitMeansSet
  OBVIOUS
<1>1. Init => stray = {}
  BY DEF Init
<1>2. stray = {} /\ [Next]_vars => (stray = {})'
  BY NothingStray
<1>3. OkMeansSet /\ stray = {} => WaitMeansSet
  BY DEF OkMeansSet, WaitMeansSet
<1>4. QED
  BY <1>1, <1>2, <1>3, OkMeansSetAlways, PTL DEF Spec
=============================================================================
