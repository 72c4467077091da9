------------------------ MODULE SynchronizedMapProofs ------------------------
(***************************************************************************)
(* Proofs about SynchronizedMap, for any sets of threads and keys.         *)
(* IInv is inductive: each step of Next is treated once, first for the     *)
(* types, then for the lock, then for the custody of the entries.  The     *)
(* safety properties are conjuncts of IInv, and every step that preserves  *)
(* it is a step of HandoffMap or leaves the abstract state alone.          *)
(***************************************************************************)
EXTENDS SynchronizedMap, TLAPS

\* At first the map is empty.
LEMMA InitInv == Init => IInv
  BY NullAssumption
  DEF Init, IInv, TypeOK, LockDiscipline, DeadIsIdle, TreeCustody, SweepCustody,
      Holds, InsertCustody, HandedCustody, HandedOnce, ForPinsEntry, Places,
      Waiting, Locked, Unlocked, Keyed, Statuses

\* IInv is kept when a thread calls the map.
LEMMA CallInv ==
  ASSUME IInv, NEW t \in Threads, NEW op \in Waiting, NEW k \in Keys \cup {NoKey},
         Call(t, op, k)
  PROVE  IInv'
<1>1. TypeOK'
  BY NullAssumption
  DEF Call, Goto, IInv, TypeOK, Places, Waiting,
      Locked, Unlocked, Keyed, Statuses
<1>2. LockDiscipline' /\ DeadIsIdle'
  BY NullAssumption
  DEF Call, Goto, IInv, TypeOK, LockDiscipline,
      DeadIsIdle, Waiting, Locked
<1>3. TreeCustody' /\ InsertCustody' /\ HandedCustody' /\ HandedOnce'
  BY NullAssumption DEF Call, Goto, IInv, TypeOK, LockDiscipline, TreeCustody,
     SweepCustody, Holds, InsertCustody, HandedCustody, HandedOnce, Locked,
     Keyed
<1>4. SweepCustody'
  BY NullAssumption
  DEF Call, Goto, IInv, TypeOK, LockDiscipline,
      TreeCustody, SweepCustody, Holds, InsertCustody, Locked, Keyed, Waiting
<1>5. ForPinsEntry'
  BY NullAssumption
  DEF Call, Goto, IInv, TypeOK, LockDiscipline,
      TreeCustody, SweepCustody, Holds, ForPinsEntry, Locked, Keyed, Waiting
<1>6. QED
  BY <1>1, <1>2, <1>3, <1>4, <1>5 DEF IInv

\* IInv is kept when insert has no memory.
LEMMA InsertNoMemInv ==
  ASSUME IInv, NEW t \in Threads, InsertNoMem(t)
  PROVE  IInv'
<1>1. TypeOK'
  BY NullAssumption
  DEF InsertNoMem, Return, Goto, lockVars, IInv, TypeOK, Places, Waiting,
      Locked, Unlocked, Keyed, Statuses
<1>2. LockDiscipline' /\ DeadIsIdle'
  BY NullAssumption
  DEF InsertNoMem, Return, Goto, lockVars, IInv, TypeOK, LockDiscipline,
      DeadIsIdle, Waiting, Locked
<1>3. TreeCustody' /\ InsertCustody' /\ HandedCustody' /\ HandedOnce'
  BY NullAssumption DEF InsertNoMem, Return, Goto, lockVars, IInv, TypeOK,
     LockDiscipline, TreeCustody, SweepCustody, Holds, InsertCustody,
     HandedCustody, HandedOnce, Locked, Keyed
<1>4. SweepCustody'
  BY NullAssumption
  DEF InsertNoMem, Return, Goto, lockVars, IInv, TypeOK, LockDiscipline,
      TreeCustody, SweepCustody, Holds, InsertCustody, Locked, Keyed, Waiting
<1>5. ForPinsEntry'
  BY NullAssumption
  DEF InsertNoMem, Return, Goto, lockVars, IInv, TypeOK, LockDiscipline,
      TreeCustody, SweepCustody, Holds, ForPinsEntry, Locked, Keyed, Waiting
<1>6. QED
  BY <1>1, <1>2, <1>3, <1>4, <1>5 DEF IInv

\* IInv is kept when insert links the entry under the lock.
LEMMA InsertLinkInv ==
  ASSUME IInv, NEW t \in Threads, InsertLink(t)
  PROVE  IInv'
<1>1. TypeOK'
  BY NullAssumption
  DEF InsertLink, Acquire, Goto, IInv, TypeOK, Places, Waiting,
      Locked, Unlocked, Keyed, Statuses
<1>2. LockDiscipline' /\ DeadIsIdle'
  BY NullAssumption
  DEF InsertLink, Acquire, Goto, IInv, TypeOK, LockDiscipline,
      DeadIsIdle, Waiting, Locked
<1>3. TreeCustody' /\ InsertCustody' /\ HandedCustody' /\ HandedOnce'
  BY NullAssumption DEF InsertLink, Acquire, Goto, IInv, TypeOK, LockDiscipline,
     TreeCustody, SweepCustody, Holds, InsertCustody, HandedCustody, HandedOnce,
     Locked, Keyed
<1>4. SweepCustody'
  BY NullAssumption
  DEF InsertLink, Acquire, Goto, IInv, TypeOK, LockDiscipline,
      TreeCustody, SweepCustody, Holds, InsertCustody, Locked, Keyed, Waiting
<1>5. ForPinsEntry'
  BY NullAssumption
  DEF InsertLink, Acquire, Goto, IInv, TypeOK, LockDiscipline,
      TreeCustody, SweepCustody, Holds, ForPinsEntry, Locked, Keyed, Waiting
<1>6. QED
  BY <1>1, <1>2, <1>3, <1>4, <1>5 DEF IInv

\* IInv is kept when insert counts the entry and unlocks.
LEMMA InsertCountInv ==
  ASSUME IInv, NEW t \in Threads, InsertCount(t)
  PROVE  IInv'
<1>1. TypeOK'
  BY NullAssumption
  DEF InsertCount, Release, Return, Goto, IInv, TypeOK, Places, Waiting,
      Locked, Unlocked, Keyed, Statuses
<1>2. LockDiscipline' /\ DeadIsIdle'
  BY NullAssumption
  DEF InsertCount, Release, Return, Goto, IInv, TypeOK, LockDiscipline,
      DeadIsIdle, Waiting, Locked
<1>3. TreeCustody' /\ InsertCustody' /\ HandedCustody' /\ HandedOnce'
  BY NullAssumption DEF InsertCount, Release, Return, Goto, IInv, TypeOK,
     LockDiscipline, TreeCustody, SweepCustody, Holds, InsertCustody,
     HandedCustody, HandedOnce, Locked, Keyed
<1>4. SweepCustody'
  BY NullAssumption
  DEF InsertCount, Release, Return, Goto, IInv, TypeOK, LockDiscipline,
      TreeCustody, SweepCustody, Holds, InsertCustody, Locked, Keyed, Waiting
<1>5. ForPinsEntry'
  BY NullAssumption
  DEF InsertCount, Release, Return, Goto, IInv, TypeOK, LockDiscipline,
      TreeCustody, SweepCustody, Holds, ForPinsEntry, Locked, Keyed, Waiting
<1>6. QED
  BY <1>1, <1>2, <1>3, <1>4, <1>5 DEF IInv

\* IInv is kept when remove hands the entry to its caller.
LEMMA RemoveFoundInv ==
  ASSUME IInv, NEW t \in Threads, RemoveFound(t)
  PROVE  IInv'
<1>1. TypeOK'
  BY NullAssumption
  DEF RemoveFound, Goto, lockVars, IInv, TypeOK, Places, Waiting,
      Locked, Unlocked, Keyed, Statuses
<1>2. LockDiscipline' /\ DeadIsIdle'
  BY NullAssumption
  DEF RemoveFound, Goto, lockVars, IInv, TypeOK, LockDiscipline,
      DeadIsIdle, Waiting, Locked
<1>3. TreeCustody' /\ InsertCustody' /\ HandedCustody' /\ HandedOnce'
  BY NullAssumption DEF RemoveFound, Goto, lockVars, IInv, TypeOK,
     LockDiscipline, TreeCustody, SweepCustody, Holds, InsertCustody,
     HandedCustody, HandedOnce, Locked, Keyed
<1>4. SweepCustody'
  BY NullAssumption
  DEF RemoveFound, Goto, lockVars, IInv, TypeOK, LockDiscipline,
      TreeCustody, SweepCustody, Holds, InsertCustody, Locked, Keyed, Waiting
<1>5. ForPinsEntry'
  BY NullAssumption
  DEF RemoveFound, Goto, lockVars, IInv, TypeOK, LockDiscipline,
      TreeCustody, SweepCustody, Holds, ForPinsEntry, Locked, Keyed, Waiting
<1>6. QED
  BY <1>1, <1>2, <1>3, <1>4, <1>5 DEF IInv

\* IInv is kept when remove reads the count without the lock.
LEMMA RemoveLoadInv ==
  ASSUME IInv, NEW t \in Threads, RemoveLoad(t)
  PROVE  IInv'
<1>1. TypeOK'
  BY NullAssumption
  DEF RemoveLoad, Goto, lockVars, IInv, TypeOK, Places, Waiting,
      Locked, Unlocked, Keyed, Statuses
<1>2. LockDiscipline' /\ DeadIsIdle'
  BY NullAssumption
  DEF RemoveLoad, Goto, lockVars, IInv, TypeOK, LockDiscipline,
      DeadIsIdle, Waiting, Locked
<1>3. TreeCustody' /\ InsertCustody' /\ HandedCustody' /\ HandedOnce'
  BY NullAssumption DEF RemoveLoad, Goto, lockVars, IInv, TypeOK,
     LockDiscipline, TreeCustody, SweepCustody, Holds, InsertCustody,
     HandedCustody, HandedOnce, Locked, Keyed
<1>4. SweepCustody'
  BY NullAssumption
  DEF RemoveLoad, Goto, lockVars, IInv, TypeOK, LockDiscipline,
      TreeCustody, SweepCustody, Holds, InsertCustody, Locked, Keyed, Waiting
<1>5. ForPinsEntry'
  BY NullAssumption
  DEF RemoveLoad, Goto, lockVars, IInv, TypeOK, LockDiscipline,
      TreeCustody, SweepCustody, Holds, ForPinsEntry, Locked, Keyed, Waiting
<1>6. QED
  BY <1>1, <1>2, <1>3, <1>4, <1>5 DEF IInv

\* IInv is kept when remove writes the count without the lock.
LEMMA RemoveStoreInv ==
  ASSUME IInv, NEW t \in Threads, RemoveStore(t)
  PROVE  IInv'
<1>1. TypeOK'
  BY NullAssumption
  DEF RemoveStore, Return, Goto, lockVars, IInv, TypeOK, Places, Waiting,
      Locked, Unlocked, Keyed, Statuses
<1>2. LockDiscipline' /\ DeadIsIdle'
  BY NullAssumption
  DEF RemoveStore, Return, Goto, lockVars, IInv, TypeOK, LockDiscipline,
      DeadIsIdle, Waiting, Locked
<1>3. TreeCustody' /\ InsertCustody' /\ HandedCustody' /\ HandedOnce'
  BY NullAssumption DEF RemoveStore, Return, Goto, lockVars, IInv, TypeOK,
     LockDiscipline, TreeCustody, SweepCustody, Holds, InsertCustody,
     HandedCustody, HandedOnce, Locked, Keyed
<1>4. SweepCustody'
  BY NullAssumption
  DEF RemoveStore, Return, Goto, lockVars, IInv, TypeOK, LockDiscipline,
      TreeCustody, SweepCustody, Holds, InsertCustody, Locked, Keyed, Waiting
<1>5. ForPinsEntry'
  BY NullAssumption
  DEF RemoveStore, Return, Goto, lockVars, IInv, TypeOK, LockDiscipline,
      TreeCustody, SweepCustody, Holds, ForPinsEntry, Locked, Keyed, Waiting
<1>6. QED
  BY <1>1, <1>2, <1>3, <1>4, <1>5 DEF IInv

\* IInv is kept when remove finds nothing.
LEMMA RemoveAbsentInv ==
  ASSUME IInv, NEW t \in Threads, RemoveAbsent(t)
  PROVE  IInv'
<1>1. TypeOK'
  BY NullAssumption
  DEF RemoveAbsent, Return, Goto, lockVars, IInv, TypeOK, Places, Waiting,
      Locked, Unlocked, Keyed, Statuses
<1>2. LockDiscipline' /\ DeadIsIdle'
  BY NullAssumption
  DEF RemoveAbsent, Return, Goto, lockVars, IInv, TypeOK, LockDiscipline,
      DeadIsIdle, Waiting, Locked
<1>3. TreeCustody' /\ InsertCustody' /\ HandedCustody' /\ HandedOnce'
  BY NullAssumption DEF RemoveAbsent, Return, Goto, lockVars, IInv, TypeOK,
     LockDiscipline, TreeCustody, SweepCustody, Holds, InsertCustody,
     HandedCustody, HandedOnce, Locked, Keyed
<1>4. SweepCustody'
  BY NullAssumption
  DEF RemoveAbsent, Return, Goto, lockVars, IInv, TypeOK, LockDiscipline,
      TreeCustody, SweepCustody, Holds, InsertCustody, Locked, Keyed, Waiting
<1>5. ForPinsEntry'
  BY NullAssumption
  DEF RemoveAbsent, Return, Goto, lockVars, IInv, TypeOK, LockDiscipline,
      TreeCustody, SweepCustody, Holds, ForPinsEntry, Locked, Keyed, Waiting
<1>6. QED
  BY <1>1, <1>2, <1>3, <1>4, <1>5 DEF IInv

\* IInv is kept when for calls back with the lock held.
LEMMA ForFoundInv ==
  ASSUME IInv, NEW t \in Threads, ForFound(t)
  PROVE  IInv'
<1>1. TypeOK'
  BY NullAssumption
  DEF ForFound, Acquire, Goto, IInv, TypeOK, Places, Waiting,
      Locked, Unlocked, Keyed, Statuses
<1>2. LockDiscipline' /\ DeadIsIdle'
  BY NullAssumption
  DEF ForFound, Acquire, Goto, IInv, TypeOK, LockDiscipline,
      DeadIsIdle, Waiting, Locked
<1>3. TreeCustody' /\ InsertCustody' /\ HandedCustody' /\ HandedOnce'
  BY NullAssumption DEF ForFound, Acquire, Goto, IInv, TypeOK, LockDiscipline,
     TreeCustody, SweepCustody, Holds, InsertCustody, HandedCustody, HandedOnce,
     Locked, Keyed
<1>4. SweepCustody'
  BY NullAssumption
  DEF ForFound, Acquire, Goto, IInv, TypeOK, LockDiscipline,
      TreeCustody, SweepCustody, Holds, InsertCustody, Locked, Keyed, Waiting
<1>5. ForPinsEntry'
  BY NullAssumption
  DEF ForFound, Acquire, Goto, IInv, TypeOK, LockDiscipline,
      TreeCustody, SweepCustody, Holds, ForPinsEntry, Locked, Keyed, Waiting
<1>6. QED
  BY <1>1, <1>2, <1>3, <1>4, <1>5 DEF IInv

\* IInv is kept when for unlocks.
LEMMA ForReturnInv ==
  ASSUME IInv, NEW t \in Threads, ForReturn(t)
  PROVE  IInv'
<1>1. TypeOK'
  BY NullAssumption
  DEF ForReturn, Release, Return, Goto, IInv, TypeOK, Places, Waiting,
      Locked, Unlocked, Keyed, Statuses
<1>2. LockDiscipline' /\ DeadIsIdle'
  BY NullAssumption
  DEF ForReturn, Release, Return, Goto, IInv, TypeOK, LockDiscipline,
      DeadIsIdle, Waiting, Locked
<1>3. TreeCustody' /\ InsertCustody' /\ HandedCustody' /\ HandedOnce'
  BY NullAssumption DEF ForReturn, Release, Return, Goto, IInv, TypeOK,
     LockDiscipline, TreeCustody, SweepCustody, Holds, InsertCustody,
     HandedCustody, HandedOnce, Locked, Keyed
<1>4. SweepCustody'
  BY NullAssumption
  DEF ForReturn, Release, Return, Goto, IInv, TypeOK, LockDiscipline,
      TreeCustody, SweepCustody, Holds, InsertCustody, Locked, Keyed, Waiting
<1>5. ForPinsEntry'
  BY NullAssumption
  DEF ForReturn, Release, Return, Goto, IInv, TypeOK, LockDiscipline,
      TreeCustody, SweepCustody, Holds, ForPinsEntry, Locked, Keyed, Waiting
<1>6. QED
  BY <1>1, <1>2, <1>3, <1>4, <1>5 DEF IInv

\* IInv is kept when for finds nothing.
LEMMA ForAbsentInv ==
  ASSUME IInv, NEW t \in Threads, ForAbsent(t)
  PROVE  IInv'
<1>1. TypeOK'
  BY NullAssumption
  DEF ForAbsent, Return, Goto, lockVars, IInv, TypeOK, Places, Waiting,
      Locked, Unlocked, Keyed, Statuses
<1>2. LockDiscipline' /\ DeadIsIdle'
  BY NullAssumption
  DEF ForAbsent, Return, Goto, lockVars, IInv, TypeOK, LockDiscipline,
      DeadIsIdle, Waiting, Locked
<1>3. TreeCustody' /\ InsertCustody' /\ HandedCustody' /\ HandedOnce'
  BY NullAssumption DEF ForAbsent, Return, Goto, lockVars, IInv, TypeOK,
     LockDiscipline, TreeCustody, SweepCustody, Holds, InsertCustody,
     HandedCustody, HandedOnce, Locked, Keyed
<1>4. SweepCustody'
  BY NullAssumption
  DEF ForAbsent, Return, Goto, lockVars, IInv, TypeOK, LockDiscipline,
      TreeCustody, SweepCustody, Holds, InsertCustody, Locked, Keyed, Waiting
<1>5. ForPinsEntry'
  BY NullAssumption
  DEF ForAbsent, Return, Goto, lockVars, IInv, TypeOK, LockDiscipline,
      TreeCustody, SweepCustody, Holds, ForPinsEntry, Locked, Keyed, Waiting
<1>6. QED
  BY <1>1, <1>2, <1>3, <1>4, <1>5 DEF IInv

\* IInv is kept when foreach takes the lock.
LEMMA ForeachBeginInv ==
  ASSUME IInv, NEW t \in Threads, ForeachBegin(t)
  PROVE  IInv'
<1>1. TypeOK'
  BY NullAssumption
  DEF ForeachBegin, Acquire, Goto, IInv, TypeOK, Places, Waiting,
      Locked, Unlocked, Keyed, Statuses
<1>2. LockDiscipline' /\ DeadIsIdle'
  BY NullAssumption
  DEF ForeachBegin, Acquire, Goto, IInv, TypeOK, LockDiscipline,
      DeadIsIdle, Waiting, Locked
<1>3. TreeCustody' /\ InsertCustody' /\ HandedCustody' /\ HandedOnce'
  BY NullAssumption DEF ForeachBegin, Acquire, Goto, IInv, TypeOK,
     LockDiscipline, TreeCustody, SweepCustody, Holds, InsertCustody,
     HandedCustody, HandedOnce, Locked, Keyed
<1>4. SweepCustody'
  BY NullAssumption
  DEF ForeachBegin, Acquire, Goto, IInv, TypeOK, LockDiscipline,
      TreeCustody, SweepCustody, Holds, InsertCustody, Locked, Keyed, Waiting
<1>5. ForPinsEntry'
  BY NullAssumption
  DEF ForeachBegin, Acquire, Goto, IInv, TypeOK, LockDiscipline,
      TreeCustody, SweepCustody, Holds, ForPinsEntry, Locked, Keyed, Waiting
<1>6. QED
  BY <1>1, <1>2, <1>3, <1>4, <1>5 DEF IInv

\* IInv is kept when foreach visits an entry.
LEMMA ForeachVisitInv ==
  ASSUME IInv, NEW t \in Threads, ForeachVisit(t)
  PROVE  IInv'
<1>1. TypeOK'
  BY NullAssumption
  DEF ForeachVisit, KeepFirst, lockVars, IInv, TypeOK, Places, Waiting,
      Locked, Unlocked, Keyed, Statuses
<1>2. LockDiscipline' /\ DeadIsIdle'
  BY NullAssumption
  DEF ForeachVisit, KeepFirst, lockVars, IInv, TypeOK, LockDiscipline,
      DeadIsIdle, Waiting, Locked
<1>3. TreeCustody' /\ InsertCustody' /\ HandedCustody' /\ HandedOnce'
  BY NullAssumption DEF ForeachVisit, KeepFirst, lockVars, IInv, TypeOK,
     LockDiscipline, TreeCustody, SweepCustody, Holds, InsertCustody,
     HandedCustody, HandedOnce, Locked, Keyed
<1>4. SweepCustody'
  BY NullAssumption
  DEF ForeachVisit, KeepFirst, lockVars, IInv, TypeOK, LockDiscipline,
      TreeCustody, SweepCustody, Holds, InsertCustody, Locked, Keyed, Waiting
<1>5. ForPinsEntry'
  BY NullAssumption
  DEF ForeachVisit, KeepFirst, lockVars, IInv, TypeOK, LockDiscipline,
      TreeCustody, SweepCustody, Holds, ForPinsEntry, Locked, Keyed, Waiting
<1>6. QED
  BY <1>1, <1>2, <1>3, <1>4, <1>5 DEF IInv

\* IInv is kept when foreach unlocks.
LEMMA ForeachEndInv ==
  ASSUME IInv, NEW t \in Threads, ForeachEnd(t)
  PROVE  IInv'
<1>1. TypeOK'
  BY NullAssumption
  DEF ForeachEnd, Release, Return, Goto, IInv, TypeOK, Places, Waiting,
      Locked, Unlocked, Keyed, Statuses
<1>2. LockDiscipline' /\ DeadIsIdle'
  BY NullAssumption
  DEF ForeachEnd, Release, Return, Goto, IInv, TypeOK, LockDiscipline,
      DeadIsIdle, Waiting, Locked
<1>3. TreeCustody' /\ InsertCustody' /\ HandedCustody' /\ HandedOnce'
  BY NullAssumption DEF ForeachEnd, Release, Return, Goto, IInv, TypeOK,
     LockDiscipline, TreeCustody, SweepCustody, Holds, InsertCustody,
     HandedCustody, HandedOnce, Locked, Keyed
<1>4. SweepCustody'
  BY NullAssumption
  DEF ForeachEnd, Release, Return, Goto, IInv, TypeOK, LockDiscipline,
      TreeCustody, SweepCustody, Holds, InsertCustody, Locked, Keyed, Waiting
<1>5. ForPinsEntry'
  BY NullAssumption
  DEF ForeachEnd, Release, Return, Goto, IInv, TypeOK, LockDiscipline,
      TreeCustody, SweepCustody, Holds, ForPinsEntry, Locked, Keyed, Waiting
<1>6. QED
  BY <1>1, <1>2, <1>3, <1>4, <1>5 DEF IInv

\* IInv is kept when removeAll copies the tree.
LEMMA SweepCopyInv ==
  ASSUME IInv, NEW t \in Threads, SweepCopy(t)
  PROVE  IInv'
<1>1. TypeOK'
  BY NullAssumption
  DEF SweepCopy, Acquire, Goto, IInv, TypeOK, Places, Waiting,
      Locked, Unlocked, Keyed, Statuses
<1>2. LockDiscipline' /\ DeadIsIdle'
  BY NullAssumption
  DEF SweepCopy, Acquire, Goto, IInv, TypeOK, LockDiscipline,
      DeadIsIdle, Waiting, Locked
<1>3. TreeCustody' /\ InsertCustody' /\ HandedCustody' /\ HandedOnce'
  BY NullAssumption DEF SweepCopy, Acquire, Goto, IInv, TypeOK, LockDiscipline,
     TreeCustody, SweepCustody, Holds, InsertCustody, HandedCustody, HandedOnce,
     Locked, Keyed
<1>4. SweepCustody'
  BY NullAssumption
  DEF SweepCopy, Acquire, Goto, IInv, TypeOK, LockDiscipline,
      TreeCustody, SweepCustody, Holds, InsertCustody, Locked, Keyed, Waiting
<1>5. ForPinsEntry'
  BY NullAssumption
  DEF SweepCopy, Acquire, Goto, IInv, TypeOK, LockDiscipline,
      TreeCustody, SweepCustody, Holds, ForPinsEntry, Locked, Keyed, Waiting
<1>6. QED
  BY <1>1, <1>2, <1>3, <1>4, <1>5 DEF IInv

\* IInv is kept when removeAll empties the tree.
LEMMA SweepResetInv ==
  ASSUME IInv, NEW t \in Threads, SweepReset(t)
  PROVE  IInv'
<1>1. TypeOK'
  BY NullAssumption
  DEF SweepReset, Release, Goto, IInv, TypeOK, Places, Waiting,
      Locked, Unlocked, Keyed, Statuses
<1>2. LockDiscipline' /\ DeadIsIdle'
  BY NullAssumption
  DEF SweepReset, Release, Goto, IInv, TypeOK, LockDiscipline,
      DeadIsIdle, Waiting, Locked
<1>3. TreeCustody' /\ InsertCustody' /\ HandedCustody' /\ HandedOnce'
  BY NullAssumption DEF SweepReset, Release, Goto, IInv, TypeOK, LockDiscipline,
     TreeCustody, SweepCustody, Holds, InsertCustody, HandedCustody, HandedOnce,
     Locked, Keyed
<1>4. SweepCustody'
  BY NullAssumption
  DEF SweepReset, Release, Goto, IInv, TypeOK, LockDiscipline,
      TreeCustody, SweepCustody, Holds, InsertCustody, Locked, Keyed, Waiting
<1>5. ForPinsEntry'
  BY NullAssumption
  DEF SweepReset, Release, Goto, IInv, TypeOK, LockDiscipline,
      TreeCustody, SweepCustody, Holds, ForPinsEntry, Locked, Keyed, Waiting
<1>6. QED
  BY <1>1, <1>2, <1>3, <1>4, <1>5 DEF IInv

\* IInv is kept when removeAll hands out an entry of its own tree.
LEMMA SweepNextInv ==
  ASSUME IInv, NEW t \in Threads, SweepNext(t)
  PROVE  IInv'
<1>1. TypeOK'
  BY NullAssumption
  DEF SweepNext, KeepFirst, lockVars, IInv, TypeOK, Places, Waiting,
      Locked, Unlocked, Keyed, Statuses
<1>2. LockDiscipline' /\ DeadIsIdle'
  BY NullAssumption
  DEF SweepNext, KeepFirst, lockVars, IInv, TypeOK, LockDiscipline,
      DeadIsIdle, Waiting, Locked
<1>3. TreeCustody' /\ InsertCustody' /\ HandedCustody' /\ HandedOnce'
  BY NullAssumption DEF SweepNext, KeepFirst, lockVars, IInv, TypeOK,
     LockDiscipline, TreeCustody, SweepCustody, Holds, InsertCustody,
     HandedCustody, HandedOnce, Locked, Keyed
<1>4. SweepCustody'
  BY NullAssumption
  DEF SweepNext, KeepFirst, lockVars, IInv, TypeOK, LockDiscipline,
      TreeCustody, SweepCustody, Holds, InsertCustody, Locked, Keyed, Waiting
<1>5. ForPinsEntry'
  BY NullAssumption
  DEF SweepNext, KeepFirst, lockVars, IInv, TypeOK, LockDiscipline,
      TreeCustody, SweepCustody, Holds, ForPinsEntry, Locked, Keyed, Waiting
<1>6. QED
  BY <1>1, <1>2, <1>3, <1>4, <1>5 DEF IInv

\* IInv is kept when removeAll stops when its count is zero.
LEMMA SweepStopInv ==
  ASSUME IInv, NEW t \in Threads, SweepStop(t)
  PROVE  IInv'
<1>1. TypeOK'
  BY NullAssumption
  DEF SweepStop, Goto, lockVars, IInv, TypeOK, Places, Waiting,
      Locked, Unlocked, Keyed, Statuses
<1>2. LockDiscipline' /\ DeadIsIdle'
  BY NullAssumption
  DEF SweepStop, Goto, lockVars, IInv, TypeOK, LockDiscipline,
      DeadIsIdle, Waiting, Locked
<1>3. TreeCustody' /\ InsertCustody' /\ HandedCustody' /\ HandedOnce'
  BY NullAssumption DEF SweepStop, Goto, lockVars, IInv, TypeOK, LockDiscipline,
     TreeCustody, SweepCustody, Holds, InsertCustody, HandedCustody, HandedOnce,
     Locked, Keyed
<1>4. SweepCustody'
  BY NullAssumption
  DEF SweepStop, Goto, lockVars, IInv, TypeOK, LockDiscipline,
      TreeCustody, SweepCustody, Holds, InsertCustody, Locked, Keyed, Waiting
<1>5. ForPinsEntry'
  BY NullAssumption
  DEF SweepStop, Goto, lockVars, IInv, TypeOK, LockDiscipline,
      TreeCustody, SweepCustody, Holds, ForPinsEntry, Locked, Keyed, Waiting
<1>6. QED
  BY <1>1, <1>2, <1>3, <1>4, <1>5 DEF IInv

\* IInv is kept when removeAll returns.
LEMMA SweepReturnInv ==
  ASSUME IInv, NEW t \in Threads, SweepReturn(t)
  PROVE  IInv'
<1>1. TypeOK'
  BY NullAssumption
  DEF SweepReturn, Return, Goto, lockVars, IInv, TypeOK, Places, Waiting,
      Locked, Unlocked, Keyed, Statuses
<1>2. LockDiscipline' /\ DeadIsIdle'
  BY NullAssumption
  DEF SweepReturn, Return, Goto, lockVars, IInv, TypeOK, LockDiscipline,
      DeadIsIdle, Waiting, Locked
<1>3. TreeCustody' /\ InsertCustody' /\ HandedCustody' /\ HandedOnce'
  BY NullAssumption DEF SweepReturn, Return, Goto, lockVars, IInv, TypeOK,
     LockDiscipline, TreeCustody, SweepCustody, Holds, InsertCustody,
     HandedCustody, HandedOnce, Locked, Keyed
<1>4. SweepCustody'
  BY NullAssumption
  DEF SweepReturn, Return, Goto, lockVars, IInv, TypeOK, LockDiscipline,
      TreeCustody, SweepCustody, Holds, InsertCustody, Locked, Keyed, Waiting
<1>5. ForPinsEntry'
  BY NullAssumption
  DEF SweepReturn, Return, Goto, lockVars, IInv, TypeOK, LockDiscipline,
      TreeCustody, SweepCustody, Holds, ForPinsEntry, Locked, Keyed, Waiting
<1>6. QED
  BY <1>1, <1>2, <1>3, <1>4, <1>5 DEF IInv

\* IInv is kept when the map is destroyed.
LEMMA DestroyInv ==
  ASSUME IInv, Destroy
  PROVE  IInv'
<1>1. TypeOK'
  BY NullAssumption
  DEF Destroy, callVars, IInv, TypeOK, Places, Waiting,
      Locked, Unlocked, Keyed, Statuses
<1>2. LockDiscipline' /\ DeadIsIdle'
  BY NullAssumption
  DEF Destroy, callVars, IInv, TypeOK, LockDiscipline,
      DeadIsIdle, Waiting, Locked
<1>3. TreeCustody' /\ InsertCustody' /\ HandedCustody' /\ HandedOnce'
  BY NullAssumption DEF Destroy, callVars, IInv, TypeOK, LockDiscipline,
     TreeCustody, SweepCustody, Holds, InsertCustody, HandedCustody, HandedOnce,
     Locked, Keyed
<1>4. SweepCustody'
  BY NullAssumption
  DEF Destroy, callVars, IInv, TypeOK, LockDiscipline,
      TreeCustody, SweepCustody, Holds, InsertCustody, Locked, Keyed, Waiting
<1>5. ForPinsEntry'
  BY NullAssumption
  DEF Destroy, callVars, IInv, TypeOK, LockDiscipline,
      TreeCustody, SweepCustody, Holds, ForPinsEntry, Locked, Keyed, Waiting
<1>6. QED
  BY <1>1, <1>2, <1>3, <1>4, <1>5 DEF IInv

\* IInv is kept when nothing changes.
LEMMA StutterInv ==
  ASSUME IInv, UNCHANGED vars
  PROVE  IInv'
  BY DEF vars, IInv, TypeOK, LockDiscipline, DeadIsIdle, TreeCustody,
     SweepCustody, Holds, InsertCustody, HandedCustody, HandedOnce, ForPinsEntry

\* IInv is kept when any step is taken.
LEMMA NextInv == IInv /\ [Next]_vars => IInv'
<1> SUFFICES ASSUME IInv, [Next]_vars PROVE IInv'
  OBVIOUS
<1>1. CASE \E t \in Threads, op \in Waiting, k \in Keys \cup {NoKey} : Call(t, op, k)
  BY <1>1, CallInv
<1>2. ASSUME NEW t \in Threads, Enter(t)
      PROVE  IInv'
  BY <1>2, InsertLinkInv, RemoveFoundInv, RemoveAbsentInv, ForFoundInv,
     ForAbsentInv, ForeachBeginInv, SweepCopyInv DEF Enter
<1>3. ASSUME NEW t \in Threads, Continue(t)
      PROVE  IInv'
  BY <1>3, InsertNoMemInv, InsertCountInv, RemoveLoadInv, RemoveStoreInv,
     ForReturnInv, ForeachVisitInv, ForeachEndInv, SweepResetInv, SweepNextInv,
     SweepStopInv, SweepReturnInv DEF Continue
<1>4. CASE Destroy
  BY <1>4, DestroyInv
<1>5. CASE UNCHANGED vars
  BY <1>5, StutterInv
<1>6. QED
  BY <1>1, <1>2, <1>3, <1>4, <1>5 DEF Next

\* The invariant holds in every behaviour of the map.
THEOREM InvAlways == Spec => []IInv
<1>1. Init => IInv
  BY InitInv
<1>2. IInv /\ [Next]_vars => IInv'
  BY NextInv
<1>3. QED
  BY <1>1, <1>2, PTL DEF Spec

\* Every variable of the map keeps its type.
THEOREM TypeCorrect == Spec => []TypeOK
<1>1. IInv => TypeOK
  BY DEF IInv
<1>2. QED
  BY <1>1, InvAlways, PTL

\* The data of an entry is handed out at most once, whatever calls overlap.
THEOREM HandedOnceAlways == Spec => []HandedOnce
<1>1. IInv => HandedOnce
  BY DEF IInv
<1>2. QED
  BY <1>1, InvAlways, PTL

\* While the callback of `for` runs, its entry cannot leave the map.
THEOREM ForPinsEntryAlways == Spec => []ForPinsEntry
<1>1. IInv => ForPinsEntry
  BY DEF IInv
<1>2. QED
  BY <1>1, InvAlways, PTL

\* The lock is held exactly in the locked sections, and a map is destroyed with
\* its lock free.
THEOREM LockDisciplineAlways == Spec => []LockDiscipline
<1>1. IInv => LockDiscipline
  BY DEF IInv
<1>2. QED
  BY <1>1, InvAlways, PTL

-----------------------------------------------------------------------------
(* The first error of a call.                                              *)

\* A call that enumerates, from its beginning: what its return code says is what
\* its callbacks have reported.
Enumerating == {"foreach", "visiting", "removeAll", "copied", "sweeping", "swept"}
ErrorKept == \A t \in Threads : pc[t] \in Enumerating => (ret[t] # "OK" <=> failed[t])

\* A step of a call that leaves its return code and its errors alone.
LEMMA GotoKeepsError ==
  ASSUME TypeOK, ErrorKept, NEW t \in Threads, NEW place, Goto(t, place),
         UNCHANGED <<ret, failed>>,
         place \in Enumerating => pc[t] \in Enumerating
  PROVE  ErrorKept'
  BY DEF TypeOK, ErrorKept, Goto

\* A call returns.
LEMMA ReturnKeepsError ==
  ASSUME TypeOK, ErrorKept, NEW t \in Threads, NEW status, Return(t, status)
  PROVE  ErrorKept'
  BY DEF TypeOK, ErrorKept, Return, Goto, Enumerating

\* A callback of an enumeration returns.
LEMMA KeepFirstKeepsError ==
  ASSUME TypeOK, ErrorKept, NEW t \in Threads, pc[t] \in Enumerating,
         NEW status \in {"OK", "ERROR"}, KeepFirst(t, status), UNCHANGED pc
  PROVE  ErrorKept'
  BY DEF TypeOK, ErrorKept, KeepFirst

\* ErrorKept is kept when any step is taken.
LEMMA NextKeepsError == IInv /\ ErrorKept /\ [Next]_vars => ErrorKept'
<1> SUFFICES ASSUME IInv, ErrorKept, [Next]_vars PROVE ErrorKept'
  OBVIOUS
<1> USE DEF IInv
<1>1. ASSUME NEW t \in Threads, NEW op \in Waiting, NEW k \in Keys \cup {NoKey}, Call(t, op, k)
      PROVE  ErrorKept'
  BY <1>1 DEF Call, Goto, TypeOK, ErrorKept
<1>2. ASSUME NEW t \in Threads, Enter(t)
      PROVE  ErrorKept'
  <2>1. CASE RemoveAbsent(t) \/ ForAbsent(t)
    BY <2>1, ReturnKeepsError DEF RemoveAbsent, ForAbsent
  <2>2. CASE InsertLink(t) \/ RemoveFound(t) \/ ForFound(t)
    BY <2>2, GotoKeepsError DEF InsertLink, RemoveFound, ForFound, Enumerating
  <2>3. CASE ForeachBegin(t) \/ SweepCopy(t)
    BY <2>3, GotoKeepsError DEF ForeachBegin, SweepCopy, Enumerating
  <2>4. QED
    BY <1>2, <2>1, <2>2, <2>3 DEF Enter
<1>3. ASSUME NEW t \in Threads, Continue(t)
      PROVE  ErrorKept'
  <2>1. CASE InsertNoMem(t) \/ InsertCount(t) \/ RemoveStore(t) \/ ForReturn(t)
    BY <2>1, ReturnKeepsError DEF InsertNoMem, InsertCount, RemoveStore,
       ForReturn
  <2>2. CASE ForeachEnd(t) \/ SweepReturn(t)
    BY <2>2, ReturnKeepsError DEF ForeachEnd, SweepReturn
  <2>3. CASE RemoveLoad(t) \/ SweepReset(t) \/ SweepStop(t)
    BY <2>3, GotoKeepsError DEF RemoveLoad, SweepReset, SweepStop, Enumerating
  <2>4. CASE ForeachVisit(t) \/ SweepNext(t)
    BY <2>4, KeepFirstKeepsError DEF ForeachVisit, SweepNext, Enumerating
  <2>5. QED
    BY <1>3, <2>1, <2>2, <2>3, <2>4 DEF Continue
<1>4. CASE Destroy \/ UNCHANGED vars
  BY <1>4 DEF Destroy, vars, callVars, ErrorKept
<1>5. QED
  BY <1>1, <1>2, <1>3, <1>4 DEF Next

\* A call that enumerates entries reports an error exactly when one of its
\* callbacks has, whatever other calls do meanwhile.
THEOREM FirstErrorKeptAlways == Spec => []FirstErrorKept
<1>1. Init => ErrorKept
  BY DEF Init, ErrorKept, Enumerating
<1>2. IInv /\ ErrorKept /\ [Next]_vars => ErrorKept'
  BY NextKeepsError
<1>3. ErrorKept => FirstErrorKept
  BY DEF ErrorKept, FirstErrorKept, Enumerating
<1>4. QED
  BY <1>1, <1>2, <1>3, InvAlways, PTL DEF Spec

-----------------------------------------------------------------------------
(* The refinement of HandoffMap.                                           *)

W == [k \in Keys |-> Where(k)]

\* Where an entry is depends on the tree, on the sweeps in progress and on the
\* history only.
LEMMA SameWhere ==
  ASSUME UNCHANGED <<tree, inserted, handed>>,
         \A t \in Threads, k \in Keys : Holds(t, k)' <=> Holds(t, k)
  PROVE  W' = W
  BY DEF W, Where

\* An empty map is an empty hand-off.
LEMMA InitRefines == Init => Abstract!Init
  BY DEF Init, Abstract!Init, Where, Holds

\* No step of the hand-off: a thread calls the map.
LEMMA CallStutters ==
  ASSUME IInv, NEW t \in Threads, NEW op \in Waiting, NEW k \in Keys \cup {NoKey},
         Call(t, op, k)
  PROVE  W' = W
<1>1. \A u \in Threads, j \in Keys : Holds(u, j)' <=> Holds(u, j)
  BY DEF IInv, TypeOK, Call, Goto, Holds, Waiting
<1>2. QED
  BY <1>1, SameWhere DEF Call

\* No step of the hand-off: insert has no memory.
LEMMA InsertNoMemStutters ==
  ASSUME IInv, NEW t \in Threads, InsertNoMem(t)
  PROVE  W' = W
<1>1. \A u \in Threads, j \in Keys : Holds(u, j)' <=> Holds(u, j)
  BY DEF IInv, TypeOK, InsertNoMem, Return, Goto, lockVars, Holds
<1>2. QED
  BY <1>1, SameWhere DEF InsertNoMem

\* No step of the hand-off: insert counts the entry and unlocks.
LEMMA InsertCountStutters ==
  ASSUME IInv, NEW t \in Threads, InsertCount(t)
  PROVE  W' = W
<1>1. \A u \in Threads, j \in Keys : Holds(u, j)' <=> Holds(u, j)
  BY DEF IInv, TypeOK, InsertCount, Release, Return, Goto, Holds
<1>2. QED
  BY <1>1, SameWhere DEF InsertCount

\* No step of the hand-off: remove reads the count without the lock.
LEMMA RemoveLoadStutters ==
  ASSUME IInv, NEW t \in Threads, RemoveLoad(t)
  PROVE  W' = W
<1>1. \A u \in Threads, j \in Keys : Holds(u, j)' <=> Holds(u, j)
  BY DEF IInv, TypeOK, RemoveLoad, Goto, lockVars, Holds
<1>2. QED
  BY <1>1, SameWhere DEF RemoveLoad

\* No step of the hand-off: remove writes the count without the lock.
LEMMA RemoveStoreStutters ==
  ASSUME IInv, NEW t \in Threads, RemoveStore(t)
  PROVE  W' = W
<1>1. \A u \in Threads, j \in Keys : Holds(u, j)' <=> Holds(u, j)
  BY DEF IInv, TypeOK, RemoveStore, Return, Goto, lockVars, Holds
<1>2. QED
  BY <1>1, SameWhere DEF RemoveStore

\* No step of the hand-off: remove finds nothing.
LEMMA RemoveAbsentStutters ==
  ASSUME IInv, NEW t \in Threads, RemoveAbsent(t)
  PROVE  W' = W
<1>1. \A u \in Threads, j \in Keys : Holds(u, j)' <=> Holds(u, j)
  BY DEF IInv, TypeOK, RemoveAbsent, Return, Goto, lockVars, Holds
<1>2. QED
  BY <1>1, SameWhere DEF RemoveAbsent

\* No step of the hand-off: for calls back with the lock held.
LEMMA ForFoundStutters ==
  ASSUME IInv, NEW t \in Threads, ForFound(t)
  PROVE  W' = W
<1>1. \A u \in Threads, j \in Keys : Holds(u, j)' <=> Holds(u, j)
  BY DEF IInv, TypeOK, ForFound, Acquire, Goto, Holds
<1>2. QED
  BY <1>1, SameWhere DEF ForFound

\* No step of the hand-off: for unlocks.
LEMMA ForReturnStutters ==
  ASSUME IInv, NEW t \in Threads, ForReturn(t)
  PROVE  W' = W
<1>1. \A u \in Threads, j \in Keys : Holds(u, j)' <=> Holds(u, j)
  BY DEF IInv, TypeOK, ForReturn, Release, Return, Goto, Holds
<1>2. QED
  BY <1>1, SameWhere DEF ForReturn

\* No step of the hand-off: for finds nothing.
LEMMA ForAbsentStutters ==
  ASSUME IInv, NEW t \in Threads, ForAbsent(t)
  PROVE  W' = W
<1>1. \A u \in Threads, j \in Keys : Holds(u, j)' <=> Holds(u, j)
  BY DEF IInv, TypeOK, ForAbsent, Return, Goto, lockVars, Holds
<1>2. QED
  BY <1>1, SameWhere DEF ForAbsent

\* No step of the hand-off: foreach takes the lock.
LEMMA ForeachBeginStutters ==
  ASSUME IInv, NEW t \in Threads, ForeachBegin(t)
  PROVE  W' = W
<1>1. \A u \in Threads, j \in Keys : Holds(u, j)' <=> Holds(u, j)
  BY DEF IInv, TypeOK, ForeachBegin, Acquire, Goto, Holds
<1>2. QED
  BY <1>1, SameWhere DEF ForeachBegin

\* No step of the hand-off: foreach visits an entry.
LEMMA ForeachVisitStutters ==
  ASSUME IInv, NEW t \in Threads, ForeachVisit(t)
  PROVE  W' = W
<1>1. \A u \in Threads, j \in Keys : Holds(u, j)' <=> Holds(u, j)
  BY DEF IInv, TypeOK, ForeachVisit, KeepFirst, lockVars, Holds
<1>2. QED
  BY <1>1, SameWhere DEF ForeachVisit

\* No step of the hand-off: foreach unlocks.
LEMMA ForeachEndStutters ==
  ASSUME IInv, NEW t \in Threads, ForeachEnd(t)
  PROVE  W' = W
<1>1. \A u \in Threads, j \in Keys : Holds(u, j)' <=> Holds(u, j)
  BY DEF IInv, TypeOK, ForeachEnd, Release, Return, Goto, Holds
<1>2. QED
  BY <1>1, SameWhere DEF ForeachEnd

\* No step of the hand-off: removeAll copies the tree.
LEMMA SweepCopyStutters ==
  ASSUME IInv, NEW t \in Threads, SweepCopy(t)
  PROVE  W' = W
<1>1. \A u \in Threads, j \in Keys : Holds(u, j)' <=> Holds(u, j)
  BY DEF IInv, TypeOK, SweepCopy, Acquire, Goto, Holds
<1>2. QED
  BY <1>1, SameWhere DEF SweepCopy

\* No step of the hand-off: removeAll stops when its count is zero.
LEMMA SweepStopStutters ==
  ASSUME IInv, NEW t \in Threads, SweepStop(t)
  PROVE  W' = W
<1>1. \A u \in Threads, j \in Keys : Holds(u, j)' <=> Holds(u, j)
  BY DEF IInv, TypeOK, SweepStop, Goto, lockVars, Holds
<1>2. QED
  BY <1>1, SameWhere DEF SweepStop

\* The six steps that move entries.  In each, the entries that move are named and
\* shown to be where the abstract step takes them from.
LEMMA InsertLinkPuts ==
  ASSUME IInv, NEW t \in Threads, InsertLink(t)
  PROVE  Abstract!Put(arg[t])
<1>1. arg[t] \in Keys
  BY DEF IInv, TypeOK, InsertLink, Keyed
<1>2. \A u \in Threads, j \in Keys : Holds(u, j)' <=> Holds(u, j)
  BY DEF IInv, TypeOK, InsertLink, Goto, Holds
<1>3. Where(arg[t]) = "outside"
  BY <1>1 DEF IInv, InsertLink, TreeCustody, SweepCustody, InsertCustody,
     HandedCustody, TypeOK, Where
<1>4. \A j \in Keys : Where(j)' = IF j \in {arg[t]} THEN "inside" ELSE Where(j)
  BY <1>1, <1>2 DEF InsertLink, Where
<1>5. QED
  BY <1>1, <1>3, <1>4 DEF Abstract!Put, Abstract!Move

\* A step of the hand-off: remove hands the entry to its caller.
LEMMA RemoveFoundGives ==
  ASSUME IInv, NEW t \in Threads, RemoveFound(t)
  PROVE  Abstract!Give(arg[t])
<1>1. arg[t] \in Keys /\ arg[t] \in tree
  BY DEF IInv, TypeOK, RemoveFound, Keyed
<1>2. \A u \in Threads, j \in Keys : Holds(u, j)' <=> Holds(u, j)
  BY DEF IInv, TypeOK, RemoveFound, Goto, lockVars, Holds
<1>3. \A u \in Threads : ~Holds(u, arg[t])
  BY <1>1 DEF IInv, SweepCustody
<1>4. \A j \in Keys : handed'[j] > 0 <=> (handed[j] > 0 \/ j = arg[t])
  BY <1>1 DEF IInv, TypeOK, TreeCustody, RemoveFound
<1>5. \A j \in Keys : Where(j)' = IF j \in {arg[t]} THEN "handed" ELSE Where(j)
  BY <1>1, <1>2, <1>3, <1>4 DEF IInv, TypeOK, RemoveFound, Where
<1>6. QED
  BY <1>1, <1>5 DEF Abstract!Give, Abstract!Move, Where

\* A step of the hand-off: removeAll empties the tree.
LEMMA SweepResetSweeps ==
  ASSUME IInv, NEW t \in Threads, SweepReset(t)
  PROVE  Abstract!Sweep \/ W' = W
<1>1. \A j \in Keys : Holds(t, j)' <=> j \in tree
  BY DEF IInv, TypeOK, SweepReset, SweepCustody, Goto, Holds
<1>2. \A u \in Threads, j \in Keys : u # t => (Holds(u, j)' <=> Holds(u, j))
  BY DEF IInv, TypeOK, SweepReset, Goto, Holds
<1>3. \A j \in Keys : ~Holds(t, j)
  BY DEF SweepReset, Holds
<1>4. \A j \in Keys : Where(j)' = IF j \in tree THEN "claimed" ELSE Where(j)
  BY <1>1, <1>2, <1>3 DEF SweepReset, Where
<1>5. Abstract!Inside = tree
  BY DEF IInv, TypeOK, Abstract!Inside, Where
<1>6. CASE tree = {}
  BY <1>4, <1>6 DEF W
<1>7. CASE tree # {}
  BY <1>4, <1>5, <1>7 DEF IInv, TypeOK, Abstract!Sweep, Abstract!Move, Where
<1>8. QED
  BY <1>6, <1>7

\* A step of the hand-off: removeAll hands out an entry of its own tree.
LEMMA SweepNextDelivers ==
  ASSUME IInv, NEW t \in Threads, SweepNext(t)
  PROVE  \E k \in Keys : Abstract!Deliver(k)
<1>1. PICK k \in pending[t] :
        /\ pending' = [pending EXCEPT ![t] = @ \ {k}]
        /\ handed' = [handed EXCEPT ![k] = @ + 1]
  BY DEF SweepNext
<1>2. k \in Keys /\ Holds(t, k)
  BY <1>1 DEF IInv, TypeOK, SweepNext, Holds
<1>3. k \notin tree /\ handed[k] = 0 /\ \A u \in Threads : Holds(u, k) => u = t
  BY <1>2 DEF IInv, SweepCustody
<1>4. \A u \in Threads, j \in Keys :
        Holds(u, j)' <=> (Holds(u, j) /\ (j = k => u # t))
  BY <1>1, <1>2, <1>3 DEF IInv, TypeOK, SweepNext, lockVars, Holds
<1>5. \A j \in Keys : Where(j)' = IF j \in {k} THEN "handed" ELSE Where(j)
  BY <1>1, <1>2, <1>3, <1>4 DEF IInv, TypeOK, SweepNext, Where
<1>6. Where(k) = "claimed"
  BY <1>2, <1>3 DEF Where
<1>7. Abstract!Deliver(k)
  BY <1>2, <1>5, <1>6 DEF Abstract!Deliver, Abstract!Move
<1>8. QED
  BY <1>2, <1>7

\* A step of the hand-off: removeAll returns.
LEMMA SweepReturnAbandons ==
  ASSUME IInv, NEW t \in Threads, SweepReturn(t)
  PROVE  (\E S \in SUBSET Keys : Abstract!Abandon(S)) \/ W' = W
<1> DEFINE S == pending[t]
<1>1. S \subseteq Keys /\ \A k \in S : Holds(t, k)
  BY DEF IInv, TypeOK, SweepReturn, Holds
<1>2. \A k \in S : /\ k \in inserted /\ k \notin tree /\ handed[k] = 0
                   /\ \A u \in Threads : Holds(u, k) => u = t
  BY <1>1 DEF IInv, SweepCustody
<1>3. \A u \in Threads, j \in Keys : Holds(u, j)' <=> (Holds(u, j) /\ u # t)
  BY DEF IInv, TypeOK, SweepReturn, Return, Goto, Holds
<1>4. \A j \in Keys : Where(j)' = IF j \in S THEN "lost" ELSE Where(j)
  BY <1>1, <1>2, <1>3 DEF SweepReturn, Where, Holds
<1>5. \A k \in S : Where(k) = "claimed"
  BY <1>1, <1>2 DEF Where
<1>6. CASE S = {}
  BY <1>4, <1>6 DEF W
<1>7. CASE S # {}
  BY <1>1, <1>4, <1>5, <1>7 DEF Abstract!Abandon, Abstract!Move
<1>8. QED
  BY <1>6, <1>7

\* A step of the hand-off: the map is destroyed.
LEMMA DestroyDiscards ==
  ASSUME IInv, Destroy
  PROVE  Abstract!Discard \/ W' = W
<1>1. \A u \in Threads, j \in Keys : ~Holds(u, j) /\ ~Holds(u, j)'
  BY DEF IInv, TypeOK, Destroy, callVars, Holds
<1>2. \A j \in tree : j \in inserted /\ handed[j] = 0
  BY DEF IInv, TreeCustody
<1>3. \A j \in Keys : Where(j)' = IF j \in tree THEN "lost" ELSE Where(j)
  BY <1>1, <1>2 DEF Destroy, Where
<1>4. Abstract!Inside = tree
  BY DEF IInv, TypeOK, Abstract!Inside, Where
<1>5. CASE tree = {}
  BY <1>3, <1>5 DEF W
<1>6. CASE tree # {}
  BY <1>3, <1>4, <1>6 DEF IInv, TypeOK, Abstract!Discard, Abstract!Move, Where
<1>7. QED
  BY <1>5, <1>6

\* Every step of the map is a step of the hand-off or leaves it alone.
LEMMA NextRefines == IInv /\ [Next]_vars => [Abstract!Next]_W
<1> SUFFICES ASSUME IInv, [Next]_vars PROVE Abstract!Next \/ W' = W
  OBVIOUS
<1>1. CASE \E t \in Threads, op \in Waiting, k \in Keys \cup {NoKey} : Call(t, op, k)
  BY <1>1, CallStutters
<1>2. ASSUME NEW t \in Threads, Enter(t)
      PROVE  Abstract!Next \/ W' = W
  <2>1. CASE InsertLink(t)
    <3>1. arg[t] \in Keys
      BY <2>1 DEF IInv, TypeOK, InsertLink, Keyed
    <3>2. QED
      BY <2>1, <3>1, InsertLinkPuts DEF Abstract!Next
  <2>2. CASE RemoveFound(t)
    <3>1. arg[t] \in Keys
      BY <2>2 DEF IInv, TypeOK, RemoveFound, Keyed
    <3>2. QED
      BY <2>2, <3>1, RemoveFoundGives DEF Abstract!Next
  <2>3. QED
    BY <1>2, <2>1, <2>2, RemoveAbsentStutters, ForFoundStutters,
       ForAbsentStutters, ForeachBeginStutters, SweepCopyStutters DEF Enter
<1>3. ASSUME NEW t \in Threads, Continue(t)
      PROVE  Abstract!Next \/ W' = W
  <2>1. CASE SweepReset(t)
    BY <2>1, SweepResetSweeps DEF Abstract!Next
  <2>2. CASE SweepNext(t)
    BY <2>2, SweepNextDelivers DEF Abstract!Next
  <2>3. CASE SweepReturn(t)
    BY <2>3, SweepReturnAbandons DEF Abstract!Next
  <2>4. QED
    BY <1>3, <2>1, <2>2, <2>3, InsertNoMemStutters, InsertCountStutters,
       RemoveLoadStutters, RemoveStoreStutters, ForReturnStutters,
       ForeachVisitStutters, ForeachEndStutters, SweepStopStutters
    DEF Continue
<1>4. CASE Destroy
  BY <1>4, DestroyDiscards DEF Abstract!Next
<1>5. CASE UNCHANGED vars
  BY <1>5 DEF vars, W, Where, Holds
<1>6. QED
  BY <1>1, <1>2, <1>3, <1>4, <1>5 DEF Next

\* The map is an atomic hand-off: whatever its calls interleave, an entry goes in
\* once and leaves in one step, alone or with everything else that is inside.
THEOREM MapImplementsHandoff == Spec => ImplementsHandoff
<1>1. Init => Abstract!Init
  BY InitRefines
<1>2. IInv /\ [Next]_vars => [Abstract!Next]_W
  BY NextRefines
<1>3. QED
  BY <1>1, <1>2, InvAlways, PTL DEF Spec, ImplementsHandoff, Abstract!Spec, W
=============================================================================
