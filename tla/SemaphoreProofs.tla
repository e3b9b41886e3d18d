--------------------------- MODULE SemaphoreProofs ---------------------------
(***************************************************************************)
(* Theorems about module Semaphore for every set of tasks, every           *)
(* MaxAvailable and every choice of the other constants: the release lock, *)
(* poison, and what each operation does to the queue.                      *)
(***************************************************************************)
EXTENDS SemaphoreProperties, PermitsProofs

USE MaxAvailableAssumption, ConstantsAssumption

\* The words the exchanges write, and the groups of variables they leave alone.
USE DEF Queued, Available, Unlocked, Locked, LockedDirty,
        semaphoreVars, nodeVars, localVars, clientVars, historyVars

\* What the shared parts of the actions do to the types: the return from
\* release() ...
LEMMA ReturnType ==
  ASSUME TypeOK, NEW t \in Tasks, ReturnFromRelease(t)
  PROVE  pc' \in [Tasks -> PC] /\ call' \in [Tasks -> Call]
         /\ poison' \in {"no", "called", "returned"}
BY DEF TypeOK, ReturnFromRelease, Goto, PC, OwnerPC, Call

\* ... the end of a future ...
LEMMA EndFutureType ==
  ASSUME TypeOK, NEW t \in Tasks, EndFuture(t)
  PROVE  /\ step' \in [Tasks -> AcquireStep] /\ amount' \in [Tasks -> Nat]
         /\ waker' \in [Tasks -> WakerState] /\ woken' \in [Tasks -> BOOLEAN]
         /\ next' \in [Tasks -> Pointer] /\ prev' \in [Tasks -> Pointer]
         /\ cancelNext' \in [Tasks -> Pointer]
BY DEF TypeOK, EndFuture, AcquireStep, WakerState, Pointer

\* ... and the call of release().
LEMMA BeginReleaseType ==
  ASSUME TypeOK, NEW t \in Tasks, NEW c \in Call, NEW p \in PermitCount, BeginRelease(t, c, p)
  PROVE  pc' \in [Tasks -> PC] /\ call' \in [Tasks -> Call]
         /\ releasable' \in [Tasks -> PermitCount]
<1>1. /\ pc \in [Tasks -> PC] /\ call \in [Tasks -> Call]
      /\ releasable \in [Tasks -> PermitCount]
  BY DEF TypeOK
<1>2. /\ pc' = [pc EXCEPT ![t] = "lock"] /\ call' = [call EXCEPT ![t] = c]
      /\ releasable' = [releasable EXCEPT ![t] = p]
  BY DEF BeginRelease, Goto
<1>3. "lock" \in PC
  BY DEF PC
<1> QED  BY <1>1, <1>2, <1>3

\* Every step of a task keeps the types.
LEMMA TypeOKStep ==
  ASSUME LockInv, NEW t \in Tasks, Begin(t) \/ Continue(t)
  PROVE  TypeOK'
<1> USE DEF LockInv, TypeOK, Pointer, WakerState, AcquireStep, OwnerPC, PC, Call,
            Goto, FinishPoll, Leave,
            NoFuture, TakePermits, Pending, NobodyWaits, CanLock, MayUnlock, MendPrev, AcceptCancel, Finish,
            Settling, Stuck, Satisfies, CursorSet
<1>1. CASE \E n \in Amounts : PollEnterAcquire(t, n)
  BY <1>1, PermitArithmetic DEF PollEnterAcquire
<1>2. CASE \E n \in Amounts : PollEnterQueue(t, n)
  BY <1>2, BeginReleaseType, PermitArithmetic DEF PollEnterQueue
<1>3. CASE \E n \in Amounts : TryAcquire(t, n)
  BY <1>3, PermitArithmetic DEF TryAcquire
<1>4. CASE \E n \in Releases : Release(t, n)
  BY <1>4, BeginReleaseType, PermitArithmetic DEF Release
<1>5. CASE PollReady(t)
  BY <1>5, EndFutureType DEF PollReady
<1>6. CASE PollStore(t)
  BY <1>6 DEF PollStore
<1>7. CASE DropFinished(t)
  <2>1. CASE waker[t] = "Finished"
    BY <1>7, <2>1, BeginReleaseType, EndFutureType, PermitArithmetic DEF DropFinished
  <2>2. CASE waker[t] = "Poisoned"
    BY <1>7, <2>2, EndFutureType DEF DropFinished
  <2> QED  BY <1>7, <2>1, <2>2 DEF DropFinished
<1>8. CASE StartCancel(t)
  BY <1>8 DEF StartCancel
<1>9. CASE Poison(t)
  BY <1>9, BeginReleaseType, PermitArithmetic DEF Poison
<1>10. CASE DropGuard(t)
  BY <1>10, BeginReleaseType, PermitArithmetic DEF DropGuard
<1>11. CASE DropGuardPanicking(t)
  BY <1>11, BeginReleaseType, PermitArithmetic DEF DropGuardPanicking
<1>12. CASE Forget(t)
  BY <1>12 DEF Forget
<1>13. CASE PollStored(t)
  <2>1. CASE waker[t] = "Storing"
    BY <1>13, <2>1 DEF PollStored
  <2>2. CASE waker[t] # "Storing"
    <3>1. EndFuture(t) /\ held' \in [Tasks -> Nat]
      BY <1>13, <2>2 DEF PollStored
    <3>2. /\ pc' \in [Tasks -> PC]
          /\ UNCHANGED <<call, releasable, todo, cursor, back, semaphoreVars, historyVars>>
      BY <1>13 DEF PollStored
    <3> QED  BY <3>1, <3>2, EndFutureType
  <2> QED  BY <2>1, <2>2
<1>14. CASE PushCancel(t)
  BY <1>14, BeginReleaseType, PermitArithmetic DEF PushCancel
<1>15. CASE WaitCancel(t)
  BY <1>15, EndFutureType DEF WaitCancel
<1>16. CASE LockOrElseDefer(t)
  <2>1. CASE CanLock
    <3>1. /\ release' \in [tag: {"Unlocked", "Locked", "LockedDirty"}, permits: PermitCount]
          /\ release'.tag = "Locked" => release'.permits = 0
      BY <1>16, <2>1, PermitArithmetic DEF LockOrElseDefer
    <3>2. releasable' \in [Tasks -> PermitCount]
      <4>1. AddPermits(releasable[t], release.permits) \in PermitCount
        BY PermitArithmetic
      <4> QED  BY <1>16, <2>1, <4>1 DEF LockOrElseDefer
    <3> QED  BY <1>16, <2>1, <3>1, <3>2 DEF LockOrElseDefer
  <2>2. CASE ~CanLock
    <3>1. /\ pc' \in [Tasks -> PC] /\ call' \in [Tasks -> Call]
          /\ poison' \in {"no", "called", "returned"}
      BY <1>16, <2>2, ReturnType DEF LockOrElseDefer
    <3>2. /\ release' \in [tag: {"Unlocked", "Locked", "LockedDirty"}, permits: PermitCount]
          /\ release'.tag = "Locked" => release'.permits = 0
      BY <1>16, <2>2, PermitArithmetic DEF LockOrElseDefer
    <3>3. releasable' \in [Tasks -> PermitCount]
      <4>1. releasable' = [releasable EXCEPT ![t] = 0]
        BY <1>16, <2>2 DEF LockOrElseDefer
      <4> QED  BY <4>1, PermitArithmetic
    <3> QED  BY <1>16, <2>2, <3>1, <3>2, <3>3 DEF LockOrElseDefer
  <2> QED  BY <2>1, <2>2
<1>17. CASE SwapCancel(t)
  BY <1>17 DEF SwapCancel
<1>18. CASE FlipAvailable(t)
  BY <1>18, PermitArithmetic DEF FlipAvailable
<1>19. CASE FlipNothing(t)
  BY <1>19 DEF FlipNothing
<1>20. CASE FlipTake(t)
  BY <1>20 DEF FlipTake
<1>21. CASE LinkNext(t)
  BY <1>21 DEF LinkNext
<1>22. CASE LinkLast(t)
  <2>1. front' \in Pointer /\ middle' \in Pointer
    BY <1>22 DEF LinkLast
  <2>2. next' \in [Tasks -> Pointer] /\ prev' \in [Tasks -> Pointer]
    <3>1. cursor[t] \in Pointer
      OBVIOUS
    <3>2. \/ UNCHANGED <<next, prev>>
          \/ /\ next' = [next EXCEPT ![middle] = cursor[t]]
             /\ prev' = [prev EXCEPT ![cursor[t]] = middle]
      BY <1>22 DEF LinkLast
    <3>3. next' \in [Tasks -> Pointer]
      BY <3>1, <3>2
    <3>4. prev' \in [Tasks -> Pointer]
      BY <3>2
    <3> QED  BY <3>3, <3>4
  <2> QED  BY <1>22, <2>1, <2>2 DEF LinkLast
<1>23. CASE Cancel(t)
  <2>1. todo[t] \in Tasks /\ next[todo[t]] \in Pointer /\ prev[todo[t]] \in Pointer
    BY <1>23 DEF Cancel
  <2>2. front' \in Pointer /\ middle' \in Pointer
    BY <1>23, <2>1 DEF Cancel
  <2>3. next' \in [Tasks -> Pointer] /\ prev' \in [Tasks -> Pointer]
    BY <1>23, <2>1 DEF Cancel
  <2> QED  BY <1>23, <2>1, <2>2, <2>3 DEF Cancel
<1>24. CASE TryPop(t)
  <2>1. front \in Tasks /\ next[front] \in Pointer
    BY <1>24 DEF TryPop
  <2>2. releasable' \in [Tasks -> PermitCount]
    BY <1>24, <2>1, PermitArithmetic DEF TryPop, SubPermits
  <2>3. prev' \in [Tasks -> Pointer]
    BY <1>24, <2>1 DEF TryPop
  <2>4. /\ waker' \in [Tasks -> WakerState] /\ pc' \in [Tasks -> PC]
        /\ cursor' \in [Tasks -> Pointer]
    <3>1. waker' \in [Tasks -> WakerState]
      BY <1>24 DEF TryPop
    <3>2. \/ UNCHANGED <<pc, cursor>>
          \/ /\ pc' = [pc EXCEPT ![t] = "wake"]
             /\ cursor' = [cursor EXCEPT ![t] = front]
      BY <1>24 DEF TryPop
    <3>3. pc' \in [Tasks -> PC]
      BY <3>2
    <3>4. cursor' \in [Tasks -> Pointer]
      BY <2>1, <3>2
    <3> QED  BY <3>1, <3>3, <3>4
  <2>5. front' \in Pointer /\ middle' \in Pointer /\ ahead' \in [Tasks -> SUBSET Tasks]
    BY <1>24, <2>1 DEF TryPop
  <2>6. UNCHANGED <<acquire, release, nextCancel, step, amount, next, cancelNext, call, todo, back,
                    clientVars, supply, forgotten, poison>>
    BY <1>24 DEF TryPop
  <2> QED  BY <2>2, <2>3, <2>4, <2>5, <2>6
<1>25. CASE Wake(t)
  BY <1>25 DEF Wake
<1>26. CASE TryUnlock(t)
  <2>1. CASE MayUnlock
    <3>1. /\ pc' \in [Tasks -> PC] /\ call' \in [Tasks -> Call]
          /\ poison' \in {"no", "called", "returned"}
      BY <1>26, <2>1, ReturnType DEF TryUnlock
    <3>2. /\ release' \in [tag: {"Unlocked", "Locked", "LockedDirty"}, permits: PermitCount]
          /\ release'.tag = "Locked" => release'.permits = 0
      BY <1>26, <2>1 DEF TryUnlock
    <3>3. releasable' \in [Tasks -> PermitCount]
      <4>1. releasable' = [releasable EXCEPT ![t] = 0]
        BY <1>26, <2>1 DEF TryUnlock
      <4> QED  BY <4>1, PermitArithmetic
    <3> QED  BY <1>26, <2>1, <3>1, <3>2, <3>3 DEF TryUnlock
  <2>2. CASE ~MayUnlock
    <3>1. /\ release' \in [tag: {"Unlocked", "Locked", "LockedDirty"}, permits: PermitCount]
          /\ release'.tag = "Locked" => release'.permits = 0
      BY <1>26, <2>2, PermitArithmetic DEF TryUnlock
    <3>2. releasable' \in [Tasks -> PermitCount]
      <4>1. AddPermits(releasable[t], release.permits) \in PermitCount
        BY PermitArithmetic
      <4> QED  BY <1>26, <2>2, <4>1 DEF TryUnlock
    <3> QED  BY <1>26, <2>2, <3>1, <3>2 DEF TryUnlock
  <2> QED  BY <2>1, <2>2
<1> QED
  BY <1>1, <1>2, <1>3, <1>4, <1>5, <1>6, <1>7, <1>8, <1>9, <1>10, <1>11, <1>12, <1>13,
     <1>14, <1>15, <1>16, <1>17, <1>18, <1>19, <1>20, <1>21, <1>22, <1>23, <1>24, <1>25, <1>26
  DEF Begin, Poll, DropFuture, Continue

\* The release lock, the blank locals and the cursors under a step of task t.
LEMMA ControlStep ==
  ASSUME LockInv, NEW t \in Tasks, Begin(t) \/ Continue(t)
  PROVE  LockExclusion' /\ ReleasableBlank' /\ CursorSet'
<1> USE DEF LockInv, TypeOK, LockExclusion, ReleasableBlank, CursorSet, Owner, OwnerPC,
            Goto, BeginRelease, ReturnFromRelease, FinishPoll, EndFuture, NoFuture,
            TakePermits, CanLock, MayUnlock, AcceptCancel, Finish, Settling, Stuck, Pointer
<1>1. CASE \E n \in Amounts : PollEnterAcquire(t, n)
  BY <1>1 DEF PollEnterAcquire
<1>2. CASE \E n \in Amounts : PollEnterQueue(t, n)
  BY <1>2 DEF PollEnterQueue
<1>3. CASE \E n \in Amounts : TryAcquire(t, n)
  BY <1>3 DEF TryAcquire
<1>4. CASE \E n \in Releases : Release(t, n)
  BY <1>4 DEF Release
<1>5. CASE PollReady(t)
  BY <1>5 DEF PollReady
<1>6. CASE PollStore(t)
  BY <1>6 DEF PollStore
<1>7. CASE DropFinished(t)
  <2>1. /\ pc[t] = "idle" /\ pc'[t] \in {"idle", "lock"}
        /\ pc'[t] = "idle" => releasable' = releasable
        /\ \A u \in Tasks \ {t} : pc'[u] = pc[u] /\ releasable'[u] = releasable[u]
        /\ UNCHANGED <<release, cursor>>
    BY <1>7 DEF DropFinished
  <2> QED  BY <2>1
<1>8. CASE StartCancel(t)
  BY <1>8 DEF StartCancel
<1>9. CASE Poison(t)
  BY <1>9 DEF Poison
<1>10. CASE DropGuard(t)
  BY <1>10 DEF DropGuard
<1>11. CASE DropGuardPanicking(t)
  BY <1>11 DEF DropGuardPanicking
<1>12. CASE Forget(t)
  BY <1>12 DEF Forget
<1>13. CASE PollStored(t)
  BY <1>13 DEF PollStored
<1>14. CASE PushCancel(t)
  BY <1>14 DEF PushCancel
<1>15. CASE WaitCancel(t)
  BY <1>15 DEF WaitCancel
<1>16. CASE LockOrElseDefer(t)
  <2>1. CASE CanLock
    <3>1. /\ release.tag = "Unlocked" /\ release'.tag = "Locked" /\ pc'[t] = "swap"
          /\ \A u \in Tasks \ {t} : pc'[u] = pc[u] /\ releasable'[u] = releasable[u]
          /\ cursor' = cursor
      BY <1>16, <2>1 DEF LockOrElseDefer
    <3>2. \A u \in Tasks \ {t} : ~Owner(u) /\ ~Owner(u)'
      BY <3>1
    <3>3. LockExclusion'
      BY <3>1, <3>2
    <3>4. ReleasableBlank'
      BY <3>1
    <3>5. CursorSet'
      BY <3>1
    <3> QED  BY <3>3, <3>4, <3>5
  <2>2. CASE ~CanLock
    <3>1. /\ pc[t] = "lock" /\ pc'[t] \in {"idle", "wait_cancel"}
          /\ \A u \in Tasks \ {t} : pc'[u] = pc[u] /\ releasable'[u] = releasable[u]
          /\ cursor' = cursor
      BY <1>16, <2>2 DEF LockOrElseDefer
    <3>2. release.tag # "Unlocked" /\ release'.tag = "LockedDirty" /\ releasable'[t] = 0
      BY <1>16, <2>2 DEF LockOrElseDefer
    <3> QED  BY <3>1, <3>2
  <2> QED  BY <2>1, <2>2
<1>17. CASE SwapCancel(t)
  BY <1>17 DEF SwapCancel
<1>18. CASE FlipAvailable(t)
  BY <1>18 DEF FlipAvailable
<1>19. CASE FlipNothing(t)
  BY <1>19 DEF FlipNothing
<1>20. CASE FlipTake(t)
  BY <1>20 DEF FlipTake
<1>21. CASE LinkNext(t)
  BY <1>21 DEF LinkNext
<1>22. CASE LinkLast(t)
  BY <1>22 DEF LinkLast
<1>23. CASE Cancel(t)
  BY <1>23 DEF Cancel
<1>24. CASE TryPop(t)
  <2>1. /\ pc[t] = "settle" /\ pc'[t] \in {"settle", "wake"}
        /\ pc'[t] = "wake" => cursor'[t] = front
        /\ \A u \in Tasks \ {t} : pc'[u] = pc[u] /\ releasable'[u] = releasable[u]
        /\ \A u \in Tasks \ {t} : cursor'[u] = cursor[u]
        /\ release' = release
    BY <1>24 DEF TryPop
  <2>2. front \in Tasks
    BY <1>24 DEF TryPop
  <2>3. \A u \in Tasks : Owner(u)' <=> Owner(u)
    BY <2>1
  <2>4. LockExclusion'
    BY <2>1, <2>3
  <2>5. ReleasableBlank'
    BY <2>1, <2>3
  <2>6. CursorSet'
    BY <2>1, <2>2
  <2> QED  BY <2>4, <2>5, <2>6
<1>25. CASE Wake(t)
  BY <1>25 DEF Wake
<1>26. CASE TryUnlock(t)
  <2>1. CASE MayUnlock
    <3>1. /\ pc[t] \in OwnerPC /\ pc'[t] \in {"idle", "wait_cancel"}
          /\ \A u \in Tasks \ {t} : pc'[u] = pc[u] /\ releasable'[u] = releasable[u]
          /\ cursor' = cursor
      BY <1>26, <2>1 DEF TryUnlock
    <3>2. release'.tag = "Unlocked" /\ releasable'[t] = 0
      BY <1>26, <2>1 DEF TryUnlock
    <3>3. \A u \in Tasks : ~Owner(u)'
      BY <3>1
    <3>4. LockExclusion'
      BY <3>2, <3>3
    <3>5. ReleasableBlank'
      BY <3>1, <3>2
    <3>6. CursorSet'
      BY <3>1
    <3> QED  BY <3>4, <3>5, <3>6
  <2>2. CASE ~MayUnlock
    <3>1. /\ pc[t] = "settle" /\ pc'[t] = "swap" /\ release'.tag = "Locked"
          /\ \A u \in Tasks \ {t} : pc'[u] = pc[u] /\ releasable'[u] = releasable[u]
          /\ cursor' = cursor
      BY <1>26, <2>2 DEF TryUnlock
    <3>2. release.tag = "LockedDirty"
      BY <1>26, <2>2 DEF TryUnlock
    <3> QED  BY <3>1, <3>2
  <2> QED  BY <2>1, <2>2
<1> QED
  BY <1>1, <1>2, <1>3, <1>4, <1>5, <1>6, <1>7, <1>8, <1>9, <1>10, <1>11, <1>12, <1>13,
     <1>14, <1>15, <1>16, <1>17, <1>18, <1>19, <1>20, <1>21, <1>22, <1>23, <1>24, <1>25, <1>26
  DEF Begin, Poll, DropFuture, Continue

\* LockInv holds in every reachable state: no two tasks hold the release
\* lock that the exchanges on `release` make, and every word keeps its type.
THEOREM LockInvariant == Spec => []LockInv
<1>1. Init => LockInv
  BY PermitArithmetic DEF Init, LockInv, TypeOK, LockExclusion, ReleasableBlank, CursorSet, Owner,
     OwnerPC, PC, Call, Pointer, AcquireStep, WakerState
<1>2. LockInv /\ [Next]_vars => LockInv'
  <2> SUFFICES ASSUME LockInv, [Next]_vars PROVE LockInv'
    OBVIOUS
  <2>1. ASSUME NEW t \in Tasks, Begin(t) \/ Continue(t) PROVE LockInv'
    BY <2>1, TypeOKStep, ControlStep DEF LockInv
  <2>2. CASE UNCHANGED vars
    BY <2>2 DEF vars, LockInv, TypeOK, LockExclusion, ReleasableBlank, CursorSet, Owner
  <2> QED  BY <2>1, <2>2 DEF Next
<1> QED  BY <1>1, <1>2, PTL DEF Spec

\* No step of task t loses the poison.
LEMMA PoisonStep ==
  ASSUME LockInv, NEW t \in Tasks, Begin(t) \/ Continue(t)
  PROVE  /\ Poisoned => Poisoned'
         /\ acquire = Available(POISON) => acquire' = acquire
<1> USE DEF LockInv, TypeOK, ReleasableBlank, Owner, OwnerPC, Poisoned,
            Goto, BeginRelease, ReturnFromRelease, FinishPoll, EndFuture, NoFuture,
            TakePermits, CanLock, MayUnlock, NobodyWaits, Finish, Settling, Stuck, Satisfies, Pointer
<1>1. CASE \E n \in Amounts : PollEnterAcquire(t, n)
  BY <1>1 DEF PollEnterAcquire
<1>2. CASE \E n \in Amounts : PollEnterQueue(t, n)
  <2>1. release' = release /\ \A u \in Tasks \ {t} : releasable'[u] = releasable[u]
    BY <1>2 DEF PollEnterQueue
  <2>2. releasable[t] # POISON /\ acquire.permits # POISON
    BY <1>2, PermitArithmetic DEF PollEnterQueue
  <2> QED  BY <1>2, <2>1, <2>2 DEF PollEnterQueue
<1>3. CASE \E n \in Amounts : TryAcquire(t, n)
  BY <1>3 DEF TryAcquire
<1>4. CASE \E n \in Releases : Release(t, n)
  <2>1. UNCHANGED <<acquire, release>>
    BY <1>4 DEF Release
  <2>2. \A u \in Tasks \ {t} : releasable'[u] = releasable[u]
    BY <1>4 DEF Release
  <2>3. releasable[t] # POISON
    BY <1>4, PermitArithmetic DEF Release
  <2> QED  BY <2>1, <2>2, <2>3
<1>5. CASE PollReady(t)
  BY <1>5 DEF PollReady
<1>6. CASE PollStore(t)
  BY <1>6 DEF PollStore
<1>7. CASE DropFinished(t)
  <2>1. /\ UNCHANGED <<acquire, release>>
        /\ \A u \in Tasks \ {t} : releasable'[u] = releasable[u]
    BY <1>7 DEF DropFinished
  <2>2. releasable[t] # POISON
    BY <1>7, PermitArithmetic DEF DropFinished
  <2> QED  BY <2>1, <2>2
<1>8. CASE StartCancel(t)
  BY <1>8 DEF StartCancel
<1>9. CASE Poison(t)
  BY <1>9 DEF Poison
<1>10. CASE DropGuard(t)
  <2>1. /\ UNCHANGED <<acquire, release>>
        /\ \A u \in Tasks \ {t} : releasable'[u] = releasable[u]
    BY <1>10 DEF DropGuard
  <2>2. releasable[t] # POISON
    BY <1>10, PermitArithmetic DEF DropGuard
  <2> QED  BY <2>1, <2>2
<1>11. CASE DropGuardPanicking(t)
  BY <1>11 DEF DropGuardPanicking
<1>12. CASE Forget(t)
  BY <1>12 DEF Forget
<1>13. CASE PollStored(t)
  BY <1>13 DEF PollStored
<1>14. CASE PushCancel(t)
  BY <1>14 DEF PushCancel
<1>15. CASE WaitCancel(t)
  BY <1>15 DEF WaitCancel
<1>16. CASE LockOrElseDefer(t)
  BY <1>16, PermitArithmetic DEF LockOrElseDefer
<1>17. CASE SwapCancel(t)
  BY <1>17 DEF SwapCancel
<1>18. CASE FlipAvailable(t)
  BY <1>18, PermitArithmetic DEF FlipAvailable
<1>19. CASE FlipNothing(t)
  BY <1>19 DEF FlipNothing
<1>20. CASE FlipTake(t)
  BY <1>20 DEF FlipTake
<1>21. CASE LinkNext(t)
  BY <1>21 DEF LinkNext
<1>22. CASE LinkLast(t)
  BY <1>22 DEF LinkLast
<1>23. CASE Cancel(t)
  BY <1>23 DEF Cancel
<1>24. CASE TryPop(t)
  BY <1>24 DEF TryPop, SubPermits
<1>25. CASE Wake(t)
  BY <1>25 DEF Wake
<1>26. CASE TryUnlock(t)
  BY <1>26, PermitArithmetic DEF TryUnlock
<1> QED
  BY <1>1, <1>2, <1>3, <1>4, <1>5, <1>6, <1>7, <1>8, <1>9, <1>10, <1>11, <1>12, <1>13,
     <1>14, <1>15, <1>16, <1>17, <1>18, <1>19, <1>20, <1>21, <1>22, <1>23, <1>24, <1>25, <1>26
  DEF Begin, Poll, DropFuture, Continue

\* "the semaphore will be permanently poisoned" (lib.rs): whichever word holds
\* the poison, each exchange of release() passes it on, and once it is in
\* `acquire` neither poll_enter, try_acquire nor flip() changes that word.
THEOREM PoisonPermanence == Spec => PoisonIsPermanent
<1>1. LockInv /\ [Next]_vars =>
        [ /\ Poisoned => Poisoned'
          /\ acquire = Available(POISON) => acquire' = acquire ]_vars
  BY PoisonStep DEF Next
<1> QED  BY <1>1, LockInvariant, PTL DEF Spec, PoisonIsPermanent

-----------------------------------------------------------------------------
(* What the operations of the semaphore do to its queue, one lemma for each: *)
(* poll_enter, the exchange and the loop of flip(), and the unlinking of a   *)
(* node by cancel() and try_pop().  Each says that the queue stays in shape  *)
(* and how its parts change.                                                 *)

\* Edges lead to pending acquires, and so do the words and the locals of
\* flip() and cancel() that point at nodes.
LEMMA PointersPending ==
  ASSUME QueueInv
  PROVE  /\ Pending \subseteq Tasks /\ Null \notin Pending
         /\ \A v \in Pending : /\ prev[v] # Null => prev[v] \in Pending
                               /\ next[v] # Null => next[v] \in Pending
         /\ front # Null => front \in Pending
         /\ middle # Null => middle \in Pending
         /\ \A t \in Tasks : /\ pc[t] = "link" => back[t] \in Pending /\ cursor[t] \in Pending
                             /\ todo[t] # Null => todo[t] \in Pending
<1>1. Pending \subseteq Tasks /\ Null \notin Pending
  BY DEF Pending
<1>2. \A v \in Pending : prev[v] # Null => prev[v] \in Pending
  BY DEF QueueInv, QueueShape, PrevEdges
<1>3. \A v \in Pending : next[v] # Null => next[v] \in Pending
  BY DEF QueueInv, QueueShape, NextEdges
<1>4. (front # Null => front \in Pending) /\ (middle # Null => middle \in Pending)
  BY DEF QueueInv, QueueShape, QueueEnds
<1>5. ASSUME NEW t \in Tasks, pc[t] = "link" PROVE back[t] \in Pending /\ cursor[t] \in Pending
  BY <1>5 DEF QueueInv, OwnerLocals, LocalsBlank, BatchYounger, QueueShape, QueueOrder
<1>6. ASSUME NEW t \in Tasks, todo[t] # Null PROVE todo[t] \in Pending
  <2>1. todo[t] \in Stacked
    BY <1>6 DEF QueueInv, CancelStacks, StackEdges
  <2>2. step[todo[t]] = "Waiting"
    BY <2>1 DEF QueueInv, LockInv, TypeOK, AcquireStep, NodeControl, NodeAgrees, Stacked
  <2> QED  BY <2>1, <2>2 DEF Stacked, Pending
<1> QED  BY <1>1, <1>2, <1>3, <1>4, <1>5, <1>6

\* AtomicWaker::state says which call the owner of the node is in, and the
\* holder of the release lock changes only the nodes that wait or cancel: no
\* step of a task t makes a task and its node disagree.
LEMMA NodeControlStep ==
  ASSUME QueueInv, NEW t \in Tasks, Begin(t) \/ Continue(t)
  PROVE  NodeControl'
<1> SUFFICES ASSUME NEW u \in Tasks PROVE NodeAgrees(u)'
  BY DEF NodeControl
<1>t. /\ pc \in [Tasks -> PC] /\ call \in [Tasks -> Call] /\ step \in [Tasks -> AcquireStep]
      /\ waker \in [Tasks -> WakerState]
      /\ next \in [Tasks -> Pointer] /\ prev \in [Tasks -> Pointer]
  BY DEF QueueInv, LockInv, TypeOK
<1>u. NodeAgrees(t) /\ NodeAgrees(u)
  BY DEF QueueInv, NodeControl
<1>p. /\ \A v \in Pending : /\ prev[v] # Null => prev[v] \in Pending
                            /\ next[v] # Null => next[v] \in Pending
      /\ (front # Null => front \in Pending) /\ (middle # Null => middle \in Pending)
      /\ (pc[t] = "link" => cursor[t] \in Pending) /\ (todo[t] # Null => todo[t] \in Pending)
  BY PointersPending
<1> USE <1>t, <1>u DEF NodeAgrees, InCancel, Owner, OwnerPC, Goto, BeginRelease, ReturnFromRelease,
                       FinishPoll, EndFuture, NoFuture
<1>1. CASE \E n \in Amounts : PollEnterAcquire(t, n)
  BY <1>1 DEF PollEnterAcquire
<1>2. CASE \E n \in Amounts : PollEnterQueue(t, n)
  BY <1>2 DEF PollEnterQueue
<1>3. CASE \E n \in Amounts : TryAcquire(t, n)
  BY <1>3 DEF TryAcquire
<1>4. CASE \E n \in Releases : Release(t, n)
  BY <1>4 DEF Release
<1>5. CASE PollReady(t)
  BY <1>5 DEF PollReady
<1>6. CASE PollStore(t)
  BY <1>6 DEF PollStore
<1>7. CASE DropFinished(t)
  BY <1>7 DEF DropFinished
<1>8. CASE StartCancel(t)
  BY <1>8 DEF StartCancel
<1>9. CASE Poison(t)
  BY <1>9 DEF Poison
<1>10. CASE DropGuard(t)
  BY <1>10 DEF DropGuard
<1>11. CASE DropGuardPanicking(t)
  BY <1>11 DEF DropGuardPanicking
<1>12. CASE Forget(t)
  BY <1>12 DEF Forget
<1>13. CASE PollStored(t)
  BY <1>13 DEF PollStored
<1>14. CASE PushCancel(t)
  BY <1>14 DEF PushCancel
<1>15. CASE WaitCancel(t)
  BY <1>15 DEF WaitCancel
<1>16. CASE LockOrElseDefer(t)
  BY <1>16 DEF LockOrElseDefer
<1>17. CASE SwapCancel(t)
  BY <1>17 DEF SwapCancel
<1>18. CASE FlipAvailable(t)
  BY <1>18 DEF FlipAvailable
<1>19. CASE FlipNothing(t)
  BY <1>19 DEF FlipNothing
<1>20. CASE FlipTake(t)
  BY <1>20 DEF FlipTake
<1>21. CASE LinkNext(t)
  <2>1. prev[cursor[t]] \in Pending
    BY <1>21, <1>p DEF LinkNext
  <2> QED  BY <1>21, <2>1 DEF LinkNext, Pending
<1>22. CASE LinkLast(t)
  <2>1. cursor[t] \in Pending /\ (middle # Null => middle \in Pending)
    BY <1>22, <1>p DEF LinkLast
  <2> QED  BY <1>22, <2>1 DEF LinkLast, Pending
<1>23. CASE Cancel(t)
  <2> DEFINE w == todo[t]
  <2>1. w \in Pending /\ next[w] \in Pending \cup {Null} /\ prev[w] \in Pending \cup {Null}
    BY <1>23, <1>p DEF Cancel
  <2>2. step[w] = "Waiting" /\ (next[w] # Null => step[next[w]] = "Waiting")
        /\ (prev[w] # Null => step[prev[w]] = "Waiting")
    BY <2>1 DEF Pending
  <2>3. /\ UNCHANGED <<step, pc, call>>
        /\ waker[w] = "Cancelling" /\ waker' = [waker EXCEPT ![w] = "Cancelled"]
        /\ next' = next \/ (prev[w] # Null /\ next' = [next EXCEPT ![prev[w]] = next[w]])
        /\ prev' = prev \/ (next[w] # Null /\ prev' = [prev EXCEPT ![next[w]] = prev[w]])
    BY <1>23 DEF Cancel, AcceptCancel, MendPrev
  <2>4. \/ waker'[u] = waker[u]
        \/ waker[u] = "Cancelling" /\ waker'[u] = "Cancelled"
    BY <2>3
  <2>5. step[u] = "Done" => next'[u] = next[u] /\ prev'[u] = prev[u]
    BY <2>2, <2>3 DEF AcquireStep
  <2>6. pc[u] # "push_cancel" \/ waker'[u] = waker[u]
    <3>1. w # u \/ pc[u] # "push_cancel"
      BY <1>23 DEF QueueInv, CancelStacks, StackEdges, Stacked, Cancel
    <3> QED  BY <3>1, <2>3
  <2> QED  BY <2>3, <2>4, <2>5, <2>6
<1>24. CASE TryPop(t)
  <2> DEFINE w == front
  <2>1. w \in Pending /\ next[w] \in Pending \cup {Null}
    BY <1>24, <1>p DEF TryPop, Stuck
  <2>2. step[w] = "Waiting" /\ (next[w] # Null => step[next[w]] = "Waiting")
    BY <2>1 DEF Pending
  <2>3. /\ UNCHANGED <<step, call, next>>
        /\ prev' = prev \/ (next[w] # Null /\ prev' = [prev EXCEPT ![next[w]] = Null])
    BY <1>24 DEF TryPop, MendPrev
  <2>4. /\ waker[w] \in {"Pending", "Storing"}
        /\ \E s \in {"Finished", "Poisoned"} : waker' = [waker EXCEPT ![w] = s]
        /\ pc[t] = "settle" /\ pc' \in {pc, [pc EXCEPT ![t] = "wake"]}
    BY <1>24 DEF TryPop, Finish, Settling
  <2>5. u # w => waker'[u] = waker[u]
    BY <2>4
  <2>6. waker'[w] \in {"Finished", "Poisoned"}
    BY <2>4, <2>1 DEF Pending
  <2>7. pc'[u] = pc[u] \/ (u = t /\ pc'[u] = "wake" /\ pc[u] = "settle")
    BY <2>4
  <2> QED  BY <2>1, <2>2, <2>3, <2>4, <2>5, <2>6, <2>7 DEF Pending
<1>25. CASE Wake(t)
  BY <1>25 DEF Wake
<1>26. CASE TryUnlock(t)
  <2>1. /\ UNCHANGED nodeVars
        /\ pc[t] = "settle"
        /\ \/ pc' = [pc EXCEPT ![t] = "swap"] /\ call' = call
           \/ ReturnFromRelease(t)
    BY <1>26 DEF TryUnlock, Settling
  <2> QED  BY <2>1
<1> QED
  BY <1>1, <1>2, <1>3, <1>4, <1>5, <1>6, <1>7, <1>8, <1>9, <1>10, <1>11, <1>12, <1>13,
     <1>14, <1>15, <1>16, <1>17, <1>18, <1>19, <1>20, <1>21, <1>22, <1>23, <1>24, <1>25, <1>26
  DEF Begin, Poll, DropFuture, Continue

-----------------------------------------------------------------------------
(* Steps that leave the queue alone *)

\* The words, edges and locals that the queue is made of, for its members.
QueueSame ==
  /\ Pending' = Pending /\ UNCHANGED <<front, middle, ahead>>
  /\ acquire'.tag = acquire.tag /\ acquire'.back = acquire.back
  /\ \A v \in Pending : prev'[v] = prev[v] /\ next'[v] = next[v]
  /\ \A u \in Tasks : /\ pc'[u] = "link" <=> pc[u] = "link"
                      /\ pc[u] = "link" => back'[u] = back[u] /\ cursor'[u] = cursor[u]

\* A step that leaves those as they are, as most of the exchanges do, keeps the
\* queue in shape.
LEMMA SameQueue ==
  ASSUME QueueInv, QueueSame
  PROVE  QueueShape' /\ Linked' = Linked /\ Taken' = Taken
<1> USE DEF QueueSame
<1>1. Linked' = Linked
  BY DEF Linked
<1>2. Taken' = Taken
  BY <1>1 DEF Taken
<1>3. QueueOrder'
  BY DEF QueueInv, QueueShape, QueueOrder
<1>4. QueueEnds'
  BY <1>1, <1>2 DEF QueueInv, QueueShape, QueueEnds
<1>5. PrevEdges'
  <2> SUFFICES ASSUME NEW v \in Pending
               PROVE  IF prev'[v] = Null
                        THEN ahead[v] = (IF v \in Linked THEN {} ELSE IF v \in Taken THEN Linked ELSE Taken)
                        ELSE /\ prev'[v] \in Pending /\ ahead[v] = ahead[prev'[v]] \cup {prev'[v]}
                             /\ v \notin Linked => prev'[v] \notin Linked
                             /\ v \notin Taken => prev'[v] \notin Taken
    BY <1>1, <1>2 DEF PrevEdges, Behind
  <2> QED  BY DEF QueueInv, QueueShape, PrevEdges, Behind
<1>6. NextEdges'
  <2> SUFFICES ASSUME NEW v \in Pending
               PROVE  IF HasNext(v)'
                        THEN next'[v] \in Pending /\ ahead[next'[v]] = ahead[v] \cup {v}
                        ELSE next'[v] = Null
    BY DEF NextEdges, Behind
  <2>1. HasNext(v)' <=> HasNext(v)
    BY <1>1, <1>2 DEF HasNext
  <2> QED  BY <2>1 DEF QueueInv, QueueShape, NextEdges, Behind
<1> QED  BY <1>1, <1>2, <1>3, <1>4, <1>5, <1>6 DEF QueueShape

\* The steps outside poll_enter's push, flip(), cancel() and try_pop().
Quiet(t) ==
  \/ \E n \in Amounts : PollEnterAcquire(t, n) \/ TryAcquire(t, n)
  \/ \E n \in Releases : Release(t, n)
  \/ PollReady(t) \/ PollStore(t) \/ DropFinished(t) \/ StartCancel(t)
  \/ Poison(t) \/ DropGuard(t) \/ DropGuardPanicking(t) \/ Forget(t)
  \/ PollStored(t) \/ PushCancel(t) \/ WaitCancel(t) \/ LockOrElseDefer(t) \/ SwapCancel(t)
  \/ FlipAvailable(t) \/ FlipNothing(t) \/ Wake(t) \/ TryUnlock(t)

\* release() is past flip().
Settles(u) == pc[u] \in {"settle", "wake"}

\* Nobody gets to the end of flip().
NoneSettles == \A u \in Tasks : Settles(u)' => Settles(u)

\* Those steps leave the queue alone, and only the two exchanges of flip() that
\* take no node bring the owner of the lock past flip(); FlipAvailable, which
\* changes the tag of `acquire`, has a lemma of its own below.
LEMMA QuietStep ==
  ASSUME QueueInv, NEW t \in Tasks, Quiet(t)
  PROVE  FlipAvailable(t) \/ (QueueSame /\ (FlipNothing(t) \/ NoneSettles))
<1>t. /\ pc \in [Tasks -> PC] /\ step \in [Tasks -> AcquireStep] /\ waker \in [Tasks -> WakerState]
      /\ next \in [Tasks -> Pointer] /\ prev \in [Tasks -> Pointer]
      /\ back \in [Tasks -> Pointer] /\ cursor \in [Tasks -> Pointer]
  BY DEF QueueInv, LockInv, TypeOK
<1>u. NodeAgrees(t)
  BY DEF QueueInv, NodeControl
<1> USE <1>t, <1>u DEF NodeAgrees, InCancel, Owner, OwnerPC, Goto, BeginRelease, ReturnFromRelease,
                       FinishPoll, EndFuture, NoFuture, TakePermits, Pending, QueueSame, Settles, NoneSettles
<1>1. CASE \E n \in Amounts : PollEnterAcquire(t, n)
  <2>1. acquire'.tag = acquire.tag /\ acquire'.back = acquire.back
    BY <1>1 DEF PollEnterAcquire, QueueInv, LockInv, TypeOK
  <2> QED  BY <1>1, <2>1 DEF PollEnterAcquire
<1>3. CASE \E n \in Amounts : TryAcquire(t, n)
  <2>1. acquire'.tag = acquire.tag /\ acquire'.back = acquire.back
    BY <1>3 DEF TryAcquire, QueueInv, LockInv, TypeOK
  <2> QED  BY <1>3, <2>1 DEF TryAcquire
<1>4. CASE \E n \in Releases : Release(t, n)
  BY <1>4 DEF Release
<1>5. CASE PollReady(t)
  BY <1>5 DEF PollReady
<1>6. CASE PollStore(t)
  BY <1>6 DEF PollStore
<1>7. CASE DropFinished(t)
  BY <1>7 DEF DropFinished
<1>8. CASE StartCancel(t)
  BY <1>8 DEF StartCancel
<1>9. CASE Poison(t)
  BY <1>9 DEF Poison
<1>10. CASE DropGuard(t)
  BY <1>10 DEF DropGuard
<1>11. CASE DropGuardPanicking(t)
  BY <1>11 DEF DropGuardPanicking
<1>12. CASE Forget(t)
  BY <1>12 DEF Forget
<1>13. CASE PollStored(t)
  BY <1>13 DEF PollStored
<1>14. CASE PushCancel(t)
  BY <1>14 DEF PushCancel
<1>15. CASE WaitCancel(t)
  BY <1>15 DEF WaitCancel
<1>16. CASE LockOrElseDefer(t)
  BY <1>16 DEF LockOrElseDefer
<1>17. CASE SwapCancel(t)
  BY <1>17 DEF SwapCancel
<1>19. CASE FlipNothing(t)
  BY <1>19 DEF FlipNothing
<1>25. CASE Wake(t)
  BY <1>25 DEF Wake
<1>26. CASE TryUnlock(t)
  BY <1>26 DEF TryUnlock, Settling
<1> HIDE <1>t, <1>u DEF QueueSame, NoneSettles
<1> QED
  BY <1>1, <1>3, <1>4, <1>5, <1>6, <1>7, <1>8, <1>9, <1>10, <1>11, <1>12, <1>13,
     <1>14, <1>15, <1>16, <1>17, <1>19, <1>25, <1>26
  DEF Quiet

-----------------------------------------------------------------------------
(* The parts of the queue *)

\* A queued node is identified by what is ahead of it: poll_enter gives every
\* acquire a place of its own.
LEMMA AheadIdentifies ==
  ASSUME QueueInv, NEW v \in Pending, NEW w \in Pending
  PROVE  /\ v \notin ahead[v] /\ ahead[v] \subseteq Pending
         /\ v = w \/ v \in ahead[w] \/ w \in ahead[v]
         /\ v \in ahead[w] => w \notin ahead[v] /\ v # w /\ ahead[v] \subseteq ahead[w]
         /\ ahead[v] = ahead[w] => v = w
<1> USE DEF QueueInv, QueueShape, QueueOrder
<1>1. v \notin ahead[v] /\ ahead[v] \subseteq Pending
  OBVIOUS
<1>2. v = w \/ v \in ahead[w] \/ w \in ahead[v]
  OBVIOUS
<1>3. v \in ahead[w] => w \notin ahead[v] /\ v # w /\ ahead[v] \subseteq ahead[w]
  OBVIOUS
<1>4. ahead[v] = ahead[w] => v = w
  BY <1>1, <1>2, <1>3
<1> QED  BY <1>1, <1>2, <1>3, <1>4

\* Nothing is left out of what flip() linked, or took, but younger nodes.
LEMMA PartsClosed ==
  ASSUME QueueInv
  PROVE  /\ Linked \subseteq Taken /\ Taken \subseteq Pending
         /\ \A v \in Linked : ahead[v] \subseteq Linked
         /\ middle # Null => middle \in Linked
         /\ (\A u \in Tasks : pc[u] # "link") => Taken = Linked
         /\ \A t \in Tasks : pc[t] = "link" =>
              /\ \A u \in Tasks : pc[u] = "link" => u = t
              /\ Linked \subseteq ahead[back[t]]
              /\ Taken = ahead[back[t]] \cup {back[t]}
<1>1. middle # Null => middle \in Linked
  BY DEF Linked
<1>2. Linked \subseteq Pending
  BY PointersPending, AheadIdentifies DEF Linked
<1>3. \A v \in Linked : ahead[v] \subseteq Linked
  <2> SUFFICES ASSUME NEW v \in Linked PROVE ahead[v] \subseteq Linked
    OBVIOUS
  <2>1. middle \in Pending /\ v \in Pending /\ (v = middle \/ v \in ahead[middle])
    BY <1>2, PointersPending DEF Linked
  <2>2. ahead[v] \subseteq ahead[middle]
    BY <2>1, AheadIdentifies
  <2> QED  BY <2>1, <2>2 DEF Linked
<1>4. (\A u \in Tasks : pc[u] # "link") => Taken = Linked
  BY DEF Taken
<1>5. ASSUME NEW t \in Tasks, pc[t] = "link"
      PROVE  /\ \A u \in Tasks : pc[u] = "link" => u = t
             /\ Linked \subseteq ahead[back[t]]
             /\ Taken = ahead[back[t]] \cup {back[t]}
  <2>1. \A u \in Tasks : pc[u] = "link" => u = t
    BY <1>5 DEF QueueInv, LockInv, LockExclusion, Owner, OwnerPC
  <2>2. Taken = Linked \cup ahead[back[t]] \cup {back[t]}
    BY <1>5, <2>1 DEF Taken
  <2>3. back[t] \in Pending /\ back[t] \notin Linked
    BY <1>5 DEF QueueInv, OwnerLocals, LocalsBlank, BatchYounger
  <2>4. Linked \subseteq ahead[back[t]]
    <3> SUFFICES ASSUME NEW v \in Linked PROVE v \in ahead[back[t]]
      OBVIOUS
    <3>1. v \in Pending /\ v # back[t] /\ back[t] \notin ahead[v]
      BY <1>2, <1>3, <2>3
    <3> QED  BY <2>3, <3>1, AheadIdentifies
  <2> QED  BY <2>1, <2>2, <2>4
<1>6. Linked \subseteq Taken
  BY DEF Taken
<1>7. Taken \subseteq Pending
  <2>1. CASE \E t \in Tasks : pc[t] = "link"
    <3> PICK t \in Tasks : pc[t] = "link"
      BY <2>1
    <3>1. back[t] \in Pending
      BY DEF QueueInv, OwnerLocals, LocalsBlank, BatchYounger
    <3> QED  BY <1>5, <3>1, AheadIdentifies
  <2>2. CASE \A t \in Tasks : pc[t] # "link"
    BY <1>2, <1>4, <2>2
  <2> QED  BY <2>1, <2>2
<1> QED  BY <1>1, <1>3, <1>4, <1>5, <1>6, <1>7

\* flip(), nobody is waiting: no node is queued then.
LEMMA FlipAvailableStep ==
  ASSUME QueueInv, NEW t \in Tasks, FlipAvailable(t)
  PROVE  QueueShape' /\ Pending = {} /\ Pending' = {} /\ Linked' = {} /\ Taken' = {}
<1>1. \A u \in Tasks : pc[u] # "link" /\ pc'[u] # "link"
  BY DEF FlipAvailable, Goto, QueueInv, LockInv, LockExclusion, TypeOK, Owner, OwnerPC
<1>2. Pending = {}
  <2>1. CASE acquire.tag = "Available"
    BY <2>1 DEF QueueInv, QueueShape, QueueEnds
  <2>2. CASE NobodyWaits
    <3>1. acquire.back = Null /\ front = Null
      BY <2>2 DEF NobodyWaits
    <3>2. Taken = Pending /\ middle = Null
      BY <3>1 DEF QueueInv, QueueShape, QueueEnds
    <3> QED  BY <1>1, <3>2, PartsClosed DEF Linked
  <2> QED  BY <2>1, <2>2 DEF FlipAvailable
<1>3. Pending' = {} /\ UNCHANGED <<front, middle, ahead>>
  BY <1>2 DEF FlipAvailable, Pending
<1>4. front = Null /\ middle = Null
  BY <1>2 DEF QueueInv, QueueShape, QueueEnds
<1>5. Linked' = {} /\ Taken' = {}
  BY <1>1, <1>3, <1>4 DEF Linked, Taken
<1>6. acquire'.back = Null
  BY DEF FlipAvailable
<1>7. \A v \in Tasks : ahead[v] = {}
  BY <1>2 DEF QueueInv, QueueShape, QueueOrder
<1> QED
  BY <1>2, <1>3, <1>4, <1>5, <1>6, <1>7 DEF QueueShape, QueueOrder, QueueEnds, PrevEdges, NextEdges

-----------------------------------------------------------------------------
(* poll_enter and flip *)

\* poll_enter puts a node behind all others.
LEMMA EnterStep ==
  ASSUME QueueInv, NEW t \in Tasks, NEW n \in Amounts, PollEnterQueue(t, n)
  PROVE  /\ QueueShape' /\ Pending' = Pending \cup {t} /\ t \notin Pending
         /\ Linked' = Linked /\ Taken' = Taken /\ UNCHANGED <<back, cursor>>
         /\ \A v \in Pending : ahead'[v] = ahead[v]
         /\ \A u \in Tasks : pc'[u] = "link" <=> pc[u] = "link"
<1>t. /\ pc \in [Tasks -> PC] /\ step \in [Tasks -> AcquireStep] /\ waker \in [Tasks -> WakerState]
      /\ prev \in [Tasks -> Pointer] /\ ahead \in [Tasks -> SUBSET Tasks]
  BY DEF QueueInv, LockInv, TypeOK
<1>u. step[t] = "Done" /\ waker[t] = "Pending" /\ next[t] = Null /\ pc[t] = "idle"
  BY DEF QueueInv, NodeControl, NodeAgrees, PollEnterQueue, NoFuture
<1>1. Pending' = Pending \cup {t} /\ t \notin Pending
  BY <1>t, <1>u DEF Pending, PollEnterQueue
<1>2. /\ UNCHANGED <<front, middle, next, back, cursor>>
      /\ acquire'.tag = "Queued" /\ acquire'.back = t
      /\ prev' = [prev EXCEPT ![t] = acquire.back]
      /\ ahead' = [ahead EXCEPT ![t] = Pending]
  BY DEF PollEnterQueue
<1>3. \A u \in Tasks : pc'[u] = "link" <=> pc[u] = "link"
  BY <1>t, <1>u DEF PollEnterQueue, BeginRelease, Goto
<1>4. ahead'[t] = Pending /\ \A v \in Pending : ahead'[v] = ahead[v]
  BY <1>t, <1>1, <1>2
<1>5. Linked' = Linked
  BY <1>2, <1>4, PointersPending DEF Linked
<1>6. Taken' = Taken
  <2>1. \A u \in Tasks : pc[u] = "link" => ahead'[back[u]] = ahead[back[u]]
    BY <1>4, PointersPending
  <2> QED  BY <1>2, <1>3, <1>5, <2>1 DEF Taken
<1>7. Pending \subseteq Tasks /\ Null \notin Pending /\ Linked \subseteq Taken /\ Taken \subseteq Pending
  BY PointersPending, PartsClosed
<1>8. QueueOrder'
  <2>1. \A v \in Tasks \ Pending' : ahead'[v] = {}
    BY <1>1, <1>2, <1>t DEF QueueInv, QueueShape, QueueOrder
  <2>2. \A v \in Pending' : ahead'[v] \subseteq Pending' \ {v}
    BY <1>1, <1>4 DEF QueueInv, QueueShape, QueueOrder
  <2>3. ASSUME NEW v \in Pending', NEW w \in Pending', v # w
        PROVE  v \in ahead'[w] <=> w \notin ahead'[v]
    BY <1>1, <1>4, <2>3, AheadIdentifies
  <2>4. ASSUME NEW v \in Pending', NEW w \in Pending', v \in ahead'[w]
        PROVE  ahead'[v] \subseteq ahead'[w]
    BY <1>1, <1>4, <2>4, AheadIdentifies
  <2> QED  BY <2>1, <2>2, <2>3, <2>4 DEF QueueOrder
<1>9. QueueEnds'
  <2>1. front # Null => front \in Pending' /\ ahead'[front] = {}
    BY <1>1, <1>4 DEF QueueInv, QueueShape, QueueEnds
  <2>2. t \in Pending' \ Taken' /\ ahead'[t] = Pending' \ {t}
    BY <1>1, <1>4, <1>6, <1>7
  <2>3. (front = Null <=> middle = Null) /\ (middle # Null => middle \in Pending')
    BY <1>1 DEF QueueInv, QueueShape, QueueEnds
  <2> QED  BY <1>2, <2>1, <2>2, <2>3 DEF QueueEnds
<1>10. PrevEdges'
  <2> SUFFICES ASSUME NEW v \in Pending'
               PROVE  IF prev'[v] = Null
                        THEN ahead'[v] = (IF v \in Linked THEN {} ELSE IF v \in Taken THEN Linked ELSE Taken)
                        ELSE /\ prev'[v] \in Pending' /\ ahead'[v] = ahead'[prev'[v]] \cup {prev'[v]}
                             /\ v \notin Linked => prev'[v] \notin Linked
                             /\ v \notin Taken => prev'[v] \notin Taken
    BY <1>5, <1>6 DEF PrevEdges, Behind
  <2>1. CASE v = t
    <3>1. prev'[t] = acquire.back /\ t \notin Linked /\ t \notin Taken
      BY <1>1, <1>2, <1>7, <1>t
    <3>2. CASE acquire.back = Null
      BY <2>1, <3>1, <3>2, <1>4 DEF QueueInv, QueueShape, QueueEnds
    <3>3. CASE acquire.back # Null
      <4>1. acquire.back \in Pending \ Taken /\ ahead[acquire.back] = Pending \ {acquire.back}
        BY <3>3 DEF QueueInv, QueueShape, QueueEnds
      <4> QED  BY <1>1, <1>4, <1>7, <2>1, <3>1, <3>3, <4>1
    <3> QED  BY <3>2, <3>3
  <2>2. CASE v # t
    <3>1. v \in Pending /\ prev'[v] = prev[v]
      BY <1>1, <1>2, <1>t, <2>2
    <3> QED  BY <1>1, <1>4, <3>1 DEF QueueInv, QueueShape, PrevEdges, Behind
  <2> QED  BY <2>1, <2>2
<1>11. NextEdges'
  <2> SUFFICES ASSUME NEW v \in Pending'
               PROVE  IF HasNext(v)'
                        THEN next[v] \in Pending' /\ ahead'[next[v]] = ahead'[v] \cup {v}
                        ELSE next[v] = Null
    BY <1>2 DEF NextEdges, Behind
  <2>1. CASE v = t
    <3>1. t \notin Linked /\ t \notin Taken
      BY <1>1, <1>7
    <3>2. ~HasNext(v)'
      BY <2>1, <3>1, <1>5, <1>6 DEF HasNext
    <3> QED  BY <2>1, <3>2, <1>u
  <2>2. CASE v # t
    <3>1. v \in Pending /\ ahead'[v] = ahead[v]
      BY <1>1, <1>4, <2>2
    <3>2. HasNext(v)' <=> HasNext(v)
      BY <1>2, <1>3, <1>5, <1>6, <3>1 DEF HasNext
    <3>3. IF HasNext(v) THEN next[v] \in Pending /\ ahead[next[v]] = ahead[v] \cup {v} ELSE next[v] = Null
      BY <3>1 DEF QueueInv, QueueShape, NextEdges, Behind
    <3> QED  BY <1>1, <1>4, <3>1, <3>2, <3>3
  <2> QED  BY <2>1, <2>2
<1> QED
  BY <1>1, <1>2, <1>3, <1>4, <1>5, <1>6, <1>8, <1>9, <1>10, <1>11 DEF QueueShape

\* flip() takes the nodes that have no next edges.
LEMMA FlipTakeStep ==
  ASSUME QueueInv, NEW t \in Tasks, FlipTake(t)
  PROVE  /\ QueueShape' /\ Pending' = Pending /\ Linked' = Linked /\ Taken' = Pending
         /\ acquire.back \in Pending \ Linked
         /\ back' = [back EXCEPT ![t] = acquire.back] /\ cursor' = [cursor EXCEPT ![t] = acquire.back]
         /\ ahead' = ahead
<1>t. /\ pc \in [Tasks -> PC] /\ back \in [Tasks -> Pointer] /\ cursor \in [Tasks -> Pointer]
  BY DEF QueueInv, LockInv, TypeOK
<1>1. \A u \in Tasks : /\ pc[u] # "link"
                       /\ pc'[u] = "link" <=> u = t
  BY <1>t DEF FlipTake, Goto, QueueInv, LockInv, LockExclusion, Owner, OwnerPC
<1>2. Taken = Linked /\ acquire.back \in Pending \ Linked /\ ahead[acquire.back] = Pending \ {acquire.back}
  BY <1>1, PartsClosed DEF FlipTake, QueueInv, QueueShape, QueueEnds
<1>3. /\ Pending' = Pending /\ UNCHANGED <<front, middle, prev, next, ahead>>
      /\ acquire'.tag = "Queued" /\ acquire'.back = Null
      /\ back' = [back EXCEPT ![t] = acquire.back] /\ cursor' = [cursor EXCEPT ![t] = acquire.back]
  BY DEF FlipTake, Pending
<1>4. Linked' = Linked
  BY <1>3 DEF Linked
<1>5. Taken' = Pending
  <2>1. Taken' = Linked' \cup ahead[acquire.back] \cup {acquire.back}
    BY <1>t, <1>1, <1>3 DEF Taken
  <2> QED  BY <1>2, <1>4, <2>1, PartsClosed
<1>6. QueueOrder'
  BY <1>3 DEF QueueInv, QueueShape, QueueOrder
<1>7. QueueEnds'
  BY <1>3, <1>5 DEF QueueInv, QueueShape, QueueEnds
<1>8. PrevEdges'
  BY <1>2, <1>3, <1>4, <1>5 DEF QueueInv, QueueShape, PrevEdges, Behind
<1>9. NextEdges'
  <2> SUFFICES ASSUME NEW v \in Pending
               PROVE  IF HasNext(v)'
                        THEN next[v] \in Pending /\ ahead[next[v]] = ahead[v] \cup {v}
                        ELSE next[v] = Null
    BY <1>3 DEF NextEdges, Behind
  <2>1. HasNext(v) <=> v \in Linked /\ v # middle
    BY <1>1 DEF HasNext
  <2>2. HasNext(v)' <=> v \in Linked /\ v # middle
    <3>1. HasNext(v)' <=> \/ v \in Linked /\ v # middle
                          \/ /\ v \in Pending \ Linked /\ v # acquire.back
                             /\ v = acquire.back \/ acquire.back \in ahead[v]
      BY <1>t, <1>1, <1>3, <1>4, <1>5 DEF HasNext
    <3>2. v # acquire.back => acquire.back \notin ahead[v]
      BY <1>2, AheadIdentifies
    <3> QED  BY <3>1, <3>2
  <2> QED  BY <2>1, <2>2 DEF QueueInv, QueueShape, NextEdges, Behind
<1> QED  BY <1>2, <1>3, <1>4, <1>5, <1>6, <1>7, <1>8, <1>9 DEF QueueShape

\* What the invariant says of the node that flip() is at.
LEMMA CursorFacts ==
  ASSUME QueueInv, NEW t \in Tasks, pc[t] = "link"
  PROVE  /\ back[t] \in Pending \ Linked
         /\ cursor[t] \in Pending /\ cursor[t] \in Taken \ Linked
         /\ cursor[t] = back[t] \/ cursor[t] \in ahead[back[t]]
  BY PartsClosed, PointersPending DEF QueueInv, OwnerLocals, LocalsBlank, BatchYounger

\* The loop of flip(): one node of the batch gets its next edge.
LEMMA LinkNextStep ==
  ASSUME QueueInv, NEW t \in Tasks, LinkNext(t)
  PROVE  /\ QueueShape' /\ Pending' = Pending /\ Linked' = Linked /\ Taken' = Taken
         /\ back' = back /\ cursor' = [cursor EXCEPT ![t] = prev[cursor[t]]]
         /\ prev[cursor[t]] \in ahead[back[t]] \ Linked
         /\ ahead' = ahead
<1> DEFINE w == cursor[t]
           p == prev[w]
<1>t. /\ cursor \in [Tasks -> Pointer] /\ next \in [Tasks -> Pointer]
  BY DEF QueueInv, LockInv, TypeOK
<1>1. /\ pc[t] = "link" /\ p # Null
      /\ Pending' = Pending /\ UNCHANGED <<acquire, front, middle, prev, ahead, back, pc>>
      /\ next' = [next EXCEPT ![p] = w] /\ cursor' = [cursor EXCEPT ![t] = p]
  BY DEF LinkNext, Pending
<1>2. /\ w \in Pending /\ w \in Taken \ Linked /\ back[t] \in Pending \ Linked
      /\ w = back[t] \/ w \in ahead[back[t]]
  BY <1>1, CursorFacts
<1>3. p \in Pending /\ ahead[w] = ahead[p] \cup {p} /\ p \notin Linked
  BY <1>1, <1>2 DEF QueueInv, QueueShape, PrevEdges, Behind
<1>4. p \in ahead[back[t]] /\ p # back[t]
  BY <1>2, <1>3, AheadIdentifies
<1>5. Linked' = Linked /\ Taken' = Taken
  BY <1>1 DEF Linked, Taken
<1>6. QueueOrder'
  BY <1>1 DEF QueueInv, QueueShape, QueueOrder
<1>7. QueueEnds'
  BY <1>1, <1>5 DEF QueueInv, QueueShape, QueueEnds
<1>8. PrevEdges'
  BY <1>1, <1>5 DEF QueueInv, QueueShape, PrevEdges, Behind
<1>9. NextEdges'
  <2> SUFFICES ASSUME NEW v \in Pending
               PROVE  IF HasNext(v)'
                        THEN next'[v] \in Pending /\ ahead[next'[v]] = ahead[v] \cup {v}
                        ELSE next'[v] = Null
    BY <1>1 DEF NextEdges, Behind
  <2>0. Taken = ahead[back[t]] \cup {back[t]} /\ \A u \in Tasks : pc[u] = "link" => u = t
    BY <1>1, PartsClosed
  <2>1. HasNext(v) <=> \/ v \in Linked /\ v # middle
                       \/ v \in Taken \ Linked /\ v # back[t] /\ (v = w \/ w \in ahead[v])
    BY <1>1, <2>0 DEF HasNext
  <2>2. HasNext(v)' <=> \/ v \in Linked /\ v # middle
                        \/ v \in Taken \ Linked /\ v # back[t] /\ (v = p \/ p \in ahead[v])
    BY <1>t, <1>1, <1>5, <2>0 DEF HasNext
  <2>3. p \in ahead[v] <=> v = w \/ w \in ahead[v]
    <3>1. v = w => p \in ahead[v]
      BY <1>3
    <3>2. w \in ahead[v] => p \in ahead[v]
      BY <1>2, <1>3, AheadIdentifies
    <3>3. ASSUME p \in ahead[v], v # w PROVE w \in ahead[v]
      <4>1. v \notin ahead[p] /\ v # p
        BY <1>3, <3>3, AheadIdentifies
      <4>2. v \notin ahead[w]
        BY <1>3, <4>1
      <4> QED  BY <1>2, <3>3, <4>2, AheadIdentifies
    <3> QED  BY <3>1, <3>2, <3>3
  <2>4. CASE v = p
    <3>1. HasNext(v)'
      BY <1>3, <1>4, <2>0, <2>2, <2>4
    <3> QED  BY <1>t, <1>1, <1>2, <1>3, <2>4, <3>1, PointersPending
  <2>5. CASE v # p
    <3>1. next'[v] = next[v] /\ (HasNext(v)' <=> HasNext(v))
      BY <1>t, <1>1, <2>1, <2>2, <2>3, <2>5
    <3> QED  BY <3>1 DEF QueueInv, QueueShape, NextEdges, Behind
  <2> QED  BY <2>4, <2>5
<1> QED  BY <1>1, <1>3, <1>4, <1>5, <1>6, <1>7, <1>8, <1>9 DEF QueueShape

\* The end of flip(): the batch is joined to what was linked before.
LEMMA LinkLastStep ==
  ASSUME QueueInv, NEW t \in Tasks, LinkLast(t)
  PROVE  /\ QueueShape' /\ Pending' = Pending /\ Linked' = Taken /\ Taken' = Taken
         /\ ahead' = ahead
<1> DEFINE w == cursor[t]
           b == back[t]
<1>t. /\ prev \in [Tasks -> Pointer] /\ next \in [Tasks -> Pointer] /\ pc \in [Tasks -> PC]
  BY DEF QueueInv, LockInv, TypeOK
<1>1. /\ pc[t] = "link" /\ prev[w] = Null
      /\ Pending' = Pending /\ UNCHANGED <<acquire, ahead>>
      /\ middle' = b
      /\ \/ middle = Null /\ front' = w /\ UNCHANGED <<next, prev>>
         \/ /\ middle # Null /\ front' = front
            /\ next' = [next EXCEPT ![middle] = w] /\ prev' = [prev EXCEPT ![w] = middle]
  BY DEF LinkLast, Pending
<1>2. /\ w \in Pending /\ w \in Taken \ Linked /\ b \in Pending \ Linked
      /\ w = b \/ w \in ahead[b]
  BY <1>1, CursorFacts
<1>3. Taken = ahead[b] \cup {b} /\ (\A u \in Tasks : pc[u] = "link" => u = t)
      /\ Linked \subseteq Taken /\ Taken \subseteq Pending
  BY <1>1, PartsClosed
<1>4. \A u \in Tasks : pc'[u] # "link"
  BY <1>t, <1>3 DEF LinkLast, Goto
<1>5. b # Null /\ Pending \subseteq Tasks /\ Null \notin Pending
  BY <1>2, PointersPending
<1>6. Linked' = Taken /\ Taken' = Taken
  BY <1>1, <1>3, <1>4, <1>5 DEF Linked, Taken
<1>7. ahead[w] = Linked
  BY <1>1, <1>2 DEF QueueInv, QueueShape, PrevEdges
<1>8. QueueOrder'
  BY <1>1 DEF QueueInv, QueueShape, QueueOrder
<1>9. QueueEnds'
  <2>1. front' \in Pending /\ ahead[front'] = {}
    <3>1. CASE middle = Null
      BY <1>1, <1>2, <1>7, <3>1 DEF Linked
    <3>2. CASE middle # Null
      BY <1>1, <3>2 DEF QueueInv, QueueShape, QueueEnds
    <3> QED  BY <3>1, <3>2
  <2>2. /\ acquire.tag = "Available" => Pending = {}
        /\ acquire.back # Null => /\ acquire.back \in Pending \ Taken
                                  /\ ahead[acquire.back] = Pending \ {acquire.back}
        /\ acquire.back = Null => Taken = Pending
    BY DEF QueueInv, QueueShape, QueueEnds
  <2> QED  BY <1>1, <1>2, <1>5, <1>6, <2>1, <2>2 DEF QueueEnds
<1>10. PrevEdges'
  <2> SUFFICES ASSUME NEW v \in Pending
               PROVE  IF prev'[v] = Null
                        THEN ahead[v] = (IF v \in Taken THEN {} ELSE Taken)
                        ELSE /\ prev'[v] \in Pending /\ ahead[v] = ahead[prev'[v]] \cup {prev'[v]}
                             /\ v \notin Taken => prev'[v] \notin Taken
    BY <1>1, <1>6 DEF PrevEdges, Behind
  <2>1. IF prev[v] = Null
          THEN ahead[v] = (IF v \in Linked THEN {} ELSE IF v \in Taken THEN Linked ELSE Taken)
          ELSE /\ prev[v] \in Pending /\ ahead[v] = ahead[prev[v]] \cup {prev[v]}
               /\ v \notin Linked => prev[v] \notin Linked
               /\ v \notin Taken => prev[v] \notin Taken
    BY DEF QueueInv, QueueShape, PrevEdges, Behind
  <2>2. CASE v = w
    <3>1. CASE middle = Null
      BY <1>1, <1>2, <1>7, <2>2, <3>1 DEF Linked
    <3>2. CASE middle # Null
      <4>1. prev'[w] = middle /\ middle \in Pending /\ Linked = ahead[middle] \cup {middle}
        BY <1>t, <1>1, <1>2, <1>5, <3>2, PointersPending DEF Linked
      <4> QED  BY <1>2, <1>5, <1>7, <2>2, <4>1
    <3> QED  BY <3>1, <3>2
  <2>3. CASE v # w
    <3>1. prev'[v] = prev[v]
      BY <1>t, <1>1, <1>5, <2>3
    <3>2. ASSUME prev[v] = Null PROVE v \in Linked \/ v \notin Taken
      <4>1. ~(v \in Taken \ Linked)
        BY <1>2, <1>7, <2>1, <2>3, <3>2, AheadIdentifies
      <4> QED  BY <4>1
    <3> QED  BY <1>3, <2>1, <3>1, <3>2
  <2> QED  BY <2>2, <2>3
<1>11. NextEdges'
  <2> SUFFICES ASSUME NEW v \in Pending
               PROVE  IF v \in Taken /\ v # b
                        THEN next'[v] \in Pending /\ ahead[next'[v]] = ahead[v] \cup {v}
                        ELSE next'[v] = Null
    BY <1>1, <1>4, <1>6 DEF NextEdges, Behind, HasNext
  <2>1. HasNext(v) <=> \/ v \in Linked /\ v # middle
                       \/ v \in Taken \ Linked /\ v # b /\ (v = w \/ w \in ahead[v])
    BY <1>1, <1>3 DEF HasNext
  <2>2. v \notin Linked => v = w \/ w \in ahead[v]
    BY <1>2, <1>7, AheadIdentifies
  <2>3. IF HasNext(v) THEN next[v] \in Pending /\ ahead[next[v]] = ahead[v] \cup {v} ELSE next[v] = Null
    BY DEF QueueInv, QueueShape, NextEdges, Behind
  <2>4. CASE v = middle
    <3>1. middle # Null /\ v \in Linked /\ Linked = ahead[v] \cup {v}
      BY <1>5, <2>4 DEF Linked
    <3>2. next'[v] = w
      BY <1>t, <1>1, <1>5, <2>4, <3>1
    <3> QED  BY <1>2, <1>3, <1>7, <3>1, <3>2
  <2>5. CASE v # middle
    <3>1. next'[v] = next[v]
      BY <1>t, <1>1, <1>5, <2>5
    <3>2. HasNext(v) <=> v \in Taken /\ v # b
      BY <1>2, <1>3, <2>1, <2>2, <2>5
    <3> QED  BY <2>3, <3>1, <3>2
  <2> QED  BY <2>4, <2>5
<1> QED  BY <1>1, <1>6, <1>8, <1>9, <1>10, <1>11 DEF QueueShape

-----------------------------------------------------------------------------
(* cancel and try_pop *)

\* Linked node w is unlinked, as cancel() and try_pop() do it: its neighbours,
\* or the ends of the list, are made to point past it.
Unlink(w) ==
  /\ w \in Linked
  /\ \A t \in Tasks : pc[t] # "link" /\ pc'[t] # "link"
  /\ Pending' = Pending \ {w}
  /\ Leave(w)
  /\ acquire' = acquire
  /\ front' = IF prev[w] = Null THEN next[w] ELSE front
  /\ middle' = IF next[w] = Null THEN prev[w] ELSE middle
  /\ next' = IF prev[w] = Null THEN next ELSE [next EXCEPT ![prev[w]] = next[w]]
  /\ prev' = IF next[w] = Null THEN prev ELSE [prev EXCEPT ![next[w]] = prev[w]]

\* What the edges of a linked node say when flip() is not at work.
LEMMA LinkedEdges ==
  ASSUME QueueInv, \A t \in Tasks : pc[t] # "link", NEW v \in Linked
  PROVE  /\ v \in Pending
         /\ prev[v] = Null <=> ahead[v] = {}
         /\ prev[v] # Null => /\ prev[v] \in Linked /\ ahead[v] = ahead[prev[v]] \cup {prev[v]}
                              /\ prev[v] \notin ahead[prev[v]] /\ prev[v] # v
         /\ next[v] = Null <=> v = middle
         /\ next[v] # Null => /\ next[v] \in Linked /\ ahead[next[v]] = ahead[v] \cup {v}
                              /\ next[v] # v
<1>1. v \in Pending /\ middle \in Pending /\ (v = middle \/ v \in ahead[middle])
  BY PartsClosed, PointersPending DEF Linked
<1>2. IF prev[v] = Null THEN ahead[v] = {}
      ELSE prev[v] \in Pending /\ ahead[v] = ahead[prev[v]] \cup {prev[v]}
  BY <1>1 DEF QueueInv, QueueShape, PrevEdges, Behind
<1>3. IF v = middle THEN next[v] = Null
      ELSE next[v] \in Pending /\ ahead[next[v]] = ahead[v] \cup {v}
  <2>1. HasNext(v) <=> v # middle
    BY DEF HasNext
  <2> QED  BY <1>1, <2>1 DEF QueueInv, QueueShape, NextEdges, Behind
<1>4. prev[v] # Null => prev[v] \in Linked /\ prev[v] \notin ahead[prev[v]] /\ prev[v] # v
  BY <1>1, <1>2, PartsClosed, AheadIdentifies
<1>5. ASSUME v # middle PROVE next[v] \in Linked /\ next[v] # v /\ next[v] # Null
  <2>1. middle \notin ahead[next[v]]
    BY <1>1, <1>3, <1>5, AheadIdentifies
  <2>2. next[v] = middle \/ next[v] \in ahead[middle]
    BY <1>1, <1>3, <1>5, <2>1, AheadIdentifies
  <2> QED  BY <1>1, <1>3, <1>5, <2>2, PointersPending, PartsClosed, AheadIdentifies
<1> QED  BY <1>1, <1>2, <1>3, <1>4, <1>5

\* Mending the edges of the neighbours, as cancel() and try_pop() do, leaves the
\* rest of the queue in shape, wherever in the list the node was.
LEMMA UnlinkStep ==
  ASSUME QueueInv, NEW w, Unlink(w)
  PROVE  QueueShape' /\ Linked' = Linked \ {w} /\ Taken' = Taken \ {w}
<1> DEFINE n == next[w]
           p == prev[w]
<1>t. /\ prev \in [Tasks -> Pointer] /\ next \in [Tasks -> Pointer] /\ ahead \in [Tasks -> SUBSET Tasks]
      /\ w \in Tasks /\ Pending \subseteq Tasks /\ Null \notin Pending /\ Linked \subseteq Pending
  BY PartsClosed, PointersPending DEF QueueInv, LockInv, TypeOK, Unlink
<1>1. \A v \in Tasks : ahead'[v] = IF v = w THEN {} ELSE ahead[v] \ {w}
  BY DEF Unlink, Leave
<1>2. /\ \A t \in Tasks : pc[t] # "link" /\ pc'[t] # "link"
      /\ Pending' = Pending \ {w} /\ acquire' = acquire /\ w \in Linked
      /\ front' = IF p = Null THEN n ELSE front
      /\ middle' = IF n = Null THEN p ELSE middle
  BY DEF Unlink
<1>3. /\ w \in Pending
      /\ p = Null <=> ahead[w] = {}
      /\ p # Null => /\ p \in Linked /\ ahead[w] = ahead[p] \cup {p}
                     /\ p \notin ahead[p] /\ p # w
      /\ n = Null <=> w = middle
      /\ n # Null => n \in Linked /\ ahead[n] = ahead[w] \cup {w} /\ n # w
  BY <1>2, LinkedEdges
<1>4. w \notin ahead[w] /\ (p # Null => w \notin ahead[p])
  BY <1>2, <1>3, <1>t, AheadIdentifies
<1>p. ASSUME p # Null PROVE ahead'[p] = ahead[p]
  <2>1. p \in Tasks /\ p # w /\ w \notin ahead[p] /\ ahead'[p] = ahead[p] \ {w}
    BY <1>1, <1>3, <1>4, <1>t, <1>p
  <2> QED  BY <2>1
<1>n. ASSUME n # Null PROVE ahead'[n] = ahead[w]
  <2>1. n \in Tasks /\ ahead'[n] = ahead[n] \ {w}
    BY <1>1, <1>3, <1>t, <1>n
  <2> QED  BY <1>3, <1>4, <1>n, <2>1
<1>5. Taken = Linked /\ middle \in Linked /\ Linked = ahead[middle] \cup {middle}
  BY <1>2, PartsClosed DEF Linked
<1>6. Linked' = Linked \ {w}
  <2>1. CASE n # Null
    <3>1. middle' = middle /\ middle # w /\ middle # Null /\ ahead'[middle] = ahead[middle] \ {w}
      BY <1>1, <1>2, <1>3, <1>5, <1>t, <2>1
    <3> QED  BY <1>5, <3>1 DEF Linked
  <2>2. CASE n = Null /\ p # Null
    <3>1. middle' = p /\ ahead'[p] = ahead[p] /\ Linked = ahead[w] \cup {w}
      BY <1>2, <1>3, <1>5, <1>p, <2>2
    <3>2. Linked' = ahead'[p] \cup {p}
      BY <2>2, <3>1 DEF Linked
    <3>3. Linked' = ahead[w]
      BY <1>3, <2>2, <3>1, <3>2
    <3> QED  BY <1>4, <3>1, <3>3
  <2>3. CASE n = Null /\ p = Null
    BY <1>2, <1>3, <1>5, <2>3 DEF Linked
  <2> QED  BY <2>1, <2>2, <2>3
<1>7. Taken' = Taken \ {w}
  BY <1>2, <1>5, <1>6 DEF Taken
<1>8. QueueOrder'
  <2>1. \A v \in Tasks \ Pending' : ahead'[v] = {}
    BY <1>1, <1>2 DEF QueueInv, QueueShape, QueueOrder
  <2>2. \A v \in Pending' : v \in Pending /\ v # w /\ ahead'[v] = ahead[v] \ {w}
    BY <1>1, <1>2, <1>t
  <2>3. \A v \in Pending' : ahead'[v] \subseteq Pending' \ {v}
    BY <1>2, <2>2, AheadIdentifies
  <2>4. \A v, x \in Pending' : v # x => (v \in ahead'[x] <=> x \notin ahead'[v])
    BY <2>2, AheadIdentifies
  <2>5. \A v, x \in Pending' : v \in ahead'[x] => ahead'[v] \subseteq ahead'[x]
    BY <2>2, AheadIdentifies
  <2> QED  BY <2>1, <2>3, <2>4, <2>5 DEF QueueOrder
<1>9. QueueEnds'
  <2>1. /\ acquire.tag = "Available" => Pending = {}
        /\ acquire.back # Null => /\ acquire.back \in Pending \ Taken
                                  /\ ahead[acquire.back] = Pending \ {acquire.back}
        /\ acquire.back = Null => Taken = Pending
        /\ front \in Pending /\ ahead[front] = {}
    BY <1>3, <1>5, <1>t DEF QueueInv, QueueShape, QueueEnds
  <2>2. acquire.back # Null => ahead'[acquire.back] = Pending' \ {acquire.back}
    <3>1. ASSUME acquire.back # Null PROVE ahead'[acquire.back] = ahead[acquire.back] \ {w}
      BY <1>1, <1>2, <1>5, <1>t, <2>1, <3>1
    <3> QED  BY <1>2, <2>1, <3>1
  <2>3. CASE p = Null
    <3>1. n # Null => ahead'[n] = {} /\ n \in Pending'
      BY <1>1, <1>2, <1>3, <1>t, <2>3
    <3>2. front' = n /\ (n = Null => middle' = Null) /\ (n # Null => middle' = middle)
      BY <1>2, <2>3
    <3>3. n # Null => middle \in Pending' /\ middle # Null
      BY <1>2, <1>3, <1>5, <1>t
    <3> QED  BY <1>2, <1>5, <1>7, <2>1, <2>2, <3>1, <3>2, <3>3 DEF QueueEnds
  <2>4. CASE p # Null
    <3>1. front' = front /\ front # w /\ ahead'[front] = {} /\ front # Null
      BY <1>1, <1>2, <1>3, <1>t, <2>1, <2>4
    <3>2. middle' \in Pending' /\ middle' # Null
      BY <1>2, <1>3, <1>5, <1>t, <2>4
    <3> QED  BY <1>2, <1>5, <1>7, <2>1, <2>2, <3>1, <3>2 DEF QueueEnds
  <2> QED  BY <2>3, <2>4
<1>10. PrevEdges'
  <2> SUFFICES ASSUME NEW v \in Pending \ {w}
               PROVE  IF prev'[v] = Null
                        THEN ahead'[v] = (IF v \in Linked THEN {} ELSE Linked \ {w})
                        ELSE /\ prev'[v] \in Pending \ {w} /\ ahead'[v] = ahead'[prev'[v]] \cup {prev'[v]}
                             /\ v \notin Linked => prev'[v] \notin Linked
    BY <1>2, <1>5, <1>6, <1>7 DEF PrevEdges, Behind
  <2>1. IF prev[v] = Null
          THEN ahead[v] = (IF v \in Linked THEN {} ELSE Linked)
          ELSE /\ prev[v] \in Pending /\ ahead[v] = ahead[prev[v]] \cup {prev[v]}
               /\ v \notin Linked => prev[v] \notin Linked
    BY <1>5 DEF QueueInv, QueueShape, PrevEdges, Behind
  <2>2. CASE v = n
    <3>1. prev'[v] = p /\ v \in Linked /\ ahead'[v] = ahead[w]
      BY <1>3, <1>n, <1>t, <2>2 DEF Unlink
    <3>2. p # Null => ahead'[p] = ahead[p] /\ p \in Pending \ {w}
      BY <1>3, <1>p, <1>t
    <3>3. CASE p = Null
      BY <1>3, <3>1, <3>3
    <3>4. CASE p # Null
      <4>1. ahead'[v] = ahead'[p] \cup {p}
        BY <1>3, <3>1, <3>2, <3>4
      <4> QED  BY <3>1, <3>2, <3>4, <4>1
    <3> QED  BY <3>3, <3>4
  <2>3. CASE v # n
    <3>1. prev'[v] = prev[v] /\ ahead'[v] = ahead[v] \ {w}
      BY <1>1, <1>t, <2>3 DEF Unlink
    <3>2. prev[v] # w
      <4>1. SUFFICES ASSUME prev[v] = w PROVE FALSE
        OBVIOUS
      <4>2. ahead[v] = ahead[w] \cup {w} /\ v \in Linked
        BY <1>2, <1>t, <2>1, <4>1
      <4>3. n # Null
        <5>1. w # middle
          BY <1>2, <1>3, <1>5, <1>t, <4>2, AheadIdentifies
        <5> QED  BY <1>3, <5>1
      <4> QED  BY <1>3, <1>t, <2>3, <4>2, <4>3, AheadIdentifies
    <3>3. prev[v] # Null => ahead'[prev[v]] = ahead[prev[v]] \ {w}
      BY <1>1, <1>t, <2>1, <3>2
    <3> QED  BY <2>1, <3>1, <3>2, <3>3
  <2> QED  BY <2>2, <2>3
<1>11. NextEdges'
  <2> SUFFICES ASSUME NEW v \in Pending \ {w}
               PROVE  IF v \in Linked /\ v # middle'
                        THEN next'[v] \in Pending \ {w} /\ ahead'[next'[v]] = ahead'[v] \cup {v}
                        ELSE next'[v] = Null
    BY <1>2, <1>6 DEF NextEdges, Behind, HasNext
  <2>1. IF v \in Linked /\ v # middle
          THEN next[v] \in Pending /\ ahead[next[v]] = ahead[v] \cup {v}
          ELSE next[v] = Null
    BY <1>2 DEF QueueInv, QueueShape, NextEdges, Behind, HasNext
  <2>2. CASE v = p
    <3>1. next'[v] = n /\ p # Null /\ v \in Linked /\ ahead'[v] = ahead[v]
      <4>1. p # Null /\ v \in Linked
        BY <1>3, <1>t, <2>2
      <4>2. next'[v] = n
        BY <1>1, <1>t, <2>2, <4>1 DEF Unlink
      <4>3. ahead'[v] = ahead[v]
        BY <1>p, <2>2, <4>1
      <4> QED  BY <4>1, <4>2, <4>3
    <3>2. CASE n = Null
      BY <1>2, <2>2, <3>1, <3>2
    <3>3. CASE n # Null
      <4>1. middle' = middle /\ v # middle
        BY <1>2, <1>3, <1>5, <1>t, <2>2, <3>1, <3>3, AheadIdentifies
      <4>2. ahead'[n] = ahead[w]
        BY <1>n, <3>3
      <4> QED  BY <1>3, <1>t, <2>2, <3>1, <3>3, <4>1, <4>2
    <3> QED  BY <3>2, <3>3
  <2>3. CASE v # p
    <3>1. next'[v] = next[v] /\ ahead'[v] = ahead[v] \ {w}
      BY <1>1, <1>t, <2>3 DEF Unlink
    <3>2. v # middle' <=> v # middle
      BY <1>2, <1>3, <2>3
    <3>3. next[v] # Null => next[v] # w
      <4>1. SUFFICES ASSUME next[v] = w, ahead[w] = ahead[v] \cup {v} PROVE FALSE
        BY <1>t, <2>1
      <4>2. p # Null
        BY <1>3, <4>1
      <4> QED  BY <1>3, <1>t, <2>3, <4>1, <4>2, AheadIdentifies
    <3>4. next[v] # Null => ahead'[next[v]] = ahead[next[v]] \ {w}
      BY <1>1, <1>t, <2>1, <3>3
    <3>5. CASE v \in Linked /\ v # middle
      <4>1. next[v] # Null /\ next[v] \in Pending \ {w}
        BY <1>t, <2>1, <3>3, <3>5
      <4>2. ahead'[next[v]] = (ahead[v] \cup {v}) \ {w}
        BY <2>1, <3>4, <3>5, <4>1
      <4> QED  BY <3>1, <3>2, <3>5, <4>1, <4>2
    <3>6. CASE ~(v \in Linked /\ v # middle)
      BY <2>1, <3>1, <3>2, <3>6
    <3> QED  BY <3>5, <3>6
  <2> QED  BY <2>2, <2>3
<1> QED  BY <1>6, <1>7, <1>8, <1>9, <1>10, <1>11 DEF QueueShape

\* cancel() unlinks a node ...
LEMMA CancelUnlinks ==
  ASSUME QueueInv, NEW t \in Tasks, Cancel(t)
  PROVE  Unlink(todo[t])
<1> DEFINE w == todo[t]
<1>t. /\ waker \in [Tasks -> WakerState] /\ pc' = pc /\ step' = step /\ acquire' = acquire
  BY DEF QueueInv, LockInv, TypeOK, Cancel
<1>1. w \in Linked
  BY DEF QueueInv, CancelStacks, StackEdges, StackLinked, Cancel
<1>2. \A u \in Tasks : pc[u] # "link" /\ pc'[u] # "link"
  BY <1>t DEF Cancel, QueueInv, LockInv, LockExclusion, Owner, OwnerPC
<1>3. Pending' = Pending \ {w}
  BY <1>1, <1>t, PartsClosed DEF Cancel, AcceptCancel, Pending
<1>4. /\ Leave(w)
      /\ front' = IF prev[w] = Null THEN next[w] ELSE front
      /\ middle' = IF next[w] = Null THEN prev[w] ELSE middle
      /\ next' = IF prev[w] = Null THEN next ELSE [next EXCEPT ![prev[w]] = next[w]]
      /\ prev' = IF next[w] = Null THEN prev ELSE [prev EXCEPT ![next[w]] = prev[w]]
  BY DEF Cancel, MendPrev
<1> QED  BY <1>t, <1>1, <1>2, <1>3, <1>4 DEF Unlink

\* ... and so does try_pop(): the oldest.
LEMMA TryPopUnlinks ==
  ASSUME QueueInv, NEW t \in Tasks, TryPop(t)
  PROVE  Unlink(front) /\ ahead[front] = {}
<1> DEFINE w == front
<1>t. /\ waker \in [Tasks -> WakerState] /\ pc \in [Tasks -> PC]
      /\ step' = step /\ acquire' = acquire /\ pc[t] = "settle"
      /\ pc' \in {pc, [pc EXCEPT ![t] = "wake"]}
  BY DEF QueueInv, LockInv, TypeOK, TryPop, Settling, Finish, Goto
<1>1. w # Null
  BY DEF TryPop, Stuck
<1>2. \A u \in Tasks : pc[u] # "link" /\ pc'[u] # "link"
  <2>1. \A u \in Tasks : pc[u] # "link"
    BY <1>t DEF QueueInv, LockInv, LockExclusion, Owner, OwnerPC
  <2> QED  BY <1>t, <2>1
<1>3. w \in Linked /\ ahead[w] = {} /\ middle # Null
  <2>1. middle # Null /\ w \in Pending /\ ahead[w] = {}
    BY <1>1 DEF QueueInv, QueueShape, QueueEnds
  <2>2. w = middle \/ w \in ahead[middle]
    BY <2>1, PointersPending, AheadIdentifies
  <2> QED  BY <2>1, <2>2 DEF Linked
<1>4. prev[w] = Null
  BY <1>2, <1>3, LinkedEdges
<1>5. Pending' = Pending \ {w}
  <2>1. \E s \in {"Finished", "Poisoned"} : waker' = [waker EXCEPT ![w] = s]
    BY DEF TryPop, Finish
  <2> QED  BY <1>3, <1>t, <2>1, PartsClosed DEF Pending
<1>6. /\ Leave(w)
      /\ front' = next[w]
      /\ middle' = IF next[w] = Null THEN Null ELSE middle
      /\ next' = next
      /\ prev' = IF next[w] = Null THEN prev ELSE [prev EXCEPT ![next[w]] = Null]
  BY DEF TryPop, MendPrev
<1> QED  BY <1>t, <1>2, <1>3, <1>4, <1>5, <1>6 DEF Unlink

=============================================================================
