------------------------- MODULE SemaphoreQueueProofs -------------------------
(***************************************************************************)
(* Theorems about the queue and the permits of module Semaphore, for every *)
(* set of tasks and every choice of the other constants: the queue stays   *)
(* in shape, nothing panics, acquires are finished in order, no wake is    *)
(* lost, nobody is left waiting for permits that are free or parked for a  *)
(* cancellation, and no permit is lost or made up.                         *)
(***************************************************************************)
EXTENDS SemaphoreProofs

USE MaxAvailableAssumption, ConstantsAssumption

USE DEF Queued, Available, Unlocked, Locked, LockedDirty,
        semaphoreVars, nodeVars, localVars, clientVars, historyVars

\* Every step is one that leaves the queue alone or one of the six that do not.
LEMMA StepCases ==
  ASSUME NEW t \in Tasks, Begin(t) \/ Continue(t)
  PROVE  \/ Quiet(t) \/ \E n \in Amounts : PollEnterQueue(t, n)
         \/ FlipTake(t) \/ LinkNext(t) \/ LinkLast(t) \/ Cancel(t) \/ TryPop(t)
BY DEF Begin, Poll, DropFuture, Continue, Quiet

\* No step, of whichever task and call, takes the queue out of shape.
LEMMA QueueShapeStep ==
  ASSUME QueueInv, NEW t \in Tasks, Begin(t) \/ Continue(t)
  PROVE  QueueShape'
BY StepCases, QuietStep, SameQueue, FlipAvailableStep, EnterStep, FlipTakeStep, LinkNextStep,
   LinkLastStep, CancelUnlinks, TryPopUnlinks, UnlinkStep

\* cancel() is done with the stack, and flip() with its batch, before release()
\* unlocks or goes round again.
LEMMA LocalsBlankStep ==
  ASSUME QueueInv, NEW t \in Tasks, Begin(t) \/ Continue(t), NEW u \in Tasks
  PROVE  LocalsBlank(u)'
<1>t. /\ pc \in [Tasks -> PC] /\ todo \in [Tasks -> Pointer] /\ back \in [Tasks -> Pointer]
  BY DEF QueueInv, LockInv, TypeOK
<1>u. LocalsBlank(t) /\ LocalsBlank(u)
  BY DEF QueueInv, OwnerLocals
<1> USE <1>t, <1>u DEF LocalsBlank, OwnerPC, Goto, BeginRelease, ReturnFromRelease, NoFuture
<1>1. CASE \E n \in Amounts : PollEnterAcquire(t, n)
  BY <1>1 DEF PollEnterAcquire
<1>2. CASE \E n \in Amounts : PollEnterQueue(t, n)
  BY <1>2 DEF PollEnterQueue
<1>3. CASE \E n \in Amounts : TryAcquire(t, n)
  BY <1>3 DEF TryAcquire
<1>4. CASE \E n \in Releases : Release(t, n)
  BY <1>4 DEF Release
<1>5. CASE PollReady(t)
  BY <1>5 DEF PollReady
<1>6. CASE PollStore(t)
  BY <1>6 DEF PollStore
<1>7. CASE DropFinished(t)
  BY <1>7 DEF DropFinished
<1>8. CASE StartCancel(t)
  BY <1>8 DEF StartCancel
<1>9. CASE Poison(t)
  BY <1>9 DEF Poison
<1>10. CASE DropGuard(t)
  BY <1>10 DEF DropGuard
<1>11. CASE DropGuardPanicking(t)
  BY <1>11 DEF DropGuardPanicking
<1>12. CASE Forget(t)
  BY <1>12 DEF Forget
<1>13. CASE PollStored(t)
  BY <1>13 DEF PollStored
<1>14. CASE PushCancel(t)
  BY <1>14 DEF PushCancel
<1>15. CASE WaitCancel(t)
  BY <1>15 DEF WaitCancel
<1>16. CASE LockOrElseDefer(t)
  BY <1>16 DEF LockOrElseDefer
<1>17. CASE SwapCancel(t)
  BY <1>17 DEF SwapCancel
<1>18. CASE FlipAvailable(t)
  BY <1>18 DEF FlipAvailable
<1>19. CASE FlipNothing(t)
  BY <1>19 DEF FlipNothing
<1>20. CASE FlipTake(t)
  BY <1>20 DEF FlipTake
<1>21. CASE LinkNext(t)
  BY <1>21 DEF LinkNext
<1>22. CASE LinkLast(t)
  BY <1>22 DEF LinkLast
<1>23. CASE Cancel(t)
  BY <1>23 DEF Cancel
<1>24. CASE TryPop(t)
  BY <1>24 DEF TryPop, Finish, Settling
<1>25. CASE Wake(t)
  BY <1>25 DEF Wake
<1>26. CASE TryUnlock(t)
  BY <1>26 DEF TryUnlock, Settling
<1> QED
  BY <1>1, <1>2, <1>3, <1>4, <1>5, <1>6, <1>7, <1>8, <1>9, <1>10, <1>11, <1>12, <1>13,
     <1>14, <1>15, <1>16, <1>17, <1>18, <1>19, <1>20, <1>21, <1>22, <1>23, <1>24, <1>25, <1>26
  DEF Begin, Poll, DropFuture, Continue

\* The batch that flip() links stays younger than the nodes linked before it.
LEMMA BatchYoungerStep ==
  ASSUME QueueInv, NEW t \in Tasks, Begin(t) \/ Continue(t), NEW u \in Tasks
  PROVE  BatchYounger(u)'
<1>t. /\ pc \in [Tasks -> PC] /\ back \in [Tasks -> Pointer] /\ cursor \in [Tasks -> Pointer]
  BY DEF QueueInv, LockInv, TypeOK
<1>u. BatchYounger(u)
  BY DEF QueueInv, OwnerLocals
<1>1. CASE QueueSame
  BY <1>1, <1>u, SameQueue DEF BatchYounger, QueueSame
<1>2. CASE FlipAvailable(t)
  BY <1>2 DEF FlipAvailable, BatchYounger, Goto, QueueInv, LockInv, TypeOK, LockExclusion, Owner, OwnerPC
<1>3. ASSUME NEW n \in Amounts, PollEnterQueue(t, n) PROVE BatchYounger(u)'
  BY <1>3, <1>u, EnterStep DEF BatchYounger
<1>4. CASE FlipTake(t)
  <2>1. pc'[u] = "link" => u = t
    BY <1>4, <1>t DEF FlipTake, Goto, QueueInv, LockInv, LockExclusion, Owner, OwnerPC
  <2> QED  BY <1>4, <1>t, <2>1, FlipTakeStep DEF BatchYounger
<1>5. CASE LinkNext(t)
  <2>1. pc' = pc /\ (pc[u] = "link" => u = t) /\ pc[t] = "link"
    BY <1>5, <1>t DEF LinkNext, QueueInv, LockInv, LockExclusion, Owner, OwnerPC
  <2> QED  BY <1>5, <1>t, <1>u, <2>1, LinkNextStep DEF BatchYounger
<1>6. CASE LinkLast(t)
  BY <1>6, <1>t DEF LinkLast, BatchYounger, Goto, QueueInv, LockInv, LockExclusion, Owner, OwnerPC
<1>7. CASE Cancel(t)
  BY <1>7, CancelUnlinks DEF Unlink, BatchYounger
<1>8. CASE TryPop(t)
  BY <1>8, TryPopUnlinks DEF Unlink, BatchYounger
<1> QED  BY <1>1, <1>2, <1>3, <1>4, <1>5, <1>6, <1>7, <1>8, StepCases, QuietStep

\* The pointers the cancellation stacks are made of.
StackSame ==
  /\ Stacked' = Stacked /\ UNCHANGED <<nextCancel, todo>>
  /\ \A v \in Stacked : cancelNext'[v] = cancelNext[v]

\* A step that leaves those as they are, as all but three do, keeps the stacks
\* in shape.
LEMMA SameStack ==
  ASSUME StackSame, NEW fresh, StackEdges(fresh)
  PROVE  StackEdges(fresh)'
BY DEF StackSame, StackEdges

\* Only the push in drop, the swap and cancel() touch the stacks.
LEMMA StackQuietStep ==
  ASSUME QueueInv, NEW t \in Tasks, Begin(t) \/ Continue(t)
  PROVE  StackSame \/ PushCancel(t) \/ SwapCancel(t) \/ Cancel(t)
<1>t. /\ pc \in [Tasks -> PC] /\ waker \in [Tasks -> WakerState] /\ cancelNext \in [Tasks -> Pointer]
  BY DEF QueueInv, LockInv, TypeOK
<1>u. NodeAgrees(t)
  BY DEF QueueInv, NodeControl
<1> USE <1>t, <1>u DEF NodeAgrees, InCancel, Owner, OwnerPC, Goto, BeginRelease, ReturnFromRelease,
                       FinishPoll, EndFuture, NoFuture, Stacked, StackSame
<1>1. CASE \E n \in Amounts : PollEnterAcquire(t, n)
  BY <1>1 DEF PollEnterAcquire
<1>2. CASE \E n \in Amounts : PollEnterQueue(t, n)
  BY <1>2 DEF PollEnterQueue
<1>3. CASE \E n \in Amounts : TryAcquire(t, n)
  BY <1>3 DEF TryAcquire
<1>4. CASE \E n \in Releases : Release(t, n)
  BY <1>4 DEF Release
<1>5. CASE PollReady(t)
  BY <1>5 DEF PollReady
<1>6. CASE PollStore(t)
  BY <1>6 DEF PollStore
<1>7. CASE DropFinished(t)
  BY <1>7 DEF DropFinished
<1>8. CASE StartCancel(t)
  BY <1>8 DEF StartCancel
<1>9. CASE Poison(t)
  BY <1>9 DEF Poison
<1>10. CASE DropGuard(t)
  BY <1>10 DEF DropGuard
<1>11. CASE DropGuardPanicking(t)
  BY <1>11 DEF DropGuardPanicking
<1>12. CASE Forget(t)
  BY <1>12 DEF Forget
<1>13. CASE PollStored(t)
  BY <1>13 DEF PollStored
<1>15. CASE WaitCancel(t)
  BY <1>15 DEF WaitCancel
<1>16. CASE LockOrElseDefer(t)
  BY <1>16 DEF LockOrElseDefer
<1>18. CASE FlipAvailable(t)
  BY <1>18 DEF FlipAvailable
<1>19. CASE FlipNothing(t)
  BY <1>19 DEF FlipNothing
<1>20. CASE FlipTake(t)
  BY <1>20 DEF FlipTake
<1>21. CASE LinkNext(t)
  BY <1>21 DEF LinkNext
<1>22. CASE LinkLast(t)
  BY <1>22 DEF LinkLast
<1>24. CASE TryPop(t)
  BY <1>24 DEF TryPop, Finish, Settling
<1>25. CASE Wake(t)
  BY <1>25 DEF Wake
<1>26. CASE TryUnlock(t)
  BY <1>26 DEF TryUnlock, Settling
<1> QED
  BY <1>1, <1>2, <1>3, <1>4, <1>5, <1>6, <1>7, <1>8, <1>9, <1>10, <1>11, <1>12, <1>13,
     <1>15, <1>16, <1>18, <1>19, <1>20, <1>21, <1>22, <1>24, <1>25, <1>26
  DEF Begin, Poll, DropFuture, Continue

\* What the swap took from the stack is linked by flip() before cancel() unlinks
\* it: the swap comes first, and by then the node was in the queue.
LEMMA StackLinkedStep ==
  ASSUME QueueInv, NEW t \in Tasks, Begin(t) \/ Continue(t), NEW fresh \in SUBSET Stacked,
         StackLinked(fresh), ~PushCancel(t), ~SwapCancel(t), ~Cancel(t)
  PROVE  StackLinked(fresh)'
<1>t. /\ pc \in [Tasks -> PC] /\ Stacked' = Stacked
  BY StackQuietStep DEF StackSame, QueueInv, LockInv, TypeOK
<1>s. Stacked \subseteq Pending
  BY DEF Stacked, Pending, QueueInv, NodeControl, NodeAgrees, LockInv, TypeOK, AcquireStep
<1>o. \A u \in Tasks : Owner(t) /\ Owner(u) => u = t
  BY DEF QueueInv, LockInv, LockExclusion
<1> SUFFICES ASSUME NEW u \in Tasks
             PROVE  /\ pc'[u] = "link" => Stacked \ fresh \subseteq Taken'
                    /\ Settles(u)' => Stacked \ fresh \subseteq Linked'
  BY <1>t DEF StackLinked, Settles
<1>u. /\ pc[u] = "link" => Stacked \ fresh \subseteq Taken
      /\ Settles(u) => Stacked \ fresh \subseteq Linked
  BY DEF StackLinked, Settles
<1>1. CASE QueueSame /\ NoneSettles
  BY <1>1, <1>u, SameQueue DEF QueueSame, NoneSettles
<1>2. CASE FlipNothing(t)
  <2>1. \A v \in Tasks : pc[v] # "link" /\ pc'[v] # "link"
    BY <1>2, <1>t, <1>o DEF FlipNothing, Goto, Owner, OwnerPC
  <2>2. Linked' = Linked /\ Linked = Taken /\ Taken = Pending
    <3>1. Linked' = Linked
      BY <1>2 DEF FlipNothing, Linked
    <3> QED  BY <1>2, <2>1, <3>1, PartsClosed DEF FlipNothing, QueueInv, QueueShape, QueueEnds
  <2> QED  BY <1>s, <2>1, <2>2
<1>3. CASE FlipAvailable(t)
  <2>1. Stacked = {}
    BY <1>3, <1>s, FlipAvailableStep
  <2> QED  BY <2>1
<1>4. ASSUME NEW n \in Amounts, PollEnterQueue(t, n)
      PROVE  /\ pc'[u] = "link" => Stacked \ fresh \subseteq Taken'
             /\ Settles(u)' => Stacked \ fresh \subseteq Linked'
  <2>1. Settles(u)' => Settles(u)
    BY <1>4, <1>t DEF PollEnterQueue, BeginRelease, Goto, Settles
  <2> QED  BY <1>4, <1>u, <2>1, EnterStep
<1>5. CASE FlipTake(t)
  <2>1. ~Settles(u)'
    BY <1>5, <1>t, <1>o DEF FlipTake, Goto, Settles, Owner, OwnerPC
  <2> QED  BY <1>5, <1>s, <2>1, FlipTakeStep
<1>6. CASE LinkNext(t)
  BY <1>6, <1>u, LinkNextStep DEF LinkNext, Settles
<1>7. CASE LinkLast(t)
  <2>1. /\ pc'[u] # "link"
        /\ Settles(u)' => pc[u] = "link"
    BY <1>7, <1>t, <1>o DEF LinkLast, Goto, Settles, Owner, OwnerPC
  <2> QED  BY <1>7, <1>u, <2>1, LinkLastStep
<1>8. CASE TryPop(t)
  <2>1. pc'[u] # "link" /\ Linked' = Linked \ {front}
    BY <1>8, TryPopUnlinks, UnlinkStep DEF Unlink
  <2>2. front \notin Stacked
    BY <1>8 DEF TryPop, Finish, Stacked
  <2>3. Settles(u)' => Settles(u)
    BY <1>8, <1>t DEF TryPop, Finish, Settling, Goto, Settles
  <2> QED  BY <1>u, <2>1, <2>2, <2>3
<1> QED
  BY <1>1, <1>2, <1>3, <1>4, <1>5, <1>6, <1>7, <1>8, StepCases, QuietStep

\* The push of drop, the swap of release() and the loop of cancel() keep every
\* cancelling node on one stack: nobody is unlinked twice.
LEMMA CancelStacksStep ==
  ASSUME QueueInv, NEW t \in Tasks, Begin(t) \/ Continue(t)
  PROVE  CancelStacks'
<1> PICK fresh \in SUBSET Stacked : StackEdges(fresh) /\ StackLinked(fresh)
  BY DEF QueueInv, CancelStacks
<1>t. /\ pc \in [Tasks -> PC] /\ waker \in [Tasks -> WakerState] /\ cancelNext \in [Tasks -> Pointer]
      /\ todo \in [Tasks -> Pointer] /\ nextCancel \in Pointer
  BY DEF QueueInv, LockInv, TypeOK
<1>o. \A u \in Tasks : Owner(t) /\ Owner(u) => u = t
  BY DEF QueueInv, LockInv, LockExclusion
<1>n. Null \notin Stacked
  BY DEF Stacked
<1>1. CASE PushCancel(t)
  <2>1. t \notin Stacked /\ Stacked' = Stacked \cup {t}
    BY <1>1, <1>t DEF PushCancel, Stacked, BeginRelease, Goto, QueueInv, NodeControl, NodeAgrees
  <2>2. /\ nextCancel' = t /\ todo' = todo
        /\ cancelNext' = [cancelNext EXCEPT ![t] = nextCancel]
    BY <1>1 DEF PushCancel
  <2>3. StackEdges(fresh \cup {t})'
    BY <1>t, <1>n, <2>1, <2>2 DEF StackEdges
  <2>4. StackLinked(fresh \cup {t})'
    <3>1. QueueSame /\ NoneSettles
      BY <1>1, QuietStep DEF Quiet, PushCancel, FlipAvailable, FlipNothing
    <3>2. Stacked' \ (fresh \cup {t}) = Stacked \ fresh
      BY <2>1
    <3> QED  BY <3>1, <3>2, SameQueue DEF StackLinked, QueueSame, NoneSettles, Settles
  <2>5. fresh \cup {t} \in SUBSET Stacked'
    BY <2>1
  <2> QED  BY <2>3, <2>4, <2>5 DEF CancelStacks
<1>2. CASE SwapCancel(t)
  <2>1. /\ pc[t] = "swap" /\ pc' = [pc EXCEPT ![t] = "flip"]
        /\ nextCancel' = Null /\ UNCHANGED <<waker, cancelNext>>
        /\ todo' = [todo EXCEPT ![t] = nextCancel]
    BY <1>2 DEF SwapCancel, Goto
  <2>2. Stacked' = Stacked
    BY <1>t, <2>1 DEF Stacked
  <2>3. \A u \in Tasks : todo'[u] # Null => u = t /\ todo'[u] = nextCancel
    BY <1>t, <1>o, <2>1 DEF QueueInv, OwnerLocals, LocalsBlank, Owner, OwnerPC
  <2>4. StackEdges({})'
    BY <1>n, <2>1, <2>2, <2>3 DEF StackEdges
  <2>5. StackLinked({})'
    BY <1>t, <1>o, <2>1 DEF StackLinked, Owner, OwnerPC
  <2> QED  BY <2>4, <2>5 DEF CancelStacks
<1>3. CASE Cancel(t)
  <2> DEFINE w == todo[t]
  <2>1. /\ pc[t] = "settle" /\ w # Null /\ UNCHANGED <<pc, nextCancel, cancelNext>>
        /\ waker' = [waker EXCEPT ![w] = "Cancelled"]
        /\ todo' = [todo EXCEPT ![t] = cancelNext[w]]
    BY <1>3 DEF Cancel, AcceptCancel
  <2>2. w \in Stacked /\ w \notin fresh /\ \A v \in Stacked : cancelNext[v] # w
    BY <2>1 DEF StackEdges
  <2>3. Stacked' = Stacked \ {w}
    BY <1>t, <2>1, <2>2 DEF Stacked
  <2>4. \A u \in Tasks : todo[u] # Null => u = t
    BY <1>o, <2>1 DEF QueueInv, OwnerLocals, LocalsBlank, Owner, OwnerPC
  <2>5. StackEdges(fresh)'
    <3>1. nextCancel' \in fresh \cup {Null}
      BY <2>1 DEF StackEdges
    <3>2. ASSUME NEW v \in Stacked \ {w}, cancelNext[v] # Null
          PROVE  /\ cancelNext[v] \in Stacked \ {w}
                 /\ cancelNext[v] \in fresh <=> v \in fresh
                 /\ cancelNext[v] # nextCancel
                 /\ \A x \in Stacked : cancelNext[v] = cancelNext[x] => v = x
      BY <2>2, <3>2 DEF StackEdges
    <3>3. ASSUME NEW u \in Tasks, todo'[u] # Null
          PROVE  /\ todo'[u] \in Stacked \ {w} /\ todo'[u] \notin fresh
                 /\ \A v \in Stacked \ {w} : cancelNext[v] # todo'[u]
      <4>1. u = t /\ todo'[u] = cancelNext[w]
        BY <1>t, <2>1, <2>4, <3>3
      <4>2. cancelNext[w] \in Stacked /\ cancelNext[w] \notin fresh /\ cancelNext[w] # w
            /\ \A v \in Stacked : cancelNext[w] = cancelNext[v] => w = v
        BY <2>2, <3>3, <4>1 DEF StackEdges
      <4> QED  BY <4>1, <4>2
    <3> QED  BY <2>1, <2>3, <3>1, <3>2, <3>3 DEF StackEdges
  <2>6. StackLinked(fresh)'
    <3>1. Linked' = Linked \ {w} /\ Taken' = Taken \ {w}
      BY <1>3, CancelUnlinks, UnlinkStep
    <3> QED  BY <2>1, <2>3, <3>1 DEF StackLinked
  <2> QED  BY <2>2, <2>3, <2>5, <2>6 DEF CancelStacks
<1>4. CASE ~PushCancel(t) /\ ~SwapCancel(t) /\ ~Cancel(t)
  <2>1. StackSame
    BY <1>4, StackQuietStep
  <2> QED  BY <1>4, <2>1, SameStack, StackLinkedStep DEF CancelStacks, StackSame
<1> QED  BY <1>1, <1>2, <1>3, <1>4

-----------------------------------------------------------------------------
(* The invariant of the queue and what follows from it *)

\* The queue, the tasks, the locals of release() and the stacks, whichever step
\* is taken.
LEMMA QueueInvStep ==
  ASSUME QueueInv, LockInv', NEW t \in Tasks, Begin(t) \/ Continue(t)
  PROVE  QueueInv'
BY QueueShapeStep, NodeControlStep, LocalsBlankStep, BatchYoungerStep, CancelStacksStep
DEF QueueInv, OwnerLocals

\* The types and the release lock, from SemaphoreProofs.
LEMMA LockInvStep ==
  ASSUME LockInv, NEW t \in Tasks, Begin(t) \/ Continue(t)
  PROVE  LockInv'
BY TypeOKStep, ControlStep DEF LockInv

\* Semaphore::new: at first nobody waits.
LEMMA QueueInvInit == Init /\ LockInv => QueueInv
<1> SUFFICES ASSUME Init, LockInv PROVE QueueInv
  OBVIOUS
<1>1. Pending = {} /\ Linked = {} /\ Taken = {} /\ Stacked = {}
  BY DEF Init, Pending, Linked, Taken, Stacked
<1>2. QueueShape
  BY <1>1 DEF Init, QueueShape, QueueOrder, QueueEnds, PrevEdges, NextEdges
<1>3. NodeControl
  BY DEF Init, NodeControl, NodeAgrees, InCancel, Owner, OwnerPC
<1>4. OwnerLocals
  BY DEF Init, OwnerLocals, LocalsBlank, BatchYounger
<1>5. CancelStacks
  BY <1>1 DEF Init, CancelStacks, StackEdges, StackLinked
<1> QED  BY <1>2, <1>3, <1>4, <1>5 DEF QueueInv

\* A step of the program outside the semaphore changes nothing.
LEMMA QueueInvStutter == QueueInv /\ UNCHANGED vars => QueueInv'
<1> SUFFICES ASSUME QueueInv, UNCHANGED vars PROVE QueueInv'
  OBVIOUS
<1>1. LockInv'
  BY DEF vars, QueueInv, LockInv, TypeOK, LockExclusion, ReleasableBlank, CursorSet, Owner
<1>2. Pending' = Pending /\ Stacked' = Stacked
  BY DEF vars, Pending, Stacked
<1>3. QueueSame
  BY <1>2 DEF vars, QueueSame
<1>4. QueueShape' /\ Linked' = Linked /\ Taken' = Taken
  BY <1>3, SameQueue
<1>5. NodeControl'
  BY DEF QueueInv, vars, NodeControl, NodeAgrees, InCancel, Owner
<1>6. OwnerLocals'
  BY <1>2, <1>4 DEF QueueInv, vars, OwnerLocals, LocalsBlank, BatchYounger
<1>7. CancelStacks'
  BY <1>2, <1>4 DEF QueueInv, vars, CancelStacks, StackEdges, StackLinked
<1> QED  BY <1>1, <1>4, <1>5, <1>6, <1>7 DEF QueueInv

\* In every reachable state: the queue, the states of the nodes, the locals of
\* release() and the cancellation stacks fit together.
THEOREM QueueInvariant == Spec => []QueueInv
<1>1. Init /\ LockInv => QueueInv
  BY QueueInvInit
<1>2. QueueInv /\ LockInv' /\ [Next]_vars => QueueInv'
  <2> SUFFICES ASSUME QueueInv, LockInv', [Next]_vars PROVE QueueInv'
    OBVIOUS
  <2>1. ASSUME NEW t \in Tasks, Begin(t) \/ Continue(t) PROVE QueueInv'
    BY <2>1, QueueInvStep
  <2>2. CASE UNCHANGED vars
    BY <2>2, QueueInvStutter
  <2> QED  BY <2>1, <2>2 DEF Next
<1> QED  BY <1>1, <1>2, LockInvariant, PTL DEF Spec

\* flip() loses no acquire and cancel() and try_pop() mend every edge, however
\* many acquires arrive, are cancelled and are finished, and in whatever order.
THEOREM QueueInShape == Spec => []QueueShape
<1>1. QueueInv => QueueShape
  BY DEF QueueInv
<1> QED  BY <1>1, QueueInvariant, PTL

\* None of the assertions and unreachable!() of release.rs and waker.rs can
\* fail, for any number of tasks and any amounts.
THEOREM NothingPanics == Spec => []NoPanic
<1>1. QueueInv => NoPanic
  <2> SUFFICES ASSUME QueueInv, NEW t \in Tasks
      PROVE  /\ pc[t] = "flip" /\ acquire.tag = "Available" => front = Null
             /\ Settling(t) /\ Stuck(t) => release.tag # "Unlocked"
             /\ pc[t] = "settle" /\ todo[t] # Null => waker[todo[t]] = "Cancelling"
             /\ Settling(t) /\ front # Null => waker[front] \in {"Pending", "Storing", "Cancelling"}
             /\ pc[t] = "storing" => waker[t] \in {"Storing", "Finished", "Poisoned"}
             /\ pc[t] = "wait_cancel" => waker[t] \in {"Cancelling", "Cancelled"}
             /\ pc[t] = "idle" /\ step[t] = "Waiting" => waker[t] \in {"Pending", "Finished", "Poisoned"}
    BY DEF NoPanic
  <2>1. acquire.tag = "Available" => front = Null
    BY DEF QueueInv, QueueShape, QueueEnds
  <2>2. pc[t] = "settle" => release.tag # "Unlocked"
    BY DEF QueueInv, LockInv, LockExclusion, Owner, OwnerPC
  <2>3. todo[t] # Null => waker[todo[t]] = "Cancelling"
    BY DEF QueueInv, CancelStacks, StackEdges, Stacked
  <2>4. front # Null => waker[front] \in {"Pending", "Storing", "Cancelling"}
    BY DEF QueueInv, QueueShape, QueueEnds, Pending
  <2>5. NodeAgrees(t) /\ waker[t] \in WakerState
    BY DEF QueueInv, NodeControl, LockInv, TypeOK
  <2>6. pc[t] = "idle" => waker[t] \in {"Pending", "Finished", "Poisoned"}
    BY <2>5 DEF NodeAgrees, InCancel, Owner, OwnerPC, WakerState
  <2>7. pc[t] = "wait_cancel" => waker[t] \in {"Cancelling", "Cancelled"}
    BY <2>5 DEF NodeAgrees, InCancel
  <2> QED  BY <2>1, <2>2, <2>3, <2>4, <2>5, <2>6, <2>7 DEF Settling, NodeAgrees
<1> QED  BY <1>1, QueueInvariant, PTL

\* Only try_pop() finishes a pending acquire.
LEMMA FinishedByTryPop ==
  ASSUME QueueInv, NEW t \in Tasks, Begin(t) \/ Continue(t),
         NEW v \in Pending, waker'[v] \in {"Finished", "Poisoned"}
  PROVE  TryPop(t) /\ v = front
<1>t. waker \in [Tasks -> WakerState] /\ v \in Tasks /\ waker[v] \in {"Pending", "Storing", "Cancelling"}
  BY DEF QueueInv, LockInv, TypeOK, Pending
<1>u. /\ \A w \in Tasks : waker' # [waker EXCEPT ![w] = "Pending"]
      /\ \A w \in Tasks : waker' # [waker EXCEPT ![w] = "Storing"]
      /\ \A w \in Tasks : waker' # [waker EXCEPT ![w] = "Cancelling"]
      /\ \A w \in Tasks : waker' # [waker EXCEPT ![w] = "Cancelled"]
      /\ waker' # waker
  BY <1>t
<1>s. (DropFinished(t) \/ WaitCancel(t) \/ PollReady(t) \/ PollStored(t)) => FALSE
  BY <1>u DEF DropFinished, WaitCancel, PollReady, PollStored, FinishPoll, EndFuture
<1> USE <1>u DEF FinishPoll, EndFuture
<1>1. CASE \E n \in Amounts : PollEnterAcquire(t, n)
  BY <1>1 DEF PollEnterAcquire
<1>2. CASE \E n \in Amounts : PollEnterQueue(t, n)
  BY <1>2 DEF PollEnterQueue
<1>3. CASE \E n \in Amounts : TryAcquire(t, n)
  BY <1>3 DEF TryAcquire
<1>4. CASE \E n \in Releases : Release(t, n)
  BY <1>4 DEF Release
<1>5. CASE PollReady(t)
  BY <1>5, <1>s
<1>6. CASE PollStore(t)
  BY <1>6 DEF PollStore
<1>7. CASE DropFinished(t)
  BY <1>7, <1>s
<1>8. CASE StartCancel(t)
  BY <1>8 DEF StartCancel
<1>9. CASE Poison(t)
  BY <1>9 DEF Poison
<1>10. CASE DropGuard(t)
  BY <1>10 DEF DropGuard
<1>11. CASE DropGuardPanicking(t)
  BY <1>11 DEF DropGuardPanicking
<1>12. CASE Forget(t)
  BY <1>12 DEF Forget
<1>13. CASE PollStored(t)
  BY <1>13, <1>s
<1>14. CASE PushCancel(t)
  BY <1>14 DEF PushCancel
<1>15. CASE WaitCancel(t)
  BY <1>15, <1>s
<1>16. CASE LockOrElseDefer(t)
  BY <1>16 DEF LockOrElseDefer
<1>17. CASE SwapCancel(t)
  BY <1>17 DEF SwapCancel
<1>18. CASE FlipAvailable(t)
  BY <1>18 DEF FlipAvailable
<1>19. CASE FlipNothing(t)
  BY <1>19 DEF FlipNothing
<1>20. CASE FlipTake(t)
  BY <1>20 DEF FlipTake
<1>21. CASE LinkNext(t)
  BY <1>21 DEF LinkNext
<1>22. CASE LinkLast(t)
  BY <1>22 DEF LinkLast
<1>23. CASE Cancel(t)
  BY <1>23, PointersPending DEF Cancel, AcceptCancel
<1>24. CASE TryPop(t)
  <2>1. \E s \in {"Finished", "Poisoned"} : waker' = [waker EXCEPT ![front] = s]
    BY <1>24 DEF TryPop, Finish
  <2> QED  BY <1>24, <1>t, <2>1
<1>25. CASE Wake(t)
  BY <1>25 DEF Wake
<1>26. CASE TryUnlock(t)
  BY <1>26 DEF TryUnlock
<1> QED
  BY <1>1, <1>2, <1>3, <1>4, <1>5, <1>6, <1>7, <1>8, <1>9, <1>10, <1>11, <1>12, <1>13,
     <1>14, <1>15, <1>16, <1>17, <1>18, <1>19, <1>20, <1>21, <1>22, <1>23, <1>24, <1>25, <1>26
  DEF Begin, Poll, DropFuture, Continue

\* Calls to acquire finish in the order in which poll_enter queued them, and no
\* fast path overtakes a pending acquire.
THEOREM OldestFirst == Spec => FirstInFirstOut
<1>1. QueueInv /\ [Next]_vars =>
        [ /\ \A t \in Pending : waker'[t] \in {"Finished", "Poisoned"} => ahead[t] = {}
          /\ acquire.tag = "Available" /\ acquire'.tag = "Available"
               /\ acquire'.permits < acquire.permits => Pending = {} ]_vars
  <2> SUFFICES ASSUME QueueInv, NEW t \in Tasks, Begin(t) \/ Continue(t)
               PROVE  /\ \A v \in Pending : waker'[v] \in {"Finished", "Poisoned"} => ahead[v] = {}
                      /\ acquire.tag = "Available" => Pending = {}
    BY DEF Next
  <2>1. \A v \in Pending : waker'[v] \in {"Finished", "Poisoned"} => ahead[v] = {}
    BY FinishedByTryPop, TryPopUnlinks
  <2> QED  BY <2>1 DEF QueueInv, QueueShape, QueueEnds
<1> QED  BY <1>1, QueueInvariant, PTL DEF Spec, FirstInFirstOut

-----------------------------------------------------------------------------
(* Wakes *)

\* AtomicWaker::finish wakes what it finished, unless a poll is in progress that
\* will see it; a new poll or future starts with nothing finished.
LEMMA WakeNotLostStep ==
  ASSUME QueueInv, WakeNotLost, NEW t \in Tasks, Begin(t) \/ Continue(t)
  PROVE  WakeNotLost'
<1> DEFINE Told(u) == step[u] = "Waiting" /\ waker[u] \in {"Finished", "Poisoned"} =>
                        \/ woken[u] \/ pc[u] = "storing"
                        \/ \E x \in Tasks : pc[x] = "wake" /\ cursor[x] = u
<1> SUFFICES ASSUME NEW u \in Tasks PROVE Told(u)'
  BY DEF WakeNotLost
<1>t. /\ pc \in [Tasks -> PC] /\ step \in [Tasks -> AcquireStep] /\ waker \in [Tasks -> WakerState]
      /\ woken \in [Tasks -> BOOLEAN] /\ cursor \in [Tasks -> Pointer] /\ front \in Pointer
  BY DEF QueueInv, LockInv, TypeOK
<1>u. NodeAgrees(t) /\ NodeAgrees(u)
  BY DEF QueueInv, NodeControl
<1>o. Told(u)
  BY DEF WakeNotLost
<1> USE <1>t, <1>u, <1>o DEF NodeAgrees, Goto, BeginRelease, ReturnFromRelease,
                       FinishPoll, EndFuture, NoFuture
<1>1. CASE \E n \in Amounts : PollEnterAcquire(t, n)
  BY <1>1 DEF PollEnterAcquire
<1>2. CASE \E n \in Amounts : PollEnterQueue(t, n)
  BY <1>2 DEF PollEnterQueue
<1>3. CASE \E n \in Amounts : TryAcquire(t, n)
  BY <1>3 DEF TryAcquire
<1>4. CASE \E n \in Releases : Release(t, n)
  BY <1>4 DEF Release
<1>5. CASE PollReady(t)
  BY <1>5 DEF PollReady
<1>6. CASE PollStore(t)
  BY <1>6 DEF PollStore
<1>7. CASE DropFinished(t)
  BY <1>7 DEF DropFinished
<1>8. CASE StartCancel(t)
  BY <1>8 DEF StartCancel
<1>9. CASE Poison(t)
  BY <1>9 DEF Poison
<1>10. CASE DropGuard(t)
  BY <1>10 DEF DropGuard
<1>11. CASE DropGuardPanicking(t)
  BY <1>11 DEF DropGuardPanicking
<1>12. CASE Forget(t)
  BY <1>12 DEF Forget
<1>13. CASE PollStored(t)
  BY <1>13 DEF PollStored
<1>14. CASE PushCancel(t)
  BY <1>14 DEF PushCancel
<1>15. CASE WaitCancel(t)
  BY <1>15 DEF WaitCancel
<1>16. CASE LockOrElseDefer(t)
  BY <1>16 DEF LockOrElseDefer
<1>17. CASE SwapCancel(t)
  BY <1>17 DEF SwapCancel
<1>18. CASE FlipAvailable(t)
  BY <1>18 DEF FlipAvailable
<1>19. CASE FlipNothing(t)
  BY <1>19 DEF FlipNothing
<1>20. CASE FlipTake(t)
  BY <1>20 DEF FlipTake
<1>21. CASE LinkNext(t)
  BY <1>21 DEF LinkNext
<1>22. CASE LinkLast(t)
  <2>1. /\ UNCHANGED <<step, waker, woken>> /\ pc[t] = "link" /\ pc' = [pc EXCEPT ![t] = "settle"]
        /\ cursor' = [cursor EXCEPT ![t] = Null]
    BY <1>22 DEF LinkLast
  <2> QED  BY <2>1
<1>23. CASE Cancel(t)
  <2>1. /\ UNCHANGED <<step, woken, pc, cursor>> /\ waker' = [waker EXCEPT ![todo[t]] = "Cancelled"]
    BY <1>23 DEF Cancel, AcceptCancel
  <2> QED  BY <2>1
<1>24. CASE TryPop(t)
  <2>1. /\ UNCHANGED <<step, woken>> /\ pc[t] = "settle" /\ front \in Tasks
        /\ \E s \in {"Finished", "Poisoned"} : waker' = [waker EXCEPT ![front] = s]
    BY <1>24, TryPopUnlinks, PointersPending DEF TryPop, Finish, Settling, Stuck, Pointer
  <2>2. CASE waker[front] = "Pending"
    <3>1. cursor' = [cursor EXCEPT ![t] = front] /\ pc' = [pc EXCEPT ![t] = "wake"]
      BY <1>24, <2>2 DEF TryPop, Finish
    <3>2. u # front => waker'[u] = waker[u]
      BY <2>1
    <3>3. \A x \in Tasks : pc[x] = "wake" /\ cursor[x] = u => pc'[x] = "wake" /\ cursor'[x] = u
      BY <2>1, <3>1
    <3>4. pc'[t] = "wake" /\ cursor'[t] = front
      BY <3>1
    <3>5. pc[u] = "storing" => pc'[u] = "storing"
      BY <2>1, <3>1
    <3> HIDE <1>u
    <3> QED  BY <2>1, <3>2, <3>3, <3>4, <3>5
  <2>3. CASE waker[front] = "Storing"
    <3>1. UNCHANGED <<cursor, pc>>
      BY <1>24, <2>3 DEF TryPop, Finish
    <3>2. u # front => waker'[u] = waker[u]
      BY <2>1
    <3> QED  BY <2>1, <2>3, <3>1, <3>2
  <2> QED  BY <1>24, <2>2, <2>3 DEF TryPop, Finish
<1>25. CASE Wake(t)
  <2>1. /\ UNCHANGED <<step, waker>> /\ pc[t] = "wake" /\ pc' = [pc EXCEPT ![t] = "settle"]
        /\ cursor' = [cursor EXCEPT ![t] = Null] /\ woken' = [woken EXCEPT ![cursor[t]] = TRUE]
    BY <1>25 DEF Wake
  <2>2. woken'[u] = TRUE \/ (woken'[u] = woken[u] /\ cursor[t] # u)
    BY <2>1
  <2> QED  BY <2>1, <2>2
<1>26. CASE TryUnlock(t)
  BY <1>26 DEF TryUnlock, Settling
<1> HIDE <1>t, <1>u, <1>o DEF Told
<1> QED
  BY <1>1, <1>2, <1>3, <1>4, <1>5, <1>6, <1>7, <1>8, <1>9, <1>10, <1>11, <1>12, <1>13,
     <1>14, <1>15, <1>16, <1>17, <1>18, <1>19, <1>20, <1>21, <1>22, <1>23, <1>24, <1>25, <1>26
  DEF Begin, Poll, DropFuture, Continue

\* A future that finish() ended and whose task has not seen it was woken, is
\* being woken, or is in the poll whose second exchange sees it.
THEOREM NoWakeIsLost == Spec => []WakeNotLost
<1>1. Init => WakeNotLost
  BY DEF Init, WakeNotLost
<1>2. QueueInv /\ WakeNotLost /\ [Next]_vars => WakeNotLost'
  <2>1. CASE UNCHANGED vars
    BY <2>1 DEF WakeNotLost, vars
  <2>2. ASSUME QueueInv, WakeNotLost, Next PROVE WakeNotLost'
    BY <2>2, WakeNotLostStep DEF Next
  <2> QED  BY <2>1, <2>2
<1> QED  BY <1>1, <1>2, QueueInvariant, PTL DEF Spec

-----------------------------------------------------------------------------
(* Nobody is left waiting *)

\* poll_enter that pushed a node goes on to lock, or to mark the lock dirty,
\* and whoever then holds the lock comes to flip() again.
LEMMA BackSeenStep ==
  ASSUME QueueInv, BackSeen, NEW t \in Tasks, Begin(t) \/ Continue(t)
  PROVE  BackSeen'
<1>t. /\ pc \in [Tasks -> PC] /\ acquire.back \in Pointer
      /\ acquire.tag = "Available" => acquire.back = Null
  BY DEF QueueInv, LockInv, TypeOK
<1>k. acquire.back \in Tasks \/ acquire.back = Null
  BY <1>t DEF Pointer
<1> USE <1>t, <1>k DEF BackSeen, Goto, BeginRelease, ReturnFromRelease, TakePermits, NoFuture, Settling
<1>1. CASE \E n \in Amounts : PollEnterAcquire(t, n)
  BY <1>1 DEF PollEnterAcquire
<1>2. CASE \E n \in Amounts : PollEnterQueue(t, n)
  BY <1>2 DEF PollEnterQueue
<1>3. CASE \E n \in Amounts : TryAcquire(t, n)
  BY <1>3 DEF TryAcquire
<1>4. CASE \E n \in Releases : Release(t, n)
  BY <1>4 DEF Release
<1>5. CASE PollReady(t)
  BY <1>5 DEF PollReady
<1>6. CASE PollStore(t)
  BY <1>6 DEF PollStore
<1>7. CASE DropFinished(t)
  BY <1>7 DEF DropFinished
<1>8. CASE StartCancel(t)
  BY <1>8 DEF StartCancel
<1>9. CASE Poison(t)
  BY <1>9 DEF Poison
<1>10. CASE DropGuard(t)
  BY <1>10 DEF DropGuard
<1>11. CASE DropGuardPanicking(t)
  BY <1>11 DEF DropGuardPanicking
<1>12. CASE Forget(t)
  BY <1>12 DEF Forget
<1>13. CASE PollStored(t)
  BY <1>13 DEF PollStored
<1>14. CASE PushCancel(t)
  BY <1>14 DEF PushCancel
<1>15. CASE WaitCancel(t)
  BY <1>15 DEF WaitCancel
<1>16. CASE LockOrElseDefer(t)
  <2>1. acquire' = acquire /\ pc[t] = "lock"
    BY <1>16 DEF LockOrElseDefer
  <2>2. CASE CanLock
    <3>1. pc'[t] = "swap"
      BY <1>16, <2>2 DEF LockOrElseDefer
    <3> QED  BY <3>1
  <2>3. CASE ~CanLock
    <3>1. release'.tag = "LockedDirty"
      BY <1>16, <2>3 DEF LockOrElseDefer
    <3> QED  BY <3>1
  <2> QED  BY <2>2, <2>3
<1>17. CASE SwapCancel(t)
  BY <1>17 DEF SwapCancel
<1>18. CASE FlipAvailable(t)
  BY <1>18 DEF FlipAvailable
<1>19. CASE FlipNothing(t)
  BY <1>19 DEF FlipNothing
<1>20. CASE FlipTake(t)
  BY <1>20 DEF FlipTake
<1>21. CASE LinkNext(t)
  BY <1>21 DEF LinkNext
<1>22. CASE LinkLast(t)
  BY <1>22 DEF LinkLast
<1>23. CASE Cancel(t)
  BY <1>23 DEF Cancel
<1>24. CASE TryPop(t)
  <2>1. UNCHANGED <<acquire, release>> /\ pc[t] = "settle" /\ pc' \in {pc, [pc EXCEPT ![t] = "wake"]}
    BY <1>24 DEF TryPop, Finish
  <2> QED  BY <2>1
<1>25. CASE Wake(t)
  BY <1>25 DEF Wake
<1>26. CASE TryUnlock(t)
  <2>1. acquire' = acquire /\ pc[t] = "settle"
    BY <1>26 DEF TryUnlock
  <2>2. CASE release.tag = "LockedDirty"
    <3>1. pc'[t] = "swap"
      BY <1>26, <2>2 DEF TryUnlock, MayUnlock
    <3> QED  BY <3>1
  <2>3. CASE release.tag # "LockedDirty"
    <3>1. pc' \in {[pc EXCEPT ![t] = "wait_cancel"], [pc EXCEPT ![t] = "idle"]}
      BY <1>26, <2>3 DEF TryUnlock
    <3> QED  BY <2>1, <2>3, <3>1
  <2> QED  BY <2>2, <2>3
<1> HIDE DEF BackSeen
<1> QED
  BY <1>1, <1>2, <1>3, <1>4, <1>5, <1>6, <1>7, <1>8, <1>9, <1>10, <1>11, <1>12, <1>13,
     <1>14, <1>15, <1>16, <1>17, <1>18, <1>19, <1>20, <1>21, <1>22, <1>23, <1>24, <1>25, <1>26
  DEF Begin, Poll, DropFuture, Continue

\* try_unlock gives the lock up where the front must wait, and nothing about the
\* front changes until the lock is taken again.
LEMMA FrontWaitsStep ==
  ASSUME QueueInv, FrontWaits, NEW t \in Tasks, Begin(t) \/ Continue(t)
  PROVE  FrontWaits'
<1>t. /\ pc \in [Tasks -> PC] /\ waker \in [Tasks -> WakerState] /\ amount \in [Tasks -> Nat]
      /\ step \in [Tasks -> AcquireStep]
  BY DEF QueueInv, LockInv, TypeOK
<1>u. NodeAgrees(t)
  BY DEF QueueInv, NodeControl
<1>k. front # Null => /\ front \in Tasks /\ step[front] = "Waiting"
                      /\ waker[front] \in {"Pending", "Storing", "Cancelling"}
  BY PointersPending DEF Pending
<1>o. Owner(t) => release.tag # "Unlocked"
  BY DEF QueueInv, LockInv, LockExclusion
<1> USE <1>t, <1>u, <1>k, <1>o DEF FrontWaits, NodeAgrees, InCancel, Owner, OwnerPC, Goto, BeginRelease,
        ReturnFromRelease, TakePermits, NoFuture, FinishPoll, EndFuture, Settling
<1>1. CASE \E n \in Amounts : PollEnterAcquire(t, n)
  BY <1>1 DEF PollEnterAcquire
<1>2. CASE \E n \in Amounts : PollEnterQueue(t, n)
  BY <1>2 DEF PollEnterQueue
<1>3. CASE \E n \in Amounts : TryAcquire(t, n)
  BY <1>3 DEF TryAcquire
<1>4. CASE \E n \in Releases : Release(t, n)
  BY <1>4 DEF Release
<1>5. CASE PollReady(t)
  BY <1>5 DEF PollReady
<1>6. CASE PollStore(t)
  BY <1>6 DEF PollStore
<1>7. CASE DropFinished(t)
  BY <1>7 DEF DropFinished
<1>8. CASE StartCancel(t)
  BY <1>8 DEF StartCancel
<1>9. CASE Poison(t)
  BY <1>9 DEF Poison
<1>10. CASE DropGuard(t)
  BY <1>10 DEF DropGuard
<1>11. CASE DropGuardPanicking(t)
  BY <1>11 DEF DropGuardPanicking
<1>12. CASE Forget(t)
  BY <1>12 DEF Forget
<1>13. CASE PollStored(t)
  BY <1>13 DEF PollStored
<1>14. CASE PushCancel(t)
  BY <1>14 DEF PushCancel
<1>15. CASE WaitCancel(t)
  BY <1>15 DEF WaitCancel
<1>16. CASE LockOrElseDefer(t)
  BY <1>16 DEF LockOrElseDefer, CanLock
<1>17. CASE SwapCancel(t)
  BY <1>17 DEF SwapCancel
<1>18. CASE FlipAvailable(t)
  BY <1>18 DEF FlipAvailable
<1>19. CASE FlipNothing(t)
  BY <1>19 DEF FlipNothing
<1>20. CASE FlipTake(t)
  BY <1>20 DEF FlipTake
<1>21. CASE LinkNext(t)
  <2>1. release' = release /\ Owner(t)
    BY <1>21 DEF LinkNext
  <2> QED  BY <2>1
<1>22. CASE LinkLast(t)
  <2>1. release' = release /\ Owner(t)
    BY <1>22 DEF LinkLast
  <2> QED  BY <2>1
<1>23. CASE Cancel(t)
  <2>1. release' = release /\ Owner(t)
    BY <1>23 DEF Cancel
  <2> QED  BY <2>1
<1>24. CASE TryPop(t)
  <2>1. release' = release /\ Owner(t)
    BY <1>24 DEF TryPop
  <2> QED  BY <2>1
<1>25. CASE Wake(t)
  BY <1>25 DEF Wake
<1>26. CASE TryUnlock(t)
  <2>1. CASE release.tag = "LockedDirty"
    BY <1>26, <2>1 DEF TryUnlock, MayUnlock
  <2>2. CASE release.tag # "LockedDirty"
    BY <1>26, <2>2 DEF TryUnlock, Stuck
  <2> QED  BY <2>1, <2>2
<1> HIDE <1>t, <1>u, <1>k, <1>o DEF FrontWaits
<1> QED
  BY <1>1, <1>2, <1>3, <1>4, <1>5, <1>6, <1>7, <1>8, <1>9, <1>10, <1>11, <1>12, <1>13,
     <1>14, <1>15, <1>16, <1>17, <1>18, <1>19, <1>20, <1>21, <1>22, <1>23, <1>24, <1>25, <1>26
  DEF Begin, Poll, DropFuture, Continue

\* In every reachable state: whoever was pushed by poll_enter is about to be seen
\* by flip(), and try_unlock left only an oldest acquire that must wait.
THEOREM WaitInvariant == Spec => []WaitInv
<1>1. Init => BackSeen /\ FrontWaits
  BY DEF Init, BackSeen, FrontWaits
<1>2. QueueInv /\ BackSeen /\ FrontWaits /\ [Next]_vars => BackSeen' /\ FrontWaits'
  <2>1. CASE UNCHANGED vars
    BY <2>1 DEF BackSeen, FrontWaits, vars
  <2>2. ASSUME QueueInv, BackSeen, FrontWaits, Next PROVE BackSeen' /\ FrontWaits'
    BY <2>2, BackSeenStep, FrontWaitsStep DEF Next
  <2> QED  BY <2>1, <2>2
<1>3. QueueInv /\ BackSeen /\ FrontWaits => WaitInv
  BY DEF WaitInv
<1> QED  BY <1>1, <1>2, <1>3, QueueInvariant, PTL DEF Spec

\* When every call has returned, `acquire`, the lock and the stack hide nothing
\* from the oldest acquire.
LEMMA RestIsStuck ==
  ASSUME WaitInv
  PROVE  NoStuckWaiter
<1> SUFFICES ASSUME AtRest
             PROVE  /\ release.tag = "Unlocked" /\ nextCancel = Null
                    /\ \A t \in Pending : ahead[t] = {} =>
                         release.permits # POISON /\ release.permits < amount[t]
  BY DEF NoStuckWaiter
<1>1. \A t \in Tasks : pc[t] = "idle" /\ ~Owner(t) /\ waker[t] \notin {"Cancelling", "Cancelled"}
  BY DEF AtRest, Owner, OwnerPC, WaitInv, QueueInv, NodeControl, NodeAgrees, InCancel
<1>2. release.tag = "Unlocked"
  BY <1>1 DEF WaitInv, QueueInv, LockInv, LockExclusion
<1>3. nextCancel = Null
  <2>1. Stacked = {}
    BY <1>1 DEF Stacked
  <2> QED  BY <2>1 DEF WaitInv, QueueInv, CancelStacks, StackEdges
<1>4. acquire.back = Null
  <2>1. acquire.back # Null => acquire.back \in Tasks
    BY DEF WaitInv, QueueInv, LockInv, TypeOK, Pointer
  <2> QED  BY <1>1, <1>2, <2>1 DEF WaitInv, BackSeen
<1>5. Linked = Pending
  BY <1>1, <1>4, PartsClosed DEF WaitInv, QueueInv, QueueShape, QueueEnds
<1>6. ASSUME NEW t \in Pending, ahead[t] = {}
      PROVE  release.permits # POISON /\ release.permits < amount[t]
  <2>1. front \in Pending /\ ahead[front] = {} /\ front # Null
    BY <1>5 DEF Linked, WaitInv, QueueInv, QueueShape, QueueEnds
  <2>2. t = front
    BY <1>6, <2>1, AheadIdentifies DEF WaitInv
  <2>3. front \in Tasks /\ ~Satisfies(release.permits, amount[front])
    BY <1>1, <1>2, <2>1 DEF WaitInv, FrontWaits, Pending
  <2>4. release.permits \in PermitCount /\ amount[front] \in Nat
    BY <2>3 DEF WaitInv, QueueInv, LockInv, TypeOK
  <2> QED  BY <2>2, <2>3, <2>4 DEF Satisfies, PermitCount, POISON
<1> QED  BY <1>2, <1>3, <1>6

\* The check of test_parallel ("Should have acquired"), for every number of
\* tasks: no release() that was deferred to the holder of the lock is lost.
THEOREM NobodyIsStuck == Spec => []NoStuckWaiter
<1>1. WaitInv => NoStuckWaiter
  BY RestIsStuck
<1> QED  BY <1>1, WaitInvariant, PTL

-----------------------------------------------------------------------------
(* Nobody is left parked *)

\* A drop that pushed its node goes on to lock, or to mark the lock dirty, and
\* whoever then holds the lock comes to the swap again.
LEMMA TopSeenStep ==
  ASSUME QueueInv, TopSeen, NEW t \in Tasks, Begin(t) \/ Continue(t)
  PROVE  TopSeen'
<1>t. /\ pc \in [Tasks -> PC] /\ nextCancel \in Pointer
  BY DEF QueueInv, LockInv, TypeOK
<1>k. nextCancel \in Tasks \/ nextCancel = Null
  BY <1>t DEF Pointer
<1> USE <1>t, <1>k DEF TopSeen, Goto, BeginRelease, ReturnFromRelease, TakePermits, NoFuture, Settling
<1>1. CASE \E n \in Amounts : PollEnterAcquire(t, n)
  BY <1>1 DEF PollEnterAcquire
<1>2. CASE \E n \in Amounts : PollEnterQueue(t, n)
  BY <1>2 DEF PollEnterQueue
<1>3. CASE \E n \in Amounts : TryAcquire(t, n)
  BY <1>3 DEF TryAcquire
<1>4. CASE \E n \in Releases : Release(t, n)
  BY <1>4 DEF Release
<1>5. CASE PollReady(t)
  BY <1>5 DEF PollReady
<1>6. CASE PollStore(t)
  BY <1>6 DEF PollStore
<1>7. CASE DropFinished(t)
  BY <1>7 DEF DropFinished
<1>8. CASE StartCancel(t)
  BY <1>8 DEF StartCancel
<1>9. CASE Poison(t)
  BY <1>9 DEF Poison
<1>10. CASE DropGuard(t)
  BY <1>10 DEF DropGuard
<1>11. CASE DropGuardPanicking(t)
  BY <1>11 DEF DropGuardPanicking
<1>12. CASE Forget(t)
  BY <1>12 DEF Forget
<1>13. CASE PollStored(t)
  BY <1>13 DEF PollStored
<1>14. CASE PushCancel(t)
  BY <1>14 DEF PushCancel
<1>15. CASE WaitCancel(t)
  BY <1>15 DEF WaitCancel
<1>16. CASE LockOrElseDefer(t)
  <2>1. nextCancel' = nextCancel /\ pc[t] = "lock"
    BY <1>16 DEF LockOrElseDefer
  <2>2. CASE CanLock
    <3>1. pc'[t] = "swap"
      BY <1>16, <2>2 DEF LockOrElseDefer
    <3> QED  BY <3>1
  <2>3. CASE ~CanLock
    <3>1. release'.tag = "LockedDirty"
      BY <1>16, <2>3 DEF LockOrElseDefer
    <3> QED  BY <3>1
  <2> QED  BY <2>2, <2>3
<1>17. CASE SwapCancel(t)
  BY <1>17 DEF SwapCancel
<1>18. CASE FlipAvailable(t)
  BY <1>18 DEF FlipAvailable
<1>19. CASE FlipNothing(t)
  BY <1>19 DEF FlipNothing
<1>20. CASE FlipTake(t)
  BY <1>20 DEF FlipTake
<1>21. CASE LinkNext(t)
  BY <1>21 DEF LinkNext
<1>22. CASE LinkLast(t)
  BY <1>22 DEF LinkLast
<1>23. CASE Cancel(t)
  BY <1>23 DEF Cancel
<1>24. CASE TryPop(t)
  <2>1. UNCHANGED <<nextCancel, release>> /\ pc[t] = "settle" /\ pc' \in {pc, [pc EXCEPT ![t] = "wake"]}
    BY <1>24 DEF TryPop, Finish
  <2> QED  BY <2>1
<1>25. CASE Wake(t)
  BY <1>25 DEF Wake
<1>26. CASE TryUnlock(t)
  <2>1. nextCancel' = nextCancel /\ pc[t] = "settle"
    BY <1>26 DEF TryUnlock
  <2>2. CASE release.tag = "LockedDirty"
    <3>1. pc'[t] = "swap"
      BY <1>26, <2>2 DEF TryUnlock, MayUnlock
    <3> QED  BY <3>1
  <2>3. CASE release.tag # "LockedDirty"
    <3>1. pc' \in {[pc EXCEPT ![t] = "wait_cancel"], [pc EXCEPT ![t] = "idle"]}
      BY <1>26, <2>3 DEF TryUnlock
    <3> QED  BY <2>1, <2>3, <3>1
  <2> QED  BY <2>2, <2>3
<1> HIDE DEF TopSeen
<1> QED
  BY <1>1, <1>2, <1>3, <1>4, <1>5, <1>6, <1>7, <1>8, <1>9, <1>10, <1>11, <1>12, <1>13,
     <1>14, <1>15, <1>16, <1>17, <1>18, <1>19, <1>20, <1>21, <1>22, <1>23, <1>24, <1>25, <1>26
  DEF Begin, Poll, DropFuture, Continue

\* What is under a node of a stack stays under it until cancel() takes the node
\* off the top, and then it is the top.
LEMMA StackWholeStep ==
  ASSUME QueueInv, StackWhole, NEW t \in Tasks, Begin(t) \/ Continue(t)
  PROVE  StackWhole'
<1>t. /\ pc \in [Tasks -> PC] /\ waker \in [Tasks -> WakerState] /\ cancelNext \in [Tasks -> Pointer]
      /\ todo \in [Tasks -> Pointer]
  BY DEF QueueInv, LockInv, TypeOK
<1>n. Null \notin Stacked /\ Stacked \subseteq Tasks
  BY DEF Stacked
<1>o. \A u \in Tasks : todo[u] # Null => pc[u] # "swap" /\ Owner(u)
  BY DEF QueueInv, OwnerLocals, LocalsBlank, Owner
<1>1. CASE PushCancel(t)
  <2>1. t \notin Stacked /\ Stacked' = Stacked \cup {t}
    BY <1>1, <1>t DEF PushCancel, Stacked, BeginRelease, Goto, QueueInv, NodeControl, NodeAgrees
  <2>2. /\ nextCancel' = t /\ todo' = todo
        /\ cancelNext'[t] = nextCancel /\ \A w \in Stacked : cancelNext'[w] = cancelNext[w]
    BY <1>1, <1>t, <1>n, <2>1 DEF PushCancel
  <2> QED  BY <2>1, <2>2 DEF StackWhole
<1>2. CASE SwapCancel(t)
  <2>1. /\ pc[t] = "swap" /\ nextCancel' = Null /\ UNCHANGED cancelNext
        /\ todo' = [todo EXCEPT ![t] = nextCancel]
    BY <1>2 DEF SwapCancel
  <2>2. Stacked' = Stacked
    BY <1>2, <1>t DEF SwapCancel, Goto, Stacked
  <2>3. /\ todo'[t] = nextCancel
        /\ \A u \in Tasks : todo[u] # Null => todo'[u] = todo[u]
    BY <1>t, <1>o, <2>1
  <2> QED  BY <1>n, <2>1, <2>2, <2>3 DEF StackWhole
<1>3. CASE Cancel(t)
  <2> DEFINE w == todo[t]
  <2>1. /\ w # Null /\ UNCHANGED <<pc, nextCancel, cancelNext>>
        /\ waker' = [waker EXCEPT ![w] = "Cancelled"]
        /\ todo' = [todo EXCEPT ![t] = cancelNext[w]]
    BY <1>3 DEF Cancel, AcceptCancel
  <2>2. w \in Stacked
    BY <2>1 DEF QueueInv, CancelStacks, StackEdges
  <2>3. Stacked' = Stacked \ {w}
    BY <1>t, <2>1, <2>2 DEF Stacked
  <2>4. /\ todo'[t] = cancelNext[w]
        /\ \A u \in Tasks : todo[u] # w => todo'[u] = todo[u]
    BY <1>t, <2>1
  <2> QED  BY <2>1, <2>2, <2>3, <2>4 DEF StackWhole
<1>4. CASE StackSame
  BY <1>4 DEF StackSame, StackWhole
<1> QED  BY <1>1, <1>2, <1>3, <1>4, StackQuietStep

\* drop pushes above all others, and what is taken off leaves no loop behind.
LEMMA StackOrderStep ==
  ASSUME QueueInv, StackOrder, NEW t \in Tasks, Begin(t) \/ Continue(t)
  PROVE  StackOrder'
<1>t. /\ pc \in [Tasks -> PC] /\ waker \in [Tasks -> WakerState] /\ cancelNext \in [Tasks -> Pointer]
  BY DEF QueueInv, LockInv, TypeOK
<1>n. Null \notin Stacked /\ Stacked \subseteq Tasks
  BY DEF Stacked
<1>1. CASE PushCancel(t)
  <2>1. t \notin Stacked /\ Stacked' = Stacked \cup {t}
    BY <1>1, <1>t DEF PushCancel, Stacked, BeginRelease, Goto, QueueInv, NodeControl, NodeAgrees
  <2>2. cancelNext'[t] = nextCancel /\ \A w \in Stacked : cancelNext'[w] = cancelNext[w]
    BY <1>1, <1>t, <1>n, <2>1 DEF PushCancel
  <2>3. nextCancel # t /\ \A w \in Stacked : cancelNext[w] # t
    BY <1>n, <2>1 DEF QueueInv, CancelStacks, StackEdges
  <2> SUFFICES ASSUME NEW S \in SUBSET (Stacked \cup {t}), S # {}
               PROVE  \E v \in S : \A w \in S : cancelNext'[w] # v
    BY <2>1 DEF StackOrder
  <2>4. CASE t \in S
    BY <2>2, <2>3, <2>4
  <2>5. CASE t \notin S
    <3>1. S \in SUBSET Stacked
      BY <2>5
    <3> QED  BY <2>2, <3>1 DEF StackOrder
  <2> QED  BY <2>4, <2>5
<1>2. CASE SwapCancel(t)
  <2>1. Stacked' = Stacked /\ cancelNext' = cancelNext
    BY <1>2, <1>t DEF SwapCancel, Goto, Stacked
  <2> QED  BY <2>1 DEF StackOrder
<1>3. CASE Cancel(t)
  <2>1. Stacked' \subseteq Stacked /\ cancelNext' = cancelNext
    BY <1>3, <1>t DEF Cancel, AcceptCancel, Stacked
  <2> QED  BY <2>1 DEF StackOrder
<1>4. CASE StackSame
  <2>1. \A S \in SUBSET Stacked : \A w \in S : cancelNext'[w] = cancelNext[w]
    BY <1>4 DEF StackSame
  <2> QED  BY <1>4, <2>1 DEF StackSame, StackOrder
<1> QED  BY <1>1, <1>2, <1>3, <1>4, StackQuietStep

\* In every reachable state: no node is lost from the cancellation stacks, and
\* whoever holds the release lock, or the dirty bit, leads to their tops.
THEOREM RestInvariant == Spec => []RestInv
<1>1. Init => TopSeen /\ StackWhole /\ StackOrder
  <2> SUFFICES ASSUME Init PROVE TopSeen /\ StackWhole /\ StackOrder
    OBVIOUS
  <2>1. Stacked = {}
    BY DEF Init, Stacked
  <2> QED  BY <2>1 DEF Init, TopSeen, StackWhole, StackOrder
<1>2. /\ QueueInv /\ TopSeen /\ StackWhole /\ StackOrder /\ [Next]_vars
      => TopSeen' /\ StackWhole' /\ StackOrder'
  <2>1. ASSUME TopSeen, StackWhole, StackOrder, UNCHANGED vars
        PROVE  TopSeen' /\ StackWhole' /\ StackOrder'
    <3>1. Stacked' = Stacked
      BY <2>1 DEF vars, Stacked
    <3> QED  BY <2>1, <3>1 DEF vars, TopSeen, StackWhole, StackOrder
  <2>2. ASSUME QueueInv, TopSeen, StackWhole, StackOrder, Next
        PROVE  TopSeen' /\ StackWhole' /\ StackOrder'
    BY <2>2, TopSeenStep, StackWholeStep, StackOrderStep DEF Next
  <2> QED  BY <2>1, <2>2
<1>3. WaitInv /\ TopSeen /\ StackWhole /\ StackOrder => RestInv
  BY DEF RestInv
<1> QED  BY <1>1, <1>2, <1>3, QueueInvariant, WaitInvariant, PTL DEF Spec

\* However many drops park at the same time, and whoever they leave their nodes to:
\* when nobody runs any more, the holder of the lock has come to each of them.  It
\* is what keeps "the drop may synchronously wait for a lock" (lib.rs) from being
\* for ever, under any scheduling in which calls end.
THEOREM NobodyIsParked == Spec => []NoStuckCancel
<1>1. ASSUME RestInv, \A t \in Tasks : pc[t] \in {"idle", "wait_cancel"}
      PROVE  \A t \in Tasks : waker[t] # "Cancelling"
  <2>1. \A t \in Tasks : ~Owner(t) /\ todo[t] = Null
    BY <1>1 DEF Owner, OwnerPC, RestInv, WaitInv, QueueInv, OwnerLocals, LocalsBlank
  <2>2. nextCancel = Null
    <3>1. release.tag = "Unlocked"
      BY <1>1, <2>1 DEF RestInv, WaitInv, QueueInv, LockInv, LockExclusion
    <3>2. nextCancel # Null => nextCancel \in Tasks
      BY <1>1 DEF RestInv, WaitInv, QueueInv, LockInv, TypeOK, Pointer
    <3> QED  BY <1>1, <3>1, <3>2 DEF RestInv, TopSeen
  <2>3. Null \notin Stacked /\ \A t \in Tasks : waker[t] = "Cancelling" => t \in Stacked
    BY <1>1 DEF Stacked
  <2>4. \A v \in Stacked : \E w \in Stacked : cancelNext[w] = v
    BY <1>1, <2>1, <2>2, <2>3 DEF RestInv, StackWhole
  <2>5. Stacked = {}
    BY <1>1, <2>4 DEF RestInv, StackOrder
  <2> QED  BY <2>3, <2>5
<1>2. RestInv => NoStuckCancel
  BY <1>1 DEF NoStuckCancel
<1> QED  BY <1>2, RestInvariant, PTL

-----------------------------------------------------------------------------
(* The permits: none is lost or made up. *)

\* What a task has in hand is a number, and no part of what there is exceeds
\* what was put into circulation.
LEMMA PartsOfTotal ==
  ASSUME LockInv, Conservation, ~Poisoned, NEW t \in Tasks
  PROVE  /\ InHands \in [Tasks -> Nat]
         /\ acquire.permits \in 0 .. MaxAvailable /\ release.permits \in 0 .. MaxAvailable
         /\ releasable[t] \in 0 .. MaxAvailable /\ forgotten \in Nat /\ supply \in Nat
         /\ SumOf(InHands, Tasks) \in Nat
         /\ acquire.permits + release.permits + InHands[t] <= supply
<1>1. InHands \in [Tasks -> Nat]
  BY DEF LockInv, TypeOK, InHands, PermitCount, POISON
<1>2. SumOf(InHands, Tasks) \in Nat /\ InHands[t] <= SumOf(InHands, Tasks)
  <2>1. IsFiniteSet(Tasks)
    BY TasksAssumption
  <2>2. /\ SumOf(InHands, Tasks) = SumOf(InHands, Tasks \ {t}) + InHands[t]
        /\ SumOf(InHands, Tasks \ {t}) \in Nat
    BY <1>1, <2>1, SumWithout
  <2>3. InHands[t] \in Nat
    BY <1>1
  <2> QED  BY <2>2, <2>3
<1>3. /\ acquire.permits \in 0 .. MaxAvailable /\ release.permits \in 0 .. MaxAvailable
      /\ releasable[t] \in 0 .. MaxAvailable /\ forgotten \in Nat /\ supply \in Nat
  BY DEF LockInv, TypeOK, Poisoned, PermitCount, POISON
<1>4. acquire.permits + release.permits + forgotten + SumOf(InHands, Tasks) = supply
  BY DEF Conservation, Total
<1>5. InHands[t] \in Nat
  BY <1>1
<1> QED  BY <1>1, <1>2, <1>3, <1>4, <1>5

\* What a step does to the permits that task t can reach, and to the others'.
Balanced(t) ==
  /\ \A u \in Tasks \ {t} : InHands'[u] = InHands[u]
  /\ Poisoned' => poison' # "no" \/ supply' > MaxAvailable
  /\ ~Poisoned' =>
       acquire'.permits + release'.permits + forgotten' + InHands'[t] + supply
         = acquire.permits + release.permits + forgotten + InHands[t] + supply'

\* Every step but try_pop() moves permits between the words and the hands of the
\* task that takes it; an addition that overflows has that many to add.
LEMMA BalancedStep ==
  ASSUME QueueInv, LockInv', Conservation, ~Poisoned, NEW t \in Tasks, Begin(t) \/ Continue(t), ~TryPop(t)
  PROVE  Balanced(t)
<1>t. /\ pc \in [Tasks -> PC] /\ step \in [Tasks -> AcquireStep] /\ waker \in [Tasks -> WakerState]
      /\ amount \in [Tasks -> Nat] /\ held \in [Tasks -> Nat] /\ releasable \in [Tasks -> PermitCount]
      /\ supply \in Nat /\ forgotten \in Nat
  BY DEF QueueInv, LockInv, TypeOK
<1>u. NodeAgrees(t)
  BY DEF QueueInv, NodeControl
<1>p. /\ acquire.permits \in 0 .. MaxAvailable /\ release.permits \in 0 .. MaxAvailable
      /\ acquire.permits + release.permits + InHands[t] <= supply
      /\ \A u \in Tasks : releasable[u] \in 0 .. MaxAvailable
  BY PartsOfTotal DEF QueueInv
<1>r. pc[t] \notin OwnerPC /\ pc[t] # "lock" => releasable[t] = 0
  BY DEF QueueInv, LockInv, ReleasableBlank, Owner
<1>h. /\ \A u \in Tasks : InHands[u] = releasable[u] + held[u] + (IF waker[u] = "Finished" THEN amount[u] ELSE 0)
      /\ \A u \in Tasks : InHands'[u] = releasable'[u] + held'[u] + (IF waker'[u] = "Finished" THEN amount'[u] ELSE 0)
  BY DEF InHands
<1> USE <1>t, <1>u, <1>p, <1>r, <1>h DEF Balanced, Poisoned, NodeAgrees, OwnerPC, Goto, BeginRelease,
        ReturnFromRelease, TakePermits, NoFuture, FinishPoll, EndFuture, POISON, ToPermits, AddPermits
<1>1. CASE \E n \in Amounts : PollEnterAcquire(t, n)
  BY <1>1 DEF PollEnterAcquire
<1>2. CASE \E n \in Amounts : PollEnterQueue(t, n)
  BY <1>2 DEF PollEnterQueue
<1>3. CASE \E n \in Amounts : TryAcquire(t, n)
  BY <1>3 DEF TryAcquire
<1>4. CASE \E n \in Releases : Release(t, n)
  <2> PICK n \in Releases : Release(t, n)
    BY <1>4
  <2>1. /\ n \in Nat /\ pc[t] = "idle" /\ supply' = supply + n
        /\ UNCHANGED <<acquire, release, forgotten, held, amount, waker>>
        /\ releasable' = [releasable EXCEPT ![t] = ToPermits(n)]
    BY DEF Release
  <2>2. releasable'[t] = ToPermits(n) /\ releasable[t] = 0
    BY <2>1
  <2>3. \A u \in Tasks \ {t} : releasable'[u] = releasable[u] /\ InHands'[u] = InHands[u]
    BY <2>1
  <2>4. CASE n <= MaxAvailable
    <3>1. ~Poisoned'
      BY <2>1, <2>2, <2>3, <2>4
    <3>2. InHands'[t] = InHands[t] + n
      BY <2>1, <2>2, <2>4
    <3>3. InHands[t] \in Nat
      OBVIOUS
    <3> QED  BY <2>1, <2>3, <3>1, <3>2, <3>3
  <2>5. CASE n > MaxAvailable
    <3>1. supply' > MaxAvailable /\ Poisoned'
      BY <2>1, <2>2, <2>5
    <3> QED  BY <2>3, <3>1
  <2> QED  BY <2>1, <2>4, <2>5
<1>5. CASE PollReady(t)
  BY <1>5 DEF PollReady
<1>6. CASE PollStore(t)
  BY <1>6 DEF PollStore
<1>7. CASE DropFinished(t)
  BY <1>7 DEF DropFinished
<1>8. CASE StartCancel(t)
  BY <1>8 DEF StartCancel
<1>9. CASE Poison(t)
  BY <1>9 DEF Poison
<1>10. CASE DropGuard(t)
  BY <1>10 DEF DropGuard
<1>11. CASE DropGuardPanicking(t)
  BY <1>11 DEF DropGuardPanicking
<1>12. CASE Forget(t)
  <2>1. /\ UNCHANGED <<acquire, release, releasable, amount, waker, supply>>
        /\ held' = [held EXCEPT ![t] = 0] /\ forgotten' = forgotten + held[t]
    BY <1>12 DEF Forget
  <2>2. ~Poisoned' /\ \A u \in Tasks \ {t} : InHands'[u] = InHands[u]
    BY <2>1
  <2>3. InHands'[t] + held[t] = InHands[t] /\ InHands'[t] \in Nat /\ held[t] \in Nat
    BY <2>1
  <2> QED  BY <2>1, <2>2, <2>3
<1>13. CASE PollStored(t)
  BY <1>13 DEF PollStored
<1>14. CASE PushCancel(t)
  BY <1>14 DEF PushCancel
<1>15. CASE WaitCancel(t)
  BY <1>15 DEF WaitCancel
<1>16. CASE LockOrElseDefer(t)
  BY <1>16 DEF LockOrElseDefer, CanLock
<1>17. CASE SwapCancel(t)
  BY <1>17 DEF SwapCancel
<1>18. CASE FlipAvailable(t)
  BY <1>18 DEF FlipAvailable
<1>19. CASE FlipNothing(t)
  BY <1>19 DEF FlipNothing
<1>20. CASE FlipTake(t)
  <2>1. acquire.permits = 0 /\ acquire'.permits = 0
    BY <1>20 DEF FlipTake, QueueInv, LockInv, TypeOK
  <2> QED  BY <1>20, <2>1 DEF FlipTake
<1>21. CASE LinkNext(t)
  BY <1>21 DEF LinkNext
<1>22. CASE LinkLast(t)
  BY <1>22 DEF LinkLast
<1>23. CASE Cancel(t)
  BY <1>23 DEF Cancel, AcceptCancel
<1>24. CASE TryPop(t)
  BY <1>24
<1>25. CASE Wake(t)
  BY <1>25 DEF Wake
<1>26. CASE TryUnlock(t)
  BY <1>26 DEF TryUnlock, Settling, MayUnlock
<1> HIDE <1>t, <1>u, <1>p, <1>r, <1>h DEF Balanced
<1> QED
  BY <1>1, <1>2, <1>3, <1>4, <1>5, <1>6, <1>7, <1>8, <1>9, <1>10, <1>11, <1>12, <1>13,
     <1>14, <1>15, <1>16, <1>17, <1>18, <1>19, <1>20, <1>21, <1>22, <1>23, <1>24, <1>25, <1>26
  DEF Begin, Poll, DropFuture, Continue

\* The sum in the next state is the sum of the next state's hands.
LEMMA NextTotal == Total' = acquire'.permits + release'.permits + forgotten' + SumOf(InHands', Tasks)
BY DEF Total, SumOf, Ones

\* A balanced step conserves the permits.
LEMMA BalancedConserves ==
  ASSUME QueueInv, LockInv', Conservation, ~Poisoned, NEW t \in Tasks, Balanced(t)
  PROVE  Conservation'
<1>1. CASE Poisoned'
  BY <1>1 DEF Balanced, Conservation
<1>2. CASE ~Poisoned'
  <2>1. InHands \in [Tasks -> Nat]
    BY PartsOfTotal DEF QueueInv
  <2>2. InHands' \in [Tasks -> Nat]
    BY <1>2 DEF LockInv, TypeOK, InHands, PermitCount, POISON
  <2>3. SumOf(InHands', Tasks) + InHands[t] = SumOf(InHands, Tasks) + InHands'[t]
        /\ SumOf(InHands, Tasks) \in Nat /\ SumOf(InHands', Tasks) \in Nat
    <3> DEFINE m == InHands'
    <3>1. \A u \in Tasks \ {t} : m[u] = InHands[u]
      BY DEF Balanced
    <3>2. m \in [Tasks -> Nat]
      BY <2>2
    <3> HIDE DEF m
    <3>3. SumOf(m, Tasks) + InHands[t] = SumOf(InHands, Tasks) + m[t]
          /\ SumOf(InHands, Tasks) \in Nat /\ SumOf(m, Tasks) \in Nat
      BY <2>1, <3>1, <3>2, TasksAssumption, SumUpdate
    <3> QED  BY <3>3 DEF m
  <2>4. acquire.permits + release.permits + forgotten + SumOf(InHands, Tasks) = supply
    BY DEF Conservation, Total
  <2>5. acquire'.permits + release'.permits + forgotten' + InHands'[t] + supply
          = acquire.permits + release.permits + forgotten + InHands[t] + supply'
    BY <1>2 DEF Balanced
  <2>6. /\ acquire.permits \in Nat /\ release.permits \in Nat /\ forgotten \in Nat /\ supply \in Nat
        /\ acquire'.permits \in Nat /\ release'.permits \in Nat /\ forgotten' \in Nat /\ supply' \in Nat
        /\ InHands[t] \in Nat /\ InHands'[t] \in Nat
    BY <2>1, <2>2, PartsOfTotal DEF QueueInv, LockInv, TypeOK, PermitCount, POISON
  <2>7. acquire'.permits + release'.permits + forgotten' + SumOf(InHands', Tasks) = supply'
    <3> DEFINE sum == SumOf(InHands, Tasks)
               nextSum == SumOf(InHands', Tasks)
               nextHand == InHands'[t]
    <3> HIDE DEF sum, nextSum, nextHand
    <3>1. nextSum + InHands[t] = sum + nextHand /\ sum \in Nat /\ nextSum \in Nat /\ nextHand \in Nat
      BY <2>3, <2>6 DEF sum, nextSum, nextHand
    <3>2. acquire'.permits + release'.permits + forgotten' + nextHand + supply
            = acquire.permits + release.permits + forgotten + InHands[t] + supply'
      BY <2>5 DEF nextHand
    <3>3. acquire.permits + release.permits + forgotten + sum = supply
      BY <2>4 DEF sum
    <3>4. acquire'.permits + release'.permits + forgotten' + nextSum = supply'
      BY <2>6, <3>1, <3>2, <3>3
    <3> QED  BY <3>4 DEF nextSum
  <2> QED  BY <1>2, <2>7, NextTotal DEF Conservation
<1> QED  BY <1>1, <1>2

\* try_pop() moves the amount of the front node from the hands of the releasing
\* task to the grant that its owner has not collected; they may be one task.
LEMMA TryPopConserves ==
  ASSUME QueueInv, LockInv', Conservation, ~Poisoned, NEW t \in Tasks, TryPop(t)
  PROVE  Conservation'
<1> DEFINE w == front
           n == InHands
           m == InHands'
           mid == [u \in Tasks |-> IF u = t THEN n[t] - amount[w] ELSE n[u]]
<1>t. /\ waker \in [Tasks -> WakerState] /\ amount \in [Tasks -> Nat] /\ held \in [Tasks -> Nat]
      /\ releasable \in [Tasks -> PermitCount] /\ supply \in Nat /\ forgotten \in Nat
      /\ acquire.permits \in Nat /\ release.permits \in Nat
  BY DEF QueueInv, LockInv, TypeOK, PermitCount, POISON
<1>1. w \in Tasks /\ waker[w] \in {"Pending", "Storing"} /\ w # Null
  BY PointersPending DEF TryPop, Stuck, Finish, Pending
<1>2. releasable[t] # POISON /\ amount[w] <= releasable[t]
  BY <1>1 DEF TryPop, Stuck, Satisfies, Poisoned
<1>3. /\ waker' = [waker EXCEPT ![w] = "Finished"]
      /\ releasable' = [releasable EXCEPT ![t] = @ - amount[w]]
      /\ UNCHANGED <<acquire, release, amount, held, supply, forgotten>>
  BY <1>2 DEF TryPop, Finish, SubPermits
<1>4. ~Poisoned'
  <2>1. \A u \in Tasks : releasable'[u] # POISON
    BY <1>t, <1>1, <1>2, <1>3 DEF Poisoned, POISON, PermitCount
  <2> QED  BY <1>3, <2>1 DEF Poisoned
<1>5. n \in [Tasks -> Nat]
  BY PartsOfTotal DEF QueueInv
<1>6. m \in [Tasks -> Nat]
  BY <1>4 DEF LockInv, TypeOK, InHands, PermitCount, POISON
<1>7. n[t] >= amount[w] /\ amount[w] \in Nat
  BY <1>t, <1>1, <1>2 DEF InHands, PermitCount, POISON
<1>8. mid \in [Tasks -> Nat] /\ mid[t] + amount[w] = n[t] /\ \A u \in Tasks \ {t} : mid[u] = n[u]
  BY <1>5, <1>7
<1>9. m[w] = mid[w] + amount[w] /\ \A u \in Tasks \ {w} : m[u] = mid[u]
  <2>1. \A u \in Tasks : n[u] = releasable[u] + held[u] + (IF waker[u] = "Finished" THEN amount[u] ELSE 0)
    BY DEF InHands
  <2>2. \A u \in Tasks : m[u] = releasable'[u] + held[u] + (IF waker'[u] = "Finished" THEN amount[u] ELSE 0)
    BY <1>3 DEF InHands
  <2>3. releasable'[t] + amount[w] = releasable[t] /\ \A u \in Tasks \ {t} : releasable'[u] = releasable[u]
    BY <1>t, <1>2, <1>3, <1>7 DEF PermitCount, POISON
  <2>4. waker'[w] = "Finished" /\ waker[w] # "Finished" /\ \A u \in Tasks \ {w} : waker'[u] = waker[u]
    BY <1>t, <1>1, <1>3
  <2>5. \A u \in Tasks : /\ releasable[u] \in Nat /\ releasable'[u] \in Int /\ held[u] \in Nat /\ amount[u] \in Nat
    BY <1>t, <1>3, <1>7 DEF PermitCount, POISON
  <2> HIDE DEF n, m
  <2>6. \A u \in Tasks \ {w} : m[u] = mid[u]
    BY <1>7, <2>1, <2>2, <2>3, <2>4, <2>5
  <2>7. m[w] = mid[w] + amount[w]
    BY <1>1, <1>7, <2>1, <2>2, <2>3, <2>4, <2>5
  <2> QED  BY <2>6, <2>7
<1>10. Total' = Total
  <2> HIDE DEF n, m, mid
  <2>1. SumOf(mid, Tasks) + n[t] = SumOf(n, Tasks) + mid[t] /\ SumOf(n, Tasks) \in Nat /\ SumOf(mid, Tasks) \in Nat
    BY <1>5, <1>8, TasksAssumption, SumUpdate
  <2>2. SumOf(m, Tasks) + mid[w] = SumOf(mid, Tasks) + m[w] /\ SumOf(m, Tasks) \in Nat
    BY <1>1, <1>6, <1>8, <1>9, TasksAssumption, SumUpdate
  <2>3. mid[t] \in Nat /\ mid[w] \in Nat
    BY <1>1, <1>8
  <2>4. SumOf(m, Tasks) = SumOf(n, Tasks)
    BY <1>7, <1>8, <1>9, <2>1, <2>2, <2>3
  <2> QED  BY <1>3, <2>4, NextTotal DEF Total, n, m
<1> QED  BY <1>3, <1>4, <1>10 DEF Conservation

\* A poison has a cause, and no step takes the cause away.
LEMMA CauseStays ==
  ASSUME QueueInv, NEW t \in Tasks, Begin(t) \/ Continue(t)
  PROVE  (poison # "no" => poison' # "no") /\ (supply > MaxAvailable => supply' > MaxAvailable)
<1>1. supply \in Nat
  BY DEF QueueInv, LockInv, TypeOK
<1> QED
  BY <1>1 DEF Begin, Continue, Poll, DropFuture, PollEnterAcquire, PollEnterQueue, TryAcquire, Release, PollReady,
     PollStore, DropFinished, StartCancel, Poison, DropGuard, DropGuardPanicking, Forget, PollStored, PushCancel,
     WaitCancel, LockOrElseDefer, SwapCancel, FlipAvailable, FlipNothing, FlipTake, LinkNext, LinkLast, Cancel,
     TryPop, Wake, TryUnlock, ReturnFromRelease

\* No step of any task takes the sum out of balance, or poisons without a cause.
LEMMA ConservationStep ==
  ASSUME QueueInv, LockInv', Conservation, NEW t \in Tasks, Begin(t) \/ Continue(t)
  PROVE  Conservation'
<1>1. CASE Poisoned
  <2>1. Poisoned'
    BY <1>1, PoisonStep DEF QueueInv
  <2> QED  BY <1>1, <2>1, CauseStays DEF Conservation
<1>2. CASE ~Poisoned /\ TryPop(t)
  BY <1>2, TryPopConserves
<1>3. CASE ~Poisoned /\ ~TryPop(t)
  BY <1>3, BalancedStep, BalancedConserves
<1> QED  BY <1>1, <1>2, <1>3

\* Semaphore::new puts all permits into `acquire`.
LEMMA ConservationInit == Init /\ LockInv => Conservation
<1> SUFFICES ASSUME Init, LockInv PROVE Conservation
  OBVIOUS
<1>1. Poisoned => supply > MaxAvailable
  BY DEF Init, Poisoned, ToPermits, POISON
<1>2. ASSUME ~Poisoned PROVE Total = supply
  <2>1. acquire.permits = Initial /\ release.permits = 0 /\ forgotten = 0 /\ supply = Initial
    BY <1>2 DEF Init, Poisoned, ToPermits
  <2>2. \A t \in Tasks : InHands[t] = 0
    BY DEF Init, InHands
  <2>3. SumOf(InHands, Tasks) = 0
    BY <2>2, SumNothing
  <2> QED  BY <2>1, <2>3 DEF Total
<1> QED  BY <1>1, <1>2 DEF Conservation

\* No interleaving of poll_enter(), release(), flip(), try_pop(), cancellation
\* and the guards loses a permit or makes one up, whichever packed word or
\* local variable it is in; and an unpoisoned semaphore is poisoned only by
\* poison() or by more permits than MAX_AVAILABLE.
THEOREM PermitsConserved == Spec => []Conservation
<1>1. Init /\ LockInv => Conservation
  BY ConservationInit
<1>2. QueueInv /\ LockInv' /\ Conservation /\ [Next]_vars => Conservation'
  <2> SUFFICES ASSUME QueueInv, LockInv', Conservation, [Next]_vars PROVE Conservation'
    OBVIOUS
  <2>1. CASE UNCHANGED vars
    BY <2>1 DEF vars, Conservation, Poisoned, Total, InHands, SumOf, Ones
  <2>2. CASE Next
    BY <2>2, ConservationStep DEF Next
  <2> QED  BY <2>1, <2>2
<1> QED  BY <1>1, <1>2, LockInvariant, QueueInvariant, PTL DEF Spec

-----------------------------------------------------------------------------
(* into_inner *)

\* What a program with an RwLock does: acquires of something, no cancellation,
\* no forgotten permit and no poison.
OnlyGuards ==
  /\ ClientCalls \subseteq {"try_acquire"} /\ 0 \notin Amounts
  /\ Initial <= MaxAvailable /\ MaxSupply <= MaxAvailable

\* Without cancellation and poison an acquire can only be granted.
LEMMA EndsInGuardsStep ==
  ASSUME OnlyGuards, QueueInv, Conservation, EndsInGuards, NEW t \in Tasks, Begin(t) \/ Continue(t)
  PROVE  EndsInGuards'
<1>t. /\ waker \in [Tasks -> WakerState] /\ amount \in [Tasks -> Nat] /\ step \in [Tasks -> AcquireStep]
      /\ call \in [Tasks -> Call] /\ supply \in Nat /\ releasable[t] # POISON
  BY DEF QueueInv, LockInv, TypeOK, Conservation, EndsInGuards, Poisoned
<1>u. NodeAgrees(t)
  BY DEF QueueInv, NodeControl
<1>w. front # Null => front \in Tasks
  BY PointersPending
<1> USE <1>t, <1>u, <1>w DEF OnlyGuards, EndsInGuards, NodeAgrees, InCancel, Goto, BeginRelease, ReturnFromRelease,
        TakePermits, NoFuture, FinishPoll, EndFuture, Settling
<1>1. CASE \E n \in Amounts : PollEnterAcquire(t, n)
  BY <1>1 DEF PollEnterAcquire
<1>2. CASE \E n \in Amounts : PollEnterQueue(t, n)
  BY <1>2 DEF PollEnterQueue
<1>3. CASE \E n \in Amounts : TryAcquire(t, n)
  BY <1>3 DEF TryAcquire
<1>4. CASE \E n \in Releases : Release(t, n)
  BY <1>4 DEF Release
<1>5. CASE PollReady(t)
  BY <1>5 DEF PollReady
<1>6. CASE PollStore(t)
  BY <1>6 DEF PollStore
<1>7. CASE DropFinished(t)
  BY <1>7 DEF DropFinished
<1>8. CASE StartCancel(t)
  BY <1>8 DEF StartCancel
<1>9. CASE Poison(t)
  BY <1>9 DEF Poison
<1>10. CASE DropGuard(t)
  BY <1>10 DEF DropGuard
<1>11. CASE DropGuardPanicking(t)
  BY <1>11 DEF DropGuardPanicking
<1>12. CASE Forget(t)
  BY <1>12 DEF Forget
<1>13. CASE PollStored(t)
  BY <1>13 DEF PollStored
<1>14. CASE PushCancel(t)
  BY <1>14 DEF PushCancel
<1>15. CASE WaitCancel(t)
  BY <1>15 DEF WaitCancel
<1>16. CASE LockOrElseDefer(t)
  BY <1>16 DEF LockOrElseDefer, CanLock
<1>17. CASE SwapCancel(t)
  BY <1>17 DEF SwapCancel
<1>18. CASE FlipAvailable(t)
  BY <1>18 DEF FlipAvailable
<1>19. CASE FlipNothing(t)
  BY <1>19 DEF FlipNothing
<1>20. CASE FlipTake(t)
  BY <1>20 DEF FlipTake
<1>21. CASE LinkNext(t)
  BY <1>21 DEF LinkNext
<1>22. CASE LinkLast(t)
  BY <1>22 DEF LinkLast
<1>23. CASE Cancel(t)
  BY <1>23 DEF Cancel, AcceptCancel
<1>24. CASE TryPop(t)
  BY <1>24 DEF TryPop, Finish, Stuck
<1>25. CASE Wake(t)
  BY <1>25 DEF Wake
<1>26. CASE TryUnlock(t)
  BY <1>26 DEF TryUnlock, MayUnlock
<1> HIDE <1>t, <1>u, <1>w DEF EndsInGuards
<1> QED
  BY <1>1, <1>2, <1>3, <1>4, <1>5, <1>6, <1>7, <1>8, <1>9, <1>10, <1>11, <1>12, <1>13,
     <1>14, <1>15, <1>16, <1>17, <1>18, <1>19, <1>20, <1>21, <1>22, <1>23, <1>24, <1>25, <1>26
  DEF Begin, Poll, DropFuture, Continue

\* Who leaves the queue empty and `acquire` at Queued leaves somebody to flip() it.
LEMMA FlipToComeStep ==
  ASSUME OnlyGuards, QueueInv, EndsInGuards, Conservation, FlipToCome, NEW t \in Tasks, Begin(t) \/ Continue(t)
  PROVE  FlipToCome'
<1>t. /\ pc \in [Tasks -> PC] /\ held \in [Tasks -> Nat] /\ amount \in [Tasks -> Nat]
      /\ waker \in [Tasks -> WakerState] /\ step \in [Tasks -> AcquireStep]
  BY DEF QueueInv, LockInv, TypeOK
<1>u. NodeAgrees(t)
  BY DEF QueueInv, NodeControl
<1>w. front # Null => front \in Tasks
  BY PointersPending
<1> USE <1>t, <1>u, <1>w DEF OnlyGuards, EndsInGuards, FlipToCome, NodeAgrees, InCancel, Goto, BeginRelease, ReturnFromRelease,
        TakePermits, NoFuture, FinishPoll, EndFuture, Settling
<1>1. CASE \E n \in Amounts : PollEnterAcquire(t, n)
  BY <1>1 DEF PollEnterAcquire
<1>2. CASE \E n \in Amounts : PollEnterQueue(t, n)
  BY <1>2 DEF PollEnterQueue
<1>3. CASE \E n \in Amounts : TryAcquire(t, n)
  BY <1>3 DEF TryAcquire
<1>4. CASE \E n \in Releases : Release(t, n)
  BY <1>4 DEF Release
<1>5. CASE PollReady(t)
  BY <1>5 DEF PollReady
<1>6. CASE PollStore(t)
  BY <1>6 DEF PollStore
<1>7. CASE DropFinished(t)
  BY <1>7 DEF DropFinished
<1>8. CASE StartCancel(t)
  BY <1>8 DEF StartCancel
<1>9. CASE Poison(t)
  BY <1>9 DEF Poison
<1>10. CASE DropGuard(t)
  BY <1>10 DEF DropGuard
<1>11. CASE DropGuardPanicking(t)
  BY <1>11 DEF DropGuardPanicking
<1>12. CASE Forget(t)
  BY <1>12 DEF Forget
<1>13. CASE PollStored(t)
  <2>1. UNCHANGED <<acquire, release, front>> /\ pc' = [pc EXCEPT ![t] = "idle"] /\ pc[t] = "storing"
    BY <1>13 DEF PollStored
  <2>2. CASE waker[t] = "Storing"
    BY <1>13, <2>1, <2>2 DEF PollStored
  <2>3. CASE waker[t] = "Finished"
    <3>1. held' = [held EXCEPT ![t] = @ + amount[t]]
      BY <1>13, <2>3 DEF PollStored
    <3>2. step[t] = "Waiting"
      BY <2>3 DEF AcquireStep
    <3>3. amount[t] > 0
      BY <3>2
    <3>4. held'[t] = held[t] + amount[t] /\ held[t] \in Nat /\ amount[t] \in Nat
      BY <3>1
    <3> QED  BY <3>3, <3>4
  <2> QED  BY <1>13, <2>2, <2>3 DEF PollStored
<1>14. CASE PushCancel(t)
  BY <1>14 DEF PushCancel
<1>15. CASE WaitCancel(t)
  BY <1>15 DEF WaitCancel
<1>16. CASE LockOrElseDefer(t)
  BY <1>16 DEF LockOrElseDefer, CanLock
<1>17. CASE SwapCancel(t)
  BY <1>17 DEF SwapCancel
<1>18. CASE FlipAvailable(t)
  BY <1>18 DEF FlipAvailable
<1>19. CASE FlipNothing(t)
  BY <1>19 DEF FlipNothing, NobodyWaits
<1>20. CASE FlipTake(t)
  BY <1>20 DEF FlipTake
<1>21. CASE LinkNext(t)
  BY <1>21 DEF LinkNext
<1>22. CASE LinkLast(t)
  <2>1. front' # Null
    BY <1>22 DEF LinkLast, QueueInv, LockInv, CursorSet, QueueShape, QueueEnds
  <2> QED  BY <2>1
<1>23. CASE Cancel(t)
  <2>1. waker[todo[t]] = "Cancelling" /\ todo[t] \in Tasks
    BY <1>23, PointersPending DEF Cancel, AcceptCancel
  <2> QED  BY <2>1
<1>24. CASE TryPop(t)
  <2>1. front \in Tasks /\ waker' \in {[waker EXCEPT ![front] = s] : s \in {"Finished", "Poisoned"}}
    BY <1>24 DEF TryPop, Finish, Stuck
  <2>2. waker'[front] = "Finished"
    BY <1>24, <2>1, EndsInGuardsStep DEF Continue
  <2> QED  BY <2>1, <2>2
<1>25. CASE Wake(t)
  BY <1>25 DEF Wake
<1>26. CASE TryUnlock(t)
  BY <1>26 DEF TryUnlock, MayUnlock
<1> HIDE <1>t, <1>u, <1>w DEF EndsInGuards, FlipToCome
<1> QED
  BY <1>1, <1>2, <1>3, <1>4, <1>5, <1>6, <1>7, <1>8, <1>9, <1>10, <1>11, <1>12, <1>13,
     <1>14, <1>15, <1>16, <1>17, <1>18, <1>19, <1>20, <1>21, <1>22, <1>23, <1>24, <1>25, <1>26
  DEF Begin, Poll, DropFuture, Continue

\* In a program that only acquires and drops guards, RwLock::into_inner gets its
\* count when every call has returned and no future or guard is left: a release()
\* that was deferred is not left in the lock, and the flip() of the last one finds
\* the queue empty and takes `acquire` from Queued to Available.
THEOREM IntoInnerReturns == OnlyGuards => (Spec => []IntoInnerSucceeds)
<1> SUFFICES ASSUME OnlyGuards PROVE Spec => []IntoInnerSucceeds
  OBVIOUS
<1>1. Init => EndsInGuards /\ FlipToCome
  BY DEF Init, EndsInGuards, FlipToCome, OnlyGuards
<1>2. QueueInv /\ Conservation /\ EndsInGuards /\ FlipToCome /\ [Next]_vars => EndsInGuards' /\ FlipToCome'
  <2> SUFFICES ASSUME QueueInv, Conservation, EndsInGuards, FlipToCome, [Next]_vars
               PROVE  EndsInGuards' /\ FlipToCome'
    OBVIOUS
  <2>1. CASE UNCHANGED vars
    BY <2>1 DEF vars, EndsInGuards, FlipToCome
  <2>2. CASE Next
    BY <2>2, EndsInGuardsStep, FlipToComeStep DEF Next
  <2> QED  BY <2>1, <2>2
<1>3. WaitInv /\ Conservation /\ EndsInGuards /\ FlipToCome => IntoInnerSucceeds
  <2> SUFFICES ASSUME WaitInv, Conservation, EndsInGuards, FlipToCome,
                      AtRest, \A t \in Tasks : step[t] # "Waiting" /\ held[t] = 0
               PROVE  TryAcquireResult(0) = "Ok"
    BY DEF IntoInnerSucceeds
  <2>1. supply \in Nat /\ acquire.permits \in PermitCount /\ acquire.permits # POISON
    BY DEF WaitInv, QueueInv, LockInv, TypeOK, EndsInGuards, Conservation, Poisoned
  <2>2. Pending = {} /\ \A t \in Tasks : waker[t] # "Finished"
    BY DEF Pending, WaitInv, QueueInv, LockInv, TypeOK, AcquireStep, NodeControl, NodeAgrees
  <2>3. release.tag = "Unlocked"
    BY DEF AtRest, WaitInv, QueueInv, LockInv, LockExclusion, Owner, OwnerPC
  <2>4. acquire.back = Null /\ front = Null
    BY <2>2 DEF WaitInv, QueueInv, QueueShape, QueueEnds
  <2>5. acquire # Queued(Null)
    BY <2>2, <2>3, <2>4 DEF FlipToCome, AtRest
  <2>6. acquire.tag = "Available"
    BY <2>4, <2>5 DEF WaitInv, QueueInv, LockInv, TypeOK
  <2> QED  BY <2>1, <2>6 DEF TryAcquireResult, PermitCount, POISON
<1> QED  BY <1>1, <1>2, <1>3, WaitInvariant, QueueInvariant, PermitsConserved, PTL DEF Spec

=============================================================================
