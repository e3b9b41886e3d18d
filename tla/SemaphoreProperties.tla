------------------------- MODULE SemaphoreProperties -------------------------
(***************************************************************************)
(* What module Semaphore must satisfy: the type invariant, the safety      *)
(* invariants and action properties, and liveness under fair scheduling.   *)
(***************************************************************************)
EXTENDS Semaphore

TypeOK ==
  /\ acquire \in [tag: {"Queued", "Available"}, back: Pointer, permits: PermitCount]
  /\ acquire.tag = "Queued" => acquire.permits = 0
  /\ acquire.tag = "Available" => acquire.back = Null
  /\ release \in [tag: {"Unlocked", "Locked", "LockedDirty"}, permits: PermitCount]
  /\ release.tag = "Locked" => release.permits = 0
  /\ front \in Pointer /\ middle \in Pointer /\ nextCancel \in Pointer
  /\ step \in [Tasks -> AcquireStep]
  /\ amount \in [Tasks -> Nat]
  /\ waker \in [Tasks -> WakerState]
  /\ next \in [Tasks -> Pointer]
  /\ prev \in [Tasks -> Pointer]
  /\ cancelNext \in [Tasks -> Pointer]
  /\ pc \in [Tasks -> PC]
  /\ call \in [Tasks -> Call]
  /\ releasable \in [Tasks -> PermitCount]
  /\ todo \in [Tasks -> Pointer]
  /\ cursor \in [Tasks -> Pointer]
  /\ back \in [Tasks -> Pointer]
  /\ held \in [Tasks -> Nat]
  /\ woken \in [Tasks -> BOOLEAN]
  /\ supply \in Nat /\ forgotten \in Nat
  /\ poison \in {"no", "called", "returned"}
  /\ ahead \in [Tasks -> SUBSET Tasks]

-----------------------------------------------------------------------------
(* The release lock *)

Owner(t) == pc[t] \in OwnerPC

\* The exchanges on `release` make it a lock: at most one task is between
\* lock_or_else_defer and try_unlock, and the word says whether one is.
LockExclusion ==
  /\ \A t, u \in Tasks : Owner(t) /\ Owner(u) => t = u
  /\ (\E t \in Tasks : Owner(t)) <=> release.tag # "Unlocked"

\* No assert!, unreachable! or unwrap of release.rs and waker.rs can fail.
NoPanic ==
  \A t \in Tasks :
    /\ pc[t] = "flip" /\ acquire.tag = "Available" => front = Null
    /\ Settling(t) /\ Stuck(t) => release.tag # "Unlocked"
    /\ pc[t] = "settle" /\ todo[t] # Null => waker[todo[t]] = "Cancelling"
    /\ Settling(t) /\ front # Null => waker[front] \in {"Pending", "Storing", "Cancelling"}
    /\ pc[t] = "storing" => waker[t] \in {"Storing", "Finished", "Poisoned"}
    /\ pc[t] = "wait_cancel" => waker[t] \in {"Cancelling", "Cancelled"}
    /\ pc[t] = "idle" /\ step[t] = "Waiting" => waker[t] \in {"Pending", "Finished", "Poisoned"}

\* The local `releasable` is blank outside release(): no permit, and no poison,
\* is left behind in a call that returned.
ReleasableBlank == \A t \in Tasks : Owner(t) \/ pc[t] = "lock" \/ releasable[t] = 0

\* The loop of flip() and the wake of finish() have a node to work on.
CursorSet == \A t \in Tasks : pc[t] \in {"link", "wake"} => cursor[t] # Null

\* The inductive invariant behind the theorems of SemaphoreProofs.
LockInv == TypeOK /\ LockExclusion /\ ReleasableBlank /\ CursorSet

-----------------------------------------------------------------------------
(* The queue *)

\* The nodes with next edges, and those no longer reachable from `acquire`.
Linked == IF middle = Null THEN {} ELSE ahead[middle] \cup {middle}
Taken  == Linked \cup UNION {ahead[back[t]] \cup {back[t]} : t \in {u \in Tasks : pc[u] = "link"}}

\* w is queued right behind v.
Behind(v, w) == ahead[w] = ahead[v] \cup {v}

\* Of any two queued nodes one is older; nothing else is ahead of anything.
QueueOrder ==
  /\ \A v \in Tasks \ Pending : ahead[v] = {}
  /\ \A v \in Pending : ahead[v] \subseteq Pending \ {v}
  /\ \A v, w \in Pending : v # w => (v \in ahead[w] <=> w \notin ahead[v])
  /\ \A v, w \in Pending : v \in ahead[w] => ahead[v] \subseteq ahead[w]

\* The words of the semaphore point at the ends of the parts of the queue.
QueueEnds ==
  /\ acquire.tag = "Available" => Pending = {}
  /\ acquire.back # Null => /\ acquire.back \in Pending \ Taken
                            /\ ahead[acquire.back] = Pending \ {acquire.back}
  /\ acquire.back = Null => Taken = Pending
  /\ front = Null <=> middle = Null
  /\ front # Null => front \in Pending /\ ahead[front] = {}
  /\ middle # Null => middle \in Pending

\* prev is the next older node of the same part, and null on the oldest.
PrevEdges ==
  \A v \in Pending :
    IF prev[v] = Null
      THEN ahead[v] = (IF v \in Linked THEN {} ELSE IF v \in Taken THEN Linked ELSE Taken)
      ELSE /\ prev[v] \in Pending /\ Behind(prev[v], v)
           /\ v \notin Linked => prev[v] \notin Linked
           /\ v \notin Taken => prev[v] \notin Taken

\* next is the next younger node, for the nodes linked so far, else null.
HasNext(v) ==
  \/ v \in Linked /\ v # middle
  \/ \E t \in Tasks : /\ pc[t] = "link" /\ v \in Taken \ Linked /\ v # back[t]
                      /\ v = cursor[t] \/ cursor[t] \in ahead[v]

NextEdges ==
  \A v \in Pending :
    IF HasNext(v) THEN next[v] \in Pending /\ Behind(v, next[v]) ELSE next[v] = Null

\* The two singly linked stacks and the doubly linked list hold the pending
\* acquires in order of arrival, and no edge leads to a node whose future has
\* ended: flip() loses nobody, cancel() and try_pop() mend every edge.
QueueShape == QueueOrder /\ QueueEnds /\ PrevEdges /\ NextEdges

\* "calls to acquire finish in the same order that they start" (lib.rs): only
\* the oldest pending acquire is finished, and the fast paths of poll_enter
\* and try_acquire take permits only when no acquire is pending.
FirstInFirstOut ==
  [][ /\ \A t \in Pending : waker'[t] \in {"Finished", "Poisoned"} => ahead[t] = {}
      /\ acquire.tag = "Available" /\ acquire'.tag = "Available"
           /\ acquire'.permits < acquire.permits => Pending = {} ]_vars

-----------------------------------------------------------------------------
(* The permits *)

\* Poison has been accepted by some word or is on its way into one.
Poisoned ==
  \/ acquire.permits = POISON \/ release.permits = POISON
  \/ \E t \in Tasks : releasable[t] = POISON

\* Permits that a release of the task has in hand, and those granted to it.
InHands ==
  [t \in Tasks |-> releasable[t] + held[t] + (IF waker[t] = "Finished" THEN amount[t] ELSE 0)]

\* Permits free, deferred, forgotten, or in the hands of a task.
Total == acquire.permits + release.permits + forgotten + SumOf(InHands, Tasks)

\* No interleaving loses or duplicates a permit, whichever word it is in; and
\* the semaphore is poisoned only by poison() or by too many permits.
Conservation ==
  IF Poisoned THEN poison # "no" \/ supply > MaxAvailable
              ELSE Total = supply

\* "permanently poisoned" (lib.rs): no step loses the poison, and once the
\* counter itself is poisoned no step changes it.
PoisonIsPermanent ==
  [][ /\ Poisoned => Poisoned'
      /\ acquire = Available(POISON) => acquire' = acquire ]_vars

-----------------------------------------------------------------------------
(* Nothing is left undone *)

AtRest == \A t \in Tasks : pc[t] = "idle"

\* The check of test_parallel ("Should have acquired"): when every call has
\* returned, the oldest pending acquire asks for more than is free, whatever
\* was deferred, cancelled or enqueued while the lock was held.
NoStuckWaiter ==
  AtRest =>
    /\ release.tag = "Unlocked" /\ nextCancel = Null
    /\ \A t \in Pending : ahead[t] = {} => release.permits # POISON /\ release.permits < amount[t]

\* The drop of a future parks its thread until the holder of the release lock has
\* unlinked the node: when every call has returned or is parked there, no node is
\* left to unlink, and each of them will find that it is accepted.
NoStuckCancel ==
  (\A t \in Tasks : pc[t] \in {"idle", "wait_cancel"}) =>
    \A t \in Tasks : waker[t] # "Cancelling"

\* A finished future that its task has not seen was woken, is being woken, or
\* is in the poll that will see it.
WakeNotLost ==
  \A t \in Tasks :
    step[t] = "Waiting" /\ waker[t] \in {"Finished", "Poisoned"} =>
      \/ woken[t] \/ pc[t] = "storing"
      \/ \E u \in Tasks : pc[u] = "wake" /\ cursor[u] = t

\* into_inner of tests/lock.rs tries to acquire nothing when all guards are gone
\* and takes any error for poison: without a cancellation the last release, even
\* one that was deferred, leaves the permits where try_acquire looks.
IntoInnerSucceeds ==
  AtRest /\ (\A t \in Tasks : step[t] # "Waiting" /\ held[t] = 0) => TryAcquireResult(0) = "Ok"

-----------------------------------------------------------------------------
(* Why the queue is in shape: the inductive invariant of SemaphoreQueueProofs *)

\* A future between start_cancel and the end of its drop.
InCancel(t) == pc[t] \in {"push_cancel", "wait_cancel"} \/ call[t] = "cancel"

\* What a task is in the middle of agrees with the state of its node.
NodeAgrees(t) ==
  /\ step[t] = "Done" => waker[t] = "Pending" /\ next[t] = Null /\ prev[t] = Null
  /\ waker[t] = "Storing" => pc[t] = "storing"
  /\ pc[t] = "storing" => waker[t] \in {"Storing", "Finished", "Poisoned"}
  /\ InCancel(t) <=> waker[t] \in {"Cancelling", "Cancelled"}
  /\ pc[t] = "push_cancel" => waker[t] = "Cancelling"
  /\ call[t] = "none" <=> ~Owner(t) /\ pc[t] # "lock"

NodeControl == \A t \in Tasks : NodeAgrees(t)

\* The locals of release() are blank where they are not in use, and the batch
\* that flip() links is younger than everything linked before.
LocalsBlank(t) ==
  /\ todo[t] # Null => pc[t] \in OwnerPC \ {"swap"}
  /\ back[t] = Null <=> pc[t] # "link"

BatchYounger(t) ==
  pc[t] = "link" => /\ back[t] \in Pending \ Linked
                    /\ cursor[t] \in (ahead[back[t]] \cup {back[t]}) \ Linked

OwnerLocals == \A t \in Tasks : LocalsBlank(t) /\ BatchYounger(t)

\* The nodes on a cancellation stack, the shared one or one already taken.
Stacked == {t \in Tasks : waker[t] = "Cancelling" /\ pc[t] # "push_cancel"}

\* The edges of the stacks, `fresh` being the nodes of the shared one: a node is
\* on one stack, once.
StackEdges(fresh) ==
  /\ nextCancel \in fresh \cup {Null}
  /\ \A v \in Stacked : cancelNext[v] # Null =>
       /\ cancelNext[v] \in Stacked
       /\ cancelNext[v] \in fresh <=> v \in fresh
       /\ cancelNext[v] # nextCancel
       /\ \A w \in Stacked : cancelNext[v] = cancelNext[w] => v = w
  /\ \A t \in Tasks : todo[t] # Null =>
       /\ todo[t] \in Stacked \ fresh
       /\ \A v \in Stacked : cancelNext[v] # todo[t]

\* The nodes that were taken have both edges by the time they are unlinked.
StackLinked(fresh) ==
  \A t \in Tasks :
    /\ pc[t] = "link" => Stacked \ fresh \subseteq Taken
    /\ pc[t] \in {"settle", "wake"} => Stacked \ fresh \subseteq Linked

CancelStacks == \E fresh \in SUBSET Stacked : StackEdges(fresh) /\ StackLinked(fresh)

\* The youngest acquire not yet taken is one that somebody will look for.
BackSeen ==
  acquire.back # Null =>
    \/ release.tag = "LockedDirty" \/ pc[acquire.back] = "lock"
    \/ \E t \in Tasks : pc[t] \in {"swap", "flip"}

\* The lock is given up only when the oldest linked node must wait.
FrontWaits ==
  release.tag = "Unlocked" /\ front # Null =>
    ~Satisfies(release.permits, amount[front]) \/ waker[front] = "Cancelling"

QueueInv == LockInv /\ QueueShape /\ NodeControl /\ OwnerLocals /\ CancelStacks
WaitInv  == QueueInv /\ BackSeen /\ FrontWaits

\* The top of the shared stack, and so what is under it, is one that somebody will
\* look for.
TopSeen ==
  nextCancel # Null =>
    \/ release.tag = "LockedDirty" \/ pc[nextCancel] = "lock"
    \/ \E t \in Tasks : pc[t] = "swap"

\* A node is under another one if it is not on top of the shared stack or of one
\* that was taken,
StackWhole ==
  \A v \in Stacked :
    \/ v = nextCancel \/ \E t \in Tasks : todo[t] = v
    \/ \E w \in Stacked : cancelNext[w] = v

\* ... and the edges do not go round: of any of the nodes, one is under no other.
StackOrder ==
  \A S \in SUBSET Stacked : S # {} => \E v \in S : \A w \in S : cancelNext[w] # v

RestInv == WaitInv /\ TopSeen /\ StackWhole /\ StackOrder

(* Why into_inner finds the permits, where no acquire is cancelled and no permit forgotten. *)

\* Every acquire ends with a guard, of more than nothing.
EndsInGuards ==
  /\ poison = "no" /\ supply <= MaxAvailable
  /\ \A t \in Tasks : /\ waker[t] \in {"Pending", "Storing", "Finished"}
                      /\ step[t] = "Waiting" => amount[t] > 0
                      /\ call[t] # "poison"

\* While `acquire` says Queued of an empty queue, somebody is to pass by flip():
\* a release under way or deferred, or one of a guard that is still to be dropped.
FlipToCome ==
  acquire = Queued(Null) /\ front = Null =>
    \/ release.tag = "LockedDirty"
    \/ \E t \in Tasks : \/ pc[t] \in {"lock", "swap", "flip", "link"}
                        \/ held[t] > 0 \/ waker[t] = "Finished"

-----------------------------------------------------------------------------
(* Progress *)

PollWoken(t) == woken[t] /\ Poll(t)

\* A thread that is inside a call is scheduled again and again.  Between calls
\* an executor polls a task whose waker was called, and a task lets go of its
\* guards; strongly fair, because a task does other things in between.
ContinueFairness == \A t \in Tasks : WF_vars(Continue(t))
TaskFairness == \A t \in Tasks : WF_vars(PollWoken(t)) /\ SF_vars(DropGuard(t))

ThreadSpec == Spec /\ ContinueFairness
FairSpec   == ThreadSpec /\ TaskFairness

\* "Returned permits will eventually wake any calls to acquire that can succeed"
\* (release, semaphore.rs) and first-in-first-out "prevents writer starvation":
\* if guards are given back and nobody cancels, every queued acquire is finished,
\* though releases go on being deferred to the holder of the lock.
NobodyCancels == \A t \in Tasks : waker[t] \notin {"Cancelling", "Cancelled"}

AcquireServed ==
  TaskFairness /\ []NobodyCancels => \A t \in Tasks : t \in Pending ~> t \notin Pending

\* ... and its future returns Ready, so the wake reaches the right task.
FutureReturns == \A t \in Tasks : step[t] = "Waiting" ~> step[t] = "Done"

\* "the drop may synchronously wait for a lock" (lib.rs), but not for ever: a
\* cancellation that was started is accepted, whoever holds the release lock.
CancelAccepted == \A t \in Tasks : waker[t] = "Cancelling" ~> waker[t] = "Cancelled"

-----------------------------------------------------------------------------
(* What the documentation says and the code does not do *)

\* errors.rs: WouldBlock means that "either there are insufficient available
\* permits or there is another pending call to acquire".
WouldBlockIsJustified ==
  AtRest /\ Pending = {} =>
    \A n \in Amounts : TryAcquireResult(n) = "WouldBlock" =>
                         AddPermits(acquire.permits, release.permits) < n

=============================================================================
