------------------------------ MODULE Semaphore ------------------------------
(***************************************************************************)
(* The lock-free core of async-weighted-semaphore: Semaphore               *)
(* (semaphore.rs), AcquireFuture (acquire.rs), ReleaseAction (release.rs)  *)
(* and the part of AtomicWaker (waker.rs) that they synchronise on.        *)
(*                                                                         *)
(* A task is a thread of control with one future slot; the slot is also    *)
(* the address of the future's Waiter node, so that a later future of the  *)
(* same task reuses the memory of an earlier one.  Every action is one     *)
(* atomic access to a shared word together with the accesses around it to  *)
(* memory no other task may touch at that point (a node that is not queued *)
(* yet, or the lists, which belong to the holder of the release lock).  A  *)
(* load followed by a compare-and-exchange loop is the single step of its  *)
(* successful exchange, or of its load when the code returns without one:  *)
(* what the loop decides depends only on the word it then exchanges.       *)
(***************************************************************************)
EXTENDS Permits

CONSTANTS
  Tasks,        \* The tasks, and the addresses of their Waiter nodes.
  Null,         \* The null pointer.
  Initial,      \* The argument of Semaphore::new.
  Amounts,      \* Amounts passed to acquire and try_acquire.
  Releases,     \* Amounts passed to Semaphore::release by a task that does
                \* not give back a guard.
  MaxSupply,    \* Bound: permits ever put into circulation.
  ClientCalls   \* The optional calls the tasks make.

OptionalCalls == {"try_acquire", "drop", "forget", "panic", "poison"}

ASSUME ConstantsAssumption ==
  /\ Null \notin Tasks
  /\ Initial \in Nat
  /\ Amounts \subseteq Nat
  /\ Releases \subseteq Nat
  /\ MaxSupply \in Nat
  /\ ClientCalls \subseteq OptionalCalls

\* A program has finitely many futures at a time.
ASSUME TasksAssumption == IsFiniteSet(Tasks)

VARIABLES
  \* struct Semaphore
  acquire,      \* AcquireState: the back of the queue or the free permits.
  release,      \* ReleaseState: the release lock and the permits left in it.
  front,        \* Oldest node that has next edges.
  middle,       \* Youngest node that has next edges.
  nextCancel,   \* Top of the stack of cancelling nodes.
  \* struct Waiter, one per task
  step,         \* AcquireStep: "Waiting", or "Done" when the slot is free.
  amount,       \* Permits the future asks for.
  waker,        \* AtomicWaker::state.
  next, prev,   \* The queue edges.
  cancelNext,   \* Waiter::next_cancel, the cancellation stack's edge.
  \* locals of the call a task is executing
  pc,           \* Where the task is; "idle" between calls.
  call,         \* Which call release() returns into.
  releasable,   \* ReleaseAction::releasable.
  todo,         \* release(): the cancellation stack taken by the swap.
  cursor,       \* flip(): the node being linked; finish(): the waker to wake.
  back,         \* flip(): the youngest node of the batch being linked.
  \* the tasks' side
  held,         \* Permits in guards of the task.
  woken,        \* The task's waker was called since its last poll.
  \* history variables, read by no guard but the bound on supply
  supply,       \* Initial permits and permits passed to release().
  forgotten,    \* Permits given up by SemaphoreGuard::forget.
  poison,       \* Progress of the first poison(): "no", "called", "returned".
  ahead         \* For a queued node, the queued nodes older than it.

semaphoreVars == <<acquire, release, front, middle, nextCancel>>
nodeVars      == <<step, amount, waker, next, prev, cancelNext>>
localVars     == <<pc, call, releasable, todo, cursor, back>>
clientVars    == <<held, woken>>
historyVars   == <<supply, forgotten, poison, ahead>>
vars == <<semaphoreVars, nodeVars, localVars, clientVars, historyVars>>

-----------------------------------------------------------------------------
(* Values of the packed words.  The part a tag does not use is blank. *)

Queued(b)      == [tag |-> "Queued", back |-> b, permits |-> 0]
Available(p)   == [tag |-> "Available", back |-> Null, permits |-> p]
Unlocked(p)    == [tag |-> "Unlocked", permits |-> p]
Locked         == [tag |-> "Locked", permits |-> 0]
LockedDirty(p) == [tag |-> "LockedDirty", permits |-> p]

Pointer == Tasks \cup {Null}

WakerState  == {"Pending", "Storing", "Finished", "Poisoned", "Cancelling", "Cancelled"}
AcquireStep == {"Waiting", "Done"}

\* Program points: in poll, in drop, and in the body of release().
OwnerPC == {"swap", "flip", "link", "settle", "wake"}
PC      == {"idle", "storing", "push_cancel", "wait_cancel", "lock"} \cup OwnerPC

\* Calls that end in release(): poll (poll_enter), cancel (drop), release and poison.
Call == {"none", "poll", "cancel", "release", "poison"}

\* The acquires that have entered the queue and not left it.
Pending == {t \in Tasks : /\ step[t] = "Waiting"
                          /\ waker[t] \in {"Pending", "Storing", "Cancelling"}}

-----------------------------------------------------------------------------
Init ==
  /\ acquire = Available(ToPermits(Initial))
  /\ release = Unlocked(0)
  /\ front = Null /\ middle = Null /\ nextCancel = Null
  /\ step = [t \in Tasks |-> "Done"]
  /\ amount = [t \in Tasks |-> 0]
  /\ waker = [t \in Tasks |-> "Pending"]
  /\ next = [t \in Tasks |-> Null]
  /\ prev = [t \in Tasks |-> Null]
  /\ cancelNext = [t \in Tasks |-> Null]
  /\ pc = [t \in Tasks |-> "idle"]
  /\ call = [t \in Tasks |-> "none"]
  /\ releasable = [t \in Tasks |-> 0]
  /\ todo = [t \in Tasks |-> Null]
  /\ cursor = [t \in Tasks |-> Null]
  /\ back = [t \in Tasks |-> Null]
  /\ held = [t \in Tasks |-> 0]
  /\ woken = [t \in Tasks |-> FALSE]
  /\ supply = Initial
  /\ forgotten = 0
  /\ poison = "no"
  /\ ahead = [t \in Tasks |-> {}]

Goto(t, label) == pc' = [pc EXCEPT ![t] = label]

\* A mutant of BeginRelease: an acquire that took no permits out of `acquire`
\* sees no need to tell the holder of the release lock that it is waiting.
BeginReleaseUnlessZero(t, c, p) ==
  IF c = "poll" /\ p = 0
    THEN UNCHANGED <<pc, call, releasable>>
    ELSE /\ Goto(t, "lock")
         /\ call' = [call EXCEPT ![t] = c]
         /\ releasable' = [releasable EXCEPT ![t] = p]

\* ReleaseAction { sem, releasable: p }.release() called from call c.
BeginRelease(t, c, p) ==
  /\ Goto(t, "lock")
  /\ call' = [call EXCEPT ![t] = c]
  /\ releasable' = [releasable EXCEPT ![t] = p]

\* Where release() returns to: the drop of a cancelled future goes on to
\* wait_cancel, every other caller returns.
ReturnFromRelease(t) ==
  /\ Goto(t, IF call[t] = "cancel" THEN "wait_cancel" ELSE "idle")
  /\ call' = [call EXCEPT ![t] = "none"]
  /\ poison' = IF call[t] = "poison" THEN "returned" ELSE poison

\* The future returned Ready or its drop is over: nobody may use the node any
\* more, and its memory is next seen as acquire() initialises it.
EndFuture(t) ==
  /\ woken' = [woken EXCEPT ![t] = FALSE]
  /\ step' = [step EXCEPT ![t] = "Done"]
  /\ amount' = [amount EXCEPT ![t] = 0]
  /\ waker' = [waker EXCEPT ![t] = "Pending"]
  /\ next' = [next EXCEPT ![t] = Null]
  /\ prev' = [prev EXCEPT ![t] = Null]
  /\ cancelNext' = [cancelNext EXCEPT ![t] = Null]

\* History: node w leaves the queue.
Leave(w) == ahead' = [u \in Tasks |-> IF u = w THEN {} ELSE ahead[u] \ {w}]

-----------------------------------------------------------------------------
(* Semaphore::acquire and AcquireFuture::poll.  The node is private until    *)
(* the first poll queues it, so creating the future is part of that poll,    *)
(* and a future dropped before it (AcquireStep::Entering) leaves no trace.   *)

\* On a poisoned counter the poll returns Ready(Err(PoisonError)), which changes
\* nothing either.

NoFuture(t) == pc[t] = "idle" /\ step[t] = "Done"

\* The exchange of poll_enter and of try_acquire that takes n free permits.
TakePermits(t, n) ==
  /\ acquire.tag = "Available" /\ acquire.permits # POISON
  /\ n <= acquire.permits
  /\ acquire' = Available(acquire.permits - n)
  /\ held' = [held EXCEPT ![t] = @ + n]

\* poll_enter with enough free permits: Ready(Ok(guard)).
PollEnterAcquire(t, n) ==
  /\ NoFuture(t)
  /\ TakePermits(t, n)
  /\ UNCHANGED <<release, front, middle, nextCancel, nodeVars, localVars, woken, historyVars>>

\* poll_enter otherwise: push the node on the back of the queue, and release
\* the permits that the exchange took out of `acquire`, zero or not.
PollEnterQueue(t, n) ==
  /\ NoFuture(t)
  /\ \/ acquire.tag = "Queued"
     \/ acquire.tag = "Available" /\ acquire.permits # POISON /\ acquire.permits < n
  /\ amount' = [amount EXCEPT ![t] = n]
  /\ prev' = [prev EXCEPT ![t] = acquire.back]
  /\ acquire' = Queued(t)
  /\ step' = [step EXCEPT ![t] = "Waiting"]
  /\ BeginRelease(t, "poll", acquire.permits)
  /\ woken' = [woken EXCEPT ![t] = FALSE]
  /\ ahead' = [ahead EXCEPT ![t] = Pending]
  /\ UNCHANGED <<release, front, middle, nextCancel, waker, next, cancelNext,
                 todo, cursor, back, held, supply, forgotten, poison>>

\* A future seen Finished ends: with a guard, or with PoisonError.
FinishPoll(t) ==
  /\ held' = [held EXCEPT ![t] = IF waker[t] = "Finished" THEN @ + amount[t] ELSE @]
  /\ EndFuture(t)

\* poll_waiting, the result was there before the poll.
PollReady(t) ==
  /\ pc[t] = "idle" /\ step[t] = "Waiting"
  /\ waker[t] \in {"Finished", "Poisoned"}
  /\ FinishPoll(t)
  /\ UNCHANGED <<semaphoreVars, localVars, historyVars>>

\* poll_waiting: AtomicWaker::poll takes the state to Storing to write a waker.
PollStore(t) ==
  /\ pc[t] = "idle" /\ step[t] = "Waiting" /\ waker[t] = "Pending"
  /\ waker' = [waker EXCEPT ![t] = "Storing"]
  /\ woken' = [woken EXCEPT ![t] = FALSE]
  /\ Goto(t, "storing")
  /\ UNCHANGED <<step, amount, next, prev, cancelNext, call, releasable, todo, cursor, back,
                 semaphoreVars, held, historyVars>>

\* A mutant of PollStored: a finish() between the two exchanges is overlooked.
PollStoredPending(t) ==
  /\ pc[t] = "storing"
  /\ waker' = [waker EXCEPT ![t] = IF @ = "Storing" THEN "Pending" ELSE @]
  /\ Goto(t, "idle")
  /\ UNCHANGED <<step, amount, next, prev, cancelNext, clientVars,
                 call, releasable, todo, cursor, back, semaphoreVars, historyVars>>

\* The second exchange of AtomicWaker::poll: back to Pending, or Ready when
\* finish() came in between.
PollStored(t) ==
  /\ pc[t] = "storing"
  /\ \/ /\ waker[t] = "Storing"
        /\ waker' = [waker EXCEPT ![t] = "Pending"]
        /\ UNCHANGED <<step, amount, next, prev, cancelNext, clientVars>>
     \/ /\ waker[t] \in {"Finished", "Poisoned"}
        /\ FinishPoll(t)
  /\ Goto(t, "idle")
  /\ UNCHANGED <<call, releasable, todo, cursor, back, semaphoreVars, historyVars>>

-----------------------------------------------------------------------------
(* AcquireFuture::drop *)

\* start_cancel finds the acquire finished: give the permits back.
DropFinished(t) ==
  /\ "drop" \in ClientCalls
  /\ pc[t] = "idle" /\ step[t] = "Waiting"
  /\ \/ /\ waker[t] = "Finished"
        /\ BeginRelease(t, "release", ToPermits(amount[t]))
     \/ /\ waker[t] = "Poisoned"
        /\ UNCHANGED <<pc, call, releasable>>
  /\ EndFuture(t)
  /\ UNCHANGED <<todo, cursor, back, semaphoreVars, held, historyVars>>

\* start_cancel wins over finish.
StartCancel(t) ==
  /\ "drop" \in ClientCalls
  /\ pc[t] = "idle" /\ step[t] = "Waiting" /\ waker[t] = "Pending"
  /\ waker' = [waker EXCEPT ![t] = "Cancelling"]
  /\ Goto(t, "push_cancel")
  /\ UNCHANGED <<step, amount, next, prev, cancelNext, call, releasable, todo, cursor, back,
                 semaphoreVars, clientVars, historyVars>>

\* Push the node on the cancellation stack, then release(0).
PushCancel(t) ==
  /\ pc[t] = "push_cancel"
  /\ cancelNext' = [cancelNext EXCEPT ![t] = nextCancel]
  /\ nextCancel' = t
  /\ BeginRelease(t, "cancel", 0)
  /\ UNCHANGED <<acquire, release, front, middle, step, amount, waker, next, prev,
                 todo, cursor, back, clientVars, historyVars>>

\* wait_cancel: the drop returns once the cancellation was accepted.
WaitCancel(t) ==
  /\ pc[t] = "wait_cancel" /\ waker[t] = "Cancelled"
  /\ EndFuture(t)
  /\ Goto(t, "idle")
  /\ UNCHANGED <<call, releasable, todo, cursor, back, semaphoreVars, held, historyVars>>

-----------------------------------------------------------------------------
(* Semaphore::try_acquire, release, poison, and the guard's drop and forget *)

\* What try_acquire(n) returns in the current state.
TryAcquireResult(n) ==
  CASE acquire.tag = "Queued" -> "WouldBlock"
    [] acquire = Available(POISON) -> "Poisoned"
    [] acquire.tag = "Available" /\ acquire.permits < n -> "WouldBlock"
    [] OTHER -> "Ok"

\* A try_acquire that succeeds, with a future pending in the task's slot or
\* not; one that fails changes nothing.
TryAcquire(t, n) ==
  /\ "try_acquire" \in ClientCalls
  /\ pc[t] = "idle"
  /\ TakePermits(t, n)
  /\ UNCHANGED <<release, front, middle, nextCancel, nodeVars, localVars, woken, historyVars>>

\* Semaphore::release of permits that come from no guard.
Release(t, n) ==
  /\ pc[t] = "idle"
  /\ supply + n <= MaxSupply
  /\ supply' = supply + n
  /\ BeginRelease(t, "release", ToPermits(n))
  /\ UNCHANGED <<todo, cursor, back, semaphoreVars, nodeVars, clientVars, forgotten, poison, ahead>>

\* Semaphore::poison, called by the client.
Poison(t) ==
  /\ "poison" \in ClientCalls
  /\ pc[t] = "idle" /\ poison = "no"
  /\ poison' = "called"
  /\ BeginRelease(t, "poison", POISON)
  /\ UNCHANGED <<todo, cursor, back, semaphoreVars, nodeVars, clientVars, supply, forgotten, ahead>>

\* Drop of the task's guard: release its permits, or poison while panicking.
DropGuard(t) ==
  /\ pc[t] = "idle" /\ held[t] > 0
  /\ BeginRelease(t, "release", ToPermits(held[t]))
  /\ held' = [held EXCEPT ![t] = 0]
  /\ UNCHANGED <<todo, cursor, back, semaphoreVars, nodeVars, woken, historyVars>>

DropGuardPanicking(t) ==
  /\ "panic" \in ClientCalls
  /\ pc[t] = "idle" /\ held[t] > 0 /\ poison = "no"
  /\ BeginRelease(t, "poison", POISON)
  /\ held' = [held EXCEPT ![t] = 0]
  /\ poison' = "called"
  /\ UNCHANGED <<todo, cursor, back, semaphoreVars, nodeVars, woken, supply, forgotten, ahead>>

\* SemaphoreGuard::forget.
Forget(t) ==
  /\ "forget" \in ClientCalls
  /\ pc[t] = "idle" /\ held[t] > 0
  /\ forgotten' = forgotten + held[t]
  /\ held' = [held EXCEPT ![t] = 0]
  /\ UNCHANGED <<semaphoreVars, nodeVars, localVars, woken, supply, poison, ahead>>

-----------------------------------------------------------------------------
(* ReleaseAction::release *)

\* A mutant of CanLock: the holder of a dirty lock is thought to be done.
CanLockDirty == release.tag \in {"Unlocked", "LockedDirty"}

CanLock == release.tag = "Unlocked"

\* A mutant of LockOrElseDefer: a call spins until it gets the lock.
LockOrElseSpin(t) ==
  /\ pc[t] = "lock"
  /\ \/ /\ CanLock
        /\ release' = Locked
        /\ releasable' = [releasable EXCEPT ![t] = AddPermits(@, release.permits)]
        /\ Goto(t, "swap")
     \/ ~CanLock /\ UNCHANGED <<release, releasable, pc>>
  /\ UNCHANGED <<acquire, front, middle, nextCancel, nodeVars, call, todo, cursor, back,
                 clientVars, historyVars>>

\* lock_or_else_defer: take the release lock and the permits left in it, or
\* leave the permits to the holder and mark the lock dirty.
LockOrElseDefer(t) ==
  /\ pc[t] = "lock"
  /\ \/ /\ CanLock
        /\ release' = Locked
        /\ releasable' = [releasable EXCEPT ![t] = AddPermits(@, release.permits)]
        /\ Goto(t, "swap")
        /\ UNCHANGED <<call, poison>>
     \/ /\ ~CanLock
        /\ release' = LockedDirty(AddPermits(release.permits, releasable[t]))
        /\ releasable' = [releasable EXCEPT ![t] = 0]
        /\ ReturnFromRelease(t)
  /\ UNCHANGED <<acquire, front, middle, nextCancel, nodeVars, todo, cursor, back,
                 clientVars, supply, forgotten, ahead>>

\* A mutant of SwapCancel: the stack is read but not taken.
SwapCancelLoads(t) ==
  /\ pc[t] = "swap"
  /\ todo' = [todo EXCEPT ![t] = nextCancel]
  /\ Goto(t, "flip")
  /\ UNCHANGED <<semaphoreVars, nodeVars, call, releasable, cursor, back,
                 clientVars, historyVars>>

\* Take the whole cancellation stack.
SwapCancel(t) ==
  /\ pc[t] = "swap"
  /\ todo' = [todo EXCEPT ![t] = nextCancel]
  /\ nextCancel' = Null
  /\ Goto(t, "flip")
  /\ UNCHANGED <<acquire, release, front, middle, nodeVars, call, releasable, cursor, back,
                 clientVars, historyVars>>

\* A mutant of NobodyWaits: only the nodes without next edges are looked at.
NobodyWaitsUnlinked == acquire = Queued(Null)

NobodyWaits == acquire = Queued(Null) /\ front = Null

\* flip, nobody is waiting: publish the permits for the fast path.
FlipAvailable(t) ==
  /\ pc[t] = "flip"
  /\ NobodyWaits \/ acquire.tag = "Available"
  /\ acquire' = Available(AddPermits(acquire.permits, releasable[t]))
  /\ releasable' = [releasable EXCEPT ![t] = 0]
  /\ Goto(t, "settle")
  /\ UNCHANGED <<release, front, middle, nextCancel, nodeVars, call, todo, cursor, back,
                 clientVars, historyVars>>

\* flip, there are waiters but no new ones.
FlipNothing(t) ==
  /\ pc[t] = "flip"
  /\ acquire = Queued(Null) /\ ~NobodyWaits
  /\ Goto(t, "settle")
  /\ UNCHANGED <<semaphoreVars, nodeVars, call, releasable, todo, cursor, back,
                 clientVars, historyVars>>

\* flip, take the new waiters ...
FlipTake(t) ==
  /\ pc[t] = "flip"
  /\ acquire.tag = "Queued" /\ acquire.back # Null
  /\ acquire' = Queued(Null)
  /\ cursor' = [cursor EXCEPT ![t] = acquire.back]
  /\ back' = [back EXCEPT ![t] = acquire.back]
  /\ Goto(t, "link")
  /\ UNCHANGED <<release, front, middle, nextCancel, nodeVars, call, releasable, todo,
                 clientVars, historyVars>>

\* ... and give each of them its next edge, youngest first.
LinkNext(t) ==
  LET w == cursor[t] IN
  /\ pc[t] = "link" /\ prev[w] # Null
  /\ next' = [next EXCEPT ![prev[w]] = w]
  /\ cursor' = [cursor EXCEPT ![t] = prev[w]]
  /\ UNCHANGED <<semaphoreVars, step, amount, waker, prev, cancelNext, pc, call, releasable,
                 todo, back, clientVars, historyVars>>

\* The oldest of the batch is joined to the nodes linked earlier.
LinkLast(t) ==
  LET w == cursor[t] IN
  /\ pc[t] = "link" /\ prev[w] = Null
  /\ \/ /\ middle = Null
        /\ front' = w
        /\ UNCHANGED <<next, prev>>
     \/ /\ middle # Null
        /\ next' = [next EXCEPT ![middle] = w]
        /\ prev' = [prev EXCEPT ![w] = middle]
        /\ UNCHANGED front
  /\ middle' = back[t]
  /\ cursor' = [cursor EXCEPT ![t] = Null]
  /\ back' = [back EXCEPT ![t] = Null]
  /\ Goto(t, "settle")
  /\ UNCHANGED <<acquire, release, nextCancel, step, amount, waker, cancelNext, call,
                 releasable, todo, clientVars, historyVars>>

\* A mutant of MendPrev: the younger neighbour keeps its edge to the node.
MendPrevNot(n, p) == prev' = prev

\* The younger neighbour n, if any, of a node that leaves gets p as its prev.
MendPrev(n, p) == prev' = IF n = Null THEN prev ELSE [prev EXCEPT ![n] = p]

\* AtomicWaker::accept_cancel, which also unparks the thread in wait_cancel.
AcceptCancel(w) ==
  /\ waker[w] = "Cancelling"
  /\ waker' = [waker EXCEPT ![w] = "Cancelled"]

\* cancel: unlink the next cancelled node and accept its cancellation.
Cancel(t) ==
  LET w == todo[t]
      n == next[w]
      p == prev[w]
  IN
  /\ pc[t] = "settle" /\ todo[t] # Null
  /\ AcceptCancel(w)
  /\ \/ p = Null /\ front' = n /\ next' = next
     \/ p # Null /\ front' = front /\ next' = [next EXCEPT ![p] = n]
  /\ middle' = IF n = Null THEN p ELSE middle
  /\ MendPrev(n, p)
  /\ todo' = [todo EXCEPT ![t] = cancelNext[w]]
  /\ Leave(w)
  /\ UNCHANGED <<acquire, release, nextCancel, step, amount, cancelNext, pc, call, releasable,
                 cursor, back, clientVars, supply, forgotten, poison>>

\* release() goes on to try_pop when the cancellation stack is done.
Settling(t) == pc[t] = "settle" /\ todo[t] = Null

\* The queue is empty, or its front needs more permits, or is cancelling; the
\* last is stable, because only the lock's holder accepts a cancellation.
Stuck(t) ==
  front # Null => \/ ~Satisfies(releasable[t], amount[front])
                  \/ waker[front] = "Cancelling"

\* AtomicWaker::finish called by t, up to its exchange: a finish that meets a
\* poll in progress leaves the waker alone, any other goes on to wake it.
Finish(t, w, poisoned) ==
  /\ waker[w] \in {"Pending", "Storing"}
  /\ waker' = [waker EXCEPT ![w] = IF poisoned THEN "Poisoned" ELSE "Finished"]
  /\ \/ /\ waker[w] = "Pending"
        /\ cursor' = [cursor EXCEPT ![t] = w]
        /\ Goto(t, "wake")
     \/ /\ waker[w] = "Storing"
        /\ UNCHANGED <<pc, cursor>>

\* try_pop: finish the front node and remove it from the queue.
TryPop(t) ==
  LET w == front
      n == next[w]
  IN
  /\ Settling(t) /\ ~Stuck(t)
  /\ Finish(t, w, releasable[t] = POISON)
  /\ releasable' = [releasable EXCEPT ![t] = SubPermits(@, amount[w])]
  /\ front' = n
  /\ middle' = IF n = Null THEN Null ELSE middle
  /\ MendPrev(n, Null)
  /\ Leave(w)
  /\ UNCHANGED <<acquire, release, nextCancel, step, amount, next, cancelNext, call, todo, back,
                 clientVars, supply, forgotten, poison>>

\* A mutant of Wake: the waker is dropped instead of woken.
WakeNobody(t) ==
  /\ pc[t] = "wake"
  /\ cursor' = [cursor EXCEPT ![t] = Null]
  /\ Goto(t, "settle")
  /\ UNCHANGED <<semaphoreVars, nodeVars, call, releasable, todo, back, clientVars, historyVars>>

\* finish: Waker::wake, called with the release lock held.
Wake(t) ==
  /\ pc[t] = "wake"
  /\ woken' = [woken EXCEPT ![cursor[t]] = TRUE]
  /\ cursor' = [cursor EXCEPT ![t] = Null]
  /\ Goto(t, "settle")
  /\ UNCHANGED <<semaphoreVars, nodeVars, call, releasable, todo, back, held, historyVars>>

\* A mutant of MayUnlock: the unlock overwrites what was deferred.
MayUnlockDirty == release.tag # "Unlocked"

MayUnlock == release = Locked

\* try_unlock: leave the permits in the lock, or go round again with the
\* permits of the releases that were deferred.
TryUnlock(t) ==
  /\ Settling(t) /\ Stuck(t)
  /\ \/ /\ MayUnlock
        /\ release' = Unlocked(releasable[t])
        /\ releasable' = [releasable EXCEPT ![t] = 0]
        /\ ReturnFromRelease(t)
     \/ /\ release.tag = "LockedDirty"
        /\ release' = Locked
        /\ releasable' = [releasable EXCEPT ![t] = AddPermits(@, release.permits)]
        /\ Goto(t, "swap")
        /\ UNCHANGED <<call, poison>>
  /\ UNCHANGED <<acquire, front, middle, nextCancel, nodeVars, todo, cursor, back,
                 clientVars, supply, forgotten, ahead>>

-----------------------------------------------------------------------------
(* The step of a call already under way. *)
Continue(t) ==
  \/ PollStored(t) \/ PushCancel(t) \/ WaitCancel(t)
  \/ LockOrElseDefer(t) \/ SwapCancel(t)
  \/ FlipAvailable(t) \/ FlipNothing(t) \/ FlipTake(t)
  \/ LinkNext(t) \/ LinkLast(t)
  \/ Cancel(t) \/ TryPop(t) \/ Wake(t) \/ TryUnlock(t)

Poll(t) == PollReady(t) \/ PollStore(t)

DropFuture(t) == DropFinished(t) \/ StartCancel(t)

(* A call a task makes while it is in no other. *)
Begin(t) ==
  \/ \E n \in Amounts : PollEnterAcquire(t, n) \/ PollEnterQueue(t, n) \/ TryAcquire(t, n)
  \/ \E n \in Releases : Release(t, n)
  \/ Poll(t) \/ DropFuture(t)
  \/ Poison(t) \/ DropGuard(t) \/ DropGuardPanicking(t) \/ Forget(t)

Next == \E t \in Tasks : Begin(t) \/ Continue(t)

Spec == Init /\ [][Next]_vars

=============================================================================
