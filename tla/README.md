# A TLA+ verification of async-weighted-semaphore

The crate (`src/`) is an asynchronous counting semaphore: a future acquires any
number of permits at once, in first-in-first-out order, without allocation.  Its
state is spread over three atomic words and two linked lists that are threaded
through the futures themselves, and every operation is a handful of
compare-and-exchange loops.  That is the part that is hard to test and it is
what this project models, checks with TLC and proves about with TLAPS.

## The system

| Component | State | Operations |
|---|---|---|
| `Semaphore` (`semaphore.rs`, `release.rs`) | `acquire`: back of the queue **or** free permits; `release`: lock bit, dirty bit and permits; `front`, `middle`: ends of the linked part of the queue; `next_cancel`: stack of cancelled nodes | `new`, `acquire`, `try_acquire`, `release`, `poison`; `ReleaseAction::release` = `lock_or_else_defer`, then rounds of swap, `flip`, `cancel`, `try_pop`, `try_unlock` |
| `AcquireFuture` (`acquire.rs`) | a `Waiter` node: `step`, `amount`, `waker`, `next`, `prev`, `next_cancel` | `poll` (`poll_enter`, `poll_waiting`), `drop` |
| `AtomicWaker` (`waker.rs`) | `state` (Pending, Storing, Finished, Cancelling, Cancelled, with a sequence number), the waker in two words, the parked thread | `poll`, `finish`, `start_cancel`, `accept_cancel`, `wait_cancel`, `drop` |
| `Permits`, packed words (`state.rs`, `atomic.rs`) | a `usize`; values above `MAX_AVAILABLE` are poison | saturating addition, `encode`/`decode`, `cmpxchg_weak_acqrel` |
| `SemaphoreGuard` (`guard.rs`) | amount, panicking flag | `new`, `drop`, `forget`, `extend`, `split` |
| Arc variants (`acquire.rs`, `guard.rs`) | an `Arc<Semaphore>` next to a future or guard | as above, each with its clone or drop of the Arc |
| Clients (`tests/lock.rs`, `tests/pipe.rs`, examples of `lib.rs`, `semaphore.rs`, `guard.rs`) | a lock, a pipe, queues and batches over semaphores | `read`, `write`, `read_exact`, `write_all`, `send`, `recv` |
| Errors, unit tests, benches | none | |

How they interact.  An acquire takes permits from `acquire` in one exchange, or
pushes its node there and calls `release` with the permits the exchange took
out.  Whoever gets the release lock moves the pushed nodes to the doubly linked
list (`flip`), unlinks cancelled ones (`cancel`), finishes nodes from the front
while permits last (`try_pop`, which calls `AtomicWaker::finish`), and unlocks.
Whoever does not get it adds its permits to the word, marks it dirty and leaves;
the holder then goes round again.  A drop of a queued future races `finish` on
the waker's state; if it wins it pushes its node on the cancellation stack, calls
`release(0)` and parks until the node is unlinked.

### What makes each component correct

* Release lock: one holder; nothing that was deferred is forgotten at the unlock.
* Queue: the stack in `acquire`, the batch being linked and the list are one
  queue in order of arrival; no edge leads to a node whose future has ended.
* Permits: none is lost or made up, in whichever of the words it is; an
  overflow or a poison sticks.
* Acquire: served in order of arrival, never left waiting while it could be
  served, woken when it is finished.
* Drop: ends, and gives back permits that were granted at the last moment.
* Waker: never torn, never lost, never touched after its node may be gone; what
  client code does inside `wake()` does not block the thread that holds the lock.
* Guard: what is split or combined adds up, and a mistake poisons.
* Arc: the semaphore outlives every call on it, and is freed after the last.
* Clients: what is built on permits keeps its own promise (exclusion, capacity,
  every byte delivered, every sender unblocked).

The list `hazards` of `PROJECT.json` names, line by line, where each of these can
go wrong.

## The modules

| Module | What it is |
|---|---|
| `Permits` | the counter type: `ToPermits` (`Permits::new` and `into_usize`), `AddPermits`, the test of `try_pop` |
| `Semaphore` | the state machine: one action per atomic access of every call |
| `SemaphoreProperties` | type invariant, safety invariants, action properties, fairness, liveness |
| `MCSemaphore` | instances for TLC (`MCSemaphore*.cfg`) |
| `SemaphoreSpec` | abstract: the contract with the callers, one counter, one queue, calls in one step |
| `SemaphoreRefinement` | the refinement mapping from `Semaphore` to it, and the progress it assumes |
| `WakeReentry`, `MCWakeReentry` | `Semaphore` with wakers that call it, with the lock held; instances `WakeReentry.cfg`, `WakeReentryDrop.cfg` |
| `PermitsProofs` | lemmas of the proofs: permit arithmetic, sums over finite sets |
| `SemaphoreProofs` | theorems about the release lock and poison, and a lemma for each operation on the queue |
| `SemaphoreQueueProofs` | theorems about the queue, the cancellation stacks and the permits |
| `SemaphoreRefinementProofs` | the proofs that `Semaphore` implements `SemaphoreSpec` and that calls made in `wake()` do not wait |
| `AtomicWaker` | the waker: one action per access to its words, two threads |
| `AtomicWakerProperties` | its invariants (with the inductive one), fairness, liveness; instance `AtomicWaker.cfg` |
| `AtomicWakerProofs` | theorems and proofs |
| `WakerSpec` | abstract: a tag and the latest waker, as `Semaphore` uses them; implemented by `AtomicWaker` |
| `AtomicCell` | abstract: a cell that holds and compares values |
| `PackedWord` | `Atomic<T>` on a usize with the three bit layouts; implements `AtomicCell`; instance `PackedWord.cfg` |
| `PackedWordProofs` | theorems and proofs, among them the implementation |
| `Guard`, `MCGuard` | guards of several semaphores, sent between threads that panic |
| `GuardProofs` | theorems about them |
| `ArcLifetime` | who owns an Arc of the semaphore when; instance `ArcLifetimeLast.cfg` |
| `ReadWriteLock` | the lock of `tests/lock.rs` and the loop of its test, over `SemaphoreSpec` |
| `BoundedQueue` | the three producer-consumer examples of the documentation, over `SemaphoreSpec` |
| `BatchQueue` | the batch example of `lib.rs`, over `SemaphoreSpec` |
| `Pipe` | the pipe of `tests/pipe.rs` and its test, over two instances of `SemaphoreSpec` |
| `Clients` | the last five side by side, with their fairness; instance `Clients.cfg` |
| `ClientProofs` | theorems about the five |

The modules stand on each other as the code does.  `PackedWord` shows that a word
may be taken for the value packed into it, which is what `Semaphore` and
`AtomicWaker` do.  `AtomicWaker` shows that a waker may be taken for the tag of
its state plus "the latest waker is woken", which is what `Semaphore` does.  That
a cancellation is accepted (`CancelAccepted`, of `Semaphore`) is in turn the
fairness assumed of the producer in `AtomicWaker`.  `SemaphoreRefinement` shows that
all words, locals and lists of `Semaphore` may be taken for one counter and one queue,
which is what the clients do; that a free permit reaches the oldest acquire
(`ServedWhenFree`, of `Semaphore`) is the fairness the clients assume of the
semaphore's own step `Serve`.

### How `Semaphore` corresponds to the code

* The packed words are tagged values: `Queued(b)`, `Available(p)`, `Unlocked(p)`,
  `Locked`, `LockedDirty(p)`.  All poisoned counts are one value, `POISON`,
  because every reader goes through `into_usize`.
* A task is a thread with one future slot.  The slot is also the node's address:
  a later future of a task reuses the memory of an earlier one, so an edge or
  stack pointer that outlives its future is seen as an edge to a fresh node.
  `EndFuture` resets the node, as the next `Semaphore::acquire` would.
* `pc[t]` says where in a call the task is.  Steps between two atomic accesses
  touch only the task's own future (before it is queued) or data that belongs to
  the holder of the release lock, so they are part of the access next to them.
* A `load` and its compare-and-exchange loop are the single step of the exchange
  that succeeds (or of the load, where the code returns without exchanging).
  This is exact: in each loop everything decided and everything written
  (`prev`, `next_cancel`, the new word) depends only on the value that the
  successful exchange compares with.  A failed or spuriously failing exchange
  changes nothing else, and an A-B-A change of the word is therefore harmless
  exactly where the model shows it.
* `Stuck` reads the front's waker in the same step as the unlock.  A waker in
  `Cancelling` stays there until the lock's holder accepts the cancellation, so
  nothing can happen between the two.
* Creating a future and dropping one that was never polled touch no shared
  state: they are part of `PollEnter*`.  Calls that change nothing (a failing
  `try_acquire`, a poll of a poisoned semaphore) are stuttering steps.
* `wait_cancel` is a guard: `park` may return at any time and the state is read
  again.  `Wake` sets `woken`, the executor's side of a waker.
* A task's guards are one amount, `held`, given back, forgotten or dropped in a
  panic as a whole.
* Orderings: the accesses to the words are acquire/release read-modify-writes on
  single words, so the model is sequentially consistent.
* History variables: `supply` and `forgotten` (for conservation), `poison`, and
  `ahead[t]`, the queued nodes older than t, from which the properties know the
  true order of the queue.

### How `AtomicWaker` corresponds to the code

* One future, with its thread, and one producer, the thread that holds the release
  lock (different threads at different times, never two: `LockExclusion`).  `future`
  and `producer` are records of a program counter and the locals of the call.
* Every access to `state`, `data` and `vtable` is an action, so that the loads of
  `finish` and the stores of `poll` interleave.  A spurious failure of a weak
  exchange changes nothing and is a stuttering step; a true failure is `FutureReload`
  or `FinishReload`.  `thread` is not atomic in the code: it is written and taken
  together with the neighbouring load.
* A waker is the number of the poll that cloned it, the same in both words; a
  torn waker is one with two numbers.  `NextSeq` counts modulo `SeqMod`.
* `node` is as much of the queue as decides what may be called: `finish` while the
  node is queued, `accept_cancel` once it was on the stack, nothing after.
  `Enqueue` and `EnterReady` are the two ways `poll_enter` goes on after a poll.
* `FreeNode` is the earliest moment at which the client can free the future: when
  the call that settles it returns.  The destructor of the waker is part of it.
* `park`/`unpark` is a token that `park` may also ignore.
* Polling after the end and dropping twice are excluded by the types
  (`AcquireStep`, ownership); a future is not sent to another thread in the middle
  of a call, so that one `future` record is enough.

### How `PackedWord` corresponds to the code

* A usize is `0 .. UsizeMax` with `UsizeMax + 1 = 8 * (MaxAvailable + 1)`, the
  relation between the width and `MAX_AVAILABLE` in `semaphore.rs`; a shift is a
  product modulo that.  An "or" with the tag is a sum, since the low bits are zero.
* `Values(t)` is everything the program may pass to `encode`: any usize as a
  counter, any even address, sequence numbers up to the first that does not fit.
* `Norm` says which values mean the same: all poisoned counters, and sequence
  numbers that agree in the bits that fit.
* `AtomicCell` lets an exchange fail at any time, as `compare_exchange_weak` may;
  what it forbids is success on a different value.  That success is possible at
  all after a read is `ReadsBack`.

### The contract, and how `Semaphore` meets it

`SemaphoreSpec` says what a caller may rely on.  `permits` are all that are free:
published in `acquire`, left in `release`, deferred to the lock's holder, or in the
`releasable` of a call.  A release adds to them in one step, an acquire that meets
an empty queue may take from them in one step, the oldest in the queue is granted
or failed in one step; what the code does between is a stutter.  An acquire may
also queue although permits are enough, as one does that comes while they are on
their way through the release lock.

Poison is not a single moment.  A `poison()` that finds the lock held is
deferred, and the holder publishes what it has; acquires succeed until the poison
comes round.  The contract therefore has two flags: `poisoned`, that some word has
the poison, and `failing`, that every acquire will meet it.  An acquire fails only
when `poisoned`, and once `failing` none succeeds: `Pipe` and `BatchQueue` need that,
since they take bytes without permits after a failure.

`Abstract`, in `SemaphoreRefinement`, is the mapping.  The queue's order is that of
the history variable `ahead`.

### How the others correspond to the code

* `WakeReentry` adds `nested`: the task whose call the task in `wake()` is making.
  That task's thread is the holder's, so that the holder's next step waits until the
  call has returned (`Resume`).  `DropsInWake` tells whether such a call may be the
  drop of a pending acquire.
* `WakerSpec` has one action per exchange that `Semaphore` makes on a waker; the
  mapping is `Tagged` of `AtomicWakerProperties`.
* `Guard` has one counter per semaphore, the calls of guards being `acquire`,
  `release` and `poison` as a whole.  A guard has the flag that `new` records, and an
  owner.  A thread that panics drops what it owns, in any order, and its destructors
  may acquire; `extend` of guards that do not match panics and drops its argument.
  Amounts are usizes (`UsizeMax`), which do not fit into the permits three bits shorter.
* `ArcLifetime` counts Arcs.  A call has a beginning and an end; what it does is left
  out.  Fields are dropped in the order they are declared, `arc` before `inner`.
  `KeepHandles` says that tasks keep an Arc of their own for as long as their future.
* `ReadWriteLock`, `Pipe`, `BoundedQueue` and `BatchQueue` follow the loops of the tests
  and examples; a section under a mutex is one step, and a byte is a byte.  Their
  channel (`async-channel`) and mutex are external.  `Over` is each when it has ended.

Operators described as "a mutant of X" are plausible bugs of that place.
`PROJECT.json` pairs each checked property with one, and TLC must refute the
property when the mutant takes the place of X.

## The runs

Bounds, named by constants: `Tasks`, `Amounts` and `Releases` (arguments),
`MaxSupply` (permits ever released by hand or initial), `ClientCalls` (which
optional calls are made); and poison is called at most once, since a second one
adds nothing to a poisoned word.  Three tasks are enough for two of them to be
queued (or one queued, one cancelling) while a third holds the release lock;
two for the races of two.  `MaxAvailable` is 2, so that a release can overflow.

The instances with three tasks also bound who is in a call at the same time; the
bounds are constraints, defined in `MCSemaphore`:

* `OneGuardEach`: a task gives its guard back before it acquires again, as the threads
  of `tests/lock.rs` do.  It restrains the clients and no step of a call, so that what
  is fair stays possible.
* `ThreeTasks` is one of two things.  Either nobody asks for more than one permit, and
  then all three may be inside calls as long as no two of them are drops
  (`FewCancels`): this has the races of a drop with the holder of the lock and a third
  call; two drops at once, and the orders in which their nodes are unlinked, are with a
  third task between its calls (`TwoCalls`).  All three can be queued there, because
  the permits may be with a task that waits itself (`AllOrNothing`).  Or some task asks
  for both permits, and then two are inside calls at a time, nobody cancels, and who
  waits holds nothing: this has the large acquire before, between and behind small ones.

What lies beyond these bounds is covered by the theorems, which have none: each
safety property of these runs is proved for any number of tasks and calls.

| Run | Instance | Shows |
|---|---|---|
| `queue` | 3 tasks, two permits, amounts 1 and 2, cancellation, `ThreeTasks` (0.8 M states) | `QueueShape`, `FirstInFirstOut`; `NoStuckCancel`: no drop is left parked when nobody runs; `ImplementsContract`: a step of `Semaphore` is one of `SemaphoreSpec` or none |
| `poison` | 2 tasks, every call, acquires of two permits, releases of 0, 1 and 3 of at most 3 in all (0.3 M) | `RestInv` (the invariant of the proofs), `NoPanic` (no assertion, `unwrap` or `unreachable!` fails), `Conservation`, `NoStuckWaiter`, `WakeNotLost`, `PoisonIsPermanent`, `ImplementsContract` |
| `progress` | 2 tasks, two permits, cancellation, calls inside `wake()` (0.1 M) | `CancelAccepted`: no drop parks for ever; `ServedWhenFree`; `AcquireServed`: nobody is starved; `WakeReturns`: a call in `wake()` does not block its own thread |
| `served` | 3 tasks, one permit, `OneGuardEach`, `FairSpec` (0.05 M) | `FutureReturns`: each acquire that waits returns; `IntoInnerSucceeds`: the assumption of the lock's `into_inner` |
| `waker` | 4 polls, sequence numbers modulo 5, every drop and finish (4 K) | `WakerInv` (the invariant of the proofs), `NoTornWaker`, `ConsumedOnce`, `LatestWoken`, `NodeNotTouched`, `NoUnreachable`, `DropReturns`; `ImplementsWaker` |
| `packed_word` | a usize of five bits, all three types (4 K) | `CellSpec`: the packed word implements `AtomicCell`; `PackedInv`: words are decodable and read back |
| `clients` | the lock with 3 threads, the queues with 3 senders, the pipe with 1 or 2 readers and 2 writers, 4 batches, 2 owners of Arcs (0.1 M) | `WriterExcludes`, `EveryoneWrites`; `Bounded`, `SendsReturn`; `ReadAssertion`, `WithinCapacity`, `EverythingRead`; `DrainInRange`; `AliveInCalls`, `NoneLeaked` |
| `guards` | 3 guards of 2 semaphores, 2 threads, a usize of four bits (0.1 M) | `TypeOK` (amounts stay usizes), `Conserved`, `MismatchPoisons` |
| `would_block`, `wake_reentry_drop`, `arc_lifetime_last`, `oversized_message` | | see "Where the documentation and the code disagree" |

`queue`, `poison` and `guards` use symmetry over their sets; the runs with
liveness do not.  Deadlock is checked in the runs of `Semaphore` and `WakeReentry`
and in `packed_word`: as long as a call is under way some task can move.  It is not
checked in `waker`, whose system ends with its future, in `clients`, whose loops
end, in `guards` and `arc_lifetime_last`, where every thread may die and every Arc be
dropped, and in `wake_reentry_drop` and `oversized_message`, which show somebody
waiting for ever.  That no client
ends too early is what its liveness property says.

Four polls are enough in `waker` for `finish` to be overtaken between each two of its
loads and again after a reload, and the sequence numbers start to matter with the
second.  Five bits are the least at which each layout has counts, poisoned counters,
a largest count and several pointers; the bit layouts are proved for every width.
In `guards` one guard of 15 and another of at least 1 exceed the usize, two permits
exceed `MAX_AVAILABLE`, and three guards suffice for a pair of one semaphore and one
of the other.  In `clients` each size is the smallest with contention on both sides:
of three threads one can write while another reads again and again and the third
waits; three senders of a message each meet a queue of two, so that one waits for
ever if nobody unblocks it; two writes exceed the pipe, and each read and write
fit it together, as those of the test do (a read and a write that fit only apart
would wait for each other, which the assertions of lines 45 and 69 allow); a write
is read by both readers, or by one while the other is queued, or by none before the
poison; four batches of three bytes are six reads of two.
`MaxAvailable` is 12 there, what the batches need; the lock then admits all three
threads as readers, as the real one does.
The clients do not interact, so that `Clients` runs one at a time; the states
are the sum, not the product, of theirs.

Fairness.  `ThreadSpec` says only that a thread inside a call is scheduled again
and again (weak fairness of `Continue`, in `WakeReentry` of `Resume`), which the
operating system provides.  `FairSpec` adds that an executor polls a task whose
waker was called and that a task lets go of its guards sooner or later; the latter
is strong fairness, because a task polls its future in between.  Neither says that
a task stops making calls, and that matters: the holder of the release lock goes
round again whenever somebody defers to it, so with endless calls of others its own
call need not end ("most calls are lock-free", not wait-free).  For this reason
`AcquireServed` asks for the acquire to be finished, not for the call of the
task that does the work to return, and `FutureReturns` is asked where a task
that waits cannot be kept going round: with a single permit.  If others may also
queue and cancel for ever, a holder that goes round with a guard in its hands can
keep that guard's permits from the rest, which is why `AcquireServed` has the
premise that nobody cancels; the premise that guards are given back
(`TaskFairness`) is part of it too, because `progress` has no fairness but that of
threads.  The other three properties of `progress` have no premise.

In `clients` and `oversized_message`, `WF(Serve)`, once for each semaphore, is what
`ServedWhenFree` shows of the code; `progress` does not poison, so that the failing of
the queue after a poison rests on `NoStuckWaiter`, by which a poison at rest leaves
nobody pending.  Threads are weakly fair.  The reader of the pipe draws the length of
each read at random, and strong fairness says that it is not zero for ever.
Nothing is assumed of `Close` and `Swallow`.

The fairness of `waker` (`FairSpec` of `AtomicWakerProperties`) is weak fairness of
the two threads inside their calls and strong fairness of `AcceptTake`: the holder
of the release lock may fail to finish the node any number of times, but the
round that took the stack gets to it, which `CancelAccepted` shows of `Semaphore`.

### Where the documentation and the code disagree

Four runs state what the repository says and show the program not keeping it; the
behaviours are documented here and in `findings`.

* `would_block`: `Semaphore::new(1)`, queue an `acquire(2)`, drop it.  `acquire`
  is left at `Queued(null)` and the free permit in `release`, and `try_acquire(1)`
  returns `WouldBlock` although a permit is free and nobody waits.  The same resting
  state is reached with the poison in `release`, by a `poison()` that fails a pending
  acquire; then `try_acquire` returns `WouldBlock` where its comment
  (`semaphore.rs:130`) promises `Poisoned`, until the next `acquire` or `release`.
* `wake_reentry_drop`: `finish()` calls `wake()` with the release lock held.  If the
  waker gives up the last handle of a task that has a pending acquire of the same
  semaphore, the future is dropped in place: its cancellation is deferred to the
  holder of the lock, its own thread, and `wait_cancel()` parks for ever.
* `arc_lifetime_last`: `AcquireFutureArc` drops `arc` before `inner`.  If the Arc
  is the last one, the drop of a pending `inner` uses a semaphore that was freed.
* `oversized_message`: the first example of `lib.rs` acquires
  `data.len().max(capacity)` (line 44), under the comment "Don't deadlock if data.len()
  exceeds capacity", where `min` is meant: a longer string waits for ever.  (A shorter
  one takes the whole capacity.)  `SendsReturn` is what the comment promises; in
  `clients`, whose messages are no longer than the capacity, it holds.

Differences that were met while modelling and that no run is spent on:

* `poison()` does not cause "all future calls to `acquire`" to fail "immediately"
  (`semaphore.rs:245`) if it was deferred; what holds instead is in the contract.
* `Reader` of `tests/pipe.rs` is `Clone`, but a reader that was failed drains bytes
  for which another may already hold permits, so that the assertion of line 49 holds
  of one reader, as in the test, and of several only until an acquire has failed.
  `ReadAssertion` says just that, and `clients` has one reader or two.
  `EverythingRead`, the end of the test, is said of one.
* A guard that was created while its thread unwinds has `panicking = true` for good;
  sent to another thread it does not poison in a later panic there
  (`lib.rs:120` says that any guard does).

## The proofs

Three modules prove the theorems about `Semaphore` and `WakeReentry`; the waker, the packed words, the
guards and the clients have one each.  Lemmas that several of them need are in
`PermitsProofs`.  Every safety invariant that a
passing run checks is a theorem, and so are the refinements and the action
properties.  None of them depends on a bound of the runs.

### The semaphore

For any finite set of tasks, any `MaxAvailable` and any of the other constants
(assumptions `MaxAvailableAssumption`, `ConstantsAssumption`, `TasksAssumption`;
finiteness is needed where permits are added up over the tasks and nodes counted):

* `LockInvariant`: `Spec => []LockInv`.  `LockInv` is the type invariant, the
  exclusion of the release lock and two conjuncts that make it inductive:
  `ReleasableBlank` (outside `release()` the local is zero; it is needed so that a
  new call does not overwrite permits or poison) and `CursorSet` (the loops of
  `flip` and `finish` have a node, needed for the types of the edges they follow).
  The step lemmas `TypeOKStep` and `ControlStep` have one case per action.
* `PoisonPermanence`: `Spec => PoisonIsPermanent`, from `LockInv`, the arithmetic
  lemma `PermitArithmetic` and one case per action.
* `QueueInvariant`: `Spec => []QueueInv`, and from it `QueueInShape` and
  `NothingPanics`.  That the edges are right is not inductive by itself: `cancel()`
  follows pointers that were put on a stack long before.  `QueueInv` adds what the
  code relies on.  `NodeControl` is the agreement of a node's waker with the call its
  owner is in (a node that is being cancelled stays put until the holder accepts).
  `OwnerLocals` says that the batch of `flip()` is younger than what is linked, and
  that no pointer survives in a local.  `CancelStacks` says that some set `fresh` of
  the stacked nodes is the shared stack, that edges do not lead from one stack to
  the other, and that no node has two predecessors: so a node is on one stack, once.
  Nodes taken by `swap` are linked before they are unlinked, fresh ones need not be
  (`StackLinked`), which is why the order of `swap`, `flip` and `cancel` in the code is
  the right one.  No invariant counts or enumerates the stack, so that no induction
  is needed.  The operations have a lemma each (`EnterStep`, `FlipTakeStep`,
  `LinkNextStep`, `LinkLastStep`, `UnlinkStep`).
* `OldestFirst`: `Spec => FirstInFirstOut`.  It rests on `FinishedByTryPop`: nobody
  but `try_pop` finishes a pending acquire, and that one is the front.
* `NoWakeIsLost`: `Spec => []WakeNotLost`, from `QueueInv` and one case per action.
* `WaitInvariant`: `Spec => []WaitInv`, and `NobodyIsStuck`.  Two more conjuncts relate
  the lock to the queue: `BackSeen`, that for an acquire which is pushed and not yet
  taken somebody is about to look (its own call, the holder before its exchange in
  `flip`, or the dirty bit), and `FrontWaits`, that the lock is free only when the oldest
  must wait.  When every call has returned nobody is about to look.
* `RestInvariant`: `Spec => []RestInv`, and `NobodyIsParked`: `Spec => []NoStuckCancel`,
  the safety half of `CancelAccepted`.  `CancelStacks` only says what a stack may hold;
  that no node is lost from one takes three conjuncts more.  `TopSeen`: whoever pushed
  the top of the shared stack has yet to call `release`, or the dirty bit is set, or the
  holder is about to `swap`.  `StackWhole`: each node on a stack is the top of one or
  under another node.  Alone, that would also hold of nodes that lie under each other
  in a circle, which nobody comes to; `StackOrder` excludes it without counting: of any
  set of stacked nodes one is under no other.  With nobody running, the tops are gone
  (`TopSeen`, and `OwnerLocals` for those that were taken), so by `StackOrder` and
  `StackWhole` there is no node at all.
* `PermitsConserved`: `Spec => []Conservation`.  A sum over the tasks would need
  induction; `SumOf` is the number of pairs of a task and one of its permits, and
  the theorems of the library about cardinalities say how it changes (`SumWithout`
  and what follows from it).  A step of a task changes its own part only
  (`Balanced`), but for `try_pop`, which gives to another (`TryPopConserves`).
* `IntoInnerReturns`: `OnlyGuards => (Spec => []IntoInnerSucceeds)`.  The hypothesis is
  what a program with an `RwLock` does: acquires of something, no cancellation, no
  `forget`, no poison.  With a cancellation the statement is false (`would_block`).
  `FlipToCome` is the invariant: while `acquire` is Queued and the list is empty,
  some guard is still to be released, or a release is under way.
* `ContractImplemented`: `Spec => ImplementsContract`.  `InOrder` puts each pending
  acquire at the place that the number of older ones gives (`Places`); a push is an
  append and an unlinking a `Remove` of the contract (`InOrderAppend`,
  `InOrderRemove`, both by `InOrderUnique`: there is only one such sequence).  The
  counter has one lemma per exchange (`LockCounter`, `PublishCounter`, `UnlockCounter`),
  and an action whose acquires stay what they are (`AcquiresKept`) needs no more.
  `ContractStep` has one case per action: a step of the contract, or a stutter.
* `NestedCallsNeverWait`: `ReentrantSpec => []NestedNeverWaits`.  A call made in `wake()`
  finds the lock held, by its own thread, and defers (`NestedStep`, from the exclusion
  in `LockInv`); unless it is the drop of a pending acquire, it does not come to
  `wait_cancel`.  It is the reason why `WakeReturns` holds.  `ReentrantSpec` only adds
  guards to `Spec` (`ReentrantImplements`), so the safety theorems hold of it as well.

### The waker

`AtomicWakerProofs` proves, for any `MaxPolls` less than `SeqMod` (assumption
`WakerAssumption`: a sequence number of 61 bits does not come round while one
future is polled):

* `WakerInvariant`: `Spec => []WakerInv`.  The invariant says for each pair of
  program counters which tags the state can have (`FutureControl`,
  `ProducerControl`), what the words hold while a poll replaces them (`Words`,
  `Fresh`), and, the heart of it, that the state's sequence number is never behind
  the one `finish` has read and that as long as the state is the one it read the
  words are those it read (`Sequence`).  `WakerInvStep` has one step per action and
  under it one per conjunct.
* From it `WholeWaker`, `LatestWakerWoken`, `FreedNodeUntouched` and
  `PanicsUnreachable`, the four safety properties of the run.
* `EachWakerConsumedOnce`: `Spec => []ConsumedOnce`, whose step lemma says for each
  action which clone changes its owner or is consumed.
* `WakerImplemented`: `Spec => ImplementsWaker`.  `WakerStep` maps each action to a step
  of `WakerSpec` or to a stutter; it rests on `WakerInv` and on one more invariant,
  `StoredOlder`, by which a poll stores another waker than the last.

### Packed words

`PackedWordProofs` proves, for any `MaxAvailable` greater than zero, `WordsReadBack`
and `CellImplemented`: `Spec => CellSpec`, that is, the initial states map to
initial states of `AtomicCell` and each operation to the operation of the same name.
Both rest on `RoundTrip`, one lemma per layout, and the invariant that a word is
always the encoding of some value.

### Guards

`GuardProofs`, for any number of semaphores, threads and places for guards (a finite
set), any usize width that fits `MAX_AVAILABLE`, and no bound on what
`SemaphoreGuard::new` makes up:

* `TypeInvariant`: `Spec => []TypeOK`, amounts stay usizes.
* `PermitsOfGuardsConserved`: `Spec => []Conserved`, from `TypeOK`.  `HeldChange` and
  `HeldChangeTwo` say how the sum over the guards changes with one or two of them;
  a drop moves permits from the sum to the counter (`DropBalanced`).
* `MismatchPoisonsBoth`: `Spec => []MismatchPoisons`.  `Unwinding` makes it inductive:
  a thread that panics owes the poison of each semaphore of the mismatch, and the
  guard that will pay it is still on its stack; it cannot be dead before it is paid.

### Clients

`ClientProofs` stands on the states of `SemaphoreSpec`.  What its steps do to who
holds how much is proved once, for tasks that acquire in a loop (`Acquired`,
`ServedUses`, `SameUses`, `Moved`), and used for each client.  What a theorem needs
of the client's constants is its hypothesis:

* `WriterIsAlone` (any number of threads, at least one permit): `LockInv` says that
  free permits and those of the threads add up to `MaxAvailable`; a writer has all.
* `BatchesAreWhole` (`BatchAssumption`: the loops read no more bytes than they send,
  and those sent fit the semaphore): `BatchCounts` relates the bytes to the loops'
  counts and the permits to the bytes.  After an error it is the loops' counts alone
  that leave two bytes for the receiver, as the example's last assertion has it.
* `NoArcIsLeaked` and `CallsAreAlive` (finitely many threads and places for guards):
  `ArcCount` adds up the four kinds of owners of an Arc, `ArcCalls` says that who is in
  a call owns what it is on.  `CallsAreAlive` has the hypothesis `KeepHandles`,
  without which `arc_lifetime_last` refutes it; `NoArcIsLeaked` does not need it.
* `RoomIsKept` and `ReadsAreCovered` (any readers, writers and sizes): room that is
  free, held or being given back, and the bytes, are at most the capacity
  (`PipeRoom`); bytes that are announced, held or about to be announced are in the
  buffer as long as readers are not failed, and after that at least those held, if
  there is `OneReader` (`PipeCovered`).
* `QueuesAreBounded` (any senders, capacity and sizes): what senders hold, what the
  messages in the channel stand for and the message being parsed are at most the
  capacity, in each of the three examples (`QueueRoom`).  Sums over the channel
  change at both ends (`SumAppend`, and `SumTail` by a bijection).

The clients' proofs take the semaphore for its contract.  `ContractImplemented` is
what justifies that, but TLAPS does not check their composition: each client would
have to be stated over the variables of `Semaphore`.

### What stays with TLC

* Liveness: `CancelAccepted`, `ServedWhenFree`, `AcquireServed`, `WakeReturns`,
  `FutureReturns`, `DropReturns`, `EveryoneWrites`, `SendsReturn` and `EverythingRead`.
  They speak of fairness, and so of ENABLED, which the prover does not handle.
  Of `CancelAccepted` and `WakeReturns` the safety halves are proved (`NobodyIsParked`,
  `NestedCallsNeverWait`): what remains is that calls which can go on do.
* The four refutations, which are counterexamples.
* What `ServedWhenFree` gives the clients: that `Serve` may be taken to be fair.

## Not modelled

* a waker that panics in `wake`, `clone` or `drop` (`waker.rs:91`, `112`, `141`): the
  release word stays `Locked` for good, and no text of the crate says what should hold
  then;
* arguments above `MAX_AVAILABLE` in `acquire` (they wait until they are dropped, as
  amounts above the permits there are do, which are modelled);
* `Debug` and `Display` output, which changes no state; the conversion of `PoisonError`;
* the drivers of `tests/unit.rs` and the example of `ChecksumPool`, which add no state
  to the calls they make;
* weak memory effects beyond the acquire/release discipline.
