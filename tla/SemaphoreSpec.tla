---------------------------- MODULE SemaphoreSpec ----------------------------
(***************************************************************************)
(* What the semaphore promises to its callers: a counter, a queue of       *)
(* acquires in order of arrival, and calls that are single steps.  Module  *)
(* SemaphoreRefinement shows that Semaphore implements it; the clients     *)
(* (ReadWriteLock, Pipe, BoundedQueue, BatchQueue) stand on it.            *)
(*                                                                         *)
(* The counter is the sum of all permits that are free, in whichever word  *)
(* or call they are.  It is poisoned as a whole, but the permits that were *)
(* free at that moment are swallowed little by little, and acquires may be *)
(* served from them until the first one fails.                             *)
(***************************************************************************)
EXTENDS Naturals, Sequences

CONSTANTS
  Tasks,          \* Who acquires; a task has one acquire at a time.
  Counts,         \* Numbers of permits that are passed to calls.
  MaxAvailable    \* Semaphore::MAX_AVAILABLE

VARIABLE sem      \* [permits, poisoned, failing, queue, amount, outcome]

Outcome == {"none", "queued", "Ok", "Poisoned"}

\* n permits are given to a semaphore that holds p.
Add(s, n) ==
  IF n <= MaxAvailable THEN [s EXCEPT !.permits = @ + n] ELSE [s EXCEPT !.poisoned = TRUE]

\* Semaphore::new; one of too many permits fails everybody from the beginning.
New(n) ==
  LET poisoned == n > MaxAvailable IN
  [permits |-> IF poisoned THEN 0 ELSE n, poisoned |-> poisoned, failing |-> poisoned,
   queue |-> <<>>, amount |-> [t \in Tasks |-> 0], outcome |-> [t \in Tasks |-> "none"]]

\* The future of t ends without or with its outcome seen.
Done(s, t) == [s EXCEPT !.outcome[t] = "none", !.amount[t] = 0]

-----------------------------------------------------------------------------
\* A mutant of MayTake: the fast path does not look at the queue.
MayTakeBarging(n) == ~sem.failing /\ n <= sem.permits

\* The fast path of acquire and try_acquire.
MayTake(n) == ~sem.failing /\ sem.queue = <<>> /\ n <= sem.permits

Take(n) == MayTake(n) /\ sem' = [sem EXCEPT !.permits = @ - n]

\* The first poll of an acquire that cannot be served at once, or that comes
\* after others, even if there are permits enough; the fast path is closed.
Enqueue(t, n) ==
  /\ sem.outcome[t] = "none"
  /\ \E f \in {sem.failing, sem.poisoned} :
       sem' = [sem EXCEPT !.queue = Append(@, t), !.outcome[t] = "queued", !.amount[t] = n,
                          !.failing = f]

AtFront(t) == sem.queue # <<>> /\ Head(sem.queue) = t

\* The oldest acquire is served ...
Grant(t) ==
  /\ AtFront(t) /\ ~sem.failing /\ sem.amount[t] <= sem.permits
  /\ sem' = [sem EXCEPT !.permits = @ - sem.amount[t], !.queue = Tail(@), !.outcome[t] = "Ok"]

\* ... or failed,
Fail(t) ==
  /\ AtFront(t) /\ sem.poisoned
  /\ sem' = [sem EXCEPT !.queue = Tail(@), !.outcome[t] = "Poisoned", !.failing = TRUE]

\* ... and its next poll returns the guard or the error.
Collect(t) == sem.outcome[t] \in {"Ok", "Poisoned"} /\ sem' = Done(sem, t)

\* A queue without the acquire at position i.
Remove(queue, i) == [j \in 1 .. Len(queue) - 1 |-> queue[IF j < i THEN j ELSE j + 1]]

\* Drop of a future whose acquire is queued, or was served behind its back.
Leave(t) ==
  /\ sem.outcome[t] = "queued"
  /\ \E i \in DOMAIN sem.queue :
       sem.queue[i] = t /\ sem' = Done([sem EXCEPT !.queue = Remove(@, i)], t)

GiveBack(t) == sem.outcome[t] = "Ok" /\ sem' = Done(Add(sem, sem.amount[t]), t)

\* Semaphore::release, and the drop of a guard.
Give(n) == sem' = Add(sem, n)

\* Semaphore::poison
PoisonAll == sem' = [sem EXCEPT !.poisoned = TRUE]

\* "If the number of available permits exceeds this number, it may poison the
\* semaphore" (MAX_AVAILABLE); a poisoned semaphore swallows permits, and fails
\* everybody from some moment on.
Swallow ==
  /\ sem.poisoned \/ sem.permits > MaxAvailable
  /\ \E p \in 0 .. sem.permits, f \in {sem.failing, TRUE} :
       sem' = [sem EXCEPT !.poisoned = TRUE, !.permits = p, !.failing = f]

\* The semaphore's own steps, which serve or fail the oldest acquire.
Serve == \E t \in Tasks : Grant(t) \/ Fail(t)

Next ==
  \/ \E n \in Counts : Take(n) \/ Give(n)
  \/ \E t \in Tasks, n \in Counts : Enqueue(t, n)
  \/ \E t \in Tasks : Collect(t) \/ Leave(t) \/ GiveBack(t)
  \/ Serve \/ PoisonAll \/ Swallow

\* A semaphore that was created with a number of permits.
Init == \E n \in Counts : sem = New(n)

Spec == Init /\ [][Next]_sem

=============================================================================
