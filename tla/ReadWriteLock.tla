---------------------------- MODULE ReadWriteLock ----------------------------
(***************************************************************************)
(* The read-write lock of tests/lock.rs (and of the documentation of       *)
(* MAX_AVAILABLE): a reader holds one permit, a writer all of them.  The   *)
(* threads run the loop of its test: each reads until it is its turn and   *)
(* then writes, so that readers come back again and again while a writer   *)
(* waits.  The semaphore is that of SemaphoreSpec.                         *)
(***************************************************************************)
EXTENDS Naturals, Sequences

CONSTANTS
  Threads,        \* How many threads; they are numbered from zero.
  Iterations,     \* How often each of them writes.
  MaxAvailable    \* Semaphore::MAX_AVAILABLE, the permits of the lock.

Tasks == 0 .. Threads - 1

VARIABLES
  sem,
  at,       \* Where a thread is: "read", "reading", "write", "writing", "end".
  turn,     \* The loop's i.
  vec       \* The value in the lock.

vars == <<sem, at, turn, vec>>

Semaphore == INSTANCE SemaphoreSpec WITH Counts <- {1, MaxAvailable}

Init ==
  /\ sem = Semaphore!New(MaxAvailable)
  /\ at = [t \in Tasks |-> "read"]
  /\ turn = [t \in Tasks |-> t]
  /\ vec = <<>>

\* What the test ends with.
Written == [i \in 1 .. Threads * Iterations |-> i - 1]

\* A lock whose threads have ended.
Over ==
  /\ sem = Semaphore!New(MaxAvailable)
  /\ at = [t \in Tasks |-> "end"]
  /\ turn = [t \in Tasks |-> Threads * Iterations + t]
  /\ vec = Written

Goto(t, label) == at' = [at EXCEPT ![t] = label]

\* A mutant of Amount: a writer takes as much as a reader.
AmountOne(mode) == 1

Amount(mode) == IF mode = "read" THEN 1 ELSE MaxAvailable

Inside(mode) == IF mode = "read" THEN "reading" ELSE "writing"

\* read() or write(): the acquire is served at once, or queued ...
Acquire(t) ==
  /\ at[t] \in {"read", "write"} /\ sem.outcome[t] = "none"
  /\ \/ Semaphore!Take(Amount(at[t])) /\ Goto(t, Inside(at[t]))
     \/ Semaphore!Enqueue(t, Amount(at[t])) /\ UNCHANGED at
  /\ UNCHANGED <<turn, vec>>

\* ... and resumed.
Resume(t) ==
  /\ sem.outcome[t] = "Ok" /\ Semaphore!Collect(t)
  /\ Goto(t, Inside(at[t]))
  /\ UNCHANGED <<turn, vec>>

\* The condition of the loop; its guard is dropped with it.
Look(t) ==
  /\ at[t] = "reading"
  /\ Goto(t, IF Len(vec) = turn[t] THEN "write" ELSE "read")
  /\ Semaphore!Give(Amount("read"))
  /\ UNCHANGED <<turn, vec>>

\* push; the guard is dropped and the next round begins.
Push(t) ==
  /\ at[t] = "writing"
  /\ vec' = Append(vec, turn[t])
  /\ turn' = [turn EXCEPT ![t] = @ + Threads]
  /\ Goto(t, IF turn[t] + Threads < Threads * Iterations THEN "read" ELSE "end")
  /\ Semaphore!Give(Amount("write"))

Serve == Semaphore!Serve /\ UNCHANGED <<at, turn, vec>>

Step(t) == Acquire(t) \/ Resume(t) \/ Look(t) \/ Push(t)

Next == (\E t \in Tasks : Step(t)) \/ Serve

Spec == Init /\ [][Next]_vars

-----------------------------------------------------------------------------
\* "prevent any concurrent writers or readers": while one thread writes nobody
\* else has a guard, though permits change hands inside the semaphore.
WriterExcludes ==
  \A t, u \in Tasks : at[t] = "writing" /\ t # u => at[u] \notin {"reading", "writing"}

\* "The first-in-first-out priority policy prevents writer starvation", although
\* the readers never stop coming, and the last line of the test: the vector is
\* complete and in order.
EveryoneWrites == <>(vec = Written)

=============================================================================
