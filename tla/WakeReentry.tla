----------------------------- MODULE WakeReentry -----------------------------
(***************************************************************************)
(* Semaphore with wakers that run code of the client.  finish() calls      *)
(* Waker::wake with the release lock held, and a waker may do more than    *)
(* tell an executor: poll the woken task at once, or give up the last      *)
(* handle of a task, which drops what the task owns.  Such code may call   *)
(* the same semaphore, on the thread of the lock's holder.                 *)
(***************************************************************************)
EXTENDS SemaphoreRefinement

CONSTANT DropsInWake    \* Wakers cancel acquires in place.

\* The task that a task in wake() runs a call of; it has no thread of its own
\* until wake() returns.
VARIABLE nested

allVars == <<vars, nested>>

ReentrantInit == Init /\ nested = [t \in Tasks |-> Null]

OnThread(t) == \A h \in Tasks : nested[h] # t

\* A call of a task on a thread of its own.
BeginOnThread(t) == OnThread(t) /\ Begin(t) /\ UNCHANGED nested

\* wake() makes a call of u; one is enough, for what it defers stays deferred.
BeginInWake(t, u) ==
  /\ pc[t] = "wake" /\ nested[t] = Null
  /\ u # t /\ OnThread(u) /\ Begin(u)
  /\ waker'[u] = "Cancelling" => DropsInWake
  /\ nested' = [nested EXCEPT ![t] = u]

\* The holder goes on when the call inside wake() has returned.
Resume(t) ==
  /\ nested[t] # Null => pc[nested[t]] = "idle"
  /\ Continue(t)
  /\ nested' = [nested EXCEPT ![t] = Null]

ReentrantNext ==
  \E t \in Tasks : BeginOnThread(t) \/ Resume(t) \/ \E u \in Tasks : BeginInWake(t, u)

\* Threads are scheduled (ThreadSpec), and wake() returns when the code in it does.
ReentrantSpec ==
  ReentrantInit /\ [][ReentrantNext]_allVars /\ \A t \in Tasks : WF_allVars(Resume(t))

-----------------------------------------------------------------------------
\* What runs inside wake() never holds the release lock itself, so that it cannot
\* call another waker, and it never comes to the one place where a call waits,
\* wait_cancel(), but by a drop.
NestedNeverWaits ==
  \A t \in Tasks :
    nested[t] # Null => /\ pc[t] = "wake"
                        /\ nested[t] \in Tasks /\ ~Owner(nested[t])
                        /\ InCancel(nested[t]) => DropsInWake

\* No call of the semaphore waits for the release lock, so that one made by its
\* holder inside wake() returns, and wake() with it; of a drop see CancelAccepted.
WakeReturns == \A t \in Tasks : pc[t] = "wake" ~> pc[t] # "wake"

=============================================================================
