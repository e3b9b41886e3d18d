----------------------------- MODULE ArcLifetime -----------------------------
(***************************************************************************)
(* What keeps a Semaphore alive that is shared by Arc: the handles of the  *)
(* client, AcquireFutureArc (acquire.rs) and SemaphoreGuardArc (guard.rs). *)
(* A call into the semaphore has a beginning and an end, between which     *)
(* other threads drop what they own; what the call does is left out.       *)
(***************************************************************************)
EXTENDS Integers, FiniteSets

CONSTANTS
  Tasks,        \* Threads, each with room for a handle and a future.
  Guards,       \* Room for SemaphoreGuardArcs.
  KeepHandles   \* A task has a handle as long as it has a future.

VARIABLES
  strong,       \* The strong count of the Arc; at zero the semaphore is gone.
  handle,       \* The tasks that have an Arc of their own.
  future,       \* "none", or AcquireStep "Entering", "Waiting" or "Done".
  guard,        \* The guards in existence.
  pc            \* What a task is in the middle of.

vars == <<strong, handle, future, guard, pc>>

\* The points inside of a call that uses the semaphore.
InCall == {"call", "poll", "cancel", "release"}

Init ==
  /\ strong = 1
  /\ \E t \in Tasks : handle = {t}
  /\ future = [t \in Tasks |-> "none"]
  /\ guard = {}
  /\ pc = [t \in Tasks |-> "idle"]

Goto(t, from, to) == pc[t] = from /\ pc' = [pc EXCEPT ![t] = to]

Becomes(t, s) == future' = [future EXCEPT ![t] = s]

\* Nobody has an Arc any more.
Over ==
  /\ strong = 0 /\ handle = {} /\ guard = {}
  /\ future = [t \in Tasks |-> "none"]
  /\ pc = [t \in Tasks |-> "idle"]

\* Arc::clone by one that has an Arc, and the drop of an Arc.
Clone == strong' = strong + 1
Drop  == strong' = strong - 1

\* A task with a handle gives a clone to a task without, and drops its own.
Share(t, u) ==
  /\ pc[t] = "idle" /\ t \in handle /\ u \notin handle
  /\ Clone /\ handle' = handle \cup {u}
  /\ UNCHANGED <<future, guard, pc>>

DropHandle(t) ==
  /\ pc[t] = "idle" /\ t \in handle
  /\ KeepHandles => future[t] = "none"
  /\ Drop /\ handle' = handle \ {t}
  /\ UNCHANGED <<future, guard, pc>>

\* acquire_arc
AcquireArc(t) ==
  /\ pc[t] = "idle" /\ t \in handle /\ future[t] = "none"
  /\ Clone /\ Becomes(t, "Entering")
  /\ UNCHANGED <<handle, guard, pc>>

\* release, poison or try_acquire_arc on the task's handle.
Call(t) ==
  /\ t \in handle /\ Goto(t, "idle", "call")
  /\ UNCHANGED <<strong, handle, future, guard>>

\* The call returns; a try_acquire_arc with a guard, which has a clone.
Return(t) ==
  /\ Goto(t, "call", "idle")
  /\ \/ UNCHANGED <<strong, guard>>
     \/ \E g \in Guards \ guard : Clone /\ guard' = guard \cup {g}
  /\ UNCHANGED <<handle, future>>

\* AcquireFutureArc::poll
Poll(t) ==
  /\ future[t] \in {"Entering", "Waiting"} /\ Goto(t, "idle", "poll")
  /\ UNCHANGED <<strong, handle, future, guard>>

\* ... Ready, with a guard that has a clone of the future's Arc or with an
\* error, or Pending.
PollReturns(t) ==
  /\ Goto(t, "poll", "idle")
  /\ \/ Becomes(t, "Waiting") /\ UNCHANGED <<strong, guard>>
     \/ Becomes(t, "Done") /\ UNCHANGED <<strong, guard>>
     \/ Becomes(t, "Done") /\ \E g \in Guards \ guard : Clone /\ guard' = guard \cup {g}
  /\ UNCHANGED handle

\* The drop of an AcquireFutureArc: `arc` comes first ...
DropFutureArc(t) ==
  /\ future[t] # "none" /\ Goto(t, "idle", "drop")
  /\ Drop
  /\ UNCHANGED <<handle, future, guard>>

\* ... and then `inner`, which when it waits cancels its acquire or gives the
\* permits back, if it was not failed.
DropFutureInner(t) ==
  /\ \/ future[t] = "Waiting" /\ Goto(t, "drop", "cancel") /\ UNCHANGED future
     \/ Goto(t, "drop", "idle") /\ Becomes(t, "none")
  /\ UNCHANGED <<strong, handle, guard>>

CancelReturns(t) ==
  /\ Goto(t, "cancel", "idle") /\ Becomes(t, "none")
  /\ UNCHANGED <<strong, handle, guard>>

\* A mutant of DropGuard: the Arc is dropped before the call.
DropGuardArcFirst(t, g) ==
  /\ g \in guard /\ Goto(t, "idle", "release")
  /\ guard' = guard \ {g} /\ Drop
  /\ UNCHANGED <<handle, future>>

\* SemaphoreGuardArc::drop takes the Arc out of the guard, calls release or
\* poison, ...
DropGuard(t, g) ==
  /\ g \in guard /\ Goto(t, "idle", "release")
  /\ guard' = guard \ {g}
  /\ UNCHANGED <<strong, handle, future>>

\* ... and drops it when that has returned.
DropGuardReturns(t) ==
  /\ Goto(t, "release", "idle") /\ Drop
  /\ UNCHANGED <<handle, future, guard>>

\* A mutant of Forget: mem::forget of the guard forgets the Arc in it too.
ForgetLeaks(g) ==
  /\ g \in guard /\ guard' = guard \ {g}
  /\ UNCHANGED <<strong, handle, future, pc>>

\* forget sets the Arc to None; extend forgets its argument so.
Forget(g) ==
  /\ g \in guard /\ guard' = guard \ {g} /\ Drop
  /\ UNCHANGED <<handle, future, pc>>

\* split
Split(g, h) ==
  /\ g \in guard /\ h \notin guard
  /\ guard' = guard \cup {h} /\ Clone
  /\ UNCHANGED <<handle, future, pc>>

Step(t) ==
  \/ AcquireArc(t) \/ Call(t) \/ Return(t) \/ Poll(t) \/ PollReturns(t)
  \/ DropFutureArc(t) \/ DropFutureInner(t) \/ CancelReturns(t)
  \/ DropHandle(t) \/ DropGuardReturns(t)
  \/ \E u \in Tasks : Share(t, u)
  \/ \E g \in Guards : DropGuard(t, g)

Next ==
  \/ \E t \in Tasks : Step(t)
  \/ \E g \in Guards : Forget(g) \/ \E h \in Guards : Split(g, h)

Spec == Init /\ [][Next]_vars

-----------------------------------------------------------------------------
\* The clones that are somewhere.
Owners ==
  (handle \X {"handle"}) \cup (guard \X {"guard"})
    \cup {<<t, "future">> : t \in {u \in Tasks : future[u] # "none" /\ pc[u] \notin {"drop", "cancel"}}}
    \cup {<<t, "local">> : t \in {u \in Tasks : pc[u] = "release"}}

\* 'static (acquire.rs): no call is in the semaphore when the last Arc goes, and
\* none is made after that.
AliveInCalls == \A t \in Tasks : pc[t] \in InCall => strong > 0

\* The count is that of the Arcs that futures and guards have: a semaphore that
\* nobody has any more was freed, though forget() runs no destructor.
NoneLeaked == strong = Cardinality(Owners)

=============================================================================
