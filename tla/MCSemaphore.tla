----------------------------- MODULE MCSemaphore -----------------------------
(* Model-checking instances of Semaphore: see MCSemaphore*.cfg. *)
EXTENDS SemaphoreRefinement, TLC

Symmetry == Permutations(Tasks)

(* Bounds on what the tasks do at the same time, for the instances with three. *)

TwoCalls == Cardinality({t \in Tasks : pc[t] # "idle"}) <= 2

\* All three are inside calls only while no more than one of them cancels.
FewCancels == TwoCalls \/ Cardinality({t \in Tasks : InCancel(t)}) <= 1

\* A task gives its guard back before it acquires again, as the threads of
\* tests/lock.rs do.
OneGuardEach == \A t \in Tasks : held[t] > 0 => step[t] = "Done"

\* Three tasks that acquire one permit or all.  While nobody asks for more than one,
\* all of them can be queued, since the permits may be with one that waits itself;
\* otherwise who waits holds nothing and nobody cancels.
AllOrNothing == \A t \in Tasks : held[t] > 0 => step[t] = "Done" \/ held[t] = Initial

ThreeTasks ==
  \/ (\A t \in Tasks : amount[t] <= 1) /\ AllOrNothing /\ FewCancels
  \/ OneGuardEach /\ TwoCalls /\ \A t \in Tasks : ~InCancel(t)

=============================================================================
