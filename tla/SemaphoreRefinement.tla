------------------------- MODULE SemaphoreRefinement -------------------------
(***************************************************************************)
(* Semaphore implements SemaphoreSpec: its three words, its locals and its *)
(* lists are one counter and one queue.                                    *)
(***************************************************************************)
EXTENDS SemaphoreProperties

Count(p) == IF p = POISON THEN 0 ELSE p

InRelease == [t \in Tasks |-> Count(releasable[t])]

\* The permits that are free: published, left in the release lock, deferred to
\* its holder, or in the hands of a release.
Free == Count(acquire.permits) + Count(release.permits) + SumOf(InRelease, Tasks)

\* The members of S in the order that the sets of older members, older[t], tell.
InOrder(S, older) ==
  [i \in 1 .. Cardinality(S) |-> CHOOSE t \in S : Cardinality(older[t]) = i - 1]

Arrival == InOrder(Pending, ahead)

\* The poison is where every acquire will meet it.
Failing ==
  \/ acquire = Available(POISON)
  \/ /\ acquire.tag = "Queued"
     /\ release = Unlocked(POISON) \/ \E t \in Tasks : Owner(t) /\ releasable[t] = POISON

OutcomeOf(t) ==
  CASE t \in Pending                             -> "queued"
    [] waker[t] = "Finished"                     -> "Ok"
    [] waker[t] = "Poisoned"                     -> "Poisoned"
    [] OTHER                                     -> "none"

Outcomes == [t \in Tasks |-> OutcomeOf(t)]
Asked    == [t \in Tasks |-> IF OutcomeOf(t) = "none" THEN 0 ELSE amount[t]]

Abstract == [permits |-> Free, poisoned |-> Poisoned, failing |-> Failing,
             queue |-> Arrival, outcome |-> Outcomes, amount |-> Asked]

\* Counts above MAX_AVAILABLE are all alike, except for an acquire.
Contract == INSTANCE SemaphoreSpec WITH sem <- Abstract, Counts <- (0 .. POISON) \cup Amounts

\* However the words are exchanged and the lists are linked, each step of a call
\* is a step of a semaphore with one counter and one queue, or no step of it:
\* acquires are served oldest first, from permits that somebody gave, fail only
\* when it is poisoned, and never succeed again after one has failed.
ImplementsContract == Contract!Spec

\* "This will eventually wake any calls to acquire that can succeed" (release,
\* semaphore.rs), though threads do no more than finish the calls they are in:
\* the oldest acquire does not stay queued with enough permits free, in
\* whichever word or local they are.  It is what the clients may assume of Serve.
Servable(t) == t \in Pending /\ ahead[t] = {} /\ (Poisoned \/ amount[t] <= Free)

ServedWhenFree == \A t \in Tasks : Servable(t) ~> t \notin Pending

=============================================================================
