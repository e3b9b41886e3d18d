------------------------------- MODULE Permits -------------------------------
(***************************************************************************)
(* The counter type of the semaphore (src/src/state.rs, `Permits`).        *)
(*                                                                         *)
(* The code keeps a usize and calls every value above                      *)
(* Semaphore::MAX_AVAILABLE "poison"; nothing tells two such values apart, *)
(* because every reader goes through into_usize().  The model therefore    *)
(* keeps one poisoned value, just above MaxAvailable.                      *)
(***************************************************************************)
EXTENDS Integers, FiniteSets

CONSTANT MaxAvailable   \* Semaphore::MAX_AVAILABLE

ASSUME MaxAvailableAssumption == MaxAvailable \in Nat

POISON == MaxAvailable + 1

PermitCount == 0 .. POISON

\* A mutant of ToPermits: counts above MaxAvailable are not recognised.
ToPermitsUnclipped(n) == n

\* Permits::new followed by into_usize.
ToPermits(n) == IF n <= MaxAvailable THEN n ELSE POISON

\* A mutant of AddPermits: an addition that wraps instead of saturating.
AddPermitsWraps(p, q) == (p + q) % (POISON + 1)

\* A mutant of AddPermits: what was there is overwritten.
AddPermitsReplaces(p, q) == q

\* impl Add for Permits: saturating_add, so that poison absorbs every addition.
AddPermits(p, q) == ToPermits(p + q)

\* impl Sub for Permits: poison is left as it is.
SubPermits(p, n) == IF p = POISON THEN POISON ELSE p - n

\* A mutant of Satisfies: an off-by-one.
SatisfiesStrictly(p, n) == p = POISON \/ n < p

\* The test of try_pop: a poisoned release finishes every waiter, the others
\* only those whose amount is at most the permits in hand.
Satisfies(p, n) == p = POISON \/ n <= p

-----------------------------------------------------------------------------
\* The sum of n[x] over x in S, counted one by one.
Ones(n, S)  == UNION {{x} \X (1 .. n[x]) : x \in S}
SumOf(n, S) == Cardinality(Ones(n, S))

=============================================================================
