-------------------------------- MODULE Guard --------------------------------
(***************************************************************************)
(* SemaphoreGuard and SemaphoreGuardArc (guard.rs): amounts of permits     *)
(* that are split, combined, forgotten and dropped by threads that may     *)
(* panic.                                                                  *)
(* The two types differ in what keeps the semaphore alive (ArcLifetime);   *)
(* guards are sent between threads, as SemaphoreGuardArc is made for.      *)
(*                                                                         *)
(* A semaphore is its counter: the calls of a guard are atomic here, and   *)
(* which word a permit is in is the matter of module Semaphore.            *)
(***************************************************************************)
EXTENDS Permits

CONSTANTS
  Semaphores, Threads,
  Guards,       \* The places for guards.
  NoGuard,
  Initial,      \* The permits of each semaphore at first.
  UsizeMax,     \* usize::MAX
  Amounts,      \* Arguments of acquire,
  Constructed,  \* ... of SemaphoreGuard::new
  Splits,       \* ... and of split.
  MaxSupply     \* Bound: permits ever in circulation, of all semaphores.

ASSUME GuardAssumption ==
  /\ Initial \in 0 .. MaxAvailable /\ UsizeMax \in Nat
  /\ UsizeMax + 1 = 8 * (MaxAvailable + 1)   \* MAX_AVAILABLE has three bits less.
  /\ Amounts \cup Constructed \cup Splits \subseteq 0 .. UsizeMax
  /\ IsFiniteSet(Guards)

\* struct SemaphoreGuard, and the thread that has it.
GuardRecord ==
  [semaphore: Semaphores, amount: 0 .. UsizeMax, panicking: BOOLEAN, owner: Threads]

ASSUME NoGuardAssumption == NoGuard \notin GuardRecord

VARIABLES
  counter,      \* The permits of a semaphore.
  guard,        \* A GuardRecord or NoGuard.
  thread,       \* "running", "panicking" (unwinding), or "dead".
  supply,       \* History: initial permits, and those of SemaphoreGuard::new.
  forgotten,    \* History: permits returned by forget() to the client.
  panicked,     \* History: semaphores with a guard that a panic dropped.
  mismatch      \* History: the semaphores of the guards that a thread tried to combine.

vars == <<counter, guard, thread, supply, forgotten, panicked, mismatch>>

Init ==
  /\ counter = [s \in Semaphores |-> Initial]
  /\ guard = [g \in Guards |-> NoGuard]
  /\ thread = [t \in Threads |-> "running"]
  /\ supply = [s \in Semaphores |-> Initial]
  /\ forgotten = [s \in Semaphores |-> 0]
  /\ panicked = {}
  /\ mismatch = [t \in Threads |-> {}]

Live == {g \in Guards : guard[g] # NoGuard}

Owned(t) == {g \in Live : guard[g].owner = t}

\* SemaphoreGuard::new, called by t; u is who gets the guard.
NewGuard(t, u, s, n) ==
  [semaphore |-> s, amount |-> n, panicking |-> thread[t] = "panicking", owner |-> u]

Put(g, t, u, s, n) ==
  /\ guard[g] = NoGuard /\ thread[t] # "dead" /\ thread[u] # "dead"
  /\ guard' = [guard EXCEPT ![g] = NewGuard(t, u, s, n)]

\* An acquire that succeeds, in the program or in a destructor.
Acquire(g, t, u, s, n) ==
  /\ counter[s] # POISON /\ n <= counter[s]
  /\ counter' = [counter EXCEPT ![s] = @ - n]
  /\ Put(g, t, u, s, n)
  /\ UNCHANGED <<thread, supply, forgotten, panicked, mismatch>>

\* The constructor is public: a guard of permits that nobody acquired.
Construct(g, t, u, s, n) ==
  /\ SumOf(supply, Semaphores) + n <= MaxSupply
  /\ supply' = [supply EXCEPT ![s] = @ + n]
  /\ Put(g, t, u, s, n)
  /\ UNCHANGED <<counter, thread, forgotten, panicked, mismatch>>

\* forget
Forget(g) ==
  LET s == guard[g].semaphore IN
  /\ g \in Live /\ thread[guard[g].owner] = "running"
  /\ forgotten' = [forgotten EXCEPT ![s] = @ + guard[g].amount]
  /\ guard' = [guard EXCEPT ![g] = NoGuard]
  /\ UNCHANGED <<counter, thread, supply, panicked, mismatch>>

\* A mutant of Without: the guard that is split keeps all it had.
WithoutNothing(r, n) == r

Without(r, n) == [r EXCEPT !.amount = @ - n]

\* split; an underflow changes nothing.
Split(g, h, n) ==
  /\ g \in Live /\ h \notin Live /\ thread[guard[g].owner] = "running"
  /\ guard[g].amount >= n
  /\ guard' = [guard EXCEPT ![g] = Without(@, n), ![h] = [guard[g] EXCEPT !.amount = n]]
  /\ UNCHANGED <<counter, thread, supply, forgotten, panicked, mismatch>>

\* A mutant of SaturatingAdd: a plain addition of numbers that need not fit.
SaturatingAddWide(m, n) == m + n

\* saturating_add of usize
SaturatingAdd(m, n) == IF m + n > UsizeMax THEN UsizeMax ELSE m + n

\* extend, of guards that one thread has.
Extend(g, h) ==
  /\ g \in Live /\ h \in Live \ {g} /\ guard[g].owner = guard[h].owner
  /\ thread[guard[g].owner] = "running"
  /\ guard[g].semaphore = guard[h].semaphore
  /\ guard' = [guard EXCEPT ![g].amount = SaturatingAdd(@, guard[h].amount), ![h] = NoGuard]
  /\ UNCHANGED <<counter, thread, supply, forgotten, panicked, mismatch>>

\* A mutant of Poisons: the flag of the guard is taken the wrong way round.
PoisonsFlag(r, p) == r.panicking /\ p

\* Whether the drop of a guard poisons, p telling if its thread panics.
Poisons(r, p) == ~r.panicking /\ p

\* drop, p as above.
DropGuard(g, p) ==
  LET s == guard[g].semaphore IN
  /\ counter' = [counter EXCEPT ![s] = IF Poisons(guard[g], p) THEN POISON
                                       ELSE AddPermits(@, ToPermits(guard[g].amount))]
  /\ panicked' = IF p THEN panicked \cup {s} ELSE panicked
  /\ guard' = [guard EXCEPT ![g] = NoGuard]
  /\ UNCHANGED <<supply, forgotten>>

Drop(g) ==
  /\ g \in Live
  /\ DropGuard(g, thread[guard[g].owner] = "panicking")
  /\ UNCHANGED <<thread, mismatch>>

\* extend, of guards of two semaphores: the assertion fails, and unwinding
\* begins with the drop of the argument.
ExtendMismatch(g, h) ==
  LET t == guard[g].owner IN
  /\ g \in Live /\ h \in Live /\ guard[h].owner = t
  /\ thread[t] = "running"
  /\ guard[g].semaphore # guard[h].semaphore
  /\ thread' = [thread EXCEPT ![t] = "panicking"]
  /\ mismatch' = [mismatch EXCEPT ![t] = {guard[k].semaphore :
                                            k \in {j \in {g, h} : ~guard[j].panicking}}]
  /\ DropGuard(h, TRUE)

\* Any other panic of the program.
Panic(t) ==
  /\ thread[t] = "running"
  /\ thread' = [thread EXCEPT ![t] = "panicking"]
  /\ UNCHANGED <<counter, guard, supply, forgotten, panicked, mismatch>>

\* Unwinding has dropped everything on the thread's stack.
Unwound(t) ==
  /\ thread[t] = "panicking" /\ Owned(t) = {}
  /\ thread' = [thread EXCEPT ![t] = "dead"]
  /\ UNCHANGED <<counter, guard, supply, forgotten, panicked, mismatch>>

Next ==
  \/ \E g \in Guards, t, u \in Threads, s \in Semaphores :
       \/ \E n \in Amounts : Acquire(g, t, u, s, n)
       \/ \E n \in Constructed : Construct(g, t, u, s, n)
  \/ \E g \in Guards : Forget(g) \/ Drop(g)
  \/ \E g, h \in Guards : ExtendMismatch(g, h) \/ Extend(g, h) \/ \E n \in Splits : Split(g, h, n)
  \/ \E t \in Threads : Panic(t) \/ Unwound(t)

Spec == Init /\ [][Next]_vars

-----------------------------------------------------------------------------
TypeOK ==
  /\ counter \in [Semaphores -> PermitCount]
  /\ guard \in [Guards -> {NoGuard} \cup GuardRecord]
  /\ thread \in [Threads -> {"running", "panicking", "dead"}]
  /\ supply \in [Semaphores -> Nat] /\ forgotten \in [Semaphores -> Nat]
  /\ panicked \subseteq Semaphores /\ mismatch \in [Threads -> SUBSET Semaphores]

\* The permits of semaphore s in each place for a guard.
InGuards(s) ==
  [g \in Guards |-> IF g \in Live /\ guard[g].semaphore = s THEN guard[g].amount ELSE 0]

Total(s) == counter[s] + forgotten[s] + SumOf(InGuards(s), Guards)

\* split, extend and forget neither make up nor lose a permit, as long as what
\* was ever in circulation fits a usize, and a sum that does not makes up none;
\* a semaphore is poisoned only by a panic or by too many permits.
Conserved ==
  \A s \in Semaphores :
    IF counter[s] = POISON THEN s \in panicked \/ supply[s] > MaxAvailable
    ELSE /\ Total(s) <= supply[s]
         /\ supply[s] <= UsizeMax => Total(s) = supply[s]

\* To "combine guards from different semaphores should poison both"
\* (unit.rs), once the panic is over; unless a guard stems from another panic.
MismatchPoisons ==
  \A t \in Threads : thread[t] = "dead" => \A s \in mismatch[t] : counter[s] = POISON

=============================================================================
