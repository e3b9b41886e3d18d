----------------------------- MODULE BatchQueue -----------------------------
(***************************************************************************)
(* The batch example of lib.rs: a semaphore signals how many bytes are in  *)
(* a buffer, and is poisoned when no more will arrive.  The semaphore is   *)
(* that of SemaphoreSpec; a section under the mutex is a step.             *)
(***************************************************************************)
EXTENDS Naturals, Sequences

CONSTANTS
  Sends, Receives,   \* The lengths of the two loops, both 100 in the example, so
                     \* that enough is sent: 3 * Sends >= 2 * Receives.
  MaxAvailable       \* Semaphore::MAX_AVAILABLE

VARIABLES
  sem,
  buffer,     \* How many bytes are in it.
  sender,     \* [at, left]: "extend", "release", or "end".
  receiver    \* [at, left]: "acquire", "drain", or "end".

vars == <<sem, buffer, sender, receiver>>

Semaphore == INSTANCE SemaphoreSpec WITH Tasks <- {"receiver"}, Counts <- 0 .. MaxAvailable

Init ==
  /\ sem = Semaphore!New(0)
  /\ buffer = 0
  /\ sender = [at |-> "extend", left |-> Sends]
  /\ receiver = [at |-> "acquire", left |-> Receives]

\* An example that has ended.
Over ==
  /\ sem = Semaphore!New(0)
  /\ buffer = 0
  /\ sender = [at |-> "end", left |-> 0]
  /\ receiver = [at |-> "acquire", left |-> 0]

\* A mutant of Extend: the permits are released before the bytes are there.
ExtendLate ==
  \/ /\ sender.at = "extend" /\ sender.left > 0 /\ Semaphore!Give(3)
     /\ sender' = [sender EXCEPT !.at = "late"] /\ UNCHANGED <<buffer, receiver>>
  \/ /\ sender.at = "late" /\ buffer' = buffer + 3
     /\ sender' = [at |-> "extend", left |-> sender.left - 1] /\ UNCHANGED <<sem, receiver>>

Extend ==
  /\ sender.at = "extend" /\ sender.left > 0
  /\ buffer' = buffer + 3
  /\ sender' = [sender EXCEPT !.at = "release"]
  /\ UNCHANGED <<sem, receiver>>

Release ==
  /\ sender.at = "release"
  /\ Semaphore!Give(3)
  /\ sender' = [at |-> "extend", left |-> sender.left - 1]
  /\ UNCHANGED <<buffer, receiver>>

Poison ==
  /\ sender.at = "extend" /\ sender.left = 0
  /\ Semaphore!PoisonAll
  /\ sender' = [sender EXCEPT !.at = "end"]
  /\ UNCHANGED <<buffer, receiver>>

\* A guard is forgotten; an error is no reason to stop.
Acquire ==
  LET drain == receiver' = [receiver EXCEPT !.at = "drain"] IN
  /\ receiver.at = "acquire" /\ receiver.left > 0
  /\ \/ /\ sem.outcome["receiver"] = "none"
        /\ \/ Semaphore!Take(2) /\ drain
           \/ Semaphore!Enqueue("receiver", 2) /\ UNCHANGED receiver
           \/ sem.failing /\ drain /\ UNCHANGED sem
     \/ Semaphore!Collect("receiver") /\ drain
  /\ UNCHANGED <<buffer, sender>>

\* drain(0..2), which takes two bytes or panics: a batch is never short.
Drain ==
  /\ receiver.at = "drain" /\ buffer >= 2
  /\ buffer' = buffer - 2
  /\ receiver' = [at |-> "acquire", left |-> receiver.left - 1]
  /\ UNCHANGED <<sem, sender>>

Serve   == Semaphore!Serve /\ UNCHANGED <<buffer, sender, receiver>>
Swallow == Semaphore!Swallow /\ UNCHANGED <<buffer, sender, receiver>>

Next == Extend \/ Release \/ Poison \/ Acquire \/ Drain \/ Serve \/ Swallow

Spec == Init /\ [][Next]_vars

-----------------------------------------------------------------------------
\* drain(0..2) finds two bytes: those the permits were for, or, after an error,
\* what is left when all was sent; no poison comes ahead of bytes.
DrainInRange == receiver.at = "drain" => buffer >= 2

=============================================================================
