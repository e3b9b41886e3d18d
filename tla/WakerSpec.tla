------------------------------ MODULE WakerSpec ------------------------------
(***************************************************************************)
(* A waker as module Semaphore uses it: a tag that changes in single steps *)
(* and a wake that reaches whoever polled last.  AtomicWaker implements it *)
(* (ImplementsWaker of AtomicWakerProperties).                             *)
(***************************************************************************)
CONSTANTS Polls, Null

VARIABLES
  waker,    \* "Entering" until the node is queued, a tag, or "Ended".
  due,      \* A finish has yet to wake.
  latest,   \* The poll whose waker was stored last.
  woken     \* The poll whose waker was woken.

vars == <<waker, due, latest, woken>>

Init == waker = "Entering" /\ due = FALSE /\ latest = Null /\ woken = Null

Become(from, to) == waker = from /\ waker' = to

\* poll_enter polls and pushes the node, or has permits at once.
Enter ==
  \/ waker = "Entering" /\ latest' \in Polls \ {latest} /\ UNCHANGED <<waker, due, woken>>
  \/ Become("Entering", "Pending") /\ latest # Null /\ UNCHANGED <<due, latest, woken>>
  \/ Become("Entering", "Ended") /\ UNCHANGED <<due, latest, woken>>

\* The two exchanges of a poll (PollStore and PollStored of Semaphore).
Store  == Become("Pending", "Storing") /\ UNCHANGED <<due, latest, woken>>
Stored == Become("Storing", "Pending") /\ latest' \in Polls \ {latest} /\ UNCHANGED <<due, woken>>

\* finish: a wake is due, unless a poll is in progress.
Finish ==
  /\ waker \in {"Pending", "Storing"} /\ waker' \in {"Finished", "Poisoned"}
  /\ due' = (waker = "Pending")
  /\ UNCHANGED <<latest, woken>>

\* The node may be gone by now.
Wake == due /\ due' = FALSE /\ woken' = latest /\ UNCHANGED <<waker, latest>>

StartCancel  == Become("Pending", "Cancelling") /\ UNCHANGED <<due, latest, woken>>
AcceptCancel == Become("Cancelling", "Cancelled") /\ UNCHANGED <<due, latest, woken>>

\* A poll returns Ready, or a drop returns.
End ==
  /\ \E tag \in {"Finished", "Poisoned", "Cancelled"} : Become(tag, "Ended")
  /\ UNCHANGED <<due, latest, woken>>

Next == Enter \/ Store \/ Stored \/ Finish \/ Wake \/ StartCancel \/ AcceptCancel \/ End

Spec == Init /\ [][Next]_vars

=============================================================================
