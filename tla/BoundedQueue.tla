---------------------------- MODULE BoundedQueue ----------------------------
(***************************************************************************)
(* The producer-consumer queues of the crate's documentation: an unbounded *)
(* channel whose length a semaphore limits.  `example` says which:         *)
(*   "size"    lib.rs: permits for the size of a string, in a guard that   *)
(*             travels with it and is dropped after parsing;               *)
(*   "guard"   acquire_arc: one permit, in a guard that travels;           *)
(*   "forget"  forget, release and poison: one permit, that the sender     *)
(*             forgets and the receiver gives back.                        *)
(* The semaphore is that of SemaphoreSpec, the channel that of the crate   *)
(* async-channel, as far as the examples use it.                           *)
(***************************************************************************)
EXTENDS Permits, Sequences

CONSTANTS
  Examples,
  Senders,
  Sizes,        \* The sizes of messages.
  Messages,     \* Bound: messages each sender sends.
  Capacity      \* The permits of the semaphore.

VARIABLES
  example,
  sem,
  channel,      \* [queue, closed]
  sender,       \* [at, size, left]: what a sender does, and messages left to send.
  receiver      \* [at, size]: "recv", "parsing" a message, "poison" or "end".

vars == <<example, sem, channel, sender, receiver>>

Semaphore == INSTANCE SemaphoreSpec WITH Tasks <- Senders, Counts <- 0 .. MaxAvailable

\* A mutant of Amount: the size of a message does not count.
AmountOne(size) == 1

\* What is acquired for a message; "size" has data.len().max(capacity).
Amount(size) ==
  IF example # "size" THEN 1 ELSE IF size > Capacity THEN size ELSE Capacity

Travels == example # "forget"

Init ==
  /\ example \in Examples
  /\ sem = Semaphore!New(Capacity)
  /\ channel = [queue |-> <<>>, closed |-> FALSE]
  /\ sender = [s \in Senders |-> [at |-> "next", size |-> 0, left |-> Messages]]
  /\ receiver = [at |-> "recv", size |-> 0]

\* A queue that was closed, and that nobody uses any more.
Over ==
  /\ example \in Examples
  /\ sem = Semaphore!New(Capacity)
  /\ channel = [queue |-> <<>>, closed |-> TRUE]
  /\ sender = [s \in Senders |-> [at |-> "next", size |-> 0, left |-> 0]]
  /\ receiver = [at |-> "end", size |-> 0]

Goto(s, label) == sender' = [sender EXCEPT ![s].at = label]

\* The next message; a sender drops its end of the channel after the last.
Produce(s) ==
  /\ sender[s].at = "next" /\ sender[s].left > 0
  /\ \E n \in IF example = "size" THEN Sizes ELSE {1} :
       sender' = [sender EXCEPT ![s] = [at |-> "acquire", size |-> n, left |-> @.left - 1]]
  /\ UNCHANGED <<example, sem, channel, receiver>>

\* acquire or acquire_arc: served at once, queued, or failed.
Acquire(s) ==
  /\ sender[s].at = "acquire" /\ sem.outcome[s] = "none"
  /\ \/ Semaphore!Take(Amount(sender[s].size)) /\ Goto(s, "send")
     \/ Semaphore!Enqueue(s, Amount(sender[s].size)) /\ UNCHANGED sender
     \/ sem.failing /\ Goto(s, "failed") /\ UNCHANGED sem
  /\ UNCHANGED <<example, channel, receiver>>

Resume(s) ==
  /\ Semaphore!Collect(s)
  /\ Goto(s, IF sem.outcome[s] = "Ok" THEN "send" ELSE "failed")
  /\ UNCHANGED <<example, channel, receiver>>

\* A mutant of Sent: the sender's guard is dropped.
SentReleased(n) == Semaphore!Give(n)

\* The message is in the channel: its guard with it, or forgotten.
Sent(n) == UNCHANGED sem

\* send().await on an unbounded channel; of a closed one the guard comes back
\* and is dropped.
Send(s) ==
  LET n == sender[s].size IN
  /\ sender[s].at = "send"
  /\ IF channel.closed
       THEN Semaphore!Give(Amount(n)) /\ Goto(s, "failed") /\ UNCHANGED channel
       ELSE /\ channel' = [channel EXCEPT !.queue = Append(@, n)]
            /\ Sent(Amount(n))
            /\ Goto(s, "next")
  /\ UNCHANGED <<example, receiver>>

\* A mutant of Received: the receiver keeps the permit.
ReceivedKept(n) == UNCHANGED sem

\* Semaphore::release, or the drop of the message's guard.
Received(n) == Semaphore!Give(Amount(n))

\* recv().await with a message; "forget" gives the permit back before it uses it.
Recv ==
  /\ receiver.at = "recv" /\ channel.queue # <<>>
  /\ receiver' = [at |-> "parsing", size |-> Head(channel.queue)]
  /\ channel' = [channel EXCEPT !.queue = Tail(@)]
  /\ IF Travels THEN UNCHANGED sem ELSE Received(Head(channel.queue))
  /\ UNCHANGED <<example, sender>>

Parsed ==
  /\ receiver.at = "parsing"
  /\ receiver' = [at |-> "recv", size |-> 0]
  /\ IF Travels THEN Received(receiver.size) ELSE UNCHANGED sem
  /\ UNCHANGED <<example, channel, sender>>

\* The channel is closed, at any time or because nobody sends any more.
Close ==
  /\ ~channel.closed
  /\ example = "size" => \A s \in Senders : sender[s].at = "next" /\ sender[s].left = 0
  /\ channel' = [channel EXCEPT !.closed = TRUE]
  /\ UNCHANGED <<example, sem, sender, receiver>>

\* recv() on a closed channel that is empty fails, and consume() poisons.
RecvFails ==
  /\ receiver.at = "recv" /\ channel.queue = <<>> /\ channel.closed
  /\ receiver' = [receiver EXCEPT !.at = "end"]
  /\ IF example = "forget" THEN Semaphore!PoisonAll ELSE UNCHANGED sem
  /\ UNCHANGED <<example, channel, sender>>

\* Permits of a poisoned semaphore, and the semaphore's own steps.
Swallow == Semaphore!Swallow /\ UNCHANGED <<example, channel, sender, receiver>>
Serve   == Semaphore!Serve /\ UNCHANGED <<example, channel, sender, receiver>>

SenderStep(s)  == Produce(s) \/ Acquire(s) \/ Resume(s) \/ Send(s)
ReceiverStep   == Recv \/ Parsed \/ RecvFails

Next == (\E s \in Senders : SenderStep(s)) \/ ReceiverStep \/ Close \/ Serve \/ Swallow

Spec == Init /\ [][Next]_vars

\* Threads are scheduled, and the semaphore serves whom it can (ServedWhenFree);
\* nobody has to close the channel.
Fairness == WF_vars(Serve) /\ WF_vars(ReceiverStep) /\ \A s \in Senders : WF_vars(SenderStep(s))

FairSpec == Spec /\ Fairness

-----------------------------------------------------------------------------
\* "The total size of strings in queue and being parsed will not exceed 10" (the
\* capacity, lib.rs); "only guards elements in the queue, not those being
\* processed after the queue" (release).
Bounded ==
  IF example = "size"
    THEN SumOf(channel.queue, DOMAIN channel.queue) + receiver.size <= Capacity
    ELSE Len(channel.queue) <= Capacity

\* "A semaphore can be poisoned to prevent deadlock when a channel closes": every
\* send returns, if no message is larger than the capacity.  Of one that is, lib.rs
\* says "Don't deadlock if data.len() exceeds capacity" (see OversizedMessage.cfg).
SendsReturn == \A s \in Senders : sender[s].at = "acquire" ~> sender[s].at \in {"next", "failed"}

=============================================================================
