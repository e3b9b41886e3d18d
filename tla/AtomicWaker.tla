----------------------------- MODULE AtomicWaker -----------------------------
(***************************************************************************)
(* AtomicWaker (waker.rs): how the thread that polls and drops a future    *)
(* and the producer, the holder of the release lock that finishes it or    *)
(* accepts its cancellation, share a Waker that is kept in two words.      *)
(*                                                                         *)
(* Module Semaphore knows only the tag of the state; here each access to a *)
(* word is a step.  A weak exchange that fails spuriously leaves `current` *)
(* as it was and is a stuttering step.                                     *)
(***************************************************************************)
EXTENDS Integers

CONSTANTS
  MaxPolls,   \* Bound: polls of the future.
  SeqMod,     \* Sequence numbers that fit above the tag: 2^61 in the code.
  Null

\* A sequence number does not come round within the polls of one future.
ASSUME WakerAssumption ==
  MaxPolls \in Nat /\ SeqMod \in Nat /\ MaxPolls < SeqMod /\ Null \notin Int

\* Each poll clones a waker; the clone is named by the number of the poll.
Clones == 1 .. MaxPolls

VARIABLES
  word,       \* struct AtomicWaker: state, data, vtable, thread.
  future,     \* The future's thread: pc and the locals of poll and start_cancel.
  producer,   \* The producer: pc and the locals of finish and accept_cancel.
  token,      \* The park token of the future's thread.
  node,       \* The Waiter: "private", "queued", "cancelling" (on the stack), "freed".
  polls,      \* History: polls so far,
  consumed,   \* how often each clone was dropped or woken,
  stored,     \* the clone that was handed over last
  woken       \* and the one that was woken.

historyVars == <<polls, consumed, stored, woken>>
vars == <<word, future, producer, token, node, historyVars>>

Pending(s)  == [tag |-> "Pending", seq |-> s]
Storing(s)  == [tag |-> "Storing", seq |-> s]
Finished(p) == [tag |-> IF p THEN "Poisoned" ELSE "Finished", seq |-> 0]
Cancelling  == [tag |-> "Cancelling", seq |-> 0]
Cancelled   == [tag |-> "Cancelled", seq |-> 0]

Over(s) == s.tag \in {"Finished", "Poisoned"}

\* A mutant of NextSeq: the state carries no sequence number.
NextSeqNone(s) == s

NextSeq(s) == (s + 1) % SeqMod

Init ==
  /\ word = [state |-> Pending(0), data |-> Null, vtable |-> Null, thread |-> FALSE]
  /\ future = [pc |-> "idle", current |-> Pending(0), clone |-> Null, old |-> Null]
  /\ producer = [pc |-> "idle", current |-> Pending(0), data |-> Null, vtable |-> Null,
                 poisoned |-> FALSE, thread |-> FALSE]
  /\ token = FALSE
  /\ node = "private"
  /\ polls = 0
  /\ consumed = [c \in Clones |-> 0]
  /\ stored = Null
  /\ woken = Null

\* The clones in S are dropped, or the one in it woken.
Consume(S) == consumed' = [c \in Clones |-> IF c \in S THEN consumed[c] + 1 ELSE consumed[c]]

\* A mutant of StoredWaker: also drops what a finish did not leave behind.
StoredWakerAlways == {word.vtable} \ {Null}

\* What impl Drop for AtomicWaker drops: the waker, unless finish() came to it.
StoredWaker ==
  IF word.state.tag \in {"Pending", "Cancelled"} THEN {word.vtable} \ {Null} ELSE {}

\* The call returns with nothing left to wait for: from here on the client may
\* end the future, whose memory is the node's.  `local` is what the call owns.
FreeNode(local) ==
  /\ node' = "freed"
  /\ Consume(local \cup StoredWaker)
  /\ UNCHANGED <<word, producer, token, polls, stored, woken>>

\* The future's thread, at `from`, goes on to `to`; the action says what else changes.
FutureStep(from, to) ==
  /\ future.pc = from
  /\ future' = [future EXCEPT !.pc = to]
  /\ UNCHANGED <<producer, token, node>>

ProducerStep(from, to) ==
  /\ producer.pc = from
  /\ producer' = [producer EXCEPT !.pc = to]
  /\ UNCHANGED <<future, node>>

-----------------------------------------------------------------------------
(* AtomicWaker::poll *)

\* Clone the waker of the context and load the state.
PollBegin ==
  /\ future.pc = "idle" /\ node \in {"private", "queued"} /\ polls < MaxPolls
  /\ polls' = polls + 1
  /\ future' = [future EXCEPT !.pc = "claim", !.current = word.state, !.clone = polls + 1]
  /\ UNCHANGED <<word, producer, token, node, consumed, stored, woken>>

\* The exchange of Pending for Storing; it cannot fail for another sequence number.
PollClaim ==
  /\ future.pc = "claim" /\ future.current.tag = "Pending" /\ word.state = future.current
  /\ word' = [word EXCEPT !.state = Storing(future.current.seq)]
  /\ future' = [future EXCEPT !.pc = "data", !.current = Storing(future.current.seq)]
  /\ UNCHANGED <<producer, token, node, historyVars>>

\* A loop whose exchange failed goes round with the state that was found: the
\* two loops of poll and the loop of start_cancel.
FutureReload ==
  /\ future.pc \in {"claim", "seal", "cancel"} /\ ~Over(future.current)
  /\ word.state # future.current
  /\ future' = [future EXCEPT !.current = word.state]
  /\ UNCHANGED <<word, producer, token, node, historyVars>>

\* Load the old waker, store the new one and drop the old.
PollStoreData ==
  /\ future.pc = "data"
  /\ word' = [word EXCEPT !.data = future.clone]
  /\ future' = [future EXCEPT !.pc = "vtable", !.old = word.data]
  /\ UNCHANGED <<producer, token, node, historyVars>>

PollStoreVtable ==
  /\ FutureStep("vtable", "seal")
  /\ word' = [word EXCEPT !.vtable = future.clone]
  /\ IF word.vtable = Null THEN UNCHANGED consumed ELSE Consume({future.old})
  /\ UNCHANGED <<polls, stored, woken>>

\* A mutant of PollSeal: a store in place of the exchange.
PollSealBlind ==
  /\ future.pc = "seal" /\ future.current.tag = "Storing"
  /\ word' = [word EXCEPT !.state = Pending(NextSeq(future.current.seq))]
  /\ future' = [future EXCEPT !.pc = "idle", !.clone = Null]
  /\ stored' = future.clone
  /\ UNCHANGED <<producer, token, node, polls, consumed, woken>>

\* The exchange of Storing for Pending: the words own the clone from now on.
PollSeal ==
  /\ future.pc = "seal" /\ future.current.tag = "Storing" /\ word.state = future.current
  /\ word' = [word EXCEPT !.state = Pending(NextSeq(future.current.seq))]
  /\ future' = [future EXCEPT !.pc = "idle", !.clone = Null]
  /\ stored' = future.clone
  /\ UNCHANGED <<producer, token, node, polls, consumed, woken>>

\* poll_enter queues the node after a poll that stored a waker; it may find
\* permits instead when the exchange of `acquire` fails, and be done.
Enqueue ==
  /\ future.pc = "idle" /\ node = "private" /\ stored # Null
  /\ node' = "queued"
  /\ UNCHANGED <<word, future, producer, token, historyVars>>

EnterReady ==
  /\ future.pc = "idle" /\ node = "private" /\ stored # Null
  /\ FreeNode({})
  /\ UNCHANGED future

-----------------------------------------------------------------------------
(* AtomicWaker::start_cancel and wait_cancel, called by AcquireFuture::drop *)

\* A mutant of CancelBegin: the thread is not recorded.
CancelBeginNoThread ==
  /\ future.pc = "idle" /\ node = "queued"
  /\ future' = [future EXCEPT !.pc = "cancel", !.current = word.state]
  /\ UNCHANGED <<word, producer, token, node, historyVars>>

\* Record the thread to unpark and load the state.
CancelBegin ==
  /\ future.pc = "idle" /\ node = "queued"
  /\ word' = [word EXCEPT !.thread = TRUE]
  /\ future' = [future EXCEPT !.pc = "cancel", !.current = word.state]
  /\ UNCHANGED <<producer, token, node, historyVars>>

CancelExchange ==
  /\ FutureStep("cancel", "push")
  /\ future.current.tag = "Pending" /\ word.state = future.current
  /\ word' = [word EXCEPT !.state = Cancelling]
  /\ UNCHANGED historyVars

\* AcquireFuture::drop pushes the node on the cancellation stack.
Push ==
  /\ future.pc = "push"
  /\ future' = [future EXCEPT !.pc = "wait"]
  /\ node' = "cancelling"
  /\ UNCHANGED <<word, producer, token, historyVars>>

WaitPark ==
  /\ FutureStep("wait", "park") /\ word.state.tag = "Cancelling"
  /\ UNCHANGED <<word, historyVars>>

\* park() returns when it finds a token ...
Park ==
  /\ future.pc = "park" /\ token
  /\ token' = FALSE
  /\ future' = [future EXCEPT !.pc = "wait"]
  /\ UNCHANGED <<word, producer, node, historyVars>>

\* A mutant of ParkSpurious: wait_cancel parks once, without a loop.
ParkSpuriousTrusted ==
  /\ future.pc = "park"
  /\ future' = [future EXCEPT !.pc = "idle"]
  /\ FreeNode({})

\* ... and may return without one.
ParkSpurious == FutureStep("park", "wait") /\ UNCHANGED <<word, historyVars>>

\* The ends: poll returns Ready and drops its clone, which the words hold as
\* well after the first loop; start_cancel finds the future finished, so that
\* the drop only gives the permits back; wait_cancel sees the node unlinked.
FutureEnds ==
  /\ \/ future.pc \in {"claim", "seal", "cancel"} /\ Over(future.current)
     \/ future.pc = "wait" /\ word.state.tag = "Cancelled"
  /\ future' = [future EXCEPT !.pc = "idle", !.clone = Null]
  /\ FreeNode({future.clone} \ {Null})

-----------------------------------------------------------------------------
(* AtomicWaker::finish, called by try_pop on a node that is in the queue *)

FinishBegin(p) ==
  /\ producer.pc = "idle" /\ node \in {"queued", "cancelling"}
  /\ producer' = [producer EXCEPT !.pc = "finish", !.current = word.state, !.poisoned = p]
  /\ UNCHANGED <<word, future, token, node, historyVars>>

FinishReadData ==
  /\ producer.pc = "finish" /\ producer.current.tag = "Pending"
  /\ producer' = [producer EXCEPT !.pc = "read", !.data = word.data]
  /\ UNCHANGED <<word, future, token, node, historyVars>>

FinishReadVtable ==
  /\ producer.pc = "read"
  /\ producer' = [producer EXCEPT !.pc = "exchange", !.vtable = word.vtable]
  /\ UNCHANGED <<word, future, token, node, historyVars>>

\* The exchange, from Pending or, with no waker to wake, from Storing ...
FinishExchange ==
  /\ \/ ProducerStep("exchange", "wake")
     \/ ProducerStep("finish", "done") /\ producer.current.tag = "Storing"
  /\ word.state = producer.current
  /\ word' = [word EXCEPT !.state = Finished(producer.poisoned)]
  /\ UNCHANGED <<token, historyVars>>

\* ... fails: another turn of the loop.
FinishReload ==
  /\ \/ producer.pc = "exchange"
     \/ producer.pc = "finish" /\ producer.current.tag = "Storing"
  /\ word.state # producer.current
  /\ producer' = [producer EXCEPT !.pc = "finish", !.current = word.state]
  /\ UNCHANGED <<word, future, token, node, historyVars>>

\* The acquire is being cancelled: try_pop stops here.
FinishCancelling ==
  /\ ProducerStep("finish", "idle") /\ producer.current.tag = "Cancelling"
  /\ UNCHANGED <<word, token, historyVars>>

\* Waker::wake on the waker put together from the two words.
Wake ==
  /\ ProducerStep("wake", "done")
  /\ Consume({producer.vtable})
  /\ woken' = producer.data
  /\ UNCHANGED <<word, token, polls, stored>>

-----------------------------------------------------------------------------
(* AtomicWaker::accept_cancel, called on a node that is on the stack *)

AcceptTake ==
  /\ producer.pc = "idle" /\ node = "cancelling"
  /\ producer' = [producer EXCEPT !.pc = "accept", !.thread = word.thread]
  /\ word' = [word EXCEPT !.thread = FALSE]
  /\ UNCHANGED <<future, token, node, historyVars>>

\* A mutant of AcceptExchange: the thread is unparked before the exchange.
AcceptExchangeLate ==
  /\ \/ ProducerStep("accept", "late") /\ token' = TRUE /\ UNCHANGED word
     \/ ProducerStep("late", "done") /\ word' = [word EXCEPT !.state = Cancelled] /\ UNCHANGED token
  /\ UNCHANGED historyVars

\* Only the producer leaves Cancelling: this exchange fails spuriously at most.
AcceptExchange ==
  /\ ProducerStep("accept", "unpark") /\ word.state.tag = "Cancelling"
  /\ word' = [word EXCEPT !.state = Cancelled]
  /\ UNCHANGED <<token, historyVars>>

\* Thread::unpark leaves a token; the node may be gone by now.
AcceptUnpark ==
  /\ ProducerStep("unpark", "done") /\ producer.thread
  /\ token' = TRUE
  /\ UNCHANGED <<word, historyVars>>

-----------------------------------------------------------------------------
FutureContinue ==
  \/ PollClaim \/ FutureReload \/ PollStoreData \/ PollStoreVtable \/ PollSeal
  \/ CancelExchange \/ Push \/ WaitPark \/ Park \/ FutureEnds

ProducerContinue ==
  \/ FinishReadData \/ FinishReadVtable \/ FinishExchange \/ FinishReload \/ FinishCancelling
  \/ Wake \/ AcceptExchange \/ AcceptUnpark

Next ==
  \/ FutureContinue \/ ProducerContinue
  \/ PollBegin \/ Enqueue \/ EnterReady \/ CancelBegin \/ ParkSpurious
  \/ \E p \in BOOLEAN : FinishBegin(p)
  \/ AcceptTake

Spec == Init /\ [][Next]_vars

=============================================================================
