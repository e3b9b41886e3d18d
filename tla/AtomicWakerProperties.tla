------------------------ MODULE AtomicWakerProperties ------------------------
(***************************************************************************)
(* What module AtomicWaker must satisfy.                                   *)
(***************************************************************************)
EXTENDS AtomicWaker

NoClone    == Clones \cup {Null}
Tag        == {"Pending", "Storing", "Finished", "Poisoned", "Cancelling", "Cancelled"}
WakerState == [tag: Tag, seq: Nat]
FuturePC   == {"idle", "claim", "data", "vtable", "seal", "cancel", "push", "wait", "park"}
ProducerPC == {"idle", "finish", "read", "exchange", "wake", "accept", "unpark", "done"}

WordType   == [state: WakerState, data: NoClone, vtable: NoClone, thread: BOOLEAN]
FutureType == [pc: FuturePC, current: WakerState, clone: NoClone, old: NoClone]
ProducerType ==
  [pc: ProducerPC, current: WakerState, data: NoClone, vtable: NoClone,
   poisoned: BOOLEAN, thread: BOOLEAN]

TypeOK ==
  /\ word \in WordType
  /\ future \in FutureType
  /\ producer \in ProducerType
  /\ token \in BOOLEAN
  /\ node \in {"private", "queued", "cancelling", "freed"}
  /\ polls \in 0 .. MaxPolls
  /\ consumed \in [Clones -> Nat]
  /\ stored \in NoClone /\ woken \in NoClone

-----------------------------------------------------------------------------
\* A waker is put together only from two words that belong together: the one
\* finish() wakes although its loads race the stores of polls, and the old one
\* that poll() drops.
NoTornWaker ==
  /\ producer.pc = "wake" => producer.data = producer.vtable /\ producer.vtable # Null
  /\ future.pc = "vtable" => future.old = word.vtable

\* The clones somebody still has to wake or drop: the polling thread its own,
\* the words theirs until a finish takes it (a poll that has claimed the words
\* drops the old one itself), and finish() the one it is about to wake.
Owned ==
  ({future.clone}
   \cup (IF node # "freed" /\ (~Over(word.state) \/ future.pc \in {"data", "vtable"})
         THEN {word.vtable} ELSE {})
   \cup (IF producer.pc = "wake" THEN {producer.vtable} ELSE {})) \ {Null}

\* No waker is leaked, none dropped or woken twice: each clone made so far has
\* an owner or was consumed exactly once, however finish, polls and the drop
\* interleave.
ConsumedOnce == \A c \in Clones : consumed[c] = IF c \in (1 .. polls) \ Owned THEN 1 ELSE 0

\* A future that waits after the finish had its latest waker woken, not one that
\* an earlier poll left.
LatestWoken ==
  producer.pc = "done" /\ future.pc = "idle" /\ node = "queued" => Over(word.state) /\ woken = stored

\* Once the future's thread may free the node, the producer reads and writes it
\* no more: what is left for it is in its locals.
NodeNotTouched ==
  node = "freed" => producer.pc \notin {"finish", "read", "exchange", "accept"}

\* No unreachable!, panic! or unwrap of waker.rs can be reached, on either thread.
NoUnreachable ==
  /\ future.pc \in {"claim", "cancel"} => future.current.tag = "Pending" \/ Over(future.current)
  /\ future.pc = "seal" => future.current.tag = "Storing" \/ Over(future.current)
  /\ future.pc = "wait" => word.state.tag \in {"Cancelling", "Cancelled"}
  /\ producer.pc = "finish" => producer.current.tag \in {"Pending", "Storing", "Cancelling"}
  /\ producer.pc = "accept" => word.state.tag = "Cancelling" /\ producer.thread
  /\ node = "freed" => word.state.tag \notin {"Storing", "Cancelling"}

\* The state, for one who does not look into the words.
TagSeen == CASE node = "private" -> "Entering" [] node = "freed" -> "Ended" [] OTHER -> word.state.tag

\* What Semaphore takes a waker for: the loads and stores of the two words and of
\* the sequence number are steps of a tag, and the waker that is woken is the
\* latest, whether the node still exists or not.
Tagged == INSTANCE WakerSpec WITH
  Polls  <- Clones,
  waker  <- TagSeen,
  due    <- producer.pc = "wake",
  latest <- stored

ImplementsWaker == Tagged!Spec

-----------------------------------------------------------------------------
(* What makes these inductive *)

Reading   == producer.pc \in {"finish", "read", "exchange"}
InPoll    == future.pc \in {"claim", "data", "vtable", "seal"}
Sequenced(s) == s.tag \in {"Pending", "Storing"}

\* Where the future's thread is, what it last saw, and the tag of the state.
FutureControl ==
  /\ future.pc \in {"claim", "cancel"} =>
       \/ word.state = future.current /\ word.state.tag = "Pending"
       \/ Over(word.state) /\ (future.current.tag = "Pending" \/ Over(future.current))
  /\ future.pc \in {"data", "vtable", "seal"} =>
       \/ word.state = future.current /\ word.state.tag = "Storing"
       \/ /\ Over(word.state)
          /\ future.current.tag = "Storing" \/ (future.pc = "seal" /\ Over(future.current))
  /\ future.pc = "push" => word.state.tag = "Cancelling"
  /\ future.pc \in {"wait", "park"} => word.state.tag \in {"Cancelling", "Cancelled"}
  /\ future.pc = "idle" /\ node # "freed" => word.state.tag = "Pending" \/ Over(word.state)
  /\ future.pc \in {"cancel", "push"} => node = "queued"
  /\ InPoll => node \in {"private", "queued"} /\ future.clone # Null
  /\ future.pc \in {"wait", "park"} <=> node = "cancelling"
  /\ node = "freed" => future.pc = "idle" /\ word.state.tag \notin {"Storing", "Cancelling"}

\* Where the producer is, the tag of the state and the thread to unpark.
ProducerControl ==
  /\ producer.pc \in {"idle", "finish", "read", "exchange", "accept"} =>
       ~Over(word.state) /\ word.state.tag # "Cancelled"
  /\ Reading => node \in {"queued", "cancelling"}
  /\ producer.pc = "accept" => node = "cancelling" /\ word.state.tag = "Cancelling"
  /\ producer.pc \in {"accept", "unpark"} => producer.thread
  /\ producer.pc = "wake" => Over(word.state)
  /\ producer.pc = "unpark" => word.state.tag = "Cancelled"
  /\ producer.pc = "done" => Over(word.state) \/ word.state.tag = "Cancelled"
  /\ node = "private" => producer.pc = "idle"
  /\ word.state.tag = "Cancelling" \/ future.pc \in {"cancel", "push"} =>
       word.thread \/ producer.pc \in {"accept", "wake", "done"}

\* The sequence number counts the polls that stored a waker and never falls
\* behind what the producer saw: while it is still what the producer saw, so
\* are the words.
Sequence ==
  /\ Sequenced(word.state) =>
       word.state.seq <= polls /\ (InPoll => word.state.seq < polls)
  /\ Reading => /\ producer.current.tag \in {"Pending", "Storing", "Cancelling"}
                /\ producer.pc # "finish" => producer.current.tag = "Pending"
                /\ Sequenced(word.state) /\ Sequenced(producer.current) =>
                     producer.current.seq <= word.state.seq
                /\ producer.pc # "finish" /\ word.state = producer.current =>
                     /\ producer.data = word.data
                     /\ producer.pc = "exchange" => producer.vtable = word.vtable

\* The words hold one waker except while a poll replaces it, and then the poll
\* has both halves of the old one and of the new one.
Words ==
  /\ future.pc # "vtable" => word.data = word.vtable
  /\ future.pc = "vtable" => future.old = word.vtable /\ word.data = future.clone
  /\ future.pc = "seal" => word.vtable = future.clone
  /\ stored # Null => word.vtable # Null
  /\ node \in {"queued", "cancelling"} => stored # Null
  /\ word.state.tag = "Pending" => stored = word.vtable
  /\ producer.pc = "wake" =>
       producer.vtable # Null /\ producer.data = producer.vtable /\ producer.data = stored
  /\ producer.pc = "done" /\ Over(word.state) =>
       woken = stored \/ future.pc \in {"data", "vtable", "seal"} \/ node = "freed"

\* A poll's clone is not the one in the words until it is stored there, and the
\* one that finish() took out is still in them.
Fresh ==
  /\ IF InPoll THEN future.clone = polls /\ polls > 0 ELSE future.clone = Null
  /\ word.vtable # Null => word.vtable <= polls
  /\ future.pc \in {"claim", "data", "vtable"} => word.vtable # future.clone
  /\ producer.pc = "wake" =>
       producer.vtable = word.vtable /\ future.pc \notin {"data", "vtable", "seal"}

\* The clone that was stored last is older than that of a poll that has yet to
\* store its own; it is what ImplementsWaker needs beyond WakerInv.
StoredOlder == stored # Null => stored <= polls /\ (InPoll => stored < polls)

WakerInv == TypeOK /\ FutureControl /\ ProducerControl /\ Sequence /\ Words /\ Fresh

-----------------------------------------------------------------------------
\* A thread inside a call is scheduled again and again, and the holder of the
\* release lock, which may try to finish the node any number of times before,
\* gets to the stack the node is on (CancelAccepted of SemaphoreProperties).
FairSpec ==
  /\ Spec
  /\ WF_vars(FutureContinue)
  /\ WF_vars(ProducerContinue)
  /\ SF_vars(AcceptTake)

\* A drop ends, whether the finish or the cancellation comes first, and wherever
\* between the load and the park the unpark comes.
DropReturns == future.pc = "cancel" ~> node = "freed"

=============================================================================
