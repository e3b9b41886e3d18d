------------------------------- MODULE Clients -------------------------------
(***************************************************************************)
(* What stands on the semaphore: the lock and the pipe of the tests, the   *)
(* queues and the batches of the documentation, and the Arcs that a client *)
(* shares a semaphore by.  In each behaviour one of them is at work, and   *)
(* the others are over.                                                    *)
(***************************************************************************)
EXTENDS Permits, Sequences

CONSTANTS
  Threads, Iterations,                         \* tests/lock.rs
  Examples, Senders, Sizes, Messages,          \* the queues
  QueueCapacity,
  Readers, Writers,                            \* tests/pipe.rs
  Capacity, Writes, ReadSizes, WriteSizes,
  Sends, Receives,                             \* the batches
  Holders, Guards, KeepHandles                 \* the Arcs

VARIABLES
  lockSem, at, turn, vec,
  example, queueSem, channel, sender, receiver,
  ready, free, buffer, reader, writer, written, taken,
  batchSem, batch, batchSender, batchReceiver,
  strong, handle, future, guard, pc

Lock  == INSTANCE ReadWriteLock WITH sem <- lockSem
Queue == INSTANCE BoundedQueue WITH sem <- queueSem, Capacity <- QueueCapacity
Piped == INSTANCE Pipe
Batch == INSTANCE BatchQueue WITH
  sem <- batchSem, buffer <- batch, sender <- batchSender, receiver <- batchReceiver
Arcs  == INSTANCE ArcLifetime WITH Tasks <- Holders

Init ==
  \/ Lock!Init /\ Queue!Over /\ Piped!Over /\ Batch!Over /\ Arcs!Over
  \/ Lock!Over /\ Queue!Init /\ Piped!Over /\ Batch!Over /\ Arcs!Over
  \/ Lock!Over /\ Queue!Over /\ Piped!Init /\ Batch!Over /\ Arcs!Over
  \/ Lock!Over /\ Queue!Over /\ Piped!Over /\ Batch!Init /\ Arcs!Over
  \/ Lock!Over /\ Queue!Over /\ Piped!Over /\ Batch!Over /\ Arcs!Init

lockVars  == <<lockSem, at, turn, vec>>
queueVars == <<example, queueSem, channel, sender, receiver>>
pipeVars  == <<ready, free, buffer, reader, writer, written, taken>>
batchVars == <<batchSem, batch, batchSender, batchReceiver>>
arcVars   == <<strong, handle, future, guard, pc>>

Next ==
  \/ Lock!Next /\ UNCHANGED <<queueVars, pipeVars, batchVars, arcVars>>
  \/ Queue!Next /\ UNCHANGED <<lockVars, pipeVars, batchVars, arcVars>>
  \/ Piped!Next /\ UNCHANGED <<lockVars, queueVars, batchVars, arcVars>>
  \/ Batch!Next /\ UNCHANGED <<lockVars, queueVars, pipeVars, arcVars>>
  \/ Arcs!Next /\ UNCHANGED <<lockVars, queueVars, pipeVars, batchVars>>

vars == <<lockVars, queueVars, pipeVars, batchVars, arcVars>>

\* Threads are scheduled, the semaphores serve whom they can (ServedWhenFree), and
\* the random length of a read from the pipe is not for ever zero.
Fairness ==
  /\ WF_lockVars(Lock!Serve) /\ WF_queueVars(Queue!Serve) /\ WF_queueVars(Queue!ReceiverStep)
  /\ \A s \in Senders : WF_queueVars(Queue!SenderStep(s))
  /\ WF_pipeVars(Piped!ServeReady) /\ WF_pipeVars(Piped!ServeFree)
  /\ \A t \in Lock!Tasks : WF_lockVars(Lock!Step(t))
  /\ \A w \in Writers : WF_pipeVars(Piped!WriterStep(w))
  /\ \A r \in Readers :
       /\ WF_pipeVars(Piped!ReaderStep(r))
       /\ SF_pipeVars(Piped!BeginRead(r) /\ reader'[r].size > 0)

Spec == Init /\ [][Next]_vars /\ Fairness

-----------------------------------------------------------------------------
\* tests/lock.rs: a writer is alone, and is not starved by readers.
WriterExcludes == Lock!WriterExcludes
EveryoneWrites == Lock!EveryoneWrites

\* lib.rs, semaphore.rs: the queues stay within their bounds, and nobody waits
\* for ever to send.
Bounded     == Queue!Bounded
SendsReturn == Queue!SendsReturn

\* tests/pipe.rs: bytes and room are where the permits say, until the end.
ReadAssertion  == Piped!ReadAssertion
WithinCapacity == Piped!WithinCapacity
EverythingRead == Piped!EverythingRead

\* lib.rs: a batch is never short.
DrainInRange == Batch!DrainInRange

\* acquire.rs, guard.rs: no call outlives the semaphore, and it is freed.
AliveInCalls == Arcs!AliveInCalls
NoneLeaked   == Arcs!NoneLeaked

=============================================================================
