-------------------------------- MODULE Pipe --------------------------------
(***************************************************************************)
(* The bounded pipe of tests/pipe.rs: a buffer behind a mutex, a semaphore *)
(* `ready` that counts the bytes in it and a semaphore `free` that counts  *)
(* the room.  The last Writer poisons `ready` when it is dropped, the last *)
(* Reader `free`.  The threads are those of its test, except that a Reader *)
(* may have been cloned, as a Writer is.  A byte is a byte.                *)
(***************************************************************************)
EXTENDS Naturals, Sequences
LOCAL INSTANCE FiniteSetsExt

CONSTANTS
  Readers, Writers,
  Capacity,
  Writes,        \* How often each writer writes.
  ReadSizes, WriteSizes,
  MaxAvailable   \* Semaphore::MAX_AVAILABLE

VARIABLES
  ready, free,
  buffer,        \* How many bytes are in it.
  reader,        \* [at, size]: where a reader is, "none" if it was not cloned,
                 \* and buf.len() or what it read.
  writer,        \* [at, size, left]
  written, taken \* History: bytes put into the buffer, and taken out.

vars == <<ready, free, buffer, reader, writer, written, taken>>

Counts == 0 .. MaxAvailable
Ready == INSTANCE SemaphoreSpec WITH sem <- ready, Tasks <- Readers
Free  == INSTANCE SemaphoreSpec WITH sem <- free, Tasks <- Writers

Init ==
  /\ ready = Ready!New(0)
  /\ free = Free!New(Capacity)
  /\ buffer = 0
  /\ \E R \in SUBSET Readers :
       /\ R # {}
       /\ reader = [r \in Readers |-> [at |-> IF r \in R THEN "next" ELSE "none", size |-> 0]]
  /\ writer = [w \in Writers |-> [at |-> "next", size |-> 0, left |-> Writes]]
  /\ written = 0 /\ taken = 0

\* A pipe whose threads have ended.
Over ==
  /\ ready = Ready!New(0)
  /\ free = Free!New(Capacity)
  /\ buffer = 0
  /\ reader = [r \in Readers |-> [at |-> "end", size |-> 0]]
  /\ writer = [w \in Writers |-> [at |-> "end", size |-> 0, left |-> 0]]
  /\ written = 0 /\ taken = 0

ReaderGoes(r, label) == reader' = [reader EXCEPT ![r].at = label]
WriterGoes(w, label) == writer' = [writer EXCEPT ![w].at = label]

-----------------------------------------------------------------------------
(* Reader::read_exact, in the loop of the test *)

BeginRead(r) ==
  /\ reader[r].at = "next"
  /\ \E n \in ReadSizes : reader' = [reader EXCEPT ![r] = [at |-> "acquire", size |-> n]]
  /\ UNCHANGED <<ready, free, buffer, writer, written, taken>>

AcquireReady(r) ==
  /\ reader[r].at = "acquire"
  /\ \/ /\ ready.outcome[r] = "none"
        /\ \/ Ready!Take(reader[r].size) /\ ReaderGoes(r, "read")
           \/ Ready!Enqueue(r, reader[r].size) /\ UNCHANGED reader
           \/ ready.failing /\ ReaderGoes(r, "drain") /\ UNCHANGED ready
     \/ /\ Ready!Collect(r)
        /\ ReaderGoes(r, IF ready.outcome[r] = "Ok" THEN "read" ELSE "drain")
  /\ UNCHANGED <<free, buffer, writer, written, taken>>

\* With the mutex, n bytes are taken, of the buf.len() that were asked for.
TakeBytes(r, n) ==
  /\ buffer' = buffer - n
  /\ taken' = taken + n
  /\ reader' = [reader EXCEPT ![r] =
                  [at |-> IF n = reader[r].size THEN "release" ELSE "release_end", size |-> n]]
  /\ UNCHANGED <<ready, free, writer, written>>

\* The permits are forgotten and as many bytes popped.
Read(r) == reader[r].at = "read" /\ reader[r].size <= buffer /\ TakeBytes(r, reader[r].size)

\* On a poisoned pipe, what is left.
Drain(r) ==
  reader[r].at = "drain" /\ TakeBytes(r, IF buffer < reader[r].size THEN buffer ELSE reader[r].size)

\* A mutant of GiveRoom: room is made for one byte.
GiveRoomOne(n) == Free!Give(1)

GiveRoom(n) == Free!Give(n)

\* free.release(total); the loop ends with a short read.
ReleaseFree(r) ==
  /\ reader[r].at \in {"release", "release_end"}
  /\ GiveRoom(reader[r].size)
  /\ ReaderGoes(r, IF reader[r].at = "release" THEN "next" ELSE "drop")
  /\ UNCHANGED <<ready, buffer, writer, written, taken>>

\* ReaderInner is dropped with the last Reader.
DropReader(r) ==
  /\ reader[r].at = "drop"
  /\ IF \A q \in Readers \ {r} : reader[q].at \in {"none", "end"}
       THEN Free!PoisonAll
       ELSE UNCHANGED free
  /\ ReaderGoes(r, "end")
  /\ UNCHANGED <<ready, buffer, writer, written, taken>>

-----------------------------------------------------------------------------
(* Writer::write_all, in the loop of the test *)

BeginWrite(w) ==
  /\ writer[w].at = "next" /\ writer[w].left > 0
  /\ \E n \in WriteSizes :
       writer' = [writer EXCEPT ![w] = [at |-> "acquire", size |-> n, left |-> @.left - 1]]
  /\ UNCHANGED <<ready, free, buffer, reader, written, taken>>

\* On PoisonError the test's unwrap panics, and the Writer is dropped.
AcquireFree(w) ==
  /\ writer[w].at = "acquire"
  /\ \/ /\ free.outcome[w] = "none"
        /\ \/ Free!Take(writer[w].size) /\ WriterGoes(w, "write")
           \/ Free!Enqueue(w, writer[w].size) /\ UNCHANGED writer
           \/ free.failing /\ WriterGoes(w, "drop") /\ UNCHANGED free
     \/ /\ Free!Collect(w)
        /\ WriterGoes(w, IF free.outcome[w] = "Ok" THEN "write" ELSE "drop")
  /\ UNCHANGED <<ready, buffer, reader, written, taken>>

\* A mutant of Write: the bytes are announced before they are in the buffer.
WriteLate(w) ==
  \/ /\ writer[w].at = "write" /\ WriterGoes(w, "late")
     /\ Ready!Give(writer[w].size)
     /\ UNCHANGED <<free, buffer, reader, written, taken>>
  \/ /\ writer[w].at = "late" /\ WriterGoes(w, "next")
     /\ buffer' = buffer + writer[w].size /\ written' = written + writer[w].size
     /\ UNCHANGED <<ready, free, reader, taken>>

\* The permits are forgotten and, with the mutex, the buffer extended.
Write(w) ==
  /\ writer[w].at = "write" /\ WriterGoes(w, "release")
  /\ buffer' = buffer + writer[w].size
  /\ written' = written + writer[w].size
  /\ UNCHANGED <<ready, free, reader, taken>>

ReleaseReady(w) ==
  /\ writer[w].at = "release" /\ WriterGoes(w, "next")
  /\ Ready!Give(writer[w].size)
  /\ UNCHANGED <<free, buffer, reader, written, taken>>

\* A mutant of LastWriter: the first Writer that is dropped poisons.
LastWriterAny(w) == TRUE

LastWriter(w) == \A v \in Writers \ {w} : writer[v].at = "end"

\* WriterInner is dropped with the last Writer.
DropWriter(w) ==
  /\ writer[w].at = "drop" \/ (writer[w].at = "next" /\ writer[w].left = 0)
  /\ IF LastWriter(w) THEN Ready!PoisonAll ELSE UNCHANGED ready
  /\ WriterGoes(w, "end")
  /\ UNCHANGED <<free, buffer, reader, written, taken>>

-----------------------------------------------------------------------------
\* The semaphores' own steps.
ServeReady == Ready!Serve /\ UNCHANGED <<free, buffer, reader, writer, written, taken>>
ServeFree  == Free!Serve /\ UNCHANGED <<ready, buffer, reader, writer, written, taken>>

Swallow ==
  \/ Ready!Swallow /\ UNCHANGED <<free, buffer, reader, writer, written, taken>>
  \/ Free!Swallow /\ UNCHANGED <<ready, buffer, reader, writer, written, taken>>

ReaderStep(r) ==
  BeginRead(r) \/ AcquireReady(r) \/ Read(r) \/ Drain(r) \/ ReleaseFree(r) \/ DropReader(r)

WriterStep(w) ==
  BeginWrite(w) \/ AcquireFree(w) \/ Write(w) \/ ReleaseReady(w) \/ DropWriter(w)

Next ==
  \/ \E r \in Readers : ReaderStep(r)
  \/ \E w \in Writers : WriterStep(w)
  \/ ServeReady \/ ServeFree \/ Swallow

Spec == Init /\ [][Next]_vars

-----------------------------------------------------------------------------
OneReader == \A q, r \in Readers : reader[q].at # "none" /\ reader[r].at # "none" => q = r

\* The assertion of read_exact, "buf.len() <= lock.len()": the bytes a reader has
\* permits for are in the buffer, even if other readers come to it first.  Once an
\* acquire has failed for the poison it is so only of a reader that is alone, for
\* the readers that are failed take bytes without permits.
ReadAssertion ==
  OneReader \/ ~ready.failing =>
    \A r \in Readers : reader[r].at = "read" => reader[r].size <= buffer

\* The buffer does not outgrow what it was allocated for, though the room is
\* counted apart from the bytes.
WithinCapacity == buffer <= Capacity

\* The end of the test, which has one reader: all lines that were written are read,
\* which takes the poison of `ready` to come neither too early nor never.
EverythingRead ==
  OneReader =>
  <>[](/\ \A r \in Readers : reader[r].at \in {"none", "end"}
       /\ \A w \in Writers : writer[w].at = "end" /\ writer[w].left = 0
       /\ taken = written)

=============================================================================
