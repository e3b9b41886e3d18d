---------------------------- MODULE ClientProofs ----------------------------
(***************************************************************************)
(* What stands on the semaphore, for any number of threads, messages and   *)
(* permits: the lock and the pipe of the tests, the queues and batches of  *)
(* the documentation, and the Arcs that a client shares a semaphore by.    *)
(* The semaphore of each client is that of SemaphoreSpec, which            *)
(* SemaphoreRefinementProofs shows the code to implement.                  *)
(***************************************************************************)
EXTENDS Clients, PermitsProofs

USE MaxAvailableAssumption

-----------------------------------------------------------------------------
(* The state of a SemaphoreSpec *)

Outcome == {"none", "queued", "Ok", "Poisoned"}

SemRecord(T) ==
  [permits: Nat, poisoned: BOOLEAN, failing: BOOLEAN, queue: Seq(T),
   amount: [T -> Nat], outcome: [T -> Outcome]]

\* Who is in the queue is there once and has no outcome yet; acquires only fail
\* on a poisoned semaphore, and then all of them do.
QueueOK(s, T) ==
  /\ s \in SemRecord(T)
  /\ \A i \in 1 .. Len(s.queue) : s.outcome[s.queue[i]] = "queued"
  /\ \A i, j \in 1 .. Len(s.queue) : s.queue[i] = s.queue[j] => i = j
  /\ s.failing => s.poisoned
  /\ \A t \in T : s.outcome[t] = "Poisoned" => s.failing

\* The steps of SemaphoreSpec as relations of its states, for one lemma each that
\* serves all clients.
Takes(s, z, n) == ~s.failing /\ n <= s.permits /\ z = [s EXCEPT !.permits = @ - n]

Gives(s, z, n) ==
  z = IF n <= MaxAvailable THEN [s EXCEPT !.permits = @ + n] ELSE [s EXCEPT !.poisoned = TRUE]

Swallows(s, z) ==
  \E p \in 0 .. s.permits, f \in {s.failing, TRUE} :
    z = [s EXCEPT !.poisoned = TRUE, !.permits = p, !.failing = f]

Enqueues(s, z, t, n) ==
  /\ s.outcome[t] = "none"
  /\ \E f \in {s.failing, s.poisoned} :
       z = [s EXCEPT !.queue = Append(@, t), !.outcome[t] = "queued", !.amount[t] = n, !.failing = f]

Grants(s, z, t) ==
  /\ s.queue # <<>> /\ Head(s.queue) = t /\ ~s.failing /\ s.amount[t] <= s.permits
  /\ z = [s EXCEPT !.permits = @ - s.amount[t], !.queue = Tail(@), !.outcome[t] = "Ok"]

Fails(s, z, t) ==
  /\ s.queue # <<>> /\ Head(s.queue) = t /\ s.poisoned
  /\ z = [s EXCEPT !.queue = Tail(@), !.outcome[t] = "Poisoned", !.failing = TRUE]

Collects(s, z, t) ==
  s.outcome[t] \in {"Ok", "Poisoned"} /\ z = [s EXCEPT !.outcome[t] = "none", !.amount[t] = 0]

\* The acquires of all tasks but t are as they were.
SameBut(s, z, T, t) ==
  \A u \in T \ {t} : z.outcome[u] = s.outcome[u] /\ z.amount[u] = s.amount[u]

\* The parts of a semaphore.
LEMMA SemFields ==
  ASSUME NEW T, NEW s \in SemRecord(T)
  PROVE  /\ s.permits \in Nat /\ s.poisoned \in BOOLEAN /\ s.failing \in BOOLEAN
         /\ s.queue \in Seq(T) /\ s.amount \in [T -> Nat] /\ s.outcome \in [T -> Outcome]
BY DEF SemRecord

\* A semaphore whose queue and acquires are those of another.
LEMMA SameQueue ==
  ASSUME NEW T, NEW s, QueueOK(s, T), NEW z \in SemRecord(T),
         z.queue = s.queue, z.outcome = s.outcome,
         s.failing => z.failing, z.failing => z.poisoned
  PROVE  QueueOK(z, T)
BY DEF QueueOK

\* The oldest acquire leaves the queue with an outcome.
LEMMA Served ==
  ASSUME NEW T, NEW s, QueueOK(s, T), s.queue # <<>>, NEW t, t = Head(s.queue),
         NEW z \in SemRecord(T), z.outcome[t] = "Ok" \/ z.failing, z.outcome[t] # "none",
         z.queue = Tail(s.queue), SameBut(s, z, T, t),
         s.failing => z.failing, z.failing => z.poisoned
  PROVE  t \in T /\ s.outcome[t] = "queued" /\ QueueOK(z, T)
<1> DEFINE q == z.queue
           r == s.queue
<1>1. /\ s \in SemRecord(T) /\ r \in Seq(T) /\ s.outcome \in [T -> Outcome]
      /\ r # <<>> /\ t = Head(r) /\ q = Tail(r)
  BY SemFields DEF QueueOK
<1> HIDE DEF q, r
<1>2. /\ Len(r) \in Nat /\ Len(r) > 0 /\ t = r[1] /\ t \in T
      /\ q \in Seq(T) /\ Len(q) = Len(r) - 1
  <2>1. Len(r) \in Nat /\ Len(r) > 0 /\ q \in Seq(T) /\ Len(q) = Len(r) - 1
    BY <1>1
  <2>2. t = r[1]
    BY <1>1
  <2>3. r[1] \in T
    BY <1>1, <2>1
  <2> QED  BY <2>1, <2>2, <2>3
<1>3. \A i \in 1 .. Len(q) : q[i] = r[i + 1] /\ i + 1 \in 1 .. Len(r)
  BY <1>1, <1>2
<1>4. 1 \in 1 .. Len(r)
  BY <1>2
<1>5. /\ \A i, j \in 1 .. Len(r) : r[i] = r[j] => i = j
      /\ \A i \in 1 .. Len(r) : r[i] \in T /\ s.outcome[r[i]] = "queued"
  BY <1>1 DEF QueueOK, r
<1>6. ASSUME NEW i \in 1 .. Len(q)
      PROVE  q[i] # t /\ q[i] \in T /\ s.outcome[q[i]] = "queued"
  <2>1. q[i] = r[i + 1] /\ i + 1 \in 1 .. Len(r)
    BY <1>3
  <2>2. i + 1 # 1
    BY <1>2
  <2>3. r[i + 1] # r[1]
    BY <1>4, <1>5, <2>1, <2>2
  <2> QED  BY <1>2, <1>5, <2>1, <2>3
<1>7. \A i, j \in 1 .. Len(q) : q[i] = q[j] => i = j
  BY <1>2, <1>3, <1>5
<1>8. \A i \in 1 .. Len(q) : z.outcome[q[i]] = "queued"
  BY <1>6 DEF SameBut
<1>9. \A u \in T : z.outcome[u] = "Poisoned" => z.failing
  BY DEF QueueOK, SameBut
<1>10. QueueOK(z, T)
  BY <1>7, <1>8, <1>9 DEF QueueOK, q
<1> QED  BY <1>2, <1>4, <1>5, <1>10

\* Take: the queue is as it was,
LEMMA Taken ==
  ASSUME NEW T, NEW s, NEW z, QueueOK(s, T), NEW n \in Nat, Takes(s, z, n)
  PROVE  /\ QueueOK(z, T) /\ z.permits \in Nat /\ z.permits + n = s.permits
         /\ z.poisoned = s.poisoned /\ z.failing = s.failing
         /\ z.amount = s.amount /\ z.outcome = s.outcome
<1>1. s \in SemRecord(T) /\ (s.failing => s.poisoned) /\ s.permits \in Nat
  BY SemFields DEF QueueOK
<1> DEFINE p == s.permits - n
<1>2. p \in Nat /\ p + n = s.permits /\ z = [s EXCEPT !.permits = p]
  BY <1>1 DEF Takes
<1> HIDE DEF p
<1>3. /\ z \in SemRecord(T) /\ z.permits = p /\ z.poisoned = s.poisoned /\ z.failing = s.failing
      /\ z.queue = s.queue /\ z.amount = s.amount /\ z.outcome = s.outcome
  BY <1>1, <1>2 DEF SemRecord
<1>4. QueueOK(z, T)
  BY <1>1, <1>3, SameQueue
<1> QED  BY <1>2, <1>3, <1>4

\* ... as it is by Give, which poisons if it is too much,
LEMMA Given ==
  ASSUME NEW T, NEW s, NEW z, QueueOK(s, T), NEW n \in Nat, Gives(s, z, n)
  PROVE  /\ QueueOK(z, T) /\ z.failing = s.failing /\ (s.poisoned => z.poisoned)
         /\ z.permits \in Nat /\ z.permits <= s.permits + n
         /\ n <= MaxAvailable => z.permits = s.permits + n /\ z.poisoned = s.poisoned
         /\ z.amount = s.amount /\ z.outcome = s.outcome
<1>1. /\ s \in SemRecord(T) /\ (s.failing => s.poisoned) /\ s.permits \in Nat
      /\ s.poisoned \in BOOLEAN
  BY SemFields DEF QueueOK
<1> DEFINE p == IF n <= MaxAvailable THEN s.permits + n ELSE s.permits
           b == IF n <= MaxAvailable THEN s.poisoned ELSE TRUE
<1>2. p \in Nat /\ p <= s.permits + n /\ (n <= MaxAvailable => p = s.permits + n)
  BY <1>1
<1>3. b \in BOOLEAN /\ (s.poisoned => b) /\ (n <= MaxAvailable => b = s.poisoned)
  BY <1>1, Zenon
<1>4. z = [s EXCEPT !.permits = p, !.poisoned = b]
  BY <1>1 DEF Gives, SemRecord
<1> HIDE DEF p, b
<1>5. /\ z \in SemRecord(T) /\ z.permits = p /\ z.poisoned = b /\ z.failing = s.failing
      /\ z.queue = s.queue /\ z.amount = s.amount /\ z.outcome = s.outcome
  BY <1>1, <1>2, <1>4, <1>3 DEF SemRecord
<1>6. QueueOK(z, T)
  BY <1>1, <1>5, <1>3, SameQueue
<1> QED  BY <1>2, <1>5, <1>6, <1>3

\* ... by PoisonAll,
LEMMA PoisonedAll ==
  ASSUME NEW T, NEW s, NEW z, QueueOK(s, T), z = [s EXCEPT !.poisoned = TRUE]
  PROVE  /\ QueueOK(z, T) /\ z.permits = s.permits /\ z.poisoned /\ z.failing = s.failing
         /\ z.amount = s.amount /\ z.outcome = s.outcome
<1>1. s \in SemRecord(T)
  BY DEF QueueOK
<1>2. /\ z \in SemRecord(T) /\ z.permits = s.permits /\ z.poisoned = TRUE
      /\ z.failing = s.failing
      /\ z.queue = s.queue /\ z.amount = s.amount /\ z.outcome = s.outcome
  BY <1>1 DEF SemRecord
<1>3. QueueOK(z, T)
  BY <1>2, SameQueue
<1> QED  BY <1>2, <1>3

\* ... and by Swallow.
LEMMA Swallowed ==
  ASSUME NEW T, NEW s, NEW z, QueueOK(s, T), Swallows(s, z)
  PROVE  /\ QueueOK(z, T) /\ z.permits \in Nat /\ z.permits <= s.permits /\ z.poisoned
         /\ (s.failing => z.failing)
         /\ z.amount = s.amount /\ z.outcome = s.outcome
<1>1. s \in SemRecord(T) /\ s.failing \in BOOLEAN /\ s.permits \in Nat
  BY SemFields DEF QueueOK
<1>2. PICK p \in 0 .. s.permits, f \in {s.failing, TRUE} :
        z = [s EXCEPT !.poisoned = TRUE, !.permits = p, !.failing = f]
  BY DEF Swallows
<1>3. p \in Nat /\ p <= s.permits
  BY <1>1
<1>4. f \in BOOLEAN /\ (s.failing => f)
  BY <1>1
<1>5. /\ z \in SemRecord(T) /\ z.permits = p /\ z.poisoned = TRUE /\ z.failing = f
      /\ z.queue = s.queue /\ z.amount = s.amount /\ z.outcome = s.outcome
  BY <1>1, <1>2, <1>3, <1>4 DEF SemRecord
<1>6. QueueOK(z, T)
  BY <1>4, <1>5, SameQueue
<1> QED  BY <1>3, <1>4, <1>5, <1>6

\* Enqueue: an acquire goes to the back of the queue.
LEMMA Enqueued ==
  ASSUME NEW T, NEW s, NEW z, QueueOK(s, T), NEW t \in T, NEW n \in Nat, Enqueues(s, z, t, n)
  PROVE  /\ QueueOK(z, T) /\ z.permits = s.permits /\ z.poisoned = s.poisoned
         /\ (s.failing => z.failing)
         /\ s.outcome[t] = "none" /\ z.outcome[t] = "queued" /\ z.amount[t] = n
         /\ SameBut(s, z, T, t)
<1>1. /\ s \in SemRecord(T) /\ s.queue \in Seq(T) /\ s.outcome \in [T -> Outcome]
      /\ s.amount \in [T -> Nat] /\ s.failing \in BOOLEAN /\ s.poisoned \in BOOLEAN
      /\ (s.failing => s.poisoned) /\ s.outcome[t] = "none"
  BY SemFields DEF QueueOK, Enqueues
<1>2. PICK f \in {s.failing, s.poisoned} :
        z = [s EXCEPT !.queue = Append(@, t), !.outcome[t] = "queued", !.amount[t] = n,
                      !.failing = f]
  BY DEF Enqueues
<1> DEFINE r == s.queue
           q == Append(r, t)
           a == [s.amount EXCEPT ![t] = n]
           o == [s.outcome EXCEPT ![t] = "queued"]
<1>3. q \in Seq(T) /\ a \in [T -> Nat] /\ o \in [T -> Outcome]
  BY <1>1 DEF Outcome
<1>4. f \in BOOLEAN /\ (s.failing => f) /\ (f => s.poisoned)
  BY <1>1
<1>5. z = [s EXCEPT !.queue = q, !.outcome = o, !.amount = a, !.failing = f]
  BY <1>1, <1>2 DEF SemRecord
<1>6. /\ Len(q) = Len(r) + 1 /\ q[Len(r) + 1] = t /\ Len(r) \in Nat
      /\ \A i \in 1 .. Len(r) : q[i] = r[i]
  BY <1>1
<1>7. /\ \A i \in 1 .. Len(r) : r[i] \in T /\ s.outcome[r[i]] = "queued" /\ r[i] # t
      /\ \A i, j \in 1 .. Len(r) : r[i] = r[j] => i = j
  BY <1>1 DEF QueueOK
<1>8. /\ o[t] = "queued" /\ a[t] = n
      /\ \A u \in T \ {t} : o[u] = s.outcome[u] /\ a[u] = s.amount[u]
  BY <1>1
<1> HIDE DEF r, q, a, o
<1>9. \A i \in 1 .. Len(q) : o[q[i]] = "queued"
  BY <1>6, <1>7, <1>8
<1>10. \A i, j \in 1 .. Len(q) : q[i] = q[j] => i = j
  BY <1>6, <1>7
<1>11. \A u \in T : o[u] = "Poisoned" => f
  BY <1>4, <1>8 DEF QueueOK
<1>12. /\ z \in SemRecord(T) /\ z.permits = s.permits /\ z.poisoned = s.poisoned /\ z.failing = f
       /\ z.queue = q /\ z.amount = a /\ z.outcome = o
  BY <1>1, <1>3, <1>4, <1>5 DEF SemRecord
<1>13. QueueOK(z, T)
  BY <1>4, <1>9, <1>10, <1>11, <1>12 DEF QueueOK
<1> QED  BY <1>1, <1>4, <1>8, <1>12, <1>13 DEF SameBut

\* Grant: the oldest acquire gets its permits,
LEMMA Granted ==
  ASSUME NEW T, NEW s, NEW z, QueueOK(s, T), NEW t, Grants(s, z, t)
  PROVE  /\ t \in T /\ s.outcome[t] = "queued" /\ ~s.failing /\ QueueOK(z, T)
         /\ z.permits \in Nat /\ z.permits + s.amount[t] = s.permits
         /\ z.poisoned = s.poisoned /\ z.failing = s.failing
         /\ z.amount[t] = s.amount[t] /\ z.outcome[t] = "Ok" /\ SameBut(s, z, T, t)
<1>1. /\ s \in SemRecord(T) /\ s.permits \in Nat /\ s.queue \in Seq(T) /\ s.amount \in [T -> Nat]
      /\ s.outcome \in [T -> Outcome] /\ (s.failing => s.poisoned)
      /\ s.queue # <<>> /\ t = Head(s.queue) /\ ~s.failing /\ s.amount[t] <= s.permits
  BY SemFields DEF QueueOK, Grants
<1> DEFINE p == s.permits - s.amount[t]
           q == Tail(s.queue)
           o == [s.outcome EXCEPT ![t] = "Ok"]
<1>2. /\ t \in T /\ p \in Nat /\ p + s.amount[t] = s.permits
      /\ q \in Seq(T) /\ o \in [T -> Outcome]
      /\ o[t] = "Ok" /\ \A u \in T \ {t} : o[u] = s.outcome[u]
  BY <1>1 DEF Outcome
<1>3. z = [s EXCEPT !.permits = p, !.queue = q, !.outcome = o]
  BY <1>1 DEF SemRecord, Grants
<1>4. q = Tail(s.queue)
  OBVIOUS
<1> HIDE DEF p, q, o
<1>5. /\ z \in SemRecord(T) /\ z.permits = p /\ z.poisoned = s.poisoned /\ z.failing = s.failing
      /\ z.queue = q /\ z.amount = s.amount /\ z.outcome = o
  BY <1>1, <1>2, <1>3 DEF SemRecord
<1>6. SameBut(s, z, T, t) /\ z.outcome[t] = "Ok"
  BY <1>2, <1>5 DEF SameBut
<1>7. s.outcome[t] = "queued" /\ QueueOK(z, T)
  BY <1>1, <1>4, <1>5, <1>6, Served
<1> QED  BY <1>1, <1>2, <1>5, <1>6, <1>7

\* ... or Fail: none.
LEMMA Failed ==
  ASSUME NEW T, NEW s, NEW z, QueueOK(s, T), NEW t, Fails(s, z, t)
  PROVE  /\ t \in T /\ s.outcome[t] = "queued" /\ s.poisoned /\ QueueOK(z, T)
         /\ z.permits = s.permits /\ z.poisoned = s.poisoned /\ z.failing
         /\ z.amount[t] = s.amount[t] /\ z.outcome[t] = "Poisoned" /\ SameBut(s, z, T, t)
<1>1. /\ s \in SemRecord(T) /\ s.queue \in Seq(T) /\ s.outcome \in [T -> Outcome]
      /\ s.queue # <<>> /\ t = Head(s.queue) /\ s.poisoned
  BY SemFields DEF QueueOK, Fails
<1> DEFINE q == Tail(s.queue)
           o == [s.outcome EXCEPT ![t] = "Poisoned"]
<1>2. /\ t \in T /\ q \in Seq(T) /\ o \in [T -> Outcome]
      /\ o[t] = "Poisoned" /\ \A u \in T \ {t} : o[u] = s.outcome[u]
  BY <1>1 DEF Outcome
<1>3. z = [s EXCEPT !.queue = q, !.outcome = o, !.failing = TRUE]
  BY <1>1 DEF SemRecord, Fails
<1>4. q = Tail(s.queue)
  OBVIOUS
<1> HIDE DEF q, o
<1>5. /\ z \in SemRecord(T) /\ z.permits = s.permits /\ z.poisoned = s.poisoned /\ z.failing = TRUE
      /\ z.queue = q /\ z.amount = s.amount /\ z.outcome = o
  BY <1>1, <1>2, <1>3 DEF SemRecord
<1>6. SameBut(s, z, T, t) /\ z.outcome[t] = "Poisoned"
  BY <1>2, <1>5 DEF SameBut
<1>7. s.outcome[t] = "queued" /\ QueueOK(z, T)
  <2>1. z.failing /\ z.poisoned
    BY <1>1, <1>5
  <2> QED  BY <1>1, <1>4, <1>5, <1>6, <2>1, Served
<1> QED  BY <1>1, <1>2, <1>5, <1>6, <1>7

\* Collect: an outcome is seen.
LEMMA Collected ==
  ASSUME NEW T, NEW s, NEW z, QueueOK(s, T), NEW t \in T, Collects(s, z, t)
  PROVE  /\ s.outcome[t] \in {"Ok", "Poisoned"} /\ QueueOK(z, T)
         /\ z.permits = s.permits /\ z.poisoned = s.poisoned /\ z.failing = s.failing
         /\ z.outcome[t] = "none" /\ SameBut(s, z, T, t)
<1>1. /\ s \in SemRecord(T) /\ s.queue \in Seq(T) /\ s.outcome \in [T -> Outcome]
      /\ s.amount \in [T -> Nat] /\ s.outcome[t] \in {"Ok", "Poisoned"}
  BY SemFields DEF QueueOK, Collects
<1> DEFINE a == [s.amount EXCEPT ![t] = 0]
           o == [s.outcome EXCEPT ![t] = "none"]
<1>2. /\ a \in [T -> Nat] /\ o \in [T -> Outcome] /\ o[t] = "none"
      /\ \A u \in T \ {t} : o[u] = s.outcome[u] /\ a[u] = s.amount[u]
  BY <1>1 DEF Outcome
<1>3. z = [s EXCEPT !.outcome = o, !.amount = a]
  BY <1>1 DEF SemRecord, Collects
<1>4. \A i \in 1 .. Len(s.queue) : o[s.queue[i]] = "queued"
  BY <1>1 DEF QueueOK
<1>5. \A u \in T : o[u] = "Poisoned" => s.failing
  BY <1>1 DEF QueueOK
<1> HIDE DEF a, o
<1>6. /\ z \in SemRecord(T) /\ z.permits = s.permits /\ z.poisoned = s.poisoned
      /\ z.failing = s.failing /\ z.queue = s.queue /\ z.amount = a /\ z.outcome = o
  BY <1>1, <1>2, <1>3 DEF SemRecord
<1>7. QueueOK(z, T)
  BY <1>4, <1>5, <1>6 DEF QueueOK
<1> QED  BY <1>1, <1>2, <1>6, <1>7 DEF SameBut

\* A step that makes a semaphore fail, where an acquire was under way, took no permits.
LEMMA FailingKeeps ==
  ASSUME NEW T, NEW s, NEW z, QueueOK(s, T), NEW t \in T, NEW n \in Nat,
         Takes(s, z, n) \/ Enqueues(s, z, t, n) \/ Collects(s, z, t) \/ z = s,
         ~s.failing, z.failing
  PROVE  z.permits = s.permits
<1>q. /\ s \in SemRecord(T) /\ s.permits \in Nat /\ s.failing \in BOOLEAN
      /\ s.outcome \in [T -> Outcome] /\ s.amount \in [T -> Nat]
  BY SemFields DEF QueueOK
<1>1. CASE Takes(s, z, n)
  <2>1. z.failing = s.failing
    BY <1>1, <1>q DEF Takes, SemRecord
  <2> QED  BY <2>1
<1>2. CASE Enqueues(s, z, t, n)
  BY <1>2, <1>q DEF Enqueues, SemRecord
<1>3. CASE Collects(s, z, t)
  BY <1>3, <1>q DEF Collects, SemRecord
<1> QED  BY <1>1, <1>2, <1>3

-----------------------------------------------------------------------------
(* Tasks that acquire in a loop: u[t] has the place t is `at`, and the `size` it *)
(* acquires, holds or gives there.                                           *)

\* A task has an acquire in the semaphore only at "acquire", and for its size.
Uses(s, T, u) ==
  /\ QueueOK(s, T)
  /\ \A t \in T : u[t].size \in Nat
  /\ \A t \in T : s.outcome[t] # "none" => u[t].at = "acquire" /\ s.amount[t] = u[t].size

\* The permits that tasks hold at `place` or when they are served, the size of what
\* they have at some places, and all permits of a semaphore.
Holds(s, T, u, place) ==
  [t \in T |-> IF s.outcome[t] = "Ok" \/ u[t].at = place THEN u[t].size ELSE 0]

Has(T, u, places) == [t \in T |-> IF u[t].at \in places THEN u[t].size ELSE 0]

Held(s, T, u, place) == SumOf(Holds(s, T, u, place), T)

All(s, T, u, place) == s.permits + Held(s, T, u, place)

\* t goes on to a place, with what it has.
Goes(T, u, v, t, place) ==
  v[t].at = place /\ v[t].size = u[t].size /\ \A x \in T \ {t} : v[x] = u[x]

\* What the loops of the clients do where they acquire: go on to `place` with
\* their permits, or to `failed`.
Acquires(s, z, T, u, v, t, place, failed) ==
  /\ u[t].at = "acquire"
  /\ \/ s.outcome[t] = "none" /\ Takes(s, z, u[t].size) /\ Goes(T, u, v, t, place)
     \/ Enqueues(s, z, t, u[t].size) /\ v = u
     \/ s.outcome[t] = "none" /\ s.failing /\ z = s /\ Goes(T, u, v, t, failed)
     \/ s.outcome[t] = "Ok" /\ Collects(s, z, t) /\ Goes(T, u, v, t, place)
     \/ s.outcome[t] = "Poisoned" /\ Collects(s, z, t) /\ Goes(T, u, v, t, failed)

\* The counts are counts.
LEMMA HoldsType ==
  ASSUME NEW T, IsFiniteSet(T), NEW s, NEW u, Uses(s, T, u), NEW place
  PROVE  /\ Holds(s, T, u, place) \in [T -> Nat] /\ Held(s, T, u, place) \in Nat
         /\ s.permits \in Nat /\ All(s, T, u, place) \in Nat
<1>1. Holds(s, T, u, place) \in [T -> Nat]
  BY DEF Holds, Uses
<1>2. s.permits \in Nat
  BY SemFields DEF Uses, QueueOK
<1>3. Held(s, T, u, place) \in Nat
  BY <1>1, OnesFinite DEF Held
<1> QED  BY <1>1, <1>2, <1>3 DEF All

\* A step of one task changes one of the counts.
LEMMA OneUses ==
  ASSUME NEW T, IsFiniteSet(T), NEW s, NEW u, Uses(s, T, u), NEW t \in T, NEW place,
         NEW z, QueueOK(z, T), SameBut(s, z, T, t),
         NEW v, v[t].size \in Nat, \A x \in T \ {t} : v[x] = u[x],
         z.outcome[t] # "none" => v[t].at = "acquire" /\ z.amount[t] = v[t].size
  PROVE  /\ Uses(z, T, v)
         /\ Held(z, T, v, place) + Holds(s, T, u, place)[t]
              = Held(s, T, u, place) + Holds(z, T, v, place)[t]
<1>1. Uses(z, T, v)
  BY DEF Uses, SameBut
<1> DEFINE n == Holds(s, T, u, place)
           m == Holds(z, T, v, place)
<1>2. n \in [T -> Nat] /\ m \in [T -> Nat]
  BY <1>1, HoldsType
<1>3. \A x \in T \ {t} : m[x] = n[x]
  BY DEF SameBut, Holds
<1> HIDE DEF n, m
<1>4. SumOf(m, T) + n[t] = SumOf(n, T) + m[t]
  BY <1>2, <1>3, SumUpdate
<1> QED  BY <1>1, <1>4 DEF Held, n, m

\* Where they acquire, permits only pass from the semaphore to a task, and who goes
\* on without is failed.
LEMMA Acquired ==
  ASSUME NEW T, IsFiniteSet(T), NEW s, NEW u, Uses(s, T, u), NEW t \in T,
         NEW z, NEW v, NEW place, NEW failed, place # "acquire", failed \notin {"acquire", place},
         Acquires(s, z, T, u, v, t, place, failed)
  PROVE  /\ Uses(z, T, v) /\ All(z, T, v, place) = All(s, T, u, place)
         /\ (s.failing => z.failing)
         /\ (s.failing => Held(z, T, v, place) = Held(s, T, u, place))
         /\ z.poisoned = s.poisoned
         /\ (v[t].at = failed => s.failing)
<1> DEFINE n == u[t].size
           H == Held(s, T, u, place)
           K == Held(z, T, v, place)
           h == Holds(s, T, u, place)[t]
           k == Holds(z, T, v, place)[t]
<1>1. /\ QueueOK(s, T) /\ n \in Nat /\ u[t].at = "acquire"
      /\ s.outcome[t] # "none" => s.amount[t] = n
      /\ H \in Nat /\ s.permits \in Nat
  BY HoldsType DEF Acquires, Uses
<1>q. QueueOK(s, T)
  BY <1>1
<1>2. h = IF s.outcome[t] = "Ok" THEN n ELSE 0
  BY <1>1 DEF Holds
<1>3. k = IF z.outcome[t] = "Ok" \/ v[t].at = place THEN v[t].size ELSE 0
  BY DEF Holds
<1> SUFFICES /\ Uses(z, T, v) /\ z.permits + K = s.permits + H
             /\ (s.failing => z.failing) /\ (s.failing => K = H)
             /\ z.poisoned = s.poisoned
             /\ (v[t].at = failed => s.failing)
  BY DEF All
<1>4. ASSUME s.outcome[t] = "none", Takes(s, z, n), Goes(T, u, v, t, place)
      PROVE  /\ Uses(z, T, v) /\ z.permits + K = s.permits + H
             /\ ~s.failing /\ ~z.failing /\ z.poisoned = s.poisoned /\ v[t].at = place
  <2>1. /\ QueueOK(z, T) /\ z.permits \in Nat /\ z.permits + n = s.permits
        /\ z.poisoned = s.poisoned /\ z.failing = s.failing
        /\ z.amount = s.amount /\ z.outcome = s.outcome
    <3>1. QueueOK(s, T) /\ n \in Nat /\ Takes(s, z, n)
      BY <1>1, <1>4
    <3> HIDE DEF n
    <3> QED  BY <3>1, Taken
  <2>2. ~s.failing /\ v[t].at = place /\ v[t].size = n /\ \A x \in T \ {t} : v[x] = u[x]
    BY <1>4 DEF Takes, Goes
  <2>3. SameBut(s, z, T, t)
    BY <2>1 DEF SameBut
  <2>4. h = 0 /\ k = n
    BY <1>2, <1>3, <1>4, <2>2
  <2> HIDE DEF n
  <2>5. Uses(z, T, v) /\ K + h = H + k
    BY <1>1, <1>4, <2>1, <2>2, <2>3, OneUses
  <2>6. K \in Nat
    BY <2>5, HoldsType
  <2> HIDE DEF H, K, h, k
  <2> QED  BY <1>1, <2>1, <2>2, <2>4, <2>5, <2>6
<1>5. ASSUME Enqueues(s, z, t, n), v = u
      PROVE  /\ Uses(z, T, v) /\ z.permits + K = s.permits + H /\ K = H
             /\ (s.failing => z.failing) /\ z.poisoned = s.poisoned /\ v[t].at = "acquire"
  <2>1. /\ QueueOK(z, T) /\ z.permits = s.permits /\ z.poisoned = s.poisoned
        /\ (s.failing => z.failing)
        /\ s.outcome[t] = "none" /\ z.outcome[t] = "queued" /\ z.amount[t] = n
        /\ SameBut(s, z, T, t)
    <3>1. QueueOK(s, T) /\ n \in Nat /\ Enqueues(s, z, t, n)
      BY <1>1, <1>5
    <3> HIDE DEF n
    <3> QED  BY <3>1, Enqueued
  <2>2. h = 0 /\ k = 0
    BY <1>1, <1>2, <1>3, <1>5, <2>1
  <2>3. Uses(z, T, v) /\ K + h = H + k
    BY <1>1, <1>5, <2>1, OneUses
  <2>4. K \in Nat
    BY <2>3, HoldsType
  <2> HIDE DEF H, K, h, k
  <2> QED  BY <1>1, <1>5, <2>1, <2>2, <2>3, <2>4
<1>6. ASSUME s.outcome[t] = "none", s.failing, z = s, Goes(T, u, v, t, failed)
      PROVE  /\ Uses(z, T, v) /\ z.permits + K = s.permits + H /\ K = H
  <2>1. v[t].at = failed /\ v[t].size = n /\ \A x \in T \ {t} : v[x] = u[x]
    BY <1>6 DEF Goes
  <2>2. SameBut(s, z, T, t)
    BY <1>6 DEF SameBut
  <2>3. h = 0 /\ k = 0
    BY <1>2, <1>3, <1>6, <2>1
  <2>4. Uses(z, T, v) /\ K + h = H + k
    BY <1>1, <1>6, <2>1, <2>2, OneUses
  <2>5. K \in Nat
    BY <2>4, HoldsType
  <2> HIDE DEF H, K, h, k
  <2> QED  BY <1>1, <1>6, <2>3, <2>4, <2>5
<1>7. ASSUME s.outcome[t] \in {"Ok", "Poisoned"}, Collects(s, z, t),
             Goes(T, u, v, t, IF s.outcome[t] = "Ok" THEN place ELSE failed)
      PROVE  /\ Uses(z, T, v) /\ z.permits + K = s.permits + H /\ K = H
             /\ z.failing = s.failing /\ z.poisoned = s.poisoned
             /\ (v[t].at = failed => s.failing)
  <2>1. /\ QueueOK(z, T) /\ z.permits = s.permits /\ z.poisoned = s.poisoned
        /\ z.failing = s.failing /\ z.outcome[t] = "none" /\ SameBut(s, z, T, t)
    BY <1>q, <1>7, Collected
  <2>2. /\ v[t].at = (IF s.outcome[t] = "Ok" THEN place ELSE failed)
        /\ v[t].size = n /\ \A x \in T \ {t} : v[x] = u[x]
    BY <1>7 DEF Goes
  <2>3. h = k
    BY <1>2, <1>3, <1>7, <2>1, <2>2
  <2>4. Uses(z, T, v) /\ K + h = H + k
    BY <1>1, <2>1, <2>2, OneUses
  <2>5. K \in Nat /\ h \in Nat
    <3>1. K \in Nat
      BY <2>4, HoldsType
    <3> QED  BY <1>1, <1>2, <3>1
  <2>6. s.outcome[t] = "Poisoned" => s.failing
    BY <1>1 DEF QueueOK
  <2> HIDE DEF H, K, h, k
  <2> QED  BY <1>1, <1>7, <2>1, <2>2, <2>3, <2>4, <2>5, <2>6
<1> HIDE DEF n, H, K, h, k
<1> QED  BY <1>1, <1>4, <1>5, <1>6, <1>7 DEF Acquires, n

\* The semaphore's own steps: a grant passes permits, all else loses some at most.
LEMMA ServedUses ==
  ASSUME NEW T, IsFiniteSet(T), NEW s, NEW u, Uses(s, T, u), NEW t, NEW z, NEW place,
         place # "acquire", Grants(s, z, t) \/ Fails(s, z, t)
  PROVE  /\ Uses(z, T, u) /\ All(z, T, u, place) = All(s, T, u, place)
         /\ (s.failing => z.failing)
         /\ (z.failing => Held(z, T, u, place) = Held(s, T, u, place))
<1> DEFINE H == Held(s, T, u, place)
           K == Held(z, T, u, place)
           h == Holds(s, T, u, place)[t]
           k == Holds(z, T, u, place)[t]
<1>1. QueueOK(s, T) /\ H \in Nat /\ s.permits \in Nat
  <2>1. H \in Nat /\ s.permits \in Nat
    BY HoldsType
  <2> QED  BY <2>1 DEF Uses
<1>q. QueueOK(s, T)
  BY <1>1
<1>2. ASSUME Grants(s, z, t)
      PROVE  Uses(z, T, u) /\ z.permits + K = s.permits + H /\ ~s.failing /\ ~z.failing
  <2>1. /\ t \in T /\ s.outcome[t] = "queued" /\ ~s.failing /\ QueueOK(z, T)
        /\ z.permits \in Nat /\ z.permits + s.amount[t] = s.permits
        /\ z.poisoned = s.poisoned /\ z.failing = s.failing
        /\ z.amount[t] = s.amount[t] /\ z.outcome[t] = "Ok" /\ SameBut(s, z, T, t)
    <3> HIDE DEF H, K, h, k
    <3> QED  BY <1>q, <1>2, Granted
  <2>2. u[t].at = "acquire" /\ s.amount[t] = u[t].size /\ u[t].size \in Nat
    BY <2>1 DEF Uses
  <2>3. h = 0 /\ k = u[t].size
    BY <2>1, <2>2 DEF Holds
  <2>4. Uses(z, T, u) /\ K + h = H + k
    BY <2>1, <2>2, OneUses
  <2>5. K \in Nat
    BY <2>4, HoldsType
  <2> HIDE DEF H, K, h, k
  <2> QED  BY <1>1, <2>1, <2>2, <2>3, <2>4, <2>5
<1>3. ASSUME Fails(s, z, t)
      PROVE  Uses(z, T, u) /\ z.permits + K = s.permits + H /\ K = H /\ z.failing
  <2>1. /\ t \in T /\ s.outcome[t] = "queued" /\ QueueOK(z, T)
        /\ z.permits = s.permits /\ z.failing
        /\ z.amount[t] = s.amount[t] /\ z.outcome[t] = "Poisoned" /\ SameBut(s, z, T, t)
    BY <1>q, <1>3, Failed
  <2>2. u[t].at = "acquire" /\ s.amount[t] = u[t].size /\ u[t].size \in Nat
    BY <2>1 DEF Uses
  <2>3. h = 0 /\ k = 0
    BY <2>1, <2>2 DEF Holds
  <2>4. Uses(z, T, u) /\ K + h = H + k
    BY <2>1, <2>2, OneUses
  <2>5. K \in Nat
    BY <2>4, HoldsType
  <2> HIDE DEF H, K, h, k
  <2> QED  BY <1>1, <2>1, <2>3, <2>4, <2>5
<1> HIDE DEF H, K, h, k
<1> QED  BY <1>2, <1>3 DEF All, H, K

\* A change of the semaphore that leaves the acquires as they are.
LEMMA SameUses ==
  ASSUME NEW T, NEW s, NEW u, Uses(s, T, u), NEW z, QueueOK(z, T),
         z.amount = s.amount, z.outcome = s.outcome, NEW place
  PROVE  Uses(z, T, u) /\ Held(z, T, u, place) = Held(s, T, u, place)
BY DEF Uses, Held, Holds

\* A task that goes from one place to another where it acquires nothing.
LEMMA Moved ==
  ASSUME NEW T, IsFiniteSet(T), NEW s, NEW u, Uses(s, T, u), NEW t \in T, NEW place,
         NEW v, v[t].size \in Nat, \A x \in T \ {t} : v[x] = u[x],
         u[t].at # "acquire"
  PROVE  /\ Uses(s, T, v)
         /\ Held(s, T, v, place) + (IF u[t].at = place THEN u[t].size ELSE 0)
              = Held(s, T, u, place) + (IF v[t].at = place THEN v[t].size ELSE 0)
<1>1. s.outcome[t] = "none" /\ QueueOK(s, T)
  BY DEF Uses
<1>2. SameBut(s, s, T, t)
  BY DEF SameBut
<1>3. /\ Uses(s, T, v)
      /\ Held(s, T, v, place) + Holds(s, T, u, place)[t]
           = Held(s, T, u, place) + Holds(s, T, v, place)[t]
  BY <1>1, <1>2, OneUses
<1> QED  BY <1>1, <1>3 DEF Holds

\* What tasks have somewhere, when one of them goes on.
LEMMA HasStep ==
  ASSUME NEW T, IsFiniteSet(T), NEW u, \A x \in T : u[x].size \in Nat, NEW t \in T, NEW places,
         NEW v, v[t].size \in Nat, \A x \in T \ {t} : v[x] = u[x]
  PROVE  /\ SumOf(Has(T, u, places), T) \in Nat /\ SumOf(Has(T, v, places), T) \in Nat
         /\ SumOf(Has(T, v, places), T) + (IF u[t].at \in places THEN u[t].size ELSE 0)
              = SumOf(Has(T, u, places), T) + (IF v[t].at \in places THEN v[t].size ELSE 0)
<1> DEFINE n == Has(T, u, places)
           m == Has(T, v, places)
<1>1. n \in [T -> Nat] /\ m \in [T -> Nat] /\ \A x \in T \ {t} : m[x] = n[x]
  BY DEF Has
<1>2. /\ n[t] = (IF u[t].at \in places THEN u[t].size ELSE 0)
      /\ m[t] = (IF v[t].at \in places THEN v[t].size ELSE 0)
  BY DEF Has
<1> HIDE DEF n, m
<1>3. SumOf(m, T) + n[t] = SumOf(n, T) + m[t] /\ SumOf(n, T) \in Nat /\ SumOf(m, T) \in Nat
  BY <1>1, SumUpdate
<1> QED  BY <1>2, <1>3 DEF n, m

-----------------------------------------------------------------------------
(* ReadWriteLock *)

\* The permits of a thread that is at a, and whose acquire of n has outcome o.
LockPermits(a, o, n) ==
  IF a = "reading" THEN 1 ELSE IF a = "writing" THEN MaxAvailable ELSE IF o = "Ok" THEN n ELSE 0

LockHas(where, s) == [t \in Lock!Tasks |-> LockPermits(where[t], s.outcome[t], s.amount[t])]

LockLabels == {"read", "reading", "write", "writing", "end"}

\* A thread only waits where it acquires, for what it needs there, and all
\* permits are in the semaphore or with a thread.
LockInv ==
  /\ QueueOK(lockSem, Lock!Tasks) /\ ~lockSem.poisoned
  /\ at \in [Lock!Tasks -> LockLabels]
  /\ \A t \in Lock!Tasks : lockSem.outcome[t] # "none" =>
       at[t] \in {"read", "write"} /\ lockSem.amount[t] = Lock!Amount(at[t])
  /\ lockSem.permits + SumOf(LockHas(at, lockSem), Lock!Tasks) = MaxAvailable

\* The permits of a thread are a count.
LEMMA LockHasType ==
  ASSUME Threads \in Nat, NEW where, NEW s \in SemRecord(Lock!Tasks)
  PROVE  LockHas(where, s) \in [Lock!Tasks -> Nat] /\ IsFiniteSet(Lock!Tasks)
<1>1. s.amount \in [Lock!Tasks -> Nat]
  BY SemFields
<1>2. IsFiniteSet(Lock!Tasks)
  BY FS_Interval DEF Lock!Tasks
<1> QED  BY <1>1, <1>2 DEF LockHas, LockPermits

\* A step that changes at most what t does and has, without making up or losing a
\* permit.
LEMMA LockStep ==
  ASSUME Threads \in Nat, LockInv, NEW t \in Lock!Tasks,
         QueueOK(lockSem', Lock!Tasks), ~lockSem'.poisoned,
         at' \in [Lock!Tasks -> LockLabels],
         SameBut(lockSem, lockSem', Lock!Tasks, t), \A u \in Lock!Tasks \ {t} : at'[u] = at[u],
         lockSem'.outcome[t] # "none" =>
           at'[t] \in {"read", "write"} /\ lockSem'.amount[t] = Lock!Amount(at'[t]),
         lockSem'.permits + LockPermits(at'[t], lockSem'.outcome[t], lockSem'.amount[t])
           = lockSem.permits + LockPermits(at[t], lockSem.outcome[t], lockSem.amount[t])
  PROVE  LockInv'
<1> DEFINE n == LockHas(at, lockSem)
           m == LockHas(at', lockSem')
<1>1. /\ n \in [Lock!Tasks -> Nat] /\ m \in [Lock!Tasks -> Nat] /\ IsFiniteSet(Lock!Tasks)
      /\ lockSem.permits \in Nat /\ lockSem'.permits \in Nat
  BY LockHasType, SemFields DEF LockInv, QueueOK
<1>2. /\ \A u \in Lock!Tasks \ {t} : m[u] = n[u]
      /\ lockSem'.permits + m[t] = lockSem.permits + n[t]
  BY DEF LockHas, SameBut
<1> HIDE DEF n, m
<1>3. lockSem'.permits + SumOf(m, Lock!Tasks) = lockSem.permits + SumOf(n, Lock!Tasks)
  <2> DEFINE S == Lock!Tasks
             p == lockSem.permits
             q == lockSem'.permits
  <2>1. /\ n \in [S -> Nat] /\ m \in [S -> Nat] /\ IsFiniteSet(S) /\ p \in Nat /\ q \in Nat
        /\ t \in S /\ (\A u \in S \ {t} : m[u] = n[u]) /\ q + m[t] = p + n[t]
    BY <1>1, <1>2
  <2> HIDE DEF S, p, q
  <2>2. /\ SumOf(m, S) + n[t] = SumOf(n, S) + m[t]
        /\ SumOf(n, S) \in Nat /\ SumOf(m, S) \in Nat /\ n[t] \in Nat /\ m[t] \in Nat
    BY <2>1, SumUpdate
  <2>3. q + SumOf(m, S) = p + SumOf(n, S)
    BY <2>1, <2>2
  <2> QED  BY <2>3 DEF S, p, q
<1>4. lockSem'.permits + SumOf(LockHas(at', lockSem'), Lock!Tasks) = MaxAvailable
  BY <1>3 DEF LockInv, n, m
<1>5. \A u \in Lock!Tasks : lockSem'.outcome[u] # "none" =>
        at'[u] \in {"read", "write"} /\ lockSem'.amount[u] = Lock!Amount(at'[u])
  BY DEF LockInv, SameBut
<1> QED  BY <1>4, <1>5 DEF LockInv, Lock!Tasks, Lock!Amount, LockHas, SumOf, Ones

\* Every step of the lock keeps LockInv.
LEMMA LockInductive ==
  ASSUME Threads \in Nat, LockInv, [Lock!Next]_(Lock!vars)
  PROVE  LockInv'
<1> DEFINE T == Lock!Tasks
<1>0. /\ lockSem \in SemRecord(T) /\ QueueOK(lockSem, T) /\ ~lockSem.poisoned
      /\ lockSem.permits \in Nat /\ lockSem.outcome \in [T -> Outcome]
      /\ lockSem.amount \in [T -> Nat] /\ at \in [T -> LockLabels]
      /\ ~lockSem.failing
  BY SemFields DEF LockInv, QueueOK
<1>a. \A t \in T : lockSem.outcome[t] # "none" =>
        at[t] \in {"read", "write"} /\ lockSem.amount[t] = Lock!Amount(at[t])
  BY DEF LockInv
<1>b. \A t \in T : Lock!Amount(at[t]) \in Nat
  BY DEF Lock!Amount
<1>q. QueueOK(lockSem, T)
  BY <1>0
<1> HIDE DEF T
<1>1. ASSUME NEW t \in T, Lock!Acquire(t) PROVE LockInv'
  <2> DEFINE n == Lock!Amount(at[t])
  <2>1. at[t] \in {"read", "write"} /\ lockSem.outcome[t] = "none" /\ n \in Nat
    BY <1>1, <1>b DEF Lock!Acquire
  <2>2. CASE Lock!Semaphore!Take(n) /\ Lock!Goto(t, Lock!Inside(at[t]))
    <3>1. Takes(lockSem, lockSem', n)
      BY <2>2 DEF Lock!Semaphore!Take, Lock!Semaphore!MayTake, Takes
    <3>2. /\ at' = [at EXCEPT ![t] = Lock!Inside(at[t])]
          /\ Lock!Inside(at[t]) \in {"reading", "writing"}
      BY <2>2 DEF Lock!Goto, Lock!Inside
    <3> HIDE DEF n
    <3>3. /\ QueueOK(lockSem', T) /\ lockSem'.permits + n = lockSem.permits
          /\ lockSem'.poisoned = lockSem.poisoned
          /\ lockSem'.amount = lockSem.amount /\ lockSem'.outcome = lockSem.outcome
      <4>1. QueueOK(lockSem, T) /\ n \in Nat
        BY <1>0, <2>1
      <4> QED  BY <3>1, <4>1, Taken
    <3>4. at' \in [T -> LockLabels] /\ \A u \in T \ {t} : at'[u] = at[u]
      BY <1>0, <3>2 DEF LockLabels
    <3>5. /\ LockPermits(at'[t], lockSem'.outcome[t], lockSem'.amount[t]) = n
          /\ LockPermits(at[t], lockSem.outcome[t], lockSem.amount[t]) = 0
      BY <1>0, <2>1, <3>2, <3>3 DEF LockPermits, Lock!Inside, Lock!Amount, n
    <3>6. lockSem'.permits + n = lockSem.permits + 0 /\ lockSem'.outcome[t] = "none"
      BY <1>0, <2>1, <3>3
    <3>7. SameBut(lockSem, lockSem', T, t)
      BY <3>3 DEF SameBut
    <3> QED  BY <1>0, <3>3, <3>4, <3>5, <3>6, <3>7, LockStep DEF T
  <2>3. CASE Lock!Semaphore!Enqueue(t, n) /\ UNCHANGED at
    <3>1. Enqueues(lockSem, lockSem', t, n)
      BY <2>3 DEF Lock!Semaphore!Enqueue, Enqueues
    <3>0. QueueOK(lockSem, T) /\ n \in Nat
      BY <1>0, <2>1
    <3> HIDE DEF n
    <3>2. /\ QueueOK(lockSem', T) /\ lockSem'.permits = lockSem.permits
          /\ lockSem'.poisoned = lockSem.poisoned
          /\ lockSem'.amount[t] = n /\ lockSem'.outcome[t] = "queued"
          /\ SameBut(lockSem, lockSem', T, t)
      BY <3>0, <3>1, Enqueued
    <3>3. /\ LockPermits(at'[t], lockSem'.outcome[t], lockSem'.amount[t]) = 0
          /\ LockPermits(at[t], lockSem.outcome[t], lockSem.amount[t]) = 0
      BY <2>1, <2>3, <3>2 DEF LockPermits
    <3>4. lockSem'.amount[t] = Lock!Amount(at'[t]) /\ at'[t] \in {"read", "write"}
      BY <2>1, <2>3, <3>2 DEF n
    <3> QED  BY <1>0, <2>3, <3>2, <3>3, <3>4, LockStep DEF T
  <2> QED  BY <1>1, <2>2, <2>3 DEF Lock!Acquire
<1>2. ASSUME NEW t \in T, Lock!Resume(t) PROVE LockInv'
  <2>1. /\ lockSem.outcome[t] = "Ok" /\ at' = [at EXCEPT ![t] = Lock!Inside(at[t])]
        /\ Collects(lockSem, lockSem', t)
    BY <1>2 DEF Lock!Resume, Lock!Semaphore!Collect, Lock!Semaphore!Done, Lock!Goto, Collects
  <2>2. at[t] \in {"read", "write"} /\ lockSem.amount[t] = Lock!Amount(at[t])
    BY <1>a, <2>1
  <2>3. /\ QueueOK(lockSem', T) /\ lockSem'.permits = lockSem.permits
        /\ lockSem'.poisoned = lockSem.poisoned
        /\ lockSem'.outcome[t] = "none" /\ SameBut(lockSem, lockSem', T, t)
    BY <1>q, <2>1, Collected
  <2>4. /\ at' \in [T -> LockLabels] /\ at'[t] = Lock!Inside(at[t])
        /\ \A u \in T \ {t} : at'[u] = at[u]
    BY <1>0, <2>1, <2>2 DEF LockLabels, Lock!Inside
  <2>5. LockPermits(at'[t], lockSem'.outcome[t], lockSem'.amount[t])
          = LockPermits(at[t], lockSem.outcome[t], lockSem.amount[t])
    BY <2>1, <2>2, <2>4 DEF LockPermits, Lock!Inside, Lock!Amount
  <2> QED  BY <1>0, <2>3, <2>4, <2>5, LockStep DEF T
<1>3. ASSUME NEW t \in T, NEW from \in {"read", "write"}, at[t] = Lock!Inside(from),
             NEW to \in {"read", "write", "end"}, at' = [at EXCEPT ![t] = to],
             Lock!Semaphore!Give(Lock!Amount(from))
      PROVE  LockInv'
  <2> DEFINE n == Lock!Amount(from)
  <2>1. /\ at[t] \notin {"read", "write"} /\ n \in Nat
        /\ LockPermits(at[t], lockSem.outcome[t], lockSem.amount[t]) = n
    BY <1>3 DEF Lock!Inside, LockPermits, Lock!Amount
  <2>2. lockSem.outcome[t] = "none"
    BY <1>a, <2>1
  <2>3. n <= MaxAvailable
    <3> DEFINE m == LockHas(at, lockSem)
    <3>1. m \in [T -> Nat] /\ IsFiniteSet(T) /\ m[t] = n
      BY <1>0, <2>1, LockHasType DEF T, LockHas
    <3>2. lockSem.permits + SumOf(m, T) = MaxAvailable
      BY DEF LockInv, T
    <3> HIDE DEF m, n
    <3>3. SumOf(m, T) = SumOf(m, T \ {t}) + m[t] /\ SumOf(m, T \ {t}) \in Nat
      BY <3>1, SumWithout
    <3> QED  BY <1>0, <2>1, <3>1, <3>2, <3>3
  <2>4. Gives(lockSem, lockSem', n)
    BY <1>3 DEF Lock!Semaphore!Give, Lock!Semaphore!Add, Gives
  <2> HIDE DEF n
  <2>5. /\ QueueOK(lockSem', T) /\ lockSem'.permits = lockSem.permits + n
        /\ lockSem'.poisoned = lockSem.poisoned
        /\ lockSem'.amount = lockSem.amount /\ lockSem'.outcome = lockSem.outcome
    BY <1>q, <2>1, <2>3, <2>4, Given
  <2>6. /\ at' \in [T -> LockLabels] /\ at'[t] = to
        /\ \A u \in T \ {t} : at'[u] = at[u]
    BY <1>0, <1>3 DEF LockLabels
  <2>7. LockPermits(at'[t], lockSem'.outcome[t], lockSem'.amount[t]) = 0
    BY <2>2, <2>5, <2>6 DEF LockPermits
  <2>8. lockSem'.permits + 0 = lockSem.permits + n /\ lockSem'.outcome[t] = "none"
    BY <1>0, <2>1, <2>2, <2>5
  <2>9. SameBut(lockSem, lockSem', T, t)
    BY <2>5 DEF SameBut
  <2> QED  BY <1>0, <2>1, <2>5, <2>6, <2>7, <2>8, <2>9, LockStep DEF T
<1>4. ASSUME NEW t \in T, Lock!Look(t) \/ Lock!Push(t) PROVE LockInv'
  BY <1>3, <1>4 DEF Lock!Look, Lock!Push, Lock!Goto, Lock!Inside
<1>5. ASSUME Lock!Serve PROVE LockInv'
  <2>1. PICK t \in T : Lock!Semaphore!Grant(t)
    BY <1>0, <1>5 DEF Lock!Serve, Lock!Semaphore!Serve, Lock!Semaphore!Fail, T
  <2>2. Grants(lockSem, lockSem', t) /\ at' = at
    BY <1>5, <2>1 DEF Lock!Serve, Lock!Semaphore!Grant, Lock!Semaphore!AtFront, Grants
  <2>3. /\ lockSem.outcome[t] = "queued" /\ QueueOK(lockSem', T)
        /\ lockSem'.permits + lockSem.amount[t] = lockSem.permits
        /\ lockSem'.poisoned = lockSem.poisoned /\ lockSem'.amount[t] = lockSem.amount[t]
        /\ lockSem'.outcome[t] = "Ok" /\ SameBut(lockSem, lockSem', T, t)
    BY <1>q, <2>2, Granted
  <2>4. at[t] \in {"read", "write"} /\ lockSem.amount[t] = Lock!Amount(at[t])
    BY <1>a, <2>3
  <2>5. /\ LockPermits(at'[t], lockSem'.outcome[t], lockSem'.amount[t]) = lockSem.amount[t]
        /\ LockPermits(at[t], lockSem.outcome[t], lockSem.amount[t]) = 0
    BY <2>2, <2>3, <2>4 DEF LockPermits
  <2>6. lockSem'.permits + lockSem.amount[t] = lockSem.permits + 0
    BY <1>0, <2>3
  <2> QED  BY <1>0, <2>2, <2>3, <2>4, <2>5, <2>6, LockStep DEF T
<1>6. CASE UNCHANGED Lock!vars
  BY <1>6 DEF Lock!vars, LockInv, LockHas
<1> QED  BY <1>1, <1>2, <1>4, <1>5, <1>6 DEF Lock!Next, Lock!Step, T

\* Two threads have no more permits than there are.
LEMMA LockExcludes ==
  ASSUME Threads \in Nat, MaxAvailable > 0, LockInv
  PROVE  Lock!WriterExcludes
<1> SUFFICES ASSUME NEW t \in Lock!Tasks, NEW u \in Lock!Tasks, at[t] = "writing", t # u,
                    at[u] \in {"reading", "writing"}
             PROVE  FALSE
  BY DEF Lock!WriterExcludes
<1> DEFINE n == LockHas(at, lockSem)
<1>1. /\ n \in [Lock!Tasks -> Nat] /\ IsFiniteSet(Lock!Tasks) /\ lockSem.permits \in Nat
  BY LockHasType, SemFields DEF LockInv, QueueOK
<1>2. n[t] = MaxAvailable /\ n[u] > 0
  BY DEF LockHas, LockPermits
<1>3. lockSem.permits + SumOf(n, Lock!Tasks) = MaxAvailable
  BY DEF LockInv
<1> HIDE DEF n
<1>4. n[t] + n[u] <= SumOf(n, Lock!Tasks) /\ SumOf(n, Lock!Tasks) \in Nat
  BY <1>1, SumAtLeast, OnesFinite
<1>5. n[t] \in Nat /\ n[u] \in Nat
  BY <1>1
<1> QED  BY <1>1, <1>2, <1>3, <1>4, <1>5

\* The lock of tests/lock.rs, with any number of threads and of readers that it
\* admits: whoever writes is alone.
THEOREM WriterIsAlone ==
  ASSUME Threads \in Nat, MaxAvailable > 0
  PROVE  Lock!Spec => []WriterExcludes
<1>1. Lock!Init => LockInv
  <2> SUFFICES ASSUME Lock!Init PROVE LockInv
    OBVIOUS
  <2> DEFINE T == Lock!Tasks
  <2>1. lockSem = [permits |-> MaxAvailable, poisoned |-> FALSE, failing |-> FALSE, queue |-> <<>>,
                   amount |-> [t \in T |-> 0], outcome |-> [t \in T |-> "none"]]
    <3>1. (MaxAvailable > MaxAvailable) = FALSE
      OBVIOUS
    <3> QED  BY <3>1 DEF Lock!Init, Lock!Semaphore!New
  <2>2. /\ lockSem \in SemRecord(T) /\ lockSem.permits = MaxAvailable /\ ~lockSem.poisoned
        /\ ~lockSem.failing /\ lockSem.queue = <<>> /\ lockSem.outcome = [t \in T |-> "none"]
    BY <2>1 DEF SemRecord, Outcome
  <2>3. QueueOK(lockSem, T)
    BY <2>2 DEF QueueOK
  <2>4. at = [t \in T |-> "read"]
    BY DEF Lock!Init
  <2>5. \A t \in T : LockHas(at, lockSem)[t] = 0
    BY <2>2, <2>4 DEF LockHas, LockPermits
  <2>6. SumOf(LockHas(at, lockSem), T) = 0
    BY <2>5, SumNothing
  <2> QED  BY <2>2, <2>3, <2>4, <2>6 DEF LockInv, LockLabels
<1>2. LockInv /\ [Lock!Next]_(Lock!vars) => LockInv'
  BY LockInductive
<1>3. LockInv => Lock!WriterExcludes
  BY LockExcludes
<1> QED  BY <1>1, <1>2, <1>3, PTL DEF Lock!Spec, WriterExcludes

-----------------------------------------------------------------------------
(* BatchQueue *)

BatchTasks == {"receiver"}

\* What is sent is enough, as in the example, and not too much for a semaphore.
BatchAssumption ==
  /\ Sends \in Nat /\ Receives \in Nat
  /\ 3 * Sends >= 2 * Receives /\ 3 * Sends <= MaxAvailable

BatchTypes ==
  /\ QueueOK(batchSem, BatchTasks) /\ batch \in Int
  /\ batchSender \in [at: {"extend", "release", "end"}, left: 0 .. Sends]
  /\ batchReceiver \in [at: {"acquire", "drain"}, left: 0 .. Receives]
  /\ batchSender.at = "release" => batchSender.left > 0
  /\ batchSender.at = "end" => batchSender.left = 0
  /\ batchReceiver.at = "drain" => batchReceiver.left > 0

\* The receiver acquires two permits at a time, and the semaphore is poisoned when
\* all has been sent.
BatchWaits ==
  /\ batchSem.outcome["receiver"] # "none" =>
       batchReceiver.at = "acquire" /\ batchReceiver.left > 0 /\ batchSem.amount["receiver"] = 2
  /\ batchSem.poisoned => batchSender.at = "end"

\* The bytes in the buffer are those that were sent and not yet drained, and no
\* more permits are about than bytes were released.
BatchCounts ==
  LET drained == 2 * (Receives - batchReceiver.left)
      sent    == 3 * (Sends - batchSender.left)
  IN
  /\ batch = (IF batchSender.at = "release" THEN sent + 3 ELSE sent) - drained
  /\ ~batchSem.poisoned =>
       batchSem.permits + (IF batchSem.outcome["receiver"] = "Ok" THEN 2 ELSE 0)
         + (IF batchReceiver.at = "drain" THEN 2 ELSE 0) + drained <= sent

BatchInv == BatchTypes /\ BatchWaits /\ BatchCounts

\* A batch is there when its permits, or an error, are.
LEMMA BatchIsThere == BatchAssumption /\ BatchInv => Batch!DrainInRange
<1> SUFFICES ASSUME BatchAssumption, BatchInv, batchReceiver.at = "drain" PROVE batch >= 2
  BY DEF Batch!DrainInRange
<1> DEFINE l == batchReceiver.left
           k == batchSender.left
           p == batchSem.permits
<1>1. l \in 0 .. Receives /\ l > 0 /\ k \in 0 .. Sends /\ p \in Nat /\ batch \in Int
  BY SemFields DEF BatchInv, BatchTypes, QueueOK
<1>2. CASE batchSem.poisoned
  <2>1. batchSender.at = "end" /\ k = 0
    BY <1>2 DEF BatchInv, BatchTypes, BatchWaits
  <2>2. batch = 3 * (Sends - k) - 2 * (Receives - l)
    BY <2>1 DEF BatchInv, BatchCounts
  <2> HIDE DEF l, k
  <2> QED  BY <1>1, <2>1, <2>2 DEF BatchAssumption
<1>3. CASE ~batchSem.poisoned
  <2>1. /\ batch = (IF batchSender.at = "release" THEN 3 * (Sends - k) + 3 ELSE 3 * (Sends - k))
                     - 2 * (Receives - l)
        /\ p + (IF batchSem.outcome["receiver"] = "Ok" THEN 2 ELSE 0) + 2 + 2 * (Receives - l)
             <= 3 * (Sends - k)
    BY <1>3 DEF BatchInv, BatchCounts
  <2> HIDE DEF l, k, p
  <2> QED  BY <1>1, <2>1 DEF BatchAssumption
<1> QED  BY <1>2, <1>3

\* Every step of the example keeps BatchInv.
LEMMA BatchInductive ==
  ASSUME BatchAssumption, BatchInv, [Batch!Next]_(Batch!vars)
  PROVE  BatchInv'
<1> USE DEF BatchAssumption
<1> DEFINE s == batchSem
           z == batchSem'
           T == BatchTasks
           r == "receiver"
<1>0. /\ QueueOK(s, T) /\ r \in T /\ T = {r} /\ batch \in Int
      /\ s.permits \in Nat /\ s.poisoned \in BOOLEAN /\ s.failing \in BOOLEAN
      /\ (s.failing => s.poisoned) /\ s.outcome[r] \in Outcome
      /\ batchSender \in [at: {"extend", "release", "end"}, left: 0 .. Sends]
      /\ batchReceiver \in [at: {"acquire", "drain"}, left: 0 .. Receives]
      /\ (batchSender.at = "release" => batchSender.left > 0)
      /\ (batchSender.at = "end" => batchSender.left = 0)
      /\ (batchReceiver.at = "drain" => batchReceiver.left > 0)
  BY SemFields DEF BatchInv, BatchTypes, QueueOK, BatchTasks
<1>a. BatchTypes /\ BatchWaits /\ BatchCounts
  BY DEF BatchInv
<1>b. ~s.poisoned => s.permits <= 3 * (Sends - batchSender.left)
  BY <1>0, <1>a DEF BatchCounts
<1>q. QueueOK(s, T) /\ r \in T
  BY <1>0
<1> HIDE DEF T
<1>1. CASE Batch!Extend
  BY <1>0, <1>1, <1>a DEF Batch!Extend, BatchInv, BatchTypes, BatchWaits, BatchCounts
<1>2. CASE Batch!Release
  <2>1. Gives(s, z, 3) /\ batchSender.at = "release" /\ batchSender.left > 0
    BY <1>0, <1>2 DEF Batch!Release, Batch!Semaphore!Give, Batch!Semaphore!Add, Gives
  <2>2. 3 <= MaxAvailable /\ 3 \in Nat
    BY <1>0, <2>1
  <2>3. /\ QueueOK(z, T) /\ z.permits = s.permits + 3 /\ z.poisoned = s.poisoned
        /\ z.amount = s.amount /\ z.outcome = s.outcome
    BY <1>q, <2>1, <2>2, Given
  <2>4. /\ batchSender' = [at |-> "extend", left |-> batchSender.left - 1]
        /\ UNCHANGED <<batch, batchReceiver>> /\ ~s.poisoned
    BY <1>2, <1>a, <2>1 DEF Batch!Release, BatchWaits
  <2> HIDE DEF z, s
  <2>5. BatchTypes'
    BY <1>0, <2>1, <2>3, <2>4 DEF BatchTypes, T, z
  <2>6. BatchWaits'
    BY <1>a, <2>1, <2>3, <2>4 DEF BatchWaits, z, s
  <2>7. BatchCounts'
    BY <1>0, <1>a, <2>1, <2>3, <2>4 DEF BatchCounts, z, s
  <2> QED  BY <2>5, <2>6, <2>7 DEF BatchInv
<1>3. CASE Batch!Poison
  <2>1. z = [s EXCEPT !.poisoned = TRUE]
    BY <1>3 DEF Batch!Poison, Batch!Semaphore!PoisonAll
  <2>2. /\ QueueOK(z, T) /\ z.permits = s.permits /\ z.poisoned
        /\ z.amount = s.amount /\ z.outcome = s.outcome
    BY <1>q, <2>1, PoisonedAll
  <2>3. /\ batchSender.at = "extend" /\ batchSender.left = 0
        /\ batchSender' = [batchSender EXCEPT !.at = "end"]
        /\ UNCHANGED <<batch, batchReceiver>>
    BY <1>3 DEF Batch!Poison
  <2> HIDE DEF z, s
  <2>4. BatchTypes'
    BY <1>0, <2>2, <2>3 DEF BatchTypes, T, z
  <2>5. BatchWaits' /\ BatchCounts'
    BY <1>0, <1>a, <2>2, <2>3 DEF BatchWaits, BatchCounts, z, s
  <2> QED  BY <2>4, <2>5 DEF BatchInv
<1>4. CASE Batch!Acquire
  <2>0. /\ batchReceiver.at = "acquire" /\ batchReceiver.left > 0
        /\ UNCHANGED <<batch, batchSender>>
    BY <1>4 DEF Batch!Acquire
  <2>1. CASE Batch!Semaphore!Take(2) /\ batchReceiver' = [batchReceiver EXCEPT !.at = "drain"]
             /\ s.outcome[r] = "none"
    <3>1. Takes(s, z, 2)
      BY <2>1 DEF Batch!Semaphore!Take, Batch!Semaphore!MayTake, Takes
    <3>2. /\ QueueOK(z, T) /\ z.permits + 2 = s.permits /\ z.poisoned = s.poisoned
          /\ z.permits \in Nat
          /\ z.amount = s.amount /\ z.outcome = s.outcome
      <4>1. QueueOK(s, T) /\ 2 \in Nat
        BY <1>0
      <4> QED  BY <3>1, <4>1, Taken
    <3> HIDE DEF z, s
    <3>3. BatchTypes'
      BY <1>0, <2>0, <2>1, <3>2 DEF BatchTypes, T, z
    <3>4. BatchWaits'
      BY <1>a, <2>0, <2>1, <3>2 DEF BatchWaits, z, s
    <3>5. BatchCounts'
      BY <1>0, <1>a, <2>0, <2>1, <3>2 DEF BatchCounts, z, s
    <3> QED  BY <3>3, <3>4, <3>5 DEF BatchInv
  <2>2. CASE Batch!Semaphore!Enqueue("receiver", 2) /\ UNCHANGED batchReceiver
    <3>1. Enqueues(s, z, r, 2)
      BY <2>2 DEF Batch!Semaphore!Enqueue, Enqueues
    <3>2. /\ QueueOK(z, T) /\ z.permits = s.permits /\ z.poisoned = s.poisoned
          /\ s.outcome[r] = "none" /\ z.outcome[r] = "queued" /\ z.amount[r] = 2
      BY <1>q, <3>1, Enqueued
    <3> HIDE DEF z, s
    <3>3. BatchTypes'
      BY <1>0, <2>0, <2>2, <3>2 DEF BatchTypes, T, z
    <3>4. BatchWaits'
      BY <1>a, <2>0, <2>2, <3>2 DEF BatchWaits, z, s
    <3>5. BatchCounts'
      BY <1>0, <1>a, <2>0, <2>2, <3>2 DEF BatchCounts, z, s
    <3> QED  BY <3>3, <3>4, <3>5 DEF BatchInv
  <2>3. CASE /\ s.failing /\ batchReceiver' = [batchReceiver EXCEPT !.at = "drain"]
             /\ s.outcome[r] = "none" /\ z = s
    <3>1. s.poisoned
      BY <1>0, <2>3
    <3> HIDE DEF z, s
    <3>2. BatchTypes'
      BY <1>0, <2>0, <2>3 DEF BatchTypes, T, z, s
    <3>3. BatchWaits'
      BY <1>a, <2>0, <2>3 DEF BatchWaits, z, s
    <3>4. BatchCounts'
      BY <1>0, <1>a, <2>0, <2>3, <3>1 DEF BatchCounts, z, s
    <3> QED  BY <3>2, <3>3, <3>4 DEF BatchInv
  <2>4. CASE Batch!Semaphore!Collect("receiver") /\ batchReceiver' = [batchReceiver EXCEPT !.at = "drain"]
    <3>1. Collects(s, z, r)
      BY <2>4 DEF Batch!Semaphore!Collect, Batch!Semaphore!Done, Collects
    <3>2. /\ QueueOK(z, T) /\ z.permits = s.permits /\ z.poisoned = s.poisoned
          /\ z.outcome[r] = "none" /\ s.outcome[r] \in {"Ok", "Poisoned"}
      BY <1>q, <3>1, Collected
    <3>3. s.outcome[r] = "Poisoned" => s.poisoned
      BY <1>0 DEF QueueOK
    <3> HIDE DEF z, s
    <3>4. BatchTypes'
      BY <1>0, <2>0, <2>4, <3>2 DEF BatchTypes, T, z
    <3>5. BatchWaits'
      BY <1>a, <2>0, <2>4, <3>2 DEF BatchWaits, z, s
    <3>6. BatchCounts'
      BY <1>0, <1>a, <2>0, <2>4, <3>2, <3>3 DEF BatchCounts, z, s
    <3> QED  BY <3>4, <3>5, <3>6 DEF BatchInv
  <2> QED  BY <1>4, <2>1, <2>2, <2>3, <2>4 DEF Batch!Acquire
<1>5. CASE Batch!Drain
  <2>1. batchSem.outcome[r] = "none" /\ batchReceiver.at = "drain" /\ batchReceiver.left > 0
    BY <1>0, <1>5, <1>a DEF Batch!Drain, BatchWaits
  <2>2. BatchTypes'
    BY <1>0, <1>5, <2>1 DEF Batch!Drain, BatchTypes, T
  <2>3. BatchWaits' /\ BatchCounts'
    BY <1>0, <1>5, <1>a, <2>1 DEF Batch!Drain, BatchWaits, BatchCounts
  <2> QED  BY <2>2, <2>3 DEF BatchInv
<1>6. CASE Batch!Serve
  <2>0. UNCHANGED <<batch, batchSender, batchReceiver>>
    BY <1>6 DEF Batch!Serve
  <2>1. CASE Batch!Semaphore!Grant("receiver")
    <3>1. Grants(s, z, r)
      BY <2>1 DEF Batch!Semaphore!Grant, Batch!Semaphore!AtFront, Grants
    <3>2. /\ s.outcome[r] = "queued" /\ QueueOK(z, T)
          /\ z.permits \in Nat /\ z.permits + s.amount[r] = s.permits /\ z.poisoned = s.poisoned
          /\ z.amount[r] = s.amount[r] /\ z.outcome[r] = "Ok"
      BY <1>q, <3>1, Granted
    <3> HIDE DEF z, s
    <3>3. BatchTypes'
      BY <1>0, <2>0, <3>2 DEF BatchTypes, T, z
    <3>4. BatchWaits'
      BY <1>a, <2>0, <3>2 DEF BatchWaits, z, s
    <3>5. BatchCounts'
      BY <1>0, <1>a, <2>0, <3>2 DEF BatchWaits, BatchCounts, z, s
    <3> QED  BY <3>3, <3>4, <3>5 DEF BatchInv
  <2>2. CASE Batch!Semaphore!Fail("receiver")
    <3>1. Fails(s, z, r)
      BY <2>2 DEF Batch!Semaphore!Fail, Batch!Semaphore!AtFront, Fails
    <3>2. /\ s.outcome[r] = "queued" /\ QueueOK(z, T) /\ s.poisoned
          /\ z.permits = s.permits /\ z.poisoned = s.poisoned
          /\ z.amount[r] = s.amount[r] /\ z.outcome[r] = "Poisoned"
      BY <1>q, <3>1, Failed
    <3> HIDE DEF z, s
    <3>3. BatchTypes'
      BY <1>0, <2>0, <3>2 DEF BatchTypes, T, z
    <3>4. BatchWaits'
      BY <1>a, <2>0, <3>2 DEF BatchWaits, z, s
    <3>5. BatchCounts'
      BY <1>0, <1>a, <2>0, <3>2 DEF BatchCounts, z, s
    <3> QED  BY <3>3, <3>4, <3>5 DEF BatchInv
  <2> QED  BY <1>6, <2>1, <2>2 DEF Batch!Serve, Batch!Semaphore!Serve
<1>7. CASE Batch!Swallow
  <2>0. UNCHANGED <<batch, batchSender, batchReceiver>> /\ s.poisoned
    BY <1>0, <1>7, <1>b DEF Batch!Swallow, Batch!Semaphore!Swallow
  <2>1. Swallows(s, z)
    BY <1>7 DEF Batch!Swallow, Batch!Semaphore!Swallow, Swallows
  <2>2. /\ QueueOK(z, T) /\ z.poisoned
        /\ z.amount = s.amount /\ z.outcome = s.outcome
    BY <1>q, <2>1, Swallowed
  <2> HIDE DEF z, s
  <2>3. BatchTypes'
    BY <1>0, <2>0, <2>2 DEF BatchTypes, T, z
  <2>4. BatchWaits' /\ BatchCounts'
    BY <1>0, <1>a, <2>0, <2>2 DEF BatchWaits, BatchCounts, z, s
  <2> QED  BY <2>3, <2>4 DEF BatchInv
<1>8. CASE UNCHANGED Batch!vars
  BY <1>8, <1>a DEF Batch!vars, BatchInv, BatchTypes, BatchWaits, BatchCounts
<1> QED  BY <1>1, <1>2, <1>3, <1>4, <1>5, <1>6, <1>7, <1>8 DEF Batch!Next

\* The batch example of lib.rs, whatever the lengths of its loops: drain(0..2)
\* finds two bytes, though after an error nobody has a permit for them.
THEOREM BatchesAreWhole ==
  ASSUME BatchAssumption
  PROVE  Batch!Spec => []DrainInRange
<1>1. Batch!Init => BatchInv
  <2> SUFFICES ASSUME Batch!Init PROVE BatchInv
    OBVIOUS
  <2> DEFINE T == BatchTasks
  <2>1. batchSem = [permits |-> 0, poisoned |-> FALSE, failing |-> FALSE, queue |-> <<>>,
                    amount |-> [t \in T |-> 0], outcome |-> [t \in T |-> "none"]]
    <3>1. (0 > MaxAvailable) = FALSE
      OBVIOUS
    <3> QED  BY <3>1 DEF Batch!Init, Batch!Semaphore!New, BatchTasks
  <2>2. /\ batchSem \in SemRecord(T) /\ batchSem.permits = 0 /\ ~batchSem.poisoned
        /\ ~batchSem.failing /\ batchSem.queue = <<>> /\ batchSem.outcome = [t \in T |-> "none"]
    BY <2>1 DEF SemRecord, Outcome
  <2>3. QueueOK(batchSem, T) /\ batchSem.outcome["receiver"] = "none"
    BY <2>2 DEF QueueOK, BatchTasks
  <2>4. /\ batch = 0 /\ batchSender = [at |-> "extend", left |-> Sends]
        /\ batchReceiver = [at |-> "acquire", left |-> Receives]
    BY DEF Batch!Init
  <2>5. BatchTypes
    BY <2>3, <2>4 DEF BatchTypes, BatchAssumption
  <2>6. BatchWaits /\ BatchCounts
    BY <2>2, <2>3, <2>4 DEF BatchWaits, BatchCounts, BatchAssumption
  <2> QED  BY <2>5, <2>6 DEF BatchInv
<1>2. BatchInv /\ [Batch!Next]_(Batch!vars) => BatchInv'
  BY BatchInductive
<1>3. BatchInv => Batch!DrainInRange
  BY BatchIsThere
<1> QED  BY <1>1, <1>2, <1>3, PTL DEF Batch!Spec, DrainInRange

-----------------------------------------------------------------------------
(* ArcLifetime *)

\* A thread has a future, a handle and a local Arc at most once, and there is room
\* for finitely many guards.
ArcsAssumption == IsFiniteSet(Holders) /\ IsFiniteSet(Guards)

FutureOwners == {u \in Holders : future[u] # "none" /\ pc[u] \notin {"drop", "cancel"}}
LocalOwners  == {u \in Holders : pc[u] = "release"}

ArcTypes ==
  /\ handle \subseteq Holders /\ guard \subseteq Guards
  /\ future \in [Holders -> {"none", "Entering", "Waiting", "Done"}]
  /\ pc \in [Holders -> {"idle", "call", "poll", "drop", "cancel", "release"}]

\* Who is in a call owns what it is on, or has the future that does.
ArcCalls ==
  \A t \in Holders :
    /\ pc[t] = "call" => t \in handle
    /\ pc[t] = "poll" => future[t] \in {"Entering", "Waiting"}
    /\ pc[t] \in {"drop", "cancel"} => future[t] # "none"
    /\ KeepHandles => (future[t] # "none" => t \in handle)

\* Each Arc is counted once.
ArcCount ==
  strong = Cardinality(handle) + Cardinality(guard) + Cardinality(FutureOwners)
             + Cardinality(LocalOwners)

ArcInv == ArcTypes /\ ArcCalls /\ ArcCount

\* A member that comes or goes.
LEMMA OneMore ==
  ASSUME NEW S, IsFiniteSet(S), NEW x
  PROVE  /\ Cardinality(S) \in Nat
         /\ x \notin S => Cardinality(S \cup {x}) = Cardinality(S) + 1
         /\ x \in S => Cardinality(S) = Cardinality(S \ {x}) + 1
<1>1. Cardinality(S) \in Nat
  BY FS_CardinalityType
<1>2. x \notin S => Cardinality(S \cup {x}) = Cardinality(S) + 1
  BY FS_AddElement
<1>3. x \in S => Cardinality(S \ {x}) = Cardinality(S) - 1
  BY FS_RemoveElement
<1> QED  BY <1>1, <1>2, <1>3

\* What each kind of owner adds to Owners.
LEMMA OwnersCount ==
  ASSUME ArcsAssumption, ArcTypes
  PROVE  Arcs!Cardinality(Arcs!Owners)
           = Cardinality(handle) + Cardinality(guard) + Cardinality(FutureOwners)
               + Cardinality(LocalOwners)
<1> DEFINE Kind(S, k) == S \X {k}
<1>1. ASSUME NEW S, IsFiniteSet(S), NEW k
      PROVE  IsFiniteSet(Kind(S, k)) /\ Cardinality(Kind(S, k)) = Cardinality(S)
  <2>1. IsFiniteSet({k}) /\ Cardinality({k}) = 1 /\ Cardinality(S) \in Nat
    BY <1>1, FS_Singleton, FS_CardinalityType
  <2> QED  BY <1>1, <2>1, FS_Product
<1>2. ASSUME NEW A, NEW B, IsFiniteSet(A), IsFiniteSet(B), A \cap B = {}
      PROVE  /\ IsFiniteSet(A \cup B)
             /\ Cardinality(A \cup B) = Cardinality(A) + Cardinality(B)
  <2>1. Cardinality(A \cap B) = 0 /\ Cardinality(A) \in Nat /\ Cardinality(B) \in Nat
    BY <1>2, FS_EmptySet, FS_CardinalityType
  <2>2. /\ IsFiniteSet(A \cup B)
        /\ Cardinality(A \cup B) = Cardinality(A) + Cardinality(B) - Cardinality(A \cap B)
    BY <1>2, FS_Union
  <2> QED  BY <2>1, <2>2
<1>3. /\ IsFiniteSet(handle) /\ IsFiniteSet(guard)
      /\ IsFiniteSet(FutureOwners) /\ IsFiniteSet(LocalOwners)
  <2>1. /\ handle \subseteq Holders /\ guard \subseteq Guards
        /\ FutureOwners \subseteq Holders /\ LocalOwners \subseteq Holders
    BY DEF ArcTypes, FutureOwners, LocalOwners
  <2> QED  BY <2>1, FS_Subset DEF ArcsAssumption
<1> DEFINE H == Kind(handle, "handle")
           G == Kind(guard, "guard")
           F == Kind(FutureOwners, "future")
           L == Kind(LocalOwners, "local")
<1>4. Arcs!Owners = ((H \cup G) \cup F) \cup L
  BY DEF Arcs!Owners, FutureOwners, LocalOwners
<1>5. H \cap G = {} /\ (H \cup G) \cap F = {} /\ ((H \cup G) \cup F) \cap L = {}
  OBVIOUS
<1>6. /\ IsFiniteSet(H) /\ Cardinality(H) = Cardinality(handle)
      /\ IsFiniteSet(G) /\ Cardinality(G) = Cardinality(guard)
      /\ IsFiniteSet(F) /\ Cardinality(F) = Cardinality(FutureOwners)
      /\ IsFiniteSet(L) /\ Cardinality(L) = Cardinality(LocalOwners)
  BY <1>1, <1>3
<1> HIDE DEF H, G, F, L
<1>7. IsFiniteSet(H \cup G) /\ Cardinality(H \cup G) = Cardinality(H) + Cardinality(G)
  BY <1>2, <1>5, <1>6
<1>8. /\ IsFiniteSet((H \cup G) \cup F)
      /\ Cardinality((H \cup G) \cup F) = Cardinality(H \cup G) + Cardinality(F)
  BY <1>2, <1>5, <1>6, <1>7
<1>9. Cardinality(((H \cup G) \cup F) \cup L) = Cardinality((H \cup G) \cup F) + Cardinality(L)
  BY <1>2, <1>5, <1>6, <1>8
<1>10. Arcs!Cardinality(Arcs!Owners) = Cardinality(Arcs!Owners)
  BY DEF Arcs!Cardinality, Cardinality
<1> QED  BY <1>4, <1>6, <1>7, <1>8, <1>9, <1>10

\* The sets whose members are counted are finite.
LEMMA ArcsFinite ==
  ASSUME ArcsAssumption, ArcTypes
  PROVE  /\ IsFiniteSet(handle) /\ IsFiniteSet(guard)
         /\ IsFiniteSet(FutureOwners) /\ IsFiniteSet(LocalOwners)
<1>1. /\ handle \subseteq Holders /\ guard \subseteq Guards
      /\ FutureOwners \subseteq Holders /\ LocalOwners \subseteq Holders
  BY DEF ArcTypes, FutureOwners, LocalOwners
<1> QED  BY <1>1, FS_Subset DEF ArcsAssumption

\* Every step keeps the types, ...
LEMMA ArcTypesKept ==
  ASSUME ArcTypes, [Arcs!Next]_(Arcs!vars)
  PROVE  ArcTypes'
<1> USE DEF ArcTypes, Arcs!Goto, Arcs!Becomes
<1>1. ASSUME NEW t \in Holders, Arcs!Step(t) PROVE ArcTypes'
  <2>1. CASE Arcs!AcquireArc(t) \/ Arcs!Call(t) \/ Arcs!Poll(t) \/ Arcs!DropHandle(t)
    BY <2>1 DEF Arcs!AcquireArc, Arcs!Call, Arcs!Poll, Arcs!DropHandle
  <2>2. CASE Arcs!Return(t)
    BY <2>2 DEF Arcs!Return
  <2>3. CASE Arcs!PollReturns(t)
    BY <2>3 DEF Arcs!PollReturns
  <2>4. CASE Arcs!DropFutureArc(t) \/ Arcs!DropFutureInner(t) \/ Arcs!CancelReturns(t)
    BY <2>4 DEF Arcs!DropFutureArc, Arcs!DropFutureInner, Arcs!CancelReturns
  <2>5. CASE Arcs!DropGuardReturns(t)
    BY <2>5 DEF Arcs!DropGuardReturns
  <2>6. ASSUME NEW u \in Holders, Arcs!Share(t, u) PROVE ArcTypes'
    BY <2>6 DEF Arcs!Share
  <2>7. ASSUME NEW g \in Guards, Arcs!DropGuard(t, g) PROVE ArcTypes'
    BY <2>7 DEF Arcs!DropGuard
  <2> QED  BY <1>1, <2>1, <2>2, <2>3, <2>4, <2>5, <2>6, <2>7 DEF Arcs!Step
<1>2. ASSUME NEW g \in Guards, Arcs!Forget(g) \/ \E h \in Guards : Arcs!Split(g, h)
      PROVE  ArcTypes'
  BY <1>2 DEF Arcs!Forget, Arcs!Split
<1>3. CASE UNCHANGED Arcs!vars
  BY <1>3 DEF Arcs!vars
<1> QED  BY <1>1, <1>2, <1>3 DEF Arcs!Next

\* ... and that a caller has what the call is on.
LEMMA ArcCallsKept ==
  ASSUME ArcTypes, ArcCalls, [Arcs!Next]_(Arcs!vars)
  PROVE  ArcCalls'
<1> USE DEF ArcTypes, ArcCalls, Arcs!Goto, Arcs!Becomes
<1>1. ASSUME NEW t \in Holders, Arcs!Step(t) PROVE ArcCalls'
  <2>1. CASE Arcs!AcquireArc(t)
    BY <2>1 DEF Arcs!AcquireArc
  <2>2. CASE Arcs!Call(t) \/ Arcs!Return(t)
    BY <2>2 DEF Arcs!Call, Arcs!Return
  <2>3. CASE Arcs!Poll(t)
    BY <2>3 DEF Arcs!Poll
  <2>4. CASE Arcs!PollReturns(t)
    BY <2>4 DEF Arcs!PollReturns
  <2>5. CASE Arcs!DropFutureArc(t)
    BY <2>5 DEF Arcs!DropFutureArc
  <2>6. CASE Arcs!DropFutureInner(t) \/ Arcs!CancelReturns(t)
    BY <2>6 DEF Arcs!DropFutureInner, Arcs!CancelReturns
  <2>7. CASE Arcs!DropHandle(t)
    BY <2>7 DEF Arcs!DropHandle
  <2>8. CASE Arcs!DropGuardReturns(t)
    BY <2>8 DEF Arcs!DropGuardReturns
  <2>9. ASSUME NEW u \in Holders, Arcs!Share(t, u) PROVE ArcCalls'
    BY <2>9 DEF Arcs!Share
  <2>10. ASSUME NEW g \in Guards, Arcs!DropGuard(t, g) PROVE ArcCalls'
    BY <2>10 DEF Arcs!DropGuard
  <2> QED  BY <1>1, <2>1, <2>2, <2>3, <2>4, <2>5, <2>6, <2>7, <2>8, <2>9, <2>10 DEF Arcs!Step
<1>2. ASSUME NEW g \in Guards, Arcs!Forget(g) \/ \E h \in Guards : Arcs!Split(g, h)
      PROVE  ArcCalls'
  BY <1>2 DEF Arcs!Forget, Arcs!Split
<1>3. CASE UNCHANGED Arcs!vars
  BY <1>3 DEF Arcs!vars
<1> QED  BY <1>1, <1>2, <1>3 DEF Arcs!Next

\* Every Arc that comes or goes has an owner that comes or goes.
LEMMA ArcCountKept ==
  ASSUME ArcsAssumption, ArcInv, [Arcs!Next]_(Arcs!vars)
  PROVE  ArcCount'
<1> DEFINE F == FutureOwners
           L == LocalOwners
           H == handle
           G == guard
           Counted(s, A, B, C, D) ==
             s = Cardinality(A) + Cardinality(B) + Cardinality(C) + Cardinality(D)
<1>0. /\ IsFiniteSet(H) /\ IsFiniteSet(G) /\ IsFiniteSet(F) /\ IsFiniteSet(L)
      /\ Counted(strong, H, G, F, L)
  BY ArcsFinite DEF ArcInv, ArcCount
<1>a. /\ Cardinality(H) \in Nat /\ Cardinality(G) \in Nat
      /\ Cardinality(F) \in Nat /\ Cardinality(L) \in Nat
  BY <1>0, OneMore
<1>b. SUFFICES Counted(strong', H', G', F', L')
  BY DEF ArcCount
<1> HIDE DEF F, L, H, G
<1>e. ASSUME strong' = strong, H' = H, G' = G, F' = F, L' = L
      PROVE  Counted(strong', H', G', F', L')
  BY <1>e, <1>0
<1>g. ASSUME strong' = strong + 1, H' = H, F' = F, L' = L, NEW g, g \notin G, G' = G \cup {g}
      PROVE  Counted(strong', H', G', F', L')
  BY <1>g, <1>0, <1>a, OneMore
<1>c. ArcTypes /\ ArcCalls
  BY DEF ArcInv
<1> USE DEF ArcTypes, Arcs!Goto, Arcs!Becomes, Arcs!Clone, Arcs!Drop
<1>1. ASSUME NEW t \in Holders, Arcs!Step(t) PROVE Counted(strong', H', G', F', L')
  <2>1. CASE Arcs!AcquireArc(t)
    <3>1. /\ t \notin F /\ F' = F \cup {t} /\ H' = H /\ G' = G /\ L' = L /\ strong' = strong + 1
      BY <1>c, <2>1 DEF Arcs!AcquireArc, F, L, H, G, FutureOwners, LocalOwners
    <3> QED  BY <3>1, <1>0, <1>a, OneMore
  <2>2. CASE Arcs!Call(t)
    <3>1. F' = F /\ H' = H /\ G' = G /\ L' = L /\ strong' = strong
      BY <1>c, <2>2 DEF Arcs!Call, F, L, H, G, FutureOwners, LocalOwners
    <3> QED  BY <3>1, <1>e
  <2>3. CASE Arcs!Return(t)
    <3>1. F' = F /\ H' = H /\ L' = L
      BY <1>c, <2>3 DEF Arcs!Return, F, L, H, FutureOwners, LocalOwners
    <3>2. (UNCHANGED <<strong, G>>) \/ (strong' = strong + 1 /\ \E g \in Guards \ G : G' = G \cup {g})
      BY <2>3 DEF Arcs!Return, G
    <3> QED  BY <3>1, <3>2, <1>e, <1>g
  <2>4. CASE Arcs!Poll(t)
    <3>1. F' = F /\ H' = H /\ G' = G /\ L' = L /\ strong' = strong
      BY <1>c, <2>4 DEF Arcs!Poll, F, L, H, G, FutureOwners, LocalOwners
    <3> QED  BY <3>1, <1>e
  <2>5. CASE Arcs!PollReturns(t)
    <3>0. future[t] # "none" /\ pc[t] = "poll"
      BY <1>c, <2>5 DEF Arcs!PollReturns, ArcCalls
    <3>1. F' = F /\ H' = H /\ L' = L
      BY <1>c, <2>5, <3>0 DEF Arcs!PollReturns, F, L, H, FutureOwners, LocalOwners
    <3>2. (UNCHANGED <<strong, G>>) \/ (strong' = strong + 1 /\ \E g \in Guards \ G : G' = G \cup {g})
      BY <2>5 DEF Arcs!PollReturns, G
    <3> QED  BY <3>1, <3>2, <1>e, <1>g
  <2>6. CASE Arcs!DropFutureArc(t)
    <3>1. /\ t \in F /\ F' = F \ {t} /\ H' = H /\ G' = G /\ L' = L /\ strong' = strong - 1
      BY <1>c, <2>6 DEF Arcs!DropFutureArc, F, L, H, G, FutureOwners, LocalOwners
    <3>2. Cardinality(F) = Cardinality(F \ {t}) + 1 /\ Cardinality(F \ {t}) \in Nat
      BY <3>1, <1>0, OneMore, FS_RemoveElement, FS_CardinalityType
    <3> QED  BY <3>1, <3>2, <1>0, <1>a
  <2>7. CASE Arcs!DropFutureInner(t) \/ Arcs!CancelReturns(t)
    <3>1. F' = F /\ H' = H /\ G' = G /\ L' = L /\ strong' = strong
      BY <1>c, <2>7
         DEF Arcs!DropFutureInner, Arcs!CancelReturns, F, L, H, G, FutureOwners, LocalOwners
    <3> QED  BY <3>1, <1>e
  <2>8. CASE Arcs!DropHandle(t)
    <3>1. /\ t \in H /\ H' = H \ {t} /\ F' = F /\ G' = G /\ L' = L /\ strong' = strong - 1
      BY <1>c, <2>8 DEF Arcs!DropHandle, F, L, H, G, FutureOwners, LocalOwners
    <3>2. Cardinality(H) = Cardinality(H \ {t}) + 1 /\ Cardinality(H \ {t}) \in Nat
      BY <3>1, <1>0, OneMore, FS_RemoveElement, FS_CardinalityType
    <3> QED  BY <3>1, <3>2, <1>0, <1>a
  <2>9. CASE Arcs!DropGuardReturns(t)
    <3>1. /\ t \in L /\ L' = L \ {t} /\ F' = F /\ G' = G /\ H' = H /\ strong' = strong - 1
      BY <1>c, <2>9 DEF Arcs!DropGuardReturns, F, L, H, G, FutureOwners, LocalOwners
    <3>2. Cardinality(L) = Cardinality(L \ {t}) + 1 /\ Cardinality(L \ {t}) \in Nat
      BY <3>1, <1>0, OneMore, FS_RemoveElement, FS_CardinalityType
    <3> QED  BY <3>1, <3>2, <1>0, <1>a
  <2>10. ASSUME NEW u \in Holders, Arcs!Share(t, u) PROVE Counted(strong', H', G', F', L')
    <3>1. /\ u \notin H /\ H' = H \cup {u} /\ F' = F /\ G' = G /\ L' = L /\ strong' = strong + 1
      BY <2>10 DEF Arcs!Share, F, L, H, G, FutureOwners, LocalOwners
    <3> QED  BY <3>1, <1>0, <1>a, OneMore
  <2>11. ASSUME NEW g \in Guards, Arcs!DropGuard(t, g) PROVE Counted(strong', H', G', F', L')
    <3>1. /\ g \in G /\ G' = G \ {g} /\ t \notin L /\ L' = L \cup {t}
          /\ H' = H /\ F' = F /\ strong' = strong
      BY <1>c, <2>11 DEF Arcs!DropGuard, F, L, H, G, FutureOwners, LocalOwners
    <3>2. Cardinality(G) = Cardinality(G \ {g}) + 1 /\ Cardinality(G \ {g}) \in Nat
      BY <3>1, <1>0, OneMore, FS_RemoveElement, FS_CardinalityType
    <3>3. Cardinality(L \cup {t}) = Cardinality(L) + 1
      BY <3>1, <1>0, OneMore
    <3> QED  BY <3>1, <3>2, <3>3, <1>0, <1>a
  <2> QED  BY <1>1, <2>1, <2>2, <2>3, <2>4, <2>5, <2>6, <2>7, <2>8, <2>9, <2>10, <2>11 DEF Arcs!Step
<1>2. ASSUME NEW g \in Guards, Arcs!Forget(g) PROVE Counted(strong', H', G', F', L')
  <2>1. /\ g \in G /\ G' = G \ {g} /\ H' = H /\ F' = F /\ L' = L /\ strong' = strong - 1
    BY <1>2 DEF Arcs!Forget, F, L, H, G, FutureOwners, LocalOwners
  <2>2. Cardinality(G) = Cardinality(G \ {g}) + 1 /\ Cardinality(G \ {g}) \in Nat
    BY <2>1, <1>0, OneMore, FS_RemoveElement, FS_CardinalityType
  <2> QED  BY <2>1, <2>2, <1>0, <1>a
<1>3. ASSUME NEW g \in Guards, NEW h \in Guards, Arcs!Split(g, h)
      PROVE  Counted(strong', H', G', F', L')
  <2>1. h \notin G /\ G' = G \cup {h} /\ H' = H /\ F' = F /\ L' = L /\ strong' = strong + 1
    BY <1>3 DEF Arcs!Split, F, L, H, G, FutureOwners, LocalOwners
  <2> QED  BY <2>1, <1>g
<1>4. CASE UNCHANGED Arcs!vars
  <2>1. F' = F /\ H' = H /\ G' = G /\ L' = L /\ strong' = strong
    BY <1>4 DEF Arcs!vars, F, L, H, G, FutureOwners, LocalOwners
  <2> QED  BY <2>1, <1>e
<1> QED  BY <1>1, <1>2, <1>3, <1>4 DEF Arcs!Next

\* Nobody has anything of the semaphore at first but one thread, which has a handle.
LEMMA ArcInitially == ASSUME ArcsAssumption, Arcs!Init PROVE ArcInv
<1>1. PICK t \in Holders : handle = {t}
  BY DEF Arcs!Init
<1>2. ArcTypes /\ ArcCalls
  BY <1>1 DEF Arcs!Init, ArcTypes, ArcCalls
<1>3. FutureOwners = {} /\ LocalOwners = {} /\ guard = {} /\ strong = 1
  BY DEF Arcs!Init, FutureOwners, LocalOwners
<1>4. Cardinality({}) = 0 /\ Cardinality({t}) = 1
  BY FS_EmptySet, FS_Singleton
<1> QED  BY <1>1, <1>2, <1>3, <1>4 DEF ArcInv, ArcCount

\* So ArcInv is inductive.
LEMMA ArcInductive ==
  ASSUME ArcsAssumption, ArcInv, [Arcs!Next]_(Arcs!vars)
  PROVE  ArcInv'
BY ArcTypesKept, ArcCallsKept, ArcCountKept DEF ArcInv

\* Whoever is in a call has an Arc, or has given it to the call.
LEMMA CallersOwn ==
  ASSUME ArcsAssumption, KeepHandles, ArcInv
  PROVE  Arcs!AliveInCalls
<1> SUFFICES ASSUME NEW t \in Holders, pc[t] \in Arcs!InCall PROVE strong > 0
  BY DEF Arcs!AliveInCalls
<1>1. t \in handle \/ t \in FutureOwners \/ t \in LocalOwners
  BY DEF Arcs!InCall, ArcInv, ArcTypes, ArcCalls, FutureOwners, LocalOwners
<1>2. /\ IsFiniteSet(handle) /\ IsFiniteSet(guard)
      /\ IsFiniteSet(FutureOwners) /\ IsFiniteSet(LocalOwners)
  BY ArcsFinite DEF ArcInv
<1>3. ASSUME NEW S, IsFiniteSet(S) PROVE Cardinality(S) \in Nat /\ (t \in S => Cardinality(S) > 0)
  BY <1>3, FS_CardinalityType, FS_EmptySet
<1>4. /\ Cardinality(handle) \in Nat /\ Cardinality(guard) \in Nat
      /\ Cardinality(FutureOwners) \in Nat /\ Cardinality(LocalOwners) \in Nat
      /\ \/ Cardinality(handle) > 0
         \/ Cardinality(FutureOwners) > 0
         \/ Cardinality(LocalOwners) > 0
  BY <1>1, <1>2, <1>3
<1> QED  BY <1>4 DEF ArcInv, ArcCount

\* acquire_arc, split, forget and the drops of futures and guards, by any number of
\* threads: the strong count is that of the Arcs that somebody has, ...
THEOREM NoArcIsLeaked ==
  ASSUME ArcsAssumption
  PROVE  Arcs!Spec => []NoneLeaked
<1>1. Arcs!Init => ArcInv
  BY ArcInitially
<1>2. ArcInv /\ [Arcs!Next]_(Arcs!vars) => ArcInv'
  BY ArcInductive
<1>3. ArcInv => Arcs!NoneLeaked
  BY OwnersCount DEF ArcInv, ArcCount, Arcs!NoneLeaked
<1> QED  BY <1>1, <1>2, <1>3, PTL DEF Arcs!Spec, NoneLeaked

\* ... and none of them is in a call of a semaphore that is gone, if no future
\* outlives its thread's own Arc.
THEOREM CallsAreAlive ==
  ASSUME ArcsAssumption, KeepHandles
  PROVE  Arcs!Spec => []AliveInCalls
<1>1. Arcs!Init => ArcInv
  BY ArcInitially
<1>2. ArcInv /\ [Arcs!Next]_(Arcs!vars) => ArcInv'
  BY ArcInductive
<1>3. ArcInv => Arcs!AliveInCalls
  BY CallersOwn
<1> QED  BY <1>1, <1>2, <1>3, PTL DEF Arcs!Spec, AliveInCalls

-----------------------------------------------------------------------------
(* Pipe *)

PipeAssumption ==
  /\ IsFiniteSet(Readers) /\ IsFiniteSet(Writers)
  /\ Capacity \in Nat /\ Writes \in Nat /\ ReadSizes \subseteq Nat /\ WriteSizes \subseteq Nat

ReaderAt == {"none", "next", "acquire", "read", "drain", "release", "release_end", "drop", "end"}
WriterAt == {"next", "acquire", "write", "release", "drop", "end"}

PipeTypes ==
  /\ buffer \in Nat
  /\ reader \in [Readers -> [at: ReaderAt, size: Nat]]
  /\ writer \in [Writers -> [at: WriterAt, size: Nat, left: Nat]]
  /\ Uses(free, Writers, writer) /\ Uses(ready, Readers, reader)

\* What readers have taken and not yet given back as room, and what writers have
\* written and not yet announced.
Room(u) == SumOf(Has(Readers, u, {"release", "release_end"}), Readers)
News(u) == SumOf(Has(Writers, u, {"release"}), Writers)

\* The room is free, with a writer, in the buffer, or with a reader.
PipeRoom == All(free, Writers, writer, "write") + buffer + Room(reader) <= Capacity

\* Until readers are failed, what is announced or about to be is in the buffer;
\* then a reader drains bytes that others may have the permits of, if there are any.
PipeCovered ==
  /\ \A r \in Readers : reader[r].at = "drain" => ready.failing
  /\ ~ready.failing => All(ready, Readers, reader, "read") + News(writer) <= buffer
  /\ Piped!OneReader => Held(ready, Readers, reader, "read") <= buffer

PipeInv == PipeTypes /\ PipeRoom /\ PipeCovered

\* The counts of the pipe are counts.
LEMMA PipeCounts ==
  ASSUME PipeAssumption, NEW f, NEW d, NEW u, NEW v, Uses(f, Writers, v), Uses(d, Readers, u)
  PROVE  /\ All(f, Writers, v, "write") \in Nat /\ Room(u) \in Nat
         /\ All(d, Readers, u, "read") \in Nat /\ News(v) \in Nat
         /\ Held(d, Readers, u, "read") \in Nat
         /\ Held(d, Readers, u, "read") <= All(d, Readers, u, "read")
         /\ f.permits \in Nat /\ d.permits \in Nat
         /\ Held(f, Writers, v, "write") \in Nat
         /\ Capacity \in Nat
<1>1. /\ IsFiniteSet(Readers) /\ IsFiniteSet(Writers) /\ Capacity \in Nat
      /\ \A r \in Readers : u[r].size \in Nat
      /\ \A w \in Writers : v[w].size \in Nat
  BY DEF PipeAssumption, Uses
<1>2. /\ Held(f, Writers, v, "write") \in Nat /\ f.permits \in Nat
      /\ All(f, Writers, v, "write") \in Nat
  BY <1>1, HoldsType
<1>3. /\ Held(d, Readers, u, "read") \in Nat /\ d.permits \in Nat
      /\ All(d, Readers, u, "read") \in Nat
  BY <1>1, HoldsType
<1>4. Held(d, Readers, u, "read") <= All(d, Readers, u, "read")
  BY <1>3 DEF All
<1>5. Room(u) \in Nat
  <2>1. Has(Readers, u, {"release", "release_end"}) \in [Readers -> Nat]
    BY <1>1 DEF Has
  <2> QED  BY <1>1, <2>1, OnesFinite DEF Room
<1>6. News(v) \in Nat
  <2>1. Has(Writers, v, {"release"}) \in [Writers -> Nat]
    BY <1>1 DEF Has
  <2> QED  BY <1>1, <2>1, OnesFinite DEF News
<1> QED  BY <1>1, <1>2, <1>3, <1>4, <1>5, <1>6

\* What a step must do to the counts.
LEMMA PipeStep ==
  ASSUME PipeAssumption, PipeInv, PipeTypes',
         \A r \in Readers : reader'[r].at = "none" => reader[r].at = "none",
         All(free', Writers, writer', "write") + buffer' + Room(reader')
           <= All(free, Writers, writer, "write") + buffer + Room(reader),
         \A r \in Readers : reader'[r].at = "drain" => ready'.failing,
         ~ready'.failing =>
           /\ ~ready.failing
           /\ All(ready', Readers, reader', "read") + News(writer') + buffer
                <= All(ready, Readers, reader, "read") + News(writer) + buffer',
         ready'.failing /\ Piped!OneReader' =>
           \/ Held(ready', Readers, reader', "read") + buffer
                <= Held(ready, Readers, reader, "read") + buffer'
           \/ Held(ready', Readers, reader', "read") = 0
  PROVE  PipeInv'
<1>1. PipeTypes /\ PipeRoom /\ PipeCovered
  BY DEF PipeInv
<1>2. /\ Held(ready, Readers, reader, "read") \in Nat /\ buffer \in Nat
      /\ All(ready, Readers, reader, "read") \in Nat /\ News(writer) \in Nat
      /\ All(free, Writers, writer, "write") \in Nat /\ Room(reader) \in Nat /\ Capacity \in Nat
  BY <1>1, PipeCounts DEF PipeTypes
<1>3. /\ Held(ready', Readers, reader', "read") \in Nat /\ buffer' \in Nat
      /\ All(ready', Readers, reader', "read") \in Nat /\ News(writer') \in Nat
      /\ Held(ready', Readers, reader', "read") <= All(ready', Readers, reader', "read")
      /\ All(free', Writers, writer', "write") \in Nat /\ Room(reader') \in Nat
  <2>1. Uses(free', Writers, writer') /\ Uses(ready', Readers, reader') /\ buffer' \in Nat
    BY DEF PipeTypes
  <2> QED  BY <2>1, PipeCounts
<1>4. PipeRoom'
  BY <1>1, <1>2, <1>3 DEF PipeRoom
<1>5. ~ready'.failing => All(ready', Readers, reader', "read") + News(writer') <= buffer'
  BY <1>1, <1>2, <1>3 DEF PipeCovered
<1>6. Piped!OneReader' => Held(ready', Readers, reader', "read") <= buffer'
  <2>1. CASE ~ready'.failing
    BY <2>1, <1>3, <1>5
  <2>2. CASE ready'.failing
    <3>1. Piped!OneReader' => Piped!OneReader
      BY DEF Piped!OneReader
    <3> QED  BY <2>2, <3>1, <1>1, <1>2, <1>3 DEF PipeCovered
  <2> QED  BY <2>1, <2>2
<1>7. PipeCovered'
  BY <1>5, <1>6 DEF PipeCovered
<1> QED  BY <1>4, <1>7 DEF PipeInv

\* A reader, or a writer, that goes on from where it does not acquire.
LEMMA ReaderMoves ==
  ASSUME PipeAssumption, NEW d, NEW u, Uses(d, Readers, u), NEW r \in Readers,
         NEW v, v[r].size \in Nat, \A x \in Readers \ {r} : v[x] = u[x], u[r].at # "acquire"
  PROVE  /\ Uses(d, Readers, v)
         /\ Held(d, Readers, v, "read") + (IF u[r].at = "read" THEN u[r].size ELSE 0)
              = Held(d, Readers, u, "read") + (IF v[r].at = "read" THEN v[r].size ELSE 0)
         /\ Room(v) + (IF u[r].at \in {"release", "release_end"} THEN u[r].size ELSE 0)
              = Room(u) + (IF v[r].at \in {"release", "release_end"} THEN v[r].size ELSE 0)
<1>1. IsFiniteSet(Readers) /\ \A x \in Readers : u[x].size \in Nat
  BY DEF PipeAssumption, Uses
<1>2. /\ Uses(d, Readers, v)
      /\ Held(d, Readers, v, "read") + (IF u[r].at = "read" THEN u[r].size ELSE 0)
           = Held(d, Readers, u, "read") + (IF v[r].at = "read" THEN v[r].size ELSE 0)
  BY <1>1, Moved
<1>3. Room(v) + (IF u[r].at \in {"release", "release_end"} THEN u[r].size ELSE 0)
        = Room(u) + (IF v[r].at \in {"release", "release_end"} THEN v[r].size ELSE 0)
  BY <1>1, HasStep DEF Room
<1> QED  BY <1>2, <1>3

\* The same of a writer.
LEMMA WriterMoves ==
  ASSUME PipeAssumption, NEW f, NEW u, Uses(f, Writers, u), NEW w \in Writers,
         NEW v, v[w].size \in Nat, \A x \in Writers \ {w} : v[x] = u[x], u[w].at # "acquire"
  PROVE  /\ Uses(f, Writers, v)
         /\ Held(f, Writers, v, "write") + (IF u[w].at = "write" THEN u[w].size ELSE 0)
              = Held(f, Writers, u, "write") + (IF v[w].at = "write" THEN v[w].size ELSE 0)
         /\ News(v) + (IF u[w].at = "release" THEN u[w].size ELSE 0)
              = News(u) + (IF v[w].at = "release" THEN v[w].size ELSE 0)
<1>1. IsFiniteSet(Writers) /\ \A x \in Writers : u[x].size \in Nat
  BY DEF PipeAssumption, Uses
<1>2. /\ Uses(f, Writers, v)
      /\ Held(f, Writers, v, "write") + (IF u[w].at = "write" THEN u[w].size ELSE 0)
           = Held(f, Writers, u, "write") + (IF v[w].at = "write" THEN v[w].size ELSE 0)
  BY <1>1, Moved
<1>3. News(v) + (IF u[w].at \in {"release"} THEN u[w].size ELSE 0)
        = News(u) + (IF v[w].at \in {"release"} THEN v[w].size ELSE 0)
  BY <1>1, HasStep DEF News
<1> QED  BY <1>2, <1>3

\* A Reader that was cloned is not forgotten.
LEMMA ReadersStay ==
  ASSUME NEW r \in Readers, Piped!ReaderStep(r),
         reader \in [Readers -> [at: ReaderAt, size: Nat]]
  PROVE  \A x \in Readers : reader'[x].at = "none" => reader[x].at = "none"
<1>1. reader'[r].at # "none" /\ \A x \in Readers \ {r} : reader'[x] = reader[x]
  <2>1. CASE Piped!BeginRead(r)
    BY <2>1 DEF Piped!BeginRead
  <2>2. CASE Piped!AcquireReady(r)
    BY <2>2 DEF Piped!AcquireReady, Piped!ReaderGoes
  <2>3. CASE Piped!Read(r) \/ Piped!Drain(r)
    BY <2>3 DEF Piped!Read, Piped!Drain, Piped!TakeBytes
  <2>4. CASE Piped!ReleaseFree(r) \/ Piped!DropReader(r)
    BY <2>4 DEF Piped!ReleaseFree, Piped!DropReader, Piped!ReaderGoes
  <2> QED  BY <2>1, <2>2, <2>3, <2>4 DEF Piped!ReaderStep
<1> QED  BY <1>1

\* Every step of a reader keeps PipeInv.
LEMMA ReaderInductive ==
  ASSUME PipeAssumption, PipeInv, NEW r \in Readers, Piped!ReaderStep(r)
  PROVE  PipeInv'
<1> DEFINE A(f, v) == All(f, Writers, v, "write")
           B(d, u) == All(d, Readers, u, "read")
           H(d, u) == Held(d, Readers, u, "read")
<1>0. /\ PipeTypes /\ PipeRoom /\ PipeCovered
      /\ buffer \in Nat /\ reader \in [Readers -> [at: ReaderAt, size: Nat]]
      /\ writer \in [Writers -> [at: WriterAt, size: Nat, left: Nat]]
      /\ Uses(free, Writers, writer) /\ Uses(ready, Readers, reader)
      /\ reader[r].size \in Nat /\ IsFiniteSet(Readers) /\ IsFiniteSet(Writers)
      /\ ReadSizes \subseteq Nat
  BY DEF PipeInv, PipeTypes, PipeAssumption
<1>c. \A x \in Readers : reader[x].at = "drain" => ready.failing
  BY <1>0 DEF PipeCovered
<1>n. /\ A(free, writer) \in Nat /\ Room(reader) \in Nat
      /\ B(ready, reader) \in Nat /\ News(writer) \in Nat
      /\ H(ready, reader) \in Nat /\ ready.permits \in Nat
  BY <1>0, PipeCounts
<1>o. \A x \in Readers : reader'[x].at = "none" => reader[x].at = "none"
  BY <1>0, ReadersStay
<1> SUFFICES /\ PipeTypes'
             /\ A(free', writer') + buffer' + Room(reader')
                  <= A(free, writer) + buffer + Room(reader)
             /\ \A x \in Readers : reader'[x].at = "drain" => ready'.failing
             /\ ~ready'.failing =>
                  /\ ~ready.failing
                  /\ B(ready', reader') + News(writer') + buffer
                       <= B(ready, reader) + News(writer) + buffer'
             /\ ready'.failing /\ Piped!OneReader' =>
                  \/ H(ready', reader') + buffer <= H(ready, reader) + buffer'
                  \/ H(ready', reader') = 0
  BY <1>o, PipeStep
<1>1. CASE Piped!BeginRead(r)
  <2>1. /\ reader[r].at = "next" /\ reader'[r].at = "acquire" /\ reader'[r].size \in Nat
        /\ \A x \in Readers \ {r} : reader'[x] = reader[x]
        /\ reader' \in [Readers -> [at: ReaderAt, size: Nat]]
        /\ UNCHANGED <<ready, free, buffer, writer>>
    <3>1. /\ reader[r].at = "next" /\ UNCHANGED <<ready, free, buffer, writer>>
          /\ \E n \in ReadSizes : reader' = [reader EXCEPT ![r] = [at |-> "acquire", size |-> n]]
      BY <1>1 DEF Piped!BeginRead
    <3>2. PICK n \in Nat : reader' = [reader EXCEPT ![r] = [at |-> "acquire", size |-> n]]
      BY <1>0, <3>1
    <3> QED  BY <1>0, <3>1, <3>2 DEF ReaderAt
  <2>2. /\ Uses(ready, Readers, reader') /\ H(ready, reader') = H(ready, reader)
        /\ Room(reader') = Room(reader)
    <3>1. /\ Uses(ready, Readers, reader')
          /\ H(ready, reader') + 0 = H(ready, reader) + 0
          /\ Room(reader') + 0 = Room(reader) + 0
      BY <1>0, <2>1, ReaderMoves
    <3>2. H(ready, reader') \in Nat /\ Room(reader') \in Nat
      BY <1>0, <3>1, PipeCounts
    <3> HIDE DEF H
    <3> QED  BY <1>n, <3>1, <3>2
  <2>3. B(ready, reader') = B(ready, reader)
    BY <2>2 DEF All
  <2>4. PipeTypes'
    BY <1>0, <2>1, <2>2 DEF PipeTypes
  <2> HIDE DEF A, B, H
  <2> QED  BY <1>0, <1>c, <1>n, <2>1, <2>2, <2>3, <2>4
<1>2. CASE Piped!AcquireReady(r)
  <2>0. reader[r].at = "acquire" /\ UNCHANGED <<free, buffer, writer>>
    BY <1>2 DEF Piped!AcquireReady
  <2>1. /\ Acquires(ready, ready', Readers, reader, reader', r, "read", "drain")
        /\ reader' \in [Readers -> [at: ReaderAt, size: Nat]]
    <3>1. ASSUME NEW label \in ReaderAt, Piped!ReaderGoes(r, label)
          PROVE  /\ Goes(Readers, reader, reader', r, label)
                 /\ reader' \in [Readers -> [at: ReaderAt, size: Nat]]
      BY <1>0, <3>1 DEF Piped!ReaderGoes, Goes
    <3>2. "read" \in ReaderAt /\ "drain" \in ReaderAt
      BY DEF ReaderAt
    <3>3. CASE ready.outcome[r] = "none" /\ Piped!Ready!Take(reader[r].size) /\ Piped!ReaderGoes(r, "read")
      <4>1. Takes(ready, ready', reader[r].size)
        BY <3>3 DEF Piped!Ready!Take, Piped!Ready!MayTake, Takes
      <4> QED  BY <2>0, <3>1, <3>2, <3>3, <4>1 DEF Acquires
    <3>4. CASE Piped!Ready!Enqueue(r, reader[r].size) /\ UNCHANGED reader
      <4>1. Enqueues(ready, ready', r, reader[r].size)
        BY <3>4 DEF Piped!Ready!Enqueue, Enqueues
      <4> QED  BY <1>0, <2>0, <3>4, <4>1 DEF Acquires
    <3>5. CASE ready.outcome[r] = "none" /\ ready.failing /\ Piped!ReaderGoes(r, "drain") /\ ready' = ready
      BY <2>0, <3>1, <3>2, <3>5 DEF Acquires
    <3>6. CASE Piped!Ready!Collect(r)
               /\ Piped!ReaderGoes(r, IF ready.outcome[r] = "Ok" THEN "read" ELSE "drain")
      <4>1. Collects(ready, ready', r) /\ ready.outcome[r] \in {"Ok", "Poisoned"}
        BY <3>6 DEF Piped!Ready!Collect, Piped!Ready!Done, Collects
      <4>2. CASE ready.outcome[r] = "Ok"
        BY <2>0, <3>1, <3>2, <3>6, <4>1, <4>2 DEF Acquires
      <4>3. CASE ready.outcome[r] = "Poisoned"
        BY <2>0, <3>1, <3>2, <3>6, <4>1, <4>3 DEF Acquires
      <4> QED  BY <4>1, <4>2, <4>3
    <3> QED  BY <1>2, <3>3, <3>4, <3>5, <3>6 DEF Piped!AcquireReady
  <2>2. /\ Uses(ready', Readers, reader') /\ B(ready', reader') = B(ready, reader)
        /\ (ready.failing => ready'.failing)
        /\ (ready.failing => H(ready', reader') = H(ready, reader))
        /\ (reader'[r].at = "drain" => ready.failing)
    BY <1>0, <2>1, Acquired
  <2>3. /\ reader'[r].at \in {"acquire", "read", "drain"} /\ reader'[r].size = reader[r].size
        /\ \A x \in Readers \ {r} : reader'[x] = reader[x]
    BY <2>0, <2>1 DEF Acquires, Goes
  <2>4. Room(reader') = Room(reader)
    <3>1. \A x \in Readers : Has(Readers, reader', {"release", "release_end"})[x]
                               = Has(Readers, reader, {"release", "release_end"})[x]
      BY <2>0, <2>3 DEF Has
    <3> QED  BY <3>1, SumSame DEF Room
  <2>5. ~ready.failing /\ ready'.failing => H(ready', reader') = H(ready, reader)
    <3> SUFFICES ASSUME ~ready.failing, ready'.failing PROVE H(ready', reader') = H(ready, reader)
      OBVIOUS
    <3>1. QueueOK(ready, Readers)
      BY <1>0 DEF Uses
    <3> DEFINE n == reader[r].size
    <3>2. n \in Nat /\ Acquires(ready, ready', Readers, reader, reader', r, "read", "drain")
      BY <1>0, <2>1
    <3>3. \/ Takes(ready, ready', n)
          \/ Enqueues(ready, ready', r, n)
          \/ Collects(ready, ready', r)
          \/ ready' = ready
      BY <3>2 DEF Acquires
    <3> HIDE DEF n
    <3>4. ready'.permits = ready.permits
      BY <3>1, <3>2, <3>3, FailingKeeps
    <3>5. H(ready', reader') \in Nat /\ ready.permits + H(ready', reader') = ready.permits + H(ready, reader)
      <4>1. H(ready', reader') \in Nat
        BY <1>0, <2>2, PipeCounts
      <4> QED  BY <2>2, <3>4, <4>1 DEF All
    <3> HIDE DEF H
    <3> QED  BY <1>n, <3>5
  <2>6. PipeTypes'
    BY <1>0, <2>0, <2>1, <2>2 DEF PipeTypes
  <2>7. \A x \in Readers : reader'[x].at = "drain" => ready'.failing
    BY <1>c, <2>2, <2>3
  <2> HIDE DEF A, B, H
  <2> QED  BY <1>0, <1>n, <2>0, <2>2, <2>4, <2>5, <2>6, <2>7
<1>3. CASE Piped!Read(r)
  <2> DEFINE n == reader[r].size
  <2>1. /\ reader[r].at = "read" /\ reader'[r].at = "release" /\ reader'[r].size = n
        /\ \A x \in Readers \ {r} : reader'[x] = reader[x]
        /\ reader' \in [Readers -> [at: ReaderAt, size: Nat]]
        /\ UNCHANGED <<ready, free, writer>>
        /\ n \in Nat /\ n <= buffer /\ buffer' = buffer - n
    BY <1>0, <1>3 DEF Piped!Read, Piped!TakeBytes, ReaderAt
  <2> HIDE DEF n
  <2>2. /\ Uses(ready, Readers, reader') /\ H(ready, reader') + n = H(ready, reader)
        /\ Room(reader') = Room(reader) + n /\ H(ready, reader') \in Nat
    <3>1. /\ Uses(ready, Readers, reader')
          /\ H(ready, reader') + n = H(ready, reader) + 0
          /\ Room(reader') + 0 = Room(reader) + n
      BY <1>0, <2>1, ReaderMoves DEF n
    <3>2. H(ready, reader') \in Nat /\ Room(reader') \in Nat
      BY <1>0, <3>1, PipeCounts
    <3> HIDE DEF H
    <3> QED  BY <1>n, <2>1, <3>1, <3>2
  <2>3. B(ready, reader') + n = B(ready, reader) /\ B(ready, reader') \in Nat
    BY <1>n, <2>1, <2>2 DEF All
  <2>4. PipeTypes'
    BY <1>0, <2>1, <2>2 DEF PipeTypes
  <2> HIDE DEF A, B, H
  <2> QED  BY <1>0, <1>c, <1>n, <2>1, <2>2, <2>3, <2>4
<1>4. CASE Piped!Drain(r)
  <2> DEFINE n == IF buffer < reader[r].size THEN buffer ELSE reader[r].size
  <2>1. /\ reader[r].at = "drain" /\ reader'[r].at \in {"release", "release_end"}
        /\ reader'[r].size = n
        /\ \A x \in Readers \ {r} : reader'[x] = reader[x]
        /\ reader' \in [Readers -> [at: ReaderAt, size: Nat]]
        /\ UNCHANGED <<ready, free, writer>>
        /\ n \in Nat /\ n <= buffer /\ buffer' = buffer - n
    BY <1>0, <1>4 DEF Piped!Drain, Piped!TakeBytes, ReaderAt
  <2>2. ready.failing
    BY <1>c, <2>1
  <2> HIDE DEF n
  <2>3. /\ Uses(ready, Readers, reader') /\ Room(reader') = Room(reader) + n
    <3>1. /\ Uses(ready, Readers, reader')
          /\ Room(reader') + 0 = Room(reader) + n
      BY <1>0, <2>1, ReaderMoves
    <3>2. Room(reader') \in Nat
      BY <1>0, <3>1, PipeCounts
    <3> QED  BY <1>n, <2>1, <3>1, <3>2
  <2>4. Piped!OneReader' => H(ready, reader') = 0
    <3> SUFFICES ASSUME Piped!OneReader' PROVE H(ready, reader') = 0
      OBVIOUS
    <3>1. \A x \in Readers \ {r} : reader[x].at = "none" /\ reader'[x] = reader[x]
      BY <2>1 DEF Piped!OneReader
    <3>2. \A x \in Readers : ready.outcome[x] # "Ok"
      BY <1>0, <2>1, <3>1 DEF Uses
    <3>3. \A x \in Readers : Holds(ready, Readers, reader', "read")[x] = 0
      BY <2>1, <3>1, <3>2 DEF Holds
    <3> QED  BY <3>3, SumNothing DEF Held
  <2>5. PipeTypes'
    BY <1>0, <2>1, <2>3 DEF PipeTypes
  <2> HIDE DEF A, B, H
  <2> QED  BY <1>0, <1>c, <1>n, <2>1, <2>2, <2>3, <2>4, <2>5
<1>5. CASE Piped!ReleaseFree(r)
  <2> DEFINE n == reader[r].size
  <2>1. /\ reader[r].at \in {"release", "release_end"} /\ reader'[r].at \in {"next", "drop"}
        /\ reader'[r].size = n
        /\ \A x \in Readers \ {r} : reader'[x] = reader[x]
        /\ reader' \in [Readers -> [at: ReaderAt, size: Nat]]
        /\ UNCHANGED <<ready, buffer, writer>> /\ n \in Nat
    BY <1>0, <1>5 DEF Piped!ReleaseFree, Piped!ReaderGoes, ReaderAt
  <2>2. Gives(free, free', n)
    BY <1>5 DEF Piped!ReleaseFree, Piped!GiveRoom, Piped!Free!Give, Piped!Free!Add, Gives
  <2> HIDE DEF n
  <2>3. /\ QueueOK(free', Writers) /\ free'.permits \in Nat /\ free'.permits <= free.permits + n
        /\ free'.amount = free.amount /\ free'.outcome = free.outcome
    <3>1. QueueOK(free, Writers)
      BY <1>0 DEF Uses
    <3> QED  BY <2>1, <2>2, <3>1, Given
  <2>4. /\ Uses(free', Writers, writer)
        /\ Held(free', Writers, writer, "write") = Held(free, Writers, writer, "write")
    BY <1>0, <2>3, SameUses
  <2>5. A(free', writer) <= A(free, writer) + n /\ A(free', writer) \in Nat
    <3>1. Held(free, Writers, writer, "write") \in Nat /\ free.permits \in Nat
      BY <1>0, PipeCounts
    <3> QED  BY <2>1, <2>3, <2>4, <3>1 DEF All
  <2>6. /\ Uses(ready, Readers, reader') /\ H(ready, reader') = H(ready, reader)
        /\ Room(reader') + n = Room(reader) /\ Room(reader') \in Nat
    <3>1. /\ Uses(ready, Readers, reader')
          /\ H(ready, reader') + 0 = H(ready, reader) + 0
          /\ Room(reader') + n = Room(reader) + 0
      BY <1>0, <2>1, ReaderMoves DEF n
    <3>2. H(ready, reader') \in Nat /\ Room(reader') \in Nat
      BY <1>0, <3>1, PipeCounts
    <3> HIDE DEF H
    <3> QED  BY <1>n, <2>1, <3>1, <3>2
  <2>7. B(ready, reader') = B(ready, reader)
    BY <2>6 DEF All
  <2>8. PipeTypes'
    BY <1>0, <2>1, <2>4, <2>6 DEF PipeTypes
  <2> HIDE DEF A, B, H
  <2> QED  BY <1>0, <1>c, <1>n, <2>1, <2>5, <2>6, <2>7, <2>8
<1>6. CASE Piped!DropReader(r)
  <2>1. /\ reader[r].at = "drop" /\ reader'[r].at = "end" /\ reader'[r].size = reader[r].size
        /\ \A x \in Readers \ {r} : reader'[x] = reader[x]
        /\ reader' \in [Readers -> [at: ReaderAt, size: Nat]]
        /\ UNCHANGED <<ready, buffer, writer>>
    BY <1>0, <1>6 DEF Piped!DropReader, Piped!ReaderGoes, ReaderAt
  <2>2. /\ QueueOK(free', Writers) /\ free'.permits = free.permits
        /\ free'.amount = free.amount /\ free'.outcome = free.outcome
    <3>1. QueueOK(free, Writers)
      BY <1>0 DEF Uses
    <3>2. free' = free \/ free' = [free EXCEPT !.poisoned = TRUE]
      BY <1>6 DEF Piped!DropReader, Piped!Free!PoisonAll
    <3> QED  BY <3>1, <3>2, PoisonedAll
  <2>3. /\ Uses(free', Writers, writer)
        /\ Held(free', Writers, writer, "write") = Held(free, Writers, writer, "write")
    BY <1>0, <2>2, SameUses
  <2>4. A(free', writer) = A(free, writer)
    BY <2>2, <2>3 DEF All
  <2>5. /\ Uses(ready, Readers, reader') /\ H(ready, reader') = H(ready, reader)
        /\ Room(reader') = Room(reader)
    <3>1. /\ Uses(ready, Readers, reader')
          /\ H(ready, reader') + 0 = H(ready, reader) + 0
          /\ Room(reader') + 0 = Room(reader) + 0
      BY <1>0, <2>1, ReaderMoves
    <3>2. H(ready, reader') \in Nat /\ Room(reader') \in Nat
      BY <1>0, <3>1, PipeCounts
    <3> HIDE DEF H
    <3> QED  BY <1>n, <3>1, <3>2
  <2>6. B(ready, reader') = B(ready, reader)
    BY <2>5 DEF All
  <2>7. PipeTypes'
    BY <1>0, <2>1, <2>3, <2>5 DEF PipeTypes
  <2> HIDE DEF A, B, H
  <2> QED  BY <1>0, <1>c, <1>n, <2>1, <2>4, <2>5, <2>6, <2>7
<1> QED  BY <1>1, <1>2, <1>3, <1>4, <1>5, <1>6 DEF Piped!ReaderStep

\* Every step of a writer keeps PipeInv.
LEMMA WriterInductive ==
  ASSUME PipeAssumption, PipeInv, NEW w \in Writers, Piped!WriterStep(w)
  PROVE  PipeInv'
<1> DEFINE A(f, v) == All(f, Writers, v, "write")
           B(d, u) == All(d, Readers, u, "read")
           H(d, u) == Held(d, Readers, u, "read")
           W(f, v) == Held(f, Writers, v, "write")
           Writer  == [Writers -> [at: WriterAt, size: Nat, left: Nat]]
           n       == writer[w].size
<1>0. /\ PipeTypes /\ PipeCovered
      /\ buffer \in Nat /\ reader \in [Readers -> [at: ReaderAt, size: Nat]]
      /\ writer \in Writer
      /\ Uses(free, Writers, writer) /\ Uses(ready, Readers, reader)
      /\ n \in Nat /\ IsFiniteSet(Readers) /\ IsFiniteSet(Writers)
      /\ WriteSizes \subseteq Nat
  BY DEF PipeInv, PipeTypes, PipeAssumption
<1>c. \A x \in Readers : reader[x].at = "drain" => ready.failing
  BY <1>0 DEF PipeCovered
<1>n. /\ A(free, writer) \in Nat /\ Room(reader) \in Nat
      /\ B(ready, reader) \in Nat /\ News(writer) \in Nat
      /\ H(ready, reader) \in Nat /\ ready.permits \in Nat
      /\ free.permits \in Nat /\ W(free, writer) \in Nat
  BY <1>0, PipeCounts
<1> HIDE DEF n
<1>r. reader' = reader
  BY DEF Piped!WriterStep, Piped!BeginWrite, Piped!AcquireFree, Piped!Write, Piped!ReleaseReady, Piped!DropWriter
<1> SUFFICES /\ PipeTypes'
             /\ A(free', writer') + buffer' + Room(reader')
                  <= A(free, writer) + buffer + Room(reader)
             /\ \A x \in Readers : reader'[x].at = "drain" => ready'.failing
             /\ ~ready'.failing =>
                  /\ ~ready.failing
                  /\ B(ready', reader') + News(writer') + buffer
                       <= B(ready, reader) + News(writer) + buffer'
             /\ ready'.failing /\ Piped!OneReader' =>
                  \/ H(ready', reader') + buffer <= H(ready, reader) + buffer'
                  \/ H(ready', reader') = 0
  BY <1>r, PipeStep
<1>1. CASE Piped!BeginWrite(w)
  <2>1. /\ writer[w].at = "next" /\ writer'[w].at = "acquire" /\ writer'[w].size \in Nat
        /\ \A x \in Writers \ {w} : writer'[x] = writer[x]
        /\ writer' \in Writer
        /\ UNCHANGED <<ready, free, buffer, reader>>
    <3>1. /\ writer[w].at = "next" /\ writer[w].left > 0 /\ UNCHANGED <<ready, free, buffer, reader>>
          /\ \E k \in WriteSizes :
               writer' = [writer EXCEPT ![w] = [at |-> "acquire", size |-> k, left |-> writer[w].left - 1]]
      BY <1>1 DEF Piped!BeginWrite
    <3>2. PICK k \in Nat :
            writer' = [writer EXCEPT ![w] = [at |-> "acquire", size |-> k, left |-> writer[w].left - 1]]
      BY <1>0, <3>1
    <3>3. writer[w].left - 1 \in Nat
      BY <1>0, <3>1
    <3> QED  BY <1>0, <3>1, <3>2, <3>3 DEF WriterAt
  <2>2. /\ Uses(free, Writers, writer') /\ W(free, writer') = W(free, writer)
        /\ News(writer') = News(writer)
    <3>1. /\ Uses(free, Writers, writer')
          /\ W(free, writer') + 0 = W(free, writer) + 0
          /\ News(writer') + 0 = News(writer) + 0
      BY <1>0, <2>1, WriterMoves
    <3>2. W(free, writer') \in Nat /\ News(writer') \in Nat
      BY <1>0, <3>1, PipeCounts
    <3> HIDE DEF W
    <3> QED  BY <1>n, <3>1, <3>2
  <2>3. A(free, writer') = A(free, writer)
    BY <2>2 DEF All
  <2>4. PipeTypes'
    BY <1>0, <2>1, <2>2 DEF PipeTypes
  <2> HIDE DEF A, B, H, W
  <2> QED  BY <1>0, <1>c, <1>n, <2>1, <2>2, <2>3, <2>4
<1>2. CASE Piped!AcquireFree(w)
  <2>0. writer[w].at = "acquire" /\ UNCHANGED <<ready, buffer, reader>>
    BY <1>2 DEF Piped!AcquireFree
  <2>1. /\ Acquires(free, free', Writers, writer, writer', w, "write", "drop")
        /\ writer' \in Writer
    <3>1. ASSUME NEW label \in WriterAt, Piped!WriterGoes(w, label)
          PROVE  Goes(Writers, writer, writer', w, label) /\ writer' \in Writer
      BY <1>0, <3>1 DEF Piped!WriterGoes, Goes
    <3>2. "write" \in WriterAt /\ "drop" \in WriterAt
      BY DEF WriterAt
    <3>3. CASE free.outcome[w] = "none" /\ Piped!Free!Take(writer[w].size) /\ Piped!WriterGoes(w, "write")
      <4>1. Takes(free, free', writer[w].size)
        BY <3>3 DEF Piped!Free!Take, Piped!Free!MayTake, Takes
      <4> QED  BY <2>0, <3>1, <3>2, <3>3, <4>1 DEF Acquires
    <3>4. CASE Piped!Free!Enqueue(w, writer[w].size) /\ UNCHANGED writer
      <4>1. Enqueues(free, free', w, writer[w].size)
        BY <3>4 DEF Piped!Free!Enqueue, Enqueues
      <4> QED  BY <1>0, <2>0, <3>4, <4>1 DEF Acquires
    <3>5. CASE free.outcome[w] = "none" /\ free.failing /\ Piped!WriterGoes(w, "drop") /\ free' = free
      BY <2>0, <3>1, <3>2, <3>5 DEF Acquires
    <3>6. CASE Piped!Free!Collect(w)
               /\ Piped!WriterGoes(w, IF free.outcome[w] = "Ok" THEN "write" ELSE "drop")
      <4>1. Collects(free, free', w) /\ free.outcome[w] \in {"Ok", "Poisoned"}
        BY <3>6 DEF Piped!Free!Collect, Piped!Free!Done, Collects
      <4>2. CASE free.outcome[w] = "Ok"
        BY <2>0, <3>1, <3>2, <3>6, <4>1, <4>2 DEF Acquires
      <4>3. CASE free.outcome[w] = "Poisoned"
        BY <2>0, <3>1, <3>2, <3>6, <4>1, <4>3 DEF Acquires
      <4> QED  BY <4>1, <4>2, <4>3
    <3> QED  BY <1>2, <3>3, <3>4, <3>5, <3>6 DEF Piped!AcquireFree
  <2>2. Uses(free', Writers, writer') /\ A(free', writer') = A(free, writer)
    BY <1>0, <2>1, Acquired
  <2>3. /\ writer'[w].at \in {"acquire", "write", "drop"} /\ writer'[w].size = writer[w].size
        /\ \A x \in Writers \ {w} : writer'[x] = writer[x]
    BY <2>0, <2>1 DEF Acquires, Goes
  <2>4. News(writer') = News(writer)
    <3>1. \A x \in Writers : Has(Writers, writer', {"release"})[x] = Has(Writers, writer, {"release"})[x]
      BY <2>0, <2>3 DEF Has
    <3> QED  BY <3>1, SumSame DEF News
  <2>5. PipeTypes'
    BY <1>0, <2>0, <2>1, <2>2 DEF PipeTypes
  <2> HIDE DEF A, B, H, W
  <2> QED  BY <1>0, <1>c, <1>n, <2>0, <2>2, <2>4, <2>5
<1>3. CASE Piped!Write(w)
  <2>1. /\ writer[w].at = "write" /\ writer'[w].at = "release" /\ writer'[w].size = n
        /\ \A x \in Writers \ {w} : writer'[x] = writer[x]
        /\ writer' \in Writer
        /\ UNCHANGED <<ready, free, reader>> /\ buffer' = buffer + n /\ buffer' \in Nat
    BY <1>0, <1>3 DEF Piped!Write, Piped!WriterGoes, WriterAt, n
  <2>2. /\ Uses(free, Writers, writer') /\ W(free, writer') + n = W(free, writer)
        /\ News(writer') = News(writer) + n /\ W(free, writer') \in Nat
    <3>1. /\ Uses(free, Writers, writer')
          /\ W(free, writer') + n = W(free, writer) + 0
          /\ News(writer') + 0 = News(writer) + n
      BY <1>0, <2>1, WriterMoves DEF n
    <3>2. W(free, writer') \in Nat /\ News(writer') \in Nat
      BY <1>0, <3>1, PipeCounts
    <3> HIDE DEF W
    <3> QED  BY <1>0, <1>n, <3>1, <3>2
  <2>3. A(free, writer') + n = A(free, writer) /\ A(free, writer') \in Nat
    BY <1>0, <1>n, <2>2 DEF All
  <2>4. PipeTypes'
    BY <1>0, <2>1, <2>2 DEF PipeTypes
  <2> HIDE DEF A, B, H, W
  <2> QED  BY <1>0, <1>c, <1>n, <2>1, <2>2, <2>3, <2>4
<1>4. CASE Piped!ReleaseReady(w)
  <2>1. /\ writer[w].at = "release" /\ writer'[w].at = "next" /\ writer'[w].size = n
        /\ \A x \in Writers \ {w} : writer'[x] = writer[x]
        /\ writer' \in Writer
        /\ UNCHANGED <<free, buffer, reader>>
    BY <1>0, <1>4 DEF Piped!ReleaseReady, Piped!WriterGoes, WriterAt, n
  <2>2. Gives(ready, ready', n)
    BY <1>4 DEF Piped!ReleaseReady, Piped!Ready!Give, Piped!Ready!Add, Gives, n
  <2>3. /\ QueueOK(ready', Readers) /\ ready'.failing = ready.failing
        /\ ready'.permits \in Nat /\ ready'.permits <= ready.permits + n
        /\ ready'.amount = ready.amount /\ ready'.outcome = ready.outcome
    <3>1. QueueOK(ready, Readers) /\ n \in Nat
      BY <1>0, <1>n DEF Uses
    <3> HIDE DEF n
    <3> QED  BY <2>2, <3>1, Given
  <2>4. Uses(ready', Readers, reader) /\ H(ready', reader) = H(ready, reader)
    BY <1>0, <2>3, SameUses
  <2>5. B(ready', reader) <= B(ready, reader) + n /\ B(ready', reader) \in Nat
    BY <1>0, <1>n, <2>3, <2>4 DEF All
  <2>6. /\ Uses(free, Writers, writer') /\ W(free, writer') = W(free, writer)
        /\ News(writer') + n = News(writer) /\ News(writer') \in Nat
    <3>1. /\ Uses(free, Writers, writer')
          /\ W(free, writer') + 0 = W(free, writer) + 0
          /\ News(writer') + n = News(writer) + 0
      BY <1>0, <2>1, WriterMoves DEF n
    <3>2. W(free, writer') \in Nat /\ News(writer') \in Nat
      BY <1>0, <3>1, PipeCounts
    <3> HIDE DEF W
    <3> QED  BY <1>0, <1>n, <3>1, <3>2
  <2>7. A(free, writer') = A(free, writer)
    BY <2>6 DEF All
  <2>8. PipeTypes'
    BY <1>0, <2>1, <2>4, <2>6 DEF PipeTypes
  <2> HIDE DEF A, B, H, W
  <2> QED  BY <1>0, <1>c, <1>n, <2>1, <2>3, <2>4, <2>5, <2>6, <2>7, <2>8
<1>5. CASE Piped!DropWriter(w)
  <2>1. /\ writer[w].at \in {"drop", "next"} /\ writer'[w].at = "end" /\ writer'[w].size = n
        /\ \A x \in Writers \ {w} : writer'[x] = writer[x]
        /\ writer' \in Writer
        /\ UNCHANGED <<free, buffer, reader>>
    BY <1>0, <1>5 DEF Piped!DropWriter, Piped!WriterGoes, WriterAt, n
  <2>2. /\ QueueOK(ready', Readers) /\ ready'.permits = ready.permits /\ ready'.failing = ready.failing
        /\ ready'.amount = ready.amount /\ ready'.outcome = ready.outcome
    <3>1. QueueOK(ready, Readers)
      BY <1>0 DEF Uses
    <3>2. ready' = ready \/ ready' = [ready EXCEPT !.poisoned = TRUE]
      BY <1>5 DEF Piped!DropWriter, Piped!Ready!PoisonAll
    <3> QED  BY <3>1, <3>2, PoisonedAll
  <2>3. Uses(ready', Readers, reader) /\ H(ready', reader) = H(ready, reader)
    BY <1>0, <2>2, SameUses
  <2>4. B(ready', reader) = B(ready, reader)
    BY <2>2, <2>3 DEF All
  <2>5. /\ Uses(free, Writers, writer') /\ W(free, writer') = W(free, writer)
        /\ News(writer') = News(writer)
    <3>1. /\ Uses(free, Writers, writer')
          /\ W(free, writer') + 0 = W(free, writer) + 0
          /\ News(writer') + 0 = News(writer) + 0
      BY <1>0, <2>1, WriterMoves
    <3>2. W(free, writer') \in Nat /\ News(writer') \in Nat
      BY <1>0, <3>1, PipeCounts
    <3> HIDE DEF W
    <3> QED  BY <1>n, <3>1, <3>2
  <2>6. A(free, writer') = A(free, writer)
    BY <2>5 DEF All
  <2>7. PipeTypes'
    BY <1>0, <2>1, <2>3, <2>5 DEF PipeTypes
  <2> HIDE DEF A, B, H, W
  <2> QED  BY <1>0, <1>c, <1>n, <2>1, <2>2, <2>3, <2>4, <2>5, <2>6, <2>7
<1> QED  BY <1>1, <1>2, <1>3, <1>4, <1>5 DEF Piped!WriterStep

\* And so do the semaphores' own steps.
LEMMA PipeInductive ==
  ASSUME PipeAssumption, PipeInv, [Piped!Next]_(Piped!vars)
  PROVE  PipeInv'
<1> DEFINE A(f) == All(f, Writers, writer, "write")
           B(d) == All(d, Readers, reader, "read")
           H(d) == Held(d, Readers, reader, "read")
<1>0. /\ PipeTypes /\ PipeCovered /\ buffer \in Nat
      /\ Uses(free, Writers, writer) /\ Uses(ready, Readers, reader)
      /\ IsFiniteSet(Readers) /\ IsFiniteSet(Writers)
  BY DEF PipeInv, PipeTypes, PipeAssumption
<1>c. \A x \in Readers : reader[x].at = "drain" => ready.failing
  BY <1>0 DEF PipeCovered
<1>n. /\ A(free) \in Nat /\ Room(reader) \in Nat
      /\ B(ready) \in Nat /\ News(writer) \in Nat /\ H(ready) \in Nat
  BY <1>0, PipeCounts
<1>a. ASSUME UNCHANGED <<ready, buffer, reader, writer>>, Uses(free', Writers, writer),
             A(free') <= A(free)
      PROVE  PipeInv'
  <2>1. PipeTypes'
    BY <1>0, <1>a DEF PipeTypes
  <2>2. A(free') \in Nat
    BY <1>0, <1>a, PipeCounts
  <2>3. /\ All(free', Writers, writer', "write") + buffer' + Room(reader')
             <= All(free, Writers, writer, "write") + buffer + Room(reader)
        /\ All(ready', Readers, reader', "read") + News(writer') + buffer
             <= All(ready, Readers, reader, "read") + News(writer) + buffer'
        /\ Held(ready', Readers, reader', "read") + buffer
             <= Held(ready, Readers, reader, "read") + buffer'
    BY <1>0, <1>a, <1>n, <2>2
  <2>4. /\ ready'.failing = ready.failing
        /\ \A r \in Readers : reader'[r].at = "drain" => ready'.failing
    BY <1>a, <1>c
  <2> QED  BY <1>a, <2>1, <2>3, <2>4, PipeStep
<1>b. ASSUME UNCHANGED <<free, buffer, reader, writer>>, Uses(ready', Readers, reader),
             B(ready') <= B(ready), ready.failing => ready'.failing,
             ready'.failing => H(ready') <= H(ready)
      PROVE  PipeInv'
  <2>1. PipeTypes'
    BY <1>0, <1>b DEF PipeTypes
  <2>2. B(ready') \in Nat /\ H(ready') \in Nat
    BY <1>0, <1>b, PipeCounts
  <2>3. /\ All(free', Writers, writer', "write") + buffer' + Room(reader')
             <= All(free, Writers, writer, "write") + buffer + Room(reader)
        /\ All(ready', Readers, reader', "read") + News(writer') + buffer
             <= All(ready, Readers, reader, "read") + News(writer) + buffer'
    BY <1>0, <1>b, <1>n, <2>2
  <2>4. ready'.failing => Held(ready', Readers, reader', "read") + buffer
                            <= Held(ready, Readers, reader, "read") + buffer'
    BY <1>0, <1>b, <1>n, <2>2
  <2>5. \A r \in Readers : reader'[r].at = "drain" => ready'.failing
    BY <1>b, <1>c
  <2> QED  BY <1>b, <2>1, <2>3, <2>4, <2>5, PipeStep
<1>1. CASE Piped!ServeFree
  <2>1. PICK w \in Writers : Piped!Free!Grant(w) \/ Piped!Free!Fail(w)
    BY <1>1 DEF Piped!ServeFree, Piped!Free!Serve
  <2>2. Grants(free, free', w) \/ Fails(free, free', w)
    BY <2>1 DEF Piped!Free!Grant, Piped!Free!Fail, Piped!Free!AtFront, Grants, Fails
  <2>3. Uses(free', Writers, writer) /\ A(free') = A(free)
    BY <1>0, <2>2, ServedUses
  <2>4. UNCHANGED <<ready, buffer, reader, writer>>
    BY <1>1 DEF Piped!ServeFree
  <2> HIDE DEF A
  <2> QED  BY <1>a, <1>n, <2>3, <2>4
<1>2. CASE Piped!ServeReady
  <2>1. PICK r \in Readers : Piped!Ready!Grant(r) \/ Piped!Ready!Fail(r)
    BY <1>2 DEF Piped!ServeReady, Piped!Ready!Serve
  <2>2. Grants(ready, ready', r) \/ Fails(ready, ready', r)
    BY <2>1 DEF Piped!Ready!Grant, Piped!Ready!Fail, Piped!Ready!AtFront, Grants, Fails
  <2>3. /\ Uses(ready', Readers, reader) /\ B(ready') = B(ready)
        /\ (ready.failing => ready'.failing)
        /\ (ready'.failing => H(ready') = H(ready))
    BY <1>0, <2>2, ServedUses
  <2>4. UNCHANGED <<free, buffer, reader, writer>>
    BY <1>2 DEF Piped!ServeReady
  <2> HIDE DEF A, B, H
  <2> QED  BY <1>b, <1>n, <2>3, <2>4
<1>3. CASE Piped!Free!Swallow /\ UNCHANGED <<ready, buffer, reader, writer>>
  <2>1. Swallows(free, free') /\ QueueOK(free, Writers)
    BY <1>0, <1>3 DEF Piped!Free!Swallow, Swallows, Uses
  <2>2. /\ QueueOK(free', Writers) /\ free'.permits \in Nat /\ free'.permits <= free.permits
        /\ free'.amount = free.amount /\ free'.outcome = free.outcome
    BY <2>1, Swallowed
  <2>3. /\ Uses(free', Writers, writer)
        /\ Held(free', Writers, writer, "write") = Held(free, Writers, writer, "write")
    BY <1>0, <2>2, SameUses
  <2>4. A(free') <= A(free)
    <3>1. Held(free, Writers, writer, "write") \in Nat /\ free.permits \in Nat
      BY <1>0, PipeCounts
    <3> QED  BY <2>2, <2>3, <3>1 DEF All
  <2> QED  BY <1>a, <1>3, <2>3, <2>4
<1>4. CASE Piped!Ready!Swallow /\ UNCHANGED <<free, buffer, reader, writer>>
  <2>1. Swallows(ready, ready') /\ QueueOK(ready, Readers)
    BY <1>0, <1>4 DEF Piped!Ready!Swallow, Swallows, Uses
  <2>2. /\ QueueOK(ready', Readers) /\ ready'.permits \in Nat /\ ready'.permits <= ready.permits
        /\ (ready.failing => ready'.failing)
        /\ ready'.amount = ready.amount /\ ready'.outcome = ready.outcome
    BY <2>1, Swallowed
  <2>3. /\ Uses(ready', Readers, reader)
        /\ Held(ready', Readers, reader, "read") = Held(ready, Readers, reader, "read")
    BY <1>0, <2>2, SameUses
  <2>4. B(ready') <= B(ready) /\ H(ready') <= H(ready)
    <3>1. Held(ready, Readers, reader, "read") \in Nat /\ ready.permits \in Nat
      BY <1>0, PipeCounts
    <3> QED  BY <2>2, <2>3, <3>1 DEF All
  <2> QED  BY <1>b, <1>4, <2>2, <2>3, <2>4
<1>5. CASE UNCHANGED Piped!vars
  <2>1. UNCHANGED <<ready, free, buffer, reader, writer>>
    BY <1>5 DEF Piped!vars
  <2> QED  BY <1>0, <1>a, <1>n, <2>1
<1> QED  BY <1>1, <1>2, <1>3, <1>4, <1>5, ReaderInductive, WriterInductive
         DEF Piped!Next, Piped!Swallow

\* An empty pipe, all of whose room is free.
LEMMA PipeInitially == ASSUME PipeAssumption, Piped!Init PROVE PipeInv
<1> DEFINE fresh(T, p, q) ==
             [permits |-> p, poisoned |-> q, failing |-> q, queue |-> <<>>,
              amount |-> [t \in T |-> 0], outcome |-> [t \in T |-> "none"]]
<1>1. ASSUME NEW T, NEW p \in Nat, NEW q \in BOOLEAN
      PROVE  /\ QueueOK(fresh(T, p, q), T) /\ fresh(T, p, q).permits = p
             /\ fresh(T, p, q).outcome = [t \in T |-> "none"]
  <2>1. /\ fresh(T, p, q) \in SemRecord(T) /\ fresh(T, p, q).queue = <<>>
        /\ fresh(T, p, q).failing = q /\ fresh(T, p, q).poisoned = q
        /\ fresh(T, p, q).outcome = [t \in T |-> "none"]
    BY DEF SemRecord, Outcome
  <2> HIDE DEF fresh
  <2>2. QueueOK(fresh(T, p, q), T)
    BY <2>1 DEF QueueOK
  <2> QED  BY <2>1, <2>2 DEF fresh
<1>2. /\ ready = fresh(Readers, IF 0 > MaxAvailable THEN 0 ELSE 0, 0 > MaxAvailable)
      /\ free = fresh(Writers, IF Capacity > MaxAvailable THEN 0 ELSE Capacity, Capacity > MaxAvailable)
      /\ buffer = 0
      /\ writer = [w \in Writers |-> [at |-> "next", size |-> 0, left |-> Writes]]
  BY DEF Piped!Init, Piped!Ready!New, Piped!Free!New
<1>r. /\ reader \in [Readers -> [at: ReaderAt, size: Nat]]
      /\ \A r \in Readers : reader[r].at \in {"none", "next"} /\ reader[r].size = 0
  <2>1. PICK R : reader = [r \in Readers |-> [at |-> IF r \in R THEN "next" ELSE "none", size |-> 0]]
    BY DEF Piped!Init
  <2> QED  BY <2>1 DEF ReaderAt
<1>3. /\ QueueOK(ready, Readers) /\ ready.permits = 0 /\ ready.outcome = [r \in Readers |-> "none"]
  <2> DEFINE q == 0 > MaxAvailable
  <2>1. q \in BOOLEAN /\ ready = fresh(Readers, 0, q) /\ 0 \in Nat
    BY <1>2
  <2> HIDE DEF q, fresh
  <2> QED  BY <1>1, <2>1
<1>4. /\ QueueOK(free, Writers) /\ free.permits \in Nat /\ free.permits <= Capacity
      /\ free.outcome = [w \in Writers |-> "none"]
  <2> DEFINE p == IF Capacity > MaxAvailable THEN 0 ELSE Capacity
             q == Capacity > MaxAvailable
  <2>1. p \in Nat /\ p <= Capacity /\ q \in BOOLEAN /\ free = fresh(Writers, p, q)
    BY <1>2 DEF PipeAssumption
  <2> HIDE DEF p, q, fresh
  <2> QED  BY <1>1, <2>1
<1> HIDE DEF fresh
<1>5. /\ Uses(ready, Readers, reader) /\ Uses(free, Writers, writer)
  BY <1>2, <1>r, <1>3, <1>4 DEF Uses
<1>6. PipeTypes
  BY <1>2, <1>r, <1>5 DEF PipeTypes, WriterAt, PipeAssumption
<1>7. /\ Held(ready, Readers, reader, "read") = 0 /\ Held(free, Writers, writer, "write") = 0
      /\ Room(reader) = 0 /\ News(writer) = 0
  <2>1. /\ \A r \in Readers : Holds(ready, Readers, reader, "read")[r] = 0
        /\ \A w \in Writers : Holds(free, Writers, writer, "write")[w] = 0
        /\ \A r \in Readers : Has(Readers, reader, {"release", "release_end"})[r] = 0
        /\ \A w \in Writers : Has(Writers, writer, {"release"})[w] = 0
    BY <1>2, <1>r, <1>3, <1>4 DEF Holds, Has
  <2> QED  BY <2>1, SumNothing DEF Held, Room, News
<1>8. PipeRoom /\ PipeCovered
  BY <1>2, <1>r, <1>3, <1>4, <1>7 DEF PipeRoom, PipeCovered, All, PipeAssumption
<1> QED  BY <1>6, <1>8 DEF PipeInv

\* The pipe of tests/pipe.rs, with any number of readers and writers and of bytes
\* read and written at a time: the buffer never holds more than its capacity, ...
THEOREM RoomIsKept ==
  ASSUME PipeAssumption
  PROVE  Piped!Spec => []WithinCapacity
<1>1. Piped!Init => PipeInv
  BY PipeInitially
<1>2. PipeInv /\ [Piped!Next]_(Piped!vars) => PipeInv'
  BY PipeInductive
<1>3. PipeInv => Piped!WithinCapacity
  <2> SUFFICES ASSUME PipeInv PROVE buffer <= Capacity
    BY DEF Piped!WithinCapacity
  <2>1. /\ All(free, Writers, writer, "write") \in Nat /\ Room(reader) \in Nat
        /\ buffer \in Nat /\ Capacity \in Nat
    BY PipeCounts DEF PipeInv, PipeTypes
  <2> QED  BY <2>1 DEF PipeInv, PipeRoom
<1> QED  BY <1>1, <1>2, <1>3, PTL DEF Piped!Spec, WithinCapacity

\* ... and every reader finds the bytes it has permits for until an acquire of one
\* has failed; one that is alone, as in the test, finds them after that as well.
THEOREM ReadsAreCovered ==
  ASSUME PipeAssumption
  PROVE  Piped!Spec => []ReadAssertion
<1>1. Piped!Init => PipeInv
  BY PipeInitially
<1>2. PipeInv /\ [Piped!Next]_(Piped!vars) => PipeInv'
  BY PipeInductive
<1>3. PipeInv => Piped!ReadAssertion
  <2> SUFFICES ASSUME PipeInv, Piped!OneReader \/ ~ready.failing,
                      NEW r \in Readers, reader[r].at = "read"
               PROVE  reader[r].size <= buffer
    BY DEF Piped!ReadAssertion
  <2> DEFINE n == Holds(ready, Readers, reader, "read")
  <2>1. Uses(ready, Readers, reader) /\ IsFiniteSet(Readers) /\ buffer \in Nat
    BY DEF PipeInv, PipeTypes, PipeAssumption
  <2>2. n \in [Readers -> Nat]
    BY <2>1, HoldsType
  <2>3. n[r] = reader[r].size
    BY DEF Holds
  <2>h. SumOf(n, Readers) <= buffer
    <3>1. /\ Piped!OneReader => Held(ready, Readers, reader, "read") <= buffer
          /\ ~ready.failing => All(ready, Readers, reader, "read") + News(writer) <= buffer
      BY DEF PipeInv, PipeCovered
    <3>2. /\ All(ready, Readers, reader, "read") \in Nat /\ News(writer) \in Nat
          /\ Held(ready, Readers, reader, "read") \in Nat
          /\ Held(ready, Readers, reader, "read") <= All(ready, Readers, reader, "read")
      BY PipeCounts DEF PipeInv, PipeTypes
    <3>3. Held(ready, Readers, reader, "read") <= buffer
      BY <2>1, <3>1, <3>2
    <3> QED  BY <3>3 DEF Held
  <2> HIDE DEF n
  <2>4. SumOf(n, Readers) = SumOf(n, Readers \ {r}) + n[r] /\ SumOf(n, Readers \ {r}) \in Nat
    BY <2>1, <2>2, SumWithout
  <2>5. n[r] \in Nat
    BY <2>2
  <2> QED  BY <2>1, <2>3, <2>h, <2>4, <2>5
<1> QED  BY <1>1, <1>2, <1>3, PTL DEF Piped!Spec, ReadAssertion

-----------------------------------------------------------------------------
(* BoundedQueue *)

QueueAssumption ==
  IsFiniteSet(Senders) /\ Sizes \subseteq Nat /\ Messages \in Nat /\ QueueCapacity \in Nat

\* The permits of what senders acquire, of messages in the channel and of the one
\* that is parsed, in example e; AmountOf is Amount, but for the variable.
AmountOf(e, n) == IF e # "size" THEN 1 ELSE IF n > QueueCapacity THEN n ELSE QueueCapacity

Users(e, u) == [s \in Senders |-> [at |-> u[s].at, size |-> AmountOf(e, u[s].size)]]

Amounts(e, q) == [i \in 1 .. Len(q) |-> AmountOf(e, q[i])]

InQueue(e, q) == SumOf(Amounts(e, q), 1 .. Len(q))

Parsing(e, r) == IF e # "forget" /\ r.at = "parsing" THEN AmountOf(e, r.size) ELSE 0

SenderRecords == [Senders -> [at: {"next", "acquire", "send", "failed"}, size: Nat, left: Nat]]

QueueTypes ==
  /\ Uses(queueSem, Senders, Users(example, sender))
  /\ channel \in [queue: Seq(Nat), closed: BOOLEAN]
  /\ sender \in SenderRecords
  /\ receiver \in [at: {"recv", "parsing", "end"}, size: Nat]
  /\ receiver.at # "parsing" => receiver.size = 0

\* Whatever is in the channel has its permits.
QueueRoom ==
  All(queueSem, Senders, Users(example, sender), "send") + InQueue(example, channel.queue)
    + Parsing(example, receiver) <= QueueCapacity

QueueRoomInv == QueueTypes /\ QueueRoom

\* Smaller counts have a smaller sum.
LEMMA SumMonotone ==
  ASSUME NEW S, IsFiniteSet(S), NEW n \in [S -> Nat], NEW m \in [S -> Nat], \A x \in S : n[x] <= m[x]
  PROVE  SumOf(n, S) <= SumOf(m, S)
<1>1. IsFiniteSet(Ones(m, S))
  BY OnesFinite
<1>2. Ones(n, S) \subseteq Ones(m, S)
  <2>1. \A x \in S : 1 .. n[x] \subseteq 1 .. m[x]
    OBVIOUS
  <2> QED  BY <2>1 DEF Ones
<1> QED  BY <1>1, <1>2, FS_Subset DEF SumOf

\* The pairs that are counted, one by one.
LEMMA OnesPairs ==
  ASSUME NEW S, NEW n, \A x \in S : n[x] \in Nat
  PROVE  Ones(n, S) = {p \in S \X Nat : p[2] \in 1 .. n[p[1]]}
<1> DEFINE B == {p \in S \X Nat : p[2] \in 1 .. n[p[1]]}
<1>1. ASSUME NEW p \in Ones(n, S) PROVE p \in B
  <2>1. PICK x \in S : p \in {x} \X (1 .. n[x])
    BY DEF Ones
  <2>2. p = <<x, p[2]>> /\ p[1] = x /\ p[2] \in 1 .. n[x]
    BY <2>1
  <2>3. p[2] \in Nat
    BY <2>2
  <2> QED  BY <2>2, <2>3
<1>2. ASSUME NEW p \in B PROVE p \in Ones(n, S)
  <2>1. p = <<p[1], p[2]>> /\ p[1] \in S /\ p[2] \in 1 .. n[p[1]]
    OBVIOUS
  <2>2. p \in {p[1]} \X (1 .. n[p[1]])
    BY <2>1
  <2> QED  BY <2>1, <2>2 DEF Ones
<1> HIDE DEF B
<1>3. Ones(n, S) = B
  BY <1>1, <1>2
<1> QED  BY <1>3 DEF B

\* The sum of a sequence of counts, when one is appended ...
LEMMA SumAppend ==
  ASSUME NEW k \in Nat, NEW n \in [1 .. k -> Nat], NEW m \in [1 .. k + 1 -> Nat],
         \A i \in 1 .. k : m[i] = n[i]
  PROVE  SumOf(m, 1 .. k + 1) = SumOf(n, 1 .. k) + m[k + 1] /\ SumOf(n, 1 .. k) \in Nat
<1>1. IsFiniteSet(1 .. k + 1) /\ k + 1 \in 1 .. k + 1 /\ (1 .. k + 1) \ {k + 1} = 1 .. k
  <2>1. 1 \in Int /\ k + 1 \in Int
    OBVIOUS
  <2>2. IsFiniteSet(1 .. k + 1)
    BY <2>1, FS_Interval
  <2>3. (1 .. k + 1) \ {k + 1} = 1 .. k /\ k + 1 \in 1 .. k + 1
    OBVIOUS
  <2> QED  BY <2>2, <2>3
<1>2. IsFiniteSet(1 .. k)
  BY <1>1, FS_RemoveElement
<1>3. SumOf(m, 1 .. k + 1) = SumOf(m, (1 .. k + 1) \ {k + 1}) + m[k + 1]
  BY <1>1, SumWithout
<1>4. SumOf(m, 1 .. k) = SumOf(n, 1 .. k)
  BY SumSame
<1>5. SumOf(n, 1 .. k) \in Nat
  BY <1>2, OnesFinite
<1> QED  BY <1>1, <1>3, <1>4, <1>5

\* ... and when the first is taken off.
LEMMA SumTail ==
  ASSUME NEW k \in Nat, NEW n \in [1 .. k + 1 -> Nat], NEW m \in [1 .. k -> Nat],
         \A i \in 1 .. k : m[i] = n[i + 1]
  PROVE  SumOf(n, 1 .. k + 1) = SumOf(m, 1 .. k) + n[1] /\ SumOf(m, 1 .. k) \in Nat
<1>1. IsFiniteSet(1 .. k + 1) /\ 1 \in 1 .. k + 1 /\ (1 .. k + 1) \ {1} = 2 .. k + 1
  <2>1. 1 \in Int /\ k + 1 \in Int
    OBVIOUS
  <2>2. IsFiniteSet(1 .. k + 1)
    BY <2>1, FS_Interval
  <2>3. 1 \in 1 .. k + 1
    OBVIOUS
  <2>4. \A i : i \in (1 .. k + 1) \ {1} <=> i \in 2 .. k + 1
    OBVIOUS
  <2> DEFINE S == (1 .. k + 1) \ {1}
             T == 2 .. k + 1
  <2>5. S = T
    <3> HIDE DEF S, T
    <3>1. \A i : i \in S <=> i \in T
      BY <2>4 DEF S, T
    <3> QED  BY <3>1
  <2> QED  BY <2>2, <2>3, <2>5
<1>2. IsFiniteSet(1 .. k)
  <2>1. 1 \in Int /\ k \in Int
    OBVIOUS
  <2> QED  BY <2>1, FS_Interval
<1>3. SumOf(n, 1 .. k + 1) = SumOf(n, 2 .. k + 1) + n[1]
  <2> DEFINE S == 1 .. k + 1
             R == 2 .. k + 1
  <2>1. IsFiniteSet(S) /\ 1 \in S /\ S \ {1} = R /\ n \in [S -> Nat]
    BY <1>1
  <2> HIDE DEF S, R
  <2>2. SumOf(n, S) = SumOf(n, S \ {1}) + n[1]
    BY <2>1, SumWithout
  <2>3. SumOf(n, S) = SumOf(n, R) + n[1]
    BY <2>1, <2>2
  <2> QED  BY <2>3 DEF S, R
<1>4. SumOf(n, 2 .. k + 1) = SumOf(m, 1 .. k)
  <2> DEFINE A == Ones(m, 1 .. k)
             B == Ones(n, 2 .. k + 1)
             f == [p \in A |-> <<p[1] + 1, p[2]>>]
             S == 1 .. k
             R == 2 .. k + 1
  <2>1. IsFiniteSet(A)
    BY <1>2, OnesFinite
  <2>a. (\A x \in S : m[x] \in Nat) /\ (\A x \in R : n[x] \in Nat)
    OBVIOUS
  <2> HIDE DEF S, R
  <2>2. A = {p \in S \X Nat : p[2] \in 1 .. m[p[1]]}
    BY <2>a, OnesPairs DEF S
  <2>3. B = {p \in R \X Nat : p[2] \in 1 .. n[p[1]]}
    BY <2>a, OnesPairs DEF R
  <2> USE DEF S, R
  <2>4. f \in [A -> B]
    <3> SUFFICES ASSUME NEW i \in 1 .. k, NEW j \in 1 .. m[i] PROVE <<i + 1, j>> \in B
      BY <2>2
    <3>1. i + 1 \in 2 .. k + 1 /\ j \in Nat /\ j \in 1 .. n[i + 1]
      OBVIOUS
    <3> QED  BY <2>3, <3>1
  <2>5. \A p, q \in A : f[p] = f[q] => p = q
    <3> SUFFICES ASSUME NEW p \in A, NEW q \in A, f[p] = f[q] PROVE p = q
      OBVIOUS
    <3>1. /\ p = <<p[1], p[2]>> /\ q = <<q[1], q[2]>> /\ p[1] \in Int /\ q[1] \in Int
      BY <2>2
    <3>2. p[1] + 1 = q[1] + 1 /\ p[2] = q[2]
      OBVIOUS
    <3>3. p[1] = q[1]
      BY <3>1, <3>2
    <3> QED  BY <3>1, <3>2, <3>3
  <2>6. \A b \in B : \E p \in A : f[p] = b
    <3> SUFFICES ASSUME NEW b \in B PROVE \E p \in A : f[p] = b
      OBVIOUS
    <3> DEFINE i == b[1]
               j == b[2]
    <3>1. b = <<i, j>> /\ i \in 2 .. k + 1 /\ j \in 1 .. n[i]
      BY <2>3
    <3> HIDE DEF i, j
    <3>2. i - 1 \in 1 .. k /\ j \in Nat /\ j \in 1 .. m[i - 1] /\ (i - 1) + 1 = i
      BY <3>1
    <3>3. <<i - 1, j>> \in A
      BY <2>2, <3>2
    <3>4. f[<<i - 1, j>>] = <<i, j>>
      BY <3>2, <3>3
    <3> QED  BY <3>1, <3>3, <3>4
  <2>7. f \in Bijection(A, B)
    <3> HIDE DEF A, B, f
    <3> QED  BY <2>4, <2>5, <2>6 DEF Bijection, Injection, IsInjective, Surjection
  <2>8. Cardinality(A) = Cardinality(B)
    <3> HIDE DEF A, B, f
    <3> QED  BY <2>1, <2>7, FS_Bijection DEF ExistsBijection
  <2> QED  BY <2>8 DEF SumOf
<1>5. SumOf(m, 1 .. k) \in Nat
  BY <1>2, OnesFinite
<1> QED  BY <1>3, <1>4, <1>5

\* The counts of the queue are counts.
LEMMA QueueCounts ==
  ASSUME QueueAssumption, NEW e, NEW z, NEW u, Uses(z, Senders, u), NEW q \in Seq(Nat),
         NEW r, r.size \in Nat
  PROVE  /\ All(z, Senders, u, "send") \in Nat /\ Held(z, Senders, u, "send") \in Nat
         /\ z.permits \in Nat
         /\ InQueue(e, q) \in Nat /\ Parsing(e, r) \in Nat /\ QueueCapacity \in Nat
<1>1. IsFiniteSet(Senders) /\ QueueCapacity \in Nat /\ \A n \in Nat : AmountOf(e, n) \in Nat
  BY DEF QueueAssumption, AmountOf
<1>2. /\ All(z, Senders, u, "send") \in Nat /\ Held(z, Senders, u, "send") \in Nat
      /\ z.permits \in Nat
  BY <1>1, HoldsType
<1>3. Len(q) \in Nat /\ IsFiniteSet(1 .. Len(q))
  <2>1. Len(q) \in Nat /\ 1 \in Int /\ Len(q) \in Int
    OBVIOUS
  <2> QED  BY <2>1, FS_Interval
<1>4. Amounts(e, q) \in [1 .. Len(q) -> Nat]
  <2>1. \A i \in 1 .. Len(q) : q[i] \in Nat
    OBVIOUS
  <2>2. \A i \in 1 .. Len(q) : AmountOf(e, q[i]) \in Nat
    BY <1>1, <2>1
  <2> QED  BY <2>2 DEF Amounts
<1>5. InQueue(e, q) \in Nat
  BY <1>3, <1>4, OnesFinite DEF InQueue
<1>6. Parsing(e, r) \in Nat
  BY <1>1 DEF Parsing
<1> QED  BY <1>1, <1>2, <1>5, <1>6

\* The permits in the channel when a message is sent, and when ...
LEMMA MessageSent ==
  ASSUME QueueAssumption, NEW e, NEW q \in Seq(Nat), NEW n \in Nat
  PROVE  InQueue(e, Append(q, n)) = InQueue(e, q) + AmountOf(e, n)
<1> DEFINE k == Len(q)
           p == Append(q, n)
<1>1. /\ k \in Nat /\ Len(p) = k + 1 /\ p[k + 1] = n /\ p \in Seq(Nat)
      /\ \A i \in 1 .. k : p[i] = q[i] /\ q[i] \in Nat /\ i \in 1 .. k + 1
  OBVIOUS
<1>2. \A m \in Nat : AmountOf(e, m) \in Nat
  BY DEF QueueAssumption, AmountOf
<1>3. \A i \in 1 .. k + 1 : p[i] \in Nat
  BY <1>1
<1> HIDE DEF p, k
<1>4. Amounts(e, q) = [i \in 1 .. k |-> AmountOf(e, q[i])]
  BY DEF Amounts, k
<1>5. Amounts(e, p) = [i \in 1 .. k + 1 |-> AmountOf(e, p[i])]
  BY <1>1 DEF Amounts
<1>6. /\ Amounts(e, q) \in [1 .. k -> Nat] /\ Amounts(e, p) \in [1 .. k + 1 -> Nat]
      /\ \A i \in 1 .. k : Amounts(e, p)[i] = Amounts(e, q)[i]
  BY <1>1, <1>2, <1>3, <1>4, <1>5
<1>7. Amounts(e, p)[k + 1] = AmountOf(e, n)
  BY <1>1, <1>5
<1>8. SumOf(Amounts(e, p), 1 .. k + 1) = SumOf(Amounts(e, q), 1 .. k) + Amounts(e, p)[k + 1]
  BY <1>1, <1>6, SumAppend
<1> QED  BY <1>1, <1>7, <1>8 DEF InQueue, k, p

\* ... the first one is received.
LEMMA MessageReceived ==
  ASSUME QueueAssumption, NEW e, NEW q \in Seq(Nat), q # <<>>
  PROVE  /\ Head(q) \in Nat /\ Tail(q) \in Seq(Nat)
         /\ InQueue(e, q) = InQueue(e, Tail(q)) + AmountOf(e, Head(q))
<1> DEFINE k == Len(q) - 1
           p == Tail(q)
<1>1. /\ k \in Nat /\ Len(q) = k + 1 /\ Len(p) = k /\ Head(q) = q[1] /\ q[1] \in Nat
      /\ p \in Seq(Nat)
      /\ \A i \in 1 .. k : p[i] = q[i + 1] /\ i + 1 \in 1 .. k + 1
      /\ \A i \in 1 .. k + 1 : q[i] \in Nat
  OBVIOUS
<1>2. \A m \in Nat : AmountOf(e, m) \in Nat
  BY DEF QueueAssumption, AmountOf
<1> HIDE DEF p, k
<1>3. Amounts(e, q) = [i \in 1 .. k + 1 |-> AmountOf(e, q[i])]
  BY <1>1 DEF Amounts
<1>4. Amounts(e, p) = [i \in 1 .. k |-> AmountOf(e, p[i])]
  BY <1>1 DEF Amounts
<1>5. /\ Amounts(e, q) \in [1 .. k + 1 -> Nat] /\ Amounts(e, p) \in [1 .. k -> Nat]
      /\ \A i \in 1 .. k : Amounts(e, p)[i] = Amounts(e, q)[i + 1]
  <2>1. \A i \in 1 .. k + 1 : AmountOf(e, q[i]) \in Nat
    BY <1>1, <1>2
  <2>2. \A i \in 1 .. k : AmountOf(e, p[i]) = AmountOf(e, q[i + 1]) /\ AmountOf(e, p[i]) \in Nat
    BY <1>1, <2>1
  <2> QED  BY <1>1, <1>3, <1>4, <2>1, <2>2
<1>6. Amounts(e, q)[1] = AmountOf(e, q[1])
  BY <1>1, <1>3
<1>7. SumOf(Amounts(e, q), 1 .. k + 1) = SumOf(Amounts(e, p), 1 .. k) + Amounts(e, q)[1]
  BY <1>1, <1>5, SumTail
<1> QED  BY <1>1, <1>6, <1>7 DEF InQueue, p

\* A sender that goes on from where it does not acquire.
LEMMA SenderMoves ==
  ASSUME QueueAssumption, NEW e, NEW z, NEW u \in SenderRecords, Uses(z, Senders, Users(e, u)),
         NEW s \in Senders, NEW v \in SenderRecords, \A x \in Senders \ {s} : v[x] = u[x],
         u[s].at # "acquire"
  PROVE  /\ Uses(z, Senders, Users(e, v))
         /\ Held(z, Senders, Users(e, v), "send")
              + (IF u[s].at = "send" THEN AmountOf(e, u[s].size) ELSE 0)
            = Held(z, Senders, Users(e, u), "send")
              + (IF v[s].at = "send" THEN AmountOf(e, v[s].size) ELSE 0)
<1>1. IsFiniteSet(Senders) /\ \A n \in Nat : AmountOf(e, n) \in Nat
  BY DEF QueueAssumption, AmountOf
<1>2. u[s].size \in Nat /\ v[s].size \in Nat
  BY DEF SenderRecords
<1>3. /\ Users(e, u)[s] = [at |-> u[s].at, size |-> AmountOf(e, u[s].size)]
      /\ Users(e, v)[s] = [at |-> v[s].at, size |-> AmountOf(e, v[s].size)]
      /\ \A x \in Senders \ {s} : Users(e, v)[x] = Users(e, u)[x]
  BY DEF Users
<1>4. /\ Users(e, v)[s].size \in Nat /\ Users(e, u)[s].at # "acquire"
      /\ Users(e, u)[s].at = u[s].at /\ Users(e, v)[s].at = v[s].at
      /\ Users(e, u)[s].size = AmountOf(e, u[s].size)
      /\ Users(e, v)[s].size = AmountOf(e, v[s].size)
  BY <1>1, <1>2, <1>3
<1> DEFINE a == Users(e, u)
           b == Users(e, v)
<1> HIDE DEF a, b
<1>5. /\ Uses(z, Senders, b)
      /\ Held(z, Senders, b, "send") + (IF a[s].at = "send" THEN a[s].size ELSE 0)
           = Held(z, Senders, a, "send") + (IF b[s].at = "send" THEN b[s].size ELSE 0)
  <2>1. /\ Uses(z, Senders, a) /\ b[s].size \in Nat /\ a[s].at # "acquire"
        /\ \A x \in Senders \ {s} : b[x] = a[x]
    BY <1>3, <1>4 DEF a, b
  <2> QED  BY <1>1, <2>1, Moved
<1> QED  BY <1>4, <1>5 DEF a, b

\* Where a sender acquires.
LEMMA SenderAcquires ==
  ASSUME QueueAssumption, NEW e, NEW z, NEW u \in SenderRecords, Uses(z, Senders, Users(e, u)),
         NEW s \in Senders, NEW y, NEW v \in SenderRecords, \A x \in Senders \ {s} : v[x] = u[x],
         v[s].size = u[s].size, u[s].at = "acquire",
         \/ z.outcome[s] = "none" /\ Takes(z, y, AmountOf(e, u[s].size)) /\ v[s].at = "send"
         \/ Enqueues(z, y, s, AmountOf(e, u[s].size)) /\ v = u
         \/ z.outcome[s] = "none" /\ z.failing /\ y = z /\ v[s].at = "failed"
         \/ z.outcome[s] = "Ok" /\ Collects(z, y, s) /\ v[s].at = "send"
         \/ z.outcome[s] = "Poisoned" /\ Collects(z, y, s) /\ v[s].at = "failed"
  PROVE  /\ Uses(y, Senders, Users(e, v))
         /\ All(y, Senders, Users(e, v), "send") = All(z, Senders, Users(e, u), "send")
<1> DEFINE a == Users(e, u)
           b == Users(e, v)
<1>1. /\ a[s] = [at |-> u[s].at, size |-> AmountOf(e, u[s].size)]
      /\ b[s] = [at |-> v[s].at, size |-> AmountOf(e, v[s].size)]
      /\ \A x \in Senders \ {s} : b[x] = a[x]
      /\ v = u => b = a
  BY DEF Users
<1>2. /\ a[s].at = "acquire" /\ a[s].size = AmountOf(e, u[s].size) /\ b[s].size = a[s].size
      /\ b[s].at = v[s].at
  BY <1>1
<1> HIDE DEF a, b
<1>3. Acquires(z, y, Senders, a, b, s, "send", "failed")
  BY <1>1, <1>2 DEF Acquires, Goes
<1>4. Uses(z, Senders, a) /\ IsFiniteSet(Senders)
  BY DEF a, QueueAssumption
<1>5. Uses(y, Senders, b) /\ All(y, Senders, b, "send") = All(z, Senders, a, "send")
  BY <1>3, <1>4, Acquired
<1> QED  BY <1>5 DEF a, b

\* Every step of the queue keeps QueueRoomInv.
LEMMA QueueInductive ==
  ASSUME QueueAssumption, QueueRoomInv, [Queue!Next]_(Queue!vars)
  PROVE  QueueRoomInv'
<1> DEFINE A(z, u) == All(z, Senders, Users(example, u), "send")
           W(z, u) == Held(z, Senders, Users(example, u), "send")
           I(q)    == InQueue(example, q)
           R(r)    == Parsing(example, r)
           Amount(n) == AmountOf(example, n)
<1>0. /\ Uses(queueSem, Senders, Users(example, sender)) /\ channel.queue \in Seq(Nat)
      /\ channel \in [queue: Seq(Nat), closed: BOOLEAN]
      /\ sender \in SenderRecords /\ IsFiniteSet(Senders)
      /\ receiver \in [at: {"recv", "parsing", "end"}, size: Nat] /\ receiver.size \in Nat
      /\ (receiver.at # "parsing" => receiver.size = 0)
      /\ QueueOK(queueSem, Senders) /\ Sizes \subseteq Nat /\ QueueCapacity \in Nat
  BY DEF QueueRoomInv, QueueTypes, QueueAssumption, Uses
<1>m. \A n \in Nat : Amount(n) \in Nat
  BY <1>0 DEF AmountOf
<1>q. \A n : Queue!Amount(n) = Amount(n)
  BY DEF Queue!Amount, AmountOf
<1>n. /\ A(queueSem, sender) \in Nat /\ W(queueSem, sender) \in Nat /\ queueSem.permits \in Nat
      /\ I(channel.queue) \in Nat /\ R(receiver) \in Nat
      /\ A(queueSem, sender) + I(channel.queue) + R(receiver) <= QueueCapacity
  <2>1. /\ A(queueSem, sender) \in Nat /\ W(queueSem, sender) \in Nat /\ queueSem.permits \in Nat
        /\ I(channel.queue) \in Nat /\ R(receiver) \in Nat
    BY <1>0, QueueCounts
  <2> QED  BY <2>1 DEF QueueRoomInv, QueueRoom
<1>z. ASSUME example' = example, Uses(queueSem', Senders, Users(example, sender')),
             channel' \in [queue: Seq(Nat), closed: BOOLEAN], sender' \in SenderRecords,
             receiver' \in [at: {"recv", "parsing", "end"}, size: Nat],
             receiver'.at # "parsing" => receiver'.size = 0,
             A(queueSem', sender') + I(channel'.queue) + R(receiver')
               <= A(queueSem, sender) + I(channel.queue) + R(receiver)
      PROVE  QueueRoomInv'
  <2>1. QueueTypes'
    BY <1>z DEF QueueTypes
  <2>2. receiver'.size \in Nat /\ channel'.queue \in Seq(Nat)
    BY <1>z
  <2>3. A(queueSem', sender') \in Nat /\ I(channel'.queue) \in Nat /\ R(receiver') \in Nat
    BY <1>z, <2>2, QueueCounts
  <2>4. A(queueSem', sender') + I(channel'.queue) + R(receiver') <= QueueCapacity
    <3> DEFINE x == A(queueSem', sender')
               y == I(channel'.queue)
               h == R(receiver')
               k == A(queueSem, sender)
               l == I(channel.queue)
               m == R(receiver)
    <3>1. x + y + h <= k + l + m
      BY <1>z
    <3>2. k + l + m <= QueueCapacity /\ k \in Nat /\ l \in Nat /\ m \in Nat
      BY <1>n
    <3>3. x \in Nat /\ y \in Nat /\ h \in Nat
      BY <2>3
    <3>4. QueueCapacity \in Nat
      BY <1>0
    <3> HIDE DEF x, y, h, k, l, m
    <3>5. x + y + h <= QueueCapacity
      BY <3>1, <3>2, <3>3, <3>4
    <3> QED  BY <3>5 DEF x, y, h
  <2>5. QueueRoom'
    BY <1>z, <2>4 DEF QueueRoom
  <2> QED  BY <2>1, <2>5 DEF QueueRoomInv
<1>g. ASSUME NEW n \in Nat, Gives(queueSem, queueSem', n)
      PROVE  /\ Uses(queueSem', Senders, Users(example, sender))
             /\ W(queueSem', sender) = W(queueSem, sender)
             /\ queueSem'.permits \in Nat /\ queueSem'.permits <= queueSem.permits + n
  <2>1. /\ QueueOK(queueSem', Senders) /\ queueSem'.permits \in Nat
        /\ queueSem'.permits <= queueSem.permits + n
        /\ queueSem'.amount = queueSem.amount /\ queueSem'.outcome = queueSem.outcome
    <3>1. QueueOK(queueSem, Senders)
      BY <1>0
    <3> QED  BY <1>g, <3>1, Given
  <2> QED  BY <1>0, <2>1, SameUses
<1> HIDE DEF Amount
<1>1. ASSUME NEW s \in Senders, Queue!Produce(s) PROVE QueueRoomInv'
  <2>1. PICK n \in Nat : sender' = [sender EXCEPT ![s] = [at |-> "acquire", size |-> n, left |-> sender[s].left - 1]]
    BY <1>0, <1>1 DEF Queue!Produce
  <2>2. /\ sender[s].at = "next" /\ sender[s].left > 0
        /\ UNCHANGED <<example, queueSem, channel, receiver>>
    BY <1>1 DEF Queue!Produce
  <2>3. /\ sender' \in SenderRecords /\ \A x \in Senders \ {s} : sender'[x] = sender[x]
        /\ sender'[s].at = "acquire"
    <3>1. sender[s].left - 1 \in Nat
      BY <1>0, <2>2 DEF SenderRecords
    <3> QED  BY <1>0, <2>1, <3>1 DEF SenderRecords
  <2>4. /\ Uses(queueSem, Senders, Users(example, sender'))
        /\ W(queueSem, sender') + 0 = W(queueSem, sender) + 0
    BY <1>0, <2>2, <2>3, SenderMoves
  <2>5. W(queueSem, sender') \in Nat
    BY <1>0, <2>4, QueueCounts
  <2>6. W(queueSem, sender') = W(queueSem, sender)
    <3> HIDE DEF W
    <3> QED  BY <1>n, <2>4, <2>5
  <2>7. A(queueSem, sender') = A(queueSem, sender)
    BY <2>6 DEF All
  <2>8. A(queueSem', sender') + I(channel'.queue) + R(receiver')
          <= A(queueSem, sender) + I(channel.queue) + R(receiver)
    <3> HIDE DEF A, I, R
    <3> QED  BY <1>n, <2>2, <2>7
  <2> QED  BY <1>0, <1>z, <2>2, <2>3, <2>4, <2>8
<1>2. ASSUME NEW s \in Senders, Queue!Acquire(s) \/ Queue!Resume(s) PROVE QueueRoomInv'
  <2>0. UNCHANGED <<example, channel, receiver>>
    BY <1>2 DEF Queue!Acquire, Queue!Resume
  <2>1. sender[s].at = "acquire"
    <3>1. CASE Queue!Acquire(s)
      BY <3>1 DEF Queue!Acquire
    <3>2. CASE Queue!Resume(s)
      <4>1. queueSem.outcome[s] # "none"
        BY <3>2 DEF Queue!Resume, Queue!Semaphore!Collect
      <4>2. Users(example, sender)[s].at = "acquire"
        BY <1>0, <4>1 DEF Uses
      <4> QED  BY <4>2 DEF Users
    <3> QED  BY <1>2, <3>1, <3>2
  <2>2. ASSUME NEW label \in {"send", "failed"}, Queue!Goto(s, label)
        PROVE  /\ sender' \in SenderRecords /\ sender'[s].at = label
               /\ sender'[s].size = sender[s].size /\ \A x \in Senders \ {s} : sender'[x] = sender[x]
    BY <1>0, <2>2 DEF Queue!Goto, SenderRecords
  <2>3. /\ sender' \in SenderRecords /\ \A x \in Senders \ {s} : sender'[x] = sender[x]
        /\ sender'[s].size = sender[s].size
        /\ \/ /\ queueSem.outcome[s] = "none" /\ Takes(queueSem, queueSem', Amount(sender[s].size))
              /\ sender'[s].at = "send"
           \/ Enqueues(queueSem, queueSem', s, Amount(sender[s].size)) /\ sender' = sender
           \/ /\ queueSem.outcome[s] = "none" /\ queueSem.failing /\ queueSem' = queueSem
              /\ sender'[s].at = "failed"
           \/ queueSem.outcome[s] = "Ok" /\ Collects(queueSem, queueSem', s) /\ sender'[s].at = "send"
           \/ /\ queueSem.outcome[s] = "Poisoned" /\ Collects(queueSem, queueSem', s)
              /\ sender'[s].at = "failed"
    <3>1. CASE /\ queueSem.outcome[s] = "none" /\ Queue!Goto(s, "send")
               /\ Queue!Semaphore!Take(Queue!Amount(sender[s].size))
      <4>1. Takes(queueSem, queueSem', Amount(sender[s].size))
        BY <1>q, <3>1 DEF Queue!Semaphore!Take, Queue!Semaphore!MayTake, Takes
      <4> QED  BY <2>2, <3>1, <4>1
    <3>2. CASE Queue!Semaphore!Enqueue(s, Queue!Amount(sender[s].size)) /\ UNCHANGED sender
      <4>1. Enqueues(queueSem, queueSem', s, Amount(sender[s].size))
        BY <1>q, <3>2 DEF Queue!Semaphore!Enqueue, Enqueues
      <4> QED  BY <1>0, <3>2, <4>1
    <3>3. CASE /\ queueSem.outcome[s] = "none" /\ queueSem.failing /\ queueSem' = queueSem
               /\ Queue!Goto(s, "failed")
      BY <2>2, <3>3
    <3>4. CASE Queue!Resume(s)
      <4>1. /\ Collects(queueSem, queueSem', s) /\ queueSem.outcome[s] \in {"Ok", "Poisoned"}
            /\ Queue!Goto(s, IF queueSem.outcome[s] = "Ok" THEN "send" ELSE "failed")
        BY <3>4 DEF Queue!Resume, Queue!Semaphore!Collect, Queue!Semaphore!Done, Collects
      <4>2. CASE queueSem.outcome[s] = "Ok"
        BY <2>2, <4>1, <4>2
      <4>3. CASE queueSem.outcome[s] = "Poisoned"
        BY <2>2, <4>1, <4>3
      <4> QED  BY <4>1, <4>2, <4>3
    <3> QED  BY <1>2, <3>1, <3>2, <3>3, <3>4 DEF Queue!Acquire
  <2>4. /\ Uses(queueSem', Senders, Users(example, sender'))
        /\ A(queueSem', sender') = A(queueSem, sender)
    BY <1>0, <2>1, <2>3, SenderAcquires DEF Amount
  <2>5. A(queueSem', sender') + I(channel'.queue) + R(receiver')
          <= A(queueSem, sender) + I(channel.queue) + R(receiver)
    <3> HIDE DEF A, I, R
    <3> QED  BY <1>n, <2>0, <2>4
  <2> QED  BY <1>0, <1>z, <2>0, <2>3, <2>4, <2>5
<1>3. ASSUME NEW s \in Senders, Queue!Send(s) PROVE QueueRoomInv'
  <2> DEFINE k == sender[s].size
             n == Amount(k)
  <2>1. /\ sender[s].at = "send" /\ k \in Nat /\ n \in Nat
        /\ UNCHANGED <<example, receiver>>
    BY <1>0, <1>3, <1>m DEF Queue!Send, SenderRecords
  <2>2. ASSUME NEW label \in {"next", "failed"}, Queue!Goto(s, label)
        PROVE  /\ sender' \in SenderRecords /\ sender'[s].at = label
               /\ sender'[s].size = k /\ \A x \in Senders \ {s} : sender'[x] = sender[x]
    BY <1>0, <2>2 DEF Queue!Goto, SenderRecords
  <2>3. /\ sender' \in SenderRecords /\ sender'[s].at \in {"next", "failed"}
        /\ \A x \in Senders \ {s} : sender'[x] = sender[x]
    BY <1>3, <2>2 DEF Queue!Send
  <2>4. ASSUME NEW z, Uses(z, Senders, Users(example, sender))
        PROVE  /\ Uses(z, Senders, Users(example, sender'))
               /\ W(z, sender') + n = W(z, sender) /\ W(z, sender') \in Nat
    <3>1. /\ Uses(z, Senders, Users(example, sender'))
          /\ W(z, sender') + n = W(z, sender) + 0
      BY <1>0, <2>1, <2>3, <2>4, SenderMoves DEF Amount
    <3>2. W(z, sender') \in Nat /\ W(z, sender) \in Nat
      BY <1>0, <2>4, <3>1, QueueCounts
    <3> HIDE DEF W, n
    <3> QED  BY <2>1, <3>1, <3>2
  <2>5. CASE channel.closed
    <3>1. Gives(queueSem, queueSem', n) /\ channel' = channel
      BY <1>3, <1>q, <2>5 DEF Queue!Send, Queue!Semaphore!Give, Queue!Semaphore!Add, Gives
    <3> HIDE DEF n, k
    <3>2. /\ Uses(queueSem', Senders, Users(example, sender))
          /\ W(queueSem', sender) = W(queueSem, sender)
          /\ queueSem'.permits \in Nat /\ queueSem'.permits <= queueSem.permits + n
      BY <1>g, <2>1, <3>1
    <3>3. /\ Uses(queueSem', Senders, Users(example, sender'))
          /\ W(queueSem', sender') + n = W(queueSem', sender) /\ W(queueSem', sender') \in Nat
      BY <2>4, <3>2
    <3>4. A(queueSem', sender') <= A(queueSem, sender) /\ A(queueSem', sender') \in Nat
      BY <1>n, <2>1, <3>2, <3>3 DEF All
    <3>5. A(queueSem', sender') + I(channel'.queue) + R(receiver')
            <= A(queueSem, sender) + I(channel.queue) + R(receiver)
      <4> HIDE DEF A, I, R
      <4> QED  BY <1>n, <2>1, <3>1, <3>4
    <3> QED  BY <1>0, <1>z, <2>1, <2>3, <3>1, <3>3, <3>5
  <2>6. CASE ~channel.closed
    <3>1. /\ channel' = [channel EXCEPT !.queue = Append(@, k)] /\ queueSem' = queueSem
      BY <1>3, <2>6 DEF Queue!Send, Queue!Sent
    <3>2. channel'.queue = Append(channel.queue, k)
      BY <1>0, <3>1
    <3>3. PICK q \in Seq(Nat) : q = channel.queue
      BY <1>0
    <3>4. I(Append(q, k)) = I(q) + n
      <4> HIDE DEF k
      <4> QED  BY <2>1, <3>3, MessageSent DEF Amount
    <3>5. /\ Uses(queueSem, Senders, Users(example, sender'))
          /\ W(queueSem, sender') + n = W(queueSem, sender) /\ W(queueSem, sender') \in Nat
      BY <1>0, <2>4
    <3>6. A(queueSem, sender') + n = A(queueSem, sender) /\ A(queueSem, sender') \in Nat
      <4> DEFINE p == queueSem.permits
                 x == W(queueSem, sender)
                 y == W(queueSem, sender')
      <4>1. p \in Nat /\ x \in Nat /\ y \in Nat /\ n \in Nat /\ y + n = x
        BY <1>n, <2>1, <3>5
      <4> HIDE DEF n, p, x, y
      <4>2. p + y + n = p + x /\ p + y \in Nat
        BY <4>1
      <4> QED  BY <4>2 DEF All, W, p, x, y
    <3>7. channel'.queue \in Seq(Nat) /\ channel' \in [queue: Seq(Nat), closed: BOOLEAN]
      <4> HIDE DEF k
      <4>1. Append(channel.queue, k) \in Seq(Nat)
        BY <2>1, <3>3
      <4>2. channel' = [channel EXCEPT !.queue = Append(channel.queue, k)]
        BY <3>1
      <4> QED  BY <1>0, <3>2, <4>1, <4>2
    <3>8. I(channel'.queue) = I(channel.queue) + n
      <4> HIDE DEF I, k, n
      <4> QED  BY <3>2, <3>3, <3>4
    <3>9. I(channel'.queue) \in Nat
      BY <1>0, <3>7, QueueCounts
    <3>10. A(queueSem', sender') + I(channel'.queue) + R(receiver')
             <= A(queueSem, sender) + I(channel.queue) + R(receiver)
      <4> DEFINE a == A(queueSem, sender')
                 b == A(queueSem, sender)
                 i == I(channel'.queue)
                 j == I(channel.queue)
                 h == R(receiver)
      <4>1. R(receiver') = h /\ A(queueSem', sender') = a
        BY <2>1, <3>1
      <4>2. i = j + n /\ a + n = b
        BY <3>6, <3>8
      <4>3. a \in Nat /\ b \in Nat /\ i \in Nat /\ j \in Nat /\ h \in Nat
        BY <1>n, <3>6, <3>9
      <4>4. n \in Nat
        BY <2>1
      <4> HIDE DEF n, a, b, i, j, h
      <4>5. a + i + h <= b + j + h
        BY <4>2, <4>3, <4>4
      <4>6. A(queueSem', sender') + I(channel'.queue) + R(receiver') = a + i + h
        BY <4>1 DEF i
      <4> QED  BY <4>5, <4>6 DEF b, j, h
    <3> QED  BY <1>0, <1>z, <2>1, <2>3, <3>1, <3>5, <3>7, <3>10
  <2> QED  BY <2>5, <2>6
<1>r. ASSUME NEW z, Uses(z, Senders, Users(example, sender)),
             W(z, sender) = W(queueSem, sender), z.permits \in Nat, NEW n \in Nat
      PROVE  /\ A(z, sender) \in Nat
             /\ z.permits <= queueSem.permits + n => A(z, sender) <= A(queueSem, sender) + n
  <2> HIDE DEF W
  <2>1. /\ z.permits + W(z, sender) \in Nat
        /\ z.permits <= queueSem.permits + n =>
             z.permits + W(z, sender) <= queueSem.permits + W(queueSem, sender) + n
    BY <1>n, <1>r
  <2> QED  BY <2>1 DEF All, W
<1>4. CASE Queue!Recv
  <2> DEFINE q == channel.queue
             k == Head(q)
             n == Amount(k)
  <2>1. /\ receiver.at = "recv" /\ q # <<>> /\ UNCHANGED <<example, sender>>
        /\ receiver' = [at |-> "parsing", size |-> k]
        /\ channel' = [channel EXCEPT !.queue = Tail(@)]
    BY <1>4 DEF Queue!Recv
  <2>2. k \in Nat /\ Tail(q) \in Seq(Nat) /\ I(q) = I(Tail(q)) + n /\ n \in Nat
    <3>1. k \in Nat /\ Tail(q) \in Seq(Nat) /\ I(q) = I(Tail(q)) + n
      BY <1>0, <2>1, MessageReceived DEF Amount
    <3> QED  BY <1>m, <3>1
  <2>3. /\ channel' \in [queue: Seq(Nat), closed: BOOLEAN] /\ channel'.queue = Tail(q)
        /\ receiver' \in [at: {"recv", "parsing", "end"}, size: Nat] /\ receiver'.at = "parsing"
    BY <1>0, <2>1, <2>2
  <2>4. R(receiver) = 0 /\ R(receiver') = IF example # "forget" THEN n ELSE 0
    BY <2>1 DEF Parsing, Amount
  <2>5. I(channel'.queue) + n = I(channel.queue) /\ I(channel'.queue) \in Nat
    <3>1. I(channel'.queue) \in Nat
      BY <1>0, <2>3, QueueCounts
    <3> HIDE DEF I, n
    <3> QED  BY <2>2, <2>3, <3>1
  <2>6. CASE example # "forget"
    <3>1. queueSem' = queueSem
      BY <1>4, <2>6 DEF Queue!Recv, Queue!Travels
    <3>2. A(queueSem', sender') + I(channel'.queue) + R(receiver')
            <= A(queueSem, sender) + I(channel.queue) + R(receiver)
      <4> HIDE DEF A, I, R, n
      <4> QED  BY <1>n, <2>1, <2>2, <2>4, <2>5, <2>6, <3>1
    <3> QED  BY <1>0, <1>z, <2>1, <2>3, <3>1, <3>2
  <2>7. CASE example = "forget"
    <3>1. Gives(queueSem, queueSem', n)
      BY <1>4, <1>q, <2>7
         DEF Queue!Recv, Queue!Travels, Queue!Received, Queue!Semaphore!Give, Queue!Semaphore!Add, Gives
    <3> HIDE DEF n
    <3>2. /\ Uses(queueSem', Senders, Users(example, sender))
          /\ A(queueSem', sender) <= A(queueSem, sender) + n /\ A(queueSem', sender) \in Nat
      BY <1>g, <1>r, <2>2, <3>1
    <3>3. A(queueSem', sender') + I(channel'.queue) + R(receiver')
            <= A(queueSem, sender) + I(channel.queue) + R(receiver)
      <4> HIDE DEF A, I, R
      <4> QED  BY <1>n, <2>1, <2>2, <2>4, <2>5, <2>7, <3>2
    <3> QED  BY <1>0, <1>z, <2>1, <2>3, <3>2, <3>3
  <2> QED  BY <2>6, <2>7
<1>5. CASE Queue!Parsed
  <2> DEFINE n == Amount(receiver.size)
  <2>1. /\ receiver.at = "parsing" /\ receiver' = [at |-> "recv", size |-> 0]
        /\ UNCHANGED <<example, channel, sender>> /\ n \in Nat
    BY <1>0, <1>5, <1>m DEF Queue!Parsed
  <2>2. R(receiver') = 0 /\ R(receiver) = IF example # "forget" THEN n ELSE 0
    BY <2>1 DEF Parsing, Amount
  <2>3. receiver' \in [at: {"recv", "parsing", "end"}, size: Nat] /\ receiver'.size = 0
    BY <2>1
  <2>4. CASE example # "forget"
    <3>1. Gives(queueSem, queueSem', n)
      BY <1>5, <1>q, <2>4
         DEF Queue!Parsed, Queue!Travels, Queue!Received, Queue!Semaphore!Give, Queue!Semaphore!Add, Gives
    <3> HIDE DEF n
    <3>2. /\ Uses(queueSem', Senders, Users(example, sender))
          /\ A(queueSem', sender) <= A(queueSem, sender) + n /\ A(queueSem', sender) \in Nat
      BY <1>g, <1>r, <2>1, <3>1
    <3>3. A(queueSem', sender') + I(channel'.queue) + R(receiver')
            <= A(queueSem, sender) + I(channel.queue) + R(receiver)
      <4> HIDE DEF A, I, R
      <4> QED  BY <1>n, <2>1, <2>2, <2>4, <3>2
    <3> QED  BY <1>0, <1>z, <2>1, <2>3, <3>2, <3>3
  <2>5. CASE example = "forget"
    <3>1. queueSem' = queueSem
      BY <1>5, <2>5 DEF Queue!Parsed, Queue!Travels
    <3>2. A(queueSem', sender') + I(channel'.queue) + R(receiver')
            <= A(queueSem, sender) + I(channel.queue) + R(receiver)
      <4> HIDE DEF A, I, R
      <4> QED  BY <1>n, <2>1, <2>2, <2>5, <3>1
    <3> QED  BY <1>0, <1>z, <2>1, <2>3, <3>1, <3>2
  <2> QED  BY <2>4, <2>5
<1>6. CASE Queue!RecvFails
  <2>1. /\ receiver.at = "recv" /\ receiver' = [receiver EXCEPT !.at = "end"]
        /\ UNCHANGED <<example, channel, sender>>
        /\ queueSem' = queueSem \/ queueSem' = [queueSem EXCEPT !.poisoned = TRUE]
    BY <1>6 DEF Queue!RecvFails, Queue!Semaphore!PoisonAll
  <2>2. /\ receiver' \in [at: {"recv", "parsing", "end"}, size: Nat] /\ receiver'.size = 0
        /\ R(receiver) = 0 /\ R(receiver') = 0
    BY <1>0, <2>1 DEF Parsing
  <2>3. /\ QueueOK(queueSem', Senders) /\ queueSem'.permits = queueSem.permits
        /\ queueSem'.amount = queueSem.amount /\ queueSem'.outcome = queueSem.outcome
    <3>1. QueueOK(queueSem, Senders) /\ (queueSem' = queueSem \/ queueSem' = [queueSem EXCEPT !.poisoned = TRUE])
      BY <1>0, <2>1
    <3> QED  BY <3>1, PoisonedAll
  <2>4. /\ Uses(queueSem', Senders, Users(example, sender))
        /\ W(queueSem', sender) = W(queueSem, sender)
    BY <1>0, <2>3, SameUses
  <2>5. A(queueSem', sender) = A(queueSem, sender)
    BY <2>3, <2>4 DEF All
  <2>6. A(queueSem', sender') + I(channel'.queue) + R(receiver')
          <= A(queueSem, sender) + I(channel.queue) + R(receiver)
    <3> HIDE DEF A, I, R
    <3> QED  BY <1>n, <2>1, <2>2, <2>5
  <2> QED  BY <1>0, <1>z, <2>1, <2>2, <2>4, <2>6
<1>7. CASE Queue!Close
  <2>1. /\ channel' = [channel EXCEPT !.closed = TRUE]
        /\ UNCHANGED <<example, queueSem, sender, receiver>>
    BY <1>7 DEF Queue!Close
  <2>2. channel' \in [queue: Seq(Nat), closed: BOOLEAN] /\ channel'.queue = channel.queue
    BY <1>0, <2>1
  <2>3. A(queueSem', sender') + I(channel'.queue) + R(receiver')
          <= A(queueSem, sender) + I(channel.queue) + R(receiver)
    <3> HIDE DEF A, I, R
    <3> QED  BY <1>n, <2>1, <2>2
  <2> QED  BY <1>0, <1>z, <2>1, <2>2, <2>3
<1>8. ASSUME UNCHANGED <<example, channel, sender, receiver>>,
             Uses(queueSem', Senders, Users(example, sender)),
             A(queueSem', sender) <= A(queueSem, sender), A(queueSem', sender) \in Nat
      PROVE  QueueRoomInv'
  <2>1. A(queueSem', sender') + I(channel'.queue) + R(receiver')
          <= A(queueSem, sender) + I(channel.queue) + R(receiver)
    <3> HIDE DEF A, I, R
    <3> QED  BY <1>n, <1>8
  <2> QED  BY <1>0, <1>z, <1>8, <2>1
<1>9. CASE Queue!Serve
  <2>1. PICK s \in Senders : Queue!Semaphore!Grant(s) \/ Queue!Semaphore!Fail(s)
    BY <1>9 DEF Queue!Serve, Queue!Semaphore!Serve
  <2>2. Grants(queueSem, queueSem', s) \/ Fails(queueSem, queueSem', s)
    BY <2>1 DEF Queue!Semaphore!Grant, Queue!Semaphore!Fail, Queue!Semaphore!AtFront, Grants, Fails
  <2>3. /\ Uses(queueSem', Senders, Users(example, sender))
        /\ A(queueSem', sender) = A(queueSem, sender)
    BY <1>0, <2>2, ServedUses
  <2>4. UNCHANGED <<example, channel, sender, receiver>>
    BY <1>9 DEF Queue!Serve
  <2> HIDE DEF A
  <2> QED  BY <1>n, <1>8, <2>3, <2>4
<1>10. CASE Queue!Swallow
  <2>1. Swallows(queueSem, queueSem')
    BY <1>10 DEF Queue!Swallow, Queue!Semaphore!Swallow, Swallows
  <2>2. /\ QueueOK(queueSem', Senders) /\ queueSem'.permits \in Nat
        /\ queueSem'.permits <= queueSem.permits
        /\ queueSem'.amount = queueSem.amount /\ queueSem'.outcome = queueSem.outcome
    BY <1>0, <2>1, Swallowed
  <2>3. /\ Uses(queueSem', Senders, Users(example, sender))
        /\ W(queueSem', sender) = W(queueSem, sender)
    BY <1>0, <2>2, SameUses
  <2>4. queueSem'.permits <= queueSem.permits + 0 /\ 0 \in Nat
    BY <1>n, <2>2
  <2>5. A(queueSem', sender) <= A(queueSem, sender) + 0 /\ A(queueSem', sender) \in Nat
    BY <1>r, <2>2, <2>3, <2>4
  <2>6. UNCHANGED <<example, channel, sender, receiver>>
    BY <1>10 DEF Queue!Swallow
  <2> HIDE DEF A
  <2> QED  BY <1>n, <1>8, <2>3, <2>5, <2>6
<1>11. CASE UNCHANGED Queue!vars
  <2>1. UNCHANGED <<example, queueSem, channel, sender, receiver>>
    BY <1>11 DEF Queue!vars
  <2> HIDE DEF A
  <2> QED  BY <1>0, <1>n, <1>8, <2>1
<1> QED  BY <1>1, <1>2, <1>3, <1>4, <1>5, <1>6, <1>7, <1>9, <1>10, <1>11
         DEF Queue!Next, Queue!SenderStep, Queue!ReceiverStep

\* In the beginning the channel is empty, and nobody has anything.
LEMMA QueueInitially == ASSUME QueueAssumption, Queue!Init PROVE QueueRoomInv
<1> DEFINE p == IF QueueCapacity > MaxAvailable THEN 0 ELSE QueueCapacity
           b == QueueCapacity > MaxAvailable
           u == Users(example, sender)
<1>1. /\ queueSem = [permits |-> p, poisoned |-> b, failing |-> b, queue |-> <<>>,
                     amount |-> [t \in Senders |-> 0], outcome |-> [t \in Senders |-> "none"]]
      /\ channel = [queue |-> <<>>, closed |-> FALSE]
      /\ sender = [s \in Senders |-> [at |-> "next", size |-> 0, left |-> Messages]]
      /\ receiver = [at |-> "recv", size |-> 0]
  BY DEF Queue!Init, Queue!Semaphore!New
<1>2. p \in Nat /\ p <= QueueCapacity /\ b \in BOOLEAN
  BY DEF QueueAssumption
<1> HIDE DEF p, b
<1>3. /\ queueSem \in SemRecord(Senders) /\ queueSem.permits = p /\ queueSem.queue = <<>>
      /\ queueSem.failing = b /\ queueSem.poisoned = b
      /\ queueSem.outcome = [t \in Senders |-> "none"]
  BY <1>1, <1>2 DEF SemRecord, Outcome
<1>4. QueueOK(queueSem, Senders)
  BY <1>3 DEF QueueOK
<1>5. \A s \in Senders : u[s].at = "next" /\ u[s].size \in Nat
  BY <1>1 DEF Users, AmountOf, QueueAssumption
<1>6. Uses(queueSem, Senders, u)
  BY <1>3, <1>4, <1>5 DEF Uses
<1>7. QueueTypes
  BY <1>1, <1>6 DEF QueueTypes, SenderRecords, QueueAssumption
<1>8. Held(queueSem, Senders, u, "send") = 0
  <2>1. \A s \in Senders : Holds(queueSem, Senders, u, "send")[s] = 0
    BY <1>3, <1>5 DEF Holds
  <2> QED  BY <2>1, SumNothing DEF Held
<1>9. InQueue(example, channel.queue) = 0 /\ Parsing(example, receiver) = 0
  <2>1. channel.queue = <<>> /\ 1 .. Len(<<>>) = {}
    BY <1>1
  <2>2. SumOf(Amounts(example, <<>>), {}) = 0
    BY SumNothing
  <2> QED  BY <1>1, <2>1, <2>2 DEF InQueue, Parsing
<1>10. QueueRoom
  BY <1>2, <1>3, <1>8, <1>9 DEF QueueRoom, All, u
<1> QED  BY <1>7, <1>10 DEF QueueRoomInv

\* A message is not larger than what was acquired for it, and one permit is
\* acquired for each where sizes do not count.
LEMMA QueueIsBounded == QueueAssumption /\ QueueRoomInv => Queue!Bounded
<1> SUFFICES ASSUME QueueAssumption, QueueRoomInv PROVE Queue!Bounded
  OBVIOUS
<1> DEFINE q == channel.queue
           k == Len(q)
           S == 1 .. k
           a == Amounts(example, q)
           R == Parsing(example, receiver)
<1>1. /\ q \in Seq(Nat) /\ k \in Nat /\ DOMAIN q = S /\ \A i \in S : q[i] \in Nat
      /\ receiver.size \in Nat /\ QueueCapacity \in Nat
      /\ (receiver.at # "parsing" => receiver.size = 0)
  BY DEF QueueRoomInv, QueueTypes, QueueAssumption
<1>2. \A n \in Nat : AmountOf(example, n) \in Nat /\ (example = "size" => n <= AmountOf(example, n))
  BY <1>1 DEF AmountOf
<1>3. a \in [S -> Nat] /\ IsFiniteSet(S) /\ \A i \in S : a[i] = AmountOf(example, q[i])
  <2>1. 1 \in Int /\ k \in Int
    BY <1>1
  <2>2. IsFiniteSet(S)
    BY <2>1, FS_Interval
  <2>3. \A i \in S : AmountOf(example, q[i]) \in Nat
    BY <1>1, <1>2
  <2> QED  BY <2>2, <2>3 DEF Amounts
<1>4. SumOf(a, S) \in Nat /\ R \in Nat /\ SumOf(a, S) + R <= QueueCapacity
  <2> DEFINE A == All(queueSem, Senders, Users(example, sender), "send")
             I == InQueue(example, q)
  <2>1. A \in Nat /\ I \in Nat /\ R \in Nat
    BY <1>1, QueueCounts DEF QueueRoomInv, QueueTypes
  <2>2. A + I + R <= QueueCapacity
    BY DEF QueueRoomInv, QueueRoom
  <2>3. I = SumOf(a, S)
    BY DEF InQueue
  <2>4. QueueCapacity \in Nat
    BY <1>1
  <2> HIDE DEF A, I, R, a, S, q
  <2>5. I + R <= QueueCapacity
    BY <2>1, <2>2, <2>4
  <2> QED  BY <2>1, <2>3, <2>5
<1> HIDE DEF R, a, S, k, q
<1>5. CASE example = "size"
  <2>1. receiver.size <= R
    <3>1. CASE receiver.at = "parsing"
      <4>1. R = AmountOf(example, receiver.size)
        BY <1>5, <3>1 DEF R, Parsing
      <4> QED  BY <1>1, <1>2, <1>5, <4>1
    <3>2. CASE receiver.at # "parsing"
      <4>1. receiver.size = 0 /\ R = 0
        BY <1>1, <3>2 DEF R, Parsing
      <4> QED  BY <4>1
    <3> QED  BY <3>1, <3>2
  <2>2. q \in [S -> Nat]
    BY <1>1
  <2>3. SumOf(q, S) <= SumOf(a, S) /\ SumOf(q, S) \in Nat
    <3>1. \A i \in S : q[i] <= a[i]
      BY <1>1, <1>2, <1>3, <1>5
    <3> QED  BY <1>3, <2>2, <3>1, SumMonotone, OnesFinite
  <2>4. SumOf(q, S) + receiver.size <= QueueCapacity
    BY <1>1, <1>4, <2>1, <2>3
  <2>5. Queue!SumOf(channel.queue, DOMAIN channel.queue) = SumOf(q, S)
    BY <1>1 DEF Queue!SumOf, Queue!Ones, Queue!Cardinality, SumOf, Ones, Cardinality, q
  <2> QED  BY <1>5, <2>4, <2>5 DEF Queue!Bounded
<1>6. CASE example # "size"
  <2>1. \A i \in S : a[i] = 1
    BY <1>3, <1>6 DEF AmountOf
  <2>2. Ones(a, S) = S \X {1}
    <3>1. \A i \in S : 1 .. a[i] = {1}
      BY <2>1
    <3> QED  BY <3>1 DEF Ones
  <2>3. Cardinality(S) = k
    <3>1. 1 \in Int /\ k \in Int /\ k \in Nat
      BY <1>1
    <3> QED  BY <3>1, FS_Interval DEF S
  <2>4. IsFiniteSet({1}) /\ Cardinality({1}) = 1
    BY FS_Singleton
  <2>5. Cardinality(S \X {1}) = k * 1
    BY <1>3, <2>3, <2>4, FS_Product
  <2>6. k <= QueueCapacity
    BY <1>1, <1>4, <2>2, <2>5 DEF SumOf
  <2> QED  BY <1>6, <2>6 DEF Queue!Bounded, k, q
<1> QED  BY <1>5, <1>6

\* The queues of lib.rs, acquire_arc and release, with any number of senders and
\* messages of any sizes: the channel holds no more than the semaphore admits.
THEOREM QueuesAreBounded ==
  ASSUME QueueAssumption
  PROVE  Queue!Spec => []Bounded
<1>1. Queue!Init => QueueRoomInv
  BY QueueInitially
<1>2. QueueRoomInv /\ [Queue!Next]_(Queue!vars) => QueueRoomInv'
  BY QueueInductive
<1>3. QueueRoomInv => Queue!Bounded
  BY QueueIsBounded
<1> QED  BY <1>1, <1>2, <1>3, PTL DEF Queue!Spec, Bounded

=============================================================================
