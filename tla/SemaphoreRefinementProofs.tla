---------------------- MODULE SemaphoreRefinementProofs ----------------------
(***************************************************************************)
(* Semaphore implements SemaphoreSpec, for every set of tasks and every    *)
(* choice of the other constants, and so does WakeReentry.                 *)
(***************************************************************************)
EXTENDS WakeReentry, SemaphoreQueueProofs, Sequences

USE MaxAvailableAssumption, ConstantsAssumption

USE DEF Queued, Available, Unlocked, Locked, LockedDirty,
        semaphoreVars, nodeVars, localVars, clientVars, historyVars

-----------------------------------------------------------------------------
(* The queue as a sequence *)

\* What QueueOrder says of the pending acquires.
IsOrder(S, older) ==
  /\ IsFiniteSet(S)
  /\ \A v \in S : older[v] \subseteq S \ {v}
  /\ \A v, w \in S : v # w => (v \in older[w] <=> w \notin older[v])
  /\ \A v, w \in S : v \in older[w] => older[v] \subseteq older[w]

\* Each member has a place of its own, and the places are without a gap.
LEMMA Places ==
  ASSUME NEW S, NEW older, IsOrder(S, older)
  PROVE  /\ Cardinality(S) \in Nat
         /\ \A v \in S : Cardinality(older[v]) \in 0 .. Cardinality(S) - 1
         /\ \A v, w \in S : v \in older[w] <=> Cardinality(older[v]) < Cardinality(older[w])
         /\ \A v, w \in S : Cardinality(older[v]) = Cardinality(older[w]) => v = w
         /\ \A i \in 1 .. Cardinality(S) : \E v \in S : Cardinality(older[v]) = i - 1
<1> USE DEF IsOrder
<1>1. Cardinality(S) \in Nat
  BY FS_CardinalityType
<1>2. ASSUME NEW v \in S
      PROVE  IsFiniteSet(older[v]) /\ Cardinality(older[v]) \in 0 .. Cardinality(S) - 1
  <2>1. IsFiniteSet(S \ {v}) /\ Cardinality(S \ {v}) = Cardinality(S) - 1
    BY FS_RemoveElement
  <2>2. older[v] \in SUBSET (S \ {v})
    OBVIOUS
  <2>3. IsFiniteSet(older[v]) /\ Cardinality(older[v]) <= Cardinality(S \ {v})
    BY <2>1, <2>2, FS_Subset
  <2> QED  BY <1>1, <2>1, <2>3, FS_CardinalityType
<1>3. ASSUME NEW v \in S, NEW w \in S, v \in older[w]
      PROVE  Cardinality(older[v]) < Cardinality(older[w])
  <2>1. older[v] \in SUBSET older[w] /\ v \notin older[v] /\ older[v] # older[w]
    BY <1>3
  <2>2. Cardinality(older[v]) <= Cardinality(older[w]) /\ Cardinality(older[v]) # Cardinality(older[w])
    BY <1>2, <2>1, FS_Subset
  <2> QED  BY <1>1, <1>2, <2>2
<1>4. \A v, w \in S : v \in older[w] \/ w \in older[v] \/ v = w
  OBVIOUS
<1>5. \A v, w \in S : v \in older[w] <=> Cardinality(older[v]) < Cardinality(older[w])
  BY <1>1, <1>2, <1>3, <1>4
<1>6. \A v, w \in S : Cardinality(older[v]) = Cardinality(older[w]) => v = w
  BY <1>1, <1>2, <1>4, <1>5
<1>7. ASSUME NEW i \in 1 .. Cardinality(S) PROVE \E v \in S : Cardinality(older[v]) = i - 1
  <2> DEFINE place == [v \in S |-> Cardinality(older[v]) + 1]
             n == Cardinality(S)
  <2>1. place \in [S -> 1 .. n]
    BY <1>1, <1>2
  <2>2. \A v, w \in S : place[v] = place[w] => v = w
    BY <1>1, <1>2, <1>6
  <2>3. place \in Injection(S, 1 .. n)
    <3> HIDE DEF place
    <3> QED  BY <2>1, <2>2 DEF Injection, IsInjective
  <2>4. IsFiniteSet(1 .. n) /\ Cardinality(1 .. n) = n
    BY <1>1, FS_Interval
  <2>5. place \in Surjection(S, 1 .. n)
    <3> HIDE DEF place
    <3>1. Cardinality(S) = Cardinality(1 .. n)
      BY <2>4
    <3> QED  BY <2>3, <2>4, <3>1, FS_Injection
  <2>6. PICK v \in S : place[v] = i
    BY <2>5 DEF Surjection
  <2> QED  BY <1>1, <1>2, <2>6
<1> QED  BY <1>1, <1>2, <1>5, <1>6, <1>7

\* InOrder lists the members by their places.
LEMMA InOrderLists ==
  ASSUME NEW S, NEW older, IsOrder(S, older)
  PROVE  /\ InOrder(S, older) \in Seq(S) /\ Len(InOrder(S, older)) = Cardinality(S)
         /\ \A i \in 1 .. Cardinality(S) : /\ InOrder(S, older)[i] \in S
                                           /\ Cardinality(older[InOrder(S, older)[i]]) = i - 1
         /\ \A v \in S : InOrder(S, older)[Cardinality(older[v]) + 1] = v
<1> DEFINE line == InOrder(S, older)
<1>1. Cardinality(S) \in Nat /\ \A i \in 1 .. Cardinality(S) : \E v \in S : Cardinality(older[v]) = i - 1
  BY Places
<1>2. \A i \in 1 .. Cardinality(S) : line[i] \in S /\ Cardinality(older[line[i]]) = i - 1
  BY <1>1 DEF InOrder
<1>3. line \in Seq(S) /\ Len(line) = Cardinality(S)
  BY <1>1, <1>2 DEF InOrder
<1>4. ASSUME NEW v \in S PROVE line[Cardinality(older[v]) + 1] = v
  <2>1. Cardinality(older[v]) + 1 \in 1 .. Cardinality(S)
    BY <1>1, Places
  <2>2. Cardinality(older[line[Cardinality(older[v]) + 1]]) = Cardinality(older[v])
    BY <1>1, <1>2, <2>1, Places
  <2> QED  BY <1>2, <2>1, <2>2, Places
<1> QED  BY <1>2, <1>3, <1>4

\* The only list that does.
LEMMA InOrderUnique ==
  ASSUME NEW S, NEW older, IsOrder(S, older), NEW line,
         \A i \in 1 .. Cardinality(S) : line[i] \in S /\ Cardinality(older[line[i]]) = i - 1
  PROVE  \A i \in 1 .. Cardinality(S) : line[i] = InOrder(S, older)[i]
<1>1. \A i \in 1 .. Cardinality(S) : InOrder(S, older)[i] \in S /\ Cardinality(older[InOrder(S, older)[i]]) = i - 1
  BY InOrderLists
<1> QED  BY <1>1, Places

\* x joins S, younger than all of it, which makes it T.
Joins(x, S, older, T, later) ==
  /\ x \notin S /\ T = S \cup {x} /\ later[x] = S
  /\ \A v \in S : later[v] = older[v]

\* A newcomer stands last.
LEMMA InOrderAppend ==
  ASSUME NEW S, NEW older, IsOrder(S, older), NEW x, NEW T, NEW later, Joins(x, S, older, T, later)
  PROVE  InOrder(T, later) = Append(InOrder(S, older), x)
<1> DEFINE line == Append(InOrder(S, older), x)
<1>0. T = S \cup {x} /\ x \notin S /\ later[x] = S /\ \A v \in S : later[v] = older[v]
  BY DEF Joins
<1>1. IsFiniteSet(S) /\ Cardinality(S) \in Nat
  BY Places DEF IsOrder
<1>2. IsFiniteSet(T) /\ Cardinality(T) = Cardinality(S) + 1
  BY <1>0, <1>1, FS_AddElement
<1>3. IsOrder(T, later)
  BY <1>0, <1>2 DEF IsOrder
<1>4. InOrder(S, older) \in Seq(T) /\ Len(InOrder(S, older)) = Cardinality(S)
  <2>1. InOrder(S, older) \in Seq(S) /\ Len(InOrder(S, older)) = Cardinality(S)
    BY InOrderLists
  <2> QED  BY <1>0, <2>1
<1>5. line \in Seq(T) /\ DOMAIN line = 1 .. Cardinality(T) /\ line[Cardinality(T)] = x
      /\ \A i \in 1 .. Cardinality(S) : line[i] = InOrder(S, older)[i]
  <2>1. x \in T
    BY <1>0
  <2> QED  BY <1>1, <1>2, <1>4, <2>1
<1>6. \A i \in 1 .. Cardinality(T) : line[i] \in T /\ Cardinality(later[line[i]]) = i - 1
  <2>1. \A i \in 1 .. Cardinality(S) : line[i] \in S /\ Cardinality(older[line[i]]) = i - 1
    BY <1>5, InOrderLists
  <2> QED  BY <1>0, <1>1, <1>2, <1>5, <2>1
<1>7. \A i \in 1 .. Cardinality(T) : line[i] = InOrder(T, later)[i]
  <2> HIDE DEF line
  <2> QED  BY <1>3, <1>6, InOrderUnique
<1>8. InOrder(T, later) \in Seq(T) /\ Len(InOrder(T, later)) = Cardinality(T)
  BY <1>3, InOrderLists
<1> HIDE DEF line
<1>9. line = InOrder(T, later)
  BY <1>5, <1>7, <1>8
<1> QED  BY <1>9 DEF line

\* Who leaves, from whatever place, leaves no gap.
LEMMA InOrderRemove ==
  ASSUME NEW S, NEW older, IsOrder(S, older), NEW x \in S, NEW later,
         \A v \in S \ {x} : later[v] = older[v] \ {x}
  PROVE  /\ Cardinality(older[x]) + 1 \in 1 .. Cardinality(S)
         /\ InOrder(S \ {x}, later) = Contract!Remove(InOrder(S, older), Cardinality(older[x]) + 1)
<1> DEFINE T == S \ {x}
           n == Cardinality(S)
           k == Cardinality(older[x]) + 1
           old == InOrder(S, older)
           line == Contract!Remove(old, k)
<1>1. n \in Nat /\ k \in 1 .. n /\ IsFiniteSet(S)
  BY Places DEF IsOrder
<1>2. IsFiniteSet(T) /\ Cardinality(T) = n - 1
  BY <1>1, FS_RemoveElement
<1>3. IsOrder(T, later)
  BY <1>2 DEF IsOrder
<1>4. /\ Len(old) = n
      /\ \A i \in 1 .. n : old[i] \in S /\ Cardinality(older[old[i]]) = i - 1
      /\ old[k] = x
  BY InOrderLists
<1>5. DOMAIN line = 1 .. n - 1 /\ line = [i \in DOMAIN line |-> line[i]]
      /\ \A i \in 1 .. n - 1 : line[i] = old[IF i < k THEN i ELSE i + 1]
  BY <1>4 DEF Contract!Remove
<1>6. ASSUME NEW i \in 1 .. n - 1 PROVE line[i] \in T /\ Cardinality(later[line[i]]) = i - 1
  <2> DEFINE j == IF i < k THEN i ELSE i + 1
             v == old[j]
  <2>1. j \in 1 .. n /\ j # k /\ line[i] = v
    BY <1>1, <1>5
  <2>2. v \in S /\ Cardinality(older[v]) = j - 1
    BY <1>4, <2>1
  <2>3. v # x
    BY <1>1, <2>1, <2>2
  <2>4. x \in older[v] <=> k - 1 < j - 1
    BY <1>1, <2>2, Places
  <2>5. later[v] = older[v] \ {x} /\ IsFiniteSet(older[v])
    <3>1. older[v] \in SUBSET S
      BY <2>2 DEF IsOrder
    <3> QED  BY <1>1, <2>2, <2>3, <3>1, FS_Subset
  <2>6. Cardinality(older[v] \ {x}) = IF x \in older[v] THEN Cardinality(older[v]) - 1 ELSE Cardinality(older[v])
    BY <2>5, FS_RemoveElement
  <2>7. v \in T /\ later[v] = older[v] \ {x}
    BY <2>2, <2>3, <2>5
  <2>8. Cardinality(older[v] \ {x}) = i - 1
    <3> HIDE DEF v
    <3> QED  BY <1>1, <2>1, <2>2, <2>4, <2>6
  <2> QED  BY <2>1, <2>7, <2>8
<1>7. \A i \in 1 .. n - 1 : line[i] = InOrder(T, later)[i]
  <2>1. \A i \in 1 .. Cardinality(T) : line[i] \in T /\ Cardinality(later[line[i]]) = i - 1
    BY <1>2, <1>6
  <2> HIDE DEF line, T
  <2>2. \A i \in 1 .. Cardinality(T) : line[i] = InOrder(T, later)[i]
    BY <1>3, <2>1, InOrderUnique
  <2> QED  BY <1>2, <2>2
<1>8. InOrder(T, later) = [i \in 1 .. n - 1 |-> InOrder(T, later)[i]]
  BY <1>2 DEF InOrder
<1> HIDE DEF line, T
<1>9. line = InOrder(T, later)
  BY <1>5, <1>7, <1>8
<1> QED  BY <1>1, <1>9 DEF line, T

\* The pending acquires are such a set, by the order of their arrival.
LEMMA PendingInOrder == QueueInv => IsOrder(Pending, ahead)
<1> SUFFICES ASSUME QueueInv PROVE IsOrder(Pending, ahead)
  OBVIOUS
<1>1. Pending \in SUBSET Tasks
  BY DEF Pending
<1>2. IsFiniteSet(Pending)
  BY <1>1, TasksAssumption, FS_Subset
<1> QED  BY <1>2 DEF QueueInv, QueueShape, QueueOrder, IsOrder

-----------------------------------------------------------------------------
(* The counter *)

\* Poison counts for nothing, any other word for what it says.
LEMMA CountIsNat == \A p \in PermitCount : Count(p) \in 0 .. MaxAvailable /\ (p # POISON => Count(p) = p)
BY DEF Count, PermitCount, POISON

\* The sum of two counts, and what is left of it when it is too large.
LEMMA AddCases ==
  ASSUME NEW p \in PermitCount, NEW q \in PermitCount
  PROVE  \/ /\ AddPermits(p, q) = POISON /\ Count(AddPermits(p, q)) = 0
            /\ p = POISON \/ q = POISON \/ Count(p) + Count(q) > MaxAvailable
         \/ /\ AddPermits(p, q) = p + q /\ AddPermits(p, q) # POISON /\ p # POISON /\ q # POISON
            /\ Count(AddPermits(p, q)) = Count(p) + Count(q)
BY DEF Count, AddPermits, ToPermits, PermitCount, POISON

\* Free permits move only between the words and the task that takes the step.
LEMMA FreeStep ==
  ASSUME LockInv, LockInv', NEW t \in Tasks, \A u \in Tasks \ {t} : releasable'[u] = releasable[u]
  PROVE  /\ Free \in Nat /\ Free' \in Nat
         /\ Free' + Count(acquire.permits) + Count(release.permits) + Count(releasable[t])
              = Free + Count(acquire'.permits) + Count(release'.permits) + Count(releasable'[t])
         /\ Count(acquire.permits) + Count(release.permits) + Count(releasable[t]) <= Free
<1> DEFINE n == InRelease
           m == InRelease'
<1>1. /\ acquire.permits \in PermitCount /\ release.permits \in PermitCount /\ releasable \in [Tasks -> PermitCount]
      /\ acquire'.permits \in PermitCount /\ release'.permits \in PermitCount /\ releasable' \in [Tasks -> PermitCount]
  BY DEF LockInv, TypeOK
<1>2. n \in [Tasks -> Nat] /\ \A u \in Tasks : n[u] = Count(releasable[u])
  BY <1>1, CountIsNat DEF InRelease
<1>3. m \in [Tasks -> Nat] /\ \A u \in Tasks : m[u] = Count(releasable'[u])
  BY <1>1, CountIsNat DEF InRelease
<1>4. Free = Count(acquire.permits) + Count(release.permits) + SumOf(n, Tasks)
  BY DEF Free
<1>5. Free' = Count(acquire'.permits) + Count(release'.permits) + SumOf(m, Tasks)
  BY DEF Free, Count, SumOf, Ones
<1>6. n[t] \in Nat /\ m[t] \in Nat /\ n[t] = Count(releasable[t]) /\ m[t] = Count(releasable'[t])
  BY <1>2, <1>3
<1> DEFINE a == Count(acquire.permits)
           b == Count(release.permits)
           c == Count(acquire'.permits)
           d == Count(release'.permits)
<1>7. a \in Nat /\ b \in Nat /\ c \in Nat /\ d \in Nat
  BY <1>1, CountIsNat
<1> HIDE DEF n, m
<1>8. SumOf(m, Tasks) + n[t] = SumOf(n, Tasks) + m[t] /\ SumOf(n, Tasks) \in Nat /\ SumOf(m, Tasks) \in Nat
  BY <1>2, <1>3, TasksAssumption, SumUpdate
<1>9. SumOf(n, Tasks) = SumOf(n, Tasks \ {t}) + n[t] /\ SumOf(n, Tasks \ {t}) \in Nat
  BY <1>2, TasksAssumption, SumWithout
<1> HIDE DEF a, b, c, d
<1>10. Free \in Nat /\ Free' \in Nat /\ Free' + a + b + n[t] = Free + c + d + m[t] /\ a + b + n[t] <= Free
  <2>1. Free = a + b + SumOf(n, Tasks) /\ Free' = c + d + SumOf(m, Tasks)
    BY <1>4, <1>5 DEF a, b, c, d
  <2> QED  BY <1>6, <1>7, <1>8, <1>9, <2>1
<1> QED  BY <1>6, <1>10 DEF a, b, c, d

\* The words, the permits in hand and the lock are left alone by task t.
WordsKept ==
  /\ acquire'.tag = acquire.tag /\ acquire'.permits = acquire.permits
  /\ release' = release /\ releasable' = releasable
  /\ \A u \in Tasks : Owner(u)' <=> Owner(u)

\* The counter is what it was.
SameCounter == Free' = Free /\ (Poisoned' <=> Poisoned) /\ (Failing' <=> Failing)

\* Who leaves the words alone leaves the counter alone.
LEMMA WordsKeptStep == ASSUME LockInv, LockInv', WordsKept PROVE SameCounter
<1>1. Free' = Free
  BY DEF WordsKept, Free, InRelease, Count, SumOf, Ones
<1>2. Poisoned' <=> Poisoned
  BY DEF WordsKept, Poisoned
<1>3. acquire' = Available(POISON) <=> acquire = Available(POISON)
  <2>1. /\ acquire \in [tag: {"Queued", "Available"}, back: Pointer, permits: PermitCount]
        /\ acquire' \in [tag: {"Queued", "Available"}, back: Pointer, permits: PermitCount]
        /\ acquire.tag = "Available" => acquire.back = Null
        /\ acquire'.tag = "Available" => acquire'.back = Null
    BY DEF LockInv, TypeOK, Pointer
  <2> QED  BY <2>1 DEF WordsKept
<1>4. Failing' <=> Failing
  BY <1>3 DEF WordsKept, Failing
<1> QED  BY <1>1, <1>2, <1>4 DEF SameCounter

\* Poison overtakes the permits, or swallows some of them.
Swallows ==
  /\ Free' <= Free /\ Poisoned' /\ (Failing => Failing')
  /\ Poisoned \/ Free > MaxAvailable

\* n permits are given.
Given(n) ==
  /\ Free' = IF n <= MaxAvailable THEN Free + n ELSE Free
  /\ Poisoned' <=> Poisoned \/ n > MaxAvailable
  /\ Failing' <=> Failing

\* release() begins with what it is called with, and nothing else changes.
LEMMA GivenStep ==
  ASSUME LockInv, LockInv', NEW t \in Tasks, NEW n \in Nat, NEW c, pc[t] = "idle",
         BeginRelease(t, c, ToPermits(n)), UNCHANGED <<acquire, release>>
  PROVE  Given(n)
<1>t. pc \in [Tasks -> PC] /\ releasable \in [Tasks -> PermitCount] /\ releasable[t] = 0
  BY DEF LockInv, TypeOK, ReleasableBlank, Owner, OwnerPC
<1>1. releasable'[t] = ToPermits(n) /\ \A u \in Tasks \ {t} : releasable'[u] = releasable[u]
  BY <1>t DEF BeginRelease
<1>2. \A u \in Tasks : Owner(u)' <=> Owner(u)
  BY <1>t DEF BeginRelease, Goto, Owner, OwnerPC
<1>3. ~Owner(t)
  BY DEF Owner, OwnerPC
<1>4. Failing' <=> Failing
  BY <1>1, <1>2, <1>3 DEF Failing
<1>5. Poisoned' <=> Poisoned \/ n > MaxAvailable
  <2>1. ToPermits(n) = POISON <=> n > MaxAvailable
    BY DEF ToPermits, POISON
  <2>2. releasable[t] # POISON
    BY <1>t DEF POISON
  <2> QED  BY <1>1, <2>1, <2>2 DEF Poisoned
<1>6. Free' = IF n <= MaxAvailable THEN Free + n ELSE Free
  <2>1. Count(ToPermits(n)) = IF n <= MaxAvailable THEN n ELSE 0
    BY DEF Count, ToPermits, POISON
  <2>2. /\ Free \in Nat /\ Free' \in Nat
        /\ Free' + Count(acquire.permits) + Count(release.permits) + Count(releasable[t])
             = Free + Count(acquire'.permits) + Count(release'.permits) + Count(releasable'[t])
    BY <1>1, FreeStep
  <2>3. /\ Count(acquire.permits) \in Nat /\ Count(release.permits) \in Nat /\ Count(releasable[t]) = 0
        /\ acquire'.permits = acquire.permits /\ release'.permits = release.permits
    BY <1>t, CountIsNat DEF LockInv, TypeOK, Count
  <2> QED  BY <1>1, <2>1, <2>2, <2>3
<1> QED  BY <1>4, <1>5, <1>6 DEF Given

\* lock_or_else_defer.
LEMMA LockCounter ==
  ASSUME LockInv, LockInv', NEW t \in Tasks, LockOrElseDefer(t)
  PROVE  SameCounter \/ Swallows
<1> DEFINE p == release.permits
           q == releasable[t]
<1>t. /\ pc \in [Tasks -> PC] /\ releasable \in [Tasks -> PermitCount] /\ p \in PermitCount /\ q \in PermitCount
      /\ acquire.permits \in PermitCount /\ acquire' = acquire /\ pc[t] = "lock" /\ ~Owner(t)
      /\ release = [tag |-> release.tag, permits |-> p]
  BY DEF LockInv, TypeOK, LockOrElseDefer, Owner, OwnerPC
<1>1. \A u \in Tasks \ {t} : /\ releasable'[u] = releasable[u] /\ (Owner(u)' <=> Owner(u))
  BY <1>t DEF LockOrElseDefer, ReturnFromRelease, Goto, Owner
<1>2. /\ Free \in Nat /\ Free' \in Nat
      /\ Free' + Count(acquire.permits) + Count(p) + Count(q)
           = Free + Count(acquire'.permits) + Count(release'.permits) + Count(releasable'[t])
      /\ Count(acquire.permits) + Count(p) + Count(q) <= Free
  BY <1>1, FreeStep
<1>3. Count(acquire.permits) \in Nat /\ Count(p) \in Nat /\ Count(q) \in Nat /\ Count(0) = 0 /\ POISON # 0
  BY <1>t, CountIsNat DEF Count, POISON
<1>4. CASE release.tag = "Unlocked"
  <2>1. release' = Locked /\ releasable'[t] = AddPermits(q, p) /\ Owner(t)'
    BY <1>t, <1>4 DEF LockOrElseDefer, CanLock, Goto, Owner, OwnerPC
  <2>2. \A u \in Tasks : ~Owner(u)
    BY <1>4 DEF LockInv, LockExclusion
  <2>3. Failing <=> acquire = Available(POISON) \/ (acquire.tag = "Queued" /\ p = POISON)
    BY <1>t, <1>4, <2>2 DEF Failing
  <2>4. Failing' <=> acquire = Available(POISON) \/ (acquire.tag = "Queued" /\ AddPermits(q, p) = POISON)
    BY <1>t, <1>1, <2>1, <2>2 DEF Failing
  <2>5. CASE AddPermits(q, p) # POISON
    <3>1. /\ Count(AddPermits(q, p)) = Count(q) + Count(p) /\ p # POISON /\ q # POISON
      BY <1>t, <2>5, AddCases
    <3>2. Free' = Free
      BY <1>2, <1>3, <1>t, <2>1, <3>1
    <3>3. Poisoned' <=> Poisoned
      BY <1>t, <1>1, <1>3, <2>1, <2>5, <3>1 DEF Poisoned
    <3> QED  BY <2>3, <2>4, <2>5, <3>1, <3>2, <3>3 DEF SameCounter
  <2>6. CASE AddPermits(q, p) = POISON
    <3>1. Count(AddPermits(q, p)) = 0 /\ (p = POISON \/ q = POISON \/ Count(q) + Count(p) > MaxAvailable)
      BY <1>t, <2>6, AddCases, CountIsNat
    <3>2. Free' <= Free /\ (p = POISON \/ q = POISON \/ Free > MaxAvailable)
      BY <1>2, <1>3, <1>t, <2>1, <3>1
    <3>3. Poisoned' /\ (p = POISON \/ q = POISON => Poisoned)
      BY <2>1, <2>6 DEF Poisoned
    <3>4. Failing => Failing'
      BY <2>3, <2>4, <2>6
    <3> QED  BY <3>2, <3>3, <3>4 DEF Swallows
  <2> QED  BY <2>5, <2>6
<1>5. CASE release.tag # "Unlocked"
  <2>1. release' = LockedDirty(AddPermits(p, q)) /\ releasable'[t] = 0 /\ ~Owner(t)'
    BY <1>t, <1>5 DEF LockOrElseDefer, CanLock, ReturnFromRelease, Goto, Owner, OwnerPC
  <2>2. Failing' <=> Failing
    <3>1. release # Unlocked(POISON) /\ release' # Unlocked(POISON)
      BY <1>5, <2>1
    <3> QED  BY <1>t, <1>1, <2>1, <3>1 DEF Failing
  <2>3. CASE AddPermits(p, q) # POISON
    <3>1. /\ Count(AddPermits(p, q)) = Count(q) + Count(p) /\ p # POISON /\ q # POISON
      BY <1>t, <1>3, <2>3, AddCases
    <3>2. Free' = Free
      BY <1>2, <1>3, <1>t, <2>1, <3>1
    <3>3. Poisoned' <=> Poisoned
      BY <1>t, <1>1, <1>3, <2>1, <2>3, <3>1 DEF Poisoned
    <3> QED  BY <2>2, <3>2, <3>3 DEF SameCounter
  <2>4. CASE AddPermits(p, q) = POISON
    <3>1. Count(AddPermits(p, q)) = 0 /\ (p = POISON \/ q = POISON \/ Count(q) + Count(p) > MaxAvailable)
      BY <1>t, <1>3, <2>4, AddCases, CountIsNat
    <3>2. Free' <= Free /\ (p = POISON \/ q = POISON \/ Free > MaxAvailable)
      BY <1>2, <1>3, <1>t, <2>1, <3>1
    <3>3. Poisoned' /\ (p = POISON \/ q = POISON => Poisoned)
      BY <2>1, <2>4 DEF Poisoned
    <3> QED  BY <2>2, <3>2, <3>3 DEF Swallows
  <2> QED  BY <2>3, <2>4
<1> QED  BY <1>4, <1>5

\* flip() that publishes the permits.
LEMMA PublishCounter ==
  ASSUME LockInv, LockInv', NEW t \in Tasks, FlipAvailable(t)
  PROVE  SameCounter \/ Swallows
<1> DEFINE p == acquire.permits
           q == releasable[t]
           sum == AddPermits(p, q)
<1>t. /\ pc \in [Tasks -> PC] /\ releasable \in [Tasks -> PermitCount] /\ p \in PermitCount /\ q \in PermitCount
      /\ release.permits \in PermitCount /\ release' = release /\ pc[t] = "flip" /\ Owner(t)
      /\ acquire' = Available(sum) /\ releasable'[t] = 0
      /\ acquire = [tag |-> acquire.tag, back |-> acquire.back, permits |-> p]
  BY DEF LockInv, TypeOK, FlipAvailable, Owner, OwnerPC
<1>1. \A u \in Tasks \ {t} : /\ releasable'[u] = releasable[u] /\ ~Owner(u) /\ ~Owner(u)'
  BY <1>t DEF FlipAvailable, Goto, Owner, OwnerPC, LockInv, LockExclusion
<1>2. /\ Free \in Nat /\ Free' \in Nat
      /\ Free' + Count(p) + Count(release.permits) + Count(q)
           = Free + Count(acquire'.permits) + Count(release'.permits) + Count(releasable'[t])
      /\ Count(p) + Count(release.permits) + Count(q) <= Free
  BY <1>1, FreeStep
<1>3. Count(release.permits) \in Nat /\ Count(p) \in Nat /\ Count(q) \in Nat /\ Count(0) = 0 /\ POISON # 0
  BY <1>t, CountIsNat DEF Count, POISON
<1>4. release.tag # "Unlocked" /\ (acquire.tag = "Queued" => p = 0)
  BY <1>t DEF LockInv, TypeOK, LockExclusion
<1>5. Failing' <=> sum = POISON
  BY <1>t DEF Failing
<1>6. Failing => p = POISON \/ q = POISON
  BY <1>t, <1>1, <1>4 DEF Failing
<1>7. CASE sum # POISON
  <2>1. Count(sum) = Count(p) + Count(q) /\ p # POISON /\ q # POISON
    BY <1>t, <1>7, AddCases
  <2>2. Free' = Free
    <3> HIDE DEF p, q, sum
    <3> QED  BY <1>2, <1>3, <1>t, <2>1
  <2>3. Poisoned' <=> Poisoned
    BY <1>t, <1>1, <1>3, <1>7, <2>1 DEF Poisoned
  <2> QED  BY <1>5, <1>6, <1>7, <2>1, <2>2, <2>3 DEF SameCounter
<1>8. CASE sum = POISON
  <2>1. Count(sum) = 0 /\ (p = POISON \/ q = POISON \/ Count(p) + Count(q) > MaxAvailable)
    BY <1>t, <1>8, AddCases, CountIsNat
  <2>2. Free' <= Free /\ (p = POISON \/ q = POISON \/ Free > MaxAvailable)
    <3> HIDE DEF p, q, sum
    <3> QED  BY <1>2, <1>3, <1>t, <2>1
  <2>3. Poisoned' /\ (p = POISON \/ q = POISON => Poisoned)
    BY <1>t, <1>8 DEF Poisoned
  <2> QED  BY <1>5, <1>8, <2>2, <2>3 DEF Swallows
<1> QED  BY <1>7, <1>8

\* try_unlock.
LEMMA UnlockCounter ==
  ASSUME LockInv, LockInv', NEW t \in Tasks, TryUnlock(t)
  PROVE  SameCounter \/ Swallows
<1> DEFINE p == release.permits
           q == releasable[t]
<1>t. /\ pc \in [Tasks -> PC] /\ releasable \in [Tasks -> PermitCount] /\ p \in PermitCount /\ q \in PermitCount
      /\ acquire.permits \in PermitCount /\ acquire' = acquire /\ pc[t] = "settle" /\ Owner(t)
      /\ release.tag = "Locked" => p = 0
  BY DEF LockInv, TypeOK, TryUnlock, Settling, Owner, OwnerPC
<1>1. \A u \in Tasks \ {t} : /\ releasable'[u] = releasable[u] /\ ~Owner(u) /\ ~Owner(u)'
  BY <1>t DEF TryUnlock, ReturnFromRelease, Goto, Owner, LockInv, LockExclusion
<1>2. /\ Free \in Nat /\ Free' \in Nat
      /\ Free' + Count(acquire.permits) + Count(p) + Count(q)
           = Free + Count(acquire'.permits) + Count(release'.permits) + Count(releasable'[t])
      /\ Count(acquire.permits) + Count(p) + Count(q) <= Free
  BY <1>1, FreeStep
<1>3. Count(acquire.permits) \in Nat /\ Count(p) \in Nat /\ Count(q) \in Nat /\ Count(0) = 0 /\ POISON # 0
  BY <1>t, CountIsNat DEF Count, POISON
<1>4. release.tag # "Unlocked"
  BY <1>t DEF LockInv, LockExclusion
<1>5. Failing <=> acquire = Available(POISON) \/ (acquire.tag = "Queued" /\ q = POISON)
  BY <1>t, <1>1, <1>4 DEF Failing
<1>6. CASE MayUnlock
  <2>1. release' = Unlocked(q) /\ releasable'[t] = 0 /\ ~Owner(t)' /\ p = 0
    BY <1>t, <1>6 DEF TryUnlock, MayUnlock, ReturnFromRelease, Goto, Owner, OwnerPC
  <2>2. Failing' <=> acquire = Available(POISON) \/ (acquire.tag = "Queued" /\ q = POISON)
    BY <1>t, <1>1, <2>1 DEF Failing
  <2>3. Free' = Free
    BY <1>2, <1>3, <1>t, <2>1
  <2>4. Poisoned' <=> Poisoned
    BY <1>t, <1>1, <1>3, <2>1 DEF Poisoned
  <2> QED  BY <1>5, <2>2, <2>3, <2>4 DEF SameCounter
<1>7. CASE ~MayUnlock
  <2> DEFINE sum == AddPermits(q, p)
  <2>1. release' = Locked /\ releasable'[t] = sum /\ Owner(t)'
    BY <1>t, <1>7 DEF TryUnlock, MayUnlock, Goto, Owner, OwnerPC
  <2>2. Failing' <=> acquire = Available(POISON) \/ (acquire.tag = "Queued" /\ sum = POISON)
    BY <1>t, <1>1, <2>1 DEF Failing
  <2>3. CASE sum # POISON
    <3>1. Count(sum) = Count(q) + Count(p) /\ p # POISON /\ q # POISON
      BY <1>t, <2>3, AddCases
    <3>2. Free' = Free
      BY <1>2, <1>3, <1>t, <2>1, <3>1
    <3>3. Poisoned' <=> Poisoned
      BY <1>t, <1>1, <1>3, <2>1, <2>3, <3>1 DEF Poisoned
    <3> QED  BY <1>5, <2>2, <2>3, <3>1, <3>2, <3>3 DEF SameCounter
  <2>4. CASE sum = POISON
    <3>1. Count(sum) = 0 /\ (p = POISON \/ q = POISON \/ Count(q) + Count(p) > MaxAvailable)
      BY <1>t, <2>4, AddCases, CountIsNat
    <3>2. Free' <= Free /\ (p = POISON \/ q = POISON \/ Free > MaxAvailable)
      BY <1>2, <1>3, <1>t, <2>1, <3>1
    <3>3. Poisoned' /\ (p = POISON \/ q = POISON => Poisoned)
      BY <2>1, <2>4 DEF Poisoned
    <3> QED  BY <1>5, <2>2, <2>4, <3>2, <3>3 DEF Swallows
  <2> QED  BY <2>3, <2>4
<1> QED  BY <1>6, <1>7

-----------------------------------------------------------------------------
(* The acquires *)

\* Nothing happens to any acquire.
AcquiresKept ==
  /\ Pending' = Pending /\ ahead' = ahead
  /\ \A u \in Tasks : /\ OutcomeOf(u)' = OutcomeOf(u)
                      /\ OutcomeOf(u) # "none" => amount'[u] = amount[u]

\* Then nobody sees a difference in the queue and in the outcomes.
LEMMA KeptView ==
  ASSUME AcquiresKept
  PROVE  Arrival' = Arrival /\ Outcomes' = Outcomes /\ Asked' = Asked
<1>1. Arrival' = Arrival
  BY DEF AcquiresKept, Arrival, InOrder
<1>2. Outcomes' = Outcomes
  BY DEF AcquiresKept, Outcomes
<1>3. Asked' = Asked
  BY DEF AcquiresKept, Asked
<1> QED  BY <1>1, <1>2, <1>3

\* flip(), the locking and waking, and the release of permits do not touch acquires.
LEMMA NodesKept == ASSUME UNCHANGED <<step, waker, amount, ahead>> PROVE AcquiresKept
BY DEF AcquiresKept, OutcomeOf, Pending

\* A state that the node passes through while it is queued.
LEMMA WakerKept ==
  ASSUME LockInv, NEW t \in Tasks, step[t] = "Waiting", waker[t] \in {"Pending", "Storing", "Cancelling"},
         NEW s \in {"Pending", "Storing", "Cancelling"}, waker' = [waker EXCEPT ![t] = s],
         UNCHANGED <<step, amount, ahead>>
  PROVE  AcquiresKept
<1>t. waker \in [Tasks -> WakerState]
  BY DEF LockInv, TypeOK
<1>1. waker'[t] = s /\ \A u \in Tasks \ {t} : waker'[u] = waker[u]
  BY <1>t
<1>2. \A u \in Tasks : u \in Pending' <=> u \in Pending
  BY <1>1 DEF Pending
<1>3. Pending' = Pending
  BY <1>2 DEF Pending
<1>4. \A u \in Tasks : OutcomeOf(u)' = OutcomeOf(u)
  BY <1>1, <1>2 DEF OutcomeOf, Pending
<1> QED  BY <1>3, <1>4 DEF AcquiresKept

\* The acquire of t, no longer queued, is over.
AcquireEnds(t) ==
  Arrival' = Arrival /\ Outcomes' = [Outcomes EXCEPT ![t] = "none"] /\ Asked' = [Asked EXCEPT ![t] = 0]

\* The end of a poll or of a drop that finds the acquire out of the queue.
LEMMA EndFutureStep ==
  ASSUME LockInv, NEW t \in Tasks, step[t] = "Waiting", waker[t] \in {"Finished", "Poisoned", "Cancelled"},
         EndFuture(t), ahead' = ahead
  PROVE  AcquireEnds(t)
<1>t. /\ waker \in [Tasks -> WakerState] /\ step \in [Tasks -> AcquireStep] /\ amount \in [Tasks -> Nat]
  BY DEF LockInv, TypeOK
<1>1. /\ waker'[t] = "Pending" /\ step'[t] = "Done"
      /\ \A u \in Tasks \ {t} : waker'[u] = waker[u] /\ step'[u] = step[u] /\ amount'[u] = amount[u]
  BY <1>t DEF EndFuture
<1>2. Pending' = Pending
  <2>1. \A u \in Tasks : u \in Pending' <=> u \in Pending
    BY <1>1 DEF Pending
  <2> QED  BY <2>1 DEF Pending
<1>3. OutcomeOf(t)' = "none" /\ \A u \in Tasks \ {t} : OutcomeOf(u)' = OutcomeOf(u)
  BY <1>1, <1>2 DEF OutcomeOf, Pending
<1>4. Arrival' = Arrival
  BY <1>2 DEF Arrival, InOrder
<1>5. Outcomes' = [Outcomes EXCEPT ![t] = "none"]
  BY <1>3 DEF Outcomes
<1>6. Asked' = [Asked EXCEPT ![t] = 0]
  BY <1>1, <1>3 DEF Asked
<1> QED  BY <1>4, <1>5, <1>6 DEF AcquireEnds

\* poll_enter pushes the node on the back of the queue.
LEMMA EnterView ==
  ASSUME QueueInv, NEW t \in Tasks, NEW n \in Amounts, PollEnterQueue(t, n)
  PROVE  /\ Arrival' = Append(Arrival, t)
         /\ Outcomes[t] = "none"
         /\ Outcomes' = [Outcomes EXCEPT ![t] = "queued"] /\ Asked' = [Asked EXCEPT ![t] = n]
<1>t. /\ step \in [Tasks -> AcquireStep] /\ amount \in [Tasks -> Nat] /\ ahead \in [Tasks -> SUBSET Tasks]
      /\ step[t] = "Done" /\ waker[t] = "Pending"
  BY DEF QueueInv, LockInv, TypeOK, NodeControl, NodeAgrees, PollEnterQueue, NoFuture
<1>1. /\ step'[t] = "Waiting" /\ amount'[t] = n /\ waker' = waker /\ ahead'[t] = Pending
      /\ \A u \in Tasks \ {t} : step'[u] = step[u] /\ amount'[u] = amount[u] /\ ahead'[u] = ahead[u]
  BY <1>t DEF PollEnterQueue
<1>2. t \notin Pending /\ Pending' = Pending \cup {t}
  <2>1. t \notin Pending /\ \A u \in Tasks : u \in Pending' <=> u \in Pending \cup {t}
    BY <1>t, <1>1 DEF Pending
  <2> QED  BY <2>1 DEF Pending
<1>3. Arrival' = Append(Arrival, t)
  <2>1. \A u \in Pending : ahead'[u] = ahead[u]
    BY <1>1, <1>2 DEF Pending
  <2>2. Joins(t, Pending, ahead, Pending', ahead')
    BY <1>1, <1>2, <2>1 DEF Joins
  <2>4. InOrder(Pending', ahead') = Append(InOrder(Pending, ahead), t)
    BY <2>2, PendingInOrder, InOrderAppend
  <2>3. Arrival' = InOrder(Pending', ahead')
    BY DEF Arrival, InOrder
  <2> QED  BY <2>3, <2>4 DEF Arrival
<1>4. /\ OutcomeOf(t)' = "queued" /\ OutcomeOf(t) = "none"
      /\ \A u \in Tasks \ {t} : OutcomeOf(u)' = OutcomeOf(u)
  <2>1. OutcomeOf(t)' = "queued" /\ OutcomeOf(t) = "none"
    BY <1>t, <1>1, <1>2 DEF OutcomeOf
  <2>2. \A u \in Tasks \ {t} : OutcomeOf(u)' = OutcomeOf(u)
    BY <1>1, <1>2 DEF OutcomeOf
  <2> QED  BY <2>1, <2>2
<1>5. Outcomes' = [Outcomes EXCEPT ![t] = "queued"] /\ Outcomes[t] = "none"
  BY <1>4 DEF Outcomes
<1>6. Asked' = [Asked EXCEPT ![t] = n]
  BY <1>1, <1>4 DEF Asked
<1> QED  BY <1>3, <1>5, <1>6

\* try_pop or cancel takes node w out of the queue.
LEMMA UnlinkView ==
  ASSUME QueueInv, NEW w \in Tasks, w \in Pending, Leave(w), UNCHANGED <<step, amount>>,
         NEW s \in {"Finished", "Poisoned", "Cancelled"}, waker' = [waker EXCEPT ![w] = s]
  PROVE  LET i == Cardinality(ahead[w]) + 1
             outcome == CASE s = "Finished" -> "Ok" [] s = "Poisoned" -> "Poisoned" [] OTHER -> "none"
         IN  /\ i \in DOMAIN Arrival /\ Arrival[i] = w
             /\ Arrival' = Contract!Remove(Arrival, i)
             /\ Arrival \in Seq(Tasks)
             /\ Outcomes[w] = "queued" /\ Asked[w] = amount[w]
             /\ Outcomes' = [Outcomes EXCEPT ![w] = outcome]
             /\ Asked' = IF s = "Cancelled" THEN [Asked EXCEPT ![w] = 0] ELSE Asked
<1> DEFINE i == Cardinality(ahead[w]) + 1
           outcome == CASE s = "Finished" -> "Ok" [] s = "Poisoned" -> "Poisoned" [] OTHER -> "none"
<1>t. /\ waker \in [Tasks -> WakerState] /\ ahead \in [Tasks -> SUBSET Tasks] /\ amount \in [Tasks -> Nat]
  BY DEF QueueInv, LockInv, TypeOK
<1>1. waker'[w] = s /\ \A u \in Tasks \ {w} : waker'[u] = waker[u]
  BY <1>t
<1>2. Pending' = Pending \ {w}
  <2>1. \A u \in Tasks : u \in Pending' <=> u \in Pending \ {w}
    BY <1>1 DEF Pending
  <2> QED  BY <2>1 DEF Pending
<1>3. \A u \in Pending \ {w} : ahead'[u] = ahead[u] \ {w}
  BY DEF Leave, Pending
<1>4. i \in 1 .. Cardinality(Pending) /\ InOrder(Pending \ {w}, ahead') = Contract!Remove(Arrival, i)
  BY <1>3, PendingInOrder, InOrderRemove DEF Arrival
<1>5. Arrival' = Contract!Remove(Arrival, i)
  <2>1. Arrival' = InOrder(Pending', ahead')
    BY DEF Arrival, InOrder
  <2> QED  BY <1>2, <1>4, <2>1
<1>6. Arrival \in Seq(Tasks) /\ i \in DOMAIN Arrival /\ Arrival[i] = w
  <2>1. Arrival \in Seq(Pending) /\ Len(Arrival) = Cardinality(Pending) /\ Arrival[i] = w
    BY PendingInOrder, InOrderLists DEF Arrival
  <2>2. Pending \subseteq Tasks
    BY DEF Pending
  <2> QED  BY <1>4, <2>1, <2>2
<1>7. OutcomeOf(w)' = outcome /\ OutcomeOf(w) = "queued"
      /\ \A u \in Tasks \ {w} : OutcomeOf(u)' = OutcomeOf(u)
  <2>1. waker[w] \in {"Pending", "Storing", "Cancelling"}
    BY DEF Pending
  <2>2. OutcomeOf(w)' = outcome /\ OutcomeOf(w) = "queued"
    BY <1>1, <1>2, <2>1 DEF OutcomeOf
  <2>3. \A u \in Tasks \ {w} : OutcomeOf(u)' = OutcomeOf(u)
    BY <1>1, <1>2 DEF OutcomeOf
  <2> QED  BY <2>2, <2>3
<1>8. Outcomes' = [Outcomes EXCEPT ![w] = outcome] /\ Outcomes[w] = "queued"
  BY <1>7 DEF Outcomes
<1>9. Asked[w] = amount[w] /\ Asked' = IF s = "Cancelled" THEN [Asked EXCEPT ![w] = 0] ELSE Asked
  BY <1>7 DEF Asked
<1> HIDE DEF i, outcome
<1> QED  BY <1>5, <1>6, <1>8, <1>9 DEF i, outcome


-----------------------------------------------------------------------------
(* Steps of the contract *)

\* The view of the contract, before a step and after.
LEMMA Fields ==
  /\ Abstract = [permits |-> Abstract.permits, poisoned |-> Abstract.poisoned, failing |-> Abstract.failing,
                 queue |-> Abstract.queue, outcome |-> Abstract.outcome, amount |-> Abstract.amount]
  /\ Abstract.permits = Free /\ Abstract.queue = Arrival
  /\ Abstract.outcome = Outcomes /\ Abstract.amount = Asked
  /\ Abstract.poisoned \in BOOLEAN /\ (Abstract.poisoned <=> Poisoned)
  /\ Abstract.failing \in BOOLEAN /\ (Abstract.failing <=> Failing)
<1>1. Abstract.poisoned \in BOOLEAN /\ (Abstract.poisoned <=> Poisoned)
  BY DEF Abstract, Poisoned
<1>2. Abstract.failing \in BOOLEAN /\ (Abstract.failing <=> Failing)
  BY DEF Abstract, Failing
<1> QED  BY <1>1, <1>2 DEF Abstract

\* The same of the state after the step.
LEMMA NextFields ==
  /\ Abstract' = [permits |-> Abstract'.permits, poisoned |-> Abstract'.poisoned, failing |-> Abstract'.failing,
                  queue |-> Abstract'.queue, outcome |-> Abstract'.outcome, amount |-> Abstract'.amount]
  /\ Abstract'.permits = Free' /\ Abstract'.queue = Arrival'
  /\ Abstract'.outcome = Outcomes' /\ Abstract'.amount = Asked'
  /\ Abstract'.poisoned \in BOOLEAN /\ (Abstract'.poisoned <=> Poisoned')
  /\ Abstract'.failing \in BOOLEAN /\ (Abstract'.failing <=> Failing')
<1>1. Abstract'.poisoned \in BOOLEAN /\ (Abstract'.poisoned <=> Poisoned')
  BY DEF Abstract, Poisoned
<1>2. Abstract'.failing \in BOOLEAN /\ (Abstract'.failing <=> Failing')
  BY DEF Abstract, Failing
<1> QED  BY <1>1, <1>2 DEF Abstract

\* A step that neither the counter nor an acquire takes part in is none.
LEMMA KeptStep == ASSUME SameCounter, AcquiresKept PROVE Abstract' = Abstract
<1>1. Abstract'.poisoned = Abstract.poisoned /\ Abstract'.failing = Abstract.failing /\ Abstract'.permits = Abstract.permits
  BY Fields, NextFields DEF SameCounter
<1>2. Arrival' = Arrival /\ Outcomes' = Outcomes /\ Asked' = Asked
  BY KeptView
<1>3. /\ Abstract'.queue = Abstract.queue /\ Abstract'.outcome = Abstract.outcome
      /\ Abstract'.amount = Abstract.amount
  BY <1>2, Fields, NextFields
<1> QED  BY <1>1, <1>3, Fields, NextFields

\* AddPermits that saturates, or that adds to poison, is a step of its own.
LEMMA SwallowStep ==
  ASSUME Swallows, AcquiresKept, Free \in Nat, Free' \in Nat
  PROVE  Contract!Swallow
<1>1. Abstract'.poisoned = TRUE /\ Abstract'.failing \in {Abstract.failing, TRUE}
  BY Fields, NextFields DEF Swallows
<1>2. Arrival' = Arrival /\ Outcomes' = Outcomes /\ Asked' = Asked
  BY KeptView
<1>3. Abstract'.permits \in 0 .. Abstract.permits
  BY Fields, NextFields DEF Swallows
<1>4. Abstract' = [Abstract EXCEPT !.poisoned = TRUE, !.permits = Abstract'.permits, !.failing = Abstract'.failing]
  BY <1>1, <1>2, Fields, NextFields
<1>5. Abstract.poisoned \/ Abstract.permits > MaxAvailable
  BY Fields DEF Swallows
<1> QED  BY <1>1, <1>3, <1>4, <1>5 DEF Contract!Swallow

\* A release() that begins gives its permits; poison() gives too many of them.
LEMMA GiveStep ==
  ASSUME NEW n \in Nat, Given(n), AcquiresKept
  PROVE  Contract!Next
<1> DEFINE m == IF n <= MaxAvailable THEN n ELSE POISON
<1>1. m \in 0 .. POISON /\ (m <= MaxAvailable <=> n <= MaxAvailable) /\ (n <= MaxAvailable => m = n)
  BY DEF POISON
<1>2. Arrival' = Arrival /\ Outcomes' = Outcomes /\ Asked' = Asked
  BY KeptView
<1>3. Abstract'.failing = Abstract.failing
  BY Fields, NextFields DEF Given
<1> HIDE DEF m
<1>4. CASE n <= MaxAvailable
  <2>1. Abstract'.poisoned = Abstract.poisoned /\ Abstract'.permits = Abstract.permits + m
    BY <1>1, <1>4, Fields, NextFields DEF Given
  <2>2. Abstract' = [Abstract EXCEPT !.permits = @ + m]
    BY <1>2, <1>3, <2>1, Fields, NextFields
  <2> QED  BY <1>1, <1>4, <2>2 DEF Contract!Next, Contract!Give, Contract!Add
<1>5. CASE ~ (n <= MaxAvailable)
  <2>1. Abstract'.poisoned = TRUE /\ Abstract'.permits = Abstract.permits
    BY <1>5, Fields, NextFields DEF Given
  <2>2. Abstract' = [Abstract EXCEPT !.poisoned = TRUE]
    BY <1>2, <1>3, <2>1, Fields, NextFields
  <2> QED  BY <1>1, <1>5, <2>2 DEF Contract!Next, Contract!Give, Contract!Add
<1> QED  BY <1>4, <1>5

\* A future that ends: its outcome is collected, or was given up before.
LEMMA EndStep ==
  ASSUME SameCounter, NEW t \in Tasks, AcquireEnds(t)
  PROVE  IF OutcomeOf(t) \in {"Ok", "Poisoned"} THEN Contract!Collect(t)
         ELSE OutcomeOf(t) = "none" => Abstract' = Abstract
<1>1. Abstract'.poisoned = Abstract.poisoned /\ Abstract'.failing = Abstract.failing /\ Abstract'.permits = Abstract.permits
  BY Fields, NextFields DEF SameCounter
<1>2. Outcomes[t] = OutcomeOf(t) /\ (OutcomeOf(t) = "none" => Asked[t] = 0)
  BY DEF Outcomes, Asked
<1>3. CASE OutcomeOf(t) \in {"Ok", "Poisoned"}
  <2>1. Abstract' = [Abstract EXCEPT !.outcome[t] = "none", !.amount[t] = 0]
    <3>1. /\ Abstract'.queue = Abstract.queue /\ Abstract'.outcome = [Abstract.outcome EXCEPT ![t] = "none"]
          /\ Abstract'.amount = [Abstract.amount EXCEPT ![t] = 0]
      BY Fields, NextFields DEF AcquireEnds
    <3> QED  BY <1>1, <3>1, Fields, NextFields
  <2>2. Abstract.outcome[t] \in {"Ok", "Poisoned"}
    BY <1>2, <1>3, Fields
  <2> QED  BY <1>3, <2>1, <2>2 DEF Contract!Collect, Contract!Done
<1>4. CASE OutcomeOf(t) = "none"
  <2>1. Outcomes' = Outcomes /\ Asked' = Asked
    BY <1>2, <1>4 DEF AcquireEnds, Outcomes, Asked
  <2>2. Abstract' = Abstract
    BY <1>1, <2>1, Fields, NextFields DEF AcquireEnds
  <2> QED  BY <1>4, <2>2
<1> QED  BY <1>3, <1>4

\* Drop of a future that was served: its permits are given back.
LEMMA GiveBackStep ==
  ASSUME NEW t \in Tasks, amount[t] \in Nat, Given(amount[t]), AcquireEnds(t), OutcomeOf(t) = "Ok"
  PROVE  Contract!GiveBack(t)
<1> DEFINE n == amount[t]
<1>1. Abstract'.failing = Abstract.failing
  BY Fields, NextFields DEF Given
<1>2. Abstract.outcome[t] = "Ok" /\ Abstract.amount[t] = n
  BY Fields DEF Outcomes, Asked
<1>3. Given(n) /\ n \in Nat
  OBVIOUS
<1> HIDE DEF n
<1>4. CASE n <= MaxAvailable
  <2>1. Abstract'.poisoned = Abstract.poisoned /\ Abstract'.permits = Abstract.permits + n
    BY <1>3, <1>4, Fields, NextFields DEF Given
  <2>2. Abstract' = [Abstract EXCEPT !.permits = @ + n, !.outcome[t] = "none", !.amount[t] = 0]
    <3>1. /\ Abstract'.queue = Abstract.queue /\ Abstract'.outcome = [Abstract.outcome EXCEPT ![t] = "none"]
          /\ Abstract'.amount = [Abstract.amount EXCEPT ![t] = 0]
      BY Fields, NextFields DEF AcquireEnds
    <3> QED  BY <1>1, <2>1, <3>1, Fields, NextFields
  <2>3. Contract!Add(Abstract, n) = [Abstract EXCEPT !.permits = @ + n]
    BY <1>4 DEF Contract!Add
  <2>4. Abstract' = Contract!Done(Contract!Add(Abstract, n), t)
    BY <2>2, <2>3, Fields DEF Contract!Done
  <2> QED  BY <1>2, <2>4 DEF Contract!GiveBack
<1>5. CASE ~ (n <= MaxAvailable)
  <2>1. Abstract'.poisoned = TRUE /\ Abstract'.permits = Abstract.permits
    BY <1>3, <1>5, Fields, NextFields DEF Given
  <2>2. /\ Abstract'.queue = Abstract.queue /\ Abstract'.outcome = [Abstract.outcome EXCEPT ![t] = "none"]
        /\ Abstract'.amount = [Abstract.amount EXCEPT ![t] = 0]
    BY Fields, NextFields DEF AcquireEnds
  <2>3. Abstract' = [Abstract EXCEPT !.poisoned = TRUE, !.outcome[t] = "none", !.amount[t] = 0]
    BY <1>1, <2>1, <2>2, Fields, NextFields
  <2>4. Contract!Add(Abstract, n) = [Abstract EXCEPT !.poisoned = TRUE]
    BY <1>5 DEF Contract!Add
  <2>5. Abstract' = Contract!Done(Contract!Add(Abstract, n), t)
    BY <2>3, <2>4, Fields DEF Contract!Done
  <2> QED  BY <1>2, <2>5 DEF Contract!GiveBack
<1> QED  BY <1>4, <1>5

\* The fast path takes n permits.
LEMMA TakeStep ==
  ASSUME QueueInv, LockInv', NEW t \in Tasks, NEW n \in Amounts, TakePermits(t, n),
         UNCHANGED <<release, releasable, pc, step, waker, amount, ahead>>
  PROVE  Contract!Take(n)
<1> DEFINE p == acquire.permits
<1>t. /\ n \in Nat /\ p \in 0 .. MaxAvailable /\ acquire.tag = "Available" /\ n <= p
      /\ acquire' = Available(p - n) /\ releasable \in [Tasks -> PermitCount] /\ release.permits \in PermitCount
  BY DEF QueueInv, LockInv, TypeOK, TakePermits, PermitCount, POISON
<1>1. AcquiresKept
  BY NodesKept
<1>2. Arrival = <<>>
  <2>1. Pending = {}
    BY <1>t DEF QueueInv, QueueShape, QueueEnds
  <2>2. Cardinality({}) = 0
    BY FS_EmptySet
  <2>3. Arrival \in Seq(Pending) /\ Len(Arrival) = Cardinality(Pending)
    BY PendingInOrder, InOrderLists DEF Arrival
  <2> QED  BY <2>1, <2>2, <2>3
<1>3. Free \in Nat /\ Free' \in Nat /\ Free' = Free - n /\ n <= Free
  <2>1. /\ Free \in Nat /\ Free' \in Nat
        /\ Free' + Count(p) + Count(release.permits) + Count(releasable[t])
             = Free + Count(acquire'.permits) + Count(release'.permits) + Count(releasable'[t])
        /\ Count(p) + Count(release.permits) + Count(releasable[t]) <= Free
    BY FreeStep DEF QueueInv
  <2>2. Count(p) = p /\ Count(acquire'.permits) = p - n /\ Count(release.permits) \in Nat /\ Count(releasable[t]) \in Nat
    BY <1>t, CountIsNat DEF Count, POISON
  <2> QED  BY <1>t, <2>1, <2>2
<1>4. ~Failing /\ ~Failing'
  BY <1>t DEF Failing, POISON
<1>5. Poisoned' <=> Poisoned
  BY <1>t DEF Poisoned, POISON
<1>6. Arrival' = Arrival /\ Outcomes' = Outcomes /\ Asked' = Asked
  BY <1>1, KeptView
<1>7. Abstract'.failing = Abstract.failing /\ Abstract'.poisoned = Abstract.poisoned /\ ~Abstract.failing
  BY <1>4, <1>5, Fields, NextFields
<1>8. Abstract' = [Abstract EXCEPT !.permits = @ - n]
  BY <1>3, <1>6, <1>7, Fields, NextFields
<1>9. Abstract.queue = <<>> /\ n <= Abstract.permits
  BY <1>2, <1>3, Fields
<1> QED  BY <1>7, <1>8, <1>9 DEF Contract!Take, Contract!MayTake

\* The first poll of an acquire that has to wait; what was published becomes what
\* this poll releases.
LEMMA EnqueueStep ==
  ASSUME QueueInv, LockInv', NEW t \in Tasks, NEW n \in Amounts, PollEnterQueue(t, n)
  PROVE  Contract!Enqueue(t, n)
<1> DEFINE p == acquire.permits
<1>t. /\ p \in PermitCount /\ p # POISON /\ (acquire.tag = "Queued" => p = 0) /\ acquire' = Queued(t)
      /\ releasable \in [Tasks -> PermitCount] /\ release' = release /\ release.permits \in PermitCount
      /\ pc \in [Tasks -> PC] /\ pc[t] = "idle" /\ releasable[t] = 0
      /\ releasable' = [releasable EXCEPT ![t] = p] /\ pc' = [pc EXCEPT ![t] = "lock"]
      /\ acquire.tag \in {"Queued", "Available"}
  <2>1. TypeOK /\ ReleasableBlank
    BY DEF QueueInv, LockInv
  <2>2. /\ acquire.permits \in PermitCount /\ release.permits \in PermitCount
        /\ acquire.tag \in {"Queued", "Available"} /\ (acquire.tag = "Queued" => p = 0)
        /\ releasable \in [Tasks -> PermitCount] /\ pc \in [Tasks -> PC]
    BY <2>1 DEF TypeOK
  <2>3. /\ acquire' = Queued(t) /\ release' = release /\ pc[t] = "idle"
        /\ releasable' = [releasable EXCEPT ![t] = p] /\ pc' = [pc EXCEPT ![t] = "lock"]
        /\ acquire.tag = "Queued" \/ p # POISON
    BY DEF PollEnterQueue, NoFuture, BeginRelease, Goto
  <2>4. releasable[t] = 0
    BY <2>1, <2>3 DEF ReleasableBlank, Owner, OwnerPC
  <2>5. p # POISON
    BY <2>2, <2>3, MaxAvailableAssumption DEF POISON
  <2> QED  BY <2>2, <2>3, <2>4, <2>5
<1>1. /\ releasable'[t] = p
      /\ \A u \in Tasks \ {t} : releasable'[u] = releasable[u] /\ (Owner(u)' <=> Owner(u))
      /\ ~Owner(t) /\ ~Owner(t)'
  BY <1>t DEF Owner, OwnerPC
<1>2. Free' = Free
  <2>1. /\ Free \in Nat /\ Free' \in Nat
        /\ Free' + Count(p) + Count(release.permits) + Count(releasable[t])
             = Free + Count(acquire'.permits) + Count(release'.permits) + Count(releasable'[t])
    BY <1>1, FreeStep DEF QueueInv
  <2>2. /\ Count(0) = 0 /\ Count(p) \in Nat /\ Count(release.permits) \in Nat
    BY <1>t, CountIsNat DEF Count, POISON
  <2>3. acquire'.permits = 0
    BY <1>t
  <2> QED  BY <1>t, <1>1, <2>1, <2>2, <2>3
<1>3. Abstract'.poisoned = Abstract.poisoned
  <2>1. Poisoned' <=> Poisoned
    BY <1>t, <1>1 DEF Poisoned, POISON
  <2> QED  BY <2>1, Fields, NextFields
<1>4. Abstract'.failing \in {Abstract.failing, Abstract.poisoned}
  <2>1. Failing' => Poisoned
    BY <1>t, <1>1 DEF Failing, Poisoned
  <2>2. Failing => Failing'
    BY <1>t, <1>1 DEF Failing
  <2> QED  BY <2>1, <2>2, Fields, NextFields
<1>5. /\ Arrival' = Append(Arrival, t) /\ Outcomes[t] = "none"
      /\ Outcomes' = [Outcomes EXCEPT ![t] = "queued"] /\ Asked' = [Asked EXCEPT ![t] = n]
  BY EnterView
<1>6. /\ Abstract.outcome[t] = "none"
      /\ Abstract' = [Abstract EXCEPT !.queue = Append(@, t), !.outcome[t] = "queued", !.amount[t] = n,
                                      !.failing = Abstract'.failing]
  <2>1. /\ Abstract'.queue = Append(Abstract.queue, t) /\ Abstract.outcome[t] = "none"
        /\ Abstract'.outcome = [Abstract.outcome EXCEPT ![t] = "queued"]
        /\ Abstract'.amount = [Abstract.amount EXCEPT ![t] = n]
        /\ Abstract'.permits = Abstract.permits
    BY <1>2, <1>5, Fields, NextFields
  <2> DEFINE q == Append(Abstract.queue, t)
  <2>2. Abstract'.queue = q
    BY <2>1
  <2> HIDE DEF q
  <2>3. Abstract' = [Abstract EXCEPT !.queue = q, !.outcome[t] = "queued", !.amount[t] = n,
                                     !.failing = Abstract'.failing]
    BY <1>3, <2>1, <2>2, Fields, NextFields
  <2> QED  BY <2>1, <2>3 DEF q
<1> QED  BY <1>4, <1>6 DEF Contract!Enqueue


\* cancel() takes an acquire out of the queue whose future is being dropped.
LEMMA CancelStep ==
  ASSUME QueueInv, LockInv', NEW t \in Tasks, Cancel(t)
  PROVE  Contract!Leave(todo[t])
<1> DEFINE w == todo[t]
           i == Cardinality(ahead[w]) + 1
<1>1. w \in Tasks /\ w \in Pending
  BY PointersPending DEF Cancel
<1>2. SameCounter
  <2>1. LockInv
    BY DEF QueueInv
  <2>2. WordsKept
    BY DEF Cancel, WordsKept, Owner
  <2> QED  BY <2>1, <2>2, WordsKeptStep
<1>3. Leave(w) /\ waker' = [waker EXCEPT ![w] = "Cancelled"] /\ UNCHANGED <<step, amount>>
  BY DEF Cancel, AcceptCancel
<1> HIDE DEF w
<1>4. /\ i \in DOMAIN Arrival /\ Arrival[i] = w
      /\ Arrival' = Contract!Remove(Arrival, i)
      /\ Outcomes[w] = "queued" /\ Outcomes' = [Outcomes EXCEPT ![w] = "none"]
      /\ Asked' = [Asked EXCEPT ![w] = 0]
  BY <1>1, <1>3, UnlinkView
<1>5. /\ Abstract'.permits = Abstract.permits /\ Abstract'.poisoned = Abstract.poisoned
      /\ Abstract'.failing = Abstract.failing
  BY <1>2, Fields, NextFields DEF SameCounter
<1> HIDE DEF i
<1>6. /\ Abstract.outcome[w] = "queued" /\ i \in DOMAIN Abstract.queue /\ Abstract.queue[i] = w
      /\ Abstract' = [Abstract EXCEPT !.queue = Contract!Remove(@, i), !.outcome[w] = "none", !.amount[w] = 0]
  <2>1. Abstract.outcome[w] = "queued" /\ i \in DOMAIN Abstract.queue /\ Abstract.queue[i] = w
    BY <1>4, Fields
  <2>2. /\ Abstract'.queue = Contract!Remove(Abstract.queue, i)
        /\ Abstract'.outcome = [Abstract.outcome EXCEPT ![w] = "none"]
        /\ Abstract'.amount = [Abstract.amount EXCEPT ![w] = 0]
    BY <1>4, Fields, NextFields
  <2>3. Abstract' = [Abstract EXCEPT !.queue = Contract!Remove(@, i), !.outcome[w] = "none", !.amount[w] = 0]
    BY <1>5, <2>2, Fields, NextFields
  <2> QED  BY <2>1, <2>3
<1>7. Contract!Leave(w)
  BY <1>6, Fields DEF Contract!Leave, Contract!Done
<1> QED  BY <1>7 DEF w

\* try_pop() serves or fails the oldest acquire, from the permits that the holder of
\* the release lock has in hand.
LEMMA ServeStep ==
  ASSUME QueueInv, LockInv', NEW t \in Tasks, TryPop(t)
  PROVE  front \in Tasks /\ (Contract!Grant(front) \/ Contract!Fail(front))
<1> DEFINE w == front
           p == releasable[t]
           n == amount[w]
<1>1. w \in Pending /\ w \in Tasks /\ ahead[w] = {}
  BY PointersPending, TryPopUnlinks DEF TryPop, Stuck, Pending
<1>t. /\ amount \in [Tasks -> Nat] /\ n \in Nat /\ releasable \in [Tasks -> PermitCount] /\ p \in PermitCount
      /\ pc \in [Tasks -> PC] /\ pc[t] = "settle" /\ Owner(t) /\ acquire' = acquire /\ release' = release
      /\ acquire.permits \in PermitCount /\ release.permits \in PermitCount
      /\ releasable' = [releasable EXCEPT ![t] = SubPermits(p, n)]
      /\ pc' \in {pc, [pc EXCEPT ![t] = "wake"]}
  BY <1>1 DEF QueueInv, LockInv, TypeOK, TryPop, Settling, Finish, Goto, Owner, OwnerPC
<1>2. p = POISON \/ n <= p
  BY <1>1 DEF TryPop, Stuck, Satisfies, Pending
<1>3. /\ acquire.tag = "Queued" /\ release.tag # "Unlocked" /\ Owner(t)'
      /\ \A u \in Tasks \ {t} : releasable'[u] = releasable[u] /\ ~Owner(u) /\ ~Owner(u)'
  <2>1. acquire.tag = "Queued"
    BY <1>1 DEF QueueInv, LockInv, TypeOK, QueueShape, QueueEnds
  <2>2. release.tag # "Unlocked" /\ \A u \in Tasks \ {t} : ~Owner(u)
    BY <1>t DEF QueueInv, LockInv, LockExclusion
  <2>3. \A u \in Tasks : Owner(u)' <=> Owner(u)
    BY <1>t DEF Owner, OwnerPC
  <2> QED  BY <1>t, <2>1, <2>2, <2>3
<1>4. releasable'[t] = SubPermits(p, n)
  BY <1>t
<1>5. /\ Leave(w) /\ UNCHANGED <<step, amount>>
      /\ waker' = [waker EXCEPT ![w] = IF p = POISON THEN "Poisoned" ELSE "Finished"]
  BY DEF TryPop, Finish
<1>6. /\ Free \in Nat /\ Free' \in Nat
      /\ Free' + Count(acquire.permits) + Count(release.permits) + Count(p)
           = Free + Count(acquire.permits) + Count(release.permits) + Count(SubPermits(p, n))
      /\ Count(acquire.permits) + Count(release.permits) + Count(p) <= Free
      /\ Count(acquire.permits) \in Nat /\ Count(release.permits) \in Nat
  BY <1>t, <1>3, <1>4, FreeStep, CountIsNat DEF QueueInv
<1>7. Cardinality(ahead[w]) + 1 = 1
  BY <1>1, FS_EmptySet
<1>f. /\ Failing <=> p = POISON
      /\ Failing' <=> SubPermits(p, n) = POISON
  <2>1. Failing <=> p = POISON
    BY <1>t, <1>3 DEF Failing
  <2>2. Failing' <=> SubPermits(p, n) = POISON
    BY <1>t, <1>3, <1>4 DEF Failing
  <2> QED  BY <2>1, <2>2
<1> HIDE DEF w
<1>8. ASSUME NEW s \in {"Finished", "Poisoned"}, waker' = [waker EXCEPT ![w] = s]
      PROVE  /\ Arrival # <<>> /\ Head(Arrival) = w /\ Arrival' = Tail(Arrival)
             /\ Asked[w] = n /\ Asked' = Asked
             /\ Outcomes' = [Outcomes EXCEPT ![w] = IF s = "Finished" THEN "Ok" ELSE "Poisoned"]
  <2>1. /\ 1 \in DOMAIN Arrival /\ Arrival[1] = w /\ Arrival' = Contract!Remove(Arrival, 1)
        /\ Arrival \in Seq(Tasks) /\ Asked[w] = n /\ Asked' = Asked
        /\ Outcomes' = [Outcomes EXCEPT ![w] = IF s = "Finished" THEN "Ok" ELSE "Poisoned"]
    <3> DEFINE i == Cardinality(ahead[w]) + 1
               outcome == CASE s = "Finished" -> "Ok" [] s = "Poisoned" -> "Poisoned" [] OTHER -> "none"
    <3>1. /\ w \in Tasks /\ w \in Pending /\ Leave(w) /\ UNCHANGED <<step, amount>>
          /\ s \in {"Finished", "Poisoned", "Cancelled"} /\ waker' = [waker EXCEPT ![w] = s]
      BY <1>1, <1>5, <1>8
    <3>2. /\ i \in DOMAIN Arrival /\ Arrival[i] = w /\ Arrival' = Contract!Remove(Arrival, i)
          /\ Arrival \in Seq(Tasks) /\ Asked[w] = amount[w]
          /\ Outcomes' = [Outcomes EXCEPT ![w] = outcome]
          /\ Asked' = IF s = "Cancelled" THEN [Asked EXCEPT ![w] = 0] ELSE Asked
      BY <3>1, UnlinkView
    <3>3. i = 1
      BY <1>7
    <3>4. s # "Cancelled" /\ outcome = IF s = "Finished" THEN "Ok" ELSE "Poisoned"
      BY <1>8
    <3> HIDE DEF i, outcome
    <3> QED  BY <3>2, <3>3, <3>4
  <2>2. ASSUME NEW q \in Seq(Tasks), 1 \in DOMAIN q
        PROVE  q # <<>> /\ Head(q) = q[1] /\ Contract!Remove(q, 1) = Tail(q)
    <3>1. Len(q) \in Nat /\ Len(q) >= 1 /\ Tail(q) \in Seq(Tasks) /\ Len(Tail(q)) = Len(q) - 1
      BY <2>2
    <3> DEFINE r == Contract!Remove(q, 1)
               tail == Tail(q)
    <3>2. \A k \in 1 .. Len(q) - 1 : tail[k] = q[k + 1] /\ r[k] = q[k + 1] /\ q[k + 1] \in Tasks
      BY <2>2, <3>1 DEF Contract!Remove
    <3>3. r \in Seq(Tasks) /\ Len(r) = Len(q) - 1 /\ tail \in Seq(Tasks) /\ Len(tail) = Len(q) - 1
      BY <3>1, <3>2 DEF Contract!Remove
    <3> HIDE DEF r, tail
    <3>4. r = tail
      BY <3>1, <3>2, <3>3
    <3> QED  BY <2>2, <3>4 DEF r, tail
  <2> QED  BY <2>1, <2>2
<1>9. CASE p = POISON
  <2>1. SubPermits(p, n) = POISON /\ Count(p) \in Nat
    BY <1>9, <1>t, CountIsNat DEF SubPermits
  <2>2. Free' = Free
    <3> HIDE DEF p, n
    <3> QED  BY <1>6, <1>9, <2>1
  <2>3. Abstract.poisoned = TRUE /\ Abstract'.poisoned = TRUE
    <3>1. Poisoned /\ Poisoned'
      BY <1>9, <1>4, <2>1 DEF Poisoned
    <3> QED  BY <3>1, Fields, NextFields
  <2>4. Abstract'.failing = TRUE
    BY <1>f, <2>1, Fields, NextFields
  <2>5. /\ Arrival # <<>> /\ Head(Arrival) = w /\ Arrival' = Tail(Arrival) /\ Asked' = Asked
        /\ Outcomes' = [Outcomes EXCEPT ![w] = "Poisoned"]
    BY <1>5, <1>8, <1>9
  <2>6. Abstract' = [Abstract EXCEPT !.queue = Tail(@), !.outcome[w] = "Poisoned", !.failing = TRUE]
    <3>1. /\ Abstract'.permits = Abstract.permits /\ Abstract'.poisoned = Abstract.poisoned
          /\ Abstract'.queue = Tail(Abstract.queue) /\ Abstract'.amount = Abstract.amount
          /\ Abstract'.outcome = [Abstract.outcome EXCEPT ![w] = "Poisoned"]
      BY <2>2, <2>3, <2>5, Fields, NextFields
    <3> QED  BY <2>4, <3>1, Fields, NextFields
  <2>7. Contract!Fail(w)
    BY <2>3, <2>5, <2>6, Fields DEF Contract!Fail, Contract!AtFront
  <2> QED  BY <1>1, <2>7 DEF w
<1>10. CASE p # POISON
  <2>1. SubPermits(p, n) = p - n /\ Count(p) = p /\ Count(p - n) = p - n /\ p - n # POISON /\ n <= p
    BY <1>2, <1>10, <1>t, CountIsNat DEF SubPermits, Count, PermitCount, POISON
  <2>2. Free' = Free - n /\ n <= Free
    <3>1. p \in Nat /\ n \in Nat
      BY <1>t DEF PermitCount, POISON
    <3> HIDE DEF p, n
    <3> QED  BY <1>6, <2>1, <3>1
  <2>3. Abstract'.poisoned = Abstract.poisoned
    <3>1. Poisoned' <=> Poisoned
      BY <1>10, <1>t, <1>3, <1>4, <2>1 DEF Poisoned
    <3> QED  BY <3>1, Fields, NextFields
  <2>4. Abstract.failing = FALSE /\ Abstract'.failing = Abstract.failing
    BY <1>f, <1>10, <2>1, Fields, NextFields
  <2>5. /\ Arrival # <<>> /\ Head(Arrival) = w /\ Arrival' = Tail(Arrival) /\ Asked[w] = n /\ Asked' = Asked
        /\ Outcomes' = [Outcomes EXCEPT ![w] = "Ok"]
    BY <1>5, <1>8, <1>10
  <2>6. /\ Abstract'.permits = Abstract.permits - n /\ Abstract'.queue = Tail(Abstract.queue)
        /\ Abstract'.outcome = [Abstract.outcome EXCEPT ![w] = "Ok"] /\ Abstract'.amount = Abstract.amount
    BY <2>2, <2>5, Fields, NextFields
  <2>7. Abstract' = [Abstract EXCEPT !.permits = Abstract'.permits, !.queue = Abstract'.queue, !.outcome[w] = "Ok"]
    BY <2>3, <2>4, <2>6, Fields, NextFields
  <2>8. /\ Abstract.amount[w] = n /\ n <= Abstract.permits /\ ~Abstract.failing
        /\ Contract!AtFront(w)
    BY <2>2, <2>4, <2>5, Fields DEF Contract!AtFront
  <2>9. Contract!Grant(w)
    BY <2>7, <2>8, <2>6 DEF Contract!Grant
  <2> QED  BY <1>1, <2>9 DEF w
<1> QED  BY <1>9, <1>10

\* What each exchange and each access to a list is in the contract.
LEMMA ContractStep ==
  ASSUME QueueInv, LockInv', NEW t \in Tasks, Begin(t) \/ Continue(t)
  PROVE  Contract!Next \/ Abstract' = Abstract
<1>t. /\ LockInv /\ amount[t] \in Nat /\ held[t] \in Nat /\ releasable \in [Tasks -> PermitCount]
      /\ pc \in [Tasks -> PC] /\ todo \in [Tasks -> Pointer]
      /\ POISON \in Nat /\ ToPermits(POISON) = POISON
      /\ pc[t] = "push_cancel" => releasable[t] = 0
  <2>1. LockInv /\ TypeOK /\ ReleasableBlank
    BY DEF QueueInv, LockInv
  <2>2. /\ amount[t] \in Nat /\ held[t] \in Nat /\ releasable \in [Tasks -> PermitCount]
        /\ pc \in [Tasks -> PC] /\ todo \in [Tasks -> Pointer]
    BY <2>1 DEF TypeOK
  <2>3. POISON \in Nat /\ ToPermits(POISON) = POISON
    BY DEF POISON, ToPermits
  <2>4. pc[t] = "push_cancel" => releasable[t] = 0
    BY <2>1 DEF ReleasableBlank, Owner, OwnerPC
  <2> QED  BY <2>1, <2>2, <2>3, <2>4
<1>u. NodeAgrees(t) /\ step[t] \in AcquireStep /\ waker[t] \in WakerState
  BY DEF QueueInv, NodeControl, LockInv, TypeOK
<1>k. ASSUME acquire'.tag = acquire.tag, acquire'.permits = acquire.permits,
             release' = release, releasable' = releasable,
             pc' = pc \/ \E to \in PC : pc' = [pc EXCEPT ![t] = to] /\ (to \in OwnerPC <=> pc[t] \in OwnerPC)
      PROVE  SameCounter
  <2>1. \A u \in Tasks : Owner(u)' <=> Owner(u)
    BY <1>k, <1>t DEF Owner
  <2>2. WordsKept
    BY <1>k, <2>1 DEF WordsKept
  <2> QED  BY <1>t, <2>2, WordsKeptStep
<1>e. ASSUME step[t] = "Waiting", waker[t] \in {"Finished", "Poisoned", "Cancelled"}, EndFuture(t), ahead' = ahead
      PROVE  AcquireEnds(t)
  BY <1>e, <1>t, EndFutureStep
<1> USE DEF Goto, OwnerPC, PC
<1>1. CASE \E n \in Amounts : PollEnterAcquire(t, n)
  <2> PICK n \in Amounts : PollEnterAcquire(t, n)
    BY <1>1
  <2>1. Contract!Take(n)
    BY TakeStep DEF PollEnterAcquire
  <2> QED  BY <2>1 DEF Contract!Next
<1>2. CASE \E n \in Amounts : PollEnterQueue(t, n)
  <2> PICK n \in Amounts : PollEnterQueue(t, n)
    BY <1>2
  <2>1. Contract!Enqueue(t, n)
    BY EnqueueStep
  <2> QED  BY <2>1 DEF Contract!Next
<1>3. CASE \E n \in Amounts : TryAcquire(t, n)
  <2> PICK n \in Amounts : TryAcquire(t, n)
    BY <1>3
  <2>1. Contract!Take(n)
    BY TakeStep DEF TryAcquire
  <2> QED  BY <2>1 DEF Contract!Next
<1>4. CASE \E n \in Releases : Release(t, n)
  <2> PICK n \in Releases : Release(t, n)
    BY <1>4
  <2>1. n \in Nat /\ AcquiresKept
    BY NodesKept DEF Release
  <2>2. Given(n)
    BY <1>t, <2>1, GivenStep DEF Release
  <2> QED  BY <2>1, <2>2, GiveStep
<1>5. CASE PollReady(t)
  <2>1. AcquireEnds(t) /\ SameCounter
    BY <1>5, <1>e, <1>k DEF PollReady, FinishPoll
  <2>2. OutcomeOf(t) \in {"Ok", "Poisoned"}
    BY <1>5 DEF PollReady, OutcomeOf, Pending
  <2> QED  BY <2>1, <2>2, EndStep DEF Contract!Next
<1>6. CASE PollStore(t)
  <2>1. AcquiresKept
    BY <1>6, <1>t, WakerKept DEF PollStore
  <2>2. SameCounter
    BY <1>6, <1>k DEF PollStore
  <2> QED  BY <2>1, <2>2, KeptStep
<1>7. CASE DropFinished(t)
  <2>1. AcquireEnds(t)
    BY <1>7, <1>e DEF DropFinished
  <2>2. CASE waker[t] = "Finished"
    <3>1. OutcomeOf(t) = "Ok"
      BY <1>7, <2>2 DEF DropFinished, OutcomeOf, Pending
    <3>2. Given(amount[t])
      BY <1>7, <1>t, <2>2, GivenStep DEF DropFinished
    <3>3. Contract!GiveBack(t)
      BY <1>t, <2>1, <3>1, <3>2, GiveBackStep
    <3> QED  BY <3>3 DEF Contract!Next
  <2>3. CASE waker[t] = "Poisoned"
    <3>1. OutcomeOf(t) = "Poisoned"
      BY <1>7, <2>3 DEF DropFinished, OutcomeOf, Pending
    <3>2. SameCounter
      BY <1>7, <1>k, <2>3 DEF DropFinished
    <3> QED  BY <2>1, <3>1, <3>2, EndStep DEF Contract!Next
  <2> QED  BY <1>7, <2>2, <2>3 DEF DropFinished
<1>8. CASE StartCancel(t)
  <2>1. AcquiresKept
    BY <1>8, <1>t, WakerKept DEF StartCancel
  <2>2. SameCounter
    BY <1>8, <1>k DEF StartCancel
  <2> QED  BY <2>1, <2>2, KeptStep
<1>9. CASE Poison(t)
  <2>1. POISON \in Nat /\ AcquiresKept
    BY <1>9, <1>t, NodesKept DEF Poison
  <2>2. Given(POISON)
    BY <1>9, <1>t, <2>1, GivenStep DEF Poison
  <2> QED  BY <2>1, <2>2, GiveStep
<1>10. CASE DropGuard(t)
  <2>1. held[t] \in Nat /\ AcquiresKept
    BY <1>10, <1>t, NodesKept DEF DropGuard
  <2>2. Given(held[t])
    BY <1>10, <1>t, <2>1, GivenStep DEF DropGuard
  <2> QED  BY <2>1, <2>2, GiveStep
<1>11. CASE DropGuardPanicking(t)
  <2>1. POISON \in Nat /\ AcquiresKept
    BY <1>11, <1>t, NodesKept DEF DropGuardPanicking
  <2>2. Given(POISON)
    BY <1>11, <1>t, <2>1, GivenStep DEF DropGuardPanicking
  <2> QED  BY <2>1, <2>2, GiveStep
<1>12. CASE Forget(t)
  <2>1. AcquiresKept
    BY <1>12, NodesKept DEF Forget
  <2> QED  BY <1>12, <1>k, <2>1, KeptStep DEF Forget
<1>13. CASE PollStored(t)
  <2>1. SameCounter
    BY <1>13, <1>k DEF PollStored, Goto
  <2>2. CASE waker[t] = "Storing"
    <3>1. step[t] = "Waiting"
      BY <1>u, <2>2 DEF NodeAgrees, AcquireStep
    <3>2. AcquiresKept
      BY <1>13, <1>t, <2>2, <3>1, WakerKept DEF PollStored
    <3> QED  BY <2>1, <3>2, KeptStep
  <2>3. CASE waker[t] \in {"Finished", "Poisoned"}
    <3>1. step[t] = "Waiting"
      BY <1>u, <2>3 DEF NodeAgrees, AcquireStep
    <3>2. AcquireEnds(t)
      BY <1>13, <1>e, <2>3, <3>1 DEF PollStored, FinishPoll
    <3>3. OutcomeOf(t) \in {"Ok", "Poisoned"}
      BY <2>3 DEF OutcomeOf, Pending
    <3> QED  BY <2>1, <3>2, <3>3, EndStep DEF Contract!Next
  <2> QED  BY <1>13, <2>2, <2>3 DEF PollStored
<1>14. CASE PushCancel(t)
  <2>1. AcquiresKept
    BY <1>14, NodesKept DEF PushCancel
  <2>2. releasable' = releasable /\ pc' = [pc EXCEPT ![t] = "lock"]
    BY <1>14, <1>t DEF PushCancel, BeginRelease, Goto
  <2> QED  BY <1>14, <1>k, <2>1, <2>2, KeptStep DEF PushCancel
<1>15. CASE WaitCancel(t)
  <2>1. SameCounter
    BY <1>15, <1>k DEF WaitCancel, Goto
  <2>2. step[t] = "Waiting" /\ OutcomeOf(t) = "none"
    BY <1>15, <1>u DEF WaitCancel, NodeAgrees, AcquireStep, OutcomeOf, Pending
  <2>3. AcquireEnds(t)
    BY <1>15, <1>e, <2>2 DEF WaitCancel
  <2> QED  BY <2>1, <2>2, <2>3, EndStep
<1>16. CASE LockOrElseDefer(t)
  <2>1. AcquiresKept
    BY <1>16, NodesKept DEF LockOrElseDefer
  <2>2. SameCounter \/ Swallows
    BY <1>16, <1>t, LockCounter
  <2>3. Free \in Nat /\ Free' \in Nat
    BY <1>16, <1>t, FreeStep DEF LockOrElseDefer
  <2> QED  BY <2>1, <2>2, <2>3, KeptStep, SwallowStep DEF Contract!Next
<1>17. CASE SwapCancel(t)
  <2>1. AcquiresKept
    BY <1>17, NodesKept DEF SwapCancel
  <2> QED  BY <1>17, <1>k, <2>1, KeptStep DEF SwapCancel
<1>18. CASE FlipAvailable(t)
  <2>1. AcquiresKept
    BY <1>18, NodesKept DEF FlipAvailable
  <2>2. SameCounter \/ Swallows
    BY <1>18, <1>t, PublishCounter
  <2>3. Free \in Nat /\ Free' \in Nat
    BY <1>18, <1>t, FreeStep DEF FlipAvailable
  <2> QED  BY <2>1, <2>2, <2>3, KeptStep, SwallowStep DEF Contract!Next
<1>19. CASE FlipNothing(t)
  <2>1. AcquiresKept
    BY <1>19, NodesKept DEF FlipNothing
  <2> QED  BY <1>19, <1>k, <2>1, KeptStep DEF FlipNothing
<1>20. CASE FlipTake(t)
  <2>1. AcquiresKept
    BY <1>20, NodesKept DEF FlipTake
  <2>2. acquire.permits = 0
    BY <1>20, <1>t DEF FlipTake, LockInv, TypeOK
  <2> QED  BY <1>20, <1>k, <2>1, <2>2, KeptStep DEF FlipTake
<1>21. CASE LinkNext(t)
  <2>1. AcquiresKept
    BY <1>21, NodesKept DEF LinkNext
  <2> QED  BY <1>21, <1>k, <2>1, KeptStep DEF LinkNext
<1>22. CASE LinkLast(t)
  <2>1. AcquiresKept
    BY <1>22, NodesKept DEF LinkLast
  <2> QED  BY <1>22, <1>k, <2>1, KeptStep DEF LinkLast
<1>23. CASE Cancel(t)
  <2>1. Contract!Leave(todo[t])
    BY <1>23, CancelStep
  <2>2. todo[t] \in Tasks
    BY <1>23, PointersPending DEF Cancel
  <2> QED  BY <2>1, <2>2 DEF Contract!Next
<1>24. CASE TryPop(t)
  <2>1. front \in Tasks /\ (Contract!Grant(front) \/ Contract!Fail(front))
    BY <1>24, ServeStep
  <2> QED  BY <2>1 DEF Contract!Next, Contract!Serve
<1>25. CASE Wake(t)
  <2>1. AcquiresKept
    BY <1>25, NodesKept DEF Wake
  <2> QED  BY <1>25, <1>k, <2>1, KeptStep DEF Wake
<1>26. CASE TryUnlock(t)
  <2>1. AcquiresKept
    BY <1>26, NodesKept DEF TryUnlock
  <2>2. SameCounter \/ Swallows
    BY <1>26, <1>t, UnlockCounter
  <2>3. Free \in Nat /\ Free' \in Nat
    BY <1>26, <1>t, FreeStep DEF TryUnlock
  <2> QED  BY <2>1, <2>2, <2>3, KeptStep, SwallowStep DEF Contract!Next
<1> QED
  BY <1>1, <1>2, <1>3, <1>4, <1>5, <1>6, <1>7, <1>8, <1>9, <1>10, <1>11, <1>12, <1>13,
     <1>14, <1>15, <1>16, <1>17, <1>18, <1>19, <1>20, <1>21, <1>22, <1>23, <1>24, <1>25, <1>26
  DEF Begin, Poll, DropFuture, Continue

\* Clients may think of one counter and one queue: every behaviour of the three words
\* and the lists, with any number of tasks, is a behaviour of the contract.
THEOREM ContractImplemented == Spec => ImplementsContract
<1>1. Init /\ LockInv => Contract!Init
  <2> SUFFICES ASSUME Init, LockInv PROVE Contract!Init
    OBVIOUS
  <2> DEFINE n == IF Initial <= MaxAvailable THEN Initial ELSE POISON
  <2>1. n \in 0 .. POISON /\ (n > MaxAvailable <=> ToPermits(Initial) = POISON) /\ Initial \in Nat
        /\ Count(ToPermits(Initial)) = (IF n > MaxAvailable THEN 0 ELSE n)
    BY DEF POISON, ToPermits, Count
  <2> HIDE DEF n
  <2>2. Pending = {} /\ \A t \in Tasks : OutcomeOf(t) = "none"
    BY DEF Init, Pending, OutcomeOf
  <2>3. Arrival = <<>>
    <3>1. Arrival = [i \in 1 .. 0 |-> CHOOSE t \in {} : Cardinality(ahead[t]) = i - 1]
      BY <2>2, FS_EmptySet DEF Arrival, InOrder
    <3> QED  BY <3>1
  <2>4. Outcomes = [t \in Tasks |-> "none"] /\ Asked = [t \in Tasks |-> 0]
    BY <2>2 DEF Outcomes, Asked
  <2>5. Free = IF n > MaxAvailable THEN 0 ELSE n
    <3>1. \A t \in Tasks : InRelease[t] = 0
      BY DEF Init, InRelease, Count
    <3>2. SumOf(InRelease, Tasks) = 0
      BY <3>1, SumNothing
    <3>3. Count(acquire.permits) = (IF n > MaxAvailable THEN 0 ELSE n) /\ Count(release.permits) = 0
      BY <2>1 DEF Init, Count
    <3> QED  BY <2>1, <3>2, <3>3 DEF Free
  <2>6. (Poisoned <=> n > MaxAvailable) /\ (Failing <=> n > MaxAvailable)
    BY <2>1 DEF Init, Poisoned, Failing, POISON
  <2>7. Abstract.poisoned = (n > MaxAvailable) /\ Abstract.failing = (n > MaxAvailable)
    BY <2>6, Fields
  <2>8. Abstract = Contract!New(n)
    BY <2>3, <2>4, <2>5, <2>7, Fields DEF Contract!New
  <2> QED  BY <2>1, <2>8 DEF Contract!Init
<1>2. QueueInv /\ LockInv' /\ [Next]_vars => [Contract!Next]_Abstract
  <2> SUFFICES ASSUME QueueInv, LockInv', [Next]_vars PROVE [Contract!Next]_Abstract
    OBVIOUS
  <2>1. CASE UNCHANGED vars
    <3>1. AcquiresKept
      BY <2>1, NodesKept DEF vars
    <3>2. WordsKept
      BY <2>1 DEF vars, WordsKept, Owner
    <3> QED  BY <3>1, <3>2, WordsKeptStep, KeptStep DEF QueueInv
  <2>2. CASE Next
    BY <2>2, ContractStep DEF Next
  <2> QED  BY <2>1, <2>2
<1> QED
  BY <1>1, <1>2, LockInvariant, QueueInvariant, PTL DEF Spec, ImplementsContract, Contract!Spec

-----------------------------------------------------------------------------
(* Calls inside wake() *)

\* What a call that t begins does not do to others, nor to its own node.
NestedBegin(t) ==
  /\ pc[t] = "idle" /\ waker'[t] # "Cancelled"
  /\ \A v \in Tasks \ {t} : pc'[v] = pc[v] /\ call'[v] = call[v] /\ waker'[v] = waker[v]

\* What a call of t that goes on does not do: it moves no other task, and starts no
\* cancellation.
NestedContinue(t) ==
  /\ \A v \in Tasks \ {t} : pc'[v] = pc[v] /\ call'[v] = call[v]
  /\ \A v \in Tasks : waker'[v] \in {"Cancelling", "Cancelled"} =>
                         waker[v] \in {"Cancelling", "Cancelled"}

\* A call begins between calls of its task, with a node that is not cancelled.
LEMMA BeginNested ==
  ASSUME QueueInv, NEW t \in Tasks, Begin(t)
  PROVE  NestedBegin(t)
<1>t. /\ pc \in [Tasks -> PC] /\ call \in [Tasks -> Call] /\ waker \in [Tasks -> WakerState]
  BY DEF QueueInv, LockInv, TypeOK
<1>u. NodeAgrees(t)
  BY DEF QueueInv, NodeControl
<1> USE <1>t, <1>u DEF NestedBegin, NodeAgrees, InCancel, Owner, OwnerPC, Goto, BeginRelease, FinishPoll,
                       EndFuture, NoFuture
<1>1. CASE \E n \in Amounts : PollEnterAcquire(t, n)
  BY <1>1 DEF PollEnterAcquire
<1>2. CASE \E n \in Amounts : PollEnterQueue(t, n)
  BY <1>2 DEF PollEnterQueue
<1>3. CASE \E n \in Amounts : TryAcquire(t, n)
  BY <1>3 DEF TryAcquire
<1>4. CASE \E n \in Releases : Release(t, n)
  BY <1>4 DEF Release
<1>5. CASE PollReady(t)
  BY <1>5 DEF PollReady
<1>6. CASE PollStore(t)
  BY <1>6 DEF PollStore
<1>7. CASE DropFinished(t)
  BY <1>7 DEF DropFinished
<1>8. CASE StartCancel(t)
  BY <1>8 DEF StartCancel
<1>9. CASE Poison(t)
  BY <1>9 DEF Poison
<1>10. CASE DropGuard(t)
  BY <1>10 DEF DropGuard
<1>11. CASE DropGuardPanicking(t)
  BY <1>11 DEF DropGuardPanicking
<1>12. CASE Forget(t)
  BY <1>12 DEF Forget
<1> HIDE DEF NestedBegin, NestedContinue
<1> QED
  BY <1>1, <1>2, <1>3, <1>4, <1>5, <1>6, <1>7, <1>8, <1>9, <1>10, <1>11, <1>12
  DEF Begin, Poll, DropFuture

\* Only drop starts a cancellation, and that is where its call begins.
LEMMA ContinueNested ==
  ASSUME QueueInv, NEW t \in Tasks, Continue(t)
  PROVE  NestedContinue(t)
<1>t. /\ pc \in [Tasks -> PC] /\ call \in [Tasks -> Call] /\ waker \in [Tasks -> WakerState]
  BY DEF QueueInv, LockInv, TypeOK
<1> USE <1>t DEF NestedContinue, Goto, BeginRelease, ReturnFromRelease, FinishPoll, EndFuture, AcceptCancel,
                 Finish, Settling
<1>1. CASE PollStored(t)
  BY <1>1 DEF PollStored
<1>2. CASE PushCancel(t)
  BY <1>2 DEF PushCancel
<1>3. CASE WaitCancel(t)
  BY <1>3 DEF WaitCancel
<1>4. CASE LockOrElseDefer(t)
  BY <1>4 DEF LockOrElseDefer
<1>5. CASE SwapCancel(t)
  BY <1>5 DEF SwapCancel
<1>6. CASE FlipAvailable(t)
  BY <1>6 DEF FlipAvailable
<1>7. CASE FlipNothing(t)
  BY <1>7 DEF FlipNothing
<1>8. CASE FlipTake(t)
  BY <1>8 DEF FlipTake
<1>9. CASE LinkNext(t)
  BY <1>9 DEF LinkNext
<1>10. CASE LinkLast(t)
  BY <1>10 DEF LinkLast
<1>11. CASE Cancel(t)
  BY <1>11 DEF Cancel
<1>12. CASE TryPop(t)
  BY <1>12 DEF TryPop
<1>13. CASE Wake(t)
  BY <1>13 DEF Wake
<1>14. CASE TryUnlock(t)
  BY <1>14 DEF TryUnlock
<1> HIDE DEF NestedBegin, NestedContinue
<1> QED
  BY <1>1, <1>2, <1>3, <1>4, <1>5, <1>6, <1>7, <1>8, <1>9, <1>10, <1>11, <1>12, <1>13, <1>14
  DEF Continue

\* Whoever runs it, a step of a call is a step of a call.
LEMMA ReentrantStep == [ReentrantNext]_allVars => [Next]_vars
BY DEF ReentrantNext, BeginOnThread, BeginInWake, Resume, Next, allVars

\* So what is proved of Semaphore holds of it with calls in wake().
LEMMA ReentrantImplements == ReentrantSpec => Spec
<1>1. ReentrantInit => Init
  BY DEF ReentrantInit
<1> QED  BY <1>1, ReentrantStep, PTL DEF ReentrantSpec, Spec

\* A step leaves wake() where it is, if there is a call in it, and takes that call
\* neither to the release lock nor, unless wakers drop futures, to the park of drop.
LEMMA NestedStep ==
  ASSUME QueueInv, QueueInv', nested \in [Tasks -> Pointer], NestedNeverWaits, ReentrantNext
  PROVE  nested' \in [Tasks -> Pointer] /\ NestedNeverWaits'
<1>o. \A v, w \in Tasks : Owner(v)' /\ Owner(w)' => v = w
  BY DEF QueueInv, LockInv, LockExclusion
<1>c. \A v \in Tasks : InCancel(v)' => waker'[v] \in {"Cancelling", "Cancelled"}
  BY DEF QueueInv, NodeControl, NodeAgrees
<1>d. \A v \in Tasks : waker[v] \in {"Cancelling", "Cancelled"} => InCancel(v)
  BY DEF QueueInv, NodeControl, NodeAgrees
<1>w. \A v \in Tasks : pc[v] = "wake" => Owner(v)
  BY DEF Owner, OwnerPC
<1>v. \A v \in Tasks : pc'[v] = "wake" => Owner(v)'
  BY DEF Owner, OwnerPC
<1>s. ASSUME NEW v \in Tasks, pc'[v] = pc[v], call'[v] = call[v]
      PROVE  (Owner(v)' <=> Owner(v)) /\ (InCancel(v)' <=> InCancel(v))
  BY <1>s DEF Owner, InCancel
<1>n. ASSUME NEW t \in Tasks, nested[t] # Null
      PROVE  /\ pc[t] = "wake" /\ nested[t] \in Tasks /\ nested[t] # t /\ ~Owner(nested[t])
             /\ InCancel(nested[t]) => DropsInWake
  BY <1>n, <1>w DEF NestedNeverWaits
<1> HIDE DEF NestedNeverWaits
<1>1. ASSUME NEW s \in Tasks, BeginOnThread(s)
      PROVE  nested' \in [Tasks -> Pointer] /\ NestedNeverWaits'
  <2>1. NestedBegin(s) /\ nested' = nested /\ \A h \in Tasks : nested[h] # s
    BY <1>1, BeginNested DEF BeginOnThread, OnThread
  <2>2. ASSUME NEW t \in Tasks, nested[t] # Null
        PROVE  /\ pc'[t] = "wake" /\ nested[t] \in Tasks /\ ~Owner(nested[t])'
               /\ InCancel(nested[t])' => DropsInWake
    <3>1. t # s /\ nested[t] # s
      BY <1>n, <2>1, <2>2 DEF NestedBegin
    <3> QED  BY <1>n, <1>s, <2>1, <2>2, <3>1 DEF NestedBegin
  <2> QED  BY <2>1, <2>2 DEF NestedNeverWaits
<1>2. ASSUME NEW s \in Tasks, Resume(s)
      PROVE  nested' \in [Tasks -> Pointer] /\ NestedNeverWaits'
  <2>1. NestedContinue(s) /\ nested' = [nested EXCEPT ![s] = Null]
    BY <1>2, ContinueNested DEF Resume
  <2>2. ASSUME NEW t \in Tasks, nested'[t] # Null
        PROVE  /\ nested'[t] = nested[t]
               /\ pc'[t] = "wake" /\ nested[t] \in Tasks /\ ~Owner(nested[t])'
               /\ InCancel(nested[t])' => DropsInWake
    <3>1. t # s /\ nested'[t] = nested[t] /\ nested[t] # Null
      BY <2>1, <2>2
    <3>2. pc'[t] = "wake"
      BY <1>n, <2>1, <3>1 DEF NestedContinue
    <3>3. ~Owner(nested[t])'
      BY <1>n, <1>o, <1>v, <3>1, <3>2
    <3>4. InCancel(nested[t])' => DropsInWake
      BY <1>n, <1>c, <1>d, <2>1, <3>1 DEF NestedContinue
    <3> QED  BY <1>n, <3>1, <3>2, <3>3, <3>4
  <2>3. nested' \in [Tasks -> Pointer]
    BY <2>1 DEF Pointer
  <2> QED  BY <2>2, <2>3 DEF NestedNeverWaits
<1>3. ASSUME NEW s \in Tasks, NEW u \in Tasks, BeginInWake(s, u)
      PROVE  nested' \in [Tasks -> Pointer] /\ NestedNeverWaits'
  <2>1. /\ NestedBegin(u) /\ pc[s] = "wake" /\ u # s /\ \A h \in Tasks : nested[h] # u
        /\ waker'[u] = "Cancelling" => DropsInWake
        /\ nested' = [nested EXCEPT ![s] = u]
    BY <1>3, BeginNested DEF BeginInWake, OnThread
  <2>2. /\ pc'[s] = "wake" /\ ~Owner(u)'
        /\ InCancel(u)' => DropsInWake
    <3>1. pc'[s] = "wake"
      BY <2>1 DEF NestedBegin
    <3> QED  BY <1>c, <1>o, <1>v, <2>1, <3>1 DEF NestedBegin
  <2>3. ASSUME NEW t \in Tasks \ {s}, nested[t] # Null
        PROVE  /\ pc'[t] = "wake" /\ nested[t] \in Tasks /\ ~Owner(nested[t])'
               /\ InCancel(nested[t])' => DropsInWake
    <3>1. t # u /\ nested[t] # u
      BY <1>n, <2>1, <2>3 DEF NestedBegin
    <3> QED  BY <1>n, <1>s, <2>1, <2>3, <3>1 DEF NestedBegin
  <2>4. nested' \in [Tasks -> Pointer]
    BY <2>1 DEF Pointer
  <2>5. nested'[s] = u /\ \A t \in Tasks \ {s} : nested'[t] = nested[t]
    BY <2>1
  <2> QED  BY <2>2, <2>3, <2>4, <2>5 DEF NestedNeverWaits
<1> QED  BY <1>1, <1>2, <1>3 DEF ReentrantNext

\* A call made in wake() is deferred to the thread that makes it, and returns: it
\* does not get the release lock, which that thread holds, and there is nothing it
\* waits for, as long as it is not the drop of a pending acquire.
THEOREM NestedCallsNeverWait == ReentrantSpec => []NestedNeverWaits
<1> DEFINE NestedInv == nested \in [Tasks -> Pointer] /\ NestedNeverWaits
<1>1. ReentrantInit => NestedInv
  BY DEF ReentrantInit, NestedNeverWaits, Pointer
<1>2. QueueInv /\ QueueInv' /\ NestedInv /\ [ReentrantNext]_allVars => NestedInv'
  <2>1. ASSUME NestedInv, UNCHANGED allVars PROVE NestedInv'
    BY <2>1 DEF allVars, vars, NestedNeverWaits, Owner, InCancel
  <2> QED  BY <2>1, NestedStep
<1>3. NestedInv => NestedNeverWaits
  OBVIOUS
<1>4. ReentrantSpec => []QueueInv
  BY ReentrantImplements, QueueInvariant, PTL
<1> QED  BY <1>1, <1>2, <1>3, <1>4, PTL DEF ReentrantSpec

=============================================================================
