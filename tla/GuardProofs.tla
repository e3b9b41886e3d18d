---------------------------- MODULE GuardProofs ----------------------------
(***************************************************************************)
(* The guards, for any number of semaphores, threads and guards, and with  *)
(* no bound on the permits that SemaphoreGuard::new makes up.              *)
(***************************************************************************)
EXTENDS Guard, PermitsProofs

USE MaxAvailableAssumption

-----------------------------------------------------------------------------
(* Types *)

\* A guard in existence, and every other place.
LEMMA GuardFields ==
  ASSUME TypeOK, NEW g \in Guards
  PROVE  /\ g \in Live => /\ guard[g] \in GuardRecord
                          /\ guard[g].semaphore \in Semaphores /\ guard[g].amount \in 0 .. UsizeMax
                          /\ guard[g].panicking \in BOOLEAN /\ guard[g].owner \in Threads
         /\ g \notin Live => guard[g] = NoGuard
BY DEF TypeOK, Live, GuardRecord

\* What SemaphoreGuard::new returns is a guard.
LEMMA NewGuardType ==
  ASSUME NEW t \in Threads, NEW u \in Threads, NEW s \in Semaphores, NEW n \in 0 .. UsizeMax
  PROVE  /\ NewGuard(t, u, s, n) \in GuardRecord /\ NewGuard(t, u, s, n) # NoGuard
         /\ NewGuard(t, u, s, n).semaphore = s /\ NewGuard(t, u, s, n).amount = n
<1>1. NewGuard(t, u, s, n) \in GuardRecord
  BY DEF NewGuard, GuardRecord
<1> QED  BY <1>1, NoGuardAssumption DEF NewGuard

\* A guard with another amount is a guard, of the same semaphore and thread.
LEMMA AmountType ==
  ASSUME NEW r \in GuardRecord, NEW n \in 0 .. UsizeMax
  PROVE  /\ [r EXCEPT !.amount = n] \in GuardRecord /\ [r EXCEPT !.amount = n] # NoGuard
         /\ [r EXCEPT !.amount = n].amount = n
         /\ [r EXCEPT !.amount = n].semaphore = r.semaphore
         /\ [r EXCEPT !.amount = n].owner = r.owner
         /\ [r EXCEPT !.amount = n].panicking = r.panicking
<1>1. [r EXCEPT !.amount = n] \in GuardRecord
  BY DEF GuardRecord
<1> QED  BY <1>1, NoGuardAssumption DEF GuardRecord

\* saturating_add stays within a usize, and adds unless the sum does not fit.
LEMMA SaturatingAddType ==
  ASSUME NEW m \in 0 .. UsizeMax, NEW n \in 0 .. UsizeMax
  PROVE  /\ SaturatingAdd(m, n) \in 0 .. UsizeMax /\ SaturatingAdd(m, n) <= m + n
         /\ m + n <= UsizeMax => SaturatingAdd(m, n) = m + n
BY GuardAssumption DEF SaturatingAdd

\* The drop of a guard adds its permits to the semaphore, or poisons it.
LEMMA DropGuardStep ==
  ASSUME TypeOK, NEW g \in Live, NEW p \in BOOLEAN, DropGuard(g, p)
  PROVE  LET s == guard[g].semaphore IN
         /\ guard' = [guard EXCEPT ![g] = NoGuard]
         /\ counter' \in [Semaphores -> PermitCount]
         /\ \A q \in Semaphores \ {s} : counter'[q] = counter[q]
         /\ Poisons(guard[g], p) => counter'[s] = POISON /\ s \in panicked'
         /\ ~Poisons(guard[g], p) =>
              counter'[s] = AddPermits(counter[s], ToPermits(guard[g].amount))
         /\ panicked \subseteq panicked' /\ panicked' \subseteq Semaphores
         /\ UNCHANGED <<supply, forgotten>>
<1> DEFINE s == guard[g].semaphore
<1>1. /\ g \in Guards /\ s \in Semaphores /\ guard[g].amount \in Nat
      /\ counter \in [Semaphores -> PermitCount] /\ panicked \subseteq Semaphores
  BY GuardFields, GuardAssumption DEF Live, TypeOK
<1>2. /\ POISON \in PermitCount /\ ToPermits(guard[g].amount) \in PermitCount
      /\ AddPermits(counter[s], ToPermits(guard[g].amount)) \in PermitCount
  BY <1>1, PermitArithmetic
<1> DEFINE c == IF Poisons(guard[g], p) THEN POISON ELSE AddPermits(counter[s], ToPermits(guard[g].amount))
<1>3. c \in PermitCount
  BY <1>2
<1>4. /\ counter' = [counter EXCEPT ![s] = c]
      /\ guard' = [guard EXCEPT ![g] = NoGuard]
      /\ panicked' = IF p THEN panicked \cup {s} ELSE panicked
      /\ UNCHANGED <<supply, forgotten>>
  BY DEF DropGuard
<1>5. Poisons(guard[g], p) => p
  BY DEF Poisons
<1> HIDE DEF s
<1>6. /\ counter' \in [Semaphores -> PermitCount] /\ counter'[s] = c
      /\ \A q \in Semaphores \ {s} : counter'[q] = counter[q]
  <2> HIDE DEF c
  <2> QED  BY <1>1, <1>3, <1>4
<1> QED  BY <1>1, <1>4, <1>5, <1>6 DEF s

\* Every step of the program keeps the types.
LEMMA TypeStep == TypeOK /\ [Next]_vars => TypeOK'
<1> SUFFICES ASSUME TypeOK, [Next]_vars PROVE TypeOK'
  OBVIOUS
<1> USE GuardAssumption
<1> DEFINE Gs == {NoGuard} \cup GuardRecord
<1>0. /\ counter \in [Semaphores -> PermitCount] /\ guard \in [Guards -> Gs]
      /\ thread \in [Threads -> {"running", "panicking", "dead"}]
      /\ supply \in [Semaphores -> Nat] /\ forgotten \in [Semaphores -> Nat]
      /\ panicked \subseteq Semaphores /\ mismatch \in [Threads -> SUBSET Semaphores]
  BY DEF TypeOK
<1>1. ASSUME NEW g \in Guards, NEW t \in Threads, NEW u \in Threads, NEW s \in Semaphores,
             NEW n \in Amounts, Acquire(g, t, u, s, n)
      PROVE  TypeOK'
  <2>1. n \in 0 .. UsizeMax /\ counter[s] - n \in PermitCount
    BY <1>0, <1>1, PermitArithmetic DEF Acquire
  <2>2. NewGuard(t, u, s, n) \in Gs
    BY <2>1, NewGuardType
  <2> QED  BY <1>0, <1>1, <2>1, <2>2 DEF Acquire, Put, TypeOK
<1>2. ASSUME NEW g \in Guards, NEW t \in Threads, NEW u \in Threads, NEW s \in Semaphores,
             NEW n \in Constructed, Construct(g, t, u, s, n)
      PROVE  TypeOK'
  <2>1. n \in 0 .. UsizeMax /\ supply[s] + n \in Nat
    BY <1>0
  <2>2. NewGuard(t, u, s, n) \in Gs
    BY <2>1, NewGuardType
  <2> QED  BY <1>0, <1>2, <2>1, <2>2 DEF Construct, Put, TypeOK
<1>3. ASSUME NEW g \in Guards, Forget(g) PROVE TypeOK'
  <2>1. guard[g].semaphore \in Semaphores /\ guard[g].amount \in Nat
    BY <1>3, GuardFields DEF Forget
  <2>2. forgotten[guard[g].semaphore] + guard[g].amount \in Nat
    BY <1>0, <2>1
  <2> QED  BY <1>0, <1>3, <2>1, <2>2 DEF Forget, TypeOK
<1>4. ASSUME NEW g \in Guards, Drop(g) PROVE TypeOK'
  <2>1. g \in Live /\ DropGuard(g, thread[guard[g].owner] = "panicking")
    BY <1>4 DEF Drop
  <2>2. /\ guard' = [guard EXCEPT ![g] = NoGuard] /\ counter' \in [Semaphores -> PermitCount]
        /\ panicked' \subseteq Semaphores /\ UNCHANGED <<supply, forgotten>>
    BY <2>1, DropGuardStep
  <2> QED  BY <1>0, <1>4, <2>2 DEF Drop, TypeOK
<1>5. ASSUME NEW g \in Guards, NEW h \in Guards, ExtendMismatch(g, h) PROVE TypeOK'
  <2>1. g \in Live /\ h \in Live /\ DropGuard(h, TRUE) /\ guard[g].owner \in Threads
    BY <1>5, GuardFields DEF ExtendMismatch
  <2>2. /\ guard' = [guard EXCEPT ![h] = NoGuard] /\ counter' \in [Semaphores -> PermitCount]
        /\ panicked' \subseteq Semaphores /\ UNCHANGED <<supply, forgotten>>
    BY <2>1, DropGuardStep
  <2>3. \A k \in {g, h} : guard[k].semaphore \in Semaphores
    BY <2>1, GuardFields
  <2> QED  BY <1>0, <1>5, <2>1, <2>2, <2>3 DEF ExtendMismatch, TypeOK
<1>6. ASSUME NEW g \in Guards, NEW h \in Guards, Extend(g, h) PROVE TypeOK'
  <2>1. g \in Live /\ h \in Live
    BY <1>6 DEF Extend
  <2>2. /\ guard[g] \in GuardRecord
        /\ SaturatingAdd(guard[g].amount, guard[h].amount) \in 0 .. UsizeMax
    BY <2>1, GuardFields, SaturatingAddType
  <2> DEFINE r == [guard[g] EXCEPT !.amount = SaturatingAdd(guard[g].amount, guard[h].amount)]
  <2>3. r \in Gs
    BY <2>2, AmountType
  <2>4. guard' = [guard EXCEPT ![g] = r, ![h] = NoGuard]
    BY <1>0, <1>6 DEF Extend
  <2> HIDE DEF r
  <2> QED  BY <1>0, <1>6, <2>3, <2>4 DEF Extend, TypeOK
<1>7. ASSUME NEW g \in Guards, NEW h \in Guards, NEW n \in Splits, Split(g, h, n) PROVE TypeOK'
  <2>1. /\ g \in Live /\ guard[g] \in GuardRecord /\ n \in 0 .. UsizeMax
        /\ guard[g].amount - n \in 0 .. UsizeMax
    BY <1>7, GuardFields DEF Split
  <2> DEFINE r == [guard[g] EXCEPT !.amount = guard[g].amount - n]
             q == [guard[g] EXCEPT !.amount = n]
  <2>2. r \in Gs /\ q \in Gs
    BY <2>1, AmountType
  <2>3. guard' = [guard EXCEPT ![g] = r, ![h] = q]
    BY <1>0, <1>7 DEF Split, Without
  <2> HIDE DEF r, q
  <2> QED  BY <1>0, <1>7, <2>2, <2>3 DEF Split, TypeOK
<1>8. ASSUME NEW t \in Threads, Panic(t) \/ Unwound(t) PROVE TypeOK'
  BY <1>0, <1>8 DEF Panic, Unwound, TypeOK
<1>9. CASE UNCHANGED vars
  BY <1>9 DEF vars, TypeOK
<1> QED  BY <1>1, <1>2, <1>3, <1>4, <1>5, <1>6, <1>7, <1>8, <1>9 DEF Next

\* Every variable has its type: in particular no guard has more permits than a
\* usize holds, whatever is split and combined.
THEOREM TypeInvariant == Spec => []TypeOK
<1>1. Init => TypeOK
  BY GuardAssumption, PermitArithmetic DEF Init, TypeOK, PermitCount, POISON
<1> QED  BY <1>1, TypeStep, PTL DEF Spec

-----------------------------------------------------------------------------
(* What the guards have *)

Places == [Guards -> {NoGuard} \cup GuardRecord]

\* The permits of semaphore s in a place for a guard, and in all of them.
HeldBy(r, s)   == IF r # NoGuard /\ r.semaphore = s THEN r.amount ELSE 0
HeldIn(gd, s)  == [g \in Guards |-> HeldBy(gd[g], s)]
SumHeld(gd, s) == SumOf(HeldIn(gd, s), Guards)

\* What a guard has is a count.
LEMMA HeldType ==
  ASSUME NEW gd \in Places, NEW s
  PROVE  HeldIn(gd, s) \in [Guards -> Nat] /\ SumHeld(gd, s) \in Nat
<1>1. ASSUME NEW g \in Guards PROVE HeldBy(gd[g], s) \in Nat
  <2>1. gd[g] = NoGuard \/ gd[g].amount \in Nat
    BY GuardAssumption DEF Places, GuardRecord
  <2> QED  BY <2>1 DEF HeldBy
<1>2. HeldIn(gd, s) \in [Guards -> Nat]
  BY <1>1 DEF HeldIn
<1> QED  BY <1>2, OnesFinite, GuardAssumption DEF SumHeld

\* The sum after one guard changed.
LEMMA HeldChange ==
  ASSUME NEW gd \in Places, NEW hd \in Places, NEW s, NEW g \in Guards,
         \A k \in Guards \ {g} : hd[k] = gd[k]
  PROVE  /\ SumHeld(hd, s) + HeldBy(gd[g], s) = SumHeld(gd, s) + HeldBy(hd[g], s)
         /\ HeldBy(gd[g], s) \in Nat /\ HeldBy(hd[g], s) \in Nat
<1> DEFINE n == HeldIn(gd, s)
           m == HeldIn(hd, s)
<1>1. n \in [Guards -> Nat] /\ m \in [Guards -> Nat]
  BY HeldType
<1>2. /\ n[g] = HeldBy(gd[g], s) /\ m[g] = HeldBy(hd[g], s)
      /\ \A k \in Guards \ {g} : m[k] = n[k]
  BY DEF HeldIn
<1> HIDE DEF n, m
<1>3. SumOf(m, Guards) + n[g] = SumOf(n, Guards) + m[g] /\ n[g] \in Nat /\ m[g] \in Nat
  BY <1>1, <1>2, SumUpdate, GuardAssumption
<1> QED  BY <1>2, <1>3 DEF SumHeld, n, m

\* The sum after two changed.
LEMMA HeldChangeTwo ==
  ASSUME NEW gd \in Places, NEW hd \in Places, NEW s, NEW g \in Guards, NEW h \in Guards, g # h,
         \A k \in Guards \ {g, h} : hd[k] = gd[k]
  PROVE  /\ SumHeld(hd, s) + HeldBy(gd[g], s) + HeldBy(gd[h], s)
              = SumHeld(gd, s) + HeldBy(hd[g], s) + HeldBy(hd[h], s)
         /\ HeldBy(gd[g], s) \in Nat /\ HeldBy(hd[g], s) \in Nat
         /\ HeldBy(gd[h], s) \in Nat /\ HeldBy(hd[h], s) \in Nat
<1> DEFINE md == [gd EXCEPT ![g] = hd[g]]
<1>1. md \in Places
  BY DEF Places
<1>2. /\ md[g] = hd[g] /\ md[h] = gd[h]
      /\ \A k \in Guards \ {g} : md[k] = gd[k]
      /\ \A k \in Guards \ {h} : hd[k] = md[k]
  BY DEF Places
<1> HIDE DEF md
<1>3. /\ SumHeld(md, s) + HeldBy(gd[g], s) = SumHeld(gd, s) + HeldBy(hd[g], s)
      /\ HeldBy(gd[g], s) \in Nat /\ HeldBy(hd[g], s) \in Nat
  BY <1>1, <1>2, HeldChange
<1>4. /\ SumHeld(hd, s) + HeldBy(gd[h], s) = SumHeld(md, s) + HeldBy(hd[h], s)
      /\ HeldBy(gd[h], s) \in Nat /\ HeldBy(hd[h], s) \in Nat
  BY <1>1, <1>2, HeldChange
<1>5. SumHeld(gd, s) \in Nat /\ SumHeld(md, s) \in Nat /\ SumHeld(hd, s) \in Nat
  BY <1>1, HeldType
<1> QED  BY <1>3, <1>4, <1>5

\* One guard has no more than all, and two together neither.
LEMMA HeldAtMost ==
  ASSUME NEW gd \in Places, NEW s, NEW g \in Guards, NEW h \in Guards, g # h
  PROVE  HeldBy(gd[g], s) + HeldBy(gd[h], s) <= SumHeld(gd, s)
<1> DEFINE n == HeldIn(gd, s)
<1>1. n \in [Guards -> Nat] /\ n[g] = HeldBy(gd[g], s) /\ n[h] = HeldBy(gd[h], s)
  BY HeldType DEF HeldIn
<1> HIDE DEF n
<1>2. n[g] + n[h] <= SumOf(n, Guards)
  BY <1>1, SumAtLeast, GuardAssumption
<1> QED  BY <1>1, <1>2 DEF SumHeld, n

-----------------------------------------------------------------------------
(* Conservation *)

\* Conserved, for one semaphore with c permits of its own, f forgotten ones and x
\* in guards, v of them ever in circulation; p tells if a panic poisoned it.
Balanced(c, f, x, v, p) ==
  IF c = POISON THEN p \/ v > MaxAvailable
  ELSE /\ c + f + x <= v
       /\ v <= UsizeMax => c + f + x = v

\* Conserved says just that.
LEMMA ConservedIs ==
  /\ Conserved <=> \A s \in Semaphores :
       Balanced(counter[s], forgotten[s], SumHeld(guard, s), supply[s], s \in panicked)
  /\ Conserved' <=> \A s \in Semaphores :
       Balanced(counter'[s], forgotten'[s], SumHeld(guard', s), supply'[s], s \in panicked')
<1>1. \A s : SumOf(InGuards(s), Guards) = SumHeld(guard, s)
  <2>1. \A s : InGuards(s) = HeldIn(guard, s)
    BY DEF InGuards, HeldIn, HeldBy, Live
  <2> QED  BY <2>1 DEF SumHeld
<1>2. \A s : SumOf(InGuards(s), Guards)' = SumHeld(guard', s)
  <2>1. \A s : InGuards(s)' = HeldIn(guard', s)
    BY DEF InGuards, HeldIn, HeldBy, Live
  <2> QED  BY <2>1 DEF SumHeld, SumOf, Ones
<1>3. Conserved <=> \A s \in Semaphores :
        Balanced(counter[s], forgotten[s], SumHeld(guard, s), supply[s], s \in panicked)
  BY <1>1 DEF Conserved, Balanced, Total
<1>4. Conserved' <=> \A s \in Semaphores :
        Balanced(counter'[s], forgotten'[s], SumHeld(guard', s), supply'[s], s \in panicked')
  BY <1>2 DEF Conserved, Balanced, Total
<1> QED  BY <1>3, <1>4

\* A drop gives the semaphore what the guard had, or poisons it; so many permits
\* that they poison it were never acquired.
LEMMA DropBalanced ==
  ASSUME TypeOK, TypeOK', NEW g \in Live, NEW p \in BOOLEAN, DropGuard(g, p), NEW s \in Semaphores,
         Balanced(counter[s], forgotten[s], SumHeld(guard, s), supply[s], s \in panicked)
  PROVE  Balanced(counter'[s], forgotten'[s], SumHeld(guard', s), supply'[s], s \in panicked')
<1> DEFINE c == counter[s]
           d == counter'[s]
           x == SumHeld(guard, s)
           y == SumHeld(guard', s)
           n == HeldBy(guard[g], s)
           v == supply[s]
           f == forgotten[s]
<1>1. /\ guard' = [guard EXCEPT ![g] = NoGuard] /\ guard \in Places /\ guard' \in Places
      /\ UNCHANGED <<supply, forgotten>> /\ panicked \subseteq panicked' /\ g \in Guards
      /\ c \in PermitCount /\ f \in Nat /\ v \in Nat
  BY DropGuardStep DEF TypeOK, Places, Live
<1>2. y + n = x /\ n \in Nat /\ x \in Nat /\ y \in Nat
  <2>1. HeldBy(guard'[g], s) = 0 /\ \A k \in Guards \ {g} : guard'[k] = guard[k]
    BY <1>1 DEF HeldBy, Places
  <2>2. guard \in Places /\ guard' \in Places /\ g \in Guards
    BY <1>1
  <2>3. y + n = x + HeldBy(guard'[g], s) /\ n \in Nat
    BY <2>1, <2>2, HeldChange
  <2> QED  BY <1>1, <2>1, <2>3, HeldType
<1>3. CASE guard[g].semaphore # s
  <2>1. d = c /\ n = 0
    BY <1>3, DropGuardStep DEF HeldBy
  <2> HIDE DEF c, d, x, y, n, v, f
  <2>2. y = x
    BY <1>2, <2>1
  <2> QED  BY <1>1, <2>1, <2>2 DEF Balanced, c, d, x, y, v, f
<1>4. CASE guard[g].semaphore = s /\ Poisons(guard[g], p)
  <2>1. d = POISON /\ s \in panicked'
    BY <1>4, DropGuardStep
  <2> QED  BY <2>1 DEF Balanced
<1>5. CASE guard[g].semaphore = s /\ ~Poisons(guard[g], p)
  <2>1. d = AddPermits(c, ToPermits(n))
    BY <1>5, DropGuardStep DEF HeldBy, Live
  <2>2. Balanced(c, f, x, v, s \in panicked)
    OBVIOUS
  <2>3. v = supply'[s] /\ f = forgotten'[s] /\ (s \in panicked => s \in panicked')
    BY <1>1
  <2> HIDE DEF c, d, x, y, n, v, f
  <2>4. CASE c = POISON
    <3>1. ToPermits(n) \in PermitCount
      BY <1>2, PermitArithmetic
    <3>2. d = POISON
      BY <1>1, <2>1, <2>4, <3>1, PermitArithmetic
    <3> QED  BY <2>2, <2>3, <2>4, <3>2 DEF Balanced, d, v, f
  <2>5. CASE c # POISON
    <3>1. c + f + x <= v /\ (v <= UsizeMax => c + f + x = v) /\ c \in 0 .. MaxAvailable
      BY <1>1, <2>2, <2>5 DEF Balanced, PermitCount, POISON
    <3>2. CASE d = POISON
      <4>1. v > MaxAvailable
        BY <1>1, <1>2, <2>1, <3>1, <3>2 DEF AddPermits, ToPermits, POISON
      <4> QED  BY <2>3, <3>2, <4>1 DEF Balanced, d
    <3>3. CASE d # POISON
      <4>1. d = c + n
        BY <1>1, <1>2, <2>1, <3>1, <3>3 DEF AddPermits, ToPermits, POISON
      <4>2. d + f + y <= v /\ (v <= UsizeMax => d + f + y = v)
        BY <1>1, <1>2, <3>1, <4>1
      <4> QED  BY <2>3, <3>3, <4>2 DEF Balanced, d, y, v, f
    <3> QED  BY <3>2, <3>3
  <2> QED  BY <2>4, <2>5
<1> QED  BY <1>3, <1>4, <1>5

\* Every step conserves permits.
LEMMA ConservedStep == TypeOK /\ Conserved /\ [Next]_vars => Conserved'
<1> SUFFICES ASSUME TypeOK, Conserved, [Next]_vars, NEW s \in Semaphores
             PROVE  Balanced(counter'[s], forgotten'[s], SumHeld(guard', s), supply'[s], s \in panicked')
  BY ConservedIs
<1>0. TypeOK'
  BY TypeStep
<1> DEFINE c == counter[s]
           x == SumHeld(guard, s)
           y == SumHeld(guard', s)
           v == supply[s]
           f == forgotten[s]
<1>a. /\ guard \in Places /\ guard' \in Places /\ x \in Nat /\ y \in Nat
      /\ c \in PermitCount /\ f \in Nat /\ v \in Nat
      /\ counter \in [Semaphores -> PermitCount] /\ supply \in [Semaphores -> Nat]
      /\ forgotten \in [Semaphores -> Nat]
  BY <1>0, HeldType DEF TypeOK, Places
<1>c. guard \in Places /\ guard' \in Places
  BY <1>a
<1>b. Balanced(c, f, x, v, s \in panicked)
  BY ConservedIs
<1> HIDE DEF c, x, y, v, f
<1>1. ASSUME NEW g \in Guards, NEW t \in Threads, NEW u \in Threads, NEW q \in Semaphores,
             NEW n \in Amounts, Acquire(g, t, u, q, n)
      PROVE  Balanced(counter'[s], forgotten'[s], SumHeld(guard', s), supply'[s], s \in panicked')
  <2>1. /\ n \in 0 .. UsizeMax /\ n <= counter[q] /\ counter[q] # POISON
        /\ counter' = [counter EXCEPT ![q] = counter[q] - n]
        /\ guard[g] = NoGuard /\ guard' = [guard EXCEPT ![g] = NewGuard(t, u, q, n)]
        /\ UNCHANGED <<supply, forgotten, panicked>>
    BY <1>1, GuardAssumption DEF Acquire, Put
  <2>2. HeldBy(guard[g], s) = 0 /\ HeldBy(guard'[g], s) = IF q = s THEN n ELSE 0
    BY <1>a, <2>1, NewGuardType DEF HeldBy, Places
  <2>3. y = x + IF q = s THEN n ELSE 0
    <3>1. \A k \in Guards \ {g} : guard'[k] = guard[k]
      BY <1>a, <2>1 DEF Places
    <3>2. y + HeldBy(guard[g], s) = x + HeldBy(guard'[g], s)
      BY <1>c, <3>1, HeldChange DEF x, y
    <3> QED  BY <1>a, <2>2, <3>2
  <2>4. CASE q = s
    <3>1. counter'[s] = c - n /\ n <= c /\ c # POISON
      BY <1>a, <2>1, <2>4 DEF c
    <3>2. c - n # POISON
      BY <1>a, <2>1, <3>1, PermitArithmetic
    <3>3. c + f + x <= v /\ (v <= UsizeMax => c + f + x = v) /\ c \in Nat
      BY <1>a, <1>b, <3>1 DEF Balanced, PermitCount
    <3>4. (c - n) + f + y <= v /\ (v <= UsizeMax => (c - n) + f + y = v)
      BY <1>a, <2>1, <2>3, <2>4, <3>3
    <3> QED  BY <2>1, <3>1, <3>2, <3>4 DEF Balanced, v, f, y
  <2>5. CASE q # s
    <3>1. counter'[s] = c /\ y = x
      BY <1>a, <2>1, <2>3, <2>5 DEF c
    <3> QED  BY <1>b, <2>1, <3>1 DEF v, f, y
  <2> QED  BY <2>4, <2>5
<1>2. ASSUME NEW g \in Guards, NEW t \in Threads, NEW u \in Threads, NEW q \in Semaphores,
             NEW n \in Constructed, Construct(g, t, u, q, n)
      PROVE  Balanced(counter'[s], forgotten'[s], SumHeld(guard', s), supply'[s], s \in panicked')
  <2>1. /\ n \in 0 .. UsizeMax
        /\ supply' = [supply EXCEPT ![q] = supply[q] + n]
        /\ guard[g] = NoGuard /\ guard' = [guard EXCEPT ![g] = NewGuard(t, u, q, n)]
        /\ UNCHANGED <<counter, forgotten, panicked>>
    BY <1>2, GuardAssumption DEF Construct, Put
  <2>2. HeldBy(guard[g], s) = 0 /\ HeldBy(guard'[g], s) = IF q = s THEN n ELSE 0
    BY <1>a, <2>1, NewGuardType DEF HeldBy, Places
  <2>3. y = x + IF q = s THEN n ELSE 0
    <3>1. \A k \in Guards \ {g} : guard'[k] = guard[k]
      BY <1>a, <2>1 DEF Places
    <3>2. y + HeldBy(guard[g], s) = x + HeldBy(guard'[g], s)
      BY <1>c, <3>1, HeldChange DEF x, y
    <3> QED  BY <1>a, <2>2, <3>2
  <2>4. supply'[s] = v + IF q = s THEN n ELSE 0
    BY <1>a, <2>1 DEF v
  <2>5. Balanced(c, f, y, supply'[s], s \in panicked)
    <3> DEFINE w == supply'[s]
               i == IF q = s THEN n ELSE 0
    <3>1. i \in Nat /\ y = x + i /\ w = v + i /\ c \in Int /\ UsizeMax \in Nat
      BY <1>a, <2>1, <2>3, <2>4, GuardAssumption DEF PermitCount
    <3> HIDE DEF w, i
    <3>2. CASE c = POISON
      <4>1. v > MaxAvailable => w > MaxAvailable
        BY <1>a, <3>1
      <4> QED  BY <1>b, <3>2, <4>1 DEF Balanced, w
    <3>3. CASE c # POISON
      <4>1. c + f + x <= v /\ (v <= UsizeMax => c + f + x = v)
        BY <1>b, <3>3 DEF Balanced
      <4>2. c + f + y <= w /\ (w <= UsizeMax => c + f + y = w)
        BY <1>a, <3>1, <4>1
      <4> QED  BY <3>3, <4>2 DEF Balanced, w
    <3> QED  BY <3>2, <3>3
  <2> QED  BY <2>1, <2>5 DEF c, f, y
<1>3. ASSUME NEW g \in Guards, Forget(g)
      PROVE  Balanced(counter'[s], forgotten'[s], SumHeld(guard', s), supply'[s], s \in panicked')
  <2> DEFINE n == HeldBy(guard[g], s)
  <2>1. /\ g \in Live /\ guard[g].semaphore \in Semaphores /\ guard[g].amount \in Nat
        /\ forgotten' = [forgotten EXCEPT ![guard[g].semaphore] =
                           forgotten[guard[g].semaphore] + guard[g].amount]
        /\ guard' = [guard EXCEPT ![g] = NoGuard]
        /\ UNCHANGED <<counter, supply, panicked>>
    BY <1>3, GuardFields, GuardAssumption DEF Forget
  <2>2. HeldBy(guard'[g], s) = 0 /\ n = IF guard[g].semaphore = s THEN guard[g].amount ELSE 0
    BY <1>a, <2>1 DEF HeldBy, Places, Live
  <2>3. y + n = x /\ n \in Nat
    <3>1. \A k \in Guards \ {g} : guard'[k] = guard[k]
      BY <1>a, <2>1 DEF Places
    <3>2. y + n = x + HeldBy(guard'[g], s) /\ n \in Nat
      BY <1>c, <3>1, HeldChange DEF x, y
    <3> QED  BY <1>a, <2>2, <3>2
  <2>4. forgotten'[s] = f + n
    BY <1>a, <2>1, <2>2 DEF f
  <2> HIDE DEF n
  <2>5. c \in Int
    BY <1>a DEF PermitCount
  <2>6. c + f + x = c + (f + n) + y
    BY <1>a, <2>3, <2>5
  <2> QED  BY <1>b, <2>1, <2>4, <2>6 DEF Balanced, c, v, y
<1>4. ASSUME NEW g \in Guards, Drop(g)
      PROVE  Balanced(counter'[s], forgotten'[s], SumHeld(guard', s), supply'[s], s \in panicked')
  <2>1. g \in Live /\ DropGuard(g, thread[guard[g].owner] = "panicking")
    BY <1>4 DEF Drop
  <2> QED  BY <1>0, <1>b, <2>1, DropBalanced DEF c, f, x, v
<1>5. ASSUME NEW g \in Guards, NEW h \in Guards, ExtendMismatch(g, h)
      PROVE  Balanced(counter'[s], forgotten'[s], SumHeld(guard', s), supply'[s], s \in panicked')
  <2>1. h \in Live /\ DropGuard(h, TRUE)
    BY <1>5 DEF ExtendMismatch
  <2> QED  BY <1>0, <1>b, <2>1, DropBalanced DEF c, f, x, v
<1>6. ASSUME NEW g \in Guards, NEW h \in Guards, Extend(g, h)
      PROVE  Balanced(counter'[s], forgotten'[s], SumHeld(guard', s), supply'[s], s \in panicked')
  <2> DEFINE m == guard[g].amount
             n == guard[h].amount
             r == [guard[g] EXCEPT !.amount = SaturatingAdd(m, n)]
             own == guard[g].semaphore = s
  <2>1. /\ g \in Live /\ h \in Live /\ g # h /\ guard[g].semaphore = guard[h].semaphore
        /\ guard' = [guard EXCEPT ![g] = r, ![h] = NoGuard]
        /\ UNCHANGED <<counter, supply, forgotten, panicked>>
    BY <1>6, <1>a DEF Extend, Places
  <2>2. /\ m \in 0 .. UsizeMax /\ n \in 0 .. UsizeMax /\ m \in Nat /\ n \in Nat
        /\ SaturatingAdd(m, n) \in 0 .. UsizeMax /\ SaturatingAdd(m, n) <= m + n
        /\ m + n <= UsizeMax => SaturatingAdd(m, n) = m + n
    BY <2>1, GuardFields, SaturatingAddType, GuardAssumption
  <2>3. r # NoGuard /\ r.amount = SaturatingAdd(m, n) /\ r.semaphore = guard[g].semaphore
    BY <2>1, <2>2, GuardFields, AmountType
  <2>4. /\ guard'[g] = r /\ guard'[h] = NoGuard
        /\ \A k \in Guards \ {g, h} : guard'[k] = guard[k]
    BY <1>a, <2>1 DEF Places
  <2>5. /\ HeldBy(guard[g], s) = IF own THEN m ELSE 0
        /\ HeldBy(guard[h], s) = IF own THEN n ELSE 0
        /\ HeldBy(guard'[g], s) = IF own THEN SaturatingAdd(m, n) ELSE 0
        /\ HeldBy(guard'[h], s) = 0
    <3>1. guard[g] # NoGuard /\ guard[h] # NoGuard
      BY <2>1 DEF Live
    <3>2. /\ HeldBy(guard[g], s) = IF own THEN m ELSE 0
          /\ HeldBy(guard[h], s) = IF own THEN n ELSE 0
      BY <2>1, <3>1 DEF HeldBy
    <3> HIDE DEF r
    <3>3. HeldBy(r, s) = IF own THEN SaturatingAdd(m, n) ELSE 0
      BY <2>3 DEF HeldBy
    <3>4. HeldBy(NoGuard, s) = 0
      BY DEF HeldBy
    <3> HIDE DEF m, n, own
    <3> QED  BY <2>4, <3>2, <3>3, <3>4
  <2>6. /\ y + HeldBy(guard[g], s) + HeldBy(guard[h], s)
             = x + HeldBy(guard'[g], s) + HeldBy(guard'[h], s)
        /\ HeldBy(guard[g], s) + HeldBy(guard[h], s) <= x
    <3>1. g # h /\ \A k \in Guards \ {g, h} : guard'[k] = guard[k]
      BY <2>1, <2>4
    <3> QED  BY <1>c, <3>1, HeldChangeTwo, HeldAtMost DEF x, y
  <2> HIDE DEF m, n, r, own
  <2>7. CASE ~own
    <3>1. y = x
      BY <1>a, <2>5, <2>6, <2>7
    <3> QED  BY <1>b, <2>1, <3>1 DEF c, f, v, y
  <2>8. CASE own
    <3> DEFINE o == SaturatingAdd(m, n)
    <3>1. o \in Nat /\ o <= m + n /\ (m + n <= UsizeMax => o = m + n)
      BY <2>2, GuardAssumption
    <3>2. y + m + n = x + o /\ m + n <= x
      <4>1. y + m + n = x + o + 0 /\ m + n <= x
        BY <2>5, <2>6, <2>8
      <4> HIDE DEF o
      <4> QED  BY <1>a, <3>1, <4>1
    <3> HIDE DEF o
    <3>3. CASE c = POISON
      BY <1>b, <2>1, <3>3 DEF Balanced, c, v
    <3>4. CASE c # POISON
      <4>1. c + f + x <= v /\ (v <= UsizeMax => c + f + x = v) /\ c \in Nat
        BY <1>a, <1>b, <3>4 DEF Balanced, PermitCount
      <4>2. c + f + y <= v /\ (v <= UsizeMax => c + f + y = v)
        BY <1>a, <2>2, <3>1, <3>2, <4>1, GuardAssumption
      <4> QED  BY <2>1, <3>4, <4>2 DEF Balanced, c, f, v, y
    <3> QED  BY <3>3, <3>4
  <2> QED  BY <2>7, <2>8
<1>7. ASSUME NEW g \in Guards, NEW h \in Guards, NEW n \in Splits, Split(g, h, n)
      PROVE  Balanced(counter'[s], forgotten'[s], SumHeld(guard', s), supply'[s], s \in panicked')
  <2> DEFINE m == guard[g].amount
             r == [guard[g] EXCEPT !.amount = m - n]
             z == [guard[g] EXCEPT !.amount = n]
             own == guard[g].semaphore = s
  <2>1. /\ g \in Live /\ h \notin Live /\ g # h /\ m >= n /\ n \in 0 .. UsizeMax
        /\ guard' = [guard EXCEPT ![g] = r, ![h] = z]
        /\ UNCHANGED <<counter, supply, forgotten, panicked>>
    BY <1>7, <1>a, GuardAssumption DEF Split, Without, Places
  <2>2. m \in Nat /\ n \in Nat /\ m - n \in 0 .. UsizeMax /\ guard[g] \in GuardRecord
    BY <2>1, GuardFields, GuardAssumption
  <2>3. /\ r # NoGuard /\ r.amount = m - n /\ r.semaphore = guard[g].semaphore
        /\ z # NoGuard /\ z.amount = n /\ z.semaphore = guard[g].semaphore
    BY <2>1, <2>2, AmountType
  <2>4. /\ guard'[g] = r /\ guard'[h] = z
        /\ \A k \in Guards \ {g, h} : guard'[k] = guard[k]
    BY <1>a, <2>1 DEF Places
  <2>5. /\ HeldBy(guard[g], s) = IF own THEN m ELSE 0
        /\ HeldBy(guard[h], s) = 0
        /\ HeldBy(guard'[g], s) = IF own THEN m - n ELSE 0
        /\ HeldBy(guard'[h], s) = IF own THEN n ELSE 0
    <3>1. guard[g] # NoGuard /\ guard[h] = NoGuard
      BY <2>1 DEF Live
    <3>2. HeldBy(guard[g], s) = (IF own THEN m ELSE 0) /\ HeldBy(guard[h], s) = 0
      BY <3>1 DEF HeldBy
    <3> HIDE DEF r, z
    <3>3. HeldBy(r, s) = IF own THEN m - n ELSE 0
      BY <2>3 DEF HeldBy
    <3>4. HeldBy(z, s) = IF own THEN n ELSE 0
      BY <2>3 DEF HeldBy
    <3> HIDE DEF m, own
    <3> QED  BY <2>4, <3>2, <3>3, <3>4
  <2>6. y + HeldBy(guard[g], s) + HeldBy(guard[h], s)
             = x + HeldBy(guard'[g], s) + HeldBy(guard'[h], s)
    <3>1. g # h /\ \A k \in Guards \ {g, h} : guard'[k] = guard[k]
      BY <2>1, <2>4
    <3> QED  BY <1>c, <3>1, HeldChangeTwo DEF x, y
  <2> HIDE DEF m, r, z, own
  <2>7. y = x
    BY <1>a, <2>2, <2>5, <2>6
  <2> QED  BY <1>b, <2>1, <2>7 DEF c, f, v, y
<1>8. ASSUME NEW t \in Threads, Panic(t) \/ Unwound(t)
      PROVE  Balanced(counter'[s], forgotten'[s], SumHeld(guard', s), supply'[s], s \in panicked')
  BY <1>b, <1>8 DEF Panic, Unwound, c, f, x, v
<1>9. CASE UNCHANGED vars
  BY <1>9, <1>b DEF vars, c, f, x, v
<1> QED  BY <1>1, <1>2, <1>3, <1>4, <1>5, <1>6, <1>7, <1>8, <1>9 DEF Next

\* split, combine, forget and drop neither make up nor lose a permit of any
\* semaphore, and only a panic or too many permits poison one.
THEOREM PermitsOfGuardsConserved == Spec => []Conserved
<1>1. Init => TypeOK /\ Conserved
  <2> SUFFICES ASSUME Init, NEW s \in Semaphores
               PROVE  TypeOK /\ Balanced(counter[s], forgotten[s], SumHeld(guard, s), supply[s],
                                         s \in panicked)
    BY ConservedIs, GuardAssumption, PermitArithmetic
       DEF Init, TypeOK, PermitCount, POISON
  <2>1. TypeOK
    BY GuardAssumption, PermitArithmetic DEF Init, TypeOK, PermitCount, POISON
  <2>2. /\ counter[s] = Initial /\ Initial # POISON /\ Initial \in Nat
        /\ forgotten[s] = 0 /\ supply[s] = Initial /\ SumHeld(guard, s) = 0
    <3>1. \A g \in Guards : HeldIn(guard, s)[g] = 0
      BY DEF Init, HeldIn, HeldBy
    <3> QED  BY <3>1, SumNothing, GuardAssumption DEF Init, SumHeld, POISON
  <2> QED  BY <2>1, <2>2 DEF Balanced
<1> QED  BY <1>1, TypeStep, ConservedStep, PTL DEF Spec

-----------------------------------------------------------------------------
(* The assertion of extend *)

\* A guard of s that t will drop while it unwinds, and that poisons then.
WillPoison(t, s) ==
  /\ thread[t] = "panicking"
  /\ \E g \in Live : /\ guard[g].owner = t /\ guard[g].semaphore = s
                     /\ ~guard[g].panicking

\* As long as a thread unwinds, each semaphore of its mismatch is poisoned or
\* is going to be.
Unwinding ==
  \A t \in Threads :
    /\ thread[t] = "running" => mismatch[t] = {}
    /\ \A s \in mismatch[t] : counter[s] = POISON \/ WillPoison(t, s)

\* Nothing takes the poison out of a semaphore.
LEMMA PoisonStays ==
  ASSUME TypeOK, [Next]_vars, NEW s \in Semaphores, counter[s] = POISON
  PROVE  counter'[s] = POISON
<1>0. counter \in [Semaphores -> PermitCount]
  BY DEF TypeOK
<1>1. ASSUME NEW g \in Guards, NEW t \in Threads, NEW u \in Threads, NEW q \in Semaphores,
             NEW n \in Amounts, Acquire(g, t, u, q, n)
      PROVE  counter'[s] = POISON
  BY <1>0, <1>1 DEF Acquire
<1>2. ASSUME NEW g \in Live, NEW p \in BOOLEAN, DropGuard(g, p) PROVE counter'[s] = POISON
  <2>1. guard[g].amount \in Nat
    BY GuardFields, GuardAssumption DEF Live
  <2>2. AddPermits(counter[s], ToPermits(guard[g].amount)) = POISON
    BY <1>0, <2>1, PermitArithmetic
  <2> QED  BY <1>2, <2>2, DropGuardStep
<1>3. ASSUME NEW g \in Guards, Forget(g) \/ Drop(g) PROVE counter'[s] = POISON
  BY <1>2, <1>3 DEF Forget, Drop
<1>4. ASSUME NEW g \in Guards, NEW h \in Guards, ExtendMismatch(g, h) PROVE counter'[s] = POISON
  BY <1>2, <1>4 DEF ExtendMismatch
<1> QED  BY <1>1, <1>3, <1>4 DEF Next, vars, Construct, Extend, Split, Panic, Unwound

\* A guard that a panicking thread has stays until it is dropped, and then it
\* poisons.
LEMMA WillPoisonStep ==
  ASSUME TypeOK, [Next]_vars, NEW t \in Threads, NEW s \in Semaphores, WillPoison(t, s)
  PROVE  counter'[s] = POISON \/ WillPoison(t, s)'
<1>1. PICK k \in Live : /\ thread[t] = "panicking" /\ guard[k].owner = t
                        /\ guard[k].semaphore = s /\ ~guard[k].panicking
  BY DEF WillPoison
<1>0. k \in Guards /\ guard[k] # NoGuard /\ guard \in [Guards -> {NoGuard} \cup GuardRecord]
  BY DEF Live, TypeOK
<1>a. SUFFICES ASSUME counter'[s] # POISON
               PROVE  thread'[t] = "panicking" /\ guard'[k] = guard[k]
  BY <1>0, <1>1 DEF WillPoison, Live
<1>2. ASSUME NEW g \in Guards, NEW u \in Threads, NEW w \in Threads, NEW q \in Semaphores,
             NEW n \in Amounts \cup Constructed,
             Acquire(g, u, w, q, n) \/ Construct(g, u, w, q, n)
      PROVE  thread'[t] = "panicking" /\ guard'[k] = guard[k]
  <2>1. guard[g] = NoGuard /\ guard' = [guard EXCEPT ![g] = NewGuard(u, w, q, n)] /\ thread' = thread
    BY <1>2 DEF Acquire, Construct, Put
  <2> QED  BY <1>0, <1>1, <2>1
<1>3. ASSUME NEW g \in Guards, Forget(g) PROVE thread'[t] = "panicking" /\ guard'[k] = guard[k]
  BY <1>0, <1>1, <1>3 DEF Forget
<1>4. ASSUME NEW g \in Guards, Drop(g) PROVE thread'[t] = "panicking" /\ guard'[k] = guard[k]
  <2>1. g \in Live /\ DropGuard(g, thread[guard[g].owner] = "panicking") /\ thread' = thread
    BY <1>4 DEF Drop
  <2>2. guard' = [guard EXCEPT ![g] = NoGuard]
    BY <2>1, DropGuardStep
  <2>3. g # k
    <3> SUFFICES ASSUME g = k PROVE FALSE
      OBVIOUS
    <3>1. DropGuard(k, TRUE)
      BY <1>1, <2>1
    <3>2. Poisons(guard[k], TRUE)
      BY <1>1 DEF Poisons
    <3> QED  BY <1>1, <1>a, <3>1, <3>2, DropGuardStep
  <2> QED  BY <1>0, <1>1, <2>1, <2>2, <2>3
<1>5. ASSUME NEW g \in Guards, NEW h \in Guards, ExtendMismatch(g, h)
      PROVE  thread'[t] = "panicking" /\ guard'[k] = guard[k]
  <2>1. /\ h \in Live /\ DropGuard(h, TRUE) /\ guard[h].owner = guard[g].owner
        /\ thread[guard[g].owner] = "running"
        /\ thread' = [thread EXCEPT ![guard[g].owner] = "panicking"]
    BY <1>5 DEF ExtendMismatch
  <2>2. guard' = [guard EXCEPT ![h] = NoGuard]
    BY <2>1, DropGuardStep
  <2>3. h # k /\ guard[g].owner # t
    BY <1>1, <2>1
  <2> QED  BY <1>0, <1>1, <2>1, <2>2, <2>3 DEF TypeOK
<1>6. ASSUME NEW g \in Guards, NEW h \in Guards, Extend(g, h)
      PROVE  thread'[t] = "panicking" /\ guard'[k] = guard[k]
  <2>1. g # k /\ h # k /\ thread' = thread
    BY <1>1, <1>6 DEF Extend
  <2> QED  BY <1>0, <1>1, <1>6, <2>1 DEF Extend
<1>7. ASSUME NEW g \in Guards, NEW h \in Guards, NEW n \in Splits, Split(g, h, n)
      PROVE  thread'[t] = "panicking" /\ guard'[k] = guard[k]
  <2>1. g # k /\ h # k /\ thread' = thread
    BY <1>1, <1>7 DEF Split
  <2> QED  BY <1>0, <1>1, <1>7, <2>1 DEF Split
<1>8. ASSUME NEW u \in Threads, Panic(u) \/ Unwound(u)
      PROVE  thread'[t] = "panicking" /\ guard'[k] = guard[k]
  <2>1. Unwound(u) => u # t
    BY <1>0, <1>1 DEF Unwound, Owned
  <2> QED  BY <1>1, <1>8, <2>1 DEF Panic, Unwound, TypeOK
<1>9. CASE UNCHANGED vars
  BY <1>1, <1>9 DEF vars
<1> QED  BY <1>2, <1>3, <1>4, <1>5, <1>6, <1>7, <1>8, <1>9 DEF Next

\* A thread that begins to unwind for a mismatch owes both semaphores.
LEMMA MismatchStep ==
  ASSUME TypeOK, NEW g \in Guards, NEW h \in Guards, ExtendMismatch(g, h),
         NEW t, guard[g].owner = t, NEW s \in mismatch'[t]
  PROVE  counter'[s] = POISON \/ WillPoison(t, s)'
<1>1. /\ g \in Live /\ h \in Live /\ guard[h].owner = t /\ t \in Threads /\ g # h
      /\ DropGuard(h, TRUE) /\ thread' = [thread EXCEPT ![t] = "panicking"]
      /\ guard \in [Guards -> {NoGuard} \cup GuardRecord]
      /\ mismatch' = [mismatch EXCEPT ![t] = {guard[k].semaphore :
                                                k \in {j \in {g, h} : ~guard[j].panicking}}]
  BY GuardFields DEF ExtendMismatch, TypeOK
<1>2. PICK k \in {g, h} : ~guard[k].panicking /\ s = guard[k].semaphore
  <2>1. mismatch'[t] = {guard[k].semaphore : k \in {j \in {g, h} : ~guard[j].panicking}}
    BY <1>1 DEF TypeOK
  <2> QED  BY <2>1
<1>3. CASE k = h
  <2>1. Poisons(guard[h], TRUE)
    BY <1>2, <1>3 DEF Poisons
  <2> QED  BY <1>1, <1>2, <1>3, <2>1, DropGuardStep
<1>4. CASE k = g
  <2>1. guard' = [guard EXCEPT ![h] = NoGuard]
    BY <1>1, DropGuardStep
  <2>2. guard'[g] = guard[g] /\ guard[g] # NoGuard /\ thread'[t] = "panicking"
    BY <1>1, <2>1 DEF Live, TypeOK
  <2> QED  BY <1>2, <1>4, <2>2 DEF WillPoison, Live
<1> QED  BY <1>2, <1>3, <1>4

\* Every step keeps that debt.
LEMMA UnwindingStep == TypeOK /\ Unwinding /\ [Next]_vars => Unwinding'
<1> SUFFICES ASSUME TypeOK, Unwinding, [Next]_vars, NEW t \in Threads
             PROVE  /\ thread'[t] = "running" => mismatch'[t] = {}
                    /\ \A s \in mismatch'[t] : counter'[s] = POISON \/ WillPoison(t, s)'
  BY DEF Unwinding
<1>0. /\ thread \in [Threads -> {"running", "panicking", "dead"}]
      /\ mismatch \in [Threads -> SUBSET Semaphores]
  BY DEF TypeOK
<1>1. CASE mismatch'[t] = mismatch[t] /\ (thread'[t] = "running" => thread[t] = "running")
  <2>1. \A s \in mismatch[t] : s \in Semaphores /\ (counter[s] = POISON \/ WillPoison(t, s))
    BY <1>0 DEF Unwinding
  <2>2. \A s \in mismatch[t] : counter'[s] = POISON \/ WillPoison(t, s)'
    BY <2>1, PoisonStays, WillPoisonStep
  <2> QED  BY <1>1, <2>2 DEF Unwinding
<1>2. CASE \E g, h \in Guards : ExtendMismatch(g, h) /\ guard[g].owner = t
  <2>1. PICK g, h \in Guards : ExtendMismatch(g, h) /\ guard[g].owner = t
    BY <1>2
  <2>2. thread'[t] = "panicking"
    BY <1>0, <2>1 DEF ExtendMismatch
  <2> QED  BY <2>1, <2>2, MismatchStep
<1>3. ASSUME NEW g \in Guards, NEW h \in Guards, ExtendMismatch(g, h), guard[g].owner # t
      PROVE  mismatch'[t] = mismatch[t] /\ thread'[t] = thread[t]
  BY <1>0, <1>3 DEF ExtendMismatch
<1>4. ASSUME NEW u \in Threads, Panic(u) \/ Unwound(u)
      PROVE  mismatch'[t] = mismatch[t] /\ (thread'[t] = "running" => thread[t] = "running")
  BY <1>0, <1>4 DEF Panic, Unwound
<1> QED  BY <1>1, <1>2, <1>3, <1>4
         DEF Next, vars, Acquire, Construct, Forget, Drop, Extend, Split

\* extend of guards of two semaphores poisons both, once the panic of its
\* assertion has unwound the thread, whatever other threads do meanwhile.
THEOREM MismatchPoisonsBoth == Spec => []MismatchPoisons
<1>1. Init => TypeOK /\ Unwinding
  BY GuardAssumption, PermitArithmetic DEF Init, TypeOK, PermitCount, POISON, Unwinding
<1>2. Unwinding => MismatchPoisons
  BY DEF Unwinding, MismatchPoisons, WillPoison
<1> QED  BY <1>1, <1>2, TypeStep, UnwindingStep, PTL DEF Spec

=============================================================================
