----------------------------- MODULE PackedWord -----------------------------
(***************************************************************************)
(* Atomic<T> (atomic.rs) for the three types that are packed into a usize: *)
(* ReleaseState and AcquireState (state.rs) and the waker's State          *)
(* (waker.rs).  Module Semaphore reads and exchanges tagged values; here   *)
(* the cell holds a number, an exchange compares numbers, and shifts lose  *)
(* the bits that do not fit.                                               *)
(***************************************************************************)
EXTENDS Integers

CONSTANT MaxAvailable   \* Semaphore::MAX_AVAILABLE, 2^61 - 1 in the code.

ASSUME MaxAvailableAssumption == MaxAvailable \in Nat \ {0}

\* MAX_AVAILABLE leaves three bits of a usize free.
Modulus  == 8 * (MaxAvailable + 1)
UsizeMax == Modulus - 1
Usize    == 0 .. UsizeMax

Shl(x, factor) == (x * factor) % Modulus

\* A permit counter is any usize; the poisoned ones mean the same.
Poisoned(p) == p > MaxAvailable

ReleaseValue ==
  [tag: {"Locked"}, n: {0}] \cup [tag: {"Unlocked", "LockedDirty"}, n: Usize]

\* repr(align(2)): the address of a Waiter is even, and so is null.
AcquireValue ==
  [tag: {"Queued"}, n: {b \in Usize : b % 2 = 0}] \cup [tag: {"Available"}, n: Usize]

\* A poll stores the number it read, which fits, or the next one.
WakerValue ==
  [tag: {"Pending", "Storing"}, n: 0 .. MaxAvailable + 1]
  \cup [tag: {"Finished", "Poisoned", "Cancelling", "Cancelled"}, n: {0}]

Types == {"ReleaseState", "AcquireState", "State"}

Values(t) ==
  CASE t = "ReleaseState" -> ReleaseValue
    [] t = "AcquireState" -> AcquireValue
    [] t = "State"        -> WakerValue

\* Permits::new and Permits::poison, and the number that does not fit.
Norm(v) ==
  CASE v.tag \in {"Unlocked", "LockedDirty", "Available"} /\ Poisoned(v.n) -> [v EXCEPT !.n = UsizeMax]
    [] v.tag \in {"Pending", "Storing"} /\ v.n = MaxAvailable + 1 -> [v EXCEPT !.n = 0]
    [] OTHER -> v

-----------------------------------------------------------------------------
(* Packable::encode and Packable::decode *)

\* A mutant of EncodeRelease: all poisoned states share a word.
EncodeReleaseShared(v) ==
  CASE v.tag = "Locked"      -> 0
    [] v.tag = "Unlocked"    -> IF Poisoned(v.n) THEN 1 ELSE Shl(v.n, 8) + 2
    [] v.tag = "LockedDirty" -> IF Poisoned(v.n) THEN 1 ELSE Shl(v.n, 8) + 4

EncodeRelease(v) ==
  CASE v.tag = "Locked"      -> 0
    [] v.tag = "Unlocked"    -> IF Poisoned(v.n) THEN 1 ELSE Shl(v.n, 8) + 2
    [] v.tag = "LockedDirty" -> IF Poisoned(v.n) THEN 3 ELSE Shl(v.n, 8) + 4

\* A mutant of DecodeRelease: the poisoned words are read as counts.
DecodeReleaseCount(w) ==
  CASE w % 8 = 0        -> [tag |-> "Locked", n |-> 0]
    [] w % 8 \in {1, 2} -> [tag |-> "Unlocked", n |-> w \div 8]
    [] w % 8 \in {3, 4} -> [tag |-> "LockedDirty", n |-> w \div 8]

DecodeRelease(w) ==
  CASE w % 8 = 0 -> [tag |-> "Locked", n |-> 0]
    [] w % 8 = 1 -> [tag |-> "Unlocked", n |-> UsizeMax]
    [] w % 8 = 2 -> [tag |-> "Unlocked", n |-> w \div 8]
    [] w % 8 = 3 -> [tag |-> "LockedDirty", n |-> UsizeMax]
    [] w % 8 = 4 -> [tag |-> "LockedDirty", n |-> w \div 8]

EncodeAcquire(v) ==
  CASE v.tag = "Queued"    -> v.n
    [] v.tag = "Available" -> IF Poisoned(v.n) THEN UsizeMax ELSE Shl(v.n, 2) + 1

DecodeAcquire(w) ==
  IF w % 2 = 1
  THEN [tag |-> "Available", n |-> IF w = UsizeMax THEN UsizeMax ELSE w \div 2]
  ELSE [tag |-> "Queued", n |-> w]

EncodeWaker(v) ==
  CASE v.tag = "Pending"    -> Shl(v.n, 8)
    [] v.tag = "Storing"    -> Shl(v.n, 8) + 1
    [] v.tag = "Finished"   -> 2
    [] v.tag = "Poisoned"   -> 3
    [] v.tag = "Cancelling" -> 4
    [] v.tag = "Cancelled"  -> 5

DecodeWaker(w) ==
  CASE w % 8 = 0 -> [tag |-> "Pending", n |-> w \div 8]
    [] w % 8 = 1 -> [tag |-> "Storing", n |-> w \div 8]
    [] w % 8 = 2 -> [tag |-> "Finished", n |-> 0]
    [] w % 8 = 3 -> [tag |-> "Poisoned", n |-> 0]
    [] w % 8 = 4 -> [tag |-> "Cancelling", n |-> 0]
    [] w % 8 = 5 -> [tag |-> "Cancelled", n |-> 0]

\* The words decode() has an arm for.
Decodable(t, w) ==
  \/ t = "ReleaseState" /\ w % 8 <= 4
  \/ t = "AcquireState"
  \/ t = "State" /\ w % 8 <= 5

Encode(t, v) ==
  CASE t = "ReleaseState" -> EncodeRelease(v)
    [] t = "AcquireState" -> EncodeAcquire(v)
    [] t = "State"        -> EncodeWaker(v)

Decode(t, w) ==
  CASE t = "ReleaseState" -> DecodeRelease(w)
    [] t = "AcquireState" -> DecodeAcquire(w)
    [] t = "State"        -> DecodeWaker(w)

-----------------------------------------------------------------------------
(* Atomic<T> *)

VARIABLES
  type,      \* T
  word,      \* The AtomicUsize.
  current,   \* The caller's copy, the argument `current` of an exchange.
  won        \* What the last exchange returned.

vars == <<type, word, current, won>>

Init ==
  /\ type \in Types
  /\ \E v \in Values(type) : word = Encode(type, v) /\ current = v
  /\ won = FALSE

Load == current' = Decode(type, word) /\ UNCHANGED <<type, word, won>>

Store(v) == word' = Encode(type, v) /\ UNCHANGED <<type, current, won>>

Swap(v) ==
  /\ word' = Encode(type, v)
  /\ current' = Decode(type, word)
  /\ UNCHANGED <<type, won>>

\* The caller makes up the value it expects, as poll does with Storing.
Expect(v) == current' = v /\ UNCHANGED <<type, word, won>>

\* cmpxchg_weak_acqrel: compare_exchange_weak on the words succeeds ...
Exchange(v) ==
  /\ word = Encode(type, current)
  /\ word' = Encode(type, v)
  /\ won' = TRUE
  /\ UNCHANGED <<type, current>>

\* ... or fails, perhaps for no reason.
ExchangeFails ==
  /\ current' = Decode(type, word)
  /\ won' = FALSE
  /\ UNCHANGED <<type, word>>

Next ==
  \/ Load \/ ExchangeFails
  \/ \E v \in Values(type) : Store(v) \/ Swap(v) \/ Expect(v) \/ Exchange(v)

Spec == Init /\ [][Next]_vars

-----------------------------------------------------------------------------
TypeOK ==
  /\ type \in Types
  /\ word \in Usize
  /\ current \in Values(type)
  /\ won \in BOOLEAN

\* The word always has an arm in decode(), whose last arm is unreachable!, and
\* encodes to itself again: an exchange that expects what it just read can
\* succeed, so that no loop of the code turns for ever on a word nobody changes.
ReadsBack == Decodable(type, word) /\ Encode(type, Decode(type, word)) = word

PackedInv == TypeOK /\ ReadsBack

\* The packed word implements the cell that the rest of the code believes in:
\* what is read is what was written, and words are equal only for equal values.
Cell == INSTANCE AtomicCell WITH value <- Decode(type, word)

CellSpec == Cell!Spec

=============================================================================
