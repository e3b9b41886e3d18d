-------------------------- MODULE PackedWordProofs --------------------------
(***************************************************************************)
(* Theorems about PackedWord, for any MaxAvailable.                        *)
(***************************************************************************)
EXTENDS PackedWord, TLAPS

\* Shifts of what fits lose nothing; the first sequence number that does not
\* fit loses its only bit.
LEMMA Shifts ==
  /\ \A n \in 0 .. MaxAvailable : Shl(n, 8) = 8 * n /\ Shl(n, 2) = 2 * n
  /\ Shl(MaxAvailable + 1, 8) = 0
<1>1. Modulus \in Nat \ {0} /\ \A x \in 0 .. Modulus - 1 : x % Modulus = x
  BY MaxAvailableAssumption DEF Modulus
<1>2. ASSUME NEW n \in 0 .. MaxAvailable PROVE Shl(n, 8) = 8 * n /\ Shl(n, 2) = 2 * n
  <2>1. n * 8 \in 0 .. Modulus - 1 /\ n * 2 \in 0 .. Modulus - 1
    BY MaxAvailableAssumption DEF Modulus
  <2>2. QED
    BY <1>1, <2>1 DEF Shl
<1>3. Shl(MaxAvailable + 1, 8) = Modulus % Modulus
  BY MaxAvailableAssumption DEF Shl, Modulus
<1>4. QED
  BY <1>1, <1>2, <1>3

\* What is encoded is decoded to what it means.
LEMMA ReleaseRoundTrip ==
  ASSUME NEW v \in ReleaseValue
  PROVE  /\ EncodeRelease(v) \in Usize /\ EncodeRelease(v) % 8 <= 4
         /\ DecodeRelease(EncodeRelease(v)) = Norm(v)
         /\ Norm(v) \in ReleaseValue /\ EncodeRelease(Norm(v)) = EncodeRelease(v)
<1> USE MaxAvailableAssumption, Shifts DEF Usize, UsizeMax, Modulus, Poisoned
<1>1. CASE v.tag = "Locked"
  <2>1. v = [tag |-> "Locked", n |-> 0]
    BY <1>1 DEF ReleaseValue
  <2>2. EncodeRelease(v) = 0 /\ Norm(v) = v
    BY <2>1 DEF EncodeRelease, Norm
  <2>3. QED
    BY <2>1, <2>2 DEF DecodeRelease, ReleaseValue
<1>2. CASE v.tag \in {"Unlocked", "LockedDirty"} /\ v.n > MaxAvailable
  <2>1. v \in [tag: {"Unlocked", "LockedDirty"}, n: Usize]
    BY <1>2 DEF ReleaseValue
  <2>2. Norm(v) = [v EXCEPT !.n = UsizeMax]
    BY <1>2 DEF Norm
  <2>3. Norm(v) = [tag |-> v.tag, n |-> UsizeMax]
    BY <2>1, <2>2
  <2>4. EncodeRelease(v) = IF v.tag = "Unlocked" THEN 1 ELSE 3
    BY <1>2 DEF EncodeRelease
  <2>5. QED
    BY <1>2, <2>1, <2>3, <2>4 DEF EncodeRelease, DecodeRelease, ReleaseValue
<1>3. CASE v.tag \in {"Unlocked", "LockedDirty"} /\ ~(v.n > MaxAvailable)
  <2>1. v \in [tag: {"Unlocked", "LockedDirty"}, n: Usize] /\ v.n \in 0 .. MaxAvailable
    BY <1>3 DEF ReleaseValue
  <2>2. Norm(v) = v
    BY <1>3 DEF Norm
  <2>3. EncodeRelease(v) = IF v.tag = "Unlocked" THEN 8 * v.n + 2 ELSE 8 * v.n + 4
    BY <1>3, <2>1 DEF EncodeRelease
  <2>4. /\ (8 * v.n + 2) % 8 = 2 /\ (8 * v.n + 2) \div 8 = v.n
        /\ (8 * v.n + 4) % 8 = 4 /\ (8 * v.n + 4) \div 8 = v.n
    BY <2>1
  <2>5. v = [tag |-> v.tag, n |-> v.n]
    BY <2>1
  <2>6. QED
    BY <1>3, <2>1, <2>2, <2>3, <2>4, <2>5 DEF DecodeRelease
<1>4. QED
  BY <1>1, <1>2, <1>3 DEF ReleaseValue

\* ... and an AcquireState, whose Queued keeps a pointer beside its mark.
LEMMA AcquireRoundTrip ==
  ASSUME NEW v \in AcquireValue
  PROVE  /\ EncodeAcquire(v) \in Usize
         /\ DecodeAcquire(EncodeAcquire(v)) = Norm(v)
         /\ Norm(v) \in AcquireValue /\ EncodeAcquire(Norm(v)) = EncodeAcquire(v)
<1> USE MaxAvailableAssumption, Shifts DEF Usize, UsizeMax, Modulus, Poisoned
<1>1. CASE v.tag = "Queued"
  <2>1. v \in [tag: {"Queued"}, n: {b \in Usize : b % 2 = 0}] /\ v = [tag |-> "Queued", n |-> v.n]
    BY <1>1 DEF AcquireValue
  <2>2. EncodeAcquire(v) = v.n /\ Norm(v) = v
    BY <1>1 DEF EncodeAcquire, Norm
  <2>3. QED
    BY <2>1, <2>2 DEF DecodeAcquire, AcquireValue
<1>2. CASE v.tag = "Available" /\ v.n > MaxAvailable
  <2>1. v \in [tag: {"Available"}, n: Usize]
    BY <1>2 DEF AcquireValue
  <2>2. Norm(v) = [tag |-> "Available", n |-> UsizeMax]
    BY <1>2, <2>1 DEF Norm
  <2>3. EncodeAcquire(v) = UsizeMax /\ UsizeMax % 2 = 1
    BY <1>2 DEF EncodeAcquire
  <2>4. QED
    BY <1>2, <2>1, <2>2, <2>3 DEF EncodeAcquire, DecodeAcquire, AcquireValue
<1>3. CASE v.tag = "Available" /\ ~(v.n > MaxAvailable)
  <2>1. v.n \in 0 .. MaxAvailable /\ v = [tag |-> "Available", n |-> v.n]
    BY <1>3 DEF AcquireValue
  <2>2. Norm(v) = v
    BY <1>3 DEF Norm
  <2>3. EncodeAcquire(v) = 2 * v.n + 1
    BY <1>3, <2>1 DEF EncodeAcquire
  <2>4. (2 * v.n + 1) % 2 = 1 /\ (2 * v.n + 1) \div 2 = v.n /\ 2 * v.n + 1 < UsizeMax
    BY <2>1
  <2>5. QED
    BY <1>3, <2>1, <2>2, <2>3, <2>4 DEF DecodeAcquire
<1>4. QED
  BY <1>1, <1>2, <1>3 DEF AcquireValue

\* ... and a state of AtomicWaker in its usize.
LEMMA WakerRoundTrip ==
  ASSUME NEW v \in WakerValue
  PROVE  /\ EncodeWaker(v) \in Usize /\ EncodeWaker(v) % 8 <= 5
         /\ DecodeWaker(EncodeWaker(v)) = Norm(v)
         /\ Norm(v) \in WakerValue /\ EncodeWaker(Norm(v)) = EncodeWaker(v)
<1> USE MaxAvailableAssumption, Shifts DEF Usize, UsizeMax, Modulus
<1>1. CASE v.tag \in {"Finished", "Poisoned", "Cancelling", "Cancelled"}
  <2>1. v = [tag |-> v.tag, n |-> 0]
    BY <1>1 DEF WakerValue
  <2>2. Norm(v) = v
    BY <1>1 DEF Norm
  <2>3. QED
    BY <1>1, <2>1, <2>2 DEF EncodeWaker, DecodeWaker
<1>2. CASE v.tag \in {"Pending", "Storing"} /\ v.n = MaxAvailable + 1
  <2>1. v = [tag |-> v.tag, n |-> MaxAvailable + 1]
    BY <1>2 DEF WakerValue
  <2>2. Norm(v) = [tag |-> v.tag, n |-> 0]
    BY <1>2, <2>1 DEF Norm
  <2>3. EncodeWaker(v) = IF v.tag = "Pending" THEN 0 ELSE 1
    BY <1>2 DEF EncodeWaker
  <2>4. Shl(0, 8) = 0
    OBVIOUS
  <2>5. EncodeWaker(Norm(v)) = EncodeWaker(v)
    BY <1>2, <2>2, <2>3, <2>4 DEF EncodeWaker
  <2>6. DecodeWaker(EncodeWaker(v)) = Norm(v)
    BY <1>2, <2>2, <2>3 DEF DecodeWaker
  <2>7. Norm(v) \in WakerValue
    BY <1>2, <2>2 DEF WakerValue
  <2>8. EncodeWaker(v) \in Usize /\ EncodeWaker(v) % 8 <= 5
    BY <2>3
  <2>9. QED
    BY <2>5, <2>6, <2>7, <2>8
<1>3. CASE v.tag \in {"Pending", "Storing"} /\ v.n # MaxAvailable + 1
  <2>1. v.n \in 0 .. MaxAvailable /\ v = [tag |-> v.tag, n |-> v.n]
    BY <1>3 DEF WakerValue
  <2>2. Norm(v) = v
    BY <1>3 DEF Norm
  <2>3. EncodeWaker(v) = IF v.tag = "Pending" THEN 8 * v.n ELSE 8 * v.n + 1
    BY <1>3, <2>1 DEF EncodeWaker
  <2>4. /\ (8 * v.n) % 8 = 0 /\ (8 * v.n) \div 8 = v.n
        /\ (8 * v.n + 1) % 8 = 1 /\ (8 * v.n + 1) \div 8 = v.n
    BY <2>1
  <2>5. QED
    BY <1>3, <2>1, <2>2, <2>3, <2>4 DEF DecodeWaker
<1>4. QED
  BY <1>1, <1>2, <1>3 DEF WakerValue

\* The three types together.
LEMMA RoundTrip ==
  ASSUME NEW t \in Types, NEW v \in Values(t)
  PROVE  /\ Encode(t, v) \in Usize /\ Decodable(t, Encode(t, v))
         /\ Decode(t, Encode(t, v)) = Norm(v)
         /\ Norm(v) \in Values(t) /\ Encode(t, Norm(v)) = Encode(t, v)
<1>1. CASE t = "ReleaseState"
  <2>1. v \in ReleaseValue
    BY <1>1 DEF Values
  <2>2. QED
    BY <1>1, <2>1, ReleaseRoundTrip DEF Values, Encode, Decode, Decodable
<1>2. CASE t = "AcquireState"
  <2>1. v \in AcquireValue
    BY <1>2 DEF Values
  <2>2. QED
    BY <1>2, <2>1, AcquireRoundTrip DEF Values, Encode, Decode, Decodable
<1>3. CASE t = "State"
  <2>1. v \in WakerValue
    BY <1>3 DEF Values
  <2>2. QED
    BY <1>3, <2>1, WakerRoundTrip DEF Values, Encode, Decode, Decodable
<1>4. QED
  BY <1>1, <1>2, <1>3 DEF Types

\* The inductive invariant: the word is the encoding of some value.
Encoded == type \in Types /\ won \in BOOLEAN /\ current \in Values(type)
           /\ \E v \in Values(type) : word = Encode(type, v)

\* Every exchange writes what some state is packed into.
LEMMA EncodedStep == Encoded /\ [Next]_vars => Encoded'
<1> SUFFICES ASSUME Encoded, [Next]_vars PROVE Encoded'
  OBVIOUS
<1>1. Decode(type, word) \in Values(type)
  BY RoundTrip DEF Encoded
<1>2. CASE Load
  BY <1>1, <1>2 DEF Load, Encoded
<1>3. CASE ExchangeFails
  BY <1>1, <1>3 DEF ExchangeFails, Encoded
<1>4. ASSUME NEW v \in Values(type), Store(v) PROVE Encoded'
  BY <1>4 DEF Store, Encoded
<1>5. ASSUME NEW v \in Values(type), Swap(v) PROVE Encoded'
  BY <1>1, <1>5 DEF Swap, Encoded
<1>6. ASSUME NEW v \in Values(type), Expect(v) PROVE Encoded'
  BY <1>6 DEF Expect, Encoded
<1>7. ASSUME NEW v \in Values(type), Exchange(v) PROVE Encoded'
  BY <1>7 DEF Exchange, Encoded
<1>8. CASE UNCHANGED vars
  BY <1>8 DEF vars, Encoded
<1>9. QED
  BY <1>2, <1>3, <1>4, <1>5, <1>6, <1>7, <1>8 DEF Next

\* So no word ever holds anything else.
LEMMA EncodedInvariant == Spec => []Encoded
<1>1. Init => Encoded
  BY DEF Init, Encoded
<1>2. QED
  BY <1>1, EncodedStep, PTL DEF Spec

\* No operation finds a word that decode() has no arm for, and an exchange that
\* expects what was read last compares with the word that is there.
THEOREM WordsReadBack == Spec => []PackedInv
<1>1. Encoded => PackedInv
  <2> SUFFICES ASSUME Encoded PROVE PackedInv
    OBVIOUS
  <2>1. PICK v \in Values(type) : word = Encode(type, v)
    BY DEF Encoded
  <2>2. QED
    BY <2>1, RoundTrip DEF Encoded, PackedInv, TypeOK, ReadsBack
<1>2. QED
  BY <1>1, EncodedInvariant, PTL

\* Atomic<T> over the packed words is a cell over the values: each operation on
\* the word is the operation of the same name on the value it stands for.
THEOREM CellImplemented == Spec => CellSpec
<1>1. Init => Cell!Init
  BY RoundTrip DEF Init, Cell!Init
<1>2. ASSUME Encoded, [Next]_vars PROVE [Cell!Next]_(Cell!vars)
  <2> USE <1>2 DEF Encoded
  <2>1. CASE Load
    BY <2>1 DEF Load, Cell!Next, Cell!Load
  <2>2. CASE ExchangeFails
    BY <2>2 DEF ExchangeFails, Cell!Next, Cell!ExchangeFails
  <2>3. ASSUME NEW v \in Values(type), Store(v) PROVE Cell!Next
    BY <2>3, RoundTrip DEF Store, Cell!Next, Cell!Store
  <2>4. ASSUME NEW v \in Values(type), Swap(v) PROVE Cell!Next
    BY <2>4, RoundTrip DEF Swap, Cell!Next, Cell!Swap
  <2>5. ASSUME NEW v \in Values(type), Expect(v) PROVE Cell!Next
    BY <2>5 DEF Expect, Cell!Next, Cell!Expect
  <2>6. ASSUME NEW v \in Values(type), Exchange(v) PROVE Cell!Next
    <3>1. Decode(type, word) = Norm(current)
      BY <2>6, RoundTrip DEF Exchange
    <3>2. Decode(type, word)' = Norm(v)
      BY <2>6, RoundTrip DEF Exchange
    <3>3. QED
      BY <2>6, <3>1, <3>2 DEF Exchange, Cell!Next, Cell!Exchange
  <2>7. CASE UNCHANGED vars
    BY <2>7 DEF vars, Cell!vars
  <2>8. QED
    BY <2>1, <2>2, <2>3, <2>4, <2>5, <2>6, <2>7 DEF Next
<1>3. QED
  BY <1>1, <1>2, EncodedInvariant, PTL DEF Spec, CellSpec, Cell!Spec

=============================================================================
