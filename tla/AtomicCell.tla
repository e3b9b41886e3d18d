----------------------------- MODULE AtomicCell -----------------------------
(***************************************************************************)
(* What Atomic<T> (atomic.rs) promises to the modules above it, whatever T *)
(* is: a cell that holds a value of T and compares values of T.  Values    *)
(* that mean the same are one value, Norm(v).                              *)
(***************************************************************************)
CONSTANTS
  Types,       \* The types T of the cells.
  Values(_),   \* The values of a type.
  Norm(_)      \* The value that stands for all those with the meaning of v.

VARIABLES
  type,        \* T
  value,       \* What the cell holds.
  current,     \* The caller's copy, the argument `current` of an exchange.
  won          \* What the last exchange returned.

vars == <<type, value, current, won>>

Init ==
  /\ type \in Types
  /\ \E v \in Values(type) : value = Norm(v) /\ current = v
  /\ won = FALSE

Load == current' = value /\ UNCHANGED <<type, value, won>>

Store(v) == value' = Norm(v) /\ UNCHANGED <<type, current, won>>

Swap(v) == value' = Norm(v) /\ current' = value /\ UNCHANGED <<type, won>>

\* The caller makes up the value it expects.
Expect(v) == current' = v /\ UNCHANGED <<type, value, won>>

\* An exchange succeeds only on the expected value ...
Exchange(v) ==
  /\ value = Norm(current)
  /\ value' = Norm(v)
  /\ won' = TRUE
  /\ UNCHANGED <<type, current>>

\* ... and may fail on any, which tells the caller what the cell holds.
ExchangeFails == current' = value /\ won' = FALSE /\ UNCHANGED <<type, value>>

Next ==
  \/ Load \/ ExchangeFails
  \/ \E v \in Values(type) : Store(v) \/ Swap(v) \/ Expect(v) \/ Exchange(v)

Spec == Init /\ [][Next]_vars

=============================================================================
