\* Two tasks make every call; acquires are of two permits, which come one by one,
\* a third in circulation is one too many, and three at once are.
CONSTANTS
  Tasks = {t1, t2}
  Null = Null
  MaxAvailable = 2
  Initial = 0
  Amounts = {2}
  Releases = {0, 1, 3}
  MaxSupply = 3
  ClientCalls = {"try_acquire", "drop", "forget", "panic", "poison"}
SPECIFICATION Spec
INVARIANTS
  RestInv
  NoPanic
  Conservation
  NoStuckWaiter
  WakeNotLost
PROPERTIES
  ImplementsContract
  PoisonIsPermanent
SYMMETRY Symmetry
