\* A cancelled acquire leaves its permit where try_acquire does not look.
CONSTANTS
  Tasks = {t1, t2}
  Null = Null
  MaxAvailable = 2
  Initial = 1
  Amounts = {1, 2}
  Releases = {}
  MaxSupply = 1
  ClientCalls = {"drop"}
SPECIFICATION Spec
INVARIANTS
  WouldBlockIsJustified
SYMMETRY Symmetry
