\* Three guards of two semaphores, sent between two threads that panic; a usize
\* has four bits, and one guard may have all that fits.
CONSTANTS
  Semaphores = {s1, s2}
  Threads = {t1, t2}
  Guards = {g1, g2, g3}
  NoGuard = NoGuard
  Initial = 1
  MaxAvailable = 1
  UsizeMax = 15
  Amounts = {1}
  Constructed = {15}
  Splits = {8, 14}
  MaxSupply = 17
SPECIFICATION Spec
INVARIANTS
  TypeOK
  Conserved
  MismatchPoisons
SYMMETRY Symmetry
CHECK_DEADLOCK FALSE
