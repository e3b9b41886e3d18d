\* The Arc in the future may be the last one.
CONSTANTS
  Tasks = {t1, t2}
  Guards = {g1, g2}
  KeepHandles = FALSE
SPECIFICATION Spec
INVARIANTS
  AliveInCalls
CHECK_DEADLOCK FALSE
