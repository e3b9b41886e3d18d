\* A waker drops a pending acquire; bounded as the other instances of three tasks.
CONSTANTS
  Tasks = {t1, t2, t3}
  Null = Null
  MaxAvailable = 2
  Initial = 0
  Amounts = {1}
  Releases = {1}
  MaxSupply = 1
  ClientCalls = {"drop"}
  DropsInWake = TRUE
SPECIFICATION ReentrantSpec
CONSTRAINTS
  TwoCalls
  OneGuardEach
PROPERTIES
  CancelAccepted
CHECK_DEADLOCK FALSE
