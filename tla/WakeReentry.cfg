\* Two tasks acquire one permit of two, or both one by one, and cancel; wakers make
\* any call but a drop.
CONSTANTS
  Tasks = {t1, t2}
  Null = Null
  MaxAvailable = 2
  Initial = 2
  Amounts = {1}
  Releases = {}
  MaxSupply = 2
  ClientCalls = {"drop"}
  DropsInWake = FALSE
SPECIFICATION ReentrantSpec
PROPERTIES
  CancelAccepted
  ServedWhenFree
  AcquireServed
  WakeReturns
