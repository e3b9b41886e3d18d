\* Three tasks take turns with one permit, and give it back before they ask again.
CONSTANTS
  Tasks = {t1, t2, t3}
  Null = Null
  MaxAvailable = 2
  Initial = 1
  Amounts = {1}
  Releases = {}
  MaxSupply = 1
  ClientCalls = {}
SPECIFICATION FairSpec
CONSTRAINT OneGuardEach
INVARIANTS
  IntoInnerSucceeds
PROPERTIES
  FutureReturns
