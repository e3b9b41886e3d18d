\* Three tasks queue for one permit or for both, cancel and give them back; the
\* bounds on who does so at the same time are those of ThreeTasks.
CONSTANTS
  Tasks = {t1, t2, t3}
  Null = Null
  MaxAvailable = 2
  Initial = 2
  Amounts = {1, 2}
  Releases = {}
  MaxSupply = 2
  ClientCalls = {"drop"}
SPECIFICATION Spec
CONSTRAINT ThreeTasks
INVARIANTS
  QueueShape
  NoStuckCancel
PROPERTIES
  FirstInFirstOut
  ImplementsContract
SYMMETRY Symmetry
