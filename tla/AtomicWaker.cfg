\* One future polled up to four times, against one producer.
CONSTANTS
  MaxPolls = 4
  SeqMod = 5
  Null = Null
SPECIFICATION FairSpec
INVARIANTS
  WakerInv
  NoTornWaker
  ConsumedOnce
  LatestWoken
  NodeNotTouched
  NoUnreachable
PROPERTIES
  ImplementsWaker
  DropReturns
CHECK_DEADLOCK FALSE
