\* Messages of one unit or of three, in a queue of two.
CONSTANTS
  MaxAvailable = 12
  Examples = {"size"}
  Senders = {s1}
  Sizes = {1, 3}
  Messages = 2
  Capacity = 2
SPECIFICATION FairSpec
PROPERTIES
  SendsReturn
CHECK_DEADLOCK FALSE
