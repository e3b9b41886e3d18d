\* Three threads write twice each.  Two units may be in the queue.  A read and a
\* write fit the pipe together, as in the test, whose Reader may have been cloned.
\* Four batches of three bytes are read in six of two.  Every future is dropped
\* while its task has an Arc of its own.
CONSTANTS
  MaxAvailable = 12
  Threads = 3
  Iterations = 2
  Examples = {"size", "guard", "forget"}
  Senders = {s1, s2, s3}
  Sizes = {1, 2}
  Messages = 1
  QueueCapacity = 2
  Readers = {r1, r2}
  Writers = {w1, w2}
  Capacity = 3
  Writes = 1
  ReadSizes = {0, 1, 2}
  WriteSizes = {2}
  Sends = 4
  Receives = 6
  Holders = {t1, t2}
  Guards = {g1, g2}
  KeepHandles = TRUE
SPECIFICATION Spec
INVARIANTS
  WriterExcludes
  Bounded
  ReadAssertion
  WithinCapacity
  DrainInRange
  AliveInCalls
  NoneLeaked
PROPERTIES
  EveryoneWrites
  SendsReturn
  EverythingRead
CHECK_DEADLOCK FALSE
