\* The network thread and a pool thread send on one connection, three messages each.
CONSTANTS
  IO = IO
  w1 = w1
  Sender <- IOAndWorker
  MaxMessages = 3
SPECIFICATION Spec
INVARIANT OnlyReliersLeft
CHECK_DEADLOCK FALSE
