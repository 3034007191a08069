\* What the server does: pool threads send as well.
CONSTANTS
  IO = IO
  w1 = w1
  Sender <- IOAndWorker
  MaxMessages = 2
SPECIFICATION FairSpec
PROPERTY AllSent
CHECK_DEADLOCK FALSE
