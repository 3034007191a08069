\* Two clients, one with a longer session, and one thread.
CONSTANTS
  c1 = c1
  c2 = c2
  Conn = {c1, c2}
  Worker = {w1}
  Requests <- TwoSessions
  Damaged = Damaged
  Nothing = Nothing
  NoTask = NoTask
SPECIFICATION FairSpec
INVARIANTS TypeOK Listening
PROPERTIES ImplementsInbox AllPosted GoneIsClosed
CHECK_DEADLOCK FALSE
