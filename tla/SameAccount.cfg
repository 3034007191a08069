SPECIFICATION Spec
CONSTANTS
  c1 = c1
  c2 = c2
  Conn = {c1, c2}
  Room = {r1}
  Worker = {w1, w2}
  Account = {1, 2}
  AccountOf <- OneUser
  Garbage = {0}
  Saved <- NoneSaved
  Quoted <- NoQuotes
  IO = IO
  NoConn = NoConn
  NoRoom = NoRoom
  NoTask = NoTask
  NoId = NoId
  MaxJoins <- OneEach
  MaxTexts <- NoneEach
  MayFail = {}
  MayLeave = {}
SYMMETRY Symmetry
CHECK_DEADLOCK FALSE
INVARIANT InRoom
