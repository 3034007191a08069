SPECIFICATION Spec
CONSTANTS
  c1 = c1
  c2 = c2
  Conn = {c1, c2}
  Room = {r1, r2}
  Worker = {w1, w2}
  Account = {1, 2}
  AccountOf <- TwoUsers
  Garbage = {0}
  Saved <- NoneSaved
  Quoted <- NoQuotes
  IO = IO
  NoConn = NoConn
  NoRoom = NoRoom
  NoTask = NoTask
  NoId = NoId
  MaxJoins <- TwoAndNone
  MaxTexts <- NoneEach
  MayFail = {}
  MayLeave = {c1}
SYMMETRY RoomSymmetry
CHECK_DEADLOCK FALSE
INVARIANT AnsweredExit
