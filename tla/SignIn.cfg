\* Three requests, two threads, the server restarted once; one client may leave,
\* and one user may send a text that closes the database.
CONSTANTS
  c1 = c1
  c2 = c2
  c3 = c3
  ann = ann
  obrien = obrien
  spliced = spliced
  p1 = p1
  p2 = p2
  quoted = quoted
  Conn = {c1, c2, c3}
  Login = {ann, obrien, spliced}
  Breaking = {obrien, quoted}
  Splicing = {spliced}
  Forged <- AnyId
  Password = {p1, p2, quoted}
  Unused = unused
  None = none
  Worker = {w1, w2}
  NoConn = NoConn
  NoRequest = NoRequest
  MayAsk <- OneName
  MaxRestarts = 1
  MayLeave = {c1}
  MayBreak = {c2}
SPECIFICATION Spec
SYMMETRY Symmetry
INVARIANTS TypeOK SignedIn GrantedIsStored NotGivenAway NotTurnedAway StoredAsAsked
CHECK_DEADLOCK FALSE
