\* Two threads register one login.
CONSTANTS
  c1 = c1
  c2 = c2
  c3 = c3
  ann = ann
  obrien = obrien
  spliced = spliced
  p1 = p1
  p2 = p2
  quoted = quoted
  Conn = {c1, c2, c3}
  Login = {ann, obrien, spliced}
  Breaking = {obrien, quoted}
  Splicing = {spliced}
  Forged <- AnyId
  Password = {p1, p2, quoted}
  Unused = unused
  None = none
  Worker = {w1, w2}
  NoConn = NoConn
  NoRequest = NoRequest
  MayAsk <- OneName
  MaxRestarts = 1
  MayLeave = {}
  MayBreak = {}
SPECIFICATION Spec
SYMMETRY Symmetry
INVARIANT OneRowPerLogin
CHECK_DEADLOCK FALSE
