\* Two sign-ins, which may overlap, and two rooms.
CONSTANTS
  s1 = s1
  s2 = s2
  Attempt = {s1, s2}
  Room = {r1, r2}
  NoClient = NoClient
  NoRoom = NoRoom
  NoEvent = NoEvent
  MaxReceived <- ToSecond
  MaxTexts <- OneText
SPECIFICATION Spec
SYMMETRY Symmetry
INVARIANTS TypeOK ScreenAgrees ListAgrees SentWhereAsked AtMostTwice
CHECK_DEADLOCK FALSE
