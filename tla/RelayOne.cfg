CONSTANTS
  p1 = p1  q1 = q1  q2 = q2  L = L
  Idle = Idle  NoUnit = NoUnit  None = None
  Listener = L
  Publisher = {p1}
  Player = {q1}
  Thread <- MCThread1
  Csid = {0, 4, 6}
  MetaCsid = 4  MetaLen = 1
  Script <- MCScript
  MaxUnits = 7
  MaxLen = 2
  Env = {"block", "fail"}
  MaxTimeouts = 1
SPECIFICATION FairSpec
INVARIANTS TypeOK InOnePlace HandoffWhole CleanPassWhole
PROPERTY YieldsCpu
