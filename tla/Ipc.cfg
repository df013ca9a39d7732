SPECIFICATION FairSpec
CONSTANTS
  c1 = c1
  c2 = c2
  Callers = {c1, c2}
  Main = Main
  Io = Io
  MaxConn = 2
INVARIANTS CallbackOnce NothingForgotten EncodingAgrees
PROPERTY EveryCallEnds
CHECK_DEADLOCK FALSE
