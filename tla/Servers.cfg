SPECIFICATION FairSpec
CONSTANTS
  c1 = c1
  None = None
  Conns = {c1}
  Faults = TRUE
  Modes = {"auto"}
  Cids = {"host", "guest"}
INVARIANTS
  TypeOK
  DirsAsDocumented
  SocketRemoved
  HasWaker
  AckIsBacked
PROPERTIES
  StopIsNoError
  IPCComesUp
  IPCEnds
  AckIsHonoured
