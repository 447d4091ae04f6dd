SPECIFICATION FairSpec
CONSTANTS
  c1 = c1
  c2 = c2
  None = None
  Conns = {c1, c2}
  Says <- SaysWhat
  MaxLines <- LinesSent
  Content <- ContentOf
  Leftovers <- Remains
  Kinds = {"tcp", "vsock"}
  Deaf = {c2}
  Faults = TRUE
INVARIANTS
  TypeOK
  ServeWaits
  ConfigAsAcked
  IdleHasAnswered
PROPERTIES
  ServeEnds
  EveryMessageAnswered
  ImplementsDialogue
CHECK_DEADLOCK FALSE
