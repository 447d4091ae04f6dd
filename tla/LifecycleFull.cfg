SPECIFICATION FairSpec
CONSTANTS
  a1 = a1
  a2 = a2
  s1 = s1
  s2 = s2
  Agents = {a1, a2}
  Shutdowns = {s1, s2}
  SetsSender = TRUE
INVARIANT TypeOK
PROPERTIES
  ShutdownIsFinal
  HealthyIsBacked
  ImplementsContract
  CacheConverges
  HealthyWhenRunning
  StopIsHonoured
