SPECIFICATION FairSpec
CONSTANTS
  r1 = r1
  r2 = r2
  s1 = s1
  s2 = s2
  Agents <- NoAgents
  Shutdowns = {s1}
  Requests = {r1, r2}
  Paths <- NestedPaths
  PathOf <- PathOfRequests
  Below <- NestedBelow
  Serial = TRUE
  Faults = FALSE
  Hanging = {}
  Mode = "systemctl"
CHECK_DEADLOCK FALSE
INVARIANT CleanPowerOff
PROPERTY ShutdownPowersOff
