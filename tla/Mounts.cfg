SPECIFICATION Spec
CONSTANTS
  r1 = r1
  r2 = r2
  r3 = r3
  s1 = s1
  s2 = s2
  Requests = {r1, r2, r3}
  Sweepers = {s1, s2}
  Paths <- NestedPaths
  PathOf <- PathOfRequests
  Below <- NestedBelow
INVARIANTS
  TypeOK
  OnlyRealMounts
  NoForgottenMount
  NestedFirst
  SweepInBounds
