SPECIFICATION Spec
CONSTANTS
  k1 = k1
  k2 = k2
  k3 = k3
  t1 = t1
  t2 = t2
  bad = bad
  None = None
  Calls = {k2, k3}
  Inodes = {k2, k3}
  Names <- FileNames
  Secrets <- TwoSecrets
  Hidden <- TmpNames
  TmpOf <- TmpOfNames
  NameOf <- NameOfCalls
  Value <- ValueOfCalls
  Mode <- ModeOfCalls
  Careful = {"key", "cert"}
  Faults = TRUE
INVARIANTS
  ModeHonoured
