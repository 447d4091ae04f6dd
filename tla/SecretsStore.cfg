SPECIFICATION Spec
CONSTANTS
  k1 = k1
  k2 = k2
  k3 = k3
  t1 = t1
  t2 = t2
  bad = bad
  None = None
  Calls = {k1, k2, k3, t1, t2, bad}
  Inodes = {k1, k2, k3, t1, t2, bad}
  Names <- FileNames
  Secrets <- TwoSecrets
  Hidden <- TmpNames
  TmpOf <- TmpOfNames
  NameOf <- NameOfCalls
  Value <- ValueOfCalls
  Mode <- ModeOfCalls
  Careful = {"key"}
  Faults = TRUE
INVARIANTS
  TypeOK
  NoForeignPart
PROPERTIES
  ImplementsStore
