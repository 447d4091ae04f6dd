SPECIFICATION Spec
CONSTANTS
  k1 = k1
  k2 = k2
  k3 = k3
  t1 = t1
  t2 = t2
  bad = bad
  None = None
  Root = Root
  Calls = {k1, k2, k3, t1, t2}
  Inodes = {k1, k2, k3, t1, t2}
  Names <- FileNames
  Users <- TwoUsers
  KeysOf <- KeysOfUsers
  TmpOf <- TmpOfUsers
  UserOf <- UserOfCalls
  Key <- KeyOfCalls
  Careful = {"admin_user"}
  Faults = TRUE
INVARIANTS
  TypeOK
  OwnedByUser
PROPERTIES
  ImplementsStore
