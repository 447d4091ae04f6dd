SPECIFICATION FairSpec
CONSTANTS
  a1 = a1
  a2 = a2
  s1 = s1
  s2 = s2
  Agents = {a1}
  Shutdowns = {s1}
  SetsSender = FALSE
PROPERTY HostIsTold
