CONSTANTS
  a = a  b = b  i = i  j = j
  Conds = {a, b}
  Kinds <- AllKinds
  MaxReplicas = 1
  IPs = {i, j}
  MaxEdits = 2
  MaxFaults = 1
SPECIFICATION FairSpec
INVARIANTS NeverMixed
PROPERTIES Reported Quiet
