CONSTANTS
  v1 = v1  v2 = v2  e1 = e1  e2 = e2  f1 = f1  f2 = f2  None = None
  NumServers = 2
  Specs = {v1, v2}
  Envs = {e1, e2}
  FileSets = {f1, f2}
  MaxEdits = 2
  MaxFaults = 1
SPECIFICATION MCFairSpec
INVARIANTS LabelIsHonest
PROPERTIES NoRevert EnvConverges ConfigMapConverges NoFight
