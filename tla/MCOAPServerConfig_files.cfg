CONSTANTS
  v1 = v1  v2 = v2  e1 = e1  e2 = e2  f1 = f1  f2 = f2  None = None
  NumServers = 1
  Specs = {v1, v2}
  Envs = {e1}
  FileSets = {f1}
  MaxEdits = 1
  MaxFaults = 0
SPECIFICATION FairSpec
PROPERTIES FilesMounted
