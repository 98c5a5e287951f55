CONSTANTS
  k1 = k1  k2 = k2  k3 = k3  o1 = o1  o2 = o2  r1 = r1  None = None
  Configs = {k1, k2, k3}
  Others = {o1, o2}
  Reports = {r1}
  MaxEdits = 3
  MaxFaults = 2
SPECIFICATION MCFairSpec
INVARIANTS MountedExists OneConfigMapAtRest
PROPERTIES ConfiguredUndisturbed
