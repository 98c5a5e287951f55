CONSTANTS
  k1 = k1  k2 = k2  k3 = k3  o1 = o1  o2 = o2  r1 = r1  None = None
  Configs = {k1, k2}
  Others = {o1, o2}
  Reports = {r1}
  MaxEdits = 3
  MaxFaults = 0
SPECIFICATION MCPatientSpec
PROPERTIES Configured
