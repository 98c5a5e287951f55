CONSTANTS
  None = None  Nil = Nil  Nothing = Nothing  Panic = Panic  Garbage = Garbage
  Getters = {g}
  Listers = {l}
  Oaps <- MCOaps
  Infos <- MCInfos
  Readings <- MCReadings
  Hex <- MCHex
  Namespace = "ns"
  MaxChanges = 2
  MaxRestarts = 1
SPECIFICATION MCFairSpec
INVARIANTS Assembled
PROPERTIES ListIsSnapshot ImplementsRegistry GetExact Follows Answered
