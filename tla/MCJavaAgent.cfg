CONSTANTS
  p1 = p1  p2 = p2  o1 = o1  o2 = o2  a1 = a1  None = None
  Pods = {p1, p2}
  Owners = {o1, o2}
  Groups = {"app"}
  SwAgents = {a1}
  NumContainers = 2
  Matches <- MCMatches
  Fold <- MCFold
  Requests <- MCRequests
  Relabels <- MCRelabels
  SwSpecs <- MCSwSpecs
  MaxEdits = 3
  MaxFaults = 1
SPECIFICATION MCFairSpec
INVARIANTS AllOrNothing UserEnvKept NothingLeftToInject
PROPERTY CountersConverge
CHECK_DEADLOCK FALSE
