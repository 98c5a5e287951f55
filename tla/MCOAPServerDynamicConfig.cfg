CONSTANTS
  a = a  ab = ab  x = x  y = y  l1 = l1  l2 = l2  v1 = v1  v2 = v2  None = None
  CRs = {a, ab}
  Contains <- MCContains
  Datas = {x, y}
  Names <- MCNames
  Labels = {l1, l2}
  Selectors <- MCSelectors
  Submissions <- MCSubmissions
  Versions = {v1, v2}
  MaxServers = 2
  MaxEdits = 2
  MaxFaults = 1
SPECIFICATION FairSpec
PROPERTIES NoNewDuplicate Installed StateReported
CHECK_DEADLOCK FALSE
