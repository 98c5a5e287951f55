CONSTANTS
  a = a  u1 = u1  u2 = u2  None = None
  CRs = {a}
  Creds = {u1, u2}
  Submissions <- MCSubmissions
  MaxKeys = 4
  MaxEdits = 3
  MaxFaults = 1
SPECIFICATION FairSpec
INVARIANTS CertFitsKey 
PROPERTIES KeepsValid Issued  ReadyReported
CHECK_DEADLOCK FALSE
