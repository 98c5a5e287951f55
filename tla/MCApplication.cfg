CONSTANTS
  c1 = c1  c2 = c2  plain = plain  host = host  bad = bad  es = es  bare = bare  m = m
  NoStorage = NoStorage  Nothing = Nothing  Failed = Failed  Absent = Absent
  Deleted = Deleted  Cluster = Cluster  Foreign = Foreign  NoCR = NoCR
  Storages = {es, bare}  NumFiles = 3  Shared = {1}  Owned = {2}
  Metas = {m}
  Contents <- MCContents
  Template <- MCTemplate
  WithoutLogin <- MCWithoutLogin
  CRs = {c1, c2}
  Specs = {plain, host, bad}
  MaxEdits = 3
  MaxFaults = 1
SPECIFICATION FairSpec
INVARIANTS PassComplete Provenance
PROPERTIES ImplementsDesiredState NoRollback Converges Quiesces
CHECK_DEADLOCK FALSE
