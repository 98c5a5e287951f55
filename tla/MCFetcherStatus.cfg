CONSTANTS
  MaxFetcherEdits = 4
  MaxFetcherFaults = 3
SPECIFICATION FetcherFairSpec
INVARIANTS ConditionWasTrue
PROPERTIES Recorded
