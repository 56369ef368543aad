SPECIFICATION FairLoadSpec
CONSTANTS
  Files <- MCFiles
  BlockLen = 3
  Second = 6
  Rates <- MCRates
  MaxTime = 8
  MaxSends = 5
  Setups <- MCSetups
  Capacity = 1
  MaxRequests = 5
INVARIANTS LoadTypeOK RowsExact AskedInRounds Paced
PROPERTY LoadEnds
CHECK_DEADLOCK FALSE
