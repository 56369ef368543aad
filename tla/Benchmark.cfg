CONSTANTS
  NumClients = 2
  MaxRequests = 3
SPECIFICATION FairSpec
INVARIANT TypeOK
INVARIANT LossBounded
INVARIANT ReportWithinOne
INVARIANT SummaryWoken
PROPERTY RunEnds
CHECK_DEADLOCK FALSE
