CONSTANTS
  IntHalf = 4
  Inputs <- SearchInputs
SPECIFICATION Spec
INVARIANT TypeOK
INVARIANT AnswerIsCentralised
INVARIANT BillWithinBid
INVARIANT CrashOnlyWithoutAds
CHECK_DEADLOCK FALSE
