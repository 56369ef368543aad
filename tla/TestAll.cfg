SPECIFICATION FairTestSpec
CONSTANTS
  Baselines <- MCRates
  Uppers <- MCRates
  Steps0 <- MCRates
  Steps1 <- MCRates
  Capacities <- MCCapacities
  AccuracyPercent = 100
  SampleStep = 4
  SamplePercent = 25
  Setups <- MCSetups
  ResultTh = 80
  Duration = 2
  LoadPercent = 60
  Late = 1
  SuccessTh = 800
  Second = 2
  Shortest = 2
  Longest = 5
INVARIANTS TestTypeOK NeverUnthrottled NotWorse SteadyExact ScoreByRule CapacityScored MeasuredUnlessFew NeverFlooded
PROPERTY TestEnds
CHECK_DEADLOCK FALSE
