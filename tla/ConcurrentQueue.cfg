CONSTANTS
  Producers = {p1, p2}
  Consumers = {c1, c2}
  Drainers = {main}
  Capacities = {0, 1, 2}
  Quota = 2
  MaxSpurious = 1
SPECIFICATION FairSpec
INVARIANT TypeOK
INVARIANT NoLostWakeup
INVARIANT StuckOnlyIfSlipped
PROPERTY PushReturns
PROPERTY Emptied
CHECK_DEADLOCK FALSE
