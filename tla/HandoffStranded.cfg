CONSTANTS
  Requests = {r1, r2}
  Slots = {s1}
  Losable = {}
  MaxSpurious = 0
  Nobody = Nobody
  Bg = Bg
  NoSlot = NoSlot
SPECIFICATION FairSpec
PROPERTY EveryRequestAnswered
CHECK_DEADLOCK FALSE
