CONSTANTS
  Requests = {r1, r2}
  Slots = {s1, s2}
  Losable = {r1}
  MaxSpurious = 1
  Nobody = Nobody
  Bg = Bg
  NoSlot = NoSlot
SPECIFICATION FairSpec
PROPERTY PromiseKept
PROPERTY AnsweredUnlessLostOrTrampled
CHECK_DEADLOCK FALSE
