CONSTANTS
  Requests = {r1, r2, r3}
  Slots = {s1, s2}
  Losable = {r1, r2, r3}
  MaxSpurious = 1
  Nobody = Nobody
  Bg = Bg
  NoSlot = NoSlot
SPECIFICATION Spec
SYMMETRY Symmetry
INVARIANT TypeOK
INVARIANT OwnReplyMerged
INVARIANT WritesReachOwnObject
INVARIANT StrandedOnlyIfTrampled
CHECK_DEADLOCK FALSE
