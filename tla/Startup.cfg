CONSTANTS
  Addresses = {a, b, c}
  None = None
  MaxStarts = 2
SPECIFICATION FairSpec
INVARIANT TypeOK
INVARIANT AdvertisedHadPeer
INVARIANT RegisteredUnlessRemoved
PROPERTY StartsEnd
CHECK_DEADLOCK FALSE
