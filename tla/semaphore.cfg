CONSTANTS
  Hart = {h0, h1, h2}
  Starter = h0
  Count = 1
  MaxCount = 2
SPECIFICATION FairSpec
INVARIANTS TypeOK NoLostUpdate
PROPERTY ImplementsCounting
