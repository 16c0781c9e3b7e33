SPECIFICATION FairSpec
CONSTANTS
  OutBytes = 2
  InBytes = 1
  Wrap = 4
  MaxOut = 5
  MaxIn = 2
  MaxBoots = 2
INVARIANTS NeverSkips KeysOnce
PROPERTIES OutputInOrder PutReturns KeyArrives
