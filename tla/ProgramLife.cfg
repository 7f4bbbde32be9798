SPECIFICATION FairLifeSpec
CONSTANTS
  MaxIdentities = 3
  MaxLives = 3
  Pinners = {"laptop"}
INVARIANTS LifeInv LoadedPairMatches PinnedKeyVerifies
INVARIANTS AbortOnlyOnLoss NoCallbackOnGarbage GoodbyeSaid
PROPERTY StopsEventually
CHECK_DEADLOCK FALSE
