CONSTANTS
  Unit = {"u1", "g1"}
  Global = {"g1"}
  None = "none"
  Caller = {"a"}
  BlockAttempts = 0
  MaxAttempts = 2
  MaxLost = 3
  Program <- Update
SPECIFICATION FairSpec
INVARIANT TypeOK
INVARIANT Orderly
INVARIANT RetryIsHarmless
PROPERTY StoppedBeforeDestroyed
PROPERTY CreatedBeforeStarted
PROPERTY StartKeepsItsWord
PROPERTY CallsReturn
