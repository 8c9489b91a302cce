CONSTANTS
  Unit = {"u1"}
  Global = {}
  None = "none"
  Caller = {"update", "failed"}
  BlockAttempts = 0
  MaxAttempts = 2
  MaxLost = 0
  Program <- UpdateAndFailed
SPECIFICATION FairSpec
PROPERTY CallsReturn
CHECK_DEADLOCK FALSE
