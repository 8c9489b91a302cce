CONSTANTS
  Unit = {"u1", "u2"}
  Global = {}
  None = "none"
  Caller = {"update", "failed"}
  BlockAttempts = 1
  MaxAttempts = 2
  MaxLost = 1
  Program <- UpdateBothAndFailed
SPECIFICATION Spec
PROPERTY DestroyLeavesNothing
