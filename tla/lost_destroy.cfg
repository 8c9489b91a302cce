CONSTANTS
  Unit = {"u1", "g1"}
  Global = {"g1"}
  None = "none"
  Caller = {"a"}
  BlockAttempts = 0
  MaxAttempts = 2
  MaxLost = 1
  Program <- Update
SPECIFICATION Spec
PROPERTY DestroyKeepsItsWord
