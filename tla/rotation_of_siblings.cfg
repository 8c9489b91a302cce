CONSTANTS
  Unit = {"n", "m"}
  Surge = 1
  Replicas <- MCReplicas
  Host = {"h1", "h2"}
  Slot = {"h1", "h2"}
  None = None
  MaxFaults = 0
  MaxTroubles = 0
  Process = {"run", "other"}
  Registry = {"registry"}
  NoSecret = "none"
  MaxBroken = 0
  Me = "run"
  Kind <- MCKind
  TaskGroup <- MCTaskGroup
  Requests <- MCOneOfTwo
  Args <- MCArgs
SPECIFICATION MCSpec
PROPERTY RotationAwaitsNewPod
