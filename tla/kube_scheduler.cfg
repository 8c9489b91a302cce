CONSTANTS
  Unit = {"d", "e", "f", "n", "m", "j", "s"}
  Surge = 1
  Replicas <- MCReplicas
  Host = {"h1", "h2"}
  Slot = {"h1", "h2", "p3"}
  None = None
  MaxFaults = 1
  MaxTroubles = 1
  Process = {"run", "other"}
  Registry = {"registry"}
  NoSecret = "none"
  MaxBroken = 1
  Me = "run"
  Kind <- MCKind
  TaskGroup <- MCTaskGroup
  Requests <- MCRequests
  Args <- MCArgs
SPECIFICATION MCSpec
INVARIANT SchedulerTypeOK
INVARIANT UpdatedWhenStarted
INVARIANT OneHostAtATime
INVARIANT RotatedWhenStarted
INVARIANT DestroyedIsGone
INVARIANT AppliedWhenConfigured
PROPERTY AwaitedComes
PROPERTY OthersComeBack
PROPERTY SecondAttemptCompletes
