CONSTANTS
  Sleeper = {"obsolete", "fleet", "kubernetes"}
  Long = {"obsolete", "fleet"}
  MaxCalls = 1
  MaxSignals = 2
  Worker = {"update", "obsolete"}
  OnFleet = "fleet"
  OnKubernetes = "kubernetes"
  MaxEvents = 2
SPECIFICATION UIFairSpec
INVARIANT TypeOK
INVARIANT OnlyOwnTimerWakes
INVARIANT ClosedAfterWork
INVARIANT EventsInOrder
PROPERTY RunEnds
