CONSTANTS
  Sleeper = {"update", "obsolete"}
  Long = {"update", "obsolete"}
  MaxCalls = 1
  MaxSignals = 0
SPECIFICATION FairSpec
PROPERTY SleepReturns
