CONSTANTS
  Unit = {"j1", "o1", "h1", "k1"}
  None = "none"
  Deployer = {"a", "b"}
  Kubernetes = TRUE
  MaxFaults = 1
  MaxFailures = 0
  Me = "a"
  Meta <- MCMeta
  Content <- MCContent
  Config <- GroupAndDestroy
SPECIFICATION Spec
PROPERTY OthersAreLeftAlone
PROPERTY OnlyListedAreRemoved
