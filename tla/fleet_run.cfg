CONSTANTS
  Unit = {"j1", "o1", "j2", "j3"}
  None = "none"
  Deployer = {"a"}
  Kubernetes = FALSE
  MaxFaults = 1
  MaxFailures = 1
  Me = "a"
  Meta <- MCMeta
  Content <- MCContent
  Config <- OneRun
SPECIFICATION MCSpec
INVARIANT TypeOK
INVARIANT Coherent
INVARIANT OneSliceDown
INVARIANT CachedStatusIsRecent
PROPERTY ChangesAreApproved
PROPERTY CurrentUnitsSurvive
PROPERTY IsRollingUpdate
PROPERTY EndsOrAsks
