CONSTANTS
  Unit = {"j1"}
  None = "none"
  Deployer = {"a"}
  Kubernetes = TRUE
  MaxFaults = 0
  MaxFailures = 0
  Me = "a"
  Meta <- MCMeta
  Content <- MCContent
  Config <- SecondGroup
SPECIFICATION Spec
INVARIANT ScalingGroupKeepsTheJob
