SPECIFICATION ARFairSpec
CONSTANTS
  r1 = r1
  r2 = r2
  s1 = s1
  s2 = s2
  Runtimes <- OneRuntime
  Workloads <- OneWorkload
  TargetOf <- AllTarget
  Kinds <- OnlySandbox
  Specs <- OneSpec
  Configs <- TwoConfigs
  Template = "c1"
  Needed <- AllNeeded
  FailOpen = TRUE
  Edited <- AllEdits
  MaxEdits = 2
  MaxFaults = 0
PROPERTY
  SandboxFollowsHash
CHECK_DEADLOCK FALSE
