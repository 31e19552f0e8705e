SPECIFICATION ARFairSpec
CONSTANTS
  r1 = r1
  r2 = r2
  s1 = s1
  s2 = s2
  Runtimes <- OneRuntime
  Workloads <- OneWorkload
  TargetOf <- AllTarget
  Kinds <- BothKinds
  Specs <- OneSpec
  Configs <- OneConfig
  Template = "c1"
  Needed <- AllNeeded
  FailOpen = TRUE
  Edited <- AllEdits
  MaxEdits = 2
  MaxFaults = 1
PROPERTIES
  Converges  SandboxComesBack
CHECK_DEADLOCK FALSE
