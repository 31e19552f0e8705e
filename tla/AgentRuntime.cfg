SPECIFICATION ARSpec
CONSTANTS
  r1 = r1
  r2 = r2
  s1 = s1
  s2 = s2
  Runtimes <- TwoRuntimes
  Workloads <- OneWorkload
  TargetOf <- AllTarget
  Kinds <- OnlyDeployment
  Specs <- TwoSpecs
  Configs <- OneConfig
  Template = "c1"
  Needed <- AllNeeded
  FailOpen = FALSE
  Edited <- WorkloadEdits
  MaxEdits = 3
  MaxFaults = 1
SYMMETRY RuntimeSymmetry
INVARIANTS
  StampOwned StampedNamespaceReady
CHECK_DEADLOCK FALSE
