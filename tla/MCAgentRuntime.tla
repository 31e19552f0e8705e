--------------------------- MODULE MCAgentRuntime ---------------------------
(* Instances of AgentRuntime for TLC. *)
EXTENDS AgentRuntime, TLC

CONSTANTS r1, r2, s1, s2

OneRuntime == {r1}
TwoRuntimes == {r1, r2}
OneWorkload == {"w1"}
AllTarget == [r \in Runtimes |-> "w1"]
BothKinds == {"Deployment", "Sandbox"}
OnlySandbox == {"Sandbox"}
OneConfig == {"c1"}
OnlyDeployment == {"Deployment"}
OneSpec == {s1}
TwoSpecs == {s1, s2}
RuntimeSymmetry == Permutations(TwoRuntimes) \cup Permutations(TwoSpecs)
TwoConfigs == {"c1", "c2"}
WorkloadEdits == {"workload"}
AllEdits == {"workload", "config"}
AllNeeded == {"helper", "mesh", "scc"}
=============================================================================
