SPECIFICATION BSSpec
CONSTANTS
  sys = sys
  team = team
  g = g
  n = n
  k1 = k1
  k2 = k2
  a1 = a1
  a2 = a2
  a3 = a3
  None = None
  Names = {g, n, k1, k2}
  Namespaces = {sys, team}
  NamespaceOf <- MCNamespaceOf
  ServiceNamespace = sys
  ScopesOf <- MCScopesOf
  Agents = {a1, a2, a3}
  ClientOf <- ThreeAgents
  MaxConcurrentBuilds = 1
  MaxEntries = 1
  Stored = {k1}
  MaxChanges = 1
SYMMETRY AgentSymmetry
INVARIANTS SingleBuild BuildLimit BundleCacheSound FreshWhenUndisturbed
CHECK_DEADLOCK FALSE
