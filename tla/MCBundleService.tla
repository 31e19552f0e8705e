-------------------------- MODULE MCBundleService --------------------------
(* Small instances of the bundle service for TLC.                          *)
EXTENDS BundleService, TLC

CONSTANTS sys, team, g, n, k1, k2, a1, a2, a3

\* A global CR, a namespace CR and the CRs of two clients.
MCNamespaceOf == (g :> sys) @@ (n :> team) @@ (k1 :> team) @@ (k2 :> sys)

MCScopesOf == (g :> {"global"}) @@ (n :> {"namespace"}) @@ (k1 :> {"client"})
                @@ (k2 :> {"client"})

\* Two agents of one client, an agent of another one.
ThreeAgents == (a1 :> k1) @@ (a2 :> k1) @@ (a3 :> k2)
TwoClients == (a1 :> k1) @@ (a2 :> k2)

\* The agents of one client are interchangeable.
AgentSymmetry == Permutations({a1, a2})
=============================================================================
