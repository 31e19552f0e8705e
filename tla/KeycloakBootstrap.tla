--------------------------- MODULE KeycloakBootstrap ---------------------------
(***************************************************************************)
(* The Keycloak bootstrap of the operator (internal/bootstrap/keycloak.go):*)
(* a runnable that every operator instance starts once and that creates    *)
(* Postgres, the Keycloak resource, its Route and the realm import, one    *)
(* request at a time.  A failed step ends the runnable quietly; nothing    *)
(* starts it again but a restart of the operator.  Leader election is a    *)
(* flag (cmd/main.go); without it, or while a leader that lost its lease   *)
(* is still finishing a request, two instances run it side by side.        *)
(*                                                                         *)
(* A Get that is answered "not found" and the Create after it are two      *)
(* steps where the code treats the outcome of the second one as news       *)
(* (the Route and the test users); elsewhere "already exists" is success   *)
(* and the pair is one step.                                               *)
(***************************************************************************)
EXTENDS Integers, FiniteSets, TLC

CONSTANTS
    Operators,   \* operator instances that may run the bootstrap
    PublicURL,   \* KeycloakPublicURL is configured
    Attempts,    \* bound of discoverPublicURL's polling (6 in the code)
    MaxFaults    \* bound on failed requests and restarts

ASSUME BootstrapAssumption ==
    /\ IsFiniteSet(Operators)
    /\ PublicURL \in BOOLEAN
    /\ Attempts \in Nat \ {0}
    /\ MaxFaults \in Nat

VARIABLES
    boot,    \* per instance: pc, the passwords it holds, polls made
    kc,      \* what the Keycloak namespace contains
    fresh,   \* number of passwords drawn so far: the next one is new
    faults   \* failed requests and restarts so far

bootVars == <<boot, kc, fresh, faults>>

None == 0   \* no password, no object

(* A namespace before the operator starts, one that an earlier release of  *)
(* the operator set up, and a cluster whose Keycloak is provided elsewhere.*)
NewNamespace ==
    [ns |-> TRUE, db |-> None, init |-> "absent", sts |-> FALSE, svc |-> FALSE,
     cr |-> FALSE, route |-> "absent", users |-> None, imp |-> None, admin |-> FALSE]

OldNamespace ==
    [ns |-> TRUE, db |-> 1, init |-> "old", sts |-> TRUE, svc |-> TRUE,
     cr |-> TRUE, route |-> "host", users |-> 2, imp |-> 2, admin |-> TRUE]

ProvidedKeycloak == [NewNamespace EXCEPT !.ns = FALSE, !.admin = TRUE]

NotStarted == [pc |-> "off", pw |-> None, polls |-> 0]

InitBootstrap(ns, spent) ==
    /\ boot = [o \in Operators |->
                 IF ns.ns THEN NotStarted ELSE [NotStarted EXCEPT !.pc = "ended"]]
    /\ kc = ns
    /\ fresh = 2
    /\ faults = spent

Goto(o, pc) == [boot EXCEPT ![o].pc = pc]

----------------------------------------------------------------------------
(* Start: without the namespace there is nothing to do.                    *)
Start(o) ==
    /\ boot[o].pc = "off"
    /\ boot' = Goto(o, IF kc.ns THEN "db" ELSE "ended")
    /\ UNCHANGED <<kc, fresh, faults>>

(* ensureDBSecret draws a password only when the Secret is missing.        *)
EnsureDBSecret(o) ==
    /\ boot[o].pc = "db"
    /\ boot' = Goto(o, "init")
    /\ \/ kc.db # None /\ UNCHANGED <<kc, fresh>>
       \/ kc.db = None /\ kc' = [kc EXCEPT !.db = fresh + 1] /\ fresh' = fresh + 1
    /\ UNCHANGED faults

(* ensureInitConfigMap creates the scripts, or overwrites older ones.      *)
EnsureInitConfigMap(o) ==
    /\ boot[o].pc = "init"
    /\ boot' = Goto(o, "sts")
    /\ kc' = [kc EXCEPT !.init = "current"]
    /\ UNCHANGED <<fresh, faults>>

EnsureStatefulSet(o) ==
    /\ boot[o].pc = "sts"
    /\ boot' = Goto(o, "svc")
    /\ kc' = [kc EXCEPT !.sts = TRUE]
    /\ UNCHANGED <<fresh, faults>>

EnsureService(o) ==
    /\ boot[o].pc = "svc"
    /\ boot' = Goto(o, "cr")
    /\ kc' = [kc EXCEPT !.svc = TRUE]
    /\ UNCHANGED <<fresh, faults>>

(* ensureKeycloakCR is a server-side apply: it always writes.              *)
EnsureKeycloakCR(o) ==
    /\ boot[o].pc = "cr"
    /\ boot' = Goto(o, "route")
    /\ kc' = [kc EXCEPT !.cr = TRUE]
    /\ UNCHANGED <<fresh, faults>>

(* ensureRoute does not tolerate a Route that appeared after its Get.      *)
AfterRoute == IF PublicURL THEN "users" ELSE "poll"

ReadRoute(o) ==
    /\ boot[o].pc = "route"
    /\ boot' = Goto(o, IF kc.route = "absent" THEN "newRoute" ELSE AfterRoute)
    /\ UNCHANGED <<kc, fresh, faults>>

CreateRoute(o) ==
    /\ boot[o].pc = "newRoute"
    /\ \/ /\ kc.route = "absent"
          /\ kc' = [kc EXCEPT !.route = "noHost"]
          /\ boot' = Goto(o, AfterRoute)
       \/ /\ kc.route # "absent"
          /\ boot' = Goto(o, "ended")
          /\ UNCHANGED kc
    /\ UNCHANGED <<fresh, faults>>

(* discoverPublicURL polls the Route for its host and then gives up.       *)
DiscoverPublicURL(o) ==
    /\ boot[o].pc = "poll"
    /\ \/ kc.route = "host" /\ boot' = Goto(o, "users")
       \/ /\ kc.route # "host"
          /\ boot' = [boot EXCEPT ![o].polls = @ + 1,
                                  ![o].pc = IF boot[o].polls + 1 < Attempts
                                            THEN "poll" ELSE "ended"]
    /\ UNCHANGED <<kc, fresh, faults>>

(* ensureTestUsersSecret: the passwords in use are the ones in the Secret. *)
ReadTestUsers(o) ==
    /\ boot[o].pc = "users"
    /\ boot' = IF kc.users # None
                 THEN [boot EXCEPT ![o].pw = kc.users, ![o].pc = "import"]
                 ELSE Goto(o, "newUsers")
    /\ UNCHANGED <<kc, fresh, faults>>

(* Losing the race to create the Secret means reading the winner's.        *)
MutKeepOwnPasswords(o) ==
    /\ boot[o].pc = "newUsers"
    /\ fresh' = fresh + 1
    /\ boot' = [boot EXCEPT ![o].pw = fresh + 1, ![o].pc = "import"]
    /\ kc' = [kc EXCEPT !.users = IF @ = None THEN fresh + 1 ELSE @]
    /\ UNCHANGED faults

CreateTestUsers(o) ==
    /\ boot[o].pc = "newUsers"
    /\ fresh' = fresh + 1
    /\ \/ /\ kc.users = None
          /\ kc' = [kc EXCEPT !.users = fresh + 1]
          /\ boot' = [boot EXCEPT ![o].pw = fresh + 1, ![o].pc = "import"]
       \/ /\ kc.users # None
          /\ boot' = Goto(o, "users")
          /\ UNCHANGED kc
    /\ UNCHANGED faults

(* ensureRealmImport applies the realm with the passwords it was given.    *)
EnsureRealmImport(o) ==
    /\ boot[o].pc = "import"
    /\ kc' = [kc EXCEPT !.imp = boot[o].pw]
    /\ boot' = Goto(o, "complete")
    /\ UNCHANGED <<fresh, faults>>

BootstrapStep(o) ==
    \/ Start(o)
    \/ EnsureDBSecret(o)
    \/ EnsureInitConfigMap(o)
    \/ EnsureStatefulSet(o)
    \/ EnsureService(o)
    \/ EnsureKeycloakCR(o)
    \/ ReadRoute(o)
    \/ CreateRoute(o)
    \/ DiscoverPublicURL(o)
    \/ ReadTestUsers(o)
    \/ CreateTestUsers(o)
    \/ EnsureRealmImport(o)

(* Start logs the error of any step and returns nil: the runnable is over. *)
BootstrapFails(o) ==
    /\ faults < MaxFaults
    /\ boot[o].pc \notin {"off", "ended", "complete"}
    /\ faults' = faults + 1
    /\ boot' = Goto(o, "ended")
    /\ UNCHANGED <<kc, fresh>>

(* A restarted operator runs the bootstrap from the beginning.             *)
BootstrapRestarts(o) ==
    /\ faults < MaxFaults
    /\ boot[o].pc # "off"
    /\ faults' = faults + 1
    /\ boot' = [boot EXCEPT ![o] = NotStarted]
    /\ UNCHANGED <<kc, fresh>>

(* External: the router assigns the Route's host, and the Keycloak operator*)
(* answers the Keycloak resource with the initial admin Secret.            *)
RouterAssignsHost ==
    /\ kc.route = "noHost"
    /\ kc' = [kc EXCEPT !.route = "host"]
    /\ UNCHANGED <<boot, fresh, faults>>

KeycloakComesUp ==
    /\ kc.cr /\ kc.db # None /\ kc.sts /\ kc.svc /\ ~kc.admin
    /\ kc' = [kc EXCEPT !.admin = TRUE]
    /\ UNCHANGED <<boot, fresh, faults>>

----------------------------------------------------------------------------
(* The realm is imported with the passwords the test-users Secret holds,   *)
(* however the instances that create them interleave, fail or restart:     *)
(* otherwise nobody can log in with what the Secret says.  It is not       *)
(* imported before the Keycloak resource it names exists, and a bootstrap  *)
(* that reports completion has left nothing out.                           *)
ImportMatchesSecret ==
    /\ kc.imp # None => kc.imp = kc.users /\ kc.cr /\ kc.svc /\ kc.sts /\ kc.db # None
    /\ \A o \in Operators : boot[o].pc = "complete" =>
          /\ kc.imp # None
          /\ kc.route # "absent"
          /\ kc.init = "current"
=============================================================================
