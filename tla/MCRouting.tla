-------------------------------- MODULE MCRouting -------------------------------
(***************************************************************************)
(* An instance for TLC of the modules about which nodes enroll, which are  *)
(* in service and which routes over them are published.  They share no     *)
(* state here: a behaviour is one of one of them, and the others rest.     *)
(***************************************************************************)
EXTENDS NodeHealth, RouteDirectory, NodeEnrollment, TLC

CONSTANTS a, b

VARIABLE active   \* the module that moves

\* The requests in progress are interchangeable, and so are the servers.
Symmetry == Permutations(Calls)

MCHostLocation == [n \in Hosts |-> IF n \in Exits THEN "A" ELSE "B"]
MCFailureDomain == [n \in Hosts |-> IF n = 2 THEN "f" ELSE "g"]
MCPaths == {<<"none", "A">>, <<"B", "A">>}

RoutingInit ==
    /\ EnrollInit
    /\ \/ active = "health" /\ HealthInit /\ DirectoryInit
       \/ active \in {"directory", "enrollment"} /\ HealthInit /\ DirectoryInit /\ observed = <<>>

RoutingNext ==
    /\ \/ active = "health" /\ HealthNext /\ UNCHANGED <<directoryVars, enrollVars>>
       \/ active = "directory" /\ DirectoryNext /\ UNCHANGED <<healthVars, enrollVars>>
       \/ active = "enrollment" /\ EnrollNext /\ UNCHANGED <<healthVars, directoryVars>>
    /\ UNCHANGED active

RoutingSpec == RoutingInit /\ [][RoutingNext]_<<healthVars, directoryVars, enrollVars, active>>

\* The state of the module that moves has its type.
RoutingTypeOK ==
    CASE active = "health" -> HealthTypeOK
      [] active = "directory" -> DirectoryTypeOK
      [] active = "enrollment" -> EnrollTypeOK
=============================================================================
