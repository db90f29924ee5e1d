---------------------------- MODULE RouteDirectory ----------------------------
(***************************************************************************)
(* The signed route directory and the calls that use it: the candidates    *)
(* (route-candidates.js), loading and signing (route-directory.js,         *)
(* route-signing.js), GET /v1/routes with its cache (v1/routes.js) and the *)
(* resolution of a route by POST /v1/vpn/authorize (vpn-authorize.js).     *)
(*                                                                         *)
(* A route's id is a hash of its path, its nodes and every field a client  *)
(* dials with; here the id is that content.  Which credentials a route's   *)
(* slots carry is LeasePool's; this module decides whether the route is    *)
(* still one.                                                              *)
(***************************************************************************)
EXTENDS Integers, Sequences, FiniteSets

CONSTANTS
    Hosts,             \* node ids, numbers
    Exits,             \* those of them whose role is EXIT; the others are RELAYs
    HostLocation,      \* [Hosts -> location]
    FailureDomain,     \* [Hosts -> failure domain]
    Capacity,          \* nodes.max_sessions, the same for all
    CANARY_SESSION_CAP,
    MAX_CANDIDATES,    \* routes that are published for a path
    Paths,             \* rows of allowed_paths: <<entry location or "none", exit location>>
    Isolates,          \* Worker isolates that answer /v1/routes
    Customers,         \* devices that authorize routes
    MaxFleetChanges,   \* bound: changes of the fleet, and of the paths
    SignersApart       \* no two isolates sign at once

ASSUME DirectoryParameters ==
    /\ Hosts \subseteq Nat /\ IsFiniteSet(Hosts) /\ Exits \subseteq Hosts
    /\ {Capacity, CANARY_SESSION_CAP, MAX_CANDIDATES, MaxFleetChanges} \subseteq Nat
    /\ SignersApart \in BOOLEAN

VARIABLES
    hosts,        \* [Hosts -> Host]: the columns of nodes that routes are made of
    permitted,    \* the paths that are enabled
    fleetChanges, \* changes so far
    directory,    \* route_directory_state
    signer,       \* [Isolates -> ...]: calls of signRouteDirectory in progress
    cache,        \* [Isolates -> ...]: routeCache, an envelope or none
    signed,       \* the envelopes that were signed
    assigned      \* [Customers -> SUBSET Hosts]: device_node_assignments

directoryVars == <<hosts, permitted, fleetChanges, directory, signer, cache, signed, assigned>>

-----------------------------------------------------------------------------
(* Types *)

Unreported == -1   \* configured_users is null until the first heartbeat
Configured == {Unreported} \cup 0..Capacity
\* endpoint: transport, address, port and keys, as one value that changes when any of them does.
Host == [state : {"READY", "CANARY", "DOWN"}, users : Configured, endpoint : 0..MaxFleetChanges]

Hop == [node : Hosts, endpoint : 0..MaxFleetChanges]
Route == [path : Paths, hops : Seq(Hop)]
Envelope == [version : Nat, routes : SUBSET Route]
NoEnvelope == [version |-> 0, routes |-> {}]
NotSigning == [pc |-> "idle", routes |-> {}, version |-> 0, same |-> FALSE]

DirectoryTypeOK ==
    /\ hosts \in [Hosts -> Host]
    /\ permitted \subseteq Paths
    /\ fleetChanges \in 0..MaxFleetChanges
    /\ DOMAIN directory = {"version", "routes"} /\ directory.version \in Nat
    /\ signed \subseteq Envelope
    /\ \A i \in Isolates :
          /\ signer[i].pc \in {"idle", "state", "write"}
          /\ cache[i] = NoEnvelope \/ cache[i] \in signed
    /\ assigned \in [Customers -> SUBSET Hosts]

-----------------------------------------------------------------------------
(* Candidates *)

isUnderCapacity(n) ==
    LET max == IF hosts[n].state = "CANARY" /\ CANARY_SESSION_CAP < Capacity
               THEN CANARY_SESSION_CAP ELSE Capacity
    IN  hosts[n].users < max

isEligible(n, held) ==
    /\ hosts[n].state \in {"READY", "CANARY"}
    /\ isUnderCapacity(n) \/ n \in held

byLoadThenId(a, b) ==
    LET load(n) == IF hosts[n].users = Unreported THEN Capacity + 1 ELSE hosts[n].users
    IN  load(a) < load(b) \/ (load(a) = load(b) /\ a < b)

\* One node of each failure domain before the second of any.
leads(S, n) == \A o \in S \ {n} : FailureDomain[o] = FailureDomain[n] => byLoadThenId(n, o)
before(S, a, b) == IF leads(S, a) <=> leads(S, b) THEN byLoadThenId(a, b) ELSE leads(S, a)
\* n's place in that order.
rank(S, n) == 1 + Cardinality({m \in S : before(S, m, n)})
diverseOrder(S) == [k \in 1..Cardinality(S) |-> CHOOSE n \in S : rank(S, n) = k]

pool(location, role, held) ==
    diverseOrder({n \in Hosts : /\ isEligible(n, held) /\ HostLocation[n] = location
                                /\ (n \in Exits) = (role = "EXIT")})

routeIdFor(path, nodes) ==
    [path |-> path, hops |-> [k \in DOMAIN nodes |-> [node |-> nodes[k], endpoint |-> hosts[nodes[k]].endpoint]]]

\* As if the answer to authorize were the published slice only.
HopsOf_Published(path, exhaustive, held) ==
    LET exits  == pool(path[2], "EXIT", held)
        relays == IF path[1] = "none" THEN <<>> ELSE pool(path[1], "RELAY", held)
    IN  IF path[1] = "none" THEN IF exits = <<>> THEN {} ELSE {<<exits[1]>>}
        ELSE IF relays = <<>> \/ exits = <<>> THEN {} ELSE {<<relays[1], exits[1]>>}

\* The hop sequences of a path: all of them, or the first MAX_CANDIDATES.
HopsOf(path, exhaustive, held) ==
    LET exits  == pool(path[2], "EXIT", held)
        relays == IF path[1] = "none" THEN <<>> ELSE pool(path[1], "RELAY", held)
        upTo(n) == 1..(IF n < MAX_CANDIDATES THEN n ELSE MAX_CANDIDATES)
        around(s, k) == s[1 + ((k - 1) % Len(s))]
        longer == IF Len(relays) < Len(exits) THEN Len(exits) ELSE Len(relays)
    IN  IF path[1] = "none"
        THEN {<<exits[k]>> : k \in IF exhaustive THEN DOMAIN exits ELSE upTo(Len(exits))}
        ELSE IF exhaustive
        THEN {<<relays[k], exits[l]>> : k \in DOMAIN relays, l \in DOMAIN exits}
        ELSE {<<around(relays, k), around(exits, k)>> : k \in IF relays = <<>> \/ exits = <<>> THEN {} ELSE upTo(longer)}

buildRouteCandidates(exhaustive, held) ==
    UNION {{routeIdFor(path, nodes) : nodes \in HopsOf(path, exhaustive, held)} : path \in permitted}

-----------------------------------------------------------------------------
(* GET /v1/routes *)

Renders(i) == [signer EXCEPT ![i] = [pc |-> "state", routes |-> buildRouteCandidates(FALSE, {}),
                                     version |-> 0, same |-> FALSE]]

\* The isolate has nothing cached: it loads the fleet and renders the routes.
LoadRoutes(i) ==
    /\ signer[i].pc = "idle" /\ cache[i] = NoEnvelope
    /\ SignersApart => \A j \in Isolates : signer[j].pc = "idle"
    /\ signer' = Renders(i)
    /\ UNCHANGED <<hosts, permitted, fleetChanges, directory, cache, signed, assigned>>

\* It reads the state of the directory and compares.
ReadDirectoryState(i) ==
    /\ signer[i].pc = "state"
    /\ LET same == signer[i].routes = directory.routes
       IN  signer' = [signer EXCEPT ![i].pc = "write", ![i].same = same,
                          ![i].version = IF same THEN directory.version ELSE directory.version + 1]
    /\ UNCHANGED <<hosts, permitted, fleetChanges, directory, cache, signed, assigned>>

\* As if what is cached carried the version that was current before.
SignDirectory_CachesOldVersion(i) ==
    LET envelope == [version |-> signer[i].version, routes |-> signer[i].routes]
    IN  /\ signer[i].pc = "write"
        /\ directory' = IF signer[i].same THEN directory ELSE envelope
        /\ signed' = signed \cup {envelope}
        /\ cache' = [cache EXCEPT ![i] = [envelope EXCEPT !.version = directory.version]]
        /\ signer' = [signer EXCEPT ![i] = NotSigning]
        /\ UNCHANGED <<hosts, permitted, fleetChanges, assigned>>

\* It records the new version, whatever the state is by now, signs and caches.
SignDirectory(i) ==
    LET envelope == [version |-> signer[i].version, routes |-> signer[i].routes]
    IN  /\ signer[i].pc = "write"
        /\ directory' = IF signer[i].same THEN directory ELSE envelope
        /\ signed' = signed \cup {envelope}
        /\ cache' = [cache EXCEPT ![i] = envelope]
        /\ signer' = [signer EXCEPT ![i] = NotSigning]
        /\ UNCHANGED <<hosts, permitted, fleetChanges, assigned>>

\* The state cannot be read or written: an alert, and the caller gets an error.
SigningFails(i) ==
    /\ signer[i].pc # "idle"
    /\ signer' = [signer EXCEPT ![i] = NotSigning]
    /\ UNCHANGED <<hosts, permitted, fleetChanges, directory, cache, signed, assigned>>

CacheExpires(i) ==
    /\ cache[i] # NoEnvelope
    /\ cache' = [cache EXCEPT ![i] = NoEnvelope]
    /\ UNCHANGED <<hosts, permitted, fleetChanges, directory, signer, signed, assigned>>

-----------------------------------------------------------------------------
(* POST /v1/vpn/authorize *)

Resolves(d, r) == r \in buildRouteCandidates(TRUE, assigned[d])

\* A lease is granted (LeasePool) and the hops become the device's assignment; a route of one hop
\* drops the relay, one of two replaces both.
authorizeRoute(d, r) ==
    /\ Resolves(d, r)
    /\ assigned' = [assigned EXCEPT ![d] = {r.hops[k].node : k \in DOMAIN r.hops}]
    /\ UNCHANGED <<hosts, permitted, fleetChanges, directory, signer, cache, signed>>

-----------------------------------------------------------------------------
(* The fleet *)

FleetChanges(new) ==
    /\ hosts' = new /\ fleetChanges' = fleetChanges + 1
    /\ UNCHANGED <<permitted, signer, cache, signed, assigned>>

\* A heartbeat reports how many users are configured.
HostReports(n, k) ==
    /\ hosts[n].state # "DOWN" /\ hosts[n].users # k
    /\ FleetChanges([hosts EXCEPT ![n].users = k]) /\ UNCHANGED directory

\* The node's state changes (NodeHealth, FleetOperations).
HostMoves(n, s) ==
    /\ hosts[n].state # s
    /\ FleetChanges([hosts EXCEPT ![n].state = s]) /\ UNCHANGED directory

\* The node enrols again and comes back with other keys.
HostEnrolsAgain(n) ==
    /\ hosts[n].state = "DOWN"
    /\ FleetChanges([hosts EXCEPT ![n].endpoint = @ + 1, ![n].users = Unreported]) /\ UNCHANGED directory

\* revoke_node_key_and_transition: the directory's version moves in the same transaction.
HostIsRevoked(n) ==
    /\ FleetChanges([hosts EXCEPT ![n].state = "DOWN"])
    /\ directory' = [directory EXCEPT !.version = @ + 1]

PathIsToggled(p) ==
    /\ permitted' = IF p \in permitted THEN permitted \ {p} ELSE permitted \cup {p}
    /\ fleetChanges' = fleetChanges + 1
    /\ UNCHANGED <<hosts, directory, signer, cache, signed, assigned>>

-----------------------------------------------------------------------------
DirectoryInit ==
    /\ hosts = [n \in Hosts |-> [state |-> "READY", users |-> 0, endpoint |-> 0]]
    /\ permitted = Paths
    /\ fleetChanges = 0
    /\ directory = [version |-> 1, routes |-> {}]
    /\ signer = [i \in Isolates |-> NotSigning]
    /\ cache = [i \in Isolates |-> NoEnvelope]
    /\ signed = {}
    /\ assigned = [d \in Customers |-> {}]

FleetStep ==
    /\ fleetChanges < MaxFleetChanges
    /\ \/ \E n \in Hosts, k \in 0..Capacity : HostReports(n, k)
       \/ \E n \in Hosts, s \in {"READY", "CANARY", "DOWN"} : HostMoves(n, s)
       \/ \E n \in Hosts : HostEnrolsAgain(n) \/ HostIsRevoked(n)
       \/ \E p \in Paths : PathIsToggled(p)

DirectoryNext ==
    \/ FleetStep
    \/ \E i \in Isolates : LoadRoutes(i) \/ ReadDirectoryState(i) \/ SignDirectory(i)
                           \/ SigningFails(i) \/ CacheExpires(i)
    \/ \E d \in Customers, e \in signed : \E r \in e.routes : authorizeRoute(d, r)

DirectorySpec == DirectoryInit /\ [][DirectoryNext]_directoryVars

-----------------------------------------------------------------------------
(* Properties *)

\* A route that was published stays authorizable while its path is permitted, its nodes serve with
\* room and its clients dial what they were told: a shift of the load that reorders the published
\* slice takes no route from a client.  (route-candidates.js, the comment on exhaustive)
PublishedStaysAuthorizable ==
    \A e \in signed : \A r \in e.routes : \A d \in Customers :
        (/\ r.path \in permitted
         /\ \A k \in DOMAIN r.hops : /\ isEligible(r.hops[k].node, assigned[d])
                                     /\ hosts[r.hops[k].node].endpoint = r.hops[k].endpoint)
        => Resolves(d, r)

\* A version of the directory names one list of routes: a client that compares versions never keeps
\* a list in place of another.  (route-signing.js; the comment of v1/routes.js on a lost race)
VersionNamesOneList ==
    \A e1, e2 \in signed : e1.version = e2.version => e1.routes = e2.routes

\* What was published means one thing and stays usable.
DirectoryHolds == PublishedStaysAuthorizable /\ VersionNamesOneList
=============================================================================
