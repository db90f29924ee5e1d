------------------------------- MODULE Placement -------------------------------
(***************************************************************************)
(* Where a device's traffic goes: the connection profile of an account,    *)
(* the scheduler that puts its devices on servers, and the fleet tick that *)
(* adds a server where all are full.                                       *)
(*                                                                         *)
(* A placement (placeDevice) reads the profile and whether its path is     *)
(* allowed, then the device's rows and the servers, writes what changed,   *)
(* and records the outcome; other requests run in between.  The account is *)
(* entitled throughout, so that every change of a profile ends in a        *)
(* placement of every device.  The jobs that follow are ProvisioningJobs'. *)
(***************************************************************************)
EXTENDS Integers, FiniteSets

CONSTANTS
    Movers,          \* the devices of the account
    Placers, Ticks,  \* requests that place devices, and runs of the fleet tick, that can be in progress
    Groups,          \* <<location, role>> where there are servers
    MaxScale,        \* bound: servers added to a group
    Sessions,        \* max_sessions of every server
    CanarySessions,  \* CANARY_SESSION_CAP
    MaxEdits,        \* bound: changes of profile, paths and fleet, and events that place a device again
    OnePlacement,    \* the placements of one device do not overlap
    WithinBudget,    \* no assignment meets the node mutation budget
    OneTick          \* runs of the fleet tick do not overlap

Nowhere == "nowhere"
NoServer == <<<<Nowhere, "EXIT">>, 0>>
Locations == {g[1] : g \in Groups}
\* The n-th -capN of its group; 0 is the server that the others are named after.
Server == Groups \X (0..MaxScale)

ASSUME PlacementParameters ==
    /\ Groups \subseteq Locations \X {"EXIT", "RELAY"} /\ NoServer \notin Server /\ Nowhere \notin Locations
    /\ IsFiniteSet(Movers) /\ {MaxScale, Sessions, CanarySessions, MaxEdits} \subseteq Nat
    /\ {OnePlacement, WithinBudget, OneTick} \subseteq BOOLEAN

VARIABLES
    servers,   \* [Server -> ...]: the table nodes
    paths,     \* allowed_paths that are enabled: <<entry or Nowhere, exit>>
    profile,   \* the row of connection_profiles
    users,     \* device_profile_assignments: the devices that use it
    rows,      \* [Movers -> ...]: device_node_assignments by hop
    placed,    \* [Movers -> ...]: placement_status
    due,       \* devices whose placement was asked for
    placementAlerts,    \* open placement alerts, by the policy that could not be met
    placing,   \* [Placers -> ...]
    scaling,   \* [Ticks -> ...]
    edits

placementVars == <<servers, paths, profile, users, rows, placed, due, placementAlerts, placing, scaling, edits>>
fleetTables == <<servers, paths>>
accountTables == <<profile, users, due>>

NotReported == -1
ServerState == {"absent", "PROVISIONING", "WARMING_UP", "READY", "CANARY", "FAILED"}
ServerRow == [state : ServerState, load : {NotReported} \cup 0..Cardinality(Movers)]
Policy == [mode : {"AUTO", "DIRECT", "DOUBLE_HOP", "disabled"}, entry : Locations \cup {Nowhere}, exit : Locations \cup {Nowhere}]
Automatic == [mode |-> "AUTO", entry |-> Nowhere, exit |-> Nowhere]
Disabled == [Automatic EXCEPT !.mode = "disabled"]
NoProfile == [Automatic EXCEPT !.mode = "none"]
Rows == [EXIT : Server \cup {NoServer}, RELAY : Server \cup {NoServer}]
NoRows == [EXIT |-> NoServer, RELAY |-> NoServer]

NoMover == "no device"
\* seen: the rows as they were read.  takes: the servers that were chosen.
Placing == [pc : {"idle", "schedule", "write", "placed", "failed"}, device : Movers \cup {NoMover}, policy : Policy, seen : Rows, takes : Rows]
NotPlacing == [pc |-> "idle", device |-> NoMover, policy |-> Automatic, seen |-> NoRows, takes |-> NoRows]
Scaling == [todo : SUBSET Groups, next : 0..(MaxScale + 1)]
NotScaling == [todo |-> {}, next |-> 0]

PlacementTypeOK ==
    /\ servers \in [Server -> ServerRow]
    /\ paths \subseteq (Locations \cup {Nowhere}) \X Locations
    /\ profile \in Policy \cup {NoProfile} /\ users \subseteq Movers /\ due \subseteq Movers
    /\ rows \in [Movers -> Rows] /\ placed \in [Movers -> {"none", "PLACED", "UNSCHEDULABLE"}]
    /\ placementAlerts \subseteq Policy
    /\ placing \in [Placers -> Placing] /\ scaling \in [Ticks -> Scaling] /\ edits \in 0..MaxEdits

-----------------------------------------------------------------------------
(* The scheduler *)

hasRoom(s) ==
    servers[s].load < IF servers[s].state = "CANARY" /\ CanarySessions < Sessions THEN CanarySessions ELSE Sessions

Candidates(role, sites) ==
    {s \in Server : s[1][2] = role /\ s[1][1] \in sites /\ servers[s].state \in {"READY", "CANARY"} /\ hasRoom(s)}

\* A server that has not reported yet counts as the fullest.
Reported(s) == IF servers[s].load = NotReported THEN Cardinality(Movers) + 1 ELSE servers[s].load
LeastLoaded(cs) == {s \in cs : \A t \in cs : Reported(s) <= Reported(t)}

selectNodeForDevice(cs, sticky) ==
    IF sticky \in cs THEN {sticky} ELSE IF cs = {} THEN {NoServer} ELSE LeastLoaded(cs)

\* For AUTO the server of the device's identity, wherever that is, comes before the least loaded.
PlacementChoices(policy, sticky) ==
    CASE policy.mode = "DIRECT" ->
             [EXIT : selectNodeForDevice(Candidates("EXIT", {policy.exit}), sticky.EXIT), RELAY : {NoServer}]
      [] policy.mode = "DOUBLE_HOP" ->
             [EXIT : selectNodeForDevice(Candidates("EXIT", {policy.exit}), sticky.EXIT),
              RELAY : selectNodeForDevice(Candidates("RELAY", {policy.entry}), sticky.RELAY)]
      [] OTHER ->
             LET cs == Candidates("EXIT", {x \in Locations : <<Nowhere, x>> \in paths})
             IN [EXIT : selectNodeForDevice(cs, sticky.EXIT) \cup (IF sticky.EXIT \in cs THEN {} ELSE cs), RELAY : {NoServer}]

Offered(policy) ==
    CASE policy.mode = "DIRECT" -> <<Nowhere, policy.exit>> \in paths
      [] policy.mode = "DOUBLE_HOP" -> <<policy.entry, policy.exit>> \in paths
      [] OTHER -> TRUE

PlacingAt(c, pc) == placing[c].pc = pc
PlacingGoes(c, pc) == placing' = [placing EXCEPT ![c].pc = pc]

\* loadDeviceProfile and hasEnabledPath.  Without a profile a device is placed automatically.
PlaceDevice(c, d) ==
    LET policy == IF d \in users /\ profile # NoProfile THEN profile ELSE Automatic
    IN /\ PlacingAt(c, "idle") /\ d \in due /\ due' = due \ {d}
       /\ OnePlacement => \A other \in Placers : PlacingAt(other, "idle") \/ placing[other].device # d
       /\ placing' = [placing EXCEPT ![c] = [NotPlacing EXCEPT !.device = d, !.policy = policy,
                          !.pc = IF policy.mode # "disabled" /\ Offered(policy) THEN "schedule" ELSE "failed"]]
       /\ UNCHANGED <<fleetTables, profile, users, rows, placed, placementAlerts, scaling, edits>>

\* The path is looked up once more.  Never one hop of two.
Schedule(c) ==
    LET policy == placing[c].policy
        sticky == rows[placing[c].device]
    IN /\ PlacingAt(c, "schedule")
       /\ IF Offered(policy)
          THEN \E takes \in PlacementChoices(policy, sticky) :
                   IF takes.EXIT = NoServer \/ (policy.mode = "DOUBLE_HOP" /\ takes.RELAY = NoServer)
                   THEN PlacingGoes(c, "failed") /\ placementAlerts' = placementAlerts \cup {policy}
                   ELSE /\ placing' = [placing EXCEPT ![c].pc = "write", ![c].seen = sticky, ![c].takes = takes]
                        /\ placementAlerts' = placementAlerts \ {policy}
          ELSE PlacingGoes(c, "failed") /\ UNCHANGED placementAlerts
       /\ UNCHANGED <<fleetTables, accountTables, rows, placed, scaling, edits>>

\* Only the hops that changed are written; a relay that is no longer used keeps its row.
WriteRows(c) ==
    LET d == placing[c].device
        New(hop) == IF placing[c].takes[hop] \in {NoServer, placing[c].seen[hop]} THEN rows[d][hop] ELSE placing[c].takes[hop]
    IN /\ PlacingAt(c, "write") /\ PlacingGoes(c, "placed")
       /\ rows' = [rows EXCEPT ![d] = [EXIT |-> New("EXIT"), RELAY |-> New("RELAY")]]
       /\ UNCHANGED <<fleetTables, accountTables, placed, placementAlerts, scaling, edits>>

recordPlacement(c) ==
    /\ placing[c].pc \in {"placed", "failed"}
    /\ placed' = [placed EXCEPT ![placing[c].device] = IF PlacingAt(c, "placed") THEN "PLACED" ELSE "UNSCHEDULABLE"]
    /\ placing' = [placing EXCEPT ![c] = NotPlacing]
    /\ UNCHANGED <<fleetTables, accountTables, rows, placementAlerts, scaling, edits>>

-----------------------------------------------------------------------------
(* Profiles *)

Edit == edits < MaxEdits /\ edits' = edits + 1

\* toRow.
Valid(policy) ==
    /\ policy.mode \in {"DIRECT", "DOUBLE_HOP"} <=> policy.exit # Nowhere
    /\ policy.mode = "DOUBLE_HOP" <=> policy.entry # Nowhere
    /\ policy.exit # Nowhere => policy.entry # policy.exit
    /\ Offered(policy)

createProfile(policy) ==
    /\ profile = NoProfile /\ Valid(policy) /\ Edit
    /\ profile' = policy
    /\ UNCHANGED <<fleetTables, users, rows, placed, due, placementAlerts, placing, scaling>>

\* As if no device were placed again.
updateProfile_WriteOnly(policy) ==
    /\ profile # NoProfile /\ profile # policy /\ Valid(policy) /\ Edit
    /\ profile' = policy
    /\ UNCHANGED <<fleetTables, users, rows, placed, due, placementAlerts, placing, scaling>>
updateProfile(policy) ==
    /\ profile # NoProfile /\ profile # policy /\ Valid(policy) /\ Edit
    /\ profile' = policy /\ due' = Movers
    /\ UNCHANGED <<fleetTables, users, rows, placed, placementAlerts, placing, scaling>>

\* Its devices fall back to AUTO.
deleteProfile ==
    /\ profile # NoProfile /\ Edit
    /\ profile' = NoProfile /\ users' = {} /\ due' = Movers
    /\ UNCHANGED <<fleetTables, rows, placed, placementAlerts, placing, scaling>>

\* The mutation budget of the device's server refuses (429) what is already written.
assignDeviceProfile(d) ==
    /\ profile \notin {NoProfile, Disabled} /\ d \notin users /\ Edit
    /\ users' = users \cup {d}
    /\ due' \in {due \cup {d}} \cup {asked \in {due} : ~WithinBudget /\ rows[d] # NoRows}
    /\ UNCHANGED <<fleetTables, profile, rows, placed, placementAlerts, placing, scaling>>

-----------------------------------------------------------------------------
(* Scale-out *)

Serving(g) == {s \in Server : s[1] = g /\ servers[s].state \in {"READY", "CANARY"}}
InFlight(g) == {s \in Server : s[1] = g /\ servers[s].state \in {"PROVISIONING", "WARMING_UP"}}

findCapacityExhaustedGroups ==
    {g \in Groups : Serving(g) # {} /\ InFlight(g) = {} /\ \A s \in Serving(g) : ~hasRoom(s)}

\* autoScaleFullLocations: the groups are found, ...
FindFull(t) ==
    /\ scaling[t].todo = {} /\ findCapacityExhaustedGroups # {}
    /\ OneTick => \A other \in Ticks : scaling[other] = NotScaling
    /\ scaling' = [scaling EXCEPT ![t] = [todo |-> findCapacityExhaustedGroups, next |-> 0]]
    /\ UNCHANGED <<fleetTables, accountTables, rows, placed, placementAlerts, placing, edits>>

\* ... for each the lowest number that no server ever had is chosen, ...
nextScaleNodeId(t, g) ==
    /\ g \in scaling[t].todo /\ scaling[t].next = 0
    /\ \E n \in 1..(MaxScale + 1) :
           /\ \A k \in 1..(n - 1) : servers[<<g, k>>].state # "absent"
           /\ n \in 1..MaxScale => servers[<<g, n>>].state = "absent"
           /\ scaling' = [scaling EXCEPT ![t].next = n]
    /\ UNCHANGED <<fleetTables, accountTables, rows, placed, placementAlerts, placing, edits>>

\* ... and its creation begins, unless the number was taken meanwhile.
startCreateNodeOperation(t, g) ==
    LET s == <<g, scaling[t].next>>
    IN /\ g \in scaling[t].todo /\ scaling[t].next # 0
       /\ servers' = IF s \in Server /\ servers[s].state = "absent" THEN [servers EXCEPT ![s].state = "PROVISIONING"] ELSE servers
       /\ scaling' = [scaling EXCEPT ![t] = [todo |-> @.todo \ {g}, next |-> 0]]
       /\ UNCHANGED <<paths, accountTables, rows, placed, placementAlerts, placing, edits>>

-----------------------------------------------------------------------------
(* The fleet, the admin, billing *)

ServerMoves(s, to) ==
    /\ <<servers[s].state, to>> \in {<<"PROVISIONING", "WARMING_UP">>, <<"WARMING_UP", "READY">>, <<"WARMING_UP", "FAILED">>,
                                     <<"READY", "FAILED">>, <<"FAILED", "CANARY">>, <<"CANARY", "READY">>}
    /\ Edit /\ servers' = [servers EXCEPT ![s].state = to]
    /\ UNCHANGED <<paths, accountTables, rows, placed, placementAlerts, placing, scaling>>
ServerReports(s) ==
    LET load == Cardinality({d \in Movers : s \in {rows[d].EXIT, rows[d].RELAY}})
    IN /\ servers[s].state \in {"READY", "CANARY"} /\ servers[s].load # load
       /\ servers' = [servers EXCEPT ![s].load = load]
       /\ UNCHANGED <<paths, accountTables, rows, placed, placementAlerts, placing, scaling, edits>>
PathIsSwitched(path) ==
    /\ Edit /\ paths' = (paths \ {path}) \cup ({path} \ paths)
    /\ UNCHANGED <<servers, accountTables, rows, placed, placementAlerts, placing, scaling>>
\* An event of billing reconciles the account.
Reconciles ==
    /\ Edit /\ due # Movers /\ due' = Movers
    /\ UNCHANGED <<fleetTables, profile, users, rows, placed, placementAlerts, placing, scaling>>

-----------------------------------------------------------------------------
Pairs == {p \in (Locations \cup {Nowhere}) \X Locations : <<p[2], "EXIT">> \in Groups /\ (p[1] = Nowhere \/ <<p[1], "RELAY">> \in Groups) /\ p[1] # p[2]}

PlacementInit ==
    /\ servers = [s \in Server |-> [state |-> IF s[2] = 0 THEN "READY" ELSE "absent", load |-> IF s[2] = 0 THEN 0 ELSE NotReported]]
    /\ paths = Pairs
    /\ profile = NoProfile /\ users = {} /\ due = {} /\ placementAlerts = {}
    /\ rows = [d \in Movers |-> NoRows] /\ placed = [d \in Movers |-> "none"]
    /\ placing = [c \in Placers |-> NotPlacing] /\ scaling = [t \in Ticks |-> NotScaling] /\ edits = 0

PlacementNext ==
    \/ \E c \in Placers : Schedule(c) \/ WriteRows(c) \/ recordPlacement(c) \/ \E d \in Movers : PlaceDevice(c, d)
    \/ \E policy \in Policy : createProfile(policy) \/ updateProfile(policy)
    \/ deleteProfile \/ Reconciles \/ \E d \in Movers : assignDeviceProfile(d)
    \/ \E t \in Ticks : FindFull(t) \/ \E g \in Groups : nextScaleNodeId(t, g) \/ startCreateNodeOperation(t, g)
    \/ \E s \in Server : ServerReports(s) \/ \E to \in ServerState : ServerMoves(s, to)
    \/ \E path \in Pairs : PathIsSwitched(path)

PlacementSpec == PlacementInit /\ [][PlacementNext]_placementVars

-----------------------------------------------------------------------------
(* Properties *)

Meets(d, policy) ==
    CASE policy.mode = "DIRECT" -> rows[d].EXIT # NoServer /\ rows[d].EXIT[1][1] = policy.exit
      [] policy.mode = "DOUBLE_HOP" -> /\ rows[d].EXIT # NoServer /\ rows[d].EXIT[1][1] = policy.exit
                                       /\ rows[d].RELAY # NoServer /\ rows[d].RELAY[1][1] = policy.entry
      [] OTHER -> rows[d].EXIT # NoServer

\* Once the placements that a change of a profile asked for are done, a device that the website shows as placed
\* (placement_status) is where its profile wants it: not half on the old route, nor where a placement
\* that read the old profile put it.  (placeDevice, updateProfile; placements of one device one after
\* the other, assignments within the budget.)
PlacedAsProfiled ==
    (due = {} /\ \A c \in Placers : PlacingAt(c, "idle")) =>
        \A d \in Movers : placed[d] = "PLACED" =>
            Meets(d, IF d \in users /\ profile # NoProfile THEN profile ELSE Automatic)

\* "One new node per exhausted group per tick; ... prevents piling up more until that one reaches READY
\* or fails" (autoScaleFullLocations): a full location never has two servers on the way.
OneScaleOut == \A g \in Groups : Cardinality(InFlight(g)) <= 1

\* Devices are where their profile wants them, and a full location is helped once.
PlacementHolds == PlacedAsProfiled /\ OneScaleOut
=============================================================================
