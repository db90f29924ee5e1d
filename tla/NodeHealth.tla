------------------------------ MODULE NodeHealth ------------------------------
(***************************************************************************)
(* How one node's health is judged: its own heartbeats (heartbeat.js), the *)
(* protocol probes its peers and it itself report (protocol-health*.js),   *)
(* the minute's sweep for silence and the automatic replacement            *)
(* (node-silence-failover.js, node-auto-replace.js), and the alerts.       *)
(* Every one of them reads the node's row, decides and writes in separate  *)
(* statements; only the write of lifecycle_state compares.                 *)
(***************************************************************************)
EXTENDS Integers, FiniteSets

CONSTANTS
    Peers,               \* nodes that probe this one
    Liars,               \* peers whose results say the opposite of what they see
    Calls,               \* requests in progress
    FAILURE_THRESHOLD,
    SUCCESS_THRESHOLD,
    MaxReports,          \* bound: heartbeats, sweeps and reports
    MaxOrders,           \* bound: acts of the administrator
    OverlappingReports              \* during a heartbeat of the node there may be another, a sweep or two orders

ASSUME HealthParameters ==
    /\ Liars \subseteq Peers /\ OverlappingReports \in BOOLEAN
    /\ Peers \cap {"none", "heartbeat", "sweep", "replace"} = {}   \* a call's kind names a peer, or one of these
    /\ {FAILURE_THRESHOLD, SUCCESS_THRESHOLD} \subseteq Nat \ {0}
    /\ {MaxReports, MaxOrders} \subseteq Nat

VARIABLES
    row,        \* the node's row
    observed,   \* [peers assigned to it -> "none" | "ok" | "bad"]: fresh useful_egress rows of node_probe_results
    healthAlerts,     \* open alerts about the node
    replaced,   \* its REPLACE_NODE operation was started
    works,      \* the node's data plane: "always" until now, "broken", or "mended"
    call,       \* [Calls -> ...]
    reportsMade, orders

healthVars == <<row, observed, healthAlerts, replaced, works, call, reportsMade, orders>>

-----------------------------------------------------------------------------
(* Types *)

NodeState == {"PROVISIONING", "WARMING_UP", "READY", "DEGRADED", "DRAINING", "MAINTENANCE", "FAILED",
              "QUARANTINED", "RETIRED"}
\* Streaks matter up to their thresholds.
Streak == [failures : 0..FAILURE_THRESHOLD, successes : 0..SUCCESS_THRESHOLD]
\* silent: last_seen_at is three intervals old.  peerFresh: last_peer_probe_at is recent.  token: an
\* enrollment token.
NodeRow == [state : NodeState, reason : {"none", "SILENCE", "ADMIN"}, clash : Streak, proto : Streak,
            silent : BOOLEAN, peerFresh : BOOLEAN, token : BOOLEAN]
Call == [kind : {"none", "heartbeat", "sweep", "replace"} \cup Peers,
         pc : {"idle", "insert", "target", "quorum", "count", "transition", "read", "write", "cas", "token", "alert", "start"},
         ok : {"yes", "no", "absent"}, seen : NodeRow, next : NodeState \cup {"none", "unknown"}]

NoStreak == [failures |-> 0, successes |-> 0]
NewNode == [state |-> "READY", reason |-> "none", clash |-> NoStreak, proto |-> NoStreak,
            silent |-> FALSE, peerFresh |-> FALSE, token |-> FALSE]
NoCall == [kind |-> "none", pc |-> "idle", ok |-> "absent", seen |-> NewNode, next |-> "none"]

HealthTypeOK ==
    /\ row \in NodeRow /\ observed \in UNION {[P -> {"none", "ok", "bad"}] : P \in SUBSET Peers}
    /\ healthAlerts \subseteq {"node_degraded", "node_failed"}
    /\ replaced \in BOOLEAN /\ works \in {"always", "broken", "mended"}
    /\ call \in [Calls -> Call]
    /\ reportsMade \in 0..MaxReports /\ orders \in 0..MaxOrders

-----------------------------------------------------------------------------
(* Decisions *)

Least(i, j) == IF i < j THEN i ELSE j
Longer(streak, ok) ==
    IF ok THEN [failures |-> 0, successes |-> Least(streak.successes + 1, SUCCESS_THRESHOLD)]
    ELSE [failures |-> Least(streak.failures + 1, FAILURE_THRESHOLD), successes |-> 0]

canAutoRecover(r) == r.state = "FAILED" /\ r.reason = "SILENCE"

\* As if any failed node recovered on a passing streak.
evaluateProbeResult_AnyReason(ok, streak, r) ==
    LET longer == Longer(streak, ok = "yes")
    IN CASE ok = "absent" -> [streak |-> streak, next |-> IF r.state = "FAILED" THEN "READY" ELSE "none"]
         [] ok = "yes" /\ r.state = "FAILED" -> [streak |-> [failures |-> 0, successes |-> 1], next |-> "READY"]
         [] ok = "yes" /\ r.state # "FAILED" ->
                [streak |-> longer, next |-> IF r.state = "DEGRADED" /\ longer.successes = SUCCESS_THRESHOLD THEN "READY" ELSE "none"]
         [] OTHER -> [streak |-> longer, next |-> IF r.state = "READY" /\ longer.failures = FAILURE_THRESHOLD THEN "DEGRADED" ELSE "none"]
\* The streak and the state, or "none", after a probe that passed, failed or is absent.
evaluateProbeResult(ok, streak, r) ==
    LET longer == Longer(streak, ok = "yes")
    IN CASE ok = "absent" -> [streak |-> streak, next |-> IF canAutoRecover(r) THEN "READY" ELSE "none"]
         [] ok = "yes" /\ canAutoRecover(r) -> [streak |-> [failures |-> 0, successes |-> 1], next |-> "READY"]
         [] ok = "yes" /\ r.state = "FAILED" /\ ~canAutoRecover(r) -> [streak |-> streak, next |-> "none"]
         [] ok = "yes" /\ r.state # "FAILED" ->
                [streak |-> longer, next |-> IF r.state = "DEGRADED" /\ longer.successes = SUCCESS_THRESHOLD THEN "READY" ELSE "none"]
         [] OTHER -> [streak |-> longer, next |-> IF r.state = "READY" /\ longer.failures = FAILURE_THRESHOLD THEN "DEGRADED" ELSE "none"]

\* Protocol evidence neither enters nor leaves FAILED, and does not outvote the node's own probe.
evaluateProtocolHealth(ok, r) ==
    LET d == evaluateProbeResult(IF ok THEN "yes" ELSE "no", r.proto, r)
    IN IF r.state = "FAILED" THEN [streak |-> Longer(r.proto, ok), next |-> "none"]
       ELSE IF d.next = "READY" /\ r.clash.failures > 0 THEN [d EXCEPT !.next = "none"] ELSE d

protocolAllowsRecovery(r) == r.proto.failures = 0

\* What the heartbeat decides from the row it read.
Decided(ok, r) ==
    LET d == evaluateProbeResult(ok, r.clash, r)
    IN IF d.next = "READY" /\ r.state = "DEGRADED" /\ ~protocolAllowsRecovery(r) THEN [d EXCEPT !.next = "none"] ELSE d

-----------------------------------------------------------------------------
(* Protocol reports (applyProtocolReport): of a peer, and of the node itself in its heartbeat *)

At(c, pc) == call[c].pc = pc
Goto(c, pc) == call' = [call EXCEPT ![c].pc = pc]
Done(c) == call' = [call EXCEPT ![c] = NoCall]
Sees(p) == IF (works = "broken") = (p \in Liars) THEN "yes" ELSE "no"
Own == IF works = "broken" THEN "no" ELSE "yes"
Moves(to) == row' = [row EXCEPT !.state = to, !.reason = "none"]

\* A report of a peer this node is assigned to; one of a peer it is not assigned to is dropped.
PeerReports(c, p) ==
    /\ At(c, "idle") /\ p \in DOMAIN observed /\ \A b \in Calls : call[b].kind # p
    /\ reportsMade < MaxReports /\ reportsMade' = reportsMade + 1
    /\ call' = [call EXCEPT ![c] = [NoCall EXCEPT !.kind = p, !.pc = "insert", !.ok = Sees(p)]]
    /\ UNCHANGED <<row, observed, healthAlerts, replaced, works, orders>>
\* Of the rows a report becomes, only useful_egress is read again.
probeResultRows(ok) == IF ok = "yes" THEN "ok" ELSE "bad"
InsertResults(c) ==
    /\ At(c, "insert")
    /\ observed' = [observed EXCEPT ![call[c].kind] = probeResultRows(call[c].ok)]
    /\ Goto(c, "target")
    /\ UNCHANGED <<row, healthAlerts, replaced, works, reportsMade, orders>>

\* What the node says of itself counts when no peer's view is fresh.
targetVerdict(kind, ok, r) ==
    CASE kind = "heartbeat" /\ r.peerFresh -> "none"
      [] kind = "heartbeat" /\ ~r.peerFresh -> "self"
      [] OTHER -> IF ok = "yes" THEN "passing" ELSE "failing"
ReadTarget(c) ==
    /\ At(c, "target")
    /\ call' = [call EXCEPT ![c].seen = row,
                            ![c].pc = CASE targetVerdict(call[c].kind, call[c].ok, row) = "none" -> "read"
                                        [] targetVerdict(call[c].kind, call[c].ok, row) = "failing" -> "quorum"
                                        [] OTHER -> "count"]
    /\ UNCHANGED <<row, observed, healthAlerts, replaced, works, reportsMade, orders>>

\* otherPeerPassing: one peer's failure does not count while another's fresh result passes.
otherPeerPassing(p) == \E q \in DOMAIN observed \ {p} : observed[q] = "ok"
Quorum(c) ==
    /\ At(c, "quorum")
    /\ IF otherPeerPassing(call[c].kind)
       THEN row' = [row EXCEPT !.peerFresh = TRUE] /\ Done(c)
       ELSE UNCHANGED row /\ Goto(c, "count")
    /\ UNCHANGED <<observed, healthAlerts, replaced, works, reportsMade, orders>>

\* The streaks are written as computed from the row that was read.
CountVerdict(c) ==
    LET ok == IF call[c].kind = "heartbeat" THEN Own ELSE call[c].ok
        d == evaluateProtocolHealth(ok = "yes", call[c].seen)
    IN /\ At(c, "count")
       /\ row' = [row EXCEPT !.proto = d.streak, !.peerFresh = @ \/ call[c].kind # "heartbeat"]
       /\ call' = [call EXCEPT ![c].next = d.next, ![c].pc = "transition"]
       /\ UNCHANGED <<observed, healthAlerts, replaced, works, reportsMade, orders>>
ProtocolTransition(c) ==
    /\ At(c, "transition")
    /\ IF call[c].next # "none" /\ row.state = call[c].seen.state THEN Moves(call[c].next) ELSE UNCHANGED row
    /\ IF call[c].kind = "heartbeat" THEN call' = [call EXCEPT ![c] = [@ EXCEPT !.pc = "read", !.seen = NewNode, !.next = "none"]]
       ELSE Done(c)
    /\ UNCHANGED <<observed, healthAlerts, replaced, works, reportsMade, orders>>

-----------------------------------------------------------------------------
(* Heartbeats *)

Alone(kinds) == OverlappingReports \/ \A b \in Calls : call[b].kind \notin kinds

\* probe: with the result of the node's own probe, which some nodes cannot make.  self: with protocol results.
Heartbeat(c, probe, self) ==
    /\ At(c, "idle") /\ reportsMade < MaxReports /\ Alone({"heartbeat", "sweep"})
    /\ row.state \notin {"PROVISIONING", "RETIRED"}
    /\ reportsMade' = reportsMade + 1
    /\ call' = [call EXCEPT ![c] = [NoCall EXCEPT !.kind = "heartbeat", !.pc = IF self THEN "target" ELSE "read",
                                                  !.ok = IF probe THEN Own ELSE "absent"]]
    /\ UNCHANGED <<row, observed, healthAlerts, replaced, works, orders>>

ReadNode(c) ==
    /\ At(c, "read")
    /\ call' = [call EXCEPT ![c].seen = row, ![c].pc = "write",
                            ![c].next = Decided(call[c].ok, row).next]
    /\ UNCHANGED <<row, observed, healthAlerts, replaced, works, reportsMade, orders>>

\* last_seen_at and the streak are written whatever happens to the state.
WriteTelemetry(c) ==
    /\ At(c, "write")
    /\ row' = [row EXCEPT !.silent = FALSE, !.clash = Decided(call[c].ok, call[c].seen).streak]
    /\ Goto(c, "cas")
    /\ UNCHANGED <<observed, healthAlerts, replaced, works, reportsMade, orders>>

\* The transition compares lifecycle_state alone; next becomes the state the alerts are settled for.
CompareAndSet(c) ==
    LET to == call[c].next
        seen == call[c].seen.state
    IN /\ At(c, "cas")
       /\ IF to # "none" /\ row.state = seen THEN Moves(to) ELSE UNCHANGED row
       /\ call' = [call EXCEPT ![c].pc = "token", ![c].seen = NewNode,
                               ![c].next = IF to = "none" THEN seen ELSE IF row.state = seen THEN to ELSE "unknown"]
       /\ UNCHANGED <<observed, healthAlerts, replaced, works, reportsMade, orders>>

ClearEnrollmentToken(c) ==
    /\ At(c, "token")
    /\ row' = IF row.state = "PROVISIONING" THEN row ELSE [row EXCEPT !.token = FALSE]
    /\ Goto(c, "alert")
    /\ UNCHANGED <<observed, healthAlerts, replaced, works, reportsMade, orders>>

\* reconcileAlert raises or resolves each alert by the state this heartbeat believes in.
reconcileAlert(state) ==
    healthAlerts' = (CASE state = "unknown" -> healthAlerts
                 [] state = "DEGRADED" -> {"node_degraded"}
                 [] state = "FAILED" -> {"node_failed"}
                 [] OTHER -> {})
SettleAlerts(c) ==
    /\ At(c, "alert") /\ call[c].kind = "heartbeat"
    /\ reconcileAlert(call[c].next) /\ Done(c)
    /\ UNCHANGED <<row, observed, replaced, works, reportsMade, orders>>

-----------------------------------------------------------------------------
(* The minute's tick *)

Sweep(c) ==
    /\ At(c, "idle") /\ reportsMade < MaxReports /\ Alone({"heartbeat", "sweep"})
    /\ row.state \in {"READY", "DEGRADED"} /\ row.silent
    /\ reportsMade' = reportsMade + 1
    /\ call' = [call EXCEPT ![c] = [NoCall EXCEPT !.kind = "sweep", !.pc = "cas", !.seen = row]]
    /\ UNCHANGED <<row, observed, healthAlerts, replaced, works, orders>>
failSilentNodes(c) ==
    /\ At(c, "cas") /\ call[c].kind = "sweep"
    /\ IF row.state = call[c].seen.state
       THEN row' = [row EXCEPT !.state = "FAILED", !.reason = "SILENCE"] /\ Goto(c, "alert")
       ELSE UNCHANGED row /\ Done(c)
    /\ UNCHANGED <<observed, healthAlerts, replaced, works, reportsMade, orders>>
AlertSilence(c) ==
    /\ At(c, "alert") /\ call[c].kind = "sweep"
    /\ healthAlerts' = healthAlerts \cup {"node_failed"}
    /\ Done(c)
    /\ UNCHANGED <<row, observed, replaced, works, reportsMade, orders>>

\* autoReplaceFailedNodes: nodes that have been FAILED for long, with no operation of that key yet.
FindFailedNode(c) ==
    /\ At(c, "idle") /\ reportsMade < MaxReports /\ reportsMade' = reportsMade + 1
    /\ row.state = "FAILED" /\ ~replaced
    /\ call' = [call EXCEPT ![c] = [NoCall EXCEPT !.kind = "replace", !.pc = "start"]]
    /\ UNCHANGED <<row, observed, healthAlerts, replaced, works, orders>>
StartReplacement(c) ==
    /\ At(c, "start")
    /\ replaced' = TRUE
    /\ Done(c)
    /\ UNCHANGED <<row, observed, healthAlerts, works, reportsMade, orders>>

-----------------------------------------------------------------------------
(* Time, the node, and its administrator *)

\* There is always a fresh result of an honest peer, where there is an honest one.
ResultAges(p) ==
    /\ p \in DOMAIN observed /\ observed[p] # "none"
    /\ p \notin Liars => \E q \in DOMAIN observed \ (Liars \cup {p}) : observed[q] # "none"
    /\ observed' = [observed EXCEPT ![p] = "none"]
    /\ row' = IF \A q \in DOMAIN observed \ {p} : observed[q] = "none" THEN [row EXCEPT !.peerFresh = FALSE] ELSE row
    /\ UNCHANGED <<healthAlerts, replaced, works, call, reportsMade, orders>>
GoesSilent ==
    /\ ~row.silent /\ \A c \in Calls : call[c].kind # "heartbeat"
    /\ row' = [row EXCEPT !.silent = TRUE]
    /\ UNCHANGED <<observed, healthAlerts, replaced, works, call, reportsMade, orders>>
Breaks ==
    /\ works = "always" /\ works' = "broken"
    /\ UNCHANGED <<row, observed, healthAlerts, replaced, call, reportsMade, orders>>
Mended ==
    /\ works = "broken" /\ works' = "mended"
    /\ UNCHANGED <<row, observed, healthAlerts, replaced, call, reportsMade, orders>>

Allowed ==
    [PROVISIONING |-> {"FAILED", "QUARANTINED"}, WARMING_UP |-> {"READY", "FAILED", "QUARANTINED"},
     READY |-> {"FAILED", "DRAINING", "MAINTENANCE", "QUARANTINED"},
     DEGRADED |-> {"READY", "FAILED", "DRAINING", "MAINTENANCE", "QUARANTINED"},
     DRAINING |-> {"MAINTENANCE", "RETIRED", "READY", "QUARANTINED"},
     MAINTENANCE |-> {"READY", "DRAINING", "QUARANTINED"},
     FAILED |-> {"PROVISIONING", "READY", "DRAINING", "QUARANTINED", "RETIRED"},
     QUARANTINED |-> {"RETIRED"}, RETIRED |-> {}]
Orders(to) ==
    /\ orders < MaxOrders /\ to \in Allowed[row.state]
    /\ OverlappingReports \/ \A c \in Calls : call[c].kind = "heartbeat" /\ (At(c, "write") \/ At(c, "cas")) => call[c].seen.state = row.state
    /\ orders' = orders + 1
    /\ row' = [row EXCEPT !.state = to, !.reason = IF to = "FAILED" THEN "ADMIN" ELSE "none",
                          !.token = to = "PROVISIONING" \/ @]
    /\ UNCHANGED <<observed, healthAlerts, replaced, works, call, reportsMade>>
Enrolls ==
    /\ row.state = "PROVISIONING" /\ row.token
    /\ row' = [row EXCEPT !.state = "WARMING_UP"]
    /\ UNCHANGED <<observed, healthAlerts, replaced, works, call, reportsMade, orders>>

-----------------------------------------------------------------------------
HealthInit ==
    /\ \E probers \in {Peers, {}} : observed = [p \in probers |-> IF p \in Liars THEN "none" ELSE "ok"]
    /\ row = [NewNode EXCEPT !.peerFresh = DOMAIN observed \ Liars # {}]
    /\ healthAlerts = {} /\ replaced = FALSE /\ works = "always"
    /\ call = [c \in Calls |-> NoCall] /\ reportsMade = 0 /\ orders = 0

Automation ==
    \E c \in Calls :
        \/ InsertResults(c) \/ ReadTarget(c) \/ Quorum(c) \/ CountVerdict(c) \/ ProtocolTransition(c)
        \/ ReadNode(c) \/ WriteTelemetry(c) \/ (call[c].kind = "heartbeat" /\ CompareAndSet(c)) \/ ClearEnrollmentToken(c) \/ SettleAlerts(c)
        \/ Sweep(c) \/ failSilentNodes(c) \/ AlertSilence(c) \/ FindFailedNode(c) \/ StartReplacement(c)
        \/ \E p \in Peers : PeerReports(c, p)
        \/ \E probe, self \in BOOLEAN : Heartbeat(c, probe, self)
HealthNext ==
    \/ Automation \/ Enrolls
    \/ \E p \in Peers : ResultAges(p)
    \/ GoesSilent \/ Breaks \/ Mended
    \/ \E to \in NodeState : Orders(to)

HealthSpec == HealthInit /\ [][HealthNext]_healthVars

-----------------------------------------------------------------------------
(* Properties *)

\* Automation takes a node out of FAILED only when it was put there for its silence, however its
\* requests and the administrator's orders interleave (node-health-transition.js:57-63).
ReasonRespected ==
    [][(row.state = "FAILED" /\ row.reason # "SILENCE" /\ row'.state # "FAILED") => orders' > orders]_healthVars

\* A peer that lies, or cannot reach the node, does not degrade a node that never broke and that an
\* honest peer sees passing (protocol-health-store.js:76-78).
LiarCannotDegrade ==
    works = "always" /\ DOMAIN observed \ Liars # {} => row.state # "DEGRADED"

\* A node that failed by its silence has its alert open once the sweep is done; the operators are not
\* left without word of a dead node.
FailedIsAlerted ==
    (row.state = "FAILED" /\ row.reason = "SILENCE" /\ \A c \in Calls : call[c].kind \notin {"sweep", "heartbeat"})
        => "node_failed" \in healthAlerts

\* Health is judged by those who may judge it, and a judgement is made known.
HealthIsHonest == ReasonRespected /\ [](LiarCannotDegrade /\ FailedIsAlerted)
=============================================================================
