---------------------------- MODULE FleetOperations ----------------------------
(***************************************************************************)
(* Resumable fleet operations (fleet-operations.js): creating a node,      *)
(* replacing one by another and cleaning up an abandoned one.  An          *)
(* operation is a list of named steps; advanceOperation runs them in order *)
(* until one waits or fails, in the request that created the operation and *)
(* in the minute tick that leases it.  The provider, the DNS, the nodes'   *)
(* agents and administrators act meanwhile, and a call may die anywhere.   *)
(*                                                                         *)
(* Every statement that writes to the database, the provider or the DNS is *)
(* a step of its own.  An operation that is not being advanced is due      *)
(* (next_attempt_at only delays it); a step that keeps failing becomes     *)
(* fatal at some attempt (MAX_STEP_ATTEMPTS).                              *)
(***************************************************************************)
EXTENDS Integers, Sequences, FiniteSets, SequencesExt

CONSTANTS
    Nodes, Devices,
    Serving,      \* the nodes that are READY at the start
    Kinds,        \* the types of operations that are started
    AdminMoves,   \* the states an administrator moves nodes to
    ReadyPasses,  \* READINESS_CONSECUTIVE_PASSES (3)
    Calls,        \* calls of advanceOperation that can be in progress
    OneCall,      \* an operation is advanced by one call at a time
    MaxOps, MaxFaults   \* bounds of the model

LifecycleState == {"PROVISIONING", "WARMING_UP", "CANARY", "READY", "DEGRADED", "DRAINING",
                   "MAINTENANCE", "FAILED", "QUARANTINED", "RETIRED"}

ASSUME Parameters ==
    /\ Serving \subseteq Nodes
    /\ Kinds \subseteq {"CREATE_NODE", "REPLACE_NODE", "CLEANUP_ABANDONED_NODE"}
    /\ AdminMoves \subseteq LifecycleState
    /\ ReadyPasses \in Nat \ {0}
    /\ OneCall \in BOOLEAN
    /\ {MaxOps, MaxFaults} \subseteq Nat

VARIABLES
    node,      \* [Nodes -> Node]: the rows of nodes
    servers,   \* the servers at the provider: [node, token] with the token in its user data
    dns,       \* the nodes whose hostname resolves
    assigned,  \* [Devices -> Nodes \cup {"none"}]: device_node_assignments
    ops,       \* fleet_operations with their operation_steps, in the order of creation
    call,      \* [Calls -> Call]: the calls of advanceOperation
    faults     \* how many faults happened and how often an administrator stepped in

world == <<servers, dns, assigned>>
vars == <<node, world, ops, call, faults>>

-----------------------------------------------------------------------------
(* Types *)

CREATE_NODE_STEPS == <<"CREATE_INSTANCE", "PUBLISH_DNS", "AWAIT_ENROLLMENT",
                       "AWAIT_BOOTSTRAP", "VERIFY_READINESS", "MARK_READY">>
REPLACE_NODE_STEPS ==
    CREATE_NODE_STEPS \o <<"AWAIT_CANARY", "DRAIN_OLD_NODE", "RETIRE_OLD_NODE">>
CLEANUP_ABANDONED_NODE_STEPS ==
    <<"VERIFY_ELIGIBLE", "REMOVE_DNS", "REVOKE_AND_RETIRE", "DESTROY_INSTANCE">>

StepName == ToSet(REPLACE_NODE_STEPS) \cup ToSet(CLEANUP_ABANDONED_NODE_STEPS)
StepsOf(type) == CASE type = "CREATE_NODE" -> CREATE_NODE_STEPS
                   [] type = "REPLACE_NODE" -> REPLACE_NODE_STEPS
                   [] OTHER -> CLEANUP_ABANDONED_NODE_STEPS

\* token: the enrollment token whose hash is stored, the minted-th of this node.  instance:
\* provider_instance_id, the token of that server, 0 when null.  key: a node key is stored and
\* not revoked.  lost: silent for three heartbeats, or three probes failed.  window: the canary
\* observation time is over.
Node == [state : LifecycleState \cup {"none"}, reason : {"none", "SILENCE", "ADMIN", "BOOT_TIMEOUT", "CANARY_ABORT"},
         minted : Nat, token : Nat, instance : Nat, key : BOOLEAN, booted : BOOLEAN,
         lost : BOOLEAN, window : BOOLEAN, dnsRemoved : BOOLEAN, destroyed : BOOLEAN]

Server == [node : Nodes, token : Nat \ {0}]

\* done: the steps that are COMPLETED.  passes: consecutivePasses.  drain: drainDeadline.
Operation == [type : Kinds, node : Nodes, old : Nodes, canary : BOOLEAN,
              status : {"RUNNING", "COMPLETED", "FAILED"}, done : SUBSET StepName,
              passes : 0..ReadyPasses, drain : {"unset", "set", "over"},
              leased : BOOLEAN, overdue : BOOLEAN]

\* What a step's handler does next, or its outcome.
Handling == StepName \cup {"mint", "create", "record", "abort", "checkDns", "retire", "destroy", "note"}
Outcome == {"done", "wait", "error", "fatal"}
\* done, passes and drain as the call read them; seen: the row its step read.
Call == [op : 0..MaxOps, pc : {"idle", "load", "failNode"} \cup Handling \cup Outcome,
         step : StepName, done : SUBSET StepName, passes : 0..ReadyPasses, drain : BOOLEAN, seen : Node]

NoRow == [state |-> "none", reason |-> "none", minted |-> 0, token |-> 0, instance |-> 0,
          key |-> FALSE, booted |-> FALSE, lost |-> FALSE, window |-> FALSE,
          dnsRemoved |-> FALSE, destroyed |-> FALSE]
Idle == [op |-> 0, pc |-> "idle", step |-> "CREATE_INSTANCE", done |-> {}, passes |-> 0,
         drain |-> FALSE, seen |-> NoRow]

TypeOK ==
    /\ node \in [Nodes -> Node]
    /\ servers \subseteq Server
    /\ dns \subseteq Nodes
    /\ assigned \in [Devices -> Nodes \cup {"none"}]
    /\ ops \in Seq(Operation) /\ Len(ops) <= MaxOps
    /\ call \in [Calls -> Call]
    /\ faults \in 0..MaxFaults

-----------------------------------------------------------------------------
(* node-lifecycle.js *)

ALLOWED_TRANSITIONS ==
    [PROVISIONING |-> {"WARMING_UP", "FAILED", "QUARANTINED"},
     WARMING_UP |-> {"READY", "CANARY", "FAILED", "QUARANTINED"},
     CANARY |-> {"READY", "FAILED", "QUARANTINED", "MAINTENANCE"},
     READY |-> {"DEGRADED", "FAILED", "DRAINING", "MAINTENANCE", "QUARANTINED"},
     DEGRADED |-> {"READY", "FAILED", "DRAINING", "MAINTENANCE", "QUARANTINED"},
     DRAINING |-> {"MAINTENANCE", "RETIRED", "READY", "QUARANTINED"},
     MAINTENANCE |-> {"READY", "DRAINING", "QUARANTINED"},
     FAILED |-> {"PROVISIONING", "READY", "DRAINING", "QUARANTINED", "RETIRED"},
     QUARANTINED |-> {"RETIRED"},
     RETIRED |-> {}]
CanTransition(from, to) == to \in ALLOWED_TRANSITIONS[from]

\* Entering CANARY starts the observation time anew (lifecycle_state_changed_at).
Moved(row, to) == [row EXCEPT !.state = to, !.window = @ /\ to # "CANARY"]
Failed(row, why) == [row EXCEPT !.state = "FAILED", !.reason = why]
\* revoke_node_key_and_transition.
Revoked(row, to) == [row EXCEPT !.state = to, !.reason = "none", !.key = FALSE]

AssignedTo(n) == {d \in Devices : assigned[d] = n}
ServersOf(n) == {s \in servers : s.node = n}

-----------------------------------------------------------------------------
(* advanceOperation *)

OpOf(c) == ops[call[c].op]
Target(c) == OpOf(c).node
Subject(c) == IF call[c].step \in {"DRAIN_OLD_NODE", "RETIRE_OLD_NODE"} THEN OpOf(c).old ELSE Target(c)
Busy(i) == \E c \in Calls : call[c].op = i

At(c, pc) == call[c].pc = pc
Goto(c, pc) == call' = [call EXCEPT ![c].pc = pc]
\* The handler returned or threw: the row it read is forgotten.
Ends(c, outcome) == call' = [call EXCEPT ![c].pc = outcome, ![c].seen = NoRow]

\* A call reads the steps, and stops at once when the deadline has passed.  An operation's row
\* is op, as the caller has it.
Advance(c, i, op) ==
    /\ At(c, "idle") /\ (OneCall => ~Busy(i))
    /\ call' = [call EXCEPT ![c] = [Idle EXCEPT !.op = i, !.pc = IF op.overdue THEN "failNode" ELSE "load",
                    !.done = op.done, !.passes = op.passes, !.drain = (op.drain # "unset")]]
\* The row of an operation a call begins to advance: overdue fails it.
Begun(op) == IF op.overdue THEN [op EXCEPT !.status = "FAILED", !.leased = FALSE] ELSE op

\* The steps that the call does not know to be COMPLETED; it takes the first one, and its handler
\* reads a row.
Steps(c) == StepsOf(OpOf(c).type)
Todo(c) == {k \in DOMAIN Steps(c) : Steps(c)[k] \notin call[c].done}
LoadStep(c) ==
    /\ At(c, "load")
    /\ \E k \in Todo(c) :
           LET s == Steps(c)[k]
               n == IF s \in {"DRAIN_OLD_NODE", "RETIRE_OLD_NODE"} THEN OpOf(c).old ELSE Target(c)
           IN /\ \A j \in Todo(c) : k <= j
              /\ call' = [call EXCEPT ![c].step = s, ![c].pc = s, ![c].seen = node[n]]
    /\ UNCHANGED <<node, world, ops, faults>>

StepDone(c) ==
    /\ At(c, "done")
    /\ ops' = [ops EXCEPT ![call[c].op].done = @ \cup {call[c].step}]
    /\ call' = [call EXCEPT ![c].pc = "load", ![c].done = @ \cup {call[c].step}]
    /\ UNCHANGED <<node, world, faults>>

\* The step's detail is written, then the operation is put off until later.
StepWaits(c) ==
    /\ At(c, "wait")
    /\ ops' = [ops EXCEPT ![call[c].op] = [OpOf(c) EXCEPT !.leased = FALSE,
          !.passes = IF call[c].step = "VERIFY_READINESS" THEN call[c].passes ELSE @,
          !.drain = IF call[c].step = "DRAIN_OLD_NODE" /\ ~call[c].drain THEN "set" ELSE @]]
    /\ call' = [call EXCEPT ![c] = Idle]
    /\ UNCHANGED <<node, world, faults>>

\* A step that failed is tried again later, or has failed often enough.
StepFails(c) ==
    /\ At(c, "error")
    /\ \/ /\ ops' = [ops EXCEPT ![call[c].op] = [OpOf(c) EXCEPT !.leased = FALSE, !.done = @ \ {call[c].step}]]
          /\ call' = [call EXCEPT ![c] = Idle]
       \/ Goto(c, "fatal") /\ UNCHANGED ops
    /\ UNCHANGED <<node, world, faults>>

StepFatal(c) ==
    /\ At(c, "fatal")
    /\ ops' = [ops EXCEPT ![call[c].op] =
          [OpOf(c) EXCEPT !.leased = FALSE, !.status = "FAILED", !.done = @ \ {call[c].step}]]
    /\ Goto(c, "failNode")
    /\ UNCHANGED <<node, world, faults>>

FailNodeIfBooting(c) ==
    /\ At(c, "failNode")
    /\ node' = [node EXCEPT ![Target(c)] =
          IF @.state \in {"PROVISIONING", "WARMING_UP", "CANARY"} THEN Failed(@, "BOOT_TIMEOUT") ELSE @]
    /\ call' = [call EXCEPT ![c] = Idle]
    /\ UNCHANGED <<world, ops, faults>>

FinishOperation(c) ==
    /\ At(c, "load") /\ Todo(c) = {}
    /\ ops' = [ops EXCEPT ![call[c].op] = [@ EXCEPT !.leased = FALSE, !.status = "COMPLETED"]]
    /\ call' = [call EXCEPT ![c] = Idle]
    /\ UNCHANGED <<node, world, faults>>

-----------------------------------------------------------------------------
(* CREATE_NODE_HANDLERS *)

\* The provider is asked for a server with the node's label.
CreateInstance(c) ==
    /\ At(c, "CREATE_INSTANCE")
    /\ LET row == call[c].seen
           found == ServersOf(Target(c))
       IN CASE row.instance # 0 -> Ends(c, "done")
            [] row.instance = 0 /\ Cardinality(found) > 1 -> Ends(c, "error")
            [] row.instance = 0 /\ Cardinality(found) = 1 ->
                  call' = [call EXCEPT ![c].pc = "record", ![c].seen.instance = (CHOOSE s \in found : TRUE).token]
            [] row.instance = 0 /\ found = {} /\ row.state # "PROVISIONING" -> Ends(c, "fatal")
            [] OTHER -> Goto(c, "mint")
    /\ UNCHANGED <<node, world, ops, faults>>

\* The hash of a new enrollment token is stored while the node is PROVISIONING.  The token is
\* in the call's memory only: seen.instance numbers the server it is going to make.
MintToken(c) ==
    /\ At(c, "mint")
    /\ IF node[Target(c)].state = "PROVISIONING"
       THEN LET t == node[Target(c)].minted + 1
            IN /\ node' = [node EXCEPT ![Target(c)] = [@ EXCEPT !.minted = t, !.token = t]]
               /\ call' = [call EXCEPT ![c].pc = "create", ![c].seen.instance = t]
       ELSE Ends(c, "fatal") /\ UNCHANGED node
    /\ UNCHANGED <<world, ops, faults>>

CreateServer(c) ==
    /\ At(c, "create")
    /\ servers' = servers \cup {[node |-> Target(c), token |-> call[c].seen.instance]}
    /\ Goto(c, "record")
    /\ UNCHANGED <<node, dns, assigned, ops, faults>>

RecordServer(c) ==
    /\ At(c, "record")
    /\ node' = [node EXCEPT ![Target(c)].instance = call[c].seen.instance]
    /\ Ends(c, "done")
    /\ UNCHANGED <<world, ops, faults>>

PublishDns(c) ==
    /\ At(c, "PUBLISH_DNS")
    /\ IF call[c].seen.instance = 0
       THEN Ends(c, "error") /\ UNCHANGED dns
       ELSE Ends(c, "done") /\ dns' = dns \cup {Target(c)}
    /\ UNCHANGED <<node, servers, assigned, ops, faults>>

AwaitEnrollment(c) ==
    /\ At(c, "AWAIT_ENROLLMENT")
    /\ CASE call[c].seen.state = "PROVISIONING" -> Ends(c, "wait")
         [] call[c].seen.state \in {"WARMING_UP", "READY"} -> Ends(c, "done")
         [] OTHER -> Ends(c, "fatal")
    /\ UNCHANGED <<node, world, ops, faults>>

AwaitBootstrap(c) ==
    /\ At(c, "AWAIT_BOOTSTRAP")
    /\ CASE call[c].seen.state \notin {"WARMING_UP", "READY"} -> Ends(c, "fatal")
         [] call[c].seen.state \in {"WARMING_UP", "READY"} /\ call[c].seen.booted -> Ends(c, "done")
         [] OTHER -> Ends(c, "wait")
    /\ UNCHANGED <<node, world, ops, faults>>

\* A pass needs a fresh heartbeat and a probe that succeeds.
\* Mutant: one pass too many is asked for.
VerifyReadiness_OneMore(c) ==
    /\ At(c, "VERIFY_READINESS")
    /\ CASE call[c].seen.state = "READY" -> Ends(c, "done")
         [] call[c].seen.state \notin {"READY", "WARMING_UP"} -> Ends(c, "fatal")
         [] OTHER ->
              \E ok \in BOOLEAN :
                 LET passes == IF ok /\ ~call[c].seen.lost THEN call[c].passes + 1 ELSE 0
                 IN call' = [call EXCEPT ![c] = [@ EXCEPT !.passes = passes, !.seen = NoRow,
                                !.pc = IF passes > ReadyPasses THEN "done" ELSE "wait"]]
    /\ UNCHANGED <<node, world, ops, faults>>
VerifyReadiness(c) ==
    /\ At(c, "VERIFY_READINESS")
    /\ CASE call[c].seen.state = "READY" -> Ends(c, "done")
         [] call[c].seen.state \notin {"READY", "WARMING_UP"} -> Ends(c, "fatal")
         [] OTHER ->
              \E ok \in BOOLEAN :
                 LET passes == IF ok /\ ~call[c].seen.lost THEN call[c].passes + 1 ELSE 0
                 IN call' = [call EXCEPT ![c] = [@ EXCEPT !.passes = passes, !.seen = NoRow,
                                !.pc = IF passes >= ReadyPasses THEN "done" ELSE "wait"]]
    /\ UNCHANGED <<node, world, ops, faults>>

\* MARK_READY of both types of operation: compare and set on the state that was read.
\* Mutant: the update does not name the state that was read.
MarkReady_Blind(c) ==
    /\ At(c, "MARK_READY")
    /\ LET was == call[c].seen.state
           to == IF OpOf(c).canary THEN "CANARY" ELSE "READY"
           already == was = "READY" \/ (OpOf(c).type = "REPLACE_NODE" /\ was = "CANARY")
       IN IF already \/ ~CanTransition(was, to)
          THEN Ends(c, IF already THEN "done" ELSE "fatal") /\ UNCHANGED node
          ELSE Ends(c, "done") /\ node' = [node EXCEPT ![Target(c)] = Moved(@, to)]
    /\ UNCHANGED <<world, ops, faults>>
MarkReady(c) ==
    /\ At(c, "MARK_READY")
    /\ LET was == call[c].seen.state
           to == IF OpOf(c).canary THEN "CANARY" ELSE "READY"
           already == was = "READY" \/ (OpOf(c).type = "REPLACE_NODE" /\ was = "CANARY")
       IN CASE already -> Ends(c, "done") /\ UNCHANGED node
            [] ~already /\ ~CanTransition(was, to) -> Ends(c, "fatal") /\ UNCHANGED node
            [] OTHER -> IF node[Target(c)].state = was
                        THEN Ends(c, "done") /\ node' = [node EXCEPT ![Target(c)] = Moved(@, to)]
                        ELSE Ends(c, "error") /\ UNCHANGED node
    /\ UNCHANGED <<world, ops, faults>>

-----------------------------------------------------------------------------
(* REPLACE_NODE_HANDLERS *)

\* A canary that is lost is failed; one whose time is over is promoted; both name CANARY.
\* Mutant: the observation time is not awaited.
AwaitCanary_Impatient(c) ==
    /\ At(c, "AWAIT_CANARY")
    /\ LET row == call[c].seen
       IN CASE ~OpOf(c).canary \/ row.state = "READY" -> Ends(c, "done") /\ UNCHANGED node
            [] OpOf(c).canary /\ row.state \notin {"READY", "CANARY"} -> Ends(c, "fatal") /\ UNCHANGED node
            [] OTHER -> IF node[Target(c)].state # "CANARY" THEN Ends(c, "error") /\ UNCHANGED node
                        ELSE IF row.lost
                        THEN Ends(c, "fatal") /\ node' = [node EXCEPT ![Target(c)] = Failed(@, "CANARY_ABORT")]
                        ELSE Ends(c, "done") /\ node' = [node EXCEPT ![Target(c)] = Moved(@, "READY")]
    /\ UNCHANGED <<world, ops, faults>>
AwaitCanary(c) ==
    /\ At(c, "AWAIT_CANARY")
    /\ LET row == call[c].seen
           still == node[Target(c)].state = "CANARY"
           judged == OpOf(c).canary /\ row.state = "CANARY"
       IN \/ /\ ~OpOf(c).canary \/ row.state = "READY"
             /\ Ends(c, "done") /\ UNCHANGED node
          \/ /\ OpOf(c).canary /\ row.state \notin {"READY", "CANARY"}
             /\ Ends(c, "fatal") /\ UNCHANGED node
          \/ /\ judged /\ row.lost /\ still
             /\ Ends(c, "fatal") /\ node' = [node EXCEPT ![Target(c)] = Failed(@, "CANARY_ABORT")]
          \/ /\ judged /\ ~row.lost /\ ~row.window
             /\ Ends(c, "wait") /\ UNCHANGED node
          \/ /\ judged /\ ~row.lost /\ row.window /\ still
             /\ Ends(c, "done") /\ node' = [node EXCEPT ![Target(c)] = Moved(@, "READY")]
          \/ /\ judged /\ (row.lost \/ row.window) /\ ~still
             /\ Ends(c, "error") /\ UNCHANGED node
    /\ UNCHANGED <<world, ops, faults>>

\* The first visit moves the old node to DRAINING and sets the deadline; the later ones wait
\* until no device is assigned to it or the deadline has passed.
DrainOldNode(c) ==
    /\ At(c, "DRAIN_OLD_NODE")
    /\ LET was == call[c].seen.state
           old == OpOf(c).old
           over == AssignedTo(old) = {} \/ OpOf(c).drain = "over"
       IN \/ /\ ~call[c].drain /\ was = "DRAINING"
             /\ Ends(c, "wait") /\ UNCHANGED node
          \/ /\ ~call[c].drain /\ was # "DRAINING" /\ CanTransition(was, "DRAINING") /\ node[old].state = was
             /\ Ends(c, "wait") /\ node' = [node EXCEPT ![old] = Moved(@, "DRAINING")]
          \/ /\ ~call[c].drain /\ was # "DRAINING"
             /\ ~CanTransition(was, "DRAINING") \/ node[old].state # was
             /\ Ends(c, "fatal") /\ UNCHANGED node
          \/ /\ call[c].drain /\ was # "DRAINING"
             /\ Ends(c, "fatal") /\ UNCHANGED node
          \/ /\ call[c].drain /\ was = "DRAINING"
             /\ Ends(c, IF over THEN "done" ELSE "wait") /\ UNCHANGED node
    /\ UNCHANGED <<world, ops, faults>>

RetireOldNode(c) ==
    /\ At(c, "RETIRE_OLD_NODE")
    /\ LET row == call[c].seen
       IN \/ /\ row.state \notin {"DRAINING", "RETIRED"}
             /\ Ends(c, "fatal") /\ UNCHANGED dns
          \/ /\ row.state \in {"DRAINING", "RETIRED"} /\ ~row.dnsRemoved
             /\ Goto(c, "checkDns") /\ dns' \in {dns, dns \ {OpOf(c).old}}
          \/ /\ row.state \in {"DRAINING", "RETIRED"} /\ row.dnsRemoved
             /\ Goto(c, IF row.state = "DRAINING" THEN "retire" ELSE "destroy") /\ UNCHANGED dns
    /\ UNCHANGED <<node, servers, assigned, ops, faults>>

\* The name is looked up after the delete call, which may not have taken effect yet.
CheckDns(c) ==
    /\ At(c, "checkDns")
    /\ IF Subject(c) \in dns
       THEN Ends(c, "wait") /\ UNCHANGED node
       ELSE /\ node' = [node EXCEPT ![Subject(c)].dnsRemoved = TRUE]
            /\ IF call[c].step = "REMOVE_DNS" THEN Ends(c, "done")
               ELSE Goto(c, IF call[c].seen.state = "DRAINING" THEN "retire" ELSE "destroy")
    /\ UNCHANGED <<world, ops, faults>>

\* A plain update: the node's key stays stored.
Retire(c) ==
    /\ At(c, "retire")
    /\ IF node[Subject(c)].state = "DRAINING"
       THEN Goto(c, "destroy") /\ node' = [node EXCEPT ![Subject(c)] = Moved(@, "RETIRED")]
       ELSE Ends(c, "error") /\ UNCHANGED node
    /\ UNCHANGED <<world, ops, faults>>

\* Destroying a server that is gone succeeds.
DestroyServer(c) ==
    /\ At(c, "destroy")
    /\ servers' = servers \ {[node |-> Subject(c), token |-> call[c].seen.instance]}
    /\ IF call[c].step = "DESTROY_INSTANCE" THEN Goto(c, "note") ELSE Ends(c, "done")
    /\ UNCHANGED <<node, dns, assigned, ops, faults>>

-----------------------------------------------------------------------------
(* CLEANUP_ABANDONED_NODE_HANDLERS *)

VerifyEligible(c) ==
    /\ At(c, "VERIFY_ELIGIBLE")
    /\ CASE call[c].seen.state \notin {"FAILED", "RETIRED"} -> Ends(c, "fatal")
         [] call[c].seen.state \in {"FAILED", "RETIRED"} /\ AssignedTo(Target(c)) # {} -> Ends(c, "wait")
         [] OTHER -> Ends(c, "done")
    /\ UNCHANGED <<node, world, ops, faults>>

RemoveDns(c) ==
    /\ At(c, "REMOVE_DNS")
    /\ IF call[c].seen.dnsRemoved
       THEN Ends(c, "done") /\ UNCHANGED dns
       ELSE Goto(c, "checkDns") /\ dns' \in {dns, dns \ {Target(c)}}
    /\ UNCHANGED <<node, servers, assigned, ops, faults>>

RevokeAndRetire(c) ==
    /\ At(c, "REVOKE_AND_RETIRE")
    /\ LET row == node[Target(c)]
       IN CASE call[c].seen.state = "RETIRED" ->
                  Ends(c, "done") /\ node' = [node EXCEPT ![Target(c)].key = FALSE]
            [] call[c].seen.state # "RETIRED" /\ row.state = "FAILED" /\ row.dnsRemoved ->
                  Ends(c, "done") /\ node' = [node EXCEPT ![Target(c)] = Revoked(@, "RETIRED")]
            [] OTHER -> Ends(c, "fatal") /\ UNCHANGED node
    /\ UNCHANGED <<world, ops, faults>>

DestroyInstance(c) ==
    /\ At(c, "DESTROY_INSTANCE")
    /\ CASE call[c].seen.destroyed -> Ends(c, "done")
         [] ~call[c].seen.destroyed /\ call[c].seen.instance # 0 -> Goto(c, "destroy")
         [] OTHER -> Goto(c, "note")
    /\ UNCHANGED <<node, world, ops, faults>>

NoteDestroyed(c) ==
    /\ At(c, "note")
    /\ node' = [node EXCEPT ![Target(c)].destroyed = TRUE]
    /\ Ends(c, "done")
    /\ UNCHANGED <<world, ops, faults>>

-----------------------------------------------------------------------------
(* Starting, leasing, failing *)

NewOperation(type, n, old, canary) ==
    [type |-> type, node |-> n, old |-> old, canary |-> canary, status |-> "RUNNING", done |-> {},
     passes |-> 0, drain |-> "unset", leased |-> FALSE, overdue |-> FALSE]

\* The node's row, the operation and its steps, in one transaction.
Register(type, n, old, canary) ==
    /\ type \in Kinds /\ Len(ops) < MaxOps
    /\ node[n].state = "none"
    /\ node' = [node EXCEPT ![n] = Moved(NoRow, "PROVISIONING")]
    /\ ops' = Append(ops, NewOperation(type, n, old, canary))
    /\ UNCHANGED <<world, faults>>
startCreateNodeOperation(n) == Register("CREATE_NODE", n, n, FALSE)
\* A node is replaced once: the key of the operation names the old one.
startReplaceNodeOperation(n, old, canary) ==
    /\ ~\E i \in DOMAIN ops : ops[i].type = "REPLACE_NODE" /\ ops[i].old = old
    /\ Register("REPLACE_NODE", n, old, canary)

\* An administrator's request advances the operation it registered, which it does not lease.
AdvancedAtOnce == \E c \in Calls : Advance(c, Len(ops'), ops'[Len(ops')])
createProviderNode(n) == startCreateNodeOperation(n) /\ AdvancedAtOnce
StartReplace(n, old, canary) ==
    /\ node[old].state \in {"READY", "DEGRADED", "FAILED"}
    /\ startReplaceNodeOperation(n, old, canary) /\ AdvancedAtOnce

\* Automation leaves it to the tick, and replaces no node whose own operation failed before it was ready.
autoScaleFullLocations(n) ==
    /\ \E m \in Nodes : node[m].state \in {"READY", "CANARY"}
    /\ \A m \in Nodes : node[m].state \notin {"PROVISIONING", "WARMING_UP"}
    /\ startCreateNodeOperation(n) /\ UNCHANGED call
neverReadyNodeIds == {ops[i].node : i \in {j \in DOMAIN ops : ops[j].status = "FAILED" /\ "MARK_READY" \notin ops[j].done}}
autoReplaceFailedNodes(n, old, canary) ==
    /\ node[old].state = "FAILED" /\ old \notin neverReadyNodeIds
    /\ startReplaceNodeOperation(n, old, canary) /\ UNCHANGED call

\* A node that has been FAILED for a day: the minute tick has long ended what was making it.
\* Or a RETIRED one whose server is not known to be destroyed.
Abandoned(n) ==
    \/ node[n].state = "FAILED" /\ \A i \in DOMAIN ops :
          ops[i].node = n /\ ops[i].type # "CLEANUP_ABANDONED_NODE" => ops[i].status # "RUNNING" /\ ~Busy(i)
    \/ node[n].state = "RETIRED" /\ node[n].instance # 0 /\ ~node[n].destroyed
CleanupOps(n) == {i \in DOMAIN ops : ops[i].type = "CLEANUP_ABANDONED_NODE" /\ ops[i].node = n}

\* A node's cleanup operation is registered, or found in whatever status it is.
startCleanupAbandonedNodeOperation(n) ==
    IF CleanupOps(n) = {}
    THEN Len(ops) < MaxOps /\ ops' = Append(ops, NewOperation("CLEANUP_ABANDONED_NODE", n, n, FALSE)) /\ AdvancedAtOnce
    ELSE \E i \in CleanupOps(n), c \in Calls :
             Advance(c, i, ops[i]) /\ ops' = [ops EXCEPT ![i] = Begun(@)]

\* The sweep: a node nobody is assigned to; its operation is advanced without a lease.
Sweep(n) ==
    /\ Abandoned(n) /\ AssignedTo(n) = {} /\ "CLEANUP_ABANDONED_NODE" \in Kinds
    /\ startCleanupAbandonedNodeOperation(n)
    /\ UNCHANGED <<node, world, faults>>

\* lease_fleet_operations, and the tick advances what it leased.
\* Mutant: only operations that were never leased before.
Tick_Once(c, i) ==
    /\ i \in DOMAIN ops /\ ops[i].status = "RUNNING" /\ ~ops[i].leased /\ ops[i].done = {}
    /\ Advance(c, i, ops[i])
    /\ ops' = [ops EXCEPT ![i] = Begun([@ EXCEPT !.leased = TRUE])]
    /\ UNCHANGED <<node, world, faults>>
Tick(c, i) ==
    /\ i \in DOMAIN ops /\ ops[i].status = "RUNNING" /\ ~ops[i].leased
    /\ Advance(c, i, ops[i])
    /\ ops' = [ops EXCEPT ![i] = Begun([@ EXCEPT !.leased = TRUE])]
    /\ UNCHANGED <<node, world, faults>>

LeaseLapses(i) ==
    /\ i \in DOMAIN ops /\ ops[i].leased /\ (OneCall => ~Busy(i))
    /\ ops' = [ops EXCEPT ![i].leased = FALSE]
    /\ UNCHANGED <<node, world, call, faults>>

\* A statement fails, with or without having had its effect, and the handler throws.
StatementFails(c) ==
    /\ faults < MaxFaults /\ call[c].pc \in Handling
    /\ faults' = faults + 1
    /\ Ends(c, "error")
    /\ UNCHANGED <<node, world, ops>>

\* The Worker dies, or a statement of the engine itself fails.
CallDies(c) ==
    /\ faults < MaxFaults /\ ~At(c, "idle")
    /\ faults' = faults + 1
    /\ call' = [call EXCEPT ![c] = Idle]
    /\ UNCHANGED <<node, world, ops>>

-----------------------------------------------------------------------------
(* Time, the nodes, administrators and devices *)

DeadlinePasses(i) ==
    /\ i \in DOMAIN ops /\ ~ops[i].overdue
    /\ ops[i].status = "RUNNING" \/ ops[i].type = "CLEANUP_ABANDONED_NODE"
    /\ ops' = [ops EXCEPT ![i].overdue = TRUE]
    /\ UNCHANGED <<node, world, call, faults>>

DrainDeadlinePasses(i) ==
    /\ i \in DOMAIN ops /\ ops[i].drain = "set"
    /\ ops' = [ops EXCEPT ![i].drain = "over"]
    /\ UNCHANGED <<node, world, call, faults>>

Becomes(n, row) ==
    /\ node' = [node EXCEPT ![n] = row]
    /\ UNCHANGED <<world, ops, call, faults>>

WindowElapses(n) ==
    node[n].state = "CANARY" /\ ~node[n].window /\ Becomes(n, [node[n] EXCEPT !.window = TRUE])

Running(n) == ServersOf(n) # {}
\* agent/enroll.js: a running server holds the token whose hash is stored.
Enroll(n) ==
    /\ node[n].state = "PROVISIONING" /\ [node |-> n, token |-> node[n].token] \in servers
    /\ Becomes(n, [node[n] EXCEPT !.state = "WARMING_UP", !.key = TRUE])
\* agent/bootstrap-status.js asks for the node's key; the report is read in these two states only.
Boots(n) ==
    /\ node[n].state \in {"WARMING_UP", "READY"} /\ node[n].key /\ Running(n) /\ ~node[n].booted
    /\ Becomes(n, [node[n] EXCEPT !.booted = TRUE])

GetsLost(n) ==
    /\ faults < MaxFaults /\ faults' = faults + 1
    /\ node[n].key /\ ~node[n].lost
    /\ node' = [node EXCEPT ![n].lost = TRUE]
    /\ UNCHANGED <<world, ops, call>>
Returns(n) ==
    node[n].lost /\ Running(n) /\ Becomes(n, [node[n] EXCEPT !.lost = FALSE])

\* node-silence-failover.js, and the heartbeat that reverses it.
SilenceFails(n) ==
    node[n].state = "READY" /\ node[n].lost /\ Becomes(n, Failed(node[n], "SILENCE"))
Recovers(n) ==
    /\ node[n].state = "FAILED" /\ node[n].reason = "SILENCE" /\ node[n].key /\ ~node[n].lost
    /\ Becomes(n, [node[n] EXCEPT !.state = "READY", !.reason = "none"])

\* admin/nodes/[id]/lifecycle.js without its overrides.
MovedByAdmin(n, to) ==
    LET row == node[n]
    IN CASE to = "FAILED" -> Failed(row, "ADMIN")
         [] to = "QUARANTINED" \/ to = "RETIRED" -> Revoked(row, to)
         [] to = "PROVISIONING" -> [row EXCEPT !.state = to, !.reason = "none",
                                      !.minted = @ + 1, !.token = row.minted + 1]
         [] OTHER -> [Moved(row, to) EXCEPT !.reason = "none"]
AdminMove(n, to) ==
    /\ to \in AdminMoves /\ node[n].state # "none" /\ CanTransition(node[n].state, to)
    /\ to = "RETIRED" => node[n].dnsRemoved /\ AssignedTo(n) = {}
    /\ faults < MaxFaults /\ faults' = faults + 1
    /\ node' = [node EXCEPT ![n] = MovedByAdmin(n, to)]
    /\ UNCHANGED <<world, ops, call>>

\* A device is placed, or placed anew when its node is FAILED or DRAINING.
pickReplacementNode == {n \in Nodes : node[n].state \in {"READY", "CANARY"}}
OnBadNode == {d \in Devices : assigned[d] # "none" /\ node[assigned[d]].state \in {"FAILED", "DRAINING"}}
Assign(d, n) ==
    /\ n \in pickReplacementNode
    /\ assigned[d] # "none" => d \in OnBadNode
    /\ assigned' = [assigned EXCEPT ![d] = n]
    /\ UNCHANGED <<node, servers, dns, ops, call, faults>>

-----------------------------------------------------------------------------
Init ==
    /\ node = [n \in Nodes |-> IF n \notin Serving THEN NoRow
                  ELSE [NoRow EXCEPT !.state = "READY", !.minted = 1, !.instance = 1, !.key = TRUE, !.booted = TRUE]]
    /\ servers = {[node |-> n, token |-> 1] : n \in Serving}
    /\ dns = Serving
    /\ assigned \in [Devices -> Serving \cup {"none"}]
    /\ ops = << >>
    /\ call = [c \in Calls |-> Idle]
    /\ faults = 0

Handles(c) ==
    \/ CreateInstance(c) \/ MintToken(c) \/ CreateServer(c) \/ RecordServer(c)
    \/ PublishDns(c) \/ AwaitEnrollment(c) \/ AwaitBootstrap(c) \/ VerifyReadiness(c)
    \/ MarkReady(c) \/ AwaitCanary(c) \/ DrainOldNode(c)
    \/ RetireOldNode(c) \/ CheckDns(c) \/ Retire(c) \/ DestroyServer(c)
    \/ VerifyEligible(c) \/ RemoveDns(c) \/ RevokeAndRetire(c) \/ DestroyInstance(c) \/ NoteDestroyed(c)
Runs(c) ==
    \/ LoadStep(c) \/ Handles(c)
    \/ StepDone(c) \/ StepWaits(c) \/ StepFails(c) \/ StepFatal(c)
    \/ FailNodeIfBooting(c) \/ FinishOperation(c)

Starts(n) ==
    \/ createProviderNode(n) \/ autoScaleFullLocations(n) \/ Sweep(n)
    \/ \E old \in Nodes, canary \in BOOLEAN : StartReplace(n, old, canary) \/ autoReplaceFailedNodes(n, old, canary)
Lives(n) == WindowElapses(n) \/ Enroll(n) \/ Boots(n) \/ GetsLost(n) \/ Returns(n) \/ SilenceFails(n) \/ Recovers(n)
Clock(i) == DeadlinePasses(i) \/ DrainDeadlinePasses(i) \/ LeaseLapses(i)

Next ==
    \/ \E c \in Calls : Runs(c) \/ StatementFails(c) \/ CallDies(c)
    \/ \E c \in Calls, i \in DOMAIN ops : Tick(c, i)
    \/ \E i \in DOMAIN ops : Clock(i)
    \/ \E n \in Nodes : Starts(n) \/ Lives(n) \/ \E to \in LifecycleState : AdminMove(n, to)
    \/ \E d \in Devices, n \in Nodes : Assign(d, n)

Spec == Init /\ [][Next]_vars

\* Calls run to their end, time passes, and the minute tick leases what is due.
Fairness ==
    /\ \A c \in Calls : WF_vars(Runs(c))
    /\ \A i \in 1..MaxOps : WF_vars(DeadlinePasses(i)) /\ WF_vars(LeaseLapses(i))
                            /\ SF_vars(\E c \in Calls : Tick(c, i))
FairSpec == Spec /\ Fairness

-----------------------------------------------------------------------------
(* Properties *)

\* "No running server can hold a stale" enrollment token: while a node awaits enrollment, its
\* server can enroll.
TokenMatches ==
    \A s \in servers : node[s.node].state = "PROVISIONING" => s.token = node[s.node].token

\* A create whose response was lost is adopted; a node never has a second server.
OneServer == \A n \in Nodes : Cardinality(ServersOf(n)) <= 1

\* A server is destroyed last: its node is RETIRED and its name no longer resolves.
DestroyedLast ==
    [][\A s \in servers \ servers' : node[s.node].state = "RETIRED" /\ s.node \notin dns]_servers

\* Quarantine and retirement are one-way, whatever a step, a heartbeat or a timeout read before.
QuarantineHolds ==
    [][\A n \in Nodes : /\ node[n].state = "QUARANTINED" => node'[n].state \in {"QUARANTINED", "RETIRED"}
                        /\ node[n].state = "RETIRED" => node'[n].state = "RETIRED"]_node

\* A replaced node is retired when no device is assigned to it, or the drain deadline passed.
RetiredDrained ==
    [][\A n \in Nodes :
          (node[n].state = "DRAINING" /\ node'[n].state = "RETIRED" /\ AssignedTo(n) # {}) =>
              \E i \in DOMAIN ops : ops[i].old = n /\ ops[i].drain = "over"]_node

\* With a canary, the old node leaves service after the new one was observed the whole time
\* (unless an administrator makes the canary READY).
CanaryBeforeDrain ==
    [][\A i \in DOMAIN ops :
          (ops[i].canary /\ ops[i].drain = "unset" /\ ops'[i].drain # "unset") => node[ops[i].node].window]_ops

\* A replacement takes its steps in order, whatever dies between them: observed, drained, and the
\* server destroyed last.
ReplacementInOrder == CanaryBeforeDrain /\ RetiredDrained /\ DestroyedLast

\* Whatever response is lost and whichever create is repeated, a node has the one server that it knows
\* the token of.
ServersAreKnown == TokenMatches /\ OneServer
\* From its creation to its end, an operation neither loses a server nor takes one away too early.
ServersHold == []ServersAreKnown /\ ReplacementInOrder

\* Every operation ends, whatever dies on the way: its deadline passes and a tick sees it.
Unfinished(i) == i \in DOMAIN ops /\ ops[i].status = "RUNNING"
OperationsEnd == \A i \in 1..MaxOps : Unfinished(i) ~> ~Unfinished(i)
=============================================================================
