------------------------- MODULE FleetOperationsProofs -------------------------
(***************************************************************************)
(* Proofs about FleetOperations for any nodes, operations, calls and       *)
(* faults: what a call may rely on wherever it is; that no step, timeout,  *)
(* heartbeat or administrator brings a node back that is quarantined or    *)
(* retired; and that a node has one server, whose token it knows, while    *)
(* replacements go from the observed canary to the destroyed server in     *)
(* order.                                                                  *)
(***************************************************************************)
EXTENDS FleetOperations, SequenceTheorems, FiniteSetTheorems, TLAPS

-----------------------------------------------------------------------------
(* The lists of steps *)

LEMMA NineSteps ==
    ASSUME NEW S, NEW s \in Seq(S), NEW t \in Seq(S), NEW u \in Seq(S), Len(s) = 6, Len(t) = 3, Len(u) = 9,
           \A i \in 1..6 : s[i] = u[i], t[1] = u[7], t[2] = u[8], t[3] = u[9]
    PROVE  s \o t = u
<1>1. s \o t \in Seq(S) /\ Len(s \o t) = Len(s) + Len(t)
  BY ConcatProperties, Zenon
<1>2. \A i \in 1..Len(s) + Len(t) : (s \o t)[i] = IF i <= Len(s) THEN s[i] ELSE t[i - Len(s)]
  BY ConcatProperties, Zenon
<1> DEFINE st == s \o t
<1>a. st \in Seq(S) /\ Len(st) = 9 /\ \A i \in 1..9 : st[i] = IF i <= 6 THEN s[i] ELSE t[i - 6]
  <2> HIDE DEF st
  <2> QED BY <1>1, <1>2 DEF st
<1> HIDE DEF st
<1>3. ASSUME NEW i \in 1..9 PROVE st[i] = u[i]
  <2>2. CASE i <= 6
    BY <1>a, <2>2
  <2>3. CASE i = 7 \/ i = 8 \/ i = 9
    BY <1>a, <2>3
  <2>4. QED
    BY <2>2, <2>3
<1>4. st = u
  BY <1>a, <1>3, SeqEqual
<1>5. QED
  BY <1>4 DEF st

LEMMA ReplaceSteps ==
    REPLACE_NODE_STEPS = <<"CREATE_INSTANCE", "PUBLISH_DNS", "AWAIT_ENROLLMENT",
                       "AWAIT_BOOTSTRAP", "VERIFY_READINESS", "MARK_READY", "AWAIT_CANARY", "DRAIN_OLD_NODE", "RETIRE_OLD_NODE">>
<1> DEFINE S == {"CREATE_INSTANCE", "PUBLISH_DNS", "AWAIT_ENROLLMENT", "AWAIT_BOOTSTRAP", "VERIFY_READINESS",
                 "MARK_READY", "AWAIT_CANARY", "DRAIN_OLD_NODE", "RETIRE_OLD_NODE"}
           s == CREATE_NODE_STEPS
           t == <<"AWAIT_CANARY", "DRAIN_OLD_NODE", "RETIRE_OLD_NODE">>
           u == <<"CREATE_INSTANCE", "PUBLISH_DNS", "AWAIT_ENROLLMENT",
                       "AWAIT_BOOTSTRAP", "VERIFY_READINESS", "MARK_READY", "AWAIT_CANARY", "DRAIN_OLD_NODE", "RETIRE_OLD_NODE">>
<1>1. s \in Seq(S) /\ Len(s) = 6
  BY DEF CREATE_NODE_STEPS
<1>2. t \in Seq(S) /\ Len(t) = 3
  OBVIOUS
<1>3. u \in Seq(S) /\ Len(u) = 9
  OBVIOUS
<1>4. \A i \in 1..6 : s[i] = u[i]
  <2>1. s[1] = u[1] /\ s[2] = u[2] /\ s[3] = u[3] /\ s[4] = u[4] /\ s[5] = u[5] /\ s[6] = u[6]
    BY DEF CREATE_NODE_STEPS
  <2> HIDE DEF s, u
  <2>2. QED
    BY <2>1
<1>5. t[1] = u[7] /\ t[2] = u[8] /\ t[3] = u[9]
  OBVIOUS
<1> HIDE DEF S, s, t, u
<1>7. s \o t = u
  BY <1>1, <1>2, <1>3, <1>4, <1>5, NineSteps
<1>8. QED
  BY <1>7 DEF s, t, u, REPLACE_NODE_STEPS

LEMMA StepNames ==
    StepName = {"CREATE_INSTANCE", "PUBLISH_DNS", "AWAIT_ENROLLMENT", "AWAIT_BOOTSTRAP", "VERIFY_READINESS",
                "MARK_READY", "AWAIT_CANARY", "DRAIN_OLD_NODE", "RETIRE_OLD_NODE", "VERIFY_ELIGIBLE", "REMOVE_DNS",
                "REVOKE_AND_RETIRE", "DESTROY_INSTANCE"}
<1>1. ToSet(REPLACE_NODE_STEPS) =
          {"CREATE_INSTANCE", "PUBLISH_DNS", "AWAIT_ENROLLMENT", "AWAIT_BOOTSTRAP", "VERIFY_READINESS",
           "MARK_READY", "AWAIT_CANARY", "DRAIN_OLD_NODE", "RETIRE_OLD_NODE"}
  BY ReplaceSteps DEF ToSet
<1>2. ToSet(CLEANUP_ABANDONED_NODE_STEPS) = {"VERIFY_ELIGIBLE", "REMOVE_DNS", "REVOKE_AND_RETIRE", "DESTROY_INSTANCE"}
  BY DEF ToSet, CLEANUP_ABANDONED_NODE_STEPS
<1>3. QED
  BY <1>1, <1>2 DEF StepName

LEMMA StepsAreNames ==
    ASSUME NEW type, NEW k \in DOMAIN StepsOf(type)
    PROVE  StepsOf(type)[k] \in StepName
<1>1. CASE type = "CREATE_NODE"
  BY <1>1, StepNames DEF StepsOf, CREATE_NODE_STEPS
<1>2. CASE type = "REPLACE_NODE"
  BY <1>2, StepNames, ReplaceSteps DEF StepsOf
<1>3. CASE type \notin {"CREATE_NODE", "REPLACE_NODE"}
  BY <1>3, StepNames DEF StepsOf, CLEANUP_ABANDONED_NODE_STEPS
<1>4. QED
  BY <1>1, <1>2, <1>3

-----------------------------------------------------------------------------
(* What a call may rely on *)

CallFits(c) ==
    LET r == call[c]
    IN /\ r.pc # "idle" => r.op \in 1..Len(ops)
       \* A server is made for the token that was stored.
       /\ r.pc = "create" => r.seen.instance # 0
       /\ r.pc \in StepName => r.step = r.pc
       /\ r.pc \in Handling \cup Outcome => r.step \notin r.done
       \* Who has counted to READINESS_CONSECUTIVE_PASSES is through.
       /\ \/ r.passes < ReadyPasses \/ "VERIFY_READINESS" \in r.done
          \/ r.pc = "done" /\ r.step = "VERIFY_READINESS"
CallsFit == \A c \in Calls : CallFits(c)
PassesFit == \A i \in 1..Len(ops) : ops[i].passes < ReadyPasses
FleetInv == TypeOK /\ CallsFit /\ PassesFit

LEMMA RowTypes ==
    ASSUME NEW row \in Node, NEW to \in LifecycleState
    PROVE  /\ Moved(row, to) \in Node /\ Revoked(row, to) \in Node
           /\ Failed(row, "BOOT_TIMEOUT") \in Node /\ Failed(row, "CANARY_ABORT") \in Node
           /\ Failed(row, "SILENCE") \in Node /\ Failed(row, "ADMIN") \in Node
<1>1. ASSUME NEW w \in BOOLEAN PROVE [row EXCEPT !.state = to, !.window = w] \in Node
  BY DEF Node
<1>2. row.window \in BOOLEAN /\ (row.window /\ to # "CANARY") \in BOOLEAN
  BY DEF Node
<1>3. Moved(row, to) \in Node
  BY <1>1, <1>2 DEF Moved
<1>4. Revoked(row, to) \in Node
  BY DEF Revoked, Node
<1>5. ASSUME NEW why \in {"BOOT_TIMEOUT", "CANARY_ABORT", "SILENCE", "ADMIN"} PROVE Failed(row, why) \in Node
  BY DEF Failed, Node, LifecycleState
<1>6. QED
  BY <1>3, <1>4, <1>5

LEMMA NoRowType == NoRow \in Node
  BY DEF NoRow, Node

LEMMA IdleType == FleetInv => Idle \in Call
  BY NoRowType, StepNames, Parameters DEF Idle, Call

LEMMA OperationOf ==
    ASSUME FleetInv, NEW c \in Calls, call[c].pc # "idle"
    PROVE  /\ call[c].op \in 1..Len(ops) /\ OpOf(c) \in Operation
           /\ Target(c) \in Nodes /\ Subject(c) \in Nodes /\ OpOf(c).old \in Nodes
<1>1. call[c].op \in 1..Len(ops)
  BY DEF FleetInv, CallsFit, CallFits
<1>2. ops \in Seq(Operation)
  BY DEF FleetInv, TypeOK
<1>3. OpOf(c) \in Operation
  BY <1>1, <1>2, ElementOfSeq DEF OpOf
<1>4. QED
  BY <1>1, <1>3 DEF Target, Subject, Operation

-----------------------------------------------------------------------------
(* A call that moves on *)

\* What the handlers do to their call.
HandlerMoves(c, pc, row) == call' = [call EXCEPT ![c].pc = pc, ![c].seen = row]
Later == {"mint", "create", "record", "checkDns", "retire", "destroy", "note"} \cup Outcome
Handled(c) == \E pc \in Later, row \in Node : (pc = "create" => row.instance # 0) /\ HandlerMoves(c, pc, row)

LEMMA GotoMoves ==
    ASSUME TypeOK, NEW c \in Calls, NEW pc, Goto(c, pc)
    PROVE  HandlerMoves(c, pc, call[c].seen)
  BY DEF TypeOK, Goto, HandlerMoves, Call

LEMMA Names == Later \cap StepName = {} /\ "idle" \notin Handling \cup Outcome /\ "load" \notin Handling \cup Outcome
               /\ "failNode" \notin Handling \cup Outcome
  BY StepNames DEF Later, Outcome, Handling

LEMMA OthersFit ==
    ASSUME FleetInv, NEW c \in Calls, Len(ops') \in Nat, Len(ops) <= Len(ops'),
           call' \in [Calls -> Call], \A d \in Calls \ {c} : call'[d] = call[d], CallFits(c)'
    PROVE  CallsFit'
<1>1. Len(ops) \in Nat
  BY LenProperties DEF FleetInv, TypeOK
<1>2. ASSUME NEW d \in Calls \ {c} PROVE CallFits(d)'
  BY <1>1, <1>2 DEF FleetInv, CallsFit, CallFits
<1>3. QED
  BY <1>2 DEF CallsFit

LEMMA HandledFits ==
    ASSUME FleetInv, NEW c \in Calls, call[c].pc \in Handling, Handled(c), UNCHANGED ops
    PROVE  call' \in [Calls -> Call] /\ CallsFit'
<1>1. PICK pc \in Later, row \in Node : (pc = "create" => row.instance # 0) /\ HandlerMoves(c, pc, row)
  BY DEF Handled
<1>2. call[c] \in Call /\ call \in [Calls -> Call]
  BY DEF FleetInv, TypeOK
<1>3. /\ call'[c].op = call[c].op /\ call'[c].pc = pc /\ call'[c].step = call[c].step
      /\ call'[c].done = call[c].done /\ call'[c].passes = call[c].passes /\ call'[c].seen = row
      /\ call'[c] \in Call /\ \A d \in Calls \ {c} : call'[d] = call[d]
      /\ call' \in [Calls -> Call]
  BY <1>1, <1>2 DEF HandlerMoves, Later, Call, Handling, Outcome
<1>4. CallFits(c)
  BY DEF FleetInv, CallsFit
<1>5. pc \notin StepName /\ call[c].pc # "done" /\ call[c].pc # "idle"
  BY <1>1, Names, StepNames DEF Handling
<1>6. CallFits(c)'
  BY <1>1, <1>3, <1>4, <1>5 DEF CallFits
<1>7. Len(ops) \in Nat
  BY LenProperties DEF FleetInv, TypeOK
<1>8. QED
  BY <1>3, <1>6, <1>7, OthersFit

\* The world and the rows of nodes keep their types, and nothing else moves.
Typed == node' \in [Nodes -> Node] /\ servers' \subseteq Server /\ dns' \subseteq Nodes /\ UNCHANGED <<assigned, ops, faults>>

LEMMA HandlersType ==
    ASSUME FleetInv, NEW c \in Calls, Handles(c), ~VerifyReadiness(c)
    PROVE  Handled(c) /\ Typed
<1> DEFINE Goal == Handled(c) /\ Typed
<1> SUFFICES Goal
  OBVIOUS
<1>a. TypeOK
  BY DEF FleetInv
<1>b. /\ call[c].seen \in Node /\ node \in [Nodes -> Node] /\ servers \subseteq Server /\ dns \subseteq Nodes
      /\ call[c] \in Call /\ call \in [Calls -> Call]
  BY <1>a DEF TypeOK, Call
<1>n. node' = node => node' \in [Nodes -> Node]
  BY <1>b
\* A step that ends, or goes on with the row it has.
<1>e. ASSUME NEW pc \in Outcome, Ends(c, pc) PROVE Handled(c)
  BY <1>e, NoRowType DEF Ends, Handled, HandlerMoves, Later, Outcome
<1>g. ASSUME NEW pc \in Later \ {"create"}, Goto(c, pc) PROVE Handled(c)
  BY <1>a, <1>b, <1>g, GotoMoves DEF Handled
<1>t. call[c].pc # "idle" => Target(c) \in Nodes /\ Subject(c) \in Nodes /\ OpOf(c).old \in Nodes /\ OpOf(c) \in Operation
  BY OperationOf
<1> USE DEF At, Outcome, Later, world
<1>1. ASSUME CreateInstance(c) PROVE Goal
  <2>1. Typed
    BY <1>1, <1>b DEF CreateInstance, Typed
  <2>2. CASE /\ Cardinality(ServersOf(Target(c))) = 1
             /\ call' = [call EXCEPT ![c].pc = "record", ![c].seen.instance = (CHOOSE s \in ServersOf(Target(c)) : TRUE).token]
    <3>0. Cardinality({}) = 0
      BY FS_EmptySet
    <3>1. ServersOf(Target(c)) # {} /\ ServersOf(Target(c)) \subseteq Server
      <4>1. ServersOf(Target(c)) # {}
        BY <2>2, <3>0
      <4>2. QED
        BY <1>b, <4>1 DEF ServersOf
    <3>2. PICK t \in Nat : t = (CHOOSE s \in ServersOf(Target(c)) : TRUE).token
      BY <3>1 DEF Server
    <3>3. [call[c].seen EXCEPT !.instance = t] \in Node
      BY <1>b, <3>2 DEF Node
    <3>4. HandlerMoves(c, "record", [call[c].seen EXCEPT !.instance = t])
      BY <1>b, <2>2, <3>2 DEF HandlerMoves, Call
    <3>5. QED
      BY <2>1, <3>3, <3>4 DEF Handled
  <2>3. CASE Ends(c, "done") \/ Ends(c, "error") \/ Ends(c, "fatal") \/ Goto(c, "mint")
    BY <2>1, <2>3, <1>e, <1>g
  <2>4. QED
    BY <1>1, <2>2, <2>3 DEF CreateInstance
<1>2. ASSUME MintToken(c) PROVE Goal
  <2>1. CASE node[Target(c)].state = "PROVISIONING"
    <3> DEFINE t == node[Target(c)].minted + 1
    <3>1. /\ node' = [node EXCEPT ![Target(c)] = [@ EXCEPT !.minted = t, !.token = t]]
          /\ call' = [call EXCEPT ![c].pc = "create", ![c].seen.instance = t]
          /\ UNCHANGED <<world, ops, faults>>
      BY <1>2, <2>1 DEF MintToken
    <3>2. Target(c) \in Nodes /\ node[Target(c)] \in Node
      BY <1>2, <1>b, <1>t DEF MintToken
    <3>3. t \in Nat /\ t # 0
      BY <3>2 DEF Node
    <3> HIDE DEF t
    <3>4. [node[Target(c)] EXCEPT !.minted = t, !.token = t] \in Node /\ [call[c].seen EXCEPT !.instance = t] \in Node
      BY <1>b, <3>2, <3>3 DEF Node
    <3>5. node' \in [Nodes -> Node]
      BY <1>b, <3>1, <3>2, <3>4
    <3>6. HandlerMoves(c, "create", [call[c].seen EXCEPT !.instance = t])
      BY <1>b, <3>1 DEF HandlerMoves, Call
    <3>7. [call[c].seen EXCEPT !.instance = t].instance # 0
      BY <1>b, <3>3 DEF Node
    <3>8. Handled(c)
      BY <3>4, <3>6, <3>7 DEF Handled
    <3>9. QED
      BY <1>b, <3>1, <3>5, <3>8 DEF Typed
  <2>2. CASE node[Target(c)].state # "PROVISIONING"
    BY <1>2, <1>b, <1>e, <2>2 DEF MintToken, Typed
  <2>3. QED
    BY <2>1, <2>2
<1>3. ASSUME CreateServer(c) PROVE Goal
  <2>1. call[c].seen.instance \in Nat \ {0} /\ Target(c) \in Nodes
    BY <1>3, <1>b, <1>t DEF CreateServer, FleetInv, CallsFit, CallFits, Node
  <2>2. [node |-> Target(c), token |-> call[c].seen.instance] \in Server
    BY <2>1 DEF Server
  <2>3. QED
    BY <1>3, <1>b, <1>g, <2>2 DEF CreateServer, Typed
<1>4. ASSUME RecordServer(c) PROVE Goal
  <2>1. Target(c) \in Nodes /\ call[c].seen.instance \in Nat /\ node[Target(c)] \in Node
    BY <1>4, <1>b, <1>t DEF RecordServer, Node
  <2>2. [node[Target(c)] EXCEPT !.instance = call[c].seen.instance] \in Node
    BY <2>1 DEF Node
  <2>3. node' \in [Nodes -> Node]
    BY <1>4, <1>b, <2>1, <2>2 DEF RecordServer
  <2>4. QED
    BY <1>4, <1>b, <1>e, <2>3 DEF RecordServer, Typed
<1>5. ASSUME PublishDns(c) PROVE Goal
  BY <1>5, <1>b, <1>e, <1>t DEF PublishDns, Typed
<1>6. ASSUME AwaitEnrollment(c) \/ AwaitBootstrap(c) \/ VerifyEligible(c) \/ DestroyInstance(c) PROVE Goal
  BY <1>6, <1>b, <1>e, <1>g DEF AwaitEnrollment, AwaitBootstrap, VerifyEligible, DestroyInstance, Typed
<1>7. ASSUME MarkReady(c) PROVE Goal
  <2>1. Handled(c) /\ UNCHANGED <<world, ops, faults>>
    BY <1>7, <1>e DEF MarkReady
  <2>2. node' = node \/ \E to \in LifecycleState : node' = [node EXCEPT ![Target(c)] = Moved(@, to)]
    BY <1>7 DEF MarkReady, LifecycleState
  <2>3. node' \in [Nodes -> Node]
    BY <1>b, <2>2, RowTypes
  <2>4. QED
    BY <1>b, <2>1, <2>3 DEF Typed
<1>8. ASSUME AwaitCanary(c) PROVE Goal
  <2>1. Handled(c) /\ UNCHANGED <<world, ops, faults>>
    BY <1>8, <1>e DEF AwaitCanary
  <2>2. \/ node' = node \/ node' = [node EXCEPT ![Target(c)] = Failed(@, "CANARY_ABORT")]
        \/ \E to \in LifecycleState : node' = [node EXCEPT ![Target(c)] = Moved(@, to)]
    BY <1>8 DEF AwaitCanary, LifecycleState
  <2>3. node' \in [Nodes -> Node]
    BY <1>b, <2>2, RowTypes DEF LifecycleState
  <2>4. QED
    BY <1>b, <2>1, <2>3 DEF Typed
<1>9. ASSUME DrainOldNode(c) PROVE Goal
  <2>1. Handled(c) /\ UNCHANGED <<world, ops, faults>>
    BY <1>9, <1>e DEF DrainOldNode
  <2>2. node' = node \/ \E to \in LifecycleState : node' = [node EXCEPT ![OpOf(c).old] = Moved(@, to)]
    BY <1>9 DEF DrainOldNode, LifecycleState
  <2>3. node' \in [Nodes -> Node]
    BY <1>b, <2>2, RowTypes
  <2>4. QED
    BY <1>b, <2>1, <2>3 DEF Typed
<1>10. ASSUME RetireOldNode(c) PROVE Goal
  BY <1>10, <1>b, <1>e, <1>g DEF RetireOldNode, Typed
<1>11. ASSUME CheckDns(c) PROVE Goal
  <2>1. Handled(c) /\ UNCHANGED <<world, ops, faults>>
    BY <1>11, <1>e, <1>g DEF CheckDns
  <2>2. node' = node \/ node' = [node EXCEPT ![Subject(c)].dnsRemoved = TRUE]
    BY <1>11 DEF CheckDns
  <2>3. \A row \in Node : [row EXCEPT !.dnsRemoved = TRUE] \in Node
    BY DEF Node
  <2>4. node' \in [Nodes -> Node]
    BY <1>b, <2>2, <2>3
  <2>5. QED
    BY <1>b, <2>1, <2>4 DEF Typed
<1>12. ASSUME Retire(c) PROVE Goal
  <2>1. Handled(c) /\ UNCHANGED <<world, ops, faults>>
    BY <1>12, <1>e, <1>g DEF Retire
  <2>2. node' = node \/ \E to \in LifecycleState : node' = [node EXCEPT ![Subject(c)] = Moved(@, to)]
    BY <1>12 DEF Retire, LifecycleState
  <2>3. node' \in [Nodes -> Node]
    BY <1>b, <2>2, RowTypes
  <2>4. QED
    BY <1>b, <2>1, <2>3 DEF Typed
<1>13. ASSUME DestroyServer(c) PROVE Goal
  BY <1>13, <1>b, <1>e, <1>g DEF DestroyServer, Typed
<1>14. ASSUME RemoveDns(c) PROVE Goal
  BY <1>14, <1>b, <1>e, <1>g DEF RemoveDns, Typed
<1>15. ASSUME RevokeAndRetire(c) PROVE Goal
  <2>1. Handled(c) /\ UNCHANGED <<world, ops, faults>>
    BY <1>15, <1>e DEF RevokeAndRetire
  <2>2. \/ node' = node \/ node' = [node EXCEPT ![Target(c)].key = FALSE]
        \/ \E to \in LifecycleState : node' = [node EXCEPT ![Target(c)] = Revoked(@, to)]
    BY <1>15 DEF RevokeAndRetire, LifecycleState
  <2>3. \A row \in Node : [row EXCEPT !.key = FALSE] \in Node
    BY DEF Node
  <2>4. node' \in [Nodes -> Node]
    BY <1>b, <2>2, <2>3, RowTypes
  <2>5. QED
    BY <1>b, <2>1, <2>4 DEF Typed
<1>16. ASSUME NoteDestroyed(c) PROVE Goal
  <2>1. Handled(c) /\ node' = [node EXCEPT ![Target(c)].destroyed = TRUE] /\ UNCHANGED <<world, ops, faults>>
    BY <1>16, <1>e DEF NoteDestroyed
  <2>2. \A row \in Node : [row EXCEPT !.destroyed = TRUE] \in Node
    BY DEF Node
  <2>3. node' \in [Nodes -> Node]
    BY <1>b, <2>1, <2>2
  <2>4. QED
    BY <1>b, <2>1, <2>3 DEF Typed
<1> HIDE DEF Goal
<1>17. QED
  BY <1>1, <1>2, <1>3, <1>4, <1>5, <1>6, <1>7, <1>8, <1>9, <1>10, <1>11, <1>12, <1>13, <1>14, <1>15, <1>16 DEF Handles

LEMMA VerifyReadinessFits ==
    ASSUME FleetInv, NEW c \in Calls, VerifyReadiness(c)
    PROVE  call' \in [Calls -> Call] /\ CallsFit'
<1>1. call[c] \in Call /\ call \in [Calls -> Call] /\ ReadyPasses \in Nat \ {0}
  BY Parameters DEF FleetInv, TypeOK
<1>2. call[c].pc = "VERIFY_READINESS" /\ UNCHANGED ops
  BY DEF VerifyReadiness, At
<1>3. call[c].pc \in Handling /\ call[c].pc \in StepName
  BY <1>2, StepNames DEF Handling
<1>4. CASE \E pc \in Outcome : Ends(c, pc)
  <2>1. Handled(c)
    BY <1>4, NoRowType DEF Ends, Handled, HandlerMoves, Later, Outcome
  <2>2. QED
    BY <1>2, <1>3, <2>1, HandledFits
<1>5. ASSUME NEW passes, passes = call[c].passes + 1 \/ passes = 0,
             call' = [call EXCEPT ![c] = [@ EXCEPT !.passes = passes, !.seen = NoRow,
                                    !.pc = IF passes >= ReadyPasses THEN "done" ELSE "wait"]]
      PROVE  call' \in [Calls -> Call] /\ CallsFit'
  <2>1. /\ call[c].op \in 1..Len(ops) /\ call[c].step = "VERIFY_READINESS" /\ call[c].step \notin call[c].done
        /\ call[c].passes < ReadyPasses
    BY <1>2, <1>3 DEF FleetInv, CallsFit, CallFits
  <2>2. call[c].passes \in Nat
    BY <1>1 DEF Call
  <2>3. passes \in 0..ReadyPasses
    BY <1>1, <1>5, <2>1, <2>2
  <2>4. PICK pc \in {"done", "wait"} : pc = IF passes >= ReadyPasses THEN "done" ELSE "wait"
    OBVIOUS
  <2>5. passes < ReadyPasses \/ pc = "done"
    BY <1>1, <2>3, <2>4
  <2>6. /\ call'[c].op = call[c].op /\ call'[c].pc = pc /\ call'[c].step = call[c].step
        /\ call'[c].done = call[c].done /\ call'[c].passes = passes /\ call'[c] \in Call
        /\ call' \in [Calls -> Call] /\ \A d \in Calls \ {c} : call'[d] = call[d]
    BY <1>1, <1>5, <2>3, <2>4, NoRowType DEF Call, Outcome
  <2>7. CallFits(c)'
    BY <1>2, <2>1, <2>5, <2>6, StepNames DEF CallFits
  <2>8. Len(ops) \in Nat
    BY LenProperties DEF FleetInv, TypeOK
  <2>9. QED
    BY <1>2, <2>6, <2>7, <2>8, OthersFit
<1>6. QED
  BY <1>2, <1>4, <1>5 DEF VerifyReadiness, Outcome

LEMMA CallIdles ==
    ASSUME FleetInv, NEW c \in Calls, call' = [call EXCEPT ![c] = Idle], Len(ops') \in Nat, Len(ops) <= Len(ops')
    PROVE  call' \in [Calls -> Call] /\ CallsFit'
<1>1. call \in [Calls -> Call]
  BY DEF FleetInv, TypeOK
<1>2. call' \in [Calls -> Call] /\ call'[c] = Idle /\ \A d \in Calls \ {c} : call'[d] = call[d]
  BY <1>1, IdleType
<1>3. CallFits(c)'
  BY <1>2, StepNames, Names, Parameters DEF CallFits, Idle
<1>4. QED
  BY <1>2, <1>3, OthersFit

LEMMA OperationWritten ==
    ASSUME FleetInv, NEW i \in 1..Len(ops), NEW op \in Operation, op.passes < ReadyPasses, ops' = [ops EXCEPT ![i] = op]
    PROVE  /\ ops' \in Seq(Operation) /\ Len(ops') = Len(ops) /\ Len(ops') \in Nat /\ Len(ops) <= Len(ops')
           /\ PassesFit' /\ ops'[i] = op
<1>1. ops \in Seq(Operation) /\ Len(ops) \in Nat
  BY LenProperties DEF FleetInv, TypeOK
<1>2. /\ ops' \in Seq(Operation) /\ Len(ops') = Len(ops)
      /\ \A j \in 1..Len(ops) : ops'[j] = IF j = i THEN op ELSE ops[j]
  BY <1>1, ExceptSeq
<1>3. PassesFit'
  BY <1>2 DEF FleetInv, PassesFit
<1>4. QED
  BY <1>1, <1>2, <1>3

LEMMA EngineType ==
    ASSUME FleetInv, NEW c \in Calls,
           \/ LoadStep(c) \/ StepDone(c) \/ StepWaits(c) \/ StepFails(c) \/ StepFatal(c)
           \/ FailNodeIfBooting(c) \/ FinishOperation(c)
    PROVE  FleetInv'
<1>1. /\ call[c] \in Call /\ call \in [Calls -> Call] /\ node \in [Nodes -> Node]
      /\ ops \in Seq(Operation) /\ Len(ops) \in Nat /\ ReadyPasses \in Nat \ {0}
      /\ call[c].step \in StepName /\ call[c].done \subseteq StepName /\ call[c].seen \in Node
      /\ call[c].passes \in 0..ReadyPasses
  BY LenProperties, Parameters DEF FleetInv, TypeOK, Call
<1>2. CallFits(c)
  BY DEF FleetInv, CallsFit
<1>3. call[c].pc # "idle"
  BY DEF LoadStep, StepDone, StepWaits, StepFails, StepFatal, FailNodeIfBooting, FinishOperation, At
<1>4. /\ call[c].op \in 1..Len(ops) /\ ops[call[c].op] \in Operation /\ Target(c) \in Nodes /\ OpOf(c).old \in Nodes
      /\ ops[call[c].op].passes < ReadyPasses
  BY <1>3, OperationOf DEF OpOf, FleetInv, PassesFit
\* All that is left to show of each of them.
<1>5. ASSUME node' \in [Nodes -> Node], UNCHANGED <<world, faults>>, ops' \in Seq(Operation), Len(ops') = Len(ops),
             PassesFit', call' \in [Calls -> Call], CallsFit'
      PROVE  FleetInv'
  BY <1>5 DEF FleetInv, TypeOK, world
<1>o. UNCHANGED ops => ops' \in Seq(Operation) /\ Len(ops') = Len(ops) /\ PassesFit' /\ Len(ops') \in Nat /\ Len(ops) <= Len(ops')
  BY <1>1 DEF FleetInv, PassesFit
<1> USE DEF At
<1>6. ASSUME LoadStep(c) PROVE FleetInv'
  <2>1. PICK k \in Todo(c) :
            LET s == Steps(c)[k]
                n == IF s \in {"DRAIN_OLD_NODE", "RETIRE_OLD_NODE"} THEN OpOf(c).old ELSE Target(c)
            IN call' = [call EXCEPT ![c].step = s, ![c].pc = s, ![c].seen = node[n]]
    BY <1>6 DEF LoadStep
  <2>2. PICK s \in StepName, row \in Node :
            s \notin call[c].done /\ call' = [call EXCEPT ![c].step = s, ![c].pc = s, ![c].seen = row]
    <3>1. Steps(c)[k] \in StepName /\ Steps(c)[k] \notin call[c].done
      BY StepsAreNames DEF Todo, Steps
    <3>2. QED
      BY <1>1, <1>4, <2>1, <3>1
  <2>3. call[c].pc = "load" /\ UNCHANGED <<node, world, ops, faults>>
    BY <1>6 DEF LoadStep
  <2>4. /\ call'[c].op = call[c].op /\ call'[c].pc = s /\ call'[c].step = s /\ call'[c].done = call[c].done
        /\ call'[c].passes = call[c].passes /\ call'[c] \in Call
        /\ call' \in [Calls -> Call] /\ \A d \in Calls \ {c} : call'[d] = call[d]
    BY <1>1, <2>2 DEF Call, Handling
  <2>5. s # "create" /\ s # "done"
    BY StepNames
  <2>6. CallFits(c)'
    BY <1>2, <1>4, <2>2, <2>3, <2>4, <2>5 DEF CallFits
  <2>7. QED
    BY <1>1, <1>5, <1>o, <2>3, <2>4, <2>6, OthersFit
<1>7. ASSUME StepDone(c) PROVE FleetInv'
  <2>1. /\ call[c].pc = "done" /\ ops' = [ops EXCEPT ![call[c].op].done = @ \cup {call[c].step}]
        /\ call' = [call EXCEPT ![c].pc = "load", ![c].done = @ \cup {call[c].step}]
        /\ UNCHANGED <<node, world, faults>>
    BY <1>7 DEF StepDone
  <2>2. ops' = [ops EXCEPT ![call[c].op] = [ops[call[c].op] EXCEPT !.done = @ \cup {call[c].step}]]
    BY <2>1
  <2>3. [ops[call[c].op] EXCEPT !.done = @ \cup {call[c].step}] \in Operation
        /\ [ops[call[c].op] EXCEPT !.done = @ \cup {call[c].step}].passes = ops[call[c].op].passes
    BY <1>1, <1>4 DEF Operation
  <2>4. ops' \in Seq(Operation) /\ Len(ops') = Len(ops) /\ PassesFit' /\ Len(ops') \in Nat /\ Len(ops) <= Len(ops')
    BY <1>4, <2>2, <2>3, OperationWritten
  <2>5. /\ call'[c].op = call[c].op /\ call'[c].pc = "load" /\ call'[c].step = call[c].step
        /\ call'[c].done = call[c].done \cup {call[c].step} /\ call'[c].passes = call[c].passes /\ call'[c] \in Call
        /\ call' \in [Calls -> Call] /\ \A d \in Calls \ {c} : call'[d] = call[d]
    BY <1>1, <2>1 DEF Call
  <2>6. CallFits(c)'
    BY <1>2, <1>4, <2>4, <2>5, Names, StepNames DEF CallFits
  <2>7. QED
    BY <1>1, <1>5, <2>1, <2>4, <2>5, <2>6, OthersFit
<1>8. ASSUME StepWaits(c) PROVE FleetInv'
  <2> DEFINE passes == IF call[c].step = "VERIFY_READINESS" THEN call[c].passes ELSE ops[call[c].op].passes
             drain == IF call[c].step = "DRAIN_OLD_NODE" /\ ~call[c].drain THEN "set" ELSE ops[call[c].op].drain
             op == [ops[call[c].op] EXCEPT !.leased = FALSE, !.passes = passes, !.drain = drain]
  <2>1. call[c].pc = "wait" /\ ops' = [ops EXCEPT ![call[c].op] = op] /\ call' = [call EXCEPT ![c] = Idle]
        /\ UNCHANGED <<node, world, faults>>
    BY <1>8 DEF StepWaits, OpOf
  <2>2. call[c].step \notin call[c].done
    BY <1>2, <2>1 DEF CallFits, Outcome
  <2>3. passes \in 0..ReadyPasses /\ passes < ReadyPasses
    BY <1>1, <1>2, <1>4, <2>1, <2>2 DEF CallFits, Operation
  <2>4. drain \in {"unset", "set", "over"}
    BY <1>4 DEF Operation
  <2>5. op \in Operation /\ op.passes = passes
    <3> HIDE DEF passes, drain
    <3>1. QED
      BY <1>4, <2>3, <2>4 DEF Operation
  <2> HIDE DEF op, passes, drain
  <2>6. ops' \in Seq(Operation) /\ Len(ops') = Len(ops) /\ PassesFit' /\ Len(ops') \in Nat /\ Len(ops) <= Len(ops')
    BY <1>4, <2>1, <2>3, <2>5, OperationWritten
  <2>7. QED
    BY <1>1, <1>5, <2>1, <2>6, CallIdles
<1>9. ASSUME StepFails(c) PROVE FleetInv'
  <2>1. CASE /\ ops' = [ops EXCEPT ![call[c].op] = [OpOf(c) EXCEPT !.leased = FALSE, !.done = @ \ {call[c].step}]]
             /\ call' = [call EXCEPT ![c] = Idle] /\ UNCHANGED <<node, world, faults>>
    <3> DEFINE op == [ops[call[c].op] EXCEPT !.leased = FALSE, !.done = @ \ {call[c].step}]
    <3>1. op \in Operation /\ op.passes = ops[call[c].op].passes
      BY <1>1, <1>4 DEF Operation
    <3>2. ops' = [ops EXCEPT ![call[c].op] = op]
      BY <2>1 DEF OpOf
    <3> HIDE DEF op
    <3>3. ops' \in Seq(Operation) /\ Len(ops') = Len(ops) /\ PassesFit' /\ Len(ops') \in Nat /\ Len(ops) <= Len(ops')
      BY <1>4, <3>1, <3>2, OperationWritten
    <3>4. QED
      BY <1>1, <1>5, <2>1, <3>3, CallIdles
  <2>2. CASE call[c].pc = "error" /\ Goto(c, "fatal") /\ UNCHANGED <<node, world, ops, faults>>
    <3>1. /\ call'[c].op = call[c].op /\ call'[c].pc = "fatal" /\ call'[c].step = call[c].step
          /\ call'[c].done = call[c].done /\ call'[c].passes = call[c].passes /\ call'[c] \in Call
          /\ call' \in [Calls -> Call] /\ \A d \in Calls \ {c} : call'[d] = call[d]
      BY <1>1, <2>2 DEF Call, Goto, Outcome
    <3>2. CallFits(c)'
      BY <1>2, <1>4, <2>2, <3>1, StepNames DEF CallFits, Outcome
    <3>3. QED
      BY <1>1, <1>5, <1>o, <2>2, <3>1, <3>2, OthersFit
  <2>3. QED
    BY <1>9, <2>1, <2>2 DEF StepFails
<1>10. ASSUME StepFatal(c) PROVE FleetInv'
  <2> DEFINE op == [ops[call[c].op] EXCEPT !.leased = FALSE, !.status = "FAILED", !.done = @ \ {call[c].step}]
  <2>1. call[c].pc = "fatal" /\ ops' = [ops EXCEPT ![call[c].op] = op] /\ Goto(c, "failNode") /\ UNCHANGED <<node, world, faults>>
    BY <1>10 DEF StepFatal, OpOf
  <2>2. op \in Operation /\ op.passes = ops[call[c].op].passes
    BY <1>1, <1>4 DEF Operation
  <2> HIDE DEF op
  <2>3. ops' \in Seq(Operation) /\ Len(ops') = Len(ops) /\ PassesFit' /\ Len(ops') \in Nat /\ Len(ops) <= Len(ops')
    BY <1>4, <2>1, <2>2, OperationWritten
  <2>4. /\ call'[c].op = call[c].op /\ call'[c].pc = "failNode" /\ call'[c].step = call[c].step
        /\ call'[c].done = call[c].done /\ call'[c].passes = call[c].passes /\ call'[c] \in Call
        /\ call' \in [Calls -> Call] /\ \A d \in Calls \ {c} : call'[d] = call[d]
    BY <1>1, <2>1 DEF Call, Goto
  <2>5. CallFits(c)'
    BY <1>2, <1>4, <2>1, <2>3, <2>4, Names, StepNames DEF CallFits
  <2>6. QED
    BY <1>1, <1>5, <2>1, <2>3, <2>4, <2>5, OthersFit
<1>11. ASSUME FailNodeIfBooting(c) PROVE FleetInv'
  <2>1. /\ node' = [node EXCEPT ![Target(c)] =
               IF @.state \in {"PROVISIONING", "WARMING_UP", "CANARY"} THEN Failed(@, "BOOT_TIMEOUT") ELSE @]
        /\ call' = [call EXCEPT ![c] = Idle] /\ UNCHANGED <<world, ops, faults>>
    BY <1>11 DEF FailNodeIfBooting
  <2>2. \A row \in Node : Failed(row, "BOOT_TIMEOUT") \in Node
    BY RowTypes DEF LifecycleState
  <2>3. node' \in [Nodes -> Node]
    BY <1>1, <2>1, <2>2
  <2>4. QED
    BY <1>5, <1>o, <2>1, <2>3, CallIdles
<1>12. ASSUME FinishOperation(c) PROVE FleetInv'
  <2> DEFINE op == [ops[call[c].op] EXCEPT !.leased = FALSE, !.status = "COMPLETED"]
  <2>1. ops' = [ops EXCEPT ![call[c].op] = op] /\ call' = [call EXCEPT ![c] = Idle] /\ UNCHANGED <<node, world, faults>>
    BY <1>12 DEF FinishOperation
  <2>2. op \in Operation /\ op.passes = ops[call[c].op].passes
    BY <1>4 DEF Operation
  <2> HIDE DEF op
  <2>3. ops' \in Seq(Operation) /\ Len(ops') = Len(ops) /\ PassesFit' /\ Len(ops') \in Nat /\ Len(ops) <= Len(ops')
    BY <1>4, <2>1, <2>2, OperationWritten
  <2>4. QED
    BY <1>1, <1>5, <2>1, <2>3, CallIdles
<1>13. QED
  BY <1>6, <1>7, <1>8, <1>9, <1>10, <1>11, <1>12

-----------------------------------------------------------------------------
(* Operations that are started, leased and timed *)

LEMMA AdvanceFits ==
    ASSUME FleetInv, NEW c \in Calls, NEW i \in 1..Len(ops'), NEW op \in Operation, op.passes < ReadyPasses,
           Advance(c, i, op), Len(ops') \in Nat, Len(ops) <= Len(ops'), Len(ops') <= MaxOps
    PROVE  call' \in [Calls -> Call] /\ CallsFit'
<1>1. call \in [Calls -> Call] /\ MaxOps \in Nat /\ i \in 0..MaxOps
  BY Parameters DEF FleetInv, TypeOK
<1>2. PICK pc \in {"failNode", "load"}, drain \in BOOLEAN :
          call' = [call EXCEPT ![c] = [Idle EXCEPT !.op = i, !.pc = pc, !.done = op.done, !.passes = op.passes, !.drain = drain]]
  BY DEF Advance
<1>3. op.done \subseteq StepName /\ op.passes \in 0..ReadyPasses
  BY DEF Operation
<1>4. /\ call'[c].op = i /\ call'[c].pc = pc /\ call'[c].done = op.done /\ call'[c].passes = op.passes
      /\ call'[c] \in Call /\ call' \in [Calls -> Call] /\ \A d \in Calls \ {c} : call'[d] = call[d]
  BY <1>1, <1>2, <1>3, IdleType DEF Call, Idle
<1>5. CallFits(c)'
  BY <1>4, Names, StepNames DEF CallFits
<1>6. QED
  BY <1>4, <1>5, OthersFit

LEMMA CallsRest ==
    ASSUME FleetInv, UNCHANGED call, Len(ops') \in Nat, Len(ops) <= Len(ops')
    PROVE  call' \in [Calls -> Call] /\ CallsFit'
<1>1. call \in [Calls -> Call] /\ Len(ops) \in Nat
  BY LenProperties DEF FleetInv, TypeOK
<1>2. ASSUME NEW c \in Calls PROVE CallFits(c)'
  BY <1>1 DEF FleetInv, CallsFit, CallFits
<1>3. QED
  BY <1>1, <1>2 DEF CallsFit

LEMMA OperationAdded ==
    ASSUME FleetInv, NEW type \in Kinds, NEW n \in Nodes, NEW old \in Nodes, NEW canary \in BOOLEAN,
           Len(ops) < MaxOps, ops' = Append(ops, NewOperation(type, n, old, canary))
    PROVE  /\ ops' \in Seq(Operation) /\ Len(ops') \in Nat /\ Len(ops) <= Len(ops') /\ Len(ops') <= MaxOps
           /\ PassesFit' /\ Len(ops') \in 1..Len(ops')
           /\ ops'[Len(ops')] \in Operation /\ ops'[Len(ops')].passes < ReadyPasses
<1> DEFINE op == NewOperation(type, n, old, canary)
<1>1. op \in Operation /\ op.passes < ReadyPasses
  BY Parameters DEF NewOperation, Operation
<1>2. ops' = Append(ops, op)
  OBVIOUS
<1> HIDE DEF op
<1>3. ops \in Seq(Operation) /\ Len(ops) \in Nat /\ MaxOps \in Nat
  BY LenProperties, Parameters DEF FleetInv, TypeOK
<1>4. /\ ops' \in Seq(Operation) /\ Len(ops') = Len(ops) + 1
      /\ \A i \in 1..Len(ops) : ops'[i] = ops[i]
      /\ ops'[Len(ops) + 1] = op
  BY <1>1, <1>2, <1>3, AppendProperties
<1>5. PassesFit'
  <2>1. \A i \in 1..Len(ops') : i \in 1..Len(ops) \/ i = Len(ops) + 1
    BY <1>3, <1>4
  <2>2. QED
    BY <1>1, <1>4, <2>1 DEF PassesFit, FleetInv
<1>6. QED
  BY <1>1, <1>3, <1>4, <1>5

LEMMA Registers ==
    ASSUME FleetInv, NEW type, NEW n \in Nodes, NEW old \in Nodes, NEW canary \in BOOLEAN, Register(type, n, old, canary)
    PROVE  /\ node' \in [Nodes -> Node] /\ UNCHANGED <<world, faults>>
           /\ ops' \in Seq(Operation) /\ Len(ops') \in Nat /\ Len(ops) <= Len(ops') /\ Len(ops') <= MaxOps
           /\ PassesFit' /\ Len(ops') \in 1..Len(ops')
           /\ ops'[Len(ops')] \in Operation /\ ops'[Len(ops')].passes < ReadyPasses
<1>1. /\ type \in Kinds /\ Len(ops) < MaxOps
      /\ node' = [node EXCEPT ![n] = Moved(NoRow, "PROVISIONING")]
      /\ ops' = Append(ops, NewOperation(type, n, old, canary)) /\ UNCHANGED <<world, faults>>
  BY DEF Register
<1>2. Moved(NoRow, "PROVISIONING") \in Node
  BY NoRowType, RowTypes DEF LifecycleState
<1>3. node' \in [Nodes -> Node]
  BY <1>1, <1>2 DEF FleetInv, TypeOK
<1>4. QED
  BY <1>1, <1>3, OperationAdded

\* What becomes of an operation when a call begins to advance it.
LEMMA BegunFits ==
    ASSUME FleetInv, NEW i \in 1..Len(ops), NEW leased \in BOOLEAN
    PROVE  LET op == [ops[i] EXCEPT !.leased = leased]
           IN /\ op \in Operation /\ op.passes < ReadyPasses
              /\ Begun(op) \in Operation /\ Begun(op).passes < ReadyPasses
              /\ ops[i] \in Operation /\ ops[i].passes < ReadyPasses
              /\ Begun(ops[i]) \in Operation /\ Begun(ops[i]).passes < ReadyPasses
<1>1. ops[i] \in Operation /\ ops[i].passes < ReadyPasses
  BY ElementOfSeq DEF FleetInv, TypeOK, PassesFit
<1>2. ASSUME NEW op \in Operation, op.passes < ReadyPasses
      PROVE  /\ [op EXCEPT !.leased = leased] \in Operation /\ [op EXCEPT !.leased = leased].passes < ReadyPasses
             /\ Begun(op) \in Operation /\ Begun(op).passes < ReadyPasses
  BY <1>2 DEF Operation, Begun
<1>3. QED
  BY <1>1, <1>2

LEMMA StartsType ==
    ASSUME FleetInv, NEW n \in Nodes, Starts(n)
    PROVE  FleetInv'
<1>1. ASSUME node' \in [Nodes -> Node], UNCHANGED <<world, faults>>, ops' \in Seq(Operation), Len(ops') <= MaxOps,
             PassesFit', call' \in [Calls -> Call], CallsFit'
      PROVE  FleetInv'
  BY <1>1 DEF FleetInv, TypeOK, world
<1>2. ASSUME NEW type, NEW old \in Nodes, NEW canary \in BOOLEAN, Register(type, n, old, canary),
             AdvancedAtOnce \/ UNCHANGED call
      PROVE  FleetInv'
  <2>1. CASE AdvancedAtOnce
    <3>1. PICK c \in Calls : Advance(c, Len(ops'), ops'[Len(ops')])
      BY <2>1 DEF AdvancedAtOnce
    <3>2. QED
      BY <1>1, <1>2, <3>1, Registers, AdvanceFits
  <2>2. CASE UNCHANGED call
    BY <1>1, <1>2, <2>2, Registers, CallsRest
  <2>3. QED
    BY <1>2, <2>1, <2>2
<1>3. CASE createProviderNode(n) \/ autoScaleFullLocations(n)
  BY <1>2, <1>3 DEF createProviderNode, autoScaleFullLocations, startCreateNodeOperation
<1>4. CASE \E old \in Nodes, canary \in BOOLEAN : StartReplace(n, old, canary) \/ autoReplaceFailedNodes(n, old, canary)
  BY <1>2, <1>4 DEF StartReplace, autoReplaceFailedNodes, startReplaceNodeOperation
<1>5. CASE Sweep(n)
  <2>1. "CLEANUP_ABANDONED_NODE" \in Kinds /\ startCleanupAbandonedNodeOperation(n) /\ UNCHANGED <<node, world, faults>>
    BY <1>5 DEF Sweep
  <2>2. node' \in [Nodes -> Node]
    BY <2>1 DEF FleetInv, TypeOK
  <2>3. CASE /\ Len(ops) < MaxOps /\ ops' = Append(ops, NewOperation("CLEANUP_ABANDONED_NODE", n, n, FALSE))
             /\ AdvancedAtOnce
    <3>1. PICK c \in Calls : Advance(c, Len(ops'), ops'[Len(ops')])
      BY <2>3 DEF AdvancedAtOnce
    <3>2. QED
      BY <1>1, <2>1, <2>2, <2>3, <3>1, OperationAdded, AdvanceFits
  <2>4. ASSUME NEW i \in CleanupOps(n), NEW c \in Calls, Advance(c, i, ops[i]), ops' = [ops EXCEPT ![i] = Begun(@)]
        PROVE  FleetInv'
    <3>1. i \in 1..Len(ops)
      BY LenProperties DEF CleanupOps, FleetInv, TypeOK
    <3>2. ops[i] \in Operation /\ ops[i].passes < ReadyPasses /\ Begun(ops[i]) \in Operation /\ Begun(ops[i]).passes < ReadyPasses
      BY <3>1, BegunFits
    <3>3. /\ ops' \in Seq(Operation) /\ Len(ops') = Len(ops) /\ PassesFit' /\ Len(ops') \in Nat /\ Len(ops) <= Len(ops')
          /\ Len(ops') <= MaxOps
      BY <2>4, <3>1, <3>2, OperationWritten DEF FleetInv, TypeOK
    <3>4. call' \in [Calls -> Call] /\ CallsFit'
      BY <2>4, <3>1, <3>2, <3>3, AdvanceFits
    <3>5. QED
      BY <1>1, <2>1, <2>2, <3>3, <3>4
  <2>5. QED
    BY <2>1, <2>3, <2>4 DEF startCleanupAbandonedNodeOperation
<1>6. QED
  BY <1>3, <1>4, <1>5 DEF Starts

LEMMA TimersType ==
    ASSUME FleetInv, NEW i \in DOMAIN ops, Clock(i) \/ \E c \in Calls : Tick(c, i)
    PROVE  FleetInv'
<1>1. ASSUME UNCHANGED <<node, world, faults>>, ops' \in Seq(Operation), Len(ops') = Len(ops),
             PassesFit', call' \in [Calls -> Call], CallsFit'
      PROVE  FleetInv'
  BY <1>1 DEF FleetInv, TypeOK, world
<1>2. i \in 1..Len(ops) /\ Len(ops) <= MaxOps
  BY LenProperties DEF FleetInv, TypeOK
<1>3. ops[i] \in Operation /\ ops[i].passes < ReadyPasses
  BY <1>2, BegunFits
<1>4. CASE Clock(i)
  <2>1. PICK op \in Operation : op.passes = ops[i].passes /\ ops' = [ops EXCEPT ![i] = op]
    <3>1. \A op \in Operation : /\ [op EXCEPT !.overdue = TRUE] \in Operation /\ [op EXCEPT !.overdue = TRUE].passes = op.passes
                                /\ [op EXCEPT !.drain = "over"] \in Operation /\ [op EXCEPT !.drain = "over"].passes = op.passes
                                /\ [op EXCEPT !.leased = FALSE] \in Operation /\ [op EXCEPT !.leased = FALSE].passes = op.passes
      BY DEF Operation
    <3>2. \/ ops' = [ops EXCEPT ![i] = [ops[i] EXCEPT !.overdue = TRUE]]
          \/ ops' = [ops EXCEPT ![i] = [ops[i] EXCEPT !.drain = "over"]]
          \/ ops' = [ops EXCEPT ![i] = [ops[i] EXCEPT !.leased = FALSE]]
      BY <1>4 DEF Clock, DeadlinePasses, DrainDeadlinePasses, LeaseLapses
    <3>3. QED
      BY <1>3, <3>1, <3>2
  <2>2. UNCHANGED <<node, world, call, faults>>
    BY <1>4 DEF Clock, DeadlinePasses, DrainDeadlinePasses, LeaseLapses
  <2>3. ops' \in Seq(Operation) /\ Len(ops') = Len(ops) /\ PassesFit' /\ Len(ops') \in Nat /\ Len(ops) <= Len(ops')
    BY <1>2, <1>3, <2>1, OperationWritten
  <2>4. QED
    BY <1>1, <2>2, <2>3, CallsRest
<1>5. ASSUME NEW c \in Calls, Tick(c, i) PROVE FleetInv'
  <2> DEFINE op == Begun([ops[i] EXCEPT !.leased = TRUE])
  <2>1. Advance(c, i, ops[i]) /\ ops' = [ops EXCEPT ![i] = op] /\ UNCHANGED <<node, world, faults>>
    BY <1>5 DEF Tick
  <2>2. op \in Operation /\ op.passes < ReadyPasses
    BY <1>2, BegunFits
  <2> HIDE DEF op
  <2>3. ops' \in Seq(Operation) /\ Len(ops') = Len(ops) /\ PassesFit' /\ Len(ops') \in Nat /\ Len(ops) <= Len(ops')
    BY <1>2, <2>1, <2>2, OperationWritten
  <2>4. call' \in [Calls -> Call] /\ CallsFit'
    BY <1>2, <1>3, <2>1, <2>3, AdvanceFits
  <2>5. QED
    BY <1>1, <2>1, <2>3, <2>4
<1>6. QED
  BY <1>4, <1>5

LEMMA OthersType ==
    ASSUME FleetInv,
           \/ \E c \in Calls : StatementFails(c) \/ CallDies(c)
           \/ \E n \in Nodes : Lives(n) \/ \E to \in LifecycleState : AdminMove(n, to)
           \/ \E d \in Devices, n \in Nodes : Assign(d, n)
    PROVE  FleetInv'
<1>1. /\ node \in [Nodes -> Node] /\ call \in [Calls -> Call] /\ Len(ops) \in Nat /\ MaxFaults \in Nat
      /\ faults \in 0..MaxFaults /\ assigned \in [Devices -> Nodes \cup {"none"}]
  BY LenProperties, Parameters DEF FleetInv, TypeOK
<1>2. ASSUME UNCHANGED <<world, ops, call>>, node' \in [Nodes -> Node], faults' \in 0..MaxFaults PROVE FleetInv'
  <2>1. call' \in [Calls -> Call] /\ CallsFit'
    BY <1>1, <1>2, CallsRest
  <2>2. QED
    BY <1>2, <2>1 DEF FleetInv, TypeOK, PassesFit, world
<1>3. ASSUME NEW c \in Calls, StatementFails(c) PROVE FleetInv'
  <2>1. call[c].pc \in Handling /\ faults' \in 0..MaxFaults /\ Ends(c, "error") /\ UNCHANGED <<node, world, ops>>
    BY <1>1, <1>3 DEF StatementFails
  <2>2. Handled(c)
    BY <2>1, NoRowType DEF Ends, Handled, HandlerMoves, Later, Outcome
  <2>3. call' \in [Calls -> Call] /\ CallsFit'
    BY <2>1, <2>2, HandledFits
  <2>4. QED
    BY <2>1, <2>3 DEF FleetInv, TypeOK, PassesFit, world
<1>4. ASSUME NEW c \in Calls, CallDies(c) PROVE FleetInv'
  <2>1. faults' \in 0..MaxFaults /\ call' = [call EXCEPT ![c] = Idle] /\ UNCHANGED <<node, world, ops>>
    BY <1>1, <1>4 DEF CallDies
  <2>2. ops' = ops /\ Len(ops') \in Nat /\ Len(ops) <= Len(ops')
    BY <1>1, <2>1
  <2>3. call' \in [Calls -> Call] /\ CallsFit'
    BY <2>1, <2>2, CallIdles
  <2>4. QED
    BY <2>1, <2>3 DEF FleetInv, TypeOK, PassesFit, world
<1>5. ASSUME NEW n \in Nodes, Lives(n) PROVE FleetInv'
  <2>0. UNCHANGED <<world, ops, call>> /\ (faults' = faults \/ (faults < MaxFaults /\ faults' = faults + 1))
    BY <1>5, Zenon DEF Lives, WindowElapses, Enroll, Boots, GetsLost, Returns, SilenceFails, Recovers, Becomes
  <2>1. faults' \in 0..MaxFaults
    BY <1>1, <2>0
  <2>2. ASSUME NEW row \in Node
        PROVE  /\ [row EXCEPT !.window = TRUE] \in Node /\ [row EXCEPT !.state = "WARMING_UP", !.key = TRUE] \in Node
               /\ [row EXCEPT !.booted = TRUE] \in Node /\ [row EXCEPT !.lost = TRUE] \in Node
               /\ [row EXCEPT !.lost = FALSE] \in Node /\ Failed(row, "SILENCE") \in Node
               /\ [row EXCEPT !.state = "READY", !.reason = "none"] \in Node
    BY DEF Node, LifecycleState, Failed
  <2>3. PICK row \in Node : node' = [node EXCEPT ![n] = row]
    <3>1. node[n] \in Node
      BY <1>1
    <3>2. \/ node' = [node EXCEPT ![n] = [node[n] EXCEPT !.window = TRUE]]
          \/ node' = [node EXCEPT ![n] = [node[n] EXCEPT !.state = "WARMING_UP", !.key = TRUE]]
          \/ node' = [node EXCEPT ![n] = [node[n] EXCEPT !.booted = TRUE]]
          \/ node' = [node EXCEPT ![n] = [node[n] EXCEPT !.lost = TRUE]]
          \/ node' = [node EXCEPT ![n] = [node[n] EXCEPT !.lost = FALSE]]
          \/ node' = [node EXCEPT ![n] = Failed(node[n], "SILENCE")]
          \/ node' = [node EXCEPT ![n] = [node[n] EXCEPT !.state = "READY", !.reason = "none"]]
      BY <1>5 DEF Lives, WindowElapses, Enroll, Boots, GetsLost, Returns, SilenceFails, Recovers, Becomes
    <3>3. QED
      BY <2>2, <3>1, <3>2
  <2>4. QED
    BY <1>1, <1>2, <2>0, <2>1, <2>3
<1>6. ASSUME NEW n \in Nodes, NEW to \in LifecycleState, AdminMove(n, to) PROVE FleetInv'
  <2>1. node' = [node EXCEPT ![n] = MovedByAdmin(n, to)] /\ UNCHANGED <<world, ops, call>> /\ faults' \in 0..MaxFaults
    BY <1>1, <1>6 DEF AdminMove
  <2>2. node[n] \in Node
    BY <1>1
  <2>3. Failed(node[n], "ADMIN") \in Node /\ Revoked(node[n], to) \in Node /\ Moved(node[n], to) \in Node
    BY <2>2, RowTypes
  <2>4. [node[n] EXCEPT !.state = to, !.reason = "none", !.minted = @ + 1, !.token = node[n].minted + 1] \in Node
    <3> DEFINE t == node[n].minted + 1
    <3>1. t \in Nat
      BY <2>2 DEF Node
    <3> HIDE DEF t
    <3>2. [node[n] EXCEPT !.state = to, !.reason = "none", !.minted = t, !.token = t] \in Node
      BY <2>2, <3>1 DEF Node
    <3>3. QED
      BY <3>2 DEF t
  <2>5. \A row \in Node : [row EXCEPT !.reason = "none"] \in Node
    BY DEF Node
  <2>6. MovedByAdmin(n, to) \in Node
    BY <2>3, <2>4, <2>5 DEF MovedByAdmin
  <2>7. QED
    BY <1>1, <1>2, <2>1, <2>6
<1>7. ASSUME NEW d \in Devices, NEW n \in Nodes, Assign(d, n) PROVE FleetInv'
  <2>1. assigned' = [assigned EXCEPT ![d] = n] /\ UNCHANGED <<node, servers, dns, ops, call, faults>>
    BY <1>7 DEF Assign
  <2>2. call' \in [Calls -> Call] /\ CallsFit'
    BY <1>1, <2>1, CallsRest
  <2>3. assigned' \in [Devices -> Nodes \cup {"none"}]
    BY <1>1, <2>1
  <2>4. QED
    BY <2>1, <2>2, <2>3 DEF FleetInv, TypeOK, PassesFit
<1>8. QED
  BY <1>3, <1>4, <1>5, <1>6, <1>7

LEMMA HandlesType ==
    ASSUME FleetInv, NEW c \in Calls, Handles(c)
    PROVE  FleetInv'
<1>1. CASE VerifyReadiness(c)
  <2>1. call' \in [Calls -> Call] /\ CallsFit'
    BY <1>1, VerifyReadinessFits
  <2>2. UNCHANGED <<node, world, ops, faults>>
    BY <1>1 DEF VerifyReadiness
  <2>3. QED
    BY <2>1, <2>2 DEF FleetInv, TypeOK, PassesFit, world
<1>2. CASE ~VerifyReadiness(c)
  <2>1. Handled(c) /\ Typed
    BY <1>2, HandlersType
  <2>2. call[c].pc \in Handling
    BY <1>2, StepNames DEF Handles, CreateInstance, MintToken, CreateServer, RecordServer, PublishDns, AwaitEnrollment,
       AwaitBootstrap, MarkReady, AwaitCanary, DrainOldNode, RetireOldNode, CheckDns, Retire, DestroyServer,
       VerifyEligible, RemoveDns, RevokeAndRetire, DestroyInstance, NoteDestroyed, At, Handling
  <2>3. call' \in [Calls -> Call] /\ CallsFit'
    BY <2>1, <2>2, HandledFits DEF Typed
  <2>4. QED
    BY <2>1, <2>3 DEF FleetInv, TypeOK, PassesFit, Typed
<1>3. QED
  BY <1>1, <1>2

LEMMA FleetInit == Init => FleetInv
<1> SUFFICES ASSUME Init PROVE FleetInv
  OBVIOUS
<1> USE Parameters DEF Init
<1>1. node \in [Nodes -> Node]
  <2>1. [NoRow EXCEPT !.state = "READY", !.minted = 1, !.instance = 1, !.key = TRUE, !.booted = TRUE] \in Node
    BY DEF NoRow, Node, LifecycleState
  <2>2. QED
    BY <2>1, NoRowType
<1>2. servers \subseteq Server /\ dns \subseteq Nodes /\ assigned \in [Devices -> Nodes \cup {"none"}]
  BY DEF Server
<1>3. ops \in Seq(Operation) /\ Len(ops) = 0 /\ Len(ops) <= MaxOps
  BY EmptySeq
<1>4. Idle \in Call
  BY NoRowType, StepNames DEF Idle, Call
<1>5. CallsFit
  BY StepNames, Names DEF CallsFit, CallFits, Idle
<1>6. QED
  BY <1>1, <1>2, <1>3, <1>4, <1>5 DEF FleetInv, TypeOK, PassesFit

LEMMA FleetStep == FleetInv /\ [Next]_vars => FleetInv'
<1> SUFFICES ASSUME FleetInv, [Next]_vars PROVE FleetInv'
  OBVIOUS
<1>1. ASSUME NEW c \in Calls, Runs(c) PROVE FleetInv'
  BY <1>1, EngineType, HandlesType DEF Runs
<1>2. ASSUME NEW n \in Nodes, Starts(n) PROVE FleetInv'
  BY <1>2, StartsType
<1>3. ASSUME NEW i \in DOMAIN ops, Clock(i) \/ \E c \in Calls : Tick(c, i) PROVE FleetInv'
  BY <1>3, TimersType
<1>4. CASE UNCHANGED vars
  <2>1. UNCHANGED <<node, world, ops, call, faults>>
    BY <1>4 DEF vars
  <2>2. Len(ops) \in Nat
    BY LenProperties DEF FleetInv, TypeOK
  <2>3. CallsFit'
    BY <2>1, <2>2, CallsRest
  <2>4. QED
    BY <2>1, <2>3 DEF FleetInv, TypeOK, PassesFit, world
<1>5. QED
  BY <1>1, <1>2, <1>3, <1>4, OthersType DEF Next

\* The rows of nodes, servers, operations and calls keep their types, whatever runs and dies: a call never
\* counts beyond READINESS_CONSECUTIVE_PASSES and never makes a server for a token that was not stored.
THEOREM FleetTypeCorrect == Spec => []TypeOK
<1>1. Spec => []FleetInv
  BY FleetInit, FleetStep, PTL DEF Spec
<1>2. FleetInv => TypeOK
  BY DEF FleetInv
<1>3. QED
  BY <1>1, <1>2, PTL

-----------------------------------------------------------------------------
(* Quarantine and retirement *)

\* What may become of a row whose state is was.
MayBecome(was, to) == /\ was = "QUARANTINED" => to \in {"QUARANTINED", "RETIRED"}
                      /\ was = "RETIRED" => to = "RETIRED"
NodesKept == \A n \in Nodes : MayBecome(node[n].state, node'[n].state)

LEMMA OneRowMoves ==
    ASSUME TypeOK, NEW n, NEW row, node' = [node EXCEPT ![n] = row], MayBecome(node[n].state, row.state)
    PROVE  NodesKept
  BY DEF TypeOK, NodesKept, MayBecome

LEMMA AllowedMoves ==
    ASSUME NEW was, NEW to, CanTransition(was, to)
    PROVE  MayBecome(was, to)
  BY DEF CanTransition, ALLOWED_TRANSITIONS, MayBecome

LEMMA RowStates ==
    ASSUME NEW row \in Node, NEW to
    PROVE  /\ Moved(row, to).state = to /\ Revoked(row, to).state = to
           /\ \A why : Failed(row, why).state = "FAILED"
  BY DEF Moved, Revoked, Failed, Node

LEMMA HandlersKeep ==
    ASSUME TypeOK, NEW c \in Calls, Handles(c) \/ FailNodeIfBooting(c), Target(c) \in Nodes, Subject(c) \in Nodes,
           OpOf(c).old \in Nodes
    PROVE  NodesKept
<1>1. \A n \in Nodes : node[n] \in Node
  BY DEF TypeOK
<1>2. ASSUME node' = node PROVE NodesKept
  BY <1>2 DEF NodesKept, MayBecome
<1>3. CASE MintToken(c)
  <2>1. CASE node[Target(c)].state = "PROVISIONING"
    BY <1>3, <2>1, OneRowMoves DEF MintToken, MayBecome
  <2>2. CASE node[Target(c)].state # "PROVISIONING"
    BY <1>2, <1>3, <2>2 DEF MintToken
  <2>3. QED
    BY <2>1, <2>2
<1>4. ASSUME NEW n \in Nodes, NEW row, node' = [node EXCEPT ![n] = row], row.state = node[n].state PROVE NodesKept
  BY <1>4, OneRowMoves DEF MayBecome
<1>5. CASE RecordServer(c) \/ CheckDns(c) \/ NoteDestroyed(c)
  <2>1. ASSUME NEW row \in Node, NEW t
        PROVE  /\ [row EXCEPT !.instance = t].state = row.state /\ [row EXCEPT !.dnsRemoved = TRUE].state = row.state
               /\ [row EXCEPT !.destroyed = TRUE].state = row.state
    BY DEF Node
  <2>2. \/ node' = node
        \/ node' = [node EXCEPT ![Target(c)] = [node[Target(c)] EXCEPT !.instance = call[c].seen.instance]]
        \/ node' = [node EXCEPT ![Subject(c)] = [node[Subject(c)] EXCEPT !.dnsRemoved = TRUE]]
        \/ node' = [node EXCEPT ![Target(c)] = [node[Target(c)] EXCEPT !.destroyed = TRUE]]
    BY <1>5 DEF RecordServer, CheckDns, NoteDestroyed
  <2>3. QED
    BY <1>1, <1>2, <1>4, <2>1, <2>2
<1>6. CASE MarkReady(c)
  <2>1. \/ node' = node
        \/ \E to : CanTransition(node[Target(c)].state, to) /\ node' = [node EXCEPT ![Target(c)] = Moved(node[Target(c)], to)]
    BY <1>6 DEF MarkReady
  <2>2. ASSUME NEW to, CanTransition(node[Target(c)].state, to),
               node' = [node EXCEPT ![Target(c)] = Moved(node[Target(c)], to)]
        PROVE  NodesKept
    <3>1. MayBecome(node[Target(c)].state, Moved(node[Target(c)], to).state)
      BY <1>1, <2>2, AllowedMoves, RowStates
    <3>2. QED
      BY <2>2, <3>1, OneRowMoves
  <2>3. QED
    BY <1>2, <2>1, <2>2
<1>7. CASE AwaitCanary(c)
  <2>1. \/ node' = node
        \/ /\ node[Target(c)].state = "CANARY"
           /\ \/ node' = [node EXCEPT ![Target(c)] = Failed(node[Target(c)], "CANARY_ABORT")]
              \/ node' = [node EXCEPT ![Target(c)] = Moved(node[Target(c)], "READY")]
    BY <1>7 DEF AwaitCanary
  <2>2. QED
    BY <1>2, <2>1, OneRowMoves DEF MayBecome
<1>8. CASE DrainOldNode(c)
  <2>1. \/ node' = node
        \/ /\ CanTransition(node[OpOf(c).old].state, "DRAINING")
           /\ node' = [node EXCEPT ![OpOf(c).old] = Moved(node[OpOf(c).old], "DRAINING")]
    BY <1>8 DEF DrainOldNode
  <2>2. ASSUME CanTransition(node[OpOf(c).old].state, "DRAINING"),
               node' = [node EXCEPT ![OpOf(c).old] = Moved(node[OpOf(c).old], "DRAINING")]
        PROVE  NodesKept
    <3>1. MayBecome(node[OpOf(c).old].state, Moved(node[OpOf(c).old], "DRAINING").state)
      BY <1>1, <2>2, AllowedMoves, RowStates
    <3>2. QED
      BY <2>2, <3>1, OneRowMoves
  <2>3. QED
    BY <1>2, <2>1, <2>2
<1>9. CASE Retire(c)
  <2>1. \/ node' = node
        \/ /\ node[Subject(c)].state = "DRAINING"
           /\ node' = [node EXCEPT ![Subject(c)] = Moved(node[Subject(c)], "RETIRED")]
    BY <1>9 DEF Retire
  <2>2. QED
    BY <1>2, <2>1, OneRowMoves DEF MayBecome
<1>10. CASE RevokeAndRetire(c)
  <2>1. [node[Target(c)] EXCEPT !.key = FALSE].state = node[Target(c)].state
    BY <1>1 DEF Node
  <2>2. \/ node' = node \/ node' = [node EXCEPT ![Target(c)] = [node[Target(c)] EXCEPT !.key = FALSE]]
        \/ /\ node[Target(c)].state = "FAILED"
           /\ node' = [node EXCEPT ![Target(c)] = Revoked(node[Target(c)], "RETIRED")]
    BY <1>10 DEF RevokeAndRetire
  <2>3. QED
    BY <1>2, <1>4, <2>1, <2>2, OneRowMoves DEF MayBecome
<1>11. CASE FailNodeIfBooting(c)
  <2>1. CASE node[Target(c)].state \in {"PROVISIONING", "WARMING_UP", "CANARY"}
    BY <1>11, <2>1, OneRowMoves DEF FailNodeIfBooting, MayBecome
  <2>2. CASE node[Target(c)].state \notin {"PROVISIONING", "WARMING_UP", "CANARY"}
    BY <1>11, <2>2, <1>4 DEF FailNodeIfBooting
  <2>3. QED
    BY <2>1, <2>2
<1>12. CASE \/ CreateInstance(c) \/ CreateServer(c) \/ PublishDns(c) \/ AwaitEnrollment(c) \/ AwaitBootstrap(c)
            \/ VerifyReadiness(c) \/ RetireOldNode(c) \/ DestroyServer(c) \/ VerifyEligible(c) \/ RemoveDns(c)
            \/ DestroyInstance(c)
  BY <1>2, <1>12 DEF CreateInstance, CreateServer, PublishDns, AwaitEnrollment, AwaitBootstrap, VerifyReadiness,
     RetireOldNode, DestroyServer, VerifyEligible, RemoveDns, DestroyInstance
<1>13. QED
  BY <1>3, <1>5, <1>6, <1>7, <1>8, <1>9, <1>10, <1>11, <1>12 DEF Handles

LEMMA LivesKeep ==
    ASSUME TypeOK, NEW n \in Nodes, Lives(n) \/ \E to \in LifecycleState : AdminMove(n, to)
    PROVE  NodesKept
<1>1. node[n] \in Node
  BY DEF TypeOK
<1>2. ASSUME NEW row, node' = [node EXCEPT ![n] = row], MayBecome(node[n].state, row.state) PROVE NodesKept
  BY <1>2, OneRowMoves
<1>3. ASSUME Lives(n) PROVE NodesKept
  <2>1. PICK row : node' = [node EXCEPT ![n] = row] /\ (row.state = node[n].state \/ node[n].state \in {"PROVISIONING", "READY", "FAILED"})
    <3>1. /\ [node[n] EXCEPT !.window = TRUE].state = node[n].state /\ [node[n] EXCEPT !.booted = TRUE].state = node[n].state
          /\ [node[n] EXCEPT !.lost = TRUE].state = node[n].state /\ [node[n] EXCEPT !.lost = FALSE].state = node[n].state
      BY <1>1 DEF Node
    <3>2. \/ node' = [node EXCEPT ![n] = [node[n] EXCEPT !.window = TRUE]]
          \/ node' = [node EXCEPT ![n] = [node[n] EXCEPT !.booted = TRUE]]
          \/ node' = [node EXCEPT ![n] = [node[n] EXCEPT !.lost = TRUE]]
          \/ node' = [node EXCEPT ![n] = [node[n] EXCEPT !.lost = FALSE]]
          \/ node[n].state \in {"PROVISIONING", "READY", "FAILED"} /\ \E row : node' = [node EXCEPT ![n] = row]
      BY <1>3 DEF Lives, WindowElapses, Enroll, Boots, GetsLost, Returns, SilenceFails, Recovers, Becomes
    <3>3. QED
      BY <3>1, <3>2
  <2>2. QED
    BY <1>2, <2>1 DEF MayBecome
<1>4. ASSUME NEW to \in LifecycleState, AdminMove(n, to) PROVE NodesKept
  <2>1. CanTransition(node[n].state, to) /\ node' = [node EXCEPT ![n] = MovedByAdmin(n, to)]
    BY <1>4 DEF AdminMove
  <2>2. Moved(node[n], to) \in Node
    BY <1>1, RowTypes
  <2>3. [Moved(node[n], to) EXCEPT !.reason = "none"].state = to
    BY <1>1, <2>2, RowStates DEF Node
  <2>4. [node[n] EXCEPT !.state = to, !.reason = "none", !.minted = @ + 1, !.token = node[n].minted + 1].state = to
    BY <1>1 DEF Node
  <2>5. MovedByAdmin(n, to).state = to
    BY <1>1, <2>3, <2>4, RowStates DEF MovedByAdmin
  <2>6. QED
    BY <1>2, <2>1, <2>5, AllowedMoves
<1>5. QED
  BY <1>3, <1>4

LEMMA StartsKeep ==
    ASSUME TypeOK, NEW n \in Nodes, Starts(n)
    PROVE  NodesKept
<1>1. ASSUME NEW type, NEW old, NEW canary, Register(type, n, old, canary) PROVE NodesKept
  BY <1>1, OneRowMoves DEF Register, MayBecome
<1>2. CASE Sweep(n)
  BY <1>2 DEF Sweep, NodesKept, MayBecome
<1>3. QED
  BY <1>1, <1>2 DEF Starts, createProviderNode, autoScaleFullLocations, startCreateNodeOperation,
     StartReplace, autoReplaceFailedNodes, startReplaceNodeOperation

\* A node that is quarantined or retired stays so: no step that read its row before, no timeout, no
\* heartbeat and no administrator brings it back (ALLOWED_TRANSITIONS and the updates that name the state).
THEOREM QuarantineCorrect == Spec => QuarantineHolds
<1>1. FleetInv /\ [Next]_vars => [NodesKept]_node
  <2> SUFFICES ASSUME FleetInv, [Next]_vars PROVE node' = node \/ NodesKept
    OBVIOUS
  <2>1. TypeOK
    BY DEF FleetInv
  <2>2. ASSUME NEW c \in Calls, Handles(c) \/ FailNodeIfBooting(c) PROVE NodesKept
    <3>1. call[c].pc # "idle"
      BY <2>2 DEF Handles, CreateInstance, MintToken, CreateServer, RecordServer, PublishDns, AwaitEnrollment,
         AwaitBootstrap, VerifyReadiness, MarkReady, AwaitCanary, DrainOldNode, RetireOldNode, CheckDns, Retire,
         DestroyServer, VerifyEligible, RemoveDns, RevokeAndRetire, DestroyInstance, NoteDestroyed, FailNodeIfBooting, At
    <3>2. QED
      BY <2>1, <2>2, <3>1, OperationOf, HandlersKeep
  <2>3. ASSUME NEW c \in Calls,
               \/ LoadStep(c) \/ StepDone(c) \/ StepWaits(c) \/ StepFails(c) \/ StepFatal(c) \/ FinishOperation(c)
               \/ StatementFails(c) \/ CallDies(c) \/ \E i \in DOMAIN ops : Tick(c, i)
        PROVE  node' = node
    BY <2>3 DEF LoadStep, StepDone, StepWaits, StepFails, StepFatal, FinishOperation, StatementFails, CallDies, Tick
  <2>4. ASSUME NEW i \in DOMAIN ops, Clock(i) PROVE node' = node
    BY <2>4 DEF Clock, DeadlinePasses, DrainDeadlinePasses, LeaseLapses
  <2>5. ASSUME NEW d \in Devices, NEW n \in Nodes, Assign(d, n) PROVE node' = node
    BY <2>5 DEF Assign
  <2>6. ASSUME NEW n \in Nodes, Starts(n) \/ Lives(n) \/ \E to \in LifecycleState : AdminMove(n, to) PROVE NodesKept
    BY <2>1, <2>6, StartsKeep, LivesKeep
  <2>7. CASE UNCHANGED vars
    BY <2>7 DEF vars
  <2>8. QED
    BY <2>2, <2>3, <2>4, <2>5, <2>6, <2>7 DEF Next, Runs
<1>2. NodesKept <=> \A n \in Nodes : /\ node[n].state = "QUARANTINED" => node'[n].state \in {"QUARANTINED", "RETIRED"}
                                     /\ node[n].state = "RETIRED" => node'[n].state = "RETIRED"
  BY DEF NodesKept, MayBecome
<1>3. Spec => []FleetInv
  BY FleetInit, FleetStep, PTL DEF Spec
<1>4. QED
  BY <1>1, <1>2, <1>3, PTL DEF Spec, QuarantineHolds

-----------------------------------------------------------------------------
(* Servers and names: what the steps of operations rely on *)

CREATING == {"CREATE_INSTANCE", "PUBLISH_DNS", "AWAIT_ENROLLMENT", "AWAIT_BOOTSTRAP", "VERIFY_READINESS", "MARK_READY"}
REPLACING == {"AWAIT_CANARY", "DRAIN_OLD_NODE", "RETIRE_OLD_NODE"}
CLEANING == {"VERIFY_ELIGIBLE", "REMOVE_DNS", "REVOKE_AND_RETIRE", "DESTROY_INSTANCE"}
Early == {"none", "PROVISIONING", "WARMING_UP"}
\* The states of a node whose name is not published yet.
Booting == {"PROVISIONING", "WARMING_UP", "CANARY", "MAINTENANCE", "QUARANTINED"}
\* In service, or FAILED by silence, from where a heartbeat brings it back.
Shown(row) == row.state = "READY" \/ (row.state = "FAILED" /\ row.reason = "SILENCE")

Ops == 1..Len(ops)
Makes(i) == ops[i].type # "CLEANUP_ABANDONED_NODE"
Replaces(i) == ops[i].type = "REPLACE_NODE"
Touched(n) == \E j \in Ops : \/ Replaces(j) /\ ops[j].old = n
                             \/ ~Makes(j) /\ ops[j].node = n

\* A node is made once and replaced once; an operation has one call at a time.
OpsDiffer == \A i, j \in Ops :
    /\ Makes(i) /\ Makes(j) /\ ops[i].node = ops[j].node => i = j
    /\ Replaces(i) /\ Replaces(j) /\ ops[i].old = ops[j].old => i = j
CallsDiffer == \A c, d \in Calls : call[c].op = call[d].op /\ call[c].op # 0 => c = d
\* Nothing is known of a node that has no row.
Unmade == \A n \in Nodes : node[n].state = "none" =>
    /\ ServersOf(n) = {} /\ n \notin dns /\ ~node[n].dnsRemoved
    /\ \A i \in Ops : ops[i].node # n /\ ops[i].old # n

\* What a step that is COMPLETED has brought about, for good.
Fact(i, s) ==
    LET n == ops[i].node
        old == ops[i].old
    IN /\ s = "AWAIT_CANARY" /\ ops[i].canary => node[n].window /\ node[n].state \notin Early
       /\ s = "DRAIN_OLD_NODE" =>
             Replaces(i) /\ (ops[i].drain = "over" \/ (node[old].state = "DRAINING" => AssignedTo(old) = {}))
       /\ s = "REMOVE_DNS" => node[n].dnsRemoved
       /\ s = "REVOKE_AND_RETIRE" => node[n].state = "RETIRED"
StepsLast == \A i \in Ops : \A s \in ops[i].done : Fact(i, s)

\* The steps that come before a step are done, and belong to this type of operation.
Turn(i, s, done) ==
    /\ s \in CREATING => Makes(i)
    /\ s \in REPLACING => Replaces(i)
    /\ s \in CLEANING => ~Makes(i)
    /\ s \in {"MARK_READY", "AWAIT_CANARY"} => "PUBLISH_DNS" \in done
    /\ s = "DRAIN_OLD_NODE" => "AWAIT_CANARY" \in done
    /\ s = "RETIRE_OLD_NODE" => "DRAIN_OLD_NODE" \in done
    /\ s = "DESTROY_INSTANCE" => {"REMOVE_DNS", "REVOKE_AND_RETIRE"} \subseteq done
\* Which step's handler is at pc.
Place(pc, s) ==
    /\ pc \in StepName => s = pc
    /\ pc \in {"mint", "create", "record"} => s = "CREATE_INSTANCE"
    /\ pc = "checkDns" => s \in {"RETIRE_OLD_NODE", "REMOVE_DNS"}
    /\ pc = "retire" => s = "RETIRE_OLD_NODE"
    /\ pc = "destroy" => s \in {"RETIRE_OLD_NODE", "DESTROY_INSTANCE"}
    /\ pc = "note" => s = "DESTROY_INSTANCE"
Active(c) == call[c].pc \notin {"idle", "failNode"}
Knows(c) ==
    LET r == call[c]
    IN Active(c) =>
          /\ r.done = ops[r.op].done
          /\ r.drain = (ops[r.op].drain # "unset")
          /\ Makes(r.op) => ops[r.op].status = "RUNNING"
          /\ r.pc # "load" => Turn(r.op, r.step, r.done) /\ Place(r.pc, r.step)
Failing(c) == call[c].pc = "failNode" => ops[call[c].op].status # "RUNNING"
\* What is still true of what a handler read.
Saw(c) ==
    LET r == call[c]
        row == node[Subject(c)]
    IN /\ r.pc \in Handling =>
             /\ r.seen.state = "RETIRED" => row.state = "RETIRED"
             /\ r.seen.dnsRemoved => row.dnsRemoved
       /\ r.pc = "AWAIT_CANARY" /\ OpOf(c).canary /\ (r.seen.state = "READY" \/ (r.seen.state = "CANARY" /\ r.seen.window)) =>
             row.window /\ row.state \notin Early
       /\ r.pc = "checkDns" /\ r.step = "RETIRE_OLD_NODE" => r.seen.state \in {"DRAINING", "RETIRED"}
       /\ r.pc \in {"retire", "destroy"} => row.dnsRemoved
       /\ r.pc = "destroy" => row.state = "RETIRED"
       /\ r.pc \in {"mint", "create"} => ServersOf(Target(c)) = {}
       /\ r.pc = "create" /\ row.state = "PROVISIONING" => row.token = r.seen.instance
       /\ r.pc = "done" => Fact(r.op, r.step)
Knowing(c) == (call[c].pc = "idle" => call[c].op = 0) /\ Knows(c) /\ Failing(c) /\ Saw(c)
CallsKnow == \A c \in Calls : Knowing(c)

CanaryWatched == \A i \in Ops : Replaces(i) /\ ops[i].canary /\ Shown(node[ops[i].node]) => node[ops[i].node].window
Unnamed(i) == Makes(i) /\ ops[i].status = "RUNNING" /\ "PUBLISH_DNS" \notin ops[i].done
BootsFirst == \A i \in Ops : Unnamed(i) =>
    /\ node[ops[i].node].state \in Booting /\ ~node[ops[i].node].dnsRemoved /\ ~Touched(ops[i].node)
NamesGone == \A n \in Nodes : node[n].dnsRemoved => n \notin dns
OneEach == \A s, t \in servers : s.node = t.node => s = t

ServersInv == /\ OpsDiffer /\ CallsDiffer /\ Unmade /\ StepsLast /\ CallsKnow
              /\ CanaryWatched /\ BootsFirst /\ NamesGone /\ OneEach /\ TokenMatches

\* One call at a time advances an operation, and administrators leave four moves to the code. By hand,
\* PROVISIONING mints a token that no server has; READY ends a canary's observation; DRAINING drains again
\* a node that a repeated MARK_READY put back in service after it was drained; and FAILED lets a node be
\* replaced while the operation that makes it has yet to publish its name.
Undisturbed == OneCall /\ AdminMoves \cap {"PROVISIONING", "READY", "DRAINING", "FAILED"} = {}

-----------------------------------------------------------------------------
(* What a step may make of a row *)

Acts(n, pc) == \E c \in Calls : At(c, pc) /\ Subject(c) = n
RowGoes(n, new) ==
    LET row == node[n]
    IN /\ new.state = "none" => row.state = "none"
       /\ row.state = "RETIRED" => new.state = "RETIRED"
       /\ row.dnsRemoved => new.dnsRemoved
       /\ row.state \notin Early => new.state \notin Early /\ (row.window => new.window)
       /\ new.state = "PROVISIONING" =>
             row.state = "none" \/ (row.state = "PROVISIONING" /\ (new.token = row.token \/ Acts(n, "mint")))
       /\ new.state = "DRAINING" => row.state = "DRAINING" \/ Acts(n, "DRAIN_OLD_NODE")
       /\ Shown(new) => Shown(row) \/ new.window \/ \E c \in Calls : At(c, "MARK_READY") /\ Target(c) = n /\ ~OpOf(c).canary
       /\ row.state \in Booting => \/ new.state \in Booting \/ row.dnsRemoved
                                   \/ Acts(n, "MARK_READY") \/ Acts(n, "AWAIT_CANARY") \/ Acts(n, "DRAIN_OLD_NODE")
                                   \/ \E c \in Calls : At(c, "failNode") /\ Target(c) = n
       /\ new.dnsRemoved => row.dnsRemoved \/ (n \notin dns /\ Acts(n, "checkDns"))
       /\ row.state = "DRAINING" /\ new.state = "RETIRED" => AssignedTo(n) = {} \/ Acts(n, "retire")
RowsMove == \A n \in Nodes : RowGoes(n, node'[n])

LEMMA RowStays == \A n : RowGoes(n, node[n])
  BY DEF RowGoes

LEMMA OneRowGoes ==
    ASSUME TypeOK, NEW m, NEW row, node' = [node EXCEPT ![m] = row], m \in Nodes => RowGoes(m, row)
    PROVE  RowsMove
<1>1. ASSUME NEW n \in Nodes PROVE RowGoes(n, node'[n])
  <2>1. CASE n = m
    BY <2>1 DEF TypeOK
  <2>2. CASE n # m
    <3>1. node'[n] = node[n]
      BY <2>2 DEF TypeOK
    <3>2. QED
      BY <3>1, RowStays
  <2>3. QED
    BY <2>1, <2>2
<1>2. QED
  BY <1>1 DEF RowsMove

LEMMA TheirNodes ==
    ASSUME FleetInv, ServersInv, NEW c \in Calls, call[c].pc # "idle"
    PROVE  /\ Target(c) \in Nodes /\ OpOf(c).old \in Nodes /\ Subject(c) \in Nodes
           /\ node[Target(c)].state # "none" /\ node[OpOf(c).old].state # "none" /\ node[Subject(c)].state # "none"
           /\ node[Target(c)] \in Node /\ node[OpOf(c).old] \in Node /\ node[Subject(c)] \in Node
           /\ call[c].pc # "failNode" /\ call[c].pc # "load" => Place(call[c].pc, call[c].step)
           /\ call[c].step \notin {"DRAIN_OLD_NODE", "RETIRE_OLD_NODE"} => Subject(c) = Target(c)
           /\ call[c].step \in {"DRAIN_OLD_NODE", "RETIRE_OLD_NODE"} => Subject(c) = OpOf(c).old
<1>1. call[c].op \in Ops /\ Target(c) \in Nodes /\ OpOf(c).old \in Nodes /\ Subject(c) \in Nodes
  BY OperationOf DEF Ops
<1>2. node[Target(c)].state # "none" /\ node[OpOf(c).old].state # "none"
  BY <1>1 DEF ServersInv, Unmade, Target, OpOf
<1>3. node[Target(c)] \in Node /\ node[OpOf(c).old] \in Node /\ node[Subject(c)] \in Node
  BY <1>1 DEF FleetInv, TypeOK
<1>4. call[c].pc # "failNode" /\ call[c].pc # "load" => Place(call[c].pc, call[c].step)
  BY DEF ServersInv, CallsKnow, Knowing, Knows, Active
<1>5. QED
  BY <1>1, <1>2, <1>3, <1>4 DEF Subject

LEMMA HandlersRows ==
    ASSUME FleetInv, ServersInv, NEW c \in Calls, Handles(c) \/ FailNodeIfBooting(c)
    PROVE  RowsMove
<1>0. call[c].pc # "idle"
  BY DEF Handles, CreateInstance, MintToken, CreateServer, RecordServer, PublishDns, AwaitEnrollment,
     AwaitBootstrap, VerifyReadiness, MarkReady, AwaitCanary, DrainOldNode, RetireOldNode, CheckDns, Retire,
     DestroyServer, VerifyEligible, RemoveDns, RevokeAndRetire, DestroyInstance, NoteDestroyed, FailNodeIfBooting, At
<1>1. TypeOK
  BY DEF FleetInv
<1>2. node' = node => RowsMove
  BY RowStays DEF RowsMove
<1> DEFINE n == Target(c)
           m == Subject(c)
           old == OpOf(c).old
<1>3. /\ n \in Nodes /\ old \in Nodes /\ m \in Nodes
      /\ node[n].state # "none" /\ node[old].state # "none" /\ node[m].state # "none"
      /\ node[n] \in Node /\ node[old] \in Node /\ node[m] \in Node
      /\ call[c].pc # "failNode" /\ call[c].pc # "load" => Place(call[c].pc, call[c].step)
      /\ call[c].step \notin {"DRAIN_OLD_NODE", "RETIRE_OLD_NODE"} => m = n
      /\ call[c].step \in {"DRAIN_OLD_NODE", "RETIRE_OLD_NODE"} => m = old
  BY <1>0, TheirNodes
<1>4. ASSUME NEW k \in Nodes, node[k] \in Node, node[k].state # "none",
             NEW row, row.state = node[k].state, row.reason = node[k].reason, row.window = node[k].window,
             row.token = node[k].token \/ Acts(k, "mint"),
             row.dnsRemoved = node[k].dnsRemoved \/ (row.dnsRemoved /\ k \notin dns /\ Acts(k, "checkDns")),
             node' = [node EXCEPT ![k] = row]
      PROVE  RowsMove
  <2>1. RowGoes(k, row)
    BY <1>4 DEF RowGoes, Shown
  <2>2. QED
    BY <1>1, <1>4, <2>1, OneRowGoes
<1>5. CASE MintToken(c)
  <2> DEFINE t == node[n].minted + 1
             row == [node[n] EXCEPT !.minted = t, !.token = t]
  <2>1. CASE node[n].state = "PROVISIONING"
    <3>1. node' = [node EXCEPT ![n] = row] /\ At(c, "mint")
      BY <1>5, <2>1 DEF MintToken
    <3>2. Acts(n, "mint")
      BY <1>3, <3>1, StepNames DEF Acts, At, Place
    <3> HIDE DEF t
    <3>3. row.state = node[n].state /\ row.reason = node[n].reason /\ row.window = node[n].window
          /\ row.dnsRemoved = node[n].dnsRemoved
      BY <1>3 DEF Node
    <3> HIDE DEF row, n
    <3>4. QED
      BY <1>3, <1>4, <3>1, <3>2, <3>3
  <2>2. CASE node[n].state # "PROVISIONING"
    BY <1>2, <1>5, <2>2 DEF MintToken
  <2>3. QED
    BY <2>1, <2>2
<1>6. CASE RecordServer(c) \/ NoteDestroyed(c)
  <2>1. ASSUME NEW row, row = [node[n] EXCEPT !.instance = call[c].seen.instance] \/ row = [node[n] EXCEPT !.destroyed = TRUE],
               node' = [node EXCEPT ![n] = row]
        PROVE  RowsMove
    <3>1. /\ row.state = node[n].state /\ row.reason = node[n].reason /\ row.window = node[n].window
          /\ row.dnsRemoved = node[n].dnsRemoved /\ row.token = node[n].token
      BY <1>3, <2>1 DEF Node
    <3>2. QED
      BY <1>3, <1>4, <2>1, <3>1
  <2>2. QED
    BY <1>6, <2>1 DEF RecordServer, NoteDestroyed
<1>7. CASE CheckDns(c)
  <2> DEFINE row == [node[m] EXCEPT !.dnsRemoved = TRUE]
  <2>1. CASE m \in dns
    BY <1>2, <1>7, <2>1 DEF CheckDns
  <2>2. CASE m \notin dns
    <3>1. node' = [node EXCEPT ![m] = row] /\ At(c, "checkDns")
      BY <1>7, <2>2 DEF CheckDns
    <3>2. Acts(m, "checkDns")
      BY <3>1 DEF Acts
    <3>3. row.state = node[m].state /\ row.reason = node[m].reason /\ row.window = node[m].window /\ row.token = node[m].token
          /\ row.dnsRemoved
      BY <1>3 DEF Node
    <3> HIDE DEF row
    <3>4. QED
      BY <1>3, <1>4, <2>2, <3>1, <3>2, <3>3
  <2>3. QED
    BY <2>1, <2>2
<1>8. ASSUME NEW k \in Nodes, node[k] \in Node, NEW to \in LifecycleState \ {"none", "PROVISIONING", "WARMING_UP"},
             CanTransition(node[k].state, to), node[k].state # "none"
      PROVE  /\ Moved(node[k], to).state = to /\ Moved(node[k], to).dnsRemoved = node[k].dnsRemoved
             /\ node[k].state # "RETIRED" /\ (node[k].state \notin Early => Moved(node[k], to).window = node[k].window)
  BY <1>8 DEF Moved, Node, LifecycleState, CanTransition, ALLOWED_TRANSITIONS, Early
<1>9. CASE MarkReady(c)
  <2>1. ASSUME NEW to \in {"CANARY", "READY"}, to = "READY" => ~OpOf(c).canary, CanTransition(node[n].state, to),
               node' = [node EXCEPT ![n] = Moved(node[n], to)], At(c, "MARK_READY")
        PROVE  RowsMove
    <3> DEFINE row == Moved(node[n], to)
    <3>1. row.state = to /\ row.dnsRemoved = node[n].dnsRemoved /\ node[n].state # "RETIRED"
          /\ (node[n].state \notin Early => row.window = node[n].window)
      BY <1>3, <1>8, <2>1 DEF LifecycleState
    <3>2. Acts(n, "MARK_READY")
      BY <1>3, <2>1, StepNames DEF Acts, At, Place
    <3> HIDE DEF row
    <3>3. RowGoes(n, row)
      BY <1>3, <2>1, <3>1, <3>2 DEF RowGoes, Shown, Early
    <3>4. QED
      BY <1>1, <2>1, <3>3, OneRowGoes DEF row
  <2>2. \/ node' = node
        \/ \E to \in {"CANARY", "READY"} : /\ to = "READY" => ~OpOf(c).canary
                                           /\ CanTransition(node[n].state, to)
                                           /\ node' = [node EXCEPT ![n] = Moved(node[n], to)] /\ At(c, "MARK_READY")
    BY <1>9 DEF MarkReady
  <2>3. QED
    BY <1>2, <2>1, <2>2
<1>10. CASE AwaitCanary(c)
  <2>1. \/ node' = node
        \/ node[n].state = "CANARY" /\ node' = [node EXCEPT ![n] = Failed(node[n], "CANARY_ABORT")]
        \/ node[n].state = "CANARY" /\ node' = [node EXCEPT ![n] = Moved(node[n], "READY")]
           /\ OpOf(c).canary /\ call[c].seen.state = "CANARY" /\ call[c].seen.window
    BY <1>10 DEF AwaitCanary
  <2>2. At(c, "AWAIT_CANARY") /\ Acts(n, "AWAIT_CANARY") /\ m = n
    <3>1. At(c, "AWAIT_CANARY") /\ call[c].step = "AWAIT_CANARY"
      BY <1>3, <1>10, StepNames DEF AwaitCanary, At, Place
    <3>2. QED
      BY <1>3, <3>1 DEF Acts
  <2>3. CASE node[n].state = "CANARY" /\ node' = [node EXCEPT ![n] = Failed(node[n], "CANARY_ABORT")]
    <3> DEFINE row == Failed(node[n], "CANARY_ABORT")
    <3>1. row.state = "FAILED" /\ row.reason = "CANARY_ABORT" /\ row.window = node[n].window /\ row.dnsRemoved = node[n].dnsRemoved
      BY <1>3 DEF Node, Failed
    <3> HIDE DEF row
    <3>2. RowGoes(n, row)
      BY <2>2, <2>3, <3>1 DEF RowGoes, Shown, Early
    <3>3. QED
      BY <1>1, <2>3, <3>2, OneRowGoes DEF row
  <2>4. CASE node[n].state = "CANARY" /\ node' = [node EXCEPT ![n] = Moved(node[n], "READY")]
             /\ OpOf(c).canary /\ call[c].seen.state = "CANARY" /\ call[c].seen.window
    <3> DEFINE row == Moved(node[n], "READY")
    <3>1. node[n].window
      BY <2>2, <2>4 DEF ServersInv, CallsKnow, Knowing, Saw, At
    <3>2. row.state = "READY" /\ row.window /\ row.dnsRemoved = node[n].dnsRemoved
      BY <1>3, <3>1 DEF Node, Moved
    <3> HIDE DEF row
    <3>3. RowGoes(n, row)
      BY <2>2, <2>4, <3>2 DEF RowGoes, Shown, Early
    <3>4. QED
      BY <1>1, <2>4, <3>3, OneRowGoes DEF row
  <2>5. QED
    BY <1>2, <2>1, <2>3, <2>4
<1>11. CASE DrainOldNode(c)
  <2>1. CASE CanTransition(node[old].state, "DRAINING") /\ node' = [node EXCEPT ![old] = Moved(node[old], "DRAINING")]
    <3> DEFINE row == Moved(node[old], "DRAINING")
    <3>1. row.state = "DRAINING" /\ row.dnsRemoved = node[old].dnsRemoved /\ node[old].state # "RETIRED"
          /\ (node[old].state \notin Early => row.window = node[old].window)
      BY <1>3, <1>8, <2>1 DEF LifecycleState
    <3>2. Acts(old, "DRAIN_OLD_NODE")
      BY <1>3, <1>11, StepNames DEF Acts, At, Place, DrainOldNode
    <3> HIDE DEF row
    <3>3. RowGoes(old, row)
      BY <1>3, <3>1, <3>2 DEF RowGoes, Shown, Early
    <3>4. QED
      BY <1>1, <2>1, <3>3, OneRowGoes DEF row
  <2>2. QED
    BY <1>2, <1>11, <2>1 DEF DrainOldNode
<1>12. CASE Retire(c)
  <2>1. CASE node[m].state = "DRAINING" /\ node' = [node EXCEPT ![m] = Moved(node[m], "RETIRED")]
    <3> DEFINE row == Moved(node[m], "RETIRED")
    <3>1. row.state = "RETIRED" /\ row.dnsRemoved = node[m].dnsRemoved /\ row.window = node[m].window
      BY <1>3 DEF Moved, Node
    <3>2. Acts(m, "retire")
      BY <1>12 DEF Retire, Acts
    <3> HIDE DEF row
    <3>3. RowGoes(m, row)
      BY <2>1, <3>1, <3>2 DEF RowGoes, Shown, Early, Booting
    <3>4. QED
      BY <1>1, <2>1, <3>3, OneRowGoes DEF row
  <2>2. QED
    BY <1>2, <1>12, <2>1 DEF Retire
<1>13. CASE RevokeAndRetire(c)
  <2>1. CASE node[n].state = "FAILED" /\ node' = [node EXCEPT ![n] = Revoked(node[n], "RETIRED")]
    <3> DEFINE row == Revoked(node[n], "RETIRED")
    <3>1. row.state = "RETIRED" /\ row.dnsRemoved = node[n].dnsRemoved /\ row.window = node[n].window
      BY <1>3 DEF Revoked, Node
    <3> HIDE DEF row
    <3>3. RowGoes(n, row)
      BY <2>1, <3>1 DEF RowGoes, Shown, Early, Booting
    <3>4. QED
      BY <1>1, <2>1, <3>3, OneRowGoes DEF row
  <2>2. CASE node' = [node EXCEPT ![n] = [node[n] EXCEPT !.key = FALSE]]
    <3> DEFINE row == [node[n] EXCEPT !.key = FALSE]
    <3>1. /\ row.state = node[n].state /\ row.reason = node[n].reason /\ row.window = node[n].window
          /\ row.dnsRemoved = node[n].dnsRemoved /\ row.token = node[n].token
      BY <1>3 DEF Node
    <3> HIDE DEF row
    <3>2. QED
      BY <1>3, <1>4, <2>2, <3>1 DEF row
  <2>3. \/ node' = node \/ node' = [node EXCEPT ![n] = [node[n] EXCEPT !.key = FALSE]]
        \/ node[n].state = "FAILED" /\ node' = [node EXCEPT ![n] = Revoked(node[n], "RETIRED")]
    BY <1>13 DEF RevokeAndRetire
  <2>4. QED
    BY <1>2, <2>1, <2>2, <2>3
<1>14. CASE FailNodeIfBooting(c)
  <2>1. CASE node[n].state \in {"PROVISIONING", "WARMING_UP", "CANARY"}
    <3> DEFINE row == Failed(node[n], "BOOT_TIMEOUT")
    <3>1. row.state = "FAILED" /\ row.reason = "BOOT_TIMEOUT" /\ row.window = node[n].window /\ row.dnsRemoved = node[n].dnsRemoved
      BY <1>3 DEF Node, Failed
    <3>2. node' = [node EXCEPT ![n] = row] /\ At(c, "failNode")
      BY <1>14, <2>1 DEF FailNodeIfBooting
    <3> HIDE DEF row
    <3>3. RowGoes(n, row)
      BY <1>3, <2>1, <3>1, <3>2 DEF RowGoes, Shown, Early
    <3>4. QED
      BY <1>1, <3>2, <3>3, OneRowGoes
  <2>2. CASE node[n].state \notin {"PROVISIONING", "WARMING_UP", "CANARY"}
    <3>1. node' = [node EXCEPT ![n] = node[n]]
      BY <1>14, <2>2 DEF FailNodeIfBooting
    <3>2. QED
      BY <1>1, <3>1, OneRowGoes, RowStays
  <2>3. QED
    BY <2>1, <2>2
<1>15. CASE \/ CreateInstance(c) \/ CreateServer(c) \/ PublishDns(c) \/ AwaitEnrollment(c) \/ AwaitBootstrap(c)
            \/ VerifyReadiness(c) \/ RetireOldNode(c) \/ DestroyServer(c) \/ VerifyEligible(c) \/ RemoveDns(c)
            \/ DestroyInstance(c)
  BY <1>2, <1>15 DEF CreateInstance, CreateServer, PublishDns, AwaitEnrollment, AwaitBootstrap, VerifyReadiness,
     RetireOldNode, DestroyServer, VerifyEligible, RemoveDns, DestroyInstance
<1>16. QED
  BY <1>5, <1>6, <1>7, <1>9, <1>10, <1>11, <1>12, <1>13, <1>14, <1>15 DEF Handles

LEMMA LivesRows ==
    ASSUME FleetInv, ServersInv, Undisturbed, NEW n \in Nodes,
           Lives(n) \/ Starts(n) \/ \E to \in LifecycleState : AdminMove(n, to)
    PROVE  RowsMove
<1>1. TypeOK /\ node[n] \in Node
  BY DEF FleetInv, TypeOK
<1>2. ASSUME NEW row, node' = [node EXCEPT ![n] = row], RowGoes(n, row) PROVE RowsMove
  BY <1>1, <1>2, OneRowGoes
<1>3. CASE Lives(n)
  <2>1. ASSUME NEW row, node' = [node EXCEPT ![n] = row], row.window = node[n].window \/ row.window,
               row.token = node[n].token, row.dnsRemoved = node[n].dnsRemoved,
               \/ row.state = node[n].state /\ row.reason = node[n].reason
               \/ node[n].state = "PROVISIONING" /\ row.state = "WARMING_UP"
               \/ Shown(node[n]) /\ Shown(row)
        PROVE  RowsMove
    <3>1. RowGoes(n, row)
      BY <2>1 DEF RowGoes, Shown, Early, Booting
    <3>2. QED
      BY <1>2, <2>1, <3>1
  <2>3. CASE WindowElapses(n)
    <3> DEFINE row == [node[n] EXCEPT !.window = TRUE]
    <3>1. node' = [node EXCEPT ![n] = row] /\ node[n].state = "CANARY"
      BY <2>3 DEF WindowElapses, Becomes
    <3>2. /\ row.state = node[n].state /\ row.reason = node[n].reason /\ row.window
          /\ row.dnsRemoved = node[n].dnsRemoved /\ row.token = node[n].token
      BY <1>1 DEF Node
    <3> HIDE DEF row
    <3>3. QED
      BY <2>1, <3>1, <3>2
  <2>4. CASE Enroll(n)
    <3> DEFINE row == [node[n] EXCEPT !.state = "WARMING_UP", !.key = TRUE]
    <3>1. node' = [node EXCEPT ![n] = row] /\ node[n].state = "PROVISIONING"
      BY <2>4 DEF Enroll, Becomes
    <3>2. /\ row.state = "WARMING_UP" /\ row.window = node[n].window
          /\ row.dnsRemoved = node[n].dnsRemoved /\ row.token = node[n].token
      BY <1>1 DEF Node
    <3> HIDE DEF row
    <3>3. QED
      BY <2>1, <3>1, <3>2
  <2>5. CASE Boots(n)
    <3> DEFINE row == [node[n] EXCEPT !.booted = TRUE]
    <3>1. node' = [node EXCEPT ![n] = row] /\ node[n].state # "none"
      BY <2>5 DEF Boots, Becomes
    <3>2. /\ row.state = node[n].state /\ row.reason = node[n].reason /\ row.window = node[n].window
          /\ row.dnsRemoved = node[n].dnsRemoved /\ row.token = node[n].token
      BY <1>1 DEF Node
    <3> HIDE DEF row
    <3>3. QED
      BY <2>1, <3>1, <3>2
  <2>6. CASE GetsLost(n) \/ Returns(n)
    <3>1. PICK lost \in BOOLEAN : node' = [node EXCEPT ![n] = [node[n] EXCEPT !.lost = lost]]
      BY <2>6 DEF GetsLost, Returns, Becomes
    <3> DEFINE row == [node[n] EXCEPT !.lost = lost]
    <3>2. /\ row.state = node[n].state /\ row.reason = node[n].reason /\ row.window = node[n].window
          /\ row.dnsRemoved = node[n].dnsRemoved /\ row.token = node[n].token
      BY <1>1 DEF Node
    <3>3. node' = [node EXCEPT ![n] = row]
      BY <3>1
    <3> HIDE DEF row
    <3>4. QED
      BY <2>1, <3>2, <3>3
  <2>7. CASE SilenceFails(n)
    <3> DEFINE row == Failed(node[n], "SILENCE")
    <3>1. node' = [node EXCEPT ![n] = row] /\ node[n].state = "READY"
      BY <2>7 DEF SilenceFails, Becomes
    <3>2. /\ row.state = "FAILED" /\ row.reason = "SILENCE" /\ row.window = node[n].window
          /\ row.dnsRemoved = node[n].dnsRemoved /\ row.token = node[n].token
      BY <1>1 DEF Node, Failed
    <3> HIDE DEF row
    <3>3. QED
      BY <2>1, <3>1, <3>2 DEF Shown
  <2>8. CASE Recovers(n)
    <3> DEFINE row == [node[n] EXCEPT !.state = "READY", !.reason = "none"]
    <3>1. node' = [node EXCEPT ![n] = row] /\ node[n].state = "FAILED" /\ node[n].reason = "SILENCE"
      BY <2>8 DEF Recovers, Becomes
    <3>2. /\ row.state = "READY" /\ row.window = node[n].window
          /\ row.dnsRemoved = node[n].dnsRemoved /\ row.token = node[n].token
      BY <1>1 DEF Node
    <3> HIDE DEF row
    <3>3. QED
      BY <2>1, <3>1, <3>2 DEF Shown
  <2>9. QED
    BY <1>3, <2>3, <2>4, <2>5, <2>6, <2>7, <2>8 DEF Lives
<1>4. ASSUME NEW to \in LifecycleState, AdminMove(n, to) PROVE RowsMove
  <2> DEFINE row == MovedByAdmin(n, to)
  <2>1. /\ node' = [node EXCEPT ![n] = row] /\ CanTransition(node[n].state, to) /\ node[n].state # "none"
        /\ (to = "RETIRED" => node[n].dnsRemoved /\ AssignedTo(n) = {}) /\ to \notin {"PROVISIONING", "READY", "DRAINING", "FAILED"}
    BY <1>4 DEF AdminMove, Undisturbed
  <2>2. Moved(node[n], to) \in Node
    BY <1>1, RowTypes
  <2>3. /\ row.state = to /\ (to # "CANARY" => row.window = node[n].window)
        /\ row.dnsRemoved = node[n].dnsRemoved /\ row.token = node[n].token
    <3>1. CASE to = "QUARANTINED" \/ to = "RETIRED"
      BY <1>1, <2>1, <3>1 DEF MovedByAdmin, Revoked, Node
    <3>2. CASE to \notin {"QUARANTINED", "RETIRED"}
      <4>1. row = [Moved(node[n], to) EXCEPT !.reason = "none"]
        BY <2>1, <3>2 DEF MovedByAdmin
      <4>2. /\ Moved(node[n], to).state = to /\ (to # "CANARY" => Moved(node[n], to).window = node[n].window)
            /\ Moved(node[n], to).dnsRemoved = node[n].dnsRemoved /\ Moved(node[n], to).token = node[n].token
        BY <1>1 DEF Moved, Node
      <4>3. \A r \in Node : LET s == [r EXCEPT !.reason = "none"] IN
               s.state = r.state /\ s.window = r.window /\ s.dnsRemoved = r.dnsRemoved /\ s.token = r.token
        BY DEF Node
      <4>4. QED
        BY <2>2, <4>1, <4>2, <4>3
    <3>3. QED
      BY <3>1, <3>2
  <2> HIDE DEF row
  <2>4. RowGoes(n, row)
    BY <1>1, <2>1, <2>3 DEF RowGoes, Shown, Early, Booting, CanTransition, ALLOWED_TRANSITIONS, LifecycleState, Node
  <2>5. QED
    BY <1>2, <2>1, <2>4
<1>5. CASE Starts(n)
  <2>1. CASE node[n].state = "none" /\ node' = [node EXCEPT ![n] = Moved(NoRow, "PROVISIONING")]
    <3> DEFINE row == Moved(NoRow, "PROVISIONING")
    <3>1. row.state = "PROVISIONING" /\ ~row.dnsRemoved
      BY DEF Moved, NoRow
    <3>2. ~node[n].dnsRemoved
      BY <2>1 DEF ServersInv, Unmade
    <3> HIDE DEF row
    <3>3. RowGoes(n, row)
      BY <2>1, <3>1, <3>2 DEF RowGoes, Shown, Early, Booting, row
    <3>4. QED
      BY <1>2, <2>1, <3>3 DEF row
  <2>2. CASE node' = node
    BY <2>2, RowStays DEF RowsMove
  <2>3. QED
    BY <1>5, <2>1, <2>2 DEF Starts, createProviderNode, autoScaleFullLocations, startCreateNodeOperation, Register, Sweep,
       StartReplace, autoReplaceFailedNodes, startReplaceNodeOperation
<1>6. QED
  BY <1>3, <1>4, <1>5

LEMMA RowsStep ==
    ASSUME FleetInv, ServersInv, Undisturbed, Next
    PROVE  RowsMove
<1>1. node' = node => RowsMove
  BY RowStays DEF RowsMove
<1>2. ASSUME NEW c \in Calls,
             \/ LoadStep(c) \/ StepDone(c) \/ StepWaits(c) \/ StepFails(c) \/ StepFatal(c) \/ FinishOperation(c)
             \/ StatementFails(c) \/ CallDies(c) \/ \E i \in DOMAIN ops : Tick(c, i)
      PROVE  RowsMove
  BY <1>1, <1>2 DEF LoadStep, StepDone, StepWaits, StepFails, StepFatal, FinishOperation, StatementFails, CallDies, Tick
<1>3. ASSUME NEW i \in DOMAIN ops, Clock(i) PROVE RowsMove
  BY <1>1, <1>3 DEF Clock, DeadlinePasses, DrainDeadlinePasses, LeaseLapses
<1>4. ASSUME NEW d \in Devices, NEW n \in Nodes, Assign(d, n) PROVE RowsMove
  BY <1>1, <1>4 DEF Assign
<1>5. QED
  BY <1>2, <1>3, <1>4, HandlersRows, LivesRows DEF Next, Runs
-----------------------------------------------------------------------------
(* What a step may make of the world and of operations *)

WorldMoves ==
    /\ \A s \in servers' \ servers : \E c \in Calls :
          At(c, "create") /\ s = [node |-> Target(c), token |-> call[c].seen.instance] /\ call'[c].pc # "create"
    /\ \A s \in servers \ servers' : Acts(s.node, "destroy")
    /\ \A n \in dns' \ dns : Acts(n, "PUBLISH_DNS")
    /\ \A n \in Nodes : node[n].state \notin {"READY", "CANARY"} => AssignedTo(n)' \subseteq AssignedTo(n)

LEMMA WorldStep ==
    ASSUME FleetInv, ServersInv, Next
    PROVE  WorldMoves
<1>1. ASSUME UNCHANGED world PROVE WorldMoves
  BY <1>1 DEF WorldMoves, world, AssignedTo
<1>2. ASSUME NEW c \in Calls, CreateServer(c) PROVE WorldMoves
  <2>1. /\ At(c, "create") /\ UNCHANGED <<dns, assigned>>
        /\ servers' = servers \cup {[node |-> Target(c), token |-> call[c].seen.instance]}
    BY <1>2 DEF CreateServer
  <2>2. call'[c].pc # "create"
    BY <1>2 DEF CreateServer, Goto, FleetInv, TypeOK, Call
  <2>3. QED
    BY <2>1, <2>2 DEF WorldMoves, AssignedTo
<1>3. ASSUME NEW c \in Calls, PublishDns(c) PROVE WorldMoves
  <2>1. At(c, "PUBLISH_DNS") /\ dns' \subseteq dns \cup {Target(c)} /\ UNCHANGED <<servers, assigned>>
    BY <1>3 DEF PublishDns
  <2>2. Acts(Target(c), "PUBLISH_DNS")
    BY <2>1, TheirNodes, StepNames DEF Acts, At, Place
  <2>3. QED
    BY <2>1, <2>2 DEF WorldMoves, AssignedTo
<1>4. ASSUME NEW c \in Calls, RetireOldNode(c) \/ RemoveDns(c) PROVE WorldMoves
  BY <1>4 DEF RetireOldNode, RemoveDns, WorldMoves, AssignedTo
<1>5. ASSUME NEW c \in Calls, DestroyServer(c) PROVE WorldMoves
  <2>1. /\ At(c, "destroy") /\ UNCHANGED <<dns, assigned>>
        /\ servers' = servers \ {[node |-> Subject(c), token |-> call[c].seen.instance]}
    BY <1>5 DEF DestroyServer
  <2>2. Acts(Subject(c), "destroy")
    BY <2>1 DEF Acts
  <2>3. QED
    BY <2>1, <2>2 DEF WorldMoves, AssignedTo
<1>6. ASSUME NEW d \in Devices, NEW n \in Nodes, Assign(d, n) PROVE WorldMoves
  <2>1. node[n].state \in {"READY", "CANARY"} /\ assigned' = [assigned EXCEPT ![d] = n] /\ UNCHANGED <<servers, dns>>
    BY <1>6 DEF Assign, pickReplacementNode
  <2>2. assigned \in [Devices -> Nodes \cup {"none"}]
    BY DEF FleetInv, TypeOK
  <2>3. ASSUME NEW m \in Nodes, node[m].state \notin {"READY", "CANARY"} PROVE AssignedTo(m)' \subseteq AssignedTo(m)
    BY <2>1, <2>2, <2>3 DEF AssignedTo
  <2>4. QED
    BY <2>1, <2>3 DEF WorldMoves
<1>7. ASSUME NEW c \in Calls, Runs(c) \/ StatementFails(c) \/ CallDies(c) PROVE WorldMoves
  <2>1. CASE Handles(c)
    <3>1. CASE UNCHANGED world
      BY <1>1, <3>1
    <3>2. QED
      BY <1>2, <1>3, <1>4, <1>5, <2>1, <3>1 DEF Handles, CreateInstance, MintToken, RecordServer, AwaitEnrollment,
         AwaitBootstrap, VerifyReadiness, MarkReady, AwaitCanary, DrainOldNode, CheckDns, Retire, VerifyEligible,
         RevokeAndRetire, DestroyInstance, NoteDestroyed
  <2>2. CASE ~Handles(c)
    BY <1>1, <1>7, <2>2 DEF Runs, LoadStep, StepDone, StepWaits, StepFails, StepFatal, FinishOperation,
       FailNodeIfBooting, StatementFails, CallDies
  <2>3. QED
    BY <2>1, <2>2
<1>8. ASSUME NEW n \in Nodes, Lives(n) \/ \E to \in LifecycleState : AdminMove(n, to) PROVE WorldMoves
  BY <1>1, <1>8 DEF Lives, WindowElapses, Enroll, Boots, GetsLost, Returns, SilenceFails, Recovers, Becomes, AdminMove
<1>9. ASSUME NEW n \in Nodes, Starts(n) PROVE WorldMoves
  BY <1>1, <1>9 DEF Starts, createProviderNode, autoScaleFullLocations, startCreateNodeOperation, Register, Sweep,
     StartReplace, autoReplaceFailedNodes, startReplaceNodeOperation
<1>10. ASSUME NEW i \in DOMAIN ops, Clock(i) \/ \E c \in Calls : Tick(c, i) PROVE WorldMoves
  BY <1>1, <1>10 DEF Clock, DeadlinePasses, DrainDeadlinePasses, LeaseLapses, Tick
<1>11. QED
  BY <1>6, <1>7, <1>8, <1>9, <1>10 DEF Next

OpGoes(i) ==
    LET op == ops[i]
        new == ops'[i]
    IN /\ new.type = op.type /\ new.node = op.node /\ new.old = op.old /\ new.canary = op.canary
       /\ new.status = "RUNNING" => op.status = "RUNNING"
       /\ op.drain = "over" => new.drain = "over"
       /\ op.drain # "unset" => new.drain # "unset"
       /\ op.drain = "unset" /\ new.drain # "unset" =>
             \E c \in Calls : At(c, "wait") /\ call[c].op = i /\ call[c].step = "DRAIN_OLD_NODE"
       /\ op.done \subseteq new.done
       /\ \A s \in new.done \ op.done : \E c \in Calls : At(c, "done") /\ call[c].op = i /\ call[c].step = s
\* What a call knows of an operation still holds.
OpKept(i) == OpGoes(i) /\ ops'[i].done = ops[i].done /\ ops'[i].status = ops[i].status
             /\ (ops'[i].drain # "unset") = (ops[i].drain # "unset")

LEMMA OpRests == ASSUME NEW i, ops'[i] = ops[i] PROVE OpKept(i)
  BY DEF OpKept, OpGoes

LEMMA OneOpWritten ==
    ASSUME FleetInv, NEW i \in Ops, NEW op \in Operation, ops' = [ops EXCEPT ![i] = op]
    PROVE  Len(ops') = Len(ops) /\ ops'[i] = op /\ \A j \in Ops \ {i} : ops'[j] = ops[j]
<1>1. ops \in Seq(Operation)
  BY DEF FleetInv, TypeOK
<1>2. QED
  BY <1>1, ExceptSeq DEF Ops

\* The call that acts: the others and their operations rest.
Others(c) == \A d \in Calls \ {c} : call'[d] = call[d] /\ (call[d].op \in Ops => OpKept(call[d].op))

LEMMA EngineOps ==
    ASSUME FleetInv, ServersInv, NEW c \in Calls,
           StepDone(c) \/ StepWaits(c) \/ StepFails(c) \/ StepFatal(c) \/ FinishOperation(c)
    PROVE  /\ Len(ops') = Len(ops) /\ OpGoes(call[c].op) /\ \A j \in Ops \ {call[c].op} : ops'[j] = ops[j]
<1>1. call[c].pc \notin {"idle", "failNode"}
  BY DEF StepDone, StepWaits, StepFails, StepFatal, FinishOperation, At
<1> DEFINE i == call[c].op
<1>2. i \in Ops /\ ops[i] \in Operation
  BY <1>1, OperationOf DEF Ops, OpOf
<1>3. call[c].done = ops[i].done /\ call[c].drain = (ops[i].drain # "unset")
  BY <1>1 DEF ServersInv, CallsKnow, Knowing, Knows, Active
<1>4. call[c].pc \in Outcome => call[c].step \notin call[c].done
  BY DEF FleetInv, CallsFit, CallFits
<1>5. call[c].step \in StepName /\ call[c].passes \in 0..ReadyPasses
  BY DEF FleetInv, TypeOK, Call
<1>6. ASSUME NEW op \in Operation, ops' = [ops EXCEPT ![i] = op],
             op.type = ops[i].type, op.node = ops[i].node, op.old = ops[i].old, op.canary = ops[i].canary,
             op.status = "RUNNING" => ops[i].status = "RUNNING",
             \/ op.drain = ops[i].drain
             \/ ops[i].drain = "unset" /\ op.drain = "set" /\ At(c, "wait") /\ call[c].step = "DRAIN_OLD_NODE",
             op.done = ops[i].done \/ (At(c, "done") /\ op.done = ops[i].done \cup {call[c].step})
      PROVE  Len(ops') = Len(ops) /\ OpGoes(i) /\ \A j \in Ops \ {i} : ops'[j] = ops[j]
  <2>1. Len(ops') = Len(ops) /\ ops'[i] = op /\ \A j \in Ops \ {i} : ops'[j] = ops[j]
    BY <1>2, <1>6, OneOpWritten
  <2>2. OpGoes(i)
    BY <1>6, <2>1 DEF OpGoes
  <2>3. QED
    BY <2>1, <2>2
<1>7. CASE StepDone(c)
  <2> DEFINE op == [ops[i] EXCEPT !.done = @ \cup {call[c].step}]
  <2>1. ops' = [ops EXCEPT ![i] = op] /\ At(c, "done")
    BY <1>7 DEF StepDone
  <2>2. /\ op \in Operation /\ op.type = ops[i].type /\ op.node = ops[i].node /\ op.old = ops[i].old /\ op.canary = ops[i].canary
        /\ op.status = ops[i].status /\ op.drain = ops[i].drain /\ op.done = ops[i].done \cup {call[c].step}
    BY <1>2, <1>5 DEF Operation
  <2> HIDE DEF op, i
  <2>3. QED
    BY <1>6, <2>1, <2>2 DEF i
<1>8. CASE StepWaits(c)
  <2> DEFINE passes == IF call[c].step = "VERIFY_READINESS" THEN call[c].passes ELSE ops[i].passes
             drain == IF call[c].step = "DRAIN_OLD_NODE" /\ ~call[c].drain THEN "set" ELSE ops[i].drain
             op == [ops[i] EXCEPT !.leased = FALSE, !.passes = passes, !.drain = drain]
  <2>1. ops' = [ops EXCEPT ![i] = op] /\ At(c, "wait")
    BY <1>8 DEF StepWaits, OpOf
  <2>2. drain = ops[i].drain \/ (ops[i].drain = "unset" /\ drain = "set" /\ call[c].step = "DRAIN_OLD_NODE")
    BY <1>3
  <2>3. passes \in 0..ReadyPasses /\ drain \in {"unset", "set", "over"}
    BY <1>2, <1>5 DEF Operation
  <2> HIDE DEF passes, drain
  <2>4. /\ op \in Operation /\ op.type = ops[i].type /\ op.node = ops[i].node /\ op.old = ops[i].old /\ op.canary = ops[i].canary
        /\ op.status = ops[i].status /\ op.drain = drain /\ op.done = ops[i].done
    BY <1>2, <2>3 DEF Operation
  <2> HIDE DEF op, i
  <2>5. QED
    BY <1>6, <2>1, <2>2, <2>4 DEF i
<1>9. CASE StepFails(c) \/ StepFatal(c) \/ FinishOperation(c)
  <2>1. ASSUME NEW op, \/ op = [ops[i] EXCEPT !.leased = FALSE, !.done = @ \ {call[c].step}] /\ call[c].pc = "error"
                       \/ op = [ops[i] EXCEPT !.leased = FALSE, !.status = "FAILED", !.done = @ \ {call[c].step}] /\ call[c].pc = "fatal"
                       \/ op = [ops[i] EXCEPT !.leased = FALSE, !.status = "COMPLETED"],
               ops' = [ops EXCEPT ![i] = op]
        PROVE  Len(ops') = Len(ops) /\ OpGoes(i) /\ \A j \in Ops \ {i} : ops'[j] = ops[j]
    <3>1. call[c].pc \in {"error", "fatal"} => ops[i].done \ {call[c].step} = ops[i].done
      BY <1>3, <1>4 DEF Outcome
    <3>2. /\ op \in Operation /\ op.type = ops[i].type /\ op.node = ops[i].node /\ op.old = ops[i].old /\ op.canary = ops[i].canary
          /\ (op.status = "RUNNING" => ops[i].status = "RUNNING") /\ op.drain = ops[i].drain /\ op.done = ops[i].done
      BY <1>2, <2>1, <3>1 DEF Operation
    <3> HIDE DEF i
    <3>3. QED
      BY <1>6, <2>1, <3>2
  <2>2. ASSUME UNCHANGED ops PROVE Len(ops') = Len(ops) /\ OpGoes(i) /\ \A j \in Ops \ {i} : ops'[j] = ops[j]
    BY <2>2, OpRests DEF OpKept
  <2>3. QED
    BY <1>9, <2>1, <2>2 DEF StepFails, StepFatal, FinishOperation, OpOf, At
<1>10. QED
  BY <1>7, <1>8, <1>9

-----------------------------------------------------------------------------
(* What a step does with the operations *)

\* What is true of an operation that is registered.
Added(op) ==
    /\ op.status = "RUNNING" /\ op.done = {} /\ op.drain = "unset" /\ ~op.overdue
    /\ op.type # "CLEANUP_ABANDONED_NODE" => node[op.node].state = "none" /\ node'[op.node].state = "PROVISIONING"
                                              /\ ~node'[op.node].dnsRemoved
    /\ op.type = "REPLACE_NODE" => /\ node[op.old].state \in {"READY", "DEGRADED", "FAILED"}
                                   /\ ~\E i \in Ops : Replaces(i) /\ ops[i].old = op.old
    /\ op.type # "REPLACE_NODE" => op.old = op.node
    /\ op.type = "CLEANUP_ABANDONED_NODE" => node[op.node].state \in {"FAILED", "RETIRED"}
OpsMove ==
    /\ \A i \in Ops : OpGoes(i)
    /\ \/ Len(ops') = Len(ops)
       \/ Len(ops') = Len(ops) + 1 /\ ops'[Len(ops')] \in Operation /\ Added(ops'[Len(ops')])

LEMMA OpsRest == ASSUME \A i \in Ops : ops'[i] = ops[i], Len(ops') = Len(ops) PROVE OpsMove
  BY OpRests DEF OpsMove, OpKept

LEMMA OneOpKept ==
    ASSUME FleetInv, NEW i \in Ops, NEW op \in Operation, ops' = [ops EXCEPT ![i] = op],
           op.type = ops[i].type, op.node = ops[i].node, op.old = ops[i].old, op.canary = ops[i].canary,
           op.done = ops[i].done, op.status = "RUNNING" => ops[i].status = "RUNNING",
           op.drain = ops[i].drain \/ (ops[i].drain = "set" /\ op.drain = "over")
    PROVE  /\ OpsMove /\ Len(ops') = Len(ops) /\ ops'[i] = op
           /\ \A j \in Ops \ {i} : OpKept(j)
           /\ op.status = ops[i].status => OpKept(i)
<1>1. Len(ops') = Len(ops) /\ ops'[i] = op /\ \A j \in Ops \ {i} : ops'[j] = ops[j]
  BY OneOpWritten
<1>2. OpGoes(i) /\ (op.status = ops[i].status => OpKept(i))
  BY <1>1 DEF OpGoes, OpKept
<1>3. \A j \in Ops \ {i} : OpKept(j)
  BY <1>1, OpRests
<1>4. QED
  BY <1>1, <1>2, <1>3 DEF OpsMove, OpKept

LEMMA OpBegins ==
    ASSUME FleetInv, NEW i \in Ops, NEW op, op \in {ops[i], [ops[i] EXCEPT !.leased = TRUE]}, ops' = [ops EXCEPT ![i] = Begun(op)]
    PROVE  /\ OpsMove /\ Len(ops') = Len(ops) /\ \A j \in Ops \ {i} : OpKept(j)
           /\ ops'[i].type = ops[i].type /\ ops'[i].done = ops[i].done /\ ops'[i].drain = ops[i].drain
           /\ IF ops[i].overdue THEN ops'[i].status = "FAILED" ELSE ops'[i].status = ops[i].status
<1>1. ops[i] \in Operation
  BY ElementOfSeq DEF FleetInv, TypeOK, Ops
<1>2. PICK new : new = Begun(op)
  OBVIOUS
<1>3. /\ new \in Operation /\ new.type = ops[i].type /\ new.node = ops[i].node /\ new.old = ops[i].old
      /\ new.canary = ops[i].canary /\ new.done = ops[i].done /\ new.drain = ops[i].drain
      /\ IF ops[i].overdue THEN new.status = "FAILED" ELSE new.status = ops[i].status
  BY <1>1, <1>2 DEF Begun, Operation
<1>4. ops' = [ops EXCEPT ![i] = new]
  BY <1>2
<1>5. /\ OpsMove /\ Len(ops') = Len(ops) /\ ops'[i] = new /\ \A j \in Ops \ {i} : OpKept(j)
  BY <1>3, <1>4, OneOpKept
<1>6. QED
  BY <1>3, <1>5

LEMMA ClockOps ==
    ASSUME FleetInv, NEW i \in DOMAIN ops, Clock(i)
    PROVE  OpsMove /\ Len(ops') = Len(ops) /\ \A j \in Ops : OpKept(j)
<1>1. i \in Ops /\ ops[i] \in Operation
  BY ElementOfSeq DEF FleetInv, TypeOK, Ops
<1>2. ASSUME NEW op, \/ op = [ops[i] EXCEPT !.overdue = TRUE]
                     \/ op = [ops[i] EXCEPT !.drain = "over"] /\ ops[i].drain = "set"
                     \/ op = [ops[i] EXCEPT !.leased = FALSE],
             ops' = [ops EXCEPT ![i] = op]
      PROVE  OpsMove /\ Len(ops') = Len(ops) /\ \A j \in Ops : OpKept(j)
  <2>1. /\ op \in Operation /\ op.type = ops[i].type /\ op.node = ops[i].node /\ op.old = ops[i].old
        /\ op.canary = ops[i].canary /\ op.done = ops[i].done /\ op.status = ops[i].status
        /\ op.drain = ops[i].drain \/ (ops[i].drain = "set" /\ op.drain = "over")
    BY <1>1, <1>2 DEF Operation
  <2>2. QED
    BY <1>1, <1>2, <2>1, OneOpKept
<1>3. QED
  BY <1>2 DEF Clock, DeadlinePasses, DrainDeadlinePasses, LeaseLapses

LEMMA AppendedOp ==
    ASSUME FleetInv, NEW type \in Kinds, NEW n \in Nodes, NEW old \in Nodes, NEW canary \in BOOLEAN,
           ops' = Append(ops, NewOperation(type, n, old, canary)), Added(NewOperation(type, n, old, canary))
    PROVE  OpsMove /\ Len(ops') = Len(ops) + 1 /\ \A j \in Ops : OpKept(j)
<1> DEFINE op == NewOperation(type, n, old, canary)
<1>1. op \in Operation
  BY Parameters DEF NewOperation, Operation
<1>2. ops' = Append(ops, op) /\ Added(op)
  OBVIOUS
<1> HIDE DEF op
<1>3. ops \in Seq(Operation) /\ Len(ops) \in Nat
  BY LenProperties DEF FleetInv, TypeOK
<1>4. /\ Len(ops') = Len(ops) + 1 /\ \A i \in 1..Len(ops) : ops'[i] = ops[i]
      /\ ops'[Len(ops) + 1] = op
  BY <1>1, <1>2, <1>3, AppendProperties
<1>5. \A j \in Ops : OpKept(j)
  BY <1>4, OpRests DEF Ops
<1>6. QED
  BY <1>1, <1>2, <1>4, <1>5 DEF OpsMove, OpKept

LEMMA RegistersOp ==
    ASSUME FleetInv, NEW type, NEW n \in Nodes, NEW old \in Nodes, NEW canary \in BOOLEAN, Register(type, n, old, canary),
           \/ type = "CREATE_NODE" /\ old = n
           \/ /\ type = "REPLACE_NODE" /\ node[old].state \in {"READY", "DEGRADED", "FAILED"}
              /\ ~\E i \in Ops : Replaces(i) /\ ops[i].old = old
    PROVE  OpsMove /\ Len(ops') = Len(ops) + 1 /\ \A j \in Ops : OpKept(j)
<1>1. /\ type \in Kinds /\ node[n].state = "none"
      /\ node' = [node EXCEPT ![n] = Moved(NoRow, "PROVISIONING")]
      /\ ops' = Append(ops, NewOperation(type, n, old, canary))
  BY DEF Register
<1>2. node'[n].state = "PROVISIONING" /\ ~node'[n].dnsRemoved
  BY <1>1 DEF Moved, NoRow, FleetInv, TypeOK
<1>3. Added(NewOperation(type, n, old, canary))
  BY <1>1, <1>2 DEF Added, NewOperation
<1>4. QED
  BY <1>1, <1>3, AppendedOp

-----------------------------------------------------------------------------
(* What a call knows where it is *)

LEMMA CallKnows ==
    ASSUME FleetInv, ServersInv, NEW c \in Calls, call[c].pc \in Handling \cup Outcome
    PROVE  /\ Active(c) /\ call[c].pc # "load" /\ call[c].op \in Ops /\ Turn(call[c].op, call[c].step, call[c].done)
           /\ Place(call[c].pc, call[c].step) /\ Knowing(c) /\ call[c].step \notin call[c].done
           /\ call[c].done = ops[call[c].op].done /\ (Makes(call[c].op) => ops[call[c].op].status = "RUNNING")
<1>1. Active(c) /\ call[c].pc # "load" /\ call[c].pc # "idle"
  BY Names DEF Active
<1>2. Knowing(c)
  BY DEF ServersInv, CallsKnow
<1>3. call[c].op \in Ops
  BY <1>1, OperationOf DEF Ops
<1>4. call[c].step \notin call[c].done
  BY DEF FleetInv, CallsFit, CallFits
<1>5. QED
  BY <1>1, <1>2, <1>3, <1>4 DEF Knowing, Knows

\* Only one call makes a node, and only one takes it out of service.
LEMMA OneMaker ==
    ASSUME FleetInv, ServersInv, NEW c \in Calls, NEW d \in Calls,
           call[c].pc \in Handling \cup Outcome, call[d].pc \in Handling \cup Outcome
    PROVE  /\ call[c].step \in CREATING \cup REPLACING /\ call[d].step \in CREATING \cup REPLACING /\ Target(c) = Target(d) => c = d
           /\ call[c].step \in REPLACING /\ call[d].step \in REPLACING /\ OpOf(c).old = OpOf(d).old => c = d
<1>1. /\ call[c].op \in Ops /\ call[d].op \in Ops
      /\ Turn(call[c].op, call[c].step, call[c].done) /\ Turn(call[d].op, call[d].step, call[d].done)
  BY CallKnows
<1>2. call[c].op = call[d].op => c = d
  BY <1>1, LenProperties DEF ServersInv, CallsDiffer, Ops
<1>3. \A i : Replaces(i) => Makes(i)
  BY DEF Replaces, Makes
<1>4. /\ call[c].step \in CREATING \cup REPLACING => Makes(call[c].op)
      /\ call[d].step \in CREATING \cup REPLACING => Makes(call[d].op)
      /\ call[c].step \in REPLACING => Replaces(call[c].op)
      /\ call[d].step \in REPLACING => Replaces(call[d].op)
  BY <1>1, <1>3 DEF Turn
<1>5. QED
  BY <1>1, <1>2, <1>4 DEF Target, OpOf, ServersInv, OpsDiffer

\* The call that is at a statement, and the step that it belongs to.
LEMMA Actor ==
    ASSUME FleetInv, ServersInv, NEW n, NEW pc \in Handling, Acts(n, pc)
    PROVE  \E c \in Calls :
              /\ call[c].pc = pc /\ Subject(c) = n /\ call[c].op \in Ops /\ call[c].pc \in Handling
              /\ Place(pc, call[c].step) /\ Turn(call[c].op, call[c].step, call[c].done) /\ Saw(c)
              /\ call[c].done = ops[call[c].op].done /\ (Makes(call[c].op) => ops[call[c].op].status = "RUNNING")
              /\ call[c].step \notin call[c].done
              /\ IF call[c].step \in {"DRAIN_OLD_NODE", "RETIRE_OLD_NODE"} THEN n = ops[call[c].op].old ELSE n = ops[call[c].op].node
<1>1. PICK c \in Calls : At(c, pc) /\ Subject(c) = n
  BY DEF Acts
<1>2. QED
  BY <1>1, CallKnows DEF At, Knowing, Subject, OpOf, Target

LEMMA FactKept ==
    ASSUME FleetInv, ServersInv, RowsMove, WorldMoves, NEW i \in Ops, NEW s, Fact(i, s), OpGoes(i),
           s = "DRAIN_OLD_NODE" => \A c \in Calls : call[c].op = i => call[c].pc # "DRAIN_OLD_NODE"
    PROVE  Fact(i, s)'
<1>0. ops[i] \in Operation
  BY ElementOfSeq DEF FleetInv, TypeOK, Ops
<1>a. PICK n \in Nodes, old \in Nodes : n = ops[i].node /\ old = ops[i].old
  BY <1>0 DEF Operation
<1>1. /\ ops'[i].type = ops[i].type /\ ops'[i].node = n /\ ops'[i].old = old /\ ops'[i].canary = ops[i].canary
      /\ ops[i].drain = "over" => ops'[i].drain = "over"
  BY <1>a DEF OpGoes
<1>3. RowGoes(n, node'[n]) /\ RowGoes(old, node'[old])
  BY DEF RowsMove
<1>4. s = "AWAIT_CANARY" /\ ops[i].canary => node'[n].window /\ node'[n].state \notin Early
  BY <1>3, <1>a DEF RowGoes, Fact
<1>5. (s = "REMOVE_DNS" => node'[n].dnsRemoved) /\ (s = "REVOKE_AND_RETIRE" => node'[n].state = "RETIRED")
  BY <1>3, <1>a DEF RowGoes, Fact
<1>6. ASSUME s = "DRAIN_OLD_NODE", ops[i].drain # "over", node'[old].state = "DRAINING" PROVE AssignedTo(old)' = {}
  <2>1. Replaces(i) /\ (node[old].state = "DRAINING" => AssignedTo(old) = {})
    BY <1>6, <1>a DEF Fact
  <2>2. ~Acts(old, "DRAIN_OLD_NODE")
    <3>1. SUFFICES ASSUME Acts(old, "DRAIN_OLD_NODE") PROVE FALSE
      OBVIOUS
    <3>2. "DRAIN_OLD_NODE" \in Handling /\ "DRAIN_OLD_NODE" \in StepName
      BY StepNames DEF Handling
    <3>3. PICK c \in Calls : /\ call[c].pc = "DRAIN_OLD_NODE" /\ call[c].op \in Ops /\ Place("DRAIN_OLD_NODE", call[c].step)
                             /\ Turn(call[c].op, call[c].step, call[c].done)
                             /\ IF call[c].step \in {"DRAIN_OLD_NODE", "RETIRE_OLD_NODE"} THEN old = ops[call[c].op].old
                                ELSE old = ops[call[c].op].node
      BY <3>1, <3>2, Actor
    <3>4. call[c].step = "DRAIN_OLD_NODE"
      BY <3>2, <3>3 DEF Place
    <3>5. Replaces(call[c].op) /\ ops[call[c].op].old = old
      BY <3>3, <3>4 DEF Turn, REPLACING
    <3>6. call[c].op = i
      BY <2>1, <3>3, <3>5, <1>a DEF ServersInv, OpsDiffer
    <3>7. QED
      BY <1>6, <3>3, <3>6
  <2>3. node[old].state = "DRAINING"
    BY <1>3, <1>6, <2>2 DEF RowGoes
  <2>4. AssignedTo(old)' \subseteq AssignedTo(old)
    BY <2>3 DEF WorldMoves
  <2>5. QED
    BY <2>1, <2>3, <2>4
<1>7. s = "DRAIN_OLD_NODE" => Replaces(i)' /\ (ops'[i].drain = "over" \/ (node'[old].state = "DRAINING" => AssignedTo(old)' = {}))
  BY <1>1, <1>6 DEF Fact, Replaces
<1>8. QED
  BY <1>1, <1>4, <1>5, <1>7 DEF Fact

-----------------------------------------------------------------------------
(* What a call knows while others act *)

\* What a call knows stays true while others act.
LEMMA OthersKnow ==
    ASSUME FleetInv, ServersInv, RowsMove, WorldMoves, NEW d \in Calls, call'[d] = call[d],
           call[d].op \in Ops => OpKept(call[d].op)
    PROVE  Knowing(d)'
<1>1. Knowing(d)
  BY DEF ServersInv, CallsKnow
<1>2. call[d].pc = "idle" => Knowing(d)'
  BY <1>1, StepNames, Names DEF Knowing, Knows, Failing, Saw, Active
<1>3. ASSUME call[d].pc # "idle" PROVE Knowing(d)'
  <2>1. PICK i \in Ops : i = call[d].op
    BY <1>3, OperationOf DEF Ops
  <2>2. /\ ops'[i].type = ops[i].type /\ ops'[i].node = ops[i].node /\ ops'[i].old = ops[i].old
        /\ ops'[i].canary = ops[i].canary /\ ops'[i].done = ops[i].done /\ ops'[i].status = ops[i].status
        /\ (ops'[i].drain # "unset") = (ops[i].drain # "unset") /\ OpGoes(i)
    BY <2>1 DEF OpKept, OpGoes
  <2>3. PICK n \in Nodes, m \in Nodes :
            /\ n = Target(d) /\ m = Subject(d) /\ node[n].state # "none" /\ node[m].state # "none"
            /\ call[d].pc # "failNode" /\ call[d].pc # "load" => Place(call[d].pc, call[d].step)
            /\ call[d].step \notin {"DRAIN_OLD_NODE", "RETIRE_OLD_NODE"} => m = n
    BY <1>3, TheirNodes
  <2>4. Target(d)' = n /\ Subject(d)' = m /\ OpOf(d)'.canary = OpOf(d).canary
    BY <2>1, <2>2, <2>3 DEF Target, Subject, OpOf
  <2>5. Knows(d)'
    BY <1>1, <2>1, <2>2 DEF Knowing, Knows, Active, Turn, Makes, Replaces
  <2>6. Failing(d)'
    BY <1>1, <2>1, <2>2 DEF Knowing, Failing
  <2>7. RowGoes(m, node'[m])
    BY DEF RowsMove
  <2>8. ASSUME call[d].pc \in {"mint", "create"}, NEW c \in Calls, At(c, "create") \/ At(c, "mint"), Target(c) = n PROVE c = d
    <3>1. call[c].pc \in Handling /\ call[d].pc \in Handling
      BY <2>8 DEF Handling, At
    <3>2. call[c].step = "CREATE_INSTANCE" /\ call[d].step = "CREATE_INSTANCE"
      BY <2>8, <3>1, CallKnows DEF Place, At
    <3>3. QED
      BY <2>3, <2>8, <3>1, <3>2, OneMaker DEF CREATING
  <2>9. ASSUME call[d].pc \in {"mint", "create"} PROVE ServersOf(n)' = {}
    <3>1. ServersOf(n) = {}
      BY <1>1, <2>3, <2>9 DEF Knowing, Saw
    <3>2. ASSUME NEW s \in servers', s.node = n PROVE FALSE
      <4>1. s \notin servers
        BY <3>1, <3>2 DEF ServersOf
      <4>2. PICK c \in Calls : /\ At(c, "create") /\ s = [node |-> Target(c), token |-> call[c].seen.instance]
                               /\ call'[c].pc # "create"
        BY <3>2, <4>1 DEF WorldMoves
      <4>3. c = d
        BY <2>8, <2>9, <3>2, <4>2
      <4>4. QED
        BY <4>2, <4>3 DEF At
    <3>3. QED
      BY <3>2 DEF ServersOf
  <2>10. ASSUME call[d].pc = "create", node'[m].state = "PROVISIONING" PROVE node'[m].token = call[d].seen.instance
    <3>1. ~Acts(m, "mint")
      <4>1. SUFFICES ASSUME NEW c \in Calls, At(c, "mint"), Subject(c) = m PROVE FALSE
        BY DEF Acts
      <4>2. call[c].pc \in Handling /\ call[d].pc \in Handling
        BY <2>10, <4>1 DEF Handling, At
      <4>3. call[c].step = "CREATE_INSTANCE" /\ call[d].step = "CREATE_INSTANCE"
        BY <2>10, <4>1, <4>2, CallKnows DEF Place, At
      <4>4. Target(c) = n
        BY <2>3, <4>1, <4>3 DEF Subject
      <4>5. QED
        BY <2>8, <2>10, <4>1, <4>4 DEF At
    <3>2. node[m].state = "PROVISIONING" /\ node'[m].token = node[m].token
      BY <2>3, <2>7, <2>10, <3>1 DEF RowGoes
    <3>3. QED
      BY <1>1, <2>3, <2>10, <3>2 DEF Knowing, Saw
  <2>11. ASSUME call[d].pc = "done" PROVE Fact(i, call[d].step)'
    <3>1. Fact(i, call[d].step)
      BY <1>1, <2>1, <2>11 DEF Knowing, Saw
    <3>2. ASSUME NEW c \in Calls, call[c].op = i PROVE call[c].pc # "DRAIN_OLD_NODE"
      <4>1. c = d
        BY <2>1, <3>2, LenProperties DEF ServersInv, CallsDiffer, Ops
      <4>2. QED
        BY <2>11, <4>1
    <3>3. PICK s : s = call[d].step
      OBVIOUS
    <3>4. Fact(i, s)'
      BY <2>2, <3>1, <3>2, <3>3, FactKept
    <3>5. QED
      BY <3>3, <3>4
  <2>12. Saw(d)'
    <3>1. Saw(d)
      BY <1>1 DEF Knowing
    <3>2. /\ node[m].state = "RETIRED" => node'[m].state = "RETIRED"
          /\ node[m].dnsRemoved => node'[m].dnsRemoved
          /\ node[m].window /\ node[m].state \notin Early => node'[m].window /\ node'[m].state \notin Early
      BY <2>7 DEF RowGoes
    <3>3. PICK r \in Call : r = call[d]
      BY DEF FleetInv, TypeOK
    <3>4. OpOf(d)' = ops'[i] /\ r.op = i /\ call'[d] = r
      BY <2>1, <3>3 DEF OpOf
    <3>5. /\ r.pc \in Handling =>
                /\ r.seen.state = "RETIRED" => node'[m].state = "RETIRED"
                /\ r.seen.dnsRemoved => node'[m].dnsRemoved
          /\ r.pc = "AWAIT_CANARY" /\ ops'[i].canary /\ (r.seen.state = "READY" \/ (r.seen.state = "CANARY" /\ r.seen.window)) =>
                node'[m].window /\ node'[m].state \notin Early
          /\ r.pc = "checkDns" /\ r.step = "RETIRE_OLD_NODE" => r.seen.state \in {"DRAINING", "RETIRED"}
          /\ r.pc \in {"retire", "destroy"} => node'[m].dnsRemoved
          /\ r.pc = "destroy" => node'[m].state = "RETIRED"
      BY <2>2, <2>3, <3>1, <3>2, <3>3, <3>4 DEF Saw, OpOf
    <3>6. /\ r.pc \in {"mint", "create"} => ServersOf(n)' = {}
          /\ r.pc = "create" /\ node'[m].state = "PROVISIONING" => node'[m].token = r.seen.instance
          /\ r.pc = "done" => Fact(i, r.step)'
      BY <2>9, <2>10, <2>11, <3>3
    <3>7. (r.pc = "done" => Fact(call[d].op, call[d].step)')
      BY <3>3, <3>4, <3>6
    <3>8. ServersOf(Target(d))' = ServersOf(n)'
      BY <2>4 DEF ServersOf
    <3>9. QED
      BY <2>4, <3>3, <3>4, <3>5, <3>6, <3>7, <3>8 DEF Saw
  <2>13. QED
    BY <1>3, <2>5, <2>6, <2>12 DEF Knowing
<1>4. QED
  BY <1>2, <1>3

-----------------------------------------------------------------------------
(* Operations: what they leave behind *)

\* Where an operation comes from: it was there, or it is registered.
LEMMA OpsGrow ==
    ASSUME FleetInv, ServersInv, OpsMove, NEW i \in Ops'
    PROVE  \/ /\ i \in Ops /\ OpGoes(i) /\ ops[i] \in Operation
              /\ ops'[i].type = ops[i].type /\ ops'[i].node = ops[i].node /\ ops'[i].old = ops[i].old
              /\ ops'[i].canary = ops[i].canary
           \/ i = Len(ops) + 1 /\ ops'[i] \in Operation /\ Added(ops'[i]) /\ i \notin Ops
<1>1. Len(ops) \in Nat
  BY LenProperties DEF FleetInv, TypeOK
<1>2. i \in Ops => OpGoes(i) /\ ops[i] \in Operation
  BY ElementOfSeq DEF OpsMove, FleetInv, TypeOK, Ops
<1>3. i \notin Ops => Len(ops') = Len(ops) + 1 /\ i = Len(ops')
  BY <1>1 DEF OpsMove, Ops
<1>4. QED
  BY <1>2, <1>3 DEF OpsMove, OpGoes

LEMMA UnmadeStep ==
    ASSUME FleetInv, ServersInv, RowsMove, WorldMoves, OpsMove
    PROVE  Unmade'
<1>1. SUFFICES ASSUME NEW n \in Nodes, node'[n].state = "none"
               PROVE  /\ ServersOf(n)' = {} /\ n \notin dns' /\ ~node'[n].dnsRemoved
                      /\ \A i \in Ops' : ops'[i].node # n /\ ops'[i].old # n
  BY DEF Unmade
<1>2. RowGoes(n, node'[n])
  BY DEF RowsMove
<1>3. /\ node[n].state = "none" /\ ServersOf(n) = {} /\ n \notin dns /\ ~node[n].dnsRemoved
      /\ \A i \in Ops : ops[i].node # n /\ ops[i].old # n
  BY <1>1, <1>2 DEF RowGoes, ServersInv, Unmade
<1>4. \A pc : ~Acts(n, pc) \/ pc = "idle"
  BY <1>3, TheirNodes DEF Acts, At
<1>5. n \notin dns' /\ ~node'[n].dnsRemoved
  BY <1>2, <1>3, <1>4 DEF RowGoes, WorldMoves
<1>6. ASSUME NEW s \in servers', s.node = n PROVE FALSE
  <2>1. s \notin servers
    BY <1>3, <1>6 DEF ServersOf
  <2>2. PICK c \in Calls : At(c, "create") /\ s = [node |-> Target(c), token |-> call[c].seen.instance]
    BY <1>6, <2>1 DEF WorldMoves
  <2>3. node[Target(c)].state # "none"
    BY <2>2, TheirNodes DEF At
  <2>4. QED
    BY <1>3, <1>6, <2>2, <2>3
<1>7. ASSUME NEW i \in Ops' PROVE ops'[i].node # n /\ ops'[i].old # n
  <2>1. CASE i \in Ops
    BY <1>3, <1>7, <2>1, OpsGrow
  <2>2. CASE Added(ops'[i])
    BY <1>1, <1>3, <2>2 DEF Added
  <2>3. QED
    BY <1>7, <2>1, <2>2, OpsGrow
<1>8. QED
  BY <1>5, <1>6, <1>7 DEF ServersOf

LEMMA OpsDifferStep ==
    ASSUME FleetInv, ServersInv, OpsMove
    PROVE  OpsDiffer'
<1>1. SUFFICES ASSUME NEW i \in Ops', NEW j \in Ops'
               PROVE  /\ Makes(i)' /\ Makes(j)' /\ ops'[i].node = ops'[j].node => i = j
                      /\ Replaces(i)' /\ Replaces(j)' /\ ops'[i].old = ops'[j].old => i = j
  BY DEF OpsDiffer
<1>2. CASE i \in Ops /\ j \in Ops
  BY <1>1, <1>2, OpsGrow DEF ServersInv, OpsDiffer, Makes, Replaces
<1>3. ASSUME NEW k \in Ops', NEW l \in Ops', l \in Ops, k \notin Ops
      PROVE  /\ ~(Makes(k)' /\ ops'[k].node = ops'[l].node)
             /\ ~(Replaces(k)' /\ Replaces(l)' /\ ops'[k].old = ops'[l].old)
  <2>1. Added(ops'[k]) /\ ops'[k] \in Operation
    BY <1>3, OpsGrow
  <2>2. ops'[l].node = ops[l].node /\ ops'[l].old = ops[l].old /\ ops'[l].type = ops[l].type /\ ops[l] \in Operation
    BY <1>3, OpsGrow
  <2>3. Makes(k)' => node[ops'[k].node].state = "none"
    BY <2>1 DEF Added, Makes
  <2>4. node[ops[l].node].state # "none"
    BY <1>3, <2>2 DEF ServersInv, Unmade, Operation
  <2>5. Replaces(k)' => ~\E i1 \in Ops : Replaces(i1) /\ ops[i1].old = ops'[k].old
    BY <2>1 DEF Added, Replaces
  <2>6. QED
    BY <1>3, <2>2, <2>3, <2>4, <2>5 DEF Replaces
<1>4. CASE i \notin Ops /\ j \notin Ops
  BY <1>1, <1>4, OpsGrow
<1>5. QED
  BY <1>1, <1>2, <1>3, <1>4 DEF Makes, Replaces

LEMMA StepsLastStep ==
    ASSUME FleetInv, ServersInv, RowsMove, WorldMoves, OpsMove
    PROVE  StepsLast'
<1>1. SUFFICES ASSUME NEW i \in Ops', NEW s \in ops'[i].done PROVE Fact(i, s)'
  BY DEF StepsLast
<1>2. CASE Added(ops'[i])
  BY <1>2 DEF Added
<1>3. CASE i \in Ops
  <2>1. OpGoes(i)
    BY <1>3, OpsGrow
  <2>2. CASE s \in ops[i].done
    <3>1. Fact(i, s)
      BY <1>3, <2>2 DEF ServersInv, StepsLast
    <3>2. ASSUME NEW c \in Calls, call[c].op = i, call[c].pc = "DRAIN_OLD_NODE", s = "DRAIN_OLD_NODE" PROVE FALSE
      <4>1. call[c].pc \in Handling /\ call[c].pc \in StepName
        BY <3>2, StepNames DEF Handling
      <4>2. QED
        BY <2>2, <3>2, <4>1, CallKnows DEF Place
    <3>3. QED
      BY <1>3, <2>1, <3>1, <3>2, FactKept
  <2>3. CASE s \notin ops[i].done
    <3>1. PICK c \in Calls : At(c, "done") /\ call[c].op = i /\ call[c].step = s
      BY <1>1, <2>1, <2>3 DEF OpGoes
    <3>2. Fact(i, s)
      BY <3>1 DEF ServersInv, CallsKnow, Knowing, Saw, At
    <3>3. ASSUME NEW d \in Calls, call[d].op = i PROVE call[d].pc # "DRAIN_OLD_NODE"
      BY <1>3, <3>1, <3>3, LenProperties DEF ServersInv, CallsDiffer, Ops, At
    <3>4. QED
      BY <1>3, <2>1, <3>2, <3>3, FactKept
  <2>4. QED
    BY <2>2, <2>3
<1>4. QED
  BY <1>2, <1>3, OpsGrow

LEMMA CanaryWatchedStep ==
    ASSUME FleetInv, ServersInv, RowsMove, OpsMove
    PROVE  CanaryWatched'
<1>1. SUFFICES ASSUME NEW i \in Ops', Replaces(i)', ops'[i].canary, Shown(node'[ops'[i].node]) PROVE node'[ops'[i].node].window
  BY DEF CanaryWatched, Shown
<1>2. CASE Added(ops'[i])
  BY <1>1, <1>2 DEF Added, Replaces, Shown
<1>3. CASE i \in Ops
  <2>1. PICK n \in Nodes : n = ops[i].node /\ n = ops'[i].node /\ Replaces(i) /\ ops[i].canary
    BY <1>1, <1>3, OpsGrow DEF Replaces, Operation
  <2>2. RowGoes(n, node'[n])
    BY DEF RowsMove
  <2>3. CASE Shown(node[n])
    <3>1. node[n].window
      BY <1>3, <2>1, <2>3 DEF ServersInv, CanaryWatched
    <3>2. QED
      BY <2>1, <2>2, <2>3, <3>1 DEF RowGoes, Shown, Early
  <2>4. ASSUME NEW c \in Calls, At(c, "MARK_READY"), Target(c) = n, ~OpOf(c).canary PROVE FALSE
    <3>1. call[c].pc \in Handling /\ call[c].pc \in StepName
      BY <2>4, StepNames DEF Handling, At
    <3>2. call[c].op \in Ops /\ Turn(call[c].op, call[c].step, call[c].done) /\ call[c].step = "MARK_READY"
      BY <2>4, <3>1, CallKnows DEF Place, At
    <3>3. Makes(call[c].op) /\ Makes(i)
      BY <2>1, <3>2 DEF Turn, CREATING, Makes, Replaces
    <3>4. call[c].op = i
      BY <1>3, <2>1, <2>4, <3>2, <3>3 DEF ServersInv, OpsDiffer, Target, OpOf
    <3>5. QED
      BY <2>1, <2>4, <3>4 DEF OpOf
  <2>5. QED
    BY <1>1, <2>1, <2>2, <2>3, <2>4 DEF RowGoes
<1>4. QED
  BY <1>2, <1>3, OpsGrow

-----------------------------------------------------------------------------
(* Tokens and names *)

\* Whoever acts on the name or the state of a node that is not published yet.
LEMMA UnnamedLeft ==
    ASSUME FleetInv, ServersInv, NEW i \in Ops, Unnamed(i), NEW n, n = ops[i].node
    PROVE  /\ ~Acts(n, "MARK_READY") /\ ~Acts(n, "AWAIT_CANARY") /\ ~Acts(n, "DRAIN_OLD_NODE") /\ ~Acts(n, "checkDns")
           /\ \A c \in Calls : At(c, "failNode") => Target(c) # n
<1>1. /\ Makes(i) /\ ops[i].status = "RUNNING" /\ "PUBLISH_DNS" \notin ops[i].done /\ ~Touched(n)
  BY DEF ServersInv, BootsFirst, Unnamed
<1>2. ASSUME NEW pc \in {"MARK_READY", "AWAIT_CANARY", "DRAIN_OLD_NODE", "checkDns"}, Acts(n, pc) PROVE FALSE
  <2>1. pc \in Handling /\ (pc # "checkDns" => pc \in StepName)
    BY StepNames DEF Handling
  <2>2. PICK c \in Calls :
           /\ call[c].op \in Ops /\ Place(pc, call[c].step) /\ Turn(call[c].op, call[c].step, call[c].done)
           /\ call[c].done = ops[call[c].op].done
           /\ IF call[c].step \in {"DRAIN_OLD_NODE", "RETIRE_OLD_NODE"} THEN n = ops[call[c].op].old ELSE n = ops[call[c].op].node
    BY <1>2, <2>1, Actor
  <2>3. CASE pc \in {"MARK_READY", "AWAIT_CANARY"}
    <3>1. call[c].step = pc
      BY <2>1, <2>2, <2>3 DEF Place
    <3>2. Makes(call[c].op) /\ "PUBLISH_DNS" \in ops[call[c].op].done /\ n = ops[call[c].op].node
      BY <2>2, <2>3, <3>1 DEF Turn, CREATING, REPLACING, Makes, Replaces
    <3>3. QED
      BY <1>1, <2>2, <3>2 DEF ServersInv, OpsDiffer
  <2>4. CASE pc = "DRAIN_OLD_NODE" \/ (pc = "checkDns" /\ call[c].step = "RETIRE_OLD_NODE")
    <3>1. call[c].step \in {"DRAIN_OLD_NODE", "RETIRE_OLD_NODE"}
      BY <2>1, <2>2, <2>4 DEF Place
    <3>2. Replaces(call[c].op) /\ n = ops[call[c].op].old
      BY <2>2, <3>1 DEF Turn, REPLACING
    <3>3. QED
      BY <1>1, <2>2, <3>2 DEF Touched
  <2>5. CASE pc = "checkDns" /\ call[c].step = "REMOVE_DNS"
    <3>1. ~Makes(call[c].op) /\ n = ops[call[c].op].node
      BY <2>2, <2>5 DEF Turn, CLEANING
    <3>2. QED
      BY <1>1, <2>2, <3>1 DEF Touched
  <2>6. QED
    BY <2>2, <2>3, <2>4, <2>5 DEF Place
<1>3. ASSUME NEW c \in Calls, At(c, "failNode"), Target(c) = n PROVE FALSE
  <2>1. call[c].op \in Ops /\ ops[call[c].op].node = n
    BY <1>3, OperationOf DEF At, Ops, Target, OpOf
  <2>2. ops[call[c].op].status # "RUNNING"
    BY <1>3 DEF At, ServersInv, CallsKnow, Knowing, Failing
  <2>3. CASE Makes(call[c].op)
    BY <1>1, <2>1, <2>2, <2>3 DEF ServersInv, OpsDiffer
  <2>4. CASE ~Makes(call[c].op)
    BY <1>1, <2>1, <2>4 DEF Touched
  <2>5. QED
    BY <2>3, <2>4
<1>4. QED
  BY <1>2, <1>3

LEMMA BootsFirstStep ==
    ASSUME FleetInv, ServersInv, RowsMove, OpsMove
    PROVE  BootsFirst'
<1>1. SUFFICES ASSUME NEW i \in Ops', Unnamed(i)', NEW n \in Nodes, n = ops'[i].node
               PROVE  node'[n].state \in Booting /\ ~node'[n].dnsRemoved /\ ~Touched(n)'
  <2>1. ASSUME NEW i \in Ops' PROVE ops'[i].node \in Nodes
    BY <2>1, OpsGrow DEF Operation
  <2>2. QED
    BY <2>1 DEF BootsFirst, Touched
<1>2. ops'[i].status = "RUNNING" /\ "PUBLISH_DNS" \notin ops'[i].done /\ Makes(i)'
  BY <1>1 DEF Unnamed
<1>3. CASE i \notin Ops
  <2>1. Added(ops'[i]) /\ i = Len(ops) + 1
    BY <1>3, OpsGrow
  <2>2. node[n].state = "none" /\ node'[n].state = "PROVISIONING" /\ ~node'[n].dnsRemoved
    BY <1>1, <1>2, <2>1 DEF Added, Makes
  <2>3. ASSUME NEW j \in Ops', ops'[j].node = n \/ ops'[j].old = n PROVE j = i
    <3>1. j \notin Ops
      BY <2>2, <2>3, OpsGrow DEF ServersInv, Unmade
    <3>2. QED
      BY <2>1, <3>1, OpsGrow
  <2>4. Replaces(i)' => ops'[i].old # n
    BY <2>1, <2>2 DEF Added, Replaces
  <2>5. ~Touched(n)'
    BY <1>2, <2>3, <2>4 DEF Touched, Makes, Replaces
  <2>6. QED
    BY <2>2, <2>5 DEF Booting
<1>4. CASE i \in Ops
  <2>1. OpGoes(i) /\ n = ops[i].node /\ Makes(i)
    BY <1>1, <1>2, <1>4, OpsGrow DEF Makes
  <2>2. Unnamed(i)
    BY <1>2, <2>1 DEF OpGoes, Unnamed
  <2>3. node[n].state \in Booting /\ ~node[n].dnsRemoved /\ ~Touched(n)
    BY <1>4, <2>1, <2>2 DEF ServersInv, BootsFirst
  <2>4. RowGoes(n, node'[n])
    BY DEF RowsMove
  <2>5. /\ ~Acts(n, "MARK_READY") /\ ~Acts(n, "AWAIT_CANARY") /\ ~Acts(n, "DRAIN_OLD_NODE") /\ ~Acts(n, "checkDns")
        /\ \A c \in Calls : At(c, "failNode") => Target(c) # n
    BY <1>4, <2>1, <2>2, UnnamedLeft
  <2>6. node'[n].state \in Booting /\ ~node'[n].dnsRemoved
    BY <2>3, <2>4, <2>5 DEF RowGoes
  <2>7. ASSUME NEW j \in Ops', \/ Replaces(j)' /\ ops'[j].old = n
                               \/ ~Makes(j)' /\ ops'[j].node = n
        PROVE  FALSE
    <3>1. CASE j \in Ops
      BY <2>3, <2>7, <3>1, OpsGrow DEF Touched, Replaces, Makes
    <3>2. CASE Added(ops'[j])
      BY <2>3, <2>7, <3>2 DEF Added, Replaces, Makes, Booting
    <3>3. QED
      BY <3>1, <3>2, OpsGrow
  <2>8. QED
    BY <2>6, <2>7 DEF Touched
<1>5. QED
  BY <1>3, <1>4

LEMMA NamesGoneStep ==
    ASSUME FleetInv, ServersInv, RowsMove, WorldMoves
    PROVE  NamesGone'
<1>1. SUFFICES ASSUME NEW n \in Nodes, node'[n].dnsRemoved, n \in dns' PROVE FALSE
  BY DEF NamesGone
<1>2. RowGoes(n, node'[n])
  BY DEF RowsMove
<1>3. n \notin dns
  BY <1>1, <1>2 DEF RowGoes, ServersInv, NamesGone
<1>4. Acts(n, "PUBLISH_DNS")
  BY <1>1, <1>3 DEF WorldMoves
<1>5. "PUBLISH_DNS" \in Handling /\ "PUBLISH_DNS" \in StepName
  BY StepNames DEF Handling
<1>6. PICK c \in Calls :
          /\ call[c].op \in Ops /\ Place("PUBLISH_DNS", call[c].step) /\ Turn(call[c].op, call[c].step, call[c].done)
          /\ call[c].done = ops[call[c].op].done /\ (Makes(call[c].op) => ops[call[c].op].status = "RUNNING")
          /\ call[c].step \notin call[c].done
          /\ IF call[c].step \in {"DRAIN_OLD_NODE", "RETIRE_OLD_NODE"} THEN n = ops[call[c].op].old ELSE n = ops[call[c].op].node
  BY <1>4, <1>5, Actor
<1>7. call[c].step = "PUBLISH_DNS"
  BY <1>5, <1>6 DEF Place
<1>8. Unnamed(call[c].op) /\ n = ops[call[c].op].node
  BY <1>6, <1>7 DEF Turn, CREATING, Unnamed
<1>9. ~node[n].dnsRemoved /\ ~Acts(n, "checkDns")
  BY <1>6, <1>8, UnnamedLeft DEF ServersInv, BootsFirst
<1>10. QED
  BY <1>1, <1>2, <1>9 DEF RowGoes

\* The one call that is about to make a node's server.
LEMMA OneCreator ==
    ASSUME FleetInv, ServersInv, NEW c \in Calls, NEW d \in Calls, At(c, "create"), At(d, "create") \/ At(d, "mint"),
           Target(c) = Target(d)
    PROVE  c = d
<1>1. call[c].pc \in Handling /\ call[d].pc \in Handling
  BY DEF Handling, At
<1>2. call[c].step = "CREATE_INSTANCE" /\ call[d].step = "CREATE_INSTANCE"
  BY <1>1, CallKnows DEF Place, At
<1>3. QED
  BY <1>1, <1>2, OneMaker DEF CREATING

LEMMA ServersStep ==
    ASSUME FleetInv, ServersInv, RowsMove, WorldMoves
    PROVE  OneEach' /\ TokenMatches'
<1>1. ASSUME NEW s \in servers', s \notin servers
      PROVE  \E c \in Calls : /\ At(c, "create") /\ s.node = Target(c) /\ s.token = call[c].seen.instance /\ s.node \in Nodes
                              /\ s = [node |-> Target(c), token |-> call[c].seen.instance]
                              /\ ServersOf(s.node) = {} /\ Subject(c) = s.node
                              /\ (node[s.node].state = "PROVISIONING" => node[s.node].token = s.token)
                              /\ node[s.node].state # "none"
  <2>1. PICK c \in Calls : At(c, "create") /\ s = [node |-> Target(c), token |-> call[c].seen.instance]
    BY <1>1 DEF WorldMoves
  <2>2. call[c].pc \in Handling /\ call[c].pc # "idle"
    BY <2>1 DEF Handling, At
  <2>3. call[c].step = "CREATE_INSTANCE" /\ Saw(c)
    BY <2>1, <2>2, CallKnows DEF Place, At, Knowing
  <2>4. Subject(c) = Target(c) /\ Target(c) \in Nodes /\ node[Target(c)].state # "none"
    BY <2>2, <2>3, TheirNodes
  <2>5. QED
    BY <2>1, <2>3, <2>4 DEF Saw, At
<1>2. ASSUME NEW s \in servers', NEW t \in servers', s.node = t.node PROVE s = t
  <2>1. CASE s \in servers /\ t \in servers
    BY <1>2, <2>1 DEF ServersInv, OneEach
  <2>2. CASE s \in servers /\ t \notin servers
    BY <1>1, <1>2, <2>2 DEF ServersOf
  <2>3. CASE s \notin servers /\ t \in servers
    BY <1>1, <1>2, <2>3 DEF ServersOf
  <2>4. CASE s \notin servers /\ t \notin servers
    <3>1. PICK c \in Calls : At(c, "create") /\ s = [node |-> Target(c), token |-> call[c].seen.instance] /\ s.node = Target(c)
      BY <1>1, <2>4
    <3>2. PICK d \in Calls : At(d, "create") /\ t = [node |-> Target(d), token |-> call[d].seen.instance] /\ t.node = Target(d)
      BY <1>1, <2>4
    <3>3. c = d
      BY <1>2, <3>1, <3>2, OneCreator
    <3>4. QED
      BY <3>1, <3>2, <3>3
  <2>5. QED
    BY <2>1, <2>2, <2>3, <2>4
<1>3. ASSUME NEW s \in servers', node'[s.node].state = "PROVISIONING" PROVE s.token = node'[s.node].token
  <2>1. PICK n : n = s.node
    OBVIOUS
  <2>2. CASE s \in servers
    <3>1. n \in Nodes
      BY <2>1, <2>2 DEF FleetInv, TypeOK, Server
    <3>2. RowGoes(n, node'[n])
      BY <3>1 DEF RowsMove
    <3>3. s \in ServersOf(n) /\ node[n].state # "none"
      BY <2>1, <2>2, <3>1 DEF ServersOf, ServersInv, Unmade
    <3>4. ~Acts(n, "mint")
      <4>1. SUFFICES ASSUME Acts(n, "mint") PROVE FALSE
        OBVIOUS
      <4>2. "mint" \in Handling
        BY DEF Handling
      <4>3. PICK c \in Calls : /\ call[c].pc = "mint" /\ Subject(c) = n /\ Place("mint", call[c].step) /\ Saw(c)
        BY <4>1, <4>2, Actor
      <4>4. Target(c) = n
        BY <4>3 DEF Place, Subject
      <4>5. QED
        BY <3>3, <4>3, <4>4 DEF Saw
    <3>5. node[n].state = "PROVISIONING" /\ node'[n].token = node[n].token
      BY <1>3, <2>1, <3>2, <3>3, <3>4 DEF RowGoes
    <3>6. QED
      BY <2>1, <2>2, <3>5 DEF ServersInv, TokenMatches
  <2>3. CASE s \notin servers
    <3>1. PICK c \in Calls : /\ At(c, "create") /\ n = Target(c) /\ n \in Nodes /\ node[n].state # "none"
                            /\ (node[n].state = "PROVISIONING" => node[n].token = s.token)
      BY <1>1, <2>1, <2>3
    <3>2. RowGoes(n, node'[n])
      BY <3>1 DEF RowsMove
    <3>3. ~Acts(n, "mint")
      <4>1. SUFFICES ASSUME NEW d \in Calls, At(d, "mint"), Subject(d) = n PROVE FALSE
        BY DEF Acts
      <4>2. call[d].pc \in Handling
        BY <4>1 DEF Handling, At
      <4>3. call[d].step = "CREATE_INSTANCE"
        BY <4>1, <4>2, CallKnows DEF Place, At
      <4>4. Target(d) = n
        BY <4>1, <4>3 DEF Subject
      <4>5. c = d
        BY <3>1, <4>1, <4>4, OneCreator
      <4>6. QED
        BY <3>1, <4>1, <4>5 DEF At
    <3>4. node[n].state = "PROVISIONING" /\ node'[n].token = node[n].token
      BY <1>3, <2>1, <3>1, <3>2, <3>3 DEF RowGoes
    <3>5. QED
      BY <2>1, <3>1, <3>4
  <2>4. QED
    BY <2>2, <2>3
<1>4. QED
  BY <1>2, <1>3 DEF OneEach, TokenMatches

-----------------------------------------------------------------------------
(* The order of the steps *)

\* The steps are taken in the order of their list.
LEMMA TurnComes ==
    ASSUME FleetInv, NEW i \in Ops, NEW done, NEW k \in DOMAIN StepsOf(ops[i].type), NEW s, s = StepsOf(ops[i].type)[k],
           \A j \in DOMAIN StepsOf(ops[i].type) : StepsOf(ops[i].type)[j] \notin done => k <= j
    PROVE  Turn(i, s, done)
<1> DEFINE l == StepsOf(ops[i].type)
<1>0. ops[i].type \in {"CREATE_NODE", "REPLACE_NODE", "CLEANUP_ABANDONED_NODE"}
  <2>1. ops[i] \in Operation
    BY ElementOfSeq DEF FleetInv, TypeOK, Ops
  <2>2. QED
    BY <2>1, Parameters DEF Operation
<1>1. CASE ops[i].type = "CLEANUP_ABANDONED_NODE"
  <2>1. l[1] = "VERIFY_ELIGIBLE" /\ l[2] = "REMOVE_DNS" /\ l[3] = "REVOKE_AND_RETIRE" /\ l[4] = "DESTROY_INSTANCE" /\ DOMAIN l = 1..4
    BY <1>1 DEF StepsOf, CLEANUP_ABANDONED_NODE_STEPS
  <2> HIDE DEF l
  <2>2. k \in {1, 2, 3, 4} /\ s = l[k] /\ \A j \in 1..4 : l[j] \notin done => k <= j
    BY <2>1 DEF l
  <2>3. s = "DESTROY_INSTANCE" => {"REMOVE_DNS", "REVOKE_AND_RETIRE"} \subseteq done
    <3>1. l[2] \notin done => k <= 2
      BY <2>2
    <3>2. l[3] \notin done => k <= 3
      BY <2>2
    <3>3. s = "DESTROY_INSTANCE" => k = 4
      BY <2>1, <2>2
    <3>4. QED
      BY <2>1, <3>1, <3>2, <3>3
  <2>4. s \in CLEANING
    BY <2>1, <2>2 DEF CLEANING
  <2>5. QED
    BY <1>1, <2>3, <2>4 DEF Turn, CREATING, REPLACING, CLEANING, Makes
<1>2. CASE ops[i].type \in {"CREATE_NODE", "REPLACE_NODE"}
  <2>1. /\ l[1] = "CREATE_INSTANCE" /\ l[2] = "PUBLISH_DNS" /\ l[3] = "AWAIT_ENROLLMENT"
        /\ l[4] = "AWAIT_BOOTSTRAP" /\ l[5] = "VERIFY_READINESS" /\ l[6] = "MARK_READY" /\ 1 \in DOMAIN l /\ 2 \in DOMAIN l
    BY <1>2, ReplaceSteps DEF StepsOf, CREATE_NODE_STEPS
  <2>2. ops[i].type = "CREATE_NODE" => DOMAIN l = 1..6
    BY DEF StepsOf, CREATE_NODE_STEPS
  <2>3. ops[i].type = "REPLACE_NODE" => DOMAIN l = 1..9 /\ l[7] = "AWAIT_CANARY" /\ l[8] = "DRAIN_OLD_NODE" /\ l[9] = "RETIRE_OLD_NODE"
    BY ReplaceSteps DEF StepsOf
  <2>4. s = l[k] /\ k \in DOMAIN l /\ \A j \in DOMAIN l : l[j] \notin done => k <= j
    OBVIOUS
  <2> HIDE DEF l
  <2>5. k \in {1, 2, 3, 4, 5, 6} \/ (ops[i].type = "REPLACE_NODE" /\ k \in {7, 8, 9})
    BY <1>2, <2>2, <2>3, <2>4
  <2>6. l[2] \notin done => k <= 2
    BY <2>1, <2>4
  <2>7. CASE k \in {1, 2, 3, 4, 5, 6}
    <3>1. s \in CREATING /\ (s = "MARK_READY" => "PUBLISH_DNS" \in done)
      BY <2>1, <2>4, <2>6, <2>7 DEF CREATING
    <3>2. QED
      BY <1>2, <3>1 DEF Turn, CREATING, REPLACING, CLEANING, Makes
  <2>8. CASE ops[i].type = "REPLACE_NODE" /\ k \in {7, 8, 9}
    <3>1. (l[7] \notin done => k <= 7) /\ (l[8] \notin done => k <= 8)
      BY <2>3, <2>4, <2>8
    <3>2. /\ s \in REPLACING /\ "PUBLISH_DNS" \in done /\ (s = "DRAIN_OLD_NODE" => "AWAIT_CANARY" \in done)
          /\ (s = "RETIRE_OLD_NODE" => "DRAIN_OLD_NODE" \in done)
      BY <2>1, <2>3, <2>4, <2>6, <2>8, <3>1 DEF REPLACING
    <3>3. QED
      BY <2>8, <3>2 DEF Turn, CREATING, REPLACING, CLEANING, Makes, Replaces
  <2>9. QED
    BY <2>5, <2>7, <2>8
<1>3. QED
  BY <1>0, <1>1, <1>2

\* A call that is idle again, or begins.
LEMMA IdleKnows == ASSUME NEW c, call'[c] = Idle PROVE Knowing(c)'
  BY StepNames DEF Knowing, Knows, Failing, Saw, Active, Idle, Handling

LEMMA BeginsKnowing ==
    ASSUME NEW c \in Calls, NEW i, NEW op, TypeOK, Advance(c, i, op), ops'[i].done = op.done,
           (ops'[i].drain # "unset") = (op.drain # "unset"),
           IF op.overdue THEN ops'[i].status # "RUNNING"
           ELSE Makes(i)' => ops'[i].status = "RUNNING"
    PROVE  Knowing(c)' /\ call'[c].op = i /\ (\A d \in Calls \ {c} : call'[d] = call[d]) /\ (OneCall => ~Busy(i))
<1>1. PICK pc \in {"failNode", "load"} : /\ (pc = "failNode" => op.overdue) /\ (pc = "load" => ~op.overdue)
          /\ call' = [call EXCEPT ![c] = [Idle EXCEPT !.op = i, !.pc = pc, !.done = op.done, !.passes = op.passes,
                                         !.drain = (op.drain # "unset")]]
  BY DEF Advance
<1>2. call'[c] = [Idle EXCEPT !.op = i, !.pc = pc, !.done = op.done, !.passes = op.passes, !.drain = (op.drain # "unset")]
  BY <1>1 DEF TypeOK
<1>3. /\ call'[c].op = i /\ call'[c].pc = pc /\ call'[c].done = op.done /\ call'[c].drain = (op.drain # "unset")
  BY <1>2 DEF Idle
<1>4. Knows(c)' /\ Failing(c)'
  <2>1. CASE pc = "failNode"
    BY <1>1, <1>3, <2>1 DEF Knows, Failing, Active
  <2>2. CASE pc = "load"
    BY <1>1, <1>3, <2>2 DEF Knows, Failing, Active, Makes
  <2>3. QED
    BY <2>1, <2>2
<1>5. Saw(c)'
  BY <1>3, Names, StepNames DEF Saw
<1>6. /\ \A d \in Calls \ {c} : call'[d] = call[d]
      /\ OneCall => ~Busy(i)
  BY <1>1 DEF Advance, TypeOK
<1>7. QED
  BY <1>3, <1>4, <1>5, <1>6 DEF Knowing

-----------------------------------------------------------------------------
(* What a handler hands on *)

\* A handler that hands its call on.
LEMMA MovesKnowing ==
    ASSUME FleetInv, ServersInv, NEW c \in Calls, call[c].pc \in Handling, UNCHANGED ops,
           NEW pc \in Later, NEW row \in Node, HandlerMoves(c, pc, row), Place(pc, call[c].step),
           NEW n, n = Target(c), NEW m, m = Subject(c), NEW s, s = call[c].step, NEW i, i = call[c].op,
           pc \in Handling => /\ row.state = "RETIRED" => node'[m].state = "RETIRED"
                              /\ row.dnsRemoved => node'[m].dnsRemoved,
           pc = "checkDns" /\ s = "RETIRE_OLD_NODE" => row.state \in {"DRAINING", "RETIRED"},
           pc \in {"retire", "destroy"} => node'[m].dnsRemoved,
           pc = "destroy" => node'[m].state = "RETIRED",
           pc \in {"mint", "create"} => ServersOf(n)' = {},
           pc = "create" /\ node'[m].state = "PROVISIONING" => node'[m].token = row.instance,
           pc = "done" => Fact(i, s)'
    PROVE  Knowing(c)'
<1>1. call[c] \in Call /\ call \in [Calls -> Call]
  BY DEF FleetInv, TypeOK
<1>2. /\ call'[c].op = i /\ call'[c].pc = pc /\ call'[c].step = s /\ call'[c].done = call[c].done
      /\ call'[c].drain = call[c].drain /\ call'[c].seen = row
  BY <1>1 DEF HandlerMoves, Call
<1>3. pc \notin StepName /\ pc # "idle" /\ pc # "load" /\ pc # "failNode"
  BY Names DEF Later, Outcome
<1>4. Knowing(c) /\ Active(c) /\ call[c].pc # "load"
  BY CallKnows
<1>5. Knows(c)'
  BY <1>2, <1>4 DEF Knowing, Knows, Active, Turn, Makes, Replaces
<1>6. Failing(c)'
  BY <1>2, <1>3 DEF Failing
<1>7. Target(c)' = n /\ Subject(c)' = m
  BY <1>2 DEF Target, Subject, OpOf
<1>8. ServersOf(Target(c))' = ServersOf(n)'
  BY <1>7 DEF ServersOf
<1>9. pc = "done" => Fact(call[c].op, call[c].step)'
  <2>1. Fact(call[c].op, call[c].step)' = Fact(i, s)'
    BY <1>2
  <2>2. QED
    BY <2>1
<1>10. pc # "AWAIT_CANARY"
  BY <1>3, StepNames
<1>11. Saw(c)'
  BY <1>2, <1>7, <1>8, <1>9, <1>10 DEF Saw
<1>12. QED
  BY <1>2, <1>3, <1>5, <1>6, <1>11 DEF Knowing

LEMMA EndsKnowing ==
    ASSUME FleetInv, ServersInv, NEW c \in Calls, call[c].pc \in Handling, UNCHANGED ops,
           NEW pc \in Outcome, Ends(c, pc), NEW s, s = call[c].step, NEW i, i = call[c].op, pc = "done" => Fact(i, s)'
    PROVE  Knowing(c)'
<1>1. HandlerMoves(c, pc, NoRow) /\ pc \in Later /\ pc \notin Handling /\ NoRow \in Node
  BY NoRowType, StepNames DEF Ends, HandlerMoves, Later, Outcome, Handling
<1>2. Place(pc, call[c].step)
  BY StepNames DEF Place, Outcome
<1>3. PICK n, m : n = Target(c) /\ m = Subject(c)
  OBVIOUS
<1>4. pc \notin {"checkDns", "retire", "destroy", "mint", "create"}
  BY DEF Outcome
<1>5. QED
  BY <1>1, <1>2, <1>3, <1>4, MovesKnowing

LEMMA GoesKnowing ==
    ASSUME FleetInv, ServersInv, RowsMove, NEW c \in Calls, call[c].pc \in Handling, UNCHANGED ops,
           NEW pc \in Later \cap Handling, Goto(c, pc), Place(pc, call[c].step),
           NEW n \in Nodes, n = Target(c), NEW m \in Nodes, m = Subject(c),
           pc = "checkDns" /\ call[c].step = "RETIRE_OLD_NODE" => call[c].seen.state \in {"DRAINING", "RETIRED"},
           pc \in {"retire", "destroy"} => node'[m].dnsRemoved,
           pc = "destroy" => node'[m].state = "RETIRED",
           pc = "mint" => ServersOf(n)' = {},
           pc # "create"
    PROVE  Knowing(c)'
<1>1. PICK row \in Node : row = call[c].seen
  BY DEF FleetInv, TypeOK, Call
<1>2. HandlerMoves(c, pc, row)
  BY <1>1, GotoMoves DEF FleetInv
<1>3. Saw(c)
  BY DEF ServersInv, CallsKnow, Knowing
<1>4. (row.state = "RETIRED" => node[m].state = "RETIRED") /\ (row.dnsRemoved => node[m].dnsRemoved)
  BY <1>1, <1>3 DEF Saw
<1>5. (row.state = "RETIRED" => node'[m].state = "RETIRED") /\ (row.dnsRemoved => node'[m].dnsRemoved)
  BY <1>4 DEF RowsMove, RowGoes
<1>6. PICK s, i : s = call[c].step /\ i = call[c].op
  OBVIOUS
<1>7. pc # "done" /\ pc \in Later
  BY StepNames DEF Handling
<1>8. QED
  BY <1>1, <1>2, <1>5, <1>6, <1>7, MovesKnowing

-----------------------------------------------------------------------------
(* Each handler *)

LEMMA HandlersKnowing ==
    ASSUME FleetInv, ServersInv, RowsMove, NEW c \in Calls, Handles(c)
    PROVE  Knowing(c)'
<1>1. call[c].pc \in Handling /\ UNCHANGED ops
  BY StepNames DEF Handles, CreateInstance, MintToken, CreateServer, RecordServer, PublishDns, AwaitEnrollment,
     AwaitBootstrap, VerifyReadiness, MarkReady, AwaitCanary, DrainOldNode, RetireOldNode, CheckDns, Retire, DestroyServer,
     VerifyEligible, RemoveDns, RevokeAndRetire, DestroyInstance, NoteDestroyed, At, Handling
<1>2. call[c].pc # "idle" /\ call[c].pc \notin {"load", "failNode"}
  BY <1>1, Names
<1>3. PICK i \in Ops, s \in StepName, n \in Nodes, m \in Nodes, old \in Nodes :
         /\ i = call[c].op /\ s = call[c].step /\ n = Target(c) /\ m = Subject(c) /\ old = OpOf(c).old
         /\ node[n] \in Node /\ node[m] \in Node /\ node[old] \in Node
         /\ Place(call[c].pc, s) /\ Turn(i, s, call[c].done) /\ call[c].done = ops[i].done /\ Saw(c)
         /\ (s \notin {"DRAIN_OLD_NODE", "RETIRE_OLD_NODE"} => m = n)
         /\ (s \in {"DRAIN_OLD_NODE", "RETIRE_OLD_NODE"} => m = old)
         /\ n = ops[i].node /\ old = ops[i].old
  <2>1. call[c].op \in Ops /\ Turn(call[c].op, call[c].step, call[c].done) /\ call[c].done = ops[call[c].op].done /\ Saw(c)
    BY <1>1, CallKnows DEF Knowing
  <2>2. call[c].step \in StepName
    BY DEF FleetInv, TypeOK, Call
  <2>3. QED
    BY <1>2, <2>1, <2>2, TheirNodes DEF Target, OpOf
<1>4. /\ call[c] \in Call /\ call \in [Calls -> Call] /\ call[c].seen \in Node /\ node \in [Nodes -> Node]
  BY DEF FleetInv, TypeOK, Call
<1>5. RowGoes(n, node'[n]) /\ RowGoes(m, node'[m]) /\ RowGoes(old, node'[old])
  BY DEF RowsMove
\* The ways a handler ends.
<1>6. ASSUME NEW pc \in Outcome, Ends(c, pc), pc = "done" => Fact(i, s)' PROVE Knowing(c)'
  BY <1>1, <1>3, <1>6, EndsKnowing
<1>7. ASSUME s \notin {"AWAIT_CANARY", "DRAIN_OLD_NODE", "REMOVE_DNS", "REVOKE_AND_RETIRE"} PROVE Fact(i, s)'
  BY <1>7 DEF Fact
<1>8. ASSUME NEW pc \in Later \cap Handling, Goto(c, pc), Place(pc, s), pc # "create",
             pc = "checkDns" /\ s = "RETIRE_OLD_NODE" => call[c].seen.state \in {"DRAINING", "RETIRED"},
             pc \in {"retire", "destroy"} => node'[m].dnsRemoved, pc = "destroy" => node'[m].state = "RETIRED",
             pc = "mint" => ServersOf(n)' = {}
      PROVE  Knowing(c)'
  BY <1>1, <1>3, <1>8, GoesKnowing
<1>9. /\ call[c].seen.state = "RETIRED" => node[m].state = "RETIRED" /\ node'[m].state = "RETIRED"
      /\ call[c].seen.dnsRemoved => node[m].dnsRemoved /\ node'[m].dnsRemoved
  BY <1>1, <1>3, <1>5 DEF Saw, RowGoes
<1>p. /\ i = call[c].op /\ s = call[c].step /\ n = Target(c) /\ m = Subject(c)
      /\ (Place(call[c].pc, s) <=> Place(call[c].pc, call[c].step))
  BY <1>3
<1>q. ASSUME NEW pc \in Later, NEW row \in Node, HandlerMoves(c, pc, row), Place(pc, s),
             row.state = "RETIRED" => node'[m].state = "RETIRED", row.dnsRemoved => node'[m].dnsRemoved,
             pc \in {"record", "create"}, ServersOf(n)' = {}, node'[m].token = row.instance
      PROVE  Knowing(c)'
  BY <1>1, <1>p, <1>q, MovesKnowing
<1> USE DEF At, Outcome
<1>n. {"mint", "record", "checkDns", "retire", "destroy", "note"} \subseteq Later \cap Handling
  BY DEF Later, Handling
<1>10. CASE CreateInstance(c)
  <2>1. s = "CREATE_INSTANCE" /\ UNCHANGED servers
    BY <1>3, <1>10, StepNames DEF CreateInstance, Place, world
  <2>2. Place("record", s) /\ Place("mint", s)
    BY <2>1, StepNames DEF Place
  <2>3. CASE Ends(c, "done") \/ Ends(c, "error") \/ Ends(c, "fatal")
    BY <1>6, <1>7, <2>1, <2>3
  <2>4. ASSUME ServersOf(n) # {} PROVE Cardinality(ServersOf(n)) = 1
    <3>1. PICK x : x \in ServersOf(n)
      BY <2>4
    <3>2. ServersOf(n) = {x}
      BY <3>1 DEF ServersInv, OneEach, ServersOf
    <3>3. QED
      BY <3>2, FS_Singleton
  <2>5. CASE Cardinality(ServersOf(n)) # 1 /\ Goto(c, "mint")
    <3>1. ServersOf(n)' = {}
      BY <2>1, <2>4, <2>5 DEF ServersOf
    <3>2. QED
      BY <1>8, <1>n, <2>2, <2>5, <3>1
  <2>6. CASE /\ call' = [call EXCEPT ![c].pc = "record", ![c].seen.instance = (CHOOSE x \in ServersOf(n) : TRUE).token]
             /\ Cardinality(ServersOf(n)) = 1
    <3>1. PICK t : t = (CHOOSE x \in ServersOf(n) : TRUE).token
      OBVIOUS
    <3>2. t \in Nat
      <4>1. ServersOf(n) # {}
        BY <2>6, FS_EmptySet
      <4>2. (CHOOSE x \in ServersOf(n) : TRUE) \in ServersOf(n)
        BY <4>1
      <4>3. QED
        BY <3>1, <4>2 DEF ServersOf, FleetInv, TypeOK, Server
    <3>3. PICK row : row = [call[c].seen EXCEPT !.instance = t]
      OBVIOUS
    <3>4. row \in Node /\ row.state = call[c].seen.state /\ row.dnsRemoved = call[c].seen.dnsRemoved
      BY <1>4, <3>2, <3>3 DEF Node
    <3>5. HandlerMoves(c, "record", row)
      BY <1>4, <2>6, <3>1, <3>3 DEF HandlerMoves, Call
    <3>6. "record" \in Later
      BY DEF Later
    <3>7. QED
      BY <1>1, <1>3, <1>9, <2>2, <3>4, <3>5, <3>6, MovesKnowing
  <2>7. QED
    BY <1>3, <1>10, <2>3, <2>5, <2>6 DEF CreateInstance
<1>11. CASE MintToken(c)
  <2>1. s = "CREATE_INSTANCE" /\ m = n /\ UNCHANGED servers /\ call[c].pc = "mint"
    BY <1>3, <1>11 DEF MintToken, Place, world
  <2>2. CASE node[n].state = "PROVISIONING"
    <3>1. PICK t : t = node[n].minted + 1
      OBVIOUS
    <3>2. PICK row : row = [call[c].seen EXCEPT !.instance = t]
      OBVIOUS
    <3>3. t \in Nat /\ t # 0
      BY <1>3, <3>1 DEF Node
    <3>4. row \in Node /\ row.state = call[c].seen.state /\ row.dnsRemoved = call[c].seen.dnsRemoved /\ row.instance = t
      BY <1>4, <3>2, <3>3 DEF Node
    <3>5. HandlerMoves(c, "create", row)
      BY <1>3, <1>4, <1>11, <2>2, <3>1, <3>2 DEF MintToken, HandlerMoves, Call
    <3>6. node'[n].token = t
      <4>1. node' = [node EXCEPT ![n] = [node[n] EXCEPT !.minted = t, !.token = t]]
        BY <1>3, <1>11, <2>2, <3>1 DEF MintToken
      <4>2. [node[n] EXCEPT !.minted = t, !.token = t].token = t
        BY <1>3 DEF Node
      <4>3. QED
        BY <1>4, <4>1, <4>2
    <3>7. ServersOf(n)' = {}
      BY <1>3, <2>1 DEF Saw, ServersOf
    <3>8. "create" \in Later /\ Place("create", s)
      BY <2>1, StepNames DEF Later, Place
    <3>9. /\ row.state = "RETIRED" => node'[m].state = "RETIRED"
          /\ row.dnsRemoved => node'[m].dnsRemoved
          /\ node'[m].token = row.instance
      BY <1>9, <2>1, <3>4, <3>6
    <3>10. QED
      BY <1>q, <3>4, <3>5, <3>7, <3>8, <3>9
  <2>3. CASE node[n].state # "PROVISIONING"
    BY <1>3, <1>6, <1>11, <2>3 DEF MintToken
  <2>4. QED
    BY <2>2, <2>3
<1>12. CASE CreateServer(c) \/ RecordServer(c) \/ PublishDns(c) \/ AwaitEnrollment(c) \/ AwaitBootstrap(c)
            \/ MarkReady(c) \/ VerifyEligible(c) \/ NoteDestroyed(c)
  <2>1. s \notin {"AWAIT_CANARY", "DRAIN_OLD_NODE", "REMOVE_DNS", "REVOKE_AND_RETIRE"}
    BY <1>3, <1>12, StepNames DEF Place, CreateServer, RecordServer, PublishDns, AwaitEnrollment, AwaitBootstrap, MarkReady,
       VerifyEligible, NoteDestroyed
  <2>2. CASE \E pc \in Outcome : Ends(c, pc)
    BY <1>6, <1>7, <2>1, <2>2
  <2>3. CASE CreateServer(c)
    <3>1. Goto(c, "record") /\ Place("record", s)
      BY <1>3, <2>3, StepNames DEF CreateServer, Place
    <3>2. QED
      BY <1>8, <1>n, <3>1
  <2>4. QED
    BY <1>12, <2>2, <2>3 DEF RecordServer, PublishDns, AwaitEnrollment, AwaitBootstrap, MarkReady, VerifyEligible, NoteDestroyed
<1>13. CASE VerifyReadiness(c)
  <2>1. s = "VERIFY_READINESS"
    BY <1>3, <1>13, StepNames DEF VerifyReadiness, Place
  <2>2. CASE \E pc \in Outcome : Ends(c, pc)
    BY <1>6, <1>7, <2>1, <2>2
  <2>3. ASSUME NEW passes, call' = [call EXCEPT ![c] = [@ EXCEPT !.passes = passes, !.seen = NoRow,
                                       !.pc = IF passes >= ReadyPasses THEN "done" ELSE "wait"]]
        PROVE  Knowing(c)'
    <3>1. PICK pc \in {"done", "wait"} : pc = IF passes >= ReadyPasses THEN "done" ELSE "wait"
      OBVIOUS
    <3>2. /\ call'[c].op = i /\ call'[c].pc = pc /\ call'[c].step = s /\ call'[c].done = call[c].done
          /\ call'[c].drain = call[c].drain
      BY <1>3, <1>4, <2>3, <3>1 DEF Call
    <3>3. Knowing(c) /\ Active(c) /\ call[c].pc # "load"
      BY <1>1, CallKnows
    <3>4. Place(pc, s)
      BY <3>1, StepNames DEF Place
    <3>5. Knows(c)'
      BY <1>1, <1>3, <3>2, <3>3, <3>4 DEF Knowing, Knows, Active, Turn, Makes, Replaces
    <3>6. Failing(c)'
      BY <3>1, <3>2 DEF Failing
    <3>7. Fact(call[c].op, call[c].step)'
      <4>1. Fact(call[c].op, call[c].step)' = Fact(i, s)'
        BY <3>2
      <4>2. QED
        BY <1>7, <2>1, <4>1
    <3>8. Saw(c)'
      BY <3>1, <3>2, <3>7, StepNames DEF Saw, Handling
    <3>9. QED
      BY <3>1, <3>2, <3>5, <3>6, <3>8 DEF Knowing
  <2>4. QED
    BY <1>13, <2>2, <2>3 DEF VerifyReadiness

<1>14. CASE AwaitCanary(c)
  <2>1. call[c].pc = "AWAIT_CANARY" /\ s = "AWAIT_CANARY" /\ m = n
    BY <1>3, <1>14, StepNames DEF AwaitCanary, Place
  <2>2. CASE Ends(c, "wait") \/ Ends(c, "error") \/ Ends(c, "fatal")
    BY <1>6, <2>2
  <2>3. CASE Ends(c, "done") /\ ~OpOf(c).canary
    <3>1. Fact(i, s)'
      BY <1>1, <1>3, <2>1, <2>3 DEF Fact, OpOf
    <3>2. QED
      BY <1>6, <2>3, <3>1
  <2>4. CASE Ends(c, "done") /\ OpOf(c).canary /\ (call[c].seen.state = "READY" \/ (call[c].seen.state = "CANARY" /\ call[c].seen.window))
    <3>1. node[n].window /\ node[n].state \notin Early
      BY <1>3, <2>1, <2>4 DEF Saw
    <3>2. node'[n].window /\ node'[n].state \notin Early
      BY <1>5, <3>1 DEF RowGoes
    <3>3. Fact(i, s)'
      BY <1>1, <1>3, <2>1, <3>2 DEF Fact
    <3>4. QED
      BY <1>6, <2>4, <3>3
  <2>5. QED
    BY <1>14, <2>2, <2>3, <2>4 DEF AwaitCanary
<1>15. CASE DrainOldNode(c)
  <2>1. call[c].pc = "DRAIN_OLD_NODE" /\ s = "DRAIN_OLD_NODE" /\ UNCHANGED assigned
    BY <1>3, <1>15, StepNames DEF DrainOldNode, Place, world
  <2>2. CASE Ends(c, "wait") \/ Ends(c, "fatal")
    BY <1>6, <2>2
  <2>3. CASE Ends(c, "done") /\ (AssignedTo(old) = {} \/ OpOf(c).drain = "over")
    <3>1. AssignedTo(old)' = AssignedTo(old)
      BY <2>1 DEF AssignedTo
    <3>2. ops[i].drain = "over" \/ AssignedTo(old)' = {}
      BY <1>3, <2>3, <3>1 DEF OpOf
    <3>3. Replaces(i)
      BY <1>3, <2>1 DEF Turn, REPLACING
    <3>4. AssignedTo(ops[i].old)' = AssignedTo(old)'
      BY <1>1, <1>3 DEF AssignedTo
    <3>5. Fact(i, s)'
      BY <1>1, <1>3, <2>1, <3>2, <3>3, <3>4 DEF Fact, Replaces
    <3>6. QED
      BY <1>6, <2>3, <3>5
  <2>4. QED
    BY <1>3, <1>15, <2>2, <2>3 DEF DrainOldNode
<1>16. CASE RetireOldNode(c)
  <2>1. s = "RETIRE_OLD_NODE" /\ call[c].pc = "RETIRE_OLD_NODE"
    BY <1>3, <1>16, StepNames DEF RetireOldNode, Place
  <2>2. Place("checkDns", s) /\ Place("retire", s) /\ Place("destroy", s)
    BY <2>1, StepNames DEF Place
  <2>3. CASE Ends(c, "fatal")
    BY <1>6, <2>3
  <2>4. CASE Goto(c, "checkDns") /\ call[c].seen.state \in {"DRAINING", "RETIRED"}
    BY <1>8, <1>n, <2>2, <2>4
  <2>5. CASE Goto(c, "retire") /\ call[c].seen.dnsRemoved
    BY <1>8, <1>9, <1>n, <2>2, <2>5
  <2>6. CASE Goto(c, "destroy") /\ call[c].seen.dnsRemoved /\ call[c].seen.state = "RETIRED"
    BY <1>8, <1>9, <1>n, <2>2, <2>6
  <2>7. QED
    BY <1>16, <2>3, <2>4, <2>5, <2>6 DEF RetireOldNode
<1>17. CASE CheckDns(c)
  <2>1. call[c].pc = "checkDns" /\ s \in {"RETIRE_OLD_NODE", "REMOVE_DNS"}
    BY <1>3, <1>17 DEF CheckDns, Place
  <2>2. CASE m \in dns
    BY <1>3, <1>6, <1>17, <2>2 DEF CheckDns
  <2>3. CASE m \notin dns
    <3>1. node'[m].dnsRemoved
      <4>1. node' = [node EXCEPT ![m] = [node[m] EXCEPT !.dnsRemoved = TRUE]]
        BY <1>3, <1>17, <2>3 DEF CheckDns
      <4>2. [node[m] EXCEPT !.dnsRemoved = TRUE].dnsRemoved
        BY <1>3 DEF Node
      <4>3. QED
        BY <1>4, <4>1, <4>2
    <3>2. CASE s = "REMOVE_DNS"
      <4>1. Fact(i, s)'
        BY <1>1, <1>3, <3>1, <3>2 DEF Fact
      <4>2. QED
        BY <1>3, <1>6, <1>17, <2>3, <3>2, <4>1 DEF CheckDns
    <3>3. CASE s = "RETIRE_OLD_NODE"
      <4>1. Place("retire", s) /\ Place("destroy", s)
        BY <3>3, StepNames DEF Place
      <4>2. call[c].seen.state \in {"DRAINING", "RETIRED"}
        BY <1>3, <2>1, <3>3 DEF Saw
      <4>3. CASE call[c].seen.state = "DRAINING" /\ Goto(c, "retire")
        BY <1>8, <1>n, <3>1, <4>1, <4>3
      <4>4. CASE call[c].seen.state = "RETIRED" /\ Goto(c, "destroy")
        BY <1>8, <1>9, <1>n, <3>1, <4>1, <4>4
      <4>5. QED
        BY <1>3, <1>17, <2>3, <3>3, <4>2, <4>3, <4>4 DEF CheckDns
    <3>4. QED
      BY <2>1, <3>2, <3>3
  <2>4. QED
    BY <2>2, <2>3
<1>18. CASE Retire(c)
  <2>1. call[c].pc = "retire" /\ s = "RETIRE_OLD_NODE"
    BY <1>3, <1>18 DEF Retire, Place
  <2>2. CASE node[m].state # "DRAINING"
    BY <1>3, <1>6, <1>18, <2>2 DEF Retire
  <2>3. CASE node[m].state = "DRAINING"
    <3>1. node' = [node EXCEPT ![m] = Moved(node[m], "RETIRED")] /\ Goto(c, "destroy")
      BY <1>3, <1>18, <2>3 DEF Retire
    <3>2. node'[m].state = "RETIRED"
      BY <1>3, <1>4, <3>1, RowStates
    <3>3. node'[m].dnsRemoved
      BY <1>3, <1>5, <2>1 DEF Saw, RowGoes
    <3>4. Place("destroy", s)
      BY <2>1, StepNames DEF Place
    <3>5. QED
      BY <1>8, <1>n, <3>1, <3>2, <3>3, <3>4
  <2>4. QED
    BY <2>2, <2>3
<1>19. CASE DestroyServer(c)
  <2>1. call[c].pc = "destroy" /\ s \in {"RETIRE_OLD_NODE", "DESTROY_INSTANCE"}
    BY <1>3, <1>19 DEF DestroyServer, Place
  <2>2. CASE s = "DESTROY_INSTANCE"
    <3>1. Goto(c, "note") /\ Place("note", s)
      BY <1>3, <1>19, <2>2, StepNames DEF DestroyServer, Place
    <3>2. QED
      BY <1>8, <1>n, <3>1
  <2>3. CASE s = "RETIRE_OLD_NODE"
    <3>1. Ends(c, "done")
      BY <1>3, <1>19, <2>3 DEF DestroyServer
    <3>2. QED
      BY <1>6, <1>7, <2>3, <3>1
  <2>4. QED
    BY <2>1, <2>2, <2>3
<1>20. CASE RemoveDns(c)
  <2>1. call[c].pc = "REMOVE_DNS" /\ s = "REMOVE_DNS" /\ m = n
    BY <1>3, <1>20, StepNames DEF RemoveDns, Place
  <2>2. CASE Ends(c, "done") /\ call[c].seen.dnsRemoved
    <3>1. Fact(i, s)'
      BY <1>1, <1>3, <1>9, <2>1, <2>2 DEF Fact
    <3>2. QED
      BY <1>6, <2>2, <3>1
  <2>3. CASE Goto(c, "checkDns")
    <3>1. Place("checkDns", s)
      BY <2>1, StepNames DEF Place
    <3>2. QED
      BY <1>8, <1>n, <2>1, <2>3, <3>1
  <2>4. QED
    BY <1>20, <2>2, <2>3 DEF RemoveDns
<1>21. CASE RevokeAndRetire(c)
  <2>1. call[c].pc = "REVOKE_AND_RETIRE" /\ s = "REVOKE_AND_RETIRE" /\ m = n
    BY <1>3, <1>21, StepNames DEF RevokeAndRetire, Place
  <2>2. CASE Ends(c, "fatal")
    BY <1>6, <2>2
  <2>3. CASE Ends(c, "done") /\ call[c].seen.state = "RETIRED"
    <3>1. Fact(i, s)'
      BY <1>1, <1>3, <1>9, <2>1, <2>3 DEF Fact
    <3>2. QED
      BY <1>6, <2>3, <3>1
  <2>4. CASE Ends(c, "done") /\ node' = [node EXCEPT ![n] = Revoked(node[n], "RETIRED")]
    <3>1. node'[n].state = "RETIRED"
      BY <1>3, <1>4, <2>4, RowStates
    <3>2. Fact(i, s)'
      BY <1>1, <1>3, <2>1, <3>1 DEF Fact
    <3>3. QED
      BY <1>6, <2>4, <3>2
  <2>5. QED
    BY <1>3, <1>21, <2>2, <2>3, <2>4 DEF RevokeAndRetire
<1>22. CASE DestroyInstance(c)
  <2>1. call[c].pc = "DESTROY_INSTANCE" /\ s = "DESTROY_INSTANCE" /\ m = n
    BY <1>3, <1>22, StepNames DEF DestroyInstance, Place
  <2>2. CASE Ends(c, "done")
    BY <1>6, <1>7, <2>1, <2>2
  <2>3. CASE Goto(c, "note")
    <3>1. Place("note", s)
      BY <2>1, StepNames DEF Place
    <3>2. QED
      BY <1>8, <1>n, <2>3, <3>1
  <2>4. CASE Goto(c, "destroy")
    <3>1. {"REMOVE_DNS", "REVOKE_AND_RETIRE"} \subseteq ops[i].done
      BY <1>3, <2>1 DEF Turn
    <3>2. node[n].dnsRemoved /\ node[n].state = "RETIRED"
      BY <1>3, <3>1 DEF ServersInv, StepsLast, Fact
    <3>3. node'[n].dnsRemoved /\ node'[n].state = "RETIRED"
      BY <1>5, <3>2 DEF RowGoes
    <3>4. Place("destroy", s)
      BY <2>1, StepNames DEF Place
    <3>5. QED
      BY <1>8, <1>n, <2>1, <2>4, <3>3, <3>4
  <2>5. QED
    BY <1>22, <2>2, <2>3, <2>4 DEF DestroyInstance
<1>23. QED
  BY <1>10, <1>11, <1>12, <1>13, <1>14, <1>15, <1>16, <1>17, <1>18, <1>19, <1>20, <1>21, <1>22 DEF Handles

-----------------------------------------------------------------------------
(* One call acts *)

\* One call acts, and the others rest.
LEMMA OneActs ==
    ASSUME FleetInv, ServersInv, RowsMove, WorldMoves, NEW c \in Calls, Others(c), Knowing(c)',
           \/ call'[c].op \in {0, call[c].op}
           \/ call'[c].op # 0 /\ \A d \in Calls \ {c} : call[d].op # call'[c].op
    PROVE  CallsKnow' /\ CallsDiffer'
<1>1. ASSUME NEW d \in Calls \ {c} PROVE Knowing(d)' /\ call'[d] = call[d]
  BY <1>1, OthersKnow DEF Others
<1>2. CallsKnow'
  BY <1>1 DEF CallsKnow
<1>3. CallsDiffer'
  BY <1>1 DEF ServersInv, CallsDiffer
<1>4. QED
  BY <1>2, <1>3

LEMMA NoneActs ==
    ASSUME FleetInv, ServersInv, RowsMove, WorldMoves, UNCHANGED call, \A j \in Ops : OpKept(j)
    PROVE  CallsKnow' /\ CallsDiffer'
<1>1. ASSUME NEW d \in Calls PROVE Knowing(d)' /\ call'[d] = call[d]
  BY <1>1, OthersKnow
<1>2. QED
  BY <1>1 DEF CallsKnow, ServersInv, CallsDiffer

LEMMA LoadKnowing ==
    ASSUME FleetInv, ServersInv, NEW c \in Calls, LoadStep(c)
    PROVE  Knowing(c)'
<1>1. call[c].pc = "load" /\ UNCHANGED <<node, ops>>
  BY DEF LoadStep, At
<1>2. PICK i \in Ops : i = call[c].op /\ ops[i] \in Operation /\ ops[i].node \in Nodes /\ ops[i].old \in Nodes
  BY <1>1, OperationOf DEF Ops, OpOf, Target
<1>3. /\ call[c].done = ops[i].done /\ call[c].drain = (ops[i].drain # "unset")
      /\ (Makes(i) => ops[i].status = "RUNNING")
  BY <1>1, <1>2 DEF ServersInv, CallsKnow, Knowing, Knows, Active
<1>4. PICK k, s, m :
          /\ k \in Todo(c) /\ s = StepsOf(ops[i].type)[k] /\ (\A j \in Todo(c) : k <= j)
          /\ m = IF s \in {"DRAIN_OLD_NODE", "RETIRE_OLD_NODE"} THEN ops[i].old ELSE ops[i].node
          /\ call' = [call EXCEPT ![c].step = s, ![c].pc = s, ![c].seen = node[m]]
  BY <1>2 DEF LoadStep, Steps, OpOf, Target
<1>5. k \in DOMAIN StepsOf(ops[i].type) /\ s \in StepName
      /\ \A j \in DOMAIN StepsOf(ops[i].type) : StepsOf(ops[i].type)[j] \notin call[c].done => k <= j
  BY <1>2, <1>4, StepsAreNames DEF Todo, Steps, OpOf
<1>6. PICK done : done = call[c].done
  OBVIOUS
<1>7. Turn(i, s, done)
  BY <1>4, <1>5, <1>6, TurnComes
<1>8. call[c] \in Call /\ call \in [Calls -> Call]
  BY DEF FleetInv, TypeOK
<1>9. /\ call'[c].op = i /\ call'[c].pc = s /\ call'[c].step = s /\ call'[c].done = done
      /\ call'[c].drain = call[c].drain /\ call'[c].seen = node[m]
  BY <1>2, <1>4, <1>6, <1>8 DEF Call
<1>10. Place(s, s)
  BY <1>5, StepNames DEF Place
<1>11. Knows(c)'
  BY <1>1, <1>3, <1>6, <1>7, <1>9, <1>10 DEF Knows, Turn, Makes, Replaces
<1>12. s \notin {"idle", "failNode", "checkDns", "retire", "destroy", "mint", "create", "done"}
  BY <1>5, StepNames
<1>13. Subject(c)' = m
  BY <1>1, <1>4, <1>9 DEF Subject, Target, OpOf
<1>14. s = "AWAIT_CANARY" /\ ops[i].canary /\ (node[m].state = "READY" \/ (node[m].state = "CANARY" /\ node[m].window)) =>
          node[m].window /\ node[m].state \notin Early
  BY <1>2, <1>4, <1>7 DEF Turn, REPLACING, ServersInv, CanaryWatched, Shown, Early
<1>15. OpOf(c)' = ops[i]
  BY <1>1, <1>9 DEF OpOf
<1>16. Saw(c)'
  BY <1>1, <1>9, <1>12, <1>13, <1>14, <1>15 DEF Saw
<1>17. QED
  BY <1>9, <1>11, <1>12, <1>16 DEF Knowing, Failing

LEMMA EngineKnowing ==
    ASSUME FleetInv, ServersInv, NEW c \in Calls,
           StepDone(c) \/ StepWaits(c) \/ StepFails(c) \/ StepFatal(c) \/ FinishOperation(c)
    PROVE  Knowing(c)' /\ Others(c) /\ call'[c].op \in {0, call[c].op} /\ OpsMove
<1>1. call[c].pc \notin {"idle", "failNode"}
  BY DEF StepDone, StepWaits, StepFails, StepFatal, FinishOperation, At
<1>2. PICK i \in Ops : i = call[c].op /\ ops[i] \in Operation
  BY <1>1, OperationOf DEF Ops, OpOf
<1>3. /\ call[c].done = ops[i].done /\ call[c].drain = (ops[i].drain # "unset")
      /\ (Makes(i) => ops[i].status = "RUNNING") /\ Knows(c)
  BY <1>1, <1>2 DEF ServersInv, CallsKnow, Knowing, Knows, Active
<1>4. /\ Len(ops') = Len(ops) /\ OpGoes(i) /\ \A j \in Ops \ {i} : ops'[j] = ops[j]
  BY <1>2, EngineOps
<1>5. OpsMove
  BY <1>4, OpRests DEF OpsMove, OpKept
<1>6. call[c] \in Call /\ call \in [Calls -> Call] /\ ops \in Seq(Operation)
  BY DEF FleetInv, TypeOK
<1>7. \A d \in Calls \ {c} : call'[d] = call[d]
  BY <1>6 DEF StepDone, StepWaits, StepFails, StepFatal, FinishOperation, Goto
<1>8. Others(c)
  <2>1. ASSUME NEW d \in Calls \ {c}, call[d].op \in Ops PROVE OpKept(call[d].op)
    <3>1. call[d].op # i
      BY <1>2, <2>1, LenProperties DEF ServersInv, CallsDiffer, Ops
    <3>2. QED
      BY <1>4, <2>1, <3>1, OpRests
  <2>2. QED
    BY <1>7, <2>1 DEF Others
<1>9. ASSUME call' = [call EXCEPT ![c] = Idle] PROVE Knowing(c)' /\ call'[c].op \in {0, call[c].op}
  <2>1. call'[c] = Idle
    BY <1>6, <1>9
  <2>2. Knowing(c)'
    BY <2>1, IdleKnows
  <2>3. QED
    BY <2>1, <2>2 DEF Idle
<1>10. CASE StepDone(c)
  <2>1. /\ call'[c].op = i /\ call'[c].pc = "load" /\ call'[c].done = call[c].done \cup {call[c].step}
        /\ call'[c].drain = call[c].drain
    BY <1>2, <1>6, <1>10 DEF StepDone, Call
  <2>2. PICK op : op = [ops[i] EXCEPT !.done = @ \cup {call[c].step}]
    OBVIOUS
  <2>3. ops' = [ops EXCEPT ![i] = op]
    BY <1>2, <1>10, <2>2 DEF StepDone
  <2>4. /\ op.done = ops[i].done \cup {call[c].step} /\ op.drain = ops[i].drain /\ op.status = ops[i].status /\ op.type = ops[i].type
    BY <1>2, <2>2 DEF Operation
  <2>5. ops'[i] = op
    BY <1>2, <1>6, <2>3 DEF Ops
  <2>6. Knows(c)'
    BY <1>3, <2>1, <2>4, <2>5 DEF Knows, Makes
  <2>7. Saw(c)' /\ Failing(c)'
    BY <2>1, Names, StepNames DEF Saw, Failing
  <2>8. QED
    BY <1>2, <1>5, <1>8, <2>1, <2>6, <2>7 DEF Knowing
<1>11. CASE StepFatal(c)
  <2>1. call'[c].op = i /\ call'[c].pc = "failNode"
    BY <1>2, <1>6, <1>11 DEF StepFatal, Goto, Call
  <2>2. PICK op : op = [ops[i] EXCEPT !.leased = FALSE, !.status = "FAILED", !.done = @ \ {call[c].step}]
    OBVIOUS
  <2>3. ops' = [ops EXCEPT ![i] = op]
    BY <1>2, <1>11, <2>2 DEF StepFatal, OpOf
  <2>4. op.status = "FAILED"
    BY <1>2, <2>2 DEF Operation
  <2>5. ops'[i] = op
    BY <1>2, <1>6, <2>3 DEF Ops
  <2>6. Saw(c)' /\ Failing(c)' /\ Knows(c)'
    BY <2>1, <2>4, <2>5, Names, StepNames DEF Saw, Failing, Knows, Active
  <2>7. QED
    BY <1>2, <1>5, <1>8, <2>1, <2>6 DEF Knowing
<1>12. CASE call[c].pc = "error" /\ Goto(c, "fatal") /\ UNCHANGED ops
  <2>1. /\ call'[c].op = i /\ call'[c].pc = "fatal" /\ call'[c].done = call[c].done
        /\ call'[c].drain = call[c].drain /\ call'[c].step = call[c].step
    BY <1>2, <1>6, <1>12 DEF Goto, Call
  <2>2. Place("fatal", call[c].step)
    BY StepNames DEF Place
  <2>3. Knows(c)'
    BY <1>2, <1>3, <1>12, <2>1, <2>2 DEF Knows, Active, Makes, Turn, Replaces
  <2>4. Saw(c)' /\ Failing(c)'
    BY <2>1, StepNames DEF Saw, Failing, Handling
  <2>5. QED
    BY <1>2, <1>5, <1>8, <2>1, <2>3, <2>4 DEF Knowing
<1>13. QED
  BY <1>5, <1>8, <1>9, <1>10, <1>11, <1>12 DEF StepWaits, StepFails, FinishOperation, At

-----------------------------------------------------------------------------
(* Calls, ticks and administrators *)

LEMMA RunsStep ==
    ASSUME FleetInv, ServersInv, RowsMove, WorldMoves, NEW c \in Calls, Runs(c) \/ StatementFails(c) \/ CallDies(c)
    PROVE  CallsKnow' /\ CallsDiffer' /\ OpsMove
<1>1. call \in [Calls -> Call] /\ call[c] \in Call
  BY DEF FleetInv, TypeOK
<1>2. ASSUME Knowing(c)', UNCHANGED ops, \A d \in Calls \ {c} : call'[d] = call[d], call'[c].op \in {0, call[c].op}
      PROVE  CallsKnow' /\ CallsDiffer' /\ OpsMove
  <2>1. Others(c)
    BY <1>2, OpRests DEF Others
  <2>2. OpsMove
    BY <1>2, OpsRest
  <2>3. QED
    BY <1>2, <2>1, <2>2, OneActs
<1>3. CASE StepDone(c) \/ StepWaits(c) \/ StepFails(c) \/ StepFatal(c) \/ FinishOperation(c)
  <2>1. Knowing(c)' /\ Others(c) /\ call'[c].op \in {0, call[c].op} /\ OpsMove
    BY <1>3, EngineKnowing
  <2>2. QED
    BY <2>1, OneActs
<1>4. CASE LoadStep(c)
  <2>1. Knowing(c)'
    BY <1>4, LoadKnowing
  <2>2. UNCHANGED ops /\ (\A d \in Calls \ {c} : call'[d] = call[d]) /\ call'[c].op = call[c].op
    BY <1>1, <1>4 DEF LoadStep, Call
  <2>3. QED
    BY <1>2, <2>1, <2>2
<1>5. CASE Handles(c)
  <2>1. Knowing(c)'
    BY <1>5, HandlersKnowing
  <2>2. UNCHANGED ops /\ (\A d \in Calls \ {c} : call'[d] = call[d]) /\ call'[c].op = call[c].op
    <3>1. CASE VerifyReadiness(c)
      <4>1. CASE \E pc \in Outcome : Ends(c, pc)
        BY <1>1, <3>1, <4>1 DEF VerifyReadiness, Ends, Call
      <4>2. ASSUME NEW passes, call' = [call EXCEPT ![c] = [@ EXCEPT !.passes = passes, !.seen = NoRow,
                                       !.pc = IF passes >= ReadyPasses THEN "done" ELSE "wait"]]
            PROVE  UNCHANGED ops /\ (\A d \in Calls \ {c} : call'[d] = call[d]) /\ call'[c].op = call[c].op
        BY <1>1, <3>1, <4>2 DEF VerifyReadiness, Call
      <4>3. QED
        BY <3>1, <4>1, <4>2 DEF VerifyReadiness, Outcome
    <3>2. CASE ~VerifyReadiness(c)
      <4>1. Handled(c) /\ UNCHANGED ops
        BY <1>5, <3>2, HandlersType DEF Typed
      <4>2. PICK pc, row : call' = [call EXCEPT ![c].pc = pc, ![c].seen = row]
        BY <4>1 DEF Handled, HandlerMoves
      <4>3. QED
        BY <1>1, <4>1, <4>2 DEF Call
    <3>3. QED
      BY <3>1, <3>2
  <2>3. QED
    BY <1>2, <2>1, <2>2
<1>6. CASE FailNodeIfBooting(c) \/ CallDies(c)
  <2>1. UNCHANGED ops /\ call' = [call EXCEPT ![c] = Idle]
    BY <1>6 DEF FailNodeIfBooting, CallDies
  <2>2. call'[c] = Idle /\ \A d \in Calls \ {c} : call'[d] = call[d]
    BY <1>1, <2>1
  <2>3. Knowing(c)'
    BY <2>2, IdleKnows
  <2>4. call'[c].op = 0
    BY <2>2 DEF Idle
  <2>5. QED
    BY <1>2, <2>1, <2>2, <2>3, <2>4
<1>7. CASE StatementFails(c)
  <2>1. call[c].pc \in Handling /\ UNCHANGED ops /\ Ends(c, "error")
    BY <1>7 DEF StatementFails
  <2>2. PICK s, i : s = call[c].step /\ i = call[c].op
    OBVIOUS
  <2>3. Knowing(c)'
    <3>1. ASSUME NEW pc \in Outcome, pc = "error" PROVE Knowing(c)'
      BY <2>1, <2>2, <3>1, EndsKnowing
    <3>2. QED
      BY <3>1 DEF Outcome
  <2>4. (\A d \in Calls \ {c} : call'[d] = call[d]) /\ call'[c].op = call[c].op
    BY <1>1, <2>1 DEF Ends, Call
  <2>5. QED
    BY <1>2, <2>1, <2>3, <2>4
<1>8. QED
  BY <1>3, <1>4, <1>5, <1>6, <1>7 DEF Runs

\* A call begins to advance an operation.
LEMMA AdvanceStep ==
    ASSUME FleetInv, ServersInv, OneCall, RowsMove, WorldMoves, NEW c \in Calls, NEW i \in Ops', NEW op, Advance(c, i, op),
           ops'[i].done = op.done, (ops'[i].drain # "unset") = (op.drain # "unset"),
           IF op.overdue THEN ops'[i].status # "RUNNING" ELSE Makes(i)' => ops'[i].status = "RUNNING",
           \A j \in Ops \ {i} : OpKept(j)
    PROVE  CallsKnow' /\ CallsDiffer'
<1>1. Knowing(c)' /\ call'[c].op = i /\ (\A d \in Calls \ {c} : call'[d] = call[d]) /\ ~Busy(i)
  BY BeginsKnowing DEF FleetInv
<1>2. Others(c)
  BY <1>1 DEF Others, Busy
<1>3. i # 0
  BY DEF Ops
<1>4. QED
  BY <1>1, <1>2, <1>3, OneActs DEF Busy

LEMMA TimersStep ==
    ASSUME FleetInv, ServersInv, OneCall, RowsMove, WorldMoves, NEW i \in DOMAIN ops, Clock(i) \/ \E c \in Calls : Tick(c, i)
    PROVE  CallsKnow' /\ CallsDiffer' /\ OpsMove
<1>1. CASE Clock(i)
  <2>1. UNCHANGED call
    BY <1>1 DEF Clock, DeadlinePasses, DrainDeadlinePasses, LeaseLapses
  <2>2. QED
    BY <1>1, <2>1, ClockOps, NoneActs
<1>2. ASSUME NEW c \in Calls, Tick(c, i) PROVE CallsKnow' /\ CallsDiffer' /\ OpsMove
  <2>1. i \in Ops
    BY DEF FleetInv, TypeOK, Ops
  <2>2. PICK op : op = [ops[i] EXCEPT !.leased = TRUE]
    OBVIOUS
  <2>3. ops' = [ops EXCEPT ![i] = Begun(op)] /\ Advance(c, i, ops[i]) /\ ops[i].status = "RUNNING"
    BY <1>2, <2>2 DEF Tick
  <2>4. /\ OpsMove /\ Len(ops') = Len(ops) /\ \A j \in Ops \ {i} : OpKept(j)
        /\ ops'[i].type = ops[i].type /\ ops'[i].done = ops[i].done /\ ops'[i].drain = ops[i].drain
        /\ IF ops[i].overdue THEN ops'[i].status = "FAILED" ELSE ops'[i].status = ops[i].status
    BY <2>1, <2>2, <2>3, OpBegins
  <2>5. i \in Ops'
    BY <2>1, <2>4 DEF Ops
  <2>6. PICK was : was = ops[i]
    OBVIOUS
  <2>7. /\ ops'[i].done = was.done /\ (ops'[i].drain # "unset") = (was.drain # "unset") /\ Advance(c, i, was)
        /\ IF was.overdue THEN ops'[i].status # "RUNNING" ELSE Makes(i)' => ops'[i].status = "RUNNING"
    BY <2>3, <2>4, <2>6
  <2>8. QED
    BY <2>4, <2>5, <2>7, AdvanceStep
<1>3. QED
  BY <1>1, <1>2

LEMMA StartsStep ==
    ASSUME FleetInv, ServersInv, OneCall, RowsMove, WorldMoves, NEW n \in Nodes, Starts(n)
    PROVE  CallsKnow' /\ CallsDiffer' /\ OpsMove
<1>0. Len(ops) \in Nat
  BY LenProperties DEF FleetInv, TypeOK
\* An operation that is registered, and advanced at once or by the tick.
<1>1. ASSUME OpsMove, Len(ops') = Len(ops) + 1, \A j \in Ops : OpKept(j), AdvancedAtOnce \/ UNCHANGED call
      PROVE  CallsKnow' /\ CallsDiffer' /\ OpsMove
  <2>1. CASE UNCHANGED call
    BY <1>1, <2>1, NoneActs
  <2>2. CASE AdvancedAtOnce
    <3>1. PICK c \in Calls : Advance(c, Len(ops'), ops'[Len(ops')])
      BY <2>2 DEF AdvancedAtOnce
    <3>2. PICK i, op : i = Len(ops') /\ op = ops'[Len(ops')]
      OBVIOUS
    <3>3. Added(op) /\ i \in Ops' /\ ops'[i] = op
      BY <1>0, <1>1, <3>2 DEF OpsMove, Ops
    <3>4. Advance(c, i, op)
      BY <3>1, <3>2
    <3>5. op.status = "RUNNING" /\ ~op.overdue
      BY <3>3 DEF Added
    <3>6. QED
      BY <1>1, <3>3, <3>4, <3>5, AdvanceStep
  <2>3. QED
    BY <1>1, <2>1, <2>2
<1>2. CASE createProviderNode(n) \/ autoScaleFullLocations(n)
  <2>1. Register("CREATE_NODE", n, n, FALSE) /\ (AdvancedAtOnce \/ UNCHANGED call)
    BY <1>2 DEF createProviderNode, autoScaleFullLocations, startCreateNodeOperation
  <2>2. OpsMove /\ Len(ops') = Len(ops) + 1 /\ \A j \in Ops : OpKept(j)
    BY <2>1, RegistersOp
  <2>3. QED
    BY <1>1, <2>1, <2>2
<1>3. ASSUME NEW old \in Nodes, NEW canary \in BOOLEAN, StartReplace(n, old, canary) \/ autoReplaceFailedNodes(n, old, canary)
      PROVE  CallsKnow' /\ CallsDiffer' /\ OpsMove
  <2>1. /\ Register("REPLACE_NODE", n, old, canary) /\ (AdvancedAtOnce \/ UNCHANGED call)
        /\ node[old].state \in {"READY", "DEGRADED", "FAILED"}
        /\ ~\E i \in Ops : Replaces(i) /\ ops[i].old = old
    BY <1>3 DEF StartReplace, autoReplaceFailedNodes, startReplaceNodeOperation, Replaces, Ops, FleetInv, TypeOK
  <2>2. OpsMove /\ Len(ops') = Len(ops) + 1 /\ \A j \in Ops : OpKept(j)
    BY <2>1, RegistersOp
  <2>3. QED
    BY <1>1, <2>1, <2>2
<1>4. CASE Sweep(n)
  <2>1. /\ node[n].state \in {"FAILED", "RETIRED"} /\ "CLEANUP_ABANDONED_NODE" \in Kinds
        /\ startCleanupAbandonedNodeOperation(n) /\ UNCHANGED node
    BY <1>4 DEF Sweep, Abandoned
  <2>2. CASE ops' = Append(ops, NewOperation("CLEANUP_ABANDONED_NODE", n, n, FALSE)) /\ AdvancedAtOnce
    <3>1. Added(NewOperation("CLEANUP_ABANDONED_NODE", n, n, FALSE))
      BY <2>1 DEF Added, NewOperation
    <3>2. OpsMove /\ Len(ops') = Len(ops) + 1 /\ \A j \in Ops : OpKept(j)
      BY <2>1, <2>2, <3>1, AppendedOp
    <3>3. QED
      BY <1>1, <2>2, <3>2
  <2>3. ASSUME NEW i \in CleanupOps(n), NEW c \in Calls, Advance(c, i, ops[i]), ops' = [ops EXCEPT ![i] = Begun(@)]
        PROVE  CallsKnow' /\ CallsDiffer' /\ OpsMove
    <3>1. i \in Ops /\ ~Makes(i)
      BY <2>3 DEF CleanupOps, Makes, Ops, FleetInv, TypeOK
    <3>2. PICK was : was = ops[i]
      OBVIOUS
    <3>3. ops' = [ops EXCEPT ![i] = Begun(was)] /\ Advance(c, i, was)
      BY <2>3, <3>2
    <3>4. /\ OpsMove /\ Len(ops') = Len(ops) /\ \A j \in Ops \ {i} : OpKept(j)
          /\ ops'[i].type = ops[i].type /\ ops'[i].done = ops[i].done /\ ops'[i].drain = ops[i].drain
          /\ IF ops[i].overdue THEN ops'[i].status = "FAILED" ELSE ops'[i].status = ops[i].status
      BY <3>1, <3>2, <3>3, OpBegins
    <3>5. i \in Ops'
      BY <3>1, <3>4 DEF Ops
    <3>6. /\ ops'[i].done = was.done /\ (ops'[i].drain # "unset") = (was.drain # "unset")
          /\ IF was.overdue THEN ops'[i].status # "RUNNING" ELSE Makes(i)' => ops'[i].status = "RUNNING"
      BY <3>1, <3>2, <3>4 DEF Makes
    <3>7. QED
      BY <3>3, <3>4, <3>5, <3>6, AdvanceStep
  <2>4. QED
    BY <2>1, <2>2, <2>3 DEF startCleanupAbandonedNodeOperation
<1>5. QED
  BY <1>2, <1>3, <1>4 DEF Starts

-----------------------------------------------------------------------------
(* The servers of the fleet *)

LEMMA ServersInit == Init => ServersInv
<1> SUFFICES ASSUME Init PROVE ServersInv
  OBVIOUS
<1>1. Ops = {} /\ \A i \in Ops : FALSE
  BY DEF Init, Ops
<1>2. \A c \in Calls : call[c] = Idle
  BY DEF Init
<1>3. \A n \in Nodes : ~node[n].dnsRemoved /\ node[n].state = IF n \in Serving THEN "READY" ELSE "none"
  BY DEF Init, NoRow
<1>4. CallsDiffer
  BY <1>2 DEF CallsDiffer, Idle
<1>5. ASSUME NEW c \in Calls PROVE Knowing(c)
  <2>1. call[c].op = 0 /\ call[c].pc = "idle"
    BY <1>2 DEF Idle
  <2>2. QED
    BY <2>1, StepNames DEF Knowing, Knows, Failing, Saw, Active, Handling
<1>6. Unmade
  BY <1>1, <1>3 DEF Unmade, ServersOf, Init
<1>7. NamesGone /\ OneEach
  BY <1>3 DEF NamesGone, OneEach, Init
<1>8. TokenMatches
  BY <1>3, Parameters DEF TokenMatches, Init
<1>9. OpsDiffer /\ StepsLast /\ CanaryWatched /\ BootsFirst
  BY <1>1 DEF OpsDiffer, StepsLast, CanaryWatched, BootsFirst
<1>10. QED
  BY <1>4, <1>5, <1>6, <1>7, <1>8, <1>9 DEF ServersInv, CallsKnow

LEMMA ServersNext ==
    ASSUME FleetInv, ServersInv, Undisturbed, Next
    PROVE  ServersInv' /\ RowsMove /\ WorldMoves /\ OpsMove
<1>1. RowsMove /\ WorldMoves /\ OneCall
  BY RowsStep, WorldStep DEF Undisturbed
<1>2. CallsKnow' /\ CallsDiffer' /\ OpsMove
  <2>1. ASSUME UNCHANGED <<ops, call>> PROVE CallsKnow' /\ CallsDiffer' /\ OpsMove
    <3>1. \A j \in Ops : OpKept(j)
      BY <2>1, OpRests
    <3>2. OpsMove
      BY <2>1, OpsRest
    <3>3. QED
      BY <1>1, <2>1, <3>1, <3>2, NoneActs
  <2>2. ASSUME NEW n \in Nodes, Lives(n) \/ (\E to \in LifecycleState : AdminMove(n, to)) \/ \E d \in Devices : Assign(d, n)
        PROVE  UNCHANGED <<ops, call>>
    BY <2>2 DEF Lives, WindowElapses, Enroll, Boots, GetsLost, Returns, SilenceFails, Recovers, Becomes, AdminMove, Assign
  <2>3. QED
    BY <1>1, <2>1, <2>2, RunsStep, TimersStep, StartsStep DEF Next
<1>3. Unmade' /\ OpsDiffer' /\ StepsLast' /\ CanaryWatched' /\ BootsFirst' /\ NamesGone' /\ OneEach' /\ TokenMatches'
  BY <1>1, <1>2, UnmadeStep, OpsDifferStep, StepsLastStep, CanaryWatchedStep, BootsFirstStep, NamesGoneStep, ServersStep
<1>4. QED
  BY <1>1, <1>2, <1>3 DEF ServersInv

LEMMA ServersStutter ==
    ASSUME ServersInv, UNCHANGED vars
    PROVE  ServersInv'
<1>1. UNCHANGED <<node, servers, dns, assigned, ops, call>>
  BY DEF vars, world
<1>2. OpsDiffer' /\ CallsDiffer' /\ Unmade' /\ CanaryWatched' /\ BootsFirst' /\ NamesGone' /\ OneEach' /\ TokenMatches'
  BY <1>1 DEF ServersInv, OpsDiffer, CallsDiffer, Unmade, CanaryWatched, BootsFirst, NamesGone, OneEach, TokenMatches,
     Ops, Makes, Replaces, ServersOf, Shown, Unnamed, Touched
<1>3. StepsLast'
  BY <1>1 DEF ServersInv, StepsLast, Fact, Ops, Replaces, AssignedTo
<1>4. CallsKnow'
  <2>1. \A c \in Calls : (Knows(c)' <=> Knows(c)) /\ (Failing(c)' <=> Failing(c))
    BY <1>1 DEF Knows, Failing, Active, Turn, Makes, Replaces
  <2>2. \A c \in Calls : Saw(c)' <=> Saw(c)
    BY <1>1 DEF Saw, Fact, Subject, Target, OpOf, ServersOf, AssignedTo, Replaces
  <2>3. QED
    BY <1>1, <2>1, <2>2 DEF ServersInv, CallsKnow, Knowing
<1>5. QED
  BY <1>2, <1>3, <1>4 DEF ServersInv

LEMMA KnownServers == FleetInv /\ ServersInv => ServersAreKnown
<1> SUFFICES ASSUME FleetInv, ServersInv PROVE ServersAreKnown
  OBVIOUS
<1>1. ASSUME NEW n \in Nodes PROVE Cardinality(ServersOf(n)) <= 1
  <2>1. CASE ServersOf(n) = {}
    BY <2>1, FS_EmptySet
  <2>2. ASSUME NEW s \in ServersOf(n) PROVE Cardinality(ServersOf(n)) <= 1
    <3>1. ServersOf(n) = {s}
      BY <2>2 DEF ServersInv, OneEach, ServersOf
    <3>2. Cardinality(ServersOf(n)) = 1
      BY <3>1, FS_Singleton
    <3>3. QED
      BY <3>2
  <2>3. QED
    BY <2>1, <2>2
<1>2. QED
  BY <1>1 DEF ServersAreKnown, OneServer, ServersInv

\* What the three parts of ReplacementInOrder say of a step.
LastDestroyed == \A s \in servers \ servers' : node[s.node].state = "RETIRED" /\ s.node \notin dns
DrainedRetired == \A n \in Nodes :
    (node[n].state = "DRAINING" /\ node'[n].state = "RETIRED" /\ AssignedTo(n) # {}) =>
        \E i \in DOMAIN ops : ops[i].old = n /\ ops[i].drain = "over"
WatchedFirst == \A i \in DOMAIN ops :
    (ops[i].canary /\ ops[i].drain = "unset" /\ ops'[i].drain # "unset") => node[ops[i].node].window

LEMMA StepInOrder ==
    ASSUME FleetInv, ServersInv, Undisturbed, Next
    PROVE  LastDestroyed /\ DrainedRetired /\ WatchedFirst
<1>1. RowsMove /\ WorldMoves /\ OpsMove
  BY ServersNext
<1>2. LastDestroyed
  <2>1. SUFFICES ASSUME NEW s \in servers \ servers' PROVE node[s.node].state = "RETIRED" /\ s.node \notin dns
    BY DEF LastDestroyed
  <2>2. PICK n \in Nodes : n = s.node
    BY DEF FleetInv, TypeOK, Server
  <2>3. Acts(n, "destroy") /\ "destroy" \in Handling
    BY <1>1, <2>2 DEF WorldMoves, Handling
  <2>4. PICK c \in Calls : call[c].pc = "destroy" /\ Subject(c) = n /\ Saw(c)
    BY <2>3, Actor
  <2>5. node[n].dnsRemoved /\ node[n].state = "RETIRED"
    BY <2>4 DEF Saw
  <2>6. QED
    BY <2>2, <2>5 DEF ServersInv, NamesGone
<1>3. DrainedRetired
  <2>1. SUFFICES ASSUME NEW n \in Nodes, node[n].state = "DRAINING", node'[n].state = "RETIRED", AssignedTo(n) # {}
                 PROVE  \E i \in DOMAIN ops : ops[i].old = n /\ ops[i].drain = "over"
    BY DEF DrainedRetired
  <2>2. Acts(n, "retire") /\ "retire" \in Handling
    BY <1>1, <2>1 DEF RowsMove, RowGoes, Handling
  <2>3. PICK c \in Calls :
            /\ call[c].op \in Ops /\ Place("retire", call[c].step) /\ Turn(call[c].op, call[c].step, call[c].done)
            /\ call[c].done = ops[call[c].op].done
            /\ IF call[c].step \in {"DRAIN_OLD_NODE", "RETIRE_OLD_NODE"} THEN n = ops[call[c].op].old ELSE n = ops[call[c].op].node
    BY <2>2, Actor
  <2>4. "DRAIN_OLD_NODE" \in ops[call[c].op].done /\ n = ops[call[c].op].old
    BY <2>3 DEF Place, Turn
  <2>5. ops[call[c].op].drain = "over"
    BY <2>1, <2>3, <2>4 DEF ServersInv, StepsLast, Fact
  <2>6. QED
    BY <2>3, <2>4, <2>5 DEF Ops, FleetInv, TypeOK
<1>4. WatchedFirst
  <2>1. SUFFICES ASSUME NEW i \in Ops, ops[i].canary, ops[i].drain = "unset", ops'[i].drain # "unset"
                 PROVE  node[ops[i].node].window
    BY DEF WatchedFirst, Ops, FleetInv, TypeOK
  <2>2. PICK c \in Calls : At(c, "wait") /\ call[c].op = i /\ call[c].step = "DRAIN_OLD_NODE"
    BY <1>1, <2>1 DEF OpsMove, OpGoes
  <2>3. Turn(i, "DRAIN_OLD_NODE", call[c].done) /\ call[c].done = ops[i].done
    BY <2>2, CallKnows DEF At, Outcome
  <2>4. QED
    BY <2>1, <2>3 DEF Turn, ServersInv, StepsLast, Fact
<1>5. QED
  BY <1>2, <1>3, <1>4

\* Whatever responses are lost and whatever dies, a node has one server, which holds the enrollment token
\* that is stored while the node awaits it; a replaced node is drained when its successor was observed the
\* whole time, retired when it is drained, and its server is destroyed last.
THEOREM ServersCorrect == Undisturbed /\ Spec => ServersHold
<1>1. ASSUME Undisturbed PROVE Spec => ServersHold
  <2>1. FleetInv /\ ServersInv /\ [Next]_vars => (FleetInv /\ ServersInv)'
    BY <1>1, FleetStep, ServersNext, ServersStutter
  <2>2. Init => FleetInv /\ ServersInv
    BY FleetInit, ServersInit
  <2>3. FleetInv /\ ServersInv /\ [Next]_vars => [LastDestroyed]_servers /\ [DrainedRetired]_node /\ [WatchedFirst]_ops
    <3>1. CASE UNCHANGED vars
      BY <3>1 DEF vars, world
    <3>2. QED
      BY <1>1, <3>1, StepInOrder
  <2>4. LastDestroyed <=> \A s \in servers \ servers' : node[s.node].state = "RETIRED" /\ s.node \notin dns
    BY DEF LastDestroyed
  <2>5. DrainedRetired <=> \A n \in Nodes :
            (node[n].state = "DRAINING" /\ node'[n].state = "RETIRED" /\ AssignedTo(n) # {}) =>
                \E i \in DOMAIN ops : ops[i].old = n /\ ops[i].drain = "over"
    BY DEF DrainedRetired
  <2>6. WatchedFirst <=> \A i \in DOMAIN ops :
            (ops[i].canary /\ ops[i].drain = "unset" /\ ops'[i].drain # "unset") => node[ops[i].node].window
    BY DEF WatchedFirst
  <2>7. Spec => [](FleetInv /\ ServersInv)
    BY <2>1, <2>2, PTL DEF Spec
  <2>8. Spec => DestroyedLast
    BY <2>3, <2>4, <2>7, PTL DEF Spec, DestroyedLast
  <2>9. Spec => RetiredDrained
    BY <2>3, <2>5, <2>7, PTL DEF Spec, RetiredDrained
  <2>10. Spec => CanaryBeforeDrain
    BY <2>3, <2>6, <2>7, PTL DEF Spec, CanaryBeforeDrain
  <2>11. Spec => []ServersAreKnown
    BY <2>7, KnownServers, PTL
  <2>12. QED
    BY <2>8, <2>9, <2>10, <2>11 DEF ServersHold, ReplacementInOrder
<1>2. QED
  BY <1>1

=============================================================================
