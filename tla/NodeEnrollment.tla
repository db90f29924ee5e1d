---------------------------- MODULE NodeEnrollment ----------------------------
(***************************************************************************)
(* How a blank machine becomes an enrolled node.  The administrator        *)
(* registers the node and gets a one-time token (nodes.js); the machine's  *)
(* bootstrap script (node-bootstrap.js) keeps a key of its own on disk,    *)
(* binds the key's hash with the token (enroll.js), and reports each later *)
(* stage with the key (bootstrap-status.js).  The machine may crash after  *)
(* any step, answers get lost, the handlers read and write in separate     *)
(* statements, and meanwhile the administrator moves the node              *)
(* (lifecycle.js) or rotates its key (rotate-key.js).                      *)
(***************************************************************************)
EXTENDS Integers

CONSTANTS
    NodeIds,        \* nodes that may be registered
    Machines,       \* servers the script runs on
    MaxTokens,      \* bound: enrollment tokens minted
    MaxCrashes,     \* bound: crashes of machines, and requests they give up
    MaxMoves        \* bound: acts of the administrator on a registered node

ASSUME EnrollmentParameters == {MaxTokens, MaxCrashes, MaxMoves} \subseteq Nat
ASSUME EnrollmentNames == Machines \cap {"none", "rotated"} = {}

VARIABLES
    nodeRow,     \* [NodeIds -> row of nodes]
    minted,      \* tokens so far; the tokens are 1..minted
    expired,     \* tokens older than ENROLLMENT_TOKEN_TTL_MS
    machine,     \* [Machines -> the machine's disk, and where its script is]
    enrolling,   \* requests to enroll.js in progress
    beats,       \* nodes with an authenticated heartbeat in progress
    moves,       \* requests of the administrator between their read and their write
    redeemed,    \* history: [token -> keys it has bound]
    crashes, moved

enrollVars == <<nodeRow, minted, expired, machine, enrolling, beats, moves, redeemed, crashes, moved>>

-----------------------------------------------------------------------------
(* Types *)

\* CANARY, READY, DEGRADED, DRAINING and MAINTENANCE are one here.
RowState == {"none", "PROVISIONING", "WARMING_UP", "serving", "FAILED", "QUARANTINED", "RETIRED"}
Contained == {"QUARANTINED", "RETIRED"}
\* The key of a machine is random, made there: it is named after the machine.
BoundKey == Machines \cup {"none", "rotated"}
Token == 0..MaxTokens
BOOTSTRAP_STAGES == <<"ENROLL", "DNS_WAIT", "INSTALL", "AGENT", "HEALTH", "COMPLETE">>
\* complete: the stage reported last is COMPLETE, OK.
EnrolledRow == [state : RowState, token : Token, key : BoundKey, complete : BOOLEAN]
\* node and token: bootstrap.env.  key: the agent's config is written.  enrolled, done: the markers.
\* past: the stages that have left a marker.  agent: its unit is enabled.  pc: where the script is
\* in its stage.
Disk == [node : NodeIds \cup {"none"}, token : Token, key : BOOLEAN, enrolled : BOOLEAN,
         past : SUBSET (1..6), agent : BOOLEAN, done : BOOLEAN]
Script == [stage : 1..6, pc : {"off", "boot", "enroll", "await", "probe", "mark", "forget",
                                "work", "report", "over"}]
\* heard: the machine still waits for the answer.
EnrollCall == [by : Machines, token : Token, node : NodeIds, seen : RowState, heard : BOOLEAN]
Move == [node : NodeIds, from : RowState, to : RowState \cup {"rotate"}]

EnrollTypeOK ==
    /\ nodeRow \in [NodeIds -> EnrolledRow] /\ minted \in Token /\ expired \subseteq 1..minted
    /\ machine \in [Machines -> [disk : Disk, script : Script]]
    /\ enrolling \subseteq EnrollCall /\ beats \subseteq NodeIds /\ moves \subseteq Move
    /\ redeemed \in [Token -> SUBSET Machines]
    /\ crashes \in 0..MaxCrashes /\ moved \in 0..MaxMoves

-----------------------------------------------------------------------------
(* The administrator *)

\* Every registration and every way back to PROVISIONING stores a new token's hash.
Minted(row) == [row EXCEPT !.state = "PROVISIONING", !.token = minted + 1]

Registers(n) ==
    /\ nodeRow[n].state = "none" /\ minted < MaxTokens
    /\ minted' = minted + 1 /\ nodeRow' = [nodeRow EXCEPT ![n] = Minted(@)]
    /\ UNCHANGED <<expired, machine, enrolling, beats, moves, redeemed, crashes, moved>>

\* A server is set up with a bootstrap file: some registered node and a token that was shown,
\* not always that node's.
SetsUp(m, n, t) ==
    /\ machine[m].script.pc = "off" /\ nodeRow[n].state # "none" /\ t \in 1..minted
    /\ machine' = [machine EXCEPT ![m].disk.node = n, ![m].disk.token = t, ![m].script.pc = "boot"]
    /\ UNCHANGED <<nodeRow, minted, expired, enrolling, beats, moves, redeemed, crashes, moved>>

TokenExpires(t) ==
    /\ t \in (1..minted) \ expired /\ expired' = expired \cup {t}
    /\ UNCHANGED <<nodeRow, minted, machine, enrolling, beats, moves, redeemed, crashes, moved>>

AllowedNext ==
    [none |-> {},
     PROVISIONING |-> {"WARMING_UP", "FAILED", "QUARANTINED"},
     WARMING_UP |-> {"serving", "FAILED", "QUARANTINED"},
     serving |-> {"FAILED", "QUARANTINED", "RETIRED"},
     FAILED |-> {"PROVISIONING", "serving", "QUARANTINED", "RETIRED"},
     QUARANTINED |-> {"RETIRED"},
     RETIRED |-> {}]

\* The lifecycle handler reads the state, and writes only over that state.  The automatic moves
\* between these states are made the same way.
OrdersMove(n, to) ==
    /\ moved < MaxMoves /\ moved' = moved + 1 /\ to \in AllowedNext[nodeRow[n].state]
    /\ moves' = moves \cup {[node |-> n, from |-> nodeRow[n].state, to |-> to]}
    /\ UNCHANGED <<nodeRow, minted, expired, machine, enrolling, beats, redeemed, crashes>>
\* revoke_node_key_and_transition clears the key as well.
MovedRow(v) ==
    LET row == nodeRow[v.node]
    IN CASE row.state # v.from -> row
         [] row.state = v.from /\ v.to = "PROVISIONING" -> Minted(row)
         [] row.state = v.from /\ v.to \in Contained -> [row EXCEPT !.state = v.to, !.key = "none"]
         [] OTHER -> [row EXCEPT !.state = v.to]
WritesMove(v) ==
    /\ v \in moves /\ v.to # "rotate" /\ moves' = moves \ {v}
    /\ v.to = "PROVISIONING" => minted < MaxTokens
    /\ nodeRow' = [nodeRow EXCEPT ![v.node] = MovedRow(v)]
    /\ minted' = IF nodeRow'[v.node].token = minted + 1 THEN minted + 1 ELSE minted
    /\ UNCHANGED <<expired, machine, enrolling, beats, redeemed, crashes, moved>>

\* rotate_node_key compares nothing: the state was read by the handler.
OrdersRotation(n) ==
    /\ moved < MaxMoves /\ moved' = moved + 1 /\ nodeRow[n].state \notin Contained \cup {"none"}
    /\ moves' = moves \cup {[node |-> n, from |-> nodeRow[n].state, to |-> "rotate"]}
    /\ UNCHANGED <<nodeRow, minted, expired, machine, enrolling, beats, redeemed, crashes>>
Rotates(v) ==
    /\ v \in moves /\ v.to = "rotate" /\ moves' = moves \ {v}
    /\ nodeRow' = [nodeRow EXCEPT ![v.node].key = "rotated"]
    /\ UNCHANGED <<minted, expired, machine, enrolling, beats, redeemed, crashes, moved>>

-----------------------------------------------------------------------------
(* The script's first stage: stage_enroll *)

DiskOf(m) == machine[m].disk
ScriptAt(m, pc) == machine[m].script.pc = pc
Goes(m, pc) == machine' = [machine EXCEPT ![m].script.pc = pc]
\* Its request, if one is out, is answered to nobody.
Unheard(m) == {IF c.by = m THEN [c EXCEPT !.heard = FALSE] ELSE c : c \in enrolling}

\* The stage the script comes to after s: one whose marker is there passes without a word.
After(m, s) == CHOOSE i \in (s + 1)..6 : i \notin DiskOf(m).past /\ (s + 1)..(i - 1) \subseteq DiskOf(m).past
\* systemd starts the unit while there is no done marker.  A key on disk is used again; otherwise
\* one is made and renamed into place before anything is sent.
Boots(m) ==
    /\ ScriptAt(m, "boot") /\ ~DiskOf(m).done
    /\ machine' = [machine EXCEPT ![m].disk.key = TRUE,
                                  ![m].script = IF DiskOf(m).enrolled THEN [stage |-> After(m, 1), pc |-> "work"]
                                                ELSE [stage |-> 1, pc |-> "enroll"]]
    /\ UNCHANGED <<nodeRow, minted, expired, enrolling, beats, moves, redeemed, crashes, moved>>

\* A reboot, or exit after a failure: systemd runs the script anew.
Crashes(m) ==
    /\ machine[m].script.pc \notin {"off", "boot", "over"} /\ crashes < MaxCrashes /\ crashes' = crashes + 1
    /\ Goes(m, "boot") /\ enrolling' = Unheard(m)
    /\ UNCHANGED <<nodeRow, minted, expired, beats, moves, redeemed, moved>>

\* Without a token on disk nothing is sent: the key is tried as if the token were spent.
Sends(m) ==
    /\ ScriptAt(m, "enroll")
    /\ IF DiskOf(m).token = 0 THEN Goes(m, "probe") /\ UNCHANGED enrolling
       ELSE /\ Goes(m, "await")
            /\ enrolling' = enrolling \cup {[by |-> m, token |-> DiskOf(m).token, node |-> DiskOf(m).node,
                                             seen |-> "none", heard |-> TRUE]}
    /\ UNCHANGED <<nodeRow, minted, expired, beats, moves, redeemed, crashes, moved>>
\* A timeout, a refused connection or a 5xx: the request is sent again.
GivesUp(m) ==
    /\ ScriptAt(m, "await") /\ crashes < MaxCrashes /\ crashes' = crashes + 1
    /\ Goes(m, "enroll") /\ enrolling' = Unheard(m)
    /\ UNCHANGED <<nodeRow, minted, expired, beats, moves, redeemed, moved>>

\* The answer to a request: 200, or 401 or 409, after which the key is tried.
Answers(c, ok) ==
    /\ enrolling' = enrolling \ {c}
    /\ IF c.heard THEN Goes(c.by, IF ok THEN "mark" ELSE "probe") ELSE UNCHANGED machine

\* authenticateNode, of the machine's own key.
Authenticated(m) == {n \in NodeIds : nodeRow[n].key = m /\ nodeRow[n].state \notin Contained}
\* The key is proved by a heartbeat; its handler goes on even if the machine does not wait.
Proves(m) ==
    /\ ScriptAt(m, "probe") /\ beats' = beats \cup Authenticated(m)
    /\ Goes(m, IF Authenticated(m) # {} THEN "mark" ELSE "boot")
    /\ UNCHANGED <<nodeRow, minted, expired, enrolling, moves, redeemed, crashes, moved>>

Marks(m) ==
    /\ ScriptAt(m, "mark")
    /\ machine' = [machine EXCEPT ![m].disk.enrolled = TRUE, ![m].script.pc = "forget"]
    /\ UNCHANGED <<nodeRow, minted, expired, enrolling, beats, moves, redeemed, crashes, moved>>
ForgetsToken(m) ==
    /\ ScriptAt(m, "forget")
    /\ machine' = [machine EXCEPT ![m].disk.token = 0, ![m].script.pc = "report"]
    /\ UNCHANGED <<nodeRow, minted, expired, enrolling, beats, moves, redeemed, crashes, moved>>

-----------------------------------------------------------------------------
(* enroll.js *)

RowsOf(t) == {n \in NodeIds : nodeRow[n].token = t}

\* The row of the token decides at once: there is none, it is another node's, it has expired, the
\* same or another key is bound already, or the node does not await enrollment.
Decides(c) ==
    /\ c \in enrolling /\ c.seen = "none"
    /\ IF \A n \in RowsOf(c.token) : n # c.node \/ c.token \in expired THEN Answers(c, FALSE)
       ELSE LET row == nodeRow[c.node]
            IN IF "WARMING_UP" \in AllowedNext[row.state]
               THEN enrolling' = (enrolling \ {c}) \cup {[c EXCEPT !.seen = row.state]} /\ UNCHANGED machine
               ELSE Answers(c, row.state = "WARMING_UP" /\ row.key = c.by)
    /\ UNCHANGED <<nodeRow, minted, expired, beats, moves, redeemed, crashes, moved>>

\* As if the UPDATE compared the token's hash alone.
MayBind_AnyState(c) == nodeRow[c.node].token = c.token
\* The UPDATE compares the token's hash, the state that was read and the expiry; api_key_hash is
\* unique.
MayBind(c) ==
    LET row == nodeRow[c.node]
    IN /\ row.token = c.token /\ row.state = c.seen /\ c.token \notin expired
       /\ \A n \in NodeIds \ {c.node} : nodeRow[n].key # c.by
Binds(c) ==
    /\ c \in enrolling /\ c.seen # "none" /\ Answers(c, MayBind(c))
    /\ IF MayBind(c)
       THEN /\ nodeRow' = [nodeRow EXCEPT ![c.node].key = c.by, ![c.node].state = "WARMING_UP"]
            /\ redeemed' = [redeemed EXCEPT ![c.token] = @ \cup {c.by}]
       ELSE UNCHANGED <<nodeRow, redeemed>>
    /\ UNCHANGED <<minted, expired, beats, moves, crashes, moved>>

-----------------------------------------------------------------------------
(* The later stages, and their reports *)

\* The columns of a report, on the row of the node whose key it came with.
Reported(m, s, status) ==
    [n \in NodeIds |-> IF n \in Authenticated(m)
                       THEN [nodeRow[n] EXCEPT !.complete = (s = 6 /\ status = "OK")]
                       ELSE nodeRow[n]]
\* A report is not tried again.
Tells(m, s, status) == nodeRow' = Reported(m, s, status) \/ UNCHANGED nodeRow

Markers == {2, 3}   \* the stages that leave one: dns.ok, install.ok
\* DNS_WAIT and INSTALL announce themselves.
\* Its work is done and the marker touched; at COMPLETE that is the done marker.
Works(m) ==
    LET s == machine[m].script.stage
        d == DiskOf(m)
    IN /\ ScriptAt(m, "work")
       /\ machine' = [machine EXCEPT ![m].disk = [d EXCEPT !.past = IF s \in Markers THEN @ \cup {s} ELSE @,
                                                           !.agent = (@ \/ s = 4), !.done = (s = 6)],
                                     ![m].script.pc = "report"]
       /\ IF s \in Markers THEN Tells(m, s, "RUNNING") ELSE UNCHANGED nodeRow
       /\ UNCHANGED <<minted, expired, enrolling, beats, moves, redeemed, crashes, moved>>
\* It fails: the error trap reports, and systemd starts over.
Fails(m) ==
    LET s == machine[m].script.stage
    IN /\ ScriptAt(m, "work") /\ s < 6
       /\ crashes < MaxCrashes /\ crashes' = crashes + 1
       /\ Goes(m, "boot") /\ Tells(m, s, "FAILED")
       /\ UNCHANGED <<minted, expired, enrolling, beats, moves, redeemed, moved>>
Reports(m) ==
    LET s == machine[m].script.stage
    IN /\ ScriptAt(m, "report") /\ Tells(m, s, "OK")
       /\ machine' = [machine EXCEPT ![m].script = IF s = 6 THEN [stage |-> 6, pc |-> "over"]
                                                   ELSE [stage |-> After(m, s), pc |-> "work"]]
       /\ UNCHANGED <<minted, expired, enrolling, beats, moves, redeemed, crashes, moved>>

\* The agent runs once its unit is enabled, whatever the script does: a heartbeat.
Beats(m) ==
    /\ DiskOf(m).agent /\ Authenticated(m) \ beats # {}
    /\ beats' = beats \cup Authenticated(m)
    /\ UNCHANGED <<nodeRow, minted, expired, machine, enrolling, moves, redeemed, crashes, moved>>
\* Its last write but the alerts': a proved key needs the token no more, unless the node awaits
\* another enrollment.
ClearsToken(n) ==
    /\ n \in beats /\ beats' = beats \ {n}
    /\ nodeRow' = [nodeRow EXCEPT ![n].token = IF nodeRow[n].state = "PROVISIONING" THEN @ ELSE 0]
    /\ UNCHANGED <<minted, expired, machine, enrolling, moves, redeemed, crashes, moved>>

-----------------------------------------------------------------------------

NewRow == [state |-> "none", token |-> 0, key |-> "none", complete |-> FALSE]
BlankMachine == [disk |-> [node |-> "none", token |-> 0, key |-> FALSE, enrolled |-> FALSE, past |-> {},
                          agent |-> FALSE, done |-> FALSE],
                 script |-> [stage |-> 1, pc |-> "off"]]

EnrollInit ==
    /\ nodeRow = [n \in NodeIds |-> NewRow] /\ minted = 0 /\ expired = {}
    /\ machine = [m \in Machines |-> BlankMachine]
    /\ enrolling = {} /\ beats = {} /\ moves = {} /\ redeemed = [t \in Token |-> {}]
    /\ crashes = 0 /\ moved = 0

EnrollNext ==
    \/ \E n \in NodeIds : Registers(n) \/ OrdersRotation(n) \/ ClearsToken(n)
    \/ \E n \in NodeIds, to \in RowState : OrdersMove(n, to)
    \/ \E v \in moves : WritesMove(v) \/ Rotates(v)
    \/ \E m \in Machines, n \in NodeIds, t \in Token : SetsUp(m, n, t)
    \/ \E t \in Token : TokenExpires(t)
    \/ \E m \in Machines : \/ Boots(m) \/ Crashes(m) \/ Sends(m) \/ GivesUp(m) \/ Proves(m) \/ Marks(m)
                           \/ ForgetsToken(m) \/ Works(m) \/ Fails(m) \/ Reports(m) \/ Beats(m)
    \/ \E c \in enrolling : Decides(c) \/ Binds(c)

EnrollSpec == EnrollInit /\ [][EnrollNext]_enrollVars

-----------------------------------------------------------------------------
(* Properties *)

\* There is no crash window in which the control plane has accepted a key the machine has not saved.
BoundIsSaved == \A n \in NodeIds, m \in Machines : nodeRow[n].key = m => machine[m].disk.key
\* One token binds at most one key, whatever is retried, repeated or raced.
TokenBindsOneKey == \A t \in Token : \A k, l \in redeemed[t] : k = l
\* A key is never bound to the row of another node than the bootstrap file names, nor to two rows.
BoundToItsNode == \A n \in NodeIds, m \in Machines : nodeRow[n].key = m => machine[m].disk.node = n
\* A machine that takes itself for enrolled was: its key has been bound.
MarkedWasBound == \A m \in Machines : machine[m].disk.enrolled => \E t \in 1..minted : m \in redeemed[t]
\* A node reported complete has a machine that got through every stage.
CompleteIsDone ==
    \A n \in NodeIds : nodeRow[n].complete => \E m \in Machines : machine[m].disk.done /\ machine[m].disk.node = n
EnrolledHolds == BoundIsSaved /\ TokenBindsOneKey /\ BoundToItsNode /\ MarkedWasBound /\ CompleteIsDone

\* Quarantine is one-way, and retirement final: neither an enrollment, nor a heartbeat, nor an order
\* that read the node before it brings it back.
ContainedForGood ==
    \A n \in NodeIds : nodeRow[n].state \in Contained
                       => nodeRow'[n].state \in IF nodeRow[n].state = "RETIRED" THEN {"RETIRED"} ELSE Contained

EnrollmentHolds == []EnrolledHolds /\ [][ContainedForGood]_enrollVars
=============================================================================
