--------------------------- MODULE ProvisioningJobs ---------------------------
(***************************************************************************)
(* Device provisioning: a device's entitlement and placement are turned    *)
(* into jobs (device-provisioning.js), node agents claim, run and report   *)
(* them (claim_next_job, complete.js, fail.js), expired claims are queued  *)
(* again (reap_expired_job_claims), and a report of a new identity decides *)
(* what else must be disabled (identity-lifecycle.js).                     *)
(*                                                                         *)
(* A handler's statements are separate steps.  Jobs that do not change     *)
(* access (SET_EXPIRY, CLEAR_EXPIRY, ROTATE_SUBSCRIPTION_TOKEN, revisions) *)
(* are left out.  What a node does with a job is written from the contract *)
(* in 20261007000000_job_claim_tokens.sql.                                 *)
(***************************************************************************)
EXTENDS Integers, Sequences, FiniteSets, SequencesExt

CONSTANTS
    Devices, Nodes,
    Placements,     \* the answers of placeDevice that occur: nodes, "POLICY", "CAPACITY"
    MaxAttempts,    \* p_max_attempts (5)
    RequireToken,   \* REQUIRE_CLAIM_TOKEN
    TokenNodes,     \* nodes whose agents send the claim token
    PromptReports,  \* a report that passed validation is written before the lease lapses
    Changes,        \* the kinds of events that occur
    MaxEvents, MaxJobs, MaxFaults   \* bounds of the model

ASSUME Parameters ==
    /\ IsFiniteSet(Nodes) /\ Placements \subseteq Nodes \cup {"POLICY", "CAPACITY"}
    /\ TokenNodes \subseteq Nodes
    /\ {RequireToken, PromptReports} \subseteq BOOLEAN
    /\ Changes \subseteq {"subscribe", "lapse", "renew", "revoke", "move"}
    /\ MaxAttempts \in Nat \ {0}
    /\ {MaxEvents, MaxFaults} \subseteq Nat /\ MaxJobs \in Nat \ {0}

VARIABLES
    status,     \* devices.status
    paid,       \* [Devices -> BOOLEAN]: the rest of device_entitlement
    placement,  \* [Devices -> Placements]: what placeDevice answers now
    accounts,   \* vpn_accounts: the device's identity on a node
    jobs,       \* provisioning_jobs in created_at order; a job's id is its index
    calls,      \* reconcileDeviceProvisioning calls in progress
    events,     \* how many events happened; an event's number is its idempotency prefix
    agent,      \* [Nodes -> Work]: the job a node's agent is busy with
    users,      \* sing-box users on the nodes, by the CREATE_USER job that made them
    reports,    \* complete and fail requests in progress
    faults      \* how many faults happened

dbVars == <<status, paid, placement, accounts, jobs>>
vars == <<dbVars, calls, events, agent, users, reports, faults>>

-----------------------------------------------------------------------------
(* Types *)

JobType == {"CREATE_USER", "ENABLE_USER", "DISABLE_USER"}
JobIds == 1..MaxJobs

\* idempotency_key.  Event 0: keys made by finalizeCreatedIdentity.
Key == [event : 0..MaxEvents, what : {"create", "enable", "disable", "moved", "after-revoke"},
        device : Devices, node : Nodes, other : Nodes]
Order == [type : JobType, device : Devices, node : Nodes, user : 0..MaxJobs, key : Key]

\* A row of provisioning_jobs.  claim numbers the claims of the job (its claim_token, 0 when
\* null); lapsed: lease_expires_at has passed.
Job == [order : Order, status : {"pending", "claimed", "done", "failed"},
        token : Nat, claims : Nat, lapsed : BOOLEAN, attempts : Nat]

Account == [state : {"none", "enabled", "disabled"}, user : 0..MaxJobs]
NoAccount == [state |-> "none", user |-> 0]

\* gate: the entitlement is read next; plan: the identities and the placement are read next;
\* insert: the rest of the jobs is inserted next.
Call == [event : 1..MaxEvents, device : Devices, step : {"gate", "plan", "insert"},
         entitled : BOOLEAN, todo : Seq(Order)]

Work == [job : 0..MaxJobs, token : Nat, ran : {"no", "ok", "error"}]
Idle == [job |-> 0, token |-> 0, ran |-> "no"]

\* A report of a job: validated, written, checked for entitlement; what is left over is looked up
\* and disabled, one job at a time; then the job is closed.
Report == [node : Nodes, job : JobIds, token : Nat, kind : {"complete", "fail"},
           step : {"read", "write", "gate", "tidy", "disable", "close"}, entitled : BOOLEAN, todo : SUBSET Order]

TypeOK ==
    /\ status \in [Devices -> {"ACTIVE", "REVOKED"}]
    /\ paid \in [Devices -> BOOLEAN]
    /\ placement \in [Devices -> Placements]
    /\ accounts \in [Devices -> [Nodes -> Account]]
    /\ jobs \in Seq(Job) /\ Len(jobs) <= MaxJobs
    /\ calls \subseteq Call
    /\ events \in 0..MaxEvents
    /\ agent \in [Nodes -> Work]
    /\ users \in [JobIds -> {"none", "on", "off"}]
    /\ reports \subseteq Report
    /\ faults \in 0..MaxFaults

-----------------------------------------------------------------------------
(* Reading and writing the tables *)

Entitled(d) == status[d] = "ACTIVE" /\ paid[d]

Open(job) == job.status \in {"pending", "claimed"}

\* The unique indexes: one row per idempotency key, one CREATE_USER in flight per device and
\* node.  An insert that meets one of them is taken to have happened already.
Enqueued(queue, order) ==
    \/ \E i \in DOMAIN queue : queue[i].order.key = order.key
    \/ /\ order.type = "CREATE_USER"
       /\ \E i \in DOMAIN queue :
             /\ queue[i].order.type = "CREATE_USER" /\ Open(queue[i])
             /\ queue[i].order.device = order.device /\ queue[i].order.node = order.node

\* Mutant: a status the table does not know.
NewJob_Queued(order) == [order |-> order, status |-> "queued", token |-> 0, claims |-> 0,
                         lapsed |-> FALSE, attempts |-> 0]
NewJob(order) == [order |-> order, status |-> "pending", token |-> 0, claims |-> 0,
                  lapsed |-> FALSE, attempts |-> 0]

Insert(queue, order) ==
    IF Enqueued(queue, order) THEN queue ELSE Append(queue, NewJob(order))

Enabled(d) == {n \in Nodes : accounts[d][n].state = "enabled"}

Disable(d, n, ev, what, other) ==
    [type |-> "DISABLE_USER", device |-> d, node |-> n, user |-> accounts[d][n].user,
     key |-> [event |-> ev, what |-> what, device |-> d, node |-> n, other |-> other]]

-----------------------------------------------------------------------------
(* reconcileDeviceProvisioning *)

\* Something changed, and its handler reconciles the device.
Event(d, gate) ==
    /\ events < MaxEvents
    /\ events' = events + 1
    /\ calls' = calls \cup {[event |-> events + 1, device |-> d, step |-> gate,
                             entitled |-> FALSE, todo |-> << >>]}
    /\ UNCHANGED <<accounts, jobs, agent, users, reports, faults>>

Subscribe(d) ==
    /\ "subscribe" \in Changes /\ ~paid[d]
    /\ paid' = [paid EXCEPT ![d] = TRUE]
    /\ Event(d, "gate")
    /\ UNCHANGED <<status, placement>>

Lapse(d) ==
    /\ "lapse" \in Changes /\ paid[d]
    /\ paid' = [paid EXCEPT ![d] = FALSE]
    /\ Event(d, "gate")
    /\ UNCHANGED <<status, placement>>

\* An invoice, a new device, a profile edit: nothing that matters here changes.
Renew(d) ==
    /\ "renew" \in Changes
    /\ Event(d, "gate")
    /\ UNCHANGED <<status, paid, placement>>

Move(d, p) ==
    /\ "move" \in Changes /\ placement[d] # p
    /\ placement' = [placement EXCEPT ![d] = p]
    /\ Event(d, "gate")
    /\ UNCHANGED <<status, paid>>

\* revokeDevice reconciles with entitlement null: it asks nobody.
Revoke(d) ==
    /\ "revoke" \in Changes /\ status[d] = "ACTIVE"
    /\ status' = [status EXCEPT ![d] = "REVOKED"]
    /\ Event(d, "plan")
    /\ UNCHANGED <<paid, placement>>

ReadEntitlement(c) ==
    /\ c \in calls /\ c.step = "gate"
    /\ calls' = (calls \ {c}) \cup {[c EXCEPT !.step = "plan", !.entitled = Entitled(c.device)]}
    /\ UNCHANGED <<dbVars, events, agent, users, reports, faults>>

\* The jobs a reconcile wants, given what it read of the entitlement.
DisableAll(c) == {Disable(c.device, n, c.event, "disable", n) : n \in Enabled(c.device)}
Create(c, n) ==
    [type |-> "CREATE_USER", device |-> c.device, node |-> n, user |-> 0,
     key |-> [event |-> c.event, what |-> "create", device |-> c.device, node |-> n, other |-> n]]
Enable(c, n) ==
    [type |-> "ENABLE_USER", device |-> c.device, node |-> n, user |-> accounts[c.device][n].user,
     key |-> [event |-> c.event, what |-> "enable", device |-> c.device, node |-> n, other |-> n]]
DisableMoved(c, n) ==
    {Disable(c.device, m, c.event, "moved", m) : m \in Enabled(c.device) \ {n}}

\* Mutant: the identities on other nodes are disabled along with the order for a new one.
NewIdentity_BreakFirst(c, n) == {<<Create(c, n)>> \o l : l \in SetToSeqs(DisableMoved(c, n))}
\* Make before break: nothing else is touched until the new identity exists.
NewIdentity(c, n) == {<<Create(c, n)>>}

Wanted(c) ==
    LET p     == placement[c.device]
        state == accounts[c.device][p].state
    IN CASE ~c.entitled -> SetToSeqs(DisableAll(c))
         [] c.entitled /\ p = "POLICY" -> SetToSeqs(DisableAll(c))
         [] c.entitled /\ p = "CAPACITY" -> {<< >>}
         [] c.entitled /\ p \in Nodes /\ state = "none" -> NewIdentity(c, p)
         [] c.entitled /\ p \in Nodes /\ state = "enabled" -> SetToSeqs(DisableMoved(c, p))
         [] c.entitled /\ p \in Nodes /\ state = "disabled" ->
               {<<Enable(c, p)>> \o l : l \in SetToSeqs(DisableMoved(c, p))}

Plan(c) ==
    /\ c \in calls /\ c.step = "plan"
    /\ \E todo \in Wanted(c) :
          calls' = (calls \ {c}) \cup
                      (IF todo = << >> THEN {}
                       ELSE {[c EXCEPT !.step = "insert", !.todo = todo]})
    /\ UNCHANGED <<dbVars, events, agent, users, reports, faults>>

InsertNext(c) ==
    /\ c \in calls /\ c.step = "insert"
    /\ Len(jobs) < MaxJobs
    /\ jobs' = Insert(jobs, Head(c.todo))
    /\ calls' = (calls \ {c}) \cup
                   (IF Len(c.todo) = 1 THEN {} ELSE {[c EXCEPT !.todo = Tail(@)]})
    /\ UNCHANGED <<status, paid, placement, accounts, events, agent, users, reports, faults>>

\* The handler dies; its event is delivered again and reconciles with the same prefix.
Redeliver(c) ==
    /\ c \in calls /\ faults < MaxFaults
    /\ faults' = faults + 1
    /\ calls' = (calls \ {c}) \cup {[c EXCEPT !.step = "gate", !.entitled = FALSE, !.todo = << >>]}
    /\ UNCHANGED <<dbVars, events, agent, users, reports>>

-----------------------------------------------------------------------------
(* claim_next_job and the node's agent, which does one job at a time *)

Oldest(n, i) ==
    /\ i \in DOMAIN jobs /\ jobs[i].status = "pending" /\ jobs[i].order.node = n
    /\ \A j \in DOMAIN jobs : (jobs[j].status = "pending" /\ jobs[j].order.node = n) => i <= j

Claim(n) ==
    /\ agent[n] = Idle
    /\ \E i \in DOMAIN jobs :
          /\ Oldest(n, i)
          /\ jobs' = [jobs EXCEPT ![i].status = "claimed", ![i].claims = @ + 1,
                                  ![i].token = jobs[i].claims + 1, ![i].lapsed = FALSE]
          /\ agent' = [agent EXCEPT ![n] = [job |-> i, token |-> jobs[i].claims + 1, ran |-> "no"]]
    /\ UNCHANGED <<status, paid, placement, accounts, calls, events, users, reports, faults>>

\* The claim this agent works under is still the job's current one.
Holds(n) ==
    LET job == jobs[agent[n].job]
    IN agent[n].job # 0 /\ job.status = "claimed" /\ job.token = agent[n].token /\ ~job.lapsed

\* The job's effect on the node.  CREATE_USER is keyed by the job: it returns the user it
\* made before; the other jobs set the state.
Effect(i) ==
    CASE jobs[i].order.type = "CREATE_USER" ->
            [users EXCEPT ![i] = IF @ = "none" THEN "on" ELSE @]
      [] jobs[i].order.type = "ENABLE_USER" -> [users EXCEPT ![jobs[i].order.user] = "on"]
      [] jobs[i].order.type = "DISABLE_USER" -> [users EXCEPT ![jobs[i].order.user] = "off"]

Run(n) ==
    /\ agent[n].ran = "no" /\ Holds(n)
    /\ users' = Effect(agent[n].job)
    /\ agent' = [agent EXCEPT ![n].ran = "ok"]
    /\ UNCHANGED <<dbVars, calls, events, reports, faults>>

RunError(n) ==
    /\ agent[n].ran = "no" /\ Holds(n) /\ faults < MaxFaults
    /\ faults' = faults + 1
    /\ agent' = [agent EXCEPT ![n].ran = "error"]
    /\ UNCHANGED <<dbVars, calls, events, users, reports>>

\* The agent restarts and forgets what it was doing, or gives a lapsed claim up.
AgentRestart(n) ==
    /\ agent[n] # Idle /\ faults < MaxFaults
    /\ faults' = faults + 1
    /\ agent' = [agent EXCEPT ![n] = Idle]
    /\ UNCHANGED <<dbVars, calls, events, users, reports>>
GiveUp(n) ==
    /\ agent[n].ran = "no" /\ agent[n].job # 0 /\ ~Holds(n)
    /\ agent' = [agent EXCEPT ![n] = Idle]
    /\ UNCHANGED <<dbVars, calls, events, users, reports, faults>>

\* The agent reports, and repeats the report until it is answered.
Send(n) ==
    /\ agent[n].ran # "no"
    /\ ~\E rep \in reports : rep.node = n /\ rep.job = agent[n].job /\ rep.token = agent[n].token
    /\ reports' = reports \cup
          {[node |-> n, job |-> agent[n].job, token |-> agent[n].token,
            kind |-> IF agent[n].ran = "ok" THEN "complete" ELSE "fail",
            step |-> "read", entitled |-> FALSE, todo |-> {}]}
    /\ UNCHANGED <<dbVars, calls, events, agent, users, faults>>

-----------------------------------------------------------------------------
(* complete.js and fail.js *)

\* Mutant: only the status is checked.
ClaimIsValid_StatusOnly(rep) == jobs[rep.job].status = "claimed"

\* validateJobClaim for a job that is not done or failed.
ClaimIsValid(rep) ==
    LET job == jobs[rep.job]
    IN /\ job.status = "claimed"
       /\ IF rep.node \in TokenNodes
          THEN rep.token = job.token /\ ~job.lapsed
          ELSE ~RequireToken

\* The request is answered.  Any answer but a 500 ends the agent's work on the claim, if
\* the agent gets it.
Answer(rep) ==
    LET heard == agent[rep.node].job = rep.job /\ agent[rep.node].token = rep.token
    IN \/ /\ agent' = IF heard THEN [agent EXCEPT ![rep.node] = Idle] ELSE agent
          /\ UNCHANGED faults
       \/ /\ heard /\ faults < MaxFaults
          /\ faults' = faults + 1
          /\ UNCHANGED agent

Validated(rep) == rep.step # "read"
Step(rep, step) == (reports \ {rep}) \cup {[rep EXCEPT !.step = step]}

ReadJob(rep) ==
    /\ rep \in reports /\ rep.step = "read"
    /\ IF ClaimIsValid(rep)
       THEN reports' = Step(rep, "write") /\ UNCHANGED <<agent, faults>>
       ELSE reports' = reports \ {rep} /\ Answer(rep)    \* a duplicate, or stale
    /\ UNCHANGED <<dbVars, calls, events, users>>

Closed(i, outcome) ==
    [jobs EXCEPT ![i].status = outcome, ![i].token = 0, ![i].lapsed = FALSE]

WriteFailure(rep) ==
    /\ rep \in reports /\ rep.step = "write" /\ rep.kind = "fail"
    /\ jobs' = Closed(rep.job, "failed")
    /\ reports' = reports \ {rep}
    /\ Answer(rep)
    /\ UNCHANGED <<status, paid, placement, accounts, calls, events, users>>

\* The upsert leaves the enabled flag of an existing row alone.
Upserted(row, i) ==
    [state |-> IF row.state = "none" THEN "enabled" ELSE row.state, user |-> i]

WriteResult(rep) ==
    LET order == jobs[rep.job].order
        d == order.device
        n == order.node
    IN /\ rep \in reports /\ rep.step = "write" /\ rep.kind = "complete"
       /\ CASE order.type = "CREATE_USER" ->
                  /\ accounts' = [accounts EXCEPT ![d][n] = Upserted(@, rep.job)]
                  /\ reports' = Step(rep, "gate")
            [] order.type = "ENABLE_USER" ->
                  /\ accounts' = [accounts EXCEPT ![d][n].state = "enabled"]
                  /\ reports' = Step(rep, "close")
            [] order.type = "DISABLE_USER" ->
                  /\ accounts' = [accounts EXCEPT ![d][n].state = "disabled"]
                  /\ reports' = Step(rep, "close")
       /\ UNCHANGED <<status, paid, placement, jobs, calls, events, agent, users, faults>>

\* finalizeCreatedIdentity: is the device still entitled ...
CheckCreated(rep) ==
    /\ rep \in reports /\ rep.step = "gate"
    /\ reports' = (reports \ {rep}) \cup
          {[rep EXCEPT !.step = "tidy", !.entitled = Entitled(jobs[rep.job].order.device)]}
    /\ UNCHANGED <<dbVars, calls, events, agent, users, faults>>

\* Mutant: the others are tidied up whatever the answer was.
Leftovers_NoGate(rep) ==
    LET order == jobs[rep.job].order
    IN {Disable(order.device, m, 0, "moved", order.node) : m \in Enabled(order.device) \ {order.node}}
\* ... if not, its new identity is disabled; if so, its identities on other nodes are.
Leftovers(rep) ==
    LET order == jobs[rep.job].order
    IN IF rep.entitled
       THEN {Disable(order.device, m, 0, "moved", order.node) :
                m \in Enabled(order.device) \ {order.node}}
       ELSE {[Disable(order.device, order.node, 0, "after-revoke", order.node)
                 EXCEPT !.user = rep.job]}

TidyUp(rep) ==
    /\ rep \in reports /\ rep.step = "tidy"
    /\ reports' = (reports \ {rep}) \cup
          {IF Leftovers(rep) = {} THEN [rep EXCEPT !.step = "close"]
           ELSE [rep EXCEPT !.step = "disable", !.todo = Leftovers(rep)]}
    /\ UNCHANGED <<dbVars, calls, events, agent, users, faults>>

DisableNext(rep) ==
    /\ rep \in reports /\ rep.step = "disable"
    /\ Len(jobs) < MaxJobs
    /\ \E order \in rep.todo :
          /\ jobs' = Insert(jobs, order)
          /\ reports' = (reports \ {rep}) \cup
                {[rep EXCEPT !.step = IF rep.todo = {order} THEN "close" ELSE "disable", !.todo = @ \ {order}]}
    /\ UNCHANGED <<status, paid, placement, accounts, calls, events, agent, users, faults>>

\* Last, the job is done, by its id alone.
CloseJob(rep) ==
    /\ rep \in reports /\ rep.step = "close"
    /\ jobs' = Closed(rep.job, "done")
    /\ reports' = reports \ {rep}
    /\ Answer(rep)
    /\ UNCHANGED <<status, paid, placement, accounts, calls, events, users>>

\* A statement fails or the handler dies: the agent sees a 500 or nothing, and reports again.
HandlerDies(rep) ==
    /\ rep \in reports /\ faults < MaxFaults
    /\ faults' = faults + 1
    /\ reports' = reports \ {rep}
    /\ UNCHANGED <<dbVars, calls, events, agent, users>>

-----------------------------------------------------------------------------
(* Ten minutes pass; the minute tick reaps the claim *)

LeaseLapses(i) ==
    /\ PromptReports => ~\E rep \in reports : rep.job = i /\ Validated(rep)
    /\ i \in DOMAIN jobs /\ jobs[i].status = "claimed" /\ ~jobs[i].lapsed
    /\ jobs' = [jobs EXCEPT ![i].lapsed = TRUE]
    /\ UNCHANGED <<status, paid, placement, accounts, calls, events, agent, users, reports, faults>>

\* Mutant: only claims that still have attempts left after this one are looked at.
Reap_Exhausted(i) ==
    /\ i \in DOMAIN jobs /\ jobs[i].status = "claimed" /\ jobs[i].lapsed
    /\ jobs[i].attempts + 1 < MaxAttempts
    /\ jobs' = [jobs EXCEPT ![i].status = "pending",
          ![i].attempts = @ + 1, ![i].token = 0, ![i].lapsed = FALSE]
    /\ UNCHANGED <<status, paid, placement, accounts, calls, events, agent, users, reports, faults>>
Reap(i) ==
    /\ i \in DOMAIN jobs /\ jobs[i].status = "claimed" /\ jobs[i].lapsed
    /\ jobs' = [jobs EXCEPT
          ![i].status = IF jobs[i].attempts + 1 >= MaxAttempts THEN "failed" ELSE "pending",
          ![i].attempts = @ + 1, ![i].token = 0, ![i].lapsed = FALSE]
    /\ UNCHANGED <<status, paid, placement, accounts, calls, events, agent, users, reports, faults>>

-----------------------------------------------------------------------------
\* A device starts without an identity, or with one on some node since before event 1.
Created(d, n) ==
    [NewJob([type |-> "CREATE_USER", device |-> d, node |-> n, user |-> 0,
             key |-> [event |-> 0, what |-> "create", device |-> d, node |-> n, other |-> n]])
        EXCEPT !.status = "done", !.claims = 1]
Starts == {<< >>} \cup {<<Created(d, n)>> : d \in Devices, n \in Nodes}

Init ==
    /\ status = [d \in Devices |-> "ACTIVE"]
    /\ paid \in [Devices -> BOOLEAN]
    /\ placement \in [Devices -> Placements]
    /\ jobs \in Starts
    /\ accounts = [d \in Devices |-> [n \in Nodes |->
                      IF jobs # << >> /\ jobs[1].order.device = d /\ jobs[1].order.node = n
                      THEN [state |-> "enabled", user |-> 1] ELSE NoAccount]]
    /\ \A d \in Devices, n \in Nodes :
          accounts[d][n] # NoAccount => paid[d] /\ placement[d] = n
    /\ users = [i \in JobIds |-> IF i \in DOMAIN jobs THEN "on" ELSE "none"]
    /\ calls = {}
    /\ events = 0
    /\ agent = [n \in Nodes |-> Idle]
    /\ reports = {}
    /\ faults = 0

Happening(d) ==
    \/ Subscribe(d) \/ Lapse(d) \/ Renew(d) \/ Revoke(d)
    \/ \E p \in Placements : Move(d, p)
Reconciling(c) == ReadEntitlement(c) \/ Plan(c) \/ InsertNext(c)
Working(n) == Claim(n) \/ Run(n) \/ GiveUp(n) \/ Send(n)
Handling(rep) ==
    \/ ReadJob(rep) \/ WriteFailure(rep) \/ WriteResult(rep)
    \/ CheckCreated(rep) \/ TidyUp(rep) \/ DisableNext(rep) \/ CloseJob(rep)

Next ==
    \/ \E d \in Devices : Happening(d)
    \/ \E c \in calls : Reconciling(c) \/ Redeliver(c)
    \/ \E n \in Nodes : Working(n) \/ RunError(n) \/ AgentRestart(n)
    \/ \E rep \in reports : Handling(rep) \/ HandlerDies(rep)
    \/ \E i \in DOMAIN jobs : LeaseLapses(i) \/ Reap(i)

Spec == Init /\ [][Next]_vars

\* Handlers run to their end, agents poll, time passes and the minute tick runs.
Fairness ==
    /\ WF_vars(\E c \in calls : Reconciling(c))
    /\ \A n \in Nodes : WF_vars(Working(n))
    /\ WF_vars(\E rep \in reports : Handling(rep))
    /\ WF_vars(\E i \in DOMAIN jobs : LeaseLapses(i))
    /\ WF_vars(\E i \in DOMAIN jobs : Reap(i))
FairSpec == Spec /\ Fairness

-----------------------------------------------------------------------------
(* Properties *)

JobsOf(d, n) == {i \in DOMAIN jobs : jobs[i].order.device = d /\ jobs[i].order.node = n}
OfType(type, S) == {i \in S : jobs[i].order.type = type}
Creates(d, n) == OfType("CREATE_USER", JobsOf(d, n))
Enables(d, n) == OfType("ENABLE_USER", JobsOf(d, n))

\* A revoked device gets no identity through a CREATE_USER job that raced the revocation:
\* while one of its identities is enabled something is still going to disable it, unless an
\* ENABLE_USER job was queued for it.
RevokedHasRemedy ==
    \A d \in Devices, n \in Nodes :
        (status[d] = "REVOKED" /\ accounts[d][n].state = "enabled" /\ Enables(d, n) = {}) =>
            \/ \E i \in OfType("DISABLE_USER", JobsOf(d, n)) : jobs[i].status # "done"
            \/ \E i \in Creates(d, n) : jobs[i].status # "done"
            \/ \E c \in calls : c.device = d /\
                   \/ c.step = "gate" \/ (c.step = "plan" /\ ~c.entitled)
                   \/ \E j \in DOMAIN c.todo : c.todo[j].type = "DISABLE_USER" /\ c.todo[j].node = n

\* Nobody loses an identity to a move before the identity on another node exists.
BreakAfterMake ==
    \A i \in DOMAIN jobs :
        LET o == jobs[i].order
        IN o.key.what = "moved" =>
              \E n \in Nodes \ {o.node} : accounts[o.device][n].state # "none"

\* A CREATE_USER job is never done before its identity is stored and its user exists, however
\* often it was claimed, reported and repeated.
DoneCreateIsStored ==
    \A d \in Devices, n \in Nodes : \A i \in Creates(d, n) :
        jobs[i].status = "done" => users[i] # "none" /\ accounts[d][n].user # 0

\* A report never regresses a job that is done, and never resurrects one that failed.
ClosedIsFinal ==
    [][\A i \in DOMAIN jobs : ~Open(jobs[i]) => jobs'[i] = jobs[i]]_jobs

\* A claim is closed by its own report, not by the late report of an earlier claim.
OwnReportCloses ==
    [][\A i \in DOMAIN jobs :
          (jobs[i].status = "claimed" /\ ~jobs[i].lapsed /\ ~Open(jobs'[i])) =>
              \E rep \in reports : rep.job = i /\ Validated(rep) /\ rep.token = jobs[i].token]_jobs

\* A job is closed once, by the report of the claim that holds it, and done only when what it was to
\* create is there.
JobsCloseRightly == ClosedIsFinal /\ OwnReportCloses /\ []DoneCreateIsStored

Dark(d) == \A n \in Nodes : \A i \in Creates(d, n) : users[i] # "on"
\* A revoked device ends without a working user on any node, unless a job of it failed (an
\* alert is raised), an ENABLE_USER job was queued, or an identity was created twice.
RevokedGoesDark ==
    \A d \in Devices :
        status[d] = "REVOKED" ~>
            \/ Dark(d)
            \/ \E n \in Nodes : \/ \E i \in JobsOf(d, n) : jobs[i].status = "failed"
                                \/ Enables(d, n) # {}
                                \/ Cardinality(Creates(d, n)) > 1

\* "A revoked device must never regain network access through a job that raced revocation."
RevokedStaysOff ==
    [][\A d \in Devices, n \in Nodes :
          (status[d] = "REVOKED" /\ accounts[d][n].state = "disabled") =>
              accounts'[d][n].state = "disabled"]_accounts
=============================================================================
