------------------------ MODULE ProvisioningJobsProofs ------------------------
(***************************************************************************)
(* Proofs about ProvisioningJobs for any number of devices and nodes, any  *)
(* answers of the placement, and any bounds on events, jobs and faults.    *)
(*                                                                         *)
(* A revoked device has a remedy (RemedyCorrect) because what disables an  *)
(* identity is handed on without a gap: from the call of the revocation to *)
(* the orders it lists and the jobs they become, or from an undone         *)
(* CREATE_USER job to the check its report makes after the identity is     *)
(* stored.  Covered says that the identity has such a remedy; once it is   *)
(* stored, it stays covered (CoveredStays), and a job only closes when it  *)
(* is (ReportFits).                                                        *)
(***************************************************************************)
EXTENDS ProvisioningJobs, SequenceTheorems, FiniteSetTheorems, TLAPS

-----------------------------------------------------------------------------
(* Lists and rows *)

LEMMA AllListed ==
    ASSUME NEW S, IsFiniteSet(S), NEW l \in SetToSeqs(S)
    PROVE  l \in Seq(S) /\ \A x \in S : \E i \in DOMAIN l : l[i] = x
<1> DEFINE k == Cardinality(S)
<1>1. k \in Nat
  BY FS_CardinalityType
<1>2. l \in [1..k -> S] /\ \A i, j \in 1..k : i # j => l[i] # l[j]
  BY DEF SetToSeqs
<1> HIDE DEF k
<1>3. l \in Injection(1..k, S)
  BY <1>2 DEF Injection, IsInjective
<1>4. IsFiniteSet(1..k) /\ Cardinality(1..k) = k
  BY <1>1, FS_Interval
<1>5. l \in Surjection(1..k, S)
  BY <1>3, <1>4, FS_Injection DEF k
<1>6. l \in Seq(S)
  BY <1>1, <1>2, SeqDef
<1>7. QED
  BY <1>2, <1>5, <1>6 DEF Surjection

LEMMA RowChanges ==
    ASSUME jobs \in Seq(Job), NEW i \in DOMAIN jobs, NEW row \in Job, jobs' = [jobs EXCEPT ![i] = row]
    PROVE  /\ jobs' \in Seq(Job) /\ Len(jobs') = Len(jobs) /\ DOMAIN jobs' = DOMAIN jobs
           /\ \A j \in DOMAIN jobs : jobs'[j] = IF j = i THEN row ELSE jobs[j]
<1>1. i \in 1..Len(jobs) /\ DOMAIN jobs = 1..Len(jobs)
  OBVIOUS
<1>2. jobs' \in Seq(Job) /\ Len(jobs') = Len(jobs) /\ \A j \in 1..Len(jobs) : jobs'[j] = IF j = i THEN row ELSE jobs[j]
  BY <1>1, ExceptSeq
<1>3. DOMAIN jobs' = 1..Len(jobs')
  BY <1>2
<1>4. QED
  BY <1>1, <1>2, <1>3

LEMMA NewJobs == \A order \in Order : NewJob(order) \in Job /\ NewJob(order).order = order /\ NewJob(order).status = "pending"
BY DEF NewJob, Job

LEMMA InsertStep ==
    ASSUME NEW queue \in Seq(Job), NEW order \in Order, NEW q, q = Insert(queue, order)
    PROVE  /\ q \in Seq(Job) /\ Len(q) <= Len(queue) + 1 /\ DOMAIN queue \subseteq DOMAIN q
           /\ \A i \in DOMAIN queue : q[i] = queue[i]
           /\ \A i \in DOMAIN q : i \in DOMAIN queue \/ q[i] = NewJob(order)
           /\ Enqueued(queue, order) \/ \E i \in DOMAIN q : q[i] = NewJob(order)
<1>1. CASE Enqueued(queue, order)
  <2>1. q = queue
    BY <1>1 DEF Insert
  <2>2. QED
    BY <1>1, <2>1
<1>2. CASE ~Enqueued(queue, order)
  <2>1. PICK e \in Job : e = NewJob(order)
    BY NewJobs
  <2>2. q = Append(queue, e)
    BY <1>2, <2>1 DEF Insert
  <2>3. /\ q \in Seq(Job) /\ Len(q) = Len(queue) + 1 /\ \A i \in 1..Len(queue) : q[i] = queue[i]
        /\ q[Len(queue) + 1] = e
    BY <2>2, AppendProperties
  <2>4. DOMAIN q = 1..(Len(queue) + 1) /\ DOMAIN queue = 1..Len(queue) /\ Len(queue) \in Nat
    BY <2>3
  <2>5. QED
    BY <2>1, <2>3, <2>4
<1>3. QED
  BY <1>1, <1>2

-----------------------------------------------------------------------------
(* Types *)

\* What refers to a job refers to one that exists; an agent without a job has run nothing; only
\* a call that inserts has orders left.
JobsTyped ==
    /\ TypeOK
    /\ \A n \in Nodes : /\ (agent[n].job = 0 \/ agent[n].job \in DOMAIN jobs)
                        /\ agent[n].job = 0 => agent[n].ran = "no"
    /\ \A rep \in reports : rep.job \in DOMAIN jobs
    /\ \A c \in calls : c.step = "insert" <=> c.todo # << >>

LEMMA OrdersTyped ==
    ASSUME TypeOK, NEW c \in Call
    PROVE  /\ DisableAll(c) \subseteq Order
           /\ \A n \in Nodes : /\ Create(c, n) \in Order /\ Enable(c, n) \in Order
                              /\ DisableMoved(c, n) \subseteq Order
<1>1. c.event \in 0..MaxEvents /\ c.device \in Devices
  BY Parameters DEF Call
<1>2. \A m \in Nodes : accounts[c.device][m].user \in 0..MaxJobs
  BY <1>1 DEF TypeOK, Account
<1>3. 0 \in 0..MaxJobs
  BY Parameters
<1>4. \A m \in Nodes, what \in {"disable", "moved"} : Disable(c.device, m, c.event, what, m) \in Order
  BY <1>1, <1>2 DEF Disable, Order, Key, JobType
<1>5. \A n \in Nodes : Create(c, n) \in Order /\ Enable(c, n) \in Order
  BY <1>1, <1>2, <1>3 DEF Create, Enable, Order, Key, JobType
<1>6. QED
  BY <1>4, <1>5 DEF DisableAll, DisableMoved, Enabled

\* What a reconcile wants, as a list: it is a list of the orders in Wishes.
Wishes(c) ==
    DisableAll(c) \cup UNION {{Create(c, n), Enable(c, n)} \cup {o \in DisableMoved(c, n) : accounts[c.device][n].state # "none"} :
                              n \in {placement[c.device]} \cap Nodes}

LEMMA DisablesFinite ==
    ASSUME TypeOK, NEW c \in Call
    PROVE  IsFiniteSet(DisableAll(c)) /\ \A n \in Nodes : IsFiniteSet(DisableMoved(c, n))
<1>0. IsFiniteSet(Nodes)
  BY Parameters
<1>1. IsFiniteSet(Enabled(c.device)) /\ \A n \in Nodes : IsFiniteSet(Enabled(c.device) \ {n})
  BY <1>0, FS_Subset DEF Enabled
<1>2. ASSUME NEW E, IsFiniteSet(E), E \subseteq Nodes, NEW what
      PROVE  IsFiniteSet({Disable(c.device, m, c.event, what, m) : m \in E})
  <2>1. PICK T : T = {Disable(c.device, m, c.event, what, m) : m \in E}
    OBVIOUS
  <2>2. PICK f : f = [m \in E |-> Disable(c.device, m, c.event, what, m)]
    OBVIOUS
  <2>3. f \in Surjection(E, T)
    BY <2>1, <2>2 DEF Surjection
  <2>4. QED
    BY <1>2, <2>1, <2>3, FS_Surjection
<1>3. QED
  BY <1>1, <1>2 DEF DisableAll, DisableMoved, Enabled

LEMMA WantedTyped ==
    ASSUME TypeOK, NEW c \in Call, NEW todo \in Wanted(c)
    PROVE  todo \in Seq(Wishes(c)) /\ Wishes(c) \subseteq Order
<1>1. Wishes(c) \subseteq Order
  BY OrdersTyped DEF Wishes
<1>2. IsFiniteSet(Nodes)
  BY Parameters
<1>3. IsFiniteSet(DisableAll(c)) /\ \A n \in Nodes : IsFiniteSet(DisableMoved(c, n))
  BY DisablesFinite
<1>4. PICK p : p = placement[c.device]
  OBVIOUS
<1>5. PICK state : state = accounts[c.device][p].state
  OBVIOUS
<1>6. p \in Nodes => state \in {"none", "enabled", "disabled"}
  BY <1>4, <1>5 DEF TypeOK, Account, Call
<1>7. p \in Nodes \/ p \in {"POLICY", "CAPACITY"}
  BY <1>4, Parameters DEF TypeOK, Call
<1>8. c.entitled \in BOOLEAN
  BY DEF Call
<1>9. \/ todo \in SetToSeqs(DisableAll(c))
      \/ todo = << >>
      \/ p \in Nodes /\ todo = <<Create(c, p)>>
      \/ p \in Nodes /\ state # "none" /\ todo \in SetToSeqs(DisableMoved(c, p))
      \/ p \in Nodes /\ state # "none" /\ \E l \in SetToSeqs(DisableMoved(c, p)) : todo = <<Enable(c, p)>> \o l
  BY <1>4, <1>5, <1>6, <1>7, <1>8 DEF Wanted, NewIdentity
<1>10. \A S, T : S \subseteq T => Seq(S) \subseteq Seq(T)
  OBVIOUS
<1>11. CASE todo \in SetToSeqs(DisableAll(c))
  BY <1>1, <1>3, <1>10, <1>11, AllListed DEF Wishes
<1>12. CASE todo = << >>
  BY <1>1, <1>12
<1>13. CASE p \in Nodes /\ todo = <<Create(c, p)>>
  BY <1>1, <1>4, <1>13 DEF Wishes
<1>14. ASSUME p \in Nodes, state # "none", NEW l \in SetToSeqs(DisableMoved(c, p)) PROVE l \in Seq(Wishes(c))
  <2>1. DisableMoved(c, p) \subseteq Wishes(c)
    BY <1>4, <1>5, <1>14 DEF Wishes
  <2>2. l \in Seq(DisableMoved(c, p))
    BY <1>3, <1>14, AllListed
  <2>3. QED
    BY <1>10, <2>1, <2>2
<1>15. ASSUME p \in Nodes, state # "none", NEW l \in SetToSeqs(DisableMoved(c, p)), todo = <<Enable(c, p)>> \o l PROVE todo \in Seq(Wishes(c))
  <2>1. <<Enable(c, p)>> \in Seq(Wishes(c))
    BY <1>4, <1>15 DEF Wishes
  <2>2. QED
    BY <1>14, <1>15, <2>1, ConcatProperties
<1>16. QED
  BY <1>1, <1>9, <1>11, <1>12, <1>13, <1>14, <1>15

LEMMA CallsTyped ==
    ASSUME JobsTyped, NEW c \in calls
    PROVE  /\ c \in Call
           /\ \A e \in BOOLEAN : [c EXCEPT !.step = "plan", !.entitled = e] \in Call
           /\ \A l \in Seq(Order) : [c EXCEPT !.step = "insert", !.todo = l] \in Call /\ [c EXCEPT !.todo = l] \in Call
           /\ [c EXCEPT !.step = "gate", !.entitled = FALSE, !.todo = << >>] \in Call
<1>1. c \in Call
  BY DEF JobsTyped, TypeOK
<1>2. << >> \in Seq(Order)
  OBVIOUS
<1> DEFINE L == Seq(Order)
<1>3. c \in [event : 1..MaxEvents, device : Devices, step : {"gate", "plan", "insert"}, entitled : BOOLEAN, todo : L]
  BY <1>1 DEF Call
<1>4. << >> \in L
  BY <1>2
<1> HIDE DEF L
<1>5. \A e \in BOOLEAN : [c EXCEPT !.step = "plan", !.entitled = e]
         \in [event : 1..MaxEvents, device : Devices, step : {"gate", "plan", "insert"}, entitled : BOOLEAN, todo : L]
  BY <1>3
<1>6. \A l \in L : /\ [c EXCEPT !.step = "insert", !.todo = l]
                      \in [event : 1..MaxEvents, device : Devices, step : {"gate", "plan", "insert"}, entitled : BOOLEAN, todo : L]
                  /\ [c EXCEPT !.todo = l]
                      \in [event : 1..MaxEvents, device : Devices, step : {"gate", "plan", "insert"}, entitled : BOOLEAN, todo : L]
  BY <1>3
<1>7. [c EXCEPT !.step = "gate", !.entitled = FALSE, !.todo = << >>]
         \in [event : 1..MaxEvents, device : Devices, step : {"gate", "plan", "insert"}, entitled : BOOLEAN, todo : L]
  BY <1>3, <1>4
<1>8. QED
  BY <1>1, <1>5, <1>6, <1>7 DEF Call, L

LEMMA ReportsTyped ==
    ASSUME JobsTyped, NEW rep \in reports
    PROVE  /\ rep \in Report /\ rep.job \in DOMAIN jobs /\ jobs[rep.job] \in Job /\ jobs[rep.job].order \in Order
           /\ \A s \in {"write", "gate", "tidy", "disable", "close"} : [rep EXCEPT !.step = s] \in Report
           /\ \A e \in BOOLEAN : [rep EXCEPT !.step = "tidy", !.entitled = e] \in Report
           /\ \A s \in {"disable", "close"}, l \in SUBSET Order : [rep EXCEPT !.step = s, !.todo = l] \in Report
<1>1. rep \in Report /\ rep.job \in DOMAIN jobs /\ jobs \in Seq(Job)
  BY DEF JobsTyped, TypeOK
<1>2. jobs[rep.job] \in Job
  BY <1>1
<1>3. jobs[rep.job].order \in Order
  BY <1>2 DEF Job
<1>4. QED
  BY <1>1, <1>2, <1>3 DEF Report

LEMMA LeftoversTyped ==
    ASSUME JobsTyped, NEW rep \in reports
    PROVE  Leftovers(rep) \subseteq Order
<1>1. PICK o \in Order : o = jobs[rep.job].order
  BY ReportsTyped
<1>2. o.device \in Devices /\ o.node \in Nodes
  BY DEF Order
<1>3. \A m \in Nodes : accounts[o.device][m].user \in 0..MaxJobs
  BY <1>2 DEF JobsTyped, TypeOK, Account
<1>4. \A m \in Nodes, what \in {"moved", "after-revoke"} : Disable(o.device, m, 0, what, o.node) \in Order
  <2>1. 0 \in 0..MaxEvents
    BY Parameters
  <2>2. QED
    BY <1>2, <1>3, <2>1 DEF Disable, Order, Key, JobType
<1>5. rep.job \in 0..MaxJobs
  BY DEF JobsTyped, TypeOK, Report, JobIds
<1>6. [Disable(o.device, o.node, 0, "after-revoke", o.node) EXCEPT !.user = rep.job] \in Order
  BY <1>2, <1>4, <1>5 DEF Order
<1>7. QED
  BY <1>1, <1>4, <1>6 DEF Leftovers, Enabled

\* The rows an action may write.
LEMMA RowsTyped ==
    ASSUME NEW row \in Job
    PROVE  /\ \A t \in Nat : [row EXCEPT !.status = "claimed", !.claims = @ + 1, !.token = t, !.lapsed = FALSE] \in Job
           /\ \A s \in {"done", "failed"} : [row EXCEPT !.status = s, !.token = 0, !.lapsed = FALSE] \in Job
           /\ [row EXCEPT !.lapsed = TRUE] \in Job
           /\ \A s \in {"failed", "pending"} : [row EXCEPT !.status = s, !.attempts = @ + 1, !.token = 0, !.lapsed = FALSE] \in Job
<1>1. \A t \in Nat : [row EXCEPT !.status = "claimed", !.claims = @ + 1, !.token = t, !.lapsed = FALSE] \in Job
  <2>1. PICK k \in Nat : k = row.claims + 1
    BY DEF Job
  <2>2. \A t \in Nat : [row EXCEPT !.status = "claimed", !.claims = k, !.token = t, !.lapsed = FALSE] \in Job
    BY DEF Job
  <2>3. QED
    BY <2>1, <2>2
<1>2. \A s \in {"done", "failed"} : [row EXCEPT !.status = s, !.token = 0, !.lapsed = FALSE] \in Job
  BY DEF Job
<1>3. [row EXCEPT !.lapsed = TRUE] \in Job
  BY DEF Job
<1>4. \A s \in {"failed", "pending"} : [row EXCEPT !.status = s, !.attempts = @ + 1, !.token = 0, !.lapsed = FALSE] \in Job
  <2>1. PICK k \in Nat : k = row.attempts + 1
    BY DEF Job
  <2>2. \A s \in {"failed", "pending"} : [row EXCEPT !.status = s, !.attempts = k, !.token = 0, !.lapsed = FALSE] \in Job
    BY DEF Job
  <2>3. QED
    BY <2>1, <2>2
<1>5. QED
  BY <1>1, <1>2, <1>3, <1>4

\* What any step may do to the jobs: rows are added, of an order that was about to be queued, or one
\* row changes what is not its order.
Added(order) ==
    /\ jobs' = Insert(jobs, order) /\ Len(jobs) < MaxJobs
Rewritten(i) ==
    /\ i \in DOMAIN jobs
    /\ \E row \in Job : row.order = jobs[i].order /\ jobs' = [jobs EXCEPT ![i] = row]

LEMMA Rewrites ==
    ASSUME JobsTyped, NEW i \in DOMAIN jobs
    PROVE  /\ \A t \in Nat : jobs' = [jobs EXCEPT ![i].status = "claimed", ![i].claims = @ + 1, ![i].token = t, ![i].lapsed = FALSE]
                 => Rewritten(i)
           /\ \A s \in {"done", "failed"} : jobs' = Closed(i, s) => Rewritten(i)
           /\ jobs' = [jobs EXCEPT ![i].lapsed = TRUE] => Rewritten(i)
           /\ \A s \in {"failed", "pending"} :
                 jobs' = [jobs EXCEPT ![i].status = s, ![i].attempts = @ + 1, ![i].token = 0, ![i].lapsed = FALSE] => Rewritten(i)
<1>1. jobs \in Seq(Job) /\ jobs[i] \in Job
  BY DEF JobsTyped, TypeOK
<1>2. PICK row \in Job : row = jobs[i]
  BY <1>1
<1>3. ASSUME NEW t \in Nat, jobs' = [jobs EXCEPT ![i].status = "claimed", ![i].claims = @ + 1, ![i].token = t, ![i].lapsed = FALSE]
      PROVE  Rewritten(i)
  <2>1. PICK new \in Job : new = [row EXCEPT !.status = "claimed", !.claims = @ + 1, !.token = t, !.lapsed = FALSE]
    BY RowsTyped
  <2>2. new.order = jobs[i].order /\ jobs' = [jobs EXCEPT ![i] = new]
    BY <1>1, <1>2, <1>3, <2>1 DEF Job
  <2>3. QED
    BY <2>2 DEF Rewritten
<1>4. ASSUME NEW s \in {"done", "failed"}, jobs' = Closed(i, s) PROVE Rewritten(i)
  <2>1. PICK new \in Job : new = [row EXCEPT !.status = s, !.token = 0, !.lapsed = FALSE]
    BY RowsTyped
  <2>2. new.order = jobs[i].order /\ jobs' = [jobs EXCEPT ![i] = new]
    BY <1>1, <1>2, <1>4, <2>1 DEF Job, Closed
  <2>3. QED
    BY <2>2 DEF Rewritten
<1>5. ASSUME jobs' = [jobs EXCEPT ![i].lapsed = TRUE] PROVE Rewritten(i)
  <2>1. PICK new \in Job : new = [row EXCEPT !.lapsed = TRUE]
    BY RowsTyped
  <2>2. new.order = jobs[i].order /\ jobs' = [jobs EXCEPT ![i] = new]
    BY <1>1, <1>2, <1>5, <2>1 DEF Job
  <2>3. QED
    BY <2>2 DEF Rewritten
<1>6. ASSUME NEW s \in {"failed", "pending"},
             jobs' = [jobs EXCEPT ![i].status = s, ![i].attempts = @ + 1, ![i].token = 0, ![i].lapsed = FALSE]
      PROVE  Rewritten(i)
  <2>1. PICK new \in Job : new = [row EXCEPT !.status = s, !.attempts = @ + 1, !.token = 0, !.lapsed = FALSE]
    BY RowsTyped
  <2>2. new.order = jobs[i].order /\ jobs' = [jobs EXCEPT ![i] = new]
    BY <1>1, <1>2, <1>6, <2>1 DEF Job
  <2>3. QED
    BY <2>2 DEF Rewritten
<1>7. QED
  BY <1>3, <1>4, <1>5, <1>6

\* An order about to be queued, by a call or by a report.
NextOrders == {Head(c.todo) : c \in {d \in calls : d.step = "insert"}} \cup UNION {rep.todo : rep \in reports}

LEMMA JobsMoveBy ==
    ASSUME JobsTyped, [Next]_vars
    PROVE  \/ UNCHANGED jobs
           \/ \E order \in NextOrders \cap Order : Added(order)
           \/ \E n \in Nodes : Claim(n)
           \/ \E rep \in reports : WriteFailure(rep) \/ CloseJob(rep)
           \/ \E i \in DOMAIN jobs : LeaseLapses(i) \/ Reap(i)
<1>1. CASE UNCHANGED vars
  BY <1>1 DEF vars, dbVars
<1>2. ASSUME NEW d \in Devices, Happening(d) PROVE UNCHANGED jobs
  BY <1>2 DEF Happening, Subscribe, Lapse, Renew, Revoke, Move, Event
<1>3. ASSUME NEW c \in calls, ReadEntitlement(c) \/ Plan(c) \/ Redeliver(c) PROVE UNCHANGED jobs
  BY <1>3 DEF ReadEntitlement, Plan, Redeliver, dbVars
<1>4. ASSUME NEW c \in calls, InsertNext(c) PROVE \E order \in NextOrders \cap Order : Added(order)
  <2>1. c \in Call /\ c.todo # << >> /\ c.step = "insert"
    BY <1>4, CallsTyped DEF InsertNext, JobsTyped
  <2>1a. c.todo \in Seq(Order)
    BY <2>1 DEF Call
  <2>2. Head(c.todo) \in Order /\ Head(c.todo) \in NextOrders
    BY <2>1, <2>1a, HeadTailProperties DEF NextOrders
  <2>3. QED
    BY <1>4, <2>2 DEF InsertNext, Added
<1>5. ASSUME NEW n \in Nodes, Run(n) \/ GiveUp(n) \/ Send(n) \/ RunError(n) \/ AgentRestart(n) PROVE UNCHANGED jobs
  BY <1>5 DEF Run, GiveUp, Send, RunError, AgentRestart, dbVars
<1>6. ASSUME NEW rep \in reports, ReadJob(rep) \/ WriteResult(rep) \/ CheckCreated(rep) \/ TidyUp(rep) \/ HandlerDies(rep)
      PROVE  UNCHANGED jobs
  BY <1>6 DEF ReadJob, WriteResult, CheckCreated, TidyUp, HandlerDies, dbVars
<1>7. ASSUME NEW rep \in reports, DisableNext(rep) PROVE \E order \in NextOrders \cap Order : Added(order)
  <2>1. rep.todo \subseteq Order
    BY ReportsTyped DEF Report
  <2>2. QED
    BY <1>7, <2>1 DEF DisableNext, Added, NextOrders
<1>8. QED
  BY <1>1, <1>2, <1>3, <1>4, <1>5, <1>6, <1>7 DEF Next, Reconciling, Working, Handling

LEMMA JobsMove ==
    ASSUME JobsTyped, [Next]_vars
    PROVE  \/ UNCHANGED jobs
           \/ \E order \in NextOrders \cap Order : Added(order)
           \/ \E i \in DOMAIN jobs : Rewritten(i)
<1>1. ASSUME NEW n \in Nodes, Claim(n) PROVE \E i \in DOMAIN jobs : Rewritten(i)
  <2>1. PICK i \in DOMAIN jobs : jobs' = [jobs EXCEPT ![i].status = "claimed", ![i].claims = @ + 1,
                                                      ![i].token = jobs[i].claims + 1, ![i].lapsed = FALSE]
    BY <1>1 DEF Claim
  <2>2. jobs[i] \in Job
    BY DEF JobsTyped, TypeOK
  <2>2a. jobs[i].claims + 1 \in Nat
    BY <2>2 DEF Job
  <2>3. QED
    BY <2>1, <2>2a, Rewrites
<1>2. ASSUME NEW rep \in reports, WriteFailure(rep) \/ CloseJob(rep) PROVE \E i \in DOMAIN jobs : Rewritten(i)
  BY <1>2, ReportsTyped, Rewrites DEF WriteFailure, CloseJob
<1>3. ASSUME NEW i \in DOMAIN jobs, LeaseLapses(i) \/ Reap(i) PROVE Rewritten(i)
  <2>1. CASE LeaseLapses(i)
    BY <2>1, Rewrites DEF LeaseLapses
  <2>2. CASE Reap(i)
    <3>1. PICK s \in {"failed", "pending"} : s = IF jobs[i].attempts + 1 >= MaxAttempts THEN "failed" ELSE "pending"
      OBVIOUS
    <3>2. jobs' = [jobs EXCEPT ![i].status = s, ![i].attempts = @ + 1, ![i].token = 0, ![i].lapsed = FALSE]
      BY <2>2, <3>1 DEF Reap
    <3>3. QED
      BY <3>2, Rewrites
  <2>3. QED
    BY <1>3, <2>1, <2>2
<1>4. QED
  BY <1>1, <1>2, <1>3, JobsMoveBy

\* The jobs keep their places and their orders.
LEMMA JobsGrow ==
    ASSUME JobsTyped, [Next]_vars
    PROVE  /\ jobs' \in Seq(Job) /\ Len(jobs') <= MaxJobs /\ DOMAIN jobs \subseteq DOMAIN jobs'
           /\ \A i \in DOMAIN jobs : jobs'[i].order = jobs[i].order
           /\ \A i \in DOMAIN jobs' : i \in DOMAIN jobs \/ \E order \in NextOrders \cap Order : jobs'[i] = NewJob(order)
<1>1. jobs \in Seq(Job) /\ Len(jobs) <= MaxJobs /\ Len(jobs) \in Nat /\ MaxJobs \in Nat
  BY Parameters DEF JobsTyped, TypeOK
<1>2. CASE UNCHANGED jobs
  BY <1>1, <1>2
<1>3. ASSUME NEW order \in NextOrders \cap Order, Added(order)
      PROVE  /\ jobs' \in Seq(Job) /\ Len(jobs') <= MaxJobs /\ DOMAIN jobs \subseteq DOMAIN jobs'
             /\ \A i \in DOMAIN jobs : jobs'[i].order = jobs[i].order
             /\ \A i \in DOMAIN jobs' : i \in DOMAIN jobs \/ jobs'[i] = NewJob(order)
  <2>1. PICK q : q = jobs' /\ q = Insert(jobs, order)
    BY <1>3 DEF Added
  <2>2. /\ q \in Seq(Job) /\ Len(q) <= Len(jobs) + 1 /\ DOMAIN jobs \subseteq DOMAIN q
        /\ \A i \in DOMAIN jobs : q[i] = jobs[i]
        /\ \A i \in DOMAIN q : i \in DOMAIN jobs \/ q[i] = NewJob(order)
    BY <1>1, <1>3, <2>1, InsertStep
  <2>3. Len(q) <= MaxJobs
    BY <1>1, <1>3, <2>2 DEF Added
  <2>4. QED
    BY <2>1, <2>2, <2>3
<1>4. ASSUME NEW i \in DOMAIN jobs, Rewritten(i)
      PROVE  /\ jobs' \in Seq(Job) /\ Len(jobs') <= MaxJobs /\ DOMAIN jobs = DOMAIN jobs'
             /\ \A j \in DOMAIN jobs : jobs'[j].order = jobs[j].order
  BY <1>1, <1>4, RowChanges DEF Rewritten
<1>5. QED
  BY <1>2, <1>3, <1>4, JobsMove

-----------------------------------------------------------------------------
(* Who changes what *)

LEMMA StatusMove ==
    ASSUME [Next]_vars
    PROVE  status' = status \/ \E d \in Devices : Revoke(d)
<1>1. CASE UNCHANGED vars
  BY <1>1 DEF vars, dbVars
<1>2. ASSUME NEW d \in Devices, Happening(d) PROVE status' = status \/ Revoke(d)
  BY <1>2 DEF Happening, Subscribe, Lapse, Renew, Move
<1>3. ASSUME NEW c \in calls, Reconciling(c) \/ Redeliver(c) PROVE status' = status
  BY <1>3 DEF Reconciling, ReadEntitlement, Plan, InsertNext, Redeliver, dbVars
<1>4. ASSUME NEW n \in Nodes, Working(n) \/ RunError(n) \/ AgentRestart(n) PROVE status' = status
  BY <1>4 DEF Working, Claim, Run, GiveUp, Send, RunError, AgentRestart, dbVars
<1>5. ASSUME NEW rep \in reports, Handling(rep) \/ HandlerDies(rep) PROVE status' = status
  BY <1>5 DEF Handling, ReadJob, WriteFailure, WriteResult, CheckCreated, TidyUp, DisableNext, CloseJob,
     HandlerDies, dbVars
<1>6. ASSUME NEW i \in DOMAIN jobs, LeaseLapses(i) \/ Reap(i) PROVE status' = status
  BY <1>6 DEF LeaseLapses, Reap
<1>7. QED
  BY <1>1, <1>2, <1>3, <1>4, <1>5, <1>6 DEF Next

LEMMA AccountsMove ==
    ASSUME [Next]_vars
    PROVE  accounts' = accounts \/ \E rep \in reports : WriteResult(rep)
<1>1. CASE UNCHANGED vars
  BY <1>1 DEF vars, dbVars
<1>2. ASSUME NEW d \in Devices, Happening(d) PROVE accounts' = accounts
  BY <1>2 DEF Happening, Subscribe, Lapse, Renew, Move, Revoke, Event
<1>3. ASSUME NEW c \in calls, Reconciling(c) \/ Redeliver(c) PROVE accounts' = accounts
  BY <1>3 DEF Reconciling, ReadEntitlement, Plan, InsertNext, Redeliver, dbVars
<1>4. ASSUME NEW n \in Nodes, Working(n) \/ RunError(n) \/ AgentRestart(n) PROVE accounts' = accounts
  BY <1>4 DEF Working, Claim, Run, GiveUp, Send, RunError, AgentRestart, dbVars
<1>5. ASSUME NEW rep \in reports, Handling(rep) \/ HandlerDies(rep) PROVE accounts' = accounts \/ WriteResult(rep)
  BY <1>5 DEF Handling, ReadJob, WriteFailure, CheckCreated, TidyUp, DisableNext, CloseJob, HandlerDies, dbVars
<1>6. ASSUME NEW i \in DOMAIN jobs, LeaseLapses(i) \/ Reap(i) PROVE accounts' = accounts
  BY <1>6 DEF LeaseLapses, Reap
<1>7. QED
  BY <1>1, <1>2, <1>3, <1>4, <1>5, <1>6 DEF Next

LEMMA UsersMove ==
    ASSUME [Next]_vars
    PROVE  users' = users \/ \E n \in Nodes : Run(n)
<1>1. CASE UNCHANGED vars
  BY <1>1 DEF vars
<1>2. ASSUME NEW d \in Devices, Happening(d) PROVE users' = users
  BY <1>2 DEF Happening, Subscribe, Lapse, Renew, Move, Revoke, Event
<1>3. ASSUME NEW c \in calls, Reconciling(c) \/ Redeliver(c) PROVE users' = users
  BY <1>3 DEF Reconciling, ReadEntitlement, Plan, InsertNext, Redeliver
<1>4. ASSUME NEW n \in Nodes, Working(n) \/ RunError(n) \/ AgentRestart(n) PROVE users' = users \/ Run(n)
  BY <1>4 DEF Working, Claim, GiveUp, Send, RunError, AgentRestart
<1>5. ASSUME NEW rep \in reports, Handling(rep) \/ HandlerDies(rep) PROVE users' = users
  BY <1>5 DEF Handling, ReadJob, WriteFailure, WriteResult, CheckCreated, TidyUp, DisableNext, CloseJob, HandlerDies
<1>6. ASSUME NEW i \in DOMAIN jobs, LeaseLapses(i) \/ Reap(i) PROVE users' = users
  BY <1>6 DEF LeaseLapses, Reap
<1>7. QED
  BY <1>1, <1>2, <1>3, <1>4, <1>5, <1>6 DEF Next

LEMMA CallsMove ==
    ASSUME [Next]_vars
    PROVE  \/ calls' = calls
           \/ \E d \in Devices : Event(d, "gate") \/ Event(d, "plan")
           \/ \E c \in calls : Reconciling(c) \/ Redeliver(c)
<1>1. CASE UNCHANGED vars
  BY <1>1 DEF vars
<1>2. ASSUME NEW d \in Devices, Happening(d) PROVE Event(d, "gate") \/ Event(d, "plan")
  BY <1>2 DEF Happening, Subscribe, Lapse, Renew, Move, Revoke
<1>4. ASSUME NEW n \in Nodes, Working(n) \/ RunError(n) \/ AgentRestart(n) PROVE calls' = calls
  BY <1>4 DEF Working, Claim, Run, GiveUp, Send, RunError, AgentRestart
<1>5. ASSUME NEW rep \in reports, Handling(rep) \/ HandlerDies(rep) PROVE calls' = calls
  BY <1>5 DEF Handling, ReadJob, WriteFailure, WriteResult, CheckCreated, TidyUp, DisableNext, CloseJob, HandlerDies
<1>6. ASSUME NEW i \in DOMAIN jobs, LeaseLapses(i) \/ Reap(i) PROVE calls' = calls
  BY <1>6 DEF LeaseLapses, Reap
<1>7. QED
  BY <1>1, <1>2, <1>4, <1>5, <1>6 DEF Next

LEMMA AgentMove ==
    ASSUME JobsTyped, [Next]_vars
    PROVE  \/ agent' = agent
           \/ \E n \in Nodes : agent' = [agent EXCEPT ![n] = Idle]
           \/ \E n \in Nodes : Claim(n) \/ Run(n) \/ RunError(n)
<1>1. CASE UNCHANGED vars
  BY <1>1 DEF vars
<1>2. ASSUME NEW d \in Devices, Happening(d) PROVE agent' = agent
  BY <1>2 DEF Happening, Subscribe, Lapse, Renew, Move, Revoke, Event
<1>3. ASSUME NEW c \in calls, Reconciling(c) \/ Redeliver(c) PROVE agent' = agent
  BY <1>3 DEF Reconciling, ReadEntitlement, Plan, InsertNext, Redeliver
<1>4. ASSUME NEW n \in Nodes, GiveUp(n) \/ Send(n) \/ AgentRestart(n)
      PROVE  agent' = agent \/ agent' = [agent EXCEPT ![n] = Idle]
  BY <1>4 DEF GiveUp, Send, AgentRestart
<1>5. ASSUME NEW rep \in reports, Answer(rep) PROVE agent' = agent \/ agent' = [agent EXCEPT ![rep.node] = Idle]
  BY <1>5 DEF Answer
<1>6. ASSUME NEW rep \in reports, Handling(rep) \/ HandlerDies(rep)
      PROVE  agent' = agent \/ agent' = [agent EXCEPT ![rep.node] = Idle]
  BY <1>5, <1>6 DEF Handling, ReadJob, WriteFailure, WriteResult, CheckCreated, TidyUp, DisableNext, CloseJob, HandlerDies
<1>7. ASSUME NEW i \in DOMAIN jobs, LeaseLapses(i) \/ Reap(i) PROVE agent' = agent
  BY <1>7 DEF LeaseLapses, Reap
<1>8. \A rep \in reports : rep.node \in Nodes
  BY ReportsTyped DEF Report
<1>9. QED
  BY <1>1, <1>2, <1>3, <1>4, <1>6, <1>7, <1>8 DEF Next, Working

LEMMA RestTyped ==
    ASSUME JobsTyped, [Next]_vars
    PROVE  /\ status' \in [Devices -> {"ACTIVE", "REVOKED"}]
           /\ paid' \in [Devices -> BOOLEAN]
           /\ placement' \in [Devices -> Placements]
           /\ events' \in 0..MaxEvents
           /\ faults' \in 0..MaxFaults
<1> DEFINE Typed == /\ status \in [Devices -> {"ACTIVE", "REVOKED"}]
                    /\ paid \in [Devices -> BOOLEAN]
                    /\ placement \in [Devices -> Placements]
                    /\ events \in 0..MaxEvents
                    /\ faults \in 0..MaxFaults
<1>0. Typed
  BY DEF JobsTyped, TypeOK
<1>1. CASE UNCHANGED vars
  BY <1>0, <1>1 DEF vars, dbVars
<1>2. ASSUME NEW d \in Devices, Happening(d) PROVE Typed'
  <2>1. events' \in 0..MaxEvents /\ faults' = faults
    BY <1>0, <1>2, Parameters DEF Happening, Subscribe, Lapse, Renew, Revoke, Move, Event
  <2>2. CASE Subscribe(d) \/ Lapse(d) \/ Renew(d)
    BY <1>0, <2>1, <2>2 DEF Subscribe, Lapse, Renew
  <2>3. CASE Revoke(d)
    BY <1>0, <2>1, <2>3 DEF Revoke
  <2>4. ASSUME NEW p \in Placements, Move(d, p) PROVE Typed'
    BY <1>0, <2>1, <2>4 DEF Move
  <2>5. QED
    BY <1>2, <2>2, <2>3, <2>4 DEF Happening
<1>3. ASSUME faults' = faults \/ (faults < MaxFaults /\ faults' = faults + 1) PROVE faults' \in 0..MaxFaults
  BY <1>0, <1>3, Parameters
<1>4. ASSUME NEW c \in calls, Reconciling(c) \/ Redeliver(c) PROVE Typed'
  BY <1>0, <1>3, <1>4 DEF Reconciling, ReadEntitlement, Plan, InsertNext, Redeliver, dbVars
<1>5. ASSUME NEW n \in Nodes, Working(n) \/ RunError(n) \/ AgentRestart(n) PROVE Typed'
  BY <1>0, <1>3, <1>5 DEF Working, Claim, Run, GiveUp, Send, RunError, AgentRestart, dbVars
<1>6. ASSUME NEW rep \in reports, Handling(rep) \/ HandlerDies(rep) PROVE Typed'
  <2>1. UNCHANGED <<status, paid, placement, events>>
    BY <1>6 DEF Handling, ReadJob, WriteFailure, WriteResult, CheckCreated, TidyUp, DisableNext, CloseJob,
       HandlerDies, dbVars
  <2>2. Answer(rep) => faults' = faults \/ (faults < MaxFaults /\ faults' = faults + 1)
    BY DEF Answer
  <2>3. faults' = faults \/ (faults < MaxFaults /\ faults' = faults + 1)
    BY <1>6, <2>2 DEF Handling, ReadJob, WriteFailure, WriteResult, CheckCreated, TidyUp, DisableNext, CloseJob, HandlerDies
  <2>4. QED
    BY <1>0, <1>3, <2>1, <2>3
<1>7. ASSUME NEW i \in DOMAIN jobs, LeaseLapses(i) \/ Reap(i) PROVE Typed'
  BY <1>0, <1>7 DEF LeaseLapses, Reap
<1>8. QED
  BY <1>1, <1>2, <1>4, <1>5, <1>6, <1>7 DEF Next

\* What the write of a result does: the identity of the job's device on the job's node changes.
LEMMA ResultWritten ==
    ASSUME JobsTyped, NEW rep \in reports, WriteResult(rep)
    PROVE  \E o \in Order :
             /\ o = jobs[rep.job].order /\ rep.step = "write" /\ rep.kind = "complete"
             /\ UNCHANGED <<status, jobs, calls, agent, users>>
             /\ \E row \in Account :
                   /\ \A d \in Devices, n \in Nodes :
                         accounts'[d][n] = IF d = o.device /\ n = o.node THEN row ELSE accounts[d][n]
                   /\ accounts' \in [Devices -> [Nodes -> Account]]
                   /\ \/ /\ o.type = "CREATE_USER" /\ row = Upserted(accounts[o.device][o.node], rep.job)
                         /\ reports' = Step(rep, "gate")
                      \/ /\ o.type = "ENABLE_USER" /\ row = [accounts[o.device][o.node] EXCEPT !.state = "enabled"]
                         /\ reports' = Step(rep, "close")
                      \/ /\ o.type = "DISABLE_USER" /\ row = [accounts[o.device][o.node] EXCEPT !.state = "disabled"]
                         /\ reports' = Step(rep, "close")
<1>1. PICK o \in Order : o = jobs[rep.job].order
  BY ReportsTyped
<1>2. o.device \in Devices /\ o.node \in Nodes /\ o.type \in JobType
  BY DEF Order
<1>3. accounts \in [Devices -> [Nodes -> Account]] /\ accounts[o.device][o.node] \in Account
  BY <1>2 DEF JobsTyped, TypeOK
<1>4. PICK a \in Account : a = accounts[o.device][o.node]
  BY <1>3
<1>5. rep.job \in 0..MaxJobs
  BY DEF JobsTyped, TypeOK, Report, JobIds
<1>6. /\ Upserted(a, rep.job) \in Account /\ [a EXCEPT !.state = "enabled"] \in Account
      /\ [a EXCEPT !.state = "disabled"] \in Account
  BY <1>5 DEF Upserted, Account
<1>7. rep.step = "write" /\ rep.kind = "complete" /\ UNCHANGED <<status, jobs, calls, agent, users>>
  BY DEF WriteResult
<1>8. ASSUME NEW row \in Account, accounts' = [accounts EXCEPT ![o.device][o.node] = row]
      PROVE  /\ \A d \in Devices, n \in Nodes :
                   accounts'[d][n] = IF d = o.device /\ n = o.node THEN row ELSE accounts[d][n]
             /\ accounts' \in [Devices -> [Nodes -> Account]]
  BY <1>2, <1>3, <1>8
<1>9. CASE o.type = "CREATE_USER"
  <2>1. accounts' = [accounts EXCEPT ![o.device][o.node] = Upserted(a, rep.job)] /\ reports' = Step(rep, "gate")
    BY <1>1, <1>4, <1>9 DEF WriteResult
  <2>2. QED
    BY <1>1, <1>4, <1>6, <1>7, <1>8, <1>9, <2>1
<1>10. CASE o.type = "ENABLE_USER"
  <2>1. accounts' = [accounts EXCEPT ![o.device][o.node] = [a EXCEPT !.state = "enabled"]] /\ reports' = Step(rep, "close")
    BY <1>1, <1>2, <1>3, <1>4, <1>10 DEF WriteResult
  <2>2. QED
    BY <1>1, <1>4, <1>6, <1>7, <1>8, <1>10, <2>1
<1>11. CASE o.type = "DISABLE_USER"
  <2>1. accounts' = [accounts EXCEPT ![o.device][o.node] = [a EXCEPT !.state = "disabled"]] /\ reports' = Step(rep, "close")
    BY <1>1, <1>2, <1>3, <1>4, <1>11 DEF WriteResult
  <2>2. QED
    BY <1>1, <1>4, <1>6, <1>7, <1>8, <1>11, <2>1
<1>12. QED
  BY <1>2, <1>9, <1>10, <1>11 DEF JobType

LEMMA AccountsTyped ==
    ASSUME JobsTyped, [Next]_vars
    PROVE  accounts' \in [Devices -> [Nodes -> Account]]
<1>1. accounts \in [Devices -> [Nodes -> Account]]
  BY DEF JobsTyped, TypeOK
<1>2. QED
  BY <1>1, AccountsMove, ResultWritten

LEMMA CallsStep ==
    ASSUME JobsTyped, [Next]_vars
    PROVE  calls' \subseteq Call /\ \A c \in calls' : c.step = "insert" <=> c.todo # << >>
<1> DEFINE Fits(c) == c \in Call /\ (c.step = "insert" <=> c.todo # << >>)
<1>1. \A c \in calls : Fits(c)
  BY DEF JobsTyped, TypeOK
<1>2. ASSUME NEW d \in Devices, Event(d, "gate") \/ Event(d, "plan") PROVE \A c \in calls' : Fits(c)
  <2>1. PICK gate \in {"gate", "plan"} :
           /\ events < MaxEvents
           /\ calls' = calls \cup {[event |-> events + 1, device |-> d, step |-> gate, entitled |-> FALSE, todo |-> << >>]}
    BY <1>2 DEF Event
  <2>2. << >> \in Seq(Order)
    OBVIOUS
  <2>3. events + 1 \in 1..MaxEvents
    BY <2>1, Parameters DEF JobsTyped, TypeOK
  <2>4. [event |-> events + 1, device |-> d, step |-> gate, entitled |-> FALSE, todo |-> << >>] \in Call
    <3> DEFINE L == Seq(Order)
    <3>1. << >> \in L
      BY <2>2
    <3> HIDE DEF L
    <3>2. [event |-> events + 1, device |-> d, step |-> gate, entitled |-> FALSE, todo |-> << >>]
            \in [event : 1..MaxEvents, device : Devices, step : {"gate", "plan", "insert"}, entitled : BOOLEAN, todo : L]
      BY <2>1, <2>3, <3>1
    <3>3. QED
      BY <3>2 DEF Call, L
  <2>5. PICK e \in Call : e = [event |-> events + 1, device |-> d, step |-> gate, entitled |-> FALSE, todo |-> << >>]
    BY <2>4
  <2>6. e.step # "insert" /\ e.todo = << >>
    BY <2>1, <2>5
  <2>7. calls' = calls \cup {e}
    BY <2>1, <2>5
  <2>8. QED
    BY <1>1, <2>6, <2>7
<1>3. ASSUME NEW c \in calls, NEW e \in Call, Fits(e), calls' \subseteq calls \cup {e} PROVE \A f \in calls' : Fits(f)
  BY <1>1, <1>3
<1>4. ASSUME NEW c \in calls, ReadEntitlement(c) PROVE \A f \in calls' : Fits(f)
  <2>1. Entitled(c.device) \in BOOLEAN
    <3>1. c.device \in Devices
      BY <1>1 DEF Call
    <3>2. paid[c.device] \in BOOLEAN
      BY <3>1 DEF JobsTyped, TypeOK
    <3>3. QED
      BY <3>2 DEF Entitled
  <2>2. PICK e \in Call : e = [c EXCEPT !.step = "plan", !.entitled = Entitled(c.device)]
    BY <2>1, CallsTyped
  <2>3. e.step = "plan" /\ e.todo = << >>
    BY <1>1, <1>4, <2>2 DEF ReadEntitlement, Call
  <2>4. QED
    BY <1>3, <1>4, <2>2, <2>3 DEF ReadEntitlement
<1>5. ASSUME NEW c \in calls, Plan(c) PROVE \A f \in calls' : Fits(f)
  <2>1. PICK todo \in Wanted(c) :
          calls' = (calls \ {c}) \cup (IF todo = << >> THEN {} ELSE {[c EXCEPT !.step = "insert", !.todo = todo]})
    BY <1>5 DEF Plan
  <2>2. todo \in Seq(Order)
    <3>1. c \in Call
      BY <1>1
    <3>2. todo \in Seq(Wishes(c)) /\ Wishes(c) \subseteq Order
      BY <3>1, WantedTyped DEF JobsTyped
    <3>3. QED
      BY <3>2
  <2>3. PICK e \in Call : e = [c EXCEPT !.step = "insert", !.todo = todo]
    BY <2>2, CallsTyped
  <2>4. e.step = "insert" /\ e.todo = todo
    BY <1>1, <2>3 DEF Call
  <2>5. CASE todo = << >>
    BY <1>1, <2>1, <2>5
  <2>6. CASE todo # << >>
    BY <1>3, <2>1, <2>3, <2>4, <2>6
  <2>7. QED
    BY <2>5, <2>6
<1>6. ASSUME NEW c \in calls, InsertNext(c) PROVE \A f \in calls' : Fits(f)
  <2>1. c \in Call /\ c.step = "insert" /\ c.todo # << >>
    BY <1>1, <1>6 DEF InsertNext
  <2>2. c.todo \in Seq(Order)
    BY <2>1 DEF Call
  <2>3. PICK l \in Seq(Order) : l = Tail(c.todo)
    BY <2>1, <2>2, HeadTailProperties
  <2>4. PICK e \in Call : e = [c EXCEPT !.todo = l]
    BY <2>3, CallsTyped
  <2>5. e.step = "insert" /\ e.todo = l
    BY <2>1, <2>4 DEF Call
  <2>6. CASE Len(c.todo) = 1
    BY <1>1, <1>6, <2>6 DEF InsertNext
  <2>7. CASE Len(c.todo) # 1
    <3>1. Len(l) = Len(c.todo) - 1 /\ Len(c.todo) \in Nat
      BY <2>1, <2>2, <2>3, HeadTailProperties
    <3>2. Len(c.todo) # 0
      BY <2>1, <2>2, EmptySeq
    <3>2a. Len(l) # 0
      BY <2>7, <3>1, <3>2
    <3>2b. l # << >>
      BY <3>2a
    <3>3. calls' = (calls \ {c}) \cup {e}
      BY <1>6, <2>3, <2>4, <2>7 DEF InsertNext
    <3>4. QED
      BY <1>3, <2>4, <2>5, <3>2b, <3>3
  <2>8. QED
    BY <2>6, <2>7
<1>7. ASSUME NEW c \in calls, Redeliver(c) PROVE \A f \in calls' : Fits(f)
  <2>1. PICK e \in Call : e = [c EXCEPT !.step = "gate", !.entitled = FALSE, !.todo = << >>]
    BY CallsTyped
  <2>2. e.step = "gate" /\ e.todo = << >>
    BY <1>1, <2>1 DEF Call
  <2>3. QED
    BY <1>3, <1>7, <2>1, <2>2 DEF Redeliver
<1>8. \A c \in calls' : Fits(c)
  BY <1>1, <1>2, <1>4, <1>5, <1>6, <1>7, CallsMove DEF Reconciling
<1>9. QED
  BY <1>8

LEMMA ClaimStep ==
    ASSUME JobsTyped, NEW n \in Nodes, Claim(n)
    PROVE  \E i \in DOMAIN jobs, w \in Work :
              /\ agent' = [agent EXCEPT ![n] = w] /\ w.job = i /\ w.ran = "no" /\ jobs[i].order.node = n
<1>1. PICK i \in DOMAIN jobs :
         Oldest(n, i) /\ agent' = [agent EXCEPT ![n] = [job |-> i, token |-> jobs[i].claims + 1, ran |-> "no"]]
  BY DEF Claim
<1>2. jobs \in Seq(Job) /\ Len(jobs) <= MaxJobs /\ Len(jobs) \in Nat
  BY DEF JobsTyped, TypeOK
<1>3. i \in 0..MaxJobs /\ jobs[i] \in Job
  BY <1>2, Parameters
<1>4. jobs[i].claims + 1 \in Nat
  BY <1>3 DEF Job
<1>5. [job |-> i, token |-> jobs[i].claims + 1, ran |-> "no"] \in Work
  BY <1>3, <1>4 DEF Work
<1>6. QED
  BY <1>1, <1>5 DEF Oldest

LEMMA RunStep ==
    ASSUME JobsTyped, NEW n \in Nodes, Run(n) \/ RunError(n)
    PROVE  \E w \in Work, ran \in {"ok", "error"} :
              /\ w = [agent[n] EXCEPT !.ran = ran] /\ agent' = [agent EXCEPT ![n] = w]
              /\ w.job = agent[n].job /\ w.job # 0 /\ (ran = "ok" => Run(n))
<1>1. agent[n] \in Work
  BY DEF JobsTyped, TypeOK
<1>2. agent[n].job # 0
  BY DEF Run, RunError, Holds
<1>3. PICK ran \in {"ok", "error"} : agent' = [agent EXCEPT ![n].ran = ran] /\ (ran = "ok" => Run(n))
  BY DEF Run, RunError
<1>4. PICK w \in Work : w = [agent[n] EXCEPT !.ran = ran]
  BY <1>1 DEF Work
<1>5. w.job = agent[n].job
  BY <1>1, <1>4 DEF Work
<1>6. agent' = [agent EXCEPT ![n] = w]
  BY <1>3, <1>4
<1>7. QED
  BY <1>2, <1>3, <1>4, <1>5, <1>6

LEMMA AgentNow ==
    ASSUME JobsTyped, NEW n \in Nodes
    PROVE  /\ agent \in [Nodes -> Work] /\ agent[n] \in Work
           /\ agent[n].job = 0 \/ agent[n].job \in DOMAIN jobs
           /\ agent[n].job = 0 => agent[n].ran = "no"
<1>1. agent \in [Nodes -> Work]
  BY DEF JobsTyped, TypeOK
<1>2. (agent[n].job = 0 \/ agent[n].job \in DOMAIN jobs) /\ (agent[n].job = 0 => agent[n].ran = "no")
  BY DEF JobsTyped
<1>3. QED
  BY <1>1, <1>2

LEMMA AgentsTyped ==
    ASSUME JobsTyped, [Next]_vars
    PROVE  /\ agent' \in [Nodes -> Work]
           /\ \A n \in Nodes : /\ (agent'[n].job = 0 \/ agent'[n].job \in DOMAIN jobs)
                               /\ agent'[n].job = 0 => agent'[n].ran = "no"
<1> DEFINE Fits(w) == (w.job = 0 \/ w.job \in DOMAIN jobs) /\ (w.job = 0 => w.ran = "no")
<1>1. agent \in [Nodes -> Work] /\ \A n \in Nodes : Fits(agent[n])
  <2>1. agent \in [Nodes -> Work]
    BY DEF JobsTyped, TypeOK
  <2>2. \A n \in Nodes : Fits(agent[n])
    BY AgentNow
  <2>3. QED
    BY <2>1, <2>2
<1> DEFINE Goal == agent' \in [Nodes -> Work] /\ \A n \in Nodes : Fits(agent'[n])
<1>2. ASSUME NEW n \in Nodes, NEW w \in Work, agent' = [agent EXCEPT ![n] = w], Fits(w) PROVE Goal
  BY <1>1, <1>2
<1>3. Idle \in Work /\ Fits(Idle)
  BY Parameters DEF Idle, Work
<1>4. ASSUME NEW n \in Nodes, Claim(n) PROVE Goal
  <2>1. PICK i \in DOMAIN jobs, w \in Work : agent' = [agent EXCEPT ![n] = w] /\ w.job = i /\ w.ran = "no"
    BY <1>4, ClaimStep
  <2>2. QED
    BY <1>2, <2>1
<1>5. ASSUME NEW n \in Nodes, Run(n) \/ RunError(n) PROVE Goal
  <2>1. PICK w \in Work : agent' = [agent EXCEPT ![n] = w] /\ w.job = agent[n].job /\ w.job # 0
    BY <1>5, RunStep
  <2>2. QED
    BY <1>1, <1>2, <2>1
<1>6. Goal
  BY <1>1, <1>2, <1>3, <1>4, <1>5, AgentMove
<1>7. QED
  BY <1>6

\* The job's effect: a user that was made stays made.
LEMMA UsersStep ==
    ASSUME JobsTyped, [Next]_vars
    PROVE  /\ users' \in [JobIds -> {"none", "on", "off"}]
           /\ \A i \in DOMAIN jobs : users[i] # "none" => users'[i] # "none"
<1>1. users \in [JobIds -> {"none", "on", "off"}]
  BY DEF JobsTyped, TypeOK
<1>2. ASSUME NEW n \in Nodes, Run(n)
      PROVE  /\ users' \in [JobIds -> {"none", "on", "off"}]
             /\ \A i \in DOMAIN jobs : users[i] # "none" => users'[i] # "none"
  <2>1. agent[n].job \in DOMAIN jobs /\ jobs \in Seq(Job) /\ Len(jobs) <= MaxJobs
    <3>1. agent[n].job # 0
      BY <1>2 DEF Run, Holds
    <3>2. jobs \in Seq(Job) /\ Len(jobs) <= MaxJobs
      BY DEF JobsTyped, TypeOK
    <3>3. QED
      BY <3>1, <3>2, AgentNow
  <2>2. PICK i \in DOMAIN jobs : i = agent[n].job
    BY <2>1
  <2>3. jobs[i].order.type \in JobType
    <3>1. jobs[i] \in Job
      BY <2>1
    <3>2. jobs[i].order \in Order
      BY <3>1 DEF Job
    <3>3. QED
      BY <3>2 DEF Order
  <2>4. users' = Effect(i)
    BY <1>2, <2>2 DEF Run
  <2>5. \/ users' = [users EXCEPT ![i] = IF @ = "none" THEN "on" ELSE @]
        \/ users' = [users EXCEPT ![jobs[i].order.user] = "on"]
        \/ users' = [users EXCEPT ![jobs[i].order.user] = "off"]
    BY <2>3, <2>4 DEF Effect, JobType
  <2>6. DOMAIN jobs \subseteq JobIds
    BY <2>1, Parameters DEF JobIds
  <2>7. QED
    BY <1>1, <2>5, <2>6
<1>3. QED
  BY <1>1, <1>2, UsersMove

\* After a Run of a CREATE_USER job, its user is there.
LEMMA RunCreates ==
    ASSUME JobsTyped, NEW n \in Nodes, Run(n), jobs[agent[n].job].order.type = "CREATE_USER"
    PROVE  users'[agent[n].job] # "none"
<1>1. agent[n].job \in JobIds
  BY DEF Run, Holds, JobsTyped, TypeOK, Work, JobIds
<1>2. users \in [JobIds -> {"none", "on", "off"}]
  BY DEF JobsTyped, TypeOK
<1>3. PICK i \in JobIds : i = agent[n].job
  BY <1>1
<1>4. users' = [users EXCEPT ![i] = IF @ = "none" THEN "on" ELSE @]
  BY <1>3 DEF Run, Effect
<1>5. QED
  BY <1>2, <1>3, <1>4

\* How the reports move: one is sent, one is answered, or one takes a step.
ReportStep(rep, r) ==
    \/ ReadJob(rep) /\ ClaimIsValid(rep) /\ r = [rep EXCEPT !.step = "write"]
    \/ WriteResult(rep) /\ r = [rep EXCEPT !.step = "gate"] /\ jobs[rep.job].order.type = "CREATE_USER"
    \/ WriteResult(rep) /\ r = [rep EXCEPT !.step = "close"] /\ jobs[rep.job].order.type # "CREATE_USER"
    \/ CheckCreated(rep) /\ r = [rep EXCEPT !.step = "tidy", !.entitled = Entitled(jobs[rep.job].order.device)]
    \/ TidyUp(rep) /\ Leftovers(rep) = {} /\ r = [rep EXCEPT !.step = "close"]
    \/ TidyUp(rep) /\ Leftovers(rep) # {} /\ r = [rep EXCEPT !.step = "disable", !.todo = Leftovers(rep)]
    \/ DisableNext(rep) /\ \E order \in rep.todo :
          /\ jobs' = Insert(jobs, order)
          /\ r = [rep EXCEPT !.step = IF rep.todo = {order} THEN "close" ELSE "disable", !.todo = @ \ {order}]
Sent(n) ==
    [node |-> n, job |-> agent[n].job, token |-> agent[n].token,
     kind |-> IF agent[n].ran = "ok" THEN "complete" ELSE "fail",
     step |-> "read", entitled |-> FALSE, todo |-> {}]

LEMMA ReportsMove ==
    ASSUME JobsTyped, [Next]_vars
    PROVE  \/ reports' \subseteq reports
           \/ \E n \in Nodes : Send(n) /\ reports' = reports \cup {Sent(n)}
           \/ \E rep \in reports, r \in Report : ReportStep(rep, r) /\ reports' = (reports \ {rep}) \cup {r}
<1>1. CASE UNCHANGED vars
  BY <1>1 DEF vars
<1>2. ASSUME NEW d \in Devices, Happening(d) PROVE reports' = reports
  BY <1>2 DEF Happening, Subscribe, Lapse, Renew, Move, Revoke, Event
<1>3. ASSUME NEW c \in calls, Reconciling(c) \/ Redeliver(c) PROVE reports' = reports
  BY <1>3 DEF Reconciling, ReadEntitlement, Plan, InsertNext, Redeliver
<1>4. ASSUME NEW n \in Nodes, Working(n) \/ RunError(n) \/ AgentRestart(n)
      PROVE  reports' = reports \/ (Send(n) /\ reports' = reports \cup {Sent(n)})
  BY <1>4 DEF Working, Claim, Run, GiveUp, Send, RunError, AgentRestart, Sent
<1>5. ASSUME NEW i \in DOMAIN jobs, LeaseLapses(i) \/ Reap(i) PROVE reports' = reports
  BY <1>5 DEF LeaseLapses, Reap
<1>6. ASSUME NEW rep \in reports, WriteFailure(rep) \/ CloseJob(rep) \/ HandlerDies(rep) PROVE reports' \subseteq reports
  BY <1>6 DEF WriteFailure, CloseJob, HandlerDies
<1>7. ASSUME NEW rep \in reports, ReadJob(rep) \/ WriteResult(rep) \/ CheckCreated(rep) \/ TidyUp(rep) \/ DisableNext(rep)
      PROVE  reports' \subseteq reports \/ \E r \in Report : ReportStep(rep, r) /\ reports' = (reports \ {rep}) \cup {r}
  <2>1. CASE ReadJob(rep)
    BY <2>1, ReportsTyped DEF ReadJob, Step, ReportStep
  <2>2. CASE WriteResult(rep)
    <3>1. \/ reports' = Step(rep, "gate") /\ jobs[rep.job].order.type = "CREATE_USER"
          \/ reports' = Step(rep, "close") /\ jobs[rep.job].order.type # "CREATE_USER"
      BY <2>2, ResultWritten
    <3>2. QED
      BY <2>2, <3>1, ReportsTyped DEF Step, ReportStep
  <2>3. CASE CheckCreated(rep)
    <3>1. jobs[rep.job].order \in Order
      BY ReportsTyped
    <3>2. PICK d \in Devices : d = jobs[rep.job].order.device
      BY <3>1 DEF Order
    <3>3. Entitled(d) \in BOOLEAN
      <4>1. paid[d] \in BOOLEAN
        BY DEF JobsTyped, TypeOK
      <4>2. QED
        BY <4>1 DEF Entitled
    <3>4. QED
      BY <2>3, <3>2, <3>3, ReportsTyped DEF CheckCreated, ReportStep
  <2>4. CASE TidyUp(rep)
    <3>1. Leftovers(rep) \in SUBSET Order
      BY LeftoversTyped
    <3>2. CASE Leftovers(rep) = {}
      BY <2>4, <3>2, ReportsTyped DEF TidyUp, ReportStep
    <3>3. CASE Leftovers(rep) # {}
      <4>1. PICK r \in Report : r = [rep EXCEPT !.step = "disable", !.todo = Leftovers(rep)]
        BY <3>1, ReportsTyped
      <4>2. reports' = (reports \ {rep}) \cup {r} /\ ReportStep(rep, r)
        BY <2>4, <3>3, <4>1 DEF TidyUp, ReportStep
      <4>3. QED
        BY <4>2
    <3>4. QED
      BY <3>2, <3>3
  <2>5. CASE DisableNext(rep)
    <3>1. PICK order \in rep.todo :
            /\ jobs' = Insert(jobs, order)
            /\ reports' = (reports \ {rep}) \cup
                 {[rep EXCEPT !.step = IF rep.todo = {order} THEN "close" ELSE "disable", !.todo = @ \ {order}]}
      BY <2>5 DEF DisableNext
    <3>2. rep.todo \in SUBSET Order
      BY ReportsTyped DEF Report
    <3>3. PICK s \in {"disable", "close"}, l \in SUBSET Order :
            s = (IF rep.todo = {order} THEN "close" ELSE "disable") /\ l = rep.todo \ {order}
      BY <3>2
    <3>4. PICK r \in Report : r = [rep EXCEPT !.step = s, !.todo = l]
      BY ReportsTyped
    <3>5. r = [rep EXCEPT !.step = IF rep.todo = {order} THEN "close" ELSE "disable", !.todo = @ \ {order}]
      BY <3>3, <3>4
    <3>6. ReportStep(rep, r)
      BY <2>5, <3>1, <3>5 DEF ReportStep
    <3>7. QED
      BY <3>1, <3>5, <3>6
  <2>6. QED
    BY <1>7, <2>1, <2>2, <2>3, <2>4, <2>5
<1>8. QED
  BY <1>1, <1>2, <1>3, <1>4, <1>5, <1>6, <1>7 DEF Next, Handling

LEMMA SentTyped ==
    ASSUME JobsTyped, NEW n \in Nodes, agent[n].job # 0
    PROVE  Sent(n) \in Report
<1>1. agent[n] \in Work
  BY DEF JobsTyped, TypeOK
<1>2. agent[n].job \in JobIds /\ agent[n].token \in Nat
  BY <1>1 DEF Work, JobIds
<1>3. QED
  BY <1>2 DEF Sent, Report

\* A step of a report keeps its job.
LEMMA SameJob ==
    ASSUME JobsTyped, NEW rep \in reports, NEW r, ReportStep(rep, r)
    PROVE  r.job = rep.job /\ r.node = rep.node /\ r.kind = rep.kind /\ r.token = rep.token
<1>1. rep \in Report
  BY ReportsTyped
<1>2. QED
  BY <1>1 DEF ReportStep, Report

LEMMA ReportsFollow ==
    ASSUME JobsTyped, [Next]_vars
    PROVE  reports' \subseteq Report /\ \A rep \in reports' : rep.job \in DOMAIN jobs
<1>1. reports \subseteq Report /\ \A rep \in reports : rep.job \in DOMAIN jobs
  BY DEF JobsTyped, TypeOK
<1>2. ASSUME NEW n \in Nodes, Send(n) PROVE Sent(n) \in Report /\ Sent(n).job \in DOMAIN jobs
  <2>1. agent[n].ran # "no"
    BY <1>2 DEF Send
  <2>2. agent[n].job # 0 /\ agent[n].job \in DOMAIN jobs
    BY <2>1, AgentNow
  <2>3. QED
    BY <2>2, SentTyped DEF Sent
<1>3. QED
  BY <1>1, <1>2, ReportsMove, SameJob

LEMMA JobsTypedNext ==
    ASSUME JobsTyped, [Next]_vars
    PROVE  JobsTyped'
<1>1. jobs' \in Seq(Job) /\ Len(jobs') <= MaxJobs /\ DOMAIN jobs \subseteq DOMAIN jobs'
  BY JobsGrow
<1>2. TypeOK'
  BY <1>1, RestTyped, AccountsTyped, CallsStep, AgentsTyped, UsersStep, ReportsFollow DEF TypeOK
<1>3. \A n \in Nodes : (agent'[n].job = 0 \/ agent'[n].job \in DOMAIN jobs') /\ (agent'[n].job = 0 => agent'[n].ran = "no")
  <2>1. \A n \in Nodes : (agent'[n].job = 0 \/ agent'[n].job \in DOMAIN jobs) /\ (agent'[n].job = 0 => agent'[n].ran = "no")
    BY AgentsTyped
  <2>2. QED
    BY <1>1, <2>1
<1>4. \A rep \in reports' : rep.job \in DOMAIN jobs'
  BY <1>1, ReportsFollow
<1>5. \A c \in calls' : c.step = "insert" <=> c.todo # << >>
  BY CallsStep
<1>6. QED
  BY <1>2, <1>3, <1>4, <1>5 DEF JobsTyped

LEMMA StartRow ==
    ASSUME NEW d \in Devices, NEW n \in Nodes
    PROVE  /\ Created(d, n) \in Job /\ Created(d, n).status = "done" /\ Created(d, n).order.type = "CREATE_USER"
           /\ Created(d, n).order.device = d /\ Created(d, n).order.node = n
           /\ Created(d, n).order.key.what = "create"
           /\ Created(d, n).order.key.device = d /\ Created(d, n).order.key.node = n
<1> DEFINE o == [type |-> "CREATE_USER", device |-> d, node |-> n, user |-> 0,
                 key |-> [event |-> 0, what |-> "create", device |-> d, node |-> n, other |-> n]]
<1>1. o \in Order
  BY Parameters DEF Order, Key, JobType
<1>2. PICK order \in Order : order = o
  BY <1>1
<1>3. PICK row \in Job : row = NewJob(order) /\ row.order = order
  BY NewJobs
<1>4. PICK new \in Job : new = [row EXCEPT !.status = "done", !.claims = 1]
  BY DEF Job
<1>5. new.order = order /\ new.status = "done"
  BY <1>3, <1>4 DEF Job
<1>6. Created(d, n) = new
  BY <1>2, <1>3, <1>4 DEF Created
<1>7. QED
  BY <1>2, <1>5, <1>6

LEMMA JobsStart ==
    ASSUME Init
    PROVE  \/ jobs = << >>
           \/ \E d \in Devices, n \in Nodes : jobs = <<Created(d, n)>> /\ Len(jobs) = 1 /\ DOMAIN jobs = {1} /\ jobs[1] = Created(d, n)
BY DEF Init, Starts

LEMMA JobsTypedInit ==
    ASSUME Init
    PROVE  JobsTyped
<1>1. jobs \in Seq(Job) /\ Len(jobs) <= MaxJobs
  <2>1. CASE jobs = << >>
    BY <2>1, Parameters
  <2>2. ASSUME NEW d \in Devices, NEW n \in Nodes, jobs = <<Created(d, n)>>, Len(jobs) = 1
        PROVE  jobs \in Seq(Job) /\ Len(jobs) <= MaxJobs
    BY <2>2, StartRow, Parameters
  <2>3. QED
    BY <2>1, <2>2, JobsStart
<1>2. accounts \in [Devices -> [Nodes -> Account]]
  <2>1. 0 \in 0..MaxJobs /\ 1 \in 0..MaxJobs
    BY Parameters
  <2>2. [state |-> "enabled", user |-> 1] \in Account /\ NoAccount \in Account
    BY <2>1 DEF Account, NoAccount
  <2>3. QED
    BY <2>2 DEF Init
<1>3. agent \in [Nodes -> Work] /\ \A n \in Nodes : agent[n].job = 0 /\ agent[n].ran = "no"
  BY Parameters DEF Init, Idle, Work
<1>4. users \in [JobIds -> {"none", "on", "off"}]
  BY DEF Init
<1>5. 0 \in 0..MaxEvents /\ 0 \in 0..MaxFaults
  BY Parameters
<1>6. QED
  BY <1>1, <1>2, <1>3, <1>4, <1>5 DEF Init, JobsTyped, TypeOK

\* The state has its type: no handler, agent or tick writes anything else.
THEOREM JobsTypeCorrect == Spec => []TypeOK
<1>1. JobsTyped => TypeOK
  BY DEF JobsTyped
<1>2. QED
  BY <1>1, JobsTypedInit, JobsTypedNext, PTL DEF Spec

-----------------------------------------------------------------------------
(* What holds of the orders, the rows and the reports *)

\* What the idempotency key of an order says of it, so that an order that meets its key in the
\* queue finds a job of its own kind there; ...
WellKeyed(o) ==
    /\ o.key.device = o.device /\ o.key.node = o.node
    /\ o.type = "CREATE_USER" <=> o.key.what = "create"
    /\ o.type = "ENABLE_USER" <=> o.key.what = "enable"
\* ... and what is disabled because its device moved has somewhere to go.
MovedTo(o) == o.key.what = "moved" => \E n \in Nodes \ {o.node} : accounts[o.device][n].state # "none"
OrderFits(o) == WellKeyed(o) /\ MovedTo(o)
OrdersFit ==
    /\ \A i \in DOMAIN jobs : OrderFits(jobs[i].order)
    /\ \A c \in calls : \A j \in DOMAIN c.todo : OrderFits(c.todo[j]) /\ c.todo[j].device = c.device
    /\ \A rep \in reports : \A o \in rep.todo : OrderFits(o)

\* What a job that is done, or a report that has been written, has brought about for good.
Stored(d, n) == accounts[d][n].state # "none" /\ accounts[d][n].user # 0
Off(d, n) == Enables(d, n) = {} => accounts[d][n].state = "disabled"
Written(i) ==
    /\ jobs[i].order.type = "CREATE_USER" => users[i] # "none" /\ Stored(jobs[i].order.device, jobs[i].order.node)
    /\ jobs[i].order.type = "DISABLE_USER" => Off(jobs[i].order.device, jobs[i].order.node)
DoneFits == \A i \in DOMAIN jobs : jobs[i].status = "done" => Written(i)

\* What is on its way to disable the identity of d on n: a job, or a call that will queue one.
Disables(d, n) == OfType("DISABLE_USER", JobsOf(d, n))
Coming(c, n) ==
    \/ c.step = "gate"
    \/ c.step = "plan" /\ ~c.entitled
    \/ \E j \in DOMAIN c.todo : c.todo[j].type = "DISABLE_USER" /\ c.todo[j].node = n
Disabling(d, n) == Disables(d, n) # {} \/ \E c \in calls : c.device = d /\ Coming(c, n)
\* An identity that is left to a revoked device.
Exposed(d, n) == status[d] = "REVOKED" /\ accounts[d][n].state = "enabled" /\ Enables(d, n) = {}
Covered(d, n) == Exposed(d, n) => Disabling(d, n)
RemedyComes ==
    \A d \in Devices, n \in Nodes :
        Exposed(d, n) => Disabling(d, n) \/ \E i \in Creates(d, n) : jobs[i].status # "done"

-----------------------------------------------------------------------------
(* What stays *)

\* What a write makes of one identity.
LEMMA ResultRow ==
    ASSUME JobsTyped, NEW rep \in reports, WriteResult(rep), NEW d \in Devices, NEW n \in Nodes
    PROVE  \E row \in Account :
             /\ accounts'[d][n] = row /\ UNCHANGED jobs
             /\ \/ row = accounts[d][n]
                \/ /\ jobs[rep.job].order.device = d /\ jobs[rep.job].order.node = n
                   /\ \/ jobs[rep.job].order.type = "CREATE_USER" /\ row = Upserted(accounts[d][n], rep.job)
                      \/ jobs[rep.job].order.type = "ENABLE_USER" /\ row = [accounts[d][n] EXCEPT !.state = "enabled"]
                      \/ jobs[rep.job].order.type = "DISABLE_USER" /\ row = [accounts[d][n] EXCEPT !.state = "disabled"]
<1>1. PICK o \in Order :
             /\ o = jobs[rep.job].order /\ rep.step = "write" /\ rep.kind = "complete"
             /\ UNCHANGED <<status, jobs, calls, agent, users>>
             /\ \E row \in Account :
                   /\ \A e \in Devices, m \in Nodes :
                         accounts'[e][m] = IF e = o.device /\ m = o.node THEN row ELSE accounts[e][m]
                   /\ accounts' \in [Devices -> [Nodes -> Account]]
                   /\ \/ /\ o.type = "CREATE_USER" /\ row = Upserted(accounts[o.device][o.node], rep.job)
                         /\ reports' = Step(rep, "gate")
                      \/ /\ o.type = "ENABLE_USER" /\ row = [accounts[o.device][o.node] EXCEPT !.state = "enabled"]
                         /\ reports' = Step(rep, "close")
                      \/ /\ o.type = "DISABLE_USER" /\ row = [accounts[o.device][o.node] EXCEPT !.state = "disabled"]
                         /\ reports' = Step(rep, "close")
  BY ResultWritten, Zenon
<1>2. PICK row \in Account :
         /\ accounts'[d][n] = IF d = o.device /\ n = o.node THEN row ELSE accounts[d][n]
         /\ \/ o.type = "CREATE_USER" /\ row = Upserted(accounts[o.device][o.node], rep.job)
            \/ o.type = "ENABLE_USER" /\ row = [accounts[o.device][o.node] EXCEPT !.state = "enabled"]
            \/ o.type = "DISABLE_USER" /\ row = [accounts[o.device][o.node] EXCEPT !.state = "disabled"]
  BY <1>1
<1>3. accounts[d][n] \in Account
  BY DEF JobsTyped, TypeOK
<1>4. CASE d = o.device /\ n = o.node
  BY <1>1, <1>2, <1>4
<1>5. CASE ~(d = o.device /\ n = o.node)
  BY <1>1, <1>2, <1>3, <1>5
<1>6. QED
  BY <1>4, <1>5

LEMMA JobSetsGrow ==
    ASSUME JobsTyped, [Next]_vars, NEW d \in Devices, NEW n \in Nodes
    PROVE  Creates(d, n) \subseteq Creates(d, n)' /\ Enables(d, n) \subseteq Enables(d, n)' /\ Disables(d, n) \subseteq Disables(d, n)'
<1>1. DOMAIN jobs \subseteq DOMAIN jobs' /\ \A i \in DOMAIN jobs : jobs'[i].order = jobs[i].order
  BY JobsGrow
<1>2. QED
  BY <1>1 DEF Creates, Enables, Disables, OfType, JobsOf

LEMMA OrderParts ==
    ASSUME JobsTyped, NEW i \in DOMAIN jobs
    PROVE  /\ jobs[i] \in Job /\ jobs[i].order \in Order
           /\ jobs[i].order.device \in Devices /\ jobs[i].order.node \in Nodes /\ jobs[i].order.type \in JobType
           /\ i \in JobIds /\ i # 0
<1>1. jobs \in Seq(Job) /\ Len(jobs) <= MaxJobs /\ Len(jobs) \in Nat /\ MaxJobs \in Nat
  BY Parameters DEF JobsTyped, TypeOK
<1>2. jobs[i] \in Job /\ i \in 1..Len(jobs)
  BY <1>1
<1>3. jobs[i].order \in Order
  BY <1>2 DEF Job
<1>4. QED
  BY <1>1, <1>2, <1>3 DEF Order, JobIds

\* An identity that was stored stays stored.
LEMMA StoredStays ==
    ASSUME JobsTyped, [Next]_vars, NEW d \in Devices, NEW n \in Nodes
    PROVE  /\ accounts[d][n].state # "none" => accounts'[d][n].state # "none"
           /\ accounts[d][n].user # 0 => accounts'[d][n].user # 0
<1>1. ASSUME NEW rep \in reports, WriteResult(rep)
      PROVE  /\ accounts[d][n].state # "none" => accounts'[d][n].state # "none"
             /\ accounts[d][n].user # 0 => accounts'[d][n].user # 0
  <2>1. PICK a \in Account : a = accounts[d][n]
    BY DEF JobsTyped, TypeOK
  <2>2. PICK row \in Account :
          /\ accounts'[d][n] = row
          /\ \/ row = a
             \/ row = Upserted(a, rep.job)
             \/ row = [a EXCEPT !.state = "enabled"]
             \/ row = [a EXCEPT !.state = "disabled"]
    BY <1>1, <2>1, ResultRow
  <2>3. rep.job # 0
    BY ReportsTyped, OrderParts
  <2>4. (a.state # "none" => row.state # "none") /\ (a.user # 0 => row.user # 0)
    BY <2>2, <2>3 DEF Upserted, Account
  <2>5. QED
    BY <2>1, <2>2, <2>4
<1>2. QED
  BY <1>1, AccountsMove

\* How the state of an identity moves that no ENABLE_USER job is for.
LEMMA StateMoves ==
    ASSUME JobsTyped, [Next]_vars, NEW d \in Devices, NEW n \in Nodes, Enables(d, n)' = {}
    PROVE  /\ Enables(d, n) = {}
           /\ \/ accounts'[d][n].state = accounts[d][n].state
              \/ accounts'[d][n].state = "disabled"
              \/ /\ accounts[d][n].state = "none"
                 /\ \E rep \in reports : rep.job \in Creates(d, n) /\ UNCHANGED jobs
<1>1. Enables(d, n) = {}
  BY JobSetsGrow
<1>2. ASSUME NEW rep \in reports, WriteResult(rep)
      PROVE  \/ accounts'[d][n].state = accounts[d][n].state
             \/ accounts'[d][n].state = "disabled"
             \/ accounts[d][n].state = "none" /\ rep.job \in Creates(d, n) /\ UNCHANGED jobs
  <2>1. PICK a \in Account : a = accounts[d][n]
    BY DEF JobsTyped, TypeOK
  <2>2. PICK row \in Account :
          /\ accounts'[d][n] = row /\ UNCHANGED jobs
          /\ \/ row = a
             \/ /\ jobs[rep.job].order.device = d /\ jobs[rep.job].order.node = n
                /\ \/ jobs[rep.job].order.type = "CREATE_USER" /\ row = Upserted(a, rep.job)
                   \/ jobs[rep.job].order.type = "ENABLE_USER"
                   \/ row = [a EXCEPT !.state = "disabled"]
    BY <1>2, <2>1, ResultRow
  <2>3. rep.job \in DOMAIN jobs
    BY ReportsTyped
  <2>4. CASE row = a
    BY <2>1, <2>2, <2>4
  <2>5. CASE jobs[rep.job].order.device = d /\ jobs[rep.job].order.node = n
    <3>1. rep.job \in JobsOf(d, n)
      BY <2>3, <2>5 DEF JobsOf
    <3>2. jobs[rep.job].order.type # "ENABLE_USER"
      BY <1>1, <3>1 DEF Enables, OfType
    <3>3. CASE jobs[rep.job].order.type = "CREATE_USER" /\ row = Upserted(a, rep.job)
      <4>1. row.state = a.state \/ a.state = "none"
        BY <3>3 DEF Upserted
      <4>2. rep.job \in Creates(d, n)
        BY <3>1, <3>3 DEF Creates, OfType
      <4>3. QED
        BY <2>1, <2>2, <4>1, <4>2
    <3>4. CASE row = [a EXCEPT !.state = "disabled"]
      <4>1. row.state = "disabled"
        BY <3>4 DEF Account
      <4>2. QED
        BY <2>2, <4>1
    <3>5. CASE row = a
      BY <2>4, <3>5
    <3>6. QED
      BY <2>2, <3>2, <3>3, <3>4, <3>5
  <2>6. QED
    BY <2>2, <2>4, <2>5
<1>3. QED
  BY <1>1, <1>2, AccountsMove

\* What a completed job brought about stays.
LEMMA WrittenStays ==
    ASSUME JobsTyped, [Next]_vars, NEW i \in DOMAIN jobs, Written(i)
    PROVE  Written(i)'
<1>1. PICK d \in Devices, n \in Nodes : d = jobs[i].order.device /\ n = jobs[i].order.node
  BY OrderParts
<1>2. jobs'[i].order = jobs[i].order
  BY JobsGrow
<1>3. Stored(d, n) => Stored(d, n)'
  BY StoredStays DEF Stored
<1>4. users[i] # "none" => users'[i] # "none"
  BY UsersStep
<1>5. ASSUME Off(d, n), Enables(d, n)' = {} PROVE accounts'[d][n].state = "disabled"
  BY <1>5, StateMoves DEF Off
<1>6. Off(d, n) => Off(d, n)'
  BY <1>5 DEF Off
<1>7. jobs[i].order.type = "CREATE_USER" => users'[i] # "none" /\ Stored(d, n)'
  BY <1>1, <1>3, <1>4 DEF Written
<1>8. jobs[i].order.type = "DISABLE_USER" => Off(d, n)'
  BY <1>1, <1>6 DEF Written
<1>9. QED
  BY <1>1, <1>2, <1>7, <1>8 DEF Written

\* An order to disable an identity, once inserted, is a DISABLE_USER job for it.
LEMMA DisableInserted ==
    ASSUME JobsTyped, OrdersFit, NEW d \in Devices, NEW n \in Nodes, NEW order \in Order, WellKeyed(order),
           order.type = "DISABLE_USER", order.device = d, order.node = n, jobs' = Insert(jobs, order)
    PROVE  Disables(d, n)' # {}
<1>1. jobs \in Seq(Job)
  BY DEF JobsTyped, TypeOK
<1>2. PICK q : q = jobs' /\ q = Insert(jobs, order)
  OBVIOUS
<1>3. /\ DOMAIN jobs \subseteq DOMAIN q /\ \A i \in DOMAIN jobs : q[i] = jobs[i]
      /\ Enqueued(jobs, order) \/ \E i \in DOMAIN q : q[i] = NewJob(order)
  BY <1>1, <1>2, InsertStep
<1>4. CASE Enqueued(jobs, order)
  <2>1. PICK i \in DOMAIN jobs : jobs[i].order.key = order.key
    BY <1>4 DEF Enqueued
  <2>2. WellKeyed(jobs[i].order) /\ jobs[i].order.type \in JobType
    BY OrderParts DEF OrdersFit, OrderFits
  <2>3. jobs[i].order.device = d /\ jobs[i].order.node = n
    BY <2>1, <2>2 DEF WellKeyed
  <2>4. jobs[i].order.type = "DISABLE_USER"
    BY <2>1, <2>2 DEF WellKeyed, JobType
  <2>5. i \in DOMAIN jobs' /\ jobs'[i] = jobs[i]
    BY <1>2, <1>3
  <2>6. QED
    BY <2>3, <2>4, <2>5 DEF Disables, OfType, JobsOf
<1>5. ASSUME NEW i \in DOMAIN q, q[i] = NewJob(order) PROVE Disables(d, n)' # {}
  <2>1. jobs'[i].order = order /\ i \in DOMAIN jobs'
    BY <1>2, <1>5, NewJobs
  <2>2. QED
    BY <2>1 DEF Disables, OfType, JobsOf
<1>6. QED
  BY <1>3, <1>4, <1>5

\* Calls that are not stepping stay.
LEMMA CallStays ==
    ASSUME [Next]_vars, NEW c \in calls, c \notin calls'
    PROVE  Reconciling(c) \/ Redeliver(c)
<1>1. ASSUME NEW d \in Devices, Event(d, "gate") \/ Event(d, "plan") PROVE calls \subseteq calls'
  BY <1>1 DEF Event
<1>2. ASSUME NEW b \in calls, Reconciling(b) \/ Redeliver(b) PROVE c # b => c \in calls'
  BY <1>2 DEF Reconciling, ReadEntitlement, Plan, InsertNext, Redeliver
<1>3. QED
  BY <1>1, <1>2, CallsMove

\* A revoked device's identity that is on its way to be disabled stays so.
LEMMA DisablingStays ==
    ASSUME JobsTyped, OrdersFit, [Next]_vars, NEW d \in Devices, NEW n \in Nodes,
           status[d] = "REVOKED", accounts[d][n].state = "enabled", Disabling(d, n)
    PROVE  Disabling(d, n)'
<1>1. CASE Disables(d, n) # {}
  BY <1>1, JobSetsGrow DEF Disabling
<1>2. ASSUME NEW c \in calls, c.device = d, Coming(c, n) PROVE Disabling(d, n)'
  <2>1. c \in Call /\ (c.step = "insert" <=> c.todo # << >>)
    BY CallsTyped DEF JobsTyped
  <2>2. ASSUME NEW e \in calls', e.device = d, Coming(e, n) PROVE Disabling(d, n)'
    BY <2>2 DEF Disabling, Coming
  <2>3. CASE c \in calls'
    BY <1>2, <2>2, <2>3
  <2>4. CASE ReadEntitlement(c)
    <3>1. ~Entitled(d)
      BY DEF Entitled
    <3>2. PICK e \in Call : e = [c EXCEPT !.step = "plan", !.entitled = Entitled(c.device)]
      <4>1. Entitled(c.device) = FALSE
        BY <1>2, <3>1
      <4>2. QED
        BY <4>1, CallsTyped
    <3>3. e \in calls' /\ e.step = "plan" /\ ~e.entitled /\ e.device = d
      BY <1>2, <2>1, <2>4, <3>1, <3>2 DEF ReadEntitlement, Call
    <3>4. QED
      BY <2>2, <3>3 DEF Coming
  <2>5. CASE Redeliver(c)
    <3>1. PICK e \in Call : e = [c EXCEPT !.step = "gate", !.entitled = FALSE, !.todo = << >>]
      BY CallsTyped
    <3>2. e \in calls' /\ e.step = "gate" /\ e.device = d
      BY <1>2, <2>1, <2>5, <3>1 DEF Redeliver, Call
    <3>3. QED
      BY <2>2, <3>2 DEF Coming
  <2>6. CASE Plan(c)
    <3>1. c.step = "plan" /\ c.todo = << >>
      BY <2>1, <2>6 DEF Plan
    <3>2. ~c.entitled
      <4>1. DOMAIN c.todo = {}
        BY <3>1
      <4>2. QED
        BY <1>2, <3>1, <4>1 DEF Coming
    <3>3. PICK todo \in SetToSeqs(DisableAll(c)) :
            calls' = (calls \ {c}) \cup (IF todo = << >> THEN {} ELSE {[c EXCEPT !.step = "insert", !.todo = todo]})
      BY <2>6, <3>2 DEF Plan, Wanted
    <3>4. n \in Enabled(d)
      BY DEF Enabled
    <3>5. PICK o \in DisableAll(c) : o.type = "DISABLE_USER" /\ o.node = n
      <4>1. PICK o : o = Disable(c.device, n, c.event, "disable", n)
        OBVIOUS
      <4>2. o \in DisableAll(c)
        BY <1>2, <3>4, <4>1 DEF DisableAll
      <4>3. o.type = "DISABLE_USER" /\ o.node = n
        BY <4>1 DEF Disable
      <4>4. QED
        BY <4>2, <4>3
    <3>6. IsFiniteSet(DisableAll(c))
      BY <2>1, DisablesFinite DEF JobsTyped
    <3>7. PICK j \in DOMAIN todo : todo[j] = o
      BY <3>3, <3>5, <3>6, AllListed
    <3>8. DisableAll(c) \subseteq Order /\ todo \in Seq(DisableAll(c))
      BY <2>1, <3>3, <3>6, AllListed, OrdersTyped DEF JobsTyped
    <3>9. PICK e \in Call : e = [c EXCEPT !.step = "insert", !.todo = todo]
      <4>1. todo \in Seq(Order)
        BY <3>8
      <4>2. QED
        BY <4>1, CallsTyped
    <3>10. todo # << >>
      BY <3>7
    <3>11. e \in calls' /\ e.device = d /\ e.todo = todo
      BY <1>2, <2>1, <3>3, <3>9, <3>10 DEF Call
    <3>12. QED
      BY <2>2, <3>5, <3>7, <3>11 DEF Coming
  <2>7. CASE InsertNext(c)
    <3>1. c.step = "insert" /\ c.todo # << >>
      BY <2>1, <2>7 DEF InsertNext
    <3>2. c.todo \in Seq(Order)
      BY <2>1 DEF Call
    <3>3. PICK j \in DOMAIN c.todo : c.todo[j].type = "DISABLE_USER" /\ c.todo[j].node = n
      BY <1>2, <3>1 DEF Coming
    <3>4. Len(c.todo) \in Nat \ {0} /\ j \in 1..Len(c.todo)
      BY <3>1, <3>2, EmptySeq
    <3>5. CASE j = 1
      <4>1. PICK o \in Order : o = c.todo[1]
        BY <3>2, <3>4
      <4>2. Head(c.todo) = o
        BY <3>2, <3>4, <4>1
      <4>3. WellKeyed(o)
        BY <3>3, <3>5, <4>1 DEF OrdersFit, OrderFits
      <4>4. o.device = d
        BY <1>2, <3>3, <3>5, <4>1 DEF OrdersFit
      <4>5. jobs' = Insert(jobs, o)
        BY <2>7, <4>2 DEF InsertNext
      <4>6. QED
        BY <3>3, <3>5, <4>1, <4>3, <4>4, <4>5, DisableInserted DEF Disabling
    <3>6. CASE j # 1
      <4>1. PICK l \in Seq(Order) : l = Tail(c.todo)
        BY <3>1, <3>2, HeadTailProperties
      <4>2. PICK e \in Call : e = [c EXCEPT !.todo = l]
        BY <4>1, CallsTyped
      <4>3. Len(c.todo) # 1
        BY <3>4, <3>6
      <4>4. e \in calls' /\ e.device = d /\ e.todo = l
        BY <1>2, <2>1, <2>7, <4>1, <4>2, <4>3 DEF InsertNext, Call
      <4>5. Len(l) = Len(c.todo) - 1 /\ \A i \in 1..Len(l) : l[i] = c.todo[i + 1]
        BY <3>1, <3>2, <4>1, HeadTailProperties
      <4>6. j - 1 \in DOMAIN l /\ l[j - 1] = c.todo[j]
        BY <3>4, <3>6, <4>1, <4>5
      <4>7. QED
        BY <2>2, <3>3, <4>4, <4>6 DEF Coming
    <3>7. QED
      BY <3>5, <3>6
  <2>8. QED
    BY <2>3, <2>4, <2>5, <2>6, <2>7, CallStays DEF Reconciling
<1>3. QED
  BY <1>1, <1>2 DEF Disabling

\* A revocation leaves a reconcile that asks nobody.
LEMMA Revoked ==
    ASSUME JobsTyped, [Next]_vars, NEW d \in Devices, status[d] # "REVOKED", status'[d] = "REVOKED", NEW n \in Nodes
    PROVE  Disabling(d, n)'
<1>1. PICK b \in Devices : Revoke(b)
  BY StatusMove
<1>2. b = d
  BY <1>1 DEF Revoke, JobsTyped, TypeOK
<1>3. PICK c : c = [event |-> events + 1, device |-> d, step |-> "plan", entitled |-> FALSE, todo |-> << >>]
  OBVIOUS
<1>4. c \in calls' /\ c.step = "plan" /\ ~c.entitled /\ c.device = d
  BY <1>1, <1>2, <1>3 DEF Revoke, Event
<1>5. QED
  BY <1>4 DEF Disabling, Coming

LEMMA CoveredStays ==
    ASSUME JobsTyped, OrdersFit, [Next]_vars, NEW d \in Devices, NEW n \in Nodes,
           accounts[d][n].state # "none", Covered(d, n)
    PROVE  Covered(d, n)'
<1>1. SUFFICES ASSUME Exposed(d, n)' PROVE Disabling(d, n)'
  BY DEF Covered
<1>2. status'[d] = "REVOKED" /\ accounts'[d][n].state = "enabled" /\ Enables(d, n)' = {}
  BY <1>1 DEF Exposed
<1>3. accounts[d][n].state = "enabled" /\ Enables(d, n) = {}
  BY <1>2, StateMoves
<1>4. CASE status[d] = "REVOKED"
  BY <1>3, <1>4, DisablingStays DEF Covered, Exposed
<1>5. CASE status[d] # "REVOKED"
  BY <1>2, <1>5, Revoked
<1>6. QED
  BY <1>4, <1>5

\* What becomes of a job's row.
LEMMA RowMoves ==
    ASSUME JobsTyped, [Next]_vars, NEW i \in DOMAIN jobs
    PROVE  \/ jobs'[i] = jobs[i]
           \/ jobs[i].status = "pending" /\ jobs'[i].status = "claimed"
           \/ \E rep \in reports : rep.job = i /\ WriteFailure(rep) /\ jobs'[i].status = "failed"
           \/ \E rep \in reports : rep.job = i /\ CloseJob(rep) /\ jobs'[i].status = "done"
           \/ LeaseLapses(i) /\ jobs'[i].status = "claimed"
           \/ jobs[i].status = "claimed" /\ jobs[i].lapsed /\ jobs'[i].status \in {"failed", "pending"}
<1>1. jobs \in Seq(Job) /\ jobs[i] \in Job
  BY DEF JobsTyped, TypeOK
<1>2. PICK row \in Job : row = jobs[i]
  BY <1>1
<1>3. ASSUME NEW order \in Order, Added(order) PROVE jobs'[i] = jobs[i]
  <2>1. PICK q : q = jobs' /\ q = Insert(jobs, order)
    BY <1>3 DEF Added
  <2>2. QED
    BY <1>1, <2>1, InsertStep
<1>4. ASSUME NEW n \in Nodes, Claim(n)
      PROVE  jobs'[i] = jobs[i] \/ (jobs[i].status = "pending" /\ jobs'[i].status = "claimed")
  <2>1. PICK k \in DOMAIN jobs :
           /\ jobs[k].status = "pending"
           /\ jobs' = [jobs EXCEPT ![k].status = "claimed", ![k].claims = @ + 1,
                                   ![k].token = jobs[k].claims + 1, ![k].lapsed = FALSE]
    BY <1>4 DEF Claim, Oldest
  <2>2. CASE k # i
    BY <1>1, <2>1, <2>2
  <2>3. CASE k = i
    <3>1. jobs'[i] = [row EXCEPT !.status = "claimed", !.claims = @ + 1, !.token = row.claims + 1, !.lapsed = FALSE]
      BY <1>2, <2>1, <2>3
    <3>2. jobs'[i].status = "claimed"
      BY <3>1 DEF Job
    <3>3. QED
      BY <2>1, <2>3, <3>2
  <2>4. QED
    BY <2>2, <2>3
<1>5. ASSUME NEW rep \in reports, NEW s \in {"done", "failed"}, jobs' = Closed(rep.job, s)
      PROVE  IF rep.job = i THEN jobs'[i].status = s ELSE jobs'[i] = jobs[i]
  <2>1. CASE rep.job # i
    BY <1>1, <1>5, <2>1 DEF Closed
  <2>2. CASE rep.job = i
    <3>1. jobs'[i] = [row EXCEPT !.status = s, !.token = 0, !.lapsed = FALSE]
      BY <1>2, <1>5, <2>2 DEF Closed
    <3>2. jobs'[i].status = s
      BY <3>1 DEF Job
    <3>3. QED
      BY <2>2, <3>2
  <2>3. QED
    BY <2>1, <2>2
<1>6. ASSUME NEW k \in DOMAIN jobs, LeaseLapses(k) PROVE jobs'[i] = jobs[i] \/ (k = i /\ jobs'[i].status = "claimed")
  <2>1. jobs[k].status = "claimed" /\ jobs' = [jobs EXCEPT ![k].lapsed = TRUE]
    BY <1>6 DEF LeaseLapses
  <2>2. CASE k = i
    <3>1. jobs'[i] = [row EXCEPT !.lapsed = TRUE] /\ row.status = "claimed"
      BY <1>2, <2>1, <2>2
    <3>2. jobs'[i].status = "claimed"
      BY <3>1 DEF Job
    <3>3. QED
      BY <2>2, <3>2
  <2>3. CASE k # i
    BY <2>1, <2>3
  <2>4. QED
    BY <2>2, <2>3
<1>7. ASSUME NEW k \in DOMAIN jobs, Reap(k)
      PROVE  \/ jobs'[i] = jobs[i]
             \/ jobs[i].status = "claimed" /\ jobs[i].lapsed /\ jobs'[i].status \in {"failed", "pending"}
  <2>1. PICK s \in {"failed", "pending"} : s = IF jobs[k].attempts + 1 >= MaxAttempts THEN "failed" ELSE "pending"
    OBVIOUS
  <2>2. /\ jobs[k].status = "claimed" /\ jobs[k].lapsed
        /\ jobs' = [jobs EXCEPT ![k].status = s, ![k].attempts = @ + 1, ![k].token = 0, ![k].lapsed = FALSE]
    BY <1>7, <2>1 DEF Reap
  <2>3. CASE k = i
    <3>1. jobs'[i] = [row EXCEPT !.status = s, !.attempts = @ + 1, !.token = 0, !.lapsed = FALSE]
      BY <1>2, <2>2, <2>3
    <3>2. jobs'[i].status = s
      BY <3>1 DEF Job
    <3>3. QED
      BY <2>2, <2>3, <3>2
  <2>4. CASE k # i
    BY <2>2, <2>4
  <2>5. QED
    BY <2>3, <2>4
<1>8. CASE UNCHANGED jobs
  BY <1>8
<1>9. ASSUME NEW rep \in reports, WriteFailure(rep) PROVE jobs'[i] = jobs[i] \/ (rep.job = i /\ jobs'[i].status = "failed")
  BY <1>5, <1>9 DEF WriteFailure
<1>10. ASSUME NEW rep \in reports, CloseJob(rep) PROVE jobs'[i] = jobs[i] \/ (rep.job = i /\ jobs'[i].status = "done")
  BY <1>5, <1>10 DEF CloseJob
<1>11. QED
  BY <1>3, <1>4, <1>6, <1>7, <1>8, <1>9, <1>10, JobsMoveBy

\* Only the last step of a report completes a job.
LEMMA Completed ==
    ASSUME JobsTyped, [Next]_vars, NEW i \in DOMAIN jobs', jobs'[i].status = "done"
    PROVE  i \in DOMAIN jobs /\ (jobs[i].status = "done" \/ \E rep \in reports : rep.step = "close" /\ rep.job = i)
<1>1. i \in DOMAIN jobs
  BY JobsGrow, NewJobs
<1>2. QED
  BY <1>1, RowMoves DEF CloseJob

-----------------------------------------------------------------------------
(* The inductive invariant *)

OrderOf(rep) == jobs[rep.job].order
\* A CREATE_USER job that an agent ran has its user.
WorkFits(n) ==
    agent[n].job # 0 =>
        /\ jobs[agent[n].job].order.node = n
        /\ (agent[n].ran = "ok" /\ jobs[agent[n].job].order.type = "CREATE_USER") => users[agent[n].job] # "none"
\* The order that disables the identity which the order o created.
Own(o, l) == l.type = "DISABLE_USER" /\ l.device = o.device /\ l.node = o.node
\* What a report has established at each of its steps.  From the moment finalizeCreatedIdentity has
\* found the device entitled, a revocation brings its own call; when it has not, the report holds the
\* order that disables the new identity until it is queued.
ReportFits(rep) ==
    /\ OrderOf(rep).node = rep.node
    /\ (rep.kind = "complete" /\ OrderOf(rep).type = "CREATE_USER") => users[rep.job] # "none"
    /\ rep.step \in {"gate", "tidy", "disable", "close"} => Written(rep.job)
    /\ rep.step \in {"gate", "tidy", "disable"} => OrderOf(rep).type = "CREATE_USER"
    /\ (rep.step = "tidy" /\ rep.entitled) => Covered(OrderOf(rep).device, OrderOf(rep).node)
    /\ rep.step = "disable" => \/ \E l \in rep.todo : Own(OrderOf(rep), l)
                               \/ Covered(OrderOf(rep).device, OrderOf(rep).node)
    /\ (rep.step = "close" /\ OrderOf(rep).type = "CREATE_USER") => Covered(OrderOf(rep).device, OrderOf(rep).node)
    /\ rep.step # "disable" => rep.todo = {}
JobsInv ==
    /\ JobsTyped /\ OrdersFit /\ DoneFits /\ RemedyComes
    /\ \A n \in Nodes : WorkFits(n)
    /\ \A rep \in reports : ReportFits(rep)

\* A remedy is replaced by the next one: an undone CREATE_USER job by the call of the revocation or by
\* the order its report queues, and a call by the jobs that it lists.
LEMMA RemedyStays ==
    ASSUME JobsInv, [Next]_vars
    PROVE  RemedyComes'
<1>1. SUFFICES ASSUME NEW d \in Devices, NEW n \in Nodes, Exposed(d, n)'
               PROVE  Disabling(d, n)' \/ \E i \in Creates(d, n)' : jobs'[i].status # "done"
  BY DEF RemedyComes
<1>2. status'[d] = "REVOKED" /\ accounts'[d][n].state = "enabled" /\ Enables(d, n)' = {}
  BY <1>1 DEF Exposed
<1>3. JobsTyped /\ OrdersFit
  BY DEF JobsInv
<1>4. CASE accounts[d][n].state = "enabled" /\ status[d] = "REVOKED"
  <2>1. Exposed(d, n)
    BY <1>2, <1>3, <1>4, StateMoves DEF Exposed
  <2>2. Disabling(d, n) => Disabling(d, n)'
    BY <1>3, <1>4, DisablingStays
  <2>3. ASSUME NEW i \in Creates(d, n), jobs[i].status # "done", jobs'[i].status = "done" PROVE Disabling(d, n)
    <3>1. /\ i \in DOMAIN jobs /\ i \in DOMAIN jobs'
          /\ jobs[i].order.device = d /\ jobs[i].order.node = n /\ jobs[i].order.type = "CREATE_USER"
      BY <1>3, JobsGrow DEF Creates, OfType, JobsOf
    <3>2. PICK rep \in reports : rep.step = "close" /\ rep.job = i
      BY <1>3, <2>3, <3>1, Completed
    <3>3. Covered(d, n)
      BY <3>1, <3>2 DEF JobsInv, ReportFits, OrderOf
    <3>4. QED
      BY <2>1, <3>3 DEF Covered
  <2>4. Creates(d, n) \subseteq Creates(d, n)'
    BY <1>3, JobSetsGrow
  <2>5. Disabling(d, n) \/ \E i \in Creates(d, n) : jobs[i].status # "done"
    BY <2>1 DEF JobsInv, RemedyComes
  <2>6. QED
    BY <2>2, <2>3, <2>4, <2>5
<1>5. CASE status[d] # "REVOKED"
  BY <1>2, <1>3, <1>5, Revoked
<1>6. CASE accounts[d][n].state = "none"
  <2>1. PICK rep \in reports : rep.job \in Creates(d, n) /\ UNCHANGED jobs
    BY <1>2, <1>3, <1>6, StateMoves
  <2>2. /\ rep.job \in DOMAIN jobs /\ jobs[rep.job].order.device = d /\ jobs[rep.job].order.node = n
        /\ jobs[rep.job].order.type = "CREATE_USER"
    BY <2>1 DEF Creates, OfType, JobsOf
  <2>3. jobs[rep.job].status # "done"
    BY <1>6, <2>2 DEF JobsInv, DoneFits, Written, Stored
  <2>4. rep.job \in Creates(d, n)'
    BY <1>3, <2>1, JobSetsGrow
  <2>5. QED
    BY <2>1, <2>3, <2>4
<1>7. accounts[d][n].state \in {"none", "enabled"}
  BY <1>2, <1>3, StateMoves
<1>8. QED
  BY <1>4, <1>5, <1>6, <1>7

\* A job is done when its report has been written, and what was written stays.
LEMMA DoneStays ==
    ASSUME JobsInv, [Next]_vars
    PROVE  DoneFits'
<1>1. SUFFICES ASSUME NEW i \in DOMAIN jobs', jobs'[i].status = "done" PROVE Written(i)'
  BY DEF DoneFits
<1>2. JobsTyped
  BY DEF JobsInv
<1>3. i \in DOMAIN jobs /\ (jobs[i].status = "done" \/ \E rep \in reports : rep.step = "close" /\ rep.job = i)
  BY <1>1, <1>2, Completed
<1>4. Written(i)
  BY <1>3 DEF JobsInv, DoneFits, ReportFits
<1>5. QED
  BY <1>2, <1>3, <1>4, WrittenStays

LEMMA WorkStays ==
    ASSUME JobsInv, [Next]_vars
    PROVE  \A n \in Nodes : WorkFits(n)'
<1>1. JobsTyped /\ \A n \in Nodes : WorkFits(n)
  BY DEF JobsInv
<1>2. SUFFICES ASSUME NEW n \in Nodes, agent'[n].job # 0
               PROVE  /\ jobs'[agent'[n].job].order.node = n
                      /\ (agent'[n].ran = "ok" /\ jobs'[agent'[n].job].order.type = "CREATE_USER")
                            => users'[agent'[n].job] # "none"
  BY DEF WorkFits
<1> DEFINE Fits(i, ran) == /\ i \in DOMAIN jobs /\ jobs[i].order.node = n
                           /\ (ran = "ok" /\ jobs[i].order.type = "CREATE_USER") => users'[i] # "none"
<1>3. \A i \in DOMAIN jobs : jobs'[i].order = jobs[i].order /\ (users[i] # "none" => users'[i] # "none")
  BY <1>1, JobsGrow, UsersStep
<1>4. agent \in [Nodes -> Work]
  BY <1>1, AgentNow
<1>5. ASSUME agent'[n] = agent[n] PROVE Fits(agent'[n].job, agent'[n].ran)
  BY <1>1, <1>2, <1>3, <1>5, AgentNow DEF WorkFits
<1>6. ASSUME NEW m \in Nodes, agent' = [agent EXCEPT ![m] = Idle] PROVE Fits(agent'[n].job, agent'[n].ran)
  <2>1. m # n
    BY <1>2, <1>4, <1>6 DEF Idle
  <2>2. QED
    BY <1>4, <1>5, <1>6, <2>1
<1>7. ASSUME NEW m \in Nodes, Claim(m) PROVE Fits(agent'[n].job, agent'[n].ran)
  <2>1. PICK i \in DOMAIN jobs, w \in Work :
          agent' = [agent EXCEPT ![m] = w] /\ w.job = i /\ w.ran = "no" /\ jobs[i].order.node = m
    BY <1>1, <1>7, ClaimStep
  <2>2. CASE m = n
    BY <1>4, <2>1, <2>2
  <2>3. CASE m # n
    BY <1>4, <1>5, <2>1, <2>3
  <2>4. QED
    BY <2>2, <2>3
<1>8. ASSUME NEW m \in Nodes, Run(m) \/ RunError(m) PROVE Fits(agent'[n].job, agent'[n].ran)
  <2>1. PICK w \in Work, ran \in {"ok", "error"} :
          /\ w = [agent[m] EXCEPT !.ran = ran] /\ agent' = [agent EXCEPT ![m] = w]
          /\ w.job = agent[m].job /\ w.job # 0 /\ (ran = "ok" => Run(m))
    BY <1>1, <1>8, RunStep
  <2>2. CASE m = n
    <3>1. agent'[n] = w /\ w.ran = ran /\ agent[n].job = w.job
      BY <1>4, <2>1, <2>2 DEF Work
    <3>2. w.job \in DOMAIN jobs /\ jobs[w.job].order.node = n
      BY <1>1, <2>1, <3>1, AgentNow DEF WorkFits
    <3>3. (ran = "ok" /\ jobs[w.job].order.type = "CREATE_USER") => users'[w.job] # "none"
      BY <1>1, <2>1, <2>2, <3>1, RunCreates
    <3>4. QED
      BY <3>1, <3>2, <3>3
  <2>3. CASE m # n
    BY <1>4, <1>5, <2>1, <2>3
  <2>4. QED
    BY <2>2, <2>3
<1>9. Fits(agent'[n].job, agent'[n].ran)
  BY <1>1, <1>5, <1>6, <1>7, <1>8, AgentMove
<1>10. QED
  BY <1>3, <1>9

-----------------------------------------------------------------------------
(* The orders *)

LEMMA FitStays ==
    ASSUME JobsTyped, [Next]_vars, NEW o \in Order, OrderFits(o)
    PROVE  OrderFits(o)'
<1>1. o.device \in Devices
  BY DEF Order
<1>2. MovedTo(o) => MovedTo(o)'
  BY <1>1, StoredStays DEF MovedTo
<1>3. QED
  BY <1>2 DEF OrderFits, WellKeyed

LEMMA WishesFit ==
    ASSUME JobsTyped, NEW c \in Call, NEW o \in Wishes(c)
    PROVE  OrderFits(o) /\ o.device = c.device
<1>1. CASE o \in DisableAll(c)
  BY <1>1 DEF DisableAll, Disable, OrderFits, WellKeyed, MovedTo
<1>2. ASSUME NEW n \in Nodes, o \in {Create(c, n), Enable(c, n)} PROVE OrderFits(o) /\ o.device = c.device
  BY <1>2 DEF Create, Enable, OrderFits, WellKeyed, MovedTo
<1>3. ASSUME NEW n \in Nodes, o \in DisableMoved(c, n), accounts[c.device][n].state # "none"
      PROVE OrderFits(o) /\ o.device = c.device
  <2>1. PICK m \in Enabled(c.device) \ {n} : o = Disable(c.device, m, c.event, "moved", m)
    BY <1>3 DEF DisableMoved
  <2>2. /\ o.device = c.device /\ o.node = m /\ o.type = "DISABLE_USER"
        /\ o.key.what = "moved" /\ o.key.device = c.device /\ o.key.node = m
    BY <2>1 DEF Disable
  <2>3. n \in Nodes \ {o.node}
    BY <2>1, <2>2
  <2>4. QED
    BY <1>3, <2>2, <2>3 DEF OrderFits, WellKeyed, MovedTo
<1>4. QED
  BY <1>1, <1>2, <1>3 DEF Wishes

LEMMA LeftoversFit ==
    ASSUME JobsInv, NEW rep \in reports, rep.step = "tidy", NEW o \in Leftovers(rep)
    PROVE  OrderFits(o)
<1>1. PICK p \in Order : p = jobs[rep.job].order
  BY ReportsTyped DEF JobsInv
<1>2. p.device \in Devices /\ p.node \in Nodes
  BY DEF Order
<1>3. accounts[p.device][p.node].state # "none"
  BY <1>1 DEF JobsInv, ReportFits, OrderOf, Written, Stored
<1>4. CASE rep.entitled
  <2>1. PICK m \in Enabled(p.device) \ {p.node} : o = Disable(p.device, m, 0, "moved", p.node)
    BY <1>1, <1>4 DEF Leftovers
  <2>2. /\ o.device = p.device /\ o.node = m /\ o.type = "DISABLE_USER"
        /\ o.key.what = "moved" /\ o.key.device = p.device /\ o.key.node = m
    BY <2>1 DEF Disable
  <2>3. p.node \in Nodes \ {o.node}
    BY <1>2, <2>1, <2>2
  <2>4. QED
    BY <1>3, <2>2, <2>3 DEF OrderFits, WellKeyed, MovedTo
<1>5. CASE ~rep.entitled
  <2>1. o = [Disable(p.device, p.node, 0, "after-revoke", p.node) EXCEPT !.user = rep.job]
    BY <1>1, <1>5 DEF Leftovers
  <2>2. /\ o.device = p.device /\ o.node = p.node /\ o.type = "DISABLE_USER"
        /\ o.key.what = "after-revoke" /\ o.key.device = p.device /\ o.key.node = p.node
    BY <2>1 DEF Disable
  <2>3. QED
    BY <2>2 DEF OrderFits, WellKeyed, MovedTo
<1>6. QED
  BY <1>4, <1>5

LEMMA QueuedFit ==
    ASSUME JobsInv, [Next]_vars
    PROVE  \A i \in DOMAIN jobs' : OrderFits(jobs[i].order)'
<1>1. JobsTyped /\ OrdersFit
  BY DEF JobsInv
<1>2. ASSUME NEW o \in NextOrders PROVE OrderFits(o)
  <2>1. CASE \E rep \in reports : o \in rep.todo
    BY <1>1, <2>1 DEF OrdersFit
  <2>2. ASSUME NEW c \in calls, c.step = "insert", o = Head(c.todo) PROVE OrderFits(o)
    <3>1. c \in Call /\ c.todo # << >>
      BY <1>1, <2>2, CallsTyped DEF JobsTyped
    <3>2. c.todo \in Seq(Order)
      BY <3>1 DEF Call
    <3>3. 1 \in DOMAIN c.todo /\ o = c.todo[1]
      BY <2>2, <3>1, <3>2, EmptySeq
    <3>4. QED
      BY <1>1, <3>3 DEF OrdersFit
  <2>3. QED
    BY <2>1, <2>2 DEF NextOrders
<1>3. ASSUME NEW i \in DOMAIN jobs' PROVE OrderFits(jobs[i].order)'
  <2>1. CASE i \in DOMAIN jobs
    <3>1. PICK o \in Order : o = jobs[i].order
      BY <1>1, <2>1, OrderParts
    <3>2. OrderFits(o)
      BY <1>1, <2>1, <3>1 DEF OrdersFit
    <3>3. jobs'[i].order = o
      BY <1>1, <2>1, <3>1, JobsGrow
    <3>4. OrderFits(o)'
      BY <1>1, <3>2, FitStays
    <3>5. QED
      BY <3>3, <3>4 DEF OrderFits, WellKeyed, MovedTo
  <2>2. CASE i \notin DOMAIN jobs
    <3>1. PICK o \in NextOrders \cap Order : jobs'[i] = NewJob(o)
      BY <1>1, <2>2, JobsGrow
    <3>2. OrderFits(o)'
      BY <1>1, <1>2, FitStays
    <3>3. jobs'[i].order = o
      BY <3>1, NewJobs
    <3>4. QED
      BY <3>2, <3>3 DEF OrderFits, WellKeyed, MovedTo
  <2>3. QED
    BY <2>1, <2>2
<1>4. QED
  BY <1>3

LEMMA PlannedFit ==
    ASSUME JobsInv, [Next]_vars
    PROVE  \A c \in calls' : \A j \in DOMAIN c.todo : OrderFits(c.todo[j])' /\ c.todo[j].device = c.device
<1>1. JobsTyped /\ OrdersFit
  BY DEF JobsInv
<1> DEFINE Now(c) == c.todo \in Seq(Order) /\ \A j \in DOMAIN c.todo : OrderFits(c.todo[j]) /\ c.todo[j].device = c.device
<1>2. \A c \in calls : Now(c)
  <2>1. \A c \in calls : c.todo \in Seq(Order)
    BY <1>1, CallsTyped DEF Call
  <2>2. QED
    BY <1>1, <2>1 DEF OrdersFit
<1>3. ASSUME NEW c, c.todo = << >> PROVE Now(c)
  <2>1. DOMAIN c.todo = {} /\ c.todo \in Seq(Order)
    BY <1>3
  <2>2. QED
    BY <2>1
<1>4. ASSUME NEW d \in Devices, Event(d, "gate") \/ Event(d, "plan") PROVE \A c \in calls' : Now(c)
  <2>1. \A gate : Event(d, gate) => \E c : calls' = calls \cup {c} /\ c.todo = << >>
    <3>1. SUFFICES ASSUME NEW gate, Event(d, gate) PROVE \E c : calls' = calls \cup {c} /\ c.todo = << >>
      OBVIOUS
    <3>2. PICK c : c = [event |-> events + 1, device |-> d, step |-> gate, entitled |-> FALSE, todo |-> << >>]
      OBVIOUS
    <3>3. calls' = calls \cup {c} /\ c.todo = << >>
      BY <3>1, <3>2 DEF Event
    <3>4. QED
      BY <3>3
  <2>1a. PICK c : calls' = calls \cup {c} /\ c.todo = << >>
    BY <1>4, <2>1
  <2>2. Now(c)
    BY <1>3, <2>1a
  <2>3. QED
    BY <1>2, <2>1a, <2>2
<1>5. ASSUME NEW c \in calls, ReadEntitlement(c) PROVE \A e \in calls' : Now(e)
  <2>1. PICK e : e = [c EXCEPT !.step = "plan", !.entitled = Entitled(c.device)]
    OBVIOUS
  <2>2. c \in Call
    BY <1>1, CallsTyped
  <2>3. e.todo = c.todo /\ e.device = c.device
    BY <2>1, <2>2 DEF Call
  <2>4. Now(e)
    BY <1>2, <2>3
  <2>5. QED
    BY <1>2, <1>5, <2>1, <2>4 DEF ReadEntitlement
<1>6. ASSUME NEW c \in calls, Plan(c) PROVE \A e \in calls' : Now(e)
  <2>1. PICK todo \in Wanted(c) :
          calls' = (calls \ {c}) \cup (IF todo = << >> THEN {} ELSE {[c EXCEPT !.step = "insert", !.todo = todo]})
    BY <1>6 DEF Plan
  <2>2. PICK e : e = [c EXCEPT !.step = "insert", !.todo = todo]
    OBVIOUS
  <2>3. c \in Call
    BY <1>1, CallsTyped
  <2>4. e.todo = todo /\ e.device = c.device
    BY <2>2, <2>3 DEF Call
  <2>5. todo \in Seq(Wishes(c)) /\ Wishes(c) \subseteq Order
    BY <1>1, <2>3, WantedTyped DEF JobsTyped
  <2>6. \A j \in DOMAIN todo : todo[j] \in Wishes(c)
    BY <2>5
  <2>7. todo \in Seq(Order)
    BY <2>5
  <2>8. \A j \in DOMAIN todo : OrderFits(todo[j]) /\ todo[j].device = c.device
    BY <1>1, <2>3, <2>6, WishesFit
  <2>9. Now(e)
    BY <2>4, <2>7, <2>8
  <2>10. calls' \subseteq calls \cup {e}
    BY <2>1, <2>2
  <2>11. QED
    BY <1>2, <2>9, <2>10
<1>7. ASSUME NEW c \in calls, InsertNext(c) PROVE \A e \in calls' : Now(e)
  <2>1. PICK e : e = [c EXCEPT !.todo = Tail(@)]
    OBVIOUS
  <2>2. c \in Call /\ c.todo # << >>
    BY <1>1, <1>7, CallsTyped DEF JobsTyped, InsertNext
  <2>3. e.todo = Tail(c.todo) /\ e.device = c.device
    BY <2>1, <2>2 DEF Call
  <2>4. PICK s \in Seq(Order) : s = c.todo
    BY <1>2
  <2>5. Tail(s) \in Seq(Order) /\ Len(Tail(s)) = Len(s) - 1 /\ \A j \in 1..Len(Tail(s)) : Tail(s)[j] = s[j + 1]
    BY <2>2, <2>4, HeadTailProperties
  <2>6. \A j \in DOMAIN Tail(s) : j + 1 \in DOMAIN s /\ Tail(s)[j] = s[j + 1]
    BY <2>5
  <2>7. Now(e)
    BY <1>2, <2>3, <2>4, <2>5, <2>6
  <2>8. calls' \subseteq calls \cup {e}
    BY <1>7, <2>1 DEF InsertNext
  <2>9. QED
    BY <1>2, <2>7, <2>8
<1>8. ASSUME NEW c \in calls, Redeliver(c) PROVE \A e \in calls' : Now(e)
  <2>1. PICK e : e = [c EXCEPT !.step = "gate", !.entitled = FALSE, !.todo = << >>]
    OBVIOUS
  <2>2. c \in Call
    BY <1>1, CallsTyped
  <2>3. e.todo = << >>
    BY <2>1, <2>2 DEF Call
  <2>4. Now(e)
    BY <1>3, <2>3
  <2>5. QED
    BY <1>2, <1>8, <2>1, <2>4 DEF Redeliver
<1>9. \A c \in calls' : Now(c)
  BY <1>2, <1>4, <1>5, <1>6, <1>7, <1>8, CallsMove DEF Reconciling
<1>10. QED
  BY <1>1, <1>9, FitStays

LEMMA TidiedFit ==
    ASSUME JobsInv, [Next]_vars
    PROVE  \A rep \in reports' : \A o \in rep.todo : OrderFits(o)'
<1>1. JobsTyped
  BY DEF JobsInv
<1>2. \A rep \in reports : rep.todo \subseteq Order /\ \A o \in rep.todo : OrderFits(o)
  BY <1>1, ReportsTyped DEF JobsInv, OrdersFit, Report
<1>3. ASSUME NEW rep \in reports, NEW r, ReportStep(rep, r)
      PROVE  r.todo \subseteq Order /\ \A o \in r.todo : OrderFits(o)
  <2>1. rep \in Report
    BY <1>1, ReportsTyped
  <2>2. CASE r.todo \subseteq rep.todo
    BY <1>2, <2>2
  <2>3. CASE TidyUp(rep) /\ r.todo = Leftovers(rep)
    BY <1>1, <2>3, LeftoversFit, LeftoversTyped DEF TidyUp
  <2>4. r.todo \subseteq rep.todo \/ (TidyUp(rep) /\ r.todo = Leftovers(rep))
    BY <1>3, <2>1 DEF ReportStep, Report
  <2>5. QED
    BY <2>2, <2>3, <2>4
<1>4. \A rep \in reports' : rep.todo \subseteq Order /\ \A o \in rep.todo : OrderFits(o)
  BY <1>1, <1>2, <1>3, ReportsMove DEF Sent
<1>5. QED
  BY <1>1, <1>4, FitStays

LEMMA OrdersStay ==
    ASSUME JobsInv, [Next]_vars
    PROVE  OrdersFit'
<1>1. \A i \in DOMAIN jobs' : OrderFits(jobs[i].order)'
  BY QueuedFit
<1>2. \A c \in calls' : \A j \in DOMAIN c.todo : OrderFits(c.todo[j])' /\ c.todo[j].device = c.device
  BY PlannedFit
<1>3. \A rep \in reports' : \A o \in rep.todo : OrderFits(o)'
  BY TidiedFit
<1>4. QED
  BY <1>1, <1>2, <1>3 DEF OrdersFit, OrderFits, WellKeyed, MovedTo

LEMMA JobStays ==
    ASSUME JobsInv, [Next]_vars, NEW i \in DOMAIN jobs
    PROVE  /\ jobs'[i].order = jobs[i].order
           /\ users[i] # "none" => users'[i] # "none"
           /\ Written(i) => Written(i)'
           /\ (Written(i) /\ jobs[i].order.type = "CREATE_USER" /\ Covered(jobs[i].order.device, jobs[i].order.node))
                 => \A d, n : (d = jobs[i].order.device /\ n = jobs[i].order.node) => Covered(d, n)'
<1>1. JobsTyped /\ OrdersFit
  BY DEF JobsInv
<1>2. jobs'[i].order = jobs[i].order /\ (users[i] # "none" => users'[i] # "none")
  BY <1>1, JobsGrow, UsersStep
<1>3. Written(i) => Written(i)'
  BY <1>1, WrittenStays
<1>4. PICK e \in Devices, m \in Nodes : e = jobs[i].order.device /\ m = jobs[i].order.node
  BY <1>1, OrderParts
<1>5. ASSUME Written(i), jobs[i].order.type = "CREATE_USER", Covered(e, m) PROVE Covered(e, m)'
  <2>1. accounts[e][m].state # "none"
    BY <1>4, <1>5 DEF Written, Stored
  <2>2. QED
    BY <1>1, <1>5, <2>1, CoveredStays
<1>6. QED
  BY <1>2, <1>3, <1>4, <1>5

\* What a report claims, said of the order o, device d and node n of its job.
\* ReportFits, of the order o of the report's job.
Claims(r, o) ==
    /\ o.node = r.node
    /\ (r.kind = "complete" /\ o.type = "CREATE_USER") => users[r.job] # "none"
    /\ r.step \in {"gate", "tidy", "disable", "close"} => Written(r.job)
    /\ r.step \in {"gate", "tidy", "disable"} => o.type = "CREATE_USER"
    /\ (r.step = "tidy" /\ r.entitled) => Covered(o.device, o.node)
    /\ r.step = "disable" => (\E l \in r.todo : Own(o, l)) \/ Covered(o.device, o.node)
    /\ (r.step = "close" /\ o.type = "CREATE_USER") => Covered(o.device, o.node)
    /\ r.step # "disable" => r.todo = {}

LEMMA ReportStays ==
    ASSUME JobsInv, [Next]_vars, NEW rep \in reports
    PROVE  ReportFits(rep)'
<1>1. rep.job \in DOMAIN jobs /\ JobsTyped /\ ReportFits(rep)
  BY ReportsTyped DEF JobsInv
<1>2. PICK o \in Order : o = jobs[rep.job].order /\ jobs'[rep.job].order = o
  BY <1>1, ReportsTyped, JobStays
<1>3. Claims(rep, o)
  BY <1>1, <1>2 DEF ReportFits, Claims, OrderOf
<1>4. /\ users[rep.job] # "none" => users'[rep.job] # "none"
      /\ Written(rep.job) => Written(rep.job)'
      /\ (Written(rep.job) /\ o.type = "CREATE_USER" /\ Covered(o.device, o.node)) => Covered(o.device, o.node)'
  BY <1>1, <1>2, JobStays
<1>5. Claims(rep, o)'
  BY <1>3, <1>4 DEF Claims, Own
<1>6. QED
  BY <1>2, <1>5 DEF ReportFits, Claims, OrderOf

LEMMA SentFits ==
    ASSUME JobsInv, [Next]_vars, NEW n \in Nodes, Send(n), NEW r, r = Sent(n)
    PROVE  ReportFits(r)'
<1>2. /\ r.node = n /\ r.job = agent[n].job /\ r.kind = (IF agent[n].ran = "ok" THEN "complete" ELSE "fail")
      /\ r.step = "read" /\ r.todo = {}
  BY DEF Sent
<1>3. JobsTyped /\ WorkFits(n) /\ agent[n].ran # "no"
  BY DEF JobsInv, Send
<1>4. agent[n].job # 0 /\ r.job \in DOMAIN jobs
  BY <1>2, <1>3, AgentNow
<1>5. PICK o : o = jobs[r.job].order /\ jobs'[r.job].order = o
  BY <1>4, JobStays
<1>6. o.node = n /\ ((agent[n].ran = "ok" /\ o.type = "CREATE_USER") => users[r.job] # "none")
  BY <1>2, <1>3, <1>4, <1>5 DEF WorkFits
<1>7. (r.kind = "complete" /\ o.type = "CREATE_USER") => users'[r.job] # "none"
  BY <1>2, <1>4, <1>6, JobStays
<1>8. QED
  BY <1>2, <1>5, <1>6, <1>7 DEF ReportFits, OrderOf

\* A report that takes a step, action by action.
LEMMA SteppedFits ==
    ASSUME JobsInv, [Next]_vars, NEW rep \in reports, NEW r \in Report, ReportStep(rep, r)
    PROVE  ReportFits(r)'
<1>1. rep \in Report /\ rep.job \in DOMAIN jobs /\ JobsTyped /\ OrdersFit /\ ReportFits(rep)
  BY ReportsTyped DEF JobsInv
<1>2. PICK o \in Order : o = jobs[rep.job].order /\ jobs'[rep.job].order = o
  BY <1>1, ReportsTyped, JobStays
<1>3. Claims(rep, o)
  BY <1>1, <1>2 DEF ReportFits, Claims, OrderOf
<1>4. /\ users[rep.job] # "none" => users'[rep.job] # "none"
      /\ Written(rep.job) => Written(rep.job)'
      /\ (Written(rep.job) /\ o.type = "CREATE_USER" /\ Covered(o.device, o.node)) => Covered(o.device, o.node)'
  BY <1>1, <1>2, JobStays
<1>5. r.job = rep.job /\ r.node = rep.node /\ r.kind = rep.kind
  BY <1>1, SameJob
<1>6. o.device \in Devices /\ o.node \in Nodes /\ o.type \in JobType
  BY DEF Order
<1>7. /\ o.node = r.node
      /\ (r.kind = "complete" /\ o.type = "CREATE_USER") => users'[r.job] # "none"
  BY <1>3, <1>4, <1>5 DEF Claims
<1>8. SUFFICES Claims(r, o)'
  BY <1>2, <1>5 DEF ReportFits, Claims, OrderOf
<1>9. CASE ReadJob(rep) /\ ClaimIsValid(rep) /\ r = [rep EXCEPT !.step = "write"]
  <2>1. r.step = "write" /\ r.todo = {}
    BY <1>1, <1>3, <1>9 DEF ReadJob, Claims, Report
  <2>2. QED
    BY <1>7, <2>1 DEF Claims
<1>10. CASE WriteResult(rep) /\ r = [rep EXCEPT !.step = "gate"] /\ jobs[rep.job].order.type = "CREATE_USER"
  <2>1. r.step = "gate" /\ r.todo = {} /\ rep.kind = "complete"
    BY <1>1, <1>3, <1>10 DEF WriteResult, Claims, Report
  <2>2. PICK a \in Account : a = accounts[o.device][o.node]
    BY <1>1, <1>6 DEF JobsTyped, TypeOK
  <2>3. PICK row \in Account : accounts'[o.device][o.node] = row /\ row = Upserted(a, rep.job)
    <3>1. PICK row \in Account :
            /\ accounts'[o.device][o.node] = row
            /\ \/ row = accounts[o.device][o.node]
               \/ row = Upserted(accounts[o.device][o.node], rep.job)
      BY <1>1, <1>2, <1>6, <1>10, ResultRow
    <3>2. accounts' = [accounts EXCEPT ![o.device][o.node] = Upserted(@, rep.job)]
      BY <1>2, <1>10 DEF WriteResult
    <3>3. accounts \in [Devices -> [Nodes -> Account]]
      BY <1>1 DEF JobsTyped, TypeOK
    <3>4. accounts'[o.device][o.node] = Upserted(a, rep.job)
      BY <1>6, <2>2, <3>2, <3>3
    <3>5. QED
      BY <3>1, <3>4
  <2>4. rep.job # 0
    BY <1>1, OrderParts
  <2>5. row.state # "none" /\ row.user # 0
    BY <2>3, <2>4 DEF Upserted
  <2>6. Written(r.job)'
    BY <1>2, <1>5, <1>7, <1>10, <2>1, <2>3, <2>5 DEF Written, Stored
  <2>7. QED
    BY <1>2, <1>7, <1>10, <2>1, <2>6 DEF Claims
<1>11. CASE WriteResult(rep) /\ r = [rep EXCEPT !.step = "close"] /\ jobs[rep.job].order.type # "CREATE_USER"
  <2>1. r.step = "close" /\ r.todo = {} /\ o.type # "CREATE_USER"
    BY <1>1, <1>2, <1>3, <1>11 DEF WriteResult, Claims, Report
  <2>2. ASSUME o.type = "DISABLE_USER" PROVE accounts'[o.device][o.node].state = "disabled"
    <3>1. accounts' = [accounts EXCEPT ![o.device][o.node].state = "disabled"]
      BY <1>2, <1>11, <2>2 DEF WriteResult
    <3>2. accounts \in [Devices -> [Nodes -> Account]]
      BY <1>1 DEF JobsTyped, TypeOK
    <3>3. QED
      BY <1>6, <3>1, <3>2 DEF Account
  <2>3. Written(r.job)'
    BY <1>2, <1>5, <2>1, <2>2 DEF Written, Off
  <2>4. QED
    BY <1>7, <2>1, <2>3 DEF Claims
<1>12. CASE CheckCreated(rep) /\ r = [rep EXCEPT !.step = "tidy", !.entitled = Entitled(jobs[rep.job].order.device)]
  <2>1. rep.step = "gate" /\ r.step = "tidy" /\ r.todo = {} /\ r.entitled = Entitled(o.device) /\ UNCHANGED status
    BY <1>1, <1>2, <1>3, <1>12 DEF CheckCreated, Claims, Report, dbVars
  <2>2. r.entitled => Covered(o.device, o.node)'
    BY <2>1 DEF Entitled, Covered, Exposed
  <2>3. o.type = "CREATE_USER" /\ Written(r.job)'
    BY <1>3, <1>4, <1>5, <2>1 DEF Claims
  <2>4. QED
    BY <1>7, <2>1, <2>2, <2>3 DEF Claims
<1>13. CASE TidyUp(rep) /\ Leftovers(rep) = {} /\ r = [rep EXCEPT !.step = "close"]
  <2>1. rep.step = "tidy" /\ r.step = "close" /\ r.todo = {}
    BY <1>1, <1>3, <1>13 DEF TidyUp, Claims, Report
  <2>2. rep.entitled
    BY <1>13 DEF Leftovers
  <2>3. o.type = "CREATE_USER" /\ Written(r.job)' /\ Covered(o.device, o.node)'
    BY <1>3, <1>4, <1>5, <2>1, <2>2 DEF Claims
  <2>4. QED
    BY <1>7, <2>1, <2>3 DEF Claims
<1>14. CASE TidyUp(rep) /\ Leftovers(rep) # {} /\ r = [rep EXCEPT !.step = "disable", !.todo = Leftovers(rep)]
  <2>1. rep.step = "tidy" /\ r.step = "disable" /\ r.todo = Leftovers(rep)
    BY <1>1, <1>14 DEF TidyUp, Report
  <2>2. o.type = "CREATE_USER" /\ Written(r.job)'
    BY <1>3, <1>4, <1>5, <2>1 DEF Claims
  <2>3. rep.entitled => Covered(o.device, o.node)'
    BY <1>3, <1>4, <2>1 DEF Claims
  <2>4. ASSUME ~rep.entitled PROVE \E l \in r.todo : Own(o, l)
    <3>1. PICK l : l = [Disable(o.device, o.node, 0, "after-revoke", o.node) EXCEPT !.user = rep.job]
      OBVIOUS
    <3>2. l \in r.todo
      BY <1>2, <2>1, <2>4, <3>1 DEF Leftovers
    <3>3. Own(o, l)
      BY <3>1 DEF Disable, Own
    <3>4. QED
      BY <3>2, <3>3
  <2>5. QED
    BY <1>7, <2>1, <2>2, <2>3, <2>4 DEF Claims, Own
<1>15. ASSUME DisableNext(rep), NEW order \in rep.todo, jobs' = Insert(jobs, order),
              r = [rep EXCEPT !.step = IF rep.todo = {order} THEN "close" ELSE "disable", !.todo = @ \ {order}]
       PROVE  Claims(r, o)'
  <2>1. rep.step = "disable" /\ r.step = (IF rep.todo = {order} THEN "close" ELSE "disable") /\ r.todo = rep.todo \ {order}
    BY <1>1, <1>15 DEF DisableNext, Report
  <2>2. o.type = "CREATE_USER" /\ Written(r.job)'
    BY <1>3, <1>4, <1>5, <2>1 DEF Claims
  <2>3. Covered(o.device, o.node) => Covered(o.device, o.node)'
    BY <1>3, <1>4, <2>1 DEF Claims
  <2>4. ASSUME Own(o, order) PROVE Covered(o.device, o.node)'
    <3>1. order \in Order /\ WellKeyed(order)
      BY <1>1 DEF Report, OrdersFit, OrderFits
    <3>2. Disables(o.device, o.node)' # {}
      BY <1>1, <1>6, <1>15, <2>4, <3>1, DisableInserted DEF Own
    <3>3. QED
      BY <3>2 DEF Covered, Disabling
  <2>5. (\E l \in rep.todo : Own(o, l)) \/ Covered(o.device, o.node)
    BY <1>3, <2>1 DEF Claims
  <2>6. (\E l \in r.todo : Own(o, l)) \/ Covered(o.device, o.node)'
    BY <2>1, <2>3, <2>4, <2>5
  <2>7. r.step = "close" => r.todo = {}
    BY <2>1
  <2>8. r.step = "close" \/ r.step = "disable"
    BY <2>1
  <2>9. r.step = "close" => Covered(o.device, o.node)'
    BY <2>6, <2>7
  <2>10. QED
    BY <1>7, <2>2, <2>6, <2>7, <2>8, <2>9 DEF Claims, Own
<1>16. QED
  BY <1>9, <1>10, <1>11, <1>12, <1>13, <1>14, <1>15 DEF ReportStep

LEMMA ReportsFit ==
    ASSUME JobsInv, [Next]_vars
    PROVE  \A rep \in reports' : ReportFits(rep)'
<1>1. JobsTyped
  BY DEF JobsInv
<1>2. \A rep \in reports : ReportFits(rep)'
  BY ReportStays
<1>3. ASSUME NEW n \in Nodes, Send(n), reports' = reports \cup {Sent(n)} PROVE \A rep \in reports' : ReportFits(rep)'
  <2>1. PICK r : r = Sent(n)
    OBVIOUS
  <2>2. ReportFits(r)'
    BY <1>3, <2>1, SentFits
  <2>3. QED
    BY <1>2, <1>3, <2>1, <2>2
<1>4. ASSUME NEW rep \in reports, NEW r \in Report, ReportStep(rep, r), reports' = (reports \ {rep}) \cup {r}
      PROVE  \A s \in reports' : ReportFits(s)'
  BY <1>2, <1>4, SteppedFits
<1>5. QED
  BY <1>1, <1>2, <1>3, <1>4, ReportsMove

LEMMA JobsInvNext ==
    ASSUME JobsInv, [Next]_vars
    PROVE  JobsInv'
<1>1. JobsTyped'
  BY JobsTypedNext DEF JobsInv
<1>2. OrdersFit' /\ DoneFits' /\ RemedyComes'
  BY OrdersStay, DoneStays, RemedyStays
<1>3. \A n \in Nodes : WorkFits(n)'
  BY WorkStays
<1>4. \A rep \in reports' : ReportFits(rep)'
  BY ReportsFit
<1>5. QED
  BY <1>1, <1>2, <1>3, <1>4 DEF JobsInv

LEMMA JobsInvInit ==
    ASSUME Init
    PROVE  JobsInv
<1>1. JobsTyped
  BY JobsTypedInit
<1>2. calls = {} /\ reports = {} /\ \A n \in Nodes : agent[n].job = 0
  BY DEF Init, Idle
<1>3. \A d \in Devices : status[d] = "ACTIVE"
  BY DEF Init
<1>4. RemedyComes
  BY <1>3 DEF RemedyComes, Exposed
<1>5. CASE jobs = << >>
  BY <1>1, <1>2, <1>4, <1>5 DEF JobsInv, OrdersFit, DoneFits, WorkFits
<1>6. ASSUME NEW d \in Devices, NEW n \in Nodes, DOMAIN jobs = {1}, jobs[1] = Created(d, n) PROVE JobsInv
  <2>1. OrderFits(jobs[1].order)
    BY <1>6, StartRow DEF OrderFits, WellKeyed, MovedTo
  <2>2. jobs # << >>
    BY <1>6
  <2>3. accounts[d][n] = [state |-> "enabled", user |-> 1]
    BY <1>6, <2>2, StartRow DEF Init
  <2>4. users[1] = "on"
    BY <1>1, <1>6, OrderParts DEF Init
  <2>5. Written(1)
    BY <1>6, <2>3, <2>4, StartRow DEF Written, Stored
  <2>6. QED
    BY <1>1, <1>2, <1>4, <1>6, <2>1, <2>5 DEF JobsInv, OrdersFit, DoneFits, WorkFits
<1>7. QED
  BY <1>5, <1>6, JobsStart

\* JobsInv holds of every state, with any number of claims of a job, duplicates and crashes.
THEOREM JobsInvariant == Spec => []JobsInv
BY JobsInvInit, JobsInvNext, PTL DEF Spec

\* A device that is revoked while a CREATE_USER job of it is under way (complete.js) is not left with an
\* identity that nothing is going to disable, unless an ENABLE_USER job was queued for it.
THEOREM RemedyCorrect == Spec => []RevokedHasRemedy
<1>1. ASSUME JobsInv PROVE RevokedHasRemedy
  <2>1. SUFFICES ASSUME NEW d \in Devices, NEW n \in Nodes, Exposed(d, n)
                 PROVE  \/ \E i \in Disables(d, n) : jobs[i].status # "done"
                        \/ \E i \in Creates(d, n) : jobs[i].status # "done"
                        \/ \E c \in calls : c.device = d /\ Coming(c, n)
    BY DEF RevokedHasRemedy, Exposed, Disables, Coming
  <2>2. ASSUME NEW i \in Disables(d, n) PROVE jobs[i].status # "done"
    <3>1. /\ i \in DOMAIN jobs /\ jobs[i].order.device = d /\ jobs[i].order.node = n
          /\ jobs[i].order.type = "DISABLE_USER"
      BY DEF Disables, OfType, JobsOf
    <3>2. QED
      BY <1>1, <2>1, <3>1 DEF JobsInv, DoneFits, Written, Off, Exposed
  <2>3. QED
    BY <1>1, <2>1, <2>2 DEF JobsInv, RemedyComes, Disabling
<1>2. QED
  BY <1>1, JobsInvariant, PTL

\* What moved is only disabled once an identity on another node is stored: reconcileDeviceProvisioning and
\* finalizeCreatedIdentity look before they queue, and no identity is ever forgotten.
THEOREM BreakAfterMakeCorrect == Spec => []BreakAfterMake
<1>1. JobsInv => BreakAfterMake
  BY DEF JobsInv, OrdersFit, OrderFits, MovedTo, BreakAfterMake
<1>2. QED
  BY <1>1, JobsInvariant, PTL

\* A CREATE_USER job that is done has its user and its identity, also when its report took longer than the lease.
THEOREM DoneCreateCorrect == Spec => []DoneCreateIsStored
<1>1. JobsInv => DoneCreateIsStored
  BY DEF JobsInv, DoneFits, Written, Stored, DoneCreateIsStored, Creates, OfType, JobsOf
<1>2. QED
  BY <1>1, JobsInvariant, PTL

-----------------------------------------------------------------------------
(* Claims, while reports are prompt and every agent sends the token of its claim *)

\* A validated report is of the claim that holds the job, and no other report is.
Held(rep) == jobs[rep.job].status = "claimed" /\ ~jobs[rep.job].lapsed /\ jobs[rep.job].token = rep.token
ClaimsFit ==
    /\ \A rep \in reports : Validated(rep) => Held(rep)
    /\ \A r, s \in reports : (r.job = s.job /\ r.token = s.token) => r = s

\* While such a report is under way, nobody else changes its job.
LEMMA HeldStays ==
    ASSUME PromptReports, JobsInv, ClaimsFit, [Next]_vars, NEW rep \in reports, Validated(rep)
    PROVE  Held(rep)' \/ WriteFailure(rep) \/ CloseJob(rep)
<1>1. JobsTyped /\ rep.job \in DOMAIN jobs
  BY ReportsTyped DEF JobsInv
<1>2. Held(rep)
  BY DEF ClaimsFit
<1>3. CASE jobs'[rep.job] = jobs[rep.job]
  BY <1>2, <1>3 DEF Held
<1>4. ~LeaseLapses(rep.job)
  BY DEF LeaseLapses
<1>5. ASSUME NEW s \in reports, s.job = rep.job, WriteFailure(s) \/ CloseJob(s) PROVE s = rep
  <2>1. Validated(s)
    BY <1>5 DEF Validated, WriteFailure, CloseJob
  <2>2. Held(s)
    BY <2>1 DEF ClaimsFit
  <2>3. QED
    BY <1>2, <1>5, <2>2 DEF ClaimsFit, Held
<1>6. QED
  BY <1>1, <1>2, <1>3, <1>4, <1>5, RowMoves DEF Held

LEMMA ClaimsInit ==
    ASSUME Init
    PROVE  ClaimsFit
BY DEF Init, ClaimsFit

LEMMA ClaimsNext ==
    ASSUME PromptReports, RequireToken \/ TokenNodes = Nodes, JobsInv, ClaimsFit, [Next]_vars
    PROVE  ClaimsFit'
<1>1. JobsTyped /\ \A rep \in reports : ReportFits(rep) /\ rep \in Report
  BY ReportsTyped DEF JobsInv
<1>2. ASSUME NEW rep \in reports, Validated(rep), rep \in reports' PROVE Held(rep)'
  BY <1>2, HeldStays DEF WriteFailure, CloseJob
<1>3. CASE reports' \subseteq reports
  BY <1>2, <1>3 DEF ClaimsFit, Validated
<1>4. ASSUME NEW n \in Nodes, Send(n), reports' = reports \cup {Sent(n)} PROVE ClaimsFit'
  <2>1. PICK r : r = Sent(n)
    OBVIOUS
  <2>2. r.node = n /\ r.job = agent[n].job /\ r.token = agent[n].token /\ r.step = "read"
    BY <2>1 DEF Sent
  <2>3. ~\E s \in reports : s.node = n /\ s.job = r.job /\ s.token = r.token
    BY <1>4, <2>2 DEF Send
  <2>4. ASSUME NEW s \in reports, s.job = r.job PROVE s.node = n
    <3>1. agent[n].job # 0
      <4>1. agent[n].ran # "no"
        BY <1>4 DEF Send
      <4>2. QED
        BY <1>1, <4>1, AgentNow
    <3>2. jobs[r.job].order.node = n
      BY <2>2, <3>1 DEF JobsInv, WorkFits
    <3>3. QED
      BY <1>1, <2>4, <3>2 DEF ReportFits, OrderOf
  <2>5. \A s \in reports : ~(s.job = r.job /\ s.token = r.token)
    BY <2>3, <2>4
  <2>6. \A s \in reports' : Validated(s) => Held(s)'
    BY <1>2, <1>4, <2>1, <2>2 DEF Validated
  <2>7. \A s, t \in reports' : (s.job = t.job /\ s.token = t.token) => s = t
    BY <1>4, <2>1, <2>5 DEF ClaimsFit
  <2>8. QED
    BY <2>6, <2>7 DEF ClaimsFit, Validated
<1>5. ASSUME NEW rep \in reports, NEW r \in Report, ReportStep(rep, r), reports' = (reports \ {rep}) \cup {r} PROVE ClaimsFit'
  <2>1. r.job = rep.job /\ r.token = rep.token
    BY <1>1, <1>5, SameJob
  <2>2. ASSUME Validated(rep) PROVE Held(r)'
    <3>1. ~WriteFailure(rep) /\ ~CloseJob(rep)
      BY <1>5, <2>2 DEF ReportStep, Validated, ReadJob, WriteResult, CheckCreated, TidyUp, DisableNext, WriteFailure, CloseJob
    <3>2. Held(rep)'
      BY <2>2, <3>1, HeldStays
    <3>3. QED
      BY <2>1, <3>2 DEF Held
  <2>3. ASSUME ~Validated(rep) PROVE Held(r)'
    <3>1. ReadJob(rep) /\ ClaimIsValid(rep)
      BY <1>5, <2>3 DEF ReportStep, Validated, WriteResult, CheckCreated, TidyUp, DisableNext
    <3>2. rep.node \in Nodes /\ UNCHANGED jobs
      BY <1>1, <3>1 DEF Report, ReadJob, dbVars
    <3>3. rep.node \in TokenNodes
      BY <3>1, <3>2 DEF ClaimIsValid
    <3>4. Held(rep)
      BY <3>1, <3>3 DEF ClaimIsValid, Held
    <3>5. QED
      BY <2>1, <3>2, <3>4 DEF Held
  <2>4. \A s \in reports' : Validated(s) => Held(s)'
    BY <1>2, <1>5, <2>2, <2>3
  <2>5. QED
    BY <1>5, <2>1, <2>4 DEF ClaimsFit, Validated
<1>6. QED
  BY <1>1, <1>3, <1>4, <1>5, ReportsMove

LEMMA ClosedStays ==
    ASSUME PromptReports, JobsInv, ClaimsFit, [Next]_vars, NEW i \in DOMAIN jobs
    PROVE  /\ ~Open(jobs[i]) => jobs'[i] = jobs[i]
           /\ (jobs[i].status = "claimed" /\ ~jobs[i].lapsed /\ ~Open(jobs'[i])) =>
                 \E rep \in reports : rep.job = i /\ Validated(rep) /\ rep.token = jobs[i].token
<1>1. JobsTyped
  BY DEF JobsInv
<1>2. ASSUME NEW rep \in reports, rep.job = i, WriteFailure(rep) \/ CloseJob(rep)
      PROVE  Validated(rep) /\ jobs[i].status = "claimed" /\ rep.token = jobs[i].token
  BY <1>2 DEF ClaimsFit, Held, Validated, WriteFailure, CloseJob
<1>3. LeaseLapses(i) => jobs[i].status = "claimed"
  BY DEF LeaseLapses
<1>4. QED
  BY <1>1, <1>2, <1>3, RowMoves DEF Open

\* A job is closed once, by the report of the claim that holds it, when a validated report is written within
\* the lease and every claim is checked by its token (either REQUIRE_CLAIM_TOKEN is set or all agents send it).
THEOREM ClaimsCorrect ==
    ASSUME PromptReports, RequireToken \/ TokenNodes = Nodes
    PROVE  Spec => JobsCloseRightly
<1>1. Init => JobsInv /\ ClaimsFit
  BY JobsInvInit, ClaimsInit
<1>2. JobsInv /\ ClaimsFit /\ [Next]_vars => (JobsInv /\ ClaimsFit)'
  BY JobsInvNext, ClaimsNext
<1>3. JobsInv /\ ClaimsFit /\ [Next]_vars =>
         [\A i \in DOMAIN jobs : ~Open(jobs[i]) => jobs'[i] = jobs[i]]_jobs
  BY ClosedStays
<1>4. JobsInv /\ ClaimsFit /\ [Next]_vars =>
         [\A i \in DOMAIN jobs :
             (jobs[i].status = "claimed" /\ ~jobs[i].lapsed /\ ~Open(jobs'[i])) =>
                 \E rep \in reports : rep.job = i /\ Validated(rep) /\ rep.token = jobs[i].token]_jobs
  BY ClosedStays
<1>5. JobsInv => DoneCreateIsStored
  BY DEF JobsInv, DoneFits, Written, Stored, DoneCreateIsStored, Creates, OfType, JobsOf
<1>6. QED
  BY <1>1, <1>2, <1>3, <1>4, <1>5, PTL DEF Spec, JobsCloseRightly, ClosedIsFinal, OwnReportCloses
================================================================================
