------------------------------ MODULE NodeRevisions ------------------------------
(***************************************************************************)
(* Declarative revisions of a node's configuration (node-revisions.js), the *)
(* APPLY_NODE_REVISION jobs that carry them, the reaper of expired claims  *)
(* (reap_expired_job_claims) and the node's key (rotate-key.js, lifecycle). *)
(* A push is four statements; each is a step, and the Worker may die       *)
(* between any two.                                                        *)
(***************************************************************************)
EXTENDS Integers, FiniteSets

CONSTANTS
    Nodes,
    Pushes,            \* POSTs to /revisions that can be in progress
    MaxNodeRevision,       \* bound: revisions of a node
    Keep,              \* NODE_REVISIONS_KEEP
    MaxAttempts,       \* claims of a job that may expire
    MaxDeaths,         \* bound: pushes that die
    OneAtATime,        \* a push to a node overlaps no other push, no retry and no run of the reaper
    NewestStays        \* external: an agent does not replace a revision by an older one

ASSUME RevisionParameters ==
    /\ {MaxNodeRevision, MaxDeaths} \subseteq Nat /\ {MaxAttempts, Keep} \subseteq Nat \ {0}
    /\ "none" \notin Nodes /\ OneAtATime \in BOOLEAN /\ NewestStays \in BOOLEAN

NodeRevision == 1..MaxNodeRevision

VARIABLES
    latest,     \* [Nodes -> Nat]: the newest of its node_revisions
    kept,       \* [Nodes -> SUBSET NodeRevision]: those that were not pruned
    desired,    \* [Nodes -> Nat]: nodes.desired_revision
    observedRevision,   \* [Nodes -> Nat]: what its agent applied last, as heartbeats report it
    applyJobs,  \* [Nodes -> [NodeRevision -> ...]]: the newest job of each revision
    access,     \* [Nodes -> ...]: its lifecycle state and key
    push,       \* [Pushes -> ...]
    died        \* [Nodes -> Nat]: pushes that ended half-way

revisionVars == <<latest, kept, desired, observedRevision, applyJobs, access, push, died>>

\* expired: claimed, and the lease is over.
Job == [status : {"none", "pending", "claimed", "expired", "done", "failed"}, attempts : 0..MaxAttempts]
NoJob == [status |-> "none", attempts |-> 0]
NoPush == [pc |-> "idle", node |-> "none", revision |-> 0]

RevisionTypeOK ==
    /\ {latest, desired, observedRevision} \subseteq [Nodes -> 0..MaxNodeRevision]
    /\ kept \in [Nodes -> SUBSET NodeRevision]
    /\ applyJobs \in [Nodes -> [NodeRevision -> Job]]
    /\ access \in [Nodes -> [state : {"in service", "quarantined"}, key : BOOLEAN]]
    /\ push \in [Pushes -> [pc : {"idle", "insert", "desire", "coalesce", "enqueue", "rotate"},
                            node : Nodes \cup {"none"}, revision : 0..MaxNodeRevision]]
    /\ died \in [Nodes -> 0..MaxDeaths]

\* provisioning_jobs_one_pending_apply_revision_per_node.
Pending(n, js) == {k \in NodeRevision : js[n][k].status = "pending"}

-----------------------------------------------------------------------------
(* Pushing a revision (createNodeRevision) *)

StepIs(q, pc) == push[q].pc = pc
StepTo(q, pc) == push' = [push EXCEPT ![q].pc = pc]
Answer(q) == push' = [push EXCEPT ![q] = NoPush]
Undisturbed(n) == OneAtATime => \A q \in Pushes : push[q].node # n

ReadLatest(q, n) ==
    /\ StepIs(q, "idle") /\ Undisturbed(n) /\ latest[n] < MaxNodeRevision
    /\ push' = [push EXCEPT ![q] = [pc |-> "insert", node |-> n, revision |-> latest[n] + 1]]
    /\ UNCHANGED <<latest, kept, desired, observedRevision, applyJobs, access, died>>

\* The revision's number is unique: of two pushes that read the same one only the first goes on.
InsertRevision(q) ==
    LET n == push[q].node
    IN /\ StepIs(q, "insert")
       /\ IF latest[n] < push[q].revision
          THEN /\ latest' = [latest EXCEPT ![n] = push[q].revision]
               /\ kept' = [kept EXCEPT ![n] = @ \cup {push[q].revision}]
               /\ StepTo(q, "desire")
          ELSE UNCHANGED <<latest, kept>> /\ Answer(q)
       /\ UNCHANGED <<desired, observedRevision, applyJobs, access, died>>
SetDesired(q) ==
    /\ StepIs(q, "desire")
    /\ desired' = [desired EXCEPT ![push[q].node] = push[q].revision]
    /\ StepTo(q, "coalesce")
    /\ UNCHANGED <<latest, kept, observedRevision, applyJobs, access, died>>

\* As if the pending job were left.
Coalesce_Skipped(q) ==
    /\ StepIs(q, "coalesce")
    /\ StepTo(q, "enqueue")
    /\ UNCHANGED <<latest, kept, desired, observedRevision, applyJobs, access, died>>
\* A job that nobody claimed yet is deleted.
Coalesce(q) ==
    /\ StepIs(q, "coalesce")
    /\ applyJobs' = [applyJobs EXCEPT ![push[q].node] =
                        [k \in NodeRevision |-> IF @[k].status = "pending" THEN NoJob ELSE @[k]]]
    /\ StepTo(q, "enqueue")
    /\ UNCHANGED <<latest, kept, desired, observedRevision, access, died>>

\* A second pending job is refused, which the code takes to mean that the other one will do.
Enqueue(q) ==
    LET n == push[q].node
    IN /\ StepIs(q, "enqueue")
       /\ applyJobs' = IF Pending(n, applyJobs) = {}
                       THEN [applyJobs EXCEPT ![n][push[q].revision] = [status |-> "pending", attempts |-> 0]]
                       ELSE applyJobs
       /\ Answer(q)
       /\ UNCHANGED <<latest, kept, desired, observedRevision, access, died>>

PushDies(q) ==
    LET n == push[q].node
    IN /\ push[q].pc \in {"desire", "coalesce", "enqueue"} /\ died[n] < MaxDeaths
       /\ died' = [died EXCEPT ![n] = @ + 1]
       /\ Answer(q)
       /\ UNCHANGED <<latest, kept, desired, observedRevision, applyJobs, access>>

-----------------------------------------------------------------------------
(* The node's agent *)

\* authenticateNode asks for the key and for the state.
Serves(n) == access[n].key /\ access[n].state = "in service"
Becomes(n, k, status) == applyJobs' = [applyJobs EXCEPT ![n][k].status = status]

\* claim_next_job gives out the oldest job; there is one pending at most.
Claims(n, k) ==
    /\ Serves(n) /\ k \in Pending(n, applyJobs)
    /\ Becomes(n, k, "claimed")
    /\ UNCHANGED <<latest, kept, desired, observedRevision, access, push, died>>

\* It fetches the revision the job names, applies it and reports; or it fails, as with a revision that
\* was pruned.
Applies(n, k) ==
    /\ Serves(n) /\ applyJobs[n][k].status = "claimed" /\ k \in kept[n]
    /\ observedRevision' = [observedRevision EXCEPT ![n] = IF NewestStays /\ @ > k THEN @ ELSE k]
    /\ Becomes(n, k, "done")
    /\ UNCHANGED <<latest, kept, desired, access, push, died>>
ApplyFails(n, k) ==
    /\ Serves(n) /\ applyJobs[n][k].status = "claimed"
    /\ Becomes(n, k, "failed")
    /\ UNCHANGED <<latest, kept, desired, observedRevision, access, push, died>>

\* It stopped with the job, and the ten minutes are over.
ClaimExpires(n, k) ==
    /\ applyJobs[n][k].status = "claimed"
    /\ Becomes(n, k, "expired")
    /\ UNCHANGED <<latest, kept, desired, observedRevision, access, push, died>>

-----------------------------------------------------------------------------
(* The reaper, the retry of a failed job, and the node's key *)

\* Every expired claim of the fleet, in one statement: the unique index may refuse it as a whole.
Reaped ==
    [n \in Nodes |-> [k \in NodeRevision |->
        LET job == applyJobs[n][k]
        IN IF job.status # "expired" THEN job
           ELSE [status |-> IF job.attempts + 1 >= MaxAttempts THEN "failed" ELSE "pending", attempts |-> job.attempts + 1]]]
Accepted(js) == \A n \in Nodes : Cardinality(Pending(n, js)) <= 1
reap_expired_job_claims ==
    /\ \E n \in Nodes, k \in NodeRevision : applyJobs[n][k].status = "expired"
    /\ \A n \in Nodes : Undisturbed(n) \/ Reaped[n] = applyJobs[n]
    /\ Accepted(Reaped)
    /\ applyJobs' = Reaped
    /\ UNCHANGED <<latest, kept, desired, observedRevision, access, push, died>>

\* The retention tick leaves the newest revisions of a node.
Newest(n) == {k \in kept[n] : Cardinality({j \in kept[n] : j > k}) < Keep}
pruneNodeRevisions(n) ==
    /\ kept[n] # Newest(n) /\ kept' = [kept EXCEPT ![n] = Newest(n)]
    /\ UNCHANGED <<latest, desired, observedRevision, applyJobs, access, push, died>>

RetryJob(n, k) ==
    /\ applyJobs[n][k].status = "failed" /\ Pending(n, applyJobs) = {} /\ Undisturbed(n)
    /\ applyJobs' = [applyJobs EXCEPT ![n][k] = [status |-> "pending", attempts |-> 0]]
    /\ UNCHANGED <<latest, kept, desired, observedRevision, access, push, died>>

\* revoke_node_key_and_transition: the key, and every job that is not finished.
Quarantine(n) ==
    /\ access[n].state = "in service"
    /\ access' = [access EXCEPT ![n] = [state |-> "quarantined", key |-> FALSE]]
    /\ applyJobs' = [applyJobs EXCEPT ![n] =
                        [k \in NodeRevision |-> IF @[k].status \in {"pending", "claimed", "expired"}
                                            THEN [@[k] EXCEPT !.status = "failed"] ELSE @[k]]]
    /\ UNCHANGED <<latest, kept, desired, observedRevision, push, died>>

\* The state is read first; rotate_node_key itself asks for none.
AskRotation(q, n) ==
    /\ StepIs(q, "idle") /\ Undisturbed(n) /\ access[n].state = "in service"
    /\ push' = [push EXCEPT ![q] = [pc |-> "rotate", node |-> n, revision |-> 0]]
    /\ UNCHANGED <<latest, kept, desired, observedRevision, applyJobs, access, died>>
rotate_node_key(q) ==
    /\ StepIs(q, "rotate")
    /\ access' = [access EXCEPT ![push[q].node].key = TRUE]
    /\ Answer(q)
    /\ UNCHANGED <<latest, kept, desired, observedRevision, applyJobs, died>>

-----------------------------------------------------------------------------
RevisionInit ==
    /\ latest = [n \in Nodes |-> 0] /\ desired = latest /\ observedRevision = latest
    /\ kept = [n \in Nodes |-> {}]
    /\ applyJobs = [n \in Nodes |-> [k \in NodeRevision |-> NoJob]]
    /\ access = [n \in Nodes |-> [state |-> "in service", key |-> TRUE]]
    /\ push = [q \in Pushes |-> NoPush]
    /\ died = [n \in Nodes |-> 0]

RevisionNext ==
    \/ \E q \in Pushes : \/ InsertRevision(q) \/ SetDesired(q) \/ Coalesce(q) \/ Enqueue(q) \/ PushDies(q)
                         \/ rotate_node_key(q)
                         \/ \E n \in Nodes : ReadLatest(q, n) \/ AskRotation(q, n)
    \/ \E n \in Nodes, k \in NodeRevision : \/ Claims(n, k) \/ Applies(n, k) \/ ApplyFails(n, k)
                                        \/ ClaimExpires(n, k) \/ RetryJob(n, k)
    \/ \E n \in Nodes : Quarantine(n) \/ pruneNodeRevisions(n)
    \/ reap_expired_job_claims

RevisionSpec == RevisionInit /\ [][RevisionNext]_revisionVars

\* The tick runs every minute, for ever.
FairRevisionSpec == RevisionSpec /\ WF_revisionVars(reap_expired_job_claims)

-----------------------------------------------------------------------------
(* Properties *)

Idle(n) == /\ \A q \in Pushes : push[q].node # n
           /\ \A k \in NodeRevision : applyJobs[n][k].status \notin {"pending", "claimed", "expired"}

\* A node with nothing left to do has the newest revision, or the job of that revision failed for all
\* to see: coalescing, re-queued claims and retries lose none (node-revisions.js:40-60).  And however
\* many pushes ended half-way, fewer than NODE_REVISIONS_KEEP, the revision it should have can still be
\* fetched (pruneNodeRevisions).
NewestWins ==
    \A n \in Nodes : Idle(n)
        => /\ \/ died[n] > 0
              \/ desired[n] = latest[n] /\ observedRevision[n] = latest[n]
              \/ latest[n] > 0 /\ applyJobs[n][latest[n]].status = "failed"
           /\ died[n] < Keep => desired[n] \in kept[n] \cup {0}

\* A claim that expired is re-queued or given up (20261007000000_job_claim_tokens.sql:10-11,
\* "re-queuing as `pending` is always safe").
ExpiredIsReaped ==
    \A n \in Nodes, k \in NodeRevision : applyJobs[n][k].status = "expired" ~> applyJobs[n][k].status # "expired"
=============================================================================
