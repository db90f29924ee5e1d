------------------------------- MODULE NodesProofs -------------------------------
(***************************************************************************)
(* Proofs about modules that MCNodes checks, for every value of their      *)
(* constants: the revisions of a node's configuration, the snapshots of    *)
(* the credentials that its clients may use, Telegram linking, the event   *)
(* channel of the agents, the placement of devices on servers, and what is *)
(* counted of a node's traffic.                                            *)
(*                                                                         *)
(* Node revisions.  A node with nothing left to do has its newest revision *)
(* or a failed job of it, and can still fetch the one it should have, when *)
(* a push overlaps nothing and the agent does not go back                  *)
(* (NewestWinsCorrect assumes OneAtATime and NewestStays, as the runs do). *)
(* The invariant keeps count: the desired revision is behind the newest by *)
(* no more than the pushes that died, and one in progress (Versions); the  *)
(* newest one has a job from the moment its push is over, and a job that   *)
(* is done was applied (JobsFit); between Coalesce and Enqueue nothing is  *)
(* pending, so that the insert is not refused (PushFits).                  *)
(*                                                                         *)
(* Agent events.  A node whose request hangs is one that the hub watches,  *)
(* with an answer no staler than the loop's interval (EventsCorrect, with  *)
(* one request of a node at a time and prompt reads).  The invariant says  *)
(* of every answer on its way - of a request, of the loop, in the cache -  *)
(* that it is not older than the last interval (RowFits, LoopFits,         *)
(* FreshFits), and that a request which asks is the only one of its node   *)
(* (AskingFits).                                                           *)
(*                                                                         *)
(* Placement.  A device that nobody is about to place is on servers that   *)
(* its policy allows, and no tick adds a server to a group which has one   *)
(* on its way (PlacementCorrect, with OnePlacement, WithinBudget and       *)
(* OneTick).  The invariant follows the policy through a placement: what   *)
(* it will write suits the policy that it read, and the policy it read is  *)
(* the one that is wanted, unless the device is due again (PlacingFits).   *)
(*                                                                         *)
(* Traffic.  The days never have more bytes than passed, and all between   *)
(* the first and the last sample while nothing was restarted or forgotten  *)
(* (TrafficCorrect, with samples in order and a steady clock).  What had   *)
(* passed when a sample was taken is not in the state: the invariant says  *)
(* that there are such numbers which every difference fits (PassedFits).   *)
(***************************************************************************)
EXTENDS AgentEvents, AuthorizationSnapshots, NodeRevisions, NodeTraffic, Placement, TelegramLinking, FiniteSetTheorems, TLAPS

-----------------------------------------------------------------------------
(* Node revisions *)

\* A push whose revision is inserted, but not yet desired; and one whose job is yet to come.
Desiring(n) == \E q \in Pushes : push[q].node = n /\ push[q].pc = "desire"
Between(n) == \E q \in Pushes : push[q].node = n /\ push[q].pc \in {"desire", "coalesce", "enqueue"}

\* What a push carries fits the step it is at.
PushFits(q) ==
    LET n == push[q].node
        pc == push[q].pc
    IN /\ pc = "idle" <=> n = "none"
       /\ pc = "insert" => push[q].revision = latest[n] + 1
       /\ pc \in {"desire", "coalesce", "enqueue"} => push[q].revision = latest[n] /\ latest[n] > 0
       /\ pc \in {"coalesce", "enqueue"} => desired[n] = latest[n]
       /\ pc = "enqueue" => Pending(n, applyJobs) = {}

\* No two pushes are about one node.
OnePush(q, r) == push[q].node = push[r].node /\ push[q].node # "none" => q = r

\* The numbers of a node's revisions.
Versions(n) ==
    /\ kept[n] \subseteq 1..latest[n] /\ latest[n] \in kept[n] \cup {0}
    /\ observedRevision[n] <= latest[n] /\ desired[n] <= latest[n]
    /\ latest[n] - desired[n] <= died[n] + (IF Desiring(n) THEN 1 ELSE 0)
    /\ desired[n] \in kept[n] \cup {0} \/ latest[n] - desired[n] >= Keep

\* The jobs of a node's revisions.
JobsFit(n) ==
    /\ latest[n] > 0 /\ died[n] = 0 /\ ~Between(n) => applyJobs[n][latest[n]].status # "none"
    /\ \A k \in NodeRevision : applyJobs[n][k].status = "done" => k <= observedRevision[n]

\* A job that may expire may do so once more.
AttemptLeft(n, k) ==
    applyJobs[n][k].status \in {"pending", "claimed", "expired"} => applyJobs[n][k].attempts < MaxAttempts

TypeInv ==
    /\ RevisionTypeOK
    /\ \A n \in Nodes, k \in NodeRevision : AttemptLeft(n, k)

RevisionInv ==
    /\ TypeInv
    /\ \A q \in Pushes : PushFits(q)
    /\ \A q, r \in Pushes : OnePush(q, r)
    /\ \A n \in Nodes : Versions(n) /\ JobsFit(n)

-----------------------------------------------------------------------------
(* Types *)

PushRecord == [pc : {"idle", "insert", "desire", "coalesce", "enqueue", "rotate"},
               node : Nodes \cup {"none"}, revision : 0..MaxNodeRevision]
Versioned == [Nodes -> 0..MaxNodeRevision]

LEMMA Numbers ==
    /\ MaxNodeRevision \in Nat /\ MaxDeaths \in Nat /\ MaxAttempts \in Nat \ {0} /\ Keep \in Nat \ {0}
    /\ "none" \notin Nodes /\ NodeRevision = 1..MaxNodeRevision
BY RevisionParameters DEF NodeRevision

LEMMA TypesOf ==
    ASSUME RevisionTypeOK
    PROVE  /\ latest \in Versioned /\ desired \in Versioned /\ observedRevision \in Versioned
           /\ kept \in [Nodes -> SUBSET NodeRevision]
           /\ applyJobs \in [Nodes -> [NodeRevision -> Job]]
           /\ push \in [Pushes -> PushRecord]
           /\ died \in [Nodes -> 0..MaxDeaths]
           /\ access \in [Nodes -> [state : {"in service", "quarantined"}, key : BOOLEAN]]
BY DEF RevisionTypeOK, Versioned, PushRecord

LEMMA TypeFrom ==
    ASSUME latest' \in Versioned, desired' \in Versioned, observedRevision' \in Versioned,
           kept' \in [Nodes -> SUBSET NodeRevision],
           applyJobs' \in [Nodes -> [NodeRevision -> Job]],
           push' \in [Pushes -> PushRecord], died' \in [Nodes -> 0..MaxDeaths],
           access' \in [Nodes -> [state : {"in service", "quarantined"}, key : BOOLEAN]]
    PROVE  RevisionTypeOK'
BY DEF RevisionTypeOK, Versioned, PushRecord

\* A push that moves on or ends stays one, and so does a job that gets another status.
LEMMA PushType ==
    ASSUME RevisionTypeOK, NEW q \in Pushes,
           push' = [push EXCEPT ![q] = NoPush]
           \/ \E pc \in {"desire", "coalesce", "enqueue"} : push' = [push EXCEPT ![q].pc = pc]
    PROVE  push' \in [Pushes -> PushRecord]
<1>1. push \in [Pushes -> PushRecord] /\ push[q] \in PushRecord
  BY TypesOf
<1>2. NoPush \in PushRecord
  BY Numbers DEF NoPush, PushRecord
<1>3. \A pc \in {"desire", "coalesce", "enqueue"} : [push[q] EXCEPT !.pc = pc] \in PushRecord
  BY <1>1 DEF PushRecord
<1>4. CASE push' = [push EXCEPT ![q] = NoPush]
  BY <1>1, <1>2, <1>4
<1>5. CASE \E pc \in {"desire", "coalesce", "enqueue"} : push' = [push EXCEPT ![q].pc = pc]
  BY <1>1, <1>3, <1>5
<1>6. QED
  BY <1>4, <1>5

LEMMA JobType ==
    ASSUME RevisionTypeOK, NEW n \in Nodes, NEW k \in NodeRevision,
           NEW status \in {"none", "pending", "claimed", "expired", "done", "failed"}
    PROVE  [applyJobs EXCEPT ![n][k].status = status] \in [Nodes -> [NodeRevision -> Job]]
<1>1. applyJobs \in [Nodes -> [NodeRevision -> Job]]
  BY TypesOf
<1>2. applyJobs[n][k] \in Job /\ applyJobs[n] \in [NodeRevision -> Job]
  BY <1>1
<1>3. [applyJobs[n][k] EXCEPT !.status = status] \in Job
  BY <1>2 DEF Job
<1>4. [applyJobs[n] EXCEPT ![k].status = status] \in [NodeRevision -> Job]
  BY <1>2, <1>3
<1>5. QED
  BY <1>1, <1>4

LEMMA NoJobType == NoJob \in Job /\ [status |-> "pending", attempts |-> 0] \in Job
BY Numbers DEF NoJob, Job

LEMMA TypeInit == RevisionInit => TypeInv
<1> SUFFICES ASSUME RevisionInit PROVE TypeInv
  OBVIOUS
<1>1. /\ latest \in Versioned /\ desired \in Versioned /\ observedRevision \in Versioned
      /\ kept \in [Nodes -> SUBSET NodeRevision] /\ died \in [Nodes -> 0..MaxDeaths]
      /\ access \in [Nodes -> [state : {"in service", "quarantined"}, key : BOOLEAN]]
  <2>1. 0 \in 0..MaxNodeRevision /\ 0 \in 0..MaxDeaths
    BY Numbers
  <2>2. /\ latest = [n \in Nodes |-> 0] /\ desired = [n \in Nodes |-> 0]
        /\ observedRevision = [n \in Nodes |-> 0] /\ died = [n \in Nodes |-> 0]
    BY DEF RevisionInit
  <2>3. /\ kept = [n \in Nodes |-> {}]
        /\ access = [n \in Nodes |-> [state |-> "in service", key |-> TRUE]]
    BY DEF RevisionInit
  <2>4. QED
    BY <2>1, <2>2, <2>3 DEF Versioned
<1>2. applyJobs \in [Nodes -> [NodeRevision -> Job]]
  BY NoJobType DEF RevisionInit
<1>3. push \in [Pushes -> PushRecord]
  <2>1. NoPush \in PushRecord
    BY Numbers DEF PushRecord, NoPush
  <2>2. QED
    BY <2>1 DEF RevisionInit
<1>4. RevisionTypeOK
  BY <1>1, <1>2, <1>3 DEF RevisionTypeOK, Versioned, PushRecord
<1>5. \A n \in Nodes, k \in NodeRevision : AttemptLeft(n, k)
  BY DEF RevisionInit, AttemptLeft, NoJob
<1>6. QED
  BY <1>4, <1>5 DEF TypeInv

\* A push's step changes a job to none or to a new one, if any.
LEMMA TypeOfPush ==
    ASSUME TypeInv, NEW q \in Pushes,
           \/ InsertRevision(q) \/ SetDesired(q) \/ Coalesce(q) \/ Enqueue(q) \/ PushDies(q)
           \/ rotate_node_key(q) \/ \E n \in Nodes : ReadLatest(q, n) \/ AskRotation(q, n)
    PROVE  TypeInv'
<1>0. RevisionTypeOK /\ \A n \in Nodes, k \in NodeRevision : AttemptLeft(n, k)
  BY DEF TypeInv
<1>1. CASE InsertRevision(q)
  <2>1. push' \in [Pushes -> PushRecord]
    BY <1>0, <1>1, PushType DEF InsertRevision, StepTo, Answer
  <2>2. CASE UNCHANGED <<latest, kept>>
    BY <1>0, <1>1, <2>1, <2>2, TypesOf, TypeFrom DEF InsertRevision, TypeInv, AttemptLeft
  <2>3. CASE /\ latest[push[q].node] < push[q].revision
             /\ latest' = [latest EXCEPT ![push[q].node] = push[q].revision]
             /\ kept' = [kept EXCEPT ![push[q].node] = @ \cup {push[q].revision}]
    <3>1. push[q].revision \in 0..MaxNodeRevision /\ push[q].node \in Nodes \cup {"none"}
      BY <1>0, TypesOf DEF PushRecord
    <3>2. latest' \in Versioned
      BY <1>0, <2>3, <3>1, TypesOf DEF Versioned
    <3>3. kept' \in [Nodes -> SUBSET NodeRevision]
      <4>1. push[q].node \in Nodes => push[q].revision \in NodeRevision
        <5>1. ASSUME push[q].node \in Nodes PROVE push[q].revision \in NodeRevision
          <6>1. latest[push[q].node] \in 0..MaxNodeRevision
            BY <1>0, <5>1, TypesOf DEF Versioned
          <6>2. QED
            BY <2>3, <3>1, <6>1, Numbers
        <5>2. QED
          BY <5>1
      <4>2. QED
        BY <1>0, <2>3, <3>1, <4>1, TypesOf
    <3>4. QED
      BY <1>0, <1>1, <2>1, <3>2, <3>3, TypesOf, TypeFrom DEF InsertRevision, TypeInv, AttemptLeft
  <2>4. QED
    BY <1>1, <2>2, <2>3 DEF InsertRevision
<1>2. CASE SetDesired(q)
  <2>1. push' \in [Pushes -> PushRecord]
    BY <1>0, <1>2, PushType DEF SetDesired, StepTo
  <2>2. desired' \in Versioned
    BY <1>0, <1>2, TypesOf DEF SetDesired, Versioned, PushRecord
  <2>3. QED
    BY <1>0, <1>2, <2>1, <2>2, TypesOf, TypeFrom DEF SetDesired, TypeInv, AttemptLeft
<1>3. CASE Coalesce(q)
  <2> DEFINE rest(n) == [k \in NodeRevision |->
                            IF applyJobs[n][k].status = "pending" THEN NoJob ELSE applyJobs[n][k]]
  <2>1. push' \in [Pushes -> PushRecord]
    BY <1>0, <1>3, PushType DEF Coalesce, StepTo
  <2>2. applyJobs' = [applyJobs EXCEPT ![push[q].node] = rest(push[q].node)]
    BY <1>3 DEF Coalesce
  <2>3. \A n \in Nodes : rest(n) \in [NodeRevision -> Job]
    BY <1>0, TypesOf, NoJobType, ZenonT(60)
  <2>4. applyJobs' \in [Nodes -> [NodeRevision -> Job]]
    BY <1>0, <2>2, <2>3, TypesOf, ZenonT(60)
  <2>5. \A n \in Nodes, k \in NodeRevision : applyJobs'[n][k] = applyJobs[n][k] \/ applyJobs'[n][k] = NoJob
    BY <1>0, <2>2, TypesOf
  <2>6. \A n \in Nodes, k \in NodeRevision : AttemptLeft(n, k)'
    BY <1>0, <2>5 DEF AttemptLeft, NoJob
  <2>7. QED
    BY <1>0, <1>3, <2>1, <2>4, <2>6, TypesOf, TypeFrom DEF Coalesce, TypeInv
<1>4. CASE Enqueue(q)
  <2> DEFINE new == [status |-> "pending", attempts |-> 0]
  <2>1. push' \in [Pushes -> PushRecord]
    BY <1>0, <1>4, PushType DEF Enqueue, Answer
  <2>2. applyJobs' = applyJobs \/ applyJobs' = [applyJobs EXCEPT ![push[q].node][push[q].revision] = new]
    BY <1>4 DEF Enqueue
  <2>0. applyJobs \in [Nodes -> [NodeRevision -> Job]] /\ new \in Job
    BY <1>0, TypesOf, NoJobType
  <2> HIDE DEF new
  <2>3. applyJobs' \in [Nodes -> [NodeRevision -> Job]]
    BY <2>0, <2>2
  <2>4. \A n \in Nodes, k \in NodeRevision : applyJobs'[n][k] = applyJobs[n][k] \/ applyJobs'[n][k] = new
    BY <2>0, <2>2
  <2>5. \A n \in Nodes, k \in NodeRevision : AttemptLeft(n, k)'
    BY <1>0, <2>4, Numbers DEF AttemptLeft, new
  <2>6. QED
    BY <1>0, <1>4, <2>1, <2>3, <2>5, TypesOf, TypeFrom DEF Enqueue, TypeInv
<1>5. CASE PushDies(q)
  <2>1. push' \in [Pushes -> PushRecord]
    BY <1>0, <1>5, PushType DEF PushDies, Answer
  <2>2. died' \in [Nodes -> 0..MaxDeaths]
    <3>1. died \in [Nodes -> 0..MaxDeaths]
      BY <1>0, TypesOf
    <3>2. push[q].node \in Nodes => died[push[q].node] + 1 \in 0..MaxDeaths
      BY <1>5, <3>1, Numbers DEF PushDies
    <3>3. died' = [died EXCEPT ![push[q].node] = died[push[q].node] + 1]
      BY <1>5 DEF PushDies
    <3>4. QED
      BY <3>1, <3>2, <3>3
  <2>3. QED
    BY <1>0, <1>5, <2>1, <2>2, TypesOf, TypeFrom DEF PushDies, TypeInv, AttemptLeft
<1>6. CASE rotate_node_key(q)
  <2>1. push' \in [Pushes -> PushRecord]
    BY <1>0, <1>6, PushType DEF rotate_node_key, Answer
  <2>2. access' \in [Nodes -> [state : {"in service", "quarantined"}, key : BOOLEAN]]
    BY <1>0, <1>6, TypesOf DEF rotate_node_key
  <2>3. QED
    BY <1>0, <1>6, <2>1, <2>2, TypesOf, TypeFrom DEF rotate_node_key, TypeInv, AttemptLeft
<1>7. ASSUME NEW n \in Nodes, ReadLatest(q, n) PROVE TypeInv'
  <2>1. [pc |-> "insert", node |-> n, revision |-> latest[n] + 1] \in PushRecord
    <3>1. latest[n] \in 0..MaxNodeRevision /\ latest[n] < MaxNodeRevision
      BY <1>0, <1>7, TypesOf DEF ReadLatest, Versioned
    <3>2. latest[n] + 1 \in 0..MaxNodeRevision
      BY <3>1, Numbers
    <3>3. QED
      BY <3>2 DEF PushRecord
  <2>2. push' \in [Pushes -> PushRecord]
    BY <1>0, <1>7, <2>1, TypesOf DEF ReadLatest
  <2>3. QED
    BY <1>0, <1>7, <2>2, TypesOf, TypeFrom DEF ReadLatest, TypeInv, AttemptLeft
<1>8. ASSUME NEW n \in Nodes, AskRotation(q, n) PROVE TypeInv'
  <2>1. [pc |-> "rotate", node |-> n, revision |-> 0] \in PushRecord
    BY Numbers DEF PushRecord
  <2>2. push' \in [Pushes -> PushRecord]
    BY <1>0, <1>8, <2>1, TypesOf DEF AskRotation
  <2>3. QED
    BY <1>0, <1>8, <2>2, TypesOf, TypeFrom DEF AskRotation, TypeInv, AttemptLeft
<1>9. QED
  BY <1>1, <1>2, <1>3, <1>4, <1>5, <1>6, <1>7, <1>8

\* A job that gets another status keeps its attempts.
LEMMA Became ==
    ASSUME TypeInv, NEW n \in Nodes, NEW k \in NodeRevision,
           NEW status \in {"claimed", "expired", "done", "failed"}, Becomes(n, k, status),
           status \in {"claimed", "expired"} => applyJobs[n][k].status \in {"pending", "claimed"}
    PROVE  /\ applyJobs' \in [Nodes -> [NodeRevision -> Job]]
           /\ applyJobs'[n][k].status = status
           /\ \A m \in Nodes, j \in NodeRevision : m # n \/ j # k => applyJobs'[m][j] = applyJobs[m][j]
           /\ \A m \in Nodes, j \in NodeRevision : AttemptLeft(m, j)'
<1>1. applyJobs \in [Nodes -> [NodeRevision -> Job]] /\ applyJobs[n] \in [NodeRevision -> Job]
      /\ applyJobs[n][k] \in Job
  BY TypesOf DEF TypeInv
<1>2. applyJobs' \in [Nodes -> [NodeRevision -> Job]]
  BY JobType DEF Becomes, TypeInv
<1>3. applyJobs'[n][k] = [applyJobs[n][k] EXCEPT !.status = status]
  BY <1>1 DEF Becomes
<1>4. applyJobs'[n][k].status = status /\ applyJobs'[n][k].attempts = applyJobs[n][k].attempts
  BY <1>1, <1>3 DEF Job
<1>5. \A m \in Nodes, j \in NodeRevision : m # n \/ j # k => applyJobs'[m][j] = applyJobs[m][j]
  BY <1>1 DEF Becomes
<1>6. \A m \in Nodes, j \in NodeRevision : AttemptLeft(m, j)
  BY DEF TypeInv
<1>7. AttemptLeft(n, k)'
  BY <1>4, <1>6 DEF AttemptLeft
<1>8. \A m \in Nodes, j \in NodeRevision : m # n \/ j # k => AttemptLeft(m, j)'
  BY <1>5, <1>6 DEF AttemptLeft
<1>9. QED
  BY <1>2, <1>4, <1>5, <1>7, <1>8

\* What the reaper makes of a job.
ReapedJob(job) ==
    IF job.status # "expired" THEN job
    ELSE [status |-> IF job.attempts + 1 >= MaxAttempts THEN "failed" ELSE "pending",
          attempts |-> job.attempts + 1]

LEMMA ReapedJobs ==
    ASSUME TypeInv, reap_expired_job_claims
    PROVE  /\ applyJobs' \in [Nodes -> [NodeRevision -> Job]]
           /\ \A n \in Nodes, k \in NodeRevision :
                 applyJobs'[n][k] = ReapedJob(applyJobs[n][k]) /\ AttemptLeft(n, k)'
<1>1. applyJobs' = [n \in Nodes |-> [k \in NodeRevision |-> ReapedJob(applyJobs[n][k])]]
  BY DEF reap_expired_job_claims, Reaped, ReapedJob
<1>2. ASSUME NEW n \in Nodes, NEW k \in NodeRevision
      PROVE  ReapedJob(applyJobs[n][k]) \in Job /\ AttemptLeft(n, k)'
  <2>1. applyJobs[n][k] \in Job /\ AttemptLeft(n, k)
    BY TypesOf DEF TypeInv
  <2>2. applyJobs'[n][k] = ReapedJob(applyJobs[n][k])
    BY <1>1
  <2>3. CASE applyJobs[n][k].status # "expired"
    BY <2>1, <2>2, <2>3 DEF ReapedJob, AttemptLeft
  <2>4. CASE applyJobs[n][k].status = "expired"
    <3>1. applyJobs[n][k].attempts < MaxAttempts /\ applyJobs[n][k].attempts \in Nat
      BY <2>1, <2>4, Numbers DEF AttemptLeft, Job
    <3>2. applyJobs[n][k].attempts + 1 \in 0..MaxAttempts
      BY <3>1, Numbers
    <3>3. QED
      BY <2>2, <2>4, <3>1, <3>2, Numbers DEF ReapedJob, AttemptLeft, Job
  <2>5. QED
    BY <2>3, <2>4
<1>3. QED
  BY <1>1, <1>2

LEMMA TypeNext ==
    ASSUME TypeInv, [RevisionNext]_revisionVars
    PROVE  TypeInv'
<1>0. RevisionTypeOK /\ \A n \in Nodes, k \in NodeRevision : AttemptLeft(n, k)
  BY DEF TypeInv
<1>1. ASSUME NEW q \in Pushes,
             \/ InsertRevision(q) \/ SetDesired(q) \/ Coalesce(q) \/ Enqueue(q) \/ PushDies(q)
             \/ rotate_node_key(q) \/ \E n \in Nodes : ReadLatest(q, n) \/ AskRotation(q, n)
      PROVE  TypeInv'
  BY <1>1, TypeOfPush
<1>2. ASSUME NEW n \in Nodes, NEW k \in NodeRevision, Claims(n, k) PROVE TypeInv'
  <2>1. applyJobs[n][k].status = "pending" /\ Becomes(n, k, "claimed")
    BY <1>2 DEF Claims, Pending
  <2>2. QED
    BY <1>0, <1>2, <2>1, Became, TypesOf, TypeFrom DEF Claims, TypeInv
<1>3. ASSUME NEW n \in Nodes, NEW k \in NodeRevision, Applies(n, k) PROVE TypeInv'
  <2>1. Becomes(n, k, "done")
    BY <1>3 DEF Applies
  <2>2. observedRevision' \in Versioned
    <3>1. observedRevision \in Versioned /\ k \in 0..MaxNodeRevision
      <4>1. observedRevision \in Versioned
        BY <1>0, TypesOf
      <4>2. k \in 0..MaxNodeRevision
        BY Numbers
      <4>3. QED
        BY <4>1, <4>2
    <3>2. PICK v \in 0..MaxNodeRevision : observedRevision' = [observedRevision EXCEPT ![n] = v]
      <4> DEFINE v == IF NewestStays /\ observedRevision[n] > k THEN observedRevision[n] ELSE k
      <4>1. v \in 0..MaxNodeRevision
        BY <3>1 DEF Versioned
      <4>2. observedRevision' = [observedRevision EXCEPT ![n] = v]
        BY <1>3 DEF Applies
      <4>3. QED
        BY <4>1, <4>2
    <3>3. QED
      BY <3>1, <3>2 DEF Versioned
  <2>3. QED
    BY <1>0, <1>3, <2>1, <2>2, Became, TypesOf, TypeFrom DEF Applies, TypeInv
<1>4. ASSUME NEW n \in Nodes, NEW k \in NodeRevision, ApplyFails(n, k) PROVE TypeInv'
  <2>1. Becomes(n, k, "failed")
    BY <1>4 DEF ApplyFails
  <2>2. QED
    BY <1>0, <1>4, <2>1, Became, TypesOf, TypeFrom DEF ApplyFails, TypeInv
<1>5. ASSUME NEW n \in Nodes, NEW k \in NodeRevision, ClaimExpires(n, k) PROVE TypeInv'
  <2>1. applyJobs[n][k].status = "claimed" /\ Becomes(n, k, "expired")
    BY <1>5 DEF ClaimExpires
  <2>2. QED
    BY <1>0, <1>5, <2>1, Became, TypesOf, TypeFrom DEF ClaimExpires, TypeInv
<1>6. ASSUME NEW n \in Nodes, NEW k \in NodeRevision, RetryJob(n, k) PROVE TypeInv'
  <2> DEFINE new == [status |-> "pending", attempts |-> 0]
  <2>1. applyJobs' = [applyJobs EXCEPT ![n][k] = new]
    BY <1>6 DEF RetryJob
  <2>2. applyJobs \in [Nodes -> [NodeRevision -> Job]] /\ new \in Job /\ new.attempts = 0
    BY <1>0, TypesOf, NoJobType
  <2> HIDE DEF new
  <2>3. applyJobs' \in [Nodes -> [NodeRevision -> Job]]
    BY <2>1, <2>2
  <2>4. \A m \in Nodes, j \in NodeRevision : applyJobs'[m][j] = applyJobs[m][j] \/ applyJobs'[m][j] = new
    BY <2>1, <2>2
  <2>5. \A m \in Nodes, j \in NodeRevision : AttemptLeft(m, j)'
    BY <1>0, <2>2, <2>4, Numbers DEF AttemptLeft
  <2>6. QED
    BY <1>0, <1>6, <2>3, <2>5, TypesOf, TypeFrom DEF RetryJob, TypeInv
<1>7. ASSUME NEW n \in Nodes, Quarantine(n) PROVE TypeInv'
  <2> DEFINE rest == [k \in NodeRevision |->
                         IF applyJobs[n][k].status \in {"pending", "claimed", "expired"}
                         THEN [applyJobs[n][k] EXCEPT !.status = "failed"] ELSE applyJobs[n][k]]
  <2>1. applyJobs' = [applyJobs EXCEPT ![n] = rest]
    BY <1>7 DEF Quarantine
  <2>2. applyJobs \in [Nodes -> [NodeRevision -> Job]]
    BY <1>0, TypesOf
  <2>3. \A k \in NodeRevision : [applyJobs[n][k] EXCEPT !.status = "failed"] \in Job
    BY <2>2 DEF Job
  <2>4. rest \in [NodeRevision -> Job]
    BY <2>2, <2>3
  <2>5. \A k \in NodeRevision : rest[k].status \notin {"pending", "claimed", "expired"}
    BY <2>2 DEF Job
  <2> HIDE DEF rest
  <2>6. applyJobs' \in [Nodes -> [NodeRevision -> Job]]
    BY <2>1, <2>2, <2>4
  <2>7. \A m \in Nodes : applyJobs'[m] = IF m = n THEN rest ELSE applyJobs[m]
    BY <2>1, <2>2
  <2>8. \A m \in Nodes, j \in NodeRevision : AttemptLeft(m, j)'
    BY <1>0, <2>5, <2>7 DEF AttemptLeft
  <2>9. access' \in [Nodes -> [state : {"in service", "quarantined"}, key : BOOLEAN]]
    BY <1>0, <1>7, TypesOf DEF Quarantine
  <2>10. QED
    BY <1>0, <1>7, <2>6, <2>8, <2>9, TypesOf, TypeFrom DEF Quarantine, TypeInv
<1>8. ASSUME NEW n \in Nodes, pruneNodeRevisions(n) PROVE TypeInv'
  <2>1. kept' \in [Nodes -> SUBSET NodeRevision]
    BY <1>0, <1>8, TypesOf DEF pruneNodeRevisions, Newest
  <2>2. QED
    BY <1>0, <1>8, <2>1, TypesOf, TypeFrom DEF pruneNodeRevisions, TypeInv, AttemptLeft
<1>9. CASE reap_expired_job_claims
  BY <1>0, <1>9, ReapedJobs, TypesOf, TypeFrom DEF reap_expired_job_claims, TypeInv
<1>10. CASE UNCHANGED revisionVars
  <2>1. /\ latest' = latest /\ kept' = kept /\ desired' = desired /\ died' = died
        /\ observedRevision' = observedRevision /\ applyJobs' = applyJobs /\ access' = access /\ push' = push
    BY <1>10 DEF revisionVars
  <2>2. QED
    BY <1>0, <2>1, TypesOf, TypeFrom DEF TypeInv, AttemptLeft
<1>11. QED
  BY <1>1, <1>2, <1>3, <1>4, <1>5, <1>6, <1>7, <1>8, <1>9, <1>10 DEF RevisionNext

\* The tables, the pushes and the agents' answers have their types, and no job is tried more often than
\* MaxAttempts, with or without overlapping pushes.
THEOREM RevisionTypeCorrect == RevisionSpec => []RevisionTypeOK
<1>1. TypeInv => RevisionTypeOK
  BY DEF TypeInv
<1>2. QED
  BY <1>1, TypeInit, TypeNext, PTL DEF RevisionSpec

-----------------------------------------------------------------------------
(* Steps of a push *)

\* Push q, the only one about node n, if any is, becomes p.
Turns(q, n, p) ==
    /\ push[q].node = n \/ \A r \in Pushes : push[r].node # n
    /\ push[q].node \in {n, "none"} /\ p.node \in {n, "none"}
    /\ push' = [push EXCEPT ![q] = p]

\* Then the pushes about other nodes stay as they are.
Turned(q, n, p) ==
    /\ push'[q] = p /\ \A r \in Pushes : r # q => push'[r] = push[r] /\ push[r].node # n
    /\ Desiring(n) <=> (push[q].node = n /\ push[q].pc = "desire")
    /\ Between(n) <=> (push[q].node = n /\ push[q].pc \in {"desire", "coalesce", "enqueue"})
    /\ Desiring(n)' <=> (p.node = n /\ p.pc = "desire")
    /\ Between(n)' <=> (p.node = n /\ p.pc \in {"desire", "coalesce", "enqueue"})
    /\ \A m \in Nodes : m # n => (Desiring(m)' <=> Desiring(m)) /\ (Between(m)' <=> Between(m))
    /\ \A r, o \in Pushes : OnePush(r, o)'

LEMMA Alone ==
    ASSUME RevisionInv, NEW q \in Pushes, NEW n \in Nodes, NEW p \in PushRecord, Turns(q, n, p)
    PROVE  Turned(q, n, p)
<1> USE DEF Turns
<1>1. push \in [Pushes -> PushRecord] /\ "none" \notin Nodes
  BY TypesOf, Numbers DEF RevisionInv, TypeInv
<1>2. push'[q] = p /\ \A r \in Pushes : r # q => push'[r] = push[r]
  BY <1>1
<1>3. \A r \in Pushes : r # q => push[r].node # n
  BY <1>1 DEF RevisionInv, OnePush
<1>4. /\ Desiring(n) <=> (push[q].node = n /\ push[q].pc = "desire")
      /\ Between(n) <=> (push[q].node = n /\ push[q].pc \in {"desire", "coalesce", "enqueue"})
  BY <1>3 DEF Desiring, Between
<1>5. /\ Desiring(n)' <=> (p.node = n /\ p.pc = "desire")
      /\ Between(n)' <=> (p.node = n /\ p.pc \in {"desire", "coalesce", "enqueue"})
  BY <1>2, <1>3 DEF Desiring, Between
<1>6. ASSUME NEW m \in Nodes, m # n
      PROVE  (Desiring(m)' <=> Desiring(m)) /\ (Between(m)' <=> Between(m))
  <2>1. \A r \in Pushes : push'[r].node = m => push'[r] = push[r]
    BY <1>1, <1>2, <1>6
  <2>2. \A r \in Pushes : push[r].node = m => push'[r] = push[r]
    BY <1>1, <1>2, <1>6
  <2>3. QED
    BY <2>1, <2>2 DEF Desiring, Between
<1>7. \A r, o \in Pushes : OnePush(r, o)'
  BY <1>2, <1>3 DEF RevisionInv, OnePush
<1>8. QED
  BY <1>2, <1>3, <1>4, <1>5, <1>6, <1>7 DEF Turned

\* What a push does to its own node decides.
LEMMA PushStep ==
    ASSUME RevisionInv, TypeInv', NEW q \in Pushes, NEW n \in Nodes, NEW p \in PushRecord,
           Turns(q, n, p),
           \A m \in Nodes : m # n =>
              /\ latest'[m] = latest[m] /\ kept'[m] = kept[m] /\ desired'[m] = desired[m]
              /\ observedRevision'[m] = observedRevision[m] /\ applyJobs'[m] = applyJobs[m]
              /\ died'[m] = died[m],
           PushFits(q)', Versions(n)', JobsFit(n)'
    PROVE  RevisionInv'
<1>1. /\ push'[q] = p /\ \A r \in Pushes : r # q => push'[r] = push[r] /\ push[r].node # n
      /\ \A m \in Nodes : m # n => (Desiring(m)' <=> Desiring(m)) /\ (Between(m)' <=> Between(m))
      /\ \A r, o \in Pushes : OnePush(r, o)'
  BY Alone DEF Turned
<1>2. ASSUME NEW r \in Pushes, r # q PROVE PushFits(r)'
  <2>1. push'[r] = push[r] /\ push[r].node # n /\ PushFits(r) /\ push[r] \in PushRecord
    BY <1>1, <1>2, TypesOf DEF RevisionInv, TypeInv
  <2>2. CASE push[r].node = "none"
    BY <2>1, <2>2, Numbers DEF PushFits, PushRecord
  <2>3. CASE push[r].node \in Nodes
    BY <2>1, <2>3 DEF PushFits, Pending
  <2>4. QED
    BY <2>1, <2>2, <2>3 DEF PushRecord
<1>3. ASSUME NEW m \in Nodes, m # n PROVE Versions(m)' /\ JobsFit(m)'
  <2>1. Versions(m) /\ JobsFit(m)
    BY DEF RevisionInv
  <2>2. Versions(m)'
    BY <1>1, <1>3, <2>1 DEF Versions
  <2>3. JobsFit(m)'
    BY <1>1, <1>3, <2>1 DEF JobsFit
  <2>4. QED
    BY <2>2, <2>3
<1>4. QED
  BY <1>1, <1>2, <1>3 DEF RevisionInv

\* What a push is about, and the numbers of that node.
LEMMA PushOf ==
    ASSUME RevisionInv, NEW q \in Pushes
    PROVE  /\ push[q] \in PushRecord /\ PushFits(q)
           /\ push[q].pc # "idle" => push[q].node \in Nodes
           /\ push[q].revision \in Nat
           /\ [push[q] EXCEPT !.pc = "desire"] \in PushRecord
           /\ NoPush \in PushRecord /\ NoPush.node = "none" /\ NoPush.pc = "idle"
<1>1. push[q] \in PushRecord /\ PushFits(q)
  BY TypesOf DEF RevisionInv, TypeInv
<1>2. QED
  BY <1>1, Numbers DEF PushRecord, PushFits, NoPush

LEMMA NodeOf ==
    ASSUME TypeInv, NEW n \in Nodes
    PROVE  /\ latest[n] \in Nat /\ desired[n] \in Nat /\ observedRevision[n] \in Nat /\ died[n] \in Nat
           /\ latest[n] <= MaxNodeRevision
           /\ applyJobs[n] \in [NodeRevision -> Job] /\ kept[n] \in SUBSET NodeRevision
<1>1. /\ latest \in Versioned /\ desired \in Versioned /\ observedRevision \in Versioned
      /\ kept \in [Nodes -> SUBSET NodeRevision] /\ died \in [Nodes -> 0..MaxDeaths]
      /\ applyJobs \in [Nodes -> [NodeRevision -> Job]]
  BY TypesOf DEF TypeInv
<1>2. /\ latest[n] \in 0..MaxNodeRevision /\ desired[n] \in 0..MaxNodeRevision
      /\ observedRevision[n] \in 0..MaxNodeRevision /\ died[n] \in 0..MaxDeaths
  BY <1>1 DEF Versioned
<1>3. QED
  BY <1>1, <1>2, Numbers

LEMMA InvReadLatest ==
    ASSUME OneAtATime, RevisionInv, TypeInv', NEW q \in Pushes, NEW n \in Nodes, ReadLatest(q, n)
    PROVE  RevisionInv'
<1> DEFINE p == [pc |-> "insert", node |-> n, revision |-> latest[n] + 1]
<1>1. /\ push[q].node = "none" /\ push' = [push EXCEPT ![q] = p]
      /\ \A r \in Pushes : push[r].node # n
  BY PushOf DEF ReadLatest, StepIs, Undisturbed, PushFits
<1>2. p \in PushRecord
  <2>1. push \in [Pushes -> PushRecord] /\ push' \in [Pushes -> PushRecord]
    BY DEF RevisionInv, TypeInv, RevisionTypeOK, PushRecord
  <2>2. QED
    BY <1>1, <2>1
<1>3. /\ latest' = latest /\ kept' = kept /\ desired' = desired /\ observedRevision' = observedRevision
      /\ applyJobs' = applyJobs /\ died' = died
  BY DEF ReadLatest
<1>4. p.pc = "insert" /\ p.node = n /\ p.revision = latest[n] + 1
  OBVIOUS
<1> HIDE DEF p
<1>5. Turns(q, n, p)
  BY <1>1, <1>4 DEF Turns
<1>6. Turned(q, n, p)
  BY <1>2, <1>5, Alone
<1>7. PushFits(q)'
  BY <1>3, <1>4, <1>6, Numbers DEF PushFits, Turned
<1>8. Versions(n) /\ JobsFit(n)
  BY DEF RevisionInv
<1>9. ~Desiring(n) /\ ~Desiring(n)' /\ ~Between(n) /\ ~Between(n)'
  BY <1>1, <1>4, <1>6, Numbers DEF Turned
<1>10. Versions(n)' /\ JobsFit(n)'
  BY <1>3, <1>8, <1>9 DEF Versions, JobsFit
<1>11. QED
  BY <1>2, <1>3, <1>5, <1>7, <1>10, PushStep

\* The next steps of a push: it becomes p, which is of the right type because the state is.
LEMMA TurnsOn ==
    ASSUME RevisionInv, TypeInv', NEW q \in Pushes, push[q].pc # "idle", NEW p,
           push' = [push EXCEPT ![q] = p], p.node \in {push[q].node, "none"}
    PROVE  /\ p \in PushRecord /\ push[q].node \in Nodes
           /\ Turns(q, push[q].node, p) /\ Turned(q, push[q].node, p)
<1>1. push \in [Pushes -> PushRecord] /\ push' \in [Pushes -> PushRecord]
  BY DEF RevisionInv, TypeInv, RevisionTypeOK, PushRecord
<1>2. p \in PushRecord /\ push[q].node \in Nodes
  BY <1>1, PushOf
<1>3. Turns(q, push[q].node, p)
  BY DEF Turns
<1>4. QED
  BY <1>2, <1>3, Alone

LEMMA InvInsert ==
    ASSUME RevisionInv, TypeInv', NEW q \in Pushes, InsertRevision(q)
    PROVE  RevisionInv'
<1>0. PICK n, p : n = push[q].node /\ p = [push[q] EXCEPT !.pc = "desire"]
  OBVIOUS
<1>1. /\ push[q] \in PushRecord /\ PushFits(q) /\ push[q].pc = "insert" /\ n \in Nodes
      /\ push[q].revision = latest[n] + 1
  BY <1>0, PushOf DEF InsertRevision, StepIs, PushFits
<1>2. latest[n] \in Nat /\ latest[n] < push[q].revision
  BY <1>1, NodeOf DEF RevisionInv
<1>3. /\ latest' = [latest EXCEPT ![n] = latest[n] + 1]
      /\ kept' = [kept EXCEPT ![n] = kept[n] \cup {latest[n] + 1}]
      /\ push' = [push EXCEPT ![q].pc = "desire"]
      /\ desired' = desired /\ observedRevision' = observedRevision /\ applyJobs' = applyJobs
      /\ died' = died
  BY <1>0, <1>1, <1>2 DEF InsertRevision, StepTo
<1>4. /\ p.pc = "desire" /\ p.node = n /\ p.revision = latest[n] + 1
      /\ push' = [push EXCEPT ![q] = p]
  BY <1>0, <1>1, <1>3 DEF PushRecord
<1>5. p \in PushRecord /\ Turns(q, n, p) /\ Turned(q, n, p)
  BY <1>0, <1>1, <1>4, TurnsOn
<1>6. /\ latest'[n] = latest[n] + 1 /\ kept'[n] = kept[n] \cup {latest[n] + 1}
      /\ \A m \in Nodes : m # n => latest'[m] = latest[m] /\ kept'[m] = kept[m]
  BY <1>1, <1>3, TypesOf DEF RevisionInv, TypeInv, Versioned
<1>7. PushFits(q)'
  BY <1>2, <1>4, <1>5, <1>6, <1>1, Numbers DEF PushFits, Turned
<1>8. ~Desiring(n) /\ Desiring(n)' /\ Between(n)'
  BY <1>0, <1>1, <1>4, <1>5 DEF Turned
<1>9. Versions(n)'
  <2>1. Versions(n) /\ desired[n] \in Nat /\ observedRevision[n] \in Nat /\ died[n] \in Nat
    BY <1>1, NodeOf DEF RevisionInv
  <2>2. kept'[n] \subseteq 1..latest'[n] /\ latest'[n] \in kept'[n]
    BY <1>2, <1>6, <2>1 DEF Versions
  <2>3. observedRevision'[n] <= latest'[n] /\ desired'[n] <= latest'[n]
        /\ latest'[n] - desired'[n] <= died'[n] + 1
    BY <1>2, <1>3, <1>6, <1>8, <2>1 DEF Versions
  <2>4. desired'[n] \in kept'[n] \cup {0} \/ latest'[n] - desired'[n] >= Keep
    BY <1>2, <1>3, <1>6, <2>1, Numbers DEF Versions
  <2>5. QED
    BY <1>8, <2>2, <2>3, <2>4 DEF Versions
<1>10. JobsFit(n)'
  BY <1>1, <1>3, <1>8 DEF JobsFit, RevisionInv
<1>11. QED
  BY <1>1, <1>3, <1>5, <1>6, <1>7, <1>9, <1>10, PushStep

LEMMA InvSetDesired ==
    ASSUME RevisionInv, TypeInv', NEW q \in Pushes, SetDesired(q)
    PROVE  RevisionInv'
<1>0. PICK n, p : n = push[q].node /\ p = [push[q] EXCEPT !.pc = "coalesce"]
  OBVIOUS
<1>1. /\ push[q] \in PushRecord /\ PushFits(q) /\ push[q].pc = "desire" /\ n \in Nodes
      /\ push[q].revision = latest[n] /\ latest[n] > 0 /\ latest[n] \in Nat
  BY <1>0, PushOf, NodeOf DEF SetDesired, StepIs, PushFits, RevisionInv
<1>2. /\ desired' = [desired EXCEPT ![n] = latest[n]]
      /\ push' = [push EXCEPT ![q].pc = "coalesce"]
      /\ latest' = latest /\ kept' = kept /\ observedRevision' = observedRevision
      /\ applyJobs' = applyJobs /\ died' = died
  BY <1>0, <1>1 DEF SetDesired, StepTo
<1>3. /\ p.pc = "coalesce" /\ p.node = n /\ p.revision = latest[n]
      /\ push' = [push EXCEPT ![q] = p]
  BY <1>0, <1>1, <1>2 DEF PushRecord
<1>4. p \in PushRecord /\ Turns(q, n, p) /\ Turned(q, n, p)
  BY <1>0, <1>1, <1>3, TurnsOn
<1>5. /\ desired'[n] = latest[n] /\ \A m \in Nodes : m # n => desired'[m] = desired[m]
  BY <1>1, <1>2, TypesOf DEF RevisionInv, TypeInv, Versioned
<1>6. PushFits(q)'
  BY <1>1, <1>2, <1>3, <1>4, <1>5, Numbers DEF PushFits, Turned
<1>7. ~Desiring(n)' /\ Between(n)'
  BY <1>3, <1>4 DEF Turned
<1>8. Versions(n)'
  <2>1. Versions(n) /\ died[n] \in Nat
    BY <1>1, NodeOf DEF RevisionInv
  <2>2. QED
    BY <1>1, <1>2, <1>5, <1>7, <2>1 DEF Versions
<1>9. JobsFit(n)'
  BY <1>1, <1>2, <1>7 DEF JobsFit, RevisionInv
<1>10. QED
  BY <1>1, <1>2, <1>4, <1>5, <1>6, <1>8, <1>9, PushStep

LEMMA InvCoalesce ==
    ASSUME RevisionInv, TypeInv', NEW q \in Pushes, Coalesce(q)
    PROVE  RevisionInv'
<1>0. PICK n, p : n = push[q].node /\ p = [push[q] EXCEPT !.pc = "enqueue"]
  OBVIOUS
<1>1. /\ push[q] \in PushRecord /\ PushFits(q) /\ push[q].pc = "coalesce" /\ n \in Nodes
      /\ push[q].revision = latest[n] /\ latest[n] > 0 /\ desired[n] = latest[n]
  BY <1>0, PushOf DEF Coalesce, StepIs, PushFits
<1>2. /\ applyJobs' = [applyJobs EXCEPT ![n] = [k \in NodeRevision |->
            IF applyJobs[n][k].status = "pending" THEN NoJob ELSE applyJobs[n][k]]]
      /\ push' = [push EXCEPT ![q].pc = "enqueue"]
      /\ latest' = latest /\ kept' = kept /\ observedRevision' = observedRevision
      /\ desired' = desired /\ died' = died
  BY <1>0, <1>1 DEF Coalesce, StepTo
<1>3. /\ p.pc = "enqueue" /\ p.node = n /\ p.revision = latest[n]
      /\ push' = [push EXCEPT ![q] = p]
  BY <1>0, <1>1, <1>2 DEF PushRecord
<1>4. p \in PushRecord /\ Turns(q, n, p) /\ Turned(q, n, p)
  BY <1>0, <1>1, <1>3, TurnsOn
<1>5. /\ \A m \in Nodes : m # n => applyJobs'[m] = applyJobs[m]
      /\ \A k \in NodeRevision : applyJobs'[n][k] =
            IF applyJobs[n][k].status = "pending" THEN NoJob ELSE applyJobs[n][k]
  BY <1>1, <1>2, TypesOf DEF RevisionInv, TypeInv
<1>6. \A k \in NodeRevision : /\ applyJobs'[n][k].status # "pending"
                              /\ applyJobs'[n][k].status = "done" => applyJobs[n][k].status = "done"
  BY <1>5 DEF NoJob
<1>7. PushFits(q)'
  <2>1. Pending(n, applyJobs') = {}
    BY <1>6 DEF Pending
  <2>2. push'[q] = p /\ n # "none"
    BY <1>1, <1>4, Numbers DEF Turned
  <2>3. QED
    BY <1>1, <1>2, <1>3, <2>1, <2>2 DEF PushFits
<1>8. ~Desiring(n) /\ ~Desiring(n)' /\ Between(n)'
  BY <1>0, <1>1, <1>3, <1>4 DEF Turned
<1>9. Versions(n)'
  BY <1>1, <1>2, <1>8 DEF Versions, RevisionInv
<1>10. JobsFit(n)'
  BY <1>1, <1>2, <1>6, <1>8 DEF JobsFit, RevisionInv
<1>11. QED
  BY <1>1, <1>2, <1>4, <1>5, <1>7, <1>9, <1>10, PushStep

LEMMA InvEnqueue ==
    ASSUME RevisionInv, TypeInv', NEW q \in Pushes, Enqueue(q)
    PROVE  RevisionInv'
<1>0. PICK n, new : n = push[q].node /\ new = [status |-> "pending", attempts |-> 0]
  OBVIOUS
<1>1. /\ push[q] \in PushRecord /\ PushFits(q) /\ push[q].pc = "enqueue" /\ n \in Nodes
      /\ push[q].revision = latest[n] /\ latest[n] > 0 /\ desired[n] = latest[n]
      /\ Pending(n, applyJobs) = {} /\ latest[n] \in NodeRevision
  <2>1. push[q] \in PushRecord /\ PushFits(q) /\ push[q].pc = "enqueue" /\ n \in Nodes
    BY <1>0, PushOf DEF Enqueue, StepIs
  <2>2. /\ push[q].revision = latest[n] /\ latest[n] > 0 /\ desired[n] = latest[n]
        /\ Pending(n, applyJobs) = {}
    BY <1>0, <2>1 DEF PushFits
  <2>3. latest[n] \in NodeRevision
    BY <2>1, <2>2, NodeOf, Numbers DEF RevisionInv
  <2>4. QED
    BY <2>1, <2>2, <2>3
<1>2. /\ applyJobs' = [applyJobs EXCEPT ![n][latest[n]] = new]
      /\ push' = [push EXCEPT ![q] = NoPush]
      /\ latest' = latest /\ kept' = kept /\ observedRevision' = observedRevision
      /\ desired' = desired /\ died' = died
  BY <1>0, <1>1 DEF Enqueue, Answer
<1>3. NoPush.pc = "idle" /\ NoPush.node = "none"
  BY DEF NoPush
<1>4. NoPush \in PushRecord /\ Turns(q, n, NoPush) /\ Turned(q, n, NoPush)
  BY <1>0, <1>1, <1>2, <1>3, TurnsOn
<1>5. /\ \A m \in Nodes : m # n => applyJobs'[m] = applyJobs[m]
      /\ \A k \in NodeRevision : applyJobs'[n][k] = IF k = latest[n] THEN new ELSE applyJobs[n][k]
  BY <1>1, <1>2, TypesOf DEF RevisionInv, TypeInv
<1>6. PushFits(q)'
  BY <1>3, <1>4 DEF PushFits, Turned
<1>7. ~Desiring(n) /\ ~Desiring(n)'
  BY <1>0, <1>1, <1>3, <1>4 DEF Turned
<1>8. Versions(n)'
  BY <1>1, <1>2, <1>7 DEF Versions, RevisionInv
<1>9. JobsFit(n)'
  <2>1. new.status = "pending"
    BY <1>0
  <2>2. \A k \in NodeRevision : applyJobs[n][k].status = "done" => k <= observedRevision[n]
    BY <1>1 DEF RevisionInv, JobsFit
  <2>3. QED
    BY <1>1, <1>2, <1>5, <2>1, <2>2 DEF JobsFit
<1>10. QED
  BY <1>1, <1>2, <1>4, <1>5, <1>6, <1>8, <1>9, PushStep

LEMMA InvPushDies ==
    ASSUME RevisionInv, TypeInv', NEW q \in Pushes, PushDies(q)
    PROVE  RevisionInv'
<1>0. PICK n : n = push[q].node
  OBVIOUS
<1>1. push[q] \in PushRecord /\ push[q].pc # "idle" /\ n \in Nodes
  BY <1>0, PushOf DEF PushDies
<1>2. /\ died' = [died EXCEPT ![n] = died[n] + 1]
      /\ push' = [push EXCEPT ![q] = NoPush]
      /\ latest' = latest /\ kept' = kept /\ observedRevision' = observedRevision
      /\ desired' = desired /\ applyJobs' = applyJobs
  BY <1>0 DEF PushDies, Answer
<1>3. NoPush.pc = "idle" /\ NoPush.node = "none"
  BY DEF NoPush
<1>4. NoPush \in PushRecord /\ Turns(q, n, NoPush) /\ Turned(q, n, NoPush)
  BY <1>0, <1>1, <1>2, <1>3, TurnsOn
<1>5. died'[n] = died[n] + 1 /\ \A m \in Nodes : m # n => died'[m] = died[m]
  BY <1>1, <1>2, TypesOf DEF RevisionInv, TypeInv
<1>6. PushFits(q)'
  BY <1>3, <1>4 DEF PushFits, Turned
<1>7. ~Desiring(n)'
  BY <1>1, <1>3, <1>4, Numbers DEF Turned
<1>8. Versions(n) /\ JobsFit(n) /\ died[n] \in Nat /\ latest[n] \in Nat /\ desired[n] \in Nat
  BY <1>1, NodeOf DEF RevisionInv
<1>9. Versions(n)'
  BY <1>2, <1>5, <1>7, <1>8 DEF Versions
<1>10. JobsFit(n)'
  BY <1>2, <1>5, <1>8 DEF JobsFit
<1>11. QED
  BY <1>1, <1>2, <1>4, <1>5, <1>6, <1>9, <1>10, PushStep

\* Asking for a key, and the new one.
LEMMA InvAskRotation ==
    ASSUME OneAtATime, RevisionInv, TypeInv', NEW q \in Pushes, NEW n \in Nodes, AskRotation(q, n)
    PROVE  RevisionInv'
<1>0. PICK p : p = [pc |-> "rotate", node |-> n, revision |-> 0]
  OBVIOUS
<1>1. /\ push[q].node = "none" /\ push' = [push EXCEPT ![q] = p]
      /\ \A r \in Pushes : push[r].node # n
  BY <1>0, PushOf DEF AskRotation, StepIs, Undisturbed, PushFits
<1>2. p \in PushRecord /\ p.pc = "rotate" /\ p.node = n
  BY <1>0, Numbers DEF PushRecord
<1>3. /\ latest' = latest /\ kept' = kept /\ desired' = desired /\ observedRevision' = observedRevision
      /\ applyJobs' = applyJobs /\ died' = died
  BY DEF AskRotation
<1>4. Turns(q, n, p)
  BY <1>1, <1>2 DEF Turns
<1>5. Turned(q, n, p)
  BY <1>2, <1>4, Alone
<1>6. PushFits(q)'
  BY <1>2, <1>5, Numbers DEF PushFits, Turned
<1>7. Versions(n) /\ JobsFit(n)
  BY DEF RevisionInv
<1>8. ~Desiring(n) /\ ~Desiring(n)' /\ ~Between(n) /\ ~Between(n)'
  BY <1>1, <1>2, <1>5, Numbers DEF Turned
<1>9. Versions(n)' /\ JobsFit(n)'
  BY <1>3, <1>7, <1>8 DEF Versions, JobsFit
<1>10. QED
  BY <1>2, <1>3, <1>4, <1>6, <1>9, PushStep

LEMMA InvRotate ==
    ASSUME RevisionInv, TypeInv', NEW q \in Pushes, rotate_node_key(q)
    PROVE  RevisionInv'
<1>0. PICK n : n = push[q].node
  OBVIOUS
<1>1. push[q] \in PushRecord /\ push[q].pc = "rotate" /\ n \in Nodes
  BY <1>0, PushOf DEF rotate_node_key, StepIs
<1>2. /\ push' = [push EXCEPT ![q] = NoPush]
      /\ latest' = latest /\ kept' = kept /\ observedRevision' = observedRevision
      /\ desired' = desired /\ applyJobs' = applyJobs /\ died' = died
  BY DEF rotate_node_key, Answer
<1>3. NoPush.pc = "idle" /\ NoPush.node = "none"
  BY DEF NoPush
<1>4. NoPush \in PushRecord /\ Turns(q, n, NoPush) /\ Turned(q, n, NoPush)
  BY <1>0, <1>1, <1>2, <1>3, TurnsOn
<1>5. PushFits(q)'
  BY <1>3, <1>4 DEF PushFits, Turned
<1>6. ~Desiring(n) /\ ~Desiring(n)' /\ ~Between(n) /\ ~Between(n)'
  BY <1>0, <1>1, <1>3, <1>4, Numbers DEF Turned
<1>7. Versions(n) /\ JobsFit(n)
  BY <1>1 DEF RevisionInv
<1>8. Versions(n)' /\ JobsFit(n)'
  BY <1>2, <1>6, <1>7 DEF Versions, JobsFit
<1>9. QED
  BY <1>1, <1>2, <1>4, <1>5, <1>8, PushStep

-----------------------------------------------------------------------------
(* Steps of the jobs, and the retention *)

\* A step that only moves jobs on: none disappears, what is done was applied, and where a push is about
\* to insert its job none becomes pending.
LEMMA JobStep ==
    ASSUME RevisionInv, TypeInv', UNCHANGED <<latest, kept, desired, push, died>>,
           \A n \in Nodes : observedRevision[n] <= observedRevision'[n] /\ observedRevision'[n] <= latest[n],
           \A n \in Nodes, k \in NodeRevision :
              /\ applyJobs[n][k].status # "none" => applyJobs'[n][k].status # "none"
              /\ applyJobs'[n][k].status = "done" => applyJobs[n][k].status = "done" \/ k <= observedRevision'[n]
              /\ applyJobs'[n][k].status = "pending"
                 => applyJobs[n][k].status = "pending" \/ \A q \in Pushes : push[q].node # n
    PROVE  RevisionInv'
<1>0. /\ latest' = latest /\ kept' = kept /\ desired' = desired /\ push' = push /\ died' = died
  OBVIOUS
<1>1. ASSUME NEW q \in Pushes PROVE PushFits(q)'
  <2>1. push[q] \in PushRecord /\ PushFits(q)
    BY PushOf
  <2>2. CASE push[q].pc = "enqueue"
    <3>1. push[q].node \in Nodes /\ Pending(push[q].node, applyJobs) = {}
      BY <2>1, <2>2, PushOf DEF PushFits
    <3>2. \A k \in NodeRevision : applyJobs'[push[q].node][k].status # "pending"
      BY <3>1 DEF Pending
    <3>3. Pending(push[q].node, applyJobs') = {}
      BY <3>2 DEF Pending
    <3>4. QED
      BY <1>0, <2>1, <2>2, <3>3 DEF PushFits
  <2>3. CASE push[q].pc # "enqueue"
    BY <1>0, <2>1, <2>3 DEF PushFits
  <2>4. QED
    BY <2>2, <2>3
<1>2. \A q, r \in Pushes : OnePush(q, r)'
  BY <1>0 DEF RevisionInv, OnePush
<1>3. ASSUME NEW n \in Nodes PROVE Versions(n)' /\ JobsFit(n)'
  <2>1. Versions(n) /\ JobsFit(n)
    BY DEF RevisionInv
  <2>2. (Desiring(n)' <=> Desiring(n)) /\ (Between(n)' <=> Between(n))
    BY <1>0 DEF Desiring, Between
  <2>3. /\ latest[n] \in Nat /\ observedRevision[n] \in Nat /\ observedRevision'[n] \in Nat
        /\ latest[n] <= MaxNodeRevision
    <3>1. latest[n] \in Nat /\ observedRevision[n] \in Nat /\ latest[n] <= MaxNodeRevision
      BY NodeOf DEF RevisionInv
    <3>2. observedRevision'[n] \in 0..MaxNodeRevision
      BY DEF TypeInv, RevisionTypeOK
    <3>3. QED
      BY <3>1, <3>2, Numbers
  <2>4. Versions(n)'
    BY <1>0, <2>1, <2>2 DEF Versions
  <2>5. latest[n] > 0 => latest[n] \in NodeRevision
    BY <2>3, Numbers
  <2>6. latest[n] > 0 /\ died[n] = 0 /\ ~Between(n)' => applyJobs'[n][latest[n]].status # "none"
    BY <2>1, <2>2, <2>5 DEF JobsFit
  <2>7. ASSUME NEW k \in NodeRevision, applyJobs'[n][k].status = "done" PROVE k <= observedRevision'[n]
    <3>1. k \in Nat
      BY Numbers
    <3>2. QED
      BY <2>1, <2>3, <2>7, <3>1 DEF JobsFit
  <2>8. JobsFit(n)'
    BY <1>0, <2>6, <2>7 DEF JobsFit
  <2>9. QED
    BY <2>4, <2>8
<1>4. QED
  BY <1>1, <1>2, <1>3 DEF RevisionInv

\* The agent's steps and the reaper's.
LEMMA InvBecomes ==
    ASSUME RevisionInv, TypeInv', NEW n \in Nodes, NEW k \in NodeRevision,
           NEW status \in {"claimed", "expired", "failed"}, Becomes(n, k, status),
           status \in {"claimed", "expired"} => applyJobs[n][k].status \in {"pending", "claimed"},
           UNCHANGED <<latest, kept, desired, observedRevision, push, died>>
    PROVE  RevisionInv'
<1>1. /\ applyJobs'[n][k].status = status
      /\ \A m \in Nodes, j \in NodeRevision : m # n \/ j # k => applyJobs'[m][j] = applyJobs[m][j]
  BY Became DEF RevisionInv
<1>2. \A m \in Nodes, j \in NodeRevision :
         /\ applyJobs[m][j].status # "none" => applyJobs'[m][j].status # "none"
         /\ applyJobs'[m][j].status = "done" => applyJobs[m][j].status = "done"
         /\ applyJobs'[m][j].status = "pending" => applyJobs[m][j].status = "pending"
  BY <1>1
<1>3. \A m \in Nodes : observedRevision[m] <= observedRevision'[m] /\ observedRevision'[m] <= latest[m]
  BY NodeOf DEF RevisionInv, Versions
<1>4. QED
  BY <1>2, <1>3, JobStep

LEMMA InvApplies ==
    ASSUME NewestStays, RevisionInv, TypeInv', NEW n \in Nodes, NEW k \in NodeRevision, Applies(n, k)
    PROVE  RevisionInv'
<1>1. /\ applyJobs'[n][k].status = "done"
      /\ \A m \in Nodes, j \in NodeRevision : m # n \/ j # k => applyJobs'[m][j] = applyJobs[m][j]
  BY Became DEF RevisionInv, Applies
<1>2. observedRevision \in Versioned /\ \A m \in Nodes : observedRevision[m] <= latest[m]
  BY TypesOf DEF RevisionInv, TypeInv, Versions
<1>3. /\ observedRevision'[n] = IF observedRevision[n] > k THEN observedRevision[n] ELSE k
      /\ \A m \in Nodes : m # n => observedRevision'[m] = observedRevision[m]
  BY <1>2 DEF Applies, Versioned
<1>4. k \in Nat /\ k <= latest[n]
  <2>1. k \in kept[n] /\ kept[n] \subseteq 1..latest[n]
    BY DEF Applies, RevisionInv, Versions
  <2>2. QED
    BY <2>1, NodeOf DEF RevisionInv
<1>5. \A m \in Nodes : observedRevision[m] <= observedRevision'[m] /\ observedRevision'[m] <= latest[m]
  <2>1. \A m \in Nodes : observedRevision[m] \in Nat /\ latest[m] \in Nat
    BY NodeOf DEF RevisionInv
  <2>2. QED
    BY <1>2, <1>3, <1>4, <2>1
<1>6. k <= observedRevision'[n]
  BY <1>3, <1>4, NodeOf DEF RevisionInv
<1>7. \A m \in Nodes, j \in NodeRevision :
         /\ applyJobs[m][j].status # "none" => applyJobs'[m][j].status # "none"
         /\ applyJobs'[m][j].status = "done" => applyJobs[m][j].status = "done" \/ j <= observedRevision'[m]
         /\ applyJobs'[m][j].status = "pending" => applyJobs[m][j].status = "pending"
  BY <1>1, <1>6
<1>8. QED
  BY <1>5, <1>7, JobStep DEF Applies

LEMMA InvRetry ==
    ASSUME OneAtATime, RevisionInv, TypeInv', NEW n \in Nodes, NEW k \in NodeRevision, RetryJob(n, k)
    PROVE  RevisionInv'
<1>0. PICK new : new = [status |-> "pending", attempts |-> 0]
  OBVIOUS
<1>1. applyJobs \in [Nodes -> [NodeRevision -> Job]]
  BY TypesOf DEF RevisionInv, TypeInv
<1>2. \A m \in Nodes, j \in NodeRevision :
         applyJobs'[m][j] = IF m = n /\ j = k THEN new ELSE applyJobs[m][j]
  BY <1>0, <1>1 DEF RetryJob
<1>3. new.status = "pending"
  BY <1>0
<1>4. \A q \in Pushes : push[q].node # n
  BY DEF RetryJob, Undisturbed
<1>5. \A m \in Nodes, j \in NodeRevision :
         /\ applyJobs[m][j].status # "none" => applyJobs'[m][j].status # "none"
         /\ applyJobs'[m][j].status = "done" => applyJobs[m][j].status = "done"
         /\ applyJobs'[m][j].status = "pending"
            => applyJobs[m][j].status = "pending" \/ \A q \in Pushes : push[q].node # m
  BY <1>2, <1>3, <1>4
<1>6. \A m \in Nodes : observedRevision[m] <= observedRevision'[m] /\ observedRevision'[m] <= latest[m]
  BY NodeOf DEF RevisionInv, Versions, RetryJob
<1>7. QED
  BY <1>5, <1>6, JobStep DEF RetryJob

LEMMA InvReap ==
    ASSUME OneAtATime, RevisionInv, TypeInv', reap_expired_job_claims
    PROVE  RevisionInv'
<1>1. \A n \in Nodes, k \in NodeRevision : applyJobs'[n][k] = ReapedJob(applyJobs[n][k])
  BY ReapedJobs DEF RevisionInv
<1>2. \A n \in Nodes : (\A q \in Pushes : push[q].node # n) \/ applyJobs'[n] = applyJobs[n]
  BY DEF reap_expired_job_claims, Undisturbed
<1>3. \A n \in Nodes, k \in NodeRevision :
         /\ applyJobs[n][k].status # "none" => applyJobs'[n][k].status # "none"
         /\ applyJobs'[n][k].status = "done" => applyJobs[n][k].status = "done"
         /\ applyJobs'[n][k].status = "pending"
            => applyJobs[n][k].status = "pending" \/ \A q \in Pushes : push[q].node # n
  <2>1. ASSUME NEW job
        PROVE  \/ ReapedJob(job) = job
               \/ job.status = "expired" /\ ReapedJob(job).status \in {"failed", "pending"}
    <3>1. \A status, attempts : [status |-> status, attempts |-> attempts].status = status
      OBVIOUS
    <3>2. CASE job.status # "expired"
      BY <3>2 DEF ReapedJob
    <3>3. CASE job.status = "expired" /\ job.attempts + 1 >= MaxAttempts
      BY <3>1, <3>3, Zenon DEF ReapedJob
    <3>4. CASE job.status = "expired" /\ ~(job.attempts + 1 >= MaxAttempts)
      BY <3>1, <3>4, Zenon DEF ReapedJob
    <3>5. QED
      BY <3>2, <3>3, <3>4
  <2>2. \A n \in Nodes, k \in NodeRevision :
           \/ applyJobs'[n][k] = applyJobs[n][k]
           \/ applyJobs[n][k].status = "expired" /\ applyJobs'[n][k].status \in {"failed", "pending"}
    BY <1>1, <2>1
  <2>3. QED
    BY <1>2, <2>2
<1>4. \A n \in Nodes : observedRevision[n] <= observedRevision'[n] /\ observedRevision'[n] <= latest[n]
  BY NodeOf DEF RevisionInv, Versions, reap_expired_job_claims
<1>5. QED
  BY <1>3, <1>4, JobStep DEF reap_expired_job_claims

LEMMA InvQuarantine ==
    ASSUME RevisionInv, TypeInv', NEW n \in Nodes, Quarantine(n)
    PROVE  RevisionInv'
<1>1. applyJobs \in [Nodes -> [NodeRevision -> Job]]
  BY TypesOf DEF RevisionInv, TypeInv
<1>2. \A j \in NodeRevision : [applyJobs[n][j] EXCEPT !.status = "failed"].status = "failed"
  BY <1>1 DEF Job
<1>3. \A m \in Nodes, j \in NodeRevision :
         applyJobs'[m][j] = applyJobs[m][j] \/ applyJobs'[m][j].status = "failed"
  BY <1>1, <1>2 DEF Quarantine
<1>4. \A m \in Nodes, j \in NodeRevision :
         /\ applyJobs[m][j].status # "none" => applyJobs'[m][j].status # "none"
         /\ applyJobs'[m][j].status = "done" => applyJobs[m][j].status = "done"
         /\ applyJobs'[m][j].status = "pending" => applyJobs[m][j].status = "pending"
  BY <1>3
<1>5. \A m \in Nodes : observedRevision[m] <= observedRevision'[m] /\ observedRevision'[m] <= latest[m]
  <2>1. observedRevision' = observedRevision
    BY DEF Quarantine
  <2>2. \A m \in Nodes : observedRevision[m] \in Nat /\ observedRevision[m] <= latest[m]
    BY NodeOf DEF RevisionInv, Versions
  <2>3. QED
    BY <2>1, <2>2
<1>6. QED
  BY <1>4, <1>5, JobStep DEF Quarantine

\* There are at most latest - k kept revisions newer than k.
LEMMA NewerThan ==
    ASSUME TypeInv, NEW n \in Nodes, Versions(n), NEW k \in Nat, k <= latest[n]
    PROVE  Cardinality({j \in kept[n] : j > k}) <= latest[n] - k
<1>1. latest[n] \in Nat /\ kept[n] \subseteq 1..latest[n]
  BY NodeOf DEF Versions
<1>2. {j \in kept[n] : j > k} \subseteq (k + 1)..latest[n]
  BY <1>1
<1>3. IsFiniteSet((k + 1)..latest[n]) /\ Cardinality((k + 1)..latest[n]) = latest[n] - k
  <2>1. k + 1 \in Int /\ latest[n] \in Int
    BY <1>1
  <2>2. /\ IsFiniteSet((k + 1)..latest[n])
        /\ Cardinality((k + 1)..latest[n]) = IF k + 1 > latest[n] THEN 0 ELSE latest[n] - (k + 1) + 1
    BY <2>1, FS_Interval
  <2>3. QED
    BY <1>1, <2>2
<1>4. QED
  BY <1>2, <1>3, FS_Subset

LEMMA InvPrune ==
    ASSUME RevisionInv, TypeInv', NEW n \in Nodes, pruneNodeRevisions(n)
    PROVE  RevisionInv'
<1>0. /\ latest' = latest /\ desired' = desired /\ push' = push /\ died' = died
      /\ observedRevision' = observedRevision /\ applyJobs' = applyJobs
  BY DEF pruneNodeRevisions
<1>1. kept'[n] = Newest(n) /\ \A m \in Nodes : m # n => kept'[m] = kept[m]
  BY TypesOf DEF pruneNodeRevisions, RevisionInv, TypeInv
<1>2. \A q \in Pushes : PushFits(q)'
  BY <1>0 DEF RevisionInv, PushFits
<1>3. \A q, r \in Pushes : OnePush(q, r)'
  BY <1>0 DEF RevisionInv, OnePush
<1>4. \A m \in Nodes : (Desiring(m)' <=> Desiring(m)) /\ (Between(m)' <=> Between(m))
  BY <1>0 DEF Desiring, Between
<1>5. \A m \in Nodes : JobsFit(m)'
  BY <1>0, <1>4 DEF RevisionInv, JobsFit
<1>6. \A m \in Nodes : m # n => Versions(m)'
  BY <1>0, <1>1, <1>4 DEF RevisionInv, Versions
<1>7. Versions(n)'
  <2>1. Versions(n) /\ latest[n] \in Nat /\ desired[n] \in Nat /\ TypeInv
    BY NodeOf DEF RevisionInv
  <2>2. kept'[n] \subseteq 1..latest[n]
    BY <1>1, <2>1 DEF Newest, Versions
  <2>3. latest[n] \in kept'[n] \cup {0}
    <3>1. {j \in kept[n] : j > latest[n]} = {}
      BY <2>1 DEF Versions
    <3>2. Cardinality({j \in kept[n] : j > latest[n]}) < Keep
      <4>1. Cardinality({j \in kept[n] : j > latest[n]}) = 0
        BY <3>1, FS_EmptySet, Zenon
      <4>2. QED
        BY <4>1, Numbers
    <3>3. latest[n] \in kept[n] => latest[n] \in Newest(n)
      BY <3>2 DEF Newest
    <3>4. QED
      BY <1>1, <2>1, <3>3 DEF Versions
  <2>4. desired[n] \in kept'[n] \cup {0} \/ latest[n] - desired[n] >= Keep
    <3>1. CASE desired[n] \in kept[n] /\ latest[n] - desired[n] < Keep
      <4>1. Cardinality({j \in kept[n] : j > desired[n]}) <= latest[n] - desired[n]
        BY <2>1, NewerThan DEF Versions
      <4>2. IsFiniteSet({j \in kept[n] : j > desired[n]})
        <5>1. {j \in kept[n] : j > desired[n]} \subseteq 1..latest[n]
          BY <2>1 DEF Versions
        <5>2. IsFiniteSet(1..latest[n])
          BY <2>1, FS_Interval, SMTT(30)
        <5>3. QED
          BY <5>1, <5>2, FS_Subset
      <4>3. Cardinality({j \in kept[n] : j > desired[n]}) \in Nat
        BY <4>2, FS_CardinalityType
      <4>4. Cardinality({j \in kept[n] : j > desired[n]}) < Keep
        BY <2>1, <3>1, <4>1, <4>3, Numbers
      <4>5. QED
        BY <1>1, <3>1, <4>4 DEF Newest
    <3>2. QED
      BY <2>1, <3>1, Numbers DEF Versions
  <2>5. QED
    BY <1>0, <1>4, <2>1, <2>2, <2>3, <2>4 DEF Versions
<1>8. QED
  BY <1>2, <1>3, <1>5, <1>6, <1>7 DEF RevisionInv

-----------------------------------------------------------------------------
(* The newest revision wins *)

LEMMA InvInit == RevisionInit => RevisionInv
<1> SUFFICES ASSUME RevisionInit PROVE RevisionInv
  OBVIOUS
<1>1. TypeInv
  BY TypeInit
<1>2. /\ push = [q \in Pushes |-> NoPush]
      /\ NoPush.pc = "idle" /\ NoPush.node = "none"
  BY DEF RevisionInit, NoPush
<1>3. /\ \A q \in Pushes : PushFits(q)
      /\ \A q, r \in Pushes : OnePush(q, r)
      /\ \A n \in Nodes : ~Desiring(n)
  BY <1>2, Numbers DEF PushFits, OnePush, Desiring
<1>4. \A n \in Nodes : /\ latest[n] = 0 /\ desired[n] = 0 /\ observedRevision[n] = 0
                       /\ kept[n] = {} /\ died[n] = 0
                       /\ \A k \in NodeRevision : applyJobs[n][k].status = "none"
  BY DEF RevisionInit, NoJob
<1>5. \A n \in Nodes : Versions(n)
  BY <1>3, <1>4 DEF Versions
<1>6. \A n \in Nodes : JobsFit(n)
  BY <1>4 DEF JobsFit
<1>7. QED
  BY <1>1, <1>3, <1>5, <1>6 DEF RevisionInv

LEMMA InvNext ==
    ASSUME OneAtATime, NewestStays, RevisionInv, [RevisionNext]_revisionVars
    PROVE  RevisionInv'
<1>0. TypeInv'
  BY TypeNext DEF RevisionInv
<1>1. ASSUME NEW q \in Pushes, InsertRevision(q) \/ SetDesired(q) \/ Coalesce(q) \/ Enqueue(q) \/ PushDies(q)
                               \/ rotate_node_key(q)
      PROVE  RevisionInv'
  BY <1>0, <1>1, InvInsert, InvSetDesired, InvCoalesce, InvEnqueue, InvPushDies, InvRotate
<1>2. ASSUME NEW q \in Pushes, NEW n \in Nodes, ReadLatest(q, n) \/ AskRotation(q, n)
      PROVE  RevisionInv'
  BY <1>0, <1>2, InvReadLatest, InvAskRotation
<1>3. ASSUME NEW n \in Nodes, NEW k \in NodeRevision, Claims(n, k)
      PROVE  RevisionInv'
  BY <1>0, <1>3, InvBecomes DEF Claims, Pending
<1>4. ASSUME NEW n \in Nodes, NEW k \in NodeRevision, Applies(n, k)
      PROVE  RevisionInv'
  BY <1>0, <1>4, InvApplies
<1>5. ASSUME NEW n \in Nodes, NEW k \in NodeRevision, ApplyFails(n, k)
      PROVE  RevisionInv'
  BY <1>0, <1>5, InvBecomes DEF ApplyFails
<1>6. ASSUME NEW n \in Nodes, NEW k \in NodeRevision, ClaimExpires(n, k)
      PROVE  RevisionInv'
  BY <1>0, <1>6, InvBecomes DEF ClaimExpires
<1>7. ASSUME NEW n \in Nodes, NEW k \in NodeRevision, RetryJob(n, k)
      PROVE  RevisionInv'
  BY <1>0, <1>7, InvRetry
<1>8. ASSUME NEW n \in Nodes, Quarantine(n) \/ pruneNodeRevisions(n)
      PROVE  RevisionInv'
  BY <1>0, <1>8, InvQuarantine, InvPrune
<1>9. CASE reap_expired_job_claims
  BY <1>0, <1>9, InvReap
<1>10. CASE UNCHANGED revisionVars
  <2>1. UNCHANGED <<latest, kept, desired, push, died, observedRevision, applyJobs>>
    BY <1>10 DEF revisionVars
  <2>2. \A n \in Nodes : observedRevision[n] <= observedRevision'[n] /\ observedRevision'[n] <= latest[n]
    BY <2>1, NodeOf DEF RevisionInv, Versions
  <2>3. QED
    BY <1>0, <2>1, <2>2, JobStep
<1>11. QED
  BY <1>1, <1>2, <1>3, <1>4, <1>5, <1>6, <1>7, <1>8, <1>9, <1>10 DEF RevisionNext

LEMMA InvSays == RevisionInv => NewestWins
<1> SUFFICES ASSUME RevisionInv, NEW n \in Nodes, Idle(n)
             PROVE  /\ \/ died[n] > 0
                       \/ desired[n] = latest[n] /\ observedRevision[n] = latest[n]
                       \/ latest[n] > 0 /\ applyJobs[n][latest[n]].status = "failed"
                    /\ died[n] < Keep => desired[n] \in kept[n] \cup {0}
  BY DEF NewestWins
<1>1. /\ Versions(n) /\ JobsFit(n) /\ ~Desiring(n) /\ ~Between(n)
      /\ latest[n] \in Nat /\ desired[n] \in Nat /\ observedRevision[n] \in Nat /\ died[n] \in Nat
      /\ latest[n] <= MaxNodeRevision /\ applyJobs[n] \in [NodeRevision -> Job]
  BY NodeOf DEF RevisionInv, Idle, Desiring, Between
<1>2. latest[n] - desired[n] <= died[n]
  BY <1>1 DEF Versions
<1>3. died[n] < Keep => desired[n] \in kept[n] \cup {0}
  BY <1>1, <1>2, Numbers DEF Versions
<1>4. ASSUME died[n] = 0, latest[n] > 0
      PROVE  applyJobs[n][latest[n]].status = "failed" \/ observedRevision[n] = latest[n]
  <2>1. latest[n] \in NodeRevision
    BY <1>1, <1>4, Numbers
  <2>2. applyJobs[n][latest[n]].status \in {"done", "failed"}
    BY <1>1, <1>4, <2>1 DEF JobsFit, Idle, Job
  <2>3. applyJobs[n][latest[n]].status = "done" => latest[n] <= observedRevision[n]
    BY <1>1, <2>1 DEF JobsFit
  <2>4. QED
    BY <1>1, <2>2, <2>3 DEF Versions
<1>5. ASSUME died[n] = 0 PROVE desired[n] = latest[n]
  BY <1>1, <1>2, <1>5 DEF Versions
<1>6. latest[n] = 0 => observedRevision[n] = latest[n]
  BY <1>1 DEF Versions
<1>7. QED
  BY <1>1, <1>3, <1>4, <1>5, <1>6

\* A node with nothing left to do has the newest revision pushed to it, or the job of that revision
\* failed; and as long as fewer than NODE_REVISIONS_KEEP pushes ended half-way, the revision it should
\* have was not pruned (node-revisions.js:40-60, pruneNodeRevisions).  It assumes what the runs assume:
\* a push overlaps no other push, no retry and no run of the reaper for the node (without it the
\* property is false), and an agent that does not replace a revision by an older one.
THEOREM NewestWinsCorrect ==
    ASSUME OneAtATime, NewestStays
    PROVE  RevisionSpec => []NewestWins
<1>1. RevisionInit => RevisionInv
  BY InvInit
<1>2. RevisionInv /\ [RevisionNext]_revisionVars => RevisionInv'
  BY InvNext
<1>3. RevisionInv => NewestWins
  BY InvSays
<1>4. QED
  BY <1>1, <1>2, <1>3, PTL DEF RevisionSpec

-----------------------------------------------------------------------------
(* Compatibility authorizations: revisions move on with every row written    *)

LEMMA RowsFinite ==
    ASSUME NEW c \in Clients, NEW held \in SUBSET {r \in Credential : r[1] = c}
    PROVE  IsFiniteSet(held) /\ Cardinality(held) \in Nat
<1>1. MaxGeneration \in Nat
  BY SnapshotParameters
<1>2. IsFiniteSet({c} \X (1..MaxGeneration))
  <2>1. IsFiniteSet({c})
    BY FS_Singleton
  <2>2. IsFiniteSet(1..MaxGeneration)
    BY <1>1, FS_Interval
  <2>3. QED
    BY <2>1, <2>2, FS_Product
<1>3. held \in SUBSET ({c} \X (1..MaxGeneration))
  BY DEF Credential
<1>4. QED
  BY <1>2, <1>3, FS_Subset, FS_CardinalityType

\* The rows that are written are required from a revision that nobody has.
LEMMA AdvanceMoves ==
    ASSUME SnapshotTypeOK, NEW held, IsFiniteSet(held), held # {}, Advance(held)
    PROVE  /\ state' = [state EXCEPT !.desired = state'.desired]
           /\ state'.desired \in Revision /\ state'.desired > state.desired
           /\ required' \in [Credential -> Revision]
           /\ \A r \in Credential \ held : required'[r] = required[r]
           /\ \A r \in Credential \cap held : required'[r] > state.desired
<1>1. Cardinality(held) \in Nat /\ Cardinality(held) # 0
  BY FS_EmptySet, FS_CardinalityType
<1>2. state.desired \in Nat /\ MaxRevision \in Nat
  BY SnapshotParameters DEF SnapshotTypeOK, Revision
<1>3. state' = [state EXCEPT !.desired = state.desired + Cardinality(held)]
      /\ state.desired + Cardinality(held) <= MaxRevision
  BY DEF Advance
<1>4. state'.desired = state.desired + Cardinality(held)
  BY <1>3 DEF SnapshotTypeOK
<1>5. PICK order \in [held -> 1..Cardinality(held)] :
          required' = [r \in Credential |-> IF r \in held THEN state.desired + order[r] ELSE required[r]]
  BY DEF Advance
<1>6. \A r \in Credential \cap held : required'[r] = state.desired + order[r] /\ order[r] \in 1..Cardinality(held)
  BY <1>5
<1>7. \A r \in Credential \ held : required'[r] = required[r]
  BY <1>5
<1>8. \A r \in Credential \cap held : required'[r] \in Revision /\ required'[r] > state.desired
  BY <1>1, <1>2, <1>3, <1>6 DEF Revision
<1>9. required' \in [Credential -> Revision]
  <2>1. \A r \in Credential : required'[r] \in Revision
    BY <1>7, <1>8 DEF SnapshotTypeOK
  <2>2. QED
    BY <1>5, <2>1
<1>10. QED
  BY <1>1, <1>2, <1>3, <1>4, <1>7, <1>8, <1>9 DEF Revision

-----------------------------------------------------------------------------
(* Types *)

LEMMA SnapshotTypeInit == SnapshotInit => SnapshotTypeOK
  BY SnapshotParameters DEF SnapshotInit, SnapshotTypeOK, Revision

\* Clients have a first row, as soon as they exist, and revoked rows when they are revoked.
RowsFit ==
    /\ \A r \in Credential : auth[r] \in {"revoked", "pruned"} => client[r[1]] = "revoked"
    /\ \A c \in Clients : client[c] # "none" => auth[<<c, 1>>] # "none"
\* No revision is ahead of the node's state, and what is to be acknowledged is on the node.
RevisionsFit ==
    /\ poll.revision <= state.desired /\ node.revision <= state.desired
    /\ poll.pc = "applied" => poll.revision <= node.revision

\* What issues credentials, with the rows it writes.
Issues(c, held) ==
    /\ held \subseteq {r \in Credential : r[1] = c} /\ held # {} /\ Advance(held)
    /\ UNCHANGED <<flips, poll, node>>
    /\ \A r \in Credential \ held : auth'[r] = auth[r]
    /\ \A d \in Clients \ {c} : client'[d] = client[d]

LEMMA IssuingWrites ==
    ASSUME SnapshotTypeOK, RowsFit, NEW c \in Clients,
           \/ create_external_vpn_device(c)
           \/ rotate_compatibility_credential(c)
           \/ revoke_external_vpn_device(c)
    PROVE  /\ \E held : Issues(c, held)
           /\ client' \in [Clients -> {"none", "active", "revoked"}] /\ entitled' \subseteq Clients
           /\ auth' \in [Credential -> {"none", "live", "short", "expired", "revoked", "pruned"}]
           /\ RowsFit'
<1> USE DEF SnapshotTypeOK
<1>0. <<c, 1>> \in Credential /\ \A d \in Clients : <<d, 1>> \in Credential
  BY SnapshotParameters DEF Credential
<1>1. CASE create_external_vpn_device(c)
  <2>1. Issues(c, {<<c, 1>>})
    BY <1>0, <1>1 DEF create_external_vpn_device, Issues
  <2>2. client' = [client EXCEPT ![c] = "active"] /\ auth' = [auth EXCEPT ![<<c, 1>>] = "live"]
        /\ entitled' = entitled \cup {c}
    BY <1>1 DEF create_external_vpn_device
  <2>3. RowsFit'
    <3>1. client[c] = "none"
      BY <1>1 DEF create_external_vpn_device
    <3>2. \A d \in Clients : client'[d] # "none" => auth'[<<d, 1>>] # "none"
      BY <1>0, <2>2 DEF RowsFit
    <3>3. ASSUME NEW r \in Credential, auth'[r] \in {"revoked", "pruned"} PROVE client'[r[1]] = "revoked"
      BY <1>0, <2>2, <3>1, <3>3 DEF RowsFit, Credential
    <3>4. QED
      BY <3>2, <3>3 DEF RowsFit
  <2>4. QED
    BY <2>1, <2>2, <2>3
<1>2. CASE rotate_compatibility_credential(c)
  <2> DEFINE bounded == {r \in Credential : r[1] = c /\ auth[r] = "live"}
             new == <<c, Cardinality(Generations(c)) + 1>>
  <2>1. /\ client[c] = "active" /\ new \in Credential /\ new[1] = c
        /\ auth' = [r \in Credential |-> IF r = new THEN "live" ELSE IF r \in bounded THEN "short" ELSE auth[r]]
        /\ Advance(bounded \cup {new})
        /\ UNCHANGED <<client, entitled, flips, poll, node>>
    BY <1>2 DEF rotate_compatibility_credential
  <2>2. bounded \subseteq {r \in Credential : r[1] = c}
    OBVIOUS
  <2> HIDE DEF bounded, new
  <2>3. Issues(c, bounded \cup {new})
    BY <2>1, <2>2 DEF Issues
  <2>4. RowsFit'
    BY <1>0, <2>1 DEF RowsFit
  <2>5. QED
    BY <2>1, <2>3, <2>4
<1>3. CASE revoke_external_vpn_device(c)
  <2> DEFINE held == {r \in Credential : r[1] = c /\ auth[r] # "none"}
  <2>1. /\ client[c] = "active" /\ client' = [client EXCEPT ![c] = "revoked"]
        /\ auth' = [r \in Credential |-> IF r \in held THEN "revoked" ELSE auth[r]]
        /\ Advance(held) /\ UNCHANGED <<entitled, flips, poll, node>>
    BY <1>3 DEF revoke_external_vpn_device
  <2>2. <<c, 1>> \in held
    BY <1>0, <2>1 DEF RowsFit
  <2>3. \A r \in held : r[1] = c /\ r \in Credential
    OBVIOUS
  <2>4. Issues(c, held)
    BY <2>1, <2>2 DEF Issues
  <2> HIDE DEF held
  <2>5. RowsFit'
    <3>1. ASSUME NEW r \in Credential, auth'[r] \in {"revoked", "pruned"} PROVE client'[r[1]] = "revoked"
      <4>1. r[1] \in Clients
        BY DEF Credential
      <4>2. QED
        BY <2>1, <2>3, <3>1, <4>1 DEF RowsFit
    <3>2. ASSUME NEW d \in Clients, client'[d] # "none" PROVE auth'[<<d, 1>>] # "none"
      <4>1. client[d] # "none"
        BY <2>1, <3>2
      <4>2. QED
        BY <1>0, <2>1, <4>1 DEF RowsFit
    <3>3. QED
      BY <3>1, <3>2 DEF RowsFit
  <2>6. QED
    BY <2>1, <2>4, <2>5
<1>4. QED
  BY <1>1, <1>2, <1>3

LEMMA SnapshotTypeNext ==
    /\ SnapshotTypeOK /\ RowsFit /\ RevisionsFit /\ [SnapshotNext]_snapshotVars
    => SnapshotTypeOK' /\ RowsFit' /\ RevisionsFit'
<1> DEFINE SnapshotTyped == SnapshotTypeOK /\ RowsFit /\ RevisionsFit
<1> SUFFICES ASSUME SnapshotTyped, [SnapshotNext]_snapshotVars PROVE SnapshotTyped'
  OBVIOUS
<1> USE DEF SnapshotTypeOK
<1>a. MaxRevision \in Nat /\ MaxFlips \in Nat /\ \A n \in Revision : n \in Nat /\ n <= MaxRevision
  BY SnapshotParameters DEF Revision
<1>1. ASSUME NEW c \in Clients,
             create_external_vpn_device(c) \/ rotate_compatibility_credential(c) \/ revoke_external_vpn_device(c)
      PROVE  SnapshotTyped'
  <2>1. PICK held : Issues(c, held)
    BY <1>1, IssuingWrites
  <2>2. IsFiniteSet(held)
    BY <2>1, RowsFinite DEF Issues
  <2>3. /\ state' = [state EXCEPT !.desired = state'.desired]
        /\ state'.desired \in Revision /\ state'.desired > state.desired
        /\ required' \in [Credential -> Revision]
    BY <2>1, <2>2, AdvanceMoves DEF Issues
  <2>4. UNCHANGED <<flips, poll, node>>
    BY <2>1 DEF Issues
  <2>5. state' \in [desired : Revision, applied : Revision, digest : SUBSET Credential, rows : SUBSET Credential]
        /\ state'.applied = state.applied
    BY <2>3
  <2>6. SnapshotTypeOK'
    BY <1>1, <2>3, <2>4, <2>5, IssuingWrites
  <2>7. RevisionsFit'
    BY <1>a, <2>3, <2>4 DEF RevisionsFit
  <2>8. QED
    BY <1>1, <2>6, <2>7, IssuingWrites
<1>2. ASSUME NEW c \in Clients, EntitlementChanges(c) PROVE SnapshotTyped'
  BY <1>2, <1>a DEF EntitlementChanges, issued, RowsFit, RevisionsFit
<1>3. ASSUME NEW r \in Credential, ExpireCredential(r) PROVE SnapshotTyped'
  <2>1. SnapshotTypeOK' /\ RevisionsFit'
    BY <1>3 DEF ExpireCredential, RevisionsFit
  <2>2. auth[r] # "none" /\ auth' = [auth EXCEPT ![r] = "expired"] /\ UNCHANGED client
    BY <1>3 DEF ExpireCredential, UsableStates
  <2>3. RowsFit'
    BY <2>2 DEF RowsFit
  <2>4. QED
    BY <2>1, <2>3
<1>4. ASSUME NEW r \in Credential, pruneCompatibilityAuthorizations(r) PROVE SnapshotTyped'
  <2>1. state.desired + 1 \in Revision /\ 0 \in Revision
    BY <1>4, <1>a DEF pruneCompatibilityAuthorizations, Revision
  <2>2. SnapshotTypeOK'
    BY <1>4, <2>1 DEF pruneCompatibilityAuthorizations
  <2>3. RevisionsFit'
    BY <1>4, <1>a DEF pruneCompatibilityAuthorizations, RevisionsFit
  <2>4. RowsFit'
    <3>1. auth[r] = "revoked" /\ auth' = [auth EXCEPT ![r] = "pruned"] /\ UNCHANGED client
      BY <1>4 DEF pruneCompatibilityAuthorizations
    <3>2. QED
      BY <3>1 DEF RowsFit
  <2>5. QED
    BY <2>2, <2>3, <2>4
<1>5. CASE PollSnapshot
  <2>1. /\ state' \in [desired : Revision, applied : Revision, digest : SUBSET Credential, rows : SUBSET Credential]
        /\ state'.applied = state.applied /\ state'.desired >= state.desired
    <3>1. CASE UNCHANGED state
      BY <1>a, <3>1
    <3>2. CASE /\ state.desired < MaxRevision
               /\ state' = [state EXCEPT !.desired = @ + 1, !.digest = EntitledRows, !.rows = SnapshotRows]
      <4>1. state.desired + 1 \in Revision
        BY <1>a, <3>2 DEF Revision
      <4>2. EntitledRows \subseteq Credential /\ SnapshotRows \subseteq Credential
        BY DEF EntitledRows, SnapshotRows
      <4>3. state \in [desired : Revision, applied : Revision, digest : SUBSET Credential, rows : SUBSET Credential]
        OBVIOUS
      <4>4. state' = [desired |-> state.desired + 1, applied |-> state.applied,
                      digest |-> EntitledRows, rows |-> SnapshotRows]
        BY <3>2, <4>3
      <4>5. state.applied \in Revision /\ state.desired \in Nat
        BY <1>a, <4>3
      <4>6. QED
        BY <4>1, <4>2, <4>4, <4>5
    <3>3. QED
      BY <1>5, <3>1, <3>2 DEF PollSnapshot, readSnapshot
  <2>2. poll' = [pc |-> "read", revision |-> state'.desired, accepts |-> {r \in SnapshotRows : auth[r] # "revoked"}]
        /\ UNCHANGED <<issued, entitled, flips, node>>
    BY <1>5 DEF PollSnapshot
  <2>3. {r \in SnapshotRows : auth[r] # "revoked"} \subseteq Credential
    BY DEF SnapshotRows
  <2>4. SnapshotTypeOK'
    BY <2>1, <2>2, <2>3 DEF issued
  <2>5. RowsFit' /\ RevisionsFit'
    BY <1>a, <2>1, <2>2 DEF RowsFit, RevisionsFit, issued
  <2>6. QED
    BY <2>4, <2>5
<1>6. CASE projectAuthorizations
  <2>1. poll' = [pc |-> "answered", revision |-> poll.revision,
                 accepts |-> {r \in poll.accepts : client[r[1]] = "active" /\ r[1] \in entitled}]
        /\ UNCHANGED <<issued, entitled, flips, state, node>>
    BY <1>6 DEF projectAuthorizations
  <2>2. {r \in poll.accepts : client[r[1]] = "active" /\ r[1] \in entitled} \subseteq Credential
    OBVIOUS
  <2>3. SnapshotTypeOK'
    BY <2>1, <2>2 DEF issued
  <2>4. QED
    BY <2>1, <2>3 DEF issued, RowsFit, RevisionsFit
<1>10. CASE AgentCrashes
  BY <1>10 DEF AgentCrashes, issued, RowsFit, RevisionsFit
<1>7. CASE Apply
  <2>1. CASE poll.revision > node.revision
    <3>1. /\ node' = [revision |-> poll.revision, accepts |-> poll.accepts]
          /\ poll' = [poll EXCEPT !.pc = "applied"] /\ UNCHANGED <<issued, entitled, flips, state>>
      BY <1>7, <2>1 DEF Apply
    <3>2. state.applied \in Nat /\ poll.revision \in Nat /\ node.revision \in Nat
      BY <1>a
    <3>3. SnapshotTypeOK'
      BY <2>1, <3>1, <3>2 DEF issued
    <3>4. QED
      BY <3>1, <3>2, <3>3 DEF issued, RowsFit, RevisionsFit
  <2>2. CASE ~(poll.revision > node.revision)
    <3>1. poll' = [poll EXCEPT !.pc = IF respondConditionally = "not modified" THEN "applied" ELSE "idle"]
          /\ UNCHANGED <<issued, entitled, flips, state, node>>
      BY <1>7, <2>2 DEF Apply
    <3>2. poll'.pc \in {"applied", "idle"} /\ poll'.revision = poll.revision
          /\ poll' \in [pc : {"idle", "read", "answered", "applied"}, revision : Revision, accepts : SUBSET Credential]
      BY <3>1
    <3>3. SnapshotTypeOK'
      BY <3>1, <3>2 DEF issued
    <3>4. RowsFit'
      BY <3>1 DEF issued, RowsFit
    <3>5. poll.revision \in Nat /\ node.revision \in Nat
      BY <1>a
    <3>6. RevisionsFit'
      <4>1. poll'.revision = poll.revision /\ node' = node /\ state' = state
        BY <3>1, <3>2
      <4>2. poll.revision <= node.revision
        BY <2>2, <3>5
      <4>3. QED
        BY <4>1, <4>2 DEF RevisionsFit
    <3>7. QED
      BY <3>3, <3>4, <3>6
  <2>3. QED
    BY <2>1, <2>2
<1>8. CASE Acknowledge
  BY <1>8, <1>a DEF Acknowledge, issued, RowsFit, RevisionsFit
<1>9. CASE UNCHANGED snapshotVars
  BY <1>9 DEF snapshotVars, RowsFit, RevisionsFit
<1> HIDE DEF SnapshotTyped
<1>11. QED
  BY <1>1, <1>2, <1>3, <1>4, <1>5, <1>6, <1>7, <1>8, <1>9, <1>10 DEF SnapshotNext

LEMMA SnapshotTyped == SnapshotSpec => [](SnapshotTypeOK /\ RowsFit /\ RevisionsFit)
<1>1. SnapshotInit => SnapshotTypeOK /\ RowsFit /\ RevisionsFit
  BY SnapshotTypeInit DEF SnapshotInit, RowsFit, RevisionsFit
<1>2. QED
  BY <1>1, SnapshotTypeNext, PTL DEF SnapshotSpec

\* Every variable stays within its type, and what is acknowledged is on the node.
\* (advance_compatibility_authorization_snapshot, ack_compatibility_authorization_snapshot)
THEOREM SnapshotTypeCorrect == SnapshotSpec => []SnapshotTypeOK
  BY SnapshotTyped, PTL

-----------------------------------------------------------------------------
(* A node enforces what it must                                              *)

Usable == {r \in Credential : auth[r] \in UsableStates}
Accepts(x) == {r \in x.accepts : auth[r] # "expired"}

\* A revision names one set of credentials: whoever has the node's desired one accepts what its digest
\* counts as entitled, unless entitlement changed under a poll.
Labelled(x) == ~TornReads /\ x.revision = state.desired => Accepts(x) = state.digest \cap Usable

\* Whoever accepts a credential of a client accepts every usable one that is required by then.
Complete(x) ==
    \A r \in x.accepts, g \in 1..MaxGeneration :
        /\ auth[<<r[1], g>>] \in UsableStates
        /\ required[<<r[1], g>>] <= x.revision
        => <<r[1], g>> \in x.accepts

\* What the poll read before the entitlement is laid over it.
ReadFits ==
    poll.pc = "read" =>
        /\ \A r \in Usable : required[r] <= poll.revision => r \in poll.accepts
        /\ ~TornReads /\ poll.revision = state.desired =>
               /\ Accepts(poll) = Usable
               /\ DigestIsCurrent \/ SnapshotRows = {}

AnswerFits == poll.pc \in {"answered", "applied"} => Labelled(poll) /\ Complete(poll)

ContentsFit == ReadFits /\ AnswerFits /\ Labelled(node) /\ Complete(node)
SnapshotInv == RowsFit /\ RevisionsFit /\ ContentsFit

LEMMA UsableIsRow ==
    SnapshotTypeOK => Usable \subseteq SnapshotRows /\ Usable = {r \in SnapshotRows : auth[r] \in UsableStates}
  BY DEF Usable, SnapshotRows, UsableStates

\* A write takes a revision that nobody has yet, so that it contradicts nobody.
LEMMA WritesAreNews ==
    ASSUME SnapshotTypeOK, RevisionsFit, ContentsFit, state'.desired \in Nat, state'.desired > state.desired,
           UNCHANGED <<poll, node>>, \A r \in Credential : required'[r] \in Nat,
           \A r \in Credential : auth'[r] \in UsableStates /\ required'[r] <= state.desired
                                 => auth[r] \in UsableStates /\ required'[r] = required[r]
    PROVE  ContentsFit'
<1>1. /\ state.desired \in Nat /\ poll.revision \in Nat /\ node.revision \in Nat
      /\ poll.revision <= state.desired /\ node.revision <= state.desired
      /\ poll.accepts \subseteq Credential /\ node.accepts \subseteq Credential
  BY SnapshotParameters DEF SnapshotTypeOK, Revision, RevisionsFit
<1>2. poll.revision # state'.desired /\ node.revision # state'.desired
  BY <1>1
<1>3. ASSUME NEW r \in Credential, NEW n \in Nat, n <= state.desired,
             auth'[r] \in UsableStates, required'[r] <= n
      PROVE  auth[r] \in UsableStates /\ required[r] <= n
  <2>1. required'[r] <= state.desired
    BY <1>1, <1>3
  <2>2. QED
    BY <1>3, <2>1
<1>4. Labelled(node)' /\ Labelled(poll)'
  BY <1>2 DEF Labelled
<1>5. \A r \in Credential, g \in 1..MaxGeneration : <<r[1], g>> \in Credential
  BY DEF Credential
<1>6. Complete(node)'
  BY <1>1, <1>3, <1>5 DEF Complete, ContentsFit
<1>7. poll.pc \in {"answered", "applied"} => Complete(poll)'
  BY <1>1, <1>3, <1>5 DEF Complete, ContentsFit, AnswerFits
<1>8. ReadFits'
  <2>1. SUFFICES ASSUME poll.pc = "read"
                 PROVE  \A r \in Usable' : required'[r] <= poll.revision => r \in poll.accepts
    BY <1>2 DEF ReadFits
  <2>2. QED
    BY <1>1, <1>3, <2>1 DEF ReadFits, ContentsFit, Usable
<1>9. QED
  BY <1>4, <1>6, <1>7, <1>8 DEF ContentsFit, AnswerFits

\* A credential that expires leaves every set that is compared.
LEMMA ExpiryKeeps ==
    ASSUME SnapshotTypeOK, ContentsFit, NEW r \in Credential, ExpireCredential(r)
    PROVE  ContentsFit'
<1>1. /\ auth[r] \in UsableStates /\ auth' = [auth EXCEPT ![r] = "expired"]
      /\ UNCHANGED <<client, entitled, flips, required, state, poll, node>>
  BY DEF ExpireCredential
<1>2. auth'[r] = "expired" /\ \A q \in Credential \ {r} : auth'[q] = auth[q]
  BY <1>1 DEF SnapshotTypeOK
<1>3. Usable' = Usable \ {r}
  BY <1>2 DEF Usable, UsableStates
<1>4. ASSUME NEW A \in SUBSET Credential
      PROVE  {q \in A : auth'[q] # "expired"} = {q \in A : auth[q] # "expired"} \ {r}
  BY <1>2
<1>5. poll.accepts \subseteq Credential /\ node.accepts \subseteq Credential
  BY DEF SnapshotTypeOK
<1>6. Accepts(poll)' = Accepts(poll) \ {r} /\ Accepts(node)' = Accepts(node) \ {r}
  BY <1>1, <1>4, <1>5 DEF Accepts
<1>7. /\ Labelled(node) => Labelled(node)'
      /\ Labelled(poll) => Labelled(poll)'
  BY <1>1, <1>3, <1>6 DEF Labelled
<1>8. \A q \in Credential : auth'[q] \in UsableStates => auth[q] \in UsableStates
  BY <1>1, <1>2
<1>9. \A q \in Credential, g \in 1..MaxGeneration : <<q[1], g>> \in Credential
  BY DEF Credential
<1>10. /\ Complete(node) => Complete(node)'
       /\ Complete(poll) => Complete(poll)'
  BY <1>1, <1>5, <1>8, <1>9 DEF Complete
<1>11. SnapshotRows' = SnapshotRows
  BY <1>1, <1>2 DEF SnapshotRows, UsableStates
<1>12. DigestIsCurrent' = DigestIsCurrent
  BY <1>1, <1>11 DEF DigestIsCurrent, EntitledRows
<1>13. ReadFits'
  BY <1>1, <1>3, <1>6, <1>11, <1>12 DEF ReadFits, ContentsFit
<1>14. QED
  BY <1>1, <1>7, <1>10, <1>13 DEF ContentsFit, AnswerFits

\* A poll reads the rows of one revision.
LEMMA PollFits ==
    ASSUME SnapshotTypeOK, RevisionsFit, ContentsFit, PollSnapshot
    PROVE  ContentsFit'
<1>1. /\ readSnapshot
      /\ poll' = [pc |-> "read", revision |-> state'.desired, accepts |-> {r \in SnapshotRows : auth[r] # "revoked"}]
      /\ UNCHANGED <<issued, entitled, flips, node>>
  BY DEF PollSnapshot
<1>2. UNCHANGED <<client, auth, required, entitled, node>>
  BY <1>1 DEF issued
<1>3. Usable' = Usable /\ SnapshotRows' = SnapshotRows /\ EntitledRows' = EntitledRows
  BY <1>2 DEF Usable, SnapshotRows, EntitledRows
<1>4. Labelled(node)'
  <2>1. CASE UNCHANGED state
    BY <1>2, <1>3, <2>1 DEF Labelled, Accepts, ContentsFit
  <2>2. CASE state' = [state EXCEPT !.desired = @ + 1, !.digest = EntitledRows, !.rows = SnapshotRows]
    <3>1. state'.desired = state.desired + 1
      BY <2>2 DEF SnapshotTypeOK
    <3>2. state.desired \in Nat /\ node.revision \in Nat /\ node.revision <= state.desired
      BY SnapshotParameters DEF SnapshotTypeOK, Revision, RevisionsFit
    <3>3. node'.revision # state'.desired
      BY <1>2, <3>1, <3>2
    <3>4. QED
      BY <3>3 DEF Labelled
  <2>3. QED
    BY <1>1, <2>1, <2>2 DEF readSnapshot
<1>5. Complete(node)'
  BY <1>2 DEF Complete, ContentsFit
<1>6. ReadFits'
  <2>1. \A r \in Usable : auth[r] # "revoked" /\ auth[r] # "expired"
    BY DEF Usable, UsableStates
  <2>2. \A r \in Usable' : r \in poll'.accepts
    BY <1>1, <1>3, <2>1, UsableIsRow
  <2>3. \A r \in SnapshotRows : auth[r] # "revoked" /\ auth[r] # "expired" => r \in Usable
    BY DEF SnapshotRows, Usable, UsableStates, SnapshotTypeOK
  <2>4. Accepts(poll)' = Usable'
    BY <1>1, <1>2, <1>3, <2>1, <2>3, UsableIsRow DEF Accepts
  <2>5. (DigestIsCurrent \/ SnapshotRows = {})'
    <3>1. CASE UNCHANGED state /\ (DigestIsCurrent \/ SnapshotRows = {})
      BY <1>3, <3>1 DEF DigestIsCurrent
    <3>2. CASE state' = [state EXCEPT !.desired = @ + 1, !.digest = EntitledRows, !.rows = SnapshotRows]
      <4>1. state'.digest = EntitledRows /\ state'.rows = SnapshotRows
        BY <3>2 DEF SnapshotTypeOK
      <4>2. QED
        BY <1>3, <4>1 DEF DigestIsCurrent
    <3>3. QED
      BY <1>1, <3>1, <3>2 DEF readSnapshot
  <2>6. QED
    BY <2>2, <2>4, <2>5 DEF ReadFits
<1>7. poll'.pc = "read"
  BY <1>1
<1>8. QED
  BY <1>4, <1>5, <1>6, <1>7 DEF ContentsFit, AnswerFits

\* The entitlement takes whole clients out of it.
LEMMA ProjectionFits ==
    ASSUME SnapshotTypeOK, ContentsFit, projectAuthorizations
    PROVE  ContentsFit'
<1> DEFINE Served(r) == client[r[1]] = "active" /\ r[1] \in entitled
<1>1. poll.pc = "read" /\ UNCHANGED <<client, auth, required, entitled, state, node>>
  BY DEF projectAuthorizations, issued
<1>2. /\ poll'.pc = "answered" /\ poll'.revision = poll.revision
      /\ poll'.accepts = {r \in poll.accepts : Served(r)}
  BY DEF projectAuthorizations, SnapshotTypeOK
<1>3. Usable' = Usable
  BY <1>1 DEF Usable
<1>4. Labelled(node)' /\ Complete(node)'
  BY <1>1, <1>3 DEF ContentsFit, Labelled, Accepts, Complete
<1>5. Labelled(poll)'
  <2>1. SUFFICES ASSUME ~TornReads, poll.revision = state.desired
                 PROVE  Accepts(poll)' = state.digest \cap Usable
    BY <1>1, <1>2, <1>3 DEF Labelled
  <2>2. Accepts(poll) = Usable /\ (DigestIsCurrent \/ SnapshotRows = {})
    BY <1>1, <2>1 DEF ContentsFit, ReadFits
  <2>3. Accepts(poll)' = {r \in Accepts(poll) : Served(r)}
    BY <1>1, <1>2 DEF Accepts
  <2>4. CASE DigestIsCurrent
    <3>1. state.digest = {r \in SnapshotRows : Served(r)}
      BY <2>4 DEF DigestIsCurrent, EntitledRows
    <3>2. QED
      BY <2>2, <2>3, <3>1, UsableIsRow
  <2>5. CASE SnapshotRows = {}
    <3>1. Usable = {}
      BY <2>5, UsableIsRow
    <3>2. QED
      BY <2>2, <2>3, <3>1
  <2>6. QED
    BY <2>2, <2>4, <2>5
<1>6. Complete(poll)'
  <2>1. SUFFICES ASSUME NEW r \in poll'.accepts, NEW g \in 1..MaxGeneration,
                        auth[<<r[1], g>>] \in UsableStates, required[<<r[1], g>>] <= poll.revision
                 PROVE  <<r[1], g>> \in poll'.accepts
    BY <1>1, <1>2 DEF Complete
  <2>2. r \in Credential /\ Served(r)
    BY <1>2 DEF SnapshotTypeOK
  <2>3. <<r[1], g>> \in Usable
    BY <2>1, <2>2 DEF Usable, Credential
  <2>4. <<r[1], g>> \in poll.accepts
    BY <1>1, <2>1, <2>3 DEF ContentsFit, ReadFits
  <2>5. Served(<<r[1], g>>)
    BY <2>2
  <2>6. QED
    BY <1>2, <2>4, <2>5
<1>7. ReadFits'
  BY <1>2 DEF ReadFits
<1>8. QED
  BY <1>4, <1>5, <1>6, <1>7 DEF ContentsFit, AnswerFits

\* The node takes over what it was answered.
LEMMA ApplyFits ==
    ASSUME SnapshotTypeOK, ContentsFit, Apply
    PROVE  ContentsFit'
<1>1. poll.pc = "answered" /\ UNCHANGED <<client, auth, required, state>>
  BY DEF Apply, issued
<1>2. Usable' = Usable
  BY <1>1 DEF Usable
<1>3. Labelled(poll) /\ Complete(poll) /\ Labelled(node) /\ Complete(node)
  BY <1>1 DEF ContentsFit, AnswerFits
<1>4. poll'.pc # "read" /\ poll'.revision = poll.revision /\ poll'.accepts = poll.accepts
  BY DEF Apply, SnapshotTypeOK
<1>5. Labelled(poll)' /\ Complete(poll)'
  BY <1>1, <1>2, <1>3, <1>4 DEF Labelled, Accepts, Complete
<1>6. Labelled(node)' /\ Complete(node)'
  <2>1. CASE node' = node
    BY <1>1, <1>2, <1>3, <2>1 DEF Labelled, Accepts, Complete
  <2>2. CASE node' = [revision |-> poll.revision, accepts |-> poll.accepts]
    <3>1. node'.revision = poll.revision /\ node'.accepts = poll.accepts
      BY <2>2
    <3>2. QED
      BY <1>1, <1>2, <1>3, <3>1 DEF Labelled, Accepts, Complete
  <2>3. QED
    BY <2>1, <2>2 DEF Apply
<1>7. QED
  BY <1>4, <1>5, <1>6 DEF ContentsFit, AnswerFits, ReadFits

LEMMA SnapshotInvNext ==
    SnapshotTypeOK /\ SnapshotInv /\ [SnapshotNext]_snapshotVars => SnapshotInv'
<1> SUFFICES ASSUME SnapshotTypeOK, SnapshotInv, [SnapshotNext]_snapshotVars PROVE SnapshotInv'
  OBVIOUS
<1>a. RowsFit /\ RevisionsFit /\ ContentsFit
  BY DEF SnapshotInv
<1>b. RowsFit' /\ RevisionsFit'
  BY <1>a, SnapshotTypeNext
<1> SUFFICES ContentsFit'
  BY <1>b DEF SnapshotInv
<1>1. ASSUME NEW c \in Clients,
             create_external_vpn_device(c) \/ rotate_compatibility_credential(c) \/ revoke_external_vpn_device(c)
      PROVE  ContentsFit'
  <2>1. PICK held : Issues(c, held)
    BY <1>1, <1>a, IssuingWrites
  <2>2. IsFiniteSet(held)
    BY <2>1, RowsFinite DEF Issues
  <2>3. /\ state'.desired \in Revision /\ state'.desired > state.desired
        /\ required' \in [Credential -> Revision]
        /\ \A r \in Credential \ held : required'[r] = required[r]
        /\ \A r \in Credential \cap held : required'[r] > state.desired
    BY <2>1, <2>2, AdvanceMoves DEF Issues
  <2>4. UNCHANGED <<poll, node>> /\ \A r \in Credential \ held : auth'[r] = auth[r]
    BY <2>1 DEF Issues
  <2>5. state.desired \in Nat /\ state'.desired \in Nat /\ \A r \in Credential : required'[r] \in Nat
    BY <2>3, SnapshotParameters DEF SnapshotTypeOK, Revision
  <2>6. \A r \in Credential : required'[r] <= state.desired => r \notin held
    BY <2>3, <2>5
  <2>7. QED
    BY <1>a, <2>3, <2>4, <2>5, <2>6, WritesAreNews
<1>2. ASSUME NEW c \in Clients, EntitlementChanges(c) PROVE ContentsFit'
  <2>1. (poll.pc = "read" => TornReads) /\ UNCHANGED <<auth, required, state, poll, node>>
    BY <1>2 DEF EntitlementChanges, issued
  <2>2. QED
    BY <1>a, <2>1 DEF ContentsFit, ReadFits, AnswerFits, Labelled, Complete, Accepts, Usable
<1>3. ASSUME NEW r \in Credential, ExpireCredential(r) PROVE ContentsFit'
  BY <1>a, <1>3, ExpiryKeeps
<1>4. ASSUME NEW r \in Credential, pruneCompatibilityAuthorizations(r) PROVE ContentsFit'
  <2>1. /\ auth' = [auth EXCEPT ![r] = "pruned"] /\ required' = [required EXCEPT ![r] = 0]
        /\ state' = [state EXCEPT !.desired = @ + 1]
        /\ UNCHANGED <<poll, node>>
    BY <1>4 DEF pruneCompatibilityAuthorizations
  <2>2. state.desired \in Nat /\ state'.desired = state.desired + 1
    BY <2>1, SnapshotParameters DEF SnapshotTypeOK, Revision
  <2>3. \A q \in Credential : auth'[q] \in UsableStates => auth'[q] = auth[q] /\ required'[q] = required[q]
    BY <2>1 DEF SnapshotTypeOK, UsableStates
  <2>4. state'.desired \in Nat /\ state'.desired > state.desired
    BY <2>2
  <2>5. \A q \in Credential : required'[q] \in Nat
    BY <2>1, SnapshotParameters DEF SnapshotTypeOK, Revision
  <2>6. QED
    BY <1>a, <2>1, <2>3, <2>4, <2>5, WritesAreNews
<1>5. CASE PollSnapshot
  BY <1>5, <1>a, PollFits
<1>6. CASE projectAuthorizations
  BY <1>6, <1>a, ProjectionFits
<1>7. CASE Apply
  BY <1>7, <1>a, ApplyFits
<1>8. CASE Acknowledge \/ AgentCrashes
  <2>1. UNCHANGED <<client, auth, required, entitled, node>> /\ poll'.pc = "idle"
    BY <1>8 DEF Acknowledge, AgentCrashes, issued, SnapshotTypeOK
  <2>2. state'.desired = state.desired /\ state'.digest = state.digest
    BY <1>8 DEF Acknowledge, AgentCrashes, SnapshotTypeOK
  <2>3. Labelled(node)' /\ Complete(node)'
    BY <1>a, <2>1, <2>2 DEF ContentsFit, Labelled, Complete, Accepts, Usable
  <2>4. QED
    BY <2>1, <2>3 DEF ContentsFit, ReadFits, AnswerFits
<1>9. CASE UNCHANGED snapshotVars
  BY <1>9, <1>a DEF snapshotVars, ContentsFit, ReadFits, AnswerFits, Labelled, Complete, Accepts, Usable,
     DigestIsCurrent, EntitledRows, SnapshotRows
<1>10. QED
  BY <1>1, <1>2, <1>3, <1>4, <1>5, <1>6, <1>7, <1>8, <1>9 DEF SnapshotNext

LEMMA SnapshotsStay == SnapshotSpec => [](SnapshotTypeOK /\ SnapshotInv)
<1>1. SnapshotInit => SnapshotInv
  BY SnapshotTypeInit DEF SnapshotInit, SnapshotInv, RowsFit, RevisionsFit, ContentsFit, ReadFits, AnswerFits,
     Labelled, Complete, Accepts, Usable, UsableStates
<1>2. QED
  BY <1>1, SnapshotInvNext, SnapshotTyped, PTL DEF SnapshotSpec

LEMMA CompleteSuffices == SnapshotTypeOK /\ SnapshotInv => PublishedIsAccepted
<1>1. SUFFICES ASSUME SnapshotTypeOK, Complete(node), NEW c \in Clients, NEW g \in Publication(c),
                      NEW h \in 1..MaxGeneration, <<c, h>> \in node.accepts
               PROVE  <<c, g>> \in node.accepts
  BY DEF PublishedIsAccepted, SnapshotInv, ContentsFit
<1>2. g \in 1..MaxGeneration /\ auth[<<c, g>>] \in UsableStates /\ required[<<c, g>>] <= state.applied
  BY DEF Publication, Publishable
<1>3. <<c, g>> \in Credential
  BY <1>2 DEF Credential
<1>4. required[<<c, g>>] <= node.revision
  <2>1. required[<<c, g>>] \in Nat /\ state.applied \in Nat /\ node.revision \in Nat
    BY <1>1, <1>3, SnapshotParameters DEF SnapshotTypeOK, Revision
  <2>2. QED
    BY <1>1, <1>2, <2>1 DEF SnapshotTypeOK
<1>5. QED
  BY <1>1, <1>2, <1>4 DEF Complete

LEMMA LabelsSuffice == ~TornReads /\ SnapshotTypeOK /\ SnapshotInv => NodeFollows
<1>1. SUFFICES ASSUME SnapshotTypeOK, ~TornReads, Labelled(node),
                      node.revision = state.desired, DigestIsCurrent \/ SnapshotRows = {}
               PROVE  Accepts(node) = Due
  BY DEF NodeFollows, Accepts, SnapshotInv, ContentsFit
<1>2. Accepts(node) = state.digest \cap Usable
  BY <1>1 DEF Labelled
<1>3. Due \subseteq Usable /\ EntitledRows \subseteq SnapshotRows /\ Due = EntitledRows \cap Usable
  BY DEF Due, EntitledRows, SnapshotRows, Usable
<1>4. CASE DigestIsCurrent
  BY <1>2, <1>3, <1>4 DEF DigestIsCurrent
<1>5. CASE SnapshotRows = {}
  BY <1>1, <1>2, <1>3, <1>5, UsableIsRow
<1>6. QED
  BY <1>1, <1>4, <1>5

\* No URL publishes a credential that its node refuses while it accepts another one of the client,
\* however the agent's polls and a change of entitlement interleave.
\* (get_publishable_compatibility_deployments, ack_compatibility_authorization_snapshot)
THEOREM PublicationsCorrect == SnapshotSpec => []PublishedIsAccepted
  BY SnapshotsStay, CompleteSuffices, PTL

\* And what a node that is up to date accepts is what it must, unless entitlement changes between the
\* two reads of a poll.
\* (get_compatibility_authorization_snapshot_synced, authorizations.js)
THEOREM SnapshotsCorrect == ~TornReads /\ SnapshotSpec => []SnapshotsHold
<1>1. ASSUME ~TornReads PROVE SnapshotSpec => []SnapshotsHold
  <2>1. SnapshotTypeOK /\ SnapshotInv => SnapshotsHold
    BY <1>1, CompleteSuffices, LabelsSuffice DEF SnapshotsHold
  <2>2. QED
    BY <2>1, SnapshotsStay, PTL
<1>2. QED
  BY <1>1

-----------------------------------------------------------------------------
(* Type correctness *)

LEMMA BucketType ==
    ASSUME NEW t \in Telegrams, TelegramTypeOK
    PROVE  check_rate_limit(t) \in [start : Never..MaxNow, count : 0..(LIMIT + 1)]
<1>1. /\ buckets[t] \in [start : Never..MaxNow, count : 0..(LIMIT + 1)]
      /\ now \in Never..MaxNow /\ LIMIT \in Nat
  BY TelegramParameters DEF TelegramTypeOK, Never
<1>2. CASE buckets[t].count = 0 \/ buckets[t].start + WINDOW <= now
  BY <1>1, <1>2 DEF check_rate_limit
<1>3. CASE ~(buckets[t].count = 0 \/ buckets[t].start + WINDOW <= now) /\ buckets[t].count > LIMIT
  BY <1>1, <1>3 DEF check_rate_limit
<1>4. CASE ~(buckets[t].count = 0 \/ buckets[t].start + WINDOW <= now) /\ ~(buckets[t].count > LIMIT)
  <2>1. check_rate_limit(t) = [buckets[t] EXCEPT !.count = @ + 1]
    BY <1>4 DEF check_rate_limit
  <2>2. buckets[t].count + 1 \in 0..(LIMIT + 1)
    BY <1>1, <1>4
  <2>3. QED
    BY <1>1, <2>1, <2>2
<1>5. QED
  BY <1>2, <1>3, <1>4

\* Going on, or ending, keeps the requests' type.
LEMMA RequestType ==
    ASSUME NEW r \in Redeemers, NEW pc \in {"idle", "check", "consume", "insert", "unconsume"},
           TelegramTypeOK, Goes(r, pc) \/ Ends(r)
    PROVE  redeeming' \in [Redeemers -> Redeeming]
<1>1. redeeming \in [Redeemers -> Redeeming] /\ NotRedeeming \in Redeeming
  BY DEF TelegramTypeOK, Redeeming, NotRedeeming
<1>2. [redeeming[r] EXCEPT !.pc = pc] \in Redeeming
  BY <1>1 DEF Redeeming
<1>3. QED
  BY <1>1, <1>2 DEF Goes, Ends

LEMMA TelegramTypeInit == TelegramInit => TelegramTypeOK
  BY TelegramParameters
     DEF TelegramInit, TelegramTypeOK, CodeRow, NoCode, Redeeming, NotRedeeming, NoBucket, NoTries, Never

LEMMA TelegramTypeNext == TelegramTypeOK /\ [TelegramNext]_telegramVars => TelegramTypeOK'
<1> SUFFICES ASSUME TelegramTypeOK, [TelegramNext]_telegramVars PROVE TelegramTypeOK'
  OBVIOUS
<1> USE TelegramParameters DEF TelegramTypeOK, Never
<1>1. ASSUME NEW u \in Members, AskCode(u) PROVE TelegramTypeOK'
  BY <1>1 DEF AskCode
<1>2. ASSUME NEW u \in Members, Unlink(u) PROVE TelegramTypeOK'
  BY <1>2 DEF Unlink
<1>3. ASSUME NEW u \in Members, NEW c \in Codes, InsertCode(u, c) PROVE TelegramTypeOK'
  BY <1>3 DEF InsertCode, CodeRow
<1>4. ASSUME NEW r \in Redeemers, CheckLink(r) PROVE TelegramTypeOK'
  BY <1>4, RequestType DEF CheckLink
<1>5. ASSUME NEW r \in Redeemers, Consume(r) PROVE TelegramTypeOK'
  <2>1. redeeming' \in [Redeemers -> Redeeming]
    BY <1>5, RequestType DEF Consume
  <2>2. codes' \in [Codes -> CodeRow]
    BY <1>5, ZenonT(60) DEF Consume, CodeRow
  <2>3. QED
    BY <1>5, <2>1, <2>2 DEF Consume
<1>6. ASSUME NEW r \in Redeemers, InsertLink(r) \/ InsertFails(r) PROVE TelegramTypeOK'
  <2>1. redeeming' \in [Redeemers -> Redeeming]
    BY <1>6, RequestType DEF InsertLink, InsertFails
  <2>2. links' \in [Members -> Telegrams \cup {Nothing}]
    <3>1. redeeming[r].telegram \in Telegrams \cup {Nothing}
      BY DEF Redeeming
    <3>2. QED
      BY <1>6, <3>1 DEF InsertLink, InsertFails, Written
  <2>3. made' \in [Codes -> Nat]
    BY <1>6 DEF InsertLink, InsertFails, Written
  <2>4. failures' \in 0..MaxFailures
    BY <1>6 DEF InsertLink, InsertFails
  <2>5. QED
    BY <1>6, <2>1, <2>2, <2>3, <2>4 DEF InsertLink, InsertFails
<1>7. ASSUME NEW r \in Redeemers, Unconsume(r) PROVE TelegramTypeOK'
  <2>1. redeeming' \in [Redeemers -> Redeeming]
    BY <1>7, RequestType DEF Unconsume
  <2>2. codes' \in [Codes -> CodeRow]
    BY <1>7, ZenonT(60) DEF Unconsume, CodeRow
  <2>3. QED
    BY <1>7, <2>1, <2>2 DEF Unconsume
<1>8. ASSUME NEW r \in Redeemers, RequestDies(r) PROVE TelegramTypeOK'
  BY <1>8, RequestType DEF RequestDies
<1>9. ASSUME NEW r \in Redeemers, NEW t \in Telegrams, NEW c \in Codes \cup {Nothing}, Attempt(r, t, c)
      PROVE  TelegramTypeOK'
  <2>1. buckets' \in [Telegrams -> [start : Never..MaxNow, count : 0..(LIMIT + 1)]]
    BY <1>9, BucketType DEF Attempt
  <2>2. tries' \in [Codes -> [Telegrams -> Nat]]
    <3> DEFINE Adds(k) == IF checkRateLimit(t) /\ Live(k) THEN 1 ELSE 0
    <3>1. tries' = [k \in Codes |-> [tries[k] EXCEPT ![t] = @ + Adds(k)]]
      BY <1>9 DEF Attempt
    <3>2. \A k \in Codes : Adds(k) \in Nat
      OBVIOUS
    <3> HIDE DEF Adds
    <3>3. QED
      BY <3>1, <3>2
  <2>3. redeeming' \in [Redeemers -> Redeeming]
    <3>1. CASE UNCHANGED redeeming
      BY <3>1
    <3>2. CASE c \in Codes /\ redeeming' = [redeeming EXCEPT ![r] =
                   [pc |-> "check", telegram |-> t, code |-> c, member |-> codes[c].member]]
      <4>1. [pc |-> "check", telegram |-> t, code |-> c, member |-> codes[c].member] \in Redeeming
        BY <3>2 DEF CodeRow, Redeeming
      <4>2. QED
        BY <3>2, <4>1
    <3>3. QED
      BY <1>9, <3>1, <3>2 DEF Attempt
  <2>4. QED
    BY <1>9, <2>1, <2>2, <2>3 DEF Attempt
<1>10. ASSUME NEW t \in Telegrams, OpenMiniApp(t) PROVE TelegramTypeOK'
  BY <1>10 DEF OpenMiniApp
<1>11. ASSUME NEW t \in Telegrams, MiniAppUnlinks(t) PROVE TelegramTypeOK'
  BY <1>2, <1>11 DEF MiniAppUnlinks
<1>12. CASE pruneTelegramLinkCodes
  BY <1>12 DEF pruneTelegramLinkCodes, NoCode, CodeRow, NoTries
<1>13. CASE pruneRateLimitBuckets
  BY <1>13 DEF pruneRateLimitBuckets, NoBucket
<1>14. CASE Tick
  BY <1>14 DEF Tick
<1>15. CASE UNCHANGED telegramVars
  BY <1>15 DEF telegramVars
<1>16. QED
  BY <1>1, <1>2, <1>3, <1>4, <1>5, <1>6, <1>7, <1>8, <1>9, <1>10, <1>11, <1>12, <1>13, <1>14, <1>15
     DEF TelegramNext

\* Every variable stays within its type.  (api/account/telegram/link-code.js, api/telegram/link.js)
THEOREM TelegramTypeCorrect == TelegramSpec => []TelegramTypeOK
  BY TelegramTypeInit, TelegramTypeNext, PTL DEF TelegramSpec

-----------------------------------------------------------------------------
(* A code makes one link *)

\* The request consumed the code and has neither inserted the link nor put the code back.
Owns(r, c) == redeeming[r].pc \in {"insert", "unconsume"} /\ redeeming[r].code = c

\* A code that is not consumed made nothing and nobody owns it; one owner at most makes its link.
OnceInv ==
    \A c \in Codes :
        /\ made[c] \in {0, 1}
        /\ ~codes[c].consumed => made[c] = 0 /\ \A r \in Redeemers : ~Owns(r, c)
        /\ \A r \in Redeemers : Owns(r, c) => made[c] = 0
        /\ \A r, q \in Redeemers : Owns(r, c) /\ Owns(q, c) => r = q

LEMMA OnceInit == TelegramInit => OnceInv
  BY DEF TelegramInit, OnceInv, Owns, NoCode, NotRedeeming

\* Nothing the invariant speaks of changes unless a request consumes or inserts.
LEMMA OnceKept ==
    ASSUME OnceInv, UNCHANGED made,
           \A c \in Codes : codes'[c].consumed = codes[c].consumed,
           \A r \in Redeemers, c \in Codes : Owns(r, c)' => Owns(r, c)
    PROVE  OnceInv'
  BY DEF OnceInv

LEMMA OnceNext ==
    ~LostAnswers /\ TelegramTypeOK /\ OnceInv /\ [TelegramNext]_telegramVars => OnceInv'
<1> SUFFICES ASSUME ~LostAnswers, TelegramTypeOK, OnceInv, [TelegramNext]_telegramVars PROVE OnceInv'
  OBVIOUS
<1>1. ASSUME NEW u \in Members, NEW c \in Codes, InsertCode(u, c) PROVE OnceInv'
  <2>1. codes[c].consumed = FALSE
    BY <1>1 DEF InsertCode, NoCode
  <2>2. \A k \in Codes : codes'[k].consumed = codes[k].consumed
    BY <1>1, <2>1 DEF InsertCode, TelegramTypeOK
  <2>3. QED
    BY <1>1, <2>2, OnceKept DEF InsertCode, Owns
<1>2. ASSUME NEW r \in Redeemers, CheckLink(r) PROVE OnceInv'
  BY <1>2, OnceKept DEF CheckLink, Goes, Ends, Owns, NotRedeeming, TelegramTypeOK, Redeeming
<1>3. ASSUME NEW r \in Redeemers, Consume(r) PROVE OnceInv'
  <2>1. CASE codes[redeeming[r].code].consumed
    <3>1. \A k \in Codes : codes'[k].consumed = codes[k].consumed
      BY <1>3, <2>1 DEF Consume, TelegramTypeOK, CodeRow
    <3>2. \A q \in Redeemers, k \in Codes : Owns(q, k)' => Owns(q, k)
      BY <1>3, <2>1, SMTT(30) DEF Consume, Ends, Owns, NotRedeeming, TelegramTypeOK
    <3>3. QED
      BY <1>3, <3>1, <3>2, OnceKept DEF Consume
  <2>2. CASE ~codes[redeeming[r].code].consumed
    <3> DEFINE c == redeeming[r].code
    <3>1. \A k \in Codes \ {c} : codes'[k].consumed = codes[k].consumed
      BY <1>3 DEF Consume, TelegramTypeOK
    <3>2. c \in Codes => codes'[c].consumed
      BY <1>3 DEF Consume, TelegramTypeOK, CodeRow
    <3>3. \A q \in Redeemers, k \in Codes : Owns(q, k)' <=> Owns(q, k) \/ (q = r /\ k = c)
      BY <1>3, <2>2 DEF Consume, Goes, Owns, TelegramTypeOK, Redeeming
    <3>4. c \in Codes => made[c] = 0 /\ \A q \in Redeemers : ~Owns(q, c)
      BY <2>2 DEF OnceInv
    <3>5. UNCHANGED made
      BY <1>3 DEF Consume
    <3> HIDE DEF c
    <3>6. QED
      BY <3>1, <3>2, <3>3, <3>4, <3>5 DEF OnceInv
  <2>3. QED
    BY <2>1, <2>2
<1>4. ASSUME NEW r \in Redeemers, InsertLink(r) PROVE OnceInv'
  BY <1>4 DEF InsertLink, Written, Ends, Owns, NotRedeeming, OnceInv, TelegramTypeOK, Redeeming
<1>5. ASSUME NEW r \in Redeemers, InsertFails(r) PROVE OnceInv'
  BY <1>5, OnceKept DEF InsertFails, Goes, Owns, TelegramTypeOK, Redeeming
<1>6. ASSUME NEW r \in Redeemers, Unconsume(r) PROVE OnceInv'
  BY <1>6 DEF Unconsume, Ends, Owns, NotRedeeming, OnceInv, TelegramTypeOK, Redeeming, CodeRow
<1>7. ASSUME NEW r \in Redeemers, RequestDies(r) PROVE OnceInv'
  BY <1>7, OnceKept DEF RequestDies, Ends, Owns, NotRedeeming, TelegramTypeOK, Redeeming
<1>8. ASSUME NEW r \in Redeemers, NEW t \in Telegrams, NEW c \in Codes \cup {Nothing}, Attempt(r, t, c)
      PROVE  OnceInv'
  <2>1. \A q \in Redeemers, k \in Codes : Owns(q, k)' => Owns(q, k)
    <3>1. \A q \in Redeemers : redeeming'[q] = redeeming[q] \/ redeeming'[q].pc = "check"
      BY <1>8 DEF Attempt, TelegramTypeOK
    <3>2. QED
      BY <3>1 DEF Owns
  <2>2. QED
    BY <1>8, <2>1, OnceKept DEF Attempt
\* A code is pruned when no request holds it.
<1>9. CASE pruneTelegramLinkCodes
  BY <1>9 DEF pruneTelegramLinkCodes, NoCode, Owns, OnceInv
\* The other steps do not touch codes, requests or links that were made.
<1>10. ASSUME UNCHANGED <<codes, redeeming, made>> PROVE OnceInv'
  BY <1>10, OnceKept DEF Owns
<1>11. ASSUME NEW u \in Members, AskCode(u) \/ Unlink(u) PROVE OnceInv'
  BY <1>10, <1>11 DEF AskCode, Unlink
<1>12. ASSUME NEW t \in Telegrams, OpenMiniApp(t) \/ MiniAppUnlinks(t) PROVE OnceInv'
  BY <1>10, <1>11, <1>12 DEF OpenMiniApp, MiniAppUnlinks
<1>13. CASE pruneRateLimitBuckets \/ Tick \/ UNCHANGED telegramVars
  BY <1>10, <1>13 DEF pruneRateLimitBuckets, Tick, telegramVars
<1>14. QED
  BY <1>1, <1>2, <1>3, <1>4, <1>5, <1>6, <1>7, <1>8, <1>9, <1>11, <1>12, <1>13 DEF TelegramNext

-----------------------------------------------------------------------------
(* Guesses at a code *)

\* A code was issued at some time, and what a request holds was issued.
HeldInv ==
    /\ \A c \in Codes : codes[c] # NoCode => codes[c].issued \in 0..now
    /\ \A r \in Redeemers : redeeming[r].code \in Codes => codes[redeeming[r].code] # NoCode

\* Consuming a code, or putting it back, leaves it issued when it was.
LEMMA StaysIssued ==
    ASSUME TelegramTypeOK, HeldInv, NEW r \in Redeemers, Consume(r) \/ Unconsume(r), NEW c \in Codes
    PROVE  \/ codes'[c] = codes[c]
           \/ codes[c] # NoCode /\ codes'[c] # NoCode /\ codes'[c].issued = codes[c].issued
<1>1. CASE c # redeeming[r].code
  BY <1>1 DEF Consume, Unconsume, TelegramTypeOK
<1>2. CASE c = redeeming[r].code
  <2>1. codes[c] # NoCode /\ codes[c].issued \in 0..now
    BY <1>2 DEF HeldInv
  <2>2. \E v \in BOOLEAN : codes' = [codes EXCEPT ![c].consumed = v]
    BY <1>2 DEF Consume, Unconsume
  <2>3. codes'[c].issued = codes[c].issued
    BY <2>2 DEF TelegramTypeOK, CodeRow
  <2>4. NoCode.issued = -1 /\ -1 \notin 0..now
    BY DEF NoCode, Never
  <2>5. QED
    BY <2>1, <2>3, <2>4
<1>3. QED
  BY <1>1, <1>2

LEMMA HeldNext == TelegramTypeOK /\ HeldInv /\ [TelegramNext]_telegramVars => HeldInv'
<1> SUFFICES ASSUME TelegramTypeOK, HeldInv, [TelegramNext]_telegramVars PROVE HeldInv'
  OBVIOUS
<1> USE TelegramParameters
<1>1. \A r \in Redeemers : redeeming[r].code \in Codes \cup {Nothing}
  BY DEF TelegramTypeOK, Redeeming
\* A request that goes on holds the code it held, and one that ends holds none.
<1>2. ASSUME NEW r \in Redeemers, Ends(r) \/ \E pc \in {"consume", "insert", "unconsume"} : Goes(r, pc)
      PROVE  \A q \in Redeemers : redeeming'[q].code \in {redeeming[q].code, Nothing}
  <2>1. redeeming \in [Redeemers -> Redeeming]
    BY DEF TelegramTypeOK
  <2>2. CASE Ends(r)
    BY <2>1, <2>2 DEF Ends, NotRedeeming
  <2>3. ASSUME NEW pc \in {"consume", "insert", "unconsume"}, Goes(r, pc)
        PROVE  \A q \in Redeemers : redeeming'[q].code = redeeming[q].code
    BY <2>1, <2>3 DEF Goes, Redeeming
  <2>4. QED
    BY <1>2, <2>2, <2>3
<1>3. ASSUME NEW r \in Redeemers, CheckLink(r) \/ InsertLink(r) \/ InsertFails(r) \/ RequestDies(r) PROVE HeldInv'
  <2>1. Ends(r) \/ \E pc \in {"consume", "insert", "unconsume"} : Goes(r, pc)
    BY <1>3 DEF CheckLink, InsertLink, InsertFails, RequestDies
  <2>2. UNCHANGED <<codes, now>>
    BY <1>3 DEF CheckLink, InsertLink, InsertFails, RequestDies
  <2>3. QED
    BY <1>2, <2>1, <2>2, TelegramParameters DEF HeldInv
<1>4. ASSUME NEW r \in Redeemers, Consume(r) \/ Unconsume(r) PROVE HeldInv'
  <2>1. Ends(r) \/ \E pc \in {"consume", "insert", "unconsume"} : Goes(r, pc)
    BY <1>4 DEF Consume, Unconsume
  <2>2. UNCHANGED now
    BY <1>4 DEF Consume, Unconsume
  <2>3. QED
    BY <1>2, <1>4, <2>1, <2>2, StaysIssued, TelegramParameters DEF HeldInv
<1>5. ASSUME NEW r \in Redeemers, NEW t \in Telegrams, NEW c \in Codes \cup {Nothing}, Attempt(r, t, c)
      PROVE  HeldInv'
  <2>1. \A q \in Redeemers : redeeming'[q] = redeeming[q] \/ (redeeming'[q].code = c /\ codes[c] # NoCode)
    <3> DEFINE new == [pc |-> "check", telegram |-> t, code |-> c, member |-> codes[c].member]
    <3>1. \/ UNCHANGED redeeming
          \/ Live(c) /\ redeeming' = [redeeming EXCEPT ![r] = new]
      BY <1>5 DEF Attempt
    <3>2. new.code = c
      OBVIOUS
    <3>3. redeeming \in [Redeemers -> Redeeming] /\ (Live(c) => codes[c] # NoCode)
      BY DEF Live, TelegramTypeOK
    <3> HIDE DEF new
    <3>4. QED
      BY <3>1, <3>2, <3>3
  <2>2. QED
    BY <1>5, <2>1 DEF Attempt, HeldInv
<1>6. ASSUME NEW u \in Members, NEW c \in Codes, InsertCode(u, c) PROVE HeldInv'
  <2>1. codes[c] = NoCode /\ codes'[c].issued = now /\ \A k \in Codes \ {c} : codes'[k] = codes[k]
    BY <1>6 DEF InsertCode, TelegramTypeOK
  <2>2. now \in 0..now
    BY DEF TelegramTypeOK
  <2>3. \A q \in Redeemers : redeeming[q].code # c
    BY <2>1 DEF HeldInv
  <2>4. QED
    BY <1>6, <2>1, <2>2, <2>3 DEF InsertCode, HeldInv
<1>7. CASE pruneTelegramLinkCodes
  BY <1>7 DEF pruneTelegramLinkCodes, HeldInv
<1>8. CASE Tick
  BY <1>8 DEF Tick, HeldInv, TelegramTypeOK
<1>9. ASSUME UNCHANGED <<codes, now, redeeming>> PROVE HeldInv'
  BY <1>9 DEF HeldInv
<1>10. ASSUME NEW u \in Members, AskCode(u) \/ Unlink(u) PROVE HeldInv'
  BY <1>9, <1>10 DEF AskCode, Unlink
<1>11. ASSUME NEW t \in Telegrams, OpenMiniApp(t) \/ MiniAppUnlinks(t) PROVE HeldInv'
  BY <1>9, <1>10, <1>11 DEF OpenMiniApp, MiniAppUnlinks
<1>12. CASE pruneRateLimitBuckets \/ UNCHANGED telegramVars
  BY <1>9, <1>12 DEF pruneRateLimitBuckets, telegramVars
<1>13. QED
  BY <1>3, <1>4, <1>5, <1>6, <1>7, <1>8, <1>10, <1>11, <1>12 DEF TelegramNext

Through(t) == IF buckets[t].count > LIMIT THEN LIMIT ELSE buckets[t].count

\* The windows that the life of a code c meets: before one that began in its life there was one that began
\* earlier, and no third begins.  tries counts at most what each let through.
GuessInv ==
    \A c \in Codes :
        /\ codes[c] = NoCode => \A t \in Telegrams : tries[c][t] = 0
        /\ \A t \in Telegrams :
              /\ tries[c][t] <= 2 * LIMIT
              /\ Live(c) /\ buckets[t].count = 0 => tries[c][t] <= LIMIT
              /\ Live(c) /\ buckets[t].count # 0 /\ buckets[t].start < codes[c].issued => tries[c][t] <= Through(t)
              /\ Live(c) => tries[c][t] <= LIMIT + Through(t)

LEMMA GuessInit == TelegramInit => HeldInv /\ GuessInv
  BY TelegramParameters DEF TelegramInit, HeldInv, GuessInv, NoTries, NotRedeeming, Live, NoBucket, Through

\* What one attempt does to the count of its window, and to the tries at a code.
LEMMA GuessAttempt ==
    ASSUME TTL <= WINDOW, TelegramTypeOK, HeldInv, GuessInv,
           NEW r \in Redeemers, NEW t \in Telegrams, NEW c \in Codes \cup {Nothing}, Attempt(r, t, c)
    PROVE  GuessInv'
<1> USE TelegramParameters
<1>1. UNCHANGED <<codes, now>> /\ \A k \in Codes : Live(k)' <=> Live(k)
  BY DEF Attempt, Live
<1>2. \A u \in Telegrams \ {t} : buckets'[u] = buckets[u] /\ \A k \in Codes : tries'[k][u] = tries[k][u]
  BY DEF Attempt, TelegramTypeOK
<1>3. buckets'[t] = check_rate_limit(t)
  BY DEF Attempt, TelegramTypeOK
<1>4. \A k \in Codes : tries'[k][t] = tries[k][t] + IF checkRateLimit(t) /\ Live(k) THEN 1 ELSE 0
  BY DEF Attempt, TelegramTypeOK
<1>5. /\ buckets[t] \in [start : Never..MaxNow, count : 0..(LIMIT + 1)]
      /\ now \in 0..MaxNow /\ LIMIT \in Nat /\ TTL \in Nat /\ WINDOW \in Nat
  BY DEF TelegramTypeOK
<1>6. ASSUME NEW k \in Codes, Live(k)
      PROVE  /\ codes[k].issued \in 0..now /\ now < codes[k].issued + TTL
             /\ tries[k][t] \in Nat
             /\ buckets[t].count = 0 => tries[k][t] <= LIMIT
             /\ buckets[t].count # 0 /\ buckets[t].start < codes[k].issued => tries[k][t] <= Through(t)
             /\ tries[k][t] <= LIMIT + Through(t)
  BY <1>6 DEF HeldInv, GuessInv, Live, TelegramTypeOK
<1>7. ASSUME NEW k \in Codes, Live(k)
      PROVE  /\ tries'[k][t] <= 2 * LIMIT
             /\ buckets'[t].count # 0
             /\ buckets'[t].start < codes[k].issued => tries'[k][t] <= Through(t)'
             /\ tries'[k][t] <= LIMIT + Through(t)'
  <2>1. CASE buckets[t].count = 0 \/ buckets[t].start + WINDOW <= now
    <3>1. buckets'[t] = [start |-> now, count |-> 1]
      BY <1>3, <2>1 DEF check_rate_limit
    <3>2. checkRateLimit(t) <=> 1 <= LIMIT
      BY <2>1 DEF checkRateLimit, check_rate_limit
    <3>3. tries[k][t] <= LIMIT
      BY <1>5, <1>6, <1>7, <2>1, TTL <= WINDOW DEF Through, Never
    <3>4. QED
      BY <1>4, <1>5, <1>6, <1>7, <3>1, <3>2, <3>3 DEF Through
  <2>2. CASE buckets[t].count # 0 /\ ~(buckets[t].start + WINDOW <= now) /\ buckets[t].count > LIMIT
    <3>1. buckets'[t] = buckets[t] /\ ~checkRateLimit(t)
      BY <1>3, <1>5, <2>2 DEF checkRateLimit, check_rate_limit
    <3>2. QED
      BY <1>4, <1>5, <1>6, <1>7, <2>2, <3>1 DEF Through
  <2>3. CASE buckets[t].count # 0 /\ ~(buckets[t].start + WINDOW <= now) /\ ~(buckets[t].count > LIMIT)
    <3>1. check_rate_limit(t) = [buckets[t] EXCEPT !.count = @ + 1]
      BY <1>5, <2>3 DEF check_rate_limit
    <3>2. buckets'[t].start = buckets[t].start /\ buckets'[t].count = buckets[t].count + 1
      BY <1>3, <1>5, <3>1
    <3>3. checkRateLimit(t) <=> buckets[t].count + 1 <= LIMIT
      BY <1>5, <3>1 DEF checkRateLimit
    <3>4. QED
      BY <1>4, <1>5, <1>6, <1>7, <2>3, <3>2, <3>3 DEF Through
  <2>4. QED
    BY <2>1, <2>2, <2>3
<1>8. \A k \in Codes : ~Live(k) => tries'[k][t] = tries[k][t]
  BY <1>4 DEF TelegramTypeOK
<1>9. \A k \in Codes : codes[k] = NoCode => ~Live(k)
  BY DEF Live
<1>10. QED
  BY <1>1, <1>2, <1>7, <1>8, <1>9 DEF GuessInv, Through

LEMMA GuessNext ==
    /\ TTL <= WINDOW /\ TTL <= Retention + 1
    /\ TelegramTypeOK /\ HeldInv /\ GuessInv /\ [TelegramNext]_telegramVars
    => GuessInv'
<1> SUFFICES ASSUME TTL <= WINDOW, TTL <= Retention + 1, TelegramTypeOK, HeldInv, GuessInv,
                    [TelegramNext]_telegramVars
             PROVE  GuessInv'
  OBVIOUS
<1> USE TelegramParameters
<1>1. ASSUME NEW r \in Redeemers, NEW t \in Telegrams, NEW c \in Codes \cup {Nothing}, Attempt(r, t, c)
      PROVE  GuessInv'
  BY <1>1, GuessAttempt
<1>2. ASSUME NEW u \in Members, NEW c \in Codes, InsertCode(u, c) PROVE GuessInv'
  <2>1. codes'[c].issued = now /\ \A k \in Codes \ {c} : codes'[k] = codes[k]
    BY <1>2 DEF InsertCode, TelegramTypeOK
  <2>2. UNCHANGED <<now, buckets, tries>> /\ \A t \in Telegrams : tries[c][t] = 0
    BY <1>2 DEF InsertCode, GuessInv
  <2>3. now \in 0..now
    BY DEF TelegramTypeOK
  <2>4. \A t \in Telegrams : Through(t) \in Nat
    BY DEF Through, TelegramTypeOK
  <2>5. QED
    BY <2>1, <2>2, <2>3, <2>4 DEF GuessInv, Live, Through
\* Consuming a code, or putting it back, leaves the time of its issue.
<1>3. ASSUME NEW r \in Redeemers, Consume(r) \/ Unconsume(r) PROVE GuessInv'
  <2>1. UNCHANGED <<now, buckets, tries>>
    BY <1>3 DEF Consume, Unconsume
  <2>2. QED
    BY <1>3, <2>1, StaysIssued DEF GuessInv, Live, Through
<1>4. CASE pruneTelegramLinkCodes
  BY <1>4 DEF pruneTelegramLinkCodes, GuessInv, Live, Through, NoTries, TelegramTypeOK
\* A window that began in the life of a code is pruned after the code's end.
<1>5. CASE pruneRateLimitBuckets
  <2>1. UNCHANGED <<codes, tries, now>> /\ \A k \in Codes : Live(k)' <=> Live(k)
    BY <1>5 DEF pruneRateLimitBuckets, Live
  <2>2. ASSUME NEW t \in Telegrams, buckets'[t] # buckets[t]
        PROVE  buckets'[t] = NoBucket /\ buckets[t].start + Retention < now
    BY <1>5, <2>2 DEF pruneRateLimitBuckets, TelegramTypeOK
  <2>3. ASSUME NEW t \in Telegrams, buckets'[t] # buckets[t], NEW k \in Codes, Live(k)
        PROVE  tries[k][t] <= LIMIT
    <3>1. codes[k].issued \in 0..now /\ now < codes[k].issued + TTL
      BY <2>3 DEF HeldInv, Live
    <3>2. buckets[t].start < codes[k].issued
      BY <2>2, <2>3, <3>1, TTL <= Retention + 1 DEF TelegramTypeOK, Never
    <3>3. QED
      BY <2>3, <3>2 DEF GuessInv, Through, TelegramTypeOK
  <2>4. QED
    BY <2>1, <2>2, <2>3 DEF GuessInv, Through, NoBucket
<1>6. CASE Tick
  <2>1. \A k \in Codes : Live(k)' => Live(k)
    BY <1>6 DEF Tick, Live, TelegramTypeOK, CodeRow, Never
  <2>2. QED
    BY <1>6, <2>1 DEF Tick, GuessInv, Through
\* The other steps do not touch codes, windows or tries.
<1>7. ASSUME UNCHANGED <<codes, now, buckets, tries>> PROVE GuessInv'
  BY <1>7 DEF GuessInv, Live, Through
<1>8. ASSUME NEW u \in Members, AskCode(u) \/ Unlink(u) PROVE GuessInv'
  BY <1>7, <1>8 DEF AskCode, Unlink
<1>9. ASSUME NEW r \in Redeemers, CheckLink(r) \/ InsertLink(r) \/ InsertFails(r) \/ RequestDies(r) PROVE GuessInv'
  BY <1>7, <1>9 DEF CheckLink, InsertLink, InsertFails, RequestDies
<1>10. ASSUME NEW t \in Telegrams, OpenMiniApp(t) \/ MiniAppUnlinks(t) PROVE GuessInv'
  BY <1>7, <1>8, <1>10 DEF OpenMiniApp, MiniAppUnlinks
<1>11. CASE UNCHANGED telegramVars
  BY <1>7, <1>11 DEF telegramVars
<1>12. QED
  BY <1>1, <1>2, <1>3, <1>4, <1>5, <1>6, <1>8, <1>9, <1>10, <1>11 DEF TelegramNext

\* A code makes at most one link and can be guessed at in two windows only, for any number of requests at once
\* and any limit: provided that an insert reported as failed did not take place, that a code does not live longer
\* than a window (both ten minutes) and that windows are kept longer than codes live (a day).
\* (api/telegram/link.js, check_rate_limit, retention.js)
THEOREM CodesAreSingleUseCorrect ==
    ASSUME ~LostAnswers, TTL <= WINDOW, TTL <= Retention + 1
    PROVE  TelegramSpec => []CodesAreSingleUse
<1>1. TelegramTypeOK /\ OnceInv /\ GuessInv => CodesAreSingleUse
  BY DEF OnceInv, GuessInv, CodesAreSingleUse
<1>2. TelegramInit => OnceInv /\ HeldInv /\ GuessInv
  BY OnceInit, GuessInit
<1>3. /\ TelegramTypeOK /\ OnceInv /\ HeldInv /\ GuessInv /\ [TelegramNext]_telegramVars
      => OnceInv' /\ HeldInv' /\ GuessInv'
  BY OnceNext, HeldNext, GuessNext
<1>4. QED
  BY <1>1, <1>2, <1>3, TelegramTypeCorrect, PTL DEF TelegramSpec

-----------------------------------------------------------------------------
(* Agent events *)

Busy == timer \/ \E l \in Loops : loops[l].pc # "idle"
Asking(p) == polls[p].pc \in {"reading", "read"}

\* A request that waits is the one that the hub knows of its node, and it was not late when it came.
WaiterFits(p) ==
    polls[p].pc = "waiting" =>
        /\ polls[p].agent \in Agents /\ waiters[polls[p].agent] = p /\ current[polls[p].agent] \in Token
        /\ polls[p].cursor \in Token /\ polls[p].cursor.wake >= polls[p].aged
\* A node whose request is before its answer from the database has no other, and that answer is complete
\* where the hub has nothing of the node.
AskingFits(p) ==
    Asking(p) =>
        /\ polls[p].agent \in Agents /\ waiters[polls[p].agent] = Nobody
        /\ current[polls[p].agent] \in Token \/ polls[p].withEnt
        /\ polls[p].aged <= aged[polls[p].agent].wake
        /\ \A q \in Polls : Asking(q) /\ polls[q].agent = polls[p].agent => q = p
\* The rows that were read are not older than an interval, ...
RowFits(p) == polls[p].pc = "read" => polls[p].row \in Token /\ polls[p].row.wake >= aged[polls[p].agent].wake
LoopFits(l) ==
    \A n \in loops[l].ids :
        /\ current[n] \in Token
        /\ loops[l].pc = "read" => loops[l].rows[n] \in Token /\ loops[l].rows[n].wake >= aged[n].wake
\* ... nor is what the hub takes for fresh.
FreshFits(n) ==
    /\ tokens[n].wake >= aged[n].wake
    /\ n \in fresh => current[n] \in Token /\ current[n].wake >= aged[n].wake
\* Whom the hub knows is waiting.
KnownFits(n) == waiters[n] # Nobody => polls[waiters[n]].pc = "waiting" /\ polls[waiters[n]].agent = n

EventInv ==
    /\ EventTypeOK
    /\ \A p \in Polls : WaiterFits(p) /\ AskingFits(p) /\ RowFits(p)
    /\ \A l \in Loops : LoopFits(l)
    /\ \A n \in Agents : FreshFits(n) /\ KnownFits(n)
    /\ Waiting # {} => Busy

-----------------------------------------------------------------------------
MaybeToken == Token \cup {NoToken}

LEMMA EventTypes ==
    ASSUME EventTypeOK
    PROVE  /\ \A n \in Agents : tokens[n] \in Token /\ aged[n] \in Token /\ tokens[n].wake \in 0..MaxTokens
                                /\ aged[n].wake \in 0..MaxTokens /\ current[n] \in MaybeToken /\ cursors[n] \in MaybeToken
           /\ \A p \in Polls : polls[p] \in Poll
           /\ \A l \in Loops : loops[l] \in Loop
BY DEF EventTypeOK, MaybeToken, Token

LEMMA NoRecords == NoPoll \in Poll /\ NoLoop \in Loop /\ NoPoll.pc = "idle" /\ NoLoop.pc = "idle" /\ NoToken \notin Token
BY EventParameters DEF NoPoll, NoLoop, Poll, Loop, NoToken, Token

LEMMA Merging ==
    ASSUME NEW old \in MaybeToken, NEW row \in Token, NEW withEnt \in BOOLEAN, old \in Token \/ withEnt
    PROVE  Merged(old, row, withEnt) \in Token /\ Merged(old, row, withEnt).wake = row.wake
BY DEF Merged, Token, MaybeToken

\* What new rows of the nodes ids make of what the hub has.
LEMMA Refreshing ==
    ASSUME EventInv, NEW ids \in SUBSET Agents, NEW got, NEW withEnt \in BOOLEAN, Refreshed(ids, got, withEnt),
           \A n \in ids : got[n] \in Token /\ got[n].wake >= aged[n].wake /\ (current[n] \in Token \/ withEnt)
    PROVE  /\ current' \in [Agents -> MaybeToken] /\ fresh' \in SUBSET Agents /\ entFresh' \in BOOLEAN
           /\ \A n \in Agents : current[n] \in Token => current'[n] \in Token
           /\ \A n \in ids : current'[n] \in Token /\ current'[n].wake = got[n].wake
           /\ \A n \in fresh' : current'[n] \in Token /\ current'[n].wake >= aged[n].wake
<1>1. EventTypeOK
  BY DEF EventInv
<1>2. \A n \in ids : Merged(current[n], got[n], withEnt) \in Token
                     /\ Merged(current[n], got[n], withEnt).wake = got[n].wake
  BY <1>1, EventTypes, Merging
<1>3. /\ current' = [n \in Agents |-> IF n \in ids THEN Merged(current[n], got[n], withEnt) ELSE current[n]]
      /\ fresh' = fresh \cup ids /\ entFresh' = (entFresh \/ withEnt)
  BY DEF Refreshed
<1>4. \A n \in Agents : current'[n] = IF n \in ids THEN Merged(current[n], got[n], withEnt) ELSE current[n]
  BY <1>3
<1>5. current' \in [Agents -> MaybeToken]
  BY <1>1, <1>2, <1>3, EventTypes DEF MaybeToken
<1>6. fresh' \in SUBSET Agents /\ entFresh' \in BOOLEAN
  BY <1>1, <1>3 DEF EventTypeOK
<1>7. \A n \in fresh' : current'[n] \in Token /\ current'[n].wake >= aged[n].wake
  BY <1>2, <1>3, <1>4, <1>6 DEF EventInv, FreshFits
<1>8. QED
  BY <1>2, <1>4, <1>5, <1>6, <1>7

\* The requests that are answered leave nothing behind, and nobody else notices.
LEMMA Settling ==
    ASSUME EventInv, NEW ns \in SUBSET Agents, NEW new \in [Agents -> MaybeToken], Settle(ns, new)
    PROVE  /\ polls' \in [Polls -> Poll] /\ cursors' \in [Agents -> MaybeToken]
           /\ waiters' \in [Agents -> Polls \cup {Nobody}]
           /\ \A p \in Polls : \/ polls'[p] = NoPoll
                               \/ polls'[p] = polls[p] /\ \A n \in ns : waiters[n] # p
           /\ \A n \in Agents : \/ n \in ns /\ waiters'[n] = Nobody
                                \/ n \notin ns /\ waiters'[n] = waiters[n]
           /\ \A n \in Agents \ ns : waiters[n] # Nobody => polls'[waiters[n]] = polls[waiters[n]]
<1>1. EventTypeOK
  BY DEF EventInv
<1>2. /\ polls' = [p \in Polls |-> IF \E n \in ns : waiters[n] = p THEN NoPoll ELSE polls[p]]
      /\ waiters' = [n \in Agents |-> IF n \in ns THEN Nobody ELSE waiters[n]]
      /\ cursors' = [n \in Agents |-> IF n \in ns THEN new[n] ELSE cursors[n]]
  BY DEF Settle
<1>3. polls' \in [Polls -> Poll]
  BY <1>1, <1>2, NoRecords, EventTypes
<1>4. cursors' \in [Agents -> MaybeToken] /\ waiters' \in [Agents -> Polls \cup {Nobody}]
  BY <1>1, <1>2 DEF EventTypeOK, MaybeToken
<1>5. ASSUME NEW n \in Agents \ ns, waiters[n] # Nobody
      PROVE  polls'[waiters[n]] = polls[waiters[n]]
  <2>1. waiters[n] \in Polls /\ polls[waiters[n]].agent = n
    BY <1>1, <1>5 DEF EventTypeOK, EventInv, KnownFits
  <2>2. ~\E m \in ns : waiters[m] = waiters[n]
    BY <1>5, <2>1 DEF EventInv, KnownFits
  <2>3. QED
    BY <1>2, <2>1, <2>2
<1>6. QED
  BY <1>2, <1>3, <1>4, <1>5

-----------------------------------------------------------------------------
(* The steps *)

\* Only requests change, and what the hub does with them: the rows, the loops and the clock do not.
LEMMA EventStepByPolls ==
    ASSUME EventInv, UNCHANGED <<tokens, aged, tokenCache, loops>>, EventTypeOK',
           \A p \in Polls : (WaiterFits(p) /\ AskingFits(p) /\ RowFits(p))',
           \A n \in Agents : KnownFits(n)', (Waiting # {} => Busy)'
    PROVE  EventInv'
<1>1. tokens' = tokens /\ aged' = aged /\ current' = current /\ fresh' = fresh /\ loops' = loops
  BY DEF tokenCache
<1>2. \A l \in Loops : LoopFits(l)'
  BY <1>1 DEF EventInv, LoopFits
<1>3. \A n \in Agents : FreshFits(n)'
  BY <1>1 DEF EventInv, FreshFits
<1>4. QED
  BY <1>2, <1>3 DEF EventInv

LEMMA WaitStep ==
    ASSUME ~OverlappingPolls, EventInv, NEW p \in Polls, NEW n \in Agents, NEW cursor \in {cursors[n], NoToken},
           Wait(p, n, cursor)
    PROVE  EventInv'
<1>1. EventTypeOK /\ current' = current /\ aged' = aged /\ loops' = loops /\ timer' = timer
  BY DEF EventInv, Wait, tokenCache
<1> DEFINE asks == [NoPoll EXCEPT !.pc = "reading", !.agent = n, !.cursor = cursor, !.aged = aged[n].wake,
                                  !.withEnt = current[n] = NoToken \/ cursor = NoToken \/ ~entFresh]
<1>2. /\ polls[p].pc = "idle" /\ \A q \in Polls : Asking(q) => polls[q].agent # n
      /\ polls' = [q \in Polls |-> IF q = waiters[n] THEN NoPoll ELSE IF q = p THEN asks ELSE polls[q]]
      /\ waiters' = [waiters EXCEPT ![n] = Nobody]
  BY DEF Wait, Asking
<1>3. asks \in Poll /\ asks.pc = "reading" /\ asks.agent = n /\ asks.aged = aged[n].wake /\ asks.cursor = cursor
      /\ (current[n] \in Token \/ asks.withEnt)
  BY <1>1, EventTypes DEF NoPoll, Poll, MaybeToken, NoToken
<1> HIDE DEF asks
<1>4. EventTypeOK'
  <2>1. polls' \in [Polls -> Poll]
    BY <1>1, <1>2, <1>3, NoRecords, EventTypes
  <2>2. waiters' \in [Agents -> Polls \cup {Nobody}]
    BY <1>1, <1>2 DEF EventTypeOK
  <2>3. QED
    BY <1>1, <2>1, <2>2 DEF EventTypeOK, Wait, tokenCache
<1>5. p # waiters[n]
  BY <1>2, EventParameters DEF EventInv, KnownFits
<1>6. polls'[p] = asks /\ \A q \in Polls \ {p} : polls'[q] = NoPoll \/ (polls'[q] = polls[q] /\ q # waiters[n])
  BY <1>2, <1>5
<1>7. \A m \in Agents : waiters'[m] = IF m = n THEN Nobody ELSE waiters[m]
  BY <1>1, <1>2 DEF EventTypeOK
<1>8. ASSUME NEW q \in Polls PROVE (WaiterFits(q) /\ AskingFits(q) /\ RowFits(q))'
  <2>1. CASE q = p
    <3>1. AskingFits(q)'
      BY <1>1, <1>2, <1>3, <1>6, <1>7, <2>1, NoRecords, EventTypes DEF AskingFits, Asking, Token
    <3>2. QED
      BY <1>3, <1>6, <2>1, <3>1 DEF WaiterFits, RowFits
  <2>2. CASE polls'[q] = NoPoll
    BY <2>2, NoRecords DEF WaiterFits, AskingFits, RowFits, Asking
  <2>3. CASE q # p /\ polls'[q] = polls[q] /\ q # waiters[n]
    <3>1. WaiterFits(q)'
      BY <1>1, <1>7, <2>3 DEF EventInv, WaiterFits
    <3>2. AskingFits(q)'
      BY <1>1, <1>2, <1>3, <1>6, <1>7, <2>3, NoRecords DEF EventInv, AskingFits, Asking
    <3>3. QED
      BY <1>1, <2>3, <3>1, <3>2 DEF EventInv, RowFits
  <2>4. QED
    BY <1>6, <2>1, <2>2, <2>3
<1>9. ASSUME NEW m \in Agents PROVE KnownFits(m)'
  <2>1. CASE m = n
    BY <1>7, <2>1 DEF KnownFits
  <2>2. CASE m # n /\ waiters[m] # Nobody
    <3>1. waiters[m] \in Polls /\ polls[waiters[m]].pc = "waiting" /\ polls[waiters[m]].agent = m
      BY <1>1, <2>2 DEF EventTypeOK, EventInv, KnownFits
    <3>2. waiters[m] # p /\ waiters[m] # waiters[n]
      BY <1>2, <2>2, <3>1 DEF EventInv, KnownFits
    <3>3. polls'[waiters[m]] = polls[waiters[m]]
      BY <1>2, <3>1, <3>2
    <3>4. QED
      BY <1>7, <2>2, <3>1, <3>3 DEF KnownFits
  <2>3. QED
    BY <1>7, <2>1, <2>2 DEF KnownFits
<1>a. (Waiting # {} => Busy)'
  BY <1>1, <1>7 DEF EventInv, Waiting, Busy
<1>b. QED
  BY <1>4, <1>8, <1>9, <1>a, EventStepByPolls DEF Wait

LEMMA WaitAtOnceStep ==
    ASSUME ~OverlappingPolls, EventInv, NEW p \in Polls, NEW n \in Agents, WaitAtOnce(p, n)
    PROVE  EventInv'
<1>1. EventTypeOK /\ current' = current /\ aged' = aged /\ loops' = loops
  BY DEF EventInv, WaitAtOnce, tokenCache
<1> DEFINE rest == IF waiters[n] = Nobody THEN polls ELSE [polls EXCEPT ![waiters[n]] = NoPoll]
           waits == [NoPoll EXCEPT !.pc = "waiting", !.agent = n, !.cursor = cursors[n], !.aged = aged[n].wake]
           answered == cursors[n] # current[n]
<1>2. /\ polls[p].pc = "idle" /\ \A q \in Polls : Asking(q) => polls[q].agent # n
      /\ n \in fresh /\ cursors[n] # NoToken
      /\ polls' = IF answered THEN rest ELSE [rest EXCEPT ![p] = waits]
      /\ waiters' = [waiters EXCEPT ![n] = IF answered THEN Nobody ELSE p]
      /\ cursors' = [cursors EXCEPT ![n] = current[n]]
      /\ timer' = (timer \/ cursors[n] = current[n])
  BY DEF WaitAtOnce, Asking, Stalled
<1>3. current[n] \in Token /\ current[n].wake >= aged[n].wake
  BY <1>2 DEF EventInv, FreshFits
<1>4. waits \in Poll /\ waits.pc = "waiting" /\ waits.agent = n /\ waits.aged = aged[n].wake /\ waits.cursor = cursors[n]
  BY <1>1, EventTypes DEF NoPoll, Poll, MaybeToken
<1> HIDE DEF waits
<1>5. waiters[n] # p /\ (waiters[n] # Nobody => waiters[n] \in Polls)
  BY <1>1, <1>2, EventParameters DEF EventTypeOK, EventInv, KnownFits
<1>6. /\ rest \in [Polls -> Poll] /\ rest[p] = polls[p]
      /\ \A q \in Polls : IF q = waiters[n] THEN rest[q] = NoPoll ELSE rest[q] = polls[q]
  <2>1. CASE waiters[n] = Nobody
    <3>1. rest = polls
      BY <2>1
    <3>2. QED
      BY <1>1, <2>1, <3>1, EventParameters DEF EventTypeOK
  <2>2. CASE waiters[n] \in Polls
    BY <1>1, <1>5, <2>2, NoRecords, EventParameters DEF EventTypeOK
  <2>3. QED
    BY <1>5, <2>1, <2>2
<1> HIDE DEF rest
<1>7. polls' \in [Polls -> Poll]
  BY <1>2, <1>4, <1>6
<1>8. waiters' \in [Agents -> Polls \cup {Nobody}] /\ cursors' \in [Agents -> MaybeToken] /\ timer' \in BOOLEAN
  BY <1>1, <1>2 DEF EventTypeOK, MaybeToken
<1>9. EventTypeOK'
  BY <1>1, <1>7, <1>8 DEF EventTypeOK, WaitAtOnce, tokenCache, MaybeToken
<1>a. \A q \in Polls : \/ q = p /\ polls'[q] = waits /\ waiters'[n] = p /\ cursors[n] = current[n]
                       \/ polls'[q] = NoPoll
                       \/ polls'[q] = polls[q] /\ q # waiters[n] /\ (q = p => polls[q].pc = "idle")
  <2>1. CASE answered
    BY <1>2, <1>6, <2>1
  <2>2. CASE ~answered
    <3>1. polls' = [rest EXCEPT ![p] = waits] /\ waiters'[n] = p
      BY <1>1, <1>2, <2>2 DEF EventTypeOK
    <3>2. QED
      BY <1>2, <1>6, <2>2, <3>1
  <2>3. QED
    BY <2>1, <2>2
<1>b. \A m \in Agents : m # n => waiters'[m] = waiters[m]
  BY <1>1, <1>2 DEF EventTypeOK
<1>c. ASSUME NEW q \in Polls PROVE (WaiterFits(q) /\ AskingFits(q) /\ RowFits(q))'
  <2>1. CASE q = p /\ polls'[q] = waits /\ waiters'[n] = p /\ cursors[n] = current[n]
    BY <1>1, <1>3, <1>4, <2>1 DEF WaiterFits, AskingFits, RowFits, Asking
  <2>2. CASE polls'[q] = NoPoll
    BY <2>2, NoRecords DEF WaiterFits, AskingFits, RowFits, Asking
  <2>3. CASE polls'[q] = polls[q] /\ q # waiters[n] /\ (q = p => polls[q].pc = "idle")
    <3>1. WaiterFits(q)'
      BY <1>1, <1>b, <2>3 DEF EventInv, WaiterFits
    <3>2. \A r \in Polls : Asking(r)' => Asking(r) /\ polls'[r] = polls[r]
      BY <1>4, <1>a, NoRecords DEF Asking
    <3>3. AskingFits(q)'
      BY <1>1, <1>2, <1>b, <2>3, <3>2 DEF EventInv, AskingFits, Asking
    <3>4. QED
      BY <1>1, <2>3, <3>1, <3>3 DEF EventInv, RowFits
  <2>4. QED
    BY <1>a, <2>1, <2>2, <2>3
<1>d. ASSUME NEW m \in Agents PROVE KnownFits(m)'
  <2>1. CASE m = n
    BY <1>1, <1>2, <1>4, <1>6, <2>1 DEF KnownFits, EventTypeOK
  <2>2. CASE m # n /\ waiters[m] # Nobody
    <3>1. waiters[m] \in Polls /\ polls[waiters[m]].pc = "waiting" /\ polls[waiters[m]].agent = m
      BY <1>1, <2>2 DEF EventTypeOK, EventInv, KnownFits
    <3>2. waiters[m] # p /\ waiters[m] # waiters[n]
      BY <1>2, <2>2, <3>1 DEF EventInv, KnownFits
    <3>3. polls'[waiters[m]] = polls[waiters[m]]
      BY <1>2, <1>6, <3>1, <3>2
    <3>4. QED
      BY <1>b, <2>2, <3>1, <3>3 DEF KnownFits
  <2>3. QED
    BY <1>b, <2>1, <2>2 DEF KnownFits
<1>e. (Waiting # {} => Busy)'
  BY <1>1, <1>2, <1>b DEF EventInv, EventTypeOK, Waiting, Busy
<1>f. QED
  BY <1>9, <1>c, <1>d, <1>e, EventStepByPolls DEF WaitAtOnce

\* A request has its rows, or none.
LEMMA WaitReadsStep ==
    ASSUME EventInv, NEW p \in Polls, WaitReads(p) \/ WaitFails(p)
    PROVE  EventInv'
<1> DEFINE reads == [polls[p] EXCEPT !.pc = "read", !.row = tokens[polls[p].agent]]
<1>1. /\ EventTypeOK /\ current' = current /\ aged' = aged /\ loops' = loops /\ timer' = timer /\ waiters' = waiters
      /\ polls[p].pc = "reading" /\ polls[p] \in Poll
      /\ UNCHANGED <<tokens, aged, tokenCache, loops, waiters, timer, cursors>>
  BY EventTypes DEF EventInv, WaitReads, WaitFails, tokenCache
<1>2. polls[p].agent \in Agents /\ tokens[polls[p].agent] \in Token
      /\ tokens[polls[p].agent].wake >= aged[polls[p].agent].wake
  BY <1>1, EventTypes DEF EventInv, AskingFits, Asking, FreshFits
<1>3. /\ reads \in Poll /\ reads.pc = "read" /\ reads.row = tokens[polls[p].agent] /\ reads.agent = polls[p].agent
      /\ reads.withEnt = polls[p].withEnt /\ reads.aged = polls[p].aged
  BY <1>1, <1>2 DEF Poll
<1> HIDE DEF reads
<1>4. \/ polls' = [polls EXCEPT ![p] = reads]
      \/ polls' = [polls EXCEPT ![p] = NoPoll]
  BY <1>1 DEF WaitReads, WaitFails, EventTypeOK, reads
<1>5. EventTypeOK'
  BY <1>1, <1>3, <1>4, NoRecords DEF EventTypeOK, tokenCache
<1>6. /\ polls'[p] \in {reads, NoPoll}
      /\ \A q \in Polls \ {p} : polls'[q] = polls[q]
  BY <1>1, <1>4 DEF EventTypeOK
<1>7. ASSUME NEW q \in Polls PROVE (WaiterFits(q) /\ AskingFits(q) /\ RowFits(q))'
  <2>1. \A r \in Polls : Asking(r)' => Asking(r) /\ polls'[r].agent = polls[r].agent
    BY <1>1, <1>3, <1>6, NoRecords DEF Asking
  <2>2. AskingFits(q)'
    BY <1>1, <1>3, <1>6, <2>1, NoRecords DEF EventInv, AskingFits, Asking
  <2>3. WaiterFits(q)'
    BY <1>1, <1>3, <1>6, NoRecords DEF EventInv, WaiterFits
  <2>4. RowFits(q)'
    BY <1>1, <1>2, <1>3, <1>6, NoRecords DEF EventInv, RowFits
  <2>5. QED
    BY <2>2, <2>3, <2>4
<1>8. ASSUME NEW n \in Agents PROVE KnownFits(n)'
  <2>1. waiters[n] # Nobody => waiters[n] \in Polls \ {p}
    BY <1>1 DEF EventInv, EventTypeOK, KnownFits
  <2>2. QED
    BY <1>1, <1>6, <2>1 DEF EventInv, KnownFits
<1>9. (Waiting # {} => Busy)'
  BY <1>1 DEF EventInv, Waiting, Busy
<1>a. QED
  BY <1>1, <1>5, <1>7, <1>8, <1>9, EventStepByPolls

\* The hub takes the rows that a request brought, and decides.
LEMMA WaitResumesStep ==
    ASSUME EventInv, NEW p \in Polls, WaitResumes(p)
    PROVE  EventInv'
<1> DEFINE n == polls[p].agent
           got == [a \in Agents |-> polls[p].row]
           waits == [NoPoll EXCEPT !.pc = "waiting", !.agent = n, !.cursor = polls[p].cursor, !.aged = polls[p].aged]
           answered == polls[p].cursor # current'[n]
<1>1. /\ EventTypeOK /\ polls[p] \in Poll /\ Asking(p) /\ polls[p].pc = "read"
      /\ tokens' = tokens /\ aged' = aged /\ loops' = loops
  BY EventTypes DEF EventInv, WaitResumes, Asking
<1>2. /\ n \in Agents /\ waiters[n] = Nobody /\ (current[n] \in Token \/ polls[p].withEnt)
      /\ \A q \in Polls : Asking(q) /\ polls[q].agent = n => q = p
      /\ polls[p].aged <= aged[n].wake /\ polls[p].row \in Token /\ polls[p].row.wake >= aged[n].wake
  BY <1>1 DEF EventInv, AskingFits, RowFits
<1>3. /\ current' \in [Agents -> MaybeToken] /\ fresh' \in SUBSET Agents /\ entFresh' \in BOOLEAN
      /\ \A m \in Agents : current[m] \in Token => current'[m] \in Token
      /\ current'[n] \in Token /\ current'[n].wake = polls[p].row.wake
      /\ \A m \in fresh' : current'[m] \in Token /\ current'[m].wake >= aged[m].wake
  <2>1. Refreshed({n}, got, polls[p].withEnt) /\ polls[p].withEnt \in BOOLEAN
    BY <1>1 DEF WaitResumes, Poll
  <2>2. \A m \in {n} : got[m] \in Token /\ got[m].wake >= aged[m].wake /\ (current[m] \in Token \/ polls[p].withEnt)
    BY <1>2
  <2>3. {n} \in SUBSET Agents
    BY <1>2
  <2>4. \A m \in {n} : current'[m] \in Token /\ current'[m].wake = got[m].wake
    BY <2>1, <2>2, <2>3, Refreshing, Zenon
  <2>5. got[n] = polls[p].row
    BY <1>2
  <2>6. QED
    BY <1>2, <2>1, <2>2, <2>3, <2>4, <2>5, Refreshing
<1>4. /\ waits \in Poll /\ waits.pc = "waiting" /\ waits.agent = n /\ waits.aged = polls[p].aged
      /\ waits.cursor = polls[p].cursor
  BY <1>1, <1>2 DEF NoPoll, Poll
<1> HIDE DEF waits, got
<1>5. Decide(p, n, polls[p].cursor, polls[p].aged)
  BY DEF WaitResumes
<1>6. \/ /\ polls' = [polls EXCEPT ![p] = NoPoll] /\ cursors' = [cursors EXCEPT ![n] = current'[n]]
         /\ waiters' = waiters /\ timer' = timer
      \/ /\ polls' = [polls EXCEPT ![p] = waits] /\ cursors' = cursors /\ polls[p].cursor = current'[n]
         /\ waiters' = [waiters EXCEPT ![n] = p] /\ timer' = TRUE
  BY <1>5 DEF Decide, waits
<1>7. EventTypeOK'
  <2>1. polls' \in [Polls -> Poll]
    BY <1>1, <1>4, <1>6, NoRecords DEF EventTypeOK
  <2>2. cursors' \in [Agents -> MaybeToken] /\ waiters' \in [Agents -> Polls \cup {Nobody}] /\ timer' \in BOOLEAN
    <3>1. waiters \in [Agents -> Polls \cup {Nobody}] /\ cursors \in [Agents -> MaybeToken] /\ timer \in BOOLEAN
      BY <1>1 DEF EventTypeOK, MaybeToken
    <3>2. current'[n] \in MaybeToken
      BY <1>2, <1>3
    <3>3. waiters' \in [Agents -> Polls \cup {Nobody}]
      BY <1>2, <1>6, <3>1
    <3>4. cursors' \in [Agents -> MaybeToken]
      BY <1>2, <1>6, <3>1, <3>2
    <3>5. QED
      BY <1>6, <3>1, <3>3, <3>4
  <2>3. QED
    BY <1>1, <1>3, <2>1, <2>2 DEF EventTypeOK, MaybeToken
<1>8. /\ \/ polls'[p] = NoPoll /\ waiters' = waiters
         \/ /\ polls'[p] = waits /\ waiters'[n] = p /\ polls[p].cursor = current'[n]
            /\ \A m \in Agents : m # n => waiters'[m] = waiters[m]
      /\ \A q \in Polls \ {p} : polls'[q] = polls[q]
  BY <1>1, <1>2, <1>6 DEF EventTypeOK
<1>9. ASSUME NEW q \in Polls PROVE (WaiterFits(q) /\ AskingFits(q) /\ RowFits(q))'
  <2>1. CASE q = p
    BY <1>1, <1>2, <1>3, <1>4, <1>8, <2>1, NoRecords, EventTypes DEF WaiterFits, AskingFits, RowFits, Asking, Token, Poll
  <2>2. CASE q # p
    <3>1. polls'[q] = polls[q] /\ \A r \in Polls : Asking(r)' => Asking(r) /\ polls'[r] = polls[r]
      BY <1>4, <1>8, <2>2, NoRecords DEF Asking
    <3>2. WaiterFits(q)'
      <4>1. polls[q].pc = "waiting" => polls[q].agent # n
        BY <1>2, EventParameters DEF EventInv, WaiterFits
      <4>2. QED
        BY <1>3, <1>8, <3>1, <4>1 DEF EventInv, WaiterFits
    <3>3. AskingFits(q)'
      BY <1>1, <1>2, <1>3, <1>8, <2>2, <3>1 DEF EventInv, AskingFits, Asking
    <3>4. QED
      BY <1>1, <3>1, <3>2, <3>3 DEF EventInv, RowFits
  <2>3. QED
    BY <2>1, <2>2
<1>a. ASSUME NEW m \in Agents PROVE (FreshFits(m) /\ KnownFits(m))'
  <2>1. FreshFits(m)'
    BY <1>1, <1>3 DEF EventInv, FreshFits
  <2>2. waiters[m] # Nobody => waiters[m] \in Polls \ {p}
    BY <1>1 DEF EventInv, EventTypeOK, KnownFits
  <2>3. KnownFits(m)'
    BY <1>4, <1>8, <2>2 DEF EventInv, KnownFits
  <2>4. QED
    BY <2>1, <2>3
<1>b. \A l \in Loops : LoopFits(l)'
  BY <1>1, <1>3, EventTypes DEF EventInv, LoopFits, Loop
<1>c. (Waiting # {} => Busy)'
  BY <1>1, <1>6 DEF EventInv, Waiting, Busy
<1>d. QED
  BY <1>7, <1>9, <1>a, <1>b, <1>c DEF EventInv

LEMMA ExpireStep ==
    ASSUME EventInv, NEW p \in Polls, Expire(p)
    PROVE  EventInv'
<1> DEFINE ns == {polls[p].agent}
           new == [n \in Agents |-> polls[p].cursor]
<1>1. /\ EventTypeOK /\ polls[p] \in Poll /\ polls[p].agent \in Agents
      /\ UNCHANGED <<tokens, aged, tokenCache, timer, loops>> /\ Settle(ns, new)
  BY EventTypes DEF EventInv, Expire, WaiterFits
<1>2. new \in [Agents -> MaybeToken] /\ ns \in SUBSET Agents
  BY <1>1 DEF Poll, MaybeToken
<1> HIDE DEF ns, new
<1>3. EventTypeOK'
  BY <1>1, <1>2, Settling DEF EventTypeOK, tokenCache, MaybeToken
<1>4. \A q \in Polls : \/ polls'[q] = NoPoll
                       \/ polls'[q] = polls[q] /\ \A n \in ns : waiters[n] # q
  BY <1>1, <1>2, Settling
<1>5. \A n \in Agents : \/ n \in ns /\ waiters'[n] = Nobody
                        \/ n \notin ns /\ waiters'[n] = waiters[n]
  BY <1>1, <1>2, Settling
<1>6. ASSUME NEW q \in Polls PROVE (WaiterFits(q) /\ AskingFits(q) /\ RowFits(q))'
  <2>1. CASE polls'[q] = NoPoll
    BY <2>1, NoRecords DEF WaiterFits, AskingFits, RowFits, Asking
  <2>2. CASE polls'[q] = polls[q] /\ \A n \in ns : waiters[n] # q
    <3>1. \A r \in Polls : Asking(r)' => Asking(r) /\ polls'[r] = polls[r]
      BY <1>4, NoRecords DEF Asking
    <3>2. WaiterFits(q)'
      BY <1>1, <1>5, <2>2 DEF EventInv, WaiterFits, tokenCache
    <3>3. AskingFits(q)'
      BY <1>1, <1>5, <2>2, <3>1 DEF EventInv, AskingFits, Asking, tokenCache
    <3>4. QED
      BY <1>1, <2>2, <3>2, <3>3 DEF EventInv, RowFits
  <2>3. QED
    BY <1>4, <2>1, <2>2
<1>7. \A n \in Agents \ ns : waiters[n] # Nobody => polls'[waiters[n]] = polls[waiters[n]]
  BY <1>1, <1>2, Settling
<1>8. \A n \in Agents : KnownFits(n)'
  BY <1>5, <1>7 DEF EventInv, KnownFits
<1>9. (Waiting # {} => Busy)'
  BY <1>1, <1>5 DEF EventInv, Waiting, Busy
<1>a. QED
  BY <1>1, <1>3, <1>6, <1>8, <1>9, EventStepByPolls

-----------------------------------------------------------------------------
\* The loop starts, reads or fails: no request notices.
LEMMA LoopStep ==
    ASSUME EventInv, NEW l \in Loops, TickFires(l) \/ TickReads(l) \/ TickFails(l)
    PROVE  EventInv'
<1>1. /\ EventTypeOK /\ loops[l] \in Loop
      /\ tokens' = tokens /\ aged' = aged /\ current' = current /\ fresh' = fresh /\ entFresh' = entFresh
      /\ waiters' = waiters /\ polls' = polls /\ cursors' = cursors
  BY EventTypes DEF EventInv, TickFires, TickReads, TickFails, tokenCache
<1>2. \A q \in Loops \ {l} : loops'[q] = loops[q]
  BY <1>1 DEF EventTypeOK, TickFires, TickReads, TickFails
<1>3. \A n \in Waiting : n \in Agents /\ current[n] \in Token
  BY <1>1 DEF EventInv, EventTypeOK, Waiting, KnownFits, WaiterFits
<1>4. loops' \in [Loops -> Loop] /\ timer' \in BOOLEAN /\ LoopFits(l)'
  <2>1. CASE TickFires(l)
    <3>1. loops' = [loops EXCEPT ![l] = IF Waiting = {} THEN NoLoop
                      ELSE [NoLoop EXCEPT !.pc = "reading", !.ids = Waiting, !.withEnt = ~entFresh]] /\ timer' = FALSE
      BY <2>1 DEF TickFires
    <3>2. [NoLoop EXCEPT !.pc = "reading", !.ids = Waiting, !.withEnt = ~entFresh] \in Loop
      BY <1>1, <1>3 DEF NoLoop, Loop
    <3>3. loops' \in [Loops -> Loop]
      BY <1>1, <3>1, <3>2, NoRecords DEF EventTypeOK
    <3>4. loops'[l].ids \subseteq Waiting /\ loops'[l].pc # "read"
      BY <1>1, <3>1 DEF EventTypeOK, NoLoop
    <3>5. QED
      BY <1>1, <1>3, <3>1, <3>3, <3>4 DEF LoopFits
  <2>2. CASE TickReads(l)
    <3> DEFINE read == [n \in Agents |-> IF n \in loops[l].ids THEN tokens[n] ELSE NoToken]
    <3>1. loops' = [loops EXCEPT ![l].pc = "read", ![l].rows = read] /\ timer' = timer
      BY <2>2 DEF TickReads
    <3>2. read \in [Agents -> Token \cup {NoToken}] /\ loops[l].ids \subseteq Agents
      BY <1>1, EventTypes DEF Loop
    <3>3. \A n \in loops[l].ids : read[n] = tokens[n]
      BY <3>2
    <3> HIDE DEF read
    <3>4. /\ loops' \in [Loops -> Loop]
          /\ loops'[l].ids = loops[l].ids /\ loops'[l].rows = read
      BY <1>1, <3>1, <3>2 DEF EventTypeOK, Loop
    <3>5. QED
      BY <1>1, <3>1, <3>2, <3>3, <3>4, EventTypes DEF EventInv, LoopFits, FreshFits, EventTypeOK
  <2>3. CASE TickFails(l)
    <3>1. loops' = [loops EXCEPT ![l] = NoLoop] /\ timer' = (timer \/ Waiting # {})
      BY <2>3 DEF TickFails
    <3>2. loops'[l] = NoLoop /\ loops' \in [Loops -> Loop] /\ NoLoop.ids = {}
      BY <1>1, <3>1, NoRecords DEF EventTypeOK, NoLoop
    <3>3. QED
      BY <1>1, <3>1, <3>2 DEF LoopFits, EventTypeOK
  <2>4. QED
    BY <2>1, <2>2, <2>3
<1>5. EventTypeOK'
  BY <1>1, <1>4 DEF EventTypeOK
<1>6. \A q \in Loops : LoopFits(q)'
  BY <1>1, <1>2, <1>4 DEF EventInv, LoopFits
<1>7. (Waiting # {} => Busy)'
  <2>1. CASE TickFires(l) /\ Waiting # {}
    <3>1. loops'[l].pc = "reading"
      BY <1>1, <2>1 DEF TickFires, EventTypeOK, NoLoop
    <3>2. QED
      BY <3>1 DEF Busy
  <2>2. CASE TickReads(l)
    <3>1. loops'[l].pc = "read"
      BY <1>1, <2>2 DEF TickReads, EventTypeOK, Loop
    <3>2. QED
      BY <3>1 DEF Busy
  <2>3. CASE TickFails(l)
    BY <1>1, <2>3 DEF TickFails, Waiting, Busy
  <2>4. QED
    BY <1>1, <2>1, <2>2, <2>3 DEF Waiting
<1>8. QED
  BY <1>1, <1>5, <1>6, <1>7 DEF EventInv, WaiterFits, AskingFits, RowFits, Asking, FreshFits, KnownFits

LEMMA TickEndsStep ==
    ASSUME EventInv, NEW l \in Loops, TickEnds(l)
    PROVE  EventInv'
<1> DEFINE ns == {n \in Waiting : current'[n] # polls[waiters[n]].cursor}
<1>1. /\ EventTypeOK /\ loops[l] \in Loop /\ loops[l].pc = "read" /\ ns \in SUBSET Agents
      /\ tokens' = tokens /\ aged' = aged /\ loops' = [loops EXCEPT ![l] = NoLoop]
      /\ Settle(ns, current') /\ timer' = (timer \/ Waiting \ ns # {})
  BY EventTypes DEF EventInv, TickEnds, Waiting
<1> HIDE DEF ns
<1>2. /\ current' \in [Agents -> MaybeToken] /\ fresh' \in SUBSET Agents /\ entFresh' \in BOOLEAN
      /\ \A m \in Agents : current[m] \in Token => current'[m] \in Token
      /\ \A m \in fresh' : current'[m] \in Token /\ current'[m].wake >= aged[m].wake
  <2>1. Refreshed(loops[l].ids, loops[l].rows, loops[l].withEnt) /\ loops[l].ids \in SUBSET Agents
        /\ loops[l].withEnt \in BOOLEAN
    BY <1>1 DEF TickEnds, Loop
  <2>2. \A n \in loops[l].ids : /\ loops[l].rows[n] \in Token /\ loops[l].rows[n].wake >= aged[n].wake
                                /\ current[n] \in Token \/ loops[l].withEnt
    BY <1>1 DEF EventInv, LoopFits
  <2> DEFINE ids == loops[l].ids
             got == loops[l].rows
             withEnt == loops[l].withEnt
  <2>3. /\ ids \in SUBSET Agents /\ withEnt \in BOOLEAN /\ Refreshed(ids, got, withEnt)
        /\ \A n \in ids : got[n] \in Token /\ got[n].wake >= aged[n].wake /\ (current[n] \in Token \/ withEnt)
    BY <2>1, <2>2
  <2> HIDE DEF ids, got, withEnt
  <2>4. QED
    BY <2>3, Refreshing
<1>3. /\ loops' \in [Loops -> Loop] /\ loops'[l] = NoLoop /\ NoLoop.ids = {}
      /\ \A q \in Loops \ {l} : loops'[q] = loops[q]
  BY <1>1, NoRecords DEF EventTypeOK, NoLoop
<1>4. EventTypeOK'
  <2>1. timer' \in BOOLEAN
    BY <1>1 DEF EventTypeOK
  <2>2. QED
    BY <1>1, <1>2, <1>3, <2>1, Settling DEF EventTypeOK, MaybeToken
<1>5. \A q \in Polls : \/ polls'[q] = NoPoll
                       \/ polls'[q] = polls[q] /\ \A n \in ns : waiters[n] # q
  BY <1>1, <1>2, Settling
<1>6. \A n \in Agents : \/ n \in ns /\ waiters'[n] = Nobody
                        \/ n \notin ns /\ waiters'[n] = waiters[n]
  BY <1>1, <1>2, Settling
<1>7. ASSUME NEW q \in Polls PROVE (WaiterFits(q) /\ AskingFits(q) /\ RowFits(q))'
  <2>1. CASE polls'[q] = NoPoll
    BY <2>1, NoRecords DEF WaiterFits, AskingFits, RowFits, Asking
  <2>2. CASE polls'[q] = polls[q] /\ \A n \in ns : waiters[n] # q
    <3>1. \A r \in Polls : Asking(r)' => Asking(r) /\ polls'[r] = polls[r]
      BY <1>5, NoRecords DEF Asking
    <3>2. WaiterFits(q)'
      BY <1>1, <1>2, <1>6, <2>2 DEF EventInv, WaiterFits
    <3>3. AskingFits(q)'
      BY <1>1, <1>2, <1>6, <2>2, <3>1 DEF EventInv, AskingFits, Asking
    <3>4. QED
      BY <1>1, <2>2, <3>2, <3>3 DEF EventInv, RowFits
  <2>3. QED
    BY <1>5, <2>1, <2>2
<1>8. \A q \in Loops : LoopFits(q)'
  <2>1. \A q \in Loops : loops[q].ids \subseteq Agents
    BY <1>1, EventTypes DEF Loop
  <2>2. QED
    BY <1>1, <1>2, <1>3, <2>1 DEF EventInv, LoopFits
<1>9. \A n \in Agents \ ns : waiters[n] # Nobody => polls'[waiters[n]] = polls[waiters[n]]
  BY <1>1, <1>2, Settling
<1>a. ASSUME NEW n \in Agents PROVE (FreshFits(n) /\ KnownFits(n))'
  BY <1>1, <1>2, <1>6, <1>9 DEF EventInv, FreshFits, KnownFits
<1>b. (Waiting # {} => Busy)'
  <2>1. Waiting' \subseteq Waiting \ ns
    BY <1>6 DEF Waiting
  <2>2. QED
    BY <1>1, <2>1 DEF Busy
<1>c. QED
  BY <1>4, <1>7, <1>8, <1>a, <1>b DEF EventInv

-----------------------------------------------------------------------------
\* The database moves on.  With prompt reads, no interval passes over rows that were read.
LEMMA ClockStep ==
    ASSUME PromptReads, EventInv,
           \/ \E n \in Agents : WakeChanges(n) \/ EntChanges(n)
           \/ IntervalPasses \/ EntitlementIntervalPasses
    PROVE  EventInv'
<1>1. /\ EventTypeOK /\ waiters' = waiters /\ polls' = polls /\ loops' = loops /\ timer' = timer /\ current' = current
      /\ cursors' = cursors
  BY DEF EventInv, WakeChanges, EntChanges, IntervalPasses, EntitlementIntervalPasses, tokenCache
<1>2. \A n \in Agents : KnownFits(n)'
  BY <1>1 DEF EventInv, KnownFits
<1>3. (Waiting # {} => Busy)'
  BY <1>1 DEF EventInv, Waiting, Busy
<1>4. \A p \in Polls : WaiterFits(p)'
  BY <1>1 DEF EventInv, WaiterFits
<1>5. CASE \E n \in Agents : WakeChanges(n) \/ EntChanges(n)
  <2>1. PICK n \in Agents : WakeChanges(n) \/ EntChanges(n)
    BY <1>5
  <2>2. aged' = aged /\ fresh' = fresh /\ entFresh' = entFresh
    BY <2>1 DEF WakeChanges, EntChanges, tokenCache
  <2>3. tokens' \in [Agents -> Token] /\ tokens'[n].wake >= tokens[n].wake
        /\ \A m \in Agents \ {n} : tokens'[m] = tokens[m]
    <3>1. tokens[n] \in Token /\ tokens \in [Agents -> Token]
      BY <1>1 DEF EventTypeOK
    <3>2. CASE WakeChanges(n)
      <4>1. tokens[n].wake < MaxTokens /\ tokens' = [tokens EXCEPT ![n].wake = @ + 1]
        BY <3>2 DEF WakeChanges
      <4>2. [tokens[n] EXCEPT !.wake = @ + 1] \in Token
        BY <3>1, <4>1, EventParameters DEF Token
      <4>3. QED
        BY <3>1, <4>1, <4>2 DEF Token
    <3>3. CASE EntChanges(n)
      <4>1. tokens[n].ent < MaxTokens /\ tokens' = [tokens EXCEPT ![n].ent = @ + 1]
        BY <3>3 DEF EntChanges
      <4>2. [tokens[n] EXCEPT !.ent = @ + 1] \in Token
        BY <3>1, <4>1, EventParameters DEF Token
      <4>3. QED
        BY <3>1, <4>1, <4>2 DEF Token
    <3>4. QED
      BY <2>1, <3>2, <3>3
  <2>4. EventTypeOK'
    BY <1>1, <2>2, <2>3 DEF EventTypeOK
  <2>5. ASSUME NEW m \in Agents PROVE FreshFits(m)'
    <3>1. tokens'[m].wake >= tokens[m].wake /\ tokens[m].wake \in Nat /\ tokens'[m].wake \in Nat /\ aged[m].wake \in Nat
      BY <1>1, <2>3, EventTypes, EventParameters DEF Token
    <3>2. QED
      BY <1>1, <2>2, <3>1 DEF EventInv, FreshFits
  <2>6. \A p \in Polls : AskingFits(p)' /\ RowFits(p)'
    BY <1>1, <2>2 DEF EventInv, AskingFits, RowFits, Asking
  <2>7. \A l \in Loops : LoopFits(l)'
    BY <1>1, <2>2 DEF EventInv, LoopFits
  <2>8. QED
    BY <1>2, <1>3, <1>4, <2>4, <2>5, <2>6, <2>7 DEF EventInv
<1>6. CASE IntervalPasses
  <2>1. /\ tokens' = tokens /\ aged' = tokens /\ fresh' = {} /\ entFresh' = entFresh
        /\ \A p \in Polls : polls[p].pc # "read"
        /\ \A l \in Loops : loops[l].pc # "read"
    BY <1>6 DEF IntervalPasses
  <2>2. EventTypeOK'
    BY <1>1, <2>1 DEF EventTypeOK
  <2>3. ASSUME NEW m \in Agents PROVE FreshFits(m)'
    BY <1>1, <2>1, EventTypes DEF FreshFits
  <2>4. ASSUME NEW p \in Polls PROVE AskingFits(p)' /\ RowFits(p)'
    <3>1. Asking(p) => polls[p].aged <= tokens[polls[p].agent].wake
      <4>1. SUFFICES ASSUME Asking(p) PROVE polls[p].aged <= tokens[polls[p].agent].wake
        OBVIOUS
      <4>2. polls[p].agent \in Agents /\ polls[p].aged <= aged[polls[p].agent].wake /\ polls[p].aged \in Int
        BY <1>1, <4>1, EventTypes DEF EventInv, AskingFits, Poll
      <4>3. QED
        BY <1>1, <4>2, EventTypes DEF EventInv, FreshFits
    <3>2. QED
      BY <1>1, <2>1, <3>1 DEF EventInv, AskingFits, RowFits, Asking
  <2>5. \A l \in Loops : LoopFits(l)'
    BY <1>1, <2>1 DEF EventInv, LoopFits
  <2>6. QED
    BY <1>2, <1>3, <1>4, <2>2, <2>3, <2>4, <2>5 DEF EventInv
<1>7. CASE EntitlementIntervalPasses
  <2>1. tokens' = tokens /\ aged' = aged /\ fresh' = fresh /\ entFresh' = FALSE
    BY <1>7 DEF EntitlementIntervalPasses
  <2>2. EventTypeOK'
    BY <1>1, <2>1 DEF EventTypeOK
  <2>3. QED
    BY <1>1, <1>2, <1>3, <1>4, <2>1, <2>2 DEF EventInv, FreshFits, AskingFits, RowFits, LoopFits, Asking
<1>8. QED
  BY <1>5, <1>6, <1>7

LEMMA EventInvInit == EventInit => EventInv
<1> SUFFICES ASSUME EventInit PROVE EventInv
  OBVIOUS
<1>1. EventTypeOK
  <2>1. [wake |-> 0, ent |-> 0] \in Token
    BY EventParameters DEF Token
  <2>2. QED
    BY <2>1, NoRecords DEF EventInit, EventTypeOK
<1>2. \A p \in Polls : WaiterFits(p) /\ AskingFits(p) /\ RowFits(p)
  BY NoRecords DEF EventInit, WaiterFits, AskingFits, RowFits, Asking
<1>3. \A l \in Loops : LoopFits(l)
  BY DEF EventInit, LoopFits, NoLoop
<1>4. ASSUME NEW n \in Agents PROVE FreshFits(n) /\ KnownFits(n)
  <2>1. tokens[n] = [wake |-> 0, ent |-> 0] /\ aged[n] = tokens[n] /\ n \notin fresh /\ waiters[n] = Nobody
    BY DEF EventInit
  <2>2. QED
    BY <2>1 DEF FreshFits, KnownFits
<1>5. QED
  BY <1>1, <1>2, <1>3, <1>4 DEF EventInit, EventInv, Waiting

LEMMA EventInvNext ==
    ASSUME ~OverlappingPolls, PromptReads, EventInv, [EventNext]_eventVars
    PROVE  EventInv'
<1>1. CASE EventNext
  BY <1>1, WaitStep, WaitAtOnceStep, WaitReadsStep, WaitResumesStep, ExpireStep, LoopStep, TickEndsStep, ClockStep
     DEF EventNext
<1>2. CASE UNCHANGED eventVars
  BY <1>2 DEF eventVars, tokenCache, EventInv, EventTypeOK, WaiterFits, AskingFits, RowFits, LoopFits, FreshFits, KnownFits,
     Asking, Waiting, Busy
<1>3. QED
  BY <1>1, <1>2

\* A request that is held open can be answered, and was not outdated when it came (agent-events.js), for any number of
\* agents, requests and overlapping runs of the loop.
THEOREM EventsCorrect ==
    ASSUME ~OverlappingPolls, PromptReads
    PROVE  EventSpec => []HeldIsWatched
<1>1. EventInv => HeldIsWatched
  <2>1. SUFFICES ASSUME EventInv, NEW p \in Polls, polls[p].pc = "waiting"
                 PROVE  /\ waiters[polls[p].agent] = p
                        /\ timer \/ \E l \in Loops : loops[l].pc # "idle"
                        /\ polls[p].cursor.wake >= polls[p].aged
    BY DEF HeldIsWatched
  <2>2. polls[p].agent \in Waiting
    BY <2>1, EventParameters DEF EventInv, WaiterFits, Waiting
  <2>3. QED
    BY <2>1, <2>2 DEF EventInv, WaiterFits, Busy
<1>2. EventInv /\ [EventNext]_eventVars => EventInv'
  BY EventInvNext
<1>3. QED
  BY <1>1, <1>2, EventInvInit, PTL DEF EventSpec

-----------------------------------------------------------------------------
(* Placement *)

\* What the profile of the account wants of a device.
Wish(d) == IF d \in users /\ profile # NoProfile THEN profile ELSE Automatic
PlacingOf(c, d) == placing[c].pc # "idle" /\ placing[c].device = d

\* Servers that a policy allows.
Suits(policy, takes) ==
    /\ takes.EXIT # NoServer
    /\ policy.mode \in {"DIRECT", "DOUBLE_HOP"} => takes.EXIT[1][1] = policy.exit
    /\ policy.mode = "DOUBLE_HOP" => takes.RELAY # NoServer /\ takes.RELAY[1][1] = policy.entry

\* A placement is of one device, has the policy that is wanted of it unless it is due once more, and is
\* the only one to write what it has read.
PlacingFits(c) ==
    LET d == placing[c].device
    IN ~PlacingAt(c, "idle") =>
           /\ d \in Movers
           /\ \A other \in Placers : PlacingOf(other, d) => other = c
           /\ d \notin due => placing[c].policy = Wish(d)
           /\ PlacingAt(c, "write") => placing[c].seen = rows[d] /\ Suits(placing[c].policy, placing[c].takes)
           /\ PlacingAt(c, "placed") => Suits(placing[c].policy, rows[d])
\* A device that nobody is about to place is where it should be.
PlacedFits(d) ==
    d \notin due /\ (~\E c \in Placers : PlacingOf(c, d)) /\ placed[d] = "PLACED" => Suits(Wish(d), rows[d])
\* A group that a run of the tick found full has nothing on the way, until that run begins it.
ScalingFits(t) ==
    \A g \in scaling[t].todo :
        /\ InFlight(g) = {}
        /\ \A other \in Ticks : scaling[other].todo # {} => other = t

PlacementInv ==
    /\ PlacementTypeOK
    /\ profile = NoProfile => users = {}
    /\ \A c \in Placers : PlacingFits(c)
    /\ \A d \in Movers : PlacedFits(d)
    /\ \A t \in Ticks : ScalingFits(t)
    /\ \A g \in Groups : \A r, s \in InFlight(g) : r = s

-----------------------------------------------------------------------------
PlaceOrNone == Server \cup {NoServer}

LEMMA PlacementTypes ==
    ASSUME PlacementTypeOK
    PROVE  /\ \A s \in Server : servers[s] \in ServerRow
           /\ \A d \in Movers : rows[d] \in Rows
           /\ \A c \in Placers : placing[c] \in Placing
           /\ \A t \in Ticks : scaling[t] \in Scaling
BY DEF PlacementTypeOK

LEMMA Constants ==
    /\ Nowhere \notin Locations /\ NoServer \notin Server /\ MaxScale \in Nat /\ MaxEdits \in Nat
    /\ Automatic \in Policy /\ NoRows \in Rows /\ NotPlacing \in Placing /\ NotScaling \in Scaling
    /\ NotPlacing.pc = "idle" /\ NotScaling.todo = {} /\ NoProfile \notin Policy
<1>1. Nowhere \notin Locations /\ NoServer \notin Server /\ MaxScale \in Nat /\ MaxEdits \in Nat
  BY PlacementParameters
<1>2. Automatic \in Policy /\ Automatic.mode = "AUTO"
  BY DEF Automatic, Policy
<1>3. NoRows \in Rows
  BY DEF NoRows, Rows
<1>4. NotPlacing \in Placing /\ NotPlacing.pc = "idle"
  BY <1>2, <1>3 DEF NotPlacing, Placing
<1>5. NotScaling \in Scaling /\ NotScaling.todo = {}
  BY <1>1 DEF NotScaling, Scaling
<1>6. NoProfile.mode = "none"
  BY DEF NoProfile, Automatic
<1>7. \A policy \in Policy : policy.mode # "none"
  BY DEF Policy
<1>8. QED
  BY <1>1, <1>2, <1>3, <1>4, <1>5, <1>6, <1>7

LEMMA WishIsPolicy ==
    ASSUME PlacementTypeOK, NEW d \in Movers
    PROVE  Wish(d) \in Policy
BY Constants DEF Wish, PlacementTypeOK

\* What selectNodeForDevice answers is a candidate, or nothing.
LEMMA Selected ==
    ASSUME NEW cs, NEW sticky, NEW s \in selectNodeForDevice(cs, sticky)
    PROVE  s \in cs \cup {NoServer}
BY DEF selectNodeForDevice, LeastLoaded

\* The scheduler offers what the policy allows.
LEMMA Chosen ==
    ASSUME NEW policy \in Policy, NEW sticky \in Rows, NEW takes \in PlacementChoices(policy, sticky)
    PROVE  /\ takes \in Rows
           /\ takes.EXIT # NoServer /\ (policy.mode = "DOUBLE_HOP" => takes.RELAY # NoServer) => Suits(policy, takes)
<1>1. \A role, sites : Candidates(role, sites) \subseteq {s \in Server : s[1][1] \in sites}
  BY DEF Candidates
<1>2. CASE policy.mode = "DIRECT"
  <2>1. takes \in [EXIT : selectNodeForDevice(Candidates("EXIT", {policy.exit}), sticky.EXIT), RELAY : {NoServer}]
    BY <1>2 DEF PlacementChoices
  <2>2. takes.EXIT \in Candidates("EXIT", {policy.exit}) \cup {NoServer} /\ takes.RELAY = NoServer
        /\ takes = [EXIT |-> takes.EXIT, RELAY |-> takes.RELAY]
    BY <2>1, Selected
  <2>3. takes.EXIT \in PlaceOrNone /\ (takes.EXIT # NoServer => takes.EXIT[1][1] = policy.exit)
    BY <1>1, <2>2 DEF PlaceOrNone
  <2>4. QED
    BY <1>2, <2>2, <2>3 DEF Suits, Rows, PlaceOrNone
<1>3. CASE policy.mode = "DOUBLE_HOP"
  <2>1. takes \in [EXIT : selectNodeForDevice(Candidates("EXIT", {policy.exit}), sticky.EXIT),
                   RELAY : selectNodeForDevice(Candidates("RELAY", {policy.entry}), sticky.RELAY)]
    BY <1>3 DEF PlacementChoices
  <2>2. /\ takes.EXIT \in Candidates("EXIT", {policy.exit}) \cup {NoServer}
        /\ takes.RELAY \in Candidates("RELAY", {policy.entry}) \cup {NoServer}
        /\ takes = [EXIT |-> takes.EXIT, RELAY |-> takes.RELAY]
    BY <2>1, Selected
  <2>3. /\ takes.EXIT \in PlaceOrNone /\ (takes.EXIT # NoServer => takes.EXIT[1][1] = policy.exit)
        /\ takes.RELAY \in PlaceOrNone /\ (takes.RELAY # NoServer => takes.RELAY[1][1] = policy.entry)
    BY <1>1, <2>2 DEF PlaceOrNone
  <2>4. QED
    BY <2>2, <2>3 DEF Suits, Rows, PlaceOrNone
<1>4. CASE policy.mode \notin {"DIRECT", "DOUBLE_HOP"}
  <2> DEFINE cs == Candidates("EXIT", {x \in Locations : <<Nowhere, x>> \in paths})
  <2>1. takes \in [EXIT : selectNodeForDevice(cs, sticky.EXIT) \cup (IF sticky.EXIT \in cs THEN {} ELSE cs), RELAY : {NoServer}]
    BY <1>4 DEF PlacementChoices
  <2>2. takes.EXIT \in cs \cup {NoServer} /\ takes.RELAY = NoServer /\ takes = [EXIT |-> takes.EXIT, RELAY |-> takes.RELAY]
    <3> HIDE DEF cs
    <3> QED BY <2>1, Selected
  <2>3. takes.EXIT \in PlaceOrNone
    BY <1>1, <2>2 DEF PlaceOrNone
  <2>4. QED
    BY <1>4, <2>2, <2>3 DEF Suits, Rows, PlaceOrNone
<1>5. QED
  BY <1>2, <1>3, <1>4

-----------------------------------------------------------------------------
(* What a step leaves alone *)

\* Servers and the runs of the tick: nothing changes for the groups.
LEMMA GroupsRest ==
    ASSUME PlacementInv, UNCHANGED <<servers, scaling>>
    PROVE  /\ \A t \in Ticks : ScalingFits(t)'
           /\ \A g \in Groups : \A r, s \in InFlight(g)' : r = s
BY DEF PlacementInv, ScalingFits, InFlight

\* Devices that want something else are due; the placements in progress are as they were.
LEMMA DevicesRest ==
    ASSUME PlacementInv, UNCHANGED <<rows, placed, placing>>, \A d \in Movers \ due' : d \notin due /\ Wish(d)' = Wish(d)
    PROVE  /\ \A c \in Placers : PlacingFits(c)'
           /\ \A d \in Movers : PlacedFits(d)'
BY DEF PlacementInv, PlacingFits, PlacedFits, PlacingOf, PlacingAt, Suits

-----------------------------------------------------------------------------
(* A placement *)

LEMMA PlaceDeviceStep ==
    ASSUME OnePlacement, PlacementInv, NEW c \in Placers, NEW d \in Movers, PlaceDevice(c, d)
    PROVE  PlacementInv'
<1> DEFINE policy == IF d \in users /\ profile # NoProfile THEN profile ELSE Automatic
           begun == [NotPlacing EXCEPT !.device = d, !.policy = policy,
                          !.pc = IF policy.mode # "disabled" /\ Offered(policy) THEN "schedule" ELSE "failed"]
<1>1. /\ PlacementTypeOK /\ PlacingAt(c, "idle") /\ d \in due /\ due' = due \ {d}
      /\ \A other \in Placers : ~PlacingOf(other, d)
      /\ placing' = [placing EXCEPT ![c] = begun]
      /\ servers' = servers /\ paths' = paths /\ profile' = profile /\ users' = users /\ rows' = rows /\ placed' = placed
      /\ placementAlerts' = placementAlerts /\ scaling' = scaling /\ edits' = edits
  BY DEF PlacementInv, PlaceDevice, fleetTables, PlacingOf, PlacingAt
<1>2. policy = Wish(d) /\ policy \in Policy
  BY <1>1, WishIsPolicy DEF Wish
<1>3. begun \in Placing /\ begun.device = d /\ begun.policy = policy /\ begun.pc \in {"schedule", "failed"}
  BY <1>2, Constants DEF NotPlacing, Placing
<1> HIDE DEF begun, policy
<1>4. placing' \in [Placers -> Placing] /\ placing'[c] = begun /\ \A other \in Placers \ {c} : placing'[other] = placing[other]
  BY <1>1, <1>3 DEF PlacementTypeOK
<1>5. PlacementTypeOK'
  BY <1>1, <1>4 DEF PlacementTypeOK
<1>6. \A e : Wish(e)' = Wish(e)
  BY <1>1 DEF Wish
<1>7. \A e \in Movers \ {d} : \A other \in Placers : PlacingOf(other, e)' <=> PlacingOf(other, e)
  BY <1>1, <1>3, <1>4 DEF PlacingOf, PlacingAt
<1>8. ASSUME NEW b \in Placers PROVE PlacingFits(b)'
  <2>1. CASE b = c
    <3>1. \A other \in Placers : PlacingOf(other, d)' => other = c
      BY <1>1, <1>4 DEF PlacingOf
    <3>2. QED
      BY <1>2, <1>3, <1>4, <1>6, <2>1, <3>1 DEF PlacingFits, PlacingAt
  <2>2. CASE b # c /\ placing[b].pc # "idle"
    <3>1. placing'[b] = placing[b] /\ placing[b].device \in Movers \ {d}
      BY <1>1, <1>4, <2>2 DEF PlacementInv, PlacingFits, PlacingAt, PlacingOf
    <3>2. \A other \in Placers : PlacingOf(other, placing[b].device)' => other = b
      BY <1>7, <2>2, <3>1 DEF PlacementInv, PlacingFits, PlacingAt
    <3>3. QED
      BY <1>1, <1>6, <2>2, <3>1, <3>2 DEF PlacementInv, PlacingFits, PlacingAt
  <2>3. QED
    BY <1>4, <2>1, <2>2 DEF PlacingFits, PlacingAt
<1>9. ASSUME NEW e \in Movers PROVE PlacedFits(e)'
  <2>1. CASE e = d
    <3>1. PlacingOf(c, d)'
      BY <1>3, <1>4 DEF PlacingOf
    <3>2. QED
      BY <2>1, <3>1 DEF PlacedFits
  <2>2. CASE e # d
    BY <1>1, <1>6, <1>7, <2>2 DEF PlacementInv, PlacedFits
  <2>3. QED
    BY <2>1, <2>2
<1>a. QED
  BY <1>1, <1>5, <1>8, <1>9, GroupsRest DEF PlacementInv

\* A placement in progress goes on, with rows for its own device only.
LEMMA PlacingGoesOn ==
    ASSUME PlacementInv, NEW c \in Placers, ~PlacingAt(c, "idle"), PlacementTypeOK',
           UNCHANGED <<servers, scaling, profile, users, due, placed>>,
           \A other \in Placers \ {c} : placing'[other] = placing[other],
           placing'[c].pc # "idle", placing'[c].device = placing[c].device, placing'[c].policy = placing[c].policy,
           \A d \in Movers \ {placing[c].device} : rows'[d] = rows[d],
           PlacingAt(c, "write")' => placing'[c].seen = rows'[placing[c].device] /\ Suits(placing[c].policy, placing'[c].takes),
           PlacingAt(c, "placed")' => Suits(placing[c].policy, rows'[placing[c].device])
    PROVE  PlacementInv'
<1> DEFINE d == placing[c].device
<1>1. d \in Movers /\ \A other \in Placers : PlacingOf(other, d) => other = c
  BY DEF PlacementInv, PlacingFits
<1>2. \A e : Wish(e)' = Wish(e)
  BY DEF Wish
<1>3. \A e \in Movers : \A other \in Placers : PlacingOf(other, e)' <=> PlacingOf(other, e)
  BY DEF PlacingOf, PlacingAt
<1>4. ASSUME NEW b \in Placers PROVE PlacingFits(b)'
  <2>1. CASE b = c
    BY <1>1, <1>2, <1>3, <2>1 DEF PlacementInv, PlacingFits, PlacingAt
  <2>2. CASE b # c /\ placing[b].pc # "idle"
    <3>1. placing'[b] = placing[b] /\ placing[b].device \in Movers \ {d}
      BY <1>1, <2>2 DEF PlacementInv, PlacingFits, PlacingAt, PlacingOf
    <3>2. \A other \in Placers : PlacingOf(other, placing[b].device)' => other = b
      BY <1>3, <2>2, <3>1 DEF PlacementInv, PlacingFits, PlacingAt
    <3>3. QED
      BY <1>2, <2>2, <3>1, <3>2 DEF PlacementInv, PlacingFits, PlacingAt
  <2>3. QED
    BY <2>1, <2>2 DEF PlacingFits, PlacingAt
<1>5. ASSUME NEW e \in Movers PROVE PlacedFits(e)'
  <2>1. CASE e = d
    <3>1. PlacingOf(c, d)'
      BY DEF PlacingOf
    <3>2. QED
      BY <2>1, <3>1 DEF PlacedFits
  <2>2. CASE e # d
    BY <1>2, <1>3, <2>2 DEF PlacementInv, PlacedFits
  <2>3. QED
    BY <2>1, <2>2
<1>6. QED
  BY <1>4, <1>5, GroupsRest DEF PlacementInv

LEMMA ScheduleStep ==
    ASSUME PlacementInv, NEW c \in Placers, Schedule(c)
    PROVE  PlacementInv'
<1> DEFINE policy == placing[c].policy
           sticky == rows[placing[c].device]
<1>1. /\ PlacementTypeOK /\ placing[c].pc = "schedule" /\ placing[c] \in Placing /\ placing[c].device \in Movers
      /\ servers' = servers /\ paths' = paths /\ profile' = profile /\ users' = users /\ due' = due
      /\ rows' = rows /\ placed' = placed /\ scaling' = scaling /\ edits' = edits
  BY PlacementTypes DEF PlacementInv, Schedule, PlacingFits, PlacingAt, fleetTables, accountTables
<1>2. policy \in Policy /\ sticky \in Rows
  BY <1>1, PlacementTypes DEF Placing
<1>3. \/ placing' = [placing EXCEPT ![c].pc = "failed"] /\ placementAlerts' \in {placementAlerts, placementAlerts \cup {policy}}
      \/ \E takes \in PlacementChoices(policy, sticky) :
            /\ takes.EXIT # NoServer /\ (policy.mode = "DOUBLE_HOP" => takes.RELAY # NoServer)
            /\ placing' = [placing EXCEPT ![c].pc = "write", ![c].seen = sticky, ![c].takes = takes]
            /\ placementAlerts' = placementAlerts \ {policy}
  BY DEF Schedule, PlacingGoes
<1> HIDE DEF policy, sticky
<1>4. CASE placing' = [placing EXCEPT ![c].pc = "failed"] /\ placementAlerts' \in {placementAlerts, placementAlerts \cup {policy}}
  <2>1. PlacementTypeOK'
    BY <1>1, <1>2, <1>4 DEF PlacementTypeOK, Placing
  <2>2. /\ \A other \in Placers \ {c} : placing'[other] = placing[other]
        /\ placing'[c].pc = "failed" /\ placing'[c].device = placing[c].device /\ placing'[c].policy = placing[c].policy
    BY <1>1, <1>4 DEF PlacementTypeOK, Placing
  <2>3. QED
    BY <1>1, <2>1, <2>2, PlacingGoesOn DEF PlacingAt
<1>5. ASSUME NEW takes \in PlacementChoices(policy, sticky),
             takes.EXIT # NoServer, policy.mode = "DOUBLE_HOP" => takes.RELAY # NoServer,
             placing' = [placing EXCEPT ![c].pc = "write", ![c].seen = sticky, ![c].takes = takes],
             placementAlerts' = placementAlerts \ {policy}
      PROVE  PlacementInv'
  <2>1. takes \in Rows /\ Suits(policy, takes)
    BY <1>2, <1>5, Chosen
  <2>2. placing' \in [Placers -> Placing]
    BY <1>1, <1>2, <1>5, <2>1 DEF PlacementTypeOK, Placing
  <2>3. PlacementTypeOK'
    BY <1>1, <1>5, <2>2 DEF PlacementTypeOK
  <2>4. /\ \A other \in Placers \ {c} : placing'[other] = placing[other]
        /\ placing'[c].pc = "write" /\ placing'[c].device = placing[c].device /\ placing'[c].policy = placing[c].policy
        /\ placing'[c].seen = sticky /\ placing'[c].takes = takes
    BY <1>1, <1>5 DEF PlacementTypeOK, Placing
  <2>5. QED
    BY <1>1, <2>1, <2>3, <2>4, PlacingGoesOn DEF PlacingAt, policy, sticky
<1>6. QED
  BY <1>3, <1>4, <1>5

LEMMA WriteRowsStep ==
    ASSUME PlacementInv, NEW c \in Placers, WriteRows(c)
    PROVE  PlacementInv'
<1> DEFINE d == placing[c].device
           exit == IF placing[c].takes.EXIT \in {NoServer, placing[c].seen.EXIT} THEN rows[d].EXIT ELSE placing[c].takes.EXIT
           relay == IF placing[c].takes.RELAY \in {NoServer, placing[c].seen.RELAY} THEN rows[d].RELAY ELSE placing[c].takes.RELAY
<1>1. /\ PlacementTypeOK /\ placing[c].pc = "write" /\ placing[c] \in Placing /\ d \in Movers
      /\ placing[c].seen = rows[d] /\ Suits(placing[c].policy, placing[c].takes)
      /\ servers' = servers /\ paths' = paths /\ profile' = profile /\ users' = users /\ due' = due
      /\ placed' = placed /\ placementAlerts' = placementAlerts /\ scaling' = scaling /\ edits' = edits
      /\ placing' = [placing EXCEPT ![c].pc = "placed"]
  BY PlacementTypes DEF PlacementInv, WriteRows, PlacingGoes, PlacingFits, PlacingAt, fleetTables, accountTables
<1>2. rows' = [rows EXCEPT ![d] = [EXIT |-> exit, RELAY |-> relay]]
  BY DEF WriteRows
<1>3. rows[d] \in Rows /\ placing[c].takes \in Rows
  BY <1>1, PlacementTypes DEF Placing
<1>4. [EXIT |-> exit, RELAY |-> relay] \in Rows
  BY <1>3 DEF Rows
<1>5. Suits(placing[c].policy, [EXIT |-> exit, RELAY |-> relay])
  BY <1>1 DEF Suits
<1> HIDE DEF exit, relay, d
<1>6. rows' \in [Movers -> Rows] /\ rows'[d] = [EXIT |-> exit, RELAY |-> relay] /\ \A e \in Movers \ {d} : rows'[e] = rows[e]
  BY <1>1, <1>2, <1>4 DEF PlacementTypeOK
<1>7. PlacementTypeOK'
  BY <1>1, <1>6 DEF PlacementTypeOK, Placing
<1>8. /\ \A other \in Placers \ {c} : placing'[other] = placing[other]
      /\ placing'[c].pc = "placed" /\ placing'[c].device = placing[c].device /\ placing'[c].policy = placing[c].policy
  BY <1>1 DEF PlacementTypeOK, Placing
<1>9. QED
  BY <1>1, <1>5, <1>6, <1>7, <1>8, PlacingGoesOn DEF PlacingAt, d

LEMMA RecordStep ==
    ASSUME PlacementInv, NEW c \in Placers, recordPlacement(c)
    PROVE  PlacementInv'
<1> DEFINE d == placing[c].device
<1>1. /\ PlacementTypeOK /\ placing[c].pc \in {"placed", "failed"} /\ d \in Movers /\ PlacingFits(c)
      /\ servers' = servers /\ paths' = paths /\ profile' = profile /\ users' = users /\ due' = due /\ rows' = rows
      /\ placementAlerts' = placementAlerts /\ scaling' = scaling /\ edits' = edits
      /\ placed' = [placed EXCEPT ![d] = IF PlacingAt(c, "placed") THEN "PLACED" ELSE "UNSCHEDULABLE"]
      /\ placing' = [placing EXCEPT ![c] = NotPlacing]
  BY DEF PlacementInv, recordPlacement, PlacingFits, PlacingAt, fleetTables, accountTables
<1>2. PlacementTypeOK'
  BY <1>1, Constants DEF PlacementTypeOK
<1>3. /\ placing'[c] = NotPlacing /\ \A other \in Placers \ {c} : placing'[other] = placing[other]
      /\ placed'[d] = (IF PlacingAt(c, "placed") THEN "PLACED" ELSE "UNSCHEDULABLE")
      /\ \A e \in Movers \ {d} : placed'[e] = placed[e]
  BY <1>1 DEF PlacementTypeOK
<1>4. \A e : Wish(e)' = Wish(e)
  BY <1>1 DEF Wish
<1>5. \A e \in Movers : \A other \in Placers \ {c} : PlacingOf(other, e)' <=> PlacingOf(other, e)
  BY <1>3 DEF PlacingOf
<1>6. \A e \in Movers : ~PlacingOf(c, e)'
  BY <1>3, Constants DEF PlacingOf
<1>7. ASSUME NEW b \in Placers PROVE PlacingFits(b)'
  <2>1. CASE b = c
    BY <1>3, <2>1, Constants DEF PlacingFits, PlacingAt
  <2>2. CASE b # c
    BY <1>1, <1>3, <1>4, <1>5, <1>6, <2>2 DEF PlacementInv, PlacingFits, PlacingAt
  <2>3. QED
    BY <2>1, <2>2
<1>8. ASSUME NEW e \in Movers PROVE PlacedFits(e)'
  <2>1. CASE e = d
    BY <1>1, <1>3, <1>4, <2>1 DEF PlacedFits, PlacingFits, PlacingAt
  <2>2. CASE e # d
    <3>1. ~PlacingOf(c, e)
      BY <2>2 DEF PlacingOf
    <3>2. QED
      BY <1>1, <1>3, <1>4, <1>5, <2>2, <3>1 DEF PlacementInv, PlacedFits
  <2>3. QED
    BY <2>1, <2>2
<1>9. QED
  BY <1>1, <1>2, <1>7, <1>8, GroupsRest DEF PlacementInv

-----------------------------------------------------------------------------
(* Profiles and events *)

LEMMA ProfileStep ==
    ASSUME WithinBudget, PlacementInv,
           \/ \E policy \in Policy : createProfile(policy) \/ updateProfile(policy)
           \/ deleteProfile \/ Reconciles \/ \E d \in Movers : assignDeviceProfile(d)
    PROVE  PlacementInv'
<1>1. /\ PlacementTypeOK
      /\ servers' = servers /\ paths' = paths /\ rows' = rows /\ placed' = placed
      /\ placementAlerts' = placementAlerts /\ placing' = placing /\ scaling' = scaling
      /\ edits < MaxEdits /\ edits' = edits + 1
  BY DEF PlacementInv, createProfile, updateProfile, deleteProfile, Reconciles, assignDeviceProfile, Edit, fleetTables
<1>2. edits' \in 0..MaxEdits
  BY <1>1, Constants DEF PlacementTypeOK
<1> DEFINE Asked == /\ profile' \in Policy \cup {NoProfile} /\ users' \subseteq Movers /\ due' \subseteq Movers
                    /\ (profile' = NoProfile => users' = {})
                    /\ \A d \in Movers \ due' : d \notin due /\ Wish(d)' = Wish(d)
<1>3. Asked
  <2>1. ASSUME NEW policy \in Policy, createProfile(policy)
        PROVE  Asked
    <3>1. profile' = policy /\ users' = users /\ due' = due /\ users = {}
      BY <2>1 DEF createProfile, PlacementInv
    <3>2. QED
      BY <1>1, <3>1, Constants DEF PlacementTypeOK, Wish
  <2>2. ASSUME NEW policy \in Policy, updateProfile(policy)
        PROVE  Asked
    <3>1. profile' = policy /\ users' = users /\ due' = Movers
      BY <2>2 DEF updateProfile
    <3>2. QED
      BY <1>1, <3>1, Constants DEF PlacementTypeOK
  <2>3. ASSUME deleteProfile
        PROVE  Asked
    BY <2>3 DEF deleteProfile
  <2>4. ASSUME Reconciles
        PROVE  Asked
    BY <1>1, <2>4 DEF Reconciles, PlacementTypeOK, PlacementInv
  <2>5. ASSUME NEW d \in Movers, assignDeviceProfile(d)
        PROVE  Asked
    <3>1. profile' = profile /\ profile # NoProfile /\ users' = users \cup {d} /\ due' = due \cup {d}
      BY <2>5 DEF assignDeviceProfile
    <3>2. QED
      BY <1>1, <3>1 DEF PlacementTypeOK, Wish
  <2>6. QED
    BY <2>1, <2>2, <2>3, <2>4, <2>5
<1>4. PlacementTypeOK'
  BY <1>1, <1>2, <1>3 DEF PlacementTypeOK
<1>5. QED
  BY <1>1, <1>3, <1>4, GroupsRest, DevicesRest DEF PlacementInv

-----------------------------------------------------------------------------
(* The fleet and the tick *)

\* The devices rest, and so does what is due.
LEMMA FleetStepRest ==
    ASSUME PlacementInv, UNCHANGED <<rows, placed, placing, profile, users, due>>
    PROVE  /\ profile' = NoProfile => users' = {}
           /\ \A c \in Placers : PlacingFits(c)'
           /\ \A d \in Movers : PlacedFits(d)'
BY DevicesRest DEF PlacementInv, Wish

LEMMA ServerStep ==
    ASSUME PlacementInv, NEW s \in Server, ServerReports(s) \/ \E to \in ServerState : ServerMoves(s, to)
    PROVE  PlacementInv'
<1>1. /\ PlacementTypeOK /\ servers[s] \in ServerRow /\ scaling' = scaling
      /\ UNCHANGED <<paths, rows, placed, placing, profile, users, due, placementAlerts>>
      /\ edits' \in {edits, edits + 1} /\ (edits' # edits => edits < MaxEdits)
  BY PlacementTypes DEF PlacementInv, ServerReports, ServerMoves, Edit, accountTables
<1>2. edits' \in 0..MaxEdits
  BY <1>1, Constants DEF PlacementTypeOK
<1>3. /\ servers' \in [Server -> ServerRow]
      /\ \A r \in Server : servers'[r].state \in {"PROVISIONING", "WARMING_UP"}
                              => servers[r].state \in {"PROVISIONING", "WARMING_UP"}
  <2>1. CASE ServerReports(s)
    <3> DEFINE seen == {d \in Movers : s \in {rows[d].EXIT, rows[d].RELAY}}
    <3>1. servers' = [servers EXCEPT ![s].load = Cardinality(seen)]
      BY <2>1 DEF ServerReports
    <3>2. Cardinality(seen) \in 0..Cardinality(Movers)
      BY PlacementParameters, FS_Subset, FS_CardinalityType
    <3> HIDE DEF seen
    <3>3. [servers[s] EXCEPT !.load = Cardinality(seen)] \in ServerRow
      BY <1>1, <3>2 DEF ServerRow
    <3>4. QED
      BY <1>1, <3>1, <3>3 DEF PlacementTypeOK, ServerRow
  <2>2. ASSUME NEW to \in ServerState, ServerMoves(s, to)
        PROVE  <1>3!1 /\ <1>3!2
    <3>1. /\ servers' = [servers EXCEPT ![s].state = to]
          /\ to \in {"PROVISIONING", "WARMING_UP"} => servers[s].state \in {"PROVISIONING", "WARMING_UP"}
      BY <2>2 DEF ServerMoves
    <3>2. [servers[s] EXCEPT !.state = to] \in ServerRow
      BY <1>1 DEF ServerRow
    <3>3. QED
      BY <1>1, <3>1, <3>2 DEF PlacementTypeOK, ServerRow
  <2>3. QED
    BY <2>1, <2>2
<1>4. \A g : InFlight(g)' \subseteq InFlight(g)
  BY <1>3 DEF InFlight
<1>5. \A t \in Ticks : ScalingFits(t)'
  BY <1>1, <1>4 DEF PlacementInv, ScalingFits
<1>6. \A g \in Groups : \A q, r \in InFlight(g)' : q = r
  BY <1>4 DEF PlacementInv
<1>7. PlacementTypeOK'
  BY <1>1, <1>2, <1>3 DEF PlacementTypeOK
<1>8. QED
  BY <1>1, <1>5, <1>6, <1>7, FleetStepRest DEF PlacementInv

LEMMA PathStep ==
    ASSUME PlacementInv, NEW path \in Pairs, PathIsSwitched(path)
    PROVE  PlacementInv'
<1>1. /\ PlacementTypeOK /\ servers' = servers /\ scaling' = scaling
      /\ UNCHANGED <<rows, placed, placing, profile, users, due, placementAlerts>>
      /\ edits < MaxEdits /\ edits' = edits + 1 /\ paths' = (paths \ {path}) \cup ({path} \ paths)
  BY DEF PlacementInv, PathIsSwitched, Edit, accountTables
<1>2. edits' \in 0..MaxEdits
  BY <1>1, Constants DEF PlacementTypeOK
<1>3. path \in (Locations \cup {Nowhere}) \X Locations
  BY DEF Pairs
<1>4. PlacementTypeOK'
  BY <1>1, <1>2, <1>3 DEF PlacementTypeOK
<1>5. QED
  BY <1>1, <1>4, FleetStepRest, GroupsRest DEF PlacementInv

LEMMA TickStep ==
    ASSUME OneTick, PlacementInv, NEW t \in Ticks,
           FindFull(t) \/ \E g \in Groups : nextScaleNodeId(t, g)
    PROVE  PlacementInv'
<1>1. /\ PlacementTypeOK /\ scaling[t] \in Scaling /\ servers' = servers
      /\ UNCHANGED <<paths, rows, placed, placing, profile, users, due, placementAlerts, edits>>
  BY PlacementTypes DEF PlacementInv, FindFull, nextScaleNodeId, fleetTables, accountTables
<1>2. \A g : InFlight(g)' = InFlight(g)
  BY <1>1 DEF InFlight
<1>3. scaling' \in [Ticks -> Scaling] /\ \A u \in Ticks : ScalingFits(u)'
  <2>1. CASE FindFull(t)
    <3>1. /\ \A other \in Ticks : scaling[other].todo = {}
          /\ scaling' = [scaling EXCEPT ![t] = [todo |-> findCapacityExhaustedGroups, next |-> 0]]
      BY <2>1, Constants DEF FindFull
    <3>2. findCapacityExhaustedGroups \subseteq Groups /\ \A g \in findCapacityExhaustedGroups : InFlight(g) = {}
      BY DEF findCapacityExhaustedGroups
    <3>3. scaling' \in [Ticks -> Scaling]
      BY <1>1, <3>1, <3>2, Constants DEF PlacementTypeOK, Scaling
    <3>4. scaling'[t].todo = findCapacityExhaustedGroups /\ \A u \in Ticks \ {t} : scaling'[u].todo = {}
      BY <1>1, <3>1 DEF PlacementTypeOK
    <3>5. QED
      BY <1>2, <3>2, <3>3, <3>4 DEF ScalingFits
  <2>2. ASSUME NEW g \in Groups, nextScaleNodeId(t, g)
        PROVE  <1>3!1 /\ <1>3!2
    <3>1. PICK n \in 1..(MaxScale + 1) : scaling' = [scaling EXCEPT ![t].next = n]
      BY <2>2 DEF nextScaleNodeId
    <3>2. scaling' \in [Ticks -> Scaling] /\ \A u \in Ticks : scaling'[u].todo = scaling[u].todo
      BY <1>1, <3>1, Constants DEF PlacementTypeOK, Scaling
    <3>3. QED
      BY <1>2, <3>2 DEF PlacementInv, ScalingFits
  <2>3. QED
    BY <2>1, <2>2
<1>4. PlacementTypeOK'
  BY <1>1, <1>3 DEF PlacementTypeOK
<1>5. QED
  BY <1>1, <1>2, <1>3, <1>4, FleetStepRest DEF PlacementInv

\* A server begins where none is on the way.
LEMMA CreateStep ==
    ASSUME PlacementInv, NEW t \in Ticks, NEW g \in Groups, startCreateNodeOperation(t, g)
    PROVE  PlacementInv'
<1> DEFINE s == <<g, scaling[t].next>>
<1>1. /\ PlacementTypeOK /\ scaling[t] \in Scaling /\ g \in scaling[t].todo
      /\ UNCHANGED <<paths, rows, placed, placing, profile, users, due, placementAlerts, edits>>
      /\ servers' = IF s \in Server /\ servers[s].state = "absent" THEN [servers EXCEPT ![s].state = "PROVISIONING"] ELSE servers
      /\ scaling' = [scaling EXCEPT ![t] = [todo |-> @.todo \ {g}, next |-> 0]]
  BY PlacementTypes DEF PlacementInv, startCreateNodeOperation, accountTables
<1>2. InFlight(g) = {} /\ \A u \in Ticks : scaling[u].todo # {} => u = t
  BY <1>1 DEF PlacementInv, ScalingFits
<1>3. s[1] = g
  OBVIOUS
<1> HIDE DEF s
<1>4. /\ servers' \in [Server -> ServerRow]
      /\ \A r \in Server \ {s} : servers'[r] = servers[r]
  BY <1>1, PlacementTypes DEF PlacementTypeOK, ServerRow, ServerState
<1>5. InFlight(g)' \subseteq {s} /\ \A h : h # g => InFlight(h)' = InFlight(h)
  BY <1>2, <1>3, <1>4 DEF InFlight
<1>6. /\ scaling' \in [Ticks -> Scaling] /\ scaling'[t].todo = scaling[t].todo \ {g}
      /\ \A u \in Ticks \ {t} : scaling'[u] = scaling[u]
  BY <1>1, Constants DEF PlacementTypeOK, Scaling
<1>7. \A u \in Ticks : ScalingFits(u)'
  BY <1>2, <1>5, <1>6 DEF PlacementInv, ScalingFits
<1>8. \A h \in Groups : \A q, r \in InFlight(h)' : q = r
  BY <1>5 DEF PlacementInv
<1>9. PlacementTypeOK'
  BY <1>1, <1>4, <1>6 DEF PlacementTypeOK
<1>a. QED
  BY <1>1, <1>7, <1>8, <1>9, FleetStepRest DEF PlacementInv

-----------------------------------------------------------------------------
LEMMA PlacementInvInit == PlacementInit => PlacementInv
<1> SUFFICES ASSUME PlacementInit PROVE PlacementInv
  OBVIOUS
<1>1. servers \in [Server -> ServerRow]
  <2>1. Cardinality(Movers) \in Nat
    BY PlacementParameters, FS_CardinalityType
  <2>2. QED
    BY <2>1 DEF PlacementInit, ServerRow, ServerState, NotReported
<1>2. \A g : InFlight(g) = {}
  BY DEF PlacementInit, InFlight
<1>3. paths \subseteq (Locations \cup {Nowhere}) \X Locations
  BY DEF PlacementInit, Pairs
<1>4. PlacementTypeOK
  BY <1>1, <1>3, Constants DEF PlacementInit, PlacementTypeOK
<1>5. \A c \in Placers : PlacingFits(c)
  BY Constants DEF PlacementInit, PlacingFits, PlacingAt
<1>6. \A d \in Movers : PlacedFits(d)
  BY DEF PlacementInit, PlacedFits
<1>7. \A t \in Ticks : ScalingFits(t)
  BY Constants DEF PlacementInit, ScalingFits
<1>8. QED
  BY <1>2, <1>4, <1>5, <1>6, <1>7 DEF PlacementInv, PlacementInit

LEMMA PlacementInvNext ==
    ASSUME OnePlacement, WithinBudget, OneTick, PlacementInv, [PlacementNext]_placementVars
    PROVE  PlacementInv'
<1>1. CASE PlacementNext
  BY <1>1, PlaceDeviceStep, ScheduleStep, WriteRowsStep, RecordStep, ProfileStep, ServerStep, PathStep, TickStep, CreateStep
     DEF PlacementNext
<1>2. CASE UNCHANGED placementVars
  <2>1. /\ UNCHANGED <<rows, placed, placing, profile, users, due, servers, scaling, paths, placementAlerts, edits>>
    BY <1>2 DEF placementVars
  <2>2. PlacementTypeOK'
    BY <2>1 DEF PlacementInv, PlacementTypeOK
  <2>3. QED
    BY <2>1, <2>2, FleetStepRest, GroupsRest DEF PlacementInv
<1>3. QED
  BY <1>1, <1>2

\* Devices that are shown as placed are where their profile wants them, and a full location has one server on the
\* way at most (placeDevice, updateProfile, autoScaleFullLocations), for any number of devices and locations.
THEOREM PlacementCorrect ==
    ASSUME OnePlacement, WithinBudget, OneTick
    PROVE  PlacementSpec => []PlacementHolds
<1>1. PlacementInv => PlacedAsProfiled
  <2>1. SUFFICES ASSUME PlacementInv, due = {}, \A c \in Placers : PlacingAt(c, "idle"), NEW d \in Movers, placed[d] = "PLACED"
                 PROVE  Meets(d, Wish(d))
    BY DEF PlacedAsProfiled, Wish
  <2>2. Suits(Wish(d), rows[d])
    BY <2>1 DEF PlacementInv, PlacedFits, PlacingOf, PlacingAt
  <2>3. QED
    BY <2>2 DEF Suits, Meets
<1>2. PlacementInv => OneScaleOut
  <2>1. SUFFICES ASSUME PlacementInv, NEW g \in Groups PROVE Cardinality(InFlight(g)) <= 1
    BY DEF OneScaleOut
  <2>2. CASE InFlight(g) = {}
    BY <2>2, FS_EmptySet
  <2>3. ASSUME NEW s \in InFlight(g) PROVE Cardinality(InFlight(g)) <= 1
    <3>1. InFlight(g) = {s}
      BY <2>1, <2>3 DEF PlacementInv
    <3>2. QED
      BY <3>1, FS_Singleton
  <2>4. QED
    BY <2>2, <2>3
<1>3. PlacementInv /\ [PlacementNext]_placementVars => PlacementInv'
  BY PlacementInvNext
<1>4. PlacementInv => PlacementHolds
  BY <1>1, <1>2 DEF PlacementHolds
<1>5. QED
  BY <1>3, <1>4, PlacementInvInit, PTL DEF PlacementSpec

-----------------------------------------------------------------------------
(* Traffic: the inductive invariant *)

Readings == samples \cup reports

\* Nothing is counted that did not pass, and there is a newest sample to compare with.
TrafficTyped ==
    /\ TrafficTypeOK
    /\ \A d \in Directions : counters[d] <= total[d] /\ IsFiniteSet(CountedBytes(d))
    /\ samples # {} => \E s \in samples : \A t \in samples : t.at <= s.at

\* A moment has one reading, and none is of the future.
ReadingsFit ==
    /\ sent <= clock
    /\ \A r \in Readings : r.at <= sent /\ \A s \in Readings : r.at = s.at => r = s

\* As long as nothing was restarted or forgotten the counters only rise, and the days have what they rose by.
Unbroken ==
    baseline # Broken =>
        /\ \A r \in Readings, d \in Directions :
               /\ r.bytes[d] <= counters[d]
               /\ \A s \in Readings : r.at <= s.at => r.bytes[d] <= s.bytes[d]
        /\ baseline = None => samples = {}
        /\ baseline # None => samples # {}
        /\ \A d \in Directions : Counted(d) = IF baseline = None THEN 0 ELSE Latest.bytes[d] - baseline.bytes[d]

\* passed[t] had passed through the node when it was read at t: between two readings no less than what the second
\* would claim after the first, and what is counted so far no more than by any reading yet to come.
PassedFits(passed) ==
    /\ \A r \in Readings, d \in Directions :
           /\ passed[r.at][d] + Delta(r, counters)[d] <= total[d]
           /\ \A s \in Readings : r.at < s.at => passed[r.at][d] + Delta(r, s.bytes)[d] <= passed[s.at][d]
           /\ (\A s \in samples : s.at <= r.at) => Counted(d) <= passed[r.at][d]

TrafficInv ==
    /\ ReadingsFit /\ Unbroken
    /\ \A d \in Directions : Counted(d) <= total[d]
    /\ \E passed \in [0..MaxTime -> Bytes] : PassedFits(passed)

-----------------------------------------------------------------------------
(* Traffic: differences, the newest sample, and the days *)

\* What a sample claims is no less than nothing, and no more than its counters.
LEMMA DeltaBounds ==
    ASSUME NEW p \in Sample \cup {None}, NEW bytes \in Bytes
    PROVE  /\ Delta(p, bytes) \in Bytes
           /\ p \in Sample /\ bytes = p.bytes => Delta(p, bytes) = NoBytes
           /\ p \in Sample /\ (\A d \in Directions : p.bytes[d] <= bytes[d])
              => \A d \in Directions : Delta(p, bytes)[d] = bytes[d] - p.bytes[d]
<1>1. \A d \in Directions : bytes[d] \in 0..MaxBytes
  BY DEF Bytes
<1>2. NoBytes \in Bytes
  BY TrafficParameters DEF NoBytes, Bytes
<1>3. CASE p = None
  <2>1. Delta(p, bytes) = NoBytes
    BY <1>3 DEF Delta
  <2>2. p \notin Sample
    BY <1>3 DEF None, Sample
  <2> QED BY <1>2, <2>1, <2>2
<1>4. CASE p # None
  <2>1. p \in Sample /\ \A d \in Directions : p.bytes[d] \in 0..MaxBytes
    BY <1>4 DEF Sample, Bytes
  <2>2. CASE \E d \in Directions : bytes[d] < p.bytes[d]
    <3>1. Delta(p, bytes) = bytes
      BY <1>4, <2>2 DEF Delta
    <3> QED BY <1>1, <2>1, <2>2, <3>1
  <2>3. CASE \A d \in Directions : ~(bytes[d] < p.bytes[d])
    <3>1. Delta(p, bytes) = [d \in Directions |-> bytes[d] - p.bytes[d]]
      BY <1>4, <2>3 DEF Delta
    <3>2. \A d \in Directions : bytes[d] - p.bytes[d] \in 0..MaxBytes
      BY <1>1, <2>1, <2>3, TrafficParameters
    <3>3. Delta(p, bytes) \in Bytes
      BY <3>1, <3>2 DEF Bytes
    <3>4. bytes = p.bytes => \A d \in Directions : bytes[d] - p.bytes[d] = 0
      BY <1>1, <2>1
    <3> QED BY <3>1, <3>3, <3>4 DEF NoBytes
  <2> QED BY <2>2, <2>3
<1> QED BY <1>3, <1>4

\* One more byte is one more to claim, at most, in its direction.
LEMMA DeltaOfOneMore ==
    ASSUME NEW p \in Sample, NEW d \in Directions, NEW bytes \in Bytes, bytes[d] < MaxBytes
    PROVE  LET more == [bytes EXCEPT ![d] = @ + 1]
           IN /\ more \in Bytes
              /\ Delta(p, more)[d] <= Delta(p, bytes)[d] + 1
              /\ \A e \in Directions : e # d => Delta(p, more)[e] <= Delta(p, bytes)[e]
<1> DEFINE more == [bytes EXCEPT ![d] = @ + 1]
<1>1. \A e \in Directions : p.bytes[e] \in 0..MaxBytes /\ bytes[e] \in 0..MaxBytes
  BY DEF Sample, Bytes
<1>2. more \in Bytes /\ more[d] = bytes[d] + 1 /\ \A e \in Directions : e # d => more[e] = bytes[e]
  BY <1>1, TrafficParameters DEF Bytes
<1> HIDE DEF more
<1>3. p # None
  BY DEF None, Sample
<1> SUFFICES /\ Delta(p, more)[d] <= Delta(p, bytes)[d] + 1
             /\ \A e \in Directions : e # d => Delta(p, more)[e] <= Delta(p, bytes)[e]
  BY <1>2 DEF more
<1>4. CASE \E e \in Directions : more[e] < p.bytes[e]
  <2>1. Delta(p, more) = more
    BY <1>3, <1>4 DEF Delta
  <2>2. \E e \in Directions : bytes[e] < p.bytes[e]
    BY <1>1, <1>2, <1>4
  <2>3. Delta(p, bytes) = bytes
    BY <1>3, <2>2 DEF Delta
  <2> QED BY <1>1, <1>2, <2>1, <2>3
<1>5. CASE \A e \in Directions : ~(more[e] < p.bytes[e])
  <2>1. Delta(p, more) = [e \in Directions |-> more[e] - p.bytes[e]]
    BY <1>3, <1>5 DEF Delta
  <2>2. \A e \in Directions : Delta(p, bytes)[e] >= bytes[e] - p.bytes[e]
    <3>1. CASE \E e \in Directions : bytes[e] < p.bytes[e]
      <4>1. Delta(p, bytes) = bytes
        BY <1>3, <3>1 DEF Delta
      <4> QED BY <1>1, <4>1
    <3>2. CASE \A e \in Directions : ~(bytes[e] < p.bytes[e])
      <4>1. Delta(p, bytes) = [e \in Directions |-> bytes[e] - p.bytes[e]]
        BY <1>3, <3>2 DEF Delta
      <4> QED BY <1>1, <4>1
    <3> QED BY <3>1, <3>2
  <2>3. \A e \in Directions : Delta(p, more)[e] = more[e] - p.bytes[e]
    BY <2>1
  <2>4. Delta(p, bytes) \in Bytes
    BY DeltaBounds
  <2>5. \A e \in Directions : Delta(p, bytes)[e] \in 0..MaxBytes
    BY <2>4 DEF Bytes
  <2>6. Delta(p, more)[d] = bytes[d] + 1 - p.bytes[d]
    <3>1. Delta(p, more)[d] = more[d] - p.bytes[d]
      BY <2>3, Zenon
    <3> QED BY <1>1, <1>2, <3>1
  <2>7. \A e \in Directions : e # d => Delta(p, more)[e] = bytes[e] - p.bytes[e]
    BY <1>2, <2>3
  <2> QED BY <1>1, <2>2, <2>5, <2>6, <2>7
<1> QED BY <1>4, <1>5

\* Latest is a sample that none is later than; None without one.
LEMMA LatestIs ==
    ASSUME TrafficTyped
    PROVE  /\ samples = {} => Latest = None
           /\ samples # {} => Latest \in samples /\ \A t \in samples : t.at <= Latest.at
           /\ Latest \in Sample \cup {None}
BY DEF TrafficTyped, Latest, TrafficTypeOK

\* A day is one of the table's.
LEMMA DayIs ==
    ASSUME NEW t \in 0..MaxTime
    PROVE  Day(t) \in 0..Day(MaxTime)
BY TrafficParameters DEF Day

\* What is added to a day is added to the count.
LEMMA CountedGrows ==
    ASSUME TrafficTyped, NEW day \in 0..Day(MaxTime), NEW more \in Bytes,
           daily' = [daily EXCEPT ![day] = [d \in Directions |-> @[d] + more[d]]]
    PROVE  /\ daily' \in [0..Day(MaxTime) -> [Directions -> Nat]]
           /\ \A d \in Directions : /\ IsFiniteSet(CountedBytes(d)')
                                    /\ Counted(d) \in Nat /\ Counted(d)' = Counted(d) + more[d]
<1>1. daily \in [0..Day(MaxTime) -> [Directions -> Nat]] /\ \A d \in Directions : more[d] \in Nat
  BY TrafficParameters DEF TrafficTyped, TrafficTypeOK, Bytes
<1>2. \A d \in Directions : daily[day][d] \in Nat
  BY <1>1
<1>3. /\ daily' \in [0..Day(MaxTime) -> [Directions -> Nat]]
      /\ \A d \in Directions : daily'[day][d] = daily[day][d] + more[d]
      /\ \A n \in 0..Day(MaxTime) : n # day => daily'[n] = daily[n]
  BY <1>1, <1>2
<1>4. ASSUME NEW d \in Directions
      PROVE  /\ IsFiniteSet(CountedBytes(d)')
             /\ Counted(d) \in Nat /\ Counted(d)' = Counted(d) + more[d]
  <2> DEFINE had == daily[day][d]
             new == {day} \X ((had + 1)..(had + more[d]))
  <2>1. had \in Nat /\ more[d] \in Nat /\ daily'[day][d] = had + more[d]
    BY <1>1, <1>2, <1>3
  <2>2. 1..(had + more[d]) = (1..had) \cup ((had + 1)..(had + more[d]))
    BY <2>1
  <2>3. CountedBytes(d)' = CountedBytes(d) \cup new
    <3> DEFINE Of(n) == {n} \X (1..daily[n][d])
    <3>1. \A n \in 0..Day(MaxTime) : n # day => Of(n)' = Of(n)
      BY <1>3
    <3>2. Of(day)' = Of(day) \cup new
      BY <2>1, <2>2
    <3>3. CountedBytes(d) = UNION {Of(n) : n \in 0..Day(MaxTime)} /\ CountedBytes(d)' = UNION {Of(n)' : n \in 0..Day(MaxTime)}
      BY <1>1, <1>3 DEF CountedBytes
    <3> HIDE DEF Of, new
    <3> QED BY <3>1, <3>2, <3>3
  <2>4. CountedBytes(d) \cap new = {}
    <3>1. ASSUME NEW b \in CountedBytes(d), b \in new PROVE FALSE
      <4>1. PICK n \in 0..Day(MaxTime) : b \in {n} \X (1..daily[n][d])
        BY <1>1, <3>1 DEF CountedBytes
      <4>2. b[1] = n /\ b[2] \in 1..daily[n][d] /\ b[1] = day /\ b[2] \in (had + 1)..(had + more[d])
        BY <3>1, <4>1
      <4> QED BY <2>1, <4>2
    <3> QED BY <3>1
  <2>5. IsFiniteSet(new) /\ Cardinality(new) = more[d]
    <3> DEFINE first == had + 1
               last == had + more[d]
               one == {day}
               bytes == first..last
    <3>1. first \in Int /\ last \in Int /\ last - first + 1 = more[d] /\ (first > last => more[d] = 0)
      BY <2>1
    <3>2. IsFiniteSet(one) /\ Cardinality(one) = 1
      BY FS_Singleton
    <3> HIDE DEF first, last, one
    <3>3. IsFiniteSet(bytes) /\ Cardinality(bytes) = more[d]
      BY <3>1, FS_Interval
    <3> HIDE DEF bytes
    <3>4. IsFiniteSet(one \X bytes) /\ Cardinality(one \X bytes) = 1 * more[d]
      BY <3>2, <3>3, FS_Product
    <3> QED BY <2>1, <3>4 DEF first, last, one, bytes
  <2>6. IsFiniteSet(CountedBytes(d))
    BY DEF TrafficTyped
  <2> HIDE DEF new
  <2>7. Cardinality(CountedBytes(d)) \in Nat
    BY <2>6, FS_CardinalityType
  <2>8. Cardinality(CountedBytes(d) \cap new) = 0
    BY <2>4, FS_EmptySet
  <2>9. IsFiniteSet(CountedBytes(d) \cup new)
        /\ Cardinality(CountedBytes(d) \cup new) = Cardinality(CountedBytes(d)) + Cardinality(new) - Cardinality(CountedBytes(d) \cap new)
    BY <2>5, <2>6, FS_Union
  <2> QED BY <2>1, <2>3, <2>5, <2>7, <2>8, <2>9 DEF Counted
<1> QED BY <1>3, <1>4

-----------------------------------------------------------------------------
(* Traffic: the types *)

LEMMA TrafficTypedInit == TrafficInit => TrafficTyped
<1> SUFFICES ASSUME TrafficInit PROVE TrafficTyped
  OBVIOUS
<1>1. NoBytes \in Bytes /\ NoBytes \in [Directions -> Nat]
  BY TrafficParameters DEF NoBytes, Bytes
<1>2. daily \in [0..Day(MaxTime) -> [Directions -> Nat]]
  BY <1>1 DEF TrafficInit
<1>3. \A d \in Directions : CountedBytes(d) = {}
  BY DEF TrafficInit, CountedBytes, NoBytes
<1>4. TrafficTypeOK
  BY <1>1, <1>2, TrafficParameters DEF TrafficInit, TrafficTypeOK
<1>5. \A d \in Directions : counters[d] <= total[d]
  BY DEF TrafficInit, NoBytes
<1> QED BY <1>3, <1>4, <1>5, FS_EmptySet DEF TrafficTyped, TrafficInit

\* What a sample records has a day, and claims bytes.
LEMMA RecordCounts ==
    ASSUME TrafficTyped, NEW r \in reports, NEW again \in BOOLEAN, record_node_traffic(r, again)
    PROVE  /\ r \in Sample /\ Delta(Latest, r.bytes) \in Bytes
           /\ daily' \in [0..Day(MaxTime) -> [Directions -> Nat]]
           /\ \A d \in Directions : /\ IsFiniteSet(CountedBytes(d)')
                                    /\ Counted(d) \in Nat
                                    /\ Counted(d)' = Counted(d) + Delta(Latest, r.bytes)[d]
<1>1. r \in Sample /\ r.at \in 0..MaxTime /\ r.bytes \in Bytes
  BY DEF TrafficTyped, TrafficTypeOK, Sample
<1>2. Latest \in Sample \cup {None}
  BY LatestIs
<1>3. Delta(Latest, r.bytes) \in Bytes
  BY <1>1, <1>2, DeltaBounds
<1>4. Day(r.at) \in 0..Day(MaxTime)
  BY <1>1, DayIs
<1>5. daily' = [daily EXCEPT ![Day(r.at)] = [d \in Directions |-> @[d] + Delta(Latest, r.bytes)[d]]]
  BY DEF record_node_traffic
<1> QED BY <1>1, <1>3, <1>4, <1>5, CountedGrows

LEMMA TrafficTypedKept == TrafficTyped /\ [TrafficNext]_trafficVars => TrafficTyped'
<1> SUFFICES ASSUME TrafficTyped, [TrafficNext]_trafficVars PROVE TrafficTyped'
  OBVIOUS
<1>1. /\ \A d \in Directions : total[d] \in 0..MaxBytes /\ counters[d] \in 0..MaxBytes /\ counters[d] <= total[d]
      /\ NoBytes \in Bytes
  BY TrafficParameters DEF TrafficTyped, TrafficTypeOK, Bytes, NoBytes
<1>2. CASE UNCHANGED trafficVars
  BY <1>2 DEF trafficVars, TrafficTyped, TrafficTypeOK, CountedBytes
<1>3. ASSUME NEW d \in Directions, Passes(d) PROVE TrafficTyped'
  <2>1. counters[d] < MaxBytes
    BY <1>1, <1>3, TrafficParameters DEF Passes
  <2>2. total' \in Bytes /\ counters' \in Bytes /\ \A e \in Directions : counters'[e] <= total'[e]
    BY <1>1, <1>3, <2>1, TrafficParameters DEF Passes, TrafficTyped, TrafficTypeOK, Bytes
  <2> QED BY <1>3, <2>2 DEF Passes, TrafficTyped, TrafficTypeOK, CountedBytes
<1>4. CASE Restarts
  <2>1. restarts' \in 0..MaxRestarts
    BY <1>4, TrafficParameters DEF Restarts, TrafficTyped, TrafficTypeOK
  <2>2. \A d \in Directions : counters'[d] <= total'[d]
    BY <1>1, <1>4 DEF Restarts, NoBytes
  <2> QED BY <1>1, <1>4, <2>1, <2>2 DEF Restarts, TrafficTyped, TrafficTypeOK, CountedBytes
<1>5. CASE ClockMoves
  <2>0. clock' \in 0..MaxTime /\ sent' = IF clock' < clock THEN clock' - 1 ELSE sent
    BY <1>5 DEF ClockMoves
  <2>1. sent' \in -1..MaxTime
    <3>1. clock \in 0..MaxTime /\ sent \in -1..MaxTime /\ MaxTime \in Nat
      BY TrafficParameters DEF TrafficTyped, TrafficTypeOK
    <3>2. CASE clock' < clock
      <4>1. sent' = clock' - 1 /\ clock' \in 0..MaxTime
        BY <2>0, <3>2
      <4>2. MaxTime \in Nat
        BY TrafficParameters
      <4>3. \A n \in Nat : \A t \in 0..n : t - 1 \in -1..n
        OBVIOUS
      <4> QED BY <4>1, <4>2, <4>3
    <3>3. CASE ~(clock' < clock)
      BY <2>0, <3>1, <3>3
    <3> QED BY <3>2, <3>3
  <2> QED BY <1>5, <2>0, <2>1 DEF ClockMoves, TrafficTyped, TrafficTypeOK, CountedBytes
<1>6. CASE TakeSample
  <2>1. [at |-> clock, bytes |-> counters] \in Sample /\ clock \in -1..MaxTime
    BY DEF Sample, TrafficTyped, TrafficTypeOK
  <2> QED BY <1>6, <2>1 DEF TakeSample, TrafficTyped, TrafficTypeOK, CountedBytes
<1>7. ASSUME NEW r \in reports, IsLost(r) PROVE TrafficTyped'
  BY <1>7 DEF IsLost, TrafficTyped, TrafficTypeOK, CountedBytes
<1>8. ASSUME NEW r \in reports, NEW again \in BOOLEAN, record_node_traffic(r, again) PROVE TrafficTyped'
  <2>1. r \in Sample /\ daily' \in [0..Day(MaxTime) -> [Directions -> Nat]]
        /\ \A d \in Directions : IsFiniteSet(CountedBytes(d)')
    BY <1>8, RecordCounts
  <2>2. samples' = samples \cup {r} /\ reports' \subseteq reports /\ baseline' \in {r, baseline}
        /\ UNCHANGED <<clock, total, counters, restarts, sent>>
    BY <1>8 DEF record_node_traffic
  <2>3. TrafficTypeOK'
    BY <2>1, <2>2 DEF TrafficTyped, TrafficTypeOK
  <2>4. \E s \in samples' : \A t \in samples' : t.at <= s.at
    <3>1. r.at \in Int /\ \A s \in samples : s.at \in Int
      BY <2>1 DEF Sample, TrafficTyped, TrafficTypeOK
    <3>2. CASE samples = {}
      BY <2>2, <3>1, <3>2
    <3>3. CASE samples # {}
      <4>1. PICK s \in samples : \A t \in samples : t.at <= s.at
        BY <3>3 DEF TrafficTyped
      <4>2. CASE r.at <= s.at
        BY <2>2, <4>1, <4>2
      <4>3. CASE ~(r.at <= s.at)
        BY <2>2, <3>1, <4>1, <4>3
      <4> QED BY <4>2, <4>3
    <3> QED BY <3>2, <3>3
  <2> QED BY <2>1, <2>2, <2>3, <2>4 DEF TrafficTyped
<1>9. ASSUME NEW cutoff \in 1..clock, pruneNodeTrafficSamples(cutoff) PROVE TrafficTyped'
  <2>1. samples' = {s \in samples : s.at >= cutoff}
    BY <1>9 DEF pruneNodeTrafficSamples
  <2>2. samples' # {} => \E s \in samples' : \A t \in samples' : t.at <= s.at
    <3> SUFFICES ASSUME NEW x \in samples' PROVE \E s \in samples' : \A t \in samples' : t.at <= s.at
      OBVIOUS
    <3>1. PICK s \in samples : \A t \in samples : t.at <= s.at
      BY <2>1 DEF TrafficTyped
    <3>2. x.at <= s.at /\ x.at >= cutoff /\ x.at \in Int /\ s.at \in Int /\ cutoff \in Int
      BY <2>1, <3>1 DEF Sample, TrafficTyped, TrafficTypeOK
    <3> QED BY <2>1, <3>1, <3>2
  <2>3. baseline' \in {baseline, Broken}
    BY <1>9 DEF pruneNodeTrafficSamples
  <2> QED BY <1>9, <2>1, <2>2, <2>3 DEF pruneNodeTrafficSamples, TrafficTyped, TrafficTypeOK, CountedBytes
<1> QED BY <1>2, <1>3, <1>4, <1>5, <1>6, <1>7, <1>8, <1>9 DEF TrafficNext

-----------------------------------------------------------------------------
(* Traffic: the steps *)

\* What a proof about a step needs of the types.
LEMMA TrafficFacts ==
    ASSUME TrafficTyped
    PROVE  /\ counters \in Bytes /\ clock \in 0..MaxTime /\ sent \in -1..MaxTime
           /\ \A d \in Directions : total[d] \in 0..MaxBytes /\ counters[d] \in 0..MaxBytes /\ Counted(d) \in Nat
           /\ \A r \in Readings : r \in Sample /\ r.at \in 0..MaxTime /\ r.bytes \in Bytes
           /\ \A r \in Readings, d \in Directions : r.bytes[d] \in 0..MaxBytes
<1>1. \A d \in Directions : Counted(d) \in Nat
  BY FS_CardinalityType DEF TrafficTyped, Counted
<1>2. counters \in Bytes /\ total \in Bytes /\ clock \in 0..MaxTime /\ sent \in -1..MaxTime
  BY DEF TrafficTyped, TrafficTypeOK
<1>3. \A r \in Readings : r \in Sample
  BY DEF TrafficTyped, TrafficTypeOK, Readings
<1>4. \A r \in Sample : r.at \in 0..MaxTime /\ r.bytes \in Bytes
  BY DEF Sample
<1>5. \A bytes \in Bytes, d \in Directions : bytes[d] \in 0..MaxBytes
  BY DEF Bytes
<1> QED BY <1>1, <1>2, <1>3, <1>4, <1>5

\* Fewer readings, and nothing else, that had passed before are as before.
LEMMA FewerReadings ==
    ASSUME TrafficTyped, NEW passed \in [0..MaxTime -> Bytes], PassedFits(passed),
           Readings' \subseteq Readings, UNCHANGED <<total, counters>>,
           \A d \in Directions : Counted(d)' = Counted(d),
           \A r \in Readings' : (\A s \in samples' : s.at <= r.at) => \A s \in samples : s.at <= r.at
    PROVE  PassedFits(passed)'
<1>1. \A p, bytes : Delta(p, bytes)' = Delta(p, bytes)
  BY DEF Delta
<1>2. \A r \in Readings' : r \in Readings
  OBVIOUS
<1>3. ASSUME NEW r \in Readings', NEW d \in Directions
      PROVE  /\ passed[r.at][d] + Delta(r, counters')[d] <= total'[d]
             /\ \A s \in Readings' : r.at < s.at => passed[r.at][d] + Delta(r, s.bytes)[d] <= passed[s.at][d]
             /\ (\A s \in samples' : s.at <= r.at) => Counted(d)' <= passed[r.at][d]
  <2>1. r \in Readings /\ total' = total /\ counters' = counters /\ Counted(d)' = Counted(d)
    BY <1>2
  <2> QED BY <1>2, <2>1 DEF PassedFits
<1> QED BY <1>3 DEF PassedFits

\* What is counted by a reading that is recorded.
LEMMA RecordingFits ==
    ASSUME InOrder, TrafficTyped, ReadingsFit, NEW r \in reports, NEW again \in BOOLEAN, record_node_traffic(r, again),
           NEW passed \in [0..MaxTime -> Bytes], PassedFits(passed), NEW d \in Directions
    PROVE  Counted(d)' \in Nat /\ Counted(d)' <= passed[r.at][d]
<1>1. r \in Readings /\ \A s \in samples : s.at <= r.at
  BY DEF record_node_traffic, Readings
<1>2. r.bytes \in Bytes /\ r.at \in 0..MaxTime /\ r \in Sample
  BY <1>1, TrafficFacts
<1>3. Delta(Latest, r.bytes)[d] \in Nat /\ Counted(d) \in Nat /\ Counted(d)' = Counted(d) + Delta(Latest, r.bytes)[d]
  BY RecordCounts, TrafficParameters DEF Bytes
<1>4. Counted(d) <= passed[r.at][d]
  BY <1>1 DEF PassedFits
<1>5. CASE samples = {}
  <2>1. Latest = None
    BY <1>5 DEF Latest
  <2>2. Delta(Latest, r.bytes)[d] = 0
    BY <2>1 DEF Delta, NoBytes
  <2> QED BY <1>3, <1>4, <2>2
<1>6. CASE samples # {}
  <2>1. Latest \in samples /\ Latest \in Readings /\ \A s \in samples : s.at <= Latest.at
    BY <1>6, LatestIs DEF Readings
  <2>2. Latest.at \in 0..MaxTime /\ Latest.at <= r.at /\ Latest \in Sample
    BY <1>1, <2>1, TrafficFacts
  <2>3. CASE Latest.at = r.at
    <3>1. Latest = r
      BY <1>1, <2>1, <2>3 DEF ReadingsFit
    <3>2. Delta(r, r.bytes) = NoBytes
      BY <1>2, DeltaBounds
    <3>3. Delta(Latest, r.bytes)[d] = 0
      BY <3>1, <3>2 DEF NoBytes
    <3> QED BY <1>3, <1>4, <3>3
  <2>4. CASE Latest.at < r.at
    <3>1. passed[Latest.at][d] + Delta(Latest, r.bytes)[d] <= passed[r.at][d] /\ Counted(d) <= passed[Latest.at][d]
      BY <1>1, <2>1, <2>4 DEF PassedFits
    <3>2. passed[Latest.at][d] \in Nat /\ passed[r.at][d] \in Nat
      BY <1>2, <2>2, TrafficParameters DEF Bytes
    <3> QED BY <1>3, <3>1, <3>2
  <2>5. Latest.at = r.at \/ Latest.at < r.at
    BY <1>2, <2>2
  <2> QED BY <2>3, <2>4, <2>5
<1> QED BY <1>5, <1>6

LEMMA TrafficInvInit == TrafficInit => TrafficInv
<1> SUFFICES ASSUME TrafficInit PROVE TrafficInv
  OBVIOUS
<1>1. Readings = {} /\ samples = {} /\ baseline = None
  BY DEF TrafficInit, Readings
<1>2. \A d \in Directions : Counted(d) = 0 /\ total[d] = 0
  <2>1. \A d \in Directions : CountedBytes(d) = {}
    BY DEF TrafficInit, CountedBytes, NoBytes
  <2> QED BY <2>1, FS_EmptySet DEF Counted, TrafficInit, NoBytes
<1>3. ReadingsFit
  BY <1>1 DEF ReadingsFit, TrafficInit
<1>4. Unbroken
  BY <1>1, <1>2 DEF Unbroken
<1>5. [t \in 0..MaxTime |-> NoBytes] \in [0..MaxTime -> Bytes] /\ PassedFits([t \in 0..MaxTime |-> NoBytes])
  BY <1>1, TrafficParameters DEF PassedFits, NoBytes, Bytes
<1> QED BY <1>2, <1>3, <1>4, <1>5 DEF TrafficInv

LEMMA PassesKeeps ==
    ASSUME TrafficTyped, TrafficInv, NEW d \in Directions, Passes(d)
    PROVE  TrafficInv'
<1>1. UNCHANGED <<clock, reports, samples, daily, baseline, sent>> /\ Readings' = Readings
      /\ \A e \in Directions : Counted(e)' = Counted(e)
  BY DEF Passes, Readings, Counted, CountedBytes
<1>2. counters[d] < MaxBytes /\ counters' = [counters EXCEPT ![d] = @ + 1] /\ total' = [total EXCEPT ![d] = @ + 1]
  BY TrafficParameters DEF Passes, TrafficTyped, TrafficTypeOK, Bytes
<1>3. /\ counters'[d] = counters[d] + 1 /\ total'[d] = total[d] + 1
      /\ \A e \in Directions : e # d => counters'[e] = counters[e] /\ total'[e] = total[e]
  BY <1>2 DEF TrafficTyped, TrafficTypeOK, Bytes
<1>4. \A e \in Directions : counters[e] <= counters'[e] /\ total[e] <= total'[e] /\ counters'[e] \in Nat /\ total'[e] \in Nat
  BY <1>3, TrafficFacts
<1>5. ReadingsFit'
  BY <1>1 DEF TrafficInv, ReadingsFit
<1>6. Unbroken'
  <2>1. Latest' = Latest
    BY <1>1 DEF Latest
  <2>2. \A r \in Readings, e \in Directions : r.bytes[e] <= counters[e] => r.bytes[e] <= counters'[e]
    BY <1>4, TrafficFacts
  <2> QED BY <1>1, <2>1, <2>2 DEF TrafficInv, Unbroken
<1>7. \A e \in Directions : Counted(e)' <= total'[e]
  BY <1>1, <1>4, TrafficFacts DEF TrafficInv
<1>8. PICK passed \in [0..MaxTime -> Bytes] : PassedFits(passed)
  BY DEF TrafficInv
<1>9. ASSUME NEW r \in Readings, NEW e \in Directions
      PROVE  passed[r.at][e] + Delta(r, counters')[e] <= total'[e]
  <2>1. r \in Sample /\ counters \in Bytes /\ passed[r.at] \in Bytes
    BY TrafficFacts
  <2>2. counters' \in Bytes /\ Delta(r, counters) \in Bytes
    BY <1>2, <2>1, DeltaBounds, DeltaOfOneMore
  <2>3. Delta(r, counters') \in Bytes
    BY <2>1, <2>2, DeltaBounds
  <2>4. /\ passed[r.at][e] \in 0..MaxBytes /\ Delta(r, counters)[e] \in 0..MaxBytes /\ Delta(r, counters')[e] \in 0..MaxBytes
        /\ total[e] \in 0..MaxBytes
    BY <2>1, <2>2, <2>3, TrafficFacts DEF Bytes
  <2>5. passed[r.at][e] + Delta(r, counters)[e] <= total[e]
    BY <1>8 DEF PassedFits
  <2>6. Delta(r, counters')[e] <= Delta(r, counters)[e] + (IF e = d THEN 1 ELSE 0)
    <3>1. CASE e = d
      BY <1>2, <2>1, <3>1, DeltaOfOneMore
    <3>2. CASE e # d
      <4>1. Delta(r, counters')[e] <= Delta(r, counters)[e]
        BY <1>2, <2>1, <3>2, DeltaOfOneMore
      <4> QED BY <2>4, <3>2, <4>1
    <3> QED BY <3>1, <3>2
  <2> QED BY <1>3, <2>4, <2>5, <2>6
<1>10. PassedFits(passed)'
  <2>1. \A p, bytes : Delta(p, bytes)' = Delta(p, bytes)
    BY DEF Delta
  <2> QED BY <1>1, <1>8, <1>9 DEF PassedFits
<1> QED BY <1>5, <1>6, <1>7, <1>8, <1>10 DEF TrafficInv

LEMMA RestartsKeeps ==
    ASSUME TrafficTyped, TrafficInv, Restarts
    PROVE  TrafficInv'
<1>1. UNCHANGED <<clock, total, reports, samples, daily, sent>> /\ Readings' = Readings /\ baseline' = Broken
      /\ counters' = NoBytes /\ \A e \in Directions : Counted(e)' = Counted(e)
  BY DEF Restarts, Readings, Counted, CountedBytes
<1>2. ReadingsFit' /\ Unbroken' /\ \A e \in Directions : Counted(e)' <= total'[e]
  BY <1>1 DEF TrafficInv, ReadingsFit, Unbroken
<1>3. PICK passed \in [0..MaxTime -> Bytes] : PassedFits(passed)
  BY DEF TrafficInv
<1>4. ASSUME NEW r \in Readings, NEW d \in Directions
      PROVE  passed[r.at][d] + Delta(r, NoBytes)[d] <= total[d]
  <2>1. r \in Sample /\ counters \in Bytes /\ passed[r.at] \in Bytes /\ NoBytes \in Bytes
    BY TrafficFacts, TrafficParameters DEF NoBytes, Bytes
  <2>2. \A e \in Directions : r.bytes[e] \in Nat /\ NoBytes[e] = 0
    BY TrafficFacts DEF NoBytes
  <2>3. Delta(r, NoBytes)[d] = 0
    <3>1. CASE r.bytes = NoBytes
      BY <2>1, <3>1, DeltaBounds DEF NoBytes
    <3>2. CASE r.bytes # NoBytes
      <4>1. \E e \in Directions : r.bytes[e] # 0
        <5>1. r.bytes \in Bytes
          BY TrafficFacts
        <5>2. r.bytes = [e \in Directions |-> r.bytes[e]]
          BY <5>1 DEF Bytes
        <5> QED BY <3>2, <5>2 DEF NoBytes
      <4>2. \E e \in Directions : NoBytes[e] < r.bytes[e]
        BY <2>2, <4>1
      <4>3. r # None
        BY <2>1 DEF None, Sample
      <4> QED BY <2>2, <4>2, <4>3 DEF Delta
    <3> QED BY <3>1, <3>2
  <2>4. Delta(r, counters) \in Bytes
    BY <2>1, DeltaBounds
  <2>5. Delta(r, counters)[d] \in 0..MaxBytes /\ passed[r.at][d] \in 0..MaxBytes /\ total[d] \in 0..MaxBytes
    BY <2>1, <2>4, TrafficFacts DEF Bytes
  <2>6. passed[r.at][d] + Delta(r, counters)[d] <= total[d]
    BY <1>3 DEF PassedFits
  <2> QED BY <2>3, <2>5, <2>6
<1>5. PassedFits(passed)'
  <2>1. \A p, bytes : Delta(p, bytes)' = Delta(p, bytes)
    BY DEF Delta
  <2> QED BY <1>1, <1>3, <1>4, <2>1 DEF PassedFits
<1> QED BY <1>2, <1>3, <1>5 DEF TrafficInv

LEMMA TakeSampleKeeps ==
    ASSUME TrafficTyped, TrafficInv, TakeSample
    PROVE  TrafficInv'
<1> DEFINE x == [at |-> clock, bytes |-> counters]
<1>1. UNCHANGED <<clock, total, counters, samples, daily, baseline>> /\ Readings' = Readings \cup {x}
      /\ sent' = clock /\ sent < clock /\ \A e \in Directions : Counted(e)' = Counted(e)
  BY DEF TakeSample, Readings, Counted, CountedBytes
<1>2. x.at = clock /\ x.bytes = counters
  OBVIOUS
<1> HIDE DEF x
<1>3. \A r \in Readings : r.at < clock /\ r.at # clock /\ r.at \in 0..MaxTime /\ r.at <= sent
  BY <1>1, TrafficFacts DEF TrafficInv, ReadingsFit
<1>4. ReadingsFit'
  <2>1. \A r \in Readings' : r.at <= sent' /\ \A s \in Readings' : r.at = s.at => r = s
    <3>1. \A r \in Readings' : r.at <= sent'
      BY <1>1, <1>2, <1>3, TrafficFacts
    <3>2. \A r, s \in Readings : r.at = s.at => r = s
      BY DEF TrafficInv, ReadingsFit
    <3> QED BY <1>1, <1>2, <1>3, <3>1, <3>2
  <2>2. sent' <= clock'
    BY <1>1, TrafficFacts
  <2> QED BY <2>1, <2>2 DEF ReadingsFit
<1>5. Unbroken'
  <2>1. Latest' = Latest
    BY <1>1 DEF Latest
  <2>2. ASSUME baseline # Broken, NEW r \in Readings', NEW d \in Directions
        PROVE  r.bytes[d] <= counters'[d] /\ \A s \in Readings' : r.at <= s.at => r.bytes[d] <= s.bytes[d]
    <3>1. \A s \in Readings : s.bytes[d] <= counters[d]
      BY <2>2 DEF TrafficInv, Unbroken
    <3>2. counters[d] <= counters[d]
      BY TrafficFacts
    <3>3. CASE r \in Readings
      BY <1>1, <1>2, <2>2, <3>1, <3>3 DEF TrafficInv, Unbroken
    <3>4. CASE r = x
      <4>1. \A s \in Readings : ~(clock <= s.at)
        BY <1>3, TrafficFacts
      <4> QED BY <1>1, <1>2, <3>2, <3>4, <4>1
    <3> QED BY <1>1, <3>3, <3>4
  <2> QED BY <1>1, <2>1, <2>2 DEF TrafficInv, Unbroken
<1>6. \A e \in Directions : Counted(e)' <= total'[e]
  BY <1>1 DEF TrafficInv
<1>7. PICK passed \in [0..MaxTime -> Bytes] : PassedFits(passed)
  BY DEF TrafficInv
<1>8. PICK upTo \in [0..MaxTime -> Bytes] : upTo[clock] = total /\ \A r \in Readings : upTo[r.at] = passed[r.at]
  <2>1. [passed EXCEPT ![clock] = total] \in [0..MaxTime -> Bytes] /\ clock \in 0..MaxTime
    BY DEF TrafficTyped, TrafficTypeOK
  <2> QED BY <1>3, <2>1
<1>9. PassedFits(upTo)'
  <2>1. \A p, bytes : Delta(p, bytes)' = Delta(p, bytes)
    BY DEF Delta
  <2>2. ASSUME NEW r \in Readings', NEW d \in Directions
        PROVE  /\ upTo[r.at][d] + Delta(r, counters)[d] <= total[d]
               /\ \A s \in Readings' : r.at < s.at => upTo[r.at][d] + Delta(r, s.bytes)[d] <= upTo[s.at][d]
               /\ (\A s \in samples : s.at <= r.at) => Counted(d) <= upTo[r.at][d]
    <3>1. CASE r \in Readings
      <4>1. /\ passed[r.at][d] + Delta(r, counters)[d] <= total[d]
            /\ \A s \in Readings : r.at < s.at => passed[r.at][d] + Delta(r, s.bytes)[d] <= passed[s.at][d]
            /\ (\A s \in samples : s.at <= r.at) => Counted(d) <= passed[r.at][d]
        BY <1>7, <3>1 DEF PassedFits
      <4> QED BY <1>1, <1>2, <1>8, <3>1, <4>1
    <3>2. CASE r = x
      <4>1. x \in Sample /\ counters \in Bytes
        BY TrafficFacts DEF x, Sample
      <4>2. Delta(x, counters) = NoBytes
        BY <1>2, <4>1, DeltaBounds
      <4>3. Delta(x, counters)[d] = 0 /\ total[d] \in Nat
        BY <4>2, TrafficFacts DEF NoBytes
      <4>4. \A s \in Readings' : ~(clock < s.at)
        BY <1>1, <1>2, <1>3, TrafficFacts
      <4>5. Counted(d) <= total[d]
        BY DEF TrafficInv
      <4>6. r.at = clock /\ upTo[r.at] = total /\ Delta(r, counters)[d] = 0
        BY <1>2, <1>8, <3>2, <4>3
      <4>7. total[d] + 0 <= total[d]
        BY <4>3
      <4> QED BY <4>4, <4>5, <4>6, <4>7
    <3> QED BY <1>1, <3>1, <3>2
  <2> QED BY <1>1, <2>1, <2>2 DEF PassedFits
<1> QED BY <1>4, <1>5, <1>6, <1>8, <1>9 DEF TrafficInv

LEMMA RecordKeeps ==
    ASSUME InOrder, TrafficTyped, TrafficTyped', TrafficInv, NEW r \in reports, NEW again \in BOOLEAN,
           record_node_traffic(r, again)
    PROVE  TrafficInv'
<1>1. /\ samples' = samples \cup {r} /\ Readings' \subseteq Readings /\ r \in Readings /\ r \in Readings'
      /\ UNCHANGED <<clock, total, counters, sent>> /\ baseline' = IF baseline = None THEN r ELSE baseline
      /\ \A s \in samples : s.at <= r.at
  BY DEF record_node_traffic, Readings
<1>2. ReadingsFit /\ ReadingsFit'
  BY <1>1 DEF TrafficInv, ReadingsFit
<1>3. Latest' = r
  <2>1. Latest' \in samples' /\ \A t \in samples' : t.at <= Latest'.at
    <3>1. Latest' = CHOOSE s \in samples' : \A t \in samples' : t.at <= s.at
      BY <1>1 DEF Latest
    <3>2. \E s \in samples' : \A t \in samples' : t.at <= s.at
      BY <1>1 DEF TrafficTyped
    <3> QED BY <3>1, <3>2
  <2>2. Latest'.at <= r.at /\ r.at <= Latest'.at /\ Latest' \in Readings'
    <3>1. r.at <= r.at
      BY <1>1, TrafficFacts
    <3> QED BY <1>1, <2>1, <3>1 DEF Readings
  <2>3. Latest'.at = r.at
    BY <1>1, <2>2, TrafficFacts
  <2> QED BY <1>1, <1>2, <2>2, <2>3 DEF ReadingsFit
<1>4. \A d \in Directions : /\ Delta(Latest, r.bytes)[d] \in Nat /\ Counted(d) \in Nat
                            /\ Counted(d)' = Counted(d) + Delta(Latest, r.bytes)[d]
  BY RecordCounts, TrafficParameters DEF Bytes
<1>5. Unbroken'
  <2> SUFFICES ASSUME baseline' # Broken
               PROVE  /\ \A s \in Readings', d \in Directions :
                             /\ s.bytes[d] <= counters'[d]
                             /\ \A t \in Readings' : s.at <= t.at => s.bytes[d] <= t.bytes[d]
                      /\ baseline' # None /\ samples' # {}
                      /\ \A d \in Directions : Counted(d)' = Latest'.bytes[d] - baseline'.bytes[d]
    BY DEF Unbroken
  <2>1. baseline # Broken
    BY <1>1 DEF None, Broken
  <2>2. r \in Sample /\ r # None
    BY <1>1, TrafficFacts DEF None, Sample
  <2>3. baseline' # None /\ samples' # {}
    BY <1>1, <2>2
  <2>4. \A s \in Readings', d \in Directions :
            /\ s.bytes[d] <= counters'[d]
            /\ \A t \in Readings' : s.at <= t.at => s.bytes[d] <= t.bytes[d]
    BY <1>1, <2>1 DEF TrafficInv, Unbroken
  <2>5. ASSUME NEW d \in Directions PROVE Counted(d)' = r.bytes[d] - baseline'.bytes[d]
    <3>1. r.bytes[d] \in 0..MaxBytes
      BY <1>1, TrafficFacts
    <3>2. CASE baseline = None
      <4>1. samples = {} /\ Counted(d) = 0
        BY <2>1, <3>2 DEF TrafficInv, Unbroken
      <4>2. Delta(Latest, r.bytes)[d] = 0
        BY <4>1 DEF Latest, Delta, NoBytes
      <4> QED BY <1>1, <1>4, <3>1, <3>2, <4>1, <4>2
    <3>3. CASE baseline # None
      <4>1. samples # {} /\ Counted(d) = Latest.bytes[d] - baseline.bytes[d] /\ baseline' = baseline
        BY <1>1, <2>1, <3>3 DEF TrafficInv, Unbroken
      <4>2. Latest \in samples /\ Latest \in Readings
        BY <4>1, LatestIs DEF Readings
      <4>3. \A e \in Directions : Latest.bytes[e] <= r.bytes[e]
        BY <1>1, <2>1, <4>2 DEF TrafficInv, Unbroken
      <4>4. Latest \in Sample /\ r.bytes \in Bytes /\ Latest.bytes[d] \in 0..MaxBytes
        BY <1>1, <4>2, TrafficFacts
      <4>5. Delta(Latest, r.bytes)[d] = r.bytes[d] - Latest.bytes[d]
        BY <4>3, <4>4, DeltaBounds
      <4>6. baseline \in Sample
        BY <2>1, <3>3 DEF TrafficTyped, TrafficTypeOK
      <4>7. baseline.bytes[d] \in 0..MaxBytes
        BY <4>6 DEF Sample, Bytes
      <4>8. \A a, b, c \in 0..MaxBytes : (a - b) + (c - a) = c - b
        BY TrafficParameters
      <4> QED BY <1>4, <3>1, <4>1, <4>4, <4>5, <4>7, <4>8
    <3> QED BY <3>2, <3>3
  <2> QED BY <1>3, <2>3, <2>4, <2>5
<1>6. PICK passed \in [0..MaxTime -> Bytes] : PassedFits(passed)
  BY DEF TrafficInv
<1>7. \A d \in Directions : Counted(d)' \in Nat /\ Counted(d)' <= passed[r.at][d]
  BY <1>2, <1>6, RecordingFits
<1>8. \A s \in Readings, bytes \in Bytes, d \in Directions : Delta(s, bytes)[d] \in Nat /\ passed[s.at][d] \in Nat
  <2>1. \A s \in Readings : s \in Sample \cup {None} /\ passed[s.at] \in Bytes
    BY TrafficFacts
  <2>2. \A p \in Sample \cup {None}, bytes \in Bytes : Delta(p, bytes) \in Bytes
    BY DeltaBounds
  <2>3. \A bytes \in Bytes, d \in Directions : bytes[d] \in Nat
    BY TrafficParameters DEF Bytes
  <2> QED BY <2>1, <2>2, <2>3
<1>9. \A d \in Directions : Counted(d)' <= total'[d]
  <2> TAKE d \in Directions
  <2>1. passed[r.at][d] + Delta(r, counters)[d] <= total[d]
    BY <1>1, <1>6 DEF PassedFits
  <2>2. Delta(r, counters)[d] \in Nat /\ passed[r.at][d] \in Nat /\ total[d] \in Nat
    BY <1>1, <1>8, TrafficFacts
  <2> QED BY <1>1, <1>7, <2>1, <2>2
<1>10. PassedFits(passed)'
  <2>1. \A p, bytes : Delta(p, bytes)' = Delta(p, bytes)
    BY DEF Delta
  <2>2. ASSUME NEW s \in Readings', NEW d \in Directions, \A t \in samples' : t.at <= s.at
        PROVE  Counted(d)' <= passed[s.at][d]
    <3>1. s \in Readings /\ r.at <= s.at /\ r.at \in 0..MaxTime /\ s.at \in 0..MaxTime /\ s.bytes \in Bytes
      BY <1>1, <2>2, TrafficFacts
    <3>2. CASE r.at = s.at
      BY <1>7, <3>2
    <3>3. CASE r.at < s.at
      <4>1. passed[r.at][d] + Delta(r, s.bytes)[d] <= passed[s.at][d]
        BY <1>1, <1>6, <3>1, <3>3 DEF PassedFits
      <4>2. Delta(r, s.bytes)[d] \in Nat /\ passed[r.at][d] \in Nat /\ passed[s.at][d] \in Nat
        BY <1>1, <1>8, <3>1
      <4> QED BY <1>7, <4>1, <4>2
    <3> QED BY <3>1, <3>2, <3>3
  <2>3. ASSUME NEW s \in Readings', NEW d \in Directions
        PROVE  /\ passed[s.at][d] + Delta(s, counters)[d] <= total[d]
               /\ \A t \in Readings' : s.at < t.at => passed[s.at][d] + Delta(s, t.bytes)[d] <= passed[t.at][d]
    BY <1>1, <1>6 DEF PassedFits
  <2> QED BY <1>1, <2>1, <2>2, <2>3 DEF PassedFits
<1> QED BY <1>2, <1>5, <1>6, <1>9, <1>10 DEF TrafficInv

LEMMA ForgettingKeeps ==
    ASSUME TrafficTyped, TrafficInv,
           \/ \E r \in reports : IsLost(r)
           \/ \E cutoff \in 1..clock : pruneNodeTrafficSamples(cutoff)
    PROVE  TrafficInv'
<1>1. /\ Readings' \subseteq Readings /\ samples' \subseteq samples /\ UNCHANGED <<clock, total, counters, daily, sent>>
      /\ \/ samples' = samples /\ baseline' = baseline
         \/ baseline' = IF samples' = {} THEN Broken ELSE baseline
  BY DEF IsLost, pruneNodeTrafficSamples, Readings
<1>2. \A d \in Directions : Counted(d)' = Counted(d)
  BY <1>1 DEF Counted, CountedBytes
<1>3. \A r \in Readings' : (\A s \in samples' : s.at <= r.at) => \A s \in samples : s.at <= r.at
  <2>1. CASE \E r \in reports : IsLost(r)
    BY <2>1 DEF IsLost
  <2>2. ASSUME NEW cutoff \in 1..clock, pruneNodeTrafficSamples(cutoff)
        PROVE  \A r \in Readings' : (\A s \in samples' : s.at <= r.at) => \A s \in samples : s.at <= r.at
    <3>1. \A r \in Readings' : r.at >= cutoff /\ r \in Readings
      BY <2>2 DEF pruneNodeTrafficSamples, Readings
    <3>2. \A s \in samples : s \in samples' \/ ~(s.at >= cutoff)
      BY <2>2 DEF pruneNodeTrafficSamples
    <3>3. \A s \in Readings : s.at \in Int /\ cutoff \in Int
      BY TrafficFacts
    <3>4. \A s \in samples : s \in Readings
      BY DEF Readings
    <3>5. \A a, b, c \in Int : a >= b /\ ~(c >= b) => c <= a
      OBVIOUS
    <3> QED BY <3>1, <3>2, <3>3, <3>4, <3>5
  <2> QED BY <2>1, <2>2
<1>4. ReadingsFit'
  BY <1>1 DEF TrafficInv, ReadingsFit
<1>5. Unbroken'
  <2> SUFFICES ASSUME baseline' # Broken PROVE Unbroken'
    BY DEF Unbroken
  <2>1. baseline' = baseline /\ (samples' = samples \/ samples' # {})
    BY <1>1
  <2>2. Latest' = Latest
    <3>1. CASE samples' = samples
      BY <3>1 DEF Latest
    <3>2. CASE samples' # samples
      <4>1. PICK cutoff \in 1..clock : pruneNodeTrafficSamples(cutoff)
        BY <3>2 DEF IsLost
      <4>2. samples' = {s \in samples : s.at >= cutoff} /\ samples' # {}
        BY <2>1, <3>2, <4>1 DEF pruneNodeTrafficSamples
      <4>3. Latest \in samples /\ \A t \in samples : t.at <= Latest.at
        BY <4>2, LatestIs
      <4>4. \A s \in samples : s \in Readings /\ s.at \in Int /\ cutoff \in Int
        BY TrafficFacts DEF Readings
      <4>5. PICK s \in samples : s.at >= cutoff
        BY <4>2
      <4>6. Latest.at >= cutoff
        BY <4>3, <4>4, <4>5
      <4>7. Latest \in samples' /\ \A t \in samples' : t.at <= Latest.at
        BY <4>2, <4>3, <4>6
      <4>8. Latest' \in samples' /\ \A t \in samples' : t.at <= Latest'.at
        <5>1. Latest' = CHOOSE u \in samples' : \A t \in samples' : t.at <= u.at
          BY <4>2 DEF Latest
        <5>2. \E u \in samples' : \A t \in samples' : t.at <= u.at
          BY <4>7
        <5> QED BY <5>1, <5>2
      <4>9. Latest'.at = Latest.at /\ Latest' \in Readings /\ Latest \in Readings
        BY <1>1, <4>3, <4>4, <4>7, <4>8
      <4> QED BY <4>9 DEF TrafficInv, ReadingsFit
    <3> QED BY <3>1, <3>2
  <2>3. samples # {} => samples' # {}
    BY <2>1
  <2> QED BY <1>1, <1>2, <2>1, <2>2, <2>3 DEF TrafficInv, Unbroken
<1>6. PICK passed \in [0..MaxTime -> Bytes] : PassedFits(passed)
  BY DEF TrafficInv
<1>7. PassedFits(passed)'
  BY <1>1, <1>2, <1>3, <1>6, FewerReadings
<1>8. \A d \in Directions : Counted(d)' <= total'[d]
  BY <1>1, <1>2 DEF TrafficInv
<1> QED BY <1>4, <1>5, <1>6, <1>7, <1>8 DEF TrafficInv

LEMMA TrafficInvKept ==
    ASSUME InOrder, SteadyClock, TrafficTyped, TrafficTyped', TrafficInv, [TrafficNext]_trafficVars
    PROVE  TrafficInv'
<1>1. CASE UNCHANGED trafficVars \/ ClockMoves
  <2>1. /\ UNCHANGED <<total, counters, reports, samples, daily, baseline, sent>> /\ Readings' = Readings
        /\ sent' <= clock'
    <3>1. CASE UNCHANGED trafficVars
      BY <3>1 DEF trafficVars, Readings, TrafficInv, ReadingsFit
    <3>2. CASE ClockMoves
      <4>1. clock' = clock + 1
        BY <3>2 DEF ClockMoves
      <4>2. clock \in Int /\ sent \in Int /\ sent <= clock
        BY TrafficFacts DEF TrafficInv, ReadingsFit
      <4>3. ~(clock' < clock) /\ sent <= clock'
        BY <4>1, <4>2
      <4> QED BY <3>2, <4>3 DEF ClockMoves, Readings
    <3> QED BY <1>1, <3>1, <3>2
  <2>2. \A d \in Directions : Counted(d)' = Counted(d)
    BY <2>1 DEF Counted, CountedBytes
  <2>3. ReadingsFit' /\ Unbroken'
    BY <2>1, <2>2 DEF TrafficInv, ReadingsFit, Unbroken, Latest
  <2>4. PICK passed \in [0..MaxTime -> Bytes] : PassedFits(passed)
    BY DEF TrafficInv
  <2>5. PassedFits(passed)'
    BY <2>1, <2>2, <2>4, FewerReadings
  <2> QED BY <2>1, <2>2, <2>3, <2>4, <2>5 DEF TrafficInv
<1>2. ASSUME NEW d \in Directions, Passes(d) PROVE TrafficInv'
  BY <1>2, PassesKeeps
<1>3. CASE Restarts
  BY <1>3, RestartsKeeps
<1>4. CASE TakeSample
  BY <1>4, TakeSampleKeeps
<1>5. ASSUME NEW r \in reports, NEW again \in BOOLEAN, record_node_traffic(r, again) PROVE TrafficInv'
  BY <1>5, RecordKeeps
<1>6. CASE (\E r \in reports : IsLost(r)) \/ \E cutoff \in 1..clock : pruneNodeTrafficSamples(cutoff)
  BY <1>6, ForgettingKeeps
<1> QED BY <1>1, <1>2, <1>3, <1>4, <1>5, <1>6 DEF TrafficNext

\* The counters, samples, days and clocks keep their types, in any order and on any clock.
THEOREM TrafficTypeCorrect == TrafficSpec => []TrafficTypeOK
<1>1. TrafficTyped => TrafficTypeOK
  BY DEF TrafficTyped
<1> QED BY <1>1, TrafficTypedInit, TrafficTypedKept, PTL DEF TrafficSpec

\* For any traffic, restarts, losses, repetitions and retention: the days never have more than passed through
\* the node, and exactly what passed between the first and the last sample while nothing was
\* restarted or forgotten, when reports come in order and the clock is steady.  (record_node_traffic)
THEOREM TrafficCorrect ==
    ASSUME InOrder, SteadyClock
    PROVE  TrafficSpec => []TrafficIsTruthful
<1>1. TrafficTyped /\ TrafficInv /\ [TrafficNext]_trafficVars => TrafficTyped' /\ TrafficInv'
  BY TrafficTypedKept, TrafficInvKept
<1>2. TrafficInv => TrafficIsTruthful
  <2> SUFFICES ASSUME TrafficInv PROVE TrafficIsTruthful
    OBVIOUS
  <2>1. \A d \in Directions : Counted(d) <= total[d]
    BY DEF TrafficInv
  <2>2. ASSUME baseline \notin {None, Broken}, NEW d \in Directions
        PROVE  Counted(d) = Latest.bytes[d] - baseline.bytes[d]
    BY <2>2 DEF TrafficInv, Unbroken
  <2> QED BY <2>1, <2>2 DEF TrafficIsTruthful
<1> QED BY <1>1, <1>2, TrafficTypedInit, TrafficInvInit, PTL DEF TrafficSpec
=============================================================================
