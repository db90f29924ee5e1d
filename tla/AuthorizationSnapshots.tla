-------------------------- MODULE AuthorizationSnapshots --------------------------
(***************************************************************************)
(* The compatibility credentials of external VPN clients on one node:      *)
(* issuing, rotation and revocation (the SQL functions of                  *)
(* 20261012000000 to 20261019000000), the numbered snapshots the node's    *)
(* agent polls and acknowledges (authorizations.js), and what the          *)
(* subscription URL publishes meanwhile (sub/[token].js).                  *)
(*                                                                         *)
(* A credential is a client and a generation.  Each function is one        *)
(* transaction.  A poll is two reads: the snapshot, then the entitlement   *)
(* that is laid over it.  The agent is outside this repository; migration  *)
(* 20261019000000 says of it that it refuses a changed snapshot at an      *)
(* unchanged revision, and a crash may drop its answer at any time.        *)
(***************************************************************************)
EXTENDS Integers, FiniteSets

CONSTANTS
    Clients,        \* external VPN clients
    MaxGeneration,  \* bound: generations of a client's credential
    MaxFlips,       \* bound: how often entitlement changes
    MaxRevision,    \* bound: revisions of the snapshot
    TornReads       \* entitlement may change between the two reads of a poll

ASSUME SnapshotParameters ==
    /\ {MaxFlips, MaxRevision} \subseteq Nat /\ MaxGeneration \in Nat \ {0}
    /\ TornReads \in BOOLEAN

Credential == Clients \X (1..MaxGeneration)
Revision == 0..MaxRevision

VARIABLES
    client,    \* [Clients -> "none", "active", "revoked"]: external_vpn_devices
    entitled,  \* what device_entitlement says of a client that is not revoked
    flips,
    auth,      \* [Credential -> ...]: compatibility_authorizations, and the credentials themselves
    required,  \* [Credential -> Revision]: compatibility_authorization_deployments
    state,     \* compatibility_authorization_node_state
    poll,      \* the agent's request
    node       \* what the node enforces

snapshotVars == <<client, entitled, flips, auth, required, state, poll, node>>
issued == <<client, auth, required>>

\* short: bounded to the overlap of a rotation.  accepts: the credentials of a snapshot that are not revoked.
SnapshotTypeOK ==
    /\ client \in [Clients -> {"none", "active", "revoked"}]
    /\ entitled \subseteq Clients /\ flips \in 0..MaxFlips
    /\ auth \in [Credential -> {"none", "live", "short", "expired", "revoked", "pruned"}]
    /\ required \in [Credential -> Revision]
    /\ state \in [desired : Revision, applied : Revision, digest : SUBSET Credential, rows : SUBSET Credential]
    /\ poll \in [pc : {"idle", "read", "answered", "applied"}, revision : Revision, accepts : SUBSET Credential]
    /\ node \in [revision : Revision, accepts : SUBSET Credential]
    /\ state.applied <= node.revision

-----------------------------------------------------------------------------
(* Issuing *)

UsableStates == {"live", "short"}
Generations(c) == {g \in 1..MaxGeneration : auth[<<c, g>>] # "none"}

\* advance_compatibility_authorization_snapshot: every row that is written takes a revision of its
\* own, and is required from that one on.
Advance(rows) ==
    /\ state.desired + Cardinality(rows) <= MaxRevision
    /\ state' = [state EXCEPT !.desired = @ + Cardinality(rows)]
    /\ \E order \in [rows -> 1..Cardinality(rows)] :
           /\ \A q, r \in rows : order[q] = order[r] => q = r
           /\ required' = [r \in Credential |-> IF r \in rows THEN state.desired + order[r] ELSE required[r]]

\* create_external_vpn_device, for an entitled subscription with a free place.
create_external_vpn_device(c) ==
    /\ client[c] = "none"
    /\ client' = [client EXCEPT ![c] = "active"]
    /\ entitled' = entitled \cup {c}
    /\ auth' = [auth EXCEPT ![<<c, 1>>] = "live"]
    /\ Advance({<<c, 1>>})
    /\ UNCHANGED <<flips, poll, node>>

\* rotate_compatibility_credential: the generation before is bounded to the overlap, a new one is
\* inserted; a third usable one is refused (limit_compatibility_credentials).
rotate_compatibility_credential(c) ==
    LET bounded == {r \in Credential : r[1] = c /\ auth[r] = "live"}
        new == <<c, Cardinality(Generations(c)) + 1>>
    IN /\ client[c] = "active" /\ new \in Credential
       /\ Cardinality({r \in Credential : r[1] = c /\ auth[r] \in UsableStates}) < 2
       /\ auth' = [r \in Credential |-> IF r = new THEN "live" ELSE IF r \in bounded THEN "short" ELSE auth[r]]
       /\ Advance(bounded \cup {new})
       /\ UNCHANGED <<client, entitled, flips, poll, node>>

\* revoke_external_vpn_device: every row of the client, expired ones too.
revoke_external_vpn_device(c) ==
    LET rows == {r \in Credential : r[1] = c /\ auth[r] # "none"}
    IN /\ client[c] = "active"
       /\ client' = [client EXCEPT ![c] = "revoked"]
       /\ auth' = [r \in Credential |-> IF r \in rows THEN "revoked" ELSE auth[r]]
       /\ Advance(rows)
       /\ UNCHANGED <<entitled, flips, poll, node>>

\* Seven days, or the overlap, pass.  No row is written, and nothing renews a credential.
ExpireCredential(r) ==
    /\ auth[r] \in UsableStates
    /\ \A h \in 1..(r[2] - 1) : auth[<<r[1], h>>] # "short"
    /\ auth' = [auth EXCEPT ![r] = "expired"]
    /\ UNCHANGED <<client, entitled, flips, required, state, poll, node>>

\* Retention, a week after the revocation: the row goes, and its deployment with it, at one more revision.
pruneCompatibilityAuthorizations(r) ==
    /\ auth[r] = "revoked" /\ state.desired < MaxRevision
    /\ auth' = [auth EXCEPT ![r] = "pruned"] /\ required' = [required EXCEPT ![r] = 0]
    /\ state' = [state EXCEPT !.desired = @ + 1]
    /\ UNCHANGED <<client, entitled, flips, poll, node>>

\* Billing, suspension, grace: no row of the authorizations changes.
EntitlementChanges(c) ==
    /\ client[c] = "active" /\ flips < MaxFlips /\ (poll.pc = "read" => TornReads)
    /\ flips' = flips + 1
    /\ entitled' = (entitled \ {c}) \cup ({c} \ entitled)
    /\ UNCHANGED <<issued, state, poll, node>>

-----------------------------------------------------------------------------
(* The agent's polls *)

SnapshotRows == {r \in Credential : auth[r] \notin {"none", "pruned"}}
EntitledRows == {r \in SnapshotRows : client[r[1]] = "active" /\ r[1] \in entitled}

\* As if the digest left the entitlement out.
DigestIsCurrent_RowsOnly == state.rows = SnapshotRows
\* get_compatibility_authorization_snapshot_synced compares digests of the rows and their entitlement.
DigestIsCurrent == state.digest = EntitledRows /\ state.rows = SnapshotRows

\* The digest and a new revision are stored where they differ.
readSnapshot ==
    IF DigestIsCurrent \/ SnapshotRows = {} THEN UNCHANGED state
    ELSE /\ state.desired < MaxRevision
         /\ state' = [state EXCEPT !.desired = @ + 1, !.digest = EntitledRows, !.rows = SnapshotRows]
PollSnapshot ==
    /\ poll.pc = "idle"
    /\ readSnapshot
    /\ poll' = [pc |-> "read", revision |-> state'.desired, accepts |-> {r \in SnapshotRows : auth[r] # "revoked"}]
    /\ UNCHANGED <<issued, entitled, flips, node>>

\* projectAuthorizations: a row whose client is revoked or not entitled goes out as revoked.
projectAuthorizations ==
    /\ poll.pc = "read"
    /\ poll' = [poll EXCEPT !.pc = "answered", !.accepts = {r \in @ : client[r[1]] = "active" /\ r[1] \in entitled}]
    /\ UNCHANGED <<issued, entitled, flips, state, node>>

\* The tag names the revision and every row as it goes out; the agent sends that of what it applied and
\* is told that nothing is new.
snapshotEtag(a) == <<a.revision, a.accepts>>
respondConditionally == IF snapshotEtag(node) = snapshotEtag(poll) THEN "not modified" ELSE "body"

\* The agent applies a newer revision, and acknowledges one that it has.
Apply ==
    /\ poll.pc = "answered"
    /\ IF poll.revision > node.revision
       THEN /\ node' = [revision |-> poll.revision, accepts |-> poll.accepts]
            /\ poll' = [poll EXCEPT !.pc = "applied"]
       ELSE /\ UNCHANGED node
            /\ poll' = [poll EXCEPT !.pc = IF respondConditionally = "not modified" THEN "applied" ELSE "idle"]
    /\ UNCHANGED <<issued, entitled, flips, state>>

\* As if whatever is desired by now were acknowledged.
Acknowledge_Desired ==
    /\ poll.pc = "applied" /\ poll.revision <= state.desired
    /\ state' = [state EXCEPT !.applied = state.desired]
    /\ poll' = [poll EXCEPT !.pc = "idle"]
    /\ UNCHANGED <<issued, entitled, flips, node>>
\* ack_compatibility_authorization_snapshot.
Acknowledge ==
    /\ poll.pc = "applied" /\ poll.revision <= state.desired
    /\ state' = [state EXCEPT !.applied = IF poll.revision > @ THEN poll.revision ELSE @]
    /\ poll' = [poll EXCEPT !.pc = "idle"]
    /\ UNCHANGED <<issued, entitled, flips, node>>

AgentCrashes ==
    /\ poll.pc # "idle"
    /\ poll' = [poll EXCEPT !.pc = "idle"]
    /\ UNCHANGED <<issued, entitled, flips, state, node>>

-----------------------------------------------------------------------------
(* The subscription URL, with EXTERNAL_AUTHORIZATION_ACK_MODE enforce *)

\* get_publishable_compatibility_deployments.
Publishable(r) == auth[r] \in UsableStates /\ required[r] <= state.applied

\* selectCompatibilityPublication: the latest publishable one.
Publication(c) ==
    {g \in 1..MaxGeneration : /\ client[c] = "active" /\ c \in entitled /\ Publishable(<<c, g>>)
                              /\ \A h \in (g + 1)..MaxGeneration : ~Publishable(<<c, h>>)}

-----------------------------------------------------------------------------
SnapshotInit ==
    /\ client = [c \in Clients |-> "none"] /\ entitled = {} /\ flips = 0
    /\ auth = [r \in Credential |-> "none"] /\ required = [r \in Credential |-> 0]
    /\ state = [desired |-> 0, applied |-> 0, digest |-> {}, rows |-> {}]
    /\ poll = [pc |-> "idle", revision |-> 0, accepts |-> {}]
    /\ node = [revision |-> 0, accepts |-> {}]

SnapshotNext ==
    \/ \E c \in Clients : create_external_vpn_device(c) \/ rotate_compatibility_credential(c)
                              \/ revoke_external_vpn_device(c) \/ EntitlementChanges(c)
    \/ \E r \in Credential : ExpireCredential(r) \/ pruneCompatibilityAuthorizations(r)
    \/ PollSnapshot \/ projectAuthorizations \/ Apply \/ Acknowledge \/ AgentCrashes

SnapshotSpec == SnapshotInit /\ [][SnapshotNext]_snapshotVars

-----------------------------------------------------------------------------
(* Properties *)

\* What a node that is up to date must accept.
Due == {r \in EntitledRows : auth[r] \in UsableStates}

\* When a poll brings nothing new, the node accepts exactly what it must, and so it stays: a lapse, a
\* renewal, a rotation or a revocation is never lost, whenever the agent polled, crashed or came late.
NodeFollows ==
    (poll.pc = "idle" /\ node.revision = state.desired /\ (DigestIsCurrent \/ SnapshotRows = {}))
        => {r \in node.accepts : auth[r] # "expired"} = Due

\* The URL publishes no credential that its node would refuse while it accepts another one of the
\* client: a target is publishable only when its required revision is applied.
PublishedIsAccepted ==
    \A c \in Clients : \A g \in Publication(c) :
        (\E h \in 1..MaxGeneration : <<c, h>> \in node.accepts) => <<c, g>> \in node.accepts

\* A node enforces what it must, and no URL runs ahead of it.
SnapshotsHold == NodeFollows /\ PublishedIsAccepted
=============================================================================
