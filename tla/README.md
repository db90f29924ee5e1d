# TLA+ models of the Arcana control plane

The repository is the control plane of a VPN service: Cloudflare Pages functions
(`src/functions`), their Postgres schema and its stored procedures
(`src/supabase/migrations`), a Next.js front end (`src/src`) and scripts. It decides who may
use which VPN node; the nodes themselves (an agent next to sing-box), Stripe, Hetzner and
Cloudflare are other systems that it talks to. This directory keeps formal models of the
parts where a wrong order of steps would give access to somebody who must not have it, or
take it from somebody who has paid for it.

## 1. The system

Nearly all state is in Postgres. A request handler is a sequence of awaited statements and
RPCs; only what is inside one statement or one RPC is atomic, so between any two awaits of a
handler every other handler may run. Handlers die (a Worker is killed, a call times out) and
are called again by Stripe, by the node agents, by the minute tick or by the user.

| Component | State it keeps | Operations | What is hard |
|---|---|---|---|
| Ephemeral lease pool (ADR-0003) | `node_lease_slots`, `vpn_leases`, the agents' slot tables | `lease_route_slots`, `agent_sync_lease_slots`, `revoke_device_leases` | two replicas of the slots (table and node), late sync calls, revocation racing authorization, two hops with different clocks |
| Device provisioning and job queue | `devices`, `vpn_accounts`, `provisioning_jobs`, the users on the nodes | reconcile, claim, complete, fail, reap, `finalizeCreatedIdentity`, `revokeDevice` | decisions read rows that lag the jobs already queued; at-least-once execution |
| Fleet operations | `fleet_operations`, `operation_steps`, `nodes` | saga steps, tick lease, replacement, cleanup | a tick that lapses, steps that repeat, stale eligibility |
| Node lifecycle and health | `nodes`, `protocol_probe_results`, `alerts`; a new server's disk | heartbeat, protocol report, silence sweep, replacement, administrator; the bootstrap script and the enrollment | read, decide and write in separate statements; who may judge a node; a server that crashes between two steps of its enrollment |
| Stripe billing | `stripe_events`, `subscriptions` | webhook, its handlers, grace | duplicated, reordered and retried events |
| Trial and checkout | the trial's columns of `customer_accounts` | `create-checkout-session`, `reserve_free_trial` | one trial for many requests, each of them split by calls to Stripe |
| Customer accounts and entitlement | `subscriptions`, `devices`, grants, suspension | `device_entitlement`, packs, moves, revocation, deletion saga; the functions that read rows, grants and invoices | counts read before a write; a saga that dies; values that are absent, in any order |
| Sign-in and sessions | sessions of the authentication service, the device of each (`devices.auth_session_id`) | sign in, authorize, log out, remove a device, change the password | a token outlives its session; one device for requests that overlap |
| Shared accounts and invitations | `account_members`, `member_invites` | `accept_member_invite`, `remove_account_member` | two accounts, one of them not locked |
| Shareable links | `vpn_links`, their clients and secrets | create, rotate, revoke, move | a secret stored after the row it belongs to changed |
| Compatibility authorizations | `node_compatibility_authorizations`, desired and applied revisions | snapshot, acknowledge, publish | a revision must never label two contents |
| Node revisions, configuration documents | `node_revisions`, `nodes.desired_revision`, their jobs | push, claim, acknowledge, reap, retry, key rotation | five statements without a transaction; one statement for all expired claims |
| Scheduler and automatic scaling | `connection_profiles`, `device_node_assignments` | place, change a profile, add servers | capacity read before it is used; placements that overlap |
| Route directory | `route_directory_state`, each isolate's cache | list, sign, serve, authorize | isolates that sign at once |
| Agent events | the hub's waiters, cursors and cached tokens | long poll, watcher loop | state read before an await and used after it |
| Traffic | `node_traffic_samples`, `node_traffic_daily` | `record_node_traffic`, pruning | lost and repeated samples, counters that restart |
| Telegram linking, rate limits | `telegram_link_codes`, `telegram_links`, `rate_limit_buckets` | issue, redeem, unlink | a redemption of four statements; guessing |
| Alert dispatch, audit, rendering, front end, scripts | logs and views | notification, presentation | little state of their own; not modelled, see 5 |

The hazards of each, with the lines where they bite and the property that covers them, are
listed in `PROJECT.json`.

## 2. The modules

| Module | What it is |
|---|---|
| `ExclusiveLease` | the promise of the lease pool: a generation of a slot's secret belongs to at most one device, for ever |
| `LeasePool`, `MCLeasePool` | the lease pool in detail (tables, the nodes' tables, sync calls in flight); its views and grids for TLC |
| `LeasePoolProofs`, `LeaseSlotsProofs` | theorems about `LeasePool`, the second on top of the first: types, revocation, holders and the two tables; slots and their nodes, leases, and the refinement of `ExclusiveLease` |
| `ProvisioningJobs` | reconciles, the job queue, the agents, the reports and the reaper |
| `FleetOperations` | the saga engine, the create, replace and cleanup operations, the lifecycle of nodes, the provider and the DNS |
| `StripeBilling`, `TrialCheckout`, `CustomerAccounts`, `AccessLinks`, `SharedAccounts`, `AppSessions`, `Entitlement` | the customer's side; `MCCustomer` is their instance for TLC |
| `AuthorizationSnapshots`, `NodeRevisions`, `StaticRevision`, `Placement`, `AgentEvents`, `NodeTraffic`, `TelegramLinking` | what a node's agent is told and tells, and the linking of Telegram accounts; `MCNodes` is their instance |
| `NodeHealth`, `RouteDirectory`, `NodeEnrollment` | which nodes are in service, which routes over them are published, and how a server becomes a node; `MCRouting` is their instance |
| `ProvisioningJobsProofs`, `FleetOperationsProofs`, `BillingAndLinksProofs` | theorems about `ProvisioningJobs`, `FleetOperations`, `StripeBilling` and `AccessLinks` |
| `NodesProofs` | theorems about `NodeRevisions`, `AuthorizationSnapshots`, `TelegramLinking`, `AgentEvents`, `Placement` and `NodeTraffic` |
| `RoutingProofs` | theorems about `RouteDirectory`, `NodeEnrollment` and `NodeHealth` |
| `CustomerProofs` | theorems about `TrialCheckout`, `AppSessions`, `SharedAccounts` and `CustomerAccounts` |

The modules of the last rows each own the tables they write, and meet each other through a
handful of facts, each of which is a nondeterministic environment action on the other side.
`StripeBilling` decides whether an account is paid, which `CustomerAccounts` takes as `SubMoves`
and `Webhook`; that decides whether a device is entitled, which `ProvisioningJobs` takes as
`Subscribe`, `Lapse` and `Renew` and `AuthorizationSnapshots` as `EntitlementChanges`;
`Placement` decides where, which `ProvisioningJobs` takes as `Move`; `NodeHealth` and
`FleetOperations` decide whether a node serves, which `Placement` takes as `ServerMoves` and
`RouteDirectory` as `HostMoves`. In `MCCustomer`, `MCNodes` and `MCRouting` a behaviour is one of one module
and the others rest: that is one state space after another, not a product.

### 2.1 LeasePool

A node keeps a pool of slots, each with a secret. The node alone rotates secrets; the control
plane leases slots whose secret it believes to be unused. `slots` and `leases` are the
tables `node_lease_slots` and `vpn_leases`; `local` is the slot table of the agents. The two
replicas meet only in the sync call: a report of the node (`Report`) that may be applied now
(`Sync`), late or twice (`LateSync`), and an answer that the agent may read late or lose
(`ReadAnswer`, `LoseAnswer`).

| Action | Code |
|---|---|
| `Authorize` and its pieces `MayAuthorize`, `Replayable`, `Renew`, `StartLease`, `FinishLease`, `Exhausted` | `vpn-authorize.js` `leaseCredentials` and the RPC `lease_route_slots`; the RPC holds an advisory lock of the device (`Locked`), so two of its steps of one device never interleave, but those of two devices do |
| `RevokeDevice`, then `RevokeLeases` | `revokeDevice`: flips `devices.status`, then calls `revoke_device_leases`; the process may die in between (then the second action never happens) |
| `Sync`, `LateSync`, `SyncedRow`, `SyncedSlots` | `agent_sync_lease_slots` and the handler around it |
| `Verdict`, `ReadAnswer`, `Expired`, `Sweep`, `Resize` | the agent: rotates a slot when its lease is over, when it was revoked, or when the pool is resized. External: written from what `sync.js` and the ADR say of it |
| time | one integer clock; a slot's life, the policy's period and grace are small numbers |

Abstractions. The idempotency key hashes device, route and request id, so a key found with
another route cannot occur and the branch for it is not modelled. The limit on an account's
leases is counted in the model but nothing is promised about it: two devices of one account
may both pass the count. `recordAssignment` after the lease and the pruning of old rows
are left out. An operator who revokes with SQL by hand is not modelled.

### 2.2 ProvisioningJobs

A device's entitlement and placement become jobs, and the jobs become users on nodes.
`calls` are the `reconcileDeviceProvisioning` calls in progress, split where the code awaits:
the entitlement is read (`ReadEntitlement`), the identities and the placement are read and the
jobs decided (`Plan`), the jobs are inserted one by one (`InsertNext`). `agent` is what a
node's agent is busy with, `reports` are the `complete` and `fail` requests in progress,
split likewise: validated (`ReadJob`), the result written (`WriteResult`, `WriteFailure`), the
entitlement asked again (`CheckCreated`), the leftovers looked up (`TidyUp`) and ordered to be disabled
one by one (`DisableNext`), the job closed by id (`CloseJob`).

| Action | Code |
|---|---|
| `Subscribe`, `Lapse`, `Renew`, `Move`, `Revoke` | whatever changes entitlement, placement or status and then reconciles: billing, admin, account handlers. Each event has an idempotency prefix of its own |
| `Claim` | `claim_next_job`: the oldest pending job of the node, a fresh token, a lease |
| `LeaseLapses`, `Reap` | ten minutes pass; `reap_expired_job_claims` in the minute tick |
| `Run`, `RunError`, `AgentRestart`, `GiveUp`, `Send` | the agent (external) |
| `Redeliver`, `HandlerDies` | a handler stops between two awaits; its caller repeats the call |

Not in the model: jobs that change no access (`SET_EXPIRY`, `CLEAR_EXPIRY`,
`ROTATE_SUBSCRIPTION_TOKEN`, `APPLY_NODE_REVISION`), an administrator's retry (a new job with a
new key), the cancelling of jobs when a node's key is revoked, and the resolution of legacy
jobs without a device. How placement is chosen is an input (`Placements`; `Placement` models it).

`PromptReports` is an assumption about the build: a report that passed validation is written
before its lease lapses (seconds against ten minutes). Without it `JobsCloseRightly` is false:
`complete.js` closes the job by id alone, so a report that straddles lapse and reap at the last
attempt turns a failed job into a done one.

### 2.3 FleetOperations

A fleet operation is a row of `fleet_operations` with its `operation_steps`. `ops` are these
rows (`done` the steps that are COMPLETED), `node` the rows of `nodes`, `servers` what exists at
the provider, `dns` the names that resolve, `assigned` the table `device_node_assignments`.
`call` are the executions of `advanceOperation` in progress. A call keeps what it read: the steps
(`done`, `passes`, `drain`) when it began, the node's row (`seen`) when it came to the step. Every
statement that writes to the database, the provider or the DNS is an action, so a call may die,
and an administrator or an agent may act, between any two of them.

| Action | Code |
|---|---|
| `StartCreate`, `StartReplace`, `Sweep` | the administrator's requests and the automation, which register an operation; a request, and the cleanup sweep, advance it at once without leasing it (`Advance`) |
| `Tick`, `LeaseLapses` | `lease_fleet_operations` in the minute tick |
| `LoadStep`, `StepDone`, `StepWaits`, `StepFails`, `StepFatal`, `FinishOperation`, `FailNodeIfBooting` | `advanceOperation`: which step is next, and what is written after each outcome |
| `CreateInstance`, `MintToken`, `CreateServer`, `RecordServer` | `CREATE_INSTANCE`: look for a server with the node's label, store a token's hash, create, store the id |
| `PublishDns` to `MarkReady` | the other steps of `CREATE_NODE`; `MarkReady` is both versions of the handler |
| `AwaitCanary`, `DrainOldNode`, `RetireOldNode`, `CheckDns`, `Retire`, `DestroyServer` | the steps that replacing adds |
| `VerifyEligible`, `RemoveDns`, `RevokeAndRetire`, `DestroyInstance`, `NoteDestroyed` | the cleanup of an abandoned node (with `CheckDns` and `DestroyServer`) |
| `Enroll`, `SilenceFails`, `Recovers`, `AdminMove` | `enroll.js`, `node-silence-failover.js`, the heartbeat's recovery, `lifecycle.js` without its overrides |
| `Assign` | placing a device, and moving one off a FAILED or DRAINING node |
| `StatementFails`, `CallDies`, `GetsLost` | the faults, bounded by `MaxFaults`, with the administrator's moves |
| `Running`, `Boots`, `GetsLost`, `Returns` | the machines (external) |

Abstractions. `next_attempt_at` only delays an operation, so an operation that nobody leases is
due. Attempts are not counted: a step that fails may become fatal at any attempt. The two
statements that put a waiting operation off, and the three updates of `failNodeIfBooting`, are one
action each. A server is known by the number of the token in its user data, which is also its
`provider_instance_id`. The delete call of a DNS record may not have taken effect when the name is
looked up. `OneCall` says that an operation is advanced by one call at a time; the code
promises it only between ticks, and 3.4 says what happens without it. A node that has been
FAILED for a day is one whose other operations have ended (`Abandoned`). An administrator who
makes a canary READY by hand is not among the moves of the runs, since that is his decision to
end the observation. Left out: which node the automation replaces and where it adds one
(`NodeHealth` and `Placement` have that), and the rows of routes.

### 2.4 The customer's side

**StripeBilling.** `stripe` is what happened at Stripe and which events tell of it, `inbox` the
table `stripe_events`, `subscriptions` the rows, `delivery` the deliveries in progress. A delivery
is split where the code awaits: `Deliver`, `RecordEvent`, `ReadRow`, `WriteRow` (after
`isStaleSubscriptionWrite`), `QueueJobs`, `MarkProcessed`, and may fail after any of them
(`DeliveryFails`). `Written` and `Skips` hold what each handler of `stripe-events.js` writes, and
when it declines; `CreateService`, `DisableService`, `ExtendService` the jobs with the keys that
make a repeated one disappear. A queued job takes effect at once, except a creation.

**TrialCheckout.** `create-checkout-session.js` statement by statement against the trial's
columns: `ReadTrial`, `Resume`, `reserve_free_trial`, `CreateSession`, `Track`, `Release`. Sessions,
their payment and their expiry are Stripe's; `ConsumeTrial` is the webhook's part.

**CustomerAccounts.** `DeviceEntitled` is `device_entitlement()` with its order of places; a
request (`calls`) begins with one of `AskPacks`, `AskMove`, `AskRevoke`, `AskDevice`, `AskProfile`,
`AskGrant`, `AskLeave`, `AskSuspension`, `AskDeletion`, and goes on through what that handler awaits.
`MarkDeletion`, `ListSubs`, `CancelNext`, `MirrorCancel`, `ListDevices`, `RevokeNext`, `Ban`, `Finish`
are the deletion saga and `Tick` its resumption. `Reconcile` is one step here.

**SharedAccounts.** `accept_member_invite` is one transaction with several statements that
takes row locks (`HoldsInvite`, `HoldsAccount`, `HoldsMember`): `LockInvite`, `TakeSeat`,
`CheckOld`, `LockOld`, `Leave`, `Commit`, with `DeadlockVictim` when two wait for each other.

**AccessLinks.** The SQL functions are one step each, the handlers around them are split:
`StartLink`, `create_vpn_link_client`, `Compare`, `StoreAccessLink`, `RetireOld`, `ReplaceAccessLink`.
A token stands for its hash; `given` are the tokens whose URL the owner was shown.

**AppSessions.** `session` are the sessions of the authentication service (external: `gotrue.js` calls
it), `token` the access token that the user of each has, `appDevice` the row of `devices` with this
`auth_session_id`, `leased` the devices that hold a lease. A request is split where its handler awaits:

| Action | Code |
|---|---|
| `Ask` | `login.js` and `register.js`, `authorize.js`, `logout.js`, `removeDevice`, `password.js`: the call to the authentication service or the check of the token (`user-auth.js`), which a token passes whose session is over |
| `EnsureSessionDevice`, `InsertSessionDevice` | `ensureSessionDevice`: a conflict on `auth_session_id` reads the row again |
| `GateDevice`, `LeaseRoute` | the entitlement of the device, then `lease_route_slots`, which asks again |
| `FindDevice`, `FlipDevice`, `SweepLeases`, `SignOutSession` | `releaseSessionDevice` and `revokeDevice`, then the end of the session |
| `UpdatePassword`, `SignOutOthers` | `password.js`: an error of the second call is logged, and answered 200 |
| `WebSignsIn`, `ConfirmsDeletion` | sessions that no handler of the app opens |

`CustomerAccounts` has what a revocation does to jobs and places. The revocation's jobs and the
reconcile after an insertion are left out here.

**Entitlement.** Pure functions, asked of bounded inputs: each state is one question. `isLiveRow`,
`pickSubscriptionWithRoom` and `CapacityShown` are `subscriptions.js` and the overview's counts;
`effectiveEntitlement` is `accounts.js`; `getInvoiceLinePeriodEnd` and the functions of items are
`stripe-fields.js`. The properties compare them with what was bought or granted, not with themselves.

### 2.5 The nodes' side

**AuthorizationSnapshots.** `auth` are the credentials' rows, `state` the node's desired and
applied revision with the digest of the entitlement, `poll` the request in progress and `node`
what the agent applied. A poll is two reads (`readSnapshot`), the second of which may advance
the revision. `Publication` is what a subscription URL may contain. The agent is external:
migration `20261019000000` says that it refuses a changed snapshot at an unchanged revision.

**NodeRevisions.** A push is `ReadLatest`, `InsertRevision`, `SetDesired`, `Coalesce`, `Enqueue`, of which
any may be the last (`PushDies`). `applyJobs` are the jobs: `Claims`, `Applies`, `ApplyFails`,
`ClaimExpires`, `reap_expired_job_claims`, `RetryJob`. **StaticRevision** is the document's
check: a resolver is a text split at its colons and dots, together with the address it means.

**Placement.** `profile` and `users` are the account's connection profile, `rows` the
assignments, `server` the fleet. `placeDevice` is `PlaceDevice`, `Schedule`, `WriteRows`,
`recordPlacement`; a change of profile asks for one of every device (`due`). `FindFull` and
`startCreateNodeOperation` are the tick that adds a server.

**AgentEvents.** JavaScript runs one piece at a time, so a step is what happens between two awaits of
`agent-events.js`. **NodeTraffic**: `record_node_traffic` is one transaction; `baseline` remembers
the first sample as long as nothing was restarted or pruned. **TelegramLinking**: a redemption is
`Attempt` (the rate limit and the read of the code), `CheckLink`, `Consume`, `InsertLink`, and
`Unconsume` after an insert that failed.

**NodeHealth.** One node, its peers and the requests that judge it. `Heartbeat`, `ReadNode`,
`WriteTelemetry`, `CompareAndSet`, `SettleAlerts`; `ReadTarget`, `otherPeerPassing`, `CountVerdict`,
`ProtocolTransition`; `failSilentNodes`, `AlertSilence`; `Orders` of an administrator. What a probe
sees (`Sees`) depends on whether the node works and whether the peer lies.

**RouteDirectory.** `buildRouteCandidates` with its diversity and its slice; `LoadRoutes`,
`ReadDirectoryState`, `SignDirectory` and the cache of each isolate; `authorizeRoute`, which
resolves a route from the exhaustive list. A route's id is its content.

**NodeEnrollment.** `nodeRow` are the rows of `nodes` (state, the hash of the token, the hash of the
key, the last stage reported), `machine` the servers: what is on the disk, which a crash keeps, and
where the script is. A token is its number, a key the server that made it.

| Action | Code |
|---|---|
| `Registers`, `OrdersMove` and `WritesMove`, `OrdersRotation` and `Rotates` | `admin/nodes.js`, `lifecycle.js` with its compare and set of the state, `rotate-key.js`, which compares nothing |
| `Boots`, `Sends`, `GivesUp`, `Proves`, `Marks`, `ForgetsToken` | `stage_enroll` of the script in `node-bootstrap.js`, statement by statement; `Crashes` is a reboot after any of them |
| `Decides`, `Binds` | `enroll.js`: the row of the token is read, then updated if the token, the state and the expiry are still those; the server may have stopped waiting (`Unheard`) |
| `Works`, `Fails`, `Reports` | the later stages with their markers, and `bootstrap-status.js`, which a report may not reach (`Tells`) |
| `Beats`, `ClearsToken` | the heartbeat of a key that authenticates (`node-auth.js`), and its late write of the token's column |

`SetsUp` lets a server be set up with any token that was shown for the name of any node, the mistakes
included. Not modelled: what the stages install, and the transport keys that a report carries.

## 3. What is checked

### 3.1 Runs and their bounds

| Run | Bounds | Shows |
|---|---|---|
| `lease_pool_contention` | two devices, one node, two slots, one route, two requests in flight; clock to 2 | `OneHolder`, `LeasableIsLive`, `CutOffAfterRevocation`, `RevocationIsComplete`, `NoEarlyRotation` |
| `lease_pool_two_hops` | one device, two nodes on one route, the first with one or two slots and the second with one, one resize; clock to 1 | `LeasesAgree`, `RouteEndsByExpiry`, and the pool implements `ExclusiveLease` |
| `lease_pool_stale_report` | two devices, one slot, one resize | **violated**: `OneLiveHolder`, finding 1 |
| `provisioning_moves` | one device, two nodes, placements {n1, n2, policy, capacity}, two events, one fault, five jobs | `RevokedHasRemedy`, `BreakAfterMake` |
| `provisioning_claims` | one device, one node, two events, two faults, two attempts, four jobs; fairness | `JobsCloseRightly` (a closed job stays as it is, a report closes only the job it is about, and a creation that is done has stored its identity), `RevokedGoesDark` |
| `provisioning_enable_race` | one device, one node, three events, no fault | **violated**: `RevokedStaysOff`, finding 2 |
| `fleet_operations` | two nodes (one serving), one device, two operations of any type, two passes, one fault or administrator's move; fairness | `ServersHold` (`ServersAreKnown` and `ReplacementInOrder`), `QuarantineHolds`, `OperationsEnd` |
| `customer` | billing: one subscription, two deliveries at once, two periods, three changes at Stripe and one delivery that fails, or two and one that overlaps another. Trial: two requests, two sessions, one death. Accounts: two devices, two requests, one pack, two acts, or one and a death. Links: two links, two requests, three tokens, one death. Shared: four people, two invitations, two acceptances at once, one change of a plan. Sessions: two sessions, two requests at once, one death or one change of the password. Entitlement: up to two rows and two grants around one moment, up to three lines of an invoice and two items | `ServiceFollowsStripe`, `OneTrial`, `ServedIsEntitled`, `PacksKeepPlaces`, `DeletionHolds`, `LinksKeepWorking`, `SharedPlansHold`, `SessionsHold`, `EntitlementHolds` |
| `nodes` | snapshots: two clients, two generations, two changes of entitlement, five revisions. Revisions: two pushes at once, three revisions, two attempts, one death. Documents: some 1900 lists of addresses at the edges of the reserved blocks, in every spelling. Placement: two devices, two placements at once, three groups, two servers each, three edits. Events: two polls, two loops. Traffic: two bytes each way, one restart. Telegram: two redemptions of one code, clock to 4 | `SnapshotsHold`, `NewestWins`, `ResolversAreJudgedByMeaning`, `PlacementHolds`, `HeldIsWatched`, `TrafficIsTruthful`, `CodesAreSingleUse` |
| `routing` | health: an honest peer and a liar, three reports, one order. Directory: three nodes, two paths, two isolates, one device, two changes of the fleet. Enrollment: one node, two servers, two tokens, one crash or request given up, two acts of the administrator | `DirectoryHolds`, `HealthIsHonest`, `EnrollmentHolds` |
| `billing_out_of_order` | one subscription, one delivery at a time, nothing fails | **violated**: `PaidIsServed`, finding 3 |
| `reaper_refused` | one node, two revisions; fairness of the reaper | **violated**: `ExpiredIsReaped`, finding 4 |

Every passing run also checks the types of its modules (`TypeOK` or `...TypeOK`).

Why these bounds are enough. Contention on a slot needs two devices and one slot fewer than
they ask for over time, which rotation provides; a stale sync needs one report in flight
while the same slot is rotated, which needs one report, one rotation and a clock that moves
twice. What a second node adds is disagreement between two hops; that is the second run's.
A race of a job needs the job, a second event that reads the tables before it is done and one
that decides the outcome; a retry needs one fault, a retry of a retry two. Attempts are
capped at two instead of five: one that is repeated and one that is the last. No run
reaches its bound on jobs before its bound on events (`RevokedGoesDark` would fail if an
insertion were blocked for ever). A replacement needs an old and a new node, a device that drains,
and one fault to be resumed somewhere; the second operation cleans up what the first left,
or fails while the first runs.

On the customer's and the nodes' side every property is about two requests that overlap, or one
that died and one that finds what it left; so there are two of each, and one death. A payment,
its repetition and an end are three changes at Stripe; an order of two devices on one place has a
first and a second. Two clients and two generations let one credential be rotated while the
other lapses. Two windows of the rate limit meet the life of a code, and the clock reaches beyond both.
Two servers with a token each, on one node, are the race of two keys for a row and of a new token
for a node that enrolled before; the crash comes between any two statements of either.
Two sessions are the one that changes a password or removes a device and the one it is done to; two
requests of one session meet in its one device. Rows, grants and lines are compared in pairs by
the functions that choose among them, and every end lies before, at or after the other's.

Deadlock is not checked: when every event has happened and every job is closed the bounded
system stops, and a pool whose clock has reached its bound, or a fleet whose operations have all
ended, does so too. Every module bounded by events stops when they have happened.

### 3.2 Fairness

`provisioning_claims` and `fleet_operations` have a liveness property. In `ProvisioningJobs`,
`FairSpec` assumes weak fairness of: a
handler's next step (a call that was made runs on, or dies, which is a fault and bounded);
each agent's loop (agents poll on a timer, `agent-events.js:8-10`, whether or not a wake-up is
lost); the passing of a lease; the reaper (`fleet-tick.js:94-98` runs it every minute
unconditionally). No fairness is assumed of events, faults or restarts. Symmetry is
used with safety properties only.

In `FleetOperations`, `FairSpec` assumes weak fairness of a call's next step, of the passing of a
deadline and of a lease, and strong fairness of `Tick` for each operation: the tick runs every
minute and leases the operations that have waited longest, so that one which is leasable again and
again (between the sweeps that advance it without a lease) is leased. `OperationsEnd` stands on the
deadline: nothing promises that a step succeeds.

In `NodeRevisions`, the specification of `reaper_refused` assumes weak fairness of the reaper alone;
the counterexample is a behaviour in which it runs every minute and changes nothing.

### 3.3 Findings

1. `agent_sync_lease_slots` (`20260929000000_ephemeral_lease_pool.sql:378`) deletes every row
   the report does not name without asking how old the report is. A report older than a resize
   deletes a newer leased row; the next report stores the same generation as active; it is
   leased again. ADR-0003 line 143 says that never happens.
2. `revokeDevice` queues `DISABLE_USER` for identities that are enabled at that moment. A device
   revoked while its `ENABLE_USER` job waits is enabled by that job, since `complete.js` asks for
   the entitlement after `CREATE_USER` only.
3. `handleInvoicePaid` skips what is stale by the row's sync time. When the update that a payment
   causes is delivered before the invoice, the invoice is skipped with an answer of 200, and the
   update provisions nothing: the customer paid and is not served until the next invoice.
4. `reap_expired_job_claims` is one statement. When the claim of one revision's job expires while the
   job of the next one is pending, the unique index on pending revision jobs refuses it, for
   every node and every minute, until that job is claimed.

### 3.4 Conditions, and what happens without them

Some properties hold under a condition that the code does not enforce. Each is a constant, set
so that the runs pass; with the other value TLC finds the behaviour described.

| Condition | Without it |
|---|---|
| `FleetOperations.OneCall`: an operation is advanced by one call at a time | `nodes.js:302` and `replace.js:131` advance a new operation without leasing it. A tick may too: both find no server, the second stores its token's hash, and the first's server can never enroll (`fleet-operations.js:119-121` says no running server holds a stale token) |
| `ProvisioningJobs.PromptReports` | see 2.2 |
| `StripeBilling.AtomicWrites`: a row is compared and written by one delivery at a time | read, compare and write are three statements (`stripe-events.js:544`): two deliveries pass the comparison and the older one writes last |
| `StripeBilling.PromptMapping`: a subscription is mapped before it is deleted | a deletion that finds no row is answered 200; the late `checkout.session.completed` then inserts a row that nothing ends |
| `CustomerAccounts.Admitted` without `"packs"` | `setExtraPacks` counts devices (`account-service.js:155-156`), then asks Stripe, then writes: devices added meanwhile lose their place |
| ... `"checkout"` | the deletion saga lists live subscriptions: an open checkout, or a failed payment past its grace, becomes one afterwards and is charged on |
| ... `"revocation"` | a request dies after it marked a device REVOKED and before it queued its jobs: the saga passes over the device, which stays enabled |
| ... `"create"` | the creation of an identity is neither an enabled identity nor a job of a known one: the saga finishes before it, and a device over the budget is deleted beside it |
| `SharedAccounts.SharedRaces` without `"abandoned"`, `"checkout"` | the account that is left is read without a lock: its last member and its owner may leave at once, or it is paid for after it was found unused |
| `AccessLinks.EarlyUse = FALSE` | a link that another request finds before its creator has answered may be revoked by the creator's cleanup, and `storeAccessLink` writes by id alone, over a newer secret |
| `AuthorizationSnapshots.TornReads = FALSE`: entitlement is quiet between the two reads of a poll | the first read labels the snapshot by one entitlement and the second fills it by another; when entitlement changes back the label is current again, and the node keeps what it should refuse |
| `NodeHealth.OverlappingReports = FALSE` | a heartbeat that read the row before a failure resolves the alert of the node that has failed since |
| `RouteDirectory.SignersApart` | two isolates read one version, sign two lists and both write the next one (`v1/routes.js:25-28` says a lost race costs nothing; `route-signing.js:34-39`) |
| `Placement.OnePlacement`, `OneTick`, `WithinBudget` | two placements of one device write one row each of two routes; two ticks add a server each; a change of profile that the mutation budget refuses leaves the devices on the old route |
| `AgentEvents.OverlappingPolls = FALSE` | two polls of one node that both wait for their first read: the second overwrites the first's entry, whose promise is never resolved |
| `AgentEvents.PromptReads` | `fetchedAt` is when the answer came, not when it was asked for: a slow read looks fresh |
| `NodeTraffic.InOrder`, `SteadyClock` | a late sample goes below the one before it and is taken for a restart; a clock set back has the same effect |
| `TelegramLinking.LostAnswers = FALSE` | an insert that took place but was reported as failed puts the code back: it can be redeemed again |
| `NodeRevisions.OneAtATime`: a push overlaps no other push, no retry and no run of the reaper | `SET desired_revision` of the older push comes last and sets it back; or its pending job refuses the newer one's (23505), which is taken for a success |
| `NodeRevisions.NewestStays` (external): an agent does not replace a revision by an older one | a retried or reaped job of an older revision sets the node back |

Other things met while modelling, that no run states: a renewal looks only at the lease of a route
that ends last (`20260929000000_ephemeral_lease_pool.sql:205-211`), so that when a resize took one of
its slots a new lease is made although an older one is intact (`NoSlotWasted` says this much and no
more; the header, lines 104-110, promises that the intact one is extended); `VERIFY_ELIGIBLE` is not run again
once COMPLETED (`fleet-operations.js:919`), so a node that recovers during its cleanup loses its
name; `MARK_READY` (`:204`) asks the lifecycle table only, which lets an administrator's FAILED go to
READY; a Worker that dies between `finishOperation` and `failNodeIfBooting` (`:574`) leaves a booting
node no tick sees; the new node is not looked at again while the old one drains (`:303`); a
lapsed job that is reaped runs after later ones of its identity; a webhook handler that failed
after writing the row is judged stale when Stripe retries it (`stripe-events.js:243`); the
jobs that end a service are keyed by the subscription alone (`:500`), so an end after a recovery is
dropped; the suspension's SQL compares a `bigint` to a `uuid` (`20261008000000_admin_audit_transactional.sql:177-184`)
and fails with an enabled identity; moving a link needs a free place; a second rotation within the
overlap answers 500 and the URL is empty (503) until the node acknowledges; `rotate_node_key`
revives a quarantined key; a device on a FULL node is moved when it reconnects (`scheduler.js:45-53`);
codes already issued survive an unlink; rate limits are fixed windows, so twice the limit fits in
one hour; a server that crashes between its marker and the line after it keeps its token on the disk
(`node-bootstrap.js:194-195`); a report of the script is sent once, so a lost COMPLETE leaves the operation
waiting until its deadline; the columns of a report are not reset when a failed node is
provisioned again; a rotation of a key that read READY puts a hash back on a row that was
quarantined meanwhile (the state still refuses it); `pickSubscriptionWithRoom` hands `isLive` to `Array.filter`
(`subscriptions.js:92`), so its `now` is the array and no number, and a subscription in arrears
within its grace never has room for a new device, though `subscriptions.js:23-30` says that such
callers keep working.
Of the sessions: a sign-in whose answer is lost leaves a device that holds a place and that nobody
signs in to; a token of the website, used on `/v1` after its logout, makes one too; a session that a
change of the password ends keeps its device; the password that confirms a deletion opens a session
that is nobody's (`account-service.js:447-456`); a removal that died between the status and
`revoke_device_leases` is answered 404 when it is repeated, so that the leases run to their end. A subscription whose
end is not known ends with a grant that has one (`laterIso`, `accounts.js:225-229`). The retention of
revoked devices' metadata goes by `last_seen_at`, where the comment speaks of devices revoked more than 90 days ago
(`retention.js`, `clearStaleRevokedDeviceMetadata`).

## 4. What is proved

The theorems hold for all values of the constants that the modules' `ASSUME`s allow: all sets of
nodes, slots, devices, requests and members, all clocks, all bounds. What is assumed beyond that is
said with each. In every proof the property is not inductive by itself; a conjunction of named
parts that says why the code works is, and it was checked with TLC on small instances first.

### 4.1 The lease pool

`LeasePoolProofs`: `TypeCorrect` is `Spec => []TypeOK`. `RevocationCorrect` is
`Spec => []RevocationIsComplete`: after `revoke_device_leases` has returned, a device has no live
lease and gets none. `RevocationInv` adds that such a device's status is `REVOKED`, which
`MayAuthorize` reads under the device's lock, and that no authorization of it is past that check:
the sweep waits for the lock, so it never runs between the check and the insertion.
`OneHolderCorrect`: `HolderInv` adds that every generation that was ever leased is spent, that is,
the row is past it or no longer free, and no report in flight can make it free again (`Spent`).

`LeasesAgreeCorrect` is `Spec => []LeasesAgree`. `TablesInv` has the two
directions for every row, and that a fresh row has no extension (a lease that takes it must find
none); `WasteInv` that a call past its check for a renewal had none to make, and still has none,
since only calls of the same device could change that and it holds that device's lock.

`LeaseSlotsProofs` builds on `SlotInv`, which ties for each slot the row, the
agent's entry, every report that may still arrive and the answer that may still be read: the row is
never ahead of the node, and a row whose slot the node has rotated has less than `MinRemaining`
left (`RowFits`); a report still on its way does no harm whenever it arrives (`ItemFits`); what an
answer said of the served generation is still true when it is read, but for a lease or a
revocation since (`AnswerFits`); a reason to rotate is true of the row (`FlagFits`). From it
follow:

* `LeasableIsLiveCorrect`: what `authorize` may hand out is served by its node;
* `NoEarlyRotationCorrect`, an action property: no credential is rotated under a lease that holds;
* `RouteEndsCorrect`, with `EndInv` (some hop's node enforces no later end than the lease has):
  `expires_at` is a real end;
* `CutOffCorrect`, with `CutInv`: a revoked device is cut off within a slot's life or a renewal's length, even
  if `revoke_device_leases` never runs;
* `ExclusiveLeaseImplemented`: the refinement. A grant is a lease with the set of its hops as its credentials;
  `Init` maps to `Init`, `FinishLease` to `Open` (its credentials are fresh by `HolderInv`), `Renew`
  to `Extend`, `RevokeLeases` to `Close`, and every other action to a stutter.

These five and `OneHolderCorrect` assume `MaxResizes = 0`: no pool is resized while the system
runs. That is not a weakness of the proofs: with resizes `SlotInv` is false, and so are `OneHolder`,
`LeasableIsLive` and `NoEarlyRotation`. Finding 1 is the counterexample, a report older than a resize. The first three theorems above need no such assumption.

### 4.2 The free trial

`CustomerProofs`: `TrialTypeCorrect`, and `OneTrialCorrect`, which is `TrialSpec => []OneTrial` for any number of
requests, sessions and deaths, with no assumption. `TrialInv` says that a session that counts is the one
attached to a reservation that is held and fresh, or the trial is used (`Attached`); that while
a request holds the reservation no session counts (`Holds`); that two requests never hold the
same one (`OwnStamp`, by the time stamp that `reserve_free_trial` returns); and what a request that is
resuming a session may rely on (`RequestFits`).

### 4.3 Node revisions

`NodesProofs`: `RevisionTypeCorrect`, which includes that no job is tried more often than
`MaxAttempts` (`AttemptLeft`), and `NewestWinsCorrect`, which is `RevisionSpec => []NewestWins` where a push
overlaps no other push, retry or reaping for its node, and its agent does not go back to an older
revision. Both are the conditions of 3.4, set as the run sets them; without either the property is
false. `RevisionInv` keeps count: the desired revision is behind the newest by no more than the
pushes that died, plus one that is under way (`Versions`), so that fewer deaths than
`NODE_REVISIONS_KEEP` leave it among those that are kept; the newest revision has a job once
its push is over, and one that is done was applied (`JobsFit`); between `Coalesce` and `Enqueue`
nothing of the node is pending, so that the insert is not refused (`PushFits`).

### 4.4 Telegram linking

`NodesProofs`: `TelegramTypeCorrect`, and `CodesAreSingleUseCorrect`, provided that an insert
reported as failed did not take place, that a code lives no longer than a window of the rate
limit and that windows are kept longer than codes live. `OnceInv` adds that a code not consumed
has made nothing and is owned by no request, and that a code has one owner at most: only
the request whose update set `consumed_at` inserts, and it gives the code back before another may.
`GuessInv` counts by windows: tries in a window that began before the code was issued are at
most its count, and a window that began later cannot end in the life of the code.

### 4.5 Enrollment

`RoutingProofs`: `EnrollTypeCorrect`, and `EnrollmentCorrect`, which is `EnrollSpec => EnrollmentHolds` for
any numbers of nodes, servers, tokens, crashes and acts, with no assumption: a bound key is on its
server's disk and nobody else's row, one token binds one key, a server that takes itself for
enrolled was, COMPLETE means that the script came to its end; and the action property, that quarantine
is one-way. `EnrollInv` is what makes them inductive. `ScriptsAgree`: what a server's disk says
of where its script is. `CallsAgree`: a request in progress, heard or not, names the node of its
server's disk, the server has its key there, and waits for one request at most. `KeysAgree`: a
key on a row is on its server's disk, and was bound by a token; so was that of a server past its
enrollment, whatever became of the answer. `TokensAgree`: the tokens of the rows are distinct, and
a row that awaits its enrollment has one that has bound nothing, so that the update, which compares the
token and the state, binds it once. `MovesAllowed`: an order waiting to be written was
allowed from the state that the write compares.

### 4.6 Sessions

`CustomerProofs`: `SessionTypeCorrect`, and `SessionsCorrect`, which is `SessionSpec => SessionsHold` for any
numbers of sessions, requests, deaths and changes of the password, with no assumption. `SessionInv`
adds to the state half of the property (`SessionsAgree`) two things: `CallsFit` says what a request may rely
on after the statement that it read, above all that a logout which signs out has revoked the device
it found; `UnopenedIsNobodys` that nobody has a token of a session that was not opened.

### 4.7 Compatibility authorizations

`NodesProofs`: `SnapshotTypeCorrect`, which includes that what was acknowledged is on
the node; `PublicationsCorrect`, which is `SnapshotSpec => []PublishedIsAccepted` with no assumption; and
`SnapshotsCorrect`, which is `[]SnapshotsHold` where `TornReads` is FALSE, the condition of 3.4: `NodeFollows`,
the other half of it, is false without. `SnapshotInv` is about what the node enforces and what the poll in
progress brings, each with its revision. `Complete`: who accepts one credential of a client accepts every usable
one that is required by that revision, because a projection takes out whole clients.
`Labelled`: who has the desired revision accepts what the digest counts. `ReadFits`: what a poll read
before the entitlement is laid over it. Every write takes a revision that nobody has yet, and requires its
rows from there on (`AdvanceMoves`), so that no set already labelled is contradicted (`WritesAreNews`).

### 4.8 Fleet operations

`FleetOperationsProofs`: `FleetTypeCorrect`, and `QuarantineCorrect`, which is `Spec => QuarantineHolds` for any
nodes, operations, faults and administrators, and for calls that advance one operation at the same time
(`OneCall` is not assumed). `FleetInv` says what a call may rely on: its operation exists; the row it
carries to the provider has the token that was stored; a step in progress is not one it has
completed; and who has counted to `READINESS_CONSECUTIVE_PASSES` is through that step. Then every
update of a state is gone through: each names the state that it moves from, in its `WHERE` or by a row lock,
or moves a row that did not exist. Where it names the state it read a while ago,
`ALLOWED_TRANSITIONS` was consulted for that one (`AllowedMoves`).

`ServersCorrect` is `Undisturbed /\ Spec => ServersHold`, for any nodes, devices, operations and faults. `Undisturbed`
is `OneCall` (3.4) and four moves that administrators leave to the code. None of the four can be dropped, and the run's
administrators make none of them; TLC finds each of these on small instances:

| By hand | What then happens |
|---|---|
| `PROVISIONING` | a second token is stored, which the server that was made with the first does not have |
| `READY` | the canary is promoted without having been observed |
| `DRAINING` | a call makes a node READY and dies before the step is noted; the node is replaced and drained; the repeated `MARK_READY` reads DRAINING, which may become READY; a device is placed there; drained once more by hand, the node is retired with the device on it |
| `FAILED` | a node whose creating operation has not reached `PUBLISH_DNS` is failed, replaced and retired; the step then publishes its name, because it looks at the instance and not at the state, and the server is destroyed under a name that resolves |

The invariant `ServersInv` has what a step relies on although it only read it earlier. `StepsLast`: what a
completed step brought about is still so (the observation is over, the drain was empty or overdue, the name
is gone). `CallsKnow`: a call has its operation's completed steps, the steps before its own are among
them (`Turn`), and what it saw is either still true or of no consequence (`Saw`: a row seen RETIRED is
RETIRED, a row PROVISIONING still has the token that was just minted, no server was made since the list was
empty). `BootsFirst`: a node whose name is not published is in no one's hands but its creator's, so the
name does not come back after a removal (`NamesGone`). `CanaryWatched`: who is shown as READY with a canary
was observed, silence and recovery included. `OneEach`, with `CallsDiffer` and `OpsDiffer`: one server per node, one call per
operation, one operation that makes a node. The proof does not take each conjunct through each of the
thirty-odd actions: it first shows what any step may do to a row (`RowsMove`), to servers, names and
assignments (`WorldMoves`) and to the operations (`OpsMove`), and then takes each conjunct through those three;
only the call that acts is gone through handler by handler (`HandlersKnowing`).

### 4.9 Shared accounts

`CustomerProofs`: `SharedTypeCorrect`, and `SharedPlansCorrect`, which is
`SharedRaces = {} /\ SharedSpec => []SharedPlansHold` for any number of people, plans, invitations and
acceptances at once. `SharedRaces = {}` is the condition of 3.4, and both of its races break the property. `SharedInv`
says what a transaction of `accept_member_invite` may rely on between two of its statements. `SeatKept`: once it has
counted the seats, the plan it leads to is there, has its owner and still has a free one, and no other transaction is past the
count for the same plan (the row lock). `LeftAlone`: what it found its user in, and what its user has come to own
since, has nobody else in it, nobody on the way in, and nobody who pays for it; this is what no lock keeps so, and what the
condition is for. `PlanFits`: the seats an account has now are among those that it had at most. `PersonFits` and
`HasOwner` are the two halves of `NobodyStranded`, with the one owner named. The module assumes
`IncludedSeats > 0` (`included_seats()` is 3): who signs up sits in the new account.

### 4.10 Provisioning jobs

`ProvisioningJobsProofs`, for any devices, nodes, events, jobs and faults: `JobsTypeCorrect`; `RemedyCorrect`, which is
`Spec => []RevokedHasRemedy`, and `BreakAfterMakeCorrect`, which is `Spec => []BreakAfterMake`, neither with an assumption; and
`ClaimsCorrect`, which is `Spec => JobsCloseRightly` where `PromptReports` holds and every claim is checked by its token
(`RequireToken`, or all agents send it): without the first the property is false (2.2), and without the second a late
report of an old claim closes the job under the new one. Only its last part, that a CREATE_USER job is done when its
user and its identity are there, needs neither (`DoneCreateCorrect`).

`JobsInv` follows the remedy of a revoked device from hand to hand. `RemedyComes`: an enabled identity that nobody has queued an
ENABLE_USER job for has a job or a call that disables it (`Disabling`), or its CREATE_USER job is not done yet. That job's
report must then hand on before it closes the job (`ReportFits`): if it found the device entitled, the revocation came
later and brings its own call, which finds the identity that has been stored by then (`Covered`); if not, the report holds the order
that disables it until that is queued. `DoneFits`: what is done stays done, an identity is never forgotten and
one that was disabled stays so while no ENABLE_USER job is there. `OrdersFit`: an insert that meets its idempotency key meets an order
of the same kind for the same identity (`WellKeyed`), so what counts as queued is queued; and an order that disables
what has moved has an identity elsewhere to point at (`MovedTo`). `ClaimsFit`, for the claims: a validated report is of the claim
that holds the job (`Held`), and no two reports are of the same claim.

### 4.11 Agent events

`NodesProofs`: `EventsCorrect` is `EventSpec => []HeldIsWatched` where polls of one agent do not overlap before their
first read and no read takes longer than the interval (`~OverlappingPolls`, `PromptReads`; both are conditions of 3.4, and the
property is false without either). `EventInv` is about the age of every answer on its way: what a request has read
(`RowFits`), what a run of the loop has read (`LoopFits`) and what the hub calls fresh (`FreshFits`) is not older than an
interval. `AskingFits`: a request that asks is the only one of its node that does, nobody waits for that node, and what it brings is complete
where the hub has nothing. `KnownFits` and `WaiterFits` are the two directions between the hub's map and
the requests that wait; and while one waits, the timer is set or a run of the loop is in progress (`Busy`).

### 4.12 Placement

`NodesProofs`: `PlacementCorrect` is `PlacementSpec => []PlacementHolds` under the three conditions of 3.4 for
this module (`OnePlacement`, `WithinBudget`, `OneTick`). `PlacementInv` follows a policy through a placement. `PlacingFits`: what it
will write suits the policy that it read, the rows it compares with are still the device's, and the policy it read is the one
that is wanted (`Wish`), unless the device is due once more because the profile has changed. `PlacedFits`: a
device that no placement is due for or busy with is where it should be. `ScalingFits`: a group that a run of the tick
found full has nothing on its way until that run begins it, and is in the hands of no other run. The numbers of
servers, locations, devices and edits, and the limits of sessions, are any.

### 4.13 The route directory

`RoutingProofs`: `DirectoryTypeCorrect`, and `DirectoryCorrect`, which is `DirectorySpec => []DirectoryHolds` where no two
isolates sign at once (`SignersApart`, 3.4), for any fleet, any allowed paths, any capacities and any length of the published slice.
That a published route stays authorizable needs first that sorting loses no node. `diverseOrder` is
a strict order in which any two nodes differ (`BeforeOrder`), so a node's rank, one more than the number of nodes before it, is
between 1 and the number of nodes, and no two have the same (`Ranks`); an injection of a finite set into as many numbers
is onto, and the sorted sequence has each node (`DiverseOrderHolds`). So what is published of a path are nodes that fit its
hops (`Rendered`), and every choice of nodes that fit is a candidate of the exhaustive search (`Resolving`), whatever the
load has made of the order since. `DirectoryInv` has that for the routes of every envelope and of every call in progress
(`RoutesFit`), and for the versions: the directory's is the last, with its routes (`LastVersion`), and a call about to write has
the version of its routes or one above all that are signed (`SignerFits`). The second half is true
even when a revocation has moved the version in the meantime and the write moves it back: the version that is skipped or
repeated was never signed.

### 4.14 Customer accounts

`CustomerProofs`, for any members, subscriptions, requests at once, packs, acts and deaths, and any finite set of devices:
`AccountTypeCorrect`; `ServedCorrect`, which is `ServedIsEntitled` where `"create"` is not in `Admitted`;
`NotChargedCorrect` and `DeletionCorrect`, which are `BannedNotCharged` without `"checkout"` and `DeletionHolds` without any
of the races but `"packs"`; and `PacksKeepPlacesCorrect`, which is `AccountSpec => PacksKeepPlaces` without `"packs"`.
Each race is a row of 3.4, and each theorem keeps apart only the races that break its property: the four rest on one
invariant, `AccountInv`, that holds whatever is admitted and whose parts say under which race they are void.

`MoneyFits`: from its reading of the list on, what Stripe still charges is on the list of every run of the saga, then
nothing is (`CancelFits`); and once the account is marked nothing is left that may come to be charged (`ChargesFit`).
`ServiceFits`: every enabled identity is an `ACTIVE` device on the list of every run that revokes, or a request is about to
queue the jobs that end it (`RevokeFits`, `ServedFits`); and as long as nobody died a run that has not come to the
devices yet is under way (`SagaComes`), which is what makes two runs at once harmless. `PlaceFits`: an enabled
identity has a place in the order of its subscription, or a reconcile is still to come. It speaks of places
(`device_entitlement` without the account's suspension), for a suspension may be lifted by a request that has not
reconciled yet. `PacksFit`: the packs about to be written have places for all that use the subscription.

A place is a count of the devices before one, so any row may move it. It is kept where no device comes before that was not
there already (`PlaceStays`), so whoever gives a place up takes it from nobody (`PlacesStayWithout`), and what is bought
for all who use a subscription is enough for those before any one of them (`MirrorPacksKeepsPlaces`). The module
assumes that the devices are finitely many, without which there is no count.

### 4.15 Billing

`BillingAndLinksProofs`, for any subscriptions of an account, deliveries at once, changes at Stripe and failures: `BillingTypeCorrect`;
`UnpaidCorrect`, which is `BillingSpec => []UnpaidNeverServed` without any condition; and `ServiceCorrect`, which is
`ServiceFollowsStripe` where `AtomicWrites` and `PromptMapping` hold (3.4 says what happens where they do not).

Two invariants. `BillingFacts` needs no condition. It says what every event of a subscription implies of the
subscription as Stripe has it now (`EventHolds`: one that writes a live row was paid for), that of a subscription which is charged an
event handled as an update tells what Stripe has now, none of it is newer, and one that is as new
tells the same (`IsLatest`; two events of one second are what `isStaleSubscriptionWrite` cannot tell apart), and that a row has what one of its events said
(`RowHolds`). `UnpaidNeverServed` follows: who is entitled has a live row, a live row has its event, and that
was paid for.

`BillingInv` adds what the comparison of rows is for. A row only becomes newer and stays canceled
(`Forward`), so that once an event was processed the row is as new as it or newer, for good (`Applied`); what is about to
be written is newer than what is there (`DeliveryHolds`), which is where `AtomicWrites` is needed; and a deletion
finds the row that it ends (`WasMapped`), which is where `PromptMapping` is. When all is processed the row is as new as the
latest event, which tells what Stripe has. For the service, `CutsOff`: whoever is served without a grant has a row
that is not ended or a delivery about to queue the jobs that end it, and the key of these jobs is not taken before, unless
the subscription was unpaid in between or a delivery failed, which `EndedIsCutOff` leaves out.

The proof found a mistake of the model that its runs had not shown: two conditional parts of the
events of a checkout were nested, so that the invoice of nothing of a trial was never told.

### 4.16 Links

`BillingAndLinksProofs`, for any links, requests, places, tokens and deaths: `LinkTypeCorrect`, and `LinksWork`, which is
`LinkSpec => LinksKeepWorking` where `EarlyUse` is FALSE (3.4). `LinkInv` is about who holds what while requests interleave.
`LinkRequestHolds`: the token of a request is its own, nobody was given it before the request answers, and it opens
at most the client that the request creates. `OwnHolds`: of a link that a request creates it holds every client, and finds the
link as it made it unless the customer asked to revoke something; that is what early use breaks. `ApartLinks`: two requests meet neither in a token, nor
in a link or a client that one of them creates. `LinkClientHolds`: what opens an active client the customer has,
or its creator is about to answer with, unless somebody died; and what can be copied is that or nothing.

A working URL is then lost by nothing but a revocation that was asked for. `Cleanup` burns the client of the request itself, whose token
nobody has seen; `RetireOld` retires a link only when the new one works and its URL is given in that step; and
a replacement gives the token that it puts in place of the old one.

### 4.17 Node health

`RoutingProofs`, for any peers, liars, thresholds, requests at once, reports and orders: `HealthTypeCorrect`, and
`HealthCorrect`, which is `HealthSpec => HealthIsHonest` where a heartbeat overlaps no other, no sweep and no two orders of the administrator
(`~OverlappingReports`, 3.4). The peers may overlap with everything, themselves included. The module assumes that no peer has the name of another kind of request.

`HealthInv` follows a judgement from what was seen to what is written. `VerdictFits` and `HonestResult` are why liars fail: of
a node that never broke an honest peer's row says nothing bad, so wherever a verdict is counted against the node the
quorum has found that row, and lets it not; this is an invariant of what each request is about to do, for the quorum is read
before the count. `DecisionFits` relates what a heartbeat read to what the row is when it writes: one that decided on a
failed node decided what the reason allowed, and that reason is still the row's. `OneJudge` is the
condition, carried by the requests in progress. `WordIsOut`: the alert of a silent node is open, or the sweep that found it is about
to open it, and no heartbeat in progress resolves it.

### 4.18 Traffic

`NodesProofs`, for any traffic, samples, days, restarts, losses and repetitions: `TrafficTypeCorrect`, and `TrafficCorrect`, which is
`TrafficSpec => []TrafficIsTruthful` where samples are recorded in order on a steady clock (`InOrder`, `SteadyClock`, 3.4).

That the days have no more than passed is not inductive by itself: a sample on its way says what it
will claim after the last one, but the state does not say what had passed when it was taken. The invariant says that there are such
numbers, one for each moment (`PassedFits`): from one reading to the next they rise by no less than the second
would claim after the first, whichever of those between them are lost, and to the node's total by no less than its counters would; and what is counted so far is no more than at
any reading that may still be recorded. A sample that is taken adds the total of now; a byte that passes and a
restart keep the numbers as they are, for one more byte raises a claim by one at most (`DeltaOfOneMore`) and counters at zero claim
nothing. The second half, that nothing is lost while nothing is restarted or forgotten, is `Unbroken`: until then readings only
rise. What the days add up to is the number of their bytes (`CountedBytes`), so that a sum is a cardinality and needs no induction.

### 4.19 Only model-checked

`EntitlementHolds` and `ResolversAreJudgedByMeaning`, the types of the modules that have no theorem
about them, and liveness. Liveness
under fairness (`RevokedGoesDark`, `OperationsEnd`) is out of the prover's reach and stays so, and what
`ENABLED` would be needed for. `StaticRevision` checks texts of bounded length against a reference;
for all texts that is an induction over data, which the prover cannot do here. So it is with
`Entitlement`, whose functions are loops over a list of rows, grants or lines. The invariants `CustomerTypeOK`,
`NodesTypeOK` and `RoutingTypeOK` of the runs say that the module which moves has its type: for each module that
is its own theorem above.

## 5. What is not modelled

Alert dispatch, audit and statistics are notifications and views over rows that the modules
change; retention is modelled for node revisions, codes and samples only; of signing in, the reset of a password
by e-mail and the administrator's are left out; subscription rendering is a pure
format, covered by golden files; the front end, the table of routes and the operators' scripts keep no
state that the handlers do not keep. Of the modelled components, `PROJECT.json` says what each
leaves out: mainly what is presented (invoices' amounts, telemetry, charts), signatures, the
choice of a price, and canary rollouts, which only order pushes. No module composes two of
the others beyond what 2 says: the product of two state spaces of half a million states is out of
TLC's reach, and the interfaces are single facts.

## 6. Plan

Done: the lease pool with its abstract specification and the proof that it implements it; jobs,
fleet operations; the customer's side; the nodes' side; routing; the theorems of section 4. A theorem to add: the parts of
`Entitlement.EntitlementHolds` that need no induction over the rows.
