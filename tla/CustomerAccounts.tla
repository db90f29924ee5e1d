----------------------------- MODULE CustomerAccounts -----------------------------
(***************************************************************************)
(* One customer account: its subscriptions with their packs, its devices,  *)
(* the support grant, suspension, and its deletion.                        *)
(*                                                                         *)
(* A request (account-service.js, the handlers of api/account and          *)
(* api/admin/customers, the fleet tick) is split where another may run in  *)
(* between.  Most end in a reconcile of the account, which is one step     *)
(* here: ProvisioningJobs looks into it.  A job takes effect at once,      *)
(* except the creation of an identity, which the node's agent reports      *)
(* later.  Which subscription lives is Stripe's doing; the webhook that    *)
(* tells of it is repeated until the account is reconciled (StripeBilling  *)
(* looks into that).                                                       *)
(***************************************************************************)
EXTENDS Integers, FiniteSets

CONSTANTS
    AccountSubs, Devices,
    Callers,      \* requests that can be in progress
    Included,     \* devices of a subscription without packs (INCLUDED_DEVICES; a pack adds as many)
    MaxPacks,
    MaxActs,      \* bound: requests that begin, and changes at Stripe
    MaxCallDeaths,    \* bound: requests that die
    Admitted      \* races that are let happen: "packs", "checkout", "revocation", "create"

NoSub == "no subscription"
NoDevice == "no device"
Users == {"owner", "member"}

ASSUME AccountParameters ==
    /\ IsFiniteSet(Devices) /\ Included \in Nat \ {0} /\ {MaxPacks, MaxActs, MaxCallDeaths} \subseteq Nat
    /\ NoSub \notin AccountSubs /\ NoDevice \notin Devices
    /\ Admitted \subseteq {"packs", "checkout", "revocation", "create"}

VARIABLES
    subs,      \* [AccountSubs -> ...]: the table subscriptions, and whether Stripe goes on charging
    devices,   \* [Devices -> ...]: the table devices
    assigned,  \* the sequence device_subscription_assignment_seq
    access,    \* [Devices -> ...]: the VPN identity of each device
    members,   \* account_members
    account,   \* customer_accounts, and sign-in
    seats,     \* seat_limit of the support grant, 0 when there is none
    owed,      \* Stripe repeats an event until the account was reconciled
    calls,     \* [Callers -> ...]
    counts

accountVars == <<subs, devices, assigned, access, members, account, seats, owed, calls, counts>>
rows == <<subs, devices, assigned, members, account, seats>>

PlaceOrder == 0..(Cardinality(Devices) + MaxActs)
AccountSubscription == [status : {"none", "incomplete", "live", "lapsed", "canceled"}, packs : 0..MaxPacks, charged : BOOLEAN]
Device == [status : {"none", "ACTIVE", "REVOKED"}, user : Users, sub : AccountSubs \cup {NoSub}, seq : PlaceOrder]
NoDeviceRow == [status |-> "none", user |-> "owner", sub |-> NoSub, seq |-> 0]

Op == {"none", "packs", "move", "remove", "revoke", "sign-in", "add", "assign", "grant", "leave", "suspend", "reinstate", "delete", "tick"}
Pc == {"idle", "write", "revoke", "jobs", "insert", "budget", "gate", "sync", "sync one", "leave",
       "suspend", "ban", "mark", "list", "stripe", "mirror", "devices", "finish"}
\* todo: what is left of a list that was read.  revoked: those of it that were REVOKED.
Call == [op : Op, pc : Pc, device : Devices \cup {NoDevice}, sub : AccountSubs \cup {NoSub}, packs : 0..MaxPacks,
         user : Users, todo : SUBSET (Devices \cup AccountSubs), revoked : SUBSET Devices]
NoCall == [op |-> "none", pc |-> "idle", device |-> NoDevice, sub |-> NoSub, packs |-> 0, user |-> "owner",
           todo |-> {}, revoked |-> {}]

AccountTypeOK ==
    /\ subs \in [AccountSubs -> AccountSubscription] /\ devices \in [Devices -> Device] /\ assigned \in PlaceOrder
    /\ access \in [Devices -> {"none", "creating", "enabled", "disabled", "orphan"}]
    /\ members \subseteq Users /\ seats \in 0..1 /\ owed \in BOOLEAN
    /\ account \in [suspended : BOOLEAN, leaving : BOOLEAN, deleted : BOOLEAN, banned : SUBSET {"admin", "deletion"}]
    /\ calls \in [Callers -> Call]
    /\ counts \in [acts : 0..MaxActs, deaths : 0..MaxCallDeaths]

-----------------------------------------------------------------------------
(* Entitlement *)

LiveSub(s) == s \in AccountSubs /\ subs[s].status = "live"
deviceCapacity(s) == Included * (1 + subs[s].packs)
Earlier(ds, d, e) == ds[e].status = "ACTIVE" /\ ds[e].seq < ds[d].seq

\* device_entitlement, of the devices as ds has them: a place on a live subscription, or one of the grant's.
DeviceEntitled(ds, d) ==
    /\ ds[d].status = "ACTIVE" /\ ~account.suspended /\ ~account.leaving
    /\ IF LiveSub(ds[d].sub)
       THEN Cardinality({e \in Devices : Earlier(ds, d, e) /\ ds[e].sub = ds[d].sub}) < deviceCapacity(ds[d].sub)
       ELSE Cardinality({e \in Devices : Earlier(ds, d, e) /\ ~LiveSub(ds[e].sub)}) < seats

getEffectiveEntitlement == seats > 0 \/ \E s \in AccountSubs : LiveSub(s)

UsedOn(s) == Cardinality({d \in Devices : devices[d].status = "ACTIVE" /\ devices[d].sub = s})
WithRoom == {s \in AccountSubs : LiveSub(s) /\ UsedOn(s) < deviceCapacity(s)}

\* Of several with room the oldest is taken: here any.
Picks(s) == IF WithRoom = {} THEN s = NoSub ELSE s \in WithRoom

\* reconcileDeviceProvisioning: the identity of a device that is entitled, and its user a member, is
\* created or enabled, that of another is disabled.
Reconciled(ds, d) ==
    IF ds[d].user \in members /\ DeviceEntitled(ds, d)
    THEN CASE access[d] = "none" -> "creating" [] access[d] = "disabled" -> "enabled" [] OTHER -> access[d]
    ELSE IF access[d] = "enabled" THEN "disabled" ELSE access[d]

Free == {d \in Devices : devices[d].status = "none" /\ access[d] = "none"}
Inserted(d, user, s) ==
    [devices EXCEPT ![d] = [status |-> "ACTIVE", user |-> user, sub |-> s, seq |-> assigned + 1]]

\* ensureMemberDevices: a member who never had a device gets one.
WithoutDevice == {u \in members : \A d \in Devices : devices[d].status = "none" \/ devices[d].user # u}

\* While setExtraPacks is between its check and its write, a device that takes a place is the race "packs".
PlacesFixed == "packs" \notin Admitted => \A c \in Callers : calls[c].op = "packs" => calls[c].pc # "write"

\* Every device of the account.  A deleted account has none.
Reconcile ==
    IF WithoutDevice # {} /\ getEffectiveEntitlement /\ ~account.deleted
    THEN \E u \in WithoutDevice, d \in Free, s \in AccountSubs \cup {NoSub} :
             /\ Picks(s) /\ PlacesFixed
             /\ devices' = Inserted(d, u, s) /\ assigned' = assigned + 1
             /\ access' = [e \in Devices |-> Reconciled(devices', e)]
    ELSE access' = [d \in Devices |-> Reconciled(devices, d)] /\ UNCHANGED <<devices, assigned>>

-----------------------------------------------------------------------------
(* Requests *)

CallAt(c, pc) == calls[c].pc = pc
Goes(c, pc) == calls' = [calls EXCEPT ![c].pc = pc]
Ends(c) == calls' = [calls EXCEPT ![c] = NoCall]
Acts == counts.acts < MaxActs /\ counts' = [counts EXCEPT !.acts = @ + 1]
Begins(c, op, pc, call) ==
    /\ CallAt(c, "idle") /\ ~account.deleted /\ Acts
    /\ calls' = [calls EXCEPT ![c] = [call EXCEPT !.op = op, !.pc = pc]]

\* The end of most requests.
SyncAccount(c) ==
    /\ CallAt(c, "sync") /\ Reconcile /\ Ends(c)
    /\ UNCHANGED <<subs, members, account, seats, owed, counts>>

\* As if one device too many were allowed.
AskPacks_OneOver(c, s, n) ==
    /\ LiveSub(s) /\ n # subs[s].packs
    /\ UsedOn(s) <= Included * (1 + n) + 1
    /\ Begins(c, "packs", "write", [NoCall EXCEPT !.sub = s, !.packs = n])
    /\ UNCHANGED <<rows, access, owed>>
\* setExtraPacks: never below the devices that use the subscription.
AskPacks(c, s, n) ==
    /\ LiveSub(s) /\ n # subs[s].packs
    /\ UsedOn(s) <= Included * (1 + n)
    /\ Begins(c, "packs", "write", [NoCall EXCEPT !.sub = s, !.packs = n])
    /\ UNCHANGED <<rows, access, owed>>
\* Stripe changed the quantity; the row follows.
MirrorPacks(c) ==
    /\ CallAt(c, "write") /\ calls[c].op = "packs"
    /\ subs' = [subs EXCEPT ![calls[c].sub].packs = calls[c].packs]
    /\ Goes(c, "sync")
    /\ UNCHANGED <<devices, assigned, members, account, seats, access, owed, counts>>

AskMove(c, d, s) ==
    /\ devices[d].status = "ACTIVE" /\ devices[d].sub # s /\ s \in WithRoom
    /\ Begins(c, "move", "write", [NoCall EXCEPT !.device = d, !.sub = s])
    /\ UNCHANGED <<rows, access, owed>>
\* Guarded by the device's id alone.
WriteMove(c) ==
    /\ CallAt(c, "write") /\ calls[c].op = "move" /\ PlacesFixed
    /\ IF devices[calls[c].device].status = "none" THEN UNCHANGED <<devices, assigned>>
       ELSE /\ devices' = [devices EXCEPT ![calls[c].device].sub = calls[c].sub, ![calls[c].device].seq = assigned + 1]
            /\ assigned' = assigned + 1
    /\ Goes(c, "sync")
    /\ UNCHANGED <<subs, members, account, seats, access, owed, counts>>

\* removeDevice reconciles the account afterwards; the website's revoke and a sign-out do not.
AskRevoke(c, d, op) ==
    /\ devices[d].status = "ACTIVE"
    /\ Begins(c, op, "revoke", [NoCall EXCEPT !.todo = {d}])
    /\ UNCHANGED <<rows, access, owed>>

\* As if no job were queued for the marked device.
RevokeNext_MarkOnly(c, d) ==
    /\ CallAt(c, "revoke") /\ d \in calls[c].todo
    /\ devices' = [devices EXCEPT ![d].status = "REVOKED"]
    /\ calls' = [calls EXCEPT ![c].todo = @ \ {d}]
    /\ UNCHANGED <<subs, assigned, members, account, seats, access, owed, counts>>
\* revokeDevice of what is on the list, guarded by the status that was read.
RevokeNext(c, d) ==
    LET reads == [calls[c] EXCEPT !.todo = @ \ {d}]
    IN /\ CallAt(c, "revoke") /\ d \in calls[c].todo
       /\ IF d \in calls[c].revoked THEN calls' = [calls EXCEPT ![c] = [reads EXCEPT !.pc = "jobs", !.device = d]] /\ UNCHANGED devices
          ELSE IF devices[d].status = "ACTIVE"
          THEN /\ devices' = [devices EXCEPT ![d].status = "REVOKED"]
               /\ calls' = [calls EXCEPT ![c] = [reads EXCEPT !.pc = "jobs", !.device = d]]
          ELSE calls' = [calls EXCEPT ![c] = reads] /\ UNCHANGED devices
       /\ UNCHANGED <<subs, assigned, members, account, seats, access, owed, counts>>
DisableJobs(c) ==
    /\ CallAt(c, "jobs")
    /\ access' = [access EXCEPT ![calls[c].device] = IF @ = "enabled" THEN "disabled" ELSE @]
    /\ Goes(c, "revoke")
    /\ UNCHANGED <<rows, owed, counts>>
Revoked(c) ==
    /\ CallAt(c, "revoke") /\ calls[c].todo = {}
    /\ CASE calls[c].op = "remove" -> Goes(c, "sync")
         [] calls[c].op \in {"delete", "tick"} -> Goes(c, "ban")
         [] OTHER -> Ends(c)
    /\ UNCHANGED <<rows, access, owed, counts>>

\* ensureSessionDevice; POST devices, which the customer may aim at a subscription, and which is
\* refused when no live subscription has room.
AskDevice(c, user, s, op) ==
    /\ user \in members
    /\ IF op = "add" THEN s \in WithRoom \/ (s = NoSub /\ \A t \in AccountSubs : ~LiveSub(t)) ELSE Picks(s)
    /\ Begins(c, op, "insert", [NoCall EXCEPT !.user = user, !.sub = s])
    /\ UNCHANGED <<rows, access, owed>>
InsertDevice(c, d) ==
    /\ CallAt(c, "insert") /\ d \in Free /\ Cardinality(Free) > Cardinality(WithoutDevice \ {calls[c].user}) /\ PlacesFixed
    /\ devices' = Inserted(d, calls[c].user, calls[c].sub) /\ assigned' = assigned + 1
    /\ calls' = [calls EXCEPT ![c].device = d, ![c].pc = IF calls[c].op = "add" THEN "budget" ELSE "sync"]
    /\ UNCHANGED <<subs, members, account, seats, access, owed, counts>>
\* Over the node's budget of changes the row is deleted again.
BudgetRefuses(c) ==
    LET d == calls[c].device
    IN /\ CallAt(c, "budget")
       /\ "create" \notin Admitted => access[d] = "none"
       /\ devices' = [devices EXCEPT ![d] = NoDeviceRow] /\ Ends(c)
       /\ UNCHANGED <<subs, assigned, members, account, seats, access, owed, counts>>
\* Without any entitlement nothing is reconciled.
BudgetAllows(c) ==
    /\ CallAt(c, "budget")
    /\ IF getEffectiveEntitlement THEN Goes(c, "sync") ELSE Ends(c)
    /\ UNCHANGED <<rows, access, owed, counts>>

\* assignDeviceProfile: checked again after the write; reconciles this device only, when it is entitled.
AskProfile(c, d) ==
    /\ devices[d].status = "ACTIVE"
    /\ Begins(c, "assign", "gate", [NoCall EXCEPT !.device = d])
    /\ UNCHANGED <<rows, access, owed>>
Gate(c) ==
    /\ CallAt(c, "gate")
    /\ IF DeviceEntitled(devices, calls[c].device) THEN Goes(c, "sync one") ELSE Ends(c)
    /\ UNCHANGED <<rows, access, owed, counts>>
\* With the status and the entitlement that were read.
SyncDevice(c) ==
    LET d == calls[c].device
    IN /\ CallAt(c, "sync one") /\ Ends(c)
       /\ access' = IF DeviceEntitled(devices, d) THEN [access EXCEPT ![d] = Reconciled(devices, d)] ELSE access
       /\ UNCHANGED <<rows, owed, counts>>

\* The grant is inserted or revoked in one transaction, then the account is reconciled.
SeatsBecome(c, n) ==
    /\ n # seats /\ seats' = n
    /\ Begins(c, "grant", "sync", NoCall)
    /\ UNCHANGED <<subs, devices, assigned, members, account, access, owed>>
AskGrant(c) == SeatsBecome(c, 1)
EndGrant(c) == SeatsBecome(c, 0)

\* A member leaves: the devices are read before remove_account_member, and revoked after it.
AskLeave(c) ==
    LET theirs == {d \in Devices : devices[d].status # "none" /\ devices[d].user = "member"}
    IN /\ "member" \in members
       /\ Begins(c, "leave", "leave", [NoCall EXCEPT !.todo = theirs, !.revoked = {d \in theirs : devices[d].status = "REVOKED"}])
       /\ UNCHANGED <<rows, access, owed>>
RemoveMember(c) ==
    /\ CallAt(c, "leave")
    /\ members' = members \ {"member"}
    /\ Goes(c, "revoke")
    /\ UNCHANGED <<subs, devices, assigned, account, seats, access, owed, counts>>

\* disable.js and enable.js: the identities to switch are read, then one transaction sets
\* suspended_at and inserts their jobs.  It casts the bigint vpn_accounts.id to uuid: with a job to
\* insert it raises, and nothing is written.
AskSuspension(c, op) ==
    /\ Begins(c, op, "suspend", [NoCall EXCEPT !.todo =
           {d \in Devices : devices[d].user \in members /\ access[d] = IF op = "suspend" THEN "enabled" ELSE "disabled"}])
    /\ UNCHANGED <<rows, access, owed>>
SetSuspension(c) ==
    /\ CallAt(c, "suspend")
    /\ IF calls[c].todo = {} THEN /\ account' = [account EXCEPT !.suspended = calls[c].op = "suspend"] /\ Goes(c, "ban")
       ELSE Ends(c) /\ UNCHANGED account
    /\ UNCHANGED <<subs, devices, assigned, members, seats, access, owed, counts>>

-----------------------------------------------------------------------------
(* Deletion *)

\* The saga sees subscriptions that are live; an open checkout, or a failed payment that is over its
\* grace, is the race "checkout".
Deleting == account.leaving \/ \E c \in Callers : calls[c].op = "delete"
Listable(status) == "checkout" \notin Admitted /\ Deleting => status \notin {"incomplete", "lapsed"}

\* requestAccountDeletion.
AskDeletion(c) ==
    /\ "checkout" \notin Admitted => \A s \in AccountSubs : subs[s].status \notin {"incomplete", "lapsed"}
    /\ Begins(c, "delete", "mark", NoCall)
    /\ UNCHANGED <<rows, access, owed>>
MarkDeletion(c) ==
    /\ CallAt(c, "mark")
    /\ account' = [account EXCEPT !.leaving = TRUE]
    /\ Goes(c, "list")
    /\ UNCHANGED <<subs, devices, assigned, members, seats, access, owed, counts>>
\* finalizeAccountDeletions: every minute, the same saga again, one tick after the other.
Tick(c) ==
    /\ CallAt(c, "idle") /\ account.leaving /\ ~account.deleted
    /\ \A other \in Callers : calls[other].op # "tick"
    /\ calls' = [calls EXCEPT ![c] = [NoCall EXCEPT !.op = "tick", !.pc = "list"]]
    /\ UNCHANGED <<rows, access, owed, counts>>

\* runDeletionSaga: cancels every live subscription at Stripe and in its row, ...
ListSubs(c) ==
    /\ CallAt(c, "list")
    /\ calls' = [calls EXCEPT ![c].pc = "stripe", ![c].todo = {s \in AccountSubs : LiveSub(s)}]
    /\ UNCHANGED <<rows, access, owed, counts>>

CancelNext(c, s) ==
    /\ CallAt(c, "stripe") /\ s \in calls[c].todo
    /\ subs' = [subs EXCEPT ![s].charged = FALSE]
    /\ owed' = TRUE
    /\ calls' = [calls EXCEPT ![c].pc = "mirror", ![c].sub = s, ![c].todo = @ \ {s}]
    /\ UNCHANGED <<devices, assigned, members, account, seats, access, counts>>

\* As if the mirror spelt the status otherwise than the queries that read it.
MirrorCancel_Misspelt(c) ==
    /\ CallAt(c, "mirror")
    /\ subs' = [subs EXCEPT ![calls[c].sub].status = "cancelled"]
    /\ Goes(c, "stripe")
    /\ UNCHANGED <<devices, assigned, members, account, seats, access, owed, counts>>
MirrorCancel(c) ==
    /\ CallAt(c, "mirror")
    /\ subs' = [subs EXCEPT ![calls[c].sub].status = "canceled"]
    /\ Goes(c, "stripe")
    /\ UNCHANGED <<devices, assigned, members, account, seats, access, owed, counts>>
\* ... revokes every device that is not revoked, ...
ListDevices(c) ==
    /\ CallAt(c, "stripe") /\ calls[c].todo = {}
    /\ calls' = [calls EXCEPT ![c].pc = "revoke", ![c].todo = {d \in Devices : devices[d].status = "ACTIVE"}]
    /\ UNCHANGED <<rows, access, owed, counts>>
\* ... and bans sign-in.  Suspension ends with a ban too, and reinstatement lifts any.
Ban(c) ==
    /\ CallAt(c, "ban")
    /\ account' = [account EXCEPT !.banned = CASE calls[c].op = "suspend" -> @ \cup {"admin"}
                                               [] calls[c].op = "reinstate" -> {}
                                               [] OTHER -> @ \cup {"deletion"}]
    /\ IF calls[c].op = "tick" THEN Goes(c, "finish") ELSE Ends(c)
    /\ UNCHANGED <<subs, devices, assigned, members, seats, access, owed, counts>>
\* Waits for enabled identities and for jobs of known identities: the creation of one is neither.
Finish(c) ==
    /\ CallAt(c, "finish")
    /\ "create" \notin Admitted => \A d \in Devices : access[d] # "creating"
    /\ IF \E d \in Devices : access[d] = "enabled" /\ devices[d].user \in members
       THEN UNCHANGED <<devices, account>>
       ELSE /\ account' = [account EXCEPT !.deleted = TRUE]
            /\ devices' = [d \in Devices |-> NoDeviceRow]
    /\ Ends(c)
    /\ UNCHANGED <<subs, assigned, members, seats, access, owed, counts>>

-----------------------------------------------------------------------------
(* Stripe, the nodes, and death *)

\* Checkout completes, payment succeeds, the grace of a failed payment ends (which no event tells), it
\* is paid late, the subscription ends.
SubMoves(s) ==
    LET Becomes(from, to, charged, told) ==
            /\ subs[s].status \in from
            /\ subs' = [subs EXCEPT ![s].status = to, ![s].charged = charged]
            /\ owed' = (owed \/ told)
    IN /\ Acts
       /\ \/ Becomes({"none"}, "incomplete", FALSE, FALSE)
          \/ Becomes({"incomplete", "lapsed"}, "live", TRUE, TRUE)
          \/ subs[s].charged /\ Becomes({"live"}, "lapsed", TRUE, FALSE)
          \/ Becomes({"live", "lapsed"}, "canceled", FALSE, TRUE)
       /\ Listable(subs'[s].status)
       /\ UNCHANGED <<devices, assigned, members, account, seats, access, calls>>
Webhook ==
    /\ owed /\ owed' = FALSE /\ Reconcile
    /\ UNCHANGED <<subs, members, account, seats, calls, counts>>

\* As if the entitlement were not asked.
AgentCreatesAccess_NoGate(d) ==
    /\ access[d] = "creating"
    /\ access' = [access EXCEPT ![d] = "enabled"]
    /\ UNCHANGED <<rows, owed, calls, counts>>
\* The agent reports the identity; finalizeCreatedIdentity asks whether the device is entitled.  The
\* report for a device whose row is gone is refused for ever.
AgentCreatesAccess(d) ==
    /\ access[d] = "creating"
    /\ access' = [access EXCEPT ![d] = IF devices[d].status = "none" THEN "orphan"
                                       ELSE IF DeviceEntitled(devices, d) THEN "enabled" ELSE "disabled"]
    /\ UNCHANGED <<rows, owed, calls, counts>>

CallDies(c) ==
    /\ ~CallAt(c, "idle")
    /\ "revocation" \notin Admitted => ~CallAt(c, "jobs")
    /\ counts.deaths < MaxCallDeaths /\ counts' = [counts EXCEPT !.deaths = @ + 1]
    /\ Ends(c)
    /\ UNCHANGED <<rows, access, owed>>

-----------------------------------------------------------------------------
\* A new customer, an account with a support grant, or one from the time of shared accounts whose
\* subscriptions' events are still to come; with a first device.
AccountInit ==
    /\ \E status \in {"none", "live"} :
           /\ subs = [s \in AccountSubs |-> [status |-> status, packs |-> IF status = "live" THEN MaxPacks ELSE 0, charged |-> status = "live"]]
           /\ owed = (status = "live")
           /\ members = IF status = "live" THEN Users ELSE {"owner"}
           /\ seats \in IF status = "live" THEN {0} ELSE 0..1
    /\ \E d \in Devices, u \in members :
           devices = [e \in Devices |-> IF e = d THEN [status |-> "ACTIVE", user |-> u, sub |-> NoSub, seq |-> 1] ELSE NoDeviceRow]
    /\ assigned = 1
    /\ access = [d \in Devices |-> "none"]
    /\ account = [suspended |-> FALSE, leaving |-> FALSE, deleted |-> FALSE, banned |-> {}]
    /\ calls = [c \in Callers |-> NoCall]
    /\ counts = [acts |-> 0, deaths |-> 0]

Asks(c) ==
    \/ \E s \in AccountSubs, n \in 0..MaxPacks : AskPacks(c, s, n)
    \/ \E d \in Devices, s \in AccountSubs : AskMove(c, d, s)
    \/ \E op \in {"remove", "revoke"}, d \in Devices : AskRevoke(c, d, op)
    \/ \E op \in {"sign-in", "add"}, user \in Users, s \in AccountSubs \cup {NoSub} : AskDevice(c, user, s, op)
    \/ \E d \in Devices : AskProfile(c, d)
    \/ AskGrant(c) \/ EndGrant(c)
    \/ \E op \in {"suspend", "reinstate"} : AskSuspension(c, op)
    \/ AskLeave(c) \/ AskDeletion(c) \/ Tick(c)

Goes_on(c) ==
    \/ SyncAccount(c) \/ MirrorPacks(c) \/ WriteMove(c) \/ DisableJobs(c) \/ Revoked(c)
    \/ \E d \in Devices : RevokeNext(c, d) \/ InsertDevice(c, d)
    \/ BudgetRefuses(c) \/ BudgetAllows(c) \/ Gate(c) \/ SyncDevice(c) \/ RemoveMember(c) \/ SetSuspension(c)
    \/ MarkDeletion(c) \/ ListSubs(c) \/ MirrorCancel(c) \/ ListDevices(c) \/ Ban(c) \/ Finish(c)
    \/ \E s \in AccountSubs : CancelNext(c, s)

AccountNext ==
    \/ \E c \in Callers : (CallAt(c, "idle") /\ Asks(c)) \/ Goes_on(c) \/ CallDies(c)
    \/ \E s \in AccountSubs : SubMoves(s)
    \/ \E d \in Devices : AgentCreatesAccess(d)
    \/ Webhook

AccountSpec == AccountInit /\ [][AccountNext]_accountVars

-----------------------------------------------------------------------------
(* Properties *)

Quiet == ~owed /\ \A c \in Callers : CallAt(c, "idle")

\* However requests and Stripe's events interleave: once they are done, only devices that
\* device_entitlement allows are served, so never more than a subscription's capacity.  (A grace that
\* ended tells nobody; disable.js does not see an identity that was enabled after it looked.)
ServedIsEntitled ==
    (Quiet /\ counts.deaths = 0 /\ ~account.suspended /\ \A s \in AccountSubs : subs[s].status # "lapsed")
        => \A d \in Devices : access[d] = "enabled" => DeviceEntitled(devices, d)

\* "So nobody is cut off by a billing change" (setExtraPacks): a device that has a place keeps it when
\* the packs change.
PacksKeepPlaces ==
    [][\A c \in Callers : CallAt(c, "write") /\ calls[c].op = "packs" /\ calls'[c].pc = "sync"
           => \A d \in Devices : DeviceEntitled(devices, d) => DeviceEntitled(devices, d)']_accountVars

\* runDeletionSaga "must never leave a user banned ... while still being charged".
BannedNotCharged == "deletion" \in account.banned => \A s \in AccountSubs : ~subs[s].charged

\* Wherever the deletion saga died, its next run finds what is left to do: no revoked device keeps a
\* working identity that no further run would touch.
DeletionNotStuck ==
    (Quiet /\ account.leaving) => \A d \in Devices : devices[d].status = "REVOKED" => access[d] # "enabled"

\* A deletion is never half done for good: neither billed after the ban nor served after the end.
DeletionHolds == BannedNotCharged /\ DeletionNotStuck
=============================================================================
