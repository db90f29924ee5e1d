------------------------------ MODULE StripeBilling ------------------------------
(***************************************************************************)
(* Stripe's events and what they do to an account: the webhook             *)
(* (stripe-webhook.js), its handlers (stripe-events.js) and the entitlement *)
(* they compute (accounts.js, subscriptions.js).                           *)
(*                                                                         *)
(* Stripe tells of every change of a subscription by events, which it may  *)
(* deliver in any order, more than once, and two at a time; it repeats an  *)
(* event until it is answered with 2xx.  A delivery looks the event up,    *)
(* records it, reads the subscription's row, compares, writes, queues jobs *)
(* and marks the event processed: each is a step, and a delivery may fail  *)
(* between any two.  The queue and the nodes are those of ProvisioningJobs; *)
(* here a job that is queued takes effect at once, except the creation of  *)
(* the identity, which the node's agent reports later.                     *)
(***************************************************************************)
EXTENDS Integers, Sequences, FiniteSets

CONSTANTS
    Subs,          \* the subscriptions of one account
    Deliveries,    \* deliveries that can be in progress
    MaxPeriod,     \* service periods
    MaxChanges,    \* bound: how often something happens at Stripe
    MaxTrouble,    \* bound: deliveries that fail or begin while another is in progress
    AtomicWrites,  \* a row is read and written by one delivery at a time
    PromptMapping  \* a subscription is mapped before it is deleted

Status == {"none", "incomplete", "trialing", "active", "past_due", "unpaid", "canceled"}
LIVE_STATUSES == {"trialing", "active", "past_due"}

ASSUME BillingParameters ==
    /\ MaxPeriod \in Nat \ {0} /\ {MaxChanges, MaxTrouble} \subseteq Nat
    /\ AtomicWrites \in BOOLEAN /\ PromptMapping \in BOOLEAN

VARIABLES
    stripe,         \* [Subs -> ...]: the subscriptions as Stripe has them
    changes,        \* how many changes there were: the clock of event.created
    events,         \* Seq(Event): what Stripe has to deliver
    inbox,          \* stripe_events: [index of an event -> "absent", "recorded", "processed"]
    acked,          \* the events that were answered with 2xx
    subscriptions,  \* [Subs -> Row]: the table subscriptions
    delivery,       \* [Deliveries -> ...]: the requests in progress
    identity,       \* the VPN identity of the account's device
    jobKeys,        \* idempotency keys of the jobs that were queued
    grant,          \* a support grant is in force
    trouble         \* deliveries that failed, and that overlapped another

billingVars == <<stripe, changes, events, inbox, acked, subscriptions, delivery, identity,
                 jobKeys, grant, trouble>>
stripeSide == <<stripe, changes, events>>
service == <<identity, jobKeys>>

-----------------------------------------------------------------------------
(* Types *)

\* invoice: when the latest invoice was created.  paid, lapsed: it was ever paid for (or in its
\* trial), and ever unpaid.  approved: the base price is one this deployment sells.
Subscription == [status : Status, period : 0..MaxPeriod, approved : BOOLEAN,
                 invoice : 0..MaxChanges, paid : BOOLEAN, lapsed : BOOLEAN]

EventType == {"checkout.session.completed", "invoice.paid", "customer.subscription.created",
              "customer.subscription.updated", "customer.subscription.deleted"}
\* created: of the event, of the invoice in an invoice.paid.  first: billing_reason is subscription_create.
Event == [type : EventType, sub : Subs, status : Status, period : 0..MaxPeriod,
          approved : BOOLEAN, created : 0..MaxChanges, first : BOOLEAN]

\* synced: stripe_synced_at, 0 when null.  pastDue: past_due_since is null, within the grace or over it.
Row == [status : Status, period : 0..MaxPeriod, synced : 0..MaxChanges,
        pastDue : {"no", "within", "over"}]

Handler == {"map", "paid", "trialing", "updated", "deleted", "none"}
\* seen: the row as it was read, where the handler compares it later.
Delivery == [pc : {"idle", "insert", "read", "write", "sync", "mark"}, event : Nat, handler : Handler, seen : Row]

NoRow == [status |-> "none", period |-> 0, synced |-> 0, pastDue |-> "no"]
NoDelivery == [pc |-> "idle", event |-> 0, handler |-> "none", seen |-> NoRow]

JobKey == {"create-user", "invoice-paid", "subscription-updated", "stripe-ended", "disable-user"}
              \X Subs \X (0..MaxPeriod) \X {"create", "enable", "disable"}

BillingTypeOK ==
    /\ stripe \in [Subs -> Subscription] /\ changes \in 0..MaxChanges
    /\ events \in Seq(Event)
    /\ inbox \in [1..Len(events) -> {"absent", "recorded", "processed"}]
    /\ acked \subseteq 1..Len(events)
    /\ subscriptions \in [Subs -> Row]
    /\ delivery \in [Deliveries -> Delivery]
    /\ identity \in {"none", "creating", "enabled", "disabled"}
    /\ jobKeys \subseteq JobKey
    /\ grant \in BOOLEAN /\ trouble \in [failed : 0..MaxTrouble, overlapped : 0..MaxTrouble]

-----------------------------------------------------------------------------
(* Stripe *)

\* Stripe's subscription becomes sub; the events describe it as it is then.
Happens(s, sub, tell) ==
    /\ changes < MaxChanges
    /\ changes' = changes + 1
    /\ stripe' = [stripe EXCEPT ![s] = sub]
    /\ LET Told(t) == [type |-> t.type, sub |-> s, status |-> sub.status, period |-> sub.period,
                       approved |-> sub.approved, first |-> t.first,
                       created |-> IF t.type = "invoice.paid" THEN sub.invoice ELSE changes + 1]
       IN /\ events' = events \o [i \in 1..Len(tell) |-> Told(tell[i])]
          /\ inbox' = [i \in 1..Len(events') |-> IF i \in DOMAIN inbox THEN inbox[i] ELSE "absent"]
    /\ UNCHANGED <<acked, subscriptions, delivery, service, grant, trouble>>

Say(type) == [type |-> type, first |-> FALSE]
Updated == Say("customer.subscription.updated")
Deleted == Say("customer.subscription.deleted")
InvoicePaid(first) == [type |-> "invoice.paid", first |-> first]

\* Checkout completes: a trial starts at once (with or without an invoice of nothing), else payment follows.
CheckoutCompletes(s, trial, approved, zeroInvoice) ==
    /\ stripe[s].status = "none" /\ (zeroInvoice => trial)
    /\ Happens(s, [status |-> IF trial THEN "trialing" ELSE "incomplete", period |-> IF trial THEN 1 ELSE 0,
                   approved |-> approved, invoice |-> changes + 1, paid |-> trial, lapsed |-> FALSE],
               <<Say("checkout.session.completed")>>
                   \o (IF trial THEN <<Say("customer.subscription.created")>> ELSE <<>>)
                   \o (IF zeroInvoice THEN <<InvoicePaid(TRUE)>> ELSE <<>>))
FirstPayment(s) ==
    /\ stripe[s].status = "incomplete"
    /\ Happens(s, [stripe[s] EXCEPT !.status = "active", !.period = 1, !.paid = TRUE], <<InvoicePaid(TRUE), Updated>>)
Renews(s) ==
    /\ stripe[s].status \in {"trialing", "active"} /\ stripe[s].period < MaxPeriod
    /\ Happens(s, [stripe[s] EXCEPT !.status = "active", !.period = @ + 1, !.invoice = changes + 1], <<Updated, InvoicePaid(FALSE)>>)
PaymentFails(s) ==
    /\ stripe[s].status \in {"trialing", "active"} /\ stripe[s].period < MaxPeriod
    /\ Happens(s, [stripe[s] EXCEPT !.status = "past_due", !.period = @ + 1, !.invoice = changes + 1], <<Updated>>)
PaidLate(s) ==
    /\ stripe[s].status \in {"past_due", "unpaid"}
    /\ Happens(s, [stripe[s] EXCEPT !.status = "active"], <<InvoicePaid(FALSE), Updated>>)
DunningEnds(s) ==
    /\ stripe[s].status = "past_due"
    /\ Happens(s, [stripe[s] EXCEPT !.status = "unpaid", !.lapsed = TRUE], <<Updated>>)
Cancel(s) ==
    /\ stripe[s].status \notin {"none", "canceled"}
    /\ Happens(s, [stripe[s] EXCEPT !.status = "canceled"], <<Deleted>>)
\* In the dashboard: to a base price this deployment does not sell.
Edited(s) ==
    /\ stripe[s].status \in LIVE_STATUSES /\ stripe[s].approved
    /\ Happens(s, [stripe[s] EXCEPT !.approved = FALSE], <<Updated>>)

StripeActs ==
    \E s \in Subs : \/ \E trial, approved, zero \in BOOLEAN : CheckoutCompletes(s, trial, approved, zero)
                    \/ FirstPayment(s) \/ Renews(s) \/ PaymentFails(s) \/ PaidLate(s)
                    \/ DunningEnds(s) \/ Cancel(s) \/ Edited(s)

-----------------------------------------------------------------------------
(* Entitlement (accounts.js) *)

isLive(r) == r.status \in LIVE_STATUSES /\ (r.status = "past_due" => r.pastDue # "over")
LiveRows == {s \in Subs : isLive(subscriptions[s])}
\* getEffectiveEntitlement: a live subscription or a grant.
Entitled == LiveRows # {} \/ grant

GraceEnds(s) ==
    /\ subscriptions[s].pastDue = "within"
    /\ subscriptions' = [subscriptions EXCEPT ![s].pastDue = "over"]
    /\ UNCHANGED <<stripeSide, inbox, acked, delivery, service, grant, trouble>>

\* syncAccountProvisioningToEntitlement: every job has a key made of the prefix and what it is for,
\* and the job of a taken key is not queued.  Jobs that set an expiry change no access.
Sync(prefix, s, k) ==
    LET job == IF Entitled THEN CASE identity = "none" -> "create"
                                  [] identity = "disabled" -> "enable"
                                  [] OTHER -> "nothing"
               ELSE IF identity = "enabled" THEN "disable" ELSE "nothing"
        key == <<prefix, s, k, job>>
    IN IF job = "nothing" \/ key \in jobKeys THEN UNCHANGED service
       ELSE /\ jobKeys' = jobKeys \cup {key}
            /\ identity' = [create |-> "creating", enable |-> "enabled", disable |-> "disabled"][job]

\* The agent reports the identity; finalizeCreatedIdentity asks again whether the device is entitled.
AgentCreates ==
    /\ identity = "creating"
    /\ identity' = IF Entitled THEN "enabled" ELSE "disabled"
    /\ UNCHANGED <<stripeSide, inbox, acked, subscriptions, delivery, jobKeys, grant, trouble>>

-----------------------------------------------------------------------------
(* The webhook *)

EventOf(h) == events[delivery[h].event]
At(h, pc) == delivery[h].pc = pc
Goto(h, pc) == delivery' = [delivery EXCEPT ![h].pc = pc]
Troubles == trouble.failed + trouble.overlapped
Done(h) == delivery' = [delivery EXCEPT ![h] = NoDelivery]

HandlerOf(e) ==
    CASE e.type = "checkout.session.completed" -> "map"
      [] e.type = "invoice.paid" -> "paid"
      [] e.type = "customer.subscription.deleted" -> "deleted"
      [] e.type = "customer.subscription.created" -> "trialing"
      [] OTHER -> IF e.status = "trialing" THEN "trialing" ELSE "updated"

\* Looks the event up: one that was processed is answered at once.
Deliver(h, i) ==
    /\ At(h, "idle") /\ i \in DOMAIN inbox /\ i \notin acked
    /\ (PromptMapping /\ events[i].type = "customer.subscription.deleted") =>
           \A j \in DOMAIN inbox : events[j].type = "checkout.session.completed" /\ events[j].sub = events[i].sub
                                       => inbox[j] = "processed"
    /\ IF inbox[i] = "processed" THEN acked' = acked \cup {i} /\ UNCHANGED delivery
       ELSE /\ delivery' = [delivery EXCEPT ![h] = [pc |-> IF inbox[i] = "absent" THEN "insert" ELSE "read", event |-> i,
                                                    handler |-> HandlerOf(events[i]), seen |-> NoRow]]
            /\ UNCHANGED acked
    /\ IF \A g \in Deliveries : At(g, "idle") THEN UNCHANGED trouble
       ELSE Troubles < MaxTrouble /\ trouble' = [trouble EXCEPT !.overlapped = @ + 1]
    /\ UNCHANGED <<stripeSide, inbox, subscriptions, service, grant>>

\* Records the event; when another delivery of it did so meanwhile, leaves it to that one and answers 200.
RecordEvent(h) ==
    LET i == delivery[h].event
    IN /\ At(h, "insert")
       /\ IF inbox[i] = "absent" THEN Goto(h, "read") /\ inbox' = [inbox EXCEPT ![i] = "recorded"] /\ UNCHANGED acked
          ELSE Done(h) /\ acked' = acked \cup {i} /\ UNCHANGED inbox
       /\ UNCHANGED <<stripeSide, subscriptions, service, grant, trouble>>

\* An updated event of a trial is handled as a trial, then as an update.
AfterHandler(h) ==
    IF EventOf(h).type = "customer.subscription.updated" /\ delivery[h].handler = "trialing"
    THEN delivery' = [delivery EXCEPT ![h].handler = "updated", ![h].pc = "read"]
    ELSE delivery' = [delivery EXCEPT ![h].handler = "none", ![h].pc = "mark"]

\* A created event matters for trials only.  checkout.session.completed: the row is inserted once, and not at all for an unknown price.
MapCheckout(h) ==
    LET e == EventOf(h)
    IN /\ At(h, "read") /\ delivery[h].handler = "map"
       /\ subscriptions' = IF e.approved /\ subscriptions[e.sub].status = "none"
                           THEN [subscriptions EXCEPT ![e.sub] = [NoRow EXCEPT !.status = "incomplete"]] ELSE subscriptions
       /\ AfterHandler(h)
       /\ UNCHANGED <<stripeSide, inbox, acked, service, grant, trouble>>

isStaleSubscriptionWrite(current, created, next) ==
    /\ current.status # "none"
    /\ \/ current.status = "canceled" /\ next # "canceled"
       \/ current.synced # 0 /\ created <= current.synced

Writing(s) == \E g \in Deliveries : At(g, "write") /\ EventOf(g).sub = s

\* Which events each handler leaves aside, having read the row, and the row it writes otherwise.
PaidSkips(e, current) == \/ isStaleSubscriptionWrite(current, e.created, "active")
                         \/ current.status = "canceled" \/ (current.status = "unpaid" /\ e.first)
PaidWrites(e, r) == [r EXCEPT !.status = "active", !.period = e.period, !.pastDue = "no", !.synced = e.created]

TrialSkips(e, current) == isStaleSubscriptionWrite(current, e.created, "trialing")
TrialWrites(e, r) == [PaidWrites(e, r) EXCEPT !.status = "trialing"]

UpdateSkips(e, current) == isStaleSubscriptionWrite(current, e.created, e.status) \/ ~e.approved
UpdateWrites(e, seen) ==
    [status |-> e.status, period |-> e.period, synced |-> e.created,
     pastDue |-> IF e.status # "past_due" THEN "no" ELSE IF seen.pastDue = "no" THEN "within" ELSE seen.pastDue]

DeletionSkips(e, current) == isStaleSubscriptionWrite(current, e.created, "canceled") /\ current.status = "canceled"
DeletionWrites(e, r) == [r EXCEPT !.status = "canceled", !.synced = e.created]

Skips(h, current) ==
    LET e == EventOf(h)
    IN CASE delivery[h].handler = "paid" -> PaidSkips(e, current)
         [] delivery[h].handler = "trialing" -> TrialSkips(e, current)
         [] delivery[h].handler = "updated" -> UpdateSkips(e, current)
         [] OTHER -> DeletionSkips(e, current)
Written(h, r) ==
    LET e == EventOf(h)
    IN CASE delivery[h].handler = "paid" -> PaidWrites(e, r)
         [] delivery[h].handler = "trialing" -> TrialWrites(e, r)
         [] delivery[h].handler = "updated" -> UpdateWrites(e, delivery[h].seen)
         [] OTHER -> DeletionWrites(e, r)

ReadRow(h) ==
    LET current == subscriptions[EventOf(h).sub]
    IN /\ At(h, "read") /\ delivery[h].handler \in {"paid", "trialing", "updated", "deleted"}
       /\ AtomicWrites => ~Writing(EventOf(h).sub)
       /\ IF Skips(h, current) THEN AfterHandler(h)
          ELSE delivery' = [delivery EXCEPT ![h].pc = "write",
                                                 ![h].seen = IF delivery[h].handler = "updated" THEN current ELSE NoRow]
       /\ UNCHANGED <<stripeSide, inbox, acked, subscriptions, service, grant, trouble>>

\* Without a row a deletion has nothing to end; every other handler throws and is called again.
WriteRow(h) ==
    LET e == EventOf(h)
    IN /\ At(h, "write") /\ subscriptions[e.sub].status # "none"
       /\ subscriptions' = [subscriptions EXCEPT ![e.sub] = Written(h, @)]
       /\ Goto(h, "sync")
       /\ UNCHANGED <<stripeSide, inbox, acked, service, grant, trouble>>
RowMissing(h) ==
    /\ At(h, "write") /\ subscriptions[EventOf(h).sub].status = "none"
    /\ IF delivery[h].handler = "deleted" THEN AfterHandler(h) ELSE Done(h)
    /\ UNCHANGED <<stripeSide, inbox, acked, subscriptions, service, grant, trouble>>

\* As if the identities were left to the gate of their creation.
DisableService_Not(h, s) == AfterHandler(h) /\ UNCHANGED service

\* enqueueDisableForAccount: what remains is served, else everything is disabled.  Without an
\* identity but with a CREATE_USER job of this subscription, it throws.
DisableService(h, s) ==
    IF Entitled THEN Sync("stripe-ended", s, 0) /\ AfterHandler(h)
    ELSE /\ Sync("disable-user", s, 0)
         /\ IF identity \in {"none", "creating"} /\ <<"create-user", s, 0, "create">> \in jobKeys
            THEN Done(h) ELSE AfterHandler(h)

\* enqueueCreateForMembers, for a first invoice and for a trial.
CreateService(h, s) == Sync("create-user", s, 0) /\ AfterHandler(h)

\* A renewal throws while the identity is still being created.
ExtendService(h, e) ==
    /\ Sync("invoice-paid", e.sub, e.period)
    /\ IF identity \in {"none", "creating"} THEN Done(h) ELSE AfterHandler(h)

\* An update pushes the expiry when the period advanced.
PushExpiry(h, e) ==
    /\ IF delivery[h].seen.period \in 1..(e.period - 1) /\ Entitled
       THEN Sync("subscription-updated", e.sub, 0) ELSE UNCHANGED service
    /\ AfterHandler(h)

\* The jobs of a write.  invoice.paid and a trial throw when there is no entitlement after all.
QueueJobs(h) ==
    LET e == EventOf(h)
        by == delivery[h].handler
        ends == by = "deleted" \/ (by = "updated" /\ e.status \in {"canceled", "unpaid"})
        starts == by = "trialing" \/ (by = "paid" /\ e.first)
    IN /\ At(h, "sync")
       /\ \/ ends /\ DisableService(h, e.sub)
          \/ by \in {"paid", "trialing"} /\ ~Entitled /\ Done(h) /\ UNCHANGED service
          \/ starts /\ Entitled /\ CreateService(h, e.sub)
          \/ by = "paid" /\ ~e.first /\ Entitled /\ ExtendService(h, e)
          \/ by = "updated" /\ ~ends /\ PushExpiry(h, e)
       /\ UNCHANGED <<stripeSide, inbox, acked, subscriptions, grant, trouble>>

MarkProcessed(h) ==
    /\ At(h, "mark")
    /\ inbox' = [inbox EXCEPT ![delivery[h].event] = "processed"]
    /\ acked' = acked \cup {delivery[h].event}
    /\ Done(h)
    /\ UNCHANGED <<stripeSide, subscriptions, service, grant, trouble>>

\* A statement fails or the Worker dies: the answer is not 2xx and processed_at stays null.
DeliveryFails(h) ==
    /\ ~At(h, "idle") /\ Troubles < MaxTrouble
    /\ Done(h) /\ trouble' = [trouble EXCEPT !.failed = @ + 1]
    /\ UNCHANGED <<stripeSide, inbox, acked, subscriptions, service, grant>>

-----------------------------------------------------------------------------
BillingInit ==
    /\ stripe = [s \in Subs |-> [status |-> "none", period |-> 0, approved |-> TRUE, invoice |-> 0,
                                 paid |-> FALSE, lapsed |-> FALSE]]
    /\ changes = 0 /\ events = <<>> /\ inbox = <<>> /\ acked = {}
    /\ subscriptions = [s \in Subs |-> NoRow]
    /\ delivery = [h \in Deliveries |-> NoDelivery]
    /\ identity = "none" /\ jobKeys = {}
    /\ grant \in BOOLEAN
    /\ trouble = [failed |-> 0, overlapped |-> 0]

HandlerStep(h) ==
    \/ RecordEvent(h) \/ MapCheckout(h) \/ ReadRow(h)
    \/ WriteRow(h) \/ RowMissing(h) \/ QueueJobs(h) \/ MarkProcessed(h)

BillingNext ==
    \/ StripeActs \/ AgentCreates
    \/ \E s \in Subs : GraceEnds(s)
    \/ \E h \in Deliveries : HandlerStep(h) \/ DeliveryFails(h) \/ \E i \in DOMAIN inbox : Deliver(h, i)

BillingSpec == BillingInit /\ [][BillingNext]_billingVars

-----------------------------------------------------------------------------
(* Properties *)

\* Every event was processed.
Settled == /\ \A i \in DOMAIN inbox : inbox[i] = "processed"
           /\ \A h \in Deliveries : At(h, "idle")

\* In whatever order Stripe's events arrive, however often and whichever delivery failed: once they
\* are all processed, a subscription that was sold here is live in the table exactly when it is at
\* Stripe (isStaleSubscriptionWrite is there for that).
LiveMatchesStripe ==
    Settled => \A s \in Subs : stripe[s].approved =>
        (subscriptions[s].status \in LIVE_STATUSES <=> stripe[s].status \in LIVE_STATUSES)

\* The identity never exists for an account that neither paid nor is in a trial (the header of
\* stripe-events.js: checkout.session.completed provisions nothing).
UnpaidNeverServed ==
    identity # "none" => grant \/ \E s \in Subs : stripe[s].paid

\* A subscription that is deleted at Stripe leaves no enabled identity behind: unless a delivery
\* failed, or it was unpaid and recovered before (its jobs' keys are taken), both of which are
\* findings.
EndedIsCutOff ==
    (Settled /\ trouble.failed = 0 /\ ~Entitled /\ \A s \in Subs : stripe[s].status = "canceled" /\ ~stripe[s].lapsed)
        => identity # "enabled"

\* The table, and the service that follows it, end where Stripe does.
ServiceFollowsStripe == LiveMatchesStripe /\ UnpaidNeverServed /\ EndedIsCutOff

\* A subscription that was paid for is served once every event is processed: it does not matter in
\* which order they came (stripe-events.js:271-274 retries "rather than silently dropping this
\* invoice's provisioning").
PaidIsServed ==
    (Settled /\ trouble.failed = 0)
        => \A s \in Subs : stripe[s].paid /\ stripe[s].approved /\ isLive(subscriptions[s])
                               => identity \in {"creating", "enabled"}
=============================================================================
