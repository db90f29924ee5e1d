-------------------------- MODULE BillingAndLinksProofs --------------------------
(***************************************************************************)
(* Proofs about StripeBilling, for any number of subscriptions, deliveries *)
(* and changes at Stripe, in whatever order its events arrive: every       *)
(* variable keeps its type (BillingTypeCorrect), no identity is made for   *)
(* an account that nobody paid for (UnpaidCorrect), and the table and the  *)
(* service end where Stripe does (ServiceCorrect), when a row is read and  *)
(* written by one delivery at a time and a subscription is mapped before   *)
(* it is deleted.                                                          *)
(*                                                                         *)
(* BillingFacts holds without any condition: what every event says of its  *)
(* subscription (EventHolds), that one of its events tells what Stripe has *)
(* now and that a deletion is the newest (StripeHolds), that a row has     *)
(* what one event said (RowHolds), and which delivery is at which handler  *)
(* (HandlerFits).  BillingInv adds that rows only become newer: what was   *)
(* processed is in the row, or the row is newer (Applied), whoever is      *)
(* about to write writes something newer (DeliveryHolds), one at a time    *)
(* (OneByOne), and whoever is served has a row that is not ended, or that  *)
(* a delivery is about to act on (CutsOff).                                *)
(*                                                                         *)
(* And about AccessLinks, for any number of requests, links, tokens and    *)
(* deaths: LinkTypeCorrect, and LinksWork, as long as nobody uses a link   *)
(* before the request that creates it has answered.  LinkInv says what a   *)
(* request holds (LinkRequestHolds: a token that nobody else has, and, of  *)
(* a link that it created, everything: OwnHolds), that no two requests     *)
(* meet in it (ApartLinks), and that a client that opens is either its     *)
(* owner's or that of a request about to answer (LinkClientHolds).         *)
(***************************************************************************)
EXTENDS StripeBilling, AccessLinks, SequenceTheorems, TLAPS

-----------------------------------------------------------------------------
(* The facts and the invariant *)


Of(s) == {i \in 1..Len(events) : events[i].sub = s}
OfType(s, type) == {i \in Of(s) : events[i].type = type}
\* The row that e writes is live.
TellsLive(e) == e.type = "invoice.paid" \/ e.status \in LIVE_STATUSES
Charged == {"trialing", "active", "past_due", "unpaid"}

\* What an event says, compared with what Stripe has.
EventHolds(e) ==
    /\ e.created > 0 /\ e.created <= changes /\ e.status # "none"
    /\ TellsLive(e) => stripe[e.sub].paid
    /\ e.status = "unpaid" => stripe[e.sub].lapsed
    /\ e.type = "customer.subscription.created" => e.status = "trialing"
    /\ e.type = "customer.subscription.deleted" <=> e.status = "canceled"
    /\ e.status = "canceled" => stripe[e.sub].status = "canceled"
    /\ stripe[e.sub].approved => e.approved
    /\ stripe[e.sub].status # "none"

\* The event that tells what Stripe has now: none of the subscription is newer, and one as new tells the same.
IsLatest(s, i) ==
    /\ events[i].status = stripe[s].status
    /\ \A j \in Of(s) : /\ events[j].created <= events[i].created
                        /\ events[j].created = events[i].created => (TellsLive(events[j]) <=> TellsLive(events[i]))

StripeHolds(s) ==
    /\ stripe[s].invoice <= changes
    /\ stripe[s].status = "none" => ~stripe[s].paid /\ ~stripe[s].lapsed
    /\ stripe[s].status # "none" => stripe[s].invoice > 0 /\ OfType(s, "checkout.session.completed") # {}
    /\ stripe[s].status \in Charged => stripe[s].paid
    /\ stripe[s].status = "unpaid" => stripe[s].lapsed
    /\ stripe[s].status = "incomplete" => ~stripe[s].paid /\ \A i \in Of(s) : events[i].type = "checkout.session.completed"
    /\ stripe[s].status \in Charged /\ stripe[s].approved =>
           \E i \in Of(s) : IsLatest(s, i) /\ events[i].type \in {"customer.subscription.created", "customer.subscription.updated"}
    /\ stripe[s].status = "canceled" => OfType(s, "customer.subscription.deleted") # {}
    /\ \A i \in OfType(s, "customer.subscription.deleted") : IsLatest(s, i)

\* A row has what one event says, and is canceled by a deletion.
RowHolds(s) ==
    LET r == subscriptions[s]
    IN /\ r.status # "none" => stripe[s].status # "none"
       /\ r.synced = 0 => r.status \in {"none", "incomplete"}
       /\ r.synced # 0 => /\ r.status # "none"
                          /\ \E i \in Of(s) : events[i].created = r.synced /\ (r.status \in LIVE_STATUSES <=> TellsLive(events[i]))
       /\ r.status = "canceled" => \E i \in OfType(s, "customer.subscription.deleted") : events[i].created = r.synced

\* A delivery is of an event, and at a handler of its own.
HandlerFits(h) ==
    ~At(h, "idle") =>
        /\ delivery[h].event \in 1..Len(events)
        /\ IF At(h, "mark") THEN delivery[h].handler = "none"
           ELSE \/ delivery[h].handler = HandlerOf(EventOf(h))
                \/ EventOf(h).type = "customer.subscription.updated" /\ delivery[h].handler = "updated"
        /\ delivery[h].handler = "map" => delivery[h].pc \in {"insert", "read"}

\* The account is not served before somebody paid.
BillingFacts ==
    /\ BillingTypeOK
    /\ \A i \in 1..Len(events) : EventHolds(events[i])
    /\ \A s \in Subs : StripeHolds(s) /\ RowHolds(s)
    /\ \A h \in Deliveries : HandlerFits(h)
    /\ UnpaidNeverServed

-----------------------------------------------------------------------------

\* What was sold here has a row, once it was mapped.
WasMapped(s) == \A j \in OfType(s, "checkout.session.completed") : events[j].approved => subscriptions[s].status # "none"

\* The row is at least as new as the event.
Applied(e) ==
    LET r == subscriptions[e.sub]
    IN /\ e.type = "checkout.session.completed" /\ e.approved => r.status # "none"
       /\ e.type \in {"customer.subscription.created", "customer.subscription.updated"} /\ e.approved =>
              r.status = "canceled" \/ r.synced >= e.created
       /\ e.type = "customer.subscription.deleted" => r.status \in {"none", "canceled"} /\ WasMapped(e.sub)

DeliveryHolds(h) ==
    LET e == EventOf(h)
        r == subscriptions[e.sub]
    IN /\ ~At(h, "idle") /\ e.type = "customer.subscription.deleted" => WasMapped(e.sub)
       /\ At(h, "write") => r.status # "canceled" /\ (r.synced = 0 \/ delivery[h].handler = "deleted" \/ r.synced < e.created)
       /\ At(h, "sync") => r.status = "canceled" \/ (r.synced >= e.created /\ delivery[h].handler # "deleted")
       /\ At(h, "mark") => Applied(e)

Ending(h, s) == At(h, "sync") /\ delivery[h].handler = "deleted" /\ EventOf(h).sub = s
OneByOne ==
    \A g, h \in Deliveries : g # h =>
        /\ At(g, "write") /\ At(h, "write") => EventOf(g).sub # EventOf(h).sub
        /\ \A s \in Subs : ~(Ending(g, s) /\ Ending(h, s))

\* Whoever is served has a subscription that is not ended yet.
EndsLater(s) == subscriptions[s].status \notin {"none", "canceled"} \/ \E h \in Deliveries : Ending(h, s)
DisableKey(s) == <<"disable-user", s, 0, "disable">>
CutsOff ==
    /\ trouble.failed = 0 /\ ~grant /\ (\A s \in Subs : ~stripe[s].lapsed) /\ identity = "enabled" => \E s \in Subs : EndsLater(s)
    /\ \A s \in Subs : DisableKey(s) \in jobKeys /\ ~stripe[s].lapsed =>
           subscriptions[s].status = "canceled" /\ \A h \in Deliveries : ~Ending(h, s)

BillingInv ==
    /\ BillingFacts
    /\ \A h \in Deliveries : DeliveryHolds(h)
    /\ \A i \in 1..Len(events) : inbox[i] = "processed" => Applied(events[i])
    /\ OneByOne /\ CutsOff

-----------------------------------------------------------------------------
(* What happens at Stripe *)

Tell == [type : EventType, first : BOOLEAN]
NewEvent(s, sub, t) ==
    [type |-> t.type, sub |-> s, status |-> sub.status, period |-> sub.period,
     approved |-> sub.approved, first |-> t.first,
     created |-> IF t.type = "invoice.paid" THEN sub.invoice ELSE changes + 1]

LEMMA EventsGrow ==
  ASSUME BillingTypeOK, NEW s \in Subs, NEW sub \in Subscription, NEW tell \in Seq(Tell), Happens(s, sub, tell)
  PROVE  /\ BillingTypeOK'
         /\ Len(events') = Len(events) + Len(tell) /\ Len(events) \in Nat /\ Len(tell) \in Nat
         /\ \A i \in 1..Len(events) : i \in 1..Len(events') /\ events'[i] = events[i] /\ inbox'[i] = inbox[i]
         /\ \A i \in 1..Len(events') \ (1..Len(events)) :
                inbox'[i] = "absent" /\ \E k \in 1..Len(tell) : events'[i] = NewEvent(s, sub, tell[k])
         /\ \A k \in 1..Len(tell) : /\ Len(events) + k \in 1..Len(events')
                                    /\ events'[Len(events) + k] = NewEvent(s, sub, tell[k])
<1> DEFINE told == [k \in 1..Len(tell) |-> NewEvent(s, sub, tell[k])]
<1>1. changes \in 0..MaxChanges /\ events \in Seq(Event) /\ changes < MaxChanges /\ changes' = changes + 1 /\ MaxChanges \in Nat
  BY BillingParameters DEF BillingTypeOK, Happens
<1>2. \A t \in Tell : NewEvent(s, sub, t) \in Event
  BY <1>1 DEF NewEvent, Event, Subscription, Tell
<1>3. Len(events) \in Nat /\ Len(tell) \in Nat
  BY <1>1
<1>4. told \in Seq(Event) /\ Len(told) = Len(tell)
  <2>1. \A k \in 1..Len(tell) : tell[k] \in Tell
    BY <1>3
  <2>2. told \in [1..Len(tell) -> Event]
    BY <1>2, <2>1
  <2> QED
    BY <1>3, <2>2
<1>5. events' = events \o told
  BY DEF Happens, NewEvent
<1>6. events' \in Seq(Event) /\ Len(events') = Len(events) + Len(tell)
  BY <1>1, <1>4, <1>5
<1>7. \A i \in 1..Len(events') : events'[i] = IF i <= Len(events) THEN events[i] ELSE told[i - Len(events)]
  BY <1>1, <1>3, <1>4, <1>5, <1>6
<1>8. \A i \in 1..Len(events) : i \in 1..Len(events') /\ events'[i] = events[i]
  <2>1. \A i \in 1..Len(events) : i \in 1..Len(events') /\ i <= Len(events)
    BY <1>3, <1>6
  <2> QED
    BY <1>7, <2>1
<1>9. \A k \in 1..Len(tell) : Len(events) + k \in 1..Len(events') /\ events'[Len(events) + k] = NewEvent(s, sub, tell[k])
  <2> SUFFICES ASSUME NEW k \in 1..Len(tell)
               PROVE  Len(events) + k \in 1..Len(events') /\ events'[Len(events) + k] = NewEvent(s, sub, tell[k])
    OBVIOUS
  <2>1. Len(events) + k \in 1..Len(events') /\ ~(Len(events) + k <= Len(events)) /\ (Len(events) + k) - Len(events) = k
    BY <1>3, <1>6
  <2>2. told[k] = NewEvent(s, sub, tell[k])
    OBVIOUS
  <2> HIDE DEF told
  <2> QED
    BY <1>7, <2>1, <2>2
<1>10. \A i \in 1..Len(events') \ (1..Len(events)) : \E k \in 1..Len(tell) : events'[i] = NewEvent(s, sub, tell[k])
  <2> SUFFICES ASSUME NEW i \in 1..Len(events') \ (1..Len(events)) PROVE \E k \in 1..Len(tell) : events'[i] = NewEvent(s, sub, tell[k])
    OBVIOUS
  <2>1. i - Len(events) \in 1..Len(tell) /\ ~(i <= Len(events))
    BY <1>3, <1>6
  <2>2. told[i - Len(events)] = NewEvent(s, sub, tell[i - Len(events)])
    BY <2>1
  <2> HIDE DEF told
  <2> QED
    BY <1>7, <2>1, <2>2
<1>11. inbox' = [i \in 1..Len(events') |-> IF i \in DOMAIN inbox THEN inbox[i] ELSE "absent"] /\ DOMAIN inbox = 1..Len(events)
  BY DEF Happens, BillingTypeOK
<1>12. \A i \in 1..Len(events') : inbox'[i] = IF i \in 1..Len(events) THEN inbox[i] ELSE "absent"
  BY <1>11
<1>13. BillingTypeOK'
  <2>1. inbox' \in [1..Len(events') -> {"absent", "recorded", "processed"}]
    BY <1>11, <1>12 DEF BillingTypeOK
  <2>2. acked' \subseteq 1..Len(events')
    BY <1>8 DEF BillingTypeOK, Happens
  <2>3. stripe' \in [Subs -> Subscription] /\ changes' \in 0..MaxChanges
    BY <1>1 DEF BillingTypeOK, Happens
  <2> QED
    BY <1>6, <2>1, <2>2, <2>3 DEF BillingTypeOK, Happens, service
<1> QED
  BY <1>3, <1>6, <1>8, <1>9, <1>10, <1>12, <1>13

\* What the events of a change say of it.
Tells(s, sub, tell) ==
    /\ stripe[s].status # "canceled" /\ sub.status # "none"
    /\ sub.invoice > 0 /\ sub.invoice <= changes + 1
    /\ (stripe[s].paid => sub.paid) /\ (stripe[s].lapsed => sub.lapsed)
    /\ sub.approved /\ stripe[s].status # "none" => stripe[s].approved
    /\ (sub.status \in Charged => sub.paid) /\ (sub.status = "unpaid" => sub.lapsed)
    /\ sub.status = "incomplete" => stripe[s].status = "none" /\ ~sub.paid /\ \A k \in 1..Len(tell) : tell[k].type = "checkout.session.completed"
    /\ stripe[s].status = "none" => \E k \in 1..Len(tell) : tell[k].type = "checkout.session.completed"
    /\ sub.status \in Charged =>
           \E k \in 1..Len(tell) : tell[k].type \in {"customer.subscription.created", "customer.subscription.updated"}
    /\ sub.status = "canceled" => \E k \in 1..Len(tell) : tell[k].type = "customer.subscription.deleted"
    /\ \A k \in 1..Len(tell) :
           /\ tell[k].type = "checkout.session.completed" => stripe[s].status = "none"
           /\ tell[k].type = "invoice.paid" => sub.status \in LIVE_STATUSES
           /\ tell[k].type = "customer.subscription.created" => sub.status = "trialing"
           /\ tell[k].type = "customer.subscription.deleted" <=> sub.status = "canceled"

\* What a change at Stripe leaves alone.
StripeMoves(s) ==
    /\ stripe[s].status # "canceled" /\ \A x \in Subs : stripe[x].lapsed => stripe'[x].lapsed
    /\ \A i \in 1..Len(events) : i \in 1..Len(events') /\ events'[i] = events[i] /\ inbox'[i] = inbox[i]
    /\ \A i \in 1..Len(events') \ (1..Len(events)) : events'[i].sub = s /\ inbox'[i] = "absent"
    /\ UNCHANGED <<acked, subscriptions, delivery, service, grant, trouble>>

\* A change that says so keeps what is known of events, rows and deliveries.
LEMMA ChangeKeeps ==
  ASSUME BillingFacts, NEW s \in Subs, NEW sub \in Subscription, NEW tell \in Seq(Tell), Happens(s, sub, tell), Tells(s, sub, tell)
  PROVE  BillingFacts' /\ StripeMoves(s)
<1> DEFINE old == 1..Len(events)
           new == 1..Len(events') \ old
<1>1. /\ BillingTypeOK' /\ BillingTypeOK
      /\ \A i \in old : i \in 1..Len(events') /\ events'[i] = events[i]
      /\ \A i \in new : \E k \in 1..Len(tell) : events'[i] = NewEvent(s, sub, tell[k])
      /\ \A k \in 1..Len(tell) : Len(events) + k \in new /\ events'[Len(events) + k] = NewEvent(s, sub, tell[k])
  <2>1. BillingTypeOK
    BY DEF BillingFacts
  <2>2. /\ BillingTypeOK' /\ Len(events) \in Nat /\ Len(tell) \in Nat
        /\ \A i \in old : i \in 1..Len(events') /\ events'[i] = events[i]
        /\ \A k \in 1..Len(tell) : Len(events) + k \in 1..Len(events') /\ events'[Len(events) + k] = NewEvent(s, sub, tell[k])
    BY <2>1, EventsGrow
  <2>3. \A i \in new : \E k \in 1..Len(tell) : events'[i] = NewEvent(s, sub, tell[k])
    BY <2>1, EventsGrow
  <2>4. \A k \in 1..Len(tell) : ~(Len(events) + k \in old)
    BY <2>2
  <2> HIDE DEF old
  <2> QED
    BY <2>1, <2>2, <2>3, <2>4
<1>2. /\ changes' = changes + 1 /\ changes \in Nat
      /\ stripe' = [stripe EXCEPT ![s] = sub] /\ stripe'[s] = sub /\ \A x \in Subs : x # s => stripe'[x] = stripe[x]
      /\ UNCHANGED <<acked, subscriptions, delivery, service, grant, trouble>>
      /\ stripe[s] \in Subscription
  BY DEF Happens, BillingFacts, BillingTypeOK
<1>3. \A i \in old : events[i].sub \in Subs /\ EventHolds(events[i]) /\ events[i].created \in Nat
  <2>1. \A i \in old : events[i] \in Event
    BY DEF BillingFacts, BillingTypeOK
  <2>2. \A i \in old : EventHolds(events[i])
    BY DEF BillingFacts
  <2>3. \A e \in Event : e.sub \in Subs /\ e.created \in Nat
    BY DEF Event
  <2> QED
    BY <2>1, <2>2, <2>3
<1>15. \A k \in 1..Len(tell) : events'[Len(events) + k].type = tell[k].type /\ events'[Len(events) + k].sub = s
  <2>1. \A t : NewEvent(s, sub, t).type = t.type /\ NewEvent(s, sub, t).sub = s
    BY DEF NewEvent
  <2> QED
    BY <1>1, <2>1
<1>4. \A i \in new : /\ events'[i].sub = s /\ events'[i].status = sub.status /\ events'[i].approved = sub.approved
                     /\ events'[i].created = changes + 1 \/ (events'[i].type = "invoice.paid" /\ events'[i].created = sub.invoice)
                     /\ events'[i].created > 0 /\ events'[i].created <= changes + 1
                     /\ \E k \in 1..Len(tell) : events'[i].type = tell[k].type
  <2> SUFFICES ASSUME NEW i \in new, NEW k \in 1..Len(tell), events'[i] = NewEvent(s, sub, tell[k])
               PROVE  /\ events'[i].sub = s /\ events'[i].status = sub.status /\ events'[i].approved = sub.approved
                      /\ events'[i].created = changes + 1 \/ (events'[i].type = "invoice.paid" /\ events'[i].created = sub.invoice)
                      /\ events'[i].created > 0 /\ events'[i].created <= changes + 1
                      /\ events'[i].type = tell[k].type
    BY <1>1
  <2>1. sub.invoice \in Nat
    BY DEF Subscription
  <2> QED
    BY <1>2, <2>1 DEF NewEvent, Tells
<1>5. ASSUME NEW i \in old PROVE EventHolds(events[i])'
  <2>1. events[i].sub = s => stripe[s].status # "none" /\ events[i].status # "canceled"
    BY <1>3 DEF EventHolds, Tells
  <2>2. CASE events[i].sub = s
    <3>1. (stripe[s].paid => sub.paid) /\ (stripe[s].lapsed => sub.lapsed) /\ (sub.approved => stripe[s].approved)
          /\ sub.status # "none" /\ events[i].status # "canceled"
      BY <2>1, <2>2 DEF Tells
    <3>2. events'[i] = events[i] /\ stripe'[s] = sub /\ changes' = changes + 1 /\ changes \in Nat
          /\ EventHolds(events[i]) /\ events[i].created \in Nat
      BY <1>1, <1>2, <1>3
    <3>3. events[i].created <= changes'
      BY <3>2 DEF EventHolds
    <3> QED
      BY <2>2, <3>1, <3>2, <3>3 DEF EventHolds, TellsLive
  <2>3. CASE events[i].sub # s
    BY <1>1, <1>2, <1>3, <2>3 DEF EventHolds, TellsLive
  <2> QED
    BY <2>2, <2>3
<1>6. ASSUME NEW i \in new PROVE EventHolds(events[i])'
  <2>1. PICK k \in 1..Len(tell) : events'[i].type = tell[k].type
    BY <1>4
  <2>2. TellsLive(events'[i]) => sub.paid
    BY <1>4, <2>1 DEF TellsLive, Tells, LIVE_STATUSES, Charged
  <2> QED
    BY <1>2, <1>4, <2>1, <2>2 DEF EventHolds, Tells, TellsLive
<1>7. \A i \in 1..Len(events') : EventHolds(events[i])'
  BY <1>5, <1>6
<1>8. \A x \in Subs : Of(x) \subseteq Of(x)' /\ (x # s => Of(x)' = Of(x)) /\ Of(s)' = Of(s) \cup new /\ Of(x) \subseteq old
  BY <1>1, <1>4 DEF Of
<1>9. \A x \in Subs, t \in EventType : OfType(x, t) \subseteq OfType(x, t)'
  BY <1>1, <1>8 DEF OfType, Of
<1>10. ASSUME NEW x \in Subs PROVE RowHolds(x)'
  <2>1. RowHolds(x) /\ subscriptions' = subscriptions
    BY <1>2 DEF BillingFacts
  <2>2. stripe[x].status # "none" => stripe'[x].status # "none"
    BY <1>2 DEF Tells
  <2>3. \A i \in Of(x) : i \in Of(x)' /\ events'[i] = events[i]
    BY <1>1, <1>8
  <2>4. \A i \in OfType(x, "customer.subscription.deleted") : i \in OfType(x, "customer.subscription.deleted")' /\ events'[i] = events[i]
    BY <2>3 DEF OfType
  <2> QED
    BY <2>1, <2>2, <2>3, <2>4 DEF RowHolds, TellsLive
<1>11. ASSUME NEW x \in Subs, x # s PROVE StripeHolds(x)'
  <2>1. \A i \in Of(x) : events'[i] = events[i]
    BY <1>1, <1>8, <1>11
  <2>2. \A t \in EventType : OfType(x, t)' = OfType(x, t)
    BY <1>8, <1>11, <2>1 DEF OfType
  <2>3. \A i \in Of(x) : IsLatest(x, i)' = IsLatest(x, i)
    BY <1>2, <1>8, <1>11, <2>1 DEF IsLatest, TellsLive
  <2>4. stripe[x] \in Subscription /\ stripe'[x] = stripe[x]
    BY <1>1, <1>2, <1>11 DEF BillingTypeOK
  <2>5. Of(x)' = Of(x) /\ \A i \in OfType(x, "customer.subscription.deleted") : i \in Of(x)
    BY <1>8, <1>11 DEF OfType
  <2>6. StripeHolds(x)
    BY DEF BillingFacts
  <2>7. {"customer.subscription.deleted", "checkout.session.completed"} \subseteq EventType
    BY DEF EventType
  <2>8. stripe[x].invoice \in Nat
    BY <2>4 DEF Subscription
  <2> QED
    BY <1>2, <2>1, <2>2, <2>3, <2>4, <2>5, <2>6, <2>7, <2>8 DEF StripeHolds
<1>12. StripeHolds(s)'
  <2>1. OfType(s, "checkout.session.completed")' # {}
    <3>1. CASE stripe[s].status = "none"
      <4>1. PICK k \in 1..Len(tell) : tell[k].type = "checkout.session.completed"
        BY <3>1 DEF Tells
      <4>2. Len(events) + k \in OfType(s, "checkout.session.completed")'
        BY <1>1, <1>8, <1>15, <4>1 DEF OfType
      <4> QED
        BY <4>2
    <3>2. CASE stripe[s].status # "none"
      BY <3>2, <1>9 DEF BillingFacts, StripeHolds, EventType
    <3> QED
      BY <3>1, <3>2
  <2>2. ASSUME NEW i \in new, events'[i].type # "invoice.paid" PROVE IsLatest(s, i)'
    <3>1. events'[i].created = changes + 1 /\ events'[i].status = stripe'[s].status
      BY <1>2, <1>4, <2>2
    <3>2. ASSUME NEW j \in Of(s)' PROVE /\ events'[j].created <= changes + 1
                                        /\ events'[j].created = changes + 1 => (TellsLive(events'[j]) <=> TellsLive(events'[i]))
      <4>1. CASE j \in old
        <5>1. EventHolds(events[j]) /\ events'[j] = events[j] /\ events[j].created \in Nat
          BY <1>1, <1>3, <4>1
        <5>2. events[j].created <= changes
          BY <5>1 DEF EventHolds
        <5>3. events[j].created <= changes + 1 /\ events[j].created # changes + 1
          BY <1>2, <5>1, <5>2
        <5> QED
          BY <5>1, <5>3
      <4>2. CASE j \in new
        <5>1. events'[j].type = "invoice.paid" => sub.status \in LIVE_STATUSES
          BY <1>4, <4>2 DEF Tells
        <5> QED
          BY <1>4, <2>2, <4>2, <5>1 DEF TellsLive
      <4> QED
        BY <1>8, <4>1, <4>2
    <3> QED
      BY <3>1, <3>2 DEF IsLatest, TellsLive
  <2>3. \A i \in OfType(s, "customer.subscription.deleted")' : IsLatest(s, i)'
    <3> SUFFICES ASSUME NEW i \in OfType(s, "customer.subscription.deleted")' PROVE IsLatest(s, i)'
      OBVIOUS
    <3>1. i \notin old
      BY <1>1, <1>3, <1>8 DEF OfType, Of, EventHolds, Tells
    <3> QED
      BY <1>8, <2>2, <3>1 DEF OfType
  <2>4. sub.status = "incomplete" => \A i \in Of(s)' : events'[i].type = "checkout.session.completed"
    <3> SUFFICES ASSUME sub.status = "incomplete", NEW i \in Of(s)' PROVE events'[i].type = "checkout.session.completed"
      OBVIOUS
    <3>1. i \notin old
      <4>1. stripe[s].status = "none"
        BY DEF Tells
      <4>2. \A j \in old : events[j].sub # s
        BY <1>3, <4>1 DEF EventHolds
      <4>3. Of(s) = {}
        BY <4>2 DEF Of
      <4>4. i \in old => events'[i].sub # s
        BY <1>1, <4>2
      <4>5. events'[i].sub = s
        BY DEF Of
      <4> QED
        BY <4>4, <4>5
    <3> QED
      BY <1>4, <1>8, <3>1 DEF Tells
  <2>5. sub.status \in Charged =>
            \E i \in Of(s)' : IsLatest(s, i)' /\ events'[i].type \in {"customer.subscription.created", "customer.subscription.updated"}
    <3> SUFFICES ASSUME sub.status \in Charged
                 PROVE  \E i \in Of(s)' : IsLatest(s, i)' /\ events'[i].type \in {"customer.subscription.created", "customer.subscription.updated"}
      OBVIOUS
    <3>1. PICK k \in 1..Len(tell) : tell[k].type \in {"customer.subscription.created", "customer.subscription.updated"}
      BY DEF Tells
    <3>2. Len(events) + k \in new /\ events'[Len(events) + k].type = tell[k].type
      BY <1>1, <1>15
    <3> QED
      BY <1>8, <2>2, <3>1, <3>2
  <2>6. sub.status = "canceled" => OfType(s, "customer.subscription.deleted")' # {}
    <3> SUFFICES ASSUME sub.status = "canceled" PROVE OfType(s, "customer.subscription.deleted")' # {}
      OBVIOUS
    <3>1. PICK k \in 1..Len(tell) : tell[k].type = "customer.subscription.deleted"
      BY DEF Tells
    <3>2. Len(events) + k \in OfType(s, "customer.subscription.deleted")'
      BY <1>1, <1>8, <1>15, <3>1 DEF OfType
    <3> QED
      BY <3>2
  <2> QED
    BY <1>2, <2>1, <2>3, <2>4, <2>5, <2>6 DEF StripeHolds, Tells
<1>13. ASSUME NEW h \in Deliveries PROVE HandlerFits(h)'
  <2>1. delivery' = delivery /\ HandlerFits(h)
    BY <1>2 DEF BillingFacts
  <2> QED
    BY <1>1, <2>1 DEF HandlerFits, At, EventOf, HandlerOf
<1>14. UnpaidNeverServed'
  <2>1. \A x \in Subs : stripe[x].paid => stripe'[x].paid
    BY <1>2 DEF Tells
  <2> QED
    BY <1>2, <2>1 DEF UnpaidNeverServed, BillingFacts, service
<1>16. StripeMoves(s)
  <2>1. \A i \in new : inbox'[i] = "absent"
    BY EventsGrow DEF BillingFacts
  <2>2. \A i \in old : inbox'[i] = inbox[i]
    BY EventsGrow DEF BillingFacts
  <2>3. stripe[s].status # "canceled" /\ \A x \in Subs : stripe[x].lapsed => stripe'[x].lapsed
    BY <1>2 DEF Tells
  <2> QED
    BY <1>1, <1>2, <1>4, <2>1, <2>2, <2>3 DEF StripeMoves
<1> QED
  BY <1>1, <1>7, <1>10, <1>11, <1>12, <1>13, <1>14, <1>16 DEF BillingFacts

LEMMA TellTypes ==
  /\ Updated \in Tell /\ Deleted \in Tell /\ InvoicePaid(TRUE) \in Tell /\ InvoicePaid(FALSE) \in Tell
  /\ Say("checkout.session.completed") \in Tell /\ Say("customer.subscription.created") \in Tell
  /\ Updated.type = "customer.subscription.updated" /\ Deleted.type = "customer.subscription.deleted"
  /\ \A first : InvoicePaid(first).type = "invoice.paid"
  /\ \A type : Say(type).type = type
BY DEF Updated, Deleted, InvoicePaid, Say, Tell, EventType

LEMMA OneOrTwo ==
  ASSUME NEW t \in Tell, NEW u \in Tell
  PROVE  /\ <<t>> \in Seq(Tell) /\ Len(<<t>>) = 1 /\ <<t>>[1] = t
         /\ <<t, u>> \in Seq(Tell) /\ Len(<<t, u>>) = 2 /\ <<t, u>>[1] = t /\ <<t, u>>[2] = u
OBVIOUS

LEMMA UpToThree ==
  ASSUME NEW t \in Tell, NEW u \in Tell, NEW v \in Tell
  PROVE  /\ <<t>> \o <<>> \o <<>> \in Seq(Tell) /\ Len(<<t>> \o <<>> \o <<>>) = 1
         /\ (<<t>> \o <<>> \o <<>>)[1] = t
         /\ <<t>> \o <<u>> \o <<>> \in Seq(Tell) /\ Len(<<t>> \o <<u>> \o <<>>) = 2
         /\ (<<t>> \o <<u>> \o <<>>)[1] = t /\ (<<t>> \o <<u>> \o <<>>)[2] = u
         /\ <<t>> \o <<u>> \o <<v>> \in Seq(Tell) /\ Len(<<t>> \o <<u>> \o <<v>>) = 3
         /\ (<<t>> \o <<u>> \o <<v>>)[1] = t /\ (<<t>> \o <<u>> \o <<v>>)[2] = u /\ (<<t>> \o <<u>> \o <<v>>)[3] = v
<1>1. <<t>> \in Seq(Tell) /\ <<u>> \in Seq(Tell) /\ <<v>> \in Seq(Tell) /\ <<>> \in Seq(Tell)
  OBVIOUS
<1>2. Len(<<t>>) = 1 /\ Len(<<u>>) = 1 /\ Len(<<v>>) = 1 /\ <<t>>[1] = t /\ <<u>>[1] = u /\ <<v>>[1] = v
  OBVIOUS
<1> DEFINE tu == <<t>> \o <<u>>
<1>3. tu \in Seq(Tell) /\ Len(tu) = 2 /\ tu[1] = t /\ tu[2] = u
  <2>1. \A i \in 1..2 : tu[i] = IF i <= 1 THEN <<t>>[i] ELSE <<u>>[i - 1]
    BY <1>1, <1>2, ConcatProperties
  <2> QED
    BY <1>1, <1>2, <2>1, ConcatProperties
<1>4. <<t>> \o <<>> = <<t>> /\ tu \o <<>> = tu
  BY <1>1, <1>3, ConcatEmptySeq
<1> HIDE DEF tu
<1>5. tu \o <<v>> \in Seq(Tell) /\ Len(tu \o <<v>>) = 3 /\ (tu \o <<v>>)[1] = t /\ (tu \o <<v>>)[2] = u /\ (tu \o <<v>>)[3] = v
  <2>1. \A i \in 1..3 : (tu \o <<v>>)[i] = IF i <= 2 THEN tu[i] ELSE <<v>>[i - 2]
    BY <1>1, <1>2, <1>3, ConcatProperties, SMTT(30)
  <2> QED
    BY <1>1, <1>2, <1>3, <2>1, ConcatProperties
<1> QED
  BY <1>1, <1>2, <1>3, <1>4, <1>5 DEF tu

\* A change of a subscription that is there, told by one event or two.
ToldBy(s, sub, t, u, tell) ==
    /\ stripe[s].status \notin {"none", "canceled"} /\ sub.status \in Charged \cup {"canceled"}
    /\ sub.invoice > 0 /\ sub.invoice <= changes + 1
    /\ (sub.status \in Charged => sub.paid) /\ (stripe[s].paid => sub.paid)
    /\ (stripe[s].lapsed => sub.lapsed) /\ (sub.approved => stripe[s].approved) /\ (sub.status = "unpaid" => sub.lapsed)
    /\ IF sub.status = "canceled" THEN tell = <<t>> /\ t.type = "customer.subscription.deleted"
       ELSE \/ tell = <<t>> /\ t.type = "customer.subscription.updated"
            \/ /\ {t.type, u.type} = {"invoice.paid", "customer.subscription.updated"}
               /\ tell = <<t, u>> /\ sub.status \in LIVE_STATUSES

LEMMA ChangeTold ==
  ASSUME BillingFacts, NEW s \in Subs, NEW sub \in Subscription, NEW t \in Tell, NEW u \in Tell, NEW tell, ToldBy(s, sub, t, u, tell)
  PROVE  tell \in Seq(Tell) /\ Tells(s, sub, tell)
<1> USE DEF ToldBy
<1>1. tell \in Seq(Tell)
  <2>1. CASE tell = <<t>>
    BY <2>1, OneOrTwo
  <2>2. CASE tell = <<t, u>>
    BY <2>2, OneOrTwo
  <2> QED
    BY <2>1, <2>2
<1>2. sub.status \notin {"none", "incomplete"} /\ (sub.status = "canceled" <=> sub.status \notin Charged)
  BY DEF Charged
<1>3. CASE tell = <<t>>
  <2>1. 1..Len(tell) = {1} /\ tell[1] = t
    BY <1>3, OneOrTwo
  <2>2. t.type \in {"customer.subscription.deleted", "customer.subscription.updated"} /\ (t.type = "customer.subscription.deleted" <=> sub.status = "canceled")
    <3>1. CASE sub.status = "canceled"
      BY <3>1
    <3>2. CASE sub.status # "canceled" /\ t.type = "customer.subscription.updated"
      BY <3>2
    <3>3. <<t, u>> # <<t>>
      BY OneOrTwo
    <3> QED
      BY <1>3, <3>1, <3>2, <3>3
  <2>3. \A k \in 1..Len(tell) : tell[k].type = t.type
    BY <2>1
  <2>4. 1 \in 1..Len(tell)
    BY <2>1
  <2> HIDE DEF Tell
  <2> QED
    BY <1>1, <1>2, <2>2, <2>3, <2>4 DEF Tells
<1>4. CASE tell = <<t, u>>
  <2>1. 1..Len(tell) = {1, 2} /\ tell[1] = t /\ tell[2] = u /\ tell # <<t>>
    BY <1>4, OneOrTwo
  <2>2. {t.type, u.type} = {"invoice.paid", "customer.subscription.updated"} /\ sub.status \in LIVE_STATUSES /\ sub.status # "canceled"
    BY <2>1
  <2>3. \A k \in 1..Len(tell) : tell[k].type \in {"invoice.paid", "customer.subscription.updated"}
    BY <2>1, <2>2
  <2>4. \E k \in 1..Len(tell) : tell[k].type = "customer.subscription.updated"
    BY <2>1, <2>2
  <2> QED
    BY <1>1, <1>2, <2>2, <2>3, <2>4 DEF Tells
<1> QED
  BY <1>3, <1>4

LEMMA CheckoutKeeps ==
  ASSUME BillingFacts, NEW s \in Subs, NEW trial \in BOOLEAN, NEW approved \in BOOLEAN, NEW zero \in BOOLEAN,
         CheckoutCompletes(s, trial, approved, zero)
  PROVE  BillingFacts' /\ StripeMoves(s)
<1> DEFINE sub == [status |-> IF trial THEN "trialing" ELSE "incomplete", period |-> IF trial THEN 1 ELSE 0,
                   approved |-> approved, invoice |-> changes + 1, paid |-> trial, lapsed |-> FALSE]
           c == Say("checkout.session.completed")
           n == Say("customer.subscription.created")
           p == InvoicePaid(TRUE)
           tell == <<c>> \o (IF trial THEN <<n>> ELSE <<>>) \o (IF zero THEN <<p>> ELSE <<>>)
<1>1. stripe[s].status = "none" /\ (zero => trial) /\ Happens(s, sub, tell)
  BY DEF CheckoutCompletes
<1>2. changes \in Nat /\ changes < MaxChanges /\ MaxChanges \in Nat /\ stripe[s] \in Subscription /\ stripe \in [Subs -> Subscription]
  BY <1>1, BillingParameters DEF Happens, BillingFacts, BillingTypeOK
<1>3. c \in Tell /\ n \in Tell /\ p \in Tell /\ c.type = "checkout.session.completed" /\ n.type = "customer.subscription.created" /\ p.type = "invoice.paid"
  BY TellTypes
<1>4. /\ tell \in Seq(Tell) /\ 1 \in 1..Len(tell) /\ tell[1] = c
      /\ trial => 2 \in 1..Len(tell) /\ tell[2] = n
      /\ \A k \in 1..Len(tell) : tell[k] = c \/ (trial /\ tell[k] \in {n, p})
  <2> HIDE DEF c, n, p
  <2>1. CASE ~trial
    <3>1. tell = <<c>> \o <<>> \o <<>>
      BY <1>1, <2>1
    <3> HIDE DEF tell
    <3>2. tell \in Seq(Tell) /\ Len(tell) = 1 /\ tell[1] = c
      BY <1>3, <3>1, UpToThree
    <3>3. 1..Len(tell) = {1}
      BY <3>2
    <3> QED
      BY <2>1, <3>2, <3>3
  <2>2. CASE trial /\ ~zero
    <3>1. tell = <<c>> \o <<n>> \o <<>>
      BY <2>2
    <3> HIDE DEF tell
    <3>2. tell \in Seq(Tell) /\ Len(tell) = 2 /\ tell[1] = c /\ tell[2] = n
      BY <1>3, <3>1, UpToThree
    <3>3. 1..Len(tell) = {1, 2}
      BY <3>2
    <3> QED
      BY <2>2, <3>2, <3>3
  <2>3. CASE trial /\ zero
    <3>1. tell = <<c>> \o <<n>> \o <<p>>
      BY <2>3
    <3> HIDE DEF tell
    <3>2. tell \in Seq(Tell) /\ Len(tell) = 3 /\ tell[1] = c /\ tell[2] = n /\ tell[3] = p
      <4> DEFINE r == <<c>> \o <<n>> \o <<p>>
      <4>1. r \in Seq(Tell) /\ Len(r) = 3 /\ r[1] = c /\ r[2] = n /\ r[3] = p
        BY <1>3, UpToThree
      <4> HIDE DEF r
      <4>2. tell = r
        BY <3>1 DEF r
      <4> QED
        BY <4>1, <4>2
    <3>3. 1..Len(tell) = {1, 2, 3}
      BY <3>2
    <3> QED
      BY <2>3, <3>2, <3>3
  <2> HIDE DEF tell
  <2> QED
    BY <1>1, <2>1, <2>2, <2>3
<1>5. sub \in Subscription
  <2>1. MaxPeriod \in Nat \ {0}
    BY BillingParameters
  <2>2. 0 \in 0..MaxPeriod /\ 1 \in 0..MaxPeriod /\ changes + 1 \in 0..MaxChanges
    BY <1>2, <2>1
  <2> QED
    BY <2>2 DEF Subscription, Status
<1>6. Tells(s, sub, tell)
  <2> HIDE DEF c, n, p, tell
  <2>1. ~stripe[s].paid /\ ~stripe[s].lapsed
    BY <1>1 DEF BillingFacts, StripeHolds
  <2> QED
    BY <1>1, <1>2, <1>3, <1>4, <2>1 DEF Tells, Charged, LIVE_STATUSES
<1> HIDE DEF sub, tell
<1> QED
  BY <1>1, <1>4, <1>5, <1>6, ChangeKeeps

\* A change of a subscription that is there.
LEMMA ThereKeeps ==
  ASSUME BillingFacts, NEW s \in Subs,
         FirstPayment(s) \/ Renews(s) \/ PaymentFails(s) \/ PaidLate(s) \/ DunningEnds(s) \/ Cancel(s) \/ Edited(s)
  PROVE  BillingFacts' /\ StripeMoves(s)
<1> DEFINE q == stripe[s]
           updated == <<Updated>>
<1>1. /\ q \in Subscription /\ changes \in Nat /\ MaxChanges \in Nat /\ MaxPeriod \in Nat \ {0}
      /\ q.invoice <= changes /\ (q.status # "none" => q.invoice > 0) /\ (q.status \in Charged => q.paid)
  <2>1. BillingTypeOK /\ StripeHolds(s)
    BY DEF BillingFacts
  <2>2. changes \in Nat /\ q \in Subscription /\ MaxChanges \in Nat /\ MaxPeriod \in Nat \ {0}
    BY <2>1, BillingParameters DEF BillingTypeOK
  <2>3. q.invoice <= changes /\ (q.status # "none" => q.invoice > 0) /\ (q.status \in Charged => q.paid)
    BY <2>1 DEF StripeHolds
  <2> QED
    BY <2>2, <2>3
<1>2. ASSUME NEW sub \in Subscription, NEW t \in Tell, NEW u \in Tell, NEW tell, Happens(s, sub, tell), ToldBy(s, sub, t, u, tell)
      PROVE  BillingFacts' /\ StripeMoves(s)
  <2>1. tell \in Seq(Tell) /\ Tells(s, sub, tell)
    BY <1>2, ChangeTold
  <2> QED
    BY <1>2, <2>1, ChangeKeeps
<1>3. CASE FirstPayment(s)
  <2> DEFINE sub == [q EXCEPT !.status = "active", !.period = 1, !.paid = TRUE]
  <2>3. changes < MaxChanges /\ q.status \notin {"none", "canceled"}
    BY <1>3 DEF FirstPayment, Happens, LIVE_STATUSES
  <2>4. /\ sub.status = "active" /\ sub.period = 1 /\ sub.paid
        /\ sub.invoice = q.invoice /\ sub.lapsed = q.lapsed /\ sub.approved = q.approved
    BY <1>1 DEF Subscription
  <2>6. 1 \in 0..MaxPeriod
    <3>1. q.period \in 0..MaxPeriod
      BY <1>1 DEF Subscription
    <3> QED
      BY <1>1, <2>3, <3>1, <1>3 DEF FirstPayment
  <2>5. sub \in Subscription
    BY <1>1, <2>6 DEF Subscription, Status
  <2>1. /\ sub.status \in Charged \cup {"canceled"} /\ sub.invoice > 0 /\ sub.invoice <= changes + 1
        /\ (sub.status \in Charged => sub.paid) /\ (q.paid => sub.paid) /\ (q.lapsed => sub.lapsed) /\ (sub.approved => q.approved)
        /\ (sub.status = "unpaid" => sub.lapsed)
    <3>1. q.invoice \in Nat /\ q.lapsed \in BOOLEAN /\ q.paid \in BOOLEAN /\ q.approved \in BOOLEAN
      BY <1>1 DEF Subscription
    <3> HIDE DEF sub
    <3> QED
      BY <1>1, <2>3, <2>4, <3>1, <1>3 DEF FirstPayment, Charged, LIVE_STATUSES
  <2>2. Happens(s, sub, <<InvoicePaid(TRUE), Updated>>) /\ sub.status = "active"
    BY <1>3 DEF FirstPayment, LIVE_STATUSES, Charged
  <2> HIDE DEF sub
  <2>7. ToldBy(s, sub, InvoicePaid(TRUE), Updated, <<InvoicePaid(TRUE), Updated>>)
    BY <2>1, <2>2, <2>3, TellTypes DEF ToldBy, LIVE_STATUSES
  <2> QED
    BY <1>2, <2>2, <2>5, <2>7, TellTypes
<1>4. CASE Renews(s)
  <2> DEFINE sub == [q EXCEPT !.status = "active", !.period = @ + 1, !.invoice = changes + 1]
  <2>3. changes < MaxChanges /\ q.status \notin {"none", "canceled"}
    BY <1>4 DEF Renews, Happens, LIVE_STATUSES
  <2>4. /\ sub.status = "active" /\ sub.period = q.period + 1 /\ sub.invoice = changes + 1
        /\ sub.paid = q.paid /\ sub.lapsed = q.lapsed /\ sub.approved = q.approved
    BY <1>1 DEF Subscription
  <2>6. q.period + 1 \in 0..MaxPeriod /\ changes + 1 \in 0..MaxChanges
    <3>1. q.period \in 0..MaxPeriod
      BY <1>1 DEF Subscription
    <3> QED
      BY <1>1, <2>3, <3>1, <1>4 DEF Renews
  <2>5. sub \in Subscription
    BY <1>1, <2>6 DEF Subscription, Status
  <2>1. /\ sub.status \in Charged \cup {"canceled"} /\ sub.invoice > 0 /\ sub.invoice <= changes + 1
        /\ (sub.status \in Charged => sub.paid) /\ (q.paid => sub.paid) /\ (q.lapsed => sub.lapsed) /\ (sub.approved => q.approved)
        /\ (sub.status = "unpaid" => sub.lapsed)
    <3>1. q.invoice \in Nat /\ q.lapsed \in BOOLEAN /\ q.paid \in BOOLEAN /\ q.approved \in BOOLEAN
      BY <1>1 DEF Subscription
    <3> HIDE DEF sub
    <3> QED
      BY <1>1, <2>3, <2>4, <3>1, <1>4 DEF Renews, Charged, LIVE_STATUSES
  <2>2. Happens(s, sub, <<Updated, InvoicePaid(FALSE)>>) /\ sub.status = "active"
    BY <1>4 DEF Renews, LIVE_STATUSES, Charged
  <2> HIDE DEF sub
  <2>7. ToldBy(s, sub, Updated, InvoicePaid(FALSE), <<Updated, InvoicePaid(FALSE)>>)
    BY <2>1, <2>2, <2>3, TellTypes DEF ToldBy, LIVE_STATUSES
  <2> QED
    BY <1>2, <2>2, <2>5, <2>7, TellTypes
<1>5. CASE PaymentFails(s)
  <2> DEFINE sub == [q EXCEPT !.status = "past_due", !.period = @ + 1, !.invoice = changes + 1]
  <2>3. changes < MaxChanges /\ q.status \notin {"none", "canceled"}
    BY <1>5 DEF PaymentFails, Happens, LIVE_STATUSES
  <2>4. /\ sub.status = "past_due" /\ sub.period = q.period + 1 /\ sub.invoice = changes + 1
        /\ sub.paid = q.paid /\ sub.lapsed = q.lapsed /\ sub.approved = q.approved
    BY <1>1 DEF Subscription
  <2>6. q.period + 1 \in 0..MaxPeriod /\ changes + 1 \in 0..MaxChanges
    <3>1. q.period \in 0..MaxPeriod
      BY <1>1 DEF Subscription
    <3> QED
      BY <1>1, <2>3, <3>1, <1>5 DEF PaymentFails
  <2>5. sub \in Subscription
    BY <1>1, <2>6 DEF Subscription, Status
  <2>1. /\ sub.status \in Charged \cup {"canceled"} /\ sub.invoice > 0 /\ sub.invoice <= changes + 1
        /\ (sub.status \in Charged => sub.paid) /\ (q.paid => sub.paid) /\ (q.lapsed => sub.lapsed) /\ (sub.approved => q.approved)
        /\ (sub.status = "unpaid" => sub.lapsed)
    <3>1. q.invoice \in Nat /\ q.lapsed \in BOOLEAN /\ q.paid \in BOOLEAN /\ q.approved \in BOOLEAN
      BY <1>1 DEF Subscription
    <3> HIDE DEF sub
    <3> QED
      BY <1>1, <2>3, <2>4, <3>1, <1>5 DEF PaymentFails, Charged, LIVE_STATUSES
  <2>2. Happens(s, sub, <<Updated>>) /\ sub.status = "past_due"
    BY <1>5 DEF PaymentFails, LIVE_STATUSES, Charged
  <2> HIDE DEF sub
  <2>7. ToldBy(s, sub, Updated, Updated, <<Updated>>)
    BY <2>1, <2>2, <2>3, TellTypes DEF ToldBy, LIVE_STATUSES
  <2> QED
    BY <1>2, <2>2, <2>5, <2>7, TellTypes
<1>6. CASE PaidLate(s)
  <2> DEFINE sub == [q EXCEPT !.status = "active"]
  <2>3. changes < MaxChanges /\ q.status \notin {"none", "canceled"}
    BY <1>6 DEF PaidLate, Happens, LIVE_STATUSES
  <2>4. /\ sub.status = "active"
        /\ sub.period = q.period /\ sub.invoice = q.invoice /\ sub.paid = q.paid /\ sub.lapsed = q.lapsed /\ sub.approved = q.approved
    BY <1>1 DEF Subscription
  <2>5. sub \in Subscription
    BY <1>1, <2>3, <1>6 DEF Subscription, Status, PaidLate
  <2>1. /\ sub.status \in Charged \cup {"canceled"} /\ sub.invoice > 0 /\ sub.invoice <= changes + 1
        /\ (sub.status \in Charged => sub.paid) /\ (q.paid => sub.paid) /\ (q.lapsed => sub.lapsed) /\ (sub.approved => q.approved)
        /\ (sub.status = "unpaid" => sub.lapsed)
    <3>1. q.invoice \in Nat /\ q.lapsed \in BOOLEAN /\ q.paid \in BOOLEAN /\ q.approved \in BOOLEAN
      BY <1>1 DEF Subscription
    <3> HIDE DEF sub
    <3> QED
      BY <1>1, <2>3, <2>4, <3>1, <1>6 DEF PaidLate, Charged, LIVE_STATUSES
  <2>2. Happens(s, sub, <<InvoicePaid(FALSE), Updated>>) /\ sub.status = "active"
    BY <1>6 DEF PaidLate, LIVE_STATUSES, Charged
  <2> HIDE DEF sub
  <2>7. ToldBy(s, sub, InvoicePaid(FALSE), Updated, <<InvoicePaid(FALSE), Updated>>)
    BY <2>1, <2>2, <2>3, TellTypes DEF ToldBy, LIVE_STATUSES
  <2> QED
    BY <1>2, <2>2, <2>5, <2>7, TellTypes
<1>7. CASE DunningEnds(s)
  <2> DEFINE sub == [q EXCEPT !.status = "unpaid", !.lapsed = TRUE]
  <2>3. changes < MaxChanges /\ q.status \notin {"none", "canceled"}
    BY <1>7 DEF DunningEnds, Happens, LIVE_STATUSES
  <2>4. /\ sub.status = "unpaid" /\ sub.lapsed
        /\ sub.period = q.period /\ sub.invoice = q.invoice /\ sub.paid = q.paid /\ sub.approved = q.approved
    BY <1>1 DEF Subscription
  <2>5. sub \in Subscription
    BY <1>1, <2>3, <1>7 DEF Subscription, Status, DunningEnds
  <2>1. /\ sub.status \in Charged \cup {"canceled"} /\ sub.invoice > 0 /\ sub.invoice <= changes + 1
        /\ (sub.status \in Charged => sub.paid) /\ (q.paid => sub.paid) /\ (q.lapsed => sub.lapsed) /\ (sub.approved => q.approved)
        /\ (sub.status = "unpaid" => sub.lapsed)
    <3>1. q.invoice \in Nat /\ q.lapsed \in BOOLEAN /\ q.paid \in BOOLEAN /\ q.approved \in BOOLEAN
      BY <1>1 DEF Subscription
    <3> HIDE DEF sub
    <3> QED
      BY <1>1, <2>3, <2>4, <3>1, <1>7 DEF DunningEnds, Charged, LIVE_STATUSES
  <2>2. Happens(s, sub, <<Updated>>) /\ sub.status = "unpaid"
    BY <1>7 DEF DunningEnds, LIVE_STATUSES, Charged
  <2> HIDE DEF sub
  <2>7. ToldBy(s, sub, Updated, Updated, <<Updated>>)
    BY <2>1, <2>2, <2>3, TellTypes DEF ToldBy, LIVE_STATUSES
  <2> QED
    BY <1>2, <2>2, <2>5, <2>7, TellTypes
<1>8. CASE Cancel(s)
  <2> DEFINE sub == [q EXCEPT !.status = "canceled"]
  <2>3. changes < MaxChanges /\ q.status \notin {"none", "canceled"}
    BY <1>8 DEF Cancel, Happens, LIVE_STATUSES
  <2>4. /\ sub.status = "canceled"
        /\ sub.period = q.period /\ sub.invoice = q.invoice /\ sub.paid = q.paid /\ sub.lapsed = q.lapsed /\ sub.approved = q.approved
    BY <1>1 DEF Subscription
  <2>5. sub \in Subscription
    BY <1>1, <2>3, <1>8 DEF Subscription, Status, Cancel
  <2>1. /\ sub.status \in Charged \cup {"canceled"} /\ sub.invoice > 0 /\ sub.invoice <= changes + 1
        /\ (sub.status \in Charged => sub.paid) /\ (q.paid => sub.paid) /\ (q.lapsed => sub.lapsed) /\ (sub.approved => q.approved)
        /\ (sub.status = "unpaid" => sub.lapsed)
    <3>1. q.invoice \in Nat /\ q.lapsed \in BOOLEAN /\ q.paid \in BOOLEAN /\ q.approved \in BOOLEAN
      BY <1>1 DEF Subscription
    <3> HIDE DEF sub
    <3> QED
      BY <1>1, <2>3, <2>4, <3>1, <1>8 DEF Cancel, Charged, LIVE_STATUSES
  <2>2. Happens(s, sub, <<Deleted>>) /\ sub.status = "canceled"
    BY <1>8 DEF Cancel, LIVE_STATUSES, Charged
  <2> HIDE DEF sub
  <2>7. ToldBy(s, sub, Deleted, Deleted, <<Deleted>>)
    BY <2>1, <2>2, <2>3, TellTypes DEF ToldBy, LIVE_STATUSES
  <2> QED
    BY <1>2, <2>2, <2>5, <2>7, TellTypes
<1>9. CASE Edited(s)
  <2> DEFINE sub == [q EXCEPT !.approved = FALSE]
  <2>3. changes < MaxChanges /\ q.status \notin {"none", "canceled"}
    BY <1>9 DEF Edited, Happens, LIVE_STATUSES
  <2>4. /\ sub.approved = FALSE
        /\ sub.status = q.status /\ sub.period = q.period /\ sub.invoice = q.invoice /\ sub.paid = q.paid /\ sub.lapsed = q.lapsed
    BY <1>1 DEF Subscription
  <2>5. sub \in Subscription
    BY <1>1, <2>3, <1>9 DEF Subscription, Status, Edited
  <2>1. /\ sub.status \in Charged \cup {"canceled"} /\ sub.invoice > 0 /\ sub.invoice <= changes + 1
        /\ (sub.status \in Charged => sub.paid) /\ (q.paid => sub.paid) /\ (q.lapsed => sub.lapsed) /\ (sub.approved => q.approved)
        /\ (sub.status = "unpaid" => sub.lapsed)
    <3>1. q.invoice \in Nat /\ q.lapsed \in BOOLEAN /\ q.paid \in BOOLEAN /\ q.approved \in BOOLEAN
      BY <1>1 DEF Subscription
    <3> HIDE DEF sub
    <3> QED
      BY <1>1, <2>3, <2>4, <3>1, <1>9 DEF Edited, Charged, LIVE_STATUSES
  <2>2. Happens(s, sub, <<Updated>>) /\ sub.status \in LIVE_STATUSES
    BY <1>9 DEF Edited, LIVE_STATUSES, Charged
  <2> HIDE DEF sub
  <2>7. ToldBy(s, sub, Updated, Updated, <<Updated>>)
    BY <2>1, <2>2, <2>3, TellTypes DEF ToldBy, LIVE_STATUSES
  <2> QED
    BY <1>2, <2>2, <2>5, <2>7, TellTypes
<1> QED
  BY <1>3, <1>4, <1>5, <1>6, <1>7, <1>8, <1>9

LEMMA StripeActsKeeps ==
  ASSUME BillingFacts, StripeActs
  PROVE  BillingFacts' /\ \E s \in Subs : StripeMoves(s)
BY CheckoutKeeps, ThereKeeps DEF StripeActs

-----------------------------------------------------------------------------
(* What a delivery does *)

OthersGoOn(h) == \A g \in Deliveries : g # h => delivery'[g] = delivery[g]
DeliverySteps == {"idle", "insert", "read", "write", "sync", "mark"}

LEMMA NoRowIsARow == NoRow \in Row /\ NoDelivery \in Delivery /\ NoDelivery.pc = "idle"
<1>1. 0 \in 0..MaxPeriod /\ 0 \in 0..MaxChanges
  BY BillingParameters
<1>2. NoRow \in Row
  BY <1>1 DEF NoRow, Row, Status
<1> QED
  BY <1>2 DEF NoDelivery, Delivery, Handler

LEMMA DoneMeans ==
  ASSUME BillingTypeOK, NEW h \in Deliveries, Done(h)
  PROVE  delivery' \in [Deliveries -> Delivery] /\ delivery'[h].pc = "idle" /\ OthersGoOn(h)
BY NoRowIsARow DEF BillingTypeOK, Done, OthersGoOn

LEMMA GotoMeans ==
  ASSUME BillingTypeOK, NEW h \in Deliveries, NEW pc \in DeliverySteps, Goto(h, pc)
  PROVE  /\ delivery' \in [Deliveries -> Delivery] /\ OthersGoOn(h)
         /\ delivery'[h].pc = pc /\ delivery'[h].event = delivery[h].event
         /\ delivery'[h].handler = delivery[h].handler /\ delivery'[h].seen = delivery[h].seen
<1>1. delivery[h] \in Delivery /\ delivery'[h] = [delivery[h] EXCEPT !.pc = pc]
  BY DEF BillingTypeOK, Goto
<1>2. delivery'[h] \in Delivery
  BY <1>1 DEF Delivery, DeliverySteps
<1> QED
  BY <1>1, <1>2 DEF BillingTypeOK, Goto, OthersGoOn, Delivery

LEMMA AfterMeans ==
  ASSUME BillingTypeOK, NEW h \in Deliveries, AfterHandler(h)
  PROVE  /\ delivery' \in [Deliveries -> Delivery] /\ OthersGoOn(h) /\ delivery'[h].event = delivery[h].event
         /\ IF EventOf(h).type = "customer.subscription.updated" /\ delivery[h].handler = "trialing"
            THEN delivery'[h].handler = "updated" /\ delivery'[h].pc = "read"
            ELSE delivery'[h].handler = "none" /\ delivery'[h].pc = "mark"
<1>1. delivery[h] \in Delivery /\ delivery \in [Deliveries -> Delivery]
  BY DEF BillingTypeOK
<1>2. CASE EventOf(h).type = "customer.subscription.updated" /\ delivery[h].handler = "trialing"
  <2>1. delivery' = [delivery EXCEPT ![h].handler = "updated", ![h].pc = "read"]
    BY <1>2 DEF AfterHandler
  <2>2. delivery'[h] = [delivery[h] EXCEPT !.handler = "updated", !.pc = "read"]
    BY <1>1, <2>1
  <2>3. delivery'[h] \in Delivery
    BY <1>1, <2>2 DEF Delivery, Handler
  <2> QED
    BY <1>1, <1>2, <2>1, <2>2, <2>3 DEF OthersGoOn, Delivery
<1>3. CASE ~(EventOf(h).type = "customer.subscription.updated" /\ delivery[h].handler = "trialing")
  <2>1. delivery' = [delivery EXCEPT ![h].handler = "none", ![h].pc = "mark"]
    BY <1>3 DEF AfterHandler
  <2>2. delivery'[h] = [delivery[h] EXCEPT !.handler = "none", !.pc = "mark"]
    BY <1>1, <2>1
  <2>3. delivery'[h] \in Delivery
    BY <1>1, <2>2 DEF Delivery, Handler
  <2> QED
    BY <1>1, <1>3, <2>1, <2>2, <2>3 DEF OthersGoOn, Delivery
<1> QED
  BY <1>2, <1>3

\* The event of a delivery in progress.
LEMMA EventTyped ==
  ASSUME BillingFacts, NEW h \in Deliveries, ~At(h, "idle")
  PROVE  /\ delivery[h].event \in 1..Len(events) /\ EventOf(h) \in Event /\ EventHolds(EventOf(h))
         /\ EventOf(h).sub \in Subs /\ EventOf(h).period \in 0..MaxPeriod /\ EventOf(h).created \in 0..MaxChanges
         /\ EventOf(h).type \in EventType /\ EventOf(h).status \in Status /\ delivery[h] \in Delivery
<1>1. delivery[h].event \in 1..Len(events)
  BY DEF BillingFacts, HandlerFits
<1>2. EventOf(h) \in Event /\ EventHolds(EventOf(h)) /\ delivery[h] \in Delivery
  BY <1>1 DEF BillingFacts, BillingTypeOK, EventOf
<1> QED
  BY <1>1, <1>2 DEF Event

\* Whoever is entitled has paid, or has a grant.
LEMMA EntitledIsPaid ==
  ASSUME BillingFacts, Entitled
  PROVE  grant \/ \E s \in Subs : stripe[s].paid
<1> SUFFICES ASSUME NEW s \in Subs, isLive(subscriptions[s]) PROVE stripe[s].paid
  BY DEF Entitled, LiveRows
<1>1. RowHolds(s) /\ subscriptions[s].status \in LIVE_STATUSES
  BY DEF BillingFacts, isLive
<1>2. subscriptions[s].synced # 0
  BY <1>1 DEF RowHolds, LIVE_STATUSES
<1>3. PICK i \in Of(s) : TellsLive(events[i])
  BY <1>1, <1>2 DEF RowHolds
<1> QED
  BY <1>3 DEF BillingFacts, EventHolds, Of

LEMMA LocalKeeps ==
  ASSUME BillingFacts, UNCHANGED stripeSide, BillingTypeOK', \A s \in Subs : RowHolds(s)', \A h \in Deliveries : HandlerFits(h)',
         grant' = grant, identity' # "none" => identity # "none" \/ Entitled
  PROVE  BillingFacts'
<1>1. stripe' = stripe /\ events' = events /\ changes' = changes
  BY DEF stripeSide
<1>2. \A i \in 1..Len(events) : EventHolds(events[i])'
  BY <1>1 DEF BillingFacts, EventHolds, TellsLive
<1>3. \A s \in Subs : StripeHolds(s)'
  BY <1>1 DEF BillingFacts, StripeHolds, OfType, Of, IsLatest, TellsLive
<1>4. UnpaidNeverServed'
  BY <1>1, EntitledIsPaid DEF BillingFacts, UnpaidNeverServed
<1> QED
  BY <1>1, <1>2, <1>3, <1>4 DEF BillingFacts

LEMMA RowKept ==
  ASSUME BillingFacts, UNCHANGED stripeSide, NEW s \in Subs,
         subscriptions'[s].status = subscriptions[s].status, subscriptions'[s].synced = subscriptions[s].synced
  PROVE  RowHolds(s)'
BY DEF BillingFacts, RowHolds, stripeSide, Of, OfType, TellsLive

LEMMA HandlerKept ==
  ASSUME BillingFacts, UNCHANGED stripeSide, NEW h \in Deliveries, OthersGoOn(h), HandlerFits(h)'
  PROVE  \A g \in Deliveries : HandlerFits(g)'
BY DEF BillingFacts, HandlerFits, OthersGoOn, stripeSide, At, EventOf, HandlerOf

LEMMA AfterFits ==
  ASSUME BillingFacts, UNCHANGED stripeSide, NEW h \in Deliveries, ~At(h, "idle"), ~At(h, "mark"), AfterHandler(h)
  PROVE  HandlerFits(h)'
<1>1. BillingTypeOK /\ HandlerFits(h)
  BY DEF BillingFacts
<1>2. /\ delivery'[h].event = delivery[h].event
      /\ IF EventOf(h).type = "customer.subscription.updated" /\ delivery[h].handler = "trialing"
         THEN delivery'[h].handler = "updated" /\ delivery'[h].pc = "read"
         ELSE delivery'[h].handler = "none" /\ delivery'[h].pc = "mark"
  BY <1>1, AfterMeans
<1> QED
  BY <1>1, <1>2 DEF HandlerFits, At, EventOf, stripeSide

LEMMA GotoFits ==
  ASSUME BillingFacts, UNCHANGED stripeSide, NEW h \in Deliveries, ~At(h, "idle"), ~At(h, "mark"),
         NEW pc \in {"read", "write", "sync"}, Goto(h, pc), pc # "read" => delivery[h].handler # "map"
  PROVE  HandlerFits(h)'
<1>1. BillingTypeOK /\ HandlerFits(h)
  BY DEF BillingFacts
<1>2. delivery'[h].event = delivery[h].event /\ delivery'[h].handler = delivery[h].handler /\ delivery'[h].pc = pc
  BY <1>1, GotoMeans DEF DeliverySteps
<1> QED
  BY <1>1, <1>2 DEF HandlerFits, At, EventOf, HandlerOf, stripeSide

LEMMA DoneFits ==
  ASSUME BillingFacts, NEW h \in Deliveries, Done(h)
  PROVE  HandlerFits(h)'
BY DoneMeans DEF BillingFacts, HandlerFits, At

\* The jobs of a handler that are queued, and what they do.
LEMMA SyncMeans ==
  ASSUME BillingTypeOK, NEW prefix \in {"create-user", "invoice-paid", "subscription-updated", "stripe-ended", "disable-user"},
         NEW s \in Subs, NEW k \in 0..MaxPeriod, Sync(prefix, s, k)
  PROVE  /\ identity' \in {"none", "creating", "enabled", "disabled"} /\ jobKeys' \subseteq JobKey
         /\ \/ identity' = identity
            \/ Entitled /\ identity' \in {"creating", "enabled"}
            \/ ~Entitled /\ identity = "enabled" /\ identity' = "disabled"
         /\ \A key \in jobKeys' : key \in jobKeys \/ \E job \in {"create", "enable", "disable"} : key = <<prefix, s, k, job>>
         /\ ~Entitled /\ identity = "enabled" /\ <<prefix, s, k, "disable">> \notin jobKeys => identity' = "disabled"
<1> DEFINE job == IF Entitled THEN CASE identity = "none" -> "create"
                                     [] identity = "disabled" -> "enable"
                                     [] OTHER -> "nothing"
                  ELSE IF identity = "enabled" THEN "disable" ELSE "nothing"
           key == <<prefix, s, k, job>>
<1>1. IF job = "nothing" \/ key \in jobKeys THEN UNCHANGED service
      ELSE /\ jobKeys' = jobKeys \cup {key}
           /\ identity' = [create |-> "creating", enable |-> "enabled", disable |-> "disabled"][job]
  BY DEF Sync
<1>2. job \in {"create", "enable", "disable", "nothing"}
  OBVIOUS
<1>3. CASE job = "nothing" \/ key \in jobKeys
  <2>1. UNCHANGED service
    BY <1>1, <1>3
  <2>2. ~Entitled /\ identity = "enabled" => job = "disable"
    OBVIOUS
  <2>3. ~Entitled /\ identity = "enabled" => <<prefix, s, k, "disable">> \in jobKeys
    BY <1>3, <2>2
  <2> HIDE DEF job, key
  <2> QED
    BY <2>1, <2>3 DEF service, BillingTypeOK
<1>4. CASE ~(job = "nothing" \/ key \in jobKeys)
  <2>1. job \in {"create", "enable", "disable"} /\ jobKeys' = jobKeys \cup {key}
    BY <1>1, <1>2, <1>4
  <2>2. key \in JobKey
    BY <2>1 DEF JobKey
  <2>3. identity' = CASE job = "create" -> "creating" [] job = "enable" -> "enabled" [] job = "disable" -> "disabled"
    BY <1>1, <1>4, <2>1
  <2>4. job \in {"create", "enable"} => Entitled
    OBVIOUS
  <2>5. job = "disable" => ~Entitled /\ identity = "enabled"
    OBVIOUS
  <2>6. ~Entitled /\ identity = "enabled" => job = "disable"
    OBVIOUS
  <2>7. \A z \in jobKeys' : z \in jobKeys \/ \E j \in {"create", "enable", "disable"} : z = <<prefix, s, k, j>>
    BY <2>1
  <2> HIDE DEF job, key
  <2> QED
    BY <2>1, <2>2, <2>3, <2>4, <2>5, <2>6, <2>7 DEF BillingTypeOK
<1> QED
  BY <1>3, <1>4

-----------------------------------------------------------------------------
(* The facts, step by step *)

LEMMA GraceEndsFacts ==
  ASSUME BillingFacts, NEW s \in Subs, GraceEnds(s)
  PROVE  BillingFacts'
<1>1. /\ subscriptions \in [Subs -> Row] /\ subscriptions' = [subscriptions EXCEPT ![s].pastDue = "over"]
      /\ UNCHANGED <<stripeSide, inbox, acked, delivery, service, grant, trouble>>
  BY DEF GraceEnds, BillingFacts, BillingTypeOK
<1>2. \A x \in Subs : subscriptions'[x] \in Row /\ subscriptions'[x].status = subscriptions[x].status
                      /\ subscriptions'[x].synced = subscriptions[x].synced
  <2>1. \A x \in Subs : subscriptions'[x] = IF x = s THEN [subscriptions[s] EXCEPT !.pastDue = "over"] ELSE subscriptions[x]
    BY <1>1
  <2> QED
    BY <1>1, <2>1 DEF Row
<1>3. BillingTypeOK'
  <2>1. subscriptions' \in [Subs -> Row]
    BY <1>1, <1>2
  <2> QED
    BY <1>1, <2>1 DEF BillingFacts, BillingTypeOK, stripeSide, service
<1>4. \A x \in Subs : RowHolds(x)'
  BY <1>1, <1>2, RowKept
<1>5. \A h \in Deliveries : HandlerFits(h)'
  BY <1>1 DEF BillingFacts, HandlerFits, At, EventOf, HandlerOf, stripeSide
<1> QED
  BY <1>1, <1>3, <1>4, <1>5, LocalKeeps DEF service

LEMMA AgentCreatesFacts ==
  ASSUME BillingFacts, AgentCreates
  PROVE  BillingFacts'
<1>1. BillingTypeOK'
  BY DEF AgentCreates, BillingFacts, BillingTypeOK, stripeSide
<1>2. \A s \in Subs : RowHolds(s)'
  BY RowKept DEF AgentCreates
<1>3. \A h \in Deliveries : HandlerFits(h)'
  BY DEF AgentCreates, BillingFacts, HandlerFits, At, EventOf, HandlerOf, stripeSide
<1> QED
  BY <1>1, <1>2, <1>3, LocalKeeps DEF AgentCreates

LEMMA DeliverFacts ==
  ASSUME BillingFacts, NEW h \in Deliveries, NEW i \in DOMAIN inbox, Deliver(h, i)
  PROVE  BillingFacts'
<1> DEFINE d == [pc |-> IF inbox[i] = "absent" THEN "insert" ELSE "read", event |-> i,
                 handler |-> HandlerOf(events[i]), seen |-> NoRow]
<1>1. /\ BillingTypeOK /\ i \in 1..Len(events) /\ Len(events) \in Nat /\ events[i] \in Event /\ EventHolds(events[i])
      /\ UNCHANGED <<stripeSide, inbox, subscriptions, service, grant>>
  <2>1. BillingTypeOK /\ DOMAIN inbox = 1..Len(events) /\ events \in Seq(Event)
    BY DEF BillingFacts, BillingTypeOK
  <2> QED
    BY <2>1 DEF Deliver, BillingFacts
<1>2. trouble' \in [failed : 0..MaxTrouble, overlapped : 0..MaxTrouble]
  <2>1. trouble.failed \in Nat /\ trouble.overlapped \in Nat /\ MaxTrouble \in Nat /\ trouble \in [failed : 0..MaxTrouble, overlapped : 0..MaxTrouble]
    BY <1>1, BillingParameters DEF BillingTypeOK
  <2>2. trouble' = trouble \/ (trouble.failed + trouble.overlapped < MaxTrouble /\ trouble' = [trouble EXCEPT !.overlapped = @ + 1])
    BY DEF Deliver, Troubles
  <2>3. CASE trouble.failed + trouble.overlapped < MaxTrouble /\ trouble' = [trouble EXCEPT !.overlapped = @ + 1]
    <3>1. trouble.overlapped + 1 \in 0..MaxTrouble
      BY <2>1, <2>3
    <3> QED
      BY <2>1, <2>3, <3>1
  <2> QED
    BY <2>1, <2>2, <2>3
<1>3. HandlerOf(events[i]) \in Handler \ {"none"} /\ (HandlerOf(events[i]) = "map" => TRUE)
  BY <1>1 DEF HandlerOf, Handler
<1>4. \/ acked' = acked \cup {i} /\ delivery' = delivery
      \/ delivery' = [delivery EXCEPT ![h] = d] /\ acked' = acked
  BY DEF Deliver
<1>5. CASE acked' = acked \cup {i} /\ delivery' = delivery
  <2>1. BillingTypeOK'
    BY <1>1, <1>2, <1>5 DEF BillingTypeOK, stripeSide, service
  <2>2. \A g \in Deliveries : HandlerFits(g)'
    BY <1>1, <1>5 DEF BillingFacts, HandlerFits, At, EventOf, HandlerOf, stripeSide
  <2>3. \A s \in Subs : RowHolds(s)'
    BY <1>1, RowKept
  <2> QED
    BY <1>1, <2>1, <2>2, <2>3, LocalKeeps DEF service
<1>6. CASE delivery' = [delivery EXCEPT ![h] = d] /\ acked' = acked
  <2>1. d \in Delivery
    BY <1>1, <1>3, NoRowIsARow DEF Delivery
  <2>2. delivery' \in [Deliveries -> Delivery] /\ delivery'[h] = d /\ OthersGoOn(h)
    BY <1>1, <1>6, <2>1 DEF BillingTypeOK, OthersGoOn
  <2>3. BillingTypeOK'
    BY <1>1, <1>2, <1>6, <2>2 DEF BillingTypeOK, stripeSide, service
  <2>4. HandlerFits(h)'
    BY <1>1, <2>2 DEF HandlerFits, At, EventOf, HandlerOf, stripeSide
  <2>5. \A s \in Subs : RowHolds(s)'
    BY <1>1, RowKept
  <2>6. \A g \in Deliveries : HandlerFits(g)'
    BY <1>1, <2>2, <2>4, HandlerKept
  <2> QED
    BY <1>1, <2>3, <2>5, <2>6, LocalKeeps DEF service
<1> QED
  BY <1>4, <1>5, <1>6

LEMMA RecordEventFacts ==
  ASSUME BillingFacts, NEW h \in Deliveries, RecordEvent(h)
  PROVE  BillingFacts'
<1>1. /\ BillingTypeOK /\ ~At(h, "idle") /\ ~At(h, "mark") /\ delivery[h].event \in 1..Len(events)
      /\ UNCHANGED <<stripeSide, subscriptions, service, grant, trouble>>
  BY EventTyped DEF RecordEvent, At, BillingFacts
<1>2. CASE inbox[delivery[h].event] = "absent"
  <2>1. Goto(h, "read") /\ inbox' = [inbox EXCEPT ![delivery[h].event] = "recorded"] /\ acked' = acked
    BY <1>2 DEF RecordEvent
  <2>2. HandlerFits(h)' /\ delivery' \in [Deliveries -> Delivery] /\ OthersGoOn(h)
    BY <1>1, <2>1, GotoFits, GotoMeans DEF DeliverySteps
  <2>3. BillingTypeOK'
    BY <1>1, <2>1, <2>2 DEF BillingTypeOK, stripeSide, service
  <2>4. \A s \in Subs : RowHolds(s)'
    BY <1>1, RowKept
  <2> QED
    BY <1>1, <2>2, <2>3, <2>4, HandlerKept, LocalKeeps DEF service
<1>3. CASE inbox[delivery[h].event] # "absent"
  <2>1. Done(h) /\ acked' = acked \cup {delivery[h].event} /\ inbox' = inbox
    BY <1>3 DEF RecordEvent
  <2>2. HandlerFits(h)' /\ delivery' \in [Deliveries -> Delivery] /\ OthersGoOn(h)
    BY <1>1, <2>1, DoneFits, DoneMeans
  <2>3. BillingTypeOK'
    BY <1>1, <2>1, <2>2 DEF BillingTypeOK, stripeSide, service
  <2>4. \A s \in Subs : RowHolds(s)'
    BY <1>1, RowKept
  <2> QED
    BY <1>1, <2>2, <2>3, <2>4, HandlerKept, LocalKeeps DEF service
<1> QED
  BY <1>2, <1>3

LEMMA MapCheckoutFacts ==
  ASSUME BillingFacts, NEW h \in Deliveries, MapCheckout(h)
  PROVE  BillingFacts'
<1> DEFINE e == EventOf(h)
<1>1. /\ BillingTypeOK /\ ~At(h, "idle") /\ ~At(h, "mark") /\ AfterHandler(h)
      /\ e.sub \in Subs /\ EventHolds(e)
      /\ UNCHANGED <<stripeSide, inbox, acked, service, grant, trouble>>
  BY EventTyped DEF MapCheckout, At, BillingFacts
<1>2. HandlerFits(h)' /\ delivery' \in [Deliveries -> Delivery] /\ OthersGoOn(h)
  BY <1>1, AfterFits, AfterMeans
<1>3. \/ subscriptions' = subscriptions
      \/ subscriptions[e.sub].status = "none" /\ subscriptions' = [subscriptions EXCEPT ![e.sub] = [NoRow EXCEPT !.status = "incomplete"]]
  BY DEF MapCheckout
<1>4. [NoRow EXCEPT !.status = "incomplete"] \in Row /\ [NoRow EXCEPT !.status = "incomplete"].status = "incomplete"
      /\ [NoRow EXCEPT !.status = "incomplete"].synced = 0
  BY NoRowIsARow DEF NoRow, Row, Status
<1>5. BillingTypeOK'
  <2>1. subscriptions' \in [Subs -> Row]
    BY <1>1, <1>3, <1>4 DEF BillingTypeOK
  <2> QED
    BY <1>1, <1>2, <2>1 DEF BillingTypeOK, stripeSide, service
<1>6. ASSUME NEW s \in Subs PROVE RowHolds(s)'
  <2>1. CASE subscriptions'[s] = subscriptions[s]
    BY <1>1, <2>1, RowKept
  <2>2. CASE subscriptions'[s] # subscriptions[s]
    <3>1. s = e.sub /\ subscriptions'[s] = [NoRow EXCEPT !.status = "incomplete"]
      BY <1>1, <1>3, <2>2 DEF BillingTypeOK
    <3>2. stripe'[s].status # "none"
      BY <1>1, <3>1 DEF EventHolds, stripeSide
    <3> QED
      BY <1>4, <3>1, <3>2 DEF RowHolds
  <2> QED
    BY <2>1, <2>2
<1> QED
  BY <1>1, <1>2, <1>5, <1>6, HandlerKept, LocalKeeps DEF service

LEMMA ReadRowFacts ==
  ASSUME BillingFacts, NEW h \in Deliveries, ReadRow(h)
  PROVE  BillingFacts'
<1> DEFINE current == subscriptions[EventOf(h).sub]
           seen == IF delivery[h].handler = "updated" THEN current ELSE NoRow
<1>1. /\ BillingTypeOK /\ ~At(h, "idle") /\ ~At(h, "mark") /\ delivery[h].handler # "map" /\ current \in Row
      /\ UNCHANGED <<stripeSide, inbox, acked, subscriptions, service, grant, trouble>> /\ delivery[h] \in Delivery
  BY EventTyped DEF ReadRow, At, BillingFacts, BillingTypeOK
<1>2. HandlerFits(h)' /\ delivery' \in [Deliveries -> Delivery] /\ OthersGoOn(h)
  <2>1. CASE Skips(h, current)
    <3>1. AfterHandler(h)
      BY <2>1 DEF ReadRow
    <3> QED
      BY <1>1, <3>1, AfterFits, AfterMeans
  <2>2. CASE ~Skips(h, current)
    <3>1. delivery' = [delivery EXCEPT ![h].pc = "write", ![h].seen = seen]
      BY <2>2 DEF ReadRow
    <3>2. delivery'[h] = [delivery[h] EXCEPT !.pc = "write", !.seen = seen] /\ seen \in Row
      BY <1>1, <3>1, NoRowIsARow DEF BillingTypeOK
    <3>3. delivery'[h] \in Delivery /\ delivery'[h].pc = "write" /\ delivery'[h].event = delivery[h].event
          /\ delivery'[h].handler = delivery[h].handler
      BY <1>1, <3>2 DEF Delivery
    <3>4. delivery' \in [Deliveries -> Delivery] /\ OthersGoOn(h)
      BY <1>1, <3>1, <3>3 DEF BillingTypeOK, OthersGoOn
    <3> QED
      BY <1>1, <3>3, <3>4 DEF BillingFacts, HandlerFits, At, EventOf, HandlerOf, stripeSide
  <2> QED
    BY <2>1, <2>2
<1>3. BillingTypeOK'
  BY <1>1, <1>2 DEF BillingTypeOK, stripeSide, service
<1>4. \A s \in Subs : RowHolds(s)'
  BY <1>1, RowKept
<1> QED
  BY <1>1, <1>2, <1>3, <1>4, HandlerKept, LocalKeeps DEF service

LEMMA RowWritten ==
  ASSUME BillingFacts, UNCHANGED stripeSide, NEW s \in Subs, NEW r \in Row, subscriptions'[s] = r, NEW k \in Of(s),
         events[k].created = r.synced, r.synced # 0, r.status # "none", stripe[s].status # "none",
         r.status \in LIVE_STATUSES <=> TellsLive(events[k]),
         r.status = "canceled" => k \in OfType(s, "customer.subscription.deleted")
  PROVE  RowHolds(s)'
<1>1. stripe' = stripe /\ events' = events
  BY DEF stripeSide
<1> QED
  BY <1>1 DEF RowHolds, Of, OfType, TellsLive

\* The row that a handler writes.
LEMMA WrittenMeans ==
  ASSUME BillingFacts, NEW h \in Deliveries, At(h, "write"), NEW r \in Row
  PROVE  /\ Written(h, r) \in Row /\ Written(h, r).synced = EventOf(h).created
         /\ Written(h, r).status = IF delivery[h].handler = "paid" THEN "active" ELSE EventOf(h).status
         /\ delivery[h].handler \in {"paid", "trialing", "updated", "deleted"}
         /\ delivery[h].handler = "paid" <=> EventOf(h).type = "invoice.paid"
         /\ delivery[h].handler = "deleted" <=> EventOf(h).type = "customer.subscription.deleted"
<1> DEFINE e == EventOf(h)
<1>1. /\ e \in Event /\ EventHolds(e) /\ e.period \in 0..MaxPeriod /\ e.created \in 0..MaxChanges
      /\ e.type \in EventType /\ e.status \in Status /\ delivery[h] \in Delivery /\ HandlerFits(h)
  BY EventTyped DEF At, BillingFacts
<1>2. /\ delivery[h].handler \in {"paid", "trialing", "updated", "deleted"}
      /\ delivery[h].handler = "paid" <=> e.type = "invoice.paid"
      /\ delivery[h].handler = "deleted" <=> e.type = "customer.subscription.deleted"
      /\ delivery[h].handler = "trialing" => e.status = "trialing"
  BY <1>1 DEF HandlerFits, At, HandlerOf, EventType, EventHolds
<1>3. delivery[h].seen \in Row
  BY <1>1 DEF Delivery
<1>4. PaidWrites(e, r) \in Row /\ PaidWrites(e, r).synced = e.created /\ PaidWrites(e, r).status = "active"
  BY <1>1 DEF PaidWrites, Row, Status
<1>5. TrialWrites(e, r) \in Row /\ TrialWrites(e, r).synced = e.created /\ TrialWrites(e, r).status = "trialing"
  BY <1>4 DEF TrialWrites, Row, Status
<1>6. UpdateWrites(e, delivery[h].seen) \in Row /\ UpdateWrites(e, delivery[h].seen).synced = e.created
      /\ UpdateWrites(e, delivery[h].seen).status = e.status
  BY <1>1, <1>3 DEF UpdateWrites, Row
<1>7. DeletionWrites(e, r) \in Row /\ DeletionWrites(e, r).synced = e.created /\ DeletionWrites(e, r).status = "canceled"
  BY <1>1 DEF DeletionWrites, Row, Status
<1>8. e.type = "customer.subscription.deleted" => e.status = "canceled"
  BY <1>1 DEF EventHolds
<1> QED
  BY <1>2, <1>4, <1>5, <1>6, <1>7, <1>8 DEF Written

LEMMA WriteRowFacts ==
  ASSUME BillingFacts, NEW h \in Deliveries, WriteRow(h)
  PROVE  BillingFacts'
<1> DEFINE e == EventOf(h)
           r == Written(h, subscriptions[e.sub])
<1>1. /\ BillingTypeOK /\ At(h, "write") /\ ~At(h, "idle") /\ ~At(h, "mark")
      /\ e.sub \in Subs /\ EventHolds(e) /\ delivery[h].event \in Of(e.sub) /\ e = events[delivery[h].event]
      /\ subscriptions' = [subscriptions EXCEPT ![e.sub] = r] /\ Goto(h, "sync")
      /\ UNCHANGED <<stripeSide, inbox, acked, service, grant, trouble>> /\ e.type \in EventType
  BY EventTyped DEF WriteRow, At, BillingFacts, Of, EventOf
<1>2. /\ r \in Row /\ r.synced = e.created
      /\ r.status = IF e.type = "invoice.paid" THEN "active" ELSE e.status
      /\ delivery[h].handler \in {"paid", "trialing", "updated", "deleted"}
  <2>1. subscriptions[e.sub] \in Row
    BY <1>1, SMTT(30) DEF BillingTypeOK
  <2> QED
    BY <1>1, <2>1, WrittenMeans
<1>3. HandlerFits(h)' /\ delivery' \in [Deliveries -> Delivery] /\ OthersGoOn(h)
  BY <1>1, <1>2, GotoFits, GotoMeans DEF DeliverySteps
<1>4. BillingTypeOK'
  <2> HIDE DEF r
  <2>1. subscriptions' \in [Subs -> Row]
    BY <1>1, <1>2 DEF BillingTypeOK
  <2> QED
    BY <1>1, <1>3, <2>1 DEF BillingTypeOK, stripeSide, service
<1>5. ASSUME NEW s \in Subs PROVE RowHolds(s)'
  <2> HIDE DEF r
  <2>1. CASE s # e.sub
    <3>1. subscriptions'[s] = subscriptions[s]
      BY <1>1, <2>1
    <3> QED
      BY <1>1, <3>1, RowKept
  <2>2. CASE s = e.sub
    <3>1. subscriptions'[s] = r
      BY <1>1, <2>2 DEF BillingTypeOK
    <3>2. r.synced # 0 /\ r.status # "none" /\ stripe[s].status # "none"
      BY <1>1, <1>2, <2>2 DEF EventHolds
    <3>3. r.status \in LIVE_STATUSES <=> TellsLive(e)
      BY <1>2 DEF TellsLive, LIVE_STATUSES
    <3>4. r.status = "canceled" => delivery[h].event \in OfType(s, "customer.subscription.deleted")
      BY <1>1, <1>2, <2>2 DEF OfType, EventHolds
    <3>7. delivery[h].event \in Of(s) /\ events[delivery[h].event].created = r.synced
      BY <1>1, <1>2, <2>2
    <3>8. r.status \in LIVE_STATUSES <=> TellsLive(events[delivery[h].event])
      BY <1>1, <3>3
    <3> QED
      BY <1>1, <1>2, <3>1, <3>2, <3>4, <3>7, <3>8, RowWritten
  <2> QED
    BY <2>1, <2>2
<1> QED
  BY <1>1, <1>3, <1>4, <1>5, HandlerKept, LocalKeeps DEF service

LEMMA RowMissingFacts ==
  ASSUME BillingFacts, NEW h \in Deliveries, RowMissing(h)
  PROVE  BillingFacts'
<1>1. /\ BillingTypeOK /\ ~At(h, "idle") /\ ~At(h, "mark") /\ (AfterHandler(h) \/ Done(h))
      /\ UNCHANGED <<stripeSide, inbox, acked, subscriptions, service, grant, trouble>>
  BY DEF RowMissing, At, BillingFacts
<1>2. HandlerFits(h)' /\ delivery' \in [Deliveries -> Delivery] /\ OthersGoOn(h)
  BY <1>1, AfterFits, AfterMeans, DoneFits, DoneMeans
<1>3. BillingTypeOK'
  BY <1>1, <1>2 DEF BillingTypeOK, stripeSide, service
<1>4. \A s \in Subs : RowHolds(s)'
  BY <1>1, RowKept
<1> QED
  BY <1>1, <1>2, <1>3, <1>4, HandlerKept, LocalKeeps DEF service

\* What a handler's jobs do: somebody is served more only if entitled, and the key of the jobs that end
\* the service of a subscription is taken by its end alone.
IsEnd(h) == delivery[h].handler = "deleted" \/ (delivery[h].handler = "updated" /\ EventOf(h).status \in {"canceled", "unpaid"})
LEMMA QueueMeans ==
  ASSUME BillingFacts, NEW h \in Deliveries, QueueJobs(h)
  PROVE  /\ AfterHandler(h) \/ Done(h)
         /\ identity' \in {"none", "creating", "enabled", "disabled"} /\ jobKeys' \subseteq JobKey
         /\ \/ identity' = identity
            \/ Entitled /\ identity' \in {"creating", "enabled"}
            \/ ~Entitled /\ identity = "enabled" /\ identity' = "disabled"
         /\ \A s \in Subs : DisableKey(s) \in jobKeys' => DisableKey(s) \in jobKeys \/ (IsEnd(h) /\ EventOf(h).sub = s)
         /\ delivery[h].handler = "deleted" /\ ~Entitled /\ identity = "enabled" /\ DisableKey(EventOf(h).sub) \notin jobKeys
                => identity' = "disabled"
<1> DEFINE e == EventOf(h)
           by == delivery[h].handler
           ends == by = "deleted" \/ (by = "updated" /\ e.status \in {"canceled", "unpaid"})
<1>1. /\ BillingTypeOK /\ ~At(h, "idle") /\ e.sub \in Subs /\ e.period \in 0..MaxPeriod /\ 0 \in 0..MaxPeriod
  BY BillingParameters, EventTyped DEF QueueJobs, At, BillingFacts
<1>2. \/ ends /\ DisableService(h, e.sub)
      \/ by \in {"paid", "trialing"} /\ ~Entitled /\ Done(h) /\ UNCHANGED service
      \/ by \in {"paid", "trialing"} /\ Entitled /\ CreateService(h, e.sub)
      \/ by = "paid" /\ Entitled /\ ExtendService(h, e)
      \/ by = "updated" /\ ~ends /\ PushExpiry(h, e)
  BY DEF QueueJobs
<1>3. ends <=> IsEnd(h)
  BY DEF IsEnd
<1>4. ASSUME UNCHANGED service, AfterHandler(h) \/ Done(h), by # "deleted"
      PROVE  /\ AfterHandler(h) \/ Done(h)
             /\ identity' \in {"none", "creating", "enabled", "disabled"} /\ jobKeys' \subseteq JobKey
             /\ identity' = identity
             /\ \A s \in Subs : DisableKey(s) \in jobKeys' => DisableKey(s) \in jobKeys
  BY <1>1, <1>4 DEF service, BillingTypeOK
<1>5. ASSUME NEW prefix \in {"create-user", "invoice-paid", "subscription-updated", "stripe-ended"}, NEW k \in 0..MaxPeriod, Sync(prefix, e.sub, k)
      PROVE  \A s \in Subs : DisableKey(s) \in jobKeys' => DisableKey(s) \in jobKeys
  <2>1. \A key \in jobKeys' : key \in jobKeys \/ \E job \in {"create", "enable", "disable"} : key = <<prefix, e.sub, k, job>>
    <3>1. prefix \in {"create-user", "invoice-paid", "subscription-updated", "stripe-ended", "disable-user"}
      OBVIOUS
    <3> HIDE DEF e
    <3> QED
      BY <1>1, <1>5, <3>1, SyncMeans
  <2>2. \A s \in Subs, job \in {"create", "enable", "disable"} : DisableKey(s) # <<prefix, e.sub, k, job>>
    BY DEF DisableKey
  <2> QED
    BY <2>1, <2>2
<1>6. CASE ends /\ DisableService(h, e.sub)
  <2>1. CASE Entitled
    <3>1. Sync("stripe-ended", e.sub, 0) /\ AfterHandler(h)
      BY <1>6, <2>1 DEF DisableService
    <3> HIDE DEF e, by, ends
    <3> QED
      BY <1>1, <1>5, <2>1, <3>1, SyncMeans
  <2>2. CASE ~Entitled
    <3>1. Sync("disable-user", e.sub, 0) /\ (AfterHandler(h) \/ Done(h))
      BY <1>6, <2>2 DEF DisableService
    <3>2. \A key \in jobKeys' : key \in jobKeys \/ \E job \in {"create", "enable", "disable"} : key = <<"disable-user", e.sub, 0, job>>
      BY <1>1, <3>1, SyncMeans
    <3>3. \A s \in Subs, job \in {"create", "enable", "disable"} : DisableKey(s) = <<"disable-user", e.sub, 0, job>> => s = e.sub
      BY DEF DisableKey
    <3>4. \A s \in Subs : DisableKey(s) \in jobKeys' => DisableKey(s) \in jobKeys \/ e.sub = s
      BY <3>2, <3>3
    <3>5. ~Entitled /\ identity = "enabled" /\ DisableKey(e.sub) \notin jobKeys => identity' = "disabled"
      BY <1>1, <3>1, SyncMeans DEF DisableKey
    <3>6. /\ identity' \in {"none", "creating", "enabled", "disabled"} /\ jobKeys' \subseteq JobKey
          /\ identity' = identity \/ (identity = "enabled" /\ identity' = "disabled")
      BY <1>1, <2>2, <3>1, SyncMeans
    <3> QED
      BY <1>3, <1>6, <2>2, <3>1, <3>4, <3>5, <3>6
  <2> QED
    BY <2>1, <2>2
<1>7. CASE by \in {"paid", "trialing"} /\ ~Entitled /\ Done(h) /\ UNCHANGED service
  BY <1>4, <1>7
<1>8. CASE by \in {"paid", "trialing"} /\ Entitled /\ CreateService(h, e.sub)
  <2>1. Sync("create-user", e.sub, 0) /\ AfterHandler(h) /\ by # "deleted"
    BY <1>8 DEF CreateService
  <2> HIDE DEF e, by, ends
  <2> QED
    BY <1>1, <1>5, <1>8, <2>1, SyncMeans DEF by
<1>9. CASE by = "paid" /\ Entitled /\ ExtendService(h, e)
  <2>1. Sync("invoice-paid", e.sub, e.period) /\ (AfterHandler(h) \/ Done(h)) /\ by # "deleted"
    BY <1>9 DEF ExtendService
  <2> HIDE DEF e, by, ends
  <2> QED
    BY <1>1, <1>5, <1>9, <2>1, SyncMeans DEF by
<1>10. CASE by = "updated" /\ ~ends /\ PushExpiry(h, e)
  <2>1. AfterHandler(h) /\ by # "deleted" /\ (UNCHANGED service \/ (Entitled /\ Sync("subscription-updated", e.sub, 0)))
    BY <1>10 DEF PushExpiry
  <2> HIDE DEF e, by, ends
  <2>2. CASE UNCHANGED service
    BY <1>4, <2>1, <2>2 DEF by
  <2>3. CASE Entitled /\ Sync("subscription-updated", e.sub, 0)
    BY <1>1, <1>5, <2>1, <2>3, SyncMeans DEF by
  <2> QED
    BY <2>1, <2>2, <2>3
<1> QED
  BY <1>2, <1>6, <1>7, <1>8, <1>9, <1>10

LEMMA QueueJobsFacts ==
  ASSUME BillingFacts, NEW h \in Deliveries, QueueJobs(h)
  PROVE  BillingFacts'
<1>1. /\ BillingTypeOK /\ ~At(h, "idle") /\ ~At(h, "mark")
      /\ UNCHANGED <<stripeSide, inbox, acked, subscriptions, grant, trouble>>
  BY DEF QueueJobs, At, BillingFacts
<1>2. /\ AfterHandler(h) \/ Done(h)
      /\ identity' \in {"none", "creating", "enabled", "disabled"} /\ jobKeys' \subseteq JobKey
      /\ identity' # "none" => identity # "none" \/ Entitled
  BY QueueMeans
<1>3. HandlerFits(h)' /\ delivery' \in [Deliveries -> Delivery] /\ OthersGoOn(h)
  BY <1>1, <1>2, AfterFits, AfterMeans, DoneFits, DoneMeans
<1>4. BillingTypeOK'
  BY <1>1, <1>2, <1>3 DEF BillingTypeOK, stripeSide
<1>5. \A s \in Subs : RowHolds(s)'
  BY <1>1, RowKept
<1> QED
  BY <1>1, <1>2, <1>3, <1>4, <1>5, HandlerKept, LocalKeeps

LEMMA MarkProcessedFacts ==
  ASSUME BillingFacts, NEW h \in Deliveries, MarkProcessed(h)
  PROVE  BillingFacts'
<1>1. /\ BillingTypeOK /\ ~At(h, "idle") /\ delivery[h].event \in 1..Len(events) /\ Done(h)
      /\ inbox' = [inbox EXCEPT ![delivery[h].event] = "processed"] /\ acked' = acked \cup {delivery[h].event}
      /\ UNCHANGED <<stripeSide, subscriptions, service, grant, trouble>>
  BY EventTyped DEF MarkProcessed, At, BillingFacts
<1>2. HandlerFits(h)' /\ delivery' \in [Deliveries -> Delivery] /\ OthersGoOn(h)
  BY <1>1, DoneFits, DoneMeans
<1>3. BillingTypeOK'
  BY <1>1, <1>2 DEF BillingTypeOK, stripeSide, service
<1>4. \A s \in Subs : RowHolds(s)'
  BY <1>1, RowKept
<1> QED
  BY <1>1, <1>2, <1>3, <1>4, HandlerKept, LocalKeeps DEF service

LEMMA DeliveryFailsFacts ==
  ASSUME BillingFacts, NEW h \in Deliveries, DeliveryFails(h)
  PROVE  BillingFacts' /\ trouble'.failed = trouble.failed + 1 /\ trouble.failed \in Nat
<1>1. /\ BillingTypeOK /\ Done(h) /\ trouble' = [trouble EXCEPT !.failed = @ + 1] /\ trouble.failed + trouble.overlapped < MaxTrouble
      /\ UNCHANGED <<stripeSide, inbox, acked, subscriptions, service, grant>>
      /\ trouble \in [failed : 0..MaxTrouble, overlapped : 0..MaxTrouble] /\ MaxTrouble \in Nat
  BY BillingParameters DEF DeliveryFails, BillingFacts, BillingTypeOK, Troubles
<1>2. HandlerFits(h)' /\ delivery' \in [Deliveries -> Delivery] /\ OthersGoOn(h)
  BY <1>1, DoneFits, DoneMeans
<1>3. trouble' \in [failed : 0..MaxTrouble, overlapped : 0..MaxTrouble] /\ trouble'.failed = trouble.failed + 1 /\ trouble.failed \in Nat
  <2>1. trouble.failed \in Nat /\ trouble.overlapped \in Nat
    BY <1>1
  <2>2. trouble.failed + 1 \in 0..MaxTrouble
    BY <1>1, <2>1
  <2> QED
    BY <1>1, <2>1, <2>2
<1>4. BillingTypeOK'
  BY <1>1, <1>2, <1>3 DEF BillingTypeOK, stripeSide, service
<1>5. \A s \in Subs : RowHolds(s)'
  BY <1>1, RowKept
<1> QED
  BY <1>1, <1>2, <1>3, <1>4, <1>5, HandlerKept, LocalKeeps DEF service

LEMMA FactsGoOn == BillingFacts /\ [BillingNext]_billingVars => BillingFacts'
<1> SUFFICES ASSUME BillingFacts, [BillingNext]_billingVars PROVE BillingFacts'
  OBVIOUS
<1>1. CASE UNCHANGED billingVars
  <2>1. BillingTypeOK'
    BY <1>1 DEF BillingFacts, BillingTypeOK, billingVars
  <2>2. UNCHANGED stripeSide /\ UNCHANGED <<subscriptions, delivery, grant, identity>>
    BY <1>1 DEF billingVars, stripeSide
  <2>3. \A h \in Deliveries : HandlerFits(h)'
    BY <2>2 DEF BillingFacts, HandlerFits, At, EventOf, HandlerOf, stripeSide
  <2>4. \A s \in Subs : RowHolds(s)'
    BY <2>2, RowKept
  <2> QED
    BY <2>1, <2>2, <2>3, <2>4, LocalKeeps
<1>2. CASE BillingNext
  BY <1>2, StripeActsKeeps, AgentCreatesFacts, GraceEndsFacts, DeliverFacts, RecordEventFacts, MapCheckoutFacts, ReadRowFacts,
     WriteRowFacts, RowMissingFacts, QueueJobsFacts, MarkProcessedFacts, DeliveryFailsFacts DEF BillingNext, HandlerStep
<1> QED
  BY <1>1, <1>2

LEMMA FactsBegin == BillingInit => BillingFacts
<1> SUFFICES ASSUME BillingInit PROVE BillingFacts
  OBVIOUS
<1>1. /\ 0 \in 0..MaxPeriod /\ 0 \in 0..MaxChanges /\ 0 \in 0..MaxTrouble
  BY BillingParameters
<1>2. Len(events) = 0 /\ 1..Len(events) = {} /\ events \in Seq(Event)
  BY DEF BillingInit
<1>3. BillingTypeOK
  <2>1. stripe \in [Subs -> Subscription]
    BY <1>1 DEF BillingInit, Subscription, Status
  <2>2. inbox \in [1..Len(events) -> {"absent", "recorded", "processed"}]
    BY <1>2 DEF BillingInit
  <2>3. trouble \in [failed : 0..MaxTrouble, overlapped : 0..MaxTrouble]
    BY <1>1 DEF BillingInit
  <2> QED
    BY <1>1, <1>2, <2>1, <2>2, <2>3, NoRowIsARow DEF BillingInit, BillingTypeOK
<1>4. \A s \in Subs : StripeHolds(s)
  BY <1>2 DEF BillingInit, StripeHolds, OfType, Of, Charged
<1>5. \A s \in Subs : RowHolds(s)
  BY DEF BillingInit, RowHolds, NoRow
<1>6. \A h \in Deliveries : HandlerFits(h)
  BY NoRowIsARow DEF BillingInit, HandlerFits, At
<1> QED
  BY <1>2, <1>3, <1>4, <1>5, <1>6 DEF BillingFacts, UnpaidNeverServed, BillingInit

-----------------------------------------------------------------------------
(* What the comparison of rows keeps *)

\* A row only becomes newer, is there for good and ended for good, and what was not sold gets none.
Forward(s) ==
    LET r == subscriptions[s]
        q == subscriptions'[s]
    IN /\ r.status # "none" => q.status # "none"
       /\ r.status = "canceled" => q.status = "canceled"
       /\ r.synced <= q.synced
       /\ WasMapped(s) /\ r.status = "none" => q.status = "none"
SameRow(s) == subscriptions'[s].status = subscriptions[s].status /\ subscriptions'[s].synced = subscriptions[s].synced

LEMMA SameIsForward ==
  ASSUME BillingFacts, NEW s \in Subs, SameRow(s)
  PROVE  Forward(s)
<1>1. subscriptions[s].synced \in Nat
  BY DEF BillingFacts, BillingTypeOK, Row
<1> QED
  BY <1>1 DEF Forward, SameRow

LEMMA MappedStays ==
  ASSUME UNCHANGED stripeSide, NEW s \in Subs, Forward(s), WasMapped(s)
  PROVE  WasMapped(s)'
BY DEF stripeSide, Forward, WasMapped, OfType, Of

LEMMA AppliedStays ==
  ASSUME BillingFacts, BillingFacts', UNCHANGED stripeSide, NEW i \in 1..Len(events), Forward(events[i].sub), Applied(events[i])
  PROVE  Applied(events[i])'
<1> DEFINE e == events[i]
           r == subscriptions[e.sub]
           q == subscriptions'[e.sub]
<1>1. events' = events /\ e.sub \in Subs /\ e.created \in Nat /\ r.synced \in Nat /\ q.synced \in Nat
  <2>1. BillingTypeOK /\ BillingTypeOK' /\ events' = events
    BY DEF BillingFacts, stripeSide
  <2>2. e \in Event
    BY <2>1 DEF BillingTypeOK
  <2>3. e.sub \in Subs /\ e.created \in Nat
    BY <2>2 DEF Event
  <2>4. r \in Row /\ q \in Row
    BY <2>1, <2>3 DEF BillingTypeOK
  <2> QED
    BY <2>1, <2>3, <2>4 DEF Row
<1>2. WasMapped(e.sub) => WasMapped(e.sub)'
  BY <1>1, MappedStays
<1>3. e.type \in {"customer.subscription.created", "customer.subscription.updated"} /\ e.approved => q.status = "canceled" \/ q.synced >= e.created
  BY <1>1 DEF Applied, Forward
<1>4. e.type = "checkout.session.completed" /\ e.approved => q.status # "none"
  BY DEF Applied, Forward
<1>5. e.type = "customer.subscription.deleted" => q.status \in {"none", "canceled"} /\ WasMapped(e.sub)'
  BY <1>2, SMTT(30) DEF Applied, Forward
<1> QED
  BY <1>1, <1>3, <1>4, <1>5 DEF Applied

\* The other deliveries: whoever is about to write finds the row as it was, or new.
LEMMA OthersHold ==
  ASSUME BillingFacts, BillingFacts', UNCHANGED stripeSide, NEW g \in Deliveries, delivery'[g] = delivery[g],
         DeliveryHolds(g), ~At(g, "idle") => Forward(EventOf(g).sub),
         At(g, "write") => SameRow(EventOf(g).sub) \/ (subscriptions'[EventOf(g).sub].synced = 0 /\ subscriptions'[EventOf(g).sub].status # "canceled")
  PROVE  DeliveryHolds(g)'
<1> SUFFICES ASSUME ~At(g, "idle") PROVE DeliveryHolds(g)'
  BY DEF DeliveryHolds, At
<1> DEFINE e == EventOf(g)
           i == delivery[g].event
<1>1. /\ delivery'[g] = delivery[g] /\ EventOf(g)' = e /\ e = events[i] /\ i \in 1..Len(events) /\ e.sub \in Subs
      /\ e.created \in Nat /\ subscriptions[e.sub].synced \in Nat /\ subscriptions'[e.sub].synced \in Nat
  <2>1. delivery'[g] = delivery[g] /\ events' = events
    BY DEF stripeSide
  <2>2. e.sub \in Subs /\ e.created \in Nat /\ i \in 1..Len(events)
    BY EventTyped
  <2>3. subscriptions[e.sub] \in Row /\ subscriptions'[e.sub] \in Row
    BY <2>2 DEF BillingFacts, BillingTypeOK
  <2> QED
    BY <2>1, <2>2, <2>3 DEF EventOf, Row
<1>2. \A pc : At(g, pc)' <=> At(g, pc)
  BY <1>1, SMTT(30) DEF At
<1>3. e.type = "customer.subscription.deleted" => WasMapped(e.sub)'
  BY <1>1, MappedStays DEF DeliveryHolds
<1>4. At(g, "mark") => Applied(events[i])'
  BY <1>1, AppliedStays, SMTT(30) DEF DeliveryHolds
<1>5. At(g, "mark") => Applied(EventOf(g))'
  BY <1>1, <1>4, SMTT(30) DEF EventOf, stripeSide, Applied
<1> DEFINE q == subscriptions'[e.sub]
<1>6. At(g, "write") => q.status # "canceled" /\ (q.synced = 0 \/ delivery[g].handler = "deleted" \/ q.synced < e.created)
  BY <1>1, SMTT(30) DEF DeliveryHolds, SameRow
<1>7. At(g, "sync") => q.status = "canceled" \/ (q.synced >= e.created /\ delivery[g].handler # "deleted")
  BY <1>1 DEF DeliveryHolds, Forward
<1> QED
  BY <1>1, <1>2, <1>3, <1>5, <1>6, <1>7 DEF DeliveryHolds

\* Who may write or end what h does not.
OneByOneFor(h) ==
    \A g \in Deliveries : g # h =>
        /\ At(g, "write") /\ At(h, "write")' => EventOf(g).sub # EventOf(h)'.sub
        /\ \A s \in Subs : ~(Ending(g, s) /\ Ending(h, s)')

LEMMA OneByOneStays ==
  ASSUME UNCHANGED stripeSide, NEW h \in Deliveries, OthersGoOn(h), OneByOne, OneByOneFor(h)
  PROVE  OneByOne'
<1>1. \A g \in Deliveries : g # h => /\ EventOf(g)' = EventOf(g) /\ \A pc : At(g, pc)' <=> At(g, pc)
                                    /\ \A s \in Subs : Ending(g, s)' <=> Ending(g, s)
  BY DEF OthersGoOn, stripeSide, EventOf, At, Ending
<1>2. ASSUME NEW g \in Deliveries, NEW k \in Deliveries, g # k
      PROVE  /\ At(g, "write")' /\ At(k, "write")' => EventOf(g)'.sub # EventOf(k)'.sub
             /\ \A s \in Subs : ~(Ending(g, s)' /\ Ending(k, s)')
  <2>1. CASE g # h /\ k # h
    BY <1>1, <1>2, <2>1 DEF OneByOne
  <2>2. CASE g = h
    BY <1>1, <1>2, <2>2 DEF OneByOneFor
  <2>3. CASE k = h
    BY <1>1, <1>2, <2>3 DEF OneByOneFor
  <2> QED
    BY <2>1, <2>2, <2>3
<1> QED
  BY <1>2 DEF OneByOne

\* No service changes and nobody stops ending one: the rest follows.
LEMMA CutOffStays ==
  ASSUME CutsOff, UNCHANGED stripeSide, UNCHANGED service, grant' = grant, trouble'.failed = trouble.failed,
         \A s \in Subs : EndsLater(s) => EndsLater(s)',
         \A s \in Subs : subscriptions[s].status = "canceled" => subscriptions'[s].status = "canceled",
         \A h \in Deliveries, s \in Subs : Ending(h, s)' => Ending(h, s) \/ subscriptions[s].status # "canceled"
  PROVE  CutsOff'
BY DEF CutsOff, stripeSide, service, DisableKey

\* A step of h that neither writes a row of somebody else nor serves.
LEMMA StepHolds ==
  ASSUME BillingInv, BillingFacts', UNCHANGED stripeSide, NEW h \in Deliveries, OthersGoOn(h), \A s \in Subs : Forward(s),
         \A g \in Deliveries : g # h /\ At(g, "write") =>
             SameRow(EventOf(g).sub) \/ (subscriptions'[EventOf(g).sub].synced = 0 /\ subscriptions'[EventOf(g).sub].status # "canceled"),
         DeliveryHolds(h)', OneByOneFor(h), CutsOff',
         \A i \in 1..Len(events) : inbox'[i] = "processed" => inbox[i] = "processed" \/ Applied(events[i])
  PROVE  BillingInv'
<1>1. \A g \in Deliveries : DeliveryHolds(g)'
  <2> SUFFICES ASSUME NEW g \in Deliveries, g # h PROVE DeliveryHolds(g)'
    OBVIOUS
  <2>1. ~At(g, "idle") => Forward(EventOf(g).sub)
    BY EventTyped DEF BillingInv
  <2>2. delivery'[g] = delivery[g]
    BY DEF OthersGoOn
  <2> QED
    BY <2>1, <2>2, OthersHold DEF BillingInv
<1>2. \A i \in 1..Len(events) : inbox'[i] = "processed" => Applied(events[i])'
  <2> SUFFICES ASSUME NEW i \in 1..Len(events), inbox'[i] = "processed" PROVE Applied(events[i])'
    OBVIOUS
  <2>1. Applied(events[i])
    BY DEF BillingInv
  <2>2. events[i] \in Event
    BY DEF BillingInv, BillingFacts, BillingTypeOK
  <2>3. events[i].sub \in Subs
    BY <2>2 DEF Event
  <2>4. Forward(events[i].sub)
    BY <2>3
  <2> QED
    BY <2>1, <2>4, AppliedStays DEF BillingInv
<1>3. OneByOne'
  BY OneByOneStays DEF BillingInv
<1> QED
  BY <1>1, <1>2, <1>3 DEF BillingInv, stripeSide

\* A step that leaves all rows and the service alone and moves h to where it neither writes nor ends.
LEMMA QuietStep ==
  ASSUME BillingInv, BillingFacts', UNCHANGED stripeSide, NEW h \in Deliveries, OthersGoOn(h), UNCHANGED service, grant' = grant,
         \A s \in Subs : SameRow(s), trouble'.failed = trouble.failed,
         ~At(h, "write")' /\ ~At(h, "sync")', ~At(h, "sync") \/ delivery[h].handler # "deleted", DeliveryHolds(h)',
         \A i \in 1..Len(events) : inbox'[i] = "processed" => inbox[i] = "processed" \/ Applied(events[i])
  PROVE  BillingInv'
<1>1. \A s \in Subs : Forward(s)
  BY SameIsForward DEF BillingInv
<1>2. OneByOneFor(h)
  BY DEF OneByOneFor, Ending, At
<1>3. \A g \in Deliveries, s \in Subs : Ending(g, s)' <=> Ending(g, s)
  <2>1. \A s \in Subs : ~Ending(h, s) /\ ~Ending(h, s)'
    BY DEF Ending, At
  <2>2. \A g \in Deliveries, s \in Subs : g # h => (Ending(g, s)' <=> Ending(g, s))
    BY DEF OthersGoOn, stripeSide, EventOf, At, Ending
  <2> QED
    BY <2>1, <2>2
<1>4. \A s \in Subs : EndsLater(s) => EndsLater(s)'
  BY <1>3 DEF EndsLater, SameRow
<1>5. CutsOff'
  BY <1>3, <1>4, CutOffStays DEF BillingInv, SameRow
<1>6. \A g \in Deliveries : ~At(g, "idle") => EventOf(g).sub \in Subs
  BY EventTyped DEF BillingInv
<1>7. \A g \in Deliveries : At(g, "write") => SameRow(EventOf(g).sub)
  BY <1>6 DEF At
<1> QED
  BY <1>1, <1>2, <1>5, <1>7, StepHolds

-----------------------------------------------------------------------------
(* The invariant, step by step *)

LEMMA StripeKeeps ==
  ASSUME BillingInv, NEW s \in Subs, BillingFacts', StripeMoves(s)
  PROVE  BillingInv'
<1>1. /\ UNCHANGED <<subscriptions, delivery, grant, trouble, identity, jobKeys>> /\ stripe[s].status # "canceled"
      /\ \A i \in 1..Len(events) : i \in 1..Len(events') /\ events'[i] = events[i] /\ inbox'[i] = inbox[i]
      /\ \A i \in 1..Len(events') \ (1..Len(events)) : events'[i].sub = s /\ inbox'[i] = "absent"
  BY DEF StripeMoves, service
<1>2. \A x \in Subs : x # s => OfType(x, "checkout.session.completed")' = OfType(x, "checkout.session.completed")
  BY <1>1 DEF OfType, Of
<1>3. \A x \in Subs : x # s /\ WasMapped(x) => WasMapped(x)'
  <2> SUFFICES ASSUME NEW x \in Subs, x # s, WasMapped(x), NEW j \in OfType(x, "checkout.session.completed")', events'[j].approved
               PROVE  subscriptions'[x].status # "none"
    BY DEF WasMapped
  <2>1. j \in OfType(x, "checkout.session.completed")
    BY <1>2
  <2>2. events'[j] = events[j]
    BY <1>1, <2>1 DEF OfType, Of
  <2> QED
    BY <1>1, <2>1, <2>2 DEF WasMapped
<1>4. \A i \in 1..Len(events) : events[i].type = "customer.subscription.deleted" => events[i].sub # s /\ events[i].sub \in Subs
  <2> SUFFICES ASSUME NEW i \in 1..Len(events), events[i].type = "customer.subscription.deleted"
               PROVE  events[i].sub # s /\ events[i].sub \in Subs
    OBVIOUS
  <2>1. events[i] \in Event /\ EventHolds(events[i])
    BY DEF BillingInv, BillingFacts, BillingTypeOK
  <2>2. stripe[events[i].sub].status = "canceled"
    BY <2>1 DEF EventHolds
  <2>3. events[i].sub \in Subs
    BY <2>1 DEF Event
  <2> QED
    BY <1>1, <2>2, <2>3
<1>5. ASSUME NEW i \in 1..Len(events), Applied(events[i]) PROVE Applied(events[i])'
  <2>1. events'[i] = events[i] /\ subscriptions' = subscriptions
    BY <1>1
  <2>2. CASE events[i].type = "customer.subscription.deleted"
    <3>1. PICK x \in Subs : x = events[i].sub /\ x # s
      BY <1>4, <2>2
    <3>2. subscriptions[x].status \in {"none", "canceled"} /\ WasMapped(x)
      BY <1>5, <2>2, <3>1 DEF Applied
    <3>3. WasMapped(x)'
      BY <1>3, <3>1, <3>2
    <3>4. WasMapped(events[i].sub)'
      BY <2>1, <3>1, <3>3 DEF WasMapped
    <3> QED
      BY <2>1, <2>2, <3>1, <3>2, <3>4 DEF Applied
  <2>3. CASE events[i].type # "customer.subscription.deleted"
    BY <1>5, <2>1, <2>3 DEF Applied
  <2> QED
    BY <2>2, <2>3
<1>6. ASSUME NEW h \in Deliveries, ~At(h, "idle") PROVE EventOf(h)' = EventOf(h) /\ DeliveryHolds(h)'
  <2>1. delivery[h].event \in 1..Len(events)
    BY <1>6, EventTyped DEF BillingInv
  <2>2. EventOf(h)' = EventOf(h)
    BY <1>1, <2>1 DEF EventOf
  <2>3. EventOf(h).type = "customer.subscription.deleted" => WasMapped(EventOf(h).sub)'
    <3> SUFFICES ASSUME EventOf(h).type = "customer.subscription.deleted" PROVE WasMapped(EventOf(h).sub)'
      OBVIOUS
    <3>1. PICK x \in Subs : x = EventOf(h).sub /\ x # s
      BY <1>4, <2>1 DEF EventOf
    <3>2. WasMapped(x)
      BY <1>6, <3>1 DEF BillingInv, DeliveryHolds
    <3>3. WasMapped(x)'
      BY <1>3, <3>1, <3>2
    <3> QED
      BY <2>2, <3>1, <3>3 DEF WasMapped
  <2>4. At(h, "mark") => Applied(events[delivery[h].event])
    BY DEF BillingInv, DeliveryHolds, EventOf
  <2>5. At(h, "mark") => Applied(EventOf(h))'
    <3>1. PICK i \in 1..Len(events) : i = delivery[h].event
      BY <2>1
    <3>2. At(h, "mark") => Applied(events[i])'
      BY <1>5, <2>4, <3>1
    <3>3. EventOf(h)' = events'[i]
      BY <1>1, <3>1 DEF EventOf
    <3> QED
      BY <3>2, <3>3 DEF Applied
  <2> QED
    BY <1>1, <1>6, <2>2, <2>3, <2>5 DEF BillingInv, DeliveryHolds, At
<1>7. \A h \in Deliveries : DeliveryHolds(h)'
  <2> SUFFICES ASSUME NEW h \in Deliveries, At(h, "idle") PROVE DeliveryHolds(h)'
    BY <1>6
  <2> QED
    BY <1>1 DEF DeliveryHolds, At
<1>8. \A h \in Deliveries, x \in Subs : Ending(h, x)' <=> Ending(h, x)
  BY <1>1, <1>6 DEF Ending, At
<1>9. OneByOne'
  BY <1>1, <1>6, <1>8 DEF BillingInv, OneByOne, At
<1>10. CutsOff'
  <2>1. \A x \in Subs : EndsLater(x) => EndsLater(x)'
    BY <1>1, <1>8 DEF EndsLater
  <2>2. \A x \in Subs : stripe[x].lapsed => stripe'[x].lapsed
    BY DEF StripeMoves
  <2> QED
    BY <1>1, <1>8, <2>1, <2>2 DEF BillingInv, CutsOff, DisableKey
<1>11. \A i \in 1..Len(events') : inbox'[i] = "processed" => Applied(events[i])'
  BY <1>1, <1>5 DEF BillingInv
<1> QED
  BY <1>7, <1>9, <1>10, <1>11 DEF BillingInv

LEMMA NobodyMoves ==
  ASSUME BillingInv, BillingFacts', UNCHANGED stripeSide, UNCHANGED <<inbox, delivery>>, \A s \in Subs : SameRow(s), CutsOff'
  PROVE  BillingInv'
<1>1. \A s \in Subs : Forward(s)
  BY SameIsForward DEF BillingInv
<1>2. \A g \in Deliveries : DeliveryHolds(g)'
  <2> SUFFICES ASSUME NEW g \in Deliveries PROVE DeliveryHolds(g)'
    OBVIOUS
  <2>1. ~At(g, "idle") => Forward(EventOf(g).sub) /\ SameRow(EventOf(g).sub)
    BY <1>1, EventTyped DEF BillingInv
  <2>2. At(g, "write") => SameRow(EventOf(g).sub)
    BY <2>1 DEF At
  <2>3. delivery'[g] = delivery[g]
    OBVIOUS
  <2> QED
    BY <2>1, <2>2, <2>3, OthersHold DEF BillingInv
<1>3. \A i \in 1..Len(events) : inbox'[i] = "processed" => Applied(events[i])'
  <2> SUFFICES ASSUME NEW i \in 1..Len(events), inbox[i] = "processed" PROVE Applied(events[i])'
    OBVIOUS
  <2>1. Applied(events[i]) /\ events[i] \in Event
    BY DEF BillingInv, BillingFacts, BillingTypeOK
  <2>2. Forward(events[i].sub)
    BY <1>1, <2>1 DEF Event
  <2> QED
    BY <2>1, <2>2, AppliedStays DEF BillingInv
<1>4. OneByOne'
  BY DEF BillingInv, OneByOne, Ending, At, EventOf, stripeSide
<1> QED
  BY <1>2, <1>3, <1>4 DEF BillingInv, stripeSide

LEMMA GraceEndsKeeps ==
  ASSUME BillingInv, NEW s \in Subs, GraceEnds(s), BillingFacts'
  PROVE  BillingInv'
<1>1. /\ subscriptions \in [Subs -> Row] /\ subscriptions' = [subscriptions EXCEPT ![s].pastDue = "over"]
      /\ UNCHANGED <<stripeSide, inbox, acked, delivery, service, grant, trouble>>
  BY DEF GraceEnds, BillingInv, BillingFacts, BillingTypeOK
<1>2. \A x \in Subs : SameRow(x)
  <2>1. \A x \in Subs : subscriptions'[x] = IF x = s THEN [subscriptions[s] EXCEPT !.pastDue = "over"] ELSE subscriptions[x]
    BY <1>1
  <2> QED
    BY <1>1, <2>1 DEF Row, SameRow
<1>3. \A h \in Deliveries, x \in Subs : Ending(h, x)' <=> Ending(h, x)
  BY <1>1 DEF Ending, At, EventOf, stripeSide
<1>4. \A x \in Subs : EndsLater(x) => EndsLater(x)'
  BY <1>2, <1>3 DEF EndsLater, SameRow
<1>5. CutsOff'
  BY <1>1, <1>2, <1>3, <1>4, CutOffStays DEF BillingInv, SameRow
<1> QED
  BY <1>1, <1>2, <1>5, NobodyMoves

\* Whoever is entitled without a grant has a row that is not ended.
LEMMA EntitledEndsLater ==
  ASSUME Entitled, ~grant
  PROVE  \E s \in Subs : subscriptions[s].status \notin {"none", "canceled"}
BY DEF Entitled, LiveRows, isLive, LIVE_STATUSES

LEMMA AgentCreatesKeeps ==
  ASSUME BillingInv, AgentCreates, BillingFacts'
  PROVE  BillingInv'
<1>1. /\ identity' = IF Entitled THEN "enabled" ELSE "disabled"
      /\ UNCHANGED <<stripeSide, inbox, acked, subscriptions, delivery, jobKeys, grant, trouble>>
  BY DEF AgentCreates
<1>2. \A h \in Deliveries, x \in Subs : Ending(h, x)' <=> Ending(h, x)
  BY <1>1 DEF Ending, At, EventOf, stripeSide
<1>3. ~grant' /\ identity' = "enabled" => \E s \in Subs : EndsLater(s)'
  BY <1>1, EntitledEndsLater DEF EndsLater
<1>4. CutsOff'
  BY <1>1, <1>2, <1>3 DEF BillingInv, CutsOff, DisableKey, stripeSide
<1>5. \A x \in Subs : SameRow(x)
  BY <1>1 DEF SameRow
<1> QED
  BY <1>1, <1>4, <1>5, NobodyMoves

\* Which events reach which handler.
LEMMA HandlerMeans ==
  ASSUME BillingFacts, NEW h \in Deliveries, ~At(h, "idle"), ~At(h, "mark")
  PROVE  /\ delivery[h].handler \in {"map", "paid", "trialing", "updated", "deleted"}
         /\ delivery[h].handler = "map" <=> EventOf(h).type = "checkout.session.completed"
         /\ delivery[h].handler = "paid" <=> EventOf(h).type = "invoice.paid"
         /\ delivery[h].handler = "deleted" <=> EventOf(h).type = "customer.subscription.deleted"
         /\ delivery[h].handler = "trialing" => EventOf(h).type \in {"customer.subscription.created", "customer.subscription.updated"}
         /\ delivery[h].handler = "updated" => EventOf(h).type = "customer.subscription.updated"
         /\ EventOf(h).status # "none" /\ EventOf(h).created > 0 /\ EventOf(h).created \in Nat
         /\ EventOf(h).status = "canceled" <=> EventOf(h).type = "customer.subscription.deleted"
         /\ EventOf(h).status = "unpaid" => stripe[EventOf(h).sub].lapsed
<1>1. HandlerFits(h) /\ EventHolds(EventOf(h)) /\ EventOf(h).type \in EventType /\ EventOf(h).created \in Nat
  BY EventTyped DEF BillingFacts
<1>2. /\ delivery[h].handler \in {"map", "paid", "trialing", "updated", "deleted"}
      /\ delivery[h].handler = "map" <=> EventOf(h).type = "checkout.session.completed"
      /\ delivery[h].handler = "paid" <=> EventOf(h).type = "invoice.paid"
      /\ delivery[h].handler = "deleted" <=> EventOf(h).type = "customer.subscription.deleted"
      /\ delivery[h].handler = "trialing" => EventOf(h).type \in {"customer.subscription.created", "customer.subscription.updated"}
      /\ delivery[h].handler = "updated" => EventOf(h).type = "customer.subscription.updated"
  BY <1>1 DEF HandlerFits, HandlerOf, EventType
<1> QED
  BY <1>1, <1>2 DEF EventHolds

\* A delivery that is answered without more.
LEMMA DoneQuiet ==
  ASSUME BillingInv, BillingFacts', NEW h \in Deliveries, Done(h), UNCHANGED <<stripeSide, subscriptions, service, grant, trouble>>,
         ~At(h, "sync"),
         \A i \in 1..Len(events) : inbox'[i] = "processed" => inbox[i] = "processed" \/ Applied(events[i])
  PROVE  BillingInv'
<1>1. OthersGoOn(h) /\ delivery'[h].pc = "idle"
  BY DoneMeans DEF BillingInv, BillingFacts
<1>2. DeliveryHolds(h)' /\ ~At(h, "write")' /\ ~At(h, "sync")'
  BY <1>1 DEF DeliveryHolds, At
<1>3. \A s \in Subs : SameRow(s)
  BY DEF SameRow
<1> QED
  BY <1>1, <1>2, <1>3, QuietStep DEF service

\* A handler that is done: the event is applied, unless it is an update that goes on as one.
LEMMA AfterHolds ==
  ASSUME BillingFacts, UNCHANGED stripeSide, NEW h \in Deliveries, ~At(h, "idle"), AfterHandler(h),
         DeliveryHolds(h), Forward(EventOf(h).sub), NEW i \in 1..Len(events), i = delivery[h].event,
         (EventOf(h).type = "customer.subscription.updated" /\ delivery[h].handler = "trialing") \/ Applied(events[i])'
  PROVE  DeliveryHolds(h)' /\ OthersGoOn(h) /\ ~At(h, "write")' /\ ~At(h, "sync")'
<1>1. /\ OthersGoOn(h) /\ delivery'[h].event = i
      /\ IF EventOf(h).type = "customer.subscription.updated" /\ delivery[h].handler = "trialing"
         THEN delivery'[h].pc = "read" ELSE delivery'[h].pc = "mark"
  BY AfterMeans DEF BillingFacts
<1>2. events' = events /\ EventOf(h)' = EventOf(h) /\ EventOf(h)' = events'[i]
  BY <1>1 DEF EventOf, stripeSide
<1>3. EventOf(h).type = "customer.subscription.deleted" => WasMapped(EventOf(h).sub)'
  <2>1. PICK x \in Subs : x = EventOf(h).sub
    BY EventTyped
  <2>2. EventOf(h).type = "customer.subscription.deleted" => WasMapped(x)'
    BY <2>1, MappedStays DEF DeliveryHolds
  <2> QED
    BY <1>2, <2>1, <2>2 DEF WasMapped
<1>5. At(h, "mark")' => Applied(EventOf(h))'
  BY <1>1, <1>2 DEF At, Applied
<1>6. ~At(h, "write")' /\ ~At(h, "sync")'
  BY <1>1 DEF At
<1> QED
  BY <1>1, <1>2, <1>3, <1>5, <1>6 DEF DeliveryHolds

LEMMA DeliverKeeps ==
  ASSUME BillingInv, PromptMapping, NEW h \in Deliveries, NEW i \in DOMAIN inbox, Deliver(h, i), BillingFacts'
  PROVE  BillingInv'
<1>1. /\ BillingTypeOK /\ i \in 1..Len(events) /\ At(h, "idle") /\ events[i].sub \in Subs
      /\ UNCHANGED <<stripeSide, inbox, subscriptions, service, grant>>
  <2>1. BillingTypeOK /\ DOMAIN inbox = 1..Len(events)
    BY DEF BillingInv, BillingFacts, BillingTypeOK
  <2>2. events[i] \in Event
    BY <2>1 DEF BillingTypeOK
  <2>3. events[i].sub \in Subs
    BY <2>2 DEF Event
  <2> QED
    BY <2>1, <2>3 DEF Deliver
<1>2. trouble'.failed = trouble.failed
  BY <1>1 DEF Deliver, BillingTypeOK
<1>3. \A s \in Subs : SameRow(s)
  BY <1>1 DEF SameRow
<1>4. CASE inbox[i] = "processed"
  <2>1. delivery' = delivery
    BY <1>4 DEF Deliver
  <2>2. \A g \in Deliveries, x \in Subs : Ending(g, x)' <=> Ending(g, x)
    BY <1>1, <2>1 DEF Ending, At, EventOf, stripeSide
  <2>3. \A x \in Subs : EndsLater(x) => EndsLater(x)'
    BY <1>3, <2>2 DEF EndsLater, SameRow
  <2>4. CutsOff'
    BY <1>1, <1>2, <1>3, <2>2, <2>3, CutOffStays DEF BillingInv, SameRow
  <2> QED
    BY <1>1, <1>3, <2>1, <2>4, NobodyMoves
<1>5. CASE inbox[i] # "processed"
  <2>1. /\ OthersGoOn(h) /\ delivery'[h].event = i /\ delivery'[h].pc \in {"insert", "read"}
    BY <1>1, <1>5 DEF Deliver, BillingTypeOK, OthersGoOn
  <2>2. events[i].type = "customer.subscription.deleted" => WasMapped(events[i].sub)
    <3> SUFFICES ASSUME events[i].type = "customer.subscription.deleted",
                        NEW j \in OfType(events[i].sub, "customer.subscription.deleted") \cup OfType(events[i].sub, "checkout.session.completed"),
                        events[j].type = "checkout.session.completed", events[j].approved
                 PROVE  subscriptions[events[i].sub].status # "none"
      BY DEF WasMapped, OfType
    <3>1. j \in 1..Len(events) /\ events[j].sub = events[i].sub /\ DOMAIN inbox = 1..Len(events)
      BY <1>1 DEF OfType, Of, BillingTypeOK
    <3>2. inbox[j] = "processed"
      BY <3>1 DEF Deliver
    <3>3. Applied(events[j])
      BY <3>1, <3>2 DEF BillingInv
    <3> QED
      BY <3>1, <3>3 DEF Applied
  <2>3. PICK x \in Subs : x = events[i].sub
    BY <1>1
  <2>4. events[i].type = "customer.subscription.deleted" => WasMapped(x)'
    <3>1. Forward(x)
      BY <1>3, SameIsForward DEF BillingInv
    <3> QED
      BY <1>1, <2>2, <2>3, <3>1, MappedStays
  <2>5. EventOf(h)' = events[i]
    BY <1>1, <2>1 DEF EventOf, stripeSide
  <2>6. DeliveryHolds(h)' /\ ~At(h, "write")' /\ ~At(h, "sync")'
    <3>1. EventOf(h)'.type = "customer.subscription.deleted" => WasMapped(EventOf(h).sub)'
      BY <2>3, <2>4, <2>5 DEF WasMapped
    <3>2. ~At(h, "write")' /\ ~At(h, "sync")' /\ ~At(h, "mark")'
      BY <2>1 DEF At
    <3> QED
      BY <3>1, <3>2 DEF DeliveryHolds
  <2>7. ~At(h, "sync")
    BY <1>1 DEF At
  <2> QED
    BY <1>1, <1>2, <1>3, <2>1, <2>6, <2>7, QuietStep DEF service
<1> QED
  BY <1>4, <1>5

LEMMA RecordEventKeeps ==
  ASSUME BillingInv, NEW h \in Deliveries, RecordEvent(h), BillingFacts'
  PROVE  BillingInv'
<1>1. /\ BillingFacts /\ BillingTypeOK /\ At(h, "insert") /\ ~At(h, "idle") /\ ~At(h, "sync") /\ delivery[h].event \in 1..Len(events)
      /\ UNCHANGED <<stripeSide, subscriptions, service, grant, trouble>>
  BY EventTyped DEF RecordEvent, At, BillingInv, BillingFacts
<1>2. CASE inbox[delivery[h].event] = "absent"
  <2>1. Goto(h, "read") /\ inbox' = [inbox EXCEPT ![delivery[h].event] = "recorded"] /\ acked' = acked
    BY <1>2 DEF RecordEvent
  <2>2. OthersGoOn(h) /\ delivery'[h].pc = "read" /\ delivery'[h].event = delivery[h].event
    BY <1>1, <2>1, GotoMeans DEF DeliverySteps
  <2>3. \A k \in 1..Len(events) : inbox'[k] = "processed" => inbox[k] = "processed"
    BY <1>1, <2>1 DEF BillingTypeOK
  <2>4. EventOf(h)' = EventOf(h) /\ subscriptions' = subscriptions /\ events' = events
    BY <1>1, <2>2 DEF EventOf, stripeSide
  <2>5. DeliveryHolds(h)
    BY DEF BillingInv
  <2>6. DeliveryHolds(h)' /\ ~At(h, "write")' /\ ~At(h, "sync")'
    BY <1>1, <2>2, <2>4, <2>5 DEF DeliveryHolds, At, WasMapped, OfType, Of
  <2>7. \A s \in Subs : SameRow(s)
    BY <1>1 DEF SameRow
  <2> QED
    BY <1>1, <2>2, <2>3, <2>6, <2>7, QuietStep DEF service
<1>3. CASE inbox[delivery[h].event] # "absent"
  <2>1. Done(h) /\ inbox' = inbox
    BY <1>3 DEF RecordEvent
  <2> QED
    BY <1>1, <2>1, DoneQuiet
<1> QED
  BY <1>2, <1>3

LEMMA MapCheckoutKeeps ==
  ASSUME BillingInv, NEW h \in Deliveries, MapCheckout(h), BillingFacts'
  PROVE  BillingInv'
<1> DEFINE e == EventOf(h)
           i == delivery[h].event
<1>1. /\ BillingFacts /\ BillingTypeOK /\ ~At(h, "idle") /\ ~At(h, "mark") /\ ~At(h, "sync") /\ ~At(h, "write") /\ AfterHandler(h)
      /\ e.sub \in Subs /\ i \in 1..Len(events) /\ e = events[i] /\ e.type = "checkout.session.completed" /\ DeliveryHolds(h)
      /\ UNCHANGED <<stripeSide, inbox, acked, service, grant, trouble>>
  BY EventTyped, HandlerMeans DEF MapCheckout, At, BillingInv, BillingFacts, EventOf
<1>2. /\ subscriptions' = IF e.approved /\ subscriptions[e.sub].status = "none"
                          THEN [subscriptions EXCEPT ![e.sub] = [NoRow EXCEPT !.status = "incomplete"]] ELSE subscriptions
      /\ subscriptions \in [Subs -> Row]
  BY <1>1 DEF MapCheckout, BillingTypeOK
<1>3. [NoRow EXCEPT !.status = "incomplete"].status = "incomplete" /\ [NoRow EXCEPT !.status = "incomplete"].synced = 0
  BY DEF NoRow
<1>4. ASSUME NEW s \in Subs
      PROVE  \/ SameRow(s)
             \/ /\ s = e.sub /\ e.approved /\ subscriptions[s].status = "none" /\ subscriptions[s].synced = 0
                /\ subscriptions'[s].synced = 0 /\ subscriptions'[s].status = "incomplete"
  <2>1. subscriptions[s].status = "none" => subscriptions[s].synced = 0
    BY <1>1 DEF BillingFacts, RowHolds
  <2>2. CASE s = e.sub /\ e.approved /\ subscriptions[s].status = "none"
    BY <1>1, <1>2, <1>3, <2>1, <2>2
  <2>3. CASE ~(s = e.sub /\ e.approved /\ subscriptions[s].status = "none")
    BY <1>1, <1>2, <2>3 DEF SameRow
  <2> QED
    BY <2>2, <2>3
<1>5. ASSUME NEW s \in Subs PROVE Forward(s)
  <2>1. CASE SameRow(s)
    BY <1>1, <2>1, SameIsForward
  <2>2. CASE ~SameRow(s)
    <3>1. s = e.sub /\ e.approved /\ subscriptions[s].status = "none" /\ subscriptions[s].synced = 0
          /\ subscriptions'[s].synced = 0 /\ subscriptions'[s].status = "incomplete"
      BY <1>4, <2>2
    <3>2. i \in OfType(s, "checkout.session.completed")
      BY <1>1, <3>1 DEF OfType, Of
    <3>3. ~WasMapped(s)
      BY <1>1, <3>1, <3>2 DEF WasMapped
    <3> QED
      BY <3>1, <3>3 DEF Forward
  <2> QED
    BY <2>1, <2>2
<1>12. PICK k \in 1..Len(events) : k = i
  BY <1>1
<1>6. Applied(events[k])'
  <2>1. events'[k] = e
    BY <1>1, <1>12 DEF stripeSide
  <2>2. e.approved => subscriptions'[e.sub].status # "none"
    BY <1>1, <1>4 DEF SameRow, stripeSide, MapCheckout, NoRow, BillingTypeOK
  <2> HIDE DEF e
  <2> QED
    BY <1>1, <2>1, <2>2 DEF Applied
<1>7. DeliveryHolds(h)' /\ OthersGoOn(h) /\ ~At(h, "write")' /\ ~At(h, "sync")'
  BY <1>1, <1>5, <1>6, <1>12, AfterHolds
<1>8. \A g \in Deliveries : g # h /\ At(g, "write") =>
         SameRow(EventOf(g).sub) \/ (subscriptions'[EventOf(g).sub].synced = 0 /\ subscriptions'[EventOf(g).sub].status # "canceled")
  <2>1. \A g \in Deliveries : At(g, "write") => EventOf(g).sub \in Subs
    BY <1>1, EventTyped DEF At
  <2> QED
    BY <1>4, <2>1
<1>9. \A g \in Deliveries, s \in Subs : Ending(g, s)' <=> Ending(g, s)
  <2>1. \A s \in Subs : ~Ending(h, s) /\ ~Ending(h, s)'
    BY <1>1, <1>7 DEF Ending, At
  <2>2. \A g \in Deliveries, s \in Subs : g # h => (Ending(g, s)' <=> Ending(g, s))
    BY <1>1, <1>7 DEF OthersGoOn, stripeSide, EventOf, At, Ending
  <2> QED
    BY <2>1, <2>2
<1>10. CutsOff'
  <2>1. \A s \in Subs : EndsLater(s) => EndsLater(s)'
    <3>1. \A s \in Subs : subscriptions[s].status \notin {"none", "canceled"} => subscriptions'[s].status \notin {"none", "canceled"}
      BY <1>4 DEF SameRow
    <3> QED
      BY <1>9, <3>1 DEF EndsLater
  <2>2. \A s \in Subs : subscriptions[s].status = "canceled" => subscriptions'[s].status = "canceled"
    BY <1>4 DEF SameRow
  <2> QED
    BY <1>1, <1>9, <2>1, <2>2, CutOffStays DEF BillingInv
<1>11. OneByOneFor(h)
  BY <1>7 DEF OneByOneFor, Ending, At
<1> QED
  BY <1>1, <1>5, <1>7, <1>8, <1>10, <1>11, StepHolds

LEMMA MarkProcessedKeeps ==
  ASSUME BillingInv, NEW h \in Deliveries, MarkProcessed(h), BillingFacts'
  PROVE  BillingInv'
<1>1. /\ BillingFacts /\ BillingTypeOK /\ At(h, "mark") /\ ~At(h, "sync") /\ delivery[h].event \in 1..Len(events) /\ Done(h)
      /\ inbox' = [inbox EXCEPT ![delivery[h].event] = "processed"]
      /\ UNCHANGED <<stripeSide, subscriptions, service, grant, trouble>>
  BY EventTyped DEF MarkProcessed, At, BillingInv, BillingFacts
<1>2. Applied(events[delivery[h].event])
  BY <1>1 DEF BillingInv, DeliveryHolds, EventOf
<1>3. \A i \in 1..Len(events) : inbox'[i] = "processed" => inbox[i] = "processed" \/ Applied(events[i])
  BY <1>1, <1>2 DEF BillingTypeOK
<1> QED
  BY <1>1, <1>3, DoneQuiet

LEMMA DeliveryFailsKeeps ==
  ASSUME BillingInv, NEW h \in Deliveries, DeliveryFails(h), BillingFacts'
  PROVE  BillingInv'
<1>1. /\ BillingFacts /\ BillingTypeOK /\ Done(h) /\ UNCHANGED <<stripeSide, inbox, acked, subscriptions, service, grant>>
  BY DEF DeliveryFails, BillingInv, BillingFacts
<1>2. OthersGoOn(h) /\ delivery'[h].pc = "idle"
  BY <1>1, DoneMeans
<1>3. DeliveryHolds(h)' /\ ~At(h, "write")' /\ ~At(h, "sync")'
  BY <1>2 DEF DeliveryHolds, At
<1>4. \A s \in Subs : SameRow(s)
  BY <1>1 DEF SameRow
<1>5. \A s \in Subs : Forward(s)
  BY <1>1, <1>4, SameIsForward
<1>6. OneByOneFor(h)
  BY <1>3 DEF OneByOneFor, Ending, At
<1>7. \A g \in Deliveries, s \in Subs : Ending(g, s)' => Ending(g, s)
  <2>1. \A s \in Subs : ~Ending(h, s)'
    BY <1>3 DEF Ending, At
  <2>2. \A g \in Deliveries, s \in Subs : g # h => (Ending(g, s)' <=> Ending(g, s))
    BY <1>1, <1>2 DEF OthersGoOn, stripeSide, EventOf, At, Ending
  <2> QED
    BY <2>1, <2>2
<1>8. CutsOff'
  <2>1. trouble'.failed # 0
    BY <1>1, DeliveryFailsFacts
  <2> QED
    BY <1>1, <1>7, <2>1 DEF BillingInv, CutsOff, DisableKey, stripeSide, service
<1>9. \A g \in Deliveries : g # h /\ At(g, "write") => SameRow(EventOf(g).sub)
  <2>1. \A g \in Deliveries : At(g, "write") => EventOf(g).sub \in Subs
    BY <1>1, EventTyped DEF At
  <2> QED
    BY <1>4, <2>1
<1> QED
  BY <1>1, <1>2, <1>3, <1>5, <1>6, <1>8, <1>9, StepHolds

LEMMA RowMissingKeeps ==
  ASSUME BillingInv, NEW h \in Deliveries, RowMissing(h), BillingFacts'
  PROVE  BillingInv'
<1>1. /\ BillingFacts /\ At(h, "write") /\ ~At(h, "idle") /\ ~At(h, "sync") /\ ~At(h, "mark")
      /\ subscriptions[EventOf(h).sub].status = "none" /\ EventOf(h).sub \in Subs /\ DeliveryHolds(h)
      /\ delivery[h].event \in 1..Len(events) /\ EventOf(h) = events[delivery[h].event]
      /\ UNCHANGED <<stripeSide, inbox, acked, subscriptions, service, grant, trouble>>
  BY EventTyped DEF RowMissing, At, BillingInv, EventOf
<1>2. CASE delivery[h].handler = "deleted"
  <2>1. AfterHandler(h) /\ EventOf(h).type = "customer.subscription.deleted"
    BY <1>1, <1>2, HandlerMeans DEF RowMissing
  <2>2. \A s \in Subs : SameRow(s) /\ Forward(s)
    BY <1>1, SameIsForward DEF SameRow
  <2>3. Applied(events[delivery[h].event])
    BY <1>1, <2>1 DEF Applied, DeliveryHolds
  <2>4. PICK i \in 1..Len(events) : i = delivery[h].event
    BY <1>1
  <2>5. events[i].sub \in Subs /\ Forward(events[i].sub)
    BY <1>1, <2>2, <2>4
  <2>6. Applied(events[i])'
    BY <1>1, <2>3, <2>4, <2>5, AppliedStays
  <2>7. DeliveryHolds(h)' /\ OthersGoOn(h) /\ ~At(h, "write")' /\ ~At(h, "sync")'
    BY <1>1, <2>1, <2>2, <2>4, <2>6, AfterHolds
  <2> QED
    BY <1>1, <2>2, <2>7, QuietStep DEF service
<1>3. CASE delivery[h].handler # "deleted"
  <2>1. Done(h)
    BY <1>3 DEF RowMissing
  <2> QED
    BY <1>1, <2>1, DoneQuiet
<1> QED
  BY <1>2, <1>3

\* The event of a deletion is the latest of its subscription.
LEMMA DeletionIsLatest ==
  ASSUME BillingFacts, NEW i \in 1..Len(events), events[i].type = "customer.subscription.deleted", NEW s \in Subs, s = events[i].sub
  PROVE  /\ subscriptions[s].synced <= events[i].created
         /\ subscriptions[s].status = "canceled" => subscriptions[s].synced = events[i].created /\ events[i].created > 0
<1>1. i \in OfType(s, "customer.subscription.deleted") /\ i \in Of(s) /\ BillingTypeOK
  BY DEF OfType, Of, BillingFacts
<1>2. IsLatest(s, i) /\ RowHolds(s)
  BY <1>1 DEF BillingFacts, StripeHolds
<1>3. \A j \in Of(s) : events[j].created <= events[i].created /\ events[j].created \in Nat /\ events[j].created > 0
  <2>1. \A j \in Of(s) : events[j] \in Event /\ EventHolds(events[j])
    BY <1>1 DEF BillingTypeOK, Of, BillingFacts
  <2>2. \A e \in Event : e.created \in Nat
    BY DEF Event
  <2>3. \A j \in Of(s) : events[j].created > 0
    BY <2>1 DEF EventHolds
  <2>4. \A j \in Of(s) : events[j].created <= events[i].created
    BY <1>2 DEF IsLatest
  <2> QED
    BY <2>1, <2>2, <2>3, <2>4
<1>4. subscriptions[s].synced <= events[i].created
  <2>1. CASE subscriptions[s].synced = 0
    BY <1>1, <1>3, <2>1
  <2>2. CASE subscriptions[s].synced # 0
    <3>1. PICK j \in Of(s) : events[j].created = subscriptions[s].synced
      BY <1>2, <2>2 DEF RowHolds
    <3> QED
      BY <1>3, <3>1
  <2> QED
    BY <2>1, <2>2
<1>5. subscriptions[s].status = "canceled" => subscriptions[s].synced = events[i].created /\ events[i].created > 0
  <2> SUFFICES ASSUME subscriptions[s].status = "canceled" PROVE subscriptions[s].synced = events[i].created /\ events[i].created > 0
    OBVIOUS
  <2>1. PICK j \in OfType(s, "customer.subscription.deleted") : events[j].created = subscriptions[s].synced
    BY <1>2 DEF RowHolds
  <2>2. IsLatest(s, j)
    BY <2>1 DEF BillingFacts, StripeHolds
  <2>3. events[i].created <= events[j].created
    BY <1>1, <2>2 DEF IsLatest
  <2>4. j \in Of(s)
    BY <2>1 DEF OfType
  <2>5. /\ events[i].created \in Nat /\ events[j].created \in Nat /\ events[i].created > 0
        /\ events[j].created <= events[i].created
    BY <1>1, <1>3, <2>4
  <2> QED
    BY <2>1, <2>3, <2>5
<1> QED
  BY <1>4, <1>5

\* What is left aside is applied, and what is not may be written.
LEMMA SkipMeans ==
  ASSUME BillingInv, NEW h \in Deliveries, At(h, "read"), delivery[h].handler # "map"
  PROVE  /\ Skips(h, subscriptions[EventOf(h).sub]) =>
                (EventOf(h).type = "customer.subscription.updated" /\ delivery[h].handler = "trialing") \/ Applied(EventOf(h))
         /\ ~Skips(h, subscriptions[EventOf(h).sub]) =>
                LET r == subscriptions[EventOf(h).sub]
                IN r.status # "canceled" /\ (r.synced = 0 \/ delivery[h].handler = "deleted" \/ r.synced < EventOf(h).created)
<1> DEFINE e == EventOf(h)
           r == subscriptions[e.sub]
           by == delivery[h].handler
<1>1. BillingFacts /\ ~At(h, "idle") /\ ~At(h, "mark") /\ DeliveryHolds(h) /\ e.sub \in Subs /\ e = events[delivery[h].event]
      /\ delivery[h].event \in 1..Len(events)
  BY EventTyped DEF BillingInv, At, EventOf
<1>2. /\ by \in {"paid", "trialing", "updated", "deleted"} /\ e.type # "checkout.session.completed"
      /\ by = "paid" <=> e.type = "invoice.paid"
      /\ by = "deleted" <=> e.type = "customer.subscription.deleted"
      /\ by = "trialing" => e.type \in {"customer.subscription.created", "customer.subscription.updated"}
      /\ by = "updated" => e.type = "customer.subscription.updated"
      /\ e.status = "canceled" <=> e.type = "customer.subscription.deleted"
      /\ e.created > 0 /\ e.created \in Nat
  BY <1>1, HandlerMeans
<1>3. r.synced \in Nat /\ (r.status = "none" => r.synced = 0)
  <2>1. r \in Row /\ RowHolds(e.sub)
    BY <1>1 DEF BillingFacts, BillingTypeOK
  <2> QED
    BY <2>1 DEF Row, RowHolds
<1>4. e.type = "customer.subscription.deleted" => WasMapped(e.sub) /\ (r.status = "canceled" => r.synced = e.created)
  <2>1. e.type = "customer.subscription.deleted" /\ r.status = "canceled" => r.synced = e.created
    BY <1>1, DeletionIsLatest
  <2> QED
    BY <1>1, <2>1 DEF DeliveryHolds
<1> HIDE DEF r
<1>5. Skips(h, r) => (e.type = "customer.subscription.updated" /\ by = "trialing") \/ Applied(e)
  <2>1. CASE by = "paid"
    BY <1>2, <2>1 DEF Applied
  <2>2. CASE by = "trialing"
    <3>1. Skips(h, r) => TrialSkips(e, r)
      BY <2>2 DEF Skips
    <3>2. TrialSkips(e, r) => r.status = "canceled" \/ r.synced >= e.created
      BY <1>2, <1>3 DEF TrialSkips, isStaleSubscriptionWrite
    <3> QED
      BY <1>2, <2>2, <3>1, <3>2 DEF Applied, r
  <2>3. CASE by = "updated"
    <3>1. Skips(h, r) => UpdateSkips(e, r)
      BY <2>3 DEF Skips
    <3>2. UpdateSkips(e, r) => ~e.approved \/ r.status = "canceled" \/ r.synced >= e.created
      BY <1>2, <1>3 DEF UpdateSkips, isStaleSubscriptionWrite
    <3> QED
      BY <1>2, <2>3, <3>1, <3>2 DEF Applied, r
  <2>4. CASE by = "deleted"
    <3>1. Skips(h, r) => r.status = "canceled"
      BY <2>4 DEF Skips, DeletionSkips
    <3> QED
      BY <1>2, <1>4, <2>4, <3>1 DEF Applied, r
  <2> QED
    BY <1>2, <2>1, <2>2, <2>3, <2>4
<1>6. ~Skips(h, r) => r.status # "canceled" /\ (r.synced = 0 \/ by = "deleted" \/ r.synced < e.created)
  <2>1. CASE by = "paid"
    BY <1>2, <1>3, <2>1 DEF Skips, PaidSkips, isStaleSubscriptionWrite
  <2>2. CASE by = "trialing"
    BY <1>2, <1>3, <2>2 DEF Skips, TrialSkips, isStaleSubscriptionWrite
  <2>3. CASE by = "updated"
    BY <1>2, <1>3, <2>3 DEF Skips, UpdateSkips, isStaleSubscriptionWrite
  <2>4. CASE by = "deleted"
    BY <1>2, <1>3, <1>4, <2>4 DEF Skips, DeletionSkips, isStaleSubscriptionWrite
  <2> QED
    BY <1>2, <2>1, <2>2, <2>3, <2>4
<1> QED
  BY <1>5, <1>6 DEF r

LEMMA ReadRowKeeps ==
  ASSUME BillingInv, AtomicWrites, NEW h \in Deliveries, ReadRow(h), BillingFacts'
  PROVE  BillingInv'
<1> DEFINE current == subscriptions[EventOf(h).sub]
<1>1. /\ BillingFacts /\ BillingTypeOK /\ At(h, "read") /\ ~At(h, "idle") /\ ~At(h, "mark") /\ ~At(h, "sync") /\ delivery[h].handler # "map"
      /\ EventOf(h).sub \in Subs /\ DeliveryHolds(h) /\ ~Writing(EventOf(h).sub)
      /\ delivery[h].event \in 1..Len(events) /\ EventOf(h) = events[delivery[h].event]
      /\ UNCHANGED <<stripeSide, inbox, acked, subscriptions, service, grant, trouble>>
  BY EventTyped DEF ReadRow, At, BillingInv, BillingFacts, EventOf
<1>2. \A s \in Subs : SameRow(s) /\ Forward(s)
  BY <1>1, SameIsForward DEF SameRow
<1>3. PICK i \in 1..Len(events) : i = delivery[h].event
  BY <1>1
<1>4. CASE Skips(h, current)
  <2>1. AfterHandler(h)
    BY <1>4 DEF ReadRow
  <2>2. (EventOf(h).type = "customer.subscription.updated" /\ delivery[h].handler = "trialing") \/ Applied(events[i])
    BY <1>1, <1>3, <1>4, SkipMeans
  <2>3. events[i].sub \in Subs /\ Forward(events[i].sub)
    BY <1>1, <1>2, <1>3
  <2>4. (EventOf(h).type = "customer.subscription.updated" /\ delivery[h].handler = "trialing") \/ Applied(events[i])'
    BY <1>1, <2>2, <2>3, AppliedStays
  <2>5. DeliveryHolds(h)' /\ OthersGoOn(h) /\ ~At(h, "write")' /\ ~At(h, "sync")'
    BY <1>1, <1>2, <1>3, <2>1, <2>4, AfterHolds
  <2> QED
    BY <1>1, <1>2, <2>5, QuietStep DEF service
<1>5. CASE ~Skips(h, current)
  <2>1. delivery' = [delivery EXCEPT ![h].pc = "write", ![h].seen = IF delivery[h].handler = "updated" THEN current ELSE NoRow]
    BY <1>5 DEF ReadRow
  <2>2. OthersGoOn(h) /\ delivery'[h].pc = "write" /\ delivery'[h].event = delivery[h].event /\ delivery'[h].handler = delivery[h].handler
    <3> HIDE DEF current
    <3>1. delivery[h] \in Delivery /\ delivery \in [Deliveries -> Delivery]
      BY <1>1 DEF BillingTypeOK
    <3>2. delivery'[h] = [delivery[h] EXCEPT !.pc = "write", !.seen = IF delivery[h].handler = "updated" THEN current ELSE NoRow]
      BY <2>1, <3>1
    <3> QED
      BY <2>1, <3>1, <3>2 DEF OthersGoOn, Delivery
  <2>3. EventOf(h)' = EventOf(h)
    BY <1>1, <2>2 DEF EventOf, stripeSide
  <2>4. current.status # "canceled" /\ (current.synced = 0 \/ delivery[h].handler = "deleted" \/ current.synced < EventOf(h).created)
    BY <1>1, <1>5, SkipMeans
  <2>5. DeliveryHolds(h)'
    <3>1. EventOf(h).type = "customer.subscription.deleted" => WasMapped(EventOf(h).sub)
      BY <1>1 DEF DeliveryHolds
    <3>2. EventOf(h)'.type = "customer.subscription.deleted" => WasMapped(EventOf(h).sub)'
      BY <1>1, <2>3, <3>1 DEF WasMapped, OfType, Of, stripeSide
    <3>3. ~At(h, "sync")' /\ ~At(h, "mark")'
      BY <2>2 DEF At
    <3> HIDE DEF current
    <3> QED
      BY <1>1, <2>2, <2>3, <2>4, <3>2, <3>3 DEF DeliveryHolds, current
  <2>6. OneByOneFor(h)
    <3>1. \A s \in Subs : ~Ending(h, s)'
      BY <2>2 DEF Ending, At
    <3>2. \A g \in Deliveries : At(g, "write") => EventOf(g).sub # EventOf(h).sub
      BY <1>1 DEF Writing
    <3> QED
      BY <2>3, <3>1, <3>2 DEF OneByOneFor
  <2>7. \A g \in Deliveries, s \in Subs : Ending(g, s)' <=> Ending(g, s)
    <3>1. \A s \in Subs : ~Ending(h, s) /\ ~Ending(h, s)'
      BY <1>1, <2>2 DEF Ending, At
    <3>2. \A g \in Deliveries, s \in Subs : g # h => (Ending(g, s)' <=> Ending(g, s))
      BY <1>1, <2>2 DEF OthersGoOn, stripeSide, EventOf, At, Ending
    <3> QED
      BY <3>1, <3>2
  <2>8. \A s \in Subs : EndsLater(s) => EndsLater(s)'
    BY <1>2, <2>7 DEF EndsLater, SameRow
  <2>9. CutsOff'
    BY <1>1, <1>2, <2>7, <2>8, CutOffStays DEF BillingInv, SameRow
  <2>10. \A g \in Deliveries : g # h /\ At(g, "write") => SameRow(EventOf(g).sub)
    <3>1. \A g \in Deliveries : At(g, "write") => EventOf(g).sub \in Subs
      BY <1>1, EventTyped, SMTT(30) DEF At
    <3> QED
      BY <1>2, <3>1
  <2> QED
    BY <1>1, <1>2, <2>2, <2>5, <2>6, <2>9, <2>10, StepHolds
<1> QED
  BY <1>4, <1>5

LEMMA WriteRowKeeps ==
  ASSUME BillingInv, NEW h \in Deliveries, WriteRow(h), BillingFacts'
  PROVE  BillingInv'
<1> DEFINE e == EventOf(h)
           old == subscriptions[e.sub]
           new == subscriptions'[e.sub]
<1>1. /\ BillingFacts /\ BillingTypeOK /\ At(h, "write") /\ ~At(h, "idle") /\ ~At(h, "mark") /\ ~At(h, "sync")
      /\ e.sub \in Subs /\ DeliveryHolds(h) /\ e = events[delivery[h].event] /\ delivery[h].event \in 1..Len(events)
      /\ old \in Row /\ old.synced \in Nat /\ old.status # "none"
      /\ subscriptions' = [subscriptions EXCEPT ![e.sub] = Written(h, old)] /\ Goto(h, "sync")
      /\ UNCHANGED <<stripeSide, inbox, acked, service, grant, trouble>>
  <2>1. BillingFacts /\ BillingTypeOK /\ At(h, "write") /\ e.sub \in Subs /\ delivery[h].event \in 1..Len(events) /\ DeliveryHolds(h)
    BY EventTyped DEF WriteRow, At, BillingInv, BillingFacts
  <2>2. old \in Row
    BY <2>1 DEF BillingTypeOK
  <2>3. old.synced \in Nat
    BY <2>2 DEF Row
  <2> QED
    BY <2>1, <2>2, <2>3 DEF WriteRow, At, EventOf
<1>2. /\ delivery[h].handler = "deleted" <=> e.type = "customer.subscription.deleted"
      /\ e.status = "canceled" <=> e.type = "customer.subscription.deleted"
      /\ e.status # "none" /\ e.created \in Nat /\ e.created > 0
      /\ delivery[h].handler = "paid" => e.type # "customer.subscription.deleted"
  <2> HIDE DEF e
  <2> QED
    BY <1>1, HandlerMeans DEF e
<1>3. /\ new.synced = e.created /\ new.status # "none"
      /\ new.status = "canceled" <=> delivery[h].handler = "deleted"
      /\ \A s \in Subs : s # e.sub => SameRow(s)
  <2>1. /\ Written(h, old).synced = e.created
        /\ Written(h, old).status = IF delivery[h].handler = "paid" THEN "active" ELSE e.status
    BY <1>1, WrittenMeans
  <2>2. new = Written(h, old)
    BY <1>1 DEF BillingTypeOK
  <2>3. \A s \in Subs : s # e.sub => SameRow(s)
    BY <1>1 DEF SameRow
  <2> HIDE DEF e, old, new
  <2> QED
    BY <1>2, <2>1, <2>2, <2>3
<1>4. old.status # "canceled" /\ old.synced <= e.created
  <2>1. old.status # "canceled" /\ (old.synced = 0 \/ delivery[h].handler = "deleted" \/ old.synced < e.created)
    BY <1>1 DEF DeliveryHolds
  <2>2. e.type = "customer.subscription.deleted" => old.synced <= e.created
    BY <1>1, DeletionIsLatest, SMTT(30)
  <2> HIDE DEF e, old
  <2> QED
    BY <1>1, <1>2, <2>1, <2>2
<1>5. ASSUME NEW s \in Subs PROVE Forward(s)
  <2>1. CASE s = e.sub
    <3> HIDE DEF e
    <3> QED
      BY <1>1, <1>3, <1>4, <2>1 DEF Forward
  <2>2. CASE s # e.sub
    BY <1>1, <1>3, <2>2, SameIsForward
  <2> QED
    BY <2>1, <2>2
<1>6. /\ OthersGoOn(h) /\ delivery'[h].pc = "sync" /\ delivery'[h].event = delivery[h].event
      /\ delivery'[h].handler = delivery[h].handler
  BY <1>1, GotoMeans DEF DeliverySteps
<1>7. EventOf(h)' = e
  BY <1>1, <1>6 DEF EventOf, stripeSide
<1>8. DeliveryHolds(h)'
  <2>1. PICK x \in Subs : x = e.sub
    BY <1>1, SMTT(30)
  <2>2. e.type = "customer.subscription.deleted" => WasMapped(x)'
    BY <1>1, <1>5, <2>1, MappedStays DEF DeliveryHolds
  <2>3. EventOf(h)'.type = "customer.subscription.deleted" => WasMapped(EventOf(h).sub)'
    BY <1>7, <2>1, <2>2 DEF WasMapped
  <2>4. ~At(h, "write")' /\ ~At(h, "mark")'
    BY <1>6 DEF At
  <2>5. subscriptions'[EventOf(h)'.sub] = new
    BY <1>7
  <2> HIDE DEF e, new
  <2> QED
    BY <1>2, <1>3, <1>6, <1>7, <2>3, <2>4, <2>5 DEF DeliveryHolds
<1>9. \A g \in Deliveries : ~Ending(g, e.sub)
  <2> SUFFICES ASSUME NEW g \in Deliveries, Ending(g, e.sub) PROVE FALSE
    OBVIOUS
  <2>1. At(g, "sync") /\ delivery[g].handler = "deleted" /\ EventOf(g).sub = e.sub /\ DeliveryHolds(g)
    BY DEF Ending, BillingInv
  <2>2. old.status = "canceled"
    BY <2>1 DEF DeliveryHolds
  <2> QED
    BY <1>4, <2>2
<1>10. \A s \in Subs : Ending(h, s)' => s = e.sub
  BY <1>7 DEF Ending
<1>11. OneByOneFor(h)
  <2>1. ~At(h, "write")'
    BY <1>6 DEF At
  <2> QED
    BY <1>9, <1>10, <2>1 DEF OneByOneFor
<1>12. \A g \in Deliveries : g # h /\ At(g, "write") => SameRow(EventOf(g).sub)
  <2> SUFFICES ASSUME NEW g \in Deliveries, g # h, At(g, "write") PROVE SameRow(EventOf(g).sub)
    OBVIOUS
  <2>1. EventOf(g).sub \in Subs
    BY <1>1, EventTyped DEF At
  <2>2. EventOf(g).sub # e.sub
    BY <1>1 DEF BillingInv, OneByOne
  <2> QED
    BY <1>3, <2>1, <2>2
<1>13. \A g \in Deliveries, s \in Subs : g # h => (Ending(g, s)' <=> Ending(g, s))
  BY <1>1, <1>6 DEF OthersGoOn, stripeSide, EventOf, At, Ending
<1>14. CutsOff'
  <2>1. ASSUME NEW s \in Subs, EndsLater(s) PROVE EndsLater(s)'
    <3>1. CASE s = e.sub
      <4>1. new.status # "canceled" \/ Ending(h, s)'
        BY <1>3, <1>6, <1>7, <3>1 DEF Ending, At
      <4> QED
        BY <1>3, <3>1, <4>1 DEF EndsLater
    <3>2. CASE s # e.sub
      <4>1. ~Ending(h, s)
        BY <1>1 DEF Ending, At
      <4>2. SameRow(s) /\ \A g \in Deliveries : Ending(g, s) => Ending(g, s)'
        BY <1>3, <1>13, <3>2, <4>1
      <4> QED
        BY <2>1, <4>2 DEF EndsLater, SameRow
    <3> QED
      BY <3>1, <3>2
  <2>2. \A s \in Subs : subscriptions[s].status = "canceled" => subscriptions'[s].status = "canceled"
    BY <1>5 DEF Forward
  <2>3. \A g \in Deliveries, s \in Subs : Ending(g, s)' => Ending(g, s) \/ subscriptions[s].status # "canceled"
    BY <1>4, <1>10, <1>13
  <2> QED
    BY <1>1, <2>1, <2>2, <2>3, CutOffStays DEF BillingInv
<1> QED
  BY <1>1, <1>5, <1>6, <1>8, <1>11, <1>12, <1>14, StepHolds

LEMMA QueueJobsKeeps ==
  ASSUME BillingInv, NEW h \in Deliveries, QueueJobs(h), BillingFacts'
  PROVE  BillingInv'
<1> DEFINE e == EventOf(h)
           r == subscriptions[e.sub]
<1>1. /\ BillingFacts /\ BillingTypeOK /\ At(h, "sync") /\ ~At(h, "idle") /\ ~At(h, "mark") /\ ~At(h, "write")
      /\ e.sub \in Subs /\ DeliveryHolds(h) /\ e = events[delivery[h].event] /\ delivery[h].event \in 1..Len(events)
      /\ UNCHANGED <<stripeSide, inbox, acked, subscriptions, grant, trouble>>
  BY EventTyped DEF QueueJobs, At, BillingInv, BillingFacts, EventOf
<1>2. /\ AfterHandler(h) \/ Done(h)
      /\ \/ identity' = identity
         \/ Entitled /\ identity' \in {"creating", "enabled"}
         \/ ~Entitled /\ identity = "enabled" /\ identity' = "disabled"
      /\ \A s \in Subs : DisableKey(s) \in jobKeys' => DisableKey(s) \in jobKeys \/ (IsEnd(h) /\ e.sub = s)
      /\ delivery[h].handler = "deleted" /\ ~Entitled /\ identity = "enabled" /\ DisableKey(e.sub) \notin jobKeys
             => identity' = "disabled"
  BY <1>1, QueueMeans
<1>3. /\ delivery[h].handler # "map" /\ e.type # "checkout.session.completed"
      /\ delivery[h].handler = "deleted" <=> e.type = "customer.subscription.deleted"
      /\ e.status = "canceled" <=> e.type = "customer.subscription.deleted"
      /\ e.status = "unpaid" => stripe[e.sub].lapsed
      /\ delivery[h].handler = "updated" => e.type = "customer.subscription.updated"
  <2>1. delivery[h].handler # "map"
    BY <1>1 DEF BillingFacts, HandlerFits, At
  <2> HIDE DEF e
  <2> QED
    BY <1>1, <2>1, HandlerMeans DEF e
<1>4. r.status = "canceled" \/ (r.synced >= e.created /\ delivery[h].handler # "deleted")
  BY <1>1 DEF DeliveryHolds
<1>5. \A s \in Subs : SameRow(s) /\ Forward(s)
  BY <1>1, SameIsForward DEF SameRow
<1>6. PICK i \in 1..Len(events) : i = delivery[h].event
  BY <1>1
<1>7. Applied(events[i])'
  <2>1. Applied(e)
    <3>1. e.type = "customer.subscription.deleted" => WasMapped(e.sub)
      BY <1>1 DEF DeliveryHolds
    <3> HIDE DEF e
    <3> QED
      BY <1>3, <1>4, <3>1 DEF Applied
  <2>2. Applied(events[i]) /\ Forward(events[i].sub)
    BY <1>1, <1>5, <1>6, <2>1
  <2> QED
    BY <1>1, <2>2, AppliedStays
<1>8. DeliveryHolds(h)' /\ OthersGoOn(h) /\ ~At(h, "write")' /\ ~At(h, "sync")'
  <2>1. CASE AfterHandler(h)
    BY <1>1, <1>5, <1>6, <1>7, <2>1, AfterHolds
  <2>2. CASE Done(h)
    <3>1. OthersGoOn(h) /\ delivery'[h].pc = "idle"
      BY <1>1, <2>2, DoneMeans
    <3> QED
      BY <3>1 DEF DeliveryHolds, At
  <2> QED
    BY <1>2, <2>1, <2>2
<1>9. \A g \in Deliveries, s \in Subs : (Ending(g, s)' => Ending(g, s)) /\ (g # h => (Ending(g, s)' <=> Ending(g, s)))
  <2>1. \A s \in Subs : ~Ending(h, s)'
    BY <1>8 DEF Ending
  <2>2. \A g \in Deliveries, s \in Subs : g # h => (Ending(g, s)' <=> Ending(g, s))
    BY <1>1, <1>8 DEF OthersGoOn, stripeSide, EventOf, At, Ending
  <2> QED
    BY <2>1, <2>2
<1>10. delivery[h].handler = "deleted" => Ending(h, e.sub)
  BY <1>1 DEF Ending
<1>11. ASSUME trouble'.failed = 0, ~grant', \A s \in Subs : ~stripe'[s].lapsed, identity' = "enabled"
       PROVE  \E s \in Subs : EndsLater(s)'
  <2>1. CASE Entitled
    BY <1>1, <1>11, <2>1, EntitledEndsLater DEF EndsLater
  <2>2. CASE ~Entitled
    <3>1. identity = "enabled"
      BY <1>2, <1>11, <2>2
    <3>2. PICK s \in Subs : EndsLater(s)
      BY <1>1, <1>11, <3>1 DEF BillingInv, CutsOff, stripeSide
    <3>3. CASE delivery[h].handler # "deleted"
      <4>1. \A x \in Subs : ~Ending(h, x)
        BY <3>3 DEF Ending
      <4>2. \A g \in Deliveries : Ending(g, s) => Ending(g, s)'
        BY <1>9, <4>1
      <4> QED
        BY <1>1, <3>2, <4>2 DEF EndsLater
    <3>4. CASE delivery[h].handler = "deleted"
      <4>1. DisableKey(e.sub) \in jobKeys
        BY <1>2, <1>11, <2>2, <3>1, <3>4
      <4>2. ~stripe[e.sub].lapsed
        BY <1>1, <1>11 DEF stripeSide
      <4>3. ~Ending(h, e.sub)
        BY <1>1, <4>1, <4>2 DEF BillingInv, CutsOff
      <4> QED
        BY <1>10, <3>4, <4>3
    <3> QED
      BY <3>3, <3>4
  <2> QED
    BY <2>1, <2>2
<1>12. ASSUME NEW s \in Subs, DisableKey(s) \in jobKeys', ~stripe'[s].lapsed
       PROVE  subscriptions'[s].status = "canceled" /\ \A g \in Deliveries : ~Ending(g, s)'
  <2>1. CASE DisableKey(s) \in jobKeys
    <3>1. subscriptions[s].status = "canceled" /\ \A g \in Deliveries : ~Ending(g, s)
      BY <1>1, <1>12, <2>1 DEF BillingInv, CutsOff, stripeSide
    <3> QED
      BY <1>1, <1>9, <3>1
  <2>2. CASE DisableKey(s) \notin jobKeys
    <3>1. IsEnd(h) /\ e.sub = s /\ ~stripe[s].lapsed
      BY <1>1, <1>2, <1>12, <2>2 DEF stripeSide
    <3>2. delivery[h].handler = "deleted"
      BY <1>3, <3>1 DEF IsEnd
    <3>3. subscriptions'[s].status = "canceled"
      BY <1>1, <1>4, <3>1, <3>2
    <3>4. \A g \in Deliveries : g # h => ~Ending(g, s)
      BY <1>10, <3>1, <3>2 DEF BillingInv, OneByOne
    <3>5. ~Ending(h, s)'
      BY <1>8 DEF Ending
    <3>6. \A g \in Deliveries : ~Ending(g, s)'
      BY <1>9, <3>4, <3>5
    <3> QED
      BY <3>3, <3>6
  <2> QED
    BY <2>1, <2>2
<1>13. CutsOff'
  BY <1>11, <1>12 DEF CutsOff, DisableKey
<1>14. OneByOneFor(h)
  BY <1>8 DEF OneByOneFor, Ending
<1>15. \A g \in Deliveries : g # h /\ At(g, "write") => SameRow(EventOf(g).sub)
  <2>1. \A g \in Deliveries : At(g, "write") => EventOf(g).sub \in Subs
    BY <1>1, EventTyped DEF At
  <2> QED
    BY <1>5, <2>1
<1> QED
  BY <1>1, <1>5, <1>8, <1>13, <1>14, <1>15, StepHolds

LEMMA BillingBegins == BillingInit => BillingInv
<1> SUFFICES ASSUME BillingInit PROVE BillingInv
  OBVIOUS
<1>1. BillingFacts
  BY FactsBegin
<1>2. \A h \in Deliveries : delivery[h].pc = "idle"
  BY NoRowIsARow DEF BillingInit
<1>3. (\A h \in Deliveries : DeliveryHolds(h)) /\ OneByOne /\ \A h \in Deliveries, s \in Subs : ~Ending(h, s)
  BY <1>2 DEF DeliveryHolds, OneByOne, Ending, At
<1>4. 1..Len(events) = {}
  BY DEF BillingInit
<1>5. CutsOff
  BY DEF BillingInit, CutsOff
<1> QED
  BY <1>1, <1>3, <1>4, <1>5 DEF BillingInv

LEMMA BillingGoesOn == AtomicWrites /\ PromptMapping /\ BillingInv /\ [BillingNext]_billingVars => BillingInv'
<1> SUFFICES ASSUME AtomicWrites, PromptMapping, BillingInv, [BillingNext]_billingVars PROVE BillingInv'
  OBVIOUS
<1>1. BillingFacts /\ BillingFacts'
  BY FactsGoOn DEF BillingInv
<1>2. CASE UNCHANGED billingVars
  <2>1. UNCHANGED stripeSide /\ UNCHANGED <<subscriptions, delivery, inbox, grant, identity, jobKeys, trouble>>
    BY <1>2 DEF billingVars, stripeSide
  <2>2. \A s \in Subs : SameRow(s)
    BY <2>1 DEF SameRow
  <2>3. CutsOff'
    BY <2>1 DEF BillingInv, CutsOff, EndsLater, Ending, At, EventOf, stripeSide, DisableKey
  <2> QED
    BY <1>1, <2>1, <2>2, <2>3, NobodyMoves
<1>3. CASE StripeActs
  <2>1. PICK s \in Subs : StripeMoves(s)
    BY <1>1, <1>3, StripeActsKeeps
  <2> QED
    BY <1>1, <2>1, StripeKeeps
<1>4. CASE AgentCreates
  BY <1>1, <1>4, AgentCreatesKeeps
<1>5. CASE \E s \in Subs : GraceEnds(s)
  BY <1>1, <1>5, GraceEndsKeeps
<1>6. ASSUME NEW h \in Deliveries, HandlerStep(h) PROVE BillingInv'
  BY <1>1, <1>6, RecordEventKeeps, MapCheckoutKeeps, ReadRowKeeps, WriteRowKeeps, RowMissingKeeps, QueueJobsKeeps, MarkProcessedKeeps DEF HandlerStep
<1>7. ASSUME NEW h \in Deliveries, DeliveryFails(h) PROVE BillingInv'
  BY <1>1, <1>7, DeliveryFailsKeeps
<1>8. ASSUME NEW h \in Deliveries, NEW i \in DOMAIN inbox, Deliver(h, i) PROVE BillingInv'
  BY <1>1, <1>8, DeliverKeeps
<1> QED
  BY <1>2, <1>3, <1>4, <1>5, <1>6, <1>7, <1>8 DEF BillingNext

-----------------------------------------------------------------------------
(* What follows *)

LEMMA InvLiveMatches == BillingInv => LiveMatchesStripe
<1> SUFFICES ASSUME BillingInv, Settled, NEW s \in Subs, stripe[s].approved
             PROVE  subscriptions[s].status \in LIVE_STATUSES <=> stripe[s].status \in LIVE_STATUSES
  BY DEF LiveMatchesStripe
<1> DEFINE r == subscriptions[s]
<1>1. BillingTypeOK /\ StripeHolds(s) /\ RowHolds(s) /\ DOMAIN inbox = 1..Len(events) /\ stripe[s] \in Subscription /\ r \in Row
  BY DEF BillingInv, BillingFacts, BillingTypeOK
<1>2. \A i \in Of(s) : /\ Applied(events[i]) /\ EventHolds(events[i]) /\ events[i].sub = s
                       /\ events[i].created \in Nat
  <2> SUFFICES ASSUME NEW i \in Of(s)
               PROVE  Applied(events[i]) /\ EventHolds(events[i]) /\ events[i].sub = s /\ events[i].created \in Nat
    OBVIOUS
  <2>1. i \in 1..Len(events) /\ events[i].sub = s
    BY DEF Of
  <2>2. inbox[i] = "processed"
    BY <1>1, <2>1 DEF Settled
  <2>3. events[i] \in Event
    BY <1>1, <2>1 DEF BillingTypeOK
  <2> QED
    BY <2>1, <2>2, <2>3 DEF BillingInv, BillingFacts, Event
<1>3. r.synced \in Nat /\ stripe[s].status \in Status
  BY <1>1 DEF Row, Subscription
<1>4. CASE stripe[s].status = "none"
  BY <1>1, <1>4 DEF RowHolds, LIVE_STATUSES
<1>5. CASE stripe[s].status = "incomplete"
  <2>1. r.status \notin LIVE_STATUSES
    <3> SUFFICES ASSUME r.status \in LIVE_STATUSES PROVE FALSE
      OBVIOUS
    <3>1. r.synced # 0
      BY <1>1 DEF RowHolds, LIVE_STATUSES
    <3>2. PICK j \in Of(s) : TellsLive(events[j])
      BY <1>1, <3>1 DEF RowHolds
    <3>3. stripe[s].paid
      BY <1>2, <3>2 DEF EventHolds
    <3> QED
      BY <1>1, <1>5, <3>3 DEF StripeHolds
  <2> QED
    BY <1>5, <2>1 DEF LIVE_STATUSES
<1>6. CASE stripe[s].status \in Charged
  <2>1. PICK i \in Of(s) : IsLatest(s, i) /\ events[i].type \in {"customer.subscription.created", "customer.subscription.updated"}
    BY <1>1, <1>6 DEF StripeHolds
  <2>2. events[i].approved /\ events[i].sub = s /\ events[i].created \in Nat /\ events[i].created > 0
    BY <1>2, <2>1 DEF EventHolds
  <2>3. r.status # "canceled"
    <3> SUFFICES ASSUME r.status = "canceled" PROVE FALSE
      OBVIOUS
    <3>1. PICK j \in OfType(s, "customer.subscription.deleted") : TRUE
      BY <1>1 DEF RowHolds
    <3>2. j \in Of(s) /\ events[j].type = "customer.subscription.deleted"
      BY <3>1 DEF OfType
    <3>3. stripe[s].status = "canceled"
      BY <1>2, <3>2 DEF EventHolds
    <3> QED
      BY <1>6, <3>3 DEF Charged
  <2>4. r.synced >= events[i].created
    BY <1>2, <2>1, <2>2, <2>3 DEF Applied
  <2>5. r.synced # 0
    BY <1>3, <2>2, <2>4
  <2>6. PICK j \in Of(s) : events[j].created = r.synced /\ (r.status \in LIVE_STATUSES <=> TellsLive(events[j]))
    BY <1>1, <2>5 DEF RowHolds
  <2>7. events[j].created <= events[i].created /\ (events[j].created = events[i].created => (TellsLive(events[j]) <=> TellsLive(events[i])))
    BY <2>1 DEF IsLatest
  <2>8. events[j].created = events[i].created
    BY <1>3, <2>2, <2>4, <2>6, <2>7
  <2>9. TellsLive(events[i]) <=> stripe[s].status \in LIVE_STATUSES
    BY <2>1 DEF TellsLive, IsLatest
  <2> QED
    BY <2>6, <2>7, <2>8, <2>9
<1>7. CASE stripe[s].status = "canceled"
  <2>1. PICK j \in OfType(s, "customer.subscription.deleted") : TRUE
    BY <1>1, <1>7 DEF StripeHolds
  <2>2. j \in Of(s) /\ events[j].type = "customer.subscription.deleted"
    BY <2>1 DEF OfType
  <2>3. r.status \in {"none", "canceled"}
    BY <1>2, <2>2 DEF Applied
  <2> QED
    BY <1>7, <2>3 DEF LIVE_STATUSES
<1> QED
  BY <1>3, <1>4, <1>5, <1>6, <1>7 DEF Status, Charged

LEMMA InvEndedIsCutOff == BillingInv => EndedIsCutOff
<1> SUFFICES ASSUME BillingInv, Settled, trouble.failed = 0, ~Entitled, identity = "enabled",
                    \A s \in Subs : stripe[s].status = "canceled" /\ ~stripe[s].lapsed
             PROVE  FALSE
  BY DEF EndedIsCutOff
<1>1. ~grant
  BY DEF Entitled
<1>2. PICK s \in Subs : EndsLater(s)
  BY <1>1 DEF BillingInv, CutsOff
<1>3. \A h \in Deliveries : ~Ending(h, s)
  BY DEF Settled, Ending, At
<1>4. PICK j \in OfType(s, "customer.subscription.deleted") : TRUE
  BY DEF BillingInv, BillingFacts, StripeHolds
<1>5. j \in 1..Len(events) /\ events[j].sub = s /\ events[j].type = "customer.subscription.deleted"
  BY <1>4 DEF OfType, Of
<1>6. inbox[j] = "processed"
  BY <1>5 DEF Settled, BillingInv, BillingFacts, BillingTypeOK
<1>7. subscriptions[s].status \in {"none", "canceled"}
  BY <1>5, <1>6 DEF BillingInv, Applied
<1> QED
  BY <1>2, <1>3, <1>7 DEF EndsLater

\* Every variable of the webhook's model keeps its type, however Stripe's events arrive.
THEOREM BillingTypeCorrect == BillingSpec => []BillingTypeOK
<1>1. BillingFacts => BillingTypeOK
  BY DEF BillingFacts
<1> QED
  BY <1>1, FactsBegin, FactsGoOn, PTL DEF BillingSpec

\* No VPN identity is made for an account that neither paid, nor is in a trial, nor has a grant (the
\* header of stripe-events.js), even where rows are read and written by several deliveries at once and
\* a subscription is deleted before it was mapped.
THEOREM UnpaidCorrect == BillingSpec => []UnpaidNeverServed
<1>1. BillingFacts => UnpaidNeverServed
  BY DEF BillingFacts
<1> QED
  BY <1>1, FactsBegin, FactsGoOn, PTL DEF BillingSpec

\* In whatever order, how often and in how many deliveries at once Stripe's events arrive, and whichever
\* delivery fails: the table subscriptions, and the service that follows it, end where Stripe does
\* (isStaleSubscriptionWrite, enqueueDisableForAccount), as long as a row is read and written by one
\* delivery at a time and a subscription is mapped before it is deleted.
THEOREM ServiceCorrect == AtomicWrites /\ PromptMapping /\ BillingSpec => []ServiceFollowsStripe
<1>1. BillingInv => ServiceFollowsStripe
  BY InvLiveMatches, InvEndedIsCutOff DEF ServiceFollowsStripe, BillingInv, BillingFacts
<1> SUFFICES ASSUME AtomicWrites, PromptMapping PROVE BillingSpec => []ServiceFollowsStripe
  OBVIOUS
<1>2. BillingInv /\ [BillingNext]_billingVars => BillingInv'
  BY BillingGoesOn
<1> QED
  BY <1>1, <1>2, BillingBegins, PTL DEF BillingSpec

-----------------------------------------------------------------------------
(* Links: the inductive invariant *)

\* A request that creates a link alone knows it, and without a revocation it finds it as it made it.
OwnHolds(r) ==
    LET q == requests[r]
    IN /\ q.link \in Links /\ q.old # q.link
       /\ \A k \in DOMAIN clients : clients[k].link = q.link => k = q.token
       /\ ~asked => /\ links[q.link] = "active"
                    /\ q.pc \in {"compare", "store", "retire"} => q.token \in DOMAIN clients /\ clients[q.token].active

\* The token of a request is its own: it opens at most the client that the request creates, and
\* nobody has it before the request answers.
LinkRequestHolds(r) ==
    LET q == requests[r]
    IN /\ In(r, "idle") => ~q.own
       /\ ~In(r, "idle") =>
              /\ q.token \in 1..made /\ q.token \notin given
              /\ q.token \in DOMAIN clients =>
                     /\ q.client = q.token /\ q.pc \in {"compare", "store", "retire", "cleanup"}
                     /\ clients[q.token].link = q.link
                     /\ clients[q.token].active => clients[q.token].hash = q.token
              /\ q.pc \in {"store", "retire"} => q.client = q.token
              /\ q.pc \in {"compare", "store", "retire", "replace"} => q.client \in DOMAIN clients
              /\ \A k \in DOMAIN clients : /\ clients[k].hash = q.token => k = q.token
                                           /\ clients[k].sealed = q.token => k = q.token /\ q.pc = "retire"
              /\ IF q.pc = "replace" THEN q.link = 0 ELSE q.link \in Links /\ links[q.link] # "none"
              /\ q.pc \in {"cleanup", "retire"} \/ q.old # 0 => q.own
              /\ q.pc = "retire" => q.old # 0
              /\ q.old # 0 => links[q.old] # "none"
              /\ q.own => q.pc # "replace" /\ OwnHolds(r)

\* Two requests do not meet in a token, nor in a link or a client that one of them is creating.
ApartLinks(r, s) ==
    r # s /\ ~In(r, "idle") /\ ~In(s, "idle") =>
        /\ requests[r].token # requests[s].token
        /\ In(s, "replace") => requests[s].client # requests[r].token
        /\ requests[r].own => requests[s].link # requests[r].link /\ requests[s].old # requests[r].link

\* The creator of k is about to answer.
InHand(r, k) == requests[r].pc \in {"compare", "store", "retire"} /\ requests[r].token = k

LinkClientHolds(k) ==
    /\ k \in 1..made /\ clients[k].link \in Links /\ links[clients[k].link] # "none"
    /\ clients[k].hash \in 0..made /\ clients[k].sealed \in 0..made
    /\ clients[k].active =>
           /\ clients[k].hash # NoToken /\ clients[k].sealed \in {NoToken, clients[k].hash}
           /\ deaths = 0 => clients[k].hash \in given \/ \E r \in LinkCallers : InHand(r, k)

LinkInv ==
    /\ LinkTypeOK /\ given \subseteq 1..made
    /\ \A r \in LinkCallers : LinkRequestHolds(r)
    /\ \A r, s \in LinkCallers : ApartLinks(r, s)
    /\ \A k \in DOMAIN clients : LinkClientHolds(k)

-----------------------------------------------------------------------------
(* Links: the types *)

\* Every request in progress has a token.
TokenHeld == \A r \in LinkCallers : ~In(r, "idle") => requests[r].token \in Token

\* Revoking a link keeps the types.
LEMMA RevokeTyped ==
    ASSUME LinkTypeOK, NEW l, revoke_vpn_link(l)
    PROVE  /\ links' \in [Links -> {"none", "active", "revoked"}]
           /\ DOMAIN clients' \subseteq Token /\ \A k \in DOMAIN clients' : clients'[k] \in Client
<1>1. CASE links[l] # "active"
  BY <1>1 DEF LinkTypeOK, revoke_vpn_link
<1>2. CASE links[l] = "active"
  <2>1. links' \in [Links -> {"none", "active", "revoked"}]
    BY <1>2 DEF LinkTypeOK, revoke_vpn_link
  <2>2. clients' = [k \in DOMAIN clients |-> IF k \in ActiveOf(l) THEN Burn(k) ELSE clients[k]]
    BY <1>2 DEF revoke_vpn_link
  <2>3. \A k \in DOMAIN clients : clients[k] \in Client /\ Burn(k) \in Client
    BY DEF LinkTypeOK, Burn, Client
  <2> QED BY <2>1, <2>2, <2>3 DEF LinkTypeOK
<1> QED BY <1>1, <1>2

\* A request that goes to another statement, answers, or starts with a token keeps the types.
LEMMA RequestTyped ==
    ASSUME LinkTypeOK, TokenHeld, NEW r \in LinkCallers, NEW v \in Request, requests' = [requests EXCEPT ![r] = v],
           v.pc = "idle" \/ v.token \in Token
    PROVE  requests' \in [LinkCallers -> Request] /\ TokenHeld'
BY DEF LinkTypeOK, TokenHeld, In

LEMMA DoesIs ==
    ASSUME LinkTypeOK, NEW r \in LinkCallers, NEW pc \in {"store", "cleanup", "retire"}, Does(r, pc)
    PROVE  [requests[r] EXCEPT !.pc = pc] \in Request /\ requests' = [requests EXCEPT ![r] = [requests[r] EXCEPT !.pc = pc]]
BY DEF LinkTypeOK, Does, Request

LEMMA NoRequestIs == NoRequest \in Request /\ NoRequest.pc = "idle"
BY DEF NoRequest, Request

LEMMA DoesTyped ==
    ASSUME LinkTypeOK, TokenHeld, NEW r \in LinkCallers, ~In(r, "idle"),
           Answers(r) \/ \E pc \in {"store", "cleanup", "retire"} : Does(r, pc)
    PROVE  requests' \in [LinkCallers -> Request] /\ TokenHeld'
<1>1. CASE Answers(r)
  BY <1>1, NoRequestIs, RequestTyped DEF Answers
<1>2. ASSUME NEW pc \in {"store", "cleanup", "retire"}, Does(r, pc)
      PROVE  requests' \in [LinkCallers -> Request] /\ TokenHeld'
  <2> DEFINE v == [requests[r] EXCEPT !.pc = pc]
  <2>1. v \in Request /\ requests' = [requests EXCEPT ![r] = v]
    BY <1>2, DoesIs
  <2>2. v.token \in Token
    BY DEF TokenHeld, LinkTypeOK, Request
  <2> HIDE DEF v
  <2> QED BY <2>1, <2>2, RequestTyped
<1> QED BY <1>1, <1>2

LEMMA LinkTypeKept ==
    ASSUME LinkTypeOK, TokenHeld, [LinkNext]_linkVars
    PROVE  LinkTypeOK' /\ TokenHeld'
<1> USE LinkParameters
<1>0. made \in Nat /\ MaxTokens \in Nat /\ deaths \in Nat /\ MaxLinkDeaths \in Nat
  BY DEF LinkTypeOK
<1>1. CASE UNCHANGED linkVars
  BY <1>1 DEF linkVars, LinkTypeOK, TokenHeld, In
<1>2. ASSUME NEW r \in LinkCallers, LinkRequest(r) PROVE LinkTypeOK' /\ TokenHeld'
  <2>0. requests[r] \in Request
    BY DEF LinkTypeOK
  <2>1. CASE CreateLink(r, 1)
    <3>1. links' \in [Links -> {"none", "active", "revoked"}]
      BY <2>1 DEF CreateLink, LinkTypeOK
    <3>2. capacity' \in [Links -> 0..2]
      <4>1. 1 \in 0..2
        OBVIOUS
      <4> QED BY <2>1, <4>1, Zenon DEF CreateLink, LinkTypeOK
    <3> QED BY <2>1, <3>1, <3>2 DEF CreateLink, LinkTypeOK, TokenHeld, In
  <2>2. ASSUME NEW l \in Links, CreateClient(r, l) PROVE LinkTypeOK' /\ TokenHeld'
    <3> DEFINE v == [NoRequest EXCEPT !.pc = "insert", !.link = l, !.token = made + 1]
    <3>1. made + 1 \in Token /\ made + 1 \in 0..MaxTokens
      BY <1>0, <2>2 DEF CreateClient, Token
    <3>2. v \in Request /\ v.token \in Token
      BY <3>1 DEF NoRequest, Request
    <3>3. requests' = [requests EXCEPT ![r] = v]
      BY <2>2 DEF CreateClient
    <3>4. requests' \in [LinkCallers -> Request] /\ TokenHeld'
      <4> HIDE DEF v
      <4> QED BY <3>2, <3>3, RequestTyped
    <3> QED BY <2>2, <3>1, <3>4 DEF CreateClient, LinkTypeOK
  <2>3. ASSUME NEW old \in Links \cup {0}, StartLink(r, old) PROVE LinkTypeOK' /\ TokenHeld'
    <3> DEFINE v == [NoRequest EXCEPT !.pc = "insert", !.link = NewLink, !.old = old, !.own = TRUE, !.token = made + 1]
    <3>1. made + 1 \in Token /\ made + 1 \in 0..MaxTokens /\ NewLink \in Links
      BY <1>0, <2>3 DEF StartLink, Token, NewLink, SomeLinkIsFree
    <3>2. v \in Request /\ v.token \in Token
      BY <3>1 DEF NoRequest, Request
    <3>3. requests' = [requests EXCEPT ![r] = v]
      BY <2>3 DEF StartLink
    <3>4. requests' \in [LinkCallers -> Request] /\ TokenHeld'
      <4> HIDE DEF v
      <4> QED BY <3>2, <3>3, RequestTyped
    <3>5. links' \in [Links -> {"none", "active", "revoked"}]
      BY <2>3 DEF StartLink, LinkTypeOK
    <3>6. capacity' \in [Links -> 0..2]
      <4>1. 1 \in 0..2
        OBVIOUS
      <4> QED BY <2>3, <4>1, Zenon DEF StartLink, LinkTypeOK
    <3> QED BY <2>3, <3>1, <3>4, <3>5, <3>6 DEF StartLink, LinkTypeOK
  <2>4. ASSUME NEW key \in LinkCallers, create_vpn_link_client(r, key) PROVE LinkTypeOK' /\ TokenHeld'
    <3> DEFINE l == requests[r].link
               t == requests[r].token
               new == [link |-> l, active |-> TRUE, hash |-> t, sealed |-> NoToken, key |-> key]
               ask(k) == [requests[r] EXCEPT !.pc = "compare", !.client = k]
    <3> UNCHANGED <<links, capacity, made, given, asked, deaths>>
      BY <2>4 DEF create_vpn_link_client
    <3>0. ~In(r, "idle") /\ t \in Token
      BY <2>4 DEF create_vpn_link_client, In, TokenHeld
    <3>1. CASE Fails(r) /\ UNCHANGED clients
      <4>1. requests' \in [LinkCallers -> Request] /\ TokenHeld'
        BY <3>0, <3>1, DoesTyped DEF Fails
      <4> QED BY <3>1, <4>1 DEF LinkTypeOK
    <3>2. ASSUME NEW k \in DOMAIN clients, requests' = [requests EXCEPT ![r].pc = "compare", ![r].client = k], UNCHANGED clients
          PROVE  LinkTypeOK' /\ TokenHeld'
      <4>1. ask(k) \in Request /\ ask(k).token \in Token /\ requests' = [requests EXCEPT ![r] = ask(k)]
        BY <2>0, <3>0, <3>2 DEF Request, LinkTypeOK
      <4>2. requests' \in [LinkCallers -> Request] /\ TokenHeld'
        BY <4>1, RequestTyped
      <4> QED BY <3>2, <4>2 DEF LinkTypeOK
    <3>3. ASSUME clients' = [k \in DOMAIN clients \cup {t} |-> IF k = t THEN new ELSE clients[k]],
                 requests' = [requests EXCEPT ![r].pc = "compare", ![r].client = t]
          PROVE  LinkTypeOK' /\ TokenHeld'
      <4>1. ask(t) \in Request /\ ask(t).token \in Token /\ requests' = [requests EXCEPT ![r] = ask(t)]
        BY <2>0, <3>0, <3>3 DEF Request, LinkTypeOK
      <4>2. requests' \in [LinkCallers -> Request] /\ TokenHeld'
        BY <4>1, RequestTyped
      <4>3. new \in Client
        BY <2>0, <3>0 DEF Client, Request, NoToken
      <4>4. DOMAIN clients' \subseteq Token /\ \A k \in DOMAIN clients' : clients'[k] \in Client
        <5> HIDE DEF new, t
        <5> QED BY <3>0, <3>3, <4>3 DEF LinkTypeOK
      <4> QED BY <4>2, <4>4 DEF LinkTypeOK
    <3> HIDE DEF new, l, t, ask
    <3> QED BY <2>4, <3>1, <3>2, <3>3 DEF create_vpn_link_client, new, l, t
  <2>5. CASE Compare(r)
    <3>1. requests' \in [LinkCallers -> Request] /\ TokenHeld'
      BY <2>5, DoesTyped DEF Compare, Fails, In
    <3> QED BY <2>5, <3>1 DEF Compare, LinkTypeOK
  <2>6. CASE Cleanup(r)
    <3>1. requests' \in [LinkCallers -> Request] /\ TokenHeld'
      BY <2>6, DoesTyped DEF Cleanup, In
    <3> QED BY <2>6, <3>1, RevokeTyped DEF Cleanup, LinkTypeOK
  <2>7. CASE RetireOld(r)
    <3>1. requests' \in [LinkCallers -> Request] /\ TokenHeld'
      BY <2>7, DoesTyped DEF RetireOld, In
    <3>2. requests[r].token \in Token
      BY <2>7 DEF RetireOld, In, TokenHeld
    <3> QED BY <2>7, <3>1, <3>2, RevokeTyped DEF RetireOld, LinkTypeOK
  <2>8. ASSUME NEW done \in BOOLEAN, RequestDies(r, done) PROVE LinkTypeOK' /\ TokenHeld'
    <3>1. requests' \in [LinkCallers -> Request] /\ TokenHeld'
      BY <2>8, DoesTyped DEF RequestDies, In
    <3>2. deaths' \in 0..MaxLinkDeaths
      BY <1>0, <2>8 DEF RequestDies
    <3> QED BY <2>8, <3>1, <3>2 DEF RequestDies, LinkTypeOK
  <2>9. ASSUME NEW done \in BOOLEAN, StoreAccessLink(r, done) PROVE LinkTypeOK' /\ TokenHeld'
    <3>1. requests' \in [LinkCallers -> Request] /\ TokenHeld'
      BY <2>9, DoesTyped DEF StoreAccessLink, In
    <3>2. requests[r].token \in Token
      BY <2>9 DEF StoreAccessLink, In, TokenHeld
    <3>3. DOMAIN clients' \subseteq Token /\ \A k \in DOMAIN clients' : clients'[k] \in Client
      <4>1. CASE done
        BY <2>9, <3>2, <4>1 DEF StoreAccessLink, LinkTypeOK, Client
      <4>2. CASE ~done
        BY <2>9, <4>2 DEF StoreAccessLink, LinkTypeOK
      <4> QED BY <4>1, <4>2
    <3>4. given' \subseteq Token
      BY <2>9, <3>2 DEF StoreAccessLink, LinkTypeOK
    <3> QED BY <2>9, <3>1, <3>3, <3>4 DEF StoreAccessLink, LinkTypeOK
  <2>10. ASSUME NEW done \in BOOLEAN, ReplaceAccessLink(r, done) PROVE LinkTypeOK' /\ TokenHeld'
    <3>1. requests' \in [LinkCallers -> Request] /\ TokenHeld'
      BY <2>10, DoesTyped DEF ReplaceAccessLink, In
    <3>2. requests[r].token \in Token
      BY <2>10 DEF ReplaceAccessLink, In, TokenHeld
    <3>3. DOMAIN clients' \subseteq Token /\ \A k \in DOMAIN clients' : clients'[k] \in Client
      <4>1. CASE clients[requests[r].client].active
        BY <2>10, <3>2, <4>1 DEF ReplaceAccessLink, LinkTypeOK, Client
      <4>2. CASE ~clients[requests[r].client].active
        BY <2>10, <4>2 DEF ReplaceAccessLink, LinkTypeOK
      <4> QED BY <4>1, <4>2
    <3>4. given' \subseteq Token
      BY <2>10, <3>2 DEF ReplaceAccessLink, LinkTypeOK
    <3> QED BY <2>10, <3>1, <3>3, <3>4 DEF ReplaceAccessLink, LinkTypeOK
  <2>11. ASSUME NEW k \in Token, AskReplace(r, k) PROVE LinkTypeOK' /\ TokenHeld'
    <3> DEFINE v == [NoRequest EXCEPT !.pc = "replace", !.client = k, !.token = made + 1]
    <3>1. made + 1 \in Token /\ made + 1 \in 0..MaxTokens
      BY <1>0, <2>11 DEF AskReplace, Token
    <3>2. v \in Request /\ v.token \in Token
      BY <3>1 DEF NoRequest, Request
    <3>3. requests' = [requests EXCEPT ![r] = v]
      BY <2>11 DEF AskReplace
    <3>4. requests' \in [LinkCallers -> Request] /\ TokenHeld'
      <4> HIDE DEF v
      <4> QED BY <3>2, <3>3, RequestTyped
    <3> QED BY <2>11, <3>1, <3>4 DEF AskReplace, LinkTypeOK
  <2> QED BY <1>2, <2>1, <2>2, <2>3, <2>4, <2>5, <2>6, <2>7, <2>8, <2>9, <2>10, <2>11 DEF LinkRequest
<1>3. ASSUME NEW l \in Links, RevokeLink(l) PROVE LinkTypeOK' /\ TokenHeld'
  BY <1>3, RevokeTyped DEF RevokeLink, LinkTypeOK, TokenHeld, In
<1>4. ASSUME NEW l \in Links, NEW n \in 1..2, update_vpn_link(l, n) PROVE LinkTypeOK' /\ TokenHeld'
  BY <1>4 DEF update_vpn_link, LinkTypeOK, TokenHeld, In
<1>5. ASSUME NEW k \in Token, revoke_external_vpn_device(k) PROVE LinkTypeOK' /\ TokenHeld'
  <2>1. DOMAIN clients' \subseteq Token /\ \A j \in DOMAIN clients' : clients'[j] \in Client
    <3>1. clients' = [clients EXCEPT ![k] = Burn(k)] /\ k \in DOMAIN clients
      BY <1>5 DEF revoke_external_vpn_device, Active
    <3>2. Burn(k) \in Client
      BY <3>1 DEF LinkTypeOK, Burn, Client
    <3> QED BY <3>1, <3>2 DEF LinkTypeOK
  <2> QED BY <1>5, <2>1 DEF revoke_external_vpn_device, LinkTypeOK, TokenHeld, In
<1> QED BY <1>1, <1>2, <1>3, <1>4, <1>5 DEF LinkNext

-----------------------------------------------------------------------------
(* Links: the steps *)

\* What a step may do to a client that is there: nothing; burn it, when the customer asked or its link
\* is one of those that are revoked; or give it the token t, but not to one that another creates.
ClientStep(k, t, gone) ==
    /\ k \in DOMAIN clients' /\ clients'[k].link = clients[k].link
    /\ \/ clients'[k] = clients[k]
       \/ /\ asked' \/ clients[k].link \in gone
          /\ ~clients'[k].active /\ clients'[k].hash = NoToken /\ clients'[k].sealed = clients[k].sealed
       \/ /\ clients'[k].active = clients[k].active
          /\ clients'[k].hash \in {clients[k].hash, t} /\ clients'[k].sealed \in {clients[k].sealed, t, NoToken}

\* A step of the link database with the token t, that revokes the links gone and creates at most a
\* client of the link l0, as another request sees it.
LinkStep(t, gone, l0) ==
    /\ made <= made' /\ given' \subseteq given \cup {t} /\ (asked => asked')
    /\ \A l \in Links : links[l] # "none" => links'[l] # "none"
    /\ \A l \in Links : links[l] = "active" /\ l \notin gone /\ ~asked' => links'[l] = "active"
    /\ \A k \in DOMAIN clients : ClientStep(k, t, gone)
    /\ \A k \in DOMAIN clients' \ DOMAIN clients :
           k = t /\ clients'[k].link = l0 /\ clients'[k].hash = t /\ clients'[k].sealed = NoToken

LEMMA OthersKept ==
    ASSUME LinkInv, LinkTypeOK', NEW q \in LinkCallers, requests'[q] = requests[q],
           NEW t \in Token \cup {NoToken}, NEW gone \in SUBSET Links, NEW l0 \in Links \cup {0},
           LinkStep(t, gone, l0),
           ~In(q, "idle") => /\ requests[q].token # t
                             /\ requests[q].own => requests[q].link \notin gone /\ requests[q].link # l0
                             /\ requests[q].token \in DOMAIN clients =>
                                    (clients'[requests[q].token].active =>
                                         clients'[requests[q].token].hash = clients[requests[q].token].hash)
    PROVE  LinkRequestHolds(q)'
<1> DEFINE v == requests[q]
<1>1. LinkRequestHolds(q) /\ v \in Request
  BY DEF LinkInv, LinkTypeOK
<1>2. CASE In(q, "idle")
  BY <1>1, <1>2 DEF LinkRequestHolds, In
<1>3. CASE ~In(q, "idle")
  <2> DEFINE k0 == v.token
  <2>1. /\ v.pc # "idle" /\ k0 \in 1..made /\ k0 \notin given /\ k0 # t /\ k0 # NoToken
        /\ made \in Nat /\ made' \in Nat
    BY <1>1, <1>3 DEF LinkRequestHolds, In, NoToken, LinkInv, LinkTypeOK
  <2>2. k0 \in 1..made' /\ k0 \notin given'
    BY <2>1 DEF LinkStep
  <2>3. \A k \in DOMAIN clients' : \/ k \in DOMAIN clients /\ ClientStep(k, t, gone)
                                   \/ k = t /\ clients'[k].link = l0 /\ clients'[k].hash = t /\ clients'[k].sealed = NoToken
    BY DEF LinkStep
  <2>4. ASSUME k0 \in DOMAIN clients'
        PROVE  /\ v.client = k0 /\ v.pc \in {"compare", "store", "retire", "cleanup"}
               /\ clients'[k0].link = v.link
               /\ clients'[k0].active => clients'[k0].hash = k0
    <3>1. k0 \in DOMAIN clients /\ ClientStep(k0, t, gone)
      BY <2>1, <2>3, <2>4
    <3>2. /\ v.client = k0 /\ v.pc \in {"compare", "store", "retire", "cleanup"}
          /\ clients[k0].link = v.link /\ (clients[k0].active => clients[k0].hash = k0)
      BY <1>1, <1>3, <3>1 DEF LinkRequestHolds
    <3>3. clients'[k0].active => clients[k0].active /\ clients'[k0].hash = clients[k0].hash
      BY <1>3, <2>1, <3>1, <3>2 DEF ClientStep
    <3> QED BY <3>1, <3>2, <3>3 DEF ClientStep
  <2>5. v.pc \in {"store", "retire"} => v.client = k0
    BY <1>1, <1>3 DEF LinkRequestHolds
  <2>6. v.pc \in {"compare", "store", "retire", "replace"} => v.client \in DOMAIN clients'
    BY <1>1, <1>3 DEF LinkRequestHolds, LinkStep, ClientStep
  <2>7. ASSUME NEW k \in DOMAIN clients'
        PROVE  /\ clients'[k].hash = k0 => k = k0
               /\ clients'[k].sealed = k0 => k = k0 /\ v.pc = "retire"
    <3>1. CASE k \in DOMAIN clients /\ ClientStep(k, t, gone)
      BY <1>1, <1>3, <2>1, <3>1 DEF LinkRequestHolds, ClientStep
    <3>2. CASE clients'[k].hash = t /\ clients'[k].sealed = NoToken
      BY <2>1, <3>2
    <3> QED BY <2>3, <3>1, <3>2
  <2>8. /\ IF v.pc = "replace" THEN v.link = 0 ELSE v.link \in Links /\ links'[v.link] # "none"
        /\ v.pc \in {"cleanup", "retire"} \/ v.old # 0 => v.own
        /\ v.pc = "retire" => v.old # 0
        /\ v.own => v.pc # "replace"
    BY <1>1, <1>3 DEF LinkRequestHolds, LinkStep
  <2>9. v.old # 0 => links'[v.old] # "none"
    BY <1>1, <1>3 DEF LinkRequestHolds, LinkStep, Request
  <2>10. ASSUME v.own PROVE OwnHolds(q)'
    <3>1. OwnHolds(q) /\ v.link \notin gone /\ v.link # l0
      BY <1>1, <1>3, <2>10 DEF LinkRequestHolds
    <3>2. v.link \in Links /\ v.old # v.link
      BY <3>1 DEF OwnHolds
    <3>3. ASSUME NEW k \in DOMAIN clients', clients'[k].link = v.link PROVE k = k0
      <4>1. k \in DOMAIN clients /\ clients[k].link = v.link
        BY <2>3, <3>1, <3>3 DEF ClientStep
      <4> QED BY <3>1, <4>1 DEF OwnHolds
    <3>4. ASSUME ~asked'
          PROVE  links'[v.link] = "active"
      BY <3>1, <3>2, <3>4 DEF OwnHolds, LinkStep
    <3>5. ASSUME ~asked', v.pc \in {"compare", "store", "retire"}
          PROVE  k0 \in DOMAIN clients' /\ clients'[k0].active
      <4>1. k0 \in DOMAIN clients /\ clients[k0].active /\ ClientStep(k0, t, gone)
        BY <3>1, <3>5 DEF OwnHolds, LinkStep
      <4>2. clients[k0].link = v.link
        BY <1>1, <1>3, <4>1 DEF LinkRequestHolds
      <4> QED BY <3>1, <3>5, <4>1, <4>2 DEF ClientStep
    <3> HIDE DEF v, k0
    <3> QED BY <3>2, <3>3, <3>4, <3>5 DEF OwnHolds, v, k0
  <2> HIDE DEF k0
  <2>11. v.pc # "idle" /\ requests'[q] = v
    BY <2>1
  <2> HIDE DEF v
  <2>12. v.own => OwnHolds(q)'
    BY <2>10
  <2>13. /\ k0 \in 1..made' /\ k0 \notin given'
         /\ k0 \in DOMAIN clients' =>
                /\ v.client = k0 /\ v.pc \in {"compare", "store", "retire", "cleanup"}
                /\ clients'[k0].link = v.link
                /\ clients'[k0].active => clients'[k0].hash = k0
         /\ v.pc \in {"store", "retire"} => v.client = k0
         /\ v.pc \in {"compare", "store", "retire", "replace"} => v.client \in DOMAIN clients'
         /\ \A k \in DOMAIN clients' : /\ clients'[k].hash = k0 => k = k0
                                       /\ clients'[k].sealed = k0 => k = k0 /\ v.pc = "retire"
    BY <2>2, <2>4, <2>5, <2>6, <2>7
  <2> QED BY <2>8, <2>9, <2>11, <2>12, <2>13, Zenon DEF LinkRequestHolds, In, k0
<1> QED BY <1>2, <1>3

\* A request that goes on, or answers, stays apart from the others.
LEMMA ApartKept ==
    ASSUME LinkInv, NEW r \in LinkCallers, NEW v, requests' = [requests EXCEPT ![r] = v],
           v.pc = "idle" \/ /\ ~In(r, "idle") /\ v.token = requests[r].token /\ v.own = requests[r].own
                            /\ v.link = requests[r].link /\ v.old = requests[r].old
                            /\ v.pc = "replace" => In(r, "replace") /\ v.client = requests[r].client
    PROVE  \A p, s \in LinkCallers : ApartLinks(p, s)'
<1> SUFFICES ASSUME NEW p \in LinkCallers, NEW s \in LinkCallers PROVE ApartLinks(p, s)'
  OBVIOUS
<1>1. requests'[r] = v /\ \A q \in LinkCallers : q # r => requests'[q] = requests[q]
  BY DEF LinkInv, LinkTypeOK
<1>2. ApartLinks(p, s)
  BY DEF LinkInv
<1>3. CASE p = r
  BY <1>1, <1>2, <1>3 DEF ApartLinks, In
<1>4. CASE s = r
  BY <1>1, <1>2, <1>4 DEF ApartLinks, In
<1>5. CASE p # r /\ s # r
  BY <1>1, <1>2, <1>5 DEF ApartLinks, In
<1> QED BY <1>3, <1>4, <1>5

\* A request that starts takes a new token, and a link or a client that nobody is creating.
LEMMA ApartStarted ==
    ASSUME LinkInv, NEW r \in LinkCallers, NEW v, requests' = [requests EXCEPT ![r] = v],
           v.token = made + 1,
           v.pc = "replace" => v.client \in DOMAIN clients /\ \A q \in LinkCallers : requests[q].client # v.client,
           v.own => v.link \in Links /\ links[v.link] = "none",
           \A q \in LinkCallers : requests[q].own => requests[q].link # v.link /\ requests[q].link # v.old
    PROVE  \A p, s \in LinkCallers : ApartLinks(p, s)'
<1> SUFFICES ASSUME NEW p \in LinkCallers, NEW s \in LinkCallers PROVE ApartLinks(p, s)'
  OBVIOUS
<1>1. requests'[r] = v /\ \A q \in LinkCallers : q # r => requests'[q] = requests[q]
  BY DEF LinkInv, LinkTypeOK
<1>2. ApartLinks(p, s) /\ made \in Nat /\ LinkRequestHolds(p) /\ LinkRequestHolds(s) /\ requests[s] \in Request
      /\ \A k \in DOMAIN clients : k \in 1..made
  BY DEF LinkInv, LinkTypeOK, LinkClientHolds
<1>3. CASE p = r /\ s # r
  <2> SUFFICES ASSUME ~In(s, "idle") PROVE ApartLinks(p, s)'
    BY <1>1, <1>3 DEF ApartLinks, In
  <2>1. requests[s].token \in 1..made /\ (In(s, "replace") => requests[s].client \in 1..made)
    BY <1>2 DEF LinkRequestHolds, In
  <2>2. v.own => requests[s].link # v.link
    BY <1>2 DEF LinkRequestHolds, Links
  <2>3. v.own => requests[s].old # v.link
    BY <1>2 DEF LinkRequestHolds, Links
  <2> QED BY <1>1, <1>2, <1>3, <2>1, <2>2, <2>3 DEF ApartLinks, In
<1>4. CASE s = r /\ p # r
  <2> SUFFICES ASSUME ~In(p, "idle") PROVE ApartLinks(p, s)'
    BY <1>1, <1>4 DEF ApartLinks, In
  <2>1. requests[p].token \in 1..made
    BY <1>2 DEF LinkRequestHolds
  <2>2. v.pc = "replace" => v.client # requests[p].token
    BY <1>2 DEF LinkRequestHolds
  <2> QED BY <1>1, <1>2, <1>4, <2>1, <2>2 DEF ApartLinks, In
<1>5. CASE p # r /\ s # r
  BY <1>1, <1>2, <1>5 DEF ApartLinks, In
<1>6. CASE p = s
  BY <1>6 DEF ApartLinks
<1> QED BY <1>3, <1>4, <1>5, <1>6

\* A client that opens after the step did so before, and whoever creates it goes on or has given its
\* URL; or the step made it open.
LEMMA ClientsKept ==
    ASSUME LinkInv, LinkTypeOK', NEW r, \A q \in LinkCallers : q # r => requests'[q] = requests[q],
           NEW t \in Token \cup {NoToken}, t <= made', NEW gone \in SUBSET Links, NEW l0 \in Links \cup {0},
           LinkStep(t, gone, l0), l0 # 0 => t # NoToken /\ links'[l0] # "none",
           DOMAIN clients' # DOMAIN clients => l0 # 0,
           given \subseteq given', deaths <= deaths',
           \A k \in DOMAIN clients' : clients'[k].active =>
               \/ /\ k \in DOMAIN clients /\ clients'[k] = clients[k]
                  /\ InHand(r, k) => InHand(r, k)' \/ deaths' # 0 \/ clients[k].hash \in given'
               \/ /\ clients'[k].hash # NoToken /\ clients'[k].sealed \in {NoToken, clients'[k].hash}
                  /\ clients'[k].hash \in given' \/ (r \in LinkCallers /\ InHand(r, k)')
    PROVE  \A k \in DOMAIN clients' : LinkClientHolds(k)'
<1> SUFFICES ASSUME NEW k \in DOMAIN clients' PROVE LinkClientHolds(k)'
  OBVIOUS
<1>1. made \in Nat /\ made' \in Nat /\ made <= made' /\ deaths \in Nat /\ deaths' \in Nat
  BY LinkParameters DEF LinkInv, LinkTypeOK, LinkStep
<1>2. /\ k \in 1..made' /\ clients'[k].link \in Links /\ links'[clients'[k].link] # "none"
      /\ clients'[k].hash \in 0..made' /\ clients'[k].sealed \in 0..made'
  <2>1. CASE k \in DOMAIN clients
    <3>1. LinkClientHolds(k) /\ ClientStep(k, t, gone)
      BY <2>1 DEF LinkInv, LinkStep
    <3>2. t \in 0..made' /\ NoToken \in 0..made'
      BY <1>1 DEF Token, NoToken
    <3>3. k \in 1..made' /\ clients[k].hash \in 0..made' /\ clients[k].sealed \in 0..made'
      BY <1>1, <3>1 DEF LinkClientHolds
    <3>4. clients'[k].hash \in 0..made' /\ clients'[k].sealed \in 0..made'
      BY <3>1, <3>2, <3>3 DEF ClientStep
    <3>5. clients'[k].link \in Links /\ links'[clients'[k].link] # "none"
      BY <3>1 DEF LinkClientHolds, ClientStep, LinkStep
    <3> QED BY <3>3, <3>4, <3>5
  <2>2. CASE k \notin DOMAIN clients
    BY <1>1, <2>2 DEF LinkStep, Token, NoToken
  <2> QED BY <2>1, <2>2
<1>3. ASSUME clients'[k].active
      PROVE  /\ clients'[k].hash # NoToken /\ clients'[k].sealed \in {NoToken, clients'[k].hash}
             /\ deaths' = 0 => clients'[k].hash \in given' \/ \E s \in LinkCallers : InHand(s, k)'
  <2>1. CASE /\ k \in DOMAIN clients /\ clients'[k] = clients[k]
             /\ InHand(r, k) => InHand(r, k)' \/ deaths' # 0 \/ clients[k].hash \in given'
    <3>1. /\ clients[k].hash # NoToken /\ clients[k].sealed \in {NoToken, clients[k].hash}
          /\ deaths = 0 => clients[k].hash \in given \/ \E s \in LinkCallers : InHand(s, k)
      BY <1>3, <2>1 DEF LinkInv, LinkClientHolds
    <3>2. \A s \in LinkCallers : s # r /\ InHand(s, k) => InHand(s, k)'
      BY DEF InHand
    <3>3. deaths' = 0 => deaths = 0
      BY <1>1
    <3> QED BY <2>1, <3>1, <3>2, <3>3
  <2> QED BY <1>3, <2>1
<1> QED BY <1>2, <1>3, Zenon DEF LinkClientHolds

LEMMA OthersApart ==
    ASSUME LinkInv, NEW r \in LinkCallers, ~In(r, "idle"), NEW q \in LinkCallers, q # r, ~In(q, "idle")
    PROVE  /\ requests[q].token # requests[r].token
           /\ requests[q].own => requests[r].link # requests[q].link /\ requests[r].old # requests[q].link
           /\ In(r, "replace") => requests[r].client # requests[q].token
BY DEF LinkInv, ApartLinks

LEMMA TokenIsMade ==
    ASSUME LinkInv, NEW r \in LinkCallers, ~In(r, "idle")
    PROVE  /\ requests[r].token \in 1..made /\ requests[r].token \in Token /\ requests[r].token # NoToken
           /\ requests[r].token \in Nat /\ made \in Nat /\ requests[r].token \notin given
<1>1. requests[r].token \in 1..made /\ requests[r].token \notin given /\ made \in 0..MaxTokens /\ MaxTokens \in Nat
  BY LinkParameters DEF LinkInv, LinkTypeOK, LinkRequestHolds
<1> QED BY <1>1 DEF Token, NoToken

LEMMA InvHasTokens == LinkInv => LinkTypeOK /\ TokenHeld
BY TokenIsMade DEF LinkInv, TokenHeld

\* A step that nobody's request takes, and that leaves whatever opens as it is.
LEMMA RequestsRest ==
    ASSUME LinkInv, LinkTypeOK', UNCHANGED <<requests, made, given, deaths>>, LinkStep(NoToken, {}, 0),
           DOMAIN clients' = DOMAIN clients,
           \A k \in DOMAIN clients : clients'[k].active => clients'[k] = clients[k]
    PROVE  LinkInv'
<1>1. \A q \in LinkCallers : LinkRequestHolds(q)'
  <2> SUFFICES ASSUME NEW q \in LinkCallers PROVE LinkRequestHolds(q)'
    OBVIOUS
  <2>1. ~In(q, "idle") => /\ requests[q].token # NoToken
                          /\ requests[q].own => requests[q].link # 0
    BY TokenIsMade DEF LinkInv, LinkRequestHolds, OwnHolds, Links
  <2> QED BY <2>1, OthersKept
<1>2. \A p, s \in LinkCallers : ApartLinks(p, s)'
  BY DEF LinkInv, ApartLinks, In
<1>3. \A k \in DOMAIN clients' : LinkClientHolds(k)'
  <2>1. deaths <= deaths' /\ NoToken <= made' /\ \A r, k : InHand(r, k) => InHand(r, k)'
    <3>1. made \in Nat /\ deaths \in Nat
      BY LinkParameters DEF LinkInv, LinkTypeOK
    <3> QED BY <3>1 DEF InHand, NoToken
  <2> QED BY <2>1, ClientsKept
<1>4. (given \subseteq 1..made)'
  BY DEF LinkInv
<1> QED BY <1>1, <1>2, <1>3, <1>4 DEF LinkInv

LEMMA NothingStep ==
    ASSUME LinkInv, UNCHANGED <<links, clients, given, asked>>, made <= made', NEW t, NEW gone, NEW l0
    PROVE  LinkStep(t, gone, l0)
BY DEF LinkStep, ClientStep

\* A step of a request that changes the request alone.
LEMMA Proceeds ==
    ASSUME LinkInv, LinkTypeOK', NEW r \in LinkCallers, ~In(r, "idle"), NEW v, requests' = [requests EXCEPT ![r] = v],
           v.pc = "idle" \/ /\ v.token = requests[r].token /\ v.own = requests[r].own
                            /\ v.link = requests[r].link /\ v.old = requests[r].old
                            /\ v.pc # "replace",
           UNCHANGED <<links, clients, made, given, asked>>, deaths <= deaths',
           LinkRequestHolds(r)',
           \A k \in DOMAIN clients : clients[k].active /\ InHand(r, k) => InHand(r, k)' \/ deaths' # 0
    PROVE  LinkInv'
<1>0. \A q \in LinkCallers : q # r => requests'[q] = requests[q]
  BY DEF LinkInv, LinkTypeOK
<1>1. made \in Nat /\ NoToken <= made /\ LinkStep(NoToken, {}, 0)
  BY NothingStep DEF LinkInv, LinkTypeOK, NoToken
<1>2. \A q \in LinkCallers : LinkRequestHolds(q)'
  <2> SUFFICES ASSUME NEW q \in LinkCallers, q # r PROVE LinkRequestHolds(q)'
    OBVIOUS
  <2>1. ~In(q, "idle") => /\ requests[q].token # NoToken
                          /\ requests[q].own => requests[q].link # 0
    BY TokenIsMade DEF LinkInv, LinkRequestHolds, OwnHolds, Links
  <2> QED BY <1>0, <1>1, <2>1, OthersKept
<1>3. \A p, s \in LinkCallers : ApartLinks(p, s)'
  BY ApartKept
<1>4. \A k \in DOMAIN clients' : LinkClientHolds(k)'
  BY <1>0, <1>1, ClientsKept
<1>5. (given \subseteq 1..made)'
  BY DEF LinkInv
<1> QED BY <1>2, <1>3, <1>4, <1>5 DEF LinkInv

\* A request that starts with a new token.
LEMMA Starts ==
    ASSUME LinkInv, LinkTypeOK', NEW r \in LinkCallers, In(r, "idle"), NEW v, requests' = [requests EXCEPT ![r] = v],
           v.token = made + 1, v.pc \in {"insert", "replace"}, made' = made + 1,
           UNCHANGED <<clients, given, asked, deaths>>,
           \A l \in Links : links[l] # "none" => links'[l] = links[l],
           v.pc = "insert" => v.link \in Links /\ links'[v.link] # "none",
           v.pc = "replace" => /\ v.link = 0 /\ ~v.own /\ v.client \in DOMAIN clients
                               /\ \A q \in LinkCallers : requests[q].client # v.client,
           v.old # 0 => v.own /\ links[v.old] # "none",
           v.own => links[v.link] = "none" /\ v.old # v.link /\ links'[v.link] = "active",
           \A q \in LinkCallers : requests[q].own => requests[q].link # v.link /\ requests[q].link # v.old
    PROVE  LinkInv'
<1>0. requests'[r] = v /\ (\A q \in LinkCallers : q # r => requests'[q] = requests[q]) /\ requests[r] \in Request
  BY DEF LinkInv, LinkTypeOK
<1>1. made \in Nat /\ NoToken <= made' /\ LinkStep(NoToken, {}, 0) /\ deaths \in Nat
  BY LinkParameters DEF LinkInv, LinkTypeOK, NoToken, LinkStep, ClientStep
<1>2. \A q \in LinkCallers : q # r => LinkRequestHolds(q)'
  <2> SUFFICES ASSUME NEW q \in LinkCallers, q # r PROVE LinkRequestHolds(q)'
    OBVIOUS
  <2>1. ~In(q, "idle") => /\ requests[q].token # NoToken
                          /\ requests[q].own => requests[q].link # 0
    BY TokenIsMade DEF LinkInv, LinkRequestHolds, OwnHolds, Links
  <2> QED BY <1>0, <1>1, <2>1, OthersKept
<1>3. LinkRequestHolds(r)'
  <2>1. v.token \in 1..made' /\ v.token \notin 0..made /\ v.token \notin 1..made
    BY <1>1
  <2>2. v.token \notin given /\ v.token \notin DOMAIN clients
        /\ \A k \in DOMAIN clients : clients[k].hash # v.token /\ clients[k].sealed # v.token
    BY <2>1 DEF LinkInv, LinkClientHolds
  <2>3. v.own => OwnHolds(r)'
    <3>1. v.own => \A k \in DOMAIN clients : clients[k].link # v.link
      BY DEF LinkInv, LinkClientHolds
    <3>2. v.own => v.link \in Links /\ v.old # v.link /\ links'[v.link] = "active"
      OBVIOUS
    <3> QED BY <1>0, <3>1, <3>2 DEF OwnHolds
  <2>4. /\ IF v.pc = "replace" THEN v.link = 0 ELSE v.link \in Links /\ links'[v.link] # "none"
        /\ v.old # 0 => links'[v.old] # "none"
        /\ v.pc \in {"cleanup", "retire"} \/ v.old # 0 => v.own
        /\ v.own => v.pc # "replace"
        /\ v.pc = "replace" => v.client \in DOMAIN clients'
    <3>1. v.old \in Links \cup {0}
      BY <1>0 DEF LinkTypeOK, Request
    <3> QED BY <3>1
  <2> QED BY <1>0, <2>1, <2>2, <2>3, <2>4 DEF LinkRequestHolds, In
<1>4. \A p, s \in LinkCallers : ApartLinks(p, s)'
  BY ApartStarted
<1>5. \A k \in DOMAIN clients' : LinkClientHolds(k)'
  <2>1. \A k : ~InHand(r, k)
    BY DEF InHand, In
  <2> QED BY <1>0, <1>1, <2>1, ClientsKept
<1>6. (given \subseteq 1..made)'
  BY <1>1 DEF LinkInv
<1> QED BY <1>2, <1>3, <1>4, <1>5, <1>6 DEF LinkInv

LEMMA NewLinkIs ==
    ASSUME SomeLinkIsFree
    PROVE  NewLink \in Links /\ links[NewLink] = "none"
BY DEF SomeLinkIsFree, NewLink

LEMMA CreateLinkKeeps ==
    ASSUME LinkInv, LinkTypeOK', NEW r \in LinkCallers, CreateLink(r, 1)
    PROVE  LinkInv'
<1>1. UNCHANGED <<requests, made, given, deaths, clients, asked>>
  BY DEF CreateLink
<1>2. \A l \in Links : links[l] # "none" => links'[l] = links[l]
  BY NewLinkIs DEF CreateLink, LinkInv, LinkTypeOK
<1>3. LinkStep(NoToken, {}, 0)
  BY <1>1, <1>2 DEF LinkStep, ClientStep, LinkInv, LinkTypeOK
<1> QED BY <1>1, <1>3, RequestsRest

LEMMA RevokeLinkKeeps ==
    ASSUME LinkInv, LinkTypeOK', NEW l \in Links, RevokeLink(l)
    PROVE  LinkInv'
<1>1. UNCHANGED <<requests, made, given, deaths>> /\ asked' /\ made <= made'
  BY DEF RevokeLink, LinkInv, LinkTypeOK
<1>2. /\ links' = [links EXCEPT ![l] = "revoked"]
      /\ clients' = [k \in DOMAIN clients |-> IF k \in ActiveOf(l) THEN Burn(k) ELSE clients[k]]
  BY DEF RevokeLink, revoke_vpn_link
<1>3. \A k \in DOMAIN clients : ClientStep(k, NoToken, {}) /\ (clients'[k].active => clients'[k] = clients[k])
  <2> SUFFICES ASSUME NEW k \in DOMAIN clients
               PROVE  ClientStep(k, NoToken, {}) /\ (clients'[k].active => clients'[k] = clients[k])
    OBVIOUS
  <2>1. k \in DOMAIN clients' /\ clients'[k] \in {clients[k], Burn(k)} /\ clients[k] \in Client
    BY <1>2 DEF LinkInv, LinkTypeOK
  <2>2. /\ ~Burn(k).active /\ Burn(k).hash = NoToken
        /\ Burn(k).sealed = clients[k].sealed /\ Burn(k).link = clients[k].link
    BY <2>1 DEF Burn, Client
  <2> QED BY <1>1, <2>1, <2>2 DEF ClientStep
<1>4. \A j \in Links : links[j] # "none" => links'[j] # "none"
  BY <1>2 DEF LinkInv, LinkTypeOK
<1>5. LinkStep(NoToken, {}, 0) /\ DOMAIN clients' = DOMAIN clients
  BY <1>1, <1>2, <1>3, <1>4 DEF LinkStep
<1> QED BY <1>1, <1>3, <1>5, RequestsRest

LEMMA RevokeDeviceKeeps ==
    ASSUME LinkInv, LinkTypeOK', NEW k0 \in Token, revoke_external_vpn_device(k0)
    PROVE  LinkInv'
<1>1. UNCHANGED <<requests, made, given, deaths, links>> /\ asked' /\ made <= made'
  BY DEF revoke_external_vpn_device, LinkInv, LinkTypeOK
<1>2. clients' = [clients EXCEPT ![k0] = Burn(k0)]
  BY DEF revoke_external_vpn_device
<1>3. \A k \in DOMAIN clients : ClientStep(k, NoToken, {}) /\ (clients'[k].active => clients'[k] = clients[k])
  <2> SUFFICES ASSUME NEW k \in DOMAIN clients
               PROVE  ClientStep(k, NoToken, {}) /\ (clients'[k].active => clients'[k] = clients[k])
    OBVIOUS
  <2>1. k \in DOMAIN clients' /\ clients'[k] \in {clients[k], Burn(k)} /\ clients[k] \in Client
    BY <1>2 DEF LinkInv, LinkTypeOK
  <2>2. /\ ~Burn(k).active /\ Burn(k).hash = NoToken
        /\ Burn(k).sealed = clients[k].sealed /\ Burn(k).link = clients[k].link
    BY <2>1 DEF Burn, Client
  <2> QED BY <1>1, <2>1, <2>2 DEF ClientStep
<1>4. LinkStep(NoToken, {}, 0) /\ DOMAIN clients' = DOMAIN clients
  BY <1>1, <1>2, <1>3 DEF LinkStep
<1> QED BY <1>1, <1>3, <1>4, RequestsRest

LEMMA UpdateLinkKeeps ==
    ASSUME LinkInv, LinkTypeOK', NEW l, NEW n, update_vpn_link(l, n)
    PROVE  LinkInv'
<1>1. UNCHANGED <<links, clients, made, given, asked, requests, deaths>>
  BY DEF update_vpn_link
<1>2. made <= made'
  BY <1>1 DEF LinkInv, LinkTypeOK
<1>3. LinkStep(NoToken, {}, 0)
  BY <1>1, <1>2, NothingStep
<1> QED BY <1>1, <1>3, RequestsRest

LEMMA CreateClientKeeps ==
    ASSUME LinkInv, LinkTypeOK', ~EarlyUse, NEW r \in LinkCallers, NEW l \in Links, CreateClient(r, l)
    PROVE  LinkInv'
<1> DEFINE v == [NoRequest EXCEPT !.pc = "insert", !.link = l, !.token = made + 1]
<1>1. /\ requests' = [requests EXCEPT ![r] = v] /\ In(r, "idle") /\ made' = made + 1
      /\ UNCHANGED <<links, clients, given, asked, deaths>>
  BY DEF CreateClient
<1>2. v.token = made + 1 /\ v.pc = "insert" /\ v.link = l /\ v.old = 0 /\ v.own = FALSE
  BY DEF NoRequest
<1>3. links[l] = "active" /\ \A q \in LinkCallers : requests[q].own => requests[q].link # l
  BY DEF CreateClient, Usable
<1>4. \A q \in LinkCallers : requests[q].own => requests[q].link # 0
  BY DEF LinkInv, LinkRequestHolds, OwnHolds, Links
<1> HIDE DEF v
<1> QED BY <1>1, <1>2, <1>3, <1>4, Starts

LEMMA StartLinkKeeps ==
    ASSUME LinkInv, LinkTypeOK', ~EarlyUse, NEW r \in LinkCallers, NEW old \in Links \cup {0}, StartLink(r, old)
    PROVE  LinkInv'
<1> DEFINE v == [NoRequest EXCEPT !.pc = "insert", !.link = NewLink, !.old = old, !.own = TRUE, !.token = made + 1]
<1>1. /\ requests' = [requests EXCEPT ![r] = v] /\ In(r, "idle") /\ made' = made + 1
      /\ UNCHANGED <<clients, given, asked, deaths>>
  BY DEF StartLink
<1>2. v.token = made + 1 /\ v.pc = "insert" /\ v.link = NewLink /\ v.old = old /\ v.own = TRUE
  BY DEF NoRequest
<1>3. NewLink \in Links /\ links[NewLink] = "none"
  BY NewLinkIs DEF StartLink
<1>4. links'[NewLink] = "active" /\ \A l \in Links : links[l] # "none" => links'[l] = links[l]
  BY <1>3 DEF StartLink, LinkInv, LinkTypeOK
<1>5. old # 0 => links[old] = "active" /\ \A q \in LinkCallers : requests[q].own => requests[q].link # old
  BY DEF StartLink, Usable
<1>6. \A q \in LinkCallers : requests[q].own => requests[q].link # 0 /\ links[requests[q].link] # "none"
  BY DEF LinkInv, LinkRequestHolds, OwnHolds, Links
<1>7. old # NewLink
  BY <1>3, <1>5 DEF Links
<1> HIDE DEF v
<1>8. /\ v.link \in Links /\ links'[v.link] # "none"
      /\ v.old # 0 => v.own /\ links[v.old] # "none"
      /\ links[v.link] = "none" /\ v.old # v.link /\ links'[v.link] = "active"
  BY <1>2, <1>3, <1>4, <1>5, <1>7
<1>9. \A q \in LinkCallers : requests[q].own => requests[q].link # v.link /\ requests[q].link # v.old
  BY <1>2, <1>3, <1>5, <1>6
<1> QED BY <1>1, <1>2, <1>4, <1>8, <1>9, Starts

LEMMA AskReplaceKeeps ==
    ASSUME LinkInv, LinkTypeOK', ~EarlyUse, NEW r \in LinkCallers, NEW k \in Token, AskReplace(r, k)
    PROVE  LinkInv'
<1> DEFINE v == [NoRequest EXCEPT !.pc = "replace", !.client = k, !.token = made + 1]
<1>1. /\ requests' = [requests EXCEPT ![r] = v] /\ In(r, "idle") /\ made' = made + 1
      /\ UNCHANGED <<links, clients, given, asked, deaths>>
  BY DEF AskReplace
<1>2. v.token = made + 1 /\ v.pc = "replace" /\ v.link = 0 /\ v.old = 0 /\ v.own = FALSE /\ v.client = k
  BY DEF NoRequest
<1>3. k \in DOMAIN clients /\ \A q \in LinkCallers : requests[q].client # k
  BY DEF AskReplace, Active
<1>4. \A q \in LinkCallers : requests[q].own => requests[q].link # 0
  BY DEF LinkInv, LinkRequestHolds, OwnHolds, Links
<1> HIDE DEF v
<1> QED BY <1>1, <1>2, <1>3, <1>4, Starts

\* A request that cleans up has no client that opens with another token than its own.
LEMMA CleanupHolds ==
    ASSUME LinkInv, NEW r \in LinkCallers, In(r, "insert") \/ In(r, "compare"), requests[r].own, Does(r, "cleanup"),
           UNCHANGED <<links, clients, made, given, asked>>
    PROVE  \E v : /\ requests' = [requests EXCEPT ![r] = v]
                  /\ v.token = requests[r].token /\ v.own = requests[r].own
                  /\ v.link = requests[r].link /\ v.old = requests[r].old /\ v.pc # "replace"
                  /\ LinkRequestHolds(r)'
<1> DEFINE v == [requests[r] EXCEPT !.pc = "cleanup"]
           t == requests[r].token
<1>1. LinkRequestHolds(r) /\ requests[r] \in Request
  BY DEF LinkInv, LinkTypeOK
<1>2. requests' = [requests EXCEPT ![r] = v] /\ requests'[r] = v
  BY DEF Does, LinkInv, LinkTypeOK
<1>3. /\ v.pc = "cleanup" /\ v.token = requests[r].token /\ v.own = requests[r].own
      /\ v.link = requests[r].link /\ v.old = requests[r].old /\ v.client = requests[r].client
  BY <1>1 DEF Request
<1> HIDE DEF v
<1>4. OwnHolds(r)'
  BY <1>1, <1>2, <1>3 DEF LinkRequestHolds, OwnHolds, In
<1>5. /\ t \in 1..made /\ t \notin given
      /\ t \in DOMAIN clients =>
             /\ v.client = t /\ clients[t].link = v.link
             /\ clients[t].active => clients[t].hash = t
      /\ \A k \in DOMAIN clients : (clients[k].hash = t => k = t) /\ clients[k].sealed # t
  BY <1>1, <1>3 DEF LinkRequestHolds, In
<1>6. v.link \in Links /\ links[v.link] # "none" /\ (v.old # 0 => links[v.old] # "none") /\ v.own
  BY <1>1, <1>3 DEF LinkRequestHolds, In
<1>7. v.token = t
  BY <1>3
<1>8. LinkRequestHolds(r)'
  <2> HIDE DEF t
  <2> QED BY <1>2, <1>3, <1>4, <1>5, <1>6, <1>7 DEF LinkRequestHolds, In
<1> QED BY <1>2, <1>3, <1>8

LEMMA AnswersHolds ==
    ASSUME LinkTypeOK, NEW r \in LinkCallers, Answers(r)
    PROVE  /\ requests' = [requests EXCEPT ![r] = NoRequest] /\ NoRequest.pc = "idle"
           /\ \A q \in LinkCallers : q # r => requests'[q] = requests[q]
           /\ LinkRequestHolds(r)'
<1>1. requests' = [requests EXCEPT ![r] = NoRequest] /\ requests'[r] = NoRequest
  BY DEF Answers, LinkTypeOK
<1> QED BY <1>1, NoRequestIs DEF LinkRequestHolds, In, NoRequest, LinkTypeOK

\* A request that fails leaves no client that opens and that nobody answers for.
LEMMA FailsKeeps ==
    ASSUME LinkInv, LinkTypeOK', NEW r \in LinkCallers, In(r, "insert") \/ In(r, "compare"), Fails(r),
           UNCHANGED <<links, clients, made, given, asked, deaths>>,
           In(r, "compare") => clients[requests[r].client].hash # requests[r].token
    PROVE  LinkInv'
<1>1. LinkRequestHolds(r) /\ LinkTypeOK /\ deaths <= deaths' /\ ~In(r, "idle")
  BY LinkParameters DEF LinkInv, LinkTypeOK, In
<1>2. \A k \in DOMAIN clients : ~(clients[k].active /\ InHand(r, k))
  BY <1>1 DEF LinkRequestHolds, InHand, In
<1>3. CASE requests[r].own
  BY <1>1, <1>2, <1>3, CleanupHolds, Proceeds DEF Fails
<1>4. CASE ~requests[r].own
  BY <1>1, <1>2, <1>4, AnswersHolds, Proceeds DEF Fails
<1> QED BY <1>3, <1>4

LEMMA RequestDiesKeeps ==
    ASSUME LinkInv, LinkTypeOK', NEW r \in LinkCallers, NEW caught, RequestDies(r, caught)
    PROVE  LinkInv'
<1>1. LinkTypeOK /\ deaths <= deaths' /\ deaths' # 0 /\ ~In(r, "idle") /\ UNCHANGED <<links, clients, made, given, asked>>
  BY LinkParameters DEF LinkInv, LinkTypeOK, RequestDies
<1>2. CASE caught /\ requests[r].own /\ requests[r].pc \in {"insert", "compare"}
  BY <1>1, <1>2, CleanupHolds, Proceeds DEF RequestDies, In
<1>3. CASE ~(caught /\ requests[r].own /\ requests[r].pc \in {"insert", "compare"})
  BY <1>1, <1>3, AnswersHolds, Proceeds DEF RequestDies
<1> QED BY <1>2, <1>3

LEMMA CompareKeeps ==
    ASSUME LinkInv, LinkTypeOK', NEW r \in LinkCallers, Compare(r)
    PROVE  LinkInv'
<1>1. UNCHANGED <<links, clients, made, given, asked, deaths>> /\ In(r, "compare") /\ ~In(r, "idle")
  BY DEF Compare, In
<1>2. LinkRequestHolds(r) /\ requests[r] \in Request /\ LinkTypeOK /\ deaths <= deaths'
  BY <1>1, LinkParameters DEF LinkInv, LinkTypeOK
<1>3. CASE clients[requests[r].client].hash # requests[r].token
  BY <1>1, <1>3, FailsKeeps DEF Compare
<1>4. CASE clients[requests[r].client].hash = requests[r].token
  <2> DEFINE v == [requests[r] EXCEPT !.pc = "store"]
             t == requests[r].token
  <2>1. requests' = [requests EXCEPT ![r] = v] /\ requests'[r] = v
    BY <1>2, <1>4 DEF Compare, Does, LinkTypeOK
  <2>2. /\ v.pc = "store" /\ v.token = t /\ v.own = requests[r].own
        /\ v.link = requests[r].link /\ v.old = requests[r].old /\ v.client = requests[r].client
    BY <1>2 DEF Request
  <2> HIDE DEF v
  <2>3. v.client \in DOMAIN clients /\ v.client = t
    BY <1>1, <1>2, <1>4, <2>2 DEF LinkRequestHolds, In
  <2>4. v.own => OwnHolds(r)'
    BY <1>1, <1>2, <2>1, <2>2 DEF LinkRequestHolds, OwnHolds, In
  <2>5. /\ t \in 1..made /\ t \notin given
        /\ clients[t].link = v.link /\ (clients[t].active => clients[t].hash = t)
        /\ \A k \in DOMAIN clients : (clients[k].hash = t => k = t) /\ clients[k].sealed # t
    BY <1>1, <1>2, <2>2, <2>3 DEF LinkRequestHolds, In
  <2>6. /\ v.link \in Links /\ links[v.link] # "none" /\ (v.old # 0 => links[v.old] # "none")
        /\ (v.old # 0 => v.own)
    BY <1>1, <1>2, <2>2 DEF LinkRequestHolds, In
  <2>7. LinkRequestHolds(r)'
    <3> HIDE DEF t
    <3> QED BY <1>1, <2>1, <2>2, <2>3, <2>4, <2>5, <2>6 DEF LinkRequestHolds, In
  <2>8. \A k \in DOMAIN clients : InHand(r, k) => InHand(r, k)'
    BY <2>1, <2>2 DEF InHand
  <2> QED BY <1>1, <1>2, <2>1, <2>2, <2>7, <2>8, Proceeds
<1> QED BY <1>3, <1>4

LEMMA CreateKeeps ==
    ASSUME LinkInv, LinkTypeOK', NEW r \in LinkCallers, NEW key \in LinkCallers, create_vpn_link_client(r, key)
    PROVE  LinkInv'
<1> DEFINE l == requests[r].link
           t == requests[r].token
           new == [link |-> l, active |-> TRUE, hash |-> t, sealed |-> NoToken, key |-> key]
           ask(k) == [requests[r] EXCEPT !.pc = "compare", !.client = k]
<1>1. In(r, "insert") /\ ~In(r, "idle") /\ UNCHANGED <<links, capacity, made, given, asked, deaths>>
  BY DEF create_vpn_link_client, In
<1>2. LinkRequestHolds(r) /\ requests[r] \in Request /\ LinkTypeOK /\ deaths <= deaths' /\ made <= made'
  BY <1>1, LinkParameters DEF LinkInv, LinkTypeOK
<1>3. t \notin DOMAIN clients /\ t \in 1..made /\ t \in Token /\ t # NoToken /\ t \notin given /\ t <= made'
      /\ l \in Links /\ links[l] # "none"
  BY <1>1, <1>2, TokenIsMade DEF LinkRequestHolds, In
<1>4. \A k \in DOMAIN clients : clients[k].hash # t /\ clients[k].sealed # t
  BY <1>1, <1>2, <1>3 DEF LinkRequestHolds
<1>5. \A k : /\ ask(k).pc = "compare" /\ ask(k).token = t /\ ask(k).own = requests[r].own
             /\ ask(k).link = l /\ ask(k).old = requests[r].old /\ ask(k).client = k
  BY <1>2 DEF Request
<1>6. requests[r].old # 0 => links[requests[r].old] # "none" /\ requests[r].own
  BY <1>1, <1>2 DEF LinkRequestHolds
<1>7. \A k : ~InHand(r, k)
  BY <1>1 DEF InHand, In
<1>8. CASE Fails(r) /\ UNCHANGED clients
  BY <1>1, <1>8, FailsKeeps DEF In
<1>9. ASSUME NEW k \in DOMAIN clients, ~requests[r].own, UNCHANGED clients,
             requests' = [requests EXCEPT ![r].pc = "compare", ![r].client = k]
      PROVE  LinkInv'
  <2> DEFINE v == ask(k)
  <2>1. requests' = [requests EXCEPT ![r] = v] /\ requests'[r] = v
    BY <1>2, <1>9 DEF LinkTypeOK
  <2>2. v.pc = "compare" /\ v.token = t /\ v.own = requests[r].own /\ ~v.own /\ v.link = l
        /\ v.old = requests[r].old /\ v.client = k
    BY <1>2, <1>5, <1>9 DEF Request
  <2> HIDE DEF v
  <2>3. LinkRequestHolds(r)'
    <3>1. /\ t \in 1..made' /\ t \notin given' /\ t \notin DOMAIN clients' /\ k \in DOMAIN clients'
          /\ \A j \in DOMAIN clients' : clients'[j].hash # t /\ clients'[j].sealed # t
          /\ l \in Links /\ links'[l] # "none" /\ v.old = 0
      BY <1>1, <1>3, <1>4, <1>6, <1>9, <2>2
    <3> HIDE DEF t, l
    <3> QED BY <2>1, <2>2, <3>1 DEF LinkRequestHolds, In
  <2> QED BY <1>1, <1>2, <1>7, <1>9, <2>1, <2>2, <2>3, Proceeds
<1>10. ASSUME links[l] = "active",
              clients' = [k \in DOMAIN clients \cup {t} |-> IF k = t THEN new ELSE clients[k]],
              requests' = [requests EXCEPT ![r].pc = "compare", ![r].client = t]
       PROVE  LinkInv'
  <2> DEFINE v == ask(t)
  <2>1. requests' = [requests EXCEPT ![r] = v] /\ requests'[r] = v /\ \A q \in LinkCallers : q # r => requests'[q] = requests[q]
    BY <1>2, <1>10 DEF LinkTypeOK
  <2>2. v.pc = "compare" /\ v.token = t /\ v.own = requests[r].own /\ v.link = l /\ v.old = requests[r].old /\ v.client = t
    BY <1>5
  <2>3. /\ DOMAIN clients' = DOMAIN clients \cup {t} /\ \A k \in DOMAIN clients : clients'[k] = clients[k]
        /\ clients'[t].link = l /\ clients'[t].active = TRUE /\ clients'[t].hash = t /\ clients'[t].sealed = NoToken
    BY <1>3, <1>10
  <2> HIDE DEF v
  <2>4. LinkStep(t, {}, l)
    BY <1>1, <1>2, <2>3 DEF LinkStep, ClientStep
  <2>5. \A q \in LinkCallers : q # r => LinkRequestHolds(q)'
    <3> SUFFICES ASSUME NEW q \in LinkCallers, q # r PROVE LinkRequestHolds(q)'
      OBVIOUS
    <3>1. ~In(q, "idle") => requests[q].token # t /\ (requests[q].own => requests[q].link # l)
      BY <1>1, OthersApart
    <3>2. requests[q].token \in DOMAIN clients =>
              clients'[requests[q].token].hash = clients[requests[q].token].hash
      BY <2>3
    <3> HIDE DEF t, l
    <3> QED BY <1>3, <2>1, <2>4, <3>1, <3>2, OthersKept
  <2>6. v.own => OwnHolds(r)'
    <3>1. v.own => /\ l \in Links /\ v.old # l /\ (~asked => links[l] = "active")
                   /\ \A k \in DOMAIN clients : clients[k].link # l
      BY <1>1, <1>2, <1>3, <2>2 DEF LinkRequestHolds, OwnHolds, In
    <3>2. v.own => \A k \in DOMAIN clients' : clients'[k].link = l => k = t
      BY <2>3, <3>1
    <3> HIDE DEF l, t
    <3> QED BY <1>1, <2>1, <2>2, <2>3, <3>1, <3>2 DEF OwnHolds
  <2>7. \A k \in DOMAIN clients' : (clients'[k].hash = t => k = t) /\ clients'[k].sealed # t
    BY <1>3, <1>4, <2>3
  <2>8. LinkRequestHolds(r)'
    <3> HIDE DEF t, l
    <3> QED BY <1>1, <1>3, <1>6, <2>1, <2>2, <2>3, <2>6, <2>7 DEF LinkRequestHolds, In
  <2>9. \A p, s \in LinkCallers : ApartLinks(p, s)'
    BY <1>1, <2>1, <2>2, ApartKept
  <2>10. \A k \in DOMAIN clients' : LinkClientHolds(k)'
    <3>1. \A k : k = t => InHand(r, k)'
      BY <2>1, <2>2 DEF InHand
    <3> HIDE DEF t, l
    <3>2. l # 0 => t # NoToken /\ links'[l] # "none"
      BY <1>1, <1>3
    <3>3. l # 0
      BY <1>3 DEF Links
    <3>4. \A k \in DOMAIN clients' : clients'[k].active =>
              \/ /\ k \in DOMAIN clients /\ clients'[k] = clients[k]
                 /\ InHand(r, k) => InHand(r, k)' \/ deaths' # 0 \/ clients[k].hash \in given'
              \/ /\ clients'[k].hash # NoToken /\ clients'[k].sealed \in {NoToken, clients'[k].hash}
                 /\ clients'[k].hash \in given' \/ (r \in LinkCallers /\ InHand(r, k)')
      BY <1>3, <1>7, <2>3, <3>1
    <3> QED BY <1>1, <1>2, <1>3, <2>1, <2>4, <3>2, <3>3, <3>4, ClientsKept
  <2>11. (given \subseteq 1..made)'
    BY <1>1 DEF LinkInv
  <2> QED BY <2>1, <2>5, <2>8, <2>9, <2>10, <2>11 DEF LinkInv
<1> HIDE DEF l, t, new, ask
<1> QED BY <1>8, <1>9, <1>10 DEF create_vpn_link_client, l, t, new

\* Revoking a link closes its clients, and leaves the others as they are.
LEMMA RevokedLink ==
    ASSUME LinkTypeOK, NEW l \in Links, revoke_vpn_link(l), UNCHANGED asked, made <= made',
           NEW t, given' \subseteq given \cup {t}
    PROVE  /\ LinkStep(t, {l}, 0) /\ DOMAIN clients' = DOMAIN clients
           /\ \A k \in DOMAIN clients : /\ clients'[k].active => clients'[k] = clients[k]
                                        /\ clients[k].link # l => clients'[k] = clients[k]
<1>1. CASE links[l] # "active"
  BY <1>1 DEF revoke_vpn_link, LinkStep, ClientStep
<1>2. CASE links[l] = "active"
  <2>1. /\ links' = [links EXCEPT ![l] = "revoked"]
        /\ clients' = [k \in DOMAIN clients |-> IF k \in ActiveOf(l) THEN Burn(k) ELSE clients[k]]
    BY <1>2 DEF revoke_vpn_link
  <2>2. \A k \in DOMAIN clients : /\ ClientStep(k, t, {l}) /\ (clients'[k].active => clients'[k] = clients[k])
                                  /\ clients[k].link # l => clients'[k] = clients[k]
    BY <2>1 DEF ClientStep, Burn, ActiveOf, LinkTypeOK, Client
  <2>3. \A j \in Links : (links[j] # "none" => links'[j] # "none") /\ (j # l => links'[j] = links[j])
    BY <2>1 DEF LinkTypeOK
  <2> QED BY <2>1, <2>2, <2>3 DEF LinkStep
<1> QED BY <1>1, <1>2

\* A request that answers, having given its token or revoked the link that it created or left.
LEMMA AnswersKeeps ==
    ASSUME LinkInv, LinkTypeOK', NEW r \in LinkCallers, ~In(r, "idle"), Answers(r),
           UNCHANGED <<made, deaths>>, given \subseteq given',
           NEW gone \in SUBSET {requests[r].link, requests[r].old}, gone \subseteq Links,
           LinkStep(requests[r].token, gone, 0), DOMAIN clients' = DOMAIN clients,
           \A k \in DOMAIN clients : k # requests[r].token /\ clients'[k].active /\ clients'[k].hash # clients[k].hash =>
               In(r, "replace") /\ k = requests[r].client,
           \A k \in DOMAIN clients' : clients'[k].active =>
               \/ clients'[k] = clients[k] /\ (InHand(r, k) => clients[k].hash \in given')
               \/ /\ clients'[k].hash = requests[r].token /\ clients'[k].sealed \in {NoToken, requests[r].token}
                  /\ requests[r].token \in given'
    PROVE  LinkInv'
<1> DEFINE t == requests[r].token
<1>1. /\ requests' = [requests EXCEPT ![r] = NoRequest] /\ NoRequest.pc = "idle" /\ LinkRequestHolds(r)'
      /\ \A q \in LinkCallers : q # r => requests'[q] = requests[q]
  BY AnswersHolds DEF LinkInv
<1>2. t \in 1..made /\ t \in Token /\ t # NoToken /\ t <= made' /\ deaths <= deaths'
  BY TokenIsMade, LinkParameters DEF LinkInv, LinkTypeOK
<1>3. \A q \in LinkCallers : q # r => LinkRequestHolds(q)'
  <2> SUFFICES ASSUME NEW q \in LinkCallers, q # r PROVE LinkRequestHolds(q)'
    OBVIOUS
  <2>1. ~In(q, "idle") => /\ requests[q].token # t
                          /\ requests[q].own => requests[q].link \notin gone /\ requests[q].link # 0
                          /\ requests[q].token \in DOMAIN clients =>
                                 (clients'[requests[q].token].active =>
                                  clients'[requests[q].token].hash = clients[requests[q].token].hash)
    <3> SUFFICES ASSUME ~In(q, "idle")
                 PROVE  /\ requests[q].token # t
                        /\ requests[q].own => requests[q].link \notin gone /\ requests[q].link # 0
                        /\ requests[q].token \in DOMAIN clients =>
                               (clients'[requests[q].token].active =>
                                clients'[requests[q].token].hash = clients[requests[q].token].hash)
      OBVIOUS
    <3>1. /\ requests[q].token # t
          /\ requests[q].own => requests[r].link # requests[q].link /\ requests[r].old # requests[q].link
          /\ In(r, "replace") => requests[r].client # requests[q].token
      BY OthersApart
    <3>2. requests[q].own => requests[q].link # 0
      BY DEF LinkInv, LinkRequestHolds, OwnHolds, Links
    <3> QED BY <3>1, <3>2
  <2> QED BY <1>1, <1>2, <2>1, OthersKept
<1>4. \A p, s \in LinkCallers : ApartLinks(p, s)'
  BY <1>1, ApartKept
<1>5. \A k \in DOMAIN clients' : LinkClientHolds(k)'
  <2>1. \A k \in DOMAIN clients' : clients'[k].active =>
            \/ /\ k \in DOMAIN clients /\ clients'[k] = clients[k]
               /\ InHand(r, k) => InHand(r, k)' \/ deaths' # 0 \/ clients[k].hash \in given'
            \/ /\ clients'[k].hash # NoToken /\ clients'[k].sealed \in {NoToken, clients'[k].hash}
               /\ clients'[k].hash \in given' \/ (r \in LinkCallers /\ InHand(r, k)')
    BY <1>2
  <2> HIDE DEF t
  <2> QED BY <1>1, <1>2, <2>1, ClientsKept DEF t
<1>6. (given \subseteq 1..made)'
  BY <1>2 DEF LinkInv, LinkStep
<1> QED BY <1>1, <1>3, <1>4, <1>5, <1>6 DEF LinkInv

LEMMA CleanupKeeps ==
    ASSUME LinkInv, LinkTypeOK', NEW r \in LinkCallers, Cleanup(r)
    PROVE  LinkInv'
<1> DEFINE l == requests[r].link
<1>1. /\ In(r, "cleanup") /\ ~In(r, "idle") /\ revoke_vpn_link(l) /\ Answers(r)
      /\ UNCHANGED <<made, given, asked, deaths>>
  BY DEF Cleanup, In
<1>2. LinkRequestHolds(r) /\ LinkTypeOK /\ made <= made'
  BY <1>1 DEF LinkInv, LinkTypeOK
<1>3. l \in Links
  BY <1>1, <1>2 DEF LinkRequestHolds, In
<1> HIDE DEF l
<1>4. /\ LinkStep(requests[r].token, {l}, 0) /\ DOMAIN clients' = DOMAIN clients
      /\ \A k \in DOMAIN clients : clients'[k].active => clients'[k] = clients[k]
  BY <1>1, <1>2, <1>3, RevokedLink
<1>5. \A k : ~InHand(r, k)
  BY <1>1 DEF InHand, In
<1>6. {l} \in SUBSET {requests[r].link, requests[r].old} /\ {l} \subseteq Links
  BY <1>3 DEF l
<1> QED BY <1>1, <1>4, <1>5, <1>6, AnswersKeeps

LEMMA RetireOldKeeps ==
    ASSUME LinkInv, LinkTypeOK', NEW r \in LinkCallers, RetireOld(r)
    PROVE  LinkInv'
<1> DEFINE l == requests[r].old
           t == requests[r].token
<1>1. /\ In(r, "retire") /\ ~In(r, "idle") /\ revoke_vpn_link(l) /\ Answers(r)
      /\ UNCHANGED <<made, asked, deaths>> /\ given' = given \cup {t}
  BY DEF RetireOld, In
<1>2. LinkRequestHolds(r) /\ LinkTypeOK /\ made <= made' /\ requests[r] \in Request
  BY <1>1 DEF LinkInv, LinkTypeOK
<1>3. l \in Links
  BY <1>1, <1>2 DEF LinkRequestHolds, In, Request
<1>4. \A k : InHand(r, k) => k = t
  BY DEF InHand
<1>5. \A k \in DOMAIN clients : k = t /\ clients[k].active => clients[k].hash = t
  BY <1>1, <1>2 DEF LinkRequestHolds, In
<1> HIDE DEF l, t
<1>6. /\ LinkStep(t, {l}, 0) /\ DOMAIN clients' = DOMAIN clients
      /\ \A k \in DOMAIN clients : clients'[k].active => clients'[k] = clients[k]
  BY <1>1, <1>2, <1>3, RevokedLink
<1>7. \A k \in DOMAIN clients' : clients'[k].active => clients'[k] = clients[k] /\ (InHand(r, k) => clients[k].hash \in given')
  BY <1>1, <1>4, <1>5, <1>6
<1>8. {l} \in SUBSET {requests[r].link, requests[r].old} /\ {l} \subseteq Links
  BY <1>3 DEF l
<1>9. given \subseteq given' /\ LinkStep(requests[r].token, {l}, 0)
  BY <1>1, <1>6 DEF t
<1> QED BY <1>1, <1>6, <1>7, <1>8, <1>9, AnswersKeeps

LEMMA ReplaceKeeps ==
    ASSUME LinkInv, LinkTypeOK', NEW r \in LinkCallers, NEW done \in BOOLEAN, ReplaceAccessLink(r, done)
    PROVE  LinkInv'
<1> DEFINE c == requests[r].client
           t == requests[r].token
<1>1. /\ In(r, "replace") /\ ~In(r, "idle") /\ Answers(r) /\ UNCHANGED <<links, made, asked, deaths>>
  BY DEF ReplaceAccessLink, In
<1>2. LinkRequestHolds(r) /\ made <= made' /\ \A k : ~InHand(r, k)
  BY <1>1 DEF LinkInv, LinkTypeOK, InHand, In
<1>3. {} \in SUBSET {requests[r].link, requests[r].old} /\ {} \subseteq Links
  OBVIOUS
<1>4. CASE ~clients[c].active
  <2>1. UNCHANGED <<clients, given>>
    BY <1>4 DEF ReplaceAccessLink
  <2>2. LinkStep(t, {}, 0)
    BY <1>1, <1>2, <2>1, NothingStep
  <2> QED BY <1>1, <1>2, <1>3, <2>1, <2>2, AnswersKeeps
<1>5. CASE clients[c].active
  <2>1. clients' = [clients EXCEPT ![c].hash = t, ![c].sealed = IF done THEN t ELSE NoToken] /\ given' = given \cup {t}
    BY <1>5 DEF ReplaceAccessLink
  <2>2. c \in DOMAIN clients /\ clients[c] \in Client
    BY <1>1, <1>2 DEF LinkRequestHolds, In, LinkInv, LinkTypeOK
  <2> HIDE DEF c, t
  <2>3. /\ DOMAIN clients' = DOMAIN clients /\ \A k \in DOMAIN clients : k # c => clients'[k] = clients[k]
        /\ clients'[c].active = clients[c].active /\ clients'[c].link = clients[c].link
        /\ clients'[c].hash = t /\ clients'[c].sealed \in {NoToken, t}
    BY <2>1, <2>2 DEF Client
  <2>4. \A k \in DOMAIN clients : ClientStep(k, t, {})
    BY <2>3 DEF ClientStep
  <2>5. LinkStep(t, {}, 0)
    BY <1>1, <1>2, <2>1, <2>3, <2>4 DEF LinkStep
  <2>6. given \subseteq given' /\ t \in given'
    BY <2>1
  <2>7. \A k \in DOMAIN clients' : \/ clients'[k] = clients[k]
                                   \/ clients'[k].hash = t /\ clients'[k].sealed \in {NoToken, t} /\ k = c
    BY <2>3
  <2> QED BY <1>1, <1>2, <1>3, <2>3, <2>5, <2>6, <2>7, AnswersKeeps DEF c, t
<1> QED BY <1>4, <1>5

LEMMA StoreKeeps ==
    ASSUME LinkInv, LinkTypeOK', NEW r \in LinkCallers, NEW stored \in BOOLEAN, StoreAccessLink(r, stored)
    PROVE  LinkInv'
<1> DEFINE t == requests[r].token
<1>1. In(r, "store") /\ ~In(r, "idle") /\ UNCHANGED <<links, made, asked, deaths>>
  BY DEF StoreAccessLink, In
<1>2. LinkRequestHolds(r) /\ made <= made' /\ made \in Nat /\ requests[r] \in Request /\ LinkTypeOK /\ deaths <= deaths'
  BY <1>1, LinkParameters DEF LinkInv, LinkTypeOK
<1>3. requests[r].client = t /\ t \in DOMAIN clients /\ clients[t] \in Client
  BY <1>1, <1>2 DEF LinkRequestHolds, In, LinkTypeOK
<1>4. /\ clients[t].link = requests[r].link /\ (clients[t].active => clients[t].hash = t)
      /\ \A k \in DOMAIN clients : (clients[k].hash = t => k = t) /\ clients[k].sealed # t
  BY <1>1, <1>2, <1>3 DEF LinkRequestHolds, In
<1>5. t \in 1..made /\ t \in Token /\ t # NoToken /\ t \notin given
  BY <1>1, TokenIsMade
<1>6. clients' = IF stored THEN [clients EXCEPT ![t].sealed = t] ELSE clients
  BY <1>3 DEF StoreAccessLink
<1>7. clients[t].active => clients[t].sealed \in {NoToken, t}
  BY <1>3, <1>4 DEF LinkInv, LinkClientHolds
<1>8. given \subseteq given' /\ given' \subseteq given \cup {t}
  BY DEF StoreAccessLink
<1>9. \A k : InHand(r, k) => k = t
  BY DEF InHand
<1>10. CASE requests[r].old = 0
  <2>1. Answers(r) /\ given' = given \cup {t}
    BY <1>10 DEF StoreAccessLink
  <2>2. {} \in SUBSET {requests[r].link, requests[r].old} /\ {} \subseteq Links
    OBVIOUS
  <2> HIDE DEF t
  <2>3. /\ DOMAIN clients' = DOMAIN clients /\ \A k \in DOMAIN clients : k # t => clients'[k] = clients[k]
        /\ clients'[t].active = clients[t].active /\ clients'[t].link = clients[t].link
        /\ clients'[t].hash = clients[t].hash /\ clients'[t].sealed \in {clients[t].sealed, t}
    BY <1>3, <1>6 DEF Client
  <2>4. \A k \in DOMAIN clients : ClientStep(k, t, {})
    BY <2>3 DEF ClientStep
  <2>5. LinkStep(t, {}, 0)
    BY <1>1, <1>2, <1>8, <2>3, <2>4 DEF LinkStep
  <2>6. \A k \in DOMAIN clients' : clients'[k].active =>
               \/ clients'[k] = clients[k] /\ (InHand(r, k) => clients[k].hash \in given')
               \/ clients'[k].hash = t /\ clients'[k].sealed \in {NoToken, t} /\ t \in given'
    BY <1>4, <1>7, <1>9, <2>1, <2>3
  <2> QED BY <1>1, <1>8, <2>1, <2>2, <2>3, <2>5, <2>6, AnswersKeeps DEF t
<1>11. CASE requests[r].old # 0
  <2> DEFINE v == [requests[r] EXCEPT !.pc = "retire"]
  <2>1. /\ requests' = [requests EXCEPT ![r] = v] /\ requests'[r] = v
        /\ (\A q \in LinkCallers : q # r => requests'[q] = requests[q]) /\ UNCHANGED given
    BY <1>2, <1>11 DEF StoreAccessLink, Does, LinkTypeOK
  <2>2. /\ v.pc = "retire" /\ v.token = t /\ v.own = requests[r].own
        /\ v.link = requests[r].link /\ v.old = requests[r].old /\ v.client = t
    BY <1>2, <1>3 DEF Request
  <2> HIDE DEF v, t
  <2>3. /\ DOMAIN clients' = DOMAIN clients /\ \A k \in DOMAIN clients : k # t => clients'[k] = clients[k]
        /\ clients'[t].active = clients[t].active /\ clients'[t].link = clients[t].link
        /\ clients'[t].hash = clients[t].hash /\ clients'[t].sealed \in {clients[t].sealed, t}
    BY <1>3, <1>6 DEF Client
  <2>4. \A k \in DOMAIN clients : ClientStep(k, t, {})
    BY <2>3 DEF ClientStep
  <2>5. LinkStep(t, {}, 0)
    BY <1>1, <1>2, <1>8, <2>3, <2>4 DEF LinkStep
  <2>6. \A q \in LinkCallers : q # r => LinkRequestHolds(q)'
    <3> SUFFICES ASSUME NEW q \in LinkCallers, q # r PROVE LinkRequestHolds(q)'
      OBVIOUS
    <3>1. ~In(q, "idle") => requests[q].token # t
      BY <1>1, OthersApart DEF t
    <3>2. ~In(q, "idle") /\ requests[q].own => requests[q].link # 0
      BY DEF LinkInv, LinkRequestHolds, OwnHolds, Links
    <3>3. requests[q].token \in DOMAIN clients =>
              clients'[requests[q].token].hash = clients[requests[q].token].hash
      BY <2>3
    <3> QED BY <1>5, <2>1, <2>5, <3>1, <3>2, <3>3, OthersKept
  <2>7. requests[r].own
    BY <1>1, <1>2, <1>11 DEF LinkRequestHolds
  <2>8. OwnHolds(r)'
    <3>1. /\ v.link \in Links /\ v.old # v.link
          /\ \A k \in DOMAIN clients : clients[k].link = v.link => k = t
          /\ ~asked => links[v.link] = "active" /\ clients[t].active
      BY <1>1, <1>2, <2>2, <2>7 DEF LinkRequestHolds, OwnHolds, In, t
    <3>2. \A k \in DOMAIN clients' : clients'[k].link = v.link => k = t
      BY <2>3, <3>1
    <3> QED BY <1>1, <1>3, <2>1, <2>2, <2>3, <3>1, <3>2 DEF OwnHolds
  <2>9. LinkRequestHolds(r)'
    <3>1. /\ t \in 1..made' /\ t \notin given' /\ t \in DOMAIN clients'
          /\ clients'[t].link = v.link /\ (clients'[t].active => clients'[t].hash = t)
          /\ \A k \in DOMAIN clients' : (clients'[k].hash = t => k = t) /\ (clients'[k].sealed = t => k = t)
      BY <1>1, <1>3, <1>4, <1>5, <2>1, <2>2, <2>3
    <3>2. /\ v.link \in Links /\ links'[v.link] # "none" /\ v.old # 0 /\ links'[v.old] # "none" /\ v.own
      BY <1>1, <1>2, <1>11, <2>2, <2>7 DEF LinkRequestHolds, In
    <3> QED BY <2>1, <2>2, <2>8, <3>1, <3>2 DEF LinkRequestHolds, In
  <2>10. \A p, s \in LinkCallers : ApartLinks(p, s)'
    BY <1>1, <2>1, <2>2, ApartKept DEF t
  <2>11. \A k \in DOMAIN clients' : LinkClientHolds(k)'
    <3>1. \A k : k = t => InHand(r, k)'
      BY <2>1, <2>2 DEF InHand
    <3>2. \A k \in DOMAIN clients' : clients'[k].active =>
              \/ /\ k \in DOMAIN clients /\ clients'[k] = clients[k]
                 /\ InHand(r, k) => InHand(r, k)' \/ deaths' # 0 \/ clients[k].hash \in given'
              \/ /\ clients'[k].hash # NoToken /\ clients'[k].sealed \in {NoToken, clients'[k].hash}
                 /\ clients'[k].hash \in given' \/ (r \in LinkCallers /\ InHand(r, k)')
      BY <1>4, <1>5, <1>7, <1>9, <2>3, <3>1
    <3>3. t <= made'
      BY <1>1, <1>2, <1>5
    <3> QED BY <1>2, <1>5, <1>8, <2>1, <2>3, <2>5, <3>2, <3>3, ClientsKept
  <2>12. (given \subseteq 1..made)'
    BY <1>1, <2>1 DEF LinkInv
  <2> QED BY <2>1, <2>6, <2>9, <2>10, <2>11, <2>12 DEF LinkInv
<1> QED BY <1>10, <1>11

LEMMA LinkInitHolds == LinkInit => LinkInv
<1> SUFFICES ASSUME LinkInit PROVE LinkInv
  OBVIOUS
<1> USE LinkParameters
<1>1. PICK n \in {0, 1} :
          /\ links = [l \in Links |-> IF l <= n THEN "active" ELSE "none"] /\ capacity = [l \in Links |-> IF l <= n THEN 1 ELSE 0]
          /\ \E key \in LinkCallers : clients = [k \in 1..n |-> [link |-> 1, active |-> TRUE, hash |-> 1, sealed |-> NoToken, key |-> key]]
          /\ made = 1 /\ given = 1..n
  BY DEF LinkInit
<1>2. PICK key \in LinkCallers : clients = [k \in 1..n |-> [link |-> 1, active |-> TRUE, hash |-> 1, sealed |-> NoToken, key |-> key]]
  BY <1>1
<1>3. asked = FALSE /\ requests = [r \in LinkCallers |-> NoRequest] /\ deaths = 0
  BY DEF LinkInit
<1>4. 1 \in Links /\ 1 \in Token /\ 1..n \subseteq {1}
  BY DEF Links, Token
<1>5. \A k \in DOMAIN clients : /\ k = 1 /\ n = 1 /\ clients[k].link = 1 /\ clients[k].hash = 1 /\ clients[k].sealed = 0
                                /\ clients[k] \in Client
  BY <1>2, <1>4 DEF Client, NoToken
<1>6. LinkTypeOK
  <2>1. links \in [Links -> {"none", "active", "revoked"}]
    BY <1>1
  <2>2. capacity \in [Links -> 0..2]
    <3>1. 0 \in 0..2 /\ 1 \in 0..2
      OBVIOUS
    <3> QED BY <1>1, <3>1
  <2>3. DOMAIN clients \subseteq Token /\ given \subseteq Token
    BY <1>1, <1>2, <1>4
  <2>4. requests \in [LinkCallers -> Request]
    BY <1>3, NoRequestIs
  <2>5. made \in 0..MaxTokens /\ deaths \in 0..MaxLinkDeaths
    <3>1. MaxTokens \in Nat \ {0} /\ MaxLinkDeaths \in Nat
      OBVIOUS
    <3> QED BY <1>1, <1>3, <3>1
  <2>6. asked \in BOOLEAN
    BY <1>3
  <2> QED BY <1>5, <2>1, <2>2, <2>3, <2>4, <2>5, <2>6 DEF LinkTypeOK
<1>7. \A r \in LinkCallers : In(r, "idle") /\ ~requests[r].own
  BY <1>3 DEF In, NoRequest
<1>8. \A k \in DOMAIN clients : LinkClientHolds(k)
  <2> SUFFICES ASSUME NEW k \in DOMAIN clients PROVE LinkClientHolds(k)
    OBVIOUS
  <2>1. k = 1 /\ n = 1 /\ links[1] = "active" /\ 1 \in given /\ made = 1
    BY <1>1, <1>4, <1>5
  <2> QED BY <1>4, <1>5, <2>1 DEF LinkClientHolds, NoToken
<1>9. given \subseteq 1..made
  BY <1>1
<1> QED BY <1>6, <1>7, <1>8, <1>9 DEF LinkInv, LinkRequestHolds, ApartLinks

LEMMA LinkInvKept == ~EarlyUse /\ LinkInv /\ [LinkNext]_linkVars => LinkInv'
<1> SUFFICES ASSUME ~EarlyUse, LinkInv, [LinkNext]_linkVars PROVE LinkInv'
  OBVIOUS
<1>1. LinkTypeOK'
  BY InvHasTokens, LinkTypeKept
<1>2. CASE UNCHANGED linkVars
  BY <1>1, <1>2 DEF LinkInv, linkVars, LinkRequestHolds, OwnHolds, ApartLinks, LinkClientHolds, InHand, In
<1>3. ASSUME NEW r \in LinkCallers, LinkRequest(r) PROVE LinkInv'
  BY <1>1, <1>3, CreateLinkKeeps, CreateClientKeeps, StartLinkKeeps, CreateKeeps, CompareKeeps, CleanupKeeps,
     RetireOldKeeps, RequestDiesKeeps, StoreKeeps, ReplaceKeeps, AskReplaceKeeps DEF LinkRequest
<1> QED BY <1>1, <1>2, <1>3, RevokeLinkKeeps, UpdateLinkKeeps, RevokeDeviceKeeps DEF LinkNext

\* Once everyone has answered, nobody can be about to give a URL: the owner has it.
LEMMA InvLosesNoAccess == LinkInv => AccessNotLost
BY DEF LinkInv, LinkClientHolds, InHand, In, Idle, AccessNotLost, Active

\* A client that opens and whose URL the owner has, or can copy, stays so unless the customer asked.
LEMMA WorkingStays ==
    ASSUME LinkInv, NEW k \in Working, k \in DOMAIN clients', clients'[k].active, clients'[k].hash = clients[k].hash,
           clients'[k].sealed = clients[k].sealed, given \subseteq given'
    PROVE  k \in Working'
BY DEF Working, Active, revealAccessLink

LEMMA WorkingUnchanged ==
    ASSUME UNCHANGED <<clients, given>>
    PROVE  Working' = Working
BY DEF Working, Active, revealAccessLink

\* The client of a cleanup is not one that the owner could use.
LEMMA CleanupKeepsWorking ==
    ASSUME LinkInv, NEW r \in LinkCallers, Cleanup(r), NEW k \in Working
    PROVE  k \in Working'
<1>1. /\ In(r, "cleanup") /\ revoke_vpn_link(requests[r].link) /\ UNCHANGED <<asked, made, given>>
      /\ k \in DOMAIN clients /\ clients[k].active /\ (clients[k].hash \in given \/ revealAccessLink(k) # NoToken)
  BY DEF Cleanup, Working, Active
<1>2. LinkRequestHolds(r) /\ LinkTypeOK /\ LinkClientHolds(k) /\ made <= made'
  BY <1>1 DEF LinkInv, LinkTypeOK
<1>3. requests[r].own /\ requests[r].link \in Links /\ requests[r].token \notin given
  BY <1>1, <1>2 DEF LinkRequestHolds, In
<1>4. clients[k].link # requests[r].link
  <2> SUFFICES ASSUME clients[k].link = requests[r].link PROVE FALSE
    OBVIOUS
  <2>1. k = requests[r].token
    BY <1>1, <1>2, <1>3 DEF LinkRequestHolds, OwnHolds, In
  <2>2. clients[k].hash = k /\ clients[k].sealed # k
    BY <1>1, <1>2, <2>1 DEF LinkRequestHolds, In
  <2> QED BY <1>1, <1>3, <2>1, <2>2 DEF revealAccessLink
<1>5. /\ DOMAIN clients' = DOMAIN clients
      /\ \A j \in DOMAIN clients : clients[j].link # requests[r].link => clients'[j] = clients[j]
  BY <1>1, <1>2, <1>3, RevokedLink
<1> QED BY <1>1, <1>4, <1>5, WorkingStays

\* A link is left only for one whose client opens.
LEMMA RetireKeepsWorking ==
    ASSUME LinkInv, NEW r \in LinkCallers, RetireOld(r), ~asked
    PROVE  requests[r].token \in Working'
<1> DEFINE t == requests[r].token
<1>1. /\ In(r, "retire") /\ ~In(r, "idle") /\ revoke_vpn_link(requests[r].old) /\ UNCHANGED <<asked, made>>
      /\ given' = given \cup {t}
  BY DEF RetireOld, In
<1>2. LinkRequestHolds(r) /\ LinkTypeOK /\ made <= made' /\ requests[r] \in Request
  BY <1>1 DEF LinkInv, LinkTypeOK
<1>3. requests[r].old \in Links /\ requests[r].own /\ requests[r].old # requests[r].link
  BY <1>1, <1>2 DEF LinkRequestHolds, OwnHolds, In, Request
<1>4. t \in DOMAIN clients /\ clients[t].active /\ clients[t].link = requests[r].link /\ clients[t].hash = t
  BY <1>1, <1>2, <1>3 DEF LinkRequestHolds, OwnHolds, In
<1>5. DOMAIN clients' = DOMAIN clients /\ clients'[t] = clients[t]
  BY <1>1, <1>2, <1>3, <1>4, RevokedLink
<1> HIDE DEF t
<1>6. t \in DOMAIN clients' /\ clients'[t].active /\ clients'[t].hash \in given'
  BY <1>1, <1>4, <1>5
<1> QED BY <1>6 DEF Working, Active, t

LEMMA WorkingIsKept ==
    ASSUME ~EarlyUse, LinkInv, [LinkNext]_linkVars
    PROVE  ~asked' /\ Working # {} => Working' # {}
<1> SUFFICES ASSUME ~asked', NEW k \in Working PROVE Working' # {}
  OBVIOUS
<1>0. k \in DOMAIN clients /\ clients[k].active /\ LinkTypeOK
  BY DEF Working, Active, LinkInv
<1>1. CASE UNCHANGED <<clients, given>>
  BY <1>1, WorkingUnchanged
<1>2. ASSUME NEW r \in LinkCallers, LinkRequest(r) PROVE Working' # {}
  <2>1. CASE \/ CreateLink(r, 1) \/ Compare(r)
             \/ \E l \in Links : CreateClient(r, l)
             \/ \E old \in Links \cup {0} : StartLink(r, old)
             \/ \E done \in BOOLEAN : RequestDies(r, done)
             \/ \E j \in Token : AskReplace(r, j)
    BY <1>1, <2>1 DEF CreateLink, Compare, CreateClient, StartLink, RequestDies, AskReplace
  <2>2. ASSUME NEW key \in LinkCallers, create_vpn_link_client(r, key) PROVE Working' # {}
    <3>1. requests[r].token \notin DOMAIN clients
      BY <2>2 DEF create_vpn_link_client, LinkInv, LinkRequestHolds, In
    <3>2. k \in DOMAIN clients' /\ clients'[k] = clients[k] /\ UNCHANGED given
      BY <1>0, <2>2, <3>1 DEF create_vpn_link_client
    <3> QED BY <1>0, <3>2, WorkingStays
  <2>3. CASE Cleanup(r)
    BY <2>3, CleanupKeepsWorking
  <2>4. CASE RetireOld(r)
    BY <2>4, RetireKeepsWorking DEF RetireOld
  <2>5. ASSUME NEW stored \in BOOLEAN, StoreAccessLink(r, stored) PROVE Working' # {}
    <3> DEFINE t == requests[r].token
    <3>1. In(r, "store") /\ LinkRequestHolds(r) /\ given \subseteq given'
      BY <2>5 DEF StoreAccessLink, LinkInv
    <3>2. requests[r].client = t /\ t \in DOMAIN clients /\ (clients[t].active => clients[t].hash = t) /\ t # NoToken
      BY <3>1 DEF LinkRequestHolds, In, LinkInv, LinkTypeOK, NoToken
    <3>3. clients' = IF stored THEN [clients EXCEPT ![t].sealed = t] ELSE clients
      BY <2>5, <3>2 DEF StoreAccessLink
    <3>4. CASE ~stored \/ k # t
      BY <1>0, <3>1, <3>3, <3>4, WorkingStays
    <3>5. CASE stored /\ k = t
      <4> HIDE DEF t
      <4>1. k \in DOMAIN clients' /\ clients'[k].active /\ clients'[k].hash = k /\ clients'[k].sealed = k /\ k # NoToken
        BY <1>0, <3>2, <3>3, <3>5 DEF LinkTypeOK, Client
      <4>2. k \in Working'
        BY <4>1 DEF Working, Active, revealAccessLink
      <4> QED BY <4>2
    <3> QED BY <3>4, <3>5
  <2>6. ASSUME NEW done \in BOOLEAN, ReplaceAccessLink(r, done) PROVE Working' # {}
    <3> DEFINE c == requests[r].client
               t == requests[r].token
    <3>1. CASE ~clients[c].active
      BY <1>1, <2>6, <3>1 DEF ReplaceAccessLink
    <3>2. CASE clients[c].active
      <4>1. clients' = [clients EXCEPT ![c].hash = t, ![c].sealed = IF done THEN t ELSE NoToken] /\ given' = given \cup {t}
        BY <2>6, <3>2 DEF ReplaceAccessLink
      <4> HIDE DEF c, t
      <4>2. CASE k = c
        <5>1. k \in DOMAIN clients' /\ clients'[k].active /\ clients'[k].hash \in given'
          BY <1>0, <4>1, <4>2 DEF LinkTypeOK, Client
        <5> QED BY <5>1 DEF Working, Active
      <4>3. CASE k # c
        <5>1. k \in DOMAIN clients' /\ clients'[k] = clients[k] /\ given \subseteq given'
          BY <1>0, <4>1, <4>3
        <5> QED BY <1>0, <5>1, WorkingStays
      <4> QED BY <4>2, <4>3
    <3> QED BY <3>1, <3>2
  <2> QED BY <1>2, <2>1, <2>2, <2>3, <2>4, <2>5, <2>6 DEF LinkRequest
<1>3. ASSUME NEW l \in Links, NEW n, update_vpn_link(l, n) PROVE Working' # {}
  BY <1>1, <1>3 DEF update_vpn_link
<1>4. ASSUME NEW l \in Links, RevokeLink(l) PROVE Working' # {}
  BY <1>4 DEF RevokeLink
<1>5. ASSUME NEW j \in Token, revoke_external_vpn_device(j) PROVE Working' # {}
  BY <1>5 DEF revoke_external_vpn_device
<1>6. CASE UNCHANGED linkVars
  BY <1>1, <1>6 DEF linkVars
<1> QED BY <1>2, <1>3, <1>4, <1>5, <1>6 DEF LinkNext

\* The links keep their types, whatever races.
THEOREM LinkTypeCorrect == LinkSpec => []LinkTypeOK
<1>1. LinkInit => LinkTypeOK /\ TokenHeld
  BY LinkInitHolds, InvHasTokens
<1>2. LinkTypeOK /\ TokenHeld /\ [LinkNext]_linkVars => LinkTypeOK' /\ TokenHeld'
  BY LinkTypeKept
<1> QED BY <1>1, <1>2, PTL DEF LinkSpec

\* When nobody uses a link before the request that creates it has answered, a customer who had a working
\* URL keeps one until he asks for a revocation, whatever creations, replays, moves, replacements and
\* deaths race; and once every request has answered and none died, he holds the current URL of every
\* client (createLinkWithClient, storeAccessLink, replaceAccessLink, moveLinkToRoute).
THEOREM LinksWork ==
    ASSUME ~EarlyUse
    PROVE  LinkSpec => LinksKeepWorking
<1>1. LinkInv /\ [LinkNext]_linkVars => LinkInv' /\ [~asked' /\ Working # {} => Working' # {}]_linkVars
  BY LinkInvKept, WorkingIsKept
<1> QED BY <1>1, LinkInitHolds, InvLosesNoAccess, PTL DEF LinkSpec, LinksKeepWorking, WorkingLinkKept
=============================================================================
