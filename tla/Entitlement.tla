------------------------------ MODULE Entitlement ------------------------------
(***************************************************************************)
(* What an account's rows, grants and Stripe's objects are taken to mean:  *)
(* the pure functions of accounts.js, subscriptions.js, stripe-fields.js   *)
(* and the overview of account-service.js, asked of bounded inputs.  A     *)
(* moment is a number, the present is Now, and a value that is absent or   *)
(* no date is Null.                                                        *)
(***************************************************************************)
EXTENDS Integers, Sequences, SequencesExt

CONSTANTS
    Questions,       \* accounts and objects that are asked about
    Now,
    NODE_GRACE,      \* LEGACY_NODE_EXPIRY_GRACE_MS
    PAST_DUE_GRACE   \* getPastDueGraceMs

VARIABLE question
entitlementVars == <<question>>

Null == -1
INCLUDED_DEVICES == 3
DEVICE_PACK_SIZE == 3

-----------------------------------------------------------------------------
(* Subscriptions *)

\* A row has a status, past_due_since, current_period_end, packs, and used devices; rows come in the
\* order in which they were created.
deviceCapacityOf(row) == INCLUDED_DEVICES + DEVICE_PACK_SIZE * row.packs

isPastDueWithinGrace(since) == since = Null \/ Now - since < PAST_DUE_GRACE
isLiveRow(row) ==
    \/ row.status = "active"     \* or trialing
    \/ row.status = "past_due" /\ isPastDueWithinGrace(row.since)
\* As Array.filter calls it: the third argument, its now, is the array, which is no number, so that no
\* difference is less than the grace.
isLiveInFilter(row) == row.status = "active" \/ (row.status = "past_due" /\ row.since = Null)

HasRoom(row) == row.used < deviceCapacityOf(row)
\* The oldest with a free place, or 0.
pickSubscriptionWithRoom(rows) == SelectInSeq(rows, LAMBDA row : isLiveInFilter(row) /\ HasRoom(row))

\* What the account's pages count: canceled and unpaid rows are shown as well, and then asked by their
\* status alone.
Shown(rows) == SelectSeq(rows, LAMBDA row : isLiveRow(row) \/ row.status \in {"canceled", "unpaid"})
CapacityShown(rows) ==
    LET live == SelectSeq(Shown(rows), LAMBDA row : row.status \in {"active", "past_due"})
    IN [total |-> FoldSeq(LAMBDA row, sum : sum + deviceCapacityOf(row), 0, live),
        used |-> FoldSeq(LAMBDA row, sum : sum + row.used, 0, live)]

-----------------------------------------------------------------------------
(* The account's entitlement *)

\* The one that runs longest, or 0; an end that is absent comes last.
getLiveSubscription(rows) ==
    LET live == {i \in DOMAIN rows : isLiveRow(rows[i])}
    IN IF live = {} THEN 0
       ELSE CHOOSE i \in live : \A j \in live : \/ rows[j].end < rows[i].end
                                                \/ rows[j].end = rows[i].end /\ i <= j

\* A grant has from, until and seats; the newest comes first.
getActiveAdminEntitlements(grants) ==
    SelectSeq(grants, LAMBDA g : g.from <= Now /\ (g.until = Null \/ g.until > Now))

laterIso(a, b) == IF a >= b THEN a ELSE b
applyLegacyExpiryGrace(t) == IF t = Null THEN Null ELSE t + NODE_GRACE

\* Of a row or none (a sequence of one or none), and grants in force.
resolveEffectiveEntitlement(row, grants) ==
    LET clear == \E i \in DOMAIN grants : grants[i].until = Null
        paid == IF row = <<>> THEN Null ELSE applyLegacyExpiryGrace(row[1].end)
        paidSeats == IF row = <<>> THEN 0 ELSE deviceCapacityOf(row[1])
    IN [entitled |-> row # <<>> \/ grants # <<>>,
        clearExpiry |-> clear,
        serviceExpiresAt |-> IF clear THEN Null
                             ELSE FoldSeq(LAMBDA g, t : laterIso(t, g.until), paid, grants),
        seatLimit |-> LET seats == {INCLUDED_DEVICES, paidSeats} \cup {grants[i].seats : i \in DOMAIN grants}
                      IN CHOOSE most \in seats : \A n \in seats : n <= most]
effectiveEntitlement(rows, grants) ==
    LET i == getLiveSubscription(rows)
    IN resolveEffectiveEntitlement(IF i = 0 THEN <<>> ELSE <<rows[i]>>, getActiveAdminEntitlements(grants))

-----------------------------------------------------------------------------
(* Stripe's objects *)

\* An item of a subscription has a price and a quantity; an invoice has lines, by their ends.
getSeatSubscriptionItem(items) == SelectInSeq(items, LAMBDA item : item.price = "pack")
getSeatPackQuantity(items) ==
    LET i == getSeatSubscriptionItem(items)
    IN IF i # 0 /\ items[i].quantity > 0 THEN items[i].quantity ELSE 0
getBaseSubscriptionPriceId(items) ==
    LET i == SelectInSeq(items, LAMBDA item : item.price # "pack") IN IF i = 0 THEN "none" ELSE items[i].price
isAllowedBasePrice(price) == price \in {"current", "legacy"}
SellsBase(items) == isAllowedBasePrice(getBaseSubscriptionPriceId(items))

\* As it once was: the first line's.
getInvoiceLinePeriodEnd_First(o) == IF o.lines # <<>> /\ o.lines[1] # Null THEN o.lines[1] ELSE o.end
\* The latest end of a line, whatever their order; the invoice's own when none has one.
getInvoiceLinePeriodEnd(o) ==
    LET ends == {o.lines[i] : i \in DOMAIN o.lines} \ {Null}
    IN IF ends = {} THEN o.end ELSE CHOOSE t \in ends : \A u \in ends : u <= t

-----------------------------------------------------------------------------

EntitlementInit == question = [of |-> "nothing"]
EntitlementNext == question = [of |-> "nothing"] /\ question' \in Questions
EntitlementSpec == EntitlementInit /\ [][EntitlementNext]_entitlementVars

EntitlementTypeOK == question \in Questions \cup {[of |-> "nothing"]}

-----------------------------------------------------------------------------
(* Properties *)

\* At any later moment the account is served if and only if something it was given says so: a live
\* subscription whose period, with the grace of the nodes, has not ended, or a grant that has not.
\* Only a subscription whose end is not known is not asked.
ServedAsGiven(rows, grants) ==
    LET given(t) == \/ \E i \in DOMAIN rows : isLiveRow(rows[i]) /\ t < rows[i].end + NODE_GRACE
                    \/ \E i \in DOMAIN grants : LET g == grants[i]
                                                IN g.from <= Now /\ (g.until = Null \/ t < g.until)
        e == effectiveEntitlement(rows, grants)
    IN (\A i \in DOMAIN rows : rows[i].end # Null)
       => \A t \in Now..(Now + 10) : given(t) <=> e.entitled /\ (e.clearExpiry \/ t < e.serviceExpiresAt)
\* A new device gets the oldest place there is.  Only rows in arrears are passed over (isLiveInFilter).
RoomIsFound(rows) ==
    LET i == pickSubscriptionWithRoom(rows)
        free == {j \in DOMAIN rows : isLiveRow(rows[j]) /\ HasRoom(rows[j])}
    IN /\ i # 0 => i \in free
       /\ \A j \in free : i = 0 \/ j < i => rows[j].status = "past_due"
\* The pages count the places of the subscriptions that are live, and the devices that have them.
PagesCountTheLive(rows) ==
    LET live == {i \in DOMAIN rows : isLiveRow(rows[i])}
        Numbers == [i \in DOMAIN rows |-> i]
        sumOver(f(_)) == FoldSeq(LAMBDA i, sum : IF i \in live THEN sum + f(rows[i]) ELSE sum, 0, Numbers)
    IN CapacityShown(rows) = [total |-> sumOver(deviceCapacityOf), used |-> sumOver(LAMBDA row : row.used)]

Orders(n) == {p \in [1..n -> 1..n] : \A i, j \in 1..n : p[i] = p[j] => i = j}
Rearranged(s) == {[i \in DOMAIN s |-> s[p[i]]] : p \in Orders(Len(s))}
\* Stripe promises no order: what was paid for is the same in any, and reaches to the last line's end.
OrderIsNothing(o) ==
    /\ \A lines \in Rearranged(o.lines) :
           getInvoiceLinePeriodEnd([o EXCEPT !.lines = lines]) = getInvoiceLinePeriodEnd(o)
    /\ \A i \in DOMAIN o.lines : o.lines[i] <= getInvoiceLinePeriodEnd(o)
    /\ \A items \in Rearranged(o.items) :
           /\ getSeatPackQuantity(items) = getSeatPackQuantity(o.items)
           /\ SellsBase(items) <=> SellsBase(o.items)

EntitlementHolds ==
    CASE question.of = "account" -> /\ ServedAsGiven(question.rows, question.grants)
                                    /\ RoomIsFound(question.rows) /\ PagesCountTheLive(question.rows)
      [] question.of = "stripe" -> OrderIsNothing(question)
      [] OTHER -> TRUE
=============================================================================
