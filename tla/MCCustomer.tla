------------------------------ MODULE MCCustomer ------------------------------
(***************************************************************************)
(* An instance for TLC of the modules about what a customer pays for and   *)
(* gets.  They share no state here: a behaviour is one of one of them, and *)
(* the others rest.                                                        *)
(***************************************************************************)
EXTENDS StripeBilling, TrialCheckout, CustomerAccounts, AccessLinks, SharedAccounts, AppSessions,
        Entitlement, TLC

CONSTANTS a, b, x, y, d1, d2, s1, o, m1, m2, n, p1, p2, p3, p4, i1, i2

VARIABLE part   \* the module that moves

\* Whatever can be in progress twice at once, the devices and the sessions are interchangeable.
Symmetry == Permutations({a, b}) \cup Permutations(Devices) \cup Permutations(Sessions)

\* The owner o and two people with accounts of their own; n has none yet.
MCHome == (o :> p1) @@ (m1 :> p2) @@ (m2 :> p3)

\* m1 is invited to o's plan, and m2 is too, or o to m1's plan, or m1 to m2's.
SharedCases ==
    /\ plans[p2] = FreshPlan /\ plans[p3] = FreshPlan
    /\ invites[i1].plan = p1 /\ invites[i1].email = m1
    /\ <<invites[i2].plan, invites[i2].email>> \in {<<p1, m2>>, <<p2, o>>, <<p3, m1>>}
    /\ invites[i2].plan # p1 \/ part # "shared" => plans[p1] = FreshPlan
    /\ part # "shared" => invites[i2].plan = p1

\* Rows and grants around the moment 2, which is the present; Stripe's lines and items in any order.
RowOf(status, since, end, packs, used) ==
    [status |-> status, since |-> since, end |-> end, packs |-> packs, used |-> used]
Rows == {RowOf("active", Null, end, packs, used) : end \in {Null, 3, 5}, packs \in {0, 1}, used \in {2, 3}}
        \cup {RowOf("past_due", since, end, 0, used) : since \in {Null, 0, 1, 2}, end \in {1, 4}, used \in {2, 3}}
        \cup {RowOf(status, Null, 3, 0, 2) : status \in {"canceled", "incomplete"}}
Grants == [from : {1, 3}, until : {Null, 2, 4, 7}, seats : {2, 5}]
Items == [price : {"current", "legacy", "other", "pack"}, quantity : {Null, 0, 2}]
UpTo1(S) == {<<>>} \cup {<<s>> : s \in S}
UpTo2(S) == UpTo1(S) \cup (S \X S)
\* Of two items, the second is the pack of devices.
PackLast == {items \in UpTo2(Items) : Len(items) = 2 => items[1].price # "pack" /\ items[2].price = "pack"}
Threes == {<<3, 1, 2>>, <<1, 3, 2>>}
MCQuestions ==
    [of : {"account"}, rows : UpTo2(Rows), grants : UpTo1(Grants)]
    \cup [of : {"account"}, rows : UpTo1(Rows), grants : Grants \X Grants]
    \cup [of : {"stripe"}, lines : UpTo2({Null, 1, 2, 3}) \cup Threes, items : {<<>>}, end : {Null, 2}]
    \cup [of : {"stripe"}, lines : {<<>>}, items : PackLast, end : {Null, 2}]

CustomerInit ==
    /\ part \in {"billing", "trial", "accounts", "links", "shared", "sessions", "entitlement"}
    /\ SharedInit /\ SharedCases
    /\ BillingInit /\ TrialInit /\ AccountInit /\ LinkInit /\ SessionInit /\ EntitlementInit
    /\ part # "billing" => ~grant
    /\ part # "accounts" => members = {"owner"} /\ seats = 0
    /\ members = Users => \A d \in Devices : devices[d].status = "ACTIVE" => devices[d].user = "member"
    /\ part # "links" => given = {}

\* Of the parts, only the one that moves is not resting.
AtRest(name, vars) == part # name => UNCHANGED vars

\* Bounds: what befalls one part within a behaviour, taken together.
FewMishaps ==
    /\ changes + trouble.overlapped <= MaxChanges
    /\ counts.acts + counts.deaths <= MaxActs
    /\ password + appDeaths <= 1

CustomerNext ==
    /\ \/ part = "billing" /\ BillingNext
       \/ part = "trial" /\ TrialNext
       \/ part = "accounts" /\ AccountNext
       \/ part = "links" /\ LinkNext
       \/ part = "shared" /\ SharedNext
       \/ part = "sessions" /\ SessionNext
       \/ part = "entitlement" /\ EntitlementNext
    /\ AtRest("billing", billingVars) /\ AtRest("trial", trialVars) /\ AtRest("accounts", accountVars)
    /\ AtRest("links", linkVars) /\ AtRest("shared", sharedVars)
    /\ AtRest("sessions", sessionVars) /\ AtRest("entitlement", entitlementVars)
    /\ UNCHANGED part /\ FewMishaps'

CustomerSpec ==
    /\ CustomerInit
    /\ [][CustomerNext]_<<billingVars, trialVars, accountVars, linkVars, sharedVars, sessionVars,
                          entitlementVars, part>>

\* The state of the module that moves has its type.
CustomerTypeOK ==
    CASE part = "billing" -> BillingTypeOK
      [] part = "trial" -> TrialTypeOK
      [] part = "accounts" -> AccountTypeOK
      [] part = "links" -> LinkTypeOK
      [] part = "shared" -> SharedTypeOK
      [] part = "sessions" -> SessionTypeOK
      [] part = "entitlement" -> EntitlementTypeOK
=============================================================================
