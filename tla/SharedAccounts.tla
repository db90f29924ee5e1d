---------------------------- MODULE SharedAccounts ----------------------------
(***************************************************************************)
(* Who belongs to which account.  Everybody signs up into an account of    *)
(* their own; an invitation from the time of shared accounts (no new one   *)
(* is issued) moves its holder onto another plan, accept_member_invite, in *)
(* one transaction of many statements that locks the invitation and the    *)
(* account it leads to, and only reads the account that is left.           *)
(***************************************************************************)
EXTENDS Integers, FiniteSets

CONSTANTS
    People, Plans,      \* auth.users; bound: ids of customer_accounts
    Invites, Guests,    \* invitations that were sent; requests to accept-invite that can be in progress
    IncludedSeats,      \* included_seats()
    MoreSeats,          \* seats of a pack, and of a support grant
    MaxDeals,           \* bound: changes of what an account pays for
    Home,               \* the accounts that there are to begin with, by the person who signed up into each
    SharedRaces         \* races admitted: "abandoned", "checkout"

NoPlan == "no plan"
Alone == [plan |-> NoPlan, role |-> "none"]
Nothing == "nothing"

ASSUME SharedParameters ==
    /\ {IncludedSeats, MoreSeats, MaxDeals} \subseteq Nat /\ IncludedSeats > 0
    /\ IsFiniteSet(People) /\ NoPlan \notin Plans /\ Nothing \notin People \cup Invites
    /\ SharedRaces \subseteq {"abandoned", "checkout"}
    /\ \E P \in SUBSET People : Home \in [P -> Plans] /\ \A u, v \in P : Home[u] = Home[v] => u = v

VARIABLES
    signedUp,    \* the people who are users
    membership,  \* [People -> ...]: account_members, at most one row each
    plans,       \* [Plans -> ...]: customer_accounts with its subscriptions and admin_entitlements
    invites,     \* [Invites -> ...]: member_invites
    guests,      \* [Guests -> ...]: the transactions
    most,        \* [Plans -> ...]: the most seats the account ever had
    deals

sharedVars == <<signedUp, membership, plans, invites, guests, most, deals>>

Membership == [plan : Plans, role : {"owner", "member"}] \cup {Alone}
Plan == [row : {"unused", "there", "deleted"}, sub : {"none", "live", "ended"}, pack : BOOLEAN, grant : {"none", "active", "over"}]
UnusedPlan == [row |-> "unused", sub |-> "none", pack |-> FALSE, grant |-> "none"]
FreshPlan == [UnusedPlan EXCEPT !.row = "there"]
Invite == [plan : Plans, email : People, state : {"pending", "accepted", "withdrawn", "deleted"}]
Guest == [pc : {"idle", "invite", "account", "check", "leave", "delete", "cascade", "insert"},
          user : People \cup {Nothing}, invite : Invites \cup {Nothing}, old : Plans \cup {NoPlan}, gone : Membership, drop : BOOLEAN]
NoGuest == [pc |-> "idle", user |-> Nothing, invite |-> Nothing, old |-> NoPlan, gone |-> Alone, drop |-> FALSE]

SharedTypeOK ==
    /\ signedUp \subseteq People /\ membership \in [People -> Membership] /\ plans \in [Plans -> Plan]
    /\ invites \in [Invites -> Invite] /\ guests \in [Guests -> Guest]
    /\ most \in [Plans -> 0..(IncludedSeats + MoreSeats)] /\ deals \in 0..MaxDeals

-----------------------------------------------------------------------------
There(a) == plans[a].row = "there"
\* getAccountMembers.
MembersOf(a) == {u \in People : membership[u].plan = a}
OwnersOf(a) == {u \in MembersOf(a) : membership[u].role = "owner"}
Paid(a) == plans[a].sub = "live" \/ plans[a].grant = "active"
History(a) == plans[a].sub # "none" \/ plans[a].grant # "none"
\* The largest of what is included, what is paid for, and what is granted.
effective_seat_limit(p) ==
    IF (p.sub = "live" /\ p.pack) \/ p.grant = "active" THEN IncludedSeats + MoreSeats ELSE IncludedSeats

JoinIsAt(g, pc) == guests[g].pc = pc
Target(g) == invites[guests[g].invite].plan
HoldsInvite(g, i) == guests[g].invite = i /\ guests[g].pc \notin {"idle", "invite"}
HoldsAccount(g, a) ==
    \/ guests[g].pc \in {"check", "leave", "delete", "cascade", "insert"} /\ Target(g) = a
    \/ guests[g].old = a /\ guests[g].drop /\ guests[g].pc \in {"cascade", "insert"}
HoldsMember(g, u) == guests[g].user = u /\ guests[g].gone # Alone /\ guests[g].pc \in {"delete", "cascade", "insert"}
InviteFree(i) == \A g \in Guests : ~HoldsInvite(g, i)
AccountFree(a) == \A g \in Guests : ~HoldsAccount(g, a)
MemberFree(u) == \A g \in Guests : ~HoldsMember(g, u)
\* The transactions whose row locks g needs for its next statement.
Blockers(g) ==
    {h \in Guests \ {g} :
        \/ JoinIsAt(g, "invite") /\ HoldsInvite(h, guests[g].invite)
        \/ JoinIsAt(g, "account") /\ HoldsAccount(h, Target(g))
        \/ JoinIsAt(g, "leave") /\ HoldsMember(h, guests[g].user)
        \/ JoinIsAt(g, "delete") /\ HoldsAccount(h, guests[g].old)
        \/ JoinIsAt(g, "cascade") /\ \E i \in Invites : invites[i].plan = guests[g].old /\ HoldsInvite(h, i)
        \/ JoinIsAt(g, "cascade") /\ \E u \in MembersOf(guests[g].old) : HoldsMember(h, u)}

\* The only member is on the way out; the owner is, or is gone.
Leaving(a) == \E g \in Guests :
    /\ guests[g].pc \in {"leave", "delete", "cascade", "insert"} /\ (guests[g].old = a \/ membership[guests[g].user].plan = a)
Abandoned(a) == OwnersOf(a) = {} \/ Leaving(a)

-----------------------------------------------------------------------------
(* accept_member_invite *)

RollsBack(g) == guests' = [guests EXCEPT ![g] = NoGuest]
Steps(g, pc) == guests' = [guests EXCEPT ![g].pc = pc]

\* Whoever is signed in and holds the token.
AcceptInvite(g, u, i) ==
    /\ JoinIsAt(g, "idle") /\ u \in signedUp
    /\ guests' = [guests EXCEPT ![g] = [NoGuest EXCEPT !.pc = "invite", !.user = u, !.invite = i]]
    /\ UNCHANGED <<signedUp, membership, plans, invites, most, deals>>
LockInvite(g) ==
    /\ JoinIsAt(g, "invite") /\ Blockers(g) = {}
    /\ IF invites[guests[g].invite].state = "pending" THEN Steps(g, "account") ELSE RollsBack(g)
    /\ UNCHANGED <<signedUp, membership, plans, invites, most, deals>>

\* As if the account's row were not locked.
TakeSeat_Unlocked(g) ==
    /\ JoinIsAt(g, "account")
    /\ IF Cardinality(MembersOf(Target(g))) < effective_seat_limit(plans[Target(g)]) THEN Steps(g, "check") ELSE RollsBack(g)
    /\ UNCHANGED <<signedUp, membership, plans, invites, most, deals>>
\* Locks the account the invitation leads to, then counts its seats.
TakeSeat(g) ==
    /\ JoinIsAt(g, "account") /\ Blockers(g) = {}
    /\ "abandoned" \notin SharedRaces => ~Abandoned(Target(g))
    /\ IF Cardinality(MembersOf(Target(g))) < effective_seat_limit(plans[Target(g)]) THEN Steps(g, "check") ELSE RollsBack(g)
    /\ UNCHANGED <<signedUp, membership, plans, invites, most, deals>>

\* The account that would be left must carry no plan and nobody else; no lock keeps it so.
CheckOld(g) ==
    LET old == membership[guests[g].user].plan
    IN /\ JoinIsAt(g, "check")
       /\ "abandoned" \notin SharedRaces => \A h \in Guests : old # NoPlan => ~HoldsAccount(h, old) \/ h = g
       /\ IF old = Target(g) \/ (old # NoPlan /\ (Paid(old) \/ Cardinality(MembersOf(old)) > 1)) THEN RollsBack(g)
          ELSE guests' = [guests EXCEPT ![g].pc = "leave", ![g].old = old]
       /\ UNCHANGED <<signedUp, membership, plans, invites, most, deals>>
\* Deletes the membership there is by now; an account without history goes too.
Leave(g) ==
    LET drop == guests[g].old # NoPlan /\ ~History(guests[g].old)
    IN /\ JoinIsAt(g, "leave") /\ Blockers(g) = {}
       /\ guests' = [guests EXCEPT ![g].pc = IF drop THEN "delete" ELSE "insert",
                                   ![g].gone = membership[guests[g].user], ![g].drop = drop]
       /\ UNCHANGED <<signedUp, membership, plans, invites, most, deals>>
\* The delete had waited for a row that another acceptance replaced: it finds nothing, and the insert
\* meets account_members_user_uniq.
LeaveIsLate(g) ==
    /\ JoinIsAt(g, "leave") /\ membership[guests[g].user].plan # guests[g].old /\ RollsBack(g)
    /\ UNCHANGED <<signedUp, membership, plans, invites, most, deals>>
LockOld(g) ==
    /\ JoinIsAt(g, "delete") /\ Blockers(g) = {} /\ Steps(g, "cascade")
    /\ UNCHANGED <<signedUp, membership, plans, invites, most, deals>>
\* The deletion cascades to invitations and memberships, and waits for them.
Cascade(g) ==
    /\ JoinIsAt(g, "cascade") /\ Blockers(g) = {} /\ Steps(g, "insert")
    /\ UNCHANGED <<signedUp, membership, plans, invites, most, deals>>

\* The trigger on the invitation.
enforce_member_invite_identity(i, u) == invites[i].email = u
Dropped(g, a) == guests[g].drop /\ a = guests[g].old
\* Inserts the membership, marks the invitation, and commits.  What the request provisions then is
\* CustomerAccounts's.
Commit(g) ==
    LET r == guests[g]
    IN /\ JoinIsAt(g, "insert") /\ RollsBack(g)
       /\ IF ~enforce_member_invite_identity(r.invite, r.user) \/ membership[r.user] # r.gone THEN UNCHANGED <<membership, plans, invites>>
          ELSE /\ membership' = [u \in People |-> IF u = r.user THEN [plan |-> Target(g), role |-> "member"]
                                                  ELSE IF Dropped(g, membership[u].plan) THEN Alone ELSE membership[u]]
               /\ plans' = [a \in Plans |-> IF Dropped(g, a) THEN [plans[a] EXCEPT !.row = "deleted"] ELSE plans[a]]
               /\ invites' = [i \in Invites |-> IF Dropped(g, invites[i].plan) THEN [invites[i] EXCEPT !.state = "deleted"]
                                                ELSE IF i = r.invite THEN [invites[i] EXCEPT !.state = "accepted"] ELSE invites[i]]
       /\ UNCHANGED <<signedUp, most, deals>>
\* One of two transactions that wait for each other.
DeadlockVictim(g) ==
    /\ \E h \in Blockers(g) : g \in Blockers(h)
    /\ RollsBack(g)
    /\ UNCHANGED <<signedUp, membership, plans, invites, most, deals>>

-----------------------------------------------------------------------------
(* Signing up, leaving, and what is paid for *)

OwnPlan(u, a) ==
    /\ plans[a].row = "unused" /\ plans' = [plans EXCEPT ![a] = FreshPlan]
    /\ membership' = [membership EXCEPT ![u] = [plan |-> a, role |-> "owner"]]
    /\ most' = [most EXCEPT ![a] = IncludedSeats]

\* A new user, who may have come for an invitation.
handle_new_user(u, a) ==
    /\ u \notin signedUp /\ signedUp' = signedUp \cup {u} /\ OwnPlan(u, a)
    /\ UNCHANGED <<invites, guests, deals>>
\* Out of the plan, into a fresh account; it locks the membership only.
remove_account_member(u, a) ==
    /\ membership[u].role = "member" /\ MemberFree(u) /\ OwnPlan(u, a)
    /\ UNCHANGED <<signedUp, invites, guests, deals>>

\* Its owner withdraws it, or it expires.
WithdrawInvite(i) ==
    /\ invites[i].state = "pending" /\ InviteFree(i) /\ invites' = [invites EXCEPT ![i].state = "withdrawn"]
    /\ UNCHANGED <<signedUp, membership, plans, guests, most, deals>>
Deal(a, p) ==
    /\ There(a) /\ deals < MaxDeals /\ deals' = deals + 1 /\ plans' = [plans EXCEPT ![a] = p]
    /\ most' = [most EXCEPT ![a] = IF effective_seat_limit(p) > @ THEN effective_seat_limit(p) ELSE @]
    /\ UNCHANGED <<signedUp, membership, invites, guests>>
\* A new row refers to the account: it waits for a transaction that has it locked.  Unless the race
\* "checkout" is admitted nobody is on the way out of the account, or gone.
NewRow(a) == AccountFree(a) /\ ("checkout" \notin SharedRaces => ~Abandoned(a))
SubscriptionBegins(a) == plans[a].sub # "live" /\ NewRow(a) /\ Deal(a, [plans[a] EXCEPT !.sub = "live", !.pack = FALSE])
GrantBegins(a) == plans[a].grant # "active" /\ NewRow(a) /\ Deal(a, [plans[a] EXCEPT !.grant = "active"])
PackChanges(a) == plans[a].sub = "live" /\ Deal(a, [plans[a] EXCEPT !.pack = ~@])
SubscriptionEnds(a) == plans[a].sub = "live" /\ Deal(a, [plans[a] EXCEPT !.sub = "ended"])
GrantEnds(a) == plans[a].grant = "active" /\ Deal(a, [plans[a] EXCEPT !.grant = "over"])

-----------------------------------------------------------------------------
\* What an account carries at first.
FirstPlans ==
    {FreshPlan, [FreshPlan EXCEPT !.sub = "ended"], [FreshPlan EXCEPT !.sub = "live", !.pack = TRUE], [FreshPlan EXCEPT !.grant = "active"]}
\* member_invites_pending_uniq: one invitation to an account per address.
SharedInit ==
    LET homes == {Home[u] : u \in DOMAIN Home}
    IN /\ signedUp = DOMAIN Home
       /\ membership = [u \in People |-> IF u \in DOMAIN Home THEN [plan |-> Home[u], role |-> "owner"] ELSE Alone]
       /\ \E first \in [homes -> FirstPlans] : plans = [a \in Plans |-> IF a \in homes THEN first[a] ELSE UnusedPlan]
       /\ invites \in [Invites -> [plan : homes, email : People, state : {"pending"}]]
       /\ \A i, j \in Invites : invites[i] = invites[j] => i = j
       /\ guests = [g \in Guests |-> NoGuest]
       /\ most = [a \in Plans |-> IF a \in homes THEN effective_seat_limit(plans[a]) ELSE 0]
       /\ deals = 0

SharedNext ==
    \/ \E g \in Guests : \/ \E u \in People, i \in Invites : AcceptInvite(g, u, i)
                         \/ LockInvite(g) \/ TakeSeat(g) \/ CheckOld(g) \/ Leave(g) \/ LeaveIsLate(g)
                         \/ LockOld(g) \/ Cascade(g) \/ Commit(g) \/ DeadlockVictim(g)
    \/ \E u \in People, a \in Plans : handle_new_user(u, a) \/ remove_account_member(u, a)
    \/ \E i \in Invites : WithdrawInvite(i)
    \/ \E a \in Plans : SubscriptionBegins(a) \/ SubscriptionEnds(a) \/ PackChanges(a) \/ GrantBegins(a) \/ GrantEnds(a)

SharedSpec == SharedInit /\ [][SharedNext]_sharedVars

-----------------------------------------------------------------------------
(* Properties *)

\* However many people accept at once, and whatever becomes of the plan meanwhile, an account never has more
\* members than the most seats it ever had.  (accept_member_invite.)
SeatsHold == \A a \in Plans : Cardinality(MembersOf(a)) <= most[a]

\* A user always has one account, an account with members one owner, and a plan that is paid for somebody it
\* serves: joining strands nobody, throws away no plan and leaves none without its payer.
\* (accept_member_invite, remove_account_member, handle_new_user; none of SharedRaces.)
NobodyStranded ==
    /\ \A u \in signedUp : membership[u] # Alone /\ There(membership[u].plan)
    /\ \A a \in Plans : MembersOf(a) # {} \/ Paid(a) => Cardinality(OwnersOf(a)) = 1

\* A shared plan holds those it has room for, and leaves nobody behind.
SharedPlansHold == SeatsHold /\ NobodyStranded
=============================================================================
