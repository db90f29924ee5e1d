------------------------------ MODULE TrialCheckout ------------------------------
(***************************************************************************)
(* Starting a subscription (create-checkout-session.js) and the one free   *)
(* trial of an account: reserve_free_trial reserves it for 24 hours, the   *)
(* Checkout Session is attached to the reservation so that it can be       *)
(* resumed, and the webhook's handlers use the trial up.                   *)
(*                                                                         *)
(* A request is split at every await.  Sessions, their payment and their   *)
(* expiry are Stripe's.                                                    *)
(***************************************************************************)
EXTENDS Integers, FiniteSets

CONSTANTS
    Requests,      \* POSTs to create-checkout-session that can be in progress
    MaxSessions,   \* bound: Checkout Sessions
    MaxCheckoutDeaths      \* bound: requests that die, and calls of Stripe that fail

ASSUME TrialParameters == {MaxSessions, MaxCheckoutDeaths} \subseteq Nat

Session == 1..MaxSessions
Stamp == Nat   \* reservations are numbered; 0 is null

VARIABLES
    trial,      \* customer_accounts: trial_used_at, trial_reserved_at, trial_checkout_session_id
    stamps,     \* how many reservations there were
    sessions,   \* [Session -> ...]: Checkout Sessions
    mapped,     \* [Session -> status]: the subscriptions rows that came of them
    checkout,   \* [Requests -> ...]
    checkoutDeaths

trialVars == <<trial, stamps, sessions, mapped, checkout, checkoutDeaths>>

\* fresh: the reservation is less than 24 hours old.
TrialColumns == [used : BOOLEAN, reserved : Stamp, fresh : BOOLEAN, session : Session \cup {0}]
NoTrial == [used |-> FALSE, reserved |-> 0, fresh |-> FALSE, session |-> 0]

\* wants: a trial.  seen: the columns as they were read.  again: after a reservation that was refused.
CheckoutRequest == [pc : {"idle", "account", "resume", "clear", "reserve", "recheck", "create", "track", "expire", "release"},
            wants : BOOLEAN, seen : TrialColumns, reservedAt : Stamp, session : Session \cup {0}, again : BOOLEAN]
NoCheckoutRequest == [pc |-> "idle", wants |-> FALSE, seen |-> NoTrial, reservedAt |-> 0, session |-> 0, again |-> FALSE]

\* given: its URL was returned to the customer.
CheckoutSession == [status : {"none", "open", "complete", "expired"}, trial : BOOLEAN, given : BOOLEAN]

TrialTypeOK ==
    /\ trial \in TrialColumns /\ stamps \in Stamp
    /\ sessions \in [Session -> CheckoutSession]
    /\ mapped \in [Session -> {"none", "incomplete", "live", "consumed", "ended"}]
    /\ checkout \in [Requests -> CheckoutRequest]
    /\ checkoutDeaths \in 0..MaxCheckoutDeaths

-----------------------------------------------------------------------------
(* The request *)

CheckoutAt(r, pc) == checkout[r].pc = pc
To(r, pc) == checkout' = [checkout EXCEPT ![r].pc = pc]
Respond(r) == checkout' = [checkout EXCEPT ![r] = NoCheckoutRequest]
Give(k) == sessions' = [sessions EXCEPT ![k].given = TRUE]

\* An open subscription leaves no trial; an unfinished checkout (of the last day) blocks another.
\* Of several such rows the query returns any.
StartCheckout(r, wants) ==
    LET existing == {mapped[k] : k \in Session} \cap {"incomplete", "live", "consumed"}
    IN /\ CheckoutAt(r, "idle")
       /\ existing # {} => ~wants /\ existing # {"incomplete"}
       /\ checkout' = [checkout EXCEPT ![r] = [NoCheckoutRequest EXCEPT !.pc = "account", !.wants = wants]]
       /\ UNCHANGED <<trial, stamps, sessions, mapped, checkoutDeaths>>

reservationIsFresh(row) == row.reserved # 0 /\ ~row.used /\ row.fresh
Resumable(row) == reservationIsFresh(row) /\ row.session # 0

ReadTrial(r) ==
    /\ CheckoutAt(r, "account")
    /\ checkout' = [checkout EXCEPT ![r].seen = trial,
                        ![r].pc = IF ~checkout[r].wants THEN "create"
                                  ELSE IF Resumable(trial) THEN "resume" ELSE "reserve"]
    /\ UNCHANGED <<trial, stamps, sessions, mapped, checkoutDeaths>>

\* resumeReservedTrial: the open session is returned again, a complete one is an error.
Resume(r) ==
    LET k == checkout[r].seen.session
    IN /\ CheckoutAt(r, "resume")
       /\ CASE sessions[k].status = "open" -> Give(k) /\ Respond(r)
            [] sessions[k].status = "complete" -> UNCHANGED sessions /\ Respond(r)
            [] OTHER -> UNCHANGED sessions /\ To(r, "clear")
       /\ UNCHANGED <<trial, stamps, mapped, checkoutDeaths>>

\* clearTrialReservation of what the request saw; a reservation that changed stays.
Cleared(reservedAt, session) ==
    IF ~trial.used /\ trial.reserved = reservedAt /\ (session # 0 => trial.session = session)
    THEN [trial EXCEPT !.reserved = 0, !.session = 0, !.fresh = FALSE] ELSE trial
ClearExpired(r) ==
    /\ CheckoutAt(r, "clear")
    /\ trial' = Cleared(checkout[r].seen.reserved, checkout[r].seen.session)
    /\ IF checkout[r].again THEN Respond(r) ELSE To(r, "reserve")
    /\ UNCHANGED <<stamps, sessions, mapped, checkoutDeaths>>

\* As if a reservation that is held did not stop another.
reserve_free_trial_Again(r) ==
    /\ CheckoutAt(r, "reserve")
    /\ IF trial.used THEN To(r, "recheck") /\ UNCHANGED <<trial, stamps>>
       ELSE /\ stamps' = stamps + 1
            /\ trial' = [trial EXCEPT !.reserved = stamps + 1, !.fresh = TRUE]
            /\ checkout' = [checkout EXCEPT ![r].pc = "create", ![r].reservedAt = stamps + 1]
    /\ UNCHANGED <<sessions, mapped, checkoutDeaths>>

\* reserve_free_trial holds the account's row.
reserve_free_trial(r) ==
    /\ CheckoutAt(r, "reserve")
    /\ IF trial.used \/ (trial.reserved # 0 /\ trial.fresh)
       THEN To(r, "recheck") /\ UNCHANGED <<trial, stamps>>
       ELSE /\ stamps' = stamps + 1
            /\ trial' = [trial EXCEPT !.reserved = stamps + 1, !.fresh = TRUE]
            /\ checkout' = [checkout EXCEPT ![r].pc = "create", ![r].reservedAt = stamps + 1]
    /\ UNCHANGED <<sessions, mapped, checkoutDeaths>>
Recheck(r) ==
    /\ CheckoutAt(r, "recheck")
    /\ IF Resumable(trial) THEN checkout' = [checkout EXCEPT ![r].pc = "resume", ![r].seen = trial, ![r].again = TRUE]
       ELSE Respond(r)
    /\ UNCHANGED <<trial, stamps, sessions, mapped, checkoutDeaths>>

CreateSession(r) ==
    \E k \in Session :
       /\ CheckoutAt(r, "create")
       /\ sessions[k].status = "none" /\ \A j \in 1..(k - 1) : sessions[j].status # "none"
       /\ sessions' = [sessions EXCEPT ![k] = [status |-> "open", trial |-> checkout[r].wants, given |-> ~checkout[r].wants]]
       /\ IF checkout[r].wants THEN checkout' = [checkout EXCEPT ![r].pc = "track", ![r].session = k] ELSE Respond(r)
       /\ UNCHANGED <<trial, stamps, mapped, checkoutDeaths>>
CreateFails(r) ==
    /\ CheckoutAt(r, "create") /\ checkoutDeaths < MaxCheckoutDeaths /\ checkoutDeaths' = checkoutDeaths + 1
    /\ trial' = IF checkout[r].wants THEN Cleared(checkout[r].reservedAt, 0) ELSE trial
    /\ Respond(r)
    /\ UNCHANGED <<stamps, sessions, mapped>>

\* The session is attached to the reservation it was created for, or else expired again.
Track(r) ==
    LET k == checkout[r].session
    IN /\ CheckoutAt(r, "track")
       /\ IF trial.reserved = checkout[r].reservedAt /\ ~trial.used
          THEN trial' = [trial EXCEPT !.session = k] /\ Give(k) /\ Respond(r)
          ELSE UNCHANGED <<trial, sessions>> /\ To(r, "expire")
       /\ UNCHANGED <<stamps, mapped, checkoutDeaths>>
ExpireUntracked(r) ==
    /\ CheckoutAt(r, "expire")
    /\ sessions' = [sessions EXCEPT ![checkout[r].session].status = "expired"]
    /\ To(r, "release")
    /\ UNCHANGED <<trial, stamps, mapped, checkoutDeaths>>
Release(r) ==
    /\ CheckoutAt(r, "release")
    /\ trial' = Cleared(checkout[r].reservedAt, 0)
    /\ Respond(r)
    /\ UNCHANGED <<stamps, sessions, mapped, checkoutDeaths>>

CheckoutDies(r) ==
    /\ ~CheckoutAt(r, "idle") /\ checkoutDeaths < MaxCheckoutDeaths /\ checkoutDeaths' = checkoutDeaths + 1
    /\ Respond(r)
    /\ UNCHANGED <<trial, stamps, sessions, mapped>>

-----------------------------------------------------------------------------
(* Stripe and the webhook *)

Pays(k) ==
    /\ sessions[k].status = "open" /\ sessions[k].given
    /\ sessions' = [sessions EXCEPT ![k].status = "complete"]
    /\ UNCHANGED <<trial, stamps, mapped, checkout, checkoutDeaths>>
SessionExpires(k) ==
    /\ sessions[k].status = "open"
    /\ sessions' = [sessions EXCEPT ![k].status = "expired"]
    /\ UNCHANGED <<trial, stamps, mapped, checkout, checkoutDeaths>>

\* The subscription's row is inserted, becomes trialing or active, and ends.
RowMoves(k) ==
    /\ \/ mapped[k] = "none" /\ sessions[k].status = "complete" /\ mapped' = [mapped EXCEPT ![k] = "incomplete"]
       \/ mapped[k] = "incomplete" /\ mapped' = [mapped EXCEPT ![k] = "live"]
       \/ mapped[k] = "consumed" /\ mapped' = [mapped EXCEPT ![k] = "ended"]
    /\ UNCHANGED <<trial, stamps, sessions, checkout, checkoutDeaths>>
\* handleInvoicePaid and handleSubscriptionTrialing, after the write of the row.
ConsumeTrial(k) ==
    /\ mapped[k] = "live"
    /\ trial' = [used |-> TRUE, reserved |-> 0, fresh |-> FALSE, session |-> 0]
    /\ mapped' = [mapped EXCEPT ![k] = "consumed"]
    /\ UNCHANGED <<stamps, sessions, checkout, checkoutDeaths>>

\* 24 hours pass: a session does not live longer, and the events of a paid one have arrived.
ReservationLapses ==
    /\ trial.fresh
    /\ \A k \in Session : sessions[k].trial /\ sessions[k].given =>
           sessions[k].status # "open" /\ (sessions[k].status = "complete" => mapped[k] \in {"consumed", "ended"})
    /\ \A r \in Requests : CheckoutAt(r, "idle")
    /\ trial' = [trial EXCEPT !.fresh = FALSE]
    /\ UNCHANGED <<stamps, sessions, mapped, checkout, checkoutDeaths>>

-----------------------------------------------------------------------------
TrialInit ==
    /\ trial = NoTrial /\ stamps = 0
    /\ sessions = [k \in Session |-> [status |-> "none", trial |-> FALSE, given |-> FALSE]]
    /\ mapped = [k \in Session |-> "none"]
    /\ checkout = [r \in Requests |-> NoCheckoutRequest]
    /\ checkoutDeaths = 0

CheckoutStep(r) ==
    \/ \E wants \in BOOLEAN : StartCheckout(r, wants)
    \/ ReadTrial(r) \/ Resume(r) \/ ClearExpired(r) \/ reserve_free_trial(r) \/ Recheck(r)
    \/ CreateSession(r) \/ CreateFails(r) \/ Track(r) \/ ExpireUntracked(r) \/ Release(r) \/ CheckoutDies(r)

TrialNext ==
    \/ \E r \in Requests : CheckoutStep(r)
    \/ \E k \in Session : Pays(k) \/ SessionExpires(k) \/ RowMoves(k) \/ ConsumeTrial(k)
    \/ ReservationLapses

TrialSpec == TrialInit /\ [][TrialNext]_trialVars

-----------------------------------------------------------------------------
(* Properties *)

\* However many requests race, die and are repeated, the customer never holds two Checkout Sessions
\* of which each would start (or has started) a free trial.
OneTrial ==
    Cardinality({k \in Session : /\ sessions[k].trial /\ sessions[k].given
                                 /\ sessions[k].status \in {"open", "complete"}}) <= 1
=============================================================================
