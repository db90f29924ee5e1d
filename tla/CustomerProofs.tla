----------------------------- MODULE CustomerProofs -----------------------------
(***************************************************************************)
(* Proofs about what a customer has: one free trial (TrialCheckout), the   *)
(* sessions and devices of the apps (AppSessions), a place in an account   *)
(* (SharedAccounts), and the account with what it is served                *)
(* (CustomerAccounts), for any number of requests, sessions, deaths,       *)
(* people, plans, devices and subscriptions.  The theorems are             *)
(* TrialTypeCorrect and OneTrialCorrect, SessionTypeCorrect and            *)
(* SessionsCorrect, SharedTypeCorrect and SharedPlansCorrect, and          *)
(* AccountTypeCorrect, ServedCorrect, NotChargedCorrect, DeletionCorrect   *)
(* and PacksKeepPlacesCorrect.                                             *)
(*                                                                         *)
(* OneTrial alone is not inductive.  What carries it: a session that       *)
(* counts is the one attached to a reservation that is held and fresh, or  *)
(* the trial is used (Attached); while a request holds the reservation no  *)
(* session counts (Holds); and the session that a request saw had been     *)
(* returned to the customer before (RequestFits).                          *)
(***************************************************************************)
EXTENDS TrialCheckout, AppSessions, SharedAccounts, CustomerAccounts, FiniteSetTheorems, TLAPS

-----------------------------------------------------------------------------
(* The free trial *)

\* The sessions OneTrial counts.
Counts(k) == /\ sessions[k].trial /\ sessions[k].given
             /\ sessions[k].status \in {"open", "complete"}

Once == \A j, k \in Session : Counts(j) /\ Counts(k) => j = k

\* A session that counts is the one a fresh reservation is for, unless the trial is used.
Attached(k) ==
    Counts(k) => trial.used \/ (trial.session = k /\ trial.reserved # 0 /\ trial.fresh)

\* A subscription that has consumed the trial has done so for good.
UsedUp(k) == mapped[k] \in {"consumed", "ended"} => trial.used

WasGiven(k) == sessions[k].given /\ sessions[k].status # "none"

\* What a request carries fits the step it is at.
RequestFits(r) ==
    LET q == checkout[r]
    IN /\ q.reservedAt <= stamps
       /\ q.reservedAt # 0 => q.pc \in {"create", "track", "expire", "release"} /\ q.wants
       /\ q.pc = "create" /\ q.wants => q.reservedAt # 0
       /\ q.pc \in {"resume", "clear", "reserve", "recheck"} => q.wants
       /\ q.pc \in {"track", "expire", "release"} => q.reservedAt # 0 /\ q.session \in Session
       /\ q.pc = "track" => sessions[q.session].status # "none"
       /\ q.pc \in {"resume", "clear"} => q.seen.session \in Session /\ WasGiven(q.seen.session)
       /\ q.pc = "clear" => sessions[q.seen.session].status = "expired"

\* Two requests never hold one reservation.
OwnStamp(q, r) == checkout[q].reservedAt = checkout[r].reservedAt /\ q # r => checkout[q].reservedAt = 0

\* While a request holds the reservation it is fresh, and no session counts.
Holds(r) ==
    checkout[r].reservedAt # 0 /\ trial.reserved = checkout[r].reservedAt /\ ~trial.used
        => trial.fresh /\ \A k \in Session : ~Counts(k)

TrialInv ==
    /\ TrialTypeOK
    /\ trial.reserved <= stamps
    /\ trial.session # 0 => WasGiven(trial.session)
    /\ Once
    /\ \A k \in Session : Attached(k) /\ UsedUp(k)
    /\ \A r \in Requests : RequestFits(r) /\ Holds(r)
    /\ \A q, r \in Requests : OwnStamp(q, r)

-----------------------------------------------------------------------------
(* The trial: types *)

LEMMA TrialTypeInit == TrialInit => TrialTypeOK
BY TrialParameters
   DEF TrialInit, TrialTypeOK, NoTrial, TrialColumns, Stamp, Session, CheckoutSession, NoCheckoutRequest,
       CheckoutRequest

\* Clearing a reservation leaves columns.
LEMMA ClearedType ==
    ASSUME TrialTypeOK, NEW reservedAt, NEW k
    PROVE  Cleared(reservedAt, k) \in TrialColumns
BY DEF TrialTypeOK, TrialColumns, Cleared, Stamp

LEMMA GivenType ==
    ASSUME TrialTypeOK, NEW k
    PROVE  [sessions EXCEPT ![k].given = TRUE] \in [Session -> CheckoutSession]
<1>1. sessions \in [Session -> CheckoutSession]
  BY DEF TrialTypeOK
<1>2. ASSUME k \in Session
      PROVE  [sessions[k] EXCEPT !.given = TRUE] \in CheckoutSession
  <2>1. sessions[k] \in CheckoutSession
    BY <1>1, <1>2
  <2>2. QED
    BY <2>1 DEF CheckoutSession
<1>3. QED
  BY <1>1, <1>2

LEMMA RequestType ==
    ASSUME TrialTypeOK, NEW r \in Requests
    PROVE  checkout[r] \in CheckoutRequest /\ NoCheckoutRequest \in CheckoutRequest
BY DEF TrialTypeOK, CheckoutRequest, NoCheckoutRequest, NoTrial, TrialColumns, Stamp

LEMMA TypeOfCheckoutStep ==
    ASSUME TrialTypeOK, NEW r \in Requests, CheckoutStep(r)
    PROVE  TrialTypeOK'
<1> USE DEF TrialTypeOK, Stamp
<1>0. /\ checkout[r] \in CheckoutRequest /\ NoCheckoutRequest \in CheckoutRequest
      /\ \A q \in CheckoutRequest : [checkout EXCEPT ![r] = q] \in [Requests -> CheckoutRequest]
  BY RequestType
<1>1. ASSUME NEW wants \in BOOLEAN, StartCheckout(r, wants) PROVE TrialTypeOK'
  <2>1. [NoCheckoutRequest EXCEPT !.pc = "account", !.wants = wants] \in CheckoutRequest
    BY <1>0 DEF CheckoutRequest
  <2>2. QED
    BY <1>0, <1>1, <2>1 DEF StartCheckout
<1>2. CASE ReadTrial(r)
  <2>1. checkout' \in [Requests -> CheckoutRequest]
    BY <1>0, <1>2 DEF ReadTrial, CheckoutRequest
  <2>2. QED
    BY <1>2, <2>1 DEF ReadTrial
<1>3. CASE Resume(r)
  <2>1. checkout' \in [Requests -> CheckoutRequest]
    BY <1>0, <1>3 DEF Resume, Respond, To, CheckoutRequest
  <2>2. sessions' \in [Session -> CheckoutSession]
    BY <1>3, GivenType DEF Resume, Give
  <2>3. QED
    BY <1>3, <2>1, <2>2 DEF Resume
<1>4. CASE ClearExpired(r)
  <2>1. checkout' \in [Requests -> CheckoutRequest]
    BY <1>0, <1>4 DEF ClearExpired, Respond, To, CheckoutRequest
  <2>2. QED
    BY <1>4, <2>1, ClearedType DEF ClearExpired
<1>5. CASE reserve_free_trial(r)
  <2>1. CASE To(r, "recheck") /\ UNCHANGED <<trial, stamps>>
    <3>1. checkout' \in [Requests -> CheckoutRequest]
      BY <1>0, <2>1 DEF To, CheckoutRequest
    <3>2. QED
      BY <1>5, <2>1, <3>1 DEF reserve_free_trial
  <2>2. CASE /\ stamps' = stamps + 1
             /\ trial' = [trial EXCEPT !.reserved = stamps + 1, !.fresh = TRUE]
             /\ checkout' = [checkout EXCEPT ![r].pc = "create", ![r].reservedAt = stamps + 1]
    <3>1. stamps + 1 \in Nat
      OBVIOUS
    <3>2. [checkout[r] EXCEPT !.pc = "create", !.reservedAt = stamps + 1] \in CheckoutRequest
      BY <1>0, <3>1 DEF CheckoutRequest
    <3>3. checkout' \in [Requests -> CheckoutRequest]
      BY <1>0, <2>2, <3>2
    <3>4. trial' \in TrialColumns
      BY <2>2, <3>1 DEF TrialColumns
    <3>5. QED
      BY <1>5, <2>2, <3>1, <3>3, <3>4 DEF reserve_free_trial
  <2>3. QED
    BY <1>5, <2>1, <2>2 DEF reserve_free_trial
<1>6. CASE Recheck(r)
  <2>1. checkout' \in [Requests -> CheckoutRequest]
    BY <1>0, <1>6 DEF Recheck, Respond, CheckoutRequest
  <2>2. QED
    BY <1>6, <2>1 DEF Recheck
<1>7. CASE CreateSession(r)
  <2>1. checkout' \in [Requests -> CheckoutRequest]
    BY <1>0, <1>7 DEF CreateSession, Respond, CheckoutRequest
  <2>2. sessions' \in [Session -> CheckoutSession]
    BY <1>0, <1>7 DEF CreateSession, CheckoutSession, CheckoutRequest
  <2>3. QED
    BY <1>7, <2>1, <2>2 DEF CreateSession
<1>8. CASE CreateFails(r)
  <2>1. checkout' \in [Requests -> CheckoutRequest]
    BY <1>0, <1>8 DEF CreateFails, Respond
  <2>2. checkoutDeaths' \in 0..MaxCheckoutDeaths
    BY <1>8, TrialParameters DEF CreateFails
  <2>3. QED
    BY <1>8, <2>1, <2>2, ClearedType DEF CreateFails
<1>9. CASE Track(r)
  <2>1. checkout' \in [Requests -> CheckoutRequest]
    BY <1>0, <1>9 DEF Track, Respond, To, CheckoutRequest
  <2>2. sessions' \in [Session -> CheckoutSession]
    BY <1>9, GivenType DEF Track, Give
  <2>3. trial' \in TrialColumns
    BY <1>0, <1>9, SMTT(30) DEF Track, TrialColumns, CheckoutRequest
  <2>4. QED
    BY <1>9, <2>1, <2>2, <2>3 DEF Track
<1>10. CASE ExpireUntracked(r)
  <2>1. checkout' \in [Requests -> CheckoutRequest]
    BY <1>0, <1>10 DEF ExpireUntracked, To, CheckoutRequest
  <2>2. sessions' \in [Session -> CheckoutSession]
    BY <1>10 DEF ExpireUntracked, CheckoutSession
  <2>3. QED
    BY <1>10, <2>1, <2>2 DEF ExpireUntracked
<1>11. CASE Release(r)
  BY <1>0, <1>11, ClearedType DEF Release, Respond
<1>12. CASE CheckoutDies(r)
  <2>1. checkoutDeaths' \in 0..MaxCheckoutDeaths
    BY <1>12, TrialParameters DEF CheckoutDies
  <2>2. QED
    BY <1>0, <1>12, <2>1 DEF CheckoutDies, Respond
<1>13. QED
  BY <1>1, <1>2, <1>3, <1>4, <1>5, <1>6, <1>7, <1>8, <1>9, <1>10, <1>11, <1>12 DEF CheckoutStep

LEMMA TrialTypeNext ==
    ASSUME TrialTypeOK, [TrialNext]_trialVars
    PROVE  TrialTypeOK'
<1>1. ASSUME NEW r \in Requests, CheckoutStep(r) PROVE TrialTypeOK'
  BY <1>1, TypeOfCheckoutStep
<1>2. ASSUME NEW k \in Session, Pays(k) PROVE TrialTypeOK'
  BY <1>2 DEF Pays, TrialTypeOK, CheckoutSession
<1>3. ASSUME NEW k \in Session, SessionExpires(k) PROVE TrialTypeOK'
  BY <1>3 DEF SessionExpires, TrialTypeOK, CheckoutSession
<1>4. ASSUME NEW k \in Session, RowMoves(k) PROVE TrialTypeOK'
  BY <1>4 DEF RowMoves, TrialTypeOK
<1>5. ASSUME NEW k \in Session, ConsumeTrial(k) PROVE TrialTypeOK'
  BY <1>5 DEF ConsumeTrial, TrialTypeOK, TrialColumns, Stamp
<1>6. CASE ReservationLapses
  BY <1>6 DEF ReservationLapses, TrialTypeOK, TrialColumns
<1>7. CASE UNCHANGED trialVars
  BY <1>7 DEF trialVars, TrialTypeOK
<1>8. QED
  BY <1>1, <1>2, <1>3, <1>4, <1>5, <1>6, <1>7 DEF TrialNext

\* The columns, the sessions and the requests have their types, whatever the bounds.
THEOREM TrialTypeCorrect == TrialSpec => []TrialTypeOK
BY TrialTypeInit, TrialTypeNext, PTL DEF TrialSpec

-----------------------------------------------------------------------------
(* Steps that return no session and take no reservation *)

\* A session that was returned stays so, an expired one stays expired, and none begins to count.
Keeps(k) == /\ WasGiven(k) => WasGiven(k)'
            /\ sessions[k].status = "expired" => sessions'[k].status = "expired"
            /\ sessions[k].status # "none" => sessions'[k].status # "none"
Grows(k) == Keeps(k) /\ (Counts(k)' => Counts(k))

\* The columns stay, or the trial is used, or a reservation is given up that no session counts for.
ColumnsKept ==
    \/ trial' = trial
    \/ trial'.used /\ trial'.session = 0 /\ trial'.reserved = 0
    \/ /\ \A k \in Session : ~Counts(k)
       /\ trial'.used = trial.used /\ trial'.session = 0 /\ trial'.reserved = 0

LEMMA QuietStep ==
    ASSUME TrialInv, TrialTypeOK', ColumnsKept, stamps' = stamps,
           \A k \in Session : Grows(k) /\ (UsedUp(k)' \/ mapped'[k] = mapped[k]),
           \A r \in Requests : /\ RequestFits(r)' \/ checkout'[r] = checkout[r]
                               /\ checkout'[r].reservedAt \in {0, checkout[r].reservedAt}
    PROVE  TrialInv'
<1>1. trial'.reserved <= stamps' /\ (trial'.session # 0 => WasGiven(trial.session)')
  <2>1. CASE trial' = trial
    BY <2>1 DEF TrialInv, Grows, Keeps, TrialTypeOK, TrialColumns
  <2>2. CASE trial'.session = 0 /\ trial'.reserved = 0
    BY <2>2 DEF TrialInv, TrialTypeOK, Stamp
  <2>3. QED
    BY <2>1, <2>2 DEF ColumnsKept
<1>2. Once'
  BY DEF Once, TrialInv, Grows, Keeps
<1>3. ASSUME NEW k \in Session PROVE Attached(k)' /\ UsedUp(k)'
  <2>1. Attached(k) /\ UsedUp(k) /\ (Counts(k)' => Counts(k))
    BY DEF TrialInv, Grows, Keeps
  <2>2. Attached(k)'
    BY <2>1 DEF ColumnsKept, Attached
  <2>3. trial.used => trial'.used
    BY <2>1 DEF ColumnsKept
  <2>4. UsedUp(k)'
    BY <2>1, <2>3 DEF UsedUp
  <2>5. QED
    BY <2>2, <2>4
<1>4. ASSUME NEW r \in Requests PROVE RequestFits(r)' /\ Holds(r)'
  <2>1. RequestFits(r) /\ Holds(r)
    BY DEF TrialInv
  <2>2. RequestFits(r)'
    <3>1. CASE checkout'[r] = checkout[r]
      BY <2>1, <3>1 DEF RequestFits, Grows, Keeps
    <3>2. QED
      BY <3>1
  <2>3. Holds(r)'
    <3>1. SUFFICES ASSUME checkout'[r].reservedAt # 0, trial'.reserved = checkout'[r].reservedAt,
                          ~trial'.used
                   PROVE  trial'.fresh /\ \A k \in Session : ~Counts(k)'
      BY DEF Holds
    <3>2. checkout'[r].reservedAt = checkout[r].reservedAt /\ trial' = trial
      BY <3>1 DEF ColumnsKept
    <3>3. trial.fresh /\ \A k \in Session : ~Counts(k)
      BY <2>1, <3>1, <3>2 DEF Holds
    <3>4. QED
      BY <3>2, <3>3 DEF Grows, Keeps
  <2>4. QED
    BY <2>2, <2>3
<1>5. ASSUME NEW q \in Requests, NEW r \in Requests PROVE OwnStamp(q, r)'
  BY DEF TrialInv, OwnStamp
<1>6. QED
  BY <1>1, <1>2, <1>3, <1>4, <1>5 DEF TrialInv

\* A step that leaves the sessions alone.
LEMMA GrowsWhenKept ==
    ASSUME sessions' = sessions
    PROVE  \A k \in Session : Grows(k)
BY DEF Grows, Keeps, Counts, WasGiven

\* What clearTrialReservation does to the columns, when no session counts for the reservation.
LEMMA ClearedKept ==
    ASSUME TrialInv, NEW reservedAt, NEW last, trial' = Cleared(reservedAt, last),
           trial' # trial => \A k \in Session : ~Counts(k)
    PROVE  ColumnsKept
<1>1. trial \in TrialColumns
  BY DEF TrialInv, TrialTypeOK
<1>2. trial' = trial \/ trial' = [trial EXCEPT !.reserved = 0, !.session = 0, !.fresh = FALSE]
  BY DEF Cleared
<1>3. trial' = trial \/ (trial'.used = trial.used /\ trial'.session = 0 /\ trial'.reserved = 0)
  BY <1>1, <1>2 DEF TrialColumns
<1>4. QED
  BY <1>3 DEF ColumnsKept

LEMMA RequestTypes ==
    ASSUME TrialInv, NEW r \in Requests
    PROVE  /\ checkout[r] \in CheckoutRequest /\ RequestFits(r) /\ Holds(r)
           /\ checkout \in [Requests -> CheckoutRequest]
           /\ trial \in TrialColumns /\ stamps \in Nat /\ sessions \in [Session -> CheckoutSession]
BY DEF TrialInv, TrialTypeOK, Stamp

\* A request that answers carries nothing.
LEMMA Answered ==
    ASSUME TrialInv, NEW r \in Requests, Respond(r), stamps' = stamps
    PROVE  \A q \in Requests : /\ RequestFits(q)' \/ checkout'[q] = checkout[q]
                               /\ checkout'[q].reservedAt \in {0, checkout[q].reservedAt}
<1>1. checkout \in [Requests -> CheckoutRequest] /\ stamps \in Nat
  BY RequestTypes
<1>2. checkout'[r] = NoCheckoutRequest /\ \A q \in Requests : q # r => checkout'[q] = checkout[q]
  BY <1>1 DEF Respond
<1>3. RequestFits(r)'
  BY <1>1, <1>2 DEF RequestFits, NoCheckoutRequest
<1>4. checkout'[r].reservedAt = 0
  BY <1>2 DEF NoCheckoutRequest
<1>5. QED
  BY <1>2, <1>3, <1>4

\* A request that moves, its reservation aside, and nothing else that does.
LEMMA Moved ==
    ASSUME TrialInv, NEW r \in Requests, NEW q, checkout' = [checkout EXCEPT ![r] = q],
           q.reservedAt \in {0, checkout[r].reservedAt}, RequestFits(r)'
    PROVE  \A p \in Requests : /\ RequestFits(p)' \/ checkout'[p] = checkout[p]
                               /\ checkout'[p].reservedAt \in {0, checkout[p].reservedAt}
<1>1. checkout \in [Requests -> CheckoutRequest]
  BY RequestTypes
<1>2. QED
  BY <1>1

-----------------------------------------------------------------------------
(* The steps of a request *)

LEMMA InvStart ==
    ASSUME TrialInv, TrialTypeOK', NEW r \in Requests, NEW wants \in BOOLEAN, StartCheckout(r, wants)
    PROVE  TrialInv'
<1> DEFINE q == [NoCheckoutRequest EXCEPT !.pc = "account", !.wants = wants]
<1>1. checkout' = [checkout EXCEPT ![r] = q] /\ checkout \in [Requests -> CheckoutRequest]
  BY RequestTypes DEF StartCheckout
<1>2. trial' = trial /\ stamps' = stamps /\ sessions' = sessions /\ mapped' = mapped
  BY DEF StartCheckout
<1>3. q.reservedAt = 0 /\ q.pc = "account" /\ checkout'[r] = q /\ stamps \in Nat
  BY <1>1, RequestTypes DEF NoCheckoutRequest
<1> HIDE DEF q
<1>4. RequestFits(r)'
  BY <1>2, <1>3 DEF RequestFits
<1>5. QED
  BY <1>1, <1>2, <1>3, <1>4, Moved, GrowsWhenKept, QuietStep DEF ColumnsKept

\* The columns as they were read name a session that was returned.
LEMMA ResumableIsGiven ==
    ASSUME TrialInv, Resumable(trial)
    PROVE  trial.session \in Session /\ WasGiven(trial.session)
BY DEF TrialInv, TrialTypeOK, TrialColumns, Resumable

LEMMA InvReadTrial ==
    ASSUME TrialInv, TrialTypeOK', NEW r \in Requests, ReadTrial(r)
    PROVE  TrialInv'
<1> DEFINE q == [checkout[r] EXCEPT !.seen = trial,
                    !.pc = IF ~checkout[r].wants THEN "create"
                           ELSE IF Resumable(trial) THEN "resume" ELSE "reserve"]
<1>1. /\ checkout \in [Requests -> CheckoutRequest] /\ checkout[r] \in CheckoutRequest
      /\ checkout[r].pc = "account" /\ RequestFits(r)
  BY RequestTypes DEF ReadTrial, CheckoutAt
<1>2. trial' = trial /\ stamps' = stamps /\ sessions' = sessions /\ mapped' = mapped
  BY DEF ReadTrial
<1>3. checkout' = [checkout EXCEPT ![r] = q]
  BY <1>1 DEF ReadTrial
<1>4. /\ q.reservedAt = checkout[r].reservedAt /\ q.seen = trial /\ q.wants = checkout[r].wants
      /\ q.pc \in {"create", "resume", "reserve"}
      /\ q.pc = "create" => ~q.wants
      /\ q.pc # "create" => q.wants
      /\ q.pc = "resume" => Resumable(trial)
      /\ checkout'[r] = q
  BY <1>1, <1>3 DEF CheckoutRequest
<1> HIDE DEF q
<1>5. RequestFits(r)'
  <2>1. checkout[r].reservedAt = 0 /\ stamps \in Nat
    BY <1>1, RequestTypes DEF RequestFits
  <2>2. q.pc = "resume" => /\ q.seen.session \in Session /\ sessions'[q.seen.session].given
                           /\ sessions'[q.seen.session].status # "none"
    BY <1>2, <1>4, ResumableIsGiven DEF WasGiven
  <2>3. QED
    BY <1>2, <1>4, <2>1, <2>2 DEF RequestFits, WasGiven
<1>6. QED
  BY <1>2, <1>3, <1>4, <1>5, Moved, GrowsWhenKept, QuietStep DEF ColumnsKept

LEMMA InvResume ==
    ASSUME TrialInv, TrialTypeOK', NEW r \in Requests, Resume(r)
    PROVE  TrialInv'
<1> DEFINE k == checkout[r].seen.session
<1>1. /\ checkout \in [Requests -> CheckoutRequest] /\ checkout[r] \in CheckoutRequest
      /\ checkout[r].pc = "resume" /\ RequestFits(r) /\ sessions \in [Session -> CheckoutSession]
  BY RequestTypes DEF Resume, CheckoutAt
<1>2. trial' = trial /\ stamps' = stamps /\ mapped' = mapped
  BY DEF Resume
<1>3. k \in Session /\ WasGiven(k)
  BY <1>1 DEF RequestFits
<1>4. CASE sessions' = sessions /\ Respond(r)
  BY <1>2, <1>4, Answered, GrowsWhenKept, QuietStep DEF ColumnsKept
<1>5. CASE Give(k) /\ Respond(r)
  <2>1. sessions' = sessions
    <3>1. sessions[k] \in CheckoutSession /\ sessions[k].given = TRUE
      BY <1>1, <1>3 DEF WasGiven, CheckoutSession
    <3>2. [sessions[k] EXCEPT !.given = TRUE] = sessions[k]
      BY <3>1 DEF CheckoutSession
    <3>3. QED
      BY <1>1, <1>3, <1>5, <3>2 DEF Give
  <2>2. QED
    BY <1>4, <1>5, <2>1
<1>6. CASE sessions' = sessions /\ To(r, "clear") /\ sessions[k].status \notin {"open", "complete"}
  <2> DEFINE q == [checkout[r] EXCEPT !.pc = "clear"]
  <2>1. checkout' = [checkout EXCEPT ![r] = q] /\ checkout'[r] = q
    BY <1>1, <1>6 DEF To
  <2>2. /\ q.reservedAt = checkout[r].reservedAt /\ q.seen = checkout[r].seen /\ q.pc = "clear"
        /\ q.wants
    BY <1>1 DEF CheckoutRequest, RequestFits
  <2> HIDE DEF q
  <2>3. sessions[k].status = "expired"
    <3>1. sessions[k].status \in {"none", "open", "complete", "expired"}
      BY <1>1, <1>3 DEF CheckoutSession
    <3>2. QED
      BY <1>3, <1>6, <3>1 DEF WasGiven
  <2>4. RequestFits(r)'
    <3>1. checkout[r].reservedAt = 0 /\ stamps \in Nat
      BY <1>1, RequestTypes DEF RequestFits
    <3>2. QED
      BY <1>2, <1>3, <1>6, <2>1, <2>2, <2>3, <3>1 DEF RequestFits, WasGiven
  <2>5. QED
    BY <1>2, <1>6, <2>1, <2>2, <2>4, Moved, GrowsWhenKept, QuietStep DEF ColumnsKept
<1>7. QED
  BY <1>4, <1>5, <1>6 DEF Resume

LEMMA InvClearExpired ==
    ASSUME TrialInv, TrialTypeOK', NEW r \in Requests, ClearExpired(r)
    PROVE  TrialInv'
<1>1. /\ checkout \in [Requests -> CheckoutRequest] /\ checkout[r] \in CheckoutRequest
      /\ checkout[r].pc = "clear" /\ RequestFits(r)
  BY RequestTypes DEF ClearExpired, CheckoutAt
<1>2. stamps' = stamps /\ mapped' = mapped /\ sessions' = sessions
      /\ trial' = Cleared(checkout[r].seen.reserved, checkout[r].seen.session)
  BY DEF ClearExpired
<1>3. ColumnsKept
  <2>1. ASSUME trial' # trial, NEW k \in Session, Counts(k)
        PROVE  FALSE
    <3>1. ~trial.used /\ trial.session = checkout[r].seen.session
      BY <1>1, <1>2, <2>1 DEF Cleared, RequestFits, Session
    <3>2. trial.session = k
      BY <2>1, <3>1 DEF TrialInv, Attached
    <3>3. QED
      BY <1>1, <2>1, <3>1, <3>2 DEF RequestFits, Counts
  <2>2. QED
    BY <1>2, <2>1, ClearedKept
<1>4. CASE Respond(r)
  BY <1>2, <1>3, <1>4, Answered, GrowsWhenKept, QuietStep
<1>5. CASE To(r, "reserve")
  <2> DEFINE q == [checkout[r] EXCEPT !.pc = "reserve"]
  <2>1. checkout' = [checkout EXCEPT ![r] = q] /\ checkout'[r] = q
    BY <1>1, <1>5 DEF To
  <2>2. q.reservedAt = checkout[r].reservedAt /\ q.pc = "reserve" /\ q.wants
    BY <1>1 DEF CheckoutRequest, RequestFits
  <2> HIDE DEF q
  <2>3. RequestFits(r)'
    BY <1>1, <1>2, <2>1, <2>2 DEF RequestFits
  <2>4. QED
    BY <1>2, <1>3, <2>1, <2>2, <2>3, Moved, GrowsWhenKept, QuietStep
<1>6. QED
  BY <1>4, <1>5 DEF ClearExpired

LEMMA InvRecheck ==
    ASSUME TrialInv, TrialTypeOK', NEW r \in Requests, Recheck(r)
    PROVE  TrialInv'
<1>1. /\ checkout \in [Requests -> CheckoutRequest] /\ checkout[r] \in CheckoutRequest
      /\ checkout[r].pc = "recheck" /\ RequestFits(r)
  BY RequestTypes DEF Recheck, CheckoutAt
<1>2. trial' = trial /\ stamps' = stamps /\ mapped' = mapped /\ sessions' = sessions
  BY DEF Recheck
<1>3. CASE Respond(r)
  BY <1>2, <1>3, Answered, GrowsWhenKept, QuietStep DEF ColumnsKept
<1>4. CASE /\ Resumable(trial)
           /\ checkout' = [checkout EXCEPT ![r].pc = "resume", ![r].seen = trial, ![r].again = TRUE]
  <2> DEFINE q == [checkout[r] EXCEPT !.pc = "resume", !.seen = trial, !.again = TRUE]
  <2>1. checkout' = [checkout EXCEPT ![r] = q] /\ checkout'[r] = q
    BY <1>1, <1>4
  <2>2. q.reservedAt = checkout[r].reservedAt /\ q.pc = "resume" /\ q.seen = trial /\ q.wants
    BY <1>1 DEF CheckoutRequest, RequestFits
  <2> HIDE DEF q
  <2>3. RequestFits(r)'
    <3>1. checkout[r].reservedAt = 0 /\ stamps \in Nat
      BY <1>1, RequestTypes DEF RequestFits
    <3>2. /\ q.seen.session \in Session /\ sessions'[q.seen.session].given
          /\ sessions'[q.seen.session].status # "none"
      BY <1>2, <1>4, <2>2, ResumableIsGiven DEF WasGiven
    <3>3. QED
      BY <1>2, <2>1, <2>2, <3>1, <3>2 DEF RequestFits, WasGiven
  <2>4. QED
    BY <1>2, <2>1, <2>2, <2>3, Moved, GrowsWhenKept, QuietStep DEF ColumnsKept
<1>5. QED
  BY <1>3, <1>4 DEF Recheck

LEMMA InvCreateSession ==
    ASSUME TrialInv, TrialTypeOK', NEW r \in Requests, CreateSession(r)
    PROVE  TrialInv'
<1>1. /\ checkout \in [Requests -> CheckoutRequest] /\ checkout[r] \in CheckoutRequest
      /\ checkout[r].pc = "create" /\ RequestFits(r) /\ sessions \in [Session -> CheckoutSession]
      /\ stamps \in Nat
  BY RequestTypes DEF CreateSession, CheckoutAt
<1>2. trial' = trial /\ stamps' = stamps /\ mapped' = mapped
  BY DEF CreateSession
<1>3. PICK k \in Session :
        /\ sessions[k].status = "none"
        /\ sessions' = [sessions EXCEPT ![k] = [status |-> "open", trial |-> checkout[r].wants,
                                                given |-> ~checkout[r].wants]]
        /\ IF checkout[r].wants
           THEN checkout' = [checkout EXCEPT ![r].pc = "track", ![r].session = k] ELSE Respond(r)
  BY DEF CreateSession
<1>4. \A j \in Session : Grows(j)
  <2>1. sessions'[k] = [status |-> "open", trial |-> checkout[r].wants, given |-> ~checkout[r].wants]
    BY <1>1, <1>3
  <2>2. ~Counts(k)' /\ ~WasGiven(k)
    <3>1. CASE checkout[r].wants
      <4>1. (~checkout[r].wants) = FALSE
        BY <3>1
      <4>2. sessions'[k] = [status |-> "open", trial |-> checkout[r].wants, given |-> FALSE]
        BY <2>1, <4>1
      <4>3. QED
        BY <1>3, <4>2 DEF Counts, WasGiven
    <3>2. CASE ~checkout[r].wants
      BY <1>3, <2>1, <3>2 DEF Counts, WasGiven
    <3>3. QED
      BY <3>1, <3>2
  <2>3. \A j \in Session : j # k => sessions'[j] = sessions[j]
    BY <1>1, <1>3
  <2>4. QED
    BY <1>3, <2>2, <2>3 DEF Grows, Keeps, Counts, WasGiven
<1>5. CASE ~checkout[r].wants
  BY <1>2, <1>3, <1>4, <1>5, Answered, QuietStep DEF ColumnsKept
<1>6. CASE checkout[r].wants
  <2> DEFINE q == [checkout[r] EXCEPT !.pc = "track", !.session = k]
  <2>1. checkout' = [checkout EXCEPT ![r] = q] /\ checkout'[r] = q
    BY <1>1, <1>3, <1>6
  <2>2. /\ q.reservedAt = checkout[r].reservedAt /\ q.pc = "track" /\ q.session = k
        /\ q.wants = checkout[r].wants
    BY <1>1 DEF CheckoutRequest
  <2> HIDE DEF q
  <2>3. sessions'[k].status = "open"
    BY <1>1, <1>3
  <2>4. RequestFits(r)'
    BY <1>1, <1>2, <1>6, <2>1, <2>2, <2>3 DEF RequestFits
  <2>5. QED
    BY <1>2, <1>4, <2>1, <2>2, <2>4, Moved, QuietStep DEF ColumnsKept
<1>7. QED
  BY <1>5, <1>6

\* A request that gives its reservation up: while it holds it no session counts.
LEMMA OwnCleared ==
    ASSUME TrialInv, NEW r \in Requests, checkout[r].reservedAt # 0,
           trial' = Cleared(checkout[r].reservedAt, 0)
    PROVE  ColumnsKept
<1>1. ASSUME trial' # trial
      PROVE  \A k \in Session : ~Counts(k)
  BY <1>1, RequestTypes DEF Cleared, Holds
<1>2. QED
  BY <1>1, ClearedKept

LEMMA InvCreateFails ==
    ASSUME TrialInv, TrialTypeOK', NEW r \in Requests, CreateFails(r)
    PROVE  TrialInv'
<1>1. stamps' = stamps /\ mapped' = mapped /\ sessions' = sessions /\ Respond(r)
      /\ checkout[r].pc = "create"
  BY DEF CreateFails, CheckoutAt
<1>2. ColumnsKept
  <2>1. CASE ~checkout[r].wants
    <3>1. trial' = trial
      BY <2>1 DEF CreateFails
    <3>2. QED
      BY <3>1 DEF ColumnsKept
  <2>2. CASE checkout[r].wants
    <3>1. checkout[r].reservedAt # 0
      BY <1>1, <2>2, RequestTypes DEF RequestFits
    <3>2. QED
      BY <2>2, <3>1, OwnCleared DEF CreateFails
  <2>3. QED
    BY <2>1, <2>2
<1>3. QED
  BY <1>1, <1>2, Answered, GrowsWhenKept, QuietStep

LEMMA InvExpireUntracked ==
    ASSUME TrialInv, TrialTypeOK', NEW r \in Requests, ExpireUntracked(r)
    PROVE  TrialInv'
<1> DEFINE q == [checkout[r] EXCEPT !.pc = "release"]
<1>0. PICK k : k = checkout[r].session
  OBVIOUS
<1>1. /\ checkout \in [Requests -> CheckoutRequest] /\ checkout[r] \in CheckoutRequest
      /\ checkout[r].pc = "expire" /\ RequestFits(r) /\ sessions \in [Session -> CheckoutSession]
      /\ stamps \in Nat
  BY RequestTypes DEF ExpireUntracked, CheckoutAt
<1>2. /\ trial' = trial /\ stamps' = stamps /\ mapped' = mapped
      /\ sessions' = [sessions EXCEPT ![k].status = "expired"]
  BY <1>0 DEF ExpireUntracked
<1>3. checkout' = [checkout EXCEPT ![r] = q] /\ checkout'[r] = q
  BY <1>1 DEF ExpireUntracked, To
<1>4. /\ q.reservedAt = checkout[r].reservedAt /\ q.pc = "release" /\ q.session = k
      /\ q.wants
  BY <1>0, <1>1 DEF CheckoutRequest, RequestFits
<1>5. k \in Session /\ q.reservedAt # 0
  BY <1>0, <1>1, <1>4 DEF RequestFits
<1> HIDE DEF q
<1>6. \A j \in Session : Grows(j)
  <2>1. sessions[k] \in CheckoutSession /\ sessions'[k] = [sessions[k] EXCEPT !.status = "expired"]
    BY <1>1, <1>2, <1>5
  <2>2. sessions'[k].status = "expired" /\ sessions'[k].given = sessions[k].given
    BY <2>1 DEF CheckoutSession
  <2>3. \A j \in Session : j # k => sessions'[j] = sessions[j]
    BY <1>1, <1>2
  <2>4. Grows(k)
    <3>1. ~Counts(k)'
      BY <2>2 DEF Counts
    <3>2. Keeps(k)
      BY <2>2 DEF Keeps, WasGiven
    <3>3. QED
      BY <3>1, <3>2 DEF Grows
  <2>5. \A j \in Session : j # k => Grows(j)
    BY <2>3 DEF Grows, Keeps, Counts, WasGiven
  <2>6. QED
    BY <2>4, <2>5
<1>7. RequestFits(r)'
  BY <1>1, <1>2, <1>3, <1>4, <1>5 DEF RequestFits
<1>8. QED
  BY <1>2, <1>3, <1>4, <1>6, <1>7, Moved, QuietStep DEF ColumnsKept

LEMMA InvRelease ==
    ASSUME TrialInv, TrialTypeOK', NEW r \in Requests, Release(r)
    PROVE  TrialInv'
<1>1. /\ stamps' = stamps /\ mapped' = mapped /\ sessions' = sessions /\ Respond(r)
      /\ checkout[r].pc = "release" /\ trial' = Cleared(checkout[r].reservedAt, 0)
  BY DEF Release, CheckoutAt
<1>2. checkout[r].reservedAt # 0
  BY <1>1, RequestTypes DEF RequestFits
<1>3. ColumnsKept
  BY <1>1, <1>2, OwnCleared
<1>4. QED
  BY <1>1, <1>3, Answered, GrowsWhenKept, QuietStep

LEMMA InvCheckoutDies ==
    ASSUME TrialInv, TrialTypeOK', NEW r \in Requests, CheckoutDies(r)
    PROVE  TrialInv'
<1>1. trial' = trial /\ stamps' = stamps /\ mapped' = mapped /\ sessions' = sessions /\ Respond(r)
  BY DEF CheckoutDies
<1>2. QED
  BY <1>1, Answered, GrowsWhenKept, QuietStep DEF ColumnsKept

-----------------------------------------------------------------------------
(* Stripe and the webhook *)

\* A session that is paid or that expires.
LEMMA SessionEnds ==
    ASSUME TrialInv, NEW k \in Session, sessions[k].status = "open", NEW end \in {"complete", "expired"},
           sessions' = [sessions EXCEPT ![k].status = end]
    PROVE  \A j \in Session : Grows(j)
<1>1. sessions \in [Session -> CheckoutSession]
  BY DEF TrialInv, TrialTypeOK
<1>2. sessions[k] \in CheckoutSession /\ sessions'[k] = [sessions[k] EXCEPT !.status = end]
  BY <1>1
<1>3. /\ sessions'[k].status = end /\ sessions'[k].given = sessions[k].given
      /\ sessions'[k].trial = sessions[k].trial
  BY <1>2 DEF CheckoutSession
<1>4. \A j \in Session : j # k => sessions'[j] = sessions[j]
  BY <1>1
<1>5. Grows(k)
  BY <1>3 DEF Grows, Keeps, Counts, WasGiven
<1>6. \A j \in Session : j # k => Grows(j)
  BY <1>4 DEF Grows, Keeps, Counts, WasGiven
<1>7. QED
  BY <1>5, <1>6

LEMMA InvSession ==
    ASSUME TrialInv, TrialTypeOK', NEW k \in Session, Pays(k) \/ SessionExpires(k)
    PROVE  TrialInv'
<1>1. /\ trial' = trial /\ stamps' = stamps /\ mapped' = mapped /\ checkout' = checkout
      /\ sessions[k].status = "open"
      /\ \/ sessions' = [sessions EXCEPT ![k].status = "complete"]
         \/ sessions' = [sessions EXCEPT ![k].status = "expired"]
  BY DEF Pays, SessionExpires
<1>2. \A j \in Session : Grows(j)
  BY <1>1, SessionEnds
<1>3. QED
  BY <1>1, <1>2, QuietStep DEF ColumnsKept

LEMMA InvRowMoves ==
    ASSUME TrialInv, TrialTypeOK', NEW k \in Session, RowMoves(k)
    PROVE  TrialInv'
<1>1. trial' = trial /\ stamps' = stamps /\ sessions' = sessions /\ checkout' = checkout
  BY DEF RowMoves
<1>2. ASSUME NEW j \in Session PROVE UsedUp(j)' \/ mapped'[j] = mapped[j]
  BY <1>1 DEF RowMoves, UsedUp, TrialInv, TrialTypeOK
<1>3. QED
  BY <1>1, <1>2, GrowsWhenKept, QuietStep DEF ColumnsKept

LEMMA InvConsumeTrial ==
    ASSUME TrialInv, TrialTypeOK', NEW k \in Session, ConsumeTrial(k)
    PROVE  TrialInv'
<1>1. /\ stamps' = stamps /\ sessions' = sessions /\ checkout' = checkout
      /\ trial'.used /\ trial'.session = 0 /\ trial'.reserved = 0
  BY DEF ConsumeTrial
<1>2. \A j \in Session : UsedUp(j)'
  BY <1>1 DEF UsedUp
<1>3. QED
  BY <1>1, <1>2, GrowsWhenKept, QuietStep DEF ColumnsKept

-----------------------------------------------------------------------------
(* The steps that take a reservation, attach a session to it, or let it lapse *)

LEMMA InvReserve ==
    ASSUME TrialInv, TrialTypeOK', NEW r \in Requests, reserve_free_trial(r)
    PROVE  TrialInv'
<1>1. /\ checkout \in [Requests -> CheckoutRequest] /\ checkout[r] \in CheckoutRequest
      /\ checkout[r].pc = "reserve" /\ RequestFits(r) /\ stamps \in Nat /\ checkout[r].wants
      /\ trial \in TrialColumns /\ trial.reserved \in Nat /\ trial.reserved <= stamps
  BY RequestTypes DEF reserve_free_trial, CheckoutAt, RequestFits, TrialColumns, Stamp, TrialInv
<1>2. sessions' = sessions /\ mapped' = mapped
  BY DEF reserve_free_trial
<1>3. CASE To(r, "recheck") /\ UNCHANGED <<trial, stamps>>
  <2> DEFINE q == [checkout[r] EXCEPT !.pc = "recheck"]
  <2>1. checkout' = [checkout EXCEPT ![r] = q] /\ checkout'[r] = q
    BY <1>1, <1>3 DEF To
  <2>2. q.reservedAt = checkout[r].reservedAt /\ q.pc = "recheck" /\ q.wants
    BY <1>1 DEF CheckoutRequest
  <2> HIDE DEF q
  <2>3. RequestFits(r)'
    BY <1>1, <1>3, <2>1, <2>2 DEF RequestFits
  <2>4. QED
    BY <1>2, <1>3, <2>1, <2>2, <2>3, Moved, GrowsWhenKept, QuietStep DEF ColumnsKept
<1>4. CASE /\ ~trial.used /\ ~(trial.reserved # 0 /\ trial.fresh)
           /\ stamps' = stamps + 1
           /\ trial' = [trial EXCEPT !.reserved = stamps + 1, !.fresh = TRUE]
           /\ checkout' = [checkout EXCEPT ![r].pc = "create", ![r].reservedAt = stamps + 1]
  <2> DEFINE q == [checkout[r] EXCEPT !.pc = "create", !.reservedAt = stamps + 1]
  <2>1. checkout'[r] = q /\ \A p \in Requests : p # r => checkout'[p] = checkout[p]
    BY <1>1, <1>4
  <2>2. q.reservedAt = stamps + 1 /\ q.pc = "create" /\ q.wants
    BY <1>1 DEF CheckoutRequest
  <2> HIDE DEF q
  <2>3. /\ trial'.reserved = stamps + 1 /\ trial'.fresh /\ trial'.session = trial.session
        /\ trial'.used = trial.used
    BY <1>1, <1>4 DEF TrialColumns
  <2>4. \A k \in Session : ~Counts(k) /\ ~Counts(k)'
    <3>1. \A k \in Session : ~Counts(k)
      BY <1>4 DEF TrialInv, Attached
    <3>2. QED
      BY <1>2, <3>1 DEF Counts
  <2>5. trial'.reserved <= stamps' /\ (trial'.session # 0 => WasGiven(trial.session)')
    BY <1>1, <1>2, <1>4, <2>3 DEF TrialInv, WasGiven
  <2>6. Once' /\ \A k \in Session : Attached(k)' /\ UsedUp(k)'
    BY <1>2, <2>3, <2>4 DEF Once, Attached, UsedUp, TrialInv
  <2>7. ASSUME NEW p \in Requests PROVE RequestFits(p)' /\ Holds(p)'
    <3>1. RequestFits(p)'
      <4>1. CASE p = r
        BY <1>1, <1>4, <2>1, <2>2, <4>1 DEF RequestFits
      <4>2. CASE p # r
        <5>1. RequestFits(p) /\ checkout[p].reservedAt \in Nat
          BY RequestTypes DEF CheckoutRequest, Stamp
        <5>2. QED
          BY <1>1, <1>2, <1>4, <2>1, <4>2, <5>1 DEF RequestFits, WasGiven
      <4>3. QED
        BY <4>1, <4>2
    <3>2. Holds(p)'
      BY <2>3, <2>4 DEF Holds
    <3>3. QED
      BY <3>1, <3>2
  <2>8. ASSUME NEW p \in Requests, NEW o \in Requests PROVE OwnStamp(p, o)'
    <3>1. /\ checkout[p].reservedAt <= stamps /\ checkout[p].reservedAt \in Nat
          /\ checkout[o].reservedAt <= stamps /\ checkout[o].reservedAt \in Nat
      BY RequestTypes DEF RequestFits, CheckoutRequest, Stamp
    <3>2. OwnStamp(p, o)
      BY DEF TrialInv
    <3>3. QED
      BY <1>1, <2>1, <2>2, <3>1, <3>2 DEF OwnStamp
  <2>9. QED
    BY <2>5, <2>6, <2>7, <2>8 DEF TrialInv
<1>5. QED
  BY <1>3, <1>4 DEF reserve_free_trial

LEMMA InvTrack ==
    ASSUME TrialInv, TrialTypeOK', NEW r \in Requests, Track(r)
    PROVE  TrialInv'
<1>0. PICK k : k = checkout[r].session
  OBVIOUS
<1>1. /\ checkout \in [Requests -> CheckoutRequest] /\ checkout[r] \in CheckoutRequest
      /\ checkout[r].pc = "track" /\ RequestFits(r) /\ Holds(r) /\ stamps \in Nat
      /\ sessions \in [Session -> CheckoutSession] /\ trial \in TrialColumns
  BY RequestTypes DEF Track, CheckoutAt
<1>2. stamps' = stamps /\ mapped' = mapped
  BY DEF Track
<1>3. k \in Session /\ sessions[k].status # "none" /\ checkout[r].reservedAt # 0 /\ checkout[r].wants
  BY <1>0, <1>1 DEF RequestFits
<1>4. CASE trial' = trial /\ sessions' = sessions /\ To(r, "expire")
  <2> DEFINE q == [checkout[r] EXCEPT !.pc = "expire"]
  <2>1. checkout' = [checkout EXCEPT ![r] = q] /\ checkout'[r] = q
    BY <1>1, <1>4 DEF To
  <2>2. q.reservedAt = checkout[r].reservedAt /\ q.pc = "expire" /\ q.session = k /\ q.wants
    BY <1>0, <1>1, <1>3 DEF CheckoutRequest
  <2> HIDE DEF q
  <2>3. RequestFits(r)'
    BY <1>1, <1>2, <1>3, <2>1, <2>2 DEF RequestFits
  <2>4. QED
    BY <1>2, <1>4, <2>1, <2>2, <2>3, Moved, GrowsWhenKept, QuietStep DEF ColumnsKept
<1>5. CASE /\ trial.reserved = checkout[r].reservedAt /\ ~trial.used
           /\ trial' = [trial EXCEPT !.session = k] /\ Give(k) /\ Respond(r)
  <2>1. trial.fresh /\ \A j \in Session : ~Counts(j)
    BY <1>1, <1>3, <1>5 DEF Holds
  <2>2. /\ trial'.session = k /\ trial'.reserved = trial.reserved /\ trial'.fresh /\ ~trial'.used
        /\ trial'.reserved # 0
    BY <1>1, <1>3, <1>5, <2>1 DEF TrialColumns
  <2>3. sessions[k] \in CheckoutSession /\ sessions'[k] = [sessions[k] EXCEPT !.given = TRUE]
    BY <1>1, <1>3, <1>5 DEF Give
  <2>4. /\ sessions'[k].given /\ sessions'[k].status = sessions[k].status
        /\ \A j \in Session : j # k => sessions'[j] = sessions[j]
    BY <1>1, <1>5, <2>3 DEF Give, CheckoutSession
  <2>5. \A j \in Session : Keeps(j) /\ (j # k => ~Counts(j)')
    BY <1>3, <2>1, <2>4 DEF Keeps, WasGiven, Counts
  <2>6. WasGiven(k)'
    BY <1>3, <2>4 DEF WasGiven
  <2>7. trial'.reserved <= stamps' /\ (trial'.session # 0 => WasGiven(trial.session)')
    BY <1>2, <1>3, <2>2, <2>4 DEF TrialInv, WasGiven
  <2>8. Once' /\ \A j \in Session : Attached(j)' /\ UsedUp(j)'
    <3>1. Once'
      BY <2>5 DEF Once
    <3>2. \A j \in Session : Attached(j)'
      BY <2>2, <2>5 DEF Attached
    <3>3. \A j \in Session : UsedUp(j)'
      BY <1>2, <1>5 DEF UsedUp, TrialInv
    <3>4. QED
      BY <3>1, <3>2, <3>3
  <2>9. /\ checkout'[r] = NoCheckoutRequest
        /\ \A p \in Requests : p # r => checkout'[p] = checkout[p]
        /\ NoCheckoutRequest.reservedAt = 0 /\ NoCheckoutRequest.pc = "idle"
    BY <1>1, <1>5 DEF Respond, NoCheckoutRequest
  <2>10. ASSUME NEW p \in Requests PROVE RequestFits(p)' /\ Holds(p)'
    <3>1. CASE p = r
      BY <1>1, <1>2, <2>9, <3>1 DEF RequestFits, Holds
    <3>2. CASE p # r
      <4>1. RequestFits(p)'
        BY <1>2, <2>5, <2>9, <3>2, RequestTypes DEF RequestFits, Keeps
      <4>2. checkout[p].reservedAt = 0 \/ checkout[p].reservedAt # trial'.reserved
        BY <1>5, <2>2, <3>2 DEF TrialInv, OwnStamp
      <4>3. QED
        BY <2>9, <3>2, <4>1, <4>2 DEF Holds
    <3>3. QED
      BY <3>1, <3>2
  <2>11. ASSUME NEW p \in Requests, NEW o \in Requests PROVE OwnStamp(p, o)'
    BY <2>9 DEF TrialInv, OwnStamp
  <2>12. QED
    BY <2>7, <2>8, <2>10, <2>11 DEF TrialInv
<1>6. QED
  BY <1>0, <1>4, <1>5 DEF Track

LEMMA InvLapses ==
    ASSUME TrialInv, TrialTypeOK', ReservationLapses
    PROVE  TrialInv'
<1>1. /\ stamps' = stamps /\ sessions' = sessions /\ mapped' = mapped /\ checkout' = checkout
      /\ trial' = [trial EXCEPT !.fresh = FALSE] /\ trial \in TrialColumns
  BY DEF ReservationLapses, TrialInv, TrialTypeOK
<1>2. trial'.used = trial.used /\ trial'.reserved = trial.reserved /\ trial'.session = trial.session
  BY <1>1 DEF TrialColumns
<1>3. ASSUME NEW k \in Session, Counts(k) PROVE trial.used
  BY <1>3 DEF ReservationLapses, Counts, UsedUp, TrialInv
<1>4. Once' /\ \A k \in Session : Attached(k)' /\ UsedUp(k)'
  <2>1. \A k \in Session : Counts(k)' <=> Counts(k)
    BY <1>1 DEF Counts
  <2>2. Once'
    BY <2>1 DEF TrialInv, Once
  <2>3. \A k \in Session : Attached(k)' /\ UsedUp(k)'
    BY <1>1, <1>2, <1>3, <2>1 DEF TrialInv, Attached, UsedUp
  <2>4. QED
    BY <2>2, <2>3
<1>5. ASSUME NEW r \in Requests PROVE RequestFits(r)' /\ Holds(r)'
  <2>1. RequestFits(r) /\ checkout[r].pc = "idle"
    BY RequestTypes DEF ReservationLapses, CheckoutAt
  <2>2. checkout[r].reservedAt = 0
    BY <2>1 DEF RequestFits
  <2>3. QED
    BY <1>1, <2>1, <2>2 DEF RequestFits, Holds
<1>6. QED
  BY <1>1, <1>2, <1>4, <1>5 DEF TrialInv, OwnStamp, WasGiven

-----------------------------------------------------------------------------
LEMMA InvInit == TrialInit => TrialInv
<1> SUFFICES ASSUME TrialInit PROVE TrialInv
  OBVIOUS
<1>1. \A k \in Session : ~Counts(k) /\ UsedUp(k)
  BY DEF TrialInit, Counts, UsedUp
<1>2. /\ trial.reserved = 0 /\ trial.session = 0 /\ stamps = 0
      /\ \A r \in Requests : checkout[r].reservedAt = 0 /\ checkout[r].pc = "idle"
  BY DEF TrialInit, NoTrial, NoCheckoutRequest
<1>3. \A r \in Requests : RequestFits(r) /\ Holds(r)
  BY <1>2 DEF RequestFits, Holds
<1>4. Once /\ \A k \in Session : Attached(k) /\ UsedUp(k)
  BY <1>1 DEF Once, Attached
<1>5. \A q, r \in Requests : OwnStamp(q, r)
  BY <1>2 DEF OwnStamp
<1>6. QED
  BY <1>2, <1>3, <1>4, <1>5, TrialTypeInit DEF TrialInv

LEMMA InvNext ==
    ASSUME TrialInv, [TrialNext]_trialVars
    PROVE  TrialInv'
<1>1. TrialTypeOK'
  BY TrialTypeNext DEF TrialInv
<1>2. ASSUME NEW r \in Requests, CheckoutStep(r) PROVE TrialInv'
  BY <1>1, <1>2, InvStart, InvReadTrial, InvResume, InvClearExpired, InvReserve, InvRecheck,
     InvCreateSession, InvCreateFails, InvTrack, InvExpireUntracked, InvRelease, InvCheckoutDies
     DEF CheckoutStep
<1>3. ASSUME NEW k \in Session, Pays(k) \/ SessionExpires(k) \/ RowMoves(k) \/ ConsumeTrial(k)
      PROVE  TrialInv'
  BY <1>1, <1>3, InvSession, InvRowMoves, InvConsumeTrial
<1>4. CASE ReservationLapses
  BY <1>1, <1>4, InvLapses
<1>5. CASE UNCHANGED trialVars
  <2>1. /\ trial' = trial /\ stamps' = stamps /\ sessions' = sessions /\ mapped' = mapped
        /\ checkout' = checkout
    BY <1>5 DEF trialVars
  <2>2. \A r \in Requests : checkout'[r].reservedAt \in {0, checkout[r].reservedAt}
    BY <2>1
  <2>3. QED
    BY <1>1, <2>1, <2>2, GrowsWhenKept, QuietStep DEF ColumnsKept
<1>6. QED
  BY <1>2, <1>3, <1>4, <1>5 DEF TrialNext

\* A set in which any two members are the same has one at most.
LEMMA OneMember ==
    ASSUME NEW S, \A x, y \in S : x = y
    PROVE  Cardinality(S) <= 1
<1>1. CASE S = {}
  BY <1>1, FS_EmptySet
<1>2. CASE S # {}
  <2>1. PICK x \in S : TRUE
    BY <1>2
  <2>2. S = {x}
    BY <2>1
  <2>3. QED
    BY <2>2, FS_Singleton
<1>3. QED
  BY <1>1, <1>2

\* However many requests race, die and are repeated, and however their sessions are paid or expire,
\* the customer never holds two Checkout Sessions that would start, or have started, a free trial.
THEOREM OneTrialCorrect == TrialSpec => []OneTrial
<1>1. TrialInv => OneTrial
  <2> SUFFICES ASSUME TrialInv PROVE OneTrial
    OBVIOUS
  <2> DEFINE S == {k \in Session : /\ sessions[k].trial /\ sessions[k].given
                                   /\ sessions[k].status \in {"open", "complete"}}
  <2>1. \A j, k \in S : j = k
    BY DEF TrialInv, Once, Counts
  <2> HIDE DEF S
  <2>2. Cardinality(S) <= 1
    BY <2>1, OneMember
  <2>3. QED
    BY <2>2 DEF OneTrial, S
<1>2. QED
  BY <1>1, InvInit, InvNext, PTL DEF TrialSpec

-----------------------------------------------------------------------------
(* The sessions of the apps: types *)

LEMMA SessionTypeInit == SessionInit => SessionTypeOK
  BY SessionParameters DEF SessionInit, SessionTypeOK, AuthSession, AccessToken, NoAppRequest

\* What a request goes on to, or that it ends, keeps the type of the requests.
LEMMA SessionCallType ==
    ASSUME SessionTypeOK, NEW c \in SessionCalls,
           \/ AppDone(c)
           \/ appCall[c] # NoAppRequest /\ AfterEnsure(c)
           \/ appCall[c] # NoAppRequest /\ AfterRevoke(c)
           \/ /\ appCall[c] # NoAppRequest
              /\ \E at \in {"ensure", "insert", "answer", "gate", "lease", "find", "flip", "sweep",
                            "sign out", "update", "others"} : Proceeds(c, at)
    PROVE  appCall' \in [SessionCalls -> SessionRequest \cup {NoAppRequest}]
<1>1. CASE AppDone(c)
  BY <1>1 DEF AppDone, SessionTypeOK
<1>2. ASSUME appCall[c] # NoAppRequest,
             NEW at \in {"ensure", "insert", "answer", "gate", "lease", "find", "flip", "sweep",
                         "sign out", "update", "others"}, Proceeds(c, at)
      PROVE  appCall' \in [SessionCalls -> SessionRequest \cup {NoAppRequest}]
  <2>1. [appCall[c] EXCEPT !.at = at] \in SessionRequest
    BY <1>2 DEF SessionTypeOK, SessionRequest
  <2>2. appCall' = [appCall EXCEPT ![c] = [appCall[c] EXCEPT !.at = at]]
    BY <1>2 DEF Proceeds
  <2>3. QED
    BY <2>1, <2>2 DEF SessionTypeOK
<1>3. QED
  BY <1>1, <1>2 DEF AfterEnsure, AfterRevoke

\* A request at a place is a request.
LEMMA AtIsRequest ==
    ASSUME SessionTypeOK, NEW c \in SessionCalls,
           \E at \in {"ensure", "insert", "answer", "gate", "lease", "find", "flip", "sweep",
                      "sign out", "update", "others"} : AppAt(c, at)
    PROVE  appCall[c] # NoAppRequest /\ appCall[c] \in SessionRequest /\ appCall[c].of \in Sessions
<1>1. appCall[c].at # "idle"
  BY DEF AppAt
<1>2. appCall[c] # NoAppRequest
  <2>1. NoAppRequest.at = "idle"
    BY DEF NoAppRequest
  <2>2. QED
    BY <1>1, <2>1
<1>3. appCall[c] \in SessionRequest
  BY <1>2 DEF SessionTypeOK
<1>4. QED
  BY <1>2, <1>3 DEF SessionRequest

LEMMA OpenedType ==
    ASSUME SessionTypeOK, NEW s \in Sessions, NEW app \in BOOLEAN
    PROVE  Opened(s, app) \in [Sessions -> AuthSession]
<1>1. [state |-> "live", app |-> app, by |-> password] \in AuthSession
  BY DEF SessionTypeOK, AuthSession
<1>2. QED
  BY <1>1 DEF SessionTypeOK, Opened

LEMMA SessionTypeNext == SessionTypeOK /\ [SessionNext]_sessionVars => SessionTypeOK'
<1> SUFFICES ASSUME SessionTypeOK, [SessionNext]_sessionVars PROVE SessionTypeOK'
  OBVIOUS
<1> USE SessionParameters
<1> USE DEF SessionTypeOK
<1>1. ASSUME NEW s \in Sessions, WebSignsIn(s) PROVE SessionTypeOK'
  BY <1>1 DEF WebSignsIn, Opened, AuthSession, AccessToken
<1>2. ASSUME NEW s \in Sessions, TokenAges(s) \/ RefreshIsRefused(s) PROVE SessionTypeOK'
  BY <1>2 DEF TokenAges, RefreshIsRefused, AccessToken
<1>3. ASSUME NEW s \in Sessions, NEW t \in Sessions, ConfirmsDeletion(s, t) PROVE SessionTypeOK'
  BY <1>3 DEF ConfirmsDeletion, Opened, AuthSession
<1>4. ASSUME NEW c \in SessionCalls, Ask(c) PROVE SessionTypeOK'
  <2>1. \E op \in {"login", "authorize", "logout", "remove", "password"},
           at \in {"ensure", "find", "update"}, s \in Sessions : SessionAsks(c, op, at, s)
    BY <1>4 DEF Ask
  <2>2. appCall' \in [SessionCalls -> SessionRequest \cup {NoAppRequest}]
    <3>1. PICK op \in {"login", "authorize", "logout", "remove", "password"},
               at \in {"ensure", "find", "update"}, s \in Sessions : SessionAsks(c, op, at, s)
      BY <2>1
    <3>2. [op |-> op, at |-> at, of |-> s] \in SessionRequest
      BY DEF SessionRequest
    <3>3. QED
      BY <3>1, <3>2 DEF SessionAsks
  <2>3. session' \in [Sessions -> AuthSession]
    <3>1. session' = session \/ \E s \in Sessions : session' = Opened(s, TRUE)
      BY <1>4 DEF Ask
    <3>2. QED
      BY <3>1, OpenedType
  <2>4. QED
    BY <1>4, <2>2, <2>3 DEF Ask
<1>5. ASSUME NEW c \in SessionCalls, EnsureSessionDevice(c) \/ GateDevice(c) \/ FindDevice(c) \/ LeaseRoute(c)
      PROVE  SessionTypeOK'
  <2>1. appCall[c] # NoAppRequest /\ appCall[c].of \in Sessions
    BY <1>5, AtIsRequest DEF EnsureSessionDevice, GateDevice, FindDevice, LeaseRoute
  <2>2. appCall' \in [SessionCalls -> SessionRequest \cup {NoAppRequest}]
    BY <1>5, <2>1, SessionCallType DEF EnsureSessionDevice, GateDevice, FindDevice, LeaseRoute
  <2>3. QED
    BY <1>5, <2>1, <2>2 DEF EnsureSessionDevice, GateDevice, FindDevice, LeaseRoute
<1>6. ASSUME NEW c \in SessionCalls, InsertSessionDevice(c) \/ FlipDevice(c) \/ SweepLeases(c)
      PROVE  SessionTypeOK'
  <2>1. appCall[c] # NoAppRequest /\ appCall[c].of \in Sessions
    BY <1>6, AtIsRequest DEF InsertSessionDevice, FlipDevice, SweepLeases
  <2>2. appCall' \in [SessionCalls -> SessionRequest \cup {NoAppRequest}]
    BY <1>6, <2>1, SessionCallType DEF InsertSessionDevice, FlipDevice, SweepLeases
  <2>3. QED
    BY <1>6, <2>1, <2>2 DEF InsertSessionDevice, FlipDevice, SweepLeases
<1>7. ASSUME NEW c \in SessionCalls, SessionAnswer(c) \/ SignOutSession(c) PROVE SessionTypeOK'
  <2>1. appCall[c].of \in Sessions
    BY <1>7, AtIsRequest DEF SessionAnswer, SignOutSession
  <2>2. appCall' \in [SessionCalls -> SessionRequest \cup {NoAppRequest}]
    BY <1>7, SessionCallType DEF SessionAnswer, SignOutSession
  <2>3. session' \in [Sessions -> AuthSession]
    <3>1. Ended(appCall[c].of, "left") \in AuthSession
      BY <2>1 DEF Ended, AuthSession
    <3>2. QED
      BY <1>7, <2>1, <3>1 DEF SessionAnswer, SignOutSession
  <2>4. QED
    BY <1>7, <2>1, <2>2, <2>3 DEF SessionAnswer, SignOutSession, AccessToken
<1>8. LetLive \in [Sessions -> AuthSession]
  BY DEF LetLive, AuthSession
<1>9. ASSUME NEW c \in SessionCalls, UpdatePassword(c) PROVE SessionTypeOK'
  <2>1. appCall' \in [SessionCalls -> SessionRequest \cup {NoAppRequest}]
    BY <1>9, AtIsRequest, SessionCallType DEF UpdatePassword
  <2>2. QED
    BY <1>9, <2>1 DEF UpdatePassword
<1>10. ASSUME NEW c \in SessionCalls, SignOutOthers(c) PROVE SessionTypeOK'
  <2>1. appCall' \in [SessionCalls -> SessionRequest \cup {NoAppRequest}]
    BY <1>10, SessionCallType DEF SignOutOthers
  <2>2. session' \in [Sessions -> AuthSession]
    <3>1. \A t \in Sessions : LetLive[t] \in AuthSession /\ Ended(t, "over") \in AuthSession
      BY <1>8 DEF Ended, AuthSession
    <3>2. QED
      BY <1>8, <1>10, <3>1 DEF SignOutOthers
  <2>3. QED
    BY <1>10, <2>1, <2>2 DEF SignOutOthers
<1>11. ASSUME NEW c \in SessionCalls, AppRequestDies(c) PROVE SessionTypeOK'
  <2>1. appCall' \in [SessionCalls -> SessionRequest \cup {NoAppRequest}]
    BY <1>11, SessionCallType DEF AppRequestDies
  <2>2. session' \in [Sessions -> AuthSession]
    BY <1>8, <1>11 DEF AppRequestDies
  <2>3. unswept' \subseteq Sessions
    BY <1>11, AtIsRequest DEF AppRequestDies
  <2>4. QED
    BY <1>11, <2>1, <2>2, <2>3 DEF AppRequestDies
<1>12. CASE UNCHANGED sessionVars
  BY <1>12 DEF sessionVars
<1>13. QED
  BY <1>1, <1>2, <1>3, <1>4, <1>5, <1>6, <1>7, <1>9, <1>10, <1>11, <1>12 DEF SessionNext

\* Every variable stays within its type.  (v1/auth/*.js, api/account/password.js)
THEOREM SessionTypeCorrect == SessionSpec => []SessionTypeOK
  BY SessionTypeInit, SessionTypeNext, PTL DEF SessionSpec

-----------------------------------------------------------------------------
(* What a request may rely on, wherever it is.  The properties are not       *)
(* inductive without it: the session of a logout, once it is signed out, is  *)
(* revoked only because the logout found a device before.                    *)

CallFits(c) ==
    LET r == appCall[c]
        s == r.of
    IN /\ r.op \in {"login", "logout"} => session[s].state # "none"
       /\ r.op = "logout" /\ session[s].app => appDevice[s] # "none"
       /\ r.at = "answer" => r.op = "login" /\ appDevice[s] # "none"
       /\ r.at = "sweep" => appDevice[s] = "REVOKED"
       /\ r.at = "sign out" => r.op = "logout" /\ (session[s].app => appDevice[s] = "REVOKED")
CallsFit == \A c \in SessionCalls : CallFits(c)

\* Nobody has a token of a session that was not opened.
UnopenedIsNobodys == \A s \in Sessions : session[s].state = "none" => token[s] = "none"

SessionInv == UnopenedIsNobodys /\ CallsFit /\ SessionsAgree

LEMMA SessionInvInit == SessionInit => SessionInv
<1> SUFFICES ASSUME SessionInit PROVE SessionInv
  OBVIOUS
<1>1. \A c \in SessionCalls : appCall[c].op = "none" /\ appCall[c].at = "idle"
  BY DEF SessionInit, NoAppRequest
<1>2. CallsFit
  BY <1>1 DEF CallsFit, CallFits
<1>3. UnopenedIsNobodys /\ SessionsAgree
  BY DEF SessionInit, UnopenedIsNobodys, SessionsAgree, TokenHasDevice, LoggedOutIsOff, RevokedIsOff,
         PasswordEndsOthers, SessionLives
<1>4. QED
  BY <1>2, <1>3 DEF SessionInv

-----------------------------------------------------------------------------
(* One step of a device and of a session                                     *)

\* A device is recorded, then revoked, and that is all.
LEMMA DeviceStep ==
    ASSUME SessionTypeOK, [SessionNext]_sessionVars, NEW s \in Sessions
    PROVE  \/ appDevice'[s] = appDevice[s]
           \/ appDevice[s] = "none" /\ appDevice'[s] = "ACTIVE"
           \/ appDevice[s] = "ACTIVE" /\ appDevice'[s] = "REVOKED"
<1> DEFINE Moves == \/ appDevice'[s] = appDevice[s]
                    \/ appDevice[s] = "none" /\ appDevice'[s] = "ACTIVE"
                    \/ appDevice[s] = "ACTIVE" /\ appDevice'[s] = "REVOKED"
<1>1. ASSUME NEW c \in SessionCalls, InsertSessionDevice(c) PROVE Moves
  BY <1>1 DEF InsertSessionDevice, SessionTypeOK
<1>2. ASSUME NEW c \in SessionCalls, FlipDevice(c) PROVE Moves
  BY <1>2 DEF FlipDevice, SessionTypeOK
<1>3. CASE UNCHANGED appDevice
  BY <1>3
<1> HIDE DEF Moves
<1>4. QED
  BY <1>1, <1>2, <1>3
     DEF Moves, SessionNext, sessionVars, WebSignsIn, TokenAges, RefreshIsRefused, ConfirmsDeletion, Ask,
         EnsureSessionDevice, SessionAnswer, GateDevice, LeaseRoute, FindDevice, SweepLeases, SignOutSession,
         UpdatePassword, SignOutOthers, AppRequestDies

\* What was opened stays so, and is the app's for ever or never.
LEMMA SessionStep ==
    ASSUME SessionTypeOK, [SessionNext]_sessionVars, NEW s \in Sessions, session[s].state # "none"
    PROVE  session'[s].state # "none" /\ session'[s].app = session[s].app
<1> DEFINE Stays == session'[s].state # "none" /\ session'[s].app = session[s].app
<1>1. ASSUME NEW t \in Sessions, NEW app \in BOOLEAN, session[t].state = "none", session' = Opened(t, app)
      PROVE  Stays
  BY <1>1 DEF Opened, SessionTypeOK
<1>2. LetLive[s].state # "none" /\ LetLive[s].app = session[s].app
  BY DEF LetLive, SessionTypeOK, AuthSession
<1>3. \A state \in {"over", "left"} : Ended(s, state).state # "none" /\ Ended(s, state).app = session[s].app
  BY DEF Ended
<1>4. ASSUME NEW c \in SessionCalls, SignOutSession(c) PROVE Stays
  BY <1>3, <1>4 DEF SignOutSession, SessionTypeOK
<1>5. ASSUME NEW c \in SessionCalls, SignOutOthers(c) PROVE Stays
  BY <1>2, <1>3, <1>5 DEF SignOutOthers
<1>6. ASSUME NEW c \in SessionCalls, AppRequestDies(c) PROVE Stays
  BY <1>2, <1>6 DEF AppRequestDies
<1>7. CASE UNCHANGED session
  BY <1>7
<1> HIDE DEF Stays
<1>8. QED
  BY <1>1, <1>4, <1>5, <1>6, <1>7
     DEF Stays, SessionNext, sessionVars, WebSignsIn, TokenAges, RefreshIsRefused, ConfirmsDeletion, Ask,
         EnsureSessionDevice, InsertSessionDevice, SessionAnswer, GateDevice, LeaseRoute, FindDevice,
         FlipDevice, SweepLeases, UpdatePassword

-----------------------------------------------------------------------------
(* Requests                                                                  *)

\* A request that does not move still fits.
LEMMA OthersFit ==
    ASSUME SessionTypeOK, [SessionNext]_sessionVars, NEW c \in SessionCalls, CallFits(c),
           appCall'[c] = appCall[c]
    PROVE  CallFits(c)'
<1>1. CASE appCall[c] = NoAppRequest
  BY <1>1 DEF CallFits, NoAppRequest
<1>2. CASE appCall[c] \in SessionRequest
  <2>1. appCall[c].of \in Sessions
    BY <1>2 DEF SessionRequest
  <2>2. QED
    BY <2>1, DeviceStep, SessionStep DEF CallFits
<1>3. QED
  BY <1>1, <1>2 DEF SessionTypeOK

\* A request that moves fits where it comes to.
LEMMA MoverFits ==
    ASSUME SessionTypeOK, SessionInv, [SessionNext]_sessionVars, NEW c \in SessionCalls,
           \/ Ask(c)
           \/ EnsureSessionDevice(c) \/ InsertSessionDevice(c) \/ SessionAnswer(c)
           \/ GateDevice(c) \/ LeaseRoute(c)
           \/ FindDevice(c) \/ FlipDevice(c) \/ SweepLeases(c) \/ SignOutSession(c)
           \/ UpdatePassword(c) \/ SignOutOthers(c) \/ AppRequestDies(c)
    PROVE  CallFits(c)'
<1> DEFINE s == appCall[c].of
<1>1. CallFits(c)
  BY DEF SessionInv, CallsFit
<1>2. CASE AppDone(c)
  <2>1. appCall'[c] = NoAppRequest
    BY <1>2 DEF AppDone, SessionTypeOK
  <2>2. QED
    BY <2>1 DEF CallFits, NoAppRequest
\* It goes on with the same request.
<1>3. ASSUME NEW at \in {"insert", "answer", "gate", "lease", "ensure", "flip", "sweep", "sign out", "others"},
             s \in Sessions, appCall[c] # NoAppRequest, Proceeds(c, at),
             at = "answer" => appCall[c].op = "login" /\ appDevice'[s] # "none",
             at = "sweep" => appDevice'[s] = "REVOKED",
             at = "sign out" => appCall[c].op = "logout" /\ (session'[s].app => appDevice'[s] = "REVOKED")
      PROVE  CallFits(c)'
  <2>1. appCall'[c] = [appCall[c] EXCEPT !.at = at] /\ appCall[c] \in SessionRequest
    BY <1>3 DEF Proceeds, SessionTypeOK
  <2>2. appCall'[c].op = appCall[c].op /\ appCall'[c].of = s /\ appCall'[c].at = at
    BY <2>1 DEF SessionRequest
  <2>3. /\ appCall[c].op \in {"login", "logout"} => session'[s].state # "none"
        /\ appCall[c].op = "logout" /\ session'[s].app => appDevice'[s] # "none"
    BY <1>1, <1>3, DeviceStep, SessionStep DEF CallFits
  <2> HIDE DEF s
  <2>4. QED
    BY <1>3, <2>2, <2>3 DEF CallFits
<1>4. ASSUME Ask(c) PROVE CallFits(c)'
  <2>1. ASSUME NEW t \in Sessions, session[t].state = "none", session' = Opened(t, TRUE),
               SessionAsks(c, "login", "ensure", t)
        PROVE  CallFits(c)'
    <3>1. appCall'[c] = [op |-> "login", at |-> "ensure", of |-> t]
      BY <2>1 DEF SessionAsks, SessionTypeOK
    <3>2. session'[t].state = "live"
      BY <2>1 DEF Opened, SessionTypeOK
    <3>3. QED
      BY <3>1, <3>2 DEF CallFits
  <2>2. ASSUME NEW t \in Sessions, requireUser(t), SessionAsks(c, "logout", "find", t),
               UNCHANGED <<session, appDevice>>
        PROVE  CallFits(c)'
    <3>1. appCall'[c] = [op |-> "logout", at |-> "find", of |-> t]
      BY <2>2 DEF SessionAsks, SessionTypeOK
    <3>2. token[t] # "none"
      BY <2>2 DEF requireUser
    <3>3. session[t].state # "none" /\ (session[t].app => appDevice[t] # "none")
      BY <3>2 DEF SessionInv, UnopenedIsNobodys, SessionsAgree, TokenHasDevice
    <3>4. QED
      BY <2>2, <3>1, <3>3 DEF CallFits
  <2>3. ASSUME NEW t \in Sessions, NEW op \in {"authorize", "remove", "password"},
               NEW at \in {"ensure", "find", "update"}, SessionAsks(c, op, at, t)
        PROVE  CallFits(c)'
    <3>1. appCall'[c] = [op |-> op, at |-> at, of |-> t]
      BY <2>3 DEF SessionAsks, SessionTypeOK
    <3>2. /\ appCall'[c].op \in {"authorize", "remove", "password"}
          /\ appCall'[c].at \in {"ensure", "find", "update"}
      BY <3>1
    <3>3. QED
      BY <3>2 DEF CallFits
  <2>4. QED
    BY <1>4, <2>1, <2>2, <2>3 DEF Ask
<1>5. ASSUME EnsureSessionDevice(c) PROVE CallFits(c)'
  <2>1. s \in Sessions /\ appCall[c] # NoAppRequest
    BY <1>5, AtIsRequest DEF EnsureSessionDevice
  <2>2. QED
    BY <1>3, <1>5, <2>1 DEF EnsureSessionDevice, AfterEnsure
<1>6. ASSUME InsertSessionDevice(c) PROVE CallFits(c)'
  <2>1. s \in Sessions /\ appCall[c] # NoAppRequest
    BY <1>6, AtIsRequest DEF InsertSessionDevice
  <2>2. appDevice[s] = "none" => appDevice'[s] = "ACTIVE"
    BY <1>6, <2>1 DEF InsertSessionDevice, SessionTypeOK
  <2>3. QED
    BY <1>3, <1>6, <2>1, <2>2 DEF InsertSessionDevice, AfterEnsure
<1>7. ASSUME GateDevice(c) PROVE CallFits(c)'
  BY <1>2, <1>3, <1>7, AtIsRequest DEF GateDevice
\* Whoever comes past a device that is not active, in a logout, comes past one that was revoked.
<1>8. ASSUME AfterRevoke(c), s \in Sessions, appCall[c] # NoAppRequest, UNCHANGED session,
             appDevice'[s] # "ACTIVE"
      PROVE  CallFits(c)'
  <2>1. appDevice'[s] \in {"none", "ACTIVE", "REVOKED"}
    BY <1>8, SessionTypeNext DEF SessionTypeOK
  <2>2. appCall[c].op = "logout" /\ session[s].app => appDevice'[s] # "none"
    BY <1>1, <1>8, DeviceStep DEF CallFits
  <2>3. QED
    BY <1>2, <1>3, <1>8, <2>1, <2>2 DEF AfterRevoke
<1>9. ASSUME FindDevice(c) PROVE CallFits(c)'
  <2>1. s \in Sessions /\ appCall[c] # NoAppRequest
    BY <1>9, AtIsRequest DEF FindDevice
  <2>2. QED
    BY <1>3, <1>8, <1>9, <2>1 DEF FindDevice
<1>10. ASSUME FlipDevice(c) PROVE CallFits(c)'
  <2>1. s \in Sessions /\ appCall[c] # NoAppRequest
    BY <1>10, AtIsRequest DEF FlipDevice
  <2>2. CASE appDevice[s] = "ACTIVE"
    <3>1. appDevice'[s] = "REVOKED" /\ Proceeds(c, "sweep")
      BY <1>10, <2>1, <2>2 DEF FlipDevice, SessionTypeOK
    <3>2. QED
      BY <1>3, <2>1, <3>1
  <2>3. CASE appDevice[s] # "ACTIVE"
    BY <1>8, <1>10, <2>1, <2>3 DEF FlipDevice
  <2>4. QED
    BY <2>2, <2>3
<1>11. ASSUME SweepLeases(c) PROVE CallFits(c)'
  <2>1. s \in Sessions /\ appCall[c] # NoAppRequest
    BY <1>11, AtIsRequest DEF SweepLeases
  <2>2. appDevice[s] = "REVOKED"
    BY <1>1, <1>11 DEF SweepLeases, AppAt, CallFits
  <2>3. QED
    BY <1>8, <1>11, <2>1, <2>2 DEF SweepLeases
<1>12. ASSUME UpdatePassword(c) PROVE CallFits(c)'
  BY <1>3, <1>12, AtIsRequest DEF UpdatePassword
<1>13. QED
  BY <1>2, <1>4, <1>5, <1>6, <1>7, <1>9, <1>10, <1>11, <1>12
     DEF SessionAnswer, LeaseRoute, SignOutSession, SignOutOthers, AppRequestDies

LEMMA CallsNext == SessionTypeOK /\ SessionInv /\ [SessionNext]_sessionVars => CallsFit'
<1> SUFFICES ASSUME SessionTypeOK, SessionInv, [SessionNext]_sessionVars, NEW k \in SessionCalls
             PROVE  CallFits(k)'
  BY DEF CallsFit
<1>1. CallFits(k)
  BY DEF SessionInv, CallsFit
<1>2. CASE UNCHANGED appCall
  BY <1>1, <1>2, OthersFit
<1>3. ASSUME NEW c \in SessionCalls,
             \/ Ask(c)
             \/ EnsureSessionDevice(c) \/ InsertSessionDevice(c) \/ SessionAnswer(c)
             \/ GateDevice(c) \/ LeaseRoute(c)
             \/ FindDevice(c) \/ FlipDevice(c) \/ SweepLeases(c) \/ SignOutSession(c)
             \/ UpdatePassword(c) \/ SignOutOthers(c) \/ AppRequestDies(c)
      PROVE  CallFits(k)'
  <2>1. CASE k = c
    BY <1>3, <2>1, MoverFits
  <2>2. CASE k # c
    <3>1. \/ \E op, at, t : SessionAsks(c, op, at, t)
          \/ AppDone(c)
          \/ \E at : Proceeds(c, at)
      BY <1>3 DEF Ask, EnsureSessionDevice, InsertSessionDevice, SessionAnswer, GateDevice, LeaseRoute,
                  FindDevice, FlipDevice, SweepLeases, SignOutSession, UpdatePassword, SignOutOthers,
                  AppRequestDies, AfterEnsure, AfterRevoke
    <3>2. appCall'[k] = appCall[k]
      BY <2>2, <3>1 DEF SessionAsks, AppDone, Proceeds, SessionTypeOK
    <3>3. QED
      BY <1>1, <3>2, OthersFit
  <2>3. QED
    BY <2>1, <2>2
<1>4. QED
  BY <1>2, <1>3 DEF SessionNext, sessionVars, WebSignsIn, TokenAges, RefreshIsRefused, ConfirmsDeletion

-----------------------------------------------------------------------------
(* Tokens, logouts, leases and passwords                                     *)

LEMMA TokensNext ==
    SessionTypeOK /\ SessionInv /\ [SessionNext]_sessionVars => (UnopenedIsNobodys /\ TokenHasDevice)'
<1> SUFFICES ASSUME SessionTypeOK, SessionInv, [SessionNext]_sessionVars, NEW s \in Sessions
             PROVE  /\ session'[s].state = "none" => token'[s] = "none"
                    /\ session'[s].app /\ token'[s] # "none" => appDevice'[s] # "none"
  BY DEF UnopenedIsNobodys, TokenHasDevice
<1> DEFINE Goal == /\ session'[s].state = "none" => token'[s] = "none"
                   /\ session'[s].app /\ token'[s] # "none" => appDevice'[s] # "none"
<1>1. /\ session[s].state = "none" => token[s] = "none"
      /\ session[s].app /\ token[s] # "none" => appDevice[s] # "none"
  BY DEF SessionInv, UnopenedIsNobodys, SessionsAgree, TokenHasDevice
\* Without a new token: its session was opened, and stays so.
<1>2. CASE token'[s] # "none" => token[s] # "none"
  BY <1>1, <1>2, DeviceStep, SessionStep
<1>3. ASSUME WebSignsIn(s) PROVE Goal
  BY <1>3 DEF WebSignsIn, Opened, SessionTypeOK
<1>4. ASSUME NEW c \in SessionCalls, SessionAnswer(c), s = appCall[c].of PROVE Goal
  <2>1. session[s].state # "none" /\ appDevice[s] # "none"
    BY <1>4 DEF SessionInv, CallsFit, CallFits, SessionAnswer, AppAt
  <2>2. QED
    BY <1>4, <2>1, DeviceStep, SessionStep
<1>5. ASSUME NEW t \in Sessions, WebSignsIn(t), t # s PROVE token'[s] = token[s]
  BY <1>5 DEF WebSignsIn, SessionTypeOK
<1>6. ASSUME NEW c \in SessionCalls, SessionAnswer(c), s # appCall[c].of PROVE token'[s] = token[s]
  BY <1>6 DEF SessionAnswer, SessionTypeOK
<1>7. ASSUME NEW t \in Sessions, TokenAges(t) \/ RefreshIsRefused(t)
      PROVE  token'[s] # "none" => token[s] # "none"
  BY <1>7 DEF TokenAges, RefreshIsRefused, SessionTypeOK
<1>8. ASSUME NEW c \in SessionCalls, SignOutSession(c) PROVE token'[s] # "none" => token[s] # "none"
  BY <1>8 DEF SignOutSession, SessionTypeOK
<1>9. CASE UNCHANGED token
  BY <1>2, <1>9
<1> HIDE DEF Goal
<1>10. Goal
  BY <1>2, <1>3, <1>4, <1>5, <1>6, <1>7, <1>8, <1>9
     DEF Goal, SessionNext, sessionVars, ConfirmsDeletion, Ask, EnsureSessionDevice, InsertSessionDevice,
         GateDevice, LeaseRoute, FindDevice, FlipDevice, SweepLeases, UpdatePassword, SignOutOthers,
         AppRequestDies
<1>11. QED
  BY <1>10 DEF Goal

LEMMA LogoutsNext == SessionTypeOK /\ SessionInv /\ [SessionNext]_sessionVars => LoggedOutIsOff'
<1> SUFFICES ASSUME SessionTypeOK, SessionInv, [SessionNext]_sessionVars, NEW s \in Sessions,
                    session'[s].state = "left", session'[s].app
             PROVE  appDevice'[s] = "REVOKED"
  BY DEF LoggedOutIsOff
<1>1. CASE session[s].state = "left"
  BY <1>1, DeviceStep, SessionStep DEF SessionInv, SessionsAgree, LoggedOutIsOff
<1>2. ASSUME session[s].state # "left", NEW c \in SessionCalls, SignOutSession(c)
      PROVE  appDevice'[s] = "REVOKED"
  <2>1. appCall[c].of \in Sessions
    BY <1>2, AtIsRequest DEF SignOutSession
  <2>2. s = appCall[c].of /\ session'[s].app = session[s].app
    BY <1>2, <2>1 DEF SignOutSession, Ended, SessionTypeOK
  <2>3. session[s].app => appDevice[s] = "REVOKED"
    BY <1>2, <2>2 DEF SessionInv, CallsFit, CallFits, SignOutSession, AppAt
  <2>4. QED
    BY <2>2, <2>3, DeviceStep
\* No other step tells a user that his session is over.
<1>3. ASSUME session[s].state # "left", \A c \in SessionCalls : ~SignOutSession(c) PROVE FALSE
  <2>1. LetLive[s].state # "left"
    BY <1>3 DEF LetLive, SessionTypeOK, AuthSession
  <2>2. ASSUME NEW t \in Sessions, NEW app \in BOOLEAN PROVE Opened(t, app)[s].state # "left"
    BY <1>3 DEF Opened, SessionTypeOK
  <2>3. ASSUME NEW c \in SessionCalls, SignOutOthers(c) PROVE FALSE
    BY <2>1, <2>3 DEF SignOutOthers, Ended
  <2>4. ASSUME NEW c \in SessionCalls, AppRequestDies(c) PROVE FALSE
    BY <1>3, <2>1, <2>4 DEF AppRequestDies
  <2>5. ASSUME UNCHANGED session PROVE FALSE
    BY <1>3, <2>5
  <2>6. QED
    BY <1>3, <2>2, <2>3, <2>4, <2>5
       DEF SessionNext, sessionVars, WebSignsIn, TokenAges, RefreshIsRefused, ConfirmsDeletion, Ask,
           EnsureSessionDevice, InsertSessionDevice, SessionAnswer, GateDevice, LeaseRoute, FindDevice,
           FlipDevice, SweepLeases, UpdatePassword
<1>4. QED
  BY <1>1, <1>2, <1>3

\* A request about to end the leases of a session's device.
Sweeps(c, s) == AppAt(c, "sweep") /\ appCall[c].of = s

LEMMA LeasesNext == SessionTypeOK /\ SessionInv /\ [SessionNext]_sessionVars => RevokedIsOff'
<1> SUFFICES ASSUME SessionTypeOK, SessionInv, [SessionNext]_sessionVars, NEW s \in Sessions,
                    s \in leased', appDevice'[s] = "REVOKED"
             PROVE  s \in unswept' \/ \E c \in SessionCalls : Sweeps(c, s)'
  BY SessionTypeNext DEF RevokedIsOff, Sweeps, SessionTypeOK
<1> DEFINE Goal == s \in unswept' \/ \E c \in SessionCalls : Sweeps(c, s)'
<1>1. unswept \subseteq unswept'
  BY DEF SessionNext, sessionVars, WebSignsIn, TokenAges, RefreshIsRefused, ConfirmsDeletion, Ask,
         EnsureSessionDevice, InsertSessionDevice, SessionAnswer, GateDevice, LeaseRoute, FindDevice,
         FlipDevice, SweepLeases, SignOutSession, UpdatePassword, SignOutOthers, AppRequestDies
\* A lease is given for a device that is active, at once.
<1>2. appDevice[s] = "REVOKED" => s \in leased
  BY DEF SessionNext, sessionVars, WebSignsIn, TokenAges, RefreshIsRefused, ConfirmsDeletion, Ask,
         EnsureSessionDevice, InsertSessionDevice, SessionAnswer, GateDevice, LeaseRoute, FindDevice,
         FlipDevice, SweepLeases, SignOutSession, UpdatePassword, SignOutOthers, AppRequestDies
\* Whoever revokes it is about to end them.
<1>3. CASE appDevice[s] # "REVOKED"
  <2>1. appDevice'[s] # appDevice[s]
    BY <1>3
  <2>2. ASSUME NEW c \in SessionCalls, FlipDevice(c) PROVE Goal
    <3>1. appCall[c].of = s /\ Proceeds(c, "sweep") /\ appCall[c] # NoAppRequest
      BY <2>1, <2>2, AtIsRequest DEF FlipDevice, SessionTypeOK
    <3>2. appCall'[c].at = "sweep" /\ appCall'[c].of = s
      BY <3>1 DEF Proceeds, SessionTypeOK, SessionRequest
    <3>3. QED
      BY <3>2 DEF Sweeps, AppAt
  <2>3. ASSUME NEW c \in SessionCalls, InsertSessionDevice(c) PROVE FALSE
    BY <1>3, <2>3 DEF InsertSessionDevice, SessionTypeOK
  <2>4. ~UNCHANGED appDevice
    BY <2>1
  <2> HIDE DEF Goal
  <2>5. Goal
    BY <2>2, <2>3, <2>4
       DEF SessionNext, sessionVars, WebSignsIn, TokenAges, RefreshIsRefused, ConfirmsDeletion, Ask,
           EnsureSessionDevice, SessionAnswer, GateDevice, LeaseRoute, FindDevice, SweepLeases,
           SignOutSession, UpdatePassword, SignOutOthers, AppRequestDies
  <2>6. QED
    BY <2>5 DEF Goal
<1>4. CASE appDevice[s] = "REVOKED"
  <2>1. CASE s \in unswept
    BY <1>1, <2>1
  <2>2. ASSUME NEW c \in SessionCalls, Sweeps(c, s) PROVE Goal
    <3>1. CASE appCall'[c] = appCall[c]
      BY <2>2, <3>1 DEF Sweeps, AppAt
    <3>2. ASSUME SweepLeases(c) PROVE FALSE
      BY <2>2, <3>2 DEF Sweeps, SweepLeases
    <3>3. ASSUME AppRequestDies(c) PROVE s \in unswept'
      BY <2>2, <3>3 DEF Sweeps, AppRequestDies
    <3>4. ASSUME NEW k \in SessionCalls \ {c},
                 \/ \E op, at, t : SessionAsks(k, op, at, t)
                 \/ AppDone(k)
                 \/ \E at : Proceeds(k, at)
          PROVE  appCall'[c] = appCall[c]
      BY <3>4 DEF SessionAsks, AppDone, Proceeds, SessionTypeOK
    <3>5. CASE UNCHANGED appCall
      BY <3>1, <3>5
    <3>6. appCall[c] # NoAppRequest
      BY <2>2, AtIsRequest DEF Sweeps
    <3> HIDE DEF Goal
    <3>7. ASSUME NEW k \in SessionCalls \ {c},
                 \/ Ask(k)
                 \/ EnsureSessionDevice(k) \/ InsertSessionDevice(k) \/ SessionAnswer(k)
                 \/ GateDevice(k) \/ LeaseRoute(k)
                 \/ FindDevice(k) \/ FlipDevice(k) \/ SweepLeases(k) \/ SignOutSession(k)
                 \/ UpdatePassword(k) \/ SignOutOthers(k) \/ AppRequestDies(k)
          PROVE  Goal
      BY <3>1, <3>4, <3>7
         DEF Ask, EnsureSessionDevice, InsertSessionDevice, SessionAnswer, GateDevice, LeaseRoute, FindDevice,
             FlipDevice, SweepLeases, SignOutSession, UpdatePassword, SignOutOthers, AppRequestDies,
             AfterEnsure, AfterRevoke
    <3>8. ASSUME \/ Ask(c)
                 \/ EnsureSessionDevice(c) \/ InsertSessionDevice(c) \/ SessionAnswer(c)
                 \/ GateDevice(c) \/ LeaseRoute(c)
                 \/ FindDevice(c) \/ FlipDevice(c) \/ SignOutSession(c)
                 \/ UpdatePassword(c) \/ SignOutOthers(c)
          PROVE  FALSE
      BY <2>2, <3>6, <3>8
         DEF Sweeps, AppAt, Ask, SessionAsks, EnsureSessionDevice, InsertSessionDevice, SessionAnswer,
             GateDevice, LeaseRoute, FindDevice, FlipDevice, SignOutSession, UpdatePassword, SignOutOthers
    <3>9. s \in unswept' => Goal
      BY DEF Goal
    <3>10. QED
      BY <3>2, <3>3, <3>5, <3>7, <3>8, <3>9
         DEF SessionNext, sessionVars, WebSignsIn, TokenAges, RefreshIsRefused, ConfirmsDeletion
  <2>3. QED
    BY <1>2, <1>4, <2>1, <2>2 DEF SessionInv, SessionsAgree, RevokedIsOff, Sweeps
<1>5. QED
  BY <1>3, <1>4

LEMMA PasswordsNext == SessionTypeOK /\ SessionInv /\ [SessionNext]_sessionVars => PasswordEndsOthers'
<1> SUFFICES ASSUME SessionTypeOK, SessionInv, [SessionNext]_sessionVars, NEW s \in Sessions,
                    session'[s].state = "live", session'[s].by # password'
             PROVE  \E c \in SessionCalls : AppAt(c, "others")'
  BY DEF PasswordEndsOthers, SessionLives
<1> DEFINE Goal == \E c \in SessionCalls : AppAt(c, "others")'
<1>1. ASSUME NEW c \in SessionCalls, UpdatePassword(c) PROVE Goal
  <2>1. appCall[c] # NoAppRequest /\ appCall[c] \in SessionRequest
    BY <1>1, AtIsRequest DEF UpdatePassword
  <2>2. appCall'[c].at = "others"
    BY <1>1, <2>1 DEF UpdatePassword, Proceeds, SessionTypeOK, SessionRequest
  <2>3. QED
    BY <2>2 DEF AppAt
<1>2. LetLive[s].state = "live" => LetLive[s].by = password
  BY DEF LetLive, SessionLives, SessionTypeOK, AuthSession
<1>3. ASSUME NEW c \in SessionCalls, SignOutOthers(c) PROVE FALSE
  BY <1>2, <1>3 DEF SignOutOthers, Ended
<1>4. ASSUME NEW c \in SessionCalls, AppRequestDies(c), AppAt(c, "others") PROVE FALSE
  BY <1>2, <1>4 DEF AppRequestDies
<1>5. ASSUME NEW t \in Sessions, NEW app \in BOOLEAN, session' = Opened(t, app), UNCHANGED password
      PROVE  session'[s] = session[s]
  BY <1>5 DEF Opened, SessionTypeOK
<1>6. ASSUME NEW c \in SessionCalls, SignOutSession(c) PROVE session'[s] = session[s]
  <2>1. Ended(appCall[c].of, "left").state # "live"
    BY DEF Ended
  <2>2. QED
    BY <1>6, <2>1 DEF SignOutSession, SessionTypeOK
\* What is left changes neither the sessions nor the password, nor a request that signs the others out.
<1>7. ASSUME session'[s] = session[s], UNCHANGED password,
             \A c \in SessionCalls : AppAt(c, "others") => AppAt(c, "others")'
      PROVE  Goal
  BY <1>7 DEF SessionInv, SessionsAgree, PasswordEndsOthers, SessionLives
<1>8. ASSUME UNCHANGED appCall, [SessionNext]_sessionVars PROVE Goal
  <2>1. \A c \in SessionCalls : AppAt(c, "others") => AppAt(c, "others")'
    BY <1>8 DEF AppAt
  <2> HIDE DEF Goal
  <2>2. CASE session'[s] = session[s] /\ UNCHANGED password
    BY <1>7, <2>1, <2>2
  <2>3. \/ UNCHANGED <<session, password>>
        \/ UNCHANGED password /\ \E t \in Sessions, app \in BOOLEAN : session' = Opened(t, app)
        \/ \E c \in SessionCalls :
               UpdatePassword(c) \/ SignOutOthers(c) \/ SignOutSession(c) \/ AppRequestDies(c)
    BY <1>8
       DEF SessionNext, sessionVars, WebSignsIn, TokenAges, RefreshIsRefused, ConfirmsDeletion, Ask,
           EnsureSessionDevice, InsertSessionDevice, SessionAnswer, GateDevice, LeaseRoute, FindDevice,
           FlipDevice, SweepLeases
  <2>4. ASSUME NEW c \in SessionCalls, AppRequestDies(c) PROVE appCall' # appCall
    BY <2>4 DEF AppRequestDies, AppDone, SessionTypeOK
  <2>5. ASSUME NEW c \in SessionCalls, SignOutSession(c) PROVE UNCHANGED password
    BY <2>5 DEF SignOutSession
  <2>6. QED
    BY <1>1, <1>3, <1>5, <1>6, <1>8, <2>2, <2>3, <2>4, <2>5
<1>9. ASSUME NEW k \in SessionCalls,
             \/ Ask(k)
             \/ EnsureSessionDevice(k) \/ InsertSessionDevice(k) \/ SessionAnswer(k)
             \/ GateDevice(k) \/ LeaseRoute(k)
             \/ FindDevice(k) \/ FlipDevice(k) \/ SweepLeases(k) \/ SignOutSession(k)
             \/ AppRequestDies(k) /\ ~AppAt(k, "others")
      PROVE  Goal
  <2>1. UNCHANGED password
    BY <1>9 DEF Ask, EnsureSessionDevice, InsertSessionDevice, SessionAnswer, GateDevice, LeaseRoute,
                FindDevice, FlipDevice, SweepLeases, SignOutSession, AppRequestDies
  <2>2. session'[s] = session[s]
    <3>1. CASE SignOutSession(k)
      BY <1>6, <3>1
    <3>2. CASE Ask(k)
      BY <1>5, <2>1, <3>2 DEF Ask
    <3>3. QED
      BY <1>9, <3>1, <3>2 DEF EnsureSessionDevice, InsertSessionDevice, SessionAnswer, GateDevice, LeaseRoute,
                              FindDevice, FlipDevice, SweepLeases, AppRequestDies
  <2>3. ~AppAt(k, "others")
    <3>1. NoAppRequest.at = "idle"
      BY DEF NoAppRequest
    <3>2. QED
      BY <1>9, <3>1 DEF AppAt, Ask, SessionAsks, EnsureSessionDevice, InsertSessionDevice, SessionAnswer,
                        GateDevice, LeaseRoute, FindDevice, FlipDevice, SweepLeases, SignOutSession
  <2>4. \A c \in SessionCalls \ {k} : appCall'[c] = appCall[c]
    <3>1. \/ \E op, at, t : SessionAsks(k, op, at, t)
          \/ AppDone(k)
          \/ \E at : Proceeds(k, at)
      BY <1>9 DEF Ask, EnsureSessionDevice, InsertSessionDevice, SessionAnswer, GateDevice, LeaseRoute,
                  FindDevice, FlipDevice, SweepLeases, SignOutSession, AppRequestDies, AfterEnsure, AfterRevoke
    <3>2. QED
      BY <3>1 DEF SessionAsks, AppDone, Proceeds, SessionTypeOK
  <2>5. \A c \in SessionCalls : AppAt(c, "others") => AppAt(c, "others")'
    BY <2>3, <2>4 DEF AppAt
  <2>6. QED
    BY <1>7, <2>1, <2>2, <2>5
<1> HIDE DEF Goal
<1>10. Goal
  BY <1>1, <1>3, <1>4, <1>8, <1>9
     DEF SessionNext, sessionVars, WebSignsIn, TokenAges, RefreshIsRefused, ConfirmsDeletion
<1>11. QED
  BY <1>10 DEF Goal

-----------------------------------------------------------------------------
(* The theorem                                                               *)

LEMMA SessionInvNext == SessionTypeOK /\ SessionInv /\ [SessionNext]_sessionVars => SessionInv'
  BY CallsNext, TokensNext, LogoutsNext, LeasesNext, PasswordsNext DEF SessionInv, SessionsAgree

LEMMA RevokedStays == SessionTypeOK /\ [SessionNext]_sessionVars => [RevokedForGood]_sessionVars
<1> SUFFICES ASSUME SessionTypeOK, [SessionNext]_sessionVars, NEW s \in Sessions, appDevice[s] = "REVOKED"
             PROVE  appDevice'[s] = "REVOKED" /\ (s \in leased' => s \in leased)
  BY DEF RevokedForGood
<1>1. appDevice'[s] = "REVOKED"
  BY DeviceStep
<1>2. s \in leased' => s \in leased
  BY DEF SessionNext, sessionVars, WebSignsIn, TokenAges, RefreshIsRefused, ConfirmsDeletion, Ask,
         EnsureSessionDevice, InsertSessionDevice, SessionAnswer, GateDevice, LeaseRoute, FindDevice,
         FlipDevice, SweepLeases, SignOutSession, UpdatePassword, SignOutOthers, AppRequestDies
<1>3. QED
  BY <1>1, <1>2

\* Whoever holds a token of the app has a device, a session that was logged out has a revoked one, a
\* revoked one has no lease once its revocation is through and never comes back, and a change of the
\* password leaves no older session but its own.  (ensureSessionDevice, revokeDevice, logout.js, password.js)
THEOREM SessionsCorrect == SessionSpec => SessionsHold
<1>1. SessionSpec => [](SessionTypeOK /\ SessionInv)
  <2>1. SessionInit => SessionTypeOK /\ SessionInv
    BY SessionTypeInit, SessionInvInit
  <2>2. SessionTypeOK /\ SessionInv /\ [SessionNext]_sessionVars => SessionTypeOK' /\ SessionInv'
    BY SessionTypeNext, SessionInvNext
  <2>3. QED
    BY <2>1, <2>2, PTL DEF SessionSpec
<1>2. SessionInv => SessionsAgree
  BY DEF SessionInv
<1>3. QED
  BY <1>1, <1>2, RevokedStays, PTL DEF SessionSpec, SessionsHold

-----------------------------------------------------------------------------
(* Shared accounts *)

\* A transaction that has a seat, and one whose user is on the way out of a plan.
Seated(g) == guests[g].pc \in {"check", "leave", "delete", "cascade", "insert"}
Moves(g) == guests[g].pc \in {"leave", "delete", "cascade", "insert"}
\* What it leaves: the plan that it found its user in, and one that its user has come to own since.
Leaves(g, a) == a = guests[g].old \/ (membership[guests[g].user].role = "owner" /\ membership[guests[g].user].plan = a)

\* A seat that is taken is kept, for one at a time, in a plan that has its owner.
SeatKept(g) ==
    /\ There(Target(g)) /\ OwnersOf(Target(g)) # {} /\ Cardinality(MembersOf(Target(g))) < most[Target(g)]
    /\ \A h \in Guests \ {g} : Seated(h) => Target(h) # Target(g)
\* Nobody else is in what is left or on the way in, and nobody pays for it.
LeftAlone(g, a) ==
    /\ plans[a].row # "unused" /\ a # Target(g) /\ MembersOf(a) \subseteq {guests[g].user} /\ ~Paid(a)
    /\ \A h \in Guests : Seated(h) => Target(h) # a
GuestFits(g) ==
    /\ guests[g].pc # "idle" => guests[g].user \in signedUp /\ guests[g].invite \in Invites
    /\ Seated(g) => SeatKept(g)
    /\ Moves(g) => \A a \in Plans : Leaves(g, a) => LeftAlone(g, a)
PlanFits(a) ==
    /\ plans[a].row = "unused" => ~Paid(a) /\ \A i \in Invites : invites[i].plan # a
    /\ There(a) => effective_seat_limit(plans[a]) <= most[a]
PersonFits(u) ==
    /\ u \notin signedUp => membership[u] = Alone
    /\ u \in signedUp => membership[u] # Alone /\ There(membership[u].plan)
HasOwner(a) == MembersOf(a) # {} \/ Paid(a) => \E u \in People : OwnersOf(a) = {u}
SharedInv ==
    /\ \A g \in Guests : GuestFits(g)
    /\ \A a \in Plans : PlanFits(a) /\ HasOwner(a)
    /\ \A u \in People : PersonFits(u)
    /\ SeatsHold

LEMMA SeatLimits ==
    ASSUME NEW p \in Plan
    PROVE  effective_seat_limit(p) \in IncludedSeats..(IncludedSeats + MoreSeats)
BY SharedParameters DEF effective_seat_limit

\* Who is in a transaction, and the record that it goes on with.
Named(r) == r.pc # "idle" => r.user \in People /\ r.invite \in Invites
SharedTyped == SharedTypeOK /\ \A g \in Guests : Named(guests[g])

LEMMA GuestGoesOn ==
    ASSUME NEW r \in Guest
    PROVE  /\ \A pc \in {"idle", "invite", "account", "check", "leave", "delete", "cascade", "insert"} :
                 [r EXCEPT !.pc = pc] \in Guest
           /\ \A pc \in {"leave", "delete", "cascade", "insert"}, p \in Plans \cup {NoPlan} : [r EXCEPT !.pc = pc, !.old = p] \in Guest
           /\ \A pc \in {"leave", "delete", "cascade", "insert"}, p \in Membership, drop \in BOOLEAN :
                 [r EXCEPT !.pc = pc, !.gone = p, !.drop = drop] \in Guest
           /\ \A u \in People, i \in Invites : [NoGuest EXCEPT !.pc = "invite", !.user = u, !.invite = i] \in Guest
           /\ NoGuest \in Guest
BY DEF Guest, NoGuest, Membership

LEMMA GuestTyped ==
    ASSUME SharedTyped, NEW g \in Guests, NEW r \in Guest, Named(r), guests' = [guests EXCEPT ![g] = r],
           UNCHANGED <<signedUp, membership, plans, invites, most, deals>>
    PROVE  SharedTyped'
<1>1. SharedTypeOK'
  BY DEF SharedTyped, SharedTypeOK
<1>2. \A h \in Guests : guests'[h] = IF h = g THEN r ELSE guests[h]
  BY DEF SharedTyped, SharedTypeOK
<1>3. QED
  BY <1>1, <1>2 DEF SharedTyped, Named

LEMMA SharedTypeInit == SharedInit => SharedTyped
<1> SUFFICES ASSUME SharedInit PROVE SharedTyped
  OBVIOUS
<1> DEFINE homes == {Home[u] : u \in DOMAIN Home}
<1>1. PICK P \in SUBSET People : Home \in [P -> Plans] /\ \A u, v \in P : Home[u] = Home[v] => u = v
  BY SharedParameters
<1>2. homes \subseteq Plans /\ signedUp \subseteq People
  BY <1>1 DEF SharedInit
<1>3. membership \in [People -> Membership]
  BY <1>1, <1>2 DEF SharedInit, Membership
<1>4. FirstPlans \subseteq Plan /\ UnusedPlan \in Plan
  BY DEF FirstPlans, FreshPlan, UnusedPlan, Plan
<1>5. plans \in [Plans -> Plan]
  BY <1>2, <1>4 DEF SharedInit
<1>6. invites \in [Invites -> Invite]
  <2>1. [plan : homes, email : People, state : {"pending"}] \subseteq Invite
    BY <1>2 DEF Invite
  <2>2. QED
    BY <2>1 DEF SharedInit
<1>7. guests \in [Guests -> Guest]
  BY DEF SharedInit, NoGuest, Guest, Membership
<1>8. most \in [Plans -> 0..(IncludedSeats + MoreSeats)]
  BY <1>5, SeatLimits, SharedParameters DEF SharedInit
<1>9. deals \in 0..MaxDeals
  BY SharedParameters DEF SharedInit
<1>10. SharedTypeOK
  BY <1>2, <1>3, <1>5, <1>6, <1>7, <1>8, <1>9 DEF SharedTypeOK
<1>11. QED
  BY <1>10 DEF SharedInit, SharedTyped, Named, NoGuest

LEMMA GuestTypeNext ==
    ASSUME SharedTyped, NEW g \in Guests,
           \/ \E u \in People, i \in Invites : AcceptInvite(g, u, i)
           \/ LockInvite(g) \/ TakeSeat(g) \/ CheckOld(g) \/ Leave(g) \/ LeaveIsLate(g)
           \/ LockOld(g) \/ Cascade(g) \/ DeadlockVictim(g)
    PROVE  SharedTyped'
<1>1. guests[g] \in Guest /\ Named(guests[g]) /\ \A w \in People : membership[w] \in Membership
  BY DEF SharedTyped, SharedTypeOK
<1>2. UNCHANGED <<signedUp, membership, plans, invites, most, deals>>
  BY DEF AcceptInvite, LockInvite, TakeSeat, CheckOld, Leave, LeaveIsLate, LockOld, Cascade, DeadlockVictim
<1>3. ASSUME RollsBack(g) PROVE SharedTyped'
  BY <1>1, <1>2, <1>3, GuestGoesOn, GuestTyped DEF RollsBack, Named, NoGuest
<1>4. ASSUME NEW pc \in {"account", "check", "cascade", "insert"}, Steps(g, pc), guests[g].pc # "idle" PROVE SharedTyped'
  <2> DEFINE r == [guests[g] EXCEPT !.pc = pc]
  <2>1. r \in Guest /\ guests' = [guests EXCEPT ![g] = r]
    BY <1>1, <1>4, GuestGoesOn DEF Steps
  <2>2. Named(r)
    BY <1>1, <1>4 DEF Named, Guest
  <2> HIDE DEF r
  <2>3. QED
    BY <1>2, <2>1, <2>2, GuestTyped
<1>5. ASSUME NEW u \in People, NEW i \in Invites, AcceptInvite(g, u, i) PROVE SharedTyped'
  <2> DEFINE r == [NoGuest EXCEPT !.pc = "invite", !.user = u, !.invite = i]
  <2>1. r \in Guest /\ guests' = [guests EXCEPT ![g] = r]
    BY <1>1, <1>5, GuestGoesOn DEF AcceptInvite
  <2>2. Named(r)
    BY DEF Named, NoGuest
  <2> HIDE DEF r
  <2>3. QED
    BY <1>2, <2>1, <2>2, GuestTyped
<1>6. CASE CheckOld(g)
  <2>1. PICK old : old = membership[guests[g].user].plan
    OBVIOUS
  <2>2. guests[g].pc = "check" /\ guests[g].user \in People
    BY <1>1, <1>6 DEF CheckOld, JoinIsAt, Named
  <2>3. old \in Plans \cup {NoPlan}
    BY <1>1, <2>1, <2>2 DEF Membership, Alone
  <2>4. CASE guests' = [guests EXCEPT ![g].pc = "leave", ![g].old = old]
    <3> DEFINE r == [guests[g] EXCEPT !.pc = "leave", !.old = old]
    <3>1. r \in Guest /\ guests' = [guests EXCEPT ![g] = r]
      BY <1>1, <2>3, <2>4, GuestGoesOn DEF SharedTyped, SharedTypeOK
    <3>2. Named(r)
      BY <1>1, <2>2 DEF Named, Guest
    <3> HIDE DEF r
    <3>3. QED
      BY <1>2, <3>1, <3>2, GuestTyped
  <2>5. QED
    BY <1>3, <1>6, <2>1, <2>4 DEF CheckOld
<1>7. CASE Leave(g)
  <2>1. PICK drop \in BOOLEAN : guests' = [guests EXCEPT ![g].pc = IF drop THEN "delete" ELSE "insert",
                                                         ![g].gone = membership[guests[g].user], ![g].drop = drop]
    BY <1>7 DEF Leave
  <2>2. guests[g].pc = "leave" /\ membership[guests[g].user] \in Membership
    BY <1>1, <1>7 DEF Leave, JoinIsAt, Named
  <2>3. PICK pc \in {"delete", "insert"} : pc = IF drop THEN "delete" ELSE "insert"
    OBVIOUS
  <2> DEFINE r == [guests[g] EXCEPT !.pc = pc, !.gone = membership[guests[g].user], !.drop = drop]
  <2>4. r \in Guest /\ guests' = [guests EXCEPT ![g] = r]
    BY <1>1, <2>1, <2>2, <2>3, GuestGoesOn DEF SharedTyped, SharedTypeOK
  <2>5. Named(r)
    BY <1>1, <2>2 DEF Named, Guest
  <2> HIDE DEF r
  <2>6. QED
    BY <1>2, <2>4, <2>5, GuestTyped
<1>8. QED
  BY <1>3, <1>4, <1>5, <1>6, <1>7
     DEF LockInvite, TakeSeat, LeaveIsLate, LockOld, Cascade, DeadlockVictim, JoinIsAt

LEMMA CommitType ==
    ASSUME SharedTyped, NEW g \in Guests, Commit(g)
    PROVE  SharedTyped'
<1>1. guests' = [guests EXCEPT ![g] = NoGuest] /\ UNCHANGED <<signedUp, most, deals>>
  BY DEF Commit, RollsBack
<1>2. guests[g].user \in People /\ guests[g].invite \in Invites /\ Target(g) \in Plans
  BY DEF Commit, JoinIsAt, SharedTyped, SharedTypeOK, Named, Target, Invite
<1>3. guests' \in [Guests -> Guest] /\ \A h \in Guests : Named(guests'[h])
  BY <1>1, GuestGoesOn DEF SharedTyped, SharedTypeOK, Named, NoGuest
<1>4. membership' \in [People -> Membership]
  BY <1>2 DEF Commit, SharedTyped, SharedTypeOK, Membership
<1>5. plans' \in [Plans -> Plan]
  <2>1. \A p \in Plan : [p EXCEPT !.row = "deleted"] \in Plan
    BY DEF Plan
  <2>2. plans \in [Plans -> Plan]
    BY DEF SharedTyped, SharedTypeOK
  <2>3. \/ plans' = plans
        \/ plans' = [a \in Plans |-> IF Dropped(g, a) THEN [plans[a] EXCEPT !.row = "deleted"] ELSE plans[a]]
    BY DEF Commit
  <2>4. QED
    BY <2>1, <2>2, <2>3
<1>6. invites' \in [Invites -> Invite]
  <2>1. \A i \in Invite : [i EXCEPT !.state = "deleted"] \in Invite /\ [i EXCEPT !.state = "accepted"] \in Invite
    BY DEF Invite
  <2>2. invites \in [Invites -> Invite]
    BY DEF SharedTyped, SharedTypeOK
  <2>3. \/ invites' = invites
        \/ invites' = [i \in Invites |-> IF Dropped(g, invites[i].plan) THEN [invites[i] EXCEPT !.state = "deleted"]
                                         ELSE IF i = guests[g].invite THEN [invites[i] EXCEPT !.state = "accepted"]
                                         ELSE invites[i]]
    BY DEF Commit
  <2>4. QED
    BY <2>1, <2>2, <2>3
<1>7. QED
  BY <1>1, <1>3, <1>4, <1>5, <1>6 DEF SharedTyped, SharedTypeOK

LEMMA DealType ==
    ASSUME SharedTyped, NEW a \in Plans, NEW p \in Plan, Deal(a, p)
    PROVE  SharedTyped'
<1>1. effective_seat_limit(p) \in 0..(IncludedSeats + MoreSeats)
  BY SeatLimits, SharedParameters
<1>2. plans' \in [Plans -> Plan] /\ most' \in [Plans -> 0..(IncludedSeats + MoreSeats)]
  BY <1>1 DEF Deal, SharedTyped, SharedTypeOK
<1>3. deals' \in 0..MaxDeals
  BY SharedParameters DEF Deal, SharedTyped, SharedTypeOK
<1>4. QED
  BY <1>2, <1>3 DEF Deal, SharedTyped, SharedTypeOK

LEMMA OwnPlanType ==
    ASSUME SharedTyped, NEW u \in People, NEW a \in Plans, OwnPlan(u, a)
    PROVE  /\ plans' \in [Plans -> Plan] /\ membership' \in [People -> Membership]
           /\ most' \in [Plans -> 0..(IncludedSeats + MoreSeats)]
<1>1. FreshPlan \in Plan /\ [plan |-> a, role |-> "owner"] \in Membership
  BY DEF FreshPlan, UnusedPlan, Plan, Membership
<1>2. IncludedSeats \in 0..(IncludedSeats + MoreSeats)
  BY SharedParameters
<1>3. QED
  BY <1>1, <1>2 DEF OwnPlan, SharedTyped, SharedTypeOK

LEMMA SharedTypeNext == SharedTyped /\ [SharedNext]_sharedVars => SharedTyped'
<1> SUFFICES ASSUME SharedTyped, [SharedNext]_sharedVars PROVE SharedTyped'
  OBVIOUS
<1>1. CASE UNCHANGED sharedVars
  BY <1>1 DEF sharedVars, SharedTyped, SharedTypeOK, Named
<1>2. ASSUME NEW u \in People, NEW a \in Plans, handle_new_user(u, a) \/ remove_account_member(u, a) PROVE SharedTyped'
  <2>1. OwnPlan(u, a) /\ signedUp' \subseteq People /\ UNCHANGED <<invites, guests, deals>>
    BY <1>2 DEF handle_new_user, remove_account_member, SharedTyped, SharedTypeOK
  <2>2. QED
    BY <2>1, OwnPlanType DEF SharedTyped, SharedTypeOK, Named
<1>3. ASSUME NEW i \in Invites, WithdrawInvite(i) PROVE SharedTyped'
  BY <1>3 DEF WithdrawInvite, SharedTyped, SharedTypeOK, Invite, Named
<1>4. ASSUME NEW a \in Plans, SubscriptionBegins(a) \/ SubscriptionEnds(a) \/ PackChanges(a) \/ GrantBegins(a) \/ GrantEnds(a)
      PROVE  SharedTyped'
  <2>1. plans[a] \in Plan
    BY DEF SharedTyped, SharedTypeOK
  <2>2. PICK p \in Plan : Deal(a, p)
    BY <1>4, <2>1 DEF SubscriptionBegins, SubscriptionEnds, PackChanges, GrantBegins, GrantEnds, Plan
  <2>3. QED
    BY <2>2, DealType
<1>5. ASSUME NEW g \in Guests, \/ \E u \in People, i \in Invites : AcceptInvite(g, u, i)
                               \/ LockInvite(g) \/ TakeSeat(g) \/ CheckOld(g) \/ Leave(g) \/ LeaveIsLate(g)
                               \/ LockOld(g) \/ Cascade(g) \/ DeadlockVictim(g)
      PROVE  SharedTyped'
  BY <1>5, GuestTypeNext
<1>6. QED
  BY <1>1, <1>2, <1>3, <1>4, <1>5, CommitType DEF SharedNext

\* People, plans, invitations and transactions keep their types, and a transaction has its user and its
\* invitation.
THEOREM SharedTypeCorrect == SharedSpec => []SharedTyped
<1>1. QED
  BY SharedTypeInit, SharedTypeNext, PTL DEF SharedSpec

LEMMA MembersFinite == \A a : IsFiniteSet(MembersOf(a)) /\ Cardinality(MembersOf(a)) \in Nat
<1>1. ASSUME NEW a PROVE IsFiniteSet(MembersOf(a)) /\ Cardinality(MembersOf(a)) \in Nat
  BY SharedParameters, FS_Subset, FS_CardinalityType DEF MembersOf
<1>2. QED
  BY <1>1

LEMMA LimitsAreNumbers ==
    ASSUME SharedTyped, NEW a \in Plans
    PROVE  most[a] \in Nat /\ effective_seat_limit(plans[a]) \in Nat
BY SeatLimits, SharedParameters DEF SharedTyped, SharedTypeOK

LEMMA SharedInvInit == SharedInit => SharedInv
<1> SUFFICES ASSUME SharedInit PROVE SharedInv
  OBVIOUS
<1> DEFINE homes == {Home[u] : u \in DOMAIN Home}
<1>1. PICK P \in SUBSET People : Home \in [P -> Plans] /\ \A u, v \in P : Home[u] = Home[v] => u = v
  BY SharedParameters
<1>2. SharedTyped
  BY SharedTypeInit
<1>3. \A g \in Guests : GuestFits(g)
  BY DEF SharedInit, NoGuest, GuestFits, Seated, Moves
<1>4. \A u \in People : membership[u] = IF u \in P THEN [plan |-> Home[u], role |-> "owner"] ELSE Alone
  BY <1>1 DEF SharedInit
<1>13. ASSUME NEW u \in P
       PROVE  membership[u].plan = Home[u] /\ membership[u].role = "owner" /\ Home[u] \in homes /\ Home[u] \in Plans
  <2>1. P \subseteq People /\ DOMAIN Home = P
    BY <1>1
  <2>2. Home[u] \in homes /\ Home[u] \in Plans
    BY <1>1, <2>1
  <2>3. membership[u] = [plan |-> Home[u], role |-> "owner"]
    BY <1>4, <2>1
  <2>4. QED
    BY <2>2, <2>3
<1>14. ASSUME NEW u \in People \ P
       PROVE  membership[u] = Alone /\ membership[u].plan = NoPlan /\ membership[u].role = "none"
  <2>1. membership[u] = Alone
    BY <1>4
  <2>2. Alone.plan = NoPlan /\ Alone.role = "none"
    BY DEF Alone
  <2>3. QED
    BY <2>1, <2>2
<1>15. signedUp = P
  BY <1>1 DEF SharedInit
<1>5. \A a \in Plans : plans[a].row = IF a \in homes THEN "there" ELSE "unused"
  <2>1. \A p \in FirstPlans : p.row = "there"
    BY DEF FirstPlans, FreshPlan, UnusedPlan
  <2>2. UnusedPlan.row = "unused"
    BY DEF UnusedPlan
  <2>3. PICK first \in [homes -> FirstPlans] : plans = [a \in Plans |-> IF a \in homes THEN first[a] ELSE UnusedPlan]
    BY DEF SharedInit
  <2> HIDE DEF homes
  <2>4. QED
    BY <2>1, <2>2, <2>3
<1>6. \A u \in People : PersonFits(u)
  BY <1>13, <1>14, <1>15, <1>5 DEF PersonFits, There, Alone
<1>7. ASSUME NEW a \in Plans PROVE PlanFits(a)
  <2>1. plans[a].row = "unused" => ~Paid(a)
    BY <1>5, <1>7 DEF SharedInit, UnusedPlan, Paid
  <2>2. \A i \in Invites : invites[i].plan \in homes
    BY DEF SharedInit
  <2>3. There(a) => effective_seat_limit(plans[a]) <= most[a]
    <3>1. There(a) => most[a] = effective_seat_limit(plans[a])
      BY <1>5, <1>7 DEF SharedInit, There
    <3>2. QED
      BY <1>2, <1>7, <3>1, LimitsAreNumbers
  <2>4. QED
    BY <1>5, <2>1, <2>2, <2>3 DEF PlanFits
<1>8. ASSUME NEW a \in Plans, a \in homes PROVE \E u \in People : MembersOf(a) = {u} /\ OwnersOf(a) = {u}
  <2>1. PICK u \in P : Home[u] = a
    BY <1>1, <1>8
  <2>2. a # NoPlan
    BY SharedParameters
  <2>3. MembersOf(a) = {u} /\ OwnersOf(a) = {u}
    BY <1>1, <1>13, <1>14, <2>1, <2>2 DEF MembersOf, OwnersOf
  <2>4. QED
    BY <2>1, <2>3
<1>9. ASSUME NEW a \in Plans, a \notin homes PROVE MembersOf(a) = {} /\ ~Paid(a)
  <2>1. a # NoPlan
    BY SharedParameters
  <2>2. MembersOf(a) = {}
    BY <1>13, <1>14, <1>9, <2>1 DEF MembersOf
  <2>3. QED
    BY <1>9, <2>2 DEF SharedInit, UnusedPlan, Paid
<1>10. \A a \in Plans : HasOwner(a)
  BY <1>8, <1>9 DEF HasOwner
<1>11. ASSUME NEW a \in Plans PROVE Cardinality(MembersOf(a)) <= most[a]
  <2>1. CASE a \in homes
    <3>1. Cardinality(MembersOf(a)) = 1
      BY <1>8, <2>1, FS_Singleton
    <3>2. most[a] = effective_seat_limit(plans[a])
      BY <1>11, <2>1 DEF SharedInit
    <3>3. plans[a] \in Plan
      BY <1>2 DEF SharedTyped, SharedTypeOK
    <3>4. QED
      BY <3>1, <3>2, <3>3, SeatLimits, SharedParameters
  <2>2. CASE a \notin homes
    <3>1. Cardinality(MembersOf(a)) = 0
      BY <1>9, <2>2, FS_EmptySet
    <3>2. QED
      BY <1>2, <3>1, LimitsAreNumbers
  <2>3. QED
    BY <2>1, <2>2
<1>12. QED
  BY <1>3, <1>6, <1>7, <1>10, <1>11 DEF SharedInv, SeatsHold

\* What a transaction that goes on with r, by an invitation to t, must leave to the others.
SeatFor(g, t) ==
    /\ There(t) /\ OwnersOf(t) # {} /\ Cardinality(MembersOf(t)) < most[t]
    /\ \A h \in Guests \ {g} : /\ Seated(h) => Target(h) # t
                               /\ Moves(h) => ~Leaves(h, t)
AloneIn(g, r, t, a) ==
    /\ plans[a].row # "unused" /\ a # t /\ MembersOf(a) \subseteq {r.user} /\ ~Paid(a)
    /\ \A h \in Guests \ {g} : Seated(h) => Target(h) # a
GoesOutOf(r, a) == a = r.old \/ (membership[r.user].role = "owner" /\ membership[r.user].plan = a)

\* A transaction that goes on, or ends without effect.
LEMMA GuestStep ==
    ASSUME SharedTyped, SharedInv, NEW g \in Guests, NEW r, guests' = [guests EXCEPT ![g] = r],
           UNCHANGED <<signedUp, membership, plans, invites, most>>,
           NEW t, t = invites[r.invite].plan,
           r.pc # "idle" => r.user \in signedUp /\ r.invite \in Invites,
           r.pc \in {"check", "leave", "delete", "cascade", "insert"} => SeatFor(g, t),
           r.pc \in {"leave", "delete", "cascade", "insert"} => \A a \in Plans : GoesOutOf(r, a) => AloneIn(g, r, t, a)
    PROVE  SharedInv'
<1>1. \A h \in Guests : guests'[h] = IF h = g THEN r ELSE guests[h]
  BY DEF SharedTyped, SharedTypeOK
<1>2. \A a : /\ MembersOf(a)' = MembersOf(a) /\ OwnersOf(a)' = OwnersOf(a) /\ There(a)' = There(a) /\ Paid(a)' = Paid(a)
             /\ PlanFits(a)' = PlanFits(a) /\ HasOwner(a)' = HasOwner(a) /\ PersonFits(a)' = PersonFits(a)
  BY DEF MembersOf, OwnersOf, There, Paid, PlanFits, HasOwner, PersonFits
<1>3. \A h \in Guests \ {g} : /\ Seated(h)' = Seated(h) /\ Moves(h)' = Moves(h) /\ Target(h)' = Target(h)
                              /\ \A a : Leaves(h, a)' = Leaves(h, a)
  BY <1>1 DEF Seated, Moves, Target, Leaves
<1>4. /\ Seated(g)' = (r.pc \in {"check", "leave", "delete", "cascade", "insert"})
      /\ Moves(g)' = (r.pc \in {"leave", "delete", "cascade", "insert"})
      /\ Target(g)' = t
  BY <1>1 DEF Seated, Moves, Target
<1>5. GuestFits(g)'
  <2>1. Seated(g)' => SeatKept(g)'
    BY <1>2, <1>3, <1>4 DEF SeatKept, SeatFor
  <2>2. ASSUME Moves(g)', NEW a \in Plans, Leaves(g, a)' PROVE LeftAlone(g, a)'
    <3>1. a = r.old \/ (membership[r.user].role = "owner" /\ membership[r.user].plan = a)
      BY <1>1, <2>2 DEF Leaves
    <3>2. /\ plans[a].row # "unused" /\ a # t /\ MembersOf(a) \subseteq {r.user} /\ ~Paid(a)
          /\ \A h \in Guests \ {g} : Seated(h) => Target(h) # a
      BY <1>4, <2>2, <3>1 DEF GoesOutOf, AloneIn
    <3>3. QED
      BY <1>1, <1>2, <1>3, <1>4, <3>2 DEF LeftAlone
  <2>3. QED
    BY <1>1, <2>1, <2>2 DEF GuestFits
<1>6. ASSUME NEW h \in Guests \ {g} PROVE GuestFits(h)'
  <2>1. GuestFits(h) /\ guests'[h] = guests[h]
    BY <1>1 DEF SharedInv
  <2>2. Seated(h) => SeatKept(h)'
    BY <1>2, <1>3, <1>4, <2>1 DEF SeatKept, GuestFits, SeatFor
  <2>3. ASSUME Moves(h), NEW a \in Plans, Leaves(h, a) PROVE LeftAlone(h, a)'
    <3>1. LeftAlone(h, a)
      BY <2>1, <2>3 DEF GuestFits
    <3>2. Seated(g)' => Target(g)' # a
      BY <1>4, <2>3 DEF SeatFor
    <3>3. QED
      BY <1>2, <1>3, <2>1, <3>1, <3>2 DEF LeftAlone
  <2>4. QED
    BY <1>3, <2>1, <2>2, <2>3 DEF GuestFits
<1>7. SeatsHold'
  BY <1>2 DEF SharedInv, SeatsHold
<1>8. QED
  BY <1>2, <1>5, <1>6, <1>7 DEF SharedInv

\* Who owns a plan is alone in it as an owner, and the plan is there.
LEMMA Owned ==
    ASSUME SharedInv, NEW a \in Plans, OwnersOf(a) # {}
    PROVE  There(a) /\ \E u \in People : OwnersOf(a) = {u}
<1>1. PICK u \in People : membership[u].plan = a /\ membership[u].role = "owner"
  BY DEF OwnersOf, MembersOf
<1>2. MembersOf(a) # {}
  BY <1>1 DEF MembersOf
<1>3. There(a)
  BY <1>1 DEF SharedInv, PersonFits, Alone
<1>4. QED
  BY <1>2, <1>3 DEF SharedInv, HasOwner

\* Where each of the statements of accept_member_invite leads.
LEMMA GuestInvNext ==
    ASSUME SharedTyped, SharedInv, SharedRaces = {}, NEW g \in Guests,
           \/ \E u \in People, i \in Invites : AcceptInvite(g, u, i)
           \/ LockInvite(g) \/ TakeSeat(g) \/ CheckOld(g) \/ Leave(g) \/ LeaveIsLate(g)
           \/ LockOld(g) \/ Cascade(g) \/ DeadlockVictim(g)
    PROVE  SharedInv'
<1>1. /\ guests[g] \in Guest /\ GuestFits(g) /\ (guests[g].pc # "idle" => Target(g) \in Plans)
      /\ \A a \in Plans : most[a] \in Nat
  BY LimitsAreNumbers DEF SharedTyped, SharedTypeOK, Named, SharedInv, Target, Invite
<1>2. UNCHANGED <<signedUp, membership, plans, invites, most>>
  BY DEF AcceptInvite, LockInvite, TakeSeat, CheckOld, Leave, LeaveIsLate, LockOld, Cascade, DeadlockVictim
<1>3. ASSUME NEW r, guests' = [guests EXCEPT ![g] = r], r.pc \in {"idle", "invite", "account"},
             r.pc # "idle" => r.user \in signedUp /\ r.invite \in Invites
      PROVE  SharedInv'
  BY <1>2, <1>3, GuestStep
<1>4. ASSUME RollsBack(g) PROVE SharedInv'
  BY <1>3, <1>4 DEF RollsBack, NoGuest
<1>5. ASSUME Moves(g), NEW r, guests' = [guests EXCEPT ![g] = r], r.pc \in {"leave", "delete", "cascade", "insert"},
             r.user = guests[g].user, r.invite = guests[g].invite, r.old = guests[g].old
      PROVE  SharedInv'
  <2>1. Target(g) \in Plans /\ Seated(g) /\ guests[g].pc # "idle"
    BY <1>1, <1>5 DEF Moves, Seated
  <2>2. SeatKept(g) /\ \A a \in Plans : Leaves(g, a) => LeftAlone(g, a)
    BY <1>1, <1>5, <2>1 DEF GuestFits
  <2>3. \A h \in Guests : Moves(h) => ~Leaves(h, Target(g))
    BY <2>1 DEF SharedInv, GuestFits, LeftAlone
  <2>4. PICK t : t = invites[r.invite].plan
    OBVIOUS
  <2>5. t = Target(g)
    BY <1>5, <2>4 DEF Target
  <2>6. SeatFor(g, t)
    BY <2>2, <2>3, <2>5 DEF SeatKept, SeatFor
  <2>7. ASSUME NEW a \in Plans, GoesOutOf(r, a) PROVE AloneIn(g, r, t, a)
    BY <1>5, <2>2, <2>5, <2>7 DEF Leaves, LeftAlone, GoesOutOf, AloneIn
  <2>8. r.user \in signedUp /\ r.invite \in Invites
    BY <1>1, <1>5, <2>1 DEF GuestFits
  <2>9. QED
    BY <1>2, <1>5, <2>4, <2>6, <2>7, <2>8, GuestStep
<1>6. ASSUME NEW u \in People, NEW i \in Invites, AcceptInvite(g, u, i) PROVE SharedInv'
  <2> DEFINE r == [NoGuest EXCEPT !.pc = "invite", !.user = u, !.invite = i]
  <2>1. r.pc = "invite" /\ r.user = u /\ r.invite = i
    BY DEF NoGuest
  <2>2. guests' = [guests EXCEPT ![g] = r] /\ u \in signedUp
    BY <1>6 DEF AcceptInvite
  <2> HIDE DEF r
  <2>3. QED
    BY <1>3, <2>1, <2>2
<1>7. CASE LockInvite(g)
  <2>1. CASE Steps(g, "account")
    <3> DEFINE r == [guests[g] EXCEPT !.pc = "account"]
    <3>1. r.pc = "account" /\ r.user = guests[g].user /\ r.invite = guests[g].invite
      BY <1>1 DEF Guest
    <3>2. guests' = [guests EXCEPT ![g] = r]
      BY <2>1 DEF Steps, SharedTyped, SharedTypeOK
    <3>3. guests[g].user \in signedUp /\ guests[g].invite \in Invites
      BY <1>1, <1>7 DEF LockInvite, JoinIsAt, GuestFits
    <3> HIDE DEF r
    <3>4. QED
      BY <1>3, <3>1, <3>2, <3>3
  <2>2. QED
    BY <1>4, <1>7, <2>1 DEF LockInvite
<1>8. CASE TakeSeat(g)
  <2>1. guests[g].pc = "account" /\ Target(g) \in Plans
    BY <1>1, <1>8 DEF TakeSeat, JoinIsAt
  <2>2. PICK t \in Plans : t = Target(g)
    BY <2>1
  <2>3. CASE Steps(g, "check") /\ Cardinality(MembersOf(t)) < effective_seat_limit(plans[t])
    <3> DEFINE r == [guests[g] EXCEPT !.pc = "check"]
    <3>1. r.pc = "check" /\ r.user = guests[g].user /\ r.invite = guests[g].invite
      BY <1>1 DEF Guest
    <3>2. guests' = [guests EXCEPT ![g] = r]
      BY <2>3 DEF Steps, SharedTyped, SharedTypeOK
    <3>3. guests[g].user \in signedUp /\ guests[g].invite \in Invites
      BY <1>1, <2>1 DEF GuestFits
    <3> HIDE DEF r
    <3>4. OwnersOf(t) # {} /\ ~Leaving(t)
      BY <1>8, <2>2 DEF TakeSeat, Abandoned
    <3>5. There(t)
      BY <3>4, Owned
    <3>6. Cardinality(MembersOf(t)) < most[t]
      <4>1. effective_seat_limit(plans[t]) <= most[t]
        BY <3>5 DEF SharedInv, PlanFits
      <4>2. QED
        BY <2>3, <4>1, LimitsAreNumbers, MembersFinite
    <3>7. \A h \in Guests \ {g} : Moves(h) => ~Leaves(h, t)
      BY <3>4 DEF Leaving, Leaves, Moves
    <3>8. \A h \in Guests \ {g} : Seated(h) => Target(h) # t
      BY <1>8, <2>1, <2>2 DEF TakeSeat, Blockers, JoinIsAt, HoldsAccount, Seated
    <3>9. t = invites[r.invite].plan
      BY <2>2, <3>1 DEF Target
    <3>10. SeatFor(g, t)
      BY <3>4, <3>5, <3>6, <3>7, <3>8 DEF SeatFor
    <3>11. QED
      BY <1>2, <3>1, <3>2, <3>3, <3>9, <3>10, GuestStep
  <2>4. QED
    BY <1>4, <1>8, <2>2, <2>3 DEF TakeSeat
<1>9. CASE CheckOld(g)
  <2>1. PICK old : old = membership[guests[g].user].plan
    OBVIOUS
  <2>2. guests[g].pc = "check" /\ Target(g) \in Plans /\ Seated(g)
    BY <1>1, <1>9 DEF CheckOld, JoinIsAt, Seated
  <2>3. guests[g].user \in signedUp /\ guests[g].user \in People /\ guests[g].invite \in Invites /\ SeatKept(g)
    BY <1>1, <2>2 DEF GuestFits, SharedTyped, Named
  <2>4. membership[guests[g].user] # Alone /\ There(old) /\ membership[guests[g].user] \in Membership
    BY <2>1, <2>3 DEF SharedInv, PersonFits, SharedTyped, SharedTypeOK
  <2>5. old \in Plans /\ old # NoPlan
    BY <2>1, <2>4, SharedParameters DEF Membership
  <2>6. CASE /\ guests' = [guests EXCEPT ![g].pc = "leave", ![g].old = old]
             /\ old # Target(g) /\ ~Paid(old) /\ ~(Cardinality(MembersOf(old)) > 1)
    <3> DEFINE r == [guests[g] EXCEPT !.pc = "leave", !.old = old]
    <3>1. r.pc = "leave" /\ r.user = guests[g].user /\ r.invite = guests[g].invite /\ r.old = old
      BY <1>1 DEF Guest
    <3>2. guests' = [guests EXCEPT ![g] = r]
      BY <2>6 DEF SharedTyped, SharedTypeOK
    <3> HIDE DEF r
    <3>3. MembersOf(old) \subseteq {guests[g].user}
      <4>1. guests[g].user \in MembersOf(old)
        BY <2>1, <2>3 DEF MembersOf
      <4>2. ASSUME NEW v \in MembersOf(old), v # guests[g].user PROVE FALSE
        <5>1. Cardinality({guests[g].user, v}) <= Cardinality(MembersOf(old))
          BY <4>1, MembersFinite, FS_Subset
        <5>2. Cardinality({guests[g].user, v}) = 2
          <6> DEFINE u == guests[g].user
          <6> HIDE DEF u
          <6>1. IsFiniteSet({v}) /\ Cardinality({v}) = 1 /\ u \notin {v}
            BY <4>2, FS_Singleton DEF u
          <6>2. Cardinality({v} \cup {u}) = Cardinality({v}) + 1
            BY <6>1, FS_AddElement
          <6>3. {v} \cup {u} = {u, v}
            OBVIOUS
          <6>4. QED
            BY <6>1, <6>2, <6>3 DEF u
        <5>3. QED
          BY <2>6, <5>1, <5>2, MembersFinite
      <4>3. QED
        BY <4>2
    <3>4. \A h \in Guests \ {g} : Seated(h) => Target(h) # old
      BY <1>9, <2>1, <2>5 DEF CheckOld, HoldsAccount, Seated
    <3>5. \A h \in Guests : Moves(h) => ~Leaves(h, Target(g))
      BY <2>2 DEF SharedInv, GuestFits, LeftAlone
    <3>6. PICK t : t = invites[r.invite].plan
      OBVIOUS
    <3>7. t = Target(g)
      BY <3>1, <3>6 DEF Target
    <3>8. plans[old].row # "unused"
      BY <2>4 DEF There
    <3>9. SeatFor(g, t)
      BY <2>3, <3>5, <3>7 DEF SeatKept, SeatFor
    <3>10. ASSUME NEW a \in Plans, GoesOutOf(r, a) PROVE AloneIn(g, r, t, a)
      <4>1. a = old
        BY <2>1, <3>1, <3>10 DEF GoesOutOf
      <4>2. QED
        BY <2>6, <3>1, <3>3, <3>4, <3>7, <3>8, <4>1 DEF AloneIn
    <3>11. QED
      BY <1>2, <2>3, <3>1, <3>2, <3>6, <3>9, <3>10, GuestStep
  <2>7. QED
    BY <1>4, <1>9, <2>1, <2>5, <2>6 DEF CheckOld
<1>10. CASE Leave(g)
  <2>1. guests[g].pc = "leave" /\ Moves(g)
    BY <1>10 DEF Leave, JoinIsAt, Moves
  <2>2. PICK drop \in BOOLEAN :
            guests' = [guests EXCEPT ![g].pc = IF drop THEN "delete" ELSE "insert",
                                     ![g].gone = membership[guests[g].user], ![g].drop = drop]
    BY <1>10 DEF Leave
  <2>3. PICK pc \in {"delete", "insert"} : pc = IF drop THEN "delete" ELSE "insert"
    OBVIOUS
  <2> DEFINE r == [guests[g] EXCEPT !.pc = pc, !.gone = membership[guests[g].user], !.drop = drop]
  <2>4. r.pc = pc /\ r.user = guests[g].user /\ r.invite = guests[g].invite /\ r.old = guests[g].old
    BY <1>1 DEF Guest
  <2>5. guests' = [guests EXCEPT ![g] = r]
    BY <2>2, <2>3 DEF SharedTyped, SharedTypeOK
  <2> HIDE DEF r
  <2>6. QED
    BY <1>5, <2>1, <2>4, <2>5
<1>11. CASE LockOld(g) \/ Cascade(g)
  <2>1. Moves(g)
    BY <1>11 DEF LockOld, Cascade, JoinIsAt, Moves
  <2>2. PICK pc \in {"cascade", "insert"} : Steps(g, pc)
    BY <1>11 DEF LockOld, Cascade
  <2> DEFINE r == [guests[g] EXCEPT !.pc = pc]
  <2>3. r.pc = pc /\ r.user = guests[g].user /\ r.invite = guests[g].invite /\ r.old = guests[g].old
    BY <1>1 DEF Guest
  <2>4. guests' = [guests EXCEPT ![g] = r]
    BY <2>2 DEF Steps, SharedTyped, SharedTypeOK
  <2> HIDE DEF r
  <2>5. QED
    BY <1>5, <2>1, <2>3, <2>4
<1>12. CASE LeaveIsLate(g) \/ DeadlockVictim(g)
  BY <1>4, <1>12 DEF LeaveIsLate, DeadlockVictim
<1>13. QED
  BY <1>6, <1>7, <1>8, <1>9, <1>10, <1>11, <1>12

\* Nothing leads to a plan that nobody has signed up into yet.
LEMMA PlanUnused ==
    ASSUME SharedTyped, SharedInv, NEW a \in Plans, plans[a].row = "unused"
    PROVE  MembersOf(a) = {} /\ ~Paid(a) /\ \A g \in Guests : guests[g].pc # "idle" => Target(g) # a
<1>1. ~Paid(a) /\ \A i \in Invites : invites[i].plan # a
  BY DEF SharedInv, PlanFits
<1>2. ASSUME NEW u \in People, membership[u].plan = a PROVE FALSE
  <2>1. membership[u] # Alone
    BY <1>2, SharedParameters DEF Alone
  <2>2. There(a)
    BY <1>2, <2>1 DEF SharedInv, PersonFits
  <2>3. QED
    BY <2>2 DEF There
<1>3. QED
  BY <1>1, <1>2 DEF MembersOf, Target, SharedTyped, Named

\* Fewer people in a plan fit its seats as well.
LEMMA FewerFit ==
    ASSUME NEW a, NEW b, NEW n \in Nat, MembersOf(a)' \subseteq MembersOf(b)
    PROVE  /\ Cardinality(MembersOf(b)) < n => Cardinality(MembersOf(a)') < n
           /\ Cardinality(MembersOf(b)) <= n => Cardinality(MembersOf(a)') <= n
<1>1. Cardinality(MembersOf(a)') <= Cardinality(MembersOf(b)) /\ Cardinality(MembersOf(a)') \in Nat
  BY MembersFinite, FS_Subset, FS_CardinalityType
<1>2. QED
  BY <1>1, MembersFinite

\* Somebody moves into a fresh plan.
LEMMA OwnPlanInv ==
    ASSUME SharedTyped, SharedTyped', SharedInv, NEW u \in People, NEW a \in Plans, OwnPlan(u, a), UNCHANGED <<invites, guests>>,
           signedUp' = signedUp \cup {u}, membership[u].role # "owner",
           \A g \in Guests : guests[g].pc # "idle" => guests[g].user # u \/ u \in signedUp
    PROVE  SharedInv'
<1>1. /\ plans[a].row = "unused" /\ \A b \in Plans : plans'[b] = IF b = a THEN FreshPlan ELSE plans[b]
      /\ \A v \in People : membership'[v] = IF v = u THEN [plan |-> a, role |-> "owner"] ELSE membership[v]
      /\ \A b \in Plans : most'[b] = IF b = a THEN IncludedSeats ELSE most[b]
  BY DEF OwnPlan, SharedTyped, SharedTypeOK
<1>2. MembersOf(a) = {} /\ ~Paid(a) /\ \A g \in Guests : guests[g].pc # "idle" => Target(g) # a
  BY <1>1, PlanUnused
<1>3. MembersOf(a)' = {u} /\ OwnersOf(a)' = {u}
  BY <1>1, <1>2 DEF MembersOf, OwnersOf
<1>4. ASSUME NEW b \in Plans \ {a} PROVE MembersOf(b)' = MembersOf(b) \ {u} /\ OwnersOf(b)' = OwnersOf(b)
  BY <1>1 DEF MembersOf, OwnersOf
<1>5. ~Paid(a)' /\ There(a)' /\ plans'[a].row # "unused"
  BY <1>1 DEF Paid, There, FreshPlan, UnusedPlan
<1>6. ASSUME NEW b \in Plans \ {a} PROVE Paid(b)' = Paid(b) /\ There(b)' = There(b) /\ plans'[b] = plans[b] /\ most'[b] = most[b]
  BY <1>1 DEF Paid, There
<1>7. \A g \in Guests : Target(g)' = Target(g) /\ Seated(g)' = Seated(g) /\ Moves(g)' = Moves(g)
  BY DEF Target, Seated, Moves
<1>8. \A g \in Guests : Seated(g) => Target(g) \in Plans \ {a} /\ guests[g].pc # "idle"
  BY <1>2 DEF Seated, SharedTyped, SharedTypeOK, Named, Target, Invite
<1>9. ASSUME NEW g \in Guests PROVE GuestFits(g)'
  <2>1. GuestFits(g)
    BY DEF SharedInv
  <2>2. ASSUME Seated(g) PROVE SeatKept(g)'
    <3>1. PICK t \in Plans \ {a} : t = Target(g)
      BY <1>8, <2>2
    <3>2. /\ There(t) /\ OwnersOf(t) # {} /\ Cardinality(MembersOf(t)) < most[t]
          /\ \A h \in Guests \ {g} : Seated(h) => Target(h) # t
      BY <2>1, <2>2, <3>1 DEF GuestFits, SeatKept
    <3>3. Cardinality(MembersOf(t)') < most[t]
      BY <1>4, <3>2, FewerFit, LimitsAreNumbers
    <3>4. QED
      BY <1>4, <1>6, <1>7, <3>1, <3>2, <3>3 DEF SeatKept
  <2>3. ASSUME Moves(g), NEW b \in Plans, Leaves(g, b)' PROVE LeftAlone(g, b)'
    <3>1. Seated(g) /\ guests[g].pc # "idle"
      BY <2>3 DEF Moves, Seated
    <3>2. CASE Leaves(g, b)
      <4>1. LeftAlone(g, b)
        BY <2>1, <2>3, <3>2 DEF GuestFits
      <4>2. b # a
        BY <1>1, <4>1 DEF LeftAlone
      <4>3. QED
        BY <1>4, <1>6, <1>7, <4>1, <4>2 DEF LeftAlone
    <3>3. CASE ~Leaves(g, b)
      <4>1. guests[g].user \in People
        BY <3>1 DEF SharedTyped, Named
      <4>2. guests[g].user = u /\ b = a
        BY <1>1, <2>3, <3>3, <4>1 DEF Leaves
      <4>3. QED
        BY <1>3, <1>5, <1>7, <1>8, <3>1, <4>2 DEF LeftAlone
    <3>4. QED
      BY <3>2, <3>3
  <2>4. QED
    BY <1>7, <2>1, <2>2, <2>3 DEF GuestFits
<1>10. ASSUME NEW b \in Plans PROVE PlanFits(b)' /\ HasOwner(b)' /\ Cardinality(MembersOf(b)') <= most'[b]
  <2>1. CASE b = a
    <3>1. effective_seat_limit(plans'[a]) = IncludedSeats /\ most'[a] = IncludedSeats
      BY <1>1 DEF effective_seat_limit, FreshPlan, UnusedPlan
    <3>2. Cardinality(MembersOf(a)') = 1
      BY <1>3, FS_Singleton
    <3>3. QED
      BY <1>3, <1>5, <2>1, <3>1, <3>2, SharedParameters DEF PlanFits, HasOwner
  <2>2. CASE b # a
    <3>1. PlanFits(b) /\ HasOwner(b) /\ Cardinality(MembersOf(b)) <= most[b]
      BY DEF SharedInv, SeatsHold
    <3>2. Cardinality(MembersOf(b)') <= most[b]
      BY <1>4, <2>2, <3>1, FewerFit, LimitsAreNumbers
    <3>3. QED
      BY <1>4, <1>6, <2>2, <3>1, <3>2 DEF PlanFits, HasOwner
  <2>3. QED
    BY <2>1, <2>2
<1>11. ASSUME NEW v \in People PROVE PersonFits(v)'
  <2>1. CASE v = u
    <3>1. membership'[u].plan = a /\ membership'[u].role = "owner"
      BY <1>1
    <3>2. QED
      BY <1>5, <2>1, <3>1 DEF PersonFits, Alone
  <2>2. CASE v # u
    <3>1. PersonFits(v) /\ membership'[v] = membership[v]
      BY <1>1, <2>2 DEF SharedInv
    <3>2. v \in signedUp => membership[v].plan \in Plans \ {a}
      <4>1. membership[v] # Alone => membership[v].plan \in Plans
        BY DEF SharedTyped, SharedTypeOK, Membership
      <4>2. membership[v].plan # a
        BY <1>2 DEF MembersOf
      <4>3. QED
        BY <3>1, <4>1, <4>2 DEF PersonFits
    <3>3. QED
      BY <1>6, <2>2, <3>1, <3>2 DEF PersonFits
  <2>3. QED
    BY <2>1, <2>2
<1>12. QED
  BY <1>9, <1>10, <1>11 DEF SharedInv, SeatsHold

LEMMA NewUserInv ==
    ASSUME SharedTyped, SharedTyped', SharedInv, NEW u \in People, NEW a \in Plans, handle_new_user(u, a) \/ remove_account_member(u, a)
    PROVE  SharedInv'
<1>1. CASE handle_new_user(u, a)
  <2>1. membership[u].role # "owner"
    BY <1>1 DEF handle_new_user, SharedInv, PersonFits, Alone
  <2>2. \A g \in Guests : guests[g].pc # "idle" => guests[g].user # u
    BY <1>1 DEF handle_new_user, SharedInv, GuestFits
  <2>3. QED
    BY <1>1, <2>1, <2>2, OwnPlanInv DEF handle_new_user
<1>2. CASE remove_account_member(u, a)
  <2>1. membership[u].role = "member"
    BY <1>2 DEF remove_account_member
  <2>2. u \in signedUp
    BY <2>1 DEF SharedInv, PersonFits, Alone
  <2>3. signedUp' = signedUp \cup {u}
    BY <1>2, <2>2 DEF remove_account_member
  <2>4. QED
    BY <1>2, <2>1, <2>2, <2>3, OwnPlanInv DEF remove_account_member
<1>3. QED
  BY <1>1, <1>2

\* What is paid for changes; the members stay.
LEMMA DealInv ==
    ASSUME SharedTyped, SharedTyped', SharedInv, NEW a \in Plans, NEW p \in Plan, Deal(a, p), p.row = plans[a].row,
           Paid(a)' => Paid(a) \/ (OwnersOf(a) # {} /\ ~Leaving(a))
    PROVE  SharedInv'
<1>1. /\ There(a) /\ UNCHANGED <<signedUp, membership, invites, guests>>
      /\ \A b \in Plans : plans'[b] = IF b = a THEN p ELSE plans[b]
      /\ \A b \in Plans : most'[b] = IF b = a /\ effective_seat_limit(p) > most[a] THEN effective_seat_limit(p) ELSE most[b]
  BY DEF Deal, SharedTyped, SharedTypeOK
<1>2. \A b \in Plans : most[b] \in Nat /\ effective_seat_limit(p) \in Nat
  BY LimitsAreNumbers, SeatLimits, SharedParameters
<1>3. \A b \in Plans : most'[b] >= most[b] /\ most'[b] \in Nat
  BY <1>1, <1>2
<1>4. \A b : MembersOf(b)' = MembersOf(b) /\ OwnersOf(b)' = OwnersOf(b)
  BY <1>1 DEF MembersOf, OwnersOf
<1>5. \A b \in Plans : There(b)' = There(b) /\ plans'[b].row = plans[b].row /\ (b # a => Paid(b)' = Paid(b))
  BY <1>1 DEF There, Paid
<1>6. \A g \in Guests : /\ Seated(g)' = Seated(g) /\ Moves(g)' = Moves(g) /\ Target(g)' = Target(g) /\ guests'[g] = guests[g]
                        /\ \A b : Leaves(g, b)' = Leaves(g, b)
  BY <1>1 DEF Seated, Moves, Target, Leaves
<1>7. \A g \in Guests : Seated(g) => Target(g) \in Plans
  BY DEF Seated, SharedTyped, SharedTypeOK, Named, Target, Invite
<1>8. ASSUME NEW g \in Guests PROVE GuestFits(g)'
  <2>1. GuestFits(g)
    BY DEF SharedInv
  <2>2. ASSUME Seated(g) PROVE SeatKept(g)'
    <3>1. PICK t \in Plans : t = Target(g)
      BY <1>7, <2>2
    <3>2. /\ There(t) /\ OwnersOf(t) # {} /\ Cardinality(MembersOf(t)) < most[t]
          /\ \A h \in Guests \ {g} : Seated(h) => Target(h) # t
      BY <2>1, <2>2, <3>1 DEF GuestFits, SeatKept
    <3>3. Cardinality(MembersOf(t)) < most'[t]
      BY <1>2, <1>3, <3>2, MembersFinite
    <3>4. QED
      BY <1>4, <1>5, <1>6, <3>1, <3>2, <3>3 DEF SeatKept
  <2>3. ASSUME Moves(g), NEW b \in Plans, Leaves(g, b) PROVE LeftAlone(g, b)'
    <3>1. LeftAlone(g, b)
      BY <2>1, <2>3 DEF GuestFits
    <3>2. b = a => ~Paid(b)'
      BY <2>3, <3>1 DEF LeftAlone, Leaving, Leaves, Moves
    <3>3. QED
      BY <1>1, <1>4, <1>5, <1>6, <3>1, <3>2 DEF LeftAlone
  <2>4. QED
    BY <1>1, <1>6, <2>1, <2>2, <2>3 DEF GuestFits
<1>9. ASSUME NEW b \in Plans PROVE PlanFits(b)' /\ HasOwner(b)' /\ Cardinality(MembersOf(b)') <= most'[b]
  <2>1. PlanFits(b) /\ HasOwner(b) /\ Cardinality(MembersOf(b)) <= most[b]
    BY DEF SharedInv, SeatsHold
  <2>2. Cardinality(MembersOf(b)') <= most'[b]
    BY <1>2, <1>3, <1>4, <2>1, MembersFinite
  <2>3. CASE b # a
    <3>1. plans'[b] = plans[b] /\ most'[b] = most[b]
      BY <1>1, <2>3
    <3>2. QED
      BY <1>1, <1>4, <1>5, <2>1, <2>2, <2>3, <3>1 DEF PlanFits, HasOwner
  <2>4. CASE b = a
    <3>1. plans'[a].row = "there" /\ effective_seat_limit(plans'[a]) <= most'[a]
      BY <1>1, <1>2, <1>5 DEF There
    <3>2. Paid(a)' => \E u \in People : OwnersOf(a) = {u}
      <4>1. OwnersOf(a) # {} => \E u \in People : OwnersOf(a) = {u}
        BY Owned
      <4>2. QED
        BY <2>1, <2>4, <4>1 DEF HasOwner
    <3>3. QED
      BY <1>4, <2>1, <2>2, <2>4, <3>1, <3>2 DEF PlanFits, HasOwner
  <2>5. QED
    BY <2>3, <2>4
<1>10. ASSUME NEW v \in People PROVE PersonFits(v)'
  <2>1. PersonFits(v) /\ (membership[v] # Alone => membership[v].plan \in Plans)
    BY DEF SharedInv, SharedTyped, SharedTypeOK, Membership
  <2>2. QED
    BY <1>1, <1>5, <2>1 DEF PersonFits
<1>11. QED
  BY <1>8, <1>9, <1>10 DEF SharedInv, SeatsHold

LEMMA DealsInv ==
    ASSUME SharedTyped, SharedTyped', SharedInv, SharedRaces = {}, NEW a \in Plans,
           SubscriptionBegins(a) \/ SubscriptionEnds(a) \/ PackChanges(a) \/ GrantBegins(a) \/ GrantEnds(a)
    PROVE  SharedInv'
<1>1. plans[a] \in Plan
  BY DEF SharedTyped, SharedTypeOK
<1>2. PICK p \in Plan : /\ Deal(a, p) /\ p.row = plans[a].row
                        /\ (p.sub = "live" \/ p.grant = "active") => Paid(a) \/ (OwnersOf(a) # {} /\ ~Leaving(a))
  <2>1. CASE SubscriptionBegins(a) \/ GrantBegins(a)
    <3>1. OwnersOf(a) # {} /\ ~Leaving(a)
      BY <2>1 DEF SubscriptionBegins, GrantBegins, NewRow, Abandoned
    <3>2. PICK p \in Plan : Deal(a, p) /\ p.row = plans[a].row
      <4>1. /\ [plans[a] EXCEPT !.sub = "live", !.pack = FALSE] \in Plan
            /\ [plans[a] EXCEPT !.sub = "live", !.pack = FALSE].row = plans[a].row
            /\ [plans[a] EXCEPT !.grant = "active"] \in Plan /\ [plans[a] EXCEPT !.grant = "active"].row = plans[a].row
        BY <1>1 DEF Plan
      <4>2. \/ Deal(a, [plans[a] EXCEPT !.sub = "live", !.pack = FALSE])
            \/ Deal(a, [plans[a] EXCEPT !.grant = "active"])
        BY <2>1 DEF SubscriptionBegins, GrantBegins
      <4>3. QED
        BY <4>1, <4>2
    <3>3. QED
      BY <3>1, <3>2
  <2>2. CASE SubscriptionEnds(a)
    BY <1>1, <2>2 DEF SubscriptionEnds, Plan, Paid
  <2>3. CASE PackChanges(a)
    BY <1>1, <2>3 DEF PackChanges, Plan, Paid
  <2>4. CASE GrantEnds(a)
    BY <1>1, <2>4 DEF GrantEnds, Plan, Paid
  <2>5. QED
    BY <2>1, <2>2, <2>3, <2>4
<1>3. plans'[a] = p
  BY <1>2 DEF Deal, SharedTyped, SharedTypeOK
<1>4. QED
  BY <1>2, <1>3, DealInv DEF Paid

LEMMA WithdrawInv ==
    ASSUME SharedTyped, SharedInv, NEW i \in Invites, WithdrawInvite(i)
    PROVE  SharedInv'
<1>1. UNCHANGED <<signedUp, membership, plans, guests, most>>
  BY DEF WithdrawInvite
<1>2. \A j \in Invites : invites'[j].plan = invites[j].plan
  BY DEF WithdrawInvite, SharedTyped, SharedTypeOK, Invite
<1>3. \A b : /\ MembersOf(b)' = MembersOf(b) /\ OwnersOf(b)' = OwnersOf(b) /\ There(b)' = There(b) /\ Paid(b)' = Paid(b)
             /\ HasOwner(b)' = HasOwner(b) /\ PersonFits(b)' = PersonFits(b)
  BY <1>1 DEF MembersOf, OwnersOf, There, Paid, HasOwner, PersonFits
<1>4. \A g \in Guests : /\ Seated(g)' = Seated(g) /\ Moves(g)' = Moves(g) /\ (Seated(g) => Target(g)' = Target(g))
                        /\ \A b : Leaves(g, b)' = Leaves(g, b)
  BY <1>1, <1>2 DEF Seated, Moves, Target, Leaves, SharedTyped, Named
<1>5. ASSUME NEW g \in Guests PROVE GuestFits(g)'
  <2>1. GuestFits(g) /\ (Moves(g) => Seated(g))
    BY DEF SharedInv, Moves, Seated
  <2>2. Seated(g) => SeatKept(g)'
    BY <1>1, <1>3, <1>4, <2>1 DEF GuestFits, SeatKept
  <2>3. ASSUME Moves(g), NEW b \in Plans, Leaves(g, b) PROVE LeftAlone(g, b)'
    <3>1. LeftAlone(g, b)
      BY <2>1, <2>3 DEF GuestFits
    <3>2. QED
      BY <1>1, <1>3, <1>4, <2>1, <2>3, <3>1 DEF LeftAlone
  <2>4. QED
    BY <1>1, <1>4, <2>1, <2>2, <2>3 DEF GuestFits
<1>6. \A b \in Plans : PlanFits(b)'
  BY <1>1, <1>2, <1>3 DEF SharedInv, PlanFits
<1>7. QED
  BY <1>1, <1>3, <1>5, <1>6 DEF SharedInv, SeatsHold

\* The acceptance commits: it seats the user, and drops what was left without history.
LEMMA CommitInv ==
    ASSUME SharedTyped, SharedTyped', SharedInv, NEW g \in Guests, Commit(g)
    PROVE  SharedInv'
<1>1. /\ guests[g].pc = "insert" /\ Seated(g) /\ Moves(g) /\ guests[g].user \in signedUp /\ guests[g].user \in People
      /\ guests[g].invite \in Invites /\ SeatKept(g) /\ \A b \in Plans : Leaves(g, b) => LeftAlone(g, b)
  BY DEF Commit, JoinIsAt, Seated, Moves, SharedInv, GuestFits, SharedTyped, Named
<1>2. PICK u \in signedUp : u = guests[g].user /\ u \in People
  BY <1>1
<1>3. PICK t \in Plans : t = Target(g)
  BY <1>1 DEF SharedTyped, SharedTypeOK, Target, Invite
<1>4. guests' = [guests EXCEPT ![g] = NoGuest] /\ UNCHANGED <<signedUp, most>>
  BY DEF Commit, RollsBack
<1>5. CASE UNCHANGED <<membership, plans, invites>>
  <2>1. PICK r : r = NoGuest
    OBVIOUS
  <2>2. PICK a : a = invites[r.invite].plan
    OBVIOUS
  <2>3. r.pc = "idle" /\ guests' = [guests EXCEPT ![g] = r] /\ UNCHANGED <<signedUp, membership, plans, invites, most>>
    BY <1>4, <1>5, <2>1 DEF NoGuest
  <2>4. QED
    BY <2>2, <2>3, GuestStep
<1>6. CASE /\ membership' = [v \in People |-> IF v = u THEN [plan |-> t, role |-> "member"]
                                              ELSE IF Dropped(g, membership[v].plan) THEN Alone ELSE membership[v]]
           /\ plans' = [a \in Plans |-> IF Dropped(g, a) THEN [plans[a] EXCEPT !.row = "deleted"] ELSE plans[a]]
           /\ invites' = [i \in Invites |-> IF Dropped(g, invites[i].plan) THEN [invites[i] EXCEPT !.state = "deleted"]
                                            ELSE IF i = guests[g].invite THEN [invites[i] EXCEPT !.state = "accepted"] ELSE invites[i]]
  <2>1. ASSUME NEW b \in Plans, Leaves(g, b)
        PROVE  /\ plans[b].row # "unused" /\ b # t /\ MembersOf(b) \subseteq {u} /\ ~Paid(b)
               /\ \A h \in Guests : Seated(h) => Target(h) # b
    BY <1>1, <1>2, <1>3, <2>1 DEF LeftAlone
  <2>2. \A b : Dropped(g, b) => Leaves(g, b)
    BY DEF Dropped, Leaves
  <2>3. \A v \in People : membership'[v] = IF v = u THEN [plan |-> t, role |-> "member"] ELSE membership[v]
    <3>1. ASSUME NEW v \in People, v # u, Dropped(g, membership[v].plan) PROVE membership[v] = Alone
      <4>1. CASE membership[v].plan \in Plans
        <5>1. v \in MembersOf(membership[v].plan)
          BY DEF MembersOf
        <5>2. MembersOf(membership[v].plan) \subseteq {u}
          BY <2>1, <2>2, <3>1, <4>1
        <5>3. QED
          BY <3>1, <5>1, <5>2
      <4>2. CASE membership[v].plan \notin Plans
        BY <4>2 DEF SharedTyped, SharedTypeOK, Membership
      <4>3. QED
        BY <4>1, <4>2
    <3>2. QED
      BY <1>6, <3>1
  <2>4. \A b \in Plans : plans'[b] = IF Dropped(g, b) THEN [plans[b] EXCEPT !.row = "deleted"] ELSE plans[b]
    BY <1>6
  <2>5. \A i \in Invites : invites'[i].plan = invites[i].plan
    BY <1>6 DEF SharedTyped, SharedTypeOK, Invite
  <2>6. ASSUME NEW b \in Plans
        PROVE  /\ Paid(b)' = Paid(b) /\ (plans'[b].row = "unused" => plans[b].row = "unused" /\ ~Dropped(g, b))
               /\ There(b)' = (There(b) /\ ~Dropped(g, b)) /\ (plans[b].row # "unused" => plans'[b].row # "unused")
    <3>1. plans[b] \in Plan
      BY DEF SharedTyped, SharedTypeOK
    <3>2. CASE Dropped(g, b)
      <4>1. /\ plans'[b].row = "deleted" /\ plans'[b].sub = plans[b].sub /\ plans'[b].grant = plans[b].grant
        BY <2>4, <3>1, <3>2 DEF Plan
      <4>2. QED
        BY <3>2, <4>1 DEF Paid, There
    <3>3. CASE ~Dropped(g, b)
      BY <2>4, <3>3 DEF Paid, There
    <3>4. QED
      BY <3>2, <3>3
  <2>7. OwnersOf(t) # {} /\ There(t) /\ Cardinality(MembersOf(t)) < most[t] /\ \A h \in Guests \ {g} : Seated(h) => Target(h) # t
    BY <1>1, <1>3 DEF SeatKept
  <2>8. \A b \in Plans : u \in OwnersOf(b) => Leaves(g, b)
    BY <1>2 DEF OwnersOf, MembersOf, Leaves
  <2>9. MembersOf(t)' = MembersOf(t) \cup {u} /\ OwnersOf(t)' = OwnersOf(t) /\ There(t)'
    <3>1. u \notin OwnersOf(t) /\ ~Dropped(g, t)
      BY <2>1, <2>2, <2>8
    <3>2. membership'[u].plan = t /\ membership'[u].role = "member"
      BY <1>2, <2>3
    <3>3. \A v \in People \ {u} : membership'[v] = membership[v]
      BY <2>3
    <3>4. MembersOf(t)' = MembersOf(t) \cup {u}
      BY <1>2, <3>2, <3>3 DEF MembersOf
    <3>5. \A v \in People : v \in OwnersOf(t)' <=> v \in OwnersOf(t)
      BY <3>1, <3>2, <3>3 DEF OwnersOf, MembersOf
    <3>6. QED
      BY <2>6, <2>7, <3>1, <3>4, <3>5 DEF OwnersOf, MembersOf
  <2>10. ASSUME NEW b \in Plans \ {t} PROVE MembersOf(b)' = MembersOf(b) \ {u} /\ OwnersOf(b)' = OwnersOf(b) \ {u}
    <3>1. membership'[u].plan = t
      BY <1>2, <2>3
    <3>2. \A v \in People \ {u} : membership'[v] = membership[v]
      BY <2>3
    <3>3. QED
      BY <3>1, <3>2 DEF MembersOf, OwnersOf
  <2>11. \A h \in Guests : guests'[h] = IF h = g THEN NoGuest ELSE guests[h]
    BY <1>4 DEF SharedTyped, SharedTypeOK
  <2>12. ~Seated(g)' /\ ~Moves(g)' /\ guests'[g].pc = "idle"
    BY <2>11 DEF Seated, Moves, NoGuest
  <2>13. ASSUME NEW h \in Guests \ {g}
         PROVE  Seated(h)' = Seated(h) /\ Moves(h)' = Moves(h) /\ (Seated(h) => Target(h)' = Target(h) /\ Target(h) \in Plans \ {t})
    <3>1. guests'[h] = guests[h]
      BY <2>11
    <3>2. Seated(h) => guests[h].invite \in Invites
      BY DEF Seated, SharedTyped, Named
    <3>3. Seated(h) => Target(h)' = Target(h) /\ Target(h) \in Plans
      BY <2>5, <3>1, <3>2 DEF Target, SharedTyped, SharedTypeOK, Invite
    <3>4. QED
      BY <2>7, <3>1, <3>3 DEF Seated, Moves
  <2>14. ASSUME NEW h \in Guests PROVE GuestFits(h)'
    <3>1. CASE h = g
      BY <2>12, <3>1 DEF GuestFits
    <3>2. CASE h # g
      <4>1. GuestFits(h) /\ guests'[h] = guests[h]
        BY <2>11, <3>2 DEF SharedInv
      <4>2. ASSUME Seated(h) PROVE SeatKept(h)'
        <5>1. PICK b \in Plans \ {t} : b = Target(h)
          BY <2>13, <3>2, <4>2
        <5>2. /\ There(b) /\ OwnersOf(b) # {} /\ Cardinality(MembersOf(b)) < most[b]
              /\ \A k \in Guests \ {h} : Seated(k) => Target(k) # b
          BY <4>1, <4>2, <5>1 DEF GuestFits, SeatKept
        <5>3. ~Leaves(g, b)
          BY <2>1, <4>2, <5>1
        <5>4. There(b)' /\ OwnersOf(b)' # {}
          BY <2>2, <2>6, <2>8, <2>10, <5>2, <5>3
        <5>5. Cardinality(MembersOf(b)') < most[b]
          BY <2>10, <5>2, FewerFit, LimitsAreNumbers
        <5>6. \A k \in Guests \ {h} : Seated(k)' => Target(k)' # b
          BY <2>12, <2>13, <5>2
        <5>7. Target(h)' = b /\ most'[b] = most[b]
          BY <1>4, <2>13, <3>2, <4>2, <5>1
        <5>8. QED
          BY <5>4, <5>5, <5>6, <5>7 DEF SeatKept
      <4>3. ASSUME Moves(h), NEW b \in Plans, Leaves(h, b)' PROVE LeftAlone(h, b)'
        <5>1. Seated(h) /\ guests[h].user \in People
          BY <4>3 DEF Moves, Seated, SharedTyped, Named
        <5>2. Leaves(h, b)
          <6>1. CASE guests[h].user = u
            BY <1>2, <2>3, <4>1, <4>3, <6>1 DEF Leaves
          <6>2. CASE guests[h].user # u
            BY <2>3, <4>1, <4>3, <5>1, <6>2 DEF Leaves
          <6>3. QED
            BY <6>1, <6>2
        <5>3. LeftAlone(h, b)
          BY <4>1, <4>3, <5>2 DEF GuestFits
        <5>4. b # t
          BY <1>1, <1>3, <5>3 DEF LeftAlone
        <5>5. MembersOf(b)' \subseteq MembersOf(b) /\ ~Paid(b)' /\ plans'[b].row # "unused"
          BY <2>6, <2>10, <5>3, <5>4 DEF LeftAlone
        <5>6. \A k \in Guests : Seated(k)' => Target(k)' # b
          BY <2>12, <2>13, <5>3 DEF LeftAlone
        <5>7. b # Target(h)' /\ guests'[h].user = guests[h].user
          BY <2>13, <3>2, <4>1, <5>1, <5>3 DEF LeftAlone
        <5>8. QED
          BY <5>3, <5>5, <5>6, <5>7 DEF LeftAlone
      <4>4. QED
        BY <1>4, <2>13, <3>2, <4>1, <4>2, <4>3 DEF GuestFits
    <3>3. QED
      BY <3>1, <3>2
  <2>15. ASSUME NEW b \in Plans PROVE PlanFits(b)' /\ HasOwner(b)' /\ Cardinality(MembersOf(b)') <= most'[b]
    <3>1. PlanFits(b) /\ HasOwner(b) /\ Cardinality(MembersOf(b)) <= most[b] /\ most'[b] = most[b]
      BY <1>4 DEF SharedInv, SeatsHold
    <3>2. PlanFits(b)'
      <4>1. plans'[b].row = "unused" => ~Paid(b)' /\ \A i \in Invites : invites'[i].plan # b
        BY <2>5, <2>6, <3>1 DEF PlanFits
      <4>2. There(b)' => plans'[b] = plans[b] /\ There(b)
        BY <2>4, <2>6
      <4>3. QED
        BY <3>1, <4>1, <4>2 DEF PlanFits
    <3>3. CASE b = t
      <4>1. Cardinality(MembersOf(t)') <= most[t]
        <5>1. Cardinality(MembersOf(t) \cup {u}) <= Cardinality(MembersOf(t)) + 1
          <6>1. PICK S : S = MembersOf(t)
            OBVIOUS
          <6>2. IsFiniteSet(S) /\ Cardinality(S) \in Nat
            BY <6>1, MembersFinite
          <6>3. Cardinality(S \cup {u}) = Cardinality(S) \/ Cardinality(S \cup {u}) = Cardinality(S) + 1
            BY <6>2, FS_AddElement
          <6>4. Cardinality(S \cup {u}) <= Cardinality(S) + 1
            BY <6>2, <6>3
          <6>5. QED
            BY <6>1, <6>4
        <5>2. IsFiniteSet(MembersOf(t) \cup {u}) /\ Cardinality(MembersOf(t) \cup {u}) \in Nat
          BY MembersFinite, FS_AddElement, FS_CardinalityType
        <5>3. QED
          BY <2>7, <2>9, <5>1, <5>2, MembersFinite, LimitsAreNumbers
      <4>2. HasOwner(t)'
        BY <2>7, <2>9, Owned DEF HasOwner
      <4>3. QED
        BY <3>1, <3>2, <3>3, <4>1, <4>2
    <3>4. CASE b # t
      <4>1. Cardinality(MembersOf(b)') <= most[b]
        BY <2>10, <3>1, <3>4, FewerFit, LimitsAreNumbers
      <4>2. HasOwner(b)'
        <5>1. CASE u \in OwnersOf(b)
          <6>1. MembersOf(b) \subseteq {u} /\ ~Paid(b)
            BY <2>1, <2>8, <5>1
          <6>2. QED
            BY <2>6, <2>10, <3>4, <6>1 DEF HasOwner
        <5>2. CASE u \notin OwnersOf(b)
          BY <2>6, <2>10, <3>1, <3>4, <5>2 DEF HasOwner
        <5>3. QED
          BY <5>1, <5>2
      <4>3. QED
        BY <3>1, <3>2, <4>1, <4>2
    <3>5. QED
      BY <3>3, <3>4
  <2>16. ASSUME NEW v \in People PROVE PersonFits(v)'
    <3>1. CASE v = u
      <4>1. membership'[u].plan = t /\ membership'[u].role = "member"
        BY <1>2, <2>3
      <4>2. QED
        BY <1>2, <1>4, <2>9, <3>1, <4>1 DEF PersonFits, Alone
    <3>2. CASE v # u
      <4>1. PersonFits(v) /\ membership'[v] = membership[v]
        BY <2>3, <3>2 DEF SharedInv
      <4>2. ASSUME v \in signedUp PROVE There(membership[v].plan)'
        <5>1. PICK b \in Plans : b = membership[v].plan
          BY <4>1, <4>2 DEF PersonFits, SharedTyped, SharedTypeOK, Membership
        <5>2. ~Dropped(g, b)
          BY <2>1, <2>2, <3>2, <5>1 DEF MembersOf
        <5>3. There(b)'
          BY <2>6, <4>1, <4>2, <5>1, <5>2 DEF PersonFits
        <5>4. QED
          BY <4>1, <5>1, <5>3 DEF There
      <4>3. QED
        BY <1>4, <4>1, <4>2 DEF PersonFits, There
    <3>3. QED
      BY <3>1, <3>2
  <2>17. QED
    BY <2>14, <2>15, <2>16 DEF SharedInv, SeatsHold
<1>7. QED
  BY <1>2, <1>3, <1>5, <1>6 DEF Commit

LEMMA SharedInvNext == SharedTyped /\ SharedTyped' /\ SharedInv /\ SharedRaces = {} /\ [SharedNext]_sharedVars => SharedInv'
<1> SUFFICES ASSUME SharedTyped, SharedTyped', SharedInv, SharedRaces = {}, [SharedNext]_sharedVars PROVE SharedInv'
  OBVIOUS
<1>1. CASE UNCHANGED sharedVars
  <2>1. UNCHANGED <<signedUp, membership, plans, invites, guests, most>>
    BY <1>1 DEF sharedVars
  <2>2. \A a : /\ MembersOf(a)' = MembersOf(a) /\ OwnersOf(a)' = OwnersOf(a) /\ There(a)' = There(a) /\ Paid(a)' = Paid(a)
               /\ PlanFits(a)' = PlanFits(a) /\ HasOwner(a)' = HasOwner(a) /\ PersonFits(a)' = PersonFits(a)
    BY <2>1 DEF MembersOf, OwnersOf, There, Paid, PlanFits, HasOwner, PersonFits
  <2>3. \A g : /\ Seated(g)' = Seated(g) /\ Moves(g)' = Moves(g) /\ Target(g)' = Target(g)
               /\ \A a : Leaves(g, a)' = Leaves(g, a)
    BY <2>1 DEF Seated, Moves, Target, Leaves
  <2>4. \A g \in Guests : GuestFits(g)
    BY DEF SharedInv
  <2>5. ASSUME NEW g \in Guests PROVE GuestFits(g)'
    <3>1. Seated(g)' => SeatKept(g)'
      BY <2>1, <2>2, <2>3, <2>4 DEF GuestFits, SeatKept
    <3>2. ASSUME Moves(g)', NEW a \in Plans, Leaves(g, a)' PROVE LeftAlone(g, a)'
      <4>1. LeftAlone(g, a)
        BY <2>3, <2>4, <3>2 DEF GuestFits
      <4>2. QED
        BY <2>1, <2>2, <2>3, <4>1 DEF LeftAlone
    <3>3. QED
      BY <2>1, <2>4, <3>1, <3>2 DEF GuestFits
  <2>6. SeatsHold'
    BY <2>1, <2>2 DEF SharedInv, SeatsHold
  <2>7. QED
    BY <2>2, <2>5, <2>6 DEF SharedInv
<1>2. CASE SharedNext
  BY <1>2, GuestInvNext, CommitInv, NewUserInv, WithdrawInv, DealsInv DEF SharedNext
<1>3. QED
  BY <1>1, <1>2

\* However many join, leave, sign up and pay at once, an account has no more members than seats, and nobody
\* is left without an account, in one that is gone, or in one that nobody owns: if nobody acts on an
\* account that is being left, which is read without a lock.
THEOREM SharedPlansCorrect == SharedRaces = {} /\ SharedSpec => []SharedPlansHold
<1>1. ASSUME SharedRaces = {} PROVE SharedSpec => []SharedPlansHold
  <2>1. SharedTyped /\ SharedInv /\ [SharedNext]_sharedVars => SharedTyped' /\ SharedInv'
    BY <1>1, SharedTypeNext, SharedInvNext
  <2>2. SharedTyped /\ SharedInv => SharedPlansHold
    <3> SUFFICES ASSUME SharedTyped, SharedInv PROVE NobodyStranded
      BY DEF SharedInv, SharedPlansHold
    <3>1. ASSUME NEW a \in Plans, MembersOf(a) # {} \/ Paid(a) PROVE Cardinality(OwnersOf(a)) = 1
      <4>1. PICK u \in People : OwnersOf(a) = {u}
        BY <3>1 DEF SharedInv, HasOwner
      <4>2. QED
        BY <4>1, FS_Singleton
    <3>2. \A u \in signedUp : u \in People => membership[u] # Alone /\ There(membership[u].plan)
      BY DEF SharedInv, PersonFits
    <3>3. QED
      BY <3>1, <3>2 DEF NobodyStranded, SharedTyped, SharedTypeOK
  <2>3. QED
    BY <2>1, <2>2, SharedTypeInit, SharedInvInit, PTL DEF SharedSpec
<1>2. QED
  BY <1>1

-----------------------------------------------------------------------------
(* A customer account *)

DeviceRow == [status : {"none", "ACTIVE", "REVOKED"}, user : Users, sub : AccountSubs \cup {NoSub}, seq : Nat]

AccountTyped ==
    /\ subs \in [AccountSubs -> AccountSubscription] /\ devices \in [Devices -> DeviceRow] /\ assigned \in Nat
    /\ access \in [Devices -> {"none", "creating", "enabled", "disabled", "orphan"}]
    /\ members \subseteq Users /\ seats \in Nat /\ owed \in BOOLEAN
    /\ account \in [suspended : BOOLEAN, leaving : BOOLEAN, deleted : BOOLEAN, banned : SUBSET {"admin", "deletion"}]
    /\ calls \in [Callers -> Call]
    /\ counts \in [acts : Nat, deaths : Nat]

\* A run of the deletion saga; a call about to disable a device that is revoked.
Deleter(c) == calls[c].op \in {"delete", "tick"}
InJobs(d) == \E c \in Callers : calls[c].pc = "jobs" /\ calls[c].device = d

\* What a request carries fits the step it is at.
CallShape(q) ==
    /\ q.op = "none" <=> q.pc = "idle"
    /\ q.op = "packs" => q.pc \in {"write", "sync"} /\ q.sub \in AccountSubs
    /\ q.pc = "write" => q.op \in {"packs", "move"}
    /\ q.op = "move" => q.device \in Devices /\ q.sub \in AccountSubs
    /\ q.pc \in {"jobs", "budget", "gate", "sync one"} => q.device \in Devices
    /\ q.pc \in {"leave", "revoke", "jobs"} => q.todo \subseteq Devices /\ q.op \in {"remove", "revoke", "leave", "delete", "tick"}
    /\ q.pc \in {"list", "stripe", "mirror"} => q.op \in {"delete", "tick"}
    /\ q.pc = "mirror" => q.sub \in AccountSubs
    /\ q.pc = "ban" => q.op \in {"suspend", "reinstate", "delete", "tick"}
    /\ q.pc = "suspend" => q.op \in {"suspend", "reinstate"}
    /\ (q.pc = "finish" => q.op = "tick") /\ (q.pc = "mark" => q.op = "delete")
    /\ q.op \in {"delete", "tick"} => q.pc \in {"mark", "list", "stripe", "mirror", "revoke", "jobs", "ban", "finish"}
AccountCallFits(c) == CallShape(calls[c]) /\ (Deleter(c) /\ calls[c].pc # "mark" => account.leaving)

\* ... setExtraPacks: the packs that are bought have places for all who use the subscription.
PacksFit(c) ==
    "packs" \notin Admitted /\ calls[c].op = "packs" /\ calls[c].pc = "write" => UsedOn(calls[c].sub) <= Included * (1 + calls[c].packs)

\* ... the deletion: what is still charged is on its list, then nothing is.
CancelFits(c) ==
    "checkout" \notin Admitted /\ Deleter(c) =>
        /\ calls[c].pc \in {"stripe", "mirror"} => \A s \in AccountSubs : subs[s].charged => s \in calls[c].todo
        /\ calls[c].pc = "mirror" => ~subs[calls[c].sub].charged
        /\ calls[c].pc \in {"revoke", "jobs", "ban", "finish"} => \A s \in AccountSubs : ~subs[s].charged
\* ... and so with who is still served, unless a race came between.
Calm == "create" \notin Admitted /\ ("revocation" \notin Admitted \/ counts.deaths = 0)
RevokeFits(c) ==
    Calm /\ Deleter(c) =>
        /\ calls[c].pc \in {"revoke", "jobs"} =>
               \A d \in Devices : access[d] = "enabled" => (d \in calls[c].todo /\ devices[d].status = "ACTIVE") \/ InJobs(d)
        /\ calls[c].pc \in {"ban", "finish"} => \A d \in Devices : access[d] = "enabled" => InJobs(d)

\* Stripe charges for what is live or lapsed; while an account is being deleted, nothing is lapsed or may become live.
ChargesFit ==
    "checkout" \notin Admitted =>
        /\ \A s \in AccountSubs : subs[s].charged => subs[s].status \in {"live", "lapsed"}
        /\ Deleting => \A s \in AccountSubs : subs[s].status \notin {"incomplete", "lapsed"}
        /\ "deletion" \in account.banned => account.leaving
        /\ BannedNotCharged

\* Who is served has a device, or a call that is about to end it.
ServedFits(d) == Calm /\ access[d] = "enabled" => devices[d].status = "ACTIVE" \/ InJobs(d)

\* A run of the saga will come to who is served, unless one died.
Saga(c) == Deleter(c) /\ calls[c].pc \in {"list", "stripe", "mirror", "revoke", "jobs"}
Dark == Calm => \A d \in Devices : access[d] = "enabled" => InJobs(d)
SagaComes == account.leaving /\ counts.deaths = 0 => (\E c \in Callers : Saga(c)) \/ Dark

\* device_entitlement, but for the account's suspension and deletion.
Place(d) ==
    /\ devices[d].status = "ACTIVE"
    /\ IF LiveSub(devices[d].sub)
       THEN Cardinality({e \in Devices : Earlier(devices, d, e) /\ devices[e].sub = devices[d].sub}) < deviceCapacity(devices[d].sub)
       ELSE Cardinality({e \in Devices : Earlier(devices, d, e) /\ ~LiveSub(devices[e].sub)}) < seats

\* A reconcile of the account is to come.
ToReconcile == owed \/ \E c \in Callers : calls[c].pc = "sync"
NoneLapsed == \A s \in AccountSubs : subs[s].status # "lapsed"
PlaceFits(d) ==
    Calm /\ counts.deaths = 0 /\ ~account.leaving /\ NoneLapsed /\ access[d] = "enabled" => Place(d) \/ InJobs(d) \/ ToReconcile

RowsFit == AccountTyped /\ (\A c \in Callers : AccountCallFits(c)) /\ \A d \in Devices : devices[d].seq <= assigned
MoneyFits == (\A c \in Callers : CancelFits(c)) /\ ChargesFit
ServiceFits == (\A c \in Callers : RevokeFits(c)) /\ (\A d \in Devices : ServedFits(d)) /\ SagaComes

AccountInv ==
    /\ RowsFit /\ MoneyFits /\ ServiceFits
    /\ \A c \in Callers : PacksFit(c)
    /\ \A d \in Devices : PlaceFits(d)

-----------------------------------------------------------------------------
(* A customer account: what a step does to the calls *)

OthersWait(c) == \A x \in Callers : x # c => calls'[x] = calls[x]
\* The call of c carries what it carried, ...
Carries(c) ==
    /\ calls'[c].op = calls[c].op /\ calls'[c].device = calls[c].device /\ calls'[c].sub = calls[c].sub
    /\ calls'[c].packs = calls[c].packs /\ calls'[c].user = calls[c].user
    /\ calls'[c].todo = calls[c].todo /\ calls'[c].revoked = calls[c].revoked

LEMMA NoCallIsACall == NoCall \in Call
BY AccountParameters DEF NoCall, Call, Op, Pc, Users

\* A call that moves to another step.
LEMMA CallMoves ==
  ASSUME AccountTyped, NEW c \in Callers, NEW q \in Call, calls' = [calls EXCEPT ![c] = q]
  PROVE  calls' \in [Callers -> Call] /\ OthersWait(c) /\ calls'[c] = q
BY DEF AccountTyped, OthersWait

LEMMA CallGoes ==
  ASSUME AccountTyped, NEW c \in Callers, NEW pc \in Pc, Goes(c, pc)
  PROVE  calls' \in [Callers -> Call] /\ OthersWait(c) /\ Carries(c) /\ calls'[c].pc = pc
<1>1. calls \in [Callers -> Call]
  BY DEF AccountTyped
<1>2. calls' = [calls EXCEPT ![c] = [calls[c] EXCEPT !.pc = pc]]
  BY DEF Goes
<1>3. calls[c] \in Call
  BY <1>1
<1>4. [calls[c] EXCEPT !.pc = pc] \in Call
  BY <1>3 DEF Call
<1>5. calls'[c] = [calls[c] EXCEPT !.pc = pc]
  BY <1>1, <1>2
<1>6. Carries(c) /\ calls'[c].pc = pc
  BY <1>3, <1>5 DEF Carries, Call
<1> QED
  BY <1>1, <1>2, <1>4, <1>6 DEF OthersWait

LEMMA CallEnds ==
  ASSUME AccountTyped, NEW c \in Callers, Ends(c)
  PROVE  calls' \in [Callers -> Call] /\ OthersWait(c) /\ calls'[c].op = "none" /\ calls'[c].pc = "idle"
BY NoCallIsACall, CallMoves DEF Ends, NoCall

LEMMA CallBegins ==
  ASSUME AccountTyped, NEW c \in Callers, NEW op \in Op, NEW pc \in Pc, NEW q \in Call, Begins(c, op, pc, q)
  PROVE  /\ calls' \in [Callers -> Call] /\ OthersWait(c)
         /\ calls'[c].op = op /\ calls'[c].pc = pc
         /\ calls'[c].device = q.device /\ calls'[c].sub = q.sub /\ calls'[c].packs = q.packs /\ calls'[c].todo = q.todo
         /\ calls[c].pc = "idle"
         /\ counts' \in [acts : Nat, deaths : Nat] /\ counts'.deaths = counts.deaths
<1> DEFINE new == [q EXCEPT !.op = op, !.pc = pc]
<1>1. new \in Call
  BY DEF Call
<1>2. calls' = [calls EXCEPT ![c] = new]
  BY DEF Begins
<1>3. /\ new.op = op /\ new.pc = pc /\ new.device = q.device
      /\ new.sub = q.sub /\ new.packs = q.packs /\ new.todo = q.todo
  BY DEF Call
<1>4. counts' \in [acts : Nat, deaths : Nat] /\ counts'.deaths = counts.deaths
  <2>1. counts \in [acts : Nat, deaths : Nat] /\ counts' = [counts EXCEPT !.acts = @ + 1]
    BY DEF AccountTyped, Begins, Acts
  <2> QED
    BY <2>1
<1>5. calls[c].pc = "idle"
  BY DEF Begins, CallAt
<1> HIDE DEF new
<1> QED
  BY <1>1, <1>2, <1>3, <1>4, <1>5, CallMoves

\* What a call carries still fits when the call does not move.
LEMMA OthersStillFit ==
  ASSUME NEW c \in Callers, AccountCallFits(c), calls'[c] = calls[c], account.leaving => account'.leaving
  PROVE  AccountCallFits(c)'
BY DEF AccountCallFits, Deleter

-----------------------------------------------------------------------------
(* A customer account: what carries each part of the invariant over a step *)

\* What is charged only shrinks, and no status changes.
MoneyStays ==
    \A s \in AccountSubs : subs'[s].status = subs[s].status /\ (subs'[s].charged => subs[s].charged)
\* A ban for the deletion comes when nothing is charged.
BannedInTime ==
    "checkout" \notin Admitted /\ "deletion" \in account'.banned => "deletion" \in account.banned \/ (account.leaving /\ \A s \in AccountSubs : ~subs[s].charged)
NothingComes == "checkout" \notin Admitted => \A s \in AccountSubs : subs[s].status \notin {"incomplete", "lapsed"}

LEMMA MoneyKept ==
  ASSUME MoneyFits, MoneyStays, BannedInTime, \A c \in Callers : AccountCallFits(c),
         account.leaving => account'.leaving, account'.leaving => Deleting,
         \A c \in Callers : calls'[c] = calls[c] \/ (CancelFits(c)' /\ (Deleter(c)' => Deleting \/ NothingComes))
  PROVE  MoneyFits'
<1>1. Deleting' => NothingComes
  <2> SUFFICES ASSUME Deleting', ~Deleting PROVE NothingComes
    BY DEF MoneyFits, ChargesFit, NothingComes
  <2>1. ~account'.leaving /\ ~account.leaving
    BY DEF Deleting
  <2>2. PICK c \in Callers : calls'[c].op = "delete"
    BY <2>1 DEF Deleting
  <2>3. Deleter(c)' /\ calls'[c] # calls[c]
    BY <2>2 DEF Deleter, Deleting
  <2> QED
    BY <2>3
<1>2. ChargesFit'
  BY <1>1 DEF ChargesFit, MoneyFits, MoneyStays, NothingComes, BannedInTime, BannedNotCharged
<1>4. ASSUME NEW c \in Callers PROVE CancelFits(c)'
  <2>1. CASE calls'[c] = calls[c]
    BY <2>1 DEF CancelFits, MoneyFits, MoneyStays, Deleter, AccountCallFits, CallShape
  <2> QED
    BY <2>1
<1> QED
  BY <1>2, <1>4 DEF MoneyFits

\* Who is served stays so with what that rests on, or has a device of an account that is not leaving.
StaysServed(d) ==
    /\ access[d] = "enabled" /\ (InJobs(d) => InJobs(d)')
    /\ devices[d].status = "ACTIVE" => devices'[d].status = "ACTIVE" \/ InJobs(d)'

LEMMA ServiceKept ==
  ASSUME ServiceFits, AccountTyped, AccountTyped', \A c \in Callers : AccountCallFits(c)', counts'.deaths = 0 => counts.deaths = 0,
         \A d \in Devices : Calm' /\ access'[d] = "enabled" =>
             StaysServed(d) \/ (devices'[d].status = "ACTIVE" /\ ~account'.leaving),
         \A c \in Callers : calls'[c] = calls[c] \/ (RevokeFits(c)' /\ (Saga(c) => Saga(c)' \/ Dark' \/ counts'.deaths # 0)),
         account'.leaving => account.leaving \/ \E c \in Callers : Saga(c)'
  PROVE  ServiceFits'
<1>0. Calm' => Calm
  BY DEF Calm
<1>1. ASSUME NEW d \in Devices PROVE ServedFits(d)'
  BY <1>0 DEF ServedFits, ServiceFits, StaysServed
<1>2. ASSUME NEW c \in Callers, calls'[c] = calls[c] PROVE RevokeFits(c)'
  <2> SUFFICES ASSUME Calm', Deleter(c)', calls[c].pc \in {"revoke", "jobs", "ban", "finish"} PROVE RevokeFits(c)'
    BY <1>2 DEF RevokeFits
  <2>1. account'.leaving
    BY <1>2 DEF AccountCallFits, CallShape
  <2>2. Deleter(c) /\ RevokeFits(c)
    BY <1>2 DEF Deleter, ServiceFits
  <2> QED
    BY <1>0, <1>2, <2>1, <2>2 DEF RevokeFits, StaysServed
<1>3. SagaComes'
  <2> SUFFICES ASSUME account'.leaving, counts'.deaths = 0, ~ \E c \in Callers : Saga(c)' PROVE Dark'
    BY DEF SagaComes, Dark
  <2>1. account.leaving /\ counts.deaths = 0
    OBVIOUS
  <2>2. CASE \E c \in Callers : Saga(c)
    <3>1. PICK c \in Callers : Saga(c)
      BY <2>2
    <3>2. calls'[c] # calls[c]
      BY <3>1 DEF Saga, Deleter
    <3> QED
      BY <3>1, <3>2
  <2>3. CASE Dark
    BY <1>0, <2>3 DEF Dark, StaysServed
  <2> QED
    BY <2>1, <2>2, <2>3 DEF SagaComes, ServiceFits, Dark
<1> QED
  BY <1>1, <1>2, <1>3 DEF ServiceFits

UsersOf(s) == {d \in Devices : devices[d].status = "ACTIVE" /\ devices[d].sub = s}

\* The packs still have places: nobody begins to use a subscription, ...
LEMMA PacksKept ==
  ASSUME NEW c \in Callers, AccountTyped, AccountTyped', AccountCallFits(c), PacksFit(c), calls'[c] = calls[c],
         \A d \in Devices : devices'[d].status = "ACTIVE" => devices[d].status = "ACTIVE" /\ devices'[d].sub = devices[d].sub
  PROVE  PacksFit(c)'
<1> SUFFICES ASSUME "packs" \notin Admitted, calls[c].op = "packs", calls[c].pc = "write" PROVE PacksFit(c)'
  BY DEF PacksFit
<1> DEFINE s == calls[c].sub
<1>1. UsersOf(s)' \subseteq UsersOf(s)
  BY DEF UsersOf
<1>2. IsFiniteSet(UsersOf(s))
  BY AccountParameters, FS_Subset DEF UsersOf
<1>3. Cardinality(UsersOf(s)') <= Cardinality(UsersOf(s))
  BY <1>1, <1>2, FS_Subset
<1>4. Cardinality(UsersOf(s)') \in Nat /\ Cardinality(UsersOf(s)) \in Nat
  BY <1>1, <1>2, FS_Subset, FS_CardinalityType
<1>5. UsedOn(s) <= Included * (1 + calls[c].packs)
  BY DEF PacksFit
<1>6. Included * (1 + calls[c].packs) \in Int
  BY AccountParameters DEF AccountTyped, Call
<1> QED
  BY <1>3, <1>4, <1>5, <1>6 DEF PacksFit, UsedOn, UsersOf

\* ... or no packs are being bought.
LEMMA NoPacks ==
  ASSUME NEW c \in Callers, AccountTyped, AccountCallFits(c), PlacesFixed, calls'[c] = calls[c]
  PROVE  PacksFit(c)'
BY DEF PacksFit, PlacesFixed

\* A place is kept when no device comes before it.
Before(d) ==
    IF LiveSub(devices[d].sub) THEN {e \in Devices : Earlier(devices, d, e) /\ devices[e].sub = devices[d].sub}
                               ELSE {e \in Devices : Earlier(devices, d, e) /\ ~LiveSub(devices[e].sub)}
Places(d) == IF LiveSub(devices[d].sub) THEN deviceCapacity(devices[d].sub) ELSE seats

LEMMA PlaceMeans ==
  ASSUME NEW d \in Devices
  PROVE  Place(d) <=> devices[d].status = "ACTIVE" /\ Cardinality(Before(d)) < Places(d)
BY DEF Place, Before, Places

LEMMA PlaceMeansNext ==
  ASSUME NEW d \in Devices
  PROVE  Place(d)' <=> devices'[d].status = "ACTIVE" /\ Cardinality(Before(d)') < Places(d)'
BY DEF Place, Before, Places

LEMMA PlacesAreIntegers ==
  ASSUME AccountTyped, NEW d \in Devices
  PROVE  Places(d) \in Int
BY AccountParameters DEF AccountTyped, Places, deviceCapacity, AccountSubscription, LiveSub

LEMMA PlaceStays ==
  ASSUME AccountTyped, AccountTyped', NEW d \in Devices, Place(d), subs' = subs, seats' = seats,
         devices'[d] = devices[d],
         \A e \in Devices : Earlier(devices, d, e)' => Earlier(devices, d, e) /\ devices'[e].sub = devices[e].sub
  PROVE  Place(d)'
<1>1. Before(d)' \subseteq Before(d)
  BY DEF Before, LiveSub
<1>2. IsFiniteSet(Before(d))
  BY AccountParameters, FS_Subset DEF Before
<1>3. Cardinality(Before(d)') <= Cardinality(Before(d))
  BY <1>1, <1>2, FS_Subset
<1>4. Cardinality(Before(d)') \in Nat /\ Cardinality(Before(d)) \in Nat
  BY <1>1, <1>2, FS_Subset, FS_CardinalityType
<1>5. Places(d)' = Places(d)
  BY DEF Places, LiveSub, deviceCapacity
<1> QED
  BY <1>3, <1>4, <1>5, PlaceMeans, PlaceMeansNext, PlacesAreIntegers

\* device_entitlement gives a place, of an account that is not leaving.
LEMMA EntitledIsPlaced ==
  ASSUME NEW d \in Devices, DeviceEntitled(devices', d), subs' = subs, seats' = seats, account' = account
  PROVE  Place(d)' /\ devices'[d].status = "ACTIVE" /\ ~account'.leaving
BY DEF DeviceEntitled, Place, LiveSub, Earlier, deviceCapacity

LEMMA JobsStay ==
  ASSUME NEW c \in Callers, OthersWait(c), calls[c].pc # "jobs", calls'[c].pc # "jobs"
  PROVE  \A d \in Devices : InJobs(d) <=> InJobs(d)'
BY DEF InJobs, OthersWait

\* A reconcile that is to come is still to come.
LEMMA ReconcileStays ==
  ASSUME NEW c \in Callers, OthersWait(c), owed => owed', calls[c].pc # "sync", ToReconcile
  PROVE  ToReconcile'
BY DEF ToReconcile, OthersWait

\* A step that only moves a call, or changes what no place depends on.
PlainStep(c) ==
    /\ UNCHANGED <<subs, devices, assigned, access, seats, owed>>
    /\ members' \subseteq Users
    /\ account' \in [suspended : BOOLEAN, leaving : BOOLEAN, deleted : BOOLEAN, banned : SUBSET {"admin", "deletion"}]
    /\ account'.leaving = account.leaving /\ BannedInTime
    /\ calls' \in [Callers -> Call] /\ OthersWait(c)
    /\ counts' \in [acts : Nat, deaths : Nat] /\ (counts'.deaths = 0 => counts.deaths = 0)
    /\ (calls[c].pc = "jobs" => ~Calm') /\ calls'[c].pc # "jobs"
    /\ calls[c].pc = "sync" => counts'.deaths # 0
    /\ Saga(c) => Saga(c)' \/ Dark \/ counts'.deaths # 0
    /\ Deleter(c)' => Deleting \/ NothingComes

LEMMA PlainStepKeeps ==
  ASSUME AccountInv, NEW c \in Callers, PlainStep(c), AccountCallFits(c)', PacksFit(c)', CancelFits(c)', RevokeFits(c)'
  PROVE  AccountInv'
<1>1. AccountTyped /\ AccountTyped'
  BY DEF AccountInv, RowsFit, AccountTyped, PlainStep
<1>2. \A x \in Callers : x # c => calls'[x] = calls[x]
  BY DEF PlainStep, OthersWait
<1>3. Calm' => \A d \in Devices : InJobs(d) <=> InJobs(d)'
  BY JobsStay DEF PlainStep
<1>4. \A x \in Callers : AccountCallFits(x)'
  <2> SUFFICES ASSUME NEW x \in Callers, x # c PROVE AccountCallFits(x)'
    OBVIOUS
  <2> QED
    BY <1>1, <1>2, OthersStillFit DEF AccountInv, RowsFit, PlainStep
<1>5. RowsFit'
  BY <1>1, <1>4 DEF AccountInv, RowsFit, PlainStep
<1>6. MoneyFits'
  <2>1. MoneyStays /\ (account'.leaving => Deleting)
    BY DEF PlainStep, MoneyStays, Deleting
  <2>2. \A x \in Callers : calls'[x] = calls[x] \/ (CancelFits(x)' /\ (Deleter(x)' => Deleting \/ NothingComes))
    BY <1>2 DEF PlainStep
  <2> QED
    BY <2>1, <2>2, MoneyKept DEF PlainStep, AccountInv, RowsFit
<1>7. ServiceFits'
  <2>1. \A d \in Devices : Calm' /\ access'[d] = "enabled" => StaysServed(d)
    BY <1>3 DEF PlainStep, StaysServed
  <2>2. Dark => Dark'
    BY <1>3 DEF PlainStep, Dark, Calm
  <2>3. \A x \in Callers : calls'[x] = calls[x] \/ (RevokeFits(x)' /\ (Saga(x) => Saga(x)' \/ Dark' \/ counts'.deaths # 0))
    BY <1>2, <2>2 DEF PlainStep
  <2>4. ServiceFits /\ (counts'.deaths = 0 => counts.deaths = 0) /\ (account'.leaving => account.leaving)
    BY DEF PlainStep, AccountInv
  <2> QED
    BY <1>1, <1>4, <2>1, <2>3, <2>4, ServiceKept
<1>8. ASSUME NEW x \in Callers PROVE PacksFit(x)'
  <2>1. CASE x = c
    BY <2>1
  <2>2. CASE x # c
    <3>1. \A d \in Devices : devices'[d].status = "ACTIVE" => devices[d].status = "ACTIVE" /\ devices'[d].sub = devices[d].sub
      BY DEF PlainStep
    <3> QED
      BY <1>1, <1>2, <2>2, <3>1, PacksKept DEF AccountInv, RowsFit
  <2> QED
    BY <2>1, <2>2
<1>9. ASSUME NEW d \in Devices PROVE PlaceFits(d)'
  <2> SUFFICES ASSUME Calm', counts'.deaths = 0, ~account'.leaving, NoneLapsed', access'[d] = "enabled", ~ToReconcile', ~InJobs(d)'
               PROVE  Place(d)'
    BY DEF PlaceFits
  <2>1. ~ToReconcile
    BY ReconcileStays DEF PlainStep
  <2>2. Place(d)
    BY <1>3, <2>1 DEF PlaceFits, AccountInv, PlainStep, NoneLapsed, Calm
  <2> QED
    BY <2>2 DEF PlainStep, Place, Earlier, LiveSub, deviceCapacity
<1> QED
  BY <1>5, <1>6, <1>7, <1>8, <1>9 DEF AccountInv

-----------------------------------------------------------------------------
(* A customer account: the steps that only move a call *)

\* A call of another kind than the deletion has nothing else to fit.
LEMMA NoDeleterFits ==
  ASSUME NEW c \in Callers, calls'[c].op \notin {"delete", "tick"}
  PROVE  CancelFits(c)' /\ RevokeFits(c)' /\ ~Deleter(c)'
BY DEF CancelFits, RevokeFits, Deleter

LEMMA PlainBegins ==
  ASSUME AccountInv, NEW c \in Callers, NEW op \in Op, NEW pc \in Pc, NEW q \in Call,
         Begins(c, op, pc, q), UNCHANGED <<rows, access, owed>>,
         op \notin {"delete", "tick"}, pc # "jobs", AccountCallFits(c)', PacksFit(c)'
  PROVE  AccountInv'
<1>1. AccountTyped
  BY DEF AccountInv, RowsFit
<1>2. /\ calls' \in [Callers -> Call] /\ OthersWait(c)
      /\ calls'[c].op = op /\ calls'[c].pc = pc /\ calls[c].pc = "idle"
      /\ counts' \in [acts : Nat, deaths : Nat] /\ counts'.deaths = counts.deaths
  BY <1>1, CallBegins
<1>3. ~Saga(c)
  BY <1>2 DEF Saga
<1>4. CancelFits(c)' /\ RevokeFits(c)' /\ ~Deleter(c)'
  BY <1>2, NoDeleterFits
<1>5. PlainStep(c)
  BY <1>1, <1>2, <1>3, <1>4 DEF PlainStep, rows, AccountTyped, BannedInTime
<1> QED
  BY <1>4, <1>5, PlainStepKeeps

LEMMA AskPacksKeeps ==
  ASSUME AccountInv, NEW c \in Callers, NEW s \in AccountSubs, NEW n \in 0..MaxPacks, AskPacks(c, s, n)
  PROVE  AccountInv'
<1> DEFINE q == [NoCall EXCEPT !.sub = s, !.packs = n]
<1>1. q \in Call /\ q.sub = s /\ q.packs = n
  BY NoCallIsACall DEF Call
<1>2. Begins(c, "packs", "write", q) /\ UNCHANGED <<rows, access, owed>> /\ UsedOn(s) <= Included * (1 + n)
  BY DEF AskPacks
<1> HIDE DEF q
<1>3. "packs" \in Op /\ "write" \in Pc
  BY DEF Op, Pc
<1>4. calls'[c].op = "packs" /\ calls'[c].pc = "write" /\ calls'[c].sub = s /\ calls'[c].packs = n
  BY <1>1, <1>2, <1>3, CallBegins DEF AccountInv, RowsFit
<1>5. AccountCallFits(c)'
  BY <1>4 DEF AccountCallFits, CallShape, Deleter
<1>6. UsedOn(s)' = UsedOn(s)
  BY <1>2 DEF UsedOn, rows
<1>7. PacksFit(c)'
  BY <1>2, <1>4, <1>6 DEF PacksFit
<1> QED
  BY <1>1, <1>2, <1>3, <1>5, <1>7, PlainBegins

LEMMA AskMoveKeeps ==
  ASSUME AccountInv, NEW c \in Callers, NEW d \in Devices, NEW s \in AccountSubs, AskMove(c, d, s)
  PROVE  AccountInv'
<1> DEFINE q == [NoCall EXCEPT !.device = d, !.sub = s]
<1>1. q \in Call /\ q.sub = s /\ q.device = d
  BY NoCallIsACall DEF Call
<1>2. Begins(c, "move", "write", q) /\ UNCHANGED <<rows, access, owed>>
  BY DEF AskMove
<1> HIDE DEF q
<1>3. "move" \in Op /\ "write" \in Pc
  BY DEF Op, Pc
<1>4. calls'[c].op = "move" /\ calls'[c].pc = "write" /\ calls'[c].sub = s /\ calls'[c].device = d
  BY <1>1, <1>2, <1>3, CallBegins DEF AccountInv, RowsFit
<1>5. AccountCallFits(c)' /\ PacksFit(c)'
  BY <1>4 DEF AccountCallFits, CallShape, Deleter, PacksFit
<1> QED
  BY <1>1, <1>2, <1>3, <1>5, PlainBegins

LEMMA AskRevokeKeeps ==
  ASSUME AccountInv, NEW c \in Callers, NEW op \in {"remove", "revoke"}, NEW d \in Devices, AskRevoke(c, d, op)
  PROVE  AccountInv'
<1> DEFINE q == [NoCall EXCEPT !.todo = {d}]
<1>1. q \in Call /\ q.todo = {d}
  BY NoCallIsACall DEF Call
<1>2. Begins(c, op, "revoke", q) /\ UNCHANGED <<rows, access, owed>>
  BY DEF AskRevoke
<1> HIDE DEF q
<1>3. op \in Op /\ "revoke" \in Pc
  BY DEF Op, Pc
<1>4. calls'[c].op = op /\ calls'[c].pc = "revoke" /\ calls'[c].todo = {d}
  BY <1>1, <1>2, <1>3, CallBegins DEF AccountInv, RowsFit
<1>5. AccountCallFits(c)' /\ PacksFit(c)'
  BY <1>4 DEF AccountCallFits, CallShape, Deleter, PacksFit
<1> QED
  BY <1>1, <1>2, <1>3, <1>5, PlainBegins

LEMMA AskDeviceKeeps ==
  ASSUME AccountInv, NEW c \in Callers, NEW op \in {"sign-in", "add"}, NEW user \in Users,
         NEW s \in AccountSubs \cup {NoSub}, AskDevice(c, user, s, op)
  PROVE  AccountInv'
<1> DEFINE q == [NoCall EXCEPT !.user = user, !.sub = s]
<1>1. q \in Call
  BY NoCallIsACall DEF Call
<1>2. Begins(c, op, "insert", q) /\ UNCHANGED <<rows, access, owed>>
  BY DEF AskDevice
<1> HIDE DEF q
<1>3. op \in Op /\ "insert" \in Pc
  BY DEF Op, Pc
<1>4. calls'[c].op = op /\ calls'[c].pc = "insert"
  BY <1>1, <1>2, <1>3, CallBegins DEF AccountInv, RowsFit
<1>5. AccountCallFits(c)' /\ PacksFit(c)'
  BY <1>4 DEF AccountCallFits, CallShape, Deleter, PacksFit
<1> QED
  BY <1>1, <1>2, <1>3, <1>5, PlainBegins

LEMMA AskProfileKeeps ==
  ASSUME AccountInv, NEW c \in Callers, NEW d \in Devices, AskProfile(c, d)
  PROVE  AccountInv'
<1> DEFINE q == [NoCall EXCEPT !.device = d]
<1>1. q \in Call /\ q.device = d
  BY NoCallIsACall DEF Call
<1>2. Begins(c, "assign", "gate", q) /\ UNCHANGED <<rows, access, owed>>
  BY DEF AskProfile
<1> HIDE DEF q
<1>3. "assign" \in Op /\ "gate" \in Pc
  BY DEF Op, Pc
<1>4. calls'[c].op = "assign" /\ calls'[c].pc = "gate" /\ calls'[c].device = d
  BY <1>1, <1>2, <1>3, CallBegins DEF AccountInv, RowsFit
<1>5. AccountCallFits(c)' /\ PacksFit(c)'
  BY <1>4 DEF AccountCallFits, CallShape, Deleter, PacksFit
<1> QED
  BY <1>1, <1>2, <1>3, <1>5, PlainBegins

LEMMA AskLeaveKeeps ==
  ASSUME AccountInv, NEW c \in Callers, AskLeave(c)
  PROVE  AccountInv'
<1> DEFINE theirs == {d \in Devices : devices[d].status # "none" /\ devices[d].user = "member"}
           q == [NoCall EXCEPT !.todo = theirs, !.revoked = {d \in theirs : devices[d].status = "REVOKED"}]
<1>1. q \in Call /\ q.todo \subseteq Devices
  BY NoCallIsACall DEF Call
<1>2. Begins(c, "leave", "leave", q) /\ UNCHANGED <<rows, access, owed>>
  BY DEF AskLeave
<1> HIDE DEF q
<1>3. "leave" \in Op /\ "leave" \in Pc
  BY DEF Op, Pc
<1>4. calls'[c].op = "leave" /\ calls'[c].pc = "leave" /\ calls'[c].todo \subseteq Devices
  BY <1>1, <1>2, <1>3, CallBegins DEF AccountInv, RowsFit
<1>5. AccountCallFits(c)' /\ PacksFit(c)'
  BY <1>4 DEF AccountCallFits, CallShape, Deleter, PacksFit
<1> QED
  BY <1>1, <1>2, <1>3, <1>5, PlainBegins

LEMMA AskSuspensionKeeps ==
  ASSUME AccountInv, NEW c \in Callers, NEW op \in {"suspend", "reinstate"}, AskSuspension(c, op)
  PROVE  AccountInv'
<1> DEFINE theirs == {d \in Devices : devices[d].user \in members /\ access[d] = IF op = "suspend" THEN "enabled" ELSE "disabled"}
           q == [NoCall EXCEPT !.todo = theirs]
<1>1. q \in Call
  BY NoCallIsACall DEF Call
<1>2. Begins(c, op, "suspend", q) /\ UNCHANGED <<rows, access, owed>>
  BY DEF AskSuspension
<1> HIDE DEF q
<1>3. op \in Op /\ "suspend" \in Pc
  BY DEF Op, Pc
<1>4. calls'[c].op = op /\ calls'[c].pc = "suspend"
  BY <1>1, <1>2, <1>3, CallBegins DEF AccountInv, RowsFit
<1>5. AccountCallFits(c)' /\ PacksFit(c)'
  BY <1>4 DEF AccountCallFits, CallShape, Deleter, PacksFit
<1> QED
  BY <1>1, <1>2, <1>3, <1>5, PlainBegins

LEMMA AskDeletionKeeps ==
  ASSUME AccountInv, NEW c \in Callers, AskDeletion(c)
  PROVE  AccountInv'
<1>1. AccountTyped /\ "delete" \in Op /\ "mark" \in Pc
  BY DEF AccountInv, RowsFit, Op, Pc
<1>2. NothingComes /\ Begins(c, "delete", "mark", NoCall) /\ UNCHANGED <<rows, access, owed>>
  BY DEF AskDeletion, NothingComes
<1>3. /\ calls' \in [Callers -> Call] /\ OthersWait(c)
      /\ calls'[c].op = "delete" /\ calls'[c].pc = "mark" /\ calls[c].pc = "idle"
      /\ counts' \in [acts : Nat, deaths : Nat] /\ counts'.deaths = counts.deaths
  BY <1>1, <1>2, NoCallIsACall, CallBegins
<1>4. AccountCallFits(c)' /\ PacksFit(c)' /\ CancelFits(c)' /\ RevokeFits(c)' /\ ~Saga(c)
  BY <1>3 DEF AccountCallFits, CallShape, PacksFit, CancelFits, RevokeFits, Deleter, Saga
<1>5. PlainStep(c)
  BY <1>1, <1>2, <1>3, <1>4 DEF PlainStep, rows, AccountTyped, BannedInTime
<1> QED
  BY <1>4, <1>5, PlainStepKeeps

LEMMA TickKeeps ==
  ASSUME AccountInv, NEW c \in Callers, Tick(c)
  PROVE  AccountInv'
<1> DEFINE q == [NoCall EXCEPT !.op = "tick", !.pc = "list"]
<1>1. AccountTyped
  BY DEF AccountInv, RowsFit
<1>2. q \in Call /\ q.op = "tick" /\ q.pc = "list"
  BY NoCallIsACall DEF Call, Op, Pc
<1>3. calls' = [calls EXCEPT ![c] = q] /\ calls[c].pc = "idle" /\ account.leaving /\ UNCHANGED <<rows, access, owed, counts>>
  BY DEF Tick, CallAt
<1> HIDE DEF q
<1>4. calls' \in [Callers -> Call] /\ OthersWait(c) /\ calls'[c].op = "tick" /\ calls'[c].pc = "list"
  BY <1>1, <1>2, <1>3, CallMoves
<1>5. AccountCallFits(c)' /\ PacksFit(c)' /\ CancelFits(c)' /\ RevokeFits(c)' /\ ~Saga(c)
  BY <1>3, <1>4 DEF AccountCallFits, CallShape, PacksFit, CancelFits, RevokeFits, Deleter, Saga, rows
<1>6. PlainStep(c)
  BY <1>1, <1>3, <1>4, <1>5 DEF PlainStep, rows, AccountTyped, BannedInTime, Deleting
<1> QED
  BY <1>5, <1>6, PlainStepKeeps

\* A call of another kind than the deletion goes on or ends.
LEMMA PlainGoes ==
  ASSUME AccountInv, NEW c \in Callers, UNCHANGED <<subs, devices, assigned, access, seats, owed, counts>>,
         members' \subseteq Users,
         account' \in [suspended : BOOLEAN, leaving : BOOLEAN, deleted : BOOLEAN, banned : SUBSET {"admin", "deletion"}],
         account'.leaving = account.leaving, BannedInTime,
         ~Deleter(c), calls[c].pc \notin {"jobs", "sync"},
         Ends(c) \/ \E pc \in Pc \ {"jobs"} : Goes(c, pc) /\ (AccountCallFits(c)' /\ PacksFit(c)')
  PROVE  AccountInv'
<1>1. AccountTyped
  BY DEF AccountInv, RowsFit
<1>2. /\ calls' \in [Callers -> Call] /\ OthersWait(c) /\ calls'[c].pc # "jobs"
      /\ calls'[c].op \notin {"delete", "tick"}
      /\ AccountCallFits(c)' /\ PacksFit(c)'
  <2>1. CASE Ends(c)
    <3>1. calls' \in [Callers -> Call] /\ OthersWait(c) /\ calls'[c].op = "none" /\ calls'[c].pc = "idle"
      BY <1>1, <2>1, CallEnds
    <3> QED
      BY <3>1 DEF AccountCallFits, CallShape, PacksFit, Deleter
  <2>2. ASSUME NEW pc \in Pc \ {"jobs"}, Goes(c, pc), AccountCallFits(c)', PacksFit(c)'
        PROVE  calls' \in [Callers -> Call] /\ OthersWait(c) /\ calls'[c].pc # "jobs" /\ calls'[c].op \notin {"delete", "tick"}
    BY <1>1, <2>2, CallGoes DEF Carries, Deleter
  <2> QED
    BY <2>1, <2>2
<1>3. CancelFits(c)' /\ RevokeFits(c)' /\ ~Deleter(c)'
  BY <1>2, NoDeleterFits
<1>4. PlainStep(c)
  BY <1>1, <1>2, <1>3 DEF PlainStep, AccountTyped, Saga
<1> QED
  BY <1>2, <1>3, <1>4, PlainStepKeeps

LEMMA GateKeeps ==
  ASSUME AccountInv, NEW c \in Callers, Gate(c)
  PROVE  AccountInv'
<1>1. /\ calls[c].pc = "gate" /\ calls[c].device \in Devices /\ ~Deleter(c) /\ calls[c].op \notin {"packs", "none"} /\ AccountTyped
      /\ UNCHANGED <<subs, devices, assigned, access, seats, owed, counts, members, account>>
  BY DEF AccountInv, RowsFit, AccountCallFits, CallShape, Gate, CallAt, Deleter, rows
<1>2. ASSUME Goes(c, "sync one") PROVE AccountCallFits(c)' /\ PacksFit(c)'
  <2>1. Carries(c) /\ calls'[c].pc = "sync one"
    BY <1>1, <1>2, CallGoes DEF Pc
  <2> QED
    BY <1>1, <2>1 DEF AccountCallFits, CallShape, PacksFit, Carries, AccountInv, RowsFit, Deleter
<1>3. Ends(c) \/ Goes(c, "sync one")
  BY DEF Gate
<1> QED
  BY <1>1, <1>2, <1>3, PlainGoes DEF AccountTyped, BannedInTime, Pc

LEMMA BudgetAllowsKeeps ==
  ASSUME AccountInv, NEW c \in Callers, BudgetAllows(c)
  PROVE  AccountInv'
<1>1. /\ calls[c].pc = "budget" /\ calls[c].device \in Devices /\ ~Deleter(c) /\ calls[c].op \notin {"packs", "none"} /\ AccountTyped
      /\ UNCHANGED <<subs, devices, assigned, access, seats, owed, counts, members, account>>
  BY DEF AccountInv, RowsFit, AccountCallFits, CallShape, BudgetAllows, CallAt, Deleter, rows
<1>2. ASSUME Goes(c, "sync") PROVE AccountCallFits(c)' /\ PacksFit(c)'
  <2>1. Carries(c) /\ calls'[c].pc = "sync"
    BY <1>1, <1>2, CallGoes DEF Pc
  <2> QED
    BY <1>1, <2>1 DEF AccountCallFits, CallShape, PacksFit, Carries, AccountInv, RowsFit, Deleter
<1>3. Ends(c) \/ Goes(c, "sync")
  BY DEF BudgetAllows
<1> QED
  BY <1>1, <1>2, <1>3, PlainGoes DEF AccountTyped, BannedInTime, Pc

LEMMA RemoveMemberKeeps ==
  ASSUME AccountInv, NEW c \in Callers, RemoveMember(c)
  PROVE  AccountInv'
<1>1. /\ calls[c].pc = "leave" /\ calls[c].todo \subseteq Devices /\ ~Deleter(c) /\ calls[c].op \in {"remove", "revoke", "leave"}
      /\ AccountTyped /\ members' \subseteq Users
      /\ UNCHANGED <<subs, devices, assigned, access, seats, owed, counts, account>>
  BY DEF AccountInv, RowsFit, AccountCallFits, CallShape, RemoveMember, CallAt, Deleter, AccountTyped
<1>2. Goes(c, "revoke") /\ "revoke" \in Pc \ {"jobs"}
  BY DEF RemoveMember, Pc
<1>3. AccountCallFits(c)' /\ PacksFit(c)'
  <2>1. Carries(c) /\ calls'[c].pc = "revoke"
    BY <1>1, <1>2, CallGoes
  <2> QED
    BY <1>1, <2>1 DEF AccountCallFits, CallShape, PacksFit, Carries, Deleter
<1> QED
  BY <1>1, <1>2, <1>3, PlainGoes DEF AccountTyped, BannedInTime

LEMMA SetSuspensionKeeps ==
  ASSUME AccountInv, NEW c \in Callers, SetSuspension(c)
  PROVE  AccountInv'
<1>1. /\ calls[c].pc = "suspend" /\ ~Deleter(c) /\ calls[c].op \in {"suspend", "reinstate"} /\ AccountTyped
      /\ UNCHANGED <<subs, devices, assigned, access, seats, owed, counts, members>>
  BY DEF AccountInv, RowsFit, AccountCallFits, CallShape, SetSuspension, CallAt, Deleter
<1>2. /\ account' \in [suspended : BOOLEAN, leaving : BOOLEAN, deleted : BOOLEAN, banned : SUBSET {"admin", "deletion"}]
      /\ account'.leaving = account.leaving /\ account'.banned = account.banned
  BY <1>1 DEF AccountTyped, SetSuspension
<1>3. ASSUME Goes(c, "ban") PROVE AccountCallFits(c)' /\ PacksFit(c)'
  <2>1. Carries(c) /\ calls'[c].pc = "ban"
    BY <1>1, <1>3, CallGoes DEF Pc
  <2> QED
    BY <1>1, <2>1 DEF AccountCallFits, CallShape, PacksFit, Carries, Deleter
<1>4. Ends(c) \/ Goes(c, "ban")
  BY DEF SetSuspension
<1> QED
  BY <1>1, <1>2, <1>3, <1>4, PlainGoes DEF AccountTyped, BannedInTime, Pc

-----------------------------------------------------------------------------
(* A customer account: the steps of the deletion that only move its call *)

LEMMA ListSubsKeeps ==
  ASSUME AccountInv, NEW c \in Callers, ListSubs(c)
  PROVE  AccountInv'
<1> DEFINE live == {s \in AccountSubs : LiveSub(s)}
           q == [calls[c] EXCEPT !.pc = "stripe", !.todo = live]
<1>1. AccountTyped /\ calls[c] \in Call /\ calls[c].pc = "list" /\ Deleter(c) /\ account.leaving /\ calls[c].op # "none"
  BY DEF AccountInv, RowsFit, AccountTyped, ListSubs, CallAt, AccountCallFits, CallShape, Deleter
<1>2. q \in Call /\ q.op = calls[c].op /\ q.pc = "stripe" /\ q.todo = live
  BY <1>1 DEF Call, Pc
<1>3. calls' = [calls EXCEPT ![c] = q] /\ UNCHANGED <<rows, access, owed, counts>>
  BY <1>1 DEF ListSubs, AccountTyped
<1>4. "checkout" \notin Admitted => \A s \in AccountSubs : subs[s].charged => s \in live
  BY <1>1 DEF AccountInv, MoneyFits, ChargesFit, Deleting, LiveSub
<1> HIDE DEF q, live
<1>5. calls' \in [Callers -> Call] /\ OthersWait(c) /\ calls'[c] = q
  BY <1>1, <1>2, <1>3, CallMoves
<1>6. AccountCallFits(c)' /\ PacksFit(c)' /\ CancelFits(c)' /\ RevokeFits(c)' /\ Saga(c)'
  BY <1>1, <1>2, <1>3, <1>4, <1>5 DEF AccountCallFits, CallShape, PacksFit, CancelFits, RevokeFits, Deleter, Saga, rows
<1>7. PlainStep(c)
  BY <1>1, <1>2, <1>3, <1>5, <1>6 DEF PlainStep, rows, AccountTyped, BannedInTime, Deleting
<1> QED
  BY <1>6, <1>7, PlainStepKeeps

LEMMA ListDevicesKeeps ==
  ASSUME AccountInv, NEW c \in Callers, ListDevices(c)
  PROVE  AccountInv'
<1> DEFINE active == {d \in Devices : devices[d].status = "ACTIVE"}
           q == [calls[c] EXCEPT !.pc = "revoke", !.todo = active]
<1>1. /\ AccountTyped /\ calls[c] \in Call /\ calls[c].pc = "stripe" /\ calls[c].todo = {}
      /\ Deleter(c) /\ account.leaving /\ calls[c].op \in {"delete", "tick"}
  BY DEF AccountInv, RowsFit, AccountTyped, ListDevices, CallAt, AccountCallFits, CallShape, Deleter
<1>2. q \in Call /\ q.op = calls[c].op /\ q.pc = "revoke" /\ q.todo = active
  BY <1>1 DEF Call, Pc
<1>3. calls' = [calls EXCEPT ![c] = q] /\ UNCHANGED <<rows, access, owed, counts>>
  BY <1>1 DEF ListDevices, AccountTyped
<1>4. "checkout" \notin Admitted => \A s \in AccountSubs : ~subs[s].charged
  BY <1>1 DEF AccountInv, MoneyFits, CancelFits
<1>5. Calm => \A d \in Devices : access[d] = "enabled" => d \in active \/ InJobs(d)
  BY DEF AccountInv, ServiceFits, ServedFits
<1>6. active \subseteq Devices /\ \A d \in active : devices[d].status = "ACTIVE"
  OBVIOUS
<1> HIDE DEF q, active
<1>7. calls' \in [Callers -> Call] /\ OthersWait(c) /\ calls'[c] = q
  BY <1>1, <1>2, <1>3, CallMoves
<1>8. \A d \in Devices : InJobs(d) <=> InJobs(d)'
  BY <1>1, <1>2, <1>7, JobsStay
<1>9. AccountCallFits(c)' /\ PacksFit(c)' /\ CancelFits(c)' /\ Saga(c)'
  BY <1>1, <1>2, <1>3, <1>4, <1>6, <1>7 DEF AccountCallFits, CallShape, PacksFit, CancelFits, Deleter, Saga, rows
<1>10. RevokeFits(c)'
  BY <1>2, <1>3, <1>5, <1>6, <1>7, <1>8 DEF RevokeFits, Deleter, rows, Calm
<1>11. PlainStep(c)
  BY <1>1, <1>2, <1>3, <1>7, <1>9 DEF PlainStep, rows, AccountTyped, BannedInTime, Deleting
<1> QED
  BY <1>9, <1>10, <1>11, PlainStepKeeps

\* The list is done: a deletion goes on to ban, and nobody is served but by a call that will end it.
LEMMA RevokedKeeps ==
  ASSUME AccountInv, NEW c \in Callers, Revoked(c)
  PROVE  AccountInv'
<1>1. /\ AccountTyped /\ calls[c].pc = "revoke" /\ calls[c].todo = {} /\ calls[c].op \in {"remove", "revoke", "leave", "delete", "tick"}
      /\ UNCHANGED <<subs, devices, assigned, members, account, seats, access, owed, counts>>
      /\ (Deleter(c) => account.leaving)
  BY DEF AccountInv, RowsFit, Revoked, CallAt, AccountCallFits, CallShape, rows
<1>2. CASE ~Deleter(c)
  <2>1. ASSUME Goes(c, "sync"), calls[c].op = "remove" PROVE AccountCallFits(c)' /\ PacksFit(c)'
    <3>1. Carries(c) /\ calls'[c].pc = "sync"
      BY <1>1, <2>1, CallGoes DEF Pc
    <3> QED
      BY <2>1, <3>1 DEF AccountCallFits, CallShape, PacksFit, Carries, Deleter
  <2>2. Ends(c) \/ (Goes(c, "sync") /\ calls[c].op = "remove")
    BY <1>1, <1>2 DEF Revoked, Deleter
  <2> QED
    BY <1>1, <1>2, <2>1, <2>2, PlainGoes DEF AccountTyped, BannedInTime, Pc
<1>3. CASE Deleter(c)
  <2>1. Goes(c, "ban") /\ "ban" \in Pc
    BY <1>1, <1>3 DEF Revoked, Deleter, Pc
  <2>2. calls' \in [Callers -> Call] /\ OthersWait(c) /\ Carries(c) /\ calls'[c].pc = "ban"
    BY <1>1, <2>1, CallGoes
  <2>3. AccountCallFits(c)' /\ PacksFit(c)'
    BY <1>1, <1>3, <2>2 DEF AccountCallFits, CallShape, PacksFit, Carries, Deleter
  <2>4. CancelFits(c)'
    BY <1>1, <1>3, <2>2 DEF CancelFits, Carries, Deleter, AccountInv, MoneyFits
  <2>5. \A d \in Devices : InJobs(d) <=> InJobs(d)'
    BY <1>1, <2>2, JobsStay
  <2>6. Dark
    BY <1>1, <1>3 DEF Dark, AccountInv, ServiceFits, RevokeFits
  <2>7. RevokeFits(c)'
    BY <1>1, <2>2, <2>5, <2>6 DEF RevokeFits, Dark, Calm
  <2>8. PlainStep(c)
    BY <1>1, <1>3, <2>2, <2>6 DEF PlainStep, AccountTyped, BannedInTime, Deleting
  <2> QED
    BY <2>3, <2>4, <2>7, <2>8, PlainStepKeeps
<1> QED
  BY <1>2, <1>3

LEMMA BanKeeps ==
  ASSUME AccountInv, NEW c \in Callers, Ban(c)
  PROVE  AccountInv'
<1>1. /\ AccountTyped /\ calls[c].pc = "ban" /\ calls[c].op \in {"suspend", "reinstate", "delete", "tick"}
      /\ UNCHANGED <<subs, devices, assigned, members, seats, access, owed, counts>>
      /\ (Deleter(c) => account.leaving)
  BY DEF AccountInv, RowsFit, Ban, CallAt, AccountCallFits, CallShape
<1>2. /\ account' \in [suspended : BOOLEAN, leaving : BOOLEAN, deleted : BOOLEAN, banned : SUBSET {"admin", "deletion"}]
      /\ account'.leaving = account.leaving
      /\ ("deletion" \in account'.banned => "deletion" \in account.banned \/ Deleter(c))
  BY <1>1 DEF AccountTyped, Ban, Deleter
<1>3. Deleter(c) => ("checkout" \notin Admitted => \A s \in AccountSubs : ~subs[s].charged) /\ Dark
  BY <1>1 DEF AccountInv, MoneyFits, ServiceFits, CancelFits, RevokeFits, Dark
<1>4. BannedInTime
  BY <1>1, <1>2, <1>3 DEF BannedInTime
<1>5. CASE Ends(c)
  <2>1. calls' \in [Callers -> Call] /\ OthersWait(c) /\ calls'[c].op = "none" /\ calls'[c].pc = "idle"
    BY <1>1, <1>5, CallEnds
  <2>2. AccountCallFits(c)' /\ PacksFit(c)' /\ CancelFits(c)' /\ RevokeFits(c)' /\ ~Deleter(c)'
    BY <2>1 DEF AccountCallFits, CallShape, PacksFit, CancelFits, RevokeFits, Deleter
  <2>3. PlainStep(c)
    BY <1>1, <1>2, <1>4, <2>1, <2>2 DEF PlainStep, AccountTyped, Saga
  <2> QED
    BY <2>2, <2>3, PlainStepKeeps
<1>6. CASE Goes(c, "finish") /\ calls[c].op = "tick"
  <2>1. calls' \in [Callers -> Call] /\ OthersWait(c) /\ Carries(c) /\ calls'[c].pc = "finish"
    BY <1>1, <1>6, CallGoes DEF Pc
  <2>2. AccountCallFits(c)' /\ PacksFit(c)' /\ CancelFits(c)'
    BY <1>1, <1>2, <1>3, <1>6, <2>1 DEF AccountCallFits, CallShape, PacksFit, CancelFits, Carries, Deleter
  <2>3. \A d \in Devices : InJobs(d) <=> InJobs(d)'
    BY <1>1, <2>1, JobsStay
  <2>4. RevokeFits(c)'
    BY <1>1, <1>3, <1>6, <2>1, <2>3 DEF RevokeFits, Dark, Deleter, Calm
  <2>5. Dark /\ Deleting
    BY <1>1, <1>3, <1>6 DEF Deleter, Deleting
  <2>6. PlainStep(c)
    BY <1>1, <1>2, <1>4, <2>1, <2>5 DEF PlainStep, AccountTyped
  <2> QED
    BY <2>2, <2>4, <2>6, PlainStepKeeps
<1> QED
  BY <1>5, <1>6 DEF Ban

LEMMA CallDiesKeeps ==
  ASSUME AccountInv, NEW c \in Callers, CallDies(c)
  PROVE  AccountInv'
<1>1. /\ AccountTyped /\ ("revocation" \notin Admitted => calls[c].pc # "jobs")
      /\ UNCHANGED <<subs, devices, assigned, members, account, seats, access, owed>>
  BY DEF AccountInv, RowsFit, CallDies, CallAt, rows
<1>2. counts' \in [acts : Nat, deaths : Nat] /\ counts'.deaths # 0
  <2>1. counts \in [acts : Nat, deaths : Nat] /\ counts' = [counts EXCEPT !.deaths = @ + 1]
    BY <1>1 DEF AccountTyped, CallDies
  <2> QED
    BY <2>1
<1>3. calls' \in [Callers -> Call] /\ OthersWait(c) /\ calls'[c].op = "none" /\ calls'[c].pc = "idle"
  BY <1>1, CallEnds DEF CallDies
<1>4. AccountCallFits(c)' /\ PacksFit(c)' /\ CancelFits(c)' /\ RevokeFits(c)' /\ ~Deleter(c)'
  BY <1>3 DEF AccountCallFits, CallShape, PacksFit, CancelFits, RevokeFits, Deleter
<1>5. PlainStep(c)
  BY <1>1, <1>2, <1>3, <1>4 DEF PlainStep, AccountTyped, BannedInTime, Calm
<1> QED
  BY <1>4, <1>5, PlainStepKeeps

-----------------------------------------------------------------------------
(* A customer account: a reconcile *)

AccessState == {"none", "creating", "enabled", "disabled", "orphan"}

LEMMA InsertedFits ==
  ASSUME AccountTyped, NEW d \in Devices, NEW user \in Users, NEW s \in AccountSubs \cup {NoSub},
         \A e \in Devices : devices[e].seq <= assigned, devices' = Inserted(d, user, s), assigned' = assigned + 1
  PROVE  /\ devices' \in [Devices -> DeviceRow] /\ assigned' \in Nat
         /\ \A e \in Devices : devices'[e].seq <= assigned'
         /\ devices'[d].status = "ACTIVE" /\ devices'[d].seq = assigned + 1
         /\ \A e \in Devices : e # d => devices'[e] = devices[e]
<1> DEFINE row == [status |-> "ACTIVE", user |-> user, sub |-> s, seq |-> assigned + 1]
<1>1. row \in DeviceRow /\ row.status = "ACTIVE" /\ row.seq = assigned + 1
  BY DEF AccountTyped, DeviceRow
<1>2. devices \in [Devices -> DeviceRow] /\ assigned \in Nat /\ devices' = [devices EXCEPT ![d] = row]
  BY DEF AccountTyped, Inserted
<1> HIDE DEF row
<1>3. devices' \in [Devices -> DeviceRow] /\ devices'[d] = row /\ \A e \in Devices : e # d => devices'[e] = devices[e]
  BY <1>1, <1>2
<1>4. \A e \in Devices : devices[e].seq \in Nat
  BY <1>2 DEF DeviceRow
<1>5. ASSUME NEW e \in Devices PROVE devices'[e].seq <= assigned'
  BY <1>1, <1>2, <1>3, <1>4
<1> QED
  BY <1>1, <1>2, <1>3, <1>5

\* Only who is entitled to it is served after a reconcile.
LEMMA ReconcileServes ==
  ASSUME AccountTyped, \A e \in Devices : devices[e].seq <= assigned,
         Reconcile, UNCHANGED <<subs, members, account, seats>>
  PROVE  /\ devices' \in [Devices -> DeviceRow] /\ assigned' \in Nat /\ access' \in [Devices -> AccessState]
         /\ \A d \in Devices : devices'[d].seq <= assigned'
         /\ \A d \in Devices : access'[d] = "enabled" => Place(d)' /\ devices'[d].status = "ACTIVE" /\ ~account'.leaving
         /\ devices' = devices \/ PlacesFixed
<1>1. access' = [d \in Devices |-> Reconciled(devices', d)]
  BY DEF Reconcile
<1>2. \A d \in Devices : Reconciled(devices', d) \in AccessState
  BY DEF Reconciled, AccountTyped, AccessState
<1>3. access' \in [Devices -> AccessState]
  BY <1>1, <1>2
<1>4. ASSUME NEW d \in Devices, access'[d] = "enabled" PROVE DeviceEntitled(devices', d)
  <2>1. Reconciled(devices', d) = "enabled"
    BY <1>1, <1>4
  <2> QED
    BY <2>1 DEF Reconciled
<1>5. ASSUME NEW d \in Devices, access'[d] = "enabled"
      PROVE  Place(d)' /\ devices'[d].status = "ACTIVE" /\ ~account'.leaving
  BY <1>4, <1>5, EntitledIsPlaced
<1>6. CASE devices' = devices /\ assigned' = assigned
  BY <1>3, <1>5, <1>6 DEF AccountTyped
<1>7. CASE \E u \in WithoutDevice, d \in Free, s \in AccountSubs \cup {NoSub} :
               PlacesFixed /\ devices' = Inserted(d, u, s) /\ assigned' = assigned + 1
  <2>1. PICK u \in WithoutDevice, d \in Free, s \in AccountSubs \cup {NoSub} :
               PlacesFixed /\ devices' = Inserted(d, u, s) /\ assigned' = assigned + 1
    BY <1>7
  <2>2. u \in Users /\ d \in Devices
    BY DEF WithoutDevice, Free, AccountTyped
  <2>3. /\ devices' \in [Devices -> DeviceRow] /\ assigned' \in Nat
        /\ \A e \in Devices : devices'[e].seq <= assigned'
    BY <2>1, <2>2, InsertedFits
  <2> QED
    BY <1>3, <1>5, <2>1, <2>3
<1> QED
  BY <1>6, <1>7 DEF Reconcile

\* A step in which one call changes tables too.
LEMMA MoneyStep ==
  ASSUME AccountInv, NEW c \in Callers, OthersWait(c), CancelFits(c)', MoneyStays,
         account'.leaving = account.leaving, account'.banned = account.banned, Deleter(c)' => Deleter(c)
  PROVE  MoneyFits'
<1>1. BannedInTime /\ (account'.leaving => Deleting)
  BY DEF BannedInTime, Deleting
<1>2. Deleter(c)' => Deleting
  BY DEF AccountInv, RowsFit, AccountCallFits, CallShape, Deleter, Deleting
<1>3. \A x \in Callers : calls'[x] = calls[x] \/ (CancelFits(x)' /\ (Deleter(x)' => Deleting \/ NothingComes))
  BY <1>2 DEF OthersWait
<1> QED
  BY <1>1, <1>3, MoneyKept DEF AccountInv, RowsFit

LEMMA CallStepKeeps ==
  ASSUME AccountInv, NEW c \in Callers, OthersWait(c),
         AccountTyped', \A d \in Devices : devices'[d].seq <= assigned', counts'.deaths = counts.deaths, MoneyFits',
         AccountCallFits(c)', RevokeFits(c)', PacksFit(c)', Saga(c) => Saga(c)' \/ Dark',
         account.leaving => account'.leaving, account'.leaving => account.leaving \/ Saga(c)',
         \A d \in Devices : Calm' /\ access'[d] = "enabled" =>
             StaysServed(d) \/ (devices'[d].status = "ACTIVE" /\ ~account'.leaving),
         \/ PlacesFixed
         \/ \A d \in Devices : devices'[d].status = "ACTIVE" => devices[d].status = "ACTIVE" /\ devices'[d].sub = devices[d].sub,
         \A d \in Devices : PlaceFits(d)'
  PROVE  AccountInv'
<1>1. AccountTyped /\ \A x \in Callers : x # c => calls'[x] = calls[x]
  BY DEF AccountInv, RowsFit, OthersWait
<1>2. \A x \in Callers : AccountCallFits(x)'
  <2> SUFFICES ASSUME NEW x \in Callers, x # c PROVE AccountCallFits(x)'
    OBVIOUS
  <2> QED
    BY <1>1, OthersStillFit DEF AccountInv, RowsFit
<1>3. ServiceFits'
  <2>1. \A x \in Callers : calls'[x] = calls[x] \/ (RevokeFits(x)' /\ (Saga(x) => Saga(x)' \/ Dark' \/ counts'.deaths # 0))
    BY <1>1
  <2>2. ServiceFits /\ (counts'.deaths = 0 => counts.deaths = 0) /\ (account'.leaving => account.leaving \/ \E x \in Callers : Saga(x)')
    BY DEF AccountInv
  <2> QED
    BY <1>1, <1>2, <2>1, <2>2, ServiceKept
<1>4. ASSUME NEW x \in Callers PROVE PacksFit(x)'
  <2>1. CASE x = c
    BY <2>1
  <2>2. CASE x # c /\ PlacesFixed
    BY <1>1, <2>2, NoPacks DEF AccountInv, RowsFit
  <2>3. CASE x # c /\ ~PlacesFixed
    <3>1. \A d \in Devices : devices'[d].status = "ACTIVE" => devices[d].status = "ACTIVE" /\ devices'[d].sub = devices[d].sub
      BY <2>3
    <3> QED
      BY <1>1, <2>3, <3>1, PacksKept DEF AccountInv, RowsFit
  <2> QED
    BY <2>1, <2>2, <2>3
<1> QED
  BY <1>2, <1>3, <1>4 DEF AccountInv, RowsFit

LEMMA SyncAccountKeeps ==
  ASSUME AccountInv, NEW c \in Callers, SyncAccount(c)
  PROVE  AccountInv'
<1>1. /\ AccountTyped /\ (\A e \in Devices : devices[e].seq <= assigned) /\ Reconcile /\ Ends(c)
      /\ UNCHANGED <<subs, members, account, seats, owed, counts>> /\ calls[c].pc = "sync"
  BY DEF AccountInv, RowsFit, SyncAccount, CallAt
<1>2. /\ devices' \in [Devices -> DeviceRow] /\ assigned' \in Nat /\ access' \in [Devices -> AccessState]
      /\ \A d \in Devices : devices'[d].seq <= assigned'
      /\ \A d \in Devices : access'[d] = "enabled" => Place(d)' /\ devices'[d].status = "ACTIVE" /\ ~account'.leaving
      /\ devices' = devices \/ PlacesFixed
  BY <1>1, ReconcileServes
<1>3. calls' \in [Callers -> Call] /\ OthersWait(c) /\ calls'[c].op = "none" /\ calls'[c].pc = "idle"
  BY <1>1, CallEnds
<1>4. AccountTyped'
  BY <1>1, <1>2, <1>3 DEF AccountTyped, AccessState
<1>5. AccountCallFits(c)' /\ PacksFit(c)' /\ CancelFits(c)' /\ RevokeFits(c)' /\ ~Deleter(c)' /\ ~Saga(c)
  BY <1>1, <1>3 DEF AccountCallFits, CallShape, PacksFit, CancelFits, RevokeFits, Deleter, Saga
<1>6. MoneyFits'
  BY <1>1, <1>3, <1>5, MoneyStep DEF MoneyStays
<1>7. \A d \in Devices : PlaceFits(d)'
  BY <1>2 DEF PlaceFits
<1> QED
  BY <1>1, <1>2, <1>3, <1>4, <1>5, <1>6, <1>7, CallStepKeeps

LEMMA WebhookKeeps ==
  ASSUME AccountInv, Webhook
  PROVE  AccountInv'
<1>1. /\ AccountTyped /\ (\A e \in Devices : devices[e].seq <= assigned) /\ Reconcile /\ owed' = FALSE
      /\ UNCHANGED <<subs, members, account, seats, calls, counts>>
  BY DEF AccountInv, RowsFit, Webhook
<1>2. /\ devices' \in [Devices -> DeviceRow] /\ assigned' \in Nat /\ access' \in [Devices -> AccessState]
      /\ \A d \in Devices : devices'[d].seq <= assigned'
      /\ \A d \in Devices : access'[d] = "enabled" => Place(d)' /\ devices'[d].status = "ACTIVE" /\ ~account'.leaving
      /\ devices' = devices \/ PlacesFixed
  BY <1>1, ReconcileServes
<1>3. AccountTyped'
  BY <1>1, <1>2 DEF AccountTyped, AccessState
<1>4. \A x \in Callers : AccountCallFits(x)'
  BY <1>1, OthersStillFit DEF AccountInv, RowsFit
<1>5. MoneyFits'
  <2>1. MoneyStays /\ BannedInTime /\ (account'.leaving => Deleting)
    BY <1>1 DEF MoneyStays, BannedInTime, Deleting
  <2> QED
    BY <1>1, <2>1, MoneyKept DEF AccountInv, RowsFit
<1>6. ServiceFits'
  BY <1>1, <1>2, <1>3, <1>4, ServiceKept DEF AccountInv
<1>7. ASSUME NEW x \in Callers PROVE PacksFit(x)'
  <2>1. CASE PlacesFixed
    BY <1>1, <2>1, NoPacks DEF AccountInv, RowsFit
  <2>2. CASE devices' = devices
    BY <1>1, <1>3, <2>2, PacksKept DEF AccountInv, RowsFit
  <2> QED
    BY <1>2, <2>1, <2>2
<1>8. \A d \in Devices : PlaceFits(d)'
  BY <1>2 DEF PlaceFits
<1> QED
  BY <1>2, <1>3, <1>4, <1>5, <1>6, <1>7, <1>8 DEF AccountInv, RowsFit

-----------------------------------------------------------------------------
(* A customer account: the steps that switch an identity *)

LEMMA SyncDeviceKeeps ==
  ASSUME AccountInv, NEW c \in Callers, SyncDevice(c)
  PROVE  AccountInv'
<1>1. /\ AccountTyped /\ calls[c].pc = "sync one" /\ calls[c].device \in Devices /\ Ends(c)
      /\ UNCHANGED <<subs, devices, assigned, members, account, seats, owed, counts>>
  BY DEF AccountInv, RowsFit, AccountCallFits, CallShape, SyncDevice, CallAt, rows
<1> PICK d \in Devices : d = calls[c].device
  BY <1>1
<1>2. calls' \in [Callers -> Call] /\ OthersWait(c) /\ calls'[c].op = "none" /\ calls'[c].pc = "idle"
  BY <1>1, CallEnds
<1>3. access' = access \/ (DeviceEntitled(devices', d) /\ access' = [access EXCEPT ![d] = Reconciled(devices, d)])
  BY <1>1 DEF SyncDevice
<1>4. /\ access' \in [Devices -> AccessState]
      /\ \A e \in Devices : access'[e] = "enabled" => access[e] = "enabled" \/ (e = d /\ DeviceEntitled(devices', d))
  BY <1>1, <1>3 DEF AccountTyped, AccessState, Reconciled
<1>5. AccountTyped'
  BY <1>1, <1>2, <1>4 DEF AccountTyped, AccessState
<1>6. AccountCallFits(c)' /\ PacksFit(c)' /\ CancelFits(c)' /\ RevokeFits(c)' /\ ~Deleter(c)' /\ ~Saga(c)
  BY <1>1, <1>2 DEF AccountCallFits, CallShape, PacksFit, CancelFits, RevokeFits, Deleter, Saga
<1>7. MoneyFits'
  BY <1>1, <1>2, <1>6, MoneyStep DEF MoneyStays
<1>8. \A e \in Devices : InJobs(e) <=> InJobs(e)'
  BY <1>1, <1>2, JobsStay
<1>9. DeviceEntitled(devices', d) => Place(d)' /\ devices'[d].status = "ACTIVE" /\ ~account'.leaving
  BY <1>1, EntitledIsPlaced
<1>10. \A e \in Devices : access'[e] = "enabled" => StaysServed(e) \/ (devices'[e].status = "ACTIVE" /\ ~account'.leaving)
  BY <1>1, <1>4, <1>8, <1>9 DEF StaysServed
<1>11. ASSUME NEW e \in Devices PROVE PlaceFits(e)'
  <2> SUFFICES ASSUME Calm', counts'.deaths = 0, ~account'.leaving, NoneLapsed', access'[e] = "enabled", ~ToReconcile', ~InJobs(e)'
               PROVE  Place(e)'
    BY DEF PlaceFits
  <2>1. CASE access[e] = "enabled"
    <3>1. ~ToReconcile
      BY <1>1, <1>2, ReconcileStays
    <3>2. Place(e)
      BY <1>1, <1>8, <2>1, <3>1 DEF PlaceFits, AccountInv, NoneLapsed, Calm
    <3> QED
      BY <1>1, <3>2 DEF Place, Earlier, LiveSub, deviceCapacity
  <2> QED
    BY <1>4, <1>9, <2>1
<1> QED
  BY <1>1, <1>2, <1>5, <1>6, <1>7, <1>10, <1>11, CallStepKeeps DEF AccountInv, RowsFit

LEMMA AgentCreatesAccessKeeps ==
  ASSUME AccountInv, NEW d \in Devices, AgentCreatesAccess(d)
  PROVE  AccountInv'
<1>1. AccountTyped /\ UNCHANGED <<subs, devices, assigned, members, account, seats, owed, calls, counts>>
  BY DEF AccountInv, RowsFit, AgentCreatesAccess, rows
<1>2. /\ access' \in [Devices -> AccessState]
      /\ \A e \in Devices : access'[e] = "enabled" => access[e] = "enabled" \/ (e = d /\ DeviceEntitled(devices', d))
  BY <1>1 DEF AccountTyped, AccessState, AgentCreatesAccess
<1>3. AccountTyped'
  BY <1>1, <1>2 DEF AccountTyped, AccessState
<1>4. \A x \in Callers : AccountCallFits(x)' /\ PacksFit(x)'
  BY <1>1 DEF AccountInv, RowsFit, AccountCallFits, CallShape, PacksFit, UsedOn, Deleter
<1>5. MoneyFits'
  <2>1. MoneyStays /\ BannedInTime /\ (account'.leaving => Deleting)
    BY <1>1 DEF MoneyStays, BannedInTime, Deleting
  <2> QED
    BY <1>1, <2>1, MoneyKept DEF AccountInv, RowsFit
<1>6. \A e \in Devices : InJobs(e) <=> InJobs(e)'
  BY <1>1 DEF InJobs
<1>7. DeviceEntitled(devices', d) => Place(d)' /\ devices'[d].status = "ACTIVE" /\ ~account'.leaving
  BY <1>1, EntitledIsPlaced
<1>8. \A e \in Devices : access'[e] = "enabled" => StaysServed(e) \/ (devices'[e].status = "ACTIVE" /\ ~account'.leaving)
  BY <1>1, <1>2, <1>6, <1>7 DEF StaysServed
<1>9. ServiceFits'
  BY <1>1, <1>3, <1>4, <1>8, ServiceKept DEF AccountInv
<1>10. ASSUME NEW e \in Devices PROVE PlaceFits(e)'
  <2> SUFFICES ASSUME Calm', counts'.deaths = 0, ~account'.leaving, NoneLapsed', access'[e] = "enabled", ~ToReconcile', ~InJobs(e)'
               PROVE  Place(e)'
    BY DEF PlaceFits
  <2>1. CASE access[e] = "enabled"
    <3>1. Place(e)
      BY <1>1, <1>6, <2>1 DEF PlaceFits, AccountInv, NoneLapsed, Calm, ToReconcile
    <3> QED
      BY <1>1, <3>1 DEF Place, Earlier, LiveSub, deviceCapacity
  <2> QED
    BY <1>2, <1>7, <2>1
<1> QED
  BY <1>1, <1>3, <1>4, <1>5, <1>9, <1>10 DEF AccountInv, RowsFit

LEMMA DisableJobsKeeps ==
  ASSUME AccountInv, NEW c \in Callers, DisableJobs(c)
  PROVE  AccountInv'
<1> DEFINE d == calls[c].device
<1>1. /\ AccountTyped /\ calls[c].pc = "jobs" /\ d \in Devices /\ Goes(c, "revoke") /\ AccountCallFits(c)
      /\ UNCHANGED <<subs, devices, assigned, members, account, seats, owed, counts>>
  BY DEF AccountInv, RowsFit, AccountCallFits, CallShape, DisableJobs, CallAt, rows
<1>2. calls' \in [Callers -> Call] /\ OthersWait(c) /\ Carries(c) /\ calls'[c].pc = "revoke"
  BY <1>1, CallGoes DEF Pc
<1>3. /\ access' \in [Devices -> AccessState]
      /\ \A e \in Devices : access'[e] = "enabled" => access[e] = "enabled" /\ e # d
  BY <1>1 DEF AccountTyped, AccessState, DisableJobs
<1>4. AccountTyped'
  BY <1>1, <1>2, <1>3 DEF AccountTyped, AccessState
<1>5. \A e \in Devices : e # d => (InJobs(e) <=> InJobs(e)')
  BY <1>1, <1>2 DEF InJobs, OthersWait
<1>6. AccountCallFits(c)' /\ PacksFit(c)' /\ (Deleter(c)' => Deleter(c)) /\ (Saga(c) => Saga(c)')
  BY <1>1, <1>2 DEF AccountCallFits, CallShape, PacksFit, Deleter, Saga, Carries
<1>7. CancelFits(c)'
  BY <1>1, <1>2 DEF CancelFits, AccountInv, MoneyFits, Deleter, Carries
<1>8. MoneyFits'
  BY <1>1, <1>2, <1>6, <1>7, MoneyStep DEF MoneyStays
<1>9. RevokeFits(c)'
  BY <1>1, <1>2, <1>3, <1>5 DEF RevokeFits, Calm, AccountInv, ServiceFits, Deleter, Carries
<1> HIDE DEF d
<1>10. \A e \in Devices : access'[e] = "enabled" => StaysServed(e)
  BY <1>1, <1>3, <1>5 DEF StaysServed
<1>11. ASSUME NEW e \in Devices PROVE PlaceFits(e)'
  <2> SUFFICES ASSUME Calm', counts'.deaths = 0, ~account'.leaving, NoneLapsed', access'[e] = "enabled", ~ToReconcile', ~InJobs(e)'
               PROVE  Place(e)'
    BY DEF PlaceFits
  <2>1. ~ToReconcile
    BY <1>1, <1>2, ReconcileStays
  <2>2. Place(e)
    BY <1>1, <1>3, <1>5, <2>1 DEF PlaceFits, AccountInv, NoneLapsed, Calm
  <2> QED
    BY <1>1, <2>2 DEF Place, Earlier, LiveSub, deviceCapacity
<1> QED
  BY <1>1, <1>2, <1>4, <1>6, <1>8, <1>9, <1>10, <1>11, CallStepKeeps DEF AccountInv, RowsFit

-----------------------------------------------------------------------------
(* A customer account: the steps that write devices *)

LEMMA WriteMoveKeeps ==
  ASSUME AccountInv, NEW c \in Callers, WriteMove(c)
  PROVE  AccountInv'
<1>1. /\ AccountTyped /\ calls[c].pc = "write" /\ calls[c].op = "move" /\ Goes(c, "sync") /\ PlacesFixed
      /\ calls[c].device \in Devices /\ calls[c].sub \in AccountSubs
      /\ UNCHANGED <<subs, members, account, seats, access, owed, counts>>
  BY DEF AccountInv, RowsFit, AccountCallFits, CallShape, WriteMove, CallAt
<1>2. calls' \in [Callers -> Call] /\ OthersWait(c) /\ Carries(c) /\ calls'[c].pc = "sync"
  BY <1>1, CallGoes DEF Pc
<1>3. /\ devices' \in [Devices -> DeviceRow] /\ assigned' \in Nat
      /\ \A e \in Devices : devices'[e].seq <= assigned' /\ devices'[e].status = devices[e].status
  <2> PICK d \in Devices : d = calls[c].device
    BY <1>1
  <2> DEFINE row == [devices[d] EXCEPT !.sub = calls[c].sub, !.seq = assigned + 1]
  <2>1. devices \in [Devices -> DeviceRow] /\ assigned \in Nat /\ \A e \in Devices : devices[e].seq \in Nat /\ devices[e].seq <= assigned
    BY <1>1 DEF AccountTyped, DeviceRow, AccountInv, RowsFit
  <2>2. CASE devices' = [devices EXCEPT ![d] = row] /\ assigned' = assigned + 1
    <3>0. devices[d] \in DeviceRow /\ calls[c].sub \in AccountSubs \cup {NoSub} /\ assigned + 1 \in Nat
      BY <1>1, <2>1
    <3>1. row \in DeviceRow /\ row.seq = assigned + 1 /\ row.status = devices[d].status
      BY <3>0 DEF DeviceRow
    <3> HIDE DEF row
    <3>2. devices' \in [Devices -> DeviceRow] /\ devices'[d] = row /\ \A e \in Devices : e # d => devices'[e] = devices[e]
      BY <2>1, <2>2, <3>1
    <3> QED
      BY <2>1, <2>2, <3>1, <3>2
  <2>3. CASE devices' = devices /\ assigned' = assigned
    BY <2>1, <2>3
  <2> QED
    BY <2>1, <2>2, <2>3 DEF WriteMove
<1>4. AccountTyped'
  BY <1>1, <1>2, <1>3 DEF AccountTyped
<1>5. AccountCallFits(c)' /\ PacksFit(c)' /\ CancelFits(c)' /\ RevokeFits(c)' /\ ~Deleter(c)' /\ ~Saga(c)
  BY <1>1, <1>2 DEF AccountCallFits, CallShape, PacksFit, CancelFits, RevokeFits, Deleter, Saga, Carries
<1>6. MoneyFits'
  BY <1>1, <1>2, <1>5, MoneyStep DEF MoneyStays
<1>7. \A e \in Devices : InJobs(e) <=> InJobs(e)'
  BY <1>1, <1>2, JobsStay
<1>8. \A e \in Devices : access'[e] = "enabled" => StaysServed(e)
  BY <1>1, <1>3, <1>7 DEF StaysServed
<1>9. \A e \in Devices : PlaceFits(e)'
  BY <1>2 DEF PlaceFits, ToReconcile
<1> QED
  BY <1>1, <1>2, <1>3, <1>4, <1>5, <1>6, <1>8, <1>9, CallStepKeeps

LEMMA InsertDeviceKeeps ==
  ASSUME AccountInv, NEW c \in Callers, NEW d \in Devices, InsertDevice(c, d)
  PROVE  AccountInv'
<1> DEFINE pc == IF calls[c].op = "add" THEN "budget" ELSE "sync"
           q == [calls[c] EXCEPT !.device = d, !.pc = pc]
<1>1. /\ AccountTyped /\ calls[c] \in Call /\ calls[c].pc = "insert" /\ ~Deleter(c) /\ calls[c].op \notin {"packs", "none"}
      /\ PlacesFixed /\ devices[d].status = "none" /\ access[d] = "none"
      /\ (calls[c].op = "move" => calls[c].sub \in AccountSubs)
      /\ calls[c].user \in Users /\ calls[c].sub \in AccountSubs \cup {NoSub}
      /\ UNCHANGED <<subs, members, account, seats, access, owed, counts>>
  BY DEF AccountInv, RowsFit, AccountTyped, AccountCallFits, CallShape, InsertDevice, CallAt, Deleter, Free, Call
<1>2. q \in Call /\ q.op = calls[c].op /\ q.pc \in {"budget", "sync"} /\ q.device = d /\ q.sub = calls[c].sub
  BY <1>1 DEF Call, Pc
<1>3. calls' = [calls EXCEPT ![c] = q]
  BY <1>1 DEF InsertDevice, AccountTyped
<1> HIDE DEF q
<1>4. calls' \in [Callers -> Call] /\ OthersWait(c) /\ calls'[c] = q
  BY <1>1, <1>2, <1>3, CallMoves
<1>5. devices' = Inserted(d, calls[c].user, calls[c].sub) /\ assigned' = assigned + 1
  BY DEF InsertDevice
<1>6. /\ devices' \in [Devices -> DeviceRow] /\ assigned' \in Nat
      /\ \A e \in Devices : devices'[e].seq <= assigned'
      /\ devices'[d].status = "ACTIVE" /\ devices'[d].seq = assigned + 1
      /\ \A e \in Devices : e # d => devices'[e] = devices[e]
  BY <1>1, <1>5, InsertedFits DEF AccountInv, RowsFit
<1>7. AccountTyped'
  BY <1>1, <1>4, <1>6 DEF AccountTyped
<1>8. AccountCallFits(c)' /\ PacksFit(c)' /\ CancelFits(c)' /\ RevokeFits(c)' /\ ~Deleter(c)' /\ ~Saga(c)
  BY <1>1, <1>2, <1>4 DEF AccountCallFits, CallShape, PacksFit, CancelFits, RevokeFits, Deleter, Saga
<1>9. MoneyFits'
  BY <1>1, <1>4, <1>8, MoneyStep DEF MoneyStays
<1>10. \A e \in Devices : InJobs(e) <=> InJobs(e)'
  BY <1>1, <1>2, <1>4, JobsStay
<1>11. \A e \in Devices : access'[e] = "enabled" => StaysServed(e)
  BY <1>1, <1>6, <1>10 DEF StaysServed
<1>12. ASSUME NEW e \in Devices PROVE PlaceFits(e)'
  <2> SUFFICES ASSUME Calm', counts'.deaths = 0, ~account'.leaving, NoneLapsed', access'[e] = "enabled", ~ToReconcile', ~InJobs(e)'
               PROVE  Place(e)'
    BY DEF PlaceFits
  <2>1. ~ToReconcile /\ e # d
    BY <1>1, <1>4, ReconcileStays
  <2>2. Place(e)
    BY <1>1, <1>10, <2>1 DEF PlaceFits, AccountInv, NoneLapsed, Calm
  <2>3. devices[e].seq \in Nat /\ devices[e].seq <= assigned /\ assigned \in Nat
    BY <1>1 DEF AccountTyped, DeviceRow, AccountInv, RowsFit
  <2>4. \A x \in Devices : Earlier(devices, e, x)' => Earlier(devices, e, x) /\ devices'[x].sub = devices[x].sub
    <3> SUFFICES ASSUME NEW x \in Devices, Earlier(devices, e, x)' PROVE x # d
      BY <1>6, <2>1 DEF Earlier
    <3> QED
      BY <1>6, <2>1, <2>3 DEF Earlier
  <2> QED
    BY <1>1, <1>6, <1>7, <2>1, <2>2, <2>4, PlaceStays
<1> QED
  BY <1>1, <1>4, <1>6, <1>7, <1>8, <1>9, <1>11, <1>12, CallStepKeeps

\* A row that is no longer active takes no place.
LEMMA PlacesStayWithout ==
  ASSUME AccountInv, AccountTyped', NEW c \in Callers, OthersWait(c), calls[c].pc # "sync", owed => owed', subs' = subs, seats' = seats,
         access' = access, account' = account, counts' = counts, NEW d \in Devices,
         devices'[d].status # "ACTIVE", \A e \in Devices : e # d => devices'[e] = devices[e],
         \A e \in Devices : InJobs(e) => InJobs(e)', Calm' /\ access[d] = "enabled" => InJobs(d)'
  PROVE  \A e \in Devices : PlaceFits(e)'
<1> SUFFICES ASSUME NEW e \in Devices, Calm', counts'.deaths = 0, ~account'.leaving, NoneLapsed', access'[e] = "enabled",
                    ~ToReconcile', ~InJobs(e)'
             PROVE  Place(e)'
  BY DEF PlaceFits
<1>1. ~ToReconcile /\ e # d /\ AccountTyped
  BY ReconcileStays DEF AccountInv, RowsFit
<1>2. Place(e)
  BY <1>1 DEF PlaceFits, AccountInv, NoneLapsed, Calm
<1>3. \A x \in Devices : Earlier(devices, e, x)' => Earlier(devices, e, x) /\ devices'[x].sub = devices[x].sub
  BY <1>1 DEF Earlier
<1> QED
  BY <1>1, <1>2, <1>3, PlaceStays

LEMMA BudgetRefusesKeeps ==
  ASSUME AccountInv, NEW c \in Callers, BudgetRefuses(c)
  PROVE  AccountInv'
<1>1. /\ AccountTyped /\ calls[c].pc = "budget" /\ calls[c].device \in Devices /\ ~Deleter(c) /\ (Calm => access[calls[c].device] = "none")
      /\ Ends(c) /\ devices' = [devices EXCEPT ![calls[c].device] = NoDeviceRow]
      /\ UNCHANGED <<subs, assigned, members, account, seats, access, owed, counts>>
  BY DEF AccountInv, RowsFit, AccountCallFits, CallShape, BudgetRefuses, CallAt, Deleter, Calm
<1> PICK d \in Devices : d = calls[c].device
  BY <1>1
<1>2. calls' \in [Callers -> Call] /\ OthersWait(c) /\ calls'[c].op = "none" /\ calls'[c].pc = "idle"
  BY <1>1, CallEnds
<1>3. NoDeviceRow \in DeviceRow /\ NoDeviceRow.status = "none" /\ NoDeviceRow.seq = 0
  BY DEF NoDeviceRow, DeviceRow, Users
<1>4. /\ devices' \in [Devices -> DeviceRow] /\ devices'[d] = NoDeviceRow
      /\ \A e \in Devices : e # d => devices'[e] = devices[e]
  BY <1>1, <1>3 DEF AccountTyped
<1>5. \A e \in Devices : devices'[e].seq <= assigned'
  BY <1>1, <1>3, <1>4 DEF AccountInv, RowsFit, AccountTyped
<1>6. AccountTyped'
  BY <1>1, <1>2, <1>4 DEF AccountTyped
<1>7. AccountCallFits(c)' /\ PacksFit(c)' /\ CancelFits(c)' /\ RevokeFits(c)' /\ ~Deleter(c)' /\ ~Saga(c)
  BY <1>1, <1>2 DEF AccountCallFits, CallShape, PacksFit, CancelFits, RevokeFits, Deleter, Saga
<1>8. MoneyFits'
  BY <1>1, <1>2, <1>7, MoneyStep DEF MoneyStays
<1>9. \A e \in Devices : InJobs(e) <=> InJobs(e)'
  BY <1>1, <1>2, JobsStay
<1>10. \A e \in Devices : Calm' /\ access'[e] = "enabled" => StaysServed(e)
  BY <1>1, <1>4, <1>9 DEF StaysServed, Calm
<1>11. \A e \in Devices : PlaceFits(e)'
  <2>1. Calm' => access[d] = "none"
    BY <1>1 DEF Calm
  <2> QED
    BY <2>1, <1>1, <1>2, <1>3, <1>4, <1>6, <1>9, PlacesStayWithout
<1>12. \A e \in Devices : devices'[e].status = "ACTIVE" => devices[e].status = "ACTIVE" /\ devices'[e].sub = devices[e].sub
  BY <1>3, <1>4
<1> QED
  BY <1>1, <1>2, <1>5, <1>6, <1>7, <1>8, <1>10, <1>11, <1>12, CallStepKeeps

LEMMA FinishKeeps ==
  ASSUME AccountInv, NEW c \in Callers, Finish(c)
  PROVE  AccountInv'
<1>1. /\ AccountTyped /\ calls[c].pc = "finish" /\ Deleter(c) /\ account.leaving /\ Ends(c)
      /\ UNCHANGED <<subs, assigned, members, seats, access, owed, counts>>
  BY DEF AccountInv, RowsFit, AccountCallFits, CallShape, Finish, CallAt, Deleter
<1>2. calls' \in [Callers -> Call] /\ OthersWait(c) /\ calls'[c].op = "none" /\ calls'[c].pc = "idle"
  BY <1>1, CallEnds
<1>3. NoDeviceRow \in DeviceRow /\ NoDeviceRow.status = "none" /\ NoDeviceRow.seq = 0
  BY DEF NoDeviceRow, DeviceRow, Users
<1>4. /\ account' \in [suspended : BOOLEAN, leaving : BOOLEAN, deleted : BOOLEAN, banned : SUBSET {"admin", "deletion"}]
      /\ account'.leaving = account.leaving /\ account'.banned = account.banned
  BY <1>1 DEF AccountTyped, Finish
<1>5. /\ devices' \in [Devices -> DeviceRow]
      /\ \A e \in Devices : devices'[e] = devices[e] \/ devices'[e] = NoDeviceRow
  BY <1>1, <1>3 DEF AccountTyped, Finish
<1>6. \A e \in Devices : devices'[e].seq <= assigned'
  BY <1>1, <1>3, <1>5 DEF AccountInv, RowsFit, AccountTyped
<1>7. AccountTyped'
  BY <1>1, <1>2, <1>4, <1>5 DEF AccountTyped
<1>8. AccountCallFits(c)' /\ PacksFit(c)' /\ CancelFits(c)' /\ RevokeFits(c)' /\ ~Deleter(c)' /\ ~Saga(c)
  BY <1>1, <1>2 DEF AccountCallFits, CallShape, PacksFit, CancelFits, RevokeFits, Deleter, Saga
<1>9. MoneyFits'
  BY <1>1, <1>2, <1>4, <1>8, MoneyStep DEF MoneyStays
<1>10. \A e \in Devices : InJobs(e) <=> InJobs(e)'
  BY <1>1, <1>2, JobsStay
<1>11. \A e \in Devices : Calm' /\ access'[e] = "enabled" => StaysServed(e)
  BY <1>1, <1>10 DEF StaysServed, AccountInv, ServiceFits, RevokeFits, Calm
<1>12. \A e \in Devices : PlaceFits(e)'
  BY <1>1, <1>4 DEF PlaceFits
<1>13. \A e \in Devices : devices'[e].status = "ACTIVE" => devices[e].status = "ACTIVE" /\ devices'[e].sub = devices[e].sub
  BY <1>3, <1>5
<1> QED
  BY <1>1, <1>2, <1>4, <1>6, <1>7, <1>8, <1>9, <1>11, <1>12, <1>13, CallStepKeeps

\* revokeDevice: whoever is served and no longer on the list has the call about to end it.
LEMMA RevokeNextKeeps ==
  ASSUME AccountInv, NEW c \in Callers, NEW d \in Devices, RevokeNext(c, d)
  PROVE  AccountInv'
<1> DEFINE left == calls[c].todo \ {d}
           reads == [calls[c] EXCEPT !.todo = left]
           marks == [reads EXCEPT !.pc = "jobs", !.device = d]
<1>1. /\ AccountTyped /\ calls[c] \in Call /\ calls[c].pc = "revoke" /\ d \in calls[c].todo /\ calls[c].todo \subseteq Devices
      /\ calls[c].op \in {"remove", "revoke", "leave", "delete", "tick"}
      /\ (Deleter(c) => account.leaving)
      /\ UNCHANGED <<subs, assigned, members, account, seats, access, owed, counts>>
  BY DEF AccountInv, RowsFit, AccountTyped, AccountCallFits, CallShape, RevokeNext, CallAt
<1>2. /\ reads \in Call /\ reads.op = calls[c].op /\ reads.pc = "revoke" /\ reads.todo = left
      /\ marks \in Call /\ marks.op = calls[c].op /\ marks.pc = "jobs" /\ marks.todo = left /\ marks.device = d
  BY <1>1 DEF Call, Pc
<1>3. \/ calls' = [calls EXCEPT ![c] = marks] /\ devices' = devices
      \/ calls' = [calls EXCEPT ![c] = marks] /\ devices' = [devices EXCEPT ![d].status = "REVOKED"]
      \/ calls' = [calls EXCEPT ![c] = reads] /\ devices' = devices /\ devices[d].status # "ACTIVE"
  BY DEF RevokeNext
<1> HIDE DEF reads, marks
<1>4. /\ calls' \in [Callers -> Call] /\ OthersWait(c) /\ calls'[c].op = calls[c].op /\ calls'[c].todo = left
      /\ \/ calls'[c].pc = "jobs" /\ calls'[c].device = d
         \/ calls'[c].pc = "revoke" /\ devices' = devices /\ devices[d].status # "ACTIVE"
  <2>1. CASE calls' = [calls EXCEPT ![c] = marks]
    BY <1>1, <1>2, <2>1, CallMoves
  <2>2. CASE calls' = [calls EXCEPT ![c] = reads] /\ devices' = devices /\ devices[d].status # "ACTIVE"
    BY <1>1, <1>2, <2>2, CallMoves
  <2> QED
    BY <1>3, <2>1, <2>2
<1>5. /\ devices' \in [Devices -> DeviceRow]
      /\ \A e \in Devices : e # d => devices'[e] = devices[e]
      /\ devices'[d].seq = devices[d].seq /\ devices'[d].sub = devices[d].sub
      /\ devices' = devices \/ devices'[d].status = "REVOKED"
  <2>1. devices \in [Devices -> DeviceRow] /\ devices[d] \in DeviceRow
    BY <1>1 DEF AccountTyped
  <2>2. CASE devices' = devices
    BY <2>1, <2>2
  <2>3. CASE devices' = [devices EXCEPT ![d].status = "REVOKED"]
    <3>1. [devices[d] EXCEPT !.status = "REVOKED"] \in DeviceRow
      BY <2>1 DEF DeviceRow
    <3>2. devices'[d] = [devices[d] EXCEPT !.status = "REVOKED"]
      BY <2>1, <2>3
    <3>3. devices' \in [Devices -> DeviceRow]
      BY <2>1, <2>3, <3>1
    <3>4. devices'[d].seq = devices[d].seq /\ devices'[d].sub = devices[d].sub /\ devices'[d].status = "REVOKED"
      BY <2>1, <3>2 DEF DeviceRow
    <3> QED
      BY <2>1, <2>3, <3>3, <3>4
  <2> QED
    BY <1>3, <2>2, <2>3
<1>6. \A e \in Devices : devices'[e].seq <= assigned'
  BY <1>1, <1>5 DEF AccountInv, RowsFit
<1>7. AccountTyped'
  BY <1>1, <1>4, <1>5 DEF AccountTyped
<1>8. \A e \in Devices : InJobs(e) => InJobs(e)'
  BY <1>1, <1>4 DEF InJobs, OthersWait
<1>9. InJobs(d)' \/ (devices' = devices /\ devices[d].status # "ACTIVE")
  BY <1>4 DEF InJobs
<1>10. AccountCallFits(c)' /\ PacksFit(c)' /\ (Deleter(c)' => Deleter(c)) /\ (Saga(c) => Saga(c)')
  <2>1. (Deleter(c)' => Deleter(c)) /\ (Saga(c) => Saga(c)') /\ PacksFit(c)'
    BY <1>1, <1>4 DEF Deleter, Saga, PacksFit
  <2>2. CallShape(calls'[c])
    BY <1>1, <1>4 DEF CallShape
  <2> QED
    BY <1>1, <2>1, <2>2 DEF AccountCallFits
<1>11. CancelFits(c)'
  BY <1>1, <1>4 DEF CancelFits, AccountInv, MoneyFits, Deleter
<1>12. MoneyFits'
  BY <1>1, <1>4, <1>10, <1>11, MoneyStep DEF MoneyStays
<1>13. Calm' /\ access[d] = "enabled" => InJobs(d)'
  BY <1>1, <1>8, <1>9 DEF AccountInv, ServiceFits, ServedFits, Calm
<1>14. RevokeFits(c)'
  <2> SUFFICES ASSUME Calm', Deleter(c)', NEW e \in Devices, access[e] = "enabled", ~InJobs(e)'
               PROVE  e \in left /\ devices'[e].status = "ACTIVE"
    BY <1>1, <1>4 DEF RevokeFits
  <2>1. e # d /\ ~InJobs(e)
    BY <1>8, <1>13
  <2>2. e \in calls[c].todo /\ devices[e].status = "ACTIVE"
    BY <1>1, <1>10, <2>1 DEF RevokeFits, AccountInv, ServiceFits, Calm
  <2> QED
    BY <1>5, <2>1, <2>2
<1>15. \A e \in Devices : Calm' /\ access'[e] = "enabled" => StaysServed(e)
  BY <1>1, <1>5, <1>8, <1>13 DEF StaysServed
<1>16. \A e \in Devices : PlaceFits(e)'
  <2>1. CASE devices'[d].status = "REVOKED"
    BY <1>1, <1>4, <1>5, <1>7, <1>8, <1>13, <2>1, PlacesStayWithout
  <2>2. CASE devices' = devices
    <3> SUFFICES ASSUME NEW e \in Devices, Calm', counts'.deaths = 0, ~account'.leaving, NoneLapsed', access'[e] = "enabled",
                        ~ToReconcile', ~InJobs(e)'
                 PROVE  Place(e)'
      BY DEF PlaceFits
    <3>1. ~ToReconcile
      BY <1>1, <1>4, ReconcileStays
    <3>2. Place(e)
      BY <1>1, <1>8, <3>1 DEF PlaceFits, AccountInv, NoneLapsed, Calm
    <3> QED
      BY <1>1, <2>2, <3>2 DEF Place, Earlier, LiveSub, deviceCapacity
  <2> QED
    BY <1>5, <2>1, <2>2
<1>17. \A e \in Devices : devices'[e].status = "ACTIVE" => devices[e].status = "ACTIVE" /\ devices'[e].sub = devices[e].sub
  BY <1>5
<1> QED
  BY <1>1, <1>4, <1>6, <1>7, <1>10, <1>12, <1>14, <1>15, <1>16, <1>17, CallStepKeeps

-----------------------------------------------------------------------------
(* A customer account: the steps that write the account, the subscriptions or the grant *)

LEMMA MarkDeletionKeeps ==
  ASSUME AccountInv, NEW c \in Callers, MarkDeletion(c)
  PROVE  AccountInv'
<1>1. /\ AccountTyped /\ calls[c].pc = "mark" /\ calls[c].op = "delete" /\ Goes(c, "list")
      /\ account' = [account EXCEPT !.leaving = TRUE]
      /\ UNCHANGED <<subs, devices, assigned, members, seats, access, owed, counts>>
  BY DEF AccountInv, RowsFit, AccountCallFits, CallShape, MarkDeletion, CallAt
<1>2. calls' \in [Callers -> Call] /\ OthersWait(c) /\ Carries(c) /\ calls'[c].pc = "list"
  BY <1>1, CallGoes DEF Pc
<1>3. /\ account' \in [suspended : BOOLEAN, leaving : BOOLEAN, deleted : BOOLEAN, banned : SUBSET {"admin", "deletion"}]
      /\ account'.leaving /\ account'.banned = account.banned
  BY <1>1 DEF AccountTyped
<1>4. AccountTyped'
  BY <1>1, <1>2, <1>3 DEF AccountTyped
<1>5. AccountCallFits(c)' /\ PacksFit(c)' /\ CancelFits(c)' /\ RevokeFits(c)' /\ Saga(c)' /\ Deleting
  BY <1>1, <1>2, <1>3 DEF AccountCallFits, CallShape, PacksFit, CancelFits, RevokeFits, Deleter, Saga, Carries, Deleting
<1>6. MoneyFits'
  <2>1. MoneyStays /\ BannedInTime
    BY <1>1, <1>3 DEF MoneyStays, BannedInTime
  <2>2. \A x \in Callers : calls'[x] = calls[x] \/ (CancelFits(x)' /\ (Deleter(x)' => Deleting \/ NothingComes))
    BY <1>2, <1>5 DEF OthersWait
  <2> QED
    BY <1>3, <1>5, <2>1, <2>2, MoneyKept DEF AccountInv, RowsFit
<1>7. \A e \in Devices : InJobs(e) <=> InJobs(e)'
  BY <1>1, <1>2, JobsStay
<1>8. \A e \in Devices : access'[e] = "enabled" => StaysServed(e)
  BY <1>1, <1>7 DEF StaysServed
<1>9. \A e \in Devices : PlaceFits(e)'
  BY <1>3 DEF PlaceFits
<1>10. \A e \in Devices : devices'[e].seq <= assigned'
  BY <1>1 DEF AccountInv, RowsFit
<1>11. \A e \in Devices : devices'[e].status = "ACTIVE" => devices[e].status = "ACTIVE" /\ devices'[e].sub = devices[e].sub
  BY <1>1
<1> QED
  BY <1>1, <1>2, <1>4, <1>5, <1>6, <1>8, <1>9, <1>10, <1>11, CallStepKeeps

LEMMA SeatsBecomeKeeps ==
  ASSUME AccountInv, NEW c \in Callers, NEW n \in Nat, SeatsBecome(c, n)
  PROVE  AccountInv'
<1>1. /\ AccountTyped /\ Begins(c, "grant", "sync", NoCall) /\ seats' = n
      /\ UNCHANGED <<subs, devices, assigned, members, account, access, owed>>
  BY DEF AccountInv, RowsFit, SeatsBecome
<1>2. /\ calls' \in [Callers -> Call] /\ OthersWait(c)
      /\ calls'[c].op = "grant" /\ calls'[c].pc = "sync" /\ calls[c].pc = "idle"
      /\ counts' \in [acts : Nat, deaths : Nat] /\ counts'.deaths = counts.deaths
  <2>1. "grant" \in Op /\ "sync" \in Pc
    BY DEF Op, Pc
  <2> QED
    BY <1>1, <2>1, NoCallIsACall, CallBegins
<1>3. AccountTyped'
  BY <1>1, <1>2 DEF AccountTyped
<1>4. AccountCallFits(c)' /\ PacksFit(c)' /\ CancelFits(c)' /\ RevokeFits(c)' /\ ~Deleter(c)' /\ ~Saga(c)
  BY <1>2 DEF AccountCallFits, CallShape, PacksFit, CancelFits, RevokeFits, Deleter, Saga
<1>5. MoneyFits'
  BY <1>1, <1>2, <1>4, MoneyStep DEF MoneyStays
<1>6. \A e \in Devices : InJobs(e) <=> InJobs(e)'
  BY <1>2, JobsStay
<1>7. \A e \in Devices : access'[e] = "enabled" => StaysServed(e)
  BY <1>1, <1>6 DEF StaysServed
<1>8. \A e \in Devices : PlaceFits(e)'
  BY <1>2 DEF PlaceFits, ToReconcile
<1>9. \A e \in Devices : devices'[e].seq <= assigned'
  BY <1>1 DEF AccountInv, RowsFit
<1>10. \A e \in Devices : devices'[e].status = "ACTIVE" => devices[e].status = "ACTIVE" /\ devices'[e].sub = devices[e].sub
  BY <1>1
<1> QED
  BY <1>1, <1>2, <1>3, <1>4, <1>5, <1>7, <1>8, <1>9, <1>10, CallStepKeeps

\* One subscription's row that changes in a field.
LEMMA SubsTyped ==
  ASSUME AccountTyped, NEW s \in AccountSubs, NEW row \in AccountSubscription, subs' = [subs EXCEPT ![s] = row]
  PROVE  /\ subs' \in [AccountSubs -> AccountSubscription] /\ subs'[s] = row
         /\ \A x \in AccountSubs : x # s => subs'[x] = subs[x]
BY DEF AccountTyped

LEMMA MirrorPacksKeeps ==
  ASSUME AccountInv, NEW c \in Callers, MirrorPacks(c)
  PROVE  AccountInv'
<1>1. /\ AccountTyped /\ calls[c].pc = "write" /\ calls[c].op = "packs" /\ Goes(c, "sync")
      /\ calls[c].sub \in AccountSubs /\ calls[c].packs \in 0..MaxPacks
      /\ subs' = [subs EXCEPT ![calls[c].sub].packs = calls[c].packs]
      /\ UNCHANGED <<devices, assigned, members, account, seats, access, owed, counts>>
  BY DEF AccountInv, RowsFit, AccountTyped, Call, AccountCallFits, CallShape, MirrorPacks, CallAt
<1> PICK s \in AccountSubs : s = calls[c].sub
  BY <1>1
<1> DEFINE row == [subs[s] EXCEPT !.packs = calls[c].packs]
<1>2. subs[s] \in AccountSubscription
  BY <1>1 DEF AccountTyped
<1>3. row \in AccountSubscription /\ row.status = subs[s].status /\ row.charged = subs[s].charged
  BY <1>1, <1>2 DEF AccountSubscription
<1>4. subs' = [subs EXCEPT ![s] = row]
  BY <1>1
<1> HIDE DEF row
<1>5. subs' \in [AccountSubs -> AccountSubscription] /\ subs'[s] = row /\ \A x \in AccountSubs : x # s => subs'[x] = subs[x]
  BY <1>1, <1>3, <1>4, SubsTyped
<1>6. calls' \in [Callers -> Call] /\ OthersWait(c) /\ Carries(c) /\ calls'[c].pc = "sync"
  BY <1>1, CallGoes DEF Pc
<1>7. AccountTyped'
  BY <1>1, <1>5, <1>6 DEF AccountTyped
<1>8. AccountCallFits(c)' /\ PacksFit(c)' /\ CancelFits(c)' /\ RevokeFits(c)' /\ ~Deleter(c)' /\ ~Saga(c)
  BY <1>1, <1>6 DEF AccountCallFits, CallShape, PacksFit, CancelFits, RevokeFits, Deleter, Saga, Carries
<1>9. MoneyStays
  BY <1>3, <1>5 DEF MoneyStays
<1>10. MoneyFits'
  BY <1>1, <1>6, <1>8, <1>9, MoneyStep
<1>11. \A e \in Devices : InJobs(e) <=> InJobs(e)'
  BY <1>1, <1>6, JobsStay
<1>12. \A e \in Devices : access'[e] = "enabled" => StaysServed(e)
  BY <1>1, <1>11 DEF StaysServed
<1>13. \A e \in Devices : PlaceFits(e)'
  BY <1>6 DEF PlaceFits, ToReconcile
<1>14. \A e \in Devices : devices'[e].seq <= assigned'
  BY <1>1 DEF AccountInv, RowsFit
<1>15. \A e \in Devices : devices'[e].status = "ACTIVE" => devices[e].status = "ACTIVE" /\ devices'[e].sub = devices[e].sub
  BY <1>1
<1> QED
  BY <1>1, <1>6, <1>7, <1>8, <1>10, <1>12, <1>13, <1>14, <1>15, CallStepKeeps

LEMMA CancelNextKeeps ==
  ASSUME AccountInv, NEW c \in Callers, NEW s \in AccountSubs, CancelNext(c, s)
  PROVE  AccountInv'
<1> DEFINE left == calls[c].todo \ {s}
           q == [calls[c] EXCEPT !.pc = "mirror", !.sub = s, !.todo = left]
           row == [subs[s] EXCEPT !.charged = FALSE]
<1>1. /\ AccountTyped /\ calls[c] \in Call /\ calls[c].pc = "stripe" /\ Deleter(c) /\ account.leaving /\ calls[c].op \in {"delete", "tick"}
      /\ owed' = TRUE /\ UNCHANGED <<devices, assigned, members, account, seats, access, counts>>
  BY DEF AccountInv, RowsFit, AccountTyped, AccountCallFits, CallShape, CancelNext, CallAt, Deleter
<1>2. q \in Call /\ q.op = calls[c].op /\ q.pc = "mirror" /\ q.sub = s /\ q.todo = left
  BY <1>1 DEF Call, Pc
<1>3. calls' = [calls EXCEPT ![c] = q] /\ subs' = [subs EXCEPT ![s] = row]
  BY <1>1 DEF CancelNext, AccountTyped
<1>4. subs[s] \in AccountSubscription
  BY <1>1 DEF AccountTyped
<1>5. row \in AccountSubscription /\ row.status = subs[s].status /\ ~row.charged
  BY <1>4 DEF AccountSubscription
<1> HIDE DEF q, row
<1>6. calls' \in [Callers -> Call] /\ OthersWait(c) /\ calls'[c] = q
  BY <1>1, <1>2, <1>3, CallMoves
<1>7. subs' \in [AccountSubs -> AccountSubscription] /\ subs'[s] = row /\ \A x \in AccountSubs : x # s => subs'[x] = subs[x]
  BY <1>1, <1>3, <1>5, SubsTyped
<1>8. AccountTyped'
  BY <1>1, <1>6, <1>7 DEF AccountTyped
<1>9. AccountCallFits(c)' /\ PacksFit(c)' /\ RevokeFits(c)' /\ Saga(c)' /\ Deleter(c)'
  BY <1>1, <1>2, <1>6 DEF AccountCallFits, CallShape, PacksFit, RevokeFits, Deleter, Saga
<1>10. MoneyStays
  BY <1>5, <1>7 DEF MoneyStays
<1>11. CancelFits(c)'
  <2>1. "checkout" \notin Admitted => \A x \in AccountSubs : subs'[x].charged => x \in left
    BY <1>1, <1>5, <1>7 DEF CancelFits, AccountInv, MoneyFits
  <2> QED
    BY <1>2, <1>5, <1>6, <1>7, <2>1 DEF CancelFits
<1>12. MoneyFits'
  BY <1>1, <1>6, <1>9, <1>10, <1>11, MoneyStep
<1>13. \A e \in Devices : InJobs(e) <=> InJobs(e)'
  BY <1>1, <1>2, <1>6, JobsStay
<1>14. \A e \in Devices : access'[e] = "enabled" => StaysServed(e)
  BY <1>1, <1>13 DEF StaysServed
<1>15. \A e \in Devices : PlaceFits(e)'
  BY <1>1 DEF PlaceFits
<1>16. \A e \in Devices : devices'[e].seq <= assigned'
  BY <1>1 DEF AccountInv, RowsFit
<1>17. \A e \in Devices : devices'[e].status = "ACTIVE" => devices[e].status = "ACTIVE" /\ devices'[e].sub = devices[e].sub
  BY <1>1
<1> QED
  BY <1>1, <1>6, <1>8, <1>9, <1>12, <1>14, <1>15, <1>16, <1>17, CallStepKeeps

LEMMA MirrorCancelKeeps ==
  ASSUME AccountInv, NEW c \in Callers, MirrorCancel(c)
  PROVE  AccountInv'
<1>1. /\ AccountTyped /\ calls[c].pc = "mirror" /\ calls[c].sub \in AccountSubs /\ Goes(c, "stripe")
      /\ Deleter(c) /\ account.leaving /\ calls[c].op \in {"delete", "tick"}
      /\ subs' = [subs EXCEPT ![calls[c].sub].status = "canceled"]
      /\ UNCHANGED <<devices, assigned, members, account, seats, access, owed, counts>>
  BY DEF AccountInv, RowsFit, AccountCallFits, CallShape, MirrorCancel, CallAt, Deleter
<1> PICK s \in AccountSubs : s = calls[c].sub
  BY <1>1
<1> DEFINE row == [subs[s] EXCEPT !.status = "canceled"]
<1>2. subs[s] \in AccountSubscription
  BY <1>1 DEF AccountTyped
<1>3. row \in AccountSubscription /\ row.status = "canceled" /\ row.charged = subs[s].charged
  BY <1>2 DEF AccountSubscription
<1>4. subs' = [subs EXCEPT ![s] = row] /\ ("checkout" \notin Admitted => ~subs[s].charged)
  BY <1>1 DEF AccountInv, MoneyFits, CancelFits
<1> HIDE DEF row
<1>5. subs' \in [AccountSubs -> AccountSubscription] /\ subs'[s] = row /\ \A x \in AccountSubs : x # s => subs'[x] = subs[x]
  BY <1>1, <1>3, <1>4, SubsTyped
<1>6. calls' \in [Callers -> Call] /\ OthersWait(c) /\ Carries(c) /\ calls'[c].pc = "stripe"
  BY <1>1, CallGoes DEF Pc
<1>7. AccountTyped'
  BY <1>1, <1>5, <1>6 DEF AccountTyped
<1>8. AccountCallFits(c)' /\ PacksFit(c)' /\ RevokeFits(c)' /\ Saga(c)' /\ Deleter(c)'
  BY <1>1, <1>6 DEF AccountCallFits, CallShape, PacksFit, RevokeFits, Deleter, Saga, Carries
<1>9. "checkout" \notin Admitted => \A x \in AccountSubs : subs'[x].charged = subs[x].charged /\ (subs[x].charged => subs'[x].status = subs[x].status)
                             /\ (subs'[x].status = subs[x].status \/ subs'[x].status = "canceled")
  BY <1>3, <1>4, <1>5
<1>10. MoneyFits'
  <2>1. ASSUME NEW x \in Callers PROVE CancelFits(x)'
    <3>1. CASE x = c
      BY <1>1, <1>6, <1>9, <3>1 DEF CancelFits, AccountInv, MoneyFits, Deleter, Carries
    <3>2. CASE x # c
      BY <1>6, <1>9, <3>2 DEF CancelFits, AccountInv, RowsFit, AccountCallFits, CallShape, MoneyFits, Deleter, OthersWait
    <3> QED
      BY <3>1, <3>2
  <2>2. ChargesFit'
    BY <1>1, <1>9 DEF ChargesFit, AccountInv, MoneyFits, Deleting, BannedNotCharged
  <2> QED
    BY <2>1, <2>2 DEF MoneyFits
<1>11. \A e \in Devices : InJobs(e) <=> InJobs(e)'
  BY <1>1, <1>6, JobsStay
<1>12. \A e \in Devices : access'[e] = "enabled" => StaysServed(e)
  BY <1>1, <1>11 DEF StaysServed
<1>13. \A e \in Devices : PlaceFits(e)'
  BY <1>1 DEF PlaceFits
<1>14. \A e \in Devices : devices'[e].seq <= assigned'
  BY <1>1 DEF AccountInv, RowsFit
<1>15. \A e \in Devices : devices'[e].status = "ACTIVE" => devices[e].status = "ACTIVE" /\ devices'[e].sub = devices[e].sub
  BY <1>1
<1> QED
  BY <1>1, <1>6, <1>7, <1>8, <1>10, <1>12, <1>13, <1>14, <1>15, CallStepKeeps

\* What Stripe may do to a subscription, and what is told of it.
SubMoved(before, after) ==
    \/ before.status = "none" /\ after.status = "incomplete" /\ ~after.charged /\ owed' = owed
    \/ before.status \in {"incomplete", "lapsed"} /\ after.status = "live" /\ owed'
    \/ before.status = "live" /\ before.charged /\ after.status = "lapsed"
    \/ before.status \in {"live", "lapsed"} /\ after.status = "canceled" /\ ~after.charged /\ owed'

LEMMA SubMovesMeans ==
  ASSUME AccountTyped, NEW s \in AccountSubs, SubMoves(s)
  PROVE  /\ subs' \in [AccountSubs -> AccountSubscription] /\ \A x \in AccountSubs : x # s => subs'[x] = subs[x]
         /\ SubMoved(subs[s], subs'[s]) /\ owed' \in BOOLEAN
         /\ "checkout" \notin Admitted /\ Deleting => subs'[s].status \notin {"incomplete", "lapsed"}
         /\ counts' \in [acts : Nat, deaths : Nat] /\ counts'.deaths = counts.deaths
         /\ UNCHANGED <<devices, assigned, members, account, seats, access, calls>>
<1>1. subs \in [AccountSubs -> AccountSubscription] /\ subs[s] \in AccountSubscription /\ owed \in BOOLEAN
  BY DEF AccountTyped
<1>2. UNCHANGED <<devices, assigned, members, account, seats, access, calls>> /\ Listable(subs'[s].status) /\ Acts
  BY DEF SubMoves
<1>3. counts' \in [acts : Nat, deaths : Nat] /\ counts'.deaths = counts.deaths
  BY <1>2 DEF AccountTyped, Acts
<1>4. "checkout" \notin Admitted /\ Deleting => subs'[s].status \notin {"incomplete", "lapsed"}
  BY <1>2 DEF Listable
<1>5. ASSUME NEW to \in {"incomplete", "live", "lapsed", "canceled"}, NEW pays \in BOOLEAN,
             subs' = [subs EXCEPT ![s].status = to, ![s].charged = pays]
      PROVE  /\ subs' \in [AccountSubs -> AccountSubscription] /\ \A x \in AccountSubs : x # s => subs'[x] = subs[x]
             /\ subs'[s].status = to /\ subs'[s].charged = pays
  <2> DEFINE row == [subs[s] EXCEPT !.status = to, !.charged = pays]
  <2>1. row \in AccountSubscription /\ row.status = to /\ row.charged = pays
    BY <1>1 DEF AccountSubscription
  <2>2. subs' = [subs EXCEPT ![s] = row]
    BY <1>1, <1>5
  <2> HIDE DEF row
  <2> QED
    BY <2>1, <2>2, SubsTyped
<1>6. \/ subs[s].status = "none" /\ subs' = [subs EXCEPT ![s].status = "incomplete", ![s].charged = FALSE] /\ owed' = (owed \/ FALSE)
      \/ subs[s].status \in {"incomplete", "lapsed"} /\ subs' = [subs EXCEPT ![s].status = "live", ![s].charged = TRUE] /\ owed' = (owed \/ TRUE)
      \/ subs[s].charged /\ subs[s].status = "live" /\ subs' = [subs EXCEPT ![s].status = "lapsed", ![s].charged = TRUE] /\ owed' = (owed \/ FALSE)
      \/ subs[s].status \in {"live", "lapsed"} /\ subs' = [subs EXCEPT ![s].status = "canceled", ![s].charged = FALSE] /\ owed' = (owed \/ TRUE)
  BY DEF SubMoves
<1> QED
  BY <1>1, <1>2, <1>3, <1>4, <1>5, <1>6 DEF SubMoved

LEMMA SubMovesKeeps ==
  ASSUME AccountInv, NEW s \in AccountSubs, SubMoves(s)
  PROVE  AccountInv'
<1>1. AccountTyped
  BY DEF AccountInv, RowsFit
<1>2. /\ subs' \in [AccountSubs -> AccountSubscription] /\ \A x \in AccountSubs : x # s => subs'[x] = subs[x]
      /\ SubMoved(subs[s], subs'[s]) /\ owed' \in BOOLEAN
      /\ "checkout" \notin Admitted /\ Deleting => subs'[s].status \notin {"incomplete", "lapsed"}
      /\ counts' \in [acts : Nat, deaths : Nat] /\ counts'.deaths = counts.deaths
      /\ UNCHANGED <<devices, assigned, members, account, seats, access, calls>>
  BY <1>1, SubMovesMeans
<1>3. AccountTyped'
  BY <1>1, <1>2 DEF AccountTyped
<1>4. \A x \in Callers : AccountCallFits(x)' /\ PacksFit(x)'
  BY <1>2 DEF AccountInv, RowsFit, AccountCallFits, PacksFit, UsedOn, Deleter
\* While the account is being deleted a subscription can only end.
<1>5. "checkout" \notin Admitted /\ Deleting => \A x \in AccountSubs : subs'[x].charged => subs[x].charged
  BY <1>2 DEF SubMoved, AccountInv, MoneyFits, ChargesFit
<1>6. MoneyFits'
  <2>1. ASSUME NEW x \in Callers PROVE CancelFits(x)'
    <3> SUFFICES ASSUME Deleter(x), calls[x].pc # "mark" PROVE CancelFits(x)'
      BY <1>2 DEF CancelFits, Deleter
    <3>1. Deleting
      BY DEF AccountInv, RowsFit, AccountCallFits, Deleting
    <3> QED
      BY <1>2, <1>5, <3>1 DEF CancelFits, AccountInv, RowsFit, AccountCallFits, CallShape, MoneyFits, Deleter
  <2>2. ChargesFit'
    <3> SUFFICES ASSUME "checkout" \notin Admitted PROVE ChargesFit'
      BY DEF ChargesFit
    <3> USE DEF ChargesFit, AccountInv, MoneyFits
    <3>1. \A x \in AccountSubs : subs'[x].charged => subs'[x].status \in {"live", "lapsed"}
      BY <1>2 DEF SubMoved
    <3>2. Deleting' => \A x \in AccountSubs : subs'[x].status \notin {"incomplete", "lapsed"}
      BY <1>2 DEF Deleting
    <3>3. BannedNotCharged'
      BY <1>2, <1>5 DEF BannedNotCharged, Deleting
    <3> QED
      BY <1>2, <3>1, <3>2, <3>3
  <2> QED
    BY <2>1, <2>2 DEF MoneyFits
<1>7. \A e \in Devices : InJobs(e) <=> InJobs(e)'
  BY <1>2 DEF InJobs
<1>8. ServiceFits'
  <2>1. \A e \in Devices : access'[e] = "enabled" => StaysServed(e)
    BY <1>2, <1>7 DEF StaysServed
  <2> QED
    BY <1>1, <1>2, <1>3, <1>4, <2>1, ServiceKept DEF AccountInv
<1>9. ASSUME NEW e \in Devices PROVE PlaceFits(e)'
  <2> SUFFICES ASSUME Calm', counts'.deaths = 0, ~account'.leaving, NoneLapsed', access'[e] = "enabled", ~ToReconcile', ~InJobs(e)'
               PROVE  Place(e)'
    BY DEF PlaceFits
  <2>1. subs[s].status = "none" /\ subs'[s].status = "incomplete" /\ owed' = owed
    BY <1>2 DEF SubMoved, NoneLapsed, ToReconcile
  <2>2. Place(e)
    BY <1>2, <1>7, <2>1 DEF PlaceFits, AccountInv, NoneLapsed, Calm, ToReconcile
  <2>3. \A x : LiveSub(x)' <=> LiveSub(x)
    BY <1>2, <2>1 DEF LiveSub
  <2>4. \A x : LiveSub(x) => deviceCapacity(x)' = deviceCapacity(x)
    BY <1>2, <2>1 DEF LiveSub, deviceCapacity
  <2>5. Before(e)' = Before(e)
    BY <1>2, <2>3 DEF Before, Earlier
  <2>6. Places(e)' = Places(e)
    BY <1>2, <2>3, <2>4 DEF Places
  <2> QED
    BY <1>2, <2>2, <2>5, <2>6, PlaceMeans, PlaceMeansNext
<1> QED
  BY <1>2, <1>3, <1>4, <1>6, <1>8, <1>9 DEF AccountInv, RowsFit

-----------------------------------------------------------------------------
(* A customer account: the theorems *)

LEMMA AccountBegins == AccountInit => AccountInv
<1> SUFFICES ASSUME AccountInit PROVE AccountInv
  OBVIOUS
<1>1. \A c \in Callers : calls[c] = NoCall /\ calls[c].op = "none" /\ calls[c].pc = "idle"
  BY DEF AccountInit, NoCall
<1>2. /\ \A d \in Devices : access[d] = "none"
      /\ account.banned = {} /\ ~account.leaving
  BY DEF AccountInit
<1>3. subs \in [AccountSubs -> AccountSubscription] /\ \A s \in AccountSubs : subs[s].status \in {"none", "live"} /\ (subs[s].charged <=> subs[s].status = "live")
  <2> PICK status \in {"none", "live"} :
             subs = [s \in AccountSubs |-> [status |-> status, packs |-> IF status = "live" THEN MaxPacks ELSE 0, charged |-> status = "live"]]
    BY DEF AccountInit
  <2> DEFINE row == [status |-> status, packs |-> IF status = "live" THEN MaxPacks ELSE 0, charged |-> status = "live"]
  <2>1. MaxPacks \in 0..MaxPacks /\ 0 \in 0..MaxPacks
    BY AccountParameters
  <2>2. row \in AccountSubscription /\ row.status = status /\ (row.charged <=> status = "live")
    <3>1. CASE status = "none"
      <4>1. row = [status |-> "none", packs |-> 0, charged |-> FALSE]
        BY <3>1
      <4> HIDE DEF row
      <4> QED
        BY <2>1, <3>1, <4>1 DEF AccountSubscription
    <3>2. CASE status = "live"
      <4>1. row = [status |-> "live", packs |-> MaxPacks, charged |-> TRUE]
        BY <3>2
      <4> HIDE DEF row
      <4> QED
        BY <2>1, <3>2, <4>1 DEF AccountSubscription
    <3> QED
      BY <3>1, <3>2
  <2> HIDE DEF row
  <2>3. subs = [s \in AccountSubs |-> row]
    BY DEF row
  <2> QED
    BY <2>2, <2>3
<1>4. devices \in [Devices -> DeviceRow] /\ \A d \in Devices : devices[d].seq <= assigned
  BY DEF AccountInit, DeviceRow, NoDeviceRow, Users
<1>5. AccountTyped
  <2>1. calls \in [Callers -> Call]
    BY NoCallIsACall DEF AccountInit
  <2>2. members \subseteq Users /\ seats \in Nat /\ owed \in BOOLEAN
    BY DEF AccountInit, Users
  <2>3. /\ account \in [suspended : BOOLEAN, leaving : BOOLEAN, deleted : BOOLEAN, banned : SUBSET {"admin", "deletion"}]
        /\ counts \in [acts : Nat, deaths : Nat] /\ assigned \in Nat
        /\ access \in [Devices -> {"none", "creating", "enabled", "disabled", "orphan"}]
    BY DEF AccountInit
  <2> QED
    BY <1>3, <1>4, <2>1, <2>2, <2>3 DEF AccountTyped
<1>6. \A c \in Callers : AccountCallFits(c) /\ PacksFit(c) /\ CancelFits(c) /\ RevokeFits(c)
  BY <1>1 DEF AccountCallFits, CallShape, PacksFit, CancelFits, RevokeFits, Deleter
<1>7. ChargesFit
  BY <1>1, <1>2, <1>3 DEF ChargesFit, Deleting, BannedNotCharged
<1> QED
  BY <1>2, <1>4, <1>5, <1>6, <1>7 DEF AccountInv, RowsFit, MoneyFits, ServiceFits, ServedFits, PlaceFits, SagaComes, Dark

LEMMA AccountCallKeeps ==
  ASSUME AccountInv, NEW c \in Callers, (CallAt(c, "idle") /\ Asks(c)) \/ Goes_on(c) \/ CallDies(c)
  PROVE  AccountInv'
<1>1. CASE Asks(c)
  BY <1>1, AskPacksKeeps, AskMoveKeeps, AskRevokeKeeps, AskDeviceKeeps, AskProfileKeeps, SeatsBecomeKeeps,
     AskSuspensionKeeps, AskLeaveKeeps, AskDeletionKeeps, TickKeeps DEF Asks, AskGrant, EndGrant
<1>2. CASE Goes_on(c)
  BY <1>2, SyncAccountKeeps, MirrorPacksKeeps, WriteMoveKeeps, DisableJobsKeeps, RevokedKeeps, RevokeNextKeeps, InsertDeviceKeeps,
     BudgetRefusesKeeps, BudgetAllowsKeeps, GateKeeps, SyncDeviceKeeps, RemoveMemberKeeps, SetSuspensionKeeps,
     MarkDeletionKeeps, ListSubsKeeps, MirrorCancelKeeps, ListDevicesKeeps, BanKeeps, FinishKeeps, CancelNextKeeps DEF Goes_on
<1>3. CASE CallDies(c)
  BY <1>3, CallDiesKeeps
<1> QED
  BY <1>1, <1>2, <1>3

LEMMA AccountGoesOn == AccountInv /\ [AccountNext]_accountVars => AccountInv'
<1> SUFFICES ASSUME AccountInv, [AccountNext]_accountVars PROVE AccountInv'
  OBVIOUS
<1>1. CASE UNCHANGED accountVars
  <2> USE <1>1 DEF accountVars
  <2>1. RowsFit'
    BY DEF AccountInv, RowsFit, AccountTyped, AccountCallFits, Deleter
  <2>2. MoneyFits'
    BY DEF AccountInv, MoneyFits, CancelFits, ChargesFit, BannedNotCharged, Deleter, Deleting
  <2>3. \A d \in Devices : InJobs(d)' <=> InJobs(d)
    BY DEF InJobs
  <2>4. ServiceFits'
    BY <2>3 DEF AccountInv, ServiceFits, RevokeFits, ServedFits, SagaComes, Saga, Deleter, Dark, Calm
  <2>5. \A c \in Callers : PacksFit(c)'
    BY DEF AccountInv, PacksFit, UsedOn
  <2>6. \A d \in Devices : Place(d)' <=> Place(d)
    BY DEF Place, Earlier, LiveSub, deviceCapacity
  <2>7. \A d \in Devices : PlaceFits(d)'
    BY <2>3, <2>6 DEF AccountInv, PlaceFits, NoneLapsed, ToReconcile, Calm
  <2> QED
    BY <2>1, <2>2, <2>4, <2>5, <2>7 DEF AccountInv
<1>2. ASSUME NEW c \in Callers, (CallAt(c, "idle") /\ Asks(c)) \/ Goes_on(c) \/ CallDies(c) PROVE AccountInv'
  BY <1>2, AccountCallKeeps
<1>3. ASSUME NEW s \in AccountSubs, SubMoves(s) PROVE AccountInv'
  BY <1>3, SubMovesKeeps
<1>4. ASSUME NEW d \in Devices, AgentCreatesAccess(d) PROVE AccountInv'
  BY <1>4, AgentCreatesAccessKeeps
<1>5. CASE Webhook
  BY <1>5, WebhookKeeps
<1> QED
  BY <1>1, <1>2, <1>3, <1>4, <1>5 DEF AccountNext

\* The invariant holds whatever races are let happen; its parts say which of them they need to be apart.
LEMMA AccountInvariant == AccountSpec => []AccountInv
<1>1. AccountInit => AccountInv
  BY AccountBegins
<1>2. AccountInv /\ [AccountNext]_accountVars => AccountInv'
  BY AccountGoesOn
<1> QED
  BY <1>1, <1>2, PTL DEF AccountSpec

\* The tables, the requests and the counters keep their types.
THEOREM AccountTypeCorrect == AccountSpec => []AccountTyped
<1>1. AccountInv => AccountTyped
  BY DEF AccountInv, RowsFit
<1> QED
  BY <1>1, AccountInvariant, PTL

LEMMA AccountInvMeans ==
  ASSUME AccountInv
  PROVE  /\ "create" \notin Admitted => ServedIsEntitled
         /\ "checkout" \notin Admitted => BannedNotCharged
         /\ "create" \notin Admitted /\ "revocation" \notin Admitted => DeletionNotStuck
<1>1. Quiet => \A d \in Devices : ~InJobs(d)
  BY DEF Quiet, CallAt, InJobs
<1>2. ASSUME "create" \notin Admitted, Quiet, counts.deaths = 0, ~account.suspended, NoneLapsed,
             NEW d \in Devices, access[d] = "enabled"
      PROVE  DeviceEntitled(devices, d)
  <2>1. Calm
    BY <1>2 DEF Calm
  <2>2. ~account.leaving
    BY <1>1, <1>2, <2>1 DEF AccountInv, ServiceFits, SagaComes, Dark, Saga, Quiet, CallAt
  <2>3. ~ToReconcile
    BY <1>2 DEF ToReconcile, Quiet, CallAt
  <2>4. Place(d)
    BY <1>1, <1>2, <2>1, <2>2, <2>3 DEF AccountInv, PlaceFits
  <2> QED
    BY <1>2, <2>2, <2>4 DEF Place, DeviceEntitled
<1>3. "create" \notin Admitted => ServedIsEntitled
  BY <1>2 DEF ServedIsEntitled, NoneLapsed
<1>4. "create" \notin Admitted /\ "revocation" \notin Admitted => DeletionNotStuck
  BY <1>1 DEF DeletionNotStuck, AccountInv, ServiceFits, ServedFits, Calm
<1>5. "checkout" \notin Admitted => BannedNotCharged
  BY DEF AccountInv, MoneyFits, ChargesFit
<1> QED
  BY <1>3, <1>4, <1>5

\* ServedIsEntitled (account-service.js, device_entitlement): once requests and Stripe's events are done,
\* only devices that the entitlement allows are served; for any number of devices, subscriptions and
\* requests, unless a row is deleted again whose identity is already there.
THEOREM ServedCorrect == "create" \notin Admitted /\ AccountSpec => []ServedIsEntitled
<1>1. AccountInv /\ "create" \notin Admitted => ServedIsEntitled
  BY AccountInvMeans
<1>2. CASE "create" \notin Admitted
  <2>1. AccountInv => ServedIsEntitled
    BY <1>1, <1>2
  <2> QED
    BY <2>1, AccountInvariant, PTL
<1> QED
  BY <1>2

\* BannedNotCharged (runDeletionSaga): nobody is banned for a deletion and still charged, unless a
\* subscription that the saga does not see comes to life.
THEOREM NotChargedCorrect == "checkout" \notin Admitted /\ AccountSpec => []BannedNotCharged
<1>1. AccountInv /\ "checkout" \notin Admitted => BannedNotCharged
  BY AccountInvMeans
<1>2. CASE "checkout" \notin Admitted
  <2>1. AccountInv => BannedNotCharged
    BY <1>1, <1>2
  <2> QED
    BY <2>1, AccountInvariant, PTL
<1> QED
  BY <1>2

\* DeletionHolds: that, and wherever the saga's runs die no revoked device keeps an identity that no further
\* run would touch, unless a run dies between a device's revocation and its jobs.
THEOREM DeletionCorrect == Admitted \subseteq {"packs"} /\ AccountSpec => []DeletionHolds
<1>1. AccountInv /\ Admitted \subseteq {"packs"} => DeletionHolds
  <2> SUFFICES ASSUME AccountInv, Admitted \subseteq {"packs"} PROVE DeletionHolds
    OBVIOUS
  <2>1. "create" \notin Admitted /\ "checkout" \notin Admitted /\ "revocation" \notin Admitted
    OBVIOUS
  <2> QED
    BY <2>1, AccountInvMeans DEF DeletionHolds
<1>2. CASE Admitted \subseteq {"packs"}
  <2>1. AccountInv => DeletionHolds
    BY <1>1, <1>2
  <2> QED
    BY <2>1, AccountInvariant, PTL
<1> QED
  BY <1>2

PacksKeep ==
    \A c \in Callers : CallAt(c, "write") /\ calls[c].op = "packs" /\ calls'[c].pc = "sync"
        => \A d \in Devices : DeviceEntitled(devices, d) => DeviceEntitled(devices, d)'

\* Who uses the subscription whose packs change has a place on it afterwards: those before a device are
\* users, and it is one itself.
LEMMA MirrorPacksKeepsPlaces ==
  ASSUME "packs" \notin Admitted, AccountInv, NEW c \in Callers, MirrorPacks(c), NEW d \in Devices, DeviceEntitled(devices, d)
  PROVE  DeviceEntitled(devices, d)'
<1>1. /\ AccountTyped /\ calls[c].pc = "write" /\ calls[c].op = "packs"
      /\ calls[c].sub \in AccountSubs /\ calls[c].packs \in 0..MaxPacks
      /\ subs' = [subs EXCEPT ![calls[c].sub].packs = calls[c].packs]
      /\ UNCHANGED <<devices, account, seats>>
  BY DEF AccountInv, RowsFit, AccountTyped, Call, AccountCallFits, CallShape, MirrorPacks, CallAt
<1> PICK s \in AccountSubs : s = calls[c].sub
  BY <1>1
<1>2. subs[s] \in AccountSubscription
  BY <1>1 DEF AccountTyped
<1>3. subs'[s] = [subs[s] EXCEPT !.packs = calls[c].packs] /\ \A x \in AccountSubs : x # s => subs'[x] = subs[x]
  BY <1>1 DEF AccountTyped
<1>4. subs'[s].status = subs[s].status /\ subs'[s].packs = calls[c].packs
  BY <1>2, <1>3 DEF AccountSubscription
<1>5. \A x : LiveSub(x)' <=> LiveSub(x)
  BY <1>3, <1>4 DEF LiveSub
<1>6. Place(d)
  BY DEF DeviceEntitled, Place
<1>7. Before(d)' = Before(d)
  BY <1>1, <1>5 DEF Before, Earlier
<1>8. Cardinality(Before(d)) < Places(d)'
  <2>1. CASE LiveSub(devices[d].sub) /\ devices[d].sub = s
    <3>1. Before(d) \subseteq UsersOf(s) /\ d \in UsersOf(s) /\ d \notin Before(d)
      BY <1>1, <1>6, <2>1 DEF Before, UsersOf, Earlier, Place, AccountTyped, DeviceRow
    <3>2. IsFiniteSet(UsersOf(s))
      BY AccountParameters, FS_Subset DEF UsersOf
    <3>3. Cardinality(Before(d)) \in Nat /\ Cardinality(UsersOf(s)) \in Nat /\ Cardinality(Before(d)) < Cardinality(UsersOf(s))
      <4>1. IsFiniteSet(Before(d)) /\ Cardinality(Before(d)) <= Cardinality(UsersOf(s)) /\ Cardinality(Before(d)) # Cardinality(UsersOf(s))
        BY <3>1, <3>2, FS_Subset
      <4> QED
        BY <3>2, <4>1, FS_CardinalityType
    <3>4. Cardinality(UsersOf(s)) <= Included * (1 + calls[c].packs)
      BY <1>1 DEF AccountInv, PacksFit, UsedOn, UsersOf
    <3>5. Places(d)' = Included * (1 + calls[c].packs) /\ Included * (1 + calls[c].packs) \in Int
      BY <1>1, <1>4, <1>5, <2>1, AccountParameters DEF Places, deviceCapacity
    <3> QED
      BY <3>3, <3>4, <3>5
  <2>2. CASE ~(LiveSub(devices[d].sub) /\ devices[d].sub = s)
    <3>1. Places(d)' = Places(d)
      BY <1>1, <1>3, <1>5, <2>2 DEF Places, deviceCapacity, LiveSub
    <3> QED
      BY <1>6, <3>1, PlaceMeans
  <2> QED
    BY <2>1, <2>2
<1>9. Place(d)'
  BY <1>1, <1>6, <1>7, <1>8, PlaceMeansNext DEF Place
<1> QED
  BY <1>1, <1>9 DEF DeviceEntitled, Place

\* A step of one request moves no other's call.
LEMMA OwnCall ==
  ASSUME AccountTyped, NEW c \in Callers, (CallAt(c, "idle") /\ Asks(c)) \/ Goes_on(c) \/ CallDies(c)
  PROVE  OthersWait(c)
<1> DEFINE Own == \E q : calls' = [calls EXCEPT ![c] = q]
<1>1. Own => OthersWait(c)
  BY DEF AccountTyped, OthersWait
<1>2. ASSUME NEW op, NEW pc, NEW q, Begins(c, op, pc, q) PROVE Own
  BY <1>2 DEF Begins
<1>3. ASSUME NEW pc, Goes(c, pc) PROVE Own
  BY <1>3 DEF Goes
<1>4. Ends(c) => Own
  BY DEF Ends
<1>5. CASE Asks(c)
  <2>1. ASSUME Tick(c) PROVE Own
    BY <2>1 DEF Tick
  <2> HIDE DEF Own
  <2> QED
    BY <1>2, <1>5, <2>1, <1>1 DEF Asks, AskPacks, AskMove, AskRevoke, AskDevice, AskProfile, AskGrant, EndGrant, SeatsBecome,
       AskSuspension, AskLeave, AskDeletion
<1>6. CASE Goes_on(c)
  <2>1. ASSUME NEW d \in Devices, RevokeNext(c, d) PROVE Own
    BY <2>1 DEF RevokeNext
  <2>2. ASSUME NEW d \in Devices, InsertDevice(c, d) PROVE OthersWait(c)
    BY <2>2 DEF InsertDevice, OthersWait, AccountTyped
  <2>3. ASSUME NEW s \in AccountSubs, CancelNext(c, s) PROVE OthersWait(c)
    BY <2>3 DEF CancelNext, OthersWait, AccountTyped
  <2>4. ASSUME ListSubs(c) \/ ListDevices(c) PROVE OthersWait(c)
    BY <2>4 DEF ListSubs, ListDevices, OthersWait, AccountTyped
  <2> HIDE DEF Own
  <2> QED
    BY <1>1, <1>3, <1>4, <1>6, <2>1, <2>2, <2>3, <2>4 DEF Goes_on, SyncAccount, MirrorPacks, WriteMove, DisableJobs, Revoked,
       BudgetRefuses, BudgetAllows, Gate, SyncDevice, RemoveMember, SetSuspension, MarkDeletion, MirrorCancel, Ban, Finish
<1>7. CASE CallDies(c)
  BY <1>1, <1>4, <1>7 DEF CallDies
<1> QED
  BY <1>5, <1>6, <1>7

LEMMA PacksStep == "packs" \notin Admitted /\ AccountInv /\ [AccountNext]_accountVars => [PacksKeep]_accountVars
<1> SUFFICES ASSUME "packs" \notin Admitted, AccountInv, AccountNext, NEW c \in Callers, CallAt(c, "write"), calls[c].op = "packs", calls'[c].pc = "sync"
             PROVE  MirrorPacks(c)
  BY MirrorPacksKeepsPlaces DEF PacksKeep
<1>1. AccountTyped /\ calls[c].pc = "write" /\ calls'[c] # calls[c]
  BY DEF AccountInv, RowsFit, CallAt
<1>2. (CallAt(c, "idle") /\ Asks(c)) \/ Goes_on(c) \/ CallDies(c)
  <2>1. ASSUME NEW x \in Callers, (CallAt(x, "idle") /\ Asks(x)) \/ Goes_on(x) \/ CallDies(x) PROVE x = c
    BY <1>1, <2>1, OwnCall DEF OthersWait
  <2>2. calls' # calls
    BY <1>1
  <2>3. \E x \in Callers : (CallAt(x, "idle") /\ Asks(x)) \/ Goes_on(x) \/ CallDies(x)
    BY <2>2 DEF AccountNext, SubMoves, AgentCreatesAccess, Webhook
  <2> QED
    BY <2>1, <2>3
<1>3. ~CallAt(c, "idle") /\ ~CallDies(c)
  BY <1>1, CallEnds DEF CallAt, CallDies
<1> QED
  BY <1>1, <1>2, <1>3 DEF Goes_on, CallAt, SyncAccount, WriteMove, DisableJobs, Revoked, RevokeNext, InsertDevice, BudgetRefuses,
     BudgetAllows, Gate, SyncDevice, RemoveMember, SetSuspension, MarkDeletion, ListSubs, MirrorCancel, ListDevices, Ban, Finish, CancelNext

\* PacksKeepPlaces (setExtraPacks): a device that has a place keeps it when the packs change, unless a
\* device takes a place between its check and its write.
THEOREM PacksKeepPlacesCorrect == "packs" \notin Admitted /\ AccountSpec => PacksKeepPlaces
<1>1. CASE "packs" \notin Admitted
  <2>1. AccountInv /\ [AccountNext]_accountVars => [PacksKeep]_accountVars
    BY <1>1, PacksStep
  <2> QED
    BY <2>1, AccountInvariant, PTL DEF AccountSpec, PacksKeepPlaces, PacksKeep
<1> QED
  BY <1>1
=============================================================================
