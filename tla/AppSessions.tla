------------------------------ MODULE AppSessions ------------------------------
(***************************************************************************)
(* The sessions of a customer, and the device that each of them is.  The   *)
(* app signs in through /v1/auth, which asks the authentication service    *)
(* for a session and records its device before it answers; the website     *)
(* signs in by itself.  A token outlives the end of its session, so that   *)
(* what a request may do is decided by the row of the device.  Handlers    *)
(* await between their statements, and may die there.                      *)
(***************************************************************************)
EXTENDS Integers

CONSTANTS
    Sessions,       \* sessions that the authentication service may open
    SessionCalls,   \* requests that can be in progress
    MaxAppDeaths,   \* bound: requests that die, and calls to the service that fail
    MaxPasswords    \* bound: changes of the password

ASSUME SessionParameters == {MaxAppDeaths, MaxPasswords} \subseteq Nat

VARIABLES
    session,      \* [Sessions -> session of the authentication service]
    token,        \* [Sessions -> the access token its user has]
    appDevice,    \* [Sessions -> status of the row of devices with this auth_session_id]
    leased,       \* sessions whose device was given a lease that no revocation has ended
    appCall,      \* [SessionCalls -> request]
    password,     \* number of the user's password
    appDeaths,
    unswept       \* history: revoked by a request that died before it ended the leases

sessionVars == <<session, token, appDevice, leased, appCall, password, appDeaths, unswept>>

-----------------------------------------------------------------------------
(* Types *)

\* left: over, and its user was told so.  by: of one that lives, the password that opened it, or the
\* last one whose change let it live.
AuthSession == [state : {"none", "live", "over", "left"}, app : BOOLEAN, by : 0..MaxPasswords]
\* recent: its user has proved who he is within DEFAULT_RECENT_AUTH_SECONDS (amr), which is less than
\* a token's life.  A token that expired is one that is not used.
AccessToken == {"none", "recent", "fresh"}
\* of: the session whose device the request is about.
SessionRequest ==
    [op : {"login", "authorize", "logout", "remove", "password"},
     at : {"ensure", "insert", "answer", "gate", "lease", "find", "flip", "sweep", "sign out", "update",
           "others"},
     of : Sessions]
NoAppRequest == [op |-> "none", at |-> "idle"]

SessionTypeOK ==
    /\ session \in [Sessions -> AuthSession]
    /\ token \in [Sessions -> AccessToken]
    /\ appDevice \in [Sessions -> {"none", "ACTIVE", "REVOKED"}] /\ leased \subseteq Sessions
    /\ appCall \in [SessionCalls -> SessionRequest \cup {NoAppRequest}]
    /\ password \in 0..MaxPasswords /\ appDeaths \in 0..MaxAppDeaths
    /\ unswept \subseteq Sessions

-----------------------------------------------------------------------------
(* The authentication service *)

SessionLives(s) == session[s].state = "live"
\* passwordGrant and signUp; a refresh token of a session that is over is refused.
Opened(s, app) == [session EXCEPT ![s] = [state |-> "live", app |-> app, by |-> password]]
Ended(s, state) == [state |-> state, app |-> session[s].app, by |-> 0]

\* The website's sign-in does not pass through a handler.
WebSignsIn(s) ==
    /\ session[s].state = "none" /\ session' = Opened(s, FALSE) /\ token' = [token EXCEPT ![s] = "recent"]
    /\ UNCHANGED <<appDevice, leased, appCall, password, appDeaths, unswept>>
\* To confirm a deletion the password is tried: the session that this opens is nobody's.
ConfirmsDeletion(s, t) ==
    /\ token[s] \in {"recent", "fresh"} /\ session[t].state = "none" /\ session' = Opened(t, FALSE)
    /\ UNCHANGED <<token, appDevice, leased, appCall, password, appDeaths, unswept>>
\* Time goes by; a refreshed token is as old as its session, and there is none without one.
TokenAges(s) ==
    /\ token[s] = "recent" /\ token' = [token EXCEPT ![s] = "fresh"]
    /\ UNCHANGED <<session, appDevice, leased, appCall, password, appDeaths, unswept>>
RefreshIsRefused(s) ==
    /\ token[s] = "fresh" /\ ~SessionLives(s) /\ token' = [token EXCEPT ![s] = "none"]
    /\ UNCHANGED <<session, appDevice, leased, appCall, password, appDeaths, unswept>>

-----------------------------------------------------------------------------
(* Requests *)

\* A token is checked by its signature, so that one whose session is over may pass (requireUser).
requireUser(s) == token[s] \in {"recent", "fresh"}
requireRecentUser(s) == token[s] = "recent"

SessionAsks(c, op, at, s) ==
    /\ appCall[c] = NoAppRequest
    /\ appCall' = [appCall EXCEPT ![c] = [op |-> op, at |-> at, of |-> s]]
Ask(c) ==
    \/ \E s \in Sessions : /\ session[s].state = "none" /\ session' = Opened(s, TRUE)
                           /\ SessionAsks(c, "login", "ensure", s)
                           /\ UNCHANGED <<token, appDevice, leased, password, appDeaths, unswept>>
    \/ /\ \E s \in Sessions :
              \/ requireUser(s) /\ SessionAsks(c, "authorize", "ensure", s)
              \/ requireUser(s) /\ SessionAsks(c, "logout", "find", s)
              \/ requireUser(s) /\ \E t \in Sessions : SessionAsks(c, "remove", "find", t)
              \/ requireRecentUser(s) /\ SessionAsks(c, "password", "update", s)
       /\ UNCHANGED <<session, token, appDevice, leased, password, appDeaths, unswept>>

AppAt(c, at) == appCall[c].at = at
Proceeds(c, at) == appCall' = [appCall EXCEPT ![c].at = at]
AppDone(c) == appCall' = [appCall EXCEPT ![c] = NoAppRequest]
\* A sign-in is answered, and a connection authorized, once there is a device.
AfterEnsure(c) == Proceeds(c, IF appCall[c].op = "login" THEN "answer" ELSE "gate")
\* Whoever revokes for a logout then ends the session.
AfterRevoke(c) == IF appCall[c].op = "logout" THEN Proceeds(c, "sign out") ELSE AppDone(c)

\* ensureSessionDevice reads the row, and inserts one if there is none: another may have done so.
\* A failed insert or reconcile is answered 503 (AppRequestDies).
EnsureSessionDevice(c) ==
    /\ AppAt(c, "ensure")
    /\ IF appDevice[appCall[c].of] = "none" THEN Proceeds(c, "insert") ELSE AfterEnsure(c)
    /\ UNCHANGED <<session, token, appDevice, leased, password, appDeaths, unswept>>
\* As if the conflict were resolved by an update.
InsertSessionDevice_Upsert(c) ==
    /\ AppAt(c, "insert") /\ AfterEnsure(c) /\ appDevice' = [appDevice EXCEPT ![appCall[c].of] = "ACTIVE"]
    /\ UNCHANGED <<session, token, leased, password, appDeaths, unswept>>
InsertSessionDevice(c) ==
    LET s == appCall[c].of
    IN /\ AppAt(c, "insert")
       /\ IF appDevice[s] = "none" THEN AfterEnsure(c) /\ appDevice' = [appDevice EXCEPT ![s] = "ACTIVE"]
          ELSE Proceeds(c, "ensure") /\ UNCHANGED appDevice
       /\ UNCHANGED <<session, token, leased, password, appDeaths, unswept>>
SessionAnswer(c) ==
    /\ AppAt(c, "answer") /\ AppDone(c) /\ token' = [token EXCEPT ![appCall[c].of] = "recent"]
    /\ UNCHANGED <<session, appDevice, leased, password, appDeaths, unswept>>

\* A device that was revoked is entitled to nothing, and lease_route_slots asks again.
GateDevice(c) ==
    /\ AppAt(c, "gate") /\ IF appDevice[appCall[c].of] = "ACTIVE" THEN Proceeds(c, "lease") ELSE AppDone(c)
    /\ UNCHANGED <<session, token, appDevice, leased, password, appDeaths, unswept>>
LeaseRoute(c) ==
    /\ AppAt(c, "lease") /\ AppDone(c)
    /\ leased' = IF appDevice[appCall[c].of] = "ACTIVE" THEN leased \cup {appCall[c].of} ELSE leased
    /\ UNCHANGED <<session, token, appDevice, password, appDeaths, unswept>>

\* releaseSessionDevice and removeDevice: the row is read, its status compared and set, its leases ended.
FindDevice(c) ==
    /\ AppAt(c, "find") /\ IF appDevice[appCall[c].of] = "ACTIVE" THEN Proceeds(c, "flip") ELSE AfterRevoke(c)
    /\ UNCHANGED <<session, token, appDevice, leased, password, appDeaths, unswept>>
FlipDevice(c) ==
    LET s == appCall[c].of
    IN /\ AppAt(c, "flip")
       /\ IF appDevice[s] = "ACTIVE"
          THEN Proceeds(c, "sweep") /\ appDevice' = [appDevice EXCEPT ![s] = "REVOKED"]
          ELSE AfterRevoke(c) /\ UNCHANGED appDevice
       /\ UNCHANGED <<session, token, leased, password, appDeaths, unswept>>
SweepLeases(c) ==
    /\ AppAt(c, "sweep") /\ AfterRevoke(c) /\ leased' = leased \ {appCall[c].of}
    /\ UNCHANGED <<session, token, appDevice, password, appDeaths, unswept>>
\* A session that is over already is no error.  The app forgets its token.
SignOutSession(c) ==
    LET s == appCall[c].of
    IN /\ AppAt(c, "sign out") /\ AppDone(c)
       /\ session' = [session EXCEPT ![s] = Ended(s, "left")] /\ token' = [token EXCEPT ![s] = "none"]
       /\ UNCHANGED <<appDevice, leased, password, appDeaths, unswept>>

UpdatePassword(c) ==
    /\ AppAt(c, "update") /\ password < MaxPasswords /\ password' = password + 1 /\ Proceeds(c, "others")
    /\ UNCHANGED <<session, token, appDevice, leased, appDeaths, unswept>>
LetLive == [t \in Sessions |-> IF SessionLives(t) THEN [session[t] EXCEPT !.by = password] ELSE session[t]]
\* Signing the others out takes a session that lives; an error is logged, and the answer is 200.
SignOutOthers(c) ==
    LET s == appCall[c].of
    IN /\ AppAt(c, "others") /\ AppDone(c)
       /\ session' = IF ~SessionLives(s) THEN LetLive
                     ELSE [t \in Sessions |-> IF SessionLives(t) /\ t # s THEN Ended(t, "over")
                                              ELSE LetLive[t]]
       /\ UNCHANGED <<token, appDevice, leased, password, appDeaths, unswept>>

\* The answer to a sign-in may get lost, too, and a call to the authentication service may fail.
AppRequestDies(c) ==
    /\ appCall[c] # NoAppRequest /\ appDeaths < MaxAppDeaths /\ appDeaths' = appDeaths + 1 /\ AppDone(c)
    /\ unswept' = IF AppAt(c, "sweep") THEN unswept \cup {appCall[c].of} ELSE unswept
    /\ session' = IF AppAt(c, "others") THEN LetLive ELSE session
    /\ UNCHANGED <<token, appDevice, leased, password>>

-----------------------------------------------------------------------------

SessionInit ==
    /\ session = [s \in Sessions |-> [state |-> "none", app |-> FALSE, by |-> 0]]
    /\ token = [s \in Sessions |-> "none"] /\ appDevice = [s \in Sessions |-> "none"] /\ leased = {}
    /\ appCall = [c \in SessionCalls |-> NoAppRequest] /\ password = 0 /\ appDeaths = 0
    /\ unswept = {}

SessionNext ==
    \/ \E s \in Sessions : WebSignsIn(s) \/ TokenAges(s) \/ RefreshIsRefused(s)
    \/ \E s, t \in Sessions : ConfirmsDeletion(s, t)
    \/ \E c \in SessionCalls : \/ Ask(c)
                               \/ EnsureSessionDevice(c) \/ InsertSessionDevice(c) \/ SessionAnswer(c)
                               \/ GateDevice(c) \/ LeaseRoute(c)
                               \/ FindDevice(c) \/ FlipDevice(c) \/ SweepLeases(c) \/ SignOutSession(c)
                               \/ UpdatePassword(c) \/ SignOutOthers(c) \/ AppRequestDies(c)

SessionSpec == SessionInit /\ [][SessionNext]_sessionVars

-----------------------------------------------------------------------------
(* Properties *)

\* Whoever holds a token of the app has a device, so that a logout finds it.
TokenHasDevice == \A s \in Sessions : session[s].app /\ token[s] # "none" => appDevice[s] # "none"
\* What was logged out is over, and its device gives its place free, whatever else was asked meanwhile.
LoggedOutIsOff ==
    \A s \in Sessions : session[s].state = "left" /\ session[s].app => appDevice[s] = "REVOKED"
\* A revoked device has no lease, once whoever revoked it is through.
RevokedIsOff ==
    \A s \in leased : appDevice[s] = "REVOKED"
                      => s \in unswept \/ \E c \in SessionCalls : AppAt(c, "sweep") /\ appCall[c].of = s
\* After a change of the password no session lives that was begun with an older one, but the one that
\* made the change.
PasswordEndsOthers ==
    \A s \in Sessions : SessionLives(s) /\ session[s].by # password
                        => \E c \in SessionCalls : AppAt(c, "others")
SessionsAgree == TokenHasDevice /\ LoggedOutIsOff /\ RevokedIsOff /\ PasswordEndsOthers

\* A device that was revoked does not come back under its session: its user signs in again.
RevokedForGood ==
    \A s \in Sessions :
        appDevice[s] = "REVOKED" => appDevice'[s] = "REVOKED" /\ (s \in leased' => s \in leased)

SessionsHold == []SessionsAgree /\ [][RevokedForGood]_sessionVars
=============================================================================
