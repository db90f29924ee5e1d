---------------------------- MODULE TelegramLinking ----------------------------
(***************************************************************************)
(* How a Telegram account comes to act for a customer: the website issues  *)
(* a code (api/account/telegram/link-code.js), the Mini App redeems it     *)
(* (api/telegram/link.js) under the rate limit that stands against         *)
(* guessing, and either side unlinks.  A redemption reads the code, looks  *)
(* for a link, consumes the code and inserts the link in four statements.  *)
(* What the Mini App may then do are the actions of CustomerAccounts,      *)
(* AccessLinks and Placement.                                              *)
(***************************************************************************)
EXTENDS Integers

CONSTANTS
    Members, Telegrams,  \* website users and Telegram accounts
    Codes,               \* bound: codes that can be issued
    Redeemers,           \* requests to api/telegram/link that can be in progress
    TTL,                 \* LINK_CODE_TTL_SECONDS
    WINDOW, LIMIT,       \* LINK_ATTEMPT_WINDOW_SECONDS, LINK_ATTEMPT_LIMIT_PER_TELEGRAM_USER
    Retention,           \* TELEGRAM_LINK_CODE_RETENTION_DAYS, RATE_LIMIT_BUCKET_RETENTION_DAYS
    WriteAge, MaxAge,    \* WRITE_MAX_AGE_SECONDS, DEFAULT_MAX_AGE_SECONDS
    MaxNow, MaxFailures, \* bounds: the clock, inserts that fail
    LostAnswers          \* an insert may be reported as failed though it took place

Nothing == "nothing"
Never == -1

ASSUME TelegramParameters ==
    /\ {TTL, WINDOW, LIMIT, Retention, WriteAge, MaxAge, MaxNow, MaxFailures} \subseteq Nat
    /\ LostAnswers \in BOOLEAN /\ Nothing \notin Members \cup Telegrams \cup Codes

VARIABLES
    now,
    codes,      \* [Codes -> ...]: telegram_link_codes
    links,      \* [Members -> Telegrams]: telegram_links
    issuing,    \* members for whom a code is about to be inserted
    redeeming,  \* [Redeemers -> ...]
    buckets,    \* [Telegrams -> ...]: rate_limit_buckets
    opened,     \* [Telegrams -> ...]: auth_date of the initData that the open Mini App sends
    failures,
    tries,      \* [Codes -> [Telegrams -> ...]]: attempts let through while the code could be redeemed
    made        \* [Codes -> ...]: links made with the code

telegramVars == <<now, codes, links, issuing, redeeming, buckets, opened, failures, tries, made>>

CodeRow == [member : Members \cup {Nothing}, issued : Never..MaxNow, consumed : BOOLEAN]
NoCode == [member |-> Nothing, issued |-> Never, consumed |-> FALSE]
Redeeming == [pc : {"idle", "check", "consume", "insert", "unconsume"}, telegram : Telegrams \cup {Nothing},
              code : Codes \cup {Nothing}, member : Members \cup {Nothing}]
NotRedeeming == [pc |-> "idle", telegram |-> Nothing, code |-> Nothing, member |-> Nothing]

NoBucket == [start |-> Never, count |-> 0]
NoTries == [t \in Telegrams |-> 0]

TelegramTypeOK ==
    /\ now \in 0..MaxNow /\ codes \in [Codes -> CodeRow]
    /\ links \in [Members -> Telegrams \cup {Nothing}] /\ issuing \subseteq Members
    /\ redeeming \in [Redeemers -> Redeeming]
    /\ buckets \in [Telegrams -> [start : Never..MaxNow, count : 0..(LIMIT + 1)]]
    /\ opened \in [Telegrams -> Never..MaxNow] /\ failures \in 0..MaxFailures
    /\ tries \in [Codes -> [Telegrams -> Nat]] /\ made \in [Codes -> Nat]

-----------------------------------------------------------------------------
Live(c) == codes[c] # NoCode /\ now < codes[c].issued + TTL
Linked(t) == \E u \in Members : links[u] = t
\* verifyTelegramInitData.
Fresh(t, age) == opened[t] # Never /\ now - opened[t] <= age

\* The row that one statement leaves.
check_rate_limit(t) ==
    IF buckets[t].count = 0 \/ buckets[t].start + WINDOW <= now THEN [start |-> now, count |-> 1]
    ELSE IF buckets[t].count > LIMIT THEN buckets[t]
    ELSE [buckets[t] EXCEPT !.count = @ + 1]
\* Lets the request through.
checkRateLimit(t) == check_rate_limit(t).count <= LIMIT

-----------------------------------------------------------------------------
(* Issuing a code *)

AskCode(u) ==
    /\ links[u] = Nothing /\ issuing' = issuing \cup {u} /\ u \notin issuing
    /\ UNCHANGED <<now, codes, links, redeeming, buckets, opened, failures, tries, made>>
InsertCode(u, c) ==
    /\ u \in issuing /\ issuing' = issuing \ {u}
    /\ codes[c] = NoCode /\ codes' = [codes EXCEPT ![c] = [member |-> u, issued |-> now, consumed |-> FALSE]]
    /\ UNCHANGED <<now, links, redeeming, buckets, opened, failures, tries, made>>

-----------------------------------------------------------------------------
(* Redeeming one *)

Goes(r, pc) == redeeming' = [redeeming EXCEPT ![r].pc = pc]
Ends(r) == redeeming' = [redeeming EXCEPT ![r] = NotRedeeming]

\* Whether let through or not, and whether the code exists or is a guess (Nothing).
Attempt(r, t, c) ==
    /\ redeeming[r].pc = "idle" /\ Fresh(t, MaxAge)
    /\ buckets' = [buckets EXCEPT ![t] = check_rate_limit(t)]
    /\ tries' = [k \in Codes |-> [tries[k] EXCEPT ![t] = @ + IF checkRateLimit(t) /\ Live(k) THEN 1 ELSE 0]]
    /\ IF checkRateLimit(t) /\ c \in Codes /\ Live(c) /\ ~codes[c].consumed
       THEN redeeming' = [redeeming EXCEPT ![r] = [pc |-> "check", telegram |-> t, code |-> c, member |-> codes[c].member]]
       ELSE UNCHANGED redeeming
    /\ UNCHANGED <<now, codes, links, issuing, opened, failures, made>>
CheckLink(r) ==
    /\ redeeming[r].pc = "check"
    /\ IF Linked(redeeming[r].telegram) THEN Ends(r) ELSE Goes(r, "consume")
    /\ UNCHANGED <<now, codes, links, issuing, buckets, opened, failures, tries, made>>

\* As if the update were not guarded by consumed_at being null.
Consume_Unguarded(r) ==
    /\ redeeming[r].pc = "consume" /\ Goes(r, "insert")
    /\ codes' = [codes EXCEPT ![redeeming[r].code].consumed = TRUE]
    /\ UNCHANGED <<now, links, issuing, buckets, opened, failures, tries, made>>
Consume(r) ==
    /\ redeeming[r].pc = "consume"
    /\ IF codes[redeeming[r].code].consumed THEN Ends(r) ELSE Goes(r, "insert")
    /\ codes' = [codes EXCEPT ![redeeming[r].code].consumed = TRUE]
    /\ UNCHANGED <<now, links, issuing, buckets, opened, failures, tries, made>>

Free(r) == links[redeeming[r].member] = Nothing /\ ~Linked(redeeming[r].telegram)
Written(r) ==
    /\ links' = [links EXCEPT ![redeeming[r].member] = redeeming[r].telegram]
    /\ made' = [made EXCEPT ![redeeming[r].code] = @ + 1]
InsertLink(r) ==
    /\ redeeming[r].pc = "insert" /\ Ends(r)
    /\ IF Free(r) THEN Written(r) ELSE UNCHANGED <<links, made>>
    /\ UNCHANGED <<now, codes, issuing, buckets, opened, failures, tries>>
InsertFails(r) ==
    /\ redeeming[r].pc = "insert" /\ Goes(r, "unconsume")
    /\ failures < MaxFailures /\ failures' = failures + 1
    /\ IF LostAnswers /\ Free(r) THEN Written(r) ELSE UNCHANGED <<links, made>>
    /\ UNCHANGED <<now, codes, issuing, buckets, opened, tries>>
Unconsume(r) ==
    /\ redeeming[r].pc = "unconsume" /\ Ends(r)
    /\ codes' = [codes EXCEPT ![redeeming[r].code].consumed = FALSE]
    /\ UNCHANGED <<now, links, issuing, buckets, opened, failures, tries, made>>
RequestDies(r) ==
    /\ redeeming[r].pc \in {"insert", "unconsume"} /\ Ends(r)
    /\ failures < MaxFailures /\ failures' = failures + 1
    /\ UNCHANGED <<now, codes, links, issuing, buckets, opened, tries, made>>

-----------------------------------------------------------------------------
(* Unlinking, the Mini App, retention, the clock *)

Unlink(u) ==
    /\ links[u] # Nothing /\ links' = [links EXCEPT ![u] = Nothing]
    /\ UNCHANGED <<now, codes, issuing, redeeming, buckets, opened, failures, tries, made>>
\* A write, for which the initData must be recent.
MiniAppUnlinks(t) == Fresh(t, WriteAge) /\ \E u \in Members : links[u] = t /\ Unlink(u)
\* The retention tick.  No request lasts that long.
pruneTelegramLinkCodes ==
    LET old == {c \in Codes : codes[c] # NoCode /\ codes[c].issued + TTL + Retention < now}
    IN /\ old # {} /\ \A r \in Redeemers : redeeming[r].code \notin old
       /\ codes' = [c \in Codes |-> IF c \in old THEN NoCode ELSE codes[c]]
       /\ tries' = [c \in Codes |-> IF c \in old THEN NoTries ELSE tries[c]]
       /\ made' = [c \in Codes |-> IF c \in old THEN 0 ELSE made[c]]
       /\ UNCHANGED <<now, links, issuing, redeeming, buckets, opened, failures>>
pruneRateLimitBuckets ==
    LET old == {t \in Telegrams : buckets[t] # NoBucket /\ buckets[t].start + Retention < now}
    IN /\ old # {} /\ buckets' = [t \in Telegrams |-> IF t \in old THEN NoBucket ELSE buckets[t]]
       /\ UNCHANGED <<now, codes, links, issuing, redeeming, opened, failures, tries, made>>
OpenMiniApp(t) ==
    /\ opened[t] # now /\ opened' = [opened EXCEPT ![t] = now]
    /\ UNCHANGED <<now, codes, links, issuing, redeeming, buckets, failures, tries, made>>
Tick ==
    /\ now < MaxNow /\ now' = now + 1
    /\ UNCHANGED <<codes, links, issuing, redeeming, buckets, opened, failures, tries, made>>

-----------------------------------------------------------------------------
TelegramInit ==
    /\ now = 0 /\ codes = [c \in Codes |-> NoCode] /\ links = [u \in Members |-> Nothing]
    /\ issuing = {} /\ redeeming = [r \in Redeemers |-> NotRedeeming]
    /\ buckets = [t \in Telegrams |-> NoBucket] /\ opened = [t \in Telegrams |-> Never]
    /\ failures = 0 /\ tries = [c \in Codes |-> NoTries] /\ made = [c \in Codes |-> 0]

TelegramNext ==
    \/ \E u \in Members : AskCode(u) \/ Unlink(u) \/ \E c \in Codes : InsertCode(u, c)
    \/ \E r \in Redeemers : \/ CheckLink(r) \/ Consume(r) \/ InsertLink(r) \/ InsertFails(r) \/ Unconsume(r) \/ RequestDies(r)
                            \/ \E t \in Telegrams, c \in Codes \cup {Nothing} : Attempt(r, t, c)
    \/ \E t \in Telegrams : OpenMiniApp(t) \/ MiniAppUnlinks(t)
    \/ pruneTelegramLinkCodes \/ pruneRateLimitBuckets \/ Tick

TelegramSpec == TelegramInit /\ [][TelegramNext]_telegramVars

-----------------------------------------------------------------------------
(* Properties *)

\* A code links one Telegram account once ("single-use": telegram-link-code.js), whatever is redeemed at the
\* same time, unlinked in between or put back after a failed insert; and while a code can be redeemed no
\* Telegram account gets to try more codes than fit in the two windows that its life can meet.
\* (api/telegram/link.js, check_rate_limit.)
CodesAreSingleUse ==
    \A c \in Codes : made[c] <= 1 /\ \A t \in Telegrams : tries[c][t] <= 2 * LIMIT
=============================================================================
