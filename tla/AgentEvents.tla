------------------------------ MODULE AgentEvents ------------------------------
(***************************************************************************)
(* The long poll that wakes node agents (functions/lib/agent-events.js).   *)
(*                                                                         *)
(* An agent holds one request open with the cursor it got last; the hub    *)
(* answers it when the node's change tokens are no longer the cursor's.    *)
(* One watcher loop reads the tokens of all nodes that wait.  JavaScript   *)
(* runs one piece at a time, so a step here is what happens between two    *)
(* awaits; a database read is a step of its own.  A token counts its       *)
(* changes: wake stands for the tokens of jobs, authorizations and leases, *)
(* ent for the entitlements', which are read less often.                   *)
(***************************************************************************)
EXTENDS Integers

CONSTANTS
    Agents,        \* the nodes
    Polls, Loops,  \* requests, and runs of the watcher loop, that can be in progress
    MaxTokens,     \* bound: changes of each token
    OverlappingPolls,       \* two polls of one node may both be before their first answer from the database
    PromptReads    \* no read takes longer than intervalMs

Nobody == "nobody"
ASSUME EventParameters ==
    MaxTokens \in Nat /\ OverlappingPolls \in BOOLEAN /\ PromptReads \in BOOLEAN /\ Nobody \notin Polls

VARIABLES
    tokens,    \* [Agents -> Token]: the tokens in the database
    aged,      \* ... and as they were an intervalMs ago
    current,   \* the hub's map of the tokens read last
    fresh,     \* nodes whose fetchedAt is less than intervalMs ago
    entFresh,  \* lastEntitlementAt is less than entitlementIntervalMs ago
    waiters,   \* the hub's map from a node to the request that waits
    timer,     \* the next run of the loop is scheduled
    loops,     \* [Loops -> ...]
    polls,     \* [Polls -> ...]
    cursors    \* [Agents -> Token]: what each agent got last

eventVars == <<tokens, aged, current, fresh, entFresh, waiters, timer, loops, polls, cursors>>
tokenCache == <<current, fresh, entFresh>>

Token == [wake : 0..MaxTokens, ent : 0..MaxTokens]
NoToken == [wake |-> -1, ent |-> -1]
Poll == [pc : {"idle", "reading", "read", "waiting"}, agent : Agents \cup {Nobody}, cursor : Token \cup {NoToken},
         withEnt : BOOLEAN, row : Token \cup {NoToken}, aged : 0..MaxTokens]
NoPoll == [pc |-> "idle", agent |-> Nobody, cursor |-> NoToken, withEnt |-> FALSE, row |-> NoToken, aged |-> 0]
Loop == [pc : {"idle", "reading", "read"}, ids : SUBSET Agents, withEnt : BOOLEAN, rows : [Agents -> Token \cup {NoToken}]]
NoLoop == [pc |-> "idle", ids |-> {}, withEnt |-> FALSE, rows |-> [n \in Agents |-> NoToken]]

EventTypeOK ==
    /\ tokens \in [Agents -> Token] /\ aged \in [Agents -> Token]
    /\ current \in [Agents -> Token \cup {NoToken}] /\ cursors \in [Agents -> Token \cup {NoToken}]
    /\ fresh \subseteq Agents /\ entFresh \in BOOLEAN
    /\ waiters \in [Agents -> Polls \cup {Nobody}] /\ timer \in BOOLEAN
    /\ loops \in [Loops -> Loop] /\ polls \in [Polls -> Poll]

-----------------------------------------------------------------------------
Waiting == {n \in Agents : waiters[n] # Nobody}
Merged(old, row, withEnt) == [wake |-> row.wake, ent |-> IF withEnt THEN row.ent ELSE old.ent]

\* The requests of the nodes ns are answered; with a token, the agents take it for their cursor.
Settle(ns, new) ==
    /\ polls' = [p \in Polls |-> IF \E n \in ns : waiters[n] = p THEN NoPoll ELSE polls[p]]
    /\ waiters' = [n \in Agents |-> IF n \in ns THEN Nobody ELSE waiters[n]]
    /\ cursors' = [n \in Agents |-> IF n \in ns THEN new[n] ELSE cursors[n]]

\* refresh, when the rows are there.
Refreshed(ids, rows, withEnt) ==
    /\ current' = [n \in Agents |-> IF n \in ids THEN Merged(current[n], rows[n], withEnt) ELSE current[n]]
    /\ fresh' = fresh \cup ids
    /\ entFresh' = (entFresh \/ withEnt)

\* The end of wait: an answer at once, or the poll takes the node's place, whoever had it, and the loop goes on.
Decide(p, n, cursor, was) ==
    LET now == current'[n]
    IN IF cursor # now
       THEN /\ polls' = [polls EXCEPT ![p] = NoPoll] /\ cursors' = [cursors EXCEPT ![n] = now]
            /\ UNCHANGED <<waiters, timer>>
       ELSE /\ polls' = [polls EXCEPT ![p] = [NoPoll EXCEPT !.pc = "waiting", !.agent = n, !.cursor = cursor, !.aged = was]]
            /\ waiters' = [waiters EXCEPT ![n] = p] /\ timer' = TRUE
            /\ UNCHANGED cursors

\* As if the rows the hub has were always good enough to compare with.
Stalled_Never(n) == FALSE
Stalled(n) == n \notin fresh

\* wait(), up to its await; the request that waited for the node is answered ("superseded") before.
Wait(p, n, cursor) ==
    LET known == cursor # NoToken
        old == waiters[n]
    IN /\ polls[p].pc = "idle" /\ cursor \in {cursors[n], NoToken}
       /\ ~OverlappingPolls => \A q \in Polls : polls[q].pc \in {"reading", "read"} => polls[q].agent # n
       /\ current[n] = NoToken \/ ~known \/ Stalled(n)
       /\ polls' = [q \in Polls |->
              IF q = old THEN NoPoll
              ELSE IF q = p
                   THEN [NoPoll EXCEPT !.pc = "reading", !.agent = n, !.cursor = cursor, !.aged = aged[n].wake,
                                       !.withEnt = current[n] = NoToken \/ ~known \/ ~entFresh]
                   ELSE polls[q]]
       /\ waiters' = [waiters EXCEPT ![n] = Nobody]
       /\ UNCHANGED <<tokens, aged, tokenCache, timer, loops, cursors>>
\* Without an await the old request is answered and the new one decided in one go.
WaitAtOnce(p, n) ==
    LET cursor == cursors[n]
        now == current[n]
        rest == IF waiters[n] = Nobody THEN polls ELSE [polls EXCEPT ![waiters[n]] = NoPoll]
    IN /\ polls[p].pc = "idle" /\ now # NoToken /\ cursor # NoToken /\ ~Stalled(n)
       /\ ~OverlappingPolls => \A q \in Polls : polls[q].pc \in {"reading", "read"} => polls[q].agent # n
       /\ polls' = IF cursor # now THEN rest
                   ELSE [rest EXCEPT ![p] = [NoPoll EXCEPT !.pc = "waiting", !.agent = n, !.cursor = cursor, !.aged = aged[n].wake]]
       /\ waiters' = [waiters EXCEPT ![n] = IF cursor # now THEN Nobody ELSE p]
       /\ cursors' = [cursors EXCEPT ![n] = now]
       /\ timer' = (timer \/ cursor = now)
       /\ UNCHANGED <<tokens, aged, tokenCache, loops>>
WaitReads(p) ==
    /\ polls[p].pc = "reading"
    /\ polls' = [polls EXCEPT ![p].pc = "read", ![p].row = tokens[polls[p].agent]]
    /\ UNCHANGED <<tokens, aged, tokenCache, waiters, timer, loops, cursors>>
\* 503.
WaitFails(p) ==
    /\ polls[p].pc = "reading"
    /\ polls' = [polls EXCEPT ![p] = NoPoll]
    /\ UNCHANGED <<tokens, aged, tokenCache, waiters, timer, loops, cursors>>
WaitResumes(p) ==
    LET n == polls[p].agent
    IN /\ polls[p].pc = "read"
       /\ Refreshed({n}, [a \in Agents |-> polls[p].row], polls[p].withEnt)
       /\ Decide(p, n, polls[p].cursor, polls[p].aged)
       /\ UNCHANGED <<tokens, aged, loops>>

\* The request's expiry, or its client going away, settles whichever request waits for the node.
Expire(p) ==
    /\ polls[p].pc = "waiting" /\ waiters[polls[p].agent] # Nobody
    /\ Settle({polls[p].agent}, [n \in Agents |-> polls[p].cursor])
    /\ UNCHANGED <<tokens, aged, tokenCache, timer, loops>>

-----------------------------------------------------------------------------
(* The watcher loop *)

TickFires(l) ==
    /\ timer /\ loops[l].pc = "idle"
    /\ timer' = FALSE
    /\ loops' = [loops EXCEPT ![l] = IF Waiting = {} THEN NoLoop
                                      ELSE [NoLoop EXCEPT !.pc = "reading", !.ids = Waiting, !.withEnt = ~entFresh]]
    /\ UNCHANGED <<tokens, aged, tokenCache, waiters, polls, cursors>>
TickReads(l) ==
    /\ loops[l].pc = "reading"
    /\ loops' = [loops EXCEPT ![l].pc = "read", ![l].rows = [n \in Agents |-> IF n \in loops[l].ids THEN tokens[n] ELSE NoToken]]
    /\ UNCHANGED <<tokens, aged, tokenCache, waiters, timer, polls, cursors>>
\* evaluate answers every request whose cursor is not current; who still waits gets another run.
TickEnds(l) ==
    LET changed == {n \in Waiting : current'[n] # polls[waiters[n]].cursor}
    IN /\ loops[l].pc = "read" /\ loops' = [loops EXCEPT ![l] = NoLoop]
       /\ Refreshed(loops[l].ids, loops[l].rows, loops[l].withEnt)
       /\ Settle(changed, current')
       /\ timer' = (timer \/ Waiting \ changed # {})
       /\ UNCHANGED <<tokens, aged>>
TickFails(l) ==
    /\ loops[l].pc = "reading" /\ loops' = [loops EXCEPT ![l] = NoLoop]
    /\ timer' = (timer \/ Waiting # {})
    /\ UNCHANGED <<tokens, aged, tokenCache, waiters, polls, cursors>>

-----------------------------------------------------------------------------
(* The database and the clock *)

WakeChanges(n) ==
    /\ tokens[n].wake < MaxTokens /\ tokens' = [tokens EXCEPT ![n].wake = @ + 1]
    /\ UNCHANGED <<aged, tokenCache, waiters, timer, loops, polls, cursors>>
EntChanges(n) ==
    /\ tokens[n].ent < MaxTokens /\ tokens' = [tokens EXCEPT ![n].ent = @ + 1]
    /\ UNCHANGED <<aged, tokenCache, waiters, timer, loops, polls, cursors>>
IntervalPasses ==
    /\ PromptReads => /\ \A p \in Polls : polls[p].pc # "read"
                      /\ \A l \in Loops : loops[l].pc # "read"
    /\ fresh' = {} /\ aged' = tokens
    /\ UNCHANGED <<tokens, current, entFresh, waiters, timer, loops, polls, cursors>>
EntitlementIntervalPasses ==
    /\ fresh = {} /\ entFresh' = FALSE
    /\ UNCHANGED <<tokens, aged, current, fresh, waiters, timer, loops, polls, cursors>>

-----------------------------------------------------------------------------
EventInit ==
    /\ tokens = [n \in Agents |-> [wake |-> 0, ent |-> 0]] /\ aged = tokens
    /\ current = [n \in Agents |-> NoToken] /\ cursors = current
    /\ fresh = {} /\ entFresh = FALSE
    /\ waiters = [n \in Agents |-> Nobody] /\ timer = FALSE
    /\ loops = [l \in Loops |-> NoLoop] /\ polls = [p \in Polls |-> NoPoll]

EventNext ==
    \/ \E p \in Polls, n \in Agents : WaitAtOnce(p, n) \/ \E cursor \in {cursors[n], NoToken} : Wait(p, n, cursor)
    \/ \E p \in Polls : WaitReads(p) \/ WaitFails(p) \/ WaitResumes(p) \/ Expire(p)
    \/ \E l \in Loops : TickFires(l) \/ TickReads(l) \/ TickEnds(l) \/ TickFails(l)
    \/ \E n \in Agents : WakeChanges(n) \/ EntChanges(n)
    \/ IntervalPasses \/ EntitlementIntervalPasses

EventSpec == EventInit /\ [][EventNext]_eventVars

-----------------------------------------------------------------------------
(* Properties *)

\* A request that is held open can be answered: the hub knows it, it has a run of the loop before it, and its
\* cursor was not already outdated an interval before it came, so that "timeout" never hides a change that
\* was long in the database.  (wait, schedule, tick; polls of one node that do not overlap.)
HeldIsWatched ==
    \A p \in Polls : polls[p].pc = "waiting" =>
        /\ waiters[polls[p].agent] = p
        /\ timer \/ \E l \in Loops : loops[l].pc # "idle"
        /\ polls[p].cursor.wake >= polls[p].aged
=============================================================================
