------------------------------ MODULE LeasePool ------------------------------
(***************************************************************************)
(* The ephemeral lease pool of ADR-0003: the tables node_lease_slots,      *)
(* vpn_leases and devices.status, the RPCs lease_route_slots,              *)
(* revoke_device_leases and agent_sync_lease_slots that change them, and   *)
(* the node agents that mint, enforce, extend and rotate the credentials.  *)
(*                                                                         *)
(* One unit of the clock is a few minutes: a transaction, an agent poll    *)
(* and a configuration apply all take less than one unit, so the clock     *)
(* advances only when no transaction is open and every agent has swept.    *)
(* The agent itself lives in another repository; its actions are written   *)
(* from what sync.js and the RPC accept from it and answer to it.          *)
(***************************************************************************)
EXTENDS Integers, Sequences, FiniteSets, FiniteSetsExt

CONSTANTS
    Nodes, Slots, Devices, Accounts, Routes, Keys,
    AccountOf,      \* [Devices -> Accounts]
    Hops,           \* [Routes -> the node ids of the route, in hop order]
    Grid, Life,     \* [Nodes -> Nat]: rotation_batch_interval, slot_lifetime
    PolicyNodes,    \* nodes whose agent sends its policy with every sync
    DefaultGrid, DefaultLife,                 \* what SQL coalesces to (600, 1800)
    MinRemaining, RenewLength, RenewLead,     \* LEASE_LIMITS of vpn-authorize.js
    DeviceLimit, AccountLimit, Window,
    MaxLate,        \* bound: sync requests that are still on their way after a timeout
    MaxTime, MaxLeases, MaxResizes            \* bounds of the model

NoKey == "no key"

ASSUME Parameters ==
    /\ NoKey \notin Keys
    /\ AccountOf \in [Devices -> Accounts]
    /\ Hops \in [Routes -> Seq(Nodes)]
    /\ \A r \in Routes : Len(Hops[r]) \in 1..2
    /\ \A r \in Routes : \A i, j \in DOMAIN Hops[r] : Hops[r][i] = Hops[r][j] => i = j
    /\ Grid \in [Nodes -> Nat \ {0}] /\ Life \in [Nodes -> Nat \ {0}]
    /\ PolicyNodes \subseteq Nodes
    /\ DefaultGrid \in Nat \ {0} /\ DefaultLife \in Nat \ {0}
    /\ MinRemaining \in Nat \ {0}
    /\ {RenewLength, RenewLead, Window} \subseteq Nat
    /\ {DeviceLimit, AccountLimit, MaxLate, MaxTime, MaxLeases, MaxResizes} \subseteq Nat

\* A minted slot always has time left when it is minted (ADR-0003 clamps the lifetime so).
ASSUME LifetimeCoversGrid == \A n \in Nodes : Life[n] >= Grid[n]

VARIABLES
    now,        \* the shared clock
    status,     \* [Devices -> {"ACTIVE", "REVOKED"}]: devices.status
    revokedAt,  \* devices.revoked_at (0 while ACTIVE)
    purged,     \* history: revoked devices whose revoke_device_leases has returned
    slots,      \* node_lease_slots, by node and slot
    leases,     \* vpn_leases; a lease_id is an index
    txns,       \* lease_route_slots calls past their checks, holding the device lock
    pool,       \* [Nodes -> SUBSET Slots]: the slots the node serves
    local,      \* the agent's lease table, by node and slot
    lastRotation, \* when the node last applied a rotation
    answer,     \* the answer to the agent's sync call, from its commit until it is read
    late,       \* sync requests the agents gave up on that may still arrive
    resizes     \* how often a pool was resized

dbVars == <<status, revokedAt, purged, slots, leases, txns>>
agentVars == <<pool, local, lastRotation, answer, late, resizes>>
vars == <<now, dbVars, agentVars>>

-----------------------------------------------------------------------------
(* Types *)

Credential == [node : Nodes, slot : Slots, generation : Nat]

\* A row of node_lease_slots.  Generations start at 1; 0 stands for "no row".
Row == [generation : Nat, validUntil : Nat, state : {"absent", "active", "leased", "revoked"},
        lease : Nat, extendTo : Nat, urgent : BOOLEAN]
NoRow == [generation |-> 0, validUntil |-> 0, state |-> "absent",
          lease |-> 0, extendTo |-> 0, urgent |-> FALSE]

Lease == [device : Devices, route : Routes, key : Keys \cup {NoKey}, hops : Seq(Credential),
          expires : Nat, revoked : BOOLEAN, created : Nat]

Request == [device : Devices, route : Routes, key : Keys \cup {NoKey}]

\* What the agent knows of its own slot.  "unsent": never reported; "sent": reported,
\* nothing to do; the rest are reasons to rotate it.
Flag == {"unsent", "sent", "unleased", "revoked", "urgent"}
Local == [generation : Nat, validUntil : Nat, flag : Flag]

\* The body of a sync request, slot by slot; generation 0: the slot is not in the pool.
\* Whether it carried the secrets is decided when it arrives.
Item == [generation : Nat, validUntil : Nat]
Report == [node : Nodes, items : [Slots -> Item]]

\* The answer to a sync call: the node's rows when it committed, at time asOf.
RowView == [generation : Nat, state : {"absent", "active", "leased", "revoked"},
            extendTo : Nat, urgent : BOOLEAN]
Answer == [open : BOOLEAN, asOf : Nat, view : [Slots -> RowView]]
NoAnswer == [open |-> FALSE, asOf |-> 0,
             view |-> [s \in Slots |-> [generation |-> 0, state |-> "absent",
                                        extendTo |-> 0, urgent |-> FALSE]]]

TypeOK ==
    /\ now \in Nat
    /\ status \in [Devices -> {"ACTIVE", "REVOKED"}]
    /\ revokedAt \in [Devices -> Nat]
    /\ purged \subseteq Devices
    /\ slots \in [Nodes -> [Slots -> Row]]
    /\ leases \in Seq(Lease)
    /\ txns \subseteq Request
    /\ pool \in [Nodes -> SUBSET Slots]
    /\ local \in [Nodes -> [Slots -> Local]]
    /\ lastRotation \in [Nodes -> Nat]
    /\ answer \in [Nodes -> Answer]
    /\ late \subseteq Report
    /\ resizes \in Nat

-----------------------------------------------------------------------------
(* Time on a node's rotation grid *)

FloorTo(t, grid) == (t \div grid) * grid

\* The end the agent gives a generation it mints at t.
MintedUntil(n, t) == FloorTo(t + Life[n], Grid[n])

\* The policy the database knows; the defaults stand in for an agent that sends none.
PolicyGrid(n) == IF n \in PolicyNodes THEN Grid[n] ELSE DefaultGrid
PolicyLife(n) == IF n \in PolicyNodes THEN Life[n] ELSE DefaultLife

\* The end a hop on n may be extended to by a renewal at t.
HopTarget(n, t) == FloorTo(t + Min({RenewLength, PolicyLife(n)}), PolicyGrid(n))
RenewalTarget(r, t) == Min({HopTarget(Hops[r][i], t) : i \in DOMAIN Hops[r]})

-----------------------------------------------------------------------------
(* Reading the tables *)

\* The slot row of this hop is still leased by lease i at the leased generation.
HopHeld(i, h) ==
    /\ slots[h.node][h.slot].generation = h.generation
    /\ slots[h.node][h.slot].lease = i
    /\ slots[h.node][h.slot].state = "leased"
Intact(i) == \A j \in DOMAIN leases[i].hops : HopHeld(i, leases[i].hops[j])

Of(i, d, r) == leases[i].device = d /\ leases[i].route = r

\* lease_route_slots answers a retry of a live lease from the tables and writes nothing.
\* The idempotency key hashes (device, route, request id), so a key never meets another
\* device's or route's lease and the "conflict" answer cannot be given.
Replayable(d, r, k) ==
    /\ k # NoKey
    /\ \E i \in DOMAIN leases :
          /\ Of(i, d, r) /\ leases[i].key = k
          /\ ~leases[i].revoked /\ leases[i].expires > now
          /\ Intact(i)

\* A key found on a lease that cannot be replayed is released for the retry.
ReleaseKey(d, r, k) ==
    [i \in DOMAIN leases |->
        IF k # NoKey /\ Of(i, d, r) /\ leases[i].key = k
        THEN [leases[i] EXCEPT !.key = NoKey] ELSE leases[i]]

\* The lease a renewal looks at: the device's latest-ending one on the route ...
Candidates(d, r) ==
    {i \in DOMAIN leases : Of(i, d, r) /\ ~leases[i].revoked /\ leases[i].expires > now + RenewLead}
Latest(i, d, r) ==
    i \in Candidates(d, r) /\ \A j \in Candidates(d, r) : leases[j].expires <= leases[i].expires
\* ... which is extended only if every slot is still leased by it.
Renewable(i, d, r) == Latest(i, d, r) /\ Intact(i)

\* Mutant: no advisory lock.
Locked_Never(d) == FALSE
Locked(d) == \E t \in txns : t.device = d

Recent(i) == leases[i].created + Window > now
UnderLimits(d) ==
    /\ Cardinality({i \in DOMAIN leases : leases[i].device = d /\ Recent(i)}) < DeviceLimit
    /\ Cardinality({i \in DOMAIN leases :
                       AccountOf[leases[i].device] = AccountOf[d] /\ Recent(i)}) < AccountLimit

\* Mutant: any unexpired slot is handed out.
Leasable_NoMargin(n, s) ==
    slots[n][s].state = "active" /\ slots[n][s].validUntil >= now

Leasable(n, s) ==
    slots[n][s].state = "active" /\ slots[n][s].validUntil >= now + MinRemaining

-----------------------------------------------------------------------------
(* lease_route_slots.  It runs under the device's advisory lock; the steps    *)
(* below are its statements that other transactions can come between.         *)

\* Mutant: the device's status is not checked again under the lock.
MayAuthorize_NoRecheck(d, r, k) == ~Locked(d) /\ ~Replayable(d, r, k)
MayAuthorize(d, r, k) == ~Locked(d) /\ status[d] = "ACTIVE" /\ ~Replayable(d, r, k)

\* Mutant: the slots learn of the extension, the lease row does not.
Renew_SlotsOnly(d, r, k) ==
    /\ MayAuthorize(d, r, k)
    /\ \E i \in DOMAIN leases :
          /\ Renewable(i, d, r)
          /\ slots' = [n \in Nodes |-> [s \in Slots |->
                 IF \E j \in DOMAIN leases[i].hops :
                        leases[i].hops[j].node = n /\ leases[i].hops[j].slot = s
                 THEN [slots[n][s] EXCEPT !.extendTo = RenewalTarget(r, now)]
                 ELSE slots[n][s]]]
    /\ UNCHANGED <<now, status, revokedAt, purged, leases, txns, agentVars>>

\* Extends the live lease in place: no slot is taken, the credentials stay the same.
Renew(d, r, k) ==
    /\ MayAuthorize(d, r, k)
    /\ \E i \in DOMAIN leases :
          /\ Renewable(i, d, r)
          /\ LET target == RenewalTarget(r, now)
                 longer == target > leases[i].expires
                 hops   == leases[i].hops
             IN /\ leases' = [ReleaseKey(d, r, k) EXCEPT
                                 ![i].expires = IF longer THEN target ELSE @,
                                 ![i].key = IF k = NoKey THEN @ ELSE k]
                /\ slots' = [n \in Nodes |-> [s \in Slots |->
                       IF longer /\ \E j \in DOMAIN hops : hops[j].node = n /\ hops[j].slot = s
                       THEN [slots[n][s] EXCEPT !.extendTo = target]
                       ELSE slots[n][s]]]
    /\ UNCHANGED <<now, status, revokedAt, purged, txns, agentVars>>

\* Nothing to renew (there is no live lease, or the one that was looked at has lost a slot):
\* count the recent leases, and go on if both counts are under the limit.
\* The count of the account is not protected by the device's lock.
StartLease(d, r, k) ==
    /\ MayAuthorize(d, r, k)
    /\ Candidates(d, r) = {} \/ \E i \in DOMAIN leases : Latest(i, d, r) /\ ~Intact(i)
    /\ leases' = ReleaseKey(d, r, k)
    /\ txns' = IF UnderLimits(d) THEN txns \cup {[device |-> d, route |-> r, key |-> k]} ELSE txns
    /\ UNCHANGED <<now, status, revokedAt, purged, slots, agentVars>>

\* A lease over these slot ends is over at the earliest of them.
LeaseEnd(ends) == Min(ends)

\* Takes one leasable slot on every hop.  The statement prefers the longest-lived slot but
\* skips rows that other transactions have locked, so any leasable slot may be the one.
FinishLease(t) ==
    /\ t \in txns
    /\ Len(leases) < MaxLeases
    /\ \E pick \in [DOMAIN Hops[t.route] -> Slots] :
          LET node(i) == Hops[t.route][i]
              hop(i)  == [node |-> node(i), slot |-> pick[i],
                          generation |-> slots[node(i)][pick[i]].generation]
              ends    == {slots[node(i)][pick[i]].validUntil : i \in DOMAIN pick}
          IN /\ \A i \in DOMAIN pick : Leasable(node(i), pick[i])
             /\ leases' = Append(leases,
                    [device |-> t.device, route |-> t.route, key |-> t.key,
                     hops |-> [i \in DOMAIN Hops[t.route] |-> hop(i)],
                     expires |-> LeaseEnd(ends), revoked |-> FALSE, created |-> now])
             /\ slots' = [n \in Nodes |-> [s \in Slots |->
                    IF \E i \in DOMAIN pick : node(i) = n /\ pick[i] = s
                    THEN [slots[n][s] EXCEPT !.state = "leased", !.lease = Len(leases) + 1]
                    ELSE slots[n][s]]]
    /\ txns' = txns \ {t}
    /\ UNCHANGED <<now, status, revokedAt, purged, agentVars>>

\* Some hop has no leasable slot that is not locked, or the transaction dies: nothing is written.
Exhausted(t) ==
    /\ t \in txns
    /\ txns' = txns \ {t}
    /\ UNCHANGED <<now, status, revokedAt, purged, slots, leases, agentVars>>

-----------------------------------------------------------------------------
(* Revoking a device: revokeDevice flips the status, then calls the RPC.      *)
(* A crash between the two is a second step that never comes.                 *)

\* Mutant: the status word of another table.
RevokeDevice_Misspelt(d) ==
    /\ status[d] = "ACTIVE"
    /\ status' = [status EXCEPT ![d] = "DISABLED"]
    /\ revokedAt' = [revokedAt EXCEPT ![d] = now]
    /\ UNCHANGED <<now, purged, slots, leases, txns, agentVars>>

RevokeDevice(d) ==
    /\ status[d] = "ACTIVE"
    /\ status' = [status EXCEPT ![d] = "REVOKED"]
    /\ revokedAt' = [revokedAt EXCEPT ![d] = now]
    /\ UNCHANGED <<now, purged, slots, leases, txns, agentVars>>

LiveLeases(d) ==
    {i \in DOMAIN leases : leases[i].device = d /\ ~leases[i].revoked /\ leases[i].expires > now}

\* revoke_device_leases, called by revokeDevice (or its retry) once the device is REVOKED.
RevokeLeases(d, urgent) ==
    /\ status[d] = "REVOKED"
    /\ ~Locked(d)
    /\ leases' = [i \in DOMAIN leases |->
                     IF i \in LiveLeases(d) THEN [leases[i] EXCEPT !.revoked = TRUE] ELSE leases[i]]
    /\ slots' = [n \in Nodes |-> [s \in Slots |->
                     IF slots[n][s].state = "leased" /\ slots[n][s].lease \in LiveLeases(d)
                     THEN [slots[n][s] EXCEPT !.state = "revoked", !.urgent = urgent]
                     ELSE slots[n][s]]]
    /\ purged' = purged \cup {d}
    /\ UNCHANGED <<now, status, revokedAt, txns, agentVars>>

-----------------------------------------------------------------------------
(* agent_sync_lease_slots *)

Fresh(item) == [generation |-> item.generation, validUntil |-> item.validUntil,
                state |-> "active", lease |-> 0, extendTo |-> 0, urgent |-> FALSE]

\* Mutant: an older generation replaces a newer one.
SyncedRow_Backwards(row, item, secrets) ==
    IF item.generation = 0 THEN NoRow
    ELSE IF item.generation = row.generation
    THEN [row EXCEPT !.validUntil = Max({@, item.validUntil})]
    ELSE IF ~secrets THEN row
    ELSE Fresh(item)

\* Mutant: a generation that is already stored is stored again, as active.
SyncedRow_Reset(row, item, secrets) ==
    IF item.generation = 0 THEN NoRow
    ELSE IF item.generation < row.generation \/ ~secrets THEN row
    ELSE Fresh(item)

\* The row after the report: never an older generation, a later end for the same one, a
\* newer one only with its secret; a slot that is not reported is deleted.
SyncedRow(row, item, secrets) ==
    IF item.generation = 0 THEN NoRow
    ELSE IF item.generation = row.generation
    THEN [row EXCEPT !.validUntil = Max({@, item.validUntil})]
    ELSE IF item.generation < row.generation \/ ~secrets THEN row
    ELSE Fresh(item)

SyncedSlots(n, items, secrets) ==
    [slots EXCEPT ![n] = [s \in Slots |-> SyncedRow(slots[n][s], items[s], secrets)]]

-----------------------------------------------------------------------------
(* The node agent's poll: report the pool, read the answer, sweep.  The agent *)
(* waits for its call, so sending the request and its commit are one step.    *)

\* The full pool, as the agent reports it; from then on the slots count as reported.
Items(n) ==
    [s \in Slots |-> IF s \in pool[n]
                     THEN [generation |-> local[n][s].generation,
                           validUntil |-> local[n][s].validUntil]
                     ELSE [generation |-> 0, validUntil |-> 0]]
Reported(n) ==
    [local EXCEPT ![n] = [s \in Slots |->
        IF s \in pool[n] /\ local[n][s].flag = "unsent"
        THEN [local[n][s] EXCEPT !.flag = "sent"] ELSE local[n][s]]]

\* A sync call commits.  It carries the secrets or not (need_secret asks for them).
Sync(n, secrets) ==
    /\ ~answer[n].open
    /\ slots' = SyncedSlots(n, Items(n), secrets)
    /\ answer' = [answer EXCEPT ![n] =
          [open |-> TRUE, asOf |-> now,
           view |-> [s \in Slots |-> [generation |-> slots'[n][s].generation,
                                      state |-> slots'[n][s].state,
                                      extendTo |-> slots'[n][s].extendTo,
                                      urgent |-> slots'[n][s].urgent]]]]
    /\ local' = Reported(n)
    /\ UNCHANGED <<now, status, revokedAt, purged, leases, txns, pool, lastRotation, late, resizes>>

\* The call times out although its request is still on its way ...
TimeOut(n) ==
    /\ ~answer[n].open
    /\ Cardinality(late) < MaxLate
    /\ late' = late \cup {[node |-> n, items |-> Items(n)]}
    /\ local' = Reported(n)
    /\ UNCHANGED <<now, dbVars, pool, lastRotation, answer, resizes>>

\* ... and commits after all; nobody reads the answer.
LateSync(rep, secrets) ==
    /\ rep \in late
    /\ slots' = SyncedSlots(rep.node, rep.items, secrets)
    /\ late' = late \ {rep}
    /\ UNCHANGED <<now, status, revokedAt, purged, leases, txns,
                   pool, local, lastRotation, answer, resizes>>

\* The request committed, but its answer is lost.
LoseAnswer(n) ==
    /\ answer[n].open
    /\ answer' = [answer EXCEPT ![n] = NoAnswer]
    /\ UNCHANGED <<now, dbVars, pool, local, lastRotation, late, resizes>>

\* An extension is adopted on the node's own grid and within its own lifetime, never
\* backwards, and only for a leased generation that has not expired.
Adopted(n, mine, row) ==
    IF row.state = "leased" /\ row.extendTo > 0 /\ mine.validUntil > now
    THEN Max({mine.validUntil, Min({FloorTo(row.extendTo, Grid[n]), MintedUntil(n, now)})})
    ELSE mine.validUntil

\* Mutant: "active" in any snapshot counts as never leased.
Verdict_AnyActive(mine, row, asOf) ==
    CASE row.state = "revoked" /\ row.urgent  -> "urgent"
      [] row.state = "revoked" /\ ~row.urgent -> "revoked"
      [] row.state = "active" -> "unleased"
      [] OTHER -> mine.flag

\* Revoked, or active in a snapshot taken after the slot could last be leased.
Verdict(mine, row, asOf) ==
    CASE row.state = "revoked" /\ row.urgent  -> "urgent"
      [] row.state = "revoked" /\ ~row.urgent -> "revoked"
      [] row.state = "active" /\ mine.validUntil < asOf + MinRemaining -> "unleased"
      [] OTHER -> mine.flag

ReadAnswer(n) ==
    /\ answer[n].open
    /\ local' = [local EXCEPT ![n] = [s \in Slots |->
          LET mine == local[n][s]
              row  == answer[n].view[s]
          IN IF s \in pool[n] /\ row.generation = mine.generation
             THEN [mine EXCEPT !.validUntil = Adopted(n, mine, row),
                               !.flag = Verdict(mine, row, answer[n].asOf)]
             ELSE mine]]
    /\ answer' = [answer EXCEPT ![n] = NoAnswer]
    /\ UNCHANGED <<now, dbVars, pool, lastRotation, late, resizes>>

Expired(n, s) == s \in pool[n] /\ local[n][s].validUntil <= now
Immediate(n) == {s \in pool[n] : Expired(n, s) \/ local[n][s].flag = "urgent"}
Deferred(n) ==
    {s \in pool[n] : \/ local[n][s].flag \in {"revoked", "unleased"}
                     \/ local[n][s].flag = "unsent" /\ local[n][s].validUntil < now + MinRemaining}
\* A grid boundary has passed since the last rotation.
BatchDue(n) == FloorTo(now, Grid[n]) > lastRotation[n]
SweepDue(n) == Immediate(n) # {} \/ (Deferred(n) # {} /\ BatchDue(n))

\* One poll's rotation: a new secret and generation for everything that waits, one apply.
Sweep(n) ==
    /\ ~answer[n].open
    /\ SweepDue(n)
    /\ local' = [local EXCEPT ![n] = [s \in Slots |->
          IF s \in Immediate(n) \cup Deferred(n)
          THEN [generation |-> local[n][s].generation + 1,
                validUntil |-> MintedUntil(n, now), flag |-> "unsent"]
          ELSE local[n][s]]]
    /\ lastRotation' = [lastRotation EXCEPT ![n] = now]
    /\ UNCHANGED <<now, dbVars, pool, answer, late, resizes>>

\* lease_pool_size is changed: dropped slots stop working, added ones are minted anew.
Resize(n, P) ==
    /\ resizes < MaxResizes
    /\ P # pool[n]
    /\ resizes' = resizes + 1
    /\ pool' = [pool EXCEPT ![n] = P]
    /\ local' = [local EXCEPT ![n] = [s \in Slots |->
          IF s \in P \ pool[n]
          THEN [generation |-> local[n][s].generation + 1,
                validUntil |-> MintedUntil(n, now), flag |-> "unsent"]
          ELSE local[n][s]]]
    /\ lastRotation' = [lastRotation EXCEPT ![n] = now]
    /\ UNCHANGED <<now, dbVars, answer, late>>

Tick ==
    /\ now < MaxTime
    /\ txns = {}
    /\ \A n \in Nodes : ~SweepDue(n)
    /\ now' = now + 1
    /\ UNCHANGED <<dbVars, agentVars>>

-----------------------------------------------------------------------------
Init ==
    /\ now = 0
    /\ status = [d \in Devices |-> "ACTIVE"]
    /\ revokedAt = [d \in Devices |-> 0]
    /\ purged = {}
    /\ slots = [n \in Nodes |-> [s \in Slots |-> NoRow]]
    /\ leases = << >>
    /\ txns = {}
    /\ pool \in [Nodes -> IF MaxResizes = 0 THEN {Slots} ELSE (SUBSET Slots) \ {{}}]
    /\ local = [n \in Nodes |-> [s \in Slots |->
                  IF s \in pool[n]
                  THEN [generation |-> 1, validUntil |-> MintedUntil(n, 0), flag |-> "unsent"]
                  ELSE [generation |-> 0, validUntil |-> 0, flag |-> "unsent"]]]
    /\ lastRotation = [n \in Nodes |-> 0]
    /\ answer = [n \in Nodes |-> NoAnswer]
    /\ late = {}
    /\ resizes = 0

Authorize(d, r, k) == Renew(d, r, k) \/ StartLease(d, r, k)

Next ==
    \/ \E d \in Devices, r \in Routes, k \in Keys \cup {NoKey} : Authorize(d, r, k)
    \/ \E t \in txns : FinishLease(t) \/ Exhausted(t)
    \/ \E d \in Devices : RevokeDevice(d)
    \/ \E d \in Devices, urgent \in BOOLEAN : RevokeLeases(d, urgent)
    \/ \E n \in Nodes, secrets \in BOOLEAN : Sync(n, secrets)
    \/ \E n \in Nodes : TimeOut(n) \/ LoseAnswer(n) \/ ReadAnswer(n) \/ Sweep(n)
    \/ \E rep \in late, secrets \in BOOLEAN : LateSync(rep, secrets)
    \/ \E n \in Nodes, P \in SUBSET Slots : Resize(n, P)
    \/ Tick

Spec == Init /\ [][Next]_vars

-----------------------------------------------------------------------------
(* Properties *)

Accepts(h) == h.slot \in pool[h.node] /\ local[h.node][h.slot].generation = h.generation

\* A slot generation is leased at most once, whatever sync requests are lost, repeated or
\* late: "a slot is never leased to a second device until its secret has rotated".
OneHolder ==
    \A i, j \in DOMAIN leases : \A a \in DOMAIN leases[i].hops, b \in DOMAIN leases[j].hops :
        leases[i].hops[a] = leases[j].hops[b] => i = j

\* The part of it that devices would notice: no two of them hold one working credential.
OneLiveHolder ==
    \A i, j \in DOMAIN leases : \A a \in DOMAIN leases[i].hops, b \in DOMAIN leases[j].hops :
        leases[i].hops[a] = leases[j].hops[b] /\ Accepts(leases[i].hops[a])
            => leases[i].device = leases[j].device

\* The two tables agree: a row that is not free names a lease that has it as a hop, is
\* revoked exactly when that lease is, and is never extended past that lease's end.
TablesAgree ==
    \A n \in Nodes, s \in Slots :
        LET row == slots[n][s]
        IN row.state \in {"leased", "revoked"} =>
              /\ row.lease \in DOMAIN leases
              /\ [node |-> n, slot |-> s, generation |-> row.generation]
                     \in {leases[row.lease].hops[j] : j \in DOMAIN leases[row.lease].hops}
              /\ row.state = "revoked" <=> leases[row.lease].revoked
              /\ row.extendTo <= leases[row.lease].expires

\* No "authorized but cannot connect yet": what authorize may hand out works on its node now,
\* although the node rotates slots on its own and the table hears of it later.
LeasableIsLive ==
    \A n \in Nodes, s \in Slots :
        Leasable(n, s) => Accepts([node |-> n, slot |-> s, generation |-> slots[n][s].generation])

\* expires_at is a real end of the route: at some hop the node enforces no later one.
RouteEndsByExpiry ==
    \A i \in DOMAIN leases : \E j \in DOMAIN leases[i].hops :
        LET h == leases[i].hops[j]
        IN Accepts(h) => local[h.node][h.slot].validUntil <= leases[i].expires

\* A revoked device loses every hop within one slot lifetime (or renewal length) of the
\* revocation, even if revoke_device_leases never ran and the node hears nothing.
CutOffAfterRevocation ==
    \A i \in DOMAIN leases : \A j \in DOMAIN leases[i].hops :
        LET h == leases[i].hops[j]
            d == leases[i].device
        IN (status[d] = "REVOKED" /\ Accepts(h))
              => local[h.node][h.slot].validUntil <= revokedAt[d] + Max({Life[h.node], RenewLength})

\* Once revoke_device_leases has returned for a REVOKED device it has no live lease, and
\* never gets one again: no authorize that raced the revocation slips through.
RevocationIsComplete == \A d \in purged : LiveLeases(d) = {}

\* No slot is spent while a renewal would do: whoever is about to take slots for a device has no
\* live lease on that route to extend, whatever other calls the device made in the meantime.
NoSlotWasted ==
    \A t \in txns :
        \/ Candidates(t.device, t.route) = {}
        \/ \E i \in DOMAIN leases : Latest(i, t.device, t.route) /\ ~Intact(i)

\* The rows of the pool, the leases and the calls under way tell the same story.
LeasesAgree == TablesAgree /\ NoSlotWasted

\* The node never rotates a credential under a lease that is not revoked before the end
\* it was told for that credential: "never leased" is never concluded from an old answer.
NoEarlyRotation ==
    [][\A n \in Nodes : \A s \in pool[n] :
          local'[n][s].generation # local[n][s].generation =>
             \A i \in DOMAIN leases :
                ([node |-> n, slot |-> s, generation |-> local[n][s].generation]
                    \in {leases[i].hops[j] : j \in DOMAIN leases[i].hops}
                 /\ ~leases[i].revoked) => local[n][s].validUntil <= now]_local

\* The pool implements the exclusive grant of whole groups of credentials.
Grants ==
    [i \in DOMAIN leases |->
        [holder |-> leases[i].device,
         creds  |-> {leases[i].hops[j] : j \in DOMAIN leases[i].hops},
         end    |-> leases[i].expires,
         closed |-> leases[i].revoked]]
Abstract == INSTANCE ExclusiveLease WITH Holder <- Devices, grants <- Grants
ImplementsExclusiveLease == Abstract!Spec
=============================================================================
