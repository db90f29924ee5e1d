-------------------------- MODULE LeasePoolProofs --------------------------
(***************************************************************************)
(* Proofs about LeasePool for every number of nodes, slots, devices and    *)
(* routes, every policy, and every number of late sync requests.           *)
(***************************************************************************)
EXTENDS LeasePool, SequenceTheorems, TLAPS

-----------------------------------------------------------------------------
(* Arithmetic of the rotation grid *)

LEMMA FloorType ==
    ASSUME NEW t \in Nat, NEW g \in Nat \ {0}
    PROVE  FloorTo(t, g) \in Nat
<1>1. t \div g \in Nat
  OBVIOUS
<1>2. QED
  BY <1>1 DEF FloorTo

LEMMA MintedType ==
    ASSUME NEW n \in Nodes, NEW t \in Nat
    PROVE  MintedUntil(n, t) \in Nat
<1>1. Life[n] \in Nat /\ Grid[n] \in Nat \ {0}
  BY Parameters
<1>2. QED
  BY <1>1, FloorType DEF MintedUntil

\* A sequence over a set as a function on 1..Len.
LEMMA SeqParts ==
    ASSUME NEW S, NEW q \in Seq(S)
    PROVE  DOMAIN q = 1..Len(q) /\ Len(q) \in Nat /\ \A i \in DOMAIN q : q[i] \in S
OBVIOUS

LEMMA MinOfTwo ==
    ASSUME NEW a \in Nat, NEW b \in Nat
    PROVE  Min({a, b}) \in {a, b} /\ Min({a, b}) <= a /\ Min({a, b}) <= b
<1>1. \E x \in {a, b} : \A y \in {a, b} : x =< y
  OBVIOUS
<1>2. Min({a, b}) \in {a, b} /\ \A y \in {a, b} : Min({a, b}) =< y
  BY <1>1 DEF Min
<1>3. QED
  BY <1>2

LEMMA MaxOfTwo ==
    ASSUME NEW a \in Nat, NEW b \in Nat
    PROVE  Max({a, b}) \in {a, b} /\ Max({a, b}) >= a /\ Max({a, b}) >= b
<1>1. \E x \in {a, b} : \A y \in {a, b} : x >= y
  OBVIOUS
<1>2. Max({a, b}) \in {a, b} /\ \A y \in {a, b} : Max({a, b}) >= y
  BY <1>1 DEF Max
<1>3. QED
  BY <1>2

\* The least of the values a function takes on one or two hops is one of them.
LEMMA LeastOverHops ==
    ASSUME NEW r \in Routes, NEW f, \A i \in DOMAIN Hops[r] : f[i] \in Nat
    PROVE  /\ Min({f[i] : i \in DOMAIN Hops[r]}) \in Nat
           /\ \A i \in DOMAIN Hops[r] : Min({f[j] : j \in DOMAIN Hops[r]}) <= f[i]
           /\ \E i \in DOMAIN Hops[r] : Min({f[j] : j \in DOMAIN Hops[r]}) = f[i]
<1> DEFINE S == {f[i] : i \in DOMAIN Hops[r]}
<1>1. DOMAIN Hops[r] = 1..1 \/ DOMAIN Hops[r] = 1..2
  <2>1. Hops[r] \in Seq(Nodes) /\ Len(Hops[r]) \in 1..2
    BY Parameters
  <2>2. DOMAIN Hops[r] = 1..Len(Hops[r])
    BY <2>1
  <2>3. Len(Hops[r]) = 1 \/ Len(Hops[r]) = 2
    BY <2>1
  <2>4. QED
    BY <2>2, <2>3
<1>2. CASE DOMAIN Hops[r] = 1..1
  <2>1. S = {f[1], f[1]} /\ f[1] \in Nat
    BY <1>2
  <2>2. Min(S) = f[1]
    BY <2>1, MinOfTwo
  <2> HIDE DEF S
  <2>3. QED
    BY <1>2, <2>1, <2>2 DEF S
<1>3. CASE DOMAIN Hops[r] = 1..2
  <2>1. S = {f[1], f[2]} /\ f[1] \in Nat /\ f[2] \in Nat
    BY <1>3
  <2>2. Min(S) \in {f[1], f[2]} /\ Min(S) <= f[1] /\ Min(S) <= f[2]
    BY <2>1, MinOfTwo
  <2>3. 1 \in DOMAIN Hops[r] /\ 2 \in DOMAIN Hops[r] /\ \A i \in DOMAIN Hops[r] : i = 1 \/ i = 2
    BY <1>3
  <2> HIDE DEF S
  <2>4. /\ Min(S) \in Nat
        /\ \A i \in DOMAIN Hops[r] : Min(S) <= f[i]
        /\ \E i \in DOMAIN Hops[r] : Min(S) = f[i]
    BY <2>1, <2>2, <2>3
  <2>5. QED
    BY <2>4 DEF S
<1>4. QED
  BY <1>1, <1>2, <1>3

LEMMA TargetType ==
    ASSUME NEW r \in Routes, NEW t \in Nat
    PROVE  RenewalTarget(r, t) \in Nat
<1>1. ASSUME NEW n \in Nodes
      PROVE  HopTarget(n, t) \in Nat
  <2>1. PolicyGrid(n) \in Nat \ {0} /\ PolicyLife(n) \in Nat
    BY Parameters DEF PolicyGrid, PolicyLife
  <2>2. RenewLength \in Nat
    BY Parameters
  <2>3. Min({RenewLength, PolicyLife(n)}) \in Nat
    BY <2>1, <2>2, MinOfTwo
  <2>4. QED
    BY <2>1, <2>3, FloorType DEF HopTarget
<1> DEFINE f == [i \in DOMAIN Hops[r] |-> HopTarget(Hops[r][i], t)]
<1>2. \A i \in DOMAIN Hops[r] : Hops[r][i] \in Nodes
  BY Parameters
<1>3. \A i \in DOMAIN Hops[r] : f[i] \in Nat
  BY <1>1, <1>2
<1>4. Min({f[i] : i \in DOMAIN Hops[r]}) \in Nat
  BY <1>3, LeastOverHops
<1>5. {f[i] : i \in DOMAIN Hops[r]} = {HopTarget(Hops[r][i], t) : i \in DOMAIN Hops[r]}
  OBVIOUS
<1>6. QED
  BY <1>4, <1>5 DEF RenewalTarget

-----------------------------------------------------------------------------
(* The table of leases as a function *)

LEMMA LeasesFunction ==
    ASSUME TypeOK
    PROVE  /\ Len(leases) \in Nat
           /\ DOMAIN leases = 1..Len(leases)
           /\ \A i \in DOMAIN leases : leases[i] \in Lease
BY DEF TypeOK

\* A map over the rows of the table is again a table of the same length.
LEMMA MapLeases ==
    ASSUME TypeOK, NEW f, f = [i \in DOMAIN leases |-> f[i]],
           \A i \in DOMAIN leases : f[i] \in Lease
    PROVE  f \in Seq(Lease) /\ DOMAIN f = DOMAIN leases /\ Len(f) = Len(leases)
<1>1. f \in [1..Len(leases) -> Lease] /\ Len(leases) \in Nat
  BY LeasesFunction
<1>2. f \in Seq(Lease)
  BY <1>1, SeqDef
<1>3. DOMAIN f = 1..Len(leases)
  BY <1>1
<1>4. Len(f) = Len(leases)
  BY <1>1, <1>2, <1>3, LenProperties
<1>5. QED
  BY <1>2, <1>3, <1>4, LeasesFunction

-----------------------------------------------------------------------------
(* Type correctness *)

\* Releasing a key leaves every lease a lease, with its other fields as they were.
LEMMA ReleaseKeyType ==
    ASSUME TypeOK, NEW d \in Devices, NEW r \in Routes, NEW k \in Keys \cup {NoKey}
    PROVE  /\ ReleaseKey(d, r, k) \in Seq(Lease)
           /\ DOMAIN ReleaseKey(d, r, k) = DOMAIN leases
           /\ Len(ReleaseKey(d, r, k)) = Len(leases)
           /\ \A i \in DOMAIN leases :
                 /\ ReleaseKey(d, r, k)[i].device = leases[i].device
                 /\ ReleaseKey(d, r, k)[i].route = leases[i].route
                 /\ ReleaseKey(d, r, k)[i].hops = leases[i].hops
                 /\ ReleaseKey(d, r, k)[i].expires = leases[i].expires
                 /\ ReleaseKey(d, r, k)[i].revoked = leases[i].revoked
<1> DEFINE f == ReleaseKey(d, r, k)
<1>1. f = [i \in DOMAIN leases |-> f[i]]
  BY DEF ReleaseKey
<1>2. ASSUME NEW i \in DOMAIN leases
      PROVE  /\ f[i] \in Lease
             /\ f[i].device = leases[i].device /\ f[i].hops = leases[i].hops
             /\ f[i].route = leases[i].route
             /\ f[i].expires = leases[i].expires /\ f[i].revoked = leases[i].revoked
  <2>1. leases[i] \in Lease
    BY LeasesFunction
  <2>2. f[i] = leases[i] \/ f[i] = [leases[i] EXCEPT !.key = NoKey]
    BY DEF ReleaseKey
  <2>3. QED
    BY <2>1, <2>2 DEF Lease
<1> HIDE DEF f
<1>3. f \in Seq(Lease) /\ DOMAIN f = DOMAIN leases /\ Len(f) = Len(leases)
  BY <1>1, <1>2, MapLeases
<1>4. QED
  BY <1>2, <1>3 DEF f

LEMMA RowType ==
    ASSUME TypeOK, NEW n \in Nodes, NEW s \in Slots
    PROVE  slots[n][s] \in Row
BY DEF TypeOK

LEMMA RowExtended ==
    ASSUME NEW row \in Row, NEW t \in Nat
    PROVE  [row EXCEPT !.extendTo = t] \in Row
BY DEF Row

LEMMA RowLeased ==
    ASSUME NEW row \in Row, NEW i \in Nat
    PROVE  [row EXCEPT !.state = "leased", !.lease = i] \in Row
BY DEF Row

LEMMA RowRevoked ==
    ASSUME NEW row \in Row, NEW urgent \in BOOLEAN
    PROVE  [row EXCEPT !.state = "revoked", !.urgent = urgent] \in Row
BY DEF Row

LEMMA TypeRenew ==
    ASSUME TypeOK, NEW d \in Devices, NEW r \in Routes, NEW k \in Keys \cup {NoKey},
           Renew(d, r, k)
    PROVE  TypeOK'
<1> DEFINE rel == ReleaseKey(d, r, k)
           target == RenewalTarget(r, now)
<1>1. PICK i \in DOMAIN leases :
        /\ leases' = [rel EXCEPT
              ![i].expires = IF target > leases[i].expires THEN target ELSE @,
              ![i].key = IF k = NoKey THEN @ ELSE k]
        /\ slots' = [n \in Nodes |-> [s \in Slots |->
              IF target > leases[i].expires
                 /\ \E j \in DOMAIN leases[i].hops :
                       leases[i].hops[j].node = n /\ leases[i].hops[j].slot = s
              THEN [slots[n][s] EXCEPT !.extendTo = target]
              ELSE slots[n][s]]]
  BY DEF Renew
<1>2. target \in Nat
  BY TargetType DEF TypeOK
<1>3. /\ rel \in Seq(Lease) /\ DOMAIN rel = DOMAIN leases
      /\ \A j \in DOMAIN rel : rel[j] \in Lease
  BY ReleaseKeyType
<1> HIDE DEF rel, target
<1>4. slots' \in [Nodes -> [Slots -> Row]]
  <2>1. ASSUME NEW n \in Nodes, NEW s \in Slots
        PROVE  [slots[n][s] EXCEPT !.extendTo = target] \in Row /\ slots[n][s] \in Row
    BY <1>2, RowType, RowExtended
  <2>2. QED
    BY <1>1, <2>1
<1>5. leases' \in Seq(Lease)
  <2> DEFINE e == IF target > leases[i].expires THEN target ELSE rel[i].expires
             q == IF k = NoKey THEN rel[i].key ELSE k
             upd == [[rel[i] EXCEPT !.expires = e] EXCEPT !.key = q]
  <2>1. leases' = [rel EXCEPT ![i] = upd]
    BY <1>1, <1>3
  <2>2. e \in Nat /\ q \in Keys \cup {NoKey}
    BY <1>2, <1>3 DEF Lease
  <2> HIDE DEF e, q
  <2>3. upd \in Lease
    BY <1>3, <2>2 DEF Lease
  <2> HIDE DEF upd
  <2>4. leases' = [j \in DOMAIN leases |-> leases'[j]]
    BY <1>3, <2>1
  <2>5. \A j \in DOMAIN leases : leases'[j] \in Lease
    BY <1>3, <2>1, <2>3
  <2>6. QED
    BY <2>4, <2>5, MapLeases
<1>6. QED
  BY <1>4, <1>5 DEF TypeOK, Renew, agentVars

LEMMA TypeStartLease ==
    ASSUME TypeOK, NEW d \in Devices, NEW r \in Routes, NEW k \in Keys \cup {NoKey},
           StartLease(d, r, k)
    PROVE  TypeOK'
<1>1. leases' \in Seq(Lease)
  BY ReleaseKeyType DEF StartLease
<1>2. txns' \subseteq Request
  BY DEF StartLease, TypeOK, Request
<1>3. QED
  BY <1>1, <1>2 DEF TypeOK, StartLease, agentVars

\* What FinishLease appends: one credential per hop, of the row as it is now.
LEMMA NewLeaseType ==
    ASSUME TypeOK, NEW t \in txns, NEW pick \in [DOMAIN Hops[t.route] -> Slots],
           NEW hops, NEW end,
           hops = [i \in DOMAIN Hops[t.route] |->
                     [node |-> Hops[t.route][i], slot |-> pick[i],
                      generation |-> slots[Hops[t.route][i]][pick[i]].generation]],
           end = LeaseEnd({slots[Hops[t.route][i]][pick[i]].validUntil : i \in DOMAIN pick})
    PROVE  [device |-> t.device, route |-> t.route, key |-> t.key, hops |-> hops,
            expires |-> end, revoked |-> FALSE, created |-> now] \in Lease
<1>1. t \in Request
  BY DEF TypeOK
<1>2. /\ DOMAIN Hops[t.route] = 1..Len(Hops[t.route]) /\ Len(Hops[t.route]) \in Nat
      /\ \A i \in DOMAIN Hops[t.route] : Hops[t.route][i] \in Nodes
  <2>1. Hops[t.route] \in Seq(Nodes)
    BY <1>1, Parameters, ZenonT(60) DEF Request
  <2>2. QED
    BY <2>1, SeqParts
<1>3. hops \in Seq(Credential)
  <2>1. \A i \in DOMAIN Hops[t.route] : slots[Hops[t.route][i]][pick[i]] \in Row
    BY <1>2, RowType
  <2>2. hops \in [1..Len(Hops[t.route]) -> Credential]
    BY <1>2, <2>1 DEF Credential, Row
  <2>3. QED
    BY <1>2, <2>2, SeqDef, ZenonT(60)
<1>4. end \in Nat
  <2> DEFINE f == [i \in DOMAIN Hops[t.route] |->
                     slots[Hops[t.route][i]][pick[i]].validUntil]
  <2>1. \A i \in DOMAIN Hops[t.route] : f[i] \in Nat
    BY <1>2, RowType DEF Row
  <2>2. end = Min({f[i] : i \in DOMAIN Hops[t.route]})
    BY DEF LeaseEnd
  <2> HIDE DEF f
  <2>3. t.route \in Routes
    BY <1>1 DEF Request
  <2>4. Min({f[i] : i \in DOMAIN Hops[t.route]}) \in Nat
    BY <2>1, <2>3, LeastOverHops
  <2>5. QED
    BY <2>2, <2>4
<1>5. QED
  BY <1>1, <1>3, <1>4 DEF Request, Lease, TypeOK

LEMMA AppendedLease ==
    ASSUME TypeOK, NEW new \in Lease, leases' = Append(leases, new)
    PROVE  /\ Len(leases) \in Nat /\ DOMAIN leases = 1..Len(leases)
           /\ DOMAIN leases' = 1..(Len(leases) + 1)
           /\ leases'[Len(leases) + 1] = new
           /\ \A i \in DOMAIN leases : leases'[i] = leases[i]
BY DEF TypeOK

\* What FinishLease does, with the slots it picks and the lease it appends named.
LEMMA FinishedLease ==
    ASSUME TypeOK, NEW t \in txns, FinishLease(t)
    PROVE  \E pick \in [DOMAIN Hops[t.route] -> Slots], new \in Lease :
             /\ new.device = t.device
             /\ new.hops = [i \in DOMAIN Hops[t.route] |->
                     [node |-> Hops[t.route][i], slot |-> pick[i],
                      generation |-> slots[Hops[t.route][i]][pick[i]].generation]]
             /\ leases' = Append(leases, new)
             /\ \A i \in DOMAIN pick : Leasable(Hops[t.route][i], pick[i])
             /\ slots' = [n \in Nodes |-> [s \in Slots |->
                   IF \E i \in DOMAIN pick : Hops[t.route][i] = n /\ pick[i] = s
                   THEN [slots[n][s] EXCEPT !.state = "leased", !.lease = Len(leases) + 1]
                   ELSE slots[n][s]]]
<1>1. PICK pick \in [DOMAIN Hops[t.route] -> Slots] :
        /\ leases' = Append(leases,
              [device |-> t.device, route |-> t.route, key |-> t.key,
               hops |-> [i \in DOMAIN Hops[t.route] |->
                     [node |-> Hops[t.route][i], slot |-> pick[i],
                      generation |-> slots[Hops[t.route][i]][pick[i]].generation]],
               expires |-> LeaseEnd({slots[Hops[t.route][i]][pick[i]].validUntil :
                                        i \in DOMAIN pick}),
               revoked |-> FALSE, created |-> now])
        /\ \A i \in DOMAIN pick : Leasable(Hops[t.route][i], pick[i])
        /\ slots' = [n \in Nodes |-> [s \in Slots |->
              IF \E i \in DOMAIN pick : Hops[t.route][i] = n /\ pick[i] = s
              THEN [slots[n][s] EXCEPT !.state = "leased", !.lease = Len(leases) + 1]
              ELSE slots[n][s]]]
  BY DEF FinishLease
<1> DEFINE hops == [i \in DOMAIN Hops[t.route] |->
                   [node |-> Hops[t.route][i], slot |-> pick[i],
                    generation |-> slots[Hops[t.route][i]][pick[i]].generation]]
           end == LeaseEnd({slots[Hops[t.route][i]][pick[i]].validUntil : i \in DOMAIN pick})
           new == [device |-> t.device, route |-> t.route, key |-> t.key, hops |-> hops,
                   expires |-> end, revoked |-> FALSE, created |-> now]
<1>2. new \in Lease
  BY NewLeaseType
<1>3. leases' = Append(leases, new)
  BY <1>1
<1>4. new.device = t.device /\ new.hops = hops
  OBVIOUS
<1> HIDE DEF new
<1>5. QED
  BY <1>1, <1>2, <1>3, <1>4

LEMMA TypeFinishLease ==
    ASSUME TypeOK, NEW t \in txns, FinishLease(t)
    PROVE  TypeOK'
<1>1. PICK pick \in [DOMAIN Hops[t.route] -> Slots], new \in Lease :
        /\ leases' = Append(leases, new)
        /\ slots' = [n \in Nodes |-> [s \in Slots |->
              IF \E i \in DOMAIN pick : Hops[t.route][i] = n /\ pick[i] = s
              THEN [slots[n][s] EXCEPT !.state = "leased", !.lease = Len(leases) + 1]
              ELSE slots[n][s]]]
  BY FinishedLease
<1>2. leases' \in Seq(Lease)
  <2>1. leases \in Seq(Lease)
    BY DEF TypeOK
  <2>2. QED
    BY <1>1, <2>1, AppendProperties
<1>3. slots' \in [Nodes -> [Slots -> Row]]
  <2>1. ASSUME NEW n \in Nodes, NEW s \in Slots
        PROVE  /\ slots[n][s] \in Row
               /\ [slots[n][s] EXCEPT !.state = "leased", !.lease = Len(leases) + 1] \in Row
    <3>1. Len(leases) + 1 \in Nat
      BY LeasesFunction
    <3>2. QED
      BY <3>1, RowType, RowLeased
  <2>2. QED
    BY <1>1, <2>1
<1>4. QED
  BY <1>2, <1>3 DEF TypeOK, FinishLease, agentVars

LEMMA TypeRevokeDevice ==
    ASSUME TypeOK, NEW d \in Devices, RevokeDevice(d)
    PROVE  TypeOK'
BY DEF TypeOK, RevokeDevice, agentVars

\* What revoke_device_leases writes to the table of leases.
LEMMA RevokedLeases ==
    ASSUME TypeOK, NEW d \in Devices, NEW urgent \in BOOLEAN, RevokeLeases(d, urgent)
    PROVE  /\ leases' \in Seq(Lease)
           /\ DOMAIN leases' = DOMAIN leases /\ Len(leases') = Len(leases)
           /\ \A i \in DOMAIN leases :
                 /\ leases'[i] = IF i \in LiveLeases(d)
                                 THEN [leases[i] EXCEPT !.revoked = TRUE] ELSE leases[i]
                 /\ leases'[i].device = leases[i].device
                 /\ leases'[i].hops = leases[i].hops
                 /\ leases'[i].expires = leases[i].expires
                 /\ leases'[i].revoked = (leases[i].revoked \/ i \in LiveLeases(d))
<1>1. leases' = [i \in DOMAIN leases |->
           IF i \in LiveLeases(d) THEN [leases[i] EXCEPT !.revoked = TRUE] ELSE leases[i]]
  BY DEF RevokeLeases
<1>2. ASSUME NEW i \in DOMAIN leases
      PROVE  /\ leases'[i] \in Lease
             /\ leases'[i].device = leases[i].device
             /\ leases'[i].hops = leases[i].hops
             /\ leases'[i].expires = leases[i].expires
             /\ leases'[i].revoked = (leases[i].revoked \/ i \in LiveLeases(d))
  <2>1. leases[i] \in Lease
    BY LeasesFunction
  <2>2. CASE i \in LiveLeases(d)
    BY <1>1, <2>1, <2>2 DEF Lease
  <2>3. CASE i \notin LiveLeases(d)
    BY <1>1, <2>1, <2>3 DEF Lease
  <2>4. QED
    BY <2>2, <2>3
<1>3. leases' = [i \in DOMAIN leases |-> leases'[i]]
  BY <1>1
<1>4. leases' \in Seq(Lease) /\ DOMAIN leases' = DOMAIN leases /\ Len(leases') = Len(leases)
  BY <1>2, <1>3, MapLeases
<1>5. QED
  BY <1>1, <1>2, <1>4

LEMMA TypeRevokeLeases ==
    ASSUME TypeOK, NEW d \in Devices, NEW urgent \in BOOLEAN, RevokeLeases(d, urgent)
    PROVE  TypeOK'
<1>1. leases' \in Seq(Lease)
  BY RevokedLeases
<1>2. slots' \in [Nodes -> [Slots -> Row]]
  <2>1. ASSUME NEW n \in Nodes, NEW s \in Slots
        PROVE  /\ slots[n][s] \in Row
               /\ [slots[n][s] EXCEPT !.state = "revoked", !.urgent = urgent] \in Row
    BY RowType, RowRevoked
  <2>2. QED
    BY <2>1 DEF RevokeLeases
<1>3. QED
  BY <1>1, <1>2 DEF TypeOK, RevokeLeases, agentVars

\* A reported item is one of the agent's own generations, or generation 0.
LEMMA ItemsType ==
    ASSUME TypeOK, NEW n \in Nodes
    PROVE  Items(n) \in [Slots -> Item]
<1>1. ASSUME NEW s \in Slots
      PROVE  Items(n)[s] \in Item
  <2>1. local[n][s] \in Local
    BY DEF TypeOK
  <2>2. QED
    BY <2>1 DEF Items, Item, Local
<1>2. QED
  BY <1>1 DEF Items

LEMMA ReportedType ==
    ASSUME TypeOK, NEW n \in Nodes
    PROVE  Reported(n) \in [Nodes -> [Slots -> Local]]
<1>1. ASSUME NEW mine \in Local
      PROVE  [mine EXCEPT !.flag = "sent"] \in Local
  BY DEF Local, Flag
<1>2. local \in [Nodes -> [Slots -> Local]]
  BY DEF TypeOK
<1>3. QED
  BY <1>1, <1>2 DEF Reported

LEMMA SyncedRowType ==
    ASSUME NEW row \in Row, NEW item \in Item, NEW secrets \in BOOLEAN
    PROVE  SyncedRow(row, item, secrets) \in Row
<1>1. NoRow \in Row
  BY DEF NoRow, Row
<1>2. Fresh(item) \in Row
  BY DEF Fresh, Row, Item
<1>3. ASSUME NEW v \in Nat
      PROVE  [row EXCEPT !.validUntil = v] \in Row
  BY DEF Row
<1>4. row.validUntil \in Nat /\ item.validUntil \in Nat
  BY DEF Row, Item
<1>5. Max({row.validUntil, item.validUntil}) \in Nat
  BY <1>4, MaxOfTwo
<1>6. QED
  BY <1>1, <1>2, <1>3, <1>5 DEF SyncedRow

LEMMA SyncedSlotsType ==
    ASSUME TypeOK, NEW n \in Nodes, NEW items \in [Slots -> Item], NEW secrets \in BOOLEAN
    PROVE  /\ SyncedSlots(n, items, secrets) \in [Nodes -> [Slots -> Row]]
           /\ \A m \in Nodes, s \in Slots :
                 SyncedSlots(n, items, secrets)[m][s] =
                    IF m = n THEN SyncedRow(slots[n][s], items[s], secrets) ELSE slots[m][s]
<1>1. ASSUME NEW s \in Slots
      PROVE  SyncedRow(slots[n][s], items[s], secrets) \in Row
  BY RowType, SyncedRowType
<1>2. slots \in [Nodes -> [Slots -> Row]]
  BY DEF TypeOK
<1>3. QED
  BY <1>1, <1>2 DEF SyncedSlots

LEMMA TypeSync ==
    ASSUME TypeOK, NEW n \in Nodes, NEW secrets \in BOOLEAN, Sync(n, secrets)
    PROVE  TypeOK'
<1>1. slots' \in [Nodes -> [Slots -> Row]]
  BY ItemsType, SyncedSlotsType DEF Sync
<1>2. local' \in [Nodes -> [Slots -> Local]]
  BY ReportedType DEF Sync
<1>3. answer' \in [Nodes -> Answer]
  <2> DEFINE v == [s \in Slots |-> [generation |-> slots'[n][s].generation,
                                    state |-> slots'[n][s].state,
                                    extendTo |-> slots'[n][s].extendTo,
                                    urgent |-> slots'[n][s].urgent]]
             a == [open |-> TRUE, asOf |-> now, view |-> v]
  <2>1. v \in [Slots -> RowView]
    <3>1. ASSUME NEW s \in Slots
          PROVE  slots'[n][s] \in Row
      BY <1>1
    <3>2. QED
      BY <3>1 DEF Row, RowView
  <2>2. answer' = [answer EXCEPT ![n] = a]
    BY DEF Sync
  <2> HIDE DEF v
  <2>3. a \in Answer
    BY <2>1 DEF Answer, TypeOK
  <2>4. answer \in [Nodes -> Answer]
    BY DEF TypeOK
  <2> HIDE DEF a
  <2>5. QED
    BY <2>2, <2>3, <2>4
<1>4. QED
  BY <1>1, <1>2, <1>3 DEF TypeOK, Sync

LEMMA TypeTimeOut ==
    ASSUME TypeOK, NEW n \in Nodes, TimeOut(n)
    PROVE  TypeOK'
<1>1. local' \in [Nodes -> [Slots -> Local]]
  BY ReportedType DEF TimeOut
<1>2. late' \subseteq Report
  <2>1. [node |-> n, items |-> Items(n)] \in Report
    BY ItemsType DEF Report
  <2>2. QED
    BY <2>1 DEF TimeOut, TypeOK
<1>3. QED
  BY <1>1, <1>2 DEF TypeOK, TimeOut, dbVars

LEMMA TypeLateSync ==
    ASSUME TypeOK, NEW rep \in late, NEW secrets \in BOOLEAN, LateSync(rep, secrets)
    PROVE  TypeOK'
<1>1. rep.node \in Nodes /\ rep.items \in [Slots -> Item]
  BY DEF TypeOK, Report
<1>2. slots' \in [Nodes -> [Slots -> Row]]
  BY <1>1, SyncedSlotsType DEF LateSync
<1>3. QED
  BY <1>2 DEF TypeOK, LateSync

LEMMA NoAnswerType == NoAnswer \in Answer
BY DEF NoAnswer, Answer, RowView

LEMMA TypeLoseAnswer ==
    ASSUME TypeOK, NEW n \in Nodes, LoseAnswer(n)
    PROVE  TypeOK'
BY NoAnswerType DEF TypeOK, LoseAnswer, dbVars

LEMMA AdoptedType ==
    ASSUME TypeOK, NEW n \in Nodes, NEW mine \in Local, NEW row \in RowView
    PROVE  Adopted(n, mine, row) \in Nat /\ Adopted(n, mine, row) >= mine.validUntil
<1>1. mine.validUntil \in Nat /\ row.extendTo \in Nat /\ now \in Nat
  BY DEF Local, RowView, TypeOK
<1>2. FloorTo(row.extendTo, Grid[n]) \in Nat
  BY <1>1, FloorType, Parameters
<1>3. MintedUntil(n, now) \in Nat
  BY <1>1, MintedType
<1> DEFINE m == Min({FloorTo(row.extendTo, Grid[n]), MintedUntil(n, now)})
<1>4. m \in Nat
  BY <1>2, <1>3, MinOfTwo
<1> HIDE DEF m
<1>5. Max({mine.validUntil, m}) \in Nat /\ Max({mine.validUntil, m}) >= mine.validUntil
  BY <1>1, <1>4, MaxOfTwo
<1>6. QED
  BY <1>1, <1>5 DEF Adopted, m

LEMMA VerdictType ==
    ASSUME NEW mine \in Local, NEW row \in RowView, NEW asOf \in Nat
    PROVE  Verdict(mine, row, asOf) \in Flag
BY DEF Verdict, Local, Flag, RowView

LEMMA TypeReadAnswer ==
    ASSUME TypeOK, NEW n \in Nodes, ReadAnswer(n)
    PROVE  TypeOK'
<1> DEFINE upd(s) ==
      [local[n][s] EXCEPT !.validUntil = Adopted(n, local[n][s], answer[n].view[s]),
                          !.flag = Verdict(local[n][s], answer[n].view[s], answer[n].asOf)]
<1>1. ASSUME NEW s \in Slots
      PROVE  upd(s) \in Local
  <2>1. local[n][s] \in Local /\ answer[n].view[s] \in RowView /\ answer[n].asOf \in Nat
    BY DEF TypeOK, Answer
  <2>2. ASSUME NEW mine \in Local, NEW v \in Nat, NEW f \in Flag
        PROVE  [mine EXCEPT !.validUntil = v, !.flag = f] \in Local
    BY DEF Local
  <2>3. QED
    BY <2>1, <2>2, AdoptedType, VerdictType
<1>2. local' = [local EXCEPT ![n] = [s \in Slots |->
         IF s \in pool[n] /\ answer[n].view[s].generation = local[n][s].generation
         THEN upd(s) ELSE local[n][s]]]
  BY DEF ReadAnswer
<1> HIDE DEF upd
<1>3. local' \in [Nodes -> [Slots -> Local]]
  BY <1>1, <1>2 DEF TypeOK
<1>4. QED
  BY <1>3, NoAnswerType DEF TypeOK, ReadAnswer, dbVars

\* A generation minted by a sweep or a resize.
LEMMA MintedLocal ==
    ASSUME TypeOK, NEW n \in Nodes, NEW s \in Slots
    PROVE  [generation |-> local[n][s].generation + 1,
            validUntil |-> MintedUntil(n, now), flag |-> "unsent"] \in Local
<1>1. local[n][s].generation \in Nat /\ MintedUntil(n, now) \in Nat
  BY MintedType DEF TypeOK, Local
<1>2. QED
  BY <1>1 DEF Local, Flag

LEMMA TypeSweep ==
    ASSUME TypeOK, NEW n \in Nodes, Sweep(n)
    PROVE  TypeOK'
<1>1. local' \in [Nodes -> [Slots -> Local]]
  BY MintedLocal DEF Sweep, TypeOK
<1>2. QED
  BY <1>1 DEF TypeOK, Sweep, dbVars

LEMMA TypeResize ==
    ASSUME TypeOK, NEW n \in Nodes, NEW P \in SUBSET Slots, Resize(n, P)
    PROVE  TypeOK'
<1>1. local' \in [Nodes -> [Slots -> Local]]
  BY MintedLocal DEF Resize, TypeOK
<1>2. QED
  BY <1>1 DEF TypeOK, Resize, dbVars

-----------------------------------------------------------------------------
LEMMA TypeInit == Init => TypeOK
<1> SUFFICES ASSUME Init PROVE TypeOK
  OBVIOUS
<1>1. slots \in [Nodes -> [Slots -> Row]]
  <2>1. NoRow \in Row
    BY DEF NoRow, Row
  <2>2. QED
    BY <2>1 DEF Init
<1>2. pool \in [Nodes -> SUBSET Slots]
  BY DEF Init
<1>3. local \in [Nodes -> [Slots -> Local]]
  <2>1. ASSUME NEW n \in Nodes
        PROVE  MintedUntil(n, 0) \in Nat
    BY MintedType
  <2>2. QED
    BY <2>1 DEF Init, Local, Flag
<1>4. leases \in Seq(Lease)
  BY DEF Init
<1>5. QED
  BY <1>1, <1>2, <1>3, <1>4, NoAnswerType DEF Init, TypeOK

LEMMA TypeNext == TypeOK /\ [Next]_vars => TypeOK'
<1> SUFFICES ASSUME TypeOK, [Next]_vars PROVE TypeOK'
  OBVIOUS
<1>1. ASSUME NEW d \in Devices, NEW r \in Routes, NEW k \in Keys \cup {NoKey},
             Authorize(d, r, k)
      PROVE  TypeOK'
  BY <1>1, TypeRenew, TypeStartLease DEF Authorize
<1>2. ASSUME NEW t \in txns, FinishLease(t) \/ Exhausted(t)
      PROVE  TypeOK'
  <2>1. CASE FinishLease(t)
    BY <2>1, TypeFinishLease
  <2>2. CASE Exhausted(t)
    BY <2>2 DEF TypeOK, Exhausted, agentVars
  <2>3. QED
    BY <1>2, <2>1, <2>2
<1>3. ASSUME NEW d \in Devices, RevokeDevice(d)
      PROVE  TypeOK'
  BY <1>3, TypeRevokeDevice
<1>4. ASSUME NEW d \in Devices, NEW urgent \in BOOLEAN, RevokeLeases(d, urgent)
      PROVE  TypeOK'
  BY <1>4, TypeRevokeLeases
<1>5. ASSUME NEW n \in Nodes, NEW secrets \in BOOLEAN, Sync(n, secrets)
      PROVE  TypeOK'
  BY <1>5, TypeSync
<1>6. ASSUME NEW n \in Nodes, TimeOut(n) \/ LoseAnswer(n) \/ ReadAnswer(n) \/ Sweep(n)
      PROVE  TypeOK'
  BY <1>6, TypeTimeOut, TypeLoseAnswer, TypeReadAnswer, TypeSweep
<1>7. ASSUME NEW rep \in late, NEW secrets \in BOOLEAN, LateSync(rep, secrets)
      PROVE  TypeOK'
  BY <1>7, TypeLateSync
<1>8. ASSUME NEW n \in Nodes, NEW P \in SUBSET Slots, Resize(n, P)
      PROVE  TypeOK'
  BY <1>8, TypeResize
<1>9. CASE Tick
  BY <1>9 DEF TypeOK, Tick, dbVars, agentVars
<1>10. CASE UNCHANGED vars
  BY <1>10 DEF TypeOK, vars, dbVars, agentVars
<1>11. QED
  BY <1>1, <1>2, <1>3, <1>4, <1>5, <1>6, <1>7, <1>8, <1>9, <1>10 DEF Next

\* Every table, and everything an agent keeps, has the shape the schema and the RPCs give it.
THEOREM TypeCorrect == Spec => []TypeOK
<1>1. QED
  BY TypeInit, TypeNext, PTL DEF Spec

-----------------------------------------------------------------------------
(* Revocation.  RevocationIsComplete is not inductive: an authorize that is  *)
(* past its check of the status could still insert.  It cannot be for a      *)
(* purged device, because revoke_device_leases waits for the same lock and   *)
(* the status is already REVOKED when the next transaction takes it.         *)

Dead(i) == leases[i].revoked \/ ~(leases[i].expires > now)

RevocationInv ==
    \A d \in purged :
        /\ status[d] = "REVOKED"
        /\ \A t \in txns : t.device # d
        /\ \A i \in DOMAIN leases : leases[i].device = d => Dead(i)

LEMMA RevocationImplied == RevocationInv => RevocationIsComplete
BY DEF RevocationInv, RevocationIsComplete, LiveLeases, Dead

LEMMA RevocationRenew ==
    ASSUME TypeOK, RevocationInv,
           NEW d \in Devices, NEW r \in Routes, NEW k \in Keys \cup {NoKey}, Renew(d, r, k)
    PROVE  RevocationInv'
<1> DEFINE rel == ReleaseKey(d, r, k)
           target == RenewalTarget(r, now)
<1>1. PICK i \in DOMAIN leases :
        /\ leases[i].device = d
        /\ leases' = [rel EXCEPT
              ![i].expires = IF target > leases[i].expires THEN target ELSE @,
              ![i].key = IF k = NoKey THEN @ ELSE k]
  BY DEF Renew, Renewable, Latest, Candidates, Of
<1>2. /\ DOMAIN rel = DOMAIN leases
      /\ \A j \in DOMAIN leases : /\ rel[j].device = leases[j].device
                                  /\ rel[j].expires = leases[j].expires
                                  /\ rel[j].revoked = leases[j].revoked
      /\ \A j \in DOMAIN leases : rel[j] \in Lease
  BY ReleaseKeyType
<1> HIDE DEF rel, target
<1>3. DOMAIN leases' = DOMAIN leases
  BY <1>1, <1>2
<1>4. leases'[i].device = d
  BY <1>1, <1>2 DEF Lease
<1>5. \A j \in DOMAIN leases : j # i => leases'[j] = rel[j]
  BY <1>1, <1>2
<1>6. d \notin purged
  BY DEF Renew, MayAuthorize, RevocationInv
<1>7. \A j \in DOMAIN leases : leases[j].device \in purged => Dead(j)
  BY DEF RevocationInv
<1>8. ASSUME NEW e \in purged, NEW j \in DOMAIN leases', leases'[j].device = e
      PROVE  Dead(j)'
  <2>1. j # i
    BY <1>4, <1>6, <1>8
  <2>2. leases'[j].revoked = leases[j].revoked /\ leases'[j].expires = leases[j].expires
        /\ leases[j].device = e /\ j \in DOMAIN leases
    BY <1>2, <1>3, <1>5, <1>8, <2>1
  <2>3. now' = now
    BY DEF Renew
  <2>4. QED
    BY <1>7, <2>2, <2>3 DEF Dead
<1>9. QED
  BY <1>8 DEF RevocationInv, Renew

LEMMA RevocationStart ==
    ASSUME TypeOK, RevocationInv,
           NEW d \in Devices, NEW r \in Routes, NEW k \in Keys \cup {NoKey}, StartLease(d, r, k)
    PROVE  RevocationInv'
<1>1. /\ DOMAIN leases' = DOMAIN leases
      /\ \A i \in DOMAIN leases : /\ leases'[i].device = leases[i].device
                                  /\ leases'[i].expires = leases[i].expires
                                  /\ leases'[i].revoked = leases[i].revoked
  BY ReleaseKeyType DEF StartLease
<1>2. d \notin purged
  BY DEF StartLease, MayAuthorize, RevocationInv
<1>3. \A t \in txns' : t \in txns \/ t.device = d
  BY DEF StartLease
<1>4. purged' = purged /\ status' = status /\ now' = now
  BY DEF StartLease
<1>5. QED
  BY <1>1, <1>2, <1>3, <1>4 DEF RevocationInv, Dead

\* Only the request that holds the lock adds a lease, and it is not of a purged device.
LEMMA RevocationFinish ==
    ASSUME TypeOK, RevocationInv, NEW t \in txns, FinishLease(t)
    PROVE  RevocationInv'
<1>1. PICK new \in Lease : leases' = Append(leases, new) /\ new.device = t.device
  BY FinishedLease
<1>2. t.device \notin purged
  BY DEF RevocationInv
<1>3. /\ Len(leases) \in Nat
      /\ DOMAIN leases = 1..Len(leases)
      /\ DOMAIN leases' = 1..(Len(leases) + 1)
      /\ leases'[Len(leases) + 1] = new
      /\ \A i \in DOMAIN leases : leases'[i] = leases[i]
  BY <1>1, AppendedLease
<1>4. purged' = purged /\ status' = status /\ now' = now /\ txns' \subseteq txns
  BY DEF FinishLease
<1>5. ASSUME NEW e \in purged, NEW i \in DOMAIN leases', leases'[i].device = e
      PROVE  Dead(i)'
  <2>1. i # Len(leases) + 1
    BY <1>1, <1>2, <1>3, <1>5
  <2>2. i \in DOMAIN leases /\ leases'[i] = leases[i]
    BY <1>3, <2>1
  <2>3. QED
    BY <1>4, <1>5, <2>2 DEF RevocationInv, Dead
<1>6. QED
  BY <1>4, <1>5 DEF RevocationInv

LEMMA RevocationPurge ==
    ASSUME TypeOK, RevocationInv, NEW d \in Devices, NEW urgent \in BOOLEAN,
           RevokeLeases(d, urgent)
    PROVE  RevocationInv'
<1>1. /\ DOMAIN leases' = DOMAIN leases
      /\ \A i \in DOMAIN leases :
            /\ leases'[i].device = leases[i].device
            /\ leases'[i].expires = leases[i].expires
            /\ leases'[i].revoked = (leases[i].revoked \/ i \in LiveLeases(d))
  BY RevokedLeases
<1>2. /\ purged' = purged \cup {d} /\ status' = status /\ txns' = txns /\ now' = now
      /\ status[d] = "REVOKED" /\ ~Locked(d)
  BY DEF RevokeLeases
<1>3. ASSUME NEW i \in DOMAIN leases, leases[i].device = d
      PROVE  Dead(i)'
  BY <1>1, <1>2, <1>3 DEF LiveLeases, Dead
<1>4. ASSUME NEW e \in purged, NEW i \in DOMAIN leases, leases[i].device = e
      PROVE  Dead(i)'
  BY <1>1, <1>2, <1>4 DEF RevocationInv, Dead
<1>5. QED
  BY <1>1, <1>2, <1>3, <1>4 DEF RevocationInv, Locked

LEMMA RevocationNext == TypeOK /\ RevocationInv /\ [Next]_vars => RevocationInv'
<1> SUFFICES ASSUME TypeOK, RevocationInv, [Next]_vars PROVE RevocationInv'
  OBVIOUS
<1>1. ASSUME NEW d \in Devices, NEW r \in Routes, NEW k \in Keys \cup {NoKey},
             Authorize(d, r, k)
      PROVE  RevocationInv'
  BY <1>1, RevocationRenew, RevocationStart DEF Authorize
<1>2. ASSUME NEW t \in txns, FinishLease(t)
      PROVE  RevocationInv'
  BY <1>2, RevocationFinish
<1>3. ASSUME NEW t \in txns, Exhausted(t)
      PROVE  RevocationInv'
  BY <1>3 DEF Exhausted, RevocationInv, Dead
<1>4. ASSUME NEW d \in Devices, RevokeDevice(d)
      PROVE  RevocationInv'
  BY <1>4 DEF RevokeDevice, RevocationInv, Dead, TypeOK
<1>5. ASSUME NEW d \in Devices, NEW urgent \in BOOLEAN, RevokeLeases(d, urgent)
      PROVE  RevocationInv'
  BY <1>5, RevocationPurge
\* The agents never touch what the invariant speaks of.
<1>6. CASE UNCHANGED <<now, status, purged, leases, txns>>
  BY <1>6 DEF RevocationInv, Dead
<1>7. ASSUME NEW n \in Nodes, NEW secrets \in BOOLEAN, Sync(n, secrets)
      PROVE  RevocationInv'
  BY <1>6, <1>7 DEF Sync
<1>8. ASSUME NEW n \in Nodes, TimeOut(n) \/ LoseAnswer(n) \/ ReadAnswer(n) \/ Sweep(n)
      PROVE  RevocationInv'
  BY <1>6, <1>8 DEF TimeOut, LoseAnswer, ReadAnswer, Sweep, dbVars
<1>9. ASSUME NEW rep \in late, NEW secrets \in BOOLEAN, LateSync(rep, secrets)
      PROVE  RevocationInv'
  BY <1>6, <1>9 DEF LateSync
<1>10. ASSUME NEW n \in Nodes, NEW P \in SUBSET Slots, Resize(n, P)
      PROVE  RevocationInv'
  BY <1>6, <1>10 DEF Resize, dbVars
<1>11. CASE Tick
  <2>1. now' = now + 1 /\ UNCHANGED <<status, purged, leases, txns>>
    BY <1>11 DEF Tick, dbVars
  <2>2. \A i \in DOMAIN leases : leases[i].expires \in Nat /\ now \in Nat
    BY LeasesFunction DEF TypeOK, Lease
  <2>3. \A i \in DOMAIN leases : Dead(i) => Dead(i)'
    BY <2>1, <2>2 DEF Dead
  <2>4. QED
    BY <2>1, <2>3 DEF RevocationInv
<1>12. CASE UNCHANGED vars
  BY <1>6, <1>12 DEF vars, dbVars
<1>13. QED
  BY <1>1, <1>2, <1>3, <1>4, <1>5, <1>7, <1>8, <1>9, <1>10, <1>11, <1>12 DEF Next

\* A revocation is final: after revoke_device_leases has returned, no authorize that raced
\* it leaves the device with a live lease, for any number of devices and requests.
THEOREM RevocationCorrect == Spec => []RevocationIsComplete
<1>1. Init => RevocationInv
  BY DEF Init, RevocationInv
<1>2. QED
  BY <1>1, RevocationNext, RevocationImplied, TypeCorrect, PTL DEF Spec

-----------------------------------------------------------------------------
(* One holder for each generation, as long as no pool is resized: then every *)
(* report lists every slot, no row is ever deleted, and a generation that    *)
(* was leased is either still the row's, and not free, or below the row's.   *)

Spent(i, h) ==
    LET row == slots[h.node][h.slot]
    IN /\ h.generation <= row.generation
       /\ h.generation = row.generation => row.lease = i /\ row.state \in {"leased", "revoked"}

HolderInv ==
    /\ \A n \in Nodes : pool[n] = Slots
    /\ \A n \in Nodes, s \in Slots : local[n][s].generation > 0
    /\ \A rep \in late : \A s \in Slots : rep.items[s].generation > 0
    /\ \A i \in DOMAIN leases : \A a \in DOMAIN leases[i].hops : Spent(i, leases[i].hops[a])
    /\ OneHolder

LEMMA HopType ==
    ASSUME TypeOK, NEW i \in DOMAIN leases, NEW a \in DOMAIN leases[i].hops
    PROVE  leases[i].hops[a] \in Credential
BY LeasesFunction DEF Lease

LEMMA HolderInit == MaxResizes = 0 /\ Init => HolderInv
<1> SUFFICES ASSUME MaxResizes = 0, Init PROVE HolderInv
  OBVIOUS
<1>1. DOMAIN leases = {} /\ late = {} /\ \A n \in Nodes : pool[n] = Slots
  BY DEF Init
<1>2. \A n \in Nodes, s \in Slots : local[n][s].generation > 0
  BY <1>1 DEF Init
<1>3. QED
  BY <1>1, <1>2 DEF HolderInv, OneHolder

\* The rows change only in ways that leave Spent as it is, and the leases keep their hops.
LEMMA HolderRows ==
    ASSUME TypeOK, HolderInv, DOMAIN leases' = DOMAIN leases,
           \A i \in DOMAIN leases : leases'[i].hops = leases[i].hops,
           \A n \in Nodes, s \in Slots :
              /\ slots'[n][s].generation \in Nat
              /\ slots'[n][s].generation >= slots[n][s].generation
              /\ slots'[n][s].generation = slots[n][s].generation =>
                    /\ slots'[n][s].lease = slots[n][s].lease
                    /\ slots[n][s].state \in {"leased", "revoked"} =>
                          slots'[n][s].state \in {"leased", "revoked"},
           pool' = pool, local' = local \/ (\A n \in Nodes, s \in Slots : local'[n][s].generation > 0),
           \A rep \in late' : \A s \in Slots : rep.items[s].generation > 0
    PROVE  HolderInv'
<1>1. ASSUME NEW i \in DOMAIN leases, NEW a \in DOMAIN leases[i].hops
      PROVE  Spent(i, leases[i].hops[a])'
  <2> DEFINE h == leases[i].hops[a]
  <2>1. h \in Credential /\ leases'[i].hops[a] = h
    BY HopType
  <2>2. /\ h.node \in Nodes /\ h.slot \in Slots /\ h.generation \in Nat
        /\ slots[h.node][h.slot] \in Row
    BY <2>1, RowType DEF Credential
  <2>3. Spent(i, h)
    BY DEF HolderInv
  <2> HIDE DEF h
  <2>4. slots[h.node][h.slot].generation \in Nat
    BY <2>2 DEF Row
  <2>5. h.generation <= slots'[h.node][h.slot].generation
    BY <2>2, <2>3, <2>4 DEF Spent
  <2>6. ASSUME h.generation = slots'[h.node][h.slot].generation
        PROVE  slots'[h.node][h.slot].lease = i
               /\ slots'[h.node][h.slot].state \in {"leased", "revoked"}
    <3>1. h.generation = slots[h.node][h.slot].generation
      BY <2>2, <2>3, <2>4, <2>6 DEF Spent
    <3>2. QED
      BY <2>2, <2>3, <2>6, <3>1 DEF Spent
  <2>7. QED
    BY <2>1, <2>5, <2>6 DEF Spent
<1>2. OneHolder'
  BY DEF HolderInv, OneHolder
<1>3. \A i \in DOMAIN leases' : \A a \in DOMAIN leases'[i].hops : Spent(i, leases[i].hops[a])'
  BY <1>1
<1>4. QED
  BY <1>2, <1>3 DEF HolderInv

LEMMA HolderRenew ==
    ASSUME TypeOK, HolderInv,
           NEW d \in Devices, NEW r \in Routes, NEW k \in Keys \cup {NoKey}, Renew(d, r, k)
    PROVE  HolderInv'
<1> DEFINE rel == ReleaseKey(d, r, k)
           target == RenewalTarget(r, now)
<1>1. PICK i \in DOMAIN leases :
        /\ leases' = [rel EXCEPT
              ![i].expires = IF target > leases[i].expires THEN target ELSE @,
              ![i].key = IF k = NoKey THEN @ ELSE k]
        /\ slots' = [n \in Nodes |-> [s \in Slots |->
              IF target > leases[i].expires
                 /\ \E j \in DOMAIN leases[i].hops :
                       leases[i].hops[j].node = n /\ leases[i].hops[j].slot = s
              THEN [slots[n][s] EXCEPT !.extendTo = target]
              ELSE slots[n][s]]]
  BY DEF Renew
<1>2. /\ DOMAIN rel = DOMAIN leases
      /\ \A j \in DOMAIN leases : rel[j].hops = leases[j].hops /\ rel[j] \in Lease
  BY ReleaseKeyType
<1> HIDE DEF rel, target
<1>3. DOMAIN leases' = DOMAIN leases /\ \A j \in DOMAIN leases : leases'[j].hops = leases[j].hops
  BY <1>1, <1>2 DEF Lease
<1>4. ASSUME NEW n \in Nodes, NEW s \in Slots
      PROVE  /\ slots'[n][s].generation = slots[n][s].generation
             /\ slots'[n][s].lease = slots[n][s].lease
             /\ slots'[n][s].state = slots[n][s].state
             /\ slots[n][s].generation \in Nat
  BY <1>1, RowType DEF Row
<1>5. UNCHANGED agentVars
  BY DEF Renew
<1>6. QED
  BY <1>3, <1>4, <1>5, HolderRows DEF HolderInv, agentVars

LEMMA HolderStart ==
    ASSUME TypeOK, HolderInv,
           NEW d \in Devices, NEW r \in Routes, NEW k \in Keys \cup {NoKey}, StartLease(d, r, k)
    PROVE  HolderInv'
<1>1. DOMAIN leases' = DOMAIN leases /\ \A j \in DOMAIN leases : leases'[j].hops = leases[j].hops
  BY ReleaseKeyType DEF StartLease
<1>2. ASSUME NEW n \in Nodes, NEW s \in Slots
      PROVE  slots'[n][s] = slots[n][s] /\ slots[n][s].generation \in Nat
  BY RowType DEF Row, StartLease
<1>3. UNCHANGED agentVars
  BY DEF StartLease
<1>4. QED
  BY <1>1, <1>2, <1>3, HolderRows DEF HolderInv, agentVars

LEMMA HolderPurge ==
    ASSUME TypeOK, HolderInv, NEW d \in Devices, NEW urgent \in BOOLEAN,
           RevokeLeases(d, urgent)
    PROVE  HolderInv'
<1>1. DOMAIN leases' = DOMAIN leases /\ \A j \in DOMAIN leases : leases'[j].hops = leases[j].hops
  BY RevokedLeases
<1>2. ASSUME NEW n \in Nodes, NEW s \in Slots
      PROVE  /\ slots'[n][s].generation = slots[n][s].generation
             /\ slots'[n][s].lease = slots[n][s].lease
             /\ slots'[n][s].state \in {slots[n][s].state, "revoked"}
             /\ slots[n][s].generation \in Nat
  BY RowType DEF Row, RevokeLeases
<1>3. UNCHANGED agentVars
  BY DEF RevokeLeases
<1>4. QED
  BY <1>1, <1>2, <1>3, HolderRows DEF HolderInv, agentVars

\* A report that lists every slot moves generations up only.
LEMMA SyncedForward ==
    ASSUME NEW row \in Row, NEW item \in Item, NEW secrets \in BOOLEAN, item.generation > 0
    PROVE  /\ SyncedRow(row, item, secrets).generation \in Nat
           /\ SyncedRow(row, item, secrets).generation >= row.generation
           /\ SyncedRow(row, item, secrets).generation = row.generation =>
                 /\ SyncedRow(row, item, secrets).lease = row.lease
                 /\ SyncedRow(row, item, secrets).state = row.state
<1>1. row.generation \in Nat /\ item.generation \in Nat /\ item.generation # 0
  BY DEF Row, Item
<1>2. Fresh(item).generation = item.generation
  BY DEF Fresh
<1>3. ASSUME NEW v
      PROVE  /\ [row EXCEPT !.validUntil = v].generation = row.generation
             /\ [row EXCEPT !.validUntil = v].lease = row.lease
             /\ [row EXCEPT !.validUntil = v].state = row.state
  BY DEF Row
<1>4. CASE item.generation = row.generation
  BY <1>1, <1>3, <1>4 DEF SyncedRow
<1>5. CASE item.generation < row.generation \/ ~secrets
  BY <1>1, <1>3, <1>5 DEF SyncedRow
<1>6. CASE ~(item.generation < row.generation) /\ item.generation # row.generation /\ secrets
  <2>1. SyncedRow(row, item, secrets) = Fresh(item)
    BY <1>1, <1>6 DEF SyncedRow
  <2>2. SyncedRow(row, item, secrets).generation = item.generation
    BY <1>2, <2>1
  <2>3. item.generation > row.generation
    BY <1>1, <1>6
  <2>4. QED
    BY <1>1, <2>2, <2>3
<1>7. QED
  BY <1>4, <1>5, <1>6

LEMMA HolderSynced ==
    ASSUME TypeOK, HolderInv, NEW n \in Nodes, NEW items \in [Slots -> Item],
           NEW secrets \in BOOLEAN, \A s \in Slots : items[s].generation > 0,
           slots' = SyncedSlots(n, items, secrets), leases' = leases, pool' = pool,
           local' = local \/ (\A m \in Nodes, s \in Slots : local'[m][s].generation > 0),
           late' \subseteq late
    PROVE  HolderInv'
<1>1. ASSUME NEW m \in Nodes, NEW s \in Slots
      PROVE  /\ slots'[m][s].generation \in Nat
             /\ slots'[m][s].generation >= slots[m][s].generation
             /\ slots'[m][s].generation = slots[m][s].generation =>
                   /\ slots'[m][s].lease = slots[m][s].lease
                   /\ slots'[m][s].state = slots[m][s].state
  <2>1. slots[m][s] \in Row /\ slots[m][s].generation \in Nat
    BY RowType DEF Row
  <2>2. CASE m = n
    <3>1. slots'[m][s] = SyncedRow(slots[m][s], items[s], secrets)
      BY <2>2, SyncedSlotsType
    <3>2. items[s] \in Item /\ items[s].generation > 0
      OBVIOUS
    <3>3. QED
      BY <2>1, <3>1, <3>2, SyncedForward
  <2>3. CASE m # n
    BY <2>1, <2>3, SyncedSlotsType
  <2>4. QED
    BY <2>2, <2>3
<1>2. QED
  BY <1>1, HolderRows DEF HolderInv

\* What an agent with a full pool reports.
LEMMA FullItems ==
    ASSUME TypeOK, HolderInv, NEW n \in Nodes
    PROVE  /\ \A s \in Slots : Items(n)[s].generation > 0
           /\ \A m \in Nodes, s \in Slots : Reported(n)[m][s].generation > 0
<1>1. \A s \in Slots : Items(n)[s].generation > 0
  BY DEF HolderInv, Items
<1>2. ASSUME NEW m \in Nodes, NEW s \in Slots
      PROVE  Reported(n)[m][s].generation > 0
  <2>1. local[m][s] \in Local /\ local[m][s].generation > 0 /\ local \in [Nodes -> [Slots -> Local]]
    BY DEF HolderInv, TypeOK
  <2>2. Reported(n)[m][s] \in {local[m][s], [local[m][s] EXCEPT !.flag = "sent"]}
    BY <2>1 DEF Reported
  <2>3. QED
    BY <2>1, <2>2 DEF Local
<1>3. QED
  BY <1>1, <1>2

LEMMA HolderSync ==
    ASSUME TypeOK, HolderInv, NEW n \in Nodes, NEW secrets \in BOOLEAN, Sync(n, secrets)
    PROVE  HolderInv'
<1>1. Items(n) \in [Slots -> Item] /\ \A s \in Slots : Items(n)[s].generation > 0
  BY ItemsType, FullItems
<1>2. \A m \in Nodes, s \in Slots : local'[m][s].generation > 0
  BY FullItems DEF Sync
<1>3. slots' = SyncedSlots(n, Items(n), secrets) /\ UNCHANGED <<leases, pool, late>>
  BY DEF Sync
<1>4. QED
  BY <1>1, <1>2, <1>3, HolderSynced

LEMMA HolderLateSync ==
    ASSUME TypeOK, HolderInv, NEW rep \in late, NEW secrets \in BOOLEAN, LateSync(rep, secrets)
    PROVE  HolderInv'
<1>1. rep.node \in Nodes /\ rep.items \in [Slots -> Item]
  BY DEF TypeOK, Report
<1>2. \A s \in Slots : rep.items[s].generation > 0
  BY DEF HolderInv
<1>3. slots' = SyncedSlots(rep.node, rep.items, secrets)
      /\ UNCHANGED <<leases, pool, local>> /\ late' \subseteq late
  BY DEF LateSync
<1>4. QED
  BY <1>1, <1>2, <1>3, HolderSynced

\* The steps of the agents that leave both tables alone.
LEMMA HolderAgent ==
    ASSUME TypeOK, HolderInv, slots' = slots, leases' = leases, pool' = pool,
           \A n \in Nodes, s \in Slots : local'[n][s].generation > 0,
           \A rep \in late' : \A s \in Slots : rep.items[s].generation > 0
    PROVE  HolderInv'
<1>1. \A n \in Nodes, s \in Slots : slots[n][s].generation \in Nat
  BY RowType DEF Row
<1>2. QED
  BY <1>1, HolderRows

LEMMA HolderTimeOut ==
    ASSUME TypeOK, HolderInv, NEW n \in Nodes, TimeOut(n)
    PROVE  HolderInv'
<1>1. \A m \in Nodes, s \in Slots : local'[m][s].generation > 0
  BY FullItems DEF TimeOut
<1>2. \A rep \in late' : \A s \in Slots : rep.items[s].generation > 0
  <2>1. late' = late \cup {[node |-> n, items |-> Items(n)]}
    BY DEF TimeOut
  <2>2. QED
    BY <2>1, FullItems DEF HolderInv
<1>3. QED
  BY <1>1, <1>2, HolderAgent DEF TimeOut, dbVars

LEMMA HolderReadAnswer ==
    ASSUME TypeOK, HolderInv, NEW n \in Nodes, ReadAnswer(n)
    PROVE  HolderInv'
<1>1. ASSUME NEW mine \in Local, NEW v \in Nat, NEW f \in Flag
      PROVE  [mine EXCEPT !.validUntil = v, !.flag = f].generation = mine.generation
  BY DEF Local
<1>2. ASSUME NEW m \in Nodes, NEW s \in Slots
      PROVE  local'[m][s].generation = local[m][s].generation
  <2> DEFINE v == Adopted(n, local[n][s], answer[n].view[s])
             f == Verdict(local[n][s], answer[n].view[s], answer[n].asOf)
             upd == [local[n][s] EXCEPT !.validUntil = v, !.flag = f]
  <2>1. local \in [Nodes -> [Slots -> Local]] /\ local[n][s] \in Local
    BY DEF TypeOK
  <2>2. v \in Nat /\ f \in Flag
    <3>1. answer[n].view[s] \in RowView /\ answer[n].asOf \in Nat
      BY DEF TypeOK, Answer
    <3>2. QED
      BY <2>1, <3>1, AdoptedType, VerdictType
  <2>3. local'[m][s] = local[m][s] \/ (m = n /\ local'[m][s] = upd)
    BY <2>1 DEF ReadAnswer
  <2> HIDE DEF v, f
  <2>4. upd.generation = local[n][s].generation
    BY <1>1, <2>1, <2>2
  <2> HIDE DEF upd
  <2>5. QED
    BY <2>3, <2>4
<1>3. QED
  BY <1>2, HolderAgent DEF HolderInv, ReadAnswer, dbVars

LEMMA HolderSweep ==
    ASSUME TypeOK, HolderInv, NEW n \in Nodes, Sweep(n)
    PROVE  HolderInv'
<1>1. ASSUME NEW m \in Nodes, NEW s \in Slots
      PROVE  local'[m][s].generation > 0
  <2>1. local \in [Nodes -> [Slots -> Local]] /\ local[m][s].generation \in Nat
        /\ local[m][s].generation > 0
    BY DEF TypeOK, HolderInv, Local
  <2>2. QED
    BY <2>1 DEF Sweep
<1>2. QED
  BY <1>1, HolderAgent DEF HolderInv, Sweep, dbVars

LEMMA CredentialFields ==
    ASSUME NEW n, NEW s, NEW g, NEW h, h = [node |-> n, slot |-> s, generation |-> g]
    PROVE  h.node = n /\ h.slot = s /\ h.generation = g
OBVIOUS

\* A lease takes rows that are free, so no earlier lease holds their generation.
LEMMA HolderFinish ==
    ASSUME TypeOK, HolderInv, NEW t \in txns, FinishLease(t)
    PROVE  HolderInv'
<1>1. PICK pick \in [DOMAIN Hops[t.route] -> Slots], new \in Lease :
        /\ new.hops = [i \in DOMAIN Hops[t.route] |->
                [node |-> Hops[t.route][i], slot |-> pick[i],
                 generation |-> slots[Hops[t.route][i]][pick[i]].generation]]
        /\ leases' = Append(leases, new)
        /\ \A i \in DOMAIN pick : Leasable(Hops[t.route][i], pick[i])
        /\ slots' = [n \in Nodes |-> [s \in Slots |->
              IF \E i \in DOMAIN pick : Hops[t.route][i] = n /\ pick[i] = s
              THEN [slots[n][s] EXCEPT !.state = "leased", !.lease = Len(leases) + 1]
              ELSE slots[n][s]]]
  BY FinishedLease
<1>2. PICK N \in Nat : N = Len(leases) + 1
  BY LeasesFunction
<1> DEFINE Picked(n, s) == \E i \in DOMAIN pick : Hops[t.route][i] = n /\ pick[i] = s
<1>3. /\ Len(leases) \in Nat /\ DOMAIN leases = 1..Len(leases)
      /\ DOMAIN leases' = 1..N /\ leases'[N] = new
      /\ \A i \in DOMAIN leases : leases'[i] = leases[i]
  <2>1. leases' = Append(leases, new)
    BY <1>1
  <2>2. QED
    BY <1>2, <2>1, AppendedLease
<1>4. \A a \in DOMAIN new.hops :
         /\ Picked(new.hops[a].node, new.hops[a].slot)
         /\ new.hops[a] \in Credential
         /\ new.hops[a].generation = slots[new.hops[a].node][new.hops[a].slot].generation
  <2>1. new.hops \in Seq(Credential)
    BY DEF Lease
  <2>2. \A a \in DOMAIN new.hops : new.hops[a] \in Credential
    BY <2>1
  <2>3. DOMAIN new.hops = DOMAIN pick
    BY <1>1
  <2>4. \A a \in DOMAIN new.hops :
           new.hops[a] = [node |-> Hops[t.route][a], slot |-> pick[a],
                          generation |-> slots[Hops[t.route][a]][pick[a]].generation]
    BY <1>1
  <2>5. ASSUME NEW a \in DOMAIN new.hops
        PROVE  /\ new.hops[a].node = Hops[t.route][a] /\ new.hops[a].slot = pick[a]
               /\ new.hops[a].generation = slots[Hops[t.route][a]][pick[a]].generation
    <3>1. new.hops[a] = [node |-> Hops[t.route][a], slot |-> pick[a],
                         generation |-> slots[Hops[t.route][a]][pick[a]].generation]
      BY <2>4
    <3>2. QED
      BY <3>1, CredentialFields
  <2>6. QED
    BY <2>2, <2>3, <2>5
<1>5. ASSUME NEW n \in Nodes, NEW s \in Slots, Picked(n, s)
      PROVE  /\ slots[n][s].state = "active"
             /\ slots'[n][s].generation = slots[n][s].generation
             /\ slots'[n][s].lease = N /\ slots'[n][s].state = "leased"
  <2>1. slots[n][s].state = "active"
    BY <1>1, <1>5 DEF Leasable
  <2>2. slots'[n][s] = [slots[n][s] EXCEPT !.state = "leased", !.lease = N]
    BY <1>1, <1>2, <1>5
  <2>3. slots[n][s] \in Row
    BY RowType
  <2>4. QED
    BY <2>1, <2>2, <2>3 DEF Row
<1>6. ASSUME NEW n \in Nodes, NEW s \in Slots, ~Picked(n, s)
      PROVE  slots'[n][s] = slots[n][s]
  BY <1>1, <1>6
<1> HIDE DEF Picked
<1>7. ASSUME NEW a \in DOMAIN new.hops
      PROVE  Spent(N, new.hops[a])'
  <2> DEFINE n == new.hops[a].node
             s == new.hops[a].slot
  <2>1. n \in Nodes /\ s \in Slots /\ new.hops[a].generation \in Nat /\ Picked(n, s)
    BY <1>4 DEF Credential
  <2>2. new.hops[a].generation = slots'[n][s].generation
        /\ slots'[n][s].lease = N /\ slots'[n][s].state = "leased"
    BY <1>4, <1>5, <2>1
  <2>3. QED
    BY <2>1, <2>2, SMTT(30) DEF Spent
\* A row that an earlier lease still holds at its generation is not free.
<1>8. ASSUME NEW i \in DOMAIN leases, NEW a \in DOMAIN leases[i].hops
      PROVE  /\ Spent(i, leases[i].hops[a])'
             /\ \A b \in DOMAIN new.hops : leases[i].hops[a] # new.hops[b]
  <2>1. PICK h \in Credential : h = leases[i].hops[a]
    BY HopType
  <2>2. h.node \in Nodes /\ h.slot \in Slots /\ h.generation \in Nat
    BY DEF Credential
  <2>3. PICK n \in Nodes, s \in Slots : n = h.node /\ s = h.slot
    BY <2>2
  <2>4. h.generation <= slots[n][s].generation
        /\ (h.generation = slots[n][s].generation =>
               slots[n][s].lease = i /\ slots[n][s].state \in {"leased", "revoked"})
    BY <2>1, <2>3 DEF HolderInv, Spent
  <2>5. h.generation <= slots'[n][s].generation
        /\ (h.generation = slots'[n][s].generation =>
               slots'[n][s].lease = i /\ slots'[n][s].state \in {"leased", "revoked"})
    <3>1. CASE Picked(n, s)
      BY <1>5, <2>4, <3>1
    <3>2. CASE ~Picked(n, s)
      BY <1>6, <2>4, <3>2
    <3>3. QED
      BY <3>1, <3>2
  <2>6. leases'[i].hops[a] = h
    BY <1>3, <2>1
  <2>7. Spent(i, leases[i].hops[a])'
    BY <2>3, <2>5, <2>6 DEF Spent
  <2>8. ASSUME NEW b \in DOMAIN new.hops, h = new.hops[b]
        PROVE  FALSE
    <3>1. Picked(n, s) /\ h.generation = slots[n][s].generation
      BY <1>4, <2>3, <2>8
    <3>2. QED
      BY <1>5, <2>4, <3>1
  <2>9. QED
    BY <2>1, <2>7, <2>8
<1>9. \A i \in DOMAIN leases' : i = N \/ i \in DOMAIN leases
  BY <1>2, <1>3
<1>10. \A i \in DOMAIN leases' : \A a \in DOMAIN leases'[i].hops : Spent(i, leases[i].hops[a])'
  <2>1. ASSUME NEW a \in DOMAIN leases'[N].hops
        PROVE  Spent(N, leases[N].hops[a])'
    BY <1>3, <1>7
  <2>2. ASSUME NEW i \in DOMAIN leases, NEW a \in DOMAIN leases'[i].hops
        PROVE  Spent(i, leases[i].hops[a])'
    BY <1>3, <1>8
  <2>3. QED
    BY <1>9, <2>1, <2>2
<1>11. OneHolder'
  <2>1. \A i, j \in DOMAIN leases : \A a \in DOMAIN leases[i].hops, b \in DOMAIN leases[j].hops :
           leases[i].hops[a] = leases[j].hops[b] => i = j
    BY DEF HolderInv, OneHolder
  <2>2. QED
    BY <1>3, <1>8, <1>9, <2>1 DEF OneHolder
<1>12. UNCHANGED agentVars
  BY DEF FinishLease
<1>13. QED
  BY <1>10, <1>11, <1>12 DEF HolderInv, agentVars

LEMMA HolderNext ==
    MaxResizes = 0 /\ TypeOK /\ HolderInv /\ [Next]_vars => HolderInv'
<1> SUFFICES ASSUME MaxResizes = 0, TypeOK, HolderInv, [Next]_vars PROVE HolderInv'
  OBVIOUS
<1>1. ASSUME NEW d \in Devices, NEW r \in Routes, NEW k \in Keys \cup {NoKey},
             Authorize(d, r, k)
      PROVE  HolderInv'
  BY <1>1, HolderRenew, HolderStart DEF Authorize
<1>2. ASSUME NEW t \in txns, FinishLease(t)
      PROVE  HolderInv'
  BY <1>2, HolderFinish
<1>3. ASSUME NEW d \in Devices, NEW urgent \in BOOLEAN, RevokeLeases(d, urgent)
      PROVE  HolderInv'
  BY <1>3, HolderPurge
<1>4. ASSUME NEW n \in Nodes, NEW secrets \in BOOLEAN, Sync(n, secrets)
      PROVE  HolderInv'
  BY <1>4, HolderSync
<1>5. ASSUME NEW n \in Nodes, TimeOut(n) \/ ReadAnswer(n) \/ Sweep(n)
      PROVE  HolderInv'
  BY <1>5, HolderTimeOut, HolderReadAnswer, HolderSweep
<1>6. ASSUME NEW rep \in late, NEW secrets \in BOOLEAN, LateSync(rep, secrets)
      PROVE  HolderInv'
  BY <1>6, HolderLateSync
\* The other steps change nothing that the invariant speaks of.
<1>7. CASE UNCHANGED <<slots, leases, pool, local, late>>
  BY <1>7, HolderAgent DEF HolderInv
<1>8. ASSUME NEW t \in txns, Exhausted(t)
      PROVE  HolderInv'
  BY <1>7, <1>8 DEF Exhausted, agentVars
<1>9. ASSUME NEW d \in Devices, RevokeDevice(d)
      PROVE  HolderInv'
  BY <1>7, <1>9 DEF RevokeDevice, agentVars
<1>10. ASSUME NEW n \in Nodes, LoseAnswer(n)
       PROVE  HolderInv'
  BY <1>7, <1>10 DEF LoseAnswer, dbVars
<1>11. ASSUME NEW n \in Nodes, NEW P \in SUBSET Slots, Resize(n, P)
       PROVE  HolderInv'
  BY <1>11 DEF Resize, TypeOK
<1>12. CASE Tick
  BY <1>7, <1>12 DEF Tick, dbVars, agentVars
<1>13. CASE UNCHANGED vars
  BY <1>7, <1>13 DEF vars, dbVars, agentVars
<1>14. QED
  BY <1>1, <1>2, <1>3, <1>4, <1>5, <1>6, <1>8, <1>9, <1>10, <1>11, <1>12, <1>13 DEF Next

\* A slot generation is leased at most once as long as no pool is resized, for any number
\* of nodes, devices, retries, lost answers and reordered sync requests.
THEOREM OneHolderCorrect == ASSUME MaxResizes = 0 PROVE Spec => []OneHolder
<1>1. HolderInv => OneHolder
  BY DEF HolderInv
<1>2. Init => HolderInv
  BY HolderInit
<1>3. TypeOK /\ HolderInv /\ [Next]_vars => HolderInv'
  BY HolderNext
<1>4. QED
  BY <1>1, <1>2, <1>3, TypeCorrect, PTL DEF Spec

-----------------------------------------------------------------------------
(* The two tables tell the same story, however the pools are resized.        *)

\* A row with its place in the table, as a lease names it.
At(n, s) == [node |-> n, slot |-> s, generation |-> slots[n][s].generation]
HopsOf(i) == {leases[i].hops[j] : j \in DOMAIN leases[i].hops}
InUse(row) == row.state \in {"leased", "revoked"}

\* TablesAgree with what a fresh row has: a lease that takes it must find no extension there.
RowAgrees(n, s) ==
    /\ InUse(slots[n][s]) =>
          /\ slots[n][s].lease \in DOMAIN leases
          /\ At(n, s) \in HopsOf(slots[n][s].lease)
          /\ slots[n][s].state = "revoked" <=> leases[slots[n][s].lease].revoked
          /\ slots[n][s].extendTo <= leases[slots[n][s].lease].expires
    /\ ~InUse(slots[n][s]) => slots[n][s].extendTo = 0

TablesInv == \A n \in Nodes, s \in Slots : RowAgrees(n, s)

LEMMA TablesImplied == TablesInv => TablesAgree
BY DEF TablesInv, RowAgrees, TablesAgree, InUse, At, HopsOf

\* A row that keeps what it says agrees with leases that keep theirs.
LEMMA RowKept ==
    ASSUME TypeOK, NEW n \in Nodes, NEW s \in Slots, RowAgrees(n, s),
           /\ slots'[n][s].generation = slots[n][s].generation
           /\ slots'[n][s].state = slots[n][s].state
           /\ slots'[n][s].lease = slots[n][s].lease
           /\ slots'[n][s].extendTo = slots[n][s].extendTo,
           \A i \in DOMAIN leases :
              /\ i \in DOMAIN leases'
              /\ leases'[i].hops = leases[i].hops
              /\ leases'[i].revoked = leases[i].revoked
              /\ leases'[i].expires \in Nat /\ leases'[i].expires >= leases[i].expires
    PROVE  RowAgrees(n, s)'
<1>1. CASE ~InUse(slots[n][s])
  BY <1>1 DEF RowAgrees, InUse
<1>2. CASE InUse(slots[n][s])
  <2>1. PICK i \in DOMAIN leases :
          /\ slots[n][s].lease = i /\ At(n, s) \in HopsOf(i)
          /\ slots[n][s].state = "revoked" <=> leases[i].revoked
          /\ slots[n][s].extendTo <= leases[i].expires
    BY <1>2 DEF RowAgrees
  <2>2. slots[n][s].extendTo \in Nat /\ leases[i].expires \in Nat
    BY RowType, LeasesFunction DEF Row, Lease
  <2>3. HopsOf(i)' = HopsOf(i) /\ At(n, s)' = At(n, s)
    BY DEF HopsOf, At
  <2>4. slots'[n][s].extendTo <= leases'[i].expires
    BY <2>1, <2>2
  <2>5. QED
    BY <1>2, <2>1, <2>3, <2>4 DEF RowAgrees, InUse
<1>3. QED
  BY <1>1, <1>2

\* The statements of Renew: the lease it extends is intact, and its rows follow it.
Extends(i, target) ==
    /\ DOMAIN leases' = DOMAIN leases /\ Len(leases') = Len(leases)
    /\ \A j \in DOMAIN leases :
          /\ leases'[j].device = leases[j].device
          /\ leases'[j].route = leases[j].route
          /\ leases'[j].hops = leases[j].hops
          /\ leases'[j].revoked = leases[j].revoked
          /\ leases'[j].expires = IF j = i /\ target > leases[i].expires
                                  THEN target ELSE leases[j].expires
    /\ \A n \in Nodes, s \in Slots :
          /\ slots'[n][s].generation = slots[n][s].generation
          /\ slots'[n][s].validUntil = slots[n][s].validUntil
          /\ slots'[n][s].state = slots[n][s].state
          /\ slots'[n][s].lease = slots[n][s].lease
          /\ slots'[n][s].urgent = slots[n][s].urgent
          /\ slots'[n][s].extendTo =
                IF /\ target > leases[i].expires
                   /\ \E j \in DOMAIN leases[i].hops :
                         leases[i].hops[j].node = n /\ leases[i].hops[j].slot = s
                THEN target ELSE slots[n][s].extendTo

LEMMA Renewed ==
    ASSUME TypeOK, NEW d \in Devices, NEW r \in Routes, NEW k \in Keys \cup {NoKey},
           Renew(d, r, k)
    PROVE  \E i \in DOMAIN leases, target \in Nat :
             Renewable(i, d, r) /\ target = RenewalTarget(r, now) /\ Extends(i, target)
<1> DEFINE rel == ReleaseKey(d, r, k)
           target == RenewalTarget(r, now)
<1>1. target \in Nat
  BY TargetType DEF TypeOK
<1>2. PICK i \in DOMAIN leases :
        /\ Renewable(i, d, r)
        /\ leases' = [rel EXCEPT
              ![i].expires = IF target > leases[i].expires THEN target ELSE @,
              ![i].key = IF k = NoKey THEN @ ELSE k]
        /\ slots' = [n \in Nodes |-> [s \in Slots |->
              IF target > leases[i].expires
                 /\ \E j \in DOMAIN leases[i].hops :
                       leases[i].hops[j].node = n /\ leases[i].hops[j].slot = s
              THEN [slots[n][s] EXCEPT !.extendTo = target]
              ELSE slots[n][s]]]
  BY DEF Renew
<1>3. /\ rel \in Seq(Lease) /\ DOMAIN rel = DOMAIN leases /\ Len(rel) = Len(leases)
      /\ \A j \in DOMAIN leases :
            /\ rel[j] \in Lease
            /\ rel[j].device = leases[j].device /\ rel[j].hops = leases[j].hops
            /\ rel[j].expires = leases[j].expires /\ rel[j].revoked = leases[j].revoked
            /\ rel[j].route = leases[j].route
  <2>1. rel \in Seq(Lease) /\ DOMAIN rel = DOMAIN leases
    BY ReleaseKeyType
  <2>2. \A j \in DOMAIN leases : rel[j] \in Lease
    BY <2>1
  <2>3. QED
    BY <2>1, <2>2, ReleaseKeyType
<1>t. target = RenewalTarget(r, now)
  OBVIOUS
<1> HIDE DEF rel, target
<1>4. DOMAIN leases' = DOMAIN leases
  BY <1>2, <1>3
<1>5. Len(leases') = Len(leases)
  <2>1. leases' \in Seq(Lease)
    BY TypeRenew DEF TypeOK
  <2>2. DOMAIN leases' = 1..Len(leases') /\ Len(leases') \in Nat
    BY <2>1
  <2>3. QED
    BY <1>4, <2>2, LeasesFunction
<1>6. ASSUME NEW j \in DOMAIN leases
      PROVE  /\ leases'[j].device = leases[j].device
             /\ leases'[j].route = leases[j].route
             /\ leases'[j].hops = leases[j].hops
             /\ leases'[j].revoked = leases[j].revoked
             /\ leases'[j].expires = IF j = i /\ target > leases[i].expires
                                     THEN target ELSE leases[j].expires
  BY <1>2, <1>3, SMTT(30) DEF Lease
<1>7. ASSUME NEW n \in Nodes, NEW s \in Slots
      PROVE  /\ slots'[n][s].generation = slots[n][s].generation
             /\ slots'[n][s].validUntil = slots[n][s].validUntil
             /\ slots'[n][s].state = slots[n][s].state
             /\ slots'[n][s].lease = slots[n][s].lease
             /\ slots'[n][s].urgent = slots[n][s].urgent
             /\ slots'[n][s].extendTo =
                   IF /\ target > leases[i].expires
                      /\ \E j \in DOMAIN leases[i].hops :
                            leases[i].hops[j].node = n /\ leases[i].hops[j].slot = s
                   THEN target ELSE slots[n][s].extendTo
  BY <1>2, RowType DEF Row
<1>8. Extends(i, target)
  BY <1>4, <1>5, <1>6, <1>7 DEF Extends
<1>9. QED
  BY <1>1, <1>t, <1>2, <1>8

\* The statements of FinishLease: a new last lease, of rows that were leasable, ends when the
\* first of them does; the other rows stay.
TakesSlots(t, N, Picked, new) ==
    /\ N = Len(leases) + 1 /\ N \notin DOMAIN leases
    /\ leases' = Append(leases, new)
    /\ N \in DOMAIN leases' /\ leases'[N] = new
    /\ \A i \in DOMAIN leases : i \in DOMAIN leases' /\ leases'[i] = leases[i]
    /\ \A i \in DOMAIN leases' : i = N \/ i \in DOMAIN leases
    /\ new.device = t.device /\ new.route = t.route /\ new.revoked = FALSE
    /\ \A n \in Nodes, s \in Slots :
          IF <<n, s>> \in Picked
          THEN /\ Leasable(n, s)
               /\ \E a \in DOMAIN new.hops : new.hops[a] = At(n, s)
               /\ new.expires <= slots[n][s].validUntil
               /\ slots'[n][s] = [slots[n][s] EXCEPT !.state = "leased", !.lease = N]
          ELSE slots'[n][s] = slots[n][s]
    /\ \A a \in DOMAIN new.hops : \E n \in Nodes, s \in Slots :
          <<n, s>> \in Picked /\ new.hops[a] = At(n, s)
    /\ \E n \in Nodes, s \in Slots :
          <<n, s>> \in Picked /\ new.expires = slots[n][s].validUntil

LEMMA Granted ==
    ASSUME TypeOK, NEW t \in txns, FinishLease(t)
    PROVE  \E N \in Nat, Picked \in SUBSET (Nodes \X Slots), new \in Lease :
              TakesSlots(t, N, Picked, new)
<1>1. PICK pick \in [DOMAIN Hops[t.route] -> Slots] :
        /\ leases' = Append(leases,
              [device |-> t.device, route |-> t.route, key |-> t.key,
               hops |-> [i \in DOMAIN Hops[t.route] |->
                     [node |-> Hops[t.route][i], slot |-> pick[i],
                      generation |-> slots[Hops[t.route][i]][pick[i]].generation]],
               expires |-> LeaseEnd({slots[Hops[t.route][i]][pick[i]].validUntil :
                                        i \in DOMAIN pick}),
               revoked |-> FALSE, created |-> now])
        /\ \A i \in DOMAIN pick : Leasable(Hops[t.route][i], pick[i])
        /\ slots' = [n \in Nodes |-> [s \in Slots |->
              IF \E i \in DOMAIN pick : Hops[t.route][i] = n /\ pick[i] = s
              THEN [slots[n][s] EXCEPT !.state = "leased", !.lease = Len(leases) + 1]
              ELSE slots[n][s]]]
  BY DEF FinishLease
<1> DEFINE hops == [i \in DOMAIN Hops[t.route] |->
                   [node |-> Hops[t.route][i], slot |-> pick[i],
                    generation |-> slots[Hops[t.route][i]][pick[i]].generation]]
           end == LeaseEnd({slots[Hops[t.route][i]][pick[i]].validUntil : i \in DOMAIN pick})
           new == [device |-> t.device, route |-> t.route, key |-> t.key, hops |-> hops,
                   expires |-> end, revoked |-> FALSE, created |-> now]
           Picked == {<<Hops[t.route][i], pick[i]>> : i \in DOMAIN Hops[t.route]}
<1>2. /\ new \in Lease /\ leases' = Append(leases, new)
      /\ new.device = t.device /\ new.route = t.route /\ new.revoked = FALSE
      /\ new.hops = hops /\ new.expires = end
  BY <1>1, NewLeaseType
<1> HIDE DEF new
<1>3. t.route \in Routes /\ \A i \in DOMAIN Hops[t.route] : Hops[t.route][i] \in Nodes
  BY Parameters DEF TypeOK, Request
<1>4. /\ \A i \in DOMAIN Hops[t.route] : end <= slots[Hops[t.route][i]][pick[i]].validUntil
      /\ \E i \in DOMAIN Hops[t.route] : end = slots[Hops[t.route][i]][pick[i]].validUntil
  <2> DEFINE f == [i \in DOMAIN Hops[t.route] |->
                     slots[Hops[t.route][i]][pick[i]].validUntil]
  <2>1. \A i \in DOMAIN Hops[t.route] : f[i] \in Nat
    BY <1>3, RowType DEF Row
  <2>2. end = Min({f[i] : i \in DOMAIN Hops[t.route]})
    BY DEF LeaseEnd
  <2>3. \A i \in DOMAIN Hops[t.route] : f[i] = slots[Hops[t.route][i]][pick[i]].validUntil
    OBVIOUS
  <2> HIDE DEF f, end
  <2>4. /\ \A i \in DOMAIN Hops[t.route] : Min({f[j] : j \in DOMAIN Hops[t.route]}) <= f[i]
        /\ \E i \in DOMAIN Hops[t.route] : Min({f[j] : j \in DOMAIN Hops[t.route]}) = f[i]
    BY <1>3, <2>1, LeastOverHops
  <2>5. QED
    BY <2>2, <2>3, <2>4
<1>5. \A a \in DOMAIN Hops[t.route] : new.hops[a] = At(Hops[t.route][a], pick[a])
  BY <1>2 DEF At
<1>6. DOMAIN new.hops = DOMAIN Hops[t.route]
  BY <1>2
<1>7. Picked \in SUBSET (Nodes \X Slots)
  BY <1>3
<1>8. PICK N \in Nat : N = Len(leases) + 1
  BY LeasesFunction
<1>9. /\ N \notin DOMAIN leases /\ N \in DOMAIN leases' /\ leases'[N] = new
      /\ \A i \in DOMAIN leases : i \in DOMAIN leases' /\ leases'[i] = leases[i]
      /\ \A i \in DOMAIN leases' : i = N \/ i \in DOMAIN leases
  <2>1. /\ Len(leases) \in Nat /\ DOMAIN leases = 1..Len(leases)
        /\ DOMAIN leases' = 1..N /\ leases'[N] = new
        /\ \A i \in DOMAIN leases : leases'[i] = leases[i]
    BY <1>2, <1>8, AppendedLease
  <2>2. QED
    BY <1>8, <2>1
<1>10. ASSUME NEW n \in Nodes, NEW s \in Slots, <<n, s>> \in Picked
       PROVE  /\ Leasable(n, s)
              /\ \E a \in DOMAIN new.hops : new.hops[a] = At(n, s)
              /\ new.expires <= slots[n][s].validUntil
              /\ slots'[n][s] = [slots[n][s] EXCEPT !.state = "leased", !.lease = N]
  <2>1. PICK i \in DOMAIN Hops[t.route] : n = Hops[t.route][i] /\ s = pick[i]
    BY <1>10
  <2> HIDE DEF hops, end, Picked
  <2>2. slots'[n][s] = [slots[n][s] EXCEPT !.state = "leased", !.lease = N]
    BY <1>1, <1>8, <2>1
  <2>3. Leasable(n, s)
    BY <1>1, <2>1
  <2>4. QED
    BY <1>2, <1>4, <1>5, <1>6, <2>1, <2>2, <2>3
<1>11. ASSUME NEW n \in Nodes, NEW s \in Slots, <<n, s>> \notin Picked
       PROVE  slots'[n][s] = slots[n][s]
  BY <1>1, <1>11
<1>12. ASSUME NEW a \in DOMAIN new.hops
       PROVE  \E n \in Nodes, s \in Slots : <<n, s>> \in Picked /\ new.hops[a] = At(n, s)
  BY <1>3, <1>5, <1>6
<1>13. \E n \in Nodes, s \in Slots : <<n, s>> \in Picked /\ new.expires = slots[n][s].validUntil
  <2>1. PICK i \in DOMAIN Hops[t.route] : end = slots[Hops[t.route][i]][pick[i]].validUntil
    BY <1>4
  <2> HIDE DEF hops, end
  <2>2. <<Hops[t.route][i], pick[i]>> \in Picked
    OBVIOUS
  <2> HIDE DEF Picked
  <2>3. QED
    BY <1>2, <1>3, <2>1, <2>2
<1> HIDE DEF Picked, hops, end
<1>14. \A n \in Nodes, s \in Slots :
          IF <<n, s>> \in Picked
          THEN /\ Leasable(n, s)
               /\ \E a \in DOMAIN new.hops : new.hops[a] = At(n, s)
               /\ new.expires <= slots[n][s].validUntil
               /\ slots'[n][s] = [slots[n][s] EXCEPT !.state = "leased", !.lease = N]
          ELSE slots'[n][s] = slots[n][s]
  BY <1>10, <1>11
<1>15. TakesSlots(t, N, Picked, new)
  BY <1>2, <1>8, <1>9, <1>12, <1>13, <1>14 DEF TakesSlots
<1>16. QED
  BY <1>2, <1>7, <1>15
LEMMA TablesRenew ==
    ASSUME TypeOK, TablesInv,
           NEW d \in Devices, NEW r \in Routes, NEW k \in Keys \cup {NoKey}, Renew(d, r, k)
    PROVE  TablesInv'
<1>1. PICK i \in DOMAIN leases, target \in Nat : Renewable(i, d, r) /\ Extends(i, target)
  BY Renewed
<1>2. \A j \in DOMAIN leases : leases[j].expires \in Nat
  BY LeasesFunction DEF Lease
<1>3. \A j \in DOMAIN leases :
         /\ j \in DOMAIN leases' /\ leases'[j].hops = leases[j].hops
         /\ leases'[j].revoked = leases[j].revoked
         /\ leases'[j].expires \in Nat /\ leases'[j].expires >= leases[j].expires
  BY <1>1, <1>2 DEF Extends
<1>4. ASSUME NEW n \in Nodes, NEW s \in Slots
      PROVE  RowAgrees(n, s)'
  <2>1. RowAgrees(n, s)
    BY DEF TablesInv
  <2>2. CASE slots'[n][s].extendTo = slots[n][s].extendTo
    <3>1. /\ slots'[n][s].generation = slots[n][s].generation
          /\ slots'[n][s].state = slots[n][s].state
          /\ slots'[n][s].lease = slots[n][s].lease
      BY <1>1 DEF Extends
    <3>2. QED
      BY <1>3, <2>1, <2>2, <3>1, RowKept
  <2>3. CASE /\ target > leases[i].expires /\ slots'[n][s].extendTo = target
             /\ \E j \in DOMAIN leases[i].hops :
                   leases[i].hops[j].node = n /\ leases[i].hops[j].slot = s
    <3>1. slots[n][s].state = "leased" /\ slots[n][s].lease = i
      BY <1>1, <2>3 DEF Renewable, Intact, HopHeld
    <3>2. /\ At(n, s) \in HopsOf(i) /\ ~leases[i].revoked
          /\ At(n, s)' = At(n, s) /\ HopsOf(i)' = HopsOf(i)
      BY <1>1, <2>1, <3>1 DEF RowAgrees, InUse, At, HopsOf, Extends
    <3>3. leases'[i].expires = target /\ leases'[i].revoked = leases[i].revoked
      BY <1>1, <2>3 DEF Extends
    <3>4. slots'[n][s].state = "leased" /\ slots'[n][s].lease = i /\ i \in DOMAIN leases'
      BY <1>1, <3>1 DEF Extends
    <3>5. QED
      BY <2>3, <3>2, <3>3, <3>4 DEF RowAgrees, InUse
  <2>4. QED
    BY <1>1, <2>2, <2>3 DEF Extends
<1>5. QED
  BY <1>4 DEF TablesInv

LEMMA TablesStart ==
    ASSUME TypeOK, TablesInv,
           NEW d \in Devices, NEW r \in Routes, NEW k \in Keys \cup {NoKey}, StartLease(d, r, k)
    PROVE  TablesInv'
<1>1. \A i \in DOMAIN leases :
         /\ i \in DOMAIN leases' /\ leases'[i].hops = leases[i].hops
         /\ leases'[i].revoked = leases[i].revoked /\ leases'[i].expires = leases[i].expires
         /\ leases[i].expires \in Nat
  <2>1. leases' = ReleaseKey(d, r, k)
    BY DEF StartLease
  <2>2. \A i \in DOMAIN leases : leases[i].expires \in Nat
    BY LeasesFunction DEF Lease
  <2>3. QED
    BY <2>1, <2>2, ReleaseKeyType
<1>2. ASSUME NEW n \in Nodes, NEW s \in Slots
      PROVE  RowAgrees(n, s)'
  <2>1. slots'[n][s] = slots[n][s] /\ RowAgrees(n, s)
    BY DEF StartLease, TablesInv
  <2>2. QED
    BY <1>1, <2>1, RowKept
<1>3. QED
  BY <1>2 DEF TablesInv

LEMMA TablesFinish ==
    ASSUME TypeOK, TablesInv, NEW t \in txns, FinishLease(t)
    PROVE  TablesInv'
<1>1. PICK N \in Nat, Picked \in SUBSET (Nodes \X Slots), new \in Lease :
        TakesSlots(t, N, Picked, new)
  BY Granted
<1>2. \A i \in DOMAIN leases : leases[i].expires \in Nat
  BY LeasesFunction DEF Lease
<1>3. ASSUME NEW n \in Nodes, NEW s \in Slots
      PROVE  RowAgrees(n, s)'
  <2>1. RowAgrees(n, s) /\ slots[n][s] \in Row
    BY RowType DEF TablesInv
  <2>2. CASE <<n, s>> \notin Picked
    <3>1. slots'[n][s] = slots[n][s]
      BY <1>1, <2>2 DEF TakesSlots
    <3>2. \A i \in DOMAIN leases : i \in DOMAIN leases' /\ leases'[i] = leases[i]
      BY <1>1 DEF TakesSlots
    <3>3. \A i \in DOMAIN leases :
             /\ i \in DOMAIN leases' /\ leases'[i].hops = leases[i].hops
             /\ leases'[i].revoked = leases[i].revoked
             /\ leases'[i].expires \in Nat /\ leases'[i].expires >= leases[i].expires
      BY <1>2, <3>2
    <3>4. QED
      BY <2>1, <3>1, <3>3, RowKept
  <2>3. CASE <<n, s>> \in Picked
    <3>1. slots[n][s].state = "active" /\ slots[n][s].extendTo = 0
      BY <1>1, <2>1, <2>3 DEF TakesSlots, Leasable, RowAgrees, InUse
    <3>2. /\ slots'[n][s].generation = slots[n][s].generation /\ slots'[n][s].state = "leased"
          /\ slots'[n][s].lease = N /\ slots'[n][s].extendTo = 0
      BY <1>1, <2>1, <2>3, <3>1, ZenonT(60) DEF TakesSlots, Row
    <3>3. N \in DOMAIN leases' /\ leases'[N] = new /\ new.revoked = FALSE /\ new.expires >= 0
      <4>1. N \in DOMAIN leases' /\ leases'[N] = new /\ new.revoked = FALSE
        BY <1>1 DEF TakesSlots
      <4>2. new.expires \in Nat
        BY DEF Lease
      <4>3. QED
        BY <4>1, <4>2
    <3>4. At(n, s)' = At(n, s)
      BY <3>2 DEF At
    <3>5. At(n, s) \in HopsOf(N)'
      BY <1>1, <2>3, <3>3 DEF TakesSlots, HopsOf
    <3>6. QED
      BY <3>2, <3>3, <3>4, <3>5 DEF RowAgrees, InUse
  <2>4. QED
    BY <2>2, <2>3
<1>4. QED
  BY <1>3 DEF TablesInv

LEMMA TablesRevoke ==
    ASSUME TypeOK, TablesInv, NEW d \in Devices, NEW urgent \in BOOLEAN, RevokeLeases(d, urgent)
    PROVE  TablesInv'
<1>1. /\ DOMAIN leases' = DOMAIN leases
      /\ \A i \in DOMAIN leases :
            /\ leases'[i].hops = leases[i].hops
            /\ leases'[i].expires = leases[i].expires
            /\ leases'[i].revoked = (leases[i].revoked \/ i \in LiveLeases(d))
            /\ leases[i].revoked \in BOOLEAN /\ leases[i].expires \in Nat
  BY RevokedLeases, LeasesFunction DEF Lease
<1>2. ASSUME NEW n \in Nodes, NEW s \in Slots
      PROVE  RowAgrees(n, s)'
  <2>1. RowAgrees(n, s) /\ slots[n][s] \in Row
    BY RowType DEF TablesInv
  <2>2. CASE slots[n][s].state = "leased" /\ slots[n][s].lease \in LiveLeases(d)
    <3>1. PICK i \in DOMAIN leases : i = slots[n][s].lease /\ i \in LiveLeases(d)
      BY <2>2 DEF LiveLeases
    <3>2. slots'[n][s] = [slots[n][s] EXCEPT !.state = "revoked", !.urgent = urgent]
      BY <2>2 DEF RevokeLeases
    <3>3. /\ slots'[n][s].state = "revoked" /\ slots'[n][s].lease = i
          /\ slots'[n][s].generation = slots[n][s].generation
          /\ slots'[n][s].extendTo = slots[n][s].extendTo
      BY <2>1, <3>1, <3>2 DEF Row
    <3>4. At(n, s)' = At(n, s) /\ HopsOf(i)' = HopsOf(i)
      BY <1>1, <3>3 DEF At, HopsOf
    <3>5. At(n, s) \in HopsOf(i) /\ slots[n][s].extendTo <= leases[i].expires
      BY <2>1, <2>2, <3>1 DEF RowAgrees, InUse
    <3>6. i \in DOMAIN leases' /\ leases'[i].revoked /\ leases'[i].expires = leases[i].expires
      BY <1>1, <3>1
    <3>7. QED
      BY <3>3, <3>4, <3>5, <3>6 DEF RowAgrees, InUse
  <2>3. CASE ~(slots[n][s].state = "leased" /\ slots[n][s].lease \in LiveLeases(d))
    <3>1. slots'[n][s] = slots[n][s]
      BY <2>3 DEF RevokeLeases
    <3>2. CASE ~InUse(slots[n][s])
      BY <2>1, <3>1, <3>2 DEF RowAgrees
    <3>3. CASE InUse(slots[n][s])
      <4>1. PICK i \in DOMAIN leases : i = slots[n][s].lease
        BY <2>1, <3>3 DEF RowAgrees
      <4>2. At(n, s)' = At(n, s) /\ HopsOf(i)' = HopsOf(i)
        BY <1>1, <3>1 DEF At, HopsOf
      <4>3. leases'[i].revoked <=> leases[i].revoked
        BY <1>1, <2>1, <2>3, <3>3, <4>1 DEF RowAgrees, InUse, LiveLeases
      <4>4. QED
        BY <1>1, <2>1, <3>1, <3>3, <4>1, <4>2, <4>3 DEF RowAgrees
    <3>4. QED
      BY <3>2, <3>3
  <2>4. QED
    BY <2>2, <2>3
<1>3. QED
  BY <1>2 DEF TablesInv

\* A sync call keeps a row that is in use as it is, or frees it without an extension.
LEMMA SyncedKeeps ==
    ASSUME NEW row \in Row, NEW item \in Item, NEW secrets \in BOOLEAN
    PROVE  \/ /\ SyncedRow(row, item, secrets).generation = row.generation
              /\ SyncedRow(row, item, secrets).state = row.state
              /\ SyncedRow(row, item, secrets).lease = row.lease
              /\ SyncedRow(row, item, secrets).extendTo = row.extendTo
           \/ /\ ~InUse(SyncedRow(row, item, secrets))
              /\ SyncedRow(row, item, secrets).extendTo = 0
<1>1. ASSUME NEW v
      PROVE  /\ [row EXCEPT !.validUntil = v].generation = row.generation
             /\ [row EXCEPT !.validUntil = v].state = row.state
             /\ [row EXCEPT !.validUntil = v].lease = row.lease
             /\ [row EXCEPT !.validUntil = v].extendTo = row.extendTo
  BY DEF Row
<1>2. ~InUse(Fresh(item)) /\ Fresh(item).extendTo = 0 /\ ~InUse(NoRow) /\ NoRow.extendTo = 0
  BY DEF Fresh, NoRow, InUse
<1>3. QED
  BY <1>1, <1>2 DEF SyncedRow

LEMMA TablesSynced ==
    ASSUME TypeOK, TablesInv, NEW n \in Nodes, NEW items \in [Slots -> Item],
           NEW secrets \in BOOLEAN, slots' = SyncedSlots(n, items, secrets), leases' = leases
    PROVE  TablesInv'
<1>1. \A i \in DOMAIN leases :
         /\ i \in DOMAIN leases' /\ leases'[i].hops = leases[i].hops
         /\ leases'[i].revoked = leases[i].revoked
         /\ leases'[i].expires \in Nat /\ leases'[i].expires >= leases[i].expires
  BY LeasesFunction DEF Lease
<1>2. ASSUME NEW m \in Nodes, NEW s \in Slots
      PROVE  RowAgrees(m, s)'
  <2>1. RowAgrees(m, s) /\ slots[m][s] \in Row /\ items[s] \in Item
    BY RowType DEF TablesInv
  <2>2. slots'[m][s] = IF m = n THEN SyncedRow(slots[m][s], items[s], secrets) ELSE slots[m][s]
    BY SyncedSlotsType
  <2>3. CASE /\ slots'[m][s].generation = slots[m][s].generation
             /\ slots'[m][s].state = slots[m][s].state
             /\ slots'[m][s].lease = slots[m][s].lease
             /\ slots'[m][s].extendTo = slots[m][s].extendTo
    BY <1>1, <2>1, <2>3, RowKept
  <2>4. CASE ~InUse(slots'[m][s]) /\ slots'[m][s].extendTo = 0
    BY <2>4 DEF RowAgrees, InUse
  <2>5. QED
    BY <2>1, <2>2, <2>3, <2>4, SyncedKeeps
<1>3. QED
  BY <1>2 DEF TablesInv

LEMMA TablesInit == Init => TablesInv
BY DEF Init, TablesInv, RowAgrees, InUse, NoRow

LEMMA TablesNext == TypeOK /\ TablesInv /\ [Next]_vars => TablesInv'
<1> SUFFICES ASSUME TypeOK, TablesInv, [Next]_vars PROVE TablesInv'
  OBVIOUS
<1>1. ASSUME NEW d \in Devices, NEW r \in Routes, NEW k \in Keys \cup {NoKey},
             Authorize(d, r, k)
      PROVE  TablesInv'
  BY <1>1, TablesRenew, TablesStart DEF Authorize
<1>2. ASSUME NEW t \in txns, FinishLease(t)
      PROVE  TablesInv'
  BY <1>2, TablesFinish
<1>3. ASSUME NEW d \in Devices, NEW urgent \in BOOLEAN, RevokeLeases(d, urgent)
      PROVE  TablesInv'
  BY <1>3, TablesRevoke
<1>4. ASSUME NEW n \in Nodes, NEW secrets \in BOOLEAN, Sync(n, secrets)
      PROVE  TablesInv'
  <2>1. slots' = SyncedSlots(n, Items(n), secrets) /\ leases' = leases
    BY <1>4 DEF Sync
  <2>2. QED
    BY <2>1, ItemsType, TablesSynced
<1>5. ASSUME NEW rep \in late, NEW secrets \in BOOLEAN, LateSync(rep, secrets)
      PROVE  TablesInv'
  <2>1. slots' = SyncedSlots(rep.node, rep.items, secrets) /\ leases' = leases
    BY <1>5 DEF LateSync
  <2>2. rep.node \in Nodes /\ rep.items \in [Slots -> Item]
    BY DEF TypeOK, Report
  <2>3. QED
    BY <2>1, <2>2, TablesSynced
\* The other steps leave both tables alone.
<1>6. CASE UNCHANGED <<slots, leases>>
  BY <1>6 DEF TablesInv, RowAgrees, At, HopsOf
<1>7. ASSUME \/ \E t \in txns : Exhausted(t)
             \/ \E d \in Devices : RevokeDevice(d)
             \/ \E n \in Nodes : TimeOut(n) \/ LoseAnswer(n) \/ ReadAnswer(n) \/ Sweep(n)
             \/ \E n \in Nodes, P \in SUBSET Slots : Resize(n, P)
             \/ Tick
             \/ UNCHANGED vars
      PROVE  UNCHANGED <<slots, leases>>
  BY <1>7 DEF Exhausted, RevokeDevice, TimeOut, LoseAnswer, ReadAnswer, Sweep, Resize, Tick,
              vars, dbVars, agentVars
<1>8. QED
  BY <1>1, <1>2, <1>3, <1>4, <1>5, <1>6, <1>7 DEF Next

-----------------------------------------------------------------------------
(* No slot is wasted.  The lock is what makes it inductive: between the look *)
(* at the leases and the taking of slots, no other call of the device        *)
(* changes them.                                                             *)

\* A call that may take slots: there is nothing its device could renew.
Warranted(t) ==
    \/ Candidates(t.device, t.route) = {}
    \/ \E i \in DOMAIN leases : Latest(i, t.device, t.route) /\ ~Intact(i)

WasteInv ==
    /\ \A t, u \in txns : t.device = u.device => t = u
    /\ \A t \in txns : Warranted(t)

\* It stays so while the device's leases do and no broken lease is made whole.
LEMMA WarrantedKept ==
    ASSUME TypeOK, NEW t, Warranted(t), now' = now,
           \A i \in DOMAIN leases : i \in DOMAIN leases',
           \A i \in DOMAIN leases' :
              leases'[i].device = t.device => i \in DOMAIN leases /\ leases[i].device = t.device,
           \A i \in DOMAIN leases : leases[i].device = t.device =>
              /\ leases'[i].device = leases[i].device /\ leases'[i].route = leases[i].route
              /\ leases'[i].revoked = leases[i].revoked
              /\ leases'[i].expires = leases[i].expires
              /\ leases'[i].hops = leases[i].hops,
           \A i \in DOMAIN leases, h \in Credential : HopHeld(i, h)' => HopHeld(i, h)
    PROVE  Warranted(t)'
<1>1. Candidates(t.device, t.route)' = Candidates(t.device, t.route)
  BY DEF Candidates, Of
<1>2. CASE Candidates(t.device, t.route) = {}
  BY <1>1, <1>2 DEF Warranted
<1>3. ASSUME NEW i \in DOMAIN leases, Latest(i, t.device, t.route), ~Intact(i)
      PROVE  Latest(i, t.device, t.route)' /\ ~Intact(i)'
  <2>1. \A j \in Candidates(t.device, t.route) :
           j \in DOMAIN leases /\ leases[j].device = t.device
    BY DEF Candidates, Of
  <2>2. Latest(i, t.device, t.route)'
    BY <1>1, <1>3, <2>1 DEF Latest
  <2>3. leases'[i].hops = leases[i].hops
    BY <1>3, <2>1 DEF Latest
  <2>4. PICK a \in DOMAIN leases[i].hops : ~HopHeld(i, leases[i].hops[a])
    BY <1>3 DEF Intact
  <2>5. ~HopHeld(i, leases[i].hops[a])'
    <3>1. PICK h \in Credential : h = leases[i].hops[a]
      BY HopType
    <3>2. ~HopHeld(i, h)'
      BY <2>4, <3>1
    <3>3. leases'[i].hops[a] = h
      BY <2>3, <3>1
    <3>4. QED
      BY <3>2, <3>3
  <2>6. QED
    BY <2>2, <2>3, <2>5 DEF Intact
<1>4. QED
  BY <1>2, <1>3 DEF Warranted

LEMMA WasteRenew ==
    ASSUME TypeOK, WasteInv,
           NEW d \in Devices, NEW r \in Routes, NEW k \in Keys \cup {NoKey}, Renew(d, r, k)
    PROVE  WasteInv'
<1>1. txns' = txns /\ now' = now /\ \A t \in txns : t.device # d
  BY DEF Renew, MayAuthorize, Locked
<1>2. PICK i \in DOMAIN leases, target \in Nat : Renewable(i, d, r) /\ Extends(i, target)
  BY Renewed
<1>3. leases[i].device = d
  BY <1>2 DEF Renewable, Latest, Candidates, Of
<1>4. ASSUME NEW t \in txns
      PROVE  Warranted(t)'
  <2>1. /\ DOMAIN leases' = DOMAIN leases
        /\ \A j \in DOMAIN leases :
              /\ leases'[j].device = leases[j].device /\ leases'[j].route = leases[j].route
              /\ leases'[j].hops = leases[j].hops /\ leases'[j].revoked = leases[j].revoked
              /\ j # i => leases'[j].expires = leases[j].expires
    BY <1>2 DEF Extends
  <2>2. t.device # leases[i].device
    BY <1>1, <1>3
  <2>3. \A j \in DOMAIN leases, h \in Credential : HopHeld(j, h)' => HopHeld(j, h)
    BY <1>2 DEF Extends, HopHeld, Credential
  <2>4. Warranted(t)
    BY DEF WasteInv
  <2>5. QED
    BY <1>1, <2>1, <2>2, <2>3, <2>4, WarrantedKept
<1>5. QED
  BY <1>1, <1>4 DEF WasteInv

LEMMA WasteStart ==
    ASSUME TypeOK, WasteInv,
           NEW d \in Devices, NEW r \in Routes, NEW k \in Keys \cup {NoKey}, StartLease(d, r, k)
    PROVE  WasteInv'
<1> DEFINE new == [device |-> d, route |-> r, key |-> k]
<1>1. /\ now' = now /\ slots' = slots /\ txns' \subseteq txns \cup {new}
      /\ \A t \in txns : t.device # d
      /\ Candidates(d, r) = {} \/ \E i \in DOMAIN leases : Latest(i, d, r) /\ ~Intact(i)
  BY DEF StartLease, MayAuthorize, Locked
<1>2. new.device = d /\ new.route = r
  OBVIOUS
<1> HIDE DEF new
<1>3. Warranted(new)
  BY <1>1, <1>2 DEF Warranted
<1>4. ASSUME NEW t \in txns \cup {new}
      PROVE  Warranted(t)'
  <2>1. Warranted(t)
    BY <1>3 DEF WasteInv
  <2>2. /\ DOMAIN leases' = DOMAIN leases
        /\ \A j \in DOMAIN leases :
              /\ leases'[j].device = leases[j].device /\ leases'[j].route = leases[j].route
              /\ leases'[j].hops = leases[j].hops /\ leases'[j].revoked = leases[j].revoked
              /\ leases'[j].expires = leases[j].expires
    BY ReleaseKeyType DEF StartLease
  <2>3. \A j \in DOMAIN leases, h \in Credential : HopHeld(j, h)' => HopHeld(j, h)
    BY <1>1 DEF HopHeld
  <2>4. QED
    BY <1>1, <2>1, <2>2, <2>3, WarrantedKept
<1>5. \A t, u \in txns' : t.device = u.device => t = u
  BY <1>1, <1>2 DEF WasteInv
<1>6. QED
  BY <1>1, <1>4, <1>5 DEF WasteInv

\* The lease that is added is of a device that has no other call under way.
LEMMA WasteFinish ==
    ASSUME TypeOK, WasteInv, NEW t \in txns, FinishLease(t)
    PROVE  WasteInv'
<1>1. PICK N \in Nat, Picked \in SUBSET (Nodes \X Slots), new \in Lease :
        TakesSlots(t, N, Picked, new)
  BY Granted
<1>2. now' = now /\ txns' = txns \ {t}
  BY DEF FinishLease
<1>3. /\ N \notin DOMAIN leases /\ leases'[N].device = t.device
      /\ \A i \in DOMAIN leases : i \in DOMAIN leases' /\ leases'[i] = leases[i]
      /\ \A i \in DOMAIN leases' : i = N \/ i \in DOMAIN leases
  BY <1>1 DEF TakesSlots
<1>4. ASSUME NEW u \in txns, u # t
      PROVE  Warranted(u)'
  <2>1. Warranted(u) /\ u.device # t.device
    BY <1>4 DEF WasteInv
  <2>2. ASSUME NEW j \in DOMAIN leases, NEW n \in Nodes, NEW s \in Slots, slots'[n][s].lease = j
        PROVE  slots'[n][s] = slots[n][s]
    <3>1. CASE <<n, s>> \in Picked
      <4>1. slots'[n][s] = [slots[n][s] EXCEPT !.state = "leased", !.lease = N]
            /\ slots[n][s] \in Row
        BY <1>1, <3>1, RowType DEF TakesSlots
      <4>2. slots'[n][s].lease = N
        BY <4>1 DEF Row
      <4>3. QED
        BY <1>3, <2>2, <4>2
    <3>2. CASE <<n, s>> \notin Picked
      BY <1>1, <3>2 DEF TakesSlots
    <3>3. QED
      BY <3>1, <3>2
  <2>3. \A j \in DOMAIN leases, h \in Credential : HopHeld(j, h)' => HopHeld(j, h)
    BY <2>2 DEF HopHeld, Credential
  <2>4. QED
    BY <1>2, <1>3, <2>1, <2>3, WarrantedKept
<1>5. QED
  BY <1>2, <1>4 DEF WasteInv

LEMMA WasteRevoke ==
    ASSUME TypeOK, WasteInv, NEW d \in Devices, NEW urgent \in BOOLEAN, RevokeLeases(d, urgent)
    PROVE  WasteInv'
<1>1. txns' = txns /\ now' = now /\ \A t \in txns : t.device # d
  BY DEF RevokeLeases, Locked
<1>2. ASSUME NEW t \in txns
      PROVE  Warranted(t)'
  <2>1. DOMAIN leases' = DOMAIN leases
        /\ \A j \in DOMAIN leases : leases'[j].device = leases[j].device
    BY RevokedLeases
  <2>2. \A j \in DOMAIN leases : leases[j].device = t.device => leases'[j] = leases[j]
    BY <1>1, RevokedLeases DEF LiveLeases
  <2>3. ASSUME NEW j \in DOMAIN leases, NEW h \in Credential, HopHeld(j, h)'
        PROVE  HopHeld(j, h)
    <3>1. PICK n \in Nodes, s \in Slots : h.node = n /\ h.slot = s
      BY DEF Credential
    <3>2. slots[n][s] \in Row
      BY RowType
    <3>3. slots'[n][s] = slots[n][s]
          \/ slots'[n][s] = [slots[n][s] EXCEPT !.state = "revoked", !.urgent = urgent]
      BY DEF RevokeLeases
    <3>4. slots'[n][s].state = "leased"
      BY <2>3, <3>1 DEF HopHeld
    <3>5. slots'[n][s] = slots[n][s]
      BY <3>2, <3>3, <3>4 DEF Row
    <3>6. QED
      BY <2>3, <3>1, <3>5 DEF HopHeld
  <2>4. Warranted(t)
    BY DEF WasteInv
  <2>5. QED
    BY <1>1, <2>1, <2>2, <2>3, <2>4, WarrantedKept
<1>3. QED
  BY <1>1, <1>2 DEF WasteInv

\* A sync call never makes a broken lease whole: a row that it writes anew is free.
LEMMA WasteSynced ==
    ASSUME TypeOK, WasteInv, NEW n \in Nodes, NEW items \in [Slots -> Item],
           NEW secrets \in BOOLEAN, slots' = SyncedSlots(n, items, secrets),
           leases' = leases, txns' = txns, now' = now
    PROVE  WasteInv'
<1>1. ASSUME NEW m \in Nodes, NEW s \in Slots, slots'[m][s].state = "leased"
      PROVE  /\ slots'[m][s].generation = slots[m][s].generation
             /\ slots'[m][s].state = slots[m][s].state
             /\ slots'[m][s].lease = slots[m][s].lease
  <2>1. slots[m][s] \in Row /\ items[s] \in Item
    BY RowType
  <2>2. slots'[m][s] = IF m = n THEN SyncedRow(slots[m][s], items[s], secrets) ELSE slots[m][s]
    BY SyncedSlotsType
  <2>3. QED
    BY <1>1, <2>1, <2>2, SyncedKeeps DEF InUse
<1>2. \A i \in DOMAIN leases, h \in Credential : HopHeld(i, h)' => HopHeld(i, h)
  BY <1>1 DEF HopHeld, Credential
<1>3. ASSUME NEW t \in txns
      PROVE  Warranted(t)'
  <2>1. Warranted(t)
    BY DEF WasteInv
  <2>2. QED
    BY <1>2, <2>1, WarrantedKept
<1>4. QED
  BY <1>3 DEF WasteInv

LEMMA WasteNext == TypeOK /\ WasteInv /\ [Next]_vars => WasteInv'
<1> SUFFICES ASSUME TypeOK, WasteInv, [Next]_vars PROVE WasteInv'
  OBVIOUS
<1>1. ASSUME NEW d \in Devices, NEW r \in Routes, NEW k \in Keys \cup {NoKey},
             Authorize(d, r, k)
      PROVE  WasteInv'
  BY <1>1, WasteRenew, WasteStart DEF Authorize
<1>2. ASSUME NEW t \in txns, FinishLease(t)
      PROVE  WasteInv'
  BY <1>2, WasteFinish
<1>3. ASSUME NEW d \in Devices, NEW urgent \in BOOLEAN, RevokeLeases(d, urgent)
      PROVE  WasteInv'
  BY <1>3, WasteRevoke
<1>4. ASSUME NEW n \in Nodes, NEW secrets \in BOOLEAN, Sync(n, secrets)
      PROVE  WasteInv'
  <2>1. /\ slots' = SyncedSlots(n, Items(n), secrets)
        /\ leases' = leases /\ txns' = txns /\ now' = now
    BY <1>4 DEF Sync
  <2>2. QED
    BY <2>1, ItemsType, WasteSynced
<1>5. ASSUME NEW rep \in late, NEW secrets \in BOOLEAN, LateSync(rep, secrets)
      PROVE  WasteInv'
  <2>1. /\ slots' = SyncedSlots(rep.node, rep.items, secrets)
        /\ leases' = leases /\ txns' = txns /\ now' = now
    BY <1>5 DEF LateSync
  <2>2. rep.node \in Nodes /\ rep.items \in [Slots -> Item]
    BY DEF TypeOK, Report
  <2>3. QED
    BY <2>1, <2>2, WasteSynced
<1>6. CASE UNCHANGED <<now, slots, leases>> /\ txns' \subseteq txns
  <2>1. ASSUME NEW t \in txns
        PROVE  Warranted(t)'
    <3>1. Warranted(t)
      BY DEF WasteInv
    <3>2. QED
      BY <1>6, <3>1, ZenonT(60) DEF Warranted, Candidates, Latest, Of, Intact, HopHeld
  <2>2. QED
    BY <1>6, <2>1, ZenonT(60) DEF WasteInv
<1>7. ASSUME \/ \E t \in txns : Exhausted(t)
             \/ \E d \in Devices : RevokeDevice(d)
             \/ \E n \in Nodes : TimeOut(n) \/ LoseAnswer(n) \/ ReadAnswer(n) \/ Sweep(n)
             \/ \E n \in Nodes, P \in SUBSET Slots : Resize(n, P)
             \/ UNCHANGED vars
      PROVE  UNCHANGED <<now, slots, leases>> /\ txns' \subseteq txns
  BY <1>7 DEF Exhausted, RevokeDevice, TimeOut, LoseAnswer, ReadAnswer, Sweep, Resize,
              vars, dbVars, agentVars
<1>8. CASE Tick
  BY <1>8 DEF Tick, dbVars, WasteInv
<1>9. QED
  BY <1>1, <1>2, <1>3, <1>4, <1>5, <1>6, <1>7, <1>8 DEF Next

\* The rows name a lease that names them, are revoked when it is and never outlast it, and a
\* call takes slots only for a device that has nothing to renew.
THEOREM LeasesAgreeCorrect == Spec => []LeasesAgree
<1>1. Init => TablesInv /\ WasteInv
  BY TablesInit DEF Init, WasteInv
<1>2. TablesInv /\ WasteInv => LeasesAgree
  BY TablesImplied DEF LeasesAgree, WasteInv, Warranted, NoSlotWasted
<1>3. QED
  BY <1>1, <1>2, TypeCorrect, TablesNext, WasteNext, PTL DEF Spec
=============================================================================
