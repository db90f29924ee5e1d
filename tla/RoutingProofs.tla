------------------------------ MODULE RoutingProofs ------------------------------
(***************************************************************************)
(* Proofs about RouteDirectory, NodeEnrollment and NodeHealth.             *)
(*                                                                         *)
(* RouteDirectory, for every fleet, every set of paths and every bound: a  *)
(* route that was published stays one that authorize finds, and a version  *)
(* of the directory names one list of routes, when no two isolates sign at *)
(* once (SignersApart).  The order that diverseOrder sorts by is a strict  *)
(* order of the nodes (BeforeOrder), so that ranks differ and fill 1..n    *)
(* (Ranks), and the sorted sequence has every node of the set              *)
(* (DiverseOrderHolds).  What is published of a path are then nodes that   *)
(* fit their hops, and all that fit are candidates when the search is      *)
(* exhaustive (DirectHops, DoubleHops), for whatever load.  The invariant  *)
(* says of a call that is about to sign what its version is to be: the one *)
(* its routes have, or one that nobody has signed (SignerFits), although a *)
(* revocation may have moved the version since.                            *)
(*                                                                         *)
(* NodeEnrollment, for any nodes, servers, tokens, crashes and acts of the *)
(* administrator: a token binds one key, a bound key is on the disk of the *)
(* server that was set up for the node, and a contained node stays         *)
(* contained (EnrollmentCorrect).                                          *)
(*                                                                         *)
(* NodeHealth, for any peers, liars, thresholds and requests at once:      *)
(* automation takes a failed node back only when silence failed it, no     *)
(* liar degrades a node that an honest peer finds working, and the word    *)
(* about a silent node is out (HealthCorrect), when a heartbeat overlaps   *)
(* no other, no sweep and no two orders (~OverlappingReports).             *)
(***************************************************************************)
EXTENDS RouteDirectory, NodeEnrollment, NodeHealth, FiniteSetTheorems, TLAPS

-----------------------------------------------------------------------------
(* The order of candidates *)

HostsFit == hosts \in [Hosts -> Host]

\* byLoadThenId is a strict order in which any two nodes differ, ...
LEMMA LoadOrder ==
    ASSUME HostsFit
    PROVE  /\ \A n, o \in Hosts : byLoadThenId(n, o) \in BOOLEAN
           /\ \A n \in Hosts : ~byLoadThenId(n, n)
           /\ \A n, o \in Hosts : n # o => byLoadThenId(n, o) \/ byLoadThenId(o, n)
           /\ \A n, o, p \in Hosts : byLoadThenId(n, o) /\ byLoadThenId(o, p) => byLoadThenId(n, p)
<1> DEFINE load(n) == IF hosts[n].users = Unreported THEN Capacity + 1 ELSE hosts[n].users
<1>1. \A n \in Hosts : load(n) \in Nat /\ n \in Nat
  <2>1. \A n \in Hosts : hosts[n].users \in Configured
    BY DEF HostsFit, Host
  <2>2. \A n \in Hosts : hosts[n].users = -1 \/ hosts[n].users \in Nat
    BY <2>1, DirectoryParameters DEF Configured, Unreported
  <2>3. QED
    BY <2>2, DirectoryParameters DEF Unreported
<1>2. \A n, o \in Hosts : byLoadThenId(n, o) <=> load(n) < load(o) \/ (load(n) = load(o) /\ n < o)
  BY DEF byLoadThenId
<1>3. \A n, o \in Hosts : byLoadThenId(n, o) \in BOOLEAN
  BY DEF byLoadThenId
<1> HIDE DEF load
<1>4. QED
  BY <1>1, <1>2, <1>3

\* ... and so is the order that puts one node of each failure domain first.
LEMMA BeforeOrder ==
    ASSUME HostsFit, NEW S \in SUBSET Hosts
    PROVE  /\ \A n \in S : ~before(S, n, n)
           /\ \A n, o \in S : n # o => before(S, n, o) \/ before(S, o, n)
           /\ \A n, o, p \in S : before(S, n, o) /\ before(S, o, p) => before(S, n, p)
<1> DEFINE first(n) == leads(S, n)
<1>1. \A n \in S : first(n) \in BOOLEAN
  BY DEF leads
<1>2. \A n, o \in S : before(S, n, o) = IF first(n) <=> first(o) THEN byLoadThenId(n, o) ELSE first(n)
  BY DEF before
<1>3. \A n \in S : n \in Hosts
  OBVIOUS
<1> HIDE DEF first
<1>4. QED
  BY <1>1, <1>2, <1>3, LoadOrder

LEMMA Ranks ==
    ASSUME HostsFit, NEW S \in SUBSET Hosts
    PROVE  /\ IsFiniteSet(S) /\ Cardinality(S) \in Nat
           /\ \A n \in S : rank(S, n) \in 1..Cardinality(S)
           /\ \A n, o \in S : rank(S, n) = rank(S, o) => n = o
<1> DEFINE Ahead(n) == {m \in S : before(S, m, n)}
<1>1. IsFiniteSet(S) /\ Cardinality(S) \in Nat
  BY DirectoryParameters, FS_Subset, FS_CardinalityType
<1>2. \A n \in S : IsFiniteSet(Ahead(n)) /\ Cardinality(Ahead(n)) \in Nat
  <2>1. \A n \in S : Ahead(n) \in SUBSET S
    OBVIOUS
  <2>2. QED
    BY <1>1, <2>1, FS_Subset, FS_CardinalityType
<1>3. \A n \in S : Cardinality(Ahead(n)) < Cardinality(S)
  <2> TAKE n \in S
  <2>1. Ahead(n) \in SUBSET (S \ {n})
    BY BeforeOrder
  <2>2. IsFiniteSet(S \ {n}) /\ Cardinality(S \ {n}) = Cardinality(S) - 1
    BY <1>1, FS_RemoveElement
  <2>3. Cardinality(Ahead(n)) <= Cardinality(S \ {n})
    BY <2>1, <2>2, FS_Subset
  <2>4. QED
    BY <1>1, <1>2, <2>2, <2>3
<1>4. \A n, o \in S : before(S, n, o) => Cardinality(Ahead(n)) < Cardinality(Ahead(o))
  <2> SUFFICES ASSUME NEW n \in S, NEW o \in S, before(S, n, o)
               PROVE  Cardinality(Ahead(n)) < Cardinality(Ahead(o))
    OBVIOUS
  <2>1. n \in Ahead(o)
    OBVIOUS
  <2>2. Ahead(n) \in SUBSET (Ahead(o) \ {n})
    BY BeforeOrder
  <2> HIDE DEF Ahead
  <2>3. IsFiniteSet(Ahead(o) \ {n}) /\ Cardinality(Ahead(o) \ {n}) = Cardinality(Ahead(o)) - 1
    BY <1>2, <2>1, FS_RemoveElement
  <2>4. Cardinality(Ahead(n)) <= Cardinality(Ahead(o) \ {n})
    BY <2>2, <2>3, FS_Subset
  <2>5. QED
    BY <1>2, <2>3, <2>4
<1>5. \A n \in S : rank(S, n) = 1 + Cardinality(Ahead(n))
  BY DEF rank
<1> HIDE DEF Ahead
<1>6. \A n, o \in S : rank(S, n) = rank(S, o) => n = o
  BY <1>2, <1>4, <1>5, BeforeOrder
<1>7. QED
  BY <1>1, <1>2, <1>3, <1>5, <1>6

\* Everything that is to be ordered is in the sequence, and nothing else.
LEMMA DiverseOrderHolds ==
    ASSUME HostsFit, NEW S \in SUBSET Hosts
    PROVE  /\ diverseOrder(S) \in Seq(S) /\ Len(diverseOrder(S)) \in Nat
           /\ \A n \in S : \E k \in DOMAIN diverseOrder(S) : diverseOrder(S)[k] = n
<1> DEFINE N == Cardinality(S)
           ranks == [n \in S |-> rank(S, n)]
<1>1. N \in Nat /\ IsFiniteSet(1..N) /\ Cardinality(1..N) = N
  BY Ranks, FS_Interval
<1>2. ranks \in Injection(S, 1..N)
  BY Ranks DEF Injection, IsInjective
<1>3. ranks \in Surjection(S, 1..N)
  <2> HIDE DEF ranks, N
  <2>1. Cardinality(S) = Cardinality(1..N)
    BY <1>1 DEF N
  <2>2. QED
    BY <1>1, <1>2, <2>1, FS_Injection
<1>4. \A k \in 1..N : \E n \in S : rank(S, n) = k
  BY <1>3 DEF Surjection
<1>5. diverseOrder(S) = [k \in 1..N |-> CHOOSE n \in S : rank(S, n) = k]
  BY DEF diverseOrder
<1> HIDE DEF N
<1>6. \A k \in 1..N : diverseOrder(S)[k] \in S /\ rank(S, diverseOrder(S)[k]) = k
  BY <1>4, <1>5
<1>7. DOMAIN diverseOrder(S) = 1..N
  BY <1>5
<1>8. diverseOrder(S) \in Seq(S)
  <2>1. diverseOrder(S) \in [1..N -> S]
    BY <1>5, <1>6
  <2>2. QED
    BY <1>1, <2>1
<1>9. \A n \in S : \E k \in 1..N : diverseOrder(S)[k] = n
  <2> TAKE n \in S
  <2>1. rank(S, n) \in 1..N
    BY Ranks DEF N
  <2>2. diverseOrder(S)[rank(S, n)] = n
    BY <1>6, <2>1, Ranks
  <2>3. QED
    BY <2>1, <2>2
<1>10. QED
  BY <1>7, <1>8, <1>9

-----------------------------------------------------------------------------
(* Candidates *)

\* The nodes that may be the hop of a role at a location.
Fit(location, role, held) ==
    {n \in Hosts : isEligible(n, held) /\ HostLocation[n] = location /\ (n \in Exits) = (role = "EXIT")}

LEMMA PoolHolds ==
    ASSUME HostsFit, NEW location, NEW role, NEW held
    PROVE  LET p == pool(location, role, held)
               S == Fit(location, role, held)
           IN  /\ p \in Seq(S) /\ Len(p) \in Nat /\ DOMAIN p = 1..Len(p)
               /\ \A n \in S : \E k \in DOMAIN p : p[k] = n
<1> DEFINE S == Fit(location, role, held)
<1>1. S \in SUBSET Hosts
  BY DEF Fit
<1>2. pool(location, role, held) = diverseOrder(S)
  BY DEF pool, Fit
<1> HIDE DEF S
<1>3. QED
  BY <1>1, <1>2, DiverseOrderHolds DEF S

\* What is published for a path has a fitting node at each hop, and whoever authorizes may choose any.
LEMMA DirectHops ==
    ASSUME HostsFit, NEW path, path[1] = "none", NEW held
    PROVE  /\ \A nodes \in HopsOf(path, FALSE, held) : \E e \in Fit(path[2], "EXIT", held) : nodes = <<e>>
           /\ \A e \in Fit(path[2], "EXIT", held) : <<e>> \in HopsOf(path, TRUE, held)
<1> DEFINE exits == pool(path[2], "EXIT", held)
           upTo == 1..(IF Len(exits) < MAX_CANDIDATES THEN Len(exits) ELSE MAX_CANDIDATES)
           S == Fit(path[2], "EXIT", held)
<1>1. /\ exits \in Seq(S) /\ Len(exits) \in Nat /\ DOMAIN exits = 1..Len(exits)
      /\ \A n \in S : \E k \in DOMAIN exits : exits[k] = n
  BY PoolHolds
<1>2. HopsOf(path, FALSE, held) = {<<exits[k]>> : k \in upTo}
  BY DEF HopsOf
<1>3. HopsOf(path, TRUE, held) = {<<exits[k]>> : k \in DOMAIN exits}
  BY DEF HopsOf
<1>4. \A k \in upTo : k \in DOMAIN exits
  BY <1>1, DirectoryParameters
<1>5. \A k \in DOMAIN exits : exits[k] \in S
  BY <1>1
<1> HIDE DEF exits, upTo, S
<1>6. \A nodes \in HopsOf(path, FALSE, held) : \E e \in S : nodes = <<e>>
  BY <1>2, <1>4, <1>5
<1>7. \A e \in S : <<e>> \in HopsOf(path, TRUE, held)
  BY <1>1, <1>3
<1>8. QED
  BY <1>6, <1>7 DEF S

OfTwo(path, held, nodes) ==
    \E m \in Fit(path[1], "RELAY", held), e \in Fit(path[2], "EXIT", held) : nodes = <<m, e>>

LEMMA DoubleHops ==
    ASSUME HostsFit, NEW path, path[1] # "none", NEW held
    PROVE  /\ \A nodes \in HopsOf(path, FALSE, held) : OfTwo(path, held, nodes)
           /\ \A m \in Fit(path[1], "RELAY", held), e \in Fit(path[2], "EXIT", held) :
                  <<m, e>> \in HopsOf(path, TRUE, held)
<1> DEFINE exits == pool(path[2], "EXIT", held)
           relays == pool(path[1], "RELAY", held)
           longer == IF Len(relays) < Len(exits) THEN Len(exits) ELSE Len(relays)
           upTo == 1..(IF longer < MAX_CANDIDATES THEN longer ELSE MAX_CANDIDATES)
           around(s, k) == s[1 + ((k - 1) % Len(s))]
           E == Fit(path[2], "EXIT", held)
           R == Fit(path[1], "RELAY", held)
<1>1. /\ exits \in Seq(E) /\ Len(exits) \in Nat /\ DOMAIN exits = 1..Len(exits)
      /\ \A n \in E : \E k \in DOMAIN exits : exits[k] = n
  BY PoolHolds
<1>2. /\ relays \in Seq(R) /\ Len(relays) \in Nat /\ DOMAIN relays = 1..Len(relays)
      /\ \A n \in R : \E k \in DOMAIN relays : relays[k] = n
  BY PoolHolds
<1>3. HopsOf(path, FALSE, held) =
          {<<around(relays, k), around(exits, k)>> : k \in IF relays = <<>> \/ exits = <<>> THEN {} ELSE upTo}
  BY DEF HopsOf
<1>4. \A k \in DOMAIN relays, l \in DOMAIN exits : <<relays[k], exits[l]>> \in HopsOf(path, TRUE, held)
  <2> DEFINE H == HopsOf(path, TRUE, held)
  <2>1. H = {<<relays[k], exits[l]>> : k \in DOMAIN relays, l \in DOMAIN exits}
    BY DEF HopsOf
  <2> HIDE DEF H, relays, exits
  <2>2. \A k \in DOMAIN relays, l \in DOMAIN exits : <<relays[k], exits[l]>> \in H
    BY <2>1
  <2>3. QED
    BY <2>2 DEF H
<1>5. \A S, s : s \in Seq(S) /\ s # <<>> => \A k \in upTo : around(s, k) \in S
  <2> SUFFICES ASSUME NEW S, NEW s, s \in Seq(S), s # <<>>, NEW k \in upTo
               PROVE  around(s, k) \in S
    OBVIOUS
  <2>1. Len(s) \in Nat \ {0} /\ DOMAIN s = 1..Len(s)
    OBVIOUS
  <2>2. k - 1 \in Nat
    BY <1>1, <1>2, DirectoryParameters
  <2>3. (k - 1) % Len(s) \in 0..(Len(s) - 1)
    BY <2>1, <2>2
  <2>4. 1 + ((k - 1) % Len(s)) \in DOMAIN s
    BY <2>1, <2>3
  <2>5. QED
    BY <2>4
<1>6. \A k \in DOMAIN exits : exits[k] \in E
  BY <1>1
<1>7. \A k \in DOMAIN relays : relays[k] \in R
  BY <1>2
<1>8. relays # <<>> /\ exits # <<>> => \A k \in upTo : around(relays, k) \in R /\ around(exits, k) \in E
  BY <1>1, <1>2, <1>5
<1> HIDE DEF exits, relays, upTo, E, R, around
<1>9. \A nodes \in HopsOf(path, FALSE, held) : \E m \in R, e \in E : nodes = <<m, e>>
  BY <1>3, <1>8
<1>10. \A m \in R, e \in E : <<m, e>> \in HopsOf(path, TRUE, held)
  <2> TAKE m \in R, e \in E
  <2>1. PICK k \in DOMAIN relays : relays[k] = m
    BY <1>2
  <2>2. PICK l \in DOMAIN exits : exits[l] = e
    BY <1>1
  <2>3. <<relays[k], exits[l]>> \in HopsOf(path, TRUE, held)
    BY <1>4
  <2>4. QED
    BY <2>1, <2>2, <2>3
<1>11. QED
  BY <1>9, <1>10 DEF E, R, OfTwo

-----------------------------------------------------------------------------
(* Routes *)

\* A route as it is published: a permitted shape, with hops of the right roles and places.
RouteFits(r) ==
    /\ r \in Route
    /\ IF r.path[1] = "none"
       THEN \E e \in Exits, x \in 0..MaxFleetChanges :
                /\ HostLocation[e] = r.path[2]
                /\ r.hops = <<[node |-> e, endpoint |-> x]>>
       ELSE \E m \in Hosts \ Exits, e \in Exits, x, y \in 0..MaxFleetChanges :
                /\ HostLocation[m] = r.path[1] /\ HostLocation[e] = r.path[2]
                /\ r.hops = <<[node |-> m, endpoint |-> x], [node |-> e, endpoint |-> y]>>

LEMMA RouteIds ==
    ASSUME HostsFit, NEW path
    PROVE  /\ \A e \in Hosts : routeIdFor(path, <<e>>) =
                  [path |-> path, hops |-> <<[node |-> e, endpoint |-> hosts[e].endpoint]>>]
           /\ \A m, e \in Hosts : routeIdFor(path, <<m, e>>) =
                  [path |-> path, hops |-> <<[node |-> m, endpoint |-> hosts[m].endpoint],
                                             [node |-> e, endpoint |-> hosts[e].endpoint]>>]
<1>1. ASSUME NEW e \in Hosts
      PROVE  [k \in DOMAIN <<e>> |-> [node |-> <<e>>[k], endpoint |-> hosts[<<e>>[k]].endpoint]]
                 = <<[node |-> e, endpoint |-> hosts[e].endpoint]>>
  OBVIOUS
<1>2. ASSUME NEW m \in Hosts, NEW e \in Hosts
      PROVE  [k \in DOMAIN <<m, e>> |-> [node |-> <<m, e>>[k], endpoint |-> hosts[<<m, e>>[k]].endpoint]]
                 = <<[node |-> m, endpoint |-> hosts[m].endpoint], [node |-> e, endpoint |-> hosts[e].endpoint]>>
  OBVIOUS
<1>3. QED
  BY <1>1, <1>2 DEF routeIdFor

\* What is rendered are routes.
LEMMA Rendered ==
    ASSUME HostsFit, permitted \subseteq Paths, NEW r \in buildRouteCandidates(FALSE, {})
    PROVE  RouteFits(r)
<1>1. PICK path \in permitted : \E nodes \in HopsOf(path, FALSE, {}) : r = routeIdFor(path, nodes)
  BY DEF buildRouteCandidates
<1>2. PICK nodes \in HopsOf(path, FALSE, {}) : r = routeIdFor(path, nodes)
  BY <1>1
<1>3. path \in Paths /\ \A n \in Hosts : hosts[n].endpoint \in 0..MaxFleetChanges
  BY DEF HostsFit, Host
<1>4. CASE path[1] = "none"
  <2>1. PICK e \in Fit(path[2], "EXIT", {}) : nodes = <<e>>
    BY <1>2, <1>4, DirectHops, ZenonT(40)
  <2>2. e \in Exits /\ e \in Hosts /\ HostLocation[e] = path[2]
    BY <2>1 DEF Fit
  <2>3. r = [path |-> path, hops |-> <<[node |-> e, endpoint |-> hosts[e].endpoint]>>]
    BY <1>2, <2>1, <2>2, RouteIds
  <2>4. [node |-> e, endpoint |-> hosts[e].endpoint] \in Hop
    BY <1>3, <2>2 DEF Hop
  <2>5. r \in Route
    BY <1>3, <2>3, <2>4 DEF Route
  <2>6. /\ r.path = path /\ r.hops = <<[node |-> e, endpoint |-> hosts[e].endpoint]>>
        /\ hosts[e].endpoint \in 0..MaxFleetChanges
    BY <1>3, <2>2, <2>3
  <2>7. QED
    BY <1>4, <2>2, <2>5, <2>6 DEF RouteFits
<1>5. CASE path[1] # "none"
  <2>1. PICK m \in Fit(path[1], "RELAY", {}), e \in Fit(path[2], "EXIT", {}) : nodes = <<m, e>>
    <3>1. OfTwo(path, {}, nodes)
      BY <1>2, <1>5, DoubleHops
    <3>2. QED
      BY <3>1 DEF OfTwo
  <2>2. e \in Exits /\ e \in Hosts /\ HostLocation[e] = path[2] /\ m \in Hosts \ Exits /\ HostLocation[m] = path[1]
    BY <2>1 DEF Fit
  <2> DEFINE near == [node |-> m, endpoint |-> hosts[m].endpoint]
             far == [node |-> e, endpoint |-> hosts[e].endpoint]
  <2>3. r = [path |-> path, hops |-> <<near, far>>]
    BY <1>2, <2>1, <2>2, RouteIds
  <2>4. near \in Hop /\ far \in Hop
    BY <1>3, <2>2 DEF Hop
  <2>5. r \in Route
    <3> HIDE DEF near, far
    <3>1. QED
      BY <1>3, <2>3, <2>4 DEF Route
  <2>6. /\ r.path = path /\ r.hops = <<near, far>>
        /\ hosts[m].endpoint \in 0..MaxFleetChanges /\ hosts[e].endpoint \in 0..MaxFleetChanges
    BY <1>3, <2>2, <2>3
  <2>7. QED
    BY <1>5, <2>2, <2>5, <2>6 DEF RouteFits
<1>6. QED
  BY <1>4, <1>5

\* A route whose path is permitted, whose nodes serve with room, and whose endpoints are still the nodes'
\* is among the candidates of whoever authorizes.
LEMMA Resolving ==
    ASSUME HostsFit, NEW r, RouteFits(r), r.path \in permitted, NEW held,
           \A k \in DOMAIN r.hops : /\ isEligible(r.hops[k].node, held)
                                    /\ hosts[r.hops[k].node].endpoint = r.hops[k].endpoint
    PROVE  r \in buildRouteCandidates(TRUE, held)
<1> DEFINE path == r.path
<1>1. r = [path |-> path, hops |-> r.hops]
  BY DEF RouteFits, Route
<1>2. \A nodes \in HopsOf(path, TRUE, held) : routeIdFor(path, nodes) \in buildRouteCandidates(TRUE, held)
  <2> SUFFICES ASSUME NEW nodes \in HopsOf(path, TRUE, held)
               PROVE  routeIdFor(path, nodes) \in buildRouteCandidates(TRUE, held)
    OBVIOUS
  <2> DEFINE of(p) == {routeIdFor(p, ns) : ns \in HopsOf(p, TRUE, held)}
  <2>1. routeIdFor(path, nodes) \in of(path) /\ path \in permitted
    OBVIOUS
  <2>2. buildRouteCandidates(TRUE, held) = UNION {of(p) : p \in permitted}
    BY DEF buildRouteCandidates
  <2> HIDE DEF of, path
  <2>3. QED
    BY <2>1, <2>2
<1>3. CASE path[1] = "none"
  <2>1. PICK e \in Exits, x \in 0..MaxFleetChanges :
            HostLocation[e] = path[2] /\ r.hops = <<[node |-> e, endpoint |-> x]>>
    BY <1>3 DEF RouteFits
  <2>2. r.hops[1] = [node |-> e, endpoint |-> x] /\ 1 \in DOMAIN r.hops
    BY <2>1
  <2>3. e \in Hosts /\ isEligible(e, held) /\ hosts[e].endpoint = x
    BY <2>1, <2>2, DirectoryParameters
  <2>4. e \in Fit(path[2], "EXIT", held)
    BY <2>1, <2>3 DEF Fit
  <2>5. <<e>> \in HopsOf(path, TRUE, held)
    BY <1>3, <2>4, DirectHops
  <2>6. routeIdFor(path, <<e>>) = r
    BY <1>1, <2>1, <2>3, RouteIds
  <2>7. QED
    BY <1>2, <2>5, <2>6
<1>4. CASE path[1] # "none"
  <2>1. PICK m \in Hosts \ Exits, e \in Exits, x \in 0..MaxFleetChanges, y \in 0..MaxFleetChanges :
            /\ HostLocation[m] = path[1] /\ HostLocation[e] = path[2]
            /\ r.hops = <<[node |-> m, endpoint |-> x], [node |-> e, endpoint |-> y]>>
    BY <1>4 DEF RouteFits
  <2>2. /\ r.hops[1] = [node |-> m, endpoint |-> x] /\ 1 \in DOMAIN r.hops
        /\ r.hops[2] = [node |-> e, endpoint |-> y] /\ 2 \in DOMAIN r.hops
    BY <2>1
  <2>3. /\ e \in Hosts /\ isEligible(e, held) /\ hosts[e].endpoint = y
        /\ m \in Hosts /\ isEligible(m, held) /\ hosts[m].endpoint = x
    BY <2>1, <2>2, DirectoryParameters
  <2>4. e \in Fit(path[2], "EXIT", held) /\ m \in Fit(path[1], "RELAY", held)
    BY <2>1, <2>3 DEF Fit
  <2>5. <<m, e>> \in HopsOf(path, TRUE, held)
    BY <1>4, <2>4, DoubleHops
  <2>6. routeIdFor(path, <<m, e>>) = r
    BY <1>1, <2>1, <2>3, RouteIds
  <2>7. QED
    BY <1>2, <2>5, <2>6
<1>5. QED
  BY <1>3, <1>4

-----------------------------------------------------------------------------
(* The invariant *)

Signing == [pc : {"idle", "state", "write"}, routes : SUBSET Route, version : Nat, same : BOOLEAN]

Typed ==
    /\ DirectoryTypeOK
    /\ signer \in [Isolates -> Signing] /\ cache \in [Isolates -> Envelope]
    /\ directory \in [version : Nat, routes : SUBSET Route]

EndpointsFit == \A n \in Hosts : hosts[n].endpoint <= fleetChanges

\* What was published, and what is about to be, are routes.
RoutesFit ==
    /\ \A e \in signed : \A r \in e.routes : RouteFits(r)
    /\ \A i \in Isolates : \A r \in signer[i].routes : RouteFits(r)

OneSigner == \A i, j \in Isolates : signer[i].pc # "idle" /\ signer[j].pc # "idle" => i = j

\* A call that is about to write knows the version that its routes have, or one that nobody has signed.
SignerFits(i) ==
    signer[i].pc = "write" =>
        IF signer[i].same
        THEN /\ signer[i].routes = directory.routes /\ signer[i].version <= directory.version
             /\ \A e \in signed : e.version = signer[i].version => e.routes = signer[i].routes
        ELSE \A e \in signed : e.version < signer[i].version

\* The directory has the last version, and its routes.
LastVersion ==
    \A e \in signed : /\ e.version <= directory.version
                      /\ e.version = directory.version => e.routes = directory.routes

DirectoryInv ==
    /\ Typed /\ EndpointsFit /\ RoutesFit
    /\ OneSigner /\ (\A i \in Isolates : SignerFits(i)) /\ LastVersion /\ VersionNamesOneList

LEMMA DirectoryInvInit ==
    ASSUME DirectoryInit
    PROVE  DirectoryInv
<1>1. /\ hosts \in [Hosts -> Host] /\ fleetChanges \in 0..MaxFleetChanges /\ EndpointsFit
  BY DirectoryParameters DEF DirectoryInit, Host, Configured, EndpointsFit
<1>2. NotSigning \in Signing /\ NoEnvelope \in Envelope
  BY DEF NotSigning, Signing, NoEnvelope, Envelope
<1>3. /\ signer \in [Isolates -> Signing] /\ cache \in [Isolates -> Envelope]
      /\ directory \in [version : Nat, routes : SUBSET Route]
  BY <1>2 DEF DirectoryInit
<1>4. \A i \in Isolates : signer[i].pc = "idle" /\ signer[i].routes = {} /\ cache[i] = NoEnvelope
  BY DEF DirectoryInit, NotSigning
<1>5. DirectoryTypeOK
  BY <1>1, <1>4, DirectoryParameters DEF DirectoryTypeOK, DirectoryInit
<1>6. Typed
  BY <1>3, <1>5 DEF Typed
<1>7. signed = {}
  BY DEF DirectoryInit
<1>8. QED
  BY <1>1, <1>4, <1>6, <1>7 DEF DirectoryInv, RoutesFit, OneSigner, SignerFits, LastVersion, VersionNamesOneList

-----------------------------------------------------------------------------
(* The fleet *)

\* The fleet moves on: whatever the directory's version becomes, its routes are what they were.
LEMMA FleetMoves ==
    ASSUME DirectoryInv, UNCHANGED <<signer, cache, signed, assigned>>,
           hosts' \in [Hosts -> Host], permitted' \subseteq Paths, fleetChanges' \in 0..MaxFleetChanges,
           \A n \in Hosts : hosts'[n].endpoint <= fleetChanges',
           directory' = directory \/ directory' = [directory EXCEPT !.version = @ + 1]
    PROVE  DirectoryInv'
<1> USE DEF DirectoryInv
<1>1. /\ directory' \in [version : Nat, routes : SUBSET Route]
      /\ directory'.version >= directory.version /\ directory'.routes = directory.routes
  BY DEF Typed
<1>2. Typed'
  <2>1. DOMAIN directory' = {"version", "routes"} /\ directory'.version \in Nat
    BY <1>1
  <2>2. DirectoryTypeOK'
    BY <2>1 DEF Typed, DirectoryTypeOK
  <2>3. QED
    BY <1>1, <2>2 DEF Typed
<1>3. EndpointsFit'
  BY DEF EndpointsFit
<1>4. RoutesFit' /\ OneSigner' /\ VersionNamesOneList'
  BY DEF RoutesFit, OneSigner, VersionNamesOneList
<1>5. \A e \in signed : e.version \in Nat
  BY DEF Typed, DirectoryTypeOK, Envelope
<1>6. LastVersion'
  BY <1>1, <1>5 DEF LastVersion, Typed
<1>7. \A i \in Isolates : SignerFits(i)'
  <2> TAKE i \in Isolates
  <2>1. signer[i].version \in Nat
    BY DEF Typed, Signing
  <2>2. QED
    BY <1>1, <2>1 DEF SignerFits, Typed
<1>8. QED
  BY <1>2, <1>3, <1>4, <1>6, <1>7

LEMMA FleetStepKeeps ==
    ASSUME DirectoryInv, FleetStep
    PROVE  DirectoryInv'
<1> USE DEF DirectoryInv
<1>1. /\ hosts \in [Hosts -> Host] /\ permitted \subseteq Paths
      /\ fleetChanges \in Nat /\ fleetChanges + 1 \in 0..MaxFleetChanges
      /\ \A n \in Hosts : hosts[n] \in Host /\ hosts[n].endpoint \in Nat /\ hosts[n].endpoint <= fleetChanges
  BY DirectoryParameters DEF Typed, DirectoryTypeOK, FleetStep, Host, EndpointsFit
<1>2. ASSUME NEW n \in Hosts, NEW h \in Host, h.endpoint <= fleetChanges + 1,
             FleetChanges([hosts EXCEPT ![n] = h]),
             directory' = directory \/ directory' = [directory EXCEPT !.version = @ + 1]
      PROVE  DirectoryInv'
  <2>1. hosts' = [hosts EXCEPT ![n] = h] /\ fleetChanges' = fleetChanges + 1
        /\ UNCHANGED <<permitted, signer, cache, signed, assigned>>
    BY <1>2 DEF FleetChanges
  <2>2. hosts' \in [Hosts -> Host]
    BY <1>1, <2>1
  <2>3. \A m \in Hosts : hosts'[m].endpoint <= fleetChanges'
    BY <1>1, <1>2, <2>1
  <2>4. QED
    BY <1>1, <1>2, <2>1, <2>2, <2>3, FleetMoves
<1>3. ASSUME NEW n \in Hosts, NEW k \in 0..Capacity, HostReports(n, k)
      PROVE  DirectoryInv'
  <2> DEFINE h == [hosts[n] EXCEPT !.users = k]
  <2>1. h \in Host /\ h.endpoint <= fleetChanges + 1
    BY <1>1 DEF Host, Configured
  <2>2. FleetChanges([hosts EXCEPT ![n] = h]) /\ directory' = directory
    <3>1. [hosts EXCEPT ![n].users = k] = [hosts EXCEPT ![n] = h]
      OBVIOUS
    <3>2. QED
      BY <1>3, <3>1 DEF HostReports
  <2> HIDE DEF h
  <2>3. QED
    BY <1>2, <2>1, <2>2
<1>4. ASSUME NEW n \in Hosts, NEW s \in {"READY", "CANARY", "DOWN"}, HostMoves(n, s) \/ (s = "DOWN" /\ HostIsRevoked(n))
      PROVE  DirectoryInv'
  <2> DEFINE h == [hosts[n] EXCEPT !.state = s]
  <2>1. h \in Host /\ h.endpoint <= fleetChanges + 1
    BY <1>1 DEF Host
  <2>2. /\ FleetChanges([hosts EXCEPT ![n] = h])
        /\ directory' = directory \/ directory' = [directory EXCEPT !.version = @ + 1]
    <3>1. [hosts EXCEPT ![n].state = s] = [hosts EXCEPT ![n] = h]
      OBVIOUS
    <3>2. QED
      BY <1>4, <3>1 DEF HostMoves, HostIsRevoked
  <2> HIDE DEF h
  <2>3. QED
    BY <1>2, <2>1, <2>2
<1>5. ASSUME NEW n \in Hosts, HostEnrolsAgain(n)
      PROVE  DirectoryInv'
  <2> DEFINE h == [hosts[n] EXCEPT !.endpoint = hosts[n].endpoint + 1, !.users = Unreported]
  <2>1. hosts[n].endpoint + 1 \in 0..MaxFleetChanges /\ hosts[n].endpoint + 1 <= fleetChanges + 1
    BY <1>1, DirectoryParameters
  <2>2. h \in Host /\ h.endpoint <= fleetChanges + 1
    BY <1>1, <2>1 DEF Host, Configured
  <2>3. FleetChanges([hosts EXCEPT ![n] = h]) /\ directory' = directory
    <3>1. [hosts EXCEPT ![n].endpoint = @ + 1, ![n].users = Unreported] = [hosts EXCEPT ![n] = h]
      BY <1>1
    <3>2. QED
      BY <1>5, <3>1 DEF HostEnrolsAgain
  <2> HIDE DEF h
  <2>4. QED
    BY <1>2, <2>2, <2>3
<1>6. ASSUME NEW p \in Paths, PathIsToggled(p)
      PROVE  DirectoryInv'
  BY <1>1, <1>6, FleetMoves DEF PathIsToggled
<1>7. QED
  BY <1>3, <1>4, <1>5, <1>6 DEF FleetStep

-----------------------------------------------------------------------------
(* Signing *)

LEMMA LoadRoutesKeeps ==
    ASSUME SignersApart, DirectoryInv, NEW i \in Isolates, LoadRoutes(i)
    PROVE  DirectoryInv'
<1> USE DEF DirectoryInv
<1> DEFINE routes == buildRouteCandidates(FALSE, {})
           entry == [pc |-> "state", routes |-> routes, version |-> 0, same |-> FALSE]
<1>1. HostsFit /\ permitted \subseteq Paths
  BY DEF HostsFit, Typed, DirectoryTypeOK
<1>2. \A r \in routes : RouteFits(r)
  BY <1>1, Rendered
<1>3. signer' = [signer EXCEPT ![i] = entry] /\ \A j \in Isolates : signer[j].pc = "idle"
  BY DEF LoadRoutes, Renders
<1>4. UNCHANGED <<hosts, permitted, fleetChanges, directory, cache, signed, assigned>>
  BY DEF LoadRoutes
<1> HIDE DEF routes
<1>5. entry \in Signing
  BY <1>2 DEF Signing, RouteFits
<1>6. signer \in [Isolates -> Signing]
  BY DEF Typed
<1>7. signer'[i] = entry /\ \A j \in Isolates \ {i} : signer'[j] = signer[j]
  BY <1>3, <1>6
<1>8. Typed'
  <2>1. signer' \in [Isolates -> Signing]
    BY <1>3, <1>5, <1>6
  <2>2. DirectoryTypeOK'
    BY <1>4, <2>1 DEF Typed, DirectoryTypeOK, Signing
  <2>3. QED
    BY <1>4, <2>1, <2>2 DEF Typed
<1>9. EndpointsFit' /\ LastVersion' /\ VersionNamesOneList'
  BY <1>4 DEF EndpointsFit, LastVersion, VersionNamesOneList
<1>10. RoutesFit'
  BY <1>2, <1>4, <1>7 DEF RoutesFit
<1>11. OneSigner' /\ \A j \in Isolates : SignerFits(j)'
  BY <1>3, <1>7 DEF OneSigner, SignerFits
<1>12. QED
  BY <1>8, <1>9, <1>10, <1>11

LEMMA ReadDirectoryStateKeeps ==
    ASSUME DirectoryInv, NEW i \in Isolates, ReadDirectoryState(i)
    PROVE  DirectoryInv'
<1> USE DEF DirectoryInv
<1> DEFINE same == signer[i].routes = directory.routes
           version == IF same THEN directory.version ELSE directory.version + 1
           entry == [signer[i] EXCEPT !.pc = "write", !.same = same, !.version = version]
<1>1. UNCHANGED <<hosts, permitted, fleetChanges, directory, cache, signed, assigned>>
  BY DEF ReadDirectoryState
<1>2. signer \in [Isolates -> Signing] /\ signer[i] \in Signing /\ directory.version \in Nat
  BY DEF Typed
<1>3. signer' = [signer EXCEPT ![i] = entry]
  BY DEF ReadDirectoryState
<1>4. version \in Nat /\ same \in BOOLEAN
  BY <1>2
<1>5. entry.pc = "write" /\ entry.same = same /\ entry.version = version /\ entry.routes = signer[i].routes
  BY <1>2 DEF Signing
<1>6. entry \in Signing
  <2> HIDE DEF same, version
  <2>1. QED
    BY <1>2, <1>4 DEF Signing
<1> HIDE DEF entry
<1>7. signer'[i] = entry /\ \A j \in Isolates \ {i} : signer'[j] = signer[j]
  BY <1>2, <1>3
<1>8. Typed'
  <2>1. signer' \in [Isolates -> Signing]
    BY <1>2, <1>3, <1>6
  <2>2. DirectoryTypeOK'
    BY <1>1, <2>1 DEF Typed, DirectoryTypeOK, Signing
  <2>3. QED
    BY <1>1, <2>1, <2>2 DEF Typed
<1>9. EndpointsFit' /\ LastVersion' /\ VersionNamesOneList'
  BY <1>1 DEF EndpointsFit, LastVersion, VersionNamesOneList
<1>10. RoutesFit'
  BY <1>1, <1>5, <1>7 DEF RoutesFit
<1>11. OneSigner'
  BY <1>7 DEF OneSigner, ReadDirectoryState
<1>12. SignerFits(i)'
  <2>1. \A e \in signed : e.version \in Nat
    BY DEF Typed, DirectoryTypeOK, Envelope
  <2>2. CASE same
    <3>1. /\ signer'[i].pc = "write" /\ signer'[i].same
          /\ signer'[i].routes = directory.routes /\ signer'[i].version = directory.version
      BY <1>5, <1>7, <2>2
    <3>2. QED
      BY <1>1, <1>2, <3>1 DEF SignerFits, LastVersion
  <2>3. CASE ~same
    <3>1. signer'[i].pc = "write" /\ ~signer'[i].same /\ signer'[i].version = directory.version + 1
      BY <1>5, <1>7, <2>3
    <3>2. QED
      BY <1>1, <1>2, <2>1, <3>1 DEF SignerFits, LastVersion
  <2>4. QED
    BY <2>2, <2>3
<1>13. \A j \in Isolates \ {i} : SignerFits(j)'
  BY <1>1, <1>7 DEF SignerFits
<1>14. QED
  BY <1>8, <1>9, <1>10, <1>11, <1>12, <1>13

\* Nobody signs meanwhile: the envelope has the routes of its version, or a version of its own.
LEMMA SignDirectoryKeeps ==
    ASSUME DirectoryInv, NEW i \in Isolates, SignDirectory(i)
    PROVE  DirectoryInv'
<1> USE DEF DirectoryInv
<1> DEFINE envelope == [version |-> signer[i].version, routes |-> signer[i].routes]
<1>1. /\ signer[i].pc = "write"
      /\ directory' = IF signer[i].same THEN directory ELSE envelope
      /\ signed' = signed \cup {envelope}
      /\ cache' = [cache EXCEPT ![i] = envelope]
      /\ signer' = [signer EXCEPT ![i] = NotSigning]
      /\ UNCHANGED <<hosts, permitted, fleetChanges, assigned>>
  BY DEF SignDirectory
<1>2. /\ signer \in [Isolates -> Signing] /\ signer[i] \in Signing /\ cache \in [Isolates -> Envelope]
      /\ directory \in [version : Nat, routes : SUBSET Route] /\ \A e \in signed : e.version \in Nat
  BY DEF Typed, DirectoryTypeOK, Envelope
<1>3. envelope \in Envelope /\ envelope \in [version : Nat, routes : SUBSET Route]
  BY <1>2 DEF Envelope, Signing
<1>4. envelope.version = signer[i].version /\ envelope.routes = signer[i].routes
  OBVIOUS
<1> HIDE DEF envelope
<1>5. signer'[i] = NotSigning /\ \A j \in Isolates \ {i} : signer'[j] = signer[j] /\ signer[j].pc = "idle"
  BY <1>1, <1>2 DEF OneSigner
<1>6. directory' \in [version : Nat, routes : SUBSET Route]
  BY <1>1, <1>2, <1>3
<1>7. Typed'
  <2>1. signer' \in [Isolates -> Signing] /\ cache' \in [Isolates -> Envelope]
    BY <1>1, <1>2, <1>3 DEF Signing, NotSigning
  <2>2. \A j \in Isolates : cache'[j] = NoEnvelope \/ cache'[j] \in signed'
    BY <1>1, <1>2 DEF Typed, DirectoryTypeOK
  <2>3. DOMAIN directory' = {"version", "routes"} /\ directory'.version \in Nat
    BY <1>6
  <2>4. \A j \in Isolates : signer'[j].pc \in {"idle", "state", "write"}
    BY <2>1 DEF Signing
  <2>5. DirectoryTypeOK'
    BY <1>1, <1>3, <2>2, <2>3, <2>4 DEF Typed, DirectoryTypeOK
  <2>6. QED
    BY <1>6, <2>1, <2>5 DEF Typed
<1>8. EndpointsFit'
  BY <1>1 DEF EndpointsFit
<1>9. RoutesFit'
  BY <1>1, <1>4, <1>5 DEF RoutesFit, NotSigning
<1>10. OneSigner' /\ \A j \in Isolates : SignerFits(j)'
  BY <1>5 DEF OneSigner, SignerFits, NotSigning
<1>11. \A e \in signed : e.version = envelope.version => e.routes = envelope.routes
  BY <1>1, <1>2, <1>4 DEF SignerFits
<1>12. VersionNamesOneList'
  BY <1>1, <1>11 DEF VersionNamesOneList
<1>13. LastVersion'
  <2>1. CASE signer[i].same
    BY <1>1, <1>2, <1>4, <2>1 DEF LastVersion, SignerFits
  <2>2. CASE ~signer[i].same
    <3>1. directory' = envelope /\ \A e \in signed : e.version < envelope.version
      BY <1>1, <1>4, <2>2 DEF SignerFits
    <3>2. envelope.version \in Nat
      BY <1>3
    <3>3. QED
      BY <1>1, <1>2, <3>1, <3>2 DEF LastVersion
  <2>3. QED
    BY <2>1, <2>2
<1>14. QED
  BY <1>7, <1>8, <1>9, <1>10, <1>12, <1>13

LEMMA OthersKeep ==
    ASSUME DirectoryInv
    PROVE  /\ \A i \in Isolates : SigningFails(i) \/ CacheExpires(i) => DirectoryInv'
           /\ \A d \in Customers, e \in signed : \A r \in e.routes : authorizeRoute(d, r) => DirectoryInv'
           /\ UNCHANGED directoryVars => DirectoryInv'
<1> USE DEF DirectoryInv
<1>1. ASSUME NEW i \in Isolates, SigningFails(i) PROVE DirectoryInv'
  <2>1. /\ signer' = [signer EXCEPT ![i] = NotSigning] /\ signer \in [Isolates -> Signing]
        /\ UNCHANGED <<hosts, permitted, fleetChanges, directory, cache, signed, assigned>>
    BY <1>1 DEF SigningFails, Typed
  <2>2. signer'[i] = NotSigning /\ \A j \in Isolates \ {i} : signer'[j] = signer[j]
    BY <2>1
  <2>3. NotSigning \in Signing
    BY DEF Signing, NotSigning
  <2>4. signer' \in [Isolates -> Signing]
    BY <2>1, <2>3
  <2>5. DirectoryTypeOK'
    BY <2>1, <2>4 DEF Typed, DirectoryTypeOK, Signing
  <2>6. Typed'
    BY <2>1, <2>4, <2>5 DEF Typed
  <2>7. EndpointsFit' /\ LastVersion' /\ VersionNamesOneList'
    BY <2>1 DEF EndpointsFit, LastVersion, VersionNamesOneList
  <2>8. RoutesFit' /\ OneSigner'
    BY <2>1, <2>2 DEF RoutesFit, OneSigner, NotSigning
  <2>9. \A j \in Isolates : SignerFits(j)'
    BY <2>1, <2>2 DEF SignerFits, NotSigning
  <2>10. QED
    BY <2>6, <2>7, <2>8, <2>9
<1>2. ASSUME NEW i \in Isolates, CacheExpires(i) PROVE DirectoryInv'
  <2>1. /\ cache' = [cache EXCEPT ![i] = NoEnvelope] /\ cache \in [Isolates -> Envelope]
        /\ UNCHANGED <<hosts, permitted, fleetChanges, directory, signer, signed, assigned>>
    BY <1>2 DEF CacheExpires, Typed
  <2>2. cache' \in [Isolates -> Envelope]
    BY <2>1 DEF Envelope, NoEnvelope
  <2>3. \A j \in Isolates : cache'[j] = NoEnvelope \/ cache'[j] \in signed'
    BY <2>1 DEF Typed, DirectoryTypeOK
  <2>4. Typed'
    BY <2>1, <2>2, <2>3 DEF Typed, DirectoryTypeOK
  <2>5. QED
    BY <2>1, <2>4 DEF EndpointsFit, LastVersion, VersionNamesOneList, RoutesFit, OneSigner, SignerFits
<1>3. ASSUME NEW d \in Customers, NEW e \in signed, NEW r \in e.routes, authorizeRoute(d, r) PROVE DirectoryInv'
  <2>1. /\ assigned' = [assigned EXCEPT ![d] = {r.hops[k].node : k \in DOMAIN r.hops}]
        /\ UNCHANGED <<hosts, permitted, fleetChanges, directory, signer, cache, signed>>
    BY <1>3 DEF authorizeRoute
  <2>2. \A k \in DOMAIN r.hops : r.hops[k].node \in Hosts
    <3>1. r.hops \in Seq(Hop)
      BY DEF Typed, DirectoryTypeOK, Envelope, Route
    <3>2. \A k \in DOMAIN r.hops : r.hops[k] \in Hop
      BY <3>1
    <3>3. QED
      BY <3>2 DEF Hop
  <2>3. Typed'
    BY <2>1, <2>2 DEF Typed, DirectoryTypeOK
  <2>4. QED
    BY <2>1, <2>3 DEF EndpointsFit, LastVersion, VersionNamesOneList, RoutesFit, OneSigner, SignerFits
<1>4. ASSUME UNCHANGED directoryVars PROVE DirectoryInv'
  BY <1>4 DEF directoryVars, Typed, DirectoryTypeOK, EndpointsFit, LastVersion, VersionNamesOneList,
              RoutesFit, OneSigner, SignerFits
<1>5. QED
  BY <1>1, <1>2, <1>3, <1>4

-----------------------------------------------------------------------------
(* What is published means one thing, and stays usable *)

LEMMA DirectoryInvSays ==
    ASSUME DirectoryInv
    PROVE  DirectoryHolds
<1> USE DEF DirectoryInv
<1>1. HostsFit
  BY DEF HostsFit, Typed, DirectoryTypeOK
<1>2. PublishedStaysAuthorizable
  <2> SUFFICES ASSUME NEW e \in signed, NEW r \in e.routes, NEW d \in Customers, r.path \in permitted,
                      \A k \in DOMAIN r.hops : /\ isEligible(r.hops[k].node, assigned[d])
                                               /\ hosts[r.hops[k].node].endpoint = r.hops[k].endpoint
               PROVE  Resolves(d, r)
    BY DEF PublishedStaysAuthorizable
  <2>1. RouteFits(r)
    BY DEF RoutesFit
  <2>2. QED
    BY <1>1, <2>1, Resolving DEF Resolves
<1>3. QED
  BY <1>2 DEF DirectoryHolds

\* Every reachable state of the directory has its type, for any fleet, paths, isolates and bounds, when no
\* two isolates sign at once.  (routeCache and signRouteDirectory; the columns of nodes)
THEOREM DirectoryTypeCorrect ==
    ASSUME SignersApart
    PROVE  DirectorySpec => []DirectoryTypeOK
<1>1. ASSUME DirectoryInv, [DirectoryNext]_directoryVars PROVE DirectoryInv'
  BY <1>1, FleetStepKeeps, LoadRoutesKeeps, ReadDirectoryStateKeeps, SignDirectoryKeeps, OthersKeep DEF DirectoryNext
<1>2. DirectoryInv => DirectoryTypeOK
  BY DEF DirectoryInv, Typed
<1>3. QED
  BY <1>1, <1>2, DirectoryInvInit, PTL DEF DirectorySpec

\* What was published stays authorizable while its nodes serve with room, and a version of the directory
\* names one list of routes, for any fleet, paths, capacities, isolates and customers, when no two isolates
\* sign at once.  (buildRouteCandidates and its exhaustive mode; signRouteDirectory)
THEOREM DirectoryCorrect ==
    ASSUME SignersApart
    PROVE  DirectorySpec => []DirectoryHolds
<1>1. ASSUME DirectoryInv, [DirectoryNext]_directoryVars PROVE DirectoryInv'
  BY <1>1, FleetStepKeeps, LoadRoutesKeeps, ReadDirectoryStateKeeps, SignDirectoryKeeps, OthersKeep DEF DirectoryNext
<1>2. DirectoryInv => DirectoryHolds
  BY DirectoryInvSays
<1>3. QED
  BY <1>1, <1>2, DirectoryInvInit, PTL DEF DirectorySpec

-----------------------------------------------------------------------------
(* Enrollment: the inductive invariant *)

\* Some token has bound the key of m.
WasBound(m) == \E t \in 1..minted : m \in redeemed[t]

\* What its disk says of where the script of a server is.
ScriptAgrees(m) ==
    /\ machine[m].disk.past \subseteq Markers
    /\ machine[m].script.pc # "off" => machine[m].disk.node \in NodeIds
    /\ machine[m].script.pc = "off" => ~machine[m].disk.key /\ ~machine[m].disk.done
    /\ machine[m].script.pc \notin {"off", "boot"} => machine[m].disk.key
    /\ machine[m].script.pc \in {"enroll", "await", "probe", "mark", "forget"} => machine[m].script.stage = 1
    /\ machine[m].disk.done => \/ machine[m].script.pc \in {"boot", "over"}
                               \/ machine[m].script.pc = "report" /\ machine[m].script.stage = 6
    /\ machine[m].script.pc = "report" /\ machine[m].script.stage = 6 => machine[m].disk.done
ScriptsAgree == \A m \in Machines : ScriptAgrees(m)

\* A request carries what the disk of its server says, and a server waits for one request at most.
CallAgrees(c) ==
    /\ machine[c.by].disk.key /\ machine[c.by].disk.node = c.node
    /\ c.token \in 1..minted /\ c.seen \in {"none", "PROVISIONING"}
    /\ c.heard => machine[c.by].script.pc = "await"
    /\ \A d \in enrolling : c.heard /\ d.heard /\ c.by = d.by => c = d
CallsAgree ==
    /\ \A c \in enrolling : CallAgrees(c)
    /\ \A m \in Machines : machine[m].disk.token <= minted

\* A key on a row is on the disk of its server, which was set up for that node, and a token bound it.
KeysAgree ==
    /\ \A n \in NodeIds, m \in Machines :
           nodeRow[n].key = m => machine[m].disk.key /\ machine[m].disk.node = n /\ WasBound(m)
    /\ \A m \in Machines : machine[m].disk.enrolled \/ machine[m].script.pc = "mark" => WasBound(m)

\* The tokens of the rows are distinct, and a row that awaits enrollment has one that bound nothing.
TokensAgree ==
    /\ \A n \in NodeIds : /\ nodeRow[n].token <= minted
                          /\ nodeRow[n].state = "PROVISIONING" => redeemed[nodeRow[n].token] = {}
    /\ \A n, o \in NodeIds : nodeRow[n].token = nodeRow[o].token => n = o \/ nodeRow[n].token = 0
    /\ \A t \in Token : redeemed[t] # {} => t \in 1..minted
    /\ TokenBindsOneKey

\* An order in progress is one the table of transitions allows.
MovesAllowed == \A v \in moves : v.to # "rotate" => v.to \in AllowedNext[v.from]

EnrollInv ==
    /\ EnrollTypeOK /\ ScriptsAgree /\ CallsAgree /\ KeysAgree /\ TokensAgree /\ MovesAllowed
    /\ CompleteIsDone

-----------------------------------------------------------------------------
(* The stage that comes next *)

\* After gives a later stage, and none that leaves a marker is passed without it.
LEMMA AfterIsLater ==
    ASSUME NEW m \in Machines, NEW s \in 1..5, machine[m].disk.past \subseteq Markers
    PROVE  After(m, s) \in 2..6
<1> DEFINE P == machine[m].disk.past
           Q(i) == i \notin P /\ (s + 1)..(i - 1) \subseteq P
<1>1. \E i \in (s + 1)..6 : Q(i)
  <2>1. CASE s \in 3..5
    <3>1. s + 1 \notin P /\ (s + 1)..((s + 1) - 1) = {} BY <2>1 DEF Markers
    <3> QED BY <3>1, <2>1
  <2>2. CASE s = 2
    <3>1. CASE 3 \notin P
      <4>1. (s + 1)..(3 - 1) = {} BY <2>2
      <4> QED BY <4>1, <3>1, <2>2
    <3>2. CASE 3 \in P
      <4>1. 4 \notin P /\ (s + 1)..(4 - 1) = {3} BY <2>2 DEF Markers
      <4> QED BY <4>1, <3>2, <2>2
    <3> QED BY <3>1, <3>2
  <2>3. CASE s = 1
    <3>1. CASE 2 \notin P
      <4>1. (s + 1)..(2 - 1) = {} BY <2>3
      <4> QED BY <4>1, <3>1, <2>3
    <3>2. CASE 2 \in P /\ 3 \notin P
      <4>1. (s + 1)..(3 - 1) = {2} BY <2>3
      <4> QED BY <4>1, <3>2, <2>3
    <3>3. CASE 2 \in P /\ 3 \in P
      <4>1. 4 \notin P /\ (s + 1)..(4 - 1) = {2, 3} BY <2>3 DEF Markers
      <4> QED BY <4>1, <3>3, <2>3
    <3> QED BY <3>1, <3>2, <3>3
  <2> QED BY <2>1, <2>2, <2>3
<1>2. After(m, s) = CHOOSE i \in (s + 1)..6 : Q(i) BY DEF After, DiskOf
<1>3. After(m, s) \in (s + 1)..6 BY <1>1, <1>2
<1> QED BY <1>3

-----------------------------------------------------------------------------
(* Types *)

\* The bounds are natural numbers.
LEMMA Bounds == MaxTokens \in Nat /\ MaxCrashes \in Nat /\ MaxMoves \in Nat /\ 0 \in Token
BY EnrollmentParameters DEF Token

\* The values an action writes into a row, a disk and a script are of their types.
LEMMA RowFields ==
    \A r \in EnrolledRow :
        /\ \A s \in RowState, t \in Token, k \in BoundKey :
               /\ [r EXCEPT !.state = s] \in EnrolledRow /\ [r EXCEPT !.state = s, !.token = t] \in EnrolledRow
               /\ [r EXCEPT !.state = s, !.key = k] \in EnrolledRow
               /\ [r EXCEPT !.key = k, !.state = s] \in EnrolledRow
        /\ \A t \in Token : [r EXCEPT !.token = t] \in EnrolledRow
        /\ [r EXCEPT !.key = "rotated"] \in EnrolledRow
        /\ \A b \in BOOLEAN : [r EXCEPT !.complete = b] \in EnrolledRow
BY ZenonT(60) DEF EnrolledRow, BoundKey
\* So for a disk,
LEMMA DiskFields ==
    \A d \in Disk :
        /\ \A n \in NodeIds, t \in Token : [d EXCEPT !.node = n, !.token = t] \in Disk
        /\ [d EXCEPT !.key = TRUE] \in Disk /\ [d EXCEPT !.enrolled = TRUE] \in Disk
        /\ [d EXCEPT !.token = 0] \in Disk
        /\ \A P \in SUBSET (1..6), a, b \in BOOLEAN : [d EXCEPT !.past = P, !.agent = a, !.done = b] \in Disk
BY Bounds DEF Disk
\* and for a script.
LEMMA ScriptFields ==
    /\ \A s \in Script : \A pc \in {"off", "boot", "enroll", "await", "probe", "mark", "forget", "work", "report", "over"} :
           [s EXCEPT !.pc = pc] \in Script
    /\ \A i \in 1..6 : \A pc \in {"off", "boot", "enroll", "await", "probe", "mark", "forget", "work", "report", "over"} :
           [stage |-> i, pc |-> pc] \in Script
BY DEF Script

\* A report and an answer leave the rows and the servers of their types.
LEMMA TellsType ==
    ASSUME nodeRow \in [NodeIds -> EnrolledRow], NEW m, NEW s, NEW status, Tells(m, s, status)
    PROVE  nodeRow' \in [NodeIds -> EnrolledRow]
<1> DEFINE b == s = 6 /\ status = "OK"
<1>1. b \in BOOLEAN OBVIOUS
<1> HIDE DEF b
<1>2. \A n \in NodeIds : [nodeRow[n] EXCEPT !.complete = b] \in EnrolledRow BY <1>1, RowFields
<1>3. Reported(m, s, status) \in [NodeIds -> EnrolledRow] BY <1>2 DEF Reported, b
<1> QED BY <1>3 DEF Tells

\* A script goes on within its type.
LEMMA GoesType ==
    ASSUME machine \in [Machines -> [disk : Disk, script : Script]], NEW m \in Machines,
           NEW pc \in {"boot", "enroll", "await", "probe", "mark"}, Goes(m, pc)
    PROVE  machine' \in [Machines -> [disk : Disk, script : Script]]
BY ScriptFields DEF Goes

\* An answer leaves the requests and the servers of their types.
LEMMA AnswersType ==
    ASSUME machine \in [Machines -> [disk : Disk, script : Script]], NEW c \in EnrollCall, NEW ok, Answers(c, ok)
    PROVE  machine' \in [Machines -> [disk : Disk, script : Script]]
<1>1. c.by \in Machines BY DEF EnrollCall
<1>2. CASE c.heard /\ ok BY <1>1, <1>2, GoesType DEF Answers
<1>3. CASE c.heard /\ ~ok BY <1>1, <1>3, GoesType DEF Answers
<1>4. CASE ~c.heard BY <1>4 DEF Answers
<1> QED BY <1>2, <1>3, <1>4

\* Every step keeps the types.
LEMMA TypeStays ==
    ASSUME EnrollTypeOK, ScriptsAgree, [EnrollNext]_enrollVars
    PROVE  EnrollTypeOK'
<1>t. /\ nodeRow \in [NodeIds -> EnrolledRow] /\ minted \in Token /\ expired \subseteq 1..minted
      /\ machine \in [Machines -> [disk : Disk, script : Script]]
      /\ enrolling \subseteq EnrollCall /\ beats \subseteq NodeIds /\ moves \subseteq Move
      /\ redeemed \in [Token -> SUBSET Machines] /\ crashes \in 0..MaxCrashes /\ moved \in 0..MaxMoves
  BY DEF EnrollTypeOK
<1>1. ASSUME NEW n \in NodeIds, Registers(n) PROVE EnrollTypeOK'
  <2>1. minted + 1 \in Token /\ 1..minted \subseteq 1..(minted + 1) BY <1>t, <1>1, Bounds DEF Registers, Token
  <2>2. Minted(nodeRow[n]) \in EnrolledRow BY <2>1, <1>t DEF Minted, RowState, EnrolledRow
  <2>3. nodeRow' \in [NodeIds -> EnrolledRow] BY <2>2, <1>t, <1>1 DEF Registers
  <2>4. UNCHANGED <<expired, machine, enrolling, beats, moves, redeemed, crashes, moved>> BY <1>1 DEF Registers
  <2> QED BY <2>1, <2>3, <2>4, <1>t, <1>1 DEF EnrollTypeOK, Registers
<1>2. ASSUME NEW n \in NodeIds, OrdersRotation(n) PROVE EnrollTypeOK'
  <2>1. nodeRow[n].state \in RowState BY <1>t DEF EnrolledRow
  <2>2. moves' \subseteq Move BY <2>1, <1>t, <1>2 DEF OrdersRotation, Move
  <2>3. moved' \in 0..MaxMoves BY <1>t, <1>2, Bounds DEF OrdersRotation
  <2>4. UNCHANGED <<nodeRow, minted, expired, machine, enrolling, beats, redeemed, crashes>> BY <1>2 DEF OrdersRotation
  <2> QED BY <2>2, <2>3, <2>4, <1>t DEF EnrollTypeOK
<1>3. ASSUME NEW n \in NodeIds, ClearsToken(n) PROVE EnrollTypeOK'
  <2>1. [nodeRow[n] EXCEPT !.token = IF nodeRow[n].state = "PROVISIONING" THEN @ ELSE 0] \in EnrolledRow
    BY <1>t, Bounds DEF EnrolledRow
  <2>2. nodeRow' \in [NodeIds -> EnrolledRow] BY <2>1, <1>t, <1>3 DEF ClearsToken
  <2> QED BY <2>2, <1>t, <1>3 DEF EnrollTypeOK, ClearsToken
<1>4. ASSUME NEW n \in NodeIds, NEW to \in RowState, OrdersMove(n, to) PROVE EnrollTypeOK'
  <2>1. nodeRow[n].state \in RowState BY <1>t DEF EnrolledRow
  <2>2. moves' \subseteq Move BY <2>1, <1>t, <1>4 DEF OrdersMove, Move
  <2>3. moved' \in 0..MaxMoves BY <1>t, <1>4, Bounds DEF OrdersMove
  <2>4. UNCHANGED <<nodeRow, minted, expired, machine, enrolling, beats, redeemed, crashes>> BY <1>4 DEF OrdersMove
  <2> QED BY <2>2, <2>3, <2>4, <1>t DEF EnrollTypeOK
<1>5. ASSUME NEW v \in moves, WritesMove(v) PROVE EnrollTypeOK'
  <2>1. v.node \in NodeIds /\ v.to \in RowState BY <1>t, <1>5 DEF WritesMove, Move
  <2>2. CASE v.to = "PROVISIONING" /\ nodeRow[v.node].state = v.from
    <3>1. minted + 1 \in Token BY <2>2, <1>t, <1>5, Bounds DEF WritesMove, Token
    <3>2. MovedRow(v) = Minted(nodeRow[v.node]) BY <2>2 DEF MovedRow, Contained
    <3>3. Minted(nodeRow[v.node]) \in EnrolledRow BY <3>1, <2>1, <1>t, ZenonT(60) DEF Minted, RowState, EnrolledRow
    <3>4. nodeRow' \in [NodeIds -> EnrolledRow] BY <3>2, <3>3, <1>t, <1>5 DEF WritesMove
    <3>5. minted' \in Token /\ 1..minted \subseteq 1..minted' BY <3>1, <1>t, <1>5 DEF WritesMove, Token
    <3>6. moves' \subseteq Move BY <1>t, <1>5 DEF WritesMove
    <3>7. UNCHANGED <<expired, machine, enrolling, beats, redeemed, crashes, moved>> BY <1>5 DEF WritesMove
    <3> QED BY <3>4, <3>5, <3>6, <3>7, <1>t DEF EnrollTypeOK
  <2>3. CASE ~(v.to = "PROVISIONING" /\ nodeRow[v.node].state = v.from)
    <3>1. MovedRow(v) \in EnrolledRow
      BY <2>1, <2>3, <1>t, RowFields DEF MovedRow, BoundKey
    <3>2. nodeRow' \in [NodeIds -> EnrolledRow] BY <3>1, <1>t, <1>5 DEF WritesMove
    <3> HIDE DEF MovedRow
    <3>3. minted' = minted \/ (minted' = minted + 1 /\ nodeRow'[v.node].token = minted + 1)
      <4>1. minted' = IF nodeRow'[v.node].token = minted + 1 THEN minted + 1 ELSE minted BY <1>5 DEF WritesMove
      <4> QED BY <4>1
    <3>4. nodeRow'[v.node].token \in Token BY <3>2, <2>1 DEF EnrolledRow
    <3>5. minted' \in Token /\ 1..minted \subseteq 1..minted' BY <3>3, <3>4, <1>t DEF Token
    <3>6. moves' \subseteq Move BY <1>t, <1>5 DEF WritesMove
    <3>7. UNCHANGED <<expired, machine, enrolling, beats, redeemed, crashes, moved>> BY <1>5 DEF WritesMove
    <3> QED BY <3>2, <3>5, <3>6, <3>7, <1>t DEF EnrollTypeOK
  <2> QED BY <2>2, <2>3
<1>6. ASSUME NEW v \in moves, Rotates(v) PROVE EnrollTypeOK'
  BY <1>6, <1>t, Bounds, RowFields, DiskFields, ScriptFields, ZenonT(40)
     DEF EnrollTypeOK, Rotates
<1>7. ASSUME NEW m \in Machines, NEW n \in NodeIds, NEW t \in Token, SetsUp(m, n, t) PROVE EnrollTypeOK'
  BY <1>7, <1>t, Bounds, RowFields, DiskFields, ScriptFields, ZenonT(40)
     DEF EnrollTypeOK, SetsUp
<1>8. ASSUME NEW t \in Token, TokenExpires(t) PROVE EnrollTypeOK'
  BY <1>8, <1>t, Bounds, RowFields, DiskFields, ScriptFields
     DEF EnrollTypeOK, TokenExpires
<1>9. ASSUME NEW m \in Machines, Boots(m) PROVE EnrollTypeOK'
  <2>1. machine[m].disk \in Disk /\ machine[m].script \in Script /\ machine[m].disk.past \subseteq Markers
    BY <1>t DEF ScriptsAgree, ScriptAgrees
  <2>2. [machine[m].disk EXCEPT !.key = TRUE] \in Disk BY <2>1, DiskFields
  <2>3. [stage |-> After(m, 1), pc |-> "work"] \in Script /\ [stage |-> 1, pc |-> "enroll"] \in Script
    <3>1. After(m, 1) \in 1..6 BY <2>1, AfterIsLater
    <3>2. [stage |-> 1, pc |-> "enroll"] \in Script BY ScriptFields
    <3> QED BY <3>1, <3>2, ScriptFields
  <2>4. machine' \in [Machines -> [disk : Disk, script : Script]] BY <2>2, <2>3, <1>t, <1>9 DEF Boots
  <2> QED BY <2>4, <1>t, <1>9 DEF EnrollTypeOK, Boots
<1>10. ASSUME NEW m \in Machines, Crashes(m) PROVE EnrollTypeOK'
  <2>1. machine' \in [Machines -> [disk : Disk, script : Script]] BY <1>t, <1>10, ScriptFields DEF Crashes, Goes
  <2>2. Unheard(m) \subseteq EnrollCall BY <1>t DEF Unheard, EnrollCall
  <2>3. crashes' \in 0..MaxCrashes BY <1>t, <1>10, Bounds DEF Crashes
  <2> QED BY <2>1, <2>2, <2>3, <1>t, <1>10 DEF EnrollTypeOK, Crashes
<1>11. ASSUME NEW m \in Machines, Sends(m) PROVE EnrollTypeOK'
  <2>1. machine' \in [Machines -> [disk : Disk, script : Script]] 
    <3>1. Goes(m, "probe") \/ Goes(m, "await") BY <1>11 DEF Sends
    <3> QED BY <3>1, <1>t, GoesType
  <2>2. CASE DiskOf(m).token = 0 BY <2>1, <2>2, <1>t, <1>11 DEF EnrollTypeOK, Sends
  <2>3. CASE DiskOf(m).token # 0
    <3> DEFINE c == [by |-> m, token |-> DiskOf(m).token, node |-> DiskOf(m).node, seen |-> "none", heard |-> TRUE]
    <3>1. DiskOf(m).token \in Token /\ DiskOf(m).node \in NodeIds
      BY <1>t, <1>11 DEF Sends, ScriptAt, DiskOf, Disk, ScriptsAgree, ScriptAgrees
    <3>2. c \in EnrollCall BY <3>1 DEF EnrollCall, RowState
    <3>3. enrolling' = enrolling \cup {c} BY <2>3, <1>11 DEF Sends
    <3> QED BY <2>1, <3>2, <3>3, <1>t, <1>11 DEF EnrollTypeOK, Sends
  <2> QED BY <2>2, <2>3
<1>12. ASSUME NEW m \in Machines, GivesUp(m) PROVE EnrollTypeOK'
  <2>1. machine' \in [Machines -> [disk : Disk, script : Script]] BY <1>t, <1>12, ScriptFields DEF GivesUp, Goes
  <2>2. Unheard(m) \subseteq EnrollCall BY <1>t DEF Unheard, EnrollCall
  <2>3. crashes' \in 0..MaxCrashes BY <1>t, <1>12, Bounds DEF GivesUp
  <2> QED BY <2>1, <2>2, <2>3, <1>t, <1>12 DEF EnrollTypeOK, GivesUp
<1>13. ASSUME NEW m \in Machines, Proves(m) PROVE EnrollTypeOK'
  BY <1>13, <1>t, Bounds, RowFields, DiskFields, ScriptFields, ZenonT(40)
     DEF EnrollTypeOK, Proves, ScriptAt, Goes, Authenticated
<1>14. ASSUME NEW m \in Machines, Marks(m) PROVE EnrollTypeOK'
  BY <1>14, <1>t, Bounds, RowFields, DiskFields, ScriptFields, ZenonT(40)
     DEF EnrollTypeOK, Marks, ScriptAt
<1>15. ASSUME NEW m \in Machines, ForgetsToken(m) PROVE EnrollTypeOK'
  BY <1>15, <1>t, Bounds, RowFields, DiskFields, ScriptFields
     DEF EnrollTypeOK, ForgetsToken, ScriptAt
<1>16. ASSUME NEW m \in Machines, Works(m) PROVE EnrollTypeOK'
  <2>1. machine[m].disk \in Disk /\ machine[m].script.stage \in 1..6 /\ machine[m].disk.past \subseteq Markers
    BY <1>t DEF ScriptsAgree, ScriptAgrees, Script
  <2> DEFINE s == machine[m].script.stage
             P == IF s \in Markers THEN machine[m].disk.past \cup {s} ELSE machine[m].disk.past
             D == [machine[m].disk EXCEPT !.past = IF s \in Markers THEN @ \cup {s} ELSE @,
                                          !.agent = (@ \/ s = 4), !.done = (s = 6)]
  <2>2. P \in SUBSET (1..6) /\ (machine[m].disk.agent \/ s = 4) \in BOOLEAN /\ (s = 6) \in BOOLEAN BY <2>1 DEF Markers
  <2>3. D \in Disk BY <2>1, <2>2 DEF Disk
  <2>3a. machine' = [machine EXCEPT ![m].disk = D, ![m].script.pc = "report"] BY <1>16 DEF Works, DiskOf
  <2> HIDE DEF D
  <2>4. machine' \in [Machines -> [disk : Disk, script : Script]] BY <2>3, <2>3a, <1>t, ScriptFields
  <2>5. nodeRow' \in [NodeIds -> EnrolledRow] BY <1>t, <1>16, TellsType DEF Works
  <2> QED BY <2>4, <2>5, <1>t, <1>16 DEF EnrollTypeOK, Works
<1>17. ASSUME NEW m \in Machines, Fails(m) PROVE EnrollTypeOK'
  <2>1. machine' \in [Machines -> [disk : Disk, script : Script]] BY <1>t, <1>17, ScriptFields DEF Fails, Goes
  <2>2. nodeRow' \in [NodeIds -> EnrolledRow] BY <1>t, <1>17, TellsType DEF Fails
  <2>3. crashes' \in 0..MaxCrashes BY <1>t, <1>17, Bounds DEF Fails
  <2> QED BY <2>1, <2>2, <2>3, <1>t, <1>17 DEF EnrollTypeOK, Fails
<1>18. ASSUME NEW m \in Machines, Reports(m) PROVE EnrollTypeOK'
  <2> DEFINE s == machine[m].script.stage
  <2>1. s \in 1..6 /\ machine[m].disk.past \subseteq Markers BY <1>t DEF ScriptsAgree, ScriptAgrees, Script
  <2>2. s # 6 => [stage |-> After(m, s), pc |-> "work"] \in Script
    <3>1. ASSUME s # 6 PROVE After(m, s) \in 1..6 BY <2>1, <3>1, AfterIsLater
    <3> QED BY <3>1, ScriptFields
  <2>3. [stage |-> 6, pc |-> "over"] \in Script BY ScriptFields
  <2>4. machine' \in [Machines -> [disk : Disk, script : Script]] BY <2>2, <2>3, <1>t, <1>18 DEF Reports
  <2>5. nodeRow' \in [NodeIds -> EnrolledRow] BY <1>t, <1>18, TellsType DEF Reports
  <2> QED BY <2>4, <2>5, <1>t, <1>18 DEF EnrollTypeOK, Reports
<1>19. ASSUME NEW m \in Machines, Beats(m) PROVE EnrollTypeOK'
  BY <1>19, <1>t, Bounds, RowFields, DiskFields, ScriptFields
     DEF EnrollTypeOK, Beats, DiskOf, Authenticated
<1>20. ASSUME NEW c \in enrolling, Decides(c) PROVE EnrollTypeOK'
  <2>1. c \in EnrollCall BY <1>t, <1>20
  <2>2. [c EXCEPT !.seen = nodeRow[c.node].state] \in EnrollCall BY <2>1, <1>t DEF EnrollCall, EnrolledRow
  <2>3. enrolling' \subseteq EnrollCall BY <2>2, <1>t, <1>20 DEF Decides, Answers
  <2>4. machine' \in [Machines -> [disk : Disk, script : Script]]
    <3>1. UNCHANGED machine \/ Answers(c, FALSE) \/ Answers(c, nodeRow[c.node].state = "WARMING_UP" /\ nodeRow[c.node].key = c.by)
      BY <1>20 DEF Decides
    <3> QED BY <3>1, <2>1, <1>t, AnswersType
  <2>5. UNCHANGED <<nodeRow, minted, expired, beats, moves, redeemed, crashes, moved>> BY <1>20 DEF Decides
  <2> QED BY <2>3, <2>4, <2>5, <1>t DEF EnrollTypeOK
<1>21. ASSUME NEW c \in enrolling, Binds(c) PROVE EnrollTypeOK'
  <2>1. c \in EnrollCall BY <1>t, <1>21
  <2>2. machine' \in [Machines -> [disk : Disk, script : Script]]
    BY <2>1, <1>t, <1>21, AnswersType DEF Binds
  <2>3. [nodeRow[c.node] EXCEPT !.key = c.by, !.state = "WARMING_UP"] \in EnrolledRow
    BY <2>1, <1>t, RowFields DEF EnrollCall, BoundKey, RowState
  <2>4. nodeRow' \in [NodeIds -> EnrolledRow]
    <3>1. CASE MayBind(c)
      <4>1. nodeRow' = [nodeRow EXCEPT ![c.node] = [nodeRow[c.node] EXCEPT !.key = c.by, !.state = "WARMING_UP"]]
        BY <3>1, <1>21 DEF Binds
      <4> QED BY <4>1, <2>3, <1>t
    <3>2. CASE ~MayBind(c) BY <3>2, <1>t, <1>21 DEF Binds
    <3> QED BY <3>1, <3>2
  <2>5. redeemed' \in [Token -> SUBSET Machines] BY <2>1, <1>t, <1>21 DEF Binds, EnrollCall
  <2>6. enrolling' \subseteq enrolling /\ UNCHANGED <<minted, expired, beats, moves, crashes, moved>>
    BY <1>21 DEF Binds, Answers
  <2> QED BY <2>2, <2>4, <2>5, <2>6, <1>t DEF EnrollTypeOK
<1>22. ASSUME UNCHANGED enrollVars PROVE EnrollTypeOK'
  BY <1>22, <1>t, Bounds, RowFields, DiskFields, ScriptFields
     DEF EnrollTypeOK, enrollVars
<1> QED BY <1>1, <1>2, <1>3, <1>4, <1>5, <1>6, <1>7, <1>8, <1>9, <1>10, <1>11, <1>12, <1>13, <1>14, <1>15, <1>16, <1>17, <1>18, <1>19, <1>20, <1>21, <1>22 DEF EnrollNext

-----------------------------------------------------------------------------
(* Scripts *)

\* Every step keeps ScriptsAgree.
LEMMA ScriptsStay ==
    ASSUME EnrollTypeOK, ScriptsAgree, CallsAgree, [EnrollNext]_enrollVars
    PROVE  ScriptsAgree'
<1>t. /\ ScriptsAgree /\ CallsAgree /\ machine \in [Machines -> [disk : Disk, script : Script]]
      /\ enrolling \subseteq EnrollCall
  BY DEF EnrollTypeOK
<1>1. ASSUME NEW n \in NodeIds, Registers(n) PROVE ScriptsAgree'
  BY <1>1 DEF Registers, ScriptsAgree, ScriptAgrees
<1>2. ASSUME NEW n \in NodeIds, OrdersRotation(n) PROVE ScriptsAgree'
  BY <1>2 DEF OrdersRotation, ScriptsAgree, ScriptAgrees
<1>3. ASSUME NEW n \in NodeIds, ClearsToken(n) PROVE ScriptsAgree'
  BY <1>3 DEF ClearsToken, ScriptsAgree, ScriptAgrees
<1>4. ASSUME NEW n \in NodeIds, NEW to \in RowState, OrdersMove(n, to) PROVE ScriptsAgree'
  BY <1>4 DEF OrdersMove, ScriptsAgree, ScriptAgrees
<1>5. ASSUME NEW v \in moves, WritesMove(v) PROVE ScriptsAgree'
  BY <1>5 DEF WritesMove, ScriptsAgree, ScriptAgrees
<1>6. ASSUME NEW v \in moves, Rotates(v) PROVE ScriptsAgree'
  BY <1>6 DEF Rotates, ScriptsAgree, ScriptAgrees
<1>7. ASSUME NEW m \in Machines, NEW n \in NodeIds, NEW t \in Token, SetsUp(m, n, t) PROVE ScriptsAgree'
  <2>1. machine[m].script.pc = "off" BY <1>7 DEF SetsUp
  <2>2. machine' = [machine EXCEPT ![m].disk.node = n, ![m].disk.token = t, ![m].script.pc = "boot"] BY <1>7 DEF SetsUp
  <2>3. /\ machine'[m].disk.node = n /\ machine'[m].disk.past = machine[m].disk.past
        /\ machine'[m].disk.done = machine[m].disk.done /\ machine'[m].script.pc = "boot"
    BY <2>2, <1>t DEF Disk, Script
  <2>4. \A o \in Machines \ {m} : machine'[o] = machine[o] BY <2>2, <1>t
  <2>5. ScriptAgrees(m)' BY <2>1, <2>3, <1>t DEF ScriptsAgree, ScriptAgrees
  <2>6. \A o \in Machines \ {m} : ScriptAgrees(o)' BY <2>4, <1>t DEF ScriptsAgree, ScriptAgrees
  <2> QED BY <2>5, <2>6 DEF ScriptsAgree
<1>8. ASSUME NEW t \in Token, TokenExpires(t) PROVE ScriptsAgree'
  BY <1>8 DEF TokenExpires, ScriptsAgree, ScriptAgrees
<1>9. ASSUME NEW m \in Machines, Boots(m) PROVE ScriptsAgree'
  <2>1. machine[m].script.pc = "boot" /\ ~machine[m].disk.done BY <1>9 DEF Boots, ScriptAt, DiskOf
  <2>2. PICK s \in {[stage |-> After(m, 1), pc |-> "work"], [stage |-> 1, pc |-> "enroll"]} :
            machine' = [machine EXCEPT ![m].disk.key = TRUE, ![m].script = s]
    BY <1>9 DEF Boots
  <2>3. s.pc = "work" \/ (s.pc = "enroll" /\ s.stage = 1) BY <2>2
  <2> QED BY <2>1, <2>2, <2>3, <1>t DEF ScriptsAgree, ScriptAgrees
<1>10. ASSUME NEW m \in Machines, Crashes(m) PROVE ScriptsAgree'
  BY <1>10, <1>t DEF ScriptsAgree, ScriptAgrees, Crashes, Goes
<1>11. ASSUME NEW m \in Machines, Sends(m) PROVE ScriptsAgree'
  <2>1. Goes(m, "probe") \/ Goes(m, "await") BY <1>11 DEF Sends
  <2>2. machine[m].script.pc = "enroll" BY <1>11 DEF Sends, ScriptAt
  <2>3. CASE Goes(m, "probe") BY <2>2, <2>3, <1>t DEF ScriptsAgree, ScriptAgrees, Goes
  <2>4. CASE Goes(m, "await") BY <2>2, <2>4, <1>t DEF ScriptsAgree, ScriptAgrees, Goes
  <2> QED BY <2>1, <2>3, <2>4
<1>12. ASSUME NEW m \in Machines, GivesUp(m) PROVE ScriptsAgree'
  BY <1>12, <1>t DEF ScriptsAgree, ScriptAgrees, GivesUp, ScriptAt, Goes
<1>13. ASSUME NEW m \in Machines, Proves(m) PROVE ScriptsAgree'
  BY <1>13, <1>t DEF ScriptsAgree, ScriptAgrees, Proves, ScriptAt, Goes, Authenticated
<1>14. ASSUME NEW m \in Machines, Marks(m) PROVE ScriptsAgree'
  BY <1>14, <1>t DEF ScriptsAgree, ScriptAgrees, Marks, ScriptAt
<1>15. ASSUME NEW m \in Machines, ForgetsToken(m) PROVE ScriptsAgree'
  BY <1>15, <1>t DEF ScriptsAgree, ScriptAgrees, ForgetsToken, ScriptAt
<1>16. ASSUME NEW m \in Machines, Works(m) PROVE ScriptsAgree'
  <2> DEFINE s == machine[m].script.stage
             D == [machine[m].disk EXCEPT !.past = IF s \in Markers THEN @ \cup {s} ELSE @,
                                          !.agent = (@ \/ s = 4), !.done = (s = 6)]
  <2>1. machine' = [machine EXCEPT ![m].disk = D, ![m].script.pc = "report"] BY <1>16 DEF Works, DiskOf
  <2>2. machine[m].script.pc = "work" BY <1>16 DEF Works, ScriptAt
  <2>3. /\ D.past \subseteq Markers /\ D.key = machine[m].disk.key /\ D.node = machine[m].disk.node
        /\ D.done = (s = 6)
    BY <1>t DEF ScriptsAgree, ScriptAgrees, Disk
  <2> HIDE DEF D
  <2>4. machine'[m].disk = D /\ machine'[m].script.pc = "report" /\ machine'[m].script.stage = s BY <2>1, <1>t DEF Script
  <2>5. \A o \in Machines \ {m} : machine'[o] = machine[o] BY <2>1, <1>t
  <2>6. machine[m].disk.key /\ machine[m].disk.node \in NodeIds BY <2>2, <1>t DEF ScriptsAgree, ScriptAgrees
  <2> HIDE DEF s
  <2>7. ScriptAgrees(m)' BY <2>3, <2>4, <2>6 DEF ScriptAgrees
  <2>8. \A o \in Machines \ {m} : ScriptAgrees(o)' BY <2>5, <1>t DEF ScriptsAgree, ScriptAgrees
  <2> QED BY <2>7, <2>8 DEF ScriptsAgree, ScriptAgrees
<1>17. ASSUME NEW m \in Machines, Fails(m) PROVE ScriptsAgree'
  BY <1>17, <1>t DEF ScriptsAgree, ScriptAgrees, Fails, ScriptAt, Goes
<1>18. ASSUME NEW m \in Machines, Reports(m) PROVE ScriptsAgree'
  <2>1. machine[m].script.pc = "report" BY <1>18 DEF Reports, ScriptAt
  <2>2. PICK s \in {[stage |-> 6, pc |-> "over"], [stage |-> After(m, machine[m].script.stage), pc |-> "work"]} :
            /\ machine' = [machine EXCEPT ![m].script = s]
            /\ machine[m].script.stage = 6 => s.pc = "over"
    BY <1>18 DEF Reports
  <2>3. s.pc \in {"over", "work"} BY <2>2
  <2> QED BY <2>1, <2>2, <2>3, <1>t DEF ScriptsAgree, ScriptAgrees
<1>19. ASSUME NEW m \in Machines, Beats(m) PROVE ScriptsAgree'
  BY <1>19 DEF Beats, ScriptsAgree, ScriptAgrees
<1>20. ASSUME NEW c \in enrolling, Decides(c) PROVE ScriptsAgree'
  <2>1. \/ UNCHANGED machine
        \/ c.heard /\ Goes(c.by, "mark")
        \/ c.heard /\ Goes(c.by, "probe")
    BY <1>20 DEF Decides, Answers
  <2>2. c.by \in Machines BY <1>t DEF EnrollCall
  <2>3. CASE UNCHANGED machine BY <2>3 DEF ScriptsAgree, ScriptAgrees
  <2>4. ASSUME c.heard, NEW pc \in {"mark", "probe"}, Goes(c.by, pc) PROVE ScriptsAgree'
    <3>1. machine[c.by].script.pc = "await" BY <2>4, <1>t DEF CallsAgree, CallAgrees
    <3> QED BY <3>1, <2>2, <2>4, <1>t DEF ScriptsAgree, ScriptAgrees, Goes
  <2> QED BY <2>1, <2>3, <2>4
<1>21. ASSUME NEW c \in enrolling, Binds(c) PROVE ScriptsAgree'
  <2>1. \/ UNCHANGED machine
        \/ c.heard /\ Goes(c.by, "mark")
        \/ c.heard /\ Goes(c.by, "probe")
    BY <1>21 DEF Binds, Answers
  <2>2. c.by \in Machines BY <1>t DEF EnrollCall
  <2>3. CASE UNCHANGED machine BY <2>3 DEF ScriptsAgree, ScriptAgrees
  <2>4. ASSUME c.heard, NEW pc \in {"mark", "probe"}, Goes(c.by, pc) PROVE ScriptsAgree'
    <3>1. machine[c.by].script.pc = "await" BY <2>4, <1>t DEF CallsAgree, CallAgrees
    <3> QED BY <3>1, <2>2, <2>4, <1>t DEF ScriptsAgree, ScriptAgrees, Goes
  <2> QED BY <2>1, <2>3, <2>4
<1>22. ASSUME UNCHANGED enrollVars PROVE ScriptsAgree'
  BY <1>22 DEF enrollVars, ScriptsAgree, ScriptAgrees
<1> QED BY <1>1, <1>2, <1>3, <1>4, <1>5, <1>6, <1>7, <1>8, <1>9, <1>10, <1>11, <1>12, <1>13, <1>14, <1>15, <1>16, <1>17, <1>18, <1>19, <1>20, <1>21, <1>22 DEF EnrollNext

-----------------------------------------------------------------------------
(* What a step keeps *)

\* A disk keeps its key with its node and its done marker, and is marked enrolled by Marks only.
DiskKept ==
    \A m \in Machines :
        /\ machine[m].disk.key => machine'[m].disk.key /\ machine'[m].disk.node = machine[m].disk.node
        /\ machine[m].disk.done => machine'[m].disk.done /\ machine'[m].disk.node = machine[m].disk.node
        /\ machine'[m].disk.enrolled => machine[m].disk.enrolled \/ machine[m].script.pc = "mark"
\* A key is never lost, and a server that is done stays so.
LEMMA DisksAreKept ==
    ASSUME EnrollTypeOK, ScriptsAgree, [EnrollNext]_enrollVars
    PROVE  DiskKept
<1>t. /\ ScriptsAgree /\ machine \in [Machines -> [disk : Disk, script : Script]] /\ enrolling \subseteq EnrollCall
  BY DEF EnrollTypeOK
<1>1. ASSUME NEW n \in NodeIds, Registers(n) PROVE DiskKept
  BY <1>1, <1>t DEF Registers, DiskKept
<1>2. ASSUME NEW n \in NodeIds, OrdersRotation(n) PROVE DiskKept
  BY <1>2, <1>t DEF OrdersRotation, DiskKept
<1>3. ASSUME NEW n \in NodeIds, ClearsToken(n) PROVE DiskKept
  BY <1>3, <1>t DEF ClearsToken, DiskKept
<1>4. ASSUME NEW n \in NodeIds, NEW to \in RowState, OrdersMove(n, to) PROVE DiskKept
  BY <1>4, <1>t DEF OrdersMove, DiskKept
<1>5. ASSUME NEW v \in moves, WritesMove(v) PROVE DiskKept
  BY <1>5, <1>t DEF WritesMove, DiskKept
<1>6. ASSUME NEW v \in moves, Rotates(v) PROVE DiskKept
  BY <1>6, <1>t DEF Rotates, DiskKept
<1>7. ASSUME NEW m \in Machines, NEW n \in NodeIds, NEW t \in Token, SetsUp(m, n, t) PROVE DiskKept
  <2>1. ~machine[m].disk.key /\ ~machine[m].disk.done BY <1>7, <1>t DEF SetsUp, ScriptsAgree, ScriptAgrees
  <2>2. machine' = [machine EXCEPT ![m].disk.node = n, ![m].disk.token = t, ![m].script.pc = "boot"] BY <1>7 DEF SetsUp
  <2> QED BY <2>1, <2>2, <1>t DEF DiskKept, Disk
<1>8. ASSUME NEW t \in Token, TokenExpires(t) PROVE DiskKept
  BY <1>8, <1>t DEF TokenExpires, DiskKept
<1>9. ASSUME NEW m \in Machines, Boots(m) PROVE DiskKept
  BY <1>9, <1>t DEF DiskKept, Boots, ScriptAt, DiskOf
<1>10. ASSUME NEW m \in Machines, Crashes(m) PROVE DiskKept
  BY <1>10, <1>t DEF DiskKept, Crashes, Goes
<1>11. ASSUME NEW m \in Machines, Sends(m) PROVE DiskKept
  <2>1. Goes(m, "probe") \/ Goes(m, "await") BY <1>11 DEF Sends
  <2> QED BY <2>1, <1>t DEF DiskKept, Goes
<1>12. ASSUME NEW m \in Machines, GivesUp(m) PROVE DiskKept
  BY <1>12, <1>t DEF DiskKept, GivesUp, Goes
<1>13. ASSUME NEW m \in Machines, Proves(m) PROVE DiskKept
  BY <1>13, <1>t DEF DiskKept, Proves, Goes
<1>14. ASSUME NEW m \in Machines, Marks(m) PROVE DiskKept
  BY <1>14, <1>t DEF DiskKept, Marks, ScriptAt
<1>15. ASSUME NEW m \in Machines, ForgetsToken(m) PROVE DiskKept
  BY <1>15, <1>t DEF DiskKept, ForgetsToken
<1>16. ASSUME NEW m \in Machines, Works(m) PROVE DiskKept
  <2> DEFINE s == machine[m].script.stage
             D == [machine[m].disk EXCEPT !.past = IF s \in Markers THEN @ \cup {s} ELSE @,
                                          !.agent = (@ \/ s = 4), !.done = (s = 6)]
  <2>1. machine' = [machine EXCEPT ![m].disk = D, ![m].script.pc = "report"] BY <1>16 DEF Works, DiskOf
  <2>2. ~machine[m].disk.done BY <1>16, <1>t DEF Works, ScriptAt, ScriptsAgree, ScriptAgrees
  <2>3. D.key = machine[m].disk.key /\ D.node = machine[m].disk.node /\ D.enrolled = machine[m].disk.enrolled
    BY <1>t DEF Disk
  <2> HIDE DEF D
  <2> QED BY <2>1, <2>2, <2>3, <1>t DEF DiskKept
<1>17. ASSUME NEW m \in Machines, Fails(m) PROVE DiskKept
  BY <1>17, <1>t DEF DiskKept, Fails, Goes
<1>18. ASSUME NEW m \in Machines, Reports(m) PROVE DiskKept
  BY <1>18, <1>t DEF DiskKept, Reports
<1>19. ASSUME NEW m \in Machines, Beats(m) PROVE DiskKept
  BY <1>19, <1>t DEF Beats, DiskKept
<1>20. ASSUME NEW c \in enrolling, Decides(c) PROVE DiskKept
  <2>1. UNCHANGED machine \/ Goes(c.by, "mark") \/ Goes(c.by, "probe")
    BY <1>20 DEF Decides, Answers
  <2>2. c.by \in Machines BY <1>t DEF EnrollCall
  <2>3. CASE UNCHANGED machine BY <2>3 DEF DiskKept
  <2>4. ASSUME NEW pc, Goes(c.by, pc) PROVE DiskKept BY <2>2, <2>4, <1>t DEF DiskKept, Goes
  <2> QED BY <2>1, <2>3, <2>4
<1>21. ASSUME NEW c \in enrolling, Binds(c) PROVE DiskKept
  <2>1. UNCHANGED machine \/ Goes(c.by, "mark") \/ Goes(c.by, "probe")
    BY <1>21 DEF Binds, Answers
  <2>2. c.by \in Machines BY <1>t DEF EnrollCall
  <2>3. CASE UNCHANGED machine BY <2>3 DEF DiskKept
  <2>4. ASSUME NEW pc, Goes(c.by, pc) PROVE DiskKept BY <2>2, <2>4, <1>t DEF DiskKept, Goes
  <2> QED BY <2>1, <2>3, <2>4
<1>22. ASSUME UNCHANGED enrollVars PROVE DiskKept
  BY <1>22, <1>t DEF enrollVars, DiskKept
<1> QED BY <1>1, <1>2, <1>3, <1>4, <1>5, <1>6, <1>7, <1>8, <1>9, <1>10, <1>11, <1>12, <1>13, <1>14, <1>15, <1>16, <1>17, <1>18, <1>19, <1>20, <1>21, <1>22 DEF EnrollNext

\* No token is taken back, and no binding forgotten.
Grown == minted <= minted' /\ minted' \in Nat /\ \A t \in Token : redeemed[t] \subseteq redeemed'[t]
\* Every step keeps the tokens and the bindings there are.
LEMMA TokensGrow ==
    ASSUME EnrollTypeOK, [EnrollNext]_enrollVars
    PROVE  Grown
<1>t. minted \in Nat /\ redeemed \in [Token -> SUBSET Machines] /\ enrolling \subseteq EnrollCall
  BY DEF EnrollTypeOK, Token
<1>1. ASSUME NEW n \in NodeIds, Registers(n) PROVE Grown
  BY <1>1, <1>t DEF Grown, Registers
<1>2. ASSUME NEW n \in NodeIds, OrdersRotation(n) PROVE Grown
  BY <1>2, <1>t DEF Grown, OrdersRotation
<1>3. ASSUME NEW n \in NodeIds, ClearsToken(n) PROVE Grown
  BY <1>3, <1>t DEF Grown, ClearsToken
<1>4. ASSUME NEW n \in NodeIds, NEW to \in RowState, OrdersMove(n, to) PROVE Grown
  BY <1>4, <1>t DEF Grown, OrdersMove
<1>5. ASSUME NEW v \in moves, WritesMove(v) PROVE Grown
  <2>1. minted' \in {minted, minted + 1} /\ redeemed' = redeemed BY <1>5 DEF WritesMove
  <2> QED BY <2>1, <1>t DEF Grown
<1>6. ASSUME NEW v \in moves, Rotates(v) PROVE Grown
  BY <1>6, <1>t DEF Grown, Rotates
<1>7. ASSUME NEW m \in Machines, NEW n \in NodeIds, NEW t \in Token, SetsUp(m, n, t) PROVE Grown
  BY <1>7, <1>t DEF Grown, SetsUp
<1>8. ASSUME NEW t \in Token, TokenExpires(t) PROVE Grown
  BY <1>8, <1>t DEF Grown, TokenExpires
<1>9. ASSUME NEW m \in Machines, Boots(m) PROVE Grown
  BY <1>9, <1>t DEF Grown, Boots
<1>10. ASSUME NEW m \in Machines, Crashes(m) PROVE Grown
  BY <1>10, <1>t DEF Grown, Crashes
<1>11. ASSUME NEW m \in Machines, Sends(m) PROVE Grown
  BY <1>11, <1>t DEF Grown, Sends
<1>12. ASSUME NEW m \in Machines, GivesUp(m) PROVE Grown
  BY <1>12, <1>t DEF Grown, GivesUp
<1>13. ASSUME NEW m \in Machines, Proves(m) PROVE Grown
  BY <1>13, <1>t DEF Grown, Proves
<1>14. ASSUME NEW m \in Machines, Marks(m) PROVE Grown
  BY <1>14, <1>t DEF Grown, Marks
<1>15. ASSUME NEW m \in Machines, ForgetsToken(m) PROVE Grown
  BY <1>15, <1>t DEF Grown, ForgetsToken
<1>16. ASSUME NEW m \in Machines, Works(m) PROVE Grown
  BY <1>16, <1>t DEF Grown, Works
<1>17. ASSUME NEW m \in Machines, Fails(m) PROVE Grown
  BY <1>17, <1>t DEF Grown, Fails
<1>18. ASSUME NEW m \in Machines, Reports(m) PROVE Grown
  BY <1>18, <1>t DEF Grown, Reports
<1>19. ASSUME NEW m \in Machines, Beats(m) PROVE Grown
  BY <1>19, <1>t DEF Grown, Beats
<1>20. ASSUME NEW c \in enrolling, Decides(c) PROVE Grown
  BY <1>20, <1>t DEF Grown, Decides
<1>21. ASSUME NEW c \in enrolling, Binds(c) PROVE Grown
  <2>1. c.by \in Machines /\ c.token \in Token BY <1>t DEF EnrollCall
  <2>2. redeemed' = redeemed \/ redeemed' = [redeemed EXCEPT ![c.token] = @ \cup {c.by}] BY <1>21 DEF Binds
  <2>3. minted' = minted BY <1>21 DEF Binds
  <2> QED BY <2>1, <2>2, <2>3, <1>t DEF Grown
<1>22. ASSUME UNCHANGED enrollVars PROVE Grown
  BY <1>22, <1>t DEF enrollVars, Grown
<1> QED BY <1>1, <1>2, <1>3, <1>4, <1>5, <1>6, <1>7, <1>8, <1>9, <1>10, <1>11, <1>12, <1>13, <1>14, <1>15, <1>16, <1>17, <1>18, <1>19, <1>20, <1>21, <1>22 DEF EnrollNext

-----------------------------------------------------------------------------
(* Requests *)

\* A server's token is one that was minted.
LEMMA SetUpTokensKept ==
    ASSUME EnrollTypeOK, CallsAgree, [EnrollNext]_enrollVars
    PROVE  \A o \in Machines : machine'[o].disk.token <= minted'
<1>t. /\ machine \in [Machines -> [disk : Disk, script : Script]] /\ enrolling \subseteq EnrollCall
      /\ minted \in Nat /\ minted <= minted' /\ minted' \in Nat
      /\ \A o \in Machines : machine[o].disk.token \in Nat /\ machine[o].disk.token <= minted'
  BY TokensGrow DEF EnrollTypeOK, Token, Grown, CallsAgree, Disk
<1>1. ASSUME NEW n \in NodeIds, Registers(n) PROVE \A o \in Machines : machine'[o].disk.token <= minted'
  BY <1>1, <1>t DEF Registers
<1>2. ASSUME NEW n \in NodeIds, OrdersRotation(n) PROVE \A o \in Machines : machine'[o].disk.token <= minted'
  BY <1>2, <1>t DEF OrdersRotation
<1>3. ASSUME NEW n \in NodeIds, ClearsToken(n) PROVE \A o \in Machines : machine'[o].disk.token <= minted'
  BY <1>3, <1>t DEF ClearsToken
<1>4. ASSUME NEW n \in NodeIds, NEW to \in RowState, OrdersMove(n, to) PROVE \A o \in Machines : machine'[o].disk.token <= minted'
  BY <1>4, <1>t DEF OrdersMove
<1>5. ASSUME NEW v \in moves, WritesMove(v) PROVE \A o \in Machines : machine'[o].disk.token <= minted'
  BY <1>5, <1>t DEF WritesMove
<1>6. ASSUME NEW v \in moves, Rotates(v) PROVE \A o \in Machines : machine'[o].disk.token <= minted'
  BY <1>6, <1>t DEF Rotates
<1>7. ASSUME NEW m \in Machines, NEW n \in NodeIds, NEW t \in Token, SetsUp(m, n, t) PROVE \A o \in Machines : machine'[o].disk.token <= minted'
  <2>1. t <= minted BY <1>7, <1>t DEF SetsUp
  <2>2. machine' = [machine EXCEPT ![m].disk.node = n, ![m].disk.token = t, ![m].script.pc = "boot"] BY <1>7 DEF SetsUp
  <2> QED BY <2>1, <2>2, <1>t DEF Disk
<1>8. ASSUME NEW t \in Token, TokenExpires(t) PROVE \A o \in Machines : machine'[o].disk.token <= minted'
  BY <1>8, <1>t DEF TokenExpires
<1>9. ASSUME NEW m \in Machines, Boots(m) PROVE \A o \in Machines : machine'[o].disk.token <= minted'
  BY <1>9, <1>t DEF Boots
<1>10. ASSUME NEW m \in Machines, Crashes(m) PROVE \A o \in Machines : machine'[o].disk.token <= minted'
  BY <1>10, <1>t DEF Crashes, Goes
<1>11. ASSUME NEW m \in Machines, Sends(m) PROVE \A o \in Machines : machine'[o].disk.token <= minted'
  <2>1. Goes(m, "probe") \/ Goes(m, "await") BY <1>11 DEF Sends
  <2> QED BY <2>1, <1>t DEF Goes
<1>12. ASSUME NEW m \in Machines, GivesUp(m) PROVE \A o \in Machines : machine'[o].disk.token <= minted'
  BY <1>12, <1>t DEF GivesUp, Goes
<1>13. ASSUME NEW m \in Machines, Proves(m) PROVE \A o \in Machines : machine'[o].disk.token <= minted'
  BY <1>13, <1>t DEF Proves, Goes
<1>14. ASSUME NEW m \in Machines, Marks(m) PROVE \A o \in Machines : machine'[o].disk.token <= minted'
  BY <1>14, <1>t DEF Marks
<1>15. ASSUME NEW m \in Machines, ForgetsToken(m) PROVE \A o \in Machines : machine'[o].disk.token <= minted'
  <2>1. 0 <= minted' BY <1>t
  <2> QED BY <2>1, <1>15, <1>t DEF ForgetsToken, Disk
<1>16. ASSUME NEW m \in Machines, Works(m) PROVE \A o \in Machines : machine'[o].disk.token <= minted'
  <2> DEFINE s == machine[m].script.stage
             D == [machine[m].disk EXCEPT !.past = IF s \in Markers THEN @ \cup {s} ELSE @,
                                          !.agent = (@ \/ s = 4), !.done = (s = 6)]
  <2>1. machine' = [machine EXCEPT ![m].disk = D, ![m].script.pc = "report"] BY <1>16 DEF Works, DiskOf
  <2>2. D.token = machine[m].disk.token BY <1>t DEF Disk
  <2> HIDE DEF D
  <2> QED BY <2>1, <2>2, <1>t
<1>17. ASSUME NEW m \in Machines, Fails(m) PROVE \A o \in Machines : machine'[o].disk.token <= minted'
  BY <1>17, <1>t DEF Fails, Goes
<1>18. ASSUME NEW m \in Machines, Reports(m) PROVE \A o \in Machines : machine'[o].disk.token <= minted'
  BY <1>18, <1>t DEF Reports
<1>19. ASSUME NEW m \in Machines, Beats(m) PROVE \A o \in Machines : machine'[o].disk.token <= minted'
  BY <1>19, <1>t DEF Beats
<1>20. ASSUME NEW c \in enrolling, Decides(c) PROVE \A o \in Machines : machine'[o].disk.token <= minted'
  <2>1. UNCHANGED machine \/ Goes(c.by, "mark") \/ Goes(c.by, "probe")
    BY <1>20 DEF Decides, Answers
  <2>2. c.by \in Machines BY <1>t DEF EnrollCall
  <2>3. ASSUME NEW pc, Goes(c.by, pc) PROVE \A o \in Machines : machine'[o].disk.token <= minted' BY <2>2, <2>3, <1>t DEF Goes
  <2>4. CASE UNCHANGED machine BY <2>4, <1>t
  <2> QED BY <2>1, <2>3, <2>4
<1>21. ASSUME NEW c \in enrolling, Binds(c) PROVE \A o \in Machines : machine'[o].disk.token <= minted'
  <2>1. UNCHANGED machine \/ Goes(c.by, "mark") \/ Goes(c.by, "probe")
    BY <1>21 DEF Binds, Answers
  <2>2. c.by \in Machines BY <1>t DEF EnrollCall
  <2>3. ASSUME NEW pc, Goes(c.by, pc) PROVE \A o \in Machines : machine'[o].disk.token <= minted' BY <2>2, <2>3, <1>t DEF Goes
  <2>4. CASE UNCHANGED machine BY <2>4, <1>t
  <2> QED BY <2>1, <2>3, <2>4
<1>22. ASSUME UNCHANGED enrollVars PROVE \A o \in Machines : machine'[o].disk.token <= minted'
  BY <1>22, <1>t DEF enrollVars
<1> QED BY <1>1, <1>2, <1>3, <1>4, <1>5, <1>6, <1>7, <1>8, <1>9, <1>10, <1>11, <1>12, <1>13, <1>14, <1>15, <1>16, <1>17, <1>18, <1>19, <1>20, <1>21, <1>22 DEF EnrollNext

\* Every step keeps CallsAgree.
LEMMA CallsStay ==
    ASSUME EnrollTypeOK, ScriptsAgree, CallsAgree, [EnrollNext]_enrollVars
    PROVE  CallsAgree'
<1>t. /\ ScriptsAgree /\ CallsAgree /\ machine \in [Machines -> [disk : Disk, script : Script]]
      /\ enrolling \subseteq EnrollCall /\ nodeRow \in [NodeIds -> EnrolledRow] /\ minted \in Nat
  BY DEF EnrollTypeOK, Token
<1>g. Grown BY TokensGrow
<1>k. \A m \in Machines : machine'[m].disk.token <= minted'
  BY SetUpTokensKept
<1>d2. \A c \in enrolling : /\ machine'[c.by].disk.key /\ machine'[c.by].disk.node = c.node
                            /\ c.token \in 1..minted' /\ c.seen \in {"none", "PROVISIONING"}
  BY <1>t, <1>g, DisksAreKept DEF CallsAgree, CallAgrees, DiskKept, Grown, EnrollCall
<1>d. ASSUME enrolling' = enrolling,
             \A m \in Machines : machine[m].script.pc = "await" => machine'[m].script.pc = "await"
      PROVE  CallsAgree'
  BY <1>d, <1>d2, <1>k, <1>t DEF CallsAgree, CallAgrees, EnrollCall
<1>answered. ASSUME NEW c \in enrolling, NEW ok, Answers(c, ok) PROVE CallsAgree'
  <2>1. c.by \in Machines BY <1>t DEF EnrollCall
  <2>2. enrolling' = enrolling \ {c} BY <1>answered DEF Answers
  <2>3. \A d \in enrolling' : d.heard => machine'[d.by].script.pc = "await"
    <3>1. CASE c.heard
      <4>1. \A d \in enrolling' : d.heard => d.by # c.by BY <2>2, <3>1, <1>t DEF CallsAgree, CallAgrees
      <4>2. \A o \in Machines \ {c.by} : machine'[o] = machine[o] BY <3>1, <1>answered, <2>1, <1>t DEF Answers, Goes
      <4> QED BY <2>2, <4>1, <4>2, <1>t DEF CallsAgree, CallAgrees, EnrollCall
    <3>2. CASE ~c.heard BY <3>2, <2>2, <1>answered, <1>t DEF Answers, CallsAgree, CallAgrees
    <3> QED BY <3>1, <3>2
  <2>4. ASSUME NEW d \in enrolling' PROVE CallAgrees(d)' BY <2>2, <2>3, <1>d2, <1>t DEF CallsAgree, CallAgrees
  <2> QED BY <2>4, <1>k DEF CallsAgree, CallAgrees
<1>1. ASSUME NEW n \in NodeIds, Registers(n) PROVE CallsAgree'
  BY <1>1, <1>d DEF Registers
<1>2. ASSUME NEW n \in NodeIds, OrdersRotation(n) PROVE CallsAgree'
  BY <1>2, <1>d DEF OrdersRotation
<1>3. ASSUME NEW n \in NodeIds, ClearsToken(n) PROVE CallsAgree'
  BY <1>3, <1>d DEF ClearsToken
<1>4. ASSUME NEW n \in NodeIds, NEW to \in RowState, OrdersMove(n, to) PROVE CallsAgree'
  BY <1>4, <1>d DEF OrdersMove
<1>5. ASSUME NEW v \in moves, WritesMove(v) PROVE CallsAgree'
  BY <1>5, <1>d DEF WritesMove
<1>6. ASSUME NEW v \in moves, Rotates(v) PROVE CallsAgree'
  BY <1>6, <1>d DEF Rotates
<1>7. ASSUME NEW m \in Machines, NEW n \in NodeIds, NEW t \in Token, SetsUp(m, n, t) PROVE CallsAgree'
  <2>1. enrolling' = enrolling BY <1>7 DEF SetsUp
  <2>2. \A o \in Machines : machine[o].script.pc = "await" => machine'[o].script.pc = "await"
    BY <1>7, <1>t DEF SetsUp
  <2> QED BY <2>1, <2>2, <1>d
<1>8. ASSUME NEW t \in Token, TokenExpires(t) PROVE CallsAgree'
  BY <1>8, <1>d DEF TokenExpires
<1>9. ASSUME NEW m \in Machines, Boots(m) PROVE CallsAgree'
  <2>1. enrolling' = enrolling BY <1>9 DEF Boots
  <2>2. \A o \in Machines : machine[o].script.pc = "await" => machine'[o].script.pc = "await"
    BY <1>9, <1>t DEF Boots, ScriptAt
  <2> QED BY <2>1, <2>2, <1>d
<1>10. ASSUME NEW m \in Machines, Crashes(m) PROVE CallsAgree'
  <2>1. enrolling' = Unheard(m) BY <1>10 DEF Crashes
  <2>2. \A o \in Machines \ {m} : machine'[o].script.pc = machine[o].script.pc BY <1>10, <1>t DEF Crashes, Goes
  <2>3. \A c \in enrolling' : \E e \in enrolling :
            /\ c.by = e.by /\ c.node = e.node /\ c.token = e.token /\ c.seen = e.seen
            /\ c.heard => c = e /\ c.by # m
    BY <2>1, <1>t DEF Unheard, EnrollCall
  <2>4. ASSUME NEW c \in enrolling' PROVE CallAgrees(c)' BY <2>2, <2>3, <1>d2, <1>t DEF CallsAgree, CallAgrees, EnrollCall
  <2> QED BY <2>4, <1>k DEF CallsAgree, CallAgrees
<1>11. ASSUME NEW m \in Machines, Sends(m) PROVE CallsAgree'
  <2>1. CASE DiskOf(m).token = 0
    <3>1. enrolling' = enrolling /\ Goes(m, "probe") /\ machine[m].script.pc = "enroll" BY <1>11, <2>1 DEF Sends, ScriptAt
    <3>2. \A o \in Machines : machine[o].script.pc = "await" => machine'[o].script.pc = "await" BY <3>1, <1>t DEF Goes
    <3> QED BY <3>1, <3>2, <1>d
  <2>2. CASE DiskOf(m).token # 0
    <3>0. PICK c : c = [by |-> m, token |-> DiskOf(m).token, node |-> DiskOf(m).node, seen |-> "none", heard |-> TRUE]
      OBVIOUS
    <3>1. enrolling' = enrolling \cup {c} /\ Goes(m, "await") /\ machine[m].script.pc = "enroll" /\ machine[m].disk.key
      BY <3>0, <1>11, <2>2, <1>t DEF Sends, ScriptAt, ScriptsAgree, ScriptAgrees
    <3>2. c.by = m /\ c.token = machine[m].disk.token /\ c.node = machine[m].disk.node /\ c.seen = "none" /\ c.heard BY <3>0 DEF DiskOf
    <3>3. c.token \in 1..minted' BY <3>2, <2>2, <1>t, <1>g DEF CallsAgree, DiskOf, Grown, Disk, Token
    <3>4. machine'[m].disk = machine[m].disk /\ machine'[m].script.pc = "await" BY <3>1, <1>t DEF Goes, Disk
    <3>5. \A o \in Machines \ {m} : machine'[o] = machine[o] BY <3>1, <1>t DEF Goes
    <3>6. \A d \in enrolling : d.by = m => ~d.heard BY <3>1, <1>t DEF CallsAgree, CallAgrees
    <3>7. /\ machine'[c.by].disk.key /\ machine'[c.by].disk.node = c.node
          /\ c.token \in 1..minted' /\ c.seen \in {"none", "PROVISIONING"}
          /\ machine'[c.by].script.pc = "await"
      BY <3>1, <3>2, <3>3, <3>4
    <3>8. ASSUME NEW d \in enrolling PROVE CallAgrees(d)'
      <4>1. d.heard => d.by \in Machines \ {m} BY <3>6, <1>t DEF EnrollCall
      <4>2. d.heard => machine'[d.by].script.pc = "await" BY <4>1, <3>5, <1>t DEF CallsAgree, CallAgrees
      <4>3. \A e \in enrolling' : d.heard /\ e.heard /\ d.by = e.by => d = e
        BY <3>1, <3>2, <3>6, <1>t DEF CallsAgree, CallAgrees
      <4> QED BY <4>2, <4>3, <1>d2 DEF CallAgrees
    <3>9. CallAgrees(c)' BY <3>1, <3>2, <3>6, <3>7 DEF CallAgrees
    <3> QED BY <3>1, <3>8, <3>9, <1>k DEF CallsAgree, CallAgrees
  <2> QED BY <2>1, <2>2
<1>12. ASSUME NEW m \in Machines, GivesUp(m) PROVE CallsAgree'
  <2>1. enrolling' = Unheard(m) BY <1>12 DEF GivesUp
  <2>2. \A o \in Machines \ {m} : machine'[o].script.pc = machine[o].script.pc BY <1>12, <1>t DEF GivesUp, Goes
  <2>3. \A c \in enrolling' : \E e \in enrolling :
            /\ c.by = e.by /\ c.node = e.node /\ c.token = e.token /\ c.seen = e.seen
            /\ c.heard => c = e /\ c.by # m
    BY <2>1, <1>t DEF Unheard, EnrollCall
  <2>4. ASSUME NEW c \in enrolling' PROVE CallAgrees(c)' BY <2>2, <2>3, <1>d2, <1>t DEF CallsAgree, CallAgrees, EnrollCall
  <2> QED BY <2>4, <1>k DEF CallsAgree, CallAgrees
<1>13. ASSUME NEW m \in Machines, Proves(m) PROVE CallsAgree'
  <2>1. enrolling' = enrolling BY <1>13 DEF Proves
  <2>2. \A o \in Machines : machine[o].script.pc = "await" => machine'[o].script.pc = "await"
    BY <1>13, <1>t DEF Proves, Goes, ScriptAt
  <2> QED BY <2>1, <2>2, <1>d
<1>14. ASSUME NEW m \in Machines, Marks(m) PROVE CallsAgree'
  <2>1. enrolling' = enrolling BY <1>14 DEF Marks
  <2>2. \A o \in Machines : machine[o].script.pc = "await" => machine'[o].script.pc = "await"
    BY <1>14, <1>t DEF Marks, ScriptAt
  <2> QED BY <2>1, <2>2, <1>d
<1>15. ASSUME NEW m \in Machines, ForgetsToken(m) PROVE CallsAgree'
  <2>1. enrolling' = enrolling BY <1>15 DEF ForgetsToken
  <2>2. \A o \in Machines : machine[o].script.pc = "await" => machine'[o].script.pc = "await"
    BY <1>15, <1>t DEF ForgetsToken, ScriptAt
  <2> QED BY <2>1, <2>2, <1>d
<1>16. ASSUME NEW m \in Machines, Works(m) PROVE CallsAgree'
  <2>1. machine[m].script.pc \in {"work", "report"} /\ enrolling' = enrolling BY <1>16 DEF Works, ScriptAt
  <2>2. \A o \in Machines \ {m} : machine'[o] = machine[o] BY <1>16, <1>t DEF Works
  <2> QED BY <2>1, <2>2, <1>d, <1>t
<1>17. ASSUME NEW m \in Machines, Fails(m) PROVE CallsAgree'
  <2>1. enrolling' = enrolling BY <1>17 DEF Fails
  <2>2. \A o \in Machines : machine[o].script.pc = "await" => machine'[o].script.pc = "await"
    BY <1>17, <1>t DEF Fails, Goes, ScriptAt
  <2> QED BY <2>1, <2>2, <1>d
<1>18. ASSUME NEW m \in Machines, Reports(m) PROVE CallsAgree'
  <2>1. machine[m].script.pc \in {"work", "report"} /\ enrolling' = enrolling BY <1>18 DEF Reports, ScriptAt
  <2>2. \A o \in Machines \ {m} : machine'[o] = machine[o] BY <1>18, <1>t DEF Reports
  <2> QED BY <2>1, <2>2, <1>d, <1>t
<1>19. ASSUME NEW m \in Machines, Beats(m) PROVE CallsAgree'
  BY <1>19, <1>d DEF Beats
<1>20. ASSUME NEW c \in enrolling, Decides(c) PROVE CallsAgree'
  <2>0. PICK e : e = [c EXCEPT !.seen = nodeRow[c.node].state] OBVIOUS
  <2>1. CASE Answers(c, FALSE) BY <2>1, <1>answered
  <2>2. CASE Answers(c, nodeRow[c.node].state = "WARMING_UP" /\ nodeRow[c.node].key = c.by) BY <2>2, <1>answered
  <2>3. CASE /\ enrolling' = (enrolling \ {c}) \cup {e} /\ UNCHANGED machine
             /\ "WARMING_UP" \in AllowedNext[nodeRow[c.node].state]
    <3>1. c.node \in NodeIds /\ nodeRow[c.node].state \in RowState BY <1>t DEF EnrollCall, EnrolledRow
    <3>2. nodeRow[c.node].state = "PROVISIONING" BY <2>3, <3>1 DEF AllowedNext, RowState
    <3>3. e.by = c.by /\ e.node = c.node /\ e.token = c.token /\ e.heard = c.heard /\ e.seen = "PROVISIONING"
      BY <2>0, <3>2, <1>t DEF EnrollCall
    <3>4. ASSUME NEW d \in enrolling, d # c PROVE CallAgrees(d)' BY <2>3, <3>3, <3>4, <1>d2, <1>t DEF CallsAgree, CallAgrees
    <3>5. CallAgrees(e)' BY <2>3, <3>3, <1>d2, <1>t DEF CallsAgree, CallAgrees
    <3> QED BY <2>3, <3>4, <3>5, <1>k DEF CallsAgree, CallAgrees
  <2>4. \/ Answers(c, FALSE)
        \/ Answers(c, nodeRow[c.node].state = "WARMING_UP" /\ nodeRow[c.node].key = c.by)
        \/ /\ enrolling' = (enrolling \ {c}) \cup {e} /\ UNCHANGED machine
           /\ "WARMING_UP" \in AllowedNext[nodeRow[c.node].state]
    BY <1>20, <2>0 DEF Decides
  <2> QED BY <2>1, <2>2, <2>3, <2>4
<1>21. ASSUME NEW c \in enrolling, Binds(c) PROVE CallsAgree'
  BY <1>21, <1>answered DEF Binds
<1>22. ASSUME UNCHANGED enrollVars PROVE CallsAgree'
  BY <1>22, <1>d DEF enrollVars
<1> QED BY <1>1, <1>2, <1>3, <1>4, <1>5, <1>6, <1>7, <1>8, <1>9, <1>10, <1>11, <1>12, <1>13, <1>14, <1>15, <1>16, <1>17, <1>18, <1>19, <1>20, <1>21, <1>22 DEF EnrollNext

-----------------------------------------------------------------------------
(* Rows *)

\* A report touches neither the state of a row nor its token nor its key.
RowsKept ==
    \A n \in NodeIds : /\ nodeRow'[n].state = nodeRow[n].state /\ nodeRow'[n].token = nodeRow[n].token
                       /\ nodeRow'[n].key = nodeRow[n].key
\* A report changes nothing but its own columns.
LEMMA TellsKeepsRows ==
    ASSUME nodeRow \in [NodeIds -> EnrolledRow], NEW m, NEW s, NEW status, Tells(m, s, status)
    PROVE  RowsKept
BY DEF Tells, Reported, RowsKept, EnrolledRow

\* Every step keeps TokensAgree.
LEMMA TokensStay ==
    ASSUME EnrollTypeOK, ScriptsAgree, CallsAgree, TokensAgree, [EnrollNext]_enrollVars
    PROVE  TokensAgree'
<1>t. /\ nodeRow \in [NodeIds -> EnrolledRow] /\ minted \in Nat /\ redeemed \in [Token -> SUBSET Machines]
      /\ enrolling \subseteq EnrollCall /\ moves \subseteq Move /\ TokensAgree /\ CallsAgree
  BY DEF EnrollTypeOK, Token
<1>same. ASSUME UNCHANGED <<nodeRow, minted, redeemed>> PROVE TokensAgree'
  BY <1>same, <1>t DEF TokensAgree, TokenBindsOneKey
<1>kept. ASSUME RowsKept, UNCHANGED <<minted, redeemed>> PROVE TokensAgree'
  BY <1>kept, <1>t, ZenonT(60) DEF TokensAgree, TokenBindsOneKey, RowsKept
<1>fresh. ASSUME NEW n \in NodeIds, nodeRow' = [nodeRow EXCEPT ![n] = Minted(nodeRow[n])],
                 minted' = minted + 1, redeemed' = redeemed
          PROVE  TokensAgree'
  <2>1. \A o \in NodeIds : /\ nodeRow[o].token <= minted
                           /\ nodeRow'[o].token = IF o = n THEN minted + 1 ELSE nodeRow[o].token
                           /\ nodeRow'[o].state = IF o = n THEN "PROVISIONING" ELSE nodeRow[o].state
    BY <1>fresh, <1>t DEF Minted, EnrolledRow, TokensAgree
  <2>2. nodeRow' \in [NodeIds -> EnrolledRow] /\ minted' \in Token BY TypeStays DEF EnrollTypeOK
  <2>3. redeemed[minted + 1] = {} BY <2>2, <1>fresh, <1>t DEF TokensAgree
  <2>4. \A o \in NodeIds : nodeRow[o].token \in Nat BY <1>t DEF EnrolledRow, Token
  <2>5. \A o \in NodeIds : /\ nodeRow'[o].token <= minted'
                           /\ nodeRow'[o].state = "PROVISIONING" => redeemed'[nodeRow'[o].token] = {}
    BY <2>1, <2>3, <2>4, <1>fresh, <1>t DEF TokensAgree
  <2>6. \A o, p \in NodeIds : nodeRow'[o].token = nodeRow'[p].token => o = p \/ nodeRow'[o].token = 0
    BY <2>1, <2>4, <1>t DEF TokensAgree
  <2>7. \A t \in Token : redeemed'[t] # {} => t \in 1..minted' BY <1>fresh, <1>t DEF TokensAgree
  <2>8. TokenBindsOneKey' BY <1>fresh, <1>t DEF TokensAgree, TokenBindsOneKey
  <2> QED BY <2>5, <2>6, <2>7, <2>8 DEF TokensAgree
<1>1. ASSUME NEW n \in NodeIds, Registers(n) PROVE TokensAgree'
  <2>1. nodeRow' = [nodeRow EXCEPT ![n] = Minted(nodeRow[n])] /\ minted' = minted + 1 /\ redeemed' = redeemed BY <1>1 DEF Registers
  <2> QED BY <2>1, <1>fresh
<1>2. ASSUME NEW n \in NodeIds, OrdersRotation(n) PROVE TokensAgree'
  BY <1>2, <1>same DEF OrdersRotation
<1>3. ASSUME NEW n \in NodeIds, ClearsToken(n) PROVE TokensAgree'
  <2>1. /\ minted' = minted /\ redeemed' = redeemed
        /\ nodeRow' = [nodeRow EXCEPT ![n].token = IF nodeRow[n].state = "PROVISIONING" THEN @ ELSE 0]
    BY <1>3 DEF ClearsToken
  <2>2. \A o \in NodeIds : /\ nodeRow'[o].state = nodeRow[o].state
                           /\ nodeRow'[o].token \in {0, nodeRow[o].token}
                           /\ nodeRow[o].state = "PROVISIONING" => nodeRow'[o].token = nodeRow[o].token
    BY <2>1, <1>t DEF EnrolledRow
  <2> QED BY <2>1, <2>2, <1>t, SMTT(30) DEF TokensAgree, TokenBindsOneKey
<1>4. ASSUME NEW n \in NodeIds, NEW to \in RowState, OrdersMove(n, to) PROVE TokensAgree'
  BY <1>4, <1>same DEF OrdersMove
<1>5. ASSUME NEW v \in moves, WritesMove(v) PROVE TokensAgree'
  <2>1. v.node \in NodeIds /\ redeemed' = redeemed /\ nodeRow' = [nodeRow EXCEPT ![v.node] = MovedRow(v)]
    BY <1>t, <1>5 DEF WritesMove, Move
  <2>2. minted' = IF nodeRow'[v.node].token = minted + 1 THEN minted + 1 ELSE minted BY <1>5 DEF WritesMove
  <2>3. CASE v.to = "PROVISIONING" /\ nodeRow[v.node].state = v.from
    <3>1. MovedRow(v) = Minted(nodeRow[v.node]) BY <2>3 DEF MovedRow, Contained
    <3>2. minted' = minted + 1 BY <2>1, <2>2, <3>1, <1>t DEF Minted, EnrolledRow
    <3> QED BY <2>1, <3>1, <3>2, <1>fresh
  <2>4. CASE ~(v.to = "PROVISIONING" /\ nodeRow[v.node].state = v.from)
    <3>1. /\ MovedRow(v).token = nodeRow[v.node].token
          /\ MovedRow(v).state = "PROVISIONING" => nodeRow[v.node].state = "PROVISIONING"
      BY <2>4, <1>t, <2>1 DEF MovedRow, EnrolledRow, Contained
    <3>2. minted' = minted BY <2>1, <2>2, <3>1, <1>t DEF TokensAgree
    <3> QED BY <2>1, <3>1, <3>2, <1>t DEF TokensAgree, TokenBindsOneKey
  <2> QED BY <2>3, <2>4
<1>6. ASSUME NEW v \in moves, Rotates(v) PROVE TokensAgree'
  <2>1. \A n \in NodeIds : nodeRow'[n].state = nodeRow[n].state /\ nodeRow'[n].token = nodeRow[n].token
    BY <1>6, <1>t DEF Rotates, EnrolledRow
  <2>2. UNCHANGED <<minted, redeemed>> BY <1>6 DEF Rotates
  <2> QED BY <2>1, <2>2, <1>t DEF TokensAgree, TokenBindsOneKey
<1>7. ASSUME NEW m \in Machines, NEW n \in NodeIds, NEW t \in Token, SetsUp(m, n, t) PROVE TokensAgree'
  BY <1>7, <1>same DEF SetsUp
<1>8. ASSUME NEW t \in Token, TokenExpires(t) PROVE TokensAgree'
  BY <1>8, <1>same DEF TokenExpires
<1>9. ASSUME NEW m \in Machines, Boots(m) PROVE TokensAgree'
  BY <1>9, <1>same DEF Boots
<1>10. ASSUME NEW m \in Machines, Crashes(m) PROVE TokensAgree'
  BY <1>10, <1>same DEF Crashes
<1>11. ASSUME NEW m \in Machines, Sends(m) PROVE TokensAgree'
  BY <1>11, <1>same DEF Sends
<1>12. ASSUME NEW m \in Machines, GivesUp(m) PROVE TokensAgree'
  BY <1>12, <1>same DEF GivesUp
<1>13. ASSUME NEW m \in Machines, Proves(m) PROVE TokensAgree'
  BY <1>13, <1>same DEF Proves
<1>14. ASSUME NEW m \in Machines, Marks(m) PROVE TokensAgree'
  BY <1>14, <1>same DEF Marks
<1>15. ASSUME NEW m \in Machines, ForgetsToken(m) PROVE TokensAgree'
  BY <1>15, <1>same DEF ForgetsToken
<1>16. ASSUME NEW m \in Machines, Works(m) PROVE TokensAgree'
  <2>1. UNCHANGED nodeRow \/ Tells(m, machine[m].script.stage, "RUNNING") BY <1>16 DEF Works
  <2>2. CASE UNCHANGED nodeRow BY <2>2, <1>16, <1>same DEF Works
  <2>3. CASE Tells(m, machine[m].script.stage, "RUNNING") BY <2>3, <1>16, <1>t, <1>kept, TellsKeepsRows DEF Works
  <2> QED BY <2>1, <2>2, <2>3
<1>17. ASSUME NEW m \in Machines, Fails(m) PROVE TokensAgree'
  BY <1>17, <1>t, <1>kept, TellsKeepsRows DEF Fails
<1>18. ASSUME NEW m \in Machines, Reports(m) PROVE TokensAgree'
  BY <1>18, <1>t, <1>kept, TellsKeepsRows DEF Reports
<1>19. ASSUME NEW m \in Machines, Beats(m) PROVE TokensAgree'
  BY <1>19, <1>same DEF Beats
<1>20. ASSUME NEW c \in enrolling, Decides(c) PROVE TokensAgree'
  BY <1>20, <1>same DEF Decides
<1>21. ASSUME NEW c \in enrolling, Binds(c) PROVE TokensAgree'
  <2>1. c \in EnrollCall /\ c.by \in Machines /\ c.node \in NodeIds /\ c.token \in Token BY <1>t DEF EnrollCall
  <2>2. CASE MayBind(c)
    <3>1. /\ nodeRow' = [nodeRow EXCEPT ![c.node].key = c.by, ![c.node].state = "WARMING_UP"]
          /\ redeemed' = [redeemed EXCEPT ![c.token] = @ \cup {c.by}] /\ minted' = minted
      BY <2>2, <1>21 DEF Binds
    <3>2. nodeRow[c.node].state = "PROVISIONING" /\ nodeRow[c.node].token = c.token /\ c.token \in 1..minted
      BY <2>2, <1>21, <1>t DEF Binds, MayBind, CallsAgree, CallAgrees
    <3>3. redeemed[c.token] = {} BY <3>2, <2>1, <1>t DEF TokensAgree
    <3>4. \A n \in NodeIds : /\ nodeRow'[n].token = nodeRow[n].token
                             /\ nodeRow'[n].state = "PROVISIONING" => n # c.node /\ nodeRow[n].state = "PROVISIONING"
      BY <3>1, <2>1, <1>t DEF EnrolledRow
    <3>5. \A n \in NodeIds : nodeRow'[n].state = "PROVISIONING" => nodeRow[n].token # c.token
      BY <3>2, <3>4, <2>1, <1>t DEF TokensAgree
    <3>6. redeemed'[c.token] = {c.by} /\ \A t \in Token \ {c.token} : redeemed'[t] = redeemed[t] BY <3>1, <3>3, <2>1, <1>t
    <3>7. \A n \in NodeIds : nodeRow[n].token \in Token BY <1>t DEF EnrolledRow
    <3> QED BY <3>1, <3>2, <3>4, <3>5, <3>6, <3>7, <1>t DEF TokensAgree, TokenBindsOneKey
  <2>3. CASE ~MayBind(c) BY <2>3, <1>21, <1>same DEF Binds
  <2> QED BY <2>2, <2>3
<1>22. ASSUME UNCHANGED enrollVars PROVE TokensAgree'
  BY <1>22, <1>same DEF enrollVars
<1> QED BY <1>1, <1>2, <1>3, <1>4, <1>5, <1>6, <1>7, <1>8, <1>9, <1>10, <1>11, <1>12, <1>13, <1>14, <1>15, <1>16, <1>17, <1>18, <1>19, <1>20, <1>21, <1>22 DEF EnrollNext

\* A key that was bound stays so.
LEMMA BoundIsKept ==
    ASSUME EnrollTypeOK, [EnrollNext]_enrollVars, NEW m \in Machines, WasBound(m)
    PROVE  WasBound(m)'
<1>1. PICK t \in 1..minted : m \in redeemed[t] BY DEF WasBound
<1>2. t \in Token BY <1>1, Bounds DEF EnrollTypeOK, Token
<1>3. t \in 1..minted' /\ m \in redeemed'[t] BY <1>1, <1>2, TokensGrow DEF Grown, EnrollTypeOK, Token
<1> QED BY <1>3 DEF WasBound

\* Every step keeps KeysAgree.
LEMMA KeysStay ==
    ASSUME EnrollTypeOK, ScriptsAgree, CallsAgree, KeysAgree, [EnrollNext]_enrollVars
    PROVE  KeysAgree'
<1>t. /\ nodeRow \in [NodeIds -> EnrolledRow] /\ minted \in Nat /\ redeemed \in [Token -> SUBSET Machines]
      /\ enrolling \subseteq EnrollCall /\ moves \subseteq Move /\ KeysAgree /\ CallsAgree /\ ScriptsAgree
      /\ machine \in [Machines -> [disk : Disk, script : Script]]
  BY DEF EnrollTypeOK, Token
<1>old. \A n \in NodeIds, m \in Machines :
            nodeRow[n].key = m => machine'[m].disk.key /\ machine'[m].disk.node = n /\ WasBound(m)'
  BY <1>t, DisksAreKept, BoundIsKept DEF DiskKept, KeysAgree
<1>rows. ASSUME \A n \in NodeIds, m \in Machines : nodeRow'[n].key = m => nodeRow[n].key = m
         PROVE  \A n \in NodeIds, m \in Machines :
                    nodeRow'[n].key = m => machine'[m].disk.key /\ machine'[m].disk.node = n /\ WasBound(m)'
  BY <1>rows, <1>old
<1>marked. ASSUME NEW m \in Machines, WasBound(m), \A o \in Machines \ {m} : machine'[o] = machine[o],
                  \A n \in NodeIds, o \in Machines :
                      nodeRow'[n].key = o => machine'[o].disk.key /\ machine'[o].disk.node = n /\ WasBound(o)'
           PROVE  KeysAgree'
  <2>1. \A o \in Machines : machine'[o].disk.enrolled \/ machine'[o].script.pc = "mark" => WasBound(o)
    BY <1>marked, <1>t DEF KeysAgree
  <2> QED BY <2>1, <1>marked, BoundIsKept DEF KeysAgree
<1>marks. ASSUME \A m \in Machines : machine'[m].script.pc = "mark" => machine[m].script.pc = "mark",
                 \A n \in NodeIds, m \in Machines :
                     nodeRow'[n].key = m => machine'[m].disk.key /\ machine'[m].disk.node = n /\ WasBound(m)'
          PROVE  KeysAgree'
  <2>1. \A m \in Machines : machine'[m].disk.enrolled \/ machine'[m].script.pc = "mark" => WasBound(m)
    BY <1>marks, <1>t, DisksAreKept DEF KeysAgree, DiskKept
  <2> QED BY <2>1, <1>marks, BoundIsKept DEF KeysAgree
<1>1. ASSUME NEW n \in NodeIds, Registers(n) PROVE KeysAgree'
  <2>1. \A o \in NodeIds : nodeRow'[o].key \in {nodeRow[o].key, "none", "rotated"}
    BY <1>1, <1>t DEF Registers, EnrolledRow, Minted
  <2>2. UNCHANGED machine BY <1>1 DEF Registers
  <2> QED BY <2>1, <2>2, <1>rows, <1>marks, EnrollmentNames
<1>2. ASSUME NEW n \in NodeIds, OrdersRotation(n) PROVE KeysAgree'
  BY <1>2, <1>rows, <1>marks DEF OrdersRotation
<1>3. ASSUME NEW n \in NodeIds, ClearsToken(n) PROVE KeysAgree'
  <2>1. \A o \in NodeIds : nodeRow'[o].key \in {nodeRow[o].key, "none", "rotated"}
    BY <1>3, <1>t DEF ClearsToken, EnrolledRow
  <2>2. UNCHANGED machine BY <1>3 DEF ClearsToken
  <2> QED BY <2>1, <2>2, <1>rows, <1>marks, EnrollmentNames
<1>4. ASSUME NEW n \in NodeIds, NEW to \in RowState, OrdersMove(n, to) PROVE KeysAgree'
  BY <1>4, <1>rows, <1>marks DEF OrdersMove
<1>5. ASSUME NEW v \in moves, WritesMove(v) PROVE KeysAgree'
  <2>1. \A o \in NodeIds : nodeRow'[o].key \in {nodeRow[o].key, "none", "rotated"}
    BY <1>5, <1>t DEF WritesMove, EnrolledRow, MovedRow, Minted, Move
  <2>2. UNCHANGED machine BY <1>5 DEF WritesMove
  <2> QED BY <2>1, <2>2, <1>rows, <1>marks, EnrollmentNames
<1>6. ASSUME NEW v \in moves, Rotates(v) PROVE KeysAgree'
  <2>1. \A o \in NodeIds : nodeRow'[o].key \in {nodeRow[o].key, "none", "rotated"}
    BY <1>6, <1>t DEF Rotates, EnrolledRow
  <2>2. UNCHANGED machine BY <1>6 DEF Rotates
  <2> QED BY <2>1, <2>2, <1>rows, <1>marks, EnrollmentNames
<1>7. ASSUME NEW m \in Machines, NEW n \in NodeIds, NEW t \in Token, SetsUp(m, n, t) PROVE KeysAgree'
  <2>1. UNCHANGED nodeRow BY <1>7 DEF SetsUp
  <2>3. \A o \in Machines : machine'[o].script.pc = "mark" => machine[o].script.pc = "mark"
    BY <1>7, <1>t DEF SetsUp
  <2> QED BY <2>1, <2>3, <1>rows, <1>marks
<1>8. ASSUME NEW t \in Token, TokenExpires(t) PROVE KeysAgree'
  BY <1>8, <1>rows, <1>marks DEF TokenExpires
<1>9. ASSUME NEW m \in Machines, Boots(m) PROVE KeysAgree'
  <2>1. UNCHANGED nodeRow BY <1>9 DEF Boots
  <2>2. PICK s \in {[stage |-> After(m, 1), pc |-> "work"], [stage |-> 1, pc |-> "enroll"]} :
            machine' = [machine EXCEPT ![m].disk.key = TRUE, ![m].script = s]
    BY <1>9 DEF Boots
  <2>3. \A o \in Machines : machine'[o].script.pc = "mark" => machine[o].script.pc = "mark" BY <2>2, <1>t
  <2> QED BY <2>1, <2>3, <1>rows, <1>marks
<1>10. ASSUME NEW m \in Machines, Crashes(m) PROVE KeysAgree'
  <2>1. UNCHANGED nodeRow BY <1>10 DEF Crashes
  <2>3. \A o \in Machines : machine'[o].script.pc = "mark" => machine[o].script.pc = "mark"
    BY <1>10, <1>t DEF Crashes, Goes
  <2> QED BY <2>1, <2>3, <1>rows, <1>marks
<1>11. ASSUME NEW m \in Machines, Sends(m) PROVE KeysAgree'
  <2>1. UNCHANGED nodeRow BY <1>11 DEF Sends
  <2>2. Goes(m, "probe") \/ Goes(m, "await") BY <1>11 DEF Sends
  <2>3. \A o \in Machines : machine'[o].script.pc = "mark" => machine[o].script.pc = "mark"
    <3>1. CASE Goes(m, "probe") BY <3>1, <1>t DEF Goes
    <3>2. CASE Goes(m, "await") BY <3>2, <1>t DEF Goes
    <3> QED BY <2>2, <3>1, <3>2
  <2> QED BY <2>1, <2>3, <1>rows, <1>marks
<1>12. ASSUME NEW m \in Machines, GivesUp(m) PROVE KeysAgree'
  <2>1. UNCHANGED nodeRow BY <1>12 DEF GivesUp
  <2>3. \A o \in Machines : machine'[o].script.pc = "mark" => machine[o].script.pc = "mark"
    BY <1>12, <1>t DEF GivesUp, Goes
  <2> QED BY <2>1, <2>3, <1>rows, <1>marks
<1>13. ASSUME NEW m \in Machines, Proves(m) PROVE KeysAgree'
  <2>1. UNCHANGED nodeRow BY <1>13 DEF Proves
  <2>2. CASE Authenticated(m) = {}
    <3>1. \A o \in Machines : machine'[o].script.pc = "mark" => machine[o].script.pc = "mark"
      BY <1>13, <2>2, <1>t DEF Proves, Goes
    <3> QED BY <2>1, <3>1, <1>rows, <1>marks
  <2>3. CASE Authenticated(m) # {}
    <3>1. WasBound(m) BY <2>3, <1>t DEF Authenticated, KeysAgree
    <3>2. \A o \in Machines \ {m} : machine'[o] = machine[o] BY <1>13, <1>t DEF Proves, Goes
    <3> QED BY <2>1, <3>1, <3>2, <1>rows, <1>marked
  <2> QED BY <2>2, <2>3
<1>14. ASSUME NEW m \in Machines, Marks(m) PROVE KeysAgree'
  <2>1. UNCHANGED nodeRow BY <1>14 DEF Marks
  <2>3. \A o \in Machines : machine'[o].script.pc = "mark" => machine[o].script.pc = "mark"
    BY <1>14, <1>t DEF Marks
  <2> QED BY <2>1, <2>3, <1>rows, <1>marks
<1>15. ASSUME NEW m \in Machines, ForgetsToken(m) PROVE KeysAgree'
  <2>1. UNCHANGED nodeRow BY <1>15 DEF ForgetsToken
  <2>3. \A o \in Machines : machine'[o].script.pc = "mark" => machine[o].script.pc = "mark"
    BY <1>15, <1>t DEF ForgetsToken
  <2> QED BY <2>1, <2>3, <1>rows, <1>marks
<1>16. ASSUME NEW m \in Machines, Works(m) PROVE KeysAgree'
  <2>1. UNCHANGED nodeRow \/ RowsKept BY <1>16, <1>t, TellsKeepsRows DEF Works
  <2>2. \A n \in NodeIds : nodeRow'[n].key = nodeRow[n].key BY <2>1 DEF RowsKept
  <2>3. \A o \in Machines : machine'[o].script.pc = "mark" => machine[o].script.pc = "mark"
    BY <1>16, <1>t DEF Works
  <2> QED BY <2>2, <2>3, <1>rows, <1>marks
<1>17. ASSUME NEW m \in Machines, Fails(m) PROVE KeysAgree'
  <2>1. UNCHANGED nodeRow \/ RowsKept BY <1>17, <1>t, TellsKeepsRows DEF Fails
  <2>2. \A n \in NodeIds : nodeRow'[n].key = nodeRow[n].key BY <2>1 DEF RowsKept
  <2>3. \A o \in Machines : machine'[o].script.pc = "mark" => machine[o].script.pc = "mark"
    BY <1>17, <1>t DEF Fails, Goes
  <2> QED BY <2>2, <2>3, <1>rows, <1>marks
<1>18. ASSUME NEW m \in Machines, Reports(m) PROVE KeysAgree'
  <2>1. UNCHANGED nodeRow \/ RowsKept BY <1>18, <1>t, TellsKeepsRows DEF Reports
  <2>2. \A n \in NodeIds : nodeRow'[n].key = nodeRow[n].key BY <2>1 DEF RowsKept
  <2>3. \A o \in Machines : machine'[o].script.pc = "mark" => machine[o].script.pc = "mark"
    BY <1>18, <1>t DEF Reports
  <2> QED BY <2>2, <2>3, <1>rows, <1>marks
<1>19. ASSUME NEW m \in Machines, Beats(m) PROVE KeysAgree'
  BY <1>19, <1>rows, <1>marks DEF Beats
<1>20. ASSUME NEW c \in enrolling, Decides(c) PROVE KeysAgree'
  <2>0. c.by \in Machines /\ c.node \in NodeIds BY <1>t DEF EnrollCall
  <2>1. UNCHANGED nodeRow BY <1>20 DEF Decides
  <2>2. CASE UNCHANGED machine BY <2>1, <2>2, <1>rows, <1>marks
  <2>3. CASE Goes(c.by, "probe")
    <3>1. \A o \in Machines : machine'[o].script.pc = "mark" => machine[o].script.pc = "mark" BY <2>0, <2>3, <1>t DEF Goes
    <3> QED BY <2>1, <3>1, <1>rows, <1>marks
  <2>4. CASE Goes(c.by, "mark") /\ nodeRow[c.node].key = c.by
    <3>1. WasBound(c.by) BY <2>0, <2>4, <1>t DEF KeysAgree
    <3>2. \A o \in Machines \ {c.by} : machine'[o] = machine[o] BY <2>0, <2>4, <1>t DEF Goes
    <3> QED BY <2>0, <2>1, <3>1, <3>2, <1>rows, <1>marked
  <2>5. UNCHANGED machine \/ Goes(c.by, "probe") \/ (Goes(c.by, "mark") /\ nodeRow[c.node].key = c.by)
    BY <1>20 DEF Decides, Answers
  <2> QED BY <2>2, <2>3, <2>4, <2>5
<1>21. ASSUME NEW c \in enrolling, Binds(c) PROVE KeysAgree'
  <2>0. c.by \in Machines /\ c.node \in NodeIds /\ c.token \in Token BY <1>t DEF EnrollCall
  <2>1. CASE ~MayBind(c)
    <3>1. UNCHANGED nodeRow /\ (UNCHANGED machine \/ Goes(c.by, "probe")) BY <2>1, <1>21 DEF Binds, Answers
    <3>2. \A o \in Machines : machine'[o].script.pc = "mark" => machine[o].script.pc = "mark"
      <4>1. CASE UNCHANGED machine BY <4>1
      <4>2. CASE Goes(c.by, "probe") BY <4>2, <2>0, <1>t DEF Goes
      <4> QED BY <3>1, <4>1, <4>2
    <3> QED BY <3>1, <3>2, <1>rows, <1>marks
  <2>2. CASE MayBind(c)
    <3>1. /\ nodeRow' = [nodeRow EXCEPT ![c.node].key = c.by, ![c.node].state = "WARMING_UP"]
          /\ redeemed' = [redeemed EXCEPT ![c.token] = @ \cup {c.by}] /\ minted' = minted
      BY <2>2, <1>21 DEF Binds
    <3>2. UNCHANGED machine \/ Goes(c.by, "mark") BY <2>2, <1>21 DEF Binds, Answers
    <3>3. c.token \in 1..minted BY <1>t DEF CallsAgree, CallAgrees
    <3>4. WasBound(c.by)' BY <2>0, <3>1, <3>3, <1>t DEF WasBound
    <3>5. machine'[c.by].disk.key /\ machine'[c.by].disk.node = c.node
      BY <2>0, <1>t, DisksAreKept DEF DiskKept, CallsAgree, CallAgrees
    <3>6. \A n \in NodeIds : nodeRow'[n].key = IF n = c.node THEN c.by ELSE nodeRow[n].key BY <2>0, <3>1, <1>t DEF EnrolledRow
    <3>7. \A n \in NodeIds, m \in Machines :
              nodeRow'[n].key = m => machine'[m].disk.key /\ machine'[m].disk.node = n /\ WasBound(m)'
      BY <3>4, <3>5, <3>6, <1>t, <1>old
    <3>8. \A m \in Machines : machine'[m].disk.enrolled \/ machine'[m].script.pc = "mark" => WasBound(m)'
      <4> SUFFICES ASSUME NEW m \in Machines, machine'[m].disk.enrolled \/ machine'[m].script.pc = "mark"
                   PROVE  WasBound(m)'
        OBVIOUS
      <4>1. CASE m = c.by BY <4>1, <3>4
      <4>2. CASE m # c.by
        <5>1. machine'[m].script = machine[m].script BY <4>2, <3>2, <2>0, <1>t DEF Goes
        <5>2. machine[m].disk.enrolled \/ machine[m].script.pc = "mark" BY <5>1, DisksAreKept, <1>t DEF DiskKept
        <5>3. WasBound(m) BY <5>2, <1>t DEF KeysAgree
        <5> QED BY <5>3, BoundIsKept
      <4> QED BY <4>1, <4>2
    <3> QED BY <3>7, <3>8 DEF KeysAgree
  <2> QED BY <2>1, <2>2
<1>22. ASSUME UNCHANGED enrollVars PROVE KeysAgree'
  BY <1>22, <1>rows, <1>marks DEF enrollVars
<1> QED BY <1>1, <1>2, <1>3, <1>4, <1>5, <1>6, <1>7, <1>8, <1>9, <1>10, <1>11, <1>12, <1>13, <1>14, <1>15, <1>16, <1>17, <1>18, <1>19, <1>20, <1>21, <1>22 DEF EnrollNext

-----------------------------------------------------------------------------
(* The rest of the invariant, and the theorems *)

\* Every step keeps CompleteIsDone.
LEMMA CompletionStays ==
    ASSUME EnrollTypeOK, ScriptsAgree, KeysAgree, CompleteIsDone, [EnrollNext]_enrollVars
    PROVE  CompleteIsDone'
<1>t. /\ nodeRow \in [NodeIds -> EnrolledRow] /\ enrolling \subseteq EnrollCall /\ moves \subseteq Move
      /\ KeysAgree /\ ScriptsAgree /\ CompleteIsDone
  BY DEF EnrollTypeOK
<1>old. \A n \in NodeIds : nodeRow[n].complete => \E m \in Machines : machine'[m].disk.done /\ machine'[m].disk.node = n
  BY <1>t, DisksAreKept DEF DiskKept, CompleteIsDone
<1>rows. ASSUME \A n \in NodeIds : nodeRow'[n].complete => nodeRow[n].complete PROVE CompleteIsDone'
  BY <1>rows, <1>old DEF CompleteIsDone
<1>1. ASSUME NEW n \in NodeIds, Registers(n) PROVE CompleteIsDone'
  <2>1. \A o \in NodeIds : nodeRow'[o].complete = nodeRow[o].complete
    BY <1>1, <1>t DEF Registers, EnrolledRow, Minted
  <2> QED BY <2>1, <1>rows
<1>2. ASSUME NEW n \in NodeIds, OrdersRotation(n) PROVE CompleteIsDone'
  BY <1>2, <1>rows DEF OrdersRotation
<1>3. ASSUME NEW n \in NodeIds, ClearsToken(n) PROVE CompleteIsDone'
  <2>1. \A o \in NodeIds : nodeRow'[o].complete = nodeRow[o].complete
    BY <1>3, <1>t DEF ClearsToken, EnrolledRow
  <2> QED BY <2>1, <1>rows
<1>4. ASSUME NEW n \in NodeIds, NEW to \in RowState, OrdersMove(n, to) PROVE CompleteIsDone'
  BY <1>4, <1>rows DEF OrdersMove
<1>5. ASSUME NEW v \in moves, WritesMove(v) PROVE CompleteIsDone'
  <2>1. \A o \in NodeIds : nodeRow'[o].complete = nodeRow[o].complete
    BY <1>5, <1>t DEF WritesMove, EnrolledRow, MovedRow, Minted, Move
  <2> QED BY <2>1, <1>rows
<1>6. ASSUME NEW v \in moves, Rotates(v) PROVE CompleteIsDone'
  <2>1. \A o \in NodeIds : nodeRow'[o].complete = nodeRow[o].complete
    BY <1>6, <1>t DEF Rotates, EnrolledRow
  <2> QED BY <2>1, <1>rows
<1>7. ASSUME NEW m \in Machines, NEW n \in NodeIds, NEW t \in Token, SetsUp(m, n, t) PROVE CompleteIsDone'
  BY <1>7, <1>rows DEF SetsUp
<1>8. ASSUME NEW t \in Token, TokenExpires(t) PROVE CompleteIsDone'
  BY <1>8, <1>rows DEF TokenExpires
<1>9. ASSUME NEW m \in Machines, Boots(m) PROVE CompleteIsDone'
  BY <1>9, <1>rows DEF Boots
<1>10. ASSUME NEW m \in Machines, Crashes(m) PROVE CompleteIsDone'
  BY <1>10, <1>rows DEF Crashes
<1>11. ASSUME NEW m \in Machines, Sends(m) PROVE CompleteIsDone'
  BY <1>11, <1>rows DEF Sends
<1>12. ASSUME NEW m \in Machines, GivesUp(m) PROVE CompleteIsDone'
  BY <1>12, <1>rows DEF GivesUp
<1>13. ASSUME NEW m \in Machines, Proves(m) PROVE CompleteIsDone'
  BY <1>13, <1>rows DEF Proves
<1>14. ASSUME NEW m \in Machines, Marks(m) PROVE CompleteIsDone'
  BY <1>14, <1>rows DEF Marks
<1>15. ASSUME NEW m \in Machines, ForgetsToken(m) PROVE CompleteIsDone'
  BY <1>15, <1>rows DEF ForgetsToken
<1>16. ASSUME NEW m \in Machines, Works(m) PROVE CompleteIsDone'
  <2>1. UNCHANGED nodeRow \/ Tells(m, machine[m].script.stage, "RUNNING") BY <1>16 DEF Works
  <2> QED BY <2>1, <1>rows, <1>t DEF Tells, Reported, EnrolledRow
<1>17. ASSUME NEW m \in Machines, Fails(m) PROVE CompleteIsDone'
  <2>1. Tells(m, machine[m].script.stage, "FAILED") BY <1>17 DEF Fails
  <2> QED BY <2>1, <1>rows, <1>t DEF Tells, Reported, EnrolledRow
<1>18. ASSUME NEW m \in Machines, Reports(m) PROVE CompleteIsDone'
  <2> DEFINE s == machine[m].script.stage
  <2>1. Tells(m, s, "OK") /\ machine[m].script.pc = "report" BY <1>18 DEF Reports, ScriptAt
  <2>2. CASE s # 6 BY <2>1, <2>2, <1>rows, <1>t DEF Tells, Reported, EnrolledRow
  <2>3. CASE s = 6
    <3>1. machine[m].disk.done BY <2>1, <2>3, <1>t DEF ScriptsAgree, ScriptAgrees
    <3>2. \A n \in Authenticated(m) : machine[m].disk.node = n BY <1>t DEF Authenticated, KeysAgree
    <3>3. \A n \in NodeIds : nodeRow'[n].complete => nodeRow[n].complete \/ n \in Authenticated(m)
      BY <2>1, <1>t DEF Tells, Reported
    <3>4. machine'[m].disk.done /\ machine'[m].disk.node = machine[m].disk.node BY <3>1, DisksAreKept DEF DiskKept
    <3> QED BY <3>2, <3>3, <3>4, <1>old DEF CompleteIsDone
  <2> QED BY <2>2, <2>3
<1>19. ASSUME NEW m \in Machines, Beats(m) PROVE CompleteIsDone'
  BY <1>19, <1>rows DEF Beats
<1>20. ASSUME NEW c \in enrolling, Decides(c) PROVE CompleteIsDone'
  BY <1>20, <1>rows DEF Decides
<1>21. ASSUME NEW c \in enrolling, Binds(c) PROVE CompleteIsDone'
  <2>1. \A o \in NodeIds : nodeRow'[o].complete = nodeRow[o].complete
    BY <1>21, <1>t DEF Binds, EnrolledRow, EnrollCall
  <2> QED BY <2>1, <1>rows
<1>22. ASSUME UNCHANGED enrollVars PROVE CompleteIsDone'
  BY <1>22, <1>rows DEF enrollVars
<1> QED BY <1>1, <1>2, <1>3, <1>4, <1>5, <1>6, <1>7, <1>8, <1>9, <1>10, <1>11, <1>12, <1>13, <1>14, <1>15, <1>16, <1>17, <1>18, <1>19, <1>20, <1>21, <1>22 DEF EnrollNext

\* Every step keeps MovesAllowed.
LEMMA MovesStay ==
    ASSUME MovesAllowed, [EnrollNext]_enrollVars
    PROVE  MovesAllowed'
<1>same. ASSUME moves' \subseteq moves PROVE MovesAllowed'
  BY <1>same DEF MovesAllowed
<1>1. ASSUME NEW n \in NodeIds, Registers(n) PROVE MovesAllowed'
  BY <1>1, <1>same DEF Registers
<1>2. ASSUME NEW n \in NodeIds, OrdersRotation(n) PROVE MovesAllowed'
  BY <1>2 DEF OrdersRotation, MovesAllowed
<1>3. ASSUME NEW n \in NodeIds, ClearsToken(n) PROVE MovesAllowed'
  BY <1>3, <1>same DEF ClearsToken
<1>4. ASSUME NEW n \in NodeIds, NEW to \in RowState, OrdersMove(n, to) PROVE MovesAllowed'
  <2>1. moves' = moves \cup {[node |-> n, from |-> nodeRow[n].state, to |-> to]} /\ to \in AllowedNext[nodeRow[n].state]
    BY <1>4 DEF OrdersMove
  <2> QED BY <2>1 DEF MovesAllowed
<1>5. ASSUME NEW v \in moves, WritesMove(v) PROVE MovesAllowed'
  BY <1>5, <1>same DEF WritesMove
<1>6. ASSUME NEW v \in moves, Rotates(v) PROVE MovesAllowed'
  BY <1>6, <1>same DEF Rotates
<1>7. ASSUME NEW m \in Machines, NEW n \in NodeIds, NEW t \in Token, SetsUp(m, n, t) PROVE MovesAllowed'
  BY <1>7, <1>same DEF SetsUp
<1>8. ASSUME NEW t \in Token, TokenExpires(t) PROVE MovesAllowed'
  BY <1>8, <1>same DEF TokenExpires
<1>9. ASSUME NEW m \in Machines, Boots(m) PROVE MovesAllowed'
  BY <1>9, <1>same DEF Boots
<1>10. ASSUME NEW m \in Machines, Crashes(m) PROVE MovesAllowed'
  BY <1>10, <1>same DEF Crashes
<1>11. ASSUME NEW m \in Machines, Sends(m) PROVE MovesAllowed'
  BY <1>11, <1>same DEF Sends
<1>12. ASSUME NEW m \in Machines, GivesUp(m) PROVE MovesAllowed'
  BY <1>12, <1>same DEF GivesUp
<1>13. ASSUME NEW m \in Machines, Proves(m) PROVE MovesAllowed'
  BY <1>13, <1>same DEF Proves
<1>14. ASSUME NEW m \in Machines, Marks(m) PROVE MovesAllowed'
  BY <1>14, <1>same DEF Marks
<1>15. ASSUME NEW m \in Machines, ForgetsToken(m) PROVE MovesAllowed'
  BY <1>15, <1>same DEF ForgetsToken
<1>16. ASSUME NEW m \in Machines, Works(m) PROVE MovesAllowed'
  BY <1>16, <1>same DEF Works
<1>17. ASSUME NEW m \in Machines, Fails(m) PROVE MovesAllowed'
  BY <1>17, <1>same DEF Fails
<1>18. ASSUME NEW m \in Machines, Reports(m) PROVE MovesAllowed'
  BY <1>18, <1>same DEF Reports
<1>19. ASSUME NEW m \in Machines, Beats(m) PROVE MovesAllowed'
  BY <1>19, <1>same DEF Beats
<1>20. ASSUME NEW c \in enrolling, Decides(c) PROVE MovesAllowed'
  BY <1>20, <1>same DEF Decides
<1>21. ASSUME NEW c \in enrolling, Binds(c) PROVE MovesAllowed'
  BY <1>21, <1>same DEF Binds
<1>22. ASSUME UNCHANGED enrollVars PROVE MovesAllowed'
  BY <1>22, <1>same DEF enrollVars
<1> QED BY <1>1, <1>2, <1>3, <1>4, <1>5, <1>6, <1>7, <1>8, <1>9, <1>10, <1>11, <1>12, <1>13, <1>14, <1>15, <1>16, <1>17, <1>18, <1>19, <1>20, <1>21, <1>22 DEF EnrollNext

\* No step brings a contained node back.
LEMMA ContainedStays ==
    ASSUME EnrollTypeOK, CallsAgree, MovesAllowed, [EnrollNext]_enrollVars
    PROVE  ContainedForGood
<1>t. /\ nodeRow \in [NodeIds -> EnrolledRow] /\ enrolling \subseteq EnrollCall /\ moves \subseteq Move
      /\ CallsAgree /\ MovesAllowed
  BY DEF EnrollTypeOK
<1>rows. ASSUME \A n \in NodeIds : nodeRow'[n].state = nodeRow[n].state PROVE ContainedForGood
  BY <1>rows DEF ContainedForGood, Contained
<1>1. ASSUME NEW n \in NodeIds, Registers(n) PROVE ContainedForGood
  <2>1. /\ nodeRow[n].state = "none"
        /\ \A o \in NodeIds \ {n} : nodeRow'[o] = nodeRow[o]
    BY <1>1, <1>t DEF Registers
  <2> QED BY <2>1 DEF ContainedForGood, Contained
<1>2. ASSUME NEW n \in NodeIds, OrdersRotation(n) PROVE ContainedForGood
  BY <1>2, <1>rows DEF OrdersRotation
<1>3. ASSUME NEW n \in NodeIds, ClearsToken(n) PROVE ContainedForGood
  <2>1. \A o \in NodeIds : nodeRow'[o].state = nodeRow[o].state
    BY <1>3, <1>t DEF ClearsToken, EnrolledRow
  <2> QED BY <2>1, <1>rows
<1>4. ASSUME NEW n \in NodeIds, NEW to \in RowState, OrdersMove(n, to) PROVE ContainedForGood
  BY <1>4, <1>rows DEF OrdersMove
<1>5. ASSUME NEW v \in moves, WritesMove(v) PROVE ContainedForGood
  <2>1. v.to \in AllowedNext[v.from] /\ v.from \in RowState /\ v.node \in NodeIds
    BY <1>5, <1>t DEF WritesMove, MovesAllowed, Move
  <2>2. nodeRow' = [nodeRow EXCEPT ![v.node] = MovedRow(v)] BY <1>5 DEF WritesMove
  <2>3. CASE nodeRow[v.node].state # v.from
    <3>1. MovedRow(v) = nodeRow[v.node] BY <2>3 DEF MovedRow
    <3> QED BY <2>2, <3>1, <2>1, <1>t, <1>rows
  <2>4. CASE nodeRow[v.node].state = v.from
    <3>1. MovedRow(v).state = v.to
      BY <2>4, <2>1, <1>t DEF MovedRow, Minted, EnrolledRow, Contained
    <3>2. v.from \in Contained => v.from = "QUARANTINED" /\ v.to = "RETIRED" BY <2>1 DEF Contained, AllowedNext
    <3>3. \A o \in NodeIds : nodeRow'[o].state = IF o = v.node THEN v.to ELSE nodeRow[o].state
      BY <2>1, <2>2, <3>1, <1>t
    <3> QED BY <2>4, <3>2, <3>3 DEF ContainedForGood, Contained
  <2> QED BY <2>3, <2>4
<1>6. ASSUME NEW v \in moves, Rotates(v) PROVE ContainedForGood
  <2>1. \A o \in NodeIds : nodeRow'[o].state = nodeRow[o].state
    BY <1>6, <1>t DEF Rotates, EnrolledRow
  <2> QED BY <2>1, <1>rows
<1>7. ASSUME NEW m \in Machines, NEW n \in NodeIds, NEW t \in Token, SetsUp(m, n, t) PROVE ContainedForGood
  BY <1>7, <1>rows DEF SetsUp
<1>8. ASSUME NEW t \in Token, TokenExpires(t) PROVE ContainedForGood
  BY <1>8, <1>rows DEF TokenExpires
<1>9. ASSUME NEW m \in Machines, Boots(m) PROVE ContainedForGood
  BY <1>9, <1>rows DEF Boots
<1>10. ASSUME NEW m \in Machines, Crashes(m) PROVE ContainedForGood
  BY <1>10, <1>rows DEF Crashes
<1>11. ASSUME NEW m \in Machines, Sends(m) PROVE ContainedForGood
  BY <1>11, <1>rows DEF Sends
<1>12. ASSUME NEW m \in Machines, GivesUp(m) PROVE ContainedForGood
  BY <1>12, <1>rows DEF GivesUp
<1>13. ASSUME NEW m \in Machines, Proves(m) PROVE ContainedForGood
  BY <1>13, <1>rows DEF Proves
<1>14. ASSUME NEW m \in Machines, Marks(m) PROVE ContainedForGood
  BY <1>14, <1>rows DEF Marks
<1>15. ASSUME NEW m \in Machines, ForgetsToken(m) PROVE ContainedForGood
  BY <1>15, <1>rows DEF ForgetsToken
<1>16. ASSUME NEW m \in Machines, Works(m) PROVE ContainedForGood
  <2>1. UNCHANGED nodeRow \/ RowsKept BY <1>16, <1>t, TellsKeepsRows DEF Works
  <2> QED BY <2>1, <1>rows DEF RowsKept
<1>17. ASSUME NEW m \in Machines, Fails(m) PROVE ContainedForGood
  <2>1. UNCHANGED nodeRow \/ RowsKept BY <1>17, <1>t, TellsKeepsRows DEF Fails
  <2> QED BY <2>1, <1>rows DEF RowsKept
<1>18. ASSUME NEW m \in Machines, Reports(m) PROVE ContainedForGood
  <2>1. UNCHANGED nodeRow \/ RowsKept BY <1>18, <1>t, TellsKeepsRows DEF Reports
  <2> QED BY <2>1, <1>rows DEF RowsKept
<1>19. ASSUME NEW m \in Machines, Beats(m) PROVE ContainedForGood
  BY <1>19, <1>rows DEF Beats
<1>20. ASSUME NEW c \in enrolling, Decides(c) PROVE ContainedForGood
  BY <1>20, <1>rows DEF Decides
<1>21. ASSUME NEW c \in enrolling, Binds(c) PROVE ContainedForGood
  <2>1. CASE ~MayBind(c) BY <2>1, <1>21, <1>rows DEF Binds
  <2>2. CASE MayBind(c)
    <3>1. nodeRow' = [nodeRow EXCEPT ![c.node].key = c.by, ![c.node].state = "WARMING_UP"] BY <2>2, <1>21 DEF Binds
    <3>2. nodeRow[c.node].state = "PROVISIONING" BY <2>2, <1>21, <1>t DEF Binds, MayBind, CallsAgree, CallAgrees
    <3>3. \A o \in NodeIds \ {c.node} : nodeRow'[o] = nodeRow[o] BY <3>1, <1>t
    <3> QED BY <3>2, <3>3 DEF ContainedForGood, Contained
  <2> QED BY <2>1, <2>2
<1>22. ASSUME UNCHANGED enrollVars PROVE ContainedForGood
  BY <1>22, <1>rows DEF enrollVars
<1> QED BY <1>1, <1>2, <1>3, <1>4, <1>5, <1>6, <1>7, <1>8, <1>9, <1>10, <1>11, <1>12, <1>13, <1>14, <1>15, <1>16, <1>17, <1>18, <1>19, <1>20, <1>21, <1>22 DEF EnrollNext

\* The invariant holds at first,
LEMMA EnrollInvInit == EnrollInit => EnrollInv
<1> SUFFICES ASSUME EnrollInit PROVE EnrollInv
  OBVIOUS
<1>1. NewRow \in EnrolledRow BY Bounds DEF NewRow, EnrolledRow, RowState, BoundKey
<1>2. BlankMachine \in [disk : Disk, script : Script] BY Bounds DEF BlankMachine, Disk, Script
<1>3. /\ nodeRow = [n \in NodeIds |-> NewRow] /\ minted = 0 /\ expired = {}
      /\ machine = [m \in Machines |-> BlankMachine]
      /\ enrolling = {} /\ beats = {} /\ moves = {} /\ redeemed = [t \in Token |-> {}]
      /\ crashes = 0 /\ moved = 0
  BY DEF EnrollInit
<1>4. EnrollTypeOK BY <1>1, <1>2, <1>3, Bounds DEF EnrollTypeOK
<1>5. ScriptsAgree BY <1>3 DEF ScriptsAgree, ScriptAgrees, BlankMachine
<1>6. CallsAgree BY <1>3 DEF CallsAgree, BlankMachine
<1>7. KeysAgree BY <1>3, EnrollmentNames DEF KeysAgree, NewRow, BlankMachine
<1>8. TokensAgree BY <1>3 DEF TokensAgree, TokenBindsOneKey, NewRow
<1>9. MovesAllowed /\ CompleteIsDone BY <1>3 DEF MovesAllowed, CompleteIsDone, NewRow
<1> QED BY <1>4, <1>5, <1>6, <1>7, <1>8, <1>9 DEF EnrollInv

\* and every step keeps it.
LEMMA EnrollInvStep ==
    ASSUME EnrollInv, [EnrollNext]_enrollVars
    PROVE  EnrollInv' /\ ContainedForGood
<1> USE DEF EnrollInv
<1>1. EnrollTypeOK' BY TypeStays
<1>2. ScriptsAgree' BY ScriptsStay
<1>3. CallsAgree' BY CallsStay
<1>4. KeysAgree' BY KeysStay
<1>5. TokensAgree' BY TokensStay
<1>6. MovesAllowed' BY MovesStay
<1>7. CompleteIsDone' BY CompletionStays
<1>8. ContainedForGood BY ContainedStays
<1> QED BY <1>1, <1>2, <1>3, <1>4, <1>5, <1>6, <1>7, <1>8

\* The state of the enrollment (enroll.js, bootstrap.env and the markers of node-bootstrap.js) has
\* its type, for any servers and nodes and as many tokens, crashes and acts as one likes.
THEOREM EnrollTypeCorrect == EnrollSpec => []EnrollTypeOK
<1>1. EnrollInv /\ [EnrollNext]_enrollVars => EnrollInv' BY EnrollInvStep
<1>2. EnrollInv => EnrollTypeOK BY DEF EnrollInv
<1> QED BY EnrollInvInit, <1>1, <1>2, PTL DEF EnrollSpec

\* What enroll.js and node-bootstrap.js promise of a key: it is saved before it is bound, a token
\* binds one, to the node the bootstrap file names, a server marked enrolled was bound, and a node
\* reported complete has a server that is; and quarantine is one-way, and retirement final.
THEOREM EnrollmentCorrect == EnrollSpec => EnrollmentHolds
<1>1. EnrollInv => EnrolledHolds
  <2>1. ASSUME EnrollInv PROVE EnrolledHolds
    <3>1. KeysAgree /\ TokensAgree /\ CompleteIsDone BY <2>1 DEF EnrollInv
    <3>2. BoundIsSaved /\ BoundToItsNode BY <3>1 DEF BoundIsSaved, BoundToItsNode, KeysAgree
    <3>3. MarkedWasBound BY <3>1 DEF MarkedWasBound, KeysAgree, WasBound
    <3> QED BY <3>1, <3>2, <3>3 DEF EnrolledHolds, TokensAgree
  <2> QED BY <2>1
<1>2. EnrollInv /\ [EnrollNext]_enrollVars => EnrollInv' /\ [ContainedForGood]_enrollVars BY EnrollInvStep
<1> QED BY EnrollInvInit, <1>1, <1>2, PTL DEF EnrollSpec, EnrollmentHolds

-----------------------------------------------------------------------------
(* Health: the inductive invariant *)

Silenced == row.state = "FAILED" /\ row.reason = "SILENCE"
\* The node never broke, and an honest peer probes it.
SeenWell == works = "always" /\ DOMAIN observed \ Liars # {}

\* Who is where: a sweep and a heartbeat are never in progress at once, nor two of one.
CallIsAt(c) ==
    /\ call[c].pc = "idle" <=> call[c].kind = "none"
    /\ call[c].pc \in {"read", "write", "token"} => call[c].kind = "heartbeat"
    /\ call[c].pc \in {"insert", "quorum"} => call[c].kind \in Peers
    /\ call[c].pc \in {"target", "count", "transition"} => call[c].kind \in {"heartbeat"} \cup Peers
    /\ call[c].pc \in {"cas", "alert"} => call[c].kind \in {"heartbeat", "sweep"}
OneJudge == \A b, c \in Calls : {call[b].kind, call[c].kind} \subseteq {"heartbeat", "sweep"} => b = c

\* What is about to be decided of a node that never broke is nothing against it.
VerdictFits(c) ==
    /\ works = "always" => /\ call[c].kind \in Peers \ Liars => call[c].ok = "yes"
                           /\ call[c].kind = "heartbeat" => call[c].ok # "no"
    /\ SeenWell => /\ call[c].pc = "count" => call[c].kind = "heartbeat" \/ call[c].ok = "yes"
                   /\ call[c].pc \in {"transition", "write", "cas"} => call[c].next # "DEGRADED"

\* A request that decided from a failed node decided what its reason allows, and the reason is still
\* that one; and no heartbeat takes a silent node for anything but failed.
DecisionFits(c) ==
    /\ call[c].pc \in {"transition", "write", "cas"} => call[c].next \in {"none", "READY", "DEGRADED"}
    /\ call[c].pc = "transition" /\ call[c].seen.state = "FAILED" => call[c].next = "none"
    /\ call[c].pc \in {"write", "cas"} /\ call[c].kind = "heartbeat" =>
           /\ call[c].seen.state = "FAILED" => call[c].next = "none" \/ call[c].seen.reason = "SILENCE"
           /\ call[c].seen.state = "FAILED" /\ row.state = "FAILED" => row.reason = call[c].seen.reason
           /\ Silenced => call[c].seen.state = "FAILED"
    /\ call[c].pc \in {"token", "alert"} /\ call[c].kind = "heartbeat" /\ Silenced => call[c].next \in {"FAILED", "unknown"}

\* An honest peer's result is there, and passes.
HonestResult ==
    works = "always" =>
        /\ \A q \in DOMAIN observed \ Liars : observed[q] # "bad"
        /\ DOMAIN observed \ Liars # {} => \E q \in DOMAIN observed \ Liars : observed[q] = "ok"

\* The word about a silent node is out, or the sweep that found it is about to send it.
WordIsOut == Silenced => "node_failed" \in healthAlerts \/ \E c \in Calls : call[c].kind = "sweep" /\ At(c, "alert")

HealthInv ==
    /\ OneJudge /\ HonestResult /\ WordIsOut /\ LiarCannotDegrade
    /\ \A c \in Calls : CallIsAt(c) /\ VerdictFits(c) /\ DecisionFits(c)

-----------------------------------------------------------------------------
(* Health: the types *)

States == {"none", "READY", "DEGRADED"}
Answer == {"yes", "no", "absent"}

LEMMA LongerTyped ==
    ASSUME NEW streak \in Streak, NEW ok
    PROVE  Longer(streak, ok) \in Streak
BY HealthParameters DEF Streak, Longer, Least

\* What a probe decides: a node that did not fail its probe is not degraded, and a failed one is taken
\* back for its silence alone.
LEMMA ProbeDecides ==
    ASSUME NEW ok \in Answer, NEW streak \in Streak, NEW r \in NodeRow
    PROVE  /\ evaluateProbeResult(ok, streak, r).streak \in Streak
           /\ evaluateProbeResult(ok, streak, r).next \in States
           /\ ok # "no" => evaluateProbeResult(ok, streak, r).next # "DEGRADED"
           /\ r.state = "FAILED" /\ r.reason # "SILENCE" => evaluateProbeResult(ok, streak, r).next = "none"
           /\ r.state = "FAILED" => evaluateProbeResult(ok, streak, r).next # "DEGRADED"
<1> DEFINE longer == Longer(streak, ok = "yes")
<1>1. longer \in Streak
  BY LongerTyped
<1>2. [failures |-> 0, successes |-> 1] \in Streak
  BY HealthParameters DEF Streak
<1>3. CASE ok = "absent"
  BY <1>3 DEF evaluateProbeResult, canAutoRecover, States
<1>4. CASE ok = "yes" /\ canAutoRecover(r)
  BY <1>2, <1>4 DEF evaluateProbeResult, canAutoRecover, States
<1>5. CASE ok = "yes" /\ r.state = "FAILED" /\ ~canAutoRecover(r)
  BY <1>5 DEF evaluateProbeResult, canAutoRecover, States
<1>6. CASE ok = "yes" /\ r.state # "FAILED"
  <2>1. ~canAutoRecover(r)
    BY <1>6 DEF canAutoRecover
  <2> QED BY <1>1, <1>6, <2>1 DEF evaluateProbeResult, States
<1>7. CASE ok = "no"
  BY <1>1, <1>7 DEF evaluateProbeResult, States
<1> QED BY <1>3, <1>4, <1>5, <1>6, <1>7 DEF Answer

LEMMA ProtocolDecides ==
    ASSUME NEW ok \in BOOLEAN, NEW r \in NodeRow
    PROVE  /\ evaluateProtocolHealth(ok, r).streak \in Streak
           /\ evaluateProtocolHealth(ok, r).next \in States
           /\ ok => evaluateProtocolHealth(ok, r).next # "DEGRADED"
           /\ r.state = "FAILED" => evaluateProtocolHealth(ok, r).next = "none"
<1> DEFINE word == IF ok THEN "yes" ELSE "no"
           d == evaluateProbeResult(word, r.proto, r)
<1>1. r.proto \in Streak /\ word \in Answer
  BY DEF NodeRow, Answer
<1>2. d.streak \in Streak /\ d.next \in States /\ (ok => d.next # "DEGRADED")
  BY <1>1, ProbeDecides
<1>3. Longer(r.proto, ok) \in Streak
  BY <1>1, LongerTyped
<1>4. evaluateProtocolHealth(ok, r) =
          IF r.state = "FAILED" THEN [streak |-> Longer(r.proto, ok), next |-> "none"]
          ELSE IF d.next = "READY" /\ r.clash.failures > 0 THEN [d EXCEPT !.next = "none"] ELSE d
  BY DEF evaluateProtocolHealth
<1> QED BY <1>2, <1>3, <1>4 DEF States

LEMMA HeartbeatDecides ==
    ASSUME NEW ok \in Answer, NEW r \in NodeRow
    PROVE  /\ Decided(ok, r).streak \in Streak
           /\ Decided(ok, r).next \in States
           /\ ok # "no" => Decided(ok, r).next # "DEGRADED"
           /\ r.state = "FAILED" /\ r.reason # "SILENCE" => Decided(ok, r).next = "none"
<1> DEFINE d == evaluateProbeResult(ok, r.clash, r)
<1>1. r.clash \in Streak
  BY DEF NodeRow
<1>2. /\ d.streak \in Streak /\ d.next \in States /\ (ok # "no" => d.next # "DEGRADED")
      /\ r.state = "FAILED" /\ r.reason # "SILENCE" => d.next = "none"
  BY <1>1, ProbeDecides
<1>3. Decided(ok, r) =
          IF d.next = "READY" /\ r.state = "DEGRADED" /\ ~protocolAllowsRecovery(r) THEN [d EXCEPT !.next = "none"] ELSE d
  BY DEF Decided
<1> QED BY <1>2, <1>3 DEF States

LEMMA NoCallIs ==
    NoCall \in Call /\ NewNode \in NodeRow /\ NoStreak \in Streak
<1>1. NoStreak \in Streak
  BY HealthParameters DEF NoStreak, Streak
<1>2. NewNode \in NodeRow
  BY <1>1 DEF NewNode, NodeRow, NodeState
<1> QED BY <1>1, <1>2 DEF NoCall, Call

\* Every request that goes somewhere, or is done.
LEMMA GotoIs ==
    ASSUME HealthTypeOK, NEW c \in Calls, NEW pc, Goto(c, pc)
    PROVE  /\ call'[c].pc = pc /\ call'[c].kind = call[c].kind /\ call'[c].ok = call[c].ok
           /\ call'[c].seen = call[c].seen /\ call'[c].next = call[c].next
           /\ \A b \in Calls : b # c => call'[b] = call[b]
           /\ pc \in {"target", "quorum", "count", "write", "cas", "token", "alert"} => call' \in [Calls -> Call]
BY DEF HealthTypeOK, Goto, Call

LEMMA DoneIs ==
    ASSUME HealthTypeOK, NEW c \in Calls, Done(c)
    PROVE  /\ call'[c].pc = "idle" /\ call'[c].kind = "none"
           /\ \A b \in Calls : b # c => call'[b] = call[b]
           /\ call' \in [Calls -> Call]
BY NoCallIs DEF HealthTypeOK, Done, NoCall

\* A request that starts.
LEMMA BeginsTyped ==
    ASSUME HealthTypeOK, NEW c \in Calls, NEW v \in Call, call' = [call EXCEPT ![c] = v]
    PROVE  call' \in [Calls -> Call] /\ call'[c] = v /\ \A b \in Calls : b # c => call'[b] = call[b]
BY DEF HealthTypeOK

LEMMA RowMoves ==
    ASSUME HealthTypeOK, NEW to \in NodeState, Moves(to)
    PROVE  row' \in NodeRow /\ row'.state = to
BY DEF HealthTypeOK, Moves, NodeRow

LEMMA ReportMade ==
    ASSUME HealthTypeOK, reportsMade < MaxReports, reportsMade' = reportsMade + 1
    PROVE  reportsMade' \in 0..MaxReports
BY HealthParameters DEF HealthTypeOK

\* The node's peers stay, whatever is observed of them.
LEMMA ObservedTyped ==
    ASSUME HealthTypeOK
    PROVE  /\ DOMAIN observed \in SUBSET Peers
           /\ \A p \in DOMAIN observed : observed[p] \in {"none", "ok", "bad"}
           /\ \A p : \A o \in {"none", "ok", "bad"} :
                  /\ [observed EXCEPT ![p] = o] \in UNION {[P -> {"none", "ok", "bad"}] : P \in SUBSET Peers}
                  /\ DOMAIN [observed EXCEPT ![p] = o] = DOMAIN observed
<1>1. PICK P \in SUBSET Peers : observed \in [P -> {"none", "ok", "bad"}]
  BY DEF HealthTypeOK
<1>2. \A p : \A o \in {"none", "ok", "bad"} : [observed EXCEPT ![p] = o] \in [P -> {"none", "ok", "bad"}]
  BY <1>1
<1> QED BY <1>1, <1>2

\* A request that is about to move the node has decided on a state.
NextTyped == \A c \in Calls : call[c].pc \in {"transition", "write", "cas"} => call[c].next \in States

LEMMA NextTypedKept ==
    ASSUME NextTyped, NEW c \in Calls, \A b \in Calls : b # c => call'[b] = call[b],
           call'[c].pc \in {"transition", "write", "cas"} => call'[c].next \in States
    PROVE  NextTyped'
BY DEF NextTyped

HealthTyped == HealthTypeOK /\ NextTyped

LEMMA ReportsTyped ==
    ASSUME HealthTyped, NEW c \in Calls,
           \/ InsertResults(c) \/ ReadTarget(c) \/ Quorum(c) \/ CountVerdict(c) \/ ProtocolTransition(c)
           \/ \E p \in Peers : PeerReports(c, p)
    PROVE  HealthTyped'
<1> USE DEF HealthTyped
<1>0. call[c] \in Call /\ row \in NodeRow
  BY DEF HealthTypeOK
<1>1. CASE InsertResults(c)
  <2>1. observed' \in UNION {[P -> {"none", "ok", "bad"}] : P \in SUBSET Peers}
    BY <1>1, ObservedTyped DEF InsertResults, probeResultRows
  <2>2. Goto(c, "target")
    BY <1>1 DEF InsertResults
  <2>3. call' \in [Calls -> Call] /\ NextTyped'
    BY <2>2, GotoIs, NextTypedKept
  <2> QED BY <1>1, <2>1, <2>3 DEF InsertResults, HealthTypeOK
<1>2. CASE ReadTarget(c)
  <2> DEFINE to == CASE targetVerdict(call[c].kind, call[c].ok, row) = "none" -> "read"
                     [] targetVerdict(call[c].kind, call[c].ok, row) = "failing" -> "quorum"
                     [] OTHER -> "count"
             v == [call[c] EXCEPT !.seen = row, !.pc = to]
  <2>1. to \in {"read", "quorum", "count"}
    BY DEF targetVerdict
  <2> HIDE DEF to
  <2>2. v \in Call /\ v.pc = to
    BY <1>0, <2>1 DEF Call
  <2>3. call' = [call EXCEPT ![c] = v]
    BY <1>2 DEF ReadTarget, to, HealthTypeOK
  <2> HIDE DEF v
  <2>4. call' \in [Calls -> Call] /\ call'[c] = v /\ \A b \in Calls : b # c => call'[b] = call[b]
    BY <2>2, <2>3, BeginsTyped
  <2>5. NextTyped'
    BY <2>1, <2>2, <2>4, NextTypedKept
  <2> QED BY <1>2, <2>4, <2>5 DEF ReadTarget, HealthTypeOK
<1>3. CASE Quorum(c)
  <2>1. row' \in NodeRow
    BY <1>0, <1>3 DEF Quorum, NodeRow
  <2>2. call' \in [Calls -> Call] /\ NextTyped'
    BY <1>3, GotoIs, DoneIs, NextTypedKept DEF Quorum
  <2> QED BY <1>3, <2>1, <2>2 DEF Quorum, HealthTypeOK
<1>4. CASE CountVerdict(c)
  <2> DEFINE ok == IF call[c].kind = "heartbeat" THEN Own ELSE call[c].ok
             d == evaluateProtocolHealth(ok = "yes", call[c].seen)
             v == [call[c] EXCEPT !.next = d.next, !.pc = "transition"]
  <2>1. call[c].seen \in NodeRow
    BY <1>0 DEF Call
  <2>2. d.streak \in Streak /\ d.next \in States
    BY <2>1, ProtocolDecides
  <2>3. /\ row' = [row EXCEPT !.proto = d.streak, !.peerFresh = @ \/ call[c].kind # "heartbeat"]
        /\ call' = [call EXCEPT ![c] = v]
    BY <1>4 DEF CountVerdict, HealthTypeOK
  <2> HIDE DEF d
  <2>4. row' \in NodeRow
    BY <1>0, <2>2, <2>3 DEF NodeRow
  <2>5. v \in Call /\ v.next = d.next
    BY <1>0, <2>2, ZenonT(30) DEF Call, States, NodeState
  <2> HIDE DEF v
  <2>6. call' \in [Calls -> Call] /\ call'[c] = v /\ \A b \in Calls : b # c => call'[b] = call[b]
    BY <2>3, <2>5, BeginsTyped
  <2>7. NextTyped'
    BY <2>2, <2>5, <2>6, NextTypedKept
  <2> QED BY <1>4, <2>4, <2>6, <2>7 DEF CountVerdict, HealthTypeOK
<1>5. CASE ProtocolTransition(c)
  <2>1. row' \in NodeRow
    <3>1. call[c].next \in States
      BY <1>5 DEF ProtocolTransition, NextTyped, At
    <3> QED BY <1>5, <3>1, RowMoves DEF ProtocolTransition, States, NodeState, HealthTypeOK
  <2>2. CASE call[c].kind = "heartbeat"
    <3> DEFINE v == [call[c] EXCEPT !.pc = "read", !.seen = NewNode, !.next = "none"]
    <3>1. v \in Call /\ v.pc = "read" /\ call' = [call EXCEPT ![c] = v]
      BY <1>0, <1>5, <2>2, NoCallIs DEF ProtocolTransition, Call
    <3> HIDE DEF v
    <3>2. call' \in [Calls -> Call] /\ call'[c] = v /\ \A b \in Calls : b # c => call'[b] = call[b]
      BY <3>1, BeginsTyped
    <3>3. NextTyped'
      BY <3>1, <3>2, NextTypedKept
    <3> QED BY <1>5, <2>1, <3>2, <3>3 DEF ProtocolTransition, HealthTypeOK
  <2>3. CASE call[c].kind # "heartbeat"
    <3>1. call' \in [Calls -> Call] /\ NextTyped'
      BY <1>5, <2>3, DoneIs, NextTypedKept DEF ProtocolTransition
    <3> QED BY <1>5, <2>1, <3>1 DEF ProtocolTransition, HealthTypeOK
  <2> QED BY <2>2, <2>3
<1>6. ASSUME NEW p \in Peers, PeerReports(c, p) PROVE HealthTyped'
  <2> DEFINE v == [NoCall EXCEPT !.kind = p, !.pc = "insert", !.ok = Sees(p)]
  <2>1. v \in Call /\ v.pc = "insert" /\ call' = [call EXCEPT ![c] = v]
    BY <1>6, NoCallIs DEF PeerReports, Call, Sees
  <2> HIDE DEF v
  <2>2. call' \in [Calls -> Call] /\ call'[c] = v /\ \A b \in Calls : b # c => call'[b] = call[b]
    BY <2>1, BeginsTyped
  <2>3. NextTyped' /\ reportsMade' \in 0..MaxReports
    BY <1>6, <2>1, <2>2, NextTypedKept, ReportMade DEF PeerReports
  <2> QED BY <1>6, <2>2, <2>3 DEF PeerReports, HealthTypeOK
<1> QED BY <1>1, <1>2, <1>3, <1>4, <1>5, <1>6

LEMMA HeartbeatTyped ==
    ASSUME HealthTyped, NEW c \in Calls,
           \/ ReadNode(c) \/ WriteTelemetry(c) \/ CompareAndSet(c) \/ ClearEnrollmentToken(c) \/ SettleAlerts(c)
           \/ \E probe, self \in BOOLEAN : Heartbeat(c, probe, self)
    PROVE  HealthTyped'
<1> USE DEF HealthTyped
<1>0. call[c] \in Call /\ row \in NodeRow /\ call[c].ok \in Answer
  BY DEF HealthTypeOK, Call, Answer
<1>1. ASSUME NEW probe \in BOOLEAN, NEW self \in BOOLEAN, Heartbeat(c, probe, self) PROVE HealthTyped'
  <2> DEFINE v == [NoCall EXCEPT !.kind = "heartbeat", !.pc = IF self THEN "target" ELSE "read", !.ok = IF probe THEN Own ELSE "absent"]
  <2>1. v \in Call /\ v.pc \in {"target", "read"} /\ call' = [call EXCEPT ![c] = v]
    BY <1>1, NoCallIs, ZenonT(30) DEF Heartbeat, Call, Own
  <2> HIDE DEF v
  <2>2. call' \in [Calls -> Call] /\ call'[c] = v /\ \A b \in Calls : b # c => call'[b] = call[b]
    BY <2>1, BeginsTyped
  <2>3. NextTyped' /\ reportsMade' \in 0..MaxReports
    BY <1>1, <2>1, <2>2, NextTypedKept, ReportMade DEF Heartbeat
  <2> QED BY <1>1, <2>2, <2>3 DEF Heartbeat, HealthTypeOK
<1>2. CASE ReadNode(c)
  <2> DEFINE n == Decided(call[c].ok, row).next
             v == [call[c] EXCEPT !.seen = row, !.pc = "write", !.next = n]
  <2>1. n \in States
    BY <1>0, HeartbeatDecides
  <2>2. call' = [call EXCEPT ![c] = v]
    BY <1>2 DEF ReadNode, HealthTypeOK
  <2> HIDE DEF n
  <2>3. v \in Call /\ v.next = n
    BY <1>0, <2>1 DEF Call, States, NodeState
  <2> HIDE DEF v
  <2>4. call' \in [Calls -> Call] /\ call'[c] = v /\ \A b \in Calls : b # c => call'[b] = call[b]
    BY <2>2, <2>3, BeginsTyped
  <2>5. NextTyped'
    BY <2>1, <2>3, <2>4, NextTypedKept
  <2> QED BY <1>2, <2>4, <2>5 DEF ReadNode, HealthTypeOK
<1>3. CASE WriteTelemetry(c)
  <2>1. Decided(call[c].ok, call[c].seen).streak \in Streak
    BY <1>0, HeartbeatDecides DEF Call
  <2>2. row' \in NodeRow
    BY <1>0, <1>3, <2>1 DEF WriteTelemetry, NodeRow
  <2>3. Goto(c, "cas") /\ call[c].next \in States
    BY <1>3 DEF WriteTelemetry, NextTyped, At
  <2>4. call' \in [Calls -> Call] /\ NextTyped'
    BY <2>3, GotoIs, NextTypedKept
  <2> QED BY <1>3, <2>2, <2>4 DEF WriteTelemetry, HealthTypeOK
<1>4. CASE CompareAndSet(c)
  <2> DEFINE to == call[c].next
             seen == call[c].seen.state
             n == IF to = "none" THEN seen ELSE IF row.state = seen THEN to ELSE "unknown"
             v == [call[c] EXCEPT !.pc = "token", !.seen = NewNode, !.next = n]
  <2>1. to \in States /\ seen \in NodeState
    BY <1>0, <1>4 DEF CompareAndSet, NextTyped, At, Call, NodeRow
  <2>2. row' \in NodeRow
    BY <1>4, <2>1, RowMoves DEF CompareAndSet, States, NodeState, HealthTypeOK
  <2>3. n \in NodeState \cup {"none", "unknown"}
    BY <2>1 DEF States, NodeState
  <2>4. call' = [call EXCEPT ![c] = v]
    BY <1>4 DEF CompareAndSet, HealthTypeOK
  <2> HIDE DEF n
  <2>5. v \in Call /\ v.pc = "token"
    BY <1>0, <2>3, NoCallIs DEF Call
  <2> HIDE DEF v
  <2>6. call' \in [Calls -> Call] /\ call'[c] = v /\ \A b \in Calls : b # c => call'[b] = call[b]
    BY <2>4, <2>5, BeginsTyped
  <2>7. NextTyped'
    BY <2>5, <2>6, NextTypedKept
  <2> QED BY <1>4, <2>2, <2>6, <2>7 DEF CompareAndSet, HealthTypeOK
<1>5. CASE ClearEnrollmentToken(c)
  <2>1. row' \in NodeRow
    BY <1>0, <1>5 DEF ClearEnrollmentToken, NodeRow
  <2>2. call' \in [Calls -> Call] /\ NextTyped'
    BY <1>5, GotoIs, NextTypedKept DEF ClearEnrollmentToken
  <2> QED BY <1>5, <2>1, <2>2 DEF ClearEnrollmentToken, HealthTypeOK
<1>6. CASE SettleAlerts(c)
  <2>1. call' \in [Calls -> Call] /\ NextTyped'
    BY <1>6, DoneIs, NextTypedKept DEF SettleAlerts
  <2>2. healthAlerts' \subseteq {"node_degraded", "node_failed"}
    BY <1>6 DEF SettleAlerts, reconcileAlert, HealthTypeOK
  <2> QED BY <1>6, <2>1, <2>2 DEF SettleAlerts, HealthTypeOK
<1> QED BY <1>1, <1>2, <1>3, <1>4, <1>5, <1>6

LEMMA TickTyped ==
    ASSUME HealthTyped, NEW c \in Calls,
           \/ Sweep(c) \/ failSilentNodes(c) \/ AlertSilence(c) \/ FindFailedNode(c) \/ StartReplacement(c)
    PROVE  HealthTyped'
<1> USE DEF HealthTyped
<1>0. call[c] \in Call /\ row \in NodeRow
  BY DEF HealthTypeOK
<1>1. CASE Sweep(c)
  <2> DEFINE v == [NoCall EXCEPT !.kind = "sweep", !.pc = "cas", !.seen = row]
  <2>1. v \in Call /\ v.next = "none" /\ call' = [call EXCEPT ![c] = v]
    BY <1>0, <1>1, NoCallIs DEF Sweep, Call, NoCall
  <2> HIDE DEF v
  <2>2. call' \in [Calls -> Call] /\ call'[c] = v /\ \A b \in Calls : b # c => call'[b] = call[b]
    BY <2>1, BeginsTyped
  <2>3. NextTyped' /\ reportsMade' \in 0..MaxReports
    BY <1>1, <2>1, <2>2, NextTypedKept, ReportMade DEF Sweep, States
  <2> QED BY <1>1, <2>2, <2>3 DEF Sweep, HealthTypeOK
<1>2. CASE failSilentNodes(c)
  <2>1. row' \in NodeRow
    BY <1>0, <1>2 DEF failSilentNodes, NodeRow, NodeState
  <2>2. call' \in [Calls -> Call] /\ NextTyped'
    BY <1>2, GotoIs, DoneIs, NextTypedKept DEF failSilentNodes
  <2> QED BY <1>2, <2>1, <2>2 DEF failSilentNodes, HealthTypeOK
<1>3. CASE AlertSilence(c)
  <2>1. call' \in [Calls -> Call] /\ NextTyped'
    BY <1>3, DoneIs, NextTypedKept DEF AlertSilence
  <2> QED BY <1>3, <2>1 DEF AlertSilence, HealthTypeOK
<1>4. CASE FindFailedNode(c)
  <2> DEFINE v == [NoCall EXCEPT !.kind = "replace", !.pc = "start"]
  <2>1. v \in Call /\ v.pc = "start" /\ call' = [call EXCEPT ![c] = v]
    BY <1>4, NoCallIs DEF FindFailedNode, Call
  <2> HIDE DEF v
  <2>2. call' \in [Calls -> Call] /\ call'[c] = v /\ \A b \in Calls : b # c => call'[b] = call[b]
    BY <2>1, BeginsTyped
  <2>3. NextTyped' /\ reportsMade' \in 0..MaxReports
    BY <1>4, <2>1, <2>2, NextTypedKept, ReportMade DEF FindFailedNode
  <2> QED BY <1>4, <2>2, <2>3 DEF FindFailedNode, HealthTypeOK
<1>5. CASE StartReplacement(c)
  <2>1. call' \in [Calls -> Call] /\ NextTyped'
    BY <1>5, DoneIs, NextTypedKept DEF StartReplacement
  <2> QED BY <1>5, <2>1 DEF StartReplacement, HealthTypeOK
<1> QED BY <1>1, <1>2, <1>3, <1>4, <1>5

LEMMA OthersTyped ==
    ASSUME HealthTyped,
           \/ Enrolls \/ GoesSilent \/ Breaks \/ Mended \/ UNCHANGED healthVars
           \/ \E p \in Peers : ResultAges(p)
           \/ \E to \in NodeState : Orders(to)
    PROVE  HealthTyped'
<1> USE DEF HealthTyped
<1>0. row \in NodeRow
  BY DEF HealthTypeOK
<1>1. ASSUME NEW p \in Peers, ResultAges(p) PROVE HealthTyped'
  <2>1. observed' \in UNION {[P -> {"none", "ok", "bad"}] : P \in SUBSET Peers}
    BY <1>1, ObservedTyped DEF ResultAges
  <2>2. row' \in NodeRow
    BY <1>0, <1>1 DEF ResultAges, NodeRow
  <2> QED BY <1>1, <2>1, <2>2 DEF ResultAges, HealthTypeOK, NextTyped
<1>2. ASSUME NEW to \in NodeState, Orders(to) PROVE HealthTyped'
  <2>1. row' \in NodeRow
    BY <1>0, <1>2, ZenonT(30) DEF Orders, NodeRow, NodeState
  <2>2. orders' \in 0..MaxOrders
    <3>1. orders \in 0..MaxOrders /\ orders < MaxOrders /\ orders' = orders + 1 /\ MaxOrders \in Nat
      BY <1>2, HealthParameters DEF Orders, HealthTypeOK
    <3> QED BY <3>1
  <2> QED BY <1>2, <2>1, <2>2 DEF Orders, HealthTypeOK, NextTyped
<1>3. CASE Enrolls
  <2>1. row' \in NodeRow
    BY <1>0, <1>3 DEF Enrolls, NodeRow, NodeState
  <2> QED BY <1>3, <2>1 DEF Enrolls, HealthTypeOK, NextTyped
<1>4. CASE GoesSilent
  <2>1. row' \in NodeRow
    BY <1>0, <1>4 DEF GoesSilent, NodeRow
  <2> QED BY <1>4, <2>1 DEF GoesSilent, HealthTypeOK, NextTyped
<1>5. CASE Breaks
  BY <1>5 DEF Breaks, HealthTypeOK, NextTyped
<1>6. CASE Mended
  BY <1>6 DEF Mended, HealthTypeOK, NextTyped
<1>7. CASE UNCHANGED healthVars
  BY <1>7 DEF healthVars, HealthTypeOK, NextTyped
<1> QED BY <1>1, <1>2, <1>3, <1>4, <1>5, <1>6, <1>7

LEMMA HealthTypedKept == HealthTyped /\ [HealthNext]_healthVars => HealthTyped'
<1> SUFFICES ASSUME HealthTyped, [HealthNext]_healthVars PROVE HealthTyped'
  OBVIOUS
<1>1. CASE Automation
  BY <1>1, ReportsTyped, HeartbeatTyped, TickTyped DEF Automation
<1> QED BY <1>1, OthersTyped DEF HealthNext

LEMMA HealthTypedInit == HealthInit => HealthTyped
<1> SUFFICES ASSUME HealthInit PROVE HealthTyped
  OBVIOUS
<1>1. PICK probers \in {Peers, {}} : observed = [p \in probers |-> IF p \in Liars THEN "none" ELSE "ok"]
  BY DEF HealthInit
<1>2. observed \in UNION {[P -> {"none", "ok", "bad"}] : P \in SUBSET Peers}
  <2>1. observed \in [probers -> {"none", "ok", "bad"}] /\ probers \in SUBSET Peers
    BY <1>1
  <2> QED BY <2>1
<1>3. row \in NodeRow
  BY NoCallIs DEF HealthInit, NodeRow
<1>4. call \in [Calls -> Call]
  BY NoCallIs DEF HealthInit
<1>5. reportsMade \in 0..MaxReports /\ orders \in 0..MaxOrders
  BY HealthParameters DEF HealthInit
<1>6. NextTyped
  BY DEF HealthInit, NextTyped, NoCall
<1>7. healthAlerts = {} /\ replaced = FALSE /\ works = "always"
  BY DEF HealthInit
<1> QED BY <1>2, <1>3, <1>4, <1>5, <1>6, <1>7 DEF HealthTyped, HealthTypeOK

-----------------------------------------------------------------------------
(* Health: the steps *)

\* The step puts no node out, and breaks none.
RowStays == row'.state = "FAILED" => row.state = "FAILED" /\ row'.reason = row.reason
NothingMends == (works' = "always" => works = "always") /\ DOMAIN observed' = DOMAIN observed

CallFits(c) == CallIsAt(c) /\ VerdictFits(c) /\ DecisionFits(c)

LEMMA KindsApart == \A k \in {"none", "heartbeat", "sweep", "replace"} : k \notin Peers
BY HealthParameters

LEMMA OthersFit ==
    ASSUME NEW b \in Calls, CallFits(b), call'[b] = call[b], RowStays, NothingMends
    PROVE  CallFits(b)'
<1>1. CallIsAt(b)'
  BY DEF CallFits, CallIsAt
<1>2. VerdictFits(b)'
  BY DEF CallFits, VerdictFits, SeenWell, NothingMends
<1>3. DecisionFits(b)'
  BY DEF CallFits, DecisionFits, RowStays, Silenced
<1> QED BY <1>1, <1>2, <1>3 DEF CallFits

LEMMA IdleFits ==
    ASSUME NEW c \in Calls, call'[c].pc = "idle", call'[c].kind = "none"
    PROVE  CallFits(c)'
BY KindsApart DEF CallFits, CallIsAt, VerdictFits, DecisionFits

\* A step of one request, that says nothing and observes nothing.
LEMMA CallStep ==
    ASSUME HealthInv, NEW c \in Calls, \A b \in Calls : b # c => call'[b] = call[b], CallFits(c)',
           RowStays, UNCHANGED <<observed, works, healthAlerts>>,
           row'.state = "DEGRADED" => row.state = "DEGRADED" \/ ~SeenWell,
           call'[c].kind \in {"heartbeat", "sweep"} =>
               call'[c].kind = call[c].kind \/ \A b \in Calls : call[b].kind \notin {"heartbeat", "sweep"},
           ~(call[c].kind = "sweep" /\ At(c, "alert"))
    PROVE  HealthInv'
<1>1. \A b \in Calls : CallFits(b)'
  BY OthersFit DEF HealthInv, CallFits, NothingMends
<1>2. OneJudge'
  BY DEF HealthInv, OneJudge
<1>3. HonestResult'
  BY DEF HealthInv, HonestResult
<1>4. WordIsOut'
  BY DEF HealthInv, WordIsOut, Silenced, RowStays, At
<1>5. LiarCannotDegrade'
  BY DEF HealthInv, LiarCannotDegrade, SeenWell
<1> QED BY <1>1, <1>2, <1>3, <1>4, <1>5 DEF HealthInv, CallFits

\* A request that does not touch the row.
LEMMA CallOnly ==
    ASSUME HealthInv, NEW c \in Calls, \A b \in Calls : b # c => call'[b] = call[b], CallFits(c)',
           UNCHANGED <<row, observed, works, healthAlerts>>,
           call'[c].kind \in {"heartbeat", "sweep"} =>
               call'[c].kind = call[c].kind \/ \A b \in Calls : call[b].kind \notin {"heartbeat", "sweep"},
           ~(call[c].kind = "sweep" /\ At(c, "alert"))
    PROVE  HealthInv'
BY CallStep DEF RowStays

LEMMA PeerReportsKeeps ==
    ASSUME HealthTyped, HealthInv, NEW c \in Calls, NEW p \in Peers, PeerReports(c, p)
    PROVE  HealthInv'
<1> DEFINE v == [NoCall EXCEPT !.kind = p, !.pc = "insert", !.ok = Sees(p)]
<1>1. v.kind = p /\ v.pc = "insert" /\ v.ok = Sees(p)
  BY DEF NoCall
<1>2. call'[c] = v /\ (\A b \in Calls : b # c => call'[b] = call[b]) /\ UNCHANGED <<row, observed, works, healthAlerts>>
      /\ At(c, "idle")
  BY DEF PeerReports, HealthTyped, HealthTypeOK
<1> HIDE DEF v
<1>3. works = "always" /\ p \notin Liars => Sees(p) = "yes"
  BY DEF Sees
<1>4. CallFits(c)'
  BY <1>1, <1>2, <1>3, KindsApart DEF CallFits, CallIsAt, VerdictFits, DecisionFits
<1> QED BY <1>1, <1>2, <1>4, KindsApart, CallOnly DEF At

LEMMA InsertResultsKeeps ==
    ASSUME HealthTyped, HealthInv, NEW c \in Calls, InsertResults(c)
    PROVE  HealthInv'
<1> DEFINE p == call[c].kind
<1>1. /\ call'[c].pc = "target" /\ call'[c].kind = p /\ call'[c].ok = call[c].ok
      /\ (\A b \in Calls : b # c => call'[b] = call[b]) /\ UNCHANGED <<row, works, healthAlerts>>
      /\ At(c, "insert")
  BY GotoIs DEF InsertResults, HealthTyped
<1>2. p \in Peers /\ CallFits(c)
  BY <1>1 DEF HealthInv, CallIsAt, CallFits, At
<1>3. observed' = [observed EXCEPT ![p] = probeResultRows(call[c].ok)]
  BY DEF InsertResults
<1>4. RowStays /\ NothingMends
  BY <1>1, <1>3 DEF RowStays, NothingMends
<1>5. CallFits(c)'
  BY <1>1, <1>2, <1>4, KindsApart DEF CallFits, CallIsAt, VerdictFits, DecisionFits, NothingMends
<1>6. \A b \in Calls : CallFits(b)'
  BY <1>1, <1>4, <1>5, OthersFit DEF HealthInv, CallFits
<1>7. OneJudge'
  BY <1>1, <1>2, KindsApart DEF HealthInv, OneJudge
<1>8. HonestResult'
  <2> SUFFICES ASSUME works = "always" PROVE HonestResult'
    BY <1>1 DEF HonestResult
  <2>1. p \notin Liars => probeResultRows(call[c].ok) = "ok"
    BY <1>2 DEF CallFits, VerdictFits, probeResultRows
  <2>2. /\ \A q \in DOMAIN observed \ Liars : observed[q] # "bad"
        /\ DOMAIN observed \ Liars # {} => \E q \in DOMAIN observed \ Liars : observed[q] = "ok"
    BY DEF HealthInv, HonestResult
  <2>3. \A q \in DOMAIN observed \ Liars : observed'[q] \in {observed[q], "ok"}
    BY <1>3, <2>1
  <2>4. DOMAIN observed' = DOMAIN observed
    BY <1>3
  <2> HIDE DEF p
  <2> QED BY <2>2, <2>3, <2>4 DEF HonestResult
<1>9. WordIsOut' /\ LiarCannotDegrade'
  BY <1>1, <1>3 DEF HealthInv, WordIsOut, LiarCannotDegrade, Silenced, At
<1> QED BY <1>6, <1>7, <1>8, <1>9 DEF HealthInv, CallFits

LEMMA ReadTargetKeeps ==
    ASSUME HealthTyped, HealthInv, NEW c \in Calls, ReadTarget(c)
    PROVE  HealthInv'
<1> DEFINE k == call[c].kind
           word == targetVerdict(k, call[c].ok, row)
           to == CASE word = "none" -> "read" [] word = "failing" -> "quorum" [] OTHER -> "count"
<1>1. /\ call'[c].pc = to /\ call'[c].kind = k /\ call'[c].ok = call[c].ok
      /\ (\A b \in Calls : b # c => call'[b] = call[b]) /\ UNCHANGED <<row, observed, works, healthAlerts>>
      /\ At(c, "target")
  BY DEF ReadTarget, HealthTyped, HealthTypeOK, Call
<1>2. k \in {"heartbeat"} \cup Peers /\ CallFits(c)
  BY <1>1 DEF HealthInv, CallIsAt, CallFits, At
<1>3. /\ k = "heartbeat" => to \in {"read", "count"}
      /\ k # "heartbeat" => to = IF call[c].ok = "yes" THEN "count" ELSE "quorum"
  <2>1. k = "heartbeat" => word \in {"none", "self"}
    BY DEF targetVerdict
  <2>2. k # "heartbeat" => word = IF call[c].ok = "yes" THEN "passing" ELSE "failing"
    BY DEF targetVerdict
  <2> HIDE DEF word
  <2> QED BY <2>1, <2>2
<1> HIDE DEF to
<1>4. CallFits(c)'
  BY <1>1, <1>2, <1>3, KindsApart DEF CallFits, CallIsAt, VerdictFits, DecisionFits, SeenWell
<1> QED BY <1>1, <1>2, <1>4, KindsApart, CallOnly DEF At

LEMMA QuorumKeeps ==
    ASSUME HealthTyped, HealthInv, NEW c \in Calls, Quorum(c)
    PROVE  HealthInv'
<1>1. UNCHANGED <<observed, works, healthAlerts>> /\ At(c, "quorum") /\ row \in NodeRow
  BY DEF Quorum, HealthTyped, HealthTypeOK
<1>2. call[c].kind \in Peers /\ CallFits(c)
  BY <1>1 DEF HealthInv, CallIsAt, CallFits, At
<1>3. CASE otherPeerPassing(call[c].kind)
  <2>1. /\ call'[c].pc = "idle" /\ call'[c].kind = "none" /\ \A b \in Calls : b # c => call'[b] = call[b]
        /\ row'.state = row.state /\ row'.reason = row.reason
    BY <1>1, <1>3, DoneIs DEF Quorum, HealthTyped, NodeRow
  <2>2. CallFits(c)'
    BY <2>1, IdleFits
  <2> QED BY <1>1, <1>2, <2>1, <2>2, KindsApart, CallStep DEF RowStays
<1>4. CASE ~otherPeerPassing(call[c].kind)
  <2>1. /\ call'[c].pc = "count" /\ call'[c].kind = call[c].kind /\ call'[c].ok = call[c].ok
        /\ (\A b \in Calls : b # c => call'[b] = call[b]) /\ UNCHANGED row
    BY <1>4, GotoIs DEF Quorum, HealthTyped
  <2>2. SeenWell => call[c].ok = "yes"
    <3>1. SeenWell => \E q \in DOMAIN observed \ Liars : observed[q] = "ok"
      BY DEF SeenWell, HealthInv, HonestResult
    <3>2. SeenWell => call[c].kind \notin Liars
      BY <1>4, <3>1 DEF otherPeerPassing
    <3> QED BY <1>2, <3>2 DEF CallFits, VerdictFits, SeenWell
  <2>3. CallFits(c)'
    BY <1>1, <1>2, <2>1, <2>2, KindsApart DEF CallFits, CallIsAt, VerdictFits, DecisionFits, SeenWell
  <2> QED BY <1>1, <1>2, <2>1, <2>3, KindsApart, CallOnly
<1> QED BY <1>3, <1>4

LEMMA CountVerdictKeeps ==
    ASSUME HealthTyped, HealthInv, NEW c \in Calls, CountVerdict(c)
    PROVE  HealthInv'
<1> DEFINE ok == IF call[c].kind = "heartbeat" THEN Own ELSE call[c].ok
           d == evaluateProtocolHealth(ok = "yes", call[c].seen)
<1>1. /\ call'[c].pc = "transition" /\ call'[c].kind = call[c].kind /\ call'[c].ok = call[c].ok
      /\ call'[c].seen = call[c].seen /\ call'[c].next = d.next
      /\ (\A b \in Calls : b # c => call'[b] = call[b]) /\ UNCHANGED <<observed, works, healthAlerts>>
      /\ At(c, "count")
  BY DEF CountVerdict, HealthTyped, HealthTypeOK, Call
<1>2. row'.state = row.state /\ row'.reason = row.reason
  BY DEF CountVerdict, HealthTyped, HealthTypeOK, NodeRow
<1>3. call[c].kind \in {"heartbeat"} \cup Peers /\ CallFits(c) /\ call[c].seen \in NodeRow
  BY <1>1 DEF HealthInv, CallIsAt, CallFits, At, HealthTyped, HealthTypeOK, Call
<1>4. /\ d.next \in States /\ (ok = "yes" => d.next # "DEGRADED")
      /\ call[c].seen.state = "FAILED" => d.next = "none"
  BY <1>3, ProtocolDecides
<1>5. SeenWell => ok = "yes"
  BY <1>1, <1>3 DEF CallFits, VerdictFits, SeenWell, At, Own
<1> HIDE DEF d, ok
<1>6. CallFits(c)'
  <2>1. CallIsAt(c)'
    BY <1>1, <1>3, KindsApart DEF CallIsAt
  <2>2. VerdictFits(c)'
    BY <1>1, <1>3, <1>4, <1>5 DEF CallFits, VerdictFits, SeenWell
  <2>3. DecisionFits(c)'
    BY <1>1, <1>3, <1>4 DEF CallFits, DecisionFits, States
  <2> QED BY <2>1, <2>2, <2>3 DEF CallFits
<1> QED BY <1>1, <1>2, <1>3, <1>6, KindsApart, CallStep DEF RowStays

LEMMA ProtocolTransitionKeeps ==
    ASSUME HealthTyped, HealthInv, NEW c \in Calls, ProtocolTransition(c)
    PROVE  HealthInv' /\ (row.state = "FAILED" => row'.state = "FAILED")
<1>1. UNCHANGED <<observed, works, healthAlerts>> /\ At(c, "transition")
  BY DEF ProtocolTransition
<1>2. call[c].kind \in {"heartbeat"} \cup Peers /\ CallFits(c) /\ row \in NodeRow
  BY <1>1 DEF HealthInv, CallIsAt, CallFits, At, HealthTyped, HealthTypeOK
<1>3. /\ row' = row \/ /\ call[c].next # "none" /\ row.state = call[c].seen.state
                       /\ row'.state = call[c].next
  BY <1>2 DEF ProtocolTransition, Moves, NodeRow
<1>4. /\ call[c].next \in {"none", "READY", "DEGRADED"} /\ (SeenWell => call[c].next # "DEGRADED")
      /\ call[c].seen.state = "FAILED" => call[c].next = "none"
  BY <1>1, <1>2 DEF CallFits, VerdictFits, DecisionFits, At
<1>5. RowStays /\ (row.state = "FAILED" => row'.state = "FAILED")
      /\ (row'.state = "DEGRADED" => row.state = "DEGRADED" \/ ~SeenWell)
  BY <1>3, <1>4 DEF RowStays
<1>6. CASE call[c].kind = "heartbeat"
  <2> DEFINE v == [call[c] EXCEPT !.pc = "read", !.seen = NewNode, !.next = "none"]
  <2>0. call'[c] = v /\ \A b \in Calls : b # c => call'[b] = call[b]
    BY <1>6 DEF ProtocolTransition, HealthTyped, HealthTypeOK
  <2>1. v.pc = "read" /\ v.kind = call[c].kind /\ v.ok = call[c].ok
    BY DEF HealthTyped, HealthTypeOK, Call
  <2> HIDE DEF v
  <2>2. CallFits(c)'
    BY <1>1, <1>2, <1>6, <2>0, <2>1, KindsApart DEF CallFits, CallIsAt, VerdictFits, DecisionFits, SeenWell
  <2> QED BY <1>1, <1>5, <1>6, <2>0, <2>1, <2>2, CallStep
<1>7. CASE call[c].kind # "heartbeat"
  <2>1. call'[c].pc = "idle" /\ call'[c].kind = "none" /\ \A b \in Calls : b # c => call'[b] = call[b]
    BY <1>7, DoneIs DEF ProtocolTransition, HealthTyped
  <2>2. CallFits(c)'
    BY <2>1, IdleFits
  <2> QED BY <1>1, <1>2, <1>5, <1>7, <2>1, <2>2, KindsApart, CallStep
<1> QED BY <1>5, <1>6, <1>7

LEMMA HeartbeatKeeps ==
    ASSUME HealthTyped, HealthInv, ~OverlappingReports, NEW c \in Calls, NEW probe \in BOOLEAN, NEW self \in BOOLEAN,
           Heartbeat(c, probe, self)
    PROVE  HealthInv'
<1>1. /\ call'[c].kind = "heartbeat" /\ call'[c].pc = (IF self THEN "target" ELSE "read")
      /\ call'[c].ok = (IF probe THEN Own ELSE "absent")
      /\ (\A b \in Calls : b # c => call'[b] = call[b]) /\ UNCHANGED <<row, observed, works, healthAlerts>>
      /\ At(c, "idle")
  BY DEF Heartbeat, HealthTyped, HealthTypeOK, NoCall
<1>2. works = "always" => call'[c].ok # "no"
  BY <1>1 DEF Own
<1>3. CallFits(c)'
  BY <1>1, <1>2, KindsApart DEF CallFits, CallIsAt, VerdictFits, DecisionFits
<1>4. \A b \in Calls : call[b].kind \notin {"heartbeat", "sweep"}
  BY DEF Heartbeat, Alone
<1> QED BY <1>1, <1>3, <1>4, CallOnly

LEMMA ReadNodeKeeps ==
    ASSUME HealthTyped, HealthInv, NEW c \in Calls, ReadNode(c)
    PROVE  HealthInv'
<1> DEFINE n == Decided(call[c].ok, row).next
<1>1. /\ call'[c].pc = "write" /\ call'[c].kind = call[c].kind /\ call'[c].ok = call[c].ok
      /\ call'[c].seen = row /\ call'[c].next = n
      /\ (\A b \in Calls : b # c => call'[b] = call[b]) /\ UNCHANGED <<row, observed, works, healthAlerts>>
      /\ At(c, "read")
  BY DEF ReadNode, HealthTyped, HealthTypeOK, Call
<1>2. call[c].kind = "heartbeat" /\ CallFits(c) /\ row \in NodeRow /\ call[c].ok \in Answer
  BY <1>1 DEF HealthInv, CallIsAt, CallFits, At, HealthTyped, HealthTypeOK, Call, Answer
<1>3. /\ n \in States /\ (call[c].ok # "no" => n # "DEGRADED")
      /\ row.state = "FAILED" /\ row.reason # "SILENCE" => n = "none"
  BY <1>2, HeartbeatDecides
<1> HIDE DEF n
<1>4. CallFits(c)'
  <2>1. CallIsAt(c)'
    BY <1>1, <1>2 DEF CallIsAt
  <2>2. VerdictFits(c)'
    BY <1>1, <1>2, <1>3 DEF CallFits, VerdictFits, SeenWell
  <2>3. DecisionFits(c)'
    BY <1>1, <1>2, <1>3 DEF DecisionFits, States, Silenced
  <2> QED BY <2>1, <2>2, <2>3 DEF CallFits
<1> QED BY <1>1, <1>2, <1>4, CallOnly

LEMMA WriteTelemetryKeeps ==
    ASSUME HealthTyped, HealthInv, NEW c \in Calls, WriteTelemetry(c)
    PROVE  HealthInv'
<1>1. /\ call'[c].pc = "cas" /\ call'[c].kind = call[c].kind /\ call'[c].ok = call[c].ok
      /\ call'[c].seen = call[c].seen /\ call'[c].next = call[c].next
      /\ (\A b \in Calls : b # c => call'[b] = call[b]) /\ UNCHANGED <<observed, works, healthAlerts>>
      /\ At(c, "write")
  BY GotoIs DEF WriteTelemetry, HealthTyped
<1>2. row'.state = row.state /\ row'.reason = row.reason
  BY DEF WriteTelemetry, HealthTyped, HealthTypeOK, NodeRow
<1>3. call[c].kind = "heartbeat" /\ CallFits(c)
  BY <1>1 DEF HealthInv, CallIsAt, CallFits, At
<1>4. CallFits(c)'
  <2>1. CallIsAt(c)'
    BY <1>1, <1>3 DEF CallIsAt
  <2>2. VerdictFits(c)'
    BY <1>1, <1>3 DEF CallFits, VerdictFits, SeenWell, At
  <2>3. DecisionFits(c)'
    BY <1>1, <1>2, <1>3 DEF CallFits, DecisionFits, Silenced, At
  <2> QED BY <2>1, <2>2, <2>3 DEF CallFits
<1> QED BY <1>1, <1>2, <1>3, <1>4, CallStep DEF RowStays

LEMMA CompareAndSetKeeps ==
    ASSUME HealthTyped, HealthInv, NEW c \in Calls, CompareAndSet(c), call[c].kind = "heartbeat"
    PROVE  HealthInv' /\ (row.state = "FAILED" /\ row.reason # "SILENCE" => row'.state = "FAILED")
<1> DEFINE to == call[c].next
           seen == call[c].seen.state
<1>1. /\ call'[c].pc = "token" /\ call'[c].kind = "heartbeat" /\ call'[c].ok = call[c].ok
      /\ call'[c].next = IF to = "none" THEN seen ELSE IF row.state = seen THEN to ELSE "unknown"
      /\ (\A b \in Calls : b # c => call'[b] = call[b]) /\ UNCHANGED <<observed, works, healthAlerts>>
      /\ At(c, "cas")
  BY DEF CompareAndSet, HealthTyped, HealthTypeOK, Call
<1>2. CallFits(c) /\ row \in NodeRow
  BY DEF HealthInv, CallFits, HealthTyped, HealthTypeOK
<1>3. IF to # "none" /\ row.state = seen THEN row'.state = to ELSE row' = row
  BY <1>2 DEF CompareAndSet, Moves, NodeRow
<1>4. /\ to \in {"none", "READY", "DEGRADED"} /\ (SeenWell => to # "DEGRADED")
      /\ seen = "FAILED" => to = "none" \/ call[c].seen.reason = "SILENCE"
      /\ seen = "FAILED" /\ row.state = "FAILED" => row.reason = call[c].seen.reason
      /\ Silenced => seen = "FAILED"
  BY <1>1, <1>2 DEF CallFits, VerdictFits, DecisionFits, At
<1> HIDE DEF to, seen
<1>5. RowStays /\ (row.state = "FAILED" /\ row.reason # "SILENCE" => row'.state = "FAILED")
      /\ (row'.state = "DEGRADED" => row.state = "DEGRADED" \/ ~SeenWell)
  BY <1>3, <1>4 DEF RowStays
<1>6. Silenced' => Silenced /\ row'.state = "FAILED"
  BY <1>5 DEF RowStays, Silenced
<1>7. CallFits(c)'
  <2>1. CallIsAt(c)'
    BY <1>1 DEF CallIsAt
  <2>2. VerdictFits(c)'
    BY <1>1, <1>2, KindsApart DEF CallFits, VerdictFits, SeenWell
  <2>3. Silenced' => call'[c].next \in {"FAILED", "unknown"}
    BY <1>1, <1>3, <1>4, <1>6
  <2>4. DecisionFits(c)'
    BY <1>1, <2>3 DEF DecisionFits
  <2> QED BY <2>1, <2>2, <2>4 DEF CallFits
<1> QED BY <1>1, <1>5, <1>7, CallStep

LEMMA ClearEnrollmentTokenKeeps ==
    ASSUME HealthTyped, HealthInv, NEW c \in Calls, ClearEnrollmentToken(c)
    PROVE  HealthInv'
<1>1. /\ call'[c].pc = "alert" /\ call'[c].kind = call[c].kind /\ call'[c].ok = call[c].ok
      /\ call'[c].next = call[c].next
      /\ (\A b \in Calls : b # c => call'[b] = call[b]) /\ UNCHANGED <<observed, works, healthAlerts>>
      /\ At(c, "token")
  BY GotoIs DEF ClearEnrollmentToken, HealthTyped
<1>2. row'.state = row.state /\ row'.reason = row.reason
  BY DEF ClearEnrollmentToken, HealthTyped, HealthTypeOK, NodeRow
<1>3. call[c].kind = "heartbeat" /\ CallFits(c)
  BY <1>1 DEF HealthInv, CallIsAt, CallFits, At
<1>4. CallFits(c)'
  BY <1>1, <1>2, <1>3, KindsApart DEF CallFits, CallIsAt, VerdictFits, DecisionFits, Silenced, SeenWell, At
<1> QED BY <1>1, <1>2, <1>3, <1>4, CallStep DEF RowStays

LEMMA SettleAlertsKeeps ==
    ASSUME HealthTyped, HealthInv, NEW c \in Calls, SettleAlerts(c)
    PROVE  HealthInv'
<1>1. /\ call'[c].pc = "idle" /\ call'[c].kind = "none"
      /\ (\A b \in Calls : b # c => call'[b] = call[b]) /\ UNCHANGED <<row, observed, works>>
      /\ At(c, "alert") /\ call[c].kind = "heartbeat"
  BY DoneIs DEF SettleAlerts, HealthTyped
<1>2. RowStays /\ NothingMends /\ CallFits(c)'
  BY <1>1, IdleFits DEF RowStays, NothingMends
<1>3. \A b \in Calls : CallFits(b)'
  BY <1>1, <1>2, OthersFit DEF HealthInv, CallFits
<1>4. OneJudge' /\ HonestResult' /\ LiarCannotDegrade'
  BY <1>1 DEF HealthInv, OneJudge, HonestResult, LiarCannotDegrade
<1>5. WordIsOut'
  <2> SUFFICES ASSUME Silenced PROVE WordIsOut'
    BY <1>1 DEF WordIsOut, Silenced
  <2>1. call[c].next \in {"FAILED", "unknown"}
    BY <1>1 DEF HealthInv, DecisionFits, At
  <2>2. CASE call[c].next = "FAILED"
    BY <2>2 DEF SettleAlerts, reconcileAlert, WordIsOut
  <2>3. CASE call[c].next = "unknown"
    <3>1. UNCHANGED healthAlerts
      BY <2>3 DEF SettleAlerts, reconcileAlert
    <3> QED BY <1>1, <3>1 DEF HealthInv, WordIsOut, At
  <2> QED BY <2>1, <2>2, <2>3
<1> QED BY <1>3, <1>4, <1>5 DEF HealthInv, CallFits

LEMMA SweepKeeps ==
    ASSUME HealthTyped, HealthInv, ~OverlappingReports, NEW c \in Calls, Sweep(c)
    PROVE  HealthInv'
<1>1. /\ call'[c].kind = "sweep" /\ call'[c].pc = "cas" /\ call'[c].next = "none"
      /\ (\A b \in Calls : b # c => call'[b] = call[b]) /\ UNCHANGED <<row, observed, works, healthAlerts>>
      /\ At(c, "idle")
  BY DEF Sweep, HealthTyped, HealthTypeOK, NoCall
<1>2. CallFits(c)'
  BY <1>1, KindsApart DEF CallFits, CallIsAt, VerdictFits, DecisionFits
<1>3. \A b \in Calls : call[b].kind \notin {"heartbeat", "sweep"}
  BY DEF Sweep, Alone
<1> QED BY <1>1, <1>2, <1>3, CallOnly

\* While a sweep is in progress there is no heartbeat that could take the node for anything else.
LEMMA failSilentNodesKeeps ==
    ASSUME HealthTyped, HealthInv, NEW c \in Calls, failSilentNodes(c)
    PROVE  HealthInv' /\ (row.state = "FAILED" => row'.state = "FAILED")
<1>1. At(c, "cas") /\ call[c].kind = "sweep" /\ UNCHANGED <<observed, works, healthAlerts>> /\ row \in NodeRow
  BY DEF failSilentNodes, HealthTyped, HealthTypeOK
<1>2. CASE row.state = call[c].seen.state
  <2>1. row' = [row EXCEPT !.state = "FAILED", !.reason = "SILENCE"] /\ Goto(c, "alert")
    BY <1>2 DEF failSilentNodes
  <2>2. /\ call'[c].pc = "alert" /\ call'[c].kind = "sweep" /\ call'[c].ok = call[c].ok
        /\ \A b \in Calls : b # c => call'[b] = call[b]
    BY <1>1, <2>1, GotoIs DEF HealthTyped
  <2>3. row'.state = "FAILED" /\ row'.reason = "SILENCE"
    BY <1>1, <2>1 DEF NodeRow
  <2>4. \A b \in Calls : call[b].kind # "heartbeat"
    BY <1>1 DEF HealthInv, OneJudge
  <2>5. CallFits(c)'
    BY <2>2, KindsApart DEF CallFits, CallIsAt, VerdictFits, DecisionFits
  <2>6. \A b \in Calls : CallFits(b)'
    <3> SUFFICES ASSUME NEW b \in Calls, b # c PROVE CallFits(b)'
      BY <2>5
    <3>1. CallFits(b) /\ call'[b] = call[b] /\ call[b].kind # "heartbeat"
      BY <2>2, <2>4 DEF HealthInv, CallFits
    <3>2. CallIsAt(b)'
      BY <3>1 DEF CallFits, CallIsAt
    <3>3. VerdictFits(b)'
      BY <1>1, <3>1 DEF CallFits, VerdictFits, SeenWell
    <3>4. DecisionFits(b)'
      BY <3>1 DEF CallFits, DecisionFits
    <3> QED BY <3>2, <3>3, <3>4 DEF CallFits
  <2>7. OneJudge' /\ HonestResult'
    BY <1>1, <2>2 DEF HealthInv, OneJudge, HonestResult
  <2>8. WordIsOut' /\ LiarCannotDegrade'
    BY <2>2, <2>3 DEF WordIsOut, LiarCannotDegrade, At
  <2> QED BY <2>3, <2>6, <2>7, <2>8 DEF HealthInv, CallFits
<1>3. CASE row.state # call[c].seen.state
  <2>1. /\ call'[c].pc = "idle" /\ call'[c].kind = "none" /\ UNCHANGED row
        /\ \A b \in Calls : b # c => call'[b] = call[b]
    BY <1>3, DoneIs DEF failSilentNodes, HealthTyped
  <2>2. CallFits(c)'
    BY <2>1, IdleFits
  <2> QED BY <1>1, <2>1, <2>2, CallOnly DEF At
<1> QED BY <1>2, <1>3

LEMMA AlertSilenceKeeps ==
    ASSUME HealthTyped, HealthInv, NEW c \in Calls, AlertSilence(c)
    PROVE  HealthInv'
<1>1. /\ call'[c].pc = "idle" /\ call'[c].kind = "none"
      /\ (\A b \in Calls : b # c => call'[b] = call[b]) /\ UNCHANGED <<row, observed, works>>
      /\ "node_failed" \in healthAlerts'
  BY DoneIs DEF AlertSilence, HealthTyped
<1>2. RowStays /\ NothingMends /\ CallFits(c)'
  BY <1>1, IdleFits DEF RowStays, NothingMends
<1>3. \A b \in Calls : CallFits(b)'
  BY <1>1, <1>2, OthersFit DEF HealthInv, CallFits
<1>4. OneJudge' /\ HonestResult' /\ LiarCannotDegrade'
  BY <1>1 DEF HealthInv, OneJudge, HonestResult, LiarCannotDegrade
<1>5. WordIsOut'
  BY <1>1 DEF WordIsOut
<1> QED BY <1>3, <1>4, <1>5 DEF HealthInv, CallFits

LEMMA ReplacementKeeps ==
    ASSUME HealthTyped, HealthInv, NEW c \in Calls, FindFailedNode(c) \/ StartReplacement(c)
    PROVE  HealthInv'
<1>1. CASE FindFailedNode(c)
  <2>1. /\ call'[c].kind = "replace" /\ call'[c].pc = "start"
        /\ (\A b \in Calls : b # c => call'[b] = call[b]) /\ UNCHANGED <<row, observed, works, healthAlerts>>
        /\ At(c, "idle")
    BY <1>1 DEF FindFailedNode, HealthTyped, HealthTypeOK, NoCall
  <2>2. CallFits(c)'
    BY <2>1, KindsApart DEF CallFits, CallIsAt, VerdictFits, DecisionFits
  <2> QED BY <2>1, <2>2, CallOnly DEF At
<1>2. CASE StartReplacement(c)
  <2>1. /\ call'[c].pc = "idle" /\ call'[c].kind = "none"
        /\ (\A b \in Calls : b # c => call'[b] = call[b]) /\ UNCHANGED <<row, observed, works, healthAlerts>>
        /\ At(c, "start")
    BY <1>2, DoneIs DEF StartReplacement, HealthTyped
  <2>2. CallFits(c)'
    BY <2>1, IdleFits
  <2> QED BY <2>1, <2>2, CallOnly DEF At
<1> QED BY <1>1, <1>2

\* A step of nobody's request.
LEMMA SurroundingsStep ==
    ASSUME HealthInv, UNCHANGED <<call, healthAlerts>>, RowStays, NothingMends, HonestResult', LiarCannotDegrade'
    PROVE  HealthInv'
<1>1. \A b \in Calls : CallFits(b)'
  BY OthersFit DEF HealthInv, CallFits
<1>2. OneJudge'
  BY DEF HealthInv, OneJudge
<1>3. WordIsOut'
  BY DEF HealthInv, WordIsOut, Silenced, RowStays, At
<1> QED BY <1>1, <1>2, <1>3 DEF HealthInv, CallFits

LEMMA ResultAgesKeeps ==
    ASSUME HealthTyped, HealthInv, NEW p \in Peers, ResultAges(p)
    PROVE  HealthInv'
<1>1. /\ UNCHANGED <<call, healthAlerts, works>> /\ observed' = [observed EXCEPT ![p] = "none"]
      /\ p \notin Liars => \E q \in DOMAIN observed \ (Liars \cup {p}) : observed[q] # "none"
      /\ p \in DOMAIN observed
  BY DEF ResultAges
<1>2. row'.state = row.state /\ row'.reason = row.reason
  BY DEF ResultAges, HealthTyped, HealthTypeOK, NodeRow
<1>3. RowStays /\ NothingMends /\ LiarCannotDegrade'
  BY <1>1, <1>2 DEF RowStays, NothingMends, HealthInv, LiarCannotDegrade
<1>4. HonestResult'
  <2> SUFFICES ASSUME works = "always" PROVE HonestResult'
    BY <1>1 DEF HonestResult
  <2>1. /\ \A q \in DOMAIN observed \ Liars : observed[q] # "bad"
        /\ DOMAIN observed \ Liars # {} => \E q \in DOMAIN observed \ Liars : observed[q] = "ok"
    BY DEF HealthInv, HonestResult
  <2>2. \A q \in DOMAIN observed : observed[q] \in {"none", "ok", "bad"}
    BY ObservedTyped DEF HealthTyped
  <2>3. DOMAIN observed' = DOMAIN observed /\ \A q \in DOMAIN observed : observed'[q] = IF q = p THEN "none" ELSE observed[q]
    BY <1>1
  <2>4. \A q \in DOMAIN observed' \ Liars : observed'[q] # "bad"
    BY <2>1, <2>3
  <2>5. CASE p \in Liars
    BY <2>1, <2>3, <2>4, <2>5 DEF HonestResult
  <2>6. CASE p \notin Liars
    <3>1. PICK q \in DOMAIN observed \ (Liars \cup {p}) : observed[q] # "none"
      BY <1>1, <2>6
    <3>2. q \in DOMAIN observed' \ Liars /\ observed'[q] = "ok"
      BY <2>1, <2>2, <2>3, <3>1
    <3> QED BY <2>4, <3>2 DEF HonestResult
  <2> QED BY <2>5, <2>6
<1> QED BY <1>1, <1>3, <1>4, SurroundingsStep

LEMMA NodeActsKeep ==
    ASSUME HealthTyped, HealthInv, GoesSilent \/ Breaks \/ Mended \/ Enrolls
    PROVE  HealthInv' /\ (row.state = "FAILED" => row'.state = "FAILED")
<1>1. CASE GoesSilent \/ Enrolls
  <2>1. UNCHANGED <<call, healthAlerts, works, observed>> /\ row'.reason = row.reason
        /\ (row'.state = row.state \/ (row.state # "FAILED" /\ row'.state = "WARMING_UP"))
    BY <1>1 DEF GoesSilent, Enrolls, HealthTyped, HealthTypeOK, NodeRow
  <2>2. RowStays /\ NothingMends /\ LiarCannotDegrade' /\ HonestResult'
    BY <2>1 DEF RowStays, NothingMends, HealthInv, LiarCannotDegrade, HonestResult
  <2> QED BY <2>1, <2>2, SurroundingsStep
<1>2. CASE Breaks \/ Mended
  <2>1. UNCHANGED <<call, healthAlerts, row, observed>> /\ works' # "always"
    BY <1>2 DEF Breaks, Mended
  <2>2. RowStays /\ NothingMends /\ LiarCannotDegrade' /\ HonestResult'
    BY <2>1 DEF RowStays, NothingMends, LiarCannotDegrade, HonestResult
  <2> QED BY <2>1, <2>2, SurroundingsStep
<1> QED BY <1>1, <1>2

LEMMA AllowedIs ==
    \A s \in NodeState : /\ "DEGRADED" \notin Allowed[s]
                         /\ "FAILED" \in Allowed[s] => s # "FAILED"
BY DEF NodeState, Allowed

\* An order that fails a node gives it a reason that no heartbeat in progress has seen.
LEMMA OrdersKeep ==
    ASSUME HealthTyped, HealthInv, ~OverlappingReports, NEW to \in NodeState, Orders(to)
    PROVE  HealthInv' /\ orders' > orders
<1>1. /\ UNCHANGED <<call, healthAlerts, works, observed>> /\ to \in Allowed[row.state]
      /\ \A c \in Calls : call[c].kind = "heartbeat" /\ (At(c, "write") \/ At(c, "cas")) => call[c].seen.state = row.state
  BY DEF Orders
<1>2. row'.state = to /\ (row'.reason = IF to = "FAILED" THEN "ADMIN" ELSE "none") /\ row.state \in NodeState
  BY DEF Orders, HealthTyped, HealthTypeOK, NodeRow
<1>3. orders' > orders
  BY HealthParameters DEF Orders, HealthTyped, HealthTypeOK
<1>4. to # "DEGRADED" /\ (to = "FAILED" => row.state # "FAILED")
  BY <1>1, <1>2, AllowedIs
<1>5. ~Silenced'
  BY <1>2 DEF Silenced
<1>6. \A b \in Calls : CallFits(b)'
  <2> SUFFICES ASSUME NEW b \in Calls PROVE CallFits(b)'
    OBVIOUS
  <2>1. CallFits(b)
    BY DEF HealthInv, CallFits
  <2>2. CallIsAt(b)' /\ VerdictFits(b)'
    BY <1>1, <2>1 DEF CallFits, CallIsAt, VerdictFits, SeenWell
  <2>3. DecisionFits(b)'
    BY <1>1, <1>2, <1>4, <1>5, <2>1 DEF CallFits, DecisionFits, At
  <2> QED BY <2>2, <2>3 DEF CallFits
<1>7. OneJudge' /\ HonestResult'
  BY <1>1 DEF HealthInv, OneJudge, HonestResult
<1>8. WordIsOut' /\ LiarCannotDegrade'
  BY <1>2, <1>4, <1>5 DEF WordIsOut, LiarCannotDegrade
<1> QED BY <1>3, <1>6, <1>7, <1>8 DEF HealthInv, CallFits

LEMMA HealthInvInit == HealthInit => HealthInv
<1> SUFFICES ASSUME HealthInit PROVE HealthInv
  OBVIOUS
<1>1. PICK probers \in {Peers, {}} : observed = [p \in probers |-> IF p \in Liars THEN "none" ELSE "ok"]
  BY DEF HealthInit
<1>2. \A c \in Calls : call[c].pc = "idle" /\ call[c].kind = "none"
  BY DEF HealthInit, NoCall
<1>3. row.state = "READY"
  BY DEF HealthInit, NewNode
<1>4. \A c \in Calls : CallIsAt(c) /\ VerdictFits(c) /\ DecisionFits(c)
  BY <1>2, KindsApart DEF CallIsAt, VerdictFits, DecisionFits
<1>5. HonestResult
  BY <1>1 DEF HonestResult
<1> QED BY <1>2, <1>3, <1>4, <1>5 DEF HealthInv, OneJudge, WordIsOut, LiarCannotDegrade, Silenced

\* A step keeps the invariant, and takes a node out of FAILED as its reason allows.
LEMMA HealthInvKept ==
    ASSUME ~OverlappingReports, HealthTyped, HealthInv, [HealthNext]_healthVars
    PROVE  /\ HealthInv'
           /\ [(row.state = "FAILED" /\ row.reason # "SILENCE" /\ row'.state # "FAILED") => orders' > orders]_healthVars
<1>1. CASE UNCHANGED healthVars
  <2>1. RowStays /\ NothingMends /\ LiarCannotDegrade' /\ HonestResult' /\ UNCHANGED <<call, healthAlerts>>
    BY <1>1 DEF healthVars, RowStays, NothingMends, HealthInv, LiarCannotDegrade, HonestResult
  <2> QED BY <1>1, <2>1, SurroundingsStep
<1>2. ASSUME NEW c \in Calls, \/ InsertResults(c) \/ ReadTarget(c) \/ CountVerdict(c) \/ Quorum(c)
                              \/ \E p \in Peers : PeerReports(c, p)
                              \/ ReadNode(c) \/ WriteTelemetry(c) \/ ClearEnrollmentToken(c) \/ SettleAlerts(c)
                              \/ Sweep(c) \/ AlertSilence(c) \/ FindFailedNode(c) \/ StartReplacement(c)
                              \/ \E probe, self \in BOOLEAN : Heartbeat(c, probe, self)
      PROVE  HealthInv' /\ row'.state = row.state
  <2>1. HealthInv'
    BY <1>2, InsertResultsKeeps, ReadTargetKeeps, CountVerdictKeeps, QuorumKeeps, PeerReportsKeeps, ReadNodeKeeps,
       WriteTelemetryKeeps, ClearEnrollmentTokenKeeps, SettleAlertsKeeps, SweepKeeps, AlertSilenceKeeps,
       ReplacementKeeps, HeartbeatKeeps
  <2>2. row \in NodeRow
    BY DEF HealthTyped, HealthTypeOK
  <2>3. row'.state = row.state
    BY <1>2, <2>2 DEF NodeRow, InsertResults, ReadTarget, CountVerdict, Quorum, PeerReports, ReadNode, WriteTelemetry,
       ClearEnrollmentToken, SettleAlerts, Sweep, AlertSilence, FindFailedNode, StartReplacement, Heartbeat
  <2> QED BY <2>1, <2>3
<1>3. ASSUME NEW c \in Calls, ProtocolTransition(c) \/ (call[c].kind = "heartbeat" /\ CompareAndSet(c)) \/ failSilentNodes(c)
      PROVE  HealthInv' /\ (row.state = "FAILED" /\ row.reason # "SILENCE" => row'.state = "FAILED")
  BY <1>3, ProtocolTransitionKeeps, CompareAndSetKeeps, failSilentNodesKeeps
<1>4. ASSUME NEW p \in Peers, ResultAges(p) PROVE HealthInv' /\ row'.state = row.state
  BY <1>4, ResultAgesKeeps DEF ResultAges, HealthTyped, HealthTypeOK, NodeRow
<1>5. CASE Automation
  BY <1>2, <1>3, <1>5 DEF Automation
<1> QED BY <1>1, <1>4, <1>5, NodeActsKeep, OrdersKeep DEF HealthNext

\* The node's row, what its peers observed and its alerts keep their types, whatever overlaps.
THEOREM HealthTypeCorrect == HealthSpec => []HealthTypeOK
<1>1. HealthTyped => HealthTypeOK
  BY DEF HealthTyped
<1> QED BY <1>1, HealthTypedInit, HealthTypedKept, PTL DEF HealthSpec

\* When a heartbeat overlaps no other, no sweep and no two orders: automation takes a node out of FAILED only
\* when its silence put it there; no liar degrades a node that never broke and that an honest peer
\* probes, for any peers, liars and thresholds; and the operators have word of a node that fell silent.
\* (evaluateProbeResult, otherPeerPassing, failSilentNodes, reconcileAlert)
THEOREM HealthCorrect ==
    ASSUME ~OverlappingReports
    PROVE  HealthSpec => HealthIsHonest
<1>1. HealthTyped /\ HealthInv /\ [HealthNext]_healthVars =>
          /\ HealthTyped' /\ HealthInv'
          /\ [(row.state = "FAILED" /\ row.reason # "SILENCE" /\ row'.state # "FAILED") => orders' > orders]_healthVars
  BY HealthTypedKept, HealthInvKept
<1>2. HealthInv => LiarCannotDegrade /\ FailedIsAlerted
  BY DEF HealthInv, WordIsOut, Silenced, FailedIsAlerted
<1> QED BY <1>1, <1>2, HealthTypedInit, HealthInvInit, PTL DEF HealthSpec, HealthIsHonest, ReasonRespected
=============================================================================
