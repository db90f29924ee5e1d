---------------------------- MODULE MCLeasePool ----------------------------
(* Instances of LeasePool for TLC. *)
EXTENDS LeasePool, TLC

CONSTANTS d1, d2, s1, s2, fast, plus

\* A one-hop route to the first node and a two-hop route over both.
MCHops == [r \in Routes |-> IF r = fast THEN <<"n1">> ELSE <<"n1", "n2">>]
\* All devices belong to one account.
MCAccountOf == [d \in Devices |-> "acc"]
\* A unit of time is the rotation interval; a slot lives for two of them.
MCGrid == [n \in Nodes |-> 1]
MCLife == [n \in Nodes |-> 2]
\* Devices and slots are interchangeable.
Symmetry == Permutations(Devices) \cup Permutations(Slots)

\* The second node of a route begins with a pool of one slot.
UnevenPools == Init /\ pool["n2"] # Slots
TwoHopsSpec == UnevenPools /\ [][Next]_vars
=============================================================================
