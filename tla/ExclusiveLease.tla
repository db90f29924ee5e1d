--------------------------- MODULE ExclusiveLease ---------------------------
(***************************************************************************)
(* What the ephemeral lease pool promises, without nodes, rows or clocks:  *)
(* credentials are granted to devices in groups, a group is granted whole  *)
(* or not at all, and no credential is ever granted twice.  A grant has an *)
(* end that only moves later, and only while the grant is open; a closed   *)
(* grant stays closed and keeps its end.                                   *)
(*                                                                         *)
(* LeasePool implements this module: a grant is a row of vpn_leases, its   *)
(* credentials are the (node, slot, generation) triples of its hops.       *)
(***************************************************************************)
EXTENDS Naturals, Sequences

CONSTANTS Holder,      \* who may be granted credentials
          Credential   \* what is granted

VARIABLE grants        \* every grant ever made, in the order they were made

Grant == [holder : Holder, creds : SUBSET Credential, end : Nat, closed : BOOLEAN]

Init == grants = << >>

\* Credentials that were ever part of a grant.
Spent == UNION {grants[i].creds : i \in DOMAIN grants}

\* A new grant, of credentials that nobody was granted before.
Open ==
    /\ Len(grants') = Len(grants) + 1
    /\ LET g == grants'[Len(grants')]
       IN /\ g \in Grant
          /\ g.creds # {}
          /\ g.creds \cap Spent = {}
          /\ ~g.closed
          /\ grants' = Append(grants, g)

Extend(i) ==
    /\ ~grants[i].closed
    /\ Len(grants') = Len(grants)
    /\ grants'[i].end > grants[i].end
    /\ grants' = [grants EXCEPT ![i].end = grants'[i].end]

\* Closes some of one holder's open grants together, as a revocation does.
Close(I) ==
    /\ I # {}
    /\ \A i, j \in I : ~grants[i].closed /\ grants[i].holder = grants[j].holder
    /\ grants' = [i \in DOMAIN grants |->
                     IF i \in I THEN [grants[i] EXCEPT !.closed = TRUE] ELSE grants[i]]

Next ==
    \/ Open
    \/ \E i \in DOMAIN grants : Extend(i)
    \/ \E I \in SUBSET DOMAIN grants : Close(I)

Spec == Init /\ [][Next]_grants
=============================================================================
