-------------------------------- MODULE AccessLinks --------------------------------
(***************************************************************************)
(* Shareable links (links-service.js, 20261014000000_arcana_links_         *)
(* foundation.sql): a link is a container, each of its clients takes a     *)
(* place of a subscription and is reached by a secret URL.  The database   *)
(* keeps the hash of the URL's token, for the gateway, and the sealed      *)
(* token, so that the owner can copy the URL again.                        *)
(*                                                                         *)
(* The SQL functions hold the link's row and are one step; what a handler  *)
(* does between two calls of the database is split.  A token stands for    *)
(* its hash.                                                               *)
(***************************************************************************)
EXTENDS Integers, FiniteSets

CONSTANTS
    LinkCallers,     \* requests that can be in progress
    MaxLinks,    \* bound: links
    Places,      \* devices that the subscription admits
    MaxTokens,   \* bound: tokens, and so requests that make one
    MaxLinkDeaths,   \* bound: requests that die, or whose call of the database fails
    EarlyUse     \* a link may be used by others before the request that creates it has answered

ASSUME LinkParameters ==
    /\ {MaxLinks, MaxTokens} \subseteq Nat \ {0} /\ {Places, MaxLinkDeaths} \subseteq Nat
    /\ EarlyUse \in BOOLEAN

Links == 1..MaxLinks
Token == 1..MaxTokens
NoToken == 0

VARIABLES
    links,    \* [Links -> "none", "active", "revoked"]
    capacity, \* [Links -> max_clients]
    clients,  \* [Token -> ...]: external_vpn_devices, named by the token they were created with
    made,     \* how many tokens were made
    given,    \* tokens whose URL was given to the customer
    asked,    \* the customer asked to revoke something (bound: once)
    requests, \* [LinkCallers -> ...]
    deaths

linkVars == <<links, capacity, clients, made, given, asked, requests, deaths>>

\* hash: the token that opens it, NoToken when burnt.  sealed: the token that can be copied.
Client == [link : Links \cup {0}, active : BOOLEAN, hash : Token \cup {NoToken}, sealed : Token \cup {NoToken}, key : LinkCallers]
\* link: that it works on.  old: that it moves away from, 0 when it does not move one.  own: it created the link.
Request == [pc : {"idle", "insert", "compare", "store", "cleanup", "retire", "replace"},
            link : Links \cup {0}, old : Links \cup {0}, own : BOOLEAN, token : Token \cup {NoToken}, client : Token \cup {NoToken}]
NoRequest == [pc |-> "idle", link |-> 0, old |-> 0, own |-> FALSE, token |-> NoToken, client |-> NoToken]

LinkTypeOK ==
    /\ links \in [Links -> {"none", "active", "revoked"}] /\ capacity \in [Links -> 0..2]
    /\ DOMAIN clients \subseteq Token /\ \A k \in DOMAIN clients : clients[k] \in Client
    /\ made \in 0..MaxTokens /\ given \subseteq Token /\ asked \in BOOLEAN
    /\ requests \in [LinkCallers -> Request] /\ deaths \in 0..MaxLinkDeaths

-----------------------------------------------------------------------------
Active == {k \in DOMAIN clients : clients[k].active}
ActiveOf(l) == {k \in Active : clients[k].link = l}
\* revealAccessLink: only a token that is the client's current one.
revealAccessLink(k) == IF clients[k].active /\ clients[k].sealed = clients[k].hash THEN clients[k].sealed ELSE NoToken
\* The owner holds its URL, or can copy it.
Working == {k \in Active : clients[k].hash \in given \/ revealAccessLink(k) # NoToken}

In(r, pc) == requests[r].pc = pc
Does(r, pc) == requests' = [requests EXCEPT ![r].pc = pc]
Answers(r) == requests' = [requests EXCEPT ![r] = NoRequest]
NewLink == CHOOSE l \in Links : links[l] = "none"
Usable(l) == links[l] = "active" /\ (EarlyUse \/ \A q \in LinkCallers : requests[q].own => requests[q].link # l)
SomeLinkIsFree == \E l \in Links : links[l] = "none"

\* A revoked client's hash is burnt.
Burn(k) == [clients[k] EXCEPT !.active = FALSE, !.hash = NoToken]

\* createLink.
CreateLink(r, n) ==
    /\ In(r, "idle") /\ SomeLinkIsFree
    /\ links' = [links EXCEPT ![NewLink] = "active"] /\ capacity' = [capacity EXCEPT ![NewLink] = n]
    /\ UNCHANGED <<clients, made, given, asked, requests, deaths>>

\* createClient looks at the link and makes a token; the request may repeat an earlier one's key.
CreateClient(r, l) ==
    /\ In(r, "idle") /\ Usable(l) /\ made < MaxTokens
    /\ made' = made + 1
    /\ requests' = [requests EXCEPT ![r] = [NoRequest EXCEPT !.pc = "insert", !.link = l, !.token = made + 1]]
    /\ UNCHANGED <<links, capacity, clients, given, asked, deaths>>

\* As if the old link were retired in the same step, before the new one has its client.
StartLink_RetiresFirst(r, old) ==
    /\ In(r, "idle") /\ SomeLinkIsFree /\ made < MaxTokens /\ old # 0 /\ Usable(old)
    /\ links' = [links EXCEPT ![NewLink] = "active", ![old] = "revoked"] /\ capacity' = [capacity EXCEPT ![NewLink] = 1]
    /\ clients' = [k \in DOMAIN clients |-> IF clients[k].link = old THEN Burn(k) ELSE clients[k]]
    /\ made' = made + 1
    /\ requests' = [requests EXCEPT ![r] = [NoRequest EXCEPT !.pc = "insert", !.link = NewLink, !.own = TRUE, !.token = made + 1]]
    /\ UNCHANGED <<given, asked, deaths>>
\* createLinkWithClient, by itself or for moveLinkToRoute; the link holds one client.
StartLink(r, old) ==
    /\ In(r, "idle") /\ SomeLinkIsFree /\ made < MaxTokens
    /\ old # 0 => Usable(old)
    /\ links' = [links EXCEPT ![NewLink] = "active"] /\ capacity' = [capacity EXCEPT ![NewLink] = 1]
    /\ made' = made + 1
    /\ requests' = [requests EXCEPT ![r] = [NoRequest EXCEPT !.pc = "insert", !.link = NewLink, !.old = old,
                                                             !.own = TRUE, !.token = made + 1]]
    /\ UNCHANGED <<clients, given, asked, deaths>>

\* A request that failed cleans up the link it created.
Fails(r) == IF requests[r].own THEN Does(r, "cleanup") ELSE Answers(r)

\* create_vpn_link_client: a repeated key returns its client; then there must be room in the link and
\* a place of the subscription.
create_vpn_link_client(r, key) ==
    LET l == requests[r].link
        replayed == {k \in DOMAIN clients : clients[k].link = l /\ clients[k].key = key}
        new == [link |-> l, active |-> TRUE, hash |-> requests[r].token, sealed |-> NoToken, key |-> key]
    IN /\ In(r, "insert") /\ (requests[r].own => key = r /\ replayed = {})
       /\ IF links[l] # "active" THEN Fails(r) /\ UNCHANGED clients
          ELSE IF replayed # {}
          THEN \E k \in replayed : requests' = [requests EXCEPT ![r].pc = "compare", ![r].client = k] /\ UNCHANGED clients
          ELSE IF Cardinality(ActiveOf(l)) >= capacity[l] \/ Cardinality(Active) >= Places
          THEN Fails(r) /\ UNCHANGED clients
          ELSE /\ clients' = [k \in DOMAIN clients \cup {requests[r].token} |->
                                 IF k = requests[r].token THEN new ELSE clients[k]]
               /\ requests' = [requests EXCEPT ![r].pc = "compare", ![r].client = requests[r].token]
       /\ UNCHANGED <<links, capacity, made, given, asked, deaths>>

\* The row is read again: with another hash than this request's token it was replayed, and no URL is
\* returned.  A link's own creation takes that for a failure.
Compare(r) ==
    LET k == requests[r].client
    IN /\ In(r, "compare")
       /\ IF clients[k].hash = requests[r].token THEN Does(r, "store") ELSE Fails(r)
       /\ UNCHANGED <<links, capacity, clients, made, given, asked, deaths>>

\* storeAccessLink, by the client's id alone; sealing or storing may fail without notice.  The URL is
\* returned, after the old link of a move is revoked.
StoreAccessLink(r, stored) ==
    LET k == requests[r].client
    IN /\ In(r, "store")
       /\ clients' = IF stored THEN [clients EXCEPT ![k].sealed = requests[r].token] ELSE clients
       /\ IF requests[r].old # 0 THEN Does(r, "retire") /\ UNCHANGED given
          ELSE Answers(r) /\ given' = given \cup {requests[r].token}
       /\ UNCHANGED <<links, capacity, made, asked, deaths>>

\* revoke_external_vpn_device for every active client.
revoke_vpn_link(l) ==
    IF links[l] # "active" THEN UNCHANGED <<links, clients>>
    ELSE /\ links' = [links EXCEPT ![l] = "revoked"]
         /\ clients' = [k \in DOMAIN clients |-> IF k \in ActiveOf(l) THEN Burn(k) ELSE clients[k]]

Cleanup(r) ==
    /\ In(r, "cleanup")
    /\ revoke_vpn_link(requests[r].link) /\ Answers(r)
    /\ UNCHANGED <<capacity, made, given, asked, deaths>>
\* The end of moveLinkToRoute.
RetireOld(r) ==
    /\ In(r, "retire")
    /\ revoke_vpn_link(requests[r].old) /\ Answers(r)
    /\ given' = given \cup {requests[r].token}
    /\ UNCHANGED <<capacity, made, asked, deaths>>

\* The customer revokes a link, or one client.
RevokeLink(l) ==
    /\ ~asked /\ links[l] = "active" /\ revoke_vpn_link(l) /\ asked' = TRUE
    /\ UNCHANGED <<capacity, made, given, requests, deaths>>
revoke_external_vpn_device(k) ==
    /\ ~asked /\ k \in Active /\ clients' = [clients EXCEPT ![k] = Burn(k)] /\ asked' = TRUE
    /\ UNCHANGED <<links, capacity, made, given, requests, deaths>>

\* update_vpn_link.
update_vpn_link(l, n) ==
    /\ links[l] = "active" /\ Cardinality(ActiveOf(l)) <= n
    /\ capacity' = [capacity EXCEPT ![l] = n]
    /\ UNCHANGED <<links, clients, made, given, asked, requests, deaths>>

\* replaceAccessLink looks at the client, then writes hash and sealed token at once.
AskReplace(r, k) ==
    /\ In(r, "idle") /\ k \in Active /\ made < MaxTokens
    /\ Usable(clients[k].link) /\ (EarlyUse \/ \A q \in LinkCallers : requests[q].client # k)
    /\ made' = made + 1
    /\ requests' = [requests EXCEPT ![r] = [NoRequest EXCEPT !.pc = "replace", !.client = k, !.token = made + 1]]
    /\ UNCHANGED <<links, capacity, clients, given, asked, deaths>>
ReplaceAccessLink(r, sealed) ==
    LET k == requests[r].client
        t == requests[r].token
    IN /\ In(r, "replace")
       /\ IF clients[k].active
          THEN /\ clients' = [clients EXCEPT ![k].hash = t, ![k].sealed = IF sealed THEN t ELSE NoToken]
               /\ given' = given \cup {t}
          ELSE UNCHANGED <<clients, given>>
       /\ Answers(r)
       /\ UNCHANGED <<links, capacity, made, asked, deaths>>

\* A call fails and is caught, or the Worker dies: then the link it created stays, and so may a
\* client whose URL nobody got.
RequestDies(r, caught) ==
    /\ ~In(r, "idle") /\ deaths < MaxLinkDeaths /\ deaths' = deaths + 1
    /\ IF caught /\ requests[r].own /\ requests[r].pc \in {"insert", "compare"} THEN Does(r, "cleanup") ELSE Answers(r)
    /\ UNCHANGED <<links, capacity, clients, made, given, asked>>

-----------------------------------------------------------------------------
\* A customer with one link and its URL, or a new one.
LinkInit ==
    /\ \E n \in {0, 1} :
           /\ links = [l \in Links |-> IF l <= n THEN "active" ELSE "none"] /\ capacity = [l \in Links |-> IF l <= n THEN 1 ELSE 0]
           /\ \E key \in LinkCallers : clients = [k \in 1..n |-> [link |-> 1, active |-> TRUE, hash |-> 1, sealed |-> NoToken, key |-> key]]
           /\ made = 1 /\ given = 1..n
    /\ asked = FALSE
    /\ requests = [r \in LinkCallers |-> NoRequest] /\ deaths = 0

LinkRequest(r) ==
    \/ CreateLink(r, 1)
    \/ \E l \in Links : CreateClient(r, l)
    \/ \E old \in Links \cup {0} : StartLink(r, old)
    \/ \E key \in LinkCallers : create_vpn_link_client(r, key)
    \/ Compare(r) \/ Cleanup(r) \/ RetireOld(r)
    \/ \E done \in BOOLEAN : RequestDies(r, done) \/ StoreAccessLink(r, done) \/ ReplaceAccessLink(r, done)
    \/ \E k \in Token : AskReplace(r, k)

LinkNext ==
    \/ \E r \in LinkCallers : LinkRequest(r)
    \/ \E l \in Links : RevokeLink(l) \/ \E n \in 1..2 : update_vpn_link(l, n)
    \/ \E k \in Token : revoke_external_vpn_device(k)

LinkSpec == LinkInit /\ [][LinkNext]_linkVars

-----------------------------------------------------------------------------
(* Properties *)

Idle == \A r \in LinkCallers : In(r, "idle")

\* "A failed attempt never costs the user a working link" (moveLinkToRoute): without a revocation that
\* the customer asked for, whoever had a working URL still has one, whatever races and dies.
WorkingLinkKept == [][~asked' /\ Working # {} => Working' # {}]_linkVars

\* Once every request has answered, and none died: the owner holds the current URL of every client,
\* and can copy that one or none, however creations, replays and replacements interleaved.
AccessNotLost ==
    (Idle /\ deaths = 0) => \A k \in Active : clients[k].hash \in given /\ clients[k].sealed \in {NoToken, clients[k].hash}

\* A customer who had a working URL keeps one, and holds the current one.
LinksKeepWorking == []AccessNotLost /\ WorkingLinkKept
=============================================================================
