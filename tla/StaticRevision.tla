------------------------------ MODULE StaticRevision ------------------------------
(***************************************************************************)
(* The check of a revision's document before it may become a node's        *)
(* desired state (api/admin/nodes/[id]/revisions.js, static-revision.js,   *)
(* dynamic-revision.js).  What the node does with an accepted one is       *)
(* NodeRevisions.                                                          *)
(*                                                                         *)
(* A resolver is what is written, a text split at its colons and dots, and *)
(* the address that it means; the check sees the text alone.               *)
(***************************************************************************)
EXTENDS Integers, Sequences

CONSTANTS
    Documents,                 \* the documents that are posted
    MAX_RESOLVERS_PER_FAMILY

VARIABLES document, verdict
documentVars == <<document, verdict>>

NoAddress == <<>>
NaN == -1           \* an octet or group that is no number
Null == -1          \* JSON null, where a number is expected
NotInteger == -2

ALLOWED_FIELDS == [reality |-> {"handshake_server"}, hysteria2 |-> {"up_mbps", "down_mbps"},
                   udp_probe |-> {"ipv4_resolvers", "ipv6_resolvers", "retries", "timeout_ms", "delay_ms"}]

\* keys: at the top.  sections: static_config.  users: the snapshot's users are all objects.
NoDocument == [keys |-> {}, schema |-> NotInteger, sections |-> <<>>, users |-> FALSE]

-----------------------------------------------------------------------------
(* Addresses *)

\* A dotted quad as it is written, or NoAddress.
parseIpv4(parts) == IF Len(parts) = 4 /\ \A i \in 1..4 : parts[i] \in 0..255 THEN parts ELSE NoAddress

publicIpv4(o) ==
    ~ \/ o[1] \in {0, 10, 127} \/ o[1] >= 224
      \/ o[1] = 172 /\ o[2] >= 16 /\ o[2] <= 31
      \/ o[1] = 192 /\ o[2] = 168
      \/ o[1] = 169 /\ o[2] = 254
      \/ o[1] = 100 /\ o[2] >= 64 /\ o[2] <= 127
      \/ o[1] = 198 /\ o[2] \in {18, 19}
      \/ <<o[1], o[2], o[3]>> \in {<<192, 0, 2>>, <<198, 51, 100>>, <<203, 0, 113>>}

Tail4(quad) == IF quad = <<>> THEN <<>> ELSE <<quad[1] * 256 + quad[2], quad[3] * 256 + quad[4]>>

\* As if "::" might stand for no group.
parseIpv6_EmptyGap(t) ==
    LET groups == t.left \o t.right
        known == Len(groups) + Len(Tail4(t.quad))
    IN IF (t.quad # <<>> /\ parseIpv4(t.quad) = NoAddress) \/ \E i \in DOMAIN groups : groups[i] = NaN THEN NoAddress
       ELSE IF t.gap
       THEN IF known > 8 THEN NoAddress ELSE t.left \o [i \in 1..(8 - known) |-> 0] \o t.right \o Tail4(t.quad)
       ELSE IF known = 8 THEN groups \o Tail4(t.quad) ELSE NoAddress
\* left and right of "::", when there is one (gap), and a dotted quad at the end.
parseIpv6(t) ==
    LET groups == t.left \o t.right
        known == Len(groups) + Len(Tail4(t.quad))
    IN IF (t.quad # <<>> /\ parseIpv4(t.quad) = NoAddress) \/ \E i \in DOMAIN groups : groups[i] = NaN THEN NoAddress
       ELSE IF t.gap
       THEN IF known > 7 THEN NoAddress ELSE t.left \o [i \in 1..(8 - known) |-> 0] \o t.right \o Tail4(t.quad)
       ELSE IF known = 8 THEN groups \o Tail4(t.quad) ELSE NoAddress

publicIpv6(h) ==
    IF (\A i \in 1..5 : h[i] = 0) /\ h[6] = 65535
    THEN publicIpv4(<<h[7] \div 256, h[7] % 256, h[8] \div 256, h[8] % 256>>)
    ELSE ~ \/ (\A i \in 1..7 : h[i] = 0) /\ h[8] \in {0, 1}
           \/ h[1] \div 256 = 255       \* ff00::/8
           \/ h[1] \div 512 = 126       \* fc00::/7
           \/ h[1] \div 64 = 1018       \* fe80::/10
           \/ h[1] = 8193 /\ h[2] = 3512

\* One resolver is [text, family, means]; a list of them is refused as a whole.
Parsed(r) == IF r.family = "ipv4" THEN parseIpv4(r.text.quad) ELSE parseIpv6(r.text)
resolvers(v, family) ==
    /\ Len(v) <= MAX_RESOLVERS_PER_FAMILY /\ (family = "ipv4" => v # <<>>)
    /\ \A i \in DOMAIN v :
          /\ Parsed(v[i]) # NoAddress /\ v[i].family = family
          /\ IF family = "ipv4" THEN publicIpv4(Parsed(v[i])) ELSE publicIpv6(Parsed(v[i]))
          /\ \A j \in 1..(i - 1) : Parsed(v[j]) # Parsed(v[i])

-----------------------------------------------------------------------------
(* Documents *)

bounded(v, min, max) == v # NotInteger /\ v \in min..max

isStaticRevisionConfig(doc) == doc.keys \cap {"revision_schema", "static_config"} # {}

validateStaticRevisionConfig(doc) ==
    LET sc == doc.sections
        Has(section, field) == section \in DOMAIN sc /\ field \in DOMAIN sc[section]
    IN /\ doc.keys = {"revision_schema", "static_config"} /\ doc.schema = 1
       /\ DOMAIN sc # {}
       /\ \A section \in DOMAIN sc :
             /\ section \in DOMAIN ALLOWED_FIELDS /\ DOMAIN sc[section] # {}
             /\ DOMAIN sc[section] \subseteq ALLOWED_FIELDS[section]
       /\ Has("reality", "handshake_server") => sc.reality.handshake_server = "public name"
       /\ "hysteria2" \in DOMAIN sc =>
             /\ DOMAIN sc.hysteria2 = {"up_mbps", "down_mbps"}
             /\ \/ sc.hysteria2.up_mbps = Null /\ sc.hysteria2.down_mbps = Null
                \/ bounded(sc.hysteria2.up_mbps, 1, 100000) /\ bounded(sc.hysteria2.down_mbps, 1, 100000)
       /\ Has("udp_probe", "ipv4_resolvers") => resolvers(sc.udp_probe.ipv4_resolvers, "ipv4")
       /\ Has("udp_probe", "ipv6_resolvers") => resolvers(sc.udp_probe.ipv6_resolvers, "ipv6")
       /\ Has("udp_probe", "retries") => bounded(sc.udp_probe.retries, 1, 10)
       /\ Has("udp_probe", "timeout_ms") => bounded(sc.udp_probe.timeout_ms, 100, 30000)
       /\ Has("udp_probe", "delay_ms") => bounded(sc.udp_probe.delay_ms, 0, 10000)

\* A users snapshot, for a document that is not static.
validateDynamicRevisionConfig(doc) ==
    /\ "users" \in doc.keys /\ doc.users
    /\ "schema_version" \in doc.keys => doc.schema >= 0

Post(doc) ==
    /\ verdict = "none" /\ document' = doc
    /\ verdict' = IF IF isStaticRevisionConfig(doc) THEN validateStaticRevisionConfig(doc) ELSE validateDynamicRevisionConfig(doc)
                  THEN "stored" ELSE "refused"

DocumentInit == document = NoDocument /\ verdict = "none"
DocumentNext == verdict = "none" /\ \E doc \in Documents : Post(doc)
DocumentSpec == DocumentInit /\ [][DocumentNext]_documentVars

-----------------------------------------------------------------------------
(* Properties *)

DocumentTypeOK == verdict \in {"none", "stored", "refused"} /\ document.users \in BOOLEAN

\* The blocks of addresses that are not public unicast, each with its length; of an IPv4 address the
\* first three octets tell.
Blocks4 == {<<<<0, 0, 0>>, 8>>, <<<<10, 0, 0>>, 8>>, <<<<127, 0, 0>>, 8>>, <<<<224, 0, 0>>, 3>>, <<<<172, 16, 0>>, 12>>,
            <<<<192, 168, 0>>, 16>>, <<<<169, 254, 0>>, 16>>, <<<<100, 64, 0>>, 10>>, <<<<198, 18, 0>>, 15>>,
            <<<<192, 0, 2>>, 24>>, <<<<198, 51, 100>>, 24>>, <<<<203, 0, 113>>, 24>>}
Number(o) == (o[1] * 256 + o[2]) * 256 + o[3]
Reserved4(a) == \E b \in Blocks4 : LET size == 2 ^ (24 - b[2]) IN Number(a) \div size = Number(b[1]) \div size
Blocks6 == {<<65280, 8>>, <<64512, 7>>, <<65152, 10>>}
Zeros(a, n) == \A i \in 1..n : a[i] = 0
Reserved6(a) ==
    \/ \E b \in Blocks6 : LET size == 2 ^ (16 - b[2]) IN a[1] \div size = b[1] \div size
    \/ a[1] = 8193 /\ a[2] = 3512
    \/ Zeros(a, 8) \/ (Zeros(a, 7) /\ a[8] = 1)
    \/ Zeros(a, 5) /\ a[6] = 65535 /\ Reserved4(<<a[7] \div 256, a[7] % 256, a[8] \div 256>>)
PublicUnicast(r) == r.means # NoAddress /\ IF r.family = "ipv4" THEN ~Reserved4(r.means) ELSE ~Reserved6(r.means)

\* However its addresses are written (groups left out or not, the end as a quad or not, at the edges of
\* the reserved blocks), a list of resolvers is stored exactly when each is a public unicast address of its
\* family and no address is there twice; so "an invalid revision is refused at creation time instead
\* of becoming desired state that can never converge" (static-revision.js).
ResolversAreJudgedByMeaning ==
    (verdict # "none" /\ DOMAIN document.sections = {"udp_probe"} /\ document.schema = 1) =>
        \A field \in DOMAIN document.sections.udp_probe \ {"retries"} :
            LET v == document.sections.udp_probe[field]
                fine == /\ Len(v) <= MAX_RESOLVERS_PER_FAMILY /\ (field = "ipv4_resolvers" => v # <<>>)
                        /\ \A i \in DOMAIN v : /\ PublicUnicast(v[i]) /\ field = (v[i].family \o "_resolvers")
                                               /\ \A j \in DOMAIN v : v[i].means = v[j].means => i = j
            IN (verdict = "stored") = fine
=============================================================================
