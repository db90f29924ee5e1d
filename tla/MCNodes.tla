-------------------------------- MODULE MCNodes --------------------------------
(***************************************************************************)
(* An instance for TLC of the modules about what a node's agent is told    *)
(* and tells, the placement of devices, and Telegram linking.  They share  *)
(* no state here: a behaviour is one of one of them, and the others rest.  *)
(***************************************************************************)
EXTENDS AuthorizationSnapshots, NodeRevisions, StaticRevision, Placement, AgentEvents, NodeTraffic,
        TelegramLinking, TLC

CONSTANTS a, b, d1, d2

VARIABLE active   \* the module that moves

\* Whatever can be in progress twice at once, and the devices, are interchangeable.
Symmetry == Permutations({a, b}) \cup Permutations({d1, d2})

-----------------------------------------------------------------------------
(* Placement *)

MCGroups == {<<"A", "EXIT">>, <<"B", "EXIT">>, <<"B", "RELAY">>}

-----------------------------------------------------------------------------
(* StaticRevision: addresses at the edges of the reserved blocks, in every way to write them *)

Addresses4 ==
    {<<8, 8, 8, 8>>, <<0, 0, 0, 1>>, <<1, 1, 1, 1>>, <<9, 255, 255, 255>>, <<10, 0, 0, 0>>, <<10, 255, 255, 255>>,
     <<11, 0, 0, 1>>, <<126, 1, 1, 1>>, <<127, 0, 0, 1>>, <<128, 0, 0, 1>>, <<172, 15, 255, 1>>, <<172, 16, 0, 0>>,
     <<172, 31, 255, 255>>, <<172, 32, 0, 0>>, <<100, 63, 1, 1>>, <<100, 64, 0, 1>>, <<100, 127, 255, 255>>,
     <<100, 128, 0, 0>>, <<198, 17, 255, 255>>, <<198, 18, 0, 0>>, <<198, 19, 255, 255>>, <<198, 20, 0, 0>>,
     <<192, 0, 1, 9>>, <<192, 0, 2, 9>>, <<192, 0, 3, 9>>, <<192, 168, 0, 1>>, <<192, 169, 0, 1>>, <<169, 254, 1, 1>>,
     <<169, 255, 1, 1>>, <<198, 51, 100, 1>>, <<203, 0, 113, 1>>, <<223, 255, 255, 255>>, <<224, 0, 0, 1>>,
     <<255, 255, 255, 255>>}
Mapped(q) == <<0, 0, 0, 0, 0, 65535, q[1] * 256 + q[2], q[3] * 256 + q[4]>>
Addresses6 ==
    {Mapped(q) : q \in {<<8, 8, 8, 8>>, <<10, 0, 0, 0>>, <<127, 0, 0, 1>>, <<172, 32, 0, 0>>, <<0, 0, 0, 0>>}}
    \cup {<<0, 0, 0, 0, 0, 0, 0, n>> : n \in 0..2}
    \cup {<<n, 0, 0, 0, 0, 0, 0, 1>> : n \in {65279, 65280, 65535, 64511, 65151, 65152, 65215, 65216}}
    \cup {<<9734, 18176, 0, 0, 0, 0, 0, 1>>, <<9734, 0, 1, 0, 0, 0, 0, 0>>, <<9734, 1, 2, 3, 4, 5, 6, 7>>,
          <<64512, 0, 0, 0, 0, 0, 0, 0>>, <<65023, 1, 0, 0, 0, 0, 0, 0>>, <<65024, 1, 0, 0, 0, 0, 0, 0>>,
          <<8193, 3512, 0, 0, 0, 0, 0, 1>>, <<8193, 3513, 0, 0, 0, 0, 0, 1>>}

Quad(q, means) ==
    [text |-> [left |-> <<>>, gap |-> FALSE, right |-> <<>>, quad |-> q], family |-> "ipv4", means |-> means]
Colons(left, gap, right, quad, means) ==
    [text |-> [left |-> left, gap |-> gap, right |-> right, quad |-> quad], family |-> "ipv6", means |-> means]
\* The first e groups of h, any run of zeros of them left out; or all of them; or one too few.
Spelt(h, e, quad) ==
    {Colons(SubSeq(h, 1, r[1]), TRUE, SubSeq(h, r[2] + 1, e), quad, IF r[1] = r[2] THEN NoAddress ELSE h) :
        r \in {p \in (0..e) \X (0..e) : p[1] <= p[2] /\ \A k \in (p[1] + 1)..p[2] : h[k] = 0}}
    \cup {Colons(SubSeq(h, 1, e), FALSE, <<>>, quad, h), Colons(SubSeq(h, 2, e), FALSE, <<>>, quad, NoAddress)}
WithQuad(h) == Spelt(h, 6, <<h[7] \div 256, h[7] % 256, h[8] \div 256, h[8] % 256>>)

Literals ==
    {Quad(q, q) : q \in Addresses4} \cup {Quad(q, NoAddress) : q \in {<<8, 8, 8>>, <<8, 8, 8, NaN>>, <<8, 8, 8, 256>>}}
    \cup UNION {Spelt(h, 8, <<>>) \cup WithQuad(h) : h \in Addresses6}
Few ==
    LET h == Mapped(<<8, 8, 8, 8>>)
    IN {Quad(q, q) : q \in {<<8, 8, 8, 8>>, <<1, 1, 1, 1>>}}
       \cup {l \in Spelt(h, 8, <<>>) \cup WithQuad(h) : l.text.left = <<>> \/ ~l.text.gap}
Lists == {<<>>} \cup {<<l>> : l \in Literals} \cup (Few \X Few) \cup {<<l, k, l>> : l \in Few, k \in Few}

Static(sections) ==
    [keys |-> {"revision_schema", "static_config"}, schema |-> 1, sections |-> sections, users |-> FALSE]
Mbps == {Null, NotInteger, 0, 1, 100000, 100001}
MCDocuments ==
    {Static([udp_probe |-> [ipv4_resolvers |-> v]]) : v \in Lists}
    \cup {Static([udp_probe |-> [ipv6_resolvers |-> v]]) : v \in Lists}
    \cup {Static([hysteria2 |-> [up_mbps |-> up, down_mbps |-> down]]) : up, down \in Mbps}
    \cup {Static([hysteria2 |-> [up_mbps |-> up]]) : up \in Mbps}
    \cup {Static([reality |-> [handshake_server |-> h], udp_probe |-> [retries |-> n, delay_ms |-> n]]) :
             h \in {"public name", "other"}, n \in {0, 1, 10, 11, NotInteger}}
    \cup {Static([node_id |-> [of |-> 1]]), Static(<<>>)}
    \cup {[keys |-> keys, schema |-> n, sections |-> <<>>, users |-> u] :
             keys \in SUBSET {"static_config", "users", "schema_version"}, n \in {NotInteger, 0, 1}, u \in BOOLEAN}

-----------------------------------------------------------------------------
NodesInit ==
    /\ SnapshotInit /\ RevisionInit /\ DocumentInit /\ PlacementInit /\ EventInit /\ TrafficInit
    /\ TelegramInit
    /\ active \in {"snapshots", "revisions", "document", "placement", "events", "traffic", "telegram"}

\* Of the parts, only the one that moves is not resting.
Resting(name, vars) == active # name => UNCHANGED vars

NodesNext ==
    /\ \/ active = "snapshots" /\ SnapshotNext
       \/ active = "revisions" /\ RevisionNext
       \/ active = "document" /\ DocumentNext
       \/ active = "placement" /\ PlacementNext
       \/ active = "events" /\ EventNext
       \/ active = "traffic" /\ TrafficNext
       \/ active = "telegram" /\ TelegramNext
    /\ Resting("snapshots", snapshotVars) /\ Resting("revisions", revisionVars)
    /\ Resting("document", documentVars)
    /\ Resting("placement", placementVars) /\ Resting("events", eventVars)
    /\ Resting("traffic", trafficVars) /\ Resting("telegram", telegramVars)
    /\ UNCHANGED active

NodesSpec ==
    NodesInit /\ [][NodesNext]_<<snapshotVars, revisionVars, documentVars, placementVars, eventVars,
                                 trafficVars, telegramVars, active>>

\* The state of the module that moves has its type.
NodesTypeOK ==
    CASE active = "snapshots" -> SnapshotTypeOK
      [] active = "revisions" -> RevisionTypeOK
      [] active = "document" -> DocumentTypeOK
      [] active = "placement" -> PlacementTypeOK
      [] active = "events" -> EventTypeOK
      [] active = "traffic" -> TrafficTypeOK
      [] active = "telegram" -> TelegramTypeOK
=============================================================================
