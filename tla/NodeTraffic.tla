------------------------------ MODULE NodeTraffic ------------------------------
(***************************************************************************)
(* The traffic of a node: its agent samples the proxy's cumulative         *)
(* counters, record_node_traffic turns each sample into the difference     *)
(* from the one before and adds it to the day.  Samples may be lost, sent  *)
(* again and, unless InOrder, arrive late; the proxy restarts with its     *)
(* counters at zero; retention forgets old samples.                        *)
(***************************************************************************)
EXTENDS Integers, FiniteSets

CONSTANTS
    MaxBytes,      \* bound: traffic in each direction
    MaxTime,       \* bound: the node's clock
    DayLength,     \* clock ticks in a day
    MaxRestarts,   \* bound: restarts of the proxy
    InOrder,       \* samples are recorded in the order they were taken
    SteadyClock    \* the node's clock is never set back

Directions == {"up", "down"}
None == [at |-> -1, bytes |-> [d \in Directions |-> 0]]
Broken == [None EXCEPT !.at = -2]

ASSUME TrafficParameters ==
    /\ {MaxBytes, MaxTime, MaxRestarts} \subseteq Nat /\ DayLength \in Nat \ {0}
    /\ InOrder \in BOOLEAN /\ SteadyClock \in BOOLEAN

VARIABLES
    clock,      \* of the node
    total,      \* [Directions -> ...]: bytes that passed through the node
    counters,   \* ... as the proxy counts them since it started
    reports,    \* samples on their way
    samples,    \* node_traffic_samples
    daily,      \* [day -> [Directions -> ...]]: node_traffic_daily
    restarts,
    baseline,   \* the first sample, Broken once a restart or retention came between it and the last
    sent        \* when the agent sampled last

trafficVars == <<clock, total, counters, reports, samples, daily, restarts, baseline, sent>>

Bytes == [Directions -> 0..MaxBytes]
Sample == [at : 0..MaxTime, bytes : Bytes]
Day(t) == t \div DayLength
NoBytes == [d \in Directions |-> 0]

TrafficTypeOK ==
    /\ clock \in 0..MaxTime /\ total \in Bytes /\ counters \in Bytes
    /\ reports \subseteq Sample /\ samples \subseteq Sample
    /\ daily \in [0..Day(MaxTime) -> [Directions -> Nat]]
    /\ restarts \in 0..MaxRestarts /\ baseline \in Sample \cup {None, Broken} /\ sent \in -1..MaxTime

-----------------------------------------------------------------------------
(* The node *)

Passes(d) ==
    /\ total[d] < MaxBytes
    /\ total' = [total EXCEPT ![d] = @ + 1] /\ counters' = [counters EXCEPT ![d] = @ + 1]
    /\ UNCHANGED <<clock, reports, samples, daily, restarts, baseline, sent>>
Restarts ==
    /\ restarts < MaxRestarts /\ restarts' = restarts + 1
    /\ counters' = NoBytes /\ baseline' = Broken
    /\ UNCHANGED <<clock, total, reports, samples, daily, sent>>
\* Unless SteadyClock it may also be set back, and the agent goes on from there.
ClockMoves ==
    /\ clock' \in {clock + 1} \cup (IF SteadyClock THEN {} ELSE {clock - 1})
    /\ clock' \in 0..MaxTime
    /\ sent' = IF clock' < clock THEN clock' - 1 ELSE sent
    /\ UNCHANGED <<total, counters, reports, samples, daily, restarts, baseline>>
TakeSample ==
    /\ sent < clock /\ sent' = clock
    /\ reports' = reports \cup {[at |-> clock, bytes |-> counters]}
    /\ UNCHANGED <<clock, total, counters, samples, daily, restarts, baseline>>
IsLost(r) ==
    /\ reports' = reports \ {r}
    /\ UNCHANGED <<clock, total, counters, samples, daily, restarts, baseline, sent>>

-----------------------------------------------------------------------------
(* record_node_traffic, one transaction under the node's row lock *)

Latest == IF samples = {} THEN None ELSE CHOOSE s \in samples : \A t \in samples : t.at <= s.at

\* As if the first sample were counted in full.
Delta_FirstCounts(prev, bytes) ==
    IF prev = None \/ \E d \in Directions : bytes[d] < prev.bytes[d] THEN bytes
    ELSE [d \in Directions |-> bytes[d] - prev.bytes[d]]
\* A first sample claims nothing; one that went down in either direction counts in full.
Delta(prev, bytes) ==
    IF prev = None THEN NoBytes
    ELSE IF \E d \in Directions : bytes[d] < prev.bytes[d] THEN bytes
    ELSE [d \in Directions |-> bytes[d] - prev.bytes[d]]

\* The report is retried (again) when its answer did not reach the agent.
record_node_traffic(r, again) ==
    /\ InOrder => \A s \in samples : s.at <= r.at
    /\ samples' = samples \cup {r}
    /\ daily' = [daily EXCEPT ![Day(r.at)] = [d \in Directions |-> @[d] + Delta(Latest, r.bytes)[d]]]
    /\ baseline' = IF baseline = None THEN r ELSE baseline
    /\ reports' = IF again THEN reports ELSE reports \ {r}
    /\ UNCHANGED <<clock, total, counters, restarts, sent>>

\* pruneNodeTrafficSamples; a node that was silent for the whole window loses its last sample too.
\* The window is days: what is on its way is newer.
pruneNodeTrafficSamples(cutoff) ==
    /\ \E s \in samples : s.at < cutoff
    /\ \A r \in reports : r.at >= cutoff
    /\ samples' = {s \in samples : s.at >= cutoff}
    /\ baseline' = IF samples' = {} THEN Broken ELSE baseline
    /\ UNCHANGED <<clock, total, counters, reports, daily, restarts, sent>>

-----------------------------------------------------------------------------
TrafficInit ==
    /\ clock = 0 /\ total = NoBytes /\ counters = NoBytes /\ reports = {} /\ samples = {}
    /\ daily = [n \in 0..Day(MaxTime) |-> NoBytes]
    /\ restarts = 0 /\ baseline = None /\ sent = -1

TrafficNext ==
    \/ \E d \in Directions : Passes(d)
    \/ Restarts \/ ClockMoves \/ TakeSample
    \/ \E r \in reports : IsLost(r) \/ \E again \in BOOLEAN : record_node_traffic(r, again)
    \/ \E cutoff \in 1..clock : pruneNodeTrafficSamples(cutoff)

TrafficSpec == TrafficInit /\ [][TrafficNext]_trafficVars

-----------------------------------------------------------------------------
(* Properties *)

\* What the days have, byte by byte, and how much that is.
CountedBytes(d) == UNION {{day} \X (1..daily[day][d]) : day \in DOMAIN daily}
Counted(d) == Cardinality(CountedBytes(d))

\* The days never add up to more than passed through the node, whatever is lost, sent again, restarted or
\* forgotten; and as long as nothing was restarted or forgotten they are the whole difference between the first
\* and the last sample: a lost report costs resolution, never bytes.  (record_node_traffic, node_traffic_daily;
\* reports in order, a steady clock.)
TrafficIsTruthful ==
    \A d \in Directions :
        /\ Counted(d) <= total[d]
        /\ baseline \notin {None, Broken} => Counted(d) = Latest.bytes[d] - baseline.bytes[d]
=============================================================================
