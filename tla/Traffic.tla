------------------------------ MODULE Traffic ------------------------------
(***************************************************************************)
(* NetworkActivity (system/src/lib.rs): rates and charts of the interfaces *)
(* of a snapshot and their total, over the interfaces of the default       *)
(* routes or over all when there is no default route.  The cockpit chooses *)
(* the scope of the total with every counter sample, the network view with *)
(* every inventory; the counters come from a snapshot that a sample has    *)
(* been laid over.  What the counters themselves do is in Rates: here each *)
(* reading is whatever the host may say.  One counter stands for the two   *)
(* directions, which are sampled, reset and summed alike.                  *)
(***************************************************************************)
EXTENDS Integers, Sequences, Functions

CONSTANTS
  Links,        \* names of interfaces
  Loopbacks,    \* the sets of them that may be loopback interfaces
  Routings,     \* those that default routes may lead through
  LongestGap,   \* the time without a sample after which nothing is rated
  ChartWidth,   \* capacity of a chart
  Tallies      \* what may be listed: interfaces with their counters

TrafficAssumption ==
  /\ Loopbacks \subseteq SUBSET Links /\ Routings \subseteq SUBSET Links
  /\ LongestGap \in Nat \ {0} /\ ChartWidth \in Nat \ {0}
  /\ \A r \in Tallies : \E S \in SUBSET Links : r \in [S -> Nat]

VARIABLES
  feeder,       \* "cockpit" or "net": the loop that owns it
  loopback,     \* lo, lo0...: the links that no total counts
  listed,       \* the interfaces of the snapshot with their counters
  uplinks,      \* the interfaces of its default routes
  scope,        \* {} for all links
  before,       \* the counters of the previous sample
  rates, charts,  \* of the interfaces that were rated last
  total,        \* chart of the total: columns with the scope they were counted in
  since         \* time since the previous sample, or Never

vars == <<feeder, loopback, listed, uplinks, scope, before, rates, charts, total, since>>

Never == -1

Newest(s) == s[Len(s)]
Push(s, column) == Append(IF Len(s) = ChartWidth THEN Tail(s) ELSE s, column)

-----------------------------------------------------------------------------
\* set_scope: another scope begins another total.
Cleared(chosen) == IF chosen = scope THEN total ELSE <<>>

\* The links that have a rate: those that were sampled before, did not start again since and
\* were sampled soon enough.
Rated(counts) ==
  {l \in DOMAIN counts \cap DOMAIN before : counts[l] >= before[l] /\ since <= LongestGap}

RatesOf(counts) == [l \in Rated(counts) |-> (counts[l] - before[l]) \div since]

\* A link that loses its rate or is gone loses its chart.
Charted(counts) ==
  {l \in DOMAIN charts \cap DOMAIN counts : l \notin DOMAIN before} \cup Rated(counts)

ChartsOf(counts) ==
  [l \in Charted(counts) |->
     LET drawn == IF l \in DOMAIN charts THEN charts[l] ELSE <<>>
     IN IF l \in Rated(counts) THEN Push(drawn, RatesOf(counts)[l]) ELSE drawn]

\* The links that the total of a scope counts, and their sum.
Counted(rate, chosen) == {l \in DOMAIN rate \ loopback : chosen = {} \/ l \in chosen}
SumOf(values) == FoldFunction(+, 0, values)
Sum(rate, chosen) == SumOf([l \in Counted(rate, chosen) |-> rate[l]])

TotalOf(rate, chosen) ==
  IF Counted(rate, chosen) = {} THEN <<>>
  ELSE Push(Cleared(chosen), [scope |-> chosen, sum |-> Sum(rate, chosen)])

\* observe, with the scope that is set: the first sample is only kept, one that comes too
\* soon is ignored.
Observe(counts, chosen) ==
  IF since > 0
    THEN /\ rates' = RatesOf(counts) /\ charts' = ChartsOf(counts)
         /\ total' = TotalOf(RatesOf(counts), chosen)
         /\ before' = counts /\ since' = 0
    ELSE /\ before' = (IF since = Never THEN counts ELSE before) /\ since' = 0
         /\ total' = Cleared(chosen) /\ UNCHANGED <<rates, charts>>

-----------------------------------------------------------------------------
Tick ==
  /\ since \in 0..LongestGap /\ since' = since + 1
  /\ UNCHANGED <<feeder, loopback, listed, uplinks, scope, before, rates, charts, total>>

\* An inventory replaces the snapshot.  In the network view it sets the scope and may be the
\* first sample.
ShowInventory ==
  \E counts \in Tallies, routed \in Routings :
    /\ listed' = counts /\ uplinks' = routed
    /\ IF feeder = "cockpit" THEN UNCHANGED <<scope, before, rates, charts, total, since>>
       ELSE /\ scope' = routed
            /\ IF since = Never THEN Observe(counts, routed)
               ELSE total' = Cleared(routed) /\ UNCHANGED <<before, rates, charts, since>>
    /\ UNCHANGED <<feeder, loopback>>

\* A counter sample is laid over the interfaces of the snapshot.
Overlaid(sample) == [l \in DOMAIN listed |-> IF l \in DOMAIN sample THEN sample[l] ELSE listed[l]]

ShowSample ==
  \E sample \in Tallies :
    /\ feeder = "net" => since # Never
    /\ listed' = Overlaid(sample)
    /\ scope' = (IF feeder = "cockpit" THEN uplinks ELSE scope)
    /\ Observe(Overlaid(sample), scope')
    /\ UNCHANGED <<feeder, loopback, uplinks>>

\* r, a search, an action that was dismissed: the network view starts over.
StartOver ==
  /\ feeder = "net"
  /\ listed' = <<>> /\ uplinks' = {} /\ scope' = {} /\ before' = <<>>
  /\ rates' = <<>> /\ charts' = <<>> /\ total' = <<>> /\ since' = Never
  /\ UNCHANGED <<feeder, loopback>>

Init ==
  /\ feeder \in {"cockpit", "net"} /\ loopback \in Loopbacks
  /\ listed = <<>> /\ uplinks = {} /\ scope = {} /\ before = <<>>
  /\ rates = <<>> /\ charts = <<>> /\ total = <<>> /\ since = Never

Next == Tick \/ ShowInventory \/ ShowSample \/ StartOver

Spec == Init /\ [][Next]_vars

-----------------------------------------------------------------------------
\* The total that is shown is the sum of the rates that are shown, of the links in the scope
\* that is named beside it, and there is none without such a rate.
TotalIsTheSum ==
  total # <<>> => /\ Counted(rates, scope) # {}
                  /\ Newest(total).sum = Sum(rates, scope)

\* The chart of the total has no column from before the default routes changed.
OneScope == \A c \in Range(total) : c.scope = scope

\* A link has a chart as long as it has a rate, and the chart ends with that rate.
ChartsAreOfRates ==
  DOMAIN charts = DOMAIN rates /\ \A l \in DOMAIN charts : Newest(charts[l]) = rates[l]

\* docs/OPERATIONS_GUIDE.md: missing samples do not become zero-throughput observations.
\* A total has the rates of all the links it is the total of.
TotalIsWhole == total # <<>> => Counted(before, scope) \subseteq DOMAIN rates
=============================================================================
