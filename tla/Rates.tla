------------------------------- MODULE Rates -------------------------------
(***************************************************************************)
(* How cumulative counters become rates and charts.  A counter belongs to  *)
(* an interface, a disk, a container or a process; it grows with what      *)
(* flows, starts again from zero in a new life (a restarted container, a   *)
(* replaced device, a reused PID) and may be unreadable for a while.  A    *)
(* sampling thread reads it; the loop of the view takes the reading later  *)
(* and measures the elapsed time itself.  Time is counted in units of at   *)
(* least 0.25 s.  "kind" says which of the five rate keepers is at work:   *)
(*   cockpit, net  NetworkActivity (system/src/lib.rs) fed by the live     *)
(*                 sampler, or by inventories and counter samples          *)
(*   disk          StorageActivity (system/src/storage_activity.rs)        *)
(*   container     ContainerMonitor (system/src/container_monitor.rs)      *)
(*   process       HistoryStore (history/src/lib.rs), lens-top             *)
(***************************************************************************)
EXTENDS Integers, Sequences

CONSTANTS
  Kinds,         \* the rate keepers to look at
  LongestGap,    \* the elapsed time after which no rate is computed (5 s, 30 s)
  Slack,         \* longest time between a reading and the poll that takes it
  InventoryTime, \* longest time between reading and delivering an inventory
  Launching,     \* the kinds whose view may open another, which keeps the loop from polling
  Lossy,         \* the kinds whose counter may be unreadable
  ChartWidth,    \* capacity of a chart, 2 or more
  MaxTime, MaxFlow, MaxLife   \* bounds: time, flow per unit of time, lives

RatesAssumption ==
  /\ Kinds \subseteq {"cockpit", "net", "disk", "container", "process"}
  /\ {LongestGap, Slack, InventoryTime, MaxTime, MaxFlow, MaxLife} \subseteq Nat
  /\ ChartWidth \in Nat \ {0, 1}
  /\ Launching \subseteq {"cockpit"} /\ Lossy \subseteq Kinds

VARIABLES
  kind, now,
  counter, life, flow,         \* the counter, its life, all that ever flowed
  pending, inventory,          \* readings on their way: sets of at most one
  held,                        \* the counter in the snapshot of a network view
  previous, last,              \* the previous sample; when it was taken over, or Never
  chart,                       \* the newest columns of the history
  away,                        \* the loop does not poll
  gapAt                        \* when the last gap was declared, for GapIsNotBridged

source == <<counter, life, flow>>
vars == <<kind, now, source, pending, inventory, held, previous, last, chart, away, gapAt>>

Never == -1
NoReading == [value |-> 0, life |-> 0, at |-> Never, flow |-> 0, ok |-> FALSE]
Reading == [value |-> counter, life |-> life, at |-> now, flow |-> flow, ok |-> TRUE]
GapColumn == [from |-> NoReading, to |-> NoReading, elapsed |-> 0, delta |-> 0]
Column(from, to, elapsed) ==
  [from |-> from, to |-> to, elapsed |-> elapsed, delta |-> to.value - from.value]

\* push_bounded
Push(columns, column) ==
  Append(IF Len(columns) = ChartWidth THEN Tail(columns) ELSE columns, column)

Elapsed == now - last

-----------------------------------------------------------------------------
\* NetworkActivity::observe, for one interface (Traffic has several and their total).

NetworkRate(to) ==
  IF ~to.ok THEN <<>>
  ELSE IF ~previous.ok THEN chart
  ELSE IF to.value < previous.value \/ Elapsed > LongestGap THEN <<>>
  ELSE Push(chart, Column(previous, to, Elapsed))

NetworkObserve(to) ==
  IF last = Never THEN previous' = to /\ last' = now /\ UNCHANGED chart
  ELSE IF Elapsed < 1 THEN UNCHANGED <<previous, last, chart>>
  ELSE previous' = to /\ last' = now /\ chart' = NetworkRate(to)

\* StorageActivity::observe: the device must be the same one.

DiskRate(to) ==
  IF ~to.ok THEN <<>>
  ELSE IF last = Never \/ Elapsed = 0 THEN chart
  ELSE IF ~previous.ok \/ previous.life # to.life \/ to.value < previous.value THEN <<>>
  ELSE Push(chart, Column(previous, to, Elapsed))

\* ContainerMonitor::observe: a column for every sample, empty when there is no rate.
ContainerColumn(to) ==
  IF /\ to.ok /\ previous.ok
     /\ 1 <= Elapsed /\ Elapsed <= LongestGap
     /\ to.value >= previous.value
  THEN Column(previous, to, Elapsed)
  ELSE GapColumn

\* HistoryStore::apply: a counter decrease is saturated to zero; the identity is the PID
\* with its start time.
ProcessColumn(to) ==
  LET column == Column(previous, to, Elapsed)
  IN [column EXCEPT !.delta = IF @ < 0 THEN 0 ELSE @]

\* The chart of the identity on the screen; a process seen for the first time has no rate.
ProcessChart(to) ==
  LET known == last # Never /\ previous.ok /\ previous.life = to.life
  IN IF ~to.ok THEN <<>>
     ELSE IF known THEN Push(chart, ProcessColumn(to)) ELSE <<GapColumn>>

-----------------------------------------------------------------------------
\* The source.

Tick ==
  /\ now < MaxTime
  /\ away \/ \A p \in pending : now - p.at < Slack
  /\ away \/ \A i \in inventory : now - i.at < InventoryTime
  /\ now' = now + 1
  /\ \E f \in 0..MaxFlow : flow' = flow + f /\ counter' = counter + f
  /\ UNCHANGED <<kind, life, pending, inventory, held, previous, last, chart, away, gapAt>>

NewLife ==
  /\ life < MaxLife
  /\ life' = life + 1 /\ counter' = 0
  /\ UNCHANGED <<kind, now, flow, pending, inventory, held, previous, last, chart, away, gapAt>>

\* What a thread may read: a counter may be missing, at one reading and not at the next.
Readings ==
  {Reading} \cup (IF kind \in Lossy THEN {[NoReading EXCEPT !.at = now]} ELSE {})

\* The threads: a counter sample, an inventory.
TakeSample ==
  /\ kind # "process" /\ ~away /\ pending = {} /\ (last = Never \/ Elapsed >= 1)
  /\ kind = "net" => held.at # Never
  /\ \E r \in Readings : pending' = {r}
  /\ UNCHANGED <<kind, now, source, inventory, held, previous, last, chart, away, gapAt>>

CollectInventory ==
  /\ kind \in {"cockpit", "net"} /\ ~away /\ inventory = {}
  /\ \E r \in Readings : inventory' = {r}
  /\ UNCHANGED <<kind, now, source, pending, held, previous, last, chart, away, gapAt>>

-----------------------------------------------------------------------------
\* The loop.

\* The counters of a sample go into the snapshot, for the interfaces that both have; the
\* others keep the counters of before.
Overlaid(sample) == IF sample.ok /\ held.ok THEN sample ELSE held

ObserveNetwork ==
  \E sample \in pending :
    /\ kind \in {"cockpit", "net"} /\ ~away
    /\ held' = Overlaid(sample)
    /\ NetworkObserve(Overlaid(sample))
    /\ pending' = {}
    /\ UNCHANGED <<kind, now, source, inventory, away, gapAt>>

\* An inventory replaces the snapshot; in the network view it is also the first sample.
ShowInventory ==
  \E i \in inventory :
    /\ ~away
    /\ held' = i
    /\ IF kind = "net" /\ last = Never THEN NetworkObserve(i)
       ELSE UNCHANGED <<previous, last, chart>>
    /\ inventory' = {}
    /\ UNCHANGED <<kind, now, source, pending, away, gapAt>>

\* r, a search, an action that was dismissed: the network view starts over.
StartOver ==
  /\ kind = "net" /\ ~away /\ held.at # Never
  /\ held' = NoReading /\ previous' = NoReading /\ last' = Never /\ chart' = <<>>
  /\ pending' = {} /\ inventory' = {}
  /\ UNCHANGED <<kind, now, source, away, gapAt>>

ObserveDisk ==
  \E sample \in pending :
    /\ kind = "disk" /\ ~away
    /\ chart' = DiskRate(sample) /\ previous' = sample /\ last' = now
    /\ pending' = {}
    /\ UNCHANGED <<kind, now, source, inventory, held, away, gapAt>>

ObserveContainer ==
  \E sample \in pending :
    /\ kind = "container" /\ ~away
    /\ chart' = Push(chart, ContainerColumn(sample))
    /\ previous' = (IF sample.ok THEN sample ELSE NoReading) /\ last' = now
    /\ pending' = {}
    /\ UNCHANGED <<kind, now, source, inventory, held, away, gapAt>>

\* lens-top reads and measures in one step of its collector.
ObserveProcess ==
  \E r \in Readings :
    /\ kind = "process" /\ (last = Never \/ Elapsed >= 1)
    /\ chart' = ProcessChart(r) /\ previous' = r /\ last' = now
    /\ UNCHANGED <<kind, now, source, pending, inventory, held, away, gapAt>>

\* A fault: the reading before a gap is kept.
DeclareGapKeeping ==
  \E sample \in pending :
    /\ kind \in {"disk", "container"} /\ ~away
    /\ chart' = (IF kind = "disk" THEN <<>> ELSE Push(chart, GapColumn))
    /\ gapAt' = now /\ pending' = {}
    /\ UNCHANGED <<kind, now, source, inventory, held, previous, last, away>>

\* The sampler failed: StorageActivity::gap, ContainerMonitor::gap.
DeclareGap ==
  \E sample \in pending :
    /\ kind \in {"disk", "container"} /\ ~away
    /\ previous' = NoReading
    /\ last' = (IF kind = "disk" THEN Never ELSE last)
    /\ chart' = (IF kind = "disk" THEN <<>> ELSE Push(chart, GapColumn))
    /\ gapAt' = now /\ pending' = {}
    /\ UNCHANGED <<kind, now, source, inventory, held, away>>

\* launch, launch_search: samples wait until the user comes back.
GoAway ==
  /\ kind \in Launching /\ ~away /\ away' = TRUE
  /\ UNCHANGED <<kind, now, source, pending, inventory, held, previous, last, chart, gapAt>>

ComeBack ==
  /\ away /\ away' = FALSE
  /\ UNCHANGED <<kind, now, source, pending, inventory, held, previous, last, chart, gapAt>>

Init ==
  /\ kind \in Kinds /\ now = 0
  /\ counter = 0 /\ life = 1 /\ flow = 0
  /\ pending = {} /\ inventory = {} /\ held = NoReading
  /\ previous = NoReading /\ last = Never /\ chart = <<>>
  /\ away = FALSE /\ gapAt = Never

Next ==
  \/ Tick \/ NewLife \/ TakeSample \/ CollectInventory
  \/ ObserveNetwork \/ ShowInventory \/ ObserveDisk \/ ObserveContainer \/ ObserveProcess
  \/ StartOver \/ DeclareGap \/ GoAway \/ ComeBack

Spec == Init /\ [][Next]_vars

-----------------------------------------------------------------------------
Rated == {chart[i] : i \in DOMAIN chart} \ {GapColumn}

\* The readings of a column were taken one after the other.  Those of NetworkActivity need
\* not be: an inventory puts its counters over later ones, and a sample that lacks the
\* interface leaves them there to be read.
InTurn(c) == kind \in {"cockpit", "net"} => c.from.at < c.to.at

\* docs/OPERATIONS_GUIDE.md: resets do not become spikes.  Between two readings that were
\* taken in turn a column never counts more than has flowed, whatever restarted, was
\* replaced or went missing.
NeverOverstated ==
  \A c \in Rated : c.delta >= 0 /\ (InTurn(c) => c.delta <= c.to.flow - c.from.flow)

\* Neighbouring columns share a reading: a chart never skips one, where none is known it
\* starts again or has an empty column.
NoBridge ==
  \A i \in 1..Len(chart) - 1 :
    chart[i] # GapColumn /\ chart[i + 1] # GapColumn => chart[i].to = chart[i + 1].from

\* A disk chart never mixes two devices that had the same name, nor a process chart two
\* processes that had the same PID.
OneLife == kind \in {"disk", "process"} => \A c \in Rated : c.from.life = c.to.life

\* After a failed collection no rate reaches back to before it.
GapIsNotBridged == \A c \in Rated : ~(c.from.at < gapAt /\ gapAt <= c.to.at)

\* docs/ARCHITECTURE.md: I/O rates use counter deltas over measured elapsed time.  The time
\* is the time between the two readings, up to the wait for a poll.
Measured(c) == LET between == c.to.at - c.from.at
               IN c.elapsed - between <= Slack /\ between - c.elapsed <= Slack
MeasuredElapsed == \A c \in Rated : Measured(c)

\* It is so of disks, containers and processes.  An interface may be rated over other
\* readings than the last two: those of an inventory, those kept because a sample lacked
\* the interface, a sample that waited while another view was open.
SampledElapsed == kind \in {"disk", "container", "process"} => MeasuredElapsed

\* docs/OPERATIONS_GUIDE.md: missing samples do not become zero-throughput observations.
\* Every column stands for two readings.
MissingIsNotZero == \A c \in Rated : c.from.at < c.to.at

\* NeverOverstated of every column, in turn or not.
NothingOutOfTurn == \A c \in Rated : c.delta <= c.to.flow - c.from.flow
=============================================================================
