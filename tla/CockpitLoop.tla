---------------------------- MODULE CockpitLoop ----------------------------
(***************************************************************************)
(* The event loop of the lens cockpit (crates/system/src/lib.rs,           *)
(* cockpit_loop).  Two sources feed one screen: a collection thread that   *)
(* sends the host data first and the complete inventory second, and a live *)
(* sampler that answers one request at a time.  Both are polled without    *)
(* blocking; opening a specialist blocks the loop until it is left.        *)
(***************************************************************************)
EXTENDS Naturals, Sequences

CONSTANTS
  Cards,                        \* number of views to choose from, View::ALL
  MaxEpoch, MaxKeys, MaxFaults  \* bounds: changes of the host, keys, faults

CockpitAssumption ==
  /\ {Cards, MaxEpoch} \subseteq Nat \ {0}
  /\ {MaxKeys, MaxFaults} \subseteq Nat

VARIABLES
  open, epoch,
  shown,            \* epochs of the host figures and of the inventory on the screen
  loading, ready,   \* loading, inventory_ready
  job, channel,     \* the collection thread, what it has sent
  due, liveDue,     \* next_inventory and next_live_sample have passed
  inFlight, latest, \* live_sample_in_flight; the epoch of latest_live_snapshot, 0 for none
  reported,         \* live_error_reported
  sampler, requests, answers,  \* the live sampler and its two channels
  selected, searching, away,   \* away: a specialist has the terminal
  keys, faults

samplerVars == <<sampler, requests, answers>>
liveVars == <<inFlight, latest, reported, liveDue>>
inventoryVars == <<loading, ready, job, channel, due>>
keyVars == <<selected, searching, away, keys>>
vars == <<open, epoch, shown, inventoryVars, liveVars, samplerVars, keyVars, faults>>

Blank == [host |-> 0, inv |-> 0, full |-> FALSE]
Started == [stage |-> "base", host |-> 0]
Watching == open /\ ~away

-----------------------------------------------------------------------------
\* The collection thread: the base snapshot, then the same with every domain.

SendBase ==
  /\ job.stage = "base"
  /\ channel' = Append(channel, [host |-> epoch, inv |-> 0, full |-> FALSE])
  /\ job' = [stage |-> "full", host |-> epoch]
  /\ UNCHANGED <<open, epoch, shown, loading, ready, due, liveVars, samplerVars, keyVars, faults>>

SendFull ==
  /\ job.stage = "full"
  /\ channel' = Append(channel, [host |-> job.host, inv |-> epoch, full |-> TRUE])
  /\ job' = [job EXCEPT !.stage = "over"]
  /\ UNCHANGED <<open, epoch, shown, loading, ready, due, liveVars, samplerVars, keyVars, faults>>

DieJob ==
  /\ job.stage # "over" /\ faults < MaxFaults
  /\ job' = [job EXCEPT !.stage = "over"]
  /\ faults' = faults + 1
  /\ UNCHANGED <<open, epoch, shown, loading, ready, channel, due, liveVars, samplerVars, keyVars>>

\* The live sampler: one sample, or one error, for each request.
TakeRequest ==
  /\ sampler = "idle" /\ requests > 0
  /\ requests' = requests - 1 /\ sampler' = "busy"
  /\ UNCHANGED <<open, epoch, shown, inventoryVars, liveVars, answers, keyVars, faults>>

SendSample ==
  /\ sampler = "busy"
  /\ sampler' = "idle" /\ answers' = Append(answers, [ok |-> TRUE, at |-> epoch])
  /\ UNCHANGED <<open, epoch, shown, inventoryVars, liveVars, requests, keyVars, faults>>

SendError ==
  /\ sampler = "busy" /\ faults < MaxFaults
  /\ sampler' = "idle" /\ answers' = Append(answers, [ok |-> FALSE, at |-> 0])
  /\ faults' = faults + 1
  /\ UNCHANGED <<open, epoch, shown, inventoryVars, liveVars, requests, keyVars>>

DieSampler ==
  /\ sampler = "busy" /\ faults < MaxFaults
  /\ sampler' = "dead" /\ faults' = faults + 1
  /\ UNCHANGED <<open, epoch, shown, inventoryVars, liveVars, requests, answers, keyVars>>

-----------------------------------------------------------------------------
\* Polls of the loop.

Receive == Watching /\ inFlight /\ answers # <<>> /\ answers' = Tail(answers)

ShowSample ==
  LET sample == Head(answers)
  IN /\ Receive /\ sample.ok
     /\ shown' = [shown EXCEPT !.host = sample.at]
     /\ latest' = sample.at
     /\ reported' = FALSE /\ inFlight' = FALSE /\ liveDue' = FALSE
     /\ UNCHANGED <<open, epoch, inventoryVars, sampler, requests, keyVars, faults>>

ReportError ==
  /\ Receive /\ ~Head(answers).ok
  /\ reported' = TRUE /\ inFlight' = FALSE /\ liveDue' = FALSE
  /\ UNCHANGED <<open, epoch, shown, inventoryVars, latest, sampler, requests, keyVars, faults>>

\* The sampler is gone: every later request fails too, and nothing says so.
SamplerGone ==
  /\ Watching /\ inFlight /\ answers = <<>> /\ sampler = "dead"
  /\ inFlight' = FALSE
  /\ UNCHANGED <<open, epoch, shown, inventoryVars, latest, reported, liveDue, samplerVars, keyVars, faults>>

AskSample ==
  /\ Watching /\ ~inFlight /\ liveDue /\ sampler # "dead"
  /\ requests' = requests + 1 /\ inFlight' = TRUE
  /\ UNCHANGED <<open, epoch, shown, inventoryVars, latest, reported, liveDue, sampler, answers, keyVars, faults>>

StartInventory ==
  /\ Watching /\ ~loading /\ due
  /\ job' = Started /\ channel' = <<>> /\ loading' = TRUE
  /\ UNCHANGED <<open, epoch, shown, ready, due, liveVars, samplerVars, keyVars, faults>>

\* A fault: a first part replaces a complete inventory.
SkipsNothing(u) == FALSE

Skips(u) == ~u.full /\ ready

SkipBase ==
  /\ Watching /\ channel # <<>> /\ Skips(Head(channel))
  /\ channel' = Tail(channel)
  /\ UNCHANGED <<open, epoch, shown, loading, ready, job, due, liveVars, samplerVars, keyVars, faults>>

\* A fault: the host figures of the inventory replace the live ones.
OverlayNothing(u) == u.host

Overlay(u) == IF latest # 0 THEN latest ELSE u.host

ShowInventory ==
  LET u == Head(channel)
  IN /\ Watching /\ channel # <<>> /\ ~Skips(u)
     /\ channel' = Tail(channel)
     /\ shown' = [u EXCEPT !.host = Overlay(u)]
     /\ loading' = ~u.full
     /\ ready' = (ready \/ u.full)
     /\ due' = (due /\ ~u.full)
     /\ UNCHANGED <<open, epoch, job, liveVars, samplerVars, keyVars, faults>>

\* A fault: the loop goes on waiting for a thread that died.
NoticeDeathLoading ==
  /\ Watching /\ loading /\ channel = <<>> /\ job.stage = "over"
  /\ due' = FALSE
  /\ UNCHANGED <<open, epoch, shown, loading, ready, job, channel, liveVars, samplerVars, keyVars, faults>>

NoticeDeath ==
  /\ Watching /\ loading /\ channel = <<>> /\ job.stage = "over"
  /\ loading' = FALSE /\ due' = FALSE
  /\ UNCHANGED <<open, epoch, shown, ready, job, channel, liveVars, samplerVars, keyVars, faults>>

BecomeDue ==
  /\ open /\ ~due /\ due' = TRUE
  /\ UNCHANGED <<open, epoch, shown, loading, ready, job, channel, liveVars, samplerVars, keyVars, faults>>

BecomeLiveDue ==
  /\ open /\ ~liveDue /\ liveDue' = TRUE
  /\ UNCHANGED <<open, epoch, shown, inventoryVars, inFlight, latest, reported, samplerVars, keyVars, faults>>

ChangeHost ==
  /\ epoch < MaxEpoch /\ epoch' = epoch + 1
  /\ UNCHANGED <<open, shown, inventoryVars, liveVars, samplerVars, keyVars, faults>>

-----------------------------------------------------------------------------
\* Keys: the search box has them first.

Press == Watching /\ keys < MaxKeys /\ keys' = keys + 1

\* launch and launch_search: the loop waits until the specialist is left, or ends with an
\* error when the specialist cannot be started.
Launch ==
  /\ Press
  /\ searching' = FALSE
  /\ \/ away' = TRUE /\ UNCHANGED <<open, faults>>
     \/ faults < MaxFaults /\ open' = FALSE /\ faults' = faults + 1 /\ UNCHANGED away
  /\ UNCHANGED <<epoch, shown, inventoryVars, liveVars, samplerVars, selected>>

Return ==
  /\ open /\ away /\ away' = FALSE
  /\ UNCHANGED <<open, epoch, shown, inventoryVars, liveVars, samplerVars, selected, searching, keys, faults>>

Search ==
  /\ Press /\ searching' = ~searching
  /\ UNCHANGED <<open, epoch, shown, inventoryVars, liveVars, samplerVars, selected, away, faults>>

Move ==
  /\ Press /\ ~searching
  /\ selected' \in {selected - 1, selected + 1} \cap (0..Cards - 1)
  /\ UNCHANGED <<open, epoch, shown, inventoryVars, liveVars, samplerVars, searching, away, faults>>

Leave ==
  /\ Press /\ ~searching /\ open' = FALSE
  /\ UNCHANGED <<epoch, shown, inventoryVars, liveVars, samplerVars, selected, searching, away, faults>>

Refresh ==
  /\ Press /\ ~searching /\ ~loading
  /\ shown' = Blank /\ job' = Started /\ channel' = <<>>
  /\ ready' = FALSE /\ loading' = TRUE
  /\ UNCHANGED <<open, epoch, due, liveVars, samplerVars, selected, searching, away, faults>>

-----------------------------------------------------------------------------
Init ==
  /\ open = TRUE /\ epoch = 1 /\ shown = Blank
  /\ loading = TRUE /\ ready = FALSE /\ job = Started /\ channel = <<>>
  /\ due = FALSE /\ liveDue = FALSE
  /\ inFlight = TRUE /\ latest = 0 /\ reported = FALSE
  /\ sampler = "idle" /\ requests = 1 /\ answers = <<>>
  /\ selected = 0 /\ searching = FALSE /\ away = FALSE
  /\ keys = 0 /\ faults = 0

Threads == SendBase \/ SendFull \/ DieJob \/ TakeRequest \/ SendSample \/ SendError \/ DieSampler
Polls ==
  \/ ShowSample \/ ReportError \/ SamplerGone \/ AskSample
  \/ StartInventory \/ SkipBase \/ ShowInventory \/ NoticeDeath \/ BecomeDue \/ BecomeLiveDue
Keys == Launch \/ Return \/ Search \/ Move \/ Leave \/ Refresh

Next == Threads \/ Polls \/ Keys \/ ChangeHost

Spec == Init /\ [][Next]_vars

\* The loop goes round, timers elapse, the threads get on with their work.  Nothing is
\* assumed of the user, who may stay in a specialist for ever.
Fairness ==
  /\ WF_vars(SendBase \/ SendFull) /\ WF_vars(TakeRequest \/ SendSample)
  /\ WF_vars(ShowSample \/ ReportError \/ SamplerGone) /\ WF_vars(AskSample)
  /\ WF_vars(StartInventory) /\ WF_vars(SkipBase \/ ShowInventory \/ NoticeDeath)
  /\ WF_vars(BecomeDue) /\ WF_vars(BecomeLiveDue)

FairSpec == Spec /\ Fairness

-----------------------------------------------------------------------------
\* Every variable has its type; the selected card is one of View::ALL.
TypeOK ==
  /\ {open, loading, ready, due, liveDue, inFlight, reported, searching, away} \subseteq BOOLEAN
  /\ epoch \in 1..MaxEpoch /\ latest \in 0..MaxEpoch
  /\ shown \in [host : 0..MaxEpoch, inv : 0..MaxEpoch, full : BOOLEAN]
  /\ job \in [stage : {"base", "full", "over"}, host : 0..MaxEpoch]
  /\ channel \in Seq([host : 1..MaxEpoch, inv : 0..MaxEpoch, full : BOOLEAN])
  /\ sampler \in {"idle", "busy", "dead"} /\ requests \in Nat
  /\ answers \in Seq([ok : BOOLEAN, at : 0..MaxEpoch])
  /\ selected \in 0..Cards - 1 /\ keys \in 0..MaxKeys /\ faults \in 0..MaxFaults

\* At most one request is on its way through the sampler, also after a specialist kept the
\* loop from polling, and it is the one the loop waits for: samples do not pile up.
OneSampleUnderway ==
  LET underway == requests + Len(answers) + (IF sampler = "busy" THEN 1 ELSE 0)
  IN underway <= 1 /\ (underway = 1 => inFlight)

\* docs/OPERATIONS_GUIDE.md: automatic inventory collections never overlap.  A collection is
\* only started when the thread of the one before is over; r too waits for it.
OneCollection == ~loading => job.stage = "over"

\* Once a complete inventory is shown, the first part of the next one does not replace it.
CompleteStays == ready => shown.full

\* Once there has been a live sample, the host figures on the screen never go back in time,
\* in whatever order samples and the slower inventories arrive.
HostNeverGoesBack == [][(latest # 0 /\ shown.host # 0 /\ shown'.host # 0) => shown'.host >= shown.host]_vars

\* As long as the user watches, the screen comes to show the inventory as it is, and the
\* host figures too unless the sampler has died, also after collectors failed.
CockpitCatchesUp ==
  <>[](Watching => /\ shown.inv = epoch
                   /\ sampler # "dead" => shown.host = epoch)
=============================================================================
