------------------------------ MODULE MCTools ------------------------------
(* Components that are about one screen, one command or one script, each on a *)
(* small instance: a behaviour is about the one that `part` names, the        *)
(* variables of the others are unused.                                        *)
EXTENDS MCTop, MCDisplay

CONSTANTS
  Units, Namesakes, Listings, MaxChanges,  \* Actions
  AllPids, Spared,               \* ProcessAction by itself
  LongestGap, Slack, InventoryTime, ChartWidth, MaxTime, MaxFlow, MaxLife,    \* Rates
  Links, Loopbacks, Routings, Wired, Tallies,    \* Traffic
  Names, Entries, Flagged, Window, Longest, MaxCount, MaxCollections,      \* Session
  MaxRuns,                       \* Setup
  CommandNames, OptionSets, FieldSets, Formats, Policies, Contents, Limits  \* Command

VARIABLES part,
  state, act, late, acted, held, changes,                                    \* Actions
  at, wasActive, mode, refresh, rc, publisher, daemon, registered, conf,     \* Setup
  loaded, other, rsyslog, enabled, recorded, stage, restored, runs,
  kind, now, counter, life, flow, pending, inventory, known,          \* Rates
  previous, last, chart, away, gapAt,
  feeder, loopback, listed, uplinks, scope, before, rates, charts, total, since,  \* Traffic
  args, step, snapshot, found, out, exit,                                    \* Command
  watched, actual, readable, events, wasReset, baseline, latest, journal,    \* Session
  silent, seen, activity, counted, gaps, histories, collections

\* A command line has one oddity at most.
A == INSTANCE Actions WITH run <- act
Odd(o) == <<o.malformed, o.dry, ~o.yes, o.demo, o.wait = "invalid">>
Even(o) == Cardinality({i \in 1..5 : Odd(o)[i]}) <= 1
S == INSTANCE Setup
\* PID 1 and that of lens-top itself are protected, one stands for both.
P == INSTANCE ProcessAction WITH Pids <- AllPids, Protected <- Spared

R == INSTANCE Rates WITH Kinds <- {"cockpit", "net", "disk", "container", "process"},
       Lossy <- {"cockpit", "net", "disk", "container", "process"},
       Launching <- {"cockpit"}, held <- known

Net == INSTANCE Traffic
C == INSTANCE Command WITH stage <- step, Commands <- CommandNames
O == INSTANCE Session WITH base <- baseline

ASSUME CommandsAssumption ==
  A!ActionsAssumption /\ P!ProcessAssumption /\ S!SetupAssumption /\ C!CommandAssumption
ASSUME ReadingsAssumption == R!RatesAssumption /\ Net!TrafficAssumption /\ O!SessionAssumption

-----------------------------------------------------------------------------
NoPolicy == [fail_if_empty |-> FALSE, fail_if_any |-> FALSE, exact |-> {}, least |-> {},
             most |-> {}, fail_on |-> "none", fail_on_warnings |-> FALSE]
Line(fits, severity) ==
  [satisfies |-> IF fits THEN {"name", "filter", "min_severity", "interface"} ELSE {},
   severity |-> severity]
\* The wired interface is always there, unless all are gone.
MCTallies == {<<>>} \cup UNION {[some -> 0..1] : some \in {Wired, Links}}
MCCommandNames == {"services", "net", "health", "lens", "lens-top"}
MCOptionSets == {{}, {"filter"}, {"name"}, {"min_severity", "fail_on"}, {"fail_on"},
                 {"focus", "model"}, {"action"}, {"interface"}}
MCFieldSets == {{}, {"dns"}, {"host"}}
MCPolicies == {NoPolicy, [NoPolicy EXCEPT !.fail_if_any = TRUE, !.fail_if_empty = TRUE],
               [NoPolicy EXCEPT !.least = {2}, !.most = {1}],
               [NoPolicy EXCEPT !.fail_on = "warning"],
               [NoPolicy EXCEPT !.exact = {1}, !.fail_on_warnings = TRUE]}
MCContents == {<<>>, <<Line(TRUE, "critical")>>,
               <<Line(FALSE, "critical"), Line(TRUE, "attention"), Line(TRUE, "information")>>}

-----------------------------------------------------------------------------
ActionUnused ==
  /\ state = <<>> /\ act = <<>> /\ late = FALSE /\ acted = {} /\ held = {} /\ changes = 0
SetupUnused ==
  /\ at = "over" /\ wasActive = FALSE /\ mode = "auto" /\ refresh = FALSE /\ rc = 0
  /\ publisher = FALSE /\ daemon = FALSE /\ registered = FALSE /\ conf = "none" /\ loaded = FALSE
  /\ other = FALSE /\ rsyslog = FALSE /\ enabled = FALSE /\ recorded = "none" /\ stage = FALSE
  /\ restored = FALSE /\ runs = 0
RatesUnused ==
  /\ kind = "none" /\ now = 0 /\ counter = 0 /\ life = 0 /\ flow = 0
  /\ pending = {} /\ inventory = {} /\ known = <<>> /\ previous = <<>> /\ last = 0
  /\ chart = <<>> /\ away = FALSE /\ gapAt = 0
TrafficUnused ==
  /\ feeder = "none" /\ loopback = {} /\ listed = <<>> /\ uplinks = {} /\ scope = {}
  /\ before = <<>> /\ rates = <<>> /\ charts = <<>> /\ total = <<>> /\ since = 0
CommandUnused ==
  args = <<>> /\ step = "none" /\ snapshot = <<>> /\ found = <<>> /\ out = {} /\ exit = "none"
SessionUnused ==
  /\ watched = "none" /\ actual = <<>> /\ readable = {} /\ events = <<>> /\ wasReset = {}
  /\ baseline = <<>> /\ latest = <<>> /\ journal = <<>> /\ silent = FALSE /\ seen = {}
  /\ activity = <<>> /\ counted = <<>> /\ gaps = 0 /\ histories = <<>> /\ collections = 0

ToolsInit ==
  /\ part \in {"top", "process", "action", "setup", "rates", "traffic", "selection",
               "screen", "command", "session"}
  /\ IF part = "top" THEN InitTop
     ELSE LoopUnused /\ IF part = "process" THEN P!Init ELSE ProcessUnused
  /\ IF part = "action" THEN A!Init /\ Even(act.o) ELSE ActionUnused
  /\ IF part = "setup" THEN S!Init ELSE SetupUnused
  /\ IF part = "rates" THEN R!Init ELSE RatesUnused
  /\ IF part = "traffic" THEN Net!Init ELSE TrafficUnused
  /\ IF part = "selection" THEN L!Init ELSE SelectionUnused
  /\ IF part = "screen" THEN W!Init ELSE ScreenUnused
  /\ IF part = "command" THEN C!Init ELSE CommandUnused
  /\ IF part = "session" THEN O!Init ELSE SessionUnused

topVars == vars
actionVars == <<state, act, late, acted, held, changes>>
setupVars == <<at, wasActive, mode, refresh, rc, publisher, daemon, registered, conf, loaded,
               other, rsyslog, enabled, recorded, stage, restored, runs>>
ratesVars == <<kind, now, counter, life, flow, pending, inventory, known, previous,
               last, chart, away, gapAt>>
trafficVars == <<feeder, loopback, listed, uplinks, scope, before, rates, charts, total, since>>
commandVars == <<args, step, snapshot, found, out, exit>>
sessionVars == <<watched, actual, readable, events, wasReset, baseline, latest, journal, silent,
                 seen, activity, counted, gaps, histories, collections>>
small == <<trafficVars, selectionVars, screenVars, commandVars>>
allvars == <<part, topVars, actionVars, setupVars, ratesVars, small, sessionVars>>

ToolsNext ==
  \/ /\ part = "top" /\ NextTop
     /\ UNCHANGED <<part, actionVars, setupVars, ratesVars, small, sessionVars>>
  \/ /\ part = "process" /\ P!Next
     /\ UNCHANGED <<part, uiVars, actionVars, setupVars, ratesVars, small, sessionVars>>
  \/ /\ part = "action" /\ A!Next
     /\ UNCHANGED <<part, topVars, setupVars, ratesVars, small, sessionVars>>
  \/ /\ part = "setup" /\ S!Next
     /\ UNCHANGED <<part, topVars, actionVars, ratesVars, small, sessionVars>>
  \/ /\ part = "rates" /\ R!Next
     /\ UNCHANGED <<part, topVars, actionVars, setupVars, small, sessionVars>>
  \/ /\ part = "traffic" /\ Net!Next
     /\ UNCHANGED <<part, topVars, actionVars, setupVars, ratesVars, selectionVars, screenVars,
                    commandVars, sessionVars>>
  \/ /\ part = "selection" /\ L!Next
     /\ UNCHANGED <<part, topVars, actionVars, setupVars, ratesVars, trafficVars, screenVars, commandVars,
                    sessionVars>>
  \/ /\ part = "screen" /\ W!Next
     /\ UNCHANGED <<part, topVars, actionVars, setupVars, ratesVars, trafficVars, selectionVars, commandVars,
                    sessionVars>>
  \/ /\ part = "command" /\ C!Next
     /\ UNCHANGED <<part, topVars, actionVars, setupVars, ratesVars, trafficVars, selectionVars, screenVars,
                    sessionVars>>
  \/ /\ part = "session" /\ O!Next
     /\ UNCHANGED <<part, topVars, actionVars, setupVars, ratesVars, small>>

ToolsSpec == ToolsInit /\ [][ToolsNext]_allvars

-----------------------------------------------------------------------------
\* lens-top has one snapshot under way at most.  A signal goes to the process that was
\* seen, confirmed and pinned, refused commands signal nothing, and a process that is
\* reported as exited has exited.
TopHolds ==
  /\ part = "top" => OneAnswerUnderway /\ ActsOnTheConfirmed /\ ReachesThePinned
  /\ part = "process" => P!ReachesThePinned /\ P!RefusalChangesNothing /\ P!ExitedMeansExited

\* The cursor and the detail of lens-top follow their process (TopLoop).
CursorFollows == SelectionFollows

\* A service or container action is done to the unit or container that was resolved, by
\* whoever confirmed it, and a selector finds it alone among those that the collection
\* listed: a runtime that fails is warned of and hides its containers, a service --target
\* and demo data are not looked up on the host.  What is reported as completed has been
\* seen after it.
ActionsHold ==
  part = "action" => A!ActsOnTheResolved /\ A!ActsOnOne /\ A!CompletedWasReached

\* After a setup that succeeded the publisher reports forwarding exactly when the destination
\* is in place, and then rsyslog has read it; that rsyslog no longer forwards when the
\* publisher reports that it is off is not claimed (S!OffMeansOff).  No service runs without
\* a registration, also after failed runs; a forwarding path that is not managed by Lens
\* stays as it is, and Lens adds none beside it by itself.
SetupHolds == [](part = "setup" => S!SelectionIsTrue /\ S!RegisteredFirst) /\ S!NoSecondPath

\* What is worked out from successive readings is true of what happened between them:
\* rates over resets, losses, replaced devices and gaps (of the five rate keepers, each as
\* far as Rates says), the total over interfaces, and the restarts, errors, new log entries
\* and histories of a session.
ReadingsHold ==
  /\ part = "rates" => /\ R!NeverOverstated /\ R!NoBridge /\ R!OneLife
                       /\ R!GapIsNotBridged /\ R!SampledElapsed
  /\ part = "traffic" => Net!TotalIsTheSum /\ Net!OneScope /\ Net!ChartsAreOfRates
  /\ part = "session" => O!NeverMoreThanHappened /\ O!CountedOnce /\ O!HistoryWithoutGaps

\* What is selected is shown: each match once, families and groups together, nothing cut
\* that fits, the selected row of a list on the terminal, and that of the cockpit too, but
\* for terminals of forty rows and more and of 52 or 53 columns (Screen).
DisplayHolds ==
  /\ part = "selection" => L!EveryMatchOnce /\ L!ChildUnderParent /\ L!GroupsTogether
  /\ part = "screen" => W!SelectedOnScreen /\ W!FrameFits /\ W!CardsNeverCut

\* The exit status of a command is true of what was collected, filtered and written.
CommandsHold ==
  part = "command" => C!TypeOK /\ C!RefusedIsSilent /\ C!SuccessHolds /\ C!ClosedPipeIsNoFailure

\* docs/CLI_CONTRACT.md:17: --fields projects JSON lines to the named fields; what it
\* writes are records of these fields and no others (Command).
FieldsLimitOutput == part = "command" => C!FieldsLimitOutput
=============================================================================
