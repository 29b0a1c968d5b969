--------------------------- MODULE SpecialistLoop ---------------------------
(***************************************************************************)
(* The event loop of a specialist view (crates/system/src/lib.rs,          *)
(* specialist_loop) with the collection threads it starts, the session     *)
(* view over what they return, the search box, the action dialog and the   *)
(* cursor.  The loop polls its sources one after another and then waits    *)
(* 100 ms for a key; a source may become ready between any two polls, so   *)
(* each poll is an action of its own.  Timers are due or not.  A view that *)
(* is opened on top of this one (g, Enter on a finding) only delays polls. *)
(***************************************************************************)
EXTENDS Integers, Sequences, FiniteSets, Retain

CONSTANTS
  Views,      \* the views to open: "services", "containers", "logs", "disk", "system"
  Worlds,     \* sequences of rows the host may have
  Early,      \* rows the first part of a two-part collection already has
  Found,      \* rows that match the search
  Narrow,     \* rows the narrower session mode (f, v) keeps
  ReadOnly,   \* rows that offer no action (libvirt)
  Nothing,    \* no row
  MaxEpoch, MaxKeys, MaxStrays, MaxFaults  \* bounds on changes, keys, superseded threads, faults

Rows == UNION {{s[i] : i \in DOMAIN s} : s \in Worlds}

ASSUME SpecialistAssumption ==
  /\ Nothing \notin Rows \cup Early \cup Found \cup Narrow
  /\ \A s \in Worlds : s \in Seq(Rows)
  /\ {MaxEpoch, MaxKeys, MaxStrays, MaxFaults} \subseteq Nat /\ MaxEpoch # 0

VARIABLES
  view, open,           \* which view; FALSE once the loop has returned
  world, epoch,         \* the rows of the host and how often they have changed
  shown, source,        \* snapshot and source_snapshot
  selected, inspecting, follow, mode, paused,
  searching, query,     \* the search box is open; active_args.filter is set
  loading, polling, due,  \* loading, container_poll_pending, the next collection is due
  job, channel,         \* the thread behind the receiver, what it has sent
  strays,               \* threads whose receiver was replaced, automatic and asked for
  dialog, offered, executed, settled,
  keys, faults          \* bounded: keys pressed, faults so far

hostVars == <<world, epoch, faults>>
screenVars == <<shown, source, selected, inspecting, follow, mode, paused>>
jobVars == <<job, channel, strays>>
flagVars == <<loading, polling, due>>
dialogVars == <<dialog, offered, executed, settled>>
vars == <<view, open, hostVars, screenVars, searching, query, jobVars, flagVars, dialogVars, keys>>

TwoPart == {"disk", "net", "health"}
Closed == [stage |-> "none", target |-> Nothing]
Empty == [rows |-> <<>>, at |-> 0, query |-> FALSE, from |-> "none"]

Filtered(s, q) == IF q THEN Retain(s, Found) ELSE s
Moded(s, m) == IF m THEN Retain(s, Narrow) ELSE s

Last(n) == IF n = 0 THEN 0 ELSE n - 1
Clamp(i, n) == IF i <= Last(n) THEN i ELSE Last(n)
Positions(s, r) == {i \in 0..Last(Len(s)) : i < Len(s) /\ s[i + 1] = r}
Under(s, i) == IF i < Len(s) THEN s[i + 1] ELSE Nothing

\* A fault: the cursor is clamped but does not look for its row.
PreserveClamped(v, old, new, i) == Clamp(i, Len(new))

Preserve(v, old, new, i) ==
  LET there == Positions(new, Under(old, i))
  IN IF v # "system" /\ there # {} THEN CHOOSE k \in there : \A l \in there : k <= l
     ELSE Clamp(i, Len(new))

-----------------------------------------------------------------------------
\* Threads.  Spawning replaces the receiver: what an earlier thread sends is lost.

\* A fault: the old receiver is kept, and the new thread sends into it.
SpawnKeeping(auto, q) ==
  /\ job' = [stage |-> "first", auto |-> auto, query |-> q]
  /\ channel' = channel
  /\ strays' = strays

Spawn(auto, q) ==
  /\ job' = [stage |-> "first", auto |-> auto, query |-> q]
  /\ channel' = <<>>
  /\ strays' = IF job.stage = "over" THEN strays
               ELSE IF job.auto THEN [strays EXCEPT !.auto = @ + 1]
               ELSE [strays EXCEPT !.asked = @ + 1]

Update(rows, more, warn) ==
  [rows |-> Filtered(rows, job.query), at |-> epoch, query |-> job.query,
   more |-> more, warn |-> warn]

SendFirst ==
  /\ job.stage = "first" /\ view \in TwoPart
  /\ channel' = Append(channel, Update(Retain(world, Early), TRUE, FALSE))
  /\ job' = [job EXCEPT !.stage = "second"]
  /\ UNCHANGED <<view, open, hostVars, screenVars, searching, query, strays, flagVars, dialogVars, keys>>

Finishing == job.stage = IF view \in TwoPart THEN "second" ELSE "first"

SendLast ==
  /\ Finishing
  /\ channel' = Append(channel, Update(world, FALSE, FALSE))
  /\ job' = [job EXCEPT !.stage = "over"]
  /\ UNCHANGED <<view, open, hostVars, screenVars, searching, query, strays, flagVars, dialogVars, keys>>

\* The collector fails: no rows and a warning.
SendWarning ==
  /\ Finishing /\ faults < MaxFaults
  /\ channel' = Append(channel, Update(<<>>, FALSE, TRUE))
  /\ job' = [job EXCEPT !.stage = "over"]
  /\ faults' = faults + 1
  /\ UNCHANGED <<view, open, world, epoch, screenVars, searching, query, strays, flagVars, dialogVars, keys>>

\* The thread panics and its sender is dropped.
DieJob ==
  /\ job.stage # "over" /\ faults < MaxFaults
  /\ job' = [job EXCEPT !.stage = "over"]
  /\ faults' = faults + 1
  /\ UNCHANGED <<view, open, world, epoch, screenVars, searching, query, channel, strays, flagVars, dialogVars, keys>>

EndStray ==
  /\ \E kind \in {"auto", "asked"} :
       strays[kind] > 0 /\ strays' = [strays EXCEPT ![kind] = @ - 1]
  /\ UNCHANGED <<view, open, hostVars, screenVars, searching, query, job, channel, flagVars, dialogVars, keys>>

-----------------------------------------------------------------------------
\* Polls of the loop.

BecomeDue ==
  /\ open /\ ~due
  /\ due' = TRUE
  /\ UNCHANGED <<view, open, hostVars, screenVars, searching, query, jobVars, loading, polling, dialogVars, keys>>

StartContainerPoll ==
  /\ open /\ view = "containers"
  /\ ~loading /\ ~polling /\ dialog.stage = "none" /\ due
  /\ Spawn(TRUE, query)
  /\ polling' = TRUE
  /\ UNCHANGED <<view, open, hostVars, screenVars, searching, query, loading, due, dialogVars, keys>>

StartInventory ==
  /\ open /\ view # "containers"
  /\ ~(view = "logs" /\ paused) /\ ~loading /\ dialog.stage = "none" /\ due
  /\ Spawn(TRUE, query)
  /\ loading' = TRUE
  /\ UNCHANGED <<view, open, hostVars, screenVars, searching, query, polling, due, dialogVars, keys>>

Skips(u) == u.more /\ shown.rows # <<>>

Drops(u) == ~Skips(u) /\ view = "logs" /\ paused
Stale(u) == view = "containers" /\ u.rows = <<>> /\ u.warn /\ shown.rows # <<>>

Receive == open /\ channel # <<>> /\ channel' = Tail(channel)

\* A first part does not replace rows that are on the screen.
SkipFirstPart ==
  /\ Receive /\ Skips(Head(channel))
  /\ loading' = TRUE
  /\ UNCHANGED <<view, open, hostVars, screenVars, searching, query, job, strays, polling, due, dialogVars, keys>>

DropWhilePaused ==
  /\ Receive /\ Drops(Head(channel))
  /\ loading' = FALSE
  /\ UNCHANGED <<view, open, hostVars, screenVars, searching, query, job, strays, polling, due, dialogVars, keys>>

Unmoded(u) == [rows |-> u.rows, at |-> u.at, query |-> u.query, from |-> "update"]

\* Containers that could not be read stay on the screen, marked STALE.
KeepStale ==
  LET u == Head(channel)
  IN /\ Receive /\ Stale(u)
     /\ source' = Unmoded(u)
     /\ loading' = FALSE /\ polling' = FALSE /\ due' = FALSE
     /\ UNCHANGED <<view, open, hostVars, shown, selected, inspecting, follow, mode, paused,
                    searching, query, job, strays, dialogVars, keys>>

ShowUpdate ==
  LET u == Head(channel)
      rows == Moded(u.rows, mode)
  IN /\ Receive /\ ~Skips(u) /\ ~Drops(u) /\ ~Stale(u)
     /\ source' = Unmoded(u)
     /\ shown' = [Unmoded(u) EXCEPT !.rows = rows]
     /\ selected' = IF view = "logs" /\ follow THEN Last(Len(rows))
                    ELSE Preserve(view, shown.rows, rows, selected)
     /\ loading' = u.more
     /\ due' = IF u.more THEN due ELSE FALSE
     /\ polling' = FALSE
     /\ UNCHANGED <<view, open, hostVars, inspecting, follow, mode, paused, searching, query,
                    job, strays, dialogVars, keys>>

\* A fault: a thread that died is reported, but the loop still waits for it.
NoticeDeathLoading ==
  /\ open /\ channel = <<>> /\ job.stage = "over" /\ (loading \/ polling)
  /\ loading' = TRUE /\ polling' = FALSE /\ due' = FALSE
  /\ UNCHANGED <<view, open, hostVars, screenVars, searching, query, jobVars, dialogVars, keys>>

NoticeDeath ==
  /\ open /\ channel = <<>> /\ job.stage = "over" /\ (loading \/ polling)
  /\ loading' = FALSE /\ polling' = FALSE /\ due' = FALSE
  /\ UNCHANGED <<view, open, hostVars, screenVars, searching, query, jobVars, dialogVars, keys>>

\* The thread of an action has an answer, or has died; the action may have changed the host.
FinishAction ==
  /\ open /\ dialog.stage = "running"
  /\ dialog' = [dialog EXCEPT !.stage = "result"]
  /\ settled' = epoch
  /\ UNCHANGED <<view, open, hostVars, screenVars, searching, query, jobVars, flagVars,
                 offered, executed, keys>>

ChangeHost ==
  /\ epoch < MaxEpoch
  /\ \E w \in Worlds \ {world} : world' = w
  /\ epoch' = epoch + 1
  /\ UNCHANGED <<view, open, screenVars, searching, query, jobVars, flagVars, dialogVars, keys, faults>>

-----------------------------------------------------------------------------
\* Keys: the dialog has them first, then the search box, then the view.

Press == open /\ keys < MaxKeys /\ keys' = keys + 1
PressView == Press /\ dialog.stage = "none" /\ ~searching
CanSpawn == strays.auto + strays.asked < MaxStrays

\* Empty the screen and collect again; the cursor is the caller's business.
Refresh(q) ==
  /\ CanSpawn
  /\ shown' = Empty
  /\ Spawn(FALSE, q)
  /\ loading' = TRUE

DialogKey ==
  /\ Press
  /\ \/ dialog.stage = "choose" /\ dialog' \in {Closed, [dialog EXCEPT !.stage = "confirm"]}
        /\ UNCHANGED executed
     \/ dialog.stage = "confirm" /\ dialog' = [dialog EXCEPT !.stage = "choose"]
        /\ UNCHANGED executed
     \/ dialog.stage = "confirm" /\ dialog' = [dialog EXCEPT !.stage = "running"]
        /\ executed' = dialog.target
  /\ UNCHANGED <<view, open, hostVars, screenVars, searching, query, jobVars, flagVars, offered, settled>>

CloseResult ==
  /\ Press /\ dialog.stage = "result"
  /\ dialog' = Closed
  /\ Refresh(query)
  /\ UNCHANGED <<view, open, hostVars, source, selected, inspecting, follow, mode, paused,
                 searching, query, polling, due, offered, executed, settled>>

SearchKey ==
  /\ Press /\ dialog.stage = "none" /\ searching
  /\ searching' = FALSE
  /\ \/ UNCHANGED <<query, shown, jobVars, loading, selected>>
     \/ query' = TRUE /\ Refresh(TRUE) /\ selected' = 0
  /\ UNCHANGED <<view, open, hostVars, source, inspecting, follow, mode, paused, polling, due, dialogVars>>

Leave ==
  /\ PressView
  /\ open' = FALSE
  /\ UNCHANGED <<view, hostVars, screenVars, searching, query, jobVars, flagVars, dialogVars>>

MoveCursor ==
  /\ PressView /\ ~inspecting
  /\ selected' \in {Clamp(selected + 1, Len(shown.rows)), Clamp(Last(selected), Len(shown.rows)),
                    0, Last(Len(shown.rows))}
  /\ follow' \in IF view = "logs" /\ selected' = Last(Len(shown.rows)) THEN BOOLEAN ELSE {FALSE}
  /\ UNCHANGED <<view, open, hostVars, shown, source, inspecting, mode, paused, searching, query,
                 jobVars, flagVars, dialogVars>>

Inspect ==
  /\ PressView
  /\ \/ ~inspecting /\ shown.rows # <<>> /\ inspecting' = TRUE /\ follow' = FALSE
     \/ inspecting /\ inspecting' = FALSE /\ follow' = follow
  /\ UNCHANGED <<view, open, hostVars, shown, source, selected, mode, paused, searching, query,
                 jobVars, flagVars, dialogVars>>

Pause ==
  /\ PressView /\ view = "logs"
  /\ paused' = ~paused
  /\ UNCHANGED <<view, open, hostVars, shown, source, selected, inspecting, follow, mode,
                 searching, query, jobVars, flagVars, dialogVars>>

\* f and v apply the other mode to the last snapshot that was received.
ToggleMode ==
  LET rows == Moded(source.rows, ~mode)
  IN /\ PressView /\ ~inspecting /\ view \in {"services", "logs", "disk"}
     /\ mode' = ~mode
     /\ shown' = [source EXCEPT !.rows = rows, !.from = "mode"]
     /\ selected' = IF view = "logs" /\ follow THEN Last(Len(rows))
                    ELSE Preserve(view, shown.rows, rows, selected)
     /\ UNCHANGED <<view, open, hostVars, source, inspecting, follow, paused, searching, query,
                    jobVars, flagVars, dialogVars>>

OpenSearch ==
  /\ PressView /\ ~inspecting
  /\ searching' = TRUE
  /\ UNCHANGED <<view, open, hostVars, screenVars, query, jobVars, flagVars, dialogVars>>

\* A fault: the dialog takes the first row instead of the one under the cursor.
OfferFirst ==
  /\ PressView /\ ~inspecting /\ view \in {"services", "containers"} /\ shown.rows # <<>>
  /\ dialog' = [stage |-> "choose", target |-> Head(shown.rows)]
  /\ offered' = Under(shown.rows, selected)
  /\ UNCHANGED <<view, open, hostVars, screenVars, searching, query, jobVars, flagVars, executed, settled>>

OfferAction ==
  LET row == Under(shown.rows, selected)
  IN /\ PressView /\ ~inspecting /\ view \in {"services", "containers"}
     /\ row # Nothing /\ ~(view = "containers" /\ row \in ReadOnly)
     /\ dialog' = [stage |-> "choose", target |-> row]
     /\ offered' = row
     /\ UNCHANGED <<view, open, hostVars, screenVars, searching, query, jobVars, flagVars, executed, settled>>

AskRefresh ==
  /\ PressView
  /\ Refresh(query)
  /\ selected' = 0 /\ inspecting' = FALSE
  /\ UNCHANGED <<view, open, hostVars, source, follow, mode, paused, searching, query, polling, due, dialogVars>>

-----------------------------------------------------------------------------
Init ==
  /\ view \in Views /\ open = TRUE
  /\ world \in Worlds /\ epoch = 1 /\ faults = 0
  /\ shown = Empty /\ source = Empty
  /\ selected = 0 /\ inspecting = FALSE /\ follow = (view = "logs")
  /\ mode = FALSE /\ paused = FALSE /\ searching = FALSE /\ query = FALSE
  /\ loading = TRUE /\ polling = FALSE /\ due = FALSE
  /\ job = [stage |-> "first", auto |-> FALSE, query |-> FALSE]
  /\ channel = <<>> /\ strays = [auto |-> 0, asked |-> 0]
  /\ dialog = Closed /\ offered = Nothing /\ executed = Nothing /\ settled = 0
  /\ keys = 0

Threads == SendFirst \/ SendLast \/ SendWarning \/ DieJob \/ EndStray
Polls ==
  \/ BecomeDue \/ StartContainerPoll \/ StartInventory \/ SkipFirstPart \/ DropWhilePaused
  \/ KeepStale \/ ShowUpdate \/ NoticeDeath \/ FinishAction
Keys ==
  \/ DialogKey \/ CloseResult \/ SearchKey \/ Leave \/ MoveCursor \/ Inspect \/ Pause
  \/ ToggleMode \/ OpenSearch \/ OfferAction \/ AskRefresh

Next == Threads \/ Polls \/ Keys \/ ChangeHost

Spec == Init /\ [][Next]_vars

\* The loop goes round, its timers elapse and a collection ends: every command it runs has a
\* deadline.  Nothing is assumed of the user or of the host.
Fairness ==
  /\ WF_vars(SendFirst \/ SendLast)
  /\ WF_vars(BecomeDue) /\ WF_vars(StartContainerPoll \/ StartInventory)
  /\ WF_vars(SkipFirstPart \/ DropWhilePaused \/ KeepStale \/ ShowUpdate \/ NoticeDeath)

FairSpec == Spec /\ Fairness

-----------------------------------------------------------------------------
Snapshots == [rows : Seq(Rows), at : 0..MaxEpoch, query : BOOLEAN, from : {"none", "update", "mode"}]

\* Every variable has its type; the cursor is on a row whenever there are rows, also after
\* a collection that shrank the list, a mode that hides rows, or a screen that was emptied.
TypeOK ==
  /\ view \in Views /\ world \in Worlds /\ epoch \in 1..MaxEpoch
  /\ {open, inspecting, follow, mode, paused, searching, query, loading, polling, due} \subseteq BOOLEAN
  /\ shown \in Snapshots /\ source \in Snapshots
  /\ job \in [stage : {"first", "second", "over"}, auto : BOOLEAN, query : BOOLEAN]
  /\ selected \in Nat
  /\ channel \in Seq([rows : Seq(Rows), at : 1..MaxEpoch, query : BOOLEAN, more : BOOLEAN, warn : BOOLEAN])
  /\ strays \in [auto : Nat, asked : Nat]
  /\ dialog \in [stage : {"none", "choose", "confirm", "running", "result"}, target : Rows \cup {Nothing}]
  /\ {offered, executed} \subseteq Rows \cup {Nothing}
  /\ keys \in 0..MaxKeys /\ faults \in 0..MaxFaults /\ settled \in 0..MaxEpoch

CursorOnRow == shown.rows # <<>> => selected < Len(shown.rows)

\* The loop believes that it waits for nothing only when the thread behind its receiver is
\* over, so an automatic collection never replaces one that is still awaited.
IdleMeansOver == (open /\ ~loading /\ ~polling) => job.stage = "over"

\* Rows that a collection put on the screen were collected for the search that is active,
\* and after an action was dismissed they were collected after it: a superseded answer,
\* however late, is never put there.  f and v may bring one back (ModesShowIt).
OnlyTheAwaitedAnswer ==
  shown.from = "update" => /\ shown.query = query
                           /\ dialog.stage = "none" => shown.at >= settled

\* The same of the rows that f and v put there.  It does not hold: they apply the mode to the
\* last snapshot that was received, which a search or a dismissed action does not reset.
ModesShowIt ==
  shown.from = "mode" => /\ shown.query = query
                         /\ dialog.stage = "none" => shown.at >= settled

\* What is executed is what was under the cursor when the dialog was opened, whatever
\* arrived, moved or vanished while it was open.
ActsOnWhatWasOffered == dialog.stage \in {"running", "result"} => executed = offered

\* A collection, a mode or a lost thread never moves an open detail from its row to another as
\* long as the row is there (rows of the system view have no identity).  r closes the detail
\* with the view it starts over.
DetailHolds ==
  [][(inspecting /\ inspecting' /\ view # "system"
       /\ Positions(shown'.rows, Under(shown.rows, selected)) # {})
     => Under(shown'.rows, selected') = Under(shown.rows, selected)]_vars

\* While the log view is paused, only a key changes its rows.
PausedHolds == [][(paused /\ paused' /\ keys' = keys) => shown'.rows = shown.rows]_vars

\* docs/OPERATIONS_GUIDE.md: automatic inventory collections never overlap.
AutomaticNeverOverlap ==
  strays.auto + (IF job.auto /\ job.stage # "over" THEN 1 ELSE 0) <= 1

\* When the user has finished and the view is neither paused nor in a dialog, the screen
\* comes to show the host as it is, also after collectors failed and threads died, provided
\* that every collection that is not lost ends.
CatchesUp ==
  <>[](open /\ ~paused /\ dialog.stage = "none" => shown.at = epoch)
=============================================================================
