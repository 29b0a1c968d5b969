------------------------------ MODULE TopLoop ------------------------------
(***************************************************************************)
(* The interactive lens-top (crates/ui/src/lib.rs, run_tui, and app.rs):   *)
(* the event loop, its collection worker, the list and the detail of a     *)
(* process, the search and sort boxes and the action dialog, which runs    *)
(* the command of ProcessAction.  A snapshot is the running processes in   *)
(* the order the chosen key gives them, which may be any.                  *)
(***************************************************************************)
EXTENDS ProcessAction, SequencesExt, Retain

CONSTANTS
  Matching,            \* PIDs that match the search
  MaxKeys, MaxFaults   \* bounds: keys, failed collections

ASSUME TopAssumption == Matching \subseteq Pids /\ {MaxKeys, MaxFaults} \subseteq Nat

VARIABLES
  open, frame,                \* the loop runs; app.snapshot
  view, inspected, selected,  \* app.view, app.inspected, app.selected
  narrow, reversed, box,      \* search set, sort direction, the box that has the keys
  paused, failed,             \* app.paused, app.error is set
  inFlight, available, due,   \* refresh_in_flight, collector_available, next_refresh passed
  worker, asked, answers,     \* the collection worker and its two channels
  dialog,                     \* app.process_action
  keys, faults

selectVars == <<view, inspected, selected>>
orderVars == <<narrow, reversed, box>>
loopVars == <<inFlight, available, due>>
workerVars == <<worker, asked, answers>>
vars == <<runVars, open, frame, selectVars, orderVars, paused, failed, loopVars, workerVars,
          dialog, keys, faults>>

NoDialog == [stage |-> "none", target |-> NoProcess]

Visible(f, n, r) ==
  LET kept == IF n THEN Retain(f, {p \in ToSet(f) : p.pid \in Matching}) ELSE f
  IN IF r THEN Reverse(kept) ELSE kept
Rows == Visible(frame, narrow, reversed)

At(s, i) == IF i < Len(s) THEN s[i + 1] ELSE NoProcess
Clamp(i, n) == IF n = 0 THEN 0 ELSE IF i < n THEN i ELSE n - 1

SelectedProcess ==
  IF view = "list" THEN At(Rows, selected)
  ELSE IF inspected \in ToSet(frame) THEN inspected ELSE NoProcess

\* A fault: the row number is kept whatever is there now.
RestoredClamped(s, p) == Clamp(selected, Len(s))

Restored(s, p) ==
  IF p # NoProcess /\ p \in ToSet(s) THEN CHOOSE i \in 0..Len(s) - 1 : s[i + 1] = p
  ELSE Clamp(selected, Len(s))

-----------------------------------------------------------------------------
\* The collection worker.

TakeRequest ==
  /\ worker = "idle" /\ asked > 0
  /\ worker' = "busy" /\ asked' = asked - 1
  /\ UNCHANGED <<runVars, open, frame, selectVars, orderVars, paused, failed, loopVars, answers,
                 dialog, keys, faults>>

SendSnapshot ==
  /\ worker = "busy"
  /\ worker' = "idle"
  /\ \E s \in SetToSeqs(live) : answers' = Append(answers, [ok |-> TRUE, rows |-> s])
  /\ UNCHANGED <<runVars, open, frame, selectVars, orderVars, paused, failed, loopVars, asked,
                 dialog, keys, faults>>

SendError ==
  /\ worker = "busy" /\ faults < MaxFaults
  /\ worker' = "idle" /\ faults' = faults + 1
  /\ answers' = Append(answers, [ok |-> FALSE, rows |-> <<>>])
  /\ UNCHANGED <<runVars, open, frame, selectVars, orderVars, paused, failed, loopVars, asked,
                 dialog, keys>>

\* The collector panics: both channels lose their other end.
DieWorker ==
  /\ worker = "busy" /\ faults < MaxFaults
  /\ worker' = "dead" /\ faults' = faults + 1
  /\ UNCHANGED <<runVars, open, frame, selectVars, orderVars, paused, failed, loopVars, asked,
                 answers, dialog, keys>>

-----------------------------------------------------------------------------
\* Polls of the loop.

Send == worker # "dead" /\ asked' = asked + 1 /\ inFlight' = TRUE

\* The result of an action starts a collection unless one is under way.
FinishAction ==
  /\ open /\ dialog.stage = "running" /\ run.at = "over"
  /\ dialog' = [dialog EXCEPT !.stage = "result"]
  /\ IF ~inFlight /\ available /\ worker # "dead" THEN Send ELSE UNCHANGED <<asked, inFlight>>
  /\ UNCHANGED <<runVars, open, frame, selectVars, orderVars, paused, failed, available, due,
                 worker, answers, keys, faults>>

Answered == open /\ inFlight /\ answers # <<>> /\ answers' = Tail(answers)

ShowSnapshot ==
  LET s == Head(answers).rows
  IN /\ Answered /\ Head(answers).ok
     /\ frame' = s
     /\ selected' = Restored(Visible(s, narrow, reversed), SelectedProcess)
     /\ inFlight' = FALSE /\ failed' = FALSE /\ due' = FALSE
     /\ UNCHANGED <<runVars, open, view, inspected, orderVars, paused, available, worker, asked,
                    dialog, keys, faults>>

ShowError ==
  /\ Answered /\ ~Head(answers).ok
  /\ inFlight' = FALSE /\ failed' = TRUE /\ due' = FALSE
  /\ UNCHANGED <<runVars, open, frame, selectVars, orderVars, paused, available, worker, asked,
                 dialog, keys, faults>>

\* A fault: the death of the worker leaves the loop waiting.
NoticeDeathWaiting ==
  /\ open /\ inFlight /\ answers = <<>> /\ worker = "dead"
  /\ failed' = TRUE
  /\ UNCHANGED <<runVars, open, frame, selectVars, orderVars, paused, inFlight, available, due,
                 workerVars, dialog, keys, faults>>

NoticeDeath ==
  /\ open /\ inFlight /\ answers = <<>> /\ worker = "dead"
  /\ inFlight' = FALSE /\ available' = FALSE /\ failed' = TRUE
  /\ UNCHANGED <<runVars, open, frame, selectVars, orderVars, paused, due, workerVars, dialog,
                 keys, faults>>

BecomeDue ==
  /\ open /\ ~due /\ due' = TRUE
  /\ UNCHANGED <<runVars, open, frame, selectVars, orderVars, paused, failed, inFlight, available,
                 workerVars, dialog, keys, faults>>

\* A send to a dead worker fails: that, too, is how its death is noticed.
Ask ==
  IF worker # "dead" THEN Send /\ UNCHANGED <<available, failed>>
  ELSE available' = FALSE /\ failed' = TRUE /\ UNCHANGED <<asked, inFlight>>

StartRefresh ==
  /\ open /\ ~paused /\ ~inFlight /\ available /\ due
  /\ Ask /\ due' = FALSE
  /\ UNCHANGED <<runVars, open, frame, selectVars, orderVars, paused, worker, answers, dialog,
                 keys, faults>>

-----------------------------------------------------------------------------
\* Keys: the dialog has them first, then the boxes, then the view.

Press == open /\ keys < MaxKeys /\ keys' = keys + 1
PressView == Press /\ dialog.stage = "none" /\ box = "none"

\* Ctrl-C ends the loop in whatever state it is.
Quit ==
  /\ Press
  /\ open' = FALSE
  /\ UNCHANGED <<runVars, frame, selectVars, orderVars, paused, failed, loopVars, workerVars,
                 dialog, faults>>

\* Moving in the detail view inspects the row the cursor comes to.
Move ==
  /\ PressView
  /\ selected' \in IF Rows = <<>> THEN {0}
                   ELSE {Clamp(selected + 1, Len(Rows)), IF selected = 0 THEN 0 ELSE selected - 1}
  /\ inspected' = IF view = "detail" /\ Rows # <<>> THEN At(Rows, selected') ELSE inspected
  /\ UNCHANGED <<runVars, open, frame, view, orderVars, paused, failed, loopVars, workerVars,
                 dialog, faults>>

Inspect ==
  /\ PressView
  /\ \/ view = "detail" /\ view' = "list" /\ inspected' = NoProcess
     \/ At(Rows, selected) # NoProcess /\ view' = "detail" /\ inspected' = At(Rows, selected)
  /\ UNCHANGED <<runVars, open, frame, selected, orderVars, paused, failed, loopVars, workerVars,
                 dialog, faults>>

OpenBox ==
  /\ PressView
  /\ box' \in {"search", "sort", "help"}
  /\ UNCHANGED <<runVars, open, frame, selectVars, narrow, reversed, paused, failed, loopVars,
                 workerVars, dialog, faults>>

\* Another sort key or grouping: the same processes in another order.
Reordered == frame' \in SetToSeqs(ToSet(frame)) /\ selected' = 0

Regroup ==
  /\ PressView /\ Reordered
  /\ UNCHANGED <<runVars, open, view, inspected, orderVars, paused, failed, loopVars, workerVars,
                 dialog, faults>>

\* Search and sort key start at the top when accepted; d turns the direction round at once.
BoxKey ==
  /\ Press /\ dialog.stage = "none" /\ box # "none"
  /\ \/ box' = "none" /\ UNCHANGED <<narrow, reversed, selected, frame>>
     \/ box = "search" /\ box' = "none" /\ narrow' = ~narrow /\ selected' = 0
        /\ UNCHANGED <<reversed, frame>>
     \/ box = "sort" /\ box' = "none" /\ Reordered /\ UNCHANGED <<narrow, reversed>>
     \/ box = "sort" /\ reversed' = ~reversed /\ UNCHANGED <<box, narrow, selected, frame>>
  /\ UNCHANGED <<runVars, open, view, inspected, paused, failed, loopVars, workerVars,
                 dialog, faults>>

Pause ==
  /\ PressView
  /\ paused' = ~paused
  /\ UNCHANGED <<runVars, open, frame, selectVars, orderVars, failed, loopVars, workerVars,
                 dialog, faults>>

AskRefresh ==
  /\ PressView
  /\ IF ~inFlight /\ available THEN Ask ELSE UNCHANGED <<asked, inFlight, available, failed>>
  /\ due' = FALSE
  /\ UNCHANGED <<runVars, open, frame, selectVars, orderVars, paused, worker, answers, dialog, faults>>

OfferAction ==
  /\ PressView /\ SelectedProcess # NoProcess
  /\ dialog' = [stage |-> "choose", target |-> SelectedProcess]
  /\ UNCHANGED <<runVars, open, frame, selectVars, orderVars, paused, failed, loopVars,
                 workerVars, faults>>

DialogKey ==
  /\ Press
  /\ dialog' \in CASE dialog.stage = "choose" -> {NoDialog, [dialog EXCEPT !.stage = "confirm"]}
                   [] dialog.stage = "confirm" -> {[dialog EXCEPT !.stage = "choose"]}
                   [] dialog.stage = "result" -> {NoDialog}
                   [] OTHER -> {}
  /\ UNCHANGED <<runVars, open, frame, selectVars, orderVars, paused, failed, loopVars,
                 workerVars, faults>>

\* A fault: the command is not told the start time of the process.
SignalOptionsPid(p) ==
  [select |-> {p.pid}, expect |-> 0, name |-> FALSE, dry |-> FALSE, yes |-> TRUE, demo |-> FALSE]

SignalOptions(p) ==
  [select |-> {p.pid}, expect |-> p.start, name |-> FALSE, dry |-> FALSE, yes |-> TRUE, demo |-> FALSE]

Confirm ==
  /\ Press /\ dialog.stage = "confirm"
  /\ dialog' = [dialog EXCEPT !.stage = "running"]
  /\ run' = Command(SignalOptions(dialog.target))
  /\ UNCHANGED <<procVars, open, frame, selectVars, orderVars, paused, failed, loopVars,
                 workerVars, faults>>

-----------------------------------------------------------------------------
uiVars == <<open, frame, selectVars, orderVars, paused, failed, loopVars, workerVars, dialog,
            keys, faults>>

InitTop ==
  /\ InitProcesses
  /\ run = Exit(Command(SignalOptions(NoProcess)), 0)
  /\ open = TRUE /\ frame \in SetToSeqs(live)
  /\ view = "list" /\ inspected = NoProcess /\ selected = 0
  /\ narrow = FALSE /\ reversed = FALSE /\ box = "none"
  /\ paused = FALSE /\ failed = FALSE
  /\ inFlight = FALSE /\ available = TRUE /\ due = FALSE
  /\ worker = "idle" /\ asked = 0 /\ answers = <<>>
  /\ dialog = NoDialog /\ keys = 0 /\ faults = 0

Worker == TakeRequest \/ SendSnapshot \/ SendError \/ DieWorker
Polls == FinishAction \/ ShowSnapshot \/ ShowError \/ NoticeDeath \/ BecomeDue \/ StartRefresh
Keys ==
  \/ Quit \/ Move \/ Inspect \/ OpenBox \/ Regroup \/ BoxKey \/ Pause \/ AskRefresh
  \/ OfferAction \/ DialogKey \/ Confirm

\* Names change without effect here: the dialog does not ask for one.
NextTop ==
  \/ Worker \/ Polls \/ Keys
  \/ (ExitProcess \/ StartProcess) /\ UNCHANGED <<run, uiVars>>
  \/ RunStep /\ UNCHANGED uiVars

SpecTop == InitTop /\ [][NextTop]_vars

\* The loop goes round, the interval elapses, collections and the command get on.  Nothing
\* is assumed of the user or of the processes.
FairTop ==
  /\ WF_vars(TakeRequest) /\ WF_vars(SendSnapshot) /\ WF_vars(BecomeDue) /\ WF_vars(StartRefresh)
  /\ WF_vars(FinishAction) /\ WF_vars(ShowSnapshot \/ ShowError \/ NoticeDeath)
  /\ WF_vars(RunStep /\ UNCHANGED uiVars)

FairSpecTop == SpecTop /\ FairTop

-----------------------------------------------------------------------------
\* At most one request is on its way, and the loop waits for it: the answer it takes is the
\* one to its latest request, whoever asked - the interval, r or a finished action.
OneAnswerUnderway ==
  LET underway == asked + Len(answers) + (IF worker = "busy" THEN 1 ELSE 0)
  IN worker # "dead" => underway <= 1 /\ (inFlight <=> underway = 1)

\* What the command pins is the process the user saw and confirmed, even when that has
\* exited, and another one runs under its PID, by the time the command looks.
ActsOnTheConfirmed ==
  dialog.stage = "running" /\ run.pinned # NoProcess => run.pinned = dialog.target

\* A new snapshot leaves the cursor on the process it was on as long as it is listed, in the
\* detail on the inspected one, however the order and the list have changed.
SelectionFollows ==
  [][(answers' # answers /\ frame' # frame /\ SelectedProcess # NoProcess /\ SelectedProcess \in ToSet(Rows'))
     => At(Rows', selected') = SelectedProcess]_vars

\* A dialog that runs a command always comes to its result, unless the user gives up.
DialogComesBack == dialog.stage = "running" ~> ~open \/ dialog.stage # "running"

\* Unless it is paused, the screen comes to show the processes as they are, or the loop has
\* noticed that its collector is gone and says so.
TopCatchesUp ==
  <>[](open /\ ~paused => ToSet(frame) = live \/ (~available /\ failed))
=============================================================================
