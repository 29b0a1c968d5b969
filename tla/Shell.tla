------------------------------- MODULE Shell -------------------------------
(***************************************************************************)
(* The diagnostic command panel, twice: DiagnosticShell of the views       *)
(* (crates/system/src/lib.rs) has a channel per command, the panel of      *)
(* lens-top (crates/ui/src/app.rs, lib.rs) one for all.  A command runs on *)
(* a thread of its own; its output arrives as a whole, the panel may be    *)
(* closed meanwhile.  An output line is the number of its command.         *)
(***************************************************************************)
EXTENDS Naturals, Sequences

CONSTANTS
  Panels,                             \* kinds of panel: "view", "top"
  Cap,                                \* lines kept, 500 in the code
  MaxLines, MaxCommands, MaxDeaths    \* bounds: lines of an output, commands, lost threads

ShellAssumption ==
  /\ Panels \subseteq {"view", "top"} /\ Cap \in Nat \ {0}
  /\ {MaxLines, MaxCommands, MaxDeaths} \subseteq Nat

VARIABLES
  panel, open, typed, \* the panel is open; there is a command in its input line
  output, running,    \* lines, each [cmd |-> its command, echo |-> the "$ ..." line]
  threads, channel,   \* commands whose threads run; results that wait, [cmd, lines]
  issued, deaths

vars == <<panel, open, typed, output, running, threads, channel, issued, deaths>>

Line(c, echo) == [cmd |-> c, echo |-> echo]
Kept(s) == IF Len(s) > Cap THEN SubSeq(s, Len(s) - Cap + 1, Len(s)) ELSE s

Toggle == open' = ~open /\ UNCHANGED <<panel, typed, output, running, threads, channel, issued, deaths>>

Type ==
  /\ open /\ ~running
  /\ typed' \in BOOLEAN
  /\ UNCHANGED <<panel, open, output, running, threads, channel, issued, deaths>>

Started ==
  /\ issued < MaxCommands
  /\ output' = Append(output, Line(issued + 1, TRUE))
  /\ typed' = FALSE /\ running' = TRUE
  /\ threads' = threads \cup {issued + 1}
  /\ channel' = IF panel = "view" THEN <<>> ELSE channel
  /\ issued' = issued + 1

Enter == open /\ typed /\ ~running /\ Started /\ UNCHANGED <<panel, open, deaths>>

\* The thread of a command of the view whose channel was replaced talks to nobody.
Finish ==
  /\ \E c \in threads, n \in 1..MaxLines :
       /\ threads' = threads \ {c}
       /\ channel' = IF panel = "view" /\ c # issued THEN channel
                     ELSE Append(channel, [cmd |-> c, lines |-> n])
  /\ UNCHANGED <<panel, open, typed, output, running, issued, deaths>>

Die ==
  /\ deaths < MaxDeaths
  /\ \E c \in threads : threads' = threads \ {c}
  /\ deaths' = deaths + 1
  /\ UNCHANGED <<panel, open, typed, output, running, channel, issued>>

Show ==
  /\ channel # <<>>
  /\ output' = Kept(output \o [i \in 1..Head(channel).lines |-> Line(Head(channel).cmd, FALSE)])
  /\ channel' = Tail(channel) /\ running' = FALSE
  /\ UNCHANGED <<panel, open, typed, threads, issued, deaths>>

\* The panel of lens-top holds a sender itself and never sees its channel closed.
NoticeDeath ==
  /\ panel = "view" /\ running /\ channel = <<>> /\ issued \notin threads
  /\ output' = Append(output, Line(issued, FALSE)) /\ running' = FALSE
  /\ UNCHANGED <<panel, open, typed, threads, channel, issued, deaths>>

Init ==
  /\ panel \in Panels /\ open = FALSE /\ typed = FALSE /\ output = <<>> /\ running = FALSE
  /\ threads = {} /\ channel = <<>> /\ issued = 0 /\ deaths = 0

Next == Toggle \/ Type \/ Enter \/ Finish \/ Die \/ Show \/ NoticeDeath

Spec == Init /\ [][Next]_vars

\* The loop of the view goes round, and the user's commands end.
Fairness == WF_vars(Finish) /\ WF_vars(Show \/ NoticeDeath)

FairSpec == Spec /\ Fairness

-----------------------------------------------------------------------------
\* The lines of a command follow its own echo and those of the commands before it, whichever
\* thread is faster, and no result waits for a command that is over.
ResultsInOrder ==
  /\ \A i \in 1..Len(output) - 1 :
       \/ output[i].cmd < output[i + 1].cmd /\ output[i + 1].echo
       \/ output[i].cmd = output[i + 1].cmd /\ ~output[i + 1].echo
  /\ ~running => channel = <<>> /\ threads = {}

\* The panel keeps what the limit says and at most the echo of the command that runs, plus
\* two lines for each command whose thread was lost.
OutputBounded == Len(output) <= Cap + 1 + 2 * deaths

\* A command comes back with its output or with a note that it was lost, so that the line
\* takes the next one, unless the thread was lost in lens-top.
CommandComesBack == running ~> (~running \/ (panel = "top" /\ deaths > 0))
=============================================================================
