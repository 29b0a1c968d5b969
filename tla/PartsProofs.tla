---------------------------- MODULE PartsProofs ----------------------------
(***************************************************************************)
(* Three parts by themselves.                                              *)
(*                                                                         *)
(* One signal of lens-top (ProcessAction), for any set of PIDs, of which   *)
(* any are protected, and any number of processes that come, go and take   *)
(* over a PID: the signal reaches the process that was pinned              *)
(* (ReachesThePinned), a command that was refused has signalled nothing    *)
(* (RefusalChangesNothing), and what is reported as exited has exited      *)
(* (ExitedMeansExited).                                                    *)
(*                                                                         *)
(* One screen (Screen), for every size of a terminal and lists, details,   *)
(* charts and cards of any length; one listing (Selection), for snapshots  *)
(* of any size whose parents are anything, every filter, order and limit.  *)
(***************************************************************************)
EXTENDS ProcessAction, MCDisplay, TLAPS, FiniteSetTheorems

RunSteps == {"start", "resolve", "check", "signal", "verify", "over"}

\* The interactive lens-top starts with a command that is over and selected no process.
Asked == [select : SUBSET (Pids \cup {0}), expect : 0..MaxStart, name : BOOLEAN,
          dry : BOOLEAN, yes : BOOLEAN, demo : BOOLEAN]

Runs == [o : Asked, at : RunSteps, pinned : Processes \cup {NoProcess}, checked : 0..MaxStart,
         hit : Processes \cup {NoProcess}, code : 0..2,
         status : {"none", "planned", "remains", "exited"}]

\* A PID belongs to one process at a time, and none has started after the clock.
LiveInv ==
  /\ live \in SUBSET Processes /\ IsFiniteSet(live)
  /\ clock \in 1..MaxStart
  /\ \A p \in live : p.start <= clock
  /\ \A p, q \in live : p.pid = q.pid => p = q

\* The command has seen no process that started later,
Dated ==
  /\ run \in Runs
  /\ run.checked <= clock /\ run.pinned.start <= clock

\* it has pinned one that may be signalled before it goes on to the check,
Consented == run.o.yes /\ ~run.o.dry /\ ~run.o.demo
Pinned ==
  /\ run.at \in {"start", "resolve"} => run.pinned = NoProcess
  /\ run.at = "resolve" => (run.o.dry \/ run.o.yes) /\ (run.o.demo => run.o.dry)
  /\ run.at \in {"check", "signal", "verify"} \/ run.hit # NoProcess =>
       run.pinned \in Processes /\ run.pinned.pid \notin Protected /\ Consented
  /\ run.pinned # NoProcess => \A p \in live : p.start = 1 /\ p.pid \in run.o.select => p = run.pinned

\* who has its PID when the signal is sent is it, or came after the check,
Reaches ==
  /\ run.at = "signal" =>
       \A p \in live : p.pid = run.pinned.pid => p = run.pinned \/ p.start > run.checked
  /\ run.hit # NoProcess => /\ run.at \in {"verify", "over"} /\ run.hit.pid = run.pinned.pid
                            /\ run.hit = run.pinned \/ run.hit.start > run.checked

\* and what it reports was so.
Reported ==
  /\ run.at # "over" => run.code = 0 /\ run.status = "none"
  /\ run.hit # NoProcess => run.code # 2
  /\ run.status = "exited" => run.pinned \notin live

RunInv == LiveInv /\ Dated /\ Pinned /\ Reaches /\ Reported

-----------------------------------------------------------------------------
LEMMA NoProcessIsNone == NoProcess \notin Processes /\ NoProcess.start = 0
BY ProcessAssumption DEF NoProcess, Processes

LEMMA FirstProcesses == InitProcesses => LiveInv
<1> SUFFICES ASSUME InitProcesses PROVE LiveInv OBVIOUS
<1> DEFINE f == [x \in Pids |-> [pid |-> x, start |-> 1]]
<1>1. f \in Surjection(Pids, live)
  BY DEF InitProcesses, Surjection
<1>2. IsFiniteSet(live)
  BY <1>1, FS_Surjection, ProcessAssumption
<1>3. 1 \in 1..MaxStart
  BY ProcessAssumption
<1>4. \A p \in live : p.pid \in Pids /\ p.start = 1 /\ p = [pid |-> p.pid, start |-> 1]
  BY DEF InitProcesses
<1> QED BY <1>2, <1>3, <1>4 DEF InitProcesses, LiveInv, Processes

LEMMA FirstRun == ASSUME LiveInv, \E o \in Asked : run = Command(o) \/ run = Exit(Command(o), 0)
                  PROVE  RunInv
<1>1. PICK o \in Asked : run = Command(o) \/ run = Exit(Command(o), 0)
  OBVIOUS
<1>2. 0 \in 0..MaxStart /\ clock \in Nat
  BY ProcessAssumption DEF LiveInv
<1>3. PICK s \in {"start", "over"} :
        run = [o |-> o, at |-> s, pinned |-> NoProcess, checked |-> 0, hit |-> NoProcess,
               code |-> 0, status |-> "none"]
  <2>1. CASE run = Command(o)
    BY <2>1 DEF Command
  <2>2. CASE run = Exit(Command(o), 0)
    BY <2>2 DEF Command, Exit
  <2> QED BY <1>1, <2>1, <2>2
<1>4. s \in RunSteps /\ 0 \in 0..2 /\ o \in Asked
  BY <1>1 DEF RunSteps
<1>5. run \in Runs
  BY <1>2, <1>3, <1>4 DEF Runs
<1>6. /\ run.at \in {"start", "over"} /\ run.pinned = NoProcess /\ run.hit = NoProcess
      /\ run.checked = 0 /\ run.code = 0 /\ run.status = "none"
  BY <1>3
<1> QED
  BY <1>2, <1>5, <1>6, NoProcessIsNone DEF RunInv, Dated, Pinned, Reaches, Reported

-----------------------------------------------------------------------------
(* The host: processes exit and start while the command does anything *)

LEMMA HostKeeps ==
  ASSUME RunInv, ExitProcess \/ StartProcess \/ Rename, UNCHANGED run
  PROVE  RunInv'
<1> USE DEF RunInv
<1>1. run \in Runs
  BY DEF Dated
<1>2. CASE Rename
  BY <1>2 DEF Rename, LiveInv, Dated, Pinned, Consented, Reaches, Reported
<1>3. CASE ExitProcess
  <2>1. live' \in SUBSET live /\ UNCHANGED clock
    BY <1>3 DEF ExitProcess
  <2>2. IsFiniteSet(live')
    BY <2>1, FS_Subset DEF LiveInv
  <2>3. LiveInv'
    BY <2>1, <2>2 DEF LiveInv
  <2> QED BY <2>1, <2>3 DEF Dated, Pinned, Consented, Reaches, Reported
<1>4. CASE StartProcess
  <2>1. PICK x \in Pids \ {p.pid : p \in live} : live' = live \cup {[pid |-> x, start |-> clock + 1]}
    BY <1>4 DEF StartProcess
  <2> DEFINE new == [pid |-> x, start |-> clock + 1]
  <2>2. clock' = clock + 1 /\ clock' \in 1..MaxStart /\ clock \in Nat /\ clock >= 1
    BY <1>4, ProcessAssumption DEF StartProcess, LiveInv
  <2>3. new \in Processes /\ new.start = clock + 1 /\ new.pid = x
    BY <2>2 DEF Processes
  <2>4. live' = live \cup {new}
    BY <2>1
  <2>5. \A p \in live : p.pid # new.pid
    BY <2>1, <2>3
  <2> HIDE DEF new
  <2>6. IsFiniteSet(live')
    BY <2>4, FS_AddElement DEF LiveInv
  <2>7. \A p \in live : p.start \in Nat /\ p.start <= clock
    BY DEF LiveInv, Processes
  <2>8. LiveInv'
    BY <2>2, <2>3, <2>4, <2>5, <2>6, <2>7 DEF LiveInv
  <2>9. run.checked \in Nat /\ run.checked <= clock
    BY <1>1 DEF Dated, Runs
  <2>10. run.pinned.start \in Nat /\ run.pinned.start <= clock
    BY <1>1, NoProcessIsNone DEF Dated, Runs, Processes
  <2>11. Dated'
    BY <2>2, <2>9, <2>10 DEF Dated
  <2>12. Pinned'
    BY <2>2, <2>3, <2>4 DEF Pinned, Consented
  <2>13. Reaches'
    BY <2>2, <2>3, <2>4, <2>9 DEF Reaches
  <2>14. new # run.pinned
    BY <2>2, <2>3, <2>10
  <2>15. Reported'
    BY <2>4, <2>14 DEF Reported
  <2> QED BY <2>8, <2>11, <2>12, <2>13, <2>15
<1> QED BY <1>2, <1>3, <1>4

-----------------------------------------------------------------------------
(* The command *)

LEMMA OneFound ==
  ASSUME LiveInv, NEW found \in SUBSET live, Unique(found)
  PROVE  (CHOOSE p \in found : TRUE) \in found /\ found = {CHOOSE p \in found : TRUE}
<1>1. IsFiniteSet(found)
  BY FS_Subset DEF LiveInv
<1>2. PICK x : found = {x}
  BY <1>1, FS_Singleton DEF Unique
<1> QED BY <1>2

LEMMA CommandKeeps == ASSUME RunInv, RunStep PROVE RunInv'
<1> USE DEF RunInv
<1>t. run \in Runs /\ clock \in 0..MaxStart
  BY DEF Dated, LiveInv
<1>s. /\ "resolve" \in RunSteps /\ "check" \in RunSteps /\ "signal" \in RunSteps
      /\ "verify" \in RunSteps /\ "over" \in RunSteps /\ "start" \in RunSteps
      /\ 0 \in 0..2 /\ 1 \in 0..2 /\ 2 \in 0..2
  BY DEF RunSteps
\* A command that gives up before it has signalled.
<1>e. ASSUME UNCHANGED procVars, NEW k \in {1, 2}, run' = Exit(run, k), run.hit = NoProcess,
             run.at # "over"
      PROVE  RunInv'
  <2>1. run' = [run EXCEPT !.at = "over", !.code = k] /\ k \in 0..2
    BY <1>e DEF Exit
  <2>2. run' \in Runs
    BY <2>1, <1>t, <1>s DEF Runs
  <2>3. /\ run'.o = run.o /\ run'.at = "over" /\ run'.pinned = run.pinned
        /\ run'.checked = run.checked /\ run'.hit = NoProcess /\ run'.status = run.status
    BY <2>1, <1>t, <1>e DEF Runs
  <2> QED
    BY <2>2, <2>3, <1>e DEF procVars, LiveInv, Dated, Pinned, Consented, Reaches, Reported
<1>1. CASE Validate
  <2>1. run.at = "start" /\ UNCHANGED procVars /\ run.hit = NoProcess
    BY <1>1 DEF Validate, Reaches
  <2>2. CASE (~run.o.dry /\ ~run.o.yes) \/ (run.o.demo /\ ~run.o.dry)
    BY <1>1, <2>1, <2>2, <1>e DEF Validate
  <2>3. CASE ~((~run.o.dry /\ ~run.o.yes) \/ (run.o.demo /\ ~run.o.dry))
    <3>1. run' = [run EXCEPT !.at = "resolve"]
      BY <1>1, <2>3 DEF Validate
    <3>2. run' \in Runs
      BY <3>1, <1>t, <1>s DEF Runs
    <3>3. /\ run'.o = run.o /\ run'.at = "resolve" /\ run'.pinned = run.pinned
          /\ run'.checked = run.checked /\ run'.hit = NoProcess /\ run'.status = run.status
          /\ run'.code = run.code
      BY <3>1, <1>t, <2>1 DEF Runs
    <3> QED
      BY <2>1, <2>3, <3>2, <3>3 DEF procVars, LiveInv, Dated, Pinned, Consented, Reaches, Reported
  <2> QED BY <2>2, <2>3
<1>2. CASE Resolve
  <2> DEFINE found == {p \in live : p.pid \in run.o.select}
             target == CHOOSE p \in found : TRUE
  <2>1. run.at = "resolve" /\ UNCHANGED procVars /\ run.hit = NoProcess
    BY <1>2 DEF Resolve, Reaches
  <2>2. CASE \E k \in {1, 2} : run' = Exit(run, k)
    BY <2>1, <2>2, <1>e
  <2>3. CASE ~\E k \in {1, 2} : run' = Exit(run, k)
    <3>1. /\ Unique(found) /\ target.pid \notin Protected
          /\ run' = IF run.o.dry THEN Concluded([run EXCEPT !.pinned = target], "planned")
                     ELSE [run EXCEPT !.at = "check", !.pinned = target]
      BY <1>2, <2>3 DEF Resolve
    <3>2. target \in live /\ found = {target}
      BY <3>1, OneFound
    <3> HIDE DEF target
    <3>3. target \in Processes /\ target.start <= clock
      BY <3>2 DEF LiveInv
    <3>4. \A p \in live : p.start = 1 /\ p.pid \in run.o.select => p = target
      BY <3>2
    <3>5. CASE run.o.dry
      <4>1. run' = [run EXCEPT !.pinned = target, !.at = "over", !.status = "planned"]
        BY <3>1, <3>5 DEF Concluded
      <4>2. run' \in Runs
        BY <4>1, <3>3, <1>t, <1>s DEF Runs
      <4>3. /\ run'.o = run.o /\ run'.at = "over" /\ run'.pinned = target
            /\ run'.checked = run.checked /\ run'.hit = NoProcess /\ run'.status = "planned"
        BY <4>1, <1>t, <2>1 DEF Runs
      <4> QED
        BY <2>1, <3>3, <3>4, <4>2, <4>3
        DEF procVars, LiveInv, Dated, Pinned, Consented, Reaches, Reported
    <3>6. CASE ~run.o.dry
      <4>1. run' = [run EXCEPT !.at = "check", !.pinned = target]
        BY <3>1, <3>6
      <4>2. run' \in Runs
        BY <4>1, <3>3, <1>t, <1>s DEF Runs
      <4>3. /\ run'.o = run.o /\ run'.at = "check" /\ run'.pinned = target
            /\ run'.checked = run.checked /\ run'.hit = NoProcess /\ run'.status = run.status
            /\ run'.code = run.code
        BY <4>1, <1>t, <2>1 DEF Runs
      <4> QED
        BY <2>1, <3>1, <3>3, <3>4, <3>6, <4>2, <4>3
        DEF procVars, LiveInv, Dated, Pinned, Consented, Reaches, Reported
    <3> QED BY <3>5, <3>6
  <2> QED BY <2>2, <2>3
<1>3. CASE Check
  <2>1. run.at = "check" /\ UNCHANGED procVars /\ run.hit = NoProcess
    BY <1>3 DEF Check, Reaches
  <2>2. CASE \E k \in {1, 2} : run' = Exit(run, k)
    BY <2>1, <2>2, <1>e
  <2>3. CASE ~\E k \in {1, 2} : run' = Exit(run, k)
    <3>1. run.pinned \in live /\ run' = [run EXCEPT !.at = "signal", !.checked = clock]
      BY <1>3, <2>3 DEF Check, Still
    <3>2. run' \in Runs
      BY <3>1, <1>t, <1>s DEF Runs
    <3>3. /\ run'.o = run.o /\ run'.at = "signal" /\ run'.pinned = run.pinned
          /\ run'.checked = clock /\ run'.hit = NoProcess /\ run'.status = run.status
          /\ run'.code = run.code
      BY <3>1, <1>t, <2>1 DEF Runs
    <3>4. \A p \in live : p.pid = run.pinned.pid => p = run.pinned
      BY <3>1 DEF LiveInv
    <3> QED
      BY <2>1, <3>2, <3>3, <3>4
      DEF procVars, LiveInv, Dated, Pinned, Consented, Reaches, Reported
  <2> QED BY <2>2, <2>3
<1>4. CASE Signal
  <2>1. run.at = "signal" /\ UNCHANGED <<renamed, clock>> /\ run.hit = NoProcess
    BY <1>4 DEF Signal, Reaches
  <2>2. CASE run' = Exit(run, 1) /\ UNCHANGED live
    BY <2>1, <2>2, <1>e DEF procVars
  <2>3. ASSUME NEW p \in live, p.pid = run.pinned.pid,
               run' = [run EXCEPT !.at = "verify", !.hit = p], live' \in {live, live \ {p}}
        PROVE  RunInv'
    <3>1. p \in Processes
      BY DEF LiveInv
    <3>2. run' \in Runs
      BY <2>3, <3>1, <1>t, <1>s DEF Runs
    <3>3. /\ run'.o = run.o /\ run'.at = "verify" /\ run'.pinned = run.pinned
          /\ run'.checked = run.checked /\ run'.hit = p /\ run'.status = run.status
          /\ run'.code = run.code
      BY <2>3, <1>t DEF Runs
    <3>4. live' \in SUBSET live
      BY <2>3
    <3>5. IsFiniteSet(live')
      BY <3>4, FS_Subset DEF LiveInv
    <3>6. LiveInv'
      BY <2>1, <3>4, <3>5 DEF LiveInv
    <3>7. Dated'
      BY <2>1, <3>2, <3>3 DEF Dated
    <3>8. Pinned'
      BY <2>1, <3>3, <3>4 DEF Pinned, Consented
    <3>9. Reaches'
      BY <2>1, <2>3, <3>3 DEF Reaches
    <3>10. Reported'
      BY <2>1, <3>3 DEF Reported
    <3> QED BY <3>6, <3>7, <3>8, <3>9, <3>10
  <2> QED BY <1>4, <2>2, <2>3 DEF Signal
<1>5. CASE Verify
  <2>1. run.at = "verify" /\ UNCHANGED procVars
    BY <1>5 DEF Verify
  <2>2. \/ run' = [run EXCEPT !.at = "over", !.code = 1]
        \/ run' = [run EXCEPT !.at = "over", !.status = "remains"]
        \/ run' = [run EXCEPT !.at = "over", !.status = "exited"] /\ run.pinned \notin live
    BY <1>5 DEF Verify, Concluded, Remains, Exit
  <2>3. run' \in Runs
    BY <2>2, <1>t, <1>s DEF Runs
  <2>4. /\ run'.o = run.o /\ run'.at = "over" /\ run'.pinned = run.pinned
        /\ run'.checked = run.checked /\ run'.hit = run.hit
        /\ run'.code \in {run.code, 1}
        /\ run'.status = "exited" => run.pinned \notin live \/ run.status = "exited"
    BY <2>2, <1>t DEF Runs
  <2> QED
    BY <2>1, <2>3, <2>4
    DEF procVars, LiveInv, Dated, Pinned, Consented, Reaches, Reported
<1>6. CASE FailCollection
  BY <1>6, <1>e DEF FailCollection, Reaches
<1> QED BY <1>1, <1>2, <1>3, <1>4, <1>5, <1>6 DEF RunStep

LEMMA RunRests == ASSUME RunInv, UNCHANGED <<live, clock, run>> PROVE RunInv'
BY DEF RunInv, LiveInv, Dated, Pinned, Consented, Reaches, Reported

LEMMA RunHolds ==
  RunInv => ReachesThePinned /\ RefusalChangesNothing /\ ExitedMeansExited
<1> SUFFICES ASSUME RunInv PROVE ReachesThePinned /\ RefusalChangesNothing /\ ExitedMeansExited
  OBVIOUS
<1> USE DEF RunInv
<1>1. ReachesThePinned
  BY DEF Reaches, ReachesThePinned
<1>2. RefusalChangesNothing
  BY NoProcessIsNone DEF Pinned, Consented, Reaches, Reported, RefusalChangesNothing
<1>3. ExitedMeansExited
  BY DEF Reported, ExitedMeansExited
<1> QED BY <1>1, <1>2, <1>3

LEMMA RunStarts == Init => RunInv
<1>1. Options \subseteq Asked
  BY DEF Options, Asked
<1> QED BY <1>1, FirstProcesses, FirstRun DEF Init

LEMMA RunMoves == RunInv /\ [Next]_runVars => RunInv'
<1>1. ASSUME RunInv, UNCHANGED runVars PROVE RunInv'
  BY <1>1, RunRests DEF runVars, procVars
<1> QED BY <1>1, HostKeeps, CommandKeeps DEF Next, HostStep

\* One signal of lens-top, whatever the processes do meanwhile (run_process_action).
THEOREM SignalIsMeant == Spec => [](ReachesThePinned /\ RefusalChangesNothing /\ ExitedMeansExited)
BY RunStarts, RunMoves, RunHolds, PTL DEF Spec

-----------------------------------------------------------------------------
(* Numbers *)

\* A set of numbers that is not empty has a least one.
LEMMA Least ==
  ASSUME NEW T, T \subseteq Nat, T # {}
  PROVE  \E x \in T : \A y \in T : x <= y
<1>1. IsWellFoundedOn(OpToRel(<, Nat), Nat)
  BY NatLessThanWellFounded
<1>2. PICK x \in T : \A y \in T : ~(<<y, x>> \in OpToRel(<, Nat))
  BY <1>1, WFMin
<1>3. ASSUME NEW y \in T PROVE x <= y
  <2>1. ~(y < x)
    BY <1>2 DEF OpToRel
  <2> QED BY <2>1
<1> QED BY <1>3

\* What holds of 0, and of each number when it holds of the one before, holds up to N.
LEMMA UpTo ==
  ASSUME NEW N \in Nat, NEW S, 0 \in S, \A n \in 1..N : n - 1 \in S => n \in S
  PROVE  \A n \in 0..N : n \in S
<1> DEFINE T == {n \in 0..N : n \notin S}
<1> SUFFICES ASSUME T # {} PROVE FALSE
  OBVIOUS
<1>1. PICK n \in T : \A m \in T : n <= m
  <2>1. T \subseteq Nat
    OBVIOUS
  <2> QED BY ONLY <2>1, T # {}, Least
<1>2. n \in 1..N /\ n - 1 \in 0..N /\ n - 1 \notin T
  BY <1>1
<1> QED BY <1>1, <1>2

-----------------------------------------------------------------------------
(***************************************************************************)
(* One screen.                                                             *)
(***************************************************************************)

LEMMA CountsOfLines ==
  ASSUME NEW a \in Nat, NEW b \in Nat
  PROVE  /\ W!Minus(a, b) \in Nat /\ W!Larger(a, b) \in Nat /\ W!Smaller(a, b) \in Nat
         /\ W!Minus(a, b) <= a /\ (b <= a => W!Minus(a, b) = a - b) /\ (a <= b => W!Minus(a, b) = 0)
         /\ W!Larger(a, b) >= a /\ W!Larger(a, b) >= b /\ W!Larger(a, b) \in {a, b}
         /\ W!Smaller(a, b) <= a /\ W!Smaller(a, b) <= b /\ W!Smaller(a, b) \in {a, b}
BY DEF W!Minus, W!Larger, W!Smaller

LEMMA DetailsAreCounted ==
  ASSUME NEW name, NEW size, size[1] \in Nat, size[2] \in Nat
  PROVE  W!DetailLengths(name, size) \subseteq Nat
<1> DEFINE c == size[1]
           r == size[2]
<1> HIDE DEF c, r
<1>0. c \in Nat /\ r \in Nat
  BY DEF c, r
<1>1. W!LogDetail(r) \subseteq Nat
  BY <1>0 DEF W!LogDetail, W!Larger, W!Minus
<1>2. W!ServiceDetail \subseteq Nat /\ W!HardwareDetail \subseteq Nat /\ W!SystemDetail \subseteq Nat
  BY DEF W!ServiceDetail, W!HardwareDetail, W!SystemDetail
<1>3. W!ContainerDetail(c) \subseteq Nat
  <2>1. W!ResourceLines \subseteq Nat
    BY DEF W!ResourceLines
  <2> QED BY <1>0, <2>1 DEF W!ContainerDetail
<1>4. W!ContainerCharts(r, c) \subseteq Nat
  BY <1>0 DEF W!ContainerCharts, W!When
<1>5. W!DiskDetail(r, c) \subseteq Nat
  <2>1. W!ActivityLines(r, c) \subseteq Nat
    BY DEF W!ActivityLines
  <2>2. W!DeviceLines(r, c) \subseteq Nat
    BY <2>1 DEF W!DeviceLines
  <2> QED BY <2>2 DEF W!DiskDetail
<1>6. W!NetDetail(r) \subseteq Nat
  BY DEF W!NetDetail, W!When
<1>7. W!HealthDetail(r) \subseteq Nat
  BY <1>0 DEF W!HealthDetail, W!When, W!Minus
<1> QED BY <1>1, <1>2, <1>3, <1>4, <1>5, <1>6, <1>7 DEF W!DetailLengths, c, r

\* What is drawn, as the code can be asked to draw it.
Drawable ==
  /\ W!Columns \in Nat /\ W!Columns >= 36 /\ W!Height \in Nat /\ W!Height >= 10
  /\ in.count \in Nat /\ in.selected \in Nat /\ in.trend \in Nat /\ in.detail \in Nat
  /\ in.cards \in Seq(Nat)
  /\ in.view = "cockpit" => in.selected <= 8
  /\ in.view \in W!Specialists /\ in.count > 0 => in.selected < in.count
  /\ in.view = "logs" => in.trend <= 1
  /\ in.loading /\ in.view \in W!Specialists => in.count = 0

LEMMA ScreenStarts == W!Init => Drawable /\ drawn = W!Nothing
<1> SUFFICES ASSUME W!Init PROVE Drawable
  BY DEF W!Init
<1>1. PICK s \in Terminals, c \in Counts : W!CockpitInput(s, c) \/ \E v \in W!Specialists : W!SpecialistInput(v, s, c)
  BY DEF W!Init
<1>2. s[1] \in Nat /\ s[1] >= 36 /\ s[2] \in Nat /\ s[2] >= 10 /\ c \in Nat
  BY DisplayAssumption DEF W!ScreenAssumption
<1>3. CASE W!CockpitInput(s, c)
  <2>1. PICK p \in {0, 4, 8}, l \in BOOLEAN, m \in W!Modes("cockpit"), t \in {0, 3}, d \in {0, 1, 30},
             k \in CardSets :
        in = [view |-> "cockpit", size |-> s, count |-> c, selected |-> p, inspecting |-> FALSE,
              loading |-> l, mode |-> m, trend |-> t, detail |-> d, cards |-> k]
    BY <1>3 DEF W!CockpitInput
  <2>2. k \in Seq(Nat)
    BY DisplayAssumption DEF W!ScreenAssumption
  <2>3. /\ in.view = "cockpit" /\ in.size = s /\ in.count = c /\ in.selected = p /\ in.trend = t
        /\ in.detail = d /\ in.cards = k
    BY <2>1
  <2>4. "cockpit" \notin W!Specialists
    BY DEF W!Specialists
  <2> QED BY ONLY <1>2, <2>2, <2>3, <2>4, p \in {0, 4, 8}, t \in {0, 3}, d \in {0, 1, 30}
          DEF Drawable, W!Columns, W!Height
<1>4. CASE \E v \in W!Specialists : W!SpecialistInput(v, s, c)
  <2>1. PICK v \in W!Specialists : W!SpecialistInput(v, s, c)
    BY <1>4
  <2>2. PICK p \in W!Places(c), i \in BOOLEAN, l \in BOOLEAN, m \in W!Modes(v), t \in W!Trends(v) :
        \E d \in IF i \/ s[1] >= 150 THEN W!Extremes(W!DetailLengths(v, s)) ELSE {0},
           k \in IF i \/ s[1] >= 150 THEN CardSets ELSE {<<>>} :
            /\ l => c = 0
            /\ i => c > 0
            /\ in = [view |-> v, size |-> s, count |-> c, selected |-> p, inspecting |-> i,
                     loading |-> l, mode |-> m, trend |-> t, detail |-> d, cards |-> k]
    BY <2>1 DEF W!SpecialistInput
  <2>3. PICK d \in IF i \/ s[1] >= 150 THEN W!Extremes(W!DetailLengths(v, s)) ELSE {0},
             k \in IF i \/ s[1] >= 150 THEN CardSets ELSE {<<>>} :
            /\ l => c = 0
            /\ in = [view |-> v, size |-> s, count |-> c, selected |-> p, inspecting |-> i,
                     loading |-> l, mode |-> m, trend |-> t, detail |-> d, cards |-> k]
    BY <2>2
  <2>4. /\ in.view = v /\ in.size = s /\ in.count = c /\ in.selected = p /\ in.trend = t
        /\ in.detail = d /\ in.cards = k /\ in.loading = l
    BY <2>3
  <2>5. k \in Seq(Nat)
    <3>1. CardSets \subseteq Seq(Nat)
      BY DisplayAssumption DEF W!ScreenAssumption
    <3>2. CASE i \/ s[1] >= 150
      BY <3>1, <3>2
    <3>3. CASE ~(i \/ s[1] >= 150)
      <4>1. k = <<>>
        BY <3>3
      <4> QED BY <4>1
    <3> QED BY <3>2, <3>3
  <2>6. d \in Nat
    BY <1>2, DetailsAreCounted DEF W!Extremes
  <2>7. p \in Nat /\ (c > 0 => p < c)
    BY <1>2 DEF W!Places, W!Minus
  <2>8. t \in Nat /\ (v = "logs" => t <= 1)
    BY DEF W!Trends
  <2>9. v # "cockpit"
    BY DEF W!Specialists
  <2> QED BY ONLY <1>2, <2>3, <2>4, <2>5, <2>6, <2>7, <2>8, <2>9 DEF Drawable, W!Columns, W!Height
<1> QED BY <1>1, <1>3, <1>4

-----------------------------------------------------------------------------
(* Lists *)

\* A list that fits: the selected row is one of its lines.
InList(list, most) ==
  /\ list.lines \in Nat /\ list.cursor \in Nat /\ list.cut = FALSE
  /\ 1 <= list.cursor /\ list.cursor <= list.lines /\ list.lines <= most

LEMMA ListShowsSelected ==
  ASSUME Drawable, in.selected < in.count, NEW above \in Nat, NEW each \in {1, 2}, NEW cap \in Nat, cap >= 1
  PROVE  InList(W!List(above, each, cap), above + each * cap)
<1> DEFINE s == in.selected
           n == in.count
           start == W!ViewportStart(s, n, cap)
<1>0. s \in Nat /\ n \in Nat /\ s < n
  BY DEF Drawable
<1>1. start \in Nat /\ start <= s /\ s - start < cap /\ start < n
  BY <1>0 DEF W!ViewportStart, W!Smaller, W!Minus
<1> DEFINE visible == W!Smaller(cap, n - start)
<1>2. W!List(above, each, cap) =
        [lines |-> above + each * visible,
         cursor |-> IF s - start < cap THEN above + each * (s - start) + 1 ELSE 0,
         cut |-> FALSE]
  BY DEF W!List
<1>3. visible \in Nat /\ visible <= cap /\ s - start < visible
  BY <1>0, <1>1 DEF W!Smaller
<1> HIDE DEF s, n, start, visible
<1>4. /\ W!List(above, each, cap).lines = above + each * visible
      /\ W!List(above, each, cap).cursor = above + each * (s - start) + 1
      /\ W!List(above, each, cap).cut = FALSE
  BY <1>1, <1>2
<1>5. CASE each = 1
  BY <1>0, <1>1, <1>3, <1>4, <1>5 DEF InList
<1>6. CASE each = 2
  BY <1>0, <1>1, <1>3, <1>4, <1>6 DEF InList
<1> QED BY <1>5, <1>6

\* The labels of the sections take three lines at most.
LEMMA SectionLines ==
  ASSUME NEW width \in Nat, width >= 36
  PROVE  W!SectionNav(width) \in 1..3
<1> DEFINE P1 == W!PutLabel(<<1, 10>>, 11, width)
           P2 == W!PutLabel(P1, 5, width)
           P3 == W!PutLabel(P2, 7, width)
           P4 == W!PutLabel(P3, 8, width)
           P5 == W!PutLabel(P4, 14, width)
<1>1. P1 = <<1, 23>>
  BY DEF W!PutLabel, W!Minus
<1> HIDE DEF P1
<1>2. P2 = <<1, 30>>
  BY <1>1 DEF W!PutLabel, W!Minus
<1> HIDE DEF P2
<1>3. P3 \in {<<1, 39>>, <<2, 9>>}
  BY <1>2 DEF W!PutLabel, W!Minus
<1> HIDE DEF P3
<1>4. P4 \in {<<1, 49>>, <<2, 10>>, <<2, 19>>}
  <2>1. CASE P3 = <<1, 39>>
    BY <2>1 DEF W!PutLabel, W!Minus
  <2>2. CASE P3 = <<2, 9>>
    BY <2>2 DEF W!PutLabel, W!Minus
  <2> QED BY <1>3, <2>1, <2>2
<1> HIDE DEF P4
<1>5. P5[1] \in 1..3
  <2>1. CASE P4 = <<1, 49>>
    BY <2>1 DEF W!PutLabel, W!Minus
  <2>2. CASE P4 = <<2, 10>>
    BY <2>2 DEF W!PutLabel, W!Minus
  <2>3. CASE P4 = <<2, 19>>
    BY <2>3 DEF W!PutLabel, W!Minus
  <2> QED BY <1>4, <2>1, <2>2, <2>3
<1> QED BY <1>5 DEF W!SectionNav, P1, P2, P3, P4

LEMMA OneLineEach ==
  ASSUME Drawable, in.selected < in.count, NEW above \in Nat, NEW cap \in Nat, cap >= 1
  PROVE  InList(W!List(above, 1, cap), above + cap)
<1>1. InList(W!List(above, 1, cap), above + 1 * cap)
  BY ListShowsSelected
<1> QED BY <1>1

\* Every list, and the lines it leaves for a body on fifteen rows and more.
LEMMA ListsFit ==
  ASSUME Drawable, in.view \in W!Specialists, in.count > 0, NEW rows \in Nat, NEW width \in Nat, width >= 36
  PROVE  \E most \in Nat : InList(W!RawList(rows, width), most) /\ (rows >= 15 => most <= rows - 9)
<1>0. in.selected < in.count /\ in.count # 0
  BY DEF Drawable
<1>a. \A a \in Nat : W!Larger(W!Minus(rows, a), 1) \in Nat /\ W!Larger(W!Minus(rows, a), 1) >= 1
  BY DEF W!Larger, W!Minus
<1> DEFINE Most(n) == W!Larger(W!Minus(rows, n), 1)
<1>b. \A n \in Nat : Most(n) \in Nat /\ Most(n) >= 1 /\ (rows > n => Most(n) = rows - n) /\ (rows <= n => Most(n) = 1)
  BY DEF W!Larger, W!Minus
<1> HIDE DEF Most
<1>1. ASSUME NEW above \in Nat, NEW cap \in Nat, cap >= 1, rows >= 15 => above + cap <= rows - 9,
             W!RawList(rows, width) = W!List(above, 1, cap)
      PROVE  \E most \in Nat : InList(W!RawList(rows, width), most) /\ (rows >= 15 => most <= rows - 9)
  <2>1. InList(W!RawList(rows, width), above + cap)
    BY <1>0, <1>1, OneLineEach
  <2>2. above + cap \in Nat
    BY <1>1
  <2> QED BY <1>1, <2>1, <2>2
<1>2. CASE in.view = "logs"
  <2> DEFINE trend == W!Trend(in.trend, 5)
             below == W!Minus(rows, trend)
             cap == W!Larger(W!Minus(below, 10), 1)
             list == W!List(1, 1, cap)
  <2>1. trend \in {0, 4}
    BY <1>2 DEF Drawable, W!Trend, W!Smaller
  <2>2. below \in Nat /\ cap \in Nat /\ cap >= 1 /\ (rows >= 15 => cap <= Most(10 + trend))
    <3>1. CASE trend = 0
      BY <3>1 DEF Most, W!Larger, W!Minus
    <3>2. CASE trend = 4
      BY <3>2 DEF Most, W!Larger, W!Minus
    <3> QED BY <2>1, <3>1, <3>2
  <2>3. W!RawList(rows, width) =
          [list EXCEPT !.lines = @ + trend, !.cursor = IF @ = 0 THEN 0 ELSE @ + trend]
    BY <1>0, <1>2 DEF W!RawList, W!LogList
  <2>4. InList(list, 1 + cap)
    BY <1>0, <2>2, OneLineEach
  <2>5. list = [lines |-> list.lines, cursor |-> list.cursor, cut |-> list.cut]
    BY DEF W!List
  <2> HIDE DEF list, cap, below, trend
  <2>6. /\ W!RawList(rows, width).lines = list.lines + trend
        /\ W!RawList(rows, width).cursor = IF list.cursor = 0 THEN 0 ELSE list.cursor + trend
        /\ W!RawList(rows, width).cut = list.cut
    BY <2>3, <2>5
  <2>7. InList(W!RawList(rows, width), 1 + cap + trend)
    BY <2>1, <2>2, <2>4, <2>6 DEF InList
  <2>8. rows >= 15 => 1 + cap + trend <= rows - 9
    BY <1>b, <2>1, <2>2
  <2> QED BY <2>1, <2>2, <2>7, <2>8
<1>3. CASE in.view \in {"services", "disk"}
  <2>1. W!RawList(rows, width) = W!List(1, 1, Most(10))
    BY <1>0, <1>3 DEF W!RawList, W!ServiceList, W!DiskList, Most
  <2> QED BY <1>1, <1>b, <2>1
<1>4. CASE in.view = "containers"
  <2>0. W!RawList(rows, width) = W!ContainerList(rows, width)
    BY <1>0, <1>4 DEF W!RawList
  <2>1. CASE W!RawList(rows, width) = W!List(1, 1, Most(10))
    BY <1>1, <1>b, <2>1
  <2>2. CASE W!RawList(rows, width) = W!List(1, 1, W!Larger(W!Minus(rows, 10) \div 1, 1))
    <3>1. W!Minus(rows, 10) \div 1 = W!Minus(rows, 10)
      BY CountsOfLines
    <3> QED BY <2>1, <2>2, <3>1 DEF Most
  <2>3. CASE W!RawList(rows, width) = W!List(1, 2, W!Larger(W!Minus(rows, 10) \div 2, 1))
    <3> DEFINE half == W!Larger(W!Minus(rows, 10) \div 2, 1)
    <3>1. half \in Nat /\ half >= 1 /\ (rows >= 15 => 1 + 2 * half <= rows - 9)
      BY DEF W!Larger, W!Minus
    <3> HIDE DEF half
    <3>2. InList(W!List(1, 2, half), 1 + 2 * half)
      BY <1>0, <3>1, ListShowsSelected
    <3> QED BY <2>3, <3>1, <3>2 DEF half
  <2> QED BY <2>0, <2>1, <2>2, <2>3 DEF W!ContainerList, Most
<1>5. CASE in.view = "net"
  <2> DEFINE t == CASE in.mode = "known" -> IF width >= 70 THEN 3 ELSE 1
                    [] in.mode = "collecting" -> 1
                    [] OTHER -> 0
             v == IF in.mode = "known" /\ width >= 70 THEN 3 ELSE 1
  <2>1. W!RawList(rows, width) = W!List(t + 1, 1, Most(10 + v))
    BY <1>0, <1>5 DEF W!RawList, W!NetList, Most
  <2>2. t \in Nat /\ v \in Nat /\ t <= v /\ v <= 3
    OBVIOUS
  <2> HIDE DEF t, v
  <2>3. Most(10 + v) \in Nat /\ Most(10 + v) >= 1 /\ (rows >= 15 => t + 1 + Most(10 + v) <= rows - 9)
    BY <1>b, <2>2
  <2>4. t + 1 \in Nat
    BY <2>2
  <2> QED BY <1>1, <2>1, <2>3, <2>4
<1>6. CASE in.view \in {"health", "hardware"}
  <2>1. W!RawList(rows, width) = W!List(2, 1, Most(11))
    BY <1>0, <1>6 DEF W!RawList, W!HealthList, W!HardwareList, Most
  <2> QED BY <1>1, <1>b, <2>1
<1>7. CASE in.view = "system"
  <2> DEFINE nav == W!SectionNav(width)
             k == IF rows >= 40 /\ width >= 95 THEN 5 ELSE 0
  <2>1. W!RawList(rows, width) = W!List(k + nav + 2, 1, Most(12 + nav + k))
    BY <1>0, <1>7 DEF W!RawList, W!SystemList, Most
  <2>2. nav \in 1..3 /\ k \in {0, 5} /\ (k = 5 => rows >= 40)
    BY SectionLines
  <2> HIDE DEF nav, k
  <2>3. /\ Most(12 + nav + k) \in Nat /\ Most(12 + nav + k) >= 1
        /\ rows >= 15 => k + nav + 2 + Most(12 + nav + k) <= rows - 9
    <3> DEFINE n == 12 + nav + k
    <3>1. n \in Nat /\ n = 12 + nav + k
      BY <2>2
    <3> HIDE DEF n
    <3>2. Most(n) \in Nat /\ Most(n) >= 1 /\ (rows > n => Most(n) = rows - n) /\ (rows <= n => Most(n) = 1)
      BY <1>b, <3>1
    <3>3. rows >= 15 => k + nav + 2 + Most(n) <= rows - 9
      BY <2>2, <3>1, <3>2
    <3> QED BY <3>1, <3>2, <3>3
  <2>4. k + nav + 2 \in Nat
    BY <2>2
  <2> QED BY <1>1, <2>1, <2>3, <2>4
<1> QED BY <1>2, <1>3, <1>4, <1>5, <1>6, <1>7 DEF W!Specialists

-----------------------------------------------------------------------------
(* Details *)

\* The bands take no more lines than there are.
IsLeft(lines, bands, budget, extra) ==
  lines = [b \in 0..Len(bands) |->
             IF b = 0 THEN budget
             ELSE W!AfterBand(lines[b - 1], bands[b], Len(bands) + extra - (b - 1))]

LEMMA LeftExists ==
  ASSUME NEW bands, Len(bands) \in Nat, NEW budget, NEW extra
  PROVE  \E lines : IsLeft(lines, bands, budget, extra)
<1> DEFINE N == Len(bands)
           Is(left, k) == left = [b \in 0..k |->
                            IF b = 0 THEN budget
                            ELSE W!AfterBand(left[b - 1], bands[b], Len(bands) + extra - (b - 1))]
           T == {k \in 0..N : \E left : Is(left, k)}
<1>0. N \in Nat
  OBVIOUS
<1>1. 0 \in T
  <2>1. Is([b \in 0..0 |-> budget], 0)
    OBVIOUS
  <2>2. \E left : Is(left, 0)
    BY <2>1
  <2> HIDE DEF Is
  <2> QED BY <1>0, <2>2
<1>2. ASSUME NEW k \in 1..N, k - 1 \in T PROVE k \in T
  <2>1. PICK left : Is(left, k - 1)
    BY <1>2
  <2> DEFINE end == W!AfterBand(left[k - 1], bands[k], Len(bands) + extra - (k - 1))
             more == [b \in 0..k |-> IF b = k THEN end ELSE left[b]]
  <2>2. ASSUME NEW b \in 0..k
        PROVE  more[b] = IF b = 0 THEN budget
                         ELSE W!AfterBand(more[b - 1], bands[b], Len(bands) + extra - (b - 1))
    <3>1. CASE b = k
      <4>1. more[b] = end /\ more[b - 1] = left[b - 1] /\ b # 0
        BY <3>1
      <4> QED BY <3>1, <4>1
    <3>2. CASE b # k
      <4>1. b \in 0..(k - 1)
        BY <3>2
      <4>2. more[b] = left[b] /\ (b # 0 => more[b - 1] = left[b - 1])
        BY <3>2
      <4> QED BY <2>1, <4>1, <4>2
    <3> QED BY <3>1, <3>2
  <2>3. Is(more, k)
    <3> HIDE DEF end
    <3> QED BY <2>2
  <2>4. \E f : Is(f, k)
    BY <2>3
  <2> HIDE DEF Is
  <2> QED BY <1>0, <2>4
<1> HIDE DEF Is, T, N
<1>3. \A k \in 0..N : k \in T
  <2> QED BY ONLY <1>0, <1>1, <1>2, UpTo
<1>4. N \in T
  BY <1>0, <1>3
<1>5. \E left : Is(left, N)
  BY <1>4 DEF T
<1> QED BY <1>5 DEF Is, N, IsLeft

LEMMA LeftDef ==
  ASSUME NEW bands, Len(bands) \in Nat, NEW budget, NEW extra
  PROVE  /\ W!LeftAfter(bands, budget, extra)[0] = budget
         /\ \A b \in 1..Len(bands) :
              W!LeftAfter(bands, budget, extra)[b] =
                W!AfterBand(W!LeftAfter(bands, budget, extra)[b - 1], bands[b],
                            Len(bands) + extra - (b - 1))
<1> DEFINE f == W!LeftAfter(bands, budget, extra)
<1>1. \E lines : IsLeft(lines, bands, budget, extra)
  BY LeftExists
<1>2. f = CHOOSE lines : IsLeft(lines, bands, budget, extra)
  BY DEF W!LeftAfter, IsLeft
<1>3. f = [b \in 0..Len(bands) |->
             IF b = 0 THEN budget
             ELSE W!AfterBand(f[b - 1], bands[b], Len(bands) + extra - (b - 1))]
  <2> HIDE DEF f
  <2>1. IsLeft(f, bands, budget, extra)
    BY <1>1, <1>2
  <2> QED BY <2>1 DEF IsLeft
<1> HIDE DEF f
<1>4. f[0] = budget
  BY <1>3
<1>5. ASSUME NEW b \in 1..Len(bands)
      PROVE  f[b] = W!AfterBand(f[b - 1], bands[b], Len(bands) + extra - (b - 1))
  <2>1. b \in 0..Len(bands) /\ b # 0
    OBVIOUS
  <2> QED BY <1>3, <2>1
<1> QED BY <1>4, <1>5 DEF f

LEMMA PartOf ==
  ASSUME NEW a \in Nat, NEW k \in Nat, k >= 1
  PROVE  a \div k \in Nat /\ a \div k <= a
OBVIOUS

LEMMA BandFits ==
  ASSUME NEW lines \in Nat, NEW band \in Nat, NEW sharing \in Nat, sharing >= 1
  PROVE  W!AfterBand(lines, band, sharing) \in 0..lines
<1> DEFINE q == lines \div sharing
           share == W!Larger(W!Minus(q, 3), 2)
           taken == W!Smaller(band, share)
<1>1. q \in Nat /\ q <= lines
  BY PartOf
<1>2. W!AfterBand(lines, band, sharing) = IF lines < 5 THEN lines ELSE lines - (taken + 3)
  BY DEF W!AfterBand
<1> HIDE DEF q
<1>3. share \in Nat /\ (share = 2 \/ share <= q - 3)
  BY <1>1 DEF W!Larger, W!Minus
<1> HIDE DEF share
<1>4. taken \in Nat /\ taken <= share
  BY <1>3 DEF W!Smaller
<1> HIDE DEF taken
<1> QED BY <1>1, <1>2, <1>3, <1>4

LEMMA StackFits ==
  ASSUME NEW bands \in Seq(Nat), NEW budget \in Nat, NEW extra \in Nat
  PROVE  W!Stack(bands, budget, extra) \in 0..budget
<1> DEFINE N == Len(bands)
           left == W!LeftAfter(bands, budget, extra)
           T == {b \in 0..N : left[b] \in 0..budget}
<1>0. N \in Nat /\ \A b \in 1..N : bands[b] \in Nat
  OBVIOUS
<1>1. /\ left[0] = budget
      /\ \A b \in 1..N : left[b] = W!AfterBand(left[b - 1], bands[b], N + extra - (b - 1))
  BY <1>0, LeftDef
<1> HIDE DEF left, N
<1>2. 0 \in T
  BY <1>0, <1>1
<1>3. ASSUME NEW b \in 1..N, b - 1 \in T PROVE b \in T
  <2> DEFINE l == left[b - 1]
             k == N + extra - (b - 1)
  <2>1. l \in 0..budget /\ k \in Nat /\ k >= 1 /\ bands[b] \in Nat
    BY <1>0, <1>3
  <2>2. left[b] = W!AfterBand(l, bands[b], k)
    BY <1>1
  <2> HIDE DEF l, k
  <2>3. l \in Nat
    BY <2>1
  <2>4. left[b] \in 0..l
    BY <2>1, <2>2, <2>3, BandFits
  <2> QED BY <1>0, <2>1, <2>4
<1> HIDE DEF T
<1>4. N \in Nat
  BY <1>0
<1>5. \A b \in 0..N : b \in T
  <2> QED BY ONLY <1>2, <1>3, <1>4, UpTo
<1>6. left[N] \in 0..budget
  BY <1>4, <1>5 DEF T
<1> QED BY <1>6 DEF W!Stack, left, N

LEMMA BandsAreCounted ==
  ASSUME NEW cards \in Seq(Nat), NEW columns \in {1, 2}
  PROVE  W!Bands(cards, columns) \in Seq(Nat)
<1>1. CASE columns = 1
  BY <1>1 DEF W!Bands
<1>2. CASE columns = 2
  <2> DEFINE n == Len(cards)
             m == W!Ceil(n, 2)
             bands == [b \in 1..m |-> IF 2 * b > n THEN cards[2 * b - 1]
                                      ELSE W!Larger(cards[2 * b - 1], cards[2 * b])]
  <2>1. n \in Nat /\ \A i \in 1..n : cards[i] \in Nat
    OBVIOUS
  <2>2. W!Bands(cards, columns) = bands
    BY <1>2 DEF W!Bands
  <2> HIDE DEF n
  <2>3. m \in Nat /\ 2 * m <= n + 1
    BY <2>1 DEF W!Ceil
  <2>4. ASSUME NEW b \in 1..m PROVE bands[b] \in Nat
    <3>1. 2 * b - 1 \in 1..n
      BY <2>1, <2>3
    <3>2. cards[2 * b - 1] \in Nat
      BY <2>1, <3>1
    <3>3. CASE 2 * b > n
      BY <3>2, <3>3
    <3>4. CASE ~(2 * b > n)
      <4>1. 2 * b \in 1..n
        BY <2>1, <2>3, <3>4
      <4>2. cards[2 * b] \in Nat
        BY <2>1, <4>1
      <4>3. W!Larger(cards[2 * b - 1], cards[2 * b]) \in Nat
        BY <3>2, <4>2 DEF W!Larger
      <4> QED BY <3>4, <4>3
    <3> QED BY <3>3, <3>4
  <2> HIDE DEF m
  <2>5. bands \in [1..m -> Nat]
    BY <2>4
  <2> QED BY <2>2, <2>3, <2>5
<1> QED BY <1>1, <1>2

LEMMA RelatedFits ==
  ASSUME Drawable, NEW budget \in Nat, NEW width \in Nat
  PROVE  W!Related(budget, width) \in 0..budget
<1>1. \A columns \in {1, 2} : W!Stack(W!Bands(in.cards, columns), budget, 0) \in 0..budget
  BY BandsAreCounted, StackFits DEF Drawable
<1> QED BY <1>1 DEF W!Related

LEMMA TrendFits ==
  ASSUME NEW lines \in Nat, NEW budget \in Nat
  PROVE  W!Trend(lines, budget) \in 0..budget
BY DEF W!Trend, W!Smaller

\* What is added under a detail has the lines that are left, or none.
LEMMA DetailLines ==
  ASSUME Drawable, NEW rows \in Nat, NEW width \in Nat, NEW above \in Nat
  PROVE  /\ W!RawDetail(rows, width, above).lines \in Nat
         /\ W!RawDetail(rows, width, above).cursor = 0 /\ W!RawDetail(rows, width, above).cut = FALSE
         /\ \/ W!RawDetail(rows, width, above).lines = in.detail
            \/ W!RawDetail(rows, width, above).lines + above + 9 <= rows
<1> DEFINE first == above + in.detail
           t == W!Trend(in.trend, W!Minus(rows, first + 9))
           second == first + t
           c == W!Related(W!Minus(rows, second + 9), width)
<1>1. first \in Nat /\ in.trend \in Nat /\ in.detail \in Nat
  BY DEF Drawable
<1>2. first + 9 \in Nat
  BY <1>1
<1>3. W!Minus(rows, first + 9) \in Nat
  BY <1>2, CountsOfLines
<1>4. t \in 0..W!Minus(rows, first + 9)
  BY <1>1, <1>3, TrendFits
<1>5. W!RawDetail(rows, width, above) = [lines |-> second + c - above, cursor |-> 0, cut |-> FALSE]
  BY DEF W!RawDetail, W!Text
<1> HIDE DEF t
<1>6. t \in Nat /\ (t = 0 \/ first + t + 9 <= rows)
  BY <1>1, <1>3, <1>4 DEF W!Minus
<1>7. second \in Nat /\ second + 9 \in Nat
  BY <1>1, <1>6
<1>8. W!Minus(rows, second + 9) \in Nat
  BY <1>7, CountsOfLines
<1>9. c \in 0..W!Minus(rows, second + 9)
  BY <1>8, RelatedFits
<1> HIDE DEF second, c
<1>10. c \in Nat /\ (c = 0 \/ second + c + 9 <= rows)
  BY <1>7, <1>8, <1>9 DEF W!Minus
<1> HIDE DEF first
<1>11. second + c - above \in Nat /\ (second + c - above = in.detail \/ second + c - above + above + 9 <= rows)
  <2>1. second = first + t /\ first = above + in.detail
    BY DEF second, first
  <2> QED BY <1>1, <1>6, <1>10, <2>1
<1> QED BY <1>5, <1>11

-----------------------------------------------------------------------------
(* Bodies and frames *)

LEMMA ListLines ==
  ASSUME Drawable, in.view \in W!Specialists, NEW rows \in Nat, NEW width \in Nat, width >= 36
  PROVE  W!RawList(rows, width).lines \in Nat /\ W!RawList(rows, width).cursor \in Nat
<1>1. CASE in.count = 0
  BY <1>1 DEF W!RawList, W!Text
<1>2. CASE in.count > 0
  BY <1>2, ListsFit DEF InList
<1> QED BY <1>1, <1>2 DEF Drawable

\* A body has its share of the lines at most.
LEMMA BodyBounded ==
  ASSUME Drawable, in.view \in W!Specialists, NEW inspecting, NEW rows \in Nat, NEW width \in Nat,
         width >= 36, NEW above \in Nat
  PROVE  /\ W!Body(inspecting, rows, width, above).lines \in Nat
         /\ W!Body(inspecting, rows, width, above).cursor \in Nat
         /\ W!Body(inspecting, rows, width, above).lines <= W!Larger(W!Minus(rows, 9), 1)
<1> DEFINE most == W!Larger(W!Minus(rows, 9), 1)
           raw == IF inspecting /\ ~in.loading THEN W!RawDetail(rows, width, above)
                  ELSE W!RawList(rows, width)
<1>1. most \in Nat
  BY DEF W!Larger, W!Minus
<1>2. raw.lines \in Nat /\ raw.cursor \in Nat
  <2>1. CASE inspecting /\ ~in.loading
    <3>1. raw = W!RawDetail(rows, width, above)
      BY <2>1
    <3>2. W!RawDetail(rows, width, above).lines \in Nat /\ W!RawDetail(rows, width, above).cursor = 0
      BY DetailLines
    <3> QED BY <3>1, <3>2
  <2>2. CASE ~(inspecting /\ ~in.loading)
    BY <2>2, ListLines
  <2> QED BY <2>1, <2>2
<1>3. W!Body(inspecting, rows, width, above) = W!BoundBody(raw, most)
  BY DEF W!Body
<1> HIDE DEF raw, most
<1>4. CASE raw.lines <= most
  BY <1>1, <1>2, <1>3, <1>4 DEF W!BoundBody, most
<1>5. CASE ~(raw.lines <= most)
  <2>1. W!BoundBody(raw, most) =
          [lines |-> most, cursor |-> IF raw.cursor < most THEN raw.cursor ELSE 0, cut |-> TRUE]
    BY <1>5 DEF W!BoundBody
  <2> QED BY <1>1, <1>2, <1>3, <2>1 DEF most
<1> QED BY <1>4, <1>5

\* From fifteen rows on a list is whole, with the selected row in it.
LEMMA ListBody ==
  ASSUME Drawable, in.view \in W!Specialists, in.count > 0, NEW rows \in Nat, rows >= 15,
         NEW width \in Nat, width >= 36, NEW above \in Nat
  PROVE  InList(W!Body(FALSE, rows, width, above), rows - 9)
<1> DEFINE most == W!Larger(W!Minus(rows, 9), 1)
           raw == W!RawList(rows, width)
<1>1. InList(raw, rows - 9)
  <2>1. PICK n \in Nat : InList(raw, n) /\ n <= rows - 9
    BY ListsFit
  <2> HIDE DEF raw
  <2> QED BY <2>1 DEF InList
<1>2. most = rows - 9
  BY DEF W!Larger, W!Minus
<1>3. W!Body(FALSE, rows, width, above) = W!BoundBody(raw, most)
  BY DEF W!Body
<1> HIDE DEF raw, most
<1>4. W!BoundBody(raw, most) = raw
  BY <1>1, <1>2 DEF W!BoundBody, InList
<1> QED BY <1>1, <1>3, <1>4

LEMMA OneLineOfKeys ==
  ASSUME Drawable
  PROVE  /\ W!Ceil(W!KeysLine, W!Columns) \in 1..2
         /\ W!Columns >= 46 \/ ~in.inspecting => W!Ceil(W!KeysLine, W!Columns) = 1
<1> DEFINE c == W!Columns
           k == W!KeysLine
<1>1. c \in Nat /\ c >= 36 /\ k \in {45, 30} /\ (k = 45 => in.inspecting)
  BY DEF Drawable, W!KeysLine
<1> HIDE DEF c, k
<1>2. CASE k = 30
  BY <1>1, <1>2 DEF W!Ceil, c, k
<1>3. CASE k = 45
  BY <1>1, <1>3 DEF W!Ceil, c, k
<1> QED BY <1>1, <1>2, <1>3

\* What is written fits if it leaves five lines, and the last line is above the footer.
LEMMA EndsAbove ==
  ASSUME Drawable, NEW written \in Nat, written + 4 <= W!Height, W!Height >= 30 => written + 3 <= W!Height,
         NEW footer, footer = 1
  PROVE  W!Finish(written, footer).scrolled = 0 /\ W!Finish(written, footer).last = written
<1> DEFINE h == W!Height
<1>1. h \in Nat
  BY DEF Drawable
<1>2. W!Finish(written, footer) =
        IF h < 30 THEN [scrolled |-> W!Minus(written + 3 + footer, h), last |-> written]
        ELSE [scrolled |-> W!Minus(written, h - 1) + (footer - 1),
              last |-> W!Smaller(written, W!Minus(written, h - 1) + h - 3)]
  BY DEF W!Finish, W!FinishAfter
<1> HIDE DEF h
<1>3. W!Minus(written + 3 + footer, h) = 0 /\ W!Minus(written, h - 1) + (footer - 1) = 0
  BY <1>1 DEF W!Minus, h
<1>4. h >= 30 => W!Smaller(written, W!Minus(written, h - 1) + h - 3) = written
  BY <1>1 DEF W!Minus, W!Smaller, h
<1>5. CASE h < 30
  BY <1>2, <1>3, <1>5
<1>6. CASE ~(h < 30)
  BY <1>1, <1>2, <1>3, <1>4, <1>6
<1> QED BY <1>5, <1>6

LEMMA Heading ==
  ASSUME Drawable
  PROVE  /\ W!Summary \in {0, 1} /\ W!Above \in {4, 5} /\ W!Above = 4 + W!Summary
         /\ W!Summary = 1 => W!Height >= 26
BY DEF W!Summary, W!Above, W!When

LEMMA Beside ==
  ASSUME Drawable, in.view \in W!Specialists, W!Split
  PROVE  /\ InList([lines |-> W!BesideBody.lines, cursor |-> W!BesideBody.cursor, cut |-> FALSE],
                   W!Height - W!Summary - 9)
<1> DEFINE rows == W!Height - W!Summary
           left == W!LeftColumns
           right == W!Columns - 7 - left
           list == W!Body(FALSE, rows, left, 0)
           pane == W!Body(TRUE, rows - 1, right, 1)
           room == W!Minus(W!Height, W!Above + 4)
           lines == W!Smaller(W!Larger(list.lines, pane.lines + 1), room)
<1>1. W!Columns \in Nat /\ W!Columns >= 150 /\ W!Height \in Nat /\ W!Height >= 32 /\ in.count > 0
  BY DEF W!Split, Drawable
<1>2. rows \in Nat /\ rows >= 31 /\ rows - 1 \in Nat /\ W!Height = rows + W!Summary
      /\ W!Summary \in {0, 1} /\ W!Above = 4 + W!Summary
  BY <1>1, Heading
<1>3. left \in Nat /\ left >= 36 /\ right \in Nat /\ right >= 36
  BY <1>1 DEF W!LeftColumns
<1> HIDE DEF rows, left, right
<1>4. InList(list, rows - 9)
  <2>1. rows \in Nat /\ rows >= 15 /\ left \in Nat /\ left >= 36 /\ in.count > 0 /\ 0 \in Nat
    BY <1>1, <1>2, <1>3
  <2> QED BY <2>1, ListBody
<1>5. pane.lines \in Nat /\ pane.lines <= rows - 10
  <2>1. pane.lines \in Nat /\ pane.lines <= W!Larger(W!Minus(rows - 1, 9), 1)
    BY <1>2, <1>3, BodyBounded
  <2>2. W!Larger(W!Minus(rows - 1, 9), 1) = rows - 10
    BY <1>2 DEF W!Larger, W!Minus
  <2> QED BY <2>1, <2>2
<1> HIDE DEF list, pane
<1>6. room \in Nat /\ room >= rows - 9
  BY <1>1, <1>2 DEF W!Minus
<1> HIDE DEF room
<1>7. lines \in Nat /\ lines >= list.lines /\ lines <= rows - 9
  <2>1. list.lines \in Nat /\ list.lines <= rows - 9
    BY <1>4 DEF InList
  <2> QED BY <1>2, <1>5, <1>6, <2>1 DEF W!Smaller, W!Larger
<1>8. W!BesideBody = [lines |-> lines, cursor |-> IF list.cursor <= room THEN list.cursor ELSE 0,
                      cut |-> list.cut \/ pane.cut]
  BY DEF W!BesideBody, rows, left, right, list, pane, room
<1>9. list.cursor <= room /\ list.cursor \in Nat /\ 1 <= list.cursor /\ list.cursor <= list.lines
      /\ list.lines \in Nat
  BY <1>2, <1>4, <1>6 DEF InList
<1> HIDE DEF lines
<1>10. W!BesideBody.lines = lines /\ W!BesideBody.cursor = list.cursor
  BY <1>8, <1>9
<1>11. W!Height - W!Summary - 9 = rows - 9
  BY DEF rows
<1> QED BY <1>7, <1>9, <1>10, <1>11 DEF InList

\* Nothing of a view is lost: see FrameFits, SelectedOnScreen, CardsNeverCut.
LEMMA SpecialistFits ==
  ASSUME Drawable, in.view \in W!Specialists
  PROVE  /\ W!Columns >= 46 => /\ W!SpecialistFrame.scrolled = 0
                               /\ W!SpecialistFrame.last = W!SpecialistFrame.lines
         /\ in.count > 0 /\ ~in.inspecting /\ W!Height >= 15 =>
              /\ W!SpecialistFrame.cursor > W!SpecialistFrame.scrolled
              /\ W!SpecialistFrame.cursor <= W!SpecialistFrame.last
         /\ in.inspecting /\ in.count > 0 /\ in.detail <= W!Minus(W!Height, 10) =>
              ~W!SpecialistFrame.cut
<1> DEFINE rows == W!Height - W!Summary
           whole == W!Body(in.inspecting, rows, W!Columns, W!Above)
           body == IF W!Split THEN W!BesideBody ELSE whole
           written == W!Above + body.lines
           footer == W!Ceil(W!KeysLine, W!Columns)
           end == W!Finish(written, footer)
           F == W!SpecialistFrame
<1>1. /\ W!Columns \in Nat /\ W!Columns >= 36 /\ W!Height \in Nat /\ W!Height >= 10
      /\ W!Summary \in {0, 1} /\ W!Above \in {4, 5} /\ W!Above = 4 + W!Summary
      /\ W!Summary = 1 => W!Height >= 26
  BY Heading DEF Drawable
<1>2. rows \in Nat /\ rows >= 10 /\ (W!Height >= 15 => rows >= 15) /\ W!Height = rows + W!Summary
  BY <1>1
<1>3. F = [drawn |-> TRUE, lines |-> written, cursor |-> IF body.cursor = 0 THEN 0 ELSE W!Above + body.cursor,
           cut |-> body.cut, scrolled |-> end.scrolled, last |-> end.last]
  BY DEF W!SpecialistFrame, W!Framed
<1> HIDE DEF rows
<1>4. whole.lines \in Nat /\ whole.cursor \in Nat /\ whole.lines <= W!Larger(W!Minus(rows, 9), 1)
  BY <1>1, <1>2, BodyBounded
<1>5. W!Larger(W!Minus(rows, 9), 1) = rows - 9
  BY <1>2 DEF W!Larger, W!Minus
<1>6. W!Split => InList([lines |-> W!BesideBody.lines, cursor |-> W!BesideBody.cursor, cut |-> FALSE], rows - 9)
  BY Beside DEF rows
<1> HIDE DEF whole
<1>7. body.lines \in Nat /\ body.cursor \in Nat /\ body.lines <= rows - 9
  BY <1>4, <1>5, <1>6 DEF InList
<1>8. footer \in 1..2 /\ (W!Columns >= 46 \/ ~in.inspecting => footer = 1)
  BY OneLineOfKeys
<1> HIDE DEF body, footer
<1>9. written \in Nat /\ written + 5 <= W!Height
  BY <1>1, <1>2, <1>7
<1>10. footer = 1 => end.scrolled = 0 /\ end.last = written
  BY <1>1, <1>9, EndsAbove
<1> HIDE DEF written, end
<1>11. /\ F.scrolled = end.scrolled /\ F.last = end.last /\ F.lines = written /\ F.cut = body.cut
       /\ F.cursor = IF body.cursor = 0 THEN 0 ELSE W!Above + body.cursor
  BY <1>3
<1> HIDE DEF F
<1>12. W!Columns >= 46 => F.scrolled = 0 /\ F.last = F.lines
  BY <1>8, <1>10, <1>11
<1>13. ASSUME in.count > 0, ~in.inspecting, W!Height >= 15 PROVE F.cursor > F.scrolled /\ F.cursor <= F.last
  <2>1. rows >= 15
    BY <1>2, <1>13
  <2>2. 1 <= body.cursor /\ body.cursor <= body.lines
    <3>1. CASE W!Split
      BY <1>6, <3>1 DEF InList, body
    <3>2. CASE ~W!Split
      <4>1. whole = W!Body(FALSE, rows, W!Columns, W!Above)
        BY <1>13 DEF whole, W!Body
      <4>2. InList(whole, rows - 9)
        BY <1>1, <1>2, <1>13, <2>1, <4>1, ListBody
      <4> QED BY <3>2, <4>2 DEF InList, body
    <3> QED BY <3>1, <3>2
  <2>3. F.scrolled = 0 /\ F.last = W!Above + body.lines
    BY <1>8, <1>10, <1>11, <1>13 DEF written
  <2>4. F.cursor = W!Above + body.cursor
    BY <1>7, <1>11, <2>2
  <2> QED BY <1>1, <1>7, <2>2, <2>3, <2>4
<1>14. ASSUME in.inspecting, in.count > 0, in.detail <= W!Minus(W!Height, 10) PROVE ~F.cut
  <2> DEFINE raw == W!RawDetail(rows, W!Columns, W!Above)
  <2>1. ~in.loading /\ ~W!Split /\ in.detail \in Nat
    BY <1>14 DEF Drawable, W!Split
  <2>2. whole = W!BoundBody(raw, rows - 9)
    BY <1>5, <1>14, <2>1 DEF whole, W!Body
  <2>3. /\ raw.lines \in Nat /\ raw.cut = FALSE
        /\ (raw.lines = in.detail \/ raw.lines + W!Above + 9 <= rows)
    <3>1. W!Columns \in Nat /\ W!Above \in Nat /\ rows \in Nat
      BY <1>1, <1>2
    <3> QED BY <3>1, DetailLines
  <2> HIDE DEF raw
  <2>4. in.detail <= rows - 9
    BY <1>1, <1>2, <1>14, <2>1 DEF W!Minus
  <2>5. raw.lines <= rows - 9
    BY <1>1, <1>2, <2>3, <2>4
  <2>6. whole = raw
    BY <2>2, <2>5 DEF W!BoundBody
  <2> QED BY <1>11, <2>1, <2>3, <2>6 DEF body
<1> QED BY <1>12, <1>13, <1>14 DEF F

-----------------------------------------------------------------------------
(* The cockpit *)

LEMMA HeadLines ==
  ASSUME Drawable, W!Columns \notin {52, 53}
  PROVE  LET head == 3 + W!When(W!Height >= 30, 1 + W!When(in.mode # "plain", 1))
                       + W!Ceil(54, W!Columns) + W!When(W!Columns >= 52 /\ W!Height >= 30, 1)
         IN  head \in Nat /\ head <= 7
<1> DEFINE c == W!Columns
           h == W!Height
           a == W!When(h >= 30, 1 + W!When(in.mode # "plain", 1))
           b == W!When(c >= 52 /\ h >= 30, 1)
<1>1. c \in Nat /\ c >= 36 /\ c \notin {52, 53}
  BY DEF Drawable
<1>2. a \in 0..2
  BY DEF W!When
<1>3. b \in 0..1 /\ (c < 52 => b = 0)
  BY <1>1 DEF W!When
<1> HIDE DEF a, b, c
<1>4. W!Ceil(54, c) \in 1..2 /\ (c >= 54 => W!Ceil(54, c) = 1)
  BY <1>1 DEF W!Ceil
<1>5. c < 52 \/ c >= 54
  BY <1>1
<1> DEFINE d == W!Ceil(54, c)
<1> HIDE DEF d
<1>6. 3 + a + d + b \in Nat /\ 3 + a + d + b <= 7
  BY <1>2, <1>3, <1>4, <1>5 DEF d
<1> QED BY <1>6 DEF a, b, c, d, h

LEMMA ActivityAndViews ==
  ASSUME Drawable
  PROVE  /\ W!ActivityPart \in {0, 4, 8} /\ W!ExploreRows \in {3, 5, 9}
         /\ W!ActivityPart + W!ExploreRows <= 13
<1>1. W!Columns \in Nat /\ W!Height \in Nat
  BY DEF Drawable
<1>2. W!ActivityPart \in {0, 4, 8} /\ (W!ActivityPart = 8 => W!Columns >= 140 /\ W!Height >= 28)
  BY DEF W!ActivityPart, W!WideActivity
<1>3. W!Ceil(9, 1) = 9 /\ W!Ceil(9, 2) = 5 /\ W!Ceil(9, 3) = 3
  BY DEF W!Ceil
<1>4. W!ExploreRows \in {3, 5, 9} /\ (W!Columns >= 140 /\ W!Height >= 28 => W!ExploreRows # 9)
  BY <1>1, <1>3 DEF W!ExploreRows, W!ExploreColumns, W!Views
<1> QED BY <1>2, <1>4

LEMMA WorkloadLines ==
  ASSUME Drawable, W!Height < 40
  PROVE  /\ W!WorkloadsPart \in Nat
         /\ W!Height < 32 => W!WorkloadsPart = 0
         /\ W!Height \in 32..35 => W!WorkloadsPart <= W!Height - 29
         /\ W!Height \in 36..37 => W!WorkloadsPart <= 5
         /\ W!Height = 38 => W!WorkloadsPart <= 6
         /\ W!Height = 39 => W!WorkloadsPart <= 7
<1> DEFINE h == W!Height
           capacity == IF h < 36 THEN W!Larger(W!Minus(h, 31), 1)
                   ELSE W!Smaller(3 + (((h - 36) * 2) \div 3), 10)
           listed == W!Smaller(in.count, capacity)
<1>1. h \in Nat /\ h < 40 /\ in.count \in Nat
  BY DEF Drawable
<1>2. W!WorkloadsPart = IF h < 32 THEN 0 ELSE 2 + listed
  <2>1. ~(W!Columns >= 110 /\ h >= 40) /\ ~(h >= 60)
    BY <1>1
  <2>2. CASE h < 32
    BY <2>1, <2>2 DEF W!WorkloadsPart
  <2>3. CASE ~(h < 32)
    <3>1. W!WorkloadsPart = 2 + listed + W!When(h >= 60, 2 + W!Smaller(8, in.trend + 5))
      BY <2>1, <2>3 DEF W!WorkloadsPart
    <3>2. W!When(h >= 60, 2 + W!Smaller(8, in.trend + 5)) = 0
      BY <2>1 DEF W!When
    <3>3. 2 + listed \in Nat
      BY <1>1 DEF W!Smaller, W!Larger, W!Minus
    <3> HIDE DEF listed, capacity
    <3> QED BY <2>3, <3>1, <3>2, <3>3
  <2> QED BY <2>2, <2>3
<1> HIDE DEF h
<1>3. /\ capacity \in Nat
      /\ h \in 32..35 => capacity = h - 31
      /\ h \in 36..37 => capacity = 3
      /\ h = 38 => capacity = 4
      /\ h = 39 => capacity = 5
  <2>1. CASE h < 36
    BY <1>1, <2>1 DEF W!Larger, W!Minus
  <2>2. CASE h = 36
    BY <2>2 DEF W!Smaller
  <2>3. CASE h = 37
    BY <2>3 DEF W!Smaller
  <2>4. CASE h = 38
    BY <2>4 DEF W!Smaller
  <2>5. CASE h = 39
    BY <2>5 DEF W!Smaller
  <2>6. h < 36 \/ h = 36 \/ h = 37 \/ h = 38 \/ h = 39
    BY <1>1
  <2> HIDE DEF capacity
  <2> QED BY <2>1, <2>2, <2>3, <2>4, <2>5, <2>6
<1> HIDE DEF capacity
<1>4. listed \in Nat /\ listed <= capacity
  BY <1>1, <1>3 DEF W!Smaller
<1> HIDE DEF listed
<1> QED BY <1>1, <1>2, <1>3, <1>4 DEF h

LEMMA HealthLines ==
  ASSUME Drawable, W!Height < 40
  PROVE  /\ W!FindingsPart \in Nat
         /\ W!Height < 36 => W!FindingsPart <= 4
         /\ W!Height = 36 => W!FindingsPart <= 5
         /\ W!Height \in 37..39 => W!FindingsPart <= 6
<1> DEFINE h == W!Height
           c == W!Columns
           extra == W!Minus(h, 36)
           cap == 2 + (extra - ((extra * 2) \div 3))
           few == W!Smaller(in.detail, cap)
<1>1. h \in Nat /\ h < 40 /\ in.detail \in Nat /\ c \in Nat /\ c >= 36
  BY DEF Drawable
<1>2. W!FindingsPart = 2 + (IF in.loading THEN W!Ceil(67, c) ELSE 1)
                         + W!When(~in.loading /\ h >= 36, few) + W!When(~in.loading /\ h >= 40, 1 + W!When(in.mode = "limited", 1))
  BY DEF W!FindingsPart
<1> HIDE DEF h, c
<1>3. W!Ceil(67, c) \in 1..2
  BY <1>1 DEF W!Ceil
<1>4. cap \in Nat /\ (h = 36 => cap = 2) /\ (h \in 37..39 => cap = 3)
  <2>1. CASE h <= 36
    BY <1>1, <2>1 DEF W!Minus
  <2>2. CASE h = 37
    BY <2>2 DEF W!Minus
  <2>3. CASE h = 38
    BY <2>3 DEF W!Minus
  <2>4. CASE h = 39
    BY <2>4 DEF W!Minus
  <2>5. h <= 36 \/ h = 37 \/ h = 38 \/ h = 39
    BY <1>1
  <2> HIDE DEF cap
  <2> QED BY <1>1, <2>1, <2>2, <2>3, <2>4, <2>5
<1> HIDE DEF cap
<1>5. few \in Nat /\ few <= cap
  BY <1>1, <1>4 DEF W!Smaller
<1> HIDE DEF few
<1>6. CASE in.loading
  <2>1. W!FindingsPart = 2 + W!Ceil(67, c)
    BY <1>2, <1>3, <1>6 DEF W!When
  <2> QED BY <1>3, <2>1
<1>7. CASE ~in.loading
  <2>1. W!FindingsPart = IF h >= 36 THEN 3 + few ELSE 3
    BY <1>1, <1>2, <1>5, <1>7 DEF W!When
  <2> QED BY <1>1, <1>4, <1>5, <2>1 DEF h
<1> QED BY <1>6, <1>7

\* The selected view of the cockpit: see SelectedOnScreen.
LEMMA CockpitFits ==
  ASSUME Drawable, in.view = "cockpit", W!Height < 40, W!Height >= 15, W!Columns \notin {52, 53}
  PROVE  /\ W!CockpitFrame.cursor > W!CockpitFrame.scrolled
         /\ W!CockpitFrame.cursor <= W!CockpitFrame.last
<1> DEFINE h == W!Height
           head == 3 + W!When(W!Height >= 30, 1 + W!When(in.mode # "plain", 1))
                     + W!Ceil(54, W!Columns) + W!When(W!Columns >= 52 /\ W!Height >= 30, 1)
           parts == W!ActivityPart + W!WorkloadsPart + W!FindingsPart
           top == head + W!ActivityPart + W!WorkloadsPart + W!FindingsPart + 2
           n == W!ExploreRows
           used == top + n
           end == W!Finish(used, 1)
           place == in.selected % n
<1>1. h \in Nat /\ 15 <= h /\ h < 40 /\ in.selected \in Nat
  BY DEF Drawable
<1>2. head \in Nat /\ head <= 7
  BY HeadLines
<1>3. n \in {3, 5, 9} /\ W!ActivityPart \in {0, 4, 8} /\ W!ActivityPart + n <= 13
  BY ActivityAndViews
<1>4. W!WorkloadsPart \in Nat /\ W!FindingsPart \in Nat
  BY WorkloadLines, HealthLines
<1>5. h >= 30 => W!WorkloadsPart + W!FindingsPart <= h - 25
  BY <1>1, WorkloadLines, HealthLines
<1>6. W!CockpitFrame =
        W!Framed(used + W!When(~in.loading /\ h >= 50, W!DetailsPart(W!Minus(h, used + 5))),
                 top + 1 + place, FALSE,
                 W!Finish(used + W!When(~in.loading /\ h >= 50, W!DetailsPart(W!Minus(h, used + 5))), 1))
  BY DEF W!CockpitFrame
<1> HIDE DEF head, n
<1>7. top \in Nat /\ used \in Nat /\ used = top + n /\ (h >= 30 => used <= h - 3)
  BY <1>1, <1>2, <1>3, <1>4, <1>5
<1> HIDE DEF h, top, used
<1>8. place \in Nat /\ place < n
  <2>1. CASE n = 3
    BY <1>1, <2>1
  <2>2. CASE n = 5
    BY <1>1, <2>2
  <2>3. CASE n = 9
    BY <1>1, <2>3
  <2> HIDE DEF place
  <2> QED BY <1>3, <2>1, <2>2, <2>3
<1> HIDE DEF place
<1>9. used + W!When(~in.loading /\ h >= 50, W!DetailsPart(W!Minus(h, used + 5))) = used
  BY <1>1, <1>7 DEF W!When
<1>10. W!CockpitFrame = W!Framed(used, top + 1 + place, FALSE, end)
  BY <1>6, <1>9
<1>11. /\ W!CockpitFrame.cursor = top + 1 + place
       /\ W!CockpitFrame.scrolled = end.scrolled /\ W!CockpitFrame.last = end.last
  <2> HIDE DEF end
  <2> QED BY <1>10 DEF W!Framed
<1>12. CASE h < 30
  <2>1. end = [scrolled |-> W!Minus(used + 3 + 1, h), last |-> used]
    BY <1>12 DEF W!Finish, W!FinishAfter, h
  <2>2. W!Minus(used + 3 + 1, h) < top + 1
    BY <1>1, <1>3, <1>7 DEF W!Minus
  <2>3. W!Minus(used + 3 + 1, h) \in Nat
    BY <1>1, <1>7 DEF W!Minus
  <2>4. end.scrolled = W!Minus(used + 3 + 1, h) /\ end.last = used
    BY <2>1
  <2> HIDE DEF end
  <2> QED BY <1>3, <1>7, <1>8, <1>11, <2>2, <2>3, <2>4
<1>13. CASE h >= 30
  <2>1. used + 4 <= W!Height \/ used = h - 3
    BY <1>1, <1>7, <1>13 DEF h
  <2>2. end.scrolled = 0 /\ end.last = used
    <3>1. W!Minus(used, h - 1) = 0
      BY <1>1, <1>7, <1>13 DEF W!Minus
    <3>2. W!Smaller(used, 0 + h - 3) = used
      BY <1>1, <1>7, <1>13 DEF W!Smaller
    <3>3. end = [scrolled |-> W!Minus(used, h - 1) + (1 - 1),
                 last |-> W!Smaller(used, W!Minus(used, h - 1) + h - 3)]
      BY <1>1, <1>13 DEF W!Finish, h
    <3> QED BY <3>1, <3>2, <3>3
  <2> HIDE DEF end
  <2> QED BY <1>3, <1>7, <1>8, <1>11, <2>2
<1> QED BY <1>1, <1>12, <1>13

-----------------------------------------------------------------------------
(* The frame that was drawn is the one of what is drawn. *)

ScreenInv ==
  /\ Drawable
  /\ \/ drawn = W!Nothing
     \/ in.view \in W!Specialists /\ drawn = W!SpecialistFrame
     \/ in.view = "cockpit" /\ drawn = W!CockpitFrame

LEMMA ScreenMoves == ScreenInv /\ [W!Next]_screenVars => ScreenInv'
<1> SUFFICES ASSUME ScreenInv, [W!Next]_screenVars PROVE ScreenInv'
  OBVIOUS
<1>1. in' = in
  BY DEF W!Next, W!RenderSpecialist, W!RenderCockpit, screenVars
<1>2. /\ Drawable' = Drawable
      /\ W!SpecialistFrame' = W!SpecialistFrame /\ W!CockpitFrame' = W!CockpitFrame
      /\ W!Nothing' = W!Nothing /\ W!Specialists' = W!Specialists
  <2>1. Drawable' = Drawable
    BY <1>1 DEF Drawable, W!Columns, W!Height, W!Specialists
  <2>2. W!Columns' = W!Columns /\ W!Height' = W!Height
    BY <1>1 DEF W!Columns, W!Height
  <2>3. \A written, k : W!Finish(written, k)' = W!Finish(written, k)
    BY <2>2 DEF W!Finish, W!FinishAfter
  <2>5. W!SpecialistFrame' = W!SpecialistFrame
    <3>1. \A a, e, n : W!List(a, e, n)' = W!List(a, e, n)
      BY <1>1 DEF W!List
    <3>2. ASSUME NEW r, NEW w PROVE W!RawList(r, w)' = W!RawList(r, w)
      <4>1. W!LogList(W!Minus(r, W!Trend(in.trend, 5)))' = W!LogList(W!Minus(r, W!Trend(in.trend, 5)))
        BY <1>1, <3>1 DEF W!LogList
      <4>2. W!ServiceList(r)' = W!ServiceList(r) /\ W!DiskList(r)' = W!DiskList(r)
        BY <3>1 DEF W!ServiceList, W!DiskList
      <4>3. W!ContainerList(r, w)' = W!ContainerList(r, w)
        BY <1>1, <3>1 DEF W!ContainerList
      <4>4. W!NetList(r, w)' = W!NetList(r, w)
        BY <1>1, <3>1 DEF W!NetList
      <4>5. W!HealthList(r)' = W!HealthList(r) /\ W!HardwareList(r)' = W!HardwareList(r)
        BY <3>1 DEF W!HealthList, W!HardwareList
      <4>6. W!SystemList(r, w)' = W!SystemList(r, w)
        BY <3>1 DEF W!SystemList
      <4> QED BY <1>1, <4>1, <4>2, <4>3, <4>4, <4>5, <4>6 DEF W!RawList
    <3>3. \A r, w : W!Related(r, w)' = W!Related(r, w)
      BY <1>1 DEF W!Related
    <3>4. \A r, w, a : W!RawDetail(r, w, a)' = W!RawDetail(r, w, a)
      BY <1>1, <3>3 DEF W!RawDetail
    <3>5. \A i, r, w, a : W!Body(i, r, w, a)' = W!Body(i, r, w, a)
      BY <1>1, <3>2, <3>4 DEF W!Body
    <3>6. W!Split' = W!Split /\ W!Summary' = W!Summary /\ W!Above' = W!Above
          /\ W!LeftColumns' = W!LeftColumns /\ W!KeysLine' = W!KeysLine
      BY <1>1, <2>2 DEF W!Split, W!Summary, W!Above, W!LeftColumns, W!KeysLine
    <3>7. W!BesideBody' = W!BesideBody
      BY <2>2, <3>5, <3>6 DEF W!BesideBody
    <3> QED BY <1>1, <2>2, <2>3, <3>5, <3>6, <3>7 DEF W!SpecialistFrame
  <2>6. W!CockpitFrame' = W!CockpitFrame
    <3>1. W!ActivityPart' = W!ActivityPart /\ W!ExploreRows' = W!ExploreRows
      BY <2>2 DEF W!ActivityPart, W!WideActivity, W!ExploreRows, W!ExploreColumns
    <3>2. W!WorkloadsPart' = W!WorkloadsPart
      BY <1>1, <2>2 DEF W!WorkloadsPart
    <3>3. W!FindingsPart' = W!FindingsPart
      BY <1>1, <2>2 DEF W!FindingsPart
    <3>4. \A n : W!DetailsPart(n)' = W!DetailsPart(n)
      BY <1>1, <2>2 DEF W!DetailsPart
    <3> DEFINE head == 3 + W!When(W!Height >= 30, 1 + W!When(in.mode # "plain", 1))
                         + W!Ceil(54, W!Columns) + W!When(W!Columns >= 52 /\ W!Height >= 30, 1)
               top == head + W!ActivityPart + W!WorkloadsPart + W!FindingsPart + 2
               used == top + W!ExploreRows
               budget == W!Minus(W!Height, used + 5)
               charts == W!When(~in.loading /\ W!Height >= 50, W!DetailsPart(budget))
               written == used + charts
               row == top + 1 + (in.selected % W!ExploreRows)
               end == W!Finish(written, 1)
    <3>5. head' = head
      BY <1>1, <2>2 DEF W!When
    <3>6. top' = top /\ used' = used /\ row' = row
      <4> HIDE DEF head
      <4> QED BY <1>1, <3>1, <3>2, <3>3, <3>5
    <3>7. budget' = budget
      <4> HIDE DEF used
      <4> QED BY <2>2, <3>6
    <3>8. charts' = charts
      <4> HIDE DEF budget
      <4> QED BY <1>1, <2>2, <3>7 DEF W!DetailsPart, W!When
    <3>9. written' = written
      <4> HIDE DEF used, charts
      <4> QED BY <3>6, <3>8
    <3>10. end' = end
      <4> HIDE DEF written
      <4> QED BY <2>2, <3>9 DEF W!Finish, W!FinishAfter
    <3> DEFINE whole == W!Framed(written, row, FALSE, end)
    <3>11. whole' = whole
      <4> HIDE DEF written, row, end
      <4> QED BY <3>6, <3>9, <3>10 DEF W!Framed
    <3>12. W!CockpitFrame = whole
      BY DEF W!CockpitFrame
    <3>13. W!CockpitFrame' = whole'
      BY DEF W!CockpitFrame
    <3> HIDE DEF whole
    <3> QED BY <3>11, <3>12, <3>13
  <2>4. W!Nothing' = W!Nothing /\ W!Specialists' = W!Specialists
    BY DEF W!Nothing, W!Specialists
  <2> QED BY <2>1, <2>4, <2>5, <2>6
<1>3. \/ drawn' = drawn
      \/ in.view \in W!Specialists /\ drawn' = W!SpecialistFrame
      \/ in.view = "cockpit" /\ drawn' = W!CockpitFrame
  BY DEF W!Next, W!RenderSpecialist, W!RenderCockpit, screenVars
<1> QED BY ONLY ScreenInv, <1>1, <1>2, <1>3 DEF ScreenInv

LEMMA ScreenShows ==
  ASSUME ScreenInv PROVE W!SelectedOnScreen /\ W!FrameFits /\ W!CardsNeverCut
<1>1. CASE drawn = W!Nothing
  BY <1>1 DEF W!Nothing, W!SelectedOnScreen, W!FrameFits, W!CardsNeverCut
<1>2. CASE in.view \in W!Specialists /\ drawn = W!SpecialistFrame
  <2>1. in.view # "cockpit" /\ Drawable
    BY <1>2 DEF W!Specialists, ScreenInv
  <2> DEFINE F == W!SpecialistFrame
  <2>2. /\ W!Columns >= 46 => F.scrolled = 0 /\ F.last = F.lines
        /\ in.count > 0 /\ ~in.inspecting /\ W!Height >= 15 =>
             F.cursor > F.scrolled /\ F.cursor <= F.last
        /\ in.inspecting /\ in.count > 0 /\ in.detail <= W!Minus(W!Height, 10) => ~F.cut
    BY <1>2, <2>1, SpecialistFits
  <2> HIDE DEF F
  <2>3. drawn = F
    BY <1>2 DEF F
  <2>4. W!SelectedOnScreen
    BY <2>1, <2>2, <2>3 DEF W!SelectedOnScreen, W!Listing
  <2> QED BY <2>2, <2>3, <2>4 DEF W!FrameFits, W!CardsNeverCut
<1>3. CASE in.view = "cockpit" /\ drawn = W!CockpitFrame
  <2>1. in.view \notin W!Specialists /\ Drawable
    BY <1>3 DEF W!Specialists, ScreenInv
  <2>2. W!FrameFits
    BY <2>1 DEF W!FrameFits
  <2>3. W!SelectedOnScreen
    <3> HIDE DEF W!CockpitFrame
    <3> SUFFICES ASSUME W!Height >= 15, W!Height < 40, W!Columns \notin {52, 53}
                 PROVE  drawn.cursor > drawn.scrolled /\ drawn.cursor <= drawn.last
      BY <1>3 DEF W!SelectedOnScreen
    <3> QED BY <1>3, <2>1, CockpitFits
  <2>4. drawn.cut = FALSE
    BY <1>3 DEF W!CockpitFrame, W!Framed
  <2>5. W!CardsNeverCut
    BY <2>4 DEF W!CardsNeverCut
  <2> QED BY <2>2, <2>3, <2>5
<1> QED BY <1>1, <1>2, <1>3 DEF ScreenInv

-----------------------------------------------------------------------------
(***************************************************************************)
(* A listing: each element of a set once.                                  *)
(***************************************************************************)

Lists(rows, T) ==
  /\ rows \in Seq(T)
  /\ \A j, k \in 1..Len(rows) : rows[j] = rows[k] => j = k
  /\ \A x \in T : \E k \in 1..Len(rows) : rows[k] = x

\* Smaller indices come first in a strict order of all the elements.
Strict(order, T) ==
  /\ \A x \in T : <<x, x>> \notin order
  /\ \A x, y \in T : x # y => <<x, y>> \in order \/ <<y, x>> \in order
  /\ \A x, y, z \in T : <<x, y>> \in order /\ <<y, z>> \in order => <<x, z>> \in order

LEMMA SameCount == \A F : L!Cardinality(F) = Cardinality(F)
BY DEF Cardinality, L!Cardinality, IsFiniteSet, L!IsFiniteSet

LEMMA ListedOnce ==
  ASSUME NEW T, NEW rows, Lists(rows, T)
  PROVE  IsFiniteSet(T) /\ Cardinality(T) = Len(rows)
<1> DEFINE I == 1..Len(rows)
<1>1. Len(rows) \in Nat /\ rows \in [I -> T]
  BY DEF Lists
<1>2. IsFiniteSet(I) /\ Cardinality(I) = Len(rows)
  BY <1>1, FS_Interval
<1>3. rows \in Bijection(I, T)
  BY <1>1 DEF Lists, Bijection, Injection, Surjection, IsInjective
<1>4. ExistsBijection(I, T)
  BY <1>3 DEF ExistsBijection
<1> HIDE DEF I
<1> QED BY <1>2, <1>4, FS_Bijection

Rank(T, order) == [x \in T |-> Cardinality({y \in T : <<y, x>> \in order})]

LEMMA Ranked ==
  ASSUME NEW T, IsFiniteSet(T), NEW order, Strict(order, T)
  PROVE  /\ \A x \in T : Rank(T, order)[x] \in 0..(Cardinality(T) - 1)
         /\ \A x, y \in T : <<x, y>> \in order => Rank(T, order)[x] < Rank(T, order)[y]
         /\ \A k \in 1..Cardinality(T) : \E x \in T : Rank(T, order)[x] = k - 1
<1> DEFINE Less(x) == {y \in T : <<y, x>> \in order}
           rank == Rank(T, order)
           N == Cardinality(T)
<1>0. N \in Nat
  BY FS_CardinalityType
<1>1. ASSUME NEW x \in T PROVE IsFiniteSet(Less(x)) /\ Cardinality(Less(x)) \in Nat /\ Cardinality(Less(x)) < N
  <2>1. Less(x) \in SUBSET T /\ x \notin Less(x)
    BY DEF Strict
  <2>2. IsFiniteSet(Less(x)) /\ Cardinality(Less(x)) <= N /\ (N = Cardinality(Less(x)) => T = Less(x))
    BY <2>1, FS_Subset
  <2>3. Cardinality(Less(x)) \in Nat
    BY <2>2, FS_CardinalityType
  <2> HIDE DEF Less, N
  <2>4. Cardinality(Less(x)) # N
    BY <2>1, <2>2
  <2> QED BY ONLY <1>0, <2>2, <2>3, <2>4
<1>2. ASSUME NEW x \in T, NEW y \in T, <<x, y>> \in order
      PROVE  Cardinality(Less(x)) < Cardinality(Less(y))
  <2>1. Less(x) \in SUBSET Less(y) /\ x \in Less(y) /\ x \notin Less(x)
    BY <1>2 DEF Strict
  <2>2. IsFiniteSet(Less(y)) /\ Cardinality(Less(y)) \in Nat /\ Cardinality(Less(x)) \in Nat
    BY <1>1
  <2> HIDE DEF Less, N
  <2>3. Cardinality(Less(x)) <= Cardinality(Less(y))
        /\ (Cardinality(Less(y)) = Cardinality(Less(x)) => Less(y) = Less(x))
    BY <2>1, <2>2, FS_Subset
  <2>4. Cardinality(Less(y)) # Cardinality(Less(x))
    BY <2>1, <2>3
  <2> QED BY ONLY <2>2, <2>3, <2>4
<1>3. rank = [x \in T |-> Cardinality(Less(x))]
  BY DEF Rank
<1> HIDE DEF Less, N, rank
<1>7. \A x \in T : rank[x] = Cardinality(Less(x)) /\ rank[x] \in 0..(N - 1)
  BY <1>0, <1>1, <1>3
<1>4. \A x, y \in T : <<x, y>> \in order => rank[x] < rank[y]
  BY <1>2, <1>7
<1>5. \A x, y \in T : x # y => rank[x] # rank[y]
  <2> SUFFICES ASSUME NEW x \in T, NEW y \in T, x # y PROVE rank[x] # rank[y]
    OBVIOUS
  <2>1. rank[x] \in Nat /\ rank[y] \in Nat
    BY <1>0, <1>7
  <2>2. rank[x] < rank[y] \/ rank[y] < rank[x]
    BY <1>4 DEF Strict
  <2> QED BY <2>1, <2>2
<1>6. ASSUME NEW k \in 1..N PROVE \E x \in T : rank[x] = k - 1
  <2> SUFFICES ASSUME \A x \in T : rank[x] # k - 1 PROVE FALSE
    OBVIOUS
  <2> DEFINE places == 0..(N - 1)
             U == places \ {k - 1}
  <2>1. IsFiniteSet(places) /\ Cardinality(places) = N
    <3>1. 0 \in Int /\ N - 1 \in Int /\ N >= 1
      BY <1>0
    <3>2. IsFiniteSet(places) /\ Cardinality(places) = IF 0 > N - 1 THEN 0 ELSE (N - 1) - 0 + 1
      BY <3>1, FS_Interval
    <3> QED BY <3>1, <3>2, <1>0
  <2>2. k - 1 \in places
    BY <1>0
  <2>3. IsFiniteSet(U) /\ Cardinality(U) = N - 1
    BY <2>1, <2>2, FS_RemoveElement
  <2>4. rank \in [T -> U]
    BY <1>3, <1>7
  <2>5. Cardinality(U) < Cardinality(T)
    BY <1>0, <2>3 DEF N
  <2> HIDE DEF U
  <2>6. \E x, y \in T : x # y /\ rank[x] = rank[y]
    BY <2>3, <2>4, <2>5, FS_PigeonHole
  <2> QED BY <1>5, <2>6
<1> QED BY <1>4, <1>6, <1>7 DEF N, rank

\* Sorting lists a set, in the order.
LEMMA SortedLists ==
  ASSUME NEW T, IsFiniteSet(T), NEW order, Strict(order, T)
  PROVE  /\ Lists(L!Sorted(T, order), T)
         /\ \A j, k \in 1..Len(L!Sorted(T, order)) :
              j < k => <<L!Sorted(T, order)[j], L!Sorted(T, order)[k]>> \in order
<1> DEFINE rank == Rank(T, order)
           N == Cardinality(T)
           s == L!Sorted(T, order)
<1>0. N \in Nat
  BY FS_CardinalityType
<1>1. /\ \A x \in T : rank[x] \in 0..(N - 1)
      /\ \A x, y \in T : <<x, y>> \in order => rank[x] < rank[y]
      /\ \A k \in 1..N : \E x \in T : rank[x] = k - 1
  BY Ranked
<1>2. /\ s = [k \in 1..N |-> s[k]]
      /\ \A k \in 1..N :
           s[k] = CHOOSE x \in T : L!Cardinality({y \in T : <<y, x>> \in order}) = k - 1
  <2> DEFINE Ranking(k) == CHOOSE x \in T : L!Cardinality({y \in T : <<y, x>> \in order}) = k - 1
  <2>1. s = [k \in 1..L!Cardinality(T) |-> Ranking(k)]
    BY DEF L!Sorted
  <2>2. L!Cardinality(T) = N
    BY SameCount
  <2> HIDE DEF Ranking, s, N
  <2>3. s = [k \in 1..N |-> Ranking(k)]
    BY <2>1, <2>2
  <2>4. s = [k \in 1..N |-> s[k]] /\ \A k \in 1..N : s[k] = Ranking(k)
    BY <2>3
  <2> QED BY <2>4 DEF Ranking
<1>9. \A x \in T : rank[x] = L!Cardinality({y \in T : <<y, x>> \in order})
  BY SameCount DEF Rank
<1> HIDE DEF rank, s, N
<1>3. ASSUME NEW k \in 1..N PROVE s[k] \in T /\ rank[s[k]] = k - 1
  <2>1. \E x \in T : L!Cardinality({y \in T : <<y, x>> \in order}) = k - 1
    BY <1>1, <1>9
  <2>2. s[k] \in T /\ L!Cardinality({y \in T : <<y, s[k]>> \in order}) = k - 1
    BY <1>2, <2>1
  <2> QED BY <1>9, <2>2
<1>4. s \in Seq(T) /\ Len(s) = N
  <2>1. s \in [1..N -> T]
    BY <1>2, <1>3
  <2> QED BY <1>0, <2>1
<1>5. ASSUME NEW x \in T, NEW y \in T, rank[x] = rank[y] PROVE x = y
  <2>1. ~(rank[x] < rank[y]) /\ ~(rank[y] < rank[x])
    BY <1>0, <1>1, <1>5
  <2> QED BY <1>1, <2>1 DEF Strict
<1>6. \A j, k \in 1..N : s[j] = s[k] => j = k
  BY <1>0, <1>3
<1>7. \A x \in T : \E k \in 1..N : s[k] = x
  <2> SUFFICES ASSUME NEW x \in T PROVE \E k \in 1..N : s[k] = x
    OBVIOUS
  <2>1. rank[x] + 1 \in 1..N /\ (rank[x] + 1) - 1 = rank[x]
    BY <1>0, <1>1
  <2>2. s[rank[x] + 1] \in T /\ rank[s[rank[x] + 1]] = rank[x]
    BY <1>3, <2>1
  <2>3. s[rank[x] + 1] = x
    BY <1>5, <2>2
  <2> QED BY <2>1, <2>3
<1>8. ASSUME NEW j \in 1..N, NEW k \in 1..N, j < k PROVE <<s[j], s[k]>> \in order
  <2>1. s[j] \in T /\ s[k] \in T /\ rank[s[j]] = j - 1 /\ rank[s[k]] = k - 1
    BY <1>3
  <2>2. s[j] # s[k] /\ ~(rank[s[k]] < rank[s[j]])
    BY <1>0, <1>8, <2>1
  <2> QED BY <1>1, <2>1, <2>2 DEF Strict
<1> QED BY <1>4, <1>6, <1>7, <1>8 DEF Lists, s

LEMMA ReversedLists ==
  ASSUME NEW T, NEW rows, Lists(rows, T)
  PROVE  Lists(L!Reverse(rows), T)
<1> DEFINE n == Len(rows)
           r == L!Reverse(rows)
<1>1. n \in Nat /\ r = [i \in 1..n |-> rows[(n - i) + 1]] /\ rows \in [1..n -> T]
  BY DEF L!Reverse, Lists
<1> HIDE DEF n, r
<1>2. \A i \in 1..n : (n - i) + 1 \in 1..n /\ r[i] = rows[(n - i) + 1] /\ n - ((n - i) + 1) + 1 = i
  BY <1>1
<1>3. r \in Seq(T) /\ Len(r) = n
  BY <1>1, <1>2
<1>4. \A j, k \in 1..n : r[j] = r[k] => j = k
  <2> SUFFICES ASSUME NEW j \in 1..n, NEW k \in 1..n, r[j] = r[k] PROVE j = k
    OBVIOUS
  <2>0. rows[(n - j) + 1] = rows[(n - k) + 1] /\ (n - j) + 1 \in 1..n /\ (n - k) + 1 \in 1..n
    BY <1>2
  <2>1. (n - j) + 1 = (n - k) + 1
    BY <2>0 DEF Lists, n
  <2> QED BY <1>1, <2>1
<1>5. \A x \in T : \E k \in 1..n : r[k] = x
  <2> SUFFICES ASSUME NEW x \in T PROVE \E k \in 1..n : r[k] = x
    OBVIOUS
  <2>1. PICK i \in 1..n : rows[i] = x
    BY DEF Lists, n
  <2>2. r[(n - i) + 1] = x
    BY <1>2, <2>1
  <2> QED BY <1>2, <2>2
<1> QED BY <1>3, <1>4, <1>5 DEF Lists, r

(***************************************************************************)
(* Parents: a function from some processes to their parents, 0 for none.   *)
(* What is above a process is the least set that holds it and, with each   *)
(* process, its parent; a loose process is on no cycle.                    *)
(***************************************************************************)

Parented(f) == 0 \notin DOMAIN f /\ f \in [DOMAIN f -> DOMAIN f \cup {0}]

Chain(f, x) == {a \in DOMAIN f \cup {0} :
                  \A T \in SUBSET (DOMAIN f \cup {0}) :
                    (x \in T /\ \A j \in T \cap DOMAIN f : f[j] \in T) => a \in T}

Loose(f) == {x \in DOMAIN f : x \notin Chain(f, f[x])}
Under(f, p) == {x \in DOMAIN f : p \in Chain(f, f[x])}

LEMMA ChainIs ==
  ASSUME NEW f, Parented(f), NEW x \in DOMAIN f \cup {0}
  PROVE  /\ x \in Chain(f, x) /\ Chain(f, x) \subseteq DOMAIN f \cup {0}
         /\ \A j \in Chain(f, x) \cap DOMAIN f : f[j] \in Chain(f, x)
         /\ \A T \in SUBSET (DOMAIN f \cup {0}) :
              (x \in T /\ \A j \in T \cap DOMAIN f : f[j] \in T) => Chain(f, x) \subseteq T
<1>1. x \in Chain(f, x) /\ Chain(f, x) \subseteq DOMAIN f \cup {0}
  BY DEF Chain
<1>2. ASSUME NEW j \in Chain(f, x) \cap DOMAIN f PROVE f[j] \in Chain(f, x)
  <2>1. f[j] \in DOMAIN f \cup {0}
    BY DEF Parented
  <2>2. ASSUME NEW T \in SUBSET (DOMAIN f \cup {0}), x \in T, \A i \in T \cap DOMAIN f : f[i] \in T
        PROVE  f[j] \in T
    BY <2>2 DEF Chain
  <2> QED BY <2>1, <2>2 DEF Chain
<1>3. ASSUME NEW T \in SUBSET (DOMAIN f \cup {0}), x \in T, \A j \in T \cap DOMAIN f : f[j] \in T
      PROVE  Chain(f, x) \subseteq T
  BY <1>3 DEF Chain
<1> QED BY <1>1, <1>2, <1>3

LEMMA ChainMore ==
  ASSUME NEW f, Parented(f), NEW x \in DOMAIN f \cup {0}, NEW y \in Chain(f, x)
  PROVE  Chain(f, y) \subseteq Chain(f, x)
<1> HIDE DEF Chain
<1>1. /\ y \in DOMAIN f \cup {0}
      /\ Chain(f, x) \in SUBSET (DOMAIN f \cup {0})
      /\ \A j \in Chain(f, x) \cap DOMAIN f : f[j] \in Chain(f, x)
  BY ChainIs
<1> QED BY <1>1, ChainIs

LEMMA ChainOf ==
  ASSUME NEW f, Parented(f)
  PROVE  /\ Chain(f, 0) = {0}
         /\ \A x \in DOMAIN f : Chain(f, x) = {x} \cup Chain(f, f[x])
<1>1. Chain(f, 0) = {0}
  <2>1. 0 \in DOMAIN f \cup {0} /\ {0} \in SUBSET (DOMAIN f \cup {0})
    OBVIOUS
  <2>2. \A j \in {0} \cap DOMAIN f : f[j] \in {0}
    BY DEF Parented
  <2> QED BY <2>1, <2>2, ChainIs
<1>2. ASSUME NEW x \in DOMAIN f PROVE Chain(f, x) = {x} \cup Chain(f, f[x])
  <2>1. f[x] \in DOMAIN f \cup {0}
    BY DEF Parented
  <2>2. f[x] \in Chain(f, x) /\ x \in Chain(f, x)
    BY ChainIs
  <2>3. {x} \cup Chain(f, f[x]) \subseteq Chain(f, x)
    BY <2>2, ChainMore
  <2> DEFINE T == {x} \cup Chain(f, f[x])
  <2>4. T \in SUBSET (DOMAIN f \cup {0}) /\ x \in T
    BY <2>1, ChainIs
  <2>5. \A j \in T \cap DOMAIN f : f[j] \in T
    BY <2>1, ChainIs
  <2>6. Chain(f, x) \subseteq T
    <3> HIDE DEF T
    <3> QED BY <2>4, <2>5, ChainIs
  <2> QED BY <2>3, <2>6
<1> QED BY <1>1, <1>2

\* Who is above a process is that process or the parent of one above it.
LEMMA ChainSplit ==
  ASSUME NEW f, Parented(f), NEW x \in DOMAIN f \cup {0}, NEW a \in Chain(f, x)
  PROVE  a = x \/ \E c \in Chain(f, x) \cap DOMAIN f : f[c] = a
<1> DEFINE T == {b \in Chain(f, x) : b = x \/ \E c \in Chain(f, x) \cap DOMAIN f : f[c] = b}
<1>1. T \in SUBSET (DOMAIN f \cup {0}) /\ x \in T
  BY ChainIs
<1>2. \A j \in T \cap DOMAIN f : f[j] \in T
  BY ChainIs
<1>3. Chain(f, x) \subseteq T
  <2> HIDE DEF T
  <2> QED BY <1>1, <1>2, ChainIs
<1> QED BY <1>3

\* Of two above a process one is above the other.
LEMMA ChainLine ==
  ASSUME NEW f, Parented(f), NEW x \in DOMAIN f \cup {0}, NEW a \in Chain(f, x), NEW b \in Chain(f, x)
  PROVE  a \in Chain(f, b) \/ b \in Chain(f, a)
<1> DEFINE T == {c \in Chain(f, x) : c \in Chain(f, b) \/ b \in Chain(f, c)}
<1>1. T \in SUBSET (DOMAIN f \cup {0}) /\ x \in T /\ b \in DOMAIN f \cup {0}
  BY ChainIs
<1>2. ASSUME NEW j \in T \cap DOMAIN f PROVE f[j] \in T
  <2>1. f[j] \in Chain(f, x) /\ f[j] \in DOMAIN f \cup {0}
    BY ChainIs
  <2>2. CASE j \in Chain(f, b)
    <3>1. f[j] \in Chain(f, b)
      BY <1>1, <2>2, ChainIs
    <3> QED BY <2>1, <3>1
  <2>3. CASE b \in Chain(f, j)
    <3>1. b = j \/ b \in Chain(f, f[j])
      BY <2>3, ChainOf
    <3>2. CASE b = j
      <4>1. f[j] \in Chain(f, b)
        BY <1>1, <3>2, ChainIs
      <4> QED BY <2>1, <4>1
    <3> QED BY <2>1, <3>1, <3>2
  <2> QED BY <2>2, <2>3
<1>3. Chain(f, x) \subseteq T
  <2> HIDE DEF T
  <2> QED BY <1>1, <1>2, ChainIs
<1> QED BY <1>3

\* A cycle is followed upwards only: the child of a loose process is loose.
LEMMA LooseDown ==
  ASSUME NEW f, Parented(f), NEW c \in DOMAIN f, f[c] \in Loose(f) \cup {0}
  PROVE  c \in Loose(f)
<1> SUFFICES ASSUME c \in Chain(f, f[c]) PROVE FALSE
  BY DEF Loose
<1>1. CASE f[c] = 0
  <2>1. c = 0
    BY <1>1, ChainOf
  <2> QED BY <2>1 DEF Parented
<1>2. CASE f[c] \in Loose(f)
  <2> DEFINE p == f[c]
  <2>1. p \in DOMAIN f /\ p \notin Chain(f, f[p]) /\ f[p] \in DOMAIN f \cup {0}
    BY <1>2 DEF Loose, Parented
  <2>2. Chain(f, p) = {p} \cup Chain(f, f[p])
    BY <2>1, ChainOf
  <2>3. CASE c = p
    <3>1. p \in Chain(f, p) /\ f[p] = p
      BY <2>1, <2>3, ChainIs
    <3> QED BY <2>1, <3>1
  <2>4. CASE c \in Chain(f, f[p])
    <3>1. p \in Chain(f, f[p])
      BY <2>1, <2>4, ChainIs
    <3> QED BY <2>1, <3>1
  <2> QED BY <2>2, <2>3, <2>4
<1> QED BY <1>1, <1>2

\* What is under a loose process is under one of its children and that child
\* itself, under no other, and never the process itself.
LEMMA UnderIs ==
  ASSUME NEW f, Parented(f), NEW p \in Loose(f) \cup {0}
  PROVE  /\ \A x \in Under(f, p) :
              \E c \in DOMAIN f : f[c] = p /\ (x = c \/ x \in Under(f, c))
         /\ \A c \in DOMAIN f : f[c] = p =>
              c \in Under(f, p) /\ c \notin Under(f, c) /\ Under(f, c) \subseteq Under(f, p)
         /\ \A c, d \in DOMAIN f : f[c] = p /\ f[d] = p /\ c # d =>
              ({c} \cup Under(f, c)) \cap ({d} \cup Under(f, d)) = {}
<1>0. p \in DOMAIN f \cup {0}
  BY DEF Loose
<1>1. ASSUME NEW x \in Under(f, p) PROVE \E c \in DOMAIN f : f[c] = p /\ (x = c \/ x \in Under(f, c))
  <2>1. x \in DOMAIN f /\ p \in Chain(f, f[x]) /\ Chain(f, x) = {x} \cup Chain(f, f[x])
    BY ChainOf DEF Under
  <2>2. p # x
    BY <2>1 DEF Loose, Parented
  <2>3. PICK c \in Chain(f, x) \cap DOMAIN f : f[c] = p
    BY <2>1, <2>2, ChainSplit
  <2>4. x = c \/ x \in Under(f, c)
    BY <2>1, <2>3 DEF Under
  <2> QED BY <2>3, <2>4
<1>2. ASSUME NEW c \in DOMAIN f, f[c] = p
      PROVE  c \in Under(f, p) /\ c \notin Under(f, c) /\ Under(f, c) \subseteq Under(f, p)
  <2>1. c \in Loose(f)
    BY <1>2, LooseDown
  <2>2. c \notin Under(f, c)
    BY <2>1 DEF Under, Loose
  <2>3. c \in Under(f, p)
    BY <1>0, <1>2, ChainIs DEF Under
  <2>4. ASSUME NEW x \in Under(f, c) PROVE x \in Under(f, p)
    <3>1. x \in DOMAIN f /\ c \in Chain(f, f[x]) /\ f[x] \in DOMAIN f \cup {0}
      BY DEF Under, Parented
    <3>2. p \in Chain(f, f[x])
      BY <1>2, <3>1, ChainIs
    <3> QED BY <3>1, <3>2 DEF Under
  <2> QED BY <2>2, <2>3, <2>4
<1>3. ASSUME NEW c \in DOMAIN f, NEW d \in DOMAIN f, f[c] = p, f[d] = p, c # d,
             NEW x \in ({c} \cup Under(f, c)) \cap ({d} \cup Under(f, d))
      PROVE  FALSE
  <2>1. c \in Loose(f) /\ d \in Loose(f)
    BY <1>3, LooseDown
  <2>2. x \in DOMAIN f
    BY DEF Under
  <2>3. c \in Chain(f, x) /\ d \in Chain(f, x)
    <3>1. Chain(f, x) = {x} \cup Chain(f, f[x])
      BY <2>2, ChainOf
    <3> QED BY <3>1 DEF Under
  <2>4. c \in Chain(f, d) \/ d \in Chain(f, c)
    BY <2>2, <2>3, ChainLine
  <2>5. Chain(f, d) = {d} \cup Chain(f, p) /\ Chain(f, c) = {c} \cup Chain(f, p)
    BY <1>3, ChainOf
  <2>6. c \in Chain(f, p) \/ d \in Chain(f, p)
    BY <1>3, <2>4, <2>5
  <2> QED BY <1>3, <2>1, <2>6 DEF Loose
<1> QED BY <1>1, <1>2, <1>3

\* A process without a chain to 0 has a cycle above it.
LEMMA CycleAbove ==
  ASSUME NEW f, Parented(f), IsFiniteSet(DOMAIN f), NEW x \in DOMAIN f, 0 \notin Chain(f, x)
  PROVE  \E a \in Chain(f, x) : a \in DOMAIN f /\ f[a] \in DOMAIN f /\ a \in Chain(f, f[a])
<1> DEFINE size(a) == Cardinality(Chain(f, a))
           T == {size(a) : a \in Chain(f, x)}
<1>1. Chain(f, x) \subseteq DOMAIN f /\ x \in Chain(f, x)
  BY ChainIs
<1>2. ASSUME NEW a \in Chain(f, x) PROVE IsFiniteSet(Chain(f, a)) /\ size(a) \in Nat
  <2>1. Chain(f, a) \in SUBSET DOMAIN f
    BY <1>1, ChainMore
  <2>2. IsFiniteSet(Chain(f, a))
    BY <2>1, FS_Subset
  <2> QED BY <2>2, FS_CardinalityType
<1>3. T \subseteq Nat /\ T # {}
  BY <1>1, <1>2
<1>4. PICK n \in T : \A m \in T : n <= m
  <2> HIDE DEF T
  <2> QED BY <1>3, Least
<1>5. PICK a \in Chain(f, x) : n = size(a)
  OBVIOUS
<1>6. a \in DOMAIN f /\ f[a] \in Chain(f, x) /\ f[a] \in DOMAIN f
  BY <1>1, ChainIs
<1>7. Chain(f, a) = {a} \cup Chain(f, f[a])
  BY <1>6, ChainOf
<1>8. size(a) <= size(f[a])
  BY <1>4, <1>5, <1>6
<1>9. size(f[a]) <= size(a) /\ (size(a) = size(f[a]) => Chain(f, a) = Chain(f, f[a]))
  BY <1>2, <1>7, FS_Subset
<1>10. size(a) = size(f[a])
  <2>1. size(a) \in Nat /\ size(f[a]) \in Nat
    BY <1>2, <1>6
  <2> HIDE DEF size
  <2> QED BY ONLY <1>8, <1>9, <2>1
<1> QED BY <1>6, <1>7, <1>9, <1>10

(***************************************************************************)
(* Families: after a parent come those under it, before anybody else.      *)
(***************************************************************************)

Family(f, rows, p) ==
  \A k \in 1..Len(rows) :
    \/ f[rows[k]] = p
    \/ \E j \in 1..(k - 1) : /\ rows[j] = f[rows[k]]
                             /\ \A i \in (j + 1)..k : rows[i] \in Under(f, rows[j])

LEMMA JoinedLists ==
  ASSUME NEW T, NEW U, NEW s, NEW t, Lists(s, T), Lists(t, U), T \cap U = {}
  PROVE  Lists(s \o t, T \cup U)
<1> DEFINE r == s \o t
           m == Len(s)
           n == Len(t)
<1>1. /\ m \in Nat /\ n \in Nat /\ Len(r) = m + n
      /\ \A k \in 1..m : r[k] = s[k] /\ s[k] \in T
      /\ \A k \in 1..n : r[m + k] = t[k] /\ t[k] \in U
  BY DEF Lists
<1>2. r \in Seq(T \cup U)
  <2>1. s \in Seq(T \cup U) /\ t \in Seq(T \cup U)
    BY DEF Lists
  <2> QED BY <2>1
<1>3. /\ \A j, k \in 1..m : s[j] = s[k] => j = k
      /\ \A j, k \in 1..n : t[j] = t[k] => j = k
      /\ \A x \in T : \E k \in 1..m : s[k] = x
      /\ \A x \in U : \E k \in 1..n : t[k] = x
  BY DEF Lists
<1> HIDE DEF r, m, n
<1>4. ASSUME NEW j \in 1..(m + n), NEW k \in 1..(m + n), r[j] = r[k] PROVE j = k
  <2>1. \A i \in 1..(m + n) : i \notin 1..m => i - m \in 1..n /\ m + (i - m) = i
    BY <1>1
  <2>2. \A i \in 1..(m + n) : i \notin 1..m => r[i] = t[i - m] /\ r[i] \in U
    BY <1>1, <2>1
  <2>3. CASE j \in 1..m /\ k \in 1..m
    BY <1>1, <1>3, <1>4, <2>3
  <2>4. CASE j \notin 1..m /\ k \notin 1..m
    <3>1. j - m = k - m
      BY <1>3, <1>4, <2>1, <2>2, <2>4
    <3> QED BY <1>1, <3>1
  <2>5. (j \in 1..m) <=> (k \in 1..m)
    BY <1>1, <1>4, <2>2
  <2> QED BY <2>3, <2>4, <2>5
<1>5. ASSUME NEW x \in T \cup U PROVE \E k \in 1..(m + n) : r[k] = x
  <2>1. CASE x \in T
    <3>1. PICK k \in 1..m : s[k] = x
      BY <1>3, <2>1
    <3> QED BY <1>1, <3>1
  <2>2. CASE x \in U
    <3>1. PICK k \in 1..n : t[k] = x
      BY <1>3, <2>2
    <3>2. m + k \in 1..(m + n) /\ r[m + k] = x
      BY <1>1, <3>1
    <3> QED BY <3>2
  <2> QED BY <2>1, <2>2
<1> QED BY <1>1, <1>2, <1>4, <1>5 DEF Lists, r

LEMMA JoinedFamily ==
  ASSUME NEW f, NEW p, NEW T, NEW s \in Seq(T), NEW t \in Seq(T), Family(f, s, p), Family(f, t, p)
  PROVE  Family(f, s \o t, p)
<1> DEFINE r == s \o t
           m == Len(s)
           n == Len(t)
<1>1. /\ m \in Nat /\ n \in Nat /\ Len(r) = m + n
      /\ \A k \in 1..m : r[k] = s[k]
      /\ \A k \in 1..n : r[m + k] = t[k]
  OBVIOUS
<1> DEFINE Placed(k) == \/ f[r[k]] = p
                        \/ \E j \in 1..(k - 1) : /\ r[j] = f[r[k]]
                                                 /\ \A i \in (j + 1)..k : r[i] \in Under(f, r[j])
<1> HIDE DEF r, m, n
<1>2. ASSUME NEW k \in 1..m PROVE Placed(k)
  <2>1. r[k] = s[k]
    BY <1>1
  <2>2. CASE f[s[k]] = p
    BY <2>1, <2>2
  <2>3. CASE f[s[k]] # p
    <3>1. PICK j \in 1..(k - 1) : /\ s[j] = f[s[k]]
                                  /\ \A i \in (j + 1)..k : s[i] \in Under(f, s[j])
      BY <2>3 DEF Family, m
    <3>2. r[j] = s[j] /\ \A i \in (j + 1)..k : r[i] = s[i]
      BY <1>1
    <3>3. r[j] = f[r[k]] /\ \A i \in (j + 1)..k : r[i] \in Under(f, r[j])
      BY <2>1, <3>1, <3>2
    <3> QED BY <3>3
  <2> QED BY <2>2, <2>3
<1>3. ASSUME NEW k \in 1..n PROVE Placed(m + k)
  <2>1. r[m + k] = t[k]
    BY <1>1
  <2>2. CASE f[t[k]] = p
    BY <2>1, <2>2
  <2>3. CASE f[t[k]] # p
    <3>1. PICK j \in 1..(k - 1) : /\ t[j] = f[t[k]]
                                  /\ \A i \in (j + 1)..k : t[i] \in Under(f, t[j])
      BY <2>3 DEF Family, n
    <3>2. r[m + j] = t[j]
      BY <1>1
    <3>3. ASSUME NEW i \in (m + j + 1)..(m + k) PROVE r[i] \in Under(f, r[m + j])
      <4>1. i - m \in (j + 1)..k /\ i - m \in 1..n /\ m + (i - m) = i
        BY <1>1
      <4>2. r[i] = t[i - m]
        BY <1>1, <4>1
      <4> QED BY <3>1, <3>2, <4>1, <4>2
    <3>4. m + j \in 1..(m + k - 1) /\ r[m + j] = f[r[m + k]]
      BY <1>1, <2>1, <3>1, <3>2
    <3> DEFINE h == m + j
               q == m + k
    <3>7. \A i \in (h + 1)..q : r[i] \in Under(f, r[h])
      BY <3>3
    <3>5. h \in 1..(q - 1) /\ r[h] = f[r[q]]
      BY <1>1, <3>4
    <3> HIDE DEF h, q
    <3>6. Placed(q)
      BY <3>5, <3>7
    <3> QED BY <3>6 DEF q
  <2> QED BY <2>2, <2>3
<1> HIDE DEF Placed
<1>4. ASSUME NEW k \in 1..(m + n) PROVE Placed(k)
  <2>1. CASE k \in 1..m
    BY <1>2, <2>1
  <2>2. CASE k \notin 1..m
    <3>1. k - m \in 1..n /\ m + (k - m) = k
      BY <1>1, <2>2
    <3> QED BY <1>3, <3>1
  <2> QED BY <2>1, <2>2
<1> QED BY <1>1, <1>4 DEF Family, r, Placed

LEMMA HeadFamily ==
  ASSUME NEW f, NEW p, NEW c, f[c] = p, NEW rows \in Seq(Under(f, c)), Family(f, rows, c)
  PROVE  Family(f, <<c>> \o rows, p)
<1> DEFINE r == <<c>> \o rows
           n == Len(rows)
<1>1. /\ n \in Nat /\ Len(r) = n + 1 /\ r[1] = c
      /\ \A k \in 2..(n + 1) : r[k] = rows[k - 1] /\ r[k] \in Under(f, c)
  OBVIOUS
<1> DEFINE Placed(k) == \/ f[r[k]] = p
                        \/ \E j \in 1..(k - 1) : /\ r[j] = f[r[k]]
                                                 /\ \A i \in (j + 1)..k : r[i] \in Under(f, r[j])
<1> HIDE DEF r, n
<1>2. Placed(1)
  BY <1>1
<1>3. ASSUME NEW k \in 2..(n + 1) PROVE Placed(k)
  <2>1. r[k] = rows[k - 1] /\ k - 1 \in 1..n
    BY <1>1
  <2>2. CASE f[rows[k - 1]] = c
    <3>1. r[1] = f[r[k]] /\ \A i \in 2..k : r[i] \in Under(f, r[1])
      BY <1>1, <2>1, <2>2
    <3>2. 1 \in 1..(k - 1) /\ 1 + 1 = 2
      BY <1>1
    <3> QED BY <3>1, <3>2
  <2>3. CASE f[rows[k - 1]] # c
    <3>1. PICK j \in 1..(k - 1 - 1) : /\ rows[j] = f[rows[k - 1]]
                                      /\ \A i \in (j + 1)..(k - 1) : rows[i] \in Under(f, rows[j])
      BY <2>1, <2>3 DEF Family, n
    <3>2. j + 1 \in 2..(n + 1) /\ r[j + 1] = rows[j] /\ j + 1 \in 1..(k - 1)
      <4>1. j + 1 \in 2..(n + 1) /\ (j + 1) - 1 = j /\ j + 1 \in 1..(k - 1)
        BY <1>1
      <4> QED BY <1>1, <4>1
    <3>3. ASSUME NEW i \in (j + 1 + 1)..k PROVE r[i] \in Under(f, r[j + 1])
      <4>1. i - 1 \in (j + 1)..(k - 1) /\ i \in 2..(n + 1)
        BY <1>1
      <4>2. r[i] = rows[i - 1]
        BY <1>1, <4>1
      <4> QED BY <3>1, <3>2, <4>1, <4>2
    <3>4. r[j + 1] = f[r[k]]
      BY <2>1, <3>1, <3>2
    <3> QED BY <3>2, <3>3, <3>4
  <2> QED BY <2>2, <2>3
<1>4. \A k \in 1..(n + 1) : Placed(k)
  <2> HIDE DEF Placed
  <2>1. \A k \in 1..(n + 1) : k = 1 \/ k \in 2..(n + 1)
    BY <1>1
  <2> QED BY <1>2, <1>3, <2>1
<1> QED BY <1>1, <1>4 DEF Family, r, Placed

-----------------------------------------------------------------------------
\* One sequence after another.
IsFlat(g, ss) == g = [i \in 1..Len(ss) |-> IF i = 1 THEN ss[i] ELSE g[i - 1] \o ss[i]]

LEMMA FlatExists ==
  ASSUME NEW ss, Len(ss) \in Nat PROVE \E g : IsFlat(g, ss)
<1> DEFINE N == Len(ss)
           Is(g, k) == g = [i \in 1..k |-> IF i = 1 THEN ss[i] ELSE g[i - 1] \o ss[i]]
           T == {k \in 0..N : \E g : Is(g, k)}
<1>0. N \in Nat
  OBVIOUS
<1>1. 0 \in T
  <2>1. Is([i \in 1..0 |-> ss], 0)
    OBVIOUS
  <2>2. \E g : Is(g, 0)
    BY <2>1
  <2> HIDE DEF Is
  <2> QED BY <1>0, <2>2
<1>2. ASSUME NEW k \in 1..N, k - 1 \in T PROVE k \in T
  <2>1. PICK g : Is(g, k - 1)
    BY <1>2
  <2> DEFINE end == IF k = 1 THEN ss[k] ELSE g[k - 1] \o ss[k]
             more == [i \in 1..k |-> IF i = k THEN end ELSE g[i]]
  <2>2. ASSUME NEW i \in 1..k
        PROVE  more[i] = IF i = 1 THEN ss[i] ELSE more[i - 1] \o ss[i]
    <3>1. CASE i = k
      <4>1. more[i] = end /\ (i # 1 => i - 1 \in 1..k /\ i - 1 # k)
        BY <3>1
      <4>2. i # 1 => more[i - 1] = g[i - 1]
        BY <4>1
      <4> QED BY <3>1, <4>1, <4>2
    <3>2. CASE i # k
      <4>1. i \in 1..(k - 1) /\ (i # 1 => i - 1 \in 1..k /\ i - 1 # k)
        BY <3>2
      <4>2. more[i] = g[i] /\ (i # 1 => more[i - 1] = g[i - 1])
        BY <3>2, <4>1
      <4> QED BY <2>1, <4>1, <4>2
    <3> QED BY <3>1, <3>2
  <2>3. Is(more, k)
    <3> HIDE DEF end
    <3> QED BY <2>2
  <2>4. \E h : Is(h, k)
    BY <2>3
  <2> HIDE DEF Is
  <2> QED BY <1>0, <2>4
<1> HIDE DEF Is, T, N
<1>3. \A k \in 0..N : k \in T
  <2> QED BY ONLY <1>0, <1>1, <1>2, UpTo
<1>4. N \in T
  BY <1>0, <1>3
<1>5. \E g : Is(g, N)
  BY <1>4 DEF T
<1> QED BY <1>5 DEF Is, N, IsFlat

LEMMA FlatLists ==
  ASSUME NEW D0, NEW f, NEW p, NEW ss, Len(ss) \in Nat, NEW B,
         \A k \in 1..Len(ss) : Lists(ss[k], B[k]) /\ B[k] \subseteq D0 /\ Family(f, ss[k], p),
         \A j, k \in 1..Len(ss) : j # k => B[j] \cap B[k] = {}
  PROVE  /\ Lists(L!FlattenSeq(ss), UNION {B[k] : k \in 1..Len(ss)})
         /\ Family(f, L!FlattenSeq(ss), p)
<1> DEFINE N == Len(ss)
           All(k) == UNION {B[i] : i \in 1..k}
<1>1. CASE N = 0
  <2>1. L!FlattenSeq(ss) = ss
    BY <1>1 DEF L!FlattenSeq
  <2>2. All(N) = {}
    BY <1>1
  <2> QED BY <1>1, <2>1, <2>2 DEF Lists, Family
<1>2. CASE N # 0
  <2> DEFINE g == CHOOSE h : IsFlat(h, ss)
  <2>1. IsFlat(g, ss)
    BY FlatExists
  <2>2. L!FlattenSeq(ss) = g[N]
    BY <1>2 DEF L!FlattenSeq, IsFlat
  <2> HIDE DEF g
  <2> DEFINE Good(k) == k = 0 \/ (Lists(g[k], All(k)) /\ Family(f, g[k], p))
             T == {k \in 0..N : Good(k)}
  <2>3. 0 \in T
    <3>1. 0 \in 0..N
      OBVIOUS
    <3> QED BY <3>1
  <2>4. ASSUME NEW k \in 1..N, k - 1 \in T PROVE k \in T
    <3>1. g[k] = IF k = 1 THEN ss[k] ELSE g[k - 1] \o ss[k]
      BY <2>1 DEF IsFlat
    <3>2. CASE k = 1
      <4>1. All(1) = B[1]
        OBVIOUS
      <4>2. Good(1)
        BY <3>1, <3>2, <4>1
      <4> QED BY <3>2, <4>2
    <3>3. CASE k # 1
      <4>1. Lists(g[k - 1], All(k - 1)) /\ Family(f, g[k - 1], p) /\ g[k] = g[k - 1] \o ss[k]
        <5>1. Good(k - 1) /\ k - 1 # 0
          BY <2>4, <3>3
        <5>2. g[k] = g[k - 1] \o ss[k]
          BY <3>1, <3>3
        <5> HIDE DEF All, N
        <5> QED BY <5>1, <5>2
      <4>2. All(k) = All(k - 1) \cup B[k]
        <5>1. 1..k = 1..(k - 1) \cup {k}
          OBVIOUS
        <5> QED BY <5>1
      <4>3. All(k - 1) \cap B[k] = {}
        <5>1. \A i \in 1..(k - 1) : i \in 1..N /\ i # k
          OBVIOUS
        <5> QED BY <5>1
      <4> DEFINE U == All(k)
      <4>4. g[k - 1] \in Seq(U) /\ ss[k] \in Seq(U)
        BY <4>1, <4>2 DEF Lists
      <4> HIDE DEF All
      <4>5. Lists(g[k], All(k))
        BY <4>1, <4>2, <4>3, JoinedLists
      <4>6. Family(f, g[k], p)
        <5> HIDE DEF U
        <5> QED BY <4>1, <4>4, JoinedFamily
      <4> QED BY <4>5, <4>6
    <3> QED BY <3>2, <3>3
  <2> HIDE DEF T, All, N
  <2>5. N \in Nat
    BY DEF N
  <2>6. \A k \in 0..N : k \in T
    <3> HIDE DEF Good
    <3> QED BY ONLY <2>5, <2>3, <2>4, UpTo
  <2>7. Good(N)
    BY <2>5, <2>6 DEF T
  <2> QED BY <1>2, <2>2, <2>7 DEF All, N
<1> QED BY <1>1, <1>2

(***************************************************************************)
(* Appending children.                                                     *)
(***************************************************************************)

IsCalls(calls, children) ==
  calls = [n \in 0..Size |-> IF n = 0 THEN L!NothingAppended
                             ELSE L!AppendEach(children, calls[n - 1])]

LEMMA CallsExist ==
  ASSUME NEW children, Size \in Nat PROVE \E calls : IsCalls(calls, children)
<1> DEFINE N == Size
           Is(g, k) == g = [i \in 0..k |-> IF i = 0 THEN L!NothingAppended
                                           ELSE L!AppendEach(children, g[i - 1])]
           T == {k \in 0..N : \E g : Is(g, k)}
<1>0. N \in Nat
  OBVIOUS
<1>1. 0 \in T
  <2>1. Is([i \in 0..0 |-> L!NothingAppended], 0)
    OBVIOUS
  <2>2. \E g : Is(g, 0)
    BY <2>1
  <2> HIDE DEF Is
  <2> QED BY <1>0, <2>2
<1>2. ASSUME NEW k \in 1..N, k - 1 \in T PROVE k \in T
  <2>1. PICK g : Is(g, k - 1)
    BY <1>2
  <2> DEFINE end == L!AppendEach(children, g[k - 1])
             more == [i \in 0..k |-> IF i = k THEN end ELSE g[i]]
  <2>2. ASSUME NEW i \in 0..k
        PROVE  more[i] = IF i = 0 THEN L!NothingAppended
                         ELSE L!AppendEach(children, more[i - 1])
    <3>1. CASE i = k
      <4>1. more[i] = end /\ i # 0 /\ more[i - 1] = g[i - 1]
        BY <3>1
      <4> QED BY <3>1, <4>1
    <3>2. CASE i # k
      <4>1. i \in 0..(k - 1) /\ more[i] = g[i] /\ (i # 0 => more[i - 1] = g[i - 1])
        BY <3>2
      <4> QED BY <2>1, <4>1
    <3> QED BY <3>1, <3>2
  <2>3. Is(more, k)
    <3> HIDE DEF end
    <3> QED BY <2>2
  <2>4. \E h : Is(h, k)
    BY <2>3
  <2> HIDE DEF Is
  <2> QED BY <1>0, <2>4
<1> HIDE DEF Is, T, N
<1>3. \A k \in 0..N : k \in T
  <2> QED BY ONLY <1>0, <1>1, <1>2, UpTo
<1>4. N \in T
  BY <1>0, <1>3
<1>5. \E g : Is(g, N)
  BY <1>4 DEF T
<1> QED BY <1>5 DEF Is, N, IsCalls

LEMMA CallsDef ==
  ASSUME NEW children, Size \in Nat
  PROVE  /\ L!AppendChildren(children)[0] = L!NothingAppended
         /\ \A n \in 1..Size :
              L!AppendChildren(children)[n] =
                L!AppendEach(children, L!AppendChildren(children)[n - 1])
<1> DEFINE f == L!AppendChildren(children)
<1>1. f = CHOOSE calls : IsCalls(calls, children)
  BY DEF L!AppendChildren, IsCalls
<1> HIDE DEF f
<1>2. IsCalls(f, children)
  BY <1>1, CallsExist
<1>3. f = [n \in 0..Size |-> IF n = 0 THEN L!NothingAppended ELSE L!AppendEach(children, f[n - 1])]
  BY <1>2 DEF IsCalls
<1>4. f[0] = L!NothingAppended
  BY <1>3
<1>5. ASSUME NEW n \in 1..Size PROVE f[n] = L!AppendEach(children, f[n - 1])
  <2>1. n \in 0..Size /\ n # 0
    OBVIOUS
  <2> QED BY <1>3, <2>1
<1> QED BY <1>4, <1>5 DEF f

\* The children of one process, each with those under it.
ChildrenOf(f, p) == {x \in DOMAIN f : f[x] = p}

LEMMA Appended ==
  ASSUME Size \in Nat, NEW f, Parented(f), DOMAIN f \subseteq 1..Size, NEW children,
         \A p \in 0..Size : Lists(children[p], ChildrenOf(f, p))
  PROVE  /\ Lists(L!AppendChildren(children)[Size][0][{}], Under(f, 0))
         /\ Family(f, L!AppendChildren(children)[Size][0][{}], 0)
<1> DEFINE call == L!AppendChildren(children)
           I == 1..Size
           Right(n, p, V) == Lists(call[n][p][V], Under(f, p)) /\ Family(f, call[n][p][V], p)
           Meant(n, p, V) == /\ p \in Loose(f) \cup {0} /\ V = Chain(f, p) \ {0}
                             /\ n + Cardinality(V) = Size
           T == {n \in 0..Size : \A p \in 0..Size, V \in SUBSET I : Meant(n, p, V) => Right(n, p, V)}
<1>0. /\ L!Indices = I /\ IsFiniteSet(I) /\ Cardinality(I) = Size
      /\ call[0] = L!NothingAppended
      /\ \A n \in 1..Size : call[n] = L!AppendEach(children, call[n - 1])
  BY FS_Interval, CallsDef DEF L!Indices
<1> HIDE DEF call, I
<1>1. 0 \in T
  <2> SUFFICES ASSUME NEW p \in 0..Size, NEW V \in SUBSET I, Meant(0, p, V) PROVE Right(0, p, V)
    OBVIOUS
  <2>1. call[0][p][V] = <<>>
    BY <1>0 DEF L!NothingAppended
  <2>2. V = I
    <3>1. Cardinality(V) = Size
      <4>1. IsFiniteSet(V)
        BY <1>0, FS_Subset
      <4>2. Cardinality(V) \in Nat
        BY <4>1, FS_CardinalityType
      <4> QED BY <4>2
    <3> QED BY <1>0, <3>1, FS_Subset
  <2>3. Under(f, p) = {}
    <3> SUFFICES ASSUME NEW x \in Under(f, p) PROVE FALSE
      OBVIOUS
    <3>1. PICK c \in DOMAIN f : f[c] = p
      BY UnderIs
    <3>2. c \in Loose(f)
      BY <3>1, LooseDown
    <3>3. c \in Chain(f, p)
      BY <2>2 DEF I
    <3> QED BY <3>1, <3>2, <3>3 DEF Loose
  <2> QED BY <2>1, <2>3 DEF Lists, Family
<1>2. ASSUME NEW n \in 1..Size, n - 1 \in T PROVE n \in T
  <2> SUFFICES ASSUME NEW p \in 0..Size, NEW V \in SUBSET I, Meant(n, p, V) PROVE Right(n, p, V)
    OBVIOUS
  <2> DEFINE s == children[p]
             m == Len(s)
             After(c) == <<c>> \o call[n - 1][c][V \cup {c}]
             ss == [k \in 1..m |-> IF s[k] \in V THEN <<>> ELSE After(s[k])]
             B == [k \in 1..m |-> {s[k]} \cup Under(f, s[k])]
  <2>1. /\ s \in Seq(ChildrenOf(f, p)) /\ m \in Nat /\ DOMAIN s = 1..m
        /\ \A k \in 1..m : s[k] \in DOMAIN f /\ f[s[k]] = p
        /\ \A j, k \in 1..m : s[j] = s[k] => j = k
        /\ \A x \in DOMAIN f : f[x] = p => \E k \in 1..m : s[k] = x
    <3>1. Lists(s, ChildrenOf(f, p))
      OBVIOUS
    <3> HIDE DEF s
    <3>2. s \in Seq(ChildrenOf(f, p)) /\ m \in Nat /\ DOMAIN s = 1..m
      BY <3>1 DEF Lists
    <3>3. \A k \in 1..m : s[k] \in ChildrenOf(f, p)
      BY <3>2
    <3> QED BY <3>1, <3>2, <3>3 DEF Lists, ChildrenOf
  <2>2. call[n][p][V] = L!FlattenSeq(ss)
    <3> DEFINE each == [k \in DOMAIN s |-> IF s[k] \in V THEN <<>>
                                          ELSE <<s[k]>> \o call[n - 1][s[k]][V \cup {s[k]}]]
    <3>1. call[n] = L!AppendEach(children, call[n - 1])
      BY <1>0
    <3>2. V \in SUBSET L!Indices
      BY <1>0
    <3>3. call[n][p][V] = L!FlattenSeq(each)
      BY <3>1, <3>2 DEF L!AppendEach
    <3>4. each = ss
      BY <2>1
    <3> QED BY <3>3, <3>4
  <2>3. Meant(n, p, V)
    OBVIOUS
  <2> HIDE DEF Right, s, m, B
  <2>4. ASSUME NEW k \in 1..m
        PROVE  /\ s[k] \notin V
               /\ Lists(After(s[k]), {s[k]} \cup Under(f, s[k]))
               /\ Family(f, After(s[k]), p)
    <3> DEFINE c == s[k]
               Q == call[n - 1][c][V \cup {c}]
    <3>1. c \in DOMAIN f /\ f[c] = p /\ c \in Loose(f) /\ c \in 0..Size /\ c # 0
      BY <2>1, <2>3, LooseDown DEF Parented
    <3>2. c \notin Chain(f, p)
      BY <3>1 DEF Loose
    <3>3. c \notin V
      BY <2>3, <3>2
    <3>4. V \cup {c} = Chain(f, c) \ {0}
      BY <2>3, <3>1, ChainOf
    <3>5. V \cup {c} \in SUBSET I
      BY <3>1 DEF I
    <3>6. (n - 1) + Cardinality(V \cup {c}) = Size
      <4>1. IsFiniteSet(V)
        BY <1>0, FS_Subset
      <4>2. Cardinality(V \cup {c}) = Cardinality(V) + 1
        BY <3>3, <4>1, FS_AddElement
      <4>3. Cardinality(V) \in Nat
        BY <4>1, FS_CardinalityType
      <4> QED BY <2>3, <4>2, <4>3
    <3>7. Right(n - 1, c, V \cup {c})
      <4>1. Meant(n - 1, c, V \cup {c})
        BY <3>1, <3>4, <3>6
      <4> HIDE DEF Meant
      <4> QED BY <1>2, <3>1, <3>5, <4>1
    <3>8. Lists(Q, Under(f, c)) /\ Family(f, Q, c)
      BY <3>7 DEF Right
    <3>9. Lists(<<c>>, {c})
      BY DEF Lists
    <3>10. c \notin Under(f, c)
      BY <2>3, <3>1, UnderIs
    <3> HIDE DEF Q, c
    <3>11. Lists(<<c>> \o Q, {c} \cup Under(f, c))
      BY <3>8, <3>9, <3>10, JoinedLists
    <3>12. Family(f, <<c>> \o Q, p)
      <4>1. Q \in Seq(Under(f, c))
        BY <3>8 DEF Lists
      <4> QED BY <3>1, <3>8, <4>1, HeadFamily
    <3> QED BY <3>3, <3>11, <3>12 DEF c, Q
  <2>5. \A k \in 1..m : /\ Lists(ss[k], B[k]) /\ B[k] \subseteq DOMAIN f
                        /\ Family(f, ss[k], p)
    <3> HIDE DEF After
    <3> SUFFICES ASSUME NEW k \in 1..m
                 PROVE  Lists(ss[k], B[k]) /\ B[k] \subseteq DOMAIN f /\ Family(f, ss[k], p)
      OBVIOUS
    <3>1. B[k] = {s[k]} \cup Under(f, s[k]) /\ ss[k] = After(s[k])
      BY <2>4 DEF B
    <3>2. B[k] \subseteq DOMAIN f
      BY <2>1, <3>1 DEF Under
    <3> QED BY <2>4, <3>1, <3>2
  <2>6. \A j, k \in 1..m : j # k => B[j] \cap B[k] = {}
    <3> SUFFICES ASSUME NEW j \in 1..m, NEW k \in 1..m, j # k PROVE B[j] \cap B[k] = {}
      OBVIOUS
    <3>1. s[j] # s[k] /\ s[j] \in DOMAIN f /\ s[k] \in DOMAIN f /\ f[s[j]] = p /\ f[s[k]] = p
      BY <2>1
    <3>2. ({s[j]} \cup Under(f, s[j])) \cap ({s[k]} \cup Under(f, s[k])) = {}
      BY <2>3, <3>1, UnderIs
    <3> QED BY <3>2 DEF B
  <2>7. UNION {B[k] : k \in 1..m} = Under(f, p)
    <3>1. ASSUME NEW k \in 1..m PROVE B[k] \subseteq Under(f, p)
      <4>1. s[k] \in Under(f, p) /\ Under(f, s[k]) \subseteq Under(f, p)
        BY <2>1, <2>3, UnderIs
      <4> QED BY <4>1 DEF B
    <3>2. ASSUME NEW x \in Under(f, p) PROVE \E k \in 1..m : x \in B[k]
      <4>1. PICK c \in DOMAIN f : f[c] = p /\ (x = c \/ x \in Under(f, c))
        BY <2>3, UnderIs
      <4>2. PICK k \in 1..m : s[k] = c
        BY <2>1, <4>1
      <4> QED BY <4>1, <4>2 DEF B
    <3> QED BY <3>1, <3>2
  <2>8. Len(ss) = m /\ Len(ss) \in Nat
    BY <2>1
  <2> HIDE DEF ss, Meant, m, After
  <2>10. /\ \A k \in 1..Len(ss) : Lists(ss[k], B[k]) /\ B[k] \subseteq DOMAIN f /\ Family(f, ss[k], p)
         /\ \A j, k \in 1..Len(ss) : j # k => B[j] \cap B[k] = {}
         /\ UNION {B[k] : k \in 1..Len(ss)} = Under(f, p)
    BY <2>5, <2>6, <2>7, <2>8
  <2>9. Lists(L!FlattenSeq(ss), Under(f, p)) /\ Family(f, L!FlattenSeq(ss), p)
    <3> DEFINE X == DOMAIN f
    <3> HIDE DEF X
    <3>1. \A k \in 1..Len(ss) : Lists(ss[k], B[k]) /\ B[k] \subseteq X /\ Family(f, ss[k], p)
      BY <2>10 DEF X
    <3>2. /\ Lists(L!FlattenSeq(ss), UNION {B[k] : k \in 1..Len(ss)})
          /\ Family(f, L!FlattenSeq(ss), p)
      BY ONLY <2>8, <2>10, <3>1, FlatLists
    <3> QED BY <2>10, <3>2
  <2> QED BY <2>2, <2>9 DEF Right
<1> HIDE DEF T
<1>3. \A n \in 0..Size : n \in T
  <2> QED BY ONLY Size \in Nat, <1>1, <1>2, UpTo
<1>4. Meant(Size, 0, {})
  <2>1. {} = Chain(f, 0) \ {0}
    BY ChainOf
  <2>2. Cardinality({}) = 0
    BY FS_EmptySet
  <2> QED BY <2>1, <2>2
<1>5. Right(Size, 0, {})
  <2>1. Size \in T
    BY <1>3
  <2> HIDE DEF Meant, Right
  <2> QED BY <1>4, <2>1 DEF T
<1> QED BY <1>5 DEF call

(***************************************************************************)
(* Depth: climbing the parents of the whole snapshot.                      *)
(***************************************************************************)

Snaps == [1..Size -> [parent : 0..(Size + 1), user : Users, load : Nat]]

\* The processes above one in the snapshot.
Elders(snap) ==
  [i \in 1..Size |->
     {a \in 1..Size :
        \A T \in SUBSET (1..Size) :
          /\ \A j \in T : snap[j].parent \in 1..Size => snap[j].parent \in T
          /\ snap[i].parent \in 1..Size => snap[i].parent \in T
          => a \in T}]

Uncycled(snap, i) == \A a \in {i} \cup Elders(snap)[i] : a \notin Elders(snap)[a]

LEMMA EldersAre ==
  ASSUME NEW snap \in Snaps, NEW i \in 1..Size
  PROVE  /\ Elders(snap)[i] \subseteq 1..Size
         /\ \A a \in {i} \cup Elders(snap)[i] :
              snap[a].parent \in 1..Size => snap[a].parent \in Elders(snap)[i]
         /\ snap[i].parent \in 1..Size => Elders(snap)[snap[i].parent] \subseteq Elders(snap)[i]
<1> DEFINE I == 1..Size
           Closed(T) == \A j \in T : snap[j].parent \in I => snap[j].parent \in T
           Over(T, k) == snap[k].parent \in I => snap[k].parent \in T
<1>1. \A k \in I : Elders(snap)[k] = {a \in I : \A T \in SUBSET I : Closed(T) /\ Over(T, k) => a \in T}
  BY DEF Elders
<1>2. Elders(snap)[i] \subseteq I
  BY <1>1
<1>3. ASSUME snap[i].parent \in I PROVE snap[i].parent \in Elders(snap)[i]
  BY <1>1, <1>3
<1>4. ASSUME NEW a \in Elders(snap)[i], snap[a].parent \in I PROVE snap[a].parent \in Elders(snap)[i]
  <2>1. ASSUME NEW T \in SUBSET I, Closed(T), Over(T, i) PROVE snap[a].parent \in T
    <3>1. a \in T
      BY <1>1, <2>1
    <3> QED BY <1>4, <2>1, <3>1
  <2> HIDE DEF Closed, Over
  <2> QED BY <1>1, <1>4, <2>1
<1>5. ASSUME snap[i].parent \in I, NEW a \in Elders(snap)[snap[i].parent] PROVE a \in Elders(snap)[i]
  <2>1. a \in I
    BY <1>1, <1>5
  <2>2. ASSUME NEW T \in SUBSET I, Closed(T), Over(T, i) PROVE a \in T
    <3>1. Over(T, snap[i].parent)
      BY <1>5, <2>2
    <3> HIDE DEF Closed, Over
    <3> QED BY <1>1, <1>5, <2>2, <3>1
  <2> HIDE DEF Closed, Over
  <2> QED BY <1>1, <2>1, <2>2
<1> QED BY <1>2, <1>3, <1>4, <1>5

LEMMA UncycledUp ==
  ASSUME NEW snap \in Snaps, NEW i \in 1..Size, Uncycled(snap, i), snap[i].parent \in 1..Size
  PROVE  Uncycled(snap, snap[i].parent) /\ snap[i].parent \notin Elders(snap)[snap[i].parent]
<1>1. snap[i].parent \in Elders(snap)[i] /\ Elders(snap)[snap[i].parent] \subseteq Elders(snap)[i]
  BY EldersAre
<1> QED BY <1>1 DEF Uncycled

IsClimb(steps, snap) ==
  steps = [n \in 0..Deepest |-> IF n = 0 THEN L!NotClimbed ELSE L!ClimbFrom(snap, steps[n - 1])]

LEMMA ClimbExists ==
  ASSUME NEW snap, Deepest \in Nat PROVE \E steps : IsClimb(steps, snap)
<1> DEFINE N == Deepest
           Is(g, k) == g = [i \in 0..k |-> IF i = 0 THEN L!NotClimbed
                                           ELSE L!ClimbFrom(snap, g[i - 1])]
           T == {k \in 0..N : \E g : Is(g, k)}
<1>0. N \in Nat
  OBVIOUS
<1>1. 0 \in T
  <2>1. Is([i \in 0..0 |-> L!NotClimbed], 0)
    OBVIOUS
  <2>2. \E g : Is(g, 0)
    BY <2>1
  <2> HIDE DEF Is
  <2> QED BY <1>0, <2>2
<1>2. ASSUME NEW k \in 1..N, k - 1 \in T PROVE k \in T
  <2>1. PICK g : Is(g, k - 1)
    BY <1>2
  <2> DEFINE end == L!ClimbFrom(snap, g[k - 1])
             more == [i \in 0..k |-> IF i = k THEN end ELSE g[i]]
  <2>2. ASSUME NEW i \in 0..k
        PROVE  more[i] = IF i = 0 THEN L!NotClimbed ELSE L!ClimbFrom(snap, more[i - 1])
    <3>1. CASE i = k
      <4>1. more[i] = end /\ i # 0 /\ more[i - 1] = g[i - 1]
        BY <3>1
      <4> QED BY <3>1, <4>1
    <3>2. CASE i # k
      <4>1. i \in 0..(k - 1) /\ more[i] = g[i] /\ (i # 0 => more[i - 1] = g[i - 1])
        BY <3>2
      <4> QED BY <2>1, <4>1
    <3> QED BY <3>1, <3>2
  <2>3. Is(more, k)
    <3> HIDE DEF end
    <3> QED BY <2>2
  <2>4. \E h : Is(h, k)
    BY <2>3
  <2> HIDE DEF Is
  <2> QED BY <1>0, <2>4
<1> HIDE DEF Is, T, N
<1>3. \A k \in 0..N : k \in T
  <2> QED BY ONLY <1>0, <1>1, <1>2, UpTo
<1>4. N \in T
  BY <1>0, <1>3
<1>5. \E g : Is(g, N)
  BY <1>4 DEF T
<1> QED BY <1>5 DEF Is, N, IsClimb

\* One step more, unless there is no parent or it was seen.
LEMMA ClimbIs ==
  ASSUME NEW snap \in Snaps, Deepest \in Nat, Size \in Nat,
         NEW i \in 1..(Size + 1), NEW V \in SUBSET (1..(Size + 1))
  PROVE  /\ L!Climb(snap)[0][i][V] = 0
         /\ \A n \in 1..Deepest :
              /\ i \notin 1..Size \/ snap[i].parent \in V \cup {0} => L!Climb(snap)[n][i][V] = 0
              /\ i \in 1..Size /\ snap[i].parent \notin V \cup {0} =>
                   L!Climb(snap)[n][i][V] =
                     1 + L!Climb(snap)[n - 1][snap[i].parent][V \cup {snap[i].parent}]
<1> DEFINE f == L!Climb(snap)
<1>1. f = CHOOSE steps : IsClimb(steps, snap)
  BY DEF L!Climb, IsClimb
<1> HIDE DEF f
<1>2. IsClimb(f, snap)
  BY <1>1, ClimbExists
<1>3. f = [n \in 0..Deepest |-> IF n = 0 THEN L!NotClimbed ELSE L!ClimbFrom(snap, f[n - 1])]
  BY <1>2 DEF IsClimb
<1>4. f[0] = L!NotClimbed
  BY <1>3
<1>5. ASSUME NEW n \in 1..Deepest PROVE f[n] = L!ClimbFrom(snap, f[n - 1])
  <2>1. n \in 0..Deepest /\ n # 0
    OBVIOUS
  <2> QED BY <1>3, <2>1
<1>6. f[0][i][V] = 0
  BY <1>4 DEF L!NotClimbed
<1>7. ASSUME NEW n \in 1..Deepest
      PROVE  f[n][i][V] = IF i \notin 1..Size \/ snap[i].parent \in V \cup {0} THEN 0
                          ELSE 1 + f[n - 1][snap[i].parent][V \cup {snap[i].parent}]
  <2> DEFINE higher == f[n - 1]
  <2>1. f[n] = L!ClimbFrom(snap, higher)
    BY <1>5
  <2> HIDE DEF higher
  <2>2. f[n][i][V] = IF i \notin 1..Size \/ snap[i].parent \in V \cup {0} THEN 0
                     ELSE 1 + higher[snap[i].parent][V \cup {snap[i].parent}]
    BY <2>1 DEF L!ClimbFrom, L!Indices
  <2> QED BY <2>2 DEF higher
<1> QED BY <1>6, <1>7 DEF f

LEMMA ClimbAll ==
  ASSUME NEW snap \in Snaps, Deepest \in Nat, Size \in Nat
  PROVE  \A j \in 1..(Size + 1), U \in SUBSET (1..(Size + 1)) :
           /\ L!Climb(snap)[0][j][U] = 0
           /\ \A k \in 1..Deepest :
                /\ j \notin 1..Size \/ snap[j].parent \in U \cup {0} => L!Climb(snap)[k][j][U] = 0
                /\ j \in 1..Size /\ snap[j].parent \notin U \cup {0} =>
                     L!Climb(snap)[k][j][U] =
                       1 + L!Climb(snap)[k - 1][snap[j].parent][U \cup {snap[j].parent}]
BY ClimbIs

LEMMA ClimbBounded ==
  ASSUME NEW snap \in Snaps, Deepest \in Nat, Size \in Nat, NEW n \in 0..Deepest,
         NEW i \in 1..(Size + 1), NEW V \in SUBSET (1..(Size + 1))
  PROVE  /\ L!Climb(snap)[n][i][V] \in 0..n
         /\ n < Deepest => \/ L!Climb(snap)[n + 1][i][V] = L!Climb(snap)[n][i][V]
                           \/ L!Climb(snap)[n][i][V] = n
<1> DEFINE climb == L!Climb(snap)
           P1 == 1..(Size + 1)
           Good(k, j, U) == /\ climb[k][j][U] \in 0..k
                            /\ k < Deepest => climb[k + 1][j][U] = climb[k][j][U] \/ climb[k][j][U] = k
           T == {k \in 0..Deepest : \A j \in P1, U \in SUBSET P1 : Good(k, j, U)}
<1>0. \A j \in P1, U \in SUBSET P1 :
        /\ climb[0][j][U] = 0
        /\ \A k \in 1..Deepest :
             /\ j \notin 1..Size \/ snap[j].parent \in U \cup {0} => climb[k][j][U] = 0
             /\ j \in 1..Size /\ snap[j].parent \notin U \cup {0} =>
                  climb[k][j][U] = 1 + climb[k - 1][snap[j].parent][U \cup {snap[j].parent}]
  BY ClimbAll
<1> HIDE DEF climb
<1>1. 0 \in T
  <2>1. ASSUME NEW j \in P1, NEW U \in SUBSET P1 PROVE Good(0, j, U)
    <3>1. climb[0][j][U] = 0
      BY <1>0
    <3> QED BY <3>1
  <2> HIDE DEF Good, P1
  <2> QED BY <2>1
<1>2. ASSUME NEW k \in 1..Deepest, k - 1 \in T PROVE k \in T
  <2> SUFFICES ASSUME NEW j \in P1, NEW U \in SUBSET P1 PROVE Good(k, j, U)
    OBVIOUS
  <2> DEFINE p == snap[j].parent
             W1 == U \cup {p}
  <2>1. CASE j \notin 1..Size \/ p \in U \cup {0}
    <3>1. climb[k][j][U] = 0
      BY <1>0, <2>1
    <3>2. ASSUME k < Deepest PROVE climb[k + 1][j][U] = 0
      <4> DEFINE q == k + 1
      <4>1. q \in 1..Deepest
        BY <3>2
      <4> HIDE DEF q
      <4>2. climb[q][j][U] = 0
        BY <1>0, <2>1, <4>1
      <4> QED BY <4>2 DEF q
    <3> QED BY <3>1, <3>2
  <2>2. CASE j \in 1..Size /\ p \notin U \cup {0}
    <3>1. p \in P1 /\ W1 \in SUBSET P1
      <4>1. p \in 0..(Size + 1) /\ p # 0
        BY <2>2 DEF Snaps
      <4>2. p \in P1
        <5> HIDE DEF p
        <5> QED BY <4>1
      <4> QED BY <4>2
    <3>2. Good(k - 1, p, W1)
      <4> HIDE DEF Good, P1, W1, p
      <4> QED BY <1>2, <3>1
    <3>3. climb[k][j][U] = 1 + climb[k - 1][p][W1]
      BY <1>0, <2>2
    <3>4. ASSUME k < Deepest PROVE climb[k + 1][j][U] = 1 + climb[k][p][W1]
      <4> DEFINE q == k + 1
      <4>1. q \in 1..Deepest /\ q - 1 = k
        BY <3>4
      <4> HIDE DEF q
      <4>2. climb[q][j][U] = 1 + climb[q - 1][p][W1]
        BY <1>0, <2>2, <4>1
      <4> QED BY <4>1, <4>2 DEF q
    <3>5. climb[k - 1][p][W1] \in 0..(k - 1)
      BY <3>2
    <3>6. climb[k][p][W1] = climb[k - 1][p][W1] \/ climb[k - 1][p][W1] = k - 1
      <4>1. k - 1 < Deepest /\ (k - 1) + 1 = k
        OBVIOUS
      <4> QED BY <3>2, <4>1
    <3> HIDE DEF p, W1
    <3> QED BY <3>3, <3>4, <3>5, <3>6
  <2> QED BY <2>1, <2>2
<1> HIDE DEF T
<1>3. \A k \in 0..Deepest : k \in T
  <2> QED BY ONLY Deepest \in Nat, <1>1, <1>2, UpTo
<1>4. Good(n, i, V)
  <2>1. n \in T
    BY <1>3
  <2> HIDE DEF Good
  <2> QED BY <2>1 DEF T
<1> QED BY <1>4 DEF climb

\* What was seen before does not matter where no cycle is above.
LEMMA ClimbFree ==
  ASSUME NEW snap \in Snaps, Deepest \in Nat, Size \in Nat, NEW n \in 0..Deepest,
         NEW i \in 1..Size, Uncycled(snap, i), i \notin Elders(snap)[i]
  PROVE  L!Climb(snap)[n][i][{i}] = L!Climb(snap)[n][i][{}]
<1> DEFINE climb == L!Climb(snap)
           P1 == 1..(Size + 1)
           Free(j, U, V) == j \in 1..Size => /\ Uncycled(snap, j)
                                             /\ (U \cup V) \cap (Elders(snap)[j] \cup {Size + 1}) = {}
           T == {k \in 0..Deepest : \A j \in P1, U, V \in SUBSET P1 :
                                      Free(j, U, V) => climb[k][j][U] = climb[k][j][V]}
<1>0. \A j \in P1, U \in SUBSET P1 :
        /\ climb[0][j][U] = 0
        /\ \A k \in 1..Deepest :
             /\ j \notin 1..Size \/ snap[j].parent \in U \cup {0} => climb[k][j][U] = 0
             /\ j \in 1..Size /\ snap[j].parent \notin U \cup {0} =>
                  climb[k][j][U] = 1 + climb[k - 1][snap[j].parent][U \cup {snap[j].parent}]
  BY ClimbAll
<1> HIDE DEF climb
<1>1. 0 \in T
  <2>1. ASSUME NEW j \in P1, NEW U \in SUBSET P1, NEW V \in SUBSET P1 PROVE climb[0][j][U] = climb[0][j][V]
    BY <1>0
  <2> HIDE DEF P1
  <2> QED BY <2>1
<1>2. ASSUME NEW k \in 1..Deepest, k - 1 \in T PROVE k \in T
  <2> SUFFICES ASSUME NEW j \in P1, NEW U \in SUBSET P1, NEW V \in SUBSET P1, Free(j, U, V)
               PROVE  climb[k][j][U] = climb[k][j][V]
    OBVIOUS
  <2> DEFINE p == snap[j].parent
  <2>1. CASE j \notin 1..Size
    BY <1>0, <2>1
  <2>2. CASE j \in 1..Size /\ p = 0
    <3>1. p \in U \cup {0} /\ p \in V \cup {0}
      BY <2>2
    <3> QED BY <1>0, <3>1
  <2>3. CASE j \in 1..Size /\ p # 0
    <3>1. p \in P1 /\ (p \in 1..Size \/ p = Size + 1)
      <4>1. p \in 0..(Size + 1)
        BY <2>3 DEF Snaps
      <4> QED BY <2>3, <4>1
    <3>2. p \in Elders(snap)[j] \cup {Size + 1}
      BY <2>3, <3>1, EldersAre
    <3>3. p \notin U \cup {0} /\ p \notin V \cup {0}
      BY <2>3, <3>2
    <3>4. /\ climb[k][j][U] = 1 + climb[k - 1][p][U \cup {p}]
          /\ climb[k][j][V] = 1 + climb[k - 1][p][V \cup {p}]
      BY <1>0, <2>3, <3>3
    <3>5. Free(p, U \cup {p}, V \cup {p})
      <4> SUFFICES ASSUME p \in 1..Size
                   PROVE  /\ Uncycled(snap, p)
                          /\ ((U \cup {p}) \cup (V \cup {p})) \cap (Elders(snap)[p] \cup {Size + 1}) = {}
        OBVIOUS
      <4>1. Uncycled(snap, p) /\ p \notin Elders(snap)[p]
        BY <2>3, UncycledUp
      <4>2. Elders(snap)[p] \subseteq Elders(snap)[j]
        BY <2>3, EldersAre
      <4>3. p # Size + 1
        OBVIOUS
      <4> HIDE DEF p
      <4> QED BY <2>3, <4>1, <4>2, <4>3
    <3>6. climb[k - 1][p][U \cup {p}] = climb[k - 1][p][V \cup {p}]
      <4>1. U \cup {p} \in SUBSET P1 /\ V \cup {p} \in SUBSET P1
        BY <3>1
      <4> HIDE DEF Free, p, P1
      <4> QED BY <1>2, <3>1, <3>5, <4>1
    <3> QED BY <3>4, <3>6
  <2> QED BY <2>1, <2>2, <2>3
<1> HIDE DEF T
<1>3. \A k \in 0..Deepest : k \in T
  <2> QED BY ONLY Deepest \in Nat, <1>1, <1>2, UpTo
<1>4. climb[n][i][{i}] = climb[n][i][{}]
  <2>1. n \in T /\ i \in P1 /\ {i} \in SUBSET P1 /\ {} \in SUBSET P1 /\ i # Size + 1
    BY <1>3
  <2>2. Free(i, {i}, {})
    BY <2>1
  <2> HIDE DEF Free, P1
  <2> QED BY <2>1, <2>2 DEF T
<1> QED BY <1>4 DEF climb

\* A child is indented one step further than its parent, up to the limit.
LEMMA OneStepDeeper ==
  ASSUME NEW snap \in Snaps, Deepest \in Nat \ {0}, Size \in Nat, NEW i \in 1..Size,
         snap[i].parent \in 1..Size, Uncycled(snap, i)
  PROVE  L!Climb(snap)[Deepest][i][{}] \in {L!Climb(snap)[Deepest][snap[i].parent][{}] + 1, Deepest}
<1> DEFINE climb == L!Climb(snap)
           p == snap[i].parent
           N == Deepest - 1
<1>1. N \in 0..Deepest /\ N < Deepest /\ N + 1 = Deepest /\ Deepest \in 1..Deepest /\ Deepest \in Nat
  OBVIOUS
<1>2. Uncycled(snap, p) /\ p \notin Elders(snap)[p]
  BY UncycledUp
<1>3. climb[N][p][{p}] = climb[N][p][{}]
  BY <1>1, <1>2, ClimbFree
<1>4. climb[Deepest][i][{}] = 1 + climb[N][p][{p}]
  <2>1. i \in 1..(Size + 1) /\ {} \in SUBSET (1..(Size + 1)) /\ p \notin {} \cup {0} /\ {} \cup {p} = {p}
    OBVIOUS
  <2>3. ASSUME NEW V \in SUBSET (1..(Size + 1)), p \notin V \cup {0}
        PROVE  climb[Deepest][i][V] = 1 + climb[Deepest - 1][p][V \cup {p}]
    <3>1. \A j \in 1..(Size + 1), U \in SUBSET (1..(Size + 1)) :
            /\ climb[0][j][U] = 0
            /\ \A k \in 1..Deepest :
                 /\ j \notin 1..Size \/ snap[j].parent \in U \cup {0} => climb[k][j][U] = 0
                 /\ j \in 1..Size /\ snap[j].parent \notin U \cup {0} =>
                      climb[k][j][U] = 1 + climb[k - 1][snap[j].parent][U \cup {snap[j].parent}]
      BY <1>1, ClimbAll
    <3> HIDE DEF climb
    <3> QED BY <1>1, <2>1, <2>3, <3>1
  <2>2. climb[Deepest][i][{}] = 1 + climb[N][p][{} \cup {p}]
    <3> HIDE DEF climb, p
    <3> QED BY <2>1, <2>3
  <2> QED BY <2>1, <2>2
<1>5. climb[N][p][{}] \in 0..N /\ (climb[N + 1][p][{}] = climb[N][p][{}] \/ climb[N][p][{}] = N)
  <2>1. p \in 1..(Size + 1) /\ {} \in SUBSET (1..(Size + 1))
    OBVIOUS
  <2> QED BY <1>1, <2>1, ClimbBounded
<1> HIDE DEF climb, p
<1>6. climb[Deepest][i][{}] \in {climb[Deepest][p][{}] + 1, Deepest}
  BY <1>1, <1>3, <1>4, <1>5
<1> QED BY <1>6 DEF climb, p

(***************************************************************************)
(* The listing.                                                            *)
(***************************************************************************)

SelectionType ==
  /\ Size \in Nat \ {0} /\ Deepest \in Nat \ {0} /\ Users \subseteq Nat \ {0}
  /\ ps \in Snaps
  /\ base \in [user : Users \cup {0}, least : Nat]
  /\ typed \in [user : Users \cup {0}, least : Nat]
  /\ request.limit \in Nat

LEMMA SelectionTypes ==
  ASSUME ps \in Shapes, base \in Criteria, typed \in Criteria, request \in Requests
  PROVE  SelectionType
BY DisplayAssumption DEF L!SelectionAssumption, SelectionType, Snaps

LEMMA SelectedIs ==
  ASSUME SelectionType
  PROVE  /\ L!Selected \subseteq 1..Size /\ IsFiniteSet(L!Selected)
         /\ \A i \in 1..Size : ps[i].load \in Nat /\ ps[i].user \in Users /\ ps[i].user \in Nat
                               /\ ps[i].parent \in 0..(Size + 1)
<1>1. L!Selected \in SUBSET (1..Size)
  BY DEF L!Selected, L!Indices
<1>2. IsFiniteSet(1..Size)
  BY FS_Interval DEF SelectionType
<1>3. IsFiniteSet(L!Selected)
  BY <1>1, <1>2, FS_Subset
<1>4. \A i \in 1..Size : ps[i] \in [parent : 0..(Size + 1), user : Users, load : Nat]
  BY DEF SelectionType, Snaps
<1>5. Users \subseteq Nat
  BY DEF SelectionType
<1> QED BY <1>1, <1>3, <1>4, <1>5

LEMMA OrdersAreStrict ==
  ASSUME SelectionType, NEW T \in SUBSET (1..Size)
  PROVE  Strict(L!ByPid, T) /\ Strict(L!ByLoad, T) /\ Strict(L!ByLabel, T)
<1>1. \A i \in T : i \in 1..Size /\ i \in Nat /\ ps[i].load \in Nat /\ ps[i].user \in Nat
  BY SelectedIs
<1>2. \A x, y \in T : <<x, y>> \in L!ByPid <=> x < y
  BY <1>1 DEF L!ByPid, L!Indices
<1>3. \A x, y \in T : <<x, y>> \in L!ByLoad <=> \/ ps[x].load < ps[y].load
                                                \/ ps[x].load = ps[y].load /\ x < y
  BY <1>1 DEF L!ByLoad, L!Before, L!Indices
<1>4. \A x, y \in T : <<x, y>> \in L!ByLabel <=>
        \/ ps[x].user < ps[y].user
        \/ /\ ps[x].user = ps[y].user
           /\ ps[x].load < ps[y].load \/ (ps[x].load = ps[y].load /\ x < y)
  BY <1>1 DEF L!ByLabel, L!Before, L!Indices
<1>5. Strict(L!ByPid, T)
  BY <1>1, <1>2 DEF Strict
<1>6. Strict(L!ByLoad, T)
  BY <1>1, <1>3 DEF Strict
<1>7. Strict(L!ByLabel, T)
  BY <1>1, <1>4 DEF Strict
<1> QED BY <1>5, <1>6, <1>7

LEMMA DirectedLists ==
  ASSUME NEW T, NEW rows, Lists(rows, T)
  PROVE  Lists(L!Directed(rows), T)
BY ReversedLists DEF L!Directed

\* A part of the processes in the order asked for.
LEMMA LoadLists ==
  ASSUME SelectionType, NEW T \in SUBSET (1..Size)
  PROVE  Lists(L!Directed(L!Sorted(T, L!ByLoad)), T)
<1>1. IsFiniteSet(T)
  <2>1. IsFiniteSet(1..Size)
    BY FS_Interval DEF SelectionType
  <2> QED BY <2>1, FS_Subset
<1>2. Lists(L!Sorted(T, L!ByLoad), T)
  BY <1>1, OrdersAreStrict, SortedLists
<1> QED BY <1>2, DirectedLists

-----------------------------------------------------------------------------
\* The tree.
Listing == [i \in L!Selected |-> L!ListedParent(i)]
Reached == L!AppendChildren(L!Children)[Size][0][{}]

LEMMA ListingIs ==
  ASSUME SelectionType
  PROVE  /\ Parented(Listing) /\ DOMAIN Listing = L!Selected
         /\ \A i \in L!Selected : Listing[i] = IF ps[i].parent \in L!Selected THEN ps[i].parent ELSE 0
         /\ \A p \in 0..Size : Lists(L!Children[p], ChildrenOf(Listing, p))
<1>0. DOMAIN Listing = L!Selected
  BY DEF Listing
<1>1. \A i \in L!Selected : Listing[i] = IF ps[i].parent \in L!Selected THEN ps[i].parent ELSE 0
  BY DEF Listing, L!ListedParent
<1>2. L!Selected \in SUBSET (1..Size)
  BY SelectedIs
<1>3. Parented(Listing)
  <2>1. Listing \in [L!Selected -> L!Selected \cup {0}]
    BY <1>1 DEF Listing
  <2>2. 0 \notin L!Selected
    BY <1>2
  <2> QED BY <1>0, <2>1, <2>2 DEF Parented
<1>4. ASSUME NEW p \in 0..Size PROVE Lists(L!Children[p], ChildrenOf(Listing, p))
  <2> DEFINE T == ChildrenOf(Listing, p)
  <2>1. T = {i \in L!Selected : L!ListedParent(i) = p}
    BY DEF ChildrenOf, Listing
  <2>2. L!Children[p] = L!Directed(L!Sorted(T, L!ByLoad))
    BY <2>1 DEF L!Children
  <2>3. T \in SUBSET (1..Size)
    BY <1>2, <2>1
  <2> HIDE DEF T
  <2> QED BY <2>2, <2>3, LoadLists DEF T
<1> QED BY <1>0, <1>1, <1>3, <1>4

LEMMA ReachedIs ==
  ASSUME SelectionType
  PROVE  Lists(Reached, Under(Listing, 0)) /\ Family(Listing, Reached, 0)
<1> DEFINE f == Listing
           children == L!Children
<1>1. /\ Parented(f) /\ DOMAIN f \subseteq 1..Size /\ Size \in Nat
      /\ \A p \in 0..Size : Lists(children[p], ChildrenOf(f, p))
  BY ListingIs, SelectedIs DEF SelectionType
<1> HIDE DEF f, children
<1>2. /\ Lists(L!AppendChildren(children)[Size][0][{}], Under(f, 0))
      /\ Family(f, L!AppendChildren(children)[Size][0][{}], 0)
  BY <1>1, Appended
<1> QED BY <1>2 DEF Reached, f, children

\* Every selected process once, those that a root reaches first.
LEMMA TreeIs ==
  ASSUME SelectionType
  PROVE  /\ Lists(L!TreeOrder, L!Selected)
         /\ Len(Reached) \in Nat /\ Len(Reached) <= Len(L!TreeOrder)
         /\ \A k \in 1..Len(Reached) : L!TreeOrder[k] = Reached[k]
<1> DEFINE U == Under(Listing, 0)
           T == L!Selected \ U
           rest == L!Sorted(T, L!ByPid)
<1>1. Lists(Reached, U)
  BY ReachedIs
<1>2. L!ToSet(Reached) = U
  <2>1. DOMAIN Reached = 1..Len(Reached) /\ Reached \in [1..Len(Reached) -> U]
    BY <1>1 DEF Lists
  <2> QED BY <1>1, <2>1 DEF Lists, L!ToSet
<1>3. L!TreeOrder = Reached \o rest
  <2>1. L!TreeOrder = Reached \o L!Sorted(L!Selected \ L!ToSet(Reached), L!ByPid)
    BY DEF L!TreeOrder, Reached
  <2> QED BY <1>2, <2>1
<1>4. U \subseteq L!Selected
  BY ListingIs DEF Under
<1>5. T \in SUBSET (1..Size) /\ IsFiniteSet(T)
  BY SelectedIs, FS_Difference
<1>6. Lists(rest, T)
  BY <1>5, OrdersAreStrict, SortedLists
<1> HIDE DEF U, T, rest
<1>7. U \cap T = {} /\ U \cup T = L!Selected
  BY <1>4 DEF T
<1>8. Lists(Reached \o rest, U \cup T)
  BY <1>1, <1>6, <1>7, JoinedLists
<1>9. Reached \in Seq(U) /\ rest \in Seq(T)
  BY <1>1, <1>6 DEF Lists
<1>10. /\ Len(Reached) \in Nat /\ Len(rest) \in Nat
       /\ Len(Reached \o rest) = Len(Reached) + Len(rest)
       /\ \A k \in 1..Len(Reached) : (Reached \o rest)[k] = Reached[k]
  BY <1>9
<1>11. Lists(L!TreeOrder, L!Selected)
  BY <1>3, <1>7, <1>8
<1>12. Len(Reached) <= Len(L!TreeOrder) /\ Len(Reached) \in Nat
  BY <1>3, <1>10
<1>13. \A k \in 1..Len(Reached) : L!TreeOrder[k] = Reached[k]
  BY <1>3, <1>10
<1> QED BY <1>11, <1>12, <1>13

\* The groups: runs of one user, each turned round when descending.
ByUser == L!Sorted(L!Selected, L!ByLabel)
RunOf(k) == {j \in 1..Len(ByUser) : ps[ByUser[j]].user = ps[ByUser[k]].user}

LEMMA ByUserIs ==
  ASSUME SelectionType
  PROVE  /\ Lists(ByUser, L!Selected) /\ Len(ByUser) \in Nat /\ DOMAIN ByUser = 1..Len(ByUser)
         /\ \A k \in 1..Len(ByUser) : /\ ByUser[k] \in 1..Size /\ ps[ByUser[k]].user \in Nat
                                      /\ ps[ByUser[k]].load \in Nat
         /\ \A j, k \in 1..Len(ByUser) : j < k =>
              /\ ps[ByUser[j]].user <= ps[ByUser[k]].user
              /\ ps[ByUser[j]].user = ps[ByUser[k]].user => ps[ByUser[j]].load <= ps[ByUser[k]].load
<1>0. L!Selected \in SUBSET (1..Size) /\ IsFiniteSet(L!Selected)
  BY SelectedIs
<1>1. Strict(L!ByLabel, L!Selected)
  BY <1>0, OrdersAreStrict
<1>2. Lists(ByUser, L!Selected)
  BY <1>0, <1>1, SortedLists DEF ByUser
<1>3. \A j, k \in 1..Len(ByUser) : j < k => <<ByUser[j], ByUser[k]>> \in L!ByLabel
  BY <1>0, <1>1, SortedLists DEF ByUser
<1>4. ByUser \in Seq(L!Selected)
  BY <1>2 DEF Lists
<1>5. Len(ByUser) \in Nat /\ DOMAIN ByUser = 1..Len(ByUser)
      /\ \A k \in 1..Len(ByUser) : ByUser[k] \in L!Selected
  BY <1>4
<1>6. \A k \in 1..Len(ByUser) : /\ ByUser[k] \in 1..Size /\ ps[ByUser[k]].user \in Nat
                                /\ ps[ByUser[k]].load \in Nat
  BY <1>0, <1>5, SelectedIs
<1>7. ASSUME NEW j \in 1..Len(ByUser), NEW k \in 1..Len(ByUser), j < k
      PROVE  /\ ps[ByUser[j]].user <= ps[ByUser[k]].user
             /\ ps[ByUser[j]].user = ps[ByUser[k]].user => ps[ByUser[j]].load <= ps[ByUser[k]].load
  <2>1. <<ByUser[j], ByUser[k]>> \in L!ByLabel
    BY <1>3, <1>7
  <2>2. \/ ps[ByUser[j]].user < ps[ByUser[k]].user
        \/ /\ ps[ByUser[j]].user = ps[ByUser[k]].user
           /\ ps[ByUser[j]].load <= ps[ByUser[k]].load
    BY <1>6, <2>1 DEF L!ByLabel, L!Before
  <2> QED BY <1>6, <2>2
<1> QED BY <1>2, <1>5, <1>6, <1>7

LEMMA RunIs ==
  ASSUME SelectionType, NEW k \in 1..Len(ByUser)
  PROVE  \E low, high \in 1..Len(ByUser) :
           /\ low <= k /\ k <= high /\ RunOf(k) = low..high
           /\ L!Mirrored(ByUser, k) = ByUser[low + high - k]
<1> DEFINE n == Len(ByUser)
           user(j) == ps[ByUser[j]].user
           U == {n - j : j \in RunOf(k)}
           low == CHOOSE j \in RunOf(k) : \A o \in RunOf(k) : j <= o
           high == CHOOSE j \in RunOf(k) : \A o \in RunOf(k) : o <= j
<1>1. /\ n \in Nat /\ DOMAIN ByUser = 1..n
      /\ \A j \in 1..n : user(j) \in Nat
      /\ \A i, j \in 1..n : i < j => user(i) <= user(j)
  BY ByUserIs
<1>2. RunOf(k) = {j \in 1..n : user(j) = user(k)} /\ k \in RunOf(k) /\ RunOf(k) \subseteq 1..n
  BY DEF RunOf
<1> HIDE DEF user, n
<1>4. \E j \in RunOf(k) : \A o \in RunOf(k) : j <= o
  <2>1. RunOf(k) \subseteq Nat /\ RunOf(k) # {}
    BY <1>2
  <2> QED BY <2>1, Least
<1>5. \E j \in RunOf(k) : \A o \in RunOf(k) : o <= j
  <2>1. U \subseteq Nat /\ U # {}
    BY <1>1, <1>2
  <2>2. PICK d \in U : \A e \in U : d <= e
    <3> HIDE DEF U
    <3> QED BY <2>1, Least
  <2>3. PICK j \in RunOf(k) : d = n - j
    OBVIOUS
  <2>4. ASSUME NEW o \in RunOf(k) PROVE o <= j
    <3>1. n - j <= n - o
      BY <2>2, <2>3
    <3>2. o \in Int /\ j \in Int
      BY <1>2
    <3> QED BY <1>1, <3>1, <3>2
  <2> QED BY <2>4
<1>6. /\ low \in RunOf(k) /\ \A o \in RunOf(k) : low <= o
      /\ high \in RunOf(k) /\ \A o \in RunOf(k) : o <= high
  BY <1>4, <1>5
<1>7. L!Mirrored(ByUser, k) = ByUser[low + high - k]
  <2>1. RunOf(k) = {j \in DOMAIN ByUser : ps[ByUser[j]].user = ps[ByUser[k]].user}
    BY <1>1 DEF RunOf, n
  <2> DEFINE those == {j \in DOMAIN ByUser : ps[ByUser[j]].user = ps[ByUser[k]].user}
             a == CHOOSE j \in those : \A o \in those : j <= o
             b == CHOOSE j \in those : \A o \in those : o <= j
  <2>2. L!Mirrored(ByUser, k) = ByUser[a + b - k]
    BY DEF L!Mirrored
  <2>3. those = RunOf(k)
    BY <2>1
  <2> HIDE DEF those
  <2>4. a = low /\ b = high
    BY <2>3
  <2> QED BY <2>2, <2>4
<1> HIDE DEF low, high
<1>8. low \in 1..n /\ high \in 1..n /\ low <= k /\ k <= high /\ k \in 1..n
  BY <1>2, <1>6
<1>9. ASSUME NEW j \in low..high PROVE j \in RunOf(k)
  <2>1. j \in 1..n
    BY <1>1, <1>8
  <2>2. user(low) = user(k) /\ user(high) = user(k)
    BY <1>2, <1>6
  <2>3. user(low) <= user(j) /\ user(j) <= user(high)
    <3>1. low < j => user(low) <= user(j)
      BY <1>1, <1>8, <2>1
    <3>2. j < high => user(j) <= user(high)
      BY <1>1, <1>8, <2>1
    <3>3. user(low) \in Nat /\ user(j) \in Nat /\ user(high) \in Nat
      BY <1>1, <1>8, <2>1
    <3>4. low < j \/ j = low
      BY <1>8
    <3>5. j < high \/ j = high
      BY <1>8
    <3> QED BY <3>1, <3>2, <3>3, <3>4, <3>5
  <2>4. user(j) \in Nat /\ user(k) \in Nat
    BY <1>1, <1>8, <2>1
  <2>5. user(j) = user(k)
    BY ONLY <2>2, <2>3, <2>4
  <2> QED BY <1>2, <2>1, <2>5
<1>10. ASSUME NEW j \in RunOf(k) PROVE j \in low..high
  BY <1>1, <1>2, <1>6, <1>8
<1>11. RunOf(k) = low..high
  BY <1>9, <1>10
<1> QED BY <1>7, <1>8, <1>11 DEF n

\* The place that a place has when each run is turned round.
Turned(k) == CHOOSE j \in RunOf(k) :
               \E low, high \in 1..Len(ByUser) : RunOf(k) = low..high /\ low <= high /\ j = low + high - k

LEMMA TurnedIs ==
  ASSUME SelectionType, NEW k \in 1..Len(ByUser)
  PROVE  /\ Turned(k) \in 1..Len(ByUser)
         /\ ps[ByUser[Turned(k)]].user = ps[ByUser[k]].user
         /\ L!Mirrored(ByUser, k) = ByUser[Turned(k)]
         /\ Turned(Turned(k)) = k
         /\ \A j \in 1..Len(ByUser) : ps[ByUser[j]].user = ps[ByUser[k]].user =>
              Turned(k) + k = Turned(j) + j
<1> DEFINE n == Len(ByUser)
<1>1. n \in Nat
  BY ByUserIs
<1>2. PICK low \in 1..n, high \in 1..n :
        /\ low <= k /\ k <= high /\ RunOf(k) = low..high
        /\ L!Mirrored(ByUser, k) = ByUser[low + high - k]
  BY RunIs
<1> HIDE DEF n
<1>3. \A a, b \in 1..n : RunOf(k) = a..b /\ a <= b => a = low /\ b = high
  <2> SUFFICES ASSUME NEW a \in 1..n, NEW b \in 1..n, RunOf(k) = a..b, a <= b PROVE a = low /\ b = high
    OBVIOUS
  <2>1. a \in low..high /\ b \in low..high /\ low \in a..b /\ high \in a..b
    <3>1. a..b = low..high
      BY <1>2
    <3>2. a \in a..b /\ b \in a..b /\ low \in low..high /\ high \in low..high
      BY <1>2
    <3> QED BY <3>1, <3>2
  <2> QED BY <2>1
<1>4. ASSUME NEW j \in 1..n, ps[ByUser[j]].user = ps[ByUser[k]].user
      PROVE  RunOf(j) = low..high /\ Turned(j) = low + high - j /\ Turned(j) \in low..high
  <2>1. RunOf(j) = RunOf(k)
    BY <1>4 DEF RunOf
  <2>2. j \in low..high
    <3>1. j \in RunOf(k)
      BY <1>4 DEF RunOf, n
    <3> QED BY <1>2, <3>1
  <2>3. low + high - j \in low..high
    BY <2>2
  <2>4. \E i \in RunOf(j) : \E a, b \in 1..n : RunOf(j) = a..b /\ a <= b /\ i = a + b - j
    <3>1. low <= high
      BY <1>2
    <3> QED BY <1>2, <2>1, <2>3, <3>1
  <2>5. \E a, b \in 1..n : RunOf(j) = a..b /\ a <= b /\ Turned(j) = a + b - j
    BY <2>4 DEF Turned, n
  <2>6. Turned(j) = low + high - j
    BY <1>3, <2>1, <2>5
  <2> QED BY <1>2, <2>1, <2>3, <2>6
<1>5. k \in 1..n
  BY DEF n
<1>6. Turned(k) = low + high - k /\ Turned(k) \in low..high
  BY <1>4, <1>5
<1>7. Turned(k) \in 1..n /\ ps[ByUser[Turned(k)]].user = ps[ByUser[k]].user
  <2>1. Turned(k) \in RunOf(k)
    BY <1>2, <1>6
  <2> QED BY <2>1 DEF RunOf, n
<1>8. Turned(Turned(k)) = low + high - Turned(k)
  BY <1>4, <1>7
<1>9. Turned(Turned(k)) = k
  BY <1>2, <1>5, <1>6, <1>8
<1>10. ASSUME NEW j \in 1..n, ps[ByUser[j]].user = ps[ByUser[k]].user
       PROVE  Turned(k) + k = Turned(j) + j
  <2>1. Turned(j) = low + high - j
    BY <1>4, <1>10
  <2> QED BY <1>2, <1>5, <1>6, <2>1
<1> QED BY <1>2, <1>6, <1>7, <1>9, <1>10 DEF n

\* The groups ascend, the members of each go in the direction asked for.
LEMMA GroupsAre ==
  ASSUME SelectionType
  PROVE  /\ Lists(L!GroupOrder, L!Selected)
         /\ \A k \in 1..(Len(L!GroupOrder) - 1) :
              LET this == ps[L!GroupOrder[k]] other == ps[L!GroupOrder[k + 1]]
              IN  /\ this.user <= other.user
                  /\ this.user = other.user =>
                       IF request.direction = "descending" THEN this.load >= other.load
                       ELSE this.load <= other.load
<1> DEFINE n == Len(ByUser)
           t == L!GroupOrder
<1>0. /\ Lists(ByUser, L!Selected) /\ n \in Nat /\ DOMAIN ByUser = 1..n
      /\ \A k \in 1..n : /\ ByUser[k] \in 1..Size /\ ps[ByUser[k]].user \in Nat
                         /\ ps[ByUser[k]].load \in Nat
      /\ \A j, k \in 1..n : j < k =>
              /\ ps[ByUser[j]].user <= ps[ByUser[k]].user
              /\ ps[ByUser[j]].user = ps[ByUser[k]].user => ps[ByUser[j]].load <= ps[ByUser[k]].load
  BY ByUserIs
<1>1. CASE request.direction # "descending"
  <2>1. t = ByUser
    BY <1>1 DEF L!GroupOrder, ByUser
  <2>2. ASSUME NEW k \in 1..(n - 1)
        PROVE  /\ ps[ByUser[k]].user <= ps[ByUser[k + 1]].user
               /\ ps[ByUser[k]].user = ps[ByUser[k + 1]].user => ps[ByUser[k]].load <= ps[ByUser[k + 1]].load
    <3>1. k \in 1..n /\ k + 1 \in 1..n /\ k < k + 1
      BY <1>0
    <3> HIDE DEF n
    <3> QED BY <1>0, <3>1
  <2> QED BY <1>0, <1>1, <2>1, <2>2
<1>2. CASE request.direction = "descending"
  <2>1. t = [k \in 1..n |-> L!Mirrored(ByUser, k)]
    <3>1. t = [k \in DOMAIN ByUser |-> L!Mirrored(ByUser, k)]
      BY <1>2 DEF L!GroupOrder, ByUser
    <3> QED BY <1>0, <3>1
  <2>2. ASSUME NEW k \in 1..n
        PROVE  /\ Turned(k) \in 1..n /\ t[k] = ByUser[Turned(k)]
               /\ ps[t[k]].user = ps[ByUser[k]].user
               /\ Turned(Turned(k)) = k
    BY <2>1, TurnedIs
  <2> HIDE DEF n, t
  <2>3. /\ ByUser \in Seq(L!Selected)
        /\ \A j, k \in 1..n : ByUser[j] = ByUser[k] => j = k
        /\ \A x \in L!Selected : \E k \in 1..n : ByUser[k] = x
    BY <1>0 DEF Lists, n
  <2>4. t \in Seq(L!Selected) /\ Len(t) = n
    <3>1. \A k \in 1..n : ByUser[k] \in L!Selected
      BY <2>3 DEF n
    <3>2. t \in [1..n -> L!Selected]
      BY <2>1, <2>2, <3>1
    <3> QED BY <1>0, <3>2
  <2>5. Lists(t, L!Selected)
    <3>1. ASSUME NEW j \in 1..n, NEW k \in 1..n, t[j] = t[k] PROVE j = k
      <4>1. Turned(j) = Turned(k)
        BY <2>2, <2>3, <3>1
      <4> QED BY <2>2, <4>1
    <3>2. ASSUME NEW x \in L!Selected PROVE \E k \in 1..n : t[k] = x
      <4>1. PICK k \in 1..n : ByUser[k] = x
        BY <2>3
      <4>2. t[Turned(k)] = x
        BY <2>2, <4>1
      <4> QED BY <2>2, <4>2
    <3> QED BY <2>4, <3>1, <3>2 DEF Lists
  <2>6. ASSUME NEW k \in 1..(n - 1)
        PROVE  /\ ps[t[k]].user <= ps[t[k + 1]].user
               /\ ps[t[k]].user = ps[t[k + 1]].user => ps[t[k]].load >= ps[t[k + 1]].load
    <3>1. k \in 1..n /\ k + 1 \in 1..n /\ k < k + 1
      BY <1>0
    <3>2. ps[t[k]].user <= ps[t[k + 1]].user
      BY <1>0, <2>2, <3>1
    <3>3. ASSUME ps[t[k]].user = ps[t[k + 1]].user PROVE ps[t[k]].load >= ps[t[k + 1]].load
      <4>1. Turned(k) + k = Turned(k + 1) + (k + 1)
        <5>1. ps[ByUser[k + 1]].user = ps[ByUser[k]].user
          BY <2>2, <3>1, <3>3
        <5> QED BY <3>1, <5>1, TurnedIs DEF n
      <4>2. Turned(k) \in 1..n /\ Turned(k + 1) \in 1..n
        BY <2>2, <3>1
      <4>3. Turned(k + 1) < Turned(k)
        BY <1>0, <4>1, <4>2
      <4>4. t[k] = ByUser[Turned(k)] /\ t[k + 1] = ByUser[Turned(k + 1)]
        BY <2>2, <3>1
      <4>5. ps[t[k + 1]].load <= ps[t[k]].load
        BY <1>0, <3>3, <4>2, <4>3, <4>4
      <4>6. ps[t[k]].load \in Nat /\ ps[t[k + 1]].load \in Nat
        BY <1>0, <4>2, <4>4
      <4> QED BY <4>5, <4>6
    <3> QED BY <3>2, <3>3
  <2> QED BY <1>2, <2>4, <2>5, <2>6 DEF t
<1> QED BY <1>1, <1>2

LEMMA OrderedLists ==
  ASSUME SelectionType PROVE Lists(L!Ordered, L!Selected)
<1>1. L!Selected \in SUBSET (1..Size)
  BY SelectedIs
<1>2. Lists(L!Flat, L!Selected)
  BY <1>1, LoadLists DEF L!Flat
<1>3. L!Ordered \in {L!TreeOrder, L!GroupOrder, L!Flat}
  BY DEF L!Ordered
<1> QED BY <1>2, <1>3, TreeIs, GroupsAre

\* The rows are as many of the order as the limit lets through.
LEMMA RowsAre ==
  ASSUME SelectionType
  PROVE  /\ Len(L!Ordered) \in Nat
         /\ Len(L!Rows) = IF request.limit < Len(L!Ordered) THEN request.limit ELSE Len(L!Ordered)
         /\ Len(L!Rows) \in Nat /\ Len(L!Rows) <= Len(L!Ordered)
         /\ DOMAIN L!Rows = 1..Len(L!Rows)
         /\ \A k \in 1..Len(L!Rows) :
              /\ L!Rows[k].pid = L!Ordered[k] /\ L!Ordered[k] \in L!Selected
              /\ L!Rows[k].depth = IF request.group = "tree" THEN L!TreeDepth(L!Ordered[k]) ELSE 0
              /\ L!Rows[k].label = IF /\ request.group = "user"
                                      /\ k = 1 \/ ps[L!Ordered[k - 1]].user # ps[L!Ordered[k]].user
                                   THEN ps[L!Ordered[k]].user ELSE 0
<1> DEFINE s == L!Ordered
           m == IF request.limit < Len(s) THEN request.limit ELSE Len(s)
           t == L!Truncate(s)
           depth(i) == IF request.group = "tree" THEN L!TreeDepth(i) ELSE 0
<1>1. s \in Seq(L!Selected)
  BY OrderedLists DEF Lists
<1>2. Len(s) \in Nat /\ request.limit \in Nat /\ \A k \in 1..Len(s) : s[k] \in L!Selected
  BY <1>1 DEF SelectionType
<1>3. t = SubSeq(s, 1, m)
  BY DEF L!Truncate
<1>4. L!Rows = [k \in DOMAIN t |->
                  [pid |-> t[k], depth |-> depth(t[k]),
                   label |-> IF request.group = "user" /\ (k = 1 \/ ps[t[k - 1]].user # ps[t[k]].user)
                             THEN ps[t[k]].user ELSE 0]]
  BY DEF L!Rows
<1> HIDE DEF s, t, depth
<1>5. m \in Nat /\ m <= Len(s)
  BY <1>2
<1>6. DOMAIN t = 1..m /\ \A k \in 1..m : t[k] = s[k]
  <2> HIDE DEF m
  <2>1. t \in Seq(L!Selected) /\ Len(t) = m /\ \A k \in 1..m : t[k] = s[k]
    BY <1>1, <1>2, <1>3, <1>5
  <2> QED BY <2>1
<1> HIDE DEF m
<1>7. DOMAIN L!Rows = 1..m /\ Len(L!Rows) = m
  <2>1. DOMAIN L!Rows = 1..m
    BY <1>4, <1>6
  <2>2. L!Rows = [k \in 1..m |-> L!Rows[k]]
    BY <1>4, <1>6
  <2> QED BY <1>5, <2>1, <2>2
<1>8. ASSUME NEW k \in 1..m
      PROVE  /\ L!Rows[k].pid = s[k] /\ s[k] \in L!Selected
             /\ L!Rows[k].depth = depth(s[k])
             /\ L!Rows[k].label = IF /\ request.group = "user"
                                     /\ k = 1 \/ ps[s[k - 1]].user # ps[s[k]].user
                                  THEN ps[s[k]].user ELSE 0
  <2>1. t[k] = s[k] /\ (k # 1 => t[k - 1] = s[k - 1])
    <3>1. k # 1 => k - 1 \in 1..m
      BY <1>5
    <3> QED BY <1>6, <3>1
  <2>2. L!Rows[k] = [pid |-> t[k], depth |-> depth(t[k]),
                     label |-> IF request.group = "user" /\ (k = 1 \/ ps[t[k - 1]].user # ps[t[k]].user)
                               THEN ps[t[k]].user ELSE 0]
    BY <1>4, <1>6
  <2>3. s[k] \in L!Selected
    BY <1>2, <1>5
  <2> QED BY <2>1, <2>2, <2>3
<1> QED BY <1>2, <1>5, <1>7, <1>8 DEF s, m, depth

LEMMA WantedIsSelected ==
  ASSUME SelectionType
  PROVE  {i \in L!Indices :
            /\ \A u \in Users : (typed.user = u \/ (typed.user = 0 /\ base.user = u))
                                    => ps[i].user = u
            /\ ps[i].load >= IF typed.least # 0 THEN typed.least ELSE base.least} = L!Selected
<1>1. ASSUME NEW i \in L!Indices
      PROVE  (/\ \A u \in Users : (typed.user = u \/ (typed.user = 0 /\ base.user = u))
                                    => ps[i].user = u
              /\ ps[i].load >= IF typed.least # 0 THEN typed.least ELSE base.least)
             <=> L!Matches(L!Merge(base, typed), ps[i])
  <2>1. typed.user \in Users \cup {0} /\ base.user \in Users \cup {0} /\ 0 \notin Users
    BY DEF SelectionType
  <2>2. CASE typed.user # 0
    BY <2>1, <2>2 DEF L!Matches, L!Merge
  <2>3. CASE typed.user = 0
    BY <2>1, <2>3 DEF L!Matches, L!Merge
  <2> QED BY <2>2, <2>3
<1> QED BY <1>1 DEF L!Selected

LEMMA EveryMatchShown ==
  ASSUME SelectionType, shown = L!Rows PROVE L!EveryMatchOnce
<1> DEFINE n == Len(L!Ordered)
           m == Len(shown)
<1>1. /\ n \in Nat /\ m \in Nat /\ m <= n /\ DOMAIN shown = 1..m
      /\ m = IF request.limit < n THEN request.limit ELSE n
      /\ \A k \in 1..m : shown[k].pid = L!Ordered[k] /\ L!Ordered[k] \in L!Selected
  BY RowsAre
<1>2. /\ Cardinality(L!Selected) = n
      /\ \A j, k \in 1..n : L!Ordered[j] = L!Ordered[k] => j = k
  BY OrderedLists, ListedOnce DEF Lists
<1> HIDE DEF n, m
<1>3. L!Listed = {shown[k].pid : k \in 1..m} /\ L!Listed \subseteq L!Selected
  BY <1>1 DEF L!Listed
<1>4. Cardinality(L!Listed) = m
  <2> DEFINE pids == [k \in 1..m |-> shown[k].pid]
  <2>1. pids \in Seq(L!Listed) /\ Len(pids) = m
    BY <1>1, <1>3
  <2>2. \A j, k \in 1..m : pids[j] = pids[k] => j = k
    <3> SUFFICES ASSUME NEW j \in 1..m, NEW k \in 1..m, pids[j] = pids[k] PROVE j = k
      OBVIOUS
    <3>1. L!Ordered[j] = L!Ordered[k] /\ j \in 1..n /\ k \in 1..n
      BY <1>1
    <3> QED BY <1>2, <3>1
  <2>3. \A x \in L!Listed : \E k \in 1..m : pids[k] = x
    BY <1>3
  <2> HIDE DEF pids
  <2>4. Lists(pids, L!Listed)
    BY <2>1, <2>2, <2>3 DEF Lists
  <2> QED BY <2>1, <2>4, ListedOnce
<1>5. L!Cardinality(L!Listed) = m /\ L!Cardinality(L!Selected) = n
  BY <1>2, <1>4, SameCount
<1>6. m = Len(shown)
  BY DEF m
<1> QED BY <1>1, <1>3, <1>5, <1>6, WantedIsSelected DEF L!EveryMatchOnce

LEMMA GroupsShown ==
  ASSUME SelectionType, shown = L!Rows PROVE L!GroupsTogether
<1> SUFFICES ASSUME request.group = "user", NEW k \in 1..(Len(shown) - 1)
             PROVE  LET this == ps[shown[k].pid] next == ps[shown[k + 1].pid]
                    IN  /\ this.user <= next.user
                        /\ (shown[k + 1].label # 0) <=> (this.user # next.user)
                        /\ this.user = next.user =>
                             IF request.direction = "descending" THEN this.load >= next.load
                             ELSE this.load <= next.load
  BY DEF L!GroupsTogether
<1> DEFINE s == L!GroupOrder
           q == k + 1
<1>1. L!Ordered = s
  BY DEF L!Ordered
<1>2. /\ Len(s) \in Nat /\ Len(shown) \in Nat /\ Len(shown) <= Len(s)
      /\ \A j \in 1..Len(shown) :
           /\ shown[j].pid = s[j] /\ s[j] \in L!Selected
           /\ shown[j].label = IF j = 1 \/ ps[s[j - 1]].user # ps[s[j]].user THEN ps[s[j]].user ELSE 0
  BY <1>1, RowsAre
<1>3. k \in 1..Len(shown) /\ q \in 1..Len(shown) /\ k \in 1..(Len(s) - 1) /\ q # 1 /\ q - 1 = k
  BY <1>2
<1>4. /\ shown[k].pid = s[k] /\ shown[q].pid = s[q] /\ s[q] \in L!Selected
      /\ shown[q].label = IF ps[s[k]].user # ps[s[q]].user THEN ps[s[q]].user ELSE 0
  <2> HIDE DEF q, s
  <2> QED BY <1>2, <1>3
<1>5. /\ ps[s[k]].user <= ps[s[q]].user
      /\ ps[s[k]].user = ps[s[q]].user =>
           IF request.direction = "descending" THEN ps[s[k]].load >= ps[s[q]].load
           ELSE ps[s[k]].load <= ps[s[q]].load
  BY <1>3, GroupsAre
<1>6. ps[s[q]].user # 0
  <2>1. s[q] \in 1..Size
    BY <1>4, SelectedIs
  <2> QED BY <2>1, SelectedIs DEF SelectionType
<1> HIDE DEF s
<1> QED BY <1>4, <1>5, <1>6

-----------------------------------------------------------------------------
\* What is above a listed process in the listing is above it in the snapshot.
LEMMA ChainElders ==
  ASSUME SelectionType, NEW x \in L!Selected
  PROVE  \A a \in Chain(Listing, Listing[x]) : a # 0 => a \in Elders(ps)[x]
<1> DEFINE f == Listing
           T == {0} \cup (Elders(ps)[x] \cap L!Selected)
<1>1. /\ Parented(f) /\ DOMAIN f = L!Selected /\ L!Selected \subseteq 1..Size /\ ps \in Snaps
      /\ \A i \in L!Selected : f[i] = IF ps[i].parent \in L!Selected THEN ps[i].parent ELSE 0
  BY ListingIs, SelectedIs DEF SelectionType
<1>2. \A a \in {x} \cup Elders(ps)[x] :
        ps[a].parent \in 1..Size => ps[a].parent \in Elders(ps)[x]
  BY <1>1, EldersAre
<1> HIDE DEF f
<1>3. T \in SUBSET (DOMAIN f \cup {0}) /\ f[x] \in T /\ f[x] \in DOMAIN f \cup {0}
  BY <1>1, <1>2
<1>4. ASSUME NEW j \in T \cap DOMAIN f PROVE f[j] \in T
  <2>1. j \in Elders(ps)[x] /\ j \in L!Selected
    BY <1>1 DEF Parented
  <2>2. CASE ps[j].parent \in L!Selected
    <3>1. f[j] = ps[j].parent /\ ps[j].parent \in Elders(ps)[x]
      BY <1>1, <1>2, <2>1, <2>2
    <3> QED BY <2>2, <3>1
  <2>3. CASE ps[j].parent \notin L!Selected
    BY <1>1, <2>1, <2>3
  <2> QED BY <2>2, <2>3
<1>5. Chain(f, f[x]) \subseteq T
  <2> HIDE DEF T
  <2> QED BY <1>1, <1>3, <1>4, ChainIs
<1> QED BY <1>5 DEF f

LEMMA UncycledReached ==
  ASSUME SelectionType, NEW x \in L!Selected, Uncycled(ps, x)
  PROVE  x \in Under(Listing, 0)
<1> DEFINE f == Listing
<1>1. /\ Parented(f) /\ DOMAIN f = L!Selected /\ IsFiniteSet(DOMAIN f) /\ 0 \notin DOMAIN f
  BY ListingIs, SelectedIs DEF Parented
<1>2. Chain(f, x) = {x} \cup Chain(f, f[x])
  BY <1>1, ChainOf
<1> SUFFICES ASSUME 0 \notin Chain(f, f[x]) PROVE FALSE
  BY <1>1 DEF Under
<1>3. 0 \notin Chain(f, x)
  BY <1>1, <1>2
<1>4. PICK a \in Chain(f, x) : a \in DOMAIN f /\ f[a] \in DOMAIN f /\ a \in Chain(f, f[a])
  <2> HIDE DEF f
  <2> QED BY <1>1, <1>3, CycleAbove
<1>5. a # 0 /\ a \in L!Selected
  BY <1>1, <1>4
<1>6. a \in Elders(ps)[a]
  BY <1>4, <1>5, ChainElders
<1>7. a \in {x} \cup Elders(ps)[x]
  <2>1. a = x \/ a \in Chain(f, f[x])
    BY <1>2, <1>4
  <2> QED BY <1>5, <2>1, ChainElders
<1> QED BY <1>6, <1>7 DEF Uncycled

LEMMA AncestorsAre ==
  ASSUME SelectionType PROVE L!Ancestors = Elders(ps)
BY DEF L!Ancestors, Elders, L!Indices

LEMMA ChildrenShown ==
  ASSUME SelectionType, shown = L!Rows PROVE L!ChildUnderParent
<1> DEFINE above == Elders(ps)
<1>0. L!Ancestors = above /\ ps \in Snaps
  BY AncestorsAre DEF SelectionType
<1> SUFFICES ASSUME request.group = "tree", NEW i \in L!Listed, ps[i].parent \in L!Listed,
                    \A a \in {i} \cup above[i] : a \notin above[a]
             PROVE  LET p == ps[i].parent
                    IN  /\ L!Place(p) < L!Place(i)
                        /\ \A k \in (L!Place(p) + 1)..L!Place(i) : p \in above[shown[k].pid]
                        /\ shown[L!Place(i)].depth \in {shown[L!Place(p)].depth + 1, Deepest}
  BY <1>0 DEF L!ChildUnderParent
<1> DEFINE p == ps[i].parent
           f == Listing
           m == Len(shown)
           s == L!TreeOrder
           r == Len(Reached)
<1>1. L!Ordered = s
  BY DEF L!Ordered
<1>2. /\ Len(s) \in Nat /\ m \in Nat /\ m <= Len(s) /\ DOMAIN shown = 1..m
      /\ \A k \in 1..m : /\ shown[k].pid = s[k] /\ s[k] \in L!Selected
                         /\ shown[k].depth = L!TreeDepth(s[k])
  BY <1>1, RowsAre
<1>3. \A j, k \in 1..Len(s) : s[j] = s[k] => j = k
  BY TreeIs DEF Lists
<1>4. r \in Nat /\ r <= Len(s) /\ \A k \in 1..r : s[k] = Reached[k]
  BY TreeIs
<1>5. Lists(Reached, Under(f, 0)) /\ Family(f, Reached, 0)
  BY ReachedIs
<1>6. /\ L!Selected \subseteq 1..Size
      /\ \A x \in L!Selected : f[x] = IF ps[x].parent \in L!Selected THEN ps[x].parent ELSE 0
      /\ DOMAIN f = L!Selected
  BY ListingIs, SelectedIs
<1> HIDE DEF s, r, m, f
<1>7. ASSUME NEW x \in L!Listed
      PROVE  /\ L!Place(x) \in 1..m /\ s[L!Place(x)] = x /\ x \in L!Selected
             /\ \A k \in 1..Len(s) : s[k] = x => L!Place(x) = k
  <2>1. PICK k \in DOMAIN shown : shown[k].pid = x
    BY DEF L!Listed
  <2>2. L!Place(x) \in DOMAIN shown /\ shown[L!Place(x)].pid = x
    BY <2>1 DEF L!Place
  <2>3. L!Place(x) \in 1..m /\ s[L!Place(x)] = x /\ x \in L!Selected
    BY <1>2, <2>2
  <2>4. L!Place(x) \in 1..Len(s)
    BY <1>2, <2>3
  <2> QED BY <1>3, <2>3, <2>4
<1>8. p \in L!Selected /\ i \in L!Selected /\ i \in 1..Size /\ p \in 1..Size /\ p # 0 /\ f[i] = p
  BY <1>6, <1>7
<1>9. Uncycled(ps, i)
  BY DEF Uncycled
<1>10. i \in Under(f, 0)
  BY <1>8, <1>9, UncycledReached DEF f
<1>11. PICK k \in 1..r : Reached[k] = i
  BY <1>5, <1>10 DEF Lists, r
<1>12. PICK j \in 1..(k - 1) : Reached[j] = p /\ \A l \in (j + 1)..k : Reached[l] \in Under(f, p)
  <2>1. \/ f[Reached[k]] = 0
        \/ \E j \in 1..(k - 1) : /\ Reached[j] = f[Reached[k]]
                                 /\ \A l \in (j + 1)..k : Reached[l] \in Under(f, Reached[j])
    BY <1>5, <1>11 DEF Family, r
  <2>2. f[Reached[k]] = p
    BY <1>8, <1>11
  <2> HIDE DEF p
  <2> QED BY <1>8, <2>1, <2>2
<1>13. L!Place(i) = k /\ L!Place(p) = j /\ j < k /\ k \in 1..m /\ j \in 1..m
  <2>1. k \in 1..Len(s) /\ j \in 1..Len(s) /\ j \in 1..r
    BY <1>2, <1>4
  <2>2. s[k] = i /\ s[j] = p
    BY <1>4, <1>11, <1>12, <2>1
  <2>3. L!Place(i) = k /\ L!Place(p) = j /\ L!Place(i) \in 1..m /\ L!Place(p) \in 1..m
    BY <1>7, <2>1, <2>2
  <2>4. j < k
    BY <1>4
  <2> QED BY <2>3, <2>4
<1>14. ASSUME NEW l \in (j + 1)..k PROVE p \in above[shown[l].pid]
  <2>1. l \in 1..m /\ l \in 1..r
    BY <1>2, <1>4, <1>13
  <2>2. shown[l].pid = Reached[l] /\ Reached[l] \in L!Selected
    BY <1>2, <1>4, <2>1
  <2>3. p \in Chain(f, f[Reached[l]])
    BY <1>12 DEF Under
  <2> QED BY <1>8, <2>2, <2>3, ChainElders DEF f
<1>15. shown[k].depth \in {shown[j].depth + 1, Deepest}
  <2>1. s[k] = i /\ s[j] = p
    BY <1>7, <1>13
  <2>2. shown[k].depth = L!Climb(ps)[Deepest][i][{}] /\ shown[j].depth = L!Climb(ps)[Deepest][p][{}]
    BY <1>2, <1>13, <2>1 DEF L!TreeDepth
  <2>3. L!Climb(ps)[Deepest][i][{}] \in {L!Climb(ps)[Deepest][p][{}] + 1, Deepest}
    BY <1>0, <1>8, <1>9, OneStepDeeper DEF SelectionType
  <2> QED BY <2>2, <2>3
<1> HIDE DEF p, above
<1> QED BY <1>13, <1>14, <1>15 DEF p, above

SelectionInv ==
  /\ ps \in Shapes /\ base \in Criteria /\ typed \in Criteria /\ request \in Requests
  /\ shown = <<>> \/ shown = L!Rows

LEMMA SelectionStarts == L!Init => SelectionInv
BY DEF L!Init, SelectionInv

LEMMA RowsRest ==
  ASSUME UNCHANGED <<ps, base, typed, request>> PROVE L!Rows' = L!Rows
<1>1. ps' = ps /\ base' = base /\ typed' = typed /\ request' = request
  OBVIOUS
<1>2. L!Selected' = L!Selected
  BY <1>1 DEF L!Selected, L!Matches, L!Merge
<1>3. L!ByLoad' = L!ByLoad /\ L!ByLabel' = L!ByLabel
  BY <1>1 DEF L!ByLoad, L!ByLabel, L!Before
<1>4. L!Children' = L!Children
  BY <1>1, <1>2, <1>3 DEF L!Children, L!ListedParent, L!Directed
<1>5. L!Flat' = L!Flat
  BY <1>1, <1>2, <1>3 DEF L!Flat, L!Directed
<1>6. L!TreeOrder' = L!TreeOrder
  BY <1>2, <1>4 DEF L!TreeOrder, L!ByPid
<1>7. L!GroupOrder' = L!GroupOrder
  BY <1>1, <1>2, <1>3 DEF L!GroupOrder, L!Mirrored
<1>8. L!Ordered' = L!Ordered
  BY <1>1, <1>5, <1>6, <1>7 DEF L!Ordered
<1> QED BY <1>1, <1>8 DEF L!Rows, L!Truncate, L!TreeDepth

LEMMA SelectionMoves == SelectionInv /\ [L!Next]_selectionVars => SelectionInv'
<1> SUFFICES ASSUME SelectionInv, [L!Next]_selectionVars PROVE SelectionInv'
  OBVIOUS
<1>1. UNCHANGED <<ps, base, typed, request>> /\ (shown' = shown \/ shown' = L!Rows)
  BY DEF L!Next, L!SelectProcesses, selectionVars
<1>2. L!Rows' = L!Rows
  BY <1>1, RowsRest
<1> HIDE DEF L!Rows
<1> QED BY <1>1, <1>2 DEF SelectionInv

LEMMA SelectionShows ==
  ASSUME SelectionInv PROVE L!EveryMatchOnce /\ L!ChildUnderParent /\ L!GroupsTogether
<1>1. SelectionType
  BY SelectionTypes DEF SelectionInv
<1>2. CASE shown = <<>>
  <2>1. L!Listed = {} /\ Len(shown) = 0
    BY <1>2 DEF L!Listed
  <2> QED BY <1>2, <2>1 DEF L!EveryMatchOnce, L!ChildUnderParent, L!GroupsTogether
<1>3. CASE shown = L!Rows
  BY <1>1, <1>3, EveryMatchShown, ChildrenShown, GroupsShown
<1> QED BY <1>2, <1>3 DEF SelectionInv
=============================================================================
