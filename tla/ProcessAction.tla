--------------------------- MODULE ProcessAction ---------------------------
(***************************************************************************)
(* lens-top --signal: one signal to one process                            *)
(* (apps/lens-top/src/main.rs, run_process_action).  Processes exit, start *)
(* under a PID that has become free and change their name at any moment,   *)
(* also between two steps of the command.  A process is a PID and its      *)
(* start time; a name is only compared with the expected one.              *)
(***************************************************************************)
EXTENDS Naturals, FiniteSets

CONSTANTS Pids, Protected, MaxStart
  \* Protected: PID 1 and the PID of lens-top itself

ASSUME ProcessAssumption ==
  IsFiniteSet(Pids) /\ Protected \subseteq Pids /\ MaxStart \in Nat \ {0}

VARIABLES
  live, renamed, clock,   \* running processes, those whose name has changed, the latest start
  run                     \* the command: its options, the pinned process, step and exit code

procVars == <<live, renamed, clock>>
runVars == <<procVars, run>>

Processes == [pid : Pids, start : 1..MaxStart]
NoProcess == [pid |-> 0, start |-> 0]

\* Options: the PIDs that --pid and the filters select, --expect-start-ticks (0: none),
\* --expect-name, --dry-run, --yes, --demo.
Options == [select : SUBSET Pids, expect : 0..MaxStart, name : BOOLEAN,
            dry : BOOLEAN, yes : BOOLEAN, demo : BOOLEAN]

\* checked: the clock at the last check; hit: what the signal reached.
Command(o) == [o |-> o, at |-> "start", pinned |-> NoProcess, checked |-> 0, hit |-> NoProcess,
               code |-> 0, status |-> "none"]
Exit(r, code) == [r EXCEPT !.at = "over", !.code = code]
Concluded(r, status) == [r EXCEPT !.at = "over", !.status = status]

-----------------------------------------------------------------------------
\* The host.

ExitProcess ==
  /\ \E p \in live : p.pid \notin Protected /\ live' = live \ {p}
  /\ UNCHANGED <<renamed, clock>>

StartProcess ==
  /\ clock < MaxStart
  /\ \E pid \in Pids \ {p.pid : p \in live} : live' = live \cup {[pid |-> pid, start |-> clock + 1]}
  /\ clock' = clock + 1
  /\ UNCHANGED renamed

Rename ==
  /\ \E p \in live \ renamed : renamed' = renamed \cup {p}
  /\ UNCHANGED <<live, clock>>

-----------------------------------------------------------------------------
\* The command.

Validate ==
  /\ run.at = "start"
  /\ run' = IF (~run.o.dry /\ ~run.o.yes) \/ (run.o.demo /\ ~run.o.dry) THEN Exit(run, 2)
            ELSE [run EXCEPT !.at = "resolve"]
  /\ UNCHANGED procVars

Unique(found) == Cardinality(found) = 1

\* The first collection: exactly one match, and the one that is expected.
Resolve ==
  LET found == {p \in live : p.pid \in run.o.select}
      target == CHOOSE p \in found : TRUE
  IN /\ run.at = "resolve"
     /\ run' = IF ~Unique(found) THEN Exit(run, 2)
               ELSE IF target.pid \in Protected THEN Exit(run, 1)
               ELSE IF run.o.expect \notin {0, target.start} THEN Exit(run, 1)
               ELSE IF run.o.name /\ target \in renamed THEN Exit(run, 2)
               ELSE IF run.o.dry THEN Concluded([run EXCEPT !.pinned = target], "planned")
               ELSE [run EXCEPT !.at = "check", !.pinned = target]
     /\ UNCHANGED procVars

Still(p) == p \in live

\* The second collection: the pinned process is still there, under its name.
Check ==
  /\ run.at = "check"
  /\ run' = IF ~Still(run.pinned) THEN Exit(run, 1)
            ELSE IF run.o.name /\ run.pinned \in renamed THEN Exit(run, 2)
            ELSE [run EXCEPT !.at = "signal", !.checked = clock]
  /\ UNCHANGED procVars

\* /bin/kill knows the PID only; the process that has it may end, stay or be protected.
Signal ==
  LET reached == {p \in live : p.pid = run.pinned.pid}
  IN /\ run.at = "signal"
     /\ \/ run' = Exit(run, 1) /\ UNCHANGED live      \* rejected, or nobody has the PID
        \/ \E p \in reached :
             /\ run' = [run EXCEPT !.at = "verify", !.hit = p]
             /\ live' \in {live, live \ {p}}
     /\ UNCHANGED <<renamed, clock>>

Remains(p) == p \in live

\* The third collection, 50 ms later; it may fail.
Verify ==
  /\ run.at = "verify"
  /\ \/ run' = Concluded(run, IF Remains(run.pinned) THEN "remains" ELSE "exited")
     \/ run' = Exit(run, 1)
  /\ UNCHANGED procVars

\* The collector fails.
FailCollection ==
  /\ run.at \in {"resolve", "check"}
  /\ run' = Exit(run, 1)
  /\ UNCHANGED procVars

HostStep == (ExitProcess \/ StartProcess \/ Rename) /\ UNCHANGED run
RunStep == Validate \/ Resolve \/ Check \/ Signal \/ Verify \/ FailCollection

InitProcesses ==
  /\ live = [pid : Pids, start : {1}] /\ renamed = {} /\ clock = 1

Init ==
  /\ InitProcesses
  /\ \E o \in Options : run = Command(o)

Next == HostStep \/ RunStep

Spec == Init /\ [][Next]_runVars

-----------------------------------------------------------------------------
\* docs/OPERATIONS_GUIDE.md: PID and start time are checked again before delivery.  A signal
\* reaches the process that was pinned; any other got the PID after the last check, in the
\* moment before /bin/kill ran, never earlier, however long the command took until then.
ReachesThePinned ==
  run.hit # NoProcess => run.hit = run.pinned \/ run.hit.start > run.checked

\* docs/ACTIONS.md: what exits with status 2 has changed nothing; a dry run or a command
\* that was not confirmed, or meant several processes, never signals.
RefusalChangesNothing ==
  run.hit # NoProcess => /\ run.code # 2 /\ run.o.yes /\ ~run.o.dry /\ ~run.o.demo
                         /\ run.hit.pid \notin Protected
                         /\ \A p \in live : p.start = 1 /\ p.pid \in run.o.select => p = run.pinned

\* A process that is reported as exited has exited: one that took over its PID does not
\* count, and neither does a signal that was merely delivered.
ExitedMeansExited == run.status = "exited" => run.pinned \notin live
=============================================================================
