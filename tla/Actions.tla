------------------------------ MODULE Actions ------------------------------
(***************************************************************************)
(* lens-services --action and lens-containers --action                     *)
(* (crates/system/src/lib.rs, run_service_action, run_container_action):   *)
(* one start, stop or restart of a unit or a container.  The host changes  *)
(* beside the command: units change their state, and a container may be    *)
(* replaced by another of the same name.  The commands Lens runs have      *)
(* deadlines; what a killed systemctl asked for may still happen.          *)
(***************************************************************************)
EXTENDS Naturals, FiniteSets

CONSTANTS
  Units,        \* service units, or containers by runtime and id
  Namesakes,    \* units that share one name (never both exist); others have names of their own
  Listings,     \* sets of containers: those that one runtime lists
  MaxChanges    \* bound: changes of the host beside the command

ActionsAssumption == IsFiniteSet(Units) /\ Namesakes \subseteq Units /\ Listings \subseteq SUBSET Units
                     /\ MaxChanges \in Nat

VARIABLES
  state,           \* of each unit: "absent", "down", "up"
  run,             \* the command: options, step, target, what was not listed when it was
                   \* resolved, last observation, exit code
  late,            \* the deadline of the verification has passed
  acted, held,     \* units the command has acted on; states of the target since then
  changes

vars == <<state, run, late, acted, held, changes>>

States == {"absent", "down", "up"}
Kinds == {"service", "container"}
Present == {u \in Units : state[u] # "absent"}
\* A unit file has one name; only containers are replaced by a namesake.
NamedLike(u) == IF u \in Namesakes THEN Namesakes ELSE {u}

\* how: --target, a selector, or neither; malformed: a --target with blanks or a dash;
\* select: the units that the target or the selector matches when they exist.
Options ==
  [kind : Kinds, verb : {"start", "stop", "enable"}, how : {"target", "selector", "none"},
   malformed : BOOLEAN, select : SUBSET Units, dry : BOOLEAN, yes : BOOLEAN, demo : BOOLEAN,
   expect : {"none", "down", "up"}, wait : {"valid", "invalid"}]

Exit(code) == [run EXCEPT !.at = "over", !.code = code]
Goto(at) == [run EXCEPT !.at = at]
NoUnit == "no unit"

-----------------------------------------------------------------------------
\* The host.

ChangeState ==
  /\ changes < MaxChanges
  /\ \E u \in Present : \E s \in States \ {state[u]} :
       /\ state' = [state EXCEPT ![u] = s]
       /\ held' = IF run.target = u /\ acted # {} THEN held \cup {s} ELSE held
  /\ changes' = changes + 1
  /\ UNCHANGED <<run, late, acted>>

\* A unit appears, unless its name is taken.
Appear ==
  /\ changes < MaxChanges
  /\ \E u \in Units \ Present :
       /\ NamedLike(u) \cap Present = {}
       /\ state' = [state EXCEPT ![u] = "up"]
       /\ held' = IF run.target = u /\ acted # {} THEN held \cup {"up"} ELSE held
  /\ changes' = changes + 1
  /\ UNCHANGED <<run, late, acted>>

-----------------------------------------------------------------------------
\* The command, until it acts.

Validate ==
  /\ run.at = "start"
  /\ run' = IF run.o.how = "none" \/ (run.o.how = "target" /\ run.o.malformed)
               \/ (run.o.kind = "container" /\ run.o.verb = "enable") THEN Exit(2)
            ELSE Goto("resolve")
  /\ UNCHANGED <<state, late, acted, held, changes>>

Unique(found) == Cardinality(found) = 1

\* What may be missing in a collection: the containers of each runtime that fails, the
\* others are listed; of the units all or none.
Missing == IF run.o.kind = "container" THEN {UNION failing : failing \in SUBSET Listings}
           ELSE {{}, Units}

\* A service --target is taken as it is; otherwise exactly one match, in demo data or in
\* what a collection lists, whatever it warns of.
Resolve ==
  /\ run.at = "resolve"
  /\ IF run.o.kind = "service" /\ run.o.how = "target"
     THEN \E u \in run.o.select : run' = [Goto("permit") EXCEPT !.target = u]
     ELSE \E unlisted \in IF run.o.demo THEN {{}} ELSE Missing :
            LET found == IF run.o.demo THEN run.o.select
                         ELSE (Present \cap run.o.select) \ unlisted
            IN run' = IF Unique(found)
                      THEN [Goto("permit") EXCEPT !.target = CHOOSE u \in found : TRUE,
                                                  !.unlisted = unlisted]
                      ELSE Exit(2)
  /\ UNCHANGED <<state, late, acted, held, changes>>

\* --yes or --dry-run; for a container a runtime that is usable and no demo data.
Permit ==
  /\ run.at = "permit"
  /\ run' \in IF ~run.o.dry /\ ~run.o.yes THEN {Exit(2)}
              ELSE LET go == IF run.o.dry THEN [Exit(0) EXCEPT !.status = "planned"]
                             ELSE IF run.o.kind = "container" /\ run.o.demo THEN Exit(2)
                             ELSE Goto("act")
                   IN IF run.o.kind = "container" /\ ~run.o.demo THEN {go, Exit(2)} ELSE {go}
  /\ UNCHANGED <<state, late, acted, held, changes>>

\* A fault: the runtime is given the name instead of the id.
ReachedByName(u) == NamedLike(u) \cap Present

Reached(u) == {u} \cap Present

\* systemctl or the runtime, for 15 s at most: done, refused, or killed with what it asked
\* for done or not.
Act ==
  /\ run.at = "act"
  /\ \/ run' = Exit(1) /\ UNCHANGED <<state, acted, held>>
     \/ \E u \in Reached(run.target) : \E s \in {"down", "up"} :
          /\ run' \in {Goto("wait"), Exit(1)}
          /\ state' = [state EXCEPT ![u] = s]
          /\ acted' = acted \cup {u} /\ held' = {s}
  /\ UNCHANGED <<late, changes>>

-----------------------------------------------------------------------------
\* Verification.

\* --wait is read only now; the deadline starts here.
ReadWait ==
  /\ run.at = "wait"
  /\ run' = IF run.o.wait = "invalid" THEN Exit(2) ELSE Goto("collect")
  /\ UNCHANGED <<state, late, acted, held, changes>>

Elapse ==
  /\ run.at \in {"collect", "decide"} /\ ~late
  /\ late' = TRUE
  /\ UNCHANGED <<state, run, acted, held, changes>>

\* A collection that fails finds nothing.
Collect ==
  /\ run.at = "collect"
  /\ \E s \in {state[run.target], "absent"} : run' = [Goto("decide") EXCEPT !.seen = s]
  /\ UNCHANGED <<state, late, acted, held, changes>>

Decide ==
  /\ run.at = "decide"
  /\ run' = IF run.o.expect \in {"none", run.seen} THEN [Exit(0) EXCEPT !.status = "completed"]
            ELSE IF late THEN Exit(3)
            ELSE Goto("collect")
  /\ UNCHANGED <<state, late, acted, held, changes>>

Init ==
  /\ state \in [Units -> States] /\ Cardinality(Present \cap Namesakes) <= 1
  /\ \E o \in Options :
       /\ (o.kind = "service" /\ o.how = "target") => Cardinality(o.select) = 1
       /\ run = [o |-> o, at |-> "start", target |-> NoUnit, unlisted |-> {},
               seen |-> "none", code |-> 0, status |-> "none"]
  /\ late = FALSE /\ acted = {} /\ held = {} /\ changes = 0

Step == Validate \/ Resolve \/ Permit \/ Act \/ ReadWait \/ Elapse \/ Collect \/ Decide
Next == Step \/ ChangeState \/ Appear

Spec == Init /\ [][Next]_vars

\* Every command Lens runs has a deadline, so each step of the command is taken; time passes.
Fairness ==
  /\ WF_vars(Validate \/ Resolve \/ Permit \/ Act \/ ReadWait \/ Collect \/ Decide)
  /\ WF_vars(Elapse)

FairSpec == Spec /\ Fairness

-----------------------------------------------------------------------------
\* docs/ACTIONS.md: ambiguous and unconfirmed commands and dry runs change nothing.  What is
\* acted on is the one unit that was resolved, even when it is gone by then and another has
\* taken its name.
ActsOnTheResolved ==
  acted # {} => acted = {run.target} /\ run.o.yes /\ ~run.o.dry
                 /\ ~(run.o.demo /\ run.o.kind = "container")

\* A unit is only acted on alone: of those that the collection listed no other was there
\* all the time and was meant as well.  A service --target is not looked up, and in demo
\* data a selector finds units that need not be those of the host.
Looked == ~run.o.demo /\ ~(run.o.kind = "service" /\ run.o.how = "target")
Meant == {u \in run.o.select : state[u] # "absent"}
ActsOnOne == acted # {} /\ changes = 0 /\ Looked => Meant \ run.unlisted = acted

\* docs/ACTIONS.md:60-62 says it of all there are: "Ambiguous or empty selectors exit 2".
\* Not so: a runtime that fails hides the other match, and the action is done.
AmbiguityIsRefused == acted # {} /\ changes = 0 /\ Looked => Meant = acted

\* docs/ACTIONS.md: --expect-active and --expect-status are polled for.  A command that
\* reports its action as completed has seen the expected state after the action, one that
\* happened to be there before does not count.
CompletedWasReached ==
  run.status = "completed" /\ run.o.expect # "none" => run.o.expect \in held

\* docs/CLI_CONTRACT.md: status 2 means that the validation of the arguments failed before
\* anything was collected or done.
ExitTwoMeansUntouched == run.code = 2 => acted = {}

\* The command comes to an end, also when the expected state is never reached.
ActionEnds == <>(run.at = "over")
=============================================================================
