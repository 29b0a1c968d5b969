------------------------------ MODULE Command ------------------------------
(***************************************************************************)
(* One run of a Lens command: the options are validated, the inventory is  *)
(* collected, filtered, sorted and truncated, written, and the assertions  *)
(* are evaluated on what was written (crates/system/src/lib.rs run_view    *)
(* and run_cockpit, apps/lens-top/src/main.rs run, crates/core scripting,  *)
(* crates/output).  A row is the set of the filters it satisfies and the   *)
(* severity it has; text and layout are left out.                          *)
(***************************************************************************)
EXTENDS Naturals, Sequences, FiniteSets, Retain

CONSTANTS Commands,   \* the commands considered
          OptionSets, \* the sets of options given with one of them
          FieldSets,  \* the --fields lists; {} stands for no such option
          Formats,    \* the output formats; "tui" is none
          Policies,   \* the assertion policies
          Contents,   \* the sequences of rows a domain may hold
          Limits      \* the values of --limit; 0 removes the limit

Severities == {"information", "attention", "critical"}
Row == [satisfies : SUBSET STRING, severity : Severities]
Policy ==
    [fail_if_empty : BOOLEAN, fail_if_any : BOOLEAN, exact : SUBSET Nat, least : SUBSET Nat,
     most : SUBSET Nat, fail_on : {"none", "warning", "critical"}, fail_on_warnings : BOOLEAN]

CommandAssumption ==
    /\ Contents \subseteq Seq(Row) /\ Policies \subseteq Policy /\ Limits \subseteq Nat
    /\ OptionSets \subseteq SUBSET STRING

VARIABLES args,       \* what the command line says
          stage,      \* the next thing run does, or "done"
          snapshot,   \* the rows of each domain, and the warnings
          found,      \* the rows of each domain before any filter: history
          out,        \* the record types written to standard output
          exit        \* the exit status, when done

vars == <<args, stage, snapshot, found, out, exit>>

Specialists == {"services", "containers", "logs", "disk", "net", "hardware", "system", "health"}

Domains == {"processes", "services", "containers", "logs", "mounts", "block_devices",
            "deleted_open_files", "interfaces", "routes", "sockets", "cellular_modems",
            "temperatures", "hardware_devices", "accounts", "groups", "certificates", "findings"}

---------------------------------------------------------------------------
\* The options that filter, and the domains whose rows each of them filters.
Filters ==
    [name |-> {"services", "containers"},
     runtime |-> {"containers"}, image |-> {"containers"},
     status |-> {"containers"}, state |-> {"containers"},
     active |-> {"services"}, enabled |-> {"services"}, service |-> {"services", "logs"},
     severity |-> {"logs"}, process |-> {"logs"}, unit |-> {"logs"}, contains |-> {"logs"},
     mount |-> {"mounts"}, min_used_percent |-> {"mounts"},
     fstype |-> {"mounts", "block_devices"},
     interface |-> {"interfaces", "routes"},
     listening |-> {"sockets"}, port |-> {"sockets"}, proto |-> {"sockets"},
     class |-> {"hardware_devices"}, serial |-> {"hardware_devices"},
     section |-> {"accounts", "groups", "certificates"},
     min_severity |-> {"findings"}, id |-> {"findings"},
     filter |-> Domains \ {"processes"}]

\* The options of one domain, and the specialists that accept each.
Home ==
    [service |-> {"services", "logs"}, name |-> {"services", "containers"},
     active |-> {"services"}, enabled |-> {"services"}, expect_active |-> {"services"},
     runtime |-> {"containers"}, image |-> {"containers"}, status |-> {"containers"},
     state |-> {"containers"}, expect_status |-> {"containers"},
     process |-> {"logs"}, severity |-> {"logs"}, contains |-> {"logs"}, unit |-> {"logs"},
     since |-> {"logs", "health"}, log_file |-> {"logs", "health"},
     mount |-> {"disk"}, fstype |-> {"disk"}, min_used_percent |-> {"disk"},
     port |-> {"net"}, proto |-> {"net"}, listening |-> {"net"}, interface |-> {"net"},
     class |-> {"hardware"}, serial |-> {"hardware"}, section |-> {"system"},
     min_severity |-> {"health"}, id |-> {"health"}, fail_on |-> {"health"}]

Handoff == {"model", "runtime", "accelerator", "source"}

\* Values the validation knows to be wrong, and those found out only later.
EarlyValues == {"runtime", "proto", "min_used_percent"}
LateValues == {"section", "min_severity"}

---------------------------------------------------------------------------
\* An expected count is a set of one number, or none.
Given(expected) == expected # {}

PolicyActive(p) ==
    p.fail_if_empty \/ p.fail_if_any \/ Given(p.exact) \/ Given(p.least) \/ Given(p.most)
    \/ p.fail_on # "none" \/ p.fail_on_warnings

PolicyValid(p) ==
    /\ ~(p.fail_if_empty /\ p.fail_if_any)
    /\ \A least \in p.least, most \in p.most : least <= most
    /\ \A exact \in p.exact, least \in p.least : exact >= least
    /\ \A exact \in p.exact, most \in p.most : exact <= most

Rank == [information |-> 1, attention |-> 2, critical |-> 3]
FailOnMatches(threshold, severity) ==
    IF threshold = "warning" THEN Rank[severity] >= Rank["attention"] ELSE severity = "critical"

\* The rows the counts are about.
Primary(command) ==
    CASE command \in {"services", "containers", "logs"} -> {command}
      [] command = "disk" -> {"mounts"}
      [] command = "net" -> {"sockets"}
      [] command = "hardware" -> {"hardware_devices"}
      [] command = "system" -> {"accounts", "groups", "certificates"}
      [] command = "health" -> {"findings"}
      [] OTHER -> {"processes"}

PrimaryRows(rows, command) == UNION {{d} \X DOMAIN rows[d] : d \in Primary(command)}
Count(rows, command) == Cardinality(PrimaryRows(rows, command))

Evaluate(p, rows, warnings, command) ==
    LET n == Count(rows, command)
    IN  /\ ~(p.fail_if_empty /\ n = 0)
        /\ ~(p.fail_if_any /\ n > 0)
        /\ \A exact \in p.exact : n = exact
        /\ \A least \in p.least : n >= least
        /\ \A most \in p.most : n <= most
        /\ ~(p.fail_on_warnings /\ warnings)
        /\ p.fail_on # "none" =>
              \A i \in DOMAIN rows["findings"] :
                  ~FailOnMatches(p.fail_on, rows["findings"][i].severity)

---------------------------------------------------------------------------
\* The record types of JSON Lines, by the field of the snapshot.
RecordOf ==
    [processes |-> "process", services |-> "service", containers |-> "container",
     log_sources |-> "log_source", logs |-> "log", mounts |-> "mount",
     filesystems |-> "filesystem", deleted_open_files |-> "deleted_open_file",
     block_devices |-> "block_device", storage_details |-> "storage_detail",
     network_details |-> "network_detail", interfaces |-> "interface", routes |-> "route",
     sockets |-> "socket", findings |-> "finding", relationships |-> "relationship",
     hardware_devices |-> "hardware_device", ai |-> "ai",
     collection_warnings |-> "collection_warning"]
RecordTypes == {"host"} \cup {RecordOf[f] : f \in DOMAIN RecordOf}

\* Fields a JSON document can be projected to; the rest have no record type.
Projectable == DOMAIN RecordOf \cup
    {"cellular_modems", "clock", "dns", "certificates", "accounts", "groups", "hardware",
     "temperatures", "build"}
AlwaysKept == {"schema_version", "generated_at", "host"}

RecordTypesForFields(fields) == {RecordOf[f] : f \in fields \cap DOMAIN RecordOf}

DefaultRecordTypes(command) ==
    CASE command = "lens" -> {"host", "process", "service", "log", "mount", "socket", "ai",
                              "finding", "collection_warning"}
      [] command = "disk" -> {"host", "mount", "block_device", "storage_detail",
                              "deleted_open_file", "finding"}
      [] command = "net" -> {"host", "interface", "network_detail", "route", "socket", "finding"}
      [] command = "hardware" -> {"host", "hardware_device", "finding"}
      [] command = "system" -> {"host", "finding"}
      [] command = "health" -> {"host", "finding", "collection_warning"}
      [] command \in {"services", "containers", "logs"} -> {"host", RecordOf[command], "finding"}
      [] OTHER -> {"host", "process", "finding"}

\* The writer takes an empty list of record types for all of them.
WriteLines(types) == IF types = {} THEN RecordTypes ELSE types

FieldsNamed == args.fields \ AlwaysKept
FieldsValid == FieldsNamed # {} /\ FieldsNamed \subseteq Projectable

Written ==
    IF args.quiet THEN {} ELSE
    CASE args.format = "jsonl" ->
            WriteLines(IF args.fields = {} THEN DefaultRecordTypes(args.command)
                       ELSE RecordTypesForFields(FieldsNamed))
      [] args.format = "json" /\ args.fields # {} -> FieldsNamed \cup AlwaysKept
      [] OTHER -> {args.format}

---------------------------------------------------------------------------
Args == [command : Commands, given : OptionSets, wrong : SUBSET (EarlyValues \cup LateValues),
         policy : Policies, format : Formats,
         fields : FieldSets, quiet : BOOLEAN, limit : Limits, terminal : BOOLEAN,
         closed : BOOLEAN]

Init == /\ args \in {a \in Args : a.wrong \subseteq a.given
                                  /\ ("fail_on" \in a.given <=> a.policy.fail_on # "none")}
        /\ stage = "validate"
        /\ snapshot = [rows |-> [d \in Domains |-> <<>>], warnings |-> FALSE]
        /\ found = snapshot.rows
        /\ out = {}
        /\ exit = "none"

Finish(status) == stage' = "done" /\ exit' = status

FieldsNeedFormat == args.fields # {} /\ args.format \notin {"json", "jsonl"}

ValidHere ==
    /\ args.command \in Specialists =>
          /\ \A o \in args.given \cap DOMAIN Home : args.command \in Home[o]
          /\ args.wrong \cap EarlyValues = {}
    /\ args.command = "lens" /\ args.given \cap Handoff # {} => "focus" \in args.given

Validate ==
    /\ stage = "validate"
    /\ IF ~PolicyValid(args.policy) \/ FieldsNeedFormat \/ ~ValidHere
       THEN Finish("usage")
       ELSE stage' = "dispatch" /\ UNCHANGED exit
    /\ UNCHANGED <<args, snapshot, found, out>>

OneShot == \/ args.format # "tui" \/ args.quiet \/ args.fields # {}
           \/ PolicyActive(args.policy) \/ ~args.terminal
           \/ (args.command = "lens" /\ "focus" \in args.given)

\* An action is another program (Actions, ProcessAction); the cockpit has none.
Dispatch ==
    /\ stage = "dispatch"
    /\ \/ /\ "action" \in args.given
          /\ Finish(IF args.command \in {"services", "containers", "lens-top"}
                    THEN "action" ELSE "usage")
       \/ "action" \notin args.given /\ OneShot /\ stage' = "collect" /\ UNCHANGED exit
       \/ "action" \notin args.given /\ ~OneShot /\ Finish("interactive")
    /\ UNCHANGED <<args, snapshot, found, out>>

\* Findings arrive with the most severe first; a row satisfies some filters.
BySeverity(rows) ==
    \A i, j \in DOMAIN rows : i < j => Rank[rows[i].severity] >= Rank[rows[j].severity]

Collect ==
    /\ stage = "collect"
    /\ \E few \in Contents, findings \in Contents, warned \in BOOLEAN :
          /\ BySeverity(findings)
          /\ snapshot' = [rows |-> [d \in Domains |->
                              IF d \in Primary(args.command) \ {"findings"} THEN few
                              ELSE IF d = "findings" THEN findings ELSE <<>>],
                          warnings |-> warned]
    /\ found' = snapshot'.rows
    /\ stage' = "filter"
    /\ UNCHANGED <<args, out, exit>>

Kept(rows, d) ==
    Retain(rows, {row \in Row : \A o \in args.given \cap DOMAIN Filters :
                                  d \in Filters[o] => o \in row.satisfies})

Truncate(rows) == IF args.limit = 0 THEN rows ELSE SubSeq(rows, 1, IF Len(rows) < args.limit
                                                                    THEN Len(rows) ELSE args.limit)

\* A fault: the limit is applied before the filters.
TruncatedFirst(rows, d) == Kept(Truncate(rows), d)
Filtered(rows, d) == Truncate(Kept(rows, d))

\* The processes of lens-top go through a filter of their own (Selection).
Filter ==
    /\ stage = "filter"
    /\ IF args.wrong \cap LateValues # {} /\ args.command # "lens-top"
       THEN Finish("usage") /\ UNCHANGED snapshot
       ELSE /\ stage' = "emit"
            /\ snapshot' = [snapshot EXCEPT !.rows = [d \in Domains |-> Filtered(@[d], d)]]
            /\ UNCHANGED exit
    /\ UNCHANGED <<args, found, out>>

\* The output may be cut by a reader that has gone, which is no failure.
Emit ==
    /\ stage = "emit"
    /\ IF ~args.quiet /\ args.fields # {} /\ ~FieldsValid
       THEN Finish("usage") /\ UNCHANGED out
       ELSE /\ out' = IF args.closed THEN {} ELSE Written
            /\ stage' = "assert"
            /\ UNCHANGED exit
    /\ UNCHANGED <<args, snapshot, found>>

EvaluateAssertions ==
    /\ stage = "assert"
    /\ Finish(IF ~PolicyValid(args.policy) THEN "usage"
              ELSE IF Evaluate(args.policy, snapshot.rows, snapshot.warnings, args.command)
              THEN "success" ELSE "assertion")
    /\ UNCHANGED <<args, snapshot, found, out>>

Next == Validate \/ Dispatch \/ Collect \/ Filter \/ Emit \/ EvaluateAssertions
CommandSpec == Init /\ [][Next]_vars

---------------------------------------------------------------------------
TypeOK == /\ args \in Args
          /\ stage \in {"validate", "dispatch", "collect", "filter", "emit", "assert", "done"}
          /\ exit \in {"none", "action", "interactive", "success", "failure", "usage", "assertion"}
          /\ stage = "done" <=> exit # "none"

\* What the command says it counts: the rows that satisfy every option given.
AcceptedRows ==
  [d \in Domains |-> Retain(found[d], {row \in Row :
                                          args.given \cap DOMAIN Filters \subseteq row.satisfies})]

\* A command line refused as wrong has written nothing.
RefusedIsSilent == exit = "usage" => out = {}

\* Success means what the assertions say of everything that matches, the
\* rows beyond --limit included: nothing for --fail-if-any, something for
\* --fail-if-empty, no finding as bad as --fail-on.  (Rows of lens-net with
\* --interface and of the cockpit are not filtered by what they count.)
SuccessHolds ==
    exit = "success" /\ args.command \in Specialists /\ "interface" \notin args.given =>
        /\ args.policy.fail_if_any => Count(AcceptedRows, args.command) = 0
        /\ args.policy.fail_if_empty => Count(AcceptedRows, args.command) > 0
        /\ args.policy.fail_on # "none" =>
              \A i \in DOMAIN AcceptedRows["findings"] :
                  ~FailOnMatches(args.policy.fail_on, AcceptedRows["findings"][i].severity)

\* A reader that closes its end changes nothing about the exit status.
ClosedPipeIsNoFailure == args.closed => exit # "failure"

\* docs/CLI_CONTRACT.md:17: "Project JSON/JSONL to named top-level snapshot
\* fields (always keeps `schema_version`, `generated_at`, `host`)."
FieldsLimitOutput ==
    args.fields # {} /\ args.format = "jsonl" =>
        out \subseteq {"host"} \cup RecordTypesForFields(args.fields)

\* lib.rs:347: "Exit 3 when the filtered primary row set is empty."
CountedRowsMatch ==
    exit \in {"success", "assertion"} =>
        \A d \in Primary(args.command) : Len(snapshot.rows[d]) <= Len(AcceptedRows[d])

\* docs/CLI_CONTRACT.md:61: validation fails with status 2 "before collection".
RefusedBeforeCollection == exit = "usage" => found = [d \in Domains |-> <<>>]
=============================================================================
