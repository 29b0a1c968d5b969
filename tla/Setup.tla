------------------------------- MODULE Setup -------------------------------
(***************************************************************************)
(* packaging/systemd/lens-reporting-enable: the administrator's setup of   *)
(* reporting and of log forwarding.  Every command may fail; a failure     *)
(* runs the handler of the ERR trap, an explicit exit does not.  The       *)
(* forwarding destination is a file that rsyslog reads when it restarts.   *)
(* Setup is run again and again, each run from what the last one left.     *)
(***************************************************************************)
EXTENDS Naturals

CONSTANTS MaxRuns  \* bound: runs of the script

SetupAssumption == MaxRuns \in Nat

VARIABLES
  at, wasActive, mode, refresh, rc,  \* line of the script, lens_publisher_was_active, options
  publisher, daemon, registered,     \* the two services run; credentials exist
  conf, loaded,                      \* the destination file; rsyslog forwards to it
  other, rsyslog,                    \* another forwarding path exists; rsyslog is installed
  enabled, recorded,                 \* lens_syslog_enabled; the selection the publisher knows
  stage,                             \* the staged destination file exists
  restored,                          \* the handler has tried to start the publisher again
  runs

serviceVars == <<publisher, daemon, registered, restored>>
forwardVars == <<conf, loaded, recorded, stage>>
hostVars == <<other, rsyslog>>
optionVars == <<wasActive, mode, refresh>>
vars == <<at, optionVars, rc, serviceVars, forwardVars, hostVars, enabled, runs>>

\* The ERR handler: a publisher that ran before is started again, if it can be.
Trap ==
  /\ at' = "over" /\ rc' = 1
  /\ stage' = FALSE
  /\ publisher' \in IF wasActive THEN BOOLEAN ELSE {publisher}
  /\ restored' = wasActive
  /\ UNCHANGED <<optionVars, daemon, registered, conf, loaded, recorded, hostVars, enabled, runs>>

Quit(code) == at' = "over" /\ rc' = code /\ stage' = FALSE

-----------------------------------------------------------------------------
Invoke ==
  /\ at = "over" /\ runs < MaxRuns
  /\ runs' = runs + 1
  /\ at' = "accounts" /\ rc' = 0 /\ restored' = FALSE
  /\ wasActive' = publisher
  /\ mode' \in {"auto", "off", "force"} /\ refresh' \in BOOLEAN
  /\ enabled' = FALSE
  /\ UNCHANGED <<publisher, daemon, registered, forwardVars, hostVars>>

\* Accounts and FIFO, then the publisher is stopped.
StopPublisher ==
  /\ at = "accounts"
  /\ publisher' = FALSE /\ at' = "register"
  /\ UNCHANGED <<optionVars, rc, daemon, registered, restored, forwardVars, hostVars, enabled, runs>>

Register ==
  /\ at = "register"
  /\ IF refresh \/ ~registered THEN registered' = TRUE ELSE UNCHANGED registered
  /\ at' = "inspect"
  /\ UNCHANGED <<optionVars, rc, publisher, daemon, restored, forwardVars, hostVars, enabled, runs>>

\* A destination that Lens does not manage ends the script.
RefuseForeign ==
  /\ at = "inspect" /\ conf = "foreign"
  /\ Quit(1)
  /\ UNCHANGED <<optionVars, serviceVars, conf, loaded, recorded, hostVars, enabled, runs>>

\* Without a CA bundle or with a server of one's own, too, forwarding stays off.
Choose ==
  /\ at = "inspect" /\ conf # "foreign"
  /\ at' \in IF mode = "off" \/ (other /\ mode # "force") \/ ~rsyslog THEN {"disable"}
             ELSE {"stage", "disable"}
  /\ UNCHANGED <<optionVars, rc, serviceVars, forwardVars, hostVars, enabled, runs>>

\* The publisher writes the destination to a temporary file, which is then validated, if need
\* be after the TLS module was installed.
Stage ==
  /\ at = "stage"
  /\ \/ at' = "activate" /\ stage' = TRUE
     \/ at' = "disable" /\ stage' = FALSE     \* not valid: removed again
  /\ UNCHANGED <<optionVars, rc, serviceVars, conf, loaded, recorded, hostVars, enabled, runs>>

\* A fault: the forwarding counts as enabled before rsyslog has restarted.
ActivateEager ==
  /\ at = "activate"
  /\ conf' = "lens" /\ stage' = FALSE
  /\ loaded' \in {loaded, TRUE} /\ enabled' = TRUE /\ at' = "record"
  /\ UNCHANGED <<optionVars, rc, serviceVars, recorded, hostVars, runs>>

\* The staged file becomes the destination; rsyslog validates everything and restarts, or not.
Activate ==
  /\ at = "activate"
  /\ conf' = "lens" /\ stage' = FALSE
  /\ \/ loaded' = TRUE /\ enabled' = TRUE /\ at' = "record"
     \/ loaded' \in {loaded, TRUE} /\ UNCHANGED enabled /\ at' = "disable"
  /\ UNCHANGED <<optionVars, rc, serviceVars, recorded, hostVars, runs>>

\* Forwarding that was on is switched off: remove the file and restart rsyslog.  When that
\* fails, the script exits without its handler.
Disable ==
  /\ at = "disable"
  /\ \/ conf = "none" /\ at' = "record" /\ UNCHANGED <<conf, loaded, rc, stage>>
     \/ conf = "lens" /\ conf' = "none" /\ loaded' = FALSE /\ at' = "record" /\ UNCHANGED <<rc, stage>>
     \/ conf = "lens" /\ conf' = "none" /\ Quit(1) /\ UNCHANGED loaded
  /\ UNCHANGED <<optionVars, serviceVars, recorded, hostVars, enabled, runs>>

\* lens-publisher configure: the selection is reported with the next upload.
Record ==
  /\ at = "record"
  /\ recorded' = (IF enabled THEN "on" ELSE "off")
  /\ at' = "enable"
  /\ UNCHANGED <<optionVars, rc, serviceVars, conf, loaded, stage, hostVars, enabled, runs>>

\* Both services are enabled, started and looked at.
Enable ==
  /\ at = "enable"
  /\ publisher' = TRUE /\ daemon' = TRUE
  /\ at' = "over"
  /\ UNCHANGED <<optionVars, rc, registered, restored, forwardVars, hostVars, enabled, runs>>

\* A service that did not come up is left as it is, and the handler runs.
EnableFails ==
  /\ at = "enable"
  /\ at' = "over" /\ rc' = 1
  /\ publisher' \in BOOLEAN /\ daemon' \in BOOLEAN /\ restored' = wasActive
  /\ UNCHANGED <<optionVars, registered, forwardVars, hostVars, enabled, runs>>

\* Any other command may fail and leave what it was to change.
CommandFails ==
  /\ at \in {"accounts", "register", "stage", "activate", "record"}
  /\ Trap

\* Between two runs the administrator may install an agent or stop the services.
Administer ==
  /\ at = "over"
  /\ \/ other' \in BOOLEAN /\ UNCHANGED <<publisher, daemon>>
     \/ publisher' = FALSE /\ daemon' = FALSE /\ UNCHANGED other
  /\ UNCHANGED <<at, optionVars, rc, registered, restored, forwardVars, rsyslog, enabled, runs>>

Init ==
  /\ at = "over" /\ wasActive = FALSE /\ mode = "auto" /\ refresh = FALSE /\ rc = 0
  /\ publisher = FALSE /\ daemon = FALSE /\ registered = FALSE
  /\ conf \in {"none", "foreign"} /\ loaded = FALSE
  /\ other \in BOOLEAN /\ rsyslog \in BOOLEAN
  /\ enabled = FALSE /\ recorded = "none" /\ stage = FALSE /\ restored = FALSE /\ runs = 0

Script ==
  \/ StopPublisher \/ Register \/ RefuseForeign \/ Choose \/ Stage \/ Activate \/ Disable
  \/ Record \/ Enable \/ EnableFails \/ CommandFails
Next == Invoke \/ Script \/ Administer

Spec == Init /\ [][Next]_vars

-----------------------------------------------------------------------------
Succeeded == at = "over" /\ runs > 0 /\ rc = 0

\* What the publisher reports about forwarding agrees with the destination after a run that
\* succeeded, whatever the runs before it left half done: it reports forwarding exactly when
\* the destination is in place, and then rsyslog has read it.  When it reports that
\* forwarding is off rsyslog may still go on with what it had read (OffMeansOff).
SelectionIsTrue ==
  Succeeded => ((recorded = "on") = (conf = "lens")) /\ (recorded = "on" => loaded)

\* docs/FLEET_REPORTING.md: --no-syslog-upload disables the forwarding that Lens manages.
OffMeansOff == Succeeded /\ mode = "off" => ~loaded

\* docs/FLEET_REPORTING.md: beside another forwarding path Lens forwards only when told to;
\* a destination that Lens does not manage is never touched.
NoSecondPath ==
  [][conf' # conf => conf # "foreign" /\ (conf' = "lens" => mode = "force" \/ ~other)]_vars

\* docs/FLEET_REPORTING.md: only after a successful registration are the services started,
\* also when the handler of a failed run starts them again.
RegisteredFirst == publisher \/ daemon => registered

\* scripts/test-reporting-setup.py: a setup that failed starts a publisher that ran before.
RestoresPublisher == at = "over" /\ rc # 0 /\ wasActive => restored
=============================================================================
