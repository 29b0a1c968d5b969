----------------------------- MODULE Collection -----------------------------
(***************************************************************************)
(* One complete collection (crates/system/src/lib.rs, enrich_snapshot):    *)
(* a thread per domain runs its commands one after another, the threads    *)
(* are joined in their order, and what is left is collected after that by  *)
(* the collecting thread itself (storage probes, timedatectl, openssl).    *)
(* Commands are of four kinds: not all have a deadline, and not all that   *)
(* fail leave a warning.  The output is read to its end: a process that a  *)
(* command has left behind may keep the pipe open after it is over.        *)
(* Left out: the containers (module Containers), and the one answer of     *)
(* mmcli, that there is no modem, whose warning is taken back.             *)
(***************************************************************************)
EXTENDS Naturals, Sequences

CONSTANTS
  Order,      \* the domains with a thread, in the order they are joined
  Afterwards, \* what is collected after the threads were joined
  Commands,   \* for each domain the kinds of the commands it runs
  MaxFaults   \* bound: descendants that hold a pipe, threads that panic

Domains == {Order[i] : i \in DOMAIN Order} \cup {Afterwards}

\* command_with_timeout; probe (smartctl, RAID tools, ipmitool, curl); Command::output
\* (vcgencmd); Command::status (openssl version, when there are certificates to inspect).
Kinds == {"command", "probe", "output", "status"}
Bounded == {"command", "probe"}
Reported == {"command", "status"}
Piped == {"command", "probe", "output"}

CollectionAssumption ==
  /\ Order \in Seq(Domains \ {Afterwards}) /\ Commands \in [Domains -> Seq(Kinds)]
  /\ MaxFaults \in Nat

VARIABLES
  past, child,       \* per domain: commands that are over, the state of the one that runs
  late, holds,       \* its deadline has passed; a descendant has its pipe
  read, warned,      \* commands whose output was read; those a warning is about
  thread,            \* "runs", "ended", "panicked"
  joined, done,      \* threads joined so far; the snapshot is complete
  lost,              \* domains whose rows and warnings were dropped
  faults

domainVars == <<past, child, late, holds, read, warned, thread, lost>>
vars == <<domainVars, joined, done, faults>>

Set(f, d, v) == f' = [f EXCEPT ![d] = v]

\* The command that is next, or runs, and its kind.
This(d) == past[d] + 1
Kind(d) == Commands[d][This(d)]

\* The domain goes on; the last begins when the others were joined.
Active(d) == thread[d] = "runs" /\ (d = Afterwards => joined = Len(Order))

\* The command is over; the next one, or the end of the domain.
CommandOver(d) == Set(past, d, This(d)) /\ Set(child, d, "none") /\ Set(late, d, FALSE)

Warn(d) == Set(warned, d, warned[d] \cup {This(d)})

\* It gives nothing.  Only some say so, and without openssl no certificate is inspected.
Fail(d) ==
  /\ Set(past, d, IF Kind(d) = "status" THEN Len(Commands[d]) ELSE This(d))
  /\ Set(child, d, "none") /\ Set(late, d, FALSE)
  /\ IF Kind(d) \in Reported THEN Warn(d) ELSE UNCHANGED warned
  /\ UNCHANGED read

Spawn(d) ==
  /\ Active(d) /\ child[d] = "none" /\ past[d] < Len(Commands[d])
  /\ \/ Set(child, d, "runs") /\ UNCHANGED <<past, late, read, warned>>
     \/ Fail(d)                                          \* it cannot be started
  /\ UNCHANGED <<holds, thread, joined, done, lost, faults>>

\* The child ends by itself, perhaps with a descendant that keeps the pipe.
ChildExits(d) ==
  /\ child[d] = "runs"
  /\ \E s \in {"succeeded", "failed"} : Set(child, d, s)
  /\ \/ UNCHANGED <<holds, faults>>
     \/ /\ Kind(d) \in Piped /\ faults < MaxFaults
        /\ Set(holds, d, TRUE) /\ faults' = faults + 1
  /\ UNCHANGED <<past, late, read, warned, thread, joined, done, lost>>

DescendantEnds(d) ==
  /\ holds[d] /\ Set(holds, d, FALSE)
  /\ UNCHANGED <<past, child, late, read, warned, thread, joined, done, lost, faults>>

Elapse(d) ==
  /\ child[d] = "runs" /\ ~late[d] /\ Kind(d) \in Bounded
  /\ Set(late, d, TRUE)
  /\ UNCHANGED <<past, child, holds, read, warned, thread, joined, done, lost, faults>>

\* A fault: a command that takes too long is not killed.
TimeoutNever(d) == FALSE /\ UNCHANGED vars

\* A fault: a timeout leaves no warning.
TimeoutSilent(d) ==
  /\ child[d] = "runs" /\ late[d]
  /\ CommandOver(d)
  /\ UNCHANGED <<warned, holds, read, thread, joined, done, lost, faults>>

\* Killed, waited for, its output dropped unread.
Timeout(d) ==
  /\ child[d] = "runs" /\ late[d]
  /\ Fail(d)
  /\ UNCHANGED <<holds, thread, joined, done, lost, faults>>

\* The readers are joined without a deadline.  A probe's exit status is a bit mask and not
\* looked at, and what a command that succeeded wrote to its standard error is a warning.
ReadOutput(d) ==
  /\ child[d] \in {"succeeded", "failed"} /\ ~holds[d]
  /\ \/ child[d] = "failed" /\ Fail(d)
     \/ /\ child[d] = "succeeded" \/ Kind(d) = "probe"
        /\ CommandOver(d) /\ Set(read, d, read[d] \cup {This(d)})
        /\ UNCHANGED warned \/ (Kind(d) = "command" /\ Warn(d))
  /\ UNCHANGED <<holds, thread, joined, done, lost, faults>>

EndDomain(d) ==
  /\ Active(d) /\ child[d] = "none" /\ past[d] = Len(Commands[d])
  /\ Set(thread, d, "ended")
  /\ UNCHANGED <<past, child, late, holds, read, warned, joined, done, lost, faults>>

\* A panic after the join is the end of the collection, a lost thread of the loops.
Panic(d) ==
  /\ d # Afterwards /\ thread[d] = "runs" /\ child[d] = "none" /\ faults < MaxFaults
  /\ Set(thread, d, "panicked") /\ faults' = faults + 1
  /\ UNCHANGED <<past, child, late, holds, read, warned, joined, done, lost>>

\* Joined in their order; a panic leaves neither rows nor warnings.
JoinNext ==
  LET d == Order[joined + 1]
  IN /\ thread[d] # "runs"
     /\ joined' = joined + 1
     /\ IF thread[d] = "panicked"
        THEN Set(read, d, {}) /\ Set(warned, d, {}) /\ lost' = lost \cup {d}
        ELSE UNCHANGED <<read, warned, lost>>

Join ==
  /\ joined < Len(Order) /\ JoinNext
  /\ UNCHANGED <<past, child, late, holds, thread, done, faults>>

\* Relationships and findings are worked out from everything that was collected.
Diagnose ==
  /\ joined = Len(Order) /\ thread[Afterwards] = "ended" /\ ~done
  /\ done' = TRUE
  /\ UNCHANGED <<domainVars, joined, faults>>

Init ==
  /\ past = [d \in Domains |-> 0]
  /\ child = [d \in Domains |-> "none"] /\ thread = [d \in Domains |-> "runs"]
  /\ late = [d \in Domains |-> FALSE] /\ holds = late
  /\ read = [d \in Domains |-> {}] /\ warned = read
  /\ joined = 0 /\ done = FALSE /\ lost = {} /\ faults = 0

Domain(d) == Spawn(d) \/ Timeout(d) \/ ReadOutput(d) \/ EndDomain(d) \/ Panic(d)
Next ==
  \/ \E d \in Domains : Domain(d) \/ ChildExits(d) \/ DescendantEnds(d) \/ Elapse(d)
  \/ Join \/ Diagnose

Spec == Init /\ [][Next]_vars

\* Threads run and time passes.  Nothing is assumed of the commands and what they leave.
Fairness ==
  /\ \A d \in Domains :
       WF_vars(Spawn(d) \/ Timeout(d) \/ ReadOutput(d) \/ EndDomain(d)) /\ WF_vars(Elapse(d))
  /\ WF_vars(Join) /\ WF_vars(Diagnose)

FairSpec == Spec /\ Fairness

-----------------------------------------------------------------------------
\* docs/CLI_CONTRACT.md: what could not be collected is in collection_warnings.  Of a finished
\* snapshot every command of a kind that reports its failures was read or has a warning, unless
\* the domain's own thread was lost; a certificate is also spoken for by the warning that there
\* is no openssl.  Probes and vcgencmd fail without a word.
Spoken(d, i) ==
  \/ i \in read[d] \cup warned[d]
  \/ \E j \in warned[d] : j < i /\ Commands[d][j] = "status"
NothingMissingSilently ==
  done => \A d \in Domains \ lost : \A i \in DOMAIN Commands[d] :
            Commands[d][i] \in Reported => Spoken(d, i)

\* The findings are worked out when every domain has been collected, and no command of the
\* collection runs on after it.
NothingRunsOn == done => \A d \in Domains : child[d] # "runs" /\ thread[d] # "runs"

\* What may hold a collection up for ever: a pipe that something left behind keeps, and a
\* command without a deadline.
Held(d) == holds[d] \/ (child[d] = "runs" /\ Kind(d) \notin Bounded)

\* A collection comes to its end, however the commands with a deadline hang, unless one of
\* those two holds it up for ever.
EndsUnlessHeld == <>done \/ <>[](\E d \in Domains : Held(d))

\* docs/ARCHITECTURE.md: a domain whose commands are over their deadlines blocks no other.
DeadlinesSuffice == <>done

\* A failure of any command is said.
ProbesAreSaid ==
  done => \A d \in Domains \ lost : \A i \in DOMAIN Commands[d] : Spoken(d, i)
=============================================================================
