------------------------------ MODULE Publisher ------------------------------
(***************************************************************************)
(* crates/reporting/src/publisher.rs: the commands of lens-publisher that  *)
(* share the state file.  `run` uploads batches, `register` makes one      *)
(* registration request, `configure` records the syslog selection.  Any    *)
(* number of processes may start any of them at any time, be killed at any *)
(* step, or fail to write the file; the wall clock may be stepped.         *)
(*                                                                         *)
(* A process is where its program counter says:                            *)
(*   off      not running                                                  *)
(*   delay    run: lock taken, state read, waiting for startup_delay       *)
(*   loop     run: top of the main loop                                    *)
(*   claim    the gate was found open, the hold is not computed yet        *)
(*   reserve  the hold is computed, write_state not done                   *)
(*   send     the hold is on disk, the request not sent                    *)
(*   wait     the request is in flight                                     *)
(*   record   the answer is in memory, write_state not done                *)
(*   body     register: the response was accepted, its body not examined   *)
(*   final    the last write_state of register or configure not done       *)
(* The queue of reports is in Uplink: here a batch may or may not be there.*)
(***************************************************************************)
EXTENDS Gate, FiniteSets

CONSTANTS
  Proc,      \* lens-publisher processes
  Origin,    \* server origins
  RegId,     \* registration UUIDs
  Hash,      \* host identities the server may issue
  Secret,    \* upload credentials the server may issue
  Code,      \* response status codes
  Delay,     \* values of the Retry-After and Date headers
  Policy,    \* values of the interval header
  Offset,    \* differences between the wall clock and true time
  Horizon,   \* bound on true time
  Nobody,    \* no process
  NoState,   \* no state.json
  None       \* an absent optional field

ASSUME PublisherAssumption ==
  /\ Nobody \notin Proc
  /\ None \notin Hash /\ None \notin Secret /\ None \notin RegId
  /\ Code \subseteq Nat /\ Delay \subseteq Nat /\ Policy \subseteq Nat
  /\ Offset \subseteq Int /\ 0 \in Offset /\ Horizon \in Nat

States == [server : Origin, regId : RegId, hash : Hash \cup {None},
           secret : Secret \cup {None}, syslog : BOOLEAN,
           token : BOOLEAN, gate : Gates]

ASSUME NoStateAssumption == NoState \notin States

VARIABLES
  now,       \* true time, which the monotonic clock follows
  off,       \* the wall clock shows now + off
  disk,      \* state.json
  lock,      \* holder of publisher.lock
  cmd,       \* the command each process runs
  pc,        \* where it is
  mem,       \* its State value
  mono,      \* mono_gate of run
  outcome,   \* outcome of its last request
  due,       \* ghost: what its last hold promises, in true time
  owed,      \* ghost: the promise of the hold on disk
  seen,      \* ghost: registration ids the server may have seen
  refused    \* ghost: a recorded halt whose cause nothing has repaired

clock == <<now, off>>
ghosts == <<owed, seen, refused>>
vars == <<now, off, disk, lock, cmd, pc, mem, mono, outcome, due, owed, seen, refused>>

Wall == now + off

NoPromise == [until |-> 0, off |-> 0]

Init ==
  /\ now = 0 /\ off \in Offset /\ Wall \in 0..(MaxWall - 1)
  /\ disk = NoState
  /\ lock = Nobody
  /\ cmd = [p \in Proc |-> "none"]
  /\ pc = [p \in Proc |-> "off"]
  /\ mem = [p \in Proc |-> NoState]
  /\ mono = [p \in Proc |-> 0]
  /\ outcome = [p \in Proc |-> None]
  /\ due = [p \in Proc |-> NoPromise]
  /\ owed = [until |-> 0, off |-> off, by |-> Nobody]
  /\ seen = {}
  /\ refused = FALSE

-----------------------------------------------------------------------------
(* Processes *)
\* A fault: a command that does not check the lock.
AcquireAnyway(p) == pc[p] = "off" /\ lock' = p

\* singleton: taking the exclusive lock, or failing at once.  A command that
\* fails here, or on what it reads next, changes nothing.
Acquire(p) == pc[p] = "off" /\ lock = Nobody /\ lock' = p

Enter(p, command, where, state) ==
  /\ Acquire(p)
  /\ cmd' = [cmd EXCEPT ![p] = command]
  /\ pc' = [pc EXCEPT ![p] = where]
  /\ mem' = [mem EXCEPT ![p] = state]
  /\ UNCHANGED <<clock, disk, mono, outcome, due, ghosts>>

\* The end of a process, for any reason: the kernel drops its lock.
Leave(p) ==
  /\ lock' = IF lock = p THEN Nobody ELSE lock
  /\ cmd' = [cmd EXCEPT ![p] = "none"]
  /\ pc' = [pc EXCEPT ![p] = "off"]
  /\ mem' = [mem EXCEPT ![p] = NoState]
  /\ mono' = [mono EXCEPT ![p] = 0]
  /\ outcome' = [outcome EXCEPT ![p] = None]
  /\ due' = [due EXCEPT ![p] = NoPromise]

Goto(p, where) == pc' = [pc EXCEPT ![p] = where]

SetGate(p, g) == mem' = [mem EXCEPT ![p].gate = g]

Kill(p) ==
  /\ pc[p] # "off"
  /\ Leave(p)
  /\ owed' = IF owed.by = p THEN [owed EXCEPT !.by = Nobody] ELSE owed
  /\ UNCHANGED <<clock, disk, seen, refused>>

\* register saves confirmed credentials under an open gate.
Repairs(p) == cmd[p] = "register" /\ pc[p] = "final" /\ ~mem[p].gate.halted

\* run records the refusal of its credentials.
Refuses(p) == cmd[p] = "run" /\ pc[p] = "record" /\ outcome[p] = "Halt"

RefusedAfter(p) == Refuses(p) \/ (refused /\ ~Repairs(p))

\* The promise of the hold that a save puts on disk.
PromiseOf(p, by) == [until |-> due[p].until, off |-> due[p].off, by |-> by]

\* write_state fails: the rename has or has not happened, and the command ends.
WriteError(p) ==
  /\ pc[p] \in {"reserve", "record", "final"}
  /\ Leave(p)
  /\ \/ UNCHANGED <<disk, refused>> /\ owed' = [owed EXCEPT !.by = Nobody]
     \/ /\ disk' = mem[p]
        /\ refused' = RefusedAfter(p)
        /\ owed' = IF pc[p] = "final" THEN owed ELSE PromiseOf(p, Nobody)
  /\ UNCHANGED <<clock, seen>>

-----------------------------------------------------------------------------
(* Starting a command *)

StartRun(p) ==
  /\ disk # NoState /\ disk.hash # None /\ disk.secret # None
  /\ Enter(p, "run", "delay", disk)
\* A fault: a pending registration is started over with a new identity.
RegistrationAnew(origin, id) ==
  IF disk # NoState /\ disk.secret # None THEN disk
  ELSE [server |-> origin, regId |-> id, hash |-> None, secret |-> None,
        syslog |-> FALSE, token |-> FALSE,
        gate |-> IF disk = NoState THEN FreshGate ELSE disk.gate]

\* A first registration invents its identity; a later one keeps what it finds.
Registration(origin, id) ==
  IF disk # NoState THEN disk
  ELSE [server |-> origin, regId |-> id, hash |-> None, secret |-> None,
        syslog |-> FALSE, token |-> FALSE, gate |-> FreshGate]

StartRegister(p, origin, id, refresh) ==
  LET state == Registration(origin, id) IN
  /\ disk = NoState => id \notin seen
  /\ state.secret # None => refresh
  /\ state.server = origin
  /\ state.gate.notBefore <= Wall
  /\ Enter(p, "register", "claim", [state EXCEPT !.gate.halted = FALSE])
\* A fault: configure clears the gate.
StartConfigureReset(p, enabled) ==
  /\ disk # NoState
  /\ Enter(p, "configure", "final", [disk EXCEPT !.syslog = enabled, !.gate = FreshGate])

StartConfigure(p, enabled) ==
  /\ disk # NoState
  /\ Enter(p, "configure", "final", [disk EXCEPT !.syslog = enabled])

-----------------------------------------------------------------------------
(* A request *)

\* deadline: the hold in monotonic time, as the wall clock now measures it.
MonoGate(g) == now + SatSub(g.notBefore, Wall)

Arm(p) ==
  /\ pc[p] = "delay"
  /\ mono' = [mono EXCEPT ![p] = MonoGate(mem[p].gate)]
  /\ Goto(p, "loop")
  /\ UNCHANGED <<clock, disk, lock, cmd, mem, outcome, due, ghosts>>

\* Both clocks must pass the hold, and a batch must be there.
Select(p) ==
  /\ pc[p] = "loop"
  /\ Ready(mem[p].gate, Wall) /\ now >= mono[p]
  /\ Goto(p, "claim")
  /\ UNCHANGED <<clock, disk, lock, cmd, mem, mono, outcome, due, ghosts>>

Claim(p) ==
  /\ pc[p] = "claim"
  /\ \E g \in ReserveAttempt(mem[p].gate, Wall) : SetGate(p, g)
  /\ due' = [due EXCEPT ![p] =
       [until |-> now + MaxOf(Interval(mem[p].gate), Uncertainty), off |-> off]]
  /\ Goto(p, "reserve")
  /\ UNCHANGED <<clock, disk, lock, cmd, mono, outcome, ghosts>>

Send(p) ==
  /\ pc[p] = "send"
  /\ seen' = seen \cup {mem[p].regId}
  /\ Goto(p, "wait")
  /\ UNCHANGED <<clock, disk, lock, cmd, mem, mono, outcome, due, owed, refused>>

\* What an answer obliges the publisher to: after success the interval, after
\* a failure at least Retry-After and the interval on top of the hold it has.
Promise(p, g, result, retry) ==
  CASE result = "Retry" ->
         [until |-> MaxOf(due[p].until, now + MaxOf(retry, Interval(g))),
          off |-> MinOf(due[p].off, off)]
    [] result = "Halt" -> due[p]
    [] OTHER -> [until |-> now + Interval(g), off |-> off]

\* Only the answers to an upload carry the interval policy.
Observed(p, header) ==
  IF cmd[p] = "run" THEN ObserveInterval(mem[p].gate, header) ELSE mem[p].gate

Answer(p, code, header, policy) ==
  LET g == Observed(p, policy) IN
  /\ pc[p] = "wait"
  /\ \E next \in Status(g, code, header, Wall) : SetGate(p, next)
  /\ outcome' = [outcome EXCEPT ![p] = Outcome(code)]
  /\ due' = [due EXCEPT ![p] = Promise(p, g, Outcome(code), RetryAfter(header, Wall))]
  /\ Goto(p, "record")
  /\ UNCHANGED <<clock, disk, lock, cmd, mono, ghosts>>

\* No answer within the 20 s limit, or no connection: lost on either way.
NoAnswer(p) ==
  /\ pc[p] = "wait"
  /\ \E next \in Failure(mem[p].gate, Wall, 0) : SetGate(p, next)
  /\ outcome' = [outcome EXCEPT ![p] = "Retry"]
  /\ due' = [due EXCEPT ![p] = Promise(p, mem[p].gate, "Retry", 0)]
  /\ Goto(p, "record")
  /\ UNCHANGED <<clock, disk, lock, cmd, mono, ghosts>>

-----------------------------------------------------------------------------
(* write_state *)

Save(p) == disk' = mem[p]

SaveHold(p) ==
  /\ pc[p] = "reserve"
  /\ Save(p)
  /\ owed' = PromiseOf(p, Nobody)
  /\ Goto(p, "send")
  /\ UNCHANGED <<clock, lock, cmd, mem, mono, outcome, due, seen, refused>>

\* run goes on, and measures the hold again for its monotonic gate.
SaveUpload(p) ==
  /\ pc[p] = "record" /\ cmd[p] = "run"
  /\ Save(p)
  /\ mono' = [mono EXCEPT ![p] = MonoGate(mem[p].gate)]
  /\ owed' = PromiseOf(p, IF off <= due[p].off THEN p ELSE Nobody)
  /\ refused' = RefusedAfter(p)
  /\ Goto(p, "loop")
  /\ UNCHANGED <<clock, lock, cmd, mem, outcome, due, seen>>

\* A fault: a rejected registration is retried by itself.
SaveRegistrationRetry(p) ==
  /\ pc[p] = "record" /\ cmd[p] = "register"
  /\ Save(p)
  /\ owed' = PromiseOf(p, Nobody)
  /\ Goto(p, IF outcome[p] = "Accepted" THEN "body" ELSE "claim")
  /\ UNCHANGED <<clock, lock, cmd, mem, mono, outcome, due, seen, refused>>

\* register goes on to the body, or reports the rejection.
SaveRegistration(p) ==
  /\ pc[p] = "record" /\ cmd[p] = "register"
  /\ Save(p)
  /\ owed' = PromiseOf(p, Nobody)
  /\ IF outcome[p] = "Accepted"
     THEN Goto(p, "body") /\ UNCHANGED <<lock, cmd, mem, mono, outcome, due>>
     ELSE Leave(p)
  /\ UNCHANGED <<clock, seen, refused>>

SaveFinal(p) ==
  /\ pc[p] = "final"
  /\ Save(p)
  /\ Leave(p)
  /\ refused' = RefusedAfter(p)
  /\ UNCHANGED <<clock, owed, seen>>

-----------------------------------------------------------------------------
(* The body of an accepted registration *)

Bodies == [regId : RegId \cup {None}, hash : Hash \cup {None},
           secret : Secret \cup {None}, token : BOOLEAN]

Confirms(p, body) == body.regId = mem[p].regId
\* A fault: the identity of the host is not compared.
ReplacesNever(p, body) == FALSE

\* A valid identity that is not the one this host already has.
Replaces(p, body) == mem[p].hash # None /\ body.hash # mem[p].hash

Complete(body) == body.hash # None /\ body.secret # None

\* The server does not confirm the registration, or changes the identity: halt.
RefuseBody(p, body) ==
  /\ pc[p] = "body"
  /\ ~Confirms(p, body) \/ (Complete(body) /\ Replaces(p, body))
  /\ SetGate(p, [mem[p].gate EXCEPT !.halted = TRUE])
  /\ Goto(p, "final")
  /\ UNCHANGED <<clock, disk, lock, cmd, mono, outcome, due, ghosts>>

AcceptBody(p, body) ==
  /\ pc[p] = "body"
  /\ Confirms(p, body) /\ Complete(body) /\ ~Replaces(p, body)
  /\ mem' = [mem EXCEPT ![p].hash = body.hash, ![p].secret = body.secret,
                        ![p].token = body.token]
  /\ Goto(p, "final")
  /\ UNCHANGED <<clock, disk, lock, cmd, mono, outcome, due, ghosts>>

\* A body that cannot be read, or lacks credentials: nothing is written.
AbandonBody(p) ==
  /\ pc[p] = "body"
  /\ Leave(p)
  /\ UNCHANGED <<clock, disk, ghosts>>

\* run sees the stop flag, or finds its reader thread gone.
StopRun(p) ==
  /\ pc[p] = "loop"
  /\ Leave(p)
  /\ owed' = IF owed.by = p THEN [owed EXCEPT !.by = Nobody] ELSE owed
  /\ UNCHANGED <<clock, disk, seen, refused>>

-----------------------------------------------------------------------------
(* The environment *)

Tick ==
  /\ now < Horizon /\ Wall + 1 < MaxWall
  /\ now' = now + 1
  /\ UNCHANGED <<off, disk, lock, cmd, pc, mem, mono, outcome, due, ghosts>>

StepClock(offset) ==
  /\ now + offset \in 0..(MaxWall - 1)
  /\ off' = offset
  /\ UNCHANGED <<now, disk, lock, cmd, pc, mem, mono, outcome, due, ghosts>>

Start(p) ==
  \/ StartRun(p)
  \/ \E origin \in Origin, id \in RegId, refresh \in BOOLEAN :
       StartRegister(p, origin, id, refresh)
  \/ \E enabled \in BOOLEAN : StartConfigure(p, enabled)

Resolve(p) ==
  \/ \E code \in Code, header \in Headers(Delay), policy \in Policy \cup {NoHeader} :
       Answer(p, code, header, policy)
  \/ NoAnswer(p)

Examine(p) ==
  \/ \E body \in Bodies : RefuseBody(p, body) \/ AcceptBody(p, body)
  \/ AbandonBody(p)

Write(p) == SaveHold(p) \/ SaveUpload(p) \/ SaveRegistration(p) \/ SaveFinal(p)

Step(p) == Arm(p) \/ Select(p) \/ Claim(p) \/ Send(p) \/ Resolve(p) \/ Write(p) \/ Examine(p)

Next ==
  \/ \E p \in Proc : Start(p) \/ Step(p) \/ StopRun(p) \/ Kill(p) \/ WriteError(p)
  \/ Tick
  \/ \E offset \in Offset : StepClock(offset)

Spec == Init /\ [][Next]_vars

\* A process that is scheduled goes on: its request is resolved by the 20 s
\* limit of the agent, the other steps do not wait.  Nothing obliges a command
\* to start or to stop.
Fairness == \A p \in Proc : WF_vars(Claim(p) \/ Send(p) \/ Resolve(p) \/ Write(p) \/ Examine(p))

FairSpec == Spec /\ Fairness

-----------------------------------------------------------------------------
(* Properties *)

Commands == {"none", "run", "register", "configure"}
Places == {"off", "delay", "loop", "claim", "reserve", "send", "wait",
           "record", "body", "final"}
Promises == [until : Nat, off : Int]

\* Types of the variables (publisher.rs State, Gate, and the ghosts).
TypeOK ==
  /\ now \in Nat /\ off \in Int /\ Wall \in 0..(MaxWall - 1)
  /\ disk \in States \cup {NoState}
  /\ lock \in Proc \cup {Nobody}
  /\ cmd \in [Proc -> Commands]
  /\ pc \in [Proc -> Places]
  /\ mem \in [Proc -> States \cup {NoState}]
  /\ mono \in [Proc -> Nat]
  /\ outcome \in [Proc -> {"Accepted", "Retry", "Halt", "Discard", None}]
  /\ due \in [Proc -> Promises]
  /\ owed \in [until : Nat, off : Int, by : Proc \cup {Nobody}]
  /\ seen \subseteq RegId
  /\ refused \in BOOLEAN

Requesting(p) == pc[p] \in {"send", "wait"}

\* At most one network request is in flight from one state directory, whatever
\* commands run (the singleton lock, FLEET_REPORTING.md "at most one request").
OneRequestInFlight == \A p, q \in Proc : Requesting(p) /\ Requesting(q) => p = q

\* No command acts on a stale State: from the moment it holds the lock to the
\* moment it saves, what it has in memory is what the file says, so no hold,
\* policy, credential or syslog choice written by another command is lost.
Unsaved(p) == pc[p] \in {"claim", "reserve", "record", "final"}
MemoryIsDisk ==
  \A p \in Proc : pc[p] # "off" /\ ~Unsaved(p) => mem[p] = disk

\* While a request is on its way, and after any crash during it, the file holds
\* the uncertainty hold of that very request (reserve_attempt before send).
HoldCovers(g, promise) == g.notBefore >= MinOf(MaxWall, promise.until + promise.off)
HoldBeforeRequest ==
  \A p \in Proc : Requesting(p) => disk # NoState /\ HoldCovers(disk.gate, due[p])

\* No attempt starts before true time has passed what the last recorded answer
\* or attempt demanded, by any command, across crashes and restarts; only a wall
\* clock moved forward since that answer can cut it short.  The process that
\* recorded it waits by its monotonic gate: for that one only a clock moved before
\* the hold was saved counts, because deadline reads the wall clock after the save.
Attempts(p) == pc[p] # "claim" /\ pc'[p] = "claim"
NoEarlyAttempt ==
  [][\A p \in Proc : Attempts(p) =>
       \/ now >= owed.until
       \/ off > owed.off /\ owed.by # p]_vars

\* The identity of the host is written once: no refresh, failure or crash ever
\* replaces the origin, the registration id or the host identity, or loses the
\* credentials.
IdentityStable ==
  [][disk # NoState =>
       /\ disk' # NoState
       /\ disk'.server = disk.server /\ disk'.regId = disk.regId
       /\ disk.hash # None => disk'.hash = disk.hash
       /\ disk.secret # None => disk'.secret # None]_vars

\* The server only ever sees the registration id that is on disk, so a
\* registration retried after a crash is the same registration.
OneRegistrationId == seen # {} => disk # NoState /\ seen = {disk.regId}

\* A halt that has been recorded leaves the disk by the first save of a register
\* command alone, and the same save puts the hold of its attempt in its place: no
\* crash leaves a state that is neither halted nor held.
HaltHolds ==
  [][disk # NoState /\ disk.gate.halted /\ ~disk'.gate.halted =>
       \E p \in Proc : /\ cmd[p] = "register" /\ pc[p] = "reserve"
                        /\ HoldCovers(disk'.gate, due[p])]_vars

\* A halted gate lets no upload start, in memory or on disk.
NoUploadWhenHalted ==
  \A p \in Proc : cmd[p] = "run" /\ pc[p] \in {"claim", "reserve", "send", "wait"} =>
     ~mem[p].gate.halted /\ ~disk.gate.halted

\* 401, 403, 404 and the like "halt transmission until explicit operator repair"
\* (FLEET_REPORTING.md): no upload with credentials the server refused until a
\* registration has confirmed new ones.
HaltUntilRepair ==
  refused => \A p \in Proc : ~(cmd[p] = "run" /\ pc[p] = "wait")

\* "A service restart does not clear an upload failure hold" (FLEET_REPORTING.md):
\* a run that ends after a failed upload leaves the hold the answer asks for.
RestartKeepsFailureHold ==
  [][\A p \in Proc :
       cmd[p] = "run" /\ pc[p] = "record" /\ outcome[p] = "Retry" /\ pc'[p] = "off" =>
         HoldCovers(disk'.gate, due[p])]_vars

\* A registration or a configuration ends by itself, whatever the server does,
\* and so gives up the lock; nothing retries it.
CommandsEnd == \A p \in Proc : cmd[p] \in {"register", "configure"} ~> pc[p] = "off"
=============================================================================
