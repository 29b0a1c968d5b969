--------------------------- MODULE PublisherProofs ---------------------------
(***************************************************************************)
(* Theorems about Publisher, for every number of processes, every set of   *)
(* identities and answers, and every value of the schedule.                *)
(*                                                                         *)
(* The argument rests on the lock: a process that is not "off" holds it    *)
(* (Held), so in every step of a process all the others are off, and what  *)
(* is true of the state file and of the memory of the holder can be shown  *)
(* process by process (Local).                                             *)
(***************************************************************************)
EXTENDS Publisher, TLAPS

-----------------------------------------------------------------------------
(* What the operators of Gate return, for every gate, every wall clock and  *)
(* every value of the constants: gates again, and how their hold and their  *)
(* halt relate to those of the gate they were given                         *)

\* An addition saturates inside the range of the clock.
LEMMA SatAddRange ==
  ASSUME NEW a \in Nat, NEW b \in Nat
  PROVE  SatAdd(a, b) \in 0..MaxWall
BY GateAssumption DEF SatAdd, MinOf

\* The effective interval is a positive number, whatever was stored.
LEMMA IntervalType ==
  ASSUME NEW g \in Gates
  PROVE  Interval(g) \in Nat \ {0}
BY GateAssumption DEF Gates, Interval, MinOf, MaxOf

\* A new policy leaves a gate whose hold, failures and halt are the old ones.
LEMMA ObserveIntervalType ==
  ASSUME NEW g \in Gates, NEW header
  PROVE  /\ ObserveInterval(g, header) \in Gates
         /\ ObserveInterval(g, header).notBefore = g.notBefore
         /\ ObserveInterval(g, header).halted = g.halted
BY GateAssumption DEF Gates, ObserveInterval

\* The normal cadence keeps the halt and leaves a gate.
LEMMA ReserveType ==
  ASSUME NEW g \in Gates, NEW wall \in Nat, NEW next \in Reserve(g, wall)
  PROVE  next \in Gates /\ next.halted = g.halted
<1>1. PICK j \in 0..MinOf(JitterMax, Interval(g) \div ReserveShare) :
        next = [g EXCEPT !.notBefore = SatAdd(wall, Interval(g) + j)]
  BY DEF Reserve
<1>2. Interval(g) + j \in Nat
  BY IntervalType
<1>3. SatAdd(wall, Interval(g) + j) \in 0..MaxWall
  BY <1>2, SatAddRange
<1> QED
  BY <1>1, <1>3 DEF Gates

\* The uncertainty hold keeps the halt and is at least the interval and the
\* uncertainty away, or at the end of time.
LEMMA ReserveAttemptHold ==
  ASSUME NEW g \in Gates, NEW wall \in Nat, NEW next \in ReserveAttempt(g, wall)
  PROVE  /\ next \in Gates /\ next.halted = g.halted
         /\ next.notBefore >= MinOf(MaxWall, wall + MaxOf(Interval(g), Uncertainty))
<1> DEFINE hold == MaxOf(Interval(g), Uncertainty)
<1>1. PICK j \in 0..JitterMax : next = [g EXCEPT !.notBefore = SatAdd(wall, hold + j)]
  BY DEF ReserveAttempt
<1>2. hold \in Nat /\ j \in Nat /\ hold + j \in Nat
  BY IntervalType, GateAssumption DEF MaxOf
<1>3. SatAdd(wall, hold + j) \in 0..MaxWall
  <2> HIDE DEF hold
  <2> QED
    BY <1>2, SatAddRange
<1>4. SatAdd(wall, hold + j) >= MinOf(MaxWall, wall + hold)
  BY <1>2, GateAssumption DEF SatAdd, MinOf
<1> QED
  BY <1>1, <1>3, <1>4 DEF Gates

\* A success forgets the failures and nothing else but the hold.
LEMMA SuccessType ==
  ASSUME NEW g \in Gates, NEW wall \in Nat, NEW next \in Success(g, wall)
  PROVE  next \in Gates /\ next.halted = g.halted
<1> DEFINE clear == [g EXCEPT !.failures = 0]
<1>1. clear \in Gates /\ clear.halted = g.halted
  BY GateAssumption DEF Gates
<1> QED
  BY <1>1, ReserveType DEF Success

\* A failure never shortens the hold that was taken, and keeps the halt.
LEMMA FailureHold ==
  ASSUME NEW g \in Gates, NEW wall \in Nat, NEW retry \in Nat,
         NEW next \in Failure(g, wall, retry)
  PROVE  /\ next \in Gates /\ next.halted = g.halted
         /\ next.notBefore >= g.notBefore
         /\ next.notBefore >= MinOf(MaxWall, wall + MaxOf(retry, Interval(g)))
<1> DEFINE failures == MinOf(g.failures + 1, MaxFailures)
           Floor(local) == MaxOf(MaxOf(local, retry), Interval(g))
           After(local, j) == SatAdd(SatAdd(wall, Floor(local)), j)
<1>1. PICK local \in BackoffUnit..BackoffCeiling(failures) :
      \E j \in 0..MinOf(JitterMax, Floor(local) \div FailureShare) :
        next = [g EXCEPT !.failures  = failures,
                         !.notBefore = MaxOf(g.notBefore, After(local, j))]
  BY DEF Failure
<1>2. PICK j \in 0..MinOf(JitterMax, Floor(local) \div FailureShare) :
        next = [g EXCEPT !.failures  = failures,
                         !.notBefore = MaxOf(g.notBefore, After(local, j))]
  BY <1>1
<1>3. local \in Int /\ j \in Nat
  OBVIOUS
<1>4. Floor(local) \in Nat /\ Floor(local) >= MaxOf(retry, Interval(g))
  BY <1>3, IntervalType DEF MaxOf
<1>5. SatAdd(wall, Floor(local)) \in 0..MaxWall
  BY <1>4, SatAddRange
<1>6. After(local, j) \in 0..MaxWall
  BY <1>3, <1>5, SatAddRange
<1>7. After(local, j) >= MinOf(MaxWall, wall + MaxOf(retry, Interval(g)))
  BY <1>3, <1>4, IntervalType, GateAssumption DEF SatAdd, MinOf, MaxOf
<1>8. failures \in 0..MaxFailures /\ g.notBefore \in 0..MaxWall
  BY GateAssumption DEF Gates, MinOf
<1>9. /\ MaxOf(g.notBefore, After(local, j)) \in 0..MaxWall
      /\ MaxOf(g.notBefore, After(local, j)) >= g.notBefore
      /\ MaxOf(g.notBefore, After(local, j)) >= After(local, j)
  BY <1>6, <1>8, GateAssumption DEF MaxOf
<1>10. MinOf(MaxWall, wall + MaxOf(retry, Interval(g))) \in Int
  BY IntervalType, GateAssumption DEF MinOf, MaxOf
<1>11. MaxOf(g.notBefore, After(local, j)) >= MinOf(MaxWall, wall + MaxOf(retry, Interval(g)))
  <2> HIDE DEF After
  <2> QED
    BY <1>6, <1>7, <1>9, <1>10, GateAssumption
<1> HIDE DEF After, failures
<1> QED
  BY <1>2, <1>8, <1>9, <1>11 DEF Gates

\* Retry-After is a delay: a number that is never negative.
LEMMA RetryAfterType ==
  ASSUME NEW T \in SUBSET Nat, NEW header \in Headers(T), NEW wall \in Nat
  PROVE  RetryAfter(header, wall) \in Nat
<1>1. CASE header = [kind |-> "none"]
  BY <1>1 DEF RetryAfter
<1>2. CASE header \in [kind : {"seconds"}, value : T]
  BY <1>2, GateAssumption DEF RetryAfter, MinOf
<1>3. CASE header \in [kind : {"date"}, value : T, server : T \cup {NoHeader}]
  BY <1>3 DEF RetryAfter, SatSub, MaxOf
<1> QED
  BY <1>1, <1>2, <1>3 DEF Headers

\* Whatever the status, the answer leaves a gate, and a halt in force stays.
LEMMA StatusType ==
  ASSUME NEW T \in SUBSET Nat, NEW header \in Headers(T), NEW wall \in Nat,
         NEW g \in Gates, NEW code, NEW next \in Status(g, code, header, wall)
  PROVE  next \in Gates /\ (g.halted => next.halted)
<1>1. CASE Outcome(code) = "Retry"
  BY <1>1, RetryAfterType, FailureHold DEF Status
<1>2. CASE Outcome(code) = "Halt"
  BY <1>2 DEF Status, Gates
<1>3. CASE Outcome(code) \notin {"Retry", "Halt"}
  BY <1>3, SuccessType DEF Status
<1> QED
  BY <1>1, <1>2, <1>3

\* The outcome of a status code is one of the four.
LEMMA OutcomeType ==
  ASSUME NEW code
  PROVE  Outcome(code) \in {"Accepted", "Retry", "Halt", "Discard"}
BY DEF Outcome

-----------------------------------------------------------------------------
(* The invariant, process by process *)

Held(p) == lock = p /\ mem[p] \in States

\* Outside the places where a save is owed, memory and file agree.
Fresh(p) == ~Unsaved(p) => mem[p] = disk

\* The hold of the attempt under way is in memory, then on disk.
Covered(p) ==
  /\ pc[p] = "reserve" => HoldCovers(mem[p].gate, due[p])
  /\ Requesting(p) => HoldCovers(disk.gate, due[p])

\* What a save may do to the identity on disk: complete it, never replace it.
Extends(new, old) ==
  /\ new.server = old.server /\ new.regId = old.regId
  /\ old.hash # None => new.hash = old.hash
  /\ old.secret # None => new.secret # None

Keeps(p) == disk # NoState => Extends(mem[p], disk)

\* A halt on disk is a halt in memory, except in a register that has not sent
\* its request; an upload has no halt in memory.
HaltKept(p) ==
  /\ disk # NoState /\ disk.gate.halted /\ ~mem[p].gate.halted =>
       cmd[p] = "register" /\ pc[p] \in {"claim", "reserve"}
  /\ cmd[p] = "run" => disk # NoState
  /\ cmd[p] = "run" /\ pc[p] \in {"claim", "reserve", "send", "wait"} =>
       ~mem[p].gate.halted /\ ~disk.gate.halted

Local(p) ==
  pc[p] # "off" => Held(p) /\ Fresh(p) /\ Covered(p) /\ Keeps(p) /\ HaltKept(p)

\* The inductive invariant.
IInv == TypeOK /\ (\A p \in Proc : Local(p)) /\ OneRegistrationId

-----------------------------------------------------------------------------
\* All the others are off while a process holds the lock, or wants it.
LEMMA OthersOff ==
  ASSUME IInv, NEW p \in Proc, pc[p] # "off" \/ lock = Nobody, NEW q \in Proc, q # p
  PROVE  pc[q] = "off"
BY PublisherAssumption DEF IInv, Local, Held

\* A step of one process keeps the local invariant of all when it keeps its own.
LEMMA OneProcess ==
  ASSUME IInv, NEW p \in Proc, pc[p] # "off" \/ lock = Nobody,
         \A q \in Proc \ {p} : pc'[q] = pc[q], Local(p)'
  PROVE  \A q \in Proc : Local(q)'
<1> SUFFICES ASSUME NEW q \in Proc PROVE Local(q)'
  OBVIOUS
<1>1. CASE q = p
  BY <1>1
<1>2. CASE q # p
  BY <1>2, OthersOff DEF Local
<1> QED
  BY <1>1, <1>2

LEMMA FreshGateType == FreshGate \in Gates
BY GateAssumption DEF FreshGate, Gates

LEMMA WallType == TypeOK => Wall \in Nat
BY GateAssumption DEF TypeOK

\* A process that leaves is off, and the variables it has keep their types.
LEMMA LeaveType ==
  ASSUME TypeOK, NEW p \in Proc, Leave(p)
  PROVE  /\ lock' \in Proc \cup {Nobody}
         /\ cmd' \in [Proc -> Commands] /\ pc' \in [Proc -> Places]
         /\ mem' \in [Proc -> States \cup {NoState}] /\ mono' \in [Proc -> Nat]
         /\ outcome' \in [Proc -> {"Accepted", "Retry", "Halt", "Discard", None}]
         /\ due' \in [Proc -> Promises]
         /\ pc' = [pc EXCEPT ![p] = "off"]
BY DEF TypeOK, Leave, Commands, Places, Promises, NoPromise

\* A new gate leaves the rest of the State alone.
LEMMA SetGateType ==
  ASSUME TypeOK, NEW p \in Proc, mem[p] \in States, NEW g \in Gates, SetGate(p, g)
  PROVE  /\ mem' \in [Proc -> States \cup {NoState}]
         /\ mem'[p] \in States /\ mem'[p] = [mem[p] EXCEPT !.gate = g]
         /\ mem'[p].gate = g
<1>1. [mem[p] EXCEPT !.gate = g] \in States
  BY DEF States
<1> QED
  BY <1>1 DEF TypeOK, SetGate, States

LEMMA ExtendsItself == \A s \in States : Extends(s, s)
BY DEF Extends

-----------------------------------------------------------------------------
LEMMA InitHolds == Init => IInv
<1> SUFFICES ASSUME Init PROVE IInv
  OBVIOUS
<1>1. TypeOK
  BY PublisherAssumption, GateAssumption
  DEF Init, TypeOK, Commands, Places, Promises, NoPromise
<1>2. \A p \in Proc : Local(p)
  BY DEF Init, Local
<1>3. OneRegistrationId
  BY DEF Init, OneRegistrationId
<1> QED
  BY <1>1, <1>2, <1>3 DEF IInv
-----------------------------------------------------------------------------
(* Starting a command *)

\* A process that takes the lock with a State that extends the one on disk.
LEMMA EnterKeeps ==
  ASSUME IInv, NEW p \in Proc, NEW command \in Commands, NEW where \in Places,
         NEW state \in States, Enter(p, command, where, state),
         where \notin {"off", "reserve", "send", "wait"},
         where \notin {"claim", "final"} => state = disk,
         disk # NoState => Extends(state, disk),
         disk # NoState /\ disk.gate.halted /\ ~state.gate.halted =>
           command = "register" /\ where = "claim",
         command = "run" => where = "delay" /\ disk # NoState
  PROVE  IInv'
<1>1. pc' = [pc EXCEPT ![p] = where] /\ pc'[p] = where /\ mem'[p] = state
        /\ cmd'[p] = command /\ lock' = p /\ lock = Nobody
  BY DEF IInv, TypeOK, Enter, Acquire
<1>2. TypeOK'
  BY <1>1 DEF IInv, TypeOK, Enter, Acquire, clock, ghosts, Wall
<1>3. Local(p)'
  BY <1>1 DEF Enter, ghosts, Local, Held, Fresh, Unsaved, Covered, Requesting, Keeps, HaltKept
<1>4. \A q \in Proc : Local(q)'
  BY <1>1, <1>3, OneProcess DEF IInv, TypeOK
<1>5. OneRegistrationId'
  BY DEF IInv, Enter, ghosts, OneRegistrationId
<1> QED
  BY <1>2, <1>4, <1>5 DEF IInv

LEMMA StartRunKeeps ==
  ASSUME IInv, NEW p \in Proc, StartRun(p)
  PROVE  IInv'
BY EnterKeeps, ExtendsItself DEF StartRun, Commands, Places, IInv, TypeOK

LEMMA StartConfigureKeeps ==
  ASSUME IInv, NEW p \in Proc, NEW enabled \in BOOLEAN, StartConfigure(p, enabled)
  PROVE  IInv'
<1> DEFINE state == [disk EXCEPT !.syslog = enabled]
<1>1. disk \in States /\ Enter(p, "configure", "final", state)
  BY DEF StartConfigure, IInv, TypeOK
<1>2. state \in States /\ Extends(state, disk) /\ state.gate = disk.gate
  BY <1>1 DEF States, Extends
<1> HIDE DEF state
<1> QED
  BY <1>1, <1>2, EnterKeeps DEF Commands, Places

LEMMA StartRegisterKeeps ==
  ASSUME IInv, NEW p \in Proc, NEW origin \in Origin, NEW id \in RegId,
         NEW refresh \in BOOLEAN, StartRegister(p, origin, id, refresh)
  PROVE  IInv'
<1> DEFINE found == Registration(origin, id)
           state == [found EXCEPT !.gate.halted = FALSE]
<1>1. found \in States
  BY FreshGateType DEF Registration, States, IInv, TypeOK
<1>2. state \in States /\ Extends(state, found)
  <2>1. [found.gate EXCEPT !.halted = FALSE] \in Gates
    BY <1>1 DEF States, Gates
  <2>2. state = [found EXCEPT !.gate = [found.gate EXCEPT !.halted = FALSE]]
    BY <1>1 DEF States, Gates
  <2> QED
    BY <1>1, <2>1, <2>2 DEF States, Extends
<1>3. disk # NoState => found = disk
  BY DEF Registration
<1>4. Enter(p, "register", "claim", state)
  BY DEF StartRegister
<1> HIDE DEF found, state
<1> QED
  BY <1>2, <1>3, <1>4, EnterKeeps DEF Commands, Places

-----------------------------------------------------------------------------
(* The steps of a request *)

\* A step of p that writes nothing but its memory, its place and its promise.
LEMMA MemoryStep ==
  ASSUME IInv, NEW p \in Proc, pc[p] # "off", TypeOK', Local(p)',
         NEW where, pc' = [pc EXCEPT ![p] = where],
         UNCHANGED <<disk, seen>>
  PROVE  IInv'
<1>1. \A q \in Proc : Local(q)'
  BY OneProcess DEF IInv, TypeOK
<1>2. OneRegistrationId'
  BY DEF IInv, OneRegistrationId
<1> QED
  BY <1>1, <1>2 DEF IInv

\* The gate of a process that runs is a gate.
LEMMA GateOf ==
  ASSUME IInv, NEW p \in Proc, pc[p] # "off"
  PROVE  mem[p] \in States /\ mem[p].gate \in Gates /\ lock = p
BY DEF IInv, Local, Held, States

LEMMA ArmKeeps ==
  ASSUME IInv, NEW p \in Proc, Arm(p)
  PROVE  IInv'
<1>1. MonoGate(mem[p].gate) \in Nat
  BY GateOf, GateAssumption DEF Arm, IInv, TypeOK, MonoGate, SatSub, MaxOf, Gates
<1>2. TypeOK' /\ pc'[p] = "loop"
  BY <1>1 DEF Arm, Goto, IInv, TypeOK, Places, clock, ghosts, Wall
<1>3. Local(p)'
  BY <1>2 DEF Arm, IInv, Local, Held, Fresh, Unsaved, Covered, Requesting, Keeps, HaltKept, ghosts
<1> QED
  BY <1>2, <1>3, MemoryStep DEF Arm, Goto, ghosts

LEMMA SelectKeeps ==
  ASSUME IInv, NEW p \in Proc, Select(p)
  PROVE  IInv'
<1>1. TypeOK' /\ pc'[p] = "claim"
  BY DEF Select, Goto, IInv, TypeOK, Places, clock, ghosts, Wall
<1>2. mem[p] = disk /\ mem[p] \in States /\ ~mem[p].gate.halted
  BY NoStateAssumption DEF Select, Ready, IInv, Local, Held, Fresh, Unsaved
<1>3. Local(p)'
  BY <1>1, <1>2, NoStateAssumption
  DEF Select, IInv, Local, Held, Fresh, Unsaved, Covered, Requesting, Keeps, HaltKept, ghosts
<1> QED
  BY <1>1, <1>3, MemoryStep DEF Select, Goto, ghosts

LEMMA ClaimKeeps ==
  ASSUME IInv, NEW p \in Proc, Claim(p)
  PROVE  IInv'
<1> DEFINE hold == MaxOf(Interval(mem[p].gate), Uncertainty)
<1>1. mem[p] \in States /\ mem[p].gate \in Gates /\ lock = p /\ Wall \in Nat
  BY GateOf, WallType DEF Claim, IInv
<1>2. PICK g \in ReserveAttempt(mem[p].gate, Wall) : SetGate(p, g)
  BY DEF Claim
<1>3. g \in Gates /\ g.halted = mem[p].gate.halted /\ g.notBefore >= MinOf(MaxWall, Wall + hold)
  BY <1>1, ReserveAttemptHold
<1>4. /\ mem' \in [Proc -> States \cup {NoState}]
      /\ mem'[p] \in States /\ mem'[p] = [mem[p] EXCEPT !.gate = g] /\ mem'[p].gate = g
  BY <1>1, <1>2, <1>3, SetGateType DEF IInv
<1>5. hold \in Nat
  BY <1>1, IntervalType, GateAssumption DEF MaxOf
<1>6. due'[p] = [until |-> now + hold, off |-> off] /\ due' \in [Proc -> Promises]
  BY <1>5 DEF Claim, IInv, TypeOK, Promises
<1>7. HoldCovers(g, due'[p])
  <2>1. (now + hold) + off = Wall + hold
    BY <1>5 DEF Wall, IInv, TypeOK
  <2> HIDE DEF hold
  <2> QED
    BY <1>3, <1>6, <2>1 DEF HoldCovers
<1> HIDE DEF hold
<1>8. TypeOK' /\ pc'[p] = "reserve"
  BY <1>4, <1>6 DEF Claim, Goto, IInv, TypeOK, Places, clock, ghosts, Wall
<1>9. Local(p)'
  BY <1>1, <1>3, <1>4, <1>7, <1>8
  DEF Claim, IInv, Local, Held, Fresh, Unsaved, Covered, Requesting, Keeps, Extends, HaltKept,
      ghosts, States
<1> QED
  BY <1>8, <1>9, MemoryStep DEF Claim, Goto, ghosts

LEMMA SendKeeps ==
  ASSUME IInv, NEW p \in Proc, Send(p)
  PROVE  IInv'
<1>1. mem[p] \in States /\ mem[p] = disk /\ disk # NoState
  BY NoStateAssumption DEF Send, IInv, Local, Held, Fresh, Unsaved
<1>2. mem[p].regId \in RegId
  BY <1>1 DEF States
<1>3. TypeOK' /\ pc'[p] = "wait"
  BY <1>2 DEF Send, Goto, IInv, TypeOK, Places, clock, Wall
<1>4. Local(p)'
  BY <1>3 DEF Send, IInv, Local, Held, Fresh, Unsaved, Covered, Requesting, Keeps, HaltKept
<1>5. \A q \in Proc : Local(q)'
  BY <1>4, OneProcess DEF Send, Goto, IInv, TypeOK
<1>6. OneRegistrationId'
  BY <1>1 DEF Send, IInv, OneRegistrationId
<1> QED
  BY <1>3, <1>5, <1>6 DEF IInv

\* The end of a request: any gate that keeps a halt, any promise.
LEMMA ResolveKeeps ==
  ASSUME IInv, NEW p \in Proc, pc[p] = "wait",
         NEW g \in Gates, SetGate(p, g), mem[p].gate.halted => g.halted,
         NEW result \in {"Accepted", "Retry", "Halt", "Discard"},
         outcome' = [outcome EXCEPT ![p] = result],
         NEW promise \in Promises, due' = [due EXCEPT ![p] = promise],
         Goto(p, "record"), UNCHANGED <<clock, disk, lock, cmd, mono, ghosts>>
  PROVE  IInv'
<1>1. mem[p] \in States /\ mem[p] = disk
  BY DEF IInv, Local, Held, Fresh, Unsaved
<1>2. /\ mem' \in [Proc -> States \cup {NoState}]
      /\ mem'[p] \in States /\ mem'[p] = [mem[p] EXCEPT !.gate = g] /\ mem'[p].gate = g
  BY <1>1, SetGateType DEF IInv
<1>3. TypeOK' /\ pc'[p] = "record"
  BY <1>2 DEF Goto, IInv, TypeOK, Places, clock, ghosts, Wall
<1>4. Local(p)'
  BY <1>1, <1>2, <1>3
  DEF IInv, Local, Held, Fresh, Unsaved, Covered, Requesting, Keeps, Extends, HaltKept, ghosts, States
<1> QED
  BY <1>3, <1>4, MemoryStep DEF Goto, ghosts

\* A promise is one, whatever the answer.
LEMMA PromiseType ==
  ASSUME TypeOK, NEW p \in Proc, NEW g \in Gates, NEW result, NEW retry \in Nat
  PROVE  Promise(p, g, result, retry) \in Promises
<1>1. due[p] \in Promises /\ due[p].until \in Nat /\ due[p].off \in Int /\ now \in Nat /\ off \in Int
  BY DEF TypeOK, Promises
<1>2. Interval(g) \in Nat
  BY IntervalType
<1>3. /\ MaxOf(due[p].until, now + MaxOf(retry, Interval(g))) \in Nat
      /\ MinOf(due[p].off, off) \in Int /\ now + Interval(g) \in Nat
  BY <1>1, <1>2 DEF MaxOf, MinOf
<1> QED
  BY <1>1, <1>3 DEF Promise, Promises

LEMMA AnswerKeeps ==
  ASSUME IInv, NEW p \in Proc, NEW code \in Code, NEW header \in Headers(Delay),
         NEW policy, Answer(p, code, header, policy)
  PROVE  IInv'
<1> DEFINE g == Observed(p, policy)
           retry == RetryAfter(header, Wall)
           promise == Promise(p, g, Outcome(code), retry)
<1>1. mem[p].gate \in Gates /\ Wall \in Nat
  BY GateOf, WallType DEF Answer, IInv
<1>2. g \in Gates /\ g.halted = mem[p].gate.halted
  BY <1>1, ObserveIntervalType DEF Observed
<1>3. retry \in Nat
  BY <1>1, RetryAfterType, PublisherAssumption
<1>4. promise \in Promises
  <2> HIDE DEF g, retry
  <2> QED
    BY <1>2, <1>3, PromiseType DEF IInv
<1>5. PICK next \in Status(g, code, header, Wall) : SetGate(p, next)
  BY DEF Answer
<1>6. next \in Gates /\ (g.halted => next.halted)
  <2> HIDE DEF g
  <2> QED
    BY <1>1, <1>2, StatusType, PublisherAssumption
<1>7. Outcome(code) \in {"Accepted", "Retry", "Halt", "Discard"}
  BY OutcomeType
<1>8. pc[p] = "wait" /\ due' = [due EXCEPT ![p] = promise]
  BY DEF Answer
<1> HIDE DEF g, promise
<1> QED
  BY <1>2, <1>4, <1>5, <1>6, <1>7, <1>8, ResolveKeeps DEF Answer

LEMMA NoAnswerKeeps ==
  ASSUME IInv, NEW p \in Proc, NoAnswer(p)
  PROVE  IInv'
<1> DEFINE promise == Promise(p, mem[p].gate, "Retry", 0)
<1>1. mem[p].gate \in Gates /\ Wall \in Nat
  BY GateOf, WallType DEF NoAnswer, IInv
<1>2. promise \in Promises
  BY <1>1, PromiseType DEF IInv
<1>3. PICK next \in Failure(mem[p].gate, Wall, 0) : SetGate(p, next)
  BY DEF NoAnswer
<1>4. next \in Gates /\ next.halted = mem[p].gate.halted
  <2>1. \A retry \in Nat : \A n \in Failure(mem[p].gate, Wall, retry) :
          n \in Gates /\ n.halted = mem[p].gate.halted
    BY <1>1, FailureHold
  <2> QED
    BY <2>1
<1>5. pc[p] = "wait" /\ due' = [due EXCEPT ![p] = promise]
  BY DEF NoAnswer
<1> HIDE DEF promise
<1> QED
  BY <1>2, <1>3, <1>4, <1>5, ResolveKeeps DEF NoAnswer

-----------------------------------------------------------------------------
(* Writing the state file *)

\* The file takes what the process has in memory, and the process goes where
\* it likes, with its promise, except into a request without its hold.
LEMMA SaveKeeps ==
  ASSUME IInv, NEW p \in Proc, pc[p] \in {"reserve", "record", "final"}, Save(p),
         NEW where \in Places, pc' = [pc EXCEPT ![p] = where],
         where \in {"off", "loop", "body", "send"},
         where = "send" => pc[p] = "reserve" /\ due' = due /\ cmd' = cmd,
         where = "loop" => cmd[p] = "run" /\ cmd' = cmd,
         where # "off" => mem' = mem /\ lock' = lock,
         where = "body" => cmd'[p] = "register",
         TypeOK', UNCHANGED seen
  PROVE  IInv'
<1>1. mem[p] \in States /\ disk' = mem[p] /\ pc'[p] = where
  BY DEF Save, IInv, TypeOK, Local, Held
<1>2. where = "off" => Local(p)'
  BY <1>1 DEF Local
<1>3. where = "send" => Local(p)'
  BY <1>1, ExtendsItself, NoStateAssumption
  DEF IInv, Local, Held, Fresh, Unsaved, Covered, Requesting, Keeps, HaltKept
<1>4. where \in {"loop", "body"} => Local(p)'
  BY <1>1, ExtendsItself, NoStateAssumption
  DEF IInv, Local, Held, Fresh, Unsaved, Covered, Requesting, Keeps, HaltKept
<1>5. Local(p)'
  BY <1>2, <1>3, <1>4
<1>6. \A q \in Proc : Local(q)'
  BY <1>5, OneProcess DEF IInv, TypeOK
<1>7. disk # NoState => mem[p].regId = disk.regId
  BY DEF IInv, Local, Keeps, Extends
<1>8. OneRegistrationId'
  BY <1>1, <1>7, NoStateAssumption DEF IInv, OneRegistrationId
<1> QED
  BY <1>6, <1>8 DEF IInv

\* The promise that a save records.
LEMMA PromiseOfType ==
  ASSUME TypeOK, NEW p \in Proc, NEW by \in Proc \cup {Nobody}
  PROVE  PromiseOf(p, by) \in [until : Nat, off : Int, by : Proc \cup {Nobody}]
BY DEF TypeOK, Promises, PromiseOf

LEMMA SaveHoldKeeps ==
  ASSUME IInv, NEW p \in Proc, SaveHold(p)
  PROVE  IInv'
<1>1. mem[p] \in States /\ PromiseOf(p, Nobody) \in [until : Nat, off : Int, by : Proc \cup {Nobody}]
  BY GateOf, PromiseOfType DEF SaveHold, IInv
<1>2. TypeOK'
  BY <1>1 DEF SaveHold, Save, Goto, IInv, TypeOK, Places, clock, Wall
<1> QED
  BY <1>2, SaveKeeps DEF SaveHold, Goto, Places

LEMMA SaveUploadKeeps ==
  ASSUME IInv, NEW p \in Proc, SaveUpload(p)
  PROVE  IInv'
<1> DEFINE by == IF off <= due[p].off THEN p ELSE Nobody
<1>1. /\ mem[p] \in States /\ mem[p].gate \in Gates
      /\ PromiseOf(p, by) \in [until : Nat, off : Int, by : Proc \cup {Nobody}]
  BY GateOf, PromiseOfType DEF SaveUpload, IInv
<1>2. MonoGate(mem[p].gate) \in Nat
  BY <1>1, GateAssumption DEF IInv, TypeOK, MonoGate, SatSub, MaxOf, Gates
<1>3. RefusedAfter(p) \in BOOLEAN
  BY DEF RefusedAfter, Refuses, Repairs, IInv, TypeOK
<1>4. owed' = PromiseOf(p, by)
  BY DEF SaveUpload
<1> HIDE DEF by
<1>5. TypeOK'
  BY <1>1, <1>2, <1>3, <1>4 DEF SaveUpload, Save, Goto, IInv, TypeOK, Places, clock, Wall
<1> QED
  BY <1>5, SaveKeeps DEF SaveUpload, Goto, Places

LEMMA SaveRegistrationKeeps ==
  ASSUME IInv, NEW p \in Proc, SaveRegistration(p)
  PROVE  IInv'
<1>1. mem[p] \in States /\ PromiseOf(p, Nobody) \in [until : Nat, off : Int, by : Proc \cup {Nobody}]
  BY GateOf, PromiseOfType DEF SaveRegistration, IInv
<1>2. CASE outcome[p] = "Accepted"
  <2>1. TypeOK'
    BY <1>1, <1>2 DEF SaveRegistration, Save, Goto, IInv, TypeOK, Places, clock, Wall
  <2> QED
    BY <1>2, <2>1, SaveKeeps DEF SaveRegistration, Goto, Places
<1>3. CASE outcome[p] # "Accepted"
  <2>1. Leave(p)
    BY <1>3 DEF SaveRegistration
  <2>2. TypeOK'
    BY <1>1, <2>1, LeaveType DEF SaveRegistration, Save, IInv, TypeOK, clock, Wall
  <2> QED
    BY <2>1, <2>2, LeaveType, SaveKeeps DEF SaveRegistration, Places, IInv
<1> QED
  BY <1>2, <1>3

LEMMA SaveFinalKeeps ==
  ASSUME IInv, NEW p \in Proc, SaveFinal(p)
  PROVE  IInv'
<1>1. mem[p] \in States /\ Leave(p)
  BY GateOf DEF SaveFinal
<1>2. RefusedAfter(p) \in BOOLEAN
  BY DEF RefusedAfter, Refuses, Repairs, IInv, TypeOK
<1>3. TypeOK'
  BY <1>1, <1>2, LeaveType DEF SaveFinal, Save, IInv, TypeOK, clock, Wall
<1> QED
  BY <1>1, <1>3, LeaveType, SaveKeeps DEF SaveFinal, Places, IInv

-----------------------------------------------------------------------------
(* Ends of a process *)

\* A process that leaves without a trace on disk.
LEMMA LeaveKeeps ==
  ASSUME IInv, NEW p \in Proc, pc[p] # "off", Leave(p), UNCHANGED <<clock, disk, seen>>,
         owed' \in [until : Nat, off : Int, by : Proc \cup {Nobody}], refused' \in BOOLEAN
  PROVE  IInv'
<1>1. TypeOK' /\ pc' = [pc EXCEPT ![p] = "off"] /\ pc'[p] = "off"
  BY LeaveType DEF IInv, TypeOK, clock, Wall
<1>2. Local(p)'
  BY <1>1 DEF Local
<1> QED
  BY <1>1, <1>2, MemoryStep

LEMMA EndKeeps ==
  ASSUME IInv, NEW p \in Proc, Kill(p) \/ StopRun(p)
  PROVE  IInv'
BY LeaveKeeps DEF Kill, StopRun, IInv, TypeOK

LEMMA AbandonBodyKeeps ==
  ASSUME IInv, NEW p \in Proc, AbandonBody(p)
  PROVE  IInv'
BY LeaveKeeps DEF AbandonBody, ghosts, IInv, TypeOK

LEMMA WriteErrorKeeps ==
  ASSUME IInv, NEW p \in Proc, WriteError(p)
  PROVE  IInv'
<1>1. Leave(p) /\ pc[p] \in {"reserve", "record", "final"}
  BY DEF WriteError
<1>2. CASE UNCHANGED <<disk, refused>> /\ owed' = [owed EXCEPT !.by = Nobody]
  BY <1>1, <1>2, LeaveKeeps DEF WriteError, IInv, TypeOK
<1>3. CASE /\ disk' = mem[p]
           /\ refused' = RefusedAfter(p)
           /\ owed' = IF pc[p] = "final" THEN owed ELSE PromiseOf(p, Nobody)
  <2>1. mem[p] \in States /\ owed' \in [until : Nat, off : Int, by : Proc \cup {Nobody}]
    BY <1>1, <1>3, GateOf, PromiseOfType DEF IInv, TypeOK
  <2>2. RefusedAfter(p) \in BOOLEAN
    BY DEF RefusedAfter, Refuses, Repairs, IInv, TypeOK
  <2>3. TypeOK'
    BY <1>1, <1>3, <2>1, <2>2, LeaveType DEF WriteError, IInv, TypeOK, clock, Wall
  <2> QED
    BY <1>1, <1>3, <2>3, LeaveType, SaveKeeps DEF WriteError, Save, Places, IInv
<1> QED
  BY <1>2, <1>3 DEF WriteError

-----------------------------------------------------------------------------
(* The body of an accepted registration *)

LEMMA RefuseBodyKeeps ==
  ASSUME IInv, NEW p \in Proc, NEW body \in Bodies, RefuseBody(p, body)
  PROVE  IInv'
<1> DEFINE g == [mem[p].gate EXCEPT !.halted = TRUE]
<1>1. mem[p] \in States /\ mem[p].gate \in Gates /\ mem[p] = disk /\ lock = p
  BY GateOf DEF RefuseBody, IInv, Local, Held, Fresh, Unsaved
<1>2. g \in Gates /\ g.halted
  BY <1>1 DEF Gates
<1>3. /\ mem' \in [Proc -> States \cup {NoState}]
      /\ mem'[p] \in States /\ mem'[p] = [mem[p] EXCEPT !.gate = g] /\ mem'[p].gate = g
  <2>1. SetGate(p, g)
    BY DEF RefuseBody
  <2> HIDE DEF g
  <2> QED
    BY <1>1, <1>2, <2>1, SetGateType DEF IInv
<1> HIDE DEF g
<1>4. TypeOK' /\ pc'[p] = "final"
  BY <1>3 DEF RefuseBody, Goto, IInv, TypeOK, Places, clock, ghosts, Wall
<1>5. Local(p)'
  BY <1>1, <1>2, <1>3, <1>4
  DEF RefuseBody, IInv, Local, Held, Fresh, Unsaved, Covered, Requesting, Keeps, Extends,
      HaltKept, ghosts, States
<1> QED
  BY <1>4, <1>5, MemoryStep DEF RefuseBody, Goto, ghosts

LEMMA AcceptBodyKeeps ==
  ASSUME IInv, NEW p \in Proc, NEW body \in Bodies, AcceptBody(p, body)
  PROVE  IInv'
<1> DEFINE new == [mem[p] EXCEPT !.hash = body.hash, !.secret = body.secret, !.token = body.token]
<1>1. mem[p] \in States /\ mem[p] = disk /\ lock = p
  BY GateOf DEF AcceptBody, IInv, Local, Held, Fresh, Unsaved
<1>2. new \in States /\ new.gate = mem[p].gate
  BY <1>1 DEF Bodies, States
<1>3. Extends(new, disk)
  BY <1>1, PublisherAssumption DEF AcceptBody, Complete, Replaces, Extends, States
<1>4. mem' = [mem EXCEPT ![p] = new] /\ mem'[p] = new
  BY <1>1 DEF AcceptBody, IInv, TypeOK
<1> HIDE DEF new
<1>5. TypeOK' /\ pc'[p] = "final"
  BY <1>2, <1>4 DEF AcceptBody, Goto, IInv, TypeOK, Places, clock, ghosts, Wall
<1>6. Local(p)'
  BY <1>1, <1>2, <1>3, <1>4, <1>5
  DEF AcceptBody, IInv, Local, Held, Fresh, Unsaved, Covered, Requesting, Keeps, HaltKept, ghosts
<1> QED
  BY <1>5, <1>6, MemoryStep DEF AcceptBody, Goto, ghosts

-----------------------------------------------------------------------------
(* The environment, and the whole step *)

\* Time and a stepped clock touch no State and no promise.
LEMMA ClockKeeps ==
  ASSUME IInv, \/ Tick
               \/ \E offset \in Offset : StepClock(offset)
               \/ UNCHANGED vars
  PROVE  IInv'
<1>1. TypeOK'
  <2>1. CASE Tick
    BY <2>1, GateAssumption DEF Tick, IInv, TypeOK, ghosts, Wall
  <2>2. ASSUME NEW offset \in Offset, StepClock(offset) PROVE TypeOK'
    BY <2>2, PublisherAssumption DEF StepClock, IInv, TypeOK, ghosts, Wall
  <2>3. CASE UNCHANGED vars
    BY <2>3 DEF vars, IInv, TypeOK, Wall
  <2> QED
    BY <2>1, <2>2, <2>3
<1>2. UNCHANGED <<disk, lock, cmd, pc, mem, due, seen>>
  BY DEF Tick, StepClock, vars, ghosts
<1>3. ASSUME NEW p \in Proc PROVE Local(p)'
  BY <1>2 DEF IInv, Local, Held, Fresh, Unsaved, Covered, Requesting, Keeps, HaltKept
<1>4. OneRegistrationId'
  BY <1>2 DEF IInv, OneRegistrationId
<1> QED
  BY <1>1, <1>3, <1>4 DEF IInv

LEMMA StartKeeps ==
  ASSUME IInv, NEW p \in Proc, Start(p)
  PROVE  IInv'
BY StartRunKeeps, StartRegisterKeeps, StartConfigureKeeps DEF Start

LEMMA StepKeeps ==
  ASSUME IInv, NEW p \in Proc, Step(p)
  PROVE  IInv'
<1>1. CASE Arm(p) \/ Select(p) \/ Claim(p) \/ Send(p)
  BY <1>1, ArmKeeps, SelectKeeps, ClaimKeeps, SendKeeps
<1>2. CASE Resolve(p)
  BY <1>2, AnswerKeeps, NoAnswerKeeps DEF Resolve
<1>3. CASE Write(p)
  BY <1>3, SaveHoldKeeps, SaveUploadKeeps, SaveRegistrationKeeps, SaveFinalKeeps DEF Write
<1>4. CASE Examine(p)
  BY <1>4, RefuseBodyKeeps, AcceptBodyKeeps, AbandonBodyKeeps DEF Examine
<1> QED
  BY <1>1, <1>2, <1>3, <1>4 DEF Step

LEMMA NextKeeps == IInv /\ [Next]_vars => IInv'
<1> SUFFICES ASSUME IInv, [Next]_vars PROVE IInv'
  OBVIOUS
<1>1. CASE \E p \in Proc : Start(p) \/ Step(p) \/ StopRun(p) \/ Kill(p) \/ WriteError(p)
  BY <1>1, StartKeeps, StepKeeps, EndKeeps, WriteErrorKeeps
<1>2. CASE Tick \/ (\E offset \in Offset : StepClock(offset)) \/ UNCHANGED vars
  BY <1>2, ClockKeeps
<1> QED
  BY <1>1, <1>2 DEF Next

LEMMA Invariance == Spec => []IInv
BY InitHolds, NextKeeps, PTL DEF Spec

-----------------------------------------------------------------------------
(* The theorems *)

\* Every variable keeps its type, the hold included: no sum of times, whatever
\* Retry-After and the wall clock say, leaves the range of the clock.
THEOREM TypeCorrect == Spec => []TypeOK
<1>1. IInv => TypeOK
  BY DEF IInv
<1> QED
  BY <1>1, Invariance, PTL

\* However many commands are started, at most one request is in flight.
THEOREM RequestsExclude == Spec => []OneRequestInFlight
<1>1. IInv => OneRequestInFlight
  BY DEF IInv, Local, Held, OneRequestInFlight, Requesting
<1> QED
  BY <1>1, Invariance, PTL

\* No command ever works on a State that another has replaced on disk.
THEOREM NoStaleState == Spec => []MemoryIsDisk
<1>1. IInv => MemoryIsDisk
  BY DEF IInv, Local, Fresh, MemoryIsDisk
<1> QED
  BY <1>1, Invariance, PTL

\* The hold of a request is on disk before the request is sent, and stays there
\* until it is answered, at whatever wall clock.
THEOREM HoldPrecedesRequest == Spec => []HoldBeforeRequest
<1>1. IInv => HoldBeforeRequest
  <2> SUFFICES ASSUME IInv, NEW p \in Proc, Requesting(p)
               PROVE  disk # NoState /\ HoldCovers(disk.gate, due[p])
    BY DEF HoldBeforeRequest
  <2>1. Held(p) /\ Fresh(p) /\ Covered(p)
    BY DEF IInv, Local, Requesting
  <2> QED
    BY <2>1, NoStateAssumption DEF Held, Fresh, Unsaved, Covered, Requesting
<1> QED
  BY <1>1, Invariance, PTL

\* The server sees one registration id, the one on disk.
THEOREM RegistrationIsOne == Spec => []OneRegistrationId
<1>1. IInv => OneRegistrationId
  BY DEF IInv
<1> QED
  BY <1>1, Invariance, PTL

\* No upload is chosen, claimed or sent under a halt.
THEOREM HaltStopsUploads == Spec => []NoUploadWhenHalted
<1>1. IInv => NoUploadWhenHalted
  BY DEF IInv, Local, HaltKept, NoUploadWhenHalted
<1> QED
  BY <1>1, Invariance, PTL

\* The file changes only to what the process that saves has in memory.
LEMMA OnlySavesWrite ==
  ASSUME IInv, [Next]_vars
  PROVE  \/ disk' = disk
         \/ \E p \in Proc : pc[p] \in {"reserve", "record", "final"} /\ disk' = mem[p]
<1>1. ASSUME NEW p \in Proc,
             Start(p) \/ Arm(p) \/ Select(p) \/ Claim(p) \/ Send(p) \/ Resolve(p)
               \/ Examine(p) \/ StopRun(p) \/ Kill(p)
      PROVE  disk' = disk
  BY <1>1 DEF Start, StartRun, StartRegister, StartConfigure, Enter, Arm, Select, Claim, Send,
       Resolve, Answer, NoAnswer, Examine, RefuseBody, AcceptBody, AbandonBody, StopRun, Kill
<1>2. ASSUME NEW p \in Proc, Write(p) \/ WriteError(p)
      PROVE  disk' = disk \/ (pc[p] \in {"reserve", "record", "final"} /\ disk' = mem[p])
  BY <1>2 DEF Write, SaveHold, SaveUpload, SaveRegistration, SaveFinal, Save, WriteError
<1>3. CASE Tick \/ (\E offset \in Offset : StepClock(offset)) \/ UNCHANGED vars
  BY <1>3 DEF Tick, StepClock, vars
<1> QED
  BY <1>1, <1>2, <1>3 DEF Next, Step

\* The identity of the host on disk is completed and never replaced.
THEOREM IdentityNeverReplaced == Spec => IdentityStable
<1>1. IInv /\ [Next]_vars =>
        [disk # NoState =>
           /\ disk' # NoState
           /\ disk'.server = disk.server /\ disk'.regId = disk.regId
           /\ disk.hash # None => disk'.hash = disk.hash
           /\ disk.secret # None => disk'.secret # None]_vars
  <2> SUFFICES ASSUME IInv, [Next]_vars, disk # NoState
               PROVE  disk' # NoState /\ Extends(disk', disk)
    BY DEF Extends
  <2>1. CASE disk' = disk
    BY <2>1 DEF Extends
  <2>2. ASSUME NEW p \in Proc, pc[p] \in {"reserve", "record", "final"}, disk' = mem[p]
        PROVE  disk' # NoState /\ Extends(disk', disk)
    BY <2>2, NoStateAssumption DEF IInv, Local, Held, Keeps
  <2> QED
    BY <2>1, <2>2, OnlySavesWrite
<1> QED
  BY <1>1, Invariance, PTL DEF Spec, IdentityStable

\* Only a register command takes a halt off the disk, before its request and with the
\* hold of that request in the same save.
THEOREM HaltIsLiftedByRegister == Spec => HaltHolds
<1>1. IInv /\ [Next]_vars =>
        [disk # NoState /\ disk.gate.halted /\ ~disk'.gate.halted =>
           \E p \in Proc : /\ cmd[p] = "register" /\ pc[p] = "reserve"
                            /\ HoldCovers(disk'.gate, due[p])]_vars
  <2> SUFFICES ASSUME IInv, [Next]_vars, disk # NoState, disk.gate.halted, ~disk'.gate.halted
               PROVE  \E p \in Proc : /\ cmd[p] = "register" /\ pc[p] = "reserve"
                                       /\ HoldCovers(disk'.gate, due[p])
    OBVIOUS
  <2>1. PICK p \in Proc : pc[p] \in {"reserve", "record", "final"} /\ disk' = mem[p]
    BY OnlySavesWrite
  <2>2. cmd[p] = "register" /\ pc[p] = "reserve"
    BY <2>1 DEF IInv, Local, HaltKept
  <2>3. HoldCovers(mem[p].gate, due[p])
    BY <2>2 DEF IInv, Local, Covered
  <2> QED
    BY <2>1, <2>2, <2>3
<1> QED
  BY <1>1, Invariance, PTL DEF Spec, HaltHolds

-----------------------------------------------------------------------------
(***************************************************************************)
(* The schedule: no attempt before the promise of the hold on disk has     *)
(* passed, for every number of processes, every jitter, answer and         *)
(* Retry-After, and however the wall clock is stepped.                     *)
(*                                                                         *)
(* The promise is in true time and the hold in wall time, so the argument  *)
(* has two halves.  The hold on disk covers the promise it was saved for   *)
(* at the wall clock of that moment, whatever saturates (OwedHeld, Kept).  *)
(* The process that saved it goes on with a monotonic gate that reaches    *)
(* the promise by itself, or with a hold at the end of time that no wall   *)
(* clock reaches (Inside) -- unless the clock was moved forward between    *)
(* the answer and the gate, which reads the wall clock after the save: the *)
(* promise is then no longer its own (owed.by), and the gate may be short. *)
(***************************************************************************)

\* The hold on disk is the one the promise was made for.
OwedHeld ==
  /\ disk = NoState => owed.until = 0
  /\ disk # NoState => HoldCovers(disk.gate, owed)

\* So is the one that is about to be saved.
Kept(p) ==
  /\ pc[p] = "record" => HoldCovers(mem[p].gate, due[p])
  /\ pc[p] = "final" => HoldCovers(mem[p].gate, owed)

\* Inside the process that made the promise a clock moved after the save does not count.
Inside(p) ==
  owed.by = p =>
    /\ pc[p] \in {"loop", "claim", "reserve"}
    /\ pc[p] = "loop" => mono[p] >= owed.until \/ mem[p].gate.notBefore >= MaxWall

Schedule == OwedHeld /\ \A p \in Proc : Kept(p) /\ Inside(p)

\* The inductive invariant.
SInv == IInv /\ Schedule

-----------------------------------------------------------------------------
(* Holds and promises *)

\* A gate that holds at least as long covers the promise as well.
LEMMA CoversLonger ==
  ASSUME NEW g \in Gates, NEW next \in Gates, NEW promise \in [until : Nat, off : Int],
         HoldCovers(g, promise), next.notBefore >= g.notBefore
  PROVE  HoldCovers(next, promise)
<1>1. g.notBefore \in Int /\ next.notBefore \in Int /\ MaxWall \in Int
  BY GateAssumption DEF Gates
<1>2. MinOf(MaxWall, promise.until + promise.off) \in Int
  BY <1>1 DEF MinOf
<1> QED
  BY <1>1, <1>2 DEF HoldCovers

\* The normal cadence is at least the interval away, or at the end of time.
LEMMA SuccessHold ==
  ASSUME NEW g \in Gates, NEW wall \in Nat, NEW next \in Success(g, wall)
  PROVE  next.notBefore >= MinOf(MaxWall, wall + Interval(g))
<1> DEFINE clear == [g EXCEPT !.failures = 0]
<1>1. clear \in Gates /\ Interval(clear) = Interval(g)
  BY GateAssumption DEF Gates, Interval
<1>2. PICK j \in 0..MinOf(JitterMax, Interval(clear) \div ReserveShare) :
        next = [clear EXCEPT !.notBefore = SatAdd(wall, Interval(clear) + j)]
  BY DEF Success, Reserve
<1>3. next.notBefore = SatAdd(wall, Interval(g) + j)
  BY <1>1, <1>2 DEF Gates
<1>4. Interval(g) \in Nat /\ j \in Nat
  BY IntervalType
<1> HIDE DEF clear
<1> QED
  BY <1>3, <1>4, GateAssumption DEF SatAdd, MinOf

\* Whatever the answer, the hold it leaves covers what it promises.
LEMMA AnswerCovers ==
  ASSUME IInv, NEW p \in Proc, NEW g \in Gates, NEW next \in Gates, NEW retry \in Nat,
         NEW result \in {"Accepted", "Retry", "Halt", "Discard"}, HoldCovers(g, due[p]),
         result = "Retry" => next \in Failure(g, Wall, retry),
         result = "Halt" => next.notBefore = g.notBefore,
         result \notin {"Retry", "Halt"} => next \in Success(g, Wall)
  PROVE  HoldCovers(next, Promise(p, g, result, retry))
<1>1. /\ due[p] \in [until : Nat, off : Int] /\ due[p].until \in Nat /\ due[p].off \in Int
      /\ now \in Nat /\ off \in Int /\ Wall \in Nat /\ Wall = now + off /\ MaxWall \in Nat
  BY WallType, GateAssumption DEF IInv, TypeOK, Promises, Wall
<1>2. Interval(g) \in Nat /\ g.notBefore \in Nat /\ next.notBefore \in Nat
  BY IntervalType DEF Gates
<1>3. CASE result = "Retry"
  <2>1. /\ next.notBefore >= g.notBefore
        /\ next.notBefore >= MinOf(MaxWall, Wall + MaxOf(retry, Interval(g)))
    BY <1>1, <1>3, FailureHold
  <2>2. Promise(p, g, result, retry) =
          [until |-> MaxOf(due[p].until, now + MaxOf(retry, Interval(g))),
           off |-> MinOf(due[p].off, off)]
    BY <1>3 DEF Promise
  <2>3. g.notBefore >= MinOf(MaxWall, due[p].until + due[p].off)
    BY DEF HoldCovers
  <2>4. next.notBefore >=
          MinOf(MaxWall, MaxOf(due[p].until, now + MaxOf(retry, Interval(g))) + MinOf(due[p].off, off))
    BY <1>1, <1>2, <2>1, <2>3 DEF MaxOf, MinOf
  <2> QED
    BY <2>2, <2>4 DEF HoldCovers
<1>4. CASE result = "Halt"
  BY <1>2, <1>4 DEF Promise, HoldCovers
<1>5. CASE result \notin {"Retry", "Halt"}
  <2>1. next.notBefore >= MinOf(MaxWall, Wall + Interval(g))
    BY <1>1, <1>5, SuccessHold
  <2>2. Promise(p, g, result, retry) = [until |-> now + Interval(g), off |-> off]
    BY <1>5 DEF Promise
  <2>3. (now + Interval(g)) + off = Wall + Interval(g)
    BY <1>1, <1>2
  <2> QED
    BY <2>1, <2>2, <2>3 DEF HoldCovers
<1> QED
  BY <1>3, <1>4, <1>5

\* Measured again, the hold is a monotonic gate that reaches the promise when the wall clock
\* is not ahead of the one the promise was made at.
LEMMA MonoReaches ==
  ASSUME IInv, NEW g \in Gates, NEW promise \in [until : Nat, off : Int],
         HoldCovers(g, promise), off <= promise.off
  PROVE  MonoGate(g) >= promise.until \/ g.notBefore >= MaxWall
<1>1. now \in Nat /\ off \in Int /\ g.notBefore \in Nat /\ MaxWall \in Nat
  BY GateAssumption DEF IInv, TypeOK, Gates
<1> QED
  BY <1>1 DEF HoldCovers, MonoGate, SatSub, MaxOf, MinOf, Wall

\* A wall clock that has passed the hold has passed the promise, unless it was moved.
LEMMA PassedHold ==
  ASSUME SInv, disk # NoState, disk.gate.notBefore <= Wall
  PROVE  now >= owed.until \/ off > owed.off
<1>1. /\ now \in Nat /\ off \in Int /\ MaxWall \in Nat /\ Wall = now + off /\ Wall < MaxWall
      /\ owed.until \in Nat /\ owed.off \in Int /\ disk.gate.notBefore \in Nat
  BY GateAssumption DEF SInv, IInv, TypeOK, Wall, States, Gates
<1>2. disk.gate.notBefore >= MinOf(MaxWall, owed.until + owed.off)
  BY DEF SInv, Schedule, OwedHeld, HoldCovers
<1> QED
  BY <1>1, <1>2 DEF MinOf

-----------------------------------------------------------------------------
(* The invariant *)

\* A step of one process keeps the schedule of all when it keeps its own.
LEMMA OneSchedule ==
  ASSUME SInv, NEW p \in Proc, pc[p] # "off" \/ lock = Nobody,
         \A q \in Proc \ {p} : pc'[q] = pc[q], owed'.by \in {p, Nobody, owed.by},
         OwedHeld', Kept(p)', Inside(p)'
  PROVE  Schedule'
<1> SUFFICES ASSUME NEW q \in Proc PROVE Kept(q)' /\ Inside(q)'
  BY DEF Schedule
<1>1. CASE q = p
  BY <1>1
<1>2. CASE q # p
  <2>1. pc[q] = "off" /\ pc'[q] = "off"
    BY <1>2, OthersOff DEF SInv
  <2>2. owed'.by # q
    BY <1>2, <2>1, PublisherAssumption DEF SInv, Schedule, Inside
  <2> QED
    BY <2>1, <2>2 DEF Kept, Inside
<1> QED
  BY <1>1, <1>2

\* The place of a process, for the places it goes to.
LEMMA PlaceOf ==
  ASSUME SInv, NEW p \in Proc, NEW where, pc' = [pc EXCEPT ![p] = where]
  PROVE  pc'[p] = where /\ \A q \in Proc \ {p} : pc'[q] = pc[q]
BY DEF SInv, IInv, TypeOK

\* A step that leaves file and promise alone, away from the places where a save is owed.
LEMMA QuietStep ==
  ASSUME SInv, NEW p \in Proc, pc[p] # "off" \/ lock = Nobody, NEW where,
         pc' = [pc EXCEPT ![p] = where], where \notin {"record", "final"},
         UNCHANGED <<disk, owed>>,
         where \in {"claim", "reserve"} \/ pc[p] \notin {"loop", "claim", "reserve"}
  PROVE  Schedule'
<1>1. pc'[p] = where /\ \A q \in Proc \ {p} : pc'[q] = pc[q]
  BY PlaceOf
<1>2. OwedHeld'
  BY DEF SInv, Schedule, OwedHeld, HoldCovers
<1>3. Kept(p)'
  BY <1>1 DEF Kept
<1>4. Inside(p)'
  BY <1>1 DEF SInv, Schedule, Inside
<1> QED
  BY <1>1, <1>2, <1>3, <1>4, OneSchedule

LEMMA StartSchedule ==
  ASSUME SInv, NEW p \in Proc, Start(p)
  PROVE  Schedule'
<1>1. pc[p] = "off" /\ lock = Nobody
  BY DEF Start, StartRun, StartRegister, StartConfigure, Enter, Acquire
<1>2. CASE StartRun(p)
  BY <1>1, <1>2, QuietStep DEF StartRun, Enter, ghosts
<1>3. ASSUME NEW origin \in Origin, NEW id \in RegId, NEW refresh \in BOOLEAN,
             StartRegister(p, origin, id, refresh)
      PROVE  Schedule'
  BY <1>1, <1>3, QuietStep DEF StartRegister, Enter, ghosts
<1>4. ASSUME NEW enabled \in BOOLEAN, StartConfigure(p, enabled)
      PROVE  Schedule'
  <2>1. /\ disk # NoState /\ disk \in States /\ mem'[p].gate = disk.gate
        /\ pc' = [pc EXCEPT ![p] = "final"] /\ UNCHANGED <<disk, owed>>
    BY <1>4 DEF StartConfigure, Enter, ghosts, SInv, IInv, TypeOK, States
  <2>2. pc'[p] = "final" /\ \A q \in Proc \ {p} : pc'[q] = pc[q]
    BY <2>1, PlaceOf
  <2>3. OwedHeld' /\ HoldCovers(disk.gate, owed)
    BY <2>1 DEF SInv, Schedule, OwedHeld, HoldCovers
  <2>4. Kept(p)'
    BY <2>1, <2>2, <2>3 DEF Kept, HoldCovers
  <2>5. Inside(p)'
    BY <1>1, <2>1 DEF SInv, Schedule, Inside
  <2> QED
    BY <1>1, <2>1, <2>2, <2>3, <2>4, <2>5, OneSchedule
<1> QED
  BY <1>2, <1>3, <1>4 DEF Start

LEMMA RequestSchedule ==
  ASSUME SInv, NEW p \in Proc, Arm(p) \/ Select(p) \/ Claim(p) \/ Send(p)
  PROVE  Schedule'
<1>1. CASE Arm(p)
  BY <1>1, QuietStep DEF Arm, Goto, ghosts
<1>2. CASE Select(p)
  BY <1>2, QuietStep DEF Select, Goto, ghosts
<1>3. CASE Claim(p)
  BY <1>3, QuietStep DEF Claim, Goto, ghosts
<1>4. CASE Send(p)
  BY <1>4, QuietStep DEF Send, Goto
<1> QED
  BY <1>1, <1>2, <1>3, <1>4

\* The end of a request with a hold that covers its promise.
LEMMA ResolveSchedule ==
  ASSUME SInv, NEW p \in Proc, pc[p] = "wait", NEW g \in Gates, SetGate(p, g),
         NEW promise, due' = [due EXCEPT ![p] = promise], HoldCovers(g, promise),
         Goto(p, "record"), UNCHANGED <<disk, owed>>
  PROVE  Schedule'
<1>1. pc'[p] = "record" /\ \A q \in Proc \ {p} : pc'[q] = pc[q]
  BY PlaceOf DEF Goto
<1>2. mem'[p].gate = g
  BY GateOf, SetGateType DEF SInv, IInv
<1>3. due'[p] = promise
  BY DEF SInv, IInv, TypeOK
<1>4. Kept(p)'
  BY <1>1, <1>2, <1>3 DEF Kept, HoldCovers
<1>5. OwedHeld' /\ Inside(p)'
  BY DEF SInv, Schedule, OwedHeld, Inside, HoldCovers
<1> QED
  BY <1>1, <1>4, <1>5, OneSchedule

\* While the request is on its way the hold in memory is the one on disk.
LEMMA HoldWaits ==
  ASSUME SInv, NEW p \in Proc, pc[p] = "wait"
  PROVE  mem[p].gate \in Gates /\ Wall \in Nat /\ HoldCovers(mem[p].gate, due[p])
<1>1. mem[p].gate \in Gates /\ Wall \in Nat
  BY GateOf, WallType DEF SInv, IInv
<1>2. mem[p] = disk /\ HoldCovers(disk.gate, due[p])
  BY DEF SInv, IInv, Local, Fresh, Unsaved, Covered, Requesting
<1> QED
  BY <1>1, <1>2

LEMMA AnswerSchedule ==
  ASSUME SInv, NEW p \in Proc, NEW code \in Code, NEW header \in Headers(Delay),
         NEW policy, Answer(p, code, header, policy)
  PROVE  Schedule'
<1> DEFINE g == Observed(p, policy)
           retry == RetryAfter(header, Wall)
           promise == Promise(p, g, Outcome(code), retry)
<1>1. mem[p].gate \in Gates /\ Wall \in Nat /\ HoldCovers(mem[p].gate, due[p])
  BY HoldWaits DEF Answer
<1>2. g \in Gates /\ g.notBefore = mem[p].gate.notBefore
  BY <1>1, ObserveIntervalType DEF Observed
<1>3. retry \in Nat
  BY <1>1, RetryAfterType, PublisherAssumption
<1>4. PICK next \in Status(g, code, header, Wall) : SetGate(p, next)
  BY DEF Answer
<1>5. Outcome(code) \in {"Accepted", "Retry", "Halt", "Discard"}
  BY OutcomeType
<1>6. /\ pc[p] = "wait" /\ due' = [due EXCEPT ![p] = promise]
      /\ Goto(p, "record") /\ UNCHANGED <<disk, owed>>
  BY DEF Answer, ghosts
<1>7. HoldCovers(g, due[p])
  BY <1>1, <1>2 DEF HoldCovers
<1> HIDE DEF g
<1>8. next \in Gates
  BY <1>1, <1>2, <1>4, StatusType, PublisherAssumption
<1>9. /\ Outcome(code) = "Retry" => next \in Failure(g, Wall, retry)
      /\ Outcome(code) = "Halt" => next.notBefore = g.notBefore
      /\ Outcome(code) \notin {"Retry", "Halt"} => next \in Success(g, Wall)
  BY <1>2, <1>4 DEF Status, Gates
<1> HIDE DEF retry
<1>10. HoldCovers(next, promise)
  BY <1>2, <1>3, <1>5, <1>7, <1>8, <1>9, AnswerCovers DEF SInv
<1> HIDE DEF promise
<1> QED
  BY <1>4, <1>6, <1>8, <1>10, ResolveSchedule

LEMMA NoAnswerSchedule ==
  ASSUME SInv, NEW p \in Proc, NoAnswer(p)
  PROVE  Schedule'
<1> DEFINE promise == Promise(p, mem[p].gate, "Retry", 0)
<1>1. mem[p].gate \in Gates /\ Wall \in Nat /\ HoldCovers(mem[p].gate, due[p])
  BY HoldWaits DEF NoAnswer
<1>2. PICK next \in Failure(mem[p].gate, Wall, 0) : SetGate(p, next)
  BY DEF NoAnswer
<1>3. /\ pc[p] = "wait" /\ due' = [due EXCEPT ![p] = promise]
      /\ Goto(p, "record") /\ UNCHANGED <<disk, owed>>
  BY DEF NoAnswer, ghosts
<1>4. next \in Gates
  BY <1>1, <1>2, FailureHold
<1>5. HoldCovers(next, promise)
  BY <1>1, <1>2, <1>4, AnswerCovers DEF SInv
<1> HIDE DEF promise
<1> QED
  BY <1>2, <1>3, <1>4, <1>5, ResolveSchedule

-----------------------------------------------------------------------------
(* Writing the state file *)

\* What is saved under a new promise covers it: the hold of an attempt, or of its answer.
LEMMA NewPromise ==
  ASSUME SInv, NEW p \in Proc, pc[p] \in {"reserve", "record"}, disk' = mem[p],
         NEW by, owed' = PromiseOf(p, by)
  PROVE  /\ OwedHeld' /\ owed'.by = by
         /\ owed'.until = due[p].until /\ owed'.off = due[p].off
         /\ mem[p] \in States /\ HoldCovers(mem[p].gate, due[p])
<1>1. mem[p] \in States /\ HoldCovers(mem[p].gate, due[p])
  BY GateOf DEF SInv, IInv, Local, Covered, Schedule, Kept
<1>2. owed'.by = by /\ owed'.until = due[p].until /\ owed'.off = due[p].off
  BY DEF PromiseOf
<1>3. OwedHeld'
  BY <1>1, <1>2, NoStateAssumption DEF OwedHeld, HoldCovers
<1> QED
  BY <1>1, <1>2, <1>3

\* A save under a new promise that nobody goes on with.
LEMMA SaveSchedule ==
  ASSUME SInv, NEW p \in Proc, pc[p] \in {"reserve", "record"}, disk' = mem[p],
         owed' = PromiseOf(p, Nobody), NEW where, pc' = [pc EXCEPT ![p] = where],
         where \notin {"record", "final"}
  PROVE  Schedule'
<1>1. pc'[p] = where /\ \A q \in Proc \ {p} : pc'[q] = pc[q]
  BY PlaceOf
<1>2. OwedHeld' /\ owed'.by = Nobody
  BY NewPromise
<1>3. Kept(p)' /\ Inside(p)'
  BY <1>1, <1>2, PublisherAssumption DEF Kept, Inside
<1> QED
  BY <1>1, <1>2, <1>3, OneSchedule

LEMMA SaveUploadSchedule ==
  ASSUME SInv, NEW p \in Proc, SaveUpload(p)
  PROVE  Schedule'
<1> DEFINE by == IF off <= due[p].off THEN p ELSE Nobody
<1>1. pc[p] = "record" /\ disk' = mem[p] /\ owed' = PromiseOf(p, by) /\ mem' = mem
  BY DEF SaveUpload, Save
<1>2. pc'[p] = "loop" /\ \A q \in Proc \ {p} : pc'[q] = pc[q]
  BY PlaceOf DEF SaveUpload, Goto
<1>3. mono'[p] = MonoGate(mem[p].gate)
  BY DEF SaveUpload, SInv, IInv, TypeOK
<1>4. by = p => off <= due[p].off
  BY PublisherAssumption
<1>5. by \in {p, Nobody}
  OBVIOUS
<1> HIDE DEF by
<1>6. /\ OwedHeld' /\ owed'.by = by
      /\ owed'.until = due[p].until /\ owed'.off = due[p].off
      /\ mem[p] \in States /\ HoldCovers(mem[p].gate, due[p])
  BY <1>1, NewPromise
<1>7. mem[p].gate \in Gates /\ due[p] \in [until : Nat, off : Int]
  BY <1>6 DEF SInv, IInv, TypeOK, Promises, States
<1>8. off <= due[p].off => MonoGate(mem[p].gate) >= due[p].until \/ mem[p].gate.notBefore >= MaxWall
  BY <1>6, <1>7, MonoReaches DEF SInv
<1>9. Kept(p)' /\ Inside(p)'
  BY <1>1, <1>2, <1>3, <1>4, <1>6, <1>8 DEF Kept, Inside
<1> QED
  BY <1>1, <1>2, <1>5, <1>6, <1>9, OneSchedule

\* A process that leaves takes its monotonic gate with it, and nobody's promise.
LEMMA LeaveSchedule ==
  ASSUME SInv, NEW p \in Proc, pc[p] # "off", Leave(p), UNCHANGED disk,
         owed' = owed \/ owed' = [owed EXCEPT !.by = Nobody],
         owed.by = p => owed'.by = Nobody
  PROVE  Schedule'
<1>1. pc' = [pc EXCEPT ![p] = "off"]
  BY DEF Leave
<1>2. pc'[p] = "off" /\ \A q \in Proc \ {p} : pc'[q] = pc[q]
  BY <1>1, PlaceOf
<1>3. owed'.until = owed.until /\ owed'.off = owed.off /\ owed'.by \in {owed.by, Nobody}
  BY DEF SInv, IInv, TypeOK
<1>4. OwedHeld'
  BY <1>3 DEF SInv, Schedule, OwedHeld, HoldCovers
<1>5. Kept(p)' /\ Inside(p)'
  BY <1>2, <1>3, PublisherAssumption DEF Kept, Inside
<1> QED
  BY <1>2, <1>3, <1>4, <1>5, OneSchedule

\* The last save of register and configure leaves the hold that is there.
LEMMA FinalSchedule ==
  ASSUME SInv, NEW p \in Proc, pc[p] = "final", disk' = mem[p], Leave(p), UNCHANGED owed
  PROVE  Schedule'
<1>1. pc' = [pc EXCEPT ![p] = "off"] /\ mem[p] \in States
  BY GateOf DEF Leave, SInv
<1>2. pc'[p] = "off" /\ \A q \in Proc \ {p} : pc'[q] = pc[q]
  BY <1>1, PlaceOf
<1>3. OwedHeld'
  BY <1>1, NoStateAssumption DEF SInv, Schedule, Kept, OwedHeld, HoldCovers
<1>4. Kept(p)' /\ Inside(p)'
  BY <1>2 DEF SInv, Schedule, Kept, Inside
<1> QED
  BY <1>2, <1>3, <1>4, OneSchedule

LEMMA WriteSchedule ==
  ASSUME SInv, NEW p \in Proc, Write(p)
  PROVE  Schedule'
<1>1. CASE SaveHold(p)
  BY <1>1, SaveSchedule DEF SaveHold, Save, Goto
<1>2. CASE SaveUpload(p)
  BY <1>2, SaveUploadSchedule
<1>3. CASE SaveRegistration(p)
  <2>1. CASE outcome[p] = "Accepted"
    BY <1>3, <2>1, SaveSchedule DEF SaveRegistration, Save, Goto
  <2>2. CASE outcome[p] # "Accepted"
    BY <1>3, <2>2, SaveSchedule DEF SaveRegistration, Save, Leave
  <2> QED
    BY <2>1, <2>2
<1>4. CASE SaveFinal(p)
  BY <1>4, FinalSchedule DEF SaveFinal, Save
<1> QED
  BY <1>1, <1>2, <1>3, <1>4 DEF Write

LEMMA WriteErrorSchedule ==
  ASSUME SInv, NEW p \in Proc, WriteError(p)
  PROVE  Schedule'
<1>1. Leave(p) /\ pc' = [pc EXCEPT ![p] = "off"] /\ pc[p] \in {"reserve", "record", "final"}
  BY DEF WriteError, Leave
<1>2. CASE UNCHANGED <<disk, refused>> /\ owed' = [owed EXCEPT !.by = Nobody]
  BY <1>1, <1>2, LeaveSchedule DEF SInv, IInv, TypeOK
<1>3. CASE /\ disk' = mem[p]
           /\ owed' = IF pc[p] = "final" THEN owed ELSE PromiseOf(p, Nobody)
  <2>1. CASE pc[p] = "final"
    BY <1>1, <1>3, <2>1, FinalSchedule
  <2>2. CASE pc[p] # "final"
    BY <1>1, <1>3, <2>2, SaveSchedule
  <2> QED
    BY <2>1, <2>2
<1> QED
  BY <1>2, <1>3 DEF WriteError

-----------------------------------------------------------------------------
(* The body, the ends and the environment *)

\* The body changes a halt and the credentials, never the hold.
LEMMA ExamineSchedule ==
  ASSUME SInv, NEW p \in Proc, Examine(p)
  PROVE  Schedule'
<1>1. pc[p] = "body" /\ mem[p] \in States /\ mem[p] = disk /\ disk # NoState
  BY NoStateAssumption DEF Examine, RefuseBody, AcceptBody, AbandonBody, SInv, IInv, Local, Held,
     Fresh, Unsaved
<1>2. HoldCovers(mem[p].gate, owed) /\ owed.by # p
  BY <1>1 DEF SInv, Schedule, OwedHeld, Inside
<1>3. ASSUME NEW body \in Bodies, RefuseBody(p, body) \/ AcceptBody(p, body)
      PROVE  Schedule'
  <2>1. pc' = [pc EXCEPT ![p] = "final"] /\ UNCHANGED <<disk, owed>>
    BY <1>3 DEF RefuseBody, AcceptBody, Goto, ghosts
  <2>2. pc'[p] = "final" /\ \A q \in Proc \ {p} : pc'[q] = pc[q]
    BY <2>1, PlaceOf
  <2>3. mem'[p].gate.notBefore = mem[p].gate.notBefore
    BY <1>1, <1>3 DEF RefuseBody, AcceptBody, SetGate, SInv, IInv, TypeOK, States, Gates
  <2>4. OwedHeld'
    BY <2>1 DEF SInv, Schedule, OwedHeld, HoldCovers
  <2>5. Kept(p)' /\ Inside(p)'
    BY <1>2, <2>1, <2>2, <2>3 DEF Kept, Inside, HoldCovers
  <2> QED
    BY <1>1, <2>1, <2>2, <2>4, <2>5, OneSchedule
<1>4. CASE AbandonBody(p)
  BY <1>1, <1>2, <1>4, LeaveSchedule DEF AbandonBody, ghosts
<1> QED
  BY <1>3, <1>4 DEF Examine

LEMMA EndSchedule ==
  ASSUME SInv, NEW p \in Proc, Kill(p) \/ StopRun(p)
  PROVE  Schedule'
<1>1. /\ pc[p] # "off" /\ Leave(p) /\ UNCHANGED disk
      /\ owed' = IF owed.by = p THEN [owed EXCEPT !.by = Nobody] ELSE owed
  BY DEF Kill, StopRun
<1>2. owed.by = p => owed'.by = Nobody
  BY <1>1 DEF SInv, IInv, TypeOK
<1> QED
  BY <1>1, <1>2, LeaveSchedule

\* Neither time nor a stepped clock touches a hold, a promise or a monotonic gate.
LEMMA ClockSchedule ==
  ASSUME SInv, \/ Tick
               \/ \E offset \in Offset : StepClock(offset)
               \/ UNCHANGED vars
  PROVE  Schedule'
<1>1. UNCHANGED <<disk, pc, mem, mono, due, owed>>
  BY DEF Tick, StepClock, vars, ghosts
<1> QED
  BY <1>1 DEF SInv, Schedule, OwedHeld, Kept, Inside, HoldCovers

LEMMA ScheduleKept == SInv /\ [Next]_vars => Schedule'
<1> SUFFICES ASSUME SInv, [Next]_vars PROVE Schedule'
  OBVIOUS
<1>1. ASSUME NEW p \in Proc, Start(p) \/ StopRun(p) \/ Kill(p) \/ WriteError(p)
      PROVE  Schedule'
  BY <1>1, StartSchedule, EndSchedule, WriteErrorSchedule
<1>2. ASSUME NEW p \in Proc, Step(p) PROVE Schedule'
  BY <1>2, RequestSchedule, AnswerSchedule, NoAnswerSchedule, WriteSchedule, ExamineSchedule
  DEF Step, Resolve
<1>3. CASE Tick \/ (\E offset \in Offset : StepClock(offset)) \/ UNCHANGED vars
  BY <1>3, ClockSchedule
<1> QED
  BY <1>1, <1>2, <1>3 DEF Next

LEMMA ScheduleStarts == Init => Schedule
BY PublisherAssumption DEF Init, Schedule, OwedHeld, Kept, Inside

LEMMA ScheduleInvariance == Spec => []SInv
<1>1. Init => SInv
  BY InitHolds, ScheduleStarts DEF SInv
<1>2. SInv /\ [Next]_vars => SInv'
  BY NextKeeps, ScheduleKept DEF SInv
<1> QED
  BY <1>1, <1>2, PTL DEF Spec

-----------------------------------------------------------------------------
(* The theorems *)

\* An attempt is an upload that was chosen or a registration that was started.
LEMMA AttemptsAre ==
  ASSUME SInv, [Next]_vars, NEW p \in Proc, Attempts(p)
  PROVE  Select(p) \/ \E origin \in Origin, id \in RegId, refresh \in BOOLEAN :
                        StartRegister(p, origin, id, refresh)
<1>1. pc \in [Proc -> Places] /\ pc[p] # "claim" /\ pc'[p] = "claim"
  BY DEF SInv, IInv, TypeOK, Attempts
<1>2. ASSUME NEW q \in Proc, NEW where, pc' = [pc EXCEPT ![q] = where], where # "claim"
      PROVE  FALSE
  BY <1>1, <1>2
<1>3. ASSUME NEW q \in Proc, StartRun(q) \/ \E enabled \in BOOLEAN : StartConfigure(q, enabled)
      PROVE  FALSE
  BY <1>2, <1>3 DEF StartRun, StartConfigure, Enter
<1>4. ASSUME NEW q \in Proc, Arm(q) \/ Claim(q) \/ Send(q) \/ Resolve(q)
      PROVE  FALSE
  BY <1>2, <1>4 DEF Arm, Claim, Send, Resolve, Answer, NoAnswer, Goto
<1>5. ASSUME NEW q \in Proc, Write(q) \/ WriteError(q) \/ StopRun(q) \/ Kill(q)
      PROVE  FALSE
  BY <1>2, <1>5 DEF Write, SaveHold, SaveUpload, SaveRegistration, SaveFinal, WriteError, StopRun,
     Kill, Leave, Goto
<1>6. ASSUME NEW q \in Proc, Examine(q)
      PROVE  FALSE
  BY <1>2, <1>6 DEF Examine, RefuseBody, AcceptBody, AbandonBody, Leave, Goto
<1>7. CASE Tick \/ (\E offset \in Offset : StepClock(offset)) \/ UNCHANGED vars
  BY <1>1, <1>7 DEF Tick, StepClock, vars
<1>8. ASSUME NEW q \in Proc, q # p,
             Select(q) \/ \E origin \in Origin, id \in RegId, refresh \in BOOLEAN :
                            StartRegister(q, origin, id, refresh)
      PROVE  FALSE
  BY <1>1, <1>8 DEF Select, StartRegister, Enter, Goto
<1> QED
  BY <1>3, <1>4, <1>5, <1>6, <1>7, <1>8 DEF Next, Start, Step

\* No attempt starts before true time has passed what the hold on disk was taken for, by any
\* command and across crashes and restarts; only a wall clock moved forward since can cut it
\* short.  For the process that took the hold only a move before its save counts: from there it
\* waits by mono_gate, which deadline computes from the wall clock after the save (publisher.rs).
THEOREM AttemptsWait == Spec => NoEarlyAttempt
<1>1. SInv /\ [Next]_vars =>
        [\A p \in Proc : Attempts(p) =>
           \/ now >= owed.until
           \/ off > owed.off /\ owed.by # p]_vars
  <2> SUFFICES ASSUME SInv, [Next]_vars, NEW p \in Proc, Attempts(p)
               PROVE  now >= owed.until \/ (off > owed.off /\ owed.by # p)
    OBVIOUS
  <2>1. CASE Select(p)
    <3>1. /\ pc[p] = "loop" /\ mem[p] = disk /\ disk # NoState
          /\ disk.gate.notBefore <= Wall /\ now >= mono[p]
      BY <2>1, NoStateAssumption, GateOf
      DEF Select, Ready, SInv, IInv, Local, Held, Fresh, Unsaved, States, Gates
    <3>2. ~(disk.gate.notBefore >= MaxWall)
      BY <3>1, GateAssumption DEF SInv, IInv, TypeOK, States, Gates
    <3>3. owed.by = p => mono[p] >= owed.until
      BY <3>1, <3>2 DEF SInv, Schedule, Inside
    <3>4. owed.by = p => now >= owed.until
      BY <3>1, <3>3 DEF SInv, IInv, TypeOK
    <3> QED
      BY <3>1, <3>4, PassedHold
  <2>2. ASSUME NEW origin \in Origin, NEW id \in RegId, NEW refresh \in BOOLEAN,
               StartRegister(p, origin, id, refresh)
        PROVE  now >= owed.until \/ (off > owed.off /\ owed.by # p)
    <3>1. owed.by # p
      BY <2>2 DEF StartRegister, Enter, Acquire, SInv, Schedule, Inside
    <3>2. CASE disk = NoState
      BY <3>2 DEF SInv, Schedule, OwedHeld, IInv, TypeOK
    <3>3. CASE disk # NoState
      BY <2>2, <3>1, <3>3, PassedHold DEF StartRegister, Registration
    <3> QED
      BY <3>2, <3>3
  <2> QED
    BY <2>1, <2>2, AttemptsAre
<1> QED
  BY <1>1, ScheduleInvariance, PTL DEF Spec, NoEarlyAttempt
=============================================================================
