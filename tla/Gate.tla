-------------------------------- MODULE Gate --------------------------------
(***************************************************************************)
(* The upload gate of crates/reporting/src/backoff.rs: the schedule that   *)
(* decides when the publisher may make its next network request.  The gate *)
(* is pure data; its operations are operators from a gate to the set of    *)
(* gates the random jitter allows.                                         *)
(*                                                                         *)
(* Times are ticks of the wall clock.  The literals of the source are      *)
(* constants here, in ticks:                                               *)
(*   60_000 ms         one tick: MinInterval, BackoffUnit and JitterMax    *)
(*   14_400 s          MaxInterval           300_000 ms   Uncertainty      *)
(*   3_600_000 ms      BackoffCap            u64::MAX     MaxWall          *)
(***************************************************************************)
EXTENDS Integers

CONSTANTS
  MinInterval,    \* shortest server-directed interval
  MaxInterval,    \* longest server-directed interval
  Uncertainty,    \* least hold persisted before a request
  JitterMax,      \* upper bound of every random addition
  ReserveShare,   \* the normal cadence adds up to interval / ReserveShare
  FailureShare,   \* a failure adds up to floor / FailureShare
  BackoffUnit,    \* the first step of the exponential backoff
  BackoffShift,   \* the exponent stops growing here
  BackoffCap,     \* ceiling of the exponential backoff
  MaxFailures,    \* u32::MAX, where the failure counter saturates
  MaxWall,        \* u64::MAX, the largest time in milliseconds
  NoHeader        \* a response header that is absent or cannot be read

ASSUME GateAssumption ==
  /\ MinInterval \in Nat \ {0}
  /\ MaxInterval \in Nat /\ MinInterval <= MaxInterval
  /\ Uncertainty \in Nat /\ JitterMax \in Nat
  /\ ReserveShare \in Nat \ {0} /\ FailureShare \in Nat \ {0}
  /\ BackoffUnit \in Nat /\ BackoffShift \in Nat /\ BackoffCap \in Nat
  /\ MaxFailures \in Nat /\ MaxWall \in Nat
  /\ NoHeader \notin Int

MinOf(a, b) == IF a <= b THEN a ELSE b
MaxOf(a, b) == IF a >= b THEN a ELSE b
\* A fault: an addition that does not saturate.
SatAddWide(a, b) == a + b

\* u64::saturating_add and u64::saturating_sub.
SatAdd(a, b) == MinOf(MaxWall, a + b)
SatSub(a, b) == MaxOf(0, a - b)

\* The gate as it is stored in state.json.  The interval of a stored gate may
\* be any number: only its uses are clamped.
Gates == [failures : 0..MaxFailures, notBefore : 0..MaxWall, halted : BOOLEAN, interval : Nat]

FreshGate == [failures |-> 0, notBefore |-> 0, halted |-> FALSE, interval |-> MinInterval]

Interval(g) == MaxOf(MinInterval, MinOf(g.interval, MaxInterval))

\* A valid interval header replaces the policy, any other leaves it alone.
ObserveInterval(g, header) ==
  IF header \in MinInterval..MaxInterval THEN [g EXCEPT !.interval = header] ELSE g
\* A fault: a gate that forgets the halt.
ReadyHalted(g, wall) == wall >= g.notBefore

Ready(g, wall) == ~g.halted /\ wall >= g.notBefore

\* The normal cadence after an accepted or discarded batch.
Reserve(g, wall) ==
  {[g EXCEPT !.notBefore = SatAdd(wall, Interval(g) + j)] :
     j \in 0..MinOf(JitterMax, Interval(g) \div ReserveShare)}
\* A fault: the attempt reserves the normal interval alone.
ReserveAttemptShort(g, wall) ==
  {[g EXCEPT !.notBefore = SatAdd(wall, Interval(g) + j)] : j \in 0..JitterMax}

\* The uncertainty hold, taken before the request whose fate a crash may hide.
ReserveAttempt(g, wall) ==
  {[g EXCEPT !.notBefore = SatAdd(wall, MaxOf(Interval(g), Uncertainty) + j)] :
     j \in 0..JitterMax}

Success(g, wall) == Reserve([g EXCEPT !.failures = 0], wall)

\* Exponential backoff.  Retry-After and the interval are floors under it and
\* a hold already taken is never shortened.
BackoffCeiling(failures) ==
  MinOf(BackoffCap, BackoffUnit * 2 ^ MinOf(failures, BackoffShift))
\* A fault: Retry-After cut to the ceiling of the local backoff.
FailureCapped(g, wall, retry) ==
  LET failures == MinOf(g.failures + 1, MaxFailures)
      Floor(local) == MaxOf(MaxOf(local, MinOf(retry, BackoffCap)), Interval(g))
  IN  {[g EXCEPT !.failures  = failures,
                 !.notBefore = MaxOf(g.notBefore, SatAdd(wall, Floor(local)))] :
         local \in BackoffUnit..BackoffCeiling(failures)}

Failure(g, wall, retry) ==
  LET failures == MinOf(g.failures + 1, MaxFailures)
      Floor(local) == MaxOf(MaxOf(local, retry), Interval(g))
      After(local, j) == SatAdd(SatAdd(wall, Floor(local)), j)
  IN  UNION {{[g EXCEPT !.failures = failures,
                        !.notBefore = MaxOf(g.notBefore, After(local, j))] :
                j \in 0..MinOf(JitterMax, Floor(local) \div FailureShare)} :
             local \in BackoffUnit..BackoffCeiling(failures)}

-----------------------------------------------------------------------------
\* Retry-After: a number of seconds, or a date that is measured against the
\* local clock and against the server's Date header (the local clock stands in
\* for a missing one); the longer of the two delays counts.
Headers(T) == {[kind |-> "none"]} \cup [kind : {"seconds"}, value : T]
                \cup [kind : {"date"}, value : T, server : T \cup {NoHeader}]

RetryAfter(header, wall) ==
  CASE header.kind = "seconds" -> MinOf(MaxWall, header.value)
    [] header.kind = "date" ->
         LET server == IF header.server = NoHeader THEN wall ELSE header.server
         IN  MaxOf(SatSub(header.value, wall), SatSub(header.value, server))
    [] OTHER -> 0

Outcome(code) ==
  CASE code \in 200..299 -> "Accepted"
    [] code \in {408, 429} \cup 500..599 -> "Retry"
    [] code \in {401, 403, 404, 405, 410, 415, 426} \cup 300..399 -> "Halt"
    [] OTHER -> "Discard"

\* The gates a response may leave behind.
Status(g, code, header, wall) ==
  CASE Outcome(code) = "Retry" -> Failure(g, wall, RetryAfter(header, wall))
    [] Outcome(code) = "Halt"  -> {[g EXCEPT !.halted = TRUE]}
    [] OTHER                   -> Success(g, wall)
=============================================================================
