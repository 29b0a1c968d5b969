------------------------------- MODULE Uplink -------------------------------
(***************************************************************************)
(* `lens-publisher run` as a process of two threads that share a queue     *)
(* (crates/reporting/src/publisher.rs): the reader thread fills the queue  *)
(* from the FIFO, the main thread uploads batches from it, and either      *)
(* failing must end both.                                                  *)
(*                                                                         *)
(* The schedule is in Publisher; here the gate is open or not as it likes. *)
(* The reports the FIFO delivers are any reports, in any order.            *)
(***************************************************************************)
EXTENDS Ring

CONSTANTS
  Report,      \* the reports that may arrive: [id, collected, size]
  Offset,      \* differences between the wall clock and true time
  Horizon      \* bound on true time

ASSUME UplinkAssumption ==
  /\ \A r \in Report : r.collected \in Nat /\ r.size \in Nat \ {0}
  /\ Offset \subseteq Int /\ 0 \in Offset /\ Horizon \in Nat

VARIABLES
  now, off,   \* true time, which the monotonic clock follows; wall = now + off
  stop,       \* the stop flag
  main,       \* the main thread
  thread,     \* the reader thread: read, push, done or failed
  inbox,      \* the reports of its last read
  rwall,      \* the wall time it took before that read
  queue,      \* the ring both threads share
  batch,      \* the batch the main thread is uploading
  answer,     \* the outcome of the upload
  slow,       \* whether the interval is above one minute
  halted,     \* gate.halted
  stored      \* ghost: ids of reports the server has acknowledged

clock == <<now, off>>
vars == <<now, off, stop, main, thread, inbox, rwall, queue, batch, answer,
          slow, halted, stored>>

Wall == now + off

InBatch == {batch[i].id : i \in DOMAIN batch}

Init ==
  /\ now = 0 /\ off \in Offset /\ Wall >= 0
  /\ stop = FALSE /\ main = "loop" /\ thread = "read"
  /\ inbox = <<>> /\ rwall = 0 /\ queue = <<>> /\ batch = <<>>
  /\ answer = "none" /\ slow = FALSE /\ halted = FALSE /\ stored = {}

-----------------------------------------------------------------------------
(* The reader thread *)

\* A read takes valid reports, several at once when they were waiting.
ReadReports(reports) ==
  /\ thread = "read" /\ ~stop
  /\ \A i \in DOMAIN reports : Valid(reports[i], Wall)
  /\ thread' = "push" /\ inbox' = reports /\ rwall' = Wall
  /\ UNCHANGED <<clock, stop, main, queue, batch, answer, slow, halted, stored>>

\* The ring after each number of pushes.
PushEach(ring, reports, wall, mono) ==
  LET pushed[n \in 0..Len(reports)] ==
        IF n = 0 THEN ring ELSE Push(pushed[n - 1], reports[n], wall, mono)
  IN  pushed

PushAll(ring, reports, wall, mono) == PushEach(ring, reports, wall, mono)[Len(reports)]

\* Under the lock: prune, then prepare and push each report.  The clock is the
\* one read before; monotonic time is the present.
PushReports ==
  /\ thread = "push"
  /\ queue' = PushAll(Prune(queue, rwall, now), inbox, rwall, now)
  /\ thread' = "read" /\ inbox' = <<>> /\ rwall' = 0
  /\ UNCHANGED <<clock, stop, main, batch, answer, slow, halted, stored>>

\* open, read or prepare_upload fails: the thread ends with an error.
FailReader ==
  /\ thread \in {"read", "push"}
  /\ thread' = "failed" /\ inbox' = <<>> /\ rwall' = 0
  /\ UNCHANGED <<clock, stop, main, queue, batch, answer, slow, halted, stored>>

EndReader ==
  /\ thread = "read" /\ stop
  /\ thread' = "done"
  /\ UNCHANGED <<clock, stop, main, inbox, rwall, queue, batch, answer, slow, halted, stored>>

ReaderFinished == thread \in {"done", "failed"}

-----------------------------------------------------------------------------
(* The main thread *)
\* A fault: the loop looks at the stop flag alone.
LeaveLoopOnStop ==
  /\ main = "loop" /\ stop
  /\ main' = "join" /\ stop' = TRUE
  /\ UNCHANGED <<clock, thread, inbox, rwall, queue, batch, answer, slow, halted, stored>>

\* The top of the loop: the stop flag, then the reader, end it.
LeaveLoop ==
  /\ main = "loop" /\ (stop \/ ReaderFinished)
  /\ main' = "join" /\ stop' = TRUE
  /\ UNCHANGED <<clock, thread, inbox, rwall, queue, batch, answer, slow, halted, stored>>

\* The gate is open: choose under the lock, and go on if there is anything.
Select ==
  LET kept == Prune(queue, Wall, now)
      chosen == IF slow THEN Latest(kept) ELSE Batch(kept)
  IN
  /\ main = "loop" /\ ~stop /\ ~ReaderFinished /\ ~halted
  /\ queue' = kept /\ batch' = chosen
  /\ main' = IF chosen = <<>> THEN "loop" ELSE "reserve"
  /\ UNCHANGED <<clock, stop, thread, inbox, rwall, answer, slow, halted, stored>>

\* write_state of the uncertainty hold.
SaveHold ==
  /\ main = "reserve"
  /\ main' = "send"
  /\ UNCHANGED <<clock, stop, thread, inbox, rwall, queue, batch, answer, slow, halted, stored>>

Send ==
  /\ main = "send"
  /\ main' = "wait"
  /\ UNCHANGED <<clock, stop, thread, inbox, rwall, queue, batch, answer, slow, halted, stored>>

\* The answer; an accepted batch is stored.  A lost answer leaves it open
\* whether the server stored it.
Answer(outcome, policy) ==
  /\ main = "wait"
  /\ answer' = outcome /\ slow' = policy
  /\ halted' = (halted \/ outcome = "Halt")
  /\ stored' = IF outcome = "Accepted" THEN stored \cup InBatch ELSE stored
  /\ main' = "record"
  /\ UNCHANGED <<clock, stop, thread, inbox, rwall, queue, batch>>

NoAnswer ==
  /\ main = "wait"
  /\ answer' = "Retry"
  /\ stored' \in {stored, stored \cup InBatch}
  /\ main' = "record"
  /\ UNCHANGED <<clock, stop, thread, inbox, rwall, queue, batch, slow, halted>>
\* A fault: an accepted batch stays in the queue.
SaveAnswerKeeps ==
  /\ main = "record"
  /\ main' = IF answer = "Discard" THEN "remove" ELSE "loop"
  /\ batch' = IF answer = "Discard" THEN batch ELSE <<>>
  /\ answer' = "none"
  /\ UNCHANGED <<clock, stop, thread, inbox, rwall, queue, slow, halted, stored>>

\* write_state of the answer; what was settled leaves the queue.
SaveAnswer ==
  /\ main = "record"
  /\ main' = IF answer \in {"Accepted", "Discard"} THEN "remove" ELSE "loop"
  /\ batch' = IF answer \in {"Accepted", "Discard"} THEN batch ELSE <<>>
  /\ answer' = "none"
  /\ UNCHANGED <<clock, stop, thread, inbox, rwall, queue, slow, halted, stored>>

RemoveSettled ==
  /\ main = "remove"
  /\ queue' = RemoveBatch(queue, batch) /\ batch' = <<>>
  /\ main' = "loop"
  /\ UNCHANGED <<clock, stop, thread, inbox, rwall, answer, slow, halted, stored>>

\* write_state fails: publishing ends.
FailWrite ==
  /\ main \in {"reserve", "record"}
  /\ main' = "join" /\ stop' = TRUE /\ batch' = <<>> /\ answer' = "none"
  /\ UNCHANGED <<clock, thread, inbox, rwall, queue, slow, halted, stored>>

\* The reader is joined; the process ends with the first error of the two.
Join ==
  /\ main = "join" /\ ReaderFinished
  /\ main' = "exited"
  /\ UNCHANGED <<clock, stop, thread, inbox, rwall, queue, batch, answer, slow, halted, stored>>

-----------------------------------------------------------------------------
(* The environment *)

\* SIGTERM or SIGINT.
Signal ==
  /\ ~stop /\ main # "exited"
  /\ stop' = TRUE
  /\ UNCHANGED <<clock, main, thread, inbox, rwall, queue, batch, answer, slow, halted, stored>>

Tick ==
  /\ now < Horizon
  /\ now' = now + 1
  /\ UNCHANGED <<off, stop, main, thread, inbox, rwall, queue, batch, answer, slow, halted, stored>>

StepClock(offset) ==
  /\ offset # off /\ now + offset >= 0
  /\ off' = offset
  /\ UNCHANGED <<now, stop, main, thread, inbox, rwall, queue, batch, answer, slow, halted, stored>>

\* One report, or two that were waiting.
Arrivals == {<<r>> : r \in Report} \cup {<<r, s>> : r, s \in Report}

ReaderStep == PushReports \/ FailReader \/ EndReader \/ \E a \in Arrivals : ReadReports(a)

Resolve ==
  \/ NoAnswer
  \/ \E outcome \in {"Accepted", "Retry", "Halt", "Discard"}, policy \in BOOLEAN :
       Answer(outcome, policy)

\* What the main thread does without waiting for the gate or for reports.
MainProgress ==
  LeaveLoop \/ SaveHold \/ Send \/ Resolve \/ SaveAnswer \/ RemoveSettled \/ Join

Next ==
  \/ ReaderStep \/ MainProgress \/ Select \/ FailWrite \/ Signal \/ Tick
  \/ \E offset \in Offset : StepClock(offset)

Spec == Init /\ [][Next]_vars

\* Neither thread is starved, and a request ends within 20 s.  Nobody owes the
\* process a signal, a failure or a report.
Fairness == WF_vars(PushReports \/ EndReader) /\ WF_vars(MainProgress)

FairSpec == Spec /\ Fairness

-----------------------------------------------------------------------------
(* Properties *)

\* Types of the variables.
TypeOK ==
  /\ now \in 0..Horizon /\ off \in Offset
  /\ stop \in BOOLEAN /\ slow \in BOOLEAN /\ halted \in BOOLEAN
  /\ main \in {"loop", "reserve", "send", "wait", "record", "remove", "join", "exited"}
  /\ thread \in {"read", "push", "done", "failed"}
  /\ inbox \in Seq(Report) /\ rwall \in Nat
  /\ queue \in Seq([report : Report, deadline : 0..(Horizon + TTL)])
  /\ batch \in Seq(Report)
  /\ answer \in {"none", "Accepted", "Retry", "Halt", "Discard"}
  /\ stored \subseteq {r.id : r \in Report}

\* The queue keeps its limits, no report twice, soonest expiry first, in
\* whatever order the FIFO replays (Ring::push).
QueueBounded ==
  /\ Bytes(queue) <= MaxBytes /\ Len(queue) <= MaxRecords
  /\ \A i, j \in DOMAIN queue : i < j =>
       /\ Expires(queue[i].report) <= Expires(queue[j].report)
       /\ queue[i].report.id # queue[j].report.id

\* No report stays longer than the time to live after the ring took it, even
\* when the wall clock was moved back (Entry.deadline).
DeadlineBounded ==
  \A i \in DOMAIN queue : queue[i].deadline <= now + TTL

\* A report leaves the queue for a reason: it has expired, it made room at the limit for
\* one that expires no sooner (which may find no room itself), or it was in a batch the
\* server settled.  What arrives during a request, and a batch that was not settled, stays.
Expired(e) ==
  \/ Expires(e.report) <= Wall \/ e.deadline <= now
  \/ thread = "push" /\ Expires(e.report) <= rwall
Arrived == [i \in DOMAIN inbox |-> EntryOf(inbox[i], rwall, now)]
Overtaken(e) ==
  /\ thread = "push" /\ ~Fits(queue \o Arrived)
  /\ \E i \in DOMAIN inbox :
       inbox[i].id # e.report.id /\ Expires(inbox[i]) >= Expires(e.report)
LeavesForAReason ==
  [][\A i \in DOMAIN queue : queue[i].report.id \notin Ids(queue') =>
       \/ Expired(queue[i]) \/ Overtaken(queue[i])
       \/ main = "remove" /\ queue[i].report.id \in InBatch]_vars

\* An upload carries the newest report the queue had, the rest oldest first, no
\* report twice, within the limits of a batch, and one report alone under a
\* slow policy (the queue may change afterwards, the batch may not).
BatchShape ==
  [][main = "loop" /\ main' = "reserve" =>
       /\ \A i \in DOMAIN queue' : Expires(queue'[i].report) <= Expires(batch'[1])
       /\ \A i, j \in DOMAIN batch' : i < j => batch'[i].id # batch'[j].id
       /\ \A i, j \in 2..Len(batch') : i < j => Expires(batch'[i]) <= Expires(batch'[j])
       /\ Len(batch') <= (IF slow THEN 1 ELSE MaxBatch)
       /\ Len(batch') > 1 => BatchBytes(batch') <= MaxBatchBytes]_vars

\* A stop signal, a dead reader or a failed write ends the whole process, and
\* never leaves one thread waiting for the other.
StopEnds == stop ~> main = "exited"
DeadReaderEnds == thread = "failed" ~> main = "exited"
=============================================================================
