------------------------------ MODULE Reporting ------------------------------
(***************************************************************************)
(* The whole reporting path: the collector and its FIFO (Handoff), the two *)
(* threads of the publisher behind it (Uplink), and the two processes      *)
(* restarting independently.  They share the clocks, and the reports that  *)
(* the reader thread has read from the FIFO and not yet pushed.            *)
(***************************************************************************)
EXTENDS Integers, Sequences, FiniteSets

CONSTANTS TTL, Skew, MaxRecords, MaxBytes, MaxBatch, MaxBatchBytes, Envelope,
          Size, MaxReport, PipeSize, ReadSize, Budget, Cadence, Offset, Horizon,
          Samples, Nothing

VARIABLES
  now, off, inbox, rwall,                             \* shared
  ring, made, dpc, nextAt, sampled, file, pending,    \* Handoff
  sent, cut, left, pipe, reader, dec, judged, same,
  stop, main, thread, queue, batch, answer, slow,     \* Uplink
  halted, stored

H == INSTANCE Handoff
U == INSTANCE Uplink WITH Report <- [id : 1..Samples, collected : Nat, size : Size, born : Nat]

\* The limits of one component are those of the other: they come from the same constants.
ASSUME ReportingAssumption == H!RingAssumption /\ H!HandoffAssumption

\* What one component has to itself.
handoff == <<ring, made, dpc, nextAt, sampled, file, pending, sent, cut, left,
             pipe, reader, dec, judged, same>>
uplink == <<stop, main, thread, queue, batch, answer, slow, halted, stored>>
vars == <<now, off, inbox, rwall, handoff, uplink>>

Init ==
  /\ H!Init
  /\ stop = FALSE /\ main = "exited" /\ thread = "done" /\ queue = <<>> /\ batch = <<>>
  /\ answer = "none" /\ slow = FALSE /\ halted = FALSE /\ stored = {}

\* A publisher process opens the FIFO; the gate and its policy come from disk.
StartPublisher ==
  /\ main = "exited" /\ H!OpenReader
  /\ stop' = FALSE /\ main' = "loop" /\ thread' = "read"
  /\ queue' = <<>> /\ batch' = <<>> /\ answer' = "none"
  /\ UNCHANGED <<slow, halted, stored>>

\* It exits or is killed, and its queue is gone.
EndPublisher ==
  /\ H!CloseReader
  /\ stop' = FALSE /\ main' = "exited" /\ thread' = "done"
  /\ queue' = <<>> /\ batch' = <<>> /\ answer' = "none"
  /\ UNCHANGED <<slow, halted, stored>>

\* One iteration of the reader thread: read, then push what the decoder found.
ReadFifo ==
  /\ thread = "read"
  /\ H!Read
  /\ IF inbox' = <<>> THEN UNCHANGED uplink ELSE U!ReadReports(inbox')

ReadEndOfFile == thread = "read" /\ H!ReadEnd /\ UNCHANGED uplink

PushReports == U!PushReports /\ H!Take

\* The collector, and the main thread, each by themselves.
Collect == (H!StartCollector \/ H!Sample \/ H!Flush) /\ UNCHANGED uplink
StopCollector == H!StopCollector /\ UNCHANGED uplink
Upload == (U!Select \/ U!MainProgress) /\ main # "exited" /\ UNCHANGED handoff
Tick == H!Tick /\ UNCHANGED uplink
StepClock == \E offset \in Offset : H!StepClock(offset) /\ UNCHANGED uplink

Next ==
  \/ StartPublisher \/ EndPublisher \/ ReadFifo \/ ReadEndOfFile \/ PushReports
  \/ Collect \/ StopCollector \/ Upload \/ Tick \/ StepClock

Spec == Init /\ [][Next]_vars

\* Both processes stay up, the gate opens again and again, the server accepts
\* sooner or later and never refuses for good.
Accepted == \E policy \in BOOLEAN : U!Answer("Accepted", policy)
Settle == U!SaveHold \/ U!Send \/ U!SaveAnswer \/ U!RemoveSettled
UploadAccepted ==
  (U!Select \/ Settle \/ Accepted \/ U!NoAnswer) /\ main # "exited" /\ UNCHANGED handoff

StableNext ==
  \/ StartPublisher \/ ReadFifo \/ ReadEndOfFile \/ PushReports
  \/ Collect \/ UploadAccepted \/ Tick

StableSpec ==
  /\ Init /\ [][StableNext]_vars
  /\ WF_vars(StartPublisher) /\ WF_vars(ReadFifo \/ ReadEndOfFile \/ PushReports)
  /\ WF_vars(Collect)
  /\ WF_vars((U!Select \/ Settle) /\ UNCHANGED handoff)
  /\ SF_vars(Accepted /\ UNCHANGED handoff)

-----------------------------------------------------------------------------
(* Properties *)

\* "All observations expire 30 minutes after collection throughout the local and
\* central reporting path.  Upload/replay does not reset observation age"
\* (FLEET_REPORTING_DESIGN.md): whatever is chosen for upload was collected less
\* than the time to live ago, in true time, over both buffers and the FIFO.
FreshWhenChosen ==
  [][main = "loop" /\ main' = "reserve" =>
       \A i \in DOMAIN batch' : now - batch'[i].born < TTL]_vars

\* The same promise with what a clock that is set leaves of it: an observation
\* chosen for upload is within its 30 minutes, unless the wall clock shows an
\* earlier time, relative to true time, than when it was made.
SetBackSince(report) == off < report.collected - report.born
FreshUnlessSetBack ==
  [][main = "loop" /\ main' = "reserve" =>
       \A i \in DOMAIN batch' : now - batch'[i].born < TTL \/ SetBackSince(batch'[i])]_vars

\* The queue holds reports that the same publisher decoded, each once.
QueueFromFifo ==
  /\ U!QueueBounded
  /\ U!Ids(queue) \subseteq judged

\* With both processes up and a server that keeps accepting, every report in the
\* collector's ring reaches the server, unless it expires or is evicted first.
EventuallyStored ==
  \A id \in 1..Samples :
    id \in H!Ids(ring) ~> id \in stored \/ id \notin H!Ids(ring)
=============================================================================
