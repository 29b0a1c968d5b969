------------------------------- MODULE MCPipe -------------------------------
(* The two halves of the reporting path, each against the most general other  *)
(* half, on small instances.  A behaviour is about one of them, which `half`  *)
(* names; the other rests in its initial state.                               *)
EXTENDS Handoff

VARIABLES half, stop, main, thread, received, received_at, queue, batch, answer,
          slow, halted, stored

\* Four reports, one of them large.  When the first has expired the last is due: three small
\* ones fill a batch, the large one makes room for itself at the byte limit of the queue, and
\* beside it in the queue a small one goes over the byte limit of a batch.
MCReport == {[id |-> 1, collected |-> 0, size |-> 1],
             [id |-> 2, collected |-> 1, size |-> 1],
             [id |-> 3, collected |-> 1, size |-> 1],
             [id |-> 4, collected |-> 2, size |-> 4]}

U == INSTANCE Uplink WITH MaxRecords <- 3, MaxBytes <- 5, MaxBatch <- 3, MaxBatchBytes <- 7,
                          Report <- MCReport, TTL <- 1, Horizon <- 1, Offset <- {0, 1},
                          inbox <- received, rwall <- received_at

\* What the run tells states apart by: all but `stored`, a ghost that nothing here reads.
view == <<half, collector, writer, pipe, receiver, ghosts, now, off, stop, main, thread, received,
          received_at, queue, batch, answer, slow, halted>>

handoff == <<collector, writer, pipe, receiver, ghosts>>
uplink == <<stop, main, thread, received, received_at, queue, batch, answer,
            slow, halted, stored>>

PipeInit ==
  /\ half \in {"handoff", "uplink"}
  /\ Init /\ U!Init

PipeNext ==
  /\ UNCHANGED half
  /\ \/ half = "handoff" /\ Next /\ UNCHANGED uplink
     \/ half = "uplink" /\ U!Next /\ UNCHANGED handoff

PipeSpec == PipeInit /\ [][PipeNext]_<<half, vars, uplink>>

\* Every variable of the half keeps its type.  The collector's ring and the publisher's queue
\* keep their record and byte limits, soonest expiry first and no report twice, and no report
\* stays in the queue for longer than the time to live.
BuffersBounded ==
  /\ IF half = "handoff" THEN TypeOK ELSE U!TypeOK
  /\ RingBounded /\ U!QueueBounded /\ U!DeadlineBounded

\* A report leaves the publisher's queue for a reason (Uplink).
LeavesForAReason == U!LeavesForAReason

\* What an upload carries (Uplink).
BatchShape == U!BatchShape
=============================================================================
