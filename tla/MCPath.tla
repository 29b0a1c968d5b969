------------------------------- MODULE MCPath -------------------------------
(* What the reporting path owes in the end, part by part, on small instances. *)
(* A behaviour is about the part it names, under the fairness of that part:   *)
(* "stall" and "deliver" the handoff, with any reader and with one that       *)
(* stays; "ends" the publisher's two threads; "stored" the whole path.        *)
EXTENDS Uplink

CONSTANT Nothing

VARIABLES part, ring, made, dpc, nextAt, sampled, file, pending, sent, cut, left,
          pipe, reader, dec, judged, same

MCOneReport == {[id |-> 1, collected |-> 0, size |-> 1]}

H == INSTANCE Handoff WITH MaxBatchBytes <- 9, Size <- {2}, MaxReport <- 2, PipeSize <- 2,
       ReadSize <- 2, Budget <- 2, Cadence <- 1, Samples <- 1
D == INSTANCE Handoff WITH MaxBatchBytes <- 9, Size <- {1, 2}, MaxReport <- 2, PipeSize <- 2,
       ReadSize <- 2, Budget <- 2, Cadence <- 1, Samples <- 2, TTL <- 3, Horizon <- 4
R == INSTANCE Reporting WITH Size <- {1}, MaxReport <- 1, PipeSize <- 1, ReadSize <- 1,
       Budget <- 2, Cadence <- 1, Samples <- 2, Horizon <- 1

others == <<ring, made, dpc, nextAt, sampled, file, pending, sent, cut, left, pipe,
            reader, dec, judged, same>>
publisher == <<stop, main, thread, queue, batch, answer, slow, halted, stored>>
allvars == <<part, vars, others>>

PathInit ==
  \/ part \in {"stall", "deliver", "stored"} /\ R!Init
  \/ part = "ends" /\ Init /\ H!Init

Stall(action) == part = "stall" /\ action /\ UNCHANGED <<part, publisher>>
Deliver(action) == part = "deliver" /\ action /\ UNCHANGED <<part, publisher>>
Ends(action) == part = "ends" /\ action /\ UNCHANGED <<part, others>>
Stored(action) == part = "stored" /\ action /\ UNCHANGED part

PathNext ==
  \/ Stall(H!Next) \/ Deliver(D!StableNext) \/ Ends(Next) \/ Stored(R!StableNext)

\* The fairness of each part's own specification; a part has one of the actions
\* of each line, so the lines assume no more than the parts do.
PathFairness ==
  /\ WF_allvars(\/ Stall(H!Sample \/ H!Flush) \/ Deliver(D!Sample \/ D!Flush)
                \/ Ends(MainProgress) \/ Stored(R!Collect))
  /\ WF_allvars(\/ Deliver(D!StartCollector) \/ Ends(PushReports \/ EndReader)
                \/ Stored(R!StartPublisher))
  /\ WF_allvars(\/ Deliver(D!OpenReader)
                \/ Stored(R!ReadFifo \/ R!ReadEndOfFile \/ R!PushReports))
  /\ WF_allvars(Deliver(D!Read \/ D!ReadEnd) \/ Stored((Select \/ R!Settle) /\ UNCHANGED others))
  /\ WF_allvars(Deliver(D!Take))
  /\ SF_allvars(Stored(R!Accepted /\ UNCHANGED others))

PathSpec == PathInit /\ [][PathNext]_allvars /\ PathFairness

\* A missing or full reader never stops the collector (Handoff).
CollectorNeverStalls == part = "stall" => H!CollectorNeverStalls

\* A reader that stays gets every report in the ring (Handoff).
EventuallyDelivered == part = "deliver" => D!EventuallyDelivered

\* A signal, a dead reader thread or a failed write ends both threads (Uplink).
EndsTogether == part = "ends" => StopEnds /\ DeadReaderEnds

\* Every collected report reaches a server that keeps accepting (Reporting).
EventuallyStored == part = "stored" => R!EventuallyStored
=============================================================================
