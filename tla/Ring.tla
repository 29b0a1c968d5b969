-------------------------------- MODULE Ring --------------------------------
(***************************************************************************)
(* The bounded report buffer of crates/reporting/src/buffer.rs, which the  *)
(* collector and the publisher each keep, and the validity of a report     *)
(* (crates/reporting/src/protocol.rs).                                     *)
(*                                                                         *)
(* A ring is a sequence of entries, soonest expiry first.  An entry is a   *)
(* report with the monotonic deadline the ring gave it.  A report's id,    *)
(* the wall time it was collected at and its size stand for all of it;     *)
(* sizes are in FIFO chunks.                                               *)
(***************************************************************************)
EXTENDS Integers, SequencesExt, Retain

CONSTANTS
  TTL,            \* TTL_MS: a report expires this long after its collection
  Skew,           \* how far in the future a collection time may be
  MaxRecords,     \* BUFFER_RECORDS
  MaxBytes,       \* BUFFER_BYTES
  MaxBatch,       \* MAX_BATCH_REPORTS
  MaxBatchBytes,  \* MAX_BATCH_BYTES
  Envelope        \* bytes of the batch around its reports

ASSUME RingAssumption ==
  /\ TTL \in Nat \ {0} /\ Skew \in Nat
  /\ MaxRecords \in Nat \ {0} /\ MaxBytes \in Nat \ {0}
  /\ MaxBatch \in Nat \ {0} /\ MaxBatchBytes \in Nat /\ Envelope \in Nat

Expires(report) == report.collected + TTL

\* Report::validate, for reports of a known version and shape.
Valid(report, wall) ==
  Expires(report) > wall /\ report.collected <= wall + Skew

Lesser(a, b) == IF a < b THEN a ELSE b

Ids(ring) == {ring[i].report.id : i \in DOMAIN ring}

\* The sizes of the first n entries, for every n.
Sums(ring) ==
  LET sum[n \in 0..Len(ring)] == IF n = 0 THEN 0 ELSE sum[n - 1] + ring[n].report.size
  IN  sum

Bytes(ring) == Sums(ring)[Len(ring)]

\* A fault: pruning by the monotonic deadline alone.
PruneByDeadline(ring, wall, mono) == Retain(ring, {e \in ToSet(ring) : e.deadline > mono})

Prune(ring, wall, mono) ==
  Retain(ring, {e \in ToSet(ring) : Expires(e.report) > wall /\ e.deadline > mono})
\* A fault: reports kept in order of arrival.
InsertLast(ring, entry) == Append(ring, entry)

\* Reports arrive in any order (a reconnected FIFO replays the newest first):
\* each goes after those that expire no later.
Insert(ring, entry) ==
  LET before == {i \in DOMAIN ring : Expires(ring[i].report) <= Expires(entry.report)}
  IN  InsertAt(ring, Cardinality(before) + 1, entry)

Fits(ring) == Bytes(ring) <= MaxBytes /\ Len(ring) <= MaxRecords

\* The oldest records go until the rest fits.
Evict(ring) ==
  LET Rest(n) == SubSeq(ring, n + 1, Len(ring))
      n == CHOOSE n \in 0..Len(ring) : Fits(Rest(n)) /\ \A m \in 0..(n - 1) : ~Fits(Rest(m))
  IN  Rest(n)

EntryOf(report, wall, mono) ==
  [report |-> report, deadline |-> mono + Lesser(Expires(report) - wall, TTL)]
\* A fault: a report delivered twice is kept twice.
PushAgain(ring, report, wall, mono) ==
  Evict(Insert(Prune(ring, wall, mono), EntryOf(report, wall, mono)))

\* push of a report that is valid at this wall time.  A report that is already
\* there changes nothing: its deadline stands.
Push(ring, report, wall, mono) ==
  LET kept == Prune(ring, wall, mono) IN
  IF report.id \in Ids(kept) THEN kept
  ELSE Evict(Insert(kept, EntryOf(report, wall, mono)))

Reports(ring) == [i \in DOMAIN ring |-> ring[i].report]

\* latest: the newest report alone, of a pruned ring.
Latest(ring) == IF ring = <<>> THEN <<>> ELSE <<Last(ring).report>>

\* batch, of a pruned ring: the newest report, then the oldest ones, up to the
\* first that no longer fits.
BatchBytes(batch) ==
  Envelope + Len(batch) + Bytes([i \in DOMAIN batch |-> [report |-> batch[i]]])
\* A fault: the newest report is sent again in its turn.
BatchTwice(ring) ==
  IF ring = <<>> THEN <<>>
  ELSE SubSeq(Latest(ring) \o Reports(ring), 1, Lesser(MaxBatch, Len(ring) + 1))

Batch(ring) ==
  LET order == Latest(ring) \o Reports(Front(ring))
      Full(n) == n > MaxBatch \/ BatchBytes(SubSeq(order, 1, n)) > MaxBatchBytes
  IN  IF ring = <<>> THEN <<>>
      ELSE SubSeq(order, 1, CHOOSE n \in 0..Len(order) :
             (\A m \in 1..n : ~Full(m)) /\ (n = Len(order) \/ Full(n + 1)))
\* A fault: as many records leave the front as the batch had.
RemoveFront(ring, batch) == SubSeq(ring, Len(batch) + 1, Len(ring))

RemoveBatch(ring, batch) ==
  Retain(ring, {e \in ToSet(ring) : e.report.id \notin {batch[i].id : i \in DOMAIN batch}})
=============================================================================
