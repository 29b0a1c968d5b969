--------------------------- MODULE ReportingProofs ---------------------------
(***************************************************************************)
(* The reporting path as a whole, for every limit, every size of FIFO and  *)
(* report and every sequence of crashes, restarts and clock steps: it      *)
(* implements the handoff, whatever the publisher does at its end, so that *)
(* what is proved of the handoff holds in it; the publisher's queue holds  *)
(* whole reports from that handoff, within its limits and each once        *)
(* (QueueFromFifo); and nothing older than its time to live is chosen for  *)
(* upload unless the wall clock was set back (FreshUnlessSetBack).         *)
(***************************************************************************)
EXTENDS Reporting, TLAPS

\* The handoff is proved about beside the other half of MCPipe, which here reads the same inbox.
HP == INSTANCE PipeProofs WITH half <- "handoff", received <- inbox, received_at <- rwall
UP == INSTANCE UplinkProofs WITH Report <- [id : 1..Samples, collected : Nat, size : Size, born : Nat]

LEMMA Assumptions ==
  /\ HP!RingAssumption /\ HP!HandoffAssumption
  /\ UP!RingAssumption /\ UP!UplinkAssumption
<1>1. HP!RingAssumption /\ UP!RingAssumption
  BY ReportingAssumption DEF H!RingAssumption, HP!RingAssumption, UP!RingAssumption
<1>2. HP!HandoffAssumption
  BY ReportingAssumption DEF H!HandoffAssumption, HP!HandoffAssumption
<1>3. UP!UplinkAssumption
  <2> DEFINE R == [id : 1..Samples, collected : Nat, size : Size, born : Nat]
  <2>1. /\ Size \subseteq 1..MaxReport /\ MaxReport \in Nat
        /\ Offset \subseteq Int /\ 0 \in Offset /\ Horizon \in Nat
    BY ReportingAssumption DEF H!HandoffAssumption
  <2>2. ASSUME NEW r \in R
        PROVE  r.collected \in Nat /\ r.size \in Nat \ {0}
    <3>1. r.collected \in Nat /\ r.size \in Size
      OBVIOUS
    <3> HIDE DEF R
    <3>2. r.size \in 1..MaxReport
      BY <2>1, <3>1
    <3> QED
      BY <2>1, <3>1, <3>2
  <2> HIDE DEF R
  <2>3. \A r \in R : r.collected \in Nat /\ r.size \in Nat \ {0}
    BY <2>2
  <2> QED
    BY <2>1, <2>3 DEF UP!UplinkAssumption, R
<1> QED
  BY <1>1, <1>2, <1>3

-----------------------------------------------------------------------------
(* The actions of the instances, in the modules of the proofs *)

\* The operators of the ring mean the same in all of them.
LEMMA RetainIs ==
  ASSUME NEW s, NEW S
  PROVE  H!Retain(s, S) = HP!Retain(s, S) /\ U!Retain(s, S) = UP!Retain(s, S)
BY DEF H!Retain, HP!Retain, H!Retained, HP!Retained, U!Retain, UP!Retain, U!Retained, UP!Retained

LEMMA PruneIs ==
  ASSUME NEW r, NEW wall, NEW mono
  PROVE  H!Prune(r, wall, mono) = HP!Prune(r, wall, mono)
         /\ U!Prune(r, wall, mono) = UP!Prune(r, wall, mono)
BY RetainIs DEF H!Prune, HP!Prune, H!ToSet, HP!ToSet, H!Expires, HP!Expires,
  U!Prune, UP!Prune, U!ToSet, UP!ToSet, U!Expires, UP!Expires

LEMMA EvictIs ==
  ASSUME NEW r
  PROVE  H!Evict(r) = HP!Evict(r) /\ U!Evict(r) = UP!Evict(r)
BY DEF H!Evict, HP!Evict, H!Fits, HP!Fits, H!Bytes, HP!Bytes, H!Sums, HP!Sums,
       U!Evict, UP!Evict, U!Fits, UP!Fits, U!Bytes, UP!Bytes, U!Sums, UP!Sums

LEMMA InsertIs ==
  ASSUME NEW r, NEW e
  PROVE  H!Insert(r, e) = HP!Insert(r, e) /\ U!Insert(r, e) = UP!Insert(r, e)
BY DEF H!Insert, HP!Insert, H!InsertAt, HP!InsertAt, H!Expires, HP!Expires,
       U!Insert, UP!Insert, U!InsertAt, UP!InsertAt, U!Expires, UP!Expires,
       H!Cardinality, HP!Cardinality, U!Cardinality, UP!Cardinality

LEMMA PushIs ==
  ASSUME NEW r, NEW x, NEW wall, NEW mono
  PROVE  H!Push(r, x, wall, mono) = HP!Push(r, x, wall, mono)
         /\ U!Push(r, x, wall, mono) = UP!Push(r, x, wall, mono)
BY PruneIs, EvictIs, InsertIs DEF H!Push, HP!Push, H!Ids, HP!Ids, H!EntryOf, HP!EntryOf,
   H!Lesser, HP!Lesser, H!Expires, HP!Expires, U!Push, UP!Push, U!Ids, UP!Ids, U!EntryOf, UP!EntryOf,
   U!Lesser, UP!Lesser, U!Expires, UP!Expires

LEMMA CollectorIs ==
  /\ H!StartCollector <=> HP!StartCollector
  /\ H!StopCollector <=> HP!StopCollector
  /\ H!Sample <=> HP!Sample
<1>1. H!StartCollector <=> HP!StartCollector
  BY DEF H!StartCollector, HP!StartCollector, H!clock, HP!clock, H!receiver, HP!receiver,
         H!ghosts, HP!ghosts
<1>2. H!StopCollector <=> HP!StopCollector
  BY DEF H!StopCollector, HP!StopCollector, H!CloseWriter, HP!CloseWriter, H!clock, HP!clock,
         H!receiver, HP!receiver, H!ghosts, HP!ghosts
<1>3. H!PushSample <=> HP!PushSample
  BY PushIs DEF H!PushSample, HP!PushSample, H!Valid, HP!Valid, H!Expires, HP!Expires,
         H!Wall, HP!Wall, H!clock, HP!clock, H!writer, HP!writer, H!receiver, HP!receiver,
         H!ghosts, HP!ghosts
<1>4. H!RejectSample <=> HP!RejectSample
  BY <1>2 DEF H!RejectSample, HP!RejectSample, H!Valid, HP!Valid, H!Expires, HP!Expires,
         H!Wall, HP!Wall
<1>5. /\ H!BeginSample <=> HP!BeginSample
      /\ H!EndSample <=> HP!EndSample
      /\ H!FailSample <=> HP!FailSample
      /\ H!SkipSample <=> HP!SkipSample
  BY DEF H!BeginSample, HP!BeginSample, H!EndSample, HP!EndSample,
         H!FailSample, HP!FailSample, H!SkipSample, HP!SkipSample, H!Valid, HP!Valid,
         H!Expires, HP!Expires, H!Wall, HP!Wall,
         H!clock, HP!clock, H!writer, HP!writer, H!receiver, HP!receiver, H!ghosts, HP!ghosts
<1>6. H!Sample <=> HP!Sample
  BY <1>3, <1>4, <1>5 DEF H!Sample, HP!Sample
<1> QED
  BY <1>1, <1>2, <1>6

LEMMA FlushIs == H!Flush <=> HP!Flush
<1>1. H!BeginFlush <=> HP!BeginFlush
  BY PruneIs DEF H!BeginFlush, HP!BeginFlush, H!Ids, HP!Ids, H!Wall, HP!Wall,
         H!clock, HP!clock, H!receiver, HP!receiver, H!ghosts, HP!ghosts
<1>2. /\ H!OpenFifo <=> HP!OpenFifo
      /\ H!WriteCut <=> HP!WriteCut
      /\ H!CloseBroken <=> HP!CloseBroken
  BY DEF H!OpenFifo, HP!OpenFifo, H!WriteCut, HP!WriteCut, H!Written, HP!Written, H!Room, HP!Room,
         H!Blocked, HP!Blocked, H!Broken, HP!Broken, H!CloseBroken, HP!CloseBroken,
         H!CloseWriter, HP!CloseWriter, H!NL, HP!NL, H!clock, HP!clock, H!collector, HP!collector,
         H!receiver, HP!receiver, H!ghosts, HP!ghosts
<1>3. H!Current = HP!Current /\ (H!NothingToWrite <=> HP!NothingToWrite)
  BY DEF H!Current, HP!Current, H!Unsent, HP!Unsent, H!NothingToWrite, HP!NothingToWrite
<1>4. H!WriteChunk <=> HP!WriteChunk
  BY <1>3 DEF H!WriteChunk, HP!WriteChunk, H!Put, HP!Put, H!Written, HP!Written, H!Room, HP!Room,
         H!Chunk, HP!Chunk, H!clock, HP!clock, H!collector, HP!collector,
         H!receiver, HP!receiver, H!ghosts, HP!ghosts
<1>5. H!WriteNewline <=> HP!WriteNewline
  BY DEF H!WriteNewline, HP!WriteNewline, H!Put, HP!Put, H!Written, HP!Written, H!Room, HP!Room,
         H!NL, HP!NL, H!clock, HP!clock, H!collector, HP!collector,
         H!receiver, HP!receiver, H!ghosts, HP!ghosts
<1>6. (H!EndFlush <=> HP!EndFlush) /\ (H!WriteBroken <=> HP!WriteBroken)
  BY <1>3 DEF H!EndFlush, HP!EndFlush, H!WriteBroken, HP!WriteBroken, H!Room, HP!Room,
         H!Blocked, HP!Blocked, H!Broken, HP!Broken, H!clock, HP!clock,
         H!collector, HP!collector, H!receiver, HP!receiver, H!ghosts, HP!ghosts
<1> QED
  BY <1>1, <1>2, <1>4, <1>5, <1>6 DEF H!Flush, HP!Flush

LEMMA ReaderIs ==
  /\ H!OpenReader <=> HP!OpenReader
  /\ H!CloseReader <=> HP!CloseReader
  /\ H!Read <=> HP!Read
  /\ H!ReadEnd <=> HP!ReadEnd
  /\ H!Take <=> HP!Take
<1>1. H!Read <=> HP!Read
  BY DEF H!Read, HP!Read, H!Lesser, HP!Lesser, H!Feed, HP!Feed, H!FeedEach, HP!FeedEach,
         H!FeedOne, HP!FeedOne, H!NL, HP!NL, H!EmptyDecoder, HP!EmptyDecoder, H!Parsed, HP!Parsed,
         H!Frame, HP!Frame, H!Chunk, HP!Chunk, H!Valid, HP!Valid, H!Expires, HP!Expires,
         H!Wall, HP!Wall, H!Whole, HP!Whole, H!clock, HP!clock, H!collector, HP!collector,
         H!writer, HP!writer
<1>2. (H!OpenReader <=> HP!OpenReader) /\ (H!CloseReader <=> HP!CloseReader)
  BY DEF H!OpenReader, HP!OpenReader, H!CloseReader, HP!CloseReader, H!EmptyDecoder, HP!EmptyDecoder,
         H!clock, HP!clock, H!collector, HP!collector, H!writer, HP!writer
<1>3. (H!ReadEnd <=> HP!ReadEnd) /\ (H!Take <=> HP!Take)
  BY DEF H!ReadEnd, HP!ReadEnd, H!Take, HP!Take, H!EmptyDecoder, HP!EmptyDecoder,
         H!clock, HP!clock, H!collector, HP!collector, H!writer, HP!writer, H!ghosts, HP!ghosts
<1> QED
  BY <1>1, <1>2, <1>3

LEMMA ClockIs ==
  ASSUME NEW offset
  PROVE  /\ H!Tick <=> HP!Tick
         /\ H!StepClock(offset) <=> HP!StepClock(offset)
BY DEF H!Tick, HP!Tick, H!StepClock, HP!StepClock, H!collector, HP!collector, H!writer, HP!writer,
       H!receiver, HP!receiver, H!ghosts, HP!ghosts

LEMMA FoldIs ==
  ASSUME NEW r
  PROVE  U!Ids(r) = UP!Ids(r) /\ U!Latest(r) = UP!Latest(r) /\ U!Batch(r) = UP!Batch(r)
<1>1. U!Latest(r) = UP!Latest(r)
  BY DEF U!Latest, UP!Latest, U!Last, UP!Last
<1>2. U!Batch(r) = UP!Batch(r)
  BY DEF U!Batch, UP!Batch, U!Reports, UP!Reports, U!Front, UP!Front, U!Latest, UP!Latest, U!Last, UP!Last,
         U!BatchBytes, UP!BatchBytes, U!Bytes, UP!Bytes, U!Sums, UP!Sums
<1> QED
  BY <1>1, <1>2 DEF U!Ids, UP!Ids

LEMMA PushReportsIs == U!PushReports => UP!PushReports
<1>1. ASSUME NEW r, NEW reports, NEW wall, NEW mono
      PROVE  U!PushAll(r, reports, wall, mono) = UP!PushAll(r, reports, wall, mono)
  BY DEF U!PushAll, UP!PushAll, U!PushEach, UP!PushEach, U!Push, UP!Push, U!Prune, UP!Prune,
         U!Retain, UP!Retain, U!Retained, UP!Retained, U!ToSet, UP!ToSet, U!Evict, UP!Evict,
         U!Insert, UP!Insert, U!InsertAt, UP!InsertAt, U!Cardinality, UP!Cardinality,
         U!EntryOf, UP!EntryOf, U!Fits, UP!Fits, U!Bytes, UP!Bytes, U!Sums, UP!Sums,
         U!Ids, UP!Ids, U!Lesser, UP!Lesser, U!Expires, UP!Expires
<1> QED
  BY <1>1, PruneIs DEF U!PushReports, UP!PushReports, U!clock, UP!clock

LEMMA SelectIs == U!Select => UP!Select
BY PruneIs, FoldIs DEF U!Select, UP!Select, U!ReaderFinished, UP!ReaderFinished,
   U!Wall, UP!Wall, U!clock, UP!clock

LEMMA MainIs ==
  U!MainProgress =>
    \/ UP!LeaveLoop \/ UP!SaveHold \/ UP!Send \/ UP!Resolve \/ UP!SaveAnswer \/ UP!Join
    \/ UP!RemoveSettled
<1>1. (U!LeaveLoop => UP!LeaveLoop) /\ (U!SaveHold => UP!SaveHold) /\ (U!Send => UP!Send)
      /\ (U!SaveAnswer => UP!SaveAnswer) /\ (U!Join => UP!Join)
  BY DEF U!LeaveLoop, UP!LeaveLoop, U!SaveHold, UP!SaveHold, U!Send, UP!Send, U!SaveAnswer,
         UP!SaveAnswer, U!Join, UP!Join, U!ReaderFinished, UP!ReaderFinished, U!clock, UP!clock
<1>2. U!Resolve => UP!Resolve
  BY DEF U!Resolve, UP!Resolve, U!NoAnswer, UP!NoAnswer, U!Answer, UP!Answer, U!InBatch, UP!InBatch,
         U!clock, UP!clock
<1>3. U!RemoveSettled => UP!RemoveSettled
  BY RetainIs DEF U!RemoveSettled, UP!RemoveSettled, U!RemoveBatch, UP!RemoveBatch,
     U!ToSet, UP!ToSet, U!clock, UP!clock
<1> QED
  BY <1>1, <1>2, <1>3 DEF U!MainProgress

LEMMA ReadReportsIs ==
  ASSUME NEW reports
  PROVE  U!ReadReports(reports) => UP!ReadReports(reports)
BY DEF U!ReadReports, UP!ReadReports, U!Valid, UP!Valid, U!Expires, UP!Expires, U!Wall, UP!Wall,
       U!clock, UP!clock

-----------------------------------------------------------------------------
(* The reporting path implements the handoff *)

LEMMA HandoffStep == [Next]_vars => [H!Next]_(H!vars)
<1>1. ASSUME UNCHANGED <<now, off, inbox, rwall, handoff>> PROVE UNCHANGED H!vars
  BY <1>1 DEF handoff, H!vars, H!clock, H!collector, H!writer, H!receiver, H!ghosts
<1>2. CASE Upload
  <2>1. UNCHANGED <<now, off, inbox, rwall, handoff>>
    <3>1. CASE U!Select
      BY <1>2, <3>1 DEF Upload, U!Select, U!clock
    <3>2. CASE U!MainProgress
      BY <1>2, <3>2 DEF Upload, U!MainProgress, U!LeaveLoop, U!SaveHold, U!Send, U!Resolve,
         U!NoAnswer, U!Answer, U!SaveAnswer, U!RemoveSettled, U!Join, U!clock
    <3> QED
      BY <1>2, <3>1, <3>2 DEF Upload
  <2> QED
    BY <1>1, <2>1
<1>3. CASE StartPublisher \/ EndPublisher \/ ReadFifo \/ ReadEndOfFile \/ PushReports
           \/ Collect \/ StopCollector \/ Tick \/ StepClock
  <2>1. H!Next
    BY <1>3 DEF StartPublisher, EndPublisher, ReadFifo, ReadEndOfFile, PushReports, Collect,
       StopCollector, Tick, StepClock, H!Next
  <2> QED
    BY <2>1
<1>4. CASE UNCHANGED vars
  BY <1>1, <1>4 DEF vars
<1> QED
  BY <1>2, <1>3, <1>4 DEF Next

\* Whatever the publisher's two threads do behind the FIFO, with the main thread busy, restarted
\* or gone, collector, FIFO and reader behave as they do against the most general publisher.
THEOREM ImplementsHandoff == Spec => H!Spec
<1>1. Init => H!Init
  BY DEF Init
<1> QED
  BY <1>1, HandoffStep, PTL DEF Spec, H!Spec

-----------------------------------------------------------------------------
(* The inductive invariant of the whole path *)

\* What the publisher has is what its reader decoded.
Known == UP!Ids(queue) \subseteq judged

RInv == HP!HInv /\ HP!Taken /\ UP!UInv /\ Known

\* A queue that holds nothing.
LEMMA EmptyQueue ==
  ASSUME NEW t
  PROVE  UP!QueueOK(<<>>, t) /\ UP!Ids(<<>>) = {}
<1>1. UP!Fits(<<>>) /\ UP!Sorted(<<>>)
  BY UP!EmptyFits, Assumptions
<1> QED
  BY <1>1 DEF UP!QueueOK, UP!Orderly, UP!Ids

LEMMA HandoffKept ==
  ASSUME HP!HInv, HP!Taken, [Next]_vars
  PROVE  HP!HInv' /\ HP!Taken'
<1>1. [HP!Next]_(HP!vars)
  <2>1. H!vars = HP!vars
    BY DEF H!vars, HP!vars, H!clock, HP!clock, H!collector, HP!collector, H!writer, HP!writer,
           H!receiver, HP!receiver, H!ghosts, HP!ghosts
  <2>2. (\E offset \in Offset : H!StepClock(offset)) <=> (\E offset \in Offset : HP!StepClock(offset))
    BY ClockIs
  <2>3. H!Next <=> HP!Next
    BY <2>2, CollectorIs, FlushIs, ReaderIs, ClockIs DEF H!Next, HP!Next
  <2>4. UNCHANGED H!vars => UNCHANGED HP!vars
    BY DEF H!vars, HP!vars, H!clock, HP!clock, H!collector, HP!collector, H!writer, HP!writer,
           H!receiver, HP!receiver, H!ghosts, HP!ghosts
  <2> QED
    BY <2>3, <2>4, HandoffStep
<1>2. HP!HInv'
  BY <1>1, HP!NextKeeps, Assumptions
<1>3. HP!Taken'
  BY <1>1, HP!TakenKept, Assumptions
<1> QED
  BY <1>2, <1>3

\* A step that leaves the queue alone keeps it known.
LEMMA KnownKept ==
  ASSUME Known, queue' = queue, judged \subseteq judged'
  PROVE  Known'
BY DEF Known, UP!Ids

\* A step in which the publisher's queue is lost.
LEMMA RestartKept ==
  ASSUME RInv, StartPublisher \/ EndPublisher
  PROVE  UP!UInv' /\ Known'
<1>1. /\ queue' = <<>> /\ batch' = <<>> /\ thread' # "push" /\ UNCHANGED <<now, off>>
      /\ inbox' \in {inbox, <<>>} /\ rwall' \in {rwall, 0}
      /\ stop' = FALSE /\ main' \in {"loop", "exited"} /\ thread' \in {"read", "done"}
      /\ answer' = "none" /\ UNCHANGED <<slow, halted, stored>>
  BY DEF StartPublisher, EndPublisher, H!OpenReader, H!CloseReader, H!clock
<1>2. /\ <<>> \in Seq([id : 1..Samples, collected : Nat, size : Size, born : Nat])
      /\ UP!Ids(<<>>) = {} /\ UP!QueueOK(<<>>, now)
  BY EmptyQueue
<1>3. UP!Control'
  <2> DEFINE R == [id : 1..Samples, collected : Nat, size : Size, born : Nat]
  <2>1. /\ now \in 0..Horizon /\ off \in Offset /\ slow \in BOOLEAN /\ halted \in BOOLEAN
        /\ inbox \in Seq(R) /\ rwall \in Nat /\ stored \subseteq {r.id : r \in R}
    BY DEF RInv, UP!UInv, UP!Control
  <2>2. UP!Control' <=>
        /\ now' \in 0..Horizon /\ off' \in Offset
        /\ stop' \in BOOLEAN /\ slow' \in BOOLEAN /\ halted' \in BOOLEAN
        /\ main' \in {"loop", "reserve", "send", "wait", "record", "remove", "join", "exited"}
        /\ thread' \in {"read", "push", "done", "failed"}
        /\ inbox' \in Seq(R) /\ rwall' \in Nat /\ batch' \in Seq(R)
        /\ answer' \in {"none", "Accepted", "Retry", "Halt", "Discard"}
        /\ stored' \subseteq {r.id : r \in R}
    BY DEF UP!Control
  <2> HIDE DEF R
  <2>3. <<>> \in Seq(R)
    OBVIOUS
  <2>4. inbox' \in Seq(R) /\ batch' \in Seq(R)
    <3>1. inbox' = inbox \/ inbox' = <<>>
      BY <1>1
    <3>2. batch' = <<>> /\ inbox \in Seq(R)
      BY <1>1, <2>1
    <3>3. CASE inbox' = inbox
      BY <2>3, <3>2, <3>3, Zenon
    <3>4. CASE inbox' = <<>>
      BY <2>3, <3>2, <3>4, Zenon
    <3> QED
      BY <3>1, <3>3, <3>4
  <2>5. rwall' \in Nat
    BY <1>1, <2>1
  <2> QED
    BY <1>1, <2>1, <2>2, <2>4, <2>5
<1>4. UP!Unexpired'
  BY <1>1 DEF UP!Unexpired
<1>5. UP!QueueOK(queue, now)'
  BY <1>1, <1>2 DEF UP!QueueOK
<1>6. UP!UInv'
  BY <1>1, <1>3, <1>4, <1>5 DEF RInv, UP!UInv, UP!Wall
<1>7. Known'
  BY <1>1, <1>2 DEF Known, UP!Ids
<1> QED
  BY <1>6, <1>7

LEMMA ReadKept ==
  ASSUME RInv, ReadFifo
  PROVE  UP!UInv' /\ Known'
<1>1. /\ UNCHANGED <<now, off, queue>> /\ judged \subseteq judged' /\ thread = "read"
      /\ inbox' = <<>> => rwall' = 0 /\ UNCHANGED uplink
      /\ inbox' # <<>> => U!ReadReports(inbox')
  BY DEF ReadFifo, H!Read, H!clock, uplink, U!ReadReports
<1>2. Known'
  BY <1>1, KnownKept DEF RInv
<1>3. CASE inbox' = <<>>
  <2>1. UNCHANGED <<stop, main, thread, queue, batch, answer, slow, halted, stored, now, off>>
    BY <1>1, <1>3 DEF uplink
  <2>2. UP!Control'
    BY <1>1, <1>3, <2>1 DEF RInv, UP!UInv, UP!Control
  <2>3. UP!Unexpired' /\ UP!QueueOK(queue, now)' /\ (UP!Wall >= 0)'
    BY <1>1, <2>1 DEF RInv, UP!UInv, UP!Unexpired, UP!QueueOK, UP!Wall
  <2> QED
    BY <1>2, <2>2, <2>3 DEF UP!UInv
<1>4. CASE inbox' # <<>>
  <2>1. HP!TypeOK'
    BY HandoffKept DEF RInv, HP!HInv, Next
  <2>2. inbox' \in Seq([id : 1..Samples, collected : Nat, size : Size, born : Nat])
    BY <2>1 DEF HP!TypeOK, HP!Sampled
  <2>3. PICK reports \in Seq([id : 1..Samples, collected : Nat, size : Size, born : Nat]) :
          reports = inbox'
    BY <2>2
  <2>4. UP!ReadReports(reports)
    BY <1>1, <1>4, <2>3, ReadReportsIs
  <2>5. UP!UInv'
    BY <2>4, UP!ReadStep, Assumptions DEF RInv
  <2> QED
    BY <1>2, <2>5
<1> QED
  BY <1>3, <1>4

\* What one of the publisher's threads does with what it has.
LEMMA UplinkKept ==
  ASSUME RInv, PushReports \/ Upload
  PROVE  UP!UInv' /\ Known'
<1>1. UP!UInv /\ HP!Taken /\ Known
  BY DEF RInv
<1>2. judged' = judged
  BY DEF PushReports, H!Take, H!ghosts, Upload, handoff
<1>3. CASE UP!PushReports \/ UP!Select \/ UP!RemoveSettled
  <2>1. UP!UInv'
    BY <1>1, <1>3, UP!PushStep, UP!SelectStep, UP!RemoveStep, Assumptions
  <2>2. UP!Ids(queue') \subseteq UP!Ids(queue) \cup {inbox[i].id : i \in DOMAIN inbox}
    BY <1>1, <1>3, UP!QueueComes, Assumptions
  <2>3. {inbox[i].id : i \in DOMAIN inbox} \subseteq judged
    BY <1>1 DEF HP!Taken
  <2>4. UP!Ids(queue') \subseteq judged'
    BY <1>1, <1>2, <2>2, <2>3 DEF Known
  <2>5. Known'
    BY <2>4 DEF Known, UP!Ids
  <2> QED
    BY <2>1, <2>5
<1>4. CASE UP!LeaveLoop \/ UP!SaveHold \/ UP!Send \/ UP!Resolve \/ UP!SaveAnswer \/ UP!Join
  <2>1. UP!UInv'
    BY <1>1, <1>4, UP!MainStep, Assumptions
  <2>2. queue' = queue
    BY <1>4 DEF UP!LeaveLoop, UP!SaveHold, UP!Send, UP!Resolve, UP!NoAnswer, UP!Answer,
                UP!SaveAnswer, UP!Join
  <2> QED
    BY <1>1, <1>2, <2>1, <2>2, KnownKept
<1> QED
  BY <1>3, <1>4, PushReportsIs, SelectIs, MainIs DEF PushReports, Upload

\* The clocks, and what the collector and an idle reader do by themselves.
LEMMA OthersKept ==
  ASSUME RInv, \/ ReadEndOfFile \/ Collect \/ StopCollector \/ Tick \/ StepClock \/ UNCHANGED vars
  PROVE  UP!UInv' /\ Known'
<1>1. UP!UInv /\ Known
  BY DEF RInv
<1>2. UNCHANGED <<inbox, rwall, judged>> /\ UNCHANGED uplink
  BY DEF ReadEndOfFile, H!ReadEnd, Collect, StopCollector, Tick, StepClock, vars, handoff,
         H!StartCollector, H!StopCollector, H!Tick, H!StepClock, H!Sample, H!Flush,
         H!BeginSample, H!EndSample, H!FailSample, H!PushSample, H!RejectSample, H!SkipSample,
         H!BeginFlush, H!OpenFifo, H!WriteCut, H!WriteChunk, H!WriteNewline, H!EndFlush,
         H!WriteBroken, H!CloseBroken, H!receiver, H!ghosts
<1>3. UNCHANGED <<inbox, rwall, stop, main, thread, queue, batch, answer, slow, halted, stored>>
  BY <1>2 DEF uplink
<1>4. CASE Tick
  <2>1. UP!Tick
    BY <1>3, <1>4 DEF Tick, H!Tick, UP!Tick
  <2> QED
    BY <1>1, <1>2, <1>3, <2>1, UP!TimeStep, KnownKept, Assumptions
<1>5. CASE StepClock
  <2>1. \E offset \in Offset : UP!StepClock(offset)
    BY <1>3, <1>5 DEF StepClock, H!StepClock, UP!StepClock
  <2> QED
    BY <1>1, <1>2, <1>3, <2>1, UP!TimeStep, KnownKept, Assumptions
<1>6. CASE ReadEndOfFile \/ Collect \/ StopCollector \/ UNCHANGED vars
  <2>1. UNCHANGED <<now, off>>
    BY <1>6 DEF ReadEndOfFile, H!ReadEnd, Collect, StopCollector, vars,
         H!StartCollector, H!StopCollector, H!Sample, H!Flush,
         H!BeginSample, H!EndSample, H!FailSample, H!PushSample, H!RejectSample, H!SkipSample,
         H!BeginFlush, H!OpenFifo, H!WriteCut, H!WriteChunk, H!WriteNewline, H!EndFlush,
         H!WriteBroken, H!CloseBroken, H!clock
  <2>2. UNCHANGED UP!vars
    BY <1>3, <2>1 DEF UP!vars, UP!clock
  <2>3. UP!UInv'
    BY <1>1, <2>2, UP!UStutter, Assumptions
  <2> QED
    BY <1>1, <1>2, <1>3, <2>3, KnownKept
<1> QED
  BY <1>4, <1>5, <1>6

LEMMA RInit == Init => RInv
<1> SUFFICES ASSUME Init PROVE RInv
  OBVIOUS
<1>1. HP!Init
  BY DEF Init, H!Init, HP!Init, H!Wall, HP!Wall, H!EmptyDecoder, HP!EmptyDecoder
<1>2. HP!HInv
  BY <1>1, HP!InitHolds, Assumptions
<1>3. HP!Taken
  BY <1>1 DEF HP!Taken, HP!Init
<1>4. UP!QueueOK(<<>>, now) /\ UP!Ids(<<>>) = {}
  BY EmptyQueue
<1>5. queue = <<>> /\ thread = "done" /\ now = 0 /\ off \in Offset /\ now + off >= 0
      /\ inbox = <<>> /\ rwall = 0 /\ batch = <<>> /\ stored = {}
      /\ stop = FALSE /\ main = "exited" /\ answer = "none" /\ slow = FALSE /\ halted = FALSE
  BY <1>1 DEF Init, HP!Init, HP!Wall
<1>6. UP!Control
  <2>1. 0 \in 0..Horizon
    BY Assumptions DEF UP!UplinkAssumption
  <2> DEFINE R == [id : 1..Samples, collected : Nat, size : Size, born : Nat]
  <2>2. UP!Control <=>
        /\ now \in 0..Horizon /\ off \in Offset
        /\ stop \in BOOLEAN /\ slow \in BOOLEAN /\ halted \in BOOLEAN
        /\ main \in {"loop", "reserve", "send", "wait", "record", "remove", "join", "exited"}
        /\ thread \in {"read", "push", "done", "failed"}
        /\ inbox \in Seq(R) /\ rwall \in Nat /\ batch \in Seq(R)
        /\ answer \in {"none", "Accepted", "Retry", "Halt", "Discard"}
        /\ stored \subseteq {r.id : r \in R}
    BY DEF UP!Control
  <2> HIDE DEF R
  <2>3. <<>> \in Seq(R)
    OBVIOUS
  <2> QED
    BY <1>5, <2>1, <2>2, <2>3
<1>7. UP!UInv
  BY <1>4, <1>5, <1>6 DEF UP!UInv, UP!Unexpired, UP!Wall
<1>8. Known
  BY <1>4, <1>5 DEF Known
<1> QED
  BY <1>2, <1>3, <1>7, <1>8 DEF RInv

LEMMA RNext == RInv /\ [Next]_vars => RInv'
<1> SUFFICES ASSUME RInv, [Next]_vars PROVE RInv'
  OBVIOUS
<1>1. HP!HInv' /\ HP!Taken'
  BY HandoffKept DEF RInv
<1>2. UP!UInv' /\ Known'
  BY RestartKept, ReadKept, UplinkKept, OthersKept DEF Next
<1> QED
  BY <1>1, <1>2 DEF RInv

THEOREM PathInvariant == Spec => []RInv
BY RInit, RNext, PTL DEF Spec

\* Every report in the publisher's queue was a whole frame that this publisher's own reader
\* decoded; the queue keeps its limits and its order and holds each report once, whatever the
\* FIFO replays and however often either process restarts.
THEOREM QueueHoldsWhatWasRead == Spec => []QueueFromFifo
<1>1. RInv => QueueFromFifo
  <2> SUFFICES ASSUME RInv PROVE QueueFromFifo
    OBVIOUS
  <2>1. UP!QueueBounded
    BY UP!UInvImplies, Assumptions DEF RInv
  <2>2. U!QueueBounded
    BY <2>1 DEF U!QueueBounded, UP!QueueBounded, U!Bytes, UP!Bytes, U!Sums, UP!Sums,
                U!Expires, UP!Expires
  <2>3. U!Ids(queue) \subseteq judged
    BY FoldIs DEF RInv, Known
  <2> QED
    BY <2>2, <2>3 DEF QueueFromFifo
<1> QED
  BY <1>1, PathInvariant, PTL

-----------------------------------------------------------------------------
(* The age of what is uploaded *)

\* The formula of FreshUnlessSetBack.
Fresh ==
  main = "loop" /\ main' = "reserve" =>
    \A i \in DOMAIN batch' : now - batch'[i].born < TTL \/ SetBackSince(batch'[i])

LEMMA FreshStep == RInv /\ [Next]_vars => [Fresh]_vars
<1> SUFFICES ASSUME RInv, [Next]_vars PROVE [Fresh]_vars
  OBVIOUS
<1>1. CASE Upload /\ U!Select
  <2>1. \A i \in DOMAIN batch' :
          /\ batch'[i] \in [id : 1..Samples, collected : Nat, size : Size, born : Nat]
          /\ UP!Expires(batch'[i]) > UP!Wall
    BY <1>1, SelectIs, UP!BatchComes, Assumptions DEF RInv
  <2>2. now \in Int /\ off \in Int /\ TTL \in Int
    BY Assumptions DEF UP!RingAssumption, UP!UplinkAssumption, RInv, UP!UInv, UP!Control
  <2>3. ASSUME NEW i \in DOMAIN batch'
        PROVE  now - batch'[i].born < TTL \/ off < batch'[i].collected - batch'[i].born
    <3>1. batch'[i].collected \in Int /\ batch'[i].born \in Int
      BY <2>1
    <3>2. batch'[i].collected + TTL > now + off
      BY <2>1 DEF UP!Expires, UP!Wall
    <3> QED
      BY <2>2, <3>1, <3>2
  <2> QED
    BY <2>3 DEF Fresh, SetBackSince
<1>2. CASE Upload /\ U!MainProgress
  BY <1>2 DEF U!MainProgress, U!LeaveLoop, U!SaveHold, U!Send, U!Resolve, U!NoAnswer, U!Answer,
     U!SaveAnswer, U!RemoveSettled, U!Join, Fresh
<1>3. CASE StartPublisher \/ EndPublisher
  BY <1>3 DEF StartPublisher, EndPublisher, Fresh
<1>4. CASE ReadFifo \/ PushReports
  <2>1. main' = main
    BY <1>4 DEF ReadFifo, uplink, U!ReadReports, PushReports, U!PushReports
  <2> QED
    BY <2>1 DEF Fresh
<1>5. CASE ReadEndOfFile \/ Collect \/ StopCollector \/ Tick \/ StepClock
  BY <1>5 DEF ReadEndOfFile, Collect, StopCollector, Tick, StepClock, uplink, Fresh
<1> QED
  BY <1>1, <1>2, <1>3, <1>4, <1>5 DEF Next, Upload

\* "All observations expire 30 minutes after collection": what is chosen for upload is younger
\* than its time to live in true time, over both buffers, the FIFO and any replay, unless the
\* wall clock shows an earlier time, relative to true time, than when it was collected.
THEOREM FreshOrSetBack == Spec => FreshUnlessSetBack
BY PathInvariant, FreshStep, PTL DEF Spec, FreshUnlessSetBack, Fresh
=============================================================================
