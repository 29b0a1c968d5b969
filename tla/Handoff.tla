------------------------------- MODULE Handoff -------------------------------
(***************************************************************************)
(* The one-way handoff of reports: the collector's loop                    *)
(* (apps/lens-daemon/src/main.rs), its FIFO writer, the kernel's FIFO and  *)
(* the reader with its frame decoder (crates/reporting/src/ipc.rs and      *)
(* protocol.rs).                                                           *)
(*                                                                         *)
(* Each system call is a step: reader and writer interleave between any    *)
(* two of them, either process may die at any point, and the wall clock    *)
(* may be stepped.  A write of at most PIPE_BUF bytes moves a whole chunk  *)
(* or nothing, so the FIFO holds chunks and newlines; a report of size n   *)
(* is a frame of n chunks.                                                 *)
(***************************************************************************)
EXTENDS Ring

CONSTANTS
  Size,        \* sizes a report may have
  MaxReport,   \* MAX_REPORT_BYTES, in chunks
  PipeSize,    \* capacity of the FIFO
  ReadSize,    \* the most a read returns
  Budget,      \* writes one flush may make
  Cadence,     \* time between the starts of two samples
  Offset,      \* differences between the wall clock and true time
  Horizon,     \* bound on true time
  Samples,     \* bound on the reports collected
  Nothing      \* no pending frame, no sampled report

ASSUME HandoffAssumption ==
  /\ Size \subseteq 1..MaxReport /\ MaxReport \in Nat
  /\ PipeSize \in Nat \ {0} /\ ReadSize \in Nat \ {0} /\ Cadence \in Nat \ {0}
  /\ Budget \in Nat \ {0}
  /\ Offset \subseteq Int /\ 0 \in Offset
  /\ Horizon \in Nat /\ Samples \in Nat
  /\ Nothing \notin [report : [id : Nat, collected : Nat, size : Nat, born : Nat], at : Nat]

VARIABLES
  now, off,   \* true time, which the monotonic clock follows; wall = now + off
  ring,       \* the collector's ring
  made,       \* samples started, over all sessions: the newest report id
  dpc,        \* the collector: down, loop, sample, decoded, or inside flush
  nextAt,     \* next: when the next sample is due
  sampled,    \* the report the worker delivers
  file,       \* whether the writer has the FIFO open
  pending,    \* Writer.pending: entry and offset
  sent,       \* Writer.sent
  cut,        \* Writer.cut
  left,       \* writes left in this flush
  pipe,       \* the bytes in the FIFO
  reader,     \* whether a reader has the FIFO open
  dec,        \* Decoder: pending bytes and discard
  rwall,      \* the reader's `now`, taken before it reads
  inbox,      \* reports its last read produced
  judged,     \* ghost: whole frames that this reader decoded
  same        \* ghost: the reader is the one the writer opened the FIFO to

clock == <<now, off>>
collector == <<ring, made, dpc, nextAt, sampled>>
writer == <<file, pending, sent, cut, left>>
receiver == <<reader, dec, rwall, inbox>>
ghosts == <<judged, same>>
vars == <<clock, collector, writer, pipe, receiver, ghosts>>

Wall == now + off

-----------------------------------------------------------------------------
(* Frames *)

NL == [kind |-> "newline"]
Chunk(report, i) == [kind |-> "chunk", report |-> report, part |-> i]
Frame(report) == [i \in 1..report.size |-> Chunk(report, i)]

EmptyDecoder == [pending |-> <<>>, discard |-> FALSE]

\* serde_json::from_slice succeeds on one whole frame and on nothing else; the report that
\* it gives must also validate.
Parsed(bytes, wall) ==
  IF /\ bytes # <<>> /\ bytes = Frame(bytes[1].report)
     /\ Valid(bytes[1].report, wall)
  THEN <<bytes[1].report>> ELSE <<>>

\* feed of one chunk or newline.
FeedOne(d, byte, wall) ==
  IF byte = NL
  THEN [dec |-> EmptyDecoder, reports |-> IF d.discard THEN <<>> ELSE Parsed(d.pending, wall)]
  ELSE [dec |-> CASE d.discard -> d
                  [] ~d.discard /\ Len(d.pending) >= MaxReport ->
                       [pending |-> <<>>, discard |-> TRUE]
                  [] OTHER -> [d EXCEPT !.pending = Append(@, byte)],
        reports |-> <<>>]

\* feed of the first n bytes, for every n: the decoder, and the reports in order of arrival.
FeedEach(d, bytes, wall) ==
  LET fed[n \in 0..Len(bytes)] ==
        IF n = 0 THEN [dec |-> d, reports |-> <<>>]
        ELSE LET step == FeedOne(fed[n - 1].dec, bytes[n], wall)
             IN  [dec |-> step.dec, reports |-> fed[n - 1].reports \o step.reports]
  IN  fed

Feed(d, bytes, wall) == FeedEach(d, bytes, wall)[Len(bytes)]

\* The ids of the frames that are complete in a stretch of the stream.
Whole(stream) ==
  {stream[i].report.id : i \in {i \in DOMAIN stream :
     /\ stream[i] # NL /\ stream[i].part = 1
     /\ i = 1 \/ stream[i - 1] = NL
     /\ LET end == i + stream[i].report.size
        IN  end \in DOMAIN stream /\ stream[end] = NL
              /\ SubSeq(stream, i, end - 1) = Frame(stream[i].report)}}

-----------------------------------------------------------------------------
Init ==
  /\ now = 0 /\ off \in Offset /\ Wall >= 0
  /\ ring = <<>> /\ made = 0 /\ dpc = "down" /\ nextAt = 0 /\ sampled = Nothing
  /\ file = FALSE /\ pending = Nothing /\ sent = {} /\ cut = FALSE
  /\ left = Budget
  /\ pipe = <<>>
  /\ reader = FALSE /\ dec = EmptyDecoder /\ rwall = 0 /\ inbox = <<>>
  /\ judged = {} /\ same = FALSE

(* The collector *)

\* A new collector process: a new session, an empty ring and a fresh writer.
StartCollector ==
  /\ dpc = "down"
  /\ dpc' = "loop" /\ nextAt' = now
  /\ ring' = <<>> /\ sampled' = Nothing
  /\ file' = FALSE /\ pending' = Nothing /\ sent' = {} /\ cut' = FALSE /\ left' = Budget
  /\ UNCHANGED <<clock, made, pipe, receiver, ghosts>>

\* Its last open end gone, the FIFO loses what it holds.
CloseWriter == pipe' = IF reader THEN pipe ELSE <<>>

StopCollector ==
  /\ dpc # "down"
  /\ dpc' = "down"
  /\ ring' = <<>> /\ sampled' = Nothing /\ nextAt' = 0
  /\ file' = FALSE /\ pending' = Nothing /\ sent' = {} /\ cut' = FALSE /\ left' = Budget
  /\ CloseWriter
  /\ UNCHANGED <<clock, made, receiver, ghosts>>

\* The worker stamps the sample when it starts.
BeginSample ==
  /\ dpc = "loop" /\ now >= nextAt /\ made < Samples
  /\ dpc' = "sample" /\ nextAt' = now + Cadence /\ made' = made + 1
  /\ \E size \in Size :
       sampled' = [id |-> made + 1, collected |-> Wall, size |-> size, born |-> now]
  /\ UNCHANGED <<clock, ring, writer, pipe, receiver, ghosts>>

\* decode_report validates what the worker wrote.
EndSample ==
  /\ dpc = "sample"
  /\ IF Valid(sampled, Wall) THEN dpc' = "decoded" /\ UNCHANGED sampled
                             ELSE dpc' = "flush" /\ sampled' = Nothing
  /\ UNCHANGED <<clock, ring, made, nextAt, writer, pipe, receiver, ghosts>>

\* Timeout, oversize output or a failed worker: wait for the next interval.
FailSample ==
  /\ dpc = "sample"
  /\ dpc' = "flush" /\ sampled' = Nothing
  /\ UNCHANGED <<clock, ring, made, nextAt, writer, pipe, receiver, ghosts>>

\* push validates against the clock again.
PushSample ==
  /\ dpc = "decoded" /\ Valid(sampled, Wall)
  /\ ring' = Push(ring, sampled, Wall, now)
  /\ dpc' = "flush" /\ sampled' = Nothing
  /\ UNCHANGED <<clock, made, nextAt, writer, pipe, receiver, ghosts>>

\* ... and its error ends the collector.
RejectSample == dpc = "decoded" /\ ~Valid(sampled, Wall) /\ StopCollector

\* No sample is due.
SkipSample ==
  /\ dpc = "loop"
  /\ dpc' = "flush"
  /\ UNCHANGED <<clock, ring, made, nextAt, sampled, writer, pipe, receiver, ghosts>>

(* Writer::flush *)

\* The loop prunes; flush forgets what the ring no longer holds, and cuts a
\* frame it can no longer finish.
BeginFlush ==
  LET kept == Prune(ring, Wall, now)
      stale == pending # Nothing /\ pending.report.id \notin Ids(kept)
  IN
  /\ dpc = "flush"
  /\ ring' = kept
  /\ sent' = sent \cap Ids(kept)
  /\ pending' = IF stale THEN Nothing ELSE pending
  /\ cut' = (cut \/ stale)
  /\ dpc' = IF file THEN "cut" ELSE "open"
  /\ UNCHANGED <<clock, made, nextAt, sampled, file, left, pipe, receiver, ghosts>>
\* A fault: no newline before a new connection.
OpenFifoUncut ==
  /\ dpc = "open"
  /\ IF reader
     THEN file' = TRUE /\ sent' = {} /\ dpc' = "cut" /\ same' = TRUE
     ELSE dpc' = "loop" /\ UNCHANGED <<file, sent, same>>
  /\ UNCHANGED <<clock, ring, made, nextAt, sampled, pending, cut, left, pipe, receiver, judged>>

\* A fault: what the last reader got counts for the next one.
OpenFifoKeepsSent ==
  /\ dpc = "open"
  /\ IF reader
     THEN file' = TRUE /\ cut' = TRUE /\ dpc' = "cut" /\ same' = TRUE
     ELSE dpc' = "loop" /\ UNCHANGED <<file, cut, same>>
  /\ UNCHANGED <<clock, ring, made, nextAt, sampled, pending, sent, left, pipe, receiver, judged>>

OpenFifo ==
  /\ dpc = "open"
  /\ IF reader
     THEN file' = TRUE /\ sent' = {} /\ cut' = TRUE /\ dpc' = "cut" /\ same' = TRUE
     ELSE dpc' = "loop" /\ UNCHANGED <<file, sent, cut, same>>
  /\ UNCHANGED <<clock, ring, made, nextAt, sampled, pending, left, pipe, receiver, judged>>

Room == Len(pipe) < PipeSize

\* write: it succeeds, blocks, or finds that nobody has the other end open.
Written(byte) == reader /\ Room /\ pipe' = Append(pipe, byte)
Blocked == reader /\ ~Room
Broken == ~reader

WriteCut ==
  /\ dpc = "cut"
  /\ \/ ~cut /\ dpc' = "write" /\ UNCHANGED <<cut, pipe>>
     \/ cut /\ Written(NL) /\ cut' = FALSE /\ dpc' = "write"
     \/ cut /\ Blocked /\ dpc' = "loop" /\ UNCHANGED <<cut, pipe>>
     \/ cut /\ Broken /\ dpc' = "close" /\ UNCHANGED <<cut, pipe>>
  /\ UNCHANGED <<clock, ring, made, nextAt, sampled, file, pending, sent, left, receiver, ghosts>>

\* One write of the loop, within its budget.
Put(byte) == left > 0 /\ left' = left - 1 /\ Written(byte)

\* The newest entry that was not sent, unless one is under way.
Unsent == {i \in DOMAIN ring : ring[i].report.id \notin sent}
Current ==
  IF pending # Nothing THEN pending
  ELSE [report |-> ring[CHOOSE i \in Unsent : \A j \in Unsent : j <= i].report, at |-> 0]

NothingToWrite == pending = Nothing /\ Unsent = {}

WriteChunk ==
  /\ dpc = "write" /\ ~NothingToWrite
  /\ Current.at < Current.report.size
  /\ Put(Chunk(Current.report, Current.at + 1))
  /\ pending' = [Current EXCEPT !.at = @ + 1]
  /\ UNCHANGED <<clock, collector, file, sent, cut, receiver, ghosts>>

WriteNewline ==
  /\ dpc = "write" /\ pending # Nothing
  /\ pending.at = pending.report.size
  /\ Put(NL)
  /\ sent' = sent \cup {pending.report.id} /\ pending' = Nothing
  /\ UNCHANGED <<clock, collector, file, cut, receiver, ghosts>>
\* A fault: a write that waits for room.
EndFlushWhenDone ==
  /\ dpc = "write"
  /\ NothingToWrite \/ left = 0
  /\ dpc' = "loop" /\ left' = Budget
  /\ UNCHANGED <<clock, ring, made, nextAt, sampled, file, pending, sent, cut, pipe,
                 receiver, ghosts>>

\* A fault: an interrupted frame starts over.
EndFlushForgets ==
  /\ dpc = "write"
  /\ NothingToWrite \/ left = 0 \/ Blocked
  /\ pending' = Nothing
  /\ dpc' = "loop" /\ left' = Budget
  /\ UNCHANGED <<clock, ring, made, nextAt, sampled, file, sent, cut, pipe, receiver, ghosts>>

\* Nothing is left to write, the FIFO is full, or the budget is used up.
EndFlush ==
  /\ dpc = "write"
  /\ \/ NothingToWrite /\ UNCHANGED pending
     \/ ~NothingToWrite /\ left > 0 /\ Blocked /\ pending' = Current
     \/ ~NothingToWrite /\ left = 0 /\ UNCHANGED pending
  /\ dpc' = "loop" /\ left' = Budget
  /\ UNCHANGED <<clock, ring, made, nextAt, sampled, file, sent, cut, pipe, receiver, ghosts>>
\* A fault: the frame under way survives the connection.
WriteBrokenKeeps ==
  /\ dpc = "write" /\ ~NothingToWrite /\ left > 0 /\ Broken
  /\ sent' = {} /\ dpc' = "close" /\ left' = Budget
  /\ UNCHANGED <<clock, ring, made, nextAt, sampled, file, pending, cut, pipe, receiver, ghosts>>

WriteBroken ==
  /\ dpc = "write" /\ ~NothingToWrite /\ left > 0 /\ Broken
  /\ pending' = Nothing /\ sent' = {} /\ dpc' = "close" /\ left' = Budget
  /\ UNCHANGED <<clock, ring, made, nextAt, sampled, file, cut, pipe, receiver, ghosts>>

\* EPIPE: the writer's end is closed, by when a new reader may have come.
CloseBroken ==
  /\ dpc = "close"
  /\ file' = FALSE /\ dpc' = "loop"
  /\ CloseWriter
  /\ UNCHANGED <<clock, ring, made, nextAt, sampled, pending, sent, cut, left, receiver, ghosts>>

(* The reader *)

OpenReader ==
  /\ ~reader
  /\ reader' = TRUE /\ dec' = EmptyDecoder
  /\ judged' = {} /\ same' = FALSE
  /\ UNCHANGED <<clock, collector, writer, pipe, rwall, inbox>>

\* The publisher ends; what it read and did not use is gone with it.
CloseReader ==
  /\ reader
  /\ reader' = FALSE /\ dec' = EmptyDecoder /\ inbox' = <<>> /\ rwall' = 0
  /\ pipe' = IF file THEN pipe ELSE <<>>
  /\ same' = FALSE
  /\ UNCHANGED <<clock, collector, writer, judged>>

\* read: some bytes, the end of file, or nothing yet.
Read ==
  /\ reader /\ inbox = <<>>
  /\ \E n \in 1..Lesser(ReadSize, Len(pipe)) :
       LET fed == Feed(dec, SubSeq(pipe, 1, n), Wall) IN
       /\ pipe' = SubSeq(pipe, n + 1, Len(pipe))
       /\ dec' = fed.dec
       /\ inbox' = fed.reports
       /\ rwall' = IF fed.reports = <<>> THEN 0 ELSE Wall
       /\ judged' = judged \cup Whole(dec.pending \o SubSeq(pipe, 1, n))
  /\ UNCHANGED <<clock, collector, writer, reader, same>>

ReadEnd ==
  /\ reader /\ inbox = <<>> /\ pipe = <<>> /\ ~file
  /\ dec # EmptyDecoder
  /\ dec' = EmptyDecoder
  /\ UNCHANGED <<clock, collector, writer, pipe, reader, rwall, inbox, ghosts>>

\* The publisher takes what was read (its own steps are in Uplink).
Take ==
  /\ inbox # <<>>
  /\ inbox' = <<>> /\ rwall' = 0
  /\ UNCHANGED <<clock, collector, writer, pipe, reader, dec, ghosts>>

(* The clocks *)

Tick ==
  /\ now < Horizon
  /\ now' = now + 1
  /\ UNCHANGED <<off, collector, writer, pipe, receiver, ghosts>>

StepClock(offset) ==
  /\ offset # off /\ now + offset >= 0
  /\ off' = offset
  /\ UNCHANGED <<now, collector, writer, pipe, receiver, ghosts>>

-----------------------------------------------------------------------------
Sample == BeginSample \/ EndSample \/ FailSample \/ PushSample \/ RejectSample \/ SkipSample

Flush == BeginFlush \/ OpenFifo \/ WriteCut \/ WriteChunk \/ WriteNewline
           \/ EndFlush \/ WriteBroken \/ CloseBroken

Next ==
  \/ StartCollector \/ StopCollector \/ Sample \/ Flush
  \/ OpenReader \/ CloseReader \/ Read \/ ReadEnd \/ Take
  \/ Tick \/ \E offset \in Offset : StepClock(offset)

Spec == Init /\ [][Next]_vars

\* The collector keeps its loop going; the kernel and the reader owe it nothing.
CollectorFairness == WF_vars(Sample \/ Flush)

FairSpec == Spec /\ CollectorFairness

\* A publisher that starts once and keeps reading, and a collector that stays up.
StableNext ==
  \/ StartCollector \/ Sample \/ Flush \/ OpenReader \/ Read \/ ReadEnd \/ Take \/ Tick

StableSpec ==
  /\ Init /\ [][StableNext]_vars
  /\ WF_vars(StartCollector) /\ CollectorFairness
  /\ WF_vars(OpenReader) /\ WF_vars(Read \/ ReadEnd) /\ WF_vars(Take)

-----------------------------------------------------------------------------
(* Properties *)

Sampled == [id : 1..Samples, collected : Nat, size : Size, born : Nat]
Bytewise == [kind : {"chunk"}, report : Sampled, part : 1..MaxReport] \cup {NL}

\* Types of the variables (Ring, Writer, Decoder and the daemon's locals).
TypeOK ==
  /\ now \in 0..Horizon /\ off \in Offset /\ Wall >= 0
  /\ ring \in Seq([report : Sampled, deadline : Nat])
  /\ made \in 0..Samples
  /\ dpc \in {"down", "loop", "sample", "decoded", "flush", "open", "cut", "write", "close"}
  /\ nextAt \in Nat /\ sampled \in Sampled \cup {Nothing}
  /\ file \in BOOLEAN /\ cut \in BOOLEAN /\ sent \subseteq 1..Samples
  /\ pending \in [report : Sampled, at : 0..MaxReport] \cup {Nothing}
  /\ pipe \in Seq(Bytewise) /\ Len(pipe) <= PipeSize
  /\ reader \in BOOLEAN /\ left \in 0..Budget
  /\ dec \in [pending : Seq(Bytewise), discard : BOOLEAN]
  /\ inbox \in Seq(Sampled) /\ rwall \in Nat
  /\ judged \subseteq 1..Samples /\ same \in BOOLEAN

\* What the reader holds and what is still in the FIFO, in order.
Stream == dec.pending \o pipe

Follows(a, b) == a.report = b.report /\ b.part = a.part + 1

\* No stretch between two newlines ever joins pieces of two frames, or two
\* pieces that were not written one after the other: not when a frame is cut
\* because it expired, not when either process restarts in its middle, not when
\* a write finds the reader gone (the newline before every (re)connection).
NoSplice ==
  \A i \in 1..(Len(Stream) - 1) :
    Stream[i] # NL /\ Stream[i + 1] # NL => Follows(Stream[i], Stream[i + 1])

\* A frame is never resumed on another connection or behind a cut: whenever the
\* FIFO is not open or a newline is owed, no frame is half written.
CutMeansNoFrame == ~file \/ cut => pending = Nothing

\* What the writer counts as sent to the reader it opened the FIFO to has been
\* decoded or is whole in front of that reader: `sent` never hides a report
\* that was lost, as long as the reader stays.
SentIsDelivered == same => sent \subseteq judged \cup Whole(Stream)

\* The collector keeps at most its record and byte limits, soonest expiry
\* first, whatever the clock does.
RingBounded ==
  /\ Bytes(ring) <= MaxBytes /\ Len(ring) <= MaxRecords
  /\ \A i, j \in DOMAIN ring : i < j =>
       /\ Expires(ring[i].report) <= Expires(ring[j].report)
       /\ ring[i].report.id # ring[j].report.id

\* A missing or full reader never stops the collector: it always comes back to
\* the top of its loop, where samples are taken.
CollectorNeverStalls == dpc # "down" ~> dpc \in {"down", "loop"}

\* With a reader that stays, every report in the ring is decoded by it, or has
\* left the ring by age or eviction.
EventuallyDelivered ==
  \A id \in 1..Samples : id \in Ids(ring) ~> id \in judged \/ id \notin Ids(ring)
=============================================================================
