----------------------------- MODULE PipeProofs -----------------------------
(***************************************************************************)
(* The two halves of the model MCPipe.                                     *)
(*                                                                         *)
(* Safety of the handoff for every FIFO capacity, read size, report size,  *)
(* write budget, sequence of clock steps, crash and restart of either      *)
(* side: the bytes in flight never splice two frames (NoSplice), a frame   *)
(* is never resumed behind a cut (CutMeansNoFrame), what the writer counts *)
(* as sent was decoded or is whole in front of the reader                  *)
(* (SentIsDelivered), the collector's ring keeps its limits (RingBounded)  *)
(* and the decoder never has to discard (NeverDiscards).                   *)
(*                                                                         *)
(* The halves together keep their buffers within the limits                *)
(* (BuffersBounded), and what is proved of the publisher's threads in      *)
(* general (UplinkProofs) holds of the instance that TLC checks.           *)
(***************************************************************************)
EXTENDS MCPipe, TLAPS, FiniteSetTheorems, SequenceTheorems

\* What is proved of the ring with the publisher's queue holds of the collector's: the reports
\* that may reach the publisher do not matter to it.
RP == INSTANCE UplinkProofs WITH Report <- {}, Offset <- {0}, Horizon <- 0,
                                 inbox <- received, rwall <- received_at

LEMMA RingAssumptions == RP!RingAssumption /\ RP!UplinkAssumption
BY RingAssumption DEF RP!RingAssumption, RP!UplinkAssumption

\* A set of numbers that is not empty has a least one.
LEMMA Least ==
  ASSUME NEW T, T \subseteq Nat, T # {}
  PROVE  \E x \in T : \A y \in T : x <= y
BY RingAssumptions, RP!Least

\* Induction up to a number, over the set of numbers that have the property.
LEMMA UpTo ==
  ASSUME NEW N \in Nat, NEW S, 0 \in S, \A n \in 1..N : n - 1 \in S => n \in S
  PROVE  \A n \in 0..N : n \in S
BY RingAssumptions, RP!UpTo

\* Any reports: their ids, and sizes and times that are numbers.
Sized(X) == \A r \in X : r.collected \in Nat /\ r.size \in Nat

Entries(X) == [report : X, deadline : Nat]

\* Soonest expiry first, and no report twice.
Sorted(r) ==
  \A i, j \in DOMAIN r : i < j =>
    /\ Expires(r[i].report) <= Expires(r[j].report)
    /\ r[i].report.id # r[j].report.id

\* What holds of a ring between any two operations.
Orderly(r) == Fits(r) /\ Sorted(r)

LEMMA OrderlyIs ==
  ASSUME NEW r
  PROVE  RP!Orderly(r) <=> Orderly(r)
BY DEF RP!Orderly, Orderly, RP!Fits, Fits, RP!Bytes, Bytes, RP!Sums, Sums, RP!Sorted, Sorted,
       RP!Expires, Expires

LEMMA SizedIs ==
  ASSUME NEW X
  PROVE  (RP!Sized(X) <=> Sized(X)) /\ RP!Entries(X) = Entries(X)
BY DEF RP!Sized, Sized, RP!Entries, Entries

LEMMA EmptyFits == Fits(<<>>) /\ Sorted(<<>>)
<1>1. RP!Fits(<<>>) /\ RP!Sorted(<<>>)
  BY RingAssumptions, RP!EmptyFits
<1>2. RP!Orderly(<<>>)
  BY <1>1 DEF RP!Orderly
<1> QED BY <1>2, OrderlyIs DEF Orderly

LEMMA PruneIs ==
  ASSUME NEW r, NEW wall, NEW mono
  PROVE  RP!Prune(r, wall, mono) = Prune(r, wall, mono)
BY DEF RP!Prune, Prune, RP!Retain, Retain, RP!Retained, Retained, RP!ToSet, ToSet,
       RP!Expires, Expires

LEMMA PushIs ==
  ASSUME NEW r, NEW report, NEW wall, NEW mono
  PROVE  RP!Push(r, report, wall, mono) = Push(r, report, wall, mono)
<1>1. ASSUME NEW x PROVE RP!Fits(x) <=> Fits(x)
  BY DEF RP!Fits, Fits, RP!Bytes, Bytes, RP!Sums, Sums
<1>2. ASSUME NEW x PROVE RP!Evict(x) = Evict(x)
  BY <1>1 DEF RP!Evict, Evict
<1>3. ASSUME NEW x, NEW e PROVE RP!Insert(x, e) = Insert(x, e)
  BY DEF RP!Insert, Insert, RP!InsertAt, InsertAt, RP!Cardinality, Cardinality,
         RP!IsFiniteSet, IsFiniteSet, RP!Expires, Expires
<1>4. RP!EntryOf(report, wall, mono) = EntryOf(report, wall, mono)
  BY DEF RP!EntryOf, EntryOf, RP!Lesser, Lesser, RP!Expires, Expires
<1>5. ASSUME NEW x PROVE RP!Ids(x) = Ids(x)
  BY DEF RP!Ids, Ids
<1> QED BY <1>2, <1>3, <1>4, <1>5, PruneIs DEF RP!Push, Push

\* prune: what is left is within the limits and in order.
LEMMA PruneOrderly ==
  ASSUME NEW X, Sized(X), NEW r \in Seq(Entries(X)), Orderly(r), NEW wall, NEW mono
  PROVE  Prune(r, wall, mono) \in Seq(Entries(X)) /\ Orderly(Prune(r, wall, mono))
<1>1. RP!Sized(X) /\ r \in Seq(RP!Entries(X)) /\ RP!Orderly(r)
  BY SizedIs, OrderlyIs
<1>2. /\ RP!Prune(r, wall, mono) \in Seq(RP!Entries(X))
      /\ RP!Orderly(RP!Prune(r, wall, mono))
  BY <1>1, RingAssumptions, RP!PruneOrderly
<1> QED BY <1>2, SizedIs, OrderlyIs, PruneIs

\* push: a report that has not expired goes to its place, and the oldest make room for it.
LEMMA PushOrderly ==
  ASSUME NEW X, Sized(X), NEW r \in Seq(Entries(X)), Orderly(r),
         NEW report \in X, NEW wall \in Int, NEW mono \in Nat, Expires(report) > wall
  PROVE  /\ Push(r, report, wall, mono) \in Seq(Entries(X))
         /\ Orderly(Push(r, report, wall, mono))
<1>1. RP!Sized(X) /\ r \in Seq(RP!Entries(X)) /\ RP!Orderly(r) /\ RP!Expires(report) > wall
  BY SizedIs, OrderlyIs DEF RP!Expires, Expires
<1>2. /\ RP!Push(r, report, wall, mono) \in Seq(RP!Entries(X))
      /\ RP!Orderly(RP!Push(r, report, wall, mono))
  BY <1>1, RingAssumptions, RP!PushOrderly
<1> QED BY <1>2, SizedIs, OrderlyIs, PushIs

-----------------------------------------------------------------------------
(* The handoff *)

\* Where the collector's loop can be with which writer.
Places ==
  /\ dpc \in {"down", "open"} => ~file
  /\ dpc \in {"cut", "write", "close"} => file
  /\ dpc = "write" => ~cut
  /\ dpc = "close" => pending = Nothing /\ ~same
  /\ dpc \in {"sample", "decoded"} => sampled \in Sampled
  /\ pending # Nothing => pending.at <= pending.report.size

\* A reader that is not there has read nothing; one that the writer opened the FIFO to is there.
Readers ==
  /\ ~reader => dec = EmptyDecoder
  /\ same => reader
  /\ same /\ ~file => sent = {}

\* The decoder holds the bytes since the last newline, and never too many of them.
NeverDiscards ==
  /\ ~dec.discard
  /\ \A i \in DOMAIN dec.pending : dec.pending[i] # NL

\* The last byte in flight is the last one written: of the frame under way, or a newline.
LastWritten ==
  file /\ ~cut /\ dpc # "close" /\ Stream # <<>> =>
    Stream[Len(Stream)] = IF pending # Nothing /\ pending.at > 0
                          THEN Chunk(pending.report, pending.at) ELSE NL

\* Bytes that end with the first k chunks of a frame, from the start of a line.
EndsWith(stream, report, k) ==
  /\ k <= Len(stream)
  /\ \A i \in 1..k : stream[Len(stream) - k + i] = Chunk(report, i)
  /\ k = Len(stream) \/ stream[Len(stream) - k] = NL

\* The reader that saw the start of a frame still has all of it.
UnderWay ==
  same /\ file /\ ~cut /\ pending # Nothing /\ pending.at > 0 =>
    EndsWith(Stream, pending.report, pending.at)

\* The inductive invariant.
HInv ==
  /\ TypeOK /\ Orderly(ring) /\ Places /\ Readers /\ NeverDiscards
  /\ LastWritten /\ UnderWay
  /\ CutMeansNoFrame /\ NoSplice /\ SentIsDelivered

-----------------------------------------------------------------------------
(* Types *)

LEMMA SampledSized ==
  /\ Sized(Sampled) /\ Sampled \subseteq [id : Nat, collected : Nat, size : Nat, born : Nat]
  /\ \A r \in Sampled : r.size \in 1..MaxReport /\ r.id \in 1..Samples /\ r.collected \in Nat
  /\ [report : Sampled, deadline : Nat] = Entries(Sampled)
<1>1. ASSUME NEW r \in Sampled
      PROVE  /\ r \in [id : Nat, collected : Nat, size : Nat, born : Nat]
             /\ r.size \in 1..MaxReport /\ r.id \in 1..Samples /\ r.collected \in Nat
  <2>1. /\ r = [id |-> r.id, collected |-> r.collected, size |-> r.size, born |-> r.born]
        /\ r.id \in 1..Samples /\ r.collected \in Nat /\ r.size \in Size /\ r.born \in Nat
    BY DEF Sampled
  <2>2. r.size \in 1..MaxReport /\ r.size \in Nat /\ r.id \in Nat
    BY <2>1, HandoffAssumption
  <2> QED
    BY <2>1, <2>2
<1>2. Sized(Sampled)
  BY <1>1 DEF Sized
<1> QED
  BY <1>1, <1>2 DEF Entries

\* A frame under way is not Nothing.
LEMMA FrameIsSomething ==
  ASSUME NEW f \in [report : Sampled, at : Nat]
  PROVE  f # Nothing
<1>1. f \in [report : [id : Nat, collected : Nat, size : Nat, born : Nat], at : Nat]
  BY SampledSized
<1> QED
  BY <1>1, HandoffAssumption

\* The ring holds entries only.
LEMMA RingType ==
  ASSUME TypeOK
  PROVE  /\ ring \in Seq(Entries(Sampled)) /\ Len(ring) \in Nat
         /\ \A i \in DOMAIN ring : ring[i] \in Entries(Sampled) /\ ring[i].report \in Sampled
<1>1. ring \in Seq(Entries(Sampled))
  BY SampledSized DEF TypeOK
<1>2. Len(ring) \in Nat /\ \A i \in DOMAIN ring : ring[i] \in Entries(Sampled)
  BY <1>1
<1> QED
  BY <1>1, <1>2 DEF Entries

\* What is written next: the frame under way, or the newest entry that was not sent.
LEMMA CurrentType ==
  ASSUME TypeOK, Places, ~NothingToWrite
  PROVE  /\ Current \in [report : Sampled, at : 0..MaxReport] /\ Current # Nothing
         /\ Current.at <= Current.report.size
         /\ pending # Nothing => Current = pending
         /\ pending = Nothing => Current.at = 0
<1>1. CASE pending # Nothing
  BY <1>1 DEF TypeOK, Places, Current
<1>2. CASE pending = Nothing
  <2>1. Unsent # {} /\ Unsent \subseteq 1..Len(ring) /\ Len(ring) \in Nat
    BY <1>2, RingType DEF NothingToWrite, Unsent
  <2> DEFINE T == {Len(ring) - i : i \in Unsent}
  <2>2. PICK m \in T : \A x \in T : m <= x
    <3>1. T # {} /\ T \subseteq Nat
      <4>1. \A i \in Unsent : Len(ring) - i \in Nat
        BY <2>1
      <4> QED
        BY <2>1, <4>1
    <3> HIDE DEF T
    <3> QED
      BY <3>1, Least
  <2>3. \E i \in Unsent : \A j \in Unsent : j <= i
    <3>1. PICK i \in Unsent : m = Len(ring) - i
      BY <2>2
    <3>2. ASSUME NEW j \in Unsent PROVE j <= i
      <4>1. Len(ring) - j \in T
        OBVIOUS
      <4>2. m <= Len(ring) - j
        BY <2>2, <4>1
      <4> QED
        BY <2>1, <3>1, <4>2
    <3> QED
      BY <3>2
  <2> DEFINE c == CHOOSE i \in Unsent : \A j \in Unsent : j <= i
  <2>4. c \in Unsent
    BY <2>3
  <2>5. Current = [report |-> ring[c].report, at |-> 0]
    BY <1>2 DEF Current
  <2> HIDE DEF c
  <2>6. ring[c].report \in Sampled
    BY <2>1, <2>4, RingType
  <2>7. Current \in [report : Sampled, at : 0..MaxReport] /\ Current.at = 0
    BY <2>5, <2>6, HandoffAssumption
  <2>8. Current # Nothing
    BY <2>7, FrameIsSomething
  <2>9. Current.at <= Current.report.size
    BY <2>5, <2>6, <2>7, SampledSized
  <2> QED
    BY <1>2, <2>7, <2>8, <2>9
<1> QED
  BY <1>1, <1>2

\* Chunks and newlines are told apart.
LEMMA ChunkType ==
  ASSUME NEW r \in Sampled, NEW i \in 1..MaxReport
  PROVE  Chunk(r, i) \in Bytewise /\ Chunk(r, i) # NL
BY DEF Chunk, NL, Bytewise

LEMMA BytewiseCases ==
  ASSUME NEW b \in Bytewise, b # NL
  PROVE  /\ b.report \in Sampled /\ b.part \in 1..MaxReport /\ b = Chunk(b.report, b.part)
BY DEF Chunk, NL, Bytewise

-----------------------------------------------------------------------------
(* The decoder *)

\* One more byte fed: FeedEach's recursive step.
FedStep(fed, byte, wall) ==
  LET step == FeedOne(fed.dec, byte, wall)
  IN  [dec |-> step.dec, reports |-> fed.reports \o step.reports]

\* The recursive definition of FeedEach defines a function.
LEMMA FedDef ==
  ASSUME NEW d, NEW bytes, NEW wall, Len(bytes) \in Nat
  PROVE  /\ FeedEach(d, bytes, wall)[0] = [dec |-> d, reports |-> <<>>]
         /\ \A n \in 1..Len(bytes) :
              FeedEach(d, bytes, wall)[n] = FedStep(FeedEach(d, bytes, wall)[n - 1], bytes[n], wall)
<1> DEFINE N == Len(bytes)
           start == [dec |-> d, reports |-> <<>>]
           Is(fed, k) == fed = [n \in 0..k |->
             IF n = 0 THEN start ELSE FedStep(fed[n - 1], bytes[n], wall)]
           T == {k \in 0..N : \E fed : Is(fed, k)}
           f == FeedEach(d, bytes, wall)
<1>0. N \in Nat
  OBVIOUS
<1>1. f = CHOOSE fed : Is(fed, N)
  BY DEF FeedEach, FedStep
<1> HIDE DEF start, f, N
<1>2. 0 \in T
  <2>1. Is([n \in 0..0 |-> start], 0)
    OBVIOUS
  <2>2. \E fed : Is(fed, 0)
    BY <2>1
  <2> HIDE DEF Is
  <2> QED
    BY <1>0, <2>2
<1>3. ASSUME NEW k \in 1..N, k - 1 \in T PROVE k \in T
  <2>1. PICK fed : Is(fed, k - 1)
    BY <1>3
  <2> DEFINE next == [n \in 0..k |-> IF n = k THEN FedStep(fed[k - 1], bytes[k], wall) ELSE fed[n]]
  <2>2. ASSUME NEW n \in 0..k
        PROVE  next[n] = IF n = 0 THEN start ELSE FedStep(next[n - 1], bytes[n], wall)
    <3>1. CASE n = k
      <4>1. next[n] = FedStep(fed[k - 1], bytes[k], wall) /\ next[n - 1] = fed[n - 1] /\ n # 0
        BY <1>0, <3>1
      <4> QED
        BY <3>1, <4>1
    <3>2. CASE n # k
      <4>1. n \in 0..(k - 1)
        BY <1>0, <3>2
      <4>2. next[n] = fed[n] /\ (n # 0 => next[n - 1] = fed[n - 1])
        BY <1>0, <3>2
      <4> QED
        BY <2>1, <4>1, <4>2
    <3> QED
      BY <3>1, <3>2
  <2>3. Is(next, k)
    BY <2>2
  <2>4. \E g : Is(g, k)
    BY <2>3
  <2> HIDE DEF Is
  <2> QED
    BY <1>0, <2>4
<1> HIDE DEF T
<1>4. \A k \in 0..N : k \in T
  BY <1>0, <1>2, <1>3, UpTo
<1>5. Is(f, N)
  <2> HIDE DEF Is
  <2> QED
    BY <1>0, <1>1, <1>4 DEF T
<1>6. f[0] = start
  BY <1>0, <1>5
<1>7. ASSUME NEW n \in 1..N PROVE f[n] = FedStep(f[n - 1], bytes[n], wall)
  <2>1. n \in 0..N /\ n # 0
    BY <1>0
  <2> QED
    BY <1>5, <2>1
<1> QED
  BY <1>6, <1>7 DEF f, start, N

Decoders == [pending : Seq(Bytewise), discard : BOOLEAN]

\* Two neighbours of one line belong to one frame, in order (NoSplice, of any stream).
Chained(stream) ==
  \A i \in 1..(Len(stream) - 1) :
    stream[i] # NL /\ stream[i + 1] # NL => Follows(stream[i], stream[i + 1])

\* The positions from the first to the last are within one line.
OneLine(stream, first, last) == \A i \in first..last : stream[i] # NL

\* A line is never longer than a report.
LEMMA LineLength ==
  ASSUME NEW s \in Seq(Bytewise), Chained(s), NEW a \in 1..Len(s), NEW b \in a..Len(s),
         OneLine(s, a, b)
  PROVE  b - a + 1 <= MaxReport
<1> DEFINE T == {n \in 0..(b - a) : s[a + n].part = s[a].part + n}
<1>0. /\ b - a \in Nat /\ a \in Nat /\ b \in Nat /\ MaxReport \in Nat
      /\ \A i \in a..b : i \in 1..Len(s) /\ s[i] \in Bytewise /\ s[i] # NL /\ s[i].part \in 1..MaxReport
  <2>1. \A i \in a..b : i \in 1..Len(s) /\ s[i] \in Bytewise /\ s[i] # NL
    BY DEF OneLine
  <2> QED
    BY <2>1, BytewiseCases, HandoffAssumption
<1>1. 0 \in T
  <2>1. a + 0 = a /\ a \in a..b
    BY <1>0
  <2>2. s[a].part \in Nat
    BY <1>0, <2>1
  <2> QED
    BY <1>0, <2>1, <2>2
<1>2. ASSUME NEW n \in 1..(b - a), n - 1 \in T PROVE n \in T
  <2>1. /\ a + (n - 1) \in a..b /\ a + n \in a..b /\ a + (n - 1) \in 1..(Len(s) - 1)
        /\ (a + (n - 1)) + 1 = a + n
    BY <1>0
  <2>2. Follows(s[a + (n - 1)], s[a + n])
    BY <1>0, <2>1 DEF Chained
  <2>3. s[a + n].part = s[a + (n - 1)].part + 1
    BY <2>2 DEF Follows
  <2>4. s[a].part \in Nat /\ s[a + (n - 1)].part = s[a].part + (n - 1)
    BY <1>0, <1>2
  <2>5. n \in Nat /\ n \in 0..(b - a)
    BY <1>0
  <2>6. s[a + n].part = s[a].part + n
    BY <2>3, <2>4, <2>5
  <2> QED
    BY <2>5, <2>6
<1> HIDE DEF T
<1>3. \A n \in 0..(b - a) : n \in T
  BY <1>0, <1>1, <1>2, UpTo
<1>4. s[a + (b - a)].part = s[a].part + (b - a)
  BY <1>0, <1>3 DEF T
<1>5. a + (b - a) = b /\ b \in a..b /\ a \in a..b
  BY <1>0
<1>6. s[b].part <= MaxReport /\ s[a].part >= 1 /\ s[b].part \in Nat /\ s[a].part \in Nat
  BY <1>0, <1>5
<1>7. b - a \in Nat /\ MaxReport \in Nat
  BY <1>0
<1>8. s[b].part = s[a].part + (b - a)
  BY <1>4, <1>5
<1> QED
  BY <1>6, <1>7, <1>8

\* A whole line gives reports that were collected.
LEMMA ParsedType ==
  ASSUME NEW bytes \in Seq(Bytewise), \A i \in DOMAIN bytes : bytes[i] # NL, NEW wall
  PROVE  Parsed(bytes, wall) \in Seq(Sampled)
<1>1. CASE bytes = <<>>
  BY <1>1 DEF Parsed
<1>2. CASE bytes # <<>>
  <2>1. 1 \in DOMAIN bytes /\ bytes[1] \in Bytewise
    BY <1>2
  <2>2. bytes[1].report \in Sampled
    BY <2>1, BytewiseCases
  <2> QED
    BY <2>2 DEF Parsed
<1> QED
  BY <1>1, <1>2

\* Of the first m bytes in flight, the decoder keeps those behind the last newline.
Keeps(d, stream, m) ==
  /\ d \in Decoders /\ ~d.discard
  /\ \E k \in 0..m : /\ d.pending = SubSeq(stream, k + 1, m)
                     /\ k = 0 \/ stream[k] = NL
                     /\ OneLine(stream, k + 1, m)

LEMMA SubSeqOne ==
  ASSUME NEW S, NEW s \in Seq(S), NEW k \in 0..Len(s), NEW m \in k..Len(s)
  PROVE  /\ SubSeq(s, k + 1, m) \in Seq(S) /\ Len(SubSeq(s, k + 1, m)) = m - k
         /\ \A i \in 1..(m - k) : SubSeq(s, k + 1, m)[i] = s[k + i]
<1>1. k \in Nat /\ m \in Nat /\ k <= m /\ \A i \in (k + 1)..m : s[i] \in S
  OBVIOUS
<1> DEFINE t == SubSeq(s, k + 1, m)
<1>2. /\ t \in Seq(S) /\ Len(t) = (IF k + 1 <= m THEN m - (k + 1) + 1 ELSE 0)
      /\ \A i \in 1..(m - (k + 1) + 1) : t[i] = s[k + 1 + i - 1]
  BY <1>1, SubSeqProperties
<1> HIDE DEF t
<1>3. Len(t) = m - k
  BY <1>1, <1>2
<1>4. ASSUME NEW i \in 1..(m - k) PROVE t[i] = s[k + i]
  <2>1. i \in 1..(m - (k + 1) + 1) /\ k + 1 + i - 1 = k + i
    BY <1>1
  <2> QED
    BY <1>2, <2>1
<1> QED
  BY <1>2, <1>3, <1>4 DEF t

\* One byte more.
LEMMA KeepsNext ==
  ASSUME NEW s \in Seq(Bytewise), Chained(s), NEW m \in 0..(Len(s) - 1),
         NEW d, Keeps(d, s, m), NEW wall
  PROVE  /\ Keeps(FeedOne(d, s[m + 1], wall).dec, s, m + 1)
         /\ FeedOne(d, s[m + 1], wall).reports \in Seq(Sampled)
<1>1. PICK k \in 0..m : /\ d.pending = SubSeq(s, k + 1, m)
                        /\ k = 0 \/ s[k] = NL
                        /\ OneLine(s, k + 1, m)
  BY DEF Keeps
<1>2. d \in Decoders /\ ~d.discard /\ d.discard = FALSE
  BY DEF Keeps, Decoders
<1>3. /\ Len(s) \in Nat /\ m \in Nat /\ k \in Nat /\ k \in 0..Len(s) /\ m \in k..Len(s)
      /\ m + 1 \in k..Len(s) /\ m + 1 \in 1..Len(s) /\ s[m + 1] \in Bytewise
  OBVIOUS
<1>4. /\ d.pending \in Seq(Bytewise) /\ Len(d.pending) = m - k
      /\ \A i \in 1..(m - k) : d.pending[i] = s[k + i]
  BY <1>1, <1>3, SubSeqOne
<1>5. CASE s[m + 1] = NL
  <2>1. /\ FeedOne(d, s[m + 1], wall).dec = EmptyDecoder
        /\ FeedOne(d, s[m + 1], wall).reports = Parsed(d.pending, wall)
    BY <1>2, <1>5 DEF FeedOne
  <2>2. \A i \in DOMAIN d.pending : d.pending[i] # NL
    <3>1. ASSUME NEW i \in 1..(m - k) PROVE s[k + i] # NL
      <4>1. k + i \in (k + 1)..m
        BY <1>3
      <4> QED
        BY <1>1, <4>1 DEF OneLine
    <3>2. DOMAIN d.pending = 1..(m - k)
      BY <1>4
    <3> QED
      BY <1>4, <3>1, <3>2
  <2>3. FeedOne(d, s[m + 1], wall).reports \in Seq(Sampled)
    BY <1>4, <2>1, <2>2, ParsedType
  <2>4. SubSeq(s, m + 1 + 1, m + 1) = <<>>
    BY <1>3, SubSeqEmpty
  <2>5. EmptyDecoder \in Decoders /\ EmptyDecoder.pending = <<>> /\ ~EmptyDecoder.discard
    BY DEF EmptyDecoder, Decoders
  <2>6. OneLine(s, m + 1 + 1, m + 1)
    BY <1>3 DEF OneLine
  <2>7. Keeps(EmptyDecoder, s, m + 1)
    BY <1>3, <1>5, <2>4, <2>5, <2>6 DEF Keeps
  <2> QED
    BY <2>1, <2>3, <2>7
<1>6. CASE s[m + 1] # NL
  <2>1. OneLine(s, k + 1, m + 1)
    <3>1. ASSUME NEW i \in (k + 1)..(m + 1) PROVE s[i] # NL
      <4>1. i \in (k + 1)..m \/ i = m + 1
        BY <1>3
      <4> QED
        BY <1>1, <1>6, <4>1 DEF OneLine
    <3> QED
      BY <3>1 DEF OneLine
  <2>2. m - k < MaxReport
    <3>1. k + 1 \in 1..Len(s) /\ m + 1 \in (k + 1)..Len(s)
      BY <1>3
    <3>2. (m + 1) - (k + 1) + 1 <= MaxReport
      BY <2>1, <3>1, LineLength
    <3> QED
      BY <1>3, <3>2, HandoffAssumption
  <2>3. ~(Len(d.pending) >= MaxReport)
    BY <1>3, <1>4, <2>2, HandoffAssumption
  <2> DEFINE next == [d EXCEPT !.pending = Append(d.pending, s[m + 1])]
  <2>4. /\ FeedOne(d, s[m + 1], wall).dec = next
        /\ FeedOne(d, s[m + 1], wall).reports = <<>>
    BY <1>2, <1>6, <2>3 DEF FeedOne
  <2>5. next \in Decoders /\ next.pending = Append(d.pending, s[m + 1]) /\ ~next.discard
    <3>1. Append(d.pending, s[m + 1]) \in Seq(Bytewise)
      BY <1>3, <1>4
    <3> QED
      BY <1>2, <3>1 DEF Decoders
  <2> DEFINE t == SubSeq(s, k + 1, m + 1)
             u == Append(d.pending, s[m + 1])
  <2>6. /\ t \in Seq(Bytewise) /\ Len(t) = m + 1 - k
        /\ \A i \in 1..(m + 1 - k) : t[i] = s[k + i]
    BY <1>3, SubSeqOne
  <2>7. /\ u \in Seq(Bytewise) /\ Len(u) = m + 1 - k
        /\ \A i \in 1..(m + 1 - k) : u[i] = s[k + i]
    <3>1. /\ u \in Seq(Bytewise) /\ Len(u) = m - k + 1 /\ u[m - k + 1] = s[m + 1]
          /\ \A i \in 1..(m - k) : u[i] = d.pending[i]
      BY <1>3, <1>4
    <3> HIDE DEF u
    <3>2. ASSUME NEW i \in 1..(m + 1 - k) PROVE u[i] = s[k + i]
      <4>1. CASE i \in 1..(m - k)
        BY <1>4, <3>1, <4>1
      <4>2. CASE i = m - k + 1
        <5>1. k + i = m + 1
          BY <1>3, <4>2
        <5> QED
          BY <3>1, <4>2, <5>1
      <4> QED
        BY <1>3, <4>1, <4>2
    <3> QED
      BY <1>3, <3>1, <3>2
  <2>8. t = u
    <3> HIDE DEF t, u
    <3> QED
      BY <2>6, <2>7, SeqEqual
  <2> HIDE DEF next
  <2>9. Keeps(next, s, m + 1)
    <3>1. k \in 0..(m + 1)
      BY <1>3
    <3> QED
      BY <1>1, <2>1, <2>5, <2>8, <3>1 DEF Keeps
  <2> QED
    BY <2>4, <2>9
<1> QED
  BY <1>5, <1>6

\* One sequence behind another, position by position.
LEMMA JoinedBytes ==
  ASSUME NEW S, NEW p \in Seq(S), NEW b \in Seq(S)
  PROVE  /\ p \o b \in Seq(S) /\ Len(p \o b) = Len(p) + Len(b)
         /\ Len(p) \in Nat /\ Len(b) \in Nat
         /\ \A i \in 1..Len(p) : (p \o b)[i] = p[i]
         /\ \A i \in 1..Len(b) : (p \o b)[Len(p) + i] = b[i]
<1> DEFINE s == p \o b
           L == Len(p)
           N == Len(b)
<1>1. /\ s \in Seq(S) /\ Len(s) = L + N
      /\ \A i \in 1..(L + N) : s[i] = IF i <= L THEN p[i] ELSE b[i - L]
  BY ConcatProperties
<1>2. L \in Nat /\ N \in Nat
  OBVIOUS
<1> HIDE DEF s, L, N
<1>3. ASSUME NEW i \in 1..N PROVE s[L + i] = b[i]
  <2>1. L + i \in 1..(L + N) /\ ~(L + i <= L) /\ (L + i) - L = i
    BY <1>2
  <2>2. s[L + i] = b[(L + i) - L]
    BY <1>1, <2>1
  <2> QED
    BY <2>1, <2>2
<1>4. \A i \in 1..L : s[i] = p[i]
  BY <1>1, <1>2
<1> QED
  BY <1>1, <1>2, <1>3, <1>4 DEF s, L, N

\* What each byte of a read leaves in the decoder, and what it gives.
LEMMA FedKeeps ==
  ASSUME NEW d \in Decoders, ~d.discard, \A i \in DOMAIN d.pending : d.pending[i] # NL,
         NEW bytes \in Seq(Bytewise), Chained(d.pending \o bytes), NEW wall
  PROVE  \A n \in 0..Len(bytes) :
           /\ Keeps(FeedEach(d, bytes, wall)[n].dec, d.pending \o bytes, Len(d.pending) + n)
           /\ FeedEach(d, bytes, wall)[n].reports \in Seq(Sampled)
<1> DEFINE s == d.pending \o bytes
           L == Len(d.pending)
           N == Len(bytes)
           f == FeedEach(d, bytes, wall)
           T == {n \in 0..N : Keeps(f[n].dec, s, L + n) /\ f[n].reports \in Seq(Sampled)}
<1>0. d.pending \in Seq(Bytewise)
  BY DEF Decoders
<1>1. /\ s \in Seq(Bytewise) /\ Len(s) = L + N /\ L \in Nat /\ N \in Nat
      /\ \A i \in 1..L : s[i] = d.pending[i]
      /\ \A i \in 1..N : s[L + i] = bytes[i]
  BY <1>0, JoinedBytes
<1>2. f[0] = [dec |-> d, reports |-> <<>>] /\ \A n \in 1..N : f[n] = FedStep(f[n - 1], bytes[n], wall)
  BY <1>1, FedDef
<1>3. Chained(s)
  OBVIOUS
<1>a. DOMAIN d.pending = 1..L
  BY <1>0
<1>4. SubSeq(s, 1, L) = d.pending
  <2>1. 0 \in 0..Len(s) /\ L \in 0..Len(s) /\ L - 0 = L /\ 0 + 1 = 1 /\ \A i \in 1..L : 0 + i = i
    BY <1>1
  <2>2. /\ SubSeq(s, 1, L) \in Seq(Bytewise) /\ Len(SubSeq(s, 1, L)) = L
        /\ \A i \in 1..L : SubSeq(s, 1, L)[i] = s[i]
    <3> HIDE DEF s, L
    <3>1. /\ SubSeq(s, 0 + 1, L) \in Seq(Bytewise) /\ Len(SubSeq(s, 0 + 1, L)) = L - 0
          /\ \A i \in 1..(L - 0) : SubSeq(s, 0 + 1, L)[i] = s[0 + i]
      BY <1>1, <2>1, SubSeqOne
    <3> QED
      BY <2>1, <3>1
  <2>3. /\ Len(SubSeq(s, 1, L)) = Len(d.pending)
        /\ \A i \in 1..Len(SubSeq(s, 1, L)) : SubSeq(s, 1, L)[i] = d.pending[i]
    BY <1>1, <2>2
  <2> QED
    BY <1>0, <2>2, <2>3, SeqEqual
<1> HIDE DEF s, L, N, f
<1>5. 0 \in T
  <2>1. OneLine(s, 0 + 1, L)
    <3>1. ASSUME NEW i \in (0 + 1)..L PROVE s[i] # NL
      <4>1. i \in 1..L /\ i \in DOMAIN d.pending
        BY <1>1, <1>a
      <4> QED
        BY <1>1, <4>1
    <3> QED
      BY <3>1 DEF OneLine
  <2>2. Keeps(d, s, L + 0)
    <3>1. 0 \in 0..L /\ 0 + 1 = 1 /\ L + 0 = L
      BY <1>1
    <3> QED
      BY <1>4, <2>1, <3>1 DEF Keeps
  <2>3. f[0].dec = d /\ f[0].reports = <<>> /\ <<>> \in Seq(Sampled)
    BY <1>2
  <2>4. Keeps(f[0].dec, s, L + 0) /\ f[0].reports \in Seq(Sampled)
    BY <2>2, <2>3
  <2> QED
    BY <1>1, <2>4
<1>6. ASSUME NEW n \in 1..N, n - 1 \in T PROVE n \in T
  <2>1. L + (n - 1) \in 0..(Len(s) - 1) /\ (L + (n - 1)) + 1 = L + n /\ s[L + n] = bytes[n]
    BY <1>1
  <2>2. Keeps(f[n - 1].dec, s, L + (n - 1)) /\ f[n - 1].reports \in Seq(Sampled)
    BY <1>6
  <2>3. /\ Keeps(FeedOne(f[n - 1].dec, bytes[n], wall).dec, s, L + n)
        /\ FeedOne(f[n - 1].dec, bytes[n], wall).reports \in Seq(Sampled)
    BY <1>1, <1>3, <2>1, <2>2, KeepsNext
  <2> DEFINE step == FeedOne(f[n - 1].dec, bytes[n], wall)
  <2>5. f[n].dec = step.dec /\ f[n].reports = f[n - 1].reports \o step.reports
    <3>1. f[n] = FedStep(f[n - 1], bytes[n], wall)
      BY <1>2
    <3>2. /\ FedStep(f[n - 1], bytes[n], wall).dec = step.dec
          /\ FedStep(f[n - 1], bytes[n], wall).reports = f[n - 1].reports \o step.reports
      BY DEF FedStep
    <3> HIDE DEF step
    <3> QED
      BY <3>1, <3>2
  <2> HIDE DEF step
  <2>6. f[n].reports \in Seq(Sampled)
    BY <2>2, <2>3, <2>5 DEF step
  <2>7. Keeps(f[n].dec, s, L + n)
    BY <2>3, <2>5 DEF step
  <2> QED
    BY <1>1, <2>6, <2>7
<1> HIDE DEF T
<1>7. \A n \in 0..N : n \in T
  BY <1>1, <1>5, <1>6, UpTo
<1> QED
  BY <1>7 DEF T, f, s, L, N

\* What a read leaves in the decoder, and what it gives.
LEMMA FeedKeeps ==
  ASSUME NEW d \in Decoders, ~d.discard, \A i \in DOMAIN d.pending : d.pending[i] # NL,
         NEW bytes \in Seq(Bytewise), Chained(d.pending \o bytes), NEW wall
  PROVE  /\ Keeps(Feed(d, bytes, wall).dec, d.pending \o bytes, Len(d.pending) + Len(bytes))
         /\ Feed(d, bytes, wall).reports \in Seq(Sampled)
<1>1. Len(bytes) \in 0..Len(bytes)
  OBVIOUS
<1> QED
  BY <1>1, FedKeeps DEF Feed

-----------------------------------------------------------------------------
(* Whole frames *)

\* A whole frame starts here.
FrameAt(stream, i) ==
  /\ stream[i] # NL /\ stream[i].part = 1
  /\ i = 1 \/ stream[i - 1] = NL
  /\ LET end == i + stream[i].report.size
     IN  end \in DOMAIN stream /\ stream[end] = NL
           /\ SubSeq(stream, i, end - 1) = Frame(stream[i].report)

LEMMA WholeFrames ==
  ASSUME NEW stream
  PROVE  /\ \A id \in Whole(stream) :
              \E i \in DOMAIN stream : FrameAt(stream, i) /\ id = stream[i].report.id
         /\ \A i \in DOMAIN stream : FrameAt(stream, i) => stream[i].report.id \in Whole(stream)
<1> DEFINE A == {i \in DOMAIN stream : FrameAt(stream, i)}
<1>1. Whole(stream) = {stream[i].report.id : i \in A}
  BY DEF Whole, FrameAt
<1> QED
  BY <1>1

\* The chunks of a frame, one by one.
LEMMA FrameChunks ==
  ASSUME NEW s \in Seq(Bytewise), NEW i \in 1..Len(s), NEW r \in Sampled,
         i + r.size \in 1..Len(s)
  PROVE  SubSeq(s, i, (i + r.size) - 1) = Frame(r) <=>
           \A j \in 1..r.size : s[i + j - 1] = Chunk(r, j)
<1> DEFINE t == SubSeq(s, i, (i + r.size) - 1)
           z == r.size
<1>1. z \in Nat /\ i \in Nat /\ Len(s) \in Nat /\ z >= 1 /\ z <= MaxReport /\ MaxReport \in Nat
  BY SampledSized, HandoffAssumption
<1>2. /\ t \in Seq(Bytewise) /\ Len(t) = z /\ \A j \in 1..z : t[j] = s[i + j - 1]
  <2>0. i + z \in 1..Len(s)
    OBVIOUS
  <2>1. /\ i - 1 \in 0..Len(s) /\ (i + z) - 1 \in (i - 1)..Len(s) /\ (i - 1) + 1 = i
        /\ ((i + z) - 1) - (i - 1) = z
    BY <1>1
  <2>2. /\ SubSeq(s, (i - 1) + 1, (i + z) - 1) \in Seq(Bytewise)
        /\ Len(SubSeq(s, (i - 1) + 1, (i + z) - 1)) = ((i + z) - 1) - (i - 1)
        /\ \A j \in 1..(((i + z) - 1) - (i - 1)) :
             SubSeq(s, (i - 1) + 1, (i + z) - 1)[j] = s[(i - 1) + j]
    <3> HIDE DEF z
    <3> QED
      BY <2>1, SubSeqOne
  <2>3. \A j \in 1..z : (i - 1) + j = i + j - 1
    BY <1>1
  <2> HIDE DEF z
  <2> QED
    BY <2>1, <2>2, <2>3 DEF z
<1>3. Frame(r) \in Seq(Bytewise) /\ Len(Frame(r)) = z /\ \A j \in 1..z : Frame(r)[j] = Chunk(r, j)
  <2>1. \A j \in 1..z : Chunk(r, j) \in Bytewise
    BY <1>1, ChunkType
  <2> QED
    BY <1>1, <2>1 DEF Frame
<1> HIDE DEF t
<1>4. ASSUME t = Frame(r) PROVE \A j \in 1..z : s[i + j - 1] = Chunk(r, j)
  BY <1>2, <1>3, <1>4
<1>5. ASSUME \A j \in 1..z : s[i + j - 1] = Chunk(r, j) PROVE t = Frame(r)
  <2>1. Len(t) = Len(Frame(r)) /\ \A j \in 1..Len(t) : t[j] = Frame(r)[j]
    BY <1>2, <1>3, <1>5
  <2> QED
    BY <1>2, <1>3, <2>1, SeqEqual
<1> QED
  BY <1>4, <1>5 DEF t

LEMMA FrameIs ==
  ASSUME NEW s \in Seq(Bytewise), NEW i \in 1..Len(s)
  PROVE  FrameAt(s, i) <=>
           /\ s[i] # NL /\ s[i].part = 1
           /\ i = 1 \/ s[i - 1] = NL
           /\ i + s[i].report.size \in 1..Len(s) /\ s[i + s[i].report.size] = NL
           /\ \A j \in 1..s[i].report.size : s[i + j - 1] = Chunk(s[i].report, j)
<1>1. DOMAIN s = 1..Len(s) /\ s[i] \in Bytewise
  OBVIOUS
<1>2. CASE s[i] # NL
  <2>1. s[i].report \in Sampled
    BY <1>1, <1>2, BytewiseCases
  <2> DEFINE r == s[i].report
  <2>2. i + r.size \in 1..Len(s) =>
          (SubSeq(s, i, (i + r.size) - 1) = Frame(r) <=> \A j \in 1..r.size : s[i + j - 1] = Chunk(r, j))
    BY <2>1, FrameChunks
  <2>3. FrameAt(s, i) <=>
          /\ s[i] # NL /\ s[i].part = 1
          /\ i = 1 \/ s[i - 1] = NL
          /\ i + r.size \in DOMAIN s /\ s[i + r.size] = NL
             /\ SubSeq(s, i, (i + r.size) - 1) = Frame(r)
    BY DEF FrameAt
  <2> HIDE DEF r
  <2>4. FrameAt(s, i) <=>
          /\ s[i] # NL /\ s[i].part = 1
          /\ i = 1 \/ s[i - 1] = NL
          /\ i + r.size \in 1..Len(s) /\ s[i + r.size] = NL
          /\ \A j \in 1..r.size : s[i + j - 1] = Chunk(r, j)
    BY <1>1, <2>2, <2>3
  <2> QED
    BY <2>4 DEF r
<1>3. CASE s[i] = NL
  BY <1>3 DEF FrameAt
<1> QED
  BY <1>2, <1>3

LEMMA WholeType ==
  ASSUME NEW s \in Seq(Bytewise)
  PROVE  Whole(s) \subseteq 1..Samples
<1>1. ASSUME NEW i \in DOMAIN s, FrameAt(s, i) PROVE s[i].report.id \in 1..Samples
  <2>1. s[i] \in Bytewise /\ s[i] # NL
    BY <1>1 DEF FrameAt
  <2> QED
    BY <2>1, BytewiseCases, SampledSized
<1> QED
  BY <1>1, WholeFrames

\* What a line gives is the report of the one frame in it.
LEMMA ParsedFrame ==
  ASSUME NEW bytes \in Seq(Bytewise), \A i \in DOMAIN bytes : bytes[i] # NL, NEW wall,
         NEW i \in DOMAIN Parsed(bytes, wall)
  PROVE  /\ Len(bytes) \in Nat \ {0} /\ bytes[1].report \in Sampled
         /\ bytes = Frame(bytes[1].report) /\ Parsed(bytes, wall)[i] = bytes[1].report
<1>1. /\ bytes # <<>> /\ bytes = Frame(bytes[1].report)
      /\ Parsed(bytes, wall) = <<bytes[1].report>>
  BY DEF Parsed
<1>2. 1 \in DOMAIN bytes /\ bytes[1] \in Bytewise /\ Len(bytes) \in Nat \ {0}
  BY <1>1
<1>3. bytes[1].report \in Sampled
  BY <1>2, BytewiseCases
<1> QED
  BY <1>1, <1>2, <1>3

\* A byte that completes a report ends a whole frame of the stream.
LEMMA ByteWhole ==
  ASSUME NEW s \in Seq(Bytewise), NEW m \in 0..(Len(s) - 1), NEW d, Keeps(d, s, m), NEW wall,
         NEW x \in DOMAIN FeedOne(d, s[m + 1], wall).reports
  PROVE  FeedOne(d, s[m + 1], wall).reports[x].id \in Whole(s)
<1> DEFINE p == d.pending
<1>1. PICK k \in 0..m : /\ p = SubSeq(s, k + 1, m)
                        /\ k = 0 \/ s[k] = NL
                        /\ OneLine(s, k + 1, m)
  BY DEF Keeps
<1>2. s[m + 1] = NL /\ FeedOne(d, s[m + 1], wall).reports = Parsed(p, wall)
  BY DEF FeedOne
<1>3. /\ Len(s) \in Nat /\ m \in Nat /\ k \in Nat /\ k \in 0..Len(s) /\ m \in k..Len(s)
      /\ m + 1 \in 1..Len(s)
  OBVIOUS
<1> HIDE DEF p
<1>4. p \in Seq(Bytewise) /\ Len(p) = m - k /\ \A i \in 1..(m - k) : p[i] = s[k + i]
  BY <1>1, <1>3, SubSeqOne
<1>5. \A i \in DOMAIN p : p[i] # NL
  <2>1. ASSUME NEW i \in 1..(m - k) PROVE p[i] # NL
    <3>1. k + i \in (k + 1)..m
      BY <1>3
    <3> QED
      BY <1>1, <1>4, <3>1 DEF OneLine
  <2> QED
    BY <1>4, <2>1
<1> DEFINE r == p[1].report
<1>6. /\ m - k \in Nat \ {0} /\ r \in Sampled /\ p = Frame(r)
      /\ FeedOne(d, s[m + 1], wall).reports[x] = r
  <2>1. x \in DOMAIN Parsed(p, wall)
    BY <1>2
  <2>2. /\ Len(p) \in Nat \ {0} /\ p[1].report \in Sampled
        /\ p = Frame(p[1].report) /\ Parsed(p, wall)[x] = p[1].report
    BY <1>4, <1>5, <2>1, ParsedFrame
  <2>3. Len(p) = m - k
    BY <1>4
  <2> QED
    BY <1>2, <2>2, <2>3
<1>7. p[1] = s[k + 1] /\ s[k + 1].report = r
  BY <1>4, <1>6
<1> HIDE DEF r
<1>8. r.size \in Nat /\ r.size = m - k /\ \A j \in 1..r.size : p[j] = Chunk(r, j)
  <2>1. r.size \in Nat
    BY <1>6, SampledSized
  <2>2. Len(p) = r.size /\ \A j \in 1..r.size : p[j] = Chunk(r, j)
    BY <1>6, <2>1 DEF Frame
  <2> QED
    BY <1>4, <2>1, <2>2
<1>9. \A j \in 1..r.size : s[(k + 1) + j - 1] = Chunk(r, j)
  <2>1. \A j \in 1..r.size : (k + 1) + j - 1 = k + j
    BY <1>3, <1>8
  <2> QED
    BY <1>4, <1>8, <2>1
<1>10. k + 1 \in 1..Len(s) /\ (k + 1) + r.size = m + 1 /\ (k + 1 = 1 \/ s[(k + 1) - 1] = NL)
  BY <1>1, <1>3, <1>8
<1>11. s[k + 1] # NL /\ s[k + 1].part = 1
  <2>1. s[k + 1] = Chunk(r, 1)
    BY <1>6, <1>7, <1>8
  <2> QED
    BY <2>1 DEF Chunk, NL
<1>12. FrameAt(s, k + 1)
  BY <1>2, <1>3, <1>7, <1>9, <1>10, <1>11, FrameIs
<1> QED
  BY <1>6, <1>7, <1>10, <1>12, WholeFrames

\* A read gives reports of whole frames only.
LEMMA FeedWhole ==
  ASSUME NEW d \in Decoders, ~d.discard, \A i \in DOMAIN d.pending : d.pending[i] # NL,
         NEW bytes \in Seq(Bytewise), Chained(d.pending \o bytes), NEW wall
  PROVE  \A x \in DOMAIN Feed(d, bytes, wall).reports :
           Feed(d, bytes, wall).reports[x].id \in Whole(d.pending \o bytes)
<1> DEFINE s == d.pending \o bytes
           L == Len(d.pending)
           N == Len(bytes)
           f == FeedEach(d, bytes, wall)
           T == {n \in 0..N : \A x \in DOMAIN f[n].reports : f[n].reports[x].id \in Whole(s)}
<1>1. /\ s \in Seq(Bytewise) /\ Len(s) = L + N /\ L \in Nat /\ N \in Nat
      /\ \A i \in 1..N : s[L + i] = bytes[i]
  <2>1. d.pending \in Seq(Bytewise)
    BY DEF Decoders
  <2> QED
    BY <2>1, JoinedBytes
<1>2. \A n \in 0..N : Keeps(f[n].dec, s, L + n) /\ f[n].reports \in Seq(Sampled)
  BY FedKeeps
<1>3. /\ f[0].reports = <<>>
      /\ \A n \in 1..N : f[n].reports = f[n - 1].reports \o FeedOne(f[n - 1].dec, bytes[n], wall).reports
  <2>1. f[0] = [dec |-> d, reports |-> <<>>] /\ \A n \in 1..N : f[n] = FedStep(f[n - 1], bytes[n], wall)
    BY <1>1, FedDef
  <2> HIDE DEF f, N
  <2>2. ASSUME NEW n \in 1..N
        PROVE  f[n].reports = f[n - 1].reports \o FeedOne(f[n - 1].dec, bytes[n], wall).reports
    <3>1. f[n] = FedStep(f[n - 1], bytes[n], wall)
      BY <2>1
    <3>2. FedStep(f[n - 1], bytes[n], wall).reports
            = f[n - 1].reports \o FeedOne(f[n - 1].dec, bytes[n], wall).reports
      BY DEF FedStep
    <3> QED
      BY <3>1, <3>2
  <2>3. f[0].reports = <<>>
    BY <2>1
  <2> QED
    BY <2>2, <2>3
<1>4. Chained(s)
  OBVIOUS
<1> HIDE DEF f, s, L, N
<1>5. 0 \in T
  BY <1>1, <1>3
<1>6. ASSUME NEW n \in 1..N, n - 1 \in T PROVE n \in T
  <2> DEFINE old == f[n - 1].reports
             new == FeedOne(f[n - 1].dec, bytes[n], wall).reports
  <2>1. L + (n - 1) \in 0..(Len(s) - 1) /\ (L + (n - 1)) + 1 = L + n /\ s[L + n] = bytes[n]
        /\ n - 1 \in 0..N
    <3>1. n \in Nat /\ 1 <= n /\ n <= N /\ L \in Nat /\ N \in Nat /\ Len(s) = L + N
      BY <1>1
    <3>2. s[L + n] = bytes[n]
      BY <1>1
    <3>3. n - 1 \in 0..N /\ (L + (n - 1)) + 1 = L + n /\ L + (n - 1) \in 0..(Len(s) - 1)
      BY ONLY <3>1
    <3> QED
      BY <3>2, <3>3
  <2>2. Keeps(f[n - 1].dec, s, L + (n - 1)) /\ old \in Seq(Sampled)
    BY <1>2, <2>1
  <2>3. \A x \in DOMAIN new : new[x].id \in Whole(s)
    BY <1>1, <2>1, <2>2, ByteWhole
  <2>4. new \in Seq(Sampled)
    BY <1>1, <1>4, <2>1, <2>2, KeepsNext
  <2>5. \A x \in DOMAIN old : old[x].id \in Whole(s)
    BY <1>6
  <2>6. f[n].reports = old \o new
    BY <1>3
  <2> HIDE DEF old, new
  <2>7. \A x \in DOMAIN (old \o new) :
          \/ \E y \in DOMAIN old : (old \o new)[x] = old[y]
          \/ \E y \in DOMAIN new : (old \o new)[x] = new[y]
    BY <2>2, <2>4
  <2>8. \A x \in DOMAIN (old \o new) : (old \o new)[x].id \in Whole(s)
    BY <2>3, <2>5, <2>7
  <2>9. \A x \in DOMAIN f[n].reports : f[n].reports[x].id \in Whole(s)
    BY <2>6, <2>8
  <2> QED
    BY <1>1, <2>9
<1> HIDE DEF T
<1>7. \A n \in 0..N : n \in T
  BY <1>1, <1>5, <1>6, UpTo
<1>8. N \in T
  BY <1>1, <1>7
<1> QED
  BY <1>8 DEF T, f, s, L, N, Feed

-----------------------------------------------------------------------------
(* A byte is written *)

LEMMA AppendByte ==
  ASSUME NEW s \in Seq(Bytewise), NEW b \in Bytewise
  PROVE  /\ Append(s, b) \in Seq(Bytewise) /\ Len(Append(s, b)) = Len(s) + 1
         /\ Append(s, b)[Len(s) + 1] = b /\ Len(s) \in Nat
         /\ \A i \in 1..Len(s) : Append(s, b)[i] = s[i]
OBVIOUS

LEMMA AppendChained ==
  ASSUME NEW s \in Seq(Bytewise), NEW b \in Bytewise, Chained(s),
         s # <<>> /\ b # NL /\ s[Len(s)] # NL => Follows(s[Len(s)], b)
  PROVE  Chained(Append(s, b))
<1> DEFINE t == Append(s, b)
           L == Len(s)
<1>1. /\ Len(t) = L + 1 /\ t[L + 1] = b /\ L \in Nat /\ \A i \in 1..L : t[i] = s[i]
  BY AppendByte
<1> HIDE DEF t
<1>2. ASSUME NEW i \in 1..(Len(t) - 1), t[i] # NL, t[i + 1] # NL PROVE Follows(t[i], t[i + 1])
  <2>1. CASE i = L
    <3>1. s # <<>>
      BY <1>1, <2>1
    <3> QED
      BY <1>1, <1>2, <2>1, <3>1
  <2>2. CASE i # L
    <3>1. i \in 1..(Len(s) - 1) /\ t[i] = s[i] /\ t[i + 1] = s[i + 1]
      BY <1>1, <2>2
    <3> QED
      BY <1>2, <3>1 DEF Chained
  <2> QED
    BY <2>1, <2>2
<1> QED
  BY <1>2 DEF Chained, t

LEMMA AppendWhole ==
  ASSUME NEW s \in Seq(Bytewise), NEW b \in Bytewise
  PROVE  Whole(s) \subseteq Whole(Append(s, b))
<1> DEFINE t == Append(s, b)
           L == Len(s)
<1>1. /\ t \in Seq(Bytewise) /\ Len(t) = L + 1 /\ L \in Nat /\ \A i \in 1..L : t[i] = s[i]
  BY AppendByte
<1> HIDE DEF t
<1>2. ASSUME NEW id \in Whole(s) PROVE id \in Whole(t)
  <2>1. PICK i \in 1..L : FrameAt(s, i) /\ id = s[i].report.id
    BY WholeFrames
  <2> DEFINE z == s[i].report.size
  <2>2. /\ s[i] # NL /\ s[i].part = 1
        /\ i = 1 \/ s[i - 1] = NL
        /\ i + z \in 1..L /\ s[i + z] = NL
        /\ \A j \in 1..z : s[i + j - 1] = Chunk(s[i].report, j)
    BY <2>1, FrameIs
  <2>3. z \in Nat
    <3>1. s[i] \in Bytewise
      OBVIOUS
    <3> QED
      BY <2>2, <3>1, BytewiseCases, SampledSized
  <2> HIDE DEF z
  <2>4. t[i] = s[i] /\ i \in 1..Len(t) /\ i + z \in 1..Len(t) /\ t[i + z] = NL
    BY <1>1, <2>2
  <2>5. i = 1 \/ t[i - 1] = NL
    <3>1. i # 1 => i - 1 \in 1..L
      BY <1>1
    <3> QED
      BY <1>1, <2>2, <3>1
  <2>6. ASSUME NEW j \in 1..z PROVE t[i + j - 1] = Chunk(t[i].report, j)
    <3>1. i + j - 1 \in 1..L
      BY <1>1, <2>2, <2>3
    <3> QED
      BY <1>1, <2>2, <2>4, <3>1
  <2>7. FrameAt(t, i)
    BY <1>1, <2>2, <2>4, <2>5, <2>6, FrameIs DEF z
  <2>8. i \in DOMAIN t
    BY <1>1, <2>4
  <2> QED
    BY <2>1, <2>4, <2>7, <2>8, WholeFrames
<1> QED
  BY <1>2 DEF t

LEMMA AppendEnds ==
  ASSUME NEW s \in Seq(Bytewise), NEW r \in Sampled, NEW k \in Nat, k + 1 \in 1..MaxReport,
         EndsWith(s, r, k)
  PROVE  EndsWith(Append(s, Chunk(r, k + 1)), r, k + 1)
<1> DEFINE t == Append(s, Chunk(r, k + 1))
           L == Len(s)
<1>1. /\ t \in Seq(Bytewise) /\ Len(t) = L + 1 /\ t[L + 1] = Chunk(r, k + 1) /\ L \in Nat
      /\ \A i \in 1..L : t[i] = s[i]
  BY ChunkType, AppendByte
<1> HIDE DEF t
<1>2. /\ k <= L /\ \A i \in 1..k : s[L - k + i] = Chunk(r, i)
      /\ k = L \/ s[L - k] = NL
  BY DEF EndsWith
<1>3. ASSUME NEW i \in 1..(k + 1) PROVE t[Len(t) - (k + 1) + i] = Chunk(r, i)
  <2>1. Len(t) - (k + 1) + i = L - k + i
    BY <1>1
  <2>2. CASE i = k + 1
    <3>1. L - k + i = L + 1
      BY <1>1, <2>2
    <3> QED
      BY <1>1, <2>1, <2>2, <3>1
  <2>3. CASE i # k + 1
    <3>1. i \in 1..k /\ L - k + i \in 1..L
      BY <1>1, <1>2, <2>3
    <3> QED
      BY <1>1, <1>2, <2>1, <3>1
  <2> QED
    BY <2>2, <2>3
<1>4. k + 1 = Len(t) \/ t[Len(t) - (k + 1)] = NL
  <2>1. Len(t) - (k + 1) = L - k
    BY <1>1
  <2>2. k # L => L - k \in 1..L
    BY <1>1, <1>2
  <2> QED
    BY <1>1, <1>2, <2>1, <2>2
<1>5. k + 1 <= Len(t)
  BY <1>1, <1>2
<1> QED
  BY <1>3, <1>4, <1>5 DEF EndsWith, t

\* The newline completes the frame.
LEMMA AppendCompletes ==
  ASSUME NEW s \in Seq(Bytewise), NEW r \in Sampled, EndsWith(s, r, r.size)
  PROVE  r.id \in Whole(Append(s, NL))
<1> DEFINE t == Append(s, NL)
           L == Len(s)
           z == r.size
           i == L - z + 1
<1>0. NL \in Bytewise /\ z \in Nat /\ z >= 1 /\ z <= MaxReport /\ MaxReport \in Nat
  BY SampledSized, HandoffAssumption DEF Bytewise
<1>1. /\ t \in Seq(Bytewise) /\ Len(t) = L + 1 /\ t[L + 1] = NL /\ L \in Nat
      /\ \A j \in 1..L : t[j] = s[j]
  BY <1>0, AppendByte
<1> HIDE DEF t, z
<1>2. /\ z <= L /\ \A j \in 1..z : s[L - z + j] = Chunk(r, j)
      /\ z = L \/ s[L - z] = NL
  BY DEF EndsWith, z
<1>3. i \in 1..Len(t) /\ i + z = L + 1 /\ i + z \in 1..Len(t)
  BY <1>0, <1>1, <1>2
<1>4. ASSUME NEW j \in 1..z PROVE t[i + j - 1] = Chunk(r, j)
  <2>1. i + j - 1 = L - z + j /\ L - z + j \in 1..L
    BY <1>0, <1>1, <1>2
  <2> QED
    BY <1>1, <1>2, <2>1
<1>5. t[i] = Chunk(r, 1)
  <2>1. 1 \in 1..z /\ i + 1 - 1 = i
    BY <1>0, <1>1
  <2> QED
    BY <1>4, <2>1
<1>6. i = 1 \/ t[i - 1] = NL
  <2>1. i - 1 = L - z /\ (z # L => L - z \in 1..L) /\ (z = L => i = 1)
    BY <1>0, <1>1, <1>2
  <2> QED
    BY <1>1, <1>2, <2>1
<1>7. t[i].report = r /\ t[i].part = 1 /\ t[i] # NL
  <2>1. 1 \in 1..MaxReport
    BY <1>0
  <2> QED
    BY <1>5, <2>1, ChunkType DEF Chunk
<1>8. FrameAt(t, i)
  <2> HIDE DEF i
  <2>1. /\ t[i] # NL /\ t[i].part = 1
        /\ i = 1 \/ t[i - 1] = NL
        /\ i + t[i].report.size \in 1..Len(t) /\ t[i + t[i].report.size] = NL
        /\ \A j \in 1..t[i].report.size : t[i + j - 1] = Chunk(t[i].report, j)
    BY <1>1, <1>3, <1>4, <1>6, <1>7 DEF z
  <2> QED
    BY <1>1, <1>3, <2>1, FrameIs
<1>9. i \in DOMAIN t
  BY <1>1, <1>3
<1> QED
  BY <1>7, <1>8, <1>9, WholeFrames DEF t

-----------------------------------------------------------------------------
(* Bytes leave in front *)

LEMMA DropBytes ==
  ASSUME NEW s \in Seq(Bytewise), NEW k \in 0..Len(s)
  PROVE  /\ SubSeq(s, k + 1, Len(s)) \in Seq(Bytewise)
         /\ Len(SubSeq(s, k + 1, Len(s))) = Len(s) - k /\ Len(s) \in Nat /\ k \in Nat
         /\ \A i \in 1..(Len(s) - k) : SubSeq(s, k + 1, Len(s))[i] = s[k + i]
<1>1. Len(s) \in k..Len(s) /\ Len(s) \in Nat /\ k \in Nat
  OBVIOUS
<1> QED
  BY <1>1, SubSeqOne

LEMMA DropChained ==
  ASSUME NEW s \in Seq(Bytewise), NEW k \in 0..Len(s), Chained(s)
  PROVE  Chained(SubSeq(s, k + 1, Len(s)))
<1> DEFINE t == SubSeq(s, k + 1, Len(s))
           L == Len(s)
<1>1. /\ Len(t) = L - k /\ L \in Nat /\ k \in Nat /\ \A i \in 1..(L - k) : t[i] = s[k + i]
  BY DropBytes
<1> HIDE DEF t
<1>2. ASSUME NEW i \in 1..(Len(t) - 1), t[i] # NL, t[i + 1] # NL PROVE Follows(t[i], t[i + 1])
  <2>1. /\ i \in 1..(L - k) /\ i + 1 \in 1..(L - k) /\ k + i \in 1..(L - 1)
        /\ k + (i + 1) = (k + i) + 1
    BY <1>1
  <2>2. t[i] = s[k + i] /\ t[i + 1] = s[(k + i) + 1]
    BY <1>1, <2>1
  <2> QED
    BY <1>2, <2>1, <2>2 DEF Chained
<1> QED
  BY <1>2 DEF Chained, t

LEMMA DropEnds ==
  ASSUME NEW s \in Seq(Bytewise), NEW k \in 0..Len(s), k = 0 \/ s[k] = NL,
         NEW r \in Sampled, NEW n \in 1..r.size, EndsWith(s, r, n)
  PROVE  EndsWith(SubSeq(s, k + 1, Len(s)), r, n)
<1> DEFINE t == SubSeq(s, k + 1, Len(s))
           L == Len(s)
<1>0. n \in 1..MaxReport /\ n \in Nat /\ n >= 1
  BY SampledSized, HandoffAssumption
<1>1. /\ Len(t) = L - k /\ L \in Nat /\ k \in Nat /\ k <= L /\ \A i \in 1..(L - k) : t[i] = s[k + i]
  BY DropBytes
<1> HIDE DEF t
<1>2. /\ n <= L /\ \A i \in 1..n : s[L - n + i] = Chunk(r, i)
      /\ n = L \/ s[L - n] = NL
  BY DEF EndsWith
<1>3. k <= L - n
  <2>1. CASE k > L - n
    <3>1. k - (L - n) \in 1..n /\ L - n + (k - (L - n)) = k /\ k # 0
      BY <1>0, <1>1, <1>2, <2>1
    <3>2. s[k] = Chunk(r, k - (L - n))
      BY <1>2, <3>1
    <3>3. k - (L - n) \in 1..MaxReport
      BY <1>0, <3>1, HandoffAssumption
    <3> QED
      BY <3>1, <3>2, <3>3, ChunkType
  <2> QED
    BY <1>0, <1>1, <2>1
<1>4. ASSUME NEW i \in 1..n PROVE t[Len(t) - n + i] = Chunk(r, i)
  <2>1. Len(t) - n + i \in 1..(L - k) /\ k + (Len(t) - n + i) = L - n + i
    BY <1>0, <1>1, <1>3
  <2>2. t[Len(t) - n + i] = s[L - n + i]
    BY <1>1, <2>1
  <2> QED
    BY <1>2, <2>2
<1>5. n = Len(t) \/ t[Len(t) - n] = NL
  <2>1. CASE n # Len(t)
    <3>0. n < L - k /\ Len(t) = L - k
      <4>1. n <= L - k /\ n \in Nat /\ L \in Nat /\ k \in Nat
        BY <1>0, <1>1, <1>3
      <4>2. Len(t) = L - k /\ n # L - k
        BY <1>1, <2>1
      <4> HIDE DEF L
      <4> QED
        BY <4>1, <4>2
    <3>1. Len(t) - n \in 1..(L - k) /\ k + (Len(t) - n) = L - n /\ n # L
      BY <1>0, <1>1, <3>0
    <3> QED
      BY <1>1, <1>2, <3>1
  <2> QED
    BY <2>1
<1>6. n <= Len(t)
  BY <1>0, <1>1, <1>3
<1> QED
  BY <1>4, <1>5, <1>6 DEF EndsWith, t

\* A frame that was whole in flight is whole in what was read or in what is left.
LEMMA DropWhole ==
  ASSUME NEW s \in Seq(Bytewise), NEW k \in 0..Len(s), k = 0 \/ s[k] = NL,
         NEW m \in k..Len(s)
  PROVE  Whole(s) \subseteq Whole(SubSeq(s, 1, m)) \cup Whole(SubSeq(s, k + 1, Len(s)))
<1> DEFINE t == SubSeq(s, k + 1, Len(s))
           u == SubSeq(s, 1, m)
           L == Len(s)
<1>1. /\ t \in Seq(Bytewise) /\ Len(t) = L - k /\ L \in Nat /\ k \in Nat /\ k <= L
      /\ \A i \in 1..(L - k) : t[i] = s[k + i]
  BY DropBytes
<1>2. u \in Seq(Bytewise) /\ Len(u) = m /\ m \in Nat /\ \A i \in 1..m : u[i] = s[i]
  <2>1. 0 \in 0..Len(s) /\ m \in 0..Len(s) /\ 0 + 1 = 1 /\ m - 0 = m /\ m \in Nat
        /\ \A i \in 1..m : 0 + i = i
    OBVIOUS
  <2>2. /\ SubSeq(s, 0 + 1, m) \in Seq(Bytewise) /\ Len(SubSeq(s, 0 + 1, m)) = m - 0
        /\ \A i \in 1..(m - 0) : SubSeq(s, 0 + 1, m)[i] = s[0 + i]
    BY <2>1, SubSeqOne
  <2> QED
    BY <2>1, <2>2
<1> HIDE DEF t, u
<1>3. ASSUME NEW id \in Whole(s) PROVE id \in Whole(u) \/ id \in Whole(t)
  <2>1. PICK i \in 1..L : FrameAt(s, i) /\ id = s[i].report.id
    BY WholeFrames
  <2> DEFINE r == s[i].report
             z == r.size
  <2>2. /\ s[i] # NL /\ s[i].part = 1
        /\ i = 1 \/ s[i - 1] = NL
        /\ i + z \in 1..L /\ s[i + z] = NL
        /\ \A j \in 1..z : s[i + j - 1] = Chunk(r, j)
    BY <2>1, FrameIs
  <2>3. r \in Sampled /\ z \in Nat /\ z \in 1..MaxReport /\ z >= 1 /\ i \in Nat /\ i >= 1
    <3>1. s[i] \in Bytewise
      OBVIOUS
    <3> QED
      BY <2>2, <3>1, BytewiseCases, SampledSized, HandoffAssumption
  <2> HIDE DEF z, r
  <2>4. CASE i + z <= m
    <3>1. u[i] = s[i] /\ i \in 1..Len(u) /\ i + z \in 1..Len(u) /\ u[i + z] = NL
      BY <1>2, <2>2, <2>3, <2>4
    <3>2. i = 1 \/ u[i - 1] = NL
      <4>1. i # 1 => i - 1 \in 1..m
        BY <1>2, <2>3, <2>4
      <4> QED
        BY <1>2, <2>2, <4>1
    <3>3. ASSUME NEW j \in 1..z PROVE u[i + j - 1] = Chunk(r, j)
      <4>1. i + j - 1 \in 1..m
        BY <1>2, <2>3, <2>4
      <4> QED
        BY <1>2, <2>2, <4>1
    <3>4. FrameAt(u, i)
      BY <1>2, <2>2, <3>1, <3>2, <3>3, FrameIs DEF z, r
    <3>5. i \in DOMAIN u
      BY <1>2, <3>1
    <3> QED
      BY <2>1, <3>1, <3>4, <3>5, WholeFrames
  <2>5. CASE i + z > m
    <3>1. k < i
      <4>1. CASE k >= i
        <5>1. k - i + 1 \in 1..z /\ i + (k - i + 1) - 1 = k /\ k # 0
          BY <1>1, <1>2, <2>3, <2>5, <4>1
        <5>2. s[k] = Chunk(r, k - i + 1)
          BY <2>2, <5>1
        <5>3. k - i + 1 \in 1..MaxReport
          BY <2>3, <5>1, HandoffAssumption
        <5> QED
          BY <2>3, <5>1, <5>2, <5>3, ChunkType
      <4> QED
        BY <1>1, <2>3, <4>1
    <3> DEFINE h == i - k
    <3>2. h \in 1..Len(t) /\ h + z \in 1..Len(t) /\ k + h = i /\ k + (h + z) = i + z
      BY <1>1, <2>2, <2>3, <3>1
    <3>3. t[h] = s[i] /\ t[h + z] = NL
      BY <1>1, <2>2, <3>2
    <3>4. h = 1 \/ t[h - 1] = NL
      <4>1. CASE h # 1
        <5>1. h - 1 \in 1..(L - k) /\ k + (h - 1) = i - 1 /\ i # 1
          BY <1>1, <3>2, <4>1
        <5> QED
          BY <1>1, <2>2, <5>1
      <4> QED
        BY <4>1
    <3>5. ASSUME NEW j \in 1..z PROVE t[h + j - 1] = Chunk(r, j)
      <4>1. h + j - 1 \in 1..(L - k) /\ k + (h + j - 1) = i + j - 1
        BY <1>1, <2>3, <3>2
      <4> QED
        BY <1>1, <2>2, <4>1
    <3> HIDE DEF h
    <3>6. FrameAt(t, h)
      <4>1. t[h].report = r /\ t[h].report.size = z
        BY <3>3 DEF z, r
      <4>2. /\ t[h] # NL /\ t[h].part = 1
            /\ h = 1 \/ t[h - 1] = NL
            /\ h + t[h].report.size \in 1..Len(t) /\ t[h + t[h].report.size] = NL
            /\ \A j \in 1..t[h].report.size : t[h + j - 1] = Chunk(t[h].report, j)
        BY <2>2, <3>2, <3>3, <3>4, <3>5, <4>1
      <4> QED
        BY <1>1, <3>2, <4>2, FrameIs
    <3>7. h \in DOMAIN t
      BY <1>1, <3>2
    <3> QED
      BY <2>1, <3>3, <3>6, <3>7, WholeFrames
  <2> QED
    BY <1>2, <2>3, <2>4, <2>5
<1> QED
  BY <1>3 DEF t, u

-----------------------------------------------------------------------------
(* The stream under the steps *)

LEMMA StreamType ==
  ASSUME TypeOK
  PROVE  /\ Stream \in Seq(Bytewise) /\ Len(Stream) = Len(dec.pending) + Len(pipe)
         /\ Len(dec.pending) \in Nat /\ Len(pipe) \in Nat
         /\ \A i \in 1..Len(dec.pending) : Stream[i] = dec.pending[i]
         /\ \A i \in 1..Len(pipe) : Stream[Len(dec.pending) + i] = pipe[i]
         /\ NoSplice <=> Chained(Stream)
         /\ dec.pending \in Seq(Bytewise) /\ pipe \in Seq(Bytewise) /\ dec \in Decoders
<1> DEFINE p == dec.pending
<1>1. p \in Seq(Bytewise) /\ pipe \in Seq(Bytewise) /\ Len(p) \in Nat /\ Len(pipe) \in Nat
      /\ dec \in Decoders
  BY DEF TypeOK, Decoders
<1>2. Stream = p \o pipe
  BY DEF Stream
<1> HIDE DEF p
<1>3. /\ Stream \in Seq(Bytewise) /\ Len(Stream) = Len(p) + Len(pipe)
      /\ \A i \in 1..(Len(p) + Len(pipe)) : Stream[i] = IF i <= Len(p) THEN p[i] ELSE pipe[i - Len(p)]
  BY <1>1, <1>2, ConcatProperties
<1>4. ASSUME NEW i \in 1..Len(pipe) PROVE Stream[Len(p) + i] = pipe[i]
  <2>1. Len(p) + i \in 1..(Len(p) + Len(pipe)) /\ ~(Len(p) + i <= Len(p)) /\ (Len(p) + i) - Len(p) = i
    BY <1>1
  <2>2. Stream[Len(p) + i] = pipe[(Len(p) + i) - Len(p)]
    BY <1>3, <2>1
  <2> QED
    BY <2>1, <2>2
<1>5. \A i \in 1..Len(p) : Stream[i] = p[i]
  BY <1>1, <1>3
<1>6. NoSplice <=> Chained(Stream)
  BY DEF NoSplice, Chained
<1> QED
  BY <1>1, <1>3, <1>4, <1>5, <1>6 DEF p

\* The last byte of the FIFO is the last byte in flight.
LEMMA StreamLonger ==
  ASSUME TypeOK, NEW b \in Bytewise, dec' = dec, pipe' = Append(pipe, b)
  PROVE  Stream' = Append(Stream, b)
<1> DEFINE p == dec.pending
<1>1. p \in Seq(Bytewise) /\ pipe \in Seq(Bytewise)
  BY StreamType
<1>2. Stream' = p \o Append(pipe, b) /\ Stream = p \o pipe
  BY DEF Stream
<1> HIDE DEF p
<1>3. p \o Append(pipe, b) = Append(p \o pipe, b)
  <2>1. <<b>> \in Seq(Bytewise)
    OBVIOUS
  <2>2. Append(pipe, b) = pipe \o <<b>>
    BY <1>1, AppendIsConcat
  <2>3. p \o pipe \in Seq(Bytewise)
    BY <1>1, ConcatProperties
  <2>4. Append(p \o pipe, b) = (p \o pipe) \o <<b>>
    BY <2>3, AppendIsConcat
  <2>5. (p \o pipe) \o <<b>> = p \o (pipe \o <<b>>)
    BY <1>1, <2>1, ConcatAssociative
  <2> QED
    BY <2>2, <2>4, <2>5
<1> QED
  BY <1>2, <1>3

\* A read drops whole lines from the stream, and its reports were whole in it.
LEMMA ReadDrops ==
  ASSUME TypeOK, NeverDiscards, NoSplice, Read
  PROVE  /\ dec' \in Decoders /\ NeverDiscards' /\ inbox' \in Seq(Sampled)
         /\ \A i \in DOMAIN inbox' : inbox'[i].id \in judged'
         /\ pipe' \in Seq(Bytewise) /\ Len(pipe') <= Len(pipe)
         /\ \E k \in 0..Len(Stream), m \in 0..Len(Stream) :
              /\ k <= m
              /\ k = 0 \/ Stream[k] = NL
              /\ Stream' = SubSeq(Stream, k + 1, Len(Stream))
              /\ judged' = judged \cup Whole(SubSeq(Stream, 1, m))
<1>1. PICK n \in 1..Lesser(ReadSize, Len(pipe)) :
        LET fed == Feed(dec, SubSeq(pipe, 1, n), Wall) IN
        /\ pipe' = SubSeq(pipe, n + 1, Len(pipe))
        /\ dec' = fed.dec
        /\ inbox' = fed.reports
        /\ rwall' = IF fed.reports = <<>> THEN 0 ELSE Wall
        /\ judged' = judged \cup Whole(dec.pending \o SubSeq(pipe, 1, n))
  BY DEF Read
<1> DEFINE p == dec.pending
           b == SubSeq(pipe, 1, n)
           rest == SubSeq(pipe, n + 1, Len(pipe))
           x == p \o b
           P == Len(p)
           Q == Len(pipe)
           s == Stream
           d == Feed(dec, b, Wall).dec
<1>2. /\ s \in Seq(Bytewise) /\ Len(s) = P + Q /\ P \in Nat /\ Q \in Nat
      /\ \A i \in 1..P : s[i] = p[i]
      /\ \A i \in 1..Q : s[P + i] = pipe[i]
      /\ Chained(s) /\ p \in Seq(Bytewise) /\ pipe \in Seq(Bytewise) /\ dec \in Decoders
  BY StreamType
<1>3. n \in 1..Q /\ n \in Nat /\ n <= Q
  BY <1>2, HandoffAssumption DEF Lesser
<1>4. /\ b \in Seq(Bytewise) /\ Len(b) = n /\ \A i \in 1..n : b[i] = pipe[i]
  <2>1. 0 \in 0..Len(pipe) /\ n \in 0..Len(pipe) /\ 0 + 1 = 1 /\ n - 0 = n
        /\ \A i \in 1..n : 0 + i = i
    BY <1>2, <1>3
  <2>2. /\ SubSeq(pipe, 0 + 1, n) \in Seq(Bytewise) /\ Len(SubSeq(pipe, 0 + 1, n)) = n - 0
        /\ \A i \in 1..(n - 0) : SubSeq(pipe, 0 + 1, n)[i] = pipe[0 + i]
    BY <1>2, <2>1, SubSeqOne
  <2> QED
    BY <2>1, <2>2
<1>5. /\ rest \in Seq(Bytewise) /\ Len(rest) = Q - n /\ \A i \in 1..(Q - n) : rest[i] = pipe[n + i]
  <2>1. n \in 0..Len(pipe)
    BY <1>2, <1>3
  <2> QED
    BY <1>2, <2>1, DropBytes
<1> HIDE DEF b, rest, p, s
<1>6. /\ x \in Seq(Bytewise) /\ Len(x) = P + n /\ \A i \in 1..(P + n) : x[i] = s[i]
  <2>1. /\ x \in Seq(Bytewise) /\ Len(x) = P + n
        /\ \A i \in 1..(P + n) : x[i] = IF i <= P THEN p[i] ELSE b[i - P]
    <3>1. /\ p \o b \in Seq(Bytewise) /\ Len(p \o b) = Len(p) + Len(b)
          /\ \A i \in 1..(Len(p) + Len(b)) :
               (p \o b)[i] = IF i <= Len(p) THEN p[i] ELSE b[i - Len(p)]
      <4>1. p \in Seq(Bytewise) /\ b \in Seq(Bytewise)
        BY <1>2, <1>4
      <4> HIDE DEF x, P, Q, d
      <4> QED
        BY <4>1, ConcatProperties
    <3>2. Len(p) + Len(b) = P + n
      BY <1>4
    <3> HIDE DEF P, Q
    <3> QED
      BY <3>1, <3>2 DEF P
  <2> HIDE DEF x, P, Q
  <2>2. ASSUME NEW i \in 1..(P + n) PROVE x[i] = s[i]
    <3>1. CASE i <= P
      <4>1. i \in 1..P
        BY <1>2, <3>1
      <4> QED
        BY <1>2, <2>1, <3>1, <4>1
    <3>2. CASE i > P
      <4>1. i - P \in 1..n /\ i - P \in 1..Q /\ P + (i - P) = i
        BY <1>2, <1>3, <3>2
      <4>2. x[i] = b[i - P] /\ b[i - P] = pipe[i - P] /\ s[P + (i - P)] = pipe[i - P]
        BY <1>2, <1>4, <2>1, <3>2, <4>1
      <4> QED
        BY <4>1, <4>2
    <3>3. i <= P \/ i > P
      BY <1>2
    <3> QED
      BY <3>1, <3>2, <3>3
  <2> QED
    BY <2>1, <2>2
<1> HIDE DEF P, Q
<1>7. SubSeq(s, 1, P + n) = x
  <2>1. 0 \in 0..Len(s) /\ P + n \in 0..Len(s) /\ 0 + 1 = 1 /\ P + n - 0 = P + n
        /\ \A i \in 1..(P + n) : 0 + i = i
    BY <1>2, <1>3
  <2>2. /\ SubSeq(s, 0 + 1, P + n) \in Seq(Bytewise) /\ Len(SubSeq(s, 0 + 1, P + n)) = P + n - 0
        /\ \A i \in 1..(P + n - 0) : SubSeq(s, 0 + 1, P + n)[i] = s[0 + i]
    BY <1>2, <2>1, SubSeqOne
  <2>3. /\ SubSeq(s, 1, P + n) \in Seq(Bytewise) /\ Len(SubSeq(s, 1, P + n)) = Len(x)
        /\ \A i \in 1..Len(SubSeq(s, 1, P + n)) : SubSeq(s, 1, P + n)[i] = x[i]
    BY <1>6, <2>1, <2>2
  <2> HIDE DEF x
  <2> QED
    BY <1>6, <2>3, SeqEqual
<1>8. Chained(x)
  <2>1. ASSUME NEW i \in 1..(Len(x) - 1), x[i] # NL, x[i + 1] # NL PROVE Follows(x[i], x[i + 1])
    <3>1. i \in 1..(P + n) /\ i + 1 \in 1..(P + n) /\ i \in 1..(Len(s) - 1)
      BY <1>2, <1>3, <1>6
    <3> QED
      BY <1>2, <1>6, <2>1, <3>1 DEF Chained
  <2> QED
    BY <2>1 DEF Chained
<1>9. /\ Keeps(d, x, P + n) /\ Feed(dec, b, Wall).reports \in Seq(Sampled)
      /\ \A i \in DOMAIN Feed(dec, b, Wall).reports : Feed(dec, b, Wall).reports[i].id \in Whole(x)
  <2>1. ~dec.discard /\ \A i \in DOMAIN dec.pending : dec.pending[i] # NL
    BY DEF NeverDiscards
  <2>2. dec.pending \o b = x /\ Len(dec.pending) + Len(b) = P + n
    BY <1>4 DEF x, p, P
  <2> HIDE DEF x, d
  <2>3. /\ Keeps(Feed(dec, b, Wall).dec, dec.pending \o b, Len(dec.pending) + Len(b))
        /\ Feed(dec, b, Wall).reports \in Seq(Sampled)
    BY <1>2, <1>4, <1>8, <2>1, <2>2, FeedKeeps
  <2>4. \A i \in DOMAIN Feed(dec, b, Wall).reports :
          Feed(dec, b, Wall).reports[i].id \in Whole(dec.pending \o b)
    BY <1>2, <1>4, <1>8, <2>1, <2>2, FeedWhole
  <2> QED
    BY <2>2, <2>3, <2>4 DEF d
<1>a. dec' = d /\ inbox' = Feed(dec, b, Wall).reports /\ pipe' = rest
      /\ judged' = judged \cup Whole(x)
  BY <1>1 DEF b, rest, p
<1> HIDE DEF x, d
<1>10. PICK k \in 0..(P + n) : /\ d.pending = SubSeq(x, k + 1, P + n)
                               /\ k = 0 \/ x[k] = NL
                               /\ OneLine(x, k + 1, P + n)
  BY <1>9 DEF Keeps
<1>11. k \in Nat /\ k <= P + n /\ k \in 0..Len(x) /\ k \in 0..Len(s) /\ P + n \in 0..Len(s)
  BY <1>2, <1>3, <1>6
<1>12. /\ d.pending \in Seq(Bytewise) /\ Len(d.pending) = (P + n) - k
       /\ \A i \in 1..((P + n) - k) : d.pending[i] = x[k + i]
  <2>1. P + n \in k..Len(x)
    BY <1>2, <1>3, <1>6, <1>11
  <2> QED
    BY <1>6, <1>10, <1>11, <2>1, SubSeqOne
<1>13. Stream' = SubSeq(s, k + 1, Len(s))
  <2> DEFINE t == SubSeq(s, k + 1, Len(s))
             q == d.pending
  <2>1. /\ t \in Seq(Bytewise) /\ Len(t) = P + Q - k /\ \A i \in 1..(P + Q - k) : t[i] = s[k + i]
    BY <1>2, <1>11, DropBytes
  <2>2. Stream' = q \o rest
    BY <1>a DEF Stream
  <2> HIDE DEF t, q
  <2>3. /\ q \o rest \in Seq(Bytewise) /\ Len(q \o rest) = Len(q) + Len(rest)
        /\ \A i \in 1..(Len(q) + Len(rest)) :
             (q \o rest)[i] = IF i <= Len(q) THEN q[i] ELSE rest[i - Len(q)]
    BY <1>5, <1>12, ConcatProperties DEF q
  <2>4. Len(q) = (P + n) - k /\ Len(rest) = Q - n /\ Len(q) + Len(rest) = P + Q - k
    BY <1>2, <1>3, <1>5, <1>11, <1>12 DEF q
  <2>5. ASSUME NEW i \in 1..(P + Q - k) PROVE (q \o rest)[i] = t[i]
    <3>1. CASE i <= Len(q)
      <4>1. i \in 1..((P + n) - k) /\ k + i \in 1..(P + n)
        BY <1>2, <1>3, <1>11, <2>4, <3>1
      <4>2. (q \o rest)[i] = q[i] /\ q[i] = x[k + i] /\ x[k + i] = s[k + i] /\ t[i] = s[k + i]
        BY <1>6, <1>12, <2>1, <2>3, <2>4, <3>1, <4>1 DEF q
      <4> QED
        BY <4>2
    <3>2. CASE i > Len(q)
      <4>1. /\ i - Len(q) \in 1..(Q - n) /\ n + (i - Len(q)) \in 1..Q
            /\ P + (n + (i - Len(q))) = k + i
        BY <1>2, <1>3, <1>11, <2>4, <3>2
      <4>2. (q \o rest)[i] = rest[i - Len(q)] /\ rest[i - Len(q)] = pipe[n + (i - Len(q))]
        <5>1. i \in 1..(Len(q) + Len(rest)) /\ ~(i <= Len(q))
          BY <1>2, <1>3, <1>11, <2>4, <3>2
        <5>2. (q \o rest)[i] = rest[i - Len(q)]
          BY <2>3, <5>1
        <5> QED
          BY <1>5, <4>1, <5>2
      <4>3. s[P + (n + (i - Len(q)))] = pipe[n + (i - Len(q))] /\ t[i] = s[k + i]
        BY <1>2, <2>1, <4>1
      <4> QED
        BY <4>1, <4>2, <4>3
    <3>3. i <= Len(q) \/ i > Len(q)
      BY <1>2, <1>3, <1>11, <2>4
    <3> QED
      BY <3>1, <3>2, <3>3
  <2>6. Len(q \o rest) = Len(t) /\ \A i \in 1..Len(q \o rest) : (q \o rest)[i] = t[i]
    BY <2>1, <2>3, <2>4, <2>5
  <2>7. q \o rest = t
    BY <2>1, <2>3, <2>6, SeqEqual
  <2> QED
    BY <2>2, <2>7 DEF t
<1>14. k = 0 \/ s[k] = NL
  <2>1. k # 0 => k \in 1..(P + n)
    BY <1>11
  <2> QED
    BY <1>6, <1>10, <2>1
<1>15. NeverDiscards'
  <2>1. ~d.discard
    BY <1>9 DEF Keeps
  <2>2. ASSUME NEW i \in 1..((P + n) - k) PROVE d.pending[i] # NL
    <3>1. k + i \in (k + 1)..(P + n)
      BY <1>2, <1>3, <1>11
    <3> QED
      BY <1>10, <1>12, <3>1 DEF OneLine
  <2>3. DOMAIN d.pending = 1..((P + n) - k)
    BY <1>12
  <2> QED
    BY <1>a, <2>1, <2>2, <2>3 DEF NeverDiscards
<1>16. judged' = judged \cup Whole(SubSeq(s, 1, P + n))
  BY <1>7, <1>a
<1>17. d \in Decoders /\ Len(rest) <= Q
  BY <1>2, <1>3, <1>5, <1>9 DEF Keeps
<1>18. \A i \in DOMAIN inbox' : inbox'[i].id \in judged'
  BY <1>9, <1>a
<1> QED
  BY <1>5, <1>9, <1>a, <1>11, <1>13, <1>14, <1>15, <1>16, <1>17, <1>18 DEF s, Q

-----------------------------------------------------------------------------
(* Every step keeps the invariant: types *)

LEMMA WallNat ==
  ASSUME TypeOK
  PROVE  now \in Nat /\ off \in Int /\ Wall \in Nat /\ Wall = now + off
BY HandoffAssumption DEF TypeOK, Wall

LEMMA EmptyType ==
  ASSUME NEW S
  PROVE  <<>> \in Seq(S) /\ Len(<<>>) = 0
OBVIOUS

\* The FIFO keeps what it holds or loses it.
LEMMA PipeKept ==
  ASSUME TypeOK, pipe' = pipe \/ pipe' = <<>>
  PROVE  pipe' \in Seq(Bytewise) /\ Len(pipe') <= PipeSize
<1>1. CASE pipe' = pipe
  BY <1>1 DEF TypeOK
<1>2. CASE pipe' = <<>>
  <2>1. <<>> \in Seq(Bytewise) /\ Len(<<>>) = 0
    BY EmptyType
  <2> QED
    BY <1>2, <2>1, HandoffAssumption
<1> QED
  BY <1>1, <1>2

\* One chunk more of the frame under way.
LEMMA OneMore ==
  ASSUME NEW f \in [report : Sampled, at : 0..MaxReport], f.at < f.report.size
  PROVE  /\ f.report \in Sampled /\ f.at \in Nat /\ f.at + 1 \in 1..MaxReport
         /\ f.at + 1 <= f.report.size
         /\ [f EXCEPT !.at = f.at + 1] \in [report : Sampled, at : 0..MaxReport]
<1>1. f.report \in Sampled /\ f.at \in 0..MaxReport
  OBVIOUS
<1>2. f.report.size \in 1..MaxReport /\ MaxReport \in Nat
  BY <1>1, SampledSized, HandoffAssumption
<1>3. f.at + 1 \in 1..MaxReport /\ f.at + 1 \in 0..MaxReport /\ f.at + 1 <= f.report.size
  BY <1>1, <1>2
<1> QED
  BY <1>1, <1>3

LEMMA CollectorType ==
  ASSUME HInv, StartCollector \/ StopCollector \/ Sample
  PROVE  TypeOK'
<1> USE HandoffAssumption DEF HInv, TypeOK, clock, collector, writer, receiver, ghosts, Wall
<1>e. <<>> \in Seq([report : Sampled, deadline : Nat]) /\ {} \subseteq 1..Samples
      /\ Budget \in 0..Budget /\ 0 \in Nat
  BY EmptyType
<1>1. CASE StartCollector
  <2>1. /\ ring' \in Seq([report : Sampled, deadline : Nat]) /\ dpc' = "loop"
        /\ nextAt' \in Nat /\ sampled' = Nothing /\ pending' = Nothing
        /\ file' = FALSE /\ cut' = FALSE /\ sent' \subseteq 1..Samples /\ left' \in 0..Budget
    BY <1>1, <1>e DEF StartCollector
  <2>2. UNCHANGED <<now, off, made, pipe, reader, dec, rwall, inbox, judged, same>>
    BY <1>1 DEF StartCollector
  <2> QED
    BY <2>1, <2>2
<1>2. ASSUME StopCollector PROVE TypeOK'
  <2>1. pipe' \in Seq(Bytewise) /\ Len(pipe') <= PipeSize
    BY <1>2, PipeKept DEF StopCollector, CloseWriter
  <2> QED
    BY <1>2, <1>e, <2>1 DEF StopCollector
<1>3. CASE BeginSample
  <2>1. PICK size \in Size :
          sampled' = [id |-> made + 1, collected |-> Wall, size |-> size, born |-> now]
    BY <1>3 DEF BeginSample
  <2>2. made + 1 \in 1..Samples /\ Wall \in Nat /\ now \in Nat /\ now + Cadence \in Nat
    BY <1>3 DEF BeginSample
  <2>3. sampled' \in Sampled
    BY <2>1, <2>2 DEF Sampled
  <2> QED
    BY <1>3, <2>2, <2>3 DEF BeginSample
<1>4. CASE EndSample
  BY <1>4 DEF EndSample
<1>5. CASE FailSample
  BY <1>5 DEF FailSample
<1>6. CASE PushSample
  <2>1. /\ sampled \in Sampled /\ Valid(sampled, Wall)
    BY <1>6 DEF PushSample, Places
  <2>2. Expires(sampled) > Wall /\ Wall \in Int /\ now \in Nat
    BY <2>1, WallNat DEF Valid
  <2>3. ring' \in Seq(Entries(Sampled))
    BY <1>6, <2>1, <2>2, SampledSized, RingType, PushOrderly DEF PushSample
  <2> QED
    BY <1>6, <2>3, SampledSized DEF PushSample
<1>7. CASE RejectSample
  BY <1>2, <1>7 DEF RejectSample
<1>8. CASE SkipSample
  BY <1>8 DEF SkipSample
<1> QED
  BY <1>1, <1>2, <1>3, <1>4, <1>5, <1>6, <1>7, <1>8 DEF Sample

LEMMA FlushType ==
  ASSUME HInv, Flush
  PROVE  TypeOK'
<1> USE HandoffAssumption DEF HInv, TypeOK, clock, collector, writer, receiver, ghosts, Wall
<1>1. CASE BeginFlush
  <2>1. ring' = Prune(ring, Wall, now) /\ pending' \in {pending, Nothing} /\ sent' \subseteq sent
        /\ cut' \in BOOLEAN
    BY <1>1 DEF BeginFlush
  <2>2. ring' \in Seq(Entries(Sampled))
    BY <2>1, SampledSized, RingType, PruneOrderly
  <2> QED
    BY <1>1, <2>1, <2>2, SampledSized DEF BeginFlush
<1>2. CASE OpenFifo
  BY <1>2 DEF OpenFifo
<1>3. CASE WriteCut
  <2>1. NL \in Bytewise
    BY DEF Bytewise
  <2>2. pipe' \in Seq(Bytewise) /\ Len(pipe') <= PipeSize
    <3>1. CASE pipe' = pipe
      BY <3>1
    <3>2. CASE pipe' = Append(pipe, NL) /\ Len(pipe) < PipeSize
      BY <2>1, <3>2, AppendByte
    <3> QED
      BY <1>3, <3>1, <3>2 DEF WriteCut, Written, Room
  <2> QED
    BY <1>3, <2>2 DEF WriteCut, Written
<1>4. CASE WriteChunk
  <2>1. Current \in [report : Sampled, at : 0..MaxReport] /\ Current.at < Current.report.size
    BY <1>4, CurrentType DEF WriteChunk
  <2>2. Current.report \in Sampled /\ Current.at \in Nat /\ Current.at + 1 \in 1..MaxReport
    BY <2>1, OneMore
  <2>3. pending' = [Current EXCEPT !.at = Current.at + 1]
    BY <1>4 DEF WriteChunk
  <2>4. pending' \in [report : Sampled, at : 0..MaxReport]
    BY <2>1, <2>3, OneMore
  <2>5. Chunk(Current.report, Current.at + 1) \in Bytewise
    BY <2>2, ChunkType
  <2>6. pipe' = Append(pipe, Chunk(Current.report, Current.at + 1)) /\ Len(pipe) < PipeSize
        /\ left > 0 /\ left' = left - 1
    BY <1>4 DEF WriteChunk, Put, Written, Room
  <2>7. pipe' \in Seq(Bytewise) /\ Len(pipe') <= PipeSize
    BY <2>5, <2>6, AppendByte
  <2>8. left' \in 0..Budget
    BY <2>6
  <2> QED
    BY <1>4, <2>4, <2>7, <2>8 DEF WriteChunk
<1>5. CASE WriteNewline
  <2>1. NL \in Bytewise
    BY DEF Bytewise
  <2>2. pipe' = Append(pipe, NL) /\ Len(pipe) < PipeSize /\ left > 0 /\ left' = left - 1
    BY <1>5 DEF WriteNewline, Put, Written, Room
  <2>3. pipe' \in Seq(Bytewise) /\ Len(pipe') <= PipeSize /\ left' \in 0..Budget
    BY <2>1, <2>2, AppendByte
  <2>4. pending.report.id \in 1..Samples
    BY <1>5, SampledSized DEF WriteNewline
  <2> QED
    BY <1>5, <2>3, <2>4 DEF WriteNewline
<1>6. CASE EndFlush
  <2>1. pending' \in [report : Sampled, at : 0..MaxReport] \cup {Nothing}
    BY <1>6, CurrentType DEF EndFlush
  <2> QED
    BY <1>6, <2>1 DEF EndFlush
<1>7. CASE WriteBroken
  BY <1>7 DEF WriteBroken
<1>8. CASE CloseBroken
  <2>1. pipe' \in Seq(Bytewise) /\ Len(pipe') <= PipeSize
    BY <1>8, PipeKept DEF CloseBroken, CloseWriter
  <2> QED
    BY <1>8, <2>1 DEF CloseBroken
<1> QED
  BY <1>1, <1>2, <1>3, <1>4, <1>5, <1>6, <1>7, <1>8 DEF Flush

LEMMA ReaderType ==
  ASSUME HInv, OpenReader \/ CloseReader \/ Read \/ ReadEnd \/ Take
  PROVE  TypeOK'
<1> USE HandoffAssumption DEF HInv, TypeOK, clock, collector, writer, receiver, ghosts, Wall
<1>e. EmptyDecoder \in [pending : Seq(Bytewise), discard : BOOLEAN]
  BY DEF EmptyDecoder
<1>1. CASE OpenReader
  BY <1>1, <1>e DEF OpenReader
<1>2. CASE CloseReader
  <2>1. pipe' \in Seq(Bytewise) /\ Len(pipe') <= PipeSize
    BY <1>2, PipeKept DEF CloseReader
  <2>2. <<>> \in Seq(Sampled) /\ 0 \in Nat
    BY EmptyType
  <2> QED
    BY <1>2, <1>e, <2>1, <2>2 DEF CloseReader
<1>3. CASE Read
  <2>1. /\ dec' \in Decoders /\ inbox' \in Seq(Sampled)
        /\ pipe' \in Seq(Bytewise) /\ Len(pipe') <= Len(pipe)
    BY <1>3, ReadDrops
  <2>2. PICK m \in 0..Len(Stream) : judged' = judged \cup Whole(SubSeq(Stream, 1, m))
    BY <1>3, ReadDrops
  <2>3. SubSeq(Stream, 1, m) \in Seq(Bytewise)
    <3>1. Stream \in Seq(Bytewise) /\ 0 \in 0..Len(Stream) /\ m \in 0..Len(Stream) /\ 0 + 1 = 1
      BY StreamType
    <3>2. SubSeq(Stream, 0 + 1, m) \in Seq(Bytewise)
      BY <3>1, SubSeqOne
    <3> QED
      BY <3>1, <3>2
  <2>4. judged' \subseteq 1..Samples
    BY <2>2, <2>3, WholeType
  <2>5. Wall \in Nat
    BY WallNat
  <2>6. rwall' \in Nat
    BY <1>3, <2>5 DEF Read
  <2>7. Len(pipe') <= PipeSize
    <3>1. Len(pipe') \in Nat /\ Len(pipe) \in Nat
      BY <2>1
    <3> QED
      BY <2>1, <3>1
  <2> QED
    BY <1>3, <2>1, <2>4, <2>6, <2>7 DEF Read, Decoders
<1>4. CASE ReadEnd
  BY <1>4, <1>e DEF ReadEnd
<1>5. CASE Take
  BY <1>5 DEF Take
<1> QED
  BY <1>1, <1>2, <1>3, <1>4, <1>5

LEMMA ClockType ==
  ASSUME HInv, Tick \/ \E offset \in Offset : StepClock(offset)
  PROVE  TypeOK'
<1> USE HandoffAssumption DEF HInv, TypeOK, clock, collector, writer, receiver, ghosts, Wall
<1>1. CASE Tick
  BY <1>1 DEF Tick
<1>2. ASSUME NEW offset \in Offset, StepClock(offset) PROVE TypeOK'
  BY <1>2 DEF StepClock
<1> QED
  BY <1>1, <1>2

LEMMA TypeKept ==
  ASSUME HInv, [Next]_vars
  PROVE  TypeOK'
<1>1. CASE UNCHANGED vars
  BY <1>1 DEF HInv, TypeOK, vars, clock, collector, writer, receiver, ghosts, Wall
<1> QED
  BY <1>1, CollectorType, FlushType, ReaderType, ClockType DEF Next

-----------------------------------------------------------------------------
(* Every step keeps the invariant: what is in flight *)

\* All but the types.
InOrder ==
  /\ Orderly(ring) /\ Places /\ Readers /\ NeverDiscards
  /\ LastWritten /\ UnderWay
  /\ CutMeansNoFrame /\ NoSplice /\ SentIsDelivered

\* A step that neither reads nor writes.
LEMMA Unmoved ==
  ASSUME HInv, UNCHANGED <<dec, pipe>>
  PROVE  Stream' = Stream /\ NeverDiscards' /\ NoSplice'
<1>1. Stream' = Stream
  BY DEF Stream
<1> QED
  BY <1>1 DEF HInv, NeverDiscards, NoSplice

\* Nor does it touch the writer.
LEMMA Elsewhere ==
  ASSUME HInv, UNCHANGED <<dec, pipe, file, cut, pending, sent, reader, judged, same>>,
         dpc' # "close" \/ dpc' = dpc, dpc = "close" => dpc' = dpc
  PROVE  /\ Readers' /\ NeverDiscards' /\ LastWritten' /\ UnderWay'
         /\ CutMeansNoFrame' /\ NoSplice' /\ SentIsDelivered'
<1>1. Stream' = Stream /\ NeverDiscards' /\ NoSplice'
  BY Unmoved
<1>2. Readers' /\ CutMeansNoFrame'
  BY DEF HInv, Readers, CutMeansNoFrame
<1>3. LastWritten' /\ UnderWay' /\ SentIsDelivered'
  BY <1>1 DEF HInv, LastWritten, UnderWay, SentIsDelivered
<1> QED
  BY <1>1, <1>2, <1>3

\* The writer's end is closed: the FIFO keeps its bytes for the reader, if it has one.
LEMMA WriterGone ==
  ASSUME HInv, CloseWriter, UNCHANGED <<dec, reader, judged, same>>,
         file' = FALSE, pending' = Nothing, sent' = {} \/ ~same
  PROVE  /\ NeverDiscards' /\ LastWritten' /\ UnderWay'
         /\ CutMeansNoFrame' /\ NoSplice' /\ SentIsDelivered'
<1>1. NeverDiscards'
  BY DEF HInv, NeverDiscards
<1>2. LastWritten' /\ UnderWay' /\ CutMeansNoFrame'
  BY DEF LastWritten, UnderWay, CutMeansNoFrame
<1>3. SentIsDelivered'
  BY DEF SentIsDelivered
<1>4. NoSplice'
  <2>1. CASE reader
    BY <2>1, Unmoved DEF CloseWriter
  <2>2. CASE ~reader
    <3>1. Stream' = <<>>
      BY <2>2 DEF HInv, Readers, EmptyDecoder, CloseWriter, Stream
    <3>2. Len(<<>>) = 0 /\ 1..(0 - 1) = {}
      OBVIOUS
    <3> QED
      BY <3>1, <3>2 DEF NoSplice
  <2> QED
    BY <2>1, <2>2
<1> QED
  BY <1>1, <1>2, <1>3, <1>4

\* A suffix of what was in flight is in flight.
LEMMA Dropped ==
  ASSUME HInv, NEW k \in 0..Len(Stream), Stream' = SubSeq(Stream, k + 1, Len(Stream))
  PROVE  /\ NoSplice'
         /\ Stream' # <<>> => Stream # <<>> /\ Stream'[Len(Stream')] = Stream[Len(Stream)]
<1>1. Stream \in Seq(Bytewise) /\ Chained(Stream)
  BY StreamType DEF HInv
<1>2. Chained(Stream')
  BY <1>1, DropChained
<1>3. NoSplice'
  BY <1>2 DEF Chained, NoSplice
<1>4. /\ Len(Stream') = Len(Stream) - k /\ Len(Stream) \in Nat /\ k \in Nat
      /\ \A i \in 1..(Len(Stream) - k) : Stream'[i] = Stream[k + i]
  BY <1>1, DropBytes
<1>5. ASSUME Stream' # <<>> PROVE Stream # <<>> /\ Stream'[Len(Stream')] = Stream[Len(Stream)]
  <2>1. Stream' \in Seq(Bytewise)
    BY <1>1, DropBytes
  <2>2. Len(Stream') > 0
    BY <1>5, <2>1
  <2>3. Len(Stream) - k \in 1..(Len(Stream) - k) /\ k + (Len(Stream) - k) = Len(Stream)
        /\ Len(Stream) > 0
    BY <1>4, <2>2
  <2>4. Stream'[Len(Stream')] = Stream[Len(Stream)]
    BY <1>4, <2>3
  <2>5. Stream # <<>>
    BY <1>1, <2>3
  <2> QED
    BY <2>4, <2>5
<1> QED
  BY <1>3, <1>5

\* The collector's own steps touch neither the FIFO nor the reader, until it ends.
LEMMA CollectorKeeps ==
  ASSUME HInv, StartCollector \/ StopCollector \/ Sample
  PROVE  InOrder'
<1>e. Orderly(<<>>)
  BY EmptyFits DEF Orderly
<1>i. /\ TypeOK /\ Orderly(ring) /\ Places /\ Readers /\ NeverDiscards
      /\ CutMeansNoFrame /\ SentIsDelivered
  BY DEF HInv
<1>1. CASE StartCollector
  <2>1. Orderly(ring)' /\ Places'
    BY <1>1, <1>e DEF StartCollector, Places
  <2>2. Readers'
    BY <1>1, <1>i DEF StartCollector, Readers, Places, receiver, ghosts
  <2>3. NeverDiscards' /\ NoSplice'
    BY <1>1, Unmoved DEF StartCollector, receiver
  <2>4. LastWritten' /\ UnderWay' /\ CutMeansNoFrame'
    BY <1>1 DEF StartCollector, LastWritten, UnderWay, CutMeansNoFrame
  <2>5. SentIsDelivered'
    BY <1>1 DEF StartCollector, SentIsDelivered
  <2> QED
    BY <2>1, <2>2, <2>3, <2>4, <2>5 DEF InOrder
<1>2. ASSUME StopCollector PROVE InOrder'
  <2>1. Orderly(ring)' /\ Places'
    BY <1>2, <1>e DEF StopCollector, Places
  <2>2. Readers'
    BY <1>2, <1>i DEF StopCollector, Readers, receiver, ghosts
  <2>3. /\ NeverDiscards' /\ LastWritten' /\ UnderWay'
        /\ CutMeansNoFrame' /\ NoSplice' /\ SentIsDelivered'
    BY <1>2, WriterGone DEF StopCollector, receiver, ghosts
  <2> QED
    BY <2>1, <2>2, <2>3 DEF InOrder
<1>3. ASSUME UNCHANGED <<writer, pipe, receiver, ghosts>>, ring' = ring,
             dpc \in {"loop", "sample", "decoded"}, dpc' \in {"sample", "decoded", "flush"},
             dpc' \in {"sample", "decoded"} => sampled' \in Sampled
      PROVE  InOrder'
  <2>1. Places'
    BY <1>3, <1>i DEF Places, writer
  <2>2. Orderly(ring)'
    BY <1>3, <1>i
  <2>3. /\ Readers' /\ NeverDiscards' /\ LastWritten' /\ UnderWay'
        /\ CutMeansNoFrame' /\ NoSplice' /\ SentIsDelivered'
    BY <1>3, Elsewhere DEF writer, receiver, ghosts
  <2> QED
    BY <2>1, <2>2, <2>3 DEF InOrder
<1>4. CASE BeginSample
  <2>1. sampled' \in Sampled
    <3>1. PICK size \in Size :
            sampled' = [id |-> made + 1, collected |-> Wall, size |-> size, born |-> now]
      BY <1>4 DEF BeginSample
    <3>2. made + 1 \in 1..Samples /\ Wall \in Nat /\ now \in Nat
      BY <1>4, <1>i, WallNat, HandoffAssumption DEF BeginSample, TypeOK
    <3> QED
      BY <3>1, <3>2 DEF Sampled
  <2> QED
    BY <1>3, <1>4, <2>1 DEF BeginSample
<1>5. CASE EndSample
  <2>1. sampled \in Sampled
    BY <1>5, <1>i DEF EndSample, Places
  <2> QED
    BY <1>3, <1>5, <2>1 DEF EndSample
<1>6. CASE FailSample
  BY <1>3, <1>6 DEF FailSample
<1>7. CASE PushSample
  <2>1. sampled \in Sampled /\ Valid(sampled, Wall)
    BY <1>7, <1>i DEF PushSample, Places
  <2>2. Expires(sampled) > Wall /\ Wall \in Int /\ now \in Nat
    BY <1>i, <2>1, WallNat DEF Valid
  <2>3. Orderly(ring')
    BY <1>7, <1>i, <2>1, <2>2, SampledSized, RingType, PushOrderly DEF PushSample
  <2>4. Places'
    BY <1>7, <1>i DEF PushSample, Places, writer
  <2>5. /\ Readers' /\ NeverDiscards' /\ LastWritten' /\ UnderWay'
        /\ CutMeansNoFrame' /\ NoSplice' /\ SentIsDelivered'
    BY <1>7, Elsewhere DEF PushSample, writer, receiver, ghosts
  <2> QED
    BY <2>3, <2>4, <2>5 DEF InOrder
<1>8. CASE RejectSample
  BY <1>2, <1>8 DEF RejectSample
<1>9. CASE SkipSample
  BY <1>3, <1>9 DEF SkipSample
<1> QED
  BY <1>1, <1>2, <1>4, <1>5, <1>6, <1>7, <1>8, <1>9 DEF Sample

\* One byte more in the FIFO.
LEMMA ByteMore ==
  ASSUME HInv, NEW b \in Bytewise, dec' = dec, Written(b)
  PROVE  /\ Stream' = Append(Stream, b) /\ NeverDiscards' /\ Stream \in Seq(Bytewise)
         /\ Stream' # <<>> /\ Stream'[Len(Stream')] = b
         /\ Whole(Stream) \subseteq Whole(Stream')
         /\ Chained(Stream) /\ NoSplice' = Chained(Stream')
<1>1. Stream' = Append(Stream, b)
  BY StreamLonger DEF HInv, Written
<1>2. Stream \in Seq(Bytewise) /\ Chained(Stream)
  BY StreamType DEF HInv
<1>3. Len(Stream') = Len(Stream) + 1 /\ Stream'[Len(Stream) + 1] = b /\ Len(Stream) \in Nat
      /\ Stream' \in Seq(Bytewise)
  BY <1>1, <1>2, AppendByte
<1>4. Stream' # <<>>
  BY <1>3
<1>5. NeverDiscards'
  BY DEF HInv, NeverDiscards
<1>6. Whole(Stream) \subseteq Whole(Stream')
  BY <1>1, <1>2, AppendWhole
<1> QED
  BY <1>1, <1>2, <1>3, <1>4, <1>5, <1>6 DEF Chained, NoSplice

LEMMA BeginFlushKeeps ==
  ASSUME HInv, BeginFlush
  PROVE  InOrder'
<1>i. /\ TypeOK /\ Orderly(ring) /\ Places /\ Readers /\ LastWritten /\ UnderWay
      /\ CutMeansNoFrame /\ SentIsDelivered
  BY DEF HInv
<1>1. /\ ring' = Prune(ring, Wall, now) /\ dpc = "flush" /\ dpc' = IF file THEN "cut" ELSE "open"
      /\ sent' \subseteq sent /\ file' = file /\ sampled' = sampled
      /\ cut' \in BOOLEAN
      /\ (pending' = pending /\ cut' = cut) \/ (pending' = Nothing /\ cut' = TRUE)
      /\ UNCHANGED <<pipe, reader, dec, judged, same>>
  BY <1>i DEF BeginFlush, receiver, ghosts, TypeOK
<1>2. Orderly(ring)'
  BY <1>1, <1>i, SampledSized, RingType, PruneOrderly
<1>3. Places' /\ Readers' /\ CutMeansNoFrame'
  BY <1>1, <1>i DEF Places, Readers, CutMeansNoFrame, TypeOK
<1>4. Stream' = Stream /\ NeverDiscards' /\ NoSplice'
  BY <1>1, Unmoved
<1>5. LastWritten' /\ UnderWay'
  BY <1>1, <1>4, <1>i DEF LastWritten, UnderWay
<1>6. SentIsDelivered'
  BY <1>1, <1>4, <1>i DEF SentIsDelivered
<1> QED
  BY <1>2, <1>3, <1>4, <1>5, <1>6 DEF InOrder

LEMMA OpenFifoKeeps ==
  ASSUME HInv, OpenFifo
  PROVE  InOrder'
<1>i. /\ TypeOK /\ Orderly(ring) /\ Places /\ Readers /\ LastWritten /\ UnderWay
      /\ CutMeansNoFrame /\ SentIsDelivered
  BY DEF HInv
<1>1. /\ UNCHANGED <<ring, sampled, pending, pipe, reader, dec, judged>> /\ dpc = "open"
      /\ \/ /\ reader /\ file' = TRUE /\ sent' = {} /\ cut' = TRUE /\ dpc' = "cut" /\ same' = TRUE
         \/ dpc' = "loop" /\ UNCHANGED <<file, sent, cut, same>>
  BY DEF OpenFifo, receiver
<1>2. Orderly(ring)' /\ Places'
  BY <1>1, <1>i DEF Places
<1>3. Readers'
  BY <1>1, <1>i DEF Readers
<1>4. CutMeansNoFrame'
  BY <1>1, <1>i DEF CutMeansNoFrame, Places
<1>5. Stream' = Stream /\ NeverDiscards' /\ NoSplice'
  BY <1>1, Unmoved
<1>6. LastWritten' /\ UnderWay'
  BY <1>1, <1>i DEF LastWritten, UnderWay, Places
<1>7. SentIsDelivered'
  BY <1>1, <1>5, <1>i DEF SentIsDelivered
<1> QED
  BY <1>2, <1>3, <1>4, <1>5, <1>6, <1>7 DEF InOrder

LEMMA WriteCutKeeps ==
  ASSUME HInv, WriteCut
  PROVE  InOrder'
<1>i. /\ TypeOK /\ Orderly(ring) /\ Places /\ Readers /\ LastWritten /\ UnderWay
      /\ CutMeansNoFrame /\ SentIsDelivered
  BY DEF HInv
<1>1. /\ UNCHANGED <<ring, sampled, file, pending, sent, reader, dec, judged, same>>
      /\ dpc = "cut"
  BY DEF WriteCut, receiver, ghosts
<1>2. CASE ~cut /\ dpc' = "write" /\ UNCHANGED <<cut, pipe>>
  <2>1. Orderly(ring)' /\ Places'
    BY <1>1, <1>2, <1>i DEF Places
  <2> QED
    BY <1>1, <1>2, <2>1, Elsewhere DEF InOrder
<1>3. CASE cut /\ Written(NL) /\ cut' = FALSE /\ dpc' = "write"
  <2>1. NL \in Bytewise
    BY DEF Bytewise
  <2>2. /\ Stream' = Append(Stream, NL) /\ NeverDiscards' /\ Stream \in Seq(Bytewise)
        /\ Stream'[Len(Stream')] = NL
        /\ Whole(Stream) \subseteq Whole(Stream')
        /\ Chained(Stream) /\ NoSplice' = Chained(Stream')
    BY <1>1, <1>3, <2>1, ByteMore
  <2>3. NoSplice'
    BY <2>1, <2>2, AppendChained
  <2>4. pending = Nothing /\ pending' = Nothing
    BY <1>1, <1>3, <1>i DEF CutMeansNoFrame
  <2>5. Orderly(ring)' /\ Places' /\ Readers' /\ CutMeansNoFrame'
    BY <1>1, <1>3, <1>i, <2>4 DEF Places, Readers, CutMeansNoFrame
  <2>6. LastWritten' /\ UnderWay'
    BY <2>2, <2>4 DEF LastWritten, UnderWay
  <2>7. SentIsDelivered'
    BY <1>1, <1>i, <2>2 DEF SentIsDelivered
  <2> QED
    BY <2>2, <2>3, <2>5, <2>6, <2>7 DEF InOrder
<1>4. CASE cut /\ Blocked /\ dpc' = "loop" /\ UNCHANGED <<cut, pipe>>
  <2>1. Orderly(ring)' /\ Places'
    BY <1>1, <1>4, <1>i DEF Places
  <2> QED
    BY <1>1, <1>4, <2>1, Elsewhere DEF InOrder
<1>5. CASE cut /\ Broken /\ dpc' = "close" /\ UNCHANGED <<cut, pipe>>
  <2>1. Orderly(ring)' /\ Places' /\ Readers' /\ CutMeansNoFrame'
    BY <1>1, <1>5, <1>i DEF Places, Readers, CutMeansNoFrame, Broken
  <2>2. Stream' = Stream /\ NeverDiscards' /\ NoSplice'
    BY <1>1, <1>5, Unmoved
  <2>3. LastWritten' /\ UnderWay' /\ SentIsDelivered'
    BY <1>1, <1>5, <1>i, <2>2 DEF LastWritten, UnderWay, SentIsDelivered
  <2> QED
    BY <2>1, <2>2, <2>3 DEF InOrder
<1> QED
  BY <1>2, <1>3, <1>4, <1>5 DEF WriteCut

LEMMA WriteChunkKeeps ==
  ASSUME HInv, WriteChunk
  PROVE  InOrder'
<1>i. /\ TypeOK /\ Orderly(ring) /\ Places /\ Readers /\ LastWritten /\ UnderWay
      /\ CutMeansNoFrame /\ SentIsDelivered
  BY DEF HInv
<1> DEFINE r == Current.report
           k == Current.at
<1>1. /\ UNCHANGED <<ring, sampled, file, cut, sent, dpc, reader, dec, judged, same>>
      /\ dpc = "write" /\ ~NothingToWrite /\ k < r.size
      /\ Written(Chunk(r, k + 1)) /\ pending' = [Current EXCEPT !.at = k + 1]
  BY DEF WriteChunk, Put, collector, receiver, ghosts
<1>2. /\ Current \in [report : Sampled, at : 0..MaxReport] /\ Current # Nothing
      /\ pending # Nothing => Current = pending
      /\ pending = Nothing => Current.at = 0
  BY <1>1, <1>i, CurrentType
<1>3. r \in Sampled /\ k \in Nat /\ k + 1 \in 1..MaxReport /\ k + 1 <= r.size
      /\ pending' \in [report : Sampled, at : 0..MaxReport]
  BY <1>1, <1>2, OneMore
<1>4. pending'.report = r /\ pending'.at = k + 1
  BY <1>1, <1>2
<1>5. pending' # Nothing
  <2>1. pending' \in [report : Sampled, at : Nat]
    BY <1>3, HandoffAssumption
  <2> QED
    BY <2>1, FrameIsSomething
<1>6. file /\ ~cut
  BY <1>1, <1>i DEF Places
<1> HIDE DEF r, k
<1>7. Chunk(r, k + 1) \in Bytewise /\ Chunk(r, k + 1) # NL
  <2>1. Chunk(r, k + 1) \in Bytewise
    BY <1>3, ChunkType
  <2> QED
    BY <2>1 DEF Chunk, NL
<1>8. /\ Stream' = Append(Stream, Chunk(r, k + 1)) /\ NeverDiscards' /\ Stream \in Seq(Bytewise)
      /\ Stream'[Len(Stream')] = Chunk(r, k + 1)
      /\ Whole(Stream) \subseteq Whole(Stream')
      /\ Chained(Stream) /\ NoSplice' = Chained(Stream')
  BY <1>1, <1>7, ByteMore
<1>9. Stream # <<>> => Stream[Len(Stream)] = IF k > 0 THEN Chunk(r, k) ELSE NL
  <2>1. CASE pending # Nothing
    <3>1. pending.report = r /\ pending.at = k
      BY <1>2, <2>1 DEF r, k
    <3> QED
      BY <1>1, <1>6, <1>i, <2>1, <3>1 DEF LastWritten
  <2>2. CASE pending = Nothing
    <3>1. k = 0
      BY <1>2, <2>2 DEF k
    <3> QED
      BY <1>1, <1>6, <1>i, <2>2, <3>1 DEF LastWritten
  <2> QED
    BY <2>1, <2>2
<1>a. NoSplice'
  <2>1. Follows(Chunk(r, k), Chunk(r, k + 1))
    BY <1>3 DEF Follows, Chunk
  <2>2. Stream # <<>> /\ Stream[Len(Stream)] # NL => Follows(Stream[Len(Stream)], Chunk(r, k + 1))
    BY <1>9, <2>1
  <2> QED
    BY <1>7, <1>8, <2>2, AppendChained
<1>b. Orderly(ring)' /\ Places' /\ Readers' /\ CutMeansNoFrame'
  <2>1. Places'
    BY <1>1, <1>3, <1>4, <1>i DEF Places
  <2> QED
    BY <1>1, <1>6, <1>i, <2>1 DEF Readers, CutMeansNoFrame
<1>c. LastWritten'
  <2>1. k + 1 > 0
    BY <1>3
  <2> QED
    BY <1>4, <1>5, <1>8, <2>1 DEF LastWritten
<1>d. UnderWay'
  <2> SUFFICES ASSUME same PROVE EndsWith(Stream', r, k + 1)
    BY <1>1, <1>4 DEF UnderWay
  <2>1. EndsWith(Stream, r, k)
    <3>1. CASE k > 0
      <4>1. pending # Nothing /\ pending.report = r /\ pending.at = k
        BY <1>2, <3>1 DEF r, k
      <4> QED
        BY <1>6, <1>i, <3>1, <4>1 DEF UnderWay
    <3>2. CASE k = 0
      <4>1. Len(Stream) \in Nat /\ (Len(Stream) = 0 <=> Stream = <<>>)
        BY <1>8
      <4>2. Len(Stream) = 0 \/ Stream[Len(Stream)] = NL
        BY <1>9, <3>2, <4>1
      <4> QED
        BY <3>2, <4>1, <4>2 DEF EndsWith
    <3> QED
      BY <1>3, <3>1, <3>2
  <2> QED
    BY <1>3, <1>8, <2>1, AppendEnds
<1>e. SentIsDelivered'
  BY <1>1, <1>8, <1>i DEF SentIsDelivered
<1> QED
  BY <1>8, <1>a, <1>b, <1>c, <1>d, <1>e DEF InOrder

LEMMA WriteNewlineKeeps ==
  ASSUME HInv, WriteNewline
  PROVE  InOrder'
<1>i. /\ TypeOK /\ Orderly(ring) /\ Places /\ Readers /\ LastWritten /\ UnderWay
      /\ CutMeansNoFrame /\ SentIsDelivered
  BY DEF HInv
<1>1. /\ UNCHANGED <<ring, sampled, file, cut, dpc, reader, dec, judged, same>>
      /\ dpc = "write" /\ pending # Nothing /\ pending.at = pending.report.size
      /\ Written(NL) /\ pending' = Nothing /\ sent' = sent \cup {pending.report.id}
  BY DEF WriteNewline, Put, collector, receiver, ghosts
<1>2. NL \in Bytewise /\ file /\ ~cut
  BY <1>1, <1>i DEF Bytewise, Places
<1>3. /\ Stream' = Append(Stream, NL) /\ NeverDiscards' /\ Stream \in Seq(Bytewise)
      /\ Stream'[Len(Stream')] = NL
      /\ Whole(Stream) \subseteq Whole(Stream')
      /\ Chained(Stream) /\ NoSplice' = Chained(Stream')
  BY <1>1, <1>2, ByteMore
<1>4. NoSplice'
  BY <1>2, <1>3, AppendChained
<1>5. Orderly(ring)' /\ Places' /\ Readers' /\ CutMeansNoFrame'
  BY <1>1, <1>2, <1>i DEF Places, Readers, CutMeansNoFrame
<1>6. LastWritten' /\ UnderWay'
  BY <1>1, <1>3 DEF LastWritten, UnderWay
<1>7. ASSUME same PROVE pending.report.id \in Whole(Stream')
  <2>1. pending.report \in Sampled
    BY <1>1, <1>i DEF TypeOK
  <2>2. pending.at > 0
    BY <1>1, <2>1, SampledSized
  <2>3. EndsWith(Stream, pending.report, pending.report.size)
    BY <1>1, <1>2, <1>7, <1>i, <2>2 DEF UnderWay
  <2> QED
    BY <1>3, <2>1, <2>3, AppendCompletes
<1>8. SentIsDelivered'
  BY <1>1, <1>3, <1>7, <1>i DEF SentIsDelivered
<1> QED
  BY <1>3, <1>4, <1>5, <1>6, <1>8 DEF InOrder

LEMMA EndFlushKeeps ==
  ASSUME HInv, EndFlush
  PROVE  InOrder'
<1>i. /\ TypeOK /\ Orderly(ring) /\ Places /\ Readers /\ LastWritten /\ UnderWay
      /\ CutMeansNoFrame /\ SentIsDelivered
  BY DEF HInv
<1>1. /\ UNCHANGED <<ring, sampled, file, cut, sent, pipe, reader, dec, judged, same>>
      /\ dpc = "write" /\ dpc' = "loop"
      /\ pending' = pending \/ (~NothingToWrite /\ pending' = Current)
  BY DEF EndFlush, receiver, ghosts
<1>2. file /\ ~cut
  BY <1>1, <1>i DEF Places
<1>3. CASE pending' = pending
  <2>1. Orderly(ring)' /\ Places'
    BY <1>1, <1>3, <1>i DEF Places
  <2> QED
    BY <1>1, <1>3, <2>1, Elsewhere DEF InOrder
<1>4. CASE ~NothingToWrite /\ pending = Nothing /\ pending' = Current
  <2>1. /\ Current \in [report : Sampled, at : 0..MaxReport]
        /\ Current.at = 0 /\ Current.at <= Current.report.size
    BY <1>4, <1>i, CurrentType
  <2>2. Stream' = Stream /\ NeverDiscards' /\ NoSplice'
    BY <1>1, Unmoved
  <2>3. Orderly(ring)' /\ Places' /\ Readers' /\ CutMeansNoFrame'
    BY <1>1, <1>2, <1>4, <1>i, <2>1 DEF Places, Readers, CutMeansNoFrame
  <2>4. ~(0 > 0)
    OBVIOUS
  <2>5. LastWritten' /\ UnderWay'
    BY <1>1, <1>4, <1>i, <2>1, <2>2, <2>4 DEF LastWritten, UnderWay
  <2>6. SentIsDelivered'
    BY <1>1, <1>i, <2>2 DEF SentIsDelivered
  <2> QED
    BY <2>2, <2>3, <2>5, <2>6 DEF InOrder
<1>5. ASSUME ~NothingToWrite, pending # Nothing, pending' = Current PROVE pending' = pending
  BY <1>5, <1>i, CurrentType
<1> QED
  BY <1>1, <1>3, <1>4, <1>5

LEMMA BrokenKeeps ==
  ASSUME HInv, WriteBroken
  PROVE  InOrder'
<1>i. /\ TypeOK /\ Orderly(ring) /\ Places /\ Readers /\ LastWritten /\ UnderWay
      /\ CutMeansNoFrame /\ SentIsDelivered
  BY DEF HInv
<1>1. /\ UNCHANGED <<ring, sampled, file, cut, pipe, reader, dec, judged, same>>
      /\ dpc = "write" /\ ~reader /\ pending' = Nothing /\ sent' = {} /\ dpc' = "close"
  BY DEF WriteBroken, Broken, receiver, ghosts
<1>2. Stream' = Stream /\ NeverDiscards' /\ NoSplice'
  BY <1>1, Unmoved
<1>3. Orderly(ring)' /\ Places' /\ Readers' /\ CutMeansNoFrame'
  BY <1>1, <1>i DEF Places, Readers, CutMeansNoFrame
<1>4. LastWritten' /\ UnderWay' /\ SentIsDelivered'
  BY <1>1 DEF LastWritten, UnderWay, SentIsDelivered
<1> QED
  BY <1>2, <1>3, <1>4 DEF InOrder

LEMMA CloseBrokenKeeps ==
  ASSUME HInv, CloseBroken
  PROVE  InOrder'
<1>i. TypeOK /\ Orderly(ring) /\ Places /\ Readers
  BY DEF HInv
<1>1. /\ UNCHANGED <<ring, sampled, pending, sent, cut, reader, dec, judged, same>>
      /\ dpc = "close" /\ dpc' = "loop" /\ file' = FALSE /\ CloseWriter
  BY DEF CloseBroken, receiver, ghosts
<1>2. pending' = Nothing /\ ~same
  BY <1>1, <1>i DEF Places
<1>3. /\ NeverDiscards' /\ LastWritten' /\ UnderWay'
      /\ CutMeansNoFrame' /\ NoSplice' /\ SentIsDelivered'
  BY <1>1, <1>2, WriterGone
<1>4. Orderly(ring)' /\ Places' /\ Readers'
  BY <1>1, <1>2, <1>i DEF Places, Readers
<1> QED
  BY <1>3, <1>4 DEF InOrder

LEMMA OpenReaderKeeps ==
  ASSUME HInv, OpenReader
  PROVE  InOrder'
<1>i. /\ TypeOK /\ Orderly(ring) /\ Places /\ Readers /\ NeverDiscards
      /\ LastWritten /\ CutMeansNoFrame
  BY DEF HInv
<1>1. /\ UNCHANGED <<ring, sampled, dpc, file, pending, sent, cut, pipe>>
      /\ ~reader /\ dec' = EmptyDecoder /\ same' = FALSE /\ reader' = TRUE
  BY DEF OpenReader, collector, writer
<1>2. dec' = dec
  BY <1>1, <1>i DEF Readers
<1>3. Stream' = Stream /\ NeverDiscards' /\ NoSplice'
  BY <1>1, <1>2, Unmoved
<1>4. Orderly(ring)' /\ Places' /\ Readers' /\ CutMeansNoFrame'
  BY <1>1, <1>i DEF Places, Readers, CutMeansNoFrame
<1>5. LastWritten' /\ UnderWay' /\ SentIsDelivered'
  BY <1>1, <1>3, <1>i DEF LastWritten, UnderWay, SentIsDelivered
<1> QED
  BY <1>3, <1>4, <1>5 DEF InOrder

\* With the reader goes what it read, and without a writer the FIFO's bytes too.
LEMMA CloseReaderKeeps ==
  ASSUME HInv, CloseReader
  PROVE  InOrder'
<1>i. /\ TypeOK /\ Orderly(ring) /\ Places /\ Readers /\ NeverDiscards
      /\ LastWritten /\ CutMeansNoFrame
  BY DEF HInv
<1>1. /\ UNCHANGED <<ring, sampled, dpc, file, pending, sent, cut>>
      /\ dec' = EmptyDecoder /\ same' = FALSE /\ reader' = FALSE
      /\ pipe' = IF file THEN pipe ELSE <<>>
  BY DEF CloseReader, collector, writer
<1>2. Stream' = pipe'
  <2>1. <<>> \o pipe = pipe /\ <<>> \o <<>> = <<>>
    BY <1>i DEF TypeOK
  <2> QED
    BY <1>1, <2>1 DEF Stream, EmptyDecoder
<1>3. \E k \in 0..Len(Stream) : Stream' = SubSeq(Stream, k + 1, Len(Stream))
  <2>1. /\ Stream \in Seq(Bytewise) /\ Len(Stream) = Len(dec.pending) + Len(pipe)
        /\ Len(dec.pending) \in Nat /\ Len(pipe) \in Nat
        /\ \A i \in 1..Len(pipe) : Stream[Len(dec.pending) + i] = pipe[i]
    BY <1>i, StreamType
  <2> DEFINE s == Stream
             P == Len(dec.pending)
             Q == Len(pipe)
  <2>2. pipe \in Seq(Bytewise)
    BY <1>i DEF TypeOK
  <2>t. /\ s \in Seq(Bytewise) /\ Len(s) = P + Q /\ P \in Nat /\ Q \in Nat /\ Q = Len(pipe)
        /\ \A i \in 1..Q : s[P + i] = pipe[i]
    BY <2>1
  <2> HIDE DEF s, P, Q
  <2>3. SubSeq(s, P + 1, Len(s)) = pipe
    <3>1. P \in 0..Len(s)
      BY <2>t
    <3>2. /\ SubSeq(s, P + 1, Len(s)) \in Seq(Bytewise)
          /\ Len(SubSeq(s, P + 1, Len(s))) = Len(s) - P
          /\ \A i \in 1..(Len(s) - P) : SubSeq(s, P + 1, Len(s))[i] = s[P + i]
      BY <2>t, <3>1, DropBytes
    <3>3. Len(s) - P = Q
      BY <2>t
    <3>4. \A i \in 1..Q : SubSeq(s, P + 1, Len(s))[i] = pipe[i]
      BY <2>t, <3>2, <3>3
    <3> QED
      BY <2>2, <2>t, <3>2, <3>3, <3>4, SeqEqual
  <2>4. SubSeq(s, Len(s) + 1, Len(s)) = <<>>
    <3>1. Len(s) \in 0..Len(s)
      BY <2>t
    <3>2. /\ SubSeq(s, Len(s) + 1, Len(s)) \in Seq(Bytewise)
          /\ Len(SubSeq(s, Len(s) + 1, Len(s))) = Len(s) - Len(s)
      BY <2>t, <3>1, DropBytes
    <3> QED
      BY <2>t, <3>2
  <2>5. P \in 0..Len(s) /\ Len(s) \in 0..Len(s)
    BY <2>t
  <2> QED
    BY <1>1, <1>2, <2>3, <2>4, <2>5 DEF s
<1>4. NoSplice' /\ (Stream' # <<>> => Stream # <<>> /\ Stream'[Len(Stream')] = Stream[Len(Stream)])
  BY <1>3, Dropped
<1>5. NeverDiscards'
  BY <1>1 DEF NeverDiscards, EmptyDecoder
<1>6. Orderly(ring)' /\ Places' /\ Readers' /\ CutMeansNoFrame'
  BY <1>1, <1>i DEF Places, Readers, CutMeansNoFrame
<1>7. LastWritten' /\ UnderWay' /\ SentIsDelivered'
  BY <1>1, <1>4, <1>i DEF LastWritten, UnderWay, SentIsDelivered
<1> QED
  BY <1>4, <1>5, <1>6, <1>7 DEF InOrder

LEMMA ReadKeeps ==
  ASSUME HInv, Read
  PROVE  InOrder'
<1>i. /\ TypeOK /\ Orderly(ring) /\ Places /\ Readers /\ NeverDiscards /\ NoSplice
      /\ LastWritten /\ UnderWay /\ CutMeansNoFrame /\ SentIsDelivered
  BY DEF HInv
<1>1. /\ UNCHANGED <<ring, sampled, dpc, file, pending, sent, cut, reader, same>> /\ reader
  BY DEF Read, collector, writer
<1>2. NeverDiscards'
  BY <1>i, ReadDrops
<1>3. PICK k \in 0..Len(Stream), m \in 0..Len(Stream) :
        /\ k <= m
        /\ k = 0 \/ Stream[k] = NL
        /\ Stream' = SubSeq(Stream, k + 1, Len(Stream))
        /\ judged' = judged \cup Whole(SubSeq(Stream, 1, m))
  BY <1>i, ReadDrops
<1>4. NoSplice' /\ (Stream' # <<>> => Stream # <<>> /\ Stream'[Len(Stream')] = Stream[Len(Stream)])
  BY <1>3, Dropped
<1>5. Orderly(ring)' /\ Places' /\ Readers' /\ CutMeansNoFrame'
  BY <1>1, <1>i DEF Places, Readers, CutMeansNoFrame
<1>6. LastWritten'
  BY <1>1, <1>4, <1>i DEF LastWritten
<1>7. UnderWay'
  <2> SUFFICES ASSUME same, file, ~cut, pending # Nothing, pending.at > 0
               PROVE  EndsWith(Stream', pending.report, pending.at)
    BY <1>1 DEF UnderWay
  <2>1. pending.report \in Sampled /\ pending.at \in Nat
    BY <1>i, HandoffAssumption DEF TypeOK
  <2>2. pending.at \in 1..pending.report.size
    BY <1>i, <2>1, SampledSized DEF Places
  <2>3. EndsWith(Stream, pending.report, pending.at) /\ Stream \in Seq(Bytewise)
    BY <1>i, StreamType DEF UnderWay
  <2> QED
    BY <1>3, <2>1, <2>2, <2>3, DropEnds
<1>8. SentIsDelivered'
  <2> SUFFICES ASSUME same PROVE sent \subseteq judged' \cup Whole(Stream')
    BY <1>1 DEF SentIsDelivered
  <2>1. sent \subseteq judged \cup Whole(Stream) /\ Stream \in Seq(Bytewise)
    BY <1>i, StreamType DEF SentIsDelivered
  <2>2. m \in k..Len(Stream)
    BY <1>3
  <2>3. Whole(Stream) \subseteq
          Whole(SubSeq(Stream, 1, m)) \cup Whole(SubSeq(Stream, k + 1, Len(Stream)))
    BY <1>3, <2>1, <2>2, DropWhole
  <2> QED
    BY <1>3, <2>1, <2>3
<1> QED
  BY <1>2, <1>4, <1>5, <1>6, <1>7, <1>8 DEF InOrder

LEMMA ReadEndKeeps ==
  ASSUME HInv, ReadEnd
  PROVE  InOrder'
<1>i. /\ TypeOK /\ Orderly(ring) /\ Places /\ Readers /\ CutMeansNoFrame
  BY DEF HInv
<1>1. /\ UNCHANGED <<ring, sampled, dpc, file, pending, sent, cut, reader, pipe, judged, same>>
      /\ reader /\ pipe = <<>> /\ ~file /\ dec' = EmptyDecoder
  BY DEF ReadEnd, collector, writer, ghosts
<1>2. Stream' = <<>>
  BY <1>1 DEF Stream, EmptyDecoder
<1>3. NoSplice'
  <2>1. Len(<<>>) = 0 /\ 1..(0 - 1) = {}
    OBVIOUS
  <2> QED
    BY <1>2, <2>1 DEF NoSplice
<1>4. NeverDiscards'
  BY <1>1 DEF NeverDiscards, EmptyDecoder
<1>5. Orderly(ring)' /\ Places' /\ Readers' /\ CutMeansNoFrame'
  BY <1>1, <1>i DEF Places, Readers, CutMeansNoFrame
<1>6. LastWritten' /\ UnderWay'
  BY <1>1, <1>2 DEF LastWritten, UnderWay
<1>7. SentIsDelivered'
  BY <1>1, <1>i DEF SentIsDelivered, Readers
<1> QED
  BY <1>3, <1>4, <1>5, <1>6, <1>7 DEF InOrder

\* Taking what was read, the clocks and stuttering leave all of it alone.
LEMMA OthersKeep ==
  ASSUME HInv, Take \/ Tick \/ (\E offset \in Offset : StepClock(offset)) \/ UNCHANGED vars
  PROVE  InOrder'
<1>i. Orderly(ring) /\ Places
  BY DEF HInv
<1>1. UNCHANGED <<ring, sampled, dpc, file, pending, sent, cut, reader, dec, pipe, judged, same>>
  BY DEF Take, Tick, StepClock, vars, collector, writer, receiver, ghosts
<1>2. Orderly(ring)' /\ Places'
  BY <1>1, <1>i DEF Places
<1> QED
  BY <1>1, <1>2, Elsewhere DEF InOrder

-----------------------------------------------------------------------------
(* The invariant and what follows from it *)

LEMMA InitHolds ==
  ASSUME Init
  PROVE  HInv
<1>1. TypeOK
  <2>1. /\ <<>> \in Seq([report : Sampled, deadline : Nat])
        /\ <<>> \in Seq(Bytewise) /\ <<>> \in Seq(Sampled) /\ Len(<<>>) = 0
    BY EmptyType
  <2>2. EmptyDecoder \in [pending : Seq(Bytewise), discard : BOOLEAN]
    BY <2>1 DEF EmptyDecoder
  <2>3. 0 \in 0..Horizon /\ 0 \in 0..Samples /\ Budget \in 0..Budget /\ 0 <= PipeSize
    BY HandoffAssumption
  <2> QED
    BY <2>1, <2>2, <2>3 DEF Init, TypeOK
<1>2. Orderly(ring)
  BY EmptyFits DEF Init, Orderly
<1>3. Places /\ Readers /\ NeverDiscards /\ CutMeansNoFrame
  BY DEF Init, Places, Readers, NeverDiscards, CutMeansNoFrame, EmptyDecoder
<1>4. Stream = <<>>
  BY DEF Init, Stream, EmptyDecoder
<1>5. NoSplice
  <2>1. Len(<<>>) = 0 /\ 1..(0 - 1) = {}
    OBVIOUS
  <2> QED
    BY <1>4, <2>1 DEF NoSplice
<1>6. LastWritten /\ UnderWay /\ SentIsDelivered
  BY DEF Init, LastWritten, UnderWay, SentIsDelivered
<1> QED
  BY <1>1, <1>2, <1>3, <1>5, <1>6 DEF HInv

LEMMA NextKeeps ==
  ASSUME HInv, [Next]_vars
  PROVE  HInv'
<1>1. TypeOK'
  BY TypeKept
<1>2. InOrder'
  <2>1. CASE StartCollector \/ StopCollector \/ Sample
    BY <2>1, CollectorKeeps
  <2>2. CASE Flush
    BY <2>2, BeginFlushKeeps, OpenFifoKeeps, WriteCutKeeps, WriteChunkKeeps, WriteNewlineKeeps,
       EndFlushKeeps, BrokenKeeps, CloseBrokenKeeps DEF Flush
  <2>3. CASE OpenReader \/ CloseReader \/ Read \/ ReadEnd
    BY <2>3, OpenReaderKeeps, CloseReaderKeeps, ReadKeeps, ReadEndKeeps
  <2>4. CASE Take \/ Tick \/ (\E offset \in Offset : StepClock(offset)) \/ UNCHANGED vars
    BY <2>4, OthersKeep
  <2> QED
    BY <2>1, <2>2, <2>3, <2>4 DEF Next
<1> QED
  BY <1>1, <1>2 DEF HInv, InOrder

\* The invariant holds in every state the two processes can reach together.
THEOREM Invariant == Spec => []HInv
<1>1. Init => HInv
  BY InitHolds
<1>2. HInv /\ [Next]_vars => HInv'
  BY NextKeeps
<1> QED
  BY <1>1, <1>2, PTL DEF Spec

\* The variables keep their types: Writer.pending is a frame of a report of the ring's
\* types at an offset within it, and the FIFO never holds more than its capacity.
THEOREM TypeCorrect == Spec => []TypeOK
<1>1. HInv => TypeOK
  BY DEF HInv
<1> QED
  BY <1>1, Invariant, PTL

\* Reader and writer may die and come back, frames may be cut because they expired, writes
\* may find the FIFO full or the reader gone: what is in flight never joins pieces of two
\* frames.
THEOREM NeverSpliced == Spec => []NoSplice
<1>1. HInv => NoSplice
  BY DEF HInv
<1> QED
  BY <1>1, Invariant, PTL

\* Writer.flush never resumes a frame on another connection or behind the newline it owes.
THEOREM NeverResumed == Spec => []CutMeansNoFrame
<1>1. HInv => CutMeansNoFrame
  BY DEF HInv
<1> QED
  BY <1>1, Invariant, PTL

\* Writer.sent counts a report only if the reader at the other end decoded it or still has
\* all of it in front of it.
THEOREM SentReachesTheReader == Spec => []SentIsDelivered
<1>1. HInv => SentIsDelivered
  BY DEF HInv
<1> QED
  BY <1>1, Invariant, PTL

\* The collector's ring keeps MAX_RECORDS and MAX_BYTES and its order by expiry, whatever
\* is pushed and whatever the clocks do.
THEOREM RingStaysBounded == Spec => []RingBounded
<1>1. HInv => RingBounded
  BY DEF HInv, Orderly, Fits, Sorted, RingBounded
<1> QED
  BY <1>1, Invariant, PTL

\* The collector writes nothing that the reader would discard as too long: Decoder.discard
\* is there for other writers only.
THEOREM NothingIsDiscarded == Spec => []~dec.discard
<1>1. HInv => ~dec.discard
  BY DEF HInv, NeverDiscards
<1> QED
  BY <1>1, Invariant, PTL

\* What a reader has taken and not yet used.
Taken ==
  /\ ~reader => inbox = <<>>
  /\ \A i \in DOMAIN inbox : inbox[i].id \in judged

LEMMA TakenKept == ASSUME HInv, Taken, [Next]_vars PROVE Taken'
<1>1. CASE StartCollector \/ StopCollector \/ Sample \/ Flush \/ Tick \/ ReadEnd
           \/ (\E offset \in Offset : StepClock(offset)) \/ UNCHANGED vars
  <2>1. UNCHANGED <<reader, inbox, judged>>
    BY <1>1 DEF StartCollector, StopCollector, Sample, Flush, Tick, ReadEnd, StepClock, vars,
       BeginSample, EndSample, FailSample, PushSample, RejectSample, SkipSample, BeginFlush,
       OpenFifo, WriteCut, WriteChunk, WriteNewline, EndFlush, WriteBroken, CloseBroken,
       receiver, ghosts
  <2> QED
    BY <2>1 DEF Taken
<1>2. CASE OpenReader
  BY <1>2 DEF OpenReader, Taken
<1>3. CASE CloseReader \/ Take
  BY <1>3 DEF CloseReader, Take, Taken
<1>4. CASE Read
  <2>1. \A i \in DOMAIN inbox' : inbox'[i].id \in judged'
    BY <1>4, ReadDrops DEF HInv
  <2>2. reader'
    BY <1>4 DEF Read
  <2> QED
    BY <2>1, <2>2 DEF Taken
<1> QED
  BY <1>1, <1>2, <1>3, <1>4 DEF Next

\* Whatever Reader.read hands on was a whole frame in front of this reader, and nothing of
\* it outlives the reader.
THEOREM OnlyWholeFramesAreTaken == Spec => []Taken
<1>1. Init => Taken
  BY DEF Init, Taken
<1>2. HInv /\ Taken /\ [Next]_vars => Taken'
  BY TakenKept
<1> QED
  BY <1>1, <1>2, Invariant, PTL DEF Spec

-----------------------------------------------------------------------------
(***************************************************************************)
(* Both halves of MCPipe.  A behaviour is about one half; of the other the *)
(* invariant says only that its buffers are still empty.                   *)
(***************************************************************************)

UP == INSTANCE UplinkProofs WITH MaxRecords <- 3, MaxBytes <- 5, MaxBatch <- 3, MaxBatchBytes <- 7,
                                 Report <- MCReport, TTL <- 1, Horizon <- 1, Offset <- {0, 1},
                                 inbox <- received, rwall <- received_at

LEMMA PipeAssumptions == UP!RingAssumption /\ UP!UplinkAssumption
<1>1. UP!RingAssumption
  BY RingAssumption DEF UP!RingAssumption
<1>2. UP!UplinkAssumption
  BY DEF UP!UplinkAssumption, MCReport
<1> QED
  BY <1>1, <1>2

-----------------------------------------------------------------------------
(* The instance of Uplink, in the module of the proofs *)

LEMMA URetainIs ==
  ASSUME NEW s, NEW S
  PROVE  U!Retain(s, S) = UP!Retain(s, S)
BY DEF U!Retain, UP!Retain, U!Retained, UP!Retained

LEMMA UPruneIs ==
  ASSUME NEW r, NEW wall, NEW mono
  PROVE  U!Prune(r, wall, mono) = UP!Prune(r, wall, mono)
BY URetainIs DEF U!Prune, UP!Prune, U!ToSet, UP!ToSet, U!Expires, UP!Expires

LEMMA UChosenIs ==
  ASSUME NEW r
  PROVE  U!Latest(r) = UP!Latest(r) /\ U!Batch(r) = UP!Batch(r)
<1>1. U!Latest(r) = UP!Latest(r)
  BY DEF U!Latest, UP!Latest, U!Last, UP!Last
<1> QED
  BY <1>1 DEF U!Batch, UP!Batch, U!Reports, UP!Reports, U!Front, UP!Front, U!Latest, UP!Latest,
     U!Last, UP!Last, U!BatchBytes, UP!BatchBytes, U!Bytes, UP!Bytes, U!Sums, UP!Sums

LEMMA UReaderIs ==
  ASSUME U!ReaderStep
  PROVE  UP!ReaderStep
<1>1. ASSUME NEW r, NEW reports, NEW wall, NEW mono
      PROVE  U!PushAll(r, reports, wall, mono) = UP!PushAll(r, reports, wall, mono)
  BY DEF U!PushAll, UP!PushAll, U!PushEach, UP!PushEach, U!Push, UP!Push, U!Prune, UP!Prune,
         U!Retain, UP!Retain, U!Retained, UP!Retained, U!ToSet, UP!ToSet, U!Evict, UP!Evict,
         U!Insert, UP!Insert, U!InsertAt, UP!InsertAt, U!Cardinality, UP!Cardinality,
         U!EntryOf, UP!EntryOf, U!Fits, UP!Fits, U!Bytes, UP!Bytes, U!Sums, UP!Sums,
         U!Ids, UP!Ids, U!Lesser, UP!Lesser, U!Expires, UP!Expires
<1>2. U!PushReports => UP!PushReports
  BY <1>1, UPruneIs DEF U!PushReports, UP!PushReports, U!clock, UP!clock
<1>3. (U!FailReader => UP!FailReader) /\ (U!EndReader => UP!EndReader)
  BY DEF U!FailReader, UP!FailReader, U!EndReader, UP!EndReader, U!clock, UP!clock
<1>4. ASSUME NEW reports PROVE U!ReadReports(reports) => UP!ReadReports(reports)
  BY DEF U!ReadReports, UP!ReadReports, U!Valid, UP!Valid, U!Expires, UP!Expires, U!Wall, UP!Wall,
         U!clock, UP!clock
<1>5. U!Arrivals = UP!Arrivals
  BY DEF U!Arrivals, UP!Arrivals
<1> QED
  BY <1>2, <1>3, <1>4, <1>5 DEF U!ReaderStep, UP!ReaderStep

LEMMA UMainIs ==
  ASSUME U!MainProgress
  PROVE  UP!MainProgress
<1>1. (U!LeaveLoop => UP!LeaveLoop) /\ (U!SaveHold => UP!SaveHold) /\ (U!Send => UP!Send)
      /\ (U!SaveAnswer => UP!SaveAnswer) /\ (U!Join => UP!Join)
  BY DEF U!LeaveLoop, UP!LeaveLoop, U!SaveHold, UP!SaveHold, U!Send, UP!Send, U!SaveAnswer,
         UP!SaveAnswer, U!Join, UP!Join, U!ReaderFinished, UP!ReaderFinished, U!clock, UP!clock
<1>2. U!Resolve => UP!Resolve
  BY DEF U!Resolve, UP!Resolve, U!NoAnswer, UP!NoAnswer, U!Answer, UP!Answer, U!InBatch, UP!InBatch,
         U!clock, UP!clock
<1>3. U!RemoveSettled => UP!RemoveSettled
  BY URetainIs DEF U!RemoveSettled, UP!RemoveSettled, U!RemoveBatch, UP!RemoveBatch,
     U!ToSet, UP!ToSet, U!clock, UP!clock
<1> QED
  BY <1>1, <1>2, <1>3 DEF U!MainProgress, UP!MainProgress

LEMMA UNextIs == [U!Next]_(U!vars) => [UP!Next]_(UP!vars)
<1>1. U!Select => UP!Select
  BY UPruneIs, UChosenIs DEF U!Select, UP!Select, U!ReaderFinished, UP!ReaderFinished,
     U!Wall, UP!Wall, U!clock, UP!clock
<1>2. /\ U!FailWrite => UP!FailWrite
      /\ U!Signal => UP!Signal
      /\ U!Tick => UP!Tick
  BY DEF U!FailWrite, UP!FailWrite, U!Signal, UP!Signal, U!Tick, UP!Tick, U!clock, UP!clock
<1>3. ASSUME NEW offset PROVE U!StepClock(offset) => UP!StepClock(offset)
  BY DEF U!StepClock, UP!StepClock
<1>4. U!Next => UP!Next
  BY <1>1, <1>2, <1>3, UReaderIs, UMainIs DEF U!Next, UP!Next
<1>5. UNCHANGED U!vars => UNCHANGED UP!vars
  BY DEF U!vars, UP!vars
<1> QED
  BY <1>4, <1>5

-----------------------------------------------------------------------------
(* The invariant: one half is in order, the other has not begun *)

UplinkRests == queue = <<>> /\ main = "loop"

PipeInv ==
  \/ half = "handoff" /\ HInv /\ UplinkRests
  \/ half = "uplink" /\ UP!UInv /\ ring = <<>>

LEMMA PipeInitInv == PipeInit => PipeInv
<1> SUFFICES ASSUME PipeInit PROVE PipeInv
  OBVIOUS
<1>1. HInv /\ ring = <<>>
  BY InitHolds DEF PipeInit, Init
<1>2. UP!Init
  BY DEF PipeInit, U!Init, UP!Init, U!Wall, UP!Wall
<1>3. UP!UInv
  BY <1>2, UP!UInit, PipeAssumptions
<1>4. UplinkRests
  BY <1>2 DEF UP!Init, UplinkRests
<1> QED
  BY <1>1, <1>3, <1>4 DEF PipeInit, PipeInv

LEMMA PipeStep == PipeInv /\ [PipeNext]_<<half, vars, uplink>> => PipeInv'
<1> SUFFICES ASSUME PipeInv, [PipeNext]_<<half, vars, uplink>> PROVE PipeInv'
  OBVIOUS
<1>1. half' = half
  BY DEF PipeNext
<1>2. CASE half = "handoff"
  <2>1. [Next]_vars /\ UNCHANGED uplink
    BY <1>2 DEF PipeNext
  <2>2. HInv /\ UplinkRests
    BY <1>2 DEF PipeInv
  <2>3. HInv'
    BY <2>1, <2>2, NextKeeps
  <2>4. UplinkRests'
    BY <2>1, <2>2 DEF UplinkRests, uplink
  <2> QED
    BY <1>1, <1>2, <2>3, <2>4 DEF PipeInv
<1>3. CASE half = "uplink"
  <2>1. [U!Next]_(U!vars) /\ ring' = ring
    BY <1>3 DEF PipeNext, handoff, collector, vars, clock, uplink, U!vars
  <2>2. UP!UInv /\ ring = <<>>
    BY <1>3 DEF PipeInv
  <2>3. UP!UInv'
    BY <2>1, <2>2, UNextIs, UP!UNext, PipeAssumptions
  <2> QED
    BY <1>1, <1>3, <2>1, <2>2, <2>3 DEF PipeInv
<1> QED
  BY <1>2, <1>3 DEF PipeInv

THEOREM PipeInvariant == PipeSpec => []PipeInv
BY PipeInitInv, PipeStep, PTL DEF PipeSpec

-----------------------------------------------------------------------------
(* Both buffers keep their limits *)

LEMMA NothingFits == UP!Fits(<<>>) /\ Fits(<<>>)
BY EmptyFits, UP!EmptyFits, PipeAssumptions

LEMMA QueueIs == UP!QueueBounded => U!QueueBounded
BY DEF UP!QueueBounded, U!QueueBounded, UP!Bytes, U!Bytes, UP!Sums, U!Sums, UP!Expires, U!Expires

LEMMA PipeInvImplies == PipeInv => BuffersBounded
<1> SUFFICES ASSUME PipeInv PROVE BuffersBounded
  OBVIOUS
<1>1. CASE half = "handoff"
  <2>1. TypeOK /\ RingBounded
    BY <1>1 DEF PipeInv, HInv, Orderly, Fits, Sorted, RingBounded
  <2>2. queue = <<>>
    BY <1>1 DEF PipeInv, UplinkRests
  <2>3. UP!QueueBounded
    BY <2>2, NothingFits DEF UP!QueueBounded, UP!Fits
  <2>4. U!DeadlineBounded
    BY <2>2 DEF U!DeadlineBounded
  <2> QED
    BY <1>1, <2>1, <2>3, <2>4, QueueIs DEF BuffersBounded
<1>2. CASE half = "uplink"
  <2>1. UP!UInv /\ ring = <<>>
    BY <1>2 DEF PipeInv
  <2>2. UP!TypeOK /\ UP!QueueBounded /\ UP!DeadlineBounded
    BY <2>1, UP!UInvImplies, PipeAssumptions
  <2>3. U!TypeOK /\ U!DeadlineBounded
    BY <2>2 DEF U!TypeOK, UP!TypeOK, U!DeadlineBounded, UP!DeadlineBounded
  <2>4. RingBounded
    BY <2>1, NothingFits DEF RingBounded, Fits
  <2> QED
    BY <1>2, <2>2, <2>3, <2>4, QueueIs DEF BuffersBounded
<1> QED
  BY <1>1, <1>2 DEF PipeInv

\* Whatever arrives and in whatever order, through crashes of either side and steps of the clock,
\* the collector's ring and the publisher's queue keep their limits and their order, and hold no
\* report twice (Ring::push, Ring::prune, Ring::remove).
THEOREM BuffersStayBounded == PipeSpec => []BuffersBounded
BY PipeInvariant, PipeInvImplies, PTL

-----------------------------------------------------------------------------
(* What leaves the queue, and what an upload carries *)

\* The formulas of the two properties.
UReasons ==
  \A i \in DOMAIN queue : queue[i].report.id \notin U!Ids(queue') =>
    \/ U!Expired(queue[i]) \/ U!Overtaken(queue[i])
    \/ main = "remove" /\ queue[i].report.id \in U!InBatch

UShape ==
  main = "loop" /\ main' = "reserve" =>
    /\ \A i \in DOMAIN queue' : U!Expires(queue'[i].report) <= U!Expires(batch'[1])
    /\ \A i, j \in DOMAIN batch' : i < j => batch'[i].id # batch'[j].id
    /\ \A i, j \in 2..Len(batch') : i < j => U!Expires(batch'[i]) <= U!Expires(batch'[j])
    /\ Len(batch') <= (IF slow THEN 1 ELSE 3)
    /\ Len(batch') > 1 => U!BatchBytes(batch') <= 7

LEMMA ReasonsIs == UP!Reasons => UReasons
<1>1. /\ \A e : UP!Expired(e) <=> U!Expired(e)
      /\ UP!Ids(queue') = U!Ids(queue') /\ UP!InBatch = U!InBatch
  BY DEF UP!Expired, U!Expired, UP!Expires, U!Expires, UP!Wall, U!Wall, UP!Ids, U!Ids,
         UP!InBatch, U!InBatch
<1>2. UP!Arrived = U!Arrived
  BY DEF UP!Arrived, U!Arrived, UP!EntryOf, U!EntryOf, UP!Lesser, U!Lesser, UP!Expires, U!Expires
<1>3. \A r : UP!Fits(r) <=> U!Fits(r)
  BY DEF UP!Fits, U!Fits, UP!Bytes, U!Bytes, UP!Sums, U!Sums
<1>4. \A e : UP!Overtaken(e) <=> U!Overtaken(e)
  BY <1>2, <1>3 DEF UP!Overtaken, U!Overtaken, UP!Expires, U!Expires
<1> QED
  BY <1>1, <1>4 DEF UP!Reasons, UReasons

LEMMA ShapeIs == UP!Shape => UShape
<1>1. \A b : UP!BatchBytes(b) = U!BatchBytes(b)
  BY DEF UP!BatchBytes, U!BatchBytes, UP!Bytes, U!Bytes, UP!Sums, U!Sums
<1>2. \A r : UP!Expires(r) = U!Expires(r)
  BY DEF UP!Expires, U!Expires
<1> QED
  BY <1>1, <1>2 DEF UP!Shape, UShape

LEMMA UplinkSteps ==
  PipeInv /\ [PipeNext]_<<half, vars, uplink>> => [UReasons /\ UShape]_(U!vars)
<1> SUFFICES ASSUME PipeInv, [PipeNext]_<<half, vars, uplink>> PROVE [UReasons /\ UShape]_(U!vars)
  OBVIOUS
<1>1. CASE half = "handoff"
  <2>1. queue = <<>> /\ queue' = queue /\ main = "loop" /\ main' = main
    BY <1>1 DEF PipeInv, UplinkRests, PipeNext, uplink
  <2> QED
    BY <2>1 DEF UReasons, UShape
<1>2. CASE half = "uplink"
  <2>1. [U!Next]_(U!vars) /\ UP!UInv
    BY <1>2 DEF PipeInv, PipeNext, vars, clock, uplink, U!vars
  <2>2. [UP!Reasons]_(UP!vars) /\ [UP!Shape]_(UP!vars)
    BY <2>1, UNextIs, UP!ReasonsStep, UP!ShapeStep, PipeAssumptions
  <2>3. UNCHANGED UP!vars => UNCHANGED U!vars
    BY DEF U!vars, UP!vars
  <2> HIDE DEF UReasons, UShape
  <2> QED
    BY <2>2, <2>3, ReasonsIs, ShapeIs
<1> QED
  BY <1>1, <1>2 DEF PipeInv

\* What arrives during an upload, and a batch that was not settled, stays in the queue: a report
\* leaves it expired, settled, or for one that expires no sooner (publisher.rs, run).
THEOREM QueueLosesNothing == PipeSpec => LeavesForAReason
<1>1. [UReasons /\ UShape]_(U!vars) => [UReasons]_(U!vars)
  OBVIOUS
<1> QED
  BY <1>1, PipeInvariant, UplinkSteps, PTL
  DEF PipeSpec, LeavesForAReason, U!LeavesForAReason, UReasons

\* An upload carries the newest report first, the rest oldest first, none twice, within the limits
\* of a batch or of a slow policy (Ring::batch, Ring::latest).
THEOREM UploadsAreShaped == PipeSpec => BatchShape
<1>1. [UReasons /\ UShape]_(U!vars) => [UShape]_(U!vars)
  OBVIOUS
<1> QED
  BY <1>1, PipeInvariant, UplinkSteps, PTL DEF PipeSpec, BatchShape, U!BatchShape, UShape
=============================================================================
