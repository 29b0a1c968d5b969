----------------------------- MODULE LoopsProofs -----------------------------
(***************************************************************************)
(* Safety of the two event loops, for every sequence of rows, every number *)
(* of keys, changes of the host, superseded threads and faults.            *)
(*                                                                         *)
(* A specialist: the thread behind the receiver works for the search that  *)
(* is active (Awaited), what it has sent is no older than the last action  *)
(* (SinceAction), and a dialog keeps the row that it was opened on         *)
(* (Targets).  The cockpit: the last part of a collection is sent by a     *)
(* thread that is over (LastPart), and the one sample under way is no      *)
(* older than the last one shown (Newer).                                  *)
(***************************************************************************)
EXTENDS MCLoops, TLAPS

\* Retain is the code's retain and filter wherever they occur: what it leaves is proved with the
\* ring, for every value of the ring's own constants.
RP == INSTANCE UplinkProofs WITH
  TTL <- 1, Skew <- 0, MaxRecords <- 1, MaxBytes <- 1, MaxBatch <- 1, MaxBatchBytes <- 0,
  Envelope <- 0, Report <- {}, Offset <- {0}, Horizon <- 0, now <- 0, off <- 0, stop <- 0,
  main <- 0, thread <- 0, inbox <- 0, rwall <- 0, queue <- 0, batch <- 0, answer <- 0,
  slow <- 0, halted <- 0, stored <- 0

Updates ==
  [rows : Seq(Rows), at : 1..MaxEpoch, query : BOOLEAN, more : BOOLEAN, warn : BOOLEAN]

\* The thread and what it has sent are for the search that is active; only its last part
\* says that nothing more comes, and only a collection in two parts says that more comes.
Awaited ==
  /\ job.query = query
  /\ \A i \in DOMAIN channel :
       /\ channel[i].query = query
       /\ channel[i].more => view \in TwoPart
       /\ ~channel[i].more => job.stage = "over"

\* Nothing from before the last action is waiting, or on the screen, once it was dismissed.
SinceAction ==
  /\ settled <= epoch
  /\ dialog.stage \in {"none", "choose", "confirm"} =>
       /\ \A i \in DOMAIN channel : channel[i].at >= settled
       /\ shown.from = "update" => shown.at >= settled

\* A dialog is about the row it was opened on.
Targets == dialog.stage # "none" => dialog.target = offered

\* Only the log view pauses, and an open detail does not follow it.
Follows == (paused => view = "logs") /\ (inspecting => ~follow)

\* The inductive invariant of a specialist.
SInv ==
  /\ TypeOK
  /\ CursorOnRow /\ IdleMeansOver /\ OnlyTheAwaitedAnswer /\ ActsOnWhatWasOffered
  /\ Awaited /\ SinceAction /\ Targets /\ Follows

-----------------------------------------------------------------------------
(* Rows *)

LEMMA RetainType ==
  ASSUME NEW s \in Seq(Rows), NEW S
  PROVE  Retain(s, S) \in Seq(Rows)
<1>1. RP!RingAssumption /\ RP!UplinkAssumption
  BY DEF RP!RingAssumption, RP!UplinkAssumption
<1>2. Retain(s, S) = RP!Retain(s, S)
  BY DEF Retain, Retained, RP!Retain, RP!Retained
<1> QED
  BY <1>1, <1>2, RP!RetainPicks

\* A set of numbers that is not empty has a least one.
LEMMA LeastNumber ==
  ASSUME NEW T, T \subseteq Nat, T # {}
  PROVE  \E x \in T : \A y \in T : x <= y
<1>1. RP!RingAssumption /\ RP!UplinkAssumption
  BY DEF RP!RingAssumption, RP!UplinkAssumption
<1> QED
  BY <1>1, RP!Least

LEMMA RowsType ==
  ASSUME NEW s \in Seq(Rows), NEW b1
  PROVE  Filtered(s, b1) \in Seq(Rows) /\ Moded(s, b1) \in Seq(Rows) /\ Len(s) \in Nat
BY RetainType DEF Filtered, Moded

LEMMA ClampType ==
  ASSUME NEW i \in Nat, NEW n \in Nat
  PROVE  /\ Last(n) \in Nat /\ (n # 0 => Last(n) < n)
         /\ Clamp(i, n) \in Nat /\ (n # 0 => Clamp(i, n) < n)
BY DEF Last, Clamp

\* The cursor stays on a row, and on its own as long as that is there.
LEMMA PreserveKeeps ==
  ASSUME NEW old \in Seq(Rows), NEW new \in Seq(Rows), NEW i \in Nat, NEW v
  PROVE  /\ Preserve(v, old, new, i) \in Nat
         /\ new # <<>> => Preserve(v, old, new, i) < Len(new)
         /\ v # "system" /\ Positions(new, Under(old, i)) # {} =>
              Under(new, Preserve(v, old, new, i)) = Under(old, i)
<1> DEFINE r == Under(old, i)
           there == Positions(new, r)
           k == CHOOSE k \in there : \A l \in there : k <= l
<1>1. Len(new) \in Nat /\ (new # <<>> <=> Len(new) # 0)
  OBVIOUS
<1>2. \A l \in there : l \in Nat /\ l < Len(new) /\ new[l + 1] = r
  BY <1>1 DEF Positions, Last
<1>3. CASE v # "system" /\ there # {}
  <2>1. there \subseteq Nat
    BY <1>2
  <2> HIDE DEF there
  <2>2. \E l \in there : \A m \in there : l <= m
    BY <1>3, <2>1, LeastNumber
  <2>3. k \in there
    BY <2>2
  <2>4. Preserve(v, old, new, i) = k
    BY <1>3 DEF Preserve, there
  <2>5. k \in Nat /\ k < Len(new) /\ new[k + 1] = r
    BY <1>2, <2>3
  <2>6. Under(new, k) = r
    <3> HIDE DEF k, r
    <3> QED
      BY <2>5 DEF Under
  <2> QED
    BY <2>4, <2>5, <2>6
<1>4. CASE ~(v # "system" /\ there # {})
  <2>1. Preserve(v, old, new, i) = Clamp(i, Len(new))
    BY <1>4 DEF Preserve
  <2> QED
    BY <1>1, <1>4, <2>1, ClampType
<1> QED
  BY <1>3, <1>4

\* The row under the cursor.
LEMMA UnderType ==
  ASSUME NEW s \in Seq(Rows), NEW i \in Nat
  PROVE  Under(s, i) \in Rows \cup {Nothing}
<1>1. CASE i < Len(s)
  <2>1. i + 1 \in 1..Len(s)
    BY <1>1
  <2> QED
    BY <1>1, <2>1 DEF Under
<1>2. CASE ~(i < Len(s))
  BY <1>2 DEF Under
<1> QED
  BY <1>1, <1>2

-----------------------------------------------------------------------------
(* What a step does to the channel *)

\* One more part.
LEMMA Sent ==
  ASSUME TypeOK, NEW u \in Updates, channel' = Append(channel, u)
  PROVE  /\ channel' \in Seq(Updates) /\ channel \in Seq(Updates)
         /\ \A i \in DOMAIN channel' : channel'[i] = u \/ \E j \in DOMAIN channel : channel'[i] = channel[j]
<1>1. channel \in Seq(Updates) /\ Len(channel) \in Nat
  BY DEF TypeOK, Updates
<1>2. channel' \in Seq(Updates) /\ Len(channel') = Len(channel) + 1
  BY <1>1
<1>3. ASSUME NEW i \in 1..Len(channel')
      PROVE  channel'[i] = u \/ \E j \in DOMAIN channel : channel'[i] = channel[j]
  <2>1. CASE i = Len(channel) + 1
    BY <1>1, <2>1
  <2>2. CASE i \in 1..Len(channel)
    <3>1. channel'[i] = channel[i] /\ i \in DOMAIN channel
      BY <1>1, <2>2
    <3> QED
      BY <3>1
  <2>3. i = Len(channel) + 1 \/ i \in 1..Len(channel)
    BY <1>1, <1>2
  <2> QED
    BY <2>1, <2>2, <2>3
<1> QED
  BY <1>1, <1>2, <1>3

\* One part less.
LEMMA Received ==
  ASSUME TypeOK, Receive
  PROVE  /\ channel' \in Seq(Updates) /\ Head(channel) \in Updates
         /\ 1 \in DOMAIN channel /\ Head(channel) = channel[1]
         /\ \A i \in DOMAIN channel' : \E j \in DOMAIN channel : channel'[i] = channel[j]
<1>1. channel \in Seq(Updates) /\ Len(channel) \in Nat /\ Len(channel) > 0
  BY DEF TypeOK, Updates, Receive
<1>2. channel' \in Seq(Updates) /\ Len(channel') = Len(channel) - 1
      /\ \A i \in 1..Len(channel') : channel'[i] = channel[i + 1]
  BY <1>1 DEF Receive
<1>3. \A i \in 1..Len(channel') : i + 1 \in 1..Len(channel)
  BY <1>1, <1>2
<1>4. 1 \in DOMAIN channel /\ Head(channel) = channel[1] /\ channel[1] \in Updates
  BY <1>1
<1> QED
  BY <1>1, <1>2, <1>3, <1>4

-----------------------------------------------------------------------------
(* Every step of a specialist keeps the types *)

LEMMA UpdateType ==
  ASSUME TypeOK, NEW rows \in Seq(Rows), NEW more \in BOOLEAN, NEW warn \in BOOLEAN
  PROVE  /\ Update(rows, more, warn) \in Updates
         /\ Update(rows, more, warn).query = job.query /\ Update(rows, more, warn).at = epoch
         /\ Update(rows, more, warn).more = more
<1>1. Filtered(rows, job.query) \in Seq(Rows)
  BY RowsType
<1>2. epoch \in 1..MaxEpoch /\ job.query \in BOOLEAN
  BY DEF TypeOK
<1> QED
  BY <1>1, <1>2 DEF Update, Updates

LEMMA SnapshotType ==
  /\ Empty \in Snapshots /\ Empty.rows = <<>> /\ Empty.from = "none"
  /\ \A u \in Updates : /\ Unmoded(u) \in Snapshots
                        /\ \A m \in BOOLEAN : [Unmoded(u) EXCEPT !.rows = Moded(u.rows, m)] \in Snapshots
<1>1. <<>> \in Seq(Rows) /\ 0 \in 0..MaxEpoch
  BY SpecialistAssumption
<1>2. Empty \in Snapshots /\ Empty.rows = <<>> /\ Empty.from = "none"
  BY <1>1 DEF Empty, Snapshots
<1>3. ASSUME NEW u \in Updates
      PROVE  /\ Unmoded(u) \in Snapshots
             /\ \A m \in BOOLEAN : [Unmoded(u) EXCEPT !.rows = Moded(u.rows, m)] \in Snapshots
  <2>1. u.rows \in Seq(Rows) /\ u.at \in 0..MaxEpoch /\ u.query \in BOOLEAN
    BY SpecialistAssumption DEF Updates
  <2>2. Unmoded(u) \in Snapshots
    BY <2>1 DEF Unmoded, Snapshots
  <2>3. \A m \in BOOLEAN : Moded(u.rows, m) \in Seq(Rows)
    BY <2>1, RowsType
  <2> QED
    BY <2>2, <2>3 DEF Snapshots
<1> QED
  BY <1>2, <1>3

LEMMA WorldType ==
  ASSUME TypeOK, NEW keep
  PROVE  world \in Seq(Rows) /\ Retain(world, keep) \in Seq(Rows) /\ <<>> \in Seq(Rows)
BY RetainType, SpecialistAssumption DEF TypeOK

LEMMA SpawnType ==
  ASSUME TypeOK, NEW auto \in BOOLEAN, NEW q \in BOOLEAN, Spawn(auto, q)
  PROVE  /\ job' \in [stage : {"first", "second", "over"}, auto : BOOLEAN, query : BOOLEAN]
         /\ job'.query = q /\ channel' = <<>> /\ channel' \in Seq(Updates)
         /\ strays' \in [auto : Nat, asked : Nat]
BY DEF TypeOK, Spawn

LEMMA ThreadsType ==
  ASSUME TypeOK, Threads
  PROVE  TypeOK'
<1> USE SpecialistAssumption DEF TypeOK, hostVars, screenVars, jobVars, flagVars, dialogVars
<1>f. ASSUME faults < MaxFaults, faults' = faults + 1 PROVE faults' \in 0..MaxFaults
  BY <1>f
<1>1. CASE SendFirst
  <2>1. Update(Retain(world, Early), TRUE, FALSE) \in Updates
    BY WorldType, UpdateType
  <2>2. channel' \in Seq(Updates)
    BY <1>1, <2>1, Sent DEF SendFirst
  <2> QED
    BY <1>1, <2>2 DEF SendFirst, Updates
<1>2. CASE SendLast
  <2>1. Update(world, FALSE, FALSE) \in Updates
    BY WorldType, UpdateType
  <2>2. channel' \in Seq(Updates)
    BY <1>2, <2>1, Sent DEF SendLast
  <2> QED
    BY <1>2, <2>2 DEF SendLast, Updates
<1>3. CASE SendWarning
  <2>1. Update(<<>>, FALSE, TRUE) \in Updates
    BY WorldType, UpdateType
  <2>2. channel' \in Seq(Updates)
    BY <1>3, <2>1, Sent DEF SendWarning
  <2> QED
    BY <1>3, <1>f, <2>2 DEF SendWarning, Updates
<1>4. CASE DieJob
  BY <1>4, <1>f DEF DieJob
<1>5. CASE EndStray
  <2>1. PICK kind \in {"auto", "asked"} :
          strays[kind] > 0 /\ strays' = [strays EXCEPT ![kind] = @ - 1]
    BY <1>5 DEF EndStray
  <2>2. strays' \in [auto : Nat, asked : Nat]
    BY <2>1
  <2> QED
    BY <1>5, <2>2 DEF EndStray
<1> QED
  BY <1>1, <1>2, <1>3, <1>4, <1>5 DEF Threads

LEMMA PollsType ==
  ASSUME TypeOK, Polls \/ ChangeHost
  PROVE  TypeOK'
<1> USE SpecialistAssumption DEF TypeOK, hostVars, screenVars, jobVars, flagVars, dialogVars
<1>1. CASE BecomeDue
  BY <1>1 DEF BecomeDue
<1>2. CASE StartContainerPoll
  <2>1. /\ job' \in [stage : {"first", "second", "over"}, auto : BOOLEAN, query : BOOLEAN]
        /\ channel' \in Seq(Updates) /\ strays' \in [auto : Nat, asked : Nat]
    BY <1>2, SpawnType DEF StartContainerPoll
  <2> QED
    BY <1>2, <2>1 DEF StartContainerPoll, Updates
<1>3. CASE StartInventory
  <2>1. /\ job' \in [stage : {"first", "second", "over"}, auto : BOOLEAN, query : BOOLEAN]
        /\ channel' \in Seq(Updates) /\ strays' \in [auto : Nat, asked : Nat]
    BY <1>3, SpawnType DEF StartInventory
  <2> QED
    BY <1>3, <2>1 DEF StartInventory, Updates
<1>4. CASE SkipFirstPart
  <2>1. channel' \in Seq(Updates) /\ Receive
    BY <1>4, Received DEF SkipFirstPart
  <2>2. loading' = TRUE
    BY <1>4 DEF SkipFirstPart
  <2>3. UNCHANGED <<view, open, hostVars, screenVars, searching, query, job, strays, polling, due,
                    dialogVars, keys>>
    BY <1>4 DEF SkipFirstPart
  <2> QED
    BY <2>1, <2>2, <2>3 DEF Updates
<1>5. CASE DropWhilePaused
  <2>1. channel' \in Seq(Updates) /\ Receive
    BY <1>5, Received DEF DropWhilePaused
  <2>2. loading' = FALSE
    BY <1>5 DEF DropWhilePaused
  <2>3. UNCHANGED <<view, open, hostVars, screenVars, searching, query, job, strays, polling, due,
                    dialogVars, keys>>
    BY <1>5 DEF DropWhilePaused
  <2> QED
    BY <2>1, <2>2, <2>3 DEF Updates
<1>6. CASE KeepStale
  <2>1. Head(channel) \in Updates /\ channel' \in Seq(Updates)
    BY <1>6, Received DEF KeepStale
  <2>2. source' \in Snapshots
    BY <1>6, <2>1, SnapshotType DEF KeepStale
  <2> QED
    BY <1>6, <2>1, <2>2 DEF KeepStale, Updates
<1>7. CASE ShowUpdate
  <2>1. Head(channel) \in Updates /\ channel' \in Seq(Updates)
    BY <1>7, Received DEF ShowUpdate
  <2>2. source' \in Snapshots /\ shown' \in Snapshots
    BY <1>7, <2>1, SnapshotType DEF ShowUpdate
  <2>3. selected' \in Nat
    <3>1. Head(channel).rows \in Seq(Rows) /\ shown.rows \in Seq(Rows)
      BY <2>1 DEF Updates, Snapshots
    <3>2. Moded(Head(channel).rows, mode) \in Seq(Rows) /\ Len(Moded(Head(channel).rows, mode)) \in Nat
      BY <3>1, RowsType
    <3> QED
      BY <1>7, <3>1, <3>2, PreserveKeeps, ClampType DEF ShowUpdate
  <2>4. Head(channel).more \in BOOLEAN
    BY <2>1 DEF Updates
  <2> QED
    BY <1>7, <2>1, <2>2, <2>3, <2>4 DEF ShowUpdate, Updates
<1>8. CASE NoticeDeath
  BY <1>8 DEF NoticeDeath
<1>9. CASE FinishAction
  BY <1>9 DEF FinishAction
<1>10. CASE ChangeHost
  BY <1>10 DEF ChangeHost
<1> QED
  BY <1>1, <1>2, <1>3, <1>4, <1>5, <1>6, <1>7, <1>8, <1>9, <1>10 DEF Polls

\* Every way to move the cursor leaves it on a row.
LEMMA CursorMoves ==
  ASSUME TypeOK, MoveCursor
  PROVE  selected' \in Nat /\ (shown.rows # <<>> => selected' < Len(shown.rows))
<1> DEFINE n == Len(shown.rows)
<1>1. shown.rows \in Seq(Rows) /\ selected \in Nat
  BY DEF TypeOK, Snapshots
<1>2. n \in Nat /\ (shown.rows # <<>> => n # 0) /\ selected + 1 \in Nat
  BY <1>1
<1>3. selected' \in {Clamp(selected + 1, n), Clamp(Last(selected), n), 0, Last(n)}
  BY DEF MoveCursor
<1> HIDE DEF n
<1>a. n # 0 => 0 < n
  BY <1>2
<1>4. Last(selected) \in Nat /\ Last(n) \in Nat /\ (n # 0 => Last(n) < n /\ 0 < n)
  BY <1>1, <1>2, <1>a DEF Last
<1>5. /\ Clamp(selected + 1, n) \in Nat /\ (n # 0 => Clamp(selected + 1, n) < n)
      /\ Clamp(Last(selected), n) \in Nat /\ (n # 0 => Clamp(Last(selected), n) < n)
  BY <1>2, <1>4, ClampType
<1> QED
  BY <1>2, <1>3, <1>4, <1>5 DEF n

LEMMA KeysType ==
  ASSUME TypeOK, Keys
  PROVE  TypeOK'
<1> USE SpecialistAssumption DEF TypeOK, hostVars, screenVars, jobVars, flagVars, dialogVars
<1>p. ASSUME Press PROVE keys' \in 0..MaxKeys
  BY <1>p DEF Press
<1>r. ASSUME NEW q \in BOOLEAN, Refresh(q)
      PROVE  /\ job' \in [stage : {"first", "second", "over"}, auto : BOOLEAN, query : BOOLEAN]
             /\ channel' \in Seq(Updates) /\ strays' \in [auto : Nat, asked : Nat]
             /\ shown' \in Snapshots /\ loading' = TRUE
  BY <1>r, SpawnType, SnapshotType DEF Refresh
<1>1. CASE DialogKey
  <2>1. dialog' \in [stage : {"none", "choose", "confirm", "running", "result"}, target : Rows \cup {Nothing}]
        /\ executed' \in Rows \cup {Nothing}
    BY <1>1 DEF DialogKey, Closed
  <2> QED
    BY <1>1, <1>p, <2>1 DEF DialogKey
<1>2. CASE CloseResult
  <2>1. dialog' \in [stage : {"none", "choose", "confirm", "running", "result"}, target : Rows \cup {Nothing}]
    BY <1>2 DEF CloseResult, Closed
  <2> QED
    BY <1>2, <1>p, <1>r, <2>1 DEF CloseResult, Updates
<1>3. CASE SearchKey
  <2>1. CASE UNCHANGED <<query, shown, jobVars, loading, selected>>
    BY <1>3, <1>p, <2>1 DEF SearchKey
  <2>2. CASE query' = TRUE /\ Refresh(TRUE) /\ selected' = 0
    BY <1>3, <1>p, <1>r, <2>2 DEF SearchKey, Updates
  <2> QED
    BY <1>3, <2>1, <2>2 DEF SearchKey
<1>4. CASE Leave
  BY <1>4, <1>p DEF Leave, PressView
<1>5. CASE MoveCursor
  <2>3. selected' \in Nat
    BY <1>5, CursorMoves
  <2>4. follow' \in BOOLEAN
    BY <1>5 DEF MoveCursor
  <2> QED
    BY <1>5, <1>p, <2>3, <2>4 DEF MoveCursor, PressView
<1>6. CASE Inspect
  BY <1>6, <1>p DEF Inspect, PressView
<1>7. CASE Pause
  BY <1>7, <1>p DEF Pause, PressView
<1>8. CASE ToggleMode
  <2>1. source.rows \in Seq(Rows) /\ shown.rows \in Seq(Rows)
    BY DEF Snapshots
  <2>2. Moded(source.rows, ~mode) \in Seq(Rows) /\ Len(Moded(source.rows, ~mode)) \in Nat
    BY <2>1, RowsType
  <2>3. shown' \in Snapshots
    BY <1>8, <2>2 DEF ToggleMode, Snapshots
  <2>4. selected' \in Nat
    BY <1>8, <2>1, <2>2, PreserveKeeps, ClampType DEF ToggleMode
  <2> QED
    BY <1>8, <1>p, <2>3, <2>4 DEF ToggleMode, PressView
<1>9. CASE OpenSearch
  BY <1>9, <1>p DEF OpenSearch, PressView
<1>10. CASE OfferAction
  <2>1. Under(shown.rows, selected) \in Rows \cup {Nothing}
    BY UnderType DEF Snapshots
  <2> QED
    BY <1>10, <1>p, <2>1 DEF OfferAction, PressView
<1>11. CASE AskRefresh
  BY <1>11, <1>p, <1>r DEF AskRefresh, PressView, Updates
<1> QED
  BY <1>1, <1>2, <1>3, <1>4, <1>5, <1>6, <1>7, <1>8, <1>9, <1>10, <1>11 DEF Keys

-----------------------------------------------------------------------------
(* Every step of a specialist keeps the rest of the invariant *)

SOrder ==
  /\ CursorOnRow /\ IdleMeansOver /\ OnlyTheAwaitedAnswer /\ ActsOnWhatWasOffered
  /\ Awaited /\ SinceAction /\ Targets /\ Follows

\* A part of the collection that is awaited.
LEMMA SendKeeps ==
  ASSUME SInv, NEW u \in Updates, channel' = Append(channel, u),
         u.query = job.query, u.at = epoch, u.more => view \in TwoPart,
         ~u.more => job'.stage = "over", job.stage # "over",
         job' = [job EXCEPT !.stage = "second"] \/ job' = [job EXCEPT !.stage = "over"],
         UNCHANGED <<view, open, epoch, screenVars, query, flagVars, dialogVars>>
  PROVE  SOrder'
<1>1. CursorOnRow' /\ OnlyTheAwaitedAnswer' /\ ActsOnWhatWasOffered' /\ Targets' /\ Follows'
  BY DEF SInv, CursorOnRow, OnlyTheAwaitedAnswer, ActsOnWhatWasOffered, Targets, Follows,
         screenVars, dialogVars
<1>2. job'.query = job.query /\ job'.stage \in {"second", "over"}
  BY DEF SInv, TypeOK
<1>3. IdleMeansOver'
  BY DEF SInv, IdleMeansOver, flagVars
<1>4. \A i \in DOMAIN channel' : channel'[i] = u \/ \E j \in DOMAIN channel : channel'[i] = channel[j]
  BY Sent DEF SInv
<1>5. Awaited'
  BY <1>2, <1>4 DEF SInv, Awaited, TwoPart
<1>6. SinceAction'
  <2>1. settled \in Nat /\ epoch \in Nat /\ epoch >= settled
    BY SpecialistAssumption DEF SInv, TypeOK, SinceAction
  <2> QED
    BY <1>4, <2>1 DEF SInv, SinceAction, screenVars, dialogVars
<1> QED
  BY <1>1, <1>3, <1>5, <1>6 DEF SOrder

LEMMA ThreadsKeep ==
  ASSUME SInv, Threads
  PROVE  SOrder'
<1>i. TypeOK
  BY DEF SInv
<1>w. world \in Seq(Rows) /\ Retain(world, Early) \in Seq(Rows) /\ <<>> \in Seq(Rows)
  BY <1>i, WorldType
<1>1. CASE SendFirst
  <2> DEFINE u == Update(Retain(world, Early), TRUE, FALSE)
  <2>1. u \in Updates /\ u.query = job.query /\ u.at = epoch /\ u.more = TRUE
    BY <1>i, <1>w, UpdateType
  <2>2. /\ channel' = Append(channel, u) /\ job' = [job EXCEPT !.stage = "second"]
        /\ view \in TwoPart /\ job.stage # "over"
        /\ UNCHANGED <<view, open, epoch, screenVars, query, flagVars, dialogVars>>
    BY <1>1 DEF SendFirst, hostVars
  <2> HIDE DEF u
  <2> QED
    BY <2>1, <2>2, SendKeeps
<1>2. ASSUME NEW rows \in Seq(Rows), NEW warn \in BOOLEAN,
             channel' = Append(channel, Update(rows, FALSE, warn)), Finishing,
             job' = [job EXCEPT !.stage = "over"],
             UNCHANGED <<view, open, epoch, screenVars, query, flagVars, dialogVars>>
      PROVE  SOrder'
  <2> DEFINE u == Update(rows, FALSE, warn)
  <2>1. u \in Updates /\ u.query = job.query /\ u.at = epoch /\ u.more = FALSE
    BY <1>i, <1>2, UpdateType
  <2>2. job.stage # "over" /\ job'.stage = "over"
    BY <1>i, <1>2 DEF Finishing, TypeOK
  <2> HIDE DEF u
  <2> QED
    BY <1>2, <2>1, <2>2, SendKeeps DEF u
<1>3. CASE SendLast
  BY <1>2, <1>3, <1>w DEF SendLast, hostVars
<1>4. CASE SendWarning
  BY <1>2, <1>4, <1>w DEF SendWarning
<1>5. CASE DieJob
  <2>1. /\ job'.stage = "over" /\ job'.query = job.query
        /\ UNCHANGED <<view, open, epoch, screenVars, query, channel, flagVars, dialogVars>>
    BY <1>5, <1>i DEF DieJob, TypeOK
  <2>2. CursorOnRow' /\ OnlyTheAwaitedAnswer' /\ ActsOnWhatWasOffered' /\ Targets' /\ Follows'
    BY <2>1 DEF SInv, CursorOnRow, OnlyTheAwaitedAnswer, ActsOnWhatWasOffered, Targets, Follows,
           screenVars, dialogVars
  <2>3. IdleMeansOver' /\ Awaited' /\ SinceAction'
    BY <2>1 DEF SInv, IdleMeansOver, Awaited, SinceAction, flagVars, dialogVars, screenVars, TwoPart
  <2> QED
    BY <2>2, <2>3 DEF SOrder
<1>6. CASE EndStray
  <2>1. UNCHANGED <<view, open, epoch, screenVars, query, job, channel, flagVars, dialogVars>>
    BY <1>6 DEF EndStray, hostVars
  <2>2. CursorOnRow' /\ OnlyTheAwaitedAnswer' /\ ActsOnWhatWasOffered' /\ Targets' /\ Follows'
    BY <2>1 DEF SInv, CursorOnRow, OnlyTheAwaitedAnswer, ActsOnWhatWasOffered, Targets, Follows,
           screenVars, dialogVars
  <2>3. IdleMeansOver' /\ Awaited' /\ SinceAction'
    BY <2>1 DEF SInv, IdleMeansOver, Awaited, SinceAction, flagVars, dialogVars, screenVars, TwoPart
  <2> QED
    BY <2>2, <2>3 DEF SOrder
<1> QED
  BY <1>1, <1>3, <1>4, <1>5, <1>6 DEF Threads

\* The first update that waits.
LEMMA HeadAwaited ==
  ASSUME SInv, Receive
  PROVE  /\ Head(channel) \in Updates /\ Head(channel).query = query
         /\ Head(channel).more => view \in TwoPart
         /\ ~Head(channel).more => job.stage = "over"
         /\ dialog.stage \in {"none", "choose", "confirm"} => Head(channel).at >= settled
<1>1. Head(channel) \in Updates /\ 1 \in DOMAIN channel /\ Head(channel) = channel[1]
  BY Received DEF SInv
<1> QED
  BY <1>1 DEF SInv, Awaited, SinceAction

\* The others still wait.
LEMMA RestAwaited ==
  ASSUME SInv, Receive, UNCHANGED <<view, job, query>>
  PROVE  /\ Awaited'
         /\ dialog.stage \in {"none", "choose", "confirm"} =>
              \A i \in DOMAIN channel' : channel'[i].at >= settled
<1>1. \A i \in DOMAIN channel' : \E j \in DOMAIN channel : channel'[i] = channel[j]
  BY Received DEF SInv
<1>2. Awaited'
  BY <1>1 DEF SInv, Awaited, TwoPart
<1> QED
  BY <1>1, <1>2 DEF SInv, SinceAction

LEMMA ReceiveKeeps ==
  ASSUME SInv, SkipFirstPart \/ DropWhilePaused \/ KeepStale
  PROVE  SOrder'
<1>1. /\ Receive
      /\ UNCHANGED <<view, open, epoch, shown, selected, inspecting, follow, paused, query, job,
                     dialog, offered, executed, settled>>
  BY DEF SkipFirstPart, DropWhilePaused, KeepStale, hostVars, screenVars, dialogVars
<1>2. CursorOnRow' /\ OnlyTheAwaitedAnswer' /\ ActsOnWhatWasOffered' /\ Targets' /\ Follows'
  BY <1>1 DEF SInv, CursorOnRow, OnlyTheAwaitedAnswer, ActsOnWhatWasOffered, Targets, Follows
<1>3. Awaited' /\ SinceAction'
  BY <1>1, RestAwaited DEF SInv, SinceAction
<1>4. IdleMeansOver'
  <2>1. CASE SkipFirstPart
    BY <2>1 DEF SkipFirstPart, IdleMeansOver
  <2>2. CASE DropWhilePaused \/ KeepStale
    <3>1. view \in {"logs", "containers"}
      BY <2>2 DEF DropWhilePaused, KeepStale, Drops, Stale
    <3>2. ~Head(channel).more
      BY <1>1, <3>1, HeadAwaited DEF TwoPart
    <3> QED
      BY <1>1, <3>2, HeadAwaited DEF IdleMeansOver
  <2> QED
    BY <2>1, <2>2
<1> QED
  BY <1>2, <1>3, <1>4 DEF SOrder

LEMMA ShowKeeps ==
  ASSUME SInv, ShowUpdate
  PROVE  SOrder'
<1> DEFINE u == Head(channel)
           rows == Moded(u.rows, mode)
<1>i. TypeOK /\ Receive
  BY DEF SInv, ShowUpdate
<1>1. /\ u \in Updates /\ u.query = query /\ (~u.more => job.stage = "over")
      /\ dialog.stage \in {"none", "choose", "confirm"} => u.at >= settled
  BY <1>i, HeadAwaited
<1>2. u.rows \in Seq(Rows) /\ shown.rows \in Seq(Rows) /\ selected \in Nat
  BY <1>i, <1>1 DEF Updates, TypeOK, Snapshots
<1>3. rows \in Seq(Rows) /\ Len(rows) \in Nat
  BY <1>2, RowsType
<1>4. /\ shown'.rows = rows /\ shown'.at = u.at /\ shown'.query = u.query /\ shown'.from = "update"
      /\ selected' = IF view = "logs" /\ follow THEN Last(Len(rows))
                     ELSE Preserve(view, shown.rows, rows, selected)
      /\ loading' = u.more
  BY DEF ShowUpdate, Unmoded
<1>5. /\ UNCHANGED <<view, open, epoch, inspecting, follow, paused, query, job,
                     dialog, offered, executed, settled>>
  BY DEF ShowUpdate, hostVars, dialogVars
<1> HIDE DEF rows, u
<1>6. CursorOnRow'
  <2>1. rows # <<>> => Len(rows) # 0
    BY <1>3
  <2>2. rows # <<>> => Last(Len(rows)) < Len(rows)
    BY <1>3, <2>1, ClampType
  <2>3. rows # <<>> => Preserve(view, shown.rows, rows, selected) < Len(rows)
    BY <1>2, <1>3, PreserveKeeps
  <2> QED
    BY <1>4, <2>2, <2>3 DEF CursorOnRow
<1>7. OnlyTheAwaitedAnswer'
  BY <1>1, <1>4, <1>5 DEF OnlyTheAwaitedAnswer
<1>8. Awaited' /\ SinceAction'
  BY <1>i, <1>1, <1>4, <1>5, RestAwaited DEF SInv, SinceAction
<1>9. IdleMeansOver'
  BY <1>1, <1>4, <1>5 DEF IdleMeansOver
<1>10. ActsOnWhatWasOffered' /\ Targets' /\ Follows'
  BY <1>5 DEF SInv, ActsOnWhatWasOffered, Targets, Follows
<1> QED
  BY <1>6, <1>7, <1>8, <1>9, <1>10 DEF SOrder

\* A new thread for the search that is active; nothing that an earlier one sent is kept.
LEMMA SpawnKeeps ==
  ASSUME SInv, NEW auto \in BOOLEAN, NEW q \in BOOLEAN, Spawn(auto, q), query' = q,
         loading' \/ polling', settled' = settled, epoch' = epoch,
         shown' = Empty \/ UNCHANGED <<shown, selected, query>>,
         UNCHANGED <<view, open, paused>>, inspecting' => inspecting, follow' = follow,
         /\ offered' = offered /\ executed' = executed
         /\ dialog' = dialog \/ (shown' = Empty /\ dialog' = Closed)
  PROVE  SOrder'
<1>1. channel' = <<>> /\ job'.query = query'
  BY SpawnType DEF SInv
<1>2. DOMAIN channel' = {}
  BY <1>1
<1>3. Empty.rows = <<>> /\ Empty.from = "none"
  BY DEF Empty
<1>4. CursorOnRow'
  BY <1>3 DEF SInv, CursorOnRow
<1>5. OnlyTheAwaitedAnswer'
  BY <1>3 DEF SInv, OnlyTheAwaitedAnswer
<1>6. ActsOnWhatWasOffered' /\ Targets' /\ Follows'
  BY DEF SInv, ActsOnWhatWasOffered, Targets, Follows, Closed
<1>7. IdleMeansOver'
  BY DEF IdleMeansOver
<1>8. Awaited' /\ SinceAction'
  BY <1>1, <1>2, <1>3 DEF SInv, Awaited, SinceAction
<1> QED
  BY <1>4, <1>5, <1>6, <1>7, <1>8 DEF SOrder

LEMMA OtherPollsKeep ==
  ASSUME SInv, \/ BecomeDue \/ StartContainerPoll \/ StartInventory \/ NoticeDeath
               \/ FinishAction \/ ChangeHost
  PROVE  SOrder'
<1> USE DEF hostVars, screenVars, jobVars, flagVars, dialogVars
<1>1. CASE BecomeDue \/ NoticeDeath
  <2>1. /\ UNCHANGED <<view, open, epoch, shown, selected, inspecting, follow, paused, query, job,
                       channel, dialog, offered, executed, settled>>
        /\ UNCHANGED <<loading, polling>> \/ job.stage = "over"
    BY <1>1 DEF BecomeDue, NoticeDeath
  <2>2. CursorOnRow' /\ OnlyTheAwaitedAnswer' /\ ActsOnWhatWasOffered' /\ Targets' /\ Follows'
    BY <2>1 DEF SInv, CursorOnRow, OnlyTheAwaitedAnswer, ActsOnWhatWasOffered, Targets, Follows
  <2>3. IdleMeansOver' /\ Awaited' /\ SinceAction'
    BY <2>1 DEF SInv, IdleMeansOver, Awaited, SinceAction, TwoPart
  <2> QED
    BY <2>2, <2>3 DEF SOrder
<1>2. CASE StartContainerPoll
  <2>1. query \in BOOLEAN /\ TRUE \in BOOLEAN
    BY DEF SInv, TypeOK
  <2> QED
    BY <1>2, <2>1, SpawnKeeps DEF StartContainerPoll
<1>3. CASE StartInventory
  <2>1. query \in BOOLEAN /\ TRUE \in BOOLEAN
    BY DEF SInv, TypeOK
  <2> QED
    BY <1>3, <2>1, SpawnKeeps DEF StartInventory
<1>4. CASE FinishAction
  <2>1. /\ UNCHANGED <<view, open, epoch, shown, selected, inspecting, follow, paused, query, job,
                       channel, loading, polling, offered, executed>>
        /\ dialog.stage = "running" /\ dialog' = [dialog EXCEPT !.stage = "result"]
        /\ settled' = epoch
    BY <1>4 DEF FinishAction
  <2>2. dialog'.stage = "result" /\ dialog'.target = dialog.target
    BY <2>1 DEF SInv, TypeOK
  <2>3. CursorOnRow' /\ Follows' /\ IdleMeansOver' /\ Awaited'
    BY <2>1 DEF SInv, CursorOnRow, Follows, IdleMeansOver, Awaited, TwoPart
  <2>4. OnlyTheAwaitedAnswer' /\ ActsOnWhatWasOffered' /\ Targets'
    BY <2>1, <2>2 DEF SInv, OnlyTheAwaitedAnswer, ActsOnWhatWasOffered, Targets
  <2>5. SinceAction'
    BY <2>1, <2>2 DEF SInv, TypeOK, SinceAction
  <2> QED
    BY <2>3, <2>4, <2>5 DEF SOrder
<1>5. CASE ChangeHost
  <2>1. /\ UNCHANGED <<view, open, shown, selected, inspecting, follow, paused, query, job,
                       channel, loading, polling, dialog, offered, executed, settled>>
        /\ epoch' = epoch + 1
    BY <1>5 DEF ChangeHost
  <2>2. CursorOnRow' /\ OnlyTheAwaitedAnswer' /\ ActsOnWhatWasOffered' /\ Targets' /\ Follows'
    BY <2>1 DEF SInv, CursorOnRow, OnlyTheAwaitedAnswer, ActsOnWhatWasOffered, Targets, Follows
  <2>3. IdleMeansOver' /\ Awaited'
    BY <2>1 DEF SInv, IdleMeansOver, Awaited, TwoPart
  <2>4. SinceAction'
    <3>1. settled \in Nat /\ epoch \in Nat /\ settled <= epoch
      BY SpecialistAssumption DEF SInv, TypeOK, SinceAction
    <3> QED
      BY <2>1, <3>1 DEF SInv, SinceAction
  <2> QED
    BY <2>2, <2>3, <2>4 DEF SOrder
<1> QED
  BY <1>1, <1>2, <1>3, <1>4, <1>5

\* A step that leaves the rows, the cursor, the thread and the dialog alone.
LEMMA AloneKeeps ==
  ASSUME SInv,
         UNCHANGED <<view, epoch, shown, selected, query, job, channel, loading, polling,
                     dialog, offered, executed, settled>>,
         open' => open, Follows'
  PROVE  SOrder'
<1>1. CursorOnRow' /\ OnlyTheAwaitedAnswer' /\ ActsOnWhatWasOffered' /\ Targets'
  BY DEF SInv, CursorOnRow, OnlyTheAwaitedAnswer, ActsOnWhatWasOffered, Targets
<1>2. IdleMeansOver' /\ Awaited' /\ SinceAction'
  BY DEF SInv, IdleMeansOver, Awaited, SinceAction, TwoPart
<1> QED
  BY <1>1, <1>2 DEF SOrder

LEMMA DialogKeeps ==
  ASSUME SInv, DialogKey \/ OfferAction
  PROVE  SOrder'
<1> USE DEF hostVars, screenVars, jobVars, flagVars, dialogVars
<1>1. /\ UNCHANGED <<view, open, epoch, shown, selected, inspecting, follow, paused, query, job,
                     channel, loading, polling, settled>>
      /\ dialog.stage \in {"none", "choose", "confirm"}
  BY DEF DialogKey, OfferAction, PressView
<1>2. CursorOnRow' /\ Follows' /\ IdleMeansOver' /\ Awaited'
  BY <1>1 DEF SInv, CursorOnRow, Follows, IdleMeansOver, Awaited, TwoPart
<1>3. OnlyTheAwaitedAnswer' /\ SinceAction'
  BY <1>1 DEF SInv, OnlyTheAwaitedAnswer, SinceAction
<1>4. ActsOnWhatWasOffered' /\ Targets'
  <2>1. CASE DialogKey
    BY <2>1 DEF SInv, TypeOK, DialogKey, Closed, ActsOnWhatWasOffered, Targets
  <2>2. CASE OfferAction
    BY <2>2 DEF OfferAction, ActsOnWhatWasOffered, Targets
  <2> QED
    BY <2>1, <2>2
<1> QED
  BY <1>2, <1>3, <1>4 DEF SOrder

LEMMA RefreshKeeps ==
  ASSUME SInv, CloseResult \/ SearchKey \/ AskRefresh
  PROVE  SOrder'
<1> USE DEF hostVars, screenVars, jobVars, flagVars, dialogVars
<1>q. query \in BOOLEAN /\ TRUE \in BOOLEAN /\ FALSE \in BOOLEAN
  BY DEF SInv, TypeOK
<1>1. CASE CloseResult
  BY <1>1, <1>q, SpawnKeeps DEF CloseResult, Refresh
<1>2. CASE SearchKey
  <2>1. CASE UNCHANGED <<query, shown, jobVars, loading, selected>>
    <3>1. UNCHANGED <<view, open, epoch, inspecting, follow, paused, polling,
                      dialog, offered, executed, settled>>
      BY <1>2 DEF SearchKey
    <3>2. Follows'
      BY <3>1 DEF SInv, Follows
    <3> QED
      BY <2>1, <3>1, <3>2, AloneKeeps
  <2>2. CASE query' = TRUE /\ Refresh(TRUE) /\ selected' = 0
    BY <1>2, <1>q, <2>2, SpawnKeeps DEF SearchKey, Refresh
  <2> QED
    BY <1>2, <2>1, <2>2 DEF SearchKey
<1>3. CASE AskRefresh
  BY <1>3, <1>q, SpawnKeeps DEF AskRefresh, Refresh
<1> QED
  BY <1>1, <1>2, <1>3

LEMMA ViewKeysKeep ==
  ASSUME SInv, Leave \/ MoveCursor \/ Inspect \/ Pause \/ ToggleMode \/ OpenSearch
  PROVE  SOrder'
<1> USE DEF hostVars, screenVars, jobVars, flagVars, dialogVars
<1>i. TypeOK /\ Follows
  BY DEF SInv
<1>1. CASE Leave
  <2>1. Follows'
    BY <1>1, <1>i DEF Leave, Follows
  <2> QED
    BY <1>1, <2>1, AloneKeeps DEF Leave
<1>2. CASE MoveCursor
  <2>1. /\ UNCHANGED <<view, open, epoch, shown, inspecting, paused, query, job, channel, loading,
                       polling, dialog, offered, executed, settled>>
        /\ ~inspecting
    BY <1>2 DEF MoveCursor
  <2>2. CursorOnRow'
    BY <1>2, <1>i, <2>1, CursorMoves DEF CursorOnRow
  <2>3. OnlyTheAwaitedAnswer' /\ ActsOnWhatWasOffered' /\ Targets' /\ Follows'
    BY <2>1 DEF SInv, OnlyTheAwaitedAnswer, ActsOnWhatWasOffered, Targets, Follows
  <2>4. IdleMeansOver' /\ Awaited' /\ SinceAction'
    BY <2>1 DEF SInv, IdleMeansOver, Awaited, SinceAction, TwoPart
  <2> QED
    BY <2>2, <2>3, <2>4 DEF SOrder
<1>3. CASE Inspect
  <2>1. Follows'
    BY <1>3, <1>i DEF Inspect, Follows
  <2> QED
    BY <1>3, <2>1, AloneKeeps DEF Inspect
<1>4. CASE Pause
  <2>1. Follows'
    BY <1>4, <1>i DEF Pause, Follows
  <2> QED
    BY <1>4, <2>1, AloneKeeps DEF Pause
<1>5. CASE ToggleMode
  <2> DEFINE rows == Moded(source.rows, ~mode)
  <2>1. /\ UNCHANGED <<view, open, epoch, inspecting, follow, paused, query, job, channel, loading,
                       polling, dialog, offered, executed, settled>>
        /\ shown'.rows = rows /\ shown'.from = "mode"
        /\ selected' = IF view = "logs" /\ follow THEN Last(Len(rows))
                       ELSE Preserve(view, shown.rows, rows, selected)
    BY <1>5, <1>i DEF ToggleMode, TypeOK, Snapshots
  <2>2. source.rows \in Seq(Rows) /\ shown.rows \in Seq(Rows) /\ selected \in Nat
    BY <1>i DEF TypeOK, Snapshots
  <2>3. rows \in Seq(Rows) /\ Len(rows) \in Nat
    BY <2>2, RowsType
  <2> HIDE DEF rows
  <2>4. CursorOnRow'
    <3>1. rows # <<>> => Len(rows) # 0
      BY <2>3
    <3>2. rows # <<>> => Last(Len(rows)) < Len(rows)
      BY <2>3, <3>1, ClampType
    <3>3. rows # <<>> => Preserve(view, shown.rows, rows, selected) < Len(rows)
      BY <2>2, <2>3, PreserveKeeps
    <3> QED
      BY <2>1, <3>2, <3>3 DEF CursorOnRow
  <2>5. OnlyTheAwaitedAnswer' /\ ActsOnWhatWasOffered' /\ Targets' /\ Follows'
    BY <2>1 DEF SInv, OnlyTheAwaitedAnswer, ActsOnWhatWasOffered, Targets, Follows
  <2>6. IdleMeansOver' /\ Awaited' /\ SinceAction'
    BY <2>1 DEF SInv, IdleMeansOver, Awaited, SinceAction, TwoPart
  <2> QED
    BY <2>4, <2>5, <2>6 DEF SOrder
<1>6. CASE OpenSearch
  <2>1. Follows'
    BY <1>6, <1>i DEF OpenSearch, Follows
  <2> QED
    BY <1>6, <2>1, AloneKeeps DEF OpenSearch
<1> QED
  BY <1>1, <1>2, <1>3, <1>4, <1>5, <1>6

LEMMA SInit ==
  ASSUME Init
  PROVE  SInv
<1> USE SpecialistAssumption
<1>1. TypeOK
  <2>1. Empty \in Snapshots /\ <<>> \in Seq(Updates)
    BY SnapshotType
  <2>2. /\ job \in [stage : {"first", "second", "over"}, auto : BOOLEAN, query : BOOLEAN]
        /\ strays \in [auto : Nat, asked : Nat]
        /\ dialog \in [stage : {"none", "choose", "confirm", "running", "result"},
                       target : Rows \cup {Nothing}]
    BY DEF Init, Closed
  <2>3. /\ epoch \in 1..MaxEpoch /\ keys \in 0..MaxKeys /\ faults \in 0..MaxFaults
        /\ settled \in 0..MaxEpoch /\ selected \in Nat
    BY DEF Init
  <2>4. {open, inspecting, follow, mode, paused, searching, query, loading, polling, due} \subseteq BOOLEAN
    BY DEF Init
  <2> QED
    BY <2>1, <2>2, <2>3, <2>4 DEF Init, TypeOK, Updates
<1>2. Empty.rows = <<>> /\ Empty.from = "none" /\ DOMAIN <<>> = {}
  BY DEF Empty
<1>3. CursorOnRow /\ OnlyTheAwaitedAnswer /\ ActsOnWhatWasOffered /\ Targets /\ Follows
  BY <1>2 DEF Init, CursorOnRow, OnlyTheAwaitedAnswer, ActsOnWhatWasOffered, Targets, Follows, Closed
<1>4. channel = <<>> /\ job.query = query /\ loading /\ settled = 0 /\ epoch = 1 /\ shown = Empty
  BY DEF Init
<1>5. DOMAIN channel = {}
  BY <1>4
<1>6. IdleMeansOver /\ Awaited
  BY <1>4, <1>5 DEF IdleMeansOver, Awaited
<1>7. SinceAction
  BY <1>2, <1>4, <1>5 DEF SinceAction
<1> QED
  BY <1>1, <1>3, <1>6, <1>7 DEF SInv

LEMMA SNext ==
  ASSUME SInv, [Next]_vars
  PROVE  SInv'
<1>1. TypeOK'
  <2>1. CASE UNCHANGED vars
    BY <2>1 DEF SInv, TypeOK, vars, hostVars, screenVars, jobVars, flagVars, dialogVars
  <2> QED
    BY <2>1, ThreadsType, PollsType, KeysType DEF SInv, Next
<1>2. SOrder'
  <2>1. CASE UNCHANGED vars
    <3>1. /\ UNCHANGED <<view, epoch, shown, selected, query, job, channel, loading, polling,
                         dialog, offered, executed, settled>>
          /\ UNCHANGED <<open, inspecting, follow, paused>>
      BY <2>1 DEF vars, hostVars, screenVars, jobVars, flagVars, dialogVars
    <3>2. Follows'
      BY <3>1 DEF SInv, Follows
    <3> QED
      BY <3>1, <3>2, AloneKeeps
  <2>2. CASE Polls
    BY <2>2, OtherPollsKeep, ReceiveKeeps, ShowKeeps DEF Polls
  <2>3. CASE Keys
    BY <2>3, DialogKeeps, RefreshKeeps, ViewKeysKeep DEF Keys
  <2> QED
    BY <2>1, <2>2, <2>3, ThreadsKeep, OtherPollsKeep DEF Next
<1> QED
  BY <1>1, <1>2 DEF SInv, SOrder

-----------------------------------------------------------------------------
(* The cockpit *)

Parts == [host : 1..CockpitEpoch, inv : 0..CockpitEpoch, full : BOOLEAN]
Samples == [ok : BOOLEAN, at : 0..CockpitEpoch]

\* The last part of a collection is sent by a thread that is over.
LastPart == \A i \in DOMAIN channel : channel[i].full => job.stage = "over"

\* Samples come in order: none that waits is older than the one that was shown last, which is
\* the one on the screen.
Newer ==
  /\ latest <= epoch
  /\ latest # 0 => figures.host \in {0, latest}
  /\ \A i \in DOMAIN answers : answers[i].ok => answers[i].at \in latest..epoch

\* A sampler that died has taken the only request with it.
Quiet == sampler = "dead" => requests = 0

\* A thread that goes on to the second part has collected the first.
Based == job.stage = "full" => job.host # 0

\* The inductive invariant of the cockpit.
CInv ==
  /\ C!TypeOK /\ C!OneSampleUnderway /\ C!OneCollection /\ C!CompleteStays
  /\ LastPart /\ Newer /\ Quiet /\ Based

LEMMA Bounds ==
  /\ CockpitEpoch \in Nat \ {0} /\ Cards \in Nat \ {0}
  /\ CockpitKeys \in Nat /\ MaxFaults \in Nat
BY CockpitBounds DEF C!CockpitAssumption

\* The types of what comes and goes, by themselves.
LEMMA CTypes ==
  ASSUME C!TypeOK
  PROVE  /\ channel \in Seq(Parts) /\ Len(channel) \in Nat
         /\ answers \in Seq(Samples) /\ Len(answers) \in Nat
         /\ epoch \in 1..CockpitEpoch /\ epoch \in Nat /\ latest \in 0..CockpitEpoch
         /\ requests \in Nat
         /\ figures \in [host : 0..CockpitEpoch, inv : 0..CockpitEpoch, full : BOOLEAN]
         /\ job \in [stage : {"base", "full", "over"}, host : 0..CockpitEpoch]
         /\ keys \in 0..CockpitKeys /\ faults \in 0..MaxFaults /\ selected \in 0..(Cards - 1)
<1>1. channel \in Seq(Parts) /\ answers \in Seq(Samples)
  BY DEF C!TypeOK, Parts, Samples
<1>2. Len(channel) \in Nat /\ Len(answers) \in Nat
  BY <1>1
<1>3. epoch \in Nat
  BY Bounds DEF C!TypeOK
<1> QED
  BY <1>1, <1>2, <1>3 DEF C!TypeOK

\* A sequence grows by one element ...
LEMMA Grown ==
  ASSUME NEW S, NEW s \in Seq(S), NEW e \in S
  PROVE  /\ Append(s, e) \in Seq(S) /\ Len(Append(s, e)) = Len(s) + 1 /\ Len(s) \in Nat
         /\ \A i \in DOMAIN Append(s, e) : Append(s, e)[i] = e \/ \E j \in DOMAIN s : Append(s, e)[i] = s[j]
<1>1. Append(s, e) \in Seq(S) /\ Len(Append(s, e)) = Len(s) + 1 /\ Len(s) \in Nat
  OBVIOUS
<1>2. ASSUME NEW i \in 1..(Len(s) + 1)
      PROVE  Append(s, e)[i] = e \/ \E j \in DOMAIN s : Append(s, e)[i] = s[j]
  <2>1. CASE i = Len(s) + 1
    BY <1>1, <2>1
  <2>2. CASE i \in 1..Len(s)
    BY <2>2
  <2>3. i = Len(s) + 1 \/ i \in 1..Len(s)
    BY <1>1
  <2> QED
    BY <2>1, <2>2, <2>3
<1>3. DOMAIN Append(s, e) = 1..(Len(s) + 1)
  BY <1>1
<1> QED
  BY <1>1, <1>2, <1>3

\* ... and loses its first.
LEMMA Shrunk ==
  ASSUME NEW S, NEW s \in Seq(S), s # <<>>
  PROVE  /\ Tail(s) \in Seq(S) /\ Len(Tail(s)) = Len(s) - 1 /\ Len(s) \in Nat /\ Len(s) > 0
         /\ Head(s) \in S /\ 1 \in DOMAIN s /\ Head(s) = s[1]
         /\ \A i \in DOMAIN Tail(s) : \E j \in DOMAIN s : Tail(s)[i] = s[j]
<1>1. Len(s) \in Nat /\ Len(s) > 0
  OBVIOUS
<1>2. Tail(s) \in Seq(S) /\ Len(Tail(s)) = Len(s) - 1 /\ \A i \in 1..(Len(s) - 1) : Tail(s)[i] = s[i + 1]
  BY <1>1
<1>3. \A i \in 1..(Len(s) - 1) : i + 1 \in DOMAIN s
  BY <1>1
<1>4. DOMAIN Tail(s) = 1..(Len(s) - 1)
  BY <1>2
<1>5. 1 \in DOMAIN s /\ Head(s) = s[1] /\ s[1] \in S
  BY <1>1
<1> QED
  BY <1>1, <1>2, <1>3, <1>4, <1>5

LEMMA CThreadsKeep ==
  ASSUME CInv, C!Threads
  PROVE  CInv'
<1> USE Bounds DEF C!inventoryVars, C!liveVars, C!samplerVars, C!keyVars
<1>i. /\ C!TypeOK /\ C!OneSampleUnderway /\ C!OneCollection /\ C!CompleteStays
      /\ LastPart /\ Newer /\ Quiet /\ Based
  BY DEF CInv
<1>t. /\ channel \in Seq(Parts) /\ Len(channel) \in Nat
      /\ answers \in Seq(Samples) /\ Len(answers) \in Nat
      /\ epoch \in 1..CockpitEpoch /\ epoch \in Nat /\ latest \in 0..CockpitEpoch
      /\ requests \in Nat
      /\ job \in [stage : {"base", "full", "over"}, host : 0..CockpitEpoch]
      /\ faults \in 0..MaxFaults
  BY <1>i, CTypes
<1>f. ASSUME faults < MaxFaults, faults' = faults + 1 PROVE faults' \in 0..MaxFaults
  BY <1>f, <1>t
<1>1. ASSUME UNCHANGED <<open, epoch, figures, loading, ready, due, liveDue, inFlight, latest,
                         reported, sampler, requests, answers, selected, searching, away, keys>>,
             faults' \in 0..MaxFaults,
             channel' \in Seq(Parts),
             job' \in [stage : {"base", "full", "over"}, host : 0..CockpitEpoch],
             ~loading => job'.stage = "over", LastPart', Based'
      PROVE  CInv'
  <2>1. C!TypeOK'
    BY <1>1, <1>i DEF C!TypeOK, Parts
  <2>2. C!OneSampleUnderway' /\ C!OneCollection' /\ C!CompleteStays' /\ Newer' /\ Quiet'
    BY <1>1, <1>i DEF C!OneSampleUnderway, C!OneCollection, C!CompleteStays, Newer, Quiet
  <2> QED
    BY <1>1, <2>1, <2>2 DEF CInv
<1>2. CASE C!SendBase
  <2> DEFINE p == [host |-> epoch, inv |-> 0, full |-> FALSE]
  <2>1. p \in Parts /\ p.full = FALSE
    BY <1>t DEF Parts
  <2>2. channel' = Append(channel, p) /\ job' = [stage |-> "full", host |-> epoch] /\ job.stage = "base"
    BY <1>2 DEF C!SendBase
  <2> HIDE DEF p
  <2>3. channel' \in Seq(Parts) /\ LastPart'
    BY <1>i, <1>t, <2>1, <2>2, Grown DEF LastPart
  <2>4. job' \in [stage : {"base", "full", "over"}, host : 0..CockpitEpoch]
    BY <1>t, <2>2
  <2>5. (~loading => job'.stage = "over") /\ Based'
    BY <1>i, <1>t, <2>2 DEF C!OneCollection, Based
  <2> QED
    BY <1>1, <1>2, <1>t, <2>3, <2>4, <2>5 DEF C!SendBase
<1>3. CASE C!SendFull
  <2> DEFINE p == [host |-> job.host, inv |-> epoch, full |-> TRUE]
  <2>1. channel' = Append(channel, p) /\ job' = [job EXCEPT !.stage = "over"]
    BY <1>3 DEF C!SendFull
  <2>2. job' \in [stage : {"base", "full", "over"}, host : 0..CockpitEpoch] /\ job'.stage = "over"
    BY <1>t, <2>1
  <2>3. p \in Parts
    <3>1. job.host \in 1..CockpitEpoch /\ epoch \in 0..CockpitEpoch
      BY <1>3, <1>i, <1>t DEF C!SendFull, Based
    <3> QED
      BY <3>1 DEF Parts
  <2> HIDE DEF p
  <2>4. channel' \in Seq(Parts) /\ LastPart' /\ Based'
    BY <1>t, <2>1, <2>2, <2>3, Grown DEF LastPart, Based
  <2> QED
    BY <1>1, <1>3, <1>t, <2>2, <2>4 DEF C!SendFull
<1>4. CASE C!DieJob
  <2>1. job' \in [stage : {"base", "full", "over"}, host : 0..CockpitEpoch] /\ job'.stage = "over"
    BY <1>4, <1>t DEF C!DieJob
  <2>2. LastPart' /\ Based'
    BY <2>1 DEF LastPart, Based
  <2> QED
    BY <1>1, <1>4, <1>f, <1>t, <2>1, <2>2 DEF C!DieJob
<1>5. ASSUME UNCHANGED <<open, epoch, figures, C!inventoryVars, liveDue, inFlight, latest,
                         reported, selected, searching, away, keys>>,
             faults' \in 0..MaxFaults, requests' \in Nat, answers' \in Seq(Samples),
             sampler' \in {"idle", "busy", "dead"},
             \A i \in DOMAIN answers' : answers'[i].ok => answers'[i].at \in latest..epoch,
             C!OneSampleUnderway', Quiet'
      PROVE  CInv'
  <2>1. C!TypeOK'
    BY <1>5, <1>i DEF C!TypeOK, Samples
  <2>2. C!OneCollection' /\ C!CompleteStays' /\ LastPart' /\ Newer' /\ Based'
    BY <1>5, <1>i DEF C!OneCollection, C!CompleteStays, LastPart, Newer, Based
  <2> QED
    BY <1>5, <2>1, <2>2 DEF CInv
<1>6. CASE C!TakeRequest
  <2>1. requests' \in Nat
    BY <1>6, <1>t DEF C!TakeRequest
  <2>2. C!OneSampleUnderway' /\ Quiet'
    BY <1>6, <1>i, <1>t DEF C!TakeRequest, C!OneSampleUnderway, Quiet
  <2> QED
    BY <1>5, <1>6, <1>i, <1>t, <2>1, <2>2 DEF C!TakeRequest, Newer
<1>7. ASSUME NEW a1 \in Samples, a1.ok => a1.at \in latest..epoch, faults' \in 0..MaxFaults,
             sampler = "busy", sampler' = "idle", answers' = Append(answers, a1),
             UNCHANGED <<open, epoch, figures, C!inventoryVars, C!liveVars, requests, C!keyVars>>
      PROVE  CInv'
  <2>1. /\ answers' \in Seq(Samples) /\ Len(answers') = Len(answers) + 1
        /\ \A i \in DOMAIN answers' : answers'[i] = a1 \/ \E j \in DOMAIN answers : answers'[i] = answers[j]
    BY <1>7, <1>t, Grown
  <2>2. \A i \in DOMAIN answers' : answers'[i].ok => answers'[i].at \in latest..epoch
    BY <1>7, <1>i, <2>1 DEF Newer
  <2>3. C!OneSampleUnderway' /\ Quiet'
    BY <1>7, <1>i, <1>t, <2>1 DEF C!OneSampleUnderway, Quiet
  <2> QED
    BY <1>5, <1>7, <1>t, <2>1, <2>2, <2>3
<1>8. CASE C!SendSample
  <2>1. [ok |-> TRUE, at |-> epoch] \in Samples /\ epoch \in latest..epoch
    BY <1>i, <1>t DEF Samples, Newer
  <2> QED
    BY <1>7, <1>8, <1>t, <2>1 DEF C!SendSample
<1>9. CASE C!SendError
  <2>1. [ok |-> FALSE, at |-> 0] \in Samples
    BY DEF Samples
  <2> QED
    BY <1>7, <1>9, <1>f, <2>1 DEF C!SendError
<1>10. CASE C!DieSampler
  <2>1. C!OneSampleUnderway' /\ Quiet'
    BY <1>10, <1>i, <1>t DEF C!DieSampler, C!OneSampleUnderway, Quiet
  <2> QED
    BY <1>5, <1>10, <1>f, <1>i, <1>t, <2>1 DEF C!DieSampler, Newer
<1> QED
  BY <1>2, <1>3, <1>4, <1>6, <1>8, <1>9, <1>10 DEF C!Threads

LEMMA SamplesKeep ==
  ASSUME CInv, C!ShowSample \/ C!ReportError \/ C!SamplerGone \/ C!AskSample \/ C!BecomeLiveDue
  PROVE  CInv'
<1> USE Bounds DEF C!liveVars, C!samplerVars, C!keyVars
<1>i. /\ C!TypeOK /\ C!OneSampleUnderway /\ C!OneCollection /\ C!CompleteStays
      /\ LastPart /\ Newer /\ Quiet /\ Based
  BY DEF CInv
<1>t. /\ answers \in Seq(Samples) /\ Len(answers) \in Nat
      /\ epoch \in 1..CockpitEpoch /\ epoch \in Nat /\ latest \in 0..CockpitEpoch
      /\ requests \in Nat
      /\ figures \in [host : 0..CockpitEpoch, inv : 0..CockpitEpoch, full : BOOLEAN]
  BY <1>i, CTypes
<1>1. ASSUME UNCHANGED <<open, epoch, C!inventoryVars, C!keyVars, faults>>,
             figures' \in [host : 0..CockpitEpoch, inv : 0..CockpitEpoch, full : BOOLEAN],
             figures'.full = figures.full,
             latest' \in 0..CockpitEpoch, {inFlight', reported', liveDue'} \subseteq BOOLEAN,
             sampler' = sampler, requests' \in Nat, answers' \in Seq(Samples),
             C!OneSampleUnderway', Newer', Quiet'
      PROVE  CInv'
  <2>1. C!TypeOK'
    BY <1>1, <1>i DEF C!TypeOK, Samples, C!inventoryVars
  <2>2. C!OneCollection' /\ C!CompleteStays' /\ LastPart' /\ Based'
    BY <1>1, <1>i DEF C!OneCollection, C!CompleteStays, LastPart, Based, C!inventoryVars
  <2> QED
    BY <1>1, <2>1, <2>2 DEF CInv
<1>u. {inFlight, reported, liveDue} \subseteq BOOLEAN /\ TRUE \in BOOLEAN /\ FALSE \in BOOLEAN
  BY <1>i DEF C!TypeOK
<1>r. ASSUME C!Receive
      PROVE  /\ answers' \in Seq(Samples) /\ Head(answers) \in Samples
             /\ answers' = <<>> /\ requests = 0 /\ sampler # "busy"
             /\ Head(answers).ok => Head(answers).at \in latest..epoch
  <2>1. /\ Tail(answers) \in Seq(Samples) /\ Len(Tail(answers)) = Len(answers) - 1
        /\ Len(answers) > 0 /\ Head(answers) \in Samples
        /\ 1 \in DOMAIN answers /\ Head(answers) = answers[1]
    BY <1>r, <1>t, Shrunk DEF C!Receive
  <2>2. requests = 0 /\ sampler # "busy" /\ Len(answers) = 1
    BY <1>i, <1>t, <2>1 DEF C!OneSampleUnderway
  <2>3. answers' = Tail(answers) /\ Len(Tail(answers)) = 0
    BY <1>r, <2>1, <2>2 DEF C!Receive
  <2>4. answers' = <<>>
    BY <2>1, <2>3
  <2> QED
    BY <1>i, <2>1, <2>2, <2>3, <2>4 DEF Newer
<1>2. CASE C!ShowSample
  <2> DEFINE sample == Head(answers)
  <2>1. /\ sample \in Samples /\ answers' \in Seq(Samples) /\ answers' = <<>>
        /\ requests = 0 /\ sampler # "busy" /\ sample.at \in latest..epoch
        /\ figures' = [figures EXCEPT !.host = sample.at] /\ latest' = sample.at
        /\ reported' = FALSE /\ inFlight' = FALSE /\ liveDue' = FALSE
        /\ UNCHANGED <<open, epoch, C!inventoryVars, sampler, requests, C!keyVars, faults>>
    BY <1>2, <1>r DEF C!ShowSample
  <2> HIDE DEF sample
  <2>2. /\ sample.at \in 0..CockpitEpoch /\ sample.at <= epoch
    BY <1>t, <2>1 DEF Samples
  <2>3. /\ figures' \in [host : 0..CockpitEpoch, inv : 0..CockpitEpoch, full : BOOLEAN]
        /\ figures'.full = figures.full /\ figures'.host = sample.at
    BY <1>t, <2>1, <2>2
  <2>4. Len(answers') = 0 /\ DOMAIN answers' = {}
    BY <2>1
  <2>5. Newer'
    BY <2>1, <2>2, <2>3, <2>4 DEF Newer
  <2>6. C!OneSampleUnderway' /\ Quiet'
    BY <2>1, <2>4 DEF C!OneSampleUnderway, Quiet
  <2> QED
    BY <1>1, <1>t, <2>1, <2>2, <2>3, <2>5, <2>6
<1>3. CASE C!ReportError
  <2>1. /\ answers' \in Seq(Samples) /\ answers' = <<>> /\ requests = 0 /\ sampler # "busy"
        /\ reported' = TRUE /\ inFlight' = FALSE /\ liveDue' = FALSE
        /\ UNCHANGED <<open, epoch, figures, C!inventoryVars, latest, sampler, requests, C!keyVars, faults>>
    BY <1>3, <1>r DEF C!ReportError
  <2>2. Len(answers') = 0 /\ DOMAIN answers' = {}
    BY <2>1
  <2>3. Newer' /\ C!OneSampleUnderway' /\ Quiet'
    BY <1>i, <2>1, <2>2 DEF Newer, C!OneSampleUnderway, Quiet
  <2> QED
    BY <1>1, <1>t, <2>1, <2>3
<1>4. CASE C!SamplerGone
  <2>1. /\ answers = <<>> /\ sampler = "dead" /\ inFlight' = FALSE
        /\ UNCHANGED <<open, epoch, figures, C!inventoryVars, latest, reported, liveDue, sampler,
                       requests, answers, C!keyVars, faults>>
    BY <1>4 DEF C!SamplerGone
  <2>2. Len(answers) = 0 /\ requests = 0
    BY <1>i, <2>1 DEF Quiet
  <2>3. Newer' /\ C!OneSampleUnderway' /\ Quiet'
    BY <1>i, <2>1, <2>2 DEF Newer, C!OneSampleUnderway, Quiet
  <2> QED
    BY <1>1, <1>t, <1>u, <2>1, <2>3
<1>5. CASE C!AskSample
  <2>1. /\ ~inFlight /\ sampler # "dead" /\ requests' = requests + 1 /\ inFlight' = TRUE
        /\ UNCHANGED <<open, epoch, figures, C!inventoryVars, latest, reported, liveDue, sampler,
                       answers, C!keyVars, faults>>
    BY <1>5 DEF C!AskSample
  <2>2. requests = 0 /\ Len(answers) = 0 /\ sampler # "busy"
    BY <1>i, <1>t, <2>1 DEF C!OneSampleUnderway
  <2>3. C!OneSampleUnderway' /\ Quiet' /\ requests' \in Nat
    BY <2>1, <2>2 DEF C!OneSampleUnderway, Quiet
  <2>4. Newer'
    BY <1>i, <2>1 DEF Newer
  <2> QED
    BY <1>1, <1>t, <1>u, <2>1, <2>3, <2>4
<1>6. CASE C!BecomeLiveDue
  <2>1. /\ liveDue' = TRUE
        /\ UNCHANGED <<open, epoch, figures, C!inventoryVars, inFlight, latest, reported, sampler,
                       requests, answers, C!keyVars, faults>>
    BY <1>6 DEF C!BecomeLiveDue
  <2>2. Newer' /\ C!OneSampleUnderway' /\ Quiet'
    BY <1>i, <2>1 DEF Newer, C!OneSampleUnderway, Quiet
  <2> QED
    BY <1>1, <1>t, <1>u, <2>1, <2>2
<1> QED
  BY <1>2, <1>3, <1>4, <1>5, <1>6

\* What neither the sampler nor the host is touched by: the inventory and its thread.
LEMMA InventoryShape ==
  ASSUME CInv,
         UNCHANGED <<epoch, C!liveVars, C!samplerVars>>,
         open' \in BOOLEAN, selected' \in 0..(Cards - 1), {searching', away'} \subseteq BOOLEAN,
         keys' \in 0..CockpitKeys, faults' \in 0..MaxFaults,
         figures' \in [host : 0..CockpitEpoch, inv : 0..CockpitEpoch, full : BOOLEAN],
         latest # 0 => figures'.host \in {0, latest},
         {loading', ready', due'} \subseteq BOOLEAN,
         job' \in [stage : {"base", "full", "over"}, host : 0..CockpitEpoch],
         channel' \in Seq(Parts),
         C!OneCollection', C!CompleteStays', LastPart', Based'
  PROVE  CInv'
<1>i. C!TypeOK /\ C!OneSampleUnderway /\ Newer /\ Quiet
  BY DEF CInv
<1>1. C!TypeOK'
  BY <1>i DEF C!TypeOK, Parts, C!liveVars, C!samplerVars
<1>2. C!OneSampleUnderway' /\ Newer' /\ Quiet'
  BY <1>i DEF C!OneSampleUnderway, Newer, Quiet, C!liveVars, C!samplerVars
<1> QED
  BY <1>1, <1>2 DEF CInv

LEMMA InventoryKeeps ==
  ASSUME CInv,
         C!StartInventory \/ C!SkipBase \/ C!ShowInventory \/ C!NoticeDeath \/ C!BecomeDue
  PROVE  CInv'
<1> USE Bounds DEF C!keyVars
<1>i. /\ C!TypeOK /\ C!OneCollection /\ C!CompleteStays /\ LastPart /\ Newer /\ Based
  BY DEF CInv
<1>t. /\ channel \in Seq(Parts)
      /\ epoch \in 1..CockpitEpoch /\ latest \in 0..CockpitEpoch
      /\ figures \in [host : 0..CockpitEpoch, inv : 0..CockpitEpoch, full : BOOLEAN]
      /\ job \in [stage : {"base", "full", "over"}, host : 0..CockpitEpoch]
  BY <1>i, CTypes
<1>b. /\ {loading, ready, due} \subseteq BOOLEAN /\ TRUE \in BOOLEAN /\ FALSE \in BOOLEAN
      /\ open \in BOOLEAN /\ selected \in 0..(Cards - 1) /\ {searching, away} \subseteq BOOLEAN
      /\ keys \in 0..CockpitKeys /\ faults \in 0..MaxFaults
  BY <1>i DEF C!TypeOK
<1>1. ASSUME UNCHANGED <<open, epoch, C!liveVars, C!samplerVars, C!keyVars, faults>>,
             figures' \in [host : 0..CockpitEpoch, inv : 0..CockpitEpoch, full : BOOLEAN],
             latest # 0 => figures'.host \in {0, latest},
             loading' \in BOOLEAN, ready' \in BOOLEAN, due' \in BOOLEAN,
             job' \in [stage : {"base", "full", "over"}, host : 0..CockpitEpoch],
             channel' \in Seq(Parts),
             C!OneCollection', C!CompleteStays', LastPart', Based'
      PROVE  CInv'
  BY <1>1, <1>b, InventoryShape
<1>n. latest # 0 => figures.host \in {0, latest}
  BY <1>i DEF Newer
<1>h. ASSUME channel # <<>>, channel' = Tail(channel)
      PROVE  /\ channel' \in Seq(Parts) /\ Head(channel) \in Parts
             /\ 1 \in DOMAIN channel /\ Head(channel) = channel[1]
             /\ \A i \in DOMAIN channel' : \E j \in DOMAIN channel : channel'[i] = channel[j]
  BY <1>h, <1>t, Shrunk
<1>2. CASE C!StartInventory
  <2>1. /\ job' = C!Started /\ channel' = <<>> /\ loading' = TRUE
        /\ UNCHANGED <<open, epoch, figures, ready, due, C!liveVars, C!samplerVars, C!keyVars, faults>>
    BY <1>2 DEF C!StartInventory
  <2>2. channel' \in Seq(Parts) /\ DOMAIN channel' = {}
    BY <2>1
  <2>3. job' \in [stage : {"base", "full", "over"}, host : 0..CockpitEpoch] /\ Based'
    BY <2>1 DEF C!Started, Based
  <2>4. C!OneCollection' /\ C!CompleteStays' /\ LastPart'
    BY <1>i, <2>1, <2>2 DEF C!OneCollection, C!CompleteStays, LastPart
  <2> QED
    BY <1>1, <1>b, <1>n, <1>t, <2>1, <2>2, <2>3, <2>4
<1>3. CASE C!SkipBase
  <2>1. /\ channel # <<>> /\ channel' = Tail(channel)
        /\ UNCHANGED <<open, epoch, figures, loading, ready, job, due, C!liveVars, C!samplerVars,
                       C!keyVars, faults>>
    BY <1>3 DEF C!SkipBase
  <2>2. LastPart'
    BY <1>h, <1>i, <2>1 DEF LastPart
  <2>3. C!OneCollection' /\ C!CompleteStays' /\ Based'
    BY <1>i, <2>1 DEF C!OneCollection, C!CompleteStays, Based
  <2> QED
    BY <1>1, <1>b, <1>h, <1>n, <1>t, <2>1, <2>2, <2>3
<1>4. CASE C!ShowInventory
  <2> DEFINE u == Head(channel)
  <2>1. /\ channel # <<>> /\ channel' = Tail(channel) /\ (u.full \/ ~ready)
        /\ figures' = [u EXCEPT !.host = C!Overlay(u)]
        /\ loading' = ~u.full /\ ready' = (ready \/ u.full) /\ due' = (due /\ ~u.full)
        /\ UNCHANGED <<open, epoch, job, C!liveVars, C!samplerVars, C!keyVars, faults>>
    BY <1>4 DEF C!ShowInventory, C!Skips
  <2>2. u \in Parts /\ (u.full => job.stage = "over")
    BY <1>h, <1>i, <2>1 DEF LastPart
  <2>3. LastPart' /\ Based' /\ channel' \in Seq(Parts)
    BY <1>h, <1>i, <2>1 DEF LastPart, Based
  <2>4. C!Overlay(u) \in 0..CockpitEpoch /\ (latest # 0 => C!Overlay(u) = latest)
    BY <1>t, <2>2 DEF C!Overlay, Parts
  <2> HIDE DEF u
  <2>5. /\ figures' \in [host : 0..CockpitEpoch, inv : 0..CockpitEpoch, full : BOOLEAN]
        /\ figures'.host = C!Overlay(u) /\ figures'.full = u.full /\ u.full \in BOOLEAN
    BY <2>1, <2>2, <2>4 DEF Parts
  <2>6. loading' \in BOOLEAN /\ ready' \in BOOLEAN /\ due' \in BOOLEAN
    BY <1>b, <2>1, <2>5
  <2>7. C!OneCollection' /\ C!CompleteStays'
    BY <1>i, <2>1, <2>2, <2>5 DEF C!OneCollection, C!CompleteStays
  <2> QED
    BY <1>1, <1>t, <2>1, <2>3, <2>4, <2>5, <2>6, <2>7
<1>5. CASE C!NoticeDeath
  <2>1. /\ job.stage = "over" /\ loading' = FALSE /\ due' = FALSE
        /\ UNCHANGED <<open, epoch, figures, ready, job, channel, C!liveVars, C!samplerVars,
                       C!keyVars, faults>>
    BY <1>5 DEF C!NoticeDeath
  <2>2. C!OneCollection' /\ C!CompleteStays' /\ LastPart' /\ Based'
    BY <1>i, <2>1 DEF C!OneCollection, C!CompleteStays, LastPart, Based
  <2> QED
    BY <1>1, <1>b, <1>n, <1>t, <2>1, <2>2
<1>6. CASE C!BecomeDue
  <2>1. /\ due' = TRUE
        /\ UNCHANGED <<open, epoch, figures, loading, ready, job, channel, C!liveVars,
                       C!samplerVars, C!keyVars, faults>>
    BY <1>6 DEF C!BecomeDue
  <2>2. C!OneCollection' /\ C!CompleteStays' /\ LastPart' /\ Based'
    BY <1>i, <2>1 DEF C!OneCollection, C!CompleteStays, LastPart, Based
  <2> QED
    BY <1>1, <1>b, <1>n, <1>t, <2>1, <2>2
<1> QED
  BY <1>2, <1>3, <1>4, <1>5, <1>6

LEMMA CKeysKeep ==
  ASSUME CInv, C!Keys \/ C!ChangeHost \/ UNCHANGED C!vars
  PROVE  CInv'
<1> USE Bounds
<1>i. /\ C!TypeOK /\ C!OneSampleUnderway /\ C!OneCollection /\ C!CompleteStays
      /\ LastPart /\ Newer /\ Quiet /\ Based
  BY DEF CInv
<1>t. /\ channel \in Seq(Parts)
      /\ epoch \in 1..CockpitEpoch /\ latest \in 0..CockpitEpoch
      /\ figures \in [host : 0..CockpitEpoch, inv : 0..CockpitEpoch, full : BOOLEAN]
      /\ job \in [stage : {"base", "full", "over"}, host : 0..CockpitEpoch]
      /\ keys \in 0..CockpitKeys /\ faults \in 0..MaxFaults /\ selected \in 0..(Cards - 1)
  BY <1>i, CTypes
<1>b. /\ {loading, ready, due} \subseteq BOOLEAN /\ TRUE \in BOOLEAN /\ FALSE \in BOOLEAN
      /\ {open, searching, away} \subseteq BOOLEAN
  BY <1>i DEF C!TypeOK
<1>k. ASSUME C!Press PROVE keys' \in 0..CockpitKeys
  BY <1>k, <1>t DEF C!Press
<1>1. ASSUME UNCHANGED <<epoch, figures, C!inventoryVars, C!liveVars, C!samplerVars>>,
             open' \in BOOLEAN, selected' \in 0..(Cards - 1),
             searching' \in BOOLEAN, away' \in BOOLEAN,
             keys' \in 0..CockpitKeys, faults' \in 0..MaxFaults
      PROVE  CInv'
  <2>1. /\ C!OneCollection' /\ C!CompleteStays' /\ LastPart' /\ Based'
    BY <1>1, <1>i DEF C!inventoryVars, C!OneCollection, C!CompleteStays, LastPart, Based
  <2>2. latest # 0 => figures'.host \in {0, latest}
    BY <1>1, <1>i DEF Newer
  <2> QED
    BY <1>1, <1>t, <1>b, <2>1, <2>2, InventoryShape DEF C!inventoryVars
<1>2. CASE C!Launch
  <2>1. open' \in BOOLEAN /\ away' \in BOOLEAN /\ searching' = FALSE
    BY <1>2, <1>b DEF C!Launch
  <2>2. faults' \in 0..MaxFaults
    BY <1>2, <1>t DEF C!Launch
  <2> QED
    BY <1>1, <1>2, <1>b, <1>k, <1>t, <2>1, <2>2 DEF C!Launch
<1>3. CASE C!Return
  BY <1>1, <1>3, <1>b, <1>t DEF C!Return
<1>4. CASE C!Search
  BY <1>1, <1>4, <1>b, <1>k, <1>t DEF C!Search
<1>5. CASE C!Move
  BY <1>1, <1>5, <1>b, <1>k, <1>t DEF C!Move
<1>6. CASE C!Leave
  BY <1>1, <1>6, <1>b, <1>k, <1>t DEF C!Leave
<1>7. CASE C!Refresh
  <2>1. /\ figures' = C!Blank /\ job' = C!Started /\ channel' = <<>>
        /\ ready' = FALSE /\ loading' = TRUE
        /\ UNCHANGED <<open, epoch, due, C!liveVars, C!samplerVars, selected, searching, away, faults>>
        /\ C!Press
    BY <1>7 DEF C!Refresh
  <2>2. channel' \in Seq(Parts) /\ DOMAIN channel' = {}
    BY <2>1
  <2>3. /\ job' \in [stage : {"base", "full", "over"}, host : 0..CockpitEpoch] /\ Based'
        /\ figures' \in [host : 0..CockpitEpoch, inv : 0..CockpitEpoch, full : BOOLEAN]
        /\ figures'.host = 0
    BY <2>1 DEF C!Started, C!Blank, Based
  <2>4. C!OneCollection' /\ C!CompleteStays' /\ LastPart'
    BY <2>1, <2>2 DEF C!OneCollection, C!CompleteStays, LastPart
  <2> QED
    BY <1>b, <1>k, <1>t, <2>1, <2>2, <2>3, <2>4, InventoryShape
<1>8. CASE C!ChangeHost
  <2>1. /\ epoch < CockpitEpoch /\ epoch' = epoch + 1
        /\ UNCHANGED <<open, figures, C!inventoryVars, C!liveVars, C!samplerVars, C!keyVars, faults>>
    BY <1>8 DEF C!ChangeHost
  <2>2. epoch' \in 1..CockpitEpoch /\ epoch <= epoch' /\ epoch \in Nat /\ epoch' \in Nat
    BY <1>t, <2>1
  <2>3. C!TypeOK'
    BY <1>i, <2>1, <2>2 DEF C!TypeOK, C!inventoryVars, C!liveVars, C!samplerVars, C!keyVars
  <2>4. Newer'
    <3>1. \A i \in DOMAIN answers : answers[i].ok => answers[i].at \in latest..epoch'
      BY <1>i, <1>t, <2>2 DEF Newer
    <3> QED
      BY <1>i, <1>t, <2>1, <2>2, <3>1 DEF Newer, C!liveVars, C!samplerVars
  <2>5. /\ C!OneSampleUnderway' /\ C!OneCollection' /\ C!CompleteStays' /\ LastPart' /\ Quiet' /\ Based'
    BY <1>i, <2>1 DEF C!OneSampleUnderway, C!OneCollection, C!CompleteStays, LastPart, Quiet, Based,
                      C!inventoryVars, C!liveVars, C!samplerVars
  <2> QED
    BY <2>3, <2>4, <2>5 DEF CInv
<1>9. CASE UNCHANGED C!vars
  BY <1>1, <1>9, <1>b, <1>t DEF C!vars, C!keyVars
<1> QED
  BY <1>2, <1>3, <1>4, <1>5, <1>6, <1>7, <1>8, <1>9 DEF C!Keys

LEMMA CInit ==
  ASSUME C!Init
  PROVE  CInv
<1> USE Bounds
<1>1. /\ channel = <<>> /\ answers = <<>> /\ Len(answers) = 0 /\ <<>> \in Seq(Parts) /\ <<>> \in Seq(Samples)
      /\ DOMAIN channel = {} /\ DOMAIN answers = {}
  BY DEF C!Init
<1>2. C!TypeOK
  <2>1. /\ figures \in [host : 0..CockpitEpoch, inv : 0..CockpitEpoch, full : BOOLEAN]
        /\ job \in [stage : {"base", "full", "over"}, host : 0..CockpitEpoch]
    BY DEF C!Init, C!Blank, C!Started
  <2>2. /\ epoch \in 1..CockpitEpoch /\ latest \in 0..CockpitEpoch /\ selected \in 0..(Cards - 1)
        /\ keys \in 0..CockpitKeys /\ faults \in 0..MaxFaults
    BY DEF C!Init
  <2> QED
    BY <1>1, <2>1, <2>2 DEF C!Init, C!TypeOK, Parts, Samples
<1>3. C!OneSampleUnderway /\ C!OneCollection /\ C!CompleteStays
  BY <1>1 DEF C!Init, C!OneSampleUnderway, C!OneCollection, C!CompleteStays
<1>4. LastPart /\ Newer /\ Quiet /\ Based
  BY <1>1 DEF C!Init, LastPart, Newer, Quiet, Based, C!Started, C!Blank
<1> QED
  BY <1>2, <1>3, <1>4 DEF CInv

LEMMA CNext ==
  ASSUME CInv, [C!Next]_(C!vars)
  PROVE  CInv'
BY CThreadsKeep, SamplesKeep, InventoryKeeps, CKeysKeep DEF C!Next, C!Polls

\* A sample that is shown is not older than the one shown before it.
LEMMA LatestGrows ==
  ASSUME CInv, [C!Next]_(C!vars)
  PROVE  latest' >= latest
<1>1. latest \in Nat /\ epoch \in Nat
  BY CTypes, Bounds DEF CInv
<1>2. CASE latest' = latest
  BY <1>1, <1>2
<1>3. CASE C!ShowSample
  <2>1. answers \in Seq(Samples) /\ answers # <<>> /\ latest' = Head(answers).at /\ Head(answers).ok
    BY <1>3, CTypes DEF CInv, C!ShowSample, C!Receive
  <2>2. 1 \in DOMAIN answers /\ Head(answers) = answers[1]
    BY <2>1, Shrunk
  <2>3. Head(answers).at \in latest..epoch
    BY <2>1, <2>2 DEF CInv, Newer
  <2> QED
    BY <1>1, <2>1, <2>3
<1>4. CASE C!Threads
  <2>1. latest' = latest
    BY <1>4 DEF C!Threads, C!SendBase, C!SendFull, C!DieJob, C!TakeRequest, C!SendSample,
                C!SendError, C!DieSampler, C!liveVars
  <2> QED
    BY <1>2, <2>1
<1>5. CASE C!ReportError \/ C!SamplerGone \/ C!AskSample \/ C!BecomeLiveDue
  <2>1. latest' = latest
    BY <1>5 DEF C!ReportError, C!SamplerGone, C!AskSample, C!BecomeLiveDue
  <2> QED
    BY <1>2, <2>1
<1>6. CASE C!StartInventory \/ C!SkipBase \/ C!ShowInventory \/ C!NoticeDeath \/ C!BecomeDue
  <2>1. latest' = latest
    BY <1>6 DEF C!StartInventory, C!SkipBase, C!ShowInventory, C!NoticeDeath, C!BecomeDue, C!liveVars
  <2> QED
    BY <1>2, <2>1
<1>7. CASE C!Keys
  <2>1. latest' = latest
    BY <1>7 DEF C!Keys, C!Launch, C!Return, C!Search, C!Move, C!Leave, C!Refresh, C!liveVars
  <2> QED
    BY <1>2, <2>1
<1>8. CASE C!ChangeHost \/ UNCHANGED C!vars
  <2>1. latest' = latest
    BY <1>8 DEF C!ChangeHost, C!vars, C!liveVars
  <2> QED
    BY <1>2, <2>1
<1> QED
  BY <1>3, <1>4, <1>5, <1>6, <1>7, <1>8 DEF C!Next, C!Polls

-----------------------------------------------------------------------------
(* Both loops *)

\* What a behaviour of either loop keeps; the other loop's variables keep their first value.
Both ==
  /\ loop \in {"specialist", "cockpit"}
  /\ loop = "specialist" => SInv /\ latest = 0
  /\ loop = "cockpit" => CInv /\ ~inspecting /\ ~paused

LEMMA BothInit == LoopsInit => Both
BY SInit, CInit DEF LoopsInit, Both, CockpitUnused, SpecialistUnused

LEMMA SharedStutter ==
  ASSUME UNCHANGED allvars
  PROVE  UNCHANGED vars /\ UNCHANGED C!vars /\ UNCHANGED <<loop, latest, inspecting, paused>>
BY DEF allvars, vars, hostVars, screenVars, jobVars, flagVars, dialogVars, cockpitOnly,
       C!vars, C!inventoryVars, C!liveVars, C!samplerVars, C!keyVars

LEMMA BothNext == Both /\ [LoopsNext]_allvars => Both'
<1> SUFFICES ASSUME Both, [LoopsNext]_allvars
             PROVE  Both'
  OBVIOUS
<1>1. CASE UNCHANGED allvars
  BY <1>1, SharedStutter, SNext, CNext DEF Both
<1>2. CASE Specialist(Next)
  BY <1>2, SNext DEF Both, Specialist, cockpitOnly
<1>3. CASE Cockpit(C!Next)
  BY <1>3, CNext DEF Both, Cockpit, specialistOnly
<1> QED
  BY <1>1, <1>2, <1>3 DEF LoopsNext

LEMMA LoopsInvariant == LoopsSpec => []Both
BY BothInit, BothNext, PTL DEF LoopsSpec

\* AnswersAwaited: a specialist that waits for nothing has no thread at work, and what a
\* collection put on its screen is the answer to the question it last asked, however late
\* others come in (what f and v put there need not be: SpecialistLoop's ModesShowIt).
THEOREM AwaitsTheAnswer == LoopsSpec => []AnswersAwaited
<1>1. Both => AnswersAwaited
  BY DEF Both, SInv, AnswersAwaited
<1> QED
  BY <1>1, LoopsInvariant, PTL

\* The cursor is on a row, and what a dialog executes is the row it was opened on, however
\* many collections, keys and lost threads come in between.
THEOREM ActsOnItsRow == LoopsSpec => []ActsOnTheRow
<1>1. Both => ActsOnTheRow
  BY DEF Both, SInv, ActsOnTheRow
<1> QED
  BY <1>1, LoopsInvariant, PTL

\* The cockpit has at most one sample and one collection under way, for any number of changes,
\* keys and faults, and goes on showing a complete inventory once it has one.
THEOREM CockpitStaysInOrder == LoopsSpec => []CockpitHolds
<1>1. Both => CockpitHolds
  BY DEF Both, CInv, CockpitHolds
<1> QED
  BY <1>1, LoopsInvariant, PTL

\* The host figures of the cockpit never go back in time, in whatever order samples and
\* inventories arrive.
THEOREM FiguresGoForward == LoopsSpec => HostNeverGoesBack
<1> DEFINE Forward == (latest # 0 /\ figures.host # 0 /\ figures'.host # 0) => figures'.host >= figures.host
<1>1. ASSUME Both, [LoopsNext]_allvars
      PROVE  [Forward]_(C!vars)
  <2>1. CASE UNCHANGED allvars
    BY <2>1, SharedStutter
  <2>2. CASE Specialist(Next)
    BY <1>1, <2>2 DEF Both, Specialist
  <2>3. CASE Cockpit(C!Next)
    <3>1. CInv /\ CInv' /\ latest' >= latest
      BY <1>1, <2>3, CNext, LatestGrows DEF Both, Cockpit
    <3>2. latest \in Nat /\ latest' \in Nat
      BY <3>1, CTypes, Bounds DEF CInv, C!TypeOK
    <3>3. /\ latest # 0 => figures.host \in {0, latest}
          /\ latest' # 0 => figures'.host \in {0, latest'}
      BY <3>1 DEF CInv, Newer
    <3> QED
      BY <3>1, <3>2, <3>3
  <2> QED
    BY <1>1, <2>1, <2>2, <2>3 DEF LoopsNext
<1>2. Both /\ [LoopsNext]_allvars => [Forward]_(C!vars)
  BY <1>1
<1> QED
  BY <1>2, LoopsInvariant, PTL DEF LoopsSpec, HostNeverGoesBack, C!HostNeverGoesBack

\* An open detail stays on its row, for one step ...
Detail ==
  (inspecting /\ inspecting' /\ view # "system"
     /\ Positions(shown'.rows, Under(shown.rows, selected)) # {})
   => Under(shown'.rows, selected') = Under(shown.rows, selected)

\* ... and a paused view keeps its rows.
StaysPaused == (paused /\ paused' /\ keys' = keys) => shown'.rows = shown.rows

LEMMA ShowHolds ==
  ASSUME SInv, ShowUpdate
  PROVE  Detail /\ StaysPaused
<1> DEFINE u == Head(channel)
           rows == Moded(u.rows, mode)
<1>1. /\ ~Skips(u) /\ ~Drops(u) /\ shown' = [Unmoded(u) EXCEPT !.rows = rows]
      /\ selected' = IF view = "logs" /\ follow THEN Last(Len(rows))
                     ELSE Preserve(view, shown.rows, rows, selected)
      /\ channel # <<>>
  BY DEF ShowUpdate, Receive
<1>2. u \in Updates
  <2>1. channel \in Seq(Updates)
    BY DEF SInv, TypeOK, Updates
  <2> QED
    BY <1>1, <2>1
<1>3. rows \in Seq(Rows) /\ shown.rows \in Seq(Rows) /\ selected \in Nat
  BY <1>2, RowsType DEF SInv, TypeOK, Snapshots, Updates
<1>4. shown'.rows = rows
  BY <1>1 DEF Unmoded
<1>5. StaysPaused
  BY <1>1 DEF Drops, SInv, Follows, StaysPaused
<1>6. ASSUME inspecting, view # "system", Positions(shown'.rows, Under(shown.rows, selected)) # {}
      PROVE  Under(shown'.rows, selected') = Under(shown.rows, selected)
  <2>1. ~follow
    BY <1>6 DEF SInv, Follows
  <2>2. selected' = Preserve(view, shown.rows, rows, selected)
    BY <1>1, <2>1
  <2> HIDE DEF rows
  <2> QED
    BY <1>3, <1>4, <1>6, <2>2, PreserveKeeps
<1> QED
  BY <1>5, <1>6 DEF Detail

LEMMA RowsStep ==
  ASSUME SInv, [Next]_vars
  PROVE  Detail /\ StaysPaused
<1>1. ASSUME shown' = shown, selected' = selected \/ ~inspecting
      PROVE  Detail /\ StaysPaused
  BY <1>1 DEF Detail, StaysPaused
<1>2. CASE UNCHANGED vars
  BY <1>1, <1>2 DEF vars, screenVars
<1>3. CASE Threads \/ ChangeHost
  BY <1>1, <1>3 DEF Threads, SendFirst, SendLast, SendWarning, DieJob, EndStray, ChangeHost, screenVars
<1>4. CASE Polls
  <2>1. CASE ShowUpdate
    BY <2>1, ShowHolds
  <2>2. CASE ~ShowUpdate
    BY <1>1, <1>4, <2>2 DEF Polls, BecomeDue, StartContainerPoll, StartInventory, SkipFirstPart,
                            DropWhilePaused, KeepStale, NoticeDeath, FinishAction, screenVars
  <2> QED
    BY <2>1, <2>2
<1>5. CASE Keys
  <2>1. keys' # keys
    <3>1. keys \in Nat
      BY SpecialistAssumption DEF SInv, TypeOK
    <3>2. keys' = keys + 1
      BY <1>5 DEF Keys, DialogKey, CloseResult, SearchKey, Leave, MoveCursor, Inspect, Pause,
                  ToggleMode, OpenSearch, OfferAction, AskRefresh, PressView, Press
    <3> QED
      BY <3>1, <3>2
  <2>2. StaysPaused
    BY <2>1 DEF StaysPaused
  <2>3. ASSUME NEW r PROVE Positions(Empty.rows, r) = {}
    BY DEF Positions, Empty, Last
  <2>4. CASE CloseResult \/ SearchKey
    <3>1. shown' = Empty \/ (shown' = shown /\ selected' = selected)
      BY <2>4 DEF CloseResult, SearchKey, Refresh
    <3> QED
      BY <2>2, <2>3, <3>1 DEF Detail
  <2>5. CASE Inspect \/ AskRefresh
    <3>1. ~inspecting \/ ~inspecting'
      BY <2>5 DEF Inspect, AskRefresh
    <3> QED
      BY <2>2, <3>1 DEF Detail
  <2>6. CASE DialogKey \/ Leave \/ MoveCursor \/ Pause \/ OpenSearch \/ OfferAction
    BY <1>1, <2>6 DEF DialogKey, Leave, MoveCursor, Pause, OpenSearch, OfferAction, screenVars
  <2>7. CASE ToggleMode
    BY <2>2, <2>7 DEF ToggleMode, Detail
  <2> QED
    BY <1>5, <2>4, <2>5, <2>6, <2>7 DEF Keys
<1> QED
  BY <1>2, <1>3, <1>4, <1>5 DEF Next

\* Neither a collection nor a lost thread moves an open detail to another row that is still
\* there, or changes what a paused log shows, for any rows and any order of arrivals.
THEOREM RowsStay == LoopsSpec => RowsHold
<1>1. ASSUME Both, [LoopsNext]_allvars
      PROVE  [Detail]_vars /\ [StaysPaused]_vars
  <2>1. CASE UNCHANGED allvars
    BY <2>1, SharedStutter
  <2>2. CASE Specialist(Next)
    BY <1>1, <2>2, RowsStep DEF Both, Specialist
  <2>3. CASE Cockpit(C!Next)
    <3>1. ~inspecting /\ ~paused
      BY <1>1, <2>3 DEF Both, Cockpit
    <3> QED
      BY <3>1 DEF Detail, StaysPaused
  <2> QED
    BY <1>1, <2>1, <2>2, <2>3 DEF LoopsNext
<1>2. Both /\ [LoopsNext]_allvars => [Detail]_vars
  BY <1>1
<1>3. Both /\ [LoopsNext]_allvars => [StaysPaused]_vars
  BY <1>1
<1> QED
  BY <1>2, <1>3, LoopsInvariant, PTL DEF LoopsSpec, RowsHold, DetailHolds, PausedHolds, Detail, StaysPaused
=============================================================================
