---------------------------- MODULE ActingProofs ----------------------------
(***************************************************************************)
(* The diagnostic shell for every limit, and one collection for every      *)
(* order of any domains with any number of commands each; one inventory of *)
(* the containers, for every order of runtimes, however often daemons      *)
(* stop, hang and come back and containers come and go meanwhile; what is  *)
(* concluded from one snapshot, for all hosts and all outages.             *)
(*                                                                         *)
(* The shell has at most one command whose result is still to come, and it *)
(* is the last one of the output (Waiting); what exceeds the limit is its  *)
(* echo and what lost threads have left (Lengths).  A collection: while a  *)
(* domain's thread has not panicked, its commands were read, are still to  *)
(* run or have left a warning (Accounted), and what was joined no longer   *)
(* runs (Joined).                                                          *)
(*                                                                         *)
(* Of a runtime that nothing happened to, what a step found is still what  *)
(* the runtime has (Current), so that what is said of it at the end is     *)
(* what was found (Settled).  A machine's identity, read before and after  *)
(* it was measured, can only have changed in between if the name was given *)
(* away and came back (Named).                                             *)
(*                                                                         *)
(* What is shown of a snapshot is what the rules find in it (Diagnosed),   *)
(* rule by rule no more than they find in the host (Known, TakesAway).     *)
(***************************************************************************)
EXTENDS MCActing, TLAPS, SequenceTheorems, FiniteSetTheorems

-----------------------------------------------------------------------------
(* The shell *)

Adjacent(a, b) == (a.cmd < b.cmd /\ b.echo) \/ (a.cmd = b.cmd /\ ~b.echo)
InOrder(o) == \A i \in 1..Len(o) - 1 : Adjacent(o[i], o[i + 1])

Lines == [cmd : Nat, echo : BOOLEAN]
Results == [cmd : Nat, lines : Nat]

ShellTypes ==
  /\ output \in Seq(Lines) /\ running \in BOOLEAN
  /\ threads \subseteq Nat /\ channel \in Seq(Results) /\ issued \in Nat /\ deaths \in Nat

\* Of a command that runs the result is still to come, or waits, or its thread was lost.
Coming == threads = {issued} /\ channel = <<>>
Waits == threads = {} /\ Len(channel) = 1 /\ channel[1].cmd = issued
Nothing == threads = {} /\ channel = <<>>

Waiting ==
  /\ \A i \in DOMAIN output : output[i].cmd <= issued
  /\ IF running THEN /\ output # <<>> /\ output[Len(output)].cmd = issued
                     /\ Coming \/ Waits \/ Nothing
                ELSE Nothing

Lengths ==
  Len(output) <= Cap + 2 * deaths + (IF running THEN IF Nothing THEN -1 ELSE 1 ELSE 0)

ShellInv == ShellTypes /\ InOrder(output) /\ Waiting /\ Lengths

LEMMA ShellHolds == ASSUME ShellInv PROVE S!ResultsInOrder /\ S!OutputBounded
<1>1. S!ResultsInOrder
  BY DEF ShellInv, S!ResultsInOrder, InOrder, Adjacent, Waiting, Nothing
<1>2. Cap \in Nat /\ Len(output) \in Nat /\ deaths \in Nat
  BY ActingAssumption DEF S!ShellAssumption, ShellInv, ShellTypes
<1>3. Len(output) <= Cap + 2 * deaths + 1
  BY <1>2 DEF ShellInv, Lengths
<1> QED BY <1>1, <1>2, <1>3 DEF S!OutputBounded

LEMMA ShellInit == S!Init => ShellInv
<1> SUFFICES ASSUME S!Init PROVE ShellInv OBVIOUS
<1>1. /\ output = <<>> /\ running = FALSE /\ threads = {} /\ channel = <<>> /\ issued = 0 /\ deaths = 0
  BY DEF S!Init
<1>2. Cap \in Nat /\ Len(output) = 0 /\ DOMAIN output = {}
  BY <1>1, ActingAssumption DEF S!ShellAssumption
<1>3. ShellTypes
  BY ONLY <1>1, EmptySeq DEF ShellTypes
<1>5. InOrder(output)
  BY <1>2 DEF InOrder
<1>6. Waiting
  BY <1>1, <1>2 DEF Waiting, Nothing
<1>4. Lengths
  BY <1>1, <1>2 DEF Lengths
<1> QED BY <1>3, <1>4, <1>5, <1>6 DEF ShellInv

\* A line at the end.
LEMMA AppendInOrder ==
  ASSUME NEW o \in Seq(Lines), InOrder(o), NEW l \in Lines, o # <<>> => Adjacent(o[Len(o)], l)
  PROVE  /\ Append(o, l) \in Seq(Lines) /\ InOrder(Append(o, l))
         /\ Append(o, l) # <<>> /\ Len(Append(o, l)) = Len(o) + 1
         /\ Append(o, l)[Len(Append(o, l))] = l
         /\ \A i \in DOMAIN Append(o, l) : Append(o, l)[i] = l \/ \E j \in DOMAIN o : Append(o, l)[i] = o[j]
<1> DEFINE p == Append(o, l)
<1>1. /\ p \in Seq(Lines) /\ Len(p) = Len(o) + 1 /\ Len(o) \in Nat /\ p[Len(o) + 1] = l
      /\ DOMAIN p = 1..Len(o) + 1 /\ DOMAIN o = 1..Len(o)
      /\ \A i \in 1..Len(o) : p[i] = o[i]
  OBVIOUS
<1> HIDE DEF p
<1>2. ASSUME NEW i \in 1..Len(p) - 1 PROVE Adjacent(p[i], p[i + 1])
  <2>1. i \in 1..Len(o) /\ p[i] = o[i]
    BY <1>1
  <2>2. CASE i = Len(o)
    <3>1. o # <<>> /\ p[i + 1] = l
      BY <1>1, <2>1, <2>2
    <3> QED BY <2>1, <2>2, <3>1
  <2>3. CASE i # Len(o)
    <3>1. i \in 1..Len(o) - 1 /\ i + 1 \in 1..Len(o)
      <4>1. Len(o) \in Nat /\ i \in 1..Len(o) /\ i # Len(o)
        BY <1>1, <2>1, <2>3
      <4> QED BY ONLY <4>1
    <3>2. p[i + 1] = o[i + 1]
      BY <1>1, <3>1
    <3> QED BY <2>1, <3>1, <3>2 DEF InOrder
  <2> QED BY <2>2, <2>3
<1>3. InOrder(p)
  BY <1>2 DEF InOrder
<1>4. \A i \in DOMAIN p : p[i] = l \/ \E j \in DOMAIN o : p[i] = o[j]
  <2> SUFFICES ASSUME NEW i \in DOMAIN p, i # Len(o) + 1 PROVE p[i] = o[i] /\ i \in DOMAIN o
    BY <1>1
  <2> QED BY <1>1
<1>5. p # <<>>
  BY <1>1
<1> QED BY <1>1, <1>3, <1>4, <1>5 DEF p

\* The output of a command after its echo.
LEMMA ResultInOrder ==
  ASSUME NEW o \in Seq(Lines), InOrder(o), o # <<>>, NEW c \in Nat, o[Len(o)].cmd = c,
         \A i \in DOMAIN o : o[i].cmd <= c,
         NEW n \in Nat
  PROVE  LET p == o \o [i \in 1..n |-> S!Line(c, FALSE)]
         IN  /\ p \in Seq(Lines) /\ InOrder(p)
             /\ \A i \in DOMAIN p : p[i].cmd <= c
<1> DEFINE l == S!Line(c, FALSE)
           t == [i \in 1..n |-> l]
           p == o \o t
<1>1. l \in Lines /\ l.cmd = c /\ l.echo = FALSE
  BY DEF S!Line, Lines
<1> HIDE DEF l
<1>2. t \in Seq(Lines) /\ Len(t) = n /\ \A i \in 1..n : t[i] = l
  BY <1>1
<1>3. /\ Len(o) \in Nat /\ DOMAIN o = 1..Len(o)
      /\ \A i \in 1..Len(o) : o[i] \in Lines
  OBVIOUS
<1> HIDE DEF t
<1>4. /\ p \in Seq(Lines) /\ Len(p) = Len(o) + n
      /\ \A i \in 1..Len(o) + n : p[i] = IF i <= Len(o) THEN o[i] ELSE t[i - Len(o)]
  BY <1>2, ConcatProperties
<1>5. DOMAIN p = 1..Len(o) + n
  BY <1>4
<1> HIDE DEF p
<1>6. ASSUME NEW i \in 1..Len(o) + n, i > Len(o) PROVE p[i] = l
  <2>1. i - Len(o) \in 1..n /\ ~(i <= Len(o))
    BY <1>3, <1>6
  <2> QED BY <1>2, <1>4, <2>1
<1>7. ASSUME NEW i \in 1..Len(p) - 1 PROVE Adjacent(p[i], p[i + 1])
  <2>1. i \in 1..Len(o) + n /\ i + 1 \in 1..Len(o) + n /\ i \in Nat
    BY <1>3, <1>4
  <2>2. CASE i < Len(o)
    <3>1. i \in 1..Len(o) - 1 /\ i + 1 <= Len(o)
      BY <1>3, <2>1, <2>2
    <3>2. p[i] = o[i] /\ p[i + 1] = o[i + 1]
      BY <1>4, <2>1, <2>2, <3>1
    <3> QED BY <3>1, <3>2 DEF InOrder
  <2>3. CASE i >= Len(o)
    <3>1. p[i + 1] = l
      BY <1>3, <1>6, <2>1, <2>3
    <3>2. p[i].cmd = c
      <4>1. CASE i = Len(o)
        <5>1. p[i] = o[Len(o)]
          BY <1>3, <1>4, <2>1, <4>1
        <5> QED BY <5>1
      <4>2. CASE i > Len(o)
        BY <1>1, <1>6, <2>1, <4>2
      <4>3. Len(o) \in Nat /\ i \in Nat /\ i >= Len(o)
        BY <1>3, <2>1, <2>3
      <4>4. i = Len(o) \/ i > Len(o)
        BY ONLY <4>3
      <4> QED BY <4>1, <4>2, <4>4
    <3> QED BY <1>1, <3>1, <3>2 DEF Adjacent
  <2> QED BY <1>3, <2>1, <2>2, <2>3
<1>8. ASSUME NEW i \in DOMAIN p PROVE p[i].cmd <= c
  <2>1. CASE i <= Len(o)
    <3>1. p[i] = o[i] /\ i \in DOMAIN o
      BY <1>3, <1>4, <1>5, <2>1
    <3> QED BY <3>1
  <2>2. CASE i > Len(o)
    BY <1>1, <1>5, <1>6, <2>2
  <2> QED BY <1>3, <1>5, <2>1, <2>2
<1>9. InOrder(p)
  BY <1>7 DEF InOrder
<1> QED BY <1>4, <1>8, <1>9 DEF p, t, l

\* What the limit leaves.
LEMMA KeptInOrder ==
  ASSUME NEW o \in Seq(Lines), InOrder(o), NEW c \in Nat, \A i \in DOMAIN o : o[i].cmd <= c
  PROVE  /\ S!Kept(o) \in Seq(Lines) /\ InOrder(S!Kept(o)) /\ Len(S!Kept(o)) <= Cap
         /\ \A i \in DOMAIN S!Kept(o) : S!Kept(o)[i].cmd <= c
<1>1. Cap \in Nat \ {0} /\ Len(o) \in Nat /\ DOMAIN o = 1..Len(o)
  BY ActingAssumption DEF S!ShellAssumption
<1>2. CASE Len(o) <= Cap
  BY <1>1, <1>2 DEF S!Kept
<1>3. CASE Len(o) > Cap
  <2> DEFINE m == Len(o) - Cap
             p == SubSeq(o, m + 1, Len(o))
  <2>1. m \in 1..Len(o) /\ m + Cap = Len(o)
    BY <1>1, <1>3
  <2>2. /\ p \in Seq(Lines) /\ Len(p) = Cap /\ DOMAIN p = 1..Cap
        /\ \A i \in 1..Cap : p[i] = o[m + i]
    <3>1. \A i \in m + 1 .. Len(o) : o[i] \in Lines
      BY <1>1, <2>1
    <3>2. m + 1 \in Int /\ Len(o) \in Int /\ m + 1 <= Len(o) /\ Len(o) - (m + 1) + 1 = Cap
      BY <1>1, <2>1
    <3>3. /\ p \in Seq(Lines) /\ Len(p) = Len(o) - (m + 1) + 1
          /\ \A i \in 1..Len(o) - (m + 1) + 1 : p[i] = o[(m + 1) + i - 1]
      BY <3>1, <3>2, SubSeqProperties
    <3>4. \A i \in 1..Cap : (m + 1) + i - 1 = m + i
      BY <1>1, <2>1
    <3> QED BY <3>2, <3>3, <3>4
  <2>3. S!Kept(o) = p
    BY <1>1, <1>3 DEF S!Kept
  <2> HIDE DEF m, p
  <2>4. ASSUME NEW i \in 1..Len(p) - 1 PROVE Adjacent(p[i], p[i + 1])
    <3>1. i \in 1..Cap /\ i + 1 \in 1..Cap /\ m + i \in 1..Len(o) - 1 /\ m + (i + 1) = (m + i) + 1
      BY <1>1, <2>1, <2>2
    <3>2. p[i] = o[m + i] /\ p[i + 1] = o[(m + i) + 1]
      BY <2>2, <3>1
    <3> QED BY <3>1, <3>2 DEF InOrder
  <2>5. \A i \in DOMAIN p : p[i].cmd <= c
    <3> SUFFICES ASSUME NEW i \in 1..Cap PROVE p[i].cmd <= c
      BY <2>2
    <3>1. m + i \in DOMAIN o
      BY <1>1, <2>1
    <3> QED BY <2>2, <3>1
  <2> QED BY <1>1, <2>2, <2>3, <2>4, <2>5 DEF InOrder
<1> QED BY <1>1, <1>2, <1>3

LEMMA EnterStep == ASSUME ShellInv, S!Enter PROVE ShellInv'
<1> DEFINE l == S!Line(issued + 1, TRUE)
<1>1. /\ output \in Seq(Lines) /\ issued \in Nat /\ InOrder(output) /\ ~running /\ Nothing
      /\ \A i \in DOMAIN output : output[i].cmd <= issued
  BY DEF ShellInv, ShellTypes, Waiting, S!Enter
<1>2. /\ output' = Append(output, l) /\ running' = TRUE /\ threads' = {issued + 1}
      /\ channel' = <<>> /\ issued' = issued + 1 /\ deaths' = deaths
  BY <1>1 DEF Nothing, S!Enter, S!Started
<1>3. l \in Lines /\ l.cmd = issued + 1 /\ l.echo = TRUE
  BY <1>1 DEF S!Line, Lines
<1>4. output # <<>> => Adjacent(output[Len(output)], l)
  <2> SUFFICES ASSUME output # <<>> PROVE output[Len(output)].cmd < issued + 1
    BY <1>3 DEF Adjacent
  <2>1. Len(output) \in DOMAIN output
    BY <1>1
  <2>2. output[Len(output)] \in Lines
    BY <1>1, <2>1
  <2>3. output[Len(output)].cmd \in Nat /\ output[Len(output)].cmd <= issued
    BY <1>1, <2>1, <2>2 DEF Lines
  <2> QED BY <1>1, <2>3
<1> HIDE DEF l
<1>5. /\ output' \in Seq(Lines) /\ InOrder(output') /\ output' # <<>>
      /\ Len(output') = Len(output) + 1 /\ output'[Len(output')] = l
      /\ \A i \in DOMAIN output' : output'[i] = l \/ \E j \in DOMAIN output : output'[i] = output[j]
  BY <1>1, <1>2, <1>3, <1>4, AppendInOrder
<1>6. \A i \in DOMAIN output' : output'[i].cmd <= issued'
  <2>1. ASSUME NEW j \in DOMAIN output PROVE output[j].cmd <= issued + 1
    <3>1. output[j] \in Lines /\ output[j].cmd <= issued
      BY <1>1
    <3>2. output[j].cmd \in Nat
      BY <3>1 DEF Lines
    <3> QED BY <1>1, <3>1, <3>2
  <2> QED BY <1>1, <1>2, <1>3, <1>5, <2>1
<1>7. ShellTypes'
  BY <1>1, <1>2, <1>5 DEF ShellInv, ShellTypes
<1>8. Waiting'
  BY <1>2, <1>3, <1>5, <1>6 DEF Waiting, Coming
<1>9. Lengths'
  <2>1. Len(output) <= Cap + 2 * deaths + 0
    BY <1>1 DEF ShellInv, Lengths
  <2>2. ~Nothing'
    BY <1>2 DEF Nothing
  <2>3. Cap \in Nat /\ Len(output) \in Nat /\ deaths \in Nat
    BY <1>1, ActingAssumption DEF S!ShellAssumption, ShellInv, ShellTypes
  <2>4. Len(output') <= Cap + 2 * deaths + 1
    BY <1>5, <2>1, <2>3
  <2> QED BY <1>2, <2>2, <2>4 DEF Lengths
<1> QED BY <1>5, <1>7, <1>8, <1>9 DEF ShellInv

LEMMA FinishStep == ASSUME ShellInv, S!Finish PROVE ShellInv'
<1>1. PICK c \in threads, n \in 1..MaxLines :
        /\ threads' = threads \ {c}
        /\ channel' = IF panel = "view" /\ c # issued THEN channel
                      ELSE Append(channel, [cmd |-> c, lines |-> n])
  BY DEF S!Finish
<1>2. /\ running /\ threads = {issued} /\ channel = <<>> /\ c = issued
      /\ UNCHANGED <<output, running, issued, deaths>> /\ issued \in Nat /\ n \in Nat
  BY ActingAssumption DEF ShellInv, ShellTypes, Waiting, Coming, Waits, Nothing, S!Finish, S!ShellAssumption
<1>3. threads' = {} /\ channel' = <<[cmd |-> issued, lines |-> n]>>
  BY <1>1, <1>2
<1>4. [cmd |-> issued, lines |-> n] \in Results
  BY <1>2 DEF Results
<1>5. channel' \in Seq(Results) /\ Waits' /\ ~Nothing'
  BY <1>2, <1>3, <1>4 DEF Waits, Nothing
<1>6. ~Nothing
  BY <1>2 DEF Nothing
<1>7. ShellTypes' /\ InOrder(output)' /\ Waiting'
  BY <1>2, <1>3, <1>5 DEF ShellInv, ShellTypes, InOrder, Waiting
<1>8. Lengths'
  BY <1>2, <1>5, <1>6 DEF ShellInv, Lengths
<1> QED BY <1>7, <1>8 DEF ShellInv

LEMMA DieStep == ASSUME ShellInv, S!Die PROVE ShellInv'
<1>1. /\ running /\ threads = {issued} /\ channel = <<>> /\ threads' = {} /\ deaths' = deaths + 1
      /\ UNCHANGED <<output, running, issued, channel>>
  BY DEF ShellInv, ShellTypes, Waiting, Coming, Waits, Nothing, S!Die
<1>2. Nothing' /\ ~Nothing
  BY <1>1 DEF Nothing
<1>3. deaths \in Nat /\ Cap \in Nat /\ Len(output) \in Nat
  BY ActingAssumption DEF S!ShellAssumption, ShellInv, ShellTypes
<1>4. ShellTypes' /\ InOrder(output)' /\ Waiting'
  BY <1>1, <1>2, <1>3 DEF ShellInv, ShellTypes, InOrder, Waiting
<1>5. Len(output) <= Cap + 2 * deaths + 1
  BY <1>1, <1>2 DEF ShellInv, Lengths
<1>6. Len(output) <= Cap + 2 * (deaths + 1) + -1
  BY <1>3, <1>5
<1>7. Lengths'
  BY <1>1, <1>2, <1>6 DEF Lengths
<1> QED BY <1>4, <1>7 DEF ShellInv

LEMMA ShowStep == ASSUME ShellInv, S!Show PROVE ShellInv'
<1> DEFINE n == Head(channel).lines
<1>1. running /\ threads = {} /\ Len(channel) = 1 /\ channel[1].cmd = issued /\ channel \in Seq(Results)
  BY DEF ShellInv, ShellTypes, Waiting, Coming, Waits, Nothing, S!Show
<1>2. Head(channel) = channel[1] /\ channel[1] \in Results
  BY ONLY <1>1
<1>t. Tail(channel) = <<>>
  <2>1. channel # <<>>
    BY DEF S!Show
  <2>2. Tail(channel) \in Seq(Results) /\ Len(Tail(channel)) = 0
    BY ONLY <1>1, <2>1, HeadTailProperties
  <2> QED BY <2>2, EmptySeq
<1>3. n \in Nat /\ Head(channel).cmd = issued
  BY <1>1, <1>2 DEF Results
<1> DEFINE all == output \o [i \in 1..n |-> S!Line(issued, FALSE)]
<1>4. /\ output' = S!Kept(all) /\ channel' = <<>> /\ running' = FALSE
      /\ UNCHANGED <<threads, issued, deaths>>
  BY <1>2, <1>t, <1>3 DEF S!Show
<1>5. /\ output \in Seq(Lines) /\ InOrder(output) /\ output # <<>> /\ issued \in Nat
      /\ output[Len(output)].cmd = issued /\ \A i \in DOMAIN output : output[i].cmd <= issued
  BY <1>1 DEF ShellInv, ShellTypes, Waiting
<1>6. all \in Seq(Lines) /\ InOrder(all) /\ \A i \in DOMAIN all : all[i].cmd <= issued
  BY <1>3, <1>5, ResultInOrder
<1> HIDE DEF all
<1>7. /\ output' \in Seq(Lines) /\ InOrder(output') /\ Len(output') <= Cap
      /\ \A i \in DOMAIN output' : output'[i].cmd <= issued
  BY <1>4, <1>5, <1>6, KeptInOrder
<1>8. ShellTypes' /\ Waiting'
  <2>1. deaths \in Nat /\ <<>> \in Seq(Results)
    BY DEF ShellInv, ShellTypes
  <2>2. ShellTypes'
    BY <1>1, <1>4, <1>5, <1>7, <2>1 DEF ShellTypes
  <2>3. Waiting'
    BY <1>1, <1>4, <1>7 DEF Waiting, Nothing
  <2> QED BY <2>2, <2>3
<1>9. Lengths'
  <2>1. deaths \in Nat /\ Cap \in Nat /\ Len(output') \in Nat
    BY <1>7, ActingAssumption DEF S!ShellAssumption, ShellInv, ShellTypes
  <2>2. Len(output') <= Cap + 2 * deaths + 0
    BY <1>7, <2>1
  <2> QED BY <1>4, <2>2 DEF Lengths
<1> QED BY <1>7, <1>8, <1>9 DEF ShellInv

LEMMA NoticeStep == ASSUME ShellInv, S!NoticeDeath PROVE ShellInv'
<1> DEFINE l == S!Line(issued, FALSE)
<1>1. /\ running /\ Nothing /\ output # <<>> /\ output[Len(output)].cmd = issued
      /\ output \in Seq(Lines) /\ InOrder(output) /\ issued \in Nat
      /\ \A i \in DOMAIN output : output[i].cmd <= issued
  BY DEF ShellInv, ShellTypes, Waiting, Coming, Waits, Nothing, S!NoticeDeath
<1>2. output' = Append(output, l) /\ running' = FALSE /\ UNCHANGED <<threads, channel, issued, deaths>>
  BY DEF S!NoticeDeath
<1>3. l \in Lines /\ l.cmd = issued /\ Adjacent(output[Len(output)], l)
  BY <1>1 DEF S!Line, Lines, Adjacent
<1> HIDE DEF l
<1>4. /\ output' \in Seq(Lines) /\ InOrder(output') /\ Len(output') = Len(output) + 1
      /\ \A i \in DOMAIN output' : output'[i] = l \/ \E j \in DOMAIN output : output'[i] = output[j]
  BY <1>1, <1>2, <1>3, AppendInOrder
<1>5. \A i \in DOMAIN output' : output'[i].cmd <= issued'
  BY <1>1, <1>2, <1>3, <1>4
<1>6. ShellTypes' /\ Waiting'
  BY <1>1, <1>2, <1>4, <1>5 DEF ShellInv, ShellTypes, Waiting, Nothing
<1>7. Lengths'
  <2>1. deaths \in Nat /\ Cap \in Nat /\ Len(output) \in Nat
    BY <1>1, ActingAssumption DEF S!ShellAssumption, ShellInv, ShellTypes
  <2>2. Len(output) <= Cap + 2 * deaths + -1
    BY <1>1 DEF ShellInv, Lengths
  <2>3. Len(output') <= Cap + 2 * deaths + 0
    BY <1>4, <2>1, <2>2
  <2> QED BY <1>2, <2>3 DEF Lengths
<1> QED BY <1>4, <1>6, <1>7 DEF ShellInv

LEMMA ShellStep == ASSUME ShellInv, S!Next PROVE ShellInv'
<1>1. ASSUME UNCHANGED <<output, running, threads, channel, issued, deaths>> PROVE ShellInv'
  BY <1>1 DEF ShellInv, ShellTypes, InOrder, Waiting, Coming, Waits, Nothing, Lengths
<1>2. CASE S!Toggle \/ S!Type
  BY <1>1, <1>2 DEF S!Toggle, S!Type
<1> QED BY <1>2, EnterStep, FinishStep, DieStep, ShowStep, NoticeStep DEF S!Next

-----------------------------------------------------------------------------
(* A collection *)

CollectionTypes ==
  /\ past \in [K!Domains -> Nat]
  /\ read \in [K!Domains -> SUBSET Nat] /\ warned \in [K!Domains -> SUBSET Nat]
  /\ child \in [K!Domains -> {"none", "runs", "succeeded", "failed"}]
  /\ over \in [K!Domains -> BOOLEAN] /\ holds \in [K!Domains -> BOOLEAN]
  /\ thread \in [K!Domains -> {"runs", "ended", "panicked"}]
  /\ joined \in 0..Len(Order) /\ lost \subseteq K!Domains

\* A command runs only in a thread that runs, and a thread that ended has run them all.
Working(d) ==
  /\ past[d] <= Len(Commands[d])
  /\ child[d] # "none" => thread[d] = "runs" /\ past[d] < Len(Commands[d])
  /\ thread[d] = "ended" => past[d] = Len(Commands[d])

\* Each command that is over and reports its failures was read or has left a warning.
Accounted(d) ==
  \/ thread[d] = "panicked"
  \/ \A i \in 1..Len(Commands[d]) :
       i <= past[d] /\ Commands[d][i] \in K!Reported => K!Spoken(d, i)

\* A thread that was joined runs no longer, and a panic that was joined is known; the
\* snapshot is complete after the last of all.
Joined ==
  /\ \A i \in 1..joined : thread[Order[i]] # "runs"
  /\ \A i \in 1..joined : thread[Order[i]] = "panicked" => Order[i] \in lost
  /\ \A d \in lost : thread[d] = "panicked"
  /\ done => joined = Len(Order) /\ thread[Afterwards] = "ended"

CollectionInv ==
  CollectionTypes /\ (\A d \in K!Domains : Working(d) /\ Accounted(d)) /\ Joined

LEMMA Domains ==
  /\ Len(Order) \in Nat /\ DOMAIN Order = 1..Len(Order) /\ \A i \in 1..Len(Order) : Order[i] \in K!Domains
  /\ \A d \in K!Domains : d = Afterwards \/ \E i \in 1..Len(Order) : d = Order[i]
  /\ \A d \in K!Domains : /\ Len(Commands[d]) \in Nat /\ DOMAIN Commands[d] = 1..Len(Commands[d])
                          /\ \A i \in 1..Len(Commands[d]) : Commands[d][i] \in K!Kinds
  /\ Afterwards \in K!Domains
<1>1. Order \in Seq(K!Domains \ {Afterwards}) /\ Commands \in [K!Domains -> Seq(K!Kinds)]
  BY ActingAssumption DEF K!CollectionAssumption
<1>2. Len(Order) \in Nat /\ DOMAIN Order = 1..Len(Order)
  BY <1>1
<1>3. \A d \in K!Domains : Commands[d] \in Seq(K!Kinds)
  BY <1>1
<1>4. \A d \in K!Domains : /\ Len(Commands[d]) \in Nat /\ DOMAIN Commands[d] = 1..Len(Commands[d])
                           /\ \A i \in 1..Len(Commands[d]) : Commands[d][i] \in K!Kinds
  BY <1>3
<1> QED BY <1>1, <1>2, <1>4 DEF K!Domains

LEMMA CollectionHolds == ASSUME CollectionInv PROVE K!NothingMissingSilently /\ K!NothingRunsOn
<1> SUFFICES ASSUME done, NEW d \in K!Domains
             PROVE  /\ d \notin lost => \A i \in DOMAIN Commands[d] :
                                          Commands[d][i] \in K!Reported => K!Spoken(d, i)
                    /\ child[d] # "runs" /\ thread[d] # "runs"
  BY DEF K!NothingMissingSilently, K!NothingRunsOn
<1>1. d = Afterwards \/ \E i \in 1..Len(Order) : d = Order[i]
  BY Domains
<1>2. thread[d] # "runs" /\ (thread[d] = "panicked" => d \in lost) /\ thread[d] \in {"runs", "ended", "panicked"}
  BY <1>1 DEF CollectionInv, CollectionTypes, Joined
<1>3. child[d] = "none"
  BY <1>2 DEF CollectionInv, CollectionTypes, Working
<1>4. ASSUME d \notin lost, NEW i \in DOMAIN Commands[d], Commands[d][i] \in K!Reported
      PROVE  K!Spoken(d, i)
  <2>1. past[d] = Len(Commands[d]) /\ i \in 1..Len(Commands[d]) /\ Len(Commands[d]) \in Nat
    BY <1>2, <1>4, Domains DEF CollectionInv, Working
  <2>2. i <= past[d]
    BY <2>1
  <2> QED BY <1>2, <1>4, <2>1, <2>2 DEF CollectionInv, Accounted
<1> QED BY <1>2, <1>3, <1>4

LEMMA CollectionInit == K!Init => CollectionInv
<1> SUFFICES ASSUME K!Init PROVE CollectionInv OBVIOUS
<1>1. Len(Order) \in Nat
  BY Domains
<1>2. CollectionTypes
  BY <1>1 DEF K!Init, CollectionTypes
<1>3. ASSUME NEW d \in K!Domains PROVE Working(d) /\ Accounted(d)
  <2>1. child[d] = "none" /\ thread[d] = "runs" /\ past[d] = 0 /\ Len(Commands[d]) \in Nat
    BY Domains DEF K!Init
  <2>2. \A i \in 1..Len(Commands[d]) : ~(i <= past[d])
    BY <2>1
  <2> QED BY <2>1, <2>2 DEF Working, Accounted
<1>4. Joined
  BY <1>1 DEF K!Init, Joined
<1> QED BY <1>2, <1>3, <1>4 DEF CollectionInv

\* What a step of one domain does to it, and to no other.
OneDomain(d) ==
  /\ \A x \in K!Domains \ {d} :
       /\ past'[x] = past[x] /\ child'[x] = child[x] /\ read'[x] = read[x]
       /\ warned'[x] = warned[x] /\ thread'[x] = thread[x]
  /\ UNCHANGED <<joined, done, lost>>
  /\ Working(d)' /\ Accounted(d)'
  /\ thread[d] # "runs" => thread'[d] = thread[d]

LEMMA DomainKeeps ==
  ASSUME CollectionInv, NEW d \in K!Domains, CollectionTypes', OneDomain(d)
  PROVE  CollectionInv'
<1>1. ASSUME NEW x \in K!Domains PROVE Working(x)' /\ Accounted(x)'
  <2>1. CASE x = d
    BY <2>1 DEF OneDomain
  <2>2. CASE x # d
    BY <2>2 DEF OneDomain, CollectionInv, Working, Accounted, K!Spoken
  <2> QED BY <2>1, <2>2
<1>2. \A x \in K!Domains : thread[x] # "runs" => thread'[x] = thread[x]
  BY DEF OneDomain
<1>3. Joined'
  <2>1. (\A i \in 1..joined : Order[i] \in K!Domains) /\ Afterwards \in K!Domains
    BY Domains DEF CollectionInv, CollectionTypes
  <2> QED BY <1>2, <2>1 DEF OneDomain, CollectionInv, CollectionTypes, Joined
<1> QED BY <1>1, <1>3 DEF CollectionInv

\* Commands of d are over, and what was read or warned accounts for them.
LEMMA OverKeeps ==
  ASSUME CollectionInv, NEW d \in K!Domains, thread[d] = "runs",
         NEW p \in 0..Len(Commands[d]), past' = [past EXCEPT ![d] = p],
         NEW r \in SUBSET Nat, read' = [read EXCEPT ![d] = r], read[d] \subseteq r,
         NEW w \in SUBSET Nat, warned' = [warned EXCEPT ![d] = w], warned[d] \subseteq w,
         \A i \in 1..Len(Commands[d]) :
           i <= p /\ ~(i <= past[d]) /\ Commands[d][i] \in K!Reported =>
             i \in r \cup w \/ \E n \in w : n < i /\ Commands[d][n] = "status",
         child' = [child EXCEPT ![d] = "none"], over' = [over EXCEPT ![d] = FALSE],
         UNCHANGED <<holds, thread, joined, done, lost>>
  PROVE  CollectionInv'
<1>1. p \in Nat /\ p <= Len(Commands[d])
  BY Domains
<1>2. CollectionTypes'
  BY <1>1 DEF CollectionInv, CollectionTypes
<1>3. /\ past'[d] = p /\ child'[d] = "none" /\ read'[d] = r /\ warned'[d] = w
      /\ thread'[d] = "runs"
  BY DEF CollectionInv, CollectionTypes
<1>4. Working(d)'
  BY <1>1, <1>3 DEF Working
<1>5. Accounted(d)'
  <2>1. ASSUME NEW i \in 1..Len(Commands[d]), i <= p, Commands[d][i] \in K!Reported
        PROVE  i \in r \cup w \/ \E n \in w : n < i /\ Commands[d][n] = "status"
    <3>1. CASE i <= past[d]
      <4>1. K!Spoken(d, i)
        BY <2>1, <3>1 DEF CollectionInv, Accounted
      <4> QED BY <4>1 DEF K!Spoken
    <3>2. CASE ~(i <= past[d])
      BY <2>1, <3>2
    <3> QED BY <3>1, <3>2
  <2> QED BY <1>3, <2>1 DEF Accounted, K!Spoken
<1>6. OneDomain(d)
  BY <1>4, <1>5 DEF OneDomain, CollectionInv, CollectionTypes
<1> QED BY <1>2, <1>6, DomainKeeps

\* A command that gives nothing, and what is said of it.
LEMMA FailKeeps ==
  ASSUME CollectionInv, NEW d \in K!Domains, thread[d] = "runs", past[d] < Len(Commands[d]),
         K!Fail(d), UNCHANGED <<holds, thread, joined, done, lost>>
  PROVE  CollectionInv'
<1> DEFINE k == past[d] + 1
           p == IF K!Kind(d) = "status" THEN Len(Commands[d]) ELSE k
           w == IF K!Kind(d) \in K!Reported THEN warned[d] \cup {k} ELSE warned[d]
<1>1. /\ past[d] \in Nat /\ read[d] \in SUBSET Nat /\ warned[d] \in SUBSET Nat
      /\ Len(Commands[d]) \in Nat
      /\ read \in [K!Domains -> SUBSET Nat] /\ warned \in [K!Domains -> SUBSET Nat]
  BY Domains DEF CollectionInv, CollectionTypes
<1>2. k \in 1..Len(Commands[d]) /\ k \in Nat
  BY <1>1
<1>3. /\ past' = [past EXCEPT ![d] = p] /\ child' = [child EXCEPT ![d] = "none"]
      /\ over' = [over EXCEPT ![d] = FALSE] /\ read' = read
  BY DEF K!Fail, K!Set, K!This
<1>4. warned' = [warned EXCEPT ![d] = w]
  <2>1. CASE K!Kind(d) \in K!Reported
    BY <2>1 DEF K!Fail, K!Warn, K!Set, K!This
  <2>2. CASE K!Kind(d) \notin K!Reported
    BY <1>1, <2>2 DEF K!Fail
  <2> QED BY <2>1, <2>2
<1>5. read' = [read EXCEPT ![d] = read[d]]
  BY <1>1, <1>3
<1>6. p \in 0..Len(Commands[d])
  BY <1>1, <1>2
<1>7. w \in SUBSET Nat /\ warned[d] \subseteq w
  BY <1>1, <1>2
<1>8. ASSUME NEW i \in 1..Len(Commands[d]), i <= p, ~(i <= past[d]), Commands[d][i] \in K!Reported
      PROVE  i \in read[d] \cup w \/ \E n \in w : n < i /\ Commands[d][n] = "status"
  <2>1. CASE i = k
    BY <1>8, <2>1 DEF K!Kind, K!This
  <2>2. CASE i # k
    <3>1. K!Kind(d) = "status" /\ k < i
      BY <1>1, <1>8, <2>2
    <3>2. k \in w /\ Commands[d][k] = "status"
      BY <3>1 DEF K!Kind, K!This, K!Reported
    <3> QED BY <3>1, <3>2
  <2> QED BY <2>1, <2>2
<1>9. \A i \in 1..Len(Commands[d]) :
        i <= p /\ ~(i <= past[d]) /\ Commands[d][i] \in K!Reported =>
          i \in read[d] \cup w \/ \E n \in w : n < i /\ Commands[d][n] = "status"
  BY <1>8
<1>10. read[d] \in SUBSET Nat /\ read[d] \subseteq read[d]
  BY <1>1
<1> HIDE DEF k, p, w, CollectionInv
<1> QED BY <1>3, <1>4, <1>5, <1>6, <1>7, <1>9, <1>10, OverKeeps

\* A command that was read.
LEMMA ReadKeeps ==
  ASSUME CollectionInv, NEW d \in K!Domains, thread[d] = "runs", past[d] < Len(Commands[d]),
         K!CommandOver(d), read' = [read EXCEPT ![d] = read[d] \cup {past[d] + 1}],
         NEW w \in {warned[d], warned[d] \cup {past[d] + 1}}, warned' = [warned EXCEPT ![d] = w],
         UNCHANGED <<holds, thread, joined, done, lost>>
  PROVE  CollectionInv'
<1> DEFINE k == past[d] + 1
           r == read[d] \cup {k}
<1>1. /\ past[d] \in Nat /\ read[d] \in SUBSET Nat /\ warned[d] \in SUBSET Nat
      /\ Len(Commands[d]) \in Nat
  BY Domains DEF CollectionInv, CollectionTypes
<1>2. k \in 0..Len(Commands[d]) /\ k \in Nat
  BY <1>1
<1>3. /\ past' = [past EXCEPT ![d] = k] /\ child' = [child EXCEPT ![d] = "none"]
      /\ over' = [over EXCEPT ![d] = FALSE]
  BY DEF K!CommandOver, K!Set, K!This
<1>4. r \in SUBSET Nat /\ read[d] \subseteq r /\ w \in SUBSET Nat /\ warned[d] \subseteq w
  BY <1>1, <1>2
<1>5. ASSUME NEW i \in 1..Len(Commands[d]), i <= k, ~(i <= past[d]) PROVE i \in r \cup w
  BY <1>1, <1>5
<1>6. read' = [read EXCEPT ![d] = r]
  OBVIOUS
<1> HIDE DEF k, r
<1> QED BY <1>2, <1>3, <1>4, <1>5, <1>6, OverKeeps

\* Nothing that the accounts are made of changes for d but its child's state.
LEMMA ChildKeeps ==
  ASSUME CollectionInv, NEW d \in K!Domains,
         NEW c \in {"none", "runs", "succeeded", "failed"}, child' = [child EXCEPT ![d] = c],
         c # "none" => thread[d] = "runs" /\ past[d] < Len(Commands[d]),
         over' \in [K!Domains -> BOOLEAN], holds' \in [K!Domains -> BOOLEAN],
         UNCHANGED <<past, read, warned, thread, joined, done, lost>>
  PROVE  CollectionInv'
<1>1. CollectionTypes' /\ child'[d] = c
  BY DEF CollectionInv, CollectionTypes
<1>2. Working(d)' /\ Accounted(d)'
  BY <1>1 DEF CollectionInv, Working, Accounted, K!Spoken
<1>3. OneDomain(d)
  BY <1>2 DEF OneDomain, CollectionInv, CollectionTypes
<1> QED BY <1>1, <1>3, DomainKeeps

\* The thread of d, with no command that runs, comes to its end.
LEMMA ThreadKeeps ==
  ASSUME CollectionInv, NEW d \in K!Domains, thread[d] = "runs", child[d] = "none",
         NEW e \in {"ended", "panicked"}, thread' = [thread EXCEPT ![d] = e],
         e = "ended" => past[d] = Len(Commands[d]),
         UNCHANGED <<past, child, over, holds, read, warned, joined, done, lost>>
  PROVE  CollectionInv'
<1>1. CollectionTypes' /\ thread'[d] = e
  BY DEF CollectionInv, CollectionTypes
<1>2. Working(d)' /\ Accounted(d)'
  BY <1>1 DEF CollectionInv, Working, Accounted, K!Spoken
<1>3. OneDomain(d)
  BY <1>2 DEF OneDomain, CollectionInv, CollectionTypes
<1> QED BY <1>1, <1>3, DomainKeeps

LEMMA DomainStep ==
  ASSUME CollectionInv, NEW d \in K!Domains,
         K!Domain(d) \/ K!ChildExits(d) \/ K!DescendantEnds(d) \/ K!Elapse(d)
  PROVE  CollectionInv'
<1>1. /\ over \in [K!Domains -> BOOLEAN] /\ holds \in [K!Domains -> BOOLEAN]
      /\ child \in [K!Domains -> {"none", "runs", "succeeded", "failed"}]
      /\ read \in [K!Domains -> SUBSET Nat] /\ warned \in [K!Domains -> SUBSET Nat]
  BY DEF CollectionInv, CollectionTypes
<1>2. child[d] # "none" => thread[d] = "runs" /\ past[d] < Len(Commands[d])
  BY DEF CollectionInv, Working
<1>3. CASE K!Spawn(d)
  <2>1. CASE K!Set(child, d, "runs") /\ UNCHANGED <<past, over, read, warned>>
    BY <1>1, <1>3, <2>1, ChildKeeps DEF K!Spawn, K!Set, K!Active
  <2>2. CASE K!Fail(d)
    BY <1>3, <2>2, FailKeeps DEF K!Spawn, K!Active
  <2> QED BY <1>3, <2>1, <2>2 DEF K!Spawn
<1>4. CASE K!Timeout(d)
  BY <1>2, <1>4, FailKeeps DEF K!Timeout
<1>5. CASE K!ReadOutput(d)
  <2>1. thread[d] = "runs" /\ past[d] < Len(Commands[d]) /\ UNCHANGED <<holds, thread, joined, done, lost>>
    BY <1>2, <1>5 DEF K!ReadOutput
  <2>2. CASE K!Fail(d)
    BY <2>1, <2>2, FailKeeps
  <2>3. CASE ~K!Fail(d)
    <3>1. /\ K!CommandOver(d) /\ read' = [read EXCEPT ![d] = read[d] \cup {past[d] + 1}]
          /\ warned' = warned \/ warned' = [warned EXCEPT ![d] = warned[d] \cup {past[d] + 1}]
      BY <1>5, <2>3 DEF K!ReadOutput, K!Set, K!This, K!Warn
    <3>2. warned = [warned EXCEPT ![d] = warned[d]]
      BY <1>1
    <3>3. PICK w \in {warned[d], warned[d] \cup {past[d] + 1}} : warned' = [warned EXCEPT ![d] = w]
      BY <3>1, <3>2
    <3> HIDE DEF CollectionInv
    <3> QED BY <2>1, <3>1, <3>3, ReadKeeps
  <2> QED BY <2>2, <2>3
<1>6. CASE K!EndDomain(d)
  BY <1>6, ThreadKeeps DEF K!EndDomain, K!Set, K!Active
<1>7. CASE K!Panic(d)
  BY <1>7, ThreadKeeps DEF K!Panic, K!Set
<1>8. CASE K!ChildExits(d)
  <2>1. PICK c \in {"succeeded", "failed"} : child' = [child EXCEPT ![d] = c]
    BY <1>8 DEF K!ChildExits, K!Set
  <2>2. over' \in [K!Domains -> BOOLEAN] /\ holds' \in [K!Domains -> BOOLEAN]
    BY <1>1, <1>8 DEF K!ChildExits, K!Set
  <2> QED BY <1>2, <1>8, <2>1, <2>2, ChildKeeps DEF K!ChildExits
<1>9. CASE K!DescendantEnds(d) \/ K!Elapse(d)
  <2>1. over' \in [K!Domains -> BOOLEAN] /\ holds' \in [K!Domains -> BOOLEAN]
    BY <1>1, <1>9 DEF K!DescendantEnds, K!Elapse, K!Set
  <2>2. child' = [child EXCEPT ![d] = child[d]] /\ child[d] \in {"none", "runs", "succeeded", "failed"}
    BY <1>1, <1>9 DEF K!DescendantEnds, K!Elapse
  <2>3. UNCHANGED <<past, read, warned, thread, joined, done, lost>>
    BY <1>9 DEF K!DescendantEnds, K!Elapse
  <2> QED BY <1>2, <2>1, <2>2, <2>3, ChildKeeps
<1> QED BY <1>3, <1>4, <1>5, <1>6, <1>7, <1>8, <1>9 DEF K!Domain

LEMMA JoinStep == ASSUME CollectionInv, K!Join PROVE CollectionInv'
<1> DEFINE d == Order[joined + 1]
<1>1. joined + 1 \in 1..Len(Order) /\ joined \in Nat /\ Len(Order) \in Nat /\ d \in K!Domains
  BY Domains DEF CollectionInv, CollectionTypes, K!Join
<1>2. /\ thread[d] # "runs" /\ joined' = joined + 1
      /\ UNCHANGED <<past, child, over, holds, thread, done>>
      /\ IF thread[d] = "panicked"
         THEN /\ read' = [read EXCEPT ![d] = {}] /\ warned' = [warned EXCEPT ![d] = {}]
              /\ lost' = lost \cup {d}
         ELSE UNCHANGED <<read, warned, lost>>
  BY DEF K!Join, K!JoinNext, K!Set
<1> HIDE DEF d
<1>3. CollectionTypes'
  <2>1. CollectionTypes
    BY DEF CollectionInv
  <2>2. joined + 1 \in 0..Len(Order)
    BY ONLY <1>1
  <2>3. CASE thread[d] = "panicked"
    <3>1. /\ read' = [read EXCEPT ![d] = {}] /\ warned' = [warned EXCEPT ![d] = {}]
          /\ lost' = lost \cup {d} /\ d \in K!Domains
      BY <1>1, <1>2, <2>3
    <3>2. read' \in [K!Domains -> SUBSET Nat]
      BY ONLY <2>1, <3>1 DEF CollectionTypes
    <3>3. warned' \in [K!Domains -> SUBSET Nat]
      BY ONLY <2>1, <3>1 DEF CollectionTypes
    <3>4. lost' \subseteq K!Domains
      BY ONLY <2>1, <3>1 DEF CollectionTypes
    <3> QED BY <1>2, <2>1, <2>2, <3>2, <3>3, <3>4 DEF CollectionTypes
  <2>4. CASE thread[d] # "panicked"
    BY <1>2, <2>1, <2>2, <2>4 DEF CollectionTypes
  <2> QED BY <2>3, <2>4
<1>4. ASSUME NEW x \in K!Domains PROVE Working(x)' /\ Accounted(x)'
  <2>1. Working(x)'
    BY <1>2 DEF CollectionInv, Working
  <2>2. CASE thread[x] = "panicked"
    <3>1. Accounted(x)'
      BY <1>2, <2>2 DEF Accounted
    <3> QED BY <2>1, <3>1
  <2>3. CASE thread[x] # "panicked"
    <3>1. read'[x] = read[x] /\ warned'[x] = warned[x]
      BY <1>2, <2>3 DEF CollectionInv, CollectionTypes
    <3>2. Accounted(x)'
      BY <1>2, <3>1 DEF CollectionInv, Accounted, K!Spoken
    <3> QED BY <2>1, <3>2
  <2> QED BY <2>1, <2>2, <2>3
<1>5. Joined'
  <2>1. \A i \in 1..joined + 1 : i \in 1..joined \/ i = joined + 1
    BY ONLY <1>1
  <2>2. lost \subseteq lost' /\ lost' \subseteq lost \cup {d}
    BY <1>2
  <2>3. \A i \in 1..joined + 1 : thread[Order[i]] # "runs"
    BY <1>2, <2>1 DEF CollectionInv, Joined, d
  <2>4. \A i \in 1..joined + 1 : thread[Order[i]] = "panicked" => Order[i] \in lost'
    BY <1>2, <2>1, <2>2 DEF CollectionInv, Joined, d
  <2>5. \A x \in lost' : thread[x] = "panicked"
    BY <1>2 DEF CollectionInv, Joined
  <2>6. ~done
    <3>1. joined # Len(Order)
      BY <1>1 DEF K!Join
    <3> QED BY <3>1 DEF CollectionInv, Joined
  <2> QED BY <1>2, <2>3, <2>4, <2>5, <2>6 DEF Joined
<1> QED BY <1>3, <1>4, <1>5 DEF CollectionInv

LEMMA CollectionStep == ASSUME CollectionInv, K!Next PROVE CollectionInv'
<1>1. CASE K!Diagnose
  BY <1>1 DEF K!Diagnose, K!domainVars, CollectionInv, CollectionTypes, Working, Accounted, Joined, K!Spoken
<1> QED BY <1>1, DomainStep, JoinStep DEF K!Next

-----------------------------------------------------------------------------
(***************************************************************************)
(* One inventory of the containers.                                        *)
(***************************************************************************)

AllRows ==
  [runtime : D!Runtimes, id : Identities, of : Identities, runs : BOOLEAN,
   limits : BOOLEAN, usage : BOOLEAN]
Modes == {"absent", "live", "refuses", "down", "hangs"}
Asking == {"probe", "list", "inspect", "stats", "before", "measure", "after", "done"}

ContainersTypes ==
  /\ modes \in [D!Runtimes -> Modes]
  /\ has \in [D!Runtimes -> SUBSET Identities] /\ stopped \in [D!Runtimes -> SUBSET Identities]
  /\ queried \in 0..Len(RuntimeOrder) /\ command \in Asking
  /\ batch \subseteq AllRows /\ listing \subseteq AllRows /\ first \subseteq Identities
  /\ told \subseteq D!Runtimes /\ moved \subseteq D!Runtimes /\ odd \subseteq D!Runtimes
  /\ borne \subseteq Identities /\ back \in BOOLEAN /\ up \in BOOLEAN

\* The command to run is one of the runtime that is asked.
Stage ==
  /\ command = "done" <=> queried = Len(RuntimeOrder)
  /\ command \in {"before", "measure", "after"} => D!R = "libvirt"
  /\ command \in {"probe", "list", "inspect", "stats"} => D!R # "libvirt"
  /\ command \in {"inspect", "stats"} => D!R \in Inspectable
  /\ command \in {"inspect", "stats", "after"} => \A row \in batch : row.runtime = D!R
  /\ \A a, b \in has["libvirt"] : "libvirt" \in D!Runtimes => a = b

\* The runtimes that are finished.
Over == {RuntimeOrder[i] : i \in 1..queried}

\* AllRows are of runtimes that are finished, and so is what was said, but for an inspection
\* that failed.
Said ==
  /\ \A row \in listing : row.runtime \in Over
  /\ \A r \in told : r \in Over \/ (command = "stats" /\ r = D!R)

Calm(r) == r \notin moved \cup odd

\* What is known of the runtime that is asked, if nothing happened to it.
Current ==
  command # "done" /\ Calm(D!R) =>
    /\ command \notin {"probe", "before"} => modes[D!R] = "live"
    /\ command \in {"list", "inspect", "stats"} => up
    /\ command \in {"inspect", "stats"} => {row.id : row \in batch} = has[D!R] /\ D!R \notin told
    /\ command = "stats" => \A row \in batch : row.limits
    /\ command \in {"measure", "after"} => first = has[D!R]
    /\ command = "after" => batch = {D!Row(id) : id \in has[D!R]}

\* What was said of a runtime that is finished.
Truthful(r) ==
  /\ modes[r] = "live" =>
       /\ D!IdsOf(r) = has[r] /\ r \notin told /\ up
       /\ r \in Inspectable => \A row \in D!RowsOf(r) : row.limits /\ row.usage = row.runs
  /\ modes[r] # "live" => D!RowsOf(r) = {}
  /\ modes[r] = "refuses" => r \in told
  /\ modes[r] \in {"absent"} \cup (IF r = "libvirt" THEN {} ELSE {"down"}) => r \notin told
Settled == \A r \in Over : Calm(r) => Truthful(r)

\* A row that lacks its details comes with a warning.
Whole(row) == row.limits /\ row.usage = row.runs
Survives ==
  /\ \A row \in listing : row.runtime \in Inspectable => Whole(row) \/ row.runtime \in told
  /\ command \in {"inspect", "stats"} => \A row \in batch : ~row.usage
  /\ command = "stats" => \A row \in batch : row.limits \/ D!R \in told

\* The name that was read first is borne by what was measured, was given away, or is back.
Named ==
  /\ \A row \in listing : row.id = row.of \/ back
  /\ command \in {"inspect", "stats"} => \A row \in batch : row.id = row.of
  /\ \A a, b \in first : a = b
  /\ command = "measure" => first \subseteq borne \cup has["libvirt"]
  /\ command = "after" =>
       \A row \in batch, f \in first : row.of = f \/ back \/ (f \in borne /\ f \notin has["libvirt"])

ContainersInv == ContainersTypes /\ Stage /\ Said /\ Current /\ Settled /\ Survives /\ Named

LEMMA RuntimesInOrder ==
  /\ Len(RuntimeOrder) \in Nat \ {0} /\ DOMAIN RuntimeOrder = 1..Len(RuntimeOrder)
  /\ \A i \in 1..Len(RuntimeOrder) : RuntimeOrder[i] \in D!Runtimes
  /\ \A r \in D!Runtimes : \E i \in 1..Len(RuntimeOrder) : r = RuntimeOrder[i]
  /\ \A i, j \in 1..Len(RuntimeOrder) : RuntimeOrder[i] = RuntimeOrder[j] => i = j
  /\ Inspectable \subseteq D!Runtimes /\ "libvirt" \notin Inspectable
<1>1. /\ RuntimeOrder \in Seq(D!Runtimes) /\ RuntimeOrder # <<>>
      /\ \A i, j \in DOMAIN RuntimeOrder : RuntimeOrder[i] = RuntimeOrder[j] => i = j
      /\ Inspectable \subseteq D!Runtimes \ {"libvirt"}
  BY ActingAssumption DEF D!ContainersAssumption
<1>2. Len(RuntimeOrder) \in Nat \ {0} /\ DOMAIN RuntimeOrder = 1..Len(RuntimeOrder)
  BY <1>1, EmptySeq, LenProperties
<1> QED BY <1>1, <1>2 DEF D!Runtimes

LEMMA ContainersHold ==
  ASSUME ContainersInv
  PROVE  D!RuntimesAccounted /\ D!RowsSurvive /\ D!MeasuredIsNamed
<1>1. ASSUME command = "done", NEW r \in D!Runtimes PROVE r \in Over
  <2>1. queried = Len(RuntimeOrder)
    BY <1>1 DEF ContainersInv, Stage
  <2> QED BY <2>1, RuntimesInOrder DEF Over
<1>2. D!RuntimesAccounted
  <2> SUFFICES ASSUME command = "done", NEW r \in D!Runtimes, Calm(r) PROVE Truthful(r)
    BY DEF D!RuntimesAccounted, Truthful, Calm
  <2> QED BY <1>1 DEF ContainersInv, Settled
<1>3. D!RowsSurvive
  BY DEF ContainersInv, Survives, Whole, D!RowsSurvive
<1> QED BY <1>2, <1>3 DEF ContainersInv, Named, D!MeasuredIsNamed

-----------------------------------------------------------------------------
(* The steps of an inventory *)

LEMMA UnderWay ==
  ASSUME ContainersInv, command # "done"
  PROVE  /\ queried \in Nat /\ queried + 1 \in 1..Len(RuntimeOrder) /\ D!R = RuntimeOrder[queried + 1]
         /\ D!R \in D!Runtimes /\ D!R \notin Over /\ Over \subseteq D!Runtimes
<1>1. queried \in 0..Len(RuntimeOrder) /\ queried # Len(RuntimeOrder) /\ Len(RuntimeOrder) \in Nat
  BY RuntimesInOrder DEF ContainersInv, ContainersTypes, Stage
<1>2. queried \in Nat /\ queried + 1 \in 1..Len(RuntimeOrder)
  BY ONLY <1>1
<1>3. \A i \in 1..queried : i \in 1..Len(RuntimeOrder) /\ i # queried + 1
  BY ONLY <1>1
<1> QED BY <1>2, <1>3, RuntimesInOrder DEF D!R, Over

LEMMA OverIsKnown == ASSUME ContainersInv PROVE Over \subseteq D!Runtimes
<1>1. \A i \in 1..queried : i \in 1..Len(RuntimeOrder)
  BY RuntimesInOrder DEF ContainersInv, ContainersTypes
<1> QED BY <1>1, RuntimesInOrder DEF Over

\* What was said of a runtime stays true as long as it and what was rows of it stay.
LEMMA AccountedStays ==
  ASSUME NEW r, Truthful(r), modes'[r] = modes[r], has'[r] = has[r], D!RowsOf(r)' = D!RowsOf(r),
         r \in told' <=> r \in told, up => up'
  PROVE  Truthful(r)'
<1>1. D!IdsOf(r)' = D!IdsOf(r)
  BY DEF D!IdsOf
<1> QED BY <1>1 DEF Truthful

\* A step that goes on with the same runtime.
LEMMA GoesOn ==
  ASSUME ContainersInv, command # "done", command' # "done", D!world' = D!world,
         UNCHANGED <<queried, listing>>, command' \in Asking,
         batch' \subseteq AllRows, first' \subseteq Identities,
         odd \subseteq odd', odd' \subseteq odd \cup {D!R}, up' \in BOOLEAN, up => up',
         told' = told \/ (command' = "stats" /\ told' = told \cup {D!R}),
         command = "stats" => told' = told /\ command' = "stats",
         command' \in {"before", "measure", "after"} => D!R = "libvirt",
         command' \in {"probe", "list", "inspect", "stats"} => D!R # "libvirt",
         command' \in {"inspect", "stats"} => D!R \in Inspectable,
         command' \in {"inspect", "stats", "after"} => \A row \in batch' : row.runtime = D!R,
         Current', Survives', Named'
  PROVE  ContainersInv'
<1> DEFINE r == D!R
<1>1. D!R' = r /\ Over' = Over /\ r \in D!Runtimes /\ r \notin Over /\ Over \subseteq D!Runtimes
  BY UnderWay DEF D!R, Over
<1>2. /\ UNCHANGED <<modes, has, stopped, moved, borne, back>>
      /\ told \subseteq told' /\ told' \subseteq told \cup {r}
  BY DEF D!world
<1>3. ContainersTypes'
  <2>1. told' \subseteq D!Runtimes /\ odd' \subseteq D!Runtimes
    BY <1>1, <1>2 DEF ContainersInv, ContainersTypes
  <2> QED BY <1>2, <2>1 DEF ContainersInv, ContainersTypes
<1>4. Stage'
  BY <1>1, <1>2 DEF ContainersInv, Stage
<1>5. Said'
  <2>1. \A row \in listing' : row.runtime \in Over'
    BY <1>1 DEF ContainersInv, Said
  <2>2. \A x \in told' : x \in Over' \/ (command' = "stats" /\ x = r)
    BY <1>1 DEF ContainersInv, Said
  <2> QED BY <1>1, <2>1, <2>2 DEF Said
<1>6. Settled'
  <2> SUFFICES ASSUME NEW x \in Over, Calm(x)' PROVE Truthful(x)'
    BY <1>1 DEF Settled
  <2>1. Calm(x) /\ Truthful(x)
    BY <1>2 DEF ContainersInv, Settled, Calm
  <2>2. D!RowsOf(x)' = D!RowsOf(x)
    BY DEF D!RowsOf
  <2>3. x \in told' <=> x \in told
    BY <1>1, <1>2
  <2> QED BY <1>2, <2>1, <2>2, <2>3, AccountedStays
<1> QED BY <1>3, <1>4, <1>5, <1>6 DEF ContainersInv

\* What is said of a runtime when it is finished with these rows.
Tells(rows) ==
  /\ modes[D!R] = "live" =>
       /\ {row.id : row \in rows} = has[D!R] /\ D!R \notin told' /\ up'
       /\ D!R \in Inspectable => \A row \in rows : Whole(row)
  /\ modes[D!R] # "live" => rows = {}
  /\ modes[D!R] = "refuses" => D!R \in told'
  /\ modes[D!R] \in {"absent"} \cup (IF D!R = "libvirt" THEN {} ELSE {"down"}) => D!R \notin told'

\* A step that finishes the runtime.
LEMMA Finishes ==
  ASSUME ContainersInv, command # "done", D!world' = D!world,
         NEW rows \in SUBSET AllRows, D!Finish(rows), \A row \in rows : row.runtime = D!R,
         odd \subseteq odd', odd' \subseteq odd \cup {D!R}, up' \in BOOLEAN, up => up',
         told' = told \/ told' = told \cup {D!R},
         D!R \notin moved \cup odd' => Tells(rows),
         \A row \in rows : D!R \in Inspectable => Whole(row) \/ D!R \in told',
         \A row \in rows : row.id = row.of \/ back
  PROVE  ContainersInv'
<1> DEFINE Full == Len(RuntimeOrder)
<1>r. PICK r : r = D!R
  OBVIOUS
<1>1. /\ queried' = queried + 1 /\ batch' = {} /\ first' = {} /\ listing' = listing \cup rows
      /\ command' = IF queried + 1 = Full THEN "done" ELSE D!FirstStep(RuntimeOrder[queried + 2])
      /\ UNCHANGED <<modes, has, stopped, moved, borne, back>>
  BY DEF D!Finish, D!NextRuntime, D!world
<1>2. /\ r = RuntimeOrder[queried + 1] /\ r \in D!Runtimes /\ r \notin Over /\ Over \subseteq D!Runtimes
      /\ queried \in Nat /\ queried + 1 \in 1..Full /\ Full \in Nat
  BY <1>r, UnderWay, RuntimesInOrder
<1>3. Over' = Over \cup {r}
  <2>1. 1..queried + 1 = (1..queried) \cup {queried + 1}
    BY ONLY <1>2
  <2> QED BY <1>1, <1>2, <2>1 DEF Over
<1>4. queried' # Full => /\ queried + 2 \in 1..Full /\ D!R' = RuntimeOrder[queried + 2]
                      /\ RuntimeOrder[queried + 2] \in D!Runtimes
  <2>1. queried + 1 # Full => queried + 2 \in 1..Full
    BY ONLY <1>2
  <2>2. (queried + 1) + 1 = queried + 2
    BY ONLY <1>2
  <2> QED BY <1>1, <2>1, <2>2, RuntimesInOrder DEF D!R
<1> HIDE DEF Full
<1>5. command' \in {"probe", "before", "done"} /\ (command' = "done" <=> queried' = Full)
  BY <1>1 DEF D!FirstStep
<1>6. ContainersTypes'
  <2>1. queried' \in 0..Full
    BY ONLY <1>1, <1>2
  <2>2. told' \subseteq D!Runtimes /\ odd' \subseteq D!Runtimes /\ listing' \subseteq AllRows
    BY <1>r, <1>1, <1>2 DEF ContainersInv, ContainersTypes
  <2>3. command' \in Asking
    BY <1>5 DEF Asking
  <2> QED BY <1>1, <2>1, <2>2, <2>3 DEF ContainersInv, ContainersTypes, Full
<1>7. Stage'
  <2>1. command' = "before" => D!R' = "libvirt"
    BY <1>1, <1>4, <1>5 DEF D!FirstStep
  <2>2. command' = "probe" => D!R' # "libvirt"
    BY <1>1, <1>4, <1>5 DEF D!FirstStep
  <2>3. \A a, b \in has'["libvirt"] : "libvirt" \in D!Runtimes => a = b
    BY <1>1 DEF ContainersInv, Stage
  <2> QED BY <1>5, <2>1, <2>2, <2>3 DEF Stage, Full
<1>8. Said'
  <2>1. \A row \in listing' : row.runtime \in Over'
    BY <1>r, <1>1, <1>3 DEF ContainersInv, Said
  <2>2. \A x \in told' : x \in Over'
    BY <1>r, <1>3 DEF ContainersInv, Said
  <2> QED BY <2>1, <2>2 DEF Said
<1>9. Current'
  BY <1>5 DEF Current
<1>10. Settled'
  <2> SUFFICES ASSUME NEW x \in Over \cup {r}, Calm(x)' PROVE Truthful(x)'
    BY <1>3 DEF Settled
  <2>1. CASE x \in Over
    <3>1. Calm(x) /\ Truthful(x) /\ x # r
      BY <1>1, <1>2, <2>1 DEF ContainersInv, Settled, Calm
    <3>2. D!RowsOf(x)' = D!RowsOf(x)
      BY <1>r, <1>1, <3>1 DEF D!RowsOf
    <3>3. x \in told' <=> x \in told
      BY <1>r, <3>1
    <3> QED BY <1>1, <3>1, <3>2, <3>3, AccountedStays
  <2>2. CASE x = r
    <3>1. D!RowsOf(r)' = rows
      BY <1>r, <1>1, <1>2 DEF ContainersInv, Said, D!RowsOf
    <3>2. D!IdsOf(r)' = {row.id : row \in rows}
      BY <3>1 DEF D!IdsOf
    <3>3. Tells(rows)
      BY <1>r, <1>1, <2>2 DEF Calm
    <3> QED BY <1>r, <1>1, <2>2, <3>1, <3>2, <3>3 DEF Truthful, Tells, Whole
  <2> QED BY <2>1, <2>2
<1>11. Survives'
  <2>1. \A row \in listing' : row.runtime \in Inspectable => Whole(row) \/ row.runtime \in told'
    BY <1>1 DEF ContainersInv, Survives
  <2> QED BY <1>5, <2>1 DEF Survives
<1>12. Named'
  <2>1. \A row \in listing' : row.id = row.of \/ back'
    BY <1>1 DEF ContainersInv, Named
  <2> QED BY <1>1, <1>5, <2>1 DEF Named
<1> QED BY <1>6, <1>7, <1>8, <1>9, <1>10, <1>11, <1>12 DEF ContainersInv

\* Nothing has been said of the runtime that is asked before its containers are inspected, and
\* one that answers was live.
LEMMA Replied ==
  ASSUME ContainersInv, command # "done"
  PROVE  /\ command # "stats" => D!R \notin told
         /\ modes[D!R] \in Modes
         /\ \A reply \in D!Replies :
              /\ reply = "ok" => modes[D!R] = "live"
              /\ reply # "ok" /\ reply # "odd" => reply = modes[D!R] /\ modes[D!R] # "live"
<1>1. D!R \notin Over /\ D!R \in D!Runtimes
  BY UnderWay
<1>2. command # "stats" => D!R \notin told
  BY <1>1 DEF ContainersInv, Said
<1>3. modes[D!R] \in Modes
  BY <1>1 DEF ContainersInv, ContainersTypes
<1>4. ASSUME NEW reply \in D!Replies
      PROVE  /\ reply = "ok" => modes[D!R] = "live"
             /\ reply # "ok" /\ reply # "odd" => reply = modes[D!R] /\ modes[D!R] # "live"
  BY <1>3 DEF D!Replies, Modes
<1> QED BY <1>2, <1>3, <1>4

LEMMA OddKept ==
  ASSUME NEW reply, D!NoteOdd(reply)
  PROVE  /\ odd \subseteq odd' /\ odd' \subseteq odd \cup {D!R}
         /\ reply = "odd" => D!R \in odd'
BY DEF D!NoteOdd

\* The rows of what the runtime has.
LEMMA RowsOfIds ==
  ASSUME ContainersInv, command # "done"
  PROVE  LET rows == {D!Row(id) : id \in has[D!R]}
         IN  /\ rows \in SUBSET AllRows /\ {row.id : row \in rows} = has[D!R]
             /\ \A row \in rows : /\ row.runtime = D!R /\ row.id = row.of /\ row.id \in has[D!R]
                                  /\ ~row.usage
<1> DEFINE rows == {D!Row(id) : id \in has[D!R]}
<1>1. D!R \in D!Runtimes /\ has[D!R] \subseteq Identities
  BY UnderWay DEF ContainersInv, ContainersTypes
<1>2. ASSUME NEW id \in has[D!R]
      PROVE  /\ D!Row(id) \in AllRows /\ D!Row(id).id = id /\ D!Row(id).of = id
             /\ D!Row(id).runtime = D!R /\ ~D!Row(id).usage
  BY <1>1 DEF D!Row, AllRows
<1>3. {row.id : row \in rows} = has[D!R]
  BY <1>2
<1> QED BY <1>2, <1>3

LEMMA SkipStep == ASSUME ContainersInv, D!SkipAbsent PROVE ContainersInv'
<1>1. /\ command \in {"probe", "before"} /\ modes[D!R] = "absent" /\ D!Finish({})
      /\ UNCHANGED <<told, up, odd>> /\ D!world' = D!world
  BY DEF D!SkipAbsent, D!world
<1>2. D!R \notin told /\ up \in BOOLEAN
  BY <1>1, Replied DEF ContainersInv, ContainersTypes
<1>3. Tells({})
  BY <1>1, <1>2 DEF Tells
<1> QED BY <1>1, <1>2, <1>3, Finishes

LEMMA ProbeStep == ASSUME ContainersInv, D!Probe PROVE ContainersInv'
<1>1. /\ command = "probe" /\ modes[D!R] # "absent" /\ D!world' = D!world /\ D!R \notin told
      /\ up \in BOOLEAN
  BY Replied DEF D!Probe, D!Ask, D!world, ContainersInv, ContainersTypes
<1>2. PICK reply \in D!Replies :
        /\ D!NoteOdd(reply)
        /\ IF D!Classify(reply) = "ok"
           THEN /\ up' = TRUE /\ command' = "list"
                /\ UNCHANGED <<queried, batch, first, listing, told>>
           ELSE /\ IF D!Classify(reply) = "permission" THEN D!Warn ELSE UNCHANGED told
                /\ D!Finish({}) /\ UNCHANGED up
  BY DEF D!Probe
<1>3. /\ reply = "ok" => modes[D!R] = "live"
      /\ reply # "ok" /\ reply # "odd" => reply = modes[D!R] /\ modes[D!R] # "live"
      /\ reply = "odd" => D!R \in odd'
      /\ odd \subseteq odd' /\ odd' \subseteq odd \cup {D!R}
  BY <1>1, <1>2, Replied, OddKept
<1>4. CASE reply = "ok"
  <2>1. /\ up' = TRUE /\ command' = "list" /\ UNCHANGED <<queried, batch, first, listing, told>>
    BY <1>2, <1>4 DEF D!Classify
  <2>2. modes' = modes /\ has' = has /\ D!R' = D!R /\ D!R # "libvirt"
    BY <1>1, <2>1 DEF D!world, D!R, ContainersInv, Stage
  <2>3. Current'
    BY <1>3, <1>4, <2>1, <2>2 DEF Current
  <2>4. Survives'
    BY <2>1, <2>2 DEF ContainersInv, Survives, Whole
  <2>5. Named'
    BY <1>1, <2>1, <2>2 DEF ContainersInv, Named, D!world
  <2>6. batch' \subseteq AllRows /\ first' \subseteq Identities /\ command' \in Asking
    BY <2>1 DEF ContainersInv, ContainersTypes, Asking
  <2> QED BY <1>1, <1>3, <2>1, <2>2, <2>3, <2>4, <2>5, <2>6, GoesOn
<1>5. CASE reply # "ok"
  <2>1. /\ D!Classify(reply) = IF reply = "refuses" THEN "permission" ELSE "not live"
        /\ IF reply = "refuses" THEN told' = told \cup {D!R} ELSE told' = told
        /\ D!Finish({}) /\ up' = up
    BY <1>2, <1>5 DEF D!Classify, D!Warn
  <2>2. D!R \notin moved \cup odd' => Tells({})
    BY <1>1, <1>3, <1>5, <2>1 DEF Tells
  <2> QED BY <1>1, <1>3, <2>1, <2>2, Finishes
<1> QED BY <1>4, <1>5

LEMMA ListStep == ASSUME ContainersInv, D!List PROVE ContainersInv'
<1> DEFINE rows == {D!Row(id) : id \in has[D!R]}
<1>1. /\ command = "list" /\ D!world' = D!world /\ D!R \notin told /\ D!R # "libvirt"
      /\ up \in BOOLEAN /\ up' = up
      /\ Calm(D!R) => modes[D!R] = "live" /\ up
  BY Replied DEF D!List, D!Ask, D!world, ContainersInv, ContainersTypes, Stage, Current
<1>2. PICK reply \in D!Replies :
        /\ D!NoteOdd(reply)
        /\ IF reply # "ok" THEN D!Warn /\ D!Finish({})
           ELSE /\ IF D!R \in Inspectable /\ rows # {}
                   THEN command' = "inspect" /\ batch' = rows /\ UNCHANGED <<queried, first, listing>>
                   ELSE D!Finish(rows)
                /\ UNCHANGED told
  BY DEF D!List
<1>3. /\ reply = "ok" => modes[D!R] = "live"
      /\ reply # "ok" /\ reply # "odd" => reply = modes[D!R] /\ modes[D!R] # "live"
      /\ reply = "odd" => D!R \in odd'
      /\ odd \subseteq odd' /\ odd' \subseteq odd \cup {D!R}
  BY <1>1, <1>2, Replied, OddKept
<1>4. /\ rows \in SUBSET AllRows /\ {row.id : row \in rows} = has[D!R]
      /\ \A row \in rows : row.runtime = D!R /\ row.id = row.of /\ ~row.usage
  BY <1>1, RowsOfIds
<1> HIDE DEF rows
<1>5. D!R \notin moved \cup odd' => Calm(D!R)
  BY <1>3 DEF Calm
<1>6. CASE reply # "ok"
  <2>1. told' = told \cup {D!R} /\ D!Finish({})
    BY <1>2, <1>6 DEF D!Warn
  <2>2. D!R \in moved \cup odd'
    BY <1>1, <1>3, <1>5, <1>6
  <2> QED BY <1>1, <1>3, <2>1, <2>2, Finishes
<1>7. CASE reply = "ok" /\ D!R \in Inspectable /\ rows # {}
  <2>1. /\ command' = "inspect" /\ batch' = rows /\ UNCHANGED <<queried, first, listing, told>>
    BY <1>2, <1>7
  <2>2. modes' = modes /\ has' = has /\ moved' = moved /\ borne' = borne /\ back' = back /\ D!R' = D!R
    BY <1>1, <2>1 DEF D!world, D!R
  <2>3. Current'
    BY <1>1, <1>4, <1>5, <2>1, <2>2 DEF Current, Calm
  <2>4. Survives'
    BY <1>4, <2>1, <2>2 DEF ContainersInv, Survives, Whole
  <2>5. Named'
    BY <1>4, <2>1, <2>2 DEF ContainersInv, Named
  <2>6. first' \subseteq Identities /\ command' \in Asking
    BY <2>1 DEF ContainersInv, ContainersTypes, Asking
  <2> QED BY <1>1, <1>3, <1>4, <1>7, <2>1, <2>2, <2>3, <2>4, <2>5, <2>6, GoesOn
<1>8. CASE reply = "ok" /\ ~(D!R \in Inspectable /\ rows # {})
  <2>1. D!Finish(rows) /\ told' = told
    BY <1>2, <1>8
  <2>2. D!R \in Inspectable => rows = {}
    BY <1>8
  <2>3. D!R \notin moved \cup odd' => Tells(rows)
    BY <1>1, <1>3, <1>4, <1>5, <1>8, <2>1, <2>2 DEF Tells
  <2> QED BY <1>1, <1>3, <1>4, <2>1, <2>2, <2>3, Finishes
<1> QED BY <1>6, <1>7, <1>8

Detailed(row) == [row EXCEPT !.limits = TRUE]
Used(row) == [row EXCEPT !.usage = row.runs]

LEMMA DetailsOnly ==
  ASSUME NEW row \in AllRows
  PROVE  /\ Detailed(row) \in AllRows /\ Detailed(row).limits
         /\ Detailed(row).id = row.id /\ Detailed(row).of = row.of
         /\ Detailed(row).runtime = row.runtime /\ Detailed(row).usage = row.usage
         /\ Used(row) \in AllRows /\ Used(row).usage = Used(row).runs
         /\ Used(row).id = row.id /\ Used(row).of = row.of
         /\ Used(row).runtime = row.runtime /\ Used(row).limits = row.limits
BY DEF Detailed, Used, AllRows

LEMMA InspectStep == ASSUME ContainersInv, D!Inspect PROVE ContainersInv'
<1>1. /\ command = "inspect" /\ D!world' = D!world /\ D!R \notin told /\ D!R # "libvirt"
      /\ D!R \in Inspectable /\ up \in BOOLEAN /\ up' = up
      /\ batch \subseteq AllRows
      /\ \A row \in batch : row.runtime = D!R /\ row.id = row.of /\ ~row.usage
      /\ Calm(D!R) => modes[D!R] = "live" /\ up /\ {row.id : row \in batch} = has[D!R]
  BY Replied DEF D!Inspect, D!world, ContainersInv, ContainersTypes, Stage, Current, Survives, Named
<1>2. PICK reply \in D!Details(batch) :
        /\ D!NoteOdd(reply)
        /\ IF reply = "ok" THEN UNCHANGED told ELSE D!Warn
        /\ IF \E row \in D!Inspected(batch, reply) : row.runs
           THEN /\ command' = "stats" /\ batch' = D!Inspected(batch, reply)
                /\ UNCHANGED <<queried, first, listing>>
           ELSE D!Finish(D!Inspected(batch, reply))
  BY DEF D!Inspect
<1> DEFINE rows == D!Inspected(batch, reply)
<1>3. /\ reply = "ok" => modes[D!R] = "live"
      /\ reply # "ok" /\ reply # "odd" => reply = modes[D!R] /\ modes[D!R] # "live"
      /\ reply = "odd" => D!R \in odd'
      /\ odd \subseteq odd' /\ odd' \subseteq odd \cup {D!R}
  <2>1. reply \in D!Replies
    BY DEF D!Details
  <2> QED BY <1>1, <1>2, <2>1, Replied, OddKept
<1>4. D!R \notin moved \cup odd' => Calm(D!R) /\ reply = "ok"
  BY <1>1, <1>3 DEF Calm
<1>5. /\ rows \in SUBSET AllRows /\ {row.id : row \in rows} = {row.id : row \in batch}
      /\ \A row \in rows : /\ row.runtime = D!R /\ row.id = row.of /\ ~row.usage
                           /\ reply = "ok" => row.limits
  <2>1. CASE reply = "ok"
    <3>1. rows = {Detailed(row) : row \in batch}
      BY <2>1 DEF D!Inspected, Detailed
    <3>2. \A row \in batch : row \in AllRows
      BY <1>1
    <3>3. {row.id : row \in rows} = {row.id : row \in batch}
      BY <3>1, <3>2, DetailsOnly
    <3>4. \A row \in rows : row \in AllRows /\ row.runtime = D!R /\ row.id = row.of /\ ~row.usage /\ row.limits
      BY <1>1, <3>1, <3>2, DetailsOnly
    <3> QED BY <3>3, <3>4
  <2>2. CASE reply # "ok"
    BY <1>1, <2>2 DEF D!Inspected
  <2> QED BY <2>1, <2>2
<1> HIDE DEF rows
<1>6. told' = (IF reply = "ok" THEN told ELSE told \cup {D!R})
  BY <1>2 DEF D!Warn
<1>7. CASE \E row \in rows : row.runs
  <2>1. command' = "stats" /\ batch' = rows /\ UNCHANGED <<queried, first, listing>>
    BY <1>2, <1>7 DEF rows
  <2>2. modes' = modes /\ has' = has /\ moved' = moved /\ borne' = borne /\ back' = back /\ D!R' = D!R
    BY <1>1, <2>1 DEF D!world, D!R
  <2>3. Current'
    BY <1>1, <1>4, <1>5, <1>6, <2>1, <2>2 DEF Current, Calm
  <2>4. Survives'
    <3>1. \A row \in listing' : row.runtime \in Inspectable => Whole(row) \/ row.runtime \in told'
      BY <1>6, <2>1 DEF ContainersInv, Survives
    <3>2. \A row \in batch' : ~row.usage /\ (row.limits \/ D!R \in told')
      BY <1>5, <1>6, <2>1
    <3> QED BY <2>2, <3>1, <3>2 DEF Survives
  <2>5. Named'
    BY <1>5, <2>1, <2>2 DEF ContainersInv, Named
  <2>6. first' \subseteq Identities /\ command' \in Asking
    BY <2>1 DEF ContainersInv, ContainersTypes, Asking
  <2> QED BY <1>1, <1>3, <1>5, <1>6, <2>1, <2>2, <2>3, <2>4, <2>5, <2>6, GoesOn
<1>8. CASE ~\E row \in rows : row.runs
  <2>1. D!Finish(rows)
    BY <1>2, <1>8 DEF rows
  <2>2. \A row \in rows : reply = "ok" => Whole(row)
    BY <1>5, <1>8 DEF Whole, AllRows
  <2>3. D!R \notin moved \cup odd' => Tells(rows)
    BY <1>1, <1>4, <1>5, <1>6, <2>2 DEF Tells
  <2>4. \A row \in rows : Whole(row) \/ D!R \in told'
    BY <1>6, <2>2
  <2> QED BY <1>1, <1>3, <1>5, <1>6, <2>1, <2>3, <2>4, Finishes
<1> QED BY <1>7, <1>8

LEMMA StatsStep == ASSUME ContainersInv, D!Stats PROVE ContainersInv'
<1>1. /\ command = "stats" /\ D!world' = D!world /\ up \in BOOLEAN /\ up' = up
      /\ batch \in SUBSET AllRows
      /\ \A row \in batch : /\ row.runtime = D!R /\ row.id = row.of /\ ~row.usage
                            /\ row.limits \/ D!R \in told
      /\ Calm(D!R) => /\ modes[D!R] = "live" /\ up /\ {row.id : row \in batch} = has[D!R]
                      /\ D!R \notin told /\ \A row \in batch : row.limits
  BY DEF D!Stats, D!world, ContainersInv, ContainersTypes, Stage, Current, Survives, Named
<1>2. PICK reply \in D!Details({r \in batch : r.runs}) :
        /\ D!NoteOdd(reply)
        /\ IF reply = "ok"
           THEN D!Finish({[r EXCEPT !.usage = r.runs] : r \in batch}) /\ UNCHANGED told
           ELSE D!Finish(batch) /\ D!Warn
  BY DEF D!Stats
<1> DEFINE rows == {[r EXCEPT !.usage = r.runs] : r \in batch}
<1>3. /\ reply = "ok" => modes[D!R] = "live"
      /\ reply # "ok" /\ reply # "odd" => reply = modes[D!R] /\ modes[D!R] # "live"
      /\ reply = "odd" => D!R \in odd'
      /\ odd \subseteq odd' /\ odd' \subseteq odd \cup {D!R}
  <2>1. reply \in D!Replies
    BY DEF D!Details
  <2> QED BY <1>1, <1>2, <2>1, Replied, OddKept
<1>4. D!R \notin moved \cup odd' => Calm(D!R) /\ reply = "ok"
  BY <1>1, <1>3 DEF Calm
<1>5. CASE reply = "ok"
  <2>1. D!Finish(rows) /\ told' = told
    BY <1>2, <1>5
  <2>2. rows = {Used(row) : row \in batch} /\ \A row \in batch : row \in AllRows
    BY <1>1 DEF Used
  <2> HIDE DEF rows
  <2>3. rows \in SUBSET AllRows /\ {row.id : row \in rows} = {row.id : row \in batch}
    BY <2>2, DetailsOnly
  <2>4. \A row \in rows : /\ row.runtime = D!R /\ row.id = row.of /\ row.usage = row.runs
                          /\ row.limits \/ D!R \in told
                          /\ Calm(D!R) => row.limits
    BY <1>1, <2>2, DetailsOnly
  <2>5. D!R \notin moved \cup odd' => Tells(rows)
    BY <1>1, <1>4, <2>1, <2>3, <2>4 DEF Tells, Whole
  <2>6. \A row \in rows : Whole(row) \/ D!R \in told'
    BY <2>1, <2>4 DEF Whole
  <2> QED BY <1>1, <1>3, <2>1, <2>3, <2>4, <2>5, <2>6, Finishes
<1>6. CASE reply # "ok"
  <2>1. D!Finish(batch) /\ told' = told \cup {D!R}
    BY <1>2, <1>6 DEF D!Warn
  <2> QED BY <1>1, <1>3, <1>4, <1>6, <2>1, Finishes
<1> QED BY <1>5, <1>6

LEMMA BeforeStep == ASSUME ContainersInv, D!Before PROVE ContainersInv'
<1>1. /\ command = "before" /\ D!world' = D!world /\ D!R \notin told /\ D!R = "libvirt"
      /\ modes[D!R] # "absent" /\ up \in BOOLEAN /\ up' = up /\ has[D!R] \subseteq Identities
      /\ \A a, b \in has[D!R] : a = b
  BY Replied, UnderWay DEF D!Before, D!Ask, D!world, ContainersInv, ContainersTypes, Stage
<1>2. PICK reply \in D!Replies :
        /\ D!NoteOdd(reply)
        /\ IF reply = "ok"
           THEN first' = has[D!R] /\ command' = "measure" /\ UNCHANGED <<queried, batch, listing, told>>
           ELSE D!Warn /\ D!Finish({})
  BY DEF D!Before
<1>3. /\ reply = "ok" => modes[D!R] = "live"
      /\ reply # "ok" /\ reply # "odd" => reply = modes[D!R] /\ modes[D!R] # "live"
      /\ reply = "odd" => D!R \in odd'
      /\ odd \subseteq odd' /\ odd' \subseteq odd \cup {D!R}
  BY <1>1, <1>2, Replied, OddKept
<1>4. CASE reply = "ok"
  <2>1. first' = has[D!R] /\ command' = "measure" /\ UNCHANGED <<queried, batch, listing, told>>
    BY <1>2, <1>4
  <2>2. modes' = modes /\ has' = has /\ moved' = moved /\ borne' = borne /\ back' = back /\ D!R' = D!R
    BY <1>1, <2>1 DEF D!world, D!R
  <2>3. Current'
    BY <1>3, <1>4, <2>1, <2>2 DEF Current
  <2>4. Survives'
    BY <2>1, <2>2 DEF ContainersInv, Survives
  <2>5. Named'
    BY <1>1, <2>1, <2>2 DEF ContainersInv, Named
  <2>6. batch' \subseteq AllRows /\ command' \in Asking
    BY <2>1 DEF ContainersInv, ContainersTypes, Asking
  <2> QED BY <1>1, <1>3, <2>1, <2>2, <2>3, <2>4, <2>5, <2>6, GoesOn
<1>5. CASE reply # "ok"
  <2>1. told' = told \cup {D!R} /\ D!Finish({})
    BY <1>2, <1>5 DEF D!Warn
  <2>2. D!R \notin moved \cup odd' => Tells({})
    BY <1>1, <1>3, <1>5, <2>1 DEF Tells
  <2> QED BY <1>1, <1>3, <2>1, <2>2, Finishes
<1> QED BY <1>4, <1>5

LEMMA MeasureStep == ASSUME ContainersInv, D!Measure PROVE ContainersInv'
<1> DEFINE rows == {D!Row(id) : id \in has[D!R]}
<1>1. /\ command = "measure" /\ D!world' = D!world /\ D!R = "libvirt" /\ D!R \in D!Runtimes
      /\ up \in BOOLEAN /\ up' = up
      /\ \A a, b \in has[D!R] : a = b
      /\ first \subseteq Identities /\ first \subseteq borne \cup has[D!R]
      /\ Calm(D!R) => modes[D!R] = "live" /\ first = has[D!R]
  BY UnderWay DEF D!Measure, D!world, ContainersInv, ContainersTypes, Stage, Current, Named
<1>2. PICK reply \in D!Replies :
        /\ D!NoteOdd(reply)
        /\ IF reply = "ok"
           THEN batch' = rows /\ command' = "after" /\ UNCHANGED <<queried, first, listing, told>>
           ELSE D!Warn /\ D!Finish({})
  BY DEF D!Measure
<1>3. /\ reply # "ok" /\ reply # "odd" => reply = modes[D!R] /\ modes[D!R] # "live"
      /\ reply = "odd" => D!R \in odd'
      /\ odd \subseteq odd' /\ odd' \subseteq odd \cup {D!R}
  BY <1>1, <1>2, Replied, OddKept
<1>4. D!R \notin moved \cup odd' => Calm(D!R) /\ reply = "ok"
  BY <1>1, <1>3 DEF Calm
<1>5. rows \in SUBSET AllRows /\ \A row \in rows : row.runtime = D!R /\ row.of \in has[D!R]
  BY <1>1, RowsOfIds
<1>6. CASE reply = "ok"
  <2>1. batch' = rows /\ command' = "after" /\ UNCHANGED <<queried, first, listing, told>>
    BY <1>2, <1>6
  <2>2. /\ modes' = modes /\ has' = has /\ moved' = moved /\ borne' = borne /\ back' = back
        /\ stopped' = stopped /\ D!R' = D!R
    BY <1>1, <2>1 DEF D!world, D!R
  <2>3. Current'
    <3>1. \A id : D!Row(id)' = D!Row(id)
      BY <2>2 DEF D!Row
    <3> QED BY <1>1, <1>4, <2>1, <2>2, <3>1 DEF Current, Calm
  <2> HIDE DEF rows
  <2>4. Survives'
    BY <2>1, <2>2 DEF ContainersInv, Survives
  <2>5. Named'
    BY <1>1, <1>5, <2>1, <2>2 DEF ContainersInv, Named
  <2>6. first' \subseteq Identities /\ command' \in Asking
    BY <2>1 DEF ContainersInv, ContainersTypes, Asking
  <2> QED BY <1>1, <1>3, <1>5, <2>1, <2>2, <2>3, <2>4, <2>5, <2>6, GoesOn
<1>7. CASE reply # "ok"
  <2>1. told' = told \cup {D!R} /\ D!Finish({})
    BY <1>2, <1>7 DEF D!Warn
  <2> QED BY <1>1, <1>3, <1>4, <1>7, <2>1, Finishes
<1> QED BY <1>6, <1>7

\* Both readings of the UUID agree: the row has it, and there is one for the machine.
LEMMA Joins ==
  ASSUME NEW measured, NEW ids, \A a, b \in ids : a = b, \A row \in measured : row \in AllRows
  PROVE  LET rows == D!JoinIdentities(measured, ids, ids)
         IN  /\ rows \in SUBSET [runtime : D!Runtimes, id : ids, of : Identities, runs : BOOLEAN,
                                 limits : BOOLEAN, usage : BOOLEAN]
             /\ \A row \in rows : \E m \in measured : row.runtime = m.runtime /\ row.of = m.of
             /\ measured = {D!Row(id) : id \in ids} => rows = measured
<1> DEFINE rows == D!JoinIdentities(measured, ids, ids)
           Chosen == CHOOSE id \in ids : TRUE
<1>1. rows = {[m EXCEPT !.id = Chosen] : m \in {x \in measured : ids # {}}}
  BY DEF D!JoinIdentities
<1>2. ids # {} => Chosen \in ids
  OBVIOUS
<1> HIDE DEF rows, Chosen
<1>3. ASSUME NEW m \in measured, ids # {}
      PROVE  /\ [m EXCEPT !.id = Chosen] \in [runtime : D!Runtimes, id : ids, of : Identities,
                                              runs : BOOLEAN, limits : BOOLEAN, usage : BOOLEAN]
             /\ [m EXCEPT !.id = Chosen].runtime = m.runtime /\ [m EXCEPT !.id = Chosen].of = m.of
             /\ m.id \in ids => [m EXCEPT !.id = Chosen] = m
  <2>1. m \in AllRows /\ Chosen \in ids
    BY <1>2, <1>3
  <2>2. m.id \in ids => m.id = Chosen
    BY <2>1
  <2> QED BY <2>1, <2>2 DEF AllRows
<1>4. ASSUME NEW row \in rows
      PROVE  \E m \in measured : ids # {} /\ row = [m EXCEPT !.id = Chosen]
  BY <1>1
<1>5. rows \in SUBSET [runtime : D!Runtimes, id : ids, of : Identities, runs : BOOLEAN,
                       limits : BOOLEAN, usage : BOOLEAN]
  BY <1>3, <1>4
<1>6. \A row \in rows : \E m \in measured : row.runtime = m.runtime /\ row.of = m.of
  BY <1>3, <1>4
<1>7. ASSUME measured = {D!Row(id) : id \in ids} PROVE rows = measured
  <2>1. ASSUME NEW m \in measured PROVE m.id \in ids /\ ids # {}
    <3>1. PICK id \in ids : m = D!Row(id)
      BY <1>7
    <3> QED BY <3>1 DEF D!Row
  <2>2. ASSUME NEW m \in measured PROVE m \in rows
    <3>1. [m EXCEPT !.id = Chosen] \in rows
      BY <1>1, <2>1
    <3> QED BY <1>3, <2>1, <3>1
  <2>3. ASSUME NEW row \in rows PROVE row \in measured
    BY <1>3, <1>4, <2>1
  <2> QED BY <2>2, <2>3
<1> QED BY <1>5, <1>6, <1>7 DEF rows

LEMMA AfterStep == ASSUME ContainersInv, D!After PROVE ContainersInv'
<1>1. /\ command = "after" /\ D!world' = D!world /\ D!R = "libvirt" /\ D!R \in D!Runtimes
      /\ D!R \notin Inspectable /\ up \in BOOLEAN /\ D!R \notin told
      /\ batch \subseteq AllRows /\ first \subseteq Identities
      /\ \A row \in batch : row.runtime = D!R
      /\ \A row \in batch, f \in first : row.of = f \/ back \/ (f \in borne /\ f \notin has[D!R])
      /\ \A a, b \in has[D!R] : a = b
      /\ Calm(D!R) => modes[D!R] = "live" /\ first = has[D!R] /\ batch = {D!Row(id) : id \in has[D!R]}
  BY UnderWay, RuntimesInOrder, Replied DEF D!After, D!world, ContainersInv, ContainersTypes, Stage, Current, Named
<1> DEFINE rows == D!JoinIdentities(batch, first, has[D!R])
<1>2. PICK reply \in D!Replies :
        /\ D!NoteOdd(reply)
        /\ IF reply = "ok"
           THEN /\ up' = TRUE /\ D!Finish(rows)
                /\ IF D!Cardinality(rows) = D!Cardinality(batch) THEN UNCHANGED told ELSE D!Warn
           ELSE D!Warn /\ D!Finish({}) /\ UNCHANGED up
  BY DEF D!After
<1>3. /\ reply # "ok" /\ reply # "odd" => reply = modes[D!R] /\ modes[D!R] # "live"
      /\ reply = "odd" => D!R \in odd'
      /\ odd \subseteq odd' /\ odd' \subseteq odd \cup {D!R}
  BY <1>1, <1>2, Replied, OddKept
<1>4. D!R \notin moved \cup odd' => Calm(D!R) /\ reply = "ok"
  BY <1>1, <1>3 DEF Calm
<1>5. CASE reply = "ok"
  <2>1. /\ up' = TRUE /\ D!Finish(rows)
        /\ told' = told \/ told' = told \cup {D!R}
        /\ D!Cardinality(rows) = D!Cardinality(batch) => told' = told
    BY <1>2, <1>5 DEF D!Warn
  <2> HIDE DEF rows
  <2>2. /\ rows \in SUBSET AllRows /\ \A row \in rows : row.runtime = D!R /\ (row.id = row.of \/ back)
        /\ \A row \in rows : row.runtime = D!R
        /\ first = has[D!R] /\ batch = {D!Row(id) : id \in first} => rows = batch
    <3>1. CASE first = has[D!R]
      <4>1. /\ rows \in SUBSET [runtime : D!Runtimes, id : first, of : Identities, runs : BOOLEAN,
                                limits : BOOLEAN, usage : BOOLEAN]
            /\ \A row \in rows : \E m \in batch : row.runtime = m.runtime /\ row.of = m.of
            /\ batch = {D!Row(id) : id \in first} => rows = batch
        BY <1>1, <3>1, Joins DEF rows
      <4>2. ASSUME NEW row \in rows
            PROVE  row \in AllRows /\ row.runtime = D!R /\ (row.id = row.of \/ back)
        <5>1. PICK m \in batch : row.runtime = m.runtime /\ row.of = m.of
          BY <4>1
        <5>2. row.id \in first /\ row \in AllRows
          BY <1>1, <4>1 DEF AllRows
        <5> QED BY <1>1, <3>1, <5>1, <5>2
      <4> QED BY <4>1, <4>2
    <3>2. CASE first # has[D!R]
      <4>1. rows = {}
        BY <3>2 DEF rows, D!JoinIdentities
      <4> QED BY <3>2, <4>1
    <3> QED BY <3>1, <3>2
  <2>3. D!R \notin moved \cup odd' => Tells(rows)
    <3>1. ASSUME Calm(D!R) PROVE rows = batch /\ {row.id : row \in batch} = has[D!R] /\ told' = told
      BY <1>1, <2>1, <2>2, <3>1, RowsOfIds
    <3> QED BY <1>1, <1>4, <2>1, <3>1 DEF Tells
  <2> QED BY <1>1, <1>3, <2>1, <2>2, <2>3, Finishes
<1>6. CASE reply # "ok"
  <2>1. told' = told \cup {D!R} /\ D!Finish({}) /\ up' = up
    BY <1>2, <1>6 DEF D!Warn
  <2> QED BY <1>1, <1>3, <1>4, <1>6, <2>1, Finishes
<1> QED BY <1>5, <1>6

-----------------------------------------------------------------------------
(* What happens to the host meanwhile *)

LEMMA HostChanges ==
  ASSUME ContainersInv, NEW r \in D!Runtimes, D!Disturb(r), stopped' = stopped,
         modes' \in [D!Runtimes -> Modes], has' \in [D!Runtimes -> SUBSET Identities],
         \A x \in D!Runtimes \ {r} : modes'[x] = modes[x] /\ has'[x] = has[x],
         borne' \subseteq Identities, back' \in BOOLEAN,
         \A a, b \in has'["libvirt"] : "libvirt" \in D!Runtimes => a = b,
         Named'
  PROVE  ContainersInv'
<1>1. /\ UNCHANGED <<queried, command, batch, first, listing, told, up, odd>>
      /\ moved' = moved \cup {r} /\ command # "done"
  BY DEF D!Disturb, D!progress
<1>2. D!R' = D!R /\ Over' = Over /\ D!R \in D!Runtimes /\ Over \subseteq D!Runtimes
  BY <1>1, UnderWay DEF D!R, Over
<1>3. ContainersTypes'
  BY <1>1 DEF ContainersInv, ContainersTypes
<1>4. Stage' /\ Said'
  BY <1>1, <1>2 DEF ContainersInv, Stage, Said
<1>5. Current'
  <2> SUFFICES ASSUME Calm(D!R)' PROVE Current'
    BY DEF Current
  <2>1. Calm(D!R) /\ D!R # r
    BY <1>1, <1>2 DEF Calm
  <2>2. modes'[D!R] = modes[D!R] /\ has'[D!R] = has[D!R] /\ \A id : D!Row(id)' = D!Row(id)
    BY <1>2, <2>1 DEF D!Row
  <2> QED BY <1>1, <1>2, <2>1, <2>2 DEF ContainersInv, Current
<1>6. Settled'
  <2> SUFFICES ASSUME NEW x \in Over, Calm(x)' PROVE Truthful(x)'
    BY <1>2 DEF Settled
  <2>1. Calm(x) /\ Truthful(x) /\ x # r /\ x \in D!Runtimes
    BY <1>1, <1>2 DEF ContainersInv, Settled, Calm
  <2>2. D!RowsOf(x)' = D!RowsOf(x)
    BY <1>1 DEF D!RowsOf
  <2> QED BY <1>1, <2>1, <2>2, AccountedStays
<1>7. Survives'
  BY <1>1, <1>2 DEF ContainersInv, Survives
<1> QED BY <1>3, <1>4, <1>5, <1>6, <1>7 DEF ContainersInv

LEMMA DaemonStep == ASSUME ContainersInv, D!DaemonChanges PROVE ContainersInv'
<1>1. PICK r \in D!Runtimes, m \in {"live", "refuses", "down", "hangs"} :
        /\ D!Disturb(r) /\ modes' = [modes EXCEPT ![r] = m] /\ UNCHANGED <<has, stopped, borne, back>>
  BY DEF D!DaemonChanges
<1>2. /\ modes' \in [D!Runtimes -> Modes] /\ has' \in [D!Runtimes -> SUBSET Identities]
      /\ \A x \in D!Runtimes \ {r} : modes'[x] = modes[x] /\ has'[x] = has[x]
      /\ borne' \subseteq Identities /\ back' \in BOOLEAN
      /\ \A a, b \in has'["libvirt"] : "libvirt" \in D!Runtimes => a = b
  BY <1>1 DEF ContainersInv, ContainersTypes, Stage, Modes
<1>3. Named'
  BY <1>1 DEF ContainersInv, Named, D!Disturb, D!progress
<1> QED BY <1>1, <1>2, <1>3, HostChanges

LEMMA ContainerStep == ASSUME ContainersInv, D!ContainersChange PROVE ContainersInv'
<1>1. PICK r \in D!Runtimes \ {"libvirt"}, id \in Identities :
        /\ D!Disturb(r) /\ UNCHANGED <<modes, stopped, borne, back>>
        /\ has' = [has EXCEPT ![r] = IF id \in @ THEN @ \ {id} ELSE @ \cup {id}]
  BY DEF D!ContainersChange
<1>2. /\ modes' \in [D!Runtimes -> Modes] /\ has' \in [D!Runtimes -> SUBSET Identities]
      /\ \A x \in D!Runtimes \ {r} : modes'[x] = modes[x] /\ has'[x] = has[x]
      /\ borne' \subseteq Identities /\ back' \in BOOLEAN
  BY <1>1 DEF ContainersInv, ContainersTypes
<1>3. "libvirt" \in D!Runtimes => has'["libvirt"] = has["libvirt"]
  BY <1>1, <1>2
<1>4. /\ UNCHANGED <<command, listing, batch, first, queried>> /\ command # "done"
  BY <1>1 DEF D!Disturb, D!progress
<1>5. command \in {"measure", "after"} => "libvirt" \in D!Runtimes
  BY UnderWay, <1>4 DEF ContainersInv, Stage
<1>6. Named'
  BY <1>1, <1>3, <1>4, <1>5 DEF ContainersInv, Named
<1>7. \A a, b \in has'["libvirt"] : "libvirt" \in D!Runtimes => a = b
  BY <1>3 DEF ContainersInv, Stage
<1> QED BY <1>1, <1>2, <1>6, <1>7, HostChanges

LEMMA NameStep == ASSUME ContainersInv, D!NameChanges PROVE ContainersInv'
<1> DEFINE r == "libvirt"
<1>1. PICK new \in {{}} \cup {{id} : id \in Identities} :
        /\ r \in D!Runtimes /\ D!Disturb(r) /\ UNCHANGED <<modes, stopped>>
        /\ has' = [has EXCEPT ![r] = new]
        /\ borne' = borne \cup has[r] /\ back' = (back \/ new \cap borne # {})
  BY DEF D!NameChanges
<1>2. new \subseteq Identities /\ \A a, b \in new : a = b
  OBVIOUS
<1>3. /\ modes' \in [D!Runtimes -> Modes] /\ has' \in [D!Runtimes -> SUBSET Identities] /\ has'[r] = new
      /\ \A x \in D!Runtimes \ {r} : modes'[x] = modes[x] /\ has'[x] = has[x]
      /\ borne' \subseteq Identities /\ back' \in BOOLEAN
  BY <1>1, <1>2 DEF ContainersInv, ContainersTypes
<1>4. UNCHANGED <<command, listing, batch, first, queried>>
  BY <1>1 DEF D!Disturb, D!progress
<1>5. Named'
  BY <1>1, <1>3, <1>4 DEF ContainersInv, Named
<1> QED BY <1>1, <1>2, <1>3, <1>5, HostChanges

LEMMA ContainersInit == D!Init => ContainersInv
<1> SUFFICES ASSUME D!Init PROVE ContainersInv OBVIOUS
<1>1. /\ queried = 0 /\ command = D!FirstStep(RuntimeOrder[1]) /\ batch = {} /\ first = {}
      /\ listing = {} /\ told = {} /\ up = FALSE /\ moved = {} /\ odd = {} /\ borne = {} /\ back = FALSE
      /\ modes \in [D!Runtimes -> Modes] /\ has \in [D!Runtimes -> SUBSET Identities]
      /\ stopped \in [D!Runtimes -> SUBSET Identities]
      /\ "libvirt" \in D!Runtimes => \A a, b \in has["libvirt"] : a = b
  BY DEF D!Init, Modes
<1>2. D!R = RuntimeOrder[1] /\ command \in {"probe", "before"} /\ queried # Len(RuntimeOrder)
  BY <1>1, RuntimesInOrder DEF D!R, D!FirstStep
<1>3. queried \in 0..Len(RuntimeOrder)
  BY <1>1, RuntimesInOrder
<1>4. ContainersTypes
  BY <1>1, <1>2, <1>3 DEF ContainersTypes, Asking
<1>5. Stage
  BY <1>1, <1>2 DEF Stage, D!FirstStep
<1>6. Over = {}
  BY <1>1 DEF Over
<1>7. Said /\ Current /\ Settled /\ Survives /\ Named
  BY <1>1, <1>2, <1>6 DEF Said, Current, Settled, Survives, Named
<1> QED BY <1>4, <1>5, <1>7 DEF ContainersInv

LEMMA ContainersStep == ASSUME ContainersInv, D!Next PROVE ContainersInv'
BY SkipStep, ProbeStep, ListStep, InspectStep, StatsStep, BeforeStep, MeasureStep, AfterStep,
   DaemonStep, ContainerStep, NameStep DEF D!Next

-----------------------------------------------------------------------------
(***************************************************************************)
(* What is concluded from a host when sources fail.                        *)
(***************************************************************************)

RP == INSTANCE UplinkProofs WITH
  TTL <- 1, Skew <- 0, MaxRecords <- 1, MaxBytes <- 1, MaxBatch <- 1, MaxBatchBytes <- 0,
  Envelope <- 0, Report <- {}, Offset <- {0}, Horizon <- 0, now <- 0, off <- 0, stop <- 0,
  main <- 0, thread <- 0, inbox <- 0, rwall <- 0, queue <- 0, batch <- 0, answer <- 0,
  slow <- 0, halted <- 0, stored <- 0

Members(s) == {s[i] : i \in DOMAIN s}

\* A finite set as a sequence: each of its elements is there.
LEMMA SetListed ==
  ASSUME NEW X, NEW T \in SUBSET X, IsFiniteSet(T)
  PROVE  N!SetToSeq(T) \in Seq(X) /\ Members(N!SetToSeq(T)) = T
<1> DEFINE n == Cardinality(T)
           f == N!SetToSeq(T)
<1>1. n \in Nat /\ ExistsBijection(1..n, T)
  BY FS_CardinalityType
<1>2. PICK b : b \in Bijection(1..n, T)
  BY <1>1 DEF ExistsBijection
<1>3. N!Cardinality(T) = n
  BY DEF N!Cardinality, Cardinality, N!IsFiniteSet, IsFiniteSet
<1>4. b \in [1..n -> T] /\ N!IsInjective(b)
  BY <1>2 DEF Bijection, Injection, IsInjective, N!IsInjective
<1>5. f \in [1..n -> T] /\ N!IsInjective(f)
  BY <1>3, <1>4 DEF N!SetToSeq
<1> HIDE DEF f, n
<1>6. f \in Injection(1..n, T)
  BY <1>5 DEF Injection, IsInjective, N!IsInjective
<1>7. Cardinality(1..n) = n
  <2>1. n \in Nat
    BY <1>1
  <2> QED BY <2>1, FS_Interval
<1>8. f \in Surjection(1..n, T)
  BY <1>6, <1>7, FS_Injection DEF n
<1>9. Members(f) = T
  BY <1>5, <1>8 DEF Members, Surjection
<1>10. f \in Seq(X)
  BY <1>1, <1>5
<1> QED BY <1>9, <1>10 DEF f

LEMMA BothListed ==
  ASSUME NEW X, NEW s \in Seq(X), NEW t \in Seq(X)
  PROVE  s \o t \in Seq(X) /\ Members(s \o t) = Members(s) \cup Members(t)
<1> DEFINE c == s \o t
<1>1. /\ c \in Seq(X) /\ DOMAIN c = 1..(Len(s) + Len(t)) /\ DOMAIN s = 1..Len(s) /\ DOMAIN t = 1..Len(t)
      /\ Len(s) \in Nat /\ Len(t) \in Nat
      /\ \A i \in DOMAIN c : c[i] = IF i <= Len(s) THEN s[i] ELSE t[i - Len(s)]
  OBVIOUS
<1> HIDE DEF c
<1>2. ASSUME NEW i \in DOMAIN c PROVE c[i] \in Members(s) \cup Members(t)
  <2>1. CASE i <= Len(s)
    BY <1>1, <2>1 DEF Members
  <2>2. CASE ~(i <= Len(s))
    <3>1. i - Len(s) \in DOMAIN t
      BY <1>1, <2>2
    <3> QED BY <1>1, <2>2, <3>1 DEF Members
  <2> QED BY <2>1, <2>2
<1>3. ASSUME NEW i \in DOMAIN s PROVE s[i] \in Members(c)
  <2>1. i \in DOMAIN c /\ i <= Len(s)
    BY <1>1
  <2> QED BY <1>1, <2>1 DEF Members
<1>4. ASSUME NEW i \in DOMAIN t PROVE t[i] \in Members(c)
  <2>1. Len(s) + i \in DOMAIN c /\ ~(Len(s) + i <= Len(s)) /\ Len(s) + i - Len(s) = i
    BY <1>1
  <2>2. c[Len(s) + i] = t[i]
    BY <1>1, <2>1
  <2> QED BY <2>1, <2>2 DEF Members
<1>5. Members(c) = Members(s) \cup Members(t)
  BY <1>2, <1>3, <1>4 DEF Members
<1> QED BY <1>1, <1>5 DEF c

LEMMA KeptListed ==
  ASSUME NEW X, NEW s \in Seq(X), NEW T
  PROVE  N!Retain(s, T) \in Seq(X) /\ Members(N!Retain(s, T)) = Members(s) \cap T
<1>1. RP!RingAssumption /\ RP!UplinkAssumption
  BY DEF RP!RingAssumption, RP!UplinkAssumption
<1>2. N!Retain(s, T) = RP!Retain(s, T)
  BY DEF N!Retain, N!Retained, RP!Retain, RP!Retained
<1> DEFINE k == N!Retain(s, T)
<1>3. k \in Seq(X) /\ \E at : RP!Leaves(at, k, s, T, Len(s))
  BY <1>1, <1>2, RP!RetainPicks
<1> HIDE DEF k
<1>4. PICK at : RP!Leaves(at, k, s, T, Len(s))
  BY <1>3
<1>5. /\ \A i \in 1..Len(k) : at[i] \in 1..Len(s) /\ k[i] = s[at[i]] /\ k[i] \in T
      /\ \A j \in 1..Len(s) : s[j] \in T => \E i \in 1..Len(k) : k[i] = s[j]
      /\ DOMAIN k = 1..Len(k) /\ DOMAIN s = 1..Len(s)
  BY <1>3, <1>4 DEF RP!Leaves, RP!Picks
<1>6. Members(k) = Members(s) \cap T
  BY <1>5 DEF Members
<1> QED BY <1>3, <1>6 DEF k

-----------------------------------------------------------------------------
(* Each rule *)

\* Snapshots whose rows are finitely many.
Bounded(s) ==
  /\ IsFiniteSet(s.mounts) /\ IsFiniteSet(s.devices) /\ IsFiniteSet(s.interfaces)
  /\ IsFiniteSet(s.modems) /\ IsFiniteSet(s.sensors)

LEMMA FiniteImage ==
  ASSUME NEW T, IsFiniteSet(T), NEW U \in SUBSET T, NEW f
  PROVE  IsFiniteSet({f[x] : x \in U})
<1> DEFINE B == {f[x] : x \in U}
           g == [x \in U |-> f[x]]
<1>1. IsFiniteSet(U)
  BY FS_Subset
<1>2. g \in Surjection(U, B)
  BY DEF Surjection
<1> QED BY <1>1, <1>2, FS_Surjection

LEMMA FiniteRows ==
  ASSUME NEW s, Bounded(s)
  PROVE  /\ IsFiniteSet(N!OfDisks(s)) /\ IsFiniteSet(N!OfSpace(s)) /\ IsFiniteSet(N!OfInodes(s))
         /\ IsFiniteSet(N!OfInterfaces(s)) /\ IsFiniteSet(N!OfSensors(s))
<1>1. IsFiniteSet(N!OfDisks(s))
  <2> DEFINE U == {e \in s.devices : N!DiskSeverity(e) # N!None}
             f == [d \in s.devices |->
                     N!Finding("disk.health", d.name, N!DiskSeverity(d), {<<"device", d.name>>})]
  <2>1. N!OfDisks(s) = {f[d] : d \in U} /\ U \in SUBSET s.devices
    BY DEF N!OfDisks
  <2> HIDE DEF f, U
  <2>2. IsFiniteSet(s.devices)
    BY DEF Bounded
  <2> QED BY ONLY <2>1, <2>2, FiniteImage
<1>2. IsFiniteSet(N!OfSpace(s))
  <2> DEFINE U == {m \in N!Actionable(s) : m.used >= 90}
             f == [m \in s.mounts |->
                     N!Finding("disk", m.name, N!Above(m.used, 97),
                               {<<"mount", m.name>>, <<"filesystem", m.source>>})]
  <2>1. N!OfSpace(s) = {f[m] : m \in U} /\ U \in SUBSET s.mounts
    BY DEF N!OfSpace, N!Actionable
  <2> HIDE DEF f, U
  <2>2. IsFiniteSet(s.mounts)
    BY DEF Bounded
  <2> QED BY ONLY <2>1, <2>2, FiniteImage
<1>3. IsFiniteSet(N!OfInodes(s))
  <2> DEFINE U == {m \in N!Actionable(s) : m.inodes >= 90}
             f == [m \in s.mounts |->
                     N!Finding("disk.inodes", m.name, N!Above(m.inodes, 97), {<<"mount", m.name>>})]
  <2>1. N!OfInodes(s) = {f[m] : m \in U} /\ U \in SUBSET s.mounts
    BY DEF N!OfInodes, N!Actionable
  <2> HIDE DEF f, U
  <2>2. IsFiniteSet(s.mounts)
    BY DEF Bounded
  <2> QED BY ONLY <2>1, <2>2, FiniteImage
<1>4. IsFiniteSet(N!OfInterfaces(s))
  <2> DEFINE f == [i \in s.interfaces |->
                     N!Finding("net.interface-down", i.name, N!Attention, {<<"interface", i.name>>})]
  <2>1. N!OfInterfaces(s) = {f[i] : i \in N!Down(s)} /\ N!Down(s) \in SUBSET s.interfaces
    BY DEF N!OfInterfaces, N!Down
  <2> HIDE DEF f
  <2>2. IsFiniteSet(s.interfaces)
    BY DEF Bounded
  <2> QED BY ONLY <2>1, <2>2, FiniteImage
<1>5. IsFiniteSet(N!OfSensors(s))
  <2> DEFINE U == {t \in s.sensors : N!Hot(t)}
             f == [t \in s.sensors |->
                     N!Finding("hardware.temperature", t.name,
                               IF N!Burning(t) THEN N!Critical ELSE N!Attention, {N!ThisHost})]
  <2>1. N!OfSensors(s) = {f[t] : t \in U} /\ U \in SUBSET s.sensors
    BY DEF N!OfSensors
  <2> HIDE DEF f, U
  <2>2. IsFiniteSet(s.sensors)
    BY DEF Bounded
  <2> QED BY ONLY <2>1, <2>2, FiniteImage
<1> QED BY <1>1, <1>2, <1>3, <1>4, <1>5

LEMMA FiniteModems ==
  ASSUME NEW s, Bounded(s)
  PROVE  IsFiniteSet(N!OfModems(s))
<1> DEFINE U == {m \in s.modems : m.state = "failed"}
           V == {m \in s.modems : m.state \in {"registered", "connected"} /\ m.signal <= 15}
           f == [m \in s.modems |->
                   N!Finding("cellular.failed", m.name, N!Critical, {N!ThisHost})]
           g == [m \in s.modems |->
                   N!Finding("cellular.weak-signal", m.name, N!Attention, {N!ThisHost})]
<1>1. N!OfModems(s) = {f[m] : m \in U} \cup {g[m] : m \in V} /\ U \in SUBSET s.modems /\ V \in SUBSET s.modems
  BY DEF N!OfModems
<1> HIDE DEF U, V, f, g
<1>2. IsFiniteSet({f[m] : m \in U}) /\ IsFiniteSet({g[m] : m \in V})
  BY <1>1, FiniteImage DEF Bounded
<1> QED BY <1>1, <1>2, FS_Union

LEMMA FiniteRules ==
  ASSUME NEW s
  PROVE  /\ IsFiniteSet(N!OfCollection(s)) /\ IsFiniteSet(N!OfServices(s))
         /\ IsFiniteSet(N!OfRoutes(s)) /\ IsFiniteSet(N!OfListeners(s))
         /\ IsFiniteSet(N!OfLogs(s)) /\ IsFiniteSet(N!OfPi(s))
<1>1. \A c, f : IsFiniteSet(N!When(c, f))
  BY FS_EmptySet, FS_Singleton DEF N!When
<1>2. ASSUME NEW b, NEW c, NEW f, NEW g PROVE IsFiniteSet(N!When(b, f) \cup N!When(c, g))
  BY <1>1, FS_Union
<1>3. IsFiniteSet(N!OfCollection(s)) /\ IsFiniteSet(N!OfRoutes(s)) /\ IsFiniteSet(N!OfListeners(s))
  BY <1>1 DEF N!OfCollection, N!OfRoutes, N!OfListeners
<1>4. IsFiniteSet(N!OfServices(s)) /\ IsFiniteSet(N!OfLogs(s)) /\ IsFiniteSet(N!OfPi(s))
  BY <1>2 DEF N!OfServices, N!OfLogs, N!OfPi
<1> QED BY <1>3, <1>4

\* Every finding has one of the three severities by which they are sorted.
LEMMA Severe ==
  ASSUME NEW s, NEW f \in N!Found(s)
  PROVE  f.severity \in {N!Critical, N!Attention, N!Information}
<1>1. ASSUME f \in N!OfDisks(s) PROVE f.severity \in {N!Critical, N!Attention}
  <2>1. PICK d : f = N!Finding("disk.health", d.name, N!DiskSeverity(d), {<<"device", d.name>>})
                 /\ N!DiskSeverity(d) # N!None
    BY <1>1 DEF N!OfDisks
  <2>2. f.severity = N!DiskSeverity(d)
    BY <2>1 DEF N!Finding
  <2> QED BY <2>1, <2>2 DEF N!DiskSeverity
<1>2. ASSUME f \in N!OfCollection(s) \cup N!OfServices(s) \cup N!OfRoutes(s) \cup N!OfListeners(s)
                  \cup N!OfLogs(s)
      PROVE  f.severity \in {N!Critical, N!Attention, N!Information}
  BY <1>2 DEF N!OfCollection, N!OfServices, N!OfRoutes, N!OfListeners, N!OfLogs, N!When, N!Finding
<1>3. ASSUME f \in N!OfSpace(s) \cup N!OfInodes(s) PROVE f.severity \in {N!Critical, N!Attention}
  BY <1>3 DEF N!OfSpace, N!OfInodes, N!Above, N!Finding
<1>4. ASSUME f \in N!OfInterfaces(s) \cup N!OfModems(s) \cup N!OfSensors(s)
      PROVE  f.severity \in {N!Critical, N!Attention}
  BY <1>4 DEF N!OfInterfaces, N!OfModems, N!OfSensors, N!Finding
<1>5. ASSUME f \in N!OfPi(s) PROVE f.severity \in {N!Critical, N!Attention, N!Information}
  BY <1>5 DEF N!OfPi, N!When, N!Finding
<1> QED BY <1>1, <1>2, <1>3, <1>4, <1>5 DEF N!Found

LEMMA ListedWith ==
  ASSUME NEW X, NEW s \in Seq(X), NEW T \in SUBSET X, IsFiniteSet(T)
  PROVE  s \o N!SetToSeq(T) \in Seq(X) /\ Members(s \o N!SetToSeq(T)) = Members(s) \cup T
BY SetListed, BothListed

\* The sequence of the findings has each of them.
LEMMA AllListed ==
  ASSUME NEW s, Bounded(s)
  PROVE  N!Listed(s) \in Seq(N!Found(s)) /\ Members(N!Listed(s)) = N!Found(s)
<1> DEFINE X == N!Found(s)
           c1 == N!SetToSeq(N!OfDisks(s))
           c2 == c1 \o N!SetToSeq(N!OfCollection(s))
           c3 == c2 \o N!SetToSeq(N!OfServices(s))
           c4 == c3 \o N!SetToSeq(N!OfSpace(s))
           c5 == c4 \o N!SetToSeq(N!OfRoutes(s))
           c6 == c5 \o N!SetToSeq(N!OfInodes(s))
           c7 == c6 \o N!SetToSeq(N!OfInterfaces(s))
           c8 == c7 \o N!SetToSeq(N!OfListeners(s))
           c9 == c8 \o N!SetToSeq(N!OfLogs(s))
           c10 == c9 \o N!SetToSeq(N!OfModems(s))
           c11 == c10 \o N!SetToSeq(N!OfSensors(s))
           c12 == c11 \o N!SetToSeq(N!OfPi(s))
<1>0. /\ IsFiniteSet(N!OfDisks(s)) /\ N!OfDisks(s) \in SUBSET X
      /\ IsFiniteSet(N!OfCollection(s)) /\ N!OfCollection(s) \in SUBSET X
      /\ IsFiniteSet(N!OfServices(s)) /\ N!OfServices(s) \in SUBSET X
      /\ IsFiniteSet(N!OfSpace(s)) /\ N!OfSpace(s) \in SUBSET X
      /\ IsFiniteSet(N!OfRoutes(s)) /\ N!OfRoutes(s) \in SUBSET X
      /\ IsFiniteSet(N!OfInodes(s)) /\ N!OfInodes(s) \in SUBSET X
      /\ IsFiniteSet(N!OfInterfaces(s)) /\ N!OfInterfaces(s) \in SUBSET X
      /\ IsFiniteSet(N!OfListeners(s)) /\ N!OfListeners(s) \in SUBSET X
      /\ IsFiniteSet(N!OfLogs(s)) /\ N!OfLogs(s) \in SUBSET X
      /\ IsFiniteSet(N!OfModems(s)) /\ N!OfModems(s) \in SUBSET X
      /\ IsFiniteSet(N!OfSensors(s)) /\ N!OfSensors(s) \in SUBSET X
      /\ IsFiniteSet(N!OfPi(s)) /\ N!OfPi(s) \in SUBSET X
  BY FiniteRows, FiniteModems, FiniteRules DEF N!Found
<1>d. N!Listed(s) = c12
  BY DEF N!Listed
<1>x. X = N!OfDisks(s) \cup N!OfCollection(s) \cup N!OfServices(s) \cup N!OfSpace(s) \cup N!OfRoutes(s) \cup N!OfInodes(s)
          \cup N!OfInterfaces(s) \cup N!OfListeners(s) \cup N!OfLogs(s) \cup N!OfModems(s) \cup N!OfSensors(s) \cup N!OfPi(s)
  BY DEF N!Found
<1> HIDE DEF c1, c2, c3, c4, c5, c6, c7, c8, c9, c10, c11, c12, X
<1>1. c1 \in Seq(X) /\ Members(c1) = N!OfDisks(s)
  BY <1>0, SetListed DEF c1
<1>2. c2 \in Seq(X) /\ Members(c2) = Members(c1) \cup N!OfCollection(s)
  BY <1>0, <1>1, ListedWith DEF c2
<1>3. c3 \in Seq(X) /\ Members(c3) = Members(c2) \cup N!OfServices(s)
  BY <1>0, <1>2, ListedWith DEF c3
<1>4. c4 \in Seq(X) /\ Members(c4) = Members(c3) \cup N!OfSpace(s)
  BY <1>0, <1>3, ListedWith DEF c4
<1>5. c5 \in Seq(X) /\ Members(c5) = Members(c4) \cup N!OfRoutes(s)
  BY <1>0, <1>4, ListedWith DEF c5
<1>6. c6 \in Seq(X) /\ Members(c6) = Members(c5) \cup N!OfInodes(s)
  BY <1>0, <1>5, ListedWith DEF c6
<1>7. c7 \in Seq(X) /\ Members(c7) = Members(c6) \cup N!OfInterfaces(s)
  BY <1>0, <1>6, ListedWith DEF c7
<1>8. c8 \in Seq(X) /\ Members(c8) = Members(c7) \cup N!OfListeners(s)
  BY <1>0, <1>7, ListedWith DEF c8
<1>9. c9 \in Seq(X) /\ Members(c9) = Members(c8) \cup N!OfLogs(s)
  BY <1>0, <1>8, ListedWith DEF c9
<1>10. c10 \in Seq(X) /\ Members(c10) = Members(c9) \cup N!OfModems(s)
  BY <1>0, <1>9, ListedWith DEF c10
<1>11. c11 \in Seq(X) /\ Members(c11) = Members(c10) \cup N!OfSensors(s)
  BY <1>0, <1>10, ListedWith DEF c11
<1>12. c12 \in Seq(X) /\ Members(c12) = Members(c11) \cup N!OfPi(s)
  BY <1>0, <1>11, ListedWith DEF c12
<1> QED BY <1>1, <1>2, <1>3, <1>4, <1>5, <1>6, <1>7, <1>8, <1>9, <1>10, <1>11, <1>12, <1>d, <1>x DEF X

\* What Diagnose says is what the rules found.
LEMMA Diagnosed ==
  ASSUME NEW s, Bounded(s)
  PROVE  N!Diagnose(s) \in Seq(N!Found(s)) /\ Members(N!Diagnose(s)) = N!Found(s)
<1> DEFINE X == N!Found(s)
           Of(severity) == N!Retain(N!Listed(s), {f \in X : f.severity = severity})
<1>1. N!Listed(s) \in Seq(X) /\ Members(N!Listed(s)) = X
  BY AllListed
<1>2. N!Diagnose(s) = Of(N!Critical) \o Of(N!Attention) \o Of(N!Information)
  BY DEF N!Diagnose
<1> HIDE DEF X
<1>3. ASSUME NEW z PROVE Of(z) \in Seq(X) /\ Members(Of(z)) = {f \in X : f.severity = z}
  BY <1>1, KeptListed
<1> HIDE DEF Of
<1>4. /\ Of(N!Critical) \o Of(N!Attention) \in Seq(X)
      /\ Members(Of(N!Critical) \o Of(N!Attention)) = Members(Of(N!Critical)) \cup Members(Of(N!Attention))
  BY <1>3, BothListed
<1> DEFINE most == Of(N!Critical) \o Of(N!Attention)
<1>e. most \in Seq(X) /\ N!Diagnose(s) = most \o Of(N!Information) /\ Of(N!Information) \in Seq(X)
  BY <1>2, <1>3, <1>4
<1>m. Members(most) = Members(Of(N!Critical)) \cup Members(Of(N!Attention))
  BY <1>4
<1> HIDE DEF most
<1>5. /\ N!Diagnose(s) \in Seq(X)
      /\ Members(N!Diagnose(s)) = Members(Of(N!Critical)) \cup Members(Of(N!Attention))
                                  \cup Members(Of(N!Information))
  <2>1. /\ most \o Of(N!Information) \in Seq(X)
        /\ Members(most \o Of(N!Information)) = Members(most) \cup Members(Of(N!Information))
    BY <1>e, BothListed
  <2> QED BY <1>e, <1>m, <2>1
<1>6. \A f \in X : f.severity \in {N!Critical, N!Attention, N!Information}
  BY Severe DEF X
<1>7. Members(N!Diagnose(s)) = X
  BY <1>3, <1>5, <1>6
<1> QED BY <1>5, <1>7 DEF X

-----------------------------------------------------------------------------
(* What a snapshot has of its host *)

LEMMA Hosts ==
  ASSUME NEW h \in Machines
  PROVE  /\ h \in N!Host
         /\ IsFiniteSet(h.mounts) /\ IsFiniteSet(h.devices) /\ IsFiniteSet(h.interfaces)
         /\ IsFiniteSet(h.modems) /\ IsFiniteSet(h.sensors)
<1>1. h \in N!Host /\ N!Finite(h)
  BY ActingAssumption DEF N!FindingsAssumption
<1> QED BY <1>1 DEF N!Finite, N!IsFiniteSet, IsFiniteSet

\* The same mount, service or interface.
SameService(x, y) == x.name = y.name /\ x.failed = y.failed
SameMount(x, y) ==
  /\ x.name = y.name /\ x.source = y.source /\ x.used = y.used
  /\ x.actionable = y.actionable /\ x.length = y.length
SameInterface(x, y) ==
  x.name = y.name /\ x.down = y.down /\ x.tunnel = y.tunnel /\ x.idle = y.idle

Unrestarted(x, F) == [x EXCEPT !.restarts = IF "restarts" \in F THEN N!None ELSE @]
Uncounted(x, F) == [x EXCEPT !.inodes = IF "inodes" \in F THEN N!None ELSE @]
Unaddressed(x, F) == [x EXCEPT !.address = IF "interfaces" \in F THEN N!None ELSE @]
Unexamined(d, F) ==
  IF "health" \in F
  THEN [d EXCEPT !.passed = TRUE, !.state = "unknown", !.members = {}, !.worn = FALSE] ELSE d

LEMMA RowsOf ==
  ASSUME NEW h \in Machines, NEW F
  PROVE  /\ \A x \in h.services : /\ SameService(Unrestarted(x, F), x)
                                  /\ Unrestarted(x, F).restarts = IF "restarts" \in F THEN 0 ELSE x.restarts
         /\ \A x \in h.mounts : /\ SameMount(Uncounted(x, F), x)
                                /\ Uncounted(x, F).inodes = IF "inodes" \in F THEN 0 ELSE x.inodes
         /\ \A x \in h.interfaces : /\ SameInterface(Unaddressed(x, F), x)
                                    /\ Unaddressed(x, F).address = IF "interfaces" \in F THEN 0 ELSE x.address
<1>1. h \in N!Host
  BY Hosts
<1>2. /\ h.services \subseteq [name : Nat, failed : BOOLEAN, restarts : Nat]
      /\ h.mounts \subseteq [name : Nat, source : Nat, used : Nat, inodes : Nat, actionable : BOOLEAN,
                             length : Nat]
      /\ h.interfaces \subseteq [name : Nat, down : BOOLEAN, address : Nat, tunnel : BOOLEAN,
                                 idle : BOOLEAN]
  BY <1>1 DEF N!Host
<1>3. \A x \in h.services : /\ SameService(Unrestarted(x, F), x)
                            /\ Unrestarted(x, F).restarts = IF "restarts" \in F THEN 0 ELSE x.restarts
  BY <1>2 DEF SameService, Unrestarted, N!None
<1>4. \A x \in h.mounts : /\ SameMount(Uncounted(x, F), x)
                          /\ Uncounted(x, F).inodes = IF "inodes" \in F THEN 0 ELSE x.inodes
  BY <1>2 DEF SameMount, Uncounted, N!None
<1>5. \A x \in h.interfaces : /\ SameInterface(Unaddressed(x, F), x)
                              /\ Unaddressed(x, F).address = IF "interfaces" \in F THEN 0 ELSE x.address
  BY <1>2 DEF SameInterface, Unaddressed, N!None
<1> QED BY <1>3, <1>4, <1>5

LEMMA PartsOf ==
  ASSUME NEW h \in Machines, NEW F
  PROVE  /\ N!Collected(h, F).services = {Unrestarted(x, F) : x \in N!Read("services", h.services, F)}
         /\ N!Collected(h, F).mounts = {Uncounted(x, F) : x \in N!Read("mounts", h.mounts, F)}
         /\ N!Collected(h, F).interfaces = {Unaddressed(x, F) : x \in h.interfaces}
         /\ N!Collected(h, F).logs = N!Read("logs", h.logs, F)
         /\ N!Collected(h, F).deleted = N!Read("deleted", h.deleted, F)
         /\ N!Collected(h, F).devices = {Unexamined(d, F) : d \in N!Read("devices", h.devices, F)}
         /\ N!Collected(h, F).routes = N!Read("routes", h.routes, F)
         /\ N!Collected(h, F).sockets = N!Read("sockets", h.sockets, F)
         /\ N!Collected(h, F).modems = N!Read("modems", h.modems, F)
         /\ N!Collected(h, F).containers = h.containers /\ N!Collected(h, F).processes = h.processes
         /\ N!Collected(h, F).sensors = {t \in h.sensors : t.tool => "vcgencmd" \notin F}
         /\ N!Collected(h, F).pi = IF "vcgencmd" \in F THEN [active |-> {}, past |-> FALSE] ELSE h.pi
         /\ N!Collected(h, F).warnings = F \ N!Silent
BY DEF N!Collected, Unrestarted, Uncounted, Unaddressed, Unexamined

\* What a source gives is what the host has or nothing, and everything if the source does not fail.
LEMMA ReadPart ==
  ASSUME NEW source, NEW T, NEW F
  PROVE  N!Read(source, T, F) = IF source \in F THEN {} ELSE T
BY DEF N!Read

LEMMA CollectedBounded ==
  ASSUME NEW h \in Machines, NEW F
  PROVE  Bounded(N!Collected(h, F))
<1>1. IsFiniteSet(N!Collected(h, F).mounts)
  <2> DEFINE f == [x \in h.mounts |-> Uncounted(x, F)]
             U == N!Read("mounts", h.mounts, F)
  <2>1. IsFiniteSet(h.mounts)
    BY Hosts
  <2>2. U \in SUBSET h.mounts
    BY DEF N!Read
  <2>3. N!Collected(h, F).mounts = {Uncounted(x, F) : x \in U}
    BY DEF N!Collected, Uncounted
  <2>4. \A x \in U : Uncounted(x, F) = f[x]
    BY <2>2
  <2> HIDE DEF f, U
  <2>5. N!Collected(h, F).mounts = {f[x] : x \in U}
    BY <2>3, <2>4
  <2> QED BY <2>1, <2>2, <2>5, FiniteImage
<1>2. IsFiniteSet(N!Collected(h, F).interfaces)
  <2> DEFINE f == [x \in h.interfaces |-> Unaddressed(x, F)]
             U == h.interfaces
  <2>1. IsFiniteSet(h.interfaces)
    BY Hosts
  <2>2. U \in SUBSET h.interfaces
    OBVIOUS
  <2>3. N!Collected(h, F).interfaces = {Unaddressed(x, F) : x \in U}
    BY DEF N!Collected, Unaddressed
  <2>4. \A x \in U : Unaddressed(x, F) = f[x]
    OBVIOUS
  <2> HIDE DEF f, U
  <2>5. N!Collected(h, F).interfaces = {f[x] : x \in U}
    BY <2>3, <2>4
  <2> QED BY <2>1, <2>2, <2>5, FiniteImage
<1>3. IsFiniteSet(N!Collected(h, F).devices)
  <2> DEFINE f == [x \in h.devices |-> Unexamined(x, F)]
             U == N!Read("devices", h.devices, F)
  <2>1. IsFiniteSet(h.devices)
    BY Hosts
  <2>2. U \in SUBSET h.devices
    BY DEF N!Read
  <2>3. N!Collected(h, F).devices = {Unexamined(x, F) : x \in U}
    BY PartsOf
  <2>4. \A x \in U : Unexamined(x, F) = f[x]
    BY <2>2
  <2> HIDE DEF f, U
  <2>5. N!Collected(h, F).devices = {f[x] : x \in U}
    BY <2>3, <2>4
  <2> QED BY <2>1, <2>2, <2>5, FiniteImage
<1>4. IsFiniteSet(h.modems) /\ IsFiniteSet(h.sensors)
  BY Hosts
<1>5. N!Collected(h, F).modems \in {{}, h.modems} /\ N!Collected(h, F).sensors \subseteq h.sensors
  BY DEF N!Collected, N!Read
<1>6. IsFiniteSet(N!Collected(h, F).modems) /\ IsFiniteSet(N!Collected(h, F).sensors)
  BY <1>4, <1>5, FS_EmptySet, FS_Subset
<1> QED BY <1>1, <1>2, <1>3, <1>6 DEF Bounded

-----------------------------------------------------------------------------
(* A source that fails takes findings away *)

\* A finding that s has too, as severe or more.
Known(f, s) == \E g \in N!Found(s) : g.id = f.id /\ g.severity >= f.severity
Same(f, g) == f.id = g.id /\ f.severity = g.severity

LEMMA KnownIf ==
  ASSUME NEW p, NEW s, NEW f \in N!Found(p), NEW g \in N!Found(s), Same(f, g)
  PROVE  Known(f, s)
<1>1. f.severity \in {1, 2, 3}
  BY Severe DEF N!Critical, N!Attention, N!Information
<1> QED BY <1>1 DEF Known, Same

\* What is read of a host while sources fail (p) and what is read when none does (s).
Parts(p, s) ==
  /\ p.routes \subseteq s.routes
  /\ p.sockets \subseteq s.sockets /\ p.modems \subseteq s.modems
  /\ p.sensors \subseteq s.sensors /\ p.pi \in {s.pi, [active |-> {}, past |-> FALSE]}
  /\ p.logs = {} \/ p.logs = s.logs
DiskParts(p, s) == \A d \in p.devices : N!DiskSeverity(d) = N!None \/ d \in s.devices
ServiceParts(p, s) ==
  \A x \in p.services : \E y \in s.services :
    SameService(x, y) /\ (x.restarts = y.restarts \/ x.restarts = 0)
MountParts(p, s) ==
  \A x \in p.mounts : \E y \in s.mounts :
    SameMount(x, y) /\ (x.inodes = y.inodes \/ x.inodes = 0)
InterfaceParts(p, s) ==
  \A x \in p.interfaces : \E y \in s.interfaces :
    SameInterface(x, y) /\ (x.address = y.address \/ x.address = 0)

LEMMA ReadParts ==
  ASSUME NEW h \in Machines, NEW F
  PROVE  LET p == N!Collected(h, F)
             s == N!Collected(h, {})
         IN /\ Parts(p, s) /\ DiskParts(p, s) /\ ServiceParts(p, s)
            /\ MountParts(p, s) /\ InterfaceParts(p, s)
<1> DEFINE p == N!Collected(h, F)
           s == N!Collected(h, {})
<1>1. Parts(p, s)
  BY DEF N!Collected, N!Read, Parts
<1>d. DiskParts(p, s)
  <2>1. h.devices \subseteq [name : Nat, mounted : SUBSET Nat, passed : BOOLEAN, state : STRING,
                             members : SUBSET STRING, worn : BOOLEAN]
    BY Hosts DEF N!Host
  <2>2. ASSUME NEW x \in p.devices PROVE N!DiskSeverity(x) = N!None \/ x \in s.devices
    <3>1. PICK d \in N!Read("devices", h.devices, F) : x = Unexamined(d, F)
      BY <2>2, PartsOf
    <3>2. d \in h.devices
      BY <3>1 DEF N!Read
    <3>3. CASE "health" \in F
      <4>1. x.passed /\ x.state = "unknown" /\ x.members = {} /\ ~x.worn
        BY <2>1, <3>1, <3>2, <3>3 DEF Unexamined
      <4> QED BY <4>1 DEF N!DiskSeverity
    <3>4. CASE "health" \notin F
      <4>1. x = d /\ x \in N!Read("devices", h.devices, {})
        BY <3>1, <3>2, <3>4 DEF Unexamined, N!Read
      <4>2. Unexamined(x, {}) = x
        BY DEF Unexamined
      <4> QED BY <4>1, <4>2, PartsOf
    <3> QED BY <3>3, <3>4
  <2> QED BY <2>2 DEF DiskParts
<1>r. /\ \A x \in h.services : /\ SameService(Unrestarted(x, F), x)
                                /\ Unrestarted(x, F).restarts = IF "restarts" \in F THEN 0 ELSE x.restarts
      /\ \A x \in h.mounts : /\ SameMount(Uncounted(x, F), x)
                              /\ Uncounted(x, F).inodes = IF "inodes" \in F THEN 0 ELSE x.inodes
      /\ \A x \in h.interfaces : /\ SameInterface(Unaddressed(x, F), x)
                                  /\ Unaddressed(x, F).address = IF "interfaces" \in F THEN 0 ELSE x.address
  BY RowsOf
<1>w. /\ \A x \in h.services : /\ SameService(Unrestarted(x, {}), x)
                                /\ Unrestarted(x, {}).restarts = x.restarts
      /\ \A x \in h.mounts : /\ SameMount(Uncounted(x, {}), x)
                              /\ Uncounted(x, {}).inodes = x.inodes
      /\ \A x \in h.interfaces : /\ SameInterface(Unaddressed(x, {}), x)
                                  /\ Unaddressed(x, {}).address = x.address
  BY RowsOf
<1>2. ServiceParts(p, s)
  <2>1. SUFFICES ASSUME NEW x \in p.services
                 PROVE  \E y \in s.services :
                          SameService(x, y) /\ (x.restarts = y.restarts \/ x.restarts = 0)
    BY DEF ServiceParts
  <2>2. PICK z \in h.services : x = Unrestarted(z, F)
    BY DEF N!Collected, N!Read, Unrestarted
  <2>3. Unrestarted(z, {}) \in s.services
    BY DEF N!Collected, N!Read, Unrestarted
  <2>4. SameService(x, z) /\ x.restarts \in {0, z.restarts}
    BY <2>2, <1>r
  <2>5. SameService(Unrestarted(z, {}), z) /\ Unrestarted(z, {}).restarts = z.restarts
    BY <2>2, <1>w
  <2> QED BY <2>3, <2>4, <2>5 DEF SameService
<1>3. MountParts(p, s)
  <2>1. SUFFICES ASSUME NEW x \in p.mounts
                 PROVE  \E y \in s.mounts :
                          SameMount(x, y) /\ (x.inodes = y.inodes \/ x.inodes = 0)
    BY DEF MountParts
  <2>2. PICK z \in h.mounts : x = Uncounted(z, F)
    BY DEF N!Collected, N!Read, Uncounted
  <2>3. Uncounted(z, {}) \in s.mounts
    BY DEF N!Collected, N!Read, Uncounted
  <2>4. SameMount(x, z) /\ x.inodes \in {0, z.inodes}
    BY <2>2, <1>r
  <2>5. SameMount(Uncounted(z, {}), z) /\ Uncounted(z, {}).inodes = z.inodes
    BY <2>2, <1>w
  <2> QED BY <2>3, <2>4, <2>5 DEF SameMount
<1>4. InterfaceParts(p, s)
  <2>1. SUFFICES ASSUME NEW x \in p.interfaces
                 PROVE  \E y \in s.interfaces :
                          SameInterface(x, y) /\ (x.address = y.address \/ x.address = 0)
    BY DEF InterfaceParts
  <2>2. PICK z \in h.interfaces : x = Unaddressed(z, F)
    BY DEF N!Collected, Unaddressed
  <2>3. Unaddressed(z, {}) \in s.interfaces
    BY DEF N!Collected, Unaddressed
  <2>4. SameInterface(x, z) /\ x.address \in {0, z.address}
    BY <2>2, <1>r
  <2>5. SameInterface(Unaddressed(z, {}), z) /\ Unaddressed(z, {}).address = z.address
    BY <2>2, <1>w
  <2> QED BY <2>3, <2>4, <2>5 DEF SameInterface
<1> QED BY <1>1, <1>d, <1>2, <1>3, <1>4

LEMMA DisksKnown == ASSUME NEW p, NEW s, DiskParts(p, s) PROVE N!OfDisks(p) \subseteq N!OfDisks(s)
BY DEF DiskParts, N!OfDisks

LEMMA ServicesKnown ==
  ASSUME NEW p, NEW s, ServiceParts(p, s), NEW f \in N!OfServices(p)
  PROVE  \E g \in N!OfServices(s) : Same(f, g)
<1> DEFINE Failed(z) == {x \in z.services : x.failed}
           Looping(z) == {x \in z.services : x.restarts >= 3}
<1>1. Failed(p) # {} => Failed(s) # {}
  BY DEF ServiceParts, SameService
<1>2. Looping(p) # {} => Looping(s) # {}
  BY DEF ServiceParts
<1>e. ASSUME NEW z
      PROVE  N!OfServices(z) =
               N!When(Failed(z) # {}, N!Finding("services.failed", 0, N!Critical,
                                                N!Entities("service", Failed(z))))
               \cup N!When(Looping(z) # {}, N!Finding("services.restart-loop", 0, N!Attention,
                                                     N!Entities("service", Looping(z))))
  BY DEF N!OfServices
<1> HIDE DEF Failed, Looping
<1>3. ASSUME Failed(p) # {},
             f = N!Finding("services.failed", 0, N!Critical, N!Entities("service", Failed(p)))
      PROVE  \E g \in N!OfServices(s) : Same(f, g)
  <2> DEFINE g == N!Finding("services.failed", 0, N!Critical, N!Entities("service", Failed(s)))
  <2>1. g \in N!OfServices(s)
    BY <1>1, <1>3, <1>e DEF N!When
  <2>2. Same(f, g)
    BY <1>3 DEF Same, N!Finding
  <2> QED BY <2>1, <2>2
<1>4. ASSUME Looping(p) # {},
             f = N!Finding("services.restart-loop", 0, N!Attention, N!Entities("service", Looping(p)))
      PROVE  \E g \in N!OfServices(s) : Same(f, g)
  <2> DEFINE g == N!Finding("services.restart-loop", 0, N!Attention,
                            N!Entities("service", Looping(s)))
  <2>1. g \in N!OfServices(s)
    BY <1>2, <1>4, <1>e DEF N!When
  <2>2. Same(f, g)
    BY <1>4 DEF Same, N!Finding
  <2> QED BY <2>1, <2>2
<1>5. \/ /\ Failed(p) # {}
         /\ f = N!Finding("services.failed", 0, N!Critical, N!Entities("service", Failed(p)))
      \/ /\ Looping(p) # {}
         /\ f = N!Finding("services.restart-loop", 0, N!Attention, N!Entities("service", Looping(p)))
  BY <1>e DEF N!When
<1> QED BY <1>3, <1>4, <1>5

LEMMA SpaceKnown ==
  ASSUME NEW p, NEW s, MountParts(p, s), NEW f \in N!OfSpace(p)
  PROVE  \E g \in N!OfSpace(s) : Same(f, g)
<1>1. PICK m \in p.mounts :
        /\ m.actionable /\ m.used >= 90
        /\ f = N!Finding("disk", m.name, N!Above(m.used, 97),
                         {<<"mount", m.name>>, <<"filesystem", m.source>>})
  BY DEF N!OfSpace, N!Actionable
<1>2. PICK y \in s.mounts : SameMount(m, y)
  BY DEF MountParts
<1> DEFINE g == N!Finding("disk", y.name, N!Above(y.used, 97),
                          {<<"mount", y.name>>, <<"filesystem", y.source>>})
<1>3. y.actionable /\ y.used >= 90 /\ y.used = m.used /\ y.name = m.name
  BY <1>1, <1>2 DEF SameMount
<1>4. g \in N!OfSpace(s)
  BY <1>3 DEF N!OfSpace, N!Actionable
<1>5. Same(f, g)
  BY <1>1, <1>3 DEF Same, N!Finding
<1> QED BY <1>4, <1>5

LEMMA InodesKnown ==
  ASSUME NEW p, NEW s, MountParts(p, s), NEW f \in N!OfInodes(p)
  PROVE  \E g \in N!OfInodes(s) : Same(f, g)
<1>1. PICK m \in p.mounts :
        /\ m.actionable /\ m.inodes >= 90
        /\ f = N!Finding("disk.inodes", m.name, N!Above(m.inodes, 97), {<<"mount", m.name>>})
  BY DEF N!OfInodes, N!Actionable
<1>2. PICK y \in s.mounts : SameMount(m, y) /\ (m.inodes = y.inodes \/ m.inodes = 0)
  BY DEF MountParts
<1> DEFINE g == N!Finding("disk.inodes", y.name, N!Above(y.inodes, 97), {<<"mount", y.name>>})
<1>3. m.inodes # 0
  BY <1>1
<1>4. y.actionable /\ y.inodes >= 90 /\ y.inodes = m.inodes /\ y.name = m.name
  BY <1>1, <1>2, <1>3 DEF SameMount
<1>5. g \in N!OfInodes(s)
  BY <1>4 DEF N!OfInodes, N!Actionable
<1>6. Same(f, g)
  BY <1>1, <1>4 DEF Same, N!Finding
<1> QED BY <1>5, <1>6

LEMMA InterfacesKnown ==
  ASSUME NEW p, NEW s, Parts(p, s), InterfaceParts(p, s), NEW f \in N!OfInterfaces(p)
  PROVE  \E g \in N!OfInterfaces(s) : Same(f, g)
<1>1. PICK i \in N!Down(p) :
        f = N!Finding("net.interface-down", i.name, N!Attention, {<<"interface", i.name>>})
  BY DEF N!OfInterfaces
<1>2. /\ i \in p.interfaces /\ i.down /\ i.address # 0 /\ ~i.tunnel
      /\ i.idle => \E r \in N!Default(p) : r.via = i.name
  BY DEF N!Down, N!None
<1>3. PICK y \in s.interfaces : SameInterface(i, y) /\ i.address = y.address
  BY <1>2 DEF InterfaceParts
<1>4. N!Default(p) \subseteq N!Default(s)
  BY DEF Parts, N!Default
<1>5. y \in N!Down(s) /\ y.name = i.name
  BY <1>2, <1>3, <1>4 DEF N!Down, N!None, SameInterface
<1> DEFINE g == N!Finding("net.interface-down", y.name, N!Attention, {<<"interface", y.name>>})
<1>6. g \in N!OfInterfaces(s)
  BY <1>5 DEF N!OfInterfaces
<1>7. Same(f, g)
  BY <1>1, <1>5 DEF Same, N!Finding
<1> QED BY <1>6, <1>7

LEMMA ListenersKnown ==
  ASSUME NEW p, NEW s, Parts(p, s), NEW f \in N!OfListeners(p)
  PROVE  \E g \in N!OfListeners(s) : Same(f, g)
<1> DEFINE Exposed(z) == {x \in z.sockets : x.anywhere /\ ~x.ssh}
<1>1. Exposed(p) # {} => Exposed(s) # {}
  BY DEF Parts
<1>2. f.id = <<"net.unexpected-listeners", 0>> /\ f.severity = N!Information /\ Exposed(p) # {}
  BY DEF N!OfListeners, N!When, N!Finding
<1> QED BY <1>1, <1>2 DEF N!OfListeners, N!When, N!Finding, Same

LEMMA NothingLogged ==
  ASSUME NEW p, p.logs = {}
  PROVE  N!OfLogs(p) = {}
<1>1. N!Errors(p) = {}
  BY DEF N!Errors
<1>2. N!Cardinality({}) = 0
  BY FS_EmptySet DEF N!Cardinality, Cardinality
<1> QED BY <1>1, <1>2 DEF N!OfLogs, N!When

LEMMA LogsKnown ==
  ASSUME NEW p, NEW s, Parts(p, s)
  PROVE  N!OfLogs(p) \subseteq N!OfLogs(s)
<1>1. CASE p.logs = {}
  BY <1>1, NothingLogged
<1>2. CASE p.logs = s.logs
  BY <1>2 DEF N!OfLogs, N!Errors
<1> QED BY <1>1, <1>2 DEF Parts

LEMMA RestKnown ==
  ASSUME NEW p, NEW s, Parts(p, s)
  PROVE  /\ N!OfModems(p) \subseteq N!OfModems(s)
         /\ N!OfSensors(p) \subseteq N!OfSensors(s) /\ N!OfPi(p) \subseteq N!OfPi(s)
<1>1. N!OfModems(p) \subseteq N!OfModems(s)
  BY DEF Parts, N!OfModems
<1>2. N!OfSensors(p) \subseteq N!OfSensors(s)
  BY DEF Parts, N!OfSensors
<1>3. N!OfPi(p) \subseteq N!OfPi(s)
  <2>1. CASE p.pi = s.pi
    BY <2>1 DEF N!OfPi
  <2>2. CASE p.pi = [active |-> {}, past |-> FALSE]
    <3>1. p.pi.active = {} /\ ~p.pi.past
      BY <2>2
    <3> QED BY <3>1 DEF N!OfPi, N!When
  <2> QED BY <2>1, <2>2 DEF Parts
<1> QED BY <1>1, <1>2, <1>3

LEMMA TakesAway ==
  ASSUME NEW h \in Machines, NEW F, NEW f \in N!Found(N!Collected(h, F))
  PROVE  \/ f.id \in {<<"collection.incomplete", 0>>, <<"net.no-default-route", 0>>}
         \/ Known(f, N!Collected(h, {}))
<1> DEFINE p == N!Collected(h, F)
           s == N!Collected(h, {})
<1>1. /\ Parts(p, s) /\ DiskParts(p, s) /\ ServiceParts(p, s)
      /\ MountParts(p, s) /\ InterfaceParts(p, s)
  BY ReadParts
<1>2. f \in N!Found(p)
  OBVIOUS
<1> HIDE DEF p, s
<1>3. ASSUME NEW g \in N!Found(s), Same(f, g) PROVE Known(f, s)
  BY <1>2, <1>3, KnownIf
<1>4. ASSUME f \in N!OfCollection(p) PROVE f.id = <<"collection.incomplete", 0>>
  BY <1>4 DEF N!OfCollection, N!When, N!Finding
<1>5. ASSUME f \in N!OfRoutes(p) PROVE f.id = <<"net.no-default-route", 0>>
  BY <1>5 DEF N!OfRoutes, N!When, N!Finding
<1>6. ASSUME f \in N!OfDisks(p) \cup N!OfLogs(p) \cup N!OfModems(p) \cup N!OfSensors(p) \cup N!OfPi(p)
      PROVE  Known(f, s)
  <2>1. f \in N!Found(s)
    BY <1>1, <1>6, DisksKnown, LogsKnown, RestKnown DEF N!Found
  <2> QED BY <2>1, <1>3 DEF Same
<1>7. ASSUME f \in N!OfServices(p) PROVE Known(f, s)
  <2>1. PICK g \in N!OfServices(s) : Same(f, g)
    BY <1>1, <1>7, ServicesKnown
  <2> QED BY <2>1, <1>3 DEF N!Found
<1>8. ASSUME f \in N!OfSpace(p) PROVE Known(f, s)
  <2>1. PICK g \in N!OfSpace(s) : Same(f, g)
    BY <1>1, <1>8, SpaceKnown
  <2> QED BY <2>1, <1>3 DEF N!Found
<1>9. ASSUME f \in N!OfInodes(p) PROVE Known(f, s)
  <2>1. PICK g \in N!OfInodes(s) : Same(f, g)
    BY <1>1, <1>9, InodesKnown
  <2> QED BY <2>1, <1>3 DEF N!Found
<1>10. ASSUME f \in N!OfInterfaces(p) PROVE Known(f, s)
  <2>1. PICK g \in N!OfInterfaces(s) : Same(f, g)
    BY <1>1, <1>10, InterfacesKnown
  <2> QED BY <2>1, <1>3 DEF N!Found
<1>11. ASSUME f \in N!OfListeners(p) PROVE Known(f, s)
  <2>1. PICK g \in N!OfListeners(s) : Same(f, g)
    BY <1>1, <1>11, ListenersKnown
  <2> QED BY <2>1, <1>3 DEF N!Found
<1>12. f \in N!OfDisks(p) \cup N!OfCollection(p) \cup N!OfServices(p) \cup N!OfSpace(p) \cup N!OfRoutes(p)
           \cup N!OfInodes(p) \cup N!OfInterfaces(p) \cup N!OfListeners(p) \cup N!OfLogs(p)
           \cup N!OfModems(p) \cup N!OfSensors(p) \cup N!OfPi(p)
  BY <1>2 DEF N!Found
<1>13. f.id \in {<<"collection.incomplete", 0>>, <<"net.no-default-route", 0>>} \/ Known(f, s)
  BY <1>4, <1>5, <1>6, <1>7, <1>8, <1>9, <1>10, <1>11, <1>12
<1> QED BY <1>13 DEF s

-----------------------------------------------------------------------------
(* Where links lead *)

LEMMA HasIf ==
  ASSUME NEW n
  PROVE  /\ (\E x \in inventoried.services : x.name = n) => N!Has("service", n)
         /\ (\E x \in inventoried.processes : x.name = n) => N!Has("process", n)
         /\ (\E x \in inventoried.mounts : x.name = n) => N!Has("mount", n)
         /\ (\E x \in inventoried.mounts : x.source = n) => N!Has("filesystem", n)
         /\ (\E x \in inventoried.interfaces : x.name = n) => N!Has("interface", n)
         /\ (\E x \in inventoried.routes : x.name = n) => N!Has("route", n)
         /\ (\E x \in inventoried.sockets : x.name = n) => N!Has("socket", n)
         /\ (\E x \in inventoried.devices : x.name = n) => N!Has("device", n)
         /\ N!Has("host", n) /\ N!Has("log source", n)
<1>1. (\E x \in inventoried.services : x.name = n) => N!Has("service", n)
  BY DEF N!Has
<1>2. (\E x \in inventoried.processes : x.name = n) => N!Has("process", n)
  BY DEF N!Has
<1>3. (\E x \in inventoried.mounts : x.name = n) => N!Has("mount", n)
  BY DEF N!Has
<1>4. (\E x \in inventoried.mounts : x.source = n) => N!Has("filesystem", n)
  BY DEF N!Has
<1>5. (\E x \in inventoried.interfaces : x.name = n) => N!Has("interface", n)
  BY DEF N!Has
<1>6. (\E x \in inventoried.routes : x.name = n) => N!Has("route", n)
  BY DEF N!Has
<1>7. (\E x \in inventoried.sockets : x.name = n) => N!Has("socket", n)
  BY DEF N!Has
<1>8. (\E x \in inventoried.devices : x.name = n) => N!Has("device", n)
  BY DEF N!Has
<1>9. N!Has("host", n) /\ N!Has("log source", n)
  BY DEF N!Has
<1> QED BY <1>1, <1>2, <1>3, <1>4, <1>5, <1>6, <1>7, <1>8, <1>9

\* What is led to is there.
Leads(e) == N!Has(e[1], e[2])

LEMMA EntitiesLead ==
  ASSUME NEW kind, NEW T,
         \/ kind = "service" /\ T \subseteq inventoried.services
         \/ kind = "route" /\ T \subseteq inventoried.routes
         \/ kind = "socket" /\ T \subseteq inventoried.sockets,
         NEW e \in N!Entities(kind, T)
  PROVE  Leads(e)
<1>1. PICK x \in T : e = <<kind, x.name>>
  BY DEF N!Entities
<1>2. e[1] = kind /\ e[2] = x.name
  BY <1>1
<1>3. N!Has(kind, x.name)
  BY HasIf
<1> QED BY <1>2, <1>3 DEF Leads

\* What a finding is about is in the snapshot it was found in.
LEMMA AboutWhatIsThere ==
  ASSUME NEW f \in N!Found(inventoried), NEW e \in f.about
  PROVE  Leads(e)
<1> DEFINE s == inventoried
<1>0. N!Has("host", 0) /\ N!Has("log source", 0)
  BY HasIf
<1>a. ASSUME e = N!ThisHost PROVE Leads(e)
  <2>1. e[1] = "host" /\ e[2] = 0
    BY <1>a DEF N!ThisHost
  <2> QED BY <1>0, <2>1 DEF Leads
<1>b. ASSUME e = N!Journal PROVE Leads(e)
  <2>1. e[1] = "log source" /\ e[2] = 0
    BY <1>b DEF N!Journal
  <2> QED BY <1>0, <2>1 DEF Leads
<1>2. ASSUME f \in N!OfDisks(s) PROVE Leads(e)
  <2>1. PICK d \in s.devices : e = <<"device", d.name>>
    BY <1>2 DEF N!OfDisks, N!Finding
  <2>2. N!Has("device", d.name)
    BY HasIf
  <2> QED BY <2>1, <2>2 DEF Leads
<1>3. ASSUME f \in N!OfCollection(s) \cup N!OfModems(s) \cup N!OfSensors(s) \cup N!OfPi(s)
      PROVE  e = N!ThisHost
  BY <1>3 DEF N!OfCollection, N!OfModems, N!OfSensors, N!OfPi, N!When, N!Finding
<1>4. ASSUME f \in N!OfLogs(s) PROVE e = N!Journal
  BY <1>4 DEF N!OfLogs, N!When, N!Finding
<1>5. ASSUME f \in N!OfServices(s) PROVE Leads(e)
  <2>1. \E T : T \subseteq s.services /\ e \in N!Entities("service", T)
    BY <1>5 DEF N!OfServices, N!When, N!Finding
  <2> QED BY <2>1, EntitiesLead
<1>6. ASSUME f \in N!OfRoutes(s) PROVE Leads(e)
  <2>1. e \in N!Entities("route", s.routes)
    BY <1>6 DEF N!OfRoutes, N!When, N!Finding
  <2> QED BY <2>1, EntitiesLead
<1>7. ASSUME f \in N!OfListeners(s) PROVE Leads(e)
  <2>1. \E T : T \subseteq s.sockets /\ e \in N!Entities("socket", T)
    BY <1>7 DEF N!OfListeners, N!When, N!Finding
  <2> QED BY <2>1, EntitiesLead
<1>8. ASSUME f \in N!OfSpace(s) \cup N!OfInodes(s) PROVE Leads(e)
  <2>1. PICK m \in s.mounts : e = <<"mount", m.name>> \/ e = <<"filesystem", m.source>>
    BY <1>8 DEF N!OfSpace, N!OfInodes, N!Actionable, N!Finding
  <2>2. N!Has("mount", m.name) /\ N!Has("filesystem", m.source)
    BY HasIf
  <2> QED BY <2>1, <2>2 DEF Leads
<1>9. ASSUME f \in N!OfInterfaces(s) PROVE Leads(e)
  <2>1. PICK i \in s.interfaces : e = <<"interface", i.name>>
    BY <1>9 DEF N!OfInterfaces, N!Down, N!Finding
  <2>2. N!Has("interface", i.name)
    BY HasIf
  <2> QED BY <2>1, <2>2 DEF Leads
<1>10. f \in N!OfDisks(s) \cup N!OfCollection(s) \cup N!OfServices(s) \cup N!OfSpace(s) \cup N!OfRoutes(s)
           \cup N!OfInodes(s) \cup N!OfInterfaces(s) \cup N!OfListeners(s) \cup N!OfLogs(s)
           \cup N!OfModems(s) \cup N!OfSensors(s) \cup N!OfPi(s)
  BY DEF N!Found
<1> QED BY <1>a, <1>b, <1>2, <1>3, <1>4, <1>5, <1>6, <1>7, <1>8, <1>9, <1>10

\* A link copied from what a row names.
FromText(l) == <<l.from[1], l.to[1]>> \in N!Copied

LEMMA LinksLead ==
  ASSUME NEW found, \A i \in DOMAIN found : found[i] \in N!Found(inventoried),
         NEW l \in N!Relationships(inventoried, found)
  PROVE  Leads(l.to) \/ FromText(l)
<1> DEFINE s == inventoried
<1>0. N!Has("host", 0)
  BY HasIf
<1>1. ASSUME l \in N!HostLinks(s) PROVE Leads(l.to)
  <2>1. l.to = <<"host", 0>>
    BY <1>1 DEF N!HostLinks, N!Link, N!ThisHost
  <2> QED BY <2>1, <1>0 DEF Leads
<1>2. ASSUME l \in N!ServiceLinks(s) PROVE FromText(l)
  <2>1. CASE \E p \in s.processes : l = N!Link(<<"process", p.name>>, <<"service", p.service>>)
    BY <2>1 DEF FromText, N!Copied, N!Link
  <2>2. CASE \E e \in s.logs : l = N!Link(N!Journal, <<"service", e.unit>>)
    <3>1. PICK e \in s.logs : l = N!Link(N!Journal, <<"service", e.unit>>)
      BY <2>2
    <3>2. l.from[1] = "log source" /\ l.to[1] = "service"
      BY <3>1 DEF N!Link, N!Journal
    <3> QED BY <3>2 DEF FromText, N!Copied
  <2> QED BY <1>2, <2>1, <2>2 DEF N!ServiceLinks
<1>5. ASSUME l \in N!MountLinks(s) PROVE Leads(l.to) \/ FromText(l)
  <2>1. CASE \E m \in s.mounts : l = N!Link(<<"mount", m.name>>, <<"filesystem", m.source>>)
    <3>1. PICK m \in s.mounts : l.to = <<"filesystem", m.source>>
      BY <2>1 DEF N!Link
    <3>2. N!Has("filesystem", m.source)
      BY HasIf
    <3> QED BY <3>1, <3>2 DEF Leads
  <2>2. CASE \E d \in s.devices, n \in UNION {x.mounted : x \in s.devices} :
               l = N!Link(<<"device", d.name>>, <<"mount", n>>)
    BY <2>2 DEF FromText, N!Copied, N!Link
  <2> QED BY <1>5, <2>1, <2>2 DEF N!MountLinks
<1>6. ASSUME l \in N!DeletedLinks(s) PROVE Leads(l.to)
  <2>1. PICK m \in s.mounts : l.to = <<"mount", m.name>>
    BY <1>6 DEF N!DeletedLinks, N!Link
  <2>2. N!Has("mount", m.name)
    BY HasIf
  <2> QED BY <2>1, <2>2 DEF Leads
<1>8. ASSUME l \in N!RouteLinks(s) PROVE FromText(l)
  <2>1. PICK x \in s.routes : l = N!Link(<<"route", x.name>>, <<"interface", x.via>>)
    BY <1>8 DEF N!RouteLinks
  <2>2. l.from[1] = "route" /\ l.to[1] = "interface"
    BY <2>1 DEF N!Link
  <2> QED BY <2>2 DEF FromText, N!Copied
<1>9. ASSUME l \in N!SocketLinks(s) PROVE Leads(l.to)
  <2>1. CASE \E x \in s.sockets : /\ \E p \in s.processes : p.name = x.pid
                                  /\ l.to = <<"process", x.pid>>
    <3>1. PICK x \in s.sockets : /\ \E p \in s.processes : p.name = x.pid
                                 /\ l.to = <<"process", x.pid>>
      BY <2>1
    <3>2. N!Has("process", x.pid)
      BY <3>1, HasIf
    <3> QED BY <3>1, <3>2 DEF Leads
  <2>2. CASE \E i \in s.interfaces : l.to = <<"interface", i.name>>
    <3>1. PICK i \in s.interfaces : l.to = <<"interface", i.name>>
      BY <2>2
    <3>2. N!Has("interface", i.name)
      BY HasIf
    <3> QED BY <3>1, <3>2 DEF Leads
  <2> QED BY <1>9, <2>1, <2>2 DEF N!SocketLinks, N!Link
<1>10. ASSUME l \in N!FindingLinks(found) PROVE Leads(l.to)
  <2>1. PICK i \in DOMAIN found : l.to \in found[i].about
    BY <1>10 DEF N!FindingLinks, N!Link
  <2> QED BY <2>1, AboutWhatIsThere
<1> QED BY <1>1, <1>2, <1>5, <1>6, <1>8, <1>9, <1>10 DEF N!Relationships

-----------------------------------------------------------------------------
(* Sources that fail without a word *)

\* All they take away is what they tell.
LEMMA KeptBySilence ==
  ASSUME NEW h \in Machines, NEW F, F \subseteq N!Silent
  PROVE  LET p == N!Collected(h, F)
             s == N!Collected(h, {})
         IN /\ p.warnings = {} /\ s.warnings = {}
            /\ p.services = s.services /\ p.mounts = s.mounts /\ p.interfaces = s.interfaces
            /\ p.logs = s.logs /\ p.routes = s.routes /\ p.sockets = s.sockets
            /\ p.modems = s.modems
            /\ "health" \notin F => p.devices = s.devices
            /\ "vcgencmd" \notin F => p.sensors = s.sensors /\ p.pi = s.pi
<1> DEFINE p == N!Collected(h, F)
           s == N!Collected(h, {})
<1>1. \A source \in {"services", "restarts", "logs", "mounts", "inodes", "devices", "interfaces",
                     "routes", "sockets", "modems"} :
        source \notin F /\ \A T : N!Read(source, T, F) = T /\ N!Read(source, T, {}) = T
  BY DEF N!Silent, N!Read
<1>2. \A x : /\ Unrestarted(x, F) = Unrestarted(x, {}) /\ Uncounted(x, F) = Uncounted(x, {})
             /\ Unaddressed(x, F) = Unaddressed(x, {})
  BY <1>1 DEF Unrestarted, Uncounted, Unaddressed
<1>p. /\ p.services = {Unrestarted(x, F) : x \in N!Read("services", h.services, F)}
      /\ p.mounts = {Uncounted(x, F) : x \in N!Read("mounts", h.mounts, F)}
      /\ p.interfaces = {Unaddressed(x, F) : x \in h.interfaces}
      /\ p.devices = {Unexamined(x, F) : x \in N!Read("devices", h.devices, F)}
      /\ p.logs = N!Read("logs", h.logs, F) /\ p.routes = N!Read("routes", h.routes, F)
      /\ p.sockets = N!Read("sockets", h.sockets, F) /\ p.modems = N!Read("modems", h.modems, F)
      /\ p.sensors = {t \in h.sensors : t.tool => "vcgencmd" \notin F}
      /\ p.pi = IF "vcgencmd" \in F THEN [active |-> {}, past |-> FALSE] ELSE h.pi
  BY PartsOf
<1>q. /\ s.services = {Unrestarted(x, {}) : x \in N!Read("services", h.services, {})}
      /\ s.mounts = {Uncounted(x, {}) : x \in N!Read("mounts", h.mounts, {})}
      /\ s.interfaces = {Unaddressed(x, {}) : x \in h.interfaces}
      /\ s.devices = {Unexamined(x, {}) : x \in N!Read("devices", h.devices, {})}
      /\ s.logs = N!Read("logs", h.logs, {}) /\ s.routes = N!Read("routes", h.routes, {})
      /\ s.sockets = N!Read("sockets", h.sockets, {}) /\ s.modems = N!Read("modems", h.modems, {})
      /\ s.sensors = {t \in h.sensors : t.tool => "vcgencmd" \notin {}}
      /\ s.pi = IF "vcgencmd" \in {} THEN [active |-> {}, past |-> FALSE] ELSE h.pi
  BY PartsOf
<1>w. p.warnings = F \ N!Silent /\ s.warnings = {} \ N!Silent
  BY PartsOf
<1> HIDE DEF p, s
<1>3. p.services = s.services /\ p.mounts = s.mounts /\ p.interfaces = s.interfaces
  BY <1>1, <1>2, <1>p, <1>q
<1>4. p.logs = s.logs /\ p.routes = s.routes /\ p.sockets = s.sockets /\ p.modems = s.modems
  BY <1>1, <1>p, <1>q
<1>5. p.warnings = {} /\ s.warnings = {}
  BY <1>w
<1>6. ASSUME "health" \notin F PROVE p.devices = s.devices
  <2>1. \A x : Unexamined(x, F) = Unexamined(x, {})
    BY <1>6 DEF Unexamined
  <2> QED BY <2>1, <1>1, <1>p, <1>q
<1>7. ASSUME "vcgencmd" \notin F PROVE p.sensors = s.sensors /\ p.pi = s.pi
  BY <1>7, <1>p, <1>q
<1> QED BY <1>3, <1>4, <1>5, <1>6, <1>7 DEF p, s

LEMMA SilentlyLess ==
  ASSUME NEW h \in Machines, NEW F, F \subseteq N!Silent
  PROVE  LET p == N!Collected(h, F)
             s == N!Collected(h, {})
         IN /\ N!Found(p) \subseteq N!Found(s)
            /\ \A f \in N!Found(s) : \/ f \in N!Found(p)
                                     \/ "health" \in F /\ f \in N!OfDisks(s)
                                     \/ "vcgencmd" \in F /\ f \in N!OfSensors(s) \cup N!OfPi(s)
<1> DEFINE p == N!Collected(h, F)
           s == N!Collected(h, {})
<1>1. /\ p.warnings = s.warnings
      /\ p.services = s.services /\ p.mounts = s.mounts /\ p.interfaces = s.interfaces
      /\ p.logs = s.logs /\ p.routes = s.routes /\ p.sockets = s.sockets
      /\ p.modems = s.modems
      /\ "health" \notin F => p.devices = s.devices
      /\ "vcgencmd" \notin F => p.sensors = s.sensors /\ p.pi = s.pi
  BY KeptBySilence
<1>2. Parts(p, s) /\ DiskParts(p, s)
  BY ReadParts
<1> HIDE DEF p, s
<1>3. N!OfCollection(p) = N!OfCollection(s) /\ N!OfServices(p) = N!OfServices(s)
  BY <1>1 DEF N!OfCollection, N!OfServices
<1>4. N!OfSpace(p) = N!OfSpace(s) /\ N!OfInodes(p) = N!OfInodes(s)
  BY <1>1 DEF N!OfSpace, N!OfInodes, N!Actionable
<1>5. N!OfRoutes(p) = N!OfRoutes(s) /\ N!OfInterfaces(p) = N!OfInterfaces(s)
  BY <1>1 DEF N!OfRoutes, N!OfInterfaces, N!Down, N!Default
<1>6. N!OfListeners(p) = N!OfListeners(s) /\ N!OfModems(p) = N!OfModems(s)
  BY <1>1 DEF N!OfListeners, N!OfModems
<1>7. N!OfLogs(p) = N!OfLogs(s)
  BY <1>1 DEF N!OfLogs, N!Errors
<1>8. /\ N!OfDisks(p) \subseteq N!OfDisks(s) /\ N!OfSensors(p) \subseteq N!OfSensors(s)
      /\ N!OfPi(p) \subseteq N!OfPi(s)
  BY <1>2, DisksKnown, RestKnown
<1>9. /\ "health" \notin F => N!OfDisks(p) = N!OfDisks(s)
      /\ "vcgencmd" \notin F => N!OfSensors(p) = N!OfSensors(s) /\ N!OfPi(p) = N!OfPi(s)
  BY <1>1 DEF N!OfDisks, N!OfSensors, N!OfPi
<1> DEFINE Others(z) ==
             N!OfCollection(z) \cup N!OfServices(z) \cup N!OfSpace(z) \cup N!OfRoutes(z)
             \cup N!OfInodes(z) \cup N!OfInterfaces(z) \cup N!OfListeners(z) \cup N!OfLogs(z)
             \cup N!OfModems(z)
<1>10. Others(p) = Others(s)
  BY <1>3, <1>4, <1>5, <1>6, <1>7
<1>11. \A z : N!Found(z) = Others(z) \cup N!OfDisks(z) \cup N!OfSensors(z) \cup N!OfPi(z)
  BY DEF N!Found
<1> HIDE DEF Others
<1>12. N!Found(p) \subseteq N!Found(s)
  BY <1>8, <1>10, <1>11
<1>13. ASSUME NEW f \in N!Found(s)
       PROVE  \/ f \in N!Found(p)
              \/ "health" \in F /\ f \in N!OfDisks(s)
              \/ "vcgencmd" \in F /\ f \in N!OfSensors(s) \cup N!OfPi(s)
  BY <1>9, <1>10, <1>11
<1> QED BY <1>12, <1>13 DEF p, s

-----------------------------------------------------------------------------
(* One snapshot *)

FindingsInv ==
  /\ machine \in Machines /\ unread \in Outages \cup {{}}
  /\ phase \in {"collect", "diagnose", "done"}
  /\ phase # "collect" => inventoried = N!Collected(machine, unread)
  /\ phase = "done" => /\ findings = N!Diagnose(inventoried)
                       /\ links = N!Relationships(inventoried, findings)

LEMMA FindingsInit == N!Init => FindingsInv
BY DEF N!Init, FindingsInv

LEMMA FindingsStep == ASSUME FindingsInv, N!Next PROVE FindingsInv'
<1>1. ASSUME N!Collect PROVE FindingsInv'
  BY <1>1 DEF FindingsInv, N!Collect
<1>2. ASSUME N!Conclude PROVE FindingsInv'
  BY <1>2 DEF FindingsInv, N!Conclude
<1> QED BY <1>1, <1>2 DEF N!Next

\* The findings shown are those of the snapshot, those of the whole host what no failure hides.
LEMMA Shown ==
  ASSUME FindingsInv, phase = "done"
  PROVE  /\ inventoried = N!Collected(machine, unread) /\ machine \in Machines
         /\ {findings[i] : i \in DOMAIN findings} = N!Found(inventoried)
         /\ N!Whole = N!Found(N!Collected(machine, {}))
<1>1. /\ inventoried = N!Collected(machine, unread) /\ machine \in Machines
      /\ findings = N!Diagnose(inventoried)
  BY DEF FindingsInv
<1>2. Members(findings) = N!Found(inventoried)
  BY <1>1, CollectedBounded, Diagnosed
<1>3. Members(N!Diagnose(N!Collected(machine, {}))) = N!Found(N!Collected(machine, {}))
  BY <1>1, CollectedBounded, Diagnosed
<1>4. N!Whole = N!Found(N!Collected(machine, {}))
  BY <1>3 DEF N!Whole, N!ToSet, Members
<1> QED BY <1>1, <1>2, <1>4 DEF Members

LEMMA FindingsHold ==
  ASSUME FindingsInv
  PROVE  N!NothingInvented /\ N!CoverageNotClaimed /\ N!DefaultIsWatched /\ N!LinksResolve
<1> SUFFICES ASSUME phase = "done"
             PROVE  N!NothingInvented /\ N!CoverageNotClaimed /\ N!DefaultIsWatched /\ N!LinksResolve
  BY DEF N!NothingInvented, N!CoverageNotClaimed, N!DefaultIsWatched, N!LinksResolve, N!Done
<1> DEFINE p == N!Collected(machine, unread)
           s == N!Collected(machine, {})
<1>0. /\ inventoried = p /\ machine \in Machines
      /\ {findings[i] : i \in DOMAIN findings} = N!Found(p)
      /\ N!Whole = N!Found(s)
  BY Shown
<1>1. N!NothingInvented
  <2>1. ASSUME NEW i \in DOMAIN findings
        PROVE  \/ findings[i].id \in {<<"collection.incomplete", 0>>, <<"net.no-default-route", 0>>}
               \/ Known(findings[i], s)
    <3>1. findings[i] \in N!Found(p)
      BY <1>0
    <3> QED BY <1>0, <3>1, TakesAway
  <2> HIDE DEF s, p
  <2> QED BY <2>1, <1>0 DEF N!NothingInvented, Known
<1>2. N!CoverageNotClaimed
  <2>1. CASE unread \subseteq N!Silent
    <3>1. N!ToSet(findings) = N!Found(p)
      BY <1>0 DEF N!ToSet
    <3>2. N!Found(p) \subseteq N!Found(s)
      BY <1>0, <2>1, SilentlyLess
    <3>3. ASSUME NEW f \in N!Found(s) PROVE f \in N!Found(p) \/ N!Silenced(f)
      <4>1. \/ f \in N!Found(p)
            \/ "health" \in unread /\ f \in N!OfDisks(s)
            \/ "vcgencmd" \in unread /\ f \in N!OfSensors(s) \cup N!OfPi(s)
        BY <1>0, <2>1, SilentlyLess
      <4> HIDE DEF p, s
      <4>2. ASSUME f \in N!OfDisks(s) PROVE f.id[1] = "disk.health"
        BY <4>2 DEF N!OfDisks, N!Finding
      <4>3. ASSUME f \in N!OfSensors(s) PROVE f.id[1] = "hardware.temperature"
        BY <4>3 DEF N!OfSensors, N!Finding
      <4>4. ASSUME f \in N!OfPi(s)
            PROVE  f.id[1] \in {"hardware.raspberry-pi.active-throttling",
                               "hardware.raspberry-pi.recorded-throttling"}
        BY <4>4 DEF N!OfPi, N!When, N!Finding
      <4> QED BY <4>1, <4>2, <4>3, <4>4 DEF N!Silenced
    <3> HIDE DEF p, s
    <3> QED BY <3>1, <3>2, <3>3, <1>0 DEF N!CoverageNotClaimed
  <2>2. CASE ~(unread \subseteq N!Silent)
    <3>1. p.warnings # {}
      BY <2>2, <1>0, PartsOf
    <3> DEFINE f == N!Finding("collection.incomplete", 0, N!Information, {N!ThisHost})
    <3>2. f \in N!OfCollection(p)
      BY <3>1 DEF N!OfCollection, N!When
    <3>3. f \in N!Found(p) /\ f.id = <<"collection.incomplete", 0>>
      BY <3>2 DEF N!Found, N!Finding
    <3> HIDE DEF f, p, s
    <3>4. \E i \in DOMAIN findings : findings[i] = f
      BY <3>3, <1>0
    <3> QED BY <3>3, <3>4 DEF N!CoverageNotClaimed
  <2> QED BY <2>1, <2>2
<1>3. N!DefaultIsWatched
  <2>1. SUFFICES ASSUME NEW i \in inventoried.interfaces, NEW r \in N!Default(inventoried),
                        r.via = i.name, i.down, i.address # N!None, ~i.tunnel
                 PROVE  <<"net.interface-down", i.name>> \in N!Ids(N!ToSet(findings))
    BY DEF N!DefaultIsWatched
  <2> DEFINE f == N!Finding("net.interface-down", i.name, N!Attention, {<<"interface", i.name>>})
  <2>2. i \in N!Down(inventoried)
    BY <2>1 DEF N!Down
  <2>3. f \in N!OfInterfaces(inventoried) /\ f.id = <<"net.interface-down", i.name>>
    BY <2>2 DEF N!OfInterfaces, N!Finding
  <2> HIDE DEF f
  <2>4. f \in N!Found(inventoried)
    BY <2>3 DEF N!Found
  <2> HIDE DEF p, s
  <2>5. f \in N!ToSet(findings)
    BY <2>4, <1>0 DEF N!ToSet
  <2> QED BY <2>3, <2>5 DEF N!Ids
<1>4. N!LinksResolve
  <2>1. links = N!Relationships(inventoried, findings)
    BY DEF FindingsInv
  <2>2. \A i \in DOMAIN findings : findings[i] \in N!Found(inventoried)
    BY <1>0
  <2>3. ASSUME NEW l \in links PROVE Leads(l.to) \/ FromText(l)
    BY <2>1, <2>2, LinksLead
  <2> QED BY <2>3 DEF N!LinksResolve, Leads, FromText
<1> QED BY <1>1, <1>2, <1>3, <1>4

-----------------------------------------------------------------------------
(* A behaviour is about one of the parts *)

ActingInv ==
  /\ part = "shell" => ShellInv
  /\ part = "collection" => CollectionInv
  /\ part = "containers" => ContainersInv
  /\ part = "findings" => FindingsInv

LEMMA CollectionRest == ASSUME CollectionInv, UNCHANGED collection_ PROVE CollectionInv'
<1>1. /\ past' = past /\ child' = child /\ over' = over /\ holds' = holds /\ read' = read
      /\ warned' = warned /\ thread' = thread /\ joined' = joined /\ done' = done /\ lost' = lost
  BY DEF collection_
<1>2. CollectionTypes'
  BY <1>1 DEF CollectionInv, CollectionTypes
<1>3. ASSUME NEW d \in K!Domains PROVE Working(d)'
  BY <1>1 DEF CollectionInv, Working
<1>4. ASSUME NEW d \in K!Domains PROVE Accounted(d)'
  <2>1. Accounted(d)
    BY DEF CollectionInv
  <2>2. \A i : K!Spoken(d, i)' = K!Spoken(d, i)
    BY <1>1 DEF K!Spoken
  <2> QED BY <2>1, <2>2, <1>1 DEF Accounted
<1>5. Joined'
  BY <1>1 DEF CollectionInv, Joined
<1> QED BY <1>2, <1>3, <1>4, <1>5 DEF CollectionInv

LEMMA ContainersRest == ASSUME ContainersInv, UNCHANGED containers_ PROVE ContainersInv'
<1>1. /\ modes' = modes /\ has' = has /\ stopped' = stopped /\ queried' = queried
      /\ command' = command /\ batch' = batch /\ first' = first /\ listing' = listing
      /\ told' = told /\ up' = up /\ moved' = moved /\ odd' = odd /\ borne' = borne
      /\ back' = back
  BY DEF containers_
<1>2. ContainersTypes'
  BY <1>1 DEF ContainersInv, ContainersTypes
<1>3. Stage'
  BY <1>1 DEF ContainersInv, Stage, D!R
<1>4. Said'
  BY <1>1 DEF ContainersInv, Said, Over, D!R
<1>5. Current'
  BY <1>1 DEF ContainersInv, Current, Calm, D!R, D!Row
<1>6. Settled'
  BY <1>1 DEF ContainersInv, Settled, Over, Calm, Truthful, D!IdsOf, D!RowsOf
<1>7. Survives'
  BY <1>1 DEF ContainersInv, Survives, Whole, D!R
<1>8. Named'
  BY <1>1 DEF ContainersInv, Named
<1> QED BY <1>2, <1>3, <1>4, <1>5, <1>6, <1>7, <1>8 DEF ContainersInv

LEMMA ActingInitial == ActingInit => ActingInv
BY ShellInit, CollectionInit, ContainersInit, FindingsInit DEF ActingInit, ActingInv

LEMMA ActingStep == ActingInv /\ [ActingNext]_allvars => ActingInv'
<1> SUFFICES ASSUME ActingInv, [ActingNext]_allvars PROVE ActingInv'
  OBVIOUS
<1>1. part' = part
  BY DEF ActingNext, Top, Action, Shell, Collection, Containers, Findings, allvars, inventory_
<1>2. ASSUME part = "shell" PROVE ShellInv'
  <2>1. S!Next \/ UNCHANGED shell_
    BY <1>2 DEF ActingNext, Top, Action, Shell, Collection, Containers, Findings, allvars, inventory_
  <2>2. ASSUME UNCHANGED shell_ PROVE ShellInv'
    BY <1>2, <2>2 DEF ActingInv, ShellInv, ShellTypes, InOrder, Waiting, Coming, Waits, Nothing,
                      Lengths, shell_
  <2> QED BY <1>2, <2>1, <2>2, ShellStep DEF ActingInv
<1>3. ASSUME part = "collection" PROVE CollectionInv'
  <2>1. K!Next \/ UNCHANGED collection_
    BY <1>3 DEF ActingNext, Top, Action, Shell, Collection, Containers, Findings, allvars, inventory_
  <2>2. ASSUME UNCHANGED collection_ PROVE CollectionInv'
    BY <1>3, <2>2, CollectionRest DEF ActingInv
  <2> QED BY <1>3, <2>1, <2>2, CollectionStep DEF ActingInv
<1>4. ASSUME part = "containers" PROVE ContainersInv'
  <2>1. D!Next \/ UNCHANGED containers_
    BY <1>4 DEF ActingNext, Top, Action, Shell, Collection, Containers, Findings, allvars, inventory_
  <2>2. ASSUME UNCHANGED containers_ PROVE ContainersInv'
    BY <1>4, <2>2, ContainersRest DEF ActingInv
  <2> QED BY <1>4, <2>1, <2>2, ContainersStep DEF ActingInv
<1>5. ASSUME part = "findings" PROVE FindingsInv'
  <2>1. N!Next \/ UNCHANGED findings_
    BY <1>5 DEF ActingNext, Top, Action, Shell, Collection, Containers, Findings, allvars, inventory_
  <2>2. ASSUME UNCHANGED findings_ PROVE FindingsInv'
    BY <1>5, <2>2 DEF ActingInv, FindingsInv, findings_
  <2> QED BY <1>5, <2>1, <2>2, FindingsStep DEF ActingInv
<1> QED BY <1>1, <1>2, <1>3, <1>4, <1>5 DEF ActingInv

\* Results in the shell keep their order and its limit.  A finished collection has the output
\* of each command or a warning, but of the probes and vcgencmd, and leaves no command running.
THEOREM ResultsAreTrue == ActingSpec => []ResultsHold
<1>1. ActingInv => ResultsHold
  BY ShellHolds, CollectionHolds DEF ActingInv, ResultsHold
<1> QED BY <1>1, ActingInitial, ActingStep, PTL DEF ActingSpec

\* A runtime's containers are in the inventory or it is said why not; a failed source raises
\* no finding but that of a missing default route and is told, but for the SMART and RAID tools
\* and vcgencmd; the interface of a default route is watched, and links lead to what the
\* snapshot has, but for those copied from what a row names.
THEOREM SnapshotsAreTrue == ActingSpec => []SnapshotHolds
<1>1. ActingInv => SnapshotHolds
  BY ContainersHold, FindingsHold DEF ActingInv, SnapshotHolds
<1> QED BY <1>1, ActingInitial, ActingStep, PTL DEF ActingSpec
=============================================================================
