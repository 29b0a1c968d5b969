----------------------------- MODULE UplinkProofs -----------------------------
(***************************************************************************)
(* The report ring, for every ring and every limit: what Prune,            *)
(* PruneByDeadline and RemoveBatch leave is a part of the ring in its      *)
(* order, Insert keeps it sorted, Evict always finds a rest that fits, and *)
(* so every operation of Ring keeps the limits and the order (Orderly).    *)
(*                                                                         *)
(* The publisher's two threads, for every set of reports, every limit and  *)
(* every clock: the shared queue keeps its limits and its order whatever   *)
(* the FIFO delivers and whenever the main thread prunes or removes        *)
(* (UInv), a report leaves it for a reason, and a batch is chosen well.    *)
(*                                                                         *)
(* The queue is safe to push into because a read lets through only reports *)
(* that had not expired at the wall time it took (the last conjunct of     *)
(* UInv): pushing happens later, with that time and not with the present.  *)
(*                                                                         *)
(* A recursive function is data: its facts are proved by induction up to a *)
(* number (UpTo), which rests on the least member of a set of numbers      *)
(* (Least).  So are those of Retain, of any sequence and set: what is left *)
(* are the members of the set, all of them and in their order              *)
(* (RetainPicks).                                                          *)
(***************************************************************************)
EXTENDS Uplink, TLAPS, FiniteSetTheorems, SequenceTheorems, WellFoundedInduction

-----------------------------------------------------------------------------
(* Induction *)

\* A set of numbers that is not empty has a least one.
LEMMA Least ==
  ASSUME NEW T, T \subseteq Nat, T # {}
  PROVE  \E x \in T : \A y \in T : x <= y
<1>1. IsWellFoundedOn(OpToRel(<, Nat), Nat)
  BY NatLessThanWellFounded
<1>2. PICK x \in T : \A y \in T : ~(<<y, x>> \in OpToRel(<, Nat))
  BY <1>1, WFMin
<1>3. ASSUME NEW y \in T PROVE x <= y
  <2>1. ~(y < x)
    BY <1>2 DEF OpToRel
  <2> QED
    BY <2>1
<1> QED
  BY <1>3

\* Induction up to a number, over the set of numbers that have the property.
LEMMA UpTo ==
  ASSUME NEW N \in Nat, NEW S, 0 \in S, \A n \in 1..N : n - 1 \in S => n \in S
  PROVE  \A n \in 0..N : n \in S
<1> DEFINE T == {n \in 0..N : n \notin S}
<1> SUFFICES ASSUME T # {} PROVE FALSE
  OBVIOUS
<1>0. T \subseteq Nat
  OBVIOUS
<1>1. PICK n \in T : \A m \in T : n <= m
  BY <1>0, Least
<1>2. n \in 1..N /\ n - 1 \in 0..N /\ n - 1 \notin T
  BY <1>1
<1> QED
  BY <1>1, <1>2

-----------------------------------------------------------------------------
(* What retain leaves *)

LEMMA RetainedExists ==
  ASSUME NEW s, NEW S, Len(s) \in Nat
  PROVE  \E kept : kept = [n \in 0..Len(s) |->
                            IF n = 0 THEN <<>>
                            ELSE IF s[n] \in S THEN Append(kept[n - 1], s[n])
                                 ELSE kept[n - 1]]
<1> DEFINE N == Len(s)
           Is(kept, k) == kept = [n \in 0..k |->
                            IF n = 0 THEN <<>>
                            ELSE IF s[n] \in S THEN Append(kept[n - 1], s[n])
                                 ELSE kept[n - 1]]
           T == {k \in 0..N : \E kept : Is(kept, k)}
<1>0. N \in Nat
  OBVIOUS
<1>1. 0 \in T
  <2>1. Is([n \in 0..0 |-> <<>>], 0)
    OBVIOUS
  <2>2. \E kept : Is(kept, 0)
    BY <2>1
  <2> HIDE DEF Is
  <2> QED
    BY <1>0, <2>2
<1>2. ASSUME NEW k \in 1..N, k - 1 \in T PROVE k \in T
  <2>1. PICK kept : Is(kept, k - 1)
    BY <1>2
  <2> DEFINE last == IF s[k] \in S THEN Append(kept[k - 1], s[k]) ELSE kept[k - 1]
             next == [n \in 0..k |-> IF n = k THEN last ELSE kept[n]]
  <2>2. ASSUME NEW n \in 0..k
        PROVE  next[n] = IF n = 0 THEN <<>>
                         ELSE IF s[n] \in S THEN Append(next[n - 1], s[n])
                              ELSE next[n - 1]
    <3>1. CASE n = k
      <4>1. next[n] = last /\ next[n - 1] = kept[n - 1] /\ n # 0
        BY <3>1
      <4> QED
        BY <3>1, <4>1
    <3>2. CASE n # k
      <4>1. n \in 0..(k - 1)
        BY <3>2
      <4>2. next[n] = kept[n] /\ (n # 0 => next[n - 1] = kept[n - 1])
        BY <3>2
      <4> QED
        BY <2>1, <4>1, <4>2
    <3> QED
      BY <3>1, <3>2
  <2>3. Is(next, k)
    <3> HIDE DEF last
    <3> QED
      BY <2>2
  <2>4. \E f : Is(f, k)
    BY <2>3
  <2> HIDE DEF Is
  <2> QED
    BY <1>0, <2>4
<1> HIDE DEF Is, T, N
<1>3. \A k \in 0..N : k \in T
  BY <1>0, <1>1, <1>2, UpTo
<1>4. N \in T
  BY <1>0, <1>3
<1> QED
  BY <1>4 DEF Is, T, N

LEMMA RetainedDef ==
  ASSUME NEW s, NEW S, Len(s) \in Nat
  PROVE  /\ Retained(s, S)[0] = <<>>
         /\ \A n \in 1..Len(s) :
              Retained(s, S)[n] = IF s[n] \in S THEN Append(Retained(s, S)[n - 1], s[n])
                                     ELSE Retained(s, S)[n - 1]
<1> DEFINE Is(kept) == kept = [n \in 0..Len(s) |->
                            IF n = 0 THEN <<>>
                            ELSE IF s[n] \in S THEN Append(kept[n - 1], s[n])
                                 ELSE kept[n - 1]]
           f == Retained(s, S)
<1>1. \E kept : Is(kept)
  BY RetainedExists
<1>2. f = CHOOSE kept : Is(kept)
  BY DEF Retained
<1>3. Is(f)
  <2> HIDE DEF Is, f
  <2> QED
    BY <1>1, <1>2
<1> HIDE DEF f
<1>4. f[0] = <<>>
  BY <1>3
<1>5. ASSUME NEW n \in 1..Len(s)
      PROVE  f[n] = IF s[n] \in S THEN Append(f[n - 1], s[n]) ELSE f[n - 1]
  <2>1. n \in 0..Len(s) /\ n # 0
    OBVIOUS
  <2> QED
    BY <1>3, <2>1
<1> QED
  BY <1>4, <1>5 DEF f

\* A sequence that is a part of another one, in the same order.
Picks(at, part, s) ==
  /\ at \in [1..Len(part) -> 1..Len(s)]
  /\ \A i \in 1..Len(part) : part[i] = s[at[i]]
  /\ \A i, j \in 1..Len(part) : i < j => at[i] < at[j]

\* The part of the first n entries that is in S.
Leaves(at, part, s, S, n) ==
  /\ Picks(at, part, s)
  /\ \A i \in 1..Len(part) : at[i] \in 1..n /\ s[at[i]] \in S
  /\ \A j \in 1..n : s[j] \in S => \E i \in 1..Len(part) : at[i] = j

\* What retain leaves: all the members of S, in their order, and nothing else.
LEMMA RetainedPicks ==
  ASSUME NEW E, NEW s \in Seq(E), NEW S
  PROVE  \A n \in 0..Len(s) :
           /\ Retained(s, S)[n] \in Seq(E) /\ Len(Retained(s, S)[n]) <= n
           /\ \E at : Leaves(at, Retained(s, S)[n], s, S, n)
<1> DEFINE N == Len(s)
           f == Retained(s, S)
           Good(at, n) == Leaves(at, f[n], s, S, n)
           T == {n \in 0..N : f[n] \in Seq(E) /\ Len(f[n]) <= n /\ \E at : Good(at, n)}
<1>0. N \in Nat
  OBVIOUS
<1>a. f[0] = <<>> /\ \A n \in 1..N :
        f[n] = IF s[n] \in S THEN Append(f[n - 1], s[n]) ELSE f[n - 1]
  BY <1>0, RetainedDef
<1> HIDE DEF f
<1>1. 0 \in T
  <2>1. Good(<<>>, 0)
    BY <1>0, <1>a DEF Picks, Leaves
  <2>2. f[0] \in Seq(E) /\ Len(f[0]) <= 0
    BY <1>a
  <2> HIDE DEF Good
  <2> QED
    BY <1>0, <2>1, <2>2
<1>2. ASSUME NEW n \in 1..N, n - 1 \in T PROVE n \in T
  <2>1. f[n - 1] \in Seq(E) /\ Len(f[n - 1]) <= n - 1 /\ Len(f[n - 1]) \in Nat
    BY <1>2
  <2>2. PICK at : Good(at, n - 1)
    BY <1>2
  <2>3. CASE s[n] \notin S
    <3>1. f[n] = f[n - 1]
      BY <1>a, <2>3
    <3>2. \A j \in 1..n : s[j] \in S => j \in 1..(n - 1)
      BY <2>3
    <3>3. Good(at, n)
      BY <2>2, <3>1, <3>2 DEF Leaves
    <3> HIDE DEF Good
    <3> QED
      BY <2>1, <3>1, <3>3
  <2>4. CASE s[n] \in S
    <3> DEFINE k == Len(f[n - 1])
               next == [i \in 1..(k + 1) |-> IF i = k + 1 THEN n ELSE at[i]]
    <3>1. f[n] = Append(f[n - 1], s[n])
      BY <1>a, <2>4
    <3>2. /\ f[n] \in Seq(E) /\ Len(f[n]) = k + 1 /\ f[n][k + 1] = s[n]
          /\ \A i \in 1..k : f[n][i] = f[n - 1][i]
      BY <2>1, <3>1
    <3>3. /\ \A i \in 1..k : at[i] \in 1..(n - 1) /\ f[n - 1][i] = s[at[i]] /\ s[at[i]] \in S
          /\ \A i, j \in 1..k : i < j => at[i] < at[j]
          /\ \A j \in 1..(n - 1) : s[j] \in S => \E i \in 1..k : at[i] = j
      BY <2>2 DEF Leaves, Picks
    <3>4. /\ DOMAIN next = 1..(k + 1) /\ next = [i \in 1..(k + 1) |-> next[i]]
          /\ next[k + 1] = n /\ k \in Nat
          /\ \A i \in 1..k : next[i] = at[i]
          /\ \A i \in 1..(k + 1) : i \in 1..k \/ i = k + 1
          /\ \A i \in 1..k : i \in 1..(k + 1)
          /\ k + 1 \in 1..(k + 1) /\ n \in Nat /\ n \in 1..n
          /\ \A i, j \in 1..(k + 1) : i < j => i \in 1..k
          /\ k + 1 <= n
      BY <1>0, <2>1
    <3> HIDE DEF k, next
    <3>5. \A i \in 1..(k + 1) : next[i] \in 1..n /\ f[n][i] = s[next[i]] /\ s[next[i]] \in S
      <4>1. ASSUME NEW i \in 1..k
            PROVE  next[i] \in 1..n /\ f[n][i] = s[next[i]] /\ s[next[i]] \in S
        <5>1. next[i] = at[i] /\ at[i] \in 1..(n - 1) /\ f[n - 1][i] = s[at[i]] /\ s[at[i]] \in S
          BY <3>3, <3>4
        <5>2. f[n][i] = f[n - 1][i]
          BY <3>2
        <5>3. next[i] \in 1..n
          BY <3>4, <5>1
        <5> QED
          BY <5>1, <5>2, <5>3
      <4>2. next[k + 1] \in 1..n /\ f[n][k + 1] = s[next[k + 1]] /\ s[next[k + 1]] \in S
        BY <2>4, <3>2, <3>4
      <4> QED
        BY <3>4, <4>1, <4>2
    <3>6. ASSUME NEW i \in 1..(k + 1), NEW j \in 1..(k + 1), i < j PROVE next[i] < next[j]
      <4>1. i \in 1..k /\ next[i] = at[i] /\ at[i] \in 1..(n - 1)
        BY <3>3, <3>4, <3>6
      <4>2. CASE j = k + 1
        BY <3>4, <4>1, <4>2
      <4>3. CASE j \in 1..k
        BY <3>3, <3>4, <3>6, <4>1, <4>3
      <4> QED
        BY <3>4, <4>2, <4>3
    <3>7. ASSUME NEW j \in 1..n, s[j] \in S PROVE \E i \in 1..(k + 1) : next[i] = j
      <4>1. CASE j = n
        BY <3>4, <4>1
      <4>2. CASE j # n
        <5>1. PICK i \in 1..k : at[i] = j
          BY <3>3, <3>7, <4>2
        <5> QED
          BY <3>4, <5>1
      <4> QED
        BY <4>1, <4>2
    <3>8. Good(next, n)
      <4>1. next \in [1..(k + 1) -> 1..N]
        BY <3>4, <3>5
      <4> QED
        BY <3>2, <3>5, <3>6, <3>7, <4>1 DEF Picks, Leaves
    <3> HIDE DEF Good
    <3> QED
      BY <3>2, <3>4, <3>8
  <2> QED
    BY <2>3, <2>4
<1> HIDE DEF T
<1>3. \A n \in 0..N : n \in T
  BY <1>0, <1>1, <1>2, UpTo
<1> QED
  BY <1>3 DEF T, f

LEMMA RetainPicks ==
  ASSUME NEW E, NEW s \in Seq(E), NEW S
  PROVE  /\ Retain(s, S) \in Seq(E) /\ Len(Retain(s, S)) <= Len(s)
         /\ \E at : Leaves(at, Retain(s, S), s, S, Len(s))
<1>1. Len(s) \in 0..Len(s)
  OBVIOUS
<1> QED
  BY <1>1, RetainedPicks DEF Retain

-----------------------------------------------------------------------------
(* Rings *)

\* Any reports: their ids, and sizes and times that are numbers.
Sized(R) == \A r \in R : r.collected \in Nat /\ r.size \in Nat

Entries(R) == [report : R, deadline : Nat]

\* Soonest expiry first, and no report twice.
Sorted(ring) ==
  \A i, j \in DOMAIN ring : i < j =>
    /\ Expires(ring[i].report) <= Expires(ring[j].report)
    /\ ring[i].report.id # ring[j].report.id

\* What holds of a ring between any two operations.
Orderly(ring) == Fits(ring) /\ Sorted(ring)

-----------------------------------------------------------------------------
(* Sums *)

\* The recursive definition of Sums defines a function.
LEMMA SumsExist ==
  ASSUME NEW ring, Len(ring) \in Nat
  PROVE  \E sum : sum = [n \in 0..Len(ring) |->
                           IF n = 0 THEN 0 ELSE sum[n - 1] + ring[n].report.size]
<1> DEFINE N == Len(ring)
           Is(sum, k) == sum = [n \in 0..k |-> IF n = 0 THEN 0 ELSE sum[n - 1] + ring[n].report.size]
           S == {k \in 0..N : \E sum : Is(sum, k)}
<1>0. N \in Nat
  OBVIOUS
<1>1. 0 \in S
  <2>1. Is([n \in 0..0 |-> 0], 0)
    OBVIOUS
  <2>2. \E sum : Is(sum, 0)
    BY <2>1
  <2> HIDE DEF Is
  <2> QED
    BY <1>0, <2>2
<1>2. ASSUME NEW k \in 1..N, k - 1 \in S PROVE k \in S
  <2>1. PICK sum : Is(sum, k - 1)
    BY <1>2
  <2> DEFINE next == [n \in 0..k |-> IF n = k THEN sum[k - 1] + ring[k].report.size ELSE sum[n]]
  <2>2. ASSUME NEW n \in 0..k
        PROVE  next[n] = IF n = 0 THEN 0 ELSE next[n - 1] + ring[n].report.size
    <3>1. CASE n = k
      BY <3>1
    <3>2. CASE n # k
      <4>1. n \in 0..(k - 1)
        BY <3>2
      <4>2. next[n] = sum[n] /\ (n # 0 => next[n - 1] = sum[n - 1])
        BY <3>2
      <4> QED
        BY <2>1, <4>1, <4>2
    <3> QED
      BY <3>1, <3>2
  <2>3. Is(next, k)
    BY <2>2
  <2>4. \E f : Is(f, k)
    BY <2>3
  <2> HIDE DEF Is
  <2> QED
    BY <1>0, <2>4
<1> HIDE DEF Is, S, N
<1>3. \A k \in 0..N : k \in S
  BY <1>0, <1>1, <1>2, UpTo
<1>4. N \in S
  BY <1>0, <1>3
<1> QED
  BY <1>4 DEF Is, S, N

LEMMA SumsDef ==
  ASSUME NEW R, Sized(R), NEW ring \in Seq(Entries(R))
  PROVE  /\ Sums(ring)[0] = 0
         /\ \A n \in 1..Len(ring) : Sums(ring)[n] = Sums(ring)[n - 1] + ring[n].report.size
         /\ \A n \in 0..Len(ring) : Sums(ring)[n] \in Nat
<1>1. Len(ring) \in Nat
  OBVIOUS
<1>2. Sums(ring) = [n \in 0..Len(ring) |->
                      IF n = 0 THEN 0 ELSE Sums(ring)[n - 1] + ring[n].report.size]
  BY <1>1, SumsExist DEF Sums
<1>3. Sums(ring)[0] = 0
  BY <1>1, <1>2
<1>4. \A n \in 1..Len(ring) : Sums(ring)[n] = Sums(ring)[n - 1] + ring[n].report.size
  BY <1>1, <1>2
<1> DEFINE S == {n \in 0..Len(ring) : Sums(ring)[n] \in Nat}
<1>5. ASSUME NEW n \in 1..Len(ring), n - 1 \in S PROVE n \in S
  <2>1. ring[n] \in Entries(R)
    OBVIOUS
  <2>2. ring[n].report.size \in Nat
    BY <2>1 DEF Entries, Sized
  <2> QED
    BY <1>4, <1>5, <2>2
<1>6. 0 \in S
  BY <1>1, <1>3
<1> HIDE DEF S
<1>7. \A n \in 0..Len(ring) : n \in S
  BY <1>1, <1>5, <1>6, UpTo
<1> QED
  BY <1>3, <1>4, <1>7 DEF S

\* Sums over the same entries are the same.
LEMMA SumsAgree ==
  ASSUME NEW R, Sized(R), NEW a \in Seq(Entries(R)), NEW b \in Seq(Entries(R)),
         NEW N \in Nat, N <= Len(a), N <= Len(b), \A i \in 1..N : a[i] = b[i]
  PROVE  \A n \in 0..N : Sums(a)[n] = Sums(b)[n]
<1> DEFINE S == {n \in 0..N : Sums(a)[n] = Sums(b)[n]}
<1>1. 0 \in S
  BY SumsDef
<1>2. ASSUME NEW n \in 1..N, n - 1 \in S PROVE n \in S
  <2>1. n \in 1..Len(a) /\ n \in 1..Len(b)
    OBVIOUS
  <2>2. Sums(a)[n] = Sums(a)[n - 1] + a[n].report.size
    BY <2>1, SumsDef
  <2>3. Sums(b)[n] = Sums(b)[n - 1] + b[n].report.size
    BY <2>1, SumsDef
  <2> QED
    BY <1>2, <2>2, <2>3
<1> HIDE DEF S
<1>3. \A n \in 0..N : n \in S
  BY <1>1, <1>2, UpTo
<1> QED
  BY <1>3 DEF S

LEMMA BytesType ==
  ASSUME NEW R, Sized(R), NEW ring \in Seq(Entries(R))
  PROVE  Bytes(ring) \in Nat
BY SumsDef DEF Bytes

LEMMA BytesAppend ==
  ASSUME NEW R, Sized(R), NEW ring \in Seq(Entries(R)), NEW e \in Entries(R)
  PROVE  Bytes(Append(ring, e)) = Bytes(ring) + e.report.size
<1> DEFINE N == Len(ring)
           next == Append(ring, e)
<1>1. next \in Seq(Entries(R)) /\ Len(next) = N + 1 /\ next[N + 1] = e /\ N \in Nat
  OBVIOUS
<1>2. \A i \in 1..N : next[i] = ring[i]
  OBVIOUS
<1>3. Sums(next)[N] = Sums(ring)[N]
  <2> HIDE DEF next
  <2>1. \A n \in 0..N : Sums(next)[n] = Sums(ring)[n]
    BY <1>1, <1>2, SumsAgree
  <2> QED
    BY <1>1, <2>1
<1> HIDE DEF next
<1>4. Sums(next)[N + 1] = Sums(next)[N] + e.report.size
  <2>1. N + 1 \in 1..Len(next)
    BY <1>1
  <2>2. Sums(next)[N + 1] = Sums(next)[N + 1 - 1] + next[N + 1].report.size
    BY <1>1, <2>1, SumsDef
  <2> QED
    BY <1>1, <2>2
<1>5. Bytes(next) = Bytes(ring) + e.report.size
  BY <1>1, <1>3, <1>4 DEF Bytes
<1> QED
  BY <1>5 DEF next

\* The empty ring fits.
LEMMA EmptyFits == Fits(<<>>) /\ Sorted(<<>>)
<1> DEFINE none == <<>>
<1>1. Sums(none)[0] = 0
  <2>1. none \in Seq(Entries({})) /\ Sized({})
    BY DEF Sized
  <2> HIDE DEF none
  <2> QED
    BY <2>1, SumsDef
<1>2. Bytes(<<>>) = 0
  BY <1>1 DEF Bytes
<1> QED
  BY <1>2, RingAssumption DEF Fits, Sorted

-----------------------------------------------------------------------------
(* The size of what retain leaves *)

\* It is no larger.
LEMMA RetainBytes ==
  ASSUME NEW R, Sized(R), NEW ring \in Seq(Entries(R)), NEW S
  PROVE  Bytes(Retain(ring, S)) <= Bytes(ring)
<1> DEFINE N == Len(ring)
           f == Retained(ring, S)
           T == {n \in 0..N : Bytes(f[n]) <= Sums(ring)[n]}
<1>0. N \in Nat
  OBVIOUS
<1>1. \A n \in 0..N : f[n] \in Seq(Entries(R))
  BY RetainedPicks
<1>2. f[0] = <<>> /\ \A n \in 1..N :
        f[n] = IF ring[n] \in S THEN Append(f[n - 1], ring[n]) ELSE f[n - 1]
  BY <1>0, RetainedDef
<1> HIDE DEF f
<1>3. 0 \in T
  <2>1. f[0] \in Seq(Entries(R)) /\ Len(f[0]) = 0
    BY <1>0, <1>1, <1>2
  <2>2. Bytes(f[0]) = 0
    BY <2>1, SumsDef DEF Bytes
  <2> QED
    BY <1>0, <2>2, SumsDef
<1>4. ASSUME NEW n \in 1..N, n - 1 \in T PROVE n \in T
  <2>1. ring[n] \in Entries(R) /\ ring[n].report.size \in Nat
    <3>1. ring[n] \in Entries(R)
      OBVIOUS
    <3> QED
      BY <3>1 DEF Entries, Sized
  <2>2. f[n - 1] \in Seq(Entries(R)) /\ Bytes(f[n - 1]) \in Nat
    BY <1>1, BytesType
  <2>3. Sums(ring)[n] = Sums(ring)[n - 1] + ring[n].report.size /\ Sums(ring)[n - 1] \in Nat
    BY SumsDef
  <2>4. f[n] = Append(f[n - 1], ring[n]) \/ f[n] = f[n - 1]
    BY <1>2
  <2>5. Bytes(f[n]) <= Bytes(f[n - 1]) + ring[n].report.size
    <3> HIDE DEF N, T
    <3>1. Bytes(Append(f[n - 1], ring[n])) = Bytes(f[n - 1]) + ring[n].report.size
      BY <2>1, <2>2, BytesAppend
    <3>2. CASE f[n] = Append(f[n - 1], ring[n])
      BY <2>1, <2>2, <3>1, <3>2
    <3>3. CASE f[n] = f[n - 1]
      BY <2>1, <2>2, <3>3
    <3> QED
      BY <2>4, <3>2, <3>3
  <2>6. Bytes(f[n]) \in Nat /\ Bytes(f[n - 1]) <= Sums(ring)[n - 1]
    <3>1. f[n] \in Seq(Entries(R))
      BY <1>1
    <3> QED
      BY <1>4, <3>1, BytesType
  <2> QED
    BY <2>1, <2>2, <2>3, <2>5, <2>6
<1> HIDE DEF T
<1>5. \A n \in 0..N : n \in T
  BY <1>0, <1>3, <1>4, UpTo
<1> QED
  BY <1>0, <1>5 DEF T, f, Retain, Bytes

-----------------------------------------------------------------------------
(* The operations keep a ring orderly *)

LEMMA RetainOrderly ==
  ASSUME NEW R, Sized(R), NEW ring \in Seq(Entries(R)), Orderly(ring), NEW S
  PROVE  Retain(ring, S) \in Seq(Entries(R)) /\ Orderly(Retain(ring, S))
<1> DEFINE part == Retain(ring, S)
<1>1. part \in Seq(Entries(R)) /\ Len(part) <= Len(ring)
  BY RetainPicks
<1>2. PICK at : Leaves(at, part, ring, S, Len(ring))
  BY RetainPicks
<1>3. Bytes(part) \in Nat /\ Bytes(ring) \in Nat /\ Bytes(part) <= Bytes(ring)
  BY RetainBytes, <1>1, BytesType
<1> HIDE DEF part
<1>4. Fits(part)
  BY <1>1, <1>3, RingAssumption DEF Orderly, Fits
<1>5. ASSUME NEW i \in DOMAIN part, NEW j \in DOMAIN part, i < j
      PROVE  /\ Expires(part[i].report) <= Expires(part[j].report)
             /\ part[i].report.id # part[j].report.id
  <2>1. /\ at[i] \in DOMAIN ring /\ at[j] \in DOMAIN ring /\ at[i] < at[j]
        /\ part[i] = ring[at[i]] /\ part[j] = ring[at[j]]
    BY <1>1, <1>2, <1>5 DEF Leaves, Picks
  <2> QED
    BY <2>1 DEF Orderly, Sorted
<1> QED
  BY <1>1, <1>4, <1>5 DEF Orderly, Sorted, part

LEMMA ExpiresType ==
  ASSUME NEW R, Sized(R), NEW ring \in Seq(Entries(R)), NEW i \in DOMAIN ring
  PROVE  ring[i] \in Entries(R) /\ ring[i].report \in R /\ Expires(ring[i].report) \in Nat
<1>1. ring[i] \in Entries(R)
  OBVIOUS
<1> QED
  BY <1>1, RingAssumption DEF Entries, Sized, Expires

\* A new entry goes behind those that expire no later, before the rest.
LEMMA InsertPlace ==
  ASSUME NEW R, Sized(R), NEW ring \in Seq(Entries(R)), Sorted(ring), NEW e \in Entries(R)
  PROVE  \E m \in 1..(Len(ring) + 1) :
           /\ Insert(ring, e) = InsertAt(ring, m, e)
           /\ \A i \in 1..Len(ring) :
                i < m <=> Expires(ring[i].report) <= Expires(e.report)
<1> DEFINE N == Len(ring)
           Sooner(i) == Expires(ring[i].report) <= Expires(e.report)
           before == {i \in DOMAIN ring : Sooner(i)}
           T == {i \in 1..(N + 1) : i \notin before}
<1>1. N \in Nat /\ DOMAIN ring = 1..N
  OBVIOUS
<1>2. Expires(e.report) \in Nat /\ \A i \in 1..N : Expires(ring[i].report) \in Nat
  <2>1. e.report \in R
    BY DEF Entries
  <2> QED
    BY <1>1, <2>1, ExpiresType, RingAssumption DEF Expires, Sized
<1>3. T # {} /\ T \subseteq Nat
  <2>1. N + 1 \in 1..(N + 1) /\ N + 1 \notin 1..N /\ 1..(N + 1) \subseteq Nat
    BY ONLY <1>1
  <2> QED BY <1>1, <2>1
<1>4. PICK m \in T : \A i \in T : m <= i
  BY <1>3, Least
<1>5. m \in 1..(N + 1) /\ \A i \in 1..(m - 1) : i \in before
  BY <1>1, <1>4
<1>6. ASSUME NEW i \in before PROVE i \in 1..(m - 1)
  <2>1. i \in 1..N /\ Sooner(i)
    BY <1>1
  <2>2. CASE m <= i
    <3>1. m \in 1..N
      BY <1>1, <1>5, <2>1, <2>2
    <3>2. Expires(ring[m].report) <= Expires(ring[i].report)
      BY <1>1, <1>2, <2>1, <2>2, <3>1 DEF Sorted
    <3>3. Sooner(m)
      BY <1>2, <2>1, <3>1, <3>2
    <3>4. m \in before
      BY <1>1, <3>1, <3>3
    <3> QED
      BY <1>4, <3>4
  <2> QED
    BY <1>1, <1>5, <2>1, <2>2
<1>7. before = 1..(m - 1)
  BY <1>5, <1>6
<1>8. Cardinality(before) + 1 = m
  <2>1. m - 1 \in Int /\ 1 \in Int
    BY <1>1, <1>5
  <2>2. Cardinality(1..(m - 1)) = IF 1 > m - 1 THEN 0 ELSE m - 1 - 1 + 1
    BY <2>1, FS_Interval
  <2>3. m \in Nat /\ m >= 1
    BY <1>1, <1>5
  <2> HIDE DEF before, T
  <2> QED
    BY <1>7, <2>2, <2>3
<1>9. Insert(ring, e) = InsertAt(ring, m, e)
  BY <1>8 DEF Insert
<1>10. \A i \in 1..N : i < m <=> Sooner(i)
  <2> HIDE DEF Sooner
  <2>1. \A i \in 1..N : i \in before <=> Sooner(i)
    BY <1>1
  <2> QED
    BY <1>1, <1>5, <1>7, <2>1
<1> QED
  BY <1>5, <1>9, <1>10

LEMMA InsertAtProperties ==
  ASSUME NEW E, NEW s \in Seq(E), NEW m \in 1..(Len(s) + 1), NEW e \in E
  PROVE  /\ InsertAt(s, m, e) \in Seq(E) /\ Len(InsertAt(s, m, e)) = Len(s) + 1
         /\ \A i \in 1..(Len(s) + 1) :
              InsertAt(s, m, e)[i] = IF i < m THEN s[i] ELSE IF i = m THEN e ELSE s[i - 1]
<1> DEFINE N == Len(s)
           a == SubSeq(s, 1, m - 1)
           b == SubSeq(s, m, N)
<1>1. N \in Nat /\ m \in Nat /\ \A i \in 1..N : s[i] \in E
  OBVIOUS
<1>2. /\ a \in Seq(E) /\ Len(a) = m - 1 /\ \A i \in 1..(m - 1) : a[i] = s[i]
  BY <1>1, SubSeqProperties
<1>3. /\ b \in Seq(E) /\ Len(b) = N - m + 1 /\ \A i \in 1..(N - m + 1) : b[i] = s[m + i - 1]
  BY <1>1, SubSeqProperties
<1>4. InsertAt(s, m, e) = a \o <<e>> \o b
  BY DEF InsertAt
<1> HIDE DEF a, b
<1>5. /\ a \o <<e>> \in Seq(E) /\ Len(a \o <<e>>) = m
      /\ \A i \in 1..m : (a \o <<e>>)[i] = IF i < m THEN s[i] ELSE e
  BY <1>1, <1>2
<1> DEFINE c == a \o <<e>>
<1>a. c \in Seq(E) /\ Len(c) = m /\ \A i \in 1..m : c[i] = IF i < m THEN s[i] ELSE e
  BY <1>5
<1> HIDE DEF c
<1>6. /\ c \o b \in Seq(E) /\ Len(c \o b) = N + 1
      /\ \A i \in 1..(N + 1) : (c \o b)[i] = IF i <= m THEN c[i] ELSE b[i - m]
  <2>1. c \o b \in Seq(E) /\ Len(c \o b) = Len(c) + Len(b)
        /\ \A i \in 1..(Len(c) + Len(b)) :
             (c \o b)[i] = IF i <= Len(c) THEN c[i] ELSE b[i - Len(c)]
    BY <1>3, <1>a, ConcatProperties
  <2>2. Len(c) + Len(b) = N + 1
    BY <1>1, <1>3, <1>a
  <2> QED
    BY <1>a, <2>1, <2>2
<1>7. ASSUME NEW i \in 1..(N + 1)
      PROVE  (c \o b)[i] = IF i < m THEN s[i] ELSE IF i = m THEN e ELSE s[i - 1]
  <2>1. CASE i <= m
    <3>1. i \in 1..m /\ (c \o b)[i] = c[i]
      BY <1>1, <1>6, <2>1
    <3>2. c[i] = IF i < m THEN s[i] ELSE e
      BY <1>a, <3>1
    <3> QED
      BY <2>1, <3>1, <3>2
  <2>2. CASE i > m
    <3>1. i - m \in 1..(N - m + 1) /\ m + (i - m) - 1 = i - 1
      BY <1>1, <2>2
    <3>2. b[i - m] = s[i - 1]
      BY <1>3, <3>1
    <3> QED
      BY <1>1, <1>6, <2>2, <3>2
  <2>3. i <= m \/ i > m
    BY <1>1
  <2> QED
    BY <2>1, <2>2, <2>3
<1> QED
  BY <1>4, <1>6, <1>7 DEF c

LEMMA InsertSorted ==
  ASSUME NEW R, Sized(R), NEW ring \in Seq(Entries(R)), Sorted(ring), NEW e \in Entries(R),
         e.report.id \notin Ids(ring)
  PROVE  /\ Insert(ring, e) \in Seq(Entries(R)) /\ Len(Insert(ring, e)) = Len(ring) + 1
         /\ Sorted(Insert(ring, e))
<1> DEFINE N == Len(ring)
           next == Insert(ring, e)
<1>1. PICK m \in 1..(N + 1) :
           /\ next = InsertAt(ring, m, e)
           /\ \A i \in 1..N : i < m <=> Expires(ring[i].report) <= Expires(e.report)
  BY InsertPlace
<1>2. /\ next \in Seq(Entries(R)) /\ Len(next) = N + 1 /\ N \in Nat
      /\ \A i \in 1..(N + 1) :
           next[i] = IF i < m THEN ring[i] ELSE IF i = m THEN e ELSE ring[i - 1]
  <2>1. /\ InsertAt(ring, m, e) \in Seq(Entries(R)) /\ Len(InsertAt(ring, m, e)) = Len(ring) + 1
        /\ \A i \in 1..(Len(ring) + 1) :
             InsertAt(ring, m, e)[i] = IF i < m THEN ring[i] ELSE IF i = m THEN e ELSE ring[i - 1]
    <3>1. m \in 1..(Len(ring) + 1)
      BY <1>1
    <3> HIDE DEF N, next
    <3> QED
      BY <3>1, InsertAtProperties, SMTT(30)
  <2>2. next = InsertAt(ring, m, e) /\ N \in Nat
    BY <1>1
  <2> HIDE DEF next
  <2> QED
    BY <2>1, <2>2
<1> HIDE DEF next
<1>3. DOMAIN next = 1..(N + 1)
  BY <1>2
<1>4. /\ \A i \in 1..N : ring[i].report.id # e.report.id
      /\ \A i \in 1..N : Expires(ring[i].report) \in Nat
      /\ Expires(e.report) \in Nat
  <2>1. e.report \in R
    BY DEF Entries
  <2> QED
    BY <2>1, ExpiresType, RingAssumption DEF Ids, Expires, Sized
<1>5. ASSUME NEW i \in 1..(N + 1), NEW j \in 1..(N + 1), i < j
      PROVE  /\ Expires(next[i].report) <= Expires(next[j].report)
             /\ next[i].report.id # next[j].report.id
  <2>1. CASE i < m /\ j < m
    <3>1. i \in 1..N /\ j \in 1..N /\ next[i] = ring[i] /\ next[j] = ring[j]
      BY <1>1, <1>2, <2>1
    <3> QED
      BY <1>5, <3>1 DEF Sorted
  <2>2. CASE i < m /\ j = m
    <3>1. i \in 1..N /\ next[i] = ring[i] /\ next[j] = e
      BY <1>1, <1>2, <2>2
    <3> QED
      BY <1>1, <1>4, <2>2, <3>1
  <2>3. CASE i < m /\ j > m
    <3>1. i \in 1..N /\ j - 1 \in 1..N /\ next[i] = ring[i] /\ next[j] = ring[j - 1] /\ i < j - 1
      BY <1>1, <1>2, <2>3
    <3> QED
      BY <3>1 DEF Sorted
  <2>4. CASE i = m /\ j > m
    <3>1. j - 1 \in 1..N /\ next[i] = e /\ next[j] = ring[j - 1] /\ ~(j - 1 < m)
      BY <1>1, <1>2, <2>4
    <3>2. ~(Expires(ring[j - 1].report) <= Expires(e.report))
      BY <1>1, <3>1
    <3>3. Expires(ring[j - 1].report) \in Nat /\ ring[j - 1].report.id # e.report.id
      BY <1>4, <3>1
    <3> QED
      BY <1>4, <3>1, <3>2, <3>3
  <2>5. CASE i > m /\ j > m
    <3>1. /\ i - 1 \in 1..N /\ j - 1 \in 1..N /\ next[i] = ring[i - 1] /\ next[j] = ring[j - 1]
          /\ i - 1 < j - 1
      BY <1>1, <1>2, <1>5, <2>5
    <3> QED
      BY <3>1 DEF Sorted
  <2> QED
    BY <1>1, <1>2, <1>5, <2>1, <2>2, <2>3, <2>4, <2>5
<1> QED
  BY <1>2, <1>3, <1>5 DEF Sorted, next

\* Evict always finds a rest that fits, and takes no more than it must.
LEMMA EvictRest ==
  ASSUME NEW R, Sized(R), NEW ring \in Seq(Entries(R))
  PROVE  \E n \in 0..Len(ring) :
           /\ Evict(ring) = SubSeq(ring, n + 1, Len(ring))
           /\ Fits(SubSeq(ring, n + 1, Len(ring)))
           /\ \A m \in 0..(n - 1) : ~Fits(SubSeq(ring, m + 1, Len(ring)))
<1> DEFINE N == Len(ring)
           Rest(n) == SubSeq(ring, n + 1, N)
           T == {n \in 0..N : Fits(Rest(n))}
           First(n) == Fits(Rest(n)) /\ \A m \in 0..(n - 1) : ~Fits(Rest(m))
<1>1. N \in Nat
  OBVIOUS
<1>2. Fits(Rest(N))
  <2>1. N + 1 \in Int /\ N \in Int /\ N < N + 1
    BY <1>1
  <2>2. Rest(N) = <<>>
    BY <2>1, SubSeqEmpty
  <2> QED
    BY <2>2, EmptyFits
<1> HIDE DEF Rest
<1>3. N \in T /\ T \subseteq Nat
  BY <1>1, <1>2
<1>4. PICK n \in T : \A m \in T : n <= m
  BY <1>3, Least
<1>5. n \in 0..N /\ First(n)
  BY <1>1, <1>4
<1>6. \E k \in 0..N : First(k)
  BY <1>5
<1> DEFINE c == CHOOSE k \in 0..N : First(k)
<1>7. c \in 0..N /\ First(c)
  <2> HIDE DEF First
  <2> QED
    BY <1>6
<1>8. Evict(ring) = Rest(c)
  BY DEF Evict, Rest
<1> HIDE DEF c
<1> QED
  BY <1>7, <1>8 DEF Rest

LEMMA SuffixSorted ==
  ASSUME NEW R, NEW ring \in Seq(Entries(R)), Sorted(ring), NEW n \in 0..Len(ring)
  PROVE  /\ SubSeq(ring, n + 1, Len(ring)) \in Seq(Entries(R))
         /\ Sorted(SubSeq(ring, n + 1, Len(ring)))
<1> DEFINE N == Len(ring)
           rest == SubSeq(ring, n + 1, N)
<1>1. N \in Nat /\ n \in Nat /\ n <= N /\ \A i \in (n + 1)..N : ring[i] \in Entries(R)
  OBVIOUS
<1>2. /\ rest \in Seq(Entries(R)) /\ Len(rest) = N - n
      /\ \A i \in 1..(N - n) : rest[i] = ring[n + i]
  <2>1. /\ rest \in Seq(Entries(R)) /\ Len(rest) = (IF n + 1 <= N THEN N - (n + 1) + 1 ELSE 0)
        /\ \A i \in 1..(N - (n + 1) + 1) : rest[i] = ring[n + 1 + i - 1]
    BY <1>1, SubSeqProperties
  <2> HIDE DEF rest, N
  <2>2. Len(rest) = N - n
    BY <1>1, <2>1
  <2>3. ASSUME NEW i \in 1..(N - n) PROVE rest[i] = ring[n + i]
    <3>1. i \in 1..(N - (n + 1) + 1) /\ n + 1 + i - 1 = n + i
      BY <1>1
    <3> QED
      BY <2>1, <3>1
  <2> QED
    BY <2>1, <2>2, <2>3
<1> HIDE DEF rest
<1>3. ASSUME NEW i \in DOMAIN rest, NEW j \in DOMAIN rest, i < j
      PROVE  /\ Expires(rest[i].report) <= Expires(rest[j].report)
             /\ rest[i].report.id # rest[j].report.id
  <2>1. /\ n + i \in DOMAIN ring /\ n + j \in DOMAIN ring /\ n + i < n + j
        /\ rest[i] = ring[n + i] /\ rest[j] = ring[n + j]
    BY <1>1, <1>2, <1>3
  <2> QED
    BY <2>1 DEF Sorted
<1> QED
  BY <1>2, <1>3 DEF Sorted, rest

LEMMA EvictOrderly ==
  ASSUME NEW R, Sized(R), NEW ring \in Seq(Entries(R)), Sorted(ring)
  PROVE  Evict(ring) \in Seq(Entries(R)) /\ Orderly(Evict(ring))
<1>1. PICK n \in 0..Len(ring) :
        /\ Evict(ring) = SubSeq(ring, n + 1, Len(ring))
        /\ Fits(SubSeq(ring, n + 1, Len(ring)))
        /\ \A m \in 0..(n - 1) : ~Fits(SubSeq(ring, m + 1, Len(ring)))
  BY EvictRest
<1>2. /\ SubSeq(ring, n + 1, Len(ring)) \in Seq(Entries(R))
      /\ Sorted(SubSeq(ring, n + 1, Len(ring)))
  BY SuffixSorted
<1> QED
  BY <1>1, <1>2 DEF Orderly

\* A valid report gets a deadline that is ahead, at most the time to live.
LEMMA EntryType ==
  ASSUME NEW R, Sized(R), NEW report \in R, NEW wall \in Int, NEW mono \in Nat,
         Expires(report) > wall
  PROVE  /\ EntryOf(report, wall, mono) \in Entries(R)
         /\ EntryOf(report, wall, mono).report = report
         /\ EntryOf(report, wall, mono).deadline <= mono + TTL
<1>1. Expires(report) \in Int /\ TTL \in Nat
  BY RingAssumption DEF Expires, Sized
<1>2. Lesser(Expires(report) - wall, TTL) \in Nat /\ Lesser(Expires(report) - wall, TTL) <= TTL
  BY <1>1 DEF Lesser
<1>3. mono + Lesser(Expires(report) - wall, TTL) \in Nat
  BY <1>2
<1> QED
  BY <1>1, <1>2, <1>3 DEF EntryOf, Entries

(* Every operation keeps a ring orderly, whatever the clocks are. *)

\* prune: what is left is within the limits and in order.
THEOREM PruneOrderly ==
  ASSUME NEW R, Sized(R), NEW ring \in Seq(Entries(R)), Orderly(ring), NEW wall, NEW mono
  PROVE  Prune(ring, wall, mono) \in Seq(Entries(R)) /\ Orderly(Prune(ring, wall, mono))
BY RetainOrderly DEF Prune

\* remove: so is what any batch leaves.
THEOREM RemoveOrderly ==
  ASSUME NEW R, Sized(R), NEW ring \in Seq(Entries(R)), Orderly(ring), NEW sent
  PROVE  RemoveBatch(ring, sent) \in Seq(Entries(R)) /\ Orderly(RemoveBatch(ring, sent))
BY RetainOrderly DEF RemoveBatch

\* push: a report that has not expired goes to its place, and the oldest make room for it.
THEOREM PushOrderly ==
  ASSUME NEW R, Sized(R), NEW ring \in Seq(Entries(R)), Orderly(ring),
         NEW report \in R, NEW wall \in Int, NEW mono \in Nat, Expires(report) > wall
  PROVE  /\ Push(ring, report, wall, mono) \in Seq(Entries(R))
         /\ Orderly(Push(ring, report, wall, mono))
<1> DEFINE kept == Prune(ring, wall, mono)
           entry == EntryOf(report, wall, mono)
<1>1. kept \in Seq(Entries(R)) /\ Orderly(kept)
  BY PruneOrderly
<1>2. entry \in Entries(R) /\ entry.report = report
  BY EntryType
<1>3. CASE report.id \in Ids(kept)
  BY <1>1, <1>3 DEF Push
<1>4. CASE report.id \notin Ids(kept)
  <2> HIDE DEF kept, entry
  <2>1. entry.report.id \notin Ids(kept) /\ Sorted(kept)
    BY <1>1, <1>2, <1>4 DEF Orderly
  <2>2. Insert(kept, entry) \in Seq(Entries(R)) /\ Sorted(Insert(kept, entry))
    BY <1>1, <1>2, <2>1, InsertSorted
  <2>3. Evict(Insert(kept, entry)) \in Seq(Entries(R)) /\ Orderly(Evict(Insert(kept, entry)))
    BY <2>2, EvictOrderly
  <2> QED
    BY <1>4, <2>3 DEF Push, kept, entry
<1> QED
  BY <1>3, <1>4

-----------------------------------------------------------------------------
(* What a push lets go *)

\* An entry at position m of what was a ring.
Inserted(next, ring, m, e) ==
  /\ m \in 1..(Len(ring) + 1) /\ Len(next) = Len(ring) + 1
  /\ \A i \in 1..(Len(ring) + 1) :
       next[i] = IF i < m THEN ring[i] ELSE IF i = m THEN e ELSE ring[i - 1]

\* An entry adds its size, wherever it goes.
LEMMA InsertSums ==
  ASSUME NEW R, Sized(R), NEW ring \in Seq(Entries(R)), NEW next \in Seq(Entries(R)),
         NEW e \in Entries(R), NEW m, Inserted(next, ring, m, e)
  PROVE  /\ \A n \in m..(Len(ring) + 1) :
              Sums(next)[n] = Sums(ring)[n - 1] + e.report.size
         /\ Bytes(next) = Bytes(ring) + e.report.size
<1> DEFINE N == Len(ring)
           S == {n \in 0..(N + 1) :
                   Sums(next)[n] = IF n < m THEN Sums(ring)[n]
                                   ELSE Sums(ring)[n - 1] + e.report.size}
<1>1. N \in Nat /\ m \in 1..(N + 1) /\ Len(next) = N + 1
  BY DEF Inserted
<1>2. e.report.size \in Nat
  BY DEF Entries, Sized
<1>3. /\ Sums(next)[0] = 0
      /\ \A n \in 1..(N + 1) : Sums(next)[n] = Sums(next)[n - 1] + next[n].report.size
  BY <1>1, SumsDef
<1>4. /\ Sums(ring)[0] = 0 /\ \A n \in 0..N : Sums(ring)[n] \in Nat
      /\ \A n \in 1..N : Sums(ring)[n] = Sums(ring)[n - 1] + ring[n].report.size
  BY SumsDef
<1>5. \A n \in 1..N : ring[n].report.size \in Nat
  <2> TAKE n \in 1..N
  <2>1. ring[n] \in Entries(R)
    OBVIOUS
  <2> QED
    BY <2>1 DEF Entries, Sized
<1>6. \A n \in 1..(N + 1) :
        next[n] = IF n < m THEN ring[n] ELSE IF n = m THEN e ELSE ring[n - 1]
  BY DEF Inserted
<1> HIDE DEF N
<1>7. 0 \in S
  BY <1>1, <1>3, <1>4
<1>8. ASSUME NEW n \in 1..(N + 1), n - 1 \in S PROVE n \in S
  <2>1. Sums(next)[n] = Sums(next)[n - 1] + next[n].report.size
    BY <1>3
  <2>2. Sums(next)[n - 1] = IF n - 1 < m THEN Sums(ring)[n - 1]
                            ELSE Sums(ring)[n - 1 - 1] + e.report.size
    BY <1>8
  <2>3. CASE n < m
    <3>1. n \in 1..N /\ n - 1 < m /\ next[n] = ring[n]
      BY <1>1, <1>6, <2>3
    <3>2. Sums(next)[n] = Sums(ring)[n]
      BY <1>4, <2>1, <2>2, <3>1
    <3> QED
      BY <2>3, <3>2
  <2>4. CASE n = m
    <3>1. n - 1 < m /\ next[n] = e
      BY <1>1, <1>6, <2>4
    <3>2. Sums(next)[n] = Sums(ring)[n - 1] + e.report.size
      BY <2>1, <2>2, <3>1
    <3> QED
      BY <2>4, <3>2
  <2>5. CASE n > m
    <3>1. n - 1 \in 1..N /\ ~(n - 1 < m) /\ ~(n < m) /\ n # m
      BY <1>1, <2>5
    <3>2. next[n] = ring[n - 1]
      BY <1>6, <3>1
    <3>3. Sums(ring)[n - 1] = Sums(ring)[n - 1 - 1] + ring[n - 1].report.size
      BY <1>4, <3>1
    <3>4. n - 1 - 1 \in 0..N
      BY <1>1, <3>1
    <3>5. Sums(ring)[n - 1 - 1] \in Nat /\ ring[n - 1].report.size \in Nat
      BY <1>4, <1>5, <3>1, <3>4
    <3>6. Sums(next)[n] = Sums(ring)[n - 1 - 1] + e.report.size + ring[n - 1].report.size
      BY <2>1, <2>2, <3>1, <3>2
    <3>7. Sums(next)[n] = Sums(ring)[n - 1] + e.report.size
      BY <1>2, <3>3, <3>5, <3>6
    <3> QED
      BY <3>1, <3>7
  <2> QED
    BY <1>1, <2>3, <2>4, <2>5
<1> HIDE DEF S
<1>9. \A n \in 0..(N + 1) : n \in S
  <2>1. N + 1 \in Nat
    BY <1>1
  <2> QED
    BY <1>7, <1>8, <2>1, UpTo
<1>10. \A n \in m..(N + 1) : Sums(next)[n] = Sums(ring)[n - 1] + e.report.size
  BY <1>1, <1>9 DEF S
<1>11. N + 1 \in m..(N + 1) /\ N + 1 - 1 = N
  BY <1>1
<1>12. Sums(next)[N + 1] = Sums(ring)[N] + e.report.size
  <2>1. Sums(next)[N + 1] = Sums(ring)[N + 1 - 1] + e.report.size
    BY <1>1, <1>10, <1>11
  <2> QED
    BY <1>1, <2>1
<1> QED
  BY <1>1, <1>10, <1>12 DEF Bytes, N

\* What is left after the first n entries.
LEMMA SuffixSums ==
  ASSUME NEW R, Sized(R), NEW ring \in Seq(Entries(R)), NEW n \in 0..Len(ring)
  PROVE  /\ SubSeq(ring, n + 1, Len(ring)) \in Seq(Entries(R))
         /\ Len(SubSeq(ring, n + 1, Len(ring))) = Len(ring) - n
         /\ \A i \in 1..(Len(ring) - n) : SubSeq(ring, n + 1, Len(ring))[i] = ring[n + i]
         /\ Bytes(SubSeq(ring, n + 1, Len(ring))) = Sums(ring)[Len(ring)] - Sums(ring)[n]
<1> DEFINE N == Len(ring)
           rest == SubSeq(ring, n + 1, N)
           S == {j \in 0..(N - n) : Sums(rest)[j] = Sums(ring)[n + j] - Sums(ring)[n]}
<1>1. N \in Nat /\ n \in Nat /\ n <= N /\ \A i \in (n + 1)..N : ring[i] \in Entries(R)
  OBVIOUS
<1>2. /\ rest \in Seq(Entries(R)) /\ Len(rest) = N - n
      /\ \A i \in 1..(N - n) : rest[i] = ring[n + i]
  <2>1. /\ rest \in Seq(Entries(R)) /\ Len(rest) = (IF n + 1 <= N THEN N - (n + 1) + 1 ELSE 0)
        /\ \A i \in 1..(N - (n + 1) + 1) : rest[i] = ring[n + 1 + i - 1]
    BY <1>1, SubSeqProperties
  <2> HIDE DEF rest, N
  <2>2. Len(rest) = N - n
    BY <1>1, <2>1
  <2>3. ASSUME NEW i \in 1..(N - n) PROVE rest[i] = ring[n + i]
    <3>1. i \in 1..(N - (n + 1) + 1) /\ n + 1 + i - 1 = n + i
      BY <1>1
    <3> QED
      BY <2>1, <3>1
  <2> QED
    BY <2>1, <2>2, <2>3
<1>3. /\ \A k \in 0..N : Sums(ring)[k] \in Nat
      /\ \A k \in 1..N : Sums(ring)[k] = Sums(ring)[k - 1] + ring[k].report.size
  BY SumsDef
<1> HIDE DEF rest, N
<1>4. /\ Sums(rest)[0] = 0
      /\ \A j \in 1..(N - n) : Sums(rest)[j] = Sums(rest)[j - 1] + rest[j].report.size
  BY <1>1, <1>2, SumsDef
<1>5. 0 \in S
  BY <1>1, <1>3, <1>4
<1>6. ASSUME NEW j \in 1..(N - n), j - 1 \in S PROVE j \in S
  <2>1. n + j \in 1..N /\ n + j - 1 \in 0..N /\ n + (j - 1) = n + j - 1 /\ n \in 0..N
    BY <1>1
  <2>2. Sums(rest)[j - 1] = Sums(ring)[n + j - 1] - Sums(ring)[n]
    BY <1>6, <2>1
  <2>3. rest[j] = ring[n + j]
    BY <1>2
  <2>4. ring[n + j].report.size \in Nat
    <3>1. ring[n + j] \in Entries(R)
      BY <1>1, <2>1
    <3> QED
      BY <3>1 DEF Entries, Sized
  <2>5. Sums(ring)[n + j] = Sums(ring)[n + j - 1] + ring[n + j].report.size
    BY <1>3, <2>1
  <2>6. Sums(ring)[n] \in Nat /\ Sums(ring)[n + j - 1] \in Nat
    BY <1>3, <2>1
  <2>7. Sums(rest)[j] = Sums(ring)[n + j - 1] - Sums(ring)[n] + ring[n + j].report.size
    BY <1>4, <2>2, <2>3
  <2>8. Sums(rest)[j] = Sums(ring)[n + j] - Sums(ring)[n]
    BY <2>4, <2>5, <2>6, <2>7
  <2> QED
    BY <1>1, <2>8
<1> HIDE DEF S
<1>7. N - n \in Nat
  BY <1>1
<1>8. \A j \in 0..(N - n) : j \in S
  BY <1>5, <1>6, <1>7, UpTo
<1>9. Sums(rest)[N - n] = Sums(ring)[n + (N - n)] - Sums(ring)[n]
  BY <1>7, <1>8 DEF S
<1>10. n + (N - n) = N
  BY <1>1
<1>11. Bytes(rest) = Sums(ring)[N] - Sums(ring)[n]
  BY <1>2, <1>9, <1>10 DEF Bytes
<1> QED
  BY <1>2, <1>11 DEF rest, N

LEMMA EvictSmaller ==
  ASSUME NEW R, Sized(R), NEW ring \in Seq(Entries(R))
  PROVE  /\ Len(Evict(ring)) <= Len(ring) /\ Bytes(Evict(ring)) <= Bytes(ring)
         /\ \A j \in DOMAIN Evict(ring) : \E i \in DOMAIN ring : Evict(ring)[j] = ring[i]
<1> DEFINE N == Len(ring)
           rest == Evict(ring)
<1>1. PICK n \in 0..N : rest = SubSeq(ring, n + 1, N)
  BY EvictRest
<1>2. /\ rest \in Seq(Entries(R)) /\ Len(rest) = N - n
      /\ \A i \in 1..(N - n) : rest[i] = ring[n + i]
      /\ Bytes(rest) = Sums(ring)[N] - Sums(ring)[n]
  <2> HIDE DEF rest
  <2> QED
    BY <1>1, SuffixSums
<1>3. Sums(ring)[N] \in Nat /\ Sums(ring)[n] \in Nat /\ N \in Nat /\ DOMAIN ring = 1..N
  <2>1. N \in 0..N
    OBVIOUS
  <2> QED
    BY <1>1, <2>1, SumsDef
<1> HIDE DEF rest, N
<1>4. Bytes(rest) <= Sums(ring)[N] /\ Len(rest) <= N
  BY <1>2, <1>3
<1>5. ASSUME NEW j \in DOMAIN rest PROVE \E i \in DOMAIN ring : rest[j] = ring[i]
  <2>1. j \in 1..(N - n) /\ n + j \in DOMAIN ring
    BY <1>2, <1>3, <1>5
  <2> QED
    BY <1>2, <2>1
<1> QED
  BY <1>4, <1>5 DEF rest, N, Bytes

\* Insert and evict: what the new entry drives out expires no later than it does, and there
\* was no room for both.
LEMMA InsertKeeps ==
  ASSUME NEW R, Sized(R), NEW ring \in Seq(Entries(R)), Orderly(ring), NEW e \in Entries(R),
         e.report.id \notin Ids(ring)
  PROVE  /\ \A j \in DOMAIN Evict(Insert(ring, e)) :
              \/ Evict(Insert(ring, e))[j] = e
              \/ \E i \in DOMAIN ring : Evict(Insert(ring, e))[j] = ring[i]
         /\ Bytes(Evict(Insert(ring, e))) <= Bytes(ring) + e.report.size
         /\ Len(Evict(Insert(ring, e))) <= Len(ring) + 1
         /\ \A i \in DOMAIN ring :
              \/ \E j \in DOMAIN Evict(Insert(ring, e)) : Evict(Insert(ring, e))[j] = ring[i]
              \/ /\ Expires(ring[i].report) <= Expires(e.report)
                 /\ ~(Bytes(ring) + e.report.size <= MaxBytes /\ Len(ring) + 1 <= MaxRecords)
<1> DEFINE N == Len(ring)
           next == Insert(ring, e)
           rest == Evict(next)
<1>1. Sorted(ring) /\ Fits(ring) /\ N \in Nat /\ DOMAIN ring = 1..N
  BY DEF Orderly
<1>2. PICK m \in 1..(N + 1) :
           /\ next = InsertAt(ring, m, e)
           /\ \A i \in 1..N : i < m <=> Expires(ring[i].report) <= Expires(e.report)
  BY <1>1, InsertPlace
<1>3. /\ next \in Seq(Entries(R)) /\ Len(next) = N + 1
      /\ \A i \in 1..(N + 1) :
           next[i] = IF i < m THEN ring[i] ELSE IF i = m THEN e ELSE ring[i - 1]
  <2>1. /\ InsertAt(ring, m, e) \in Seq(Entries(R)) /\ Len(InsertAt(ring, m, e)) = Len(ring) + 1
        /\ \A i \in 1..(Len(ring) + 1) :
             InsertAt(ring, m, e)[i] = IF i < m THEN ring[i] ELSE IF i = m THEN e ELSE ring[i - 1]
    <3>1. m \in 1..(Len(ring) + 1)
      BY <1>2
    <3> HIDE DEF N, next
    <3> QED
      BY <3>1, InsertAtProperties, SMTT(30)
  <2>2. next = InsertAt(ring, m, e)
    BY <1>2
  <2> HIDE DEF next, rest
  <2> QED
    BY <2>1, <2>2
<1> HIDE DEF next
<1>4. /\ \A n \in m..(N + 1) : Sums(next)[n] = Sums(ring)[n - 1] + e.report.size
      /\ Bytes(next) = Bytes(ring) + e.report.size
  <2> HIDE DEF rest
  <2>1. next \in Seq(Entries(R)) /\ Inserted(next, ring, m, e)
    BY <1>2, <1>3 DEF Inserted
  <2> HIDE DEF N
  <2>2. /\ \A n \in m..(Len(ring) + 1) : Sums(next)[n] = Sums(ring)[n - 1] + e.report.size
        /\ Bytes(next) = Bytes(ring) + e.report.size
    BY <2>1, InsertSums
  <2> QED
    BY <2>2 DEF N
<1>5. /\ Bytes(rest) <= Bytes(next) /\ Len(rest) <= N + 1
      /\ \A j \in DOMAIN rest : \E i \in DOMAIN next : rest[j] = next[i]
  BY <1>3, EvictSmaller
<1>6. PICK n \in 0..(N + 1) :
        /\ rest = SubSeq(next, n + 1, N + 1)
        /\ \A k \in 0..(n - 1) : ~Fits(SubSeq(next, k + 1, N + 1))
  BY <1>3, EvictRest
<1> HIDE DEF rest, N
<1> DEFINE Behind(k, L) ==
             /\ Len(SubSeq(next, k + 1, L)) = L - k
             /\ \A i \in 1..(L - k) : SubSeq(next, k + 1, L)[i] = next[k + i]
             /\ Bytes(SubSeq(next, k + 1, L)) = Sums(next)[L] - Sums(next)[k]
<1>7. \A k \in 0..(N + 1) : Behind(k, N + 1)
  <2> TAKE k \in 0..(N + 1)
  <2>1. next \in Seq(Entries(R)) /\ k \in 0..Len(next) /\ Len(next) = N + 1
    BY <1>3
  <2>2. Behind(k, Len(next))
    BY <2>1, SuffixSums
  <2> HIDE DEF Behind
  <2> QED
    BY <2>1, <2>2
<1>8. /\ \A k \in 0..N : Sums(ring)[k] \in Nat
      /\ Bytes(ring) = Sums(ring)[N] /\ Bytes(ring) \in Nat
      /\ Bytes(ring) <= MaxBytes /\ N <= MaxRecords
      /\ e.report.size \in Nat /\ MaxBytes \in Nat /\ MaxRecords \in Nat
  <2>1. \A k \in 0..N : Sums(ring)[k] \in Nat
    BY SumsDef DEF N
  <2>2. Bytes(ring) \in Nat /\ e.report.size \in Nat
    BY BytesType DEF Entries, Sized
  <2> QED
    BY <1>1, <2>1, <2>2, RingAssumption DEF Fits, Bytes, N
<1>9. Sums(next)[0] = 0 /\ Bytes(next) = Sums(next)[N + 1]
  BY <1>3, SumsDef DEF Bytes
\* The entries behind the new one fitted before.
<1>10. Fits(SubSeq(next, m + 1, N + 1))
  <2>1. m \in 0..(N + 1) /\ m \in m..(N + 1) /\ m - 1 \in 0..N
    BY <1>1, <1>2
  <2>2. /\ Len(SubSeq(next, m + 1, N + 1)) = (N + 1) - m
        /\ Bytes(SubSeq(next, m + 1, N + 1)) = Sums(next)[N + 1] - Sums(next)[m]
    BY <1>1, <1>7, <2>1
  <2>3. Sums(next)[m] = Sums(ring)[m - 1] + e.report.size /\ Sums(ring)[m - 1] \in Nat
    BY <1>4, <1>8, <2>1
  <2>4. Sums(next)[N + 1] = Bytes(ring) + e.report.size
    BY <1>4, <1>9
  <2>5. Bytes(SubSeq(next, m + 1, N + 1)) <= MaxBytes
    BY <1>8, <2>2, <2>3, <2>4
  <2>6. Len(SubSeq(next, m + 1, N + 1)) <= MaxRecords
    BY <1>1, <1>8, <2>1, <2>2
  <2> QED
    BY <2>5, <2>6 DEF Fits
<1>11. n <= m
  <2> SUFFICES ASSUME ~(n <= m) PROVE FALSE
    OBVIOUS
  <2>1. m \in 0..(n - 1)
    BY <1>1, <1>2, <1>6
  <2> QED
    BY <1>6, <1>10, <2>1
<1>12. ASSUME NEW i \in DOMAIN ring
       PROVE  \/ \E j \in DOMAIN rest : rest[j] = ring[i]
              \/ /\ Expires(ring[i].report) <= Expires(e.report)
                 /\ ~(Bytes(ring) + e.report.size <= MaxBytes /\ N + 1 <= MaxRecords)
  <2>1. i \in 1..N /\ n \in 0..(N + 1) /\ m \in 1..(N + 1)
    BY <1>1
  <2>a. Len(rest) = (N + 1) - n /\ \A j \in 1..((N + 1) - n) : rest[j] = next[n + j]
    BY <1>1, <1>6, <1>7
  <2>b. DOMAIN rest = 1..((N + 1) - n)
    <3>1. rest \in Seq(Entries(R))
      BY <1>3, <1>6, SuffixSums
    <3> QED
      BY <2>a, <3>1
  <2>2. CASE i >= m
    <3>1. (i + 1) - n \in 1..((N + 1) - n) /\ n + ((i + 1) - n) = i + 1
      BY <1>1, <1>11, <2>1, <2>2
    <3>2. i + 1 \in 1..(N + 1) /\ ~(i + 1 < m) /\ i + 1 # m /\ i + 1 - 1 = i
      BY <1>1, <2>1, <2>2
    <3>3. next[i + 1] = ring[i]
      BY <1>3, <3>2
    <3>4. rest[(i + 1) - n] = ring[i]
      BY <2>a, <3>1, <3>3
    <3> QED
      BY <2>b, <3>1, <3>4
  <2>3. CASE i < m /\ i > n
    <3>1. i - n \in 1..((N + 1) - n) /\ n + (i - n) = i /\ i \in 1..(N + 1)
      BY <1>1, <2>1, <2>3
    <3>2. next[i] = ring[i]
      BY <1>3, <2>3, <3>1
    <3>3. rest[i - n] = ring[i]
      BY <2>a, <3>1, <3>2
    <3> QED
      BY <2>b, <3>1, <3>3
  <2>4. CASE i < m /\ i <= n
    <3>1. Expires(ring[i].report) <= Expires(e.report)
      BY <1>2, <2>1, <2>4
    <3>2. 0 \in 0..(n - 1) /\ 0 \in 0..(N + 1)
      BY <1>1, <2>1, <2>4
    <3>3. ~Fits(SubSeq(next, 0 + 1, N + 1))
      BY <1>6, <3>2
    <3>4. Len(SubSeq(next, 0 + 1, N + 1)) = (N + 1) - 0
          /\ Bytes(SubSeq(next, 0 + 1, N + 1)) = Sums(next)[N + 1] - Sums(next)[0]
      BY <1>1, <1>7, <3>2
    <3>5. Bytes(SubSeq(next, 0 + 1, N + 1)) = Bytes(ring) + e.report.size
      BY <1>4, <1>8, <1>9, <3>4
    <3>6. Len(SubSeq(next, 0 + 1, N + 1)) = N + 1
      BY <1>1, <3>4
    <3> QED
      BY <3>1, <3>3, <3>5, <3>6 DEF Fits
  <2> QED
    BY <1>1, <2>1, <2>2, <2>3, <2>4
<1>13. ASSUME NEW j \in DOMAIN rest
       PROVE  rest[j] = e \/ \E i \in DOMAIN ring : rest[j] = ring[i]
  <2>1. PICK i \in 1..(N + 1) : rest[j] = next[i]
    BY <1>3, <1>5
  <2>2. next[i] = IF i < m THEN ring[i] ELSE IF i = m THEN e ELSE ring[i - 1]
    BY <1>3
  <2>3. CASE i < m
    BY <1>1, <1>2, <2>1, <2>2, <2>3
  <2>4. CASE i = m
    BY <2>1, <2>2, <2>4
  <2>5. CASE i > m
    <3>1. i - 1 \in 1..N /\ ~(i < m) /\ i # m
      BY <1>1, <1>2, <2>5
    <3> QED
      BY <1>1, <2>1, <2>2, <3>1
  <2> QED
    BY <1>1, <1>2, <2>3, <2>4, <2>5
<1>14. Bytes(rest) <= Bytes(ring) + e.report.size
  BY <1>4, <1>5
<1> QED
  BY <1>5, <1>12, <1>13, <1>14 DEF rest, next, N

\* The part that retain leaves: its entries are the ring's, and all of those in S.
LEMMA RetainMembers ==
  ASSUME NEW R, NEW ring \in Seq(Entries(R)), NEW S
  PROVE  /\ \A j \in DOMAIN Retain(ring, S) :
              Retain(ring, S)[j] \in S /\ \E i \in DOMAIN ring : Retain(ring, S)[j] = ring[i]
         /\ \A i \in DOMAIN ring : ring[i] \in S =>
              \E j \in DOMAIN Retain(ring, S) : Retain(ring, S)[j] = ring[i]
<1> DEFINE part == Retain(ring, S)
<1>1. part \in Seq(Entries(R)) /\ Len(part) <= Len(ring)
  BY RetainPicks
<1>2. PICK at : Leaves(at, part, ring, S, Len(ring))
  BY RetainPicks
<1> HIDE DEF part
<1>3. DOMAIN part = 1..Len(part) /\ DOMAIN ring = 1..Len(ring)
  BY <1>1
<1>4. ASSUME NEW j \in DOMAIN part
      PROVE  part[j] \in S /\ \E i \in DOMAIN ring : part[j] = ring[i]
  <2>1. at[j] \in 1..Len(ring) /\ part[j] = ring[at[j]] /\ ring[at[j]] \in S
    BY <1>2, <1>3, <1>4 DEF Leaves, Picks
  <2> QED
    BY <1>3, <2>1
<1>5. ASSUME NEW i \in DOMAIN ring, ring[i] \in S PROVE \E j \in DOMAIN part : part[j] = ring[i]
  <2>1. PICK j \in 1..Len(part) : at[j] = i
    BY <1>2, <1>3, <1>5 DEF Leaves
  <2>2. part[j] = ring[i]
    BY <1>2, <2>1 DEF Leaves, Picks
  <2> QED
    BY <1>3, <2>2
<1> QED
  BY <1>4, <1>5 DEF part

\* What prune takes has expired, by one clock or the other.
LEMMA PruneMembers ==
  ASSUME NEW R, NEW ring \in Seq(Entries(R)), NEW wall, NEW mono
  PROVE  /\ \A j \in DOMAIN Prune(ring, wall, mono) :
              /\ Expires(Prune(ring, wall, mono)[j].report) > wall
              /\ \E i \in DOMAIN ring : Prune(ring, wall, mono)[j] = ring[i]
         /\ \A i \in DOMAIN ring : Expires(ring[i].report) > wall /\ ring[i].deadline > mono =>
              \E j \in DOMAIN Prune(ring, wall, mono) : Prune(ring, wall, mono)[j] = ring[i]
<1> DEFINE S == {e \in ToSet(ring) : Expires(e.report) > wall /\ e.deadline > mono}
<1>1. \A e : e \in S <=> /\ \E i \in DOMAIN ring : e = ring[i]
                         /\ Expires(e.report) > wall /\ e.deadline > mono
  BY DEF ToSet
<1>2. Prune(ring, wall, mono) = Retain(ring, S)
  BY DEF Prune
<1> HIDE DEF S
<1>3. /\ \A j \in DOMAIN Retain(ring, S) :
              Retain(ring, S)[j] \in S /\ \E i \in DOMAIN ring : Retain(ring, S)[j] = ring[i]
      /\ \A i \in DOMAIN ring : ring[i] \in S =>
              \E j \in DOMAIN Retain(ring, S) : Retain(ring, S)[j] = ring[i]
  BY RetainMembers
<1>4. \A i \in DOMAIN ring : Expires(ring[i].report) > wall /\ ring[i].deadline > mono =>
        ring[i] \in S
  BY <1>1
<1>5. \A j \in DOMAIN Retain(ring, S) : Expires(Retain(ring, S)[j].report) > wall
  BY <1>1, <1>3
<1>6. \A i \in DOMAIN ring : Expires(ring[i].report) > wall /\ ring[i].deadline > mono =>
              \E j \in DOMAIN Retain(ring, S) : Retain(ring, S)[j] = ring[i]
  BY <1>3, <1>4
<1> QED
  BY <1>2, <1>3, <1>5, <1>6

\* What remove takes was in the batch.
LEMMA RemoveMembers ==
  ASSUME NEW R, NEW ring \in Seq(Entries(R)), NEW sent
  PROVE  /\ \A j \in DOMAIN RemoveBatch(ring, sent) :
              \E i \in DOMAIN ring : RemoveBatch(ring, sent)[j] = ring[i]
         /\ \A i \in DOMAIN ring : ring[i].report.id \notin {sent[k].id : k \in DOMAIN sent} =>
              \E j \in DOMAIN RemoveBatch(ring, sent) : RemoveBatch(ring, sent)[j] = ring[i]
<1> DEFINE taken == {sent[k].id : k \in DOMAIN sent}
           S == {e \in ToSet(ring) : e.report.id \notin taken}
<1>1. \A i \in DOMAIN ring : ring[i].report.id \notin taken => ring[i] \in S
  BY DEF ToSet
<1>2. RemoveBatch(ring, sent) = Retain(ring, S)
  BY DEF RemoveBatch
<1> HIDE DEF S, taken
<1>3. /\ \A j \in DOMAIN Retain(ring, S) :
              Retain(ring, S)[j] \in S /\ \E i \in DOMAIN ring : Retain(ring, S)[j] = ring[i]
      /\ \A i \in DOMAIN ring : ring[i] \in S =>
              \E j \in DOMAIN Retain(ring, S) : Retain(ring, S)[j] = ring[i]
  BY RetainMembers
<1>4. /\ \A j \in DOMAIN Retain(ring, S) : \E i \in DOMAIN ring : Retain(ring, S)[j] = ring[i]
      /\ \A i \in DOMAIN ring : ring[i].report.id \notin taken =>
           \E j \in DOMAIN Retain(ring, S) : Retain(ring, S)[j] = ring[i]
  BY <1>1, <1>3
<1> QED
  BY <1>2, <1>4 DEF taken

\* push: what is in the ring afterwards, how much, and what has left it.  A live entry leaves
\* only to make room for a report that expires no sooner.
THEOREM PushLeaves ==
  ASSUME NEW R, Sized(R), NEW ring \in Seq(Entries(R)), Orderly(ring),
         NEW report \in R, NEW wall \in Int, NEW mono \in Nat, Expires(report) > wall,
         NEW pushed, pushed = Push(ring, report, wall, mono)
  PROVE  /\ \A j \in DOMAIN pushed :
              pushed[j] = EntryOf(report, wall, mono) \/ \E i \in DOMAIN ring : pushed[j] = ring[i]
         /\ Bytes(pushed) <= Bytes(ring) + report.size /\ Len(pushed) <= Len(ring) + 1
         /\ \A i \in DOMAIN ring : Expires(ring[i].report) > wall /\ ring[i].deadline > mono =>
              \/ \E j \in DOMAIN pushed : pushed[j] = ring[i]
              \/ /\ report.id # ring[i].report.id /\ Expires(report) >= Expires(ring[i].report)
                 /\ ~(Bytes(ring) + report.size <= MaxBytes /\ Len(ring) + 1 <= MaxRecords)
<1> DEFINE kept == Prune(ring, wall, mono)
           entry == EntryOf(report, wall, mono)
           Live(e) == Expires(e.report) > wall /\ e.deadline > mono
           Room(r) == Bytes(r) + report.size <= MaxBytes /\ Len(r) + 1 <= MaxRecords
<1>1. kept \in Seq(Entries(R)) /\ Orderly(kept)
  BY PruneOrderly
<1>2. entry \in Entries(R) /\ entry.report = report /\ report.size \in Nat
  BY EntryType DEF Sized
<1>3. /\ Bytes(kept) \in Nat /\ Bytes(ring) \in Nat /\ Len(kept) \in Nat /\ Len(ring) \in Nat
      /\ Bytes(kept) <= Bytes(ring) /\ Len(kept) <= Len(ring)
  <2>1. Bytes(kept) <= Bytes(ring) /\ Len(kept) <= Len(ring)
    BY RetainBytes, RetainPicks DEF Prune
  <2> HIDE DEF kept
  <2> QED
    BY <1>1, <2>1, BytesType
<1>4. /\ \A j \in DOMAIN kept : \E i \in DOMAIN ring : kept[j] = ring[i]
      /\ \A i \in DOMAIN ring : Live(ring[i]) => \E j \in DOMAIN kept : kept[j] = ring[i]
  BY PruneMembers
<1>5. pushed = IF report.id \in Ids(kept) THEN kept ELSE Evict(Insert(kept, entry))
  BY DEF Push
<1>6. \A i \in DOMAIN kept : Expires(kept[i].report) \in Int
  BY <1>1, ExpiresType
<1>7. Expires(report) \in Int
  BY RingAssumption DEF Expires, Sized
<1> HIDE DEF kept, entry, Live
<1>8. CASE report.id \in Ids(kept)
  <2>1. pushed = kept
    BY <1>5, <1>8
  <2>2. Bytes(pushed) <= Bytes(ring) + report.size /\ Len(pushed) <= Len(ring) + 1
    BY <1>2, <1>3, <2>1
  <2> QED
    BY <1>4, <2>1, <2>2 DEF Live
<1>9. CASE report.id \notin Ids(kept)
  <2>1. pushed = Evict(Insert(kept, entry))
    BY <1>5, <1>9
  <2>2. entry.report.id \notin Ids(kept)
    BY <1>2, <1>9
  <2>3. /\ \A j \in DOMAIN pushed : pushed[j] = entry \/ \E i \in DOMAIN kept : pushed[j] = kept[i]
        /\ Bytes(pushed) <= Bytes(kept) + report.size /\ Len(pushed) <= Len(kept) + 1
        /\ \A i \in DOMAIN kept :
             \/ \E j \in DOMAIN pushed : pushed[j] = kept[i]
             \/ Expires(kept[i].report) <= Expires(report) /\ ~Room(kept)
    BY <1>1, <1>2, <2>1, <2>2, InsertKeeps
  <2>4. Bytes(pushed) \in Int /\ Len(pushed) \in Int
    <3>1. pushed \in Seq(Entries(R))
      BY PushOrderly
    <3> QED
      BY <3>1, BytesType
  <2>5. Bytes(pushed) <= Bytes(ring) + report.size /\ Len(pushed) <= Len(ring) + 1
    BY <1>2, <1>3, <2>3, <2>4
  <2>6. \A j \in DOMAIN pushed : pushed[j] = entry \/ \E i \in DOMAIN ring : pushed[j] = ring[i]
    BY <1>4, <2>3
  <2>7. ~Room(kept) => ~Room(ring)
    BY <1>2, <1>3, RingAssumption
  <2>8. ASSUME NEW i \in DOMAIN ring, Live(ring[i])
        PROVE  \/ \E j \in DOMAIN pushed : pushed[j] = ring[i]
               \/ report.id # ring[i].report.id /\ Expires(report) >= Expires(ring[i].report)
                  /\ ~Room(ring)
    <3>1. PICK k \in DOMAIN kept : kept[k] = ring[i]
      BY <1>4, <2>8
    <3>2. kept[k].report.id # report.id
      BY <1>9 DEF Ids
    <3>3. Expires(kept[k].report) <= Expires(report) => Expires(report) >= Expires(kept[k].report)
      BY <1>6, <1>7
    <3> HIDE DEF Room
    <3> QED
      BY <2>3, <2>7, <3>1, <3>2, <3>3
  <2> QED
    BY <2>5, <2>6, <2>8 DEF Live, entry
<1> QED
  BY <1>8, <1>9

-----------------------------------------------------------------------------
(* What is chosen for upload *)

LEMMA BatchBytesType ==
  ASSUME NEW R, Sized(R), NEW sent \in Seq(R)
  PROVE  BatchBytes(sent) \in Nat
<1> DEFINE N == Len(sent)
           wrapped == [i \in DOMAIN sent |-> [report |-> sent[i]]]
           S == {n \in 0..N : Sums(wrapped)[n] \in Nat}
<1>1. N \in Nat /\ DOMAIN sent = 1..N /\ \A i \in 1..N : sent[i] \in R
  OBVIOUS
<1>2. wrapped \in Seq({[report |-> r] : r \in R}) /\ Len(wrapped) = N
      /\ \A i \in 1..N : wrapped[i].report = sent[i]
  <2>1. wrapped = [i \in 1..N |-> [report |-> sent[i]]]
    BY <1>1
  <2>2. \A i \in 1..N : wrapped[i] \in {[report |-> r] : r \in R}
    BY <1>1, <2>1
  <2> HIDE DEF N
  <2>3. wrapped \in Seq({[report |-> r] : r \in R}) /\ Len(wrapped) = N
    <3>1. wrapped \in [1..N -> {[report |-> r] : r \in R}]
      BY <2>1, <2>2
    <3> HIDE DEF wrapped
    <3> QED
      BY <1>1, <3>1
  <2>4. \A i \in 1..N : wrapped[i].report = sent[i]
    BY <2>1
  <2> QED
    BY <2>3, <2>4
<1> HIDE DEF wrapped, N
<1>3. Sums(wrapped) = [n \in 0..N |->
                        IF n = 0 THEN 0 ELSE Sums(wrapped)[n - 1] + wrapped[n].report.size]
  BY <1>1, <1>2, SumsExist DEF Sums
<1>4. 0 \in S
  BY <1>1, <1>3
<1>5. ASSUME NEW n \in 1..N, n - 1 \in S PROVE n \in S
  <2>1. wrapped[n].report.size \in Nat
    BY <1>1, <1>2 DEF Sized
  <2>2. Sums(wrapped)[n] = Sums(wrapped)[n - 1] + wrapped[n].report.size
    BY <1>1, <1>3
  <2> QED
    BY <1>5, <2>1, <2>2
<1> HIDE DEF S
<1>6. \A n \in 0..N : n \in S
  BY <1>1, <1>4, <1>5, UpTo
<1>7. Sums(wrapped)[N] \in Nat
  BY <1>1, <1>6 DEF S
<1>8. Bytes(wrapped) \in Nat
  BY <1>2, <1>7 DEF Bytes
<1>9. BatchBytes(sent) = Envelope + N + Bytes(wrapped)
  BY DEF BatchBytes, wrapped, N
<1> QED
  BY <1>1, <1>8, <1>9, RingAssumption

\* The order in which a batch takes them: the newest, then the oldest first.
Order(ring) == Latest(ring) \o Reports(Front(ring))

LEMMA UploadOrder ==
  ASSUME NEW R, Sized(R), NEW ring \in Seq(Entries(R)), ring # <<>>,
         NEW order, order = Order(ring)
  PROVE  /\ order \in Seq(R) /\ Len(order) = Len(ring)
         /\ \A i \in 1..Len(ring) :
              order[i] = IF i = 1 THEN ring[Len(ring)].report ELSE ring[i - 1].report
         /\ Latest(ring) = <<ring[Len(ring)].report>> /\ ring[Len(ring)].report \in R
         /\ Len(ring) \in Nat /\ Len(ring) > 0
<1> DEFINE N == Len(ring)
           front == Front(ring)
           last == ring[N].report
<1>1. N \in Nat /\ N > 0 /\ \A i \in 1..N : ring[i] \in Entries(R)
  BY SMTT(30)
<1>2. \A i \in 1..N : ring[i].report \in R
  BY <1>1 DEF Entries
<1>3. /\ front \in Seq(Entries(R)) /\ Len(front) = N - 1
      /\ \A i \in 1..(N - 1) : front[i] = ring[i]
  <2>1. front = SubSeq(ring, 1, N - 1)
    BY DEF Front
  <2>2. \A i \in 1..(N - 1) : ring[i] \in Entries(R)
    BY <1>1
  <2>3. /\ SubSeq(ring, 1, N - 1) \in Seq(Entries(R))
        /\ Len(SubSeq(ring, 1, N - 1)) = (IF 1 <= N - 1 THEN N - 1 - 1 + 1 ELSE 0)
        /\ \A i \in 1..(N - 1 - 1 + 1) : SubSeq(ring, 1, N - 1)[i] = ring[1 + i - 1]
    BY <1>1, <2>2, SubSeqProperties
  <2> HIDE DEF front, N
  <2>4. Len(front) = N - 1
    BY <1>1, <2>1, <2>3
  <2>5. ASSUME NEW i \in 1..(N - 1) PROVE front[i] = ring[i]
    <3>1. i \in 1..(N - 1 - 1 + 1) /\ 1 + i - 1 = i
      BY <1>1
    <3> QED
      BY <2>1, <2>3, <3>1
  <2> QED
    BY <2>1, <2>3, <2>4, <2>5
<1>4. Latest(ring) = <<last>> /\ last \in R
  BY <1>1, <1>2 DEF Latest, Last
<1> HIDE DEF front, N, last
<1>5. /\ Reports(front) \in Seq(R) /\ Len(Reports(front)) = N - 1
      /\ \A i \in 1..(N - 1) : Reports(front)[i] = ring[i].report
  <2>1. DOMAIN front = 1..(N - 1) /\ N - 1 \in Nat
    BY <1>1, <1>3
  <2>2. Reports(front) = [i \in 1..(N - 1) |-> front[i].report]
    BY <2>1 DEF Reports
  <2>3. \A i \in 1..(N - 1) : front[i].report = ring[i].report /\ ring[i].report \in R
    BY <1>1, <1>2, <1>3
  <2>4. Reports(front) \in [1..(N - 1) -> R]
    BY <2>2, <2>3
  <2>5. Reports(front) \in Seq(R) /\ Len(Reports(front)) = N - 1
    BY <2>1, <2>4
  <2> QED
    BY <2>2, <2>3, <2>5
<1>6. order = <<last>> \o Reports(front)
  BY <1>4 DEF front, Order
<1>7. /\ order \in Seq(R) /\ Len(order) = 1 + (N - 1)
      /\ \A i \in 1..(1 + (N - 1)) :
           order[i] = IF i <= 1 THEN <<last>>[i] ELSE Reports(front)[i - 1]
  <2>1. <<last>> \in Seq(R) /\ Len(<<last>>) = 1
    BY <1>4
  <2> DEFINE one == <<last>>
  <2> HIDE DEF one
  <2>2. /\ one \o Reports(front) \in Seq(R)
        /\ Len(one \o Reports(front)) = Len(one) + Len(Reports(front))
        /\ \A i \in 1..(Len(one) + Len(Reports(front))) :
             (one \o Reports(front))[i] = IF i <= Len(one) THEN one[i]
                                          ELSE Reports(front)[i - Len(one)]
    BY <1>5, <2>1, ConcatProperties DEF one
  <2> QED
    BY <1>5, <1>6, <2>1, <2>2 DEF one
<1>8. ASSUME NEW i \in 1..N PROVE order[i] = IF i = 1 THEN last ELSE ring[i - 1].report
  <2>1. i \in 1..(1 + (N - 1))
    BY <1>1
  <2>2. CASE i = 1
    BY <1>7, <2>1, <2>2
  <2>3. CASE i # 1
    <3>1. ~(i <= 1) /\ i - 1 \in 1..(N - 1)
      BY <1>1, <2>3
    <3> QED
      BY <1>5, <1>7, <2>1, <2>3, <3>1
  <2> QED
    BY <2>2, <2>3
<1>9. Len(order) = N
  BY <1>1, <1>7
<1> QED
  BY <1>1, <1>4, <1>7, <1>8, <1>9 DEF N, last

\* A batch is the longest part of that order which every limit allows.
LEMMA BatchTakes ==
  ASSUME NEW R, Sized(R), NEW ring \in Seq(Entries(R)), ring # <<>>,
         NEW order, order = Order(ring)
  PROVE  \E n \in 0..Len(ring) :
           /\ Batch(ring) = SubSeq(order, 1, n)
           /\ \A m \in 1..n : m <= MaxBatch /\ BatchBytes(SubSeq(order, 1, m)) <= MaxBatchBytes
<1> DEFINE N == Len(ring)
           Full(n) == n > MaxBatch \/ BatchBytes(SubSeq(order, 1, n)) > MaxBatchBytes
           Last1(n) == (\A m \in 1..n : ~Full(m)) /\ (n = N \/ Full(n + 1))
           T == {n \in 0..N : n = N \/ Full(n + 1)}
<1>1. order \in Seq(R) /\ Len(order) = N /\ N \in Nat
  BY UploadOrder
<1>2. ASSUME NEW m \in 1..N, ~Full(m)
      PROVE  m <= MaxBatch /\ BatchBytes(SubSeq(order, 1, m)) <= MaxBatchBytes
  <2>1. SubSeq(order, 1, m) \in Seq(R)
    <3>1. 1 \in Int /\ m \in Int /\ \A i \in 1..m : order[i] \in R
      BY <1>1
    <3> QED
      BY <1>1, <3>1, SubSeqProperties
  <2>2. BatchBytes(SubSeq(order, 1, m)) \in Nat
    BY <2>1, BatchBytesType
  <2> QED
    BY <1>2, <2>2, RingAssumption
<1>3. Batch(ring) = SubSeq(order, 1, CHOOSE n \in 0..N : Last1(n))
  BY <1>1 DEF Batch, Order
<1> HIDE DEF Full
<1>4. N \in T /\ T \subseteq Nat
  BY <1>1
<1>5. PICK n \in T : \A m \in T : n <= m
  BY <1>4, Least
<1>6. Last1(n) /\ n \in 0..N
  <2>1. ASSUME NEW m \in 1..n PROVE ~Full(m)
    <3>1. m - 1 \in 0..N /\ ~(n <= m - 1) /\ m - 1 + 1 = m /\ m - 1 # N
      BY <1>1, <1>5
    <3> QED
      BY <1>5, <3>1
  <2> QED
    BY <1>5, <2>1
<1>7. \E k \in 0..N : Last1(k)
  BY <1>6
<1> DEFINE c == CHOOSE k \in 0..N : Last1(k)
<1>8. c \in 0..N /\ Last1(c)
  <2> HIDE DEF Last1
  <2> QED
    BY <1>7
<1>9. Batch(ring) = SubSeq(order, 1, c)
  BY <1>3
<1> HIDE DEF c
<1>10. \A m \in 1..c : m <= MaxBatch /\ BatchBytes(SubSeq(order, 1, m)) <= MaxBatchBytes
  <2> TAKE m \in 1..c
  <2>1. m \in 1..N /\ ~Full(m)
    BY <1>1, <1>8
  <2> QED
    BY <1>2, <2>1
<1> QED
  BY <1>8, <1>9, <1>10

-----------------------------------------------------------------------------
(* The publisher: its reports *)

LEMMA ReportsSized == Sized(Report)
BY UplinkAssumption DEF Sized

-----------------------------------------------------------------------------
(* Pushing what a read delivered *)

\* What PushEach is, up to n pushes.
Pushes(f, ring, reports, wall, mono, n) ==
  f = [i \in 0..n |-> IF i = 0 THEN ring ELSE Push(f[i - 1], reports[i], wall, mono)]

LEMMA PushEachExists ==
  ASSUME NEW ring, NEW reports, NEW wall, NEW mono, Len(reports) \in Nat
  PROVE  \E f : Pushes(f, ring, reports, wall, mono, Len(reports))
<1> DEFINE N == Len(reports)
           Is(f, k) == Pushes(f, ring, reports, wall, mono, k)
           S == {k \in 0..N : \E f : Is(f, k)}
<1>0. N \in Nat
  OBVIOUS
<1>1. 0 \in S
  <2>1. Is([n \in 0..0 |-> ring], 0)
    BY DEF Pushes
  <2>2. \E f : Is(f, 0)
    BY <2>1
  <2> HIDE DEF Is
  <2> QED
    BY <1>0, <2>2
<1>2. ASSUME NEW k \in 1..N, k - 1 \in S PROVE k \in S
  <2>1. PICK f : Is(f, k - 1)
    BY <1>2
  <2> DEFINE last == Push(f[k - 1], reports[k], wall, mono)
             next == [n \in 0..k |-> IF n = k THEN last ELSE f[n]]
  <2>2. ASSUME NEW n \in 0..k
        PROVE  next[n] = IF n = 0 THEN ring ELSE Push(next[n - 1], reports[n], wall, mono)
    <3>1. CASE n = k
      <4>1. next[n] = last /\ next[n - 1] = f[n - 1] /\ n # 0
        BY <3>1
      <4> QED
        BY <3>1, <4>1
    <3>2. CASE n # k
      <4>1. n \in 0..(k - 1)
        BY <3>2
      <4>2. next[n] = f[n] /\ (n # 0 => next[n - 1] = f[n - 1])
        BY <3>2
      <4> QED
        BY <2>1, <4>1, <4>2 DEF Pushes
    <3> QED
      BY <3>1, <3>2
  <2>3. Is(next, k)
    <3> HIDE DEF last
    <3> QED
      BY <2>2 DEF Pushes
  <2>4. \E g : Is(g, k)
    BY <2>3
  <2> HIDE DEF Is
  <2> QED
    BY <1>0, <2>4
<1> HIDE DEF Is, S, N
<1>3. \A k \in 0..N : k \in S
  BY <1>0, <1>1, <1>2, UpTo
<1>4. N \in S
  BY <1>0, <1>3
<1> QED
  BY <1>4 DEF Is, S, N

LEMMA PushEachDef ==
  ASSUME NEW ring, NEW reports, NEW wall, NEW mono, Len(reports) \in Nat,
         NEW f, f = PushEach(ring, reports, wall, mono)
  PROVE  /\ f[0] = ring
         /\ \A n \in 1..Len(reports) : f[n] = Push(f[n - 1], reports[n], wall, mono)
<1> DEFINE Is(g) == Pushes(g, ring, reports, wall, mono, Len(reports))
<1>1. \E g : Is(g)
  BY PushEachExists
<1>2. f = CHOOSE g : Is(g)
  BY DEF PushEach, Pushes
<1>3. Is(f)
  <2> HIDE DEF Is
  <2> QED
    BY <1>1, <1>2
<1>4. f = [i \in 0..Len(reports) |->
             IF i = 0 THEN ring ELSE Push(f[i - 1], reports[i], wall, mono)]
  BY <1>3 DEF Pushes
<1>5. f[0] = ring
  BY <1>4
<1>6. ASSUME NEW n \in 1..Len(reports) PROVE f[n] = Push(f[n - 1], reports[n], wall, mono)
  <2>1. n \in 0..Len(reports) /\ n # 0
    OBVIOUS
  <2> QED
    BY <1>4, <2>1
<1> QED
  BY <1>5, <1>6

\* However many are pushed, the ring stays in order, and holds nothing but what it held
\* before and what was pushed.
LEMMA PushEachOrderly ==
  ASSUME NEW R, Sized(R), NEW ring \in Seq(Entries(R)), Orderly(ring),
         NEW reports \in Seq(R), NEW wall \in Int, NEW mono \in Nat,
         \A i \in DOMAIN reports : Expires(reports[i]) > wall
  PROVE  \A n \in 0..Len(reports) :
           /\ PushEach(ring, reports, wall, mono)[n] \in Seq(Entries(R))
           /\ Orderly(PushEach(ring, reports, wall, mono)[n])
           /\ \A j \in DOMAIN PushEach(ring, reports, wall, mono)[n] :
                \/ \E i \in DOMAIN ring : PushEach(ring, reports, wall, mono)[n][j] = ring[i]
                \/ \E i \in DOMAIN reports :
                     PushEach(ring, reports, wall, mono)[n][j] = EntryOf(reports[i], wall, mono)
<1> DEFINE N == Len(reports)
           f == PushEach(ring, reports, wall, mono)
           From(n) == \A j \in DOMAIN f[n] :
                        \/ \E i \in DOMAIN ring : f[n][j] = ring[i]
                        \/ \E i \in DOMAIN reports : f[n][j] = EntryOf(reports[i], wall, mono)
           S == {n \in 0..N : f[n] \in Seq(Entries(R)) /\ Orderly(f[n]) /\ From(n)}
<1>1. N \in Nat /\ DOMAIN reports = 1..N /\ \A i \in 1..N : reports[i] \in R
  OBVIOUS
<1>2. f[0] = ring /\ \A n \in 1..N : f[n] = Push(f[n - 1], reports[n], wall, mono)
  BY <1>1, PushEachDef
<1> HIDE DEF f, N
<1>3. 0 \in S
  BY <1>1, <1>2
<1>4. ASSUME NEW n \in 1..N, n - 1 \in S PROVE n \in S
  <2> DEFINE r == f[n - 1]
             p == f[n]
  <2>1. r \in Seq(Entries(R)) /\ Orderly(r) /\ From(n - 1)
    BY <1>4
  <2>2. p = Push(r, reports[n], wall, mono) /\ reports[n] \in R /\ Expires(reports[n]) > wall
    BY <1>1, <1>2
  <2> HIDE DEF r, p
  <2>3. p \in Seq(Entries(R)) /\ Orderly(p)
    BY <2>1, <2>2, PushOrderly
  <2>4. \A j \in DOMAIN p :
          p[j] = EntryOf(reports[n], wall, mono) \/ \E i \in DOMAIN r : p[j] = r[i]
    BY <2>1, <2>2, PushLeaves
  <2>5. ASSUME NEW j \in DOMAIN p
        PROVE  \/ \E i \in DOMAIN ring : p[j] = ring[i]
               \/ \E i \in DOMAIN reports : p[j] = EntryOf(reports[i], wall, mono)
    <3>1. CASE p[j] = EntryOf(reports[n], wall, mono)
      BY <1>1, <3>1
    <3>2. ASSUME NEW k \in DOMAIN r, p[j] = r[k]
          PROVE  \/ \E i \in DOMAIN ring : p[j] = ring[i]
                 \/ \E i \in DOMAIN reports : p[j] = EntryOf(reports[i], wall, mono)
      BY <2>1, <3>2 DEF r
    <3> QED
      BY <2>4, <3>1, <3>2
  <2>6. From(n)
    BY <2>5 DEF p
  <2> HIDE DEF From
  <2> QED
    BY <1>1, <2>3, <2>6 DEF p
<1> HIDE DEF S
<1>5. \A n \in 0..N : n \in S
  BY <1>1, <1>3, <1>4, UpTo
<1> QED
  BY <1>5 DEF S, f, N

\* The reports that come to a ring, after M entries that are at least as many and as large.
Together(all, ring, M, reports) ==
  /\ Len(all) = M + Len(reports) /\ Len(ring) <= M /\ Bytes(ring) <= Sums(all)[M]
  /\ \A i \in 1..Len(reports) : all[M + i].report = reports[i]

\* What drives an entry out.
Driven(e, all, reports) ==
  /\ ~Fits(all)
  /\ \E i \in DOMAIN reports :
       reports[i].id # e.report.id /\ Expires(reports[i]) >= Expires(e.report)

Ahead(reports, wall) == \A i \in DOMAIN reports : Expires(reports[i]) > wall

\* A live entry leaves only for a report that expires no sooner, when there was no room for all.
LEMMA PushEachLeaves ==
  ASSUME NEW R, Sized(R), NEW ring \in Seq(Entries(R)), Orderly(ring),
         NEW reports \in Seq(R), NEW wall \in Int, NEW mono \in Nat,
         Ahead(reports, wall), NEW M \in Nat, NEW all \in Seq(Entries(R)),
         Together(all, ring, M, reports),
         NEW e, e \in ToSet(ring), Expires(e.report) > wall, e.deadline > mono,
         NEW next, next = PushAll(ring, reports, wall, mono)
  PROVE  e \in ToSet(next) \/ Driven(e, all, reports)
<1> DEFINE N == Len(reports)
           f == PushEach(ring, reports, wall, mono)
           Stays(n) == \E j \in DOMAIN f[n] : f[n][j] = e
           Small(n) == Bytes(f[n]) <= Sums(all)[M + n] /\ Len(f[n]) <= M + n
           S == {n \in 0..N : Small(n) /\ (Stays(n) \/ Driven(e, all, reports))}
<1>1. M \in Nat /\ N \in Nat /\ DOMAIN reports = 1..N /\ \A i \in 1..N : reports[i] \in R
  OBVIOUS
<1>2. f[0] = ring /\ \A n \in 1..N : f[n] = Push(f[n - 1], reports[n], wall, mono)
  BY <1>1, PushEachDef
<1>3. \A n \in 0..N : f[n] \in Seq(Entries(R)) /\ Orderly(f[n])
  BY PushEachOrderly DEF Ahead
<1>a. /\ Len(all) = M + N /\ Len(ring) <= M /\ Bytes(ring) <= Sums(all)[M]
      /\ \A i \in 1..N : all[M + i].report = reports[i]
  BY DEF Together
<1>4. /\ \A n \in 0..(M + N) : Sums(all)[n] \in Nat
      /\ \A n \in 1..(M + N) : Sums(all)[n] = Sums(all)[n - 1] + all[n].report.size
  BY <1>a, SumsDef
<1>5. \A n \in 1..N : Sums(all)[M + n] = Sums(all)[M + (n - 1)] + reports[n].size
  <2> TAKE n \in 1..N
  <2>1. M + n \in 1..(M + N)
    BY <1>1
  <2>2. all[M + n].report = reports[n] /\ (M + n) - 1 = M + (n - 1)
    BY <1>1, <1>a
  <2>3. Sums(all)[M + n] = Sums(all)[(M + n) - 1] + all[M + n].report.size
    BY <1>4, <2>1
  <2> QED
    BY <2>2, <2>3
<1>6. Bytes(all) = Sums(all)[M + N] /\ Len(all) = M + N
  BY <1>a DEF Bytes
<1>7. \A n \in 0..N : Sums(all)[M + n] <= Sums(all)[M + N]
  <2> TAKE n \in 0..N
  <2>1. M + n \in 0..Len(all)
    BY <1>1, <1>6
  <2>2. /\ SubSeq(all, M + n + 1, Len(all)) \in Seq(Entries(R))
        /\ Bytes(SubSeq(all, M + n + 1, Len(all))) = Sums(all)[Len(all)] - Sums(all)[M + n]
    BY <2>1, SuffixSums
  <2>3. Bytes(SubSeq(all, M + n + 1, Len(all))) \in Nat
    BY <2>2, BytesType
  <2>4. Sums(all)[M + n] \in Nat /\ Sums(all)[M + N] \in Nat
    <3>1. M + n \in 0..(M + N) /\ M + N \in 0..(M + N)
      BY <1>1
    <3> QED
      BY <1>4, <3>1
  <2>5. Sums(all)[Len(all)] = Sums(all)[M + N]
    BY <1>6
  <2> DEFINE rest == Bytes(SubSeq(all, M + n + 1, Len(all)))
  <2>6. rest \in Nat /\ rest = Sums(all)[M + N] - Sums(all)[M + n]
    BY <2>2, <2>3, <2>5
  <2> HIDE DEF N, rest
  <2> QED
    BY <2>4, <2>6
<1> HIDE DEF f, N
<1>8. 0 \in S
  <2>1. Small(0)
    <3>1. M + 0 = M /\ M \in 0..(M + N)
      BY <1>1
    <3>2. Sums(all)[M] \in Nat
      BY <1>4, <3>1
    <3> QED
      BY <1>1, <1>2, <1>a, <3>1, <3>2
  <2>2. Stays(0)
    BY <1>2 DEF ToSet
  <2> QED
    BY <1>1, <2>1, <2>2
<1>9. ASSUME NEW n \in 1..N, n - 1 \in S PROVE n \in S
  <2> DEFINE r == f[n - 1]
             p == f[n]
  <2>1. r \in Seq(Entries(R)) /\ Orderly(r) /\ p \in Seq(Entries(R))
    <3>1. n - 1 \in 0..N /\ n \in 0..N
      BY <1>1
    <3> QED
      BY <1>3, <3>1
  <2>2. p = Push(r, reports[n], wall, mono) /\ reports[n] \in R /\ Expires(reports[n]) > wall
    BY <1>1, <1>2 DEF Ahead
  <2>3. Small(n - 1) /\ (Stays(n - 1) \/ Driven(e, all, reports))
    BY <1>9
  <2> HIDE DEF r, p
  <2>4. /\ Bytes(p) <= Bytes(r) + reports[n].size /\ Len(p) <= Len(r) + 1
        /\ \A i \in DOMAIN r : Expires(r[i].report) > wall /\ r[i].deadline > mono =>
             \/ \E j \in DOMAIN p : p[j] = r[i]
             \/ /\ reports[n].id # r[i].report.id /\ Expires(reports[n]) >= Expires(r[i].report)
                /\ ~(Bytes(r) + reports[n].size <= MaxBytes /\ Len(r) + 1 <= MaxRecords)
    BY <2>1, <2>2, PushLeaves
  <2>a. Bytes(p) <= Bytes(r) + reports[n].size /\ Len(p) <= Len(r) + 1
    BY <2>4
  <2>b. Bytes(r) \in Nat /\ Bytes(p) \in Nat
    BY <2>1, BytesType
  <2>c. reports[n].size \in Nat
    BY <2>2 DEF Sized
  <2>5. /\ Bytes(r) \in Nat /\ Bytes(p) \in Nat /\ Len(r) \in Nat /\ Len(p) \in Nat
        /\ reports[n].size \in Nat /\ MaxBytes \in Nat /\ MaxRecords \in Nat
    BY <2>1, <2>b, <2>c, RingAssumption
  <2>6. M + n \in 0..(M + N) /\ M + (n - 1) \in 0..(M + N) /\ n \in 0..N
    BY <1>1
  <2>7. /\ Sums(all)[M + n] \in Nat /\ Sums(all)[M + (n - 1)] \in Nat
        /\ Sums(all)[M + N] \in Nat
        /\ Sums(all)[M + n] = Sums(all)[M + (n - 1)] + reports[n].size
        /\ Sums(all)[M + n] <= Sums(all)[M + N]
    <3>1. M + N \in 0..(M + N)
      BY <1>1
    <3> QED
      BY <1>4, <1>5, <1>7, <2>6, <3>1
  <2>8. Bytes(r) <= Sums(all)[M + (n - 1)] /\ Len(r) <= M + (n - 1)
    BY <2>3 DEF r
  <2> DEFINE was == Bytes(r)
             is == Bytes(p)
             size == reports[n].size
             earlier == Sums(all)[M + (n - 1)]
             so_far == Sums(all)[M + n]
             whole == Sums(all)[M + N]
  <2>d. /\ was \in Nat /\ is \in Nat /\ size \in Nat /\ earlier \in Nat /\ so_far \in Nat
        /\ whole \in Nat /\ is <= was + size /\ was <= earlier
        /\ so_far = earlier + size /\ so_far <= whole
    BY <2>5, <2>7, <2>8, <2>a
  <2> HIDE DEF was, is, size, earlier, so_far, whole
  <2>e. is <= so_far /\ was + size <= whole
    BY <2>d
  <2>f. Len(p) <= M + n /\ Len(r) + 1 <= M + N
    BY <1>1, <2>a, <2>5, <2>8
  <2>9. Small(n)
    BY <2>e, <2>f DEF is, so_far, p
  <2>10. ~(Bytes(r) + reports[n].size <= MaxBytes /\ Len(r) + 1 <= MaxRecords) => ~Fits(all)
    <3>1. Fits(all) => whole <= MaxBytes /\ M + N <= MaxRecords
      BY <1>6 DEF Fits, whole
    <3>2. Fits(all) => was + size <= MaxBytes
      BY <2>5, <2>d, <2>e, <3>1
    <3>3. Fits(all) => Len(r) + 1 <= MaxRecords
      BY <1>1, <2>5, <2>f, <3>1
    <3> QED
      BY <3>2, <3>3 DEF was, size
  <2>11. Stays(n) \/ Driven(e, all, reports)
    <3>1. CASE Driven(e, all, reports)
      BY <3>1
    <3>2. CASE Stays(n - 1)
      <4>1. PICK i \in DOMAIN r : r[i] = e
        BY <3>2 DEF r
      <4>2. CASE \E j \in DOMAIN p : p[j] = r[i]
        BY <4>1, <4>2 DEF p
      <4>3. CASE ~\E j \in DOMAIN p : p[j] = r[i]
        <5>1. /\ reports[n].id # e.report.id /\ Expires(reports[n]) >= Expires(e.report)
              /\ ~(Bytes(r) + reports[n].size <= MaxBytes /\ Len(r) + 1 <= MaxRecords)
          BY <2>4, <4>1, <4>3
        <5>2. n \in DOMAIN reports /\ ~Fits(all)
          BY <1>1, <2>10, <5>1
        <5> QED
          BY <5>1, <5>2 DEF Driven
      <4> QED
        BY <4>2, <4>3
    <3> QED
      BY <2>3, <3>1, <3>2
  <2> HIDE DEF Small, Stays
  <2> QED
    BY <1>1, <2>6, <2>9, <2>11
<1> HIDE DEF S
<1>10. \A n \in 0..N : n \in S
  BY <1>1, <1>8, <1>9, UpTo
<1>11. N \in S
  BY <1>1, <1>10
<1>12. Stays(N) \/ Driven(e, all, reports)
  BY <1>11 DEF S
<1>13. next = f[N]
  BY DEF f, N, PushAll
<1> QED
  BY <1>12, <1>13 DEF ToSet

-----------------------------------------------------------------------------
(* The batch that is chosen *)

\* A choice of some of the ring's reports, the newest first and then the oldest ones.
LEMMA ChosenPlaces ==
  ASSUME NEW R, Sized(R), NEW ring \in Seq(Entries(R)), ring # <<>>,
         NEW chosen, chosen = Latest(ring) \/ chosen = Batch(ring)
  PROVE  /\ chosen \in Seq(R) /\ Len(chosen) <= Len(ring)
         /\ \A i \in 1..Len(chosen) :
              chosen[i] = IF i = 1 THEN ring[Len(ring)].report ELSE ring[i - 1].report
         /\ Len(chosen) <= MaxBatch /\ (chosen = Latest(ring) => Len(chosen) <= 1)
         /\ Len(chosen) > 1 => BatchBytes(chosen) <= MaxBatchBytes
<1> DEFINE N == Len(ring)
           last == ring[N].report
<1>0. PICK order : order = Order(ring)
  OBVIOUS
<1>1. /\ order \in Seq(R) /\ Len(order) = N /\ N \in Nat /\ N > 0
      /\ \A i \in 1..N : order[i] = IF i = 1 THEN last ELSE ring[i - 1].report
      /\ Latest(ring) = <<last>> /\ last \in R
  BY <1>0, UploadOrder
<1> HIDE DEF N, last
<1>2. CASE chosen = Latest(ring)
  <2>1. chosen = <<last>>
    BY <1>1, <1>2
  <2>2. chosen \in Seq(R)
    BY <1>1, <2>1
  <2>3. Len(chosen) = 1 /\ chosen[1] = last
    BY <2>1
  <2>4. Len(chosen) <= N /\ ~(Len(chosen) > 1) /\ Len(chosen) <= MaxBatch /\ Len(chosen) <= 1
    BY <1>1, <2>3, RingAssumption
  <2>5. \A i \in 1..Len(chosen) : i = 1
    BY <2>3
  <2> QED
    BY <1>2, <2>2, <2>3, <2>4, <2>5 DEF N, last
<1>3. CASE chosen = Batch(ring) /\ chosen # Latest(ring)
  <2>1. PICK n \in 0..N :
          /\ Batch(ring) = SubSeq(order, 1, n)
          /\ \A m \in 1..n : m <= MaxBatch /\ BatchBytes(SubSeq(order, 1, m)) <= MaxBatchBytes
    BY <1>0, BatchTakes DEF N
  <2>2. chosen = SubSeq(order, 1, n)
    BY <1>3, <2>1
  <2>3. 1 \in Int /\ n \in Int /\ \A i \in 1..n : order[i] \in R
    BY <1>1
  <2>4. /\ SubSeq(order, 1, n) \in Seq(R)
        /\ Len(SubSeq(order, 1, n)) = (IF 1 <= n THEN n - 1 + 1 ELSE 0)
        /\ \A i \in 1..(n - 1 + 1) : SubSeq(order, 1, n)[i] = order[1 + i - 1]
    BY <1>1, <2>3, SubSeqProperties
  <2>5. chosen \in Seq(R) /\ Len(chosen) = n
    <3>1. (IF 1 <= n THEN n - 1 + 1 ELSE 0) = n
      BY <1>1
    <3> QED
      BY <2>2, <2>4, <3>1
  <2>6. ASSUME NEW i \in 1..n
        PROVE  chosen[i] = IF i = 1 THEN last ELSE ring[i - 1].report
    <3>1. i \in 1..(n - 1 + 1) /\ 1 + i - 1 = i /\ i \in 1..N
      BY <1>1
    <3>2. chosen[i] = order[i]
      BY <2>2, <2>4, <3>1
    <3> QED
      BY <1>1, <3>1, <3>2
  <2>7. n <= MaxBatch /\ (n > 1 => BatchBytes(chosen) <= MaxBatchBytes)
    <3>1. CASE n = 0
      BY <3>1, RingAssumption
    <3>2. CASE n # 0
      <4>1. n \in 1..n
        BY <1>1, <3>2
      <4> QED
        BY <2>1, <2>2, <4>1
    <3> QED
      BY <3>1, <3>2
  <2>8. n <= N
    BY <1>1
  <2> QED
    BY <1>3, <2>5, <2>6, <2>7, <2>8 DEF N, last
<1> QED
  BY <1>2, <1>3

LEMMA ChosenShape ==
  ASSUME NEW R, Sized(R), NEW ring \in Seq(Entries(R)), Sorted(ring),
         NEW chosen, chosen = Latest(ring) \/ chosen = Batch(ring)
  PROVE  /\ chosen \in Seq(R)
         /\ \A i \in DOMAIN chosen : \E j \in DOMAIN ring : chosen[i] = ring[j].report
         /\ chosen # <<>> =>
              /\ \A i \in DOMAIN ring : Expires(ring[i].report) <= Expires(chosen[1])
              /\ \A i, j \in DOMAIN chosen : i < j => chosen[i].id # chosen[j].id
              /\ \A i, j \in 2..Len(chosen) : i < j => Expires(chosen[i]) <= Expires(chosen[j])
              /\ Len(chosen) <= MaxBatch /\ (chosen = Latest(ring) => Len(chosen) <= 1)
              /\ Len(chosen) > 1 => BatchBytes(chosen) <= MaxBatchBytes
<1>1. CASE ring = <<>>
  <2>1. chosen = <<>>
    BY <1>1 DEF Latest, Batch
  <2>2. <<>> \in Seq(R) /\ DOMAIN <<>> = {}
    OBVIOUS
  <2> QED
    BY <2>1, <2>2
<1>2. CASE ring # <<>>
  <2> DEFINE N == Len(ring)
             K == Len(chosen)
             At(i) == IF i = 1 THEN N ELSE i - 1
  <2>1. /\ chosen \in Seq(R) /\ K <= N
        /\ \A i \in 1..K : chosen[i] = IF i = 1 THEN ring[N].report ELSE ring[i - 1].report
        /\ K <= MaxBatch /\ (chosen = Latest(ring) => K <= 1)
        /\ K > 1 => BatchBytes(chosen) <= MaxBatchBytes
    BY <1>2, ChosenPlaces
  <2>2. N \in Nat /\ N > 0 /\ DOMAIN ring = 1..N
    BY <1>2, SMTT(30)
  <2>3. K \in Nat /\ DOMAIN chosen = 1..K
    BY <2>1
  <2>4. \A i \in 1..N : Expires(ring[i].report) \in Nat
    BY <2>2, ExpiresType
  <2> HIDE DEF N, K
  <2>5. \A i \in 1..K : At(i) \in 1..N /\ chosen[i] = ring[At(i)].report
    BY <2>1, <2>2, <2>3
  <2>6. \A i, j \in 1..K : i < j => At(i) # At(j) /\ (i > 1 => At(i) < At(j))
    BY <2>1, <2>2, <2>3
  <2> HIDE DEF At
  <2>7. ASSUME NEW i \in 1..N, NEW j \in 1..N, i < j
        PROVE  /\ Expires(ring[i].report) <= Expires(ring[j].report)
               /\ ring[i].report.id # ring[j].report.id
    BY <2>2, <2>7 DEF Sorted
  <2>8. ASSUME NEW i \in 1..K, NEW j \in 1..K, i < j PROVE chosen[i].id # chosen[j].id
    <3>1. At(i) \in 1..N /\ At(j) \in 1..N /\ At(i) # At(j)
      BY <2>5, <2>6, <2>8
    <3>2. At(i) < At(j) \/ At(j) < At(i)
      BY <3>1
    <3>3. ring[At(i)].report.id # ring[At(j)].report.id
      BY <2>7, <3>1, <3>2
    <3> QED
      BY <2>5, <3>3
  <2>9. ASSUME NEW i \in 2..K, NEW j \in 2..K, i < j
        PROVE  Expires(chosen[i]) <= Expires(chosen[j])
    <3>1. i \in 1..K /\ j \in 1..K /\ i > 1
      BY <2>3
    <3>2. At(i) \in 1..N /\ At(j) \in 1..N /\ At(i) < At(j)
      BY <2>5, <2>6, <2>9, <3>1
    <3> QED
      BY <2>5, <2>7, <3>1, <3>2
  <2>10. ASSUME chosen # <<>>, NEW i \in 1..N PROVE Expires(ring[i].report) <= Expires(chosen[1])
    <3>1. 1 \in 1..K
      <4>1. K # 0
        BY <2>1, <2>10 DEF K
      <4> QED
        BY <2>3, <4>1
    <3>2. chosen[1] = ring[N].report
      BY <2>1, <3>1
    <3>3. CASE i = N
      BY <2>2, <2>4, <3>2, <3>3
    <3>4. CASE i # N
      <4>1. i < N /\ N \in 1..N
        BY <2>2, <3>4
      <4> QED
        BY <2>7, <3>2, <4>1
    <3> QED
      BY <3>3, <3>4
  <2>11. \A i \in 1..K : \E j \in 1..N : chosen[i] = ring[j].report
    BY <2>5
  <2>12. DOMAIN ring = 1..N /\ DOMAIN chosen = 1..K
    BY <2>2, <2>3
  <2> HIDE DEF N, At
  <2>13. /\ \A i \in DOMAIN chosen : \E j \in DOMAIN ring : chosen[i] = ring[j].report
         /\ chosen # <<>> => \A i \in DOMAIN ring : Expires(ring[i].report) <= Expires(chosen[1])
         /\ \A i, j \in DOMAIN chosen : i < j => chosen[i].id # chosen[j].id
    <3>1. \A i \in DOMAIN chosen : \E j \in DOMAIN ring : chosen[i] = ring[j].report
      BY <2>11, <2>12
    <3>2. chosen # <<>> => \A i \in DOMAIN ring : Expires(ring[i].report) <= Expires(chosen[1])
      BY <2>10, <2>12
    <3>3. \A i, j \in DOMAIN chosen : i < j => chosen[i].id # chosen[j].id
      BY <2>8, <2>12
    <3> QED
      BY <3>1, <3>2, <3>3
  <2>14. \A i, j \in 2..Len(chosen) : i < j => Expires(chosen[i]) <= Expires(chosen[j])
    BY <2>9 DEF K
  <2>15. /\ chosen \in Seq(R) /\ Len(chosen) <= MaxBatch
         /\ chosen = Latest(ring) => Len(chosen) <= 1
         /\ Len(chosen) > 1 => BatchBytes(chosen) <= MaxBatchBytes
    BY <2>1 DEF K
  <2> QED
    BY <2>13, <2>14, <2>15
<1> QED
  BY <1>1, <1>2

-----------------------------------------------------------------------------
(* The inductive invariant *)

\* What a queue owes at true time t.
QueueOK(ring, t) ==
  /\ ring \in Seq(Entries(Report)) /\ Orderly(ring)
  /\ \A i \in DOMAIN ring : ring[i].deadline <= t + TTL

Control ==
  /\ now \in 0..Horizon /\ off \in Offset
  /\ stop \in BOOLEAN /\ slow \in BOOLEAN /\ halted \in BOOLEAN
  /\ main \in {"loop", "reserve", "send", "wait", "record", "remove", "join", "exited"}
  /\ thread \in {"read", "push", "done", "failed"}
  /\ inbox \in Seq(Report) /\ rwall \in Nat /\ batch \in Seq(Report)
  /\ answer \in {"none", "Accepted", "Retry", "Halt", "Discard"}
  /\ stored \subseteq {r.id : r \in Report}

\* What was read had not expired when it was read.
Unexpired == thread = "push" => \A i \in DOMAIN inbox : Expires(inbox[i]) > rwall

UInv == Control /\ Wall >= 0 /\ QueueOK(queue, now) /\ Unexpired

LEMMA UInvImplies == UInv => TypeOK /\ QueueBounded /\ DeadlineBounded
<1> SUFFICES ASSUME UInv PROVE TypeOK /\ QueueBounded /\ DeadlineBounded
  OBVIOUS
<1>1. queue \in Seq(Entries(Report)) /\ Orderly(queue) /\ DeadlineBounded
  BY DEF UInv, QueueOK, DeadlineBounded
<1>2. now \in Nat /\ now <= Horizon /\ Horizon \in Nat /\ TTL \in Nat
  BY UplinkAssumption, RingAssumption DEF UInv, Control
<1>3. \A i \in DOMAIN queue : queue[i] \in [report : Report, deadline : 0..(Horizon + TTL)]
  <2> TAKE i \in DOMAIN queue
  <2>1. queue[i] \in Entries(Report)
    BY <1>1
  <2>2. queue[i].deadline \in Nat /\ queue[i].deadline <= now + TTL
    BY <1>1, <2>1 DEF Entries, DeadlineBounded
  <2>3. queue[i].deadline \in 0..(Horizon + TTL)
    BY <1>2, <2>2
  <2> QED
    BY <2>1, <2>3 DEF Entries
<1>4. queue \in Seq([report : Report, deadline : 0..(Horizon + TTL)])
  <2> DEFINE E == [report : Report, deadline : 0..(Horizon + TTL)]
  <2>1. Len(queue) \in Nat /\ DOMAIN queue = 1..Len(queue)
        /\ queue = [i \in 1..Len(queue) |-> queue[i]]
    BY <1>1
  <2>2. \A i \in 1..Len(queue) : queue[i] \in E
    BY <1>3, <2>1
  <2> HIDE DEF E
  <2>3. queue \in [1..Len(queue) -> E]
    BY <2>1, <2>2
  <2>4. queue \in Seq(E)
    BY <2>1, <2>3
  <2> QED
    BY <2>4 DEF E
<1>5. TypeOK
  BY <1>4 DEF UInv, Control, TypeOK
<1>6. QueueBounded
  BY <1>1 DEF Orderly, Sorted, Fits, QueueBounded
<1> QED
  BY <1>1, <1>5, <1>6

LEMMA UInit == Init => UInv
<1> SUFFICES ASSUME Init PROVE UInv
  OBVIOUS
<1>1. Control
  <2>1. 0 \in 0..Horizon /\ <<>> \in Seq(Report)
    BY UplinkAssumption
  <2> QED
    BY <2>1 DEF Init, Control
<1>2. QueueOK(queue, now)
  <2>1. queue = <<>> /\ <<>> \in Seq(Entries(Report))
    BY DEF Init
  <2> QED
    BY <2>1, EmptyFits DEF QueueOK, Orderly
<1> QED
  BY <1>1, <1>2 DEF Init, UInv, Unexpired

\* What pruning and removing leave is in order whenever they happen.
LEMMA PruneOK ==
  ASSUME NEW ring, NEW t, QueueOK(ring, t), NEW wall, NEW mono
  PROVE  QueueOK(Prune(ring, wall, mono), t)
<1> DEFINE kept == Prune(ring, wall, mono)
<1>1. ring \in Seq(Entries(Report)) /\ Orderly(ring)
  BY DEF QueueOK
<1>2. kept \in Seq(Entries(Report)) /\ Orderly(kept)
  BY <1>1, PruneOrderly, ReportsSized
<1>3. \A j \in DOMAIN kept : \E i \in DOMAIN ring : kept[j] = ring[i]
  BY <1>1, PruneMembers
<1> HIDE DEF kept
<1> QED
  BY <1>2, <1>3 DEF QueueOK, kept

LEMMA RemoveOK ==
  ASSUME NEW ring, NEW t, QueueOK(ring, t), NEW taken
  PROVE  QueueOK(RemoveBatch(ring, taken), t)
<1> DEFINE kept == RemoveBatch(ring, taken)
<1>1. ring \in Seq(Entries(Report)) /\ Orderly(ring)
  BY DEF QueueOK
<1>2. kept \in Seq(Entries(Report)) /\ Orderly(kept)
  BY <1>1, RemoveOrderly, ReportsSized
<1>3. \A j \in DOMAIN kept : \E i \in DOMAIN ring : kept[j] = ring[i]
  BY <1>1, RemoveMembers
<1> HIDE DEF kept
<1> QED
  BY <1>2, <1>3 DEF QueueOK, kept

\* Pushing at the same true time, of reports that had not expired at some wall time.
LEMMA PushOK ==
  ASSUME NEW ring, NEW t \in Nat, QueueOK(ring, t), NEW reports \in Seq(Report), NEW wall \in Int,
         \A i \in DOMAIN reports : Expires(reports[i]) > wall
  PROVE  QueueOK(PushAll(ring, reports, wall, t), t)
<1> DEFINE next == PushAll(ring, reports, wall, t)
<1>1. ring \in Seq(Entries(Report)) /\ Orderly(ring)
      /\ \A i \in DOMAIN ring : ring[i].deadline <= t + TTL
  BY DEF QueueOK
<1>2. Len(reports) \in 0..Len(reports)
  OBVIOUS
<1>3. /\ next \in Seq(Entries(Report)) /\ Orderly(next)
      /\ \A j \in DOMAIN next :
           \/ \E i \in DOMAIN ring : next[j] = ring[i]
           \/ \E i \in DOMAIN reports : next[j] = EntryOf(reports[i], wall, t)
  BY <1>1, <1>2, PushEachOrderly, ReportsSized DEF PushAll
<1>4. \A i \in DOMAIN reports : EntryOf(reports[i], wall, t).deadline <= t + TTL
  BY EntryType, ReportsSized
<1> HIDE DEF next
<1>5. \A j \in DOMAIN next : next[j].deadline <= t + TTL
  BY <1>1, <1>3, <1>4
<1> QED
  BY <1>3, <1>5 DEF QueueOK, next

\* A queue in order stays in order as time goes by.
LEMMA LaterOK ==
  ASSUME NEW ring, NEW t \in Nat, QueueOK(ring, t)
  PROVE  QueueOK(ring, t + 1)
<1>1. ASSUME NEW i \in DOMAIN ring PROVE ring[i].deadline <= t + 1 + TTL
  <2>1. ring[i] \in Entries(Report)
    BY DEF QueueOK
  <2>2. ring[i].deadline \in Nat /\ ring[i].deadline <= t + TTL /\ TTL \in Nat
    BY <2>1, RingAssumption DEF QueueOK, Entries
  <2> QED
    BY <2>2
<1> QED
  BY <1>1 DEF QueueOK

\* Any reports, not only the arrivals of this model's Next.
LEMMA ReadStep ==
  ASSUME UInv, NEW reports \in Seq(Report), ReadReports(reports)
  PROVE  UInv'
<1>1. Wall \in Nat
  BY UplinkAssumption DEF UInv, Control, Wall
<1>2. Control'
  BY <1>1 DEF UInv, Control, ReadReports, clock
<1>3. Wall' = Wall /\ queue' = queue /\ now' = now
  BY DEF ReadReports, clock, Wall
<1>4. Unexpired'
  <2>1. inbox' = reports /\ rwall' = Wall /\ \A i \in DOMAIN reports : Expires(reports[i]) > Wall
    BY DEF ReadReports, Valid
  <2> QED
    BY <2>1 DEF Unexpired
<1> QED
  BY <1>2, <1>3, <1>4 DEF UInv, QueueOK

\* A step that leaves the queue, the clocks and what was read alone.
LEMMA ControlStep ==
  ASSUME UInv, UNCHANGED <<now, off, inbox, rwall, queue>>, thread' = "push" => thread = "push",
         Control'
  PROVE  UInv'
BY DEF UInv, QueueOK, Unexpired, Wall

LEMMA PushStep == ASSUME UInv, PushReports PROVE UInv'
<1>1. /\ QueueOK(queue, now) /\ now \in Nat /\ rwall \in Int /\ inbox \in Seq(Report)
      /\ \A i \in DOMAIN inbox : Expires(inbox[i]) > rwall
  BY DEF UInv, Control, Unexpired, PushReports
<1>2. QueueOK(Prune(queue, rwall, now), now)
  BY <1>1, PruneOK
<1>3. QueueOK(PushAll(Prune(queue, rwall, now), inbox, rwall, now), now)
  BY <1>1, <1>2, PushOK
<1>4. queue' = PushAll(Prune(queue, rwall, now), inbox, rwall, now) /\ now' = now /\ Wall' = Wall
  BY DEF PushReports, clock, Wall
<1>5. <<>> \in Seq(Report)
  OBVIOUS
<1>6. Control'
  BY <1>5 DEF UInv, Control, PushReports, clock
<1>7. Unexpired'
  BY DEF PushReports, Unexpired
<1> QED
  BY <1>3, <1>4, <1>6, <1>7 DEF UInv, QueueOK

LEMMA SelectStep == ASSUME UInv, Select PROVE UInv'
<1> DEFINE kept == Prune(queue, Wall, now)
           chosen == IF slow THEN Latest(kept) ELSE Batch(kept)
<1>1. QueueOK(queue, now) /\ slow \in BOOLEAN
  BY DEF UInv, Control
<1>2. QueueOK(kept, now)
  BY <1>1, PruneOK
<1>3. /\ queue' = kept /\ batch' = chosen /\ now' = now /\ off' = off
      /\ main' \in {"loop", "reserve"}
      /\ UNCHANGED <<stop, thread, inbox, rwall, answer, slow, halted, stored>>
  BY DEF Select, clock
<1> HIDE DEF kept
<1>4. chosen \in Seq(Report)
  <2>1. chosen = Latest(kept) \/ chosen = Batch(kept)
    BY <1>1
  <2> HIDE DEF chosen
  <2> QED
    BY <1>2, <2>1, ChosenShape, ReportsSized DEF QueueOK, Orderly
<1> HIDE DEF chosen
<1>5. Control'
  BY <1>3, <1>4 DEF UInv, Control
<1> QED
  BY <1>2, <1>3, <1>5 DEF UInv, QueueOK, Unexpired, Wall

LEMMA ReaderEnds == ASSUME UInv, FailReader \/ EndReader PROVE UInv'
<1>1. <<>> \in Seq(Report)
  OBVIOUS
<1>2. Control' /\ thread' # "push"
  <2>1. CASE FailReader
    BY <1>1, <2>1 DEF UInv, Control, FailReader, clock
  <2>2. CASE EndReader
    BY <2>2 DEF UInv, Control, EndReader, clock
  <2> QED
    BY <2>1, <2>2
<1>3. UNCHANGED <<now, off, queue>>
  BY DEF FailReader, EndReader, clock
<1> QED
  BY <1>2, <1>3 DEF UInv, QueueOK, Unexpired, Wall

LEMMA RemoveStep == ASSUME UInv, RemoveSettled PROVE UInv'
<1>1. QueueOK(RemoveBatch(queue, batch), now)
  BY RemoveOK DEF UInv
<1>2. <<>> \in Seq(Report)
  OBVIOUS
<1>3. Control'
  BY <1>2 DEF UInv, Control, RemoveSettled, clock
<1>4. /\ queue' = RemoveBatch(queue, batch)
      /\ UNCHANGED <<now, off, thread, inbox, rwall>>
  BY DEF RemoveSettled, clock
<1> QED
  BY <1>1, <1>3, <1>4 DEF UInv, QueueOK, Unexpired, Wall

\* Everything else the main thread does, and a signal.
LEMMA MainStep ==
  ASSUME UInv, \/ LeaveLoop \/ SaveHold \/ Send \/ Resolve \/ SaveAnswer \/ Join
               \/ FailWrite \/ Signal
  PROVE  UInv'
<1>1. InBatch \subseteq {r.id : r \in Report}
  <2>1. batch \in Seq(Report)
    BY DEF UInv, Control
  <2> QED
    BY <2>1 DEF InBatch
<1>2. <<>> \in Seq(Report)
  OBVIOUS
<1>3. UNCHANGED <<now, off, inbox, rwall, queue, thread>>
  BY DEF LeaveLoop, SaveHold, Send, Resolve, SaveAnswer, Join, FailWrite, Signal, NoAnswer,
         Answer, clock
<1>4. CASE Resolve
  <2>1. stored' \in {stored, stored \cup InBatch}
    BY <1>4 DEF Resolve, NoAnswer, Answer
  <2>2. stored' \subseteq {r.id : r \in Report}
    BY <1>1, <2>1 DEF UInv, Control
  <2>3. Control'
    BY <1>3, <1>4, <2>2 DEF UInv, Control, Resolve, NoAnswer, Answer
  <2> QED
    BY <1>3, <2>3, ControlStep
<1>5. CASE LeaveLoop \/ SaveHold \/ Send \/ SaveAnswer \/ Join \/ FailWrite \/ Signal
  <2>1. Control'
    BY <1>2, <1>3, <1>5 DEF UInv, Control, LeaveLoop, SaveHold, Send, SaveAnswer, Join, FailWrite,
                       Signal
  <2> QED
    BY <1>3, <2>1, ControlStep
<1> QED
  BY <1>4, <1>5

LEMMA TimeStep ==
  ASSUME UInv, Tick \/ \E offset \in Offset : StepClock(offset)
  PROVE  UInv'
<1>1. CASE Tick
  <2>1. now \in Nat /\ now' = now + 1 /\ off' = off /\ Wall' >= 0
    BY <1>1, UplinkAssumption DEF UInv, Control, Tick, Wall
  <2>2. Control'
    BY <1>1, UplinkAssumption DEF UInv, Control, Tick
  <2>3. QueueOK(queue, now + 1)
    BY <2>1, LaterOK DEF UInv
  <2>4. UNCHANGED <<queue, thread, inbox, rwall>>
    BY <1>1 DEF Tick
  <2> QED
    BY <2>1, <2>2, <2>3, <2>4 DEF UInv, QueueOK, Unexpired
<1>2. CASE \E offset \in Offset : StepClock(offset)
  <2>1. Control' /\ Wall' >= 0 /\ UNCHANGED <<now, queue, thread, inbox, rwall>>
    BY <1>2 DEF UInv, Control, StepClock, Wall
  <2> QED
    BY <2>1 DEF UInv, QueueOK, Unexpired
<1> QED
  BY <1>1, <1>2

LEMMA UStutter == ASSUME UInv, UNCHANGED vars PROVE UInv'
<1>1. UNCHANGED <<now, off, stop, main, thread, inbox, rwall, queue, batch, answer, slow,
                  halted, stored>>
  BY DEF vars, clock
<1>2. Control'
  BY <1>1 DEF UInv, Control
<1> QED
  BY <1>1, <1>2, ControlStep

LEMMA UNext == UInv /\ [Next]_vars => UInv'
<1> SUFFICES ASSUME UInv, [Next]_vars PROVE UInv'
  OBVIOUS
<1>1. CASE ReaderStep
  <2>1. ASSUME NEW a \in Arrivals, ReadReports(a) PROVE UInv'
    <3>1. \/ \E r \in Report : a = <<r>>
          \/ \E r \in Report, s \in Report : a = <<r, s>>
      BY DEF Arrivals
    <3>2. a \in Seq(Report)
      <4>1. ASSUME NEW r \in Report, a = <<r>> PROVE a \in Seq(Report)
        BY <4>1
      <4>2. ASSUME NEW r \in Report, NEW s \in Report, a = <<r, s>> PROVE a \in Seq(Report)
        BY <4>2
      <4> QED
        BY <3>1, <4>1, <4>2
    <3> QED
      BY <2>1, <3>2, ReadStep
  <2> QED
    BY <1>1, <2>1, PushStep, ReaderEnds DEF ReaderStep
<1>2. CASE MainProgress
  BY <1>2, MainStep, RemoveStep DEF MainProgress
<1>3. CASE Select
  BY <1>3, SelectStep
<1>4. CASE FailWrite \/ Signal
  BY <1>4, MainStep
<1>5. CASE Tick \/ \E offset \in Offset : StepClock(offset)
  BY <1>5, TimeStep
<1>6. CASE UNCHANGED vars
  BY <1>6, UStutter
<1> QED
  BY <1>1, <1>2, <1>3, <1>4, <1>5, <1>6 DEF Next

THEOREM UplinkInvariant == Spec => []UInv
BY UInit, UNext, PTL DEF Spec

\* Types of the queue, the batch and both threads (publisher.rs).
THEOREM UplinkTypes == Spec => []TypeOK
BY UplinkInvariant, UInvImplies, PTL

\* The shared queue keeps its byte and record limits, soonest expiry first and no report twice,
\* whichever thread holds the lock when, and in whatever order the FIFO replays.
THEOREM QueueStaysBounded == Spec => []QueueBounded
BY UplinkInvariant, UInvImplies, PTL

\* Moving the wall clock never lets a report stay past its time to live.
THEOREM DeadlinesStayBounded == Spec => []DeadlineBounded
BY UplinkInvariant, UInvImplies, PTL

-----------------------------------------------------------------------------
(* Why a report leaves the queue *)

\* The formula of LeavesForAReason.
Reasons ==
  \A i \in DOMAIN queue : queue[i].report.id \notin Ids(queue') =>
    \/ Expired(queue[i]) \/ Overtaken(queue[i])
    \/ main = "remove" /\ queue[i].report.id \in InBatch

LEMMA StillThere ==
  ASSUME NEW ring, NEW e, \E j \in DOMAIN ring : ring[j] = e
  PROVE  e.report.id \in Ids(ring)
BY DEF Ids

\* All that was there and all that arrived, as one sequence.
LEMMA ArrivedAll ==
  ASSUME UInv, thread = "push"
  PROVE  LET all == queue \o Arrived
         IN  /\ all \in Seq(Entries(Report)) /\ Len(all) = Len(queue) + Len(inbox)
             /\ Bytes(queue) = Sums(all)[Len(queue)]
             /\ \A i \in 1..Len(inbox) : all[Len(queue) + i].report = inbox[i]
<1> DEFINE M == Len(queue)
           N == Len(inbox)
           all == queue \o Arrived
<1>1. /\ queue \in Seq(Entries(Report)) /\ inbox \in Seq(Report) /\ rwall \in Int /\ now \in Nat
      /\ \A i \in DOMAIN inbox : Expires(inbox[i]) > rwall
  BY DEF UInv, QueueOK, Control, Unexpired
<1>2. M \in Nat /\ N \in Nat /\ DOMAIN inbox = 1..N /\ \A i \in 1..N : inbox[i] \in Report
  BY <1>1
<1>3. \A i \in 1..N : /\ EntryOf(inbox[i], rwall, now) \in Entries(Report)
                      /\ EntryOf(inbox[i], rwall, now).report = inbox[i]
  BY <1>1, <1>2, EntryType, ReportsSized
<1>4. Arrived = [i \in 1..N |-> EntryOf(inbox[i], rwall, now)]
  BY <1>2 DEF Arrived
<1>5. /\ Arrived \in Seq(Entries(Report)) /\ Len(Arrived) = N
      /\ \A i \in 1..N : Arrived[i].report = inbox[i]
  <2> HIDE DEF N
  <2>1. Arrived \in [1..N -> Entries(Report)]
    BY <1>3, <1>4
  <2>2. Arrived \in Seq(Entries(Report)) /\ Len(Arrived) = N
    BY <1>2, <2>1
  <2> QED
    BY <1>3, <1>4, <2>2
<1> HIDE DEF M, N
<1>6. /\ all \in Seq(Entries(Report)) /\ Len(all) = M + N
      /\ \A i \in 1..(M + N) : all[i] = IF i <= M THEN queue[i] ELSE Arrived[i - M]
  <2>1. /\ queue \o Arrived \in Seq(Entries(Report))
        /\ Len(queue \o Arrived) = Len(queue) + Len(Arrived)
        /\ \A i \in 1..(Len(queue) + Len(Arrived)) :
             (queue \o Arrived)[i] = IF i <= Len(queue) THEN queue[i]
                                     ELSE Arrived[i - Len(queue)]
    BY <1>1, <1>5, ConcatProperties
  <2> QED
    BY <1>5, <2>1 DEF M
<1> HIDE DEF all
<1>7. \A i \in 1..N : all[M + i].report = inbox[i]
  <2> TAKE i \in 1..N
  <2>1. M + i \in 1..(M + N) /\ ~(M + i <= M) /\ (M + i) - M = i
    BY <1>2
  <2>2. all[M + i] = Arrived[(M + i) - M]
    BY <1>6, <2>1
  <2>3. all[M + i] = Arrived[i]
    BY <2>1, <2>2
  <2> QED
    BY <1>5, <2>3
<1>8. Bytes(queue) = Sums(all)[M]
  <2>1. M <= Len(queue) /\ M <= Len(all) /\ \A i \in 1..M : queue[i] = all[i]
    BY <1>2, <1>6 DEF M
  <2>2. \A n \in 0..M : Sums(queue)[n] = Sums(all)[n]
    BY <1>1, <1>2, <1>6, <2>1, SumsAgree, ReportsSized
  <2>3. M \in 0..M
    BY <1>2
  <2> QED
    BY <2>2, <2>3 DEF Bytes, M
<1> QED
  BY <1>6, <1>7, <1>8 DEF all, M, N

LEMMA PushReason == ASSUME UInv, PushReports PROVE Reasons
<1> DEFINE all == queue \o Arrived
           kept == Prune(queue, rwall, now)
           M == Len(queue)
<1>1. thread = "push" /\ queue' = PushAll(kept, inbox, rwall, now)
  BY DEF PushReports
<1>2. /\ queue \in Seq(Entries(Report)) /\ Orderly(queue) /\ inbox \in Seq(Report)
      /\ rwall \in Int /\ now \in Nat /\ off \in Int
      /\ \A i \in DOMAIN inbox : Expires(inbox[i]) > rwall
  BY <1>1, UplinkAssumption DEF UInv, QueueOK, Control, Unexpired
<1>3. /\ all \in Seq(Entries(Report)) /\ Len(all) = M + Len(inbox)
      /\ Bytes(queue) = Sums(all)[M]
      /\ \A i \in 1..Len(inbox) : all[M + i].report = inbox[i]
  BY <1>1, ArrivedAll
<1>4. kept \in Seq(Entries(Report)) /\ Orderly(kept)
  BY <1>2, PruneOrderly, ReportsSized
<1>5. Len(kept) <= M /\ Bytes(kept) <= Bytes(queue) /\ M \in Nat
  BY <1>2, RetainBytes, RetainPicks, ReportsSized DEF Prune
<1> HIDE DEF all, M
<1>6. \A i \in DOMAIN queue : Expires(queue[i].report) > rwall /\ queue[i].deadline > now =>
        \E j \in DOMAIN kept : kept[j] = queue[i]
  <2>1. queue \in Seq(Entries(Report))
    BY <1>2
  <2> QED
    BY <2>1, PruneMembers
<1> HIDE DEF kept
<1>7. ASSUME NEW i \in DOMAIN queue, queue[i].report.id \notin Ids(queue')
      PROVE  Expired(queue[i]) \/ Overtaken(queue[i])
  <2>1. Expires(queue[i].report) \in Int /\ queue[i].deadline \in Int
    <3>1. queue[i] \in Entries(Report) /\ Expires(queue[i].report) \in Nat
      BY <1>2, ExpiresType, ReportsSized
    <3> QED
      BY <3>1 DEF Entries
  <2>2. CASE ~(Expires(queue[i].report) > rwall /\ queue[i].deadline > now)
    <3>1. Expires(queue[i].report) <= rwall \/ queue[i].deadline <= now
      BY <1>2, <2>1, <2>2
    <3> QED
      BY <1>1, <3>1 DEF Expired
  <2>3. CASE Expires(queue[i].report) > rwall /\ queue[i].deadline > now
    <3> DEFINE e == queue[i]
               next == PushAll(kept, inbox, rwall, now)
    <3>1. e \in ToSet(kept)
      BY <1>6, <2>3 DEF ToSet
    <3>2. e.report.id \notin Ids(next)
      BY <1>1, <1>7
    <3> HIDE DEF e, next
    <3>3. e \notin ToSet(next)
      BY <3>2, StillThere DEF ToSet
    <3>4. Expires(e.report) > rwall /\ e.deadline > now
      BY <2>3 DEF e
    <3>5. Bytes(kept) <= Sums(all)[M]
      BY <1>3, <1>5
    <3>a. Together(all, kept, M, inbox) /\ Ahead(inbox, rwall)
      BY <1>2, <1>3, <1>5, <3>5 DEF Together, Ahead
    <3>6. e \in ToSet(next) \/ Driven(e, all, inbox)
      <4>1. next = PushAll(kept, inbox, rwall, now)
        BY DEF next
      <4>2. inbox \in Seq(Report) /\ rwall \in Int /\ now \in Nat /\ M \in Nat
            /\ all \in Seq(Entries(Report))
        BY <1>2, <1>3, <1>5
      <4> QED
        BY <1>4, <3>1, <3>4, <3>a, <4>1, <4>2, PushEachLeaves, ReportsSized
    <3>7. /\ ~Fits(all)
          /\ \E k \in DOMAIN inbox :
               inbox[k].id # e.report.id /\ Expires(inbox[k]) >= Expires(e.report)
      BY <3>3, <3>6 DEF Driven
    <3> QED
      BY <1>1, <3>7 DEF Overtaken, all, e
  <2> QED
    BY <2>2, <2>3
<1> QED
  BY <1>7 DEF Reasons

LEMMA SelectReason == ASSUME UInv, Select PROVE Reasons
<1> DEFINE kept == Prune(queue, Wall, now)
<1>1. queue' = kept
  BY DEF Select
<1>2. queue \in Seq(Entries(Report)) /\ now \in Int /\ Wall \in Int
  BY UplinkAssumption DEF UInv, QueueOK, Control, Wall
<1>3. \A i \in DOMAIN queue : Expires(queue[i].report) > Wall /\ queue[i].deadline > now =>
        \E j \in DOMAIN kept : kept[j] = queue[i]
  BY <1>2, PruneMembers
<1> HIDE DEF kept
<1>4. ASSUME NEW i \in DOMAIN queue, queue[i].report.id \notin Ids(queue') PROVE Expired(queue[i])
  <2>1. queue[i] \in Entries(Report) /\ Expires(queue[i].report) \in Nat
    BY <1>2, ExpiresType, ReportsSized
  <2>2. queue[i].deadline \in Nat
    BY <2>1 DEF Entries
  <2>3. ~(Expires(queue[i].report) > Wall /\ queue[i].deadline > now)
    BY <1>1, <1>3, <1>4, StillThere
  <2>4. Expires(queue[i].report) <= Wall \/ queue[i].deadline <= now
    BY <1>2, <2>1, <2>2, <2>3
  <2> QED
    BY <2>4 DEF Expired
<1> QED
  BY <1>4 DEF Reasons

LEMMA RemoveReason == ASSUME UInv, RemoveSettled PROVE Reasons
<1>1. queue' = RemoveBatch(queue, batch) /\ main = "remove"
  BY DEF RemoveSettled
<1>2. queue \in Seq(Entries(Report))
  BY DEF UInv, QueueOK
<1>3. \A i \in DOMAIN queue : queue[i].report.id \notin InBatch =>
        \E j \in DOMAIN queue' : queue'[j] = queue[i]
  BY <1>1, <1>2, RemoveMembers DEF InBatch
<1>4. ASSUME NEW i \in DOMAIN queue, queue[i].report.id \notin Ids(queue')
      PROVE  queue[i].report.id \in InBatch
  BY <1>3, <1>4, StillThere
<1> QED
  BY <1>1, <1>4 DEF Reasons

LEMMA KeepsReason == ASSUME queue' = queue PROVE Reasons
BY DEF Reasons, Ids

LEMMA ReasonsStep == UInv /\ [Next]_vars => [Reasons]_vars
<1> SUFFICES ASSUME UInv, [Next]_vars PROVE [Reasons]_vars
  OBVIOUS
<1>1. CASE ReaderStep
  <2>1. CASE PushReports
    BY <2>1, PushReason
  <2>2. CASE ~PushReports
    <3>1. queue' = queue
      BY <1>1, <2>2 DEF ReaderStep, FailReader, EndReader, ReadReports
    <3> QED
      BY <3>1, KeepsReason
  <2> QED
    BY <2>1, <2>2
<1>2. CASE MainProgress
  <2>1. CASE RemoveSettled
    BY <2>1, RemoveReason
  <2>2. CASE ~RemoveSettled
    <3>1. queue' = queue
      BY <1>2, <2>2 DEF MainProgress, LeaveLoop, SaveHold, Send, Resolve, NoAnswer, Answer,
                        SaveAnswer, Join
    <3> QED
      BY <3>1, KeepsReason
  <2> QED
    BY <2>1, <2>2
<1>3. CASE Select
  BY <1>3, SelectReason
<1>4. CASE FailWrite \/ Signal \/ Tick \/ \E offset \in Offset : StepClock(offset)
  <2>1. queue' = queue
    BY <1>4 DEF FailWrite, Signal, Tick, StepClock
  <2> QED
    BY <2>1, KeepsReason
<1> QED
  BY <1>1, <1>2, <1>3, <1>4 DEF Next

\* What arrives during an upload, and a batch that was not settled, stays: a report leaves the
\* queue only expired, settled, or to make room at the limit for one that expires no sooner.
THEOREM ReportsLeaveForAReason == Spec => LeavesForAReason
BY UplinkInvariant, ReasonsStep, PTL DEF Spec, LeavesForAReason, Reasons

-----------------------------------------------------------------------------
(* What an upload carries *)

\* The formula of BatchShape.
Shape ==
  main = "loop" /\ main' = "reserve" =>
    /\ \A i \in DOMAIN queue' : Expires(queue'[i].report) <= Expires(batch'[1])
    /\ \A i, j \in DOMAIN batch' : i < j => batch'[i].id # batch'[j].id
    /\ \A i, j \in 2..Len(batch') : i < j => Expires(batch'[i]) <= Expires(batch'[j])
    /\ Len(batch') <= (IF slow THEN 1 ELSE MaxBatch)
    /\ Len(batch') > 1 => BatchBytes(batch') <= MaxBatchBytes

LEMMA SelectShape == ASSUME UInv, Select PROVE Shape
<1> DEFINE kept == Prune(queue, Wall, now)
           chosen == IF slow THEN Latest(kept) ELSE Batch(kept)
<1>1. queue' = kept /\ batch' = chosen /\ (main' = "reserve" => chosen # <<>>)
  BY DEF Select
<1>2. kept \in Seq(Entries(Report)) /\ Sorted(kept) /\ slow \in BOOLEAN
  BY PruneOK DEF UInv, QueueOK, Control, Orderly
<1> HIDE DEF kept
<1>3. chosen # <<>> =>
        /\ \A i \in DOMAIN kept : Expires(kept[i].report) <= Expires(chosen[1])
        /\ \A i, j \in DOMAIN chosen : i < j => chosen[i].id # chosen[j].id
        /\ \A i, j \in 2..Len(chosen) : i < j => Expires(chosen[i]) <= Expires(chosen[j])
        /\ Len(chosen) <= (IF slow THEN 1 ELSE MaxBatch)
        /\ Len(chosen) > 1 => BatchBytes(chosen) <= MaxBatchBytes
  <2>1. chosen = Latest(kept) \/ chosen = Batch(kept)
    BY <1>2
  <2>2. slow => chosen = Latest(kept)
    BY <1>2
  <2> HIDE DEF chosen
  <2>3. chosen # <<>> =>
        /\ \A i \in DOMAIN kept : Expires(kept[i].report) <= Expires(chosen[1])
        /\ \A i, j \in DOMAIN chosen : i < j => chosen[i].id # chosen[j].id
        /\ \A i, j \in 2..Len(chosen) : i < j => Expires(chosen[i]) <= Expires(chosen[j])
        /\ Len(chosen) <= MaxBatch /\ (chosen = Latest(kept) => Len(chosen) <= 1)
        /\ Len(chosen) > 1 => BatchBytes(chosen) <= MaxBatchBytes
    BY <1>2, <2>1, ChosenShape, ReportsSized
  <2>4. chosen # <<>> => Len(chosen) <= (IF slow THEN 1 ELSE MaxBatch)
    BY <2>2, <2>3
  <2> QED
    BY <2>3, <2>4
<1> HIDE DEF chosen
<1> QED
  BY <1>1, <1>3 DEF Shape

LEMMA ShapeStep == UInv /\ [Next]_vars => [Shape]_vars
<1> SUFFICES ASSUME UInv, [Next]_vars PROVE [Shape]_vars
  OBVIOUS
<1>1. CASE Select
  BY <1>1, SelectShape
<1>2. CASE ReaderStep \/ FailWrite \/ Signal \/ Tick \/ \E offset \in Offset : StepClock(offset)
  BY <1>2 DEF ReaderStep, PushReports, FailReader, EndReader, ReadReports, FailWrite, Signal, Tick,
              StepClock, Shape
<1>3. CASE MainProgress
  BY <1>3 DEF MainProgress, LeaveLoop, SaveHold, Send, Resolve, NoAnswer, Answer, SaveAnswer,
              RemoveSettled, Join, Shape
<1> QED
  BY <1>1, <1>2, <1>3 DEF Next

\* An upload carries the newest report of the queue, the rest oldest first, no report twice, and
\* no more than a batch or a slow policy allows.
THEOREM BatchesAreShaped == Spec => BatchShape
BY UplinkInvariant, ShapeStep, PTL DEF Spec, BatchShape, Shape

-----------------------------------------------------------------------------
(* Where reports come from *)

\* What is in the queue was there before, or has just been pushed.
LEMMA QueueComes ==
  ASSUME UInv, PushReports \/ Select \/ RemoveSettled
  PROVE  Ids(queue') \subseteq Ids(queue) \cup {inbox[i].id : i \in DOMAIN inbox}
<1> DEFINE From(next, ring) == \A j \in DOMAIN next : \E i \in DOMAIN ring : next[j] = ring[i]
<1>1. queue \in Seq(Entries(Report)) /\ now \in Nat /\ rwall \in Int
  BY DEF UInv, QueueOK, Control
<1>2. ASSUME NEW next, From(next, queue) PROVE Ids(next) \subseteq Ids(queue)
  BY <1>2 DEF Ids
<1>3. ASSUME NEW wall, NEW mono PROVE From(Prune(queue, wall, mono), queue)
  BY <1>1, PruneMembers
<1>4. CASE Select
  BY <1>2, <1>3, <1>4 DEF Select
<1>5. CASE RemoveSettled
  <2>1. From(RemoveBatch(queue, batch), queue)
    BY <1>1, RemoveMembers
  <2>2. queue' = RemoveBatch(queue, batch)
    BY <1>5 DEF RemoveSettled
  <2> HIDE DEF From
  <2> QED
    BY <1>2, <2>1, <2>2
<1>6. CASE PushReports
  <2> DEFINE kept == Prune(queue, rwall, now)
  <2>1. /\ inbox \in Seq(Report) /\ QueueOK(kept, now)
        /\ \A i \in DOMAIN inbox : Expires(inbox[i]) > rwall
    BY <1>6, PruneOK DEF UInv, Control, Unexpired, PushReports
  <2>2. From(kept, queue)
    BY <1>3
  <2>3. queue' = PushAll(kept, inbox, rwall, now)
    BY <1>6 DEF PushReports
  <2> HIDE DEF kept, From
  <2>4. Len(inbox) \in 0..Len(inbox)
    BY <2>1
  <2>5. kept \in Seq(Entries(Report)) /\ Orderly(kept)
    BY <2>1 DEF QueueOK
  <2> DEFINE next == PushAll(kept, inbox, rwall, now)
  <2>6. \A j \in DOMAIN next :
          \/ \E i \in DOMAIN kept : next[j] = kept[i]
          \/ \E i \in DOMAIN inbox : next[j] = EntryOf(inbox[i], rwall, now)
    BY <1>1, <2>1, <2>4, <2>5, PushEachOrderly, ReportsSized DEF PushAll
  <2> HIDE DEF next
  <2>7. \A i \in DOMAIN inbox : EntryOf(inbox[i], rwall, now).report = inbox[i]
    BY DEF EntryOf
  <2>8. \A j \in DOMAIN next :
          \/ \E i \in DOMAIN kept : next[j].report.id = kept[i].report.id
          \/ \E i \in DOMAIN inbox : next[j].report.id = inbox[i].id
    BY <2>6, <2>7
  <2>9. Ids(next) \subseteq Ids(kept) \cup {inbox[i].id : i \in DOMAIN inbox}
    BY <2>8 DEF Ids
  <2>10. Ids(kept) \subseteq Ids(queue)
    BY <2>2 DEF From, Ids
  <2> QED
    BY <2>3, <2>9, <2>10 DEF next
<1> QED
  BY <1>4, <1>5, <1>6

LEMMA ChosenFrom ==
  ASSUME NEW ring \in Seq(Entries(Report)), Sorted(ring),
         NEW chosen, chosen = Latest(ring) \/ chosen = Batch(ring)
  PROVE  /\ chosen \in Seq(Report)
         /\ \A i \in DOMAIN chosen : \E j \in DOMAIN ring : chosen[i] = ring[j].report
<1>1. Sized(Report)
  BY ReportsSized
<1>2. chosen \in Seq(Report)
  BY <1>1, ChosenShape
<1>3. \A i \in DOMAIN chosen : \E j \in DOMAIN ring : chosen[i] = ring[j].report
  BY <1>1, ChosenShape
<1> QED
  BY <1>2, <1>3

\* What is chosen has not expired by the clock it is chosen at.
LEMMA BatchComes ==
  ASSUME UInv, Select
  PROVE  \A i \in DOMAIN batch' : batch'[i] \in Report /\ Expires(batch'[i]) > Wall
<1> DEFINE kept == Prune(queue, Wall, now)
           chosen == IF slow THEN Latest(kept) ELSE Batch(kept)
<1>1. queue \in Seq(Entries(Report)) /\ QueueOK(kept, now)
  BY PruneOK DEF UInv, QueueOK
<1>2. \A j \in DOMAIN kept : Expires(kept[j].report) > Wall
  BY <1>1, PruneMembers
<1>3. batch' = chosen
  BY DEF Select
<1> HIDE DEF kept
<1>4. kept \in Seq(Entries(Report)) /\ Sorted(kept)
  BY <1>1 DEF QueueOK, Orderly
<1>5. chosen = Latest(kept) \/ chosen = Batch(kept)
  BY DEF UInv, Control
<1> HIDE DEF chosen
<1>6. /\ chosen \in Seq(Report)
      /\ \A i \in DOMAIN chosen : \E j \in DOMAIN kept : chosen[i] = kept[j].report
  BY <1>4, <1>5, ChosenFrom
<1> QED
  BY <1>2, <1>3, <1>6
=============================================================================
