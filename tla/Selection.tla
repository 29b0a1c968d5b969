----------------------------- MODULE Selection -----------------------------
(***************************************************************************)
(* Which processes a listing shows and in which order (crates/core/src/    *)
(* lib.rs): the filter of the command line merged with the expression the  *)
(* user types, the three groupings, both directions, the limit.            *)
(*                                                                         *)
(* A process is named by its PID, which is also its place in the snapshot  *)
(* (the collector lists /proc in PID order).  PIDs are 1..Count; a parent  *)
(* is 0 (none), a PID of the snapshot, or Count+1, a process that exited   *)
(* after its child was read.  The parents of one snapshot are read at      *)
(* different instants, so nothing rules out a cycle among them.            *)
(***************************************************************************)
EXTENDS Naturals, Sequences, FiniteSets, SequencesExt

CONSTANTS Count,        \* the processes of the snapshot
          Users,        \* the users, numbers from 1 (0: no criterion)
          Deepest,      \* the indentation limit: 32 in the code
          Snapshots,    \* the snapshots considered: for each PID its parent,
                        \* its user and its load
          Filters,      \* the criteria considered: [user, least], 0 for none
          Requests      \* [group, direction, limit]

SelectionAssumption ==
    /\ Count \in Nat \ {0}
    /\ Users \subseteq Nat \ {0}
    /\ Deepest \in Nat \ {0}
    /\ Snapshots \subseteq [1..Count -> [parent : 0..(Count + 1), user : Users, load : Nat]]
    /\ Filters \subseteq [user : Users \cup {0}, least : Nat]
    /\ \A r \in Requests : /\ r.group \in {"none", "tree", "user"}
                          /\ r.direction \in {"ascending", "descending"}
                          /\ r.limit \in Nat

VARIABLES ps,           \* the snapshot
          base, typed,  \* the criteria of the command line and of the "f" box
          asked,        \* the request
          shown         \* the rows: [pid, depth, label], label 0 when not repeated

vars == <<ps, base, typed, asked, shown>>

Indices == 1..Count

---------------------------------------------------------------------------
\* A criterion the expression names replaces the command line's.
Merge(t, e) == [user |-> IF e.user # 0 THEN e.user ELSE t.user,
                least |-> IF e.least # 0 THEN e.least ELSE t.least]

Matches(f, p) == /\ f.user = 0 \/ p.user = f.user
                 /\ p.load >= f.least

Selected == {i \in Indices : Matches(Merge(base, typed), ps[i])}

\* The load decides, the PID breaks the tie: no two processes compare equal.
Before(i, j) == \/ ps[i].load < ps[j].load
                \/ ps[i].load = ps[j].load /\ i < j

ByPid == {p \in Indices \X Indices : p[1] < p[2]}
ByLoad == {p \in Indices \X Indices : Before(p[1], p[2])}
ByLabel == {p \in Indices \X Indices :
                \/ ps[p[1]].user < ps[p[2]].user
                \/ ps[p[1]].user = ps[p[2]].user /\ Before(p[1], p[2])}

\* The elements of S in an order: each after as many as come before it.
Sorted(S, order) ==
    [k \in 1..Cardinality(S) |->
        CHOOSE i \in S : Cardinality({j \in S : <<j, i>> \in order}) = k - 1]

Directed(s) == IF asked.direction = "descending" THEN Reverse(s) ELSE s

Flat == Directed(Sorted(Selected, ByLoad))

---------------------------------------------------------------------------
\* A fault: a parent that the filter hides still counts as listed.
ListedParentAny(i) == IF ps[i].parent \in Indices THEN ps[i].parent ELSE 0

\* A process whose parent is not listed is a root.
ListedParent(i) == IF ps[i].parent \in Selected THEN ps[i].parent ELSE 0
Children == [p \in 0..Count |->
                Directed(Sorted({i \in Selected : ListedParent(i) = p}, ByLoad))]

\* The rows of the children of p, each followed by what its own call appends.
\* visiting is the branch under way, which a call extends by one process, so
\* that calls are Count deep at most.
AppendEach(children, deeper) ==
    [p \in 0..Count |-> [visiting \in SUBSET Indices |->
        FlattenSeq([k \in DOMAIN children[p] |->
            IF children[p][k] \in visiting THEN <<>>
            ELSE <<children[p][k]>> \o deeper[children[p][k]][visiting \cup {children[p][k]}]])]]
NothingAppended == [p \in 0..Count |-> [visiting \in SUBSET Indices |-> <<>>]]
AppendChildren(children) ==
    LET calls[n \in 0..Count] ==
            IF n = 0 THEN NothingAppended ELSE AppendEach(children, calls[n - 1])
    IN  calls

\* A parent is followed from the roots down; what no root reaches (a cycle)
\* comes last.
TreeOrder ==
    LET reached == AppendChildren(Children)[Count][0][{}]
    IN  reached \o Sorted(Selected \ ToSet(reached), ByPid)

\* One sort by label and ascending order; descending then reverses each run.
Mirrored(s, k) ==
    LET run == {j \in DOMAIN s : ps[s[j]].user = ps[s[k]].user}
        first == CHOOSE j \in run : \A o \in run : j <= o
        last == CHOOSE j \in run : \A o \in run : o <= j
    IN  s[first + last - k]
GroupOrder ==
    LET s == Sorted(Selected, ByLabel)
    IN  IF asked.direction = "descending" THEN [k \in DOMAIN s |-> Mirrored(s, k)] ELSE s

Ordered == CASE asked.group = "tree" -> TreeOrder
             [] asked.group = "user" -> GroupOrder
             [] OTHER -> Flat

---------------------------------------------------------------------------
\* The indentation follows the parents of the whole snapshot, listed or not,
\* until one was seen before.
ClimbFrom(snapshot, higher) ==
    [i \in 1..(Count + 1) |-> [seen \in SUBSET (1..(Count + 1)) |->
        IF i \notin Indices \/ snapshot[i].parent \in seen \cup {0} THEN 0
        ELSE 1 + higher[snapshot[i].parent][seen \cup {snapshot[i].parent}]]]
NotClimbed == [i \in 1..(Count + 1) |-> [seen \in SUBSET (1..(Count + 1)) |-> 0]]
Climb(snapshot) ==
    LET steps[n \in 0..Deepest] ==
            IF n = 0 THEN NotClimbed ELSE ClimbFrom(snapshot, steps[n - 1])
    IN  steps
TreeDepth(pid) == Climb(ps)[Deepest][pid][{}]

Truncate(s) == SubSeq(s, 1, IF asked.limit < Len(s) THEN asked.limit ELSE Len(s))

Rows ==
    LET s == Truncate(Ordered)
    IN  [k \in DOMAIN s |->
            [pid |-> s[k],
             depth |-> IF asked.group = "tree" THEN TreeDepth(s[k]) ELSE 0,
             label |-> IF asked.group = "user"
                          /\ (k = 1 \/ ps[s[k - 1]].user # ps[s[k]].user)
                       THEN ps[s[k]].user ELSE 0]]

Init == /\ ps \in Snapshots
        /\ base \in Filters
        /\ typed \in Filters
        /\ asked \in Requests
        /\ shown = <<>>

\* A selection that matches nothing shows no rows and is over.
SelectProcesses == /\ shown = <<>>
                   /\ Selected # {}
                   /\ shown' = Rows
                   /\ UNCHANGED <<ps, base, typed, asked>>

Next == SelectProcesses
SelectionSpec == Init /\ [][Next]_vars

---------------------------------------------------------------------------
Listed == {shown[k].pid : k \in DOMAIN shown}
Place(i) == CHOOSE k \in DOMAIN shown : shown[k].pid = i
\* The processes above each one: whatever holds its parent, and with a process
\* the parent of that, holds them.
Ancestors ==
    LET closed == {S \in SUBSET Indices : \A j \in S : ps[j].parent \in Indices => ps[j].parent \in S}
    IN  [i \in Indices |-> {a \in Indices :
            \A S \in closed : (ps[i].parent \in Indices => ps[i].parent \in S) => a \in S}]

\* Whatever the parents look like (orphans, cycles), the listing shows every
\* matching process once and nothing else, as many as the limit lets through.
\* A criterion the user did not type stays the command line's.
EveryMatchOnce ==
    shown # <<>> =>
    LET wanted == {i \in Indices :
            /\ \A u \in Users : (typed.user = u \/ (typed.user = 0 /\ base.user = u))
                                    => ps[i].user = u
            /\ ps[i].load >= IF typed.least # 0 THEN typed.least ELSE base.least}
    IN  /\ Listed \subseteq wanted
        /\ Len(shown) = Cardinality(Listed)
        /\ Len(shown) = IF asked.limit < Cardinality(wanted) THEN asked.limit
                        ELSE Cardinality(wanted)

\* In the tree a listed parent stands above its child, with only its own
\* descendants in between, and the child is indented one step further (up
\* to the limit), for every process no cycle is above.
ChildUnderParent ==
    asked.group = "tree" =>
    LET above == Ancestors
    IN  \A i \in Listed :
            (ps[i].parent \in Listed /\ \A a \in {i} \cup above[i] : a \notin above[a]) =>
            LET p == ps[i].parent
            IN  /\ Place(p) < Place(i)
                /\ \A k \in (Place(p) + 1)..Place(i) : p \in above[shown[k].pid]
                /\ shown[Place(i)].depth \in {shown[Place(p)].depth + 1, Deepest}

\* The rows of a group are together under one heading, in the order asked
\* for; the groups ascend in both directions.
GroupsTogether ==
    asked.group = "user" =>
    \A k \in 1..(Len(shown) - 1) :
        LET this == ps[shown[k].pid] next == ps[shown[k + 1].pid]
        IN  /\ this.user <= next.user
            /\ (shown[k + 1].label # 0) <=> (this.user # next.user)
            /\ this.user = next.user =>
                IF asked.direction = "descending" THEN this.load >= next.load
                ELSE this.load <= next.load
=============================================================================
