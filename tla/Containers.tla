----------------------------- MODULE Containers -----------------------------
(***************************************************************************)
(* One inventory of containers and virtual machines                        *)
(* (crates/system/src/containers.rs collect_containers, libvirt.rs): the   *)
(* runtimes are asked one after another, each by several commands, while   *)
(* daemons stop or hang and containers come and go between any two of      *)
(* them.  A container is its id; of libvirt one domain name is considered, *)
(* and what it has is the UUID that bears the name.                        *)
(***************************************************************************)
EXTENDS Naturals, Sequences, FiniteSets

CONSTANTS
  Order,        \* the runtimes in the order they are asked
  Enriched,     \* those whose containers are inspected: docker, podman, nerdctl
  Ids,          \* ids of containers, UUIDs of domains
  MaxChanges    \* bound: changes of the host

Runtimes == {Order[i] : i \in DOMAIN Order}
ContainersAssumption ==
  /\ Order \in Seq(Runtimes) /\ Order # <<>>
  /\ \A i, j \in DOMAIN Order : Order[i] = Order[j] => i = j
  /\ Enriched \subseteq Runtimes \ {"libvirt"} /\ MaxChanges \in Nat

VARIABLES
  mode,           \* per runtime: "absent", "live", "refuses", "down" or "hangs"
  has, stopped,   \* per runtime the containers it has; those that do not run
  asked, step,    \* runtimes finished; the command to run next
  batch,          \* rows of the runtime being asked; libvirt: what was measured
  first,          \* the identities libvirt gave before
  rows, warned, live,
  changes, moved, odd, borne, back   \* of the properties: what changed while they were asked

progress == <<asked, step, batch, first, rows, warned, live, odd>>
world == <<mode, has, stopped, changes, moved, borne, back>>
vars == <<progress, world>>

R == Order[asked + 1]
FirstStep(r) == IF r = "libvirt" THEN "before" ELSE "probe"
NextRuntime ==
  /\ asked' = asked + 1
  /\ step' = IF asked + 1 = Len(Order) THEN "done" ELSE FirstStep(Order[asked + 2])
  /\ batch' = {} /\ first' = {}

\* A command succeeds, or fails with a message; "odd" is one that says neither why
\* the runtime is not there nor that access is denied.  "hangs" is a timeout.
Replies == IF mode[R] = "live" THEN {"ok", "odd"} ELSE {mode[R]}
Classify(reply) ==
  CASE reply = "ok" -> "ok" [] reply = "refuses" -> "permission" [] OTHER -> "not live"

Ask(name) == step = name /\ mode[R] # "absent"
Warn == warned' = warned \cup {R}
NoteOdd(reply) == odd' = IF reply = "odd" THEN odd \cup {R} ELSE odd
Finish(found) == rows' = rows \cup found /\ NextRuntime

SkipAbsent ==
  /\ step \in {"probe", "before"} /\ mode[R] = "absent"
  /\ Finish({}) /\ UNCHANGED <<warned, live, odd, world>>

Probe ==
  /\ Ask("probe")
  /\ \E reply \in Replies :
       /\ NoteOdd(reply)
       /\ IF Classify(reply) = "ok"
          THEN live' = TRUE /\ step' = "list" /\ UNCHANGED <<asked, batch, first, rows, warned>>
          ELSE /\ IF Classify(reply) = "permission" THEN Warn ELSE UNCHANGED warned
               /\ Finish({}) /\ UNCHANGED live
  /\ UNCHANGED world

Row(id) == [runtime |-> R, id |-> id, of |-> id, runs |-> id \notin stopped[R],
            limits |-> FALSE, usage |-> FALSE]

\* Whatever the error, it is said.
List ==
  /\ Ask("list")
  /\ \E reply \in Replies :
       /\ NoteOdd(reply)
       /\ IF reply # "ok" THEN Warn /\ Finish({})
          ELSE LET found == {Row(id) : id \in has[R]}
               IN /\ IF R \in Enriched /\ found # {}
                     THEN step' = "inspect" /\ batch' = found /\ UNCHANGED <<asked, first, rows>>
                     ELSE Finish(found)
                  /\ UNCHANGED warned
  /\ UNCHANGED <<live, world>>

\* A command that names a container which is gone fails as a whole.
Named(found) == {r.id : r \in found} \subseteq has[R]
Details(found) == IF Named(found) THEN Replies ELSE Replies \ {"ok"}

Inspected(found, reply) ==
  IF reply = "ok" THEN {[r EXCEPT !.limits = TRUE] : r \in found} ELSE found

Inspect ==
  /\ step = "inspect"
  /\ \E reply \in Details(batch) :
       LET found == Inspected(batch, reply)
       IN /\ NoteOdd(reply)
          /\ IF reply = "ok" THEN UNCHANGED warned ELSE Warn
          /\ IF \E r \in found : r.runs
             THEN step' = "stats" /\ batch' = found /\ UNCHANGED <<asked, first, rows>>
             ELSE Finish(found)
  /\ UNCHANGED <<live, world>>

Stats ==
  /\ step = "stats"
  /\ \E reply \in Details({r \in batch : r.runs}) :
       /\ NoteOdd(reply)
       /\ IF reply = "ok"
          THEN Finish({[r EXCEPT !.usage = r.runs] : r \in batch}) /\ UNCHANGED warned
          ELSE Finish(batch) /\ Warn
  /\ UNCHANGED <<live, world>>

\* The name's UUID, then the measurements by name, then the UUID again.
Before ==
  /\ Ask("before")
  /\ \E reply \in Replies :
       /\ NoteOdd(reply)
       /\ IF reply = "ok"
          THEN first' = has[R] /\ step' = "measure" /\ UNCHANGED <<asked, batch, rows, warned>>
          ELSE Warn /\ Finish({})
  /\ UNCHANGED <<live, world>>

Measure ==
  /\ step = "measure"
  /\ \E reply \in Replies :
       /\ NoteOdd(reply)
       /\ IF reply = "ok"
          THEN /\ batch' = {Row(id) : id \in has[R]} /\ step' = "after"
               /\ UNCHANGED <<asked, first, rows, warned>>
          ELSE Warn /\ Finish({})
  /\ UNCHANGED <<live, world>>

\* A fault: the identity read first is believed.
JoinFirst(measured, before, after) ==
  {[r EXCEPT !.id = CHOOSE id \in before : TRUE] : r \in {m \in measured : before # {}}}

\* A row takes the UUID that its name had before and after.
JoinIdentities(measured, before, after) ==
  {[r EXCEPT !.id = CHOOSE id \in before : TRUE] :
     r \in {m \in measured : before # {} /\ before = after}}

After ==
  /\ step = "after"
  /\ \E reply \in Replies :
       LET found == JoinIdentities(batch, first, has[R])
       IN /\ NoteOdd(reply)
          /\ IF reply = "ok"
             THEN /\ live' = TRUE /\ Finish(found)
                  /\ IF Cardinality(found) = Cardinality(batch) THEN UNCHANGED warned ELSE Warn
             ELSE Warn /\ Finish({}) /\ UNCHANGED live
  /\ UNCHANGED world

-----------------------------------------------------------------------------
\* The host meanwhile.
Disturb(r) ==
  /\ step # "done" /\ changes < MaxChanges /\ mode[r] # "absent"
  /\ changes' = changes + 1 /\ moved' = moved \cup {r}
  /\ UNCHANGED progress

DaemonChanges == \E r \in Runtimes, m \in {"live", "refuses", "down", "hangs"} :
  /\ Disturb(r) /\ m # mode[r]
  /\ mode' = [mode EXCEPT ![r] = m] /\ UNCHANGED <<has, stopped, borne, back>>

ContainersChange == \E r \in Runtimes \ {"libvirt"}, id \in Ids :
  /\ Disturb(r)
  /\ has' = [has EXCEPT ![r] = IF id \in @ THEN @ \ {id} ELSE @ \cup {id}]
  /\ UNCHANGED <<mode, stopped, borne, back>>

NameChanges == \E now \in {{}} \cup {{id} : id \in Ids} :
  /\ "libvirt" \in Runtimes /\ Disturb("libvirt") /\ now # has["libvirt"]
  /\ has' = [has EXCEPT !["libvirt"] = now]
  /\ borne' = borne \cup has["libvirt"] /\ back' = (back \/ now \cap borne # {})
  /\ UNCHANGED <<mode, stopped>>

Init ==
  /\ mode \in [Runtimes -> {"absent", "live", "refuses", "down", "hangs"}]
  /\ has \in [Runtimes -> SUBSET Ids]
  /\ "libvirt" \in Runtimes => \A a, b \in has["libvirt"] : a = b
  /\ \E s \in SUBSET Ids : stopped = [r \in Runtimes |-> s]
  /\ asked = 0 /\ step = FirstStep(Order[1]) /\ batch = {} /\ first = {}
  /\ rows = {} /\ warned = {} /\ live = FALSE
  /\ changes = 0 /\ moved = {} /\ odd = {} /\ borne = {} /\ back = FALSE

Next == \/ SkipAbsent \/ Probe \/ List \/ Inspect \/ Stats \/ Before \/ Measure \/ After
        \/ DaemonChanges \/ ContainersChange \/ NameChanges

Spec == Init /\ [][Next]_vars

-----------------------------------------------------------------------------
RowsOf(r) == {row \in rows : row.runtime = r}
IdsOf(r) == {row.id : row \in RowsOf(r)}

\* docs/CONTAINERS.md, Presence and permissions, for the runtimes that nothing happened to
\* while they were asked: one that answers has all its containers in the inventory, with
\* limits and usage and without a warning; one that denies access is named in a warning;
\* one that is not there or not live is silent (libvirt says so).
RuntimesAccounted ==
  step = "done" => \A r \in Runtimes \ (moved \cup odd) :
    /\ mode[r] = "live" =>
         /\ IdsOf(r) = has[r] /\ r \notin warned /\ live
         /\ r \in Enriched => \A row \in RowsOf(r) : row.limits /\ row.usage = row.runs
    /\ mode[r] # "live" => RowsOf(r) = {}
    /\ mode[r] = "refuses" => r \in warned
    /\ mode[r] \in {"absent"} \cup (IF r = "libvirt" THEN {} ELSE {"down"}) => r \notin warned

\* Details that cannot be had cost no row: a row without its details comes with a warning.
RowsSurvive ==
  step = "done" => \A row \in rows :
    row.runtime \in Enriched /\ (~row.limits \/ row.usage # row.runs) => row.runtime \in warned

\* The measurements of a virtual machine carry the UUID of the machine that was measured,
\* unless its name was given away and came back in between.
MeasuredIsNamed == \A row \in rows : row.id = row.of \/ back

\* docs/ARCHITECTURE.md:59: a command that times out becomes a warning.  The probe's does not.
TimeoutsAreSaid ==
  step = "done" => \A r \in Runtimes \ (moved \cup odd) : mode[r] = "hangs" => r \in warned
=============================================================================
