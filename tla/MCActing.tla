------------------------------ MODULE MCActing ------------------------------
(* What waits for something outside, on small instances: the lens-top screen  *)
(* with its signals ("top"), the service and container actions ("action"),    *)
(* the diagnostic shell ("shell"), a collection with its external commands    *)
(* ("collection"), the container runtimes it asks ("containers") and what is  *)
(* concluded from it when sources fail ("findings").  A behaviour is about    *)
(* one of them.                                                               *)
EXTENDS MCTop

CONSTANTS u, v, Cap, MaxLines, MaxCommands, MaxDeaths, MaxChanges, Order, Afterwards, Commands,
          RuntimeOrder, Inspectable, Identities, Machines, Outages

\* The domains of the collection and the commands of each; "system" is collected last.
MCOrder == <<"services", "hardware", "disk">>
MCCommands == [services |-> <<"command">>, hardware |-> <<"output", "probe">>,
               disk |-> <<"command">>, system |-> <<"probe", "command", "status", "command">>]
MCRuntimeOrder == <<"docker", "libvirt">>

VARIABLES part,
  state, act, late, acted, held, changes,                                \* Actions
  panel, visible, typed, output, running, threads, channel, issued, deaths, \* Shell
  past, child, over, holds, read, warned, thread, joined, done, lost, lostSoFar, \* Collection
  modes, has, stopped, queried, command, batch, first, listing, told, up, disturbed,
  moved, odd, borne, back,                                               \* Containers
  machine, unread, inventoried, findings, links, phase                   \* Findings

A == INSTANCE Actions WITH Units <- {u, v}, Namesakes <- {u, v}, Listings <- {{u, v}}, run <- act
S == INSTANCE Shell WITH Panels <- {"view", "top"}, open <- visible
K == INSTANCE Collection WITH late <- over, faults <- lostSoFar
D == INSTANCE Containers WITH Order <- RuntimeOrder, Enriched <- Inspectable, Ids <- Identities,
       mode <- modes, step <- command, rows <- listing, changes <- disturbed,
       asked <- queried, live <- up, warned <- told
N == INSTANCE Findings WITH Hosts <- Machines, Failures <- Outages, host <- machine,
       snapshot <- inventoried, step <- phase, failed <- unread

ASSUME ActingAssumption ==
  /\ A!ActionsAssumption /\ S!ShellAssumption /\ K!CollectionAssumption
  /\ D!ContainersAssumption /\ N!FindingsAssumption

-----------------------------------------------------------------------------
Mount(n, used, inodes, actionable) ==
  [name |-> n, source |-> n, used |-> used, inodes |-> inodes, actionable |-> actionable,
   length |-> n]
Device(passed, condition, members, worn) ==
  [name |-> 1, mounted |-> {1}, passed |-> passed, state |-> condition, members |-> members,
   worn |-> worn]
Interface(down, address, tunnel, idle) ==
  [name |-> 1, down |-> down, address |-> address, tunnel |-> tunnel, idle |-> idle]
Route(n, default, via) == [name |-> n, default |-> default, via |-> via]
Socket(anywhere, ssh, pid, local) ==
  [name |-> 1, anywhere |-> anywhere, ssh |-> ssh, pid |-> pid, local |-> local]
MCOutages == {{}, {"services", "routes"}} \cup
  {{s} : s \in {"services", "restarts", "logs", "mounts", "inodes", "deleted", "devices",
                "interfaces", "routes", "sockets", "modems", "health", "vcgencmd"}}

\* A host with nothing to find, and hosts that differ from it in one domain, on both sides
\* of every limit; interfaces and routes differ together.  One host names what is not there.
Healthy ==
  [services |-> {[name |-> 1, failed |-> FALSE, restarts |-> 2]}, containers |-> {[name |-> 1]},
   processes |-> {[name |-> 1, service |-> 1], [name |-> 2, service |-> 0]},
   logs |-> {[name |-> 1, unit |-> 1, error |-> TRUE, times |-> 4, crash |-> FALSE]},
   mounts |-> {Mount(1, 89, 89, TRUE), Mount(2, 89, 0, TRUE)},
   deleted |-> {[pid |-> 1, under |-> {1, 2}], [pid |-> 3, under |-> {1}]},
   devices |-> {Device(TRUE, "Optimal", {}, FALSE)},
   interfaces |-> {Interface(FALSE, 1, FALSE, FALSE)}, routes |-> {Route(1, TRUE, 1)},
   sockets |-> {Socket(FALSE, FALSE, 2, 1)}, modems |-> {}, sensors |-> {},
   pi |-> [active |-> {}, past |-> FALSE]]
Differ(domain, values) == {[Healthy EXCEPT ![domain] = x] : x \in values}
MCMachines ==
  UNION {
    Differ("services", {{[name |-> 1, failed |-> f, restarts |-> n]} : f \in BOOLEAN, n \in {2, 3}}),
    Differ("mounts", {{Mount(1, n, i, a)} : n \in {89, 90, 97}, i \in {0, 90, 97}, a \in BOOLEAN}),
    Differ("sockets", {{Socket(TRUE, s, p, 2)} : s \in BOOLEAN, p \in {0, 1, 3}}),
    Differ("logs", {{[name |-> 1, unit |-> 0, error |-> TRUE, times |-> n, crash |-> x]} :
                      n \in {4, 5}, x \in BOOLEAN}),
    Differ("modems", {{[name |-> 1, state |-> s, signal |-> q]} :
                        s \in {"failed", "connected", "disabled"}, q \in {15, 16}}),
    Differ("sensors", {{[name |-> 1, degrees |-> d, max |-> m, critical |-> x, tool |-> t]} :
                         d \in {79, 80, 84, 90}, m \in {0, 84, 95}, x \in {0, 80, 100},
                         t \in BOOLEAN}),
    Differ("pi", [active : {{}, {"throttled"}, {"soft temperature limit"}}, past : BOOLEAN]),
    Differ("devices", {{Device(p, s, m, x)} : p \in BOOLEAN, x \in BOOLEAN,
                         s \in {"Optimal", "Failed", "Degraded"}, m \in {{}, {"Failed"}}}),
    {[Healthy EXCEPT !.interfaces = {Interface(f[1], f[2], f[3], f[4])}, !.routes = r] :
       f \in BOOLEAN \X {0, 1} \X BOOLEAN \X BOOLEAN,
       r \in {{}, {Route(1, TRUE, 1)}, {Route(1, FALSE, 1), Route(2, TRUE, 0)}}},
    {[Healthy EXCEPT !.interfaces = {}, !.routes = {}],
     [Healthy EXCEPT !.services = {}, !.devices = {[d EXCEPT !.mounted = {1, 3}] : d \in @},
                     !.routes = {Route(1, TRUE, 3)}]}}

-----------------------------------------------------------------------------

action_ == <<state, act, late, acted, held, changes>>
shell_ == <<panel, visible, typed, output, running, threads, channel, issued, deaths>>
collection_ == <<past, child, over, holds, read, warned, thread, joined, done, lost, lostSoFar>>
containers_ == <<modes, has, stopped, queried, command, batch, first, listing, told, up,
                 disturbed, moved, odd, borne, back>>
findings_ == <<machine, unread, inventoried, findings, links, phase>>
inventory_ == <<collection_, containers_, findings_>>
allvars == <<part, vars, action_, shell_, inventory_>>

ActionUnused ==
  /\ state = <<>> /\ act = [at |-> "unused"] /\ late = FALSE /\ acted = {} /\ held = {}
  /\ changes = 0
ShellUnused ==
  /\ panel = "none" /\ visible = FALSE /\ typed = FALSE /\ output = <<>> /\ running = FALSE
  /\ threads = {} /\ channel = <<>> /\ issued = 0 /\ deaths = 0

ContainersUnused ==
  /\ modes = <<>> /\ has = <<>> /\ stopped = <<>> /\ queried = 0 /\ command = "none" /\ batch = {}
  /\ first = {} /\ listing = {} /\ told = {} /\ up = FALSE /\ disturbed = 0 /\ moved = {}
  /\ odd = {} /\ borne = {} /\ back = FALSE
FindingsUnused ==
  /\ machine = <<>> /\ unread = {} /\ inventoried = <<>> /\ findings = <<>> /\ links = {}
  /\ phase = "none"

\* The commands that get as far as to verify what they did.
Verified == {o \in A!Options : /\ o.yes /\ ~o.dry /\ ~o.demo /\ ~o.malformed
                               /\ o.how # "none" /\ o.expect # "none"}

\* The collection starts in one state and rests there in the other behaviours.  Of two
\* containers the first may be one that does not run.
ActingInit ==
  /\ part \in {"top", "action", "shell", "collection", "containers", "findings"}
  /\ IF part = "top" THEN InitTop ELSE ProcessUnused /\ LoopUnused
  /\ IF part = "action" THEN A!Init /\ act.o \in Verified ELSE ActionUnused
  /\ IF part = "shell" THEN S!Init ELSE ShellUnused
  /\ IF part = "containers" 
     THEN D!Init /\ \A r \in D!Runtimes : 2 \notin stopped[r] ELSE ContainersUnused
  /\ IF part = "findings" THEN N!Init ELSE FindingsUnused
  /\ K!Init

Top(step) == part = "top" /\ step /\ UNCHANGED <<part, action_, shell_, inventory_>>
Action(step) == part = "action" /\ step /\ UNCHANGED <<part, vars, shell_, inventory_>>
Shell(step) == part = "shell" /\ step /\ UNCHANGED <<part, vars, action_, inventory_>>
Collection(step) ==
  part = "collection" /\ step /\ UNCHANGED <<part, vars, action_, shell_, containers_, findings_>>
Containers(step) ==
  part = "containers" /\ step /\ UNCHANGED <<part, vars, action_, shell_, collection_, findings_>>
Findings(step) ==
  part = "findings" /\ step /\ UNCHANGED <<part, vars, action_, shell_, collection_, containers_>>

ActingNext == \/ Top(NextTop) \/ Action(A!Next) \/ Shell(S!Next) \/ Collection(K!Next)
              \/ Containers(D!Next) \/ Findings(N!Next)

\* The fairness of each part; a behaviour is about one of them, so that each line
\* assumes of it what its own specification does.
Work(d) == K!Spawn(d) \/ K!Timeout(d) \/ K!ReadOutput(d) \/ K!EndDomain(d)
ActingFairness ==
  /\ WF_allvars(\/ Top(TakeRequest) \/ Shell(S!Finish) \/ Collection(K!Join)
                \/ Action(\/ A!Validate \/ A!Resolve \/ A!Permit \/ A!Act
                          \/ A!ReadWait \/ A!Collect \/ A!Decide))
  /\ WF_allvars(\/ Top(SendSnapshot) \/ Action(A!Elapse) \/ Shell(S!Show \/ S!NoticeDeath)
                \/ Collection(K!Diagnose))
  /\ WF_allvars(Top(BecomeDue) \/ Collection(Work("services")))
  /\ WF_allvars(Top(StartRefresh) \/ Collection(Work("disk")))
  /\ WF_allvars(Top(FinishAction) \/ Collection(Work("hardware")))
  /\ WF_allvars(Top(ShowSnapshot \/ ShowError \/ NoticeDeath) \/ Collection(K!Elapse("services")))
  /\ WF_allvars(Top(RunStep /\ UNCHANGED uiVars) \/ Collection(K!Elapse("disk")))
  /\ WF_allvars(Collection(K!Elapse("hardware")))
  /\ WF_allvars(Collection(Work("system")))
  /\ WF_allvars(Collection(K!Elapse("system")))

ActingSpec == ActingInit /\ [][ActingNext]_allvars /\ ActingFairness

\* lens-top comes to show the processes as they are (TopLoop).
TopShowsTheHost == part = "top" => TopCatchesUp

\* Results in the shell keep their order and its limit.  A finished collection has the output
\* of each command or a warning, but of the probes and vcgencmd, which fail without a word,
\* and leaves no command running.
ResultsHold ==
  /\ part = "shell" => S!ResultsInOrder /\ S!OutputBounded
  /\ part = "collection" => K!NothingMissingSilently /\ K!NothingRunsOn

\* A runtime's containers are in the inventory, with their details and under their own
\* identity, or it is said why not.  A source that failed takes findings away and says so,
\* but for the SMART and RAID tools and vcgencmd, which take theirs away unsaid; it raises
\* none but that of a missing default route, which is found as soon as the routes are not
\* read.  An interface that the default route uses is watched, and the links of a snapshot
\* lead to what is in it, but for those whose end a row names and nobody looks up.
SnapshotHolds ==
  /\ part = "containers" => D!RuntimesAccounted /\ D!RowsSurvive /\ D!MeasuredIsNamed
  /\ part = "findings" => /\ N!NothingInvented /\ N!CoverageNotClaimed
                          /\ N!DefaultIsWatched /\ N!LinksResolve

\* Whatever hangs outside, it ends: the dialog that runs a signal, an action that is
\* verified, a command typed into the shell, a collection.  What may keep a collection for
\* ever is a process left behind that holds a pipe, and a command that has no deadline.
EverythingEnds ==
  /\ part = "top" => DialogComesBack
  /\ part = "action" => A!ActionEnds
  /\ part = "shell" => S!CommandComesBack
  /\ part = "collection" => K!EndsUnlessHeld
=============================================================================
