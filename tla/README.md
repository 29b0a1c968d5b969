# A TLA+ development of Dataplicity Lens

This directory holds TLA+ specifications of Lens, of its fleet reporting and of its local
tools, the configurations that model-check them with TLC, and theorems that TLAPS checks.
Paths below are relative to the repository (`crates/...`, `apps/...`); the exact lines behind
each definition are in `PROJECT.json` under `map`. Linux is modelled; code for other
systems is not.

    tlc -workers 2 -config Tools.cfg MCTools      # any run of PROJECT.json
    tlapm PublisherProofs.tla                     # the theorems

## 1. The system

Lens is two systems that share a data model.

**Fleet reporting** (`crates/reporting`, `apps/lens-daemon`, `apps/lens-publisher`,
`packaging/systemd`) is a pipeline of two long-running processes on each host. Its job is
to survive restarts, dead peers, a full pipe, an unreachable server and a clock that is
set, without ever becoming a load on the host or on the server.

| part | state | operations | talks to |
|---|---|---|---|
| `lens-daemon` | its ring, `next`, the snapshot worker | sample, push, flush | the FIFO; a worker process per sample |
| ring (`buffer.rs`) | reports by expiry, each with a monotonic deadline | push, prune, latest, batch, remove | one in the daemon, one in the publisher |
| writer (`ipc.rs`) | `file`, `pending`, `sent`, `cut` | flush: open, newline, up to 128 writes | the FIFO, non-blocking |
| reader and decoder (`ipc.rs`, `protocol.rs`) | partial frame, `discard` | read, feed, reset | the FIFO, the publisher's queue |
| `lens-publisher run` | reader thread, main thread, queue, stop flag | read and push; select, reserve, send, record, remove | the server; `state.json`; `publisher.lock` |
| `register`, `configure` | one `State` in memory | one request; one save | the server; the same file and lock |
| gate (`backoff.rs`) | failures, not-before, halted, interval | ready, reserve, reserve_attempt, success, failure, status, observe_interval | stored in `state.json` |
| `lens-reporting-enable` | systemd units, rsyslog file | stop, register, configure, activate, start | `lens-publisher`, systemd, rsyslog |

**Local tools** (`crates/system`, `crates/ui`, `crates/core`, `crates/history`, `apps/lens*`)
collect a snapshot of the host, show it, assert things of it and act on it.

| part | state | operations | talks to |
|---|---|---|---|
| collection (`enrich_snapshot`, `command_with_timeout`) | a thread per domain, a child process each | spawn, wait, kill, read, join | external commands |
| containers (`containers.rs`, `libvirt.rs`) | rows and warnings so far | probe, list, inspect, stats; identities before and after | the container engines |
| findings (`diagnose`, `domain_relationships`) | none | rules over one snapshot | the snapshot |
| specialist views (`specialist_loop`) | snapshot, cursor, detail, pause, search, dialog, one receiver | poll, key, start a collection | collection threads, dialogs |
| cockpit (`cockpit_loop`) | snapshot, latest live sample, two receivers | poll, key, open a view | a collection thread, a live sampler |
| `lens-top` (`run_tui`, `App`) | snapshot, selection, detail, boxes, dialog | poll, key, refresh, signal | a collection worker, a signal thread |
| actions (`run_process_action`, `run_service_action`, `run_container_action`) | a resolved target | validate, resolve, check, act, verify | `/bin/kill`, `systemctl`, an engine |
| shell panels | output, a running command | execute, poll | a thread per command |
| rates, totals, sessions, histories | previous readings, baselines | observe, gap, set_scope | samples and inventories |
| listings (`select_processes`) | none | filter, group, sort, truncate | the snapshot |
| screens (`render_*`) | none | lay out by terminal size | the terminal |
| commands (`run_view`, `lens-top`) | options, policy | validate, collect, filter, write, assert | stdout, the exit status |

What is hard in them:

* *Processes that share a file, crashes around a request, two clocks, a byte stream
  between processes that restart, a queue that changes during a request, two threads that end
  together*: the reporting half.
* *Threads whose results come late, in another order or never.* A loop replaces the receiver
  of a collection that still runs, takes a first part before the rest, drops results while
  paused, and must notice a thread that died (`AnswersAwaited`, `RowsHold`, `...CatchesUp`).
* *Something chosen that has changed since.* A row moves under the cursor, a PID or a container
  name passes to another, a VM's name to another UUID (`ActsOnTheRow`, `CursorFollows`,
  `TopHolds`, `ActionsHold`, `SnapshotHolds`).
* *Things outside that hang or fail.* Commands over their deadline, commands without one, descendants
  that keep a pipe, sources that cannot be read, with a warning or without: which of what is missing is said,
  what may keep everything waiting (`ResultsHold`, `EverythingEnds`, `SnapshotHolds`).
* *Counters that reset, go missing or change their owner, and totals over some of them* (`ReadingsHold`).
* *Boundaries*: trees with cycles and orphans, terminals on either side of a layout change,
  options that meet in one command (`DisplayHolds`, `CommandsHold`).
* *A script that fails halfway and is run again* (`SetupHolds`).

## 2. The modules

    Gate --> Publisher --> MCPublisher          Retain --> Ring, SpecialistLoop, TopLoop
    Ring --> Handoff, Uplink --> Reporting      Handoff, Uplink --> MCPipe; all --> MCPath
    SpecialistLoop, CockpitLoop --> MCLoops
    ProcessAction --> TopLoop --> MCTop --> MCActing, MCTools
    Actions, Shell, Collection, Containers, Findings --> MCActing
    Selection, Screen --> MCDisplay
    Actions, ProcessAction, Setup, Rates, Traffic, MCDisplay, Command, Session --> MCTools

    Publisher --> PublisherProofs               Uplink --> UplinkProofs (and Ring)
    MCPipe, UplinkProofs --> PipeProofs         Reporting, PipeProofs --> ReportingProofs
    MCLoops, UplinkProofs --> LoopsProofs       MCActing --> ActingProofs
    ProcessAction, MCDisplay --> PartsProofs
    MCTools, PartsProofs, UplinkProofs --> ToolsProofs

The MC modules from MCPipe on put several components in one model: **a behaviour is about one
component**, which a variable that never changes (`half`, `part`, `loop`) names; the variables
of the others are unused. A property of such a model is the conjunction of what its parts
promise. Components that do interact are composed in modules of their own: `Reporting` (collector,
FIFO, publisher) and `TopLoop` (the screen and the signal command it runs).

Reporting:

* **`Gate`** is `backoff.rs` as pure operators. A random draw is a set: each operation maps a
  gate to the set of gates the jitter may produce. u64 saturation is kept (`SatAdd`,
  `SatSub`, `MaxWall`); the literals are constants so that the proofs hold for all of them.
  The stored interval may be anything, as in the file; `Interval` clamps it on use.
* **`Publisher`** is the three commands that share `state.json`, for any number of
  processes. Between two system calls that matter a process is at a place: `claim` (hold
  about to be computed), `reserve` (computed, not saved), `send` (saved, not sent), `wait`
  (in flight), `record` (answered, not saved), `body` (register: accepted, body to be
  examined), `final` (last save). `Kill` and `WriteError` take a process out of any of
  them; after a failed `write_state` the new file may or may not be in place. The body of a
  registration response is any combination of a right, wrong or missing registration id,
  identity and credential. Bookkeeping of the properties: `due` is what
  the hold in memory promises in true time, `owed` that of the hold on disk, `seen` the
  registration ids the server may know, `refused` a recorded refusal that nothing has
  repaired. They appear in no guard, with one exception: a fresh registration id is
  one the server has not seen, which is what makes a random UUID random.
* **`Ring`** is `buffer.rs` with `Report::validate`. A report is its id, its collection time
  and its size; sizes count 4 KiB chunks. **`Retain`** is `Vec::retain` as a recursive function, which
  the provers can reason about; the code's retain and filter are this operator wherever a proof needs them.
* **`Handoff`** is the daemon's loop, `Writer::flush`, the kernel's FIFO and the reader with
  its decoder. Every system call is a step. Because the writer never writes more than
  PIPE_BUF bytes at once, a write is whole or nothing, and the FIFO is a sequence of chunks
  and newlines. The FIFO itself is modelled from how the code uses it: EAGAIN when full,
  EPIPE without a reader, end of file without a writer, contents lost when the last
  end closes. `judged` and `same` are bookkeeping.
* **`Uplink`** is the publisher's process: the reader thread and the main thread over the
  queue they share under a mutex. Critical sections are single actions. `rwall` is the
  `now` the thread reads before it reads the FIFO and uses after. The gate is open or not
  as it likes here; `Publisher` has the schedule.
* **`Reporting`** composes `Handoff` and `Uplink` by two instances over shared clocks and the
  shared `inbox`: a read of the FIFO is one step of both. The gate and its policy survive a
  publisher's restart, its queue does not.
* **`Setup`** is the script line by line. A command fails or not; a failure runs the handler of the
  ERR trap, an explicit exit does not. Runs follow each other, each from what the last one
  left, including a forwarding file and a service that another administrator made.

Local tools:

* **`SpecialistLoop`**, **`CockpitLoop`**: each poll of a loop is an action, because a source may
  become ready between any two. A collection thread is a stage (`job`) and what it sent (`chan`);
  a replaced one is a stray whose messages go nowhere. The host is a sequence of rows
  with an epoch, so that a property can say how old what is shown is.
* **`TopLoop`** over **`ProcessAction`**: a process is a PID and its start time; processes exit,
  are renamed, and PIDs are reused at any step. The dialog hands the pinned identity to
  the command, which resolves, checks again and signals.
* **`Actions`**: one run of `--action` for a unit or a container, from its options to its
  verification, beside a host that changes and commands that hang and still take effect. The collection that
  resolves a container lists what the runtimes that did not fail have (`unlisted` is what it missed).
* **`Shell`**: both panels, which differ in whose channel a result comes through.
* **`Collection`**: the domains' threads, the child each runs and what it leaves behind, and what the collecting thread
  runs itself after the join. Commands are of four kinds, by whether they have a deadline and whether
  their failure is a warning: `command_with_timeout` (both), `probe` (a deadline only), `Command::output` for vcgencmd (neither), `Command::status`
  for `openssl version` (a warning only).
* **`Containers`**: the runtimes in order and their commands; a daemon stops, hangs or refuses, containers
  come and go, and a domain name passes to another UUID between any two commands.
* **`Findings`**: `Collected` is a host without the sources that failed (`Silent` names those that leave no warning), `Diagnose` the
  rules, one operator each, `Relationships` the links. Percentages and degrees are numbers on both sides
  of each limit.
* **`Rates`**: five keepers of rates over one counter with lives, losses, gaps and readings that wait; an
  interface is rated over the counters of a snapshot that a sample has been laid over, if it had that interface.
  A column of a chart remembers its two readings; the code keeps only their difference.
* **`Traffic`**: the same keeper over several interfaces: which have a rate and a chart, the total over those of the default routes,
  and the scope of that total, which another inventory or a counter sample may change.
* **`Session`**: what a view remembers since it was opened (baselines, new log entries, histories).
* **`Selection`**: filter, grouping, direction and limit as the code computes them, against the
  set of matches. A sort places each element by the number of those before it; the recursion of
  `append_children` and the loop of `tree_depth` are functions of the calls that are left (as
  many as there are processes, and 32).
* **`Screen`**: for every screen the lines it writes and the line the selected row is on.
* **`Command`**: options, filters, limits, formats and assertions of one command. A row is
  the set of filters it satisfies.

Operators marked "A fault" are variants of the definition that follows them; each stands
for a plausible mistake in that code and is used only to show that a property would catch it.

## 3. The runs

| run | asks | distinct states |
|---|---|---|
| `Publisher_commands` | two processes, every command, crash and write error anywhere; two origins, ids, identities | 147 000 |
| `Publisher_schedule` | one process, several attempts, all answers, Retry-After 3 in both forms, clock steps, saturation at `MaxWall` | 827 000 |
| `Publisher_halt`, `Publisher_restart` | findings 1, 2 | violation |
| `Pipe_safety` | handoff and uplink, each against the most general other half | 1 680 000 |
| `Path_live` | stall, delivery, termination, storage | 55 000 |
| `Reporting_age` | age over both buffers, restarts of both processes, clock steps | 1 660 000 |
| `Reporting_step` | finding 3 | violation |
| `Loops` | specialist views and cockpit | 683 000 |
| `Acting` | lens-top, actions, shells and collections that must end; inventories of containers; findings | 253 000 |
| `Tools` | ten components, one at a time | 4 460 000 |
| `Command_fields` | finding 4 | violation |

What the passing runs show of reporting:

* no request starts before true time has passed what the last recorded attempt or answer
  demanded, in any mix of commands, crashes, failed writes and clocks set back. A clock
  set *forward* can cut a hold short. The process that recorded it waits by its monotonic gate: there only a clock set
  forward between the answer and `deadline()`, which reads it again after the save (`publisher.rs:371-372`), counts (`NoEarlyAttempt`);
* a halt leaves the disk by the first save of a `register` alone, and that save puts the hold of its attempt there (`HaltHolds`);
* a save never replaces the origin, the registration id or the identity, and the file never
  loses its credentials, whatever a server answers to a refresh;
* a stretch of the FIFO between two newlines is always a contiguous part of one frame, so a
  frame that was cut is rejected by the JSON parser and nothing else can be parsed;
* what a writer counts as sent is decoded by, or whole in front of, the reader it was sent to.
  When EPIPE or a missing reader tells it that the reader is gone it sends everything again: the server may see a
  report twice, the queue never holds it twice. A reader that is replaced between two writes leaves no such trace;
  what the first one had taken is then not sent to the second, and `SentIsDelivered` says nothing of it;
* what is chosen for upload is within its 30 minutes of true time, over both buffers and the FIFO,
  unless the wall clock was set back since it was made (finding 3 is the rest);
* a report leaves the publisher's queue because it expired, because it made room, or because
  the batch it was in was settled; nothing else is removed with the batch;
* after a setup that succeeded the publisher reports forwarding exactly when the destination is in place, and then
  rsyslog has read it (that it reports *off* does not mean that rsyslog has dropped what it read before);
  neither service runs without a registration, also after the handlers of failed runs; a forwarding path that
  Lens does not manage stays as it is (`SetupHolds`).

And of the tools:

* what a collection puts on the screen of a view is the answer to what it last asked, also when earlier answers are late or their
  threads die (the keys `f` and `v` may put an earlier snapshot back); it does not take itself for idle while the thread it
  listens to still runs, and comes to show the host if the collections end
  (`AnswersAwaited`, `SpecialistCatchesUp`, `CockpitCatchesUp`, `TopShowsTheHost`);
* an open detail, a paused log view and the cursor keep their rows over every refresh, and an
  action is done to what it was offered for (`RowsHold`, `CursorFollows`, `ActsOnTheRow`);
* a signal goes to a process with the PID that was confirmed and pinned; it can be another
  process only if the PID was reused after the last check, which is one step before the signal;
  a refused or dry command changes nothing; a selector acts only on what is the one match of what its collection
  listed, which a failing runtime makes fewer; what is reported as reached was seen (`TopHolds`, `ActionsHold`);
* no rate is negative, reaches over a declared gap or skips a reading, with any of the five keepers; it never exceeds what flowed between
  its two readings, for an interface provided that they were taken in turn. Disks and processes are
  never mixed with their successors of one name or PID; disks, containers and processes are rated over the time between their
  readings. The total of a network is the sum of the rates shown in its scope, in a chart of one scope (`ReadingsHold`);
* a runtime that nothing happened to has all its containers in the inventory, or a warning, or is not
  live; a VM's measurements carry the UUID that was measured; a failed source raises no finding
  but for the missing default route, and the loss of a finding is said, but for those of SMART and RAID tools and
  of vcgencmd; links lead to rows, but for the ends that a row names and nobody looks up (`SnapshotHolds`);
* of the commands of a finished collection each was read or has a warning, but for the probes and vcgencmd, and none runs on (`ResultsHold`);
* a listing has every match once, children under their parent in any tangle of parents, and the selected row is on
  the terminal: of a list from 15 rows on, of the cockpit on 15 to 39 rows and not at 52 or 53 columns (`DisplayHolds`);
* an exit status 0 means that every assertion holds of what was written, refusals write nothing,
  and a closed pipe is no failure (`CommandsHold`).

### Bounds

Each was chosen so that every boundary of the code is inside it.

* `Publisher_*`: one tick is the shortest
  interval; the uncertainty hold is longer than the interval, the largest Retry-After
  (3) is longer than the local cap (2), several attempts fit before the horizon,
  and in `Publisher_schedule` `MaxWall` is close enough for a hold to saturate. Two processes
  suffice for the lock: a third adds only another loser.
* `Pipe_safety`, `Path_live`: a frame has up to two chunks, so it can be cut between two of them; the FIFO holds two
  items, less than one frame with its newline; two reports of one or two chunks make a newest and an older one that
  fit together or exceed the byte limit. `Budget` (128 in the code) is 2, so a flush runs out in the middle of a frame.
  `TTL` is 1 or 2 and `Horizon` at least that, so reports expire while they are pending, queued or
  in a batch. In `Pipe_safety` the uplink has four reports, three small ones and one of four units, over a queue of three records and five
  units: both limits evict. A batch takes three records in seven units with an envelope of one each, so that the
  small ones go together, newest first, while a small one does not fit beside the large one. `stored` is read by no property there and not part of the `VIEW`.
  `Path_live` delivers two reports and stores two.
* `Reporting_age` follows one report over three ticks and any number of re-deliveries.
* `Loops`: three worlds of one or two rows (of two rows in either order, or the first alone), one change of the host, four keys for a
  specialist and two for the cockpit, one lost thread, one collection that was left behind. Five views cover the
  kinds of collection: in one part, in two, polled, paused, with samplers.
* `Acting`: two units with one name, two changes beside an action; three domains with four commands between them and
  four commands after the join, of all four kinds together, `openssl version` with a certificate behind it;
  four shell commands of up to two lines against a cap of three; two runtimes (one
  enriched, and libvirt), two ids and two changes of the host; about 150 hosts, one domain different from a healthy
  one (and one that names units, mounts and interfaces it does not have), with each source failing alone, the silent ones included, and two together.
* `Tools`: PIDs 1 and 2 with two start times; two units of one name in one runtime and one of another name in another, any of which may fail, at most one oddity
  in a command line; three runs of the script; three units of time, two lives and a counter that every keeper may lose, a
  chart of two columns; two interfaces, one of which may be a loopback or be missing from a sample, default routes through none or the other;
  every shape of parents over four processes; 140 terminal sizes around the layout's
  limits (36, 46, 54, 70, 95, 110, 150 columns, 10 to 60 rows), lists of none, one and 40 rows.

### Fairness

A combined model conjoins one weak-fairness condition per line over the parts; since a behaviour is about
one part, a line assumes of a part what that part's own specification does.

* `Publisher!Fairness`: a step of a running command that does not wait for the outside
  happens; a request ends because the agent has a 20 s limit. Not assumed: that a
  command starts, that `run` finds a batch, that the clock advances.
* `Handoff!CollectorFairness`: the daemon's loop goes on; its sleeps are bounded and its writes do
  not block. Nothing is assumed of the reader, so `CollectorNeverStalls` is about a dead one too.
* `Handoff!StableSpec` drops restarts and clock steps, and assumes a reader that opens and reads.
* `Uplink!Fairness`: neither thread is starved. `Select` is not fair: the gate may stay closed.
* `Reporting!StableSpec`: both processes stay up, and a server that is asked again and again
  accepts in the end (strong fairness on the accepting answer): the one assumption
  about the outside, without which no delivery can be promised.
* `SpecialistLoop!Fairness`, `CockpitLoop!Fairness`, `TopLoop`: a loop that is open polls each source (each iteration polls
  them all and waits at most 100 or 250 ms for a key), timers become due, threads run. Keys, faults and changes of the host are not fair.
  Here it is assumed that every collection ends or its thread is lost. `Collection` shows what that rests on: no command without a deadline
  hangs and nothing keeps a pipe for ever (`EndsUnlessHeld`; `Collection!DeadlinesSuffice` fails). If one never ends
  the view goes on waiting for it, and `SpecialistCatchesUp` and `CockpitCatchesUp` promise nothing.
* `Actions!Fairness`, `Shell!Fairness`: the command goes on and its deadline passes; a shell command's own end is
  assumed, because the panel has no deadline for it.
* `Collection!Fairness`: threads run and time passes. Nothing is assumed of the commands
  or of what they leave behind: `EndsUnlessHeld` is about commands that never end, and names as the only obstacles
  a pipe that is kept and a command without a deadline.

## 4. What is proved

TLAPS proves the following for every value of the constants that satisfies the named assumptions: any
number of processes, reports, rows, units, keys, faults, restarts and clock steps, any limits and durations.
Every invariant but those named below is proved as well as checked; the instances that TLC checks are those of
the runs.

| module | theorem | property | what is shown |
|---|---|---|---|
| `PublisherProofs` | `TypeCorrect` | `TypeOK` | types; no sum leaves the 64 bits |
| | `RequestsExclude` | `OneRequestInFlight` | one request at a time |
| | `NoStaleState` | `MemoryIsDisk` | no update is lost |
| | `HoldPrecedesRequest` | `HoldBeforeRequest` | the hold is saved before the request leaves |
| | `RegistrationIsOne` | `OneRegistrationId` | one registration id |
| | `HaltStopsUploads` | `NoUploadWhenHalted` | a halt holds |
| | `IdentityNeverReplaced` | `IdentityStable` | an action property of every save |
| | `HaltIsLiftedByRegister` | `HaltHolds` | an action property of every save |
| | `AttemptsWait` | `NoEarlyAttempt` | no attempt before what was promised in true time |
| `UplinkProofs` | `PruneOrderly`, `PushOrderly`, `RemoveOrderly` | | limits, order and uniqueness of any ring |
| | `PushLeaves` | | what a push drops, and why |
| | `UplinkTypes`, `QueueStaysBounded`, `DeadlinesStayBounded` | | the queue that two threads share |
| | `ReportsLeaveForAReason`, `BatchesAreShaped` | | action properties of queue and batch |
| `PipeProofs` | `TypeCorrect`, `RingStaysBounded`, `NothingIsDiscarded`, `OnlyWholeFramesAreTaken` | | the handoff by itself |
| | `NeverSpliced` | `NoSplice` | the stream between two newlines is one frame's |
| | `NeverResumed` | `CutMeansNoFrame` | a cut frame is not resumed |
| | `SentReachesTheReader` | `SentIsDelivered` | what counts as sent arrives |
| | `BuffersStayBounded` | `BuffersBounded` | both buffers |
| | `QueueLosesNothing`, `UploadsAreShaped` | `LeavesForAReason`, `BatchShape` | the publisher's threads in MCPipe |
| `ReportingProofs` | `ImplementsHandoff` | | the composed path implements `Handoff` (a refinement) |
| | `QueueHoldsWhatWasRead` | `QueueFromFifo` | the queue holds what the collector sent |
| | `FreshOrSetBack` | `FreshUnlessSetBack` | the age of what is chosen |
| `LoopsProofs` | `AwaitsTheAnswer`, `ActsOnItsRow` | `AnswersAwaited`, `ActsOnTheRow` | specialist views |
| | `RowsStay` | `RowsHold` | an open detail, a paused log |
| | `CockpitStaysInOrder`, `FiguresGoForward` | `CockpitHolds`, `HostNeverGoesBack` | cockpit |
| `PartsProofs` | `SignalIsMeant` | | one signal by itself (and the lemmas about listings and screens) |
| `ActingProofs` | `ResultsAreTrue` | `ResultsHold` | diagnostic shell, collections |
| | `SnapshotsAreTrue` | `SnapshotHolds` | inventories of containers, findings and links |
| `ToolsProofs` | `SetupIsTrue` | `SetupHolds` | the setup script |
| | `ActionsAreMeant` | `ActionsHold` | service and container actions |
| | `SignalsAreMeant`, `CursorIsKept` | `TopHolds`, `CursorFollows` | lens-top |
| | `ReadingsAreTrue` | `ReadingsHold` | rates and sessions |
| | `ExitIsTrue` | `CommandsHold` | one command: options, filters, limit, assertions, exit status |
| | `DisplayIsTrue` | `DisplayHolds` | listings of any snapshot, screens on every size of a terminal |

The assumptions say that markers (`Nobody`, `None`, `Nothing`, ...) are none of the values they stand
beside, that numbers are natural and limits positive where the code divides by them or indexes
with them, that the sets of PIDs and units and the rows of a host are finite, that offsets of the wall clock are integers, that
the order of runtimes names none twice. A row of a command is the set of the filters it satisfies and a severity; a
terminal is of 36x10 at least, below which the code draws a notice instead.
All of them are `ASSUME`s that TLC evaluates in the runs. Two components are proved about for given shapes
only: the panels and views the code has, and `part`, `loop` and `half` of the MC modules.

### The arguments

None of the properties is inductive by itself. Each theorem rests on an invariant that says what
the other actors may be doing meanwhile:

* **Publisher** (`IInv`). That no two requests are in flight says nothing of how the second is
  kept out. `Local(p)` says of a process that is not off: it holds the lock and has a State
  (`Held`); outside the places where it owes a save its memory is the file (`Fresh`); the
  hold of the attempt under way is in memory, then on disk (`Covered`); its memory completes
  and never replaces the identity on disk (`Keeps`); a halt on disk is one in memory unless
  a register has just cleared it (`HaltKept`). All others are off (`OthersOff`), so `OneProcess`
  reduces a step to the `Local` of the process that took it. The two action properties
  follow from `OnlySavesWrite`: the file only ever takes the memory of a process about to save.
* **The schedule** (`SInv`). The promise is in true time, the hold in wall time. The hold on disk covers
  the promise at the wall clock it was saved under, whatever saturates (`OwedHeld`, `Kept`); the process that
  saved it goes on with a monotonic gate that reaches the promise, or with a hold at the end of time (`Inside`),
  unless the clock went forward before that gate was computed.
* **Ring**. Facts about recursive functions are proved by induction up to a number (`UpTo`), which rests on
  the least member of a set (`Least`). `RetainPicks` says what retain leaves; `Insert` keeps a
  sorted ring sorted; `Evict` ends because a ring without reports fits.
* **Uplink** (`UInv`). The reader thread pushes with a wall time read *before* it read the FIFO. That is safe
  because a read lets through only what had not expired at that time (`Unexpired`), which is the
  conjunct without which the queue's bounds are not inductive.
* **Handoff** (`HInv`). The stream is what the decoder has, what is in the pipe, and the newline that is owed.
  `LastWritten` says what it ends with, `UnderWay` that a frame being written to the same reader ends it, and `Places`,
  `Readers` where each side can be; splices are then impossible chunk by chunk. `Taken` is what a reader holds.
* **Reporting** (`RInv`) conjoins these two over the shared inbox, with `Known`: the queue's ids are ids
  the reader decoded. `HandoffStep` maps each step of the path to one of the handoff or to a stutter.
* **Loops** (`SInv`, `CInv`). The thread behind the receiver works for the search that is active
  (`Awaited`), nothing that waits is older than the last action (`SinceAction`), a dialog keeps
  its row (`Targets`); the last part of a cockpit collection is sent by a thread that is over (`LastPart`), samples come in
  order (`Newer`).
* **ProcessAction** (`RunInv`). Whoever has the pinned PID when the signal is sent is the pinned process
  or started after the check (`Reaches`), because one PID has one process at a time and start times grow (`LiveInv`, `Dated`).
* **TopLoop** (`TopInv`) adds that a dialog's target was on the screen and that the command it runs pins no other (`DialogInv`).
* **Actions** (`ActionInv`). Nothing was acted on before the permit, then the target only (`ActedOnTarget`); while
  the host rests the target is the only unit meant (`MeantAlone`); what is verified was seen after (`SeenAfter`).
* **Setup** (`SetupInv`): what each line of the script may rely on (`RegisteredSoFar`, `OwnDestination`, `TrueSoFar`).
* **Rates** (`RatesInv`). Of two readings of any keeper the later one counts no more than has flowed since the earlier (`InOrder`),
  nothing that is kept reaches back over a gap (`AfterTheGap`), and every column of a chart is of that kind (`Drawn`). What waits
  was read at most `Slack` ago (`InTime`), and the previous sample at most `Slack` before it was taken over (`Fresh`), so that the measured time
  is off by no more (`Sampled`).
* **Traffic** (`TrafficInv`): charts and rates are of the same interfaces and end alike, a total was counted in the scope that is set from rates that are
  still shown; a change of scope clears it, a sample without a rated interface as well. Nothing is assumed of the counters.
* **Session** (`SessionInv`): counters above their baseline were counted since (`CountedSince`), an entry the last
  collection did not show was counted once per unreadable journal (`SeenSince`), histories have no holes (`Consecutive`).

* **Shell** (`ShellInv`): at most one result is to come, and its line is the last (`Waiting`); what exceeds the limit is its echo
  and what lost threads have left (`Lengths`).
* **Collection** (`CollectionInv`): of a domain whose thread did not panic each command of a kind that reports its failures was read,
  is still to run, has left a warning or was skipped behind one (`Accounted`); what was joined runs no more (`Joined`).
* **Containers** (`ContainersInv`): of a runtime that nothing happened to, what the last command found is what it has (`Current`), so
  what is said of it in the end is true (`Settled`); an identity read before and after the measurement changes between only if
  the name was given away and came back (`Named`).
* **Command** (`CommandInv`): what was validated, that nothing is written before the end (`Silent`), that what the assertions
  count is what was filtered (`Asserted`). Success is then true of every match because a limit leaves something of what is not empty, and
  the most severe row first, and because the rows a specialist counts are those its own options filter.
* **Screen** (`ScreenInv`): what was drawn is the frame of what there is to draw, so the proof is about the layout. `ListsFit`: a list around
  the selected row contains it, and takes what is left of its share of the rows; `StackFits`: bands of cards share the lines that are left,
  and never take more (an induction over the bands); `CockpitFits` adds up the parts of the cockpit, row by row between 30 and 39.
* **Selection** (`SelectionInv`): what is shown is the rows of the snapshot, so the proof is about three orders. `SortedLists`: a sort
  lists each element of a set once, in order, for every strict order (`Lists`). The tree: what is above a process is the least set
  that holds it and is closed under parents (`Chain`); a process from whose chain no cycle is reached is `Loose`. The set `visiting` of a call
  is the chain of its branch, so from a root down nothing is ever skipped, and as many nested calls suffice as there are
  processes (`Appended`); the branches of two children are disjoint, and joined they list exactly what a root reaches (`JoinedLists`, `ReachedIs`),
  a parent directly before its family (`Family`). What no root reaches has a cycle above it (`CycleAbove`, by a chain of
  least cardinality) and is appended once. The depth does not depend on what was seen on the way of a loose process (`ClimbFree`), and is one more
  than the parent's below the limit (`OneStepDeeper`). Groups: the rows of a label are an interval of the sorted list, turned round inside itself (`RunIs`, `TurnedIs`).
* **Findings** (`FindingsInv`) has nothing to strengthen: the proof is about the rules. `Diagnosed`: the sorted list
  has exactly what the rules find, which needs that sorting by severity loses none (`Severe`, `KeptListed`). `ReadParts`: each row read during
  an outage is a row of the host, whole or without the figure that failed; from it one lemma per rule (`...Known`) shows that
  the host has the same finding, among them that an interface is not down by an address or a default route it lacks.
  What is lost without a warning can only be a finding of a disk, a sensor or the Pi (`Silenced`), because the silent sources
  leave every other domain as it was. `LinksLead` follows each kind of link that is not copied from a row.

What proving changed in the model: `ActsOnWhatWasOffered` and `LeavesForAReason` were restated (the first was false for
longer sequences of keys than the run had; of the second TLC found on a larger instance that a report that evicts
may itself find no room afterwards, so a report evicted need not expire before one that is *in* the queue). The sum of the cockpit's
lines did not come out for 52 and 53 columns, which no run had: the line of CPU, memory and load (54 columns, `lib.rs:2248`) wraps there and
the line of tasks is written as well (from 52 columns on, `lib.rs:2270`), so while the first collection runs the last view of the list,
when selected, is under the footer on 32 to 35 rows. `SelectedOnScreen` leaves these two widths out, as it does forty rows and more (`CockpitOnScreen` does not, and fails), and 54 is now among the columns of the run. Folds over sequences
became recursive functions (`Retain`, `PushAll`, `BatchBytes`), the sum of repeated errors (`Errors`) and the count of rows (`Command!Count`) the cardinality of a set,
the sort of a listing a place by rank and its recursions functions of the calls left. The instances of `MCTools` and
`MCActing` are parameters, given in their configurations; the assumptions on them had to be said (no runtime asked twice).

### What is only model-checked

* Liveness: fairness and ENABLED are beyond the prover (`CollectorNeverStalls`, `EventuallyDelivered`, `EndsTogether`,
  `EventuallyStored`, `SpecialistCatchesUp`, `CockpitCatchesUp`, `TopShowsTheHost`, `EverythingEnds`, `CommandsEnd`).

Every safety property of a passing run, invariant or action property, has a theorem.

## 5. Findings

1. **A failed `register` lifts a halt** (`Publisher_halt`, `publisher.rs:158`). The halt is
   cleared and saved with the hold of the attempt, before the request; if it fails, `run` uploads again with
   the refused credentials. `docs/FLEET_REPORTING.md:134` promises a halt "until explicit operator repair".
2. **A restart can lose a failure hold** (`Publisher_restart`, `publisher.rs:371`). Between the
   answer and its save only the hold of the attempt (five minutes or the interval) is on
   disk; a longer Retry-After dies with the process. `docs/FLEET_REPORTING.md:132` says a restart does not clear it.
3. **A clock set back gives a report a second life** (`Reporting_step`, `buffer.rs:47`): each
   buffer measures its own monotonic deadline from the wall clock. One buffer bounds the age, two in
   a row do not. `docs/FLEET_REPORTING_DESIGN.md:49` promises 30 minutes "throughout".
4. **`--jsonl --fields` may write everything** (`Command_fields`, `output/src/lib.rs:191`). A list of fields none of which has a
   record type of its own (`dns`, `hardware`, `temperatures`, ...) gives an empty list of record types, which means all.
   `docs/CLI_CONTRACT.md:17` says that it projects to the named fields.

Met while modelling. The properties named here are in the modules but in no run; TLC refuted each on the
component's own small instance.

| where | what |
|---|---|
| `Actions!ExitTwoMeansUntouched` | `--wait` is parsed after the unit was acted on (`lib.rs:952`), so a malformed one exits 2 after a change; `CLI_CONTRACT.md:61` |
| `Collection!DeadlinesSuffice` | a descendant that keeps a finished command's pipe holds the collection (`lib.rs:8556`), and so do vcgencmd (`hardware.rs:35`) and `openssl version` (`lib.rs:8338`), which have no deadline; `ARCHITECTURE.md:58` |
| `Collection!ProbesAreSaid` | `probe` and vcgencmd fail without a warning (`host_context.rs:19`, `hardware.rs:35`); `CLI_CONTRACT.md:50` |
| `Findings!LossesAreSaid` | so disk health and throttling may be lost while the snapshot claims to be complete (`storage_health.rs:47`); `OPERATIONS_GUIDE.md:187` |
| `Actions!AmbiguityIsRefused` | a name that two runtimes have is acted on when one of them fails (`containers.rs:22`, `lib.rs:1167`), and a service `--selector` resolved in demo data acts on the live unit; `ACTIONS.md:60` |
| `Screen!CockpitOnScreen` | a full cockpit of 40 rows and more, and of 52 or 53 columns, may put the last row that can be selected under the footer (`lib.rs:2384`, `lib.rs:2470`) |
| `SpecialistLoop!ModesShowIt` | `f` and `v` show the last snapshot received again, also after a new search or a dismissed action (`lib.rs:7004`, `:7017`) |
| `Containers!TimeoutsAreSaid` | a probe that times out counts as "not live" and leaves no warning (`containers.rs:163`); `ARCHITECTURE.md:59` |
| `Findings!MissingRoutesAreNotNone` | routes that could not be read give "No default route" (`lib.rs:9817`); `OPERATIONS_GUIDE.md:11` |
| `Command!CountedRowsMatch` | `--fail-if-empty` counts rows of a domain the filter did not apply to (`lib.rs:347`) |
| `Setup!OffMeansOff`, `Setup!RestoresPublisher` | a failing rsyslog restart leaves the old forwarding loaded, and the next run records off and succeeds (`FLEET_REPORTING.md:56`); explicit exits bypass the trap that restarts the publisher (`lens-reporting-enable:67`, `:136`) |
| `Session!ResetStartsBaseline` | restarts after a counter reset are counted from the reset's smallest value (`presentation.rs:168`) |
| `Screen!LeastSizeSuffices` | 36x10 is said to suffice (`lib.rs:3676`) and some screens scroll or cut at it |
| `SpecialistLoop!AutomaticNeverOverlap` | a container poll starts while an inventory runs; `OPERATIONS_GUIDE.md:36` |
| `Rates!MissingIsNotZero`, `Rates!NothingOutOfTurn` | an interface that a sample lacks keeps its old counter: a zero, then all that has flowed since (`lib.rs:1433`); an inventory puts older counters back; `OPERATIONS_GUIDE.md:290` |
| `Rates!MeasuredElapsed` | a sample that waited while another view was open is rated over the time since it was taken over, not read (`lib.rs:1424`); a network view's first interval includes the wait for its inventory; `ARCHITECTURE.md` |
| `Traffic!TotalIsWhole` | a total leaves out the interfaces that have no rate for a sample, and so falls when one of them starts over (`lib.rs:1797`) |

Noted without a property: a dead cockpit live sampler is never reported; the specialist samplers' `try_recv().ok()` takes a
lost thread for a late one; a panicked collection domain loses its rows and its warnings; the dialog of a panicked action thread stays on Running;
a `try_wait` error leaves the child running (`lib.rs:8548`); `parse_filter_expression` ignores a malformed `state:` or `cpu:`;
findings of two sensors of one name share an id; the mount of a deleted file is found by a prefix of the string;
sockets and processes of one snapshot are read at different instants and joined by PID.

## 6. Abstractions

* JSON, headers, names and bytes are values; a conversion appears where it decides
  something (Retry-After as seconds or as a date against the server's clock; a frame parses
  only if it is whole; the classification of an engine's error).
* Time is discrete. Waits in loops (200 ms, 50 ms, 1 s) are the absence of a step.
* A mutex's critical section is one step; poisoning needs a panic in one, of which the code has none.
* `write_state` is atomic (temporary file, sync, rename); its failure is not.
* Expiry is checked when a batch is chosen, as in the code; a report may expire in the moments
  between the choice and the request (the state file is synced in between).
* Permissions and ownership of the state directory, TLS and signals other than stop are left out.
* The publisher's gate in `Uplink`, and its queue in `Publisher`, are free: the two meet only in
  whether a batch is there and whether the gate is open.
* A view opened on top of another only delays the polls of the first, as the code's nested loops do.
* `Screen` counts lines and knows no text: a line that the terminal would wrap is taken for one, but where the code computes wraps.
* `Findings` and `Containers` keep of a row what a rule or a join looks at.
* In `Traffic` one counter stands for both directions, and rates are whole numbers.
* In `Collection` the one warning that the code takes back (mmcli without a modem) and the containers' domain are left out.

## 7. Not modelled

`PROJECT.json` lists each component with its reason. Report contents and wire shapes, the
parsers of operating-system interfaces (`/proc`, `lsblk`, SMART, dmidecode, journal records), text and colours, the lens-top
renderer (a library that clips), process diagnostics, terminal detection, demo data, configuration files, binaries that
only name their view, and build scripts are data or layout without state of their own. Of modelled components: the samplers'
threads of a specialist, CPU activity, the formatting of rates, the detail text of
investigations, macOS collectors, and the restart limits of the systemd units.

## 8. What could follow

1. Abstract specifications: a paced uploader (one slot, one next-allowed time) that `Publisher`
   implements, and a lossy set-valued channel that `Handoff` implements.
2. The samplers' threads of a specialist as actions of `SpecialistLoop`.
