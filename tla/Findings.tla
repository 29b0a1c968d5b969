------------------------------ MODULE Findings ------------------------------
(***************************************************************************)
(* What Lens concludes from one inventory (crates/system/src/lib.rs        *)
(* diagnose, domain_relationships; storage_health.rs; investigate.rs).     *)
(* Sources that cannot be read leave their part of the snapshot empty, and *)
(* all but two a warning in it.  What a row names need not be a row: units *)
(* and mount points are copied from cgroups, the journal, lsblk and ip.  A *)
(* name is a number, 0 is none; percentages, counts and degrees are        *)
(* numbers; texts are left out.                                            *)
(***************************************************************************)
EXTENDS Naturals, Sequences, FiniteSets, SequencesExt, Retain

CONSTANTS Hosts,      \* the hosts considered
          Failures    \* the sets of sources that fail together

\* The SMART and RAID tools and vcgencmd say nothing when they fail.
Silent == {"health", "vcgencmd"}
Sources == {"services", "restarts", "logs", "mounts", "inodes", "deleted", "devices",
            "interfaces", "routes", "sockets", "modems"} \cup Silent
\* The rows of a host, by domain.
Host ==
  [services : SUBSET [name : Nat, failed : BOOLEAN, restarts : Nat],
   containers : SUBSET [name : Nat], processes : SUBSET [name : Nat, service : Nat],
   logs : SUBSET [name : Nat, unit : Nat, error : BOOLEAN, times : Nat, crash : BOOLEAN],
   mounts : SUBSET [name : Nat, source : Nat, used : Nat, inodes : Nat, actionable : BOOLEAN,
                    length : Nat],
   deleted : SUBSET [pid : Nat, under : SUBSET Nat],
   devices : SUBSET [name : Nat, mounted : SUBSET Nat, passed : BOOLEAN, state : STRING,
                     members : SUBSET STRING, worn : BOOLEAN],
   interfaces : SUBSET [name : Nat, down : BOOLEAN, address : Nat, tunnel : BOOLEAN,
                        idle : BOOLEAN],
   routes : SUBSET [name : Nat, default : BOOLEAN, via : Nat],
   sockets : SUBSET [name : Nat, anywhere : BOOLEAN, ssh : BOOLEAN, pid : Nat, local : Nat],
   modems : SUBSET [name : Nat, state : STRING, signal : Nat],
   sensors : SUBSET [name : Nat, degrees : Nat, max : Nat, critical : Nat, tool : BOOLEAN],
   pi : [active : SUBSET STRING, past : BOOLEAN]]

Finite(h) ==
  IsFiniteSet(h.mounts) /\ IsFiniteSet(h.devices) /\ IsFiniteSet(h.interfaces)
  /\ IsFiniteSet(h.modems) /\ IsFiniteSet(h.sensors)
FindingsAssumption ==
  /\ \A f \in Failures : f \subseteq Sources
  /\ \A h \in Hosts : h \in Host /\ Finite(h)

VARIABLES host, failed, snapshot, findings, links, step
vars == <<host, failed, snapshot, findings, links, step>>

Information == 1
Attention == 2
Critical == 3
None == 0    \* no such thing; also the name of what has none
ThisHost == <<"host", 0>>

-----------------------------------------------------------------------------
\* What is read.  Without ip(8) the interfaces come from sysfs, which has no addresses; a
\* device whose health is not known counts as one that reports no problem.
Read(source, rows, without) == IF source \in without THEN {} ELSE rows
Collected(h, without) ==
  [services |-> {[x EXCEPT !.restarts = IF "restarts" \in without THEN None ELSE @] :
                   x \in Read("services", h.services, without)},
   logs |-> Read("logs", h.logs, without),
   mounts |-> {[m EXCEPT !.inodes = IF "inodes" \in without THEN None ELSE @] :
                 m \in Read("mounts", h.mounts, without)},
   deleted |-> Read("deleted", h.deleted, without),
   devices |-> {IF "health" \in without
                THEN [d EXCEPT !.passed = TRUE, !.state = "unknown", !.members = {}, !.worn = FALSE]
                ELSE d : d \in Read("devices", h.devices, without)},
   interfaces |-> {[i EXCEPT !.address = IF "interfaces" \in without THEN None ELSE @] :
                     i \in h.interfaces},
   routes |-> Read("routes", h.routes, without),
   sockets |-> Read("sockets", h.sockets, without),
   modems |-> Read("modems", h.modems, without),
   containers |-> h.containers, processes |-> h.processes,
   sensors |-> {t \in h.sensors : t.tool => "vcgencmd" \notin without},
   pi |-> IF "vcgencmd" \in without THEN [active |-> {}, past |-> FALSE] ELSE h.pi,
   warnings |-> without \ Silent]

-----------------------------------------------------------------------------
\* The findings of one snapshot, rule by rule; each rule names what it is about.
Finding(rule, name, severity, about) ==
  [id |-> <<rule, name>>, severity |-> severity, about |-> about]
When(condition, finding) == IF condition THEN {finding} ELSE {}
Entities(kind, rows) == {<<kind, r.name>> : r \in rows}
Above(value, critical) == IF value >= critical THEN Critical ELSE Attention

DiskSeverity(d) ==
  CASE ~d.passed \/ d.state = "Failed" \/ "Failed" \in d.members -> Critical
    [] d.worn \/ d.state \in {"Degraded", "Rebuilding"} \/ "Rebuilding" \in d.members -> Attention
    [] OTHER -> None
OfDisks(s) == {Finding("disk.health", d.name, DiskSeverity(d), {<<"device", d.name>>}) :
                 d \in {e \in s.devices : DiskSeverity(e) # None}}

OfCollection(s) ==
  When(s.warnings # {}, Finding("collection.incomplete", 0, Information, {ThisHost}))

OfServices(s) ==
  LET down == {x \in s.services : x.failed}
      looping == {x \in s.services : x.restarts >= 3}
  IN When(down # {}, Finding("services.failed", 0, Critical, Entities("service", down)))
     \cup When(looping # {},
               Finding("services.restart-loop", 0, Attention, Entities("service", looping)))

Actionable(s) == {m \in s.mounts : m.actionable}
OfSpace(s) ==
  {Finding("disk", m.name, Above(m.used, 97), {<<"mount", m.name>>, <<"filesystem", m.source>>}) :
     m \in {x \in Actionable(s) : x.used >= 90}}
OfInodes(s) ==
  {Finding("disk.inodes", m.name, Above(m.inodes, 97), {<<"mount", m.name>>}) :
     m \in {x \in Actionable(s) : x.inodes >= 90}}

Default(s) == {r \in s.routes : r.default}
OfRoutes(s) ==
  When((s.interfaces # {} \/ s.routes # {}) /\ Default(s) = {},
       Finding("net.no-default-route", 0, Attention, Entities("route", s.routes)))

\* A fault: a bridge without ports is never a problem.
DownWithoutBridges(s) == {i \in s.interfaces : i.down /\ i.address # None /\ ~i.tunnel /\ ~i.idle}

\* A bridge without ports has no carrier; that is a problem for a default route only.
Down(s) ==
  {i \in s.interfaces : /\ i.down /\ i.address # None /\ ~i.tunnel
                        /\ i.idle => \E r \in Default(s) : r.via = i.name}
OfInterfaces(s) ==
  {Finding("net.interface-down", i.name, Attention, {<<"interface", i.name>>}) : i \in Down(s)}

OfListeners(s) ==
  LET exposed == {x \in s.sockets : x.anywhere /\ ~x.ssh}
  IN When(exposed # {},
          Finding("net.unexpected-listeners", 0, Information, Entities("socket", exposed)))

Journal == <<"log source", 0>>
\* Each time an error was logged.
Errors(s) == UNION {{l} \X (1..l.times) : l \in {e \in s.logs : e.error}}
OfLogs(s) ==
  When(Cardinality(Errors(s)) >= 5, Finding("logs.error-volume", 0, Attention, {Journal}))
  \cup When(\E l \in s.logs : l.crash, Finding("logs.crash-context", 0, Critical, {Journal}))

OfModems(s) ==
  {Finding("cellular.failed", m.name, Critical, {ThisHost}) :
     m \in {x \in s.modems : x.state = "failed"}}
  \cup {Finding("cellular.weak-signal", m.name, Attention, {ThisHost}) :
          m \in {x \in s.modems : x.state \in {"registered", "connected"} /\ x.signal <= 15}}

\* A sensor without limits of its own has 80 and 90.
Hot(t) == LET limit == IF t.max = None THEN 80 ELSE t.max
              worst == IF t.critical = None THEN 90 ELSE t.critical
          IN t.degrees >= limit \/ t.degrees >= worst
Burning(t) == t.degrees >= 90 \/ (t.critical # None /\ t.degrees >= t.critical)
OfSensors(s) ==
  {Finding("hardware.temperature", t.name, IF Burning(t) THEN Critical ELSE Attention, {ThisHost}) :
     t \in {x \in s.sensors : Hot(x)}}

OfPi(s) ==
  LET severe == s.pi.active \cap {"under-voltage", "throttled"} # {}
  IN When(s.pi.active # {},
          Finding("hardware.raspberry-pi.active-throttling", 0,
                  IF severe THEN Critical ELSE Attention, {ThisHost}))
     \cup When(s.pi.active = {} /\ s.pi.past,
               Finding("hardware.raspberry-pi.recorded-throttling", 0, Information, {ThisHost}))

Found(s) ==
  OfDisks(s) \cup OfCollection(s) \cup OfServices(s) \cup OfSpace(s) \cup OfRoutes(s)
  \cup OfInodes(s) \cup OfInterfaces(s) \cup OfListeners(s) \cup OfLogs(s) \cup OfModems(s)
  \cup OfSensors(s) \cup OfPi(s)
Listed(s) ==
  SetToSeq(OfDisks(s)) \o SetToSeq(OfCollection(s)) \o SetToSeq(OfServices(s))
  \o SetToSeq(OfSpace(s)) \o SetToSeq(OfRoutes(s)) \o SetToSeq(OfInodes(s))
  \o SetToSeq(OfInterfaces(s)) \o SetToSeq(OfListeners(s)) \o SetToSeq(OfLogs(s))
  \o SetToSeq(OfModems(s)) \o SetToSeq(OfSensors(s)) \o SetToSeq(OfPi(s))

\* A stable sort, most severe first.
Diagnose(s) ==
  LET Of(severity) == Retain(Listed(s), {f \in Found(s) : f.severity = severity})
  IN Of(Critical) \o Of(Attention) \o Of(Information)

-----------------------------------------------------------------------------
\* Links between the entities of a snapshot.
Link(from, to) == [from |-> from, to |-> to]

HostLinks(s) == {Link(<<"service", x.name>>, ThisHost) : x \in s.services}
                \cup {Link(<<"container", x.name>>, ThisHost) : x \in s.containers}
ServiceLinks(s) ==
  {Link(<<"process", p.name>>, <<"service", p.service>>) : p \in {q \in s.processes : q.service # None}}
  \cup {Link(Journal, <<"service", l.unit>>) : l \in {e \in s.logs : e.unit # None}}
MountLinks(s) ==
  {Link(<<"mount", m.name>>, <<"filesystem", m.source>>) : m \in s.mounts}
  \cup UNION {{Link(<<"device", d.name>>, <<"mount", m>>) : m \in d.mounted} : d \in s.devices}

\* An open deleted file is on the mount with the longest target its path starts with.
OnMount(s, f) ==
  LET under == {m \in s.mounts : m.name \in f.under}
  IN {m \in under : \A x \in under : x.length <= m.length}
DeletedLinks(s) ==
  {Link(<<"process", p[1].pid>>, <<"mount", p[2].name>>) :
     p \in {d \in s.deleted \X s.mounts :
              d[2] \in OnMount(s, d[1]) /\ \E q \in s.processes : q.name = d[1].pid}}

RouteLinks(s) ==
  {Link(<<"route", r.name>>, <<"interface", r.via>>) : r \in {x \in s.routes : x.via # None}}
SocketLinks(s) ==
  {Link(<<"socket", x.name>>, <<"process", x.pid>>) :
     x \in {y \in s.sockets : \E p \in s.processes : p.name = y.pid}}
  \cup {Link(<<"socket", p[1].name>>, <<"interface", p[2].name>>) :
          p \in {q \in s.sockets \X s.interfaces :
                   q[2].address # None /\ q[2].address = q[1].local}}
FindingLinks(found) ==
  UNION {{Link(<<"finding", found[i].id>>, e) : e \in found[i].about} : i \in DOMAIN found}

Relationships(s, found) ==
  HostLinks(s) \cup ServiceLinks(s) \cup MountLinks(s) \cup DeletedLinks(s) \cup RouteLinks(s)
    \cup SocketLinks(s) \cup FindingLinks(found)

-----------------------------------------------------------------------------
Init ==
  /\ host \in Hosts /\ step = "collect"
  /\ failed = {} /\ snapshot = <<>> /\ findings = <<>> /\ links = {}

Collect ==
  /\ step = "collect" /\ step' = "diagnose"
  /\ failed' \in Failures /\ snapshot' = Collected(host, failed')
  /\ UNCHANGED <<host, findings, links>>

\* The findings first, the links of the snapshot with them.
Conclude ==
  /\ step = "diagnose" /\ step' = "done"
  /\ findings' = Diagnose(snapshot) /\ links' = Relationships(snapshot, findings')
  /\ UNCHANGED <<host, failed, snapshot>>

Next == Collect \/ Conclude
Spec == Init /\ [][Next]_vars

-----------------------------------------------------------------------------
Done == step = "done"
Whole == ToSet(Diagnose(Collected(host, {})))
Ids(found) == {f.id : f \in found}

\* docs/OPERATIONS_GUIDE.md:11, 186: what could not be read takes findings away and says so,
\* it raises none and makes none worse - but for the default route, which is missed as
\* soon as the routes are not there.
NothingInvented ==
  Done => \A i \in DOMAIN findings :
    \/ findings[i].id \in {<<"collection.incomplete", 0>>, <<"net.no-default-route", 0>>}
    \/ \E f \in Whole : f.id = findings[i].id /\ f.severity >= findings[i].severity
\* What those that fail without a word take away.
Silenced(f) ==
  \/ "health" \in failed /\ f.id[1] = "disk.health"
  \/ "vcgencmd" \in failed /\ f.id[1] \in {"hardware.temperature",
       "hardware.raspberry-pi.active-throttling", "hardware.raspberry-pi.recorded-throttling"}
CoverageNotClaimed ==
  Done => \/ \E i \in DOMAIN findings : findings[i].id = <<"collection.incomplete", 0>>
          \/ /\ ToSet(findings) \subseteq Whole
             /\ \A f \in Whole : f \in ToSet(findings) \/ Silenced(f)

\* The same without the exception: the warnings "prevent a limited snapshot from claiming
\* complete health coverage" (docs/OPERATIONS_GUIDE.md:187-188).  Not when the tools of a
\* disk or vcgencmd fail.
LossesAreSaid ==
  Done => \/ \E i \in DOMAIN findings : findings[i].id = <<"collection.incomplete", 0>>
          \/ Whole = ToSet(findings)

\* The same without the exception: "Lens does not turn a failed collection into a zero".
MissingRoutesAreNotNone ==
  Done /\ "routes" \in failed =>
    <<"net.no-default-route", 0>> \notin Ids(ToSet(findings)) \ Ids(Whole)

\* An interface that the traffic of the host goes through is not down unnoticed while it
\* has an address, be it a bridge or not.
DefaultIsWatched ==
  Done => \A i \in snapshot.interfaces, r \in Default(snapshot) :
    r.via = i.name /\ i.down /\ i.address # None /\ ~i.tunnel =>
      <<"net.interface-down", i.name>> \in Ids(ToSet(findings))

\* A link leads to something the snapshot has, but for those whose end a row names and
\* nobody looks up: the unit of a process or of a log entry may be a scope, the mount point
\* of a device [SWAP], the source of either one that failed.
Copied == {<<"process", "service">>, <<"log source", "service">>, <<"device", "mount">>,
           <<"route", "interface">>}
Has(kind, name) ==
  CASE kind = "service" -> \E x \in snapshot.services : x.name = name
    [] kind = "process" -> \E x \in snapshot.processes : x.name = name
    [] kind \in {"mount", "filesystem"} ->
         \E x \in snapshot.mounts : name = IF kind = "mount" THEN x.name ELSE x.source
    [] kind = "interface" -> \E x \in snapshot.interfaces : x.name = name
    [] kind = "route" -> \E x \in snapshot.routes : x.name = name
    [] kind = "socket" -> \E x \in snapshot.sockets : x.name = name
    [] kind = "device" -> \E x \in snapshot.devices : x.name = name
    [] OTHER -> TRUE
LinksResolve ==
  Done => \A l \in links : Has(l.to[1], l.to[2]) \/ <<l.from[1], l.to[1]>> \in Copied
=============================================================================
