------------------------------- MODULE Session -------------------------------
(***************************************************************************)
(* What a specialist remembers of the inventories it has seen: the        *)
(* restarts and network errors since the session began, the new flagged    *)
(* log entries of each collection, and the history of each row             *)
(* (crates/system/src/presentation.rs SessionView, overview.rs             *)
(* WorkloadHistory, crates/ui/src/app.rs record_history).  The readings    *)
(* change between collections, go missing and start again at zero.         *)
(***************************************************************************)
EXTENDS Naturals, Sequences, FiniteSets, SequencesExt

CONSTANTS Names,        \* services, interfaces or processes
          Entries,      \* log entries the journal may hold
          Flagged,      \* the warnings and errors among them
          Window,       \* how many of the newest entries are collected
          Longest,      \* the capacity of a history (120 in the code)
          MaxCount,     \* bound: the highest reading, and the most events counted
          MaxCollections \* bound: the collections of the session

SessionAssumption == /\ Flagged \subseteq Entries /\ {MaxCount, MaxCollections} \subseteq Nat
                     /\ Window \in Nat \ {0} /\ Longest \in Nat \ {0}

VARIABLES watched,      \* which reading this behaviour is about
          actual,       \* name -> {} when absent, else its counter
          readable,     \* the names whose counter can be read
          events,       \* name -> what was counted since its baseline: history
          wasReset,     \* the names whose counter fell since it was read: history
          base, latest, \* name -> baseline, {} if none; name -> the number reported
          journal,      \* the entries, oldest first
          silent,       \* the journal can not be read, another source can
          seen, activity, \* the entries of the last collection; new flagged ones
          counted, gaps, \* entry -> how often it was counted as new, and the
                         \* collections that could not read the journal: history
          histories,    \* name -> the collections its samples are from
          collections   \* how many collections were observed

readings == <<actual, readable, events, wasReset, base, latest>>
logs == <<journal, silent, seen, activity, counted, gaps>>
vars == <<watched, readings, logs, histories, collections>>

LessOf(a, b) == IF a < b THEN a ELSE b
Newest(s, n) == SubSeq(s, IF Len(s) > n THEN Len(s) - n + 1 ELSE 1, Len(s))
The(set) == CHOOSE x \in set : TRUE

Init == /\ watched \in {"restarts", "errors", "logs", "samples"}
        /\ actual = [n \in Names |-> {}]
        /\ readable = Names
        /\ events = [n \in Names |-> 0]
        /\ wasReset = {}
        /\ base = [n \in {} |-> {}] /\ latest = [n \in {} |-> 0]
        /\ journal = <<>> /\ silent = FALSE
        /\ seen = {} /\ activity = <<>>
        /\ counted = [e \in Entries |-> 0] /\ gaps = 0
        /\ histories = [n \in {} |-> <<>>]
        /\ collections = 0

Present == {n \in Names : actual[n] # {}}
Counter(n) == The(actual[n])

---------------------------------------------------------------------------
(* The host between two collections. *)

\* What is there when the session begins has counted; what is new has not.
Appear(n) == /\ n \notin Present
             /\ \E c \in IF collections = 0 THEN 0..MaxCount ELSE {0} :
                    actual' = [actual EXCEPT ![n] = {c}]
             /\ wasReset' = wasReset \cup {n}
             /\ UNCHANGED <<readable, events, base, latest>>

Disappear(n) == /\ n \in Present
                /\ actual' = [actual EXCEPT ![n] = {}]
                /\ UNCHANGED <<readable, events, wasReset, base, latest>>

CountOne(n) == /\ n \in Present /\ Counter(n) < MaxCount /\ events[n] < MaxCount
               /\ actual' = [actual EXCEPT ![n] = {Counter(n) + 1}]
               /\ events' = [events EXCEPT ![n] = @ + 1]
               /\ UNCHANGED <<readable, wasReset, base, latest>>

\* systemctl reset-failed, or an interface that is created again.
ResetCounter(n) == /\ n \in Present /\ Counter(n) > 0
                   /\ actual' = [actual EXCEPT ![n] = {0}]
                   /\ wasReset' = wasReset \cup {n}
                   /\ UNCHANGED <<readable, events, base, latest>>

ToggleReadable(n) == /\ readable' = IF n \in readable THEN readable \ {n} ELSE readable \cup {n}
                     /\ UNCHANGED <<actual, events, wasReset, base, latest>>

ReadingsChange == /\ watched # "logs"
                  /\ \E n \in Names : \/ Appear(n) \/ Disappear(n)
                                      \/ CountOne(n) /\ watched # "samples"
                                      \/ ResetCounter(n) /\ watched # "samples"
                                      \/ ToggleReadable(n) /\ watched # "samples"
                  /\ UNCHANGED <<watched, logs, histories, collections>>

\* An entry is written once; the collection ends at the newest Window ones.
JournalChange == /\ watched = "logs"
                 /\ \/ \E e \in Entries \ Range(journal) :
                          journal' = Append(journal, e) /\ UNCHANGED silent
                    \/ silent' = ~silent /\ UNCHANGED journal
                 /\ UNCHANGED <<watched, readings, seen, activity, counted, gaps, histories, collections>>

---------------------------------------------------------------------------
(* SessionView::observe. *)

Read(n) == IF n \in readable THEN actual[n] ELSE {}
Old(n) == IF n \in DOMAIN base THEN base[n] ELSE {}

\* The baseline follows the counter down and is kept while it is unreadable.
Restarts ==
    /\ base' = [n \in Present |->
                   CASE Read(n) = {} -> Old(n)
                     [] Old(n) = {} -> Read(n)
                     [] OTHER -> {LessOf(The(Old(n)), Counter(n))}]
    /\ latest' = [n \in {m \in Present : Read(m) # {}} |-> Counter(n) - The(base'[n])]

\* The same for an interface: a lower counter reads "reset/baseline", and one
\* that can not be read "unavailable"; neither is a number.
Grown(n) == Read(n) # {} /\ Old(n) # {} /\ Counter(n) >= The(Old(n))
Errors ==
    LET first(n) == n \notin DOMAIN base /\ Read(n) # {}
    IN  /\ base' = [n \in Present |-> IF Read(n) # {} /\ ~Grown(n) THEN Read(n) ELSE Old(n)]
        /\ latest' = [n \in {m \in Present : Grown(m) \/ first(m)} |->
                         IF first(n) THEN 0 ELSE Counter(n) - The(Old(n))]

\* The first reading of a row is the baseline of what happens from then on.
ObserveCounters ==
    /\ watched \in {"restarts", "errors"}
    /\ IF watched = "restarts" THEN Restarts ELSE Errors
    /\ events' = [n \in Names |-> IF n \in Present /\ Old(n) = {} THEN 0 ELSE events[n]]
    /\ wasReset' = wasReset \ {n \in Present : Read(n) # {}}
    /\ UNCHANGED <<actual, readable, logs, histories>>

Collected == IF silent THEN <<>> ELSE Newest(journal, Window)

NewFlagged(rows) == {e \in Range(rows) : e \in Flagged /\ e \notin seen}

\* The first collection is the backlog and counts nothing.
ObserveLogs ==
    /\ watched = "logs"
    /\ LET new == IF collections = 0 THEN {} ELSE NewFlagged(Collected)
       IN  /\ activity' = IF collections = 0 THEN activity
                          ELSE Newest(Append(activity, Cardinality(new)), Longest)
           /\ counted' = [e \in Entries |-> IF e \in new THEN counted[e] + 1 ELSE counted[e]]
    /\ seen' = Range(Collected)
    /\ gaps' = IF silent THEN gaps + 1 ELSE gaps
    /\ UNCHANGED <<readings, journal, silent, histories>>

Sample ==
    [n \in Present |->
        Newest(Append(IF n \in DOMAIN histories THEN histories[n] ELSE <<>>, collections),
               Longest)]

ObserveSamples == /\ watched = "samples"
                  /\ histories' = Sample
                  /\ UNCHANGED <<readings, logs>>

Observe == /\ collections < MaxCollections
           /\ collections' = collections + 1
           /\ ObserveCounters \/ ObserveLogs \/ ObserveSamples
           /\ UNCHANGED watched

Next == ReadingsChange \/ JournalChange \/ Observe
SessionSpec == Init /\ [][Next]_vars

---------------------------------------------------------------------------
\* A number the session reports is never more than what really happened
\* since the session first saw the row.
NeverMoreThanHappened == \A n \in DOMAIN latest : latest[n] <= events[n]

\* A flagged entry is counted as new once, and again only after a collection
\* that could not read the journal.
CountedOnce == \A e \in Entries : counted[e] <= 1 + gaps

\* A history runs over consecutive collections up to the last one.
HistoryWithoutGaps ==
    \A n \in DOMAIN histories :
        /\ Len(histories[n]) \in 1..Longest
        /\ \A i \in DOMAIN histories[n] :
              histories[n][i] = collections - 1 - (Len(histories[n]) - i)

\* presentation.rs:184: "Counter reset starts a new baseline; never underflow
\* or report a negative delta."
ResetStartsBaseline ==
    [][\A n \in wasReset \ wasReset' : n \in DOMAIN base => latest'[n] = 0]_vars
=============================================================================
