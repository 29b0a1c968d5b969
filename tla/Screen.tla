------------------------------- MODULE Screen -------------------------------
(***************************************************************************)
(* How many lines a screen of the interactive views takes and on which of  *)
(* them the selected row stands (crates/system/src/lib.rs, investigate.rs, *)
(* presentation.rs, overview.rs).  A frame is written from the top; when   *)
(* it is longer than the terminal the terminal scrolls and its first lines *)
(* are gone.  Text, columns and colours are left out: a line is a line,    *)
(* and an input names the sizes of the data only.                          *)
(***************************************************************************)
EXTENDS Naturals, Sequences

CONSTANTS Terminals,    \* the sizes considered, <<columns, rows>>
          Counts,       \* the numbers of items a list may have
          CardSets      \* the lines of the cards under a detail

\* On a terminal smaller than 36x10 nothing but a notice is drawn.
ScreenAssumption == /\ Terminals \subseteq {size \in Nat \X Nat : size[1] >= 36 /\ size[2] >= 10}
                    /\ Counts \subseteq Nat
                    /\ CardSets \subseteq Seq(Nat)

VARIABLES in,           \* what is drawn
          frame         \* drawn, the lines written above the footer, the line of the
                        \* selected row (0: none), whether a notice replaces the rest;
                        \* lines scrolled off the top, last line not under the footer

vars == <<in, frame>>

Minus(a, b) == IF b < a THEN a - b ELSE 0
Larger(a, b) == IF a < b THEN b ELSE a
Smaller(a, b) == IF a < b THEN a ELSE b
Ceil(a, b) == (a + b - 1) \div b
When(test, lines) == IF test THEN lines ELSE 0

Columns == in.size[1]
Height == in.size[2]
\* Lines without a selected row.
Text(lines) == [lines |-> lines, cursor |-> 0, cut |-> FALSE]

---------------------------------------------------------------------------
\* The first row of a list drawn around the selected one.
ViewportStart(selected, length, capacity) ==
    IF capacity = 0 \/ length <= capacity THEN 0
    ELSE Smaller(Minus(selected, capacity \div 2), length - capacity)

\* above lines, then as many items of each lines as the capacity allows.
List(above, each, capacity) ==
    LET start == ViewportStart(in.selected, in.count, capacity)
    IN  [lines |-> above + each * Smaller(capacity, in.count - start),
         cursor |-> IF in.selected - start < capacity
                    THEN above + each * (in.selected - start) + 1 ELSE 0,
         cut |-> FALSE]

LogList(rows) == List(1, 1, Larger(Minus(rows, 10), 1))
ServiceList(rows) == List(1, 1, Larger(Minus(rows, 10), 1))

\* Guests of libvirt alone take a line each, containers with resources two.
ContainerList(rows, width) ==
    IF in.mode = "libvirt" /\ width >= 70
    THEN List(1, 1, Larger(Minus(rows, 10), 1))
    ELSE LET each == IF in.mode = "plain" THEN 1 ELSE 2
         IN  List(1, each, Larger(Minus(rows, 10) \div each, 1))

DiskList(rows) == List(1, 1, Larger(Minus(rows, 10), 1))

\* The traffic above the table: a total and, when wide, two charts.
NetList(rows, width) ==
    LET traffic == CASE in.mode = "known" -> IF width >= 70 THEN 3 ELSE 1
                     [] in.mode = "collecting" -> 1
                     [] OTHER -> 0
        reserved == IF in.mode = "known" /\ width >= 70 THEN 3 ELSE 1
    IN  List(traffic + 1, 1, Larger(Minus(rows, 10 + reserved), 1))

HealthList(rows) == List(2, 1, Larger(Minus(rows, 11), 1))
HardwareList(rows) == List(2, 1, Larger(Minus(rows, 11), 1))

\* The five section labels wrap; <<lines, columns used>> after each.
PutLabel(at, label, width) ==
    LET gap == IF at[2] <= 2 THEN 0 ELSE 2
    IN  IF at[2] + gap + label > Minus(width, 2) THEN <<at[1] + 1, 2 + label>>
        ELSE <<at[1], at[2] + gap + label>>
SectionNav(width) ==
    LET Put(at, label) == PutLabel(at, label, width)
    IN  Put(Put(Put(Put(Put(<<1, 10>>, 11), 5), 7), 8), 14)[1]

SystemList(rows, width) ==
    LET cards == IF rows >= 40 /\ width >= 95 THEN 5 ELSE 0
        nav == SectionNav(width)
    IN  List(cards + nav + 2, 1, Larger(Minus(rows, 12 + nav + cards), 1))

---------------------------------------------------------------------------
\* The lines a detail may take, by the parts its data has.
LogDetail(rows) ==
    {6 + a + b + m : a \in 0..1, b \in 0..1, m \in {1, Larger(Minus(rows, 15), 1)}}
ServiceDetail == {8, 9}
ResourceLines == {1} \cup {7 + a + b + m : a \in 0..1, b \in {0, 2}, m \in {0, 4, 5}}
ContainerDetail(width) ==
    {(IF width >= 80 THEN 8 ELSE 9) + a + b + r : a \in 0..1, b \in 0..1, r \in ResourceLines}
ContainerCharts(rows, width) ==
    IF rows < 19 THEN {2, 3}
    ELSE {2 + (IF rows >= 28 /\ width >= 100 THEN 12 ELSE 6) + When(rows >= 23, 2) + a + b :
            a \in {0, When(rows >= 32, 1)}, b \in {0, 1 + When(rows >= 26, 1)}}
ActivityLines(rows, width) ==
    {2} \cup (IF rows >= 40 /\ width >= 80 THEN {3, 6, 9} ELSE {})
DeviceLines(rows, width) == {1 + a + b : a \in 0..1, b \in ActivityLines(rows, width)}
DiskDetail(rows, width) ==
    {7 + a + b + d : a \in IF width >= 80 THEN {0} ELSE 0..1, b \in 0..1,
                     d \in {0} \cup DeviceLines(rows, width)}
        \cup {(IF width >= 80 THEN 5 ELSE 6) + d : d \in DeviceLines(rows, width)}
NetDetail(rows) ==
    {4 + a + b : a \in 0..1, b \in {0, When(rows >= 32, 2)}} \cup 6..9
\* Once the evidence has used its lines a further piece is printed in full.
HealthDetail(rows) ==
    {3 + a + b + m : a \in {0, 2 + Minus(rows, 15), 22 + Minus(rows, 15)},
                     b \in {0, When(rows >= 24, 4), When(rows >= 24, 6)}, m \in 0..1}
HardwareDetail == {3, 5, 33}
SystemDetail == {3} \cup {6 + a + b + m : a \in {0, 2}, b \in 0..1, m \in {0, 2}}

DetailLengths(view, size) ==
    CASE view = "logs" -> LogDetail(size[2])
      [] view = "services" -> ServiceDetail
      [] view = "containers" -> ContainerDetail(size[1]) \cup ContainerCharts(size[2], size[1])
      [] view = "disk" -> DiskDetail(size[2], size[1])
      [] view = "net" -> NetDetail(size[2])
      [] view = "health" -> HealthDetail(size[2])
      [] view = "hardware" -> HardwareDetail
      [] view = "system" -> SystemDetail
      [] OTHER -> {0}

---------------------------------------------------------------------------
\* Cards one under the other or two side by side share the lines that are
\* left: three of frame and at least two of text each band, until fewer than
\* five remain.
Bands(cards, columns) ==
    IF columns = 1 THEN cards
    ELSE [b \in 1..Ceil(Len(cards), 2) |->
            IF 2 * b > Len(cards) THEN cards[2 * b - 1]
            ELSE Larger(cards[2 * b - 1], cards[2 * b])]

\* What a band leaves of the lines that it and those after it share.
AfterBand(lines, band, sharing) ==
    IF lines < 5 THEN lines
    ELSE lines - (Smaller(band, Larger(Minus(lines \div sharing, 3), 2)) + 3)

\* The lines that are left after each band.
LeftAfter(bands, budget, extra) ==
    LET left[b \in 0..Len(bands)] ==
            IF b = 0 THEN budget
            ELSE AfterBand(left[b - 1], bands[b], Len(bands) + extra - (b - 1))
    IN  left
Stack(bands, budget, extra) == budget - LeftAfter(bands, budget, extra)[Len(bands)]

\* The trends of the session: nothing under five lines, else a framed panel.
Trend(lines, budget) ==
    IF budget < 5 \/ lines = 0 THEN 0 ELSE Smaller(lines, budget - 3) + 3

Related(budget, width) ==
    IF budget < 6 THEN 0 ELSE Stack(Bands(in.cards, IF width >= 120 THEN 2 ELSE 1), budget, 0)

\* A body longer than its share loses its last line to a notice.
BoundBody(body, height) ==
    IF body.lines <= height THEN body
    ELSE [lines |-> height,
          cursor |-> IF body.cursor < height THEN body.cursor ELSE 0,
          cut |-> TRUE]

RawList(rows, width) ==
    IF in.count = 0 THEN Text(IF in.view = "health" THEN 5 ELSE 2) ELSE
    CASE in.view = "logs" ->
            LET trend == Trend(in.trend, 5)
                list == LogList(Minus(rows, trend))
            IN  [list EXCEPT !.lines = @ + trend, !.cursor = IF @ = 0 THEN 0 ELSE @ + trend]
      [] in.view = "services" -> ServiceList(rows)
      [] in.view = "containers" -> ContainerList(rows, width)
      [] in.view = "disk" -> DiskList(rows)
      [] in.view = "net" -> NetList(rows, width)
      [] in.view = "health" -> HealthList(rows)
      [] in.view = "hardware" -> HardwareList(rows)
      [] OTHER -> SystemList(rows, width)

\* above: the lines already written, counted again by the code.
RawDetail(rows, width, above) ==
    LET first == above + in.detail
        second == first + Trend(in.trend, Minus(rows, first + 9))
    IN  Text(second + Related(Minus(rows, second + 9), width) - above)

Body(inspecting, rows, width, above) ==
    BoundBody(IF inspecting /\ ~in.loading THEN RawDetail(rows, width, above)
              ELSE RawList(rows, width),
              Larger(Minus(rows, 9), 1))

---------------------------------------------------------------------------
\* The last lines are the rule, the keys and the frame.  From thirty rows on
\* they are put on the last three rows, over whatever stands there; below,
\* they follow the body.
FinishAfter(written, keys) ==
    [scrolled |-> Minus(written + 3 + keys, Height), last |-> written]
Finish(written, keys) ==
    IF Height < 30 THEN FinishAfter(written, keys)
    ELSE LET scrolled == Minus(written, Height - 1)
         IN  [scrolled |-> scrolled + (keys - 1),
              last |-> Smaller(written, scrolled + Height - 3)]

\* The columns of the line of keys.
KeysLine == IF in.view = "containers" /\ in.inspecting THEN 45 ELSE 30

Framed(written, cursor, cut, end) ==
    [drawn |-> TRUE, lines |-> written, cursor |-> cursor, cut |-> cut,
     scrolled |-> end.scrolled, last |-> end.last]

\* Four lines of heading, a summary when there is room, the body.
Summary == When(~in.loading /\ Height >= 26, 1)
Above == 4 + Summary

\* On a wide terminal the detail of the selected row stands beside the list.
Split == /\ Columns >= 150 /\ Height >= 32
         /\ ~in.inspecting /\ ~in.loading /\ in.count > 0
LeftColumns == ((Columns - 7) * 55) \div 100
BesideBody ==
    LET rows == Height - Summary
        list == Body(FALSE, rows, LeftColumns, 0)
        pane == Body(TRUE, rows - 1, Columns - 7 - LeftColumns, 1)
        room == Minus(Height, Above + 4)
    IN  [lines |-> Smaller(Larger(list.lines, pane.lines + 1), room),
         cursor |-> IF list.cursor <= room THEN list.cursor ELSE 0,
         cut |-> list.cut \/ pane.cut]

SpecialistFrame ==
    LET body == IF Split THEN BesideBody
                ELSE Body(in.inspecting, Height - Summary, Columns, Above)
        written == Above + body.lines
    IN  Framed(written, IF body.cursor = 0 THEN 0 ELSE Above + body.cursor, body.cut,
               Finish(written, Ceil(KeysLine, Columns)))

---------------------------------------------------------------------------
\* The cockpit bounds nothing as a whole: each part looks at the rows.
WideActivity == Columns >= 140 /\ Height >= 28
ActivityPart == IF Height < 24 THEN 0 ELSE IF WideActivity THEN 8 ELSE 4

WorkloadsPart ==
    LET side == Columns >= 110 /\ Height >= 40
        open == IF Height < 36 THEN Larger(Minus(Height, 31), 1)
                ELSE Smaller(3 + (((Height - 36) * 2) \div 3), 10)
        capacity == IF side /\ Height < 48 THEN Larger(Minus(open, 2), 1) ELSE open
        shown == Smaller(in.count, capacity)
    IN  CASE Height < 32 -> 0
          [] side -> 3 + Larger(Smaller(Larger(shown, in.trend + 5), capacity), 1)
          [] OTHER -> 2 + shown + When(Height >= 60, 2 + Smaller(8, in.trend + 5))

FindingsPart ==
    LET extra == Minus(Height, 36)
        capacity == 2 + (extra - ((extra * 2) \div 3))
    IN  2 + (IF in.loading THEN Ceil(67, Columns) ELSE 1)
          + When(~in.loading /\ Height >= 36, Smaller(in.detail, capacity))
          + When(~in.loading /\ Height >= 40, 1 + When(in.mode = "limited", 1))

Views == 9
ExploreColumns == IF Columns < 110 \/ Height < 26 THEN 1 ELSE IF Columns < 150 THEN 2 ELSE 3
ExploreRows == Ceil(Views, ExploreColumns)

\* What remains from fifty rows on: charts by pairs, the inventory, the logs.
DetailsPart(budget) ==
    LET columns == IF Columns >= 110 THEN 2 ELSE 1
        charts == Smaller(in.count,
                    Smaller(8, Larger(1, (Minus(budget \div 2, 3) \div 5) * columns)))
        fit == Smaller(Ceil(charts, columns), Minus(budget, 2) \div 7)
        left == Minus(budget, 2) - 7 * fit
        rest == IF left >= 7 THEN left - 2 ELSE left
        details == [i \in DOMAIN in.cards |-> Larger(in.cards[i], 1)]
        after == rest - Stack(Bands(details, columns), rest, 1)
        logs == When(after >= 5, Smaller(Larger(in.trend, 1), after - 3) + 3)
    IN  IF budget < 10 THEN 0 ELSE budget - (after - logs)

CockpitFrame ==
    LET head == 3 + When(Height >= 30, 1 + When(in.mode # "plain", 1))
                + Ceil(54, Columns) + When(Columns >= 52 /\ Height >= 30, 1)
        top == head + ActivityPart + WorkloadsPart + FindingsPart + 2
        used == top + ExploreRows
        written == used + When(~in.loading /\ Height >= 50, DetailsPart(Minus(Height, used + 5)))
    IN  Framed(written, top + 1 + (in.selected % ExploreRows), FALSE, Finish(written, 1))

---------------------------------------------------------------------------
Specialists == {"logs", "services", "containers", "disk", "net", "health", "hardware", "system"}

Modes(view) == CASE view = "containers" -> {"plain", "resources", "libvirt"}
                 [] view = "net" -> {"none", "collecting", "known"}
                 [] view = "cockpit" -> {"plain", "known", "limited"}
                 [] OTHER -> {"plain"}

\* The lines of the charts of the session a view can have.
Trends(view) == CASE view = "logs" -> {0, 1}
                  [] view \in {"services", "cockpit"} -> {0, 3}
                  [] view = "net" -> {0, 1}
                  [] view = "hardware" -> {0, 4}
                  [] OTHER -> {0}

Extremes(S) == {x \in S : (\A y \in S : y <= x) \/ (\A y \in S : x <= y)}

Places(count) == {0, count \div 2, Minus(count, 1)}

\* A specialist: the detail and its cards matter where they are drawn.
SpecialistInput(v, s, c) ==
    \E p \in Places(c), i \in BOOLEAN, l \in BOOLEAN, m \in Modes(v), t \in Trends(v) :
        LET pane == i \/ s[1] >= 150
        IN  \E d \in IF pane THEN Extremes(DetailLengths(v, s)) ELSE {0},
               k \in IF pane THEN CardSets ELSE {<<>>} :
            /\ l => c = 0
            /\ i => c > 0
            /\ in = [view |-> v, size |-> s, count |-> c, selected |-> p, inspecting |-> i,
                     loading |-> l, mode |-> m, trend |-> t, detail |-> d, cards |-> k]

\* The cockpit: count workloads, detail findings, one of the nine views selected.
CockpitInput(s, c) ==
    \E p \in {0, 4, 8}, l \in BOOLEAN, m \in Modes("cockpit"), t \in {0, 3},
       d \in {0, 1, 30}, k \in CardSets :
        in = [view |-> "cockpit", size |-> s, count |-> c, selected |-> p, inspecting |-> FALSE,
              loading |-> l, mode |-> m, trend |-> t, detail |-> d, cards |-> k]

Nothing == [drawn |-> FALSE, lines |-> 0, cursor |-> 0, cut |-> FALSE, scrolled |-> 0, last |-> 0]

Init == /\ \E s \in Terminals, c \in Counts :
              CockpitInput(s, c) \/ \E v \in Specialists : SpecialistInput(v, s, c)
        /\ frame = Nothing

RenderSpecialist == /\ in.view \in Specialists
                    /\ frame = Nothing
                    /\ frame' = SpecialistFrame
                    /\ UNCHANGED in

RenderCockpit == /\ in.view = "cockpit"
                 /\ frame = Nothing
                 /\ frame' = CockpitFrame
                 /\ UNCHANGED in

Next == RenderSpecialist \/ RenderCockpit
ScreenSpec == Init /\ [][Next]_vars

---------------------------------------------------------------------------
Listing == in.view = "cockpit" \/ (in.count > 0 /\ ~in.inspecting)

\* The selected row is on the terminal, neither scrolled off nor under the
\* footer, whatever the list and what stands above it: for the lists from
\* fifteen rows on, for the cockpit up to thirty-nine and not at 52 and 53
\* columns, where the line of figures (54 columns) still wraps and the line
\* of tasks is written as well (from 52 on).  Elsewhere the cockpit's may be
\* under the footer (CockpitOnScreen).
SelectedOnScreen ==
    /\ frame.drawn /\ Listing /\ Height >= 15
    /\ in.view = "cockpit" => Height < 40 /\ Columns \notin {52, 53}
    => frame.cursor > frame.scrolled /\ frame.cursor <= frame.last

\* The same of the cockpit of any size: from forty rows on it may write more
\* lines than there are.
CockpitOnScreen ==
    frame.drawn /\ in.view = "cockpit" /\ Height >= 15
    => frame.cursor > frame.scrolled /\ frame.cursor <= frame.last

\* Every line a specialist writes is on the terminal, from ten rows and 46
\* columns on.
FrameFits ==
    frame.drawn /\ in.view \in Specialists /\ Columns >= 46
        => frame.scrolled = 0 /\ frame.last = frame.lines

\* A detail that fits is not cut by the trends and cards added under it.
CardsNeverCut ==
    frame.drawn /\ in.inspecting /\ in.count > 0 /\ in.detail <= Minus(Height, 10) => ~frame.cut

\* lib.rs:2158 and :3674: "Resize to at least 36x10 or press q to quit."
\* A terminal of that size shows the whole frame.
LeastSizeSuffices ==
    frame.drawn => frame.scrolled = 0 /\ frame.last = frame.lines
=============================================================================
