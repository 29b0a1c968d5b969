----------------------------- MODULE MCDisplay -----------------------------
(* What a user is shown of one snapshot, a listing or a screen, with the values *)
(* that MCTools checks.                                                         *)
EXTENDS Naturals, Sequences, FiniteSets

CONSTANTS
  Size, Users, Deepest, Shapes, Criteria, Requests,  \* Selection
  Terminals, Counts, CardSets                        \* Screen

VARIABLES
  ps, base, typed, request, shown,                   \* Selection
  in, drawn                                          \* Screen

L == INSTANCE Selection WITH Count <- Size, Snapshots <- Shapes, Filters <- Criteria, asked <- request

W == INSTANCE Screen WITH frame <- drawn

ASSUME DisplayAssumption == L!SelectionAssumption /\ W!ScreenAssumption

selectionVars == <<ps, base, typed, request, shown>>
screenVars == <<in, drawn>>

SelectionUnused == ps = <<>> /\ base = <<>> /\ typed = <<>> /\ request = <<>> /\ shown = <<>>
ScreenUnused == in = <<>> /\ drawn = <<>>

-----------------------------------------------------------------------------
\* Every shape of parents with orphans and cycles, and every mixture of users and loads.
Trees == {[i \in 1..Size |-> [parent |-> f[i], user |-> IF i = 2 THEN 2 ELSE 1, load |-> 1 + (i % 2)]] :
            f \in [1..Size -> 0..(Size + 1)]}
Mixtures == {[i \in 1..Size |-> [parent |-> 0, user |-> f[i][1], load |-> f[i][2]]] :
               f \in [1..Size -> {1, 2} \X {1, 2}]}
MCShapes == Trees \cup Mixtures
MCCriteria == {[user |-> 0, least |-> 0], [user |-> 1, least |-> 0], [user |-> 2, least |-> 2]}
MCRequests == {r \in [group : {"none", "tree", "user"}, limit : {3, 9},
                      direction : {"ascending", "descending"}] : r.group = "none" => r.limit = 3}

\* On both sides of every size at which a screen changes its layout.
MCTerminals == {36, 46, 54, 70, 95, 110, 150} \X
                 ((10..16) \cup {22, 23, 24, 25, 26, 28, 30, 32, 36, 40, 44, 50, 60})
MCCardSets == {<<>>, <<2, 9, 0>>, <<8, 8, 8, 8, 8>>}
=============================================================================
