---------------------------- MODULE ToolsProofs ----------------------------
(***************************************************************************)
(* What MCTools checks of the setup script, of one service or container    *)
(* action, of one signal, of the interactive lens-top, of rates, sessions  *)
(* and commands, and of listings and screens, holds for any number of      *)
(* units, processes, keys, runs, readings, log entries, collections and    *)
(* rows, and for every size of a terminal.                                 *)
(***************************************************************************)
EXTENDS MCTools, PartsProofs

-----------------------------------------------------------------------------
\* A behaviour is about one part, and a step is one of that part.
PartMoves ==
  /\ part' = part
  /\ part = "top" => [NextTop]_topVars
  /\ part = "process" => [P!Next]_runVars
  /\ part = "action" => [A!Next]_actionVars
  /\ part = "setup" => [S!Next]_setupVars
  /\ part = "rates" => [R!Next]_ratesVars
  /\ part = "traffic" => [Net!Next]_trafficVars
  /\ part = "session" => [O!Next]_sessionVars
  /\ part = "command" => [C!Next]_commandVars
  /\ part = "screen" => [W!Next]_screenVars
  /\ part = "selection" => [L!Next]_selectionVars
  /\ part # "top" => UNCHANGED uiVars
  /\ part # "setup" => UNCHANGED setupVars

LEMMA OnePartMoves == [ToolsNext]_allvars => PartMoves
<1>a. ASSUME UNCHANGED allvars PROVE PartMoves
  <2>1. /\ part' = part /\ UNCHANGED topVars /\ UNCHANGED actionVars /\ UNCHANGED setupVars
        /\ UNCHANGED ratesVars /\ UNCHANGED sessionVars /\ UNCHANGED commandVars
        /\ UNCHANGED screenVars /\ UNCHANGED selectionVars /\ UNCHANGED trafficVars
    BY <1>a DEF allvars, small
  <2>2. UNCHANGED runVars /\ UNCHANGED uiVars
    BY <2>1 DEF topVars, vars, uiVars
  <2> QED BY <2>1, <2>2 DEF PartMoves
<1>b. ASSUME ToolsNext PROVE PartMoves
  <2>1. CASE part = "top" /\ NextTop /\ UNCHANGED <<part, setupVars>>
    BY <2>1 DEF PartMoves
  <2>2. CASE part = "process" /\ P!Next /\ UNCHANGED <<part, uiVars, setupVars>>
    BY <2>2 DEF PartMoves
  <2>3. CASE part = "action" /\ A!Next /\ UNCHANGED <<part, topVars, setupVars>>
    BY <2>3 DEF PartMoves, topVars, vars, uiVars
  <2>4. CASE part = "setup" /\ S!Next /\ UNCHANGED <<part, topVars>>
    BY <2>4 DEF PartMoves, topVars, vars, uiVars
  <2>5. CASE part = "rates" /\ R!Next /\ UNCHANGED <<part, topVars, setupVars>>
    BY <2>5 DEF PartMoves, topVars, vars, uiVars
  <2>6. CASE part = "session" /\ O!Next /\ UNCHANGED <<part, topVars, setupVars>>
    BY <2>6 DEF PartMoves, topVars, vars, uiVars
  <2>7. CASE part = "command" /\ C!Next /\ UNCHANGED <<part, topVars, setupVars>>
    BY <2>7 DEF PartMoves, topVars, vars, uiVars
  <2>8. CASE part = "screen" /\ W!Next /\ UNCHANGED <<part, topVars, setupVars>>
    BY <2>8 DEF PartMoves, topVars, vars, uiVars
  <2>9. CASE part = "selection" /\ L!Next /\ UNCHANGED <<part, topVars, setupVars>>
    BY <2>9 DEF PartMoves, topVars, vars, uiVars
  <2>10. CASE part = "traffic" /\ Net!Next /\ UNCHANGED <<part, topVars, setupVars>>
    BY <2>10 DEF PartMoves, topVars, vars, uiVars
  <2> QED BY <1>b, <2>1, <2>2, <2>3, <2>4, <2>5, <2>6, <2>7, <2>8, <2>9, <2>10 DEF ToolsNext
<1> QED BY <1>a, <1>b

-----------------------------------------------------------------------------
(***************************************************************************)
(* The setup of reporting.                                                 *)
(***************************************************************************)

SetupType ==
  /\ at \in {"over", "accounts", "register", "inspect", "stage", "activate", "disable",
             "record", "enable"}
  /\ mode \in {"auto", "off", "force"} /\ rc \in {0, 1} /\ runs \in Nat
  /\ conf \in {"none", "foreign", "lens"} /\ recorded \in {"none", "off", "on"}
  /\ wasActive \in BOOLEAN /\ publisher \in BOOLEAN /\ daemon \in BOOLEAN
  /\ registered \in BOOLEAN /\ loaded \in BOOLEAN /\ other \in BOOLEAN /\ enabled \in BOOLEAN

\* What a line of the script may rely on when it is reached: the registration,
RegisteredSoFar ==
  /\ publisher \/ daemon \/ wasActive => registered
  /\ at \in {"inspect", "stage", "activate", "disable", "record", "enable"} => registered

\* a destination that is Lens's to write,
OwnDestination ==
  /\ at \in {"stage", "activate"} => mode # "off" /\ (mode = "force" \/ ~other)
  /\ at \in {"stage", "activate", "disable", "record", "enable"} => conf # "foreign"

\* and what is recorded of the forwarding, which is true when the script succeeds.
TrueSoFar ==
  /\ at \notin {"record", "enable", "over"} => ~enabled
  /\ at \in {"record", "enable"} => (enabled <=> conf = "lens") /\ (enabled => loaded)
  /\ at = "enable" => (enabled /\ recorded = "on") \/ (~enabled /\ recorded = "off")
  /\ at # "over" => rc = 0
  /\ at = "over" /\ runs > 0 /\ rc = 0 =>
       (recorded = "on" <=> conf = "lens") /\ (recorded = "on" => loaded)

SetupInv == SetupType /\ RegisteredSoFar /\ OwnDestination /\ TrueSoFar

SetupStep == conf' # conf => conf # "foreign" /\ (conf' = "lens" => mode = "force" \/ ~other)

LEMMA SetupStarts == S!Init => SetupInv
<1> SUFFICES ASSUME S!Init PROVE SetupInv OBVIOUS
<1> USE DEF S!Init
<1>1. publisher \in BOOLEAN /\ daemon \in BOOLEAN /\ loaded \in BOOLEAN /\ other \in BOOLEAN OBVIOUS
<1>2. at = "over" /\ mode = "auto" /\ rc = 0 /\ runs \in Nat OBVIOUS
<1>3. conf \in {"none", "foreign", "lens"} /\ recorded \in {"none", "off", "on"} OBVIOUS
<1>4. SetupType BY <1>1, <1>2, <1>3 DEF SetupType
<1>5. ~publisher /\ ~daemon /\ ~wasActive OBVIOUS
<1>6. ~(runs > 0) OBVIOUS
<1> QED BY <1>2, <1>4, <1>5, <1>6 DEF SetupInv, RegisteredSoFar, OwnDestination, TrueSoFar

LEMMA SetupMoves == ASSUME SetupInv, S!Next PROVE SetupInv' /\ SetupStep
<1> USE DEF SetupInv, S!optionVars, S!serviceVars, S!forwardVars, S!hostVars
<1>1. CASE S!Invoke
  <2> USE <1>1 DEF S!Invoke
  <2>1. SetupType'
    <3>1. at' = "accounts" /\ rc' = 0 /\ runs' \in Nat /\ mode' \in {"auto", "off", "force"}
      BY DEF SetupType
    <3>2. conf' \in {"none", "foreign", "lens"} /\ recorded' \in {"none", "off", "on"}
      BY DEF SetupType
    <3>3. /\ wasActive' \in BOOLEAN /\ publisher' \in BOOLEAN /\ daemon' \in BOOLEAN
          /\ registered' \in BOOLEAN /\ loaded' \in BOOLEAN
      BY DEF SetupType
    <3>4. other' \in BOOLEAN /\ enabled' \in BOOLEAN
      BY DEF SetupType
    <3> QED BY ONLY <3>1, <3>2, <3>3, <3>4 DEF SetupType
  <2>2. RegisteredSoFar' BY DEF SetupType, RegisteredSoFar
  <2>3. OwnDestination' /\ SetupStep BY DEF OwnDestination, SetupStep
  <2>4. TrueSoFar' BY DEF SetupType, OwnDestination, TrueSoFar
  <2> QED BY ONLY <2>1, <2>2, <2>3, <2>4 DEF SetupInv
<1>2. CASE S!StopPublisher
  <2> USE <1>2 DEF S!StopPublisher
  <2>1. SetupType' BY DEF SetupType
  <2>2. RegisteredSoFar' BY DEF SetupType, RegisteredSoFar
  <2>3. OwnDestination' /\ SetupStep BY DEF OwnDestination, SetupStep
  <2>4. TrueSoFar' BY DEF SetupType, OwnDestination, TrueSoFar
  <2> QED BY ONLY <2>1, <2>2, <2>3, <2>4 DEF SetupInv
<1>3. CASE S!Register
  <2> USE <1>3 DEF S!Register
  <2>1. SetupType'
    <3>1. /\ at' \in {"over", "accounts", "register", "inspect", "stage", "activate", "disable",
                     "record", "enable"}
          /\ mode' \in {"auto", "off", "force"} /\ rc' \in {0, 1} /\ runs' \in Nat
      BY DEF SetupType
    <3>2. conf' \in {"none", "foreign", "lens"} /\ recorded' \in {"none", "off", "on"}
      BY DEF SetupType
    <3>3. wasActive' \in BOOLEAN /\ publisher' \in BOOLEAN /\ daemon' \in BOOLEAN BY DEF SetupType
    <3>4. registered' \in BOOLEAN /\ loaded' \in BOOLEAN BY DEF SetupType
    <3>5. other' \in BOOLEAN /\ enabled' \in BOOLEAN BY DEF SetupType
    <3> QED BY ONLY <3>1, <3>2, <3>3, <3>4, <3>5 DEF SetupType
  <2>2. RegisteredSoFar' BY DEF SetupType, RegisteredSoFar
  <2>3. OwnDestination' /\ SetupStep BY DEF OwnDestination, SetupStep
  <2>4. TrueSoFar' BY DEF SetupType, OwnDestination, TrueSoFar
  <2> QED BY ONLY <2>1, <2>2, <2>3, <2>4 DEF SetupInv
<1>4. CASE S!RefuseForeign
  <2> USE <1>4 DEF S!RefuseForeign, S!Quit
  <2>1. SetupType' BY DEF SetupType
  <2>2. RegisteredSoFar' BY DEF SetupType, RegisteredSoFar
  <2>3. OwnDestination' /\ SetupStep BY DEF OwnDestination, SetupStep
  <2>4. TrueSoFar' BY DEF SetupType, OwnDestination, TrueSoFar
  <2> QED BY ONLY <2>1, <2>2, <2>3, <2>4 DEF SetupInv
<1>5. CASE S!Choose
  <2> USE <1>5 DEF S!Choose
  <2>1. SetupType' BY DEF SetupType
  <2>2. RegisteredSoFar' BY DEF SetupType, RegisteredSoFar
  <2>3. OwnDestination' /\ SetupStep BY DEF OwnDestination, SetupStep
  <2>4. TrueSoFar' BY DEF SetupType, OwnDestination, TrueSoFar
  <2> QED BY ONLY <2>1, <2>2, <2>3, <2>4 DEF SetupInv
<1>6. CASE S!Stage
  <2> USE <1>6 DEF S!Stage
  <2>1. SetupType' BY DEF SetupType
  <2>2. RegisteredSoFar' BY DEF SetupType, RegisteredSoFar
  <2>3. OwnDestination' /\ SetupStep BY DEF OwnDestination, SetupStep
  <2>4. TrueSoFar' BY DEF SetupType, OwnDestination, TrueSoFar
  <2> QED BY ONLY <2>1, <2>2, <2>3, <2>4 DEF SetupInv
<1>7. CASE S!Activate
  <2> USE <1>7 DEF S!Activate
  <2>1. SetupType' BY DEF SetupType
  <2>2. RegisteredSoFar' BY DEF SetupType, RegisteredSoFar
  <2>3. OwnDestination' /\ SetupStep BY DEF OwnDestination, SetupStep
  <2>4. TrueSoFar'
    <3>1. at = "activate" /\ ~enabled /\ rc = 0 /\ rc' = 0 /\ conf' = "lens"
      BY DEF TrueSoFar
    <3>2. \/ at' = "record" /\ loaded' /\ enabled'
          \/ at' = "disable" /\ ~enabled'
      BY <3>1
    <3> QED BY ONLY <3>1, <3>2 DEF TrueSoFar
  <2> QED BY ONLY <2>1, <2>2, <2>3, <2>4 DEF SetupInv
<1>8. CASE S!Disable
  <2> USE <1>8 DEF S!Disable, S!Quit
  <2>1. SetupType' BY DEF SetupType
  <2>2. RegisteredSoFar' BY DEF SetupType, RegisteredSoFar
  <2>3. OwnDestination' /\ SetupStep BY DEF OwnDestination, SetupStep
  <2>4. TrueSoFar' BY DEF SetupType, OwnDestination, TrueSoFar
  <2> QED BY ONLY <2>1, <2>2, <2>3, <2>4 DEF SetupInv
<1>9. CASE S!Record
  <2> USE <1>9 DEF S!Record
  <2>1. SetupType' BY DEF SetupType
  <2>2. RegisteredSoFar' BY DEF SetupType, RegisteredSoFar
  <2>3. OwnDestination' /\ SetupStep BY DEF OwnDestination, SetupStep
  <2>4. TrueSoFar' BY DEF SetupType, OwnDestination, TrueSoFar
  <2> QED BY ONLY <2>1, <2>2, <2>3, <2>4 DEF SetupInv
<1>10. CASE S!Enable
  <2> USE <1>10 DEF S!Enable
  <2>1. SetupType' BY DEF SetupType
  <2>2. RegisteredSoFar' BY DEF SetupType, RegisteredSoFar
  <2>3. OwnDestination' /\ SetupStep BY DEF OwnDestination, SetupStep
  <2>4. TrueSoFar' BY DEF SetupType, OwnDestination, TrueSoFar
  <2> QED BY ONLY <2>1, <2>2, <2>3, <2>4 DEF SetupInv
<1>11. CASE S!EnableFails
  <2> USE <1>11 DEF S!EnableFails
  <2>1. SetupType' BY DEF SetupType
  <2>2. RegisteredSoFar' BY DEF SetupType, RegisteredSoFar
  <2>3. OwnDestination' /\ SetupStep BY DEF OwnDestination, SetupStep
  <2>4. TrueSoFar' BY DEF SetupType, OwnDestination, TrueSoFar
  <2> QED BY ONLY <2>1, <2>2, <2>3, <2>4 DEF SetupInv
<1>12. CASE S!CommandFails
  <2> USE <1>12 DEF S!CommandFails, S!Trap
  <2>1. SetupType' BY DEF SetupType
  <2>2. RegisteredSoFar' BY DEF SetupType, RegisteredSoFar
  <2>3. OwnDestination' /\ SetupStep BY DEF OwnDestination, SetupStep
  <2>4. TrueSoFar' BY DEF SetupType, OwnDestination, TrueSoFar
  <2> QED BY ONLY <2>1, <2>2, <2>3, <2>4 DEF SetupInv
<1>13. CASE S!Administer
  <2> USE <1>13 DEF S!Administer
  <2>1. SetupType'
    <3>1. /\ at' \in {"over", "accounts", "register", "inspect", "stage", "activate", "disable",
                     "record", "enable"}
          /\ mode' \in {"auto", "off", "force"} /\ rc' \in {0, 1} /\ runs' \in Nat
      BY DEF SetupType
    <3>2. conf' \in {"none", "foreign", "lens"} /\ recorded' \in {"none", "off", "on"}
      BY DEF SetupType
    <3>3. wasActive' \in BOOLEAN /\ publisher' \in BOOLEAN /\ daemon' \in BOOLEAN BY DEF SetupType
    <3>4. registered' \in BOOLEAN /\ loaded' \in BOOLEAN BY DEF SetupType
    <3>5. other' \in BOOLEAN /\ enabled' \in BOOLEAN BY DEF SetupType
    <3> QED BY ONLY <3>1, <3>2, <3>3, <3>4, <3>5 DEF SetupType
  <2>2. RegisteredSoFar' BY DEF SetupType, RegisteredSoFar
  <2>3. OwnDestination' /\ SetupStep BY DEF OwnDestination, SetupStep
  <2>4. TrueSoFar' BY DEF SetupType, OwnDestination, TrueSoFar
  <2> QED BY ONLY <2>1, <2>2, <2>3, <2>4 DEF SetupInv
<1> QED
  BY <1>1, <1>2, <1>3, <1>4, <1>5, <1>6, <1>7, <1>8, <1>9, <1>10, <1>11, <1>12, <1>13
  DEF S!Next, S!Script

LEMMA SetupRests == ASSUME SetupInv, UNCHANGED setupVars PROVE SetupInv' /\ SetupStep
BY DEF SetupInv, SetupType, RegisteredSoFar, OwnDestination, TrueSoFar, SetupStep, setupVars

\* SetupHolds (MCTools) after any number of runs: a publisher or a daemon that runs has been
\* registered, a setup that succeeded reports forwarding exactly when the destination is in
\* place, which rsyslog has then read (not that rsyslog has dropped it when it is not), and
\* no run adds a forwarding path beside another one unless it was told to
\* (lens-reporting-enable).
THEOREM SetupIsTrue == ToolsSpec => SetupHolds
<1> DEFINE I == part = "setup" => SetupInv
<1>1. ToolsInit => I
  BY SetupStarts DEF ToolsInit
<1>2. I /\ [ToolsNext]_allvars => I'
  BY OnePartMoves, SetupMoves, SetupRests DEF PartMoves
<1>3. I => (part = "setup" => S!SelectionIsTrue /\ S!RegisteredFirst)
  BY DEF SetupInv, SetupType, RegisteredSoFar, TrueSoFar, S!RegisteredFirst, S!SelectionIsTrue, S!Succeeded
<1>4. I /\ [ToolsNext]_allvars => [SetupStep]_(S!vars)
  <2>1. ASSUME UNCHANGED setupVars PROVE UNCHANGED S!vars
    BY <2>1 DEF setupVars, S!vars, S!optionVars, S!serviceVars, S!forwardVars, S!hostVars
  <2> QED BY <2>1, OnePartMoves, SetupMoves DEF PartMoves
<1> QED BY <1>1, <1>2, <1>3, <1>4, PTL DEF ToolsSpec, SetupHolds, S!NoSecondPath, SetupStep

-----------------------------------------------------------------------------
(***************************************************************************)
(* One service or container action.                                        *)
(***************************************************************************)

ActionSteps == {"start", "resolve", "permit", "act", "wait", "collect", "decide", "over"}
Commands == [o : A!Options, at : ActionSteps, target : Units \cup {A!NoUnit},
             unlisted : SUBSET Units, seen : A!States \cup {"none"}, code : 0..3,
             status : {"none", "planned", "completed"}]

ActionType ==
  /\ state \in [Units -> A!States] /\ act \in Commands
  /\ acted \in SUBSET Units /\ held \in SUBSET A!States /\ changes \in Nat

\* Nothing is acted on before the command may act, and then its target only.
ActedOnTarget ==
  /\ act.at \in {"start", "resolve", "permit", "act"} => acted = {}
  /\ act.at \in {"permit", "act"} => act.target \in Units
  /\ act.at = "act" \/ acted # {} =>
       act.o.yes /\ ~act.o.dry /\ ~(act.o.demo /\ act.o.kind = "container")
  /\ acted # {} => acted = {act.target}

\* As long as the host leaves the units alone, the target is the only one that was meant.
Selective == ~act.o.demo /\ ~(act.o.kind = "service" /\ act.o.how = "target")
MeantAlone ==
  changes = 0 /\ Selective /\ (act.at \in {"permit", "act"} \/ acted # {}) =>
    (A!Present \cap act.o.select) \ act.unlisted = {act.target}

\* What the verification sees is a state the target was in after it was acted on.
SeenAfter ==
  /\ act.at \in {"wait", "collect", "decide"} => acted # {}
  /\ acted # {} => state[act.target] \in held
  /\ act.at = "decide" => act.seen \in held \cup {"absent"}
  /\ act.status # "none" => act.at = "over"
  /\ act.status = "completed" /\ act.o.expect # "none" => act.o.expect \in held

ActionInv == ActionType /\ ActedOnTarget /\ MeantAlone /\ SeenAfter

LEMMA OptionTypes ==
  ASSUME NEW o \in A!Options
  PROVE  o.select \in SUBSET Units /\ o.expect \in {"none", "down", "up"}
BY DEF A!Options

LEMMA ActionStarts == A!Init => ActionInv
<1> SUFFICES ASSUME A!Init PROVE ActionInv OBVIOUS
<1>1. PICK o \in A!Options :
        act = [o |-> o, at |-> "start", target |-> A!NoUnit, unlisted |-> {},
               seen |-> "none", code |-> 0, status |-> "none"]
  BY DEF A!Init
<1>2. state \in [Units -> A!States] /\ acted = {} /\ held = {} /\ changes = 0
  BY DEF A!Init
<1>3. act \in Commands
  BY <1>1 DEF Commands, ActionSteps
<1>4. act.at = "start" /\ act.status = "none"
  BY <1>1
<1> QED
  BY <1>2, <1>3, <1>4 DEF ActionInv, ActionType, ActedOnTarget, MeantAlone, SeenAfter

LEMMA OnlyOne ==
  ASSUME A!ActionsAssumption, NEW F \in SUBSET Units, A!Unique(F)
  PROVE  /\ (CHOOSE one \in F : TRUE) \in Units
         /\ F = {CHOOSE one \in F : TRUE}
<1>1. IsFiniteSet(Units) <=> A!IsFiniteSet(Units)
  BY DEF IsFiniteSet, A!IsFiniteSet
<1>2. Cardinality(F) = A!Cardinality(F)
  BY DEF Cardinality, A!Cardinality, IsFiniteSet, A!IsFiniteSet
<1>3. IsFiniteSet(F)
  BY <1>1, FS_Subset DEF A!ActionsAssumption
<1>4. PICK x : F = {x}
  BY <1>2, <1>3, FS_Singleton DEF A!Unique
<1> QED BY <1>4

\* Every step keeps this: those of the command, and what happens on the host meanwhile.
LEMMA ActionMoves ==
  ASSUME A!ActionsAssumption, ActionInv, A!Next
  PROVE  ActionInv'
<1> USE DEF ActionInv
<1>t. act \in Commands /\ act.o \in A!Options /\ act.at \in ActionSteps
  BY DEF ActionType, Commands
<1>o. act.o.select \in SUBSET Units /\ act.o.expect \in {"none", "down", "up"}
  BY <1>t, OptionTypes
<1>s. /\ "resolve" \in ActionSteps /\ "permit" \in ActionSteps /\ "act" \in ActionSteps
      /\ "wait" \in ActionSteps /\ "collect" \in ActionSteps /\ "decide" \in ActionSteps
      /\ "over" \in ActionSteps
      /\ 0 \in 0..3 /\ 1 \in 0..3 /\ 2 \in 0..3 /\ 3 \in 0..3
  BY DEF ActionSteps
<1>q. ASSUME UNCHANGED <<state, acted, held, changes>>, act' \in Commands, act'.o = act.o,
             act.at \in {"start", "resolve", "permit"}, act.status = "none",
             \/ /\ act'.at \in {"resolve", "over"}
                /\ act'.status # "none" => act'.at = "over" /\ act'.status = "planned"
             \/ /\ act'.at = "permit" /\ act'.target \in Units /\ act'.status = "none"
                /\ Selective /\ changes = 0 =>
                     (A!Present \cap act.o.select) \ act'.unlisted = {act'.target}
             \/ /\ act'.at = "act" /\ act.at = "permit"
                /\ act'.target = act.target /\ act'.unlisted = act.unlisted
                /\ act'.status = "none"
                /\ act.o.yes /\ ~act.o.dry /\ ~(act.o.demo /\ act.o.kind = "container")
      PROVE  ActionInv'
  <2>1. ActionType' BY <1>q DEF ActionType
  <2>2. ActedOnTarget' BY <1>q DEF ActedOnTarget
  <2>3. MeantAlone' BY <1>q DEF ActedOnTarget, MeantAlone, Selective, A!Present
  <2>4. SeenAfter' BY <1>q DEF ActedOnTarget, SeenAfter
  <2> QED BY <2>1, <2>2, <2>3, <2>4
<1>n. act.at # "over" => act.status = "none"
  BY DEF SeenAfter
<1>1. CASE A!Validate
  <2>1. act.at = "start" /\ UNCHANGED <<state, acted, held, changes>>
    BY <1>1 DEF A!Validate
  <2>2. \/ act' = [act EXCEPT !.at = "over", !.code = 2]
        \/ act' = [act EXCEPT !.at = "resolve"]
    BY <1>1 DEF A!Validate, A!Exit, A!Goto
  <2>3. act' \in Commands /\ act'.o = act.o /\ act'.at \in {"resolve", "over"}
        /\ act'.status = act.status
    <3>1. act' \in Commands
      BY <2>2, <1>t, <1>s DEF Commands
    <3> QED BY <2>2, <3>1, <1>t DEF Commands
  <2> QED BY <2>1, <2>3, <1>n, <1>q
<1>2. CASE A!Resolve
  <2>1. act.at = "resolve" /\ UNCHANGED <<state, acted, held, changes>>
    BY <1>2 DEF A!Resolve
  <2>2. CASE act' = [act EXCEPT !.at = "over", !.code = 2]
    <3>1. act' \in Commands /\ act'.o = act.o /\ act'.at = "over" /\ act'.status = act.status
      <4>1. act' \in Commands
        BY <2>2, <1>t, <1>s DEF Commands
      <4> QED BY <2>2, <4>1, <1>t DEF Commands
    <3> QED BY <2>1, <3>1, <1>n, <1>q
  <2>3. ASSUME NEW x \in Units, NEW U \in SUBSET Units,
               act' = [act EXCEPT !.at = "permit", !.target = x, !.unlisted = U],
               Selective => (A!Present \cap act.o.select) \ U = {x}
        PROVE  ActionInv'
    <3>1. act' \in Commands /\ act'.o = act.o /\ act'.at = "permit" /\ act'.target = x
          /\ act'.unlisted = U /\ act'.status = act.status
      <4>1. act' \in Commands
        BY <2>3, <1>t, <1>s DEF Commands
      <4> QED BY <2>3, <4>1, <1>t DEF Commands
    <3> QED BY <2>1, <2>3, <3>1, <1>n, <1>q
  <2>4. CASE act.o.kind = "service" /\ act.o.how = "target"
    <3>1. PICK x \in act.o.select : act' = [act EXCEPT !.at = "permit", !.target = x]
      BY <1>2, <2>4 DEF A!Resolve, A!Goto
    <3>2. act.unlisted \in SUBSET Units
      BY <1>t DEF Commands
    <3>3. act' = [act EXCEPT !.at = "permit", !.target = x, !.unlisted = act.unlisted]
      BY <3>1, <1>t DEF Commands
    <3> QED BY <3>2, <3>3, <2>3, <2>4, <1>o DEF Selective
  <2>5. CASE ~(act.o.kind = "service" /\ act.o.how = "target")
    <3> DEFINE Found(U) == IF act.o.demo THEN act.o.select ELSE (A!Present \cap act.o.select) \ U
    <3>1. PICK U \in IF act.o.demo THEN {{}} ELSE A!Missing :
            act' = IF A!Unique(Found(U))
                   THEN [act EXCEPT !.at = "permit", !.target = CHOOSE one \in Found(U) : TRUE,
                                    !.unlisted = U]
                   ELSE [act EXCEPT !.at = "over", !.code = 2]
      BY <1>2, <2>5 DEF A!Resolve, A!Goto, A!Exit
    <3>2. U \in SUBSET Units
      <4>1. A!Missing \subseteq SUBSET Units
        BY DEF A!Missing, A!ActionsAssumption
      <4> QED BY <3>1, <4>1
    <3>3. Found(U) \in SUBSET Units
      BY <1>o DEF A!Present
    <3>4. Selective => Found(U) = (A!Present \cap act.o.select) \ U
      BY DEF Selective
    <3> HIDE DEF Found
    <3>5. CASE ~A!Unique(Found(U))
      BY <3>1, <3>5, <2>2
    <3>6. CASE A!Unique(Found(U))
      <4>1. /\ (CHOOSE one \in Found(U) : TRUE) \in Units
            /\ Found(U) = {CHOOSE one \in Found(U) : TRUE}
        BY <3>3, <3>6, OnlyOne
      <4> QED BY <3>1, <3>2, <3>4, <3>6, <4>1, <2>3
    <3> QED BY <3>5, <3>6
  <2> QED BY <2>4, <2>5
<1>3. CASE A!Permit
  <2>1. act.at = "permit" /\ UNCHANGED <<state, acted, held, changes>>
    BY <1>3 DEF A!Permit
  <2>2. \/ act' = [act EXCEPT !.at = "over", !.code = 2]
        \/ act' = [act EXCEPT !.at = "over", !.code = 0, !.status = "planned"]
        \/ /\ act' = [act EXCEPT !.at = "act"]
           /\ act.o.yes /\ ~act.o.dry /\ ~(act.o.demo /\ act.o.kind = "container")
    <3>1. CASE ~act.o.dry /\ ~act.o.yes
      BY <1>3, <3>1 DEF A!Permit, A!Exit
    <3>2. CASE act.o.dry
      BY <1>3, <3>2 DEF A!Permit, A!Exit
    <3>3. CASE ~act.o.dry /\ act.o.yes
      BY <1>3, <3>3 DEF A!Permit, A!Exit, A!Goto
    <3> QED BY <3>1, <3>2, <3>3
  <2>3. act' \in Commands /\ act'.o = act.o /\ act'.target = act.target /\ act'.unlisted = act.unlisted
        /\ act'.at \in {"act", "over"}
        /\ (act'.at = "act" => act'.status = act.status)
        /\ act'.status \in {act.status, "planned"}
    <3>1. act' \in Commands
      BY <2>2, <1>t, <1>s DEF Commands
    <3> QED BY <2>2, <3>1, <1>t DEF Commands
  <2>4. act'.at = "act" => act.o.yes /\ ~act.o.dry /\ ~(act.o.demo /\ act.o.kind = "container")
    BY <2>2, <1>t DEF Commands
  <2> QED BY <2>1, <2>3, <2>4, <1>n, <1>q
<1>4. CASE A!Act
  <2>1. act.at = "act" /\ act.target \in Units /\ acted = {} /\ changes' = changes
    BY <1>4 DEF A!Act, ActedOnTarget
  <2>2. CASE act' = A!Exit(1) /\ UNCHANGED <<state, acted, held>>
    <3>1. act' = [act EXCEPT !.at = "over", !.code = 1]
      BY <2>2 DEF A!Exit
    <3>2. act' \in Commands
      BY <3>1, <1>t, <1>s DEF Commands
    <3>3. act'.at = "over" /\ act'.status = "none"
      BY <3>1, <1>t, <1>n, <2>1 DEF Commands
    <3> QED
      BY <2>1, <2>2, <3>2, <3>3
      DEF ActionType, ActedOnTarget, MeantAlone, SeenAfter
  <2>3. ASSUME NEW one \in A!Reached(act.target), NEW s \in {"down", "up"},
               act' \in {A!Goto("wait"), A!Exit(1)}, state' = [state EXCEPT ![one] = s],
               acted' = acted \cup {one}, held' = {s}
        PROVE  ActionInv'
    <3>1. one = act.target /\ one \in A!Present /\ one \in Units /\ acted' = {one}
      BY <2>1, <2>3 DEF A!Reached
    <3>2. \/ act' = [act EXCEPT !.at = "wait"]
          \/ act' = [act EXCEPT !.at = "over", !.code = 1]
      BY <2>3 DEF A!Goto, A!Exit
    <3>3. act' \in Commands
      BY <3>2, <1>t, <1>s DEF Commands
    <3>4. /\ act'.o = act.o /\ act'.target = act.target /\ act'.unlisted = act.unlisted
        /\ act'.at \in {"wait", "over"}
          /\ act'.status = "none"
      BY <3>2, <1>t, <1>n, <2>1 DEF Commands
    <3>5. state' \in [Units -> A!States] /\ state'[one] = s /\ s # "absent" /\ s \in A!States
      BY <2>3, <3>1 DEF ActionType, A!States
    <3>6. A!Present' = A!Present
      BY <2>3, <3>1, <3>5 DEF ActionType, A!Present
    <3>7. ActionType' BY <2>1, <2>3, <3>1, <3>3, <3>5 DEF ActionType
    <3>8. ActedOnTarget' BY <2>1, <3>1, <3>4 DEF ActedOnTarget
    <3>9. MeantAlone' BY <2>1, <3>1, <3>4, <3>6 DEF MeantAlone, Selective
    <3>10. SeenAfter' BY <2>3, <3>1, <3>4, <3>5 DEF SeenAfter
    <3> QED BY <3>7, <3>8, <3>9, <3>10
  <2> QED BY <1>4, <2>2, <2>3 DEF A!Act
<1>r. ASSUME UNCHANGED <<state, acted, held, changes>>, act' \in Commands, act'.o = act.o,
             act'.target = act.target, act'.unlisted = act.unlisted,
             act.at \in {"wait", "collect", "decide"},
             act'.at \in {"collect", "decide", "over"},
             act'.at = "decide" => act'.seen \in {state[act.target], "absent"},
             act'.status # "none" => act'.at = "over",
             act'.status = "completed" /\ act.o.expect # "none" => act.o.expect \in held
      PROVE  ActionInv'
  <2>1. ActionType' BY <1>r DEF ActionType
  <2>2. ActedOnTarget' BY <1>r DEF ActedOnTarget, SeenAfter
  <2>3. MeantAlone' BY <1>r DEF SeenAfter, MeantAlone, Selective, A!Present
  <2>4. SeenAfter' BY <1>r DEF SeenAfter
  <2> QED BY <2>1, <2>2, <2>3, <2>4
<1>5. CASE A!ReadWait
  <2>1. act.at = "wait" /\ UNCHANGED <<state, acted, held, changes>>
    BY <1>5 DEF A!ReadWait
  <2>2. \/ act' = [act EXCEPT !.at = "over", !.code = 2]
        \/ act' = [act EXCEPT !.at = "collect"]
    BY <1>5 DEF A!ReadWait, A!Exit, A!Goto
  <2>3. act' \in Commands
    BY <2>2, <1>t, <1>s DEF Commands
  <2>4. /\ act'.o = act.o /\ act'.target = act.target /\ act'.unlisted = act.unlisted
        /\ act'.at \in {"collect", "over"}
        /\ act'.status = "none"
    BY <2>1, <2>2, <1>n, <1>t DEF Commands
  <2> QED BY <2>1, <2>3, <2>4, <1>r
<1>6. CASE A!Elapse
  BY <1>6 DEF A!Elapse, ActionType, ActedOnTarget, MeantAlone, Selective, A!Present, SeenAfter
<1>7. CASE A!Collect
  <2>1. act.at = "collect" /\ UNCHANGED <<state, acted, held, changes>>
    BY <1>7 DEF A!Collect
  <2>2. PICK s \in {state[act.target], "absent"} : act' = [act EXCEPT !.at = "decide", !.seen = s]
    BY <1>7 DEF A!Collect, A!Goto
  <2>3. s \in A!States
    <3>1. act.target \in Units
      BY <2>1 DEF ActedOnTarget, SeenAfter, ActionType
    <3> QED BY <2>2, <3>1 DEF ActionType, A!States
  <2>4. act' \in Commands
    BY <2>2, <2>3, <1>t, <1>s DEF Commands
  <2>5. /\ act'.o = act.o /\ act'.target = act.target /\ act'.unlisted = act.unlisted
        /\ act'.at = "decide" /\ act'.seen = s
        /\ act'.status = "none"
    BY <2>1, <2>2, <1>n, <1>t DEF Commands
  <2> QED BY <2>1, <2>2, <2>4, <2>5, <1>r
<1>8. CASE A!Decide
  <2>1. act.at = "decide" /\ UNCHANGED <<state, acted, held, changes>>
    BY <1>8 DEF A!Decide
  <2>2. CASE act.o.expect \in {"none", act.seen}
    <3>1. act' = [act EXCEPT !.at = "over", !.code = 0, !.status = "completed"]
      BY <1>8, <2>2 DEF A!Decide, A!Exit
    <3>2. act' \in Commands
      BY <3>1, <1>t, <1>s DEF Commands
    <3>3. act'.o = act.o /\ act'.target = act.target /\ act'.unlisted = act.unlisted
        /\ act'.at = "over"
      BY <3>1, <1>t DEF Commands
    <3>4. act.o.expect # "none" => act.o.expect \in held
      BY <2>1, <2>2, <1>o DEF SeenAfter
    <3> QED BY <2>1, <3>2, <3>3, <3>4, <1>r
  <2>3. CASE act.o.expect \notin {"none", act.seen}
    <3>1. \/ act' = [act EXCEPT !.at = "over", !.code = 3]
          \/ act' = [act EXCEPT !.at = "collect"]
      BY <1>8, <2>3 DEF A!Decide, A!Exit, A!Goto
    <3>2. act' \in Commands
      BY <3>1, <1>t, <1>s DEF Commands
    <3>3. /\ act'.o = act.o /\ act'.target = act.target /\ act'.unlisted = act.unlisted
        /\ act'.at \in {"collect", "over"}
          /\ act'.status = "none"
      BY <2>1, <3>1, <1>n, <1>t DEF Commands
    <3> QED BY <2>1, <3>2, <3>3, <1>r
  <2> QED BY <2>2, <2>3
<1>h. ASSUME NEW one \in Units, NEW s \in A!States, UNCHANGED <<act, acted>>,
             state' = [state EXCEPT ![one] = s], changes' = changes + 1,
             held' = IF act.target = one /\ acted # {} THEN held \cup {s} ELSE held
      PROVE  ActionInv'
  <2>1. ActionType'
    BY <1>h DEF ActionType
  <2>2. ActedOnTarget'
    BY <1>h DEF ActedOnTarget
  <2>3. changes' # 0
    BY <1>h DEF ActionType
  <2>4. MeantAlone'
    BY <2>3 DEF MeantAlone
  <2>5. held \subseteq held'
    BY <1>h
  <2>6. acted # {} => state'[act.target] \in held'
    <3>1. CASE act.target = one
      BY <1>h, <3>1 DEF ActionType
    <3>2. CASE act.target # one
      BY <1>h, <3>2, <2>5 DEF ActionType, SeenAfter
    <3> QED BY <3>1, <3>2
  <2>7. SeenAfter'
    BY <1>h, <2>5, <2>6 DEF SeenAfter
  <2> QED BY <2>1, <2>2, <2>4, <2>7
<1>9. CASE A!ChangeState
  <2>1. PICK one \in A!Present : \E s \in A!States \ {state[one]} :
          /\ state' = [state EXCEPT ![one] = s]
          /\ held' = IF act.target = one /\ acted # {} THEN held \cup {s} ELSE held
    BY <1>9 DEF A!ChangeState
  <2>2. PICK s \in A!States :
          /\ state' = [state EXCEPT ![one] = s]
          /\ held' = IF act.target = one /\ acted # {} THEN held \cup {s} ELSE held
    BY <2>1
  <2>3. one \in Units /\ UNCHANGED <<act, acted>> /\ changes' = changes + 1
    BY <1>9 DEF A!ChangeState, A!Present
  <2> QED BY <2>2, <2>3, <1>h
<1>10. CASE A!Appear
  <2>1. PICK one \in Units \ A!Present :
          /\ state' = [state EXCEPT ![one] = "up"]
          /\ held' = IF act.target = one /\ acted # {} THEN held \cup {"up"} ELSE held
    BY <1>10 DEF A!Appear
  <2>2. "up" \in A!States /\ UNCHANGED <<act, acted>> /\ changes' = changes + 1
    BY <1>10 DEF A!Appear, A!States
  <2> QED BY <2>1, <2>2, <1>h
<1> QED
  BY <1>1, <1>2, <1>3, <1>4, <1>5, <1>6, <1>7, <1>8, <1>9, <1>10 DEF A!Next, A!Step

LEMMA ActionRests == ASSUME ActionInv, UNCHANGED actionVars PROVE ActionInv'
BY DEF ActionInv, ActionType, ActedOnTarget, MeantAlone, Selective, A!Present, SeenAfter, actionVars

LEMMA ActionInvHolds ==
  ActionInv => A!ActsOnTheResolved /\ A!ActsOnOne /\ A!CompletedWasReached
<1> SUFFICES ASSUME ActionInv PROVE A!ActsOnTheResolved /\ A!ActsOnOne /\ A!CompletedWasReached
  OBVIOUS
<1>1. act.o.select \in SUBSET Units
  BY OptionTypes DEF ActionInv, ActionType, Commands
<1>2. A!Meant = A!Present \cap act.o.select
  BY <1>1 DEF A!Meant, A!Present
<1>3. A!ActsOnTheResolved
  BY DEF ActionInv, ActedOnTarget, A!ActsOnTheResolved
<1>4. A!ActsOnOne
  BY <1>2 DEF ActionInv, ActedOnTarget, MeantAlone, Selective, A!Looked, A!ActsOnOne
<1>5. A!CompletedWasReached
  BY DEF ActionInv, SeenAfter, A!CompletedWasReached
<1> QED BY <1>3, <1>4, <1>5

\* ActionsHold (MCTools) for any set of units, of namesakes and of listings by one runtime: a
\* service or container action is done to the one unit that was resolved, with consent; a
\* selector, but for demo data, finds it alone among the units that were listed (what a
\* runtime that failed would have listed is not among them); and what is reported as
\* completed was seen after the action (run_service_action, run_container_action).
THEOREM ActionsAreMeant == ToolsSpec => []ActionsHold
<1> DEFINE I == part = "action" => ActionInv
<1>1. ToolsInit => I
  BY ActionStarts DEF ToolsInit
<1>2. I /\ [ToolsNext]_allvars => I'
  BY OnePartMoves, ActionMoves, ActionRests, CommandsAssumption DEF PartMoves
<1>3. I => ActionsHold
  BY ActionInvHolds DEF ActionsHold
<1> QED BY <1>1, <1>2, <1>3, PTL DEF ToolsSpec

-----------------------------------------------------------------------------
(***************************************************************************)
(* What a session remembers of the inventories it has seen.                *)
(***************************************************************************)

Readings == {{}} \cup {{c} : c \in Nat}

SessionType ==
  /\ actual \in [Names -> Readings] /\ readable \in SUBSET Names
  /\ events \in [Names -> Nat]
  /\ DOMAIN baseline \in SUBSET Names /\ baseline \in [DOMAIN baseline -> Readings]
  /\ journal \in Seq(Entries) /\ seen \in SUBSET Entries
  /\ silent \in BOOLEAN
  /\ counted \in [Entries -> Nat] /\ gaps \in Nat
  /\ collections \in Nat

\* What a counter shows above its baseline has been counted since, also where the counter
\* was reset, and so has every number that is reported.
CountedSince ==
  /\ collections = 0 => DOMAIN baseline = {}
  /\ \A n \in DOMAIN baseline : baseline[n] # {} /\ actual[n] # {} =>
       O!The(actual[n]) <= O!The(baseline[n]) + events[n]
  /\ \A n \in DOMAIN latest : n \in Names /\ latest[n] \in Nat /\ latest[n] <= events[n]

\* An entry among the newest that the last collection did not show is counted as often as
\* the journal was unreadable; one that is not written yet was never seen.
SeenSince ==
  /\ \A e \in Entries : counted[e] <= 1 + gaps
  /\ \A e \in Entries \ O!Range(journal) : counted[e] = 0
  /\ \A e \in O!Range(O!Newest(journal, Window)) \ seen : counted[e] <= gaps

\* A history whose last sample is from the collection before c.
RunsUpTo(h, c) ==
  /\ h \in Seq(Nat) /\ Len(h) \in 1..Longest
  /\ \A i \in 1..Len(h) : h[i] = c - 1 - (Len(h) - i)

Consecutive ==
  /\ watched # "samples" => DOMAIN histories = {}
  /\ \A n \in DOMAIN histories : RunsUpTo(histories[n], collections)

SessionInv == SessionType /\ CountedSince /\ SeenSince /\ Consecutive

LEMMA TheOne == \A c : O!The({c}) = c
<1> TAKE c
<1>1. \A x \in {c} : x = c OBVIOUS
<1> QED BY DEF O!The

LEMMA ReadingOf == ASSUME NEW r \in Readings, r # {} PROVE O!The(r) \in Nat /\ r = {O!The(r)}
<1>1. PICK c \in Nat : r = {c} BY DEF Readings
<1> QED BY <1>1, TheOne

LEMMA SingleReading == ASSUME NEW c \in Nat PROVE {c} \in Readings
BY DEF Readings

LEMMA LesserOf ==
  ASSUME NEW a \in Nat, NEW b \in Nat PROVE \E m \in Nat : m <= a /\ m <= b /\ (m = a \/ m = b)
<1>1. CASE a <= b BY <1>1
<1>2. CASE b <= a BY <1>2
<1> QED BY <1>1, <1>2

\* What Newest returns: the last m entries, in their order.
LastOf(x, s, k, m) ==
  /\ m <= k /\ m <= Len(s) /\ (m = k \/ m = Len(s)) /\ Len(x) = m
  /\ \A i \in 1..m : Len(s) - m + i \in 1..Len(s) /\ x[i] = s[Len(s) - m + i]

LEMMA NewestOf ==
  ASSUME NEW T, NEW s \in Seq(T), NEW k \in Nat \ {0}
  PROVE  O!Newest(s, k) \in Seq(T) /\ \E m \in Nat : LastOf(O!Newest(s, k), s, k, m)
<1> DEFINE n == Len(s)
<1>1. k \in Nat /\ n \in Nat /\ \A j \in 1..n : s[j] \in T OBVIOUS
<1>2. PICK m \in Nat : m <= k /\ m <= n /\ (m = k \/ m = n)
  BY ONLY <1>1, LesserOf
<1> DEFINE a == IF n > k THEN n - k + 1 ELSE 1
<1>3. a \in 1..(n + 1) /\ n - a + 1 = m BY ONLY <1>1, <1>2, m \in Nat
<1>4. O!Newest(s, k) = SubSeq(s, a, n) BY DEF O!Newest
<1> HIDE DEF a, n
<1>5. SubSeq(s, a, n) = [i \in 1..m |-> s[a + i - 1]]
  BY <1>1, <1>3
<1>6. ASSUME NEW i \in 1..m PROVE a + i - 1 = n - m + i /\ n - m + i \in 1..n
  <2>1. i \in Nat /\ 1 <= i /\ i <= m OBVIOUS
  <2> QED BY ONLY <1>1, <1>3, <2>1, m \in Nat
<1>7. \A i \in 1..m : s[a + i - 1] = s[n - m + i] /\ s[n - m + i] \in T
  BY ONLY <1>1, <1>6
<1> DEFINE f == [i \in 1..m |-> s[a + i - 1]]
<1>8. f \in [1..m -> T] /\ \A i \in 1..m : f[i] = s[n - m + i]
  BY ONLY <1>7
<1> HIDE DEF f
<1>9. f \in Seq(T) /\ Len(f) = m
  BY ONLY <1>8, m \in Nat
<1>10. O!Newest(s, k) = f BY <1>4, <1>5 DEF f
<1>11. LastOf(f, s, k, m) BY ONLY <1>2, <1>6, <1>8, <1>9 DEF LastOf, n
<1> QED BY ONLY <1>9, <1>10, <1>11, m \in Nat

\* One more entry displaces others from the newest and brings in none.
LEMMA NewestGrows ==
  ASSUME NEW s \in Seq(Entries), NEW e \in Entries
  PROVE  O!Range(O!Newest(Append(s, e), Window)) \subseteq O!Range(O!Newest(s, Window)) \cup {e}
<1>1. Window \in Nat \ {0} BY ReadingsAssumption DEF O!SessionAssumption
<1>0. Window \in Nat BY <1>1
<1>8. Append(s, e) \in Seq(Entries) OBVIOUS
<1>7. PICK t \in Seq(Entries) : t = Append(s, e) BY <1>8
<1>2. /\ Len(t) = Len(s) + 1 /\ Len(s) \in Nat /\ t[Len(s) + 1] = e
      /\ \A i \in 1..Len(s) : t[i] = s[i]
  BY <1>7
<1>9. t \in Seq(Entries) /\ Len(t) \in Nat BY <1>2
<1> DEFINE x == O!Newest(s, Window)
           y == O!Newest(t, Window)
<1>13. x \in Seq(Entries) /\ \E m \in Nat : LastOf(x, s, Window, m) BY <1>1, NewestOf
<1>14. y \in Seq(Entries) /\ \E k \in Nat : LastOf(y, t, Window, k) BY <1>1, NewestOf
<1> HIDE DEF x, y
<1>15. PICK m \in Nat : LastOf(x, s, Window, m) BY <1>13
<1>16. PICK k \in Nat : LastOf(y, t, Window, k) BY <1>14
<1>3. m <= Window /\ m <= Len(s) /\ (m = Window \/ m = Len(s)) BY ONLY <1>15 DEF LastOf
<1>4. k <= Window /\ k <= Len(t) /\ (k = Window \/ k = Len(t)) BY ONLY <1>16 DEF LastOf
<1>5. x \in Seq(Entries) /\ Len(x) = m /\ \A i \in 1..m : x[i] = s[Len(s) - m + i]
  BY ONLY <1>13, <1>15 DEF LastOf
<1>6. /\ y \in Seq(Entries) /\ Len(y) = k
      /\ \A i \in 1..k : Len(t) - k + i \in 1..Len(t) /\ y[i] = t[Len(t) - k + i]
  BY ONLY <1>14, <1>16 DEF LastOf
<1>10. DOMAIN x = 1..m /\ DOMAIN y = 1..k BY <1>5, <1>6
<1>11. ASSUME NEW i \in 1..k PROVE y[i] = e \/ \E j \in 1..m : y[i] = x[j]
  <2>1. CASE Len(t) - k + i = Len(s) + 1 BY <2>1, <1>2, <1>6
  <2>2. CASE Len(t) - k + i # Len(s) + 1
    <3>1. Len(t) - k + i \in 1..Len(t) BY <1>6
    <3>2. i \in Nat /\ 1 <= i /\ i <= k OBVIOUS
    <3>3. Len(t) - k + i \in 1..Len(s) BY ONLY <2>2, <1>2, <1>4, <3>1, <3>2, k \in Nat
    <3>4. PICK j \in 1..m : Len(s) - m + j = Len(t) - k + i
      <4> DEFINE j == Len(t) - k + i - (Len(s) - m)
      <4>1. j \in 1..m /\ Len(s) - m + j = Len(t) - k + i
        BY ONLY <1>1, <1>2, <1>3, <1>4, <3>2, <3>3, k \in Nat, m \in Nat
      <4> QED BY <4>1
    <3>5. y[i] = s[Len(t) - k + i] BY <3>3, <1>2, <1>6
    <3>6. x[j] = s[Len(t) - k + i] BY <3>4, <1>5
    <3> QED BY <3>5, <3>6
  <2> QED BY <2>1, <2>2
<1> QED BY <1>7, <1>10, <1>11 DEF O!Range, x, y

LEMMA NewestIn ==
  ASSUME NEW s \in Seq(Entries)
  PROVE  O!Range(O!Newest(s, Window)) \subseteq O!Range(s) /\ O!Range(s) \subseteq Entries
<1>1. Window \in Nat \ {0} BY ReadingsAssumption DEF O!SessionAssumption
<1>0. Window \in Nat BY <1>1
<1>2. Len(s) \in Nat /\ DOMAIN s = 1..Len(s) /\ \A i \in 1..Len(s) : s[i] \in Entries OBVIOUS
<1> DEFINE x == O!Newest(s, Window)
<1>3. x \in Seq(Entries) /\ \E m \in Nat : LastOf(x, s, Window, m) BY <1>1, NewestOf
<1>4. PICK m \in Nat : LastOf(x, s, Window, m) BY <1>3
<1>5. /\ x \in Seq(Entries) /\ Len(x) = m
      /\ \A i \in 1..m : Len(s) - m + i \in 1..Len(s) /\ x[i] = s[Len(s) - m + i]
  BY <1>3, <1>4 DEF LastOf
<1>6. DOMAIN x = 1..m BY <1>5
<1> HIDE DEF x
<1>7. O!Range(x) \subseteq O!Range(s)
  <2>1. \A i \in 1..m : Len(s) - m + i \in DOMAIN s /\ x[i] = s[Len(s) - m + i]
    BY <1>2, <1>5
  <2>2. \A i \in DOMAIN x : \E j \in DOMAIN s : x[i] = s[j] BY ONLY <2>1, <1>6
  <2> QED BY ONLY <2>2 DEF O!Range
<1>8. O!Range(s) \subseteq Entries BY <1>2 DEF O!Range
<1> QED BY <1>7, <1>8 DEF x

LEMMA SessionStarts == O!Init => SessionInv
<1> SUFFICES ASSUME O!Init PROVE SessionInv OBVIOUS
<1> USE DEF O!Init
<1>1. {} \in Readings BY DEF Readings
<1>2. SessionType
  <2>1. actual \in [Names -> Readings] /\ readable \in SUBSET Names /\ events \in [Names -> Nat]
    BY <1>1
  <2>2. DOMAIN baseline = {} /\ DOMAIN baseline \in SUBSET Names
        /\ baseline \in [DOMAIN baseline -> Readings]
    OBVIOUS
  <2>3. journal = <<>> /\ seen = {} /\ silent = FALSE OBVIOUS
  <2>5. journal \in Seq(Entries) /\ seen \in SUBSET Entries /\ silent \in BOOLEAN
    <3>1. <<>> \in Seq(Entries) OBVIOUS
    <3>2. {} \in SUBSET Entries OBVIOUS
    <3> QED BY ONLY <2>3, <3>1, <3>2
  <2>4. counted \in [Entries -> Nat] /\ gaps \in Nat /\ collections \in Nat OBVIOUS
  <2> QED BY <2>1, <2>2, <2>5, <2>4 DEF SessionType
<1>3. CountedSince
  <2>1. DOMAIN baseline = {} /\ DOMAIN latest = {} OBVIOUS
  <2> QED BY <2>1 DEF CountedSince
<1>4. SeenSince
  <2>1. gaps = 0 /\ \A e \in Entries : counted[e] = 0 OBVIOUS
  <2>2. journal \in Seq(Entries) /\ O!Range(journal) = {} BY DEF O!Range
  <2>3. O!Range(O!Newest(journal, Window)) = {} BY <2>2, NewestIn
  <2> QED BY <2>1, <2>3 DEF SeenSince
<1>5. Consecutive
  <2>1. DOMAIN histories = {} OBVIOUS
  <2> QED BY <2>1 DEF Consecutive
<1> QED BY ONLY <1>2, <1>3, <1>4, <1>5 DEF SessionInv

LEMMA ReadingsMove == ASSUME SessionInv, O!ReadingsChange PROVE SessionInv'
<1> USE DEF SessionInv, O!ReadingsChange
<1>0. /\ UNCHANGED <<baseline, latest, journal, seen, silent, counted, gaps>>
      /\ UNCHANGED <<watched, histories, collections>>
  BY DEF O!logs, O!Appear, O!Disappear, O!CountOne, O!ResetCounter, O!ToggleReadable
<1>1. SeenSince' BY <1>0 DEF SeenSince
<1>2. Consecutive' BY <1>0 DEF Consecutive
<1>3. PICK n \in Names : \/ O!Appear(n) \/ O!Disappear(n) \/ O!CountOne(n)
                         \/ O!ResetCounter(n) \/ O!ToggleReadable(n)
  OBVIOUS
<1>T. /\ actual \in [Names -> Readings] /\ readable \in SUBSET Names /\ events \in [Names -> Nat]
      /\ collections \in Nat /\ MaxCount \in Nat /\ DOMAIN baseline \subseteq Names
      /\ \A m \in DOMAIN baseline : baseline[m] \in Readings
  BY ReadingsAssumption DEF SessionType, O!SessionAssumption
<1> DEFINE Typed == actual' \in [Names -> Readings] /\ readable' \in SUBSET Names /\ events' \in [Names -> Nat]
           Above(m) == baseline[m] # {} /\ actual[m] # {} =>
                         O!The(actual[m]) <= O!The(baseline[m]) + events[m]
           Over(m) == baseline[m] # {} /\ actual'[m] # {} =>
                        O!The(actual'[m]) <= O!The(baseline[m]) + events'[m]
<1>4. \A m \in DOMAIN baseline : Above(m) BY DEF CountedSince
<1>5. ASSUME NEW m \in DOMAIN baseline, baseline[m] # {} PROVE O!The(baseline[m]) \in Nat
  BY <1>5, <1>T, ReadingOf
<1>6. Typed /\ (\A m \in DOMAIN baseline : Over(m)) /\ (\A m \in Names : events[m] <= events'[m])
  <2>1. CASE O!Appear(n)
    <3>1. PICK c \in Nat : actual' = [actual EXCEPT ![n] = {c}] /\ (collections # 0 => c = 0)
      <4>1. CASE collections = 0
        <5>1. \A c \in 0..MaxCount : c \in Nat OBVIOUS
        <5> QED BY ONLY <4>1, <5>1, <2>1 DEF O!Appear
      <4>2. CASE collections # 0
        <5>1. PICK c \in {0} : actual' = [actual EXCEPT ![n] = {c}]
          BY ONLY <4>2, <2>1 DEF O!Appear
        <5> QED BY <5>1, <4>2
      <4> QED BY <4>1, <4>2
    <3>2. events' = events /\ readable' = readable BY <2>1 DEF O!Appear
    <3>3. Typed BY <1>T, <3>1, <3>2, SingleReading
    <3>4. ASSUME NEW m \in DOMAIN baseline PROVE Over(m)
      <4>1. CASE m = n
        <5>1. collections # 0 BY DEF CountedSince
        <5>2. O!The(actual'[m]) = 0 BY <3>1, <4>1, <5>1, <1>T, TheOne
        <5> QED BY <5>2, <1>5, <1>T, <3>2
      <4>2. CASE m # n
        BY <4>2, <3>1, <3>2, <1>4, <1>T
      <4> QED BY <4>1, <4>2
    <3>5. \A m \in Names : events[m] <= events'[m] BY <1>T, <3>2
    <3> QED BY ONLY <3>3, <3>4, <3>5
  <2>2. CASE O!Disappear(n)
    <3>1. actual' = [actual EXCEPT ![n] = {}] /\ events' = events /\ readable' = readable
      BY <2>2 DEF O!Disappear
    <3>2. {} \in Readings BY DEF Readings
    <3>3. Typed BY <1>T, <3>1, <3>2
    <3>4. ASSUME NEW m \in DOMAIN baseline PROVE Over(m)
      BY <3>1, <1>4, <1>T
    <3>5. \A m \in Names : events[m] <= events'[m] BY <1>T, <3>1
    <3> QED BY ONLY <3>3, <3>4, <3>5
  <2>3. CASE O!CountOne(n)
    <3>1. /\ actual[n] # {} /\ actual' = [actual EXCEPT ![n] = {O!Counter(n) + 1}]
          /\ events' = [events EXCEPT ![n] = @ + 1] /\ readable' = readable
      BY <2>3 DEF O!CountOne, O!Present
    <3>2. O!Counter(n) \in Nat /\ O!Counter(n) = O!The(actual[n])
      BY <1>T, <3>1, ReadingOf DEF O!Counter
    <3>3. Typed BY <1>T, <3>1, <3>2, SingleReading
    <3>4. ASSUME NEW m \in DOMAIN baseline PROVE Over(m)
      <4>1. CASE m = n
        <5>1. actual'[m] = {O!Counter(n) + 1} /\ events'[m] = events[n] + 1 /\ events[n] \in Nat
          BY <3>1, <4>1, <1>T
        <5>2. O!The(actual'[m]) = O!Counter(n) + 1 BY <5>1, TheOne
        <5>3. baseline[m] # {} => O!Counter(n) <= O!The(baseline[m]) + events[n]
          BY <1>4, <3>1, <3>2, <4>1
        <5> QED BY <5>1, <5>2, <5>3, <3>2, <1>5
      <4>2. CASE m # n
        BY <4>2, <3>1, <1>4, <1>T
      <4> QED BY <4>1, <4>2
    <3>5. \A m \in Names : events[m] <= events'[m] BY <1>T, <3>1
    <3> QED BY ONLY <3>3, <3>4, <3>5
  <2>4. CASE O!ResetCounter(n)
    <3>1. actual' = [actual EXCEPT ![n] = {0}] /\ events' = events /\ readable' = readable
      BY <2>4 DEF O!ResetCounter
    <3>3. Typed BY <1>T, <3>1, SingleReading
    <3>4. ASSUME NEW m \in DOMAIN baseline PROVE Over(m)
      <4>1. CASE m = n
        <5>1. O!The(actual'[m]) = 0 BY <4>1, <3>1, <1>T, TheOne
        <5> QED BY <5>1, <3>1, <1>5, <1>T
      <4>2. CASE m # n
        BY <4>2, <3>1, <1>4, <1>T
      <4> QED BY <4>1, <4>2
    <3>5. \A m \in Names : events[m] <= events'[m] BY <1>T, <3>1
    <3> QED BY ONLY <3>3, <3>4, <3>5
  <2>5. CASE O!ToggleReadable(n)
    <3>1. actual' = actual /\ events' = events /\ readable' \in SUBSET Names
      BY <2>5, <1>T DEF O!ToggleReadable
    <3>5. \A m \in Names : events[m] <= events'[m] BY <1>T, <3>1
    <3> QED BY <3>1, <3>5, <1>4, <1>T
  <2> QED BY ONLY <1>3, <2>1, <2>2, <2>3, <2>4, <2>5
<1>7. SessionType' BY <1>0, <1>6 DEF SessionType
<1>8. CountedSince'
  <2>1. collections' = 0 => DOMAIN baseline' = {} BY <1>0 DEF CountedSince
  <2>2. \A m \in DOMAIN baseline' : baseline'[m] # {} /\ actual'[m] # {} =>
          O!The(actual'[m]) <= O!The(baseline'[m]) + events'[m]
    BY <1>0, <1>6
  <2>3. ASSUME NEW m \in DOMAIN latest' PROVE m \in Names /\ latest'[m] \in Nat /\ latest'[m] <= events'[m]
    <3>1. m \in Names /\ latest[m] \in Nat /\ latest[m] <= events[m] BY <1>0 DEF CountedSince
    <3>2. events'[m] \in Nat /\ events[m] \in Nat /\ events[m] <= events'[m] BY <3>1, <1>6, <1>T
    <3> QED BY ONLY <3>1, <3>2, <1>0
  <2> QED BY ONLY <2>1, <2>2, <2>3 DEF CountedSince, O!The
<1> QED BY ONLY <1>1, <1>2, <1>7, <1>8 DEF SessionInv

LEMMA JournalMoves == ASSUME SessionInv, O!JournalChange PROVE SessionInv'
<1> USE DEF SessionInv
<1>0. UNCHANGED <<watched, actual, readable, events, baseline, latest, seen, counted, gaps, histories, collections>>
  BY DEF O!JournalChange, O!readings
<1>1. /\ journal \in Seq(Entries) /\ silent \in BOOLEAN /\ counted \in [Entries -> Nat]
      /\ gaps \in Nat /\ seen \in SUBSET Entries
  BY DEF SessionType
<1>2. CountedSince' BY <1>0 DEF CountedSince
<1>3. Consecutive' BY <1>0 DEF Consecutive
<1>4. CASE \E e \in Entries \ O!Range(journal) : journal' = Append(journal, e) /\ UNCHANGED silent
  <2>1. PICK e \in Entries \ O!Range(journal) : journal' = Append(journal, e) /\ UNCHANGED silent
    BY <1>4
  <2>2. journal' \in Seq(Entries) BY <1>1, <2>1
  <2>3. SessionType' BY <1>0, <2>1, <2>2 DEF SessionType
  <2>4. \A x \in Entries \ O!Range(journal') : x \notin O!Range(journal)
    <3>1. Len(journal) \in Nat /\ DOMAIN journal = 1..Len(journal) BY <1>1
    <3>2. DOMAIN journal' = 1..(Len(journal) + 1) /\ \A i \in 1..Len(journal) : journal'[i] = journal[i]
      BY <1>1, <2>1
    <3> QED BY <3>1, <3>2 DEF O!Range
  <2>5. O!Range(O!Newest(journal', Window)) \subseteq O!Range(O!Newest(journal, Window)) \cup {e}
    BY <1>1, <2>1, NewestGrows
  <2>6. counted[e] <= gaps BY <2>1, <1>1 DEF SeenSince
  <2>7. \A x \in O!Range(O!Newest(journal', Window)) \ seen : counted[x] <= gaps
    BY <2>5, <2>6 DEF SeenSince
  <2>8. SeenSince'
    <3>1. \A x \in Entries : counted'[x] <= 1 + gaps' BY <1>0 DEF SeenSince
    <3>2. \A x \in Entries \ O!Range(journal') : counted'[x] = 0 BY <1>0, <2>4 DEF SeenSince
    <3>3. \A x \in O!Range(O!Newest(journal', Window)) \ seen' : counted'[x] <= gaps' BY <1>0, <2>7
    <3>4. O!Range(O!Newest(journal, Window))' = O!Range(O!Newest(journal', Window))
      BY DEF O!Range, O!Newest
    <3> QED BY <3>1, <3>2, <3>3, <3>4 DEF SeenSince
  <2> QED BY <1>2, <1>3, <2>3, <2>8
<1>5. CASE silent' = ~silent /\ UNCHANGED journal
  <2>1. SessionType' BY <1>0, <1>5, <1>1 DEF SessionType
  <2>2. SeenSince' BY <1>0, <1>5 DEF SeenSince
  <2> QED BY <1>2, <1>3, <2>1, <2>2
<1> QED BY <1>4, <1>5 DEF O!JournalChange

\* The baseline follows the counter down, and what is reported is what lies above it.
LEMMA CountersObserved ==
  ASSUME SessionInv, O!ObserveCounters, collections' = collections + 1, UNCHANGED watched
  PROVE  SessionInv'
<1> USE DEF SessionInv
<1>0. UNCHANGED <<actual, readable, journal, silent, seen, counted, gaps, histories>>
  BY DEF O!ObserveCounters, O!logs
<1>1. SeenSince' BY <1>0 DEF SeenSince
<1>2. Consecutive'
  <2>1. DOMAIN histories = {} BY DEF Consecutive, O!ObserveCounters
  <2> QED BY <2>1, <1>0 DEF Consecutive
<1>3. /\ actual \in [Names -> Readings] /\ events \in [Names -> Nat]
      /\ \A n \in DOMAIN baseline : n \in Names /\ baseline[n] \in Readings
  BY DEF SessionType
<1>4. ASSUME NEW n \in O!Present
      PROVE  /\ n \in Names /\ O!Counter(n) \in Nat /\ O!Read(n) \in Readings /\ O!Old(n) \in Readings
             /\ O!Read(n) # {} => O!Read(n) = {O!Counter(n)} /\ O!The(O!Read(n)) = O!Counter(n)
             /\ O!Old(n) # {} => /\ O!The(O!Old(n)) \in Nat
                                 /\ O!Counter(n) <= O!The(O!Old(n)) + events[n]
  <2>1. n \in Names /\ actual[n] # {} /\ actual[n] \in Readings BY <1>3, <1>4 DEF O!Present
  <2>2. O!Counter(n) \in Nat /\ actual[n] = {O!Counter(n)} BY <2>1, ReadingOf DEF O!Counter
  <2>3. {} \in Readings BY DEF Readings
  <2>4. O!Read(n) \in Readings /\ O!Old(n) \in Readings BY <1>3, <2>1, <2>3 DEF O!Read, O!Old
  <2>5. O!Read(n) # {} => O!Read(n) = {O!Counter(n)} /\ O!The(O!Read(n)) = O!Counter(n)
    BY <2>2, TheOne DEF O!Read
  <2>6. ASSUME O!Old(n) # {}
        PROVE  O!The(O!Old(n)) \in Nat /\ O!Counter(n) <= O!The(O!Old(n)) + events[n]
    <3>1. n \in DOMAIN baseline /\ O!Old(n) = baseline[n] BY <2>6 DEF O!Old
    <3> QED BY <3>1, <2>4, <2>6, <2>1, ReadingOf DEF CountedSince, O!Counter
  <2> QED BY <2>1, <2>2, <2>4, <2>5, <2>6
<1>5. O!Present \subseteq Names BY DEF O!Present
<1>6. /\ events' \in [Names -> Nat]
      /\ \A n \in Names : events'[n] = IF n \in O!Present /\ O!Old(n) = {} THEN 0 ELSE events[n]
  BY <1>3 DEF O!ObserveCounters
\* What both kinds of reading come to.
<1> DEFINE Kept(n) == /\ baseline'[n] \in Readings
                      /\ baseline'[n] # {} =>
                           O!The(baseline'[n]) \in Nat /\ O!Counter(n) <= O!The(baseline'[n]) + events'[n]
           Told(n) == n \in Names /\ latest'[n] \in Nat /\ latest'[n] <= events'[n]
<1>7. /\ DOMAIN baseline' = O!Present /\ baseline' \in [O!Present -> Readings]
      /\ \A n \in O!Present : Kept(n)
      /\ \A n \in DOMAIN latest' : Told(n)
  <2>1. CASE watched = "restarts"
    <3> DEFINE B(n) == CASE O!Read(n) = {} -> O!Old(n)
                         [] O!Old(n) = {} -> O!Read(n)
                         [] OTHER -> {O!LessOf(O!The(O!Old(n)), O!Counter(n))}
    <3>1. /\ baseline' = [n \in O!Present |-> B(n)]
          /\ latest' = [n \in {m \in O!Present : O!Read(m) # {}} |-> O!Counter(n) - O!The(baseline'[n])]
      BY <2>1 DEF O!ObserveCounters, O!Restarts
    <3>2. ASSUME NEW n \in O!Present
          PROVE  /\ B(n) \in Readings
                 /\ B(n) # {} => O!The(B(n)) \in Nat /\ O!Counter(n) <= O!The(B(n)) + events'[n]
                 /\ O!Read(n) # {} => B(n) # {} /\ O!The(B(n)) <= O!Counter(n)
      <4>1. CASE O!Read(n) = {}
        <5>1. B(n) = O!Old(n) BY <4>1
        <5>2. O!Old(n) # {} => events'[n] = events[n] BY <1>4, <1>6
        <5> QED BY <4>1, <5>1, <5>2, <1>4
      <4>2. CASE O!Read(n) # {} /\ O!Old(n) = {}
        <5>1. B(n) = O!Read(n) BY <4>2
        <5>2. events'[n] = 0 BY <4>2, <1>4, <1>6
        <5> QED BY <4>2, <5>1, <5>2, <1>4
      <4>3. CASE O!Read(n) # {} /\ O!Old(n) # {}
        <5>1. B(n) = {O!LessOf(O!The(O!Old(n)), O!Counter(n))} BY <4>3
        <5>2. events'[n] = events[n] /\ events[n] \in Nat BY <4>3, <1>4, <1>6, <1>3
        <5>3. /\ O!LessOf(O!The(O!Old(n)), O!Counter(n)) \in Nat
              /\ O!LessOf(O!The(O!Old(n)), O!Counter(n)) <= O!Counter(n)
              /\ O!Counter(n) <= O!LessOf(O!The(O!Old(n)), O!Counter(n)) + events[n]
          BY <4>3, <1>4, <5>2 DEF O!LessOf
        <5>4. O!The(B(n)) = O!LessOf(O!The(O!Old(n)), O!Counter(n)) BY <5>1, TheOne
        <5> QED BY <5>1, <5>2, <5>3, <5>4, SingleReading
      <4> QED BY <4>1, <4>2, <4>3
    <3> HIDE DEF B
    <3>3. DOMAIN baseline' = O!Present /\ \A n \in O!Present : baseline'[n] = B(n) BY <3>1
    <3>4. baseline' \in [O!Present -> Readings] BY <3>1, <3>2
    <3>5. \A n \in O!Present : Kept(n) BY <3>2, <3>3
    <3>6. ASSUME NEW n \in DOMAIN latest' PROVE Told(n)
      <4>1. n \in O!Present /\ O!Read(n) # {} /\ latest'[n] = O!Counter(n) - O!The(B(n))
        BY <3>1, <3>3
      <4>2. events'[n] \in Nat /\ O!Counter(n) \in Nat /\ n \in Names BY <4>1, <1>4, <1>6
      <4>3. /\ O!The(B(n)) \in Nat /\ O!Counter(n) <= O!The(B(n)) + events'[n]
            /\ O!The(B(n)) <= O!Counter(n)
        BY <4>1, <3>2
      <4> QED BY <4>1, <4>2, <4>3
    <3> QED BY <3>3, <3>4, <3>5, <3>6
  <2>2. CASE watched # "restarts"
    <3> DEFINE B(n) == IF O!Read(n) # {} /\ ~O!Grown(n) THEN O!Read(n) ELSE O!Old(n)
               Started(n) == n \notin DOMAIN baseline /\ O!Read(n) # {}
    <3>1. /\ baseline' = [n \in O!Present |-> B(n)]
          /\ latest' = [n \in {m \in O!Present : O!Grown(m) \/ Started(m)} |->
                          IF Started(n) THEN 0 ELSE O!Counter(n) - O!The(O!Old(n))]
      BY <2>2 DEF O!ObserveCounters, O!Errors
    <3>2. ASSUME NEW n \in O!Present
          PROVE  /\ B(n) \in Readings
                 /\ B(n) # {} => O!The(B(n)) \in Nat /\ O!Counter(n) <= O!The(B(n)) + events'[n]
      <4>1. CASE O!Read(n) # {} /\ ~O!Grown(n)
        <5>1. B(n) = O!Read(n) BY <4>1
        <5>2. events'[n] \in Nat BY <1>4, <1>6
        <5> QED BY <4>1, <5>1, <5>2, <1>4
      <4>2. CASE ~(O!Read(n) # {} /\ ~O!Grown(n))
        <5>1. B(n) = O!Old(n) BY <4>2
        <5>2. O!Old(n) # {} => events'[n] = events[n] BY <1>4, <1>6
        <5> QED BY <5>1, <5>2, <1>4
      <4> QED BY <4>1, <4>2
    <3>3. DOMAIN baseline' = O!Present /\ \A n \in O!Present : baseline'[n] = B(n) BY <3>1
    <3>4. baseline' \in [O!Present -> Readings] BY <3>1, <3>2
    <3>5. \A n \in O!Present : Kept(n) BY <3>2, <3>3
    <3>6. ASSUME NEW n \in DOMAIN latest' PROVE Told(n)
      <4>1. n \in O!Present /\ latest'[n] = IF Started(n) THEN 0 ELSE O!Counter(n) - O!The(O!Old(n))
        BY <3>1
      <4>2. events'[n] \in Nat /\ events[n] \in Nat /\ O!Counter(n) \in Nat /\ n \in Names
        BY <4>1, <1>4, <1>6, <1>3
      <4>3. CASE Started(n) BY <4>1, <4>2, <4>3
      <4>4. CASE ~Started(n)
        <5>1. O!Old(n) # {} /\ O!Counter(n) >= O!The(O!Old(n)) BY <3>1, <4>4 DEF O!Grown
        <5>2. O!The(O!Old(n)) \in Nat /\ O!Counter(n) <= O!The(O!Old(n)) + events[n] BY <5>1, <4>1, <1>4
        <5>3. events'[n] = events[n] BY <5>1, <4>2, <1>6
        <5>4. latest'[n] = O!Counter(n) - O!The(O!Old(n)) BY <4>1, <4>4
        <5> QED BY ONLY <5>1, <5>2, <5>3, <5>4, <4>2
      <4> QED BY <4>3, <4>4
    <3> QED BY <3>3, <3>4, <3>5, <3>6
  <2> QED BY <2>1, <2>2
<1>8. SessionType'
  <2>1. collections' \in Nat BY DEF SessionType
  <2> QED BY <1>0, <1>5, <1>6, <1>7, <2>1 DEF SessionType
<1>9. CountedSince'
  <2>1. collections' # 0 BY DEF SessionType
  <2>2. ASSUME NEW n \in DOMAIN baseline', baseline'[n] # {}
        PROVE  O!The(actual'[n]) <= O!The(baseline'[n]) + events'[n]
    <3>1. Kept(n) BY <2>2, <1>7
    <3> QED BY <3>1, <2>2, <1>0 DEF O!Counter
  <2> QED BY <2>1, <2>2, <1>7 DEF CountedSince, O!The
<1> QED BY ONLY <1>1, <1>2, <1>8, <1>9 DEF SessionInv

LEMMA LogsObserved ==
  ASSUME SessionInv, O!ObserveLogs, collections' = collections + 1, UNCHANGED watched
  PROVE  SessionInv'
<1> USE DEF SessionInv
<1>0. UNCHANGED <<actual, readable, events, baseline, latest, journal, silent, histories>>
  BY DEF O!ObserveLogs, O!readings
<1>1. /\ journal \in Seq(Entries) /\ counted \in [Entries -> Nat]
      /\ gaps \in Nat /\ seen \in SUBSET Entries /\ collections \in Nat
  BY DEF SessionType
<1>2. CountedSince'
  <2>1. collections' # 0 BY <1>1
  <2> QED BY <1>0, <2>1 DEF CountedSince
<1>3. Consecutive'
  <2>1. DOMAIN histories = {} BY DEF Consecutive, O!ObserveLogs
  <2> QED BY <2>1, <1>0 DEF Consecutive
<1>4. O!Range(O!Newest(journal, Window)) \subseteq O!Range(journal) /\ O!Range(journal) \subseteq Entries
  BY <1>1, NewestIn
<1>5. O!Range(O!Collected) = IF silent THEN {} ELSE O!Range(O!Newest(journal, Window))
  <2>1. O!Range(<<>>) = {} BY DEF O!Range
  <2> QED BY <2>1 DEF O!Collected
<1> DEFINE new == IF collections = 0 THEN {} ELSE O!NewFlagged(O!Collected)
<1>6. new \subseteq O!Range(O!Collected) \ seen BY DEF O!NewFlagged
<1>7. /\ counted' = [e \in Entries |-> IF e \in new THEN counted[e] + 1 ELSE counted[e]]
      /\ seen' = O!Range(O!Collected) /\ gaps' = IF silent THEN gaps + 1 ELSE gaps
  BY DEF O!ObserveLogs
<1> HIDE DEF new
<1>8. gaps' \in Nat /\ gaps <= gaps' BY <1>1, <1>7
<1>9. seen' \subseteq Entries BY <1>4, <1>5, <1>7
<1>10. /\ counted' \in [Entries -> Nat]
       /\ \A e \in Entries : counted'[e] = IF e \in new THEN counted[e] + 1 ELSE counted[e]
  BY <1>1, <1>7
<1>11. SessionType'
  <2>1. collections' \in Nat BY <1>1
  <2> QED BY <1>0, <1>8, <1>9, <1>10, <2>1 DEF SessionType
<1>12. SeenSince'
  <2>1. ASSUME NEW e \in Entries PROVE counted'[e] <= 1 + gaps'
    <3>1. counted[e] \in Nat /\ counted[e] <= 1 + gaps BY <1>1 DEF SeenSince
    <3>2. CASE e \in new
      <4>1. e \in O!Range(O!Newest(journal, Window)) \ seen BY <3>2, <1>5, <1>6
      <4>2. counted[e] <= gaps BY <4>1 DEF SeenSince
      <4> QED BY ONLY <3>1, <3>2, <4>2, <1>1, <1>8, <1>10, e \in Entries
    <3>3. CASE e \notin new
      BY ONLY <3>1, <3>3, <1>1, <1>8, <1>10, e \in Entries
    <3> QED BY <3>2, <3>3
  <2>2. ASSUME NEW e \in Entries \ O!Range(journal) PROVE counted'[e] = 0
    <3>1. counted[e] = 0 BY DEF SeenSince
    <3>2. e \notin new BY <1>4, <1>5, <1>6
    <3> QED BY <3>1, <3>2, <1>10
  <2>3. ASSUME NEW e \in O!Range(O!Newest(journal, Window)) \ seen' PROVE counted'[e] <= gaps'
    <3>1. silent /\ e \in Entries BY <1>4, <1>5, <1>7
    <3>2. e \notin new BY <3>1, <1>5, <1>6
    <3>3. counted[e] \in Nat /\ counted[e] <= 1 + gaps BY <1>1, <3>1 DEF SeenSince
    <3>4. gaps' = gaps + 1 /\ counted'[e] = counted[e] BY <3>1, <3>2, <1>7, <1>10
    <3> QED BY ONLY <3>3, <3>4, <1>1
  <2>4. O!Range(journal') = O!Range(journal) /\ O!Newest(journal', Window) = O!Newest(journal, Window)
    BY <1>0
  <2> QED BY <2>1, <2>2, <2>3, <2>4, <1>0 DEF SeenSince
<1> QED BY ONLY <1>2, <1>3, <1>11, <1>12 DEF SessionInv

\* One more sample: the history is still one of consecutive collections, up to this one.
LEMMA HistoryGrows ==
  ASSUME NEW h \in Seq(Nat), NEW c \in Nat, h = <<>> \/ RunsUpTo(h, c)
  PROVE  RunsUpTo(O!Newest(Append(h, c), Longest), c + 1)
<1>1. Longest \in Nat \ {0} BY ReadingsAssumption DEF O!SessionAssumption
<1>0. Append(h, c) \in Seq(Nat) BY ONLY h \in Seq(Nat), c \in Nat
<1>2. PICK t \in Seq(Nat) : t = Append(h, c) BY <1>0
<1>3. Len(h) \in Nat /\ Len(t) = Len(h) + 1 /\ t[Len(h) + 1] = c /\ \A i \in 1..Len(h) : t[i] = h[i]
  BY <1>2
<1> DEFINE g == O!Newest(t, Longest)
<1>9. g \in Seq(Nat) /\ \E m \in Nat : LastOf(g, t, Longest, m) BY <1>1, NewestOf
<1> HIDE DEF g
<1>10. PICK m \in Nat : LastOf(g, t, Longest, m) BY <1>9
<1>4. m <= Longest /\ m <= Len(t) /\ (m = Longest \/ m = Len(t)) BY ONLY <1>10 DEF LastOf
<1>5. /\ g \in Seq(Nat) /\ Len(g) = m
      /\ \A i \in 1..m : Len(t) - m + i \in 1..Len(t) /\ g[i] = t[Len(t) - m + i]
  BY ONLY <1>9, <1>10 DEF LastOf
<1>6. \A i \in 1..Len(t) : t[i] = c - (Len(t) - i)
  <2> SUFFICES ASSUME NEW i \in 1..Len(t) PROVE t[i] = c - (Len(t) - i) OBVIOUS
  <2>1. CASE i = Len(h) + 1 BY <2>1, <1>3
  <2>2. CASE i \in 1..Len(h)
    <3>1. t[i] = c - 1 - (Len(h) - i) BY <2>2, <1>3 DEF RunsUpTo
    <3> QED BY ONLY <3>1, <2>2, <1>3, c \in Nat
  <2> QED BY <2>1, <2>2, <1>3
<1>7. ASSUME NEW i \in 1..m PROVE g[i] = c + 1 - 1 - (m - i)
  <2>1. Len(t) - m + i \in 1..Len(t) /\ g[i] = t[Len(t) - m + i] BY <1>5
  <2>2. t[Len(t) - m + i] = c - (Len(t) - (Len(t) - m + i)) BY <2>1, <1>6
  <2>3. i \in Nat /\ Len(t) \in Nat OBVIOUS
  <2> QED BY ONLY <2>1, <2>2, <2>3, m \in Nat, c \in Nat
<1>8. m \in 1..Longest BY <1>1, <1>3, <1>4
<1>11. RunsUpTo(g, c + 1) BY ONLY <1>5, <1>7, <1>8 DEF RunsUpTo
<1> QED BY ONLY <1>2, <1>11 DEF g

LEMMA SamplesObserved ==
  ASSUME SessionInv, O!ObserveSamples, collections' = collections + 1, UNCHANGED watched
  PROVE  SessionInv'
<1> USE DEF SessionInv
<1>0. UNCHANGED <<actual, readable, events, baseline, latest, journal, silent, seen, counted, gaps>>
  BY DEF O!ObserveSamples, O!readings, O!logs
<1>1. collections \in Nat BY DEF SessionType
<1>2. SessionType' BY <1>0, <1>1 DEF SessionType
<1>3. CountedSince' BY <1>0, <1>1 DEF CountedSince
<1>4. SeenSince' BY <1>0 DEF SeenSince
<1>5. Consecutive'
  <2>1. watched = "samples" /\ watched' = "samples" BY DEF O!ObserveSamples
  <2> DEFINE H(n) == IF n \in DOMAIN histories THEN histories[n] ELSE <<>>
  <2>2. histories' = [n \in O!Present |-> O!Newest(Append(H(n), collections), Longest)]
    BY DEF O!ObserveSamples, O!Sample
  <2>3. ASSUME NEW n PROVE H(n) \in Seq(Nat) /\ (H(n) = <<>> \/ RunsUpTo(H(n), collections))
    <3>1. CASE n \in DOMAIN histories BY <3>1 DEF Consecutive, RunsUpTo
    <3>2. CASE n \notin DOMAIN histories BY <3>2
    <3> QED BY <3>1, <3>2
  <2> HIDE DEF H
  <2>4. ASSUME NEW n \in DOMAIN histories' PROVE RunsUpTo(histories'[n], collections')
    <3>1. histories'[n] = O!Newest(Append(H(n), collections), Longest) BY <2>2
    <3>2. RunsUpTo(O!Newest(Append(H(n), collections), Longest), collections + 1)
      BY <2>3, <1>1, HistoryGrows
    <3> QED BY <3>1, <3>2
  <2> QED BY <2>1, <2>4 DEF Consecutive
<1> QED BY ONLY <1>2, <1>3, <1>4, <1>5 DEF SessionInv

LEMMA SessionMoves == SessionInv /\ [O!Next]_sessionVars => SessionInv'
<1>1. ASSUME SessionInv, O!Next PROVE SessionInv'
  <2>1. CASE O!Observe
    BY <1>1, <2>1, CountersObserved, LogsObserved, SamplesObserved DEF O!Observe
  <2> QED BY <1>1, <2>1, ReadingsMove, JournalMoves DEF O!Next
<1>2. ASSUME SessionInv, UNCHANGED sessionVars PROVE SessionInv'
  BY <1>2 DEF sessionVars, SessionInv, SessionType, CountedSince, SeenSince, Consecutive
<1> QED BY <1>1, <1>2

LEMMA SessionHolds ==
  SessionInv => O!NeverMoreThanHappened /\ O!CountedOnce /\ O!HistoryWithoutGaps
<1> SUFFICES ASSUME SessionInv PROVE O!NeverMoreThanHappened /\ O!CountedOnce /\ O!HistoryWithoutGaps
  OBVIOUS
<1>1. O!NeverMoreThanHappened BY DEF SessionInv, CountedSince, O!NeverMoreThanHappened
<1>2. O!CountedOnce BY DEF SessionInv, SeenSince, O!CountedOnce
<1>3. O!HistoryWithoutGaps
  <2>1. ASSUME NEW n \in DOMAIN histories PROVE DOMAIN histories[n] = 1..Len(histories[n])
    BY DEF SessionInv, Consecutive, RunsUpTo
  <2> QED BY <2>1 DEF SessionInv, Consecutive, RunsUpTo, O!HistoryWithoutGaps
<1> QED BY <1>1, <1>2, <1>3

-----------------------------------------------------------------------------
(***************************************************************************)
(* Rates and charts worked out from successive readings of a counter.      *)
(***************************************************************************)

RateReadings == [value : Nat, life : Nat, at : Nat \cup {R!Never}, flow : Nat, ok : BOOLEAN]
RateColumns == [from : RateReadings, to : RateReadings, elapsed : Int, delta : Int]

RatesType ==
  /\ kind \in {"cockpit", "net", "disk", "container", "process"}
  /\ now \in Nat /\ counter \in Nat /\ life \in Nat /\ flow \in Nat
  /\ away \in BOOLEAN
  /\ pending \in SUBSET RateReadings /\ inventory \in SUBSET RateReadings
  /\ known \in RateReadings /\ previous \in RateReadings
  /\ last \in Nat \cup {R!Never} /\ gapAt \in Nat \cup {R!Never}

\* b was read after a: between them no more was counted than has flowed.
Since(a, b) ==
  a.at <= b.at /\ (a.ok /\ b.ok => a.flow <= b.flow /\ b.value + a.flow <= a.value + b.flow)

InOrder ==
  /\ counter <= flow
  /\ \A r \in pending \cup inventory \cup {known, previous} : Since(r, R!Reading)
  /\ \A r \in pending : Since(previous, r)

\* An interface is rated over any two readings that are around: of those the later one was
\* read after the earlier one.
InTime ==
  kind \in {"cockpit", "net"} =>
    \A a, b \in pending \cup inventory \cup {known, previous} : a.at < b.at => Since(a, b)

\* The others are taken over soon after they are read.
Sampled == {"disk", "container", "process"}
Fresh ==
  kind \in Sampled =>
    /\ ~away
    /\ \A r \in pending : now - r.at <= Slack
    /\ previous.ok => previous.at <= last /\ last - previous.at <= Slack

\* Nothing that is on its way or kept from before reaches back over a gap.
AfterTheGap ==
  /\ last <= now /\ gapAt <= now
  /\ kind \in {"disk", "container"} /\ pending # {} => last = R!Never \/ last < now
  /\ \A r \in pending : gapAt <= r.at
  /\ previous.ok => gapAt <= previous.at
  /\ kind \notin {"disk", "container"} => gapAt = R!Never

\* The network view begins with an inventory.
Networked ==
  /\ known.at = R!Never => ~known.ok
  /\ kind = "net" => /\ known.at # R!Never => last # R!Never
                     /\ pending # {} => known.at # R!Never
  /\ \A r \in pending \cup inventory : r.at # R!Never
  /\ kind = "process" => pending = {}
  /\ kind \notin {"cockpit", "net"} => inventory = {}

\* Where there is nothing to go on from the chart is empty.
Blank ==
  /\ kind \in {"cockpit", "net"} /\ ~previous.ok => chart = <<>>
  /\ kind \in {"cockpit", "net", "disk"} /\ last = R!Never => chart = <<>>

\* A column between two readings, taken over by the time l, the last gap being at g.
Honest(c, l, g, k) ==
  /\ 0 <= c.delta
  /\ (k \in {"cockpit", "net"} => c.from.at < c.to.at) => c.delta <= c.to.flow - c.from.flow
  /\ k \in Sampled => R!Measured(c)
  /\ c.to.at <= l /\ ~(c.from.at < g /\ g <= c.to.at)
  /\ k \in {"disk", "process"} => c.from.life = c.to.life

\* A chart whose last reading is r.
Charted(s, r, l, g, k) ==
  /\ s \in Seq(RateColumns)
  /\ \A i \in 1..Len(s) : s[i] = R!GapColumn \/ Honest(s[i], l, g, k)
  /\ \A i \in 1..Len(s) - 1 :
       s[i] # R!GapColumn /\ s[i + 1] # R!GapColumn => s[i].to = s[i + 1].from
  /\ s # <<>> /\ s[Len(s)] # R!GapColumn => s[Len(s)].to = r

Drawn == Charted(chart, previous, last, gapAt, kind)

RatesInv == RatesType /\ InOrder /\ InTime /\ Fresh /\ AfterTheGap /\ Networked /\ Blank /\ Drawn

LEMMA NoReadingType == R!NoReading \in RateReadings /\ R!GapColumn \in RateColumns
BY DEF R!NoReading, R!GapColumn, R!Never, RateReadings, RateColumns

LEMMA ReadingType == RatesType => R!Reading \in RateReadings
BY DEF RatesType, R!Reading, RateReadings

\* What is read now: the counter, or that it is missing.
LEMMA ReadNow ==
  ASSUME RatesType, NEW r \in R!Readings
  PROVE  /\ r \in RateReadings /\ r.at = now /\ Since(r, R!Reading)
         /\ \A a \in RateReadings : Since(a, R!Reading) => Since(a, r)
<1>1. R!Reading \in RateReadings /\ R!Reading.at = now
  BY ReadingType DEF R!Reading
<1>2. now \in Nat BY DEF RatesType
<1>3. CASE r = R!Reading
  <2>1. R!Reading.flow \in Int /\ R!Reading.value \in Int BY <1>1 DEF RateReadings
  <2> QED BY <1>1, <1>2, <1>3, <2>1 DEF Since
<1>4. CASE r # R!Reading
  <2>1. r = [R!NoReading EXCEPT !.at = now] BY <1>4 DEF R!Readings
  <2>2. r \in RateReadings /\ r.at = now /\ ~r.ok
    BY <2>1, <1>2 DEF R!NoReading, RateReadings
  <2> QED BY <2>2, <1>1, <1>2 DEF Since
<1> QED BY <1>3, <1>4

LEMMA EmptyCharted == ASSUME NEW r, NEW l, NEW g, NEW k PROVE Charted(<<>>, r, l, g, k)
BY DEF Charted

\* What Push returns: the chart with the column at its end, without its oldest column when
\* it was full.
LEMMA PushIs ==
  ASSUME NEW s \in Seq(RateColumns), NEW c \in RateColumns
  PROVE  /\ R!Push(s, c) \in Seq(RateColumns)
         /\ \E d \in {0, 1} :
              /\ Len(R!Push(s, c)) = Len(s) + 1 - d /\ d <= Len(s)
              /\ R!Push(s, c)[Len(s) + 1 - d] = c
              /\ \A i \in 1..Len(s) - d : R!Push(s, c)[i] = s[i + d]
<1>1. Len(s) \in Nat /\ ChartWidth \in Nat /\ ChartWidth > 1
  BY ReadingsAssumption DEF R!RatesAssumption
<1>2. CASE Len(s) = ChartWidth
  <2>1. s # <<>> BY <1>1, <1>2
  <2>2. /\ Tail(s) \in Seq(RateColumns) /\ Len(Tail(s)) = Len(s) - 1
        /\ \A i \in 1..Len(s) - 1 : Tail(s)[i] = s[i + 1]
    BY <2>1
  <2>3. PICK t \in Seq(RateColumns) : t = Tail(s) BY <2>2
  <2>4. R!Push(s, c) = Append(t, c) BY <1>2, <2>3 DEF R!Push
  <2>5. /\ Append(t, c) \in Seq(RateColumns) /\ Len(Append(t, c)) = Len(t) + 1
        /\ Append(t, c)[Len(t) + 1] = c /\ \A i \in 1..Len(t) : Append(t, c)[i] = t[i]
    OBVIOUS
  <2>6. Len(t) = Len(s) - 1 /\ 1 <= Len(s) BY <2>2, <2>3, <1>1, <1>2
  <2>7. /\ Len(Append(t, c)) = Len(s) + 1 - 1
        /\ Append(t, c)[Len(s) + 1 - 1] = c
        /\ \A i \in 1..Len(s) - 1 : Append(t, c)[i] = s[i + 1]
    BY <2>2, <2>3, <2>5, <2>6, <1>1
  <2> QED BY <2>4, <2>5, <2>6, <2>7
<1>3. CASE Len(s) # ChartWidth
  <2>1. R!Push(s, c) = Append(s, c) BY <1>3 DEF R!Push
  <2>2. /\ Append(s, c) \in Seq(RateColumns) /\ Len(Append(s, c)) = Len(s) + 1 - 0 /\ 0 <= Len(s)
        /\ Append(s, c)[Len(s) + 1 - 0] = c /\ \A i \in 1..Len(s) - 0 : Append(s, c)[i] = s[i + 0]
    BY <1>1
  <2> QED BY <2>1, <2>2
<1> QED BY <1>2, <1>3

\* An empty column, or one from the last reading to a later one, goes on with the chart.
LEMMA PushDraws ==
  ASSUME NEW s, NEW r \in RateReadings, NEW l \in Int, NEW g \in Int, NEW k, Charted(s, r, l, g, k),
         NEW c \in RateColumns, NEW to \in RateReadings, NEW at2 \in Int, l <= at2,
         c # R!GapColumn => Honest(c, at2, g, k) /\ c.from = r /\ c.to = to
  PROVE  Charted(R!Push(s, c), to, at2, g, k)
<1>1. s \in Seq(RateColumns) /\ Len(s) \in Nat BY DEF Charted
<1>2. PICK t : t = R!Push(s, c) OBVIOUS
<1>3. t \in Seq(RateColumns) BY <1>1, <1>2, PushIs
<1>4. PICK d \in {0, 1} :
        /\ Len(t) = Len(s) + 1 - d /\ d <= Len(s) /\ t[Len(s) + 1 - d] = c
        /\ \A i \in 1..Len(s) - d : t[i] = s[i + d]
  BY <1>1, <1>2, PushIs
<1>5. \A i \in 1..Len(s) : s[i] \in RateColumns /\ (s[i] = R!GapColumn \/ Honest(s[i], l, g, k))
  BY <1>1 DEF Charted
<1>6. ASSUME NEW x \in RateColumns, Honest(x, l, g, k) PROVE Honest(x, at2, g, k)
  <2>1. x.to.at \in Int BY DEF RateColumns, RateReadings, R!Never
  <2> QED BY <2>1, <1>6 DEF Honest
<1>7. ASSUME NEW i \in 1..Len(t) PROVE t[i] = R!GapColumn \/ Honest(t[i], at2, g, k)
  <2>1. CASE i = Len(t) BY <2>1, <1>4
  <2>2. CASE i # Len(t)
    <3>1. i \in 1..Len(s) - d /\ i + d \in 1..Len(s) BY <2>2, <1>1, <1>4
    <3> QED BY <3>1, <1>4, <1>5, <1>6
  <2> QED BY <2>1, <2>2
<1>8. ASSUME NEW i \in 1..Len(t) - 1, t[i] # R!GapColumn, t[i + 1] # R!GapColumn
      PROVE  t[i].to = t[i + 1].from
  <2>1. i \in 1..Len(s) - d /\ i + d \in 1..Len(s) /\ t[i] = s[i + d] BY <1>1, <1>4
  <2>2. CASE i = Len(s) - d
    <3>1. i + d = Len(s) /\ i + 1 = Len(s) + 1 - d /\ s # <<>> BY <2>1, <2>2, <1>1
    <3>2. t[i] = s[Len(s)] /\ t[i + 1] = c BY <2>1, <3>1, <1>4
    <3> QED BY <3>1, <3>2, <1>8 DEF Charted
  <2>3. CASE i # Len(s) - d
    <3>1. i + 1 \in 1..Len(s) - d /\ i + d \in 1..Len(s) - 1 /\ (i + 1) + d = (i + d) + 1
      BY <2>1, <2>3, <1>1
    <3>2. t[i + 1] = s[(i + d) + 1] BY <3>1, <1>4
    <3> QED BY <2>1, <3>1, <3>2, <1>8 DEF Charted
  <2> QED BY <2>2, <2>3
<1>9. t # <<>> /\ t[Len(t)] = c BY <1>4, <1>1
<1>10. Charted(t, to, at2, g, k) BY <1>3, <1>7, <1>8, <1>9 DEF Charted
<1> QED BY <1>2, <1>10

LEMMA RatesStart == R!Init => RatesInv
<1> SUFFICES ASSUME R!Init PROVE RatesInv OBVIOUS
<1> USE DEF R!Init
<1>1. /\ kind \in {"cockpit", "net", "disk", "container", "process"}
      /\ now = 0 /\ counter = 0 /\ life = 1 /\ flow = 0 /\ away = FALSE
      /\ pending = {} /\ inventory = {} /\ known = R!NoReading /\ previous = R!NoReading
      /\ last = R!Never /\ chart = <<>> /\ gapAt = R!Never
  OBVIOUS
<1>2. counter \in Nat /\ flow \in Nat BY ONLY <1>1
<1>3. R!NoReading \in RateReadings BY NoReadingType
<1>4. /\ R!NoReading.at = R!Never /\ R!NoReading.ok = FALSE /\ R!NoReading.flow = 0
      /\ R!NoReading.value = 0
  BY DEF R!NoReading
<1>5. R!Reading.at = 0 /\ R!Reading.flow = flow /\ R!Reading.value = counter
  BY <1>1 DEF R!Reading
<1>6. R!Never = -1 BY DEF R!Never
<1>7. RatesType BY ONLY <1>1, <1>2, <1>3, <1>6 DEF RatesType
<1>8. InOrder
  <2>1. Since(R!NoReading, R!Reading) BY ONLY <1>1, <1>2, <1>4, <1>5, <1>6 DEF Since
  <2> QED BY ONLY <2>1, <1>1, <1>2 DEF InOrder
<1>13. InTime BY ONLY <1>1, <1>4, <1>6 DEF InTime
<1>14. Fresh BY ONLY <1>1, <1>4 DEF Fresh
<1>9. AfterTheGap BY ONLY <1>1, <1>4, <1>6 DEF AfterTheGap
<1>10. Networked BY ONLY <1>1, <1>4 DEF Networked
<1>11. Blank BY ONLY <1>1 DEF Blank
<1>12. Drawn BY <1>1, EmptyCharted DEF Drawn
<1> QED BY ONLY <1>7, <1>8, <1>9, <1>10, <1>11, <1>12, <1>13, <1>14 DEF RatesInv

LEMMA LessBySteps ==
  \A a, b, c, d, e, f \in Int : a + d <= b + c /\ b + f <= e + d => a + f <= e + c
OBVIOUS

\* What is read now was read after all that was read before.
LEMMA SourceMoves ==
  ASSUME RatesInv, R!Tick \/ R!NewLife \/ R!GoAway \/ R!ComeBack
  PROVE  RatesInv'
<1> USE DEF RatesInv
<1>0. UNCHANGED <<kind, pending, inventory, known, previous, last, chart, gapAt>>
  BY DEF R!Tick, R!NewLife, R!GoAway, R!ComeBack, R!source
<1>1. /\ now \in Nat /\ counter \in Nat /\ flow \in Nat /\ life \in Nat /\ counter <= flow
      /\ MaxFlow \in Nat
      /\ last \in Int /\ gapAt \in Int /\ last <= now /\ gapAt <= now
  BY ReadingsAssumption DEF RatesType, InOrder, AfterTheGap, R!RatesAssumption, R!Never
<1>2. /\ now' \in Nat /\ now <= now' /\ flow' \in Nat /\ flow <= flow' /\ counter' \in Nat
      /\ counter' + flow <= counter + flow' /\ life' \in Nat 
  <2>1. CASE R!Tick
    <3>1. PICK f \in 0..MaxFlow : flow' = flow + f /\ counter' = counter + f
      BY <2>1 DEF R!Tick
    <3>2. now' = now + 1 /\ life' = life BY <2>1 DEF R!Tick
    <3> QED BY ONLY <3>1, <3>2, <1>1
  <2>2. CASE R!NewLife
    <3>1. counter' = 0 /\ life' = life + 1 /\ now' = now /\ flow' = flow
      BY <2>2 DEF R!NewLife
    <3> QED BY ONLY <3>1, <1>1
  <2>3. CASE R!GoAway \/ R!ComeBack
    <3>1. counter' = counter /\ life' = life /\ now' = now /\ flow' = flow
      BY <2>3 DEF R!GoAway, R!ComeBack, R!source
    <3> QED BY ONLY <3>1, <1>1
  <2> QED BY <2>1, <2>2, <2>3
<1>3. away' \in BOOLEAN /\ (kind \in Sampled => away' = FALSE)
  BY DEF R!Tick, R!NewLife, R!GoAway, R!ComeBack, R!source, RatesType, Fresh, Sampled
<1>4. RatesType' BY <1>0, <1>2, <1>3 DEF RatesType
<1>5. InOrder'
  <2>1. ASSUME NEW r \in RateReadings, Since(r, R!Reading) PROVE Since(r, R!Reading')
    <3>1. /\ r.at \in Int /\ r.flow \in Nat /\ r.value \in Nat
      BY DEF RateReadings, R!Never
    <3>2. /\ R!Reading.at = now /\ R!Reading.flow = flow /\ R!Reading.value = counter
          /\ R!Reading'.at = now' /\ R!Reading'.flow = flow' /\ R!Reading'.value = counter'
      BY DEF R!Reading
    <3>3. r.at <= now BY ONLY <3>2, <2>1 DEF Since
    <3>4. r.at <= now' BY ONLY <3>1, <3>3, <1>1, <1>2
    <3>5. ASSUME r.ok PROVE r.flow <= flow' /\ counter' + r.flow <= r.value + flow'
      <4>0. r.flow <= flow /\ counter + r.flow <= r.value + flow
        BY <3>2, <2>1, <3>5 DEF Since, R!Reading
      <4>1. counter' \in Int /\ counter \in Int /\ flow \in Int /\ flow' \in Int
            /\ r.value \in Int /\ r.flow \in Int
        BY ONLY <1>1, <1>2, <3>1
      <4>2. counter' + flow <= counter + flow' /\ counter + r.flow <= r.value + flow
        BY ONLY <1>2, <4>0
      <4>3. PICK a \in Int : a = counter' BY <4>1
      <4>4. PICK c \in Int : c = flow' BY <4>1
      <4>5. a + flow <= counter + c BY ONLY <4>2, <4>3, <4>4
      <4>6. a + r.flow <= r.value + c BY ONLY <4>1, <4>2, <4>5, a \in Int, c \in Int, LessBySteps
      <4>7. r.flow <= flow' BY ONLY <4>0, <4>1, <1>2
      <4> QED BY ONLY <4>3, <4>4, <4>6, <4>7
    <3> QED BY ONLY <3>2, <3>4, <3>5 DEF Since
  <2>2. \A r \in pending \cup inventory \cup {known, previous} : r \in RateReadings
    BY DEF RatesType
  <2>3. \A r \in pending \cup inventory \cup {known, previous} : Since(r, R!Reading')
    BY <2>1, <2>2 DEF InOrder
  <2>4. counter' <= flow'
    <3>1. counter' \in Int /\ counter \in Int /\ flow \in Int /\ flow' \in Int BY ONLY <1>1, <1>2
    <3>2. counter' + flow <= counter + flow' /\ counter <= flow BY ONLY <1>1, <1>2
    <3>3. PICK a \in Int : a = counter' BY <3>1
    <3>4. PICK c \in Int : c = flow' BY <3>1
    <3>5. a + flow <= counter + c BY ONLY <3>2, <3>3, <3>4
    <3>6. counter + 0 <= 0 + flow BY ONLY <3>1, <3>2
    <3>7. a + 0 <= 0 + c BY ONLY <3>1, <3>5, <3>6, 0 \in Int, a \in Int, c \in Int, LessBySteps
    <3>8. a <= c BY ONLY <3>7, a \in Int, c \in Int
    <3> QED BY ONLY <3>3, <3>4, <3>8
  <2>5. ASSUME NEW r PROVE Since(r, R!Reading)' <=> Since(r, R!Reading') BY DEF Since
  <2>6. \A r \in pending' \cup inventory' \cup {known', previous'} : Since(r, R!Reading')
    BY <1>0, <2>3
  <2>7. \A r \in pending' : Since(previous', r) BY <1>0 DEF InOrder
  <2> QED BY ONLY <2>4, <2>6, <2>7 DEF InOrder, Since
<1>6. AfterTheGap'
  <2>1. last' <= now' /\ gapAt' <= now' BY ONLY <1>0, <1>1, <1>2
  <2>2. kind' \in {"disk", "container"} /\ pending' # {} => last' = R!Never \/ last' < now'
    <3>1. last < now => last < now' BY ONLY <1>1, <1>2
    <3> QED BY <3>1, <1>0 DEF AfterTheGap
  <2> QED BY <1>0, <2>1, <2>2 DEF AfterTheGap
<1>7. Networked' BY <1>0 DEF Networked
<1>8. Blank' BY <1>0 DEF Blank
<1>9. Drawn' BY <1>0 DEF Drawn
<1>10. InTime' BY <1>0 DEF InTime, Since
<1>11. Fresh'
  <2>1. ASSUME NEW r \in pending, kind \in Sampled PROVE now' - r.at <= Slack
    <3>1. r.at \in Int /\ Slack \in Int
      BY ReadingsAssumption DEF RatesType, RateReadings, R!Never, R!RatesAssumption
    <3>2. now - r.at <= Slack /\ ~away BY <2>1 DEF Fresh
    <3>3. CASE R!Tick
      <4>1. now' = now + 1 /\ now - r.at < Slack BY <3>2, <3>3 DEF R!Tick
      <4> QED BY ONLY <4>1, <3>1, <1>1
    <3>4. CASE ~R!Tick
      <4>1. now' = now BY <3>4 DEF R!NewLife, R!GoAway, R!ComeBack, R!source
      <4> QED BY ONLY <4>1, <3>2
    <3> QED BY <3>3, <3>4
  <2> QED BY <2>1, <1>0, <1>3 DEF Fresh
<1> QED BY ONLY <1>4, <1>5, <1>6, <1>7, <1>8, <1>9, <1>10, <1>11 DEF RatesInv

LEMMA ReadingsTaken ==
  ASSUME RatesInv, R!TakeSample \/ R!CollectInventory PROVE RatesInv'
<1> USE DEF RatesInv
<1>0. UNCHANGED <<kind, now, counter, life, flow, known, previous, last, chart, away, gapAt>>
  BY DEF R!TakeSample, R!CollectInventory, R!source
<1>1. PICK r \in R!Readings :
      /\ pending' \in {pending, {r}} /\ inventory' \in {inventory, {r}}
      /\ pending' # pending => /\ kind # "process" /\ (last = R!Never \/ now - last >= 1)
                               /\ kind = "net" => known.at # R!Never
      /\ inventory' # inventory => kind \in {"cockpit", "net"}
  BY DEF R!TakeSample, R!CollectInventory, R!Elapsed
<1>2. /\ r \in RateReadings /\ r.at = now /\ Since(r, R!Reading)
      /\ \A a \in RateReadings : Since(a, R!Reading) => Since(a, r)
  BY ReadNow
<1>3. /\ now \in Nat /\ last \in Int /\ gapAt \in Int /\ gapAt <= now /\ R!Never = -1
  BY DEF RatesType, AfterTheGap, R!Never
<1>4. RatesType' BY <1>0, <1>1, <1>2 DEF RatesType
<1>5. InOrder'
  <2>1. R!Reading' = R!Reading BY <1>0 DEF R!Reading
  <2>3. \A a \in pending' \cup inventory' \cup {known, previous} : Since(a, R!Reading)
    BY <1>1, <1>2 DEF InOrder
  <2>4. \A a \in pending' : Since(previous, a) BY <1>1, <1>2 DEF InOrder, RatesType
  <2>5. \A a \in pending' \cup inventory' \cup {known', previous'} : Since(a, R!Reading')
    BY <2>3, <2>1, <1>0
  <2>6. counter' <= flow' BY <1>0 DEF InOrder
  <2> QED BY ONLY <2>4, <2>5, <2>6, <1>0 DEF InOrder, Since
<1>6. AfterTheGap'
  <2>1. \A a \in pending' : gapAt <= a.at BY <1>1, <1>2, <1>3 DEF AfterTheGap
  <2>2. kind \in {"disk", "container"} /\ pending' # {} => last = R!Never \/ last < now
    <3>1. now - last >= 1 => last < now BY ONLY <1>3
    <3> QED BY <3>1, <1>1 DEF AfterTheGap
  <2> QED BY <2>1, <2>2, <1>0 DEF AfterTheGap
<1>7. Networked'
  <2>2. \A a \in pending' \cup inventory' : a.at # R!Never BY <1>1, <1>2, <1>3 DEF Networked
  <2>3. kind = "net" /\ pending' # {} => known.at # R!Never BY <1>1 DEF Networked
  <2>4. kind = "process" => pending' = {}
    <3>1. kind = "process" => pending = {} BY DEF Networked
    <3> QED BY ONLY <3>1, <1>1
  <2>5. kind \notin {"cockpit", "net"} => inventory' = {} BY <1>1 DEF Networked
  <2> QED BY <2>2, <2>3, <2>4, <2>5, <1>0 DEF Networked
<1>8. Blank' BY <1>0 DEF Blank
<1>9. Drawn' BY <1>0 DEF Drawn
<1>10. InTime'
  <2>1. ASSUME NEW a \in pending \cup inventory \cup {known, previous} \cup {r},
               NEW b \in pending \cup inventory \cup {known, previous} \cup {r},
               kind \in {"cockpit", "net"}, a.at < b.at
        PROVE  Since(a, b)
    <3>1. a \in RateReadings /\ b \in RateReadings BY <1>2 DEF RatesType
    <3>2. a.at \in Int /\ b.at \in Int BY <3>1 DEF RateReadings, R!Never
    <3>3. b = r \/ b.at <= now
      <4>1. R!Reading.at = now BY DEF R!Reading
      <4> QED BY <4>1 DEF InOrder, Since
    <3>4. CASE a = r
      <4>1. now < b.at /\ b.at <= now BY <3>3, <3>4, <2>1, <1>2, <3>2
      <4> QED BY ONLY <4>1, <3>2, <1>3
    <3>5. CASE a # r /\ b = r BY <3>1, <3>5, <1>2 DEF InOrder
    <3>6. CASE a # r /\ b # r BY <3>6, <2>1 DEF InTime
    <3> QED BY <3>4, <3>5, <3>6
  <2>2. \A a, b \in pending' \cup inventory' \cup {known, previous} :
          kind \in {"cockpit", "net"} /\ a.at < b.at => Since(a, b)
    BY <2>1, <1>1
  <2> QED BY ONLY <2>2, <1>0 DEF InTime, Since
<1>11. Fresh'
  <2>1. Slack \in Nat /\ now - now <= Slack
    BY <1>3, ReadingsAssumption DEF R!RatesAssumption
  <2>2. \A a \in pending' : kind \in Sampled => now - a.at <= Slack
    BY <1>1, <1>2, <2>1 DEF Fresh
  <2> QED BY <2>2, <1>0 DEF Fresh
<1> QED BY ONLY <1>4, <1>5, <1>6, <1>7, <1>8, <1>9, <1>10, <1>11 DEF RatesInv

\* A column from the last reading to a later one of the same life shows no more than flowed.
LEMMA ColumnDraws ==
  ASSUME RatesInv, previous.ok, NEW to \in RateReadings, to.ok, to.at <= now,
         (kind \in {"cockpit", "net"} => previous.at < to.at) => Since(previous, to),
         kind \in {"disk", "process"} => previous.life = to.life,
         NEW c \in RateColumns, c.from = previous, c.to = to,
         0 <= c.delta, c.delta = to.value - previous.value \/ c.delta = 0,
         kind \in Sampled => R!Measured(c)
  PROVE  Charted(R!Push(chart, c), to, now, gapAt, kind)
<1>1. /\ previous \in RateReadings /\ gapAt <= previous.at
      /\ now \in Int /\ gapAt \in Int /\ last \in Int /\ last <= now
  BY DEF RatesInv, RatesType, AfterTheGap, R!Never
<1>2. /\ previous.value \in Int /\ previous.flow \in Int /\ previous.at \in Int
      /\ to.value \in Int /\ to.flow \in Int /\ to.at \in Int
  BY <1>1 DEF RateReadings, R!Never
<1>4. ASSUME Since(previous, to) PROVE c.delta <= to.flow - previous.flow
  <2>1. /\ previous.flow <= to.flow /\ to.value + previous.flow <= previous.value + to.flow
    BY <1>4 DEF Since
  <2> QED BY <1>2, <2>1
<1>5. ~(previous.at < gapAt) BY <1>1, <1>2
<1>6. Honest(c, now, gapAt, kind) BY <1>4, <1>5 DEF Honest
<1> QED BY <1>1, <1>6, PushDraws DEF RatesInv, Drawn

LEMMA GapDraws ==
  ASSUME RatesInv, NEW to \in RateReadings PROVE Charted(R!Push(chart, R!GapColumn), to, now, gapAt, kind)
<1>1. /\ previous \in RateReadings /\ now \in Int /\ gapAt \in Int /\ last \in Int /\ last <= now
  BY DEF RatesInv, RatesType, AfterTheGap, R!Never
<1> QED BY <1>1, NoReadingType, PushDraws DEF RatesInv, Drawn

\* A step that takes the sample that was on its way.
LEMMA SampleTaken ==
  ASSUME RatesInv, UNCHANGED <<kind, now, counter, life, flow, away>>,
         pending' = {}, inventory' \in {inventory, {}},
         known' \in RateReadings, Since(known', R!Reading), known'.at = R!Never => ~known'.ok,
         previous' \in RateReadings, Since(previous', R!Reading),
         last' \in Nat \cup {R!Never}, last' <= now, gapAt' \in Nat \cup {R!Never}, gapAt' <= now,
         previous'.ok => gapAt' <= previous'.at,
         kind \notin {"disk", "container"} => gapAt' = R!Never,
         kind = "net" /\ known'.at # R!Never => last' # R!Never,
         kind \in Sampled /\ previous'.ok => previous'.at <= last' /\ last' - previous'.at <= Slack,
         kind \in {"cockpit", "net"} =>
           \A a, b \in inventory' \cup {known', previous'} : a.at < b.at => Since(a, b),
         Blank', Drawn'
  PROVE  RatesInv'
<1> USE DEF RatesInv
<1>1. RatesType' BY DEF RatesType
<1>2. InOrder'
  <2>1. R!Reading' = R!Reading BY DEF R!Reading
  <2>2. \A r \in inventory' : Since(r, R!Reading) BY DEF InOrder
  <2>3. \A r \in pending' \cup inventory' \cup {known', previous'} : Since(r, R!Reading')
    BY <2>1, <2>2
  <2>4. counter' <= flow' BY DEF InOrder
  <2> QED BY ONLY <2>3, <2>4, pending' = {} DEF InOrder, Since
<1>3. AfterTheGap' BY DEF AfterTheGap
<1>4. Networked' BY DEF Networked
<1>5. InTime' BY DEF InTime, Since
<1>6. Fresh' BY DEF Fresh
<1> QED BY <1>1, <1>2, <1>3, <1>4, <1>5, <1>6

LEMMA NetworkObserved ==
  ASSUME RatesInv, kind \in {"cockpit", "net"}, NEW to \in RateReadings, to.at <= now,
         previous.at < to.at => Since(previous, to), R!NetworkObserve(to)
  PROVE  /\ previous' \in {previous, to} /\ last' \in {last, now} /\ last' # R!Never
         /\ ~previous'.ok => chart' = <<>>
         /\ Charted(chart', previous', last', gapAt, kind)
<1>1. now \in Nat /\ last \in Int /\ now # R!Never BY DEF RatesInv, RatesType, R!Never
<1>2. CASE last = R!Never
  <2>1. previous' = to /\ last' = now /\ chart' = chart BY <1>2 DEF R!NetworkObserve
  <2>2. chart = <<>> BY <1>2 DEF RatesInv, Blank
  <2> QED BY <1>1, <2>1, <2>2, EmptyCharted
<1>3. CASE last # R!Never /\ R!Elapsed < 1
  <2>1. previous' = previous /\ last' = last /\ chart' = chart BY <1>3 DEF R!NetworkObserve
  <2> QED BY <1>3, <2>1 DEF RatesInv, Blank, Drawn
<1>4. CASE last # R!Never /\ ~(R!Elapsed < 1)
  <2>1. previous' = to /\ last' = now /\ chart' = R!NetworkRate(to) BY <1>4 DEF R!NetworkObserve
  <2>2. ~previous.ok => chart = <<>> BY DEF RatesInv, Blank
  <2>3. CASE chart' = <<>> BY <2>1, <2>3, <1>1, EmptyCharted
  <2>4. CASE chart' # <<>>
    <3>1. /\ to.ok /\ previous.ok /\ ~(to.value < previous.value)
          /\ chart' = R!Push(chart, R!Column(previous, to, R!Elapsed))
      BY <2>1, <2>2, <2>4 DEF R!NetworkRate
    <3> DEFINE c == R!Column(previous, to, R!Elapsed)
    <3>2. previous \in RateReadings /\ to.value \in Nat /\ previous.value \in Nat /\ R!Elapsed \in Int
      BY <1>1 DEF RatesInv, RatesType, RateReadings, R!Elapsed
    <3>3. c \in RateColumns /\ c.from = previous /\ c.to = to /\ c.delta = to.value - previous.value
      BY <3>2 DEF R!Column, RateColumns
    <3>4. 0 <= c.delta BY ONLY <3>1, <3>2, <3>3
    <3> HIDE DEF c
    <3>5. Charted(R!Push(chart, c), to, now, gapAt, kind)
      BY <3>1, <3>3, <3>4, ColumnDraws DEF Sampled
    <3> QED BY <2>1, <3>1, <3>5, <1>1 DEF c
  <2> QED BY <2>3, <2>4
<1> QED BY <1>2, <1>3, <1>4

LEMMA NetworkMoves == ASSUME RatesInv, R!ObserveNetwork \/ R!ShowInventory \/ R!StartOver PROVE RatesInv'
<1>0. /\ now \in Nat /\ last \in Nat \cup {R!Never} /\ last <= now
      /\ known \in RateReadings /\ previous \in RateReadings
      /\ gapAt \in Nat \cup {R!Never} /\ gapAt <= now
      /\ previous.ok => gapAt <= previous.at
      /\ kind \notin {"disk", "container"} => gapAt = R!Never
      /\ Since(known, R!Reading) /\ Since(previous, R!Reading)
  BY DEF RatesInv, RatesType, AfterTheGap, InOrder
<1>n. R!Never = -1 BY DEF R!Never
<1>r. R!Reading.at = now BY DEF R!Reading
<1>1. CASE R!ObserveNetwork
  <2>1. PICK sample \in pending :
          /\ kind \in {"cockpit", "net"} /\ known' = R!Overlaid(sample)
          /\ R!NetworkObserve(R!Overlaid(sample)) /\ pending' = {}
          /\ UNCHANGED <<kind, now, counter, life, flow, inventory, away, gapAt>>
    BY <1>1 DEF R!ObserveNetwork, R!source
  <2>2. PICK to : to = R!Overlaid(sample) OBVIOUS
  <2>3. sample \in RateReadings /\ Since(sample, R!Reading) /\ sample.at # R!Never
    BY <2>1 DEF RatesInv, RatesType, Networked, InOrder
  <2>4. to = sample \/ to = known BY <2>2 DEF R!Overlaid
  <2>16. \A a, b \in pending \cup inventory \cup {known, previous} : a.at < b.at => Since(a, b)
    BY <2>1 DEF RatesInv, InTime
  <2>5. to \in RateReadings /\ Since(to, R!Reading) /\ (previous.at < to.at => Since(previous, to))
    BY <2>1, <2>3, <2>4, <2>16, <1>0
  <2>6. to.at <= now BY <2>5, <1>r DEF Since
  <2>7. /\ previous' \in {previous, to} /\ last' \in {last, now} /\ last' # R!Never
        /\ ~previous'.ok => chart' = <<>>
        /\ Charted(chart', previous', last', gapAt, kind)
    BY <2>1, <2>2, <2>5, <2>6, NetworkObserved
  <2>8. gapAt = R!Never /\ gapAt' = R!Never /\ kind' = kind /\ kind \in {"cockpit", "net"} BY <1>0, <2>1
  <2>9. to.at = R!Never => ~to.ok BY <2>3, <2>4 DEF RatesInv, Networked
  <2>17. \A a, b \in inventory' \cup {known', previous'} : a.at < b.at => Since(a, b)
    BY <2>1, <2>2, <2>4, <2>7, <2>16
  <2>10. previous' \in RateReadings /\ Since(previous', R!Reading) /\ known' = to
    BY <2>1, <2>2, <2>5, <2>7, <1>0
  <2>11. last' \in Nat \cup {R!Never} /\ last' <= now
    BY ONLY <2>7, <1>0, <1>n
  <2>12. Blank' BY <2>7, <2>8 DEF Blank
  <2>13. Drawn' BY <2>7, <2>8 DEF Drawn
  <2>14. previous'.ok => gapAt' <= previous'.at
    BY <2>8, <2>10, <1>n DEF RateReadings
  <2>15. inventory' \in {inventory, {}} BY <2>1
  <2> QED
    BY <2>1, <2>5, <2>7, <2>8, <2>9, <2>10, <2>11, <2>12, <2>13, <2>14, <2>15, <2>17, <1>0,
       SampleTaken DEF Sampled
<1>2. CASE R!ShowInventory
  <2>1. PICK i \in inventory :
          /\ known' = i /\ inventory' = {}
          /\ IF kind = "net" /\ last = R!Never THEN R!NetworkObserve(i)
             ELSE UNCHANGED <<previous, last, chart>>
          /\ UNCHANGED <<kind, now, counter, life, flow, pending, away, gapAt>>
    BY <1>2 DEF R!ShowInventory, R!source
  <2>2. i \in RateReadings /\ Since(i, R!Reading) /\ i.at # R!Never
    BY <2>1 DEF RatesInv, RatesType, InOrder, Networked
  <2>3. RatesType'
    <3>1. CASE kind = "net" /\ last = R!Never
      <4>1. previous' = i /\ last' = now BY <2>1, <3>1 DEF R!NetworkObserve
      <4> QED BY <4>1, <2>1, <2>2 DEF RatesInv, RatesType
    <3>2. CASE ~(kind = "net" /\ last = R!Never)
      BY <3>2, <2>1, <2>2 DEF RatesInv, RatesType
    <3> QED BY <3>1, <3>2
  <2>6. kind \in {"cockpit", "net"}
    BY <2>1 DEF RatesInv, Networked
  <2>7. Fresh' BY <2>6, <2>1 DEF Fresh, Sampled
  <2>8. InTime'
    <3>1. previous' \in {previous, i} BY <2>1 DEF R!NetworkObserve
    <3>2. pending' \cup inventory' \cup {known', previous'}
            \subseteq pending \cup inventory \cup {known, previous}
      BY <3>1, <2>1
    <3>3. \A a, b \in pending \cup inventory \cup {known, previous} : a.at < b.at => Since(a, b)
      BY <2>6 DEF RatesInv, InTime
    <3> QED BY ONLY <3>2, <3>3 DEF InTime, Since
  <2>4. CASE kind = "net" /\ last = R!Never
    <3>1. previous' = i /\ last' = now /\ chart' = chart /\ chart = <<>> /\ pending = {}
      BY <2>1, <2>4 DEF R!NetworkObserve, RatesInv, Blank, Networked
    <3>2. gapAt = R!Never /\ i.at \in Int /\ now # R!Never BY <2>2, <2>4, <1>0, <1>n DEF RateReadings
    <3>3. InOrder'
      <4>1. R!Reading' = R!Reading BY <2>1 DEF R!Reading
      <4>2. counter' <= flow' BY <2>1 DEF RatesInv, InOrder
      <4> QED BY ONLY <2>1, <2>2, <3>1, <4>1, <4>2 DEF InOrder, Since
    <3>4. AfterTheGap'
      <4>1. gapAt <= i.at BY <3>2, <2>2, <1>n DEF RateReadings
      <4> QED BY <2>1, <2>4, <3>1, <3>2, <4>1, <1>0 DEF AfterTheGap
    <3>5. Networked' BY <2>1, <2>2, <3>1, <3>2, <2>4 DEF RatesInv, Networked
    <3>6. Blank' /\ Drawn' BY <3>1, EmptyCharted DEF Blank, Drawn
    <3> QED BY <2>3, <2>7, <2>8, <3>3, <3>4, <3>5, <3>6 DEF RatesInv
  <2>5. CASE ~(kind = "net" /\ last = R!Never)
    <3>1. previous' = previous /\ last' = last /\ chart' = chart BY <2>1, <2>5
    <3>3. InOrder'
      <4>1. R!Reading' = R!Reading BY <2>1 DEF R!Reading
      <4>2. counter' <= flow' BY <2>1 DEF RatesInv, InOrder
      <4>3. \A r \in pending : Since(r, R!Reading) /\ Since(previous, r) BY DEF RatesInv, InOrder
      <4> QED BY ONLY <2>1, <2>2, <3>1, <4>1, <4>2, <4>3, <1>0 DEF InOrder, Since
    <3>4. AfterTheGap' BY <2>1, <3>1 DEF RatesInv, AfterTheGap
    <3>5. Networked' BY <2>1, <2>2, <2>5, <3>1 DEF RatesInv, Networked
    <3>6. Blank' /\ Drawn' BY <2>1, <3>1 DEF RatesInv, Blank, Drawn
    <3> QED BY <2>3, <2>7, <2>8, <3>3, <3>4, <3>5, <3>6 DEF RatesInv
  <2> QED BY <2>4, <2>5
<1>3. CASE R!StartOver
  <2>1. /\ kind = "net" /\ known' = R!NoReading /\ previous' = R!NoReading /\ last' = R!Never
        /\ chart' = <<>> /\ pending' = {} /\ inventory' = {}
        /\ UNCHANGED <<kind, now, counter, life, flow, away, gapAt>>
    BY <1>3 DEF R!StartOver, R!source
  <2>2. R!NoReading \in RateReadings /\ R!NoReading.at = -1 /\ ~R!NoReading.ok
        /\ R!NoReading.flow = 0 /\ R!NoReading.value = 0
    BY NoReadingType DEF R!NoReading, R!Never
  <2>3. Since(R!NoReading, R!Reading)
    <3>1. R!Reading.flow = flow /\ R!Reading.value = counter BY DEF R!Reading
    <3>2. counter <= flow /\ counter \in Nat /\ flow \in Nat BY DEF RatesInv, InOrder, RatesType
    <3> QED BY ONLY <3>1, <3>2, <2>2, <1>0, <1>r DEF Since
  <2>4. Blank' /\ Drawn' BY <2>1, EmptyCharted DEF Blank, Drawn
  <2>5. last' <= now BY ONLY <2>1, <1>0, <1>n
  <2>6. \A a, b \in inventory' \cup {known', previous'} : ~(a.at < b.at) BY <2>1, <2>2
  <2> QED BY <2>1, <2>2, <2>3, <2>4, <2>5, <2>6, <1>0, <1>n, SampleTaken DEF Sampled
<1> QED BY <1>1, <1>2, <1>3

LEMMA SampledMoves ==
  ASSUME RatesInv, R!ObserveDisk \/ R!ObserveContainer \/ R!DeclareGap PROVE RatesInv'
<1>0. /\ now \in Nat /\ last \in Nat \cup {R!Never} /\ last <= now
      /\ known \in RateReadings /\ previous \in RateReadings
      /\ known.at = R!Never => ~known.ok
      /\ gapAt \in Nat \cup {R!Never} /\ gapAt <= now
      /\ previous.ok => gapAt <= previous.at
      /\ Since(known, R!Reading) /\ Since(previous, R!Reading)
  BY DEF RatesInv, RatesType, AfterTheGap, InOrder, Networked
<1>n. R!Never = -1 BY DEF R!Never
<1>p. PICK sample \in pending :
        /\ kind \in {"disk", "container"} /\ pending' = {}
        /\ UNCHANGED <<kind, now, counter, life, flow, inventory, known, away>>
        /\ \/ /\ kind = "disk" /\ chart' = R!DiskRate(sample) /\ previous' = sample
              /\ last' = now /\ gapAt' = gapAt
           \/ /\ kind = "container" /\ chart' = R!Push(chart, R!ContainerColumn(sample))
              /\ previous' = (IF sample.ok THEN sample ELSE R!NoReading)
              /\ last' = now /\ gapAt' = gapAt
           \/ /\ previous' = R!NoReading /\ gapAt' = now
              /\ last' = (IF kind = "disk" THEN R!Never ELSE last)
              /\ chart' = (IF kind = "disk" THEN <<>> ELSE R!Push(chart, R!GapColumn))
  BY DEF R!ObserveDisk, R!ObserveContainer, R!DeclareGap, R!source
<1>s. /\ sample \in RateReadings /\ Since(sample, R!Reading) /\ Since(previous, sample)
      /\ gapAt <= sample.at /\ (last = R!Never \/ last < now)
  BY <1>p DEF RatesInv, RatesType, InOrder, AfterTheGap
<1>r. R!Reading.at = now /\ R!Reading.flow = flow /\ R!Reading.value = counter BY DEF R!Reading
<1>t. sample.at <= now BY <1>s, <1>r DEF Since
<1>f. kind \in Sampled /\ Slack \in Nat /\ now - sample.at <= Slack
      /\ (previous.ok => previous.at <= last /\ last - previous.at <= Slack)
  BY <1>p, ReadingsAssumption DEF RatesInv, Fresh, Sampled, R!RatesAssumption
<1>z. /\ R!NoReading \in RateReadings /\ ~R!NoReading.ok /\ Since(R!NoReading, R!Reading)
  <2>1. R!NoReading \in RateReadings /\ R!NoReading.at = -1 /\ ~R!NoReading.ok
        /\ R!NoReading.flow = 0 /\ R!NoReading.value = 0
    BY NoReadingType DEF R!NoReading, R!Never
  <2>2. counter <= flow /\ counter \in Nat /\ flow \in Nat BY DEF RatesInv, InOrder, RatesType
  <2> QED BY ONLY <2>1, <2>2, <1>0, <1>r DEF Since
<1>e. R!Elapsed = now - last /\ R!Elapsed \in Int BY <1>0, <1>n DEF R!Elapsed
\* The column of two readings.
<1>c. ASSUME previous.ok, sample.ok, sample.value >= previous.value, kind = "disk" => previous.life = sample.life
      PROVE  Charted(R!Push(chart, R!Column(previous, sample, R!Elapsed)), sample, now, gapAt, kind)
  <2> DEFINE c == R!Column(previous, sample, R!Elapsed)
  <2>1. sample.value \in Nat /\ previous.value \in Nat BY <1>0, <1>s DEF RateReadings
  <2>2. c \in RateColumns /\ c.from = previous /\ c.to = sample
        /\ c.delta = sample.value - previous.value /\ c.elapsed = now - last
    BY <2>1, <1>0, <1>s, <1>e DEF R!Column, RateColumns
  <2>3. 0 <= c.delta BY ONLY <2>1, <2>2, <1>c
  <2> HIDE DEF c
  <2>5. R!Measured(c)
    <3>1. previous.at \in Int /\ sample.at \in Int BY <1>0, <1>s, <1>n DEF RateReadings
    <3> QED BY <3>1, <2>2, <1>0, <1>n, <1>f, <1>t, <1>c DEF R!Measured
  <2>4. Charted(R!Push(chart, c), sample, now, gapAt, kind)
    BY <2>2, <2>3, <2>5, <1>c, <1>p, <1>s, <1>t, ColumnDraws
  <2> QED BY <2>4 DEF c
<1>1. CASE /\ kind = "disk" /\ chart' = R!DiskRate(sample) /\ previous' = sample
           /\ last' = now /\ gapAt' = gapAt
  <2>1. Charted(chart', sample, now, gapAt, kind)
    <3>1. CASE chart' = <<>> BY <3>1, EmptyCharted
    <3>2. CASE chart' # <<>> /\ last # R!Never
      <4>1. R!Elapsed # 0 BY <1>s, <1>e, <1>0, <3>2
      <4>2. /\ sample.ok /\ previous.ok /\ previous.life = sample.life /\ ~(sample.value < previous.value)
            /\ chart' = R!Push(chart, R!Column(previous, sample, R!Elapsed))
        BY <1>1, <3>2, <4>1 DEF R!DiskRate
      <4>3. sample.value >= previous.value BY <4>2, <1>0, <1>s DEF RateReadings
      <4> QED BY <4>2, <4>3, <1>c
    <3>3. CASE chart' # <<>> /\ last = R!Never
      <4>1. chart' = chart BY <1>1, <3>3 DEF R!DiskRate
      <4>2. chart = <<>> BY <1>1, <3>3 DEF RatesInv, Blank
      <4> QED BY <3>3, <4>1, <4>2
    <3> QED BY <3>1, <3>2, <3>3
  <2>2. Drawn' BY <2>1, <1>1, <1>p DEF Drawn
  <2>3. Blank' BY <1>1, <1>p, <1>0, <1>n DEF Blank
  <2> QED BY <2>2, <2>3, <1>1, <1>0, <1>p, <1>s, <1>t, <1>f, SampleTaken
<1>2. CASE /\ kind = "container" /\ chart' = R!Push(chart, R!ContainerColumn(sample))
           /\ previous' = (IF sample.ok THEN sample ELSE R!NoReading)
           /\ last' = now /\ gapAt' = gapAt
  <2>1. Charted(chart', previous', now, gapAt, kind)
    <3>1. CASE R!ContainerColumn(sample) = R!GapColumn
      <4>1. previous' \in RateReadings BY <1>2, <1>s, <1>z
      <4>2. PICK r \in RateReadings : r = previous' BY <4>1
      <4>3. Charted(R!Push(chart, R!GapColumn), r, now, gapAt, kind) BY GapDraws
      <4> QED BY <3>1, <4>2, <4>3, <1>2
    <3>2. CASE R!ContainerColumn(sample) # R!GapColumn
      <4>1. /\ sample.ok /\ previous.ok /\ sample.value >= previous.value
            /\ R!ContainerColumn(sample) = R!Column(previous, sample, R!Elapsed)
        BY <3>2 DEF R!ContainerColumn
      <4> QED BY <4>1, <1>2, <1>c
    <3> QED BY <3>1, <3>2
  <2>2. Drawn' BY <2>1, <1>2, <1>p DEF Drawn
  <2>3. Blank' BY <1>2, <1>p DEF Blank
  <2>4. previous' \in RateReadings /\ Since(previous', R!Reading) /\ (previous'.ok => gapAt <= previous'.at)
    BY <1>2, <1>s, <1>z
  <2>5. previous'.ok => previous'.at <= last' /\ last' - previous'.at <= Slack
    BY <1>2, <1>t, <1>f, <1>z
  <2> QED BY <2>2, <2>3, <2>4, <2>5, <1>2, <1>0, <1>p, <1>f, SampleTaken
<1>3. CASE /\ previous' = R!NoReading /\ gapAt' = now
           /\ last' = (IF kind = "disk" THEN R!Never ELSE last)
           /\ chart' = (IF kind = "disk" THEN <<>> ELSE R!Push(chart, R!GapColumn))
  <2>1. Drawn'
    <3>1. CASE kind = "disk" BY <3>1, <1>3, EmptyCharted DEF Drawn
    <3>2. CASE kind # "disk"
      <4>1. chart' = R!Push(chart, R!GapColumn) /\ last' = last BY <3>2, <1>3
      \* What was drawn was over before the gap.
      <4>2. Charted(chart, previous, last, now, kind)
        <5>1. ASSUME NEW i \in 1..Len(chart), Honest(chart[i], last, gapAt, kind)
              PROVE  Honest(chart[i], last, now, kind)
          <6>1. chart[i] \in RateColumns BY DEF RatesInv, Drawn, Charted
          <6>2. chart[i].to.at \in Nat \cup {-1} BY <6>1, <1>n DEF RateColumns, RateReadings
          <6>3. chart[i].to.at <= last BY <5>1 DEF Honest
          <6>4. ~(now <= chart[i].to.at)
            <7>1. CASE last < now BY ONLY <7>1, <6>2, <6>3, <1>0, <1>n
            <7>2. CASE last = R!Never BY ONLY <7>2, <6>2, <6>3, <1>0, <1>n
            <7> QED BY <7>1, <7>2, <1>s
          <6> QED BY <5>1, <6>4 DEF Honest
        <5> QED BY <5>1 DEF RatesInv, Drawn, Charted
      <4>3. last \in Int /\ now \in Int /\ last <= last BY <1>0, <1>n
      <4>4. Charted(R!Push(chart, R!GapColumn), R!NoReading, last, now, kind)
        BY <4>2, <4>3, <1>0, <1>z, NoReadingType, PushDraws
      <4> QED BY <4>1, <4>4, <1>3, <1>p DEF Drawn
    <3> QED BY <3>1, <3>2
  <2>2. Blank' BY <1>3, <1>p DEF Blank
  <2>3. last' \in Nat \cup {R!Never} /\ last' <= now /\ gapAt' \in Nat \cup {R!Never} /\ gapAt' <= now
    BY ONLY <1>3, <1>0, <1>n
  <2> QED BY <2>1, <2>2, <2>3, <1>3, <1>0, <1>p, <1>z, <1>f, SampleTaken
<1> QED BY <1>p, <1>1, <1>2, <1>3

LEMMA ProcessMoves == ASSUME RatesInv, R!ObserveProcess PROVE RatesInv'
<1>0. /\ now \in Nat /\ last \in Nat \cup {R!Never} /\ last <= now
      /\ known \in RateReadings /\ previous \in RateReadings
      /\ known.at = R!Never => ~known.ok
      /\ gapAt \in Nat \cup {R!Never} /\ gapAt <= now
      /\ Since(known, R!Reading) /\ Since(previous, R!Reading)
  BY DEF RatesInv, RatesType, AfterTheGap, InOrder, Networked
<1>n. R!Never = -1 BY DEF R!Never
<1>p. PICK to \in R!Readings :
      /\ kind = "process" /\ chart' = R!ProcessChart(to) /\ previous' = to
      /\ last' = now /\ pending' = pending
      /\ UNCHANGED <<kind, now, counter, life, flow, inventory, known, away, gapAt>>
  BY DEF R!ObserveProcess, R!source
<1>q. pending' = {} /\ gapAt = R!Never BY <1>p DEF RatesInv, Networked, AfterTheGap
<1>r. /\ to \in RateReadings /\ Since(to, R!Reading)
      /\ \A a \in RateReadings : Since(a, R!Reading) => Since(a, to)
  BY ReadNow DEF RatesInv
<1>s. to.at = now BY ReadNow DEF RatesInv
<1>f. /\ Slack \in Nat /\ kind \in Sampled
      /\ previous.ok => previous.at <= last /\ last - previous.at <= Slack
  BY <1>p, ReadingsAssumption DEF RatesInv, Fresh, Sampled, R!RatesAssumption
<1>t. Since(previous, to) BY <1>r, <1>0
<1>e. R!Elapsed = now - last /\ R!Elapsed \in Int BY <1>0, <1>n DEF R!Elapsed
<1>1. Charted(chart', to, now, gapAt, kind)
  <2>1. CASE chart' = <<>> BY <2>1, EmptyCharted
  <2>2. CASE chart' = <<R!GapColumn>>
    <3>1. R!GapColumn \in RateColumns BY NoReadingType
    <3> QED BY <2>2, <3>1 DEF Charted
  <2>3. CASE chart' # <<>> /\ chart' # <<R!GapColumn>>
    <3>1. /\ to.ok /\ previous.ok /\ previous.life = to.life
          /\ chart' = R!Push(chart, R!ProcessColumn(to))
      BY <2>3, <1>p DEF R!ProcessChart
    <3> DEFINE c == R!ProcessColumn(to)
               d == R!Column(previous, to, R!Elapsed)
    <3>2. to.value \in Nat /\ previous.value \in Nat BY <1>0, <1>r DEF RateReadings
    <3>3. /\ d \in RateColumns /\ d.from = previous /\ d.to = to
          /\ d.delta = to.value - previous.value /\ d.elapsed = now - last
      BY <3>2, <1>0, <1>e, <1>r DEF R!Column, RateColumns
    <3>4. c = [d EXCEPT !.delta = IF @ < 0 THEN 0 ELSE @] BY DEF R!ProcessColumn
    <3> HIDE DEF c, d
    <3>5. /\ c \in RateColumns /\ c.from = previous /\ c.to = to
          /\ c.delta = (IF d.delta < 0 THEN 0 ELSE d.delta) /\ c.elapsed = now - last
      BY <3>3, <3>4 DEF RateColumns
    <3>6. 0 <= c.delta /\ (c.delta = to.value - previous.value \/ c.delta = 0)
      BY ONLY <3>2, <3>3, <3>5
    <3>7. to.at <= now BY <1>s, <1>0
    <3>9. R!Measured(c)
      <4>1. previous.at \in Int BY <1>0, <1>n DEF RateReadings
      <4> QED BY <4>1, <3>1, <3>5, <1>0, <1>n, <1>f, <1>s DEF R!Measured
    <3>8. Charted(R!Push(chart, c), to, now, gapAt, kind)
      BY <3>1, <3>5, <3>6, <3>7, <3>9, <1>r, <1>t, ColumnDraws
    <3> QED BY <3>1, <3>8 DEF c
  <2> QED BY <2>1, <2>2, <2>3
<1>2. Drawn' BY <1>1, <1>p, <1>r DEF Drawn
<1>3. Blank' BY <1>p DEF Blank
<1>4. previous' = to /\ previous' \in RateReadings /\ Since(previous', R!Reading) BY <1>p, <1>r, <1>t
<1>5. previous'.ok => gapAt' <= previous'.at BY <1>0, <1>p, <1>q, <1>s, <1>4, <1>n
<1>6. last' \in Nat \cup {R!Never} /\ last' <= now BY <1>p, <1>0
<1>7. gapAt' \in Nat \cup {R!Never} /\ gapAt' <= now /\ gapAt' = R!Never /\ inventory' \in {inventory, {}}
  BY <1>0, <1>p, <1>q
<1>8. UNCHANGED <<kind, now, counter, life, flow, away>> /\ known' = known BY <1>p
<1>9. kind \notin {"cockpit", "net"} BY <1>p
<1>10. previous'.at <= last' /\ last' - previous'.at <= Slack BY <1>0, <1>f, <1>p, <1>s, <1>4
<1> QED BY <1>0, <1>2, <1>3, <1>4, <1>5, <1>6, <1>7, <1>8, <1>9, <1>10, <1>q, SampleTaken

LEMMA RatesMoves == RatesInv /\ [R!Next]_ratesVars => RatesInv'
<1>1. ASSUME RatesInv, R!Next PROVE RatesInv'
  BY <1>1, SourceMoves, ReadingsTaken, NetworkMoves, SampledMoves, ProcessMoves DEF R!Next
<1>2. ASSUME RatesInv, UNCHANGED ratesVars PROVE RatesInv'
  BY <1>2 DEF ratesVars, RatesInv, RatesType, InOrder, InTime, Fresh, Since, R!Reading, AfterTheGap,
              Networked, Blank, Drawn
<1> QED BY <1>1, <1>2

LEMMA RatesHold ==
  RatesInv => /\ R!NeverOverstated /\ R!NoBridge /\ R!OneLife
              /\ R!GapIsNotBridged /\ R!SampledElapsed
<1> SUFFICES ASSUME RatesInv
             PROVE  /\ R!NeverOverstated /\ R!NoBridge /\ R!OneLife
                    /\ R!GapIsNotBridged /\ R!SampledElapsed
  OBVIOUS
<1>1. ASSUME NEW c \in R!Rated PROVE Honest(c, last, gapAt, kind)
  BY DEF R!Rated, RatesInv, Drawn, Charted
<1>2. R!NeverOverstated
  <2>1. ASSUME NEW c \in R!Rated PROVE c.delta >= 0
    <3>1. c \in RateColumns BY DEF R!Rated, RatesInv, Drawn, Charted
    <3>2. c.delta \in Int BY ONLY <3>1 DEF RateColumns
    <3> QED BY <1>1, <3>2 DEF Honest
  <2> QED BY <1>1, <2>1 DEF Honest, R!NeverOverstated, R!InTurn
<1>3. R!OneLife /\ R!GapIsNotBridged /\ R!SampledElapsed
  BY <1>1 DEF Honest, Sampled, R!OneLife, R!GapIsNotBridged, R!SampledElapsed, R!MeasuredElapsed
<1>4. R!NoBridge BY DEF RatesInv, Drawn, Charted, R!NoBridge
<1> QED BY <1>2, <1>3, <1>4

-----------------------------------------------------------------------------
(***************************************************************************)
(* The rates of the interfaces and their total.                            *)
(***************************************************************************)

LinkCounts == UNION {[some -> Nat] : some \in SUBSET Links}

\* The chart of a link, and the total of a scope.
RateLine(s, rate) == s \in Seq(Int) /\ s # <<>> /\ Net!Newest(s) = rate
TotalLine(s, rate, chosen) ==
  /\ \E cols : s \in Seq(cols) /\ \A c \in cols : c.scope = chosen
  /\ s # <<>> => Net!Counted(rate, chosen) # {} /\ Net!Newest(s).sum = Net!Sum(rate, chosen)

TrafficInv ==
  /\ listed \in LinkCounts /\ before \in LinkCounts
  /\ since \in Nat \cup {Net!Never}
  /\ since = Net!Never => rates = <<>>
  /\ DOMAIN charts = DOMAIN rates /\ DOMAIN rates \subseteq DOMAIN before
  /\ \A l \in DOMAIN rates : RateLine(charts[l], rates[l])
  /\ TotalLine(total, rates, scope)

LEMMA LinePushed ==
  ASSUME NEW cols, NEW s \in Seq(cols), NEW c \in cols
  PROVE  /\ Net!Push(s, c) \in Seq(cols) /\ Net!Push(s, c) # <<>>
         /\ Net!Newest(Net!Push(s, c)) = c
<1>1. ASSUME NEW t \in Seq(cols)
      PROVE  Append(t, c) \in Seq(cols) /\ Append(t, c) # <<>> /\ Append(t, c)[Len(Append(t, c))] = c
  OBVIOUS
<1>2. CASE Len(s) = ChartWidth
  <2>1. ChartWidth # 0 BY ReadingsAssumption DEF Net!TrafficAssumption
  <2>2. s # <<>> BY <1>2, <2>1
  <2>3. Tail(s) \in Seq(cols) BY <2>2
  <2> QED BY <1>1, <1>2, <2>3 DEF Net!Push, Net!Newest
<1>3. CASE Len(s) # ChartWidth
  BY <1>1, <1>3 DEF Net!Push, Net!Newest
<1> QED BY <1>2, <1>3

LEMMA NoTotal == ASSUME NEW rate, NEW chosen PROVE TotalLine(<<>>, rate, chosen)
<1>1. PICK cols : cols = {} OBVIOUS
<1>2. <<>> \in Seq(cols) /\ \A c \in cols : c.scope = chosen BY <1>1
<1>3. \E few : <<>> \in Seq(few) /\ \A c \in few : c.scope = chosen BY <1>2
<1> QED BY <1>3 DEF TotalLine

LEMMA NoCounts == <<>> \in LinkCounts /\ DOMAIN <<>> = {}
<1>1. DOMAIN <<>> = {} OBVIOUS
<1>2. <<>> = [l \in {} |-> 0] OBVIOUS
<1>3. [l \in {} |-> 0] \in [{} -> Nat] /\ {} \in SUBSET Links OBVIOUS
<1> QED BY <1>1, <1>2, <1>3 DEF LinkCounts

LEMMA CountsAre ==
  ASSUME NEW counts \in LinkCounts
  PROVE  \A l \in DOMAIN counts : counts[l] \in Nat
BY DEF LinkCounts

LEMMA TallyCounts == Tallies \subseteq LinkCounts
<1>1. ASSUME NEW r \in Tallies PROVE r \in LinkCounts
  <2>1. PICK some \in SUBSET Links : r \in [some -> Nat]
    BY ReadingsAssumption DEF Net!TrafficAssumption
  <2> QED BY <2>1 DEF LinkCounts
<1> QED BY <1>1

LEMMA TrafficStarts == Net!Init => TrafficInv
BY NoTotal, NoCounts DEF Net!Init, TrafficInv, Net!Never

\* Another scope begins another total.
LEMMA TotalCleared ==
  ASSUME TrafficInv, NEW chosen
  PROVE  TotalLine(Net!Cleared(chosen), rates, chosen)
<1>1. CASE chosen = scope BY <1>1 DEF Net!Cleared, TrafficInv
<1>2. CASE chosen # scope BY <1>2, NoTotal DEF Net!Cleared
<1> QED BY <1>1, <1>2

\* A total is the sum of what it is given.
LEMMA TotalPushed ==
  ASSUME TrafficInv, NEW chosen, NEW rate
  PROVE  TotalLine(Net!TotalOf(rate, chosen), rate, chosen)
<1>1. CASE Net!Counted(rate, chosen) = {} BY <1>1, NoTotal DEF Net!TotalOf
<1>2. CASE Net!Counted(rate, chosen) # {}
  <2> DEFINE c == [scope |-> chosen, sum |-> Net!Sum(rate, chosen)]
             s == Net!Cleared(chosen)
  <2>1. PICK cols : s \in Seq(cols) /\ \A x \in cols : x.scope = chosen
    BY TotalCleared DEF TotalLine
  <2>2. s \in Seq(cols \cup {c}) BY <2>1
  <2>3. c.scope = chosen /\ c.sum = Net!Sum(rate, chosen) OBVIOUS
  <2>4. Net!TotalOf(rate, chosen) = Net!Push(s, c) BY <1>2 DEF Net!TotalOf
  <2> HIDE DEF c, s
  <2>5. /\ Net!Push(s, c) \in Seq(cols \cup {c}) /\ Net!Newest(Net!Push(s, c)) = c
    BY <2>2, LinePushed
  <2>6. \A x \in cols \cup {c} : x.scope = chosen BY <2>1, <2>3
  <2> QED BY <1>2, <2>3, <2>4, <2>5, <2>6 DEF TotalLine
<1> QED BY <1>1, <1>2

LEMMA LinksObserved ==
  ASSUME TrafficInv, NEW counts \in LinkCounts, NEW chosen, Net!Observe(counts, chosen)
  PROVE  /\ before' \in LinkCounts /\ since' = 0
         /\ DOMAIN charts' = DOMAIN rates' /\ DOMAIN rates' \subseteq DOMAIN before'
         /\ \A l \in DOMAIN rates' : RateLine(charts'[l], rates'[l])
         /\ TotalLine(total', rates', chosen)
<1>0. since \in Nat \cup {Net!Never} /\ before \in LinkCounts BY DEF TrafficInv
<1>1. CASE since > 0
  <2>1. /\ rates' = Net!RatesOf(counts) /\ charts' = Net!ChartsOf(counts)
        /\ total' = Net!TotalOf(Net!RatesOf(counts), chosen)
        /\ before' = counts /\ since' = 0
    BY <1>1 DEF Net!Observe
  <2>2. Net!Charted(counts) = Net!Rated(counts)
    BY DEF Net!Charted, TrafficInv
  <2>3. /\ DOMAIN rates' = Net!Rated(counts) /\ DOMAIN charts' = Net!Rated(counts)
        /\ Net!Rated(counts) \subseteq DOMAIN counts
    BY <2>1, <2>2 DEF Net!RatesOf, Net!ChartsOf, Net!Rated
  <2>4. ASSUME NEW l \in Net!Rated(counts) PROVE RateLine(charts'[l], rates'[l])
    <3> DEFINE line == IF l \in DOMAIN charts THEN charts[l] ELSE <<>>
               rate == Net!RatesOf(counts)[l]
    <3>1. l \in DOMAIN counts \cap DOMAIN before BY DEF Net!Rated
    <3>2. counts[l] \in Nat /\ before[l] \in Nat BY <1>0, <3>1, CountsAre
    <3>3. since \in Nat \ {0} BY <1>0, <1>1 DEF Net!Never
    <3>4. rate = (counts[l] - before[l]) \div since BY DEF Net!RatesOf
    <3>5. rate \in Int BY <3>2, <3>3, <3>4
    <3>6. line \in Seq(Int) BY DEF TrafficInv, RateLine
    <3>7. charts'[l] = Net!Push(line, rate) /\ rates'[l] = rate
      BY <2>1, <2>2 DEF Net!ChartsOf
    <3> HIDE DEF line, rate
    <3> QED BY <3>5, <3>6, <3>7, LinePushed DEF RateLine
  <2>5. TotalLine(total', rates', chosen) BY <2>1, TotalPushed
  <2> QED BY <2>1, <2>3, <2>4, <2>5
<1>2. CASE ~(since > 0)
  <2>1. /\ before' = (IF since = Net!Never THEN counts ELSE before) /\ since' = 0
        /\ total' = Net!Cleared(chosen) /\ rates' = rates /\ charts' = charts
    BY <1>2 DEF Net!Observe
  <2>2. TotalLine(total', rates', chosen) BY <2>1, TotalCleared
  <2>3. DOMAIN charts' = DOMAIN rates' /\ \A l \in DOMAIN rates' : RateLine(charts'[l], rates'[l])
    BY <2>1 DEF TrafficInv
  <2>4. before' \in LinkCounts BY <2>1, <1>0
  <2>5. since # Net!Never => DOMAIN rates' \subseteq DOMAIN before' BY <2>1 DEF TrafficInv
  <2>6. since = Net!Never => rates = <<>> BY DEF TrafficInv
  <2>7. since = Net!Never => DOMAIN rates' \subseteq DOMAIN before' BY <2>1, <2>6, NoCounts
  <2> QED BY ONLY <2>1, <2>2, <2>3, <2>4, <2>5, <2>7
<1> QED BY <1>1, <1>2

\* The total is worked out of the rates and the loopback interfaces of the step.
LEMMA TotalThen ==
  ASSUME loopback' = loopback, TotalLine(total', rates', scope')
  PROVE  TotalLine(total, rates, scope)'
<1>1. Net!Counted(rates, scope)' = Net!Counted(rates', scope') BY DEF Net!Counted
<1>2. Net!Sum(rates, scope)' = Net!Sum(rates', scope') BY <1>1 DEF Net!Sum
<1>3. Net!Newest(total)' = Net!Newest(total') BY DEF Net!Newest
<1> QED BY <1>1, <1>2, <1>3 DEF TotalLine

LEMMA LineThen ==
  ASSUME \A l \in DOMAIN rates' : RateLine(charts'[l], rates'[l])
  PROVE  (\A l \in DOMAIN rates : RateLine(charts[l], rates[l]))'
BY DEF RateLine, Net!Newest

\* A sample is what a snapshot lists.
LEMMA OverlaidCounts ==
  ASSUME TrafficInv, NEW sample \in LinkCounts PROVE Net!Overlaid(sample) \in LinkCounts
<1>1. PICK some \in SUBSET Links : listed \in [some -> Nat] BY DEF TrafficInv, LinkCounts
<1>2. \A l \in DOMAIN sample : sample[l] \in Nat BY CountsAre
<1>3. Net!Overlaid(sample) \in [some -> Nat] BY <1>1, <1>2 DEF Net!Overlaid
<1> QED BY <1>3 DEF LinkCounts

LEMMA TrafficMoves == TrafficInv /\ [Net!Next]_trafficVars => TrafficInv'
<1> SUFFICES ASSUME TrafficInv, [Net!Next]_trafficVars PROVE TrafficInv'
  OBVIOUS
<1>0. /\ listed \in LinkCounts /\ before \in LinkCounts /\ since \in Nat \cup {Net!Never}
      /\ since = Net!Never => rates = <<>>
      /\ DOMAIN charts = DOMAIN rates /\ DOMAIN rates \subseteq DOMAIN before
      /\ \A l \in DOMAIN rates : RateLine(charts[l], rates[l])
      /\ TotalLine(total, rates, scope)
  BY DEF TrafficInv
\* What a step has to leave behind.
<1>1. ASSUME loopback' = loopback, listed' \in LinkCounts, before' \in LinkCounts,
             since' \in Nat \cup {Net!Never}, since' = Net!Never => rates' = <<>>,
             DOMAIN charts' = DOMAIN rates', DOMAIN rates' \subseteq DOMAIN before',
             \A l \in DOMAIN rates' : RateLine(charts'[l], rates'[l]),
             TotalLine(total', rates', scope')
      PROVE  TrafficInv'
  BY <1>1, LineThen, TotalThen DEF TrafficInv, LinkCounts, Net!Never
<1>n. Net!Never = -1 BY DEF Net!Never
<1>2. CASE UNCHANGED trafficVars
  <2>1. UNCHANGED <<listed, before, since, charts, rates, total, scope, loopback>>
    BY <1>2 DEF trafficVars
  <2> QED BY <2>1, <1>0, <1>1
<1>3. CASE Net!Tick
  <2>1. /\ since \in 0..LongestGap /\ since' = since + 1
        /\ UNCHANGED <<loopback, listed, before, charts, rates, total, scope>>
    BY <1>3 DEF Net!Tick
  <2>2. since' \in Nat /\ since' # Net!Never BY ONLY <2>1, <1>0, <1>n
  <2> QED BY <2>1, <2>2, <1>0, <1>1
<1>4. CASE Net!ShowInventory
  <2>1. PICK counts \in Tallies, routed \in Routings :
          /\ listed' = counts /\ loopback' = loopback
          /\ IF feeder = "cockpit" THEN UNCHANGED <<scope, before, rates, charts, total, since>>
             ELSE /\ scope' = routed
                  /\ IF since = Net!Never THEN Net!Observe(counts, routed)
                     ELSE /\ total' = Net!Cleared(routed)
                          /\ UNCHANGED <<before, rates, charts, since>>
    BY <1>4 DEF Net!ShowInventory
  <2>2. counts \in LinkCounts BY TallyCounts
  <2>3. CASE UNCHANGED <<scope, before, rates, charts, total, since>>
    BY <2>1, <2>2, <2>3, <1>0, <1>1
  <2>4. CASE scope' = routed /\ Net!Observe(counts, routed)
    <3>1. /\ before' \in LinkCounts /\ since' = 0
          /\ DOMAIN charts' = DOMAIN rates' /\ DOMAIN rates' \subseteq DOMAIN before'
          /\ \A l \in DOMAIN rates' : RateLine(charts'[l], rates'[l])
          /\ TotalLine(total', rates', routed)
      BY <2>2, <2>4, LinksObserved
    <3>2. since' \in Nat /\ since' # Net!Never BY ONLY <3>1, <1>n
    <3> QED BY <3>1, <3>2, <2>1, <2>2, <2>4, <1>1
  <2>5. CASE /\ scope' = routed /\ total' = Net!Cleared(routed)
             /\ UNCHANGED <<before, rates, charts, since>>
    <3>1. TotalLine(total', rates', scope') BY <2>5, TotalCleared
    <3> QED BY <3>1, <2>1, <2>2, <2>5, <1>0, <1>1
  <2> QED BY <2>1, <2>3, <2>4, <2>5
<1>5. CASE Net!ShowSample
  <2>1. PICK sample \in Tallies :
          /\ listed' = Net!Overlaid(sample) /\ loopback' = loopback
          /\ Net!Observe(Net!Overlaid(sample), scope')
    BY <1>5 DEF Net!ShowSample
  <2>2. Net!Overlaid(sample) \in LinkCounts BY TallyCounts, OverlaidCounts
  <2>3. PICK chosen : chosen = scope' OBVIOUS
  <2>4. /\ before' \in LinkCounts /\ since' = 0
        /\ DOMAIN charts' = DOMAIN rates' /\ DOMAIN rates' \subseteq DOMAIN before'
        /\ \A l \in DOMAIN rates' : RateLine(charts'[l], rates'[l])
        /\ TotalLine(total', rates', chosen)
    BY <2>1, <2>2, <2>3, LinksObserved
  <2>5. since' \in Nat /\ since' # Net!Never BY ONLY <2>4, <1>n
  <2> QED BY <2>1, <2>2, <2>3, <2>4, <2>5, <1>1
<1>6. CASE Net!StartOver
  <2>1. /\ loopback' = loopback /\ listed' = <<>> /\ before' = <<>> /\ rates' = <<>>
        /\ charts' = <<>> /\ total' = <<>> /\ since' = Net!Never
    BY <1>6 DEF Net!StartOver
  <2>2. TotalLine(total', rates', scope') BY <2>1, NoTotal
  <2> QED BY <2>1, <2>2, <1>1, NoCounts
<1> QED BY <1>2, <1>3, <1>4, <1>5, <1>6 DEF Net!Next

LEMMA TrafficHolds == TrafficInv => Net!TotalIsTheSum /\ Net!OneScope /\ Net!ChartsAreOfRates
<1> SUFFICES ASSUME TrafficInv PROVE Net!TotalIsTheSum /\ Net!OneScope /\ Net!ChartsAreOfRates
  OBVIOUS
<1>1. Net!TotalIsTheSum BY DEF TrafficInv, TotalLine, Net!TotalIsTheSum
<1>2. Net!OneScope
  <2>1. PICK cols : total \in Seq(cols) /\ \A c \in cols : c.scope = scope
    BY DEF TrafficInv, TotalLine
  <2>2. \A c \in Net!Range(total) : c \in cols BY <2>1 DEF Net!Range
  <2> QED BY <2>1, <2>2 DEF Net!OneScope
<1>3. Net!ChartsAreOfRates BY DEF TrafficInv, RateLine, Net!ChartsAreOfRates
<1> QED BY <1>1, <1>2, <1>3

\* ReadingsHold (MCTools): between two readings that were taken in turn a rate or a chart
\* never counts more than has flowed, its columns follow one another, it never mixes two
\* disks or two processes, no disk or container rate reaches back over a failed collection,
\* and those of disks, containers and processes are over the time between their readings;
\* a total is the sum of the rates of its scope; the restarts and errors of a session have
\* happened, a log entry is new once for each time the journal could be read again, and a
\* history has no gaps (observe in NetworkActivity, StorageActivity, ContainerMonitor and
\* SessionView, set_scope, HistoryStore::apply, record_history); for every length of a gap,
\* a chart, a window and a history.
THEOREM ReadingsAreTrue == ToolsSpec => []ReadingsHold
<1> DEFINE I == /\ part = "rates" => RatesInv
                /\ part = "traffic" => TrafficInv
                /\ part = "session" => SessionInv
<1>1. ToolsInit => I
  BY RatesStart, TrafficStarts, SessionStarts DEF ToolsInit
<1>2. I /\ [ToolsNext]_allvars => I'
  BY OnePartMoves, RatesMoves, TrafficMoves, SessionMoves DEF PartMoves
<1>3. I => ReadingsHold
  BY RatesHold, TrafficHolds, SessionHolds DEF ReadingsHold
<1> QED BY <1>1, <1>2, <1>3, PTL DEF ToolsSpec

-----------------------------------------------------------------------------
(***************************************************************************)
(* One signal by itself.                                                   *)
(***************************************************************************)

PA == INSTANCE PartsProofs WITH Pids <- AllPids, Protected <- Spared

LEMMA SignalAssumption == PA!ProcessAssumption /\ PA!DisplayAssumption
<1>1. IsFiniteSet(AllPids) <=> PA!IsFiniteSet(AllPids)
  BY DEF IsFiniteSet, PA!IsFiniteSet
<1>2. IsFiniteSet(AllPids) <=> P!IsFiniteSet(AllPids)
  BY DEF IsFiniteSet, P!IsFiniteSet
<1>3. PA!ProcessAssumption
  BY <1>1, <1>2, CommandsAssumption DEF P!ProcessAssumption, PA!ProcessAssumption
<1>4. PA!DisplayAssumption
  BY DisplayAssumption DEF PA!DisplayAssumption, L!SelectionAssumption, W!ScreenAssumption,
     PA!L!SelectionAssumption, PA!W!ScreenAssumption
<1> QED BY <1>3, <1>4

LEMMA SignalStarts == P!Init => PA!RunInv
<1>1. P!Init => PA!Init
  BY DEF P!Init, P!InitProcesses, P!Options, P!Command, P!NoProcess,
         PA!Init, PA!InitProcesses, PA!Options, PA!Command, PA!NoProcess
<1> QED BY <1>1, SignalAssumption, PA!RunStarts

LEMMA SignalMoves == PA!RunInv /\ [P!Next]_runVars => PA!RunInv'
<1>1. ASSUME UNCHANGED runVars PROVE UNCHANGED PA!runVars
  BY <1>1 DEF runVars, procVars, PA!runVars, PA!procVars
<1>2. ASSUME P!HostStep PROVE PA!HostStep
  BY <1>2 DEF P!HostStep, P!ExitProcess, P!StartProcess, P!Rename,
              PA!HostStep, PA!ExitProcess, PA!StartProcess, PA!Rename
<1>3. ASSUME P!Validate PROVE PA!Validate
  BY <1>3 DEF P!Validate, P!Exit, P!procVars, PA!Validate, PA!Exit, PA!procVars
<1>4. ASSUME P!Resolve PROVE PA!Resolve
  <2>1. \A F : Cardinality(F) = PA!Cardinality(F) /\ Cardinality(F) = P!Cardinality(F)
    BY DEF Cardinality, PA!Cardinality, P!Cardinality, IsFiniteSet, PA!IsFiniteSet, P!IsFiniteSet
  <2>2. \A F : P!Unique(F) <=> PA!Unique(F)
    BY <2>1 DEF P!Unique, PA!Unique
  <2> QED
    BY <1>4, <2>2 DEF P!Resolve, P!Exit, P!Concluded, P!procVars, PA!Resolve, PA!Exit, PA!Concluded,
                      PA!procVars
<1>5. ASSUME P!Check PROVE PA!Check
  BY <1>5 DEF P!Check, P!Still, P!Exit, P!procVars, PA!Check, PA!Still, PA!Exit, PA!procVars
<1>6. ASSUME P!Signal PROVE PA!Signal
  BY <1>6 DEF P!Signal, P!Exit, PA!Signal, PA!Exit
<1>7. ASSUME P!Verify PROVE PA!Verify
  BY <1>7 DEF P!Verify, P!Remains, P!Concluded, P!Exit, P!procVars,
              PA!Verify, PA!Remains, PA!Concluded, PA!Exit, PA!procVars
<1>8. ASSUME P!FailCollection PROVE PA!FailCollection
  BY <1>8 DEF P!FailCollection, P!Exit, P!procVars, PA!FailCollection, PA!Exit, PA!procVars
<1>9. P!Next => PA!Next
  BY <1>2, <1>3, <1>4, <1>5, <1>6, <1>7, <1>8 DEF P!Next, P!RunStep, PA!Next, PA!RunStep
<1> QED BY <1>1, <1>9, SignalAssumption, PA!RunMoves

LEMMA SignalHolds ==
  PA!RunInv => P!ReachesThePinned /\ P!RefusalChangesNothing /\ P!ExitedMeansExited
BY SignalAssumption, PA!RunHolds
   DEF P!ReachesThePinned, P!RefusalChangesNothing, P!ExitedMeansExited, P!NoProcess,
       PA!ReachesThePinned, PA!RefusalChangesNothing, PA!ExitedMeansExited, PA!NoProcess

-----------------------------------------------------------------------------
(***************************************************************************)
(* The interactive lens-top: rows.                                         *)
(***************************************************************************)

RP == INSTANCE UplinkProofs WITH
  TTL <- 1, Skew <- 0, MaxRecords <- 1, MaxBytes <- 1, MaxBatch <- 1, MaxBatchBytes <- 0,
  Envelope <- 0, Report <- {}, Offset <- {0}, Horizon <- 0, now <- 0, off <- 0, stop <- 0,
  main <- 0, thread <- 0, inbox <- 0, rwall <- 0, queue <- 0, batch <- 0, answer <- 0,
  slow <- 0, halted <- 0, stored <- 0

LEMMA RetainType ==
  ASSUME NEW s \in Seq(Processes), NEW K
  PROVE  Retain(s, K) \in Seq(Processes)
<1>1. RP!RingAssumption /\ RP!UplinkAssumption
  BY DEF RP!RingAssumption, RP!UplinkAssumption
<1>2. Retain(s, K) = RP!Retain(s, K)
  BY DEF Retain, Retained, RP!Retain, RP!Retained
<1> QED BY <1>1, <1>2, RP!RetainPicks

LEMMA VisibleType ==
  ASSUME NEW s \in Seq(Processes), NEW n, NEW r
  PROVE  Visible(s, n, r) \in Seq(Processes)
<1> DEFINE kept == IF n THEN Retain(s, {p \in ToSet(s) : p.pid \in Matching}) ELSE s
<1>1. kept \in Seq(Processes)
  BY RetainType
<1> HIDE DEF kept
<1>2. Reverse(kept) \in Seq(Processes)
  BY <1>1 DEF Reverse
<1>3. Visible(s, n, r) = IF r THEN Reverse(kept) ELSE kept
  BY DEF Visible, kept
<1> QED BY <1>1, <1>2, <1>3

LEMMA AtType ==
  ASSUME NEW s \in Seq(Processes), NEW i \in Nat
  PROVE  At(s, i) \in Processes \cup {NoProcess}
BY DEF At

LEMMA ClampType == ASSUME NEW i \in Nat, NEW n \in Nat PROVE Clamp(i, n) \in Nat
BY DEF Clamp

\* The cursor goes to the process that is looked for, when it is there.
LEMMA RestoredFollows ==
  ASSUME selected \in Nat, NEW s \in Seq(Processes), NEW p
  PROVE  /\ Restored(s, p) \in Nat
         /\ p # NoProcess /\ p \in ToSet(s) => At(s, Restored(s, p)) = p
<1>0. Len(s) \in Nat /\ DOMAIN s = 1..Len(s)
  OBVIOUS
<1>1. CASE p # NoProcess /\ p \in ToSet(s)
  <2>1. PICK j \in 1..Len(s) : s[j] = p
    BY <1>0, <1>1 DEF ToSet
  <2>2. j - 1 \in 0..Len(s) - 1 /\ s[(j - 1) + 1] = p
    BY <1>0, <2>1
  <2>3. Restored(s, p) \in 0..Len(s) - 1 /\ s[Restored(s, p) + 1] = p
    BY <1>1, <2>2 DEF Restored
  <2> QED BY <1>0, <2>3 DEF At
<1>2. CASE ~(p # NoProcess /\ p \in ToSet(s))
  BY <1>0, <1>2, ClampType DEF Restored
<1> QED BY <1>1, <1>2

LEMMA OrderType ==
  ASSUME NEW T \in SUBSET Processes, IsFiniteSet(T), NEW s \in SetToSeqs(T)
  PROVE  s \in Seq(Processes)
<1>1. Cardinality(T) \in Nat
  BY FS_CardinalityType
<1>2. s \in [1..Cardinality(T) -> T]
  BY DEF SetToSeqs
<1>3. s \in [1..Cardinality(T) -> Processes]
  BY <1>2
<1> QED BY <1>1, <1>3

LEMMA RowsFinite ==
  ASSUME NEW s \in Seq(Processes)
  PROVE  ToSet(s) \in SUBSET Processes /\ IsFiniteSet(ToSet(s))
<1>1. DOMAIN s = 1..Len(s) /\ Len(s) \in Nat /\ s \in [1..Len(s) -> Processes]
  OBVIOUS
<1>2. ToSet(s) \in SUBSET Processes
  BY <1>1 DEF ToSet
<1>3. s \in Surjection(1..Len(s), ToSet(s))
  BY <1>1 DEF Surjection, ToSet
<1>4. IsFiniteSet(1..Len(s))
  BY <1>1, FS_Interval
<1> QED BY <1>2, <1>3, <1>4, FS_Surjection

-----------------------------------------------------------------------------
(***************************************************************************)
(* The interactive lens-top: its state.                                    *)
(***************************************************************************)

Answers == [ok : BOOLEAN, rows : Seq(Processes)]

LoopType ==
  /\ frame \in Seq(Processes) /\ answers \in Seq(Answers)
  /\ selected \in Nat /\ inspected \in Processes \cup {NoProcess}
  /\ asked \in Nat /\ worker \in {"idle", "busy", "dead"} /\ inFlight \in BOOLEAN

\* The dialog is about a process that was on the screen, and so is the command it runs: that
\* pins no other, whoever has its PID by then.
DialogInv ==
  /\ dialog \in [stage : {"none", "choose", "confirm", "running", "result"},
                 target : Processes \cup {NoProcess}]
  /\ dialog.stage \in {"choose", "confirm", "running"} => dialog.target \in Processes
  /\ dialog.stage = "running" =>
       run.o = SignalOptions(dialog.target) /\ run.pinned \in {NoProcess, dialog.target}

TopInv == RunInv /\ LoopType /\ OneAnswerUnderway /\ DialogInv

LEMMA SelectedType ==
  ASSUME LoopType
  PROVE  Rows \in Seq(Processes) /\ SelectedProcess \in Processes \cup {NoProcess}
<1>1. Rows \in Seq(Processes)
  BY VisibleType DEF Rows, LoopType
<1>2. At(Rows, selected) \in Processes \cup {NoProcess}
  BY <1>1, AtType DEF LoopType
<1> QED BY <1>1, <1>2 DEF SelectedProcess, LoopType

LEMMA OptionsAsked ==
  ASSUME NEW p \in Processes \cup {NoProcess}
  PROVE  SignalOptions(p) \in Asked
<1>1. p.pid \in Pids \cup {0} /\ p.start \in 0..MaxStart
  BY ProcessAssumption DEF Processes, NoProcess
<1> QED BY <1>1 DEF SignalOptions, Asked

LEMMA TopStarts == InitTop => TopInv
<1> SUFFICES ASSUME InitTop PROVE TopInv OBVIOUS
<1>1. LiveInv
  BY FirstProcesses DEF InitTop
<1>2. RunInv
  BY <1>1, OptionsAsked, FirstRun DEF InitTop
<1>3. frame \in Seq(Processes)
  BY <1>1, OrderType DEF InitTop, LiveInv
<1>4. <<>> \in Seq(Answers)
  OBVIOUS
<1>5. LoopType
  BY <1>3, <1>4 DEF InitTop, LoopType
<1>6. OneAnswerUnderway
  BY DEF InitTop, OneAnswerUnderway
<1>7. DialogInv
  BY DEF InitTop, NoDialog, DialogInv
<1> QED BY <1>2, <1>5, <1>6, <1>7 DEF TopInv

-----------------------------------------------------------------------------
(* The command and the processes *)

\* What the loop and the keys do beside the confirmation leaves the command alone.
LEMMA IdleSteps ==
  NextTop => \/ UNCHANGED runVars
             \/ Confirm
             \/ (ExitProcess \/ StartProcess) /\ UNCHANGED run /\ UNCHANGED uiVars
             \/ RunStep /\ UNCHANGED uiVars
<1>1. Worker => UNCHANGED runVars
  BY DEF Worker, TakeRequest, SendSnapshot, SendError, DieWorker
<1>2. Polls => UNCHANGED runVars
  BY DEF Polls, FinishAction, ShowSnapshot, ShowError, NoticeDeath, BecomeDue, StartRefresh
<1>3. Keys => UNCHANGED runVars \/ Confirm
  BY DEF Keys, Quit, Move, Inspect, OpenBox, Regroup, BoxKey, Pause, AskRefresh, OfferAction, DialogKey
<1> QED BY <1>1, <1>2, <1>3 DEF NextTop

LEMMA TopRun == ASSUME TopInv, NextTop PROVE RunInv'
<1> USE DEF TopInv
<1>1. CASE UNCHANGED runVars
  BY <1>1, RunRests DEF runVars, procVars
<1>2. CASE Confirm
  <2>1. run' = Command(SignalOptions(dialog.target)) /\ UNCHANGED procVars
    BY <1>2 DEF Confirm
  <2>2. SignalOptions(dialog.target) \in Asked
    BY OptionsAsked DEF DialogInv
  <2>3. "start" \in RunSteps /\ 0 \in 0..2 /\ 0 \in 0..MaxStart /\ clock \in Nat
    BY ProcessAssumption DEF RunSteps, RunInv, LiveInv
  <2>4. run' \in Runs
    BY <2>1, <2>2, <2>3 DEF Command, Runs
  <2>5. /\ run'.at = "start" /\ run'.pinned = NoProcess /\ run'.hit = NoProcess
        /\ run'.checked = 0 /\ run'.code = 0 /\ run'.status = "none"
    BY <2>1 DEF Command
  <2>6. LiveInv'
    BY <2>1 DEF procVars, RunInv, LiveInv
  <2> QED
    BY <2>1, <2>3, <2>4, <2>5, <2>6, NoProcessIsNone
    DEF RunInv, procVars, Dated, Pinned, Reaches, Reported
<1>3. CASE (ExitProcess \/ StartProcess) /\ UNCHANGED run
  BY <1>3, HostKeeps
<1>4. CASE RunStep
  BY <1>4, CommandKeeps
<1> QED BY <1>1, <1>2, <1>3, <1>4, IdleSteps

-----------------------------------------------------------------------------
(* The loop and its worker *)

LEMMA TopLoopType == ASSUME TopInv, NextTop PROVE LoopType'
<1> USE DEF TopInv
<1>t. /\ frame \in Seq(Processes) /\ answers \in Seq(Answers)
      /\ selected \in Nat /\ inspected \in Processes \cup {NoProcess}
      /\ asked \in Nat /\ worker \in {"idle", "busy", "dead"} /\ inFlight \in BOOLEAN
      /\ Len(Rows) \in Nat
  BY SelectedType DEF LoopType
<1>r. ASSUME UNCHANGED uiVars PROVE LoopType'
  BY <1>t, <1>r DEF uiVars, LoopType, selectVars, loopVars, workerVars
<1>a. ASSUME Ask PROVE asked' \in Nat /\ inFlight' \in BOOLEAN
  <2>1. CASE worker # "dead"
    BY <1>t, <1>a, <2>1 DEF Ask, Send
  <2>2. CASE worker = "dead"
    BY <1>t, <1>a, <2>2 DEF Ask
  <2> QED BY <2>1, <2>2
<1>k. ASSUME UNCHANGED workerVars, UNCHANGED loopVars, frame' \in Seq(Processes),
             selected' \in Nat, inspected' \in Processes \cup {NoProcess}
      PROVE  LoopType'
  BY <1>t, <1>k DEF LoopType, workerVars, loopVars
<1>1. CASE TakeRequest
  BY <1>t, <1>1 DEF TakeRequest, LoopType, selectVars, loopVars
<1>2. CASE SendSnapshot
  <2>1. PICK s \in SetToSeqs(live) : answers' = Append(answers, [ok |-> TRUE, rows |-> s])
    BY <1>2 DEF SendSnapshot
  <2>2. s \in Seq(Processes)
    BY <2>1, OrderType DEF RunInv, LiveInv
  <2>3. [ok |-> TRUE, rows |-> s] \in Answers
    BY <2>2 DEF Answers
  <2>4. answers' \in Seq(Answers)
    BY <1>t, <2>1, <2>3
  <2> QED BY <1>t, <1>2, <2>4 DEF SendSnapshot, LoopType, selectVars, loopVars
<1>3. CASE SendError
  <2>1. <<>> \in Seq(Processes)
    OBVIOUS
  <2>2. [ok |-> FALSE, rows |-> <<>>] \in Answers
    BY <2>1 DEF Answers
  <2>3. answers' \in Seq(Answers)
    BY <1>t, <1>3, <2>2 DEF SendError
  <2> QED BY <1>t, <1>3, <2>3 DEF SendError, LoopType, selectVars, loopVars
<1>4. CASE DieWorker
  BY <1>t, <1>4 DEF DieWorker, LoopType, selectVars, loopVars
<1>5. CASE FinishAction
  <2>1. asked' \in {asked, asked + 1} /\ inFlight' \in BOOLEAN
    BY <1>t, <1>5 DEF FinishAction, Send
  <2>2. asked' \in Nat
    BY <1>t, <2>1
  <2> QED BY <1>t, <1>5, <2>1, <2>2 DEF FinishAction, LoopType, selectVars
<1>6. CASE ShowSnapshot
  <2>1. answers # <<>> /\ answers' = Tail(answers) /\ frame' = Head(answers).rows
        /\ selected' = Restored(Visible(frame', narrow, reversed), SelectedProcess)
    BY <1>6 DEF ShowSnapshot, Answered
  <2>2. answers' \in Seq(Answers) /\ Head(answers) \in Answers
    BY <1>t, <2>1
  <2>3. frame' \in Seq(Processes)
    BY <2>1, <2>2 DEF Answers
  <2>4. PICK s \in Seq(Processes) : s = Head(answers).rows
    BY <2>1, <2>3
  <2>5. Restored(Visible(s, narrow, reversed), SelectedProcess) \in Nat
    BY <1>t, VisibleType, RestoredFollows
  <2>6. selected' \in Nat
    BY <2>1, <2>4, <2>5
  <2> QED BY <1>t, <1>6, <2>2, <2>3, <2>6 DEF ShowSnapshot, LoopType
<1>7. CASE ShowError
  <2>1. answers' \in Seq(Answers)
    BY <1>t, <1>7 DEF ShowError, Answered
  <2> QED BY <1>t, <1>7, <2>1 DEF ShowError, LoopType, selectVars
<1>8. CASE NoticeDeath
  BY <1>t, <1>8 DEF NoticeDeath, LoopType, selectVars, workerVars
<1>9. CASE BecomeDue
  BY <1>t, <1>9 DEF BecomeDue, LoopType, selectVars, workerVars
<1>10. CASE StartRefresh
  BY <1>t, <1>a, <1>10 DEF StartRefresh, LoopType, selectVars
<1>11. CASE Quit
  BY <1>t, <1>11, <1>k DEF Quit, selectVars
<1>12. CASE Move
  <2>1. selected' \in Nat
    <3>1. CASE Rows = <<>>
      BY <1>12, <3>1 DEF Move
    <3>2. CASE Rows # <<>>
      <4>1. selected' \in {Clamp(selected + 1, Len(Rows)), IF selected = 0 THEN 0 ELSE selected - 1}
        BY <1>12, <3>2 DEF Move
      <4>2. selected + 1 \in Nat /\ (selected # 0 => selected - 1 \in Nat)
        BY <1>t
      <4> QED BY <1>t, <4>1, <4>2, ClampType
    <3> QED BY <3>1, <3>2
  <2>2. PICK i \in Nat : i = selected'
    BY <2>1
  <2>3. At(Rows, i) \in Processes \cup {NoProcess}
    BY SelectedType, AtType
  <2>4. inspected' \in {At(Rows, i), inspected}
    BY <1>12, <2>2 DEF Move
  <2> QED BY <1>t, <1>12, <2>1, <2>3, <2>4, <1>k DEF Move
<1>13. CASE Inspect
  <2>1. At(Rows, selected) \in Processes \cup {NoProcess}
    BY <1>t, SelectedType, AtType
  <2>2. inspected' \in {At(Rows, selected), NoProcess}
    BY <1>13 DEF Inspect
  <2> QED BY <1>t, <1>13, <2>1, <2>2, <1>k DEF Inspect
<1>14. CASE OpenBox
  BY <1>t, <1>14, <1>k DEF OpenBox, selectVars
<1>o. ASSUME Reordered PROVE frame' \in Seq(Processes) /\ selected' \in Nat
  <2>1. ToSet(frame) \in SUBSET Processes /\ IsFiniteSet(ToSet(frame))
    BY <1>t, RowsFinite
  <2>2. PICK s \in SetToSeqs(ToSet(frame)) : s = frame'
    BY <1>o DEF Reordered
  <2>3. s \in Seq(Processes)
    BY <2>1, OrderType
  <2> QED BY <1>o, <2>2, <2>3 DEF Reordered
<1>15. CASE Regroup
  BY <1>t, <1>15, <1>o, <1>k DEF Regroup
<1>16. CASE BoxKey
  <2>1. frame' \in Seq(Processes) /\ selected' \in Nat
    BY <1>t, <1>16, <1>o DEF BoxKey
  <2> QED BY <1>t, <1>16, <2>1, <1>k DEF BoxKey
<1>17. CASE Pause
  BY <1>t, <1>17, <1>k DEF Pause, selectVars
<1>18. CASE AskRefresh
  <2>1. asked' \in Nat /\ inFlight' \in BOOLEAN
    BY <1>t, <1>a, <1>18 DEF AskRefresh
  <2> QED BY <1>t, <1>18, <2>1 DEF AskRefresh, LoopType, selectVars
<1>19. CASE OfferAction
  BY <1>t, <1>19, <1>k DEF OfferAction, selectVars
<1>20. CASE DialogKey
  BY <1>t, <1>20, <1>k DEF DialogKey, selectVars
<1>21. CASE Confirm
  BY <1>t, <1>21, <1>k DEF Confirm, selectVars
<1> QED
  BY <1>1, <1>2, <1>3, <1>4, <1>5, <1>6, <1>7, <1>8, <1>9, <1>10, <1>11, <1>12, <1>13, <1>14,
     <1>15, <1>16, <1>17, <1>18, <1>19, <1>20, <1>21, <1>r DEF NextTop, Worker, Polls, Keys

\* Requests and answers under way, of which there is one when the loop waits for it.
Underway == asked + Len(answers) + (IF worker = "busy" THEN 1 ELSE 0)

LEMMA TopUnderway == ASSUME TopInv, NextTop PROVE OneAnswerUnderway'
<1> USE DEF TopInv
<1>t. asked \in Nat /\ answers \in Seq(Answers) /\ Len(answers) \in Nat
      /\ worker \in {"idle", "busy", "dead"} /\ inFlight \in BOOLEAN
  BY DEF LoopType
<1>u. worker # "dead" => Underway <= 1 /\ (inFlight <=> Underway = 1)
  BY DEF OneAnswerUnderway, Underway
<1>v. ASSUME worker' # "dead" => Underway' <= 1 /\ (inFlight' <=> Underway' = 1)
      PROVE  OneAnswerUnderway'
  BY <1>v DEF OneAnswerUnderway, Underway
<1>r. ASSUME UNCHANGED <<asked, answers, worker, inFlight>> PROVE OneAnswerUnderway'
  BY <1>u, <1>v, <1>r DEF Underway
<1>s. ASSUME Send, ~inFlight, UNCHANGED <<answers, worker>> PROVE OneAnswerUnderway'
  BY <1>t, <1>u, <1>v, <1>s DEF Send, Underway
<1>a. ASSUME Ask, ~inFlight, UNCHANGED <<answers, worker>> PROVE OneAnswerUnderway'
  BY <1>r, <1>s, <1>a DEF Ask
<1>1. CASE TakeRequest
  <2>1. /\ worker = "idle" /\ worker' = "busy" /\ asked' = asked - 1 /\ answers' = answers
        /\ inFlight' = inFlight
    BY <1>1 DEF TakeRequest, loopVars
  <2> QED BY <1>t, <1>u, <1>v, <2>1 DEF Underway
<1>2. CASE SendSnapshot \/ SendError
  <2>1. /\ worker = "busy" /\ worker' = "idle" /\ asked' = asked /\ inFlight' = inFlight
        /\ \E x : answers' = Append(answers, x)
    BY <1>2 DEF SendSnapshot, SendError, loopVars
  <2>2. Len(answers') = Len(answers) + 1
    BY <1>t, <2>1
  <2> QED BY <1>t, <1>u, <1>v, <2>1, <2>2 DEF Underway
<1>3. CASE DieWorker
  BY <1>3, <1>v DEF DieWorker
<1>4. CASE FinishAction
  BY <1>4, <1>r, <1>s DEF FinishAction
<1>5. CASE ShowSnapshot \/ ShowError
  <2>1. /\ inFlight /\ answers # <<>> /\ answers' = Tail(answers) /\ inFlight' = FALSE
        /\ worker' = worker /\ asked' = asked
    BY <1>5 DEF ShowSnapshot, ShowError, Answered
  <2>2. Len(answers') = Len(answers) - 1
    BY <1>t, <2>1
  <2> QED BY <1>t, <1>u, <1>v, <2>1, <2>2 DEF Underway
<1>6. CASE NoticeDeath
  BY <1>6, <1>v DEF NoticeDeath, workerVars
<1>7. CASE BecomeDue
  BY <1>7, <1>r DEF BecomeDue, workerVars
<1>8. CASE StartRefresh
  BY <1>8, <1>a DEF StartRefresh
<1>9. CASE AskRefresh
  BY <1>9, <1>a, <1>r DEF AskRefresh
<1>10. CASE Quit \/ Move \/ Inspect \/ OpenBox \/ Regroup \/ BoxKey
  BY <1>10, <1>r DEF Quit, Move, Inspect, OpenBox, Regroup, BoxKey, loopVars, workerVars
<1>11. CASE Pause \/ OfferAction \/ DialogKey \/ Confirm
  BY <1>11, <1>r DEF Pause, OfferAction, DialogKey, Confirm, loopVars, workerVars
<1>12. CASE UNCHANGED uiVars
  BY <1>12, <1>r DEF uiVars, loopVars, workerVars
<1> QED
  BY <1>1, <1>2, <1>3, <1>4, <1>5, <1>6, <1>7, <1>8, <1>9, <1>10, <1>11, <1>12
  DEF NextTop, Worker, Polls, Keys

-----------------------------------------------------------------------------
(* The dialog *)

LEMMA TopDialog == ASSUME TopInv, NextTop PROVE DialogInv'
<1> USE DEF TopInv
<1>t. /\ dialog.target \in Processes \cup {NoProcess}
      /\ dialog = [stage |-> dialog.stage, target |-> dialog.target]
      /\ dialog.stage \in {"none", "choose", "confirm", "running", "result"}
  BY DEF DialogInv
<1>r. ASSUME UNCHANGED <<run, dialog>> PROVE DialogInv'
  BY <1>r DEF DialogInv
\* The dialog moves on while the command stays.
<1>d. ASSUME NEW g, dialog' = [stage |-> g, target |-> dialog.target],
             \/ g \in {"choose", "confirm"} /\ dialog.stage \in {"choose", "confirm"}
             \/ g = "result"
      PROVE  DialogInv'
  BY <1>t, <1>d DEF DialogInv
<1>n. ASSUME dialog' = NoDialog PROVE DialogInv'
  BY <1>n DEF NoDialog, DialogInv
<1>1. CASE Worker
  BY <1>1, <1>r DEF Worker, TakeRequest, SendSnapshot, SendError, DieWorker, runVars
<1>2. CASE FinishAction
  <2>1. dialog' = [stage |-> "result", target |-> dialog.target]
    BY <1>2, <1>t DEF FinishAction
  <2> QED BY <2>1, <1>d
<1>3. CASE ShowSnapshot \/ ShowError \/ NoticeDeath \/ BecomeDue \/ StartRefresh
  BY <1>3, <1>r DEF ShowSnapshot, ShowError, NoticeDeath, BecomeDue, StartRefresh, runVars
<1>4. CASE Quit \/ Move \/ Inspect \/ OpenBox \/ Regroup \/ BoxKey \/ Pause \/ AskRefresh
  BY <1>4, <1>r
  DEF Quit, Move, Inspect, OpenBox, Regroup, BoxKey, Pause, AskRefresh, runVars
<1>5. CASE OfferAction
  <2>1. dialog' = [stage |-> "choose", target |-> SelectedProcess] /\ SelectedProcess \in Processes
    BY <1>5, SelectedType DEF OfferAction
  <2> QED BY <2>1 DEF DialogInv
<1>6. CASE DialogKey
  <2>1. \/ dialog' = NoDialog
        \/ /\ dialog.stage \in {"choose", "confirm"}
           /\ \E g \in {"choose", "confirm"} : dialog' = [stage |-> g, target |-> dialog.target]
    <3>1. CASE dialog.stage = "choose"
      BY <1>6, <1>t, <3>1 DEF DialogKey
    <3>2. CASE dialog.stage = "confirm"
      BY <1>6, <1>t, <3>2 DEF DialogKey
    <3>3. CASE dialog.stage = "result"
      BY <1>6, <3>3 DEF DialogKey
    <3>4. CASE dialog.stage \notin {"choose", "confirm", "result"}
      BY <1>6, <3>4 DEF DialogKey
    <3> QED BY <3>1, <3>2, <3>3, <3>4
  <2> QED BY <2>1, <1>n, <1>d
<1>7. CASE Confirm
  <2>1. /\ dialog' = [stage |-> "running", target |-> dialog.target] /\ dialog.stage = "confirm"
        /\ run' = Command(SignalOptions(dialog.target))
    BY <1>7, <1>t DEF Confirm
  <2>2. run'.o = SignalOptions(dialog'.target) /\ run'.pinned = NoProcess
    BY <2>1 DEF Command
  <2> QED BY <1>t, <2>1, <2>2 DEF DialogInv
<1>8. CASE (ExitProcess \/ StartProcess) /\ UNCHANGED run /\ UNCHANGED uiVars
  BY <1>8, <1>r DEF uiVars
<1>9. CASE RunStep /\ UNCHANGED uiVars
  <2>1. dialog' = dialog
    BY <1>9 DEF uiVars
  <2>t. run \in Runs
    BY DEF RunInv, Dated
  <2>e. ASSUME NEW k, run' = Exit(run, k) PROVE run'.o = run.o /\ run'.pinned = run.pinned
    BY <2>t, <2>e DEF Exit, Runs
  <2>p. ASSUME NEW k, run' = Concluded(run, k) PROVE run'.o = run.o /\ run'.pinned = run.pinned
    BY <2>t, <2>p DEF Concluded, Runs
  <2>2. CASE ~Resolve
    <3>1. run'.o = run.o /\ run'.pinned = run.pinned
      <4>1. CASE Validate BY <4>1, <2>t, <2>e DEF Validate, Runs
      <4>2. CASE Check BY <4>2, <2>t, <2>e DEF Check, Runs
      <4>3. CASE Signal BY <4>3, <2>t, <2>e DEF Signal, Runs
      <4>4. CASE Verify BY <4>4, <2>e, <2>p DEF Verify
      <4>5. CASE FailCollection BY <4>5, <2>e DEF FailCollection
      <4> QED BY <1>9, <2>2, <4>1, <4>2, <4>3, <4>4, <4>5 DEF RunStep
    <3> QED BY <2>1, <3>1 DEF DialogInv
  <2>3. CASE Resolve
    <3> DEFINE matches == {p \in live : p.pid \in run.o.select}
               target == CHOOSE p \in matches : TRUE
    <3>1. \/ \E k \in {1, 2} : run' = Exit(run, k)
          \/ /\ Unique(matches) /\ run.o.expect \in {0, target.start}
             /\ run' = IF run.o.dry THEN Concluded([run EXCEPT !.pinned = target], "planned")
                       ELSE [run EXCEPT !.at = "check", !.pinned = target]
      BY <2>3 DEF Resolve
    <3>2. CASE \E k \in {1, 2} : run' = Exit(run, k)
      BY <2>1, <3>2, <2>e DEF DialogInv
    <3>3. CASE /\ Unique(matches) /\ run.o.expect \in {0, target.start}
               /\ run' = IF run.o.dry THEN Concluded([run EXCEPT !.pinned = target], "planned")
                         ELSE [run EXCEPT !.at = "check", !.pinned = target]
      <4>1. target \in live /\ target.pid \in run.o.select /\ target \in Processes
        BY <3>3, OneFound DEF RunInv, LiveInv
      <4> HIDE DEF target
      <4>2. run'.o = run.o /\ run'.pinned = target
        BY <3>3, <2>t DEF Concluded, Runs
      <4>3. dialog.stage = "running" => target = dialog.target
        <5>1. ASSUME run.o = SignalOptions(dialog.target), dialog.target \in Processes
              PROVE  target = dialog.target
          <6>1. target.pid = dialog.target.pid /\ run.o.expect = dialog.target.start
            BY <4>1, <5>1 DEF SignalOptions
          <6>2. dialog.target.start # 0
            BY <5>1, ProcessAssumption DEF Processes
          <6>3. target.start = dialog.target.start
            BY <3>3, <6>1, <6>2
          <6> QED BY <4>1, <5>1, <6>1, <6>3 DEF Processes
        <5> QED BY <5>1 DEF DialogInv
      <4> QED BY <2>1, <4>2, <4>3 DEF DialogInv
    <3> QED BY <3>1, <3>2, <3>3
  <2> QED BY <2>2, <2>3
<1> QED
  BY <1>1, <1>2, <1>3, <1>4, <1>5, <1>6, <1>7, <1>8, <1>9 DEF NextTop, Polls, Keys

-----------------------------------------------------------------------------
LEMMA TopMoves == TopInv /\ [NextTop]_topVars => TopInv'
<1>1. ASSUME TopInv, UNCHANGED topVars PROVE TopInv'
  <2>1. UNCHANGED runVars /\ UNCHANGED uiVars
    BY <1>1 DEF topVars, vars, uiVars
  <2>2. RunInv'
    BY <1>1, <2>1, RunRests DEF TopInv, runVars, procVars
  <2>3. LoopType' /\ OneAnswerUnderway'
    BY <1>1, <2>1 DEF TopInv, uiVars, selectVars, loopVars, workerVars, LoopType, OneAnswerUnderway
  <2>4. DialogInv'
    BY <1>1, <2>1 DEF TopInv, uiVars, runVars, DialogInv
  <2> QED BY <2>2, <2>3, <2>4 DEF TopInv
<1> QED BY <1>1, TopRun, TopLoopType, TopUnderway, TopDialog DEF TopInv

LEMMA TopInvHolds == TopInv => OneAnswerUnderway /\ ActsOnTheConfirmed /\ ReachesThePinned
BY RunHolds DEF TopInv, DialogInv, ActsOnTheConfirmed

\* TopHolds (MCTools) for any set of processes and any number of keys, faults and restarts of
\* processes: the interactive lens-top awaits one snapshot at most and acts on the process that
\* was confirmed; lens-top --signal signals the one that was pinned (run_tui, app.rs,
\* run_process_action).
THEOREM SignalsAreMeant == ToolsSpec => []TopHolds
<1> DEFINE I == (part = "top" => TopInv) /\ (part = "process" => PA!RunInv)
<1>1. ToolsInit => I
  BY TopStarts, SignalStarts DEF ToolsInit
<1>2. I /\ [ToolsNext]_allvars => I'
  BY OnePartMoves, TopMoves, SignalMoves DEF PartMoves
<1>3. I => TopHolds
  BY TopInvHolds, SignalHolds DEF TopHolds
<1> QED BY <1>1, <1>2, <1>3, PTL DEF ToolsSpec

-----------------------------------------------------------------------------
(* The cursor *)

CursorStep ==
  (answers' # answers /\ frame' # frame /\ SelectedProcess # NoProcess /\ SelectedProcess \in ToSet(Rows'))
    => At(Rows', selected') = SelectedProcess

\* Only a new snapshot changes answers and rows at once.
LEMMA CursorMoves == ASSUME TopInv, NextTop PROVE CursorStep
<1>1. CASE ShowSnapshot
  <2>1. Head(answers).rows \in Seq(Processes)
    <3>1. answers \in Seq(Answers) /\ answers # <<>>
      BY <1>1 DEF ShowSnapshot, Answered, TopInv, LoopType
    <3>2. Head(answers) \in Answers
      BY <3>1
    <3> QED BY <3>2 DEF Answers
  <2>2. PICK s \in Seq(Processes) : s = Head(answers).rows
    BY <2>1
  <2>3. frame' = s /\ selected' = Restored(Visible(s, narrow, reversed), SelectedProcess)
        /\ narrow' = narrow /\ reversed' = reversed
    BY <1>1, <2>2 DEF ShowSnapshot, orderVars
  <2>4. Rows' = Visible(s, narrow, reversed)
    BY <2>3 DEF Rows
  <2>5. Visible(s, narrow, reversed) \in Seq(Processes) /\ selected \in Nat
    BY VisibleType DEF TopInv, LoopType
  <2> QED BY <2>3, <2>4, <2>5, RestoredFollows DEF CursorStep
<1>2. CASE TakeRequest \/ SendSnapshot \/ SendError \/ DieWorker \/ ShowError
  BY <1>2 DEF TakeRequest, SendSnapshot, SendError, DieWorker, ShowError, CursorStep
<1>3. CASE FinishAction \/ NoticeDeath \/ BecomeDue \/ StartRefresh
  BY <1>3 DEF FinishAction, NoticeDeath, BecomeDue, StartRefresh, CursorStep
<1>4. CASE Quit \/ Move \/ Inspect \/ OpenBox \/ Regroup \/ BoxKey
  BY <1>4 DEF Quit, Move, Inspect, OpenBox, Regroup, BoxKey, workerVars, CursorStep
<1>5. CASE Pause \/ AskRefresh \/ OfferAction \/ DialogKey \/ Confirm
  BY <1>5 DEF Pause, AskRefresh, OfferAction, DialogKey, Confirm, CursorStep
<1>6. CASE UNCHANGED uiVars
  BY <1>6 DEF uiVars, CursorStep
<1> QED BY <1>1, <1>2, <1>3, <1>4, <1>5, <1>6 DEF NextTop, Worker, Polls, Keys

\* CursorFollows (MCTools): a new snapshot leaves the cursor and the detail on their process as
\* long as it is listed, however many processes there are and however they are ordered and
\* searched (App::replace_snapshot, App::restore_selection).
THEOREM CursorIsKept == ToolsSpec => CursorFollows
<1> DEFINE I == part = "top" => TopInv
<1>1. ToolsInit => I
  BY TopStarts DEF ToolsInit
<1>2. I /\ [ToolsNext]_allvars => I'
  BY OnePartMoves, TopMoves DEF PartMoves
<1>3. I /\ [ToolsNext]_allvars => [CursorStep]_vars
  <2>1. ASSUME UNCHANGED uiVars PROVE CursorStep
    BY <2>1 DEF uiVars, CursorStep
  <2> QED BY <2>1, OnePartMoves, CursorMoves DEF PartMoves, topVars
<1> QED BY <1>1, <1>2, <1>3, PTL DEF ToolsSpec, CursorFollows, SelectionFollows, CursorStep

-----------------------------------------------------------------------------
(***************************************************************************)
(* One command.                                                            *)
(***************************************************************************)

\* What is kept of a sequence of rows, and in their order.
LEMMA RowsKept ==
  ASSUME NEW s \in Seq(C!Row), NEW K
  PROVE  /\ C!Retain(s, K) \in Seq(C!Row)
         /\ \E f : /\ \A i \in DOMAIN C!Retain(s, K) : f[i] \in DOMAIN s /\ C!Retain(s, K)[i] = s[f[i]]
                   /\ \A i, j \in DOMAIN C!Retain(s, K) : i < j => f[i] < f[j]
<1> DEFINE k == C!Retain(s, K)
<1>1. RP!RingAssumption /\ RP!UplinkAssumption
  BY DEF RP!RingAssumption, RP!UplinkAssumption
<1>2. k = RP!Retain(s, K)
  BY DEF C!Retain, C!Retained, RP!Retain, RP!Retained
<1>3. k \in Seq(C!Row) /\ \E f : RP!Leaves(f, k, s, K, Len(s))
  BY <1>1, <1>2, RP!RetainPicks
<1> HIDE DEF k
<1>4. PICK f : RP!Leaves(f, k, s, K, Len(s))
  BY <1>3
<1>5. DOMAIN k = 1..Len(k) /\ DOMAIN s = 1..Len(s)
  BY <1>3
<1>6. /\ \A i \in 1..Len(k) : f[i] \in 1..Len(s) /\ k[i] = s[f[i]]
      /\ \A i, j \in 1..Len(k) : i < j => f[i] < f[j]
  BY <1>4 DEF RP!Leaves, RP!Picks
<1> QED BY <1>3, <1>5, <1>6 DEF k

\* The rows that stand first are as severe as any, and stay so.
LEMMA KeptBySeverity ==
  ASSUME NEW s \in Seq(C!Row), NEW K, C!BySeverity(s)
  PROVE  C!BySeverity(C!Retain(s, K))
<1> DEFINE k == C!Retain(s, K)
<1>1. PICK f : /\ \A i \in DOMAIN k : f[i] \in DOMAIN s /\ k[i] = s[f[i]]
               /\ \A i, j \in DOMAIN k : i < j => f[i] < f[j]
  BY RowsKept
<1> HIDE DEF k
<1>2. ASSUME NEW i \in DOMAIN k, NEW j \in DOMAIN k, i < j
      PROVE  C!Rank[k[i].severity] >= C!Rank[k[j].severity]
  <2>1. f[i] \in DOMAIN s /\ f[j] \in DOMAIN s /\ f[i] < f[j] /\ k[i] = s[f[i]] /\ k[j] = s[f[j]]
    BY <1>1, <1>2
  <2> QED BY <2>1 DEF C!BySeverity
<1>3. C!BySeverity(k)
  BY <1>2 DEF C!BySeverity
<1> QED BY <1>3 DEF k

\* The limit takes from the end, and leaves something of what is not empty.
LEMMA Limited ==
  ASSUME NEW s \in Seq(C!Row), args.limit \in Nat
  PROVE  /\ C!Truncate(s) \in Seq(C!Row)
         /\ s # <<>> => C!Truncate(s) # <<>> /\ 1 \in DOMAIN C!Truncate(s) /\ C!Truncate(s)[1] = s[1]
         /\ s = <<>> => C!Truncate(s) = <<>>
<1> DEFINE m == IF Len(s) < args.limit THEN Len(s) ELSE args.limit
<1>1. CASE args.limit = 0
  BY <1>1 DEF C!Truncate
<1>2. CASE args.limit # 0
  <2>1. Len(s) \in Nat /\ m \in Nat /\ m <= Len(s) /\ (s # <<>> => m >= 1)
    BY <1>2
  <2>2. C!Truncate(s) = SubSeq(s, 1, m)
    BY <1>2 DEF C!Truncate
  <2> HIDE DEF m
  <2>3. SubSeq(s, 1, m) \in Seq(C!Row) /\ Len(SubSeq(s, 1, m)) = m
    BY <2>1
  <2>4. \A i \in 1..m : SubSeq(s, 1, m)[i] = s[i]
    BY <2>1
  <2>5. s = <<>> => m = 0
    BY <2>1
  <2> QED BY <2>1, <2>2, <2>3, <2>4, <2>5
<1> QED BY <1>1, <1>2

LEMMA FilteredRows ==
  ASSUME NEW s \in Seq(C!Row), NEW d, args.limit \in Nat
  PROVE  C!Filtered(s, d) \in Seq(C!Row)
BY RowsKept, Limited DEF C!Filtered, C!Kept

-----------------------------------------------------------------------------
(* What holds as the command goes on *)

CommandRows ==
  /\ snapshot \in [rows : [C!Domains -> Seq(C!Row)], warnings : BOOLEAN]
  /\ found \in [C!Domains -> Seq(C!Row)] /\ C!BySeverity(found["findings"])
  /\ exit # "failure"
  /\ "fail_on" \in args.given <=> args.policy.fail_on # "none"

Concludes == exit \in {"success", "assertion"}

Validated ==
  step \notin {"validate", "done"} \/ Concludes => C!PolicyValid(args.policy) /\ C!ValidHere
Silent == out # {} => step = "assert" \/ Concludes
Asserted ==
  /\ step = "filter" => snapshot.rows = found
  /\ step \in {"emit", "assert"} \/ Concludes =>
       snapshot.rows = [d \in C!Domains |-> C!Filtered(found[d], d)]
  /\ exit = "success" =>
       C!Evaluate(args.policy, snapshot.rows, snapshot.warnings, args.command)

CommandInv == C!TypeOK /\ CommandRows /\ Validated /\ Silent /\ Asserted

LEMMA CommandStarts == C!Init => CommandInv
<1> SUFFICES ASSUME C!Init PROVE CommandInv
  OBVIOUS
<1>1. /\ args \in C!Args /\ step = "validate" /\ out = {} /\ exit = "none"
      /\ snapshot = [rows |-> [d \in C!Domains |-> <<>>], warnings |-> FALSE]
      /\ found = snapshot.rows
  BY DEF C!Init
<1>2. found = [d \in C!Domains |-> <<>>] /\ snapshot.rows = found /\ snapshot.warnings = FALSE
  BY <1>1
<1>3. found \in [C!Domains -> Seq(C!Row)]
  BY <1>2
<1>4. C!BySeverity(found["findings"])
  BY <1>2 DEF C!BySeverity, C!Domains
<1>5. snapshot \in [rows : [C!Domains -> Seq(C!Row)], warnings : BOOLEAN]
  BY <1>1, <1>2, <1>3
<1>6. CommandRows
  <2>1. "fail_on" \in args.given <=> args.policy.fail_on # "none"
    BY DEF C!Init
  <2> QED BY <1>1, <1>3, <1>4, <1>5, <2>1 DEF CommandRows
<1>7. C!TypeOK /\ Validated /\ Silent /\ Asserted
  BY <1>1 DEF C!TypeOK, Validated, Silent, Asserted, Concludes
<1> QED BY <1>6, <1>7 DEF CommandInv

\* A step that leaves the rows and the command line alone.
LEMMA RowsStay ==
  ASSUME CommandInv, UNCHANGED <<args, snapshot, found>>
  PROVE  /\ args' \in C!Args
         /\ snapshot' \in [rows : [C!Domains -> Seq(C!Row)], warnings : BOOLEAN]
         /\ found' \in [C!Domains -> Seq(C!Row)] /\ C!BySeverity(found'["findings"])
         /\ "fail_on" \in args'.given <=> args'.policy.fail_on # "none"
         /\ C!ValidHere' = C!ValidHere
         /\ \A d : C!Filtered(found[d], d)' = C!Filtered(found[d], d)
BY DEF CommandInv, CommandRows, C!TypeOK, C!ValidHere, C!Filtered, C!Truncate, C!Kept
LEMMA ValidateStep == ASSUME CommandInv, C!Validate PROVE CommandInv'
<1>1. /\ step = "validate" /\ args' = args /\ snapshot' = snapshot /\ found' = found /\ out' = out
      /\ \/ step' = "done" /\ exit' = "usage"
         \/ step' = "dispatch" /\ exit' = exit /\ C!PolicyValid(args.policy) /\ C!ValidHere
  BY DEF C!Validate, C!Finish
<1>2. exit = "none" /\ out = {}
  BY <1>1 DEF CommandInv, C!TypeOK, Silent, Concludes
<1>3. C!TypeOK' /\ CommandRows'
  BY <1>1, <1>2, RowsStay DEF C!TypeOK, CommandRows
<1>4. Validated' /\ Silent' /\ Asserted'
  BY <1>1, <1>2, RowsStay DEF Validated, Silent, Asserted, Concludes
<1> QED BY <1>3, <1>4 DEF CommandInv

LEMMA DispatchStep == ASSUME CommandInv, C!Dispatch PROVE CommandInv'
<1>1. /\ step = "dispatch" /\ args' = args /\ snapshot' = snapshot /\ found' = found /\ out' = out
      /\ \/ step' = "done" /\ exit' \in {"action", "usage", "interactive"}
         \/ step' = "collect" /\ exit' = exit
  BY DEF C!Dispatch, C!Finish
<1>2. exit = "none" /\ out = {} /\ C!PolicyValid(args.policy) /\ C!ValidHere
  BY <1>1 DEF CommandInv, C!TypeOK, Silent, Validated, Concludes
<1>3. C!TypeOK' /\ CommandRows'
  BY <1>1, <1>2, RowsStay DEF C!TypeOK, CommandRows
<1>4. Validated' /\ Silent' /\ Asserted'
  BY <1>1, <1>2, RowsStay DEF Validated, Silent, Asserted, Concludes
<1> QED BY <1>3, <1>4 DEF CommandInv

LEMMA CollectStep == ASSUME CommandInv, C!Collect PROVE CommandInv'
<1>1. /\ step = "collect" /\ step' = "filter" /\ args' = args /\ out' = out /\ exit' = exit
      /\ found' = snapshot'.rows
  BY DEF C!Collect
<1>2. PICK few \in Contents, rows \in Contents, warns \in BOOLEAN :
        /\ C!BySeverity(rows)
        /\ snapshot' = [rows |-> [d \in C!Domains |->
                          IF d \in C!Primary(args.command) \ {"findings"} THEN few
                          ELSE IF d = "findings" THEN rows ELSE <<>>],
                        warnings |-> warns]
  BY DEF C!Collect
<1>3. few \in Seq(C!Row) /\ rows \in Seq(C!Row)
  BY CommandsAssumption DEF C!CommandAssumption
<1>4. /\ found' = [d \in C!Domains |->
                     IF d \in C!Primary(args.command) \ {"findings"} THEN few
                     ELSE IF d = "findings" THEN rows ELSE <<>>]
      /\ snapshot'.rows = found' /\ snapshot'.warnings = warns
  BY <1>1, <1>2
<1>5. found' \in [C!Domains -> Seq(C!Row)]
  BY <1>3, <1>4
<1>6. found'["findings"] = rows
  BY <1>4 DEF C!Domains
<1>7. snapshot' \in [rows : [C!Domains -> Seq(C!Row)], warnings : BOOLEAN]
  BY <1>2, <1>4, <1>5
<1>8. /\ exit = "none" /\ out = {} /\ C!PolicyValid(args.policy) /\ C!ValidHere /\ args \in C!Args
      /\ "fail_on" \in args.given <=> args.policy.fail_on # "none"
  BY <1>1 DEF CommandInv, CommandRows, C!TypeOK, Silent, Validated, Concludes
<1>9. C!TypeOK' /\ CommandRows'
  BY <1>1, <1>2, <1>5, <1>6, <1>7, <1>8 DEF C!TypeOK, CommandRows, C!BySeverity
<1>10. C!ValidHere'
  BY <1>1, <1>8 DEF C!ValidHere
<1>11. Validated' /\ Silent' /\ Asserted'
  BY <1>1, <1>4, <1>8, <1>10 DEF Validated, Silent, Asserted, Concludes
<1> QED BY <1>9, <1>11 DEF CommandInv

LEMMA FilterStep == ASSUME CommandInv, C!Filter PROVE CommandInv'
<1>1. step = "filter" /\ args' = args /\ found' = found /\ out' = out
  BY DEF C!Filter
<1>2. /\ exit = "none" /\ out = {} /\ C!PolicyValid(args.policy) /\ C!ValidHere /\ args \in C!Args
      /\ snapshot.rows = found
  BY <1>1 DEF CommandInv, C!TypeOK, Silent, Validated, Asserted, Concludes
<1>3. CASE step' = "done" /\ exit' = "usage" /\ snapshot' = snapshot
  <2>1. C!TypeOK' /\ CommandRows'
    BY <1>1, <1>2, <1>3, RowsStay DEF C!TypeOK, CommandRows
  <2>2. Validated' /\ Silent' /\ Asserted'
    BY <1>1, <1>2, <1>3 DEF Validated, Silent, Asserted, Concludes
  <2> QED BY <2>1, <2>2 DEF CommandInv
<1>4. CASE /\ step' = "emit" /\ exit' = exit
           /\ snapshot' = [snapshot EXCEPT !.rows = [d \in C!Domains |-> C!Filtered(@[d], d)]]
  <2>1. snapshot \in [rows : [C!Domains -> Seq(C!Row)], warnings : BOOLEAN]
    BY DEF CommandInv, CommandRows
  <2>2. /\ snapshot'.rows = [d \in C!Domains |-> C!Filtered(found[d], d)]
        /\ snapshot'.warnings = snapshot.warnings
        /\ snapshot' = [rows |-> snapshot'.rows, warnings |-> snapshot'.warnings]
    BY <1>2, <1>4, <2>1
  <2>3. args.limit \in Nat
    BY <1>2, CommandsAssumption DEF C!CommandAssumption, C!Args
  <2>4. \A d \in C!Domains : C!Filtered(found[d], d) \in Seq(C!Row)
    BY <2>3, FilteredRows DEF CommandInv, CommandRows
  <2>5. snapshot' \in [rows : [C!Domains -> Seq(C!Row)], warnings : BOOLEAN]
    BY <2>1, <2>2, <2>4
  <2>6. C!TypeOK'
    BY <1>1, <1>2, <1>4 DEF C!TypeOK
  <2>7. CommandRows'
    BY <1>1, <1>2, <1>4, <2>5 DEF CommandRows, CommandInv, C!BySeverity
  <2>8. C!ValidHere'
    BY <1>1, <1>2 DEF C!ValidHere
  <2>9. \A d : C!Filtered(found[d], d)' = C!Filtered(found[d], d)
    BY <1>1 DEF C!Filtered, C!Truncate, C!Kept
  <2>10. Validated' /\ Silent'
    BY <1>1, <1>2, <1>4, <2>8 DEF Validated, Silent, Concludes
  <2>11. Asserted'
    BY <1>2, <1>4, <2>2, <2>9 DEF Asserted, Concludes
  <2> QED BY <2>6, <2>7, <2>10, <2>11 DEF CommandInv
<1> QED BY <1>3, <1>4 DEF C!Filter, C!Finish

LEMMA EmitStep == ASSUME CommandInv, C!Emit PROVE CommandInv'
<1>1. /\ step = "emit" /\ args' = args /\ snapshot' = snapshot /\ found' = found
      /\ \/ step' = "done" /\ exit' = "usage" /\ out' = out
         \/ step' = "assert" /\ exit' = exit
  BY DEF C!Emit, C!Finish
<1>2. /\ exit = "none" /\ out = {} /\ C!PolicyValid(args.policy) /\ C!ValidHere
      /\ snapshot.rows = [d \in C!Domains |-> C!Filtered(found[d], d)]
  BY <1>1 DEF CommandInv, C!TypeOK, Silent, Validated, Asserted, Concludes
<1>3. C!TypeOK' /\ CommandRows'
  BY <1>1, <1>2, RowsStay DEF C!TypeOK, CommandRows
<1>4. Validated' /\ Silent' /\ Asserted'
  BY <1>1, <1>2, RowsStay DEF Validated, Silent, Asserted, Concludes
<1> QED BY <1>3, <1>4 DEF CommandInv

\* What the assertions say of the same rows is the same.
LEMMA EvaluateStays ==
  ASSUME UNCHANGED <<args, snapshot>>
  PROVE  C!Evaluate(args.policy, snapshot.rows, snapshot.warnings, args.command)' <=>
         C!Evaluate(args.policy, snapshot.rows, snapshot.warnings, args.command)
<1>1. args' = args /\ snapshot' = snapshot
  OBVIOUS
<1>2. C!Evaluate(args.policy, snapshot.rows, snapshot.warnings, args.command)' <=>
      C!Evaluate(args'.policy, snapshot'.rows, snapshot'.warnings, args'.command)
  OBVIOUS
<1> QED BY <1>1, <1>2

LEMMA AssertStep == ASSUME CommandInv, C!EvaluateAssertions PROVE CommandInv'
<1>1. /\ step = "assert" /\ args' = args /\ snapshot' = snapshot /\ found' = found /\ out' = out
      /\ step' = "done"
  BY DEF C!EvaluateAssertions, C!Finish
<1>2. /\ exit = "none" /\ C!PolicyValid(args.policy) /\ C!ValidHere
      /\ snapshot.rows = [d \in C!Domains |-> C!Filtered(found[d], d)]
  BY <1>1 DEF CommandInv, C!TypeOK, Validated, Asserted, Concludes
<1>3. \/ /\ exit' = "success"
         /\ C!Evaluate(args.policy, snapshot.rows, snapshot.warnings, args.command)
      \/ exit' = "assertion"
  BY <1>2 DEF C!EvaluateAssertions, C!Finish
<1>4. C!TypeOK' /\ CommandRows'
  BY <1>1, <1>2, <1>3, RowsStay DEF C!TypeOK, CommandRows
<1>5. Validated' /\ Silent'
  BY <1>1, <1>2, <1>3, RowsStay DEF Validated, Silent, Concludes
<1>6. Asserted'
  BY <1>1, <1>2, <1>3, RowsStay, EvaluateStays DEF Asserted, Concludes
<1> QED BY <1>4, <1>5, <1>6 DEF CommandInv

LEMMA CommandMoves == CommandInv /\ [C!Next]_commandVars => CommandInv'
<1>1. ASSUME CommandInv, C!Next PROVE CommandInv'
  BY <1>1, ValidateStep, DispatchStep, CollectStep, FilterStep, EmitStep, AssertStep DEF C!Next
<1>2. ASSUME CommandInv, UNCHANGED commandVars PROVE CommandInv'
  <2>1. /\ step' = step /\ args' = args /\ snapshot' = snapshot /\ found' = found /\ out' = out
        /\ exit' = exit
    BY <1>2 DEF commandVars
  <2>2. C!TypeOK' /\ CommandRows'
    BY <1>2, <2>1 DEF CommandInv, C!TypeOK, CommandRows
  <2>3. Validated' /\ Silent'
    BY <1>2, <2>1, RowsStay DEF CommandInv, Validated, Silent, Concludes
  <2>4. Asserted'
    BY <1>2, <2>1, RowsStay, EvaluateStays DEF CommandInv, Asserted, Concludes
  <2> QED BY <2>2, <2>3, <2>4 DEF CommandInv
<1> QED BY <1>1, <1>2

-----------------------------------------------------------------------------
(* What is counted *)

LEMMA PrimaryFinite == ASSUME NEW cmd PROVE IsFiniteSet(C!Primary(cmd)) /\ C!Primary(cmd) \subseteq C!Domains
<1>1. \A x : IsFiniteSet({x})
  BY FS_Singleton
<1>2. IsFiniteSet({"accounts", "groups", "certificates"})
  <2>1. IsFiniteSet({"accounts"} \cup {"groups"})
    BY <1>1, FS_AddElement
  <2>2. IsFiniteSet(({"accounts"} \cup {"groups"}) \cup {"certificates"})
    BY <2>1, FS_AddElement
  <2>3. {"accounts", "groups", "certificates"} = ({"accounts"} \cup {"groups"}) \cup {"certificates"}
    OBVIOUS
  <2> QED BY <2>2, <2>3
<1>3. \/ C!Primary(cmd) = {cmd} /\ cmd \in {"services", "containers", "logs"}
      \/ \E x \in {"mounts", "sockets", "hardware_devices", "findings", "processes"} :
           C!Primary(cmd) = {x}
      \/ C!Primary(cmd) = {"accounts", "groups", "certificates"}
  BY DEF C!Primary
<1> QED BY <1>1, <1>2, <1>3 DEF C!Domains

\* A count is that of rows: zero if there is none, and only then.
LEMMA CountOfRows ==
  ASSUME NEW rows \in [C!Domains -> Seq(C!Row)], NEW cmd
  PROVE  /\ C!Count(rows, cmd) \in Nat
         /\ C!Count(rows, cmd) = 0 <=> \A d \in C!Primary(cmd) : rows[d] = <<>>
<1> DEFINE P0 == C!Primary(cmd)
           f == [d \in P0 |-> {d} \X DOMAIN rows[d]]
           S0 == {f[d] : d \in P0}
<1>1. IsFiniteSet(P0) /\ P0 \subseteq C!Domains
  BY PrimaryFinite
<1>2. IsFiniteSet(S0)
  <2>1. f \in Surjection(P0, S0)
    BY DEF Surjection
  <2> QED BY <1>1, <2>1, FS_Surjection
<1>3. ASSUME NEW d \in P0 PROVE IsFiniteSet({d} \X DOMAIN rows[d])
  <2>1. rows[d] \in Seq(C!Row)
    BY <1>1
  <2>2. Len(rows[d]) \in Nat /\ DOMAIN rows[d] = 1..Len(rows[d])
    BY <2>1
  <2>3. IsFiniteSet(DOMAIN rows[d])
    BY <2>2, FS_Interval
  <2> QED BY <2>3, FS_Singleton, FS_Product
<1>4. IsFiniteSet(UNION S0)
  BY <1>2, <1>3, FS_UNION
<1>5. C!PrimaryRows(rows, cmd) = UNION S0
  BY DEF C!PrimaryRows
<1>6. C!Count(rows, cmd) = Cardinality(UNION S0)
  BY <1>5 DEF C!Count, C!Cardinality, Cardinality
<1>7. C!Count(rows, cmd) \in Nat /\ (C!Count(rows, cmd) = 0 <=> UNION S0 = {})
  BY <1>4, <1>6, FS_CardinalityType, FS_EmptySet
<1>8. UNION S0 = {} <=> \A d \in P0 : DOMAIN rows[d] = {}
  <2>1. ASSUME UNION S0 = {}, NEW d \in P0 PROVE DOMAIN rows[d] = {}
    <3>1. f[d] \in S0 /\ f[d] = {d} \X DOMAIN rows[d]
      OBVIOUS
    <3>2. {d} \X DOMAIN rows[d] = {}
      BY <2>1, <3>1
    <3>3. \A i \in DOMAIN rows[d] : <<d, i>> \in {d} \X DOMAIN rows[d]
      OBVIOUS
    <3> QED BY <3>2, <3>3
  <2>2. ASSUME \A d \in P0 : DOMAIN rows[d] = {} PROVE UNION S0 = {}
    <3>1. \A d \in P0 : f[d] = {}
      BY <2>2
    <3> QED BY <3>1
  <2> QED BY <2>1, <2>2
<1>9. ASSUME NEW d \in P0 PROVE DOMAIN rows[d] = {} <=> rows[d] = <<>>
  <2>1. rows[d] \in Seq(C!Row)
    BY <1>1
  <2>2. Len(rows[d]) \in Nat /\ DOMAIN rows[d] = 1..Len(rows[d])
    BY <2>1
  <2>3. rows[d] = <<>> <=> Len(rows[d]) = 0
    BY <2>1
  <2>4. 1..Len(rows[d]) = {} <=> Len(rows[d]) = 0
    <3>1. Len(rows[d]) # 0 => 1 \in 1..Len(rows[d])
      BY <2>2
    <3>2. Len(rows[d]) = 0 => 1..Len(rows[d]) = {}
      BY <2>2
    <3> QED BY <3>1, <3>2
  <2> QED BY <2>2, <2>3, <2>4
<1> HIDE DEF S0, f, P0
<1>11. C!Count(rows, cmd) = 0 <=> \A d \in P0 : rows[d] = <<>>
  BY <1>7, <1>8, <1>9
<1> QED BY <1>7, <1>11 DEF P0

\* The options of a command are those of the rows it counts.
LEMMA OptionsFilter ==
  ASSUME NEW o \in DOMAIN C!Filters, o # "interface", NEW cmd \in C!Specialists,
         o \in DOMAIN C!Home => cmd \in C!Home[o]
  PROVE  C!Primary(cmd) \subseteq C!Filters[o]
<1>1. CASE o \in {"name", "runtime", "image", "status", "state", "active", "enabled", "service"}
  BY <1>1 DEF C!Filters, C!Home, C!Primary
<1>2. CASE o \in {"severity", "process", "unit", "contains", "mount", "min_used_percent", "fstype"}
  BY <1>2 DEF C!Filters, C!Home, C!Primary
<1>3. CASE o \in {"listening", "port", "proto", "class", "serial", "section", "min_severity", "id"}
  BY <1>3 DEF C!Filters, C!Home, C!Primary
<1>4. CASE o = "filter"
  BY <1>4 DEF C!Filters, C!Primary, C!Specialists, C!Domains
<1> QED BY <1>1, <1>2, <1>3, <1>4 DEF C!Filters

\* What is counted is what matches, up to the limit.
LEMMA CountsMatches ==
  ASSUME CommandInv, Concludes, args.command \in C!Specialists, "interface" \notin args.given,
         NEW d \in C!Primary(args.command)
  PROVE  /\ C!AcceptedRows[d] = C!Kept(found[d], d) /\ C!AcceptedRows[d] \in Seq(C!Row)
         /\ snapshot.rows[d] = C!Truncate(C!AcceptedRows[d])
<1>1. d \in C!Domains
  BY PrimaryFinite
<1>2. \A o \in args.given \cap DOMAIN C!Home : args.command \in C!Home[o]
  <2>1. C!ValidHere
    BY DEF CommandInv, Validated
  <2> QED BY <2>1 DEF C!ValidHere
<1>3. \A o \in args.given \cap DOMAIN C!Filters : d \in C!Filters[o]
  BY <1>2, OptionsFilter
<1> DEFINE K1 == {row \in C!Row : \A o \in args.given \cap DOMAIN C!Filters :
                                    d \in C!Filters[o] => o \in row.satisfies}
           K2 == {row \in C!Row : args.given \cap DOMAIN C!Filters \subseteq row.satisfies}
<1>4. K1 = K2
  BY <1>3
<1>5. C!AcceptedRows[d] = C!Retain(found[d], K2) /\ C!Kept(found[d], d) = C!Retain(found[d], K1)
  BY <1>1 DEF C!AcceptedRows, C!Kept
<1>6. found[d] \in Seq(C!Row)
  BY <1>1 DEF CommandInv, CommandRows
<1> HIDE DEF K1, K2
<1>7. C!AcceptedRows[d] \in Seq(C!Row)
  BY <1>5, <1>6, RowsKept
<1>8. snapshot.rows[d] = C!Filtered(found[d], d)
  BY <1>1 DEF CommandInv, Asserted
<1> QED BY <1>4, <1>5, <1>7, <1>8 DEF C!Filtered

LEMMA SuccessIsTrue == ASSUME CommandInv PROVE C!SuccessHolds
<1> SUFFICES ASSUME exit = "success", args.command \in C!Specialists, "interface" \notin args.given
             PROVE  /\ args.policy.fail_if_any => C!Count(C!AcceptedRows, args.command) = 0
                    /\ args.policy.fail_if_empty => C!Count(C!AcceptedRows, args.command) > 0
                    /\ args.policy.fail_on # "none" =>
                         \A i \in DOMAIN C!AcceptedRows["findings"] :
                           ~C!FailOnMatches(args.policy.fail_on, C!AcceptedRows["findings"][i].severity)
  BY DEF C!SuccessHolds
<1> DEFINE cmd == args.command
           n == C!Count(snapshot.rows, cmd)
           all == C!Count(C!AcceptedRows, cmd)
<1>0. /\ Concludes /\ args \in C!Args /\ args.limit \in Nat
      /\ snapshot.rows \in [C!Domains -> Seq(C!Row)] /\ found \in [C!Domains -> Seq(C!Row)]
      /\ C!BySeverity(found["findings"])
  BY CommandsAssumption DEF CommandInv, CommandRows, Concludes, C!TypeOK, C!Args, C!CommandAssumption
<1>1. C!Evaluate(args.policy, snapshot.rows, snapshot.warnings, cmd)
  BY DEF CommandInv, Asserted
<1>2. C!AcceptedRows \in [C!Domains -> Seq(C!Row)]
  BY <1>0, RowsKept DEF C!AcceptedRows
<1>3. /\ n \in Nat /\ (n = 0 <=> \A d \in C!Primary(cmd) : snapshot.rows[d] = <<>>)
      /\ all \in Nat /\ (all = 0 <=> \A d \in C!Primary(cmd) : C!AcceptedRows[d] = <<>>)
  BY <1>0, <1>2, CountOfRows
<1>4. ASSUME NEW d \in C!Primary(cmd) PROVE snapshot.rows[d] = <<>> <=> C!AcceptedRows[d] = <<>>
  BY <1>0, CountsMatches, Limited
<1>5. n = 0 <=> all = 0
  BY <1>3, <1>4
<1>6. /\ args.policy.fail_if_any => ~(n > 0)
      /\ args.policy.fail_if_empty => n # 0
  BY <1>1 DEF C!Evaluate
<1> HIDE DEF n, all
<1>7. args.policy.fail_if_any => all = 0
  BY <1>3, <1>5, <1>6
<1>8. args.policy.fail_if_empty => all > 0
  BY <1>3, <1>5, <1>6
<1>9. ASSUME args.policy.fail_on # "none", NEW i \in DOMAIN C!AcceptedRows["findings"]
      PROVE  ~C!FailOnMatches(args.policy.fail_on, C!AcceptedRows["findings"][i].severity)
  <2>1. "fail_on" \in args.given
    BY <1>9 DEF CommandInv, CommandRows
  <2>2. cmd = "health"
    <3>1. C!ValidHere
      BY <1>0 DEF CommandInv, Validated
    <3>2. \A o \in args.given \cap DOMAIN C!Home : cmd \in C!Home[o]
      BY <3>1 DEF C!ValidHere
    <3>3. "fail_on" \in DOMAIN C!Home /\ C!Home["fail_on"] = {"health"}
      BY DEF C!Home
    <3> QED BY <2>1, <3>2, <3>3
  <2>3. "findings" \in C!Primary(cmd)
    BY <2>2 DEF C!Primary
  <2> DEFINE a == C!AcceptedRows["findings"]
  <2>4. a = C!Kept(found["findings"], "findings") /\ a \in Seq(C!Row) /\ snapshot.rows["findings"] = C!Truncate(a)
    BY <1>0, <2>3, CountsMatches
  <2>5. found["findings"] \in Seq(C!Row)
    BY <1>0 DEF C!Domains
  <2>6. C!BySeverity(a)
    BY <1>0, <2>4, <2>5, KeptBySeverity DEF C!Kept
  <2>7. i \in DOMAIN a
    BY <1>9
  <2> HIDE DEF a
  <2>8. a # <<>> /\ 1 \in DOMAIN a /\ (i = 1 \/ 1 < i) /\ a[1] \in C!Row /\ a[i] \in C!Row
    BY <2>4, <2>7
  <2>9. 1 \in DOMAIN C!Truncate(a) /\ C!Truncate(a)[1] = a[1]
    BY <1>0, <2>4, <2>8, Limited
  <2>10. ~C!FailOnMatches(args.policy.fail_on, a[1].severity)
    BY <1>1, <1>9, <2>4, <2>9 DEF C!Evaluate
  <2>11. C!Rank[a[1].severity] >= C!Rank[a[i].severity]
    <3>1. C!Rank[a[1].severity] \in Nat
      BY <2>8 DEF C!Row, C!Severities, C!Rank
    <3> QED BY <2>6, <2>7, <2>8, <3>1 DEF C!BySeverity
  <2>12. a[1].severity \in C!Severities /\ a[i].severity \in C!Severities
    BY <2>8 DEF C!Row
  <2>13. ~C!FailOnMatches(args.policy.fail_on, a[i].severity)
    BY <2>10, <2>11, <2>12 DEF C!FailOnMatches, C!Rank, C!Severities
  <2> QED BY <2>13 DEF a
<1> QED BY <1>7, <1>8, <1>9 DEF all

LEMMA CommandInvHolds ==
  CommandInv => C!TypeOK /\ C!RefusedIsSilent /\ C!SuccessHolds /\ C!ClosedPipeIsNoFailure
<1> SUFFICES ASSUME CommandInv
             PROVE  C!TypeOK /\ C!RefusedIsSilent /\ C!SuccessHolds /\ C!ClosedPipeIsNoFailure
  OBVIOUS
<1>1. C!TypeOK /\ C!SuccessHolds
  BY SuccessIsTrue DEF CommandInv
<1>2. C!RefusedIsSilent
  BY DEF CommandInv, Silent, Concludes, C!TypeOK, C!RefusedIsSilent
<1>3. C!ClosedPipeIsNoFailure
  BY DEF CommandInv, CommandRows, C!ClosedPipeIsNoFailure
<1> QED BY <1>1, <1>2, <1>3

\* For every command, every set of options, policy, format and limit, and whatever is collected:
\* a command line that is refused writes nothing, a reader that goes away is no failure, and
\* success means what the assertions say of everything that matches (run_view,
\* apply_view_filters, PrimaryDomain::count, AssertionPolicy::evaluate).
THEOREM ExitIsTrue == ToolsSpec => []CommandsHold
<1> DEFINE I == part = "command" => CommandInv
<1>1. ToolsInit => I
  BY CommandStarts DEF ToolsInit
<1>2. I /\ [ToolsNext]_allvars => I'
  BY OnePartMoves, CommandMoves DEF PartMoves
<1>3. I => CommandsHold
  BY CommandInvHolds DEF CommandsHold
<1> QED BY <1>1, <1>2, <1>3, PTL DEF ToolsSpec

-----------------------------------------------------------------------------
\* What the user is shown is true of what there is.  On every terminal of 36
\* columns and ten rows at least, with lists, details, charts and cards of any
\* size: the selected row of a list is on the terminal (from fifteen rows on), that
\* of the cockpit is (from fifteen to thirty-nine rows, not at 52 and 53 columns),
\* every line of a specialist is (from 46 columns on), and a detail that fits is not
\* cut by what is added under it.
\* And for every snapshot of any number of processes, whatever their parents look
\* like, every filter, order and limit: a listing shows every match once, a child
\* under its parent, and a group together under one heading.
THEOREM DisplayIsTrue == ToolsSpec => []DisplayHolds
<1> DEFINE Inv == /\ part = "screen" => ScreenInv
                  /\ part = "selection" => SelectionInv
<1>1. ToolsInit => Inv
  <2> SUFFICES ASSUME ToolsInit PROVE Inv
    OBVIOUS
  <2>1. CASE part = "screen"
    <3>1. W!Init
      BY <2>1 DEF ToolsInit
    <3> QED BY <2>1, <3>1, ScreenStarts DEF ScreenInv
  <2>2. CASE part = "selection"
    <3>1. L!Init
      BY <2>2 DEF ToolsInit
    <3> QED BY <2>2, <3>1, SelectionStarts
  <2> QED BY <2>1, <2>2
<1>2. Inv /\ [ToolsNext]_allvars => Inv'
  BY OnePartMoves, ScreenMoves, SelectionMoves DEF PartMoves
<1>3. Inv => DisplayHolds
  BY ScreenShows, SelectionShows DEF DisplayHolds
<1> HIDE DEF Inv
<1> QED BY <1>1, <1>2, <1>3, PTL DEF ToolsSpec
=============================================================================
