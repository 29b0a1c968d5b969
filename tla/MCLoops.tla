------------------------------- MODULE MCLoops -------------------------------
(* The event loops of the specialist views and of the cockpit on small        *)
(* instances.  A behaviour is about the loop that `loop` names; variables of  *)
(* the same name serve whichever that is, those of the other loop are unused. *)
EXTENDS SpecialistLoop

CONSTANTS a, b, Cards, CockpitEpoch, CockpitKeys

VARIABLES loop, figures, ready, liveDue, inFlight, latest, reported, sampler, requests,
          answers, away

C == INSTANCE CockpitLoop WITH shown <- figures, MaxEpoch <- CockpitEpoch, MaxKeys <- CockpitKeys

ASSUME CockpitBounds == C!CockpitAssumption

MCWorlds == {<<a>>, <<a, b>>, <<b, a>>}

specialistOnly == <<view, world, shown, source, inspecting, follow, mode, paused, query,
                    polling, strays, dialog, offered, executed, settled>>
cockpitOnly == <<figures, ready, liveDue, inFlight, latest, reported, sampler, requests,
                 answers, away>>
allvars == <<loop, vars, cockpitOnly>>

SpecialistUnused ==
  /\ view = "none" /\ world = <<>> /\ shown = Empty /\ source = Empty
  /\ inspecting = FALSE /\ follow = FALSE /\ mode = FALSE /\ paused = FALSE
  /\ query = FALSE /\ polling = FALSE /\ strays = 0 /\ dialog = Closed
  /\ offered = Nothing /\ executed = Nothing /\ settled = 0
CockpitUnused ==
  /\ figures = C!Blank /\ ready = FALSE /\ liveDue = FALSE /\ inFlight = FALSE
  /\ latest = 0 /\ reported = FALSE /\ sampler = "none" /\ requests = 0
  /\ answers = <<>> /\ away = FALSE

Specialist(action) == loop = "specialist" /\ action /\ UNCHANGED <<loop, cockpitOnly>>
Cockpit(action) == loop = "cockpit" /\ action /\ UNCHANGED <<loop, specialistOnly>>

LoopsInit == \/ loop = "specialist" /\ Init /\ CockpitUnused
             \/ loop = "cockpit" /\ C!Init /\ SpecialistUnused

LoopsNext == Specialist(Next) \/ Cockpit(C!Next)

\* The fairness of each loop; a behaviour is about one of them, so that each line
\* assumes of it what its own specification does.
LoopsFairness ==
  /\ WF_allvars(Specialist(SendFirst \/ SendLast) \/ Cockpit(C!SendBase \/ C!SendFull))
  /\ WF_allvars(Specialist(BecomeDue) \/ Cockpit(C!BecomeDue))
  /\ WF_allvars(Specialist(StartContainerPoll \/ StartInventory) \/ Cockpit(C!StartInventory))
  /\ WF_allvars(\/ Specialist(SkipFirstPart \/ DropWhilePaused \/ KeepStale \/ ShowUpdate \/ NoticeDeath)
                \/ Cockpit(C!SkipBase \/ C!ShowInventory \/ C!NoticeDeath))
  /\ WF_allvars(Cockpit(C!TakeRequest \/ C!SendSample))
  /\ WF_allvars(Cockpit(C!ShowSample \/ C!ReportError \/ C!SamplerGone))
  /\ WF_allvars(Cockpit(C!AskSample)) /\ WF_allvars(Cockpit(C!BecomeLiveDue))

LoopsSpec == LoopsInit /\ [][LoopsNext]_allvars /\ LoopsFairness

\* What a collection puts on the screen of a specialist is the answer to the question
\* it last asked, also when an earlier answer is late (the keys f and v may show the
\* answer before it, SpecialistLoop); while a thread works for it the specialist waits.
AnswersAwaited ==
  loop = "specialist" => TypeOK /\ IdleMeansOver /\ OnlyTheAwaitedAnswer

\* The cursor is on a row, and what a dialog executes is the row it was opened on,
\* whatever arrived, moved or vanished in between.
ActsOnTheRow == loop = "specialist" => CursorOnRow /\ ActsOnWhatWasOffered

\* Neither a collection nor a lost thread moves an open detail to another row or
\* changes what a paused view shows.
RowsHold == DetailHolds /\ PausedHolds

\* The specialist comes to show the host as it is (SpecialistLoop).
SpecialistCatchesUp == loop = "specialist" => CatchesUp

\* The cockpit has one sample and one collection under way at most, and once
\* it has shown a complete inventory it goes on showing one, until r empties the screen.
CockpitHolds ==
  loop = "cockpit" => C!TypeOK /\ C!OneSampleUnderway /\ C!OneCollection /\ C!CompleteStays

\* The host figures of the cockpit never go back in time (CockpitLoop).
HostNeverGoesBack == C!HostNeverGoesBack

\* The cockpit comes to show the host as it is (CockpitLoop).
CockpitCatchesUp == loop = "cockpit" => C!CockpitCatchesUp
=============================================================================
