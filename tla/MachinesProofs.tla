---------------------------- MODULE MachinesProofs ----------------------------
(***************************************************************************)
(* Theorems about the machines of MCMachines, for all values of their      *)
(* constants: for each, an inductive invariant of the machine's own Init   *)
(* and Next, and the property of the composition that follows from it.     *)
(***************************************************************************)
EXTENDS MCMachines, OperationsProofs, SettingsProofs, TLAPS

------------------------------------------------------------------------------
(* A behaviour is one of one machine                                        *)

\* The machine of a behaviour stays the same.
LEMMA WhichStays ==
    ASSUME [MachinesNext]_machineVars
    PROVE  which' = which
  BY DEF MachinesNext, machineVars, ButEnrichment, ButSearches, ButFetch, ButScoring,
         ButSelection, ButTuning, ButExtract, ButCriteria, ButSources, ButWeights,
         ButRestore, ButUpdates, ButGenerations, ButToday

------------------------------------------------------------------------------
(* Searches                                                                 *)

SearchesLifted == which = "searches" => SearchesInv

\* In a behaviour of Searches every step is one of Searches.
LEMMA SearchesStep ==
    ASSUME [MachinesNext]_machineVars, which = "searches"
    PROVE  [SearchesNext]_searchesVars
  BY DEF MachinesNext, machineVars, searchesVars

\* What a poll tells is what became of the scan, and a second scan in the background is
\* excused, however threads, kills, time limits and restarts fall, for any number of
\* kickoffs and jobs (SearchIsTold: PollIsTrue, OneScanAtATime).
THEOREM SearchIsToldTheorem == Machines => []SearchIsTold
  <1>1. MachinesInit => SearchesLifted
    BY SearchesStart DEF MachinesInit, SearchesLifted
  <1>2. SearchesLifted /\ [MachinesNext]_machineVars => SearchesLifted'
    <2> SUFFICES ASSUME SearchesLifted, [MachinesNext]_machineVars, which' = "searches"
                 PROVE  SearchesInv'
      BY DEF SearchesLifted
    <2>1. which = "searches"
      BY WhichStays
    <2>2. SearchesInv
      BY <2>1 DEF SearchesLifted
    <2> QED BY <2>1, <2>2, SearchesStep, SearchesKeep
  <1>3. SearchesLifted => SearchIsTold
    BY OneInLine DEF SearchesLifted, SearchIsTold, SearchesInv
  <1> QED BY <1>1, <1>2, <1>3, PTL DEF Machines

------------------------------------------------------------------------------
(* Fetch                                                                    *)

FetchLifted == which = "fetch" => FetchInv

LEMMA FetchStep ==
    ASSUME [MachinesNext]_machineVars, which = "fetch"
    PROVE  [FetchNext]_fetchVars
  BY DEF MachinesNext, machineVars, fetchVars

\* No window of Companies House holds more requests than it may, for any limit, window
\* and delays, and no page is asked for that robots.txt does not allow (FetchIsPolite).
THEOREM FetchIsPoliteTheorem == Machines => []FetchIsPolite
  <1>1. MachinesInit => FetchLifted
    BY FetchStart DEF MachinesInit, FetchLifted
  <1>2. FetchLifted /\ [MachinesNext]_machineVars => FetchLifted'
    <2> SUFFICES ASSUME FetchLifted, [MachinesNext]_machineVars, which' = "fetch"
                 PROVE  FetchInv'
      BY DEF FetchLifted
    <2>1. which = "fetch"
      BY WhichStays
    <2>2. FetchInv
      BY <2>1 DEF FetchLifted
    <2> QED BY <2>1, <2>2, FetchStep, FetchKeep
  <1>3. FetchLifted => FetchIsPolite
    BY CountedIsKept DEF FetchLifted, FetchIsPolite, FetchInv, Remembered
  <1> QED BY <1>1, <1>2, <1>3, PTL DEF Machines

------------------------------------------------------------------------------
(* Extract                                                                  *)

ExtractLifted == which = "extract" => ExtractInv

LEMMA ExtractStep ==
    ASSUME [MachinesNext]_machineVars, which = "extract"
    PROVE  [ExtractNext]_extractVars
  BY DEF MachinesNext, machineVars, extractVars

\* What a row says of a company stands in a sentence with its name or a human is asked to
\* look, by the prompt of the run, for any articles, replies, prompts and companies and any
\* number of runs, edits and crashes (RowsAreHonest: ReadingIsHonest).
THEOREM RowsAreHonestTheorem == Machines => []RowsAreHonest
  <1>1. MachinesInit => ExtractLifted
    BY ExtractStart DEF MachinesInit, ExtractLifted
  <1>2. ExtractLifted /\ [MachinesNext]_machineVars => ExtractLifted'
    <2> SUFFICES ASSUME ExtractLifted, [MachinesNext]_machineVars, which' = "extract"
                 PROVE  ExtractInv'
      BY DEF ExtractLifted
    <2>1. which = "extract"
      BY WhichStays
    <2>2. ExtractInv
      BY <2>1 DEF ExtractLifted
    <2> QED BY <2>1, <2>2, ExtractStep, ExtractKeeps
  <1>3. ExtractLifted => RowsAreHonest
    BY ExtractHolds DEF ExtractLifted, RowsAreHonest
  <1> QED BY <1>1, <1>2, <1>3, PTL DEF Machines

------------------------------------------------------------------------------
(* Scoring and Tuning                                                       *)

ScoringLifted == which = "scoring" => ScoringInv
TuningLifted == which = "tuning" => TuningInv

LEMMA ScoringStep ==
    ASSUME [MachinesNext]_machineVars, which = "scoring"
    PROVE  [ScoringNext]_scoringVars
  BY DEF MachinesNext, machineVars, scoringVars

LEMMA TuningStep ==
    ASSUME [MachinesNext]_machineVars, which = "tuning"
    PROVE  [TuningNext]_tuningVars
  BY DEF MachinesNext, machineVars, tuningVars

\* Nothing still to be learned for a hard rule takes a shortlisted company's route away, a
\* fund has one row of a company and a day's snapshots are of it, and a table of thresholds
\* that leaves nothing out has every change and the best F1 in it: for any companies, facts,
\* funds, rules, thresholds and verdicts (ScoresStand).
THEOREM ScoresStandTheorem == Machines => []ScoresStand
  <1>1. MachinesInit => ScoringLifted /\ TuningLifted
    BY ScoringStart, TuningStart DEF MachinesInit, ScoringLifted, TuningLifted
  <1>2. ScoringLifted /\ [MachinesNext]_machineVars => ScoringLifted'
    <2> SUFFICES ASSUME ScoringLifted, [MachinesNext]_machineVars, which' = "scoring"
                 PROVE  ScoringInv'
      BY DEF ScoringLifted
    <2>1. which = "scoring"
      BY WhichStays
    <2>2. ScoringInv
      BY <2>1 DEF ScoringLifted
    <2> QED BY <2>1, <2>2, ScoringStep, ScoringKeeps
  <1>3. TuningLifted /\ [MachinesNext]_machineVars => TuningLifted'
    <2> SUFFICES ASSUME TuningLifted, [MachinesNext]_machineVars, which' = "tuning"
                 PROVE  TuningInv'
      BY DEF TuningLifted
    <2>1. which = "tuning"
      BY WhichStays
    <2>2. TuningInv
      BY <2>1 DEF TuningLifted
    <2> QED BY <2>1, <2>2, TuningStep, TuningKeeps
  <1>4. ScoringLifted /\ TuningLifted => ScoresStand
    BY ScoringHolds, TuningHolds DEF ScoringLifted, TuningLifted, ScoresStand
  <1> QED BY <1>1, <1>2, <1>3, <1>4, PTL DEF Machines

------------------------------------------------------------------------------
(* Selection                                                                *)

SelectionLifted == which = "selection" => SelectionInv

LEMMA SelectionStep ==
    ASSUME [MachinesNext]_machineVars, which = "selection"
    PROVE  [SelectionNext]_selectionVars
  BY DEF MachinesNext, machineVars, selectionVars

\* Today's queue is fair, every surface shows the same of it, and a focus is on a fund
\* that was asked for: for any companies, scores, shares, sources, clients and rotations
\* (QueueIsFair).
THEOREM QueueIsFairTheorem == Machines => []QueueIsFair
  <1>1. MachinesInit => SelectionLifted
    BY SelectionStart DEF MachinesInit, SelectionLifted
  <1>2. SelectionLifted /\ [MachinesNext]_machineVars => SelectionLifted'
    <2> SUFFICES ASSUME SelectionLifted, [MachinesNext]_machineVars, which' = "selection"
                 PROVE  SelectionInv'
      BY DEF SelectionLifted
    <2>1. which = "selection"
      BY WhichStays
    <2>2. SelectionInv
      BY <2>1 DEF SelectionLifted
    <2> QED BY <2>1, <2>2, SelectionStep, SelectionKeeps
  <1>3. SelectionLifted => QueueIsFair
    BY SelectionHolds DEF SelectionLifted, QueueIsFair
  <1> QED BY <1>1, <1>2, <1>3, PTL DEF Machines

------------------------------------------------------------------------------
(* Weights                                                                  *)

WeightsLifted == which = "weights" => WeightsInv

LEMMA WeightsStep ==
    ASSUME [MachinesNext]_machineVars, which = "weights"
    PROVE  [WeightsNext]_weightsVars
  BY DEF MachinesNext, machineVars, weightsVars

\* The weights in force are weights that somebody gave for that attribute, value and fund,
\* a cell that is not taken as it is typed is said, and a SIC code has the sector beside
\* it: for any attributes, values, funds, cells that are typed and edits (WeightsAreKept).
THEOREM WeightsAreKeptTheorem == Machines => []WeightsAreKept
  <1>1. MachinesInit => WeightsLifted
    BY WeightsStart DEF MachinesInit, WeightsLifted
  <1>2. WeightsLifted /\ [MachinesNext]_machineVars => WeightsLifted'
    <2> SUFFICES ASSUME WeightsLifted, [MachinesNext]_machineVars, which' = "weights"
                 PROVE  WeightsInv'
      BY DEF WeightsLifted
    <2>1. which = "weights"
      BY WhichStays
    <2>2. WeightsInv
      BY <2>1 DEF WeightsLifted
    <2> QED BY <2>1, <2>2, WeightsStep, WeightsKeep
  <1>3. WeightsLifted => WeightsAreKept
    BY WeightsHold DEF WeightsLifted, WeightsAreKept
  <1> QED BY <1>1, <1>2, <1>3, PTL DEF Machines

------------------------------------------------------------------------------
(* Updates and Restore                                                      *)

UpdatesLifted == which = "updates" => UpdatesInv
RestoreLifted == which = "restore" => RestoreInv

LEMMA UpdatesStep ==
    ASSUME [MachinesNext]_machineVars, which = "updates"
    PROVE  [UpdatesNext]_updatesVars
  BY DEF MachinesNext, machineVars, updatesVars

LEMMA RestoreStep ==
    ASSUME [MachinesNext]_machineVars, which = "restore"
    PROVE  [RestoreNext]_restoreVars
  BY DEF MachinesNext, machineVars, restoreVars

\* Once no run, rollback or install is under way, what is checked out is what is installed,
\* unless the last install failed or was a mixture; an undisturbed rollback stays checked
\* out until it is released or replaced.  The database is one installed whole plus the writes
\* committed since, a migration is marked only with all its statements run, and what was
\* committed when a restore was confirmed is in a safety copy until that is old: for any
\* commits, runs, writes, migrations and days (ServerStands).
THEOREM ServerStandsTheorem == Machines => []ServerStands
  <1>1. MachinesInit => UpdatesLifted /\ RestoreLifted
    BY UpdatesStart, RestoreBegins DEF MachinesInit, UpdatesLifted, RestoreLifted
  <1>2. UpdatesLifted /\ [MachinesNext]_machineVars => UpdatesLifted'
    <2> SUFFICES ASSUME UpdatesLifted, [MachinesNext]_machineVars, which' = "updates"
                 PROVE  UpdatesInv'
      BY DEF UpdatesLifted
    <2>1. which = "updates"
      BY WhichStays
    <2>2. UpdatesInv
      BY <2>1 DEF UpdatesLifted
    <2> QED BY <2>1, <2>2, UpdatesStep, UpdatesKeep
  <1>3. RestoreLifted /\ [MachinesNext]_machineVars => RestoreLifted'
    <2> SUFFICES ASSUME RestoreLifted, [MachinesNext]_machineVars, which' = "restore"
                 PROVE  RestoreInv'
      BY DEF RestoreLifted
    <2>1. which = "restore"
      BY WhichStays
    <2>2. RestoreInv
      BY <2>1 DEF RestoreLifted
    <2> QED BY <2>1, <2>2, RestoreStep, RestoreKeeps
  <1>4. UpdatesLifted /\ RestoreLifted => ServerStands
    BY UpdatesHold, RestoreHolds DEF UpdatesLifted, RestoreLifted, ServerStands
  <1> QED BY <1>1, <1>2, <1>3, <1>4, PTL DEF Machines

------------------------------------------------------------------------------
(* Sources                                                                  *)

SourcesLifted == which = "sources" => SourcesInv

LEMMA SourcesStep ==
    ASSUME [MachinesNext]_machineVars, which = "sources"
    PROVE  [SourcesNext]_sourcesVars
  BY DEF MachinesNext, machineVars, sourcesVars

\* What the control room confirmed of a source stays said by the Sheet and the last-good
\* configuration, the legacy qualifier stays barred and a feed is one that was read, for
\* any sources, addresses and funds (SourcesAreKept: SwitchSticks, LegacyStaysBarred,
\* FeedWasRead).
THEOREM SourcesAreKeptTheorem == Machines => []SourcesAreKept
  <1>1. MachinesInit => SourcesLifted
    BY SourcesStart DEF MachinesInit, SourcesLifted
  <1>2. SourcesLifted /\ [MachinesNext]_machineVars => SourcesLifted'
    <2> SUFFICES ASSUME SourcesLifted, [MachinesNext]_machineVars, which' = "sources"
                 PROVE  SourcesInv'
      BY DEF SourcesLifted
    <2>1. which = "sources"
      BY WhichStays
    <2>2. SourcesInv
      BY <2>1 DEF SourcesLifted
    <2> QED BY <2>1, <2>2, SourcesStep, SourcesKeep
  <1>3. SourcesLifted => SourcesAreKept
    BY SourcesHold DEF SourcesLifted, SourcesAreKept
  <1> QED BY <1>1, <1>2, <1>3, PTL DEF Machines

------------------------------------------------------------------------------
(* Criteria                                                                 *)

CriteriaLifted == which = "criteria" => CriteriaInv

LEMMA CriteriaStep ==
    ASSUME [MachinesNext]_machineVars, which = "criteria"
    PROVE  [CriteriaNext]_criteriaVars
  BY DEF MachinesNext, machineVars, criteriaVars

\* No vehicle is scored under a HARD rule with places nobody gave it whole, and what the
\* control room confirmed is what is scored, for any vehicles, places and cells and any
\* number of edits and changes (CriteriaAreKept: GeographyWasStated, AnsweredIsScored).
THEOREM CriteriaAreKeptTheorem == Machines => []CriteriaAreKept
  <1>1. MachinesInit => CriteriaLifted
    BY CriteriaBegins DEF MachinesInit, CriteriaLifted
  <1>2. CriteriaLifted /\ [MachinesNext]_machineVars => CriteriaLifted'
    <2> SUFFICES ASSUME CriteriaLifted, [MachinesNext]_machineVars, which' = "criteria"
                 PROVE  CriteriaInv'
      BY DEF CriteriaLifted
    <2>1. which = "criteria"
      BY WhichStays
    <2>2. CriteriaInv
      BY <2>1 DEF CriteriaLifted
    <2> QED BY <2>1, <2>2, CriteriaStep, CriteriaKeep
  <1>3. CriteriaLifted => CriteriaAreKept
    BY CriteriaHold DEF CriteriaLifted, CriteriaAreKept
  <1> QED BY <1>1, <1>2, <1>3, PTL DEF Machines

------------------------------------------------------------------------------
(* Generations                                                              *)

GenerationsLifted == which = "generations" => GenerationsInv

LEMMA GenerationsStays ==
    ASSUME [MachinesNext]_machineVars, which = "generations"
    PROVE  [Next]_vars
  BY DEF MachinesNext, machineVars, generationsVars, vars, snapshots, history

LEMMA GenerationsLifts ==
    Machines => []GenerationsLifted
  <1>1. MachinesInit => GenerationsLifted
    BY GenerationsBegin DEF MachinesInit, GenerationsLifted
  <1>2. GenerationsLifted /\ [MachinesNext]_machineVars => GenerationsLifted'
    <2> SUFFICES ASSUME GenerationsLifted, [MachinesNext]_machineVars, which' = "generations"
                 PROVE  GenerationsInv'
      BY DEF GenerationsLifted
    <2>1. which = "generations"
      BY WhichStays
    <2>2. GenerationsInv
      BY <2>1 DEF GenerationsLifted
    <2> QED BY <2>1, <2>2, GenerationsStays, GenerationsStep
  <1> QED BY <1>1, <1>2, PTL DEF Machines

\* What was saved in the control room is what Today reads until someone changes that value,
\* for any settings, values and number of changes, as long as operations do not overlap
\* (SavedIsShown: SavedChangeStays).
THEOREM SavedIsShownTheorem == Machines => []SavedIsShown
  <1>1. GenerationsLifted => SavedIsShown
    BY GenerationsShow DEF GenerationsLifted, SavedIsShown
  <1> QED BY <1>1, GenerationsLifts, PTL

\* Today is of one configuration, and the morning message is sent only when Today has
\* something of it to show (OneListShown: OneConfigurationShown, PingMatchesToday).
THEOREM OneListShownTheorem == Machines => []OneListShown
  <1>1. GenerationsLifted => OneListShown
    BY GenerationsShow DEF GenerationsLifted, OneListShown
  <1> QED BY <1>1, GenerationsLifts, PTL

\* When the control room answers, every company has been scored with what it saved
\* (SavedIsScored).
THEOREM SavedIsScoredTheorem == Machines => SavedIsScored
  <1>1. GenerationsLifted /\ [MachinesNext]_machineVars =>
            (which = "generations" => AnswerScored)
    BY GenerationsStays, AnswersAre DEF GenerationsLifted
  <1> QED BY <1>1, GenerationsLifts, PTL DEF Machines, SavedIsScored

==============================================================================
