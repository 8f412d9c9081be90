----------------------------- MODULE MCMachines ------------------------------
(***************************************************************************)
(* The components that share no state with one another, one machine of each *)
(* in the small world of MachinesData: a behaviour is a behaviour of one of *)
(* them, named by `which`; the variables of the others stay Unused.         *)
(***************************************************************************)
EXTENDS MachinesData

CONSTANTS
    Chosen,  \* the machines that are checked
    Unused, c2, c3, c4, h1

VARIABLES
    which,   \* the machine of this behaviour
    qaNow, qaCard, qaScoredAt, qaChecks, qaNewest, qaLink, qaApproved, qaPass,
    qaBulk, qaChanges, qaReviewed, qaCommitted, qaSeen

\* Today QA has its own companies: four in the order of Today, of which the
\* first two never get an answer.
QaCompanies == Companies \cup {c2, c3, c4}
QaRank == [c \in QaCompanies |-> CASE c = c2 -> 2 [] c = c3 -> 3 [] c = c4 -> 4 [] OTHER -> 1]
QaPoison == {c \in QaCompanies : QaRank[c] <= 2}

Q == INSTANCE TodayQA WITH
    now <- qaNow, card <- qaCard, scoredAt <- qaScoredAt, checks <- qaChecks,
    newest <- qaNewest, link <- qaLink, approved <- qaApproved, pass <- qaPass,
    bulk <- qaBulk, changes <- qaChanges, reviewed <- qaReviewed,
    committed <- qaCommitted, seen <- qaSeen, Companies <- QaCompanies,
    Rank <- QaRank, Cards <- {h1}, RulesReject <- {}, Passes <- Procs,
    Modes <- {"hermes"}, Limit <- 4, MaxFailures <- 3,
    Answers <- {"pass", "reject"}, Poison <- QaPoison,
    LinkFindings <- {"reachable"}, LinkTTL <- 3, RetryTTL <- 1, ReuseMinLeft <- 2,
    ReviewLimit <- 1, Scorers <- {"daily", "bulk"}, Overlap <- TRUE,
    SameSecond <- TRUE, MayFail <- FALSE, MaxTime <- 0, MaxChanges <- 1

generationsVars == vars
todayVars == <<qaNow, qaCard, qaScoredAt, qaChecks, qaNewest, qaLink, qaApproved,
              qaPass, qaBulk, qaChanges, qaReviewed, qaCommitted, qaSeen>>

machineVars == <<which, enrichmentVars, searchesVars, fetchVars, scoringVars,
                  selectionVars, tuningVars, extractVars, criteriaVars, sourcesVars,
                  weightsVars, restoreVars, updatesVars, generationsVars,
                  todayVars>>

\* What a step of one machine leaves alone.
ButEnrichment == <<which, searchesVars, fetchVars, scoringVars, selectionVars,
                   tuningVars, extractVars, criteriaVars, sourcesVars, weightsVars,
                   restoreVars, updatesVars, generationsVars, todayVars>>
ButSearches == <<which, enrichmentVars, fetchVars, scoringVars, selectionVars,
                 tuningVars, extractVars, criteriaVars, sourcesVars, weightsVars,
                 restoreVars, updatesVars, generationsVars, todayVars>>
ButFetch == <<which, enrichmentVars, searchesVars, scoringVars, selectionVars,
              tuningVars, extractVars, criteriaVars, sourcesVars, weightsVars,
              restoreVars, updatesVars, generationsVars, todayVars>>
ButScoring == <<which, enrichmentVars, searchesVars, fetchVars, selectionVars,
                tuningVars, extractVars, criteriaVars, sourcesVars, weightsVars,
                restoreVars, updatesVars, generationsVars, todayVars>>
ButSelection == <<which, enrichmentVars, searchesVars, fetchVars, scoringVars,
                  tuningVars, extractVars, criteriaVars, sourcesVars, weightsVars,
                  restoreVars, updatesVars, generationsVars, todayVars>>
ButTuning == <<which, enrichmentVars, searchesVars, fetchVars, scoringVars,
               selectionVars, extractVars, criteriaVars, sourcesVars, weightsVars,
               restoreVars, updatesVars, generationsVars, todayVars>>
ButExtract == <<which, enrichmentVars, searchesVars, fetchVars, scoringVars,
                selectionVars, tuningVars, criteriaVars, sourcesVars, weightsVars,
                restoreVars, updatesVars, generationsVars, todayVars>>
ButCriteria == <<which, enrichmentVars, searchesVars, fetchVars, scoringVars,
                 selectionVars, tuningVars, extractVars, sourcesVars, weightsVars,
                 restoreVars, updatesVars, generationsVars, todayVars>>
ButSources == <<which, enrichmentVars, searchesVars, fetchVars, scoringVars,
                selectionVars, tuningVars, extractVars, criteriaVars, weightsVars,
                restoreVars, updatesVars, generationsVars, todayVars>>
ButWeights == <<which, enrichmentVars, searchesVars, fetchVars, scoringVars,
                selectionVars, tuningVars, extractVars, criteriaVars, sourcesVars,
                restoreVars, updatesVars, generationsVars, todayVars>>
ButRestore == <<which, enrichmentVars, searchesVars, fetchVars, scoringVars,
                selectionVars, tuningVars, extractVars, criteriaVars, sourcesVars,
                weightsVars, updatesVars, generationsVars, todayVars>>
ButUpdates == <<which, enrichmentVars, searchesVars, fetchVars, scoringVars,
                selectionVars, tuningVars, extractVars, criteriaVars, sourcesVars,
                weightsVars, restoreVars, generationsVars, todayVars>>
ButGenerations == <<which, enrichmentVars, searchesVars, fetchVars, scoringVars,
                    selectionVars, tuningVars, extractVars, criteriaVars,
                    sourcesVars, weightsVars, restoreVars, updatesVars, todayVars>>
ButToday == <<which, enrichmentVars, searchesVars, fetchVars, scoringVars,
              selectionVars, tuningVars, extractVars, criteriaVars, sourcesVars,
              weightsVars, restoreVars, updatesVars, generationsVars>>

\* A machine that is not run.
EnrichmentOff == register = Unused /\ books = Unused /\ enrichmentRun = Unused /\
                 days = Unused
SearchesOff == scans = Unused /\ lockFile = Unused /\ kicks = Unused /\
               jobs = Unused /\ service = Unused /\ excused = Unused
FetchOff == clock = Unused /\ limiter = Unused /\ robots = Unused /\
            request = Unused /\ seen = Unused
ScoringOff == company = Unused /\ scores = Unused /\ learned = Unused
SelectionOff == matches = Unused /\ passed = Unused /\ focus = Unused /\
                client = Unused /\ today = Unused /\ focusAsked = Unused /\
                budget = Unused
TuningOff == rows = Unused /\ verdict = Unused /\ tuningChanges = Unused
ExtractOff == prompts = Unused /\ cache = Unused /\ companies = Unused /\
              quarantined = Unused /\ readingRun = Unused /\ unflagged = Unused
CriteriaOff == configured = Unused /\ criteriaTab = Unused /\ goodVehicles = Unused
               /\ scored = Unused /\ load = Unused /\ criteriaOp = Unused /\
               criteriaChanges = Unused /\ stated = Unused /\
               vehicleAnswered = Unused
SourcesOff == sourcesTab = Unused /\ token = Unused /\ mistyped = Unused /\
              goodSources = Unused /\ admits = Unused /\ used = Unused /\
              retired = Unused /\ rewritten = Unused /\ sync = Unused /\
              sourceOp = Unused /\ sourceChanges = Unused /\ sourceAnswered = Unused
              /\ readded = Unused /\ tornFlag = Unused
WeightsOff == weightsTab = Unused /\ valuesTab = Unused /\ sicTab = Unused /\
              faulty = Unused /\ listed = Unused /\ goodWeights = Unused /\
              config = Unused /\ noted = Unused /\ read = Unused /\
              weightsAsked = Unused /\ weightChanges = Unused
RestoreOff == live = Unused /\ wal = Unused /\ nightlyCopies = Unused /\
              safety = Unused /\ night = Unused /\ scanning = Unused /\ tx = Unused
              /\ restoring = Unused /\ restoresAsked = Unused /\ putBack = Unused /\
              since = Unused /\ before = Unused
UpdatesOff == main = Unused /\ branch = Unused /\ head = Unused /\ hold = Unused
              /\ installed = Unused
              /\ scan = Unused /\ lock = Unused /\
              updateRun = Unused /\ back = Unused /\ background = Unused /\
              rollbacks = Unused /\ failures = Unused /\ scansStarted = Unused /\
              mixed = Unused /\ missed = Unused /\ undisturbed = Unused
GenerationsOff == sheet = Unused /\ created = Unused /\ good = Unused /\
                  score = Unused /\ job = Unused /\ edits = Unused /\
                  crashes = Unused /\ overlapped = Unused /\ saved = Unused
TodayOff == qaNow = Unused /\ qaCard = Unused /\ qaScoredAt = Unused /\
            qaChecks = Unused /\ qaNewest = Unused /\ qaLink = Unused /\
            qaApproved = Unused /\ qaPass = Unused /\ qaBulk = Unused /\
            qaChanges = Unused /\ qaReviewed = Unused /\ qaCommitted = Unused /\
            qaSeen = Unused

------------------------------------------------------------------------------

MachinesInit ==
    /\ which \in Chosen
    /\ IF which = "enrichment" THEN EnrichmentInit ELSE EnrichmentOff
    /\ IF which = "searches" THEN SearchesInit ELSE SearchesOff
    /\ IF which = "fetch" THEN FetchInit ELSE FetchOff
    /\ IF which = "scoring" THEN ScoringInit ELSE ScoringOff
    /\ IF which = "selection" THEN SelectionInit ELSE SelectionOff
    /\ IF which = "tuning" THEN TuningInit ELSE TuningOff
    /\ IF which = "extract" THEN ExtractInit ELSE ExtractOff
    /\ IF which = "criteria" THEN CriteriaInit ELSE CriteriaOff
    /\ IF which = "sources" THEN SourcesInit ELSE SourcesOff
    /\ IF which = "weights" THEN WeightsInit ELSE WeightsOff
    /\ IF which = "restore" THEN RestoreInit ELSE RestoreOff
    /\ IF which = "updates" THEN UpdatesInit ELSE UpdatesOff
    /\ IF which = "generations" THEN Init ELSE GenerationsOff
    /\ IF which = "today" THEN Q!Init ELSE TodayOff

MachinesNext ==
    \/ which = "enrichment" /\ EnrichmentNext /\ UNCHANGED ButEnrichment
    \/ which = "searches" /\ SearchesNext /\ UNCHANGED ButSearches
    \/ which = "fetch" /\ FetchNext /\ UNCHANGED ButFetch
    \/ which = "scoring" /\ ScoringNext /\ UNCHANGED ButScoring
    \/ which = "selection" /\ SelectionNext /\ UNCHANGED ButSelection
    \/ which = "tuning" /\ TuningNext /\ UNCHANGED ButTuning
    \/ which = "extract" /\ ExtractNext /\ UNCHANGED ButExtract
    \/ which = "criteria" /\ CriteriaNext /\ UNCHANGED ButCriteria
    \/ which = "sources" /\ SourcesNext /\ UNCHANGED ButSources
    \/ which = "weights" /\ WeightsNext /\ UNCHANGED ButWeights
    \/ which = "restore" /\ RestoreNext /\ UNCHANGED ButRestore
    \/ which = "updates" /\ UpdatesNext /\ UNCHANGED ButUpdates
    \/ which = "generations" /\ Next /\ UNCHANGED ButGenerations
    \/ which = "today" /\ Q!Next /\ UNCHANGED ButToday

------------------------------------------------------------------------------
(* The fairness of each machine as its own module states it: of the actions *)
(* in one disjunction only those of the machine that runs can be enabled.   *)

MachineGoes ==
    \/ which = "enrichment" /\ PassStep /\ UNCHANGED ButEnrichment
    \/ which = "searches" /\ Progress /\ UNCHANGED ButSearches
    \/ which = "extract" /\ ReaderStep /\ UNCHANGED ButExtract
    \/ which = "criteria" /\ LoadStep /\ UNCHANGED ButCriteria
    \/ which = "today" /\ (\E p \in Procs : Q!Step(p)) /\ UNCHANGED ButToday
    \/ which = "updates" /\ EndScan /\ UNCHANGED ButUpdates

MachineBegins ==
    \/ which = "enrichment" /\ NewDay /\ UNCHANGED ButEnrichment
    \/ which = "criteria" /\ LoadRead("run") /\ UNCHANGED ButCriteria
    \/ which = "today" /\ (\E p \in Procs : Q!Start(p, "hermes")) /\ UNCHANGED ButToday
    \/ which = "updates" /\ (CheckOut \/ StartInstall \/ InstallBack)
          /\ UNCHANGED ButUpdates

Updating(A) == which = "updates" /\ A /\ UNCHANGED ButUpdates

MachineFairness ==
    /\ WF_machineVars(MachineGoes) /\ WF_machineVars(MachineBegins)
    /\ SF_machineVars(Updating(TimerFires))
    /\ SF_machineVars(Updating(UpdateStep(Timer)))
    /\ SF_machineVars(Updating(UpdateStep(Release)))

Machines == MachinesInit /\ [][MachinesNext]_machineVars /\ MachineFairness

------------------------------------------------------------------------------
(* The properties of the machines, as their modules state them.             *)

\* Companies House is never asked more than its window allows, and no page of a
\* site whose robots.txt says no.
FetchIsPolite == which = "fetch" => WindowIsKept /\ RobotsAreObeyed

\* The rows of the score tables are those of the last pass, a shortlisting
\* stands whatever is still to be learned, and the table of thresholds has
\* every change in it.
ScoresStand ==
    /\ which = "scoring" => ShortlistIsDefended /\ RowsAreCurrent
    /\ which = "tuning" => TableIsComplete

\* The order of Today, the three surfaces that show it, and its focus.
QueueIsFair == which = "selection" => TodayIsFair /\ FocusWasAskedFor

\* What a row says was said by an article of that company, by the prompt in force.
RowsAreHonest == which = "extract" => ReadingIsHonest

\* A poll tells what became of the search, and one scan runs at a time.
SearchIsTold == which = "searches" => PollIsTrue /\ OneScanAtATime

\* The vehicles that score were given by somebody, and confirmed changes stand.
CriteriaAreKept == which = "criteria" => GeographyWasStated /\ AnsweredIsScored

\* A switch of a source stands, a stripped qualifier and an unread feed stay out.
SourcesAreKept == which = "sources" => SwitchSticks /\ LegacyStaysBarred /\ FeedWasRead

\* Weights are weights that somebody gave.
WeightsAreKept == which = "weights" => WeightsTypeOK /\ WeightsStand

\* The database is one that was installed whole, and the writes since; what
\* runs on the server is what is checked out.
ServerStands ==
    /\ which = "restore" => RestoreTypeOK /\ RestoreStands
    /\ which = "updates" => UpdatesTypeOK /\ UpdatesStand

\* What was saved in the control room is what Today reads.
SavedIsShown == which = "generations" => SavedChangeStays

\* Today and the morning message are of one configuration.
OneListShown ==
    which = "generations" => TypeOK /\ OneConfigurationShown /\ PingMatchesToday

\* When the control room answers, everything is scored with what it saved.
SavedIsScored == [][which = "generations" => AnswerScored]_machineVars

\* What each machine must not leave waiting: a company to be enriched or an
\* allotment to be found, a posted job or a stale lock, a run of readings, a
\* poisoned configuration that can be healed, a good card behind cards that
\* never answer, a merge to be installed.
Waiting ==
    CASE which = "enrichment" -> SomeoneWaits
      [] which = "searches" -> SearchWaits
      [] which = "extract" -> Running
      [] which = "criteria" -> PoisonStays
      [] which = "today" -> \E c \in QaCompanies \ QaPoison : ~Q!Judged(c)
      [] which = "updates" -> MergeWaits /\ ~missed
      [] OTHER -> FALSE

EveryWaitEnds == []<>~Waiting
==============================================================================
