------------------------------ MODULE Heartbeat ------------------------------
(***************************************************************************)
(* The second clock.  Every scan leaves a row per source (source_health)   *)
(* and a row for itself (run); every morning the heartbeat reads them and  *)
(* says in one message that the pipeline is stale, that a source has gone  *)
(* quiet or that a source refuses the crawler, the last two once and then  *)
(* again every Repeat while they last.                                     *)
(*                                                                         *)
(* Time is counted in ticks of the day.  A day has at most one scan before *)
(* its heartbeat and one run after it: the timer's catch-up after a reboot *)
(* or one that somebody started.                                           *)
(***************************************************************************)
EXTENDS Integers, FiniteSets, FiniteSetsExt

CONSTANTS
    Sources,      \* the enabled adapters
    Tier1,        \* those the heartbeat watches for refusals
    OutcomesOf,   \* source -> the [status, items] rows a fetch of it can leave
    NoRow,        \* no row for that day
    Never,        \* no time
    Window,       \* days of HEALTH_WINDOW_DAYS and of stale_sources
    Repeat,       \* days of SOURCE_ALERT_REPEAT
    MinAverage,   \* items a day
    StreakDays,   \* runs without an item that make even a failing source suspect
    Checks,       \* refusals in a row that are worth an alert
    DayTicks,     \* ticks in a day
    StaleAfter,   \* ticks
    ScanTicks,    \* when the morning's scan can end
    CheckTicks,   \* when the heartbeat fires: at its time, or once the machine is up
    LateTick,     \* when the other run of the day ends
    MaxDay,       \* bound on the days
    MaxEvents     \* bound on runs after a heartbeat and failures under one

\* The times of a day come in their order.
ASSUME ConstantsAssumption ==
    /\ Tier1 \subseteq Sources
    /\ IsFiniteSet(Sources)
    /\ Never \notin Nat
    /\ Window \in Nat \ {0}
    /\ Repeat \in Nat \ {0}
    /\ MinAverage \in Nat \ {0}
    /\ StreakDays \in Nat \ {0}
    /\ Checks \in Nat \ {0}
    /\ DayTicks \in Nat \ {0}
    /\ StaleAfter \in Nat
    /\ LateTick \in Nat
    /\ ScanTicks \subseteq 0 .. LateTick
    /\ CheckTicks \subseteq 0 .. LateTick
    /\ \A scan \in ScanTicks, check \in CheckTicks : scan <= check
    /\ LateTick < DayTicks
    /\ MaxDay \in Nat \ {0}
    /\ MaxEvents \in Nat

Days == 1 .. MaxDay

\* Statuses of source_health; "ok" with no items is stored as "empty", and a
\* changed layout as "failed".
Statuses == {"ok", "empty", "degraded", "failed"}

ASSUME OutcomesAssumption ==
    OutcomesOf \in [Sources -> SUBSET [status : Statuses, items : Nat]]

Outcomes == UNION {OutcomesOf[s] : s \in Sources}

\* What the heartbeat can have to say of a source.
Conditions == {"down", "blocked"} \X Sources

\* What it can have to say of the pipeline.
StaleRun == <<"stale">>

\* What can fail while it does: reading the rows of one kind or the other,
\* reading its stamps, writing them, sending the message, or learning that it
\* was sent (the call times out, the message arrives).
Faults == {"down", "blocked", "recall", "remember", "telegram", "receipt"}

VARIABLES
    day, slot,     \* morning, scanned, checked, evening
    now,           \* tick of the last event
    row,           \* source -> day -> source_health row
    warning,       \* sources today's latest run of them reported as suspiciously empty
    lastSuccess,   \* run: newest finished_at that is proof of life
    seen,          \* condition -> _meta "heartbeat:seen:" stamp
    said,          \* what the last heartbeat tried to say
    lastYield,     \* history: when a run last completed and brought something
    lastAnswer,    \* history: when a run last completed and not all sources
                   \* failed with nothing
    standing,      \* history: conditions the last heartbeat found
    arrived,       \* history: whether its message, if any, reached the reader
    heard,         \* history: condition -> when the reader was last told of it,
                   \* since it was last found cleared
    repeats,       \* history: condition -> times he was told again too early
    lapses,        \* history: failures of the heartbeat's memory
    events         \* events so far, up to MaxEvents

healthVars == <<row, warning, lastSuccess, lastYield, lastAnswer>>
saidVars == <<said, standing, arrived>>
memoryVars == <<seen, heard, repeats, lapses>>
vars == <<day, slot, now, healthVars, saidVars, memoryVars, events>>

Init ==
    /\ day = 1
    /\ slot = "morning"
    /\ now = DayTicks
    /\ row = [s \in Sources |-> [d \in Days |-> NoRow]]
    /\ warning = {}
    /\ lastSuccess = Never
    /\ lastYield = Never
    /\ lastAnswer = Never
    /\ said = {}
    /\ standing = {}
    /\ arrived = FALSE
    /\ seen = [c \in Conditions |-> Never]
    /\ heard = [c \in Conditions |-> Never]
    /\ repeats = [c \in Conditions |-> 0]
    /\ lapses = 0
    /\ events = 0

At(tick) == day * DayTicks + tick

-----------------------------------------------------------------------------
(* The history of a source.                                                *)

Recorded(s) == {d \in Days : row[s][d] # NoRow}

Total(f) == MapThenSumSet(LAMBDA x : f[x], DOMAIN f)

Items(s, days) == Total([d \in days |-> row[s][d].items])

\* zero_streak: recorded runs, not days, up to and including yesterday's.
ZeroStreak(s) ==
    Cardinality({d \in Recorded(s) :
        d < day /\ \A e \in Recorded(s) : d <= e /\ e < day => row[s][e].items = 0})

\* average_items: rows of the Window before the given day, failed ones apart.
Baseline(s, before) ==
    {d \in Recorded(s) :
        d < before /\ d + Window >= before /\ row[s][d].status # "failed"}

Averages(s, days) == days # {} /\ Items(s, days) >= MinAverage * Cardinality(days)

AveragesMore(s, days) == Items(s, days) > MinAverage * Cardinality(days)

\* A source whose fetch did not fail is missed at once, any source after a streak.
Missed(s, outcome, streak, before) ==
    \/ outcome.status # "failed" /\ Averages(s, before)
    \/ streak >= StreakDays /\ AveragesMore(s, before)

\* The average up to today.
SuspectToday(s, outcome) ==
    outcome.items = 0 /\ Missed(s, outcome, ZeroStreak(s) + 1, Baseline(s, day))

\* check_health: the baseline ends where the row of zeros began, which today's
\* run makes one longer.
Suspect(s, outcome) ==
    /\ outcome.items = 0
    /\ Missed(s, outcome, ZeroStreak(s) + 1, Baseline(s, day - ZeroStreak(s)))

\* record_health: one row a day, the last run's.
RecordedRows(scope, outcome) ==
    [s \in Sources |->
        IF s \in scope THEN [row[s] EXCEPT ![day] = outcome[s]] ELSE row[s]]

-----------------------------------------------------------------------------
(* A run.                                                                  *)

Fruits(scope, outcome) == \E s \in scope : outcome[s].items > 0

\* A source that fails once its items are there, at storing its fingerprint,
\* still brought them.
Answered(scope, outcome) ==
    \E s \in scope : outcome[s].status # "failed" \/ outcome[s].items > 0

\* A refusal does not make a run partial; a failed source, Today QA or Sheet does.
RunStatus(scope, outcome, late) ==
    IF late \/ \E s \in scope : outcome[s].status = "failed" THEN "partial" ELSE "ok"

\* Only a clean run counts.
ProofOfCleanLife(scope, outcome, late) == RunStatus(scope, outcome, late) = "ok"

\* Any run that ended counts.
ProofOfAnyLife(scope, outcome, late) ==
    RunStatus(scope, outcome, late) \in {"ok", "partial"}

\* last_successful_run: ok, or partial with something fetched.
ProofOfLife(scope, outcome, late) ==
    \/ RunStatus(scope, outcome, late) = "ok"
    \/ Fruits(scope, outcome)

Since(time, happens, tick) == IF happens THEN At(tick) ELSE time

\* A run of every source, or of one (--source KEY), that ends by itself;
\* `late` says that Today QA or the Sheet failed.
CompleteRun(scope, outcome, late, tick) ==
    /\ row' = RecordedRows(scope, outcome)
    /\ warning' = (warning \ scope) \union {s \in scope : Suspect(s, outcome[s])}
    /\ lastSuccess' = Since(lastSuccess, ProofOfLife(scope, outcome, late), tick)
    /\ lastYield' = Since(lastYield, Fruits(scope, outcome), tick)
    /\ lastAnswer' = Since(lastAnswer, Answered(scope, outcome), tick)

\* An exception ends it as failed, a kill leaves it running until it is reaped
\* as failed; the sources it got to have their rows.
BrokenRun(scope, outcome) ==
    /\ row' = RecordedRows(scope, outcome)
    /\ warning' = (warning \ scope) \union {s \in scope : Suspect(s, outcome[s])}
    /\ UNCHANGED <<lastSuccess, lastYield, lastAnswer>>

\* What the sources of a run can leave.
Results(scope) == {o \in [scope -> Outcomes] : \A s \in scope : o[s] \in OutcomesOf[s]}

Run(tick) ==
    /\ now' = At(tick)
    /\ \/ \E scope \in {Sources} \union {{s} : s \in Sources}, late \in BOOLEAN :
            \E outcome \in Results(scope) : CompleteRun(scope, outcome, late, tick)
       \/ \E scope \in SUBSET Sources :
            \E outcome \in Results(scope) : BrokenRun(scope, outcome)

-----------------------------------------------------------------------------
(* The heartbeat.                                                          *)

Stale(moment) == lastSuccess = Never \/ moment - lastSuccess > StaleAfter

\* stale_sources: still observed, nothing in the window, but an average
\* above MinAverage over its whole history.
Quiet(s) ==
    LET window == {d \in Recorded(s) : d + Window >= day}
    IN  /\ window # {}
        /\ Cardinality(Recorded(s)) > Window
        /\ Items(s, window) = 0
        /\ Items(s, Recorded(s)) > MinAverage * Cardinality(Recorded(s))

\* blocked_sources reads the rows newest first and starts again from nought at
\* each one that is no refusal: what is left is the streak of the oldest rows.
Streak(s) ==
    Cardinality({d \in Recorded(s) :
        \A e \in Recorded(s) : e <= d => row[s][e].status = "degraded"})

Blocked(s) == s \in Tier1 /\ Streak(s) >= Checks

Active(broken) ==
    {c \in Conditions : c[1] \notin broken /\ IF c[1] = "down" THEN Quiet(c[2]) ELSE Blocked(c[2])}

\* Once a day, whatever was said yesterday.
DueDaily(c, broken, moment) ==
    "recall" \in broken \/ seen[c] = Never \/ moment - seen[c] >= DayTicks

\* Stamps that cannot be read are no reason to stay silent.
Due(c, broken, moment) ==
    \/ "recall" \in broken
    \/ seen[c] = Never
    \/ moment - seen[c] >= Repeat * DayTicks

\* History: a heartbeat that looks at everything and has its memory.
Sees(broken) == broken \cap {"down", "blocked", "recall", "remember"} = {}

\* _forget_cleared, when both kinds of conditions could be read.
Forgets(broken) == broken \cap {"down", "blocked", "recall", "remember"} = {}

\* The stamps once the message is out, or was tried.
StampsTried(broken) == "remember" \notin broken

\* _stamp: only what is known to be delivered starts the quiet period.
Stamps(broken) == broken \cap {"telegram", "receipt", "remember"} = {}

Announced(broken, moment) == {c \in Active(broken) : Due(c, broken, moment)}

One(kind, broken) == IF kind \in broken THEN 1 ELSE 0

\* check(): one message of all that is to be said, if anything is.
Check(tick, broken) ==
    LET moment == At(tick)
        active == Active(broken)
        announced == Announced(broken, moment)
        message == announced \union (IF Stale(moment) THEN {StaleRun} ELSE {})
        forgotten == IF Forgets(broken) THEN Conditions \ active ELSE {}
        cleared == IF Sees(broken) THEN Conditions \ active ELSE {}
        told == IF "telegram" \in broken THEN {} ELSE announced
    IN  /\ events' = events + Cardinality(broken)
        /\ events' <= MaxEvents
        /\ message = {} => broken \cap {"telegram", "receipt"} = {}
        /\ now' = moment
        /\ said' = message
        /\ seen' = [c \in Conditions |->
                      IF c \in announced /\ Stamps(broken) THEN moment
                      ELSE IF c \in forgotten THEN Never ELSE seen[c]]
        /\ standing' = active
        /\ arrived' = ("telegram" \notin broken)
        /\ heard' = [c \in Conditions |->
                      IF c \in told THEN moment
                      ELSE IF c \in cleared THEN Never ELSE heard[c]]
        /\ repeats' = [c \in Conditions |->
                         IF /\ c \in told
                            /\ heard[c] # Never
                            /\ moment - heard[c] < Repeat * DayTicks
                         THEN repeats[c] + 1 ELSE repeats[c]]
        /\ lapses' = lapses + One("recall", broken) + One("remember", broken)
                            + One("receipt", broken)

-----------------------------------------------------------------------------
(* The day.                                                                *)

\* The timer's scan; a broken run of no source is a night without one.
Scan ==
    /\ slot = "morning"
    /\ slot' = "scanned"
    /\ \E tick \in ScanTicks : Run(tick)
    /\ UNCHANGED <<day, saidVars, memoryVars, events>>

Heartbeat ==
    /\ slot = "scanned"
    /\ slot' = "checked"
    /\ \E tick \in CheckTicks, broken \in SUBSET Faults : Check(tick, broken)
    /\ UNCHANGED <<day, healthVars>>

\* The machine stays down, or the check itself dies before it has said or
\* remembered anything.
MissHeartbeat ==
    /\ slot = "scanned"
    /\ slot' = "evening"
    /\ UNCHANGED <<day, now, healthVars, saidVars, memoryVars, events>>

Forgotten == said' = {} /\ standing' = {} /\ arrived' = FALSE

LateRun ==
    /\ slot = "checked"
    /\ slot' = "evening"
    /\ events < MaxEvents
    /\ events' = events + 1
    /\ Run(LateTick)
    /\ Forgotten
    /\ UNCHANGED <<day, memoryVars>>

NextDay ==
    /\ slot \in {"checked", "evening"}
    /\ day < MaxDay
    /\ day' = day + 1
    /\ slot' = "morning"
    /\ now' = (day + 1) * DayTicks
    /\ warning' = {}
    /\ Forgotten
    /\ UNCHANGED <<row, lastSuccess, lastYield, lastAnswer, memoryVars, events>>

Next == Scan \/ Heartbeat \/ MissHeartbeat \/ LateRun \/ NextDay

Spec == Init /\ [][Next]_vars

-----------------------------------------------------------------------------
(* Properties.                                                             *)

Times == Nat \union {Never}

\* Every variable has its type.
TypeOK ==
    /\ day \in Days
    /\ slot \in {"morning", "scanned", "checked", "evening"}
    /\ now \in Nat
    /\ row \in [Sources -> [Days -> Outcomes \union {NoRow}]]
    /\ warning \in SUBSET Sources
    /\ lastSuccess \in Times
    /\ lastYield \in Times
    /\ lastAnswer \in Times
    /\ said \in SUBSET (Conditions \union {StaleRun})
    /\ standing \in SUBSET Conditions
    /\ arrived \in BOOLEAN
    /\ seen \in [Conditions -> Times]
    /\ heard \in [Conditions -> Times]
    /\ repeats \in [Conditions -> Nat]
    /\ lapses \in Nat
    /\ events \in 0 .. MaxEvents

\* After a heartbeat whose message went out, or that had none, the reader has
\* been told of every condition it found, in the condition's present stretch
\* and within the last Repeat: a send that failed, a stamp that got lost or a
\* condition that came back never leaves him in the dark.
StandingIsHeard ==
    slot = "checked" /\ arrived =>
        \A c \in standing : heard[c] # Never /\ now - heard[c] < Repeat * DayTicks

\* A standing condition is one problem, not thirty messages: it is repeated
\* within Repeat at most once for every time the heartbeat's memory failed
\* ("failing to remember costs one repeat alert").
OneRepeatPerLapse == \A c \in Conditions : repeats[c] <= lapses

\* An alarm that cries wolf is muted: while a run within StaleAfter fetched
\* something, whatever else failed in it, the pipeline is not called stale.
NoFalseAlarm ==
    slot = "checked" /\ lastYield # Never /\ now - lastYield <= StaleAfter
        => StaleRun \notin said

\* A pipeline of which, for StaleAfter, every run died or had every one of its
\* sources fail with nothing is called stale, though each of those runs left
\* rows and ended.
DeadRunsAreSaid ==
    slot = "checked" /\ (lastAnswer = Never \/ now - lastAnswer > StaleAfter)
        => StaleRun \in said

\* The first of the days without an item that lead up to today.
SilentSince(s) ==
    Min({d \in 1 .. day : \A e \in d .. day : row[s][e].items = 0})

\* A source observed every day is reported as suspiciously empty exactly when
\* it brings nothing and brought enough in the Window before it fell silent,
\* however long the silence has lasted and whatever today's earlier run left;
\* one that fails today, once the silence has lasted StreakDays.
SilenceIsSuspect ==
    \A s \in Sources :
        /\ \A d \in 1 .. day : row[s][d] # NoRow
        /\ row[s][day].items = 0
        => (s \in warning <=> Missed(s, row[s][day], day - SilentSince(s) + 1,
                                    Baseline(s, SilentSince(s))))

\* A Tier 1 source "refused on `checks` or more consecutive recorded runs"
\* (radar/notify/heartbeat.py:144) is named to the reader.
RefusedIsHeard ==
    slot = "checked" /\ arrived =>
        \A s \in Tier1 :
            /\ Cardinality(Recorded(s)) >= Checks
            /\ \A d \in Recorded(s) :
                  Cardinality({e \in Recorded(s) : e > d}) < Checks
                      => row[s][d].status = "degraded"
            => heard[<<"blocked", s>>] # Never

=============================================================================
