----------------------------- MODULE Enrichment -----------------------------
(***************************************************************************)
(* What the register knows about a company, asked for within a budget of   *)
(* requests per run: its date of incorporation (pass 0), its filings       *)
(* (pass 1, and again while it is young), its officers and their control   *)
(* (pass 2) and what else the officers run (pass 3).  A run may be killed, *)
(* or end early on a request that raises, between any two requests; a      *)
(* request may fail; share allotments are filed at any time.               *)
(***************************************************************************)
EXTENDS Integers, FiniteSets, Sequences

CONSTANTS
    Registered,      \* 1 .. n, in the order of the queue
    Born,            \* company -> "dated" or "undated" when it is stored
    Place,           \* company -> the outcode it gives, or Unstated
    GeographyOf,     \* outcode -> what postcodes.io says of it
    Enabled,         \* regions_enabled
    AgentAddresses,  \* outcodes of formation agents
    Founders,        \* company -> officers to ask about in pass 3
    CorporateOnly,   \* companies with nothing but a corporate secretary
    Poison,          \* companies whose filings are always answered by an error
    Budget,          \* max_enrichment_requests_per_run
    SiteSpends,      \* what website identity may spend of it first
    Movers,          \* companies that may file an allotment, and may age
    Reserve,         \* one in so many of pass 1 is kept for rechecks
    RecheckDays,     \* FILINGS_RECHECK_DAYS
    MaxStreak,       \* FILINGS_MAX_CONSECUTIVE_FAILURES
    RunsPerDay,      \* bound on runs in a day
    MaxFaults,       \* bound on failed requests, kills and exceptions
    Unstated         \* no postcode, no geography

VARIABLES
    register,       \* the world: [filed, old], allotments filed in time, companies past the window
    books,          \* stored: see NoBooks
    enrichmentRun,  \* the run in progress: see NoRun
    days            \* [runs, faults]: runs today, faults so far

enrichmentVars == <<register, books, enrichmentRun, days>>

NeverChecked == RecheckDays + 1

\* known: company rows; date: incorporated_on, and whether the profile was asked;
\* ok, bad: age of the filings markers; turns: companies by their last check;
\* issue: has_share_issue; done: enriched_at and the appointments marker;
\* outcodes: postcode_region.
NoBooks == [known |-> {}, date |-> [c \in Registered |-> "missing"],
            ok |-> [c \in Registered |-> NeverChecked], bad |-> [c \in Registered |-> "none"],
            turns |-> <<>>, issue |-> {}, done |-> {}, outcodes |-> {}]

\* left: what the pass has yet to look at; cap: requests the pass may make;
\* ready: pass1_ok; hydrated: companies in pass 3, asked: founders of the first.
NoPass == [phase |-> "idle", spent |-> 0, cap |-> 0, kept |-> 0, streak |-> 0,
          halted |-> FALSE, left |-> {}, ready |-> {}, hydrated |-> {}, asked |-> 0]

EnrichmentInit ==
    /\ register = [filed |-> {}, old |-> {}]
    /\ books = NoBooks
    /\ enrichmentRun = NoPass
    /\ days = [runs |-> 0, faults |-> 0]

First(cs) == CHOOSE c \in cs : \A d \in cs : c <= d

Least(a, b) == IF a < b THEN a ELSE b

Most(a, b) == IF a > b THEN a ELSE b

StillYoung(c) == c \notin register.old

-----------------------------------------------------------------------------
(* The sweep of new incorporations.                                        *)

\* geography_enabled: what is not known passes.
RegionEnabled(geography) ==
    \/ Enabled = {}
    \/ "uk_wide" \in Enabled
    \/ geography = Unstated
    \/ geography \in Enabled

\* lookup_outcode: asked for once and kept; when postcodes.io is down nothing is
\* known of it and nothing kept.
Looked(outcode, answered) ==
    outcode # Unstated /\ (outcode \in books.outcodes \/ answered)

FormationAgent(outcode) == outcode \in AgentAddresses

\* screen_item, of a company the adapter let through.
Keeps(outcode, answered) ==
    /\ RegionEnabled(IF Looked(outcode, answered) THEN GeographyOf[outcode] ELSE Unstated)
    /\ ~FormationAgent(outcode)

\* backfill, one item: the free screen, then the row.
Backfill(c, answered) ==
    LET outcode == Place[c]
        kept == Keeps(outcode, answered)
    IN  /\ enrichmentRun.phase = "idle"
        /\ c \notin books.known
        /\ books' = [books EXCEPT
               !.outcodes = IF Looked(outcode, answered) THEN @ \cup {outcode} ELSE @,
               !.known = IF kept THEN @ \cup {c} ELSE @,
               !.date[c] = IF kept /\ Born[c] = "dated" THEN "dated" ELSE @]
        /\ UNCHANGED <<register, enrichmentRun, days>>

-----------------------------------------------------------------------------
(* The queues.                                                             *)

\* A number, no date, not asked before.
MissingAgeQueue == {c \in books.known : books.date[c] = "missing"}

EnrichmentQueue == books.known \ books.done

FilingsChecked(c) == books.ok[c] # NeverChecked

RetryDue(c) == books.bad[c] # "recent"

\* Known, without an allotment on record, and either never confirmed (failed a
\* while ago, or enriched with nothing recorded) or confirmed a while ago and
\* still young.
FilingRecheckQueue ==
    {c \in books.known \ books.issue :
        \/ /\ ~FilingsChecked(c)
           /\ books.date[c] # "dated" \/ StillYoung(c)
           /\ books.bad[c] = "due" \/ (books.bad[c] = "none" /\ c \in books.done)
        \/ /\ books.ok[c] = RecheckDays
           /\ books.date[c] = "dated"
           /\ StillYoung(c)
           /\ RetryDue(c)}

Turn(c) == CHOOSE i \in DOMAIN books.turns : books.turns[i] = c

\* Never confirmed first, then the longest unchecked.
NextRecheck(cs) ==
    LET new == {c \in cs : ~FilingsChecked(c)}
    IN  IF new # {} THEN First(new)
        ELSE CHOOSE c \in cs : \A d \in cs : Turn(c) <= Turn(d)

-----------------------------------------------------------------------------
(* A run.                                                                  *)

CanSpend(n) == enrichmentRun.spent + n <= Budget

\* enrich_stage: website identity has spent what it spent; pass 0 may have all
\* that is left, or two thirds of it when officers are waiting.
StartRun(spent) ==
    LET left == Budget - spent
    IN  /\ enrichmentRun.phase = "idle"
        /\ days.runs < RunsPerDay
        /\ days' = [days EXCEPT !.runs = @ + 1]
        /\ enrichmentRun' = [NoPass EXCEPT
               !.phase = "ages",
               !.spent = spent,
               !.cap = IF EnrichmentQueue # {} /\ left > 1 THEN Most(1, (left * 2) \div 3) ELSE left]
        /\ UNCHANGED <<register, books>>

Fails(n) == days' = [days EXCEPT !.faults = @ + n]

\* apply_company_profile: a profile without a full date dates nothing.
Dated(answer) == IF answer THEN "dated" ELSE "asked"

\* hydrate_missing_ages: one request, asked once whatever comes of it.
HydrateAge(c, answer) ==
    /\ enrichmentRun.phase = "ages"
    /\ enrichmentRun.cap > 0
    /\ c \in MissingAgeQueue
    /\ books' = [books EXCEPT !.date[c] = Dated(answer)]
    /\ enrichmentRun' = [enrichmentRun EXCEPT !.spent = @ + 1, !.cap = @ - 1]
    /\ UNCHANGED <<register, days>>

Pass1Limit == Most(1, Budget \div 3)

\* A part of pass 1 is kept for rechecks when any are due.
StartFilings ==
    LET kept == IF FilingRecheckQueue = {} THEN 0 ELSE Pass1Limit \div Reserve
    IN  /\ enrichmentRun.phase = "ages"
        /\ enrichmentRun.cap = 0 \/ MissingAgeQueue = {}
        /\ enrichmentRun' = [enrichmentRun EXCEPT !.phase = "filings", !.left = EnrichmentQueue,
                              !.kept = kept, !.cap = Pass1Limit - kept]
        /\ UNCHANGED <<register, books, days>>

Asks(c) == ~FilingsChecked(c) /\ ~enrichmentRun.halted /\ RetryDue(c)

\* Checked, refused or failed too recently: on to its officers all the same.
CarryOver ==
    LET c == First(enrichmentRun.left)
    IN  /\ enrichmentRun.phase = "filings"
        /\ enrichmentRun.left # {}
        /\ ~Asks(c)
        /\ enrichmentRun' = [enrichmentRun EXCEPT !.left = @ \ {c}, !.ready = @ \cup {c}]
        /\ UNCHANGED <<register, books, days>>

\* Those filed within the window: the register keeps no others here.
QualifyingShareIssue(c) == c \in register.filed

\* What _check_filings stores of an answer.
FilingsRead(c, answer) ==
    IF answer = "ok"
    THEN [books EXCEPT
             !.ok[c] = 0,
             !.bad[c] = "none",
             !.turns = Append(SelectSeq(@, LAMBDA d : d # c), c),
             !.issue = IF QualifyingShareIssue(c) THEN @ \cup {c} ELSE @]
    ELSE [books EXCEPT !.bad[c] = "recent"]

CanAnswer(c, answer) ==
    \/ answer = "ok" /\ c \notin Poison
    \/ answer = "error" /\ c \in Poison
    \/ answer # "ok" /\ days.faults < MaxFaults

Streak(answer) == IF answer = "ok" THEN 0 ELSE enrichmentRun.streak + 1

Halts(answer) == answer = "429" \/ Streak(answer) >= MaxStreak

\* Pass 1, one company.
CheckFilings(answer) ==
    LET c == First(enrichmentRun.left)
    IN  /\ enrichmentRun.phase = "filings"
        /\ enrichmentRun.left # {}
        /\ Asks(c)
        /\ enrichmentRun.cap > 0
        /\ CanSpend(1)
        /\ CanAnswer(c, answer)
        /\ books' = FilingsRead(c, answer)
        /\ enrichmentRun' = [enrichmentRun EXCEPT !.spent = @ + 1, !.cap = @ - 1, !.left = @ \ {c},
                              !.ready = @ \cup {c}, !.streak = Streak(answer),
                              !.halted = Halts(answer)]
        /\ Fails(IF answer = "ok" \/ (answer = "error" /\ c \in Poison) THEN 0 ELSE 1)
        /\ UNCHANGED register

\* The queue of the re-poll is read with what pass 1 has left.
StartRechecks ==
    /\ enrichmentRun.phase = "filings"
    /\ enrichmentRun.left # {} =>
          Asks(First(enrichmentRun.left)) /\ (enrichmentRun.cap = 0 \/ ~CanSpend(1))
    /\ enrichmentRun' = [enrichmentRun EXCEPT !.phase = "rechecks", !.cap = @ + enrichmentRun.kept,
                          !.left = IF enrichmentRun.halted THEN {} ELSE FilingRecheckQueue]
    /\ UNCHANGED <<register, books, days>>

RecheckFilings(answer) ==
    LET c == NextRecheck(enrichmentRun.left)
    IN  /\ enrichmentRun.phase = "rechecks"
        /\ enrichmentRun.left # {}
        /\ enrichmentRun.cap > 0
        /\ CanSpend(1)
        /\ CanAnswer(c, answer)
        /\ books' = FilingsRead(c, answer)
        /\ enrichmentRun' = [enrichmentRun EXCEPT !.spent = @ + 1, !.cap = @ - 1, !.streak = Streak(answer),
                              !.left = IF Halts(answer) THEN {} ELSE @ \ {c}]
        /\ Fails(IF answer = "ok" \/ (answer = "error" /\ c \in Poison) THEN 0 ELSE 1)
        /\ UNCHANGED register

StartOfficers ==
    /\ enrichmentRun.phase = "rechecks"
    /\ enrichmentRun.left = {} \/ enrichmentRun.cap = 0 \/ ~CanSpend(1)
    /\ enrichmentRun' = [enrichmentRun EXCEPT !.phase = "officers", !.left = enrichmentRun.ready,
                          !.cap = Most(2, Budget \div 3)]
    /\ UNCHANGED <<register, books, days>>

\* Pass 2, two requests: an answer that is an error is read as no officers, and
\* a company of corporate secretaries is done.
FetchOfficers(answered) ==
    LET c == First(enrichmentRun.left)
        corporate == answered /\ c \in CorporateOnly
    IN  /\ enrichmentRun.phase = "officers"
        /\ enrichmentRun.left # {}
        /\ enrichmentRun.cap >= 2
        /\ CanSpend(2)
        /\ answered \/ days.faults < MaxFaults
        /\ books' = [books EXCEPT !.done = IF corporate THEN @ \cup {c} ELSE @]
        /\ enrichmentRun' = [enrichmentRun EXCEPT
               !.spent = @ + 2,
               !.cap = @ - 2,
               !.left = @ \ {c},
               !.hydrated = IF corporate THEN @ ELSE @ \cup {[of |-> c, found |-> answered]}]
        /\ Fails(IF answered THEN 0 ELSE 1)
        /\ UNCHANGED register

StartAppointments ==
    /\ enrichmentRun.phase = "officers"
    /\ enrichmentRun.left = {} \/ enrichmentRun.cap < 2 \/ ~CanSpend(2)
    /\ enrichmentRun' = [enrichmentRun EXCEPT !.phase = "appointments",
                                              !.left = {h.of : h \in enrichmentRun.hydrated}]
    /\ UNCHANGED <<register, books, days>>

FoundersOf(c) == IF [of |-> c, found |-> TRUE] \in enrichmentRun.hydrated THEN Founders[c] ELSE 0

\* Pass 3, one request; an error is an answer like another.
FetchAppointments ==
    /\ enrichmentRun.phase = "appointments"
    /\ enrichmentRun.left # {}
    /\ enrichmentRun.asked < FoundersOf(First(enrichmentRun.left))
    /\ CanSpend(1)
    /\ enrichmentRun' = [enrichmentRun EXCEPT !.spent = @ + 1, !.asked = @ + 1]
    /\ UNCHANGED <<register, books, days>>

\* Complete once every founder was asked about, else as new.
StoreFounders ==
    LET c == First(enrichmentRun.left)
    IN  /\ enrichmentRun.phase = "appointments"
        /\ enrichmentRun.left # {}
        /\ ~CanSpend(1) \/ enrichmentRun.asked = FoundersOf(c)
        /\ books' = [books EXCEPT
               !.done = IF enrichmentRun.asked = FoundersOf(c) THEN @ \cup {c} ELSE @ \ {c}]
        /\ enrichmentRun' = [enrichmentRun EXCEPT !.left = @ \ {c}, !.asked = 0]
        /\ UNCHANGED <<register, days>>

EndRun ==
    /\ enrichmentRun.phase = "appointments"
    /\ enrichmentRun.left = {}
    /\ enrichmentRun' = NoPass
    /\ UNCHANGED <<register, books, days>>

\* The process is killed, or a request of pass 0, 2 or 3 raises.
RunDies ==
    /\ enrichmentRun.phase # "idle"
    /\ days.faults < MaxFaults
    /\ enrichmentRun' = NoPass
    /\ Fails(1)
    /\ UNCHANGED <<register, books>>

-----------------------------------------------------------------------------
(* The world.                                                              *)

\* An allotment that counts is filed within the window.
FileShares(c) ==
    /\ c \notin register.filed
    /\ StillYoung(c)
    /\ register' = [register EXCEPT !.filed = @ \cup {c}]
    /\ UNCHANGED <<books, enrichmentRun, days>>

GrowsOld(c) ==
    /\ StillYoung(c)
    /\ register' = [register EXCEPT !.old = @ \cup {c}]
    /\ UNCHANGED <<books, enrichmentRun, days>>

\* A day passes: failures may be retried, markers age.
NewDay ==
    /\ enrichmentRun.phase = "idle"
    /\ days.runs > 0
    /\ days' = [days EXCEPT !.runs = 0]
    /\ books' = [books EXCEPT
           !.ok = [c \in Registered |-> IF @[c] < RecheckDays THEN @[c] + 1 ELSE @[c]],
           !.bad = [c \in Registered |-> IF @[c] = "recent" THEN "due" ELSE @[c]]]
    /\ UNCHANGED <<register, enrichmentRun>>

Answers == {"ok", "error", "429"}

PassStep ==
    \/ \E spent \in SiteSpends : StartRun(spent)
    \/ \E c \in Registered, answer \in BOOLEAN : HydrateAge(c, answer)
    \/ StartFilings
    \/ CarryOver
    \/ \E answer \in Answers : CheckFilings(answer)
    \/ StartRechecks
    \/ \E answer \in Answers : RecheckFilings(answer)
    \/ StartOfficers
    \/ \E answered \in BOOLEAN : FetchOfficers(answered)
    \/ StartAppointments
    \/ FetchAppointments
    \/ StoreFounders
    \/ EndRun

EnrichmentNext ==
    \/ PassStep
    \/ RunDies
    \/ NewDay
    \/ \E c \in Registered, answered \in BOOLEAN : Backfill(c, answered)
    \/ \E c \in Movers : FileShares(c)
    \/ \E c \in Movers : GrowsOld(c)

\* The timer starts a run every day and a run goes on; nothing else must happen.
EnrichmentFairness == WF_enrichmentVars(PassStep) /\ WF_enrichmentVars(NewDay)

EnrichmentSpec == EnrichmentInit /\ [][EnrichmentNext]_enrichmentVars /\ EnrichmentFairness

-----------------------------------------------------------------------------
(* Properties.                                                             *)

\* A stored company that has not been through all three passes.
Unenriched(c) == c \in books.known \ books.done

\* An allotment of a dated company that is young still, filed and not found.
Unfound(c) ==
    c \in register.filed \ books.issue /\ books.date[c] = "dated" /\ StillYoung(c)

\* "A large backlog must make progress through all three passes", and "a later
\* SH01 is the whole point" (H-05): again and again every stored company is
\* through the passes and every allotment is found, behind companies whose
\* filings never come, after runs that died and checks that found none.
SomeoneWaits ==
    (\E c \in Registered : Unenriched(c)) \/ (\E c \in Registered \ Poison : Unfound(c))
BacklogClears == []<>~SomeoneWaits

=============================================================================
