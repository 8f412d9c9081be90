------------------------------ MODULE TodayQA --------------------------------
(***************************************************************************)
(* Today QA: after scoring, each candidate card gets a check, and only a   *)
(* company whose newest check is a current pass is shown.  A QA pass loads *)
(* its cards once and takes minutes; meanwhile another pass, a rescore or  *)
(* new data may change what the pass is about.                             *)
(*                                                                         *)
(* The text of a card is its snapshot_hash: a member of Cards.  A company  *)
(* has one source URL, hence one source_link_check row.  Stamps have the   *)
(* resolution of the code, one second; the lifetimes of a link proof are   *)
(* scaled down with their order kept (RetryTTL < ReuseMinLeft < LinkTTL).  *)
(***************************************************************************)
EXTENDS Integers, FiniteSets

CONSTANTS
    Companies,
    Cards,         \* what the text of a card can be
    None,          \* no row, or no approval
    RulesReject,   \* the cards rules_precheck rejects
    Rank,          \* the place of each company in Today order
    Passes,        \* the processes that run Today QA: scan, search, today-qa
    Modes,         \* how a pass may be started, a subset of ModeKinds
    Limit,         \* QA_LIMIT (24)
    MaxFailures,   \* MAX_CONSECUTIVE_FAILURES (3)
    Answers,       \* what Hermes may answer, a subset of Verdicts
    Poison,        \* the companies on which Hermes never answers
    LinkFindings,  \* what a GET of a source may find, a subset of LinkStates
    LinkTTL,       \* a reachable proof lasts this long (24 h)
    RetryTTL,      \* any other outcome lasts this long (1 h)
    ReuseMinLeft,  \* a proof is reused while more than this is left (18 h)
    ReviewLimit,   \* one card takes no longer (3 x HERMES_TIMEOUT_S)
    Scorers,       \* who rescores, a subset of {"daily", "bulk"}
    Overlap,       \* may a rescore or new data land while a pass is running?
    SameSecond,    \* ... or in the second in which a check was recorded?
    MayFail,       \* may a card blow up or a process die?
    MaxTime,       \* bound: seconds
    MaxChanges     \* bound: rescores and data changes

ModeKinds == {"hermes",   \* Hermes is there
              "rules",    \* rules-only by request
              "down"}     \* no Hermes and nobody asked for rules-only
Verdicts == {"pass", "reject", "incomplete"}
LinkStates == {"reachable", "dead", "unknown"}

ASSUME ConstantsAssumption ==
    /\ RulesReject \subseteq Cards
    /\ Rank \in [Companies -> Nat]
    /\ \A c, d \in Companies : Rank[c] = Rank[d] => c = d
    /\ Modes \subseteq ModeKinds /\ Answers \subseteq Verdicts
    /\ Poison \subseteq Companies /\ LinkFindings \subseteq LinkStates
    /\ Limit \in Nat \ {0} /\ MaxFailures \in Nat \ {0}
    /\ LinkTTL \in Nat /\ RetryTTL \in Nat /\ ReuseMinLeft \in Nat /\ ReviewLimit \in Nat
    /\ Scorers \subseteq {"daily", "bulk"}
    /\ Overlap \in BOOLEAN /\ SameSecond \in BOOLEAN /\ MayFail \in BOOLEAN
    /\ MaxTime \in Nat /\ MaxChanges \in Nat
    /\ None \notin Cards
    /\ None \notin [verdict : Verdicts, checker : {"rules", "hermes", "source", "skip"},
                    at : Nat]
    /\ None \notin [state : LinkStates, expires : Nat]

VARIABLES
    now,        \* the clock
    card,       \* the current text of each company's card
    scoredAt,   \* MAX(score.scored_at) of each company
    checks,     \* today_check, by company and text
    newest,     \* the text of each company's newest check
    link,       \* source_link_check of each company's source
    approved,   \* score_snapshot.approved_snapshot_hash of the current score
    pass,       \* the QA passes in progress
    bulk,       \* the rescore_all in progress
    changes,    \* rescores and data changes so far
    reviewed,   \* history: when a text last got a real pass
    committed,  \* history: when the current score was committed
    seen        \* history: the texts the card has had since then

vars == <<now, card, scoredAt, checks, newest, link, approved, pass, bulk,
          changes, reviewed, committed, seen>>

world == <<card, scoredAt, bulk, changes, committed, seen>>

------------------------------------------------------------------------------
Times == 0..MaxTime
Checkers == {"rules", "hermes", "source", "skip"}
Checks == [verdict : Verdicts, checker : Checkers, at : Times]
MaybeCheck == Checks \cup {None}
Links == [state : LinkStates, expires : 0..(MaxTime + LinkTTL + RetryTTL)]
Never == -1

Idle == [pc |-> "idle"]
Stages == {"next", "verify", "held", "decide", "review", "compare", "approve"}
\* A pass: the texts as it loaded them, the companies it has still to visit, those
\* of them with a finished check already, and the one it is at.
Busy == [pc : Stages, mode : Modes, texts : [Companies -> Cards],
         finished : SUBSET Companies, left : SUBSET Companies, company : Companies,
         cached : MaybeCheck, outcome : LinkStates, since : Times,
         failures : 0..MaxFailures]

TypeOK ==
    /\ now \in Times
    /\ card \in [Companies -> Cards]
    /\ scoredAt \in [Companies -> Times]
    /\ checks \in [Companies -> [Cards -> MaybeCheck]]
    /\ newest \in [Companies -> Cards \cup {None}]
    /\ link \in [Companies -> Links \cup {None}]
    /\ approved \in [Companies -> Cards \cup {None}]
    /\ pass \in [Passes -> Busy \cup {Idle}]
    /\ bulk \in {Idle} \cup [pc : {"scoring"}, stamp : Times]
    /\ changes \in 0..MaxChanges
    /\ reviewed \in [Companies -> [Cards -> Times \cup {Never}]]
    /\ committed \in [Companies -> Times]
    /\ seen \in [Companies -> SUBSET Cards]

Init ==
    /\ now = 0
    /\ card \in [Companies -> Cards]
    /\ scoredAt = [c \in Companies |-> 0]
    /\ checks = [c \in Companies |-> [h \in Cards |-> None]]
    /\ newest = [c \in Companies |-> None]
    /\ link = [c \in Companies |-> None]
    /\ approved = [c \in Companies |-> None]
    /\ pass = [p \in Passes |-> Idle]
    /\ bulk = Idle
    /\ changes = 0
    /\ reviewed = [c \in Companies |-> [h \in Cards |-> Never]]
    /\ committed = [c \in Companies |-> 0]
    /\ seen = [c \in Companies |-> {card[c]}]

------------------------------------------------------------------------------
(* Rows and what they mean.                                                 *)

\* _state_of: `pass` by checker `skip` was never a check.
StateOf(row) ==
    IF row.verdict = "pass" /\ row.checker = "skip" THEN "incomplete" ELSE row.verdict

\* MUTANT: a rescore does not invalidate a stored pass.
CachedCheckOld(c, h) == checks[c][h]

\* MUTANT: a rescore invalidates a veto as well.
CachedCheckNoVeto(c, h) ==
    LET row == checks[c][h] IN
    IF row # None /\ scoredAt[c] > row.at THEN None ELSE row

\* cached_check: a pass older than the score is not an answer any more.
CachedCheck(c, h) ==
    LET row == checks[c][h] IN
    IF row # None /\ StateOf(row) = "pass" /\ scoredAt[c] > row.at THEN None ELSE row

\* _reusable: may a stored row stand in for a fresh check?
Reusable(row, mode) ==
    /\ row # None
    /\ \/ row.verdict = "reject"
       \/ /\ StateOf(row) = "pass"
          /\ row.checker = "rules" => mode = "rules"

\* qa_state of the newest row is `pass`: what Today, the Sheet and the ping ask.
Shown(c) ==
    /\ newest[c] = card[c]
    /\ LET row == checks[c][card[c]] IN
       /\ StateOf(row) = "pass"
       /\ scoredAt[c] <= row.at
       /\ link[c] = None => row.checker # "hermes"
       /\ link[c] # None => link[c].expires > now /\ link[c].state = "reachable"

\* record_check, up to its INSERT OR REPLACE.
Write(c, h, verdict, checker) ==
    /\ checks' = [checks EXCEPT ![c][h] =
                    [verdict |-> verdict, checker |-> checker, at |-> now]]
    /\ newest' = [newest EXCEPT ![c] = h]

------------------------------------------------------------------------------
(* One pass: run_today_qa, and check_one for the card at the head.          *)

Company(p) == pass[p].company
Text(p) == pass[p].texts[pass[p].company]

\* Is Hermes there, and not abandoned?
Live(s) == s.mode = "hermes" /\ s.failures < MaxFailures

Goto(p, stage) == pass' = [pass EXCEPT ![p].pc = stage]

\* Finished cards are only visited, and they are visited first.
Ahead(c, d, finished) ==
    \/ c \in finished /\ d \notin finished
    \/ (c \in finished <=> d \in finished) /\ Rank[c] < Rank[d]

First(c, S, finished) == c \in S /\ \A d \in S \ {c} : Ahead(c, d, finished)

AtCard(s, c, failures) ==
    [s EXCEPT !.pc = "next", !.left = @ \ {c}, !.company = c, !.cached = None,
              !.outcome = "unknown", !.since = 0, !.failures = failures]

\* The loop goes to the next card, or the pass is over.
Advance(p, failures) ==
    LET s == pass[p] IN
    \/ s.left = {} /\ pass' = [pass EXCEPT ![p] = Idle]
    \/ \E c \in s.left : /\ First(c, s.left, s.finished)
                         /\ pass' = [pass EXCEPT ![p] = AtCard(s, c, failures)]

\* What a pass takes on: a card with a standing veto is left out; of those without
\* a finished check, the first Limit in Today order.
Completed(mode) ==
    {c \in Companies : /\ Reusable(CachedCheck(c, card[c]), mode)
                       /\ CachedCheck(c, card[c]).verdict # "reject"}

Unfinished(mode) ==
    {c \in Companies : ~ Reusable(CachedCheck(c, card[c]), mode)}

Selection(mode) ==
    Completed(mode) \cup
    {c \in Unfinished(mode) :
        Cardinality({d \in Unfinished(mode) : Rank[d] < Rank[c]}) < Limit}

Start(p, mode) ==
    /\ pass[p] = Idle
    /\ Overlap \/ bulk = Idle
    /\ \E c \in Selection(mode) :
          /\ First(c, Selection(mode), Completed(mode))
          /\ pass' = [pass EXCEPT ![p] =
               [pc |-> "next", mode |-> mode, texts |-> card,
                finished |-> Completed(mode), left |-> Selection(mode) \ {c},
                company |-> c, cached |-> None, outcome |-> "unknown", since |-> 0,
                failures |-> 0]]
    /\ UNCHANGED <<now, world, checks, newest, link, approved, reviewed>>

\* The pre-check rejects: no checker is asked.
RulesVeto(p) ==
    /\ pass[p].pc = "next"
    /\ Text(p) \in RulesReject
    /\ Write(Company(p), Text(p), "reject", "rules")
    /\ Advance(p, pass[p].failures)
    /\ UNCHANGED <<now, world, link, approved, reviewed>>

\* A stored veto of this very text stands; it is not even recorded again.
StandingVeto(p) ==
    /\ pass[p].pc = "next"
    /\ Text(p) \notin RulesReject
    /\ LET row == CachedCheck(Company(p), Text(p)) IN row # None /\ row.verdict = "reject"
    /\ Advance(p, pass[p].failures)
    /\ UNCHANGED <<now, world, checks, newest, link, approved, reviewed>>

\* The stored answer is read here and used after the network call.
BeginCheck(p) ==
    /\ pass[p].pc = "next"
    /\ Text(p) \notin RulesReject
    /\ LET row == CachedCheck(Company(p), Text(p)) IN
       /\ row # None => row.verdict # "reject"
       /\ pass' = [pass EXCEPT ![p].pc = "verify", ![p].cached = row, ![p].since = now]
    /\ UNCHANGED <<now, world, checks, newest, link, approved, reviewed>>

\* MUTANT: a reachable proof is reused up to its last second.
LinkReusableLate(c, at) == link[c] # None /\ link[c].expires > at

\* verify_source, which takes its time at the start, reuses an unexpired outcome;
\* a reachable one only if it outlives the day it is approving.
LinkReusable(c, at) ==
    /\ link[c] # None
    /\ link[c].expires > at
    /\ link[c].state = "reachable" => link[c].expires - at > ReuseMinLeft

AfterVerify(p, state) ==
    pass' = [pass EXCEPT ![p].pc = IF state = "reachable" THEN "decide" ELSE "held",
                         ![p].outcome = state]

VerifyReuse(p) ==
    /\ pass[p].pc = "verify"
    /\ LinkReusable(Company(p), pass[p].since)
    /\ AfterVerify(p, link[Company(p)].state)
    /\ UNCHANGED <<now, world, checks, newest, link, approved, reviewed>>

VerifyGet(p) ==
    /\ pass[p].pc = "verify"
    /\ ~ LinkReusable(Company(p), pass[p].since)
    /\ \E state \in LinkFindings :
          /\ link' = [link EXCEPT ![Company(p)] =
                        [state |-> state,
                         expires |-> pass[p].since + IF state = "reachable" THEN LinkTTL ELSE RetryTTL]]
          /\ AfterVerify(p, state)
    /\ UNCHANGED <<now, world, checks, newest, approved, reviewed>>

\* No usable evidence: a dead link is a veto, anything else leaves it open.  A
\* veto that was not cached counts as a sign that Hermes is alive.
HoldBack(p) ==
    /\ pass[p].pc = "held"
    /\ LET s == pass[p]
           dead == s.outcome = "dead" IN
       /\ Write(Company(p), Text(p), IF dead THEN "reject" ELSE "incomplete", "source")
       /\ Advance(p, IF dead /\ Live(s) /\ ~ Reusable(s.cached, s.mode) THEN 0
                     ELSE s.failures)
    /\ UNCHANGED <<now, world, link, approved, reviewed>>

\* The stored pass stands in for a check and is recorded again.
ReusePass(p) ==
    /\ pass[p].pc = "decide"
    /\ Reusable(pass[p].cached, pass[p].mode)
    /\ Write(Company(p), Text(p), pass[p].cached.verdict, pass[p].cached.checker)
    /\ Goto(p, "compare")
    /\ UNCHANGED <<now, world, link, approved, reviewed>>

RulesPass(p) ==
    /\ pass[p].pc = "decide"
    /\ ~ Reusable(pass[p].cached, pass[p].mode)
    /\ pass[p].mode = "rules"
    /\ Write(Company(p), Text(p), "pass", "rules")
    /\ reviewed' = [reviewed EXCEPT ![Company(p)][Text(p)] = now]
    /\ Goto(p, "compare")
    /\ UNCHANGED <<now, world, link, approved>>

\* MUTANT: without Hermes the rules decide, asked for or not.
UnavailablePasses(p) ==
    /\ pass[p].pc = "decide"
    /\ ~ Reusable(pass[p].cached, pass[p].mode)
    /\ pass[p].mode # "rules" /\ ~ Live(pass[p])
    /\ Write(Company(p), Text(p), "pass", "rules")
    /\ Advance(p, pass[p].failures)
    /\ UNCHANGED <<now, world, link, approved, reviewed>>

\* No Hermes, or given up on: the card is left unchecked.
Unavailable(p) ==
    /\ pass[p].pc = "decide"
    /\ ~ Reusable(pass[p].cached, pass[p].mode)
    /\ pass[p].mode # "rules" /\ ~ Live(pass[p])
    /\ Write(Company(p), Text(p), "incomplete", "skip")
    /\ Advance(p, pass[p].failures)
    /\ UNCHANGED <<now, world, link, approved, reviewed>>

AskHermes(p) ==
    /\ pass[p].pc = "decide"
    /\ ~ Reusable(pass[p].cached, pass[p].mode)
    /\ Live(pass[p])
    /\ Goto(p, "review")
    /\ UNCHANGED <<now, world, checks, newest, link, approved, reviewed>>

\* What Hermes may come back with; a timeout or an unusable reply is incomplete.
Replies(c) == IF c \in Poison THEN {"incomplete"} ELSE Answers

HermesPass(p) ==
    /\ pass[p].pc = "review"
    /\ "pass" \in Replies(Company(p))
    /\ Write(Company(p), Text(p), "pass", "hermes")
    /\ reviewed' = [reviewed EXCEPT ![Company(p)][Text(p)] = now]
    /\ pass' = [pass EXCEPT ![p].pc = "compare", ![p].failures = 0]
    /\ UNCHANGED <<now, world, link, approved>>

HermesReject(p) ==
    /\ pass[p].pc = "review"
    /\ "reject" \in Replies(Company(p))
    /\ Write(Company(p), Text(p), "reject", "hermes")
    /\ Advance(p, 0)
    /\ UNCHANGED <<now, world, link, approved, reviewed>>

\* MUTANT: a check that did not finish approves like one that did.
HermesFailsApproves(p) ==
    /\ pass[p].pc = "review"
    /\ "incomplete" \in Replies(Company(p))
    /\ Write(Company(p), Text(p), "incomplete", "hermes")
    /\ Goto(p, "compare")
    /\ UNCHANGED <<now, world, link, approved, reviewed>>

HermesFails(p) ==
    /\ pass[p].pc = "review"
    /\ "incomplete" \in Replies(Company(p))
    /\ Write(Company(p), Text(p), "incomplete", "hermes")
    /\ Advance(p, pass[p].failures + 1)
    /\ UNCHANGED <<now, world, link, approved, reviewed>>

\* record_check after a pass: is this still the company's card ...
Compare(p) ==
    /\ pass[p].pc = "compare"
    /\ IF card[Company(p)] = Text(p) THEN Goto(p, "approve")
       ELSE Advance(p, pass[p].failures)
    /\ UNCHANGED <<now, world, checks, newest, link, approved, reviewed>>

\* ... and approve_current, in a statement of its own.
Approve(p) ==
    /\ pass[p].pc = "approve"
    /\ approved' = [approved EXCEPT ![Company(p)] = Text(p)]
    /\ Advance(p, pass[p].failures)
    /\ UNCHANGED <<now, world, checks, newest, link, reviewed>>

\* A card raises: it is marked incomplete and the pass goes on.
BlowUp(p) ==
    /\ MayFail
    /\ pass[p].pc \notin {"idle", "next"}
    /\ Write(Company(p), Text(p), "incomplete", "skip")
    /\ Advance(p, pass[p].failures)
    /\ UNCHANGED <<now, world, link, approved, reviewed>>

\* The process dies.
Die(p) ==
    /\ MayFail
    /\ pass[p] # Idle
    /\ pass' = [pass EXCEPT ![p] = Idle]
    /\ UNCHANGED <<now, world, checks, newest, link, approved, reviewed>>

------------------------------------------------------------------------------
(* What happens to the cards meanwhile.                                     *)

MayChange ==
    /\ changes < MaxChanges
    /\ changes' = changes + 1
    /\ Overlap \/ \A p \in Passes : pass[p] = Idle
    /\ SameSecond \/ \A c \in Companies, h \in Cards :
                        checks[c][h] # None => checks[c][h].at < now

\* MUTANT: the day's snapshot of the old score is kept.
DailyScoreKeeps(c, h) ==
    /\ MayChange
    /\ "daily" \in Scorers
    /\ card' = [card EXCEPT ![c] = h]
    /\ scoredAt' = [scoredAt EXCEPT ![c] = now]
    /\ committed' = [committed EXCEPT ![c] = now]
    /\ seen' = [seen EXCEPT ![c] = {h}]
    /\ UNCHANGED <<now, checks, newest, link, approved, pass, bulk, reviewed>>

\* score_company: the score and today's snapshot of it, in one transaction.
DailyScore(c, h) ==
    /\ MayChange
    /\ "daily" \in Scorers
    /\ card' = [card EXCEPT ![c] = h]
    /\ scoredAt' = [scoredAt EXCEPT ![c] = now]
    /\ approved' = [approved EXCEPT ![c] = None]
    /\ committed' = [committed EXCEPT ![c] = now]
    /\ seen' = [seen EXCEPT ![c] = {h}]
    /\ UNCHANGED <<now, checks, newest, link, pass, bulk, reviewed>>

\* Sources, evidence or headlines change the text without a rescore.
NewData(c, h) ==
    /\ MayChange
    /\ h # card[c]
    /\ card' = [card EXCEPT ![c] = h]
    /\ seen' = [seen EXCEPT ![c] = @ \cup {h}]
    /\ UNCHANGED <<now, scoredAt, checks, newest, link, approved, pass, bulk,
                   reviewed, committed>>

\* rescore_all takes its stamp before it reads and computes ...
BulkStart ==
    /\ MayChange
    /\ "bulk" \in Scorers
    /\ bulk = Idle
    /\ bulk' = [pc |-> "scoring", stamp |-> now]
    /\ UNCHANGED <<now, card, scoredAt, checks, newest, link, approved, pass,
                   reviewed, committed, seen>>

\* ... and replaces every score and today's snapshots in one transaction.
BulkCommit(texts) ==
    /\ bulk # Idle
    /\ card' = texts
    /\ scoredAt' = [c \in Companies |-> bulk.stamp]
    /\ approved' = [c \in Companies |-> None]
    /\ bulk' = Idle
    /\ committed' = [c \in Companies |-> now]
    /\ seen' = [c \in Companies |-> {texts[c]}]
    /\ UNCHANGED <<now, checks, newest, link, pass, changes, reviewed>>

\* No card takes longer than the checker's own time limit.
Tick ==
    /\ now < MaxTime
    /\ \A p \in Passes :
          pass[p].pc \notin {"idle", "next"} => now < pass[p].since + ReviewLimit
    /\ now' = now + 1
    /\ UNCHANGED <<world, checks, newest, link, approved, pass, reviewed>>

------------------------------------------------------------------------------
Step(p) ==
    \/ RulesVeto(p) \/ StandingVeto(p) \/ BeginCheck(p)
    \/ VerifyReuse(p) \/ VerifyGet(p) \/ HoldBack(p)
    \/ ReusePass(p) \/ RulesPass(p) \/ Unavailable(p) \/ AskHermes(p)
    \/ HermesPass(p) \/ HermesReject(p) \/ HermesFails(p)
    \/ Compare(p) \/ Approve(p)

Next ==
    \/ Tick
    \/ \E p \in Passes, mode \in Modes : Start(p, mode)
    \/ \E p \in Passes : Step(p) \/ BlowUp(p) \/ Die(p)
    \/ \E c \in Companies, h \in Cards : DailyScore(c, h) \/ NewData(c, h)
    \/ BulkStart
    \/ \E texts \in [Companies -> Cards] : BulkCommit(texts)

Spec == Init /\ [][Next]_vars

\* The timer starts passes and a started pass runs on.
FairSpec ==
    /\ Spec
    /\ \A p \in Passes : WF_vars(Step(p)) /\ WF_vars(\E mode \in Modes : Start(p, mode))

------------------------------------------------------------------------------
(* Properties                                                               *)

\* What is shown is a text that some check, Hermes or a requested rules-only
\* one, really went through and passed: no outage, timeout, crash, cached
\* failure or rescore ever promotes a card by itself.
ShownWasChecked ==
    \A c \in Companies : Shown(c) => reviewed[c][card[c]] # Never

\* The same for the proof frozen with the score, which the digests read later.
ApprovedWasChecked ==
    \A c \in Companies : approved[c] # None => reviewed[c][approved[c]] # Never

\* The approval frozen with a score is for a card the company had under that
\* score, not for one that score replaced.
ApprovedIsOfThisScore ==
    \A c \in Companies : approved[c] # None => approved[c] \in seen[c]

\* A score that was just committed is shown only after a check that was made for
\* it, even when its card reads the same as before.
FreshVerdict ==
    \A c \in Companies : Shown(c) => reviewed[c][card[c]] >= committed[c]

\* A veto stands as long as the card reads the same.
RejectStands ==
    [][ \A c \in Companies, h \in Cards :
          checks[c][h] # None /\ checks[c][h].verdict = "reject"
            => checks'[c][h].verdict = "reject" ]_vars

\* A card that passed in the morning is not withheld before the next one because
\* its link proof was about to expire when it was reused.
ProofOutlivesDay ==
    \A c \in Companies, h \in Cards :
        /\ checks[c][h] # None /\ StateOf(checks[c][h]) = "pass"
        /\ link[c] # None /\ link[c].state = "reachable"
        => link[c].expires > checks[c][h].at + ReuseMinLeft - ReviewLimit

\* Fewer stuck cards than it takes to give up on Hermes cannot keep the others
\* from ever being checked.
Judged(c) == checks[c][card[c]] # None /\ StateOf(checks[c][card[c]]) # "incomplete"
GoodCardsGetChecked == \A c \in Companies \ Poison : <>[]Judged(c)

==============================================================================
