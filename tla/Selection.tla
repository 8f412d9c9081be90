----------------------------- MODULE Selection -----------------------------
(***************************************************************************)
(* What stands on Today, and in which order.  A company's live matches     *)
(* give it one row; the rows are spread over funds, sources and sectors,   *)
(* a source's share of a fund's list is capped, and a fund in focus comes  *)
(* first and narrows what the dashboard, the Sheet and the ping show.      *)
(* The focus is two values that the command line and the control room      *)
(* write one after the other.  Points are in halves, shares in percent.    *)
(***************************************************************************)
EXTENDS Nothing, Integers, Sequences, FiniteSets, FiniteSetsExt

CONSTANTS
    Firms,                \* company -> [route, sector, sources, london], sources newest first
    FirmOrder,            \* the companies in the order of their names
    Match,                \* <<company, fund>> -> [priority, evidenced, fits]: a score
    Feeds,                \* source -> the funds it feeds, {} for all
    MaxShare, RegistryShare, DigestMax,
    FocusClients, Plans,  \* who sets a focus; rotations that may be set
    MaxDay, MaxTurns, MaxRescores  \* bounds: days, requests and changes, changes

VARIABLES
    matches,     \* company -> its funds with a shortlist or watchlist score
    passed,      \* companies whose Today check passed
    focus,       \* [fund, until, plan]: the rows of _meta
    client,      \* client -> the second half of what it is writing, or None
    today,
    focusAsked,  \* [fund, from]: the focus requests begun so far, and the last clear
    budget       \* [requests, changes]

selectionVars == <<matches, passed, focus, client, today, focusAsked, budget>>

FirmKeys == DOMAIN Firms

\* Every company has a name of its own, and shares are percentages.
ASSUME SelectionAssumption ==
    /\ IsFiniteSet(FirmKeys) /\ IsFiniteSet(DOMAIN Match)
    /\ \A p \in DOMAIN Match : Match[p].priority \in Nat
    /\ FirmOrder \in Seq(FirmKeys) /\ \A c \in FirmKeys : \E i \in DOMAIN FirmOrder : FirmOrder[i] = c
    /\ MaxShare \in Nat /\ RegistryShare \in Nat

\* What is on a list.
CardsOf(list) == {list[i] : i \in DOMAIN list}

\* What is left of a list without what is not in T.
Keep(list, T) ==
    LET kept[n \in 0 .. Len(list)] ==
            IF n = 0 THEN <<>>
            ELSE IF list[n] \in T THEN Append(kept[n - 1], list[n]) ELSE kept[n - 1]
    IN  kept[Len(list)]

-----------------------------------------------------------------------------
(* selection.py: a company's row.                                          *)

\* source_funds: a source that feeds every fund lifts the restriction.
Allowed(c, f) ==
    \/ \A key \in DOMAIN Feeds : Feeds[key] = {}
    \/ \E i \in DOMAIN Firms[c].sources : Feeds[Firms[c].sources[i]] = {}
    \/ \E i \in DOMAIN Firms[c].sources : f \in Feeds[Firms[c].sources[i]]

Priority(c, f) == Match[<<c, f>>].priority

Offered(c) == {f \in matches[c] : Allowed(c, f)}

Best(c, funds) == CHOOSE f \in funds : \A g \in funds : Priority(c, f) >= Priority(c, g)

\* A London company that fits DSW best is suggested another fund, if one has
\* half of its evidence and no gate against it.
Alternatives(c) == {f \in Offered(c) \ {"dsw"} : Match[<<c, f>>].evidenced /\ Match[<<c, f>>].fits}

\* recommend_today_rows: the fund a company is shown for.
Suggested(c) ==
    LET best == Best(c, Offered(c))
    IN  IF best = "dsw" /\ Firms[c].london /\ Alternatives(c) # {}
        THEN Best(c, Alternatives(c)) ELSE best

-----------------------------------------------------------------------------
(* rank_today_rows.                                                        *)

TrackA == {"news", "grant", "spinout", "accelerator"}

Track(c) == IF Firms[c].route \in TrackA THEN 0 ELSE 1

Grants == {"innovate_uk", "ukri", "ukri_gtr", "gateway_to_research", "gtr"}

\* The newest source names the family, and any other before the register.
SourceKey(c) ==
    LET sources == Firms[c].sources
        others == {i \in DOMAIN sources : sources[i] # "companies_house"}
    IN  IF others = {} THEN "companies_house" ELSE sources[Min(others)]

Family(c) ==
    IF SourceKey(c) \in Grants THEN "public_research_grants"
    ELSE IF SourceKey(c) = "companies_house" THEN "registry"
    ELSE IF Firms[c].route = "news" THEN "press"
    ELSE Firms[c].route

MinOf(a, b) == IF a < b THEN a ELSE b

\* What the ranking knows of a row.
Card(c) ==
    LET fund == Suggested(c)
    IN  [company |-> c, fund |-> fund, priority |-> Priority(c, fund),
         track |-> Track(c), family |-> Family(c), sector |-> Firms[c].sector]

\* What a repeat costs: saturated after three, an unknown as if it were.
Repeats(card, picked, key) ==
    IF card[key] = "unknown" THEN 3
    ELSE MinOf(3, Cardinality({i \in DOMAIN picked : picked[i][key] = card[key]}))

FullPenalty(card, picked) ==
    4 * Repeats(card, picked, "fund") + 3 * Repeats(card, picked, "family")
        + 2 * Repeats(card, picked, "sector")

Penalty(card, picked) == MinOf(24, FullPenalty(card, picked))

Value(card, picked) == card.priority - Penalty(card, picked)

\* The highest after its penalty, the first of equals.
Picked(pool, picked) ==
    LET left == {i \in DOMAIN pool : pool[i] \notin CardsOf(picked)}
    IN  pool[Min({i \in left : \A j \in left : Value(pool[i], picked) >= Value(pool[j], picked)})]

\* The rows of a track, picked one after the other.
Picks(pool) ==
    LET picks[n \in 0 .. Len(pool)] ==
            IF n = 0 THEN <<>>
            ELSE LET before == picks[n - 1] IN Append(before, Picked(pool, before))
    IN  picks[Len(pool)]

DiversifyTrack(cards, t) == Picks(Keep(cards, {card \in CardsOf(cards) : card.track = t}))

Diversify(cards) == DiversifyTrack(cards, 0) \o DiversifyTrack(cards, 1)

FreeCards(family) == IF family = "registry" THEN 0 ELSE 3

Share(family) == IF family = "registry" THEN RegistryShare ELSE MaxShare

\* Cards a family may have of a fund's list of n.
AllowedCards(family, n) == Max({FreeCards(family), (Share(family) * n) \div 100})

\* A fund's cards among the first n, and a family's of those.
OfFund(cards, n, f) == {i \in 1 .. n : cards[i].fund = f}

OfFamily(cards, n, f, family) == {i \in OfFund(cards, n, f) : cards[i].family = family}

Fitting(fits, card) ==
    LET n == Len(fits)
    IN  Cardinality(OfFamily(fits, n, card.fund, card.family)) + 1
            <= AllowedCards(card.family, Cardinality(OfFund(fits, n, card.fund)) + 1)

Admitted(fits, card) == IF Fitting(fits, card) THEN Append(fits, card) ELSE fits

Fits(cards) ==
    LET fits[n \in 0 .. Len(cards)] ==
            IF n = 0 THEN <<>> ELSE LET before == fits[n - 1] IN Admitted(before, cards[n])
    IN  fits[Len(cards)]

\* cap_source_share: what does not fit waits behind everything that does.
Capped(cards) ==
    LET fits == Fits(cards)
    IN  fits \o Keep(cards, CardsOf(cards) \ CardsOf(fits))

-----------------------------------------------------------------------------
(* focus.py                                                                *)

Explicit == focus.fund # None /\ focus.until # None /\ focus.until >= today

\* active: the explicit focus while it runs, then the rotation's of the weekday.
Focus == IF Explicit THEN focus.fund ELSE focus.plan[today % 2]

\* The rows as the query returns them, by track, priority of the best match and name.
BestPriority(c) == Priority(c, Best(c, matches[c]))

ByName(c) == CHOOSE i \in DOMAIN FirmOrder : FirmOrder[i] = c

Before(c, d) ==
    \/ Track(c) < Track(d)
    \/ Track(c) = Track(d) /\ BestPriority(c) > BestPriority(d)
    \/ Track(c) = Track(d) /\ BestPriority(c) = BestPriority(d) /\ ByName(c) < ByName(d)

Queued(S) == {c \in S : Offered(c) # {}}

\* The row that comes first of those left.
Foremost(left) == CHOOSE c \in left : \A d \in left \ {c} : Before(c, d)

QueueRows(S) ==
    LET rows[n \in 0 .. Cardinality(Queued(S))] ==
            IF n = 0 THEN <<>>
            ELSE LET before == rows[n - 1]
                 IN  Append(before, Card(Foremost(Queued(S) \ {card.company : card \in CardsOf(before)})))
    IN  rows[Cardinality(Queued(S))]

\* fund_match_ids
Live(card) == Focus \in matches[card.company]

LiveOf(cards) == {card \in CardsOf(cards) : Live(card)}

\* What is live for the focus fund comes first, within the order there was.
Ranked(S) ==
    LET ranked == Capped(Diversify(QueueRows(S)))
    IN  Keep(ranked, LiveOf(ranked)) \o Keep(ranked, CardsOf(ranked) \ LiveOf(ranked))

-----------------------------------------------------------------------------
(* The three places that show Today.                                       *)

\* A focus leaves only what matches its fund.
Focused(cards) == IF Focus = None THEN cards ELSE Keep(cards, LiveOf(cards))

\* build_today: the cards whose check did not pass are blocked before they are ranked.
Dashboard == Focused(Ranked(passed))

\* load_today_cards, today_cards: the queue is ranked, then the unchecked are left out.
SheetCards ==
    LET queue == Ranked(FirmKeys)
    IN  Focused(Keep(queue, {card \in CardsOf(queue) : card.company \in passed}))

Top(cards) == SubSeq(cards, 1, MinOf(DigestMax, Len(cards)))

\* _fund_today: what the ping says of the focus fund is shown.
PingShown == {card \in CardsOf(Ranked(FirmKeys)) : Live(card) /\ card.company \in passed}

-----------------------------------------------------------------------------

TurnLeft == budget.requests + budget.changes < MaxTurns

AskFocus == TurnLeft /\ budget' = [budget EXCEPT !.requests = @ + 1]

\* set_focus, its first statement; the second is a transaction of its own.
SetFund(k, f, length) ==
    /\ client[k] = None /\ AskFocus
    /\ focus' = [focus EXCEPT !.fund = f]
    /\ client' = [client EXCEPT ![k] = [fund |-> f, until |-> today + length - 1]]
    /\ focusAsked' = focusAsked \cup {[fund |-> f, until |-> today + length - 1]}
    /\ UNCHANGED <<matches, passed, today>>

\* Only the second row is deleted.
ClearNoFund(k) ==
    /\ client[k] = None /\ AskFocus
    /\ client' = [client EXCEPT ![k] = [fund |-> None, until |-> None]]
    /\ focusAsked' = {a \in focusAsked : \E j \in FocusClients : client[j] = a}
    /\ UNCHANGED <<matches, passed, focus, today>>

\* clear_focus, its first statement: what was asked for and is done is over.
ClearFund(k) ==
    /\ client[k] = None /\ AskFocus
    /\ focus' = [focus EXCEPT !.fund = None]
    /\ client' = [client EXCEPT ![k] = [fund |-> None, until |-> None]]
    /\ focusAsked' = {a \in focusAsked : \E j \in FocusClients : client[j] = a}
    /\ UNCHANGED <<matches, passed, today>>

SetUntil(k) ==
    /\ client[k] # None
    /\ focus' = [focus EXCEPT !.until = client[k].until]
    /\ client' = [client EXCEPT ![k] = None]
    /\ UNCHANGED <<matches, passed, today, focusAsked, budget>>

\* Killed between the two statements.
Killed(k) ==
    /\ client[k] # None
    /\ client' = [client EXCEPT ![k] = None]
    /\ UNCHANGED <<matches, passed, focus, today, focusAsked, budget>>

SetRotation(plan) ==
    /\ AskFocus
    /\ focus' = [focus EXCEPT !.plan = plan]
    /\ UNCHANGED <<matches, passed, client, today, focusAsked>>

Changing ==
    /\ TurnLeft /\ budget.changes < MaxRescores
    /\ budget' = [budget EXCEPT !.changes = @ + 1]

\* The scorer or a verdict changes a company's live matches.
Rescored(c, funds) ==
    /\ Changing
    /\ funds # matches[c]
    /\ matches' = [matches EXCEPT ![c] = funds]
    /\ UNCHANGED <<passed, focus, client, today, focusAsked>>

CheckPasses(c) ==
    /\ Changing
    /\ passed' = SymDiff(passed, {c})
    /\ UNCHANGED <<matches, focus, client, today, focusAsked>>

NextSelectionDay ==
    /\ today < MaxDay
    /\ today' = today + 1
    /\ UNCHANGED <<matches, passed, focus, client, focusAsked, budget>>

FundsOf(c) == {f \in {p[2] : p \in DOMAIN Match} : <<c, f>> \in DOMAIN Match}

AllFunds == UNION {FundsOf(c) : c \in FirmKeys}

SelectionInit ==
    /\ matches = [c \in FirmKeys |-> FundsOf(c)]
    /\ passed = FirmKeys
    /\ focus = [fund |-> None, until |-> None, plan |-> [weekday \in 0 .. 1 |-> None]]
    /\ client = [k \in FocusClients |-> None]
    /\ today = 1
    /\ focusAsked = {}
    /\ budget = [requests |-> 0, changes |-> 0]

SelectionNext ==
    \/ \E k \in FocusClients : \/ \E f \in AllFunds, length \in 1 .. 2 : SetFund(k, f, length)
                               \/ ClearFund(k)
                               \/ SetUntil(k)
                               \/ Killed(k)
    \/ \E plan \in Plans : SetRotation(plan)
    \/ \E c \in FirmKeys : \/ \E funds \in SUBSET FundsOf(c) : Rescored(c, funds)
                           \/ CheckPasses(c)
    \/ NextSelectionDay

SelectionSpec == SelectionInit /\ [][SelectionNext]_selectionVars

-----------------------------------------------------------------------------
(* Properties.                                                             *)

\* "At most twelve priority points of pressure": within a track a card never
\* stands behind one that is more than twelve points below it.
PressureIsSoft ==
    \A t \in {0, 1} :
        \A list \in {DiversifyTrack(QueueRows(FirmKeys), t)} : \A i, j \in DOMAIN list :
            i < j => list[j].priority - list[i].priority <= 24

\* In every prefix of what fits a fund's list a family has no more than its
\* share, or its free cards; what only the register knows has none of those.
SharedOut(fits) ==
    \A n \in DOMAIN fits :
        LET list == OfFund(fits, n, fits[n].fund)
        IN  \A i \in list :
                LET share == (Share(fits[i].family) * Cardinality(list)) \div 100
                IN  Cardinality(OfFamily(fits, n, fits[n].fund, fits[i].family)) <=
                        IF SourceKey(fits[i].company) = "companies_house" THEN share
                        ELSE Max({3, share})

SharesAreKept == SharedOut(Fits(Diversify(QueueRows(FirmKeys))))

\* "Order only; nothing is dropped": what the dashboard and the Sheet show of a
\* focus fund is what the ping counts, each card once.
SurfacesShowTheSame ==
    \A dashboard \in {Dashboard}, tab \in {SheetCards} :
        /\ CardsOf(dashboard) = CardsOf(tab)
        /\ Len(dashboard) = Len(tab) /\ Cardinality(CardsOf(dashboard)) = Len(dashboard)
        /\ Focus # None => CardsOf(dashboard) = PingShown

TodayIsFair == PressureIsSoft /\ SharesAreKept /\ SurfacesShowTheSame

\* An explicit focus is on a fund somebody asked for since it was last cleared,
\* however the two statements of two clients interleave and whichever is killed.
FocusWasAskedFor == Explicit => \E a \in focusAsked : a.fund = focus.fund

\* today_cards: "in dashboard order".
SheetInDashboardOrder == Top(SheetCards) = Top(Dashboard)

=============================================================================
