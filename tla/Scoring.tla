------------------------------ MODULE Scoring ------------------------------
(***************************************************************************)
(* One company through stage 6 of the pipeline: facts are learned, the     *)
(* scorer fills in what they imply, gates, matches and tiers the company   *)
(* for every fund, and the rows of `score` are replaced.  Daily runs score *)
(* one company, for all funds or one; `rescore --all` has a path of its    *)
(* own.  A fact nobody supplied is Unknown, which is neither 0 nor FALSE.  *)
(* Percentages are in tenths, sub-scores and coverage in hundredths.       *)
(***************************************************************************)
EXTENDS Integers, FiniteSets, FiniteSetsExt

CONSTANTS
    Unknown,
    ScoredFunds, VehiclesOf,  \* fund -> its vehicles, in order
    Thresholds,               \* the Settings tab, a record
    Tables,                   \* the Lists, Weights and Matrix tabs, a record
    Starts,                   \* companies as a source may deliver them
    News,                     \* field -> facts that may be learned about it
    MaxLearned                \* bound on the facts learned

VARIABLES
    company,  \* the stored row with its founders and signals
    scores,   \* [rows, snapshots, day]: its rows of `score` and of `score_snapshot`, today
    learned   \* facts learned since the start

scoringVars == <<company, scores, learned>>

\* What is stored of a company, as far as scoring reads it.
Facts == {"incorporated", "funding", "stage", "share", "portfolio", "country", "region", "city",
          "outcode", "registered", "sector", "sic", "founders", "founderSignal", "traction",
          "signals", "press", "website", "route", "spinout", "university", "round", "priorTotal",
          "valuation", "ukExec", "seis"}

ASSUME ScoringAssumption ==
    /\ Unknown \notin BOOLEAN
    /\ Thresholds.minQualifiers \in Nat
    /\ \A c \in Starts : DOMAIN c = Facts

Known(x) == x # Unknown

FundingStages == <<"idea", "pre_seed", "seed", "series_a", "series_b_plus", "growth">>

Index(stage) == CHOOSE i \in DOMAIN FundingStages : FundingStages[i] = stage

\* In months.  A stated year is stored as a date of incorporation.
Age(c) == c.incorporated

AtStage(table, key) == IF key \in DOMAIN table THEN table[key] ELSE Unknown

-----------------------------------------------------------------------------
(* derive.py: what the facts imply, each step on the result of the last.   *)

ByOutcode(c) ==
    IF ~Known(c.outcode) THEN Unknown
    ELSE IF c.outcode \in DOMAIN Tables.outcodes THEN Tables.outcodes[c.outcode]
    ELSE "uk_wide"

ByCity(c) == AtStage(Tables.cities, c.city)

\* A stored uk_wide is no place: an outcode or a stated city refines it.
Geography(c) ==
    IF c.region \notin {Unknown, "uk_wide"} THEN c.region
    ELSE IF ByOutcode(c) \notin {Unknown, "uk_wide"} THEN ByOutcode(c)
    ELSE IF Known(ByCity(c)) THEN ByCity(c)
    ELSE IF Known(ByOutcode(c)) \/ Known(c.region) THEN "uk_wide"
    ELSE IF c.country = "GB" THEN "uk_wide"
    ELSE Unknown

YoungEnough(c, months) == Known(Age(c)) /\ Age(c) <= months

\* No stored row has an announced round.
DeriveStage(c) ==
    IF c.share /\ YoungEnough(c, 24) THEN "pre_seed"
    ELSE IF c.share THEN "seed"
    ELSE IF YoungEnough(c, 12) THEN "idea"
    ELSE Unknown

DeriveFounderSignal(c, sector) ==
    IF c.spinout = TRUE THEN "research_spinout"
    ELSE IF \E f \in c.founders : f.prior THEN "repeat_founder"
    ELSE IF sector \in Tables.technical /\ \E f \in c.founders : f.psc THEN "technical_founder"
    ELSE IF c.founders # {} THEN "generalist_unclear"
    ELSE Unknown

DeriveTraction(c, stage) ==
    IF "grant_award" \in c.signals THEN "clinical_grant_validation"
    ELSE IF "competition_win" \in c.signals THEN "community_traction"
    ELSE IF stage \in {"idea", "pre_seed"} /\ ~c.share THEN "pre_revenue_concept"
    ELSE Unknown

IsStated(fact, derived) == IF Known(fact) THEN fact ELSE derived

\* derive_updates: sector feeds the founder signal, stage feeds traction.
Derived(c) ==
    LET sector == IsStated(c.sector, AtStage(Tables.sics, c.sic))
        stage  == IsStated(c.stage, DeriveStage(c))
    IN  [c EXCEPT !.region = Geography(c), !.sector = sector, !.stage = stage,
                  !.founderSignal = IsStated(@, DeriveFounderSignal(c, sector)),
                  !.traction = IsStated(@, DeriveTraction(c, stage))]

-----------------------------------------------------------------------------
(* gates.py: a known value out of range rejects, an unknown one is flagged. *)

UkGeographies == {"london", "uk_regions", "north_east", "yorkshire", "uk_wide"}

\* Another country is the only no; everything else corroborates.
HasUkPresence(c) ==
    IF Known(c.country) THEN c.country = "GB"
    ELSE IF c.region \in UkGeographies THEN TRUE
    ELSE IF Known(c.outcode) \/ c.registered THEN TRUE
    ELSE Unknown

Exceeds(value, cap) == Known(value) /\ value > cap

\* apply_freshness_gates: the first that rejects, and the flags of those before.
FreshnessReason(c) ==
    IF Exceeds(Age(c), Thresholds.maxAge) THEN "max_company_age_months"
    ELSE IF Exceeds(c.funding, Thresholds.maxFunding) THEN "max_total_funding_gbp"
    ELSE IF Known(c.stage) /\ Index(c.stage) > Index(Thresholds.maxStage) THEN "max_stage"
    ELSE IF c.portfolio THEN "already_on_vc_portfolio"
    ELSE IF HasUkPresence(c) = FALSE THEN "min_uk_presence"
    ELSE "none"

FreshnessFlags(c) ==
    (IF Known(Age(c)) THEN {} ELSE {"age_unknown"})
        \cup (IF FreshnessReason(c) = "none" /\ ~Known(HasUkPresence(c)) THEN {"uk_unverified"} ELSE {})

Verdict(test) == IF test THEN "met" ELSE "broken"

StageRangeGate(c, v) ==
    IF ~Known(v.stageMin) /\ ~Known(v.stageMax) THEN "met"
    ELSE IF ~Known(c.stage) THEN "unverified"
    ELSE Verdict(/\ Known(v.stageMin) => Index(c.stage) >= Index(v.stageMin)
                 /\ Known(v.stageMax) => Index(c.stage) <= Index(v.stageMax))

AgeCapGate(c, v) ==
    IF v.maxAgeYears = 0 THEN "met"
    ELSE IF ~Known(Age(c)) THEN "unverified"
    ELSE Verdict(Age(c) <= 12 * v.maxAgeYears)

InTriangle(c) ==
    \/ c.outcode \in Tables.triangleOutcodes
    \/ c.region = "london"
    \/ c.city \in Tables.triangleCities

\* Unknown where it cannot be told.
GeoRuleVerdict(c, rule) ==
    LET region == IF c.region \in {Unknown, "uk_wide"} THEN IsStated(ByCity(c), c.region)
                  ELSE c.region
        somewhere(r) == r \notin {Unknown, "uk_wide"}
    IN  IF rule = "outside_golden_triangle"
        THEN IF InTriangle(c) THEN FALSE
             ELSE IF Known(c.outcode) \/ somewhere(c.region) \/ somewhere(ByCity(c)) THEN TRUE
             ELSE Unknown
        ELSE IF rule = "sunderland"
        THEN IF Known(c.city) THEN c.city \in Tables.sunderlandTowns
             ELSE IF Known(c.outcode) THEN c.outcode \in Tables.sunderlandOutcodes
             ELSE Unknown
        ELSE IF rule = "uk_wide" THEN HasUkPresence(c)
        ELSE IF rule = "uk_regions"
        THEN IF Known(region) THEN region \in UkGeographies \ {"london"} ELSE Unknown
        ELSE IF ~somewhere(region) THEN Unknown
        ELSE IF rule = "north_england" THEN region \in {"north_east", "yorkshire"}
        ELSE region = rule

\* _geography_gate: one rule that is met is enough; a soft one never rejects.
GeographyGate(c, v) ==
    LET verdicts == {GeoRuleVerdict(c, rule) : rule \in v.geoValues}
    IN  IF v.geoRule # "HARD" \/ v.geoValues = {} THEN "met"
        ELSE IF TRUE \in verdicts THEN "met"
        ELSE IF Unknown \in verdicts THEN "unverified"
        ELSE "broken"

\* _max_rule and its like; the test is of a known value.
Rule(value, test) == IF Known(value) THEN Verdict(test) ELSE "unverified"

SpinoutRule(c, universities) ==
    IF ~Known(c.spinout) THEN "unverified"
    ELSE IF c.spinout = FALSE THEN "broken"
    ELSE IF universities = {} THEN "met"
    ELSE IF ~Known(c.university) THEN "unverified"
    ELSE Verdict(c.university \in universities)

SeisEisRule(c) ==
    IF c.sector \in Tables.seisExcluded THEN "broken"
    ELSE IF ~Known(c.seis) THEN "unverified"
    ELSE Verdict(c.seis)

\* Rules that a vehicle may carry switched off.
Switches == {"beyond_research_stage", "requires_seis_eis"}

\* _hard_reject: a key it does not know is ignored.
HardReject(c, rule) ==
    IF rule.key = "round_max" THEN Rule(c.round, c.round <= rule.value)
    ELSE IF rule.key = "prior_total_max" THEN Rule(c.priorTotal, c.priorTotal <= rule.value)
    ELSE IF rule.key = "valuation_max" THEN Rule(c.valuation, c.valuation <= rule.value)
    ELSE IF rule.key = "uk_exec_pct_min" THEN Rule(c.ukExec, c.ukExec >= rule.value)
    ELSE IF rule.key \in Switches /\ rule.value = FALSE THEN "met"
    ELSE IF rule.key = "beyond_research_stage" THEN Rule(c.stage, c.stage # "idea")
    ELSE IF rule.key = "university_spinout_required" THEN SpinoutRule(c, rule.value)
    ELSE IF rule.key = "requires_seis_eis" THEN SeisEisRule(c)
    ELSE "met"

\* evaluate_vehicle_gates; the code stops at the first rule that is broken,
\* after which nothing of its result is used.
VehicleVerdict(c, v) ==
    LET verdicts == {StageRangeGate(c, v), AgeCapGate(c, v), GeographyGate(c, v)}
                        \cup {HardReject(c, rule) : rule \in v.hardRejects}
    IN  IF "broken" \in verdicts THEN "fails"
        ELSE IF "unverified" \in verdicts THEN "unverified"
        ELSE "passes"

-----------------------------------------------------------------------------
(* qualify.py: a company of the register needs a reason to be scored.      *)

QualifierOf == [share_issue |-> "share_issue", grant_award |-> "grant", spinout |-> "spinout",
                press |-> "press", news |-> "press", competition_win |-> "press"]

AdmittingByDefault == {"share_issue", "grant", "spinout", "press"}
QualifierKinds == AdmittingByDefault \cup {"repeat_founder", "website"}

\* derive_qualifiers; nothing in the program fills the column that may state more.
DeriveQualifiers(c) ==
    {q \in QualifierKinds :
        \/ q = "share_issue" /\ c.share
        \/ q = "spinout" /\ c.spinout = TRUE
        \/ q = "press" /\ Exceeds(c.press, 0)
        \/ q = "website" /\ c.website
        \/ q = "repeat_founder" /\ \E f \in c.founders : f.prior
        \/ \E kind \in c.signals \cap DOMAIN QualifierOf : q = QualifierOf[kind]}

\* The Lists tab says which of them admit; if it names none, the seeded ones do.
AdmittingQualifiers ==
    IF Tables.qualifiers \cap QualifierKinds # {}
    THEN Tables.qualifiers \cap QualifierKinds ELSE AdmittingByDefault

IsQualified(c) ==
    \/ Thresholds.minQualifiers <= 0
    \/ Known(c.route) /\ c.route # "registry"
    \/ Cardinality(DeriveQualifiers(c) \cap AdmittingQualifiers) >= Thresholds.minQualifiers

Unqualified(c) == c.route = "registry" /\ ~IsQualified(c)

-----------------------------------------------------------------------------
(* fund_fit.py, discovery_edge.py, tiering.py.                             *)

Attributes == {"stage", "sector", "region", "founderSignal", "traction"}

\* A known value that the matrix has no cell for is worth 0.
Cell(attribute, value, f) ==
    IF <<attribute, value, f>> \in DOMAIN Tables.matrix
    THEN Tables.matrix[<<attribute, value, f>>] ELSE 0

\* attribute_raw, in quarters: an unknown attribute by its policy.
SubScore(c, a, f) ==
    IF Known(c[a]) THEN Cell(a, c[a], f)
    ELSE IF Tables.policy[a] = "pessimistic" THEN 0
    ELSE IF Tables.policy[a] = "assume" /\ a \in DOMAIN Tables.assumed
    THEN Cell(a, Tables.assumed[a], f)
    ELSE Unknown

Rounded(n, d) == (2 * n + d) \div (2 * d)

Total(S, Op(_)) == MapThenSumSet(Op, S)

\* calculate_fund_fit: of the maximum of all attributes, known or not.
FundFit(c, f) ==
    LET weight(a) == Tables.weight[<<a, f>>]
        counted == {a \in Attributes : Known(SubScore(c, a, f))}
        most == 4 * Total(Attributes, weight)
    IN  [pct |-> IF most = 0 THEN 0
                 ELSE Rounded(1000 * Total(counted, LAMBDA a : weight(a) * SubScore(c, a, f)), most),
         coverage |-> Rounded(100 * Cardinality({a \in Attributes : Known(c[a])}),
                              Cardinality(Attributes))]

\* curve_score between the knots, 0 beyond the last.
AgeSub(age) ==
    IF ~Known(age) THEN 50
    ELSE IF age <= 12 THEN 100 - (15 * age) \div 12
    ELSE IF age <= 24 THEN 85 - (30 * (age - 12)) \div 12
    ELSE IF age <= 36 THEN 55 - (40 * (age - 24)) \div 12
    ELSE 0

PressSub(press) ==
    IF ~Known(press) THEN 50
    ELSE IF press = 0 THEN 100
    ELSE IF press = 1 THEN 70
    ELSE IF press <= 4 THEN 40
    ELSE 0

\* Funding is in thousands.
FundingSub(funding) ==
    IF ~Known(funding) THEN 50
    ELSE IF funding = 0 THEN 100
    ELSE IF funding < 500 THEN 60
    ELSE IF funding <= 1500 THEN 30
    ELSE 0

RouteScores == [spinout |-> 100, accelerator |-> 90, grant |-> 80, registry |-> 70,
                news |-> 50, portfolio |-> 20]

\* _route: a find of the register that has press is less obscure.
RouteSub(c) ==
    IF c.route = "registry" /\ Exceeds(c.press, 0) THEN 60
    ELSE IF c.route \in DOMAIN RouteScores THEN RouteScores[c.route]
    ELSE 50

\* _edge_parts.
DiscoveryEdge(c) ==
    Rounded(30 * AgeSub(Age(c)) + 30 * PressSub(c.press)
            + 20 * FundingSub(c.funding) + 20 * RouteSub(c), 10)

\* tier_of: any flag keeps a company off the shortlist.
TierOf(fit, edge, flags) ==
    IF /\ flags = {}
       /\ fit.pct >= Thresholds.shortlistFit
       /\ edge >= Thresholds.shortlistEdge
       /\ fit.coverage >= Thresholds.minCoverage
    THEN "shortlist"
    ELSE IF \/ fit.pct >= Thresholds.watchlistFit
            \/ flags = {} /\ fit.pct >= Thresholds.shortlistFit
    THEN "watchlist"
    ELSE "reject"

PriorityOf(pct, edge) == Rounded(Thresholds.weightFit * pct + Thresholds.weightEdge * edge, 100)

-----------------------------------------------------------------------------
(* pipeline.py: the rows.                                                  *)

ScoreRow(f, vehicle, fit, edge, tier, reason) ==
    [fund |-> f, vehicle |-> vehicle, pct |-> fit.pct, priority |-> PriorityOf(fit.pct, edge),
     tier |-> tier, reason |-> reason, day |-> scores.day]

NoFit == [pct |-> 0, coverage |-> 0]

\* The places, in the fund's order, of the vehicles that are not ruled out.
Eligible(c, f) ==
    {i \in DOMAIN VehiclesOf[f] :
        VehiclesOf[f][i].active /\ VehicleVerdict(c, VehiclesOf[f][i]) # "fails"}

FlagsOf(c, f) ==
    FreshnessFlags(c) \cup
        {flag \in {"gate_unverified"} :
            \E i \in Eligible(c, f) : VehicleVerdict(c, VehiclesOf[f][i]) = "unverified"}

\* The match is the fund's, so the first vehicle that is not ruled out has it;
\* a rule unverified for any of them is a flag.
FundRow(c, f) ==
    LET fit == FundFit(c, f)
        edge == DiscoveryEdge(c)
    IN  IF Eligible(c, f) = {}
        THEN [ScoreRow(f, Unknown, fit, 0, "reject", "no_eligible_vehicle") EXCEPT !.priority = 0]
        ELSE ScoreRow(f, VehiclesOf[f][Min(Eligible(c, f))].key, fit, edge,
                      TierOf(fit, edge, FlagsOf(c, f)), "none")

RowsOf(c, funds) ==
    IF FreshnessReason(c) # "none"
    THEN {ScoreRow(f, Unknown, NoFit, 0, "reject", FreshnessReason(c)) : f \in funds}
    ELSE IF Unqualified(c) THEN {}
    ELSE {FundRow(c, f) : f \in funds}

\* evaluate, and _bulk_score_rows for all funds.
Evaluate(facts, funds) == RowsOf(Derived(facts), funds)

FundsAsked(old) == {r.fund : r \in old}

\* INSERT ... ON CONFLICT(company, fund, vehicle, config) DO UPDATE.
Upserted(old, new) ==
    {r \in old : \A n \in new : <<r.fund, r.vehicle>> # <<n.fund, n.vehicle>>} \cup new

\* _write_scores: and no other row of a fund that was evaluated stays.
Replaced(old, new) == {r \in Upserted(old, new) : r \in new \/ r.fund \notin FundsAsked(new)}

\* snapshot.record_company: today's, of the funds that were evaluated.
Recorded(new) ==
    {s \in scores.snapshots : s.day # scores.day \/ s.fund \notin FundsAsked(new)}
        \cup {r \in new : r.tier = "shortlist"}

\* score_company: an unqualified company loses its rows and today's snapshots.
ScoreOne(funds) ==
    /\ scores' = IF Unqualified(company)
                 THEN [scores EXCEPT !.rows = {}, !.snapshots = {s \in @ : s.day # scores.day}]
                 ELSE LET new == Evaluate(company, funds)
                      IN  [scores EXCEPT !.rows = Replaced(@, new), !.snapshots = Recorded(new)]
    /\ UNCHANGED <<company, learned>>

\* rescore_all: every row goes first, and with replace_day all of today's snapshots.
RescoreAll ==
    /\ scores' = LET new == Evaluate(company, ScoredFunds)
                 IN  [scores EXCEPT !.rows = new,
                                    !.snapshots = {s \in @ : s.day # scores.day}
                                        \cup {r \in new : r.tier = "shortlist"}]
    /\ UNCHANGED <<company, learned>>

Learn(field) ==
    /\ learned < MaxLearned
    /\ \E fact \in News[field] : fact # company[field] /\ company' = [company EXCEPT ![field] = fact]
    /\ learned' = learned + 1
    /\ UNCHANGED scores

NextScoringDay ==
    /\ scores.day = 1
    /\ scores' = [scores EXCEPT !.day = 2]
    /\ UNCHANGED <<company, learned>>

ScoringInit ==
    /\ company \in Starts
    /\ scores = [rows |-> {}, snapshots |-> {}, day |-> 1]
    /\ learned = 0

ScoringNext ==
    \/ \E funds \in {ScoredFunds} \cup {{f} : f \in ScoredFunds} : ScoreOne(funds)
    \/ RescoreAll
    \/ \E field \in DOMAIN News : Learn(field)
    \/ NextScoringDay

ScoringSpec == ScoringInit /\ [][ScoringNext]_scoringVars

-----------------------------------------------------------------------------
(* Properties.                                                             *)

\* Facts that only a fund's hard rules read, apart from the founder's signal.
HardFacts == {"round", "priorTotal", "university", "seis", "spinout"} \cap DOMAIN News

\* "A shortlist you cannot defend is worse than a shorter one": nothing that is
\* still to be learned for a hard rule takes a shortlisted company's route away.
ShortlistIsDefended ==
    \A r \in Evaluate(company, ScoredFunds) : r.tier = "shortlist" =>
        \A field \in HardFacts : ~Known(company[field]) =>
            \A fact \in News[field] :
                \E n \in Evaluate([company EXCEPT ![field] = fact], {r.fund}) : n.vehicle = r.vehicle

\* Whatever was learned between the passes, full or of one fund, a fund has one
\* row; what a day's digest shows of today is on the shortlist now, and no
\* shortlisting of a day is missing from that day.
RowsAreCurrent ==
    /\ \A r, q \in scores.rows : r.fund = q.fund => r = q
    /\ \A s \in scores.snapshots : s.day = scores.day => s \in scores.rows
    /\ \A r \in scores.rows : r.tier = "shortlist" => r \in scores.snapshots

=============================================================================
