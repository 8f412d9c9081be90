---------------------------- MODULE MachinesData -----------------------------
(* The small worlds in which MCMachines checks the machines: three          *)
(* companies of the register, two funds with three vehicles, six firms of a *)
(* digest, four pages to read, a feed behind a link, and two tabs of        *)
(* weights.                                                                 *)
EXTENDS Enrichment, Searches, Fetch, Scoring, Selection, Tuning, Extract, Criteria,
        Sources, Weights, Restore, Updates, Generations, TLC

CONSTANTS
    dsw, outward,   \* funds
    k1, k2          \* codes of the register

------------------------------------------------------------------------------
(* Enrichment.  The first company's filings never come, the second has no   *)
(* date, the third files late or grows old.                                 *)

MCBorn == [c \in 1 .. 3 |-> IF c = 2 THEN "undated" ELSE "dated"]
MCPlace == [c \in 1 .. 3 |-> CASE c = 1 -> "Oxford" [] c = 2 -> None [] c = 3 -> "Truro"]
MCGeographyOf == [Oxford |-> "golden_triangle", Truro |-> "uk_regions"]
MCFounders == [c \in 1 .. 3 |-> IF c = 2 THEN 1 ELSE 2]

------------------------------------------------------------------------------
(* Scoring: thresholds in tenths, amounts in thousands, ages in months.     *)

MCThresholds == [maxAge |-> 36, maxFunding |-> 3000, maxStage |-> "series_a",
    shortlistFit |-> 500, shortlistEdge |-> 550, minCoverage |-> 50, watchlistFit |-> 400,
    minQualifiers |-> 1, weightFit |-> 60, weightEdge |-> 40]

ScoredAttributes == {"stage", "sector", "region", "founderSignal", "traction"}
Preferred == {<<"stage", "pre_seed">>, <<"stage", "idea">>, <<"sector", "deeptech">>,
    <<"region", "yorkshire">>, <<"region", "north_east">>,
    <<"founderSignal", "research_spinout">>, <<"founderSignal", "technical_founder">>}

MCTables == [
    outcodes |-> [ne1 |-> "north_east"],
    cities |-> [leeds |-> "yorkshire", oxford |-> "uk_regions"],
    sics |-> [s72 |-> "deeptech"], technical |-> {"deeptech"},
    triangleOutcodes |-> {"ox1"}, triangleCities |-> {"oxford"},
    sunderlandTowns |-> {"sunderland"}, sunderlandOutcodes |-> {"sr1"},
    seisExcluded |-> {"lending"}, qualifiers |-> {"share_issue", "grant", "spinout", "press"},
    policy |-> [a \in ScoredAttributes |-> IF a = "traction" THEN "pessimistic" ELSE "neutral"],
    assumed |-> [none |-> "none"],
    matrix |-> [t \in {<<p[1], p[2], f>> : f \in {"f", "g"}, p \in Preferred} |-> 4],
    weight |-> [t \in ScoredAttributes \X {"f", "g"} |-> IF t[1] = "traction" THEN 1 ELSE 2]]

VehicleIs(key, from, to, age, rule, values, rejects) ==
    [key |-> key, active |-> TRUE, stageMin |-> from, stageMax |-> to, maxAgeYears |-> age,
     geoRule |-> rule, geoValues |-> values, hardRejects |-> rejects]
MCVehiclesOf == [
    f |-> <<VehicleIs("spin", "pre_seed", "seed", 0, "HARD", {"north_east", "yorkshire"},
                    {[key |-> "university_spinout_required", value |-> {"durham"}]}),
            VehicleIs("growth", "idea", "series_a", 3, "HARD", {"outside_golden_triangle"},
                    {[key |-> "round_max", value |-> 5]})>>,
    g |-> <<VehicleIs("gen", Unknown, "seed", 0, "SOFT", {"uk_regions"},
                    {[key |-> "requires_seis_eis", value |-> TRUE],
                     [key |-> "beyond_research_stage", value |-> FALSE]})>>]

PlainFirm == [incorporated |-> Unknown, funding |-> Unknown, stage |-> Unknown, share |-> FALSE,
    portfolio |-> FALSE, country |-> Unknown, region |-> Unknown, city |-> Unknown,
    outcode |-> Unknown, registered |-> FALSE, sector |-> Unknown, sic |-> Unknown,
    founders |-> {}, founderSignal |-> Unknown, traction |-> Unknown, signals |-> {},
    press |-> 0, website |-> FALSE, route |-> "registry", spinout |-> Unknown,
    university |-> Unknown, round |-> Unknown, priorTotal |-> Unknown, valuation |-> Unknown,
    ukExec |-> Unknown, seis |-> Unknown]
MCStarts == {
    [PlainFirm EXCEPT !.registered = TRUE, !.incorporated = 8, !.sic = "s72", !.share = TRUE,
                 !.outcode = "ne1"],
    [PlainFirm EXCEPT !.route = "spinout", !.spinout = TRUE, !.sector = "deeptech", !.stage = "pre_seed",
                 !.country = "GB"]}
MCNews == [incorporated |-> {40}, country |-> {"GB", "US"}, city |-> {"oxford"},
    outcode |-> {"ox1"}, founders |-> {{[prior |-> FALSE, psc |-> TRUE]}}, share |-> {TRUE},
    stage |-> {"seed", "growth"}, spinout |-> {TRUE, FALSE}, university |-> {"york"},
    round |-> {3, 9}, seis |-> {TRUE}, press |-> {1}]

------------------------------------------------------------------------------
(* Selection: four of six firms are of one family, all but two in order.    *)

FirmIs(route, sector, sources, london) ==
    [route |-> route, sector |-> sector, sources |-> sources, london |-> london]
MCFirms == [
    a1 |-> FirmIs("grant", "health", <<"innovate_uk">>, FALSE),
    a2 |-> FirmIs("grant", "health", <<"ukri", "companies_house">>, FALSE),
    a3 |-> FirmIs("grant", "health", <<"innovate_uk">>, FALSE),
    a4 |-> FirmIs("grant", "health", <<"innovate_uk">>, FALSE),
    b |-> FirmIs("news", "fintech", <<"uktn">>, TRUE),
    r |-> FirmIs("registry", "fintech", <<"companies_house">>, FALSE)]
MCFirmOrder == <<"a1", "a2", "a3", "a4", "b", "r">>
Score(priority) == [priority |-> priority, evidenced |-> TRUE, fits |-> TRUE]
MCMatch ==
    <<"a1", "dsw">> :> Score(200) @@ <<"a2", "dsw">> :> Score(198) @@ <<"a3", "dsw">> :> Score(196)
    @@ <<"a4", "dsw">> :> Score(194) @@ <<"b", "dsw">> :> Score(169) @@ <<"b", "outward">> :> Score(168)
    @@ <<"r", "dsw">> :> Score(160) @@ <<"a1", "outward">> :> Score(180)
MCFeeds == [innovate_uk |-> {"dsw"}, ukri |-> {}, uktn |-> {}, companies_house |-> {}]
MCPlans == {[week \in 0 .. 1 |-> IF week = 0 THEN "outward" ELSE None]}

------------------------------------------------------------------------------
(* Extraction: two companies in one article, an award, a filing, a list;    *)
(* replies that are true, that quote the wrong company, that do not fit.    *)

MCBatches == {<<"news", "list">>, <<"award", "filing">>}
MCTexts == [round |-> <<{"acme", "2m", "seed"}, {"beta", "5m"}>>,
    award |-> <<{"acme", "spinout", "york"}, {"1m", "grant", "acme"}>>, none |-> <<{"beta"}>>]
PageIs(text, title, named, kind, marks, filed) ==
    [text |-> text, title |-> title, named |-> named, kind |-> kind, marks |-> marks, filed |-> filed]
MCPage == [
    news |-> PageIs("round", {"acme", "2m"}, "acme", "news_mention", {}, "none"),
    award |-> PageIs("award", {"acme", "grant"}, "acme", "grant_award", {}, "none"),
    filing |-> PageIs("none", {}, "acme", "incorporation", {}, "2026-01"),
    list |-> PageIs("none", {}, "none", "news_mention", {"roundup"}, "none")]
QuoteIs(at, says) == [at |-> at, says |-> says, long |-> TRUE]
NoWords == [at |-> 0, says |-> {}, long |-> FALSE]
NoReading == [fits |-> TRUE, single |-> TRUE, reason |-> "none", role |-> "startup",
    company |-> "none",
    about |-> "none", raised |-> "none", original |-> "none", grant |-> "none", round |-> "none",
    spinout |-> "none", university |-> "none", country |-> "none", founded |-> "none",
    founders |-> {}, sure |-> TRUE, review |-> FALSE, method |-> "llm",
    quotes |-> [company |-> NoWords, amount |-> NoWords, round |-> NoWords, spinout |-> NoWords]]
TrueReply == [NoReading EXCEPT !.company = "acme", !.raised = "2m", !.round = "seed",
    !.quotes.company = QuoteIs(1, {"acme"}), !.quotes.amount = QuoteIs(1, {"2m"}),
    !.quotes.round = QuoteIs(1, {"seed"})]
MCReply == [
    true |-> TrueReply,
    borrowed |-> [TrueReply EXCEPT !.raised = "5m", !.quotes.amount = QuoteIs(2, {"5m"})],
    misfit |-> [NoReading EXCEPT !.fits = FALSE],
    dollars |-> [NoReading EXCEPT !.company = "acme", !.original = "usd4m",
                    !.quotes.company = QuoteIs(2, {"acme"}),
                    !.founders = {[name |-> "ann", quote |-> QuoteIs(1, {"ann"})]}],
    investor |-> [NoReading EXCEPT !.company = "york", !.role = "university"]]
MCReplies == [round |-> {"true", "borrowed", "misfit"}, award |-> {"dollars", "investor"},
    none |-> {}]
MCWorth == "2m" :> 2 @@ "5m" :> 5 @@ "1m" :> 1 @@ "usd4m" :> 3

------------------------------------------------------------------------------
(* Sources: the feed is two links away from the page that is typed, and its *)
(* robots.txt keeps everyone out.                                           *)

WebPage(rules, status, entries, link) ==
    [robots |-> rules, status |-> status, entries |-> entries, link |-> link]
MCWeb == "home" :> WebPage(FALSE, 200, 0, "closed") @@ "blog" :> WebPage(FALSE, 200, 0, "home")
    @@ "closed" :> WebPage(TRUE, 200, 1, None)

------------------------------------------------------------------------------
(* Weights: two attributes, three values, two funds.                        *)

MCAttributeOrder == <<"sector", "geography">>
MCFundOrder == <<dsw, outward>>
MCDefaultSic == {<<k1, "care">>}
MCMatrixCells == {<<2, 1>>, <<3, 2>>}
MCWeighingCells == {<<1, 1>>}
MCDefaultMatrix == {<<"sector", "bio", dsw, 4>>, <<"sector", "food", dsw, 1>>,
    <<"sector", "bio", outward, 2>>, <<"geography", "uk", dsw, 3>>, <<"geography", "uk", outward, 4>>}
MCCategoryOrder == <<<<"sector", "bio">>, <<"sector", "food">>, <<"geography", "uk">>>>
MCSicEdits == {<<<<k1, "food">>, <<k2, "bio">>>>, <<<<k1, Blank>>, <<k2, "bio">>>>,
               <<<<k1, Stray>>>>}
==============================================================================
