CONSTANTS
    c1 = c1
    c2 = c2
    c3 = c3
    c4 = c4
    Companies = {c1}
    Rank <- OneRanked
    Cards = {h1, h2}
    None = None
    RulesReject = {}
    Passes = {p1, p2}
    Modes = {"hermes", "down"}
    Limit = 1
    MaxFailures = 2
    Answers = {"pass", "reject", "incomplete"}
    Poison = {}
    LinkFindings = {"reachable", "dead"}
    LinkTTL = 3
    RetryTTL = 1
    ReuseMinLeft = 2
    ReviewLimit = 1
    Scorers = {"daily", "bulk"}
    Overlap = TRUE
    SameSecond = TRUE
    MayFail = FALSE
    MaxTime = 1
    MaxChanges = 1
SPECIFICATION Spec
INVARIANTS ShownWasChecked ApprovedWasChecked
SYMMETRY Interchangeable
CHECK_DEADLOCK FALSE
