CONSTANTS
    c1 = c1
    c2 = c2
    c3 = c3
    c4 = c4
    Companies = {c1}
    Rank <- OneRanked
    Cards = {h1, h2}
    None = None
    RulesReject = {h2}
    Passes = {p1}
    Modes = {"hermes", "rules", "down"}
    Limit = 1
    MaxFailures = 2
    Answers = {"pass", "reject", "incomplete"}
    Poison = {}
    LinkFindings = {"reachable", "unknown"}
    LinkTTL = 4
    RetryTTL = 1
    ReuseMinLeft = 2
    ReviewLimit = 1
    Scorers = {"daily", "bulk"}
    Overlap = FALSE
    SameSecond = FALSE
    MayFail = TRUE
    MaxTime = 4
    MaxChanges = 2
SPECIFICATION Spec
INVARIANTS ApprovedIsOfThisScore FreshVerdict ProofOutlivesDay
PROPERTY RejectStands
CHECK_DEADLOCK FALSE
