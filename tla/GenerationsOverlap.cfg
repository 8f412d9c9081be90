CONSTANTS
    Companies = {c1}
    Funds = {f1}
    Fields = {a}
    Values = {0, 1}
    Bad = Bad
    None = None
    Procs = {p1, p2}
    Kinds = {"scan", "publish", "admin"}
    Typos = {Bad}
    MaxEdits = 2
    MaxCrashes = 1
SPECIFICATION FairSpec
PROPERTY SettlesOnTheSheet
CHECK_DEADLOCK FALSE
