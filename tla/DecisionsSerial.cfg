CONSTANTS
    Companies = {c1}
    Verdicts = {keep, drop}
    Blank = Blank
    Absent = Absent
    NoRow = NoRow
    MaxTime = 2
    DayLength = 2
    MaxDecisions = 3
    MaxEdits = 1
    UndoLimit = 2
    Faults = {}
    Overlap = FALSE
    SheetEdits = {keep, drop, Blank}
    FirstCells = {Blank}
SPECIFICATION FairSpec
INVARIANTS LatestVerdictWins GoneStaysGone
PROPERTY EverywhereInTheEnd
CHECK_DEADLOCK FALSE
