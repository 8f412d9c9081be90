CONSTANTS
    Companies = {c1}
    Verdicts = {keep, drop}
    Blank = Blank
    Absent = Absent
    NoRow = NoRow
    MaxTime = 1
    DayLength = 2
    MaxDecisions = 2
    MaxEdits = 0
    UndoLimit = 1
    Faults = {"lost"}
    Overlap = FALSE
    SheetEdits = {}
    FirstCells = {Blank}
SPECIFICATION Spec
INVARIANT LatestVerdictWins
CHECK_DEADLOCK FALSE
