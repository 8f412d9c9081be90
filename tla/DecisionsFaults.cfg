CONSTANTS
    Companies = {c1}
    Verdicts = {keep, drop}
    Blank = Blank
    Absent = Absent
    NoRow = NoRow
    MaxTime = 2
    DayLength = 2
    MaxDecisions = 2
    MaxEdits = 1
    UndoLimit = 1
    Faults = {"lost", "ghost", "crash"}
    Overlap = TRUE
    SheetEdits = {drop}
    FirstCells = {Blank, Absent}
SPECIFICATION Spec
INVARIANTS SettledStaysHidden MarkerOnItsDay
PROPERTY UndoTakesBackOwn
CHECK_DEADLOCK FALSE
