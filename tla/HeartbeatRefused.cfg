CONSTANTS
    a = a
    Sources = {a}
    Tier1 = {a}
    OutcomesOf <- MCOutcomes
    NoRow = NoRow
    Never = Never
    Window = 1
    Repeat = 3
    MinAverage = 2
    StreakDays = 3
    Checks = 2
    DayTicks = 48
    StaleAfter = 52
    ScanTicks = {13}
    CheckTicks = {18}
    LateTick = 36
    MaxDay = 3
    MaxEvents = 0
SPECIFICATION Spec
INVARIANT RefusedIsHeard
CHECK_DEADLOCK FALSE
