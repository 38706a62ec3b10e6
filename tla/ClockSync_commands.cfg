SPECIFICATION Spec
CONSTANTS
    TicksPerSecond = 10
    SecondsPerDay = 3
    Gap = 1
    MaxConnect = 2
    MaxLag = 2
    Starts <- MCStarts
    Skews <- MCSkews
    Plans <- MCPlans
INVARIANTS
    TypeOK
    SecondsAreRight
    WrongByOneDayAtMost
CHECK_DEADLOCK FALSE
