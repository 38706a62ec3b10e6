SPECIFICATION Spec
CONSTANTS
    Requests <- MCRequests
    Typos = {0, 1, 254, 255}
    MaxTypos = 1
INVARIANTS
    TypeOK
    Framed
    TypoIsCaught
    LabelIsHonest
CHECK_DEADLOCK FALSE
