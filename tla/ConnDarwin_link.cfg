SPECIFICATION Spec
CONSTANTS
    Commands = {"dump", "send"}
    UUIDs = {"1800", "uart", "other", "rx", "tx"}
    Generic = {"1800"}
    RX = "rx"
    TX = "tx"
    None = ""
    Options <- MCOptions
    Tables <- MCTables
    MaxAttempts = 2
    MaxPackets = 2
INVARIANTS
    TypeOK
    AnswersMeetCalls
    OnlyLateIsMissed
    LateIsReported
    NoLinkLeft
PROPERTIES
    CommandEnds
CHECK_DEADLOCK FALSE
