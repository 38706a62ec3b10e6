SPECIFICATION Spec
CONSTANTS
    Commands = {"dump", "send", "listen"}
    UUIDs = {"1800", "uart", "other", "rx", "tx"}
    Generic = {"1800"}
    RX = "rx"
    TX = "tx"
    None = ""
    Options <- MCOptions
    Tables <- MCTables
    MaxAttempts = 6
    MaxPackets = 2
    FindWindow = 40
    FindMin = 5
    DefaultTimeout = 150
    Settle = 10
    Gap = 1
    Timeouts = {0, 4, 45}
    Durations = {0, 5, 15}
    ProbeLists <- TwoProbes
    MaxLag = 1
INVARIANTS
    TypeOK
    LinkIsReturned
    ServiceIsRight
    FindKeepsTime
    ListensLongEnough
    ProbeIsRecent
PROPERTIES
    CommandEnds
    SignalCloses
CHECK_DEADLOCK FALSE
