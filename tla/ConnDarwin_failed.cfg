SPECIFICATION Spec
CONSTANTS
    Commands = {"send"}
    UUIDs = {"1800", "uart", "other", "rx", "tx"}
    Generic = {"1800"}
    RX = "rx"
    TX = "tx"
    None = ""
    Options <- OneCommand
    Tables <- MCTables
    MaxAttempts = 2
    MaxPackets = 2
INVARIANTS
    FailedConnectIsReported
CHECK_DEADLOCK FALSE
