SPECIFICATION Spec
CONSTANTS
    Ports = {1, 2}
    DefaultPort = 3
    NoPort = NoPort
    NoUnit = NoUnit
    NoFile = NoFile
    Torn = Torn
    Down = Down
    Retrying = Retrying
    Interrupts = FALSE
    MaxCommands = 3
INVARIANTS
    PurgeCanFollow
CHECK_DEADLOCK FALSE
