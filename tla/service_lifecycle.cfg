SPECIFICATION Spec
CONSTANTS
    Ports = {1, 2}
    DefaultPort = 3
    NoPort = NoPort
    NoUnit = NoUnit
    NoFile = NoFile
    Torn = Torn
    Down = Down
    Retrying = Retrying
    Interrupts = TRUE
    MaxCommands = 4
INVARIANTS
    TypeOK
    NoOrphan
    InstallComplete
    UninstallComplete
    InstallAgain
PROPERTIES
    ConfigKept
    StaysUp
CHECK_DEADLOCK FALSE
