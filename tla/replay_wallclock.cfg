SPECIFICATION WallClockSpec
CONSTANTS
    Window = 2
    Skew = 1
    MaxEntries = 2
    MaxTime = 5
    MaxAccepts = 2
    Packets <- MCPackets
INVARIANTS
    RepeatsAreOld
