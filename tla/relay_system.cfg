SPECIFICATION SysSpec
CONSTANTS
    h1 = h1
    h2 = h2
    k1 = k1
    k2 = k2
    Handlers = {h1, h2}
    Conns = {k1, k2}
    ClientAhead <- MinusOne
    ClientLimits <- MCLimits
    ClientOptions <- Off
    ServerOptions <- On
    MaxRestarts = 1
    Carriers <- NoCarriers
    Token = "token"
    NonAscii = {"unicode"}
    Key = "key"
    Chunks = {1}
    Limits <- MCLimits
    NoId = NoId
    NoCarrier = NoCarrier
    NoMessage = NoMessage
    NoKey = "no key"
    MaxTime = 1
    Window = 1
    Skew = 1
    MaxEntries = 2
    HeaderSize = 1
    TagSize = 1
    MapSize = 1
    Dense = {"upstream"}
    FrameOverhead = 1
    ZstdEnforces = TRUE
SYMMETRY Symmetric
INVARIANTS
    SysTypeOK
    NoCrossTalk
    PromptPacketsAccepted
PROPERTIES
    ContractHonoured
CHECK_DEADLOCK FALSE
