SPECIFICATION FairSpec
CONSTANTS
    h1 = h1
    h2 = h2
    Handlers = {h1, h2}
    Carriers <- RacingCarriers
    Token = "token"
    NonAscii = {"unicode"}
    Key = "key"
    Chunks = {1, 3}
    Limits <- MCLimits
    NoId = NoId
    NoCarrier = NoCarrier
    NoMessage = NoMessage
    NoKey = "no key"
    MaxTime = 1
    Window = 1
    Skew = 0
    MaxEntries = 1
    HeaderSize = 1
    TagSize = 1
    MapSize = 1
    Dense = {"upstream"}
    FrameOverhead = 1
    ZstdEnforces = TRUE
PROPERTIES
    ForwardedIsAnswered
    ShutdownCompletes
CHECK_DEADLOCK FALSE
