SPECIFICATION Spec
CONSTANTS
    h1 = h1
    h2 = h2
    Handlers = {h1, h2}
    Carriers <- EveryCarrier
    Token = "token"
    NonAscii = {"unicode"}
    Key = "key"
    Chunks = {1, 3}
    Limits <- MCLimits
    NoId = NoId
    NoCarrier = NoCarrier
    NoMessage = NoMessage
    NoKey = "no key"
    MaxTime = 2
    Window = 1
    Skew = 0
    MaxEntries = 1
    HeaderSize = 1
    TagSize = 1
    MapSize = 1
    Dense = {"upstream"}
    FrameOverhead = 1
    ZstdEnforces = TRUE
SYMMETRY Symmetric
INVARIANTS
    TypeOK
    CounterExact
    ForwardedOnce
    OnlyAdmitted
    CacheFedByAuthorized
    ReplyIsAboutRequest
    OutcomeIsTrue
    NotCutShort
    BuffersBounded
CHECK_DEADLOCK FALSE
