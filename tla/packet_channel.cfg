SPECIFICATION Spec
CONSTANTS
    Window = 1
    Skew = 0
    MaxEntries = 1
    NoMessage = NoMessage
    NoKey = "no key"
    Key = "key"
    OtherKey = "other key"
    HeaderSize = 4
    TagSize = 2
    MapSize = 2
    Dense = {"noise"}
    FrameOverhead = 1
    ZstdEnforces = FALSE
    Messages <- MCMessages
    Foreign <- MCForeign
    Options <- MCOptions
    Limits <- MCLimits
    Nonces = {"n1", "n2"}
    MaxTime = 2
    MaxAltered = 1
INVARIANTS
    TypeOK
    OnlyGenuine
    OnlyAuthenticBurn
    ReadOnce
    BodiesGetThrough
