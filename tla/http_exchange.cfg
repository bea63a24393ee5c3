SPECIFICATION Spec
CONSTANTS
    Requests <- MCRequests
    Responses <- MCResponses
    Lower <- MCLower
    Tokens <- MCTokens
    Number <- MCNumber
    NotDecimal = NotDecimal
    NoScheme = NoScheme
    Cleaned <- MCCleaned
    HostNames = {"up", "Up"}
    Paths <- MCPaths
    Ascii <- MCAscii
    Recoded <- MCRecoded
    Latin1 <- MCLatin1
    MaxHeader = 3
    MaxBody = 1
    MaxResponse = 2
    None = None
INVARIANTS
    TypeOK
    OnlyEndToEnd
    ResponseFramed
    RequestAsSent
    RefusedForCause
PROPERTIES
    SentIsJudged
CHECK_DEADLOCK FALSE
