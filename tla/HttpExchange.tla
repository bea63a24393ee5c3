---------------------------- MODULE HttpExchange ----------------------------
(***************************************************************************)
(* One HTTP exchange as the application and the upstream see it: what the   *)
(* parser of the local proxy reads from a connection, which headers the two *)
(* filters let through in each direction, and what the writer frames.  The  *)
(* relay between the two filters is RelaySystem's subject: here it either   *)
(* carries a message over unchanged or fails.                               *)
(*                                                                         *)
(*   header    [name, value]   name as spelled; Lower folds names and hosts  *)
(*   request   [wellFormed, target, headers, head, sends]                   *)
(*   target    [scheme, segments]                                           *)
(*   body      [gzip, size, inflated]                                       *)
(*                                                                         *)
(* A name or a value is a member of a small set, and a byte is the unit of  *)
(* head, sends and size.  wellFormed is the judgement of the request line,  *)
(* the method token, the header lines and the header names.                 *)
(*                                                                         *)
(* A target has a scheme as it is spelled, or NoScheme, and what follows,   *)
(* split at its slashes: <<"", "p">> is /p, <<"", "", "up", "p">> is        *)
(* //up/p, and the path / is <<"", "">>.  An authority stands for what      *)
(* follows its userinfo.  The query is carried along and the fragment is    *)
(* dropped (parser.py 72, 86); neither is part of the path.                 *)
(*                                                                         *)
(* A list of headers is a function from positions to headers.  Filtering it *)
(* keeps the positions of what it lets through: two lists with the same     *)
(* headers at the same positions are in the same order.                     *)
(***************************************************************************)
EXTENDS Naturals, Functions, Sequences

CONSTANTS
    Requests,     \* what applications send
    Responses,    \* what upstreams answer, records [headers, body]
    Lower,        \* the lower-case form of each header name and host
    Tokens,       \* the lower-case names in each value of a Connection header
    Number,       \* the value of each Content-Length, or NotDecimal
    NotDecimal,
    NoScheme,
    Cleaned,      \* what urlsplit leaves of each segment: no tab, no line break
    HostNames,    \* the hosts, with their ports, that RelayRequest accepts
    Paths,        \* the paths that RelayRequest accepts
    Ascii,        \* the header values in ASCII
    Recoded,      \* the text of each other value that is UTF-8
    Latin1,       \* the values, and the texts that iso-8859-1 can encode
    MaxHeader,    \* max_header_bytes
    MaxBody,      \* max_request_body_bytes
    MaxResponse,  \* max_response_body_bytes
    None          \* what is not there yet

ASSUME LimitsAssumption ==
    /\ MaxHeader \in Nat \ {0}
    /\ MaxBody \in Nat
    /\ MaxResponse \in Nat

\* Folding is idempotent, and whether a host is accepted does not depend on its case.
ASSUME FoldingAssumption ==
    /\ \A n \in DOMAIN Lower : Lower[n] \in DOMAIN Lower /\ Lower[Lower[n]] = Lower[n]
    /\ \A n \in DOMAIN Lower : Lower[n] \in HostNames => n \in HostNames
    /\ Lower["content-type"] = "content-type"

\* The segments of what follows the scheme have an authority.
HasNetloc(segments) == Len(segments) >= 3 /\ segments[1] = "" /\ segments[2] = ""
Netloc(segments) == Cleaned[segments[3]]

\* Every byte is in iso-8859-1, and a value of Connection names the same headers in any
\* encoding, for names are in ASCII.  A head has its terminator at least, and a length
\* is a number or no number.
ASSUME MessagesAssumption ==
    /\ NotDecimal \notin Nat
    /\ NoScheme \notin {"http", "https"}
    /\ \A r \in Requests \cup Responses : \A i \in DOMAIN r.headers :
          r.headers[i].name \in DOMAIN Lower /\ r.headers[i].value \in Latin1
    /\ Ascii \cap DOMAIN Recoded = {}
    /\ \A r \in Responses : \A i \in DOMAIN r.headers :
          (Lower[r.headers[i].name] = "connection" /\ r.headers[i].value \in DOMAIN Recoded) =>
              Tokens[Recoded[r.headers[i].value]] = Tokens[r.headers[i].value]
    /\ \A r \in Requests :
          /\ r.head \in Nat \ {0} /\ r.sends \in Nat
          /\ r.target.segments \in Seq(DOMAIN Cleaned)
          /\ HasNetloc(r.target.segments) => Netloc(r.target.segments) \in DOMAIN Lower
          /\ \A i \in DOMAIN r.headers :
                /\ Lower[r.headers[i].name] = "content-length" =>
                      Number[r.headers[i].value] \in Nat \cup {NotDecimal}
                /\ Lower[r.headers[i].name] = "host" => r.headers[i].value \in DOMAIN Lower

VARIABLES
    raw,       \* what the application sends over its connection
    arrived,   \* how many of its bytes have arrived
    closed,    \* whether it has ended its side of the connection
    read,      \* how many bytes of the head the parser has read
    stage,     \* head, body, asked, upstream, writing, done or broken
    request,   \* the RelayRequest
    handed,    \* the request Forwarder.forward gives to httpx
    received,  \* the upstream's answer
    response,  \* what write_response is given
    output     \* what it has written: headers, Content-Length and body

appVars == <<raw, arrived, closed>>
relayVars == <<request, handed, received>>
vars == <<appVars, read, stage, relayVars, response, output>>

Init ==
    /\ raw \in Requests
    /\ arrived = 0
    /\ closed = FALSE
    /\ read = 0
    /\ stage = "head"
    /\ request = None
    /\ handed = None
    /\ received = None
    /\ response = None
    /\ output = None

-----------------------------------------------------------------------------
(* relayx.http.headers and relayx.constants *)

Positions(headers, name) == {i \in DOMAIN headers : Lower[headers[i].name] = name}
ValuesOf(headers, name) == [i \in Positions(headers, name) |-> headers[i].value]
Absent(headers, name) == Positions(headers, name) = {}

\* There is one value, and which it is.
Single(values) == \E i \in DOMAIN values : DOMAIN values = {i}
Only(values) == values[CHOOSE i \in DOMAIN values : TRUE]

\* Mutant: content-length is left to the peers.
HopByHopUnframed == {"connection", "keep-alive", "proxy-authenticate", "proxy-authorization",
                     "te", "trailer", "transfer-encoding", "upgrade", "proxy-connection"}
\* HOP_BY_HOP_HEADERS and PROXY_ONLY_HEADERS
HopByHop == {"connection", "keep-alive", "proxy-authenticate", "proxy-authorization", "te",
             "trailer", "transfer-encoding", "upgrade", "content-length", "proxy-connection"}

\* Mutant: a later Connection header replaces the tokens of an earlier one.
ConnectionTokensLast(headers) ==
    UNION {Tokens[headers[i].value] :
           i \in {i \in Positions(headers, "connection") :
                     \A j \in Positions(headers, "connection") : j <= i}}
ConnectionTokens(headers) ==
    UNION {Tokens[headers[i].value] : i \in Positions(headers, "connection")}

FilterForwardHeaders(headers) ==
    LET blocked == HopByHop \cup ConnectionTokens(headers)
    IN  RestrictValues(headers, LAMBDA h : Lower[h.name] \notin blocked)

-----------------------------------------------------------------------------
(* The application's side of its connection; it may stop at any byte *)

AppSends ==
    /\ ~closed
    /\ arrived < raw.sends
    /\ arrived' = arrived + 1
    /\ UNCHANGED <<raw, closed, read, stage, relayVars, response, output>>

AppCloses ==
    /\ ~closed
    /\ closed' = TRUE
    /\ UNCHANGED <<raw, arrived, read, stage, relayVars, response, output>>

-----------------------------------------------------------------------------
(* relayx.http.parser *)

\* Mutant: the first of several lengths counts.
ContentLengthFirst(headers) ==
    LET values == ValuesOf(headers, "content-length")
        first == CHOOSE i \in DOMAIN values : \A j \in DOMAIN values : i <= j
    IN  IF DOMAIN values = {} THEN 0 ELSE Number[values[first]]
\* _content_length: several lengths are refused like one that is no number.
ContentLength(headers) ==
    LET values == ValuesOf(headers, "content-length")
    IN  IF DOMAIN values = {} THEN 0
        ELSE IF Single(values) THEN Number[Only(values)] ELSE NotDecimal

\* Mutant: the length is not compared with the limit.
HeadRefusedUnlimited(r) ==
    \/ ~r.wellFormed
    \/ ~Absent(r.headers, "transfer-encoding")
    \/ ContentLength(r.headers) = NotDecimal
\* What read_request refuses before it reads the body.
HeadRefused(r) ==
    \/ ~r.wellFormed
    \/ ~Absent(r.headers, "transfer-encoding")
    \/ ContentLength(r.headers) = NotDecimal
    \/ ContentLength(r.headers) > MaxBody

\* Mutant: the terminator must be found before the limit is reached.
HeadLimitReached(n) == n + 1 >= MaxHeader
\* The loop of _read_headers gives up; its second check after the loop never fires.
HeadTooLarge(n) == n >= MaxHeader

BadRequest == [error |-> TRUE, headers |-> <<[name |-> "content-type", value |-> "text"]>>,
               body |-> [gzip |-> FALSE, size |-> 1, inflated |-> 1]]

\* An exception of read_request, of RelayRequest or of send.
Refuse ==
    /\ stage' = "writing"
    /\ response' = BadRequest

\* One byte of the head is read, and everything up to the next await follows.
ReadByte ==
    /\ stage = "head"
    /\ read < arrived
    /\ read' = read + 1
    /\ IF read' = raw.head
       THEN IF HeadRefused(raw) THEN Refuse ELSE stage' = "body" /\ UNCHANGED response
       ELSE IF HeadTooLarge(read') THEN Refuse ELSE UNCHANGED <<stage, response>>
    /\ UNCHANGED <<appVars, relayVars, output>>

BodySize == ContentLength(raw.headers)

\* Mutant: an empty chunk is not noticed by the loop that reads the head.
StreamEndsInBody == closed /\ stage = "body" /\ arrived < raw.head + BodySize
\* The application has ended its side and what is left cannot complete the read.
StreamEnds ==
    /\ closed
    /\ arrived < IF stage = "head" THEN read + 1 ELSE raw.head + BodySize

EndOfStream ==
    /\ stage \in {"head", "body"}
    /\ StreamEnds
    /\ Refuse
    /\ UNCHANGED <<appVars, read, relayVars, output>>

\* target.startswith("http://") or target.startswith("https://"), in this case only.
ReadAsAbsolute(t) == t.scheme \in {"http", "https"} /\ HasNetloc(t.segments)

\* The path urlsplit finds, or the root: whatever the form of the target, two slashes
\* at its start are followed by an authority.
OrRoot(path) == IF path = <<"">> THEN <<"", "">> ELSE path
AfterNetloc(segments) == <<"">> \o SubSeq(segments, 4, Len(segments))
UrlPath(t) ==
    LET segments == [i \in DOMAIN t.segments |-> Cleaned[t.segments[i]]]
    IN  OrRoot(IF HasNetloc(segments) THEN AfterNetloc(segments) ELSE segments)

AuthorityMatches(t, host) == ReadAsAbsolute(t) => Lower[Netloc(t.segments)] = Lower[host]

\* _target and __post_init__ of RelayRequest, for a request with this one Host.
TargetOf(r, host) ==
    [scheme  |-> IF ReadAsAbsolute(r.target) THEN r.target.scheme ELSE "http",
     host    |-> IF ReadAsAbsolute(r.target) THEN Lower[Netloc(r.target.segments)] ELSE host,
     path    |-> UrlPath(r.target),
     headers |-> FilterForwardHeaders(r.headers),
     body    |-> ContentLength(r.headers)]

\* The body is complete; the target is only looked at now.
ReadBody ==
    LET hosts == ValuesOf(raw.headers, "host")
        asked == TargetOf(raw, Only(hosts))
    IN  /\ stage = "body"
        /\ raw.head + BodySize <= arrived
        /\ IF /\ Single(hosts)
              /\ AuthorityMatches(raw.target, Only(hosts))
              /\ asked.host \in HostNames
              /\ asked.path \in Paths
           THEN stage' = "asked" /\ request' = asked /\ UNCHANGED response
           ELSE Refuse /\ UNCHANGED request
        /\ UNCHANGED <<appVars, read, handed, received, output>>

-----------------------------------------------------------------------------
(* The relay, Forwarder.forward and the upstream *)

RelayFails ==
    /\ stage \in {"asked", "upstream"}
    /\ Refuse
    /\ UNCHANGED <<appVars, read, relayVars, output>>

\* httpx encodes the values of a request in ASCII: with any other the call fails.
Forward ==
    /\ stage = "asked"
    /\ stage' = "upstream"
    /\ handed' = [request EXCEPT !.headers = FilterForwardHeaders(@)]
    /\ \A i \in DOMAIN handed'.headers : handed'.headers[i].value \in Ascii
    /\ UNCHANGED <<appVars, read, request, received, response, output>>

Encoded(headers) == ~Absent(headers, "content-encoding")

\* response.aiter_bytes() decodes what Content-Encoding says.
BodyRead(r) ==
    IF Encoded(r.headers)
    THEN [gzip |-> FALSE, size |-> r.body.inflated, inflated |-> r.body.inflated]
    ELSE r.body

\* httpx takes the headers of a response for ASCII or UTF-8 if all of them are, and for
\* iso-8859-1 if one is not.
ReadAsUtf8(headers) == \A i \in DOMAIN headers : headers[i].value \in Ascii \cup DOMAIN Recoded

\* response.headers.multi_items() gives the names in lower case and the values as text.
MultiItems(headers) ==
    LET Text(value) == IF ReadAsUtf8(headers) /\ value \in DOMAIN Recoded
                       THEN Recoded[value] ELSE value
    IN  [i \in DOMAIN headers |-> [name  |-> Lower[headers[i].name],
                                  value |-> Text(headers[i].value)]]

\* The RelayResponse that Forwarder.forward returns.
AnswerOf(r) ==
    [error   |-> FALSE,
     headers |-> FilterForwardHeaders(MultiItems(r.headers)),
     body    |-> BodyRead(r)]

Respond(r) ==
    /\ stage = "upstream"
    /\ received' = r
    /\ IF BodyRead(r).size > MaxResponse
       THEN Refuse
       ELSE stage' = "writing" /\ response' = AnswerOf(r)
    /\ UNCHANGED <<appVars, read, request, handed, output>>

-----------------------------------------------------------------------------
(* relayx.http.writer *)

Written(message) ==
    IF message.error THEN message.headers ELSE FilterForwardHeaders(message.headers)
Encodable(headers) == \A i \in DOMAIN headers : headers[i].value \in Latin1

OutputOf(message) ==
    [error  |-> message.error, headers |-> Written(message),
     length |-> message.body.size, body |-> message.body]

\* What is not there yet is told from everything that may be.
ASSUME NoneAssumption ==
    /\ \A r \in Requests, host \in HostNames : TargetOf(r, host) # None
    /\ BadRequest # None /\ OutputOf(BadRequest) # None
    /\ \A r \in Responses : AnswerOf(r) # None /\ OutputOf(AnswerOf(r)) # None

\* The response has left and the application has read it.  drain and wait_closed wait
\* for that without a timeout (writer.py 31, proxy.py 48).
Write ==
    /\ stage = "writing"
    /\ Encodable(Written(response))
    /\ stage' = "done"
    /\ output' = OutputOf(response)
    /\ UNCHANGED <<appVars, read, relayVars, response>>

\* A header that cannot be encoded, or an application that has gone: the exception
\* leaves handle with part of the response written.
WriteFails ==
    /\ stage = "writing"
    /\ closed \/ ~Encodable(Written(response))
    /\ stage' = "broken"
    /\ UNCHANGED <<appVars, read, relayVars, response, output>>

-----------------------------------------------------------------------------
Parse == ReadByte \/ EndOfStream \/ ReadBody
Relay == RelayFails \/ Forward \/ \E r \in Responses : Respond(r)

Next == AppSends \/ AppCloses \/ Parse \/ Relay \/ Write \/ WriteFails

\* The proxy's event loop runs a parser that has something to read.  The application
\* may stop, and nothing bounds how long the upstream or a write takes: the timeouts
\* of httpx are of its single operations, and drain has none.
Spec == Init /\ [][Next]_vars /\ WF_vars(Parse)

-----------------------------------------------------------------------------
TypeOK ==
    /\ stage \in {"head", "body", "asked", "upstream", "writing", "done", "broken"}
    /\ arrived \in 0 .. raw.sends
    /\ read \in 0 .. arrived
    /\ stage = "head" => read < raw.head
    /\ stage \in {"body", "asked", "upstream"} => BodySize \in 0 .. MaxBody
    /\ (stage \in {"asked", "upstream"}) => request # None
    /\ (stage \in {"writing", "done", "broken"}) => response # None
    /\ (stage = "done") <=> (output # None)

\* A header of a list belongs to both ends, not to one of its connections.
EndToEnd(headers, name) ==
    /\ name \notin {"connection", "keep-alive", "proxy-authenticate", "proxy-authorization",
                    "proxy-connection", "te", "trailer", "transfer-encoding", "upgrade",
                    "content-length"}
    /\ \A i \in DOMAIN headers :
          Lower[headers[i].name] = "connection" => name \notin Tokens[headers[i].value]

SameHeaders(to, from) ==
    \A name \in {Lower[n] : n \in DOMAIN Lower} :
        Positions(to, name) = IF EndToEnd(from, name) THEN Positions(from, name) ELSE {}

\* Through both filters of each direction, every end-to-end header arrives, in order,
\* and none of a connection does, however its name is spelled and whichever of several
\* Connection headers names it (headers.py 9-19).  A request's values are those the
\* application sent.  So are a response's, but for the ones that are UTF-8 and not ASCII
\* among headers that are all UTF-8: httpx reads them as that, and the writer encodes
\* iso-8859-1 (forwarder.py 47, writer.py 26).
OnlyEndToEnd ==
    /\ handed # None =>
          /\ SameHeaders(handed.headers, raw.headers)
          /\ \A i \in DOMAIN handed.headers : handed.headers[i].value = raw.headers[i].value
    /\ (output # None /\ ~output.error) =>
          /\ SameHeaders(output.headers, received.headers)
          /\ \A i \in DOMAIN output.headers :
                \/ output.headers[i].value = received.headers[i].value
                \/ ReadAsUtf8(received.headers) /\ received.headers[i].value \notin Ascii

\* What is written is delimited by the one Content-Length the writer computes: nothing
\* the upstream sent can contradict it, whatever the framing of its own answer and
\* although its body may have been decoded (writer.py 22-30).
ResponseFramed ==
    output # None =>
        /\ output.length = output.body.size
        /\ \A name \in {"content-length", "transfer-encoding", "connection"} :
              Absent(output.headers, name)

\* Every way a reader of the same bytes could tell how long the body is.
BodyReadings(r) ==
    LET lengths == ValuesOf(r.headers, "content-length")
    IN  {Number[lengths[i]] : i \in DOMAIN lengths}
        \cup (IF Absent(r.headers, "transfer-encoding") THEN {} ELSE {NotDecimal})
        \cup (IF Absent(r.headers, "content-length") /\ Absent(r.headers, "transfer-encoding")
              THEN {0} ELSE {})
HostHeaders(r) == {Lower[r.headers[i].value] : i \in Positions(r.headers, "host")}

\* The authority and the path of a target, to a reader who knows that one without a
\* scheme is all path.
TargetHosts(t) ==
    IF t.scheme # NoScheme /\ HasNetloc(t.segments) THEN {Lower[Netloc(t.segments)]} ELSE {}
PathAsked(t) ==
    OrRoot(IF t.scheme # NoScheme /\ HasNetloc(t.segments) THEN AfterNetloc(t.segments)
                                                         ELSE t.segments)

\* Targets that _target reads as something else than they are: a scheme spelled in
\* another way than http:// or https:// is dropped with its authority (parser.py 63),
\* two slashes at the start of a path make its first segment an authority, and tabs and
\* line breaks vanish (parser.py 85).
SchemeDropped(t) == t.scheme # NoScheme /\ ~ReadAsAbsolute(t)
SegmentDropped(t) == t.scheme = NoScheme /\ HasNetloc(t.segments)
Unclean(t) == \E i \in DOMAIN t.segments : Cleaned[t.segments[i]] # t.segments[i]

\* A request the upstream is handed has one meaning: no header supports another length
\* of the body or another host than the relay's (parser.py 31-56), it was sent to its
\* end, and it goes where its target says (parser.py 62-86).  The targets that are
\* misread are the exceptions: one loses its scheme and authority, and goes to its
\* Host; the others lose part of the path.
RequestAsSent ==
    handed # None =>
        /\ BodyReadings(raw) = {handed.body}
        /\ raw.head + handed.body <= arrived
        /\ HostHeaders(raw) = {Lower[handed.host]}
        /\ \/ SchemeDropped(raw.target)
           \/ /\ TargetHosts(raw.target) \subseteq {Lower[handed.host]}
              /\ raw.target.scheme \in {NoScheme, handed.scheme}
        /\ \/ handed.path = PathAsked(raw.target)
           \/ SegmentDropped(raw.target) \/ Unclean(raw.target)

Acceptable(r) ==
    /\ r.wellFormed
    /\ r.head <= MaxHeader
    /\ \E n \in 0 .. MaxBody : BodyReadings(r) = {n}
    /\ Single(ValuesOf(r.headers, "host"))
    /\ \E host \in HostNames :
          HostHeaders(r) = {host} /\ (ReadAsAbsolute(r.target) => TargetHosts(r.target) = {host})
    /\ Absent(r.headers, "content-length") \/ Single(ValuesOf(r.headers, "content-length"))
    /\ UrlPath(r.target) \in Paths

\* The limits are exact: a request at them is read and goes to the relay, and one it
\* refuses was over a limit, malformed or cut off by the application (parser.py 33-36,
\* 92-100).
RefusedForCause ==
    (response # None /\ request = None) =>
        ~Acceptable(raw) \/ (closed /\ arrived < raw.head + BodySize)

\* The parser comes to a verdict once the request has arrived in full or its application
\* has ended its side, at whatever byte (parser.py 36, 95-97).  A connection that stays
\* silent in the middle may wait for ever: read_request has no timeout (proxy.py 24-28).
\* Nor has the write of the answer, so that a connection ends is not claimed.
SentInFull == arrived >= raw.head + (IF HeadRefused(raw) THEN 0 ELSE BodySize)
SentIsJudged == (closed \/ SentInFull) ~> (stage \notin {"head", "body"})

\* docs/SECURITY_AUDIT.md:73: application headers remain end-to-end.  The body a
\* response is written with is coded as its Content-Encoding says.
ResponseAsAnswered ==
    (output # None /\ ~output.error) =>
        (output.body.gzip <=> Encoded(output.headers))
=============================================================================
