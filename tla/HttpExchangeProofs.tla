-------------------------- MODULE HttpExchangeProofs --------------------------
(***************************************************************************)
(* Proofs about HttpExchange, for every request and response, any lists of  *)
(* headers, every limit, and an application that stops at any byte.         *)
(***************************************************************************)
EXTENDS HttpExchange, TLAPS

-----------------------------------------------------------------------------
(* The filter *)

LEMMA FilterFacts ==
    ASSUME NEW headers
    PROVE  LET blocked == HopByHop \cup ConnectionTokens(headers)
               kept == FilterForwardHeaders(headers)
           IN  /\ DOMAIN kept = {i \in DOMAIN headers : Lower[headers[i].name] \notin blocked}
               /\ \A i \in DOMAIN kept : kept[i] = headers[i]
  BY DEF FilterForwardHeaders, RestrictValues, Restrict

\* Filtering a second time drops nothing more: the Connection headers are gone.
LEMMA FilteredTokens ==
    ASSUME NEW headers
    PROVE  ConnectionTokens(FilterForwardHeaders(headers)) = {}
  <1>1. "connection" \in HopByHop
    BY DEF HopByHop
  <1> DEFINE kept == FilterForwardHeaders(headers)
  <1>2. /\ DOMAIN kept = {i \in DOMAIN headers :
                             Lower[headers[i].name] \notin HopByHop \cup ConnectionTokens(headers)}
        /\ \A i \in DOMAIN kept : kept[i] = headers[i]
    BY FilterFacts
  <1> HIDE DEF kept
  <1>3. Positions(kept, "connection") = {}
    BY <1>1, <1>2 DEF Positions
  <1>4. ConnectionTokens(kept) = {}
    BY <1>3 DEF ConnectionTokens
  <1> QED BY <1>4 DEF kept

\* What comes through both filters, at each position.
LEMMA TwiceFiltered ==
    ASSUME NEW headers
    PROVE  LET blocked == HopByHop \cup ConnectionTokens(headers)
               kept == FilterForwardHeaders(FilterForwardHeaders(headers))
           IN  /\ DOMAIN kept = {i \in DOMAIN headers : Lower[headers[i].name] \notin blocked}
               /\ \A i \in DOMAIN kept : kept[i] = headers[i]
  <1> DEFINE once == FilterForwardHeaders(headers)
             twice == FilterForwardHeaders(once)
             blocked == HopByHop \cup ConnectionTokens(headers)
  <1>1. /\ DOMAIN once = {i \in DOMAIN headers : Lower[headers[i].name] \notin blocked}
        /\ \A i \in DOMAIN once : once[i] = headers[i]
    BY FilterFacts
  <1>2. ConnectionTokens(once) = {}
    BY FilteredTokens
  <1> HIDE DEF once
  <1>3. /\ DOMAIN twice = {i \in DOMAIN once :
                              Lower[once[i].name] \notin HopByHop \cup ConnectionTokens(once)}
        /\ \A i \in DOMAIN twice : twice[i] = once[i]
    BY FilterFacts
  <1> HIDE DEF twice
  <1>4. DOMAIN twice = DOMAIN once
    BY <1>1, <1>2, <1>3
  <1>5. /\ DOMAIN twice = {i \in DOMAIN headers : Lower[headers[i].name] \notin blocked}
        /\ \A i \in DOMAIN twice : twice[i] = headers[i]
    BY <1>1, <1>3, <1>4
  <1> QED BY <1>5 DEF once, twice

\* The specification's idea of an end-to-end header is the filter's.
LEMMA EndToEndFacts ==
    ASSUME NEW headers, NEW name
    PROVE  EndToEnd(headers, name) <=> name \notin HopByHop \cup ConnectionTokens(headers)
  <1>1. name \in HopByHop <=>
          name \in {"connection", "keep-alive", "proxy-authenticate", "proxy-authorization",
                    "proxy-connection", "te", "trailer", "transfer-encoding", "upgrade",
                    "content-length"}
    BY DEF HopByHop
  <1>2. name \in ConnectionTokens(headers) <=>
          \E i \in DOMAIN headers :
             Lower[headers[i].name] = "connection" /\ name \in Tokens[headers[i].value]
    BY DEF ConnectionTokens, Positions
  <1> QED BY <1>1, <1>2 DEF EndToEnd

LEMMA TwiceCarries ==
    ASSUME NEW headers
    PROVE  LET kept == FilterForwardHeaders(FilterForwardHeaders(headers))
           IN  /\ SameHeaders(kept, headers)
               /\ \A i \in DOMAIN kept : i \in DOMAIN headers /\ kept[i] = headers[i]
  <1> DEFINE kept == FilterForwardHeaders(FilterForwardHeaders(headers))
             blocked == HopByHop \cup ConnectionTokens(headers)
  <1>1. /\ DOMAIN kept = {i \in DOMAIN headers : Lower[headers[i].name] \notin blocked}
        /\ \A i \in DOMAIN kept : kept[i] = headers[i]
    BY TwiceFiltered
  <1> HIDE DEF kept
  <1>2. ASSUME NEW name, EndToEnd(headers, name)
        PROVE  Positions(kept, name) = Positions(headers, name)
    <2>1. name \notin blocked
      BY <1>2, EndToEndFacts
    <2> QED BY <1>1, <2>1 DEF Positions
  <1>3. ASSUME NEW name, ~EndToEnd(headers, name) PROVE Positions(kept, name) = {}
    <2>1. name \in blocked
      BY <1>3, EndToEndFacts
    <2> QED BY <1>1, <2>1 DEF Positions
  <1>4. SameHeaders(kept, headers)
    BY <1>2, <1>3 DEF SameHeaders
  <1>5. \A i \in DOMAIN kept : i \in DOMAIN headers /\ kept[i] = headers[i]
    BY <1>1
  <1> QED BY <1>4, <1>5 DEF kept

\* Lower-casing the names and reading the values as text, as multi_items does, moves no
\* header and names none of them in Connection; a value that changes was UTF-8 among
\* others that are.
LEMMA MultiItemsFacts ==
    ASSUME NEW r \in Responses
    PROVE  LET items == MultiItems(r.headers)
           IN  /\ DOMAIN items = DOMAIN r.headers
               /\ \A name : Positions(items, name) = Positions(r.headers, name)
               /\ \A name : EndToEnd(items, name) <=> EndToEnd(r.headers, name)
               /\ \A i \in DOMAIN items :
                     \/ items[i].value = r.headers[i].value
                     \/ ReadAsUtf8(r.headers) /\ r.headers[i].value \notin Ascii
  <1> DEFINE items == MultiItems(r.headers)
  <1>1. /\ DOMAIN items = DOMAIN r.headers
        /\ \A i \in DOMAIN r.headers :
              /\ items[i].name = Lower[r.headers[i].name]
              /\ items[i].value = IF ReadAsUtf8(r.headers) /\ r.headers[i].value \in DOMAIN Recoded
                                  THEN Recoded[r.headers[i].value] ELSE r.headers[i].value
    BY DEF MultiItems
  <1> HIDE DEF items
  <1>2. \A i \in DOMAIN r.headers : Lower[items[i].name] = Lower[r.headers[i].name]
    BY <1>1, FoldingAssumption, MessagesAssumption
  <1>3. \A i \in DOMAIN r.headers :
           Lower[r.headers[i].name] = "connection" => Tokens[items[i].value] = Tokens[r.headers[i].value]
    BY <1>1, MessagesAssumption
  <1>4. \A i \in DOMAIN items :
           \/ items[i].value = r.headers[i].value
           \/ ReadAsUtf8(r.headers) /\ r.headers[i].value \notin Ascii
    BY <1>1, MessagesAssumption
  <1>5. ASSUME NEW name PROVE Positions(items, name) = Positions(r.headers, name)
    BY <1>1, <1>2 DEF Positions
  <1>6. ASSUME NEW name PROVE EndToEnd(items, name) <=> EndToEnd(r.headers, name)
    BY <1>1, <1>2, <1>3 DEF EndToEnd
  <1> QED BY <1>1, <1>4, <1>5, <1>6 DEF items

-----------------------------------------------------------------------------
(* What the parser accepts *)

LEMMA ValuesFacts ==
    ASSUME NEW headers, NEW name
    PROVE  /\ DOMAIN ValuesOf(headers, name) = Positions(headers, name)
           /\ \A i \in Positions(headers, name) : ValuesOf(headers, name)[i] = headers[i].value
  BY DEF ValuesOf

LEMMA OnlyFacts ==
    ASSUME NEW values, Single(values)
    PROVE  \E i \in DOMAIN values : DOMAIN values = {i} /\ Only(values) = values[i]
  BY DEF Single, Only

\* An accepted head has a body length, and every reader of it finds that one.
LEMMA AcceptedHead ==
    ASSUME NEW r \in Requests, ~HeadRefused(r)
    PROVE  /\ ContentLength(r.headers) \in 0 .. MaxBody
           /\ BodyReadings(r) = {ContentLength(r.headers)}
           /\ Absent(r.headers, "content-length") \/ Single(ValuesOf(r.headers, "content-length"))
  <1> DEFINE lengths == ValuesOf(r.headers, "content-length")
  <1>1. /\ Absent(r.headers, "transfer-encoding") /\ ContentLength(r.headers) # NotDecimal
        /\ ~(ContentLength(r.headers) > MaxBody)
    BY DEF HeadRefused
  <1>2. /\ DOMAIN lengths = Positions(r.headers, "content-length")
        /\ \A i \in DOMAIN lengths : Number[lengths[i]] \in Nat \cup {NotDecimal}
    <2>1. /\ DOMAIN lengths = Positions(r.headers, "content-length")
          /\ \A i \in DOMAIN lengths : lengths[i] = r.headers[i].value
      BY ValuesFacts
    <2>2. \A i \in Positions(r.headers, "content-length") :
             Number[r.headers[i].value] \in Nat \cup {NotDecimal}
      BY MessagesAssumption DEF Positions
    <2> HIDE DEF lengths
    <2> QED BY <2>1, <2>2
  <1> HIDE DEF lengths
  <1>3. ContentLength(r.headers) = IF DOMAIN lengths = {} THEN 0
                                   ELSE IF Single(lengths) THEN Number[Only(lengths)] ELSE NotDecimal
    BY DEF ContentLength, lengths
  <1>4. BodyReadings(r) = {Number[lengths[i]] : i \in DOMAIN lengths}
                          \cup (IF DOMAIN lengths = {} THEN {0} ELSE {})
    BY <1>1, <1>2 DEF BodyReadings, Absent, lengths
  <1>5. CASE DOMAIN lengths = {}
    <2>1. ContentLength(r.headers) = 0 /\ BodyReadings(r) = {0}
      BY <1>3, <1>4, <1>5
    <2>2. Absent(r.headers, "content-length")
      BY <1>2, <1>5 DEF Absent
    <2> QED BY <2>1, <2>2, LimitsAssumption
  <1>6. CASE DOMAIN lengths # {}
    <2>1. Single(lengths)
      BY <1>1, <1>3, <1>6
    <2>2. PICK i \in DOMAIN lengths : DOMAIN lengths = {i} /\ Only(lengths) = lengths[i]
      BY <2>1, OnlyFacts
    <2>3. ContentLength(r.headers) = Number[lengths[i]] /\ BodyReadings(r) = {Number[lengths[i]]}
      BY <1>3, <1>4, <1>6, <2>1, <2>2
    <2>4. ContentLength(r.headers) \in Nat
      BY <1>1, <1>2, <2>2, <2>3
    <2>5. ContentLength(r.headers) \in 0 .. MaxBody
      BY <1>1, <2>4, LimitsAssumption
    <2> QED BY <2>1, <2>3, <2>5 DEF lengths
  <1> QED BY <1>5, <1>6

\* A head that is refused was not acceptable.
LEMMA RefusedHead ==
    ASSUME NEW r \in Requests, HeadRefused(r)
    PROVE  ~Acceptable(r)
  <1> DEFINE lengths == ValuesOf(r.headers, "content-length")
  <1> SUFFICES ASSUME Acceptable(r) PROVE FALSE
    OBVIOUS
  <1>1. PICK n \in 0 .. MaxBody : BodyReadings(r) = {n}
    BY DEF Acceptable
  <1>2. n \in Nat /\ n # NotDecimal /\ ~(n > MaxBody)
    BY <1>1, LimitsAssumption, MessagesAssumption
  <1>3. r.wellFormed /\ (DOMAIN lengths = {} \/ Single(lengths))
    BY ValuesFacts DEF Acceptable, Absent
  <1>4. Absent(r.headers, "transfer-encoding")
    BY <1>1, <1>2 DEF BodyReadings
  <1>5. /\ \A i \in DOMAIN lengths : Number[lengths[i]] \in BodyReadings(r)
        /\ DOMAIN lengths = {} => 0 \in BodyReadings(r)
    BY <1>4, ValuesFacts DEF BodyReadings, Absent
  <1>6. ContentLength(r.headers) = n
    <2>1. CASE DOMAIN lengths = {}
      BY <1>1, <1>5, <2>1 DEF ContentLength
    <2>2. CASE DOMAIN lengths # {}
      <3>1. PICK i \in DOMAIN lengths : DOMAIN lengths = {i} /\ Only(lengths) = lengths[i]
        BY <1>3, <2>2, OnlyFacts
      <3>2. ContentLength(r.headers) = Number[lengths[i]]
        BY <1>3, <2>2, <3>1 DEF ContentLength
      <3> QED BY <1>1, <1>5, <3>1, <3>2
    <2> QED BY <2>1, <2>2
  <1> QED BY <1>2, <1>3, <1>4, <1>6 DEF HeadRefused

\* The host that the one Host header names.
LEMMA HostFacts ==
    ASSUME NEW r \in Requests, Single(ValuesOf(r.headers, "host"))
    PROVE  LET host == Only(ValuesOf(r.headers, "host"))
           IN  host \in DOMAIN Lower /\ HostHeaders(r) = {Lower[host]}
  <1> DEFINE hosts == ValuesOf(r.headers, "host")
  <1>1. PICK i \in DOMAIN hosts : DOMAIN hosts = {i} /\ Only(hosts) = hosts[i]
    BY OnlyFacts
  <1>2. Positions(r.headers, "host") = {i} /\ hosts[i] = r.headers[i].value
    BY <1>1, ValuesFacts
  <1>3. r.headers[i].value \in DOMAIN Lower
    BY <1>2, MessagesAssumption DEF Positions
  <1> QED BY <1>1, <1>2, <1>3 DEF HostHeaders

\* A target that is all path, or has an authority that is read as one, gets the path asked
\* for, unless a segment of it is not clean.
LEMMA PathFacts ==
    ASSUME NEW r \in Requests, ~Unclean(r.target), ~SegmentDropped(r.target)
    PROVE  UrlPath(r.target) = PathAsked(r.target)
  <1> DEFINE segments == r.target.segments
             cleaned == [i \in DOMAIN segments |-> Cleaned[segments[i]]]
  <1>1. segments \in Seq(DOMAIN Cleaned)
    BY MessagesAssumption
  <1>2. cleaned = segments
    <2>1. DOMAIN cleaned = DOMAIN segments /\ \A i \in DOMAIN segments : cleaned[i] = segments[i]
      BY DEF Unclean
    <2>2. segments = [i \in DOMAIN segments |-> segments[i]]
      BY <1>1
    <2> QED BY <2>1, <2>2
  <1>3. HasNetloc(segments) <=> r.target.scheme # NoScheme /\ HasNetloc(segments)
    BY DEF SegmentDropped
  <1> QED BY <1>2, <1>3 DEF UrlPath, PathAsked
-----------------------------------------------------------------------------
(* The inductive invariant *)

HostsOf(r) == ValuesOf(r.headers, "host")

\* What the relay is asked is the target of a request that was read to its end.
Asked ==
    request # None =>
        /\ ~HeadRefused(raw) /\ raw.head + BodySize <= arrived
        /\ Single(HostsOf(raw)) /\ AuthorityMatches(raw.target, Only(HostsOf(raw)))
        /\ request = TargetOf(raw, Only(HostsOf(raw)))

Handed ==
    handed # None =>
        /\ request # None
        /\ handed = [request EXCEPT !.headers = FilterForwardHeaders(@)]

\* What is written is the proxy's own answer or the upstream's.
Answered ==
    /\ response # None =>
          \/ response = BadRequest
          \/ received \in Responses /\ response = AnswerOf(received)
    /\ output # None => response # None /\ output = OutputOf(response)

\* The parser has decided nothing yet, or has accepted the head.
Reading ==
    /\ stage \in {"head", "body"} => request = None /\ response = None
    /\ stage = "body" => ~HeadRefused(raw)

HttpInv ==
    /\ TypeOK /\ raw \in Requests /\ Reading
    /\ Asked /\ Handed /\ Answered /\ RefusedForCause

-----------------------------------------------------------------------------
(* The steps *)

\* A step in which nothing is asked, handed or answered, and no byte is lost, keeps what
\* was.
LEMMA NothingNew ==
    ASSUME HttpInv, UNCHANGED <<raw, relayVars, response, output>>,
           arrived' \in Nat, arrived <= arrived'
    PROVE  Asked' /\ Handed' /\ Answered' /\ raw' \in Requests
  <1>1. /\ raw' = raw /\ request' = request /\ handed' = handed /\ received' = received
        /\ response' = response /\ output' = output /\ raw \in Requests
    BY DEF relayVars, HttpInv
  <1>2. Asked'
    <2>1. CASE request = None
      BY <1>1, <2>1 DEF Asked
    <2>2. CASE request # None
      <3>1. ~HeadRefused(raw) /\ raw.head + BodySize <= arrived
        BY <2>2 DEF HttpInv, Asked
      <3>2. raw.head + BodySize \in Nat /\ arrived \in Nat
        BY <1>1, <3>1, AcceptedHead, LimitsAssumption, MessagesAssumption
        DEF BodySize, HttpInv, TypeOK
      <3>3. raw.head + BodySize <= arrived'
        BY <3>1, <3>2
      <3> QED BY <1>1, <2>2, <3>3 DEF HttpInv, Asked, BodySize
    <2> QED BY <2>1, <2>2
  <1> QED BY <1>1, <1>2 DEF HttpInv, Handed, Answered

\* The types of the counters of bytes.
LEMMA Bytes ==
    ASSUME HttpInv
    PROVE  /\ raw \in Requests /\ raw.head \in Nat \ {0} /\ raw.sends \in Nat
           /\ arrived \in 0 .. raw.sends /\ arrived \in Nat /\ read \in 0 .. arrived /\ read \in Nat
  BY MessagesAssumption DEF HttpInv, TypeOK

LEMMA AppSendsKeeps ==
    ASSUME HttpInv, AppSends
    PROVE  HttpInv'
  <1>1. /\ ~closed /\ arrived < raw.sends /\ arrived' = arrived + 1 /\ closed' = closed
        /\ read' = read /\ stage' = stage /\ UNCHANGED <<raw, relayVars, response, output>>
    BY DEF AppSends
  <1>2. Asked' /\ Handed' /\ Answered' /\ raw' \in Requests
    BY <1>1, Bytes, NothingNew
  <1>3. /\ raw' = raw /\ request' = request /\ response' = response /\ output' = output
    BY <1>1 DEF relayVars
  <1>4. TypeOK'
    BY <1>1, <1>3, Bytes DEF HttpInv, TypeOK, BodySize
  <1>5. Reading'
    BY <1>1, <1>3 DEF HttpInv, Reading
  <1>6. RefusedForCause'
    BY <1>1, <1>3 DEF HttpInv, RefusedForCause
  <1> QED BY <1>2, <1>4, <1>5, <1>6 DEF HttpInv

LEMMA AppClosesKeeps ==
    ASSUME HttpInv, AppCloses
    PROVE  HttpInv'
  <1>1. /\ ~closed /\ closed' = TRUE /\ arrived' = arrived
        /\ read' = read /\ stage' = stage /\ UNCHANGED <<raw, relayVars, response, output>>
    BY DEF AppCloses
  <1>2. Asked' /\ Handed' /\ Answered' /\ raw' \in Requests
    BY <1>1, Bytes, NothingNew
  <1>3. /\ raw' = raw /\ request' = request /\ response' = response /\ output' = output
    BY <1>1 DEF relayVars
  <1>4. TypeOK'
    BY <1>1, <1>3 DEF HttpInv, TypeOK, BodySize
  <1>5. Reading'
    BY <1>1, <1>3 DEF HttpInv, Reading
  <1>6. RefusedForCause'
    BY <1>1, <1>3 DEF HttpInv, RefusedForCause
  <1> QED BY <1>2, <1>4, <1>5, <1>6 DEF HttpInv

\* The proxy answers for itself, with cause.
LEMMA RefuseKeeps ==
    ASSUME HttpInv, Refuse, stage \notin {"writing", "done", "broken"},
           UNCHANGED <<appVars, handed, received, output>>, read' \in 0 .. arrived,
           request' = request,
           request = None => ~Acceptable(raw) \/ (closed /\ arrived < raw.head + BodySize)
    PROVE  HttpInv'
  <1>1. /\ stage' = "writing" /\ response' = BadRequest /\ raw' = raw /\ arrived' = arrived
        /\ closed' = closed /\ request' = request /\ handed' = handed /\ received' = received
        /\ output' = output
    BY DEF Refuse, appVars
  <1>2. output = None
    BY DEF HttpInv, TypeOK
  <1>3. TypeOK'
    BY <1>1, <1>2, Bytes, NoneAssumption DEF TypeOK
  <1>4. Reading' /\ Answered' /\ RefusedForCause'
    BY <1>1, <1>2 DEF Reading, Answered, RefusedForCause, BodySize
  <1>5. Asked' /\ Handed'
    BY <1>1 DEF HttpInv, Asked, Handed, BodySize
  <1> QED BY <1>1, <1>3, <1>4, <1>5, Bytes DEF HttpInv

LEMMA ReadByteKeeps ==
    ASSUME HttpInv, ReadByte
    PROVE  HttpInv'
  <1>1. /\ stage = "head" /\ read < arrived /\ read' = read + 1 /\ read < raw.head
        /\ UNCHANGED <<appVars, relayVars, output>>
        /\ request = None /\ response = None
    BY DEF ReadByte, HttpInv, TypeOK, Reading
  <1>2. /\ raw' = raw /\ arrived' = arrived /\ closed' = closed /\ request' = request
        /\ handed' = handed /\ received' = received /\ output' = output
    BY <1>1 DEF appVars, relayVars
  <1>3. read' \in 0 .. arrived /\ read' \in Nat
    BY <1>1, Bytes
  <1>4. CASE read' = raw.head /\ HeadRefused(raw)
    <2>1. Refuse /\ ~Acceptable(raw)
      BY <1>4, Bytes, RefusedHead DEF ReadByte
    <2> QED BY <1>1, <1>2, <1>3, <2>1, RefuseKeeps
  <1>5. CASE read' # raw.head /\ HeadTooLarge(read')
    <2>1. Refuse /\ read' >= MaxHeader
      BY <1>5 DEF ReadByte, HeadTooLarge
    <2>2. ~(raw.head <= MaxHeader)
      BY <1>1, <1>3, <1>5, <2>1, Bytes, LimitsAssumption
    <2>3. ~Acceptable(raw)
      BY <2>2 DEF Acceptable
    <2> QED BY <1>1, <1>2, <1>3, <2>1, <2>3, RefuseKeeps
  <1>6. CASE read' = raw.head /\ ~HeadRefused(raw)
    <2>1. stage' = "body" /\ response' = response
      BY <1>6 DEF ReadByte
    <2>2. TypeOK'
      BY <1>1, <1>2, <1>3, <1>6, <2>1, Bytes, AcceptedHead DEF HttpInv, TypeOK, BodySize
    <2>3. Reading' /\ RefusedForCause'
      BY <1>1, <1>2, <1>6, <2>1 DEF Reading, RefusedForCause
    <2>4. Asked' /\ Handed' /\ Answered' /\ raw' \in Requests
      BY <1>1, <1>2, <2>1, Bytes, NothingNew
    <2> QED BY <2>2, <2>3, <2>4 DEF HttpInv
  <1>7. CASE read' # raw.head /\ ~HeadTooLarge(read')
    <2>1. stage' = stage /\ response' = response
      BY <1>7 DEF ReadByte
    <2>2. read' < raw.head
      BY <1>1, <1>3, <1>7, Bytes
    <2>3. TypeOK'
      BY <1>1, <1>2, <1>3, <2>1, <2>2, Bytes DEF HttpInv, TypeOK
    <2>4. Reading' /\ RefusedForCause'
      BY <1>1, <1>2, <2>1 DEF Reading, RefusedForCause
    <2>5. Asked' /\ Handed' /\ Answered' /\ raw' \in Requests
      BY <1>1, <1>2, <2>1, Bytes, NothingNew
    <2> QED BY <2>3, <2>4, <2>5 DEF HttpInv
  <1> QED BY <1>4, <1>5, <1>6, <1>7

LEMMA EndOfStreamKeeps ==
    ASSUME HttpInv, EndOfStream
    PROVE  HttpInv'
  <1>1. /\ stage \in {"head", "body"} /\ StreamEnds /\ Refuse
        /\ UNCHANGED <<appVars, handed, received, output>> /\ read' = read /\ request' = request
    BY DEF EndOfStream, relayVars
  <1>2. ~Acceptable(raw) \/ (closed /\ arrived < raw.head + BodySize)
    <2>1. CASE HeadRefused(raw)
      BY <2>1, Bytes, RefusedHead
    <2>2. CASE ~HeadRefused(raw)
      <3>1. BodySize \in 0 .. MaxBody
        BY <2>2, Bytes, AcceptedHead DEF BodySize
      <3>2. BodySize \in Nat
        BY <3>1, LimitsAssumption
      <3>3. stage = "head" => read < raw.head
        BY DEF HttpInv, TypeOK
      <3>4. closed /\ arrived < IF stage = "head" THEN read + 1 ELSE raw.head + BodySize
        BY <1>1 DEF StreamEnds
      <3> QED BY <3>2, <3>3, <3>4, Bytes
    <2> QED BY <2>1, <2>2
  <1>3. stage \notin {"writing", "done", "broken"} /\ read' \in 0 .. arrived
    BY <1>1, Bytes
  <1> QED BY <1>1, <1>2, <1>3, RefuseKeeps

LEMMA ReadBodyKeeps ==
    ASSUME HttpInv, ReadBody
    PROVE  HttpInv'
  <1> DEFINE hosts == ValuesOf(raw.headers, "host")
             host == Only(hosts)
             asked == TargetOf(raw, host)
             Accepts == /\ Single(hosts) /\ AuthorityMatches(raw.target, host)
                        /\ asked.host \in HostNames /\ asked.path \in Paths
  <1>1. /\ stage = "body" /\ raw.head + BodySize <= arrived
        /\ raw' = raw /\ arrived' = arrived /\ closed' = closed /\ read' = read
        /\ handed' = handed /\ received' = received /\ output' = output
        /\ request = None /\ response = None /\ ~HeadRefused(raw)
    BY DEF ReadBody, appVars, HttpInv, Reading
  <1>2. /\ Accepts => stage' = "asked" /\ request' = asked /\ response' = response
        /\ ~Accepts => Refuse /\ request' = request
    BY DEF ReadBody
  <1>3. /\ asked.host = IF ReadAsAbsolute(raw.target) THEN Lower[Netloc(raw.target.segments)] ELSE host
        /\ asked.path = UrlPath(raw.target)
    BY DEF TargetOf
  <1>4. /\ raw \in Requests
        /\ ReadAsAbsolute(raw.target) => Netloc(raw.target.segments) \in DOMAIN Lower
    BY Bytes, MessagesAssumption DEF ReadAsAbsolute
  <1>5. CASE Accepts
    <2>1. asked # None
      <3>1. Single(hosts)
        BY <1>5
      <3>2. CASE host \in HostNames
        BY <1>4, <3>2, NoneAssumption
      <3>3. CASE host \notin HostNames
        <4>1. /\ Lower[host] = Lower[Netloc(raw.target.segments)]
              /\ Lower[Netloc(raw.target.segments)] \in HostNames
          BY <1>3, <1>4, <1>5, <3>3 DEF AuthorityMatches
        <4>2. host \in DOMAIN Lower
          BY <1>4, <3>1, HostFacts
        <4> QED BY <3>3, <4>1, <4>2, FoldingAssumption
      <3> QED BY <3>2, <3>3
    <2>2. stage' = "asked" /\ request' = asked /\ response' = response
      BY <1>2, <1>5
    <2>3. Asked'
      BY <1>1, <1>5, <2>2 DEF Asked, HostsOf, BodySize
    <2>4. TypeOK'
      BY <1>1, <2>1, <2>2 DEF HttpInv, TypeOK, BodySize
    <2>5. handed = None
      BY <1>1 DEF HttpInv, Handed
    <2>6. Reading' /\ Handed' /\ Answered' /\ RefusedForCause'
      BY <1>1, <2>2, <2>5 DEF HttpInv, Reading, Handed, Answered, RefusedForCause
    <2> QED BY <1>1, <1>4, <2>3, <2>4, <2>6 DEF HttpInv
  <1>6. CASE ~Accepts
    <2>1. ~Acceptable(raw)
      <3> SUFFICES ASSUME Acceptable(raw) PROVE Accepts
        BY <1>6
      <3>1. Single(hosts) /\ asked.path \in Paths
        BY <1>3 DEF Acceptable
      <3>2. PICK h \in HostNames :
               HostHeaders(raw) = {h} /\ (ReadAsAbsolute(raw.target) => TargetHosts(raw.target) = {h})
        BY DEF Acceptable
      <3>3. host \in DOMAIN Lower /\ HostHeaders(raw) = {Lower[host]}
        BY <1>4, <3>1, HostFacts
      <3>4. /\ Lower[host] = h
            /\ ReadAsAbsolute(raw.target) => Lower[Netloc(raw.target.segments)] = h
        BY <3>2, <3>3, MessagesAssumption DEF TargetHosts, ReadAsAbsolute
      <3>5. host \in HostNames
        BY <3>2, <3>3, <3>4, FoldingAssumption
      <3>6. asked.host \in HostNames /\ AuthorityMatches(raw.target, host)
        BY <1>3, <3>2, <3>4, <3>5 DEF AuthorityMatches
      <3> QED BY <3>1, <3>6
    <2>2. Refuse /\ request' = request
      BY <1>2, <1>6
    <2> QED BY <1>1, <2>1, <2>2, Bytes, RefuseKeeps DEF appVars
  <1> QED BY <1>5, <1>6

LEMMA RelayFailsKeeps ==
    ASSUME HttpInv, RelayFails
    PROVE  HttpInv'
  <1>1. /\ stage \in {"asked", "upstream"} /\ Refuse /\ read' = read /\ request' = request
        /\ UNCHANGED <<appVars, handed, received, output>>
    BY DEF RelayFails, relayVars
  <1>2. request # None /\ stage \notin {"writing", "done", "broken"}
    BY <1>1 DEF HttpInv, TypeOK
  <1> QED BY <1>1, <1>2, Bytes, RefuseKeeps

LEMMA ForwardKeeps ==
    ASSUME HttpInv, Forward
    PROVE  HttpInv'
  <1>1. /\ stage = "asked" /\ stage' = "upstream"
        /\ handed' = [request EXCEPT !.headers = FilterForwardHeaders(@)]
        /\ raw' = raw /\ arrived' = arrived /\ closed' = closed /\ read' = read
        /\ request' = request /\ received' = received /\ response' = response
        /\ output' = output
    BY DEF Forward, appVars
  <1>2. request # None
    BY <1>1 DEF HttpInv, TypeOK
  <1>3. TypeOK' /\ Reading'
    BY <1>1 DEF HttpInv, TypeOK, BodySize, Reading
  <1>4. Asked' /\ Handed' /\ Answered' /\ RefusedForCause'
    BY <1>1, <1>2 DEF HttpInv, Asked, BodySize, Handed, Answered, RefusedForCause
  <1> QED BY <1>1, <1>3, <1>4 DEF HttpInv

LEMMA RespondKeeps ==
    ASSUME HttpInv, NEW r \in Responses, Respond(r)
    PROVE  HttpInv'
  <1>1. /\ stage = "upstream" /\ stage' = "writing" /\ received' = r
        /\ raw' = raw /\ arrived' = arrived /\ closed' = closed /\ read' = read
        /\ request' = request /\ handed' = handed /\ output' = output
        /\ response' \in {BadRequest, AnswerOf(r)}
    BY DEF Respond, Refuse, appVars
  <1>2. request # None /\ output = None
    BY <1>1 DEF HttpInv, TypeOK
  <1>3. response' # None
    BY <1>1, NoneAssumption
  <1>4. TypeOK' /\ Reading'
    BY <1>1, <1>2, <1>3 DEF HttpInv, TypeOK, Reading
  <1>5. Answered'
    BY <1>1, <1>2 DEF Answered
  <1>6. Asked' /\ Handed' /\ RefusedForCause'
    BY <1>1, <1>2 DEF HttpInv, Asked, BodySize, Handed, RefusedForCause
  <1> QED BY <1>1, <1>4, <1>5, <1>6 DEF HttpInv

LEMMA WriteKeeps ==
    ASSUME HttpInv, Write
    PROVE  HttpInv'
  <1>1. /\ stage = "writing" /\ stage' = "done" /\ output' = OutputOf(response)
        /\ raw' = raw /\ arrived' = arrived /\ closed' = closed /\ read' = read
        /\ request' = request /\ handed' = handed /\ received' = received
        /\ response' = response
    BY DEF Write, appVars, relayVars
  <1>2. response # None
    BY <1>1 DEF HttpInv, TypeOK
  <1>3. output' # None
    BY <1>1, <1>2, NoneAssumption DEF HttpInv, Answered
  <1>4. TypeOK' /\ Reading'
    BY <1>1, <1>2, <1>3 DEF HttpInv, TypeOK, Reading
  <1>5. Asked' /\ Handed' /\ Answered' /\ RefusedForCause'
    BY <1>1, <1>2 DEF HttpInv, Asked, BodySize, Handed, Answered, RefusedForCause
  <1> QED BY <1>1, <1>4, <1>5 DEF HttpInv

LEMMA WriteFailsKeeps ==
    ASSUME HttpInv, WriteFails
    PROVE  HttpInv'
  <1>1. /\ stage = "writing" /\ stage' = "broken"
        /\ raw' = raw /\ arrived' = arrived /\ closed' = closed /\ read' = read
        /\ request' = request /\ handed' = handed /\ received' = received
        /\ response' = response /\ output' = output
    BY DEF WriteFails, appVars, relayVars
  <1>2. TypeOK' /\ Reading'
    BY <1>1 DEF HttpInv, TypeOK, Reading
  <1>3. Asked' /\ Handed' /\ Answered' /\ RefusedForCause'
    BY <1>1 DEF HttpInv, Asked, BodySize, Handed, Answered, RefusedForCause
  <1> QED BY <1>1, <1>2, <1>3 DEF HttpInv

-----------------------------------------------------------------------------
(* The theorems *)

LEMMA InitHttp ==
    ASSUME Init
    PROVE  HttpInv
  <1>1. raw \in Requests /\ raw.head \in Nat \ {0} /\ raw.sends \in Nat
    BY MessagesAssumption DEF Init
  <1>2. TypeOK
    BY <1>1 DEF Init, TypeOK
  <1> QED BY <1>1, <1>2 DEF Init, HttpInv, Reading, Asked, Handed, Answered, RefusedForCause

LEMMA StepHttp ==
    ASSUME HttpInv, [Next]_vars
    PROVE  HttpInv'
  <1>1. CASE AppSends \/ AppCloses
    BY <1>1, AppSendsKeeps, AppClosesKeeps
  <1>2. CASE Parse
    BY <1>2, ReadByteKeeps, EndOfStreamKeeps, ReadBodyKeeps DEF Parse
  <1>5. CASE Write \/ WriteFails
    BY <1>5, WriteKeeps, WriteFailsKeeps
  <1>3. CASE Relay
    BY <1>3, RelayFailsKeeps, ForwardKeeps, RespondKeeps DEF Relay
  <1>4. CASE UNCHANGED vars
    BY <1>4 DEF vars, appVars, relayVars, HttpInv, TypeOK, Reading, Asked, BodySize, Handed,
                Answered, RefusedForCause
  <1> QED BY <1>1, <1>2, <1>3, <1>4, <1>5 DEF Next

\* From the first byte to the written response, what each stage holds is what the stages
\* before it made of the request that was sent and the answer that came (parser.py 15-101,
\* forwarder.py 20-50, writer.py 9-31).
THEOREM HttpInductive == Spec => []HttpInv
  <1>1. Init => HttpInv
    BY InitHttp
  <1>2. HttpInv /\ [Next]_vars => HttpInv'
    BY StepHttp
  <1> QED BY <1>1, <1>2, PTL DEF Spec

\* The parser never reads what has not arrived or past the head, and the body it waits for
\* is within the limit (parser.py 16-36, 90-101).
THEOREM HttpTypeOKThm == Spec => []TypeOK
  <1>1. HttpInv => TypeOK
    BY DEF HttpInv
  <1> QED BY <1>1, HttpInductive, PTL

\* Every end-to-end header arrives, in order, and none of a connection does, in both
\* directions, for any lists of headers; no value changes but those of a response that
\* httpx reads as UTF-8 (headers.py 9-19, forwarder.py 47, writer.py 26).
THEOREM OnlyEndToEndThm == Spec => []OnlyEndToEnd
  <1>1. ASSUME HttpInv, handed # None
        PROVE  /\ SameHeaders(handed.headers, raw.headers)
               /\ \A i \in DOMAIN handed.headers : handed.headers[i].value = raw.headers[i].value
    <2>1. /\ handed = [request EXCEPT !.headers = FilterForwardHeaders(@)]
          /\ request = TargetOf(raw, Only(HostsOf(raw)))
      BY <1>1 DEF HttpInv, Handed, Asked
    <2>2. handed.headers = FilterForwardHeaders(FilterForwardHeaders(raw.headers))
      BY <2>1 DEF TargetOf
    <2> QED BY <2>2, TwiceCarries
  <1>2. ASSUME HttpInv, output # None, ~output.error
        PROVE  /\ SameHeaders(output.headers, received.headers)
               /\ \A i \in DOMAIN output.headers :
                     \/ output.headers[i].value = received.headers[i].value
                     \/ ReadAsUtf8(received.headers) /\ received.headers[i].value \notin Ascii
    <2>1. output = OutputOf(response) /\ ~response.error
      BY <1>2 DEF HttpInv, Answered, OutputOf
    <2>2. received \in Responses /\ response = AnswerOf(received)
      BY <1>2, <2>1 DEF HttpInv, Answered, BadRequest
    <2> DEFINE items == MultiItems(received.headers)
               kept == FilterForwardHeaders(FilterForwardHeaders(items))
    <2>3. output.headers = kept
      BY <2>1, <2>2 DEF OutputOf, Written, AnswerOf
    <2>4. /\ SameHeaders(kept, items)
          /\ \A i \in DOMAIN kept : i \in DOMAIN items /\ kept[i] = items[i]
      BY TwiceCarries
    <2>5. /\ \A name : Positions(items, name) = Positions(received.headers, name)
          /\ \A name : EndToEnd(items, name) <=> EndToEnd(received.headers, name)
          /\ \A i \in DOMAIN items :
                \/ items[i].value = received.headers[i].value
                \/ ReadAsUtf8(received.headers) /\ received.headers[i].value \notin Ascii
      BY <2>2, MultiItemsFacts
    <2> HIDE DEF items, kept
    <2>6. SameHeaders(kept, received.headers)
      BY <2>4, <2>5 DEF SameHeaders
    <2> QED BY <2>3, <2>4, <2>5, <2>6
  <1>3. HttpInv => OnlyEndToEnd
    BY <1>1, <1>2 DEF OnlyEndToEnd
  <1> QED BY <1>3, HttpInductive, PTL

\* What is written is delimited by one Content-Length, whatever the upstream sent
\* (writer.py 22-30).
THEOREM ResponseFramedThm == Spec => []ResponseFramed
  <1>1. ASSUME HttpInv, output # None PROVE output = OutputOf(response) /\ response # None
    BY <1>1 DEF HttpInv, Answered
  <1>2. ASSUME NEW headers, NEW name \in {"content-length", "transfer-encoding", "connection"}
        PROVE  Absent(FilterForwardHeaders(headers), name)
    <2>1. name \in HopByHop
      BY <1>2 DEF HopByHop
    <2> DEFINE kept == FilterForwardHeaders(headers)
    <2>2. /\ DOMAIN kept = {i \in DOMAIN headers :
                              Lower[headers[i].name] \notin HopByHop \cup ConnectionTokens(headers)}
          /\ \A i \in DOMAIN kept : kept[i] = headers[i]
      BY FilterFacts
    <2> HIDE DEF kept
    <2>3. Absent(kept, name)
      BY <2>1, <2>2 DEF Absent, Positions
    <2> QED BY <2>3 DEF kept
  <1>3. ASSUME NEW name \in {"content-length", "transfer-encoding", "connection"}
        PROVE  Absent(BadRequest.headers, name)
    BY <1>3, FoldingAssumption DEF Absent, Positions, BadRequest
  <1>4. ASSUME HttpInv, output # None,
               NEW name \in {"content-length", "transfer-encoding", "connection"}
        PROVE  Absent(output.headers, name)
    <2>1. output.headers = Written(response)
      BY <1>1, <1>4 DEF OutputOf
    <2>2. CASE response = BadRequest
      <3>1. Written(response) = BadRequest.headers
        BY <2>2 DEF Written, BadRequest
      <3> QED BY <1>3, <2>1, <3>1
    <2>3. CASE response = AnswerOf(received)
      <3>1. Written(response) = FilterForwardHeaders(response.headers)
        BY <2>3 DEF Written, AnswerOf
      <3> QED BY <1>2, <2>1, <3>1
    <2> QED BY <1>1, <1>4, <2>2, <2>3 DEF HttpInv, Answered
  <1>5. HttpInv => ResponseFramed
    BY <1>1, <1>4 DEF ResponseFramed, OutputOf
  <1> QED BY <1>5, HttpInductive, PTL

\* A request that reaches the upstream has one body length under every reading of its
\* headers, the host of its Host header, and the scheme, authority and path of its target
\* but for the forms of target that are misread (parser.py 31-56, 62-86).
THEOREM RequestAsSentThm == Spec => []RequestAsSent
  <1>1. ASSUME HttpInv, handed # None PROVE RequestAsSent
    <2> DEFINE host == Only(HostsOf(raw))
               target == raw.target
    <2>1. /\ handed = [request EXCEPT !.headers = FilterForwardHeaders(@)]
          /\ ~HeadRefused(raw) /\ raw.head + BodySize <= arrived
          /\ Single(HostsOf(raw)) /\ AuthorityMatches(target, host)
          /\ request = TargetOf(raw, host)
      BY <1>1 DEF HttpInv, Handed, Asked
    <2>2. /\ handed.body = ContentLength(raw.headers)
          /\ handed.scheme = IF ReadAsAbsolute(target) THEN target.scheme ELSE "http"
          /\ handed.host = IF ReadAsAbsolute(target) THEN Lower[Netloc(target.segments)] ELSE host
          /\ handed.path = UrlPath(target)
      BY <2>1 DEF TargetOf
    <2>3. /\ raw \in Requests
          /\ ReadAsAbsolute(target) => Netloc(target.segments) \in DOMAIN Lower
      BY <1>1, MessagesAssumption DEF HttpInv, ReadAsAbsolute
    <2>4. BodyReadings(raw) = {handed.body} /\ raw.head + handed.body <= arrived
      BY <2>1, <2>2, <2>3, AcceptedHead DEF BodySize
    <2>5. HostHeaders(raw) = {Lower[handed.host]}
      <3>1. host \in DOMAIN Lower /\ HostHeaders(raw) = {Lower[host]}
        BY <2>1, <2>3, HostFacts DEF HostsOf
      <3>2. CASE ReadAsAbsolute(target)
        BY <2>1, <2>2, <2>3, <3>1, <3>2, FoldingAssumption DEF AuthorityMatches
      <3>3. CASE ~ReadAsAbsolute(target)
        BY <2>2, <3>1, <3>3
      <3> QED BY <3>2, <3>3
    <2>6. ~SchemeDropped(target) =>
             /\ TargetHosts(target) \subseteq {Lower[handed.host]}
             /\ target.scheme \in {NoScheme, handed.scheme}
      <3>1. CASE ReadAsAbsolute(target)
        BY <2>2, <2>3, <3>1, FoldingAssumption DEF TargetHosts
      <3>2. CASE target.scheme = NoScheme
        BY <3>2 DEF TargetHosts
      <3> QED BY <3>1, <3>2 DEF SchemeDropped
    <2>7. \/ handed.path = PathAsked(target)
          \/ SegmentDropped(target) \/ Unclean(target)
      BY <2>2, <2>3, PathFacts
    <2> QED BY <2>4, <2>5, <2>6, <2>7 DEF RequestAsSent
  <1>2. HttpInv => RequestAsSent
    BY <1>1 DEF RequestAsSent
  <1> QED BY <1>2, HttpInductive, PTL

\* A request that is refused before the relay was asked was over a limit, malformed or cut
\* off by its application (parser.py 33-36, 92-100).
THEOREM RefusedForCauseThm == Spec => []RefusedForCause
  <1>1. HttpInv => RefusedForCause
    BY DEF HttpInv
  <1> QED BY <1>1, HttpInductive, PTL
=============================================================================
