---------------------------- MODULE RelayServer ----------------------------
(***************************************************************************)
(* One RelayX server process: the FastAPI application of relayx.server with *)
(* its replay cache, its httpx client and its shutdown.  Every carrier      *)
(* request runs in a task of its own; a step is what one task does between  *)
(* two awaits, so tasks interleave exactly where the code lets them.        *)
(*                                                                         *)
(*   idle --Arrive--> entered --Admit--> reading --Dispatch--> connecting   *)
(*     --Execute--> awaiting --Head--> streaming --End--> replying          *)
(*     --Finish--> done          and from each of them an error to replying *)
(***************************************************************************)
EXTENDS Packets

CONSTANTS
    Handlers,   \* the carrier requests that may arrive, one task each
    Carriers,   \* what may arrive: records with fields route, token, media, packet
    Token,      \* auth_token
    NonAscii,   \* the tokens with characters outside ASCII
    Key,        \* encryption_key
    Chunks,     \* how long a decoded chunk of an upstream response may be
    Limits,     \* ciphertext is max_carrier_body_bytes, the others as in Packets
    NoId,       \* request_id None
    NoCarrier,  \* a handler that has not started
    MaxTime     \* bound: the clock stops there

\* What RelaySettings validates of the limits, as far as the server needs it.
ASSUME LimitsAssumption ==
    \A limit \in {"ciphertext", "decompressed", "request", "response"} : Limits[limit] \in Nat

ASSUME CarriersAssumption ==
    \A c \in Carriers :
        /\ c.packet.size \in Nat /\ c.packet.aad.ts \in Int
        /\ c.packet.ct.plain.raw.msg # NoMessage /\ c.packet.ct.plain.raw.msg.body \in Nat
        /\ c.packet.ct.plain.raw.msg.type = "request" => c.packet.ct.plain.raw.msg.id # NoId

\* aiter_bytes yields no empty chunk.
ASSUME ChunksAssumption == Chunks \subseteq Nat \ {0}

\* With a configured token outside ASCII the endpoint would admit nobody.
ASSUME TokenAssumption == Token \notin NonAscii

\* seal draws a random nonce for every packet: genuine packets with one nonce are
\* copies of one packet.
ASSUME FreshNonces ==
    \A p, q \in {c.packet : c \in Carriers} :
        (Authentic(p, Key) /\ Authentic(q, Key) /\ p.aad.nonce = q.aad.nonce) => p.aad = q.aad

VARIABLES
    pc,           \* where each handler is
    carrier,      \* the carrier request of each handler
    buffered,     \* bytes read: of the carrier body, then of the upstream response
    request,      \* the local variable message: the decoded request, or NoMessage
    reply,        \* [http, msg]: the status sent, and the message sealed into it
    executed,     \* history: whether the upstream has carried out the request
    late,         \* history: whether the handler started after the client was closed
    renewed,      \* history: flips when the upstream makes httpx wait anew
    outstanding,  \* app.state.outstanding_requests
    lifespan,     \* "serving", "draining" or "stopped" (the httpx client is closed)
    overdue,      \* whether the drain deadline has passed
    seen,         \* the replay cache
    now           \* the wall clock

handlerVars == <<pc, carrier, buffered, request, reply, executed, late, renewed>>
appVars == <<outstanding, lifespan, overdue>>
cacheVars == <<seen, now>>
vars == <<handlerVars, appVars, cacheVars>>

NoReply == [http |-> 0, msg |-> NoMessage]
Status(code) == [http |-> code, msg |-> NoMessage]
Sealed(m) == [http |-> 200, msg |-> m]
RelayError(id, code) == [type |-> "error", id |-> id, body |-> 0, info |-> code]
RelayResponse(id, size) == [type |-> "response", id |-> id, body |-> size, info |-> "upstream"]

Init ==
    /\ pc = [h \in Handlers |-> "idle"]
    /\ carrier = [h \in Handlers |-> NoCarrier]
    /\ buffered = [h \in Handlers |-> 0]
    /\ request = [h \in Handlers |-> NoMessage]
    /\ reply = [h \in Handlers |-> NoReply]
    /\ executed = [h \in Handlers |-> FALSE]
    /\ late = [h \in Handlers |-> FALSE]
    /\ renewed = [h \in Handlers |-> FALSE]
    /\ outstanding = 0
    /\ lifespan = "serving"
    /\ overdue = FALSE
    /\ seen = EmptyCache
    /\ now = 0

Active == {h \in Handlers : pc[h] \notin {"idle", "done"}}

\* The handler's task runs on to the end of the endpoint with this reply.
Reply(h, r) ==
    /\ pc' = [pc EXCEPT ![h] = "replying"]
    /\ reply' = [reply EXCEPT ![h] = r]

-----------------------------------------------------------------------------
(* track_outstanding_requests and relay up to the end of the carrier body *)

\* The middleware counts the request before anything is known about it.
Arrive(h, c) ==
    /\ pc[h] = "idle"
    /\ pc' = [pc EXCEPT ![h] = "entered"]
    /\ carrier' = [carrier EXCEPT ![h] = c]
    /\ late' = [late EXCEPT ![h] = (lifespan = "stopped")]
    /\ outstanding' = outstanding + 1
    /\ UNCHANGED <<buffered, request, reply, executed, renewed, lifespan, overdue, cacheVars>>

\* Mutant: any bearer token will do.
AuthorizedAny(c) == TRUE
Authorized(c) == c.token = Token

\* The route, authenticate and the content-type check; none awaits anything.  Another
\* path or method than POST /relay is answered by the framework, and so is the
\* TypeError compare_digest raises for text outside ASCII.
Admit(h) ==
    /\ pc[h] = "entered"
    /\ IF ~carrier[h].route THEN Reply(h, Status(404))
       ELSE IF carrier[h].token \in NonAscii THEN Reply(h, Status(500))
       ELSE IF ~Authorized(carrier[h]) THEN Reply(h, Status(401))
       ELSE IF ~carrier[h].media THEN Reply(h, Status(415))
       ELSE pc' = [pc EXCEPT ![h] = "reading"] /\ UNCHANGED reply
    /\ UNCHANGED <<carrier, buffered, request, executed, late, renewed, appVars, cacheVars>>

\* Mutant: each chunk is measured on its own.
FitsAlone(k, have) == k <= Limits.ciphertext
Fits(k, have) == k <= Limits.ciphertext - have

\* read_limited_body refuses the chunk that would pass the limit before it keeps it.
ReadChunk(h) ==
    /\ pc[h] = "reading"
    /\ \E k \in 1 .. (carrier[h].packet.size - buffered[h]) :
          IF Fits(k, buffered[h])
          THEN buffered' = [buffered EXCEPT ![h] = @ + k] /\ UNCHANGED <<pc, reply>>
          ELSE Reply(h, Status(413)) /\ UNCHANGED buffered
    /\ UNCHANGED <<carrier, request, executed, late, renewed, appVars, cacheVars>>

\* The peer goes away before its body is complete: request.stream() raises
\* outside the endpoint's try, and the middleware's finally still runs.
Disconnect(h) ==
    /\ pc[h] = "reading"
    /\ Reply(h, NoReply)
    /\ UNCHANGED <<carrier, buffered, request, executed, late, renewed, appVars, cacheVars>>

-----------------------------------------------------------------------------
(* From the end of the body to the start of the upstream call: no await *)

\* Mutant: the exception's own name goes to the peer.
ErrorCodeUnmapped(exc) == exc
\* _error_from_exception
ErrorCode(exc) ==
    CASE exc = "ReplayDetectedError"   -> "replay_detected"
      [] exc = "PacketExpiredError"    -> "packet_expired"
      [] exc = "PacketFromFutureError" -> "packet_from_future"
      [] exc = "ReplayCacheFullError"  -> "replay_cache_full"
      [] exc = "RequestTooLargeError"  -> "request_too_large"
      [] exc = "ResponseTooLargeError" -> "response_too_large"
      [] OTHER                         -> "invalid_packet"

\* Mutant: any message that decodes is forwarded.
ForwardableAny(d) == d.exc = "ok"
Forwardable(d) == d.exc = "ok" /\ d.msg.type = "request"

\* What a packet that is not forwarded is answered with; a message that is no
\* request raises ValueError.
Refusal(d) == RelayError(NoId, IF d.exc = "ok" THEN "invalid_packet" ELSE ErrorCode(d.exc))

Dispatch(h) ==
    LET p == carrier[h].packet
        d == Decode(p, Key, seen, now, Limits)
    IN  /\ pc[h] = "reading"
        /\ buffered[h] = p.size
        /\ seen' = d.seen
        /\ IF Forwardable(d)
           THEN /\ request' = [request EXCEPT ![h] = d.msg]
                /\ pc' = [pc EXCEPT ![h] = "connecting"]
                /\ buffered' = [buffered EXCEPT ![h] = 0]
                /\ UNCHANGED reply
           ELSE /\ Reply(h, Sealed(Refusal(d)))
                /\ UNCHANGED <<request, buffered>>
        /\ UNCHANGED <<carrier, executed, late, renewed, appVars, now>>

-----------------------------------------------------------------------------
(* Forwarder.forward; the upstream and httpx are external *)

ClientOpen == lifespan # "stopped"

UpstreamUnchanged == UNCHANGED <<carrier, request, late, renewed, appVars, cacheVars>>

\* Mutant: the error does not say which request it is about.
FailureWithoutId(h, code) == RelayError(NoId, code)
Failure(h, code) == RelayError(request[h].id, code)

\* Mutant: a call whose client was closed never returns.
FailWhileOpen(h, code) ==
    /\ ClientOpen
    /\ Reply(h, Sealed(Failure(h, code)))
    /\ UNCHANGED <<buffered, executed>>
    /\ UpstreamUnchanged
\* forward returns or raises without a response.
Fail(h, code) ==
    /\ Reply(h, Sealed(Failure(h, code)))
    /\ UNCHANGED <<buffered, executed>>
    /\ UpstreamUnchanged

\* The request reaches the upstream, which carries it out.
Execute(h) ==
    /\ pc[h] = "connecting"
    /\ ClientOpen
    /\ pc' = [pc EXCEPT ![h] = "awaiting"]
    /\ executed' = [executed EXCEPT ![h] = TRUE]
    /\ UNCHANGED <<buffered, reply>>
    /\ UpstreamUnchanged

Head(h) ==
    /\ pc[h] = "awaiting"
    /\ ClientOpen
    /\ pc' = [pc EXCEPT ![h] = "streaming"]
    /\ UNCHANGED <<buffered, reply, executed>>
    /\ UpstreamUnchanged

OverLimit(size) == size > Limits.response

\* A decoded chunk is kept first, however long it is, and measured afterwards.
Chunk(h) ==
    /\ pc[h] = "streaming"
    /\ ClientOpen
    /\ \E k \in Chunks :
          /\ buffered' = [buffered EXCEPT ![h] = @ + k]
          /\ IF OverLimit(buffered[h] + k)
             THEN Reply(h, Sealed(Failure(h, "response_too_large")))
             ELSE UNCHANGED <<pc, reply>>
    /\ UNCHANGED executed
    /\ UpstreamUnchanged

\* The upstream sends what is no part of the answer, a 1xx response or data that decodes
\* to nothing: the timeout of httpx, which bounds one read, starts anew.
Renew(h) ==
    /\ pc[h] \in {"awaiting", "streaming"}
    /\ ClientOpen
    /\ renewed' = [renewed EXCEPT ![h] = ~@]
    /\ UNCHANGED <<pc, carrier, buffered, request, reply, executed, late, appVars, cacheVars>>

\* The response is complete.
End(h) ==
    /\ pc[h] = "streaming"
    /\ ClientOpen
    /\ Reply(h, Sealed(RelayResponse(request[h].id, buffered[h])))
    /\ UNCHANGED <<buffered, executed>>
    /\ UpstreamUnchanged

InUpstream(h) == pc[h] \in {"connecting", "awaiting", "streaming"}

\* Mutant: every transport error is reported as a failed connection.
ConnectFailsLate(h) == InUpstream(h) /\ Fail(h, "upstream_connection_failed")
\* httpx.TimeoutException, httpx.ConnectError, any other httpx.HTTPError.
Timeout(h) == InUpstream(h) /\ Fail(h, "upstream_timeout")
ConnectFails(h) == pc[h] = "connecting" /\ Fail(h, "upstream_connection_failed")
Breaks(h) == InUpstream(h) /\ Fail(h, "upstream_protocol_error")

\* Exceptions forward does not catch: an unusable URL, a header value outside ASCII or a
\* closed client when the request is built, a response RelayResponse refuses,
\* connections closed under a running call.
Escapes(h) ==
    /\ \/ pc[h] \in {"connecting", "streaming"}
       \/ pc[h] = "awaiting" /\ ~ClientOpen
    /\ Fail(h, ErrorCode("other"))

Upstream(h) ==
    \/ Execute(h) \/ Head(h) \/ Chunk(h) \/ Renew(h) \/ End(h)
    \/ Timeout(h) \/ ConnectFails(h) \/ Breaks(h) \/ Escapes(h)

-----------------------------------------------------------------------------
(* The middleware's finally, and the lifespan *)

\* Mutant: only a request that got an answer is counted down.
CountedDownIfAnswered(h) == IF reply[h] = NoReply THEN outstanding ELSE outstanding - 1
CountedDown(h) == outstanding - 1

Finish(h) ==
    /\ pc[h] = "replying"
    /\ pc' = [pc EXCEPT ![h] = "done"]
    /\ outstanding' = CountedDown(h)
    /\ UNCHANGED <<carrier, buffered, request, reply, executed, late, renewed>>
    /\ UNCHANGED <<lifespan, overdue, cacheVars>>

\* The host ends the lifespan: shutting_down is set, the drain begins.  uvicorn, which
\* cli.py 48 starts without a graceful-shutdown timeout, first stops listening and waits
\* for the running requests, for ever if one of their peers never finishes; another host
\* of the application may not wait.  So this step need not come, and when it comes
\* requests may run and still arrive.
BeginShutdown ==
    /\ lifespan = "serving"
    /\ lifespan' = "draining"
    /\ UNCHANGED <<handlerVars, outstanding, overdue, cacheVars>>

DeadlinePasses ==
    /\ lifespan = "draining"
    /\ ~overdue
    /\ overdue' = TRUE
    /\ UNCHANGED <<handlerVars, outstanding, lifespan, cacheVars>>

\* Mutants: the drain does not look at the counter; it has no deadline.
DrainedAtOnce == TRUE
DrainedWhenEmpty == outstanding = 0
\* The condition on which the loop of _wait_for_outstanding ends.
Drained == ~(outstanding > 0 /\ ~overdue)

\* The loop ends and client.aclose() follows without an await between them.
CloseClient ==
    /\ lifespan = "draining"
    /\ Drained
    /\ lifespan' = "stopped"
    /\ UNCHANGED <<handlerVars, outstanding, overdue, cacheVars>>

Tick ==
    /\ now < MaxTime
    /\ now' = now + 1
    /\ UNCHANGED <<handlerVars, appVars, seen>>

-----------------------------------------------------------------------------
Handle(h) == Admit(h) \/ Dispatch(h) \/ Finish(h)

Next ==
    \/ \E h \in Handlers :
          \/ \E c \in Carriers : Arrive(h, c)
          \/ Handle(h) \/ ReadChunk(h) \/ Disconnect(h) \/ Upstream(h)
    \/ BeginShutdown \/ DeadlinePasses \/ CloseClient \/ Tick

Spec == Init /\ [][Next]_vars

\* The event loop runs every task that can run.  Each wait on the upstream ends: httpx
\* bounds one connect, write and read by timeout_seconds, and closing the client ends
\* them; what follows may be another wait (Renew), and nothing bounds their number.
\* Nothing bounds the wait for the carrier's body either, so ReadChunk is not fair.  The
\* drain loop polls a clock.
Fairness ==
    /\ \A h \in Handlers : WF_vars(Handle(h)) /\ WF_vars(Upstream(h))
    /\ WF_vars(DeadlinePasses) /\ WF_vars(CloseClient)

FairSpec == Spec /\ Fairness

-----------------------------------------------------------------------------
Messages == {NoMessage} \cup {c.packet.ct.plain.raw.msg : c \in Carriers}
\* _ERROR_CODES, the codes RelayError admits.
Codes == {"bad_request", "unauthorized", "invalid_packet", "decrypt_failed",
          "replay_detected", "packet_expired", "packet_from_future", "replay_cache_full",
          "unsupported_version", "unsupported_method", "unsupported_transfer_encoding",
          "request_too_large", "response_too_large", "upstream_timeout",
          "upstream_connection_failed", "upstream_protocol_error", "compression_failed",
          "decompression_failed", "internal_error"}
Ids == {NoId} \cup {m.id : m \in Messages \ {NoMessage}}

\* A sealed reply is never taken for its absence.
ASSUME RepliesAssumption ==
    \A id \in Ids :
        /\ \A code \in Codes : RelayError(id, code) # NoMessage
        /\ \A n \in 0 .. Limits.response : RelayResponse(id, n) # NoMessage

TypeOK ==
    /\ pc \in [Handlers -> {"idle", "entered", "reading", "connecting", "awaiting",
                            "streaming", "replying", "done"}]
    /\ carrier \in [Handlers -> Carriers \cup {NoCarrier}]
    /\ request \in [Handlers -> Messages]
    /\ \A h \in Handlers :
          \/ reply[h].msg = NoMessage /\ reply[h].http \in {0, 401, 404, 413, 415, 500}
          \/ /\ reply[h].http = 200
             /\ \/ \E id \in Ids, code \in Codes : reply[h].msg = RelayError(id, code)
                \/ \E id \in Ids, n \in 0 .. Limits.response :
                      reply[h].msg = RelayResponse(id, n)
    /\ buffered \in [Handlers -> Nat]
    /\ outstanding \in Nat
    /\ lifespan \in {"serving", "draining", "stopped"}

Nonce(h) == carrier[h].packet.aad.nonce
Forwarded(h) == request[h] # NoMessage
Ended(h) == pc[h] \in {"replying", "done"}

\* The drain counter is exact: it counts every request that has entered and not
\* left, whichever way it leaves, a disconnected peer included (app.py 57-65).
CounterExact == outstanding = Cardinality(Active)

\* However many tasks run and whichever of them reads its body first, one packet is
\* forwarded at most once (endpoint.py 116-129: the nonce is stored before the
\* first await that follows).
ForwardedOnce ==
    \A g, h \in Handlers :
        (g # h /\ Forwarded(g) /\ Forwarded(h)) => Nonce(g) # Nonce(h)

\* Only a request that was sealed under the server's key, came with its token and is
\* within the body limit reaches the upstream, and as it was sealed.
OnlyAdmitted ==
    \A h \in Handlers : Forwarded(h) =>
        LET p == carrier[h].packet
        IN  /\ carrier[h].route /\ carrier[h].token = Token /\ carrier[h].media
            /\ p.ct.key = Key /\ p.ct.aad = p.aad
            /\ request[h] = p.ct.plain.raw.msg
            /\ request[h].type = "request"
            /\ request[h].body <= Limits.request

\* Carriers without the token or the media type leave no trace in the replay cache:
\* each entry belongs to a packet that an authorised handler has read to its end.
CacheFedByAuthorized ==
    \A n \in DOMAIN seen :
        \E h \in Handlers :
            /\ pc[h] \notin {"idle", "entered", "reading"}
            /\ carrier[h].token = Token /\ carrier[h].media
            /\ Nonce(h) = n

\* A sealed reply is about the request it answers: it carries the id of the decoded
\* request, and None only when no request was decoded (endpoint.py 115-152).
ReplyIsAboutRequest ==
    \A h \in Handlers :
        (Ended(h) /\ reply[h].msg # NoMessage) =>
            reply[h].msg.id = IF Forwarded(h) THEN request[h].id ELSE NoId

\* The codes that say that the upstream has not seen the request, with any id.
Refusals == {"replay_detected", "packet_expired", "packet_from_future", "replay_cache_full",
             "request_too_large", "upstream_connection_failed"}

\* What a client may conclude from a reply about the upstream.  An HTTP status, an error
\* about no request (invalid_packet among them) and the codes above mean that it has not
\* carried the request out; a response, and response_too_large about a request, that it
\* has.  The other errors about a request leave it open: upstream_timeout,
\* upstream_protocol_error, and also invalid_packet, which endpoint.py 69-71 seals for
\* whatever else forward raises, before the upstream was reached or after it answered,
\* although its text names the packet.
OutcomeIsTrue ==
    \A h \in Handlers : Ended(h) =>
        LET m == reply[h].msg
        IN  IF m = NoMessage THEN ~executed[h]
            ELSE IF m.type = "response" THEN executed[h]
            ELSE /\ (m.id = NoId \/ m.info \in Refusals) => ~executed[h]
                 /\ (m.id # NoId /\ m.info = "response_too_large") => executed[h]

\* The upstream client is never closed under a request that arrived before, unless
\* the drain deadline passed (app.py 46-49).
NotCutShort ==
    lifespan = "stopped" => \A h \in Active : late[h] \/ overdue

\* How far the buffers grow, however the bytes are cut into chunks.  The carrier body
\* never passes its limit (endpoint.py 38-44).  The upstream body is within its limit as
\* long as more of it is read, and passes it by no more than the one decoded chunk that
\* reveals it: nothing in forwarder.py 34-42 bounds how long that chunk is.
BuffersBounded ==
    \A h \in Handlers :
        IF ~Forwarded(h) THEN buffered[h] <= Limits.ciphertext
        ELSE \/ buffered[h] <= Limits.response
             \/ ~InUpstream(h) /\ \E k \in Chunks : buffered[h] <= Limits.response + k

\* Every request that was forwarded is answered, the server's shutdown included, whether
\* the upstream refuses, stalls, breaks off or sends too much; unless it makes httpx wait
\* anew for ever, which nothing in forwarder.py bounds.
ForwardedIsAnswered ==
    \A h \in Handlers :
        <>[][~Renew(h)]_vars => ((pc[h] = "connecting") ~> (pc[h] = "done"))

\* A drain that has begun ends, even when a peer never finishes its body or an upstream
\* its answer (app.py 18-24, 46-49).  Whether the host begins it is not the application's.
ShutdownCompletes == (lifespan = "draining") ~> (lifespan # "draining")
=============================================================================
