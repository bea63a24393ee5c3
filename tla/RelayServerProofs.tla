------------------------- MODULE RelayServerProofs -------------------------
(***************************************************************************)
(* Proofs about RelayServer, for every set of handlers and carrier          *)
(* requests, every limit, window, skew and capacity.                        *)
(***************************************************************************)
EXTENDS RelayServer, PacketsProofs

-----------------------------------------------------------------------------
(* One task: what holds of a handler wherever it is *)

Places == {"idle", "entered", "reading", "connecting", "awaiting", "streaming",
           "replying", "done"}

Fields ==
    /\ pc \in [Handlers -> Places]
    /\ buffered \in [Handlers -> Nat]
    /\ executed \in [Handlers -> BOOLEAN]
    /\ DOMAIN carrier = Handlers
    /\ DOMAIN request = Handlers
    /\ DOMAIN reply = Handlers
    /\ DOMAIN late = Handlers

\* What a packet has passed when its request is forwarded.
Sound(h) ==
    LET p == carrier[h].packet
    IN  /\ carrier[h].route /\ carrier[h].token = Token /\ carrier[h].media
        /\ p.ct.key = Key /\ p.ct.aad = p.aad
        /\ request[h] = p.ct.plain.raw.msg
        /\ request[h].type = "request"
        /\ request[h].body <= Limits.request

\* The ways a call fails, with their codes; those that say whether the upstream has
\* carried the request out are kept apart.
FailureCodes == {"upstream_timeout", "upstream_protocol_error", "invalid_packet"}

\* The four kinds of reply.
NotDecoded(h) ==
    /\ reply[h].http \in {0, 401, 404, 413, 415, 500}
    /\ reply[h].msg = NoMessage
    /\ ~Forwarded(h) /\ ~executed[h]
Refused(h) ==
    /\ \E code \in Codes : reply[h] = Sealed(RelayError(NoId, code))
    /\ ~Forwarded(h) /\ ~executed[h]
FailedUpstream(h) ==
    /\ Forwarded(h)
    /\ \/ \E code \in FailureCodes : reply[h] = Sealed(Failure(h, code))
       \/ reply[h] = Sealed(Failure(h, "upstream_connection_failed")) /\ ~executed[h]
       \/ reply[h] = Sealed(Failure(h, "response_too_large")) /\ executed[h]
Relayed(h) ==
    /\ Forwarded(h) /\ executed[h]
    /\ \E n \in 0 .. Limits.response : reply[h] = Sealed(RelayResponse(request[h].id, n))

\* A packet the model can judge.
Typed(p) ==
    /\ p.size \in Nat /\ p.aad.ts \in Int
    /\ p.ct.plain.raw.msg # NoMessage /\ p.ct.plain.raw.msg.body \in Nat

Phase(h) ==
    /\ pc[h] # "idle" => Typed(carrier[h].packet)
    /\ pc[h] \in {"idle", "entered"} => buffered[h] = 0
    /\ pc[h] \in {"idle", "entered", "reading"} => ~Forwarded(h) /\ ~executed[h]
    /\ pc[h] = "reading" =>
          carrier[h].route /\ carrier[h].token = Token /\ carrier[h].media
    /\ InUpstream(h) => Forwarded(h)
    /\ pc[h] = "connecting" => ~executed[h]
    /\ pc[h] \in {"awaiting", "streaming"} => executed[h]
    /\ pc[h] \in {"connecting", "awaiting"} => buffered[h] = 0
    /\ pc[h] = "streaming" => buffered[h] <= Limits.response
    /\ ~Forwarded(h) => buffered[h] <= Limits.ciphertext
    /\ \/ ~Forwarded(h) \/ buffered[h] <= Limits.response
       \/ ~InUpstream(h) /\ \E k \in Chunks : buffered[h] <= Limits.response + k
    /\ Forwarded(h) => Sound(h)
    /\ IF Ended(h)
       THEN NotDecoded(h) \/ Refused(h) \/ FailedUpstream(h) \/ Relayed(h)
       ELSE reply[h] = NoReply

\* Nothing of this handler changes.
Same(h) ==
    /\ pc'[h] = pc[h] /\ carrier'[h] = carrier[h] /\ buffered'[h] = buffered[h]
    /\ request'[h] = request[h] /\ reply'[h] = reply[h] /\ executed'[h] = executed[h]
    /\ late'[h] = late[h]

LEMMA SamePhase ==
    ASSUME NEW h \in Handlers, Phase(h), Same(h)
    PROVE  Phase(h)'
  <1> USE DEF Same, Forwarded
  <1>1. Sound(h) => Sound(h)'
    BY DEF Sound
  <1>2. NotDecoded(h) => NotDecoded(h)'
    BY DEF NotDecoded
  <1>3. Refused(h) => Refused(h)'
    BY DEF Refused
  <1>4. FailedUpstream(h) => FailedUpstream(h)'
    BY DEF FailedUpstream, Failure
  <1>5. Relayed(h) => Relayed(h)'
    BY DEF Relayed
  <1> QED BY <1>1, <1>2, <1>3, <1>4, <1>5 DEF Phase, Ended, InUpstream

\* A step of one task leaves the fields of the others alone.
Alone(h) == Fields' /\ Phase(h)' /\ \A g \in Handlers \ {h} : Same(g)

LEMMA ArrivePhase ==
    ASSUME NEW h \in Handlers, NEW c, Fields, Phase(h), Arrive(h, c),
           Typed(c.packet)
    PROVE  Alone(h)
  <1> USE DEF Arrive, Fields, Places
  <1>1. Fields'
    OBVIOUS
  <1>2. \A g \in Handlers \ {h} : Same(g)
    BY DEF Same
  <1>3. Phase(h)'
    BY DEF Phase, Forwarded, Ended, InUpstream, Sound
  <1> QED BY <1>1, <1>2, <1>3 DEF Alone

LEMMA AdmitPhase ==
    ASSUME NEW h \in Handlers, Fields, Phase(h), Admit(h)
    PROVE  Alone(h)
  <1> USE DEF Admit, Reply, Fields, Places
  <1>1. Fields'
    OBVIOUS
  <1>2. \A g \in Handlers \ {h} : Same(g)
    BY DEF Same
  <1>3. Phase(h)'
    BY LimitsAssumption
       DEF Phase, Forwarded, Ended, InUpstream, Sound, NotDecoded, Status, NoReply, Authorized
  <1> QED BY <1>1, <1>2, <1>3 DEF Alone

LEMMA ReadPhase ==
    ASSUME NEW h \in Handlers, Fields, Phase(h), ReadChunk(h) \/ Disconnect(h)
    PROVE  Alone(h)
  <1> USE DEF ReadChunk, Disconnect, Reply, Fields, Places
  <1>1. Fields'
    BY DEF Phase, Typed
  <1>2. \A g \in Handlers \ {h} : Same(g)
    BY DEF Same
  <1>3. Phase(h)'
    BY LimitsAssumption
       DEF Phase, Typed, Forwarded, Ended, InUpstream, Sound, NotDecoded, Status, NoReply, Fits
  <1> QED BY <1>1, <1>2, <1>3 DEF Alone

\* The codes a refusal can have are codes RelayError admits.
LEMMA RefusalCode ==
    ASSUME NEW d
    PROVE  \E code \in Codes : Refusal(d) = RelayError(NoId, code)
  BY DEF Refusal, ErrorCode, Codes

LEMMA DispatchPhase ==
    ASSUME NEW h \in Handlers, Fields, Phase(h), Dispatch(h)
    PROVE  Alone(h)
  <1> DEFINE p == carrier[h].packet
             d == Decode(p, Key, seen, now, Limits)
  <1>1. /\ pc[h] = "reading" /\ Typed(p)
        /\ UNCHANGED <<carrier, executed, late>>
        /\ carrier[h].route /\ carrier[h].token = Token /\ carrier[h].media
        /\ ~Forwarded(h) /\ ~executed[h]
        /\ buffered[h] <= Limits.ciphertext /\ buffered[h] \in Nat
    BY DEF Dispatch, Phase, Fields
  <1>2. CASE Forwardable(d)
    <2>1. /\ request' = [request EXCEPT ![h] = d.msg]
          /\ pc' = [pc EXCEPT ![h] = "connecting"]
          /\ buffered' = [buffered EXCEPT ![h] = 0]
          /\ reply' = reply
      BY <1>2 DEF Dispatch
    <2>2. /\ Authentic(p, Key) /\ d.msg = p.ct.plain.raw.msg
          /\ d.msg.type = "request" /\ ~TooLarge(d.msg, Limits)
      BY <1>2, DecodeOk DEF Forwardable
    <2> HIDE DEF d
    <2>3. Fields'
      BY <1>1, <2>1 DEF Fields, Places
    <2>4. \A g \in Handlers \ {h} : Same(g)
      BY <1>1, <2>1 DEF Same, Fields
    <2>5. Forwarded(h)' /\ Sound(h)'
      BY <1>1, <2>1, <2>2, LimitsAssumption
         DEF Forwarded, Sound, Typed, TooLarge, Authentic, Fields
    <2>6. Phase(h)'
      BY <1>1, <2>1, <2>5, LimitsAssumption DEF Phase, Ended, InUpstream, Fields
    <2> QED BY <2>3, <2>4, <2>6 DEF Alone
  <1>3. CASE ~Forwardable(d)
    <2>1. /\ request' = request /\ buffered' = buffered
          /\ pc' = [pc EXCEPT ![h] = "replying"]
          /\ reply' = [reply EXCEPT ![h] = Sealed(Refusal(d))]
      BY <1>3 DEF Dispatch, Reply
    <2>2. PICK code \in Codes : Refusal(d) = RelayError(NoId, code)
      BY RefusalCode
    <2> HIDE DEF d
    <2>3. Fields'
      BY <1>1, <2>1 DEF Fields, Places
    <2>4. \A g \in Handlers \ {h} : Same(g)
      BY <1>1, <2>1 DEF Same, Fields
    <2>5. Refused(h)' /\ ~Forwarded(h)'
      BY <1>1, <2>1, <2>2 DEF Refused, Forwarded, Fields
    <2>6. Phase(h)'
      BY <1>1, <2>1, <2>5 DEF Phase, Ended, InUpstream, Fields
    <2> QED BY <2>3, <2>4, <2>6 DEF Alone
  <1> QED BY <1>2, <1>3

\* A call that fails is answered with one of the codes of forward.
LEMMA FailPhase ==
    ASSUME NEW h \in Handlers, Fields, Phase(h), InUpstream(h), NEW code, Fail(h, code),
           code \in FailureCodes \/ (code = "upstream_connection_failed" /\ pc[h] = "connecting")
    PROVE  Alone(h)
  <1>1. /\ pc' = [pc EXCEPT ![h] = "replying"]
        /\ reply' = [reply EXCEPT ![h] = Sealed(Failure(h, code))]
        /\ UNCHANGED <<buffered, executed, carrier, request, late>>
    BY DEF Fail, Reply, UpstreamUnchanged
  <1>2. Fields' /\ \A g \in Handlers \ {h} : Same(g)
    BY <1>1 DEF Fields, Same, Places
  <1>3. FailedUpstream(h)'
    BY <1>1 DEF FailedUpstream, Failure, Forwarded, InUpstream, Phase, Fields
  <1>4. Phase(h)'
    BY <1>1, <1>3 DEF Phase, Ended, InUpstream, Fields, Forwarded, Sound
  <1> QED BY <1>2, <1>4 DEF Alone

LEMMA UpstreamPhase ==
    ASSUME NEW h \in Handlers, Fields, Phase(h), Upstream(h)
    PROVE  Alone(h)
  <1>1. CASE Timeout(h) \/ ConnectFails(h) \/ Breaks(h)
    BY <1>1, FailPhase DEF Timeout, ConnectFails, Breaks, FailureCodes, InUpstream
  <1>2. CASE Escapes(h)
    BY <1>2, FailPhase DEF Escapes, FailureCodes, InUpstream, ErrorCode
  <1>3. CASE Execute(h) \/ Head(h)
    <2>1. Fields' /\ \A g \in Handlers \ {h} : Same(g)
      BY <1>3 DEF Execute, Head, UpstreamUnchanged, Fields, Same, Places
    <2>2. Phase(h)'
      BY <1>3, LimitsAssumption
         DEF Execute, Head, UpstreamUnchanged, Fields, Phase, Ended, InUpstream, Forwarded, Sound
    <2> QED BY <2>1, <2>2 DEF Alone
  <1>4. CASE Chunk(h)
    <2>1. PICK k \in Chunks :
              /\ buffered' = [buffered EXCEPT ![h] = @ + k]
              /\ IF OverLimit(buffered[h] + k)
                 THEN Reply(h, Sealed(Failure(h, "response_too_large")))
                 ELSE UNCHANGED <<pc, reply>>
      BY <1>4 DEF Chunk
    <2>2. /\ k \in Nat /\ pc[h] = "streaming" /\ executed[h] /\ Forwarded(h)
          /\ buffered[h] \in 0 .. Limits.response
          /\ UNCHANGED <<executed, carrier, request, late>>
      BY <1>4, ChunksAssumption, LimitsAssumption
         DEF Chunk, UpstreamUnchanged, Phase, InUpstream, Fields
    <2>3. Fields' /\ \A g \in Handlers \ {h} : Same(g)
      BY <2>1, <2>2 DEF Reply, Fields, Same, Places
    <2>4. CASE OverLimit(buffered[h] + k)
      <3>1. FailedUpstream(h)' /\ pc'[h] = "replying"
        BY <2>1, <2>2, <2>4 DEF Reply, Fields, Forwarded, FailedUpstream, Failure
      <3>2. buffered'[h] <= Limits.response + k /\ ~InUpstream(h)'
        BY <2>1, <2>2, <3>1, LimitsAssumption DEF Fields, InUpstream
      <3> QED BY <2>1, <2>2, <2>3, <3>1, <3>2
              DEF Alone, Phase, Ended, InUpstream, Forwarded, Sound
    <2>5. CASE ~OverLimit(buffered[h] + k)
      <3>1. buffered'[h] <= Limits.response /\ pc' = pc /\ reply' = reply
        BY <2>1, <2>2, <2>5, LimitsAssumption DEF Fields, OverLimit
      <3> QED BY <2>2, <2>3, <3>1 DEF Alone, Phase, Ended, InUpstream, Forwarded, Sound
    <2> QED BY <2>4, <2>5
  <1>5. CASE End(h)
    <2>1. Fields' /\ \A g \in Handlers \ {h} : Same(g)
      BY <1>5 DEF End, Reply, UpstreamUnchanged, Fields, Same, Places
    <2>2. buffered[h] \in 0 .. Limits.response
      BY <1>5, LimitsAssumption DEF End, Phase, Fields
    <2>3. Relayed(h)'
      BY <1>5, <2>2 DEF End, Reply, UpstreamUnchanged, Fields, Phase, InUpstream, Forwarded,
                        Relayed
    <2>4. Phase(h)'
      BY <1>5, <2>3
         DEF End, Reply, UpstreamUnchanged, Fields, Phase, Ended, InUpstream, Forwarded, Sound
    <2> QED BY <2>1, <2>4 DEF Alone
  <1>6. CASE Renew(h)
    <2>1. UNCHANGED <<pc, carrier, buffered, request, reply, executed, late>>
      BY <1>6 DEF Renew
    <2>2. Fields' /\ \A g \in Handlers : Same(g)
      BY <2>1 DEF Fields, Same
    <2> QED BY <2>2, SamePhase DEF Alone
  <1> QED BY <1>1, <1>2, <1>3, <1>4, <1>5, <1>6 DEF Upstream

LEMMA FinishPhase ==
    ASSUME NEW h \in Handlers, Fields, Phase(h), Finish(h)
    PROVE  Alone(h)
  <1>1. Fields' /\ \A g \in Handlers \ {h} : Same(g)
    BY DEF Finish, Fields, Same, Places
  <1>2. /\ pc[h] = "replying" /\ pc'[h] = "done"
        /\ UNCHANGED <<carrier, buffered, request, reply, executed>>
    BY DEF Finish, Fields
  <1>3. (NotDecoded(h) \/ Refused(h) \/ FailedUpstream(h) \/ Relayed(h))'
    BY <1>2 DEF Phase, Ended, NotDecoded, Refused, FailedUpstream, Relayed, Forwarded, Failure
  <1>4. Phase(h)'
    BY <1>2, <1>3 DEF Phase, Ended, InUpstream, Forwarded, Sound
  <1> QED BY <1>1, <1>4 DEF Alone

\* What one task does between its arrival and its end, and the end.
Work(h) == Admit(h) \/ ReadChunk(h) \/ Disconnect(h) \/ Dispatch(h) \/ Upstream(h)

LEMMA WorkPhase ==
    ASSUME NEW h \in Handlers, Fields, Phase(h), Work(h)
    PROVE  Alone(h)
  BY AdmitPhase, ReadPhase, DispatchPhase, UpstreamPhase DEF Work

-----------------------------------------------------------------------------
(* The replay cache of the server *)

\* A nonce and its timestamp are known: the cache holds them, or they are too old.
Known(n, ts) == (n \in DOMAIN seen /\ seen[n] = ts) \/ Expired(ts, now)

\* What is known stays known whatever a handler's packet does to the cache.
LEMMA DispatchKeeps ==
    ASSUME NEW h \in Handlers, Dispatch(h), NEW n, NEW ts, Known(n, ts)
    PROVE  Known(n, ts)'
  <1> DEFINE p == carrier[h].packet
             d == Decode(p, Key, seen, now, Limits)
             after == SeenAfter(seen, p.aad.nonce, p.aad.ts, now)
             live == {k \in DOMAIN seen : ~Expired(seen[k], now)}
  <1>1. seen' = d.seen /\ now' = now
    BY DEF Dispatch
  <1>2. d.seen = seen \/ d.seen = after
    BY DecodeSeen
  <1>3. /\ live \subseteq DOMAIN after
        /\ \A k \in DOMAIN after \ {p.aad.nonce} : after[k] = seen[k]
        /\ p.aad.nonce \in live => after[p.aad.nonce] = seen[p.aad.nonce]
    BY SeenAfterFacts
  <1> HIDE DEF d, after
  <1>4. CASE Expired(ts, now)
    BY <1>1, <1>4 DEF Known, Expired
  <1>5. CASE ~Expired(ts, now)
    <2>1. n \in live /\ seen[n] = ts
      BY <1>5 DEF Known
    <2>2. n \in DOMAIN after /\ after[n] = ts
      BY <1>3, <2>1
    <2> QED BY <1>1, <1>2, <2>1, <2>2 DEF Known
  <1> QED BY <1>4, <1>5

\* A packet is forwarded only when it was not known, and is known from then on.
LEMMA DispatchNew ==
    ASSUME NEW h \in Handlers, Fields, Phase(h), Dispatch(h), Forwarded(h)'
    PROVE  /\ ~Known(Nonce(h), carrier[h].packet.aad.ts)
           /\ Known(Nonce(h), carrier[h].packet.aad.ts)'
           /\ Authentic(carrier[h].packet, Key)
  <1> DEFINE p == carrier[h].packet
             d == Decode(p, Key, seen, now, Limits)
             after == SeenAfter(seen, p.aad.nonce, p.aad.ts, now)
             live == {k \in DOMAIN seen : ~Expired(seen[k], now)}
  <1>1. Forwardable(d)
    BY DEF Dispatch, Forwarded, Phase, Fields
  <1>2. /\ Authentic(p, Key) /\ d.seen = after
        /\ Verdict(seen, p.aad.nonce, p.aad.ts, now) = "ok"
    BY <1>1, DecodeOk DEF Forwardable
  <1>3. /\ p.aad.nonce \notin live
        /\ p.aad.nonce \in DOMAIN after /\ after[p.aad.nonce] = p.aad.ts
    BY <1>2, SeenAfterFacts
  <1>4. ~Expired(p.aad.ts, now)
    BY <1>2, VerdictOk
  <1>5. seen' = after /\ carrier' = carrier
    BY <1>2 DEF Dispatch
  <1> HIDE DEF d, after
  <1>6. ~Known(p.aad.nonce, p.aad.ts)
    BY <1>3, <1>4 DEF Known
  <1> QED BY <1>2, <1>3, <1>5, <1>6 DEF Known, Nonce

\* A packet adds at most its own nonce.
LEMMA DispatchDomain ==
    ASSUME NEW h \in Handlers, Dispatch(h)
    PROVE  DOMAIN seen' \subseteq DOMAIN seen \cup {Nonce(h)}
  <1> DEFINE p == carrier[h].packet
             d == Decode(p, Key, seen, now, Limits)
             after == SeenAfter(seen, p.aad.nonce, p.aad.ts, now)
             live == {k \in DOMAIN seen : ~Expired(seen[k], now)}
  <1>1. seen' = d.seen
    BY DEF Dispatch
  <1>2. d.seen = seen \/ d.seen = after
    BY DecodeSeen
  <1>3. DOMAIN after \subseteq live \cup {p.aad.nonce}
    BY SeenAfterFacts
  <1> HIDE DEF d, after
  <1> QED BY <1>1, <1>2, <1>3 DEF Nonce

\* Time only makes more of them too old.
LEMMA TickKeeps ==
    ASSUME Tick, now \in Int, NEW n, NEW ts \in Int, Known(n, ts)
    PROVE  Known(n, ts)'
  BY ReplayAssumption DEF Tick, Known, Expired

-----------------------------------------------------------------------------
(* The inductive invariant *)

Tasks == Fields /\ \A h \in Handlers : Phase(h)

Carried ==
    /\ carrier \in [Handlers -> Carriers \cup {NoCarrier}]
    /\ request \in [Handlers -> Messages]
    /\ \A h \in Handlers : pc[h] # "idle" => carrier[h] \in Carriers

\* A forwarded packet is forgotten only when it has left the window.
Remembered ==
    \A h \in Handlers : Forwarded(h) => Known(Nonce(h), carrier[h].packet.aad.ts)

Cache == now \in Int /\ Remembered /\ ForwardedOnce /\ CacheFedByAuthorized

Count ==
    /\ IsFiniteSet(Active) /\ CounterExact
    /\ lifespan \in {"serving", "draining", "stopped"} /\ overdue \in BOOLEAN
    /\ NotCutShort

ServerInv == Tasks /\ Carried /\ Cache /\ Count

LEMMA InitInv == Init => ServerInv
  <1> SUFFICES ASSUME Init PROVE ServerInv
    OBVIOUS
  <1> USE LimitsAssumption DEF Init
  <1>1. Tasks
    BY DEF Tasks, Fields, Places, Phase, Forwarded, Ended, InUpstream
  <1>2. Carried
    BY DEF Carried, Messages
  <1>3. Cache
    BY DEF Cache, Remembered, ForwardedOnce, CacheFedByAuthorized, Forwarded, EmptyCache
  <1>4. Active = {}
    BY DEF Active
  <1>5. Count
    BY <1>4, FS_EmptySet DEF Count, CounterExact, NotCutShort
  <1> QED BY <1>1, <1>2, <1>3, <1>5 DEF ServerInv

LEMMA AloneTasks ==
    ASSUME Tasks, NEW h \in Handlers, Alone(h)
    PROVE  Tasks'
  <1>1. ASSUME NEW g \in Handlers PROVE Phase(g)'
    BY <1>1, SamePhase DEF Alone, Tasks
  <1> QED BY <1>1 DEF Alone, Tasks

\* The drain counter follows the set of active handlers.
LEMMA CountKept ==
    ASSUME Count, Active' = Active, UNCHANGED <<outstanding, lifespan, overdue, late>>
    PROVE  Count'
  BY DEF Count, CounterExact, NotCutShort

\* A step that leaves the cache, the clock, and what was forwarded alone.
LEMMA CacheKept ==
    ASSUME Cache, UNCHANGED <<seen, now, request>>,
           \A h \in Handlers : pc[h] # "idle" =>
               /\ carrier'[h] = carrier[h]
               /\ pc[h] \notin {"entered", "reading"} =>
                      pc'[h] \notin {"idle", "entered", "reading"},
           \A h \in Handlers : pc[h] = "idle" => ~Forwarded(h)
    PROVE  Cache'
  <1>1. \A h \in Handlers : Forwarded(h)' = Forwarded(h) /\ (Forwarded(h) => Nonce(h)' = Nonce(h))
    BY DEF Forwarded, Nonce
  <1>2. Remembered'
    BY <1>1 DEF Cache, Remembered, Known, Forwarded
  <1>3. ForwardedOnce'
    BY <1>1 DEF Cache, ForwardedOnce
  <1>4. CacheFedByAuthorized'
    BY DEF Cache, CacheFedByAuthorized, Nonce
  <1> QED BY <1>2, <1>3, <1>4 DEF Cache

LEMMA ArriveInv ==
    ASSUME ServerInv, NEW h \in Handlers, NEW c \in Carriers, Arrive(h, c)
    PROVE  ServerInv'
  <1>1. Typed(c.packet)
    BY CarriersAssumption DEF Typed
  <1>2. Tasks'
    BY <1>1, ArrivePhase, AloneTasks DEF ServerInv, Tasks
  <1>3. Carried'
    BY DEF ServerInv, Carried, Arrive, Tasks, Fields
  <1>4. Cache'
    <2>1. \A g \in Handlers : pc[g] = "idle" => ~Forwarded(g)
      BY DEF ServerInv, Tasks, Phase
    <2> QED BY <2>1, CacheKept DEF ServerInv, Tasks, Fields, Arrive, cacheVars
  <1>5. Count'
    <2>1. h \notin Active /\ Active' = Active \cup {h}
      BY DEF Active, Arrive, ServerInv, Tasks, Fields
    <2>2. IsFiniteSet(Active') /\ Cardinality(Active') = Cardinality(Active) + 1
      BY <2>1, FS_AddElement DEF ServerInv, Count
    <2>3. /\ lifespan = "stopped" => late'[h]
          /\ \A g \in Active : late'[g] = late[g]
          /\ UNCHANGED <<lifespan, overdue>>
      BY <2>1 DEF Arrive, Active, ServerInv, Tasks, Fields
    <2>4. NotCutShort'
      BY <2>1, <2>3 DEF NotCutShort, ServerInv, Count
    <2> QED BY <2>2, <2>4 DEF Count, CounterExact, Arrive, ServerInv
  <1> QED BY <1>2, <1>3, <1>4, <1>5 DEF ServerInv

LEMMA WorkCount ==
    ASSUME ServerInv, NEW h \in Handlers, Work(h)
    PROVE  Count'
  <1>1. Active' = Active /\ UNCHANGED <<outstanding, lifespan, overdue, late>>
    BY DEF Work, Admit, ReadChunk, Disconnect, Dispatch, Upstream, Execute, Head, Chunk, Renew, End,
           Timeout, ConnectFails, Breaks, Escapes, Fail, UpstreamUnchanged, Reply, Active,
           InUpstream, appVars, ServerInv, Tasks, Fields
  <1> QED BY <1>1, CountKept DEF ServerInv

\* The steps of a task that leave the cache alone.
LEMMA WorkInv ==
    ASSUME ServerInv, NEW h \in Handlers,
           Admit(h) \/ ReadChunk(h) \/ Disconnect(h) \/ Upstream(h)
    PROVE  ServerInv'
  <1>1. Work(h)
    BY DEF Work
  <1>2. Tasks'
    BY <1>1, WorkPhase, AloneTasks DEF ServerInv, Tasks
  <1>3. /\ UNCHANGED <<carrier, request, seen, now>>
        /\ pc[h] # "idle"
        /\ \A g \in Handlers : g # h => pc'[g] = pc[g]
        /\ pc[h] \notin {"entered", "reading"} => pc'[h] \notin {"idle", "entered", "reading"}
    BY DEF Admit, ReadChunk, Disconnect, Upstream, Execute, Head, Chunk, Renew, End, Timeout,
           ConnectFails, Breaks, Escapes, Fail, UpstreamUnchanged, Reply, InUpstream, cacheVars,
           ServerInv, Tasks, Fields
  <1>4. Carried'
    BY <1>3 DEF ServerInv, Carried
  <1>5. Cache'
    <2>1. \A g \in Handlers : pc[g] = "idle" => ~Forwarded(g)
      BY DEF ServerInv, Tasks, Phase
    <2> QED BY <1>3, <2>1, CacheKept DEF ServerInv
  <1> QED BY <1>1, <1>2, <1>4, <1>5, WorkCount DEF ServerInv

LEMMA DispatchCache ==
    ASSUME ServerInv, NEW h \in Handlers, Dispatch(h), Tasks'
    PROVE  Cache'
  <1>1. /\ carrier' = carrier /\ now' = now /\ pc[h] = "reading"
        /\ pc'[h] \in {"connecting", "replying"}
        /\ \A g \in Handlers \ {h} : pc'[g] = pc[g] /\ request'[g] = request[g]
        /\ ~Forwarded(h)
    BY DEF Dispatch, Reply, ServerInv, Tasks, Fields, Phase
  <1>2. \A g \in Handlers \ {h} : Forwarded(g)' <=> Forwarded(g)
    BY <1>1 DEF Forwarded
  <1>3. Remembered'
    <2> SUFFICES ASSUME NEW g \in Handlers, Forwarded(g)'
                 PROVE  Known(Nonce(g), carrier[g].packet.aad.ts)'
      BY DEF Remembered
    <2>1. CASE g = h
      BY <2>1, DispatchNew DEF ServerInv, Tasks
    <2>2. CASE g # h
      <3>1. Known(Nonce(g), carrier[g].packet.aad.ts)
        BY <2>2, <1>2 DEF ServerInv, Cache, Remembered
      <3>2. \A n, ts : Known(n, ts) => Known(n, ts)'
        BY DispatchKeeps
      <3> QED BY <3>1, <3>2, <1>1 DEF Known, Nonce
    <2> QED BY <2>1, <2>2
  <1>4. ASSUME NEW g \in Handlers, g # h, Forwarded(g), Forwarded(h)'
        PROVE  Nonce(g) # Nonce(h)
    <2> SUFFICES ASSUME Nonce(g) = Nonce(h) PROVE FALSE
      OBVIOUS
    <2>1. Authentic(carrier[g].packet, Key)
      BY <1>4 DEF ServerInv, Tasks, Phase, Sound, Authentic
    <2>2. Authentic(carrier[h].packet, Key) /\ ~Known(Nonce(h), carrier[h].packet.aad.ts)
      BY <1>4, DispatchNew DEF ServerInv, Tasks
    <2>3. carrier[g] \in Carriers /\ carrier[h] \in Carriers
      BY <1>1, <1>4 DEF ServerInv, Carried, Tasks, Phase
    <2>4. carrier[g].packet.aad = carrier[h].packet.aad
      BY <2>1, <2>2, <2>3, FreshNonces DEF Nonce
    <2>5. Known(Nonce(g), carrier[g].packet.aad.ts)
      BY <1>4 DEF ServerInv, Cache, Remembered
    <2> QED BY <2>2, <2>4, <2>5
  <1>5. ForwardedOnce'
    BY <1>1, <1>2, <1>4 DEF ForwardedOnce, Nonce, ServerInv, Cache
  <1>6. CacheFedByAuthorized'
    <2> SUFFICES ASSUME NEW n \in DOMAIN seen'
                 PROVE  \E g \in Handlers :
                            /\ pc'[g] \notin {"idle", "entered", "reading"}
                            /\ carrier[g].token = Token /\ carrier[g].media
                            /\ Nonce(g) = n
      BY <1>1 DEF CacheFedByAuthorized, Nonce
    <2>1. CASE n \in DOMAIN seen
      BY <2>1, <1>1 DEF ServerInv, Cache, CacheFedByAuthorized
    <2>2. CASE n = Nonce(h)
      BY <2>2, <1>1 DEF ServerInv, Tasks, Phase
    <2> QED BY <2>1, <2>2, DispatchDomain
  <1>7. (now \in Int)'
    BY <1>1 DEF ServerInv, Cache
  <1> QED BY <1>3, <1>5, <1>6, <1>7 DEF Cache

LEMMA DispatchInv ==
    ASSUME ServerInv, NEW h \in Handlers, Dispatch(h)
    PROVE  ServerInv'
  <1>1. Work(h)
    BY DEF Work
  <1>2. Tasks'
    BY <1>1, WorkPhase, AloneTasks DEF ServerInv, Tasks
  <1>3. Carried'
    <2> DEFINE d == Decode(carrier[h].packet, Key, seen, now, Limits)
    <2>1. carrier' = carrier /\ pc[h] = "reading" /\ \A g \in Handlers \ {h} : pc'[g] = pc[g]
      BY DEF Dispatch, Reply, ServerInv, Tasks, Fields
    <2>2. request' = request \/ (Forwardable(d) /\ request' = [request EXCEPT ![h] = d.msg])
      BY DEF Dispatch
    <2>3. Forwardable(d) => d.msg \in Messages
      BY <2>1, DecodeOk DEF Forwardable, Messages, ServerInv, Carried
    <2> HIDE DEF d
    <2> QED BY <2>1, <2>2, <2>3 DEF ServerInv, Carried
  <1> QED BY <1>1, <1>2, <1>3, WorkCount, DispatchCache DEF ServerInv

LEMMA FinishInv ==
    ASSUME ServerInv, NEW h \in Handlers, Finish(h)
    PROVE  ServerInv'
  <1>1. Tasks'
    BY FinishPhase, AloneTasks DEF ServerInv, Tasks
  <1>2. /\ UNCHANGED <<carrier, request, late, seen, now, lifespan, overdue>>
        /\ pc' = [pc EXCEPT ![h] = "done"] /\ pc[h] = "replying"
        /\ outstanding' = outstanding - 1
        /\ DOMAIN pc = Handlers
    BY DEF Finish, CountedDown, cacheVars, ServerInv, Tasks, Fields
  <1>3. Carried'
    BY <1>2 DEF ServerInv, Carried
  <1>4. Cache'
    <2>1. \A g \in Handlers : pc[g] = "idle" => ~Forwarded(g)
      BY DEF ServerInv, Tasks, Phase
    <2> QED BY <1>2, <2>1, CacheKept DEF ServerInv
  <1>5. Count'
    <2>1. h \in Active /\ Active' = Active \ {h}
      BY <1>2 DEF Active
    <2>2. IsFiniteSet(Active') /\ Cardinality(Active') = Cardinality(Active) - 1
      BY <2>1, FS_RemoveElement DEF ServerInv, Count
    <2>3. NotCutShort'
      BY <1>2, <2>1 DEF NotCutShort, ServerInv, Count
    <2> QED BY <1>2, <2>2, <2>3 DEF Count, CounterExact, ServerInv
  <1> QED BY <1>1, <1>3, <1>4, <1>5 DEF ServerInv

LEMMA SameTasks ==
    ASSUME ServerInv, UNCHANGED handlerVars
    PROVE  Tasks' /\ Carried'
  <1>1. Fields' /\ \A h \in Handlers : Same(h)
    BY DEF handlerVars, Same, ServerInv, Tasks, Fields
  <1>2. \A h \in Handlers : Phase(h)'
    BY <1>1, SamePhase DEF ServerInv, Tasks
  <1>3. Carried'
    BY DEF handlerVars, ServerInv, Carried
  <1> QED BY <1>1, <1>2, <1>3 DEF Tasks

LEMMA AppInv ==
    ASSUME ServerInv, BeginShutdown \/ DeadlinePasses \/ CloseClient
    PROVE  ServerInv'
  <1>1. UNCHANGED <<handlerVars, outstanding, cacheVars>>
    BY DEF BeginShutdown, DeadlinePasses, CloseClient
  <1>2. Cache'
    <2>1. \A g \in Handlers : pc[g] = "idle" => ~Forwarded(g)
      BY DEF ServerInv, Tasks, Phase
    <2> QED BY <1>1, <2>1, CacheKept DEF ServerInv, handlerVars, cacheVars
  <1>3. Active' = Active
    BY <1>1 DEF handlerVars, Active
  <1>4. outstanding \in Nat /\ (outstanding = 0 => Active = {})
    BY FS_CardinalityType, FS_EmptySet DEF ServerInv, Count, CounterExact
  <1>5. NotCutShort'
    BY <1>1, <1>3, <1>4
       DEF BeginShutdown, DeadlinePasses, CloseClient, Drained, NotCutShort, handlerVars,
           ServerInv, Count
  <1>6. Count'
    BY <1>1, <1>3, <1>5
       DEF BeginShutdown, DeadlinePasses, CloseClient, ServerInv, Count, CounterExact
  <1> QED BY <1>1, <1>2, <1>6, SameTasks DEF ServerInv

LEMMA TickInv ==
    ASSUME ServerInv, Tick
    PROVE  ServerInv'
  <1>1. UNCHANGED <<handlerVars, appVars, seen>> /\ now' = now + 1
    BY DEF Tick
  <1>2. Tasks' /\ Carried'
    BY <1>1, SameTasks
  <1>3. Count'
    <2>1. Active' = Active
      BY <1>1 DEF handlerVars, Active
    <2> QED BY <1>1, <2>1, CountKept DEF appVars, handlerVars, ServerInv
  <1>4. \A h \in Handlers : Forwarded(h)' = Forwarded(h) /\ Nonce(h)' = Nonce(h)
    BY <1>1 DEF handlerVars, Forwarded, Nonce
  <1>5. Remembered'
    <2>1. ASSUME NEW h \in Handlers, Forwarded(h)
          PROVE  Known(Nonce(h), carrier[h].packet.aad.ts)'
      <3>1. carrier[h].packet.aad.ts \in Int
        BY <2>1 DEF ServerInv, Tasks, Phase, Typed
      <3>2. Known(Nonce(h), carrier[h].packet.aad.ts)
        BY <2>1 DEF ServerInv, Cache, Remembered
      <3>3. \A n : \A ts \in Int : Known(n, ts) => Known(n, ts)'
        BY TickKeeps DEF ServerInv, Cache
      <3> QED BY <1>1, <3>1, <3>2, <3>3 DEF Known, Nonce, handlerVars
    <2> QED BY <2>1, <1>4 DEF Remembered
  <1>6. Cache'
    BY <1>1, <1>4, <1>5
       DEF ServerInv, Cache, ForwardedOnce, CacheFedByAuthorized, handlerVars
  <1> QED BY <1>2, <1>3, <1>6 DEF ServerInv

LEMMA StepInv == ServerInv /\ [Next]_vars => ServerInv'
  <1> SUFFICES ASSUME ServerInv, [Next]_vars PROVE ServerInv'
    OBVIOUS
  <1>1. ASSUME NEW h \in Handlers, NEW c \in Carriers, Arrive(h, c) PROVE ServerInv'
    BY <1>1, ArriveInv
  <1>2. ASSUME NEW h \in Handlers, Handle(h) PROVE ServerInv'
    BY <1>2, WorkInv, DispatchInv, FinishInv DEF Handle
  <1>3. ASSUME NEW h \in Handlers, ReadChunk(h) \/ Disconnect(h) \/ Upstream(h) PROVE ServerInv'
    BY <1>3, WorkInv
  <1>4. CASE BeginShutdown \/ DeadlinePasses \/ CloseClient
    BY <1>4, AppInv
  <1>5. CASE Tick
    BY <1>5, TickInv
  <1>6. CASE UNCHANGED vars
    <2>1. UNCHANGED <<handlerVars, appVars, cacheVars>>
      BY <1>6 DEF vars
    <2>2. Tasks' /\ Carried'
      BY <2>1, SameTasks
    <2>3. Active' = Active
      BY <2>1 DEF handlerVars, Active
    <2>4. \A g \in Handlers : pc[g] = "idle" => ~Forwarded(g)
      BY DEF ServerInv, Tasks, Phase
    <2> QED BY <2>1, <2>2, <2>3, <2>4, CountKept, CacheKept
            DEF handlerVars, appVars, cacheVars, ServerInv
  <1> QED BY <1>1, <1>2, <1>3, <1>4, <1>5, <1>6 DEF Next

\* The invariant holds in every state of the server.
THEOREM ServerInductive == Spec => []ServerInv
  BY InitInv, StepInv, PTL DEF Spec

-----------------------------------------------------------------------------
(* What follows from it *)

\* A handler that has ended has given one of the four kinds of reply, and a sealed one
\* has a message.
LEMMA RepliesApart ==
    ASSUME ServerInv, NEW h \in Handlers
    PROVE  /\ Forwarded(h) => request[h].id \in Ids
           /\ FailedUpstream(h) \/ Refused(h) =>
                 \E id \in Ids, code \in Codes : reply[h] = Sealed(RelayError(id, code))
           /\ Refused(h) \/ FailedUpstream(h) \/ Relayed(h) => reply[h].msg # NoMessage
  <1>1. Forwarded(h) => request[h].id \in Ids
    BY DEF Forwarded, Ids, ServerInv, Carried
  <1>2. NoId \in Ids
    BY DEF Ids
  <1>3. FailureCodes \cup {"upstream_connection_failed", "response_too_large"} \subseteq Codes
    BY DEF FailureCodes, Codes
  <1>4. FailedUpstream(h) \/ Refused(h) =>
            \E id \in Ids, code \in Codes : reply[h] = Sealed(RelayError(id, code))
    BY <1>1, <1>2, <1>3 DEF FailedUpstream, Refused, Failure
  <1>5. ASSUME Refused(h) \/ FailedUpstream(h) PROVE reply[h].msg # NoMessage
    <2>1. PICK id \in Ids, code \in Codes : reply[h] = Sealed(RelayError(id, code))
      BY <1>4, <1>5
    <2>2. reply[h].msg = RelayError(id, code)
      BY <2>1 DEF Sealed
    <2> QED BY <2>2, RepliesAssumption
  <1>6. Relayed(h) => reply[h].msg # NoMessage
    BY <1>1, RepliesAssumption DEF Relayed, Sealed
  <1> QED BY <1>1, <1>4, <1>5, <1>6

\* Every state of the server is well typed; every reply is one of those the code can
\* build (endpoint.py 101-152, forwarder.py 50-70).
THEOREM ServerTypeOKThm == Spec => []TypeOK
  <1>1. ASSUME ServerInv, NEW h \in Handlers
        PROVE  \/ reply[h].msg = NoMessage /\ reply[h].http \in {0, 401, 404, 413, 415, 500}
               \/ /\ reply[h].http = 200
                  /\ \/ \E id \in Ids, code \in Codes : reply[h].msg = RelayError(id, code)
                     \/ \E id \in Ids, n \in 0 .. Limits.response :
                           reply[h].msg = RelayResponse(id, n)
    <2>1. CASE Refused(h) \/ FailedUpstream(h)
      <3>1. PICK id \in Ids, code \in Codes : reply[h] = Sealed(RelayError(id, code))
        BY <1>1, <2>1, RepliesApart
      <3>2. reply[h].http = 200 /\ reply[h].msg = RelayError(id, code)
        BY <3>1 DEF Sealed
      <3> QED BY <3>2
    <2>2. CASE Relayed(h)
      BY <1>1, <2>2, RepliesApart DEF Relayed, Sealed
    <2>3. CASE NotDecoded(h) \/ reply[h] = NoReply
      BY <2>3 DEF NotDecoded, NoReply
    <2> QED BY <1>1, <2>1, <2>2, <2>3 DEF ServerInv, Tasks, Phase
  <1>2. ServerInv => outstanding \in Nat
    BY FS_CardinalityType DEF ServerInv, Count, CounterExact
  <1>3. ServerInv => TypeOK
    BY <1>1, <1>2 DEF TypeOK, ServerInv, Tasks, Fields, Places, Carried, Count
  <1> QED BY <1>3, ServerInductive, PTL

\* The drain counter is exact, for any number of requests (app.py 57-65).
THEOREM CounterExactThm == Spec => []CounterExact
  <1>1. ServerInv => CounterExact
    BY DEF ServerInv, Count
  <1> QED BY <1>1, ServerInductive, PTL

\* No packet is forwarded twice, whatever the interleaving (endpoint.py 116-129).
THEOREM ForwardedOnceThm == Spec => []ForwardedOnce
  <1>1. ServerInv => ForwardedOnce
    BY DEF ServerInv, Cache
  <1> QED BY <1>1, ServerInductive, PTL

\* Only what was admitted, opened and measured reaches the upstream (endpoint.py
\* 101-129).
THEOREM OnlyAdmittedThm == Spec => []OnlyAdmitted
  <1>1. ServerInv => OnlyAdmitted
    BY DEF ServerInv, Tasks, Phase, Sound, OnlyAdmitted
  <1> QED BY <1>1, ServerInductive, PTL

\* Every entry of the replay cache was made for an authorised carrier (endpoint.py
\* 101-122).
THEOREM CacheFedByAuthorizedThm == Spec => []CacheFedByAuthorized
  <1>1. ServerInv => CacheFedByAuthorized
    BY DEF ServerInv, Cache
  <1> QED BY <1>1, ServerInductive, PTL

\* A sealed reply carries the id of the request it answers (endpoint.py 115-152).
THEOREM ReplyIsAboutRequestThm == Spec => []ReplyIsAboutRequest
  <1>1. ASSUME ServerInv, NEW h \in Handlers, Ended(h), reply[h].msg # NoMessage
        PROVE  reply[h].msg.id = IF Forwarded(h) THEN request[h].id ELSE NoId
    <2>1. Refused(h) \/ FailedUpstream(h) \/ Relayed(h)
      BY <1>1 DEF ServerInv, Tasks, Phase, NotDecoded
    <2>2. CASE Refused(h)
      BY <2>2 DEF Refused, Sealed, RelayError
    <2>3. CASE FailedUpstream(h)
      <3>1. PICK code : reply[h] = Sealed(Failure(h, code)) /\ Forwarded(h)
        BY <2>3 DEF FailedUpstream
      <3> QED BY <3>1 DEF Sealed, Failure, RelayError
    <2>4. CASE Relayed(h)
      BY <2>4 DEF Relayed, Sealed, RelayResponse
    <2> QED BY <2>1, <2>2, <2>3, <2>4
  <1>2. ServerInv => ReplyIsAboutRequest
    BY <1>1 DEF ReplyIsAboutRequest
  <1> QED BY <1>2, ServerInductive, PTL

\* What a client may conclude from a reply about the upstream is true: an HTTP status, an
\* error about no request and the codes in Refusals mean that the request was not carried
\* out, a response and response_too_large about a request that it was (endpoint.py
\* 129-152, forwarder.py 27-70).
THEOREM OutcomeIsTrueThm == Spec => []OutcomeIsTrue
  <1>1. ASSUME ServerInv, NEW h \in Handlers, Ended(h)
        PROVE  LET m == reply[h].msg
               IN  IF m = NoMessage THEN ~executed[h]
                   ELSE IF m.type = "response" THEN executed[h]
                   ELSE /\ (m.id = NoId \/ m.info \in Refusals) => ~executed[h]
                        /\ (m.id # NoId /\ m.info = "response_too_large") => executed[h]
    <2>1. NotDecoded(h) \/ Refused(h) \/ FailedUpstream(h) \/ Relayed(h)
      BY <1>1 DEF ServerInv, Tasks, Phase
    <2>2. CASE NotDecoded(h)
      BY <2>2 DEF NotDecoded
    <2>3. CASE Refused(h)
      BY <2>3, <1>1, RepliesApart DEF Refused, Sealed, RelayError
    <2>4. CASE FailedUpstream(h)
      <3>1. request[h].id # NoId
        <4>1. request[h] \in Messages \ {NoMessage} /\ request[h].type = "request"
          BY <1>1, <2>4 DEF FailedUpstream, Forwarded, ServerInv, Carried, Tasks, Phase, Sound
        <4> QED BY <4>1, CarriersAssumption DEF Messages
      <3>2. PICK code :
                /\ reply[h] = Sealed(Failure(h, code))
                /\ \/ code \in FailureCodes
                   \/ code = "upstream_connection_failed" /\ ~executed[h]
                   \/ code = "response_too_large" /\ executed[h]
        BY <2>4 DEF FailedUpstream
      <3>3. reply[h].msg.type = "error" /\ reply[h].msg.info = code /\ reply[h].msg.id # NoId
        BY <3>1, <3>2 DEF Sealed, Failure, RelayError
      <3>4. reply[h].msg # NoMessage
        BY <1>1, <2>4, RepliesApart
      <3> QED BY <3>2, <3>3, <3>4 DEF FailureCodes, Refusals
    <2>5. CASE Relayed(h)
      BY <2>5, <1>1, RepliesApart DEF Relayed, Sealed, RelayResponse
    <2> QED BY <2>1, <2>2, <2>3, <2>4, <2>5
  <1>2. ServerInv => OutcomeIsTrue
    BY <1>1 DEF OutcomeIsTrue
  <1> QED BY <1>2, ServerInductive, PTL

\* The client is never closed under a request that came before, unless the deadline
\* passed (app.py 38-49).
THEOREM NotCutShortThm == Spec => []NotCutShort
  <1>1. ServerInv => NotCutShort
    BY DEF ServerInv, Count
  <1> QED BY <1>1, ServerInductive, PTL

\* The carrier buffer stays within its limit, the upstream buffer passes its own by one
\* decoded chunk at the most, whatever the sizes of chunks, and is not read into after
\* that (endpoint.py 38-44, forwarder.py 34-42).
THEOREM BuffersBoundedThm == Spec => []BuffersBounded
  <1>1. ServerInv => BuffersBounded
    BY DEF ServerInv, Tasks, Phase, BuffersBounded
  <1> QED BY <1>1, ServerInductive, PTL
=============================================================================
