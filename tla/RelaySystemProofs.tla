------------------------- MODULE RelaySystemProofs -------------------------
(***************************************************************************)
(* Proofs about RelaySystem: the whole relay keeps its contract with the    *)
(* application, for any number of connections, server tasks and restarts.   *)
(***************************************************************************)
EXTENDS RelaySystem, RelayServerProofs

-----------------------------------------------------------------------------
(* The inductive invariant *)

\* The tasks of the server process that is running.
Live == Handlers \ past

Message(p) == p.ct.plain.raw.msg

\* What a server task may seal: an error, or a response to a request that was carried out.
Told(m) ==
    /\ m # NoMessage /\ m.body \in 0 .. Limits.response
    /\ \/ m.type = "error"
       \/ m.type = "response" /\ m.id \in Conns /\ ExecutedFor(m.id) # {}

\* The two kinds of packets, each under the name of the task that sealed it.
RequestPacket(p) ==
    LET k == p.aad.nonce
    IN  /\ k \in Conns /\ conn[k] # "idle" /\ p.aad.ts \in Int
        /\ p = Encode(RequestOf(k), Key, ClientOptions, p.aad.ts, k)
ReplyPacket(p) ==
    LET h == p.aad.nonce
    IN  /\ h \in Handlers /\ p.aad.ts \in Int /\ Told(Message(p))
        /\ p = Encode(Message(p), Key, ServerOptions, p.aad.ts, h)

Wire ==
    /\ \A p \in wire : RequestPacket(p) \/ ReplyPacket(p)
    /\ \A p, q \in wire : (p.aad.nonce = q.aad.nonce /\ p.aad.nonce \in Conns) => p = q

\* Every task, of an earlier process too, has what it works on from the wire.
TasksOnWire ==
    \A h \in Handlers :
        /\ pc[h] # "idle" => carrier[h].packet \in wire
        /\ executed[h] \/ Forwarded(h) => pc[h] # "idle"
        /\ Forwarded(h) =>
              request[h] = Message(carrier[h].packet) /\ request[h].type = "request"

\* The tasks of the present process, its cache, and what it forwarded.
LiveTasks ==
    /\ Fields /\ now \in Int
    /\ past \subseteq {h \in Handlers : pc[h] = "done"}
    /\ \A h \in Live : Phase(h)
    /\ \A h \in Live : Forwarded(h) => Known(Nonce(h), carrier[h].packet.aad.ts)
    /\ \A g, h \in Live : (g # h /\ Forwarded(g) /\ Forwarded(h)) => Nonce(g) # Nonce(h)

\* The proxy's connections and the client's cache.
Connections ==
    /\ conn \in [Conns -> {"idle", "waiting", "writing", "closed", "broken"}]
    /\ DOMAIN result = Conns
    /\ \A k \in Conns :
          /\ conn[k] \in {"idle", "waiting"} => result[k] = NoMessage
          /\ conn[k] \in {"writing", "closed"} => result[k] # NoMessage
          /\ result[k] # NoMessage =>
                \/ result[k].type = "error"
                \/ result[k].type = "response" /\ result[k].id = k /\ ExecutedFor(k) # {}
    /\ IsFiniteSet(DOMAIN clientSeen) /\ DOMAIN clientSeen \subseteq Conns \cup Handlers

Counts ==
    /\ IsFiniteSet({h \in Handlers : executed[h]}) /\ restarts \in 0 .. MaxRestarts
    /\ IsFiniteSet(DOMAIN seen)

SysInv == Wire /\ TasksOnWire /\ LiveTasks /\ Connections /\ Counts

-----------------------------------------------------------------------------
(* Packets *)

LEMMA RequestFacts ==
    ASSUME NEW p, RequestPacket(p)
    PROVE  /\ Typed(p) /\ Message(p) = RequestOf(p.aad.nonce) /\ p.aad.type = "request"
           /\ p.aad.nonce \in Conns /\ Authentic(p, Key)
  <1> DEFINE m == RequestOf(p.aad.nonce)
  <1>1. m.body = 0 /\ m.type = "request" /\ m # NoMessage
    BY NamesAssumption DEF RequestOf, RequestPacket
  <1>2. /\ Authentic(p, Key) /\ p.aad.type = m.type
        /\ p.size = HeaderSize + p.claimed
        /\ p.claimed \in 1 .. MapSize + m.body + FrameOverhead + TagSize
        /\ Message(p) = m
    BY <1>1, EncodeFacts DEF RequestPacket, Message
  <1> QED BY <1>1, <1>2, SizesAssumption DEF RequestPacket, Typed, Message

LEMMA ReplyFacts ==
    ASSUME NEW p, ReplyPacket(p)
    PROVE  /\ Typed(p) /\ Told(Message(p)) /\ p.aad.type = Message(p).type
           /\ p.aad.nonce \in Handlers /\ Authentic(p, Key)
  <1> DEFINE m == Message(p)
  <1>1. m # NoMessage /\ m.body \in Nat
    BY LimitsAssumption DEF ReplyPacket, Told
  <1>2. /\ Authentic(p, Key) /\ p.aad.type = m.type
        /\ p.size = HeaderSize + p.claimed
        /\ p.claimed \in 1 .. MapSize + m.body + FrameOverhead + TagSize
    BY <1>1, EncodeFacts DEF ReplyPacket
  <1> QED BY <1>1, <1>2, SizesAssumption DEF ReplyPacket, Typed, Message

\* A request on the wire is the one its connection sent.
LEMMA RequestOnWire ==
    ASSUME SysInv, NEW p \in wire, Message(p).type = "request"
    PROVE  /\ p.aad.nonce \in Conns
           /\ Message(p) = RequestOf(p.aad.nonce) /\ Message(p).id = p.aad.nonce
  <1>1. ~ReplyPacket(p)
    BY ReplyFacts DEF Told
  <1>2. RequestPacket(p)
    BY <1>1 DEF SysInv, Wire
  <1> QED BY <1>2, RequestFacts DEF RequestOf

LEMMA InitSys == SysInit => SysInv
  <1> SUFFICES ASSUME SysInit PROVE SysInv
    OBVIOUS
  <1> USE DEF SysInit, Init
  <1>1. Wire
    BY DEF Wire
  <1>2. TasksOnWire
    BY DEF TasksOnWire, Forwarded
  <1>3. Fields /\ now \in Int
    BY DEF Fields, Places
  <1>4. \A h \in Handlers : Phase(h)
    BY LimitsAssumption DEF Phase, Forwarded, InUpstream, Ended
  <1>5. LiveTasks
    BY <1>3, <1>4 DEF LiveTasks, Live, Forwarded
  <1>6. DOMAIN clientSeen = {}
    BY DEF EmptyCache
  <1>7. Connections
    BY <1>6, FS_EmptySet DEF Connections
  <1>8. {h \in Handlers : executed[h]} = {}
    OBVIOUS
  <1>9. Counts
    <2>1. DOMAIN seen = {}
      BY DEF EmptyCache
    <2>2. restarts \in 0 .. MaxRestarts
      BY ClockAssumption
    <2>3. IsFiniteSet({h \in Handlers : executed[h]}) /\ IsFiniteSet(DOMAIN seen)
      BY <1>8, <2>1, FS_EmptySet
    <2> HIDE DEF SysInit, Init
    <2> QED BY <2>2, <2>3 DEF Counts
  <1> QED BY <1>1, <1>2, <1>5, <1>7, <1>9 DEF SysInv

-----------------------------------------------------------------------------
(* What no step undoes *)

\* What was carried out stays so, and a connection that left idle stays out of it.
Grows ==
    /\ \A k \in Conns : ExecutedFor(k) \subseteq ExecutedFor(k)'
    /\ \A k \in Conns : conn[k] # "idle" => conn'[k] # "idle"

LEMMA PacketsStay ==
    ASSUME Grows, NEW p
    PROVE  /\ RequestPacket(p) => RequestPacket(p)'
           /\ ReplyPacket(p) => ReplyPacket(p)'
  <1>1. RequestPacket(p) => RequestPacket(p)'
    BY DEF RequestPacket, Grows
  <1>2. Told(Message(p)) => Told(Message(p))'
    BY DEF Told, Grows
  <1>3. ReplyPacket(p) => ReplyPacket(p)'
    BY <1>2 DEF ReplyPacket
  <1> QED BY <1>1, <1>3

\* New packets under names that no request bears leave the rest of the wire in order.
LEMMA WireStays ==
    ASSUME SysInv, Grows, wire \subseteq wire', \A p \in wire' \ wire : ReplyPacket(p)'
    PROVE  Wire'
  <1>1. \A p \in wire' : (RequestPacket(p) \/ ReplyPacket(p))'
    BY PacketsStay DEF SysInv, Wire
  <1>2. \A p \in wire' \ wire : p.aad.nonce \in Handlers
    BY DEF ReplyPacket
  <1>3. \A p, q \in wire' : (p.aad.nonce = q.aad.nonce /\ p.aad.nonce \in Conns) => p = q
    BY <1>2, NamesAssumption DEF SysInv, Wire
  <1> QED BY <1>1, <1>3 DEF Wire

LEMMA WireKept ==
    ASSUME SysInv, Grows, wire' = wire
    PROVE  Wire'
  BY PacketsStay DEF SysInv, Wire

LEMMA ServerStays ==
    ASSUME SysInv, UNCHANGED <<vars, past>>, wire \subseteq wire'
    PROVE  TasksOnWire' /\ LiveTasks' /\ \A k : ExecutedFor(k)' = ExecutedFor(k)
  <1>1. UNCHANGED <<pc, carrier, buffered, request, reply, executed, late, seen, now, past>>
    BY DEF vars, handlerVars, cacheVars
  <1>2. \A h \in Handlers : Same(h)
    BY <1>1 DEF Same
  <1>3. \A h \in Handlers : Phase(h) => Phase(h)'
    BY <1>2, SamePhase
  <1>4. TasksOnWire' /\ \A k : ExecutedFor(k)' = ExecutedFor(k)
    BY <1>1 DEF SysInv, TasksOnWire, Forwarded, ExecutedFor
  <1>5. LiveTasks'
    BY <1>1, <1>3 DEF SysInv, LiveTasks, Live, Fields, Forwarded, Nonce, Known
  <1> QED BY <1>4, <1>5

-----------------------------------------------------------------------------
(* The proxy's steps *)

LEMMA PostSys ==
    ASSUME SysInv, NEW k \in Conns, Post(k), UNCHANGED lifeVars
    PROVE  SysInv'
  <1> PICK p : p = Encode(RequestOf(k), Key, ClientOptions, ClientNow, k)
    OBVIOUS
  <1>1. /\ conn[k] = "idle" /\ conn' = [conn EXCEPT ![k] = "waiting"]
        /\ wire' = wire \cup {p}
        /\ UNCHANGED <<result, clientSeen, vars, past, restarts>>
    BY DEF Post, lifeVars
  <1>2. TasksOnWire' /\ LiveTasks' /\ \A j : ExecutedFor(j)' = ExecutedFor(j)
    BY <1>1, ServerStays
  <1>3. Grows /\ conn'[k] = "waiting"
    BY <1>1, <1>2 DEF Grows, SysInv, Connections
  <1>4. p.aad.nonce = k /\ p.aad.ts = ClientNow
    <2>1. RequestOf(k).body \in Nat
      BY DEF RequestOf
    <2> QED BY <2>1, EncodeFacts
  <1>5. ClientNow \in Int
    BY ClockAssumption DEF ClientNow, SysInv, LiveTasks
  <1>6. RequestPacket(p)'
    BY <1>1, <1>3, <1>4, <1>5 DEF RequestPacket
  <1>7. \A q \in wire : q.aad.nonce # k
    BY <1>1, NamesAssumption DEF SysInv, Wire, RequestPacket, ReplyPacket
  <1>8. Wire'
    <2>1. \A q \in wire' : (RequestPacket(q) \/ ReplyPacket(q))'
      BY <1>1, <1>3, <1>6, PacketsStay DEF SysInv, Wire
    <2> QED BY <1>1, <1>4, <1>7, <2>1 DEF SysInv, Wire
  <1>9. Connections'
    BY <1>1, <1>2 DEF SysInv, Connections
  <1>10. Counts'
    BY <1>1 DEF SysInv, Counts, vars, handlerVars, cacheVars
  <1> QED BY <1>2, <1>8, <1>9, <1>10 DEF SysInv

\* What a connection may be given: an error, or the response to its own request.
Fit(m, k) ==
    /\ m # NoMessage
    /\ \/ m.type = "error"
       \/ m.type = "response" /\ m.id = k /\ ExecutedFor(k) # {}

LEMMA BadRequestFits ==
    ASSUME NEW k PROVE Fit(BadRequest, k) /\ BadRequest.type = "error"
  BY NamesAssumption DEF Fit, BadRequest, RelayError, Codes

\* What send returns is fit for its connection, and so is the cache it leaves.
LEMMA ReplyFits ==
    ASSUME SysInv, NEW k \in Conns, NEW p \in wire
    PROVE  LET d == ClientDecode(p)
           IN  /\ IsReplyTo(d, k) => Fit(d.msg, k)
               /\ IsFiniteSet(DOMAIN d.seen) /\ DOMAIN d.seen \subseteq Conns \cup Handlers
  <1> DEFINE d == ClientDecode(p)
             after == SeenAfter(clientSeen, p.aad.nonce, p.aad.ts, ClientNow)
  <1>1. RequestPacket(p) \/ ReplyPacket(p)
    BY DEF SysInv, Wire
  <1>2. p.aad.nonce \in Conns \cup Handlers
    BY <1>1 DEF RequestPacket, ReplyPacket
  <1>3. IsReplyTo(d, k) => Fit(d.msg, k)
    <2> SUFFICES ASSUME IsReplyTo(d, k) PROVE Fit(d.msg, k)
      OBVIOUS
    <2>1. d.msg = Message(p) /\ d.msg.type \in {"response", "error"} /\ d.msg.id \in {NoId, k}
      BY DecodeOk DEF IsReplyTo, ClientDecode, Message
    <2> HIDE DEF d
    <2>2. ~RequestPacket(p)
      BY <2>1, RequestFacts DEF RequestOf
    <2>3. Told(d.msg)
      BY <1>1, <2>1, <2>2, ReplyFacts
    <2> QED BY <2>1, <2>3, NamesAssumption DEF Told, Fit
  <1>4. d.seen = clientSeen \/ d.seen = after
    BY DecodeSeen DEF ClientDecode
  <1>5. DOMAIN after \subseteq DOMAIN clientSeen \cup {p.aad.nonce}
    BY SeenAfterFacts
  <1> HIDE DEF d, after
  <1>6. IsFiniteSet(DOMAIN clientSeen) /\ DOMAIN clientSeen \subseteq Conns \cup Handlers
    BY DEF SysInv, Connections
  <1>7. IsFiniteSet(DOMAIN after)
    <2>1. IsFiniteSet(DOMAIN clientSeen \cup {p.aad.nonce})
      BY <1>6, FS_AddElement
    <2> QED BY <1>5, <2>1, FS_Subset
  <1> QED BY <1>2, <1>3, <1>4, <1>5, <1>6, <1>7 DEF d

LEMMA OutcomeSys ==
    ASSUME SysInv, NEW k \in Conns, NEW m, Fit(m, k), Outcome(k, m),
           conn[k] \in {"idle", "waiting"},
           IsFiniteSet(DOMAIN clientSeen') /\ DOMAIN clientSeen' \subseteq Conns \cup Handlers,
           UNCHANGED <<wire, vars, lifeVars>>
    PROVE  SysInv'
  <1>1. TasksOnWire' /\ LiveTasks' /\ \A j : ExecutedFor(j)' = ExecutedFor(j)
    BY ServerStays DEF lifeVars
  <1>2. conn' = [conn EXCEPT ![k] = "writing"] /\ result' = [result EXCEPT ![k] = m]
    BY DEF Outcome
  <1>3. Grows
    BY <1>1, <1>2 DEF Grows, SysInv, Connections
  <1>4. Wire'
    BY <1>3, WireKept
  <1>5. Connections'
    BY <1>1, <1>2 DEF SysInv, Connections, Fit
  <1>6. Counts'
    BY DEF SysInv, Counts, vars, handlerVars, cacheVars, lifeVars
  <1> QED BY <1>1, <1>4, <1>5, <1>6 DEF SysInv

LEMMA ClientSys ==
    ASSUME SysInv, NEW k \in Conns, Client(k), UNCHANGED lifeVars
    PROVE  SysInv'
  <1>1. CASE Post(k)
    BY <1>1, PostSys
  <1>2. CASE Reject(k) \/ CarrierFails(k)
    <2>1. IsFiniteSet(DOMAIN clientSeen') /\ DOMAIN clientSeen' \subseteq Conns \cup Handlers
      BY <1>2 DEF Reject, CarrierFails, SysInv, Connections
    <2> QED BY <1>2, <2>1, BadRequestFits, OutcomeSys DEF Reject, CarrierFails
  <1>3. ASSUME NEW p \in wire, Receive(k, p) PROVE SysInv'
    <2> DEFINE d == ClientDecode(p)
               m == IF IsReplyTo(d, k) THEN d.msg ELSE BadRequest
    <2>1. Fit(m, k)
      BY ReplyFits, BadRequestFits
    <2>2. IsFiniteSet(DOMAIN clientSeen') /\ DOMAIN clientSeen' \subseteq Conns \cup Handlers
      BY <1>3, ReplyFits DEF Receive
    <2>3. conn[k] = "waiting" /\ Outcome(k, m) /\ UNCHANGED <<wire, vars>>
      BY <1>3 DEF Receive
    <2> HIDE DEF m
    <2> QED BY <2>1, <2>2, <2>3, OutcomeSys
  <1>4. CASE Write(k) \/ WriteFails(k)
    <2>1. /\ UNCHANGED <<result, clientSeen, wire, vars, past, restarts>>
          /\ conn[k] = "writing"
          /\ conn' = [conn EXCEPT ![k] = "closed"] \/ conn' = [conn EXCEPT ![k] = "broken"]
      BY <1>4 DEF Write, WriteFails, lifeVars
    <2>2. TasksOnWire' /\ LiveTasks' /\ \A j : ExecutedFor(j)' = ExecutedFor(j)
      BY <2>1, ServerStays
    <2>3. Grows
      BY <2>1, <2>2 DEF Grows, SysInv, Connections
    <2>4. Wire'
      BY <2>1, <2>3, WireKept
    <2>5. Connections'
      BY <2>1, <2>2 DEF SysInv, Connections
    <2>6. Counts'
      BY <2>1 DEF SysInv, Counts, vars, handlerVars, cacheVars
    <2> QED BY <2>2, <2>4, <2>5, <2>6 DEF SysInv
  <1> QED BY <1>1, <1>2, <1>3, <1>4 DEF Client

-----------------------------------------------------------------------------
(* The tasks of the server *)

\* The steps of a task that leave the replay cache and its request alone.
Quiet(h) == Admit(h) \/ ReadChunk(h) \/ Disconnect(h) \/ Upstream(h) \/ Finish(h)
TaskStep(h) == (\E p \in wire : Arrive(h, Delivered(p))) \/ Quiet(h) \/ Dispatch(h)

LEMMA OnWireTyped ==
    ASSUME SysInv, NEW p \in wire
    PROVE  Typed(p)
  BY RequestFacts, ReplyFacts DEF SysInv, Wire

\* Only a task of the present process takes a step, and it keeps its phase.
LEMMA TaskPhase ==
    ASSUME SysInv, NEW h \in Handlers, TaskStep(h)
    PROVE  h \in Live /\ Phase(h) /\ Alone(h) /\ Fields
  <1>1. pc[h] # "done"
    BY DEF TaskStep, Arrive, Quiet, Dispatch, Admit, ReadChunk, Disconnect, Upstream, Finish,
           Execute, Head, Chunk, Renew, End, Timeout, ConnectFails, Breaks, Escapes, InUpstream
  <1>2. h \in Live /\ Phase(h) /\ Fields
    BY <1>1 DEF SysInv, LiveTasks, Live
  <1>3. ASSUME NEW p \in wire, Arrive(h, Delivered(p)) PROVE Alone(h)
    <2>1. Delivered(p).packet = p
      BY DEF Delivered
    <2>2. Typed(Delivered(p).packet)
      BY <2>1, OnWireTyped
    <2> QED BY <1>2, <1>3, <2>2, ArrivePhase
  <1>4. CASE Quiet(h) \/ Dispatch(h)
    BY <1>2, <1>4, WorkPhase, FinishPhase DEF Quiet, Work
  <1> QED BY <1>2, <1>3, <1>4 DEF TaskStep

\* What a task's step does to what it works on.
LEMMA TaskFacts ==
    ASSUME SysInv, NEW h \in Handlers, TaskStep(h)
    PROVE  /\ now' = now /\ pc'[h] # "idle" /\ carrier'[h].packet \in wire
           /\ pc[h] # "idle" => carrier'[h] = carrier[h]
           /\ Dispatch(h) \/ (seen' = seen /\ request'[h] = request[h])
           /\ executed[h] => executed'[h]
           /\ executed'[h] # executed[h] => Execute(h)
           /\ reply'[h].msg # NoMessage => Ended(h)'
           /\ reply[h] = NoReply \/ reply'[h] = reply[h]
  <1>1. h \in Live /\ Phase(h) /\ Alone(h) /\ Fields
    BY TaskPhase
  <1>2. reply'[h].msg # NoMessage => Ended(h)'
    BY <1>1 DEF Alone, Phase, NoReply
  <1>3. ASSUME NEW p \in wire, Arrive(h, Delivered(p))
        PROVE  /\ now' = now /\ pc'[h] # "idle" /\ carrier'[h].packet \in wire
               /\ pc[h] = "idle" /\ seen' = seen /\ request' = request
               /\ executed' = executed /\ reply' = reply
    BY <1>1, <1>3 DEF Arrive, Delivered, cacheVars, Fields
  <1>4. ASSUME Quiet(h)
        PROVE  /\ now' = now /\ pc[h] # "idle" /\ carrier' = carrier
               /\ seen' = seen /\ request' = request
               /\ executed'[h] = executed[h] \/ Execute(h)
    BY <1>4 DEF Quiet, Admit, ReadChunk, Disconnect, Upstream, Finish, Head, Chunk, Renew, End,
                Timeout, ConnectFails, Breaks, Escapes, Fail, UpstreamUnchanged, InUpstream,
                cacheVars, Execute
  <1>5. ASSUME Dispatch(h)
        PROVE  now' = now /\ pc[h] # "idle" /\ carrier' = carrier /\ executed' = executed
    BY <1>5 DEF Dispatch
  <1>6. Execute(h) => executed'[h] /\ ~executed[h]
    BY <1>1 DEF Execute, Phase, Fields
  <1>7. pc[h] # "idle" => carrier[h].packet \in wire
    BY DEF SysInv, TasksOnWire
  <1>8. pc'[h] # "idle"
    BY <1>1, <1>3 DEF TaskStep, Quiet, Dispatch, Admit, ReadChunk, Disconnect, Upstream, Finish,
           Execute, Head, Chunk, Renew, End, Timeout, ConnectFails, Breaks, Escapes, InUpstream, Fail,
           Reply, Fields
  <1>9. reply[h] = NoReply \/ reply'[h] = reply[h]
    BY <1>1, <1>3 DEF TaskStep, Quiet, Dispatch, Admit, ReadChunk, Disconnect, Upstream, Finish,
           Execute, Head, Chunk, Renew, End, Timeout, ConnectFails, Breaks, Escapes, InUpstream, Phase,
           Ended
  <1> QED BY <1>2, <1>3, <1>4, <1>5, <1>6, <1>7, <1>8, <1>9 DEF TaskStep

LEMMA TaskOnWire ==
    ASSUME SysInv, NEW h \in Handlers, TaskStep(h), wire \subseteq wire'
    PROVE  TasksOnWire'
  <1>1. h \in Live /\ Phase(h) /\ Phase(h)' /\ \A g \in Handlers \ {h} : Same(g)
    BY TaskPhase DEF Alone
  <1>2. pc'[h] # "idle" /\ carrier'[h].packet \in wire /\ (pc[h] # "idle" => carrier'[h] = carrier[h])
    BY TaskFacts
  <1>3. Forwarded(h)' => request'[h] = Message(carrier'[h].packet) /\ request'[h].type = "request"
    BY <1>1 DEF Phase, Sound, Message
  <1> QED BY <1>1, <1>2, <1>3 DEF SysInv, TasksOnWire, Same, Forwarded

LEMMA TaskGrows ==
    ASSUME SysInv, NEW h \in Handlers, TaskStep(h), conn' = conn
    PROVE  Grows
  <1>1. h \in Live /\ Phase(h) /\ \A g \in Handlers \ {h} : Same(g)
    BY TaskPhase DEF Alone
  <1>2. Dispatch(h) => ~executed[h]
    BY <1>1 DEF Dispatch, Phase
  <1>3. executed[h] => executed'[h] /\ request'[h] = request[h]
    BY <1>2, TaskFacts
  <1> QED BY <1>1, <1>3 DEF Grows, ExecutedFor, Same

\* The reply a task has given is one it may seal.
LEMMA TaskTold ==
    ASSUME SysInv, NEW h \in Handlers, TaskStep(h), wire \subseteq wire',
           NEW m, m = reply'[h].msg, m # NoMessage
    PROVE  Told(m)'
  <1>1. Phase(h)' /\ Ended(h)'
    BY TaskPhase, TaskFacts DEF Alone
  <1>2. Forwarded(h)' => request'[h].id \in Conns
    BY <1>1, TaskFacts, RequestOnWire DEF Phase, Sound, Message
  <1>3. (Refused(h) \/ FailedUpstream(h) \/ Relayed(h))'
    BY <1>1 DEF Phase, NotDecoded
  <1>4. CASE (Refused(h) \/ FailedUpstream(h))'
    <2>1. PICK id, code : reply'[h] = Sealed(RelayError(id, code))
      BY <1>4 DEF Refused, FailedUpstream, Failure
    <2>2. m.type = "error" /\ m.body = 0
      BY <2>1 DEF Sealed, RelayError
    <2> QED BY <2>2, LimitsAssumption DEF Told
  <1>5. CASE Relayed(h)'
    <2> PICK k : k = request'[h].id
      OBVIOUS
    <2>1. PICK n \in 0 .. Limits.response : reply'[h] = Sealed(RelayResponse(k, n))
      BY <1>5 DEF Relayed
    <2>2. m.type = "response" /\ m.body = n /\ m.id = k
      BY <2>1 DEF Sealed, RelayResponse
    <2>3. Forwarded(h)' /\ executed'[h]
      BY <1>5 DEF Relayed
    <2>4. h \in ExecutedFor(k)'
      BY <2>3 DEF ExecutedFor, Forwarded
    <2> QED BY <1>2, <2>2, <2>3, <2>4 DEF Told
  <1> QED BY <1>3, <1>4, <1>5

LEMMA TaskWire ==
    ASSUME SysInv, NEW h \in Handlers, TaskStep(h), wire' = wire \cup NewlySealed, conn' = conn
    PROVE  Wire'
  <1>1. Fields' /\ \A g \in Handlers \ {h} : Same(g)
    BY TaskPhase DEF Alone
  <1>2. ASSUME NEW p \in NewlySealed PROVE ReplyPacket(p)'
    <2>1. PICK g \in Handlers : /\ reply[g] = NoReply /\ reply'[g].msg # NoMessage
                                /\ p = Encode(reply'[g].msg, Key, ServerOptions, now, g)
      BY DEF NewlySealed
    <2>2. g = h
      BY <1>1, <2>1 DEF Same, NoReply
    <2> PICK m : m = reply'[h].msg
      OBVIOUS
    <2>3. Told(m)'
      BY <2>1, <2>2, TaskTold
    <2>4. m.body \in Nat
      BY <2>3, LimitsAssumption DEF Told
    <2>5. Message(p) = m /\ p.aad.nonce = h /\ p.aad.ts = now
      BY <2>1, <2>2, <2>4, EncodeFacts DEF Message
    <2> QED BY <2>1, <2>2, <2>3, <2>5 DEF ReplyPacket, SysInv, LiveTasks
  <1> QED BY <1>2, TaskGrows, WireStays

LEMMA TaskLive ==
    ASSUME SysInv, NEW h \in Handlers, TaskStep(h), past' = past
    PROVE  LiveTasks'
  <1>1. h \in Live /\ Phase(h) /\ Phase(h)' /\ Fields' /\ Fields /\ \A g \in Handlers \ {h} : Same(g)
    BY TaskPhase DEF Alone
  <1>2. /\ now' = now /\ now \in Int /\ Live' = Live
        /\ past' \subseteq {g \in Handlers : pc'[g] = "done"}
    BY <1>1, TaskFacts DEF SysInv, LiveTasks, Live, Same
  <1>3. \A g \in Live : Phase(g)'
    BY <1>1, SamePhase DEF SysInv, LiveTasks, Live
  <1>4. \A g \in Live \ {h} : (Forwarded(g)' <=> Forwarded(g)) /\ carrier'[g] = carrier[g]
    BY <1>1 DEF Live, Same, Forwarded
  <1>5. \A g \in Live : Forwarded(g) => Known(Nonce(g), carrier[g].packet.aad.ts)
    BY DEF SysInv, LiveTasks
  <1>6. \A n, ts : Known(n, ts) => Known(n, ts)'
    <2>1. CASE Dispatch(h)
      BY <2>1, DispatchKeeps
    <2>2. CASE seen' = seen
      BY <1>2, <2>2 DEF Known
    <2> QED BY <2>1, <2>2, TaskFacts
  <1>7. CASE Forwarded(h)' <=> Forwarded(h)
    <2>1. Forwarded(h) => carrier'[h] = carrier[h]
      BY <1>1, TaskFacts DEF Phase
    <2>2. \A g \in Live : Forwarded(g)' => Forwarded(g) /\ carrier'[g] = carrier[g]
      BY <1>4, <1>7, <2>1
    <2>3. \A g \in Live : Forwarded(g)' => Known(Nonce(g), carrier[g].packet.aad.ts)'
      BY <1>5, <1>6, <2>2 DEF Known, Nonce
    <2>4. \A g, j \in Live : (g # j /\ Forwarded(g)' /\ Forwarded(j)') => Nonce(g)' # Nonce(j)'
      BY <2>2 DEF Nonce, SysInv, LiveTasks
    <2> QED BY <1>1, <1>2, <1>3, <2>3, <2>4 DEF LiveTasks
  <1>8. CASE ~(Forwarded(h)' <=> Forwarded(h))
    <2>1. Dispatch(h) /\ Forwarded(h)' /\ carrier' = carrier
      BY <1>1, <1>8, TaskFacts DEF Forwarded, Dispatch, Phase
    <2>2. /\ ~Known(Nonce(h), carrier[h].packet.aad.ts)
          /\ Known(Nonce(h), carrier[h].packet.aad.ts)'
      BY <1>1, <2>1, DispatchNew
    <2>3. \A g \in Live : Forwarded(g)' => Known(Nonce(g), carrier[g].packet.aad.ts)'
      <3> SUFFICES ASSUME NEW g \in Live, Forwarded(g)'
                   PROVE  Known(Nonce(g), carrier[g].packet.aad.ts)'
        OBVIOUS
      <3>1. CASE g = h
        BY <2>2, <3>1
      <3>2. CASE g # h
        BY <1>4, <1>5, <1>6, <2>1, <3>2 DEF Known, Nonce
      <3> QED BY <3>1, <3>2
    <2>4. ASSUME NEW g \in Live, g # h, Forwarded(g) PROVE Nonce(g) # Nonce(h)
      <3> SUFFICES ASSUME Nonce(g) = Nonce(h) PROVE FALSE
        OBVIOUS
      <3>1. g \in Handlers
        BY DEF Live
      <3>2. carrier[g].packet \in wire /\ carrier[h].packet \in wire
        BY <2>1, <2>4, <3>1, TaskFacts DEF SysInv, TasksOnWire
      <3>3. Nonce(g) \in Conns
        BY <2>4, <3>1, <3>2, RequestOnWire DEF Nonce, SysInv, TasksOnWire
      <3>4. carrier[g].packet = carrier[h].packet
        BY <3>2, <3>3 DEF Nonce, SysInv, Wire
      <3> QED BY <1>5, <2>2, <2>4, <3>4 DEF Nonce
    <2>5. \A g, j \in Live : (g # j /\ Forwarded(g)' /\ Forwarded(j)') => Nonce(g)' # Nonce(j)'
      BY <1>4, <2>1, <2>4 DEF Nonce, SysInv, LiveTasks
    <2> QED BY <1>1, <1>2, <1>3, <2>3, <2>5 DEF LiveTasks
  <1> QED BY <1>7, <1>8

LEMMA TaskSys ==
    ASSUME SysInv, NEW h \in Handlers, TaskStep(h), wire' = wire \cup NewlySealed,
           UNCHANGED <<clientVars, lifeVars>>
    PROVE  SysInv'
  <1>1. UNCHANGED <<conn, result, clientSeen, past, restarts>>
    BY DEF clientVars, lifeVars
  <1>2. Connections'
    BY <1>1, TaskGrows DEF SysInv, Connections, Grows
  <1>3. Counts'
    <2>1. \A g \in Handlers \ {h} : Same(g)
      BY TaskPhase DEF Alone
    <2>2. {g \in Handlers : executed'[g]} \subseteq {g \in Handlers : executed[g]} \cup {h}
      BY <2>1 DEF Same
    <2>3. IsFiniteSet({g \in Handlers : executed[g]} \cup {h})
      BY FS_AddElement DEF SysInv, Counts
    <2>4. IsFiniteSet(DOMAIN seen')
      <3>1. DOMAIN seen' \subseteq DOMAIN seen \cup {Nonce(h)}
        BY TaskFacts, DispatchDomain
      <3> QED BY <3>1, FS_AddElement, FS_Subset DEF SysInv, Counts
    <2> QED BY <1>1, <2>2, <2>3, <2>4, FS_Subset DEF SysInv, Counts
  <1> QED BY <1>1, <1>2, <1>3, TaskOnWire, TaskWire, TaskLive DEF SysInv

-----------------------------------------------------------------------------
(* Time, and processes that die *)

LEMMA TickSys ==
    ASSUME SysInv, Tick, wire' = wire \cup NewlySealed, UNCHANGED <<clientVars, lifeVars>>
    PROVE  SysInv'
  <1>1. /\ UNCHANGED <<pc, carrier, buffered, request, reply, executed, late, seen>>
        /\ UNCHANGED <<conn, result, clientSeen, past, restarts>> /\ now' = now + 1
    BY DEF Tick, handlerVars, clientVars, lifeVars
  <1>2. wire' = wire
    BY <1>1 DEF NewlySealed, NoReply
  <1>3. TasksOnWire' /\ \A k : ExecutedFor(k)' = ExecutedFor(k)
    BY <1>1, <1>2 DEF SysInv, TasksOnWire, Forwarded, ExecutedFor
  <1>4. Wire'
    BY <1>1, <1>2, <1>3, WireKept DEF Grows
  <1>5. LiveTasks'
    <2>1. \A h \in Handlers : Phase(h) => Phase(h)'
      BY <1>1, SamePhase DEF Same
    <2>2. \A n : \A ts \in Int : Known(n, ts) => Known(n, ts)'
      BY TickKeeps DEF SysInv, LiveTasks
    <2>3. ASSUME NEW h \in Live, Forwarded(h)
          PROVE  Known(Nonce(h), carrier[h].packet.aad.ts)'
      <3>1. carrier[h].packet.aad.ts \in Int
        <4>1. carrier[h].packet \in wire
          BY <2>3 DEF Live, SysInv, TasksOnWire
        <4> QED BY <4>1, OnWireTyped DEF Typed
      <3>2. Known(Nonce(h), carrier[h].packet.aad.ts)
        BY <2>3 DEF SysInv, LiveTasks
      <3> QED BY <1>1, <2>2, <3>1, <3>2 DEF Known, Nonce
    <2> QED BY <1>1, <2>1, <2>3 DEF SysInv, LiveTasks, Live, Fields, Forwarded, Nonce
  <1>6. Connections' /\ Counts'
    BY <1>1, <1>3 DEF SysInv, Connections, Counts
  <1> QED BY <1>3, <1>4, <1>5, <1>6 DEF SysInv

LEMMA ServerRestartsSys ==
    ASSUME SysInv, ServerRestarts
    PROVE  SysInv'
  <1>1. /\ UNCHANGED <<carrier, buffered, request, reply, executed, late, now>>
        /\ UNCHANGED <<conn, result, clientSeen, wire>>
        /\ restarts < MaxRestarts /\ restarts' = restarts + 1
        /\ past' = {h \in Handlers : pc[h] # "idle"}
        /\ pc' = [h \in Handlers |-> IF h \in Active THEN "done" ELSE pc[h]]
        /\ DOMAIN seen' = {}
    BY DEF ServerRestarts, clientVars, EmptyCache
  <1>2. /\ \A h \in Handlers : pc'[h] = IF pc[h] = "idle" THEN "idle" ELSE "done"
        /\ \A h \in Live' : Same(h) /\ h \in Live /\ pc[h] = "idle"
    BY <1>1 DEF Active, Live, Same, SysInv, LiveTasks
  <1>3. TasksOnWire' /\ \A k : ExecutedFor(k)' = ExecutedFor(k)
    BY <1>1, <1>2 DEF SysInv, TasksOnWire, Forwarded, ExecutedFor
  <1>4. Wire'
    BY <1>1, <1>3, WireKept DEF Grows
  <1>5. Fields'
    BY <1>1, <1>2 DEF SysInv, LiveTasks, Fields, Places
  <1>6. \A h \in Live' : Phase(h)' /\ ~Forwarded(h)'
    <2> TAKE h \in Live'
    <2>1. Phase(h)'
      BY <1>2, SamePhase DEF SysInv, LiveTasks, Live
    <2>2. h \in Handlers /\ pc'[h] = "idle"
      BY <1>2 DEF Live, Same
    <2> QED BY <1>3, <2>1, <2>2 DEF TasksOnWire
  <1>7. LiveTasks'
    BY <1>1, <1>2, <1>5, <1>6 DEF SysInv, LiveTasks
  <1>8. Connections' /\ Counts'
    BY <1>1, <1>3, ClockAssumption, FS_EmptySet DEF SysInv, Connections, Counts
  <1> QED BY <1>3, <1>4, <1>7, <1>8 DEF SysInv

LEMMA ProxyRestartsSys ==
    ASSUME SysInv, ProxyRestarts
    PROVE  SysInv'
  <1>1. /\ UNCHANGED <<result, wire, past, vars, executed, seen>>
        /\ restarts < MaxRestarts /\ restarts' = restarts + 1
        /\ conn' = [k \in Conns |->
                       IF conn[k] \in {"waiting", "writing"} THEN "broken" ELSE conn[k]]
        /\ clientSeen' = EmptyCache
    BY DEF ProxyRestarts, vars, handlerVars, cacheVars
  <1>2. TasksOnWire' /\ LiveTasks' /\ \A k : ExecutedFor(k)' = ExecutedFor(k)
    BY <1>1, ServerStays
  <1>3. Wire'
    BY <1>1, <1>2, WireKept DEF Grows
  <1>4. DOMAIN clientSeen' = {}
    BY <1>1 DEF EmptyCache
  <1>5. Connections'
    BY <1>1, <1>2, <1>4, FS_EmptySet DEF SysInv, Connections
  <1>6. Counts'
    BY <1>1, ClockAssumption DEF SysInv, Counts
  <1> QED BY <1>2, <1>3, <1>5, <1>6 DEF SysInv

\* A step of the server is a step of one of its tasks, or of its clock.
LEMMA ServerSteps ==
    ASSUME ServerStep
    PROVE  /\ (\E h \in Handlers : TaskStep(h)) \/ Tick
           /\ wire' = wire \cup NewlySealed /\ UNCHANGED <<clientVars, lifeVars>>
  BY DEF ServerStep, TaskStep, Handle, ReadAll, Call, Quiet, Upstream

LEMMA StepSys == SysInv /\ [SysNext]_sysVars => SysInv'
  <1> SUFFICES ASSUME SysInv, [SysNext]_sysVars PROVE SysInv'
    OBVIOUS
  <1>1. CASE ClientStep
    BY <1>1, ClientSys DEF ClientStep
  <1>2. CASE ServerStep
    BY <1>2, ServerSteps, TaskSys, TickSys
  <1>3. CASE ServerRestarts \/ ProxyRestarts
    BY <1>3, ServerRestartsSys, ProxyRestartsSys
  <1>4. CASE UNCHANGED sysVars
    <2>1. UNCHANGED <<vars, wire, past, conn, result, clientSeen, restarts, executed, seen>>
      BY <1>4 DEF sysVars, clientVars, lifeVars, vars, handlerVars, cacheVars
    <2>2. TasksOnWire' /\ LiveTasks' /\ \A k : ExecutedFor(k)' = ExecutedFor(k)
      BY <2>1, ServerStays
    <2>3. Wire'
      BY <2>1, <2>2, WireKept DEF Grows
    <2>4. Connections' /\ Counts'
      BY <2>1, <2>2 DEF SysInv, Connections, Counts
    <2> QED BY <2>2, <2>3, <2>4 DEF SysInv
  <1> QED BY <1>1, <1>2, <1>3, <1>4 DEF SysNext

\* The invariant holds in every state of the relay, across restarts of either side.
THEOREM SysInductive == SysSpec => []SysInv
  BY InitSys, StepSys, PTL DEF SysSpec

-----------------------------------------------------------------------------
(* What follows from the invariant *)

\* Every state of the relay is well typed: a connection has an outcome exactly when it has
\* come to write one.
THEOREM SysTypeOKThm == SysSpec => []SysTypeOK
  <1>1. SysInv => SysTypeOK
    <2>1. SysInv => \A p \in wire : p.aad.nonce \in Conns \cup Handlers
      BY DEF SysInv, Wire, RequestPacket, ReplyPacket
    <2> QED BY <2>1 DEF SysInv, SysTypeOK, Connections, LiveTasks, Counts
  <1> QED BY <1>1, SysInductive, PTL

\* No connection is given the response to another one's request, and no response is given
\* without the request having been carried out, across restarts (relay_client.py 54-58).
THEOREM NoCrossTalkThm == SysSpec => []NoCrossTalk
  <1>1. SysInv => NoCrossTalk
    BY DEF SysInv, Connections, NoCrossTalk
  <1> QED BY <1>1, SysInductive, PTL

\* Requests and responses are not refused for a difference of the clocks within the skew
\* and the window, in either direction (replay.py 42-49, relay_client.py 45-58).
THEOREM PromptPacketsAcceptedThm == SysSpec => []PromptPacketsAccepted
  <1>1. ASSUME SysInv, ServerTakesRequests, ClientAhead <= Skew, NEW p \in wire,
               p.aad.type = "request",
               p.aad.ts <= ClientNow, (ClientNow - p.aad.ts) - ClientAhead <= Window,
               p.aad.nonce \notin DOMAIN seen, Room(seen, now)
        PROVE  Forwardable(Decode(p, Key, seen, now, Limits))
    <2> DEFINE m == RequestOf(p.aad.nonce)
    <2>1. ~ReplyPacket(p)
      BY <1>1, ReplyFacts DEF Told
    <2>2. RequestPacket(p)
      BY <1>1, <2>1 DEF SysInv, Wire
    <2>3. /\ p = Encode(m, Key, ClientOptions, p.aad.ts, p.aad.nonce) /\ p.aad.ts \in Int
          /\ m.body = 0 /\ m.type = "request"
      BY <2>2 DEF RequestPacket, RequestOf
    <2>4. /\ m.body \in Nat
          /\ MapSize + m.body <= Limits.decompressed
          /\ MapSize + m.body + FrameOverhead + TagSize <= Limits.ciphertext
          /\ ~TooLarge(m, Limits)
      BY <1>1, <2>3, LimitsAssumption DEF ServerTakesRequests, Roomy, TooLarge
    <2>5. now \in Int /\ p.aad.ts \in (now - Window) .. (now + Skew)
      BY <1>1, <2>3, ClockAssumption, ReplayAssumption DEF SysInv, LiveTasks, ClientNow
    <2>6. IsFiniteSet(DOMAIN seen)
      BY <1>1 DEF SysInv, Counts
    <2>7. Verdict(seen, p.aad.nonce, p.aad.ts, now) = "ok"
      BY <1>1, <2>5, <2>6, VerdictFresh DEF Room
    <2> HIDE DEF m
    <2>8. /\ Decode(p, Key, seen, now, Limits).exc = "ok"
          /\ Decode(p, Key, seen, now, Limits).msg = m
      BY <2>3, <2>4, <2>7, LimitsAssumption, EncodedOpens
    <2> QED BY <2>3, <2>8 DEF Forwardable
  <1>2. ASSUME SysInv, ClientTakesReplies, -ClientAhead <= Skew, NEW k \in Conns, NEW p \in wire,
               conn[k] = "waiting",
               p.aad.type = "response", p.ct.plain.raw.msg.id = k,
               p.aad.ts <= now, (now - p.aad.ts) + ClientAhead <= Window,
               p.aad.nonce \notin DOMAIN clientSeen, Room(clientSeen, ClientNow)
        PROVE  IsReplyTo(ClientDecode(p), k)
    <2> DEFINE m == Message(p)
    <2>1. ReplyPacket(p)
      BY <1>2, RequestFacts DEF SysInv, Wire
    <2>2. Told(m) /\ m.type = "response" /\ m.id = k
      BY <1>2, <2>1, ReplyFacts DEF Message
    <2>3. p = Encode(m, Key, ServerOptions, p.aad.ts, p.aad.nonce) /\ p.aad.ts \in Int
      BY <2>1 DEF ReplyPacket
    <2>4. /\ m.body \in Nat
          /\ MapSize + m.body <= ClientLimits.decompressed
          /\ MapSize + m.body + FrameOverhead + TagSize <= ClientLimits.ciphertext
          /\ ~TooLarge(m, ClientLimits)
      BY <1>2, <2>2, LimitsAssumption, ClientLimitsAssumption, SizesAssumption
         DEF Told, ClientTakesReplies, Roomy, TooLarge
    <2>5. ClientNow \in Int /\ p.aad.ts \in (ClientNow - Window) .. (ClientNow + Skew)
      BY <1>2, <2>3, ClockAssumption, ReplayAssumption DEF SysInv, LiveTasks, ClientNow
    <2>6. Verdict(clientSeen, p.aad.nonce, p.aad.ts, ClientNow) = "ok"
      BY <1>2, <2>5, VerdictFresh DEF SysInv, Connections, Room
    <2> HIDE DEF m
    <2>7. ClientDecode(p).exc = "ok" /\ ClientDecode(p).msg = m
      BY <2>2, <2>3, <2>4, <2>6, ClientLimitsAssumption, EncodedOpens DEF ClientDecode
    <2> QED BY <2>2, <2>7 DEF IsReplyTo
  <1>3. SysInv => PromptPacketsAccepted
    BY <1>1, <1>2 DEF PromptPacketsAccepted
  <1> QED BY <1>3, SysInductive, PTL

-----------------------------------------------------------------------------
(* The relay implements RelayContract *)

Kept == UNCHANGED <<Asked, Executions, Current, Given>>

\* Executions and the present life's share of them follow the tasks' history.
LEMMA HistoryKept ==
    ASSUME \A k : ExecutedFor(k)' = ExecutedFor(k), past' = past
    PROVE  Executions' = Executions /\ Current' = Current
  BY DEF Executions, Current

LEMMA PostMaps ==
    ASSUME SysInv, NEW k \in Conns, Post(k), past' = past
    PROVE  Contract!Ask(k)
  <1> PICK p : p = Encode(RequestOf(k), Key, ClientOptions, ClientNow, k)
    OBVIOUS
  <1>1. conn[k] = "idle" /\ wire' = wire \cup {p} /\ UNCHANGED <<result, vars>>
    BY DEF Post
  <1>2. p.aad.nonce = k
    <2>1. RequestOf(k).body \in Nat
      BY DEF RequestOf
    <2> QED BY <2>1, EncodeFacts
  <1>3. \A q \in wire : q.aad.nonce # k
    BY <1>1, NamesAssumption DEF SysInv, Wire, RequestPacket, ReplyPacket
  <1>4. k \notin Asked /\ Asked' = Asked \cup {k}
    BY <1>1, <1>2, <1>3 DEF Asked
  <1>5. Executions' = Executions /\ Current' = Current
    BY <1>1, ServerStays, HistoryKept
  <1>6. Given' = Given /\ Given[k] = "none"
    BY <1>1 DEF Given, OutcomeOf, SysInv, Connections
  <1> QED BY <1>4, <1>5, <1>6 DEF Contract!Ask

LEMMA OutcomeMaps ==
    ASSUME SysInv, NEW k \in Conns, NEW m, Fit(m, k), Outcome(k, m),
           conn[k] \in {"idle", "waiting"}, UNCHANGED <<wire, vars, past>>
    PROVE  Contract!Answer(k) \/ Contract!GiveUp(k)
  <1>1. result[k] = NoMessage /\ result' = [result EXCEPT ![k] = m] /\ DOMAIN result = Conns
    BY DEF Outcome, SysInv, Connections
  <1>2. Asked' = Asked /\ Executions' = Executions /\ Current' = Current
    BY ServerStays, HistoryKept DEF Asked
  <1>3. Given[k] = "none" /\ Given' = [Given EXCEPT ![k] = OutcomeOf(k)']
    BY <1>1 DEF Given, OutcomeOf
  <1>4. CASE m.type = "error"
    <2>1. OutcomeOf(k)' = "error"
      BY <1>1, <1>4 DEF OutcomeOf, Fit
    <2> QED BY <1>2, <1>3, <2>1 DEF Contract!GiveUp
  <1>5. CASE m.type = "response"
    <2>1. OutcomeOf(k)' = "response"
      BY <1>1, <1>5 DEF OutcomeOf, Fit
    <2>2. Executions[k] > 0
      <3>1. ExecutedFor(k) # {} /\ ExecutedFor(k) \subseteq {h \in Handlers : executed[h]}
        BY <1>5 DEF Fit, ExecutedFor
      <3>2. IsFiniteSet(ExecutedFor(k))
        BY <3>1, FS_Subset DEF SysInv, Counts
      <3>3. Cardinality(ExecutedFor(k)) \in Nat /\ Cardinality(ExecutedFor(k)) # 0
        BY <3>1, <3>2, FS_CardinalityType, FS_EmptySet
      <3> QED BY <3>3 DEF Executions
    <2> QED BY <1>2, <1>3, <2>1, <2>2 DEF Contract!Answer
  <1> QED BY <1>4, <1>5 DEF Fit

LEMMA ClientMaps ==
    ASSUME SysInv, NEW k \in Conns, Client(k), UNCHANGED lifeVars
    PROVE  Contract!Ask(k) \/ Contract!Answer(k) \/ Contract!GiveUp(k) \/ Kept
  <1>1. past' = past
    BY DEF lifeVars
  <1>2. CASE Post(k)
    BY <1>1, <1>2, PostMaps
  <1>3. CASE Reject(k) \/ CarrierFails(k)
    BY <1>1, <1>3, BadRequestFits, OutcomeMaps DEF Reject, CarrierFails
  <1>4. ASSUME NEW p \in wire, Receive(k, p)
        PROVE  Contract!Answer(k) \/ Contract!GiveUp(k)
    <2> DEFINE m == IF IsReplyTo(ClientDecode(p), k) THEN ClientDecode(p).msg ELSE BadRequest
    <2>1. Fit(m, k)
      BY ReplyFits, BadRequestFits
    <2>2. conn[k] = "waiting" /\ Outcome(k, m) /\ UNCHANGED <<wire, vars>>
      BY <1>4 DEF Receive
    <2> HIDE DEF m
    <2> QED BY <1>1, <2>1, <2>2, OutcomeMaps
  <1>5. CASE Write(k) \/ WriteFails(k)
    <2>1. UNCHANGED <<result, wire, vars>>
      BY <1>5 DEF Write, WriteFails
    <2>2. Asked' = Asked /\ Given' = Given
      BY <2>1 DEF Asked, Given, OutcomeOf
    <2> QED BY <1>1, <2>1, <2>2, ServerStays, HistoryKept DEF Kept
  <1> QED BY <1>2, <1>3, <1>4, <1>5 DEF Client

\* The task that reaches the upstream is the only one of its process for its request.
LEMMA ExecuteMaps ==
    ASSUME SysInv, NEW h \in Handlers, Execute(h), TaskStep(h), past' = past,
           Asked' = Asked, Given' = Given
    PROVE  Contract!Execute(Nonce(h)) /\ Nonce(h) \in Conns
  <1> PICK k : k = Nonce(h)
    OBVIOUS
  <1>1. /\ h \in Live /\ Phase(h) /\ Forwarded(h) /\ ~executed[h] /\ request' = request
        /\ executed' = [executed EXCEPT ![h] = TRUE] /\ DOMAIN executed = Handlers
    BY TaskPhase DEF Execute, UpstreamUnchanged, Phase, InUpstream, Fields
  <1>2. ASSUME NEW g \in Handlers, Forwarded(g)
        PROVE  Nonce(g) \in Conns /\ request[g].id = Nonce(g) /\ carrier[g].packet \in wire
    BY <1>2, RequestOnWire DEF Nonce, SysInv, TasksOnWire
  <1>3. k \in Conns /\ request[h].id = k /\ k \in Asked
    BY <1>1, <1>2 DEF Asked, Nonce
  <1>4. h \notin ExecutedFor(k) /\ h \notin past /\ ExecutedFor(k)' = ExecutedFor(k) \cup {h}
    BY <1>1, <1>3 DEF ExecutedFor, Forwarded, Live
  <1>5. \A j : j # k => ExecutedFor(j)' = ExecutedFor(j)
    BY <1>1, <1>3 DEF ExecutedFor
  <1>6. k \notin Current
    <2> SUFFICES ASSUME NEW g \in ExecutedFor(k) \ past PROVE FALSE
      BY DEF Current
    <2>1. g \in Live /\ g \in Handlers /\ Forwarded(g) /\ request[g].id = k /\ g # h
      BY <1>4 DEF ExecutedFor, Live, Forwarded
    <2>2. Nonce(g) = k
      BY <1>2, <2>1
    <2> QED BY <1>1, <2>1, <2>2 DEF SysInv, LiveTasks
  <1>7. Executions' = [Executions EXCEPT ![k] = @ + 1]
    <2>1. ExecutedFor(k) \subseteq {g \in Handlers : executed[g]}
      BY DEF ExecutedFor
    <2>2. IsFiniteSet(ExecutedFor(k))
      BY <2>1, FS_Subset DEF SysInv, Counts
    <2>3. Cardinality(ExecutedFor(k) \cup {h}) = Cardinality(ExecutedFor(k)) + 1
      BY <1>4, <2>2, FS_AddElement
    <2> QED BY <1>3, <1>4, <1>5, <2>3 DEF Executions
  <1>8. Current' = Current \cup {k}
    BY <1>3, <1>4, <1>5 DEF Current
  <1>9. Contract!Execute(k)
    BY <1>3, <1>6, <1>7, <1>8 DEF Contract!Execute
  <1> QED BY <1>3, <1>9

LEMMA TaskMaps ==
    ASSUME SysInv, NEW h \in Handlers, TaskStep(h), wire' = wire \cup NewlySealed,
           UNCHANGED <<clientVars, lifeVars>>
    PROVE  (\E k \in Conns : Contract!Execute(k)) \/ Kept
  <1>1. UNCHANGED <<result, conn, past>>
    BY DEF clientVars, lifeVars
  <1>2. Asked' = Asked
    <2>1. Wire'
      BY <1>1, TaskWire
    <2>2. \A p \in NewlySealed : p.aad.nonce \in Handlers
      <3> TAKE p \in NewlySealed
      <3>1. PICK g \in Handlers : \E m : p = Encode(m, Key, ServerOptions, now, g)
        BY DEF NewlySealed
      <3> QED BY <3>1 DEF Encode, Seal
    <2> QED BY <2>2, NamesAssumption DEF Asked
  <1>3. Given' = Given
    BY <1>1 DEF Given, OutcomeOf
  <1>4. CASE Execute(h)
    BY <1>1, <1>2, <1>3, <1>4, ExecuteMaps
  <1>5. CASE ~Execute(h)
    <2>1. /\ h \in Live /\ Phase(h) /\ \A g \in Handlers \ {h} : Same(g)
      BY TaskPhase DEF Alone
    <2>2. executed'[h] = executed[h] /\ (executed[h] => request'[h] = request[h])
      <3>1. Dispatch(h) => ~executed[h]
        BY <2>1 DEF Dispatch, Phase
      <3> QED BY <1>5, <3>1, TaskFacts
    <2>3. \A k : ExecutedFor(k)' = ExecutedFor(k)
      BY <2>1, <2>2 DEF ExecutedFor, Same
    <2> QED BY <1>1, <1>2, <1>3, <2>3, HistoryKept DEF Kept
  <1> QED BY <1>4, <1>5

LEMMA RestartMaps ==
    ASSUME SysInv, ServerRestarts
    PROVE  Contract!Restart
  <1>1. UNCHANGED <<executed, request, result, wire>> /\ past' = {h \in Handlers : pc[h] # "idle"}
    BY DEF ServerRestarts, clientVars
  <1>2. \A k : ExecutedFor(k)' = ExecutedFor(k) /\ ExecutedFor(k) \subseteq past'
    BY <1>1 DEF ExecutedFor, SysInv, TasksOnWire
  <1>3. Current' = {}
    BY <1>2 DEF Current
  <1>4. Executions' = Executions /\ Asked' = Asked /\ Given' = Given
    BY <1>1, <1>2 DEF Executions, Asked, Given, OutcomeOf
  <1> QED BY <1>3, <1>4 DEF Contract!Restart

\* The relay as a whole, with its tasks, caches, clocks, packets and restarts, implements
\* its contract with the application behind the proxy (README.md 7-34): one life of the
\* server carries a request out at most once, and each connection gets one outcome, a
\* response only for its own request, carried out.
THEOREM ContractHonouredThm == SysSpec => ContractHonoured
  <1>1. SysInit => Contract!Init
    <2> SUFFICES ASSUME SysInit PROVE Contract!Init
      OBVIOUS
    <2>1. \A k : ExecutedFor(k) = {}
      BY DEF SysInit, Init, ExecutedFor
    <2>2. Cardinality({}) = 0
      BY FS_EmptySet
    <2>3. Asked = {} /\ Current = {} /\ Given = [k \in Conns |-> "none"]
      BY <2>1 DEF SysInit, Asked, Current, Given, OutcomeOf
    <2>4. Executions = [k \in Conns |-> 0]
      BY <2>1, <2>2 DEF Executions
    <2> QED BY <2>3, <2>4 DEF Contract!Init
  <1>2. SysInv /\ [SysNext]_sysVars => [Contract!Next]_(Contract!vars)
    <2> SUFFICES ASSUME SysInv, [SysNext]_sysVars
                 PROVE  Contract!Next \/ Kept
      BY DEF Kept, Contract!vars
    <2>1. CASE ClientStep
      BY <2>1, ClientMaps DEF ClientStep, Contract!Next
    <2>2. CASE ServerStep
      <3>1. CASE Tick
        <4>1. /\ UNCHANGED <<executed, request, reply, result, past>>
              /\ wire' = wire \cup NewlySealed
          BY <2>2, <3>1, ServerSteps DEF Tick, handlerVars, clientVars, lifeVars
        <4>2. wire' = wire
          BY <4>1 DEF NewlySealed, NoReply
        <4> QED BY <4>1, <4>2, HistoryKept DEF Kept, ExecutedFor, Asked, Given, OutcomeOf
      <3>2. ASSUME NEW h \in Handlers, TaskStep(h) PROVE Contract!Next \/ Kept
        BY <2>2, <3>2, ServerSteps, TaskMaps DEF Contract!Next
      <3> QED BY <2>2, <3>1, <3>2, ServerSteps
    <2>3. CASE ServerRestarts
      BY <2>3, RestartMaps DEF Contract!Next
    <2>4. CASE ProxyRestarts \/ UNCHANGED sysVars
      <3>1. UNCHANGED <<vars, wire, past, result>>
        BY <2>4 DEF ProxyRestarts, sysVars, clientVars, lifeVars
      <3>2. Asked' = Asked /\ Given' = Given
        BY <3>1 DEF Asked, Given, OutcomeOf
      <3> QED BY <3>1, <3>2, ServerStays, HistoryKept DEF Kept
    <2> QED BY <2>1, <2>2, <2>3, <2>4 DEF SysNext
  <1> QED BY <1>1, <1>2, SysInductive, PTL DEF SysSpec, ContractHonoured, Contract!Spec
=============================================================================
