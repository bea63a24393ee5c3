---------------------------- MODULE RelaySystem ----------------------------
(***************************************************************************)
(* The whole relay: LocalProxy and RelayClient on one side, the server      *)
(* process of RelayServer on the other, and a carrier between them that may *)
(* lose, repeat, delay, reorder and misdirect the packets of both           *)
(* directions.  Forged and altered packets are the subject of PacketChannel *)
(* and bad tokens that of RelayServer; here the carrier handles genuine     *)
(* packets.                                                                 *)
(*                                                                         *)
(* Each connection of the application is a task of the proxy.  Its request  *)
(* id and the nonce of its packet are fresh random values: the connection's *)
(* own name stands for both, and a server task's name for the nonce of the  *)
(* one reply it seals.                                                      *)
(***************************************************************************)
EXTENDS RelayServer

CONSTANTS
    Conns,          \* connections of the application to the local proxy
    ClientAhead,    \* how far the client's clock is ahead of the server's
    ClientLimits,   \* the client's limits, a settings object of its own
    ClientOptions,  \* the client's compression settings
    ServerOptions,  \* the server's
    MaxRestarts     \* bound: as many processes die and are started again

ASSUME ClockAssumption == ClientAhead \in Int /\ MaxRestarts \in Nat

VARIABLES
    conn,        \* where each connection is: idle, waiting, writing, closed, broken
    result,      \* what write_response is given, or NoMessage
    wire,        \* every packet sealed so far; the carrier may deliver any again
    clientSeen,  \* RelayClient.replay_cache
    past,        \* history: the server tasks of earlier server processes
    restarts     \* how many processes have been started again

clientVars == <<conn, result, clientSeen>>
lifeVars == <<past, restarts>>
sysVars == <<vars, clientVars, wire, lifeVars>>

SysInit ==
    /\ Init
    /\ conn = [k \in Conns |-> "idle"]
    /\ result = [k \in Conns |-> NoMessage]
    /\ wire = {}
    /\ clientSeen = EmptyCache
    /\ past = {}
    /\ restarts = 0

ClientNow == now + ClientAhead
BadRequest == RelayError(NoId, "bad_request")
RequestOf(k) == [type |-> "request", id |-> k, body |-> 0, info |-> "GET"]

\* The names stand for fresh random values, none of them None, and no message is taken
\* for its absence; the limits of both sides are those RelaySettings validates.
ASSUME NamesAssumption ==
    /\ Conns \cap Handlers = {} /\ NoId \notin Conns
    /\ \A k \in Conns : RequestOf(k) # NoMessage
    /\ \A id \in Conns \cup {NoId} :
          /\ \A code \in Codes : RelayError(id, code) # NoMessage
          /\ \A n \in 0 .. Limits.response : RelayResponse(id, n) # NoMessage

ASSUME ClientLimitsAssumption ==
    \A limit \in {"ciphertext", "decompressed", "request", "response"} : ClientLimits[limit] \in Nat

-----------------------------------------------------------------------------
(* LocalProxy.handle and RelayClient.send *)

\* A request is read, given a fresh id, sealed with the client's clock and posted.
Post(k) ==
    /\ conn[k] = "idle"
    /\ conn' = [conn EXCEPT ![k] = "waiting"]
    /\ wire' = wire \cup {Encode(RequestOf(k), Key, ClientOptions, ClientNow, k)}
    /\ UNCHANGED <<result, clientSeen, vars>>

\* Mutant: the handler of the exception leaves response unset.
OutcomeUnset(k, message) ==
    /\ conn' = [conn EXCEPT ![k] = "writing"]
    /\ UNCHANGED result
\* handle goes on to write_response with this message.
Outcome(k, message) ==
    /\ conn' = [conn EXCEPT ![k] = "writing"]
    /\ result' = [result EXCEPT ![k] = message]

\* The request cannot be read or is none the relay carries.
Reject(k) ==
    /\ conn[k] = "idle"
    /\ Outcome(k, BadRequest)
    /\ UNCHANGED <<wire, clientSeen, vars>>

\* The POST fails, times out, or is answered with a status other than 2xx.
CarrierFails(k) ==
    /\ conn[k] = "waiting"
    /\ Outcome(k, BadRequest)
    /\ UNCHANGED <<wire, clientSeen, vars>>

\* Mutant: the reply's id is not compared.
IsReplyToAnyone(d, k) == d.exc = "ok" /\ d.msg.type \in {"response", "error"}
\* send returns the message: it decodes, is a reply, and carries no other id.
IsReplyTo(d, k) ==
    /\ d.exc = "ok"
    /\ d.msg.type \in {"response", "error"}
    /\ d.msg.id \in {NoId, k}

ClientDecode(p) == Decode(p, Key, clientSeen, ClientNow, ClientLimits)

\* A packet arrives as the body of a 2xx answer to this connection's POST.
Receive(k, p) ==
    LET d == ClientDecode(p)
    IN  /\ conn[k] = "waiting"
        /\ Outcome(k, IF IsReplyTo(d, k) THEN d.msg ELSE BadRequest)
        /\ clientSeen' = d.seen
        /\ UNCHANGED <<wire, vars>>

\* write_response and close.  Encoding a header of the response or writing to an
\* application that has gone raises, outside the try, with part of it written.
Write(k) ==
    /\ conn[k] = "writing"
    /\ conn' = [conn EXCEPT ![k] = "closed"]
    /\ UNCHANGED <<result, clientSeen, wire, vars>>

WriteFails(k) ==
    /\ conn[k] = "writing"
    /\ conn' = [conn EXCEPT ![k] = "broken"]
    /\ UNCHANGED <<result, clientSeen, wire, vars>>

Client(k) ==
    \/ Post(k) \/ Reject(k) \/ CarrierFails(k)
    \/ \E p \in wire : Receive(k, p)
    \/ Write(k) \/ WriteFails(k)

ClientStep ==
    /\ \E k \in Conns : Client(k)
    /\ UNCHANGED lifeVars

-----------------------------------------------------------------------------
(* The server, and the carrier in front of it *)

\* The packets the tasks of this step seal, with the server's clock.
NewlySealed ==
    {Encode(reply'[h].msg, Key, ServerOptions, now, h) :
        h \in {g \in Handlers : reply[g] = NoReply /\ reply'[g].msg # NoMessage}}

Delivered(p) == [route |-> TRUE, token |-> Token, media |-> TRUE, packet |-> p]

\* The carrier delivers a whole body: how bodies are cut is RelayServer's subject.
ReadAll(h) ==
    /\ ReadChunk(h)
    /\ buffered'[h] \in {buffered[h], carrier[h].packet.size}

\* How a call fails and how a response is cut are RelayServer's subject as well: one
\* failure stands for all, since the client cannot decode a RelayError of any code.
Call(h) == Execute(h) \/ Head(h) \/ End(h) \/ Timeout(h)

ServerStep ==
    /\ \/ \E h \in Handlers :
             \/ \E p \in wire : Arrive(h, Delivered(p))
             \/ Handle(h) \/ ReadAll(h) \/ Disconnect(h) \/ Call(h)
       \/ Tick
    /\ wire' = wire \cup NewlySealed
    /\ UNCHANGED <<clientVars, lifeVars>>

-----------------------------------------------------------------------------
(* Processes die at any moment and are started again; nothing is persisted *)

\* The server's tasks end where they are, and create_app makes a new cache and client.
\* An orderly shutdown and a start look the same from outside; its own steps are the
\* subject of RelayServer.
ServerRestarts ==
    /\ restarts < MaxRestarts
    /\ restarts' = restarts + 1
    /\ past' = {h \in Handlers : pc[h] # "idle"}
    /\ pc' = [h \in Handlers |-> IF h \in Active THEN "done" ELSE pc[h]]
    /\ outstanding' = 0
    /\ seen' = EmptyCache
    /\ UNCHANGED <<carrier, buffered, request, reply, executed, late, renewed, lifespan,
                   overdue, now, clientVars, wire>>

\* The proxy's connections break, whatever the server is still doing for them.
ProxyRestarts ==
    /\ restarts < MaxRestarts
    /\ restarts' = restarts + 1
    /\ conn' = [k \in Conns |-> IF conn[k] \in {"waiting", "writing"} THEN "broken" ELSE conn[k]]
    /\ clientSeen' = EmptyCache
    /\ UNCHANGED <<result, wire, past, vars>>

SysNext == ClientStep \/ ServerStep \/ ServerRestarts \/ ProxyRestarts

SysSpec == SysInit /\ [][SysNext]_sysVars

-----------------------------------------------------------------------------
SysTypeOK ==
    /\ conn \in [Conns -> {"idle", "waiting", "writing", "closed", "broken"}]
    /\ \A k \in Conns :
          /\ conn[k] \in {"idle", "waiting"} => result[k] = NoMessage
          /\ conn[k] \in {"writing", "closed"} => result[k] # NoMessage
    /\ \A p \in wire : p.aad.nonce \in Conns \cup Handlers
    /\ DOMAIN clientSeen \subseteq Conns \cup Handlers
    /\ past \subseteq {h \in Handlers : pc[h] = "done"}
    /\ restarts \in 0 .. MaxRestarts

ExecutedFor(k) ==
    {h \in Handlers : executed[h] /\ request[h] # NoMessage /\ request[h].id = k}

\* No connection is given the response to another one's request, whatever the
\* carrier does with the packets of both directions (relay_client.py 54-58).
NoCrossTalk ==
    \A k \in Conns :
        (result[k] # NoMessage /\ result[k].type # "error") =>
            /\ result[k].type = "response"
            /\ result[k].id = k
            /\ ExecutedFor(k) # {}

\* Each side's limits leave room for what the other sends, and for the frame of a map that
\* does not shrink: the requests of the connections, every response the server may seal.
Roomy(limits, body) ==
    /\ MapSize + body <= limits.decompressed
    /\ MapSize + body + FrameOverhead + TagSize <= limits.ciphertext
ServerTakesRequests == Roomy(Limits, 0)
ClientTakesReplies == Limits.response <= ClientLimits.response /\ Roomy(ClientLimits, Limits.response)

Room(cache, t) == Cardinality(DOMAIN Purge(cache, t)) < MaxEntries

\* The clocks of the two hosts may differ by the skew in either direction, to the second,
\* and an exchange is not refused for them (replay.py 42-49, relay_client.py 45-58).  A
\* request is forwarded on its first arrival as long as its age, less what the client's
\* clock is ahead, is within the window; a response is accepted by the connection it is
\* for as long as its age and what the client's clock is ahead are within it; if caches
\* and limits have room.
PromptPacketsAccepted ==
    /\ (ServerTakesRequests /\ ClientAhead <= Skew) => \A p \in wire :
          (/\ p.aad.type = "request"
           /\ p.aad.ts <= ClientNow /\ (ClientNow - p.aad.ts) - ClientAhead <= Window
           /\ p.aad.nonce \notin DOMAIN seen /\ Room(seen, now))
          => Forwardable(Decode(p, Key, seen, now, Limits))
    /\ (ClientTakesReplies /\ -ClientAhead <= Skew) => \A k \in Conns, p \in wire :
          (/\ conn[k] = "waiting"
           /\ p.aad.type = "response" /\ p.ct.plain.raw.msg.id = k
           /\ p.aad.ts <= now /\ (now - p.aad.ts) + ClientAhead <= Window
           /\ p.aad.nonce \notin DOMAIN clientSeen /\ Room(clientSeen, ClientNow))
          => IsReplyTo(ClientDecode(p), k)

OutcomeOf(k) ==
    IF result[k] = NoMessage THEN "none"
    ELSE IF result[k].type = "error" THEN "error"
    ELSE IF result[k].id = k THEN "response" ELSE "mixed up"

\* What the application's side of the contract sees of the relay.
Asked == {k \in Conns : \E p \in wire : p.aad.nonce = k}
Executions == [k \in Conns |-> Cardinality(ExecutedFor(k))]
Current == {k \in Conns : ExecutedFor(k) \ past # {}}
Given == [k \in Conns |-> OutcomeOf(k)]

\* The relay implements its contract with the application.
Contract == INSTANCE RelayContract WITH
    asked <- Asked, executions <- Executions, current <- Current, outcome <- Given
ContractHonoured == Contract!Spec
=============================================================================
