--------------------------- MODULE PacketChannel ---------------------------
(***************************************************************************)
(* A sender that encodes messages, a carrier that may drop, repeat, delay,  *)
(* reorder and alter packets, and a receiver that decodes what arrives with *)
(* its own replay cache: either direction between RelayClient and the       *)
(* server's relay endpoint.  Peers that hold another key, speak another     *)
(* version or encode their maps differently send on the same carrier.       *)
(***************************************************************************)
EXTENDS Packets

CONSTANTS
    Key,        \* the key of the receiver
    OtherKey,   \* the key of a peer configured with another one
    Messages,   \* messages the sender may send
    Foreign,    \* messages a peer that is no match for the receiver may send
    Options,    \* compression settings: records with fields enabled, threshold
    Limits,     \* the receiver's limits: ciphertext, decompressed, request, response
    Nonces,     \* bound: as many packets are sealed
    MaxTime,    \* bound: the clock stops there
    MaxAltered  \* bound: the carrier alters as many packets

\* No key opens a ciphertext that was altered, and the dataclasses admit these types.
ASSUME ChannelAssumption ==
    /\ Key # NoKey
    /\ \A m \in Messages \cup Foreign :
          m.type \in {"request", "response", "error"} /\ m.body \in Nat
    /\ \A limit \in {"ciphertext", "decompressed", "request", "response"} : Limits[limit] \in Nat
    /\ MaxTime \in Nat /\ MaxAltered \in Nat

VARIABLES
    wire,     \* every packet the carrier holds; it may deliver each again
    sent,     \* history: nonce -> what was sealed under it
    altered,  \* history: how many packets the carrier altered
    seen,     \* the receiver's replay cache
    now,      \* the clock
    reads     \* history: how often a packet with this nonce was decompressed and loaded

vars == <<wire, sent, altered, seen, now, reads>>

NoReads == [n \in Nonces |-> 0]

Init ==
    /\ wire = {}
    /\ sent = EmptyCache
    /\ altered = 0
    /\ seen = EmptyCache
    /\ now = 0
    /\ reads = NoReads

Unused == Nonces \ DOMAIN sent

Put(nonce, packet) ==
    /\ wire' = wire \cup {packet}
    /\ sent' = [n \in DOMAIN sent \cup {nonce} |->
                   IF n = nonce THEN packet ELSE sent[n]]
    /\ UNCHANGED <<altered, seen, now, reads>>

-----------------------------------------------------------------------------
\* encode_message: a fresh nonce and the present time go into the header.
Send(m, opts) ==
    \E n \in Unused : Put(n, Encode(m, Key, opts, now, n))

\* Packets of peers this receiver cannot understand: sealed with another key, of
\* another version, with fields the schema refuses, flagged as compressed without
\* being so or the reverse, or with an outer type that is not the map's.
ForeignPackets(m, n) ==
    LET raw == Dumps(m)
        plain == Plain(raw)
    IN  {Seal(plain, OtherKey, m.type, FALSE, now, n),
         Seal(Plain([raw EXCEPT !.version = Version + 1]), Key, m.type, FALSE, now, n),
         Seal(Plain([raw EXCEPT !.typed = FALSE]), Key, m.type, FALSE, now, n),
         Seal(Plain([raw EXCEPT !.valid = FALSE]), Key, m.type, FALSE, now, n),
         Seal(plain, Key, m.type, TRUE, now, n),
         Seal(Zstd(raw), Key, m.type, FALSE, now, n)}
        \cup {Seal(plain, Key, type, FALSE, now, n) : type \in {"request", "response"} \ {m.type}}

SendForeign(m) ==
    \E n \in Unused : \E p \in ForeignPackets(m, n) : Put(n, p)

\* The carrier changes a header field, the length, the ciphertext, or cuts it off; what
\* is left of a ciphertext opens under no key.
AlteredForms(p) ==
    {[p EXCEPT !.aad.nonce = n] : n \in Nonces}
    \cup {[p EXCEPT !.aad.type = type] : type \in {"request", "response", "error"}}
    \cup {[p EXCEPT !.aad.ts = now],
          [p EXCEPT !.aad.compressed = ~p.aad.compressed],
          [p EXCEPT !.aad.wellFormed = FALSE],
          [p EXCEPT !.claimed = 0],
          [p EXCEPT !.claimed = p.claimed + 1],
          [p EXCEPT !.size = HeaderSize - 1, !.ct.key = NoKey],
          [p EXCEPT !.size = p.size - 1, !.ct.key = NoKey],
          [p EXCEPT !.ct.key = NoKey]}

Alter(p) ==
    /\ altered < MaxAltered
    /\ \E q \in AlteredForms(p) \ {p} : wire' = wire \cup {q}
    /\ altered' = altered + 1
    /\ UNCHANGED <<sent, seen, now, reads>>

\* What decode_message would make of p now.
Outcome(p) == Decode(p, Key, seen, now, Limits)

Unpacked(exc) ==
    exc \in {"ok", "CompressionError", "SerializationError",
             "RequestTooLargeError", "ResponseTooLargeError"}

\* decode_message on one arriving packet; the carrier keeps a copy.
Receive(p) ==
    /\ seen' = Outcome(p).seen
    /\ IF Unpacked(Outcome(p).exc)
       THEN /\ reads[p.aad.nonce] < 2
            /\ reads' = [reads EXCEPT ![p.aad.nonce] = @ + 1]
       ELSE UNCHANGED reads
    /\ UNCHANGED <<wire, sent, altered, now>>

Tick ==
    /\ now < MaxTime
    /\ now' = now + 1
    /\ UNCHANGED <<wire, sent, altered, seen, reads>>

Next ==
    \/ \E m \in Messages, opts \in Options : Send(m, opts)
    \/ \E m \in Foreign : SendForeign(m)
    \/ \E p \in wire : Alter(p) \/ Receive(p)
    \/ Tick

Spec == Init /\ [][Next]_vars

-----------------------------------------------------------------------------
TypeOK ==
    /\ DOMAIN sent \subseteq Nonces
    /\ \A n \in DOMAIN sent : sent[n].aad.nonce = n /\ sent[n].aad.ts \in 0 .. now
    /\ altered \in 0 .. MaxAltered
    /\ \A n \in DOMAIN seen : seen[n] \in 0 .. MaxTime
    /\ reads \in [Nonces -> 0 .. 2]
    /\ \A p \in wire : Outcome(p).msg \in Messages \cup Foreign \cup {NoMessage}

\* p reached the receiver the way its sender made it.
AsSealed(p) == p.aad.nonce \in DOMAIN sent /\ p = sent[p.aad.nonce]

\* Whatever the carrier does to packets, a message comes out of the receiver only
\* as it was sealed: same message, same key, under its own nonce (aead.py 75, the
\* header being associated data).
OnlyGenuine ==
    \A p \in wire : Outcome(p).exc = "ok" =>
        /\ AsSealed(p)
        /\ p.ct.key = Key
        /\ Outcome(p).msg = p.ct.plain.raw.msg
        /\ Outcome(p).msg.type = p.aad.type

\* A nonce enters the replay cache only with the timestamp it was sealed with and
\* under the receiver's key: packets that do not authenticate take up no entry and
\* cannot burn the nonce of a genuine one (pipeline.py 46-48).
OnlyAuthenticBurn ==
    \A n \in DOMAIN seen :
        n \in DOMAIN sent /\ sent[n].ct.key = Key /\ seen[n] = sent[n].aad.ts

\* A packet is decompressed and loaded at most once, even one whose payload was
\* refused afterwards: the nonce is stored first (pipeline.py 47-52).
ReadOnce == \A n \in Nonces : reads[n] <= 1

\* The carrier and decompression limits leave room for every body the body limits
\* allow, and for the frame of a map that does not shrink, as the defaults of
\* constants.py do.
LimitsCompatible ==
    \A body \in {Limits.request, Limits.response} :
        /\ MapSize + body <= Limits.decompressed
        /\ MapSize + body + FrameOverhead + TagSize <= Limits.ciphertext

\* p is what encode_message made of a message of one of these types, on its first
\* arrival inside the window at a receiver with room for its nonce.
Deliverable(p, types) ==
    LET n == p.aad.nonce
    IN  /\ AsSealed(p)
        /\ p.aad.type \in types
        /\ \E m \in Messages, opts \in Options : p = Encode(m, Key, opts, p.aad.ts, n)
        /\ p.aad.ts \in (now - Window) .. (now + Skew)
        /\ n \notin DOMAIN seen
        /\ Cardinality(DOMAIN Purge(seen, now)) < MaxEntries

GetsThrough(p) == Outcome(p).exc = "ok" /\ Outcome(p).msg = p.ct.plain.raw.msg

\* The body limits are exact when the carrier's leaves room for the longest frame: a
\* request or response gets through on its first arrival, whatever the compression
\* settings of its sender and however badly its map compresses (compression.py 11-14
\* keeps a frame that grew), if and only if its body is within the receiver's limit
\* for its type; also where zstandard does not enforce max_decompressed_bytes
\* (pipeline.py 22-60).
BodiesGetThrough ==
    LimitsCompatible =>
        \A p \in wire : Deliverable(p, {"request", "response"}) =>
            (GetsThrough(p) <=> p.ct.plain.raw.msg.body <= Limits[p.aad.type])

\* RelayError messages get through too: what the server encodes for a failed
\* request, the client's decode_message returns as a RelayError (README.md 86).
ErrorsGetThrough ==
    \A p \in wire : Deliverable(p, {"error"}) => GetsThrough(p)
=============================================================================
