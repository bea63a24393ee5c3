--------------------------- MODULE MCRelayServer ---------------------------
(* Instances of RelayServer for TLC. *)
EXTENDS RelayServer, TLC

CONSTANTS h1, h2

Request(id, body) == [type |-> "request", id |-> id, body |-> body, info |-> "GET"]
Response(id) == [type |-> "response", id |-> id, body |-> 0, info |-> "upstream"]

Off == [enabled |-> FALSE, threshold |-> 0]
Packet(m, key, ts, nonce) == Encode(m, key, Off, ts, nonce)
Good(p) == [route |-> TRUE, token |-> Token, media |-> TRUE, packet |-> p]

MCLimits == [ciphertext |-> 5, decompressed |-> 3, request |-> 1, response |-> 1]

First  == Packet(Request("r1", 0), Key, 0, "n1")
Second == Packet(Request("r2", 1), Key, 1, "n2")

\* One of everything the endpoint tells apart.
EveryCarrier ==
    {Good(First), Good(Second),
     [Good(First) EXCEPT !.route = FALSE],
     [Good(First) EXCEPT !.token = "wrong"], [Good(First) EXCEPT !.token = "unicode"],
     [Good(First) EXCEPT !.media = FALSE],
     Good(Packet(Request("r3", 2), Key, 0, "n3")),
     Good(Packet(Response("r1"), Key, 0, "n4")),
     Good(Packet(Request("r5", 0), "other", 0, "n5")),
     Good([First EXCEPT !.size = 6])}

\* Two genuine packets.
RacingCarriers == {Good(First), Good(Second)}

Symmetric == Permutations(Handlers)
=============================================================================
