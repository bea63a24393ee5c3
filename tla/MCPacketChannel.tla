-------------------------- MODULE MCPacketChannel --------------------------
(* Instances of PacketChannel for TLC. *)
EXTENDS PacketChannel

Message(type, id, body, info) == [type |-> type, id |-> id, body |-> body, info |-> info]

\* Bodies that are empty, at the limit and over it, for the limits below; the response
\* at its limit is one that grows when it is compressed.
MCMessages ==
    {Message("request", "r1", 4, "text"), Message("request", "r2", 5, "text"),
     Message("response", "r1", 0, "text"), Message("response", "r1", 6, "noise"),
     Message("response", "r2", 7, "text")}

MCErrors == {Message("error", "r1", 0, "text")}

\* Compression off, and from a threshold that separates the bodies above.
MCOptions == {[enabled |-> FALSE, threshold |-> 0], [enabled |-> TRUE, threshold |-> 6]}

MCLimits == [ciphertext |-> 11, decompressed |-> 8, request |-> 4, response |-> 6]
MCForeign == {Message("request", "r1", 4, "text")}

NoMessages == {}
=============================================================================
