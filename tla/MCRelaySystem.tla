--------------------------- MODULE MCRelaySystem ---------------------------
(* Instances of RelaySystem for TLC. *)
EXTENDS RelaySystem, TLC

CONSTANTS h1, h2, k1, k2

NoCarriers == {}
MinusOne == -1   \* a cfg cannot hold a negative number
MCLimits == [ciphertext |-> 4, decompressed |-> 3, request |-> 1, response |-> 0]
Off == [enabled |-> FALSE, threshold |-> 0]
On == [enabled |-> TRUE, threshold |-> 0]

Symmetric == Permutations(Handlers) \cup Permutations(Conns)
=============================================================================
