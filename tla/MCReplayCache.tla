--------------------------- MODULE MCReplayCache ---------------------------
(* Instances of ReplayCache for TLC. *)
EXTENDS ReplayCache

\* Five packets with timestamps on every side of the window as the clock runs
\* from 0 to MaxTime, two of them with the same timestamp.
MCPackets == {[nonce |-> "a", ts |-> 0], [nonce |-> "b", ts |-> 1],
              [nonce |-> "c", ts |-> 1], [nonce |-> "d", ts |-> 3],
              [nonce |-> "e", ts |-> 4]}
=============================================================================
