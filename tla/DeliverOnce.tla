---------------------------- MODULE DeliverOnce ----------------------------
(***************************************************************************)
(* What the replay cache promises the code behind it, with no cache in      *)
(* sight: between two restarts of the process a packet is delivered at most *)
(* once, and only while the receiver's clock is close to its timestamp.     *)
(***************************************************************************)
EXTENDS Integers

CONSTANTS
    Packets,    \* records with fields nonce and ts
    Window,
    Skew

VARIABLES
    delivered,  \* how often each packet was delivered since the last restart
    clock       \* the receiver's clock

vars == <<delivered, clock>>

Undelivered == [p \in Packets |-> 0]

Init == delivered = Undelivered /\ clock = 0

Deliver(p) ==
    /\ delivered[p] = 0
    /\ p.ts \in (clock - Window) .. (clock + Skew)
    /\ delivered' = [delivered EXCEPT ![p] = 1]
    /\ UNCHANGED clock

Advance ==
    /\ clock' = clock + 1
    /\ UNCHANGED delivered

Restart ==
    /\ delivered' = Undelivered
    /\ UNCHANGED clock

Next == (\E p \in Packets : Deliver(p)) \/ Advance \/ Restart

Spec == Init /\ [][Next]_vars
=============================================================================
