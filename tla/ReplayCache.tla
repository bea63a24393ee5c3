---------------------------- MODULE ReplayCache ----------------------------
(***************************************************************************)
(* One ReplayCache object as a machine: authenticated packets arrive in any *)
(* order and any number of times, the wall clock moves, and the process may *)
(* restart, which empties the cache (it is kept in memory only).            *)
(*                                                                         *)
(* Spec has a clock that never goes back.  WallClockSpec adds the steps     *)
(* time.time() may take when the host's clock is set back.                  *)
(***************************************************************************)
EXTENDS Replay

CONSTANTS
    Packets,    \* the packets that can arrive: records with fields nonce, ts
    MaxTime,    \* bound: the clock stops there
    MaxAccepts  \* bound: a packet is admitted at most this often

\* seal draws a fresh random nonce for every packet.
ASSUME PacketsAssumption ==
    /\ \A p \in Packets : p.ts \in Nat
    /\ \A p, q \in Packets : p.nonce = q.nonce => p = q

ASSUME BoundsAssumption == MaxTime \in Nat /\ MaxAccepts \in Nat

VARIABLES
    seen,       \* the dict _seen
    now,        \* int(time.time() * 1000)
    accepted,   \* history: how often each packet was admitted by this process
    peak        \* history: the latest time at which this process looked at a packet

vars == <<seen, now, accepted, peak>>

Nonces == {p.nonce : p \in Packets}
NoneAccepted == [p \in Packets |-> 0]

Init ==
    /\ seen = EmptyCache
    /\ now = 0
    /\ accepted = NoneAccepted
    /\ peak = 0

-----------------------------------------------------------------------------
\* A call of check_and_store reads the clock once.
ReadsClock == peak' = IF now > peak THEN now ELSE peak

\* check_and_store returns: the packet goes on to be decompressed and decoded.
Accept(p) ==
    /\ accepted[p] < MaxAccepts
    /\ Verdict(seen, p.nonce, p.ts, now) = "ok"
    /\ seen' = SeenAfter(seen, p.nonce, p.ts, now)
    /\ accepted' = [accepted EXCEPT ![p] = @ + 1]
    /\ ReadsClock
    /\ UNCHANGED now

\* check_and_store raises; the purge it did first stays done.
Refuse(p) ==
    /\ Verdict(seen, p.nonce, p.ts, now) # "ok"
    /\ seen' = SeenAfter(seen, p.nonce, p.ts, now)
    /\ ReadsClock
    /\ UNCHANGED <<now, accepted>>

Tick ==
    /\ now < MaxTime
    /\ now' = now + 1
    /\ UNCHANGED <<seen, accepted, peak>>

\* The operator or the time daemon sets the host clock back.
StepBack ==
    /\ now' \in 0 .. (now - 1)
    /\ UNCHANGED <<seen, accepted, peak>>

\* A new process: nothing of the cache is persisted.
Restart ==
    /\ seen' = EmptyCache
    /\ accepted' = NoneAccepted
    /\ peak' = 0
    /\ UNCHANGED now

Next == (\E p \in Packets : Accept(p) \/ Refuse(p)) \/ Tick \/ Restart

Spec == Init /\ [][Next]_vars

WallClockNext == Next \/ StepBack

WallClockSpec == Init /\ [][WallClockNext]_vars

-----------------------------------------------------------------------------
TypeOK ==
    /\ DOMAIN seen \subseteq Nonces
    /\ \A n \in DOMAIN seen : seen[n] \in Nat
    /\ now \in 0 .. MaxTime
    /\ peak \in 0 .. MaxTime
    /\ accepted \in [Packets -> 0 .. MaxAccepts]

\* Between two restarts no packet gets past the cache twice, however often and
\* however late the carrier delivers it: the entry outlives the packet's
\* freshness (replay.py 41-50, purge and expiry share one cutoff).
AtMostOnce == \A p \in Packets : accepted[p] <= 1

\* The cache never holds more than max_entries nonces (replay.py 48).
BoundedCache == Cardinality(DOMAIN seen) <= MaxEntries

\* An entry can be reclaimed once Window + Skew have passed since it was stored:
\* no entry lies further ahead of the latest clock reading than the skew, so a
\* full cache cannot be pinned by packets from the future (replay.py 44).
ReclaimBound == \A n \in DOMAIN seen : seen[n] <= peak + Skew

\* A packet that is fresh and was never admitted would only be turned away when
\* MaxEntries other packets admitted by this process are still inside the
\* window: expired entries never cost a live packet its place (replay.py 41, 48).
NoFalseRefusal ==
    \A p \in Packets :
        (/\ accepted[p] = 0
         /\ p.ts \in (now - Window) .. (now + Skew)
         /\ Verdict(seen, p.nonce, p.ts, now) # "ok")
        => Cardinality({q \in Packets : accepted[q] > 0 /\ ~Expired(q.ts, now)})
             >= MaxEntries

\* With a clock that can be set back a packet may be admitted again, but only one
\* that had already left the window at the latest time at which the process looked at a
\* packet, and so purged: an entry is lost to nothing else (replay.py 41, 52-56).
RepeatsAreOld ==
    \A p \in Packets : accepted[p] > 1 => Expired(p.ts, peak)

\* The cache implements the at-most-once delivery of DeliverOnce.
Delivery == INSTANCE DeliverOnce WITH delivered <- accepted, clock <- now
DeliveryRefined == Delivery!Spec
=============================================================================
