------------------------------- MODULE Replay -------------------------------
(***************************************************************************)
(* The decision procedure of RelayX's replay cache, relayx.protocol.replay, *)
(* as operators on a cache value.  A cache is a function from the nonces it *)
(* remembers to the timestamps their packets carry (the dict _seen).  The   *)
(* clock unit stands for a millisecond.                                     *)
(*                                                                         *)
(* check_and_store runs without an await, so a call is one step of whatever *)
(* machine uses these operators.                                            *)
(***************************************************************************)
EXTENDS Integers, FiniteSets, Functions

CONSTANTS
    Window,     \* replay_window_seconds * 1000
    Skew,       \* allowed_clock_skew_seconds * 1000
    MaxEntries  \* replay_cache_max_entries

\* What RelaySettings validates: a positive window and size, any skew >= 0.
ASSUME ReplayAssumption ==
    /\ Window \in Nat \ {0}
    /\ Skew \in Nat
    /\ MaxEntries \in Nat \ {0}

EmptyCache == [n \in {} |-> 0]

-----------------------------------------------------------------------------
\* A packet stamped ts is past the window when the clock reads t.  The same
\* cutoff decides which packets are refused and which entries are purged.
Expired(ts, t) == ts < t - Window

\* Mutants: the future check is missing; it refuses the packet at its limit.
FromFutureNever(ts, t) == FALSE
FromFutureStrict(ts, t) == ts >= t + Skew
FromFuture(ts, t) == ts > t + Skew

\* Mutants of the purge: it also drops the entry that is exactly at the cutoff
\* (which check_and_store still admits); it never drops anything; it takes its
\* cutoff from a reading later than the one the checks use.
PurgeBoundary(cache, t) ==
    Restrict(cache, {n \in DOMAIN cache : cache[n] > t - Window})
PurgeNothing(cache, t) == cache
PurgeAhead(cache, t) ==
    Restrict(cache, {n \in DOMAIN cache : ~Expired(cache[n], t + 1)})

\* _purge: forget every entry whose packet would be refused as expired anyway.
Purge(cache, t) ==
    Restrict(cache, {n \in DOMAIN cache : ~Expired(cache[n], t)})

\* Mutant: off by one at the capacity.
FullOffByOne(cache) == Cardinality(DOMAIN cache) > MaxEntries
Full(cache) == Cardinality(DOMAIN cache) >= MaxEntries

\* Mutant: the entry records when it stops mattering instead of the timestamp.
StoreCutoff(cache, nonce, ts) ==
    [n \in DOMAIN cache \cup {nonce} |-> IF n = nonce THEN ts - Window ELSE cache[n]]
Store(cache, nonce, ts) ==
    [n \in DOMAIN cache \cup {nonce} |-> IF n = nonce THEN ts ELSE cache[n]]

-----------------------------------------------------------------------------
\* The checks after the purge, in the order check_and_store makes them; a value
\* other than "ok" names the exception it raises.
Judge(live, nonce, ts, t) ==
    IF Expired(ts, t) THEN "PacketExpiredError"
    ELSE IF FromFuture(ts, t) THEN "PacketFromFutureError"
    ELSE IF nonce \in DOMAIN live THEN "ReplayDetectedError"
    ELSE IF Full(live) THEN "ReplayCacheFullError"
    ELSE "ok"

\* What one call of check_and_store answers ...
Verdict(cache, nonce, ts, t) == Judge(Purge(cache, t), nonce, ts, t)

\* ... and the cache it leaves behind: a refusal purges too, and stores nothing.
SeenAfter(cache, nonce, ts, t) ==
    IF Verdict(cache, nonce, ts, t) = "ok"
    THEN Store(Purge(cache, t), nonce, ts)
    ELSE Purge(cache, t)
=============================================================================
