---------------------------- MODULE ReplayProofs ----------------------------
(***************************************************************************)
(* Lemmas about the operators of Replay, for every machine that uses them.  *)
(***************************************************************************)
EXTENDS Replay, FiniteSetTheorems, TLAPS

\* A purge only removes entries, and keeps every entry still in the window.
LEMMA PurgeFacts ==
    ASSUME NEW cache, NEW t
    PROVE  /\ DOMAIN Purge(cache, t) = {n \in DOMAIN cache : ~Expired(cache[n], t)}
           /\ \A n \in DOMAIN Purge(cache, t) : Purge(cache, t)[n] = cache[n]
  BY DEF Purge, Restrict

\* A packet passes exactly when none of the four refusals applies to it.
LEMMA VerdictOk ==
    ASSUME NEW cache, NEW n, NEW ts, NEW t,
           Verdict(cache, n, ts, t) = "ok"
    PROVE  /\ ~Expired(ts, t)
           /\ ~FromFuture(ts, t)
           /\ n \notin DOMAIN Purge(cache, t)
           /\ ~Full(Purge(cache, t))
  BY DEF Verdict, Judge

\* A packet inside the window is admitted by a cache that has not seen its nonce and
\* has room once it is purged.
LEMMA VerdictFresh ==
    ASSUME NEW cache, NEW n, NEW ts \in Int, NEW t \in Int,
           ts \in (t - Window) .. (t + Skew), n \notin DOMAIN cache,
           IsFiniteSet(DOMAIN cache), Cardinality(DOMAIN Purge(cache, t)) < MaxEntries
    PROVE  Verdict(cache, n, ts, t) = "ok"
  <1>1. ~Expired(ts, t) /\ ~FromFuture(ts, t)
    BY ReplayAssumption DEF Expired, FromFuture
  <1>2. DOMAIN Purge(cache, t) \subseteq DOMAIN cache
    BY PurgeFacts
  <1>3. Cardinality(DOMAIN Purge(cache, t)) \in Nat
    BY <1>2, FS_Subset, FS_CardinalityType
  <1>4. ~Full(Purge(cache, t))
    BY <1>3, ReplayAssumption DEF Full
  <1>5. n \notin DOMAIN Purge(cache, t)
    BY <1>2
  <1> QED BY <1>1, <1>4, <1>5 DEF Verdict, Judge

\* A packet that is refused leaves the purged cache behind.
LEMMA PurgedAfterRefusal ==
    ASSUME NEW cache, NEW n, NEW ts, NEW t,
           Verdict(cache, n, ts, t) # "ok"
    PROVE  SeenAfter(cache, n, ts, t) = Purge(cache, t)
  BY DEF SeenAfter

\* What has left the window stays outside it as time goes on.
LEMMA ExpiredStays ==
    ASSUME NEW x \in Nat, NEW t \in Int, NEW u \in Int, t <= u, Expired(x, t)
    PROVE  Expired(x, u)
  BY ReplayAssumption DEF Expired

\* What one call leaves of a nonce: the timestamp just stored, or what was there.
LEMMA SeenAfterFacts ==
    ASSUME NEW cache, NEW n, NEW ts, NEW t
    PROVE  LET after == SeenAfter(cache, n, ts, t)
               live == {k \in DOMAIN cache : ~Expired(cache[k], t)}
           IN  /\ live \subseteq DOMAIN after
               /\ DOMAIN after \subseteq live \cup {n}
               /\ \A k \in DOMAIN after \ {n} : after[k] = cache[k]
               /\ IF Verdict(cache, n, ts, t) = "ok"
                  THEN n \notin live /\ n \in DOMAIN after /\ after[n] = ts
                  ELSE \A k \in DOMAIN after : k \in live /\ after[k] = cache[k]
  <1> DEFINE live == Purge(cache, t)
             after == SeenAfter(cache, n, ts, t)
  <1>1. /\ DOMAIN live = {k \in DOMAIN cache : ~Expired(cache[k], t)}
        /\ \A k \in DOMAIN live : live[k] = cache[k]
    BY PurgeFacts
  <1>2. CASE Verdict(cache, n, ts, t) = "ok"
    <2>1. after = Store(live, n, ts)
      BY <1>2 DEF SeenAfter
    <2>2. n \notin DOMAIN live
      BY <1>2, VerdictOk
    <2> HIDE DEF live, after
    <2>3. /\ DOMAIN after = DOMAIN live \cup {n}
          /\ after[n] = ts
          /\ \A k \in DOMAIN live \ {n} : after[k] = live[k]
      BY <2>1 DEF Store
    <2> QED BY <1>1, <1>2, <2>2, <2>3 DEF after
  <1>3. CASE Verdict(cache, n, ts, t) # "ok"
    <2>1. after = live
      BY <1>3, PurgedAfterRefusal
    <2> HIDE DEF live, after
    <2> QED BY <1>1, <1>3, <2>1 DEF after
  <1> QED BY <1>2, <1>3
=============================================================================
