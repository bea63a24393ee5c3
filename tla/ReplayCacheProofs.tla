------------------------- MODULE ReplayCacheProofs -------------------------
(***************************************************************************)
(* Proofs about ReplayCache, for every window, skew, capacity, set of       *)
(* packets and bound.                                                       *)
(***************************************************************************)
EXTENDS ReplayCache, ReplayProofs

-----------------------------------------------------------------------------
(* The inductive invariant, for a clock that may be set back. *)

\* Every entry stands for a packet this process admitted.
Justified ==
    \A n \in DOMAIN seen :
        \E p \in Packets : n = p.nonce /\ seen[n] = p.ts /\ accepted[p] > 0

\* An admitted packet is forgotten only after it left the window.
Remembered ==
    \A p \in Packets :
        accepted[p] > 0 =>
            \/ p.nonce \in DOMAIN seen /\ seen[p.nonce] = p.ts
            \/ Expired(p.ts, peak)

Finite == IsFiniteSet(DOMAIN seen) /\ BoundedCache

Typing ==
    /\ now \in 0 .. MaxTime
    /\ peak \in 0 .. MaxTime
    /\ accepted \in [Packets -> 0 .. MaxAccepts]

WallInv ==
    Typing /\ Justified /\ Remembered /\ Finite /\ ReclaimBound /\ RepeatsAreOld

LEMMA InitWallInv == Init => WallInv
  <1> SUFFICES ASSUME Init PROVE WallInv
    OBVIOUS
  <1> USE BoundsAssumption, ReplayAssumption
  <1>1. DOMAIN seen = {}
    BY DEF Init, EmptyCache
  <1>2. Typing
    BY DEF Typing, Init, NoneAccepted
  <1>3. Justified /\ ReclaimBound
    BY <1>1 DEF Justified, ReclaimBound
  <1>4. Remembered /\ RepeatsAreOld
    BY DEF Remembered, RepeatsAreOld, Init, NoneAccepted
  <1>5. Finite
    BY <1>1, FS_EmptySet DEF Finite, BoundedCache
  <1> QED BY <1>2, <1>3, <1>4, <1>5 DEF WallInv

\* What is left after a purge satisfies the parts of the invariant about entries.
LEMMA PurgeFinite ==
    ASSUME Finite, NEW t
    PROVE  /\ IsFiniteSet(DOMAIN Purge(seen, t))
           /\ Cardinality(DOMAIN Purge(seen, t)) \in Nat
           /\ Cardinality(DOMAIN Purge(seen, t)) <= MaxEntries
  <1>1. DOMAIN Purge(seen, t) \subseteq DOMAIN seen
    BY PurgeFacts
  <1>2. IsFiniteSet(DOMAIN Purge(seen, t))
        /\ Cardinality(DOMAIN Purge(seen, t)) <= Cardinality(DOMAIN seen)
    BY <1>1, FS_Subset DEF Finite
  <1>3. Cardinality(DOMAIN Purge(seen, t)) \in Nat /\ Cardinality(DOMAIN seen) \in Nat
    BY <1>2, FS_CardinalityType DEF Finite
  <1> QED BY <1>2, <1>3, ReplayAssumption DEF Finite, BoundedCache

LEMMA AcceptWallInv ==
    ASSUME WallInv, NEW p \in Packets, Accept(p)
    PROVE  WallInv'
  <1> USE PacketsAssumption, BoundsAssumption, ReplayAssumption
  <1> DEFINE live == Purge(seen, now)
  <1>1. /\ ~Expired(p.ts, now)
        /\ ~FromFuture(p.ts, now)
        /\ p.nonce \notin DOMAIN live
        /\ ~Full(live)
    BY VerdictOk DEF Accept
  <1>2. /\ DOMAIN seen' = DOMAIN live \cup {p.nonce}
        /\ seen'[p.nonce] = p.ts
        /\ \A k \in DOMAIN live \ {p.nonce} : seen'[k] = seen[k]
    <2>1. seen' = Store(live, p.nonce, p.ts)
      BY DEF Accept, SeenAfter
    <2>2. \A k \in DOMAIN live : live[k] = seen[k]
      BY PurgeFacts
    <2> HIDE DEF live
    <2> QED BY <2>1, <2>2 DEF Store
  <1>3. DOMAIN live = {n \in DOMAIN seen : ~Expired(seen[n], now)}
    BY DEF Purge, Restrict
  <1>4. /\ accepted \in [Packets -> 0 .. MaxAccepts]
        /\ accepted[p] < MaxAccepts
        /\ accepted' = [accepted EXCEPT ![p] = @ + 1]
        /\ now' = now /\ now \in 0 .. MaxTime /\ peak \in 0 .. MaxTime
        /\ peak' \in 0 .. MaxTime /\ peak' >= peak /\ peak' >= now
    BY DEF Accept, ReadsClock, WallInv, Typing
  <1>5. Typing'
    BY <1>4 DEF Typing
  <1>6. Justified'
    <2> SUFFICES ASSUME NEW n \in DOMAIN seen'
                 PROVE  \E q \in Packets : n = q.nonce /\ seen'[n] = q.ts /\ accepted'[q] > 0
      BY DEF Justified
    <2>1. CASE n = p.nonce
      BY <2>1, <1>2, <1>4
    <2>2. CASE n # p.nonce
      <3>1. n \in DOMAIN seen /\ seen'[n] = seen[n]
        BY <2>2, <1>2, <1>3
      <3>2. PICK q \in Packets : n = q.nonce /\ seen[n] = q.ts /\ accepted[q] > 0
        BY <3>1 DEF WallInv, Justified
      <3> QED BY <3>1, <3>2, <1>4
    <2> QED BY <2>1, <2>2
  <1>7. Remembered'
    <2> SUFFICES ASSUME NEW q \in Packets, accepted'[q] > 0
                 PROVE  \/ q.nonce \in DOMAIN seen' /\ seen'[q.nonce] = q.ts
                        \/ Expired(q.ts, peak')
      BY DEF Remembered
    <2>1. CASE q = p
      BY <2>1, <1>2
    <2>2. CASE q # p
      <3>1. accepted[q] > 0 /\ q.nonce # p.nonce
        BY <2>2, <1>4
      <3>2. CASE Expired(q.ts, peak)
        BY <3>2, <1>4 DEF Expired
      <3>3. CASE q.nonce \in DOMAIN seen /\ seen[q.nonce] = q.ts
        <4>1. CASE Expired(q.ts, now)
          BY <4>1, <1>4 DEF Expired
        <4>2. CASE ~Expired(q.ts, now)
          BY <4>2, <3>1, <3>3, <1>2, <1>3
        <4> QED BY <4>1, <4>2
      <3> QED BY <3>1, <3>2, <3>3 DEF WallInv, Remembered
    <2> QED BY <2>1, <2>2
  <1>8. Finite'
    <2>1. /\ IsFiniteSet(DOMAIN live)
          /\ Cardinality(DOMAIN live) \in Nat
          /\ Cardinality(DOMAIN live) < MaxEntries
      BY PurgeFinite, <1>1 DEF WallInv, Full
    <2>2. /\ IsFiniteSet(DOMAIN seen')
          /\ Cardinality(DOMAIN seen') = Cardinality(DOMAIN live) + 1
      BY <2>1, <1>1, <1>2, FS_AddElement
    <2> QED BY <2>1, <2>2 DEF Finite, BoundedCache
  <1>9. ReclaimBound'
    <2> SUFFICES ASSUME NEW n \in DOMAIN seen' PROVE seen'[n] <= peak' + Skew
      BY DEF ReclaimBound
    <2>1. CASE n = p.nonce
      BY <2>1, <1>1, <1>2, <1>4 DEF FromFuture
    <2>2. CASE n # p.nonce
      <3>1. n \in DOMAIN seen /\ seen'[n] = seen[n]
        BY <2>2, <1>2, <1>3
      <3>2. seen[n] \in Nat /\ seen[n] <= peak + Skew
        BY <3>1 DEF WallInv, Justified, ReclaimBound
      <3> QED BY <3>1, <3>2, <1>4
    <2> QED BY <2>1, <2>2
  <1>10. RepeatsAreOld'
    <2> SUFFICES ASSUME NEW q \in Packets, accepted'[q] > 1
                 PROVE  Expired(q.ts, peak')
      BY DEF RepeatsAreOld
    <2>1. CASE q # p
      BY <2>1, <1>4 DEF WallInv, RepeatsAreOld, Expired
    <2>2. CASE q = p
      <3>1. accepted[p] > 0
        BY <2>2, <1>4
      <3>2. ~(p.nonce \in DOMAIN seen /\ seen[p.nonce] = p.ts)
        BY <1>1, <1>3
      <3> QED BY <2>2, <3>1, <3>2, <1>4 DEF WallInv, Remembered, Expired
    <2> QED BY <2>1, <2>2
  <1> QED BY <1>5, <1>6, <1>7, <1>8, <1>9, <1>10 DEF WallInv

LEMMA RefuseWallInv ==
    ASSUME WallInv, NEW p \in Packets, Refuse(p)
    PROVE  WallInv'
  <1> USE PacketsAssumption, BoundsAssumption, ReplayAssumption
  <1>1. seen' = Purge(seen, now)
    BY PurgedAfterRefusal DEF Refuse
  <1>2. /\ DOMAIN seen' = {n \in DOMAIN seen : ~Expired(seen[n], now)}
        /\ \A n \in DOMAIN seen' : seen'[n] = seen[n]
    <2> DEFINE live == Purge(seen, now)
    <2>1. /\ DOMAIN live = {n \in DOMAIN seen : ~Expired(seen[n], now)}
          /\ \A n \in DOMAIN live : live[n] = seen[n]
      BY PurgeFacts
    <2>2. seen' = live
      BY <1>1
    <2> HIDE DEF live
    <2> QED BY <2>1, <2>2
  <1>3. /\ accepted' = accepted /\ now' = now /\ now \in 0 .. MaxTime /\ peak \in 0 .. MaxTime
        /\ peak' \in 0 .. MaxTime /\ peak' >= peak /\ peak' >= now
    BY DEF Refuse, ReadsClock, WallInv, Typing
  <1>4. Typing' /\ RepeatsAreOld'
    BY <1>3 DEF WallInv, Typing, RepeatsAreOld, Expired
  <1>5. Justified' /\ ReclaimBound'
    BY <1>2, <1>3 DEF WallInv, Justified, ReclaimBound
  <1>6. Remembered'
    BY <1>2, <1>3 DEF WallInv, Typing, Remembered, Expired
  <1>7. Finite'
    BY <1>1, PurgeFinite DEF WallInv, Finite, BoundedCache
  <1> QED BY <1>4, <1>5, <1>6, <1>7 DEF WallInv

LEMMA ClockWallInv ==
    ASSUME WallInv, Tick \/ StepBack
    PROVE  WallInv'
  <1> USE PacketsAssumption, BoundsAssumption, ReplayAssumption
  <1>1. /\ seen' = seen /\ accepted' = accepted /\ peak' = peak
        /\ now' \in 0 .. MaxTime
    BY DEF Tick, StepBack, WallInv, Typing
  <1>2. Typing' /\ Justified' /\ Finite'
    BY <1>1 DEF WallInv, Typing, Justified, Finite, BoundedCache
  <1>3. Remembered' /\ RepeatsAreOld' /\ ReclaimBound'
    BY <1>1 DEF WallInv, Remembered, RepeatsAreOld, ReclaimBound
  <1> QED BY <1>2, <1>3 DEF WallInv

LEMMA RestartWallInv ==
    ASSUME WallInv, Restart
    PROVE  WallInv'
  <1> USE BoundsAssumption, ReplayAssumption
  <1>1. /\ DOMAIN seen' = {}
        /\ accepted' = NoneAccepted
        /\ now' = now /\ peak' = 0
    BY DEF Restart, EmptyCache
  <1>2. Typing' /\ Remembered' /\ RepeatsAreOld'
    BY <1>1 DEF WallInv, Typing, Remembered, RepeatsAreOld, NoneAccepted
  <1>3. Justified' /\ ReclaimBound'
    BY <1>1 DEF Justified, ReclaimBound
  <1>4. Finite'
    BY <1>1, FS_EmptySet DEF Finite, BoundedCache
  <1> QED BY <1>2, <1>3, <1>4 DEF WallInv

LEMMA WallInvStep == WallInv /\ [WallClockNext]_vars => WallInv'
  <1> SUFFICES ASSUME WallInv, [WallClockNext]_vars PROVE WallInv'
    OBVIOUS
  <1>1. ASSUME NEW p \in Packets, Accept(p) PROVE WallInv'
    BY <1>1, AcceptWallInv
  <1>2. ASSUME NEW p \in Packets, Refuse(p) PROVE WallInv'
    BY <1>2, RefuseWallInv
  <1>3. CASE Tick \/ StepBack
    BY <1>3, ClockWallInv
  <1>4. CASE Restart
    BY <1>4, RestartWallInv
  <1>5. CASE UNCHANGED vars
    BY <1>5 DEF vars, WallInv, Typing, Justified, Remembered, Finite, BoundedCache,
                ReclaimBound, RepeatsAreOld
  <1> QED BY <1>1, <1>2, <1>3, <1>4, <1>5 DEF WallClockNext, Next

THEOREM WallClockInductive == WallClockSpec => []WallInv
  BY InitWallInv, WallInvStep, PTL DEF WallClockSpec

\* Whatever the clock does, a packet this process admits twice had left the window
\* at the latest time at which the process looked at a packet (replay.py 34-56).
THEOREM RepeatsAreOldThm == WallClockSpec => []RepeatsAreOld
  <1>1. WallInv => RepeatsAreOld
    BY DEF WallInv
  <1> QED BY <1>1, WallClockInductive, PTL
-----------------------------------------------------------------------------
(* With a clock that never goes back, no reading is later than the present one. *)

MonoInv == WallInv /\ peak <= now /\ AtMostOnce

\* What had left the window at the latest reading has left it now.
LEMMA OldStaysOld ==
    ASSUME MonoInv, NEW p \in Packets, Expired(p.ts, peak)
    PROVE  Expired(p.ts, now)
  BY PacketsAssumption, BoundsAssumption, ExpiredStays DEF MonoInv, WallInv, Typing

\* The heart of at-most-once: what the cache admits now, it never admitted before.
LEMMA AdmittedIsNew ==
    ASSUME MonoInv, NEW p \in Packets, Accept(p)
    PROVE  accepted[p] = 0
  <1>1. ~Expired(p.ts, now) /\ p.nonce \notin DOMAIN Purge(seen, now)
    BY VerdictOk DEF Accept
  <1>2. DOMAIN Purge(seen, now) = {n \in DOMAIN seen : ~Expired(seen[n], now)}
    BY PurgeFacts
  <1>3. accepted[p] \in Nat
    BY DEF MonoInv, WallInv, Typing
  <1>4. ~(accepted[p] > 0)
    BY <1>1, <1>2, OldStaysOld DEF MonoInv, WallInv, Remembered
  <1> QED BY <1>3, <1>4

LEMMA InitMonoInv == Init => MonoInv
  <1>1. Init => peak <= now /\ AtMostOnce
    BY DEF Init, AtMostOnce, NoneAccepted
  <1> QED BY <1>1, InitWallInv DEF MonoInv

LEMMA MonoInvStep == MonoInv /\ [Next]_vars => MonoInv'
  <1> SUFFICES ASSUME MonoInv, [Next]_vars PROVE MonoInv'
    OBVIOUS
  <1>1. WallInv'
    BY WallInvStep DEF MonoInv, WallClockNext
  <1>2. (peak <= now)'
    <2>1. now \in Nat /\ peak \in Nat
      BY BoundsAssumption DEF MonoInv, WallInv, Typing
    <2> QED BY <2>1 DEF MonoInv, Next, Accept, Refuse, ReadsClock, Tick, Restart, vars
  <1>3. AtMostOnce'
    <2>1. ASSUME NEW p \in Packets, Accept(p) PROVE AtMostOnce'
      <3>1. accepted[p] = 0
        BY <2>1, AdmittedIsNew
      <3>2. accepted' = [accepted EXCEPT ![p] = @ + 1] /\ accepted \in [Packets -> Int]
        BY <2>1 DEF Accept, MonoInv, WallInv, Typing
      <3> QED BY <3>1, <3>2 DEF MonoInv, AtMostOnce
    <2>2. ASSUME NEW p \in Packets, Refuse(p) PROVE AtMostOnce'
      BY <2>2 DEF Refuse, MonoInv, AtMostOnce
    <2>3. CASE Tick
      BY <2>3 DEF Tick, MonoInv, AtMostOnce
    <2>4. CASE Restart
      BY <2>4 DEF Restart, NoneAccepted, AtMostOnce
    <2>5. CASE UNCHANGED vars
      BY <2>5 DEF vars, MonoInv, AtMostOnce
    <2> QED BY <2>1, <2>2, <2>3, <2>4, <2>5 DEF Next
  <1> QED BY <1>1, <1>2, <1>3 DEF MonoInv

THEOREM MonoInductive == Spec => []MonoInv
  BY InitMonoInv, MonoInvStep, PTL DEF Spec

\* Every state of the machine is well typed.
THEOREM TypeOKThm == Spec => []TypeOK
  <1>1. MonoInv => TypeOK
    BY PacketsAssumption
       DEF MonoInv, WallInv, Typing, Justified, TypeOK, Nonces
  <1> QED BY <1>1, MonoInductive, PTL

\* No packet gets past the cache twice between restarts (replay.py 34-56).
THEOREM AtMostOnceThm == Spec => []AtMostOnce
  <1>1. MonoInv => AtMostOnce
    BY DEF MonoInv
  <1> QED BY <1>1, MonoInductive, PTL

\* The cache stays within max_entries (replay.py 48), whatever the clock does.
THEOREM BoundedCacheThm == WallClockSpec => []BoundedCache
  <1>1. WallInv => BoundedCache
    BY DEF WallInv, Finite
  <1> QED BY <1>1, WallClockInductive, PTL

\* No entry outlives the latest reading by more than the skew (replay.py 44),
\* whatever the clock does.
THEOREM ReclaimBoundThm == WallClockSpec => []ReclaimBound
  <1>1. WallInv => ReclaimBound
    BY DEF WallInv
  <1> QED BY <1>1, WallClockInductive, PTL

-----------------------------------------------------------------------------
(* A full cache is full of live packets. *)

\* With a monotone clock the live entries are exactly the admitted packets that
\* are still in the window, one entry each.
LEMMA LiveEntries ==
    ASSUME MonoInv
    PROVE  LET live == DOMAIN Purge(seen, now)
               fresh == {q \in Packets : accepted[q] > 0 /\ ~Expired(q.ts, now)}
           IN  /\ IsFiniteSet(fresh)
               /\ Cardinality(fresh) = Cardinality(live)
  <1> DEFINE live == DOMAIN Purge(seen, now)
             fresh == {q \in Packets : accepted[q] > 0 /\ ~Expired(q.ts, now)}
             nonceOf == [q \in fresh |-> q.nonce]
  <1>1. live = {n \in DOMAIN seen : ~Expired(seen[n], now)}
    BY PurgeFacts
  <1>2. ASSUME NEW q \in fresh PROVE q.nonce \in live
    BY <1>1, OldStaysOld DEF MonoInv, WallInv, Remembered
  <1>3. ASSUME NEW n \in live PROVE \E q \in fresh : q.nonce = n
    BY <1>1 DEF MonoInv, WallInv, Justified
  <1>4. nonceOf \in Injection(fresh, live) /\ nonceOf \in Surjection(fresh, live)
    <2>1. nonceOf \in [fresh -> live]
      BY <1>2
    <2>2. \A q, r \in fresh : nonceOf[q] = nonceOf[r] => q = r
      BY PacketsAssumption
    <2>3. \A n \in live : \E q \in fresh : nonceOf[q] = n
      BY <1>3
    <2> HIDE DEF fresh, live, nonceOf
    <2> QED BY <2>1, <2>2, <2>3 DEF Injection, Surjection, IsInjective
  <1>5. IsFiniteSet(live)
    BY PurgeFinite DEF MonoInv, WallInv
  <1> HIDE DEF fresh, live, nonceOf
  <1> QED BY <1>4, <1>5, FS_Injection DEF fresh, live

\* A fresh packet that was never admitted is refused only for want of room, and
\* only when MaxEntries packets inside the window hold it (replay.py 41-50).
THEOREM NoFalseRefusalThm == Spec => []NoFalseRefusal
  <1> DEFINE fresh == {q \in Packets : accepted[q] > 0 /\ ~Expired(q.ts, now)}
             Turned(p) == /\ accepted[p] = 0
                          /\ p.ts \in (now - Window) .. (now + Skew)
                          /\ Verdict(seen, p.nonce, p.ts, now) # "ok"
  <1>1. ASSUME MonoInv, NEW p \in Packets, Turned(p)
        PROVE  Cardinality(fresh) >= MaxEntries
    <2>1. Verdict(seen, p.nonce, p.ts, now) # "ok"
      BY <1>1
    <2>2. now \in Int /\ p.ts \in Int /\ Window \in Int /\ Skew \in Int
      BY <1>1, ReplayAssumption, PacketsAssumption DEF MonoInv, WallInv, Typing
    <2>3. ~Expired(p.ts, now) /\ ~FromFuture(p.ts, now)
      BY <1>1, <2>2 DEF Expired, FromFuture
    <2>4. p.nonce \notin DOMAIN Purge(seen, now)
      <3>1. DOMAIN Purge(seen, now) \subseteq DOMAIN seen
        BY PurgeFacts
      <3>2. ASSUME p.nonce \in DOMAIN seen PROVE FALSE
        BY <1>1, <3>2, PacketsAssumption DEF MonoInv, WallInv, Justified
      <3> QED BY <3>1, <3>2
    <2>5. Full(Purge(seen, now))
      BY <2>1, <2>3, <2>4 DEF Verdict, Judge
    <2> QED BY <1>1, <2>5, LiveEntries DEF Full
  <1>2. MonoInv => NoFalseRefusal
    BY <1>1 DEF NoFalseRefusal
  <1> QED BY <1>2, MonoInductive, PTL

-----------------------------------------------------------------------------
\* The cache implements the abstract at-most-once delivery: every admission is a
\* first, timely delivery, every other step but the clock and the restart is
\* invisible (replay.py 34-56).
THEOREM DeliveryRefinedThm == Spec => DeliveryRefined
  <1>1. Init => Delivery!Init
    BY DEF Init, Delivery!Init, Delivery!Undelivered, NoneAccepted
  <1>2. MonoInv /\ [Next]_vars => [Delivery!Next]_Delivery!vars
    <2> SUFFICES ASSUME MonoInv, [Next]_vars PROVE [Delivery!Next]_Delivery!vars
      OBVIOUS
    <2>1. ASSUME NEW p \in Packets, Accept(p) PROVE Delivery!Deliver(p)
      <3>1. accepted[p] = 0
        BY <2>1, AdmittedIsNew
      <3>2. ~Expired(p.ts, now) /\ ~FromFuture(p.ts, now)
        BY <2>1, VerdictOk DEF Accept
      <3>3. now \in Int /\ p.ts \in Int /\ Window \in Int /\ Skew \in Int
        BY ReplayAssumption, PacketsAssumption DEF MonoInv, WallInv, Typing
      <3>4. p.ts \in (now - Window) .. (now + Skew)
        BY <3>2, <3>3 DEF Expired, FromFuture
      <3>5. accepted' = [accepted EXCEPT ![p] = 1] /\ now' = now
        BY <2>1, <3>1 DEF Accept
      <3> QED BY <3>1, <3>4, <3>5 DEF Delivery!Deliver
    <2>2. ASSUME NEW p \in Packets, Refuse(p) PROVE UNCHANGED Delivery!vars
      BY <2>2 DEF Refuse, Delivery!vars
    <2>3. CASE Tick
      BY <2>3 DEF Tick, Delivery!Next, Delivery!Advance
    <2>4. CASE Restart
      BY <2>4 DEF Restart, Delivery!Next, Delivery!Restart, Delivery!Undelivered, NoneAccepted
    <2>5. CASE UNCHANGED vars
      BY <2>5 DEF vars, Delivery!vars
    <2> QED BY <2>1, <2>2, <2>3, <2>4, <2>5 DEF Next, Delivery!Next
  <1> QED BY <1>1, <1>2, MonoInductive, PTL DEF Spec, DeliveryRefined, Delivery!Spec
=============================================================================
