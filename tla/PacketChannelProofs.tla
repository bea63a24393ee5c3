------------------------ MODULE PacketChannelProofs ------------------------
(***************************************************************************)
(* Proofs about PacketChannel, for every set of messages, compression       *)
(* settings, limits and nonces, and any number of alterations.              *)
(***************************************************************************)
EXTENDS PacketChannel, PacketsProofs

-----------------------------------------------------------------------------
(* What a packet is made of *)

Sent == Messages \cup Foreign
Types == {"request", "response", "error"}
Headers == [wellFormed : BOOLEAN, type : Types, compressed : BOOLEAN, ts : Int, nonce : Nonces]
KeySets == {DumpedKeys(type) : type \in Types}
Raws == [version : Int, keys : KeySets, typed : BOOLEAN, valid : BOOLEAN, msg : Sent, size : Int]
Plains == [zstd : BOOLEAN, raw : Raws, size : Int]
Ciphertexts == [key : {Key, OtherKey, NoKey}, aad : Headers, plain : Plains]
AnyPacket == [aad : Headers, claimed : Int, ct : Ciphertexts, size : Int]

\* p is what seal makes for the nonce n at this time or before.
SealedAs(p, n) ==
    /\ p \in AnyPacket
    /\ p.aad.nonce = n /\ p.aad.ts \in 0 .. now
    /\ p.ct.aad = p.aad
    /\ p.size = HeaderSize + p.claimed

LEMMA SealMakes ==
    ASSUME NEW plain \in Plains, NEW key \in {Key, OtherKey}, NEW type \in Types,
           NEW compressed \in BOOLEAN, NEW n \in Nonces, now \in Nat
    PROVE  SealedAs(Seal(plain, key, type, compressed, now, n), n)
  <1> DEFINE p == Seal(plain, key, type, compressed, now, n)
             aad == [wellFormed |-> TRUE, type |-> type, compressed |-> compressed,
                     ts |-> now, nonce |-> n]
  <1>1. p = [aad |-> aad, claimed |-> plain.size + TagSize,
             ct |-> [key |-> key, aad |-> aad, plain |-> plain],
             size |-> HeaderSize + plain.size + TagSize]
    BY DEF Seal
  <1>2. aad \in Headers /\ aad.nonce = n /\ aad.ts = now
    BY DEF Headers
  <1>3. plain.size \in Int
    BY DEF Plains
  <1> HIDE DEF p, aad
  <1>4. p \in AnyPacket
    BY <1>1, <1>2, <1>3, SizesAssumption DEF AnyPacket, Ciphertexts
  <1>5. p.aad = aad /\ p.ct.aad = aad /\ p.size = HeaderSize + p.claimed
    BY <1>1, <1>3, SizesAssumption
  <1> QED BY <1>2, <1>4, <1>5 DEF SealedAs, p

LEMMA DumpsMakes ==
    ASSUME NEW m \in Sent
    PROVE  /\ Dumps(m) \in Raws
           /\ Plain(Dumps(m)) \in Plains /\ Zstd(Dumps(m)) \in Plains
           /\ Dumps(m).msg = m /\ m.type \in Types
  <1>1. m.type \in Types /\ m.body \in Nat
    BY ChannelAssumption DEF Sent, Types
  <1>2. Dumps(m) \in Raws /\ Dumps(m).size \in Nat /\ Dumps(m).msg = m
    BY <1>1, SizesAssumption DEF Dumps, Raws, KeySets, Version
  <1>3. Deflated(Dumps(m)) \in Int
    BY <1>2, SizesAssumption DEF Deflated
  <1> QED BY <1>1, <1>2, <1>3 DEF Plain, Zstd, Plains

LEMMA EncodeMakes ==
    ASSUME NEW m \in Messages, NEW opts, NEW n \in Nonces, now \in Nat
    PROVE  SealedAs(Encode(m, Key, opts, now, n), n)
  <1>1. m \in Sent
    BY DEF Sent
  <1>2. MaybeCompress(Dumps(m), opts) \in Plains
    BY <1>1, DumpsMakes DEF MaybeCompress
  <1>3. MaybeCompress(Dumps(m), opts).zstd \in BOOLEAN
    BY <1>2 DEF Plains
  <1>4. m.type \in Types
    BY <1>1, DumpsMakes
  <1> QED BY <1>2, <1>3, <1>4, SealMakes DEF Encode

LEMMA OtherRaws ==
    ASSUME NEW raw \in Raws
    PROVE  /\ [raw EXCEPT !.version = Version + 1] \in Raws
           /\ [raw EXCEPT !.typed = FALSE] \in Raws
           /\ [raw EXCEPT !.valid = FALSE] \in Raws
           /\ Plain(raw) \in Plains
  <1>1. raw = [version |-> raw.version, keys |-> raw.keys, typed |-> raw.typed,
               valid |-> raw.valid, msg |-> raw.msg, size |-> raw.size]
    BY DEF Raws
  <1>2. [raw EXCEPT !.version = Version + 1] \in Raws
    BY <1>1 DEF Raws, Version
  <1>3. [raw EXCEPT !.typed = FALSE] \in Raws
    BY <1>1 DEF Raws
  <1>4. [raw EXCEPT !.valid = FALSE] \in Raws
    BY <1>1 DEF Raws
  <1> QED BY <1>1, <1>2, <1>3, <1>4 DEF Raws, Plain, Plains

LEMMA ForeignMakes ==
    ASSUME NEW m \in Foreign, NEW n \in Nonces, now \in Nat, NEW p \in ForeignPackets(m, n)
    PROVE  SealedAs(p, n)
  <1> DEFINE raw == Dumps(m)
  <1>1. m \in Sent
    BY DEF Sent
  <1>2. raw \in Raws /\ Plain(raw) \in Plains /\ Zstd(raw) \in Plains /\ m.type \in Types
    BY <1>1, DumpsMakes
  <1> HIDE DEF raw
  <1>3. /\ Plain([raw EXCEPT !.version = Version + 1]) \in Plains
        /\ Plain([raw EXCEPT !.typed = FALSE]) \in Plains
        /\ Plain([raw EXCEPT !.valid = FALSE]) \in Plains
    BY <1>2, OtherRaws
  <1>4. {"request", "response"} \subseteq Types
    BY DEF Types
  <1>5. \E plain \in Plains, key \in {Key, OtherKey}, type \in Types, compressed \in BOOLEAN :
            p = Seal(plain, key, type, compressed, now, n)
    BY <1>2, <1>3, <1>4 DEF ForeignPackets, raw
  <1> QED BY <1>5, SealMakes

-----------------------------------------------------------------------------
(* The inductive invariant *)

\* The ciphertext of p is the one sealed under its nonce, of its length.
Genuine(p) ==
    LET n == p.ct.aad.nonce
    IN  n \in DOMAIN sent /\ p.ct = sent[n].ct /\ p.size = sent[n].size

WireInv == \A p \in wire : p \in AnyPacket /\ (p.ct.key = NoKey \/ Genuine(p))

SentInv == DOMAIN sent \subseteq Nonces /\ \A n \in DOMAIN sent : SealedAs(sent[n], n)

Bounds == now \in 0 .. MaxTime /\ altered \in 0 .. MaxAltered

SeenInv == IsFiniteSet(DOMAIN seen) /\ OnlyAuthenticBurn

\* A nonce that was read is in the cache until its packet has left the window.
ReadInv ==
    /\ reads \in [Nonces -> 0 .. 1]
    /\ \A n \in Nonces : reads[n] > 0 =>
          n \in DOMAIN sent /\ (n \in DOMAIN seen \/ Expired(sent[n].aad.ts, now))

ChannelInv == WireInv /\ SentInv /\ Bounds /\ SeenInv /\ ReadInv

LEMMA InitChannel == Init => ChannelInv
  <1> SUFFICES ASSUME Init PROVE ChannelInv
    OBVIOUS
  <1>1. DOMAIN EmptyCache = {}
    BY DEF EmptyCache
  <1>2. WireInv /\ SentInv /\ Bounds
    BY <1>1, ChannelAssumption DEF Init, WireInv, SentInv, Bounds
  <1>3. SeenInv
    BY <1>1, FS_EmptySet DEF Init, SeenInv, OnlyAuthenticBurn
  <1>4. ReadInv
    BY DEF Init, NoReads, ReadInv
  <1> QED BY <1>2, <1>3, <1>4 DEF ChannelInv

LEMMA PutChannel ==
    ASSUME ChannelInv, NEW n \in Unused, NEW p, SealedAs(p, n), Put(n, p)
    PROVE  ChannelInv'
  <1>1. /\ wire' = wire \cup {p}
        /\ n \in Nonces /\ n \notin DOMAIN sent
        /\ DOMAIN sent' = DOMAIN sent \cup {n}
        /\ sent'[n] = p /\ \A k \in DOMAIN sent : sent'[k] = sent[k]
        /\ UNCHANGED <<altered, seen, now, reads>>
    BY DEF Put, Unused
  <1>2. \A q \in wire : Genuine(q) => Genuine(q)'
    BY <1>1 DEF Genuine
  <1>3. Genuine(p)'
    BY <1>1 DEF Genuine, SealedAs
  <1>4. WireInv'
    BY <1>1, <1>2, <1>3 DEF ChannelInv, WireInv, SealedAs
  <1>5. SentInv'
    BY <1>1 DEF ChannelInv, SentInv, SealedAs
  <1>6. SeenInv'
    BY <1>1 DEF ChannelInv, SeenInv, OnlyAuthenticBurn
  <1>7. ReadInv'
    BY <1>1 DEF ChannelInv, ReadInv
  <1> QED BY <1>1, <1>4, <1>5, <1>6, <1>7 DEF ChannelInv, Bounds

\* An altered packet keeps ciphertext and length, or opens under no key.
LEMMA AlteredFacts ==
    ASSUME NEW p \in AnyPacket, NEW q \in AlteredForms(p), now \in Int
    PROVE  q \in AnyPacket /\ (q.ct.key = NoKey \/ (q.ct = p.ct /\ q.size = p.size))
  <1> DEFINE Good(r) == r \in AnyPacket /\ (r.ct.key = NoKey \/ (r.ct = p.ct /\ r.size = p.size))
  <1> USE SizesAssumption DEF AnyPacket
  <1>1. p.aad \in Headers /\ p.ct \in Ciphertexts /\ p.claimed \in Int /\ p.size \in Int
    OBVIOUS
  <1>2. ASSUME NEW aad \in Headers PROVE Good([p EXCEPT !.aad = aad])
    BY <1>2
  <1>3. ASSUME NEW c \in Int PROVE Good([p EXCEPT !.claimed = c])
    BY <1>3
  <1>4. ASSUME NEW size \in Int PROVE Good([p EXCEPT !.size = size, !.ct.key = NoKey])
    BY <1>1, <1>4 DEF Ciphertexts
  <1>5. Good([p EXCEPT !.ct.key = NoKey])
    BY <1>1 DEF Ciphertexts
  <1> HIDE DEF Good
  <1>6. /\ \A n \in Nonces : [p.aad EXCEPT !.nonce = n] \in Headers
        /\ [p.aad EXCEPT !.ts = now] \in Headers
        /\ [p.aad EXCEPT !.wellFormed = FALSE] \in Headers
    BY <1>1 DEF Headers
  <1>7. [p.aad EXCEPT !.compressed = ~p.aad.compressed] \in Headers
    BY <1>1 DEF Headers
  <1>8. /\ \A n \in Nonces : [p EXCEPT !.aad.nonce = n] = [p EXCEPT !.aad = [p.aad EXCEPT !.nonce = n]]
        /\ [p EXCEPT !.aad.ts = now] = [p EXCEPT !.aad = [p.aad EXCEPT !.ts = now]]
        /\ [p EXCEPT !.aad.wellFormed = FALSE] = [p EXCEPT !.aad = [p.aad EXCEPT !.wellFormed = FALSE]]
    OBVIOUS
  <1>9. [p EXCEPT !.aad.compressed = ~p.aad.compressed]
            = [p EXCEPT !.aad = [p.aad EXCEPT !.compressed = ~p.aad.compressed]]
    OBVIOUS
  <1>10. \A n \in Nonces : Good([p EXCEPT !.aad.nonce = n])
    BY <1>2, <1>6, <1>8
  <1>11. Good([p EXCEPT !.aad.ts = now]) /\ Good([p EXCEPT !.aad.wellFormed = FALSE])
    BY <1>2, <1>6, <1>8
  <1>12. Good([p EXCEPT !.aad.compressed = ~p.aad.compressed])
    BY <1>2, <1>7, <1>9
  <1>13. Good([p EXCEPT !.claimed = 0]) /\ Good([p EXCEPT !.claimed = p.claimed + 1])
    BY <1>1, <1>3
  <1>14. /\ Good([p EXCEPT !.size = HeaderSize - 1, !.ct.key = NoKey])
         /\ Good([p EXCEPT !.size = p.size - 1, !.ct.key = NoKey])
    <2>1. HeaderSize - 1 \in Int /\ p.size - 1 \in Int
      BY <1>1
    <2> QED BY <1>4, <2>1
  <1>15. ASSUME NEW type \in Types PROVE Good([p EXCEPT !.aad.type = type])
    <2>1. [p.aad EXCEPT !.type = type] \in Headers
      BY <1>1 DEF Headers
    <2>2. [p EXCEPT !.aad.type = type] = [p EXCEPT !.aad = [p.aad EXCEPT !.type = type]]
      OBVIOUS
    <2> QED BY <1>2, <2>1, <2>2
  <1>16. Good(q)
    BY <1>5, <1>10, <1>11, <1>12, <1>13, <1>14, <1>15 DEF AlteredForms, Types
  <1> QED BY <1>16 DEF Good

LEMMA AlterChannel ==
    ASSUME ChannelInv, NEW p \in wire, Alter(p)
    PROVE  ChannelInv'
  <1>1. PICK q \in AlteredForms(p) : wire' = wire \cup {q}
    BY DEF Alter
  <1>2. UNCHANGED <<sent, seen, now, reads>> /\ altered' \in 0 .. MaxAltered
    BY ChannelAssumption DEF Alter, ChannelInv, Bounds
  <1>3. q \in AnyPacket /\ (q.ct.key = NoKey \/ Genuine(q))
    <2>1. p \in AnyPacket /\ (p.ct.key = NoKey \/ Genuine(p)) /\ now \in Int
      BY DEF ChannelInv, WireInv, Bounds
    <2>2. q \in AnyPacket /\ (q.ct.key = NoKey \/ (q.ct = p.ct /\ q.size = p.size))
      BY <2>1, AlteredFacts
    <2> QED BY <2>1, <2>2 DEF Genuine
  <1>4. WireInv'
    BY <1>1, <1>2, <1>3 DEF ChannelInv, WireInv, Genuine
  <1>5. SentInv' /\ SeenInv' /\ ReadInv'
    BY <1>2 DEF ChannelInv, SentInv, SealedAs, SeenInv, OnlyAuthenticBurn, ReadInv
  <1> QED BY <1>2, <1>4, <1>5 DEF ChannelInv, Bounds

\* A packet that is decompressed has authenticated, and its nonce is stored.
LEMMA UnpackedFacts ==
    ASSUME NEW p, Unpacked(Outcome(p).exc)
    PROVE  /\ WellFramed(p, Limits.ciphertext)
           /\ Authentic(p, Key)
           /\ Verdict(seen, p.aad.nonce, p.aad.ts, now) = "ok"
           /\ Outcome(p).seen = SeenAfter(seen, p.aad.nonce, p.aad.ts, now)
  BY DEF Unpacked, Outcome, Decode, Unpack, Raised, Verdict, Judge

\* Of a packet that authenticates the receiver sees the header that was sealed.
LEMMA AuthenticFacts ==
    ASSUME ChannelInv, NEW p \in wire, Authentic(p, Key)
    PROVE  LET n == p.aad.nonce
           IN  /\ n \in DOMAIN sent /\ n \in Nonces
               /\ p.ct = sent[n].ct /\ p.size = sent[n].size /\ p.aad = sent[n].aad
               /\ sent[n].ct.key = Key
               /\ p.aad.ts \in 0 .. now
  <1>1. Genuine(p) /\ p.ct.aad = p.aad /\ p.ct.key = Key
    BY ChannelAssumption DEF ChannelInv, WireInv, Authentic
  <1>2. p.aad.nonce \in DOMAIN sent /\ p.ct = sent[p.aad.nonce].ct /\ p.size = sent[p.aad.nonce].size
    BY <1>1 DEF Genuine
  <1>3. SealedAs(sent[p.aad.nonce], p.aad.nonce) /\ p.aad.nonce \in Nonces
    BY <1>2 DEF ChannelInv, SentInv
  <1> QED BY <1>1, <1>2, <1>3 DEF SealedAs

LEMMA ReceiveChannel ==
    ASSUME ChannelInv, NEW p \in wire, Receive(p)
    PROVE  ChannelInv'
  <1> DEFINE n == p.aad.nonce
             after == SeenAfter(seen, n, p.aad.ts, now)
  <1>1. seen' = Outcome(p).seen /\ UNCHANGED <<wire, sent, altered, now>>
    BY DEF Receive
  <1>2. WireInv' /\ SentInv' /\ Bounds'
    BY <1>1 DEF ChannelInv, WireInv, Genuine, SentInv, SealedAs, Bounds
  <1>3. seen' = seen \/ (Authentic(p, Key) /\ seen' = after)
    BY <1>1, DecodeSeen DEF Outcome
  <1>4. SeenInv'
    <2>1. CASE seen' = seen
      BY <1>1, <2>1 DEF ChannelInv, SeenInv, OnlyAuthenticBurn
    <2>2. CASE Authentic(p, Key) /\ seen' = after
      <3>1. /\ n \in DOMAIN sent /\ sent[n].ct.key = Key /\ p.aad.ts = sent[n].aad.ts
        BY <2>2, AuthenticFacts
      <3> DEFINE live == {k \in DOMAIN seen : ~Expired(seen[k], now)}
      <3>2. /\ DOMAIN after \subseteq live \cup {n}
            /\ \A k \in DOMAIN after \ {n} : after[k] = seen[k]
            /\ n \in DOMAIN after =>
                  (n \in DOMAIN seen /\ after[n] = seen[n]) \/ after[n] = p.aad.ts
        BY SeenAfterFacts
      <3> HIDE DEF after
      <3>3. OnlyAuthenticBurn'
        BY <1>1, <2>2, <3>1, <3>2 DEF ChannelInv, SeenInv, OnlyAuthenticBurn
      <3>4. IsFiniteSet(DOMAIN seen \cup {n})
        BY FS_AddElement DEF ChannelInv, SeenInv
      <3>5. DOMAIN after \subseteq DOMAIN seen \cup {n}
        BY <3>2
      <3>6. IsFiniteSet(DOMAIN after)
        BY <3>4, <3>5, FS_Subset
      <3> QED BY <2>2, <3>3, <3>6 DEF SeenInv
    <2> QED BY <1>3, <2>1, <2>2
  <1>5. ReadInv'
    <2>1. \A k \in Nonces : reads[k] > 0 =>
             k \in DOMAIN sent /\ (k \in DOMAIN seen' \/ Expired(sent[k].aad.ts, now))
      <3> TAKE k \in Nonces
      <3> HAVE reads[k] > 0
      <3>1. k \in DOMAIN sent /\ (k \in DOMAIN seen \/ Expired(sent[k].aad.ts, now))
        BY DEF ChannelInv, ReadInv
      <3>2. k \in DOMAIN seen => seen[k] = sent[k].aad.ts
        BY DEF ChannelInv, SeenInv, OnlyAuthenticBurn
      <3>3. {j \in DOMAIN seen : ~Expired(seen[j], now)} \subseteq DOMAIN after
        BY SeenAfterFacts
      <3> QED BY <1>3, <3>1, <3>2, <3>3
    <2>2. CASE ~Unpacked(Outcome(p).exc)
      <3>1. reads' = reads
        BY <2>2 DEF Receive
      <3> QED BY <1>1, <2>1, <3>1 DEF ChannelInv, ReadInv
    <2>3. CASE Unpacked(Outcome(p).exc)
      <3>1. /\ Authentic(p, Key) /\ Verdict(seen, n, p.aad.ts, now) = "ok"
            /\ seen' = after
        BY <1>1, <2>3, UnpackedFacts
      <3>2. n \in DOMAIN sent /\ n \in Nonces /\ p.aad.ts = sent[n].aad.ts
        BY <3>1, AuthenticFacts
      <3>3. /\ n \notin {k \in DOMAIN seen : ~Expired(seen[k], now)}
            /\ n \in DOMAIN after
        BY <3>1, SeenAfterFacts
      <3>4. ~Expired(p.aad.ts, now)
        BY <3>1, VerdictOk
      <3>5. n \in DOMAIN seen => seen[n] = sent[n].aad.ts
        BY DEF ChannelInv, SeenInv, OnlyAuthenticBurn
      <3>6. ~(reads[n] > 0)
        BY <3>2, <3>3, <3>4, <3>5 DEF ChannelInv, ReadInv
      <3>7. reads \in [Nonces -> 0 .. 1] /\ reads[n] = 0
        BY <3>2, <3>6 DEF ChannelInv, ReadInv
      <3>8. reads' = [reads EXCEPT ![n] = 1]
        BY <2>3, <3>7 DEF Receive
      <3> QED BY <1>1, <2>1, <3>1, <3>2, <3>3, <3>7, <3>8 DEF ReadInv
    <2> QED BY <2>2, <2>3
  <1> QED BY <1>2, <1>4, <1>5 DEF ChannelInv

LEMMA TickChannel ==
    ASSUME ChannelInv, Tick
    PROVE  ChannelInv'
  <1>1. now \in Nat /\ now' = now + 1 /\ now' \in 0 .. MaxTime
    BY ChannelAssumption DEF Tick, ChannelInv, Bounds
  <1>2. UNCHANGED <<wire, sent, altered, seen, reads>>
    BY DEF Tick
  <1>3. WireInv' /\ SeenInv' /\ Bounds'
    BY <1>1, <1>2 DEF ChannelInv, WireInv, Genuine, SeenInv, OnlyAuthenticBurn, Bounds
  <1>4. SentInv'
    BY <1>1, <1>2 DEF ChannelInv, SentInv, SealedAs
  <1>5. \A x \in Int : Expired(x, now) => Expired(x, now')
    BY <1>1, ReplayAssumption DEF Expired
  <1>6. \A n \in DOMAIN sent : sent[n].aad.ts \in Int
    BY <1>1 DEF ChannelInv, SentInv, SealedAs
  <1>7. ReadInv'
    BY <1>2, <1>5, <1>6 DEF ChannelInv, ReadInv
  <1> QED BY <1>3, <1>4, <1>7 DEF ChannelInv

\* The receiver's cache and what the carrier holds agree with what was sealed, after
\* every step of the channel.
THEOREM ChannelInductive == Spec => []ChannelInv
  <1>1. ChannelInv /\ [Next]_vars => ChannelInv'
    <2> SUFFICES ASSUME ChannelInv, [Next]_vars PROVE ChannelInv'
      OBVIOUS
    <2>1. now \in Nat
      BY ChannelAssumption DEF ChannelInv, Bounds
    <2>2. ASSUME NEW m \in Messages, NEW opts \in Options, Send(m, opts) PROVE ChannelInv'
      <3>1. PICK n \in Unused : Put(n, Encode(m, Key, opts, now, n))
        BY <2>2 DEF Send
      <3>2. SealedAs(Encode(m, Key, opts, now, n), n)
        BY <2>1, EncodeMakes DEF Unused
      <3> QED BY <3>1, <3>2, PutChannel
    <2>3. ASSUME NEW m \in Foreign, SendForeign(m) PROVE ChannelInv'
      <3>1. PICK n \in Unused : \E p \in ForeignPackets(m, n) : Put(n, p)
        BY <2>3 DEF SendForeign
      <3>2. PICK p \in ForeignPackets(m, n) : Put(n, p)
        BY <3>1
      <3>3. SealedAs(p, n)
        BY <2>1, ForeignMakes DEF Unused
      <3> QED BY <3>2, <3>3, PutChannel
    <2>4. CASE UNCHANGED vars
      BY <2>4 DEF vars, ChannelInv, WireInv, Genuine, SentInv, SealedAs, Bounds, SeenInv,
                  OnlyAuthenticBurn, ReadInv
    <2> QED BY <2>2, <2>3, <2>4, AlterChannel, ReceiveChannel, TickChannel DEF Next
  <1> QED BY <1>1, InitChannel, PTL DEF Spec

-----------------------------------------------------------------------------
(* What follows from the invariant *)

\* The state of the channel is well typed: nonces and clock readings of packets and cache
\* entries stay in range, and decode_message returns a message some peer made.
THEOREM ChannelTypeOKThm == Spec => []TypeOK
  <1>1. ChannelInv => TypeOK
    <2> SUFFICES ASSUME ChannelInv PROVE TypeOK
      OBVIOUS
    <2>1. \A n \in DOMAIN sent : n \in Nonces /\ sent[n].aad.nonce = n /\ sent[n].aad.ts \in 0 .. now
      BY DEF ChannelInv, SentInv, SealedAs
    <2>2. \A n \in DOMAIN seen : seen[n] \in 0 .. MaxTime
      BY <2>1, ChannelAssumption DEF ChannelInv, SeenInv, OnlyAuthenticBurn, Bounds
    <2>3. \A p \in wire : Outcome(p).msg \in Messages \cup Foreign \cup {NoMessage}
      <3> TAKE p \in wire
      <3>1. p.ct.plain.raw.msg \in Sent
        BY DEF ChannelInv, WireInv, AnyPacket, Ciphertexts, Plains, Raws
      <3> QED BY <3>1, DecodeOk, DecodeMsg DEF Outcome, Sent
    <2> QED BY <2>1, <2>2, <2>3 DEF TypeOK, ChannelInv, Bounds, ReadInv
  <1> QED BY <1>1, ChannelInductive, PTL

\* Whatever the carrier alters, cuts, repeats or reorders, and whichever other peers send
\* on it, decode_message returns only messages as the sender sealed them (aead.py 75).
THEOREM OnlyGenuineThm == Spec => []OnlyGenuine
  <1>1. ChannelInv => OnlyGenuine
    <2> SUFFICES ASSUME ChannelInv, NEW p \in wire, Outcome(p).exc = "ok"
                 PROVE  /\ AsSealed(p)
                        /\ p.ct.key = Key
                        /\ Outcome(p).msg = p.ct.plain.raw.msg
                        /\ Outcome(p).msg.type = p.aad.type
      BY DEF OnlyGenuine
    <2> DEFINE n == p.aad.nonce
    <2>1. /\ WellFramed(p, Limits.ciphertext) /\ Authentic(p, Key)
          /\ Outcome(p).msg = p.ct.plain.raw.msg
          /\ Outcome(p).msg.type = p.aad.type
      BY DecodeOk DEF Outcome
    <2>2. /\ n \in DOMAIN sent
          /\ p.ct = sent[n].ct /\ p.size = sent[n].size /\ p.aad = sent[n].aad
      BY <2>1, AuthenticFacts
    <2>3. p \in AnyPacket /\ sent[n] \in AnyPacket /\ sent[n].size = HeaderSize + sent[n].claimed
      BY <2>2 DEF ChannelInv, WireInv, SentInv, SealedAs
    <2>4. p.claimed = sent[n].claimed
      <3>1. p.size = HeaderSize + p.claimed
        BY <2>1 DEF WellFramed
      <3>2. p.claimed \in Int /\ sent[n].claimed \in Int
        BY <2>3 DEF AnyPacket
      <3>3. HeaderSize + p.claimed = HeaderSize + sent[n].claimed
        BY <2>2, <2>3, <3>1
      <3>4. \A c, d \in Int : HeaderSize + c = HeaderSize + d => c = d
        BY SizesAssumption
      <3> QED BY <3>2, <3>3, <3>4
    <2>5. p = sent[n]
      BY <2>2, <2>3, <2>4 DEF AnyPacket
    <2> QED BY <2>1, <2>2, <2>5 DEF AsSealed, Authentic
  <1> QED BY <1>1, ChannelInductive, PTL

\* Only a packet that authenticates takes up an entry of the replay cache, under its own
\* nonce and timestamp (pipeline.py 46-48).
THEOREM OnlyAuthenticBurnThm == Spec => []OnlyAuthenticBurn
  <1>1. ChannelInv => OnlyAuthenticBurn
    BY DEF ChannelInv, SeenInv
  <1> QED BY <1>1, ChannelInductive, PTL

\* A packet is decompressed and loaded at most once, however often it arrives and however
\* long after: its nonce outlives the time it could pass the window check.
THEOREM ReadOnceThm == Spec => []ReadOnce
  <1>1. ChannelInv => ReadOnce
    BY DEF ChannelInv, ReadInv, ReadOnce
  <1> QED BY <1>1, ChannelInductive, PTL

\* A request or response within its body limit gets through on its first arrival,
\* whatever compression its sender used and whether or not zstandard enforces the
\* decompression limit; one beyond it never does (pipeline.py 22-60).
THEOREM BodiesGetThroughThm == Spec => []BodiesGetThrough
  <1>1. ChannelInv => BodiesGetThrough
    <2> SUFFICES ASSUME ChannelInv, LimitsCompatible, NEW p \in wire,
                        Deliverable(p, {"request", "response"})
                 PROVE  GetsThrough(p) <=> p.ct.plain.raw.msg.body <= Limits[p.aad.type]
      BY DEF BodiesGetThrough
    <2> DEFINE n == p.aad.nonce
    <2>1. PICK m \in Messages, opts \in Options : p = Encode(m, Key, opts, p.aad.ts, n)
      BY DEF Deliverable
    <2>2. m.body \in Nat /\ Limits.ciphertext \in Nat /\ Limits.decompressed \in Nat
          /\ Limits.request \in Nat /\ Limits.response \in Nat
      BY ChannelAssumption
    <2>3. p.aad.type = m.type /\ p.ct.plain.raw.msg = m
      BY <2>1, <2>2, EncodeFacts
    <2>4. m.type \in {"request", "response"}
      BY <2>3 DEF Deliverable
    <2>5. TooLarge(m, Limits) <=> ~(m.body <= Limits[m.type])
      BY <2>2, <2>4 DEF TooLarge
    <2>6. GetsThrough(p) => m.body <= Limits[m.type]
      <3>1. Outcome(p).exc = "ok" => ~TooLarge(m, Limits)
        BY <2>3, DecodeOk DEF Outcome
      <3> QED BY <2>5, <3>1 DEF GetsThrough
    <2>7. ASSUME m.body <= Limits[m.type] PROVE GetsThrough(p)
      <3>1. p.aad.ts \in Int /\ now \in Int
        BY DEF ChannelInv, WireInv, AnyPacket, Headers, Bounds
      <3>2. Verdict(seen, n, p.aad.ts, now) = "ok"
        BY <3>1, VerdictFresh DEF Deliverable, ChannelInv, SeenInv
      <3>3. /\ MapSize + Limits[m.type] <= Limits.decompressed
            /\ MapSize + Limits[m.type] + FrameOverhead + TagSize <= Limits.ciphertext
            /\ Limits[m.type] \in Nat
        BY <2>2, <2>4 DEF LimitsCompatible
      <3>4. /\ MapSize + m.body <= Limits.decompressed
            /\ MapSize + m.body + FrameOverhead + TagSize <= Limits.ciphertext
        BY <2>2, <2>7, <3>3, SizesAssumption
      <3>5. Outcome(p).exc = "ok" /\ Outcome(p).msg = m
        BY <2>1, <2>2, <2>4, <2>5, <2>7, <3>2, <3>4, EncodedOpens DEF Outcome
      <3> QED BY <2>3, <3>5 DEF GetsThrough
    <2> QED BY <2>3, <2>6, <2>7
  <1> QED BY <1>1, ChannelInductive, PTL
=============================================================================
