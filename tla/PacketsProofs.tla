--------------------------- MODULE PacketsProofs ---------------------------
(***************************************************************************)
(* Lemmas about Decode, for every machine that receives packets.            *)
(***************************************************************************)
EXTENDS Packets, ReplayProofs

\* A message that comes out of decode_message passed every check on the way
\* (pipeline.py 41-60), and its nonce was stored.
LEMMA DecodeOk ==
    ASSUME NEW p, NEW key, NEW cache, NEW t, NEW lim,
           Decode(p, key, cache, t, lim).exc = "ok"
    PROVE  LET d == Decode(p, key, cache, t, lim)
           IN  /\ WellFramed(p, lim.ciphertext)
               /\ Authentic(p, key)
               /\ Verdict(cache, p.aad.nonce, p.aad.ts, t) = "ok"
               /\ d.seen = SeenAfter(cache, p.aad.nonce, p.aad.ts, t)
               /\ d.msg = p.ct.plain.raw.msg
               /\ d.msg.type = p.aad.type
               /\ ~TooLarge(d.msg, lim)
  BY DEF Decode, Unpack, Raised, LoadsAs

\* The cache changes only for packets that authenticate, and then as
\* check_and_store leaves it.
LEMMA DecodeSeen ==
    ASSUME NEW p, NEW key, NEW cache, NEW t, NEW lim
    PROVE  LET d == Decode(p, key, cache, t, lim)
           IN  \/ d.seen = cache /\ d.exc # "ok"
               \/ /\ Authentic(p, key)
                  /\ d.seen = SeenAfter(cache, p.aad.nonce, p.aad.ts, t)
  BY DEF Decode, Unpack, Raised

\* Without a message there is an exception, and with an exception no message.
LEMMA DecodeMsg ==
    ASSUME NEW p, NEW key, NEW cache, NEW t, NEW lim,
           Decode(p, key, cache, t, lim).exc # "ok"
    PROVE  Decode(p, key, cache, t, lim).msg = NoMessage
  BY DEF Decode, Unpack, Raised

\* What encode_message makes of a message: a packet of its header and length, whose
\* plaintext is longer than the map by a frame's overhead at most and loads again, for requests and responses.
LEMMA EncodeFacts ==
    ASSUME NEW m, NEW key, NEW opts, NEW ts, NEW n, m.body \in Nat
    PROVE  LET p == Encode(m, key, opts, ts, n)
               plain == p.ct.plain
           IN  /\ Authentic(p, key) /\ p.aad.wellFormed
               /\ p.aad.type = m.type /\ p.aad.nonce = n /\ p.aad.ts = ts
               /\ p.size = HeaderSize + p.claimed
               /\ p.claimed \in 1 .. MapSize + m.body + FrameOverhead + TagSize
               /\ plain.raw.msg = m /\ plain.raw.size = MapSize + m.body
               /\ ~plain.zstd => plain.size = plain.raw.size
               /\ HoldsMap(plain, p.aad.compressed)
               /\ m.type \in {"request", "response"} => LoadsAs(plain.raw, p.aad.type)
  <1> DEFINE p == Encode(m, key, opts, ts, n)
             plain == MaybeCompress(Dumps(m), opts)
             aad == [wellFormed |-> TRUE, type |-> m.type, compressed |-> plain.zstd,
                     ts |-> ts, nonce |-> n]
  <1>1. p = [aad |-> aad, claimed |-> plain.size + TagSize,
             ct |-> [key |-> key, aad |-> aad, plain |-> plain],
             size |-> HeaderSize + plain.size + TagSize]
    BY DEF Encode, Seal
  <1>2. Dumps(m).size = MapSize + m.body /\ Dumps(m).msg = m
    BY DEF Dumps
  <1>3. m.type \in {"request", "response"} => LoadsAs(Dumps(m), m.type)
    <2>1. m.type \in {"request", "response"} => DumpedKeys(m.type) = SchemaKeys(m.type)
      BY DEF DumpedKeys, SchemaKeys
    <2> QED BY <2>1 DEF LoadsAs, Dumps, Validates
  <1>4. /\ plain.raw = Dumps(m) /\ plain.size \in 1 .. MapSize + m.body + FrameOverhead
        /\ ~plain.zstd => plain.size = plain.raw.size
    <2>1. Dumps(m).size \in Nat \ {0}
      BY <1>2, SizesAssumption
    <2>2. Deflated(Dumps(m)) \in 1 .. Dumps(m).size + FrameOverhead
      BY <2>1, SizesAssumption DEF Deflated
    <2>3. CASE plain = Zstd(Dumps(m))
      BY <1>2, <2>2, <2>3 DEF Zstd
    <2>4. CASE plain = Plain(Dumps(m))
      BY <1>2, <2>1, <2>4, SizesAssumption DEF Plain
    <2> QED BY <2>3, <2>4 DEF MaybeCompress
  <1> HIDE DEF p, plain
  <1>5. p.aad = aad /\ p.ct.aad = aad /\ p.ct.key = key /\ p.ct.plain = plain
    BY <1>1
  <1>6. p.size = HeaderSize + p.claimed /\ p.claimed \in 1 .. MapSize + m.body + FrameOverhead + TagSize
    BY <1>1, <1>4, SizesAssumption
  <1> QED BY <1>2, <1>3, <1>4, <1>5, <1>6 DEF p, Authentic, HoldsMap

\* A request or response of decent size, admitted by the replay cache, gets through:
\* decode_message undoes encode_message, whatever the compression settings.
LEMMA EncodedOpens ==
    ASSUME NEW m, NEW key, NEW opts, NEW ts, NEW n, NEW cache, NEW t, NEW lim,
           m.body \in Nat, m.type \in {"request", "response"},
           lim.ciphertext \in Nat, lim.decompressed \in Nat,
           MapSize + m.body <= lim.decompressed,
           MapSize + m.body + FrameOverhead + TagSize <= lim.ciphertext,
           ~TooLarge(m, lim),
           Verdict(cache, n, ts, t) = "ok"
    PROVE  LET d == Decode(Encode(m, key, opts, ts, n), key, cache, t, lim)
           IN  d.exc = "ok" /\ d.msg = m
  <1> DEFINE p == Encode(m, key, opts, ts, n)
             plain == p.ct.plain
  <1>1. /\ Authentic(p, key) /\ p.aad.wellFormed
        /\ p.aad.type = m.type /\ p.aad.nonce = n /\ p.aad.ts = ts
        /\ p.size = HeaderSize + p.claimed
        /\ p.claimed \in 1 .. MapSize + m.body + FrameOverhead + TagSize
        /\ plain.raw.msg = m /\ plain.raw.size = MapSize + m.body
        /\ ~plain.zstd => plain.size = plain.raw.size
        /\ HoldsMap(plain, p.aad.compressed)
        /\ LoadsAs(plain.raw, p.aad.type)
    BY EncodeFacts
  <1> HIDE DEF p
  <1>2. WellFramed(p, lim.ciphertext)
    BY <1>1, SizesAssumption DEF WellFramed
  <1>3. Inflates(plain, p.aad.compressed, lim.decompressed)
    BY <1>1, SizesAssumption DEF Inflates, HoldsMap
  <1>4. Decode(p, key, cache, t, lim).exc = "ok" /\ Decode(p, key, cache, t, lim).msg = m
    BY <1>1, <1>2, <1>3 DEF Decode, Unpack
  <1> QED BY <1>4 DEF p
=============================================================================
