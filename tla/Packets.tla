------------------------------ MODULE Packets ------------------------------
(***************************************************************************)
(* RelayX v1 packets: what relayx.pipeline.encode_message makes of a        *)
(* message and what decode_message makes of the bytes that arrive.          *)
(*                                                                         *)
(*   message    [type, id, body, info]     the dataclasses of models.py     *)
(*   raw        [version, keys, typed, valid, msg, size]     the map packed   *)
(*   plaintext  [zstd, raw, size]          the map, compressed or not       *)
(*   packet     [size, aad, claimed, ct]   48-byte header and ciphertext    *)
(*                                                                         *)
(* Bodies are their lengths; info stands for the fields the relay only      *)
(* carries (method, host, headers, status, error code).  The cipher is      *)
(* symbolic: a ciphertext names the key and the associated data it was made *)
(* with, and opens under no others.                                         *)
(***************************************************************************)
EXTENDS Replay

CONSTANTS
    NoMessage,     \* the absence of a message
    NoKey,         \* the key of a ciphertext no key opens
    HeaderSize,    \* HEADER_SIZE, 48
    TagSize,       \* the Poly1305 tag a ciphertext ends with, 16
    MapSize,       \* what the map takes besides the body
    Dense,         \* the info of messages whose maps zstd cannot shrink
    FrameOverhead, \* what a zstd frame adds to such a map, at the most
    ZstdEnforces   \* whether zstandard honours max_output_size for a frame that
                   \* states its content size, as the frames compress() makes do

ASSUME SizesAssumption ==
    /\ HeaderSize \in Nat /\ TagSize \in Nat \ {0} /\ MapSize \in Nat \ {0}
    /\ FrameOverhead \in Nat /\ ZstdEnforces \in BOOLEAN

Version == 1

-----------------------------------------------------------------------------
(* relayx.protocol.codec *)

SchemaKeys(type) ==
    {"version", "type", "request_id"} \cup
    CASE type = "request"  -> {"method", "scheme", "host", "port", "path", "query",
                               "headers", "body"}
      [] type = "response" -> {"status_code", "reason_phrase", "headers", "body"}
      [] type = "error"    -> {"error_code", "message", "retryable"}

\* asdict gives the fields of the dataclass, which are its schema's keys, and
\* data["headers"] = ... sets that key whatever the type.
DumpedKeys(type) == SchemaKeys(type) \cup {"headers"}

Dumps(m) ==
    [version |-> Version, keys |-> DumpedKeys(m.type), typed |-> TRUE, valid |-> TRUE,
     msg |-> m, size |-> MapSize + m.body]

\* __post_init__ of the dataclasses: an id of 32 hex digits, HTTP tokens, a status
\* and a port in range, no CR or LF.  A message that was built has passed it.
Validates(raw) == raw.valid

\* loads accepts the map: version, the outer type against the inner one, exactly
\* the schema's keys with values of their types, and a message they validate as.
LoadsAs(raw, type) ==
    /\ raw.version = Version
    /\ raw.msg.type = type
    /\ raw.keys = SchemaKeys(type)
    /\ raw.typed
    /\ Validates(raw)

-----------------------------------------------------------------------------
(* relayx.compression; the sizes zstd reaches are external *)

\* The frame of a map is kept whatever its size, also when it is the longer of the two.
Deflated(raw) ==
    IF raw.msg.info \in Dense THEN raw.size + FrameOverhead ELSE 1 + raw.size \div 2

Plain(raw) == [zstd |-> FALSE, raw |-> raw, size |-> raw.size]
Zstd(raw)  == [zstd |-> TRUE, raw |-> raw, size |-> Deflated(raw)]

\* maybe_compress: below the threshold a map is sent as it is.
MaybeCompress(raw, opts) ==
    IF opts.enabled /\ raw.size >= opts.threshold THEN Zstd(raw) ELSE Plain(raw)

\* maybe_decompress returns: a frame zstd can read, or bytes within the limit.
Inflates(plain, compressed, max) ==
    IF compressed
    THEN plain.zstd /\ (ZstdEnforces => plain.raw.size <= max)
    ELSE plain.size <= max

\* Bytes taken as they are hold a map only when they were not compressed.
HoldsMap(plain, compressed) == plain.zstd = compressed

-----------------------------------------------------------------------------
(* relayx.crypto.aead *)

Seal(plain, key, type, compressed, ts, nonce) ==
    LET aad == [wellFormed |-> TRUE, type |-> type, compressed |-> compressed,
                ts |-> ts, nonce |-> nonce]
    IN  [aad |-> aad,
         claimed |-> plain.size + TagSize,
         ct |-> [key |-> key, aad |-> aad, plain |-> plain],
         size |-> HeaderSize + plain.size + TagSize]

\* The tag binds the ciphertext to the key and to every header field before the
\* length.  Mutant: the header is not associated data.
AuthenticIgnoringHeader(p, key) == p.ct.key = key
Authentic(p, key) == p.ct.key = key /\ p.ct.aad = p.aad

\* Mutant: the limit on the ciphertext is applied to the whole packet.
WellFramedWhole(p, maxCiphertext) ==
    /\ p.size \in HeaderSize .. maxCiphertext
    /\ p.aad.wellFormed
    /\ p.claimed >= 1
    /\ p.size = HeaderSize + p.claimed

\* The checks open_packet makes before it decrypts.
WellFramed(p, maxCiphertext) ==
    /\ p.size >= HeaderSize
    /\ p.aad.wellFormed
    /\ p.claimed \in 1 .. maxCiphertext
    /\ p.size = HeaderSize + p.claimed

-----------------------------------------------------------------------------
(* relayx.pipeline *)

Encode(m, key, opts, ts, nonce) ==
    LET plain == MaybeCompress(Dumps(m), opts)
    IN  Seal(plain, key, m.type, plain.zstd, ts, nonce)

TooLarge(m, lim) ==
    \/ m.type = "request" /\ m.body > lim.request
    \/ m.type = "response" /\ m.body > lim.response

Raised(exc, cache) == [exc |-> exc, msg |-> NoMessage, seen |-> cache]

\* After the replay check: decompress, load, look at the body's size.
Unpack(p, cache, lim) ==
    LET plain == p.ct.plain
        m == plain.raw.msg
    IN  IF ~Inflates(plain, p.aad.compressed, lim.decompressed)
        THEN Raised("CompressionError", cache)
        ELSE IF ~(HoldsMap(plain, p.aad.compressed) /\ LoadsAs(plain.raw, p.aad.type))
        THEN Raised("SerializationError", cache)
        ELSE IF TooLarge(m, lim)
        THEN Raised(IF m.type = "request" THEN "RequestTooLargeError"
                                          ELSE "ResponseTooLargeError", cache)
        ELSE [exc |-> "ok", msg |-> m, seen |-> cache]

\* decode_message: the exception it raises or the message it returns, and the
\* replay cache it leaves.  Mutant: the nonce is stored before the tag is checked.
DecodeReplayFirst(p, key, cache, t, lim) ==
    LET verdict == Verdict(cache, p.aad.nonce, p.aad.ts, t)
        after == SeenAfter(cache, p.aad.nonce, p.aad.ts, t)
    IN  IF ~WellFramed(p, lim.ciphertext) THEN Raised("ProtocolError", cache)
        ELSE IF verdict # "ok" THEN Raised(verdict, after)
        ELSE IF ~Authentic(p, key) THEN Raised("CryptoError", after)
        ELSE Unpack(p, after, lim)

\* Mutant: the nonce is stored only once the message has been read.
DecodeStoreLast(p, key, cache, t, lim) ==
    LET verdict == Verdict(cache, p.aad.nonce, p.aad.ts, t)
        after == SeenAfter(cache, p.aad.nonce, p.aad.ts, t)
    IN  IF ~WellFramed(p, lim.ciphertext) THEN Raised("ProtocolError", cache)
        ELSE IF ~Authentic(p, key) THEN Raised("CryptoError", cache)
        ELSE IF verdict # "ok" THEN Raised(verdict, after)
        ELSE IF Unpack(p, after, lim).exc # "ok"
        THEN Raised(Unpack(p, after, lim).exc, cache)
        ELSE Unpack(p, after, lim)

Decode(p, key, cache, t, lim) ==
    LET verdict == Verdict(cache, p.aad.nonce, p.aad.ts, t)
        after == SeenAfter(cache, p.aad.nonce, p.aad.ts, t)
    IN  IF ~WellFramed(p, lim.ciphertext) THEN Raised("ProtocolError", cache)
        ELSE IF ~Authentic(p, key) THEN Raised("CryptoError", cache)
        ELSE IF verdict # "ok" THEN Raised(verdict, after)
        ELSE Unpack(p, after, lim)
=============================================================================
