# RelayX in TLA+

A specification of RelayX (`src/relayx`): the protocol's replay cache, the packet
pipeline, the relay server process, the HTTP exchange at its two ends, the relay as a
whole and the service's life on a host, with TLC configurations and with proofs
checked by TLAPS. Paths below are relative to `src/relayx`; `PROJECT.json` maps every
definition to the lines it models.

## The system

An application talks HTTP to a **local proxy**. The proxy turns each request into a
RelayRequest, seals it into a packet and POSTs it to a **relay server**; the server
opens it, checks its replay cache, sends the request to the **upstream**, and
answers with a sealed RelayResponse or RelayError.

    application -> LocalProxy.handle -> RelayClient.send ==POST /relay==> relay()
                                                                          Forwarder.forward -> upstream
    application <- write_response    <- decode_message   <==200 packet=== encode_message

### Components

| component | state | operations | calls |
|---|---|---|---|
| replay cache (`protocol/replay.py`) | `_seen`: nonce -> timestamp, in memory | `check_and_store`, `_purge` | the wall clock |
| pipeline (`pipeline.py`, `protocol/codec.py`, `protocol/models.py`, `compression.py`, `crypto/aead.py`) | none | `encode_message`, `decode_message` | a replay cache |
| server (`server/app.py`, `server/endpoint.py`, `server/forwarder.py`) | drain counter, lifespan, httpx client, one task per request | `relay`, the counting middleware, `forward`, the lifespan | pipeline, replay cache, upstream |
| client (`client/proxy.py`, `client/relay_client.py`, `http/writer.py`) | one task per connection, a replay cache of its own | `handle`, `send`, `write_response` | parser, pipeline, carrier |
| parser and header filter (`http/parser.py`, `http/headers.py`) | none | `read_request`, `filter_forward_headers` | - |
| settings and keys (`config.py`, `crypto/keys.py`) | environment | validators | - |
| service lifecycle (`ops.py`) | files, systemd units, accounts | `install_service`, `uninstall_service`, `write_env_file` | `systemctl`, `useradd` |
| command line, logging (`cli.py`, `logging.py`) | none that lasts | dispatch | everything |

### What is hard

- **Concurrency.** Server and proxy are single-threaded asyncio programs: tasks
  interleave at awaits only. From the last chunk of a carrier body to the start of
  the upstream call there is no await, and this is what makes "check the nonce, then
  forward" atomic. The task count, the drain counter, the shared replay cache and
  the shared httpx client are touched by all tasks.
- **Failure.** The carrier may lose, repeat, delay, reorder, misdirect and alter
  packets. The upstream may execute a request and then fail to say so. A peer may
  stop in the middle of its body, and nothing bounds that wait. Shutdown has a
  deadline.
- **Time.** Freshness compares timestamps of one host with the wall clock of
  another, at both ends of an interval, and the wall clock may be set back.
- **Limits.** Cache capacity, carrier body, ciphertext, decompressed size, request
  and response bodies; they meet each other at their boundaries.
- **HTTP at the edges.** Headers that belong to one connection must not cross, all
  others must; a request that could be read in two ways must not be forwarded; the
  response gets a framing of its own.
- **Partial failure** of installation commands and file writes, crashes and boots
  between them; restarts of server and proxy, which persist nothing.

### What makes each component correct

- Replay cache: a packet gets past it at most once while the process lives; the
  cache never outgrows its capacity, and only live entries take it up.
- Pipeline: what comes out is what was sealed under the same key; unauthentic
  packets leave no trace; a message within the limits gets through.
- Server: one packet is forwarded at most once whatever the interleaving; only
  admitted packets are; the reply is about the request and does not lie about the
  upstream; the counter is exact; shutdown neither hangs nor cuts requests short.
- Client and server: no connection gets another one's response; packets that arrive in
  time are accepted at either end, whatever the two clocks say within the skew.
- HTTP ends: the upstream gets what the application asked for in its one meaning, with
  the end-to-end headers and no others, their values as they were; the limits are
  exact; a response is framed consistently.
- Whole: one life of the server carries a request out at most once, and a response is
  evidence that it was carried out.
- Service: nothing is enabled without its unit, installation and removal complete what
  they are for, configuration is lost only on request, and the service stays up.

## The modules

| module | kind | models |
|---|---|---|
| `Replay` | operators | one call of `check_and_store` on a cache value |
| `ReplayCache` | machine | a ReplayCache object, the wall clock, restarts |
| `DeliverOnce` | abstract | what the replay cache promises |
| `Packets` | operators | packets, `encode_message`, `decode_message` |
| `PacketChannel` | machine | a sender, a carrier, peers that do not match, a receiver |
| `RelayServer` | machine | the server process with its request tasks |
| `RelayContract` | abstract | what the relay promises the application |
| `RelaySystem` | machine | proxy and client, carrier, server and upstream composed |
| `HttpExchange` | machine | one connection: parser, both header filters, writer |
| `ServiceLifecycle` | machine | the administrator's commands, the files and systemd |
| `MC...` | instances | constants and symmetry for TLC |
| `ReplayProofs`, `PacketsProofs` | proofs | what the operators of `Replay` and `Packets` return and keep |
| `ReplayCacheProofs`, `PacketChannelProofs`, `RelayServerProofs`, `RelaySystemProofs`, `HttpExchangeProofs`, `ServiceLifecycleProofs` | proofs | the theorems about these machines |

`Packets` extends `Replay`, `PacketChannel` and `RelayServer` extend `Packets`, and
`RelaySystem` extends `RelayServer`. So the cache TLC checks alone is the one that
decides inside the server and the client. `HttpExchange` and `ServiceLifecycle` stand
alone: the first replaces the relay by a step that carries a message over or fails,
which is what `RelaySystem` shows of it; the second is about the process as a whole.

### Replay and ReplayCache

A cache is a function from nonces to timestamps. `Verdict` and `SeenAfter` are what
`check_and_store` answers and leaves: the purge comes first and stays done when the
call raises. `Accept`/`Refuse` are the two ways a call ends; `Tick` and `StepBack`
move `time.time()`, and only `WallClockSpec` has `StepBack`; `Restart` is a new
process. `accepted` and `peak` (the latest time at which the process looked at a packet) are
history variables.

### Packets and PacketChannel

A body is its length; a header field is a record field; `info` is what the relay
only carries. The cipher is symbolic: a ciphertext names the key and associated data
it was made with. `Decode` keeps the order of `decode_message`: framing, tag, replay
check, decompression, schema and message validation, body limits, each with its
exception and the cache it leaves. `ZstdEnforces` says whether zstandard applies
`max_output_size` to frames that state their content size; the run takes FALSE, the
weaker assumption. `maybe_compress` keeps the frame whatever its size (`compression.py`
11-14): messages whose `info` is in `Dense` are incompressible, and their frames are
`FrameOverhead` longer than the map. `Alter` changes a header field, the type byte, the
length or the ciphertext; `SendForeign` sends what other keys, versions, encoders and flags would.

### RelayServer

A step of a task is what it does between two awaits:

| action | code |
|---|---|
| `Arrive` | the middleware counts the request (`app.py` 57-63) |
| `Admit` | the route, `authenticate`, content type (`endpoint.py` 101-110); a token outside ASCII makes `compare_digest` raise (34), a 500 |
| `ReadChunk`, `Disconnect` | `read_limited_body` (38-44) |
| `Dispatch` | `decode_message` to the start of `forward`, or the error reply (115-145) |
| `Execute` (external), `Head`, `Chunk`, `End` | the upstream call (`forwarder.py` 27-49); a chunk of any length in `Chunks` is kept and then measured |
| `Renew` (external) | a 1xx response or data that decodes to nothing: httpx waits anew |
| `Timeout`, `ConnectFails`, `Breaks`, `Escapes` | its exceptions (50-70, and those it does not catch) |
| `Finish` | the reply is encoded, the middleware's `finally` (`app.py` 64-65) |
| `BeginShutdown`, `DeadlinePasses`, `CloseClient` | shutdown (38-49, 18-24) |

uvicorn stops listening and waits for running requests before the lifespan shutdown, and
`cli.py` 48 starts it without a graceful-shutdown timeout: a peer that never finishes its
body can keep `BeginShutdown` from ever coming. It is therefore not fair, and
`ShutdownCompletes` is about the drain of `app.py` once it has begun, not about the
process. What the application does not control it does not rely on either: the model lets
requests run, and arrive, during the drain and after it, which covers every host.

### RelaySystem

Each connection of the application is one task of the proxy. Request id and nonce
are fresh random values; the connection's name stands for both, and a server task's
name for the nonce of the one reply it seals. `wire` only grows: delivering any of
its packets, any time, again, to anyone, is loss, delay, repetition, reordering and
misdirection in one. The client's clock is `ClientAhead` of the server's. How an
upstream call fails and how bodies are cut into chunks is `RelayServer`'s subject: here
one failure stands for all, as the client can decode no RelayError (see
`packet_errors`), and bodies are read whole.

`ServerRestarts` ends the server's tasks where they are and makes a new cache;
`ProxyRestarts` breaks the proxy's connections and forgets its cache; packets on the
wire survive both. `past` remembers which tasks belong to an earlier server. The
contract follows the code: a request may be carried out once in each life of the
server, not twice in one. A request counts as carried out in the life of the server that forwarded
it; an upstream that takes its time and acts after that server died is not told apart.
An orderly shutdown looks like a restart from outside.

### HttpExchange

The application's bytes arrive one by one (`AppSends`) and may stop at any of them
(`AppCloses`); the parser reads the head bytewise (`ReadByte`), judges it at its last
byte, waits for the body, and only then looks at Host and target (`ReadBody`), in the
order of `read_request`. `Forward` is the second filter on the request, `Respond` the
decoding of the body and the first filter on the response, `Write` the second and the
framing. A header is a pair of a spelled name and a value; `Lower`, `Tokens` and
`Number` give what the code's string operations make of them. A list of headers is a
function from positions to headers, and what a filter lets through keeps its position, so
that order is kept by construction of the list and the filter is a restriction that can be
reasoned about without induction over the list. `wellFormed` stands for the grammar of the
request line, tokens and header lines.

Values change their encoding on the way, and the model says where. The parser reads a
request as iso-8859-1 and httpx sends it in ASCII, so `Forward` is disabled for any other
value and only `RelayFails` is left. httpx reads the headers of a response as UTF-8 when
all of them are (`ReadAsUtf8`, `Recoded`), and the writer encodes iso-8859-1 (`Latin1`):
`MultiItems` and `Encodable`.

A target is a scheme as it is spelled and the segments between the slashes. `_target` tells
the absolute form by a case-sensitive prefix (`ReadAsAbsolute`) and leaves the rest to
`urlsplit`, which takes what follows two slashes for an authority whatever the form is and
removes tabs and line breaks (`Cleaned`): `UrlPath`.

The properties compare with definitions of their own: `EndToEnd` and `SameHeaders` say
which fields cross, header by header; `BodyReadings`, `HostHeaders`, `TargetHosts` and
`PathAsked` are how a reader who knows HTTP could understand the same head.

### ServiceLifecycle

A command of `cli.py` that acts on the host is a sequence of steps: `InstallSteps`,
`UninstallSteps`, and those of `ConfigInit` and `ServiceAction`. `Begin` starts one
when no other is running; `install_service` decides about `useradd` at that moment.
A step does what the file operation or the `systemctl` call does. `write_text` is
two steps, a truncation and a write, with `Torn` between them. `Interrupt` ends a
command before any of its steps, because the step raised (`run_commands` uses
`check=True`) or the process was killed.

What systemd does is external, and assumed as systemd documents it:

- `enable` fails unless the unit file is there and not empty, which would mask it;
  `enable` and `disable` reload like `daemon-reload`;
- `start` and `restart` need a definition, loaded or read from disk, and do not wait
  to see whether the process stays (`Type=simple`); `stop` of a unit without any
  fails; so does `disable` without a unit file;
- a process that fails is started again (`Restart=on-failure`), for ever, as
  `RestartSec=5s` keeps below the start limit; a boot starts what is enabled;
- a definition that is neither enabled nor running is dropped;
- a setting in `EnvironmentFile=` overrides the same one in `Environment=`, and the
  leading `-` lets the file be absent.

The server stays up when its account and directory exist and the environment file is
whole with secrets that pass: a token that equals the key fails `RelaySettings`
(`Validates`), the template's placeholder fails `decode_encryption_key`
(`KeyDecodes`), which `create_app` calls and `config validate` does not. Of the other
settings only the port is modelled.

## The runs

| run | asks | bounds | states |
|---|---|---|---|
| `replay_cache` | at-most-once, capacity, no false refusal, refinement of `DeliverOnce` | 5 packets, capacity 2, window 2, skew 1, clock to 7 | 601 |
| `replay_wallclock` | what a clock set back can cost | same packets, clock to 5, any step back | 4.1k |
| `packet_channel` | authenticity, single reading, limits, that messages get through | 2 nonces, bodies at and over each limit, compression on and off, bodies that do not compress, 1 alteration | 293k |
| `packet_errors` | whether a RelayError gets through (it does not) | one RelayError | violated |
| `server_requests` | admission, single forwarding, truthful replies, counter, buffers, drain | 2 tasks, 10 kinds of carrier request, chunks of 1 and 3, clock to 2 | 471k |
| `server_shutdown` | liveness of forwarded requests and of the drain | 2 tasks, 2 packets, chunks of 1 and 3 | 93k |
| `relay_system` | misdirected replies, skew boundary in both directions, refinement of `RelayContract` through expiry and restarts | 2 connections, 2 tasks, client 1 behind, skew 1, clock to 1, 1 restart of either side | 779k |
| `http_exchange` | filtering, encoding, framing, one reading of each request, exact limits, that a request is judged | 149 requests, 15 responses, head limit 3, body limit 1 | 8.5k |
| `http_encoding` | whether a compressed response arrives as it was answered (it does not) | the same | violated |
| `service_lifecycle` | what is left when commands fail midway, that they can be repeated, that the service stays up | 4 commands, 2 ports, 3 kinds of secrets, a failure, crash or boot at any step | 1.6M |
| `service_override` | whether a documented port override takes effect (it need not) | 3 commands, no failures but systemd's | violated |
| `service_purge` | whether the documented purge can follow a removal (it cannot) | 3 commands, no failures but systemd's | violated |

Why the bounds are enough. The cache compares timestamps with one clock and counts
entries: a window of 2, a skew of 1 and a clock that leaves the window behind put
packets before, at and after each boundary, and 5 packets over a capacity of 2 fill
it with live and with expired ones. Two tasks suffice for a race about one packet.
Limits of a few
units put bodies and chunks at, below and above each limit. `MaxAccepts = 2` stops
counting at the second acceptance, which already violates. Four commands let one
fail, a second fail over what it left, and a third complete. The requests of
`http_exchange` are every mixture of 4 Host, 3 Connection and 6 framing lists around
the same own headers, 4 spellings of a scheme times 7 odd paths (two slashes, tabs, `*`,
nothing), a header outside ASCII, and heads of 1 to 4 bytes with 0 to 5 bytes sent around a limit
of 3. One restart suffices for a packet of one life to reach the next, and two server
tasks for one execution in each. The runs of the server, the system and the exchange
say `CHECK_DEADLOCK FALSE`, because what has shut down or been answered has nothing
left to do, and those of the lifecycle because the administrator stops giving commands.

A chunk of 1 stays within the response limit and one of 3 passes it by more than a unit.

Fairness (`RelayServer!FairSpec`): the event loop runs a task that can run; each wait on
the upstream ends, since httpx bounds every single connect, read and write by
`timeout_seconds`; the drain loop polls a clock. A whole call has no bound: an upstream
that sends 1xx responses, or a compressed stream that decodes to nothing, renews the
timeout and adds nothing to the body that is limited. `ForwardedIsAnswered` is therefore
claimed for calls whose upstream does so finitely often, and a call that renews for ever
is a behaviour of the model, which without that antecedent refutes it. `ReadChunk` is not
fair, because nothing bounds the wait for a carrier's body: a drain then completes by its
deadline alone, which `ShutdownCompletes` shows.

`HttpExchange!Spec`: the event loop runs a parser that has something to read, and nothing
else is fair. The application need not send anything; the relay may take as long as its
upstream; and `drain` and `wait_closed` (`http/writer.py` 31, `client/proxy.py` 48) wait
for an application that may never read. So no claim is made that a connection ends, only
that the parser comes to its verdict: `SentIsJudged` starts from a request sent in full or
a stream that has ended.

### What the violations show

**`packet_errors`.** `codec.dumps` sets `data["headers"]` for every message
(`protocol/codec.py` 41), so the map of a RelayError has a key its schema lacks and
`_error` always refuses it (`_check_keys`, 80-82). The client never decodes a RelayError;
the proxy answers each with its own generic error. `OutcomeIsTrue` and
`ReplyIsAboutRequest` are about what the server seals, and they hold; `ErrorsGetThrough`
is what `docs/OPERATIONS.md` 102 and `docs/INSTALL.md` 129 rely on.

**`service_override`.** `docs/OPERATIONS.md` 157 offers two ways to change the port:
the environment file, or reinstalling the unit with `--port` and a restart. The unit
has both an `Environment=` line and `EnvironmentFile=` (`ops.py` 158-159, 171), the
file wins, and `config init` always writes the port into it (99): the override does
nothing, silently.

**`service_purge`.** `docs/OPERATIONS.md` 24-34 shows `uninstall service`, after which
the configuration is retained, and then `uninstall service --purge` to delete it. The
second fails at `systemctl stop` (`ops.py` 280-286), since the unit is gone, and
purges nothing. The same holds for a removal that was cut off after the unlink.

**`http_encoding`.** `forward` reads the body with `aiter_bytes()`, which decodes it, and
passes on the headers of the encoded one (`server/forwarder.py` 34, 47):
`Content-Encoding: gzip` with plain bytes. httpx asks upstreams for compression by
itself, so an application that did not is affected too. `docs/SECURITY_AUDIT.md` 73 calls
application headers end-to-end.

### What the other runs show that is easy to overlook

- Purge and expiry must use the same cutoff. With a cutoff one unit later, a replay
  gets in at exactly one instant; TLC finds it in the cache alone, in the server and
  end to end.
- A clock set back does let packets in again, but only packets that had expired at
  the latest time at which the process looked at one (`RepeatsAreOld`); the clock passing
  their window unnoticed costs nothing.
- Compression can make a packet longer. With the ciphertext limit set so that it just
  admits the largest map, a body at its limit that does not compress is refused
  (`aead.py` 69): `LimitsCompatible` has to leave room for the frame.
- Some replies say that the upstream has not seen the request, and that is so: an HTTP
  status, an error without an id, and the codes in `Refusals`. `upstream_timeout` and
  `upstream_protocol_error` leave it open, and so does `invalid_packet` with an id, though
  its text, "Relay packet could not be processed", reads like a refusal: `endpoint.py` 69-71
  seals it for whatever else `forward` raises, also after the upstream answered
  (a status RelayResponse refuses, `forwarder.py` 43). `OutcomeIsTrue` is exactly this
  reading, and the contract with the application assumes less: an error teaches it nothing.
- The body of an upstream's answer passes its limit by the chunk that reveals it, and
  nothing bounds that chunk: a compressed one of a few kilobytes may decode to megabytes
  (`forwarder.py` 34-36, `BuffersBounded`).
- A restart costs exactly what `docs/OPERATIONS.md` 94 says: packets inside the window
  are carried out again, once. It never lets a connection have another one's response,
  and a reply that outlives its proxy reaches nobody.
- The parser's limits are exact, and the check after the loop of `_read_headers` never
  fires.
- Not every request goes where its target says; the exceptions of `RequestAsSent` are all
  necessary. `HTTP://other/p` and `ftp://other/p` are read as origin form, since
  `http/parser.py` 63 compares case-sensitively: scheme and authority are dropped, and the
  request goes to the path at its Host, though `docs/SECURITY_AUDIT.md` 107 and
  `docs/RELEASE_NOTES_v1.md` 23 say that a target and a Host that disagree are refused. A
  target that starts with `//` loses its first segment, and one with a tab loses the tab
  (`http/parser.py` 85).
- A response header that is UTF-8 may arrive changed: the bytes C3 A9 as E9, provided all
  headers of the response are UTF-8. One that iso-8859-1 cannot encode breaks off the
  response after its status line (`http/writer.py` 26). A request header outside ASCII is
  never forwarded: the call fails. `docs/SECURITY_AUDIT.md` 73 calls all of these
  end-to-end; `OnlyEndToEnd` states the exception.
- An enabled service goes down by a stop, or by a boot while its unit is torn: an
  installation repeated over a running service and cut off between truncating and writing
  the unit (`ops.py` 257) leaves the process running and nothing to start it from
  (`StaysUp`). An installation with `--start` succeeds although the server cannot start,
  and systemd tries it until the settings can be used.
- `config init` without secrets writes a key that passes `config validate` and fails at
  the server's start.
- A request that arrives after the client was closed (possible only with a host that
  keeps accepting) is answered with an error, not lost.

## The proofs

Every safety invariant the runs check, both action properties and both refinements are
theorems: they hold for every number of connections, tasks, packets, headers and
commands, and for every limit. Runs show them on small instances, and with the mutants
that each of them can fail; TLC finds the inductive invariants below true on the runs'
instances as well.

| module | theorems | inductive invariant |
|---|---|---|
| `ReplayCacheProofs` | `TypeOK`, `AtMostOnce`, `BoundedCache`, `ReclaimBound`, `RepeatsAreOld`, `NoFalseRefusal`, the refinement `DeliveryRefined` | `WallInv`, `MonoInv` |
| `PacketChannelProofs` | `TypeOK`, `OnlyGenuine`, `OnlyAuthenticBurn`, `ReadOnce`, `BodiesGetThrough` | `ChannelInv` |
| `RelayServerProofs` | `TypeOK`, `CounterExact`, `ForwardedOnce`, `OnlyAdmitted`, `CacheFedByAuthorized`, `ReplyIsAboutRequest`, `OutcomeIsTrue`, `NotCutShort`, `BuffersBounded` | `ServerInv` |
| `RelaySystemProofs` | `SysTypeOK`, `NoCrossTalk`, `PromptPacketsAccepted`, the refinement `ContractHonoured` | `SysInv` |
| `HttpExchangeProofs` | `TypeOK`, `OnlyEndToEnd`, `ResponseFramed`, `RequestAsSent`, `RefusedForCause` | `HttpInv` |
| `ServiceLifecycleProofs` | `TypeOK`, `NoOrphan`, `InstallComplete`, `UninstallComplete`, `InstallAgain`, the action properties `ConfigKept` and `StaysUp` | `LifeInv` |

### What is assumed of the constants

- `ReplayAssumption`, `SizesAssumption`, `LimitsAssumption`, `ClientLimitsAssumption`,
  `ClockAssumption`, `BoundsAssumption`, `ChannelAssumption`, `LifecycleAssumption`: the
  ranges that `RelaySettings` validates, sizes that are numbers, bounds of the model.
- `ChunksAssumption`, `TokenAssumption`: httpx yields no empty chunk, and the configured
  token is in ASCII, without which the endpoint admits nobody.
- `PacketsAssumption`, `FreshNonces`: nonces are not drawn twice, so two packets that
  authenticate under the key and have one nonce are one packet. `RelaySystem` has it by
  construction, as a name is used once.
- `NamesAssumption`, `RepliesAssumption`, `NoneAssumption`, `FilesAssumption`: a value that
  stands for an absence is told from the values that are there.
- `CarriersAssumption`, `MessagesAssumption`: the inputs have the fields they should have,
  a request its id; a head is not empty; header values are bytes, hence in iso-8859-1, and
  a Connection value names the same headers in either encoding.
- `FoldingAssumption`: `lower()` of a lower-case name changes nothing, and whether
  RelayRequest accepts a host does not depend on its case.

The passing runs have TLC evaluate all of them. The bounds on clocks and counters
(`MaxTime`, `MaxAltered`, `MaxRestarts`, `MaxCommands`) are constants too, and may be
any number.

### Lemmas about the operators

`ReplayProofs` says what a call of `check_and_store` tells of the cache (`VerdictOk`,
`VerdictFresh`) and what it leaves (`SeenAfterFacts`, `PurgeFacts`); `PacketsProofs` what
a packet that decodes must be (`DecodeOk`, `DecodeMsg`), what decoding does to the cache
(`DecodeSeen`), and that what was encoded within the limits decodes to itself
(`EncodeFacts`, `EncodedOpens`). The machines cite these, and only the channel's
`UnpackedFacts` expands `Decode` again: client, server and channel are proved about the
same cache and the same pipeline.

### Replay cache

None of the properties is inductive alone: that a packet is not admitted twice depends
on its entry still being there. `WallInv`, inductive whatever the clock does, adds

- `Justified`: every entry is the nonce and timestamp of a packet that was admitted;
- `Remembered`: every admitted packet not expired at `peak` still has its entry;
- `Finite`: the cache's domain is finite and within the capacity.

`Remembered` survives a purge because purge and expiry share a cutoff and looking at a
packet moves `peak` up to `now`; it survives a step back because `peak` does not move. Then an
admission of something already admitted needs a packet without entry, hence expired
at `peak`: that is `RepeatsAreOld`. With a monotone clock `peak <= now`, so what had
expired at `peak` has expired now (`OldStaysOld`) and is refused (`AdmittedIsNew`): that
is `MonoInv`, from which
`AtMostOnce` and the refinement follow. `BoundedCache` and `ReclaimBound` are proved
for the clock that may be set back.

### Packet channel

`WireInv` carries the argument: every packet on the wire either does not authenticate
under any key, or its ciphertext is, size and associated data included, the one that was
sealed under that nonce. A changed header field does not matter to it, since the tag is
over the associated data, and neither do peers with other keys. So a packet that opens is a
sealed one (`OnlyGenuine`, `OnlyAuthenticBurn`). `ReadInv` says that a nonce that was read
stays in the cache until its packet has left the window, so a second reading needs a
packet the cache refuses as expired (`ReadOnce`). `BodiesGetThrough` needs no invariant
beyond `WireInv`: it is arithmetic about the limits, for every limit that is compatible,
that is, leaves room for a frame longer than what it holds.

### Relay server

`ServerInv` has four parts. `Tasks` says for each place in the handler what its task
has and has done by then (`Phase`: nothing is executed before it is forwarded, a reply
exists from the last await on, buffers are within their limits); `Carried` that it works
for a carrier request that arrived; `Cache` that the nonce of every forwarded packet is
in the cache or its packet has left the window; `Count` that the counter is the number of
active tasks, a set that is finite however many tasks there are. What other tasks do
leaves the phase of a task alone (`AloneTasks`), so each action is proved for its own
task; what tasks share is the cache, the counter and the lifespan. `ForwardedOnce` is the
race: a second task would have to find the nonce unknown (`DispatchNew`), but the cache
knows it, and if the packet has left the window the verdict is "expired". With a check
and a forward in different steps, this would not be inductive.

### The whole relay

`SysInv` describes the wire by what may be on it: the one request packet of a connection
that asked, or a reply of a server task that is an error or a response to a request that
was carried out (`Told`). Restarts are why it has two parts about tasks: `TasksOnWire`
holds for the tasks of every life of the server, whose packets stay on the wire, and
`LiveTasks`, the invariant of the server, only for those outside `past`, whose cache is
the present one. `Connections` says what a connection holds at each of its stages.

`ContractHonoured` is proved step by step: a connection's `Ask` is the first packet with
its name, the upstream's `Execute` is the contract's, and is allowed because no live task
has executed a request with the same name (`LiveTasks` and fresh names); the answer a
connection accepts is a response only when somebody executed it; a restart of the server
empties `current`, since its tasks go to `past`; everything else is a stutter.
`PromptPacketsAccepted` is about both directions, each with the clock difference that
works against it, and about limits that leave room: `ServerTakesRequests` and
`ClientTakesReplies`, which the defaults satisfy. With smaller ones, or a full cache
(`Room`), a packet in time is refused for its size or for want of space, not for the clocks.

### HTTP exchange

Filtering is idempotent only once one knows which `Connection` tokens the second filter
sees: none, as the first took the header away (`FilteredTokens`, `TwiceFiltered`). With
`TwiceCarries` this gives `OnlyEndToEnd` in both directions, for every list and every
spelling; `MultiItemsFacts` is about `multi_items` in between, which changes values but
neither names nor the tokens of Connection, so that both filters still agree. `HttpInv`
keeps what links the stages: `Reading` and `Asked` (the request is the target of a head
that was accepted and read to its end), `Handed`, `Answered` (what is written is the
proxy's own answer or the upstream's), and `RefusedForCause`, which is part of it because
the request that was refused has to be judged when it is refused. `AcceptedHead`,
`HostFacts` and `PathFacts` turn the parser's checks into statements about every reading
of the same head (the path `urlsplit` finds is the one asked for, unless the target is one
of the exceptions), and `RefusedHead` is the converse that exact limits need.

### Service lifecycle

A command is a plan, a sequence of steps that is worked off from its head. `Progress` says
what is left of a command and, for each thing that may be left, what the steps before it
have achieved and nothing since has undone: an installation about to `enable` has its
unit, its directory and its account; a removal about to unlink the unit has the service
down, disabled and forgotten by systemd. Crashes, boots, retries and systemd's own steps
have to keep this at every position, which is what makes `InstallComplete` and
`UninstallComplete` true also when they happen between the last step and the next command.
`SystemdInv`, that whatever runs has a definition, and that one is kept only for what is
enabled or runs, is needed for `NoOrphan` and `StaysUp`: by `NoOrphan` a boot finds a unit
for every enabled service, and only a torn one keeps it down. The lemmas about plans
(`InstallStepsPlan` and the like) enumerate what can be left, for every option of the
commands.

### What the proofs changed

Stating what is on the wire showed that the channel's carrier could shorten a packet and
leave it a ciphertext that still opened: an altered length now breaks the tag, as it does
in the code. `PromptPacketsAccepted` got the hypotheses about limits and room, and
header lists became functions from positions.

### Only model-checked

- Liveness: `ForwardedIsAnswered`, `ShutdownCompletes` and `SentIsJudged` need fairness
  and ENABLED, which these provers do not handle.
- The four properties that are violated are, naturally, counterexamples and no theorems.

## Not modelled, and the plan

Left out on purpose: `/health` and `/ready`, which change no state; logging; argument
parsing; benchmarks and deployment files; file permissions, dry runs, `doctor`,
`config show` and `config validate`, which only read; the grammar of HTTP tokens, hosts
and URLs; what has been written of a response whose writing failed; the order of
environment and `--config` file, which is pydantic's; the `--config` option of
`install service`, which sets `RELAYX_CONFIG`, a variable nothing reads (`ops.py` 151);
memory and the number of concurrent requests, which the code does not bound.

What could follow: the remaining settings of the unit and of `EnvironmentFile=` beside the
port; `config validate` as a step of the administrator, who may act on its answer; and
liveness, once a prover for fairness is at hand.
