# Formal models of the Portal / RelayDNS browser client

This directory holds TLA+ models of the Rust/wasm browser client under
`src/portal/wasm` and `src/relaydns/wasm`, TLC configurations that check them
on small instances, and TLAPS proofs. The proofs cover the channel's type
and nonce invariants, the tunnel layer's guard and registration invariants,
its refinement of an abstract tunnel registry, the stream adapter's byte
preservation, and the relay client's lease invariant. Every
module is translated from the Rust source. The one exception is the relay
server that the channel talks to, which is not in this repository; it is
modelled from `spec.md` and marked `spec_modelled` in `PROJECT.json`.

## The system and how its parts interact

JavaScript calls the `ProxyEngine` entry points (`proxy_engine.rs`):
`handleHttpRequest`, `openWebSocket`, `sendWebSocketMessage`,
`receiveWebSocketMessage`, `closeWebSocket` and `connectTcp`. Every call is an
async task on the browser's single event loop, and tasks interleave only at
their `await`s.

1. **TunnelManager / Tunnel** (`tunnel_manager.rs`). `create_tunnel` opens a
   `WebSocketStream`, runs the E2EE handshake and stores the tunnel under a
   random id. `send_request` and `receive_response` lock the tunnel's
   `parking_lot::Mutex` and hold the guard across the channel's write or read.
   `remove_tunnel` drops the map entry.
2. **SecureConnection** (`crypto.rs`). `client_handshake` sends a signed
   ClientInit, checks the ServerInit and sets `encrypt_nonce` to the client
   nonce and `decrypt_nonce` to the server's nonce.
   - `write` increments `encrypt_nonce`, seals under it and sends.
   - `read` requires the frame's nonce to equal `decrypt_nonce`, opens the
     payload, then increments.
   - `increment_nonce` is a 12-byte big-endian counter that wraps.
   - Frames are length-prefixed (`write_length_prefixed` /
     `read_length_prefixed`).
3. **WebSocketStream** (`ws_stream.rs`). This adapter turns a browser
   WebSocket into `AsyncRead`/`AsyncWrite`.
   - Browser callbacks (`onmessage`, `onerror`, `onclose`, `onopen`) fill a
     shared byte buffer, set a `closed` latch and an error slot, and wake the
     parked reader.
   - `poll_read`, `poll_write` and `poll_close` are polled by the task using
     the stream.
4. **RelayClient** (`relay_client.rs`, with `proto/mod.rs`). These are
   control RPCs (`getRelayInfo`, `registerLease`, `requestConnection`). Each
   opens a socket of its own, writes one length-prefixed packet and reads one
   answer. `registerLease` stores the accepted lease under the credential id.
5. **Application codec** (`protocol_codec.rs`). Requests and responses travel
   through a tunnel as JSON envelopes `{id, version, payload}`.
   `receive_response` reads one plaintext into a 64 KiB buffer, decodes the
   envelope and keeps a `Response` payload. The handler then matches the
   variant it waits for.

## Modules

| Module | Models | State | Actions |
|---|---|---|---|
| `SecureChannel` | `crypto.rs` 90–257: handshake, `read`, `write`, nonce counters; the relay peer (spec-modelled); an attacker on the server→client stream | client phase and nonces, the two frame streams, what each side sent and accepted, the nonces sealed | `ClientSendInit`, `ClientRecvServerInit`, `ClientWrite`, `ClientRead`, `ServerRecvClientInit`, `ServerWrite`, `ServerRead`, `TransportClose`, `AttackerInject/Drop/Swap` |
| `MCSecureChannel` | the ServerInit frames TLC enumerates: a good one for every nonce, and one failing each handshake check | | |
| `SecureChannelProofs` | TLAPS proofs of `TypeOK`, `EncryptNonceNeverReused`, `ClientReceivesServerStream` | | |
| `TunnelProxyProofs` | TLAPS proofs of the guard and registration invariants, and of the refinement of `TunnelRegistry` | | |
| `WsStreamProofs` | TLAPS proofs of `StreamPreservesBytes`, `TypeOK` and the refinement of `ByteStream` | | |
| `ByteStream` | what the adapter promises its reader: an abstract in-order byte stream, not a translation of code | the bytes arrived, the bytes taken, how the stream ended | `Arrive(chunk)`, `Take`, `Finish`, `Fail` |
| `RelayClientProofs` | TLAPS proof of `TypeOK` | | |
| `NonceIncrement` | `increment_nonce` byte by byte (RECURSIVE, TLC only) | a nonce | one increment |
| `FrameCodec` | `write_length_prefixed` / `read_length_prefixed`, widths scaled down | the byte stream, frames sent and received | `Write(data)`, `Read` |
| `WsStream` | `ws_stream.rs` entire | `readyState`, buffer, `closed`, error, wakers, connect/reader/writer pcs | `OnOpen`, `OnMessage`, `OnError`, `OnClose`, `BufferedChange`, `ConnectResumes`, `PollRead`, `PollWrite`, `PollClose` |
| `TunnelProxy` | `tunnel_manager.rs` and the `proxy_engine.rs` entry points | per call: pc, entry point, tunnel; the map's key set; each tunnel's mutex holder; ids handed to JavaScript; tunnels whose WebSocket is open; open sockets of failed handshakes | `StartCreate`, `StartOnTunnel`, `CreateTunnel` (with `CreateFails`), `LockForSend`, `LockForRecv`, `SendDone`, `RecvDone`, `TransportDrops` |
| `TunnelRegistry` | what the tunnel layer promises about ids: an abstract specification, not a translation of code | the registered ids, the ids issued to JavaScript | `Register`, `Issue`, `Discard`, `Withdraw` |
| `ProxyCodec` | `protocol_codec.rs` encode/decode on the response path: `SecureConnection::read` into the 64 KiB buffer, `receive_response`, the handlers' match | the waiting handler, the relay's reply and its length, the handler's result | `Call`, `RelayReplies`, `Receive` |
| `RelayClient` | `relay_client.rs` and the packet I/O of `proto/mod.rs`; the relay as environment | per call: pc, RPC, lease, answer; the stored lease; the relay's accepted leases | `Connect`, `StartRpc`, `SendRequest`, `RelayServes`, `ReadResponse`, `ReadFails` |

### Abstractions

- **Data is abstracted away.**
  - Messages and lease names are model values.
  - A ciphertext is a record `[key, nonce, msg]` that opens only under its key
    and nonce. This is the AEAD's integrity and nothing more.
  - A nonce is one number modulo `NonceSpace`. `NonceIncrement` shows that the
    byte loop is exactly that counter.
  - Frames carry only what the checks look at.
  - A JSON envelope is its `type` tag and its set of keys (`ProxyCodec`).
    serde writes every field of a variant, ignores unknown keys when reading,
    and lets an `Option` field be missing.
- **Awaits are action boundaries.**
  - A handler is split into actions at its `await`s only.
  - Everything between two awaits is one action, with its early returns as
    disjuncts.
- **The single thread.** On wasm a `parking_lot` lock that finds the mutex
  held cannot park the only thread. `TunnelProxy` records such a call as pc
  `"contended"` rather than as waiting.
- **Alternatives are disjoint.** Where the code tests conditions in order
  (an `if` chain, a `match`), the model writes each arm with the negations of
  the earlier tests. A TLA+ `CASE` with overlapping guards would let either arm
  fire, and TLAPS could not tell the arms apart.
- **The server's first nonce.** The spec contradicts itself here. Line 66
  and §8 invariants 3–4 say each side's first write uses its initial nonce
  plus one, so the server's first frame would carry `server_nonce + 1`. §4.4
  (the Observation after the read steps) says the first frame the client
  accepts MUST carry the server's initial nonce, unincremented, and the code
  agrees: `client_handshake` sets `decrypt_nonce` to the ServerInit nonce
  (`crypto.rs:190`) and `read` requires an exact match before incrementing.
  A server following line 66 would have every frame rejected. The peer model
  follows §4.4: the peer seals under its counter and increments after, while
  the client increments before sealing, as `write` does.
- **The environment is free.**
  - The relay and the browser act when they choose.
  - The attacker can inject frames built from what it saw or from junk, drop
    a frame, or swap two frames, up to `MaxAttacks` times.

## Runs

Each run instantiates its module with small sets of model values.
`CHECK_DEADLOCK FALSE` is set where the bounds (`MaxSend`, `MaxCalls`,
`MaxMsgs`, `MaxWrites`, `MaxFrames`) make the model stop. Those final states
are the budget running out, not a deadlock of the code.

| Run | Expect | Checks | Shows |
|---|---|---|---|
| `sc_integrity` (`SecureChannel_integrity.cfg`) | pass | `TypeOK`, `ClientReceivesServerStream`, `EncryptNonceNeverReused`, `ServerStreamDelivered`, `ClientStreamDelivered` | With up to two injected, dropped, swapped or replayed frames, what the client reads is a prefix of what the peer sent, and no encrypt nonce is sealed twice. With no attacks, every message in both directions is delivered, so the two nonce conventions (client increments before sealing, peer after) agree. |
| `sc_panic` | violation | `HandshakeFailsCleanly` | A signed ServerInit whose nonce is not 12 bytes panics at `crypto.rs:190`. |
| `nonce_increment` | pass | `TypeOK`, `IncrementIsSuccessor` | The loop of `increment_nonce` is the big-endian successor modulo `ByteRange^NonceLen`, checked over every nonce of 4 bytes in base 4. |
| `frame_codec` | pass | `TypeOK`, `ReadsWhatWasWritten` | Frames up to the maximum, the boundary included, come back exactly and in order. |
| `ws_stream` | pass | `TypeOK`, `StreamPreservesBytes`, `ReaderNotStranded`, `StreamRefined` | Bytes keep arrival order across partial reads. A parked reader is always woken by data, an error or a close. The adapter behaves as `ByteStream` (so end of stream comes only after every byte was read, and nothing arrives after it) under the mapping `arrived` = `delivered`, `taken` = `consumed`, `ended` = how `poll_read` last ended. |
| `ws_connecthang` | violation | `ConnectSettlesOnFailure` | A socket that fails before opening leaves `connect` pending forever. |
| `ws_writerhang` | violation | `WriterResumes` | A writer parked by backpressure is never woken (spec §4.5). |
| `tunnel_guard` | pass | `TypeOK`, `RegistryRefined` | With concurrent create, send, receive and close calls, the tunnel map and the handed-out ids behave as `TunnelRegistry` (checked as a temporal property through `INSTANCE ... WITH`). |
| `tunnel_contention` | violation | `NoGuardContention` | A second operation on a tunnel whose guard is held across an await (spec §4.6, §5). |
| `tunnel_leak` | violation | `TransportsAccountedFor` | No path closes a tunnel's WebSocket. A failed handshake drops an open socket, and a tunnel that was removed, or that failed and was kept in the map, keeps its socket open (spec §2, §4.6, §7). |
| `proxy_decode` | violation | `ResponseReachesHandler` | A relay `ws_message` response decodes as a `ProxyRequest`, because `ProxyPayload` is `#[serde(untagged)]` with `Request` first. `receiveWebSocketMessage` therefore rejects every relayed message. |
| `relay_lease` | pass | `TypeOK` | With RPCs interleaved and answered in any order, every call's state stays well formed and the sockets opened stay within one per RPC plus the connect socket. |

### Bounds, and why they are enough

- **SecureChannel.**
  - `NonceSpace = 3` with `MaxSend = 2` lets the connection start at every
    point of the nonce space, including the points where the counter crosses
    its top. It still stays below the wrap.
  - Two messages make order observable, and two attacks allow a drop plus a
    replay, or a swap.
  - The wrap findings need `MaxSend` above `NonceSpace`; see the hazards in
    `PROJECT.json`.
- **TunnelProxy.** Two calls and two tunnel ids are the least that show two
  calls on one tunnel and a fresh id per tunnel. Four invocations allow an
  open, followed by two operations on the opened tunnel and a close.
- **WsStream.** Two messages of up to two bytes each, with a one-byte read
  buffer, force partial reads. A close by `poll_close`, an error or the peer
  can each come before, between or after the messages, so the latch is
  set both with bytes still buffered and with an empty buffer.
- **FrameCodec.** Base 2 with two length digits and a maximum of 2 puts a
  frame at the boundary. With `MaxData = 4`, frames above the maximum are in
  reach and `ReadsWhatWasWritten` fails: `write_length_prefixed` has no size
  check (spec §6). This is listed as a hazard.
- **ProxyCodec.** Every response variant is tried against every handler. The
  run keeps encoded packets within the buffer (`MaxSize = ReadBuf = 2`), so
  its counterexample is the decoding one. With `MaxSize = 3`, TLC reports the
  truncation instead: an envelope longer than the buffer never decodes.
- **RelayClient.** Two calls and two names allow two registrations in flight
  at once.

### Fairness

The fairness conditions are weak fairness on the steps the executor or the
browser always takes once they are enabled:

- polling a task that is ready (`ConnectResumes`, `PollRead`, `PollWrite`,
  and the reads of `SecureChannel`);
- completing a close the browser has started;
- draining the send buffer.

Nothing is fair for the attacker, for data arriving, or for callers.

## Proofs

`SecureChannelProofs` proves `THEOREM TypeCorrect == Spec => []TypeOK` for
every value of the constants, from the assumptions declared in
`SecureChannel`:

- `NonceSpace` is a positive natural;
- `MaxSend` and `MaxAttacks` are naturals;
- `Msgs` is nonempty;
- `ServerInits` are ServerInit frames.

`TypeOK` is inductive as it stands. The proof has one step per action, and
under each step one sub-step per variable the action changes. It rests on
four lemmas:

- `IncType`: `Inc` stays in the nonce space;
- `RemoveAtType`: the attacker's drop keeps a sequence of frames;
- `SwapType`: the attacker's swap keeps a sequence of frames;
- `ForgedCtType`.

Stating the streams' invariant as membership in `Seq(Frames)` means the
attacker steps need only these type lemmas.

It also proves `THEOREM NonceNeverReused`, under the hypothesis
`MaxSend < NonceSpace`: `Spec => []EncryptNonceNeverReused`. The
strengthening `NonceInv` says three things:

- the i-th sealed nonce is `client_nonce + i`, reduced once;
- once the connection is established, `encrypt_nonce` is the last nonce
  sealed;
- before that, nothing is sealed.

Writing the reduction as `Wrap(x) == IF x < N THEN x ELSE x - N` keeps the
arithmetic linear. Two lemmas carry it: `IncWrap` (`Inc` steps the counter by
one position) and `WrapDistinct` (distinct offsets below `N` give distinct
values). The hypothesis is exactly where the wrap hazard starts. The `sc_integrity`
run satisfies it (2 < 3).

`TunnelProxyProofs` proves `TunnelTypeCorrect` for any sets of calls and
tunnel ids, and (below) the refinement of `TunnelRegistry`. The assumptions
are that `NoCall` is not a call and `NoTunnel` is not an id. Both rest on the
inductive invariant `IInv`. Its core is two facts about the code: a tunnel's
guard is held only by a call inside the write or read on that tunnel
(`GuardReleasedAfterIO`), and every id handed to JavaScript and not closed is
in the map (`HandedOutTunnelsRegistered`). Neither is inductive alone, so
`IInv` adds:

- which entry points can stand at which pc (only creators await
  `create_tunnel`; `wsSend` and `wsClose` never reach the read);
- that a call which created its tunnel, and has not returned, holds an id
  that is in the map and was never returned to JavaScript. So no other call
  can look the tunnel up and remove it;
- that two such calls hold different ids (`generate_tunnel_id` draws fresh
  ones);
- that a call working on a looked-up tunnel got the id from JavaScript.

With `IInv`, a removal by a creator's error or response path can never hit a
handed-out id. `closeWebSocket` withdraws the id it removes. The lock is taken
only when free, and every return path of both I/O operations drops it. TLC
checked `IInv` as an invariant with three calls and three ids before it was
proved.

`SecureChannelProofs` also proves, under the same hypothesis
`MaxSend < NonceSpace`, `THEOREM ReadsServerStream`
(`Spec => []ClientReceivesServerStream`). The property is
not inductive: an attacker frame, an injected replay or a stale ServerInit
could a priori open under `decrypt_nonce`. The strengthening `StreamInv`
says:

- the server's encrypt counter is `SrvPos(Len(serverSent))`, where
  `SrvPos(j)` is the server's initial nonce plus `j`, reduced once;
- every server ciphertext the attacker has seen is
  `Seal("s2c", SrvPos(i-1), serverSent[i])` for some position `i`;
- the stream `s2c` holds only frames the attacker can form from those
  ciphertexts (`Forgeable`) or the server's ServerInit;
- once the client is established, `decrypt_nonce` is
  `SrvPos(Len(clientReceived))`, and before that the client has read nothing;
- `clientReceived` is a prefix of `serverSent`.

A frame that `read` accepts therefore opens under the next position, and
`WrapDistinct` (positions below `NonceSpace` are distinct) makes it the
ciphertext of exactly the next message written (lemma `AcceptInv`). TLC
checked `StreamInv` as an invariant of the `sc_integrity` instance before it
was proved.

`RelayClientProofs` also proves `THEOREM RelayTypeCorrect`
(`Spec => []TypeOK`) for any finite set of calls (assumption
`CallsAssumption`). `TypeOK` bounds the count of sockets opened (none is
ever closed) by `MaxCalls + 1`, and that is not inductive: a call that
connects opens one more. The strengthening `SocketInv` says that the sockets
opened plus the calls still connecting are at most the RPCs invoked plus one
for the client itself, and `invoked` is capped by `MaxCalls`. The proof counts `Connecting` with the finite-set lemmas
(`FS_AddElement`, `FS_RemoveElement`).

`TunnelProxyProofs` also proves `THEOREM ImplementsRegistry`
(`Spec => Registry!Spec`). `TunnelRegistry` is the abstract specification:
a set of registered ids and a set of ids issued to JavaScript. The mapping
sends `tunnels` to `registry` and `handedOut` to `issued`. Each step of
`TunnelProxy` maps as follows:

- `CreateTunnel` maps to `Register`;
- a successful `openWebSocket` or `connectTcp` maps to `Issue`;
- a creator's `remove_tunnel` maps to `Discard`. That is `proxyHttp` after
  its response, or an open answered by the wrong variant. This needs `IInv`:
  the id it removes was never handed out (lemma `OwnedFresh`);
- `closeWebSocket` maps to `Withdraw`;
- every other step is a stutter.

`InitRefines` and `StepRefines` carry the two halves. TLC checks the same
refinement as the temporal property `RegistryRefined` in `tunnel_guard`.

`WsStreamProofs` proves `THEOREM BytesPreserved`
(`Spec => []StreamPreservesBytes`) and `THEOREM StreamTypeCorrect`, for every
byte alphabet, chunk size and read buffer length. The strengthening is the
property together with the types. `delivered`, `consumed` and `rx` must be
byte sequences for the sequence lemmas to apply. Two steps need more than
that:

- `OnMessage` appends the same chunk to both sides, which needs
  associativity of `\o`;
- a partial `PollRead` moves the first `n` bytes of `rx` to `consumed`. The
  lemma `SplitJoin` says that the two halves of a split join back to the
  sequence.

`TypeOK` is proved in two halves: the Boolean flags (by Zenon) and the rest
(by SMT). The SMT backend fails on obligations that mix both.

`WsStreamProofs` also proves `THEOREM ImplementsByteStream`
(`Spec => StreamRefined`). It rests on
`EndInv`, which adds four facts about the latch to the invariant above:

- an error implies the latch (`onerror` sets both);
- with the latch set, the socket is closing or closed. `onerror` and
  `onclose` set it that way, `poll_close` calls `ws.close()` before setting
  the latch, and `onopen` fires only on a socket still connecting;
- the reader is done exactly when `poll_read` last returned `Ok(0)` or an
  error;
- either of those implies the latch.

With `EndInv`, a state after `Ok(0)` has a socket that is not open, so
`OnMessage` is disabled. For the refinement, `OnMessage` maps to `Arrive`, the
error branch of `poll_read` to `Fail`, its `Ok(0)` branch to `Finish`, and a
read that copies `n` bytes to `Take` of those `n`. The `Finish` step uses
`StreamPreservesBytes`: an empty buffer means every delivered byte was read.
The `Take` step uses the lemma `TakeFront`: the first `Len(s) + n` elements of
`s \o t` are `s` followed by the first `n` of `t`. Every other step, a
`poll_read` that parks included, is a stutter. TLC checked `EndInv` as an
invariant before it was proved (three messages, a two-byte read buffer).

Only TLC checks the following:

- **Liveness** (`ServerStreamDelivered`, `ClientStreamDelivered`,
  `ReaderNotStranded`, and the hang findings). TLAPS does not handle fairness
  or `ENABLED`.
- **`NonceIncrement`.** It uses RECURSIVE operators, which would cost a module
  that holds theorems its SMT backend, and what a recursive definition
  computes for every input needs induction over data.
- **`FrameCodec`'s `TypeOK` and `ReadsWhatWasWritten`.** The length prefix
  is a big-endian number of `W` bytes. That it stays in range, and that
  decoding undoes encoding, both need induction over `W` (on `ByteRange^k`
  and on the digit lists). The provers cannot instantiate the library's
  induction theorems.
- **`TransportsAccountedFor` and `ResponseReachesHandler`.** The code
  violates them, so there is nothing to prove.

## Not modelled

- **Credential, Ed25519, X25519, HKDF.** These are pure cryptography. The
  handshake keeps only "signature verifies" and "key is 32 bytes".
- **Most of `protocol_codec.rs`.** `ProxyCodec` models the response path:
  encode, untagged decode, the read buffer and the handlers' match. The
  request path's validation of URLs and addresses is not modelled.
- **`adapters.rs`.** It converts between browser objects and codec values, and
  its `WebSocketAdapter` wraps a browser socket. It shares no state with the
  tunnels. Its two hazards are listed with notes: `onMessage` called before
  `connect` never installs its handler, and `connect` hangs when the socket
  fails before it opens.
- **`lib.rs`, `utils.rs`, `build.rs`.** Glue code.
- **`TunnelManager::close_all` and `active_tunnels`.** The first is dead code;
  the second is a read.
- **Plaintext bytes.** `ProxyCodec` keeps only a packet's length. With
  `MaxSize > ReadBuf`, TLC shows that a truncated response never reaches its
  handler. The pass runs keep packets within the buffer.

## Plan for later sittings

1. Add an abstract "one request at a time" tunnel specification. With the
   code as it is, refining it fails at the contention.
2. Model the request path of `protocol_codec.rs`, and `WebSocketAdapter`.
