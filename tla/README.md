# TLA+ models of rust-libp2p: Kademlia handler, CBOR codec, WebRTC Noise upgrade, swarm streams

This directory holds TLA+ modules and TLC configurations for the code under
`src/`. The core is the per-connection Kademlia handler,
`src/protocols/kad/src/handler.rs`. For one connection it multiplexes
outbound request/response exchanges and inbound server exchanges over
short-lived substreams. Three smaller pieces are modelled beside it:
- the request-response CBOR codec (`cbor.rs`);
- the WebRTC Noise upgrade (`noise.rs`);
- the keep-alive counter of swarm streams (`stream.rs`).

## 1. Inventory

### Components of `handler.rs`

| Component | State (code) | Operations | Model |
|---|---|---|---|
| Handler | `mode`, `pending_messages` (FIFO of `(msg, Option<QueryId>)`), `num_requested_outbound_streams`, `keep_alive`, `next_connec_unique_id`, `protocol_status`, `remote_supported_protocols` | `on_behaviour_event` (requests, answers, `Reset`, `ReconfigureMode`), `on_connection_event` (`FullyNegotiatedOutbound/Inbound`, `DialUpgradeError`, `RemoteProtocolsChange`), `listen_protocol`, `poll` | `KadHandler` |
| OutboundExchange | `OutboundSubstreamState` = PendingSend / PendingFlush / WaitingAnswer / ReportError / Closing / Done | `poll_next`, `process_kad_response` | `KadOutbound` |
| InboundExchange | `InboundSubstreamState` = WaitingMessage{first} / WaitingBehaviour / PendingSend / PendingFlush / Closing / Cancelled | `poll_next`, `try_answer_with`, `close` | `KadInbound` |
| SubstreamPool | two `SelectAll`s, bound `MAX_NUM_SUBSTREAMS` | push, poll-any, removal on `None`, eviction | `KadOutbound`, `KadInbound`, `KadHandler` |
| ProtocolStatus | `Option<ProtocolStatus{supported, reported}>` | `compute_new_protocol_status`, confirmation on negotiation, report in `poll` | `KadProtocolStatus` |
| KeepAlive | `KeepAlive::Yes / Until(t)` | set in `Handler::new`, last step of `poll` | `KadHandler` (with a bounded clock) |

### The other components

| Component | Source | State and operations | Model |
|---|---|---|---|
| SwarmStream | `src/swarm/src/stream.rs` | A substream plus a `StreamCounter`: a strong (`Arc`) or weak reference to a counter the connection shares. `Stream::new`, `no_keep_alive` (downgrades the reference once), drop. Reads and writes are delegated unchanged. | `SwarmStream` |
| CborCodec | `src/protocols/request-response/src/cbor.rs` | Request and response size limits. `read_*` is `take(max).read_to_end` followed by `from_slice` and `decode_into_io_error`. `write_*` is `to_vec` (with `encode_into_io_error`) followed by `write_all`. | `CborCodec` |
| WebRtcNoise | `src/transports/webrtc/src/tokio/upgrade/noise.rs` | `inbound()` runs the Noise XX initiator (roles reversed) and `outbound()` the responder, both with `noise_prologue(client_fp, server_fp)`. Each then closes the channel and returns the remote `PeerId`. | `WebRtcNoise` |

### How the parts interact

The handler serves three actors.

- **The behaviour** sends commands (`HandlerIn`) and receives events (`HandlerEvent`).
- **The connection** (the swarm) tells the handler that substreams it requested, or that the remote opened, are negotiated or have failed. It also reports changes to the remote's protocol set.
- **`poll`** reports the protocol status first. It then polls the outbound pool and then the inbound pool, returning the first event. If nothing is ready, it requests an outbound substream when the bound allows one. Otherwise it updates the keep-alive.

Requests go through `pending_messages`. For each queued message, `poll` requests one substream, up to the bound. Each negotiated substream, and each negotiation error, takes the front message. An inbound exchange that reads a request stamps it with its `UniqueConnecId` as the `RequestId` and waits for the behaviour. `answer_pending_request` offers the answer to every inbound exchange, and the one waiting under that id takes it.

The other three components meet the handler only through the swarm:
- A swarm `Stream` keeps its connection alive until it calls `no_keep_alive` or is dropped.
- The CBOR codec is one of the request-response codecs that run over such streams.
- The WebRTC Noise upgrade authenticates a WebRTC connection before any stream is opened on it.

The modules do not compose them, because the code does not connect them beyond the swarm, which is not in `src/`.

## 2. Modules

| Module | Models | Definitions ↔ code |
|---|---|---|
| `KadProtocolStatus` | `ProtocolStatus` | `compute_new_protocol_status` is the function of the same name. `ReportProtocolStatus` is poll step 1. `RemoteProtocolsChange` is the `RemoteProtocolsChange` arm, including the `dirty` test. `ConfirmedOnNegotiation` is the `is_none()` block of both `on_fully_negotiated_*` handlers. |
| `KadOutbound` | `OutboundSubstreamState`, as a function from the message's tag (a `QueryId`, or an `AddProviders` model value for `None`) to a state | One action per state arm of `poll_next`, with a disjunct per outcome (success, error, end of stream). `Pending` is a stutter. `EmitQueryEvent` is `query_id.map(...)`, recording the event's kind. `WaitingAnswer`'s success disjunct takes any response in `RemoteAnswers[query_kind[t]]` and emits `process_kad_response` of it. |
| `KadInbound` | `InboundSubstreamState`, as a function from `UniqueConnecId` to a record | One action per state arm of `poll_next`. `AnswerPendingRequest` is `try_answer_with` applied over the pool. `ResetRequest` is `close()` of an exchange in `WaitingBehaviour`. `AdmitInbound` is the limit and eviction part of `on_fully_negotiated_inbound`. |
| `KadHandler` | `Handler`; it EXTENDS the three modules above | One action per behaviour command, per connection event and per poll step. The poll steps are guarded in poll's order. `NewKeepAlive` is poll's last step (handler.rs:773–785), and `Tick` advances the clock. |
| `KadQueryContract` | What the handler promises about outbound queries: each `QueryId` requested gets exactly one terminal event, eventually | `KadHandler` maps `issued ∩ QueryIds` and `query_events` onto it with `INSTANCE ... WITH`. `QueryContractSpec` checks the refinement. |
| `KadRequestContract` | What the handler promises about inbound requests: each is delivered once and then answered or reset; an answer being sent is concluded; a request the behaviour answers or resets is concluded | `RequestStatus(n)` in `KadHandler` maps each request to none / pending / answering / done from the exchange serving it. `RequestContractSpec` checks the refinement. |
| `CborCodec` | One request-response exchange over one stream, with `Req = Resp = String` | `to_vec` and `from_slice` work byte for byte: the CBOR text header is `0x60+n` below 24 and `0x78 n` otherwise. `decode_into_io_error` is the function. `ReadSome`/`ReadEnd` are `take(max).read_to_end` in chunks, then the decode. `WriteSome`/`WriteDone` are `write_all` in chunks under a flow-control window `Window`. `EncodeFails` is the `encode_into_io_error` path. |
| `WebRtcNoise` | `inbound()` and `outbound()` running against each other, or against an attacker | `noise_prologue` is the byte concatenation PREFIX ∘ multihash(client) ∘ multihash(server). `InboundPrologue` is inbound's call. `outbound_prologue` is outbound's, taking `(server_fingerprint, client_fingerprint)` and calling `noise_prologue(client, server)`. `OutboundPrologue` applies it to the fingerprints the dialer's caller passes (the listener's, then its own); that caller is not in this repository. There is one action per XX message each side reads or writes, plus `Close` (`channel.close()`) and `ReadFails`. |
| `SwarmStream` | The `StreamCounter` of each stream of one connection, and the strong count | `New` is `Stream::new`, `no_keep_alive` the method, `Drop` the drop of the counter. `CloseIdle` is the connection closing when the strong count is one. |
| `MC_KadHandler` | Model values and constant sets for the handler configs | |

### Abstractions

- **Kademlia message payloads.**
  - An outbound message is kept as its tag, and a query also as its request kind (`FindNode`, `GetProviders`, `GetValue`, `PutValue`).
  - A response is kept as its `KadResponseMsg` variant (`Pong` or one of the four). `RemoteAnswers` gives, per request kind, the variants the remote may send: the matching one (`MC_HonestRemote`), or any variant the codec decodes (`MC_AnyAnswer`). `process_kad_response` is the map from variant to `HandlerEvent`.
  - An inbound message is one of four kinds: a request needing an answer, AddProvider, Ping, or end-of-stream/error.
  - Keys, peers and records are left out.
- **History variables.** These exist only to state properties; the code has no equivalent.
  - `query_events` records the events emitted for each `QueryId`, by kind (`FindNodeRes`, `GetProvidersRes`, `GetRecordRes`, `PutRecordRes` or `QueryError`), and `issued` the tags sent.
  - `query_kind` is the `KadRequestMsg` variant each `QueryId` was sent as. The code keeps it only inside the queued message; the exchange keeps only the `QueryId`.
  - `behaviour_inbox` holds the requests the behaviour has received and not yet answered or reset.
  - `remote_messages` numbers the requests, and `requests_delivered` records which of them reached the behaviour.
  - An inbound exchange's `req` and `resp` record the request it serves and the request its answer was given for.
  - `last_reported` is what the last status event said.
  - `idle_since` is the time the pools last became empty.
- **`SelectAll` polling order.** The order is unspecified, so any live exchange may take the next step.
  - An eviction chooses any evictable exchange.
  - `SelectAll` is a `FuturesUnordered`, which only polls woken streams. Each inbound record carries `stranded`, meaning no waker will fire for it, and `PollInbound` is not enabled for a stranded exchange. Two places strand an exchange:
    - `close()` on `Reset` drops the parked waker without waking it;
    - an evicted exchange's waker may or may not have been woken, so eviction chooses.
- **The swarm's negotiation.** It is modelled by `negotiating_inbound` and `num_requested_outbound_streams`. `listen_protocol` is read when the remote opens the substream.
- **Time.** `now` is a bounded clock (`MaxTime`) and `IdleTimeout` the handler's idle timeout.
  - `Until(t)` is set by `Handler::new` and by poll's last step.
  - The connection's idle close is not modelled. Only the deadline the handler hands out is checked.
- **CBOR.** A `String` payload is `n` letters `a`, so a message is its length `n`. The stream is two counters per direction: bytes written and bytes read. cbor4ii is taken to be a correct CBOR codec. An honest stream never carries trailing bytes after an encoding, so whether `from_slice` accepts them does not matter here.
- **Noise.** The XX cryptography (libp2p-noise) is abstracted to acceptance:
  - A message with keys is accepted only by the party whose prologue and ephemeral keys were mixed into it.
  - A static identity is sent only by its owner.
  - The attacker, when `mitm` holds, terminates both DTLS connections. It sees every message, and can forward any of them or inject messages of its own under its own identity, up to `MaxInjected`.
  - `InboundReadResponse` and `OutboundReadFinal` are the checks libp2p-noise makes inside `upgrade_outbound`/`upgrade_inbound`; noise.rs contributes only the prologue and the call.
  - `Close` may return Ok on a channel that has failed. This over-approximates `channel.close()`, which may or may not notice the failure.
- **What the codec's caller does.** `ReadEnd` folds in the request-response handler dropping the stream after a decode error, and `WriteDone` the caller closing its write side; neither is in cbor.rs.

## 3. Runs

The handler runs use `MC_KadHandler`. The others run their module directly.

| Run | Config | Expect | Checks |
|---|---|---|---|
| `outbound_queries` | `MC_Outbound.cfg` | pass | `TypeOK`, `OutboundBound`, `RequestedHasMessage`, `QueryContractSpec` |
| `inbound_contract` | `MC_InboundContract.cfg` | pass | `TypeOK`, `InboxConsistent`, `AnswerMatchesRequest`, `RequestContractSpec` (the handler refines `KadRequestContract`) |
| `cbor_size_limit` | `MC_CborCodec.cfg` | pass | `TypeOK`, `SizeLimitExact` |
| `noise_upgrade` | `MC_Noise.cfg` | pass | `ChannelBinding`, `HonestHandshakeSucceeds` |
| `swarm_stream` | `MC_SwarmStream.cfg` | pass | `TypeOK`: the strong count never falls below the connection's own reference |
| `status_report` | `MC_StatusReport.cfg` | violation | `StatusReportedTruthfully` |
| `inbound_limit` | `MC_InboundLimit.cfg` | violation | `InboundBound` |
| `duplicate_answer` | `MC_DuplicateAnswer.cfg` | violation | `AnswerMatchesRequest` with a behaviour that may answer twice |
| `keepalive_fresh` | `MC_KeepAliveFresh.cfg` | violation | `KeepAliveDeadlineFresh` |
| `reset_stranded` | `MC_ResetStranded.cfg` | violation | `ResetExchangeEventuallyRemoved` |
| `client_mode` | `MC_ClientMode.cfg` | violation | `ClientAdmitsNoInbound` |
| `response_kind` | `MC_ResponseKind.cfg` | violation | `ResultMatchesRequest` with a remote that may send any response |

**Bounds and why they are enough.**
- **`outbound_queries`** (92,246 states).
  - Two FindNode `QueryId`s and one AddProvider go through `MAX_NUM_SUBSTREAMS = 2`, so the queue is longer than the bound and the bound binds.
  - The remote answers with the response of the request's kind. The properties of this run are about counts and slots, not about the kinds, so one kind is enough.
  - A negotiation error can hit either kind of message.
  - The clock ticks once past `IdleTimeout = 1`, so idle periods, deadlines that have passed, and polls after a tick all occur.
- **`inbound_contract`** (51,922 states). Three inbound substreams go through a limit of two, with two remote messages. This reaches:
  - reuse of a substream after an answer;
  - eviction of a reused substream, and cancellation;
  - the drop of a new substream when nothing is evictable;
  - both the answer and the reset paths;
  - Server→Client switches during negotiation.
  Each of its invariants' mutants is found at these bounds. A larger instance (four substreams, four messages, 4.2 million states) gave the same results and ran for two minutes without the temporal properties.
- **`cbor_size_limit`** (15,254 states).
  - Requests of 22, 23 and 24 letters straddle the one-byte header (their encodings are 23, 24 and 26 bytes) against a maximum of 24: 23 letters is exactly at the maximum. No String encodes to 25 bytes, so the request side cannot be one byte over.
  - Responses of 1, 24 and 25 letters (2, 26 and 27 bytes) go against a maximum of 26: 24 letters is exactly at it and 25 letters one byte over. A `take` one byte too long or too short is caught here.
  - A window of 8 makes both `write_all` and `read_to_end` take several chunks, in every split.
- **`noise_upgrade`**. The attacker may forward or inject two messages, which is the number it needs to relay the dialer's half of the handshake to the listener.
- **`swarm_stream`** (337 states). Four streams, each opened, released (any number of times) and dropped in every order.
- **Bound value.** The Kademlia properties do not depend on the value 32. The constant is kept as `MAX_NUM_SUBSTREAMS` so the cfg can set it small.

**Fairness.**
- **Kademlia poll steps: strong fairness.** The swarm polls the handler again after every `Ready` and whenever a waker fires. So a step that is enabled again and again is eventually taken, although a status report or a connection event can pre-empt it each time. A stranded exchange is never enabled, because no waker fires for it.
- **Kademlia negotiation: weak fairness.** The swarm completes every substream it requested. At worst its upgrade timeout yields `DialUpgradeError`.
- **Assumed, not guaranteed by the code** (`RemoteResponds`, `BehaviourResponds`):
  - The remote answers or closes every outbound substream. The handler has no timeout on `WaitingAnswer` (`// TODO: add timeout`, handler.rs:118). Without this assumption the query contract fails at once, to a silent remote.
  - The behaviour eventually answers or resets each request it holds.
- **Noise: weak fairness** on each side's steps, because both futures are polled to completion. There is none on the attacker or on channel failure.
- **`CborCodec` and `SwarmStream`: none.** Their runs check safety only.

`CHECK_DEADLOCK FALSE` is set where the system really stops:
- a handler whose bounded inputs are used up is an idle connection;
- an exchange or a handshake ends;
- streams are all dropped.

**Mutants.** Each property of a passing run is broken by a plausible bug in a mapped definition (see `mutants` in `PROJECT.json`). Among them:
- an off-by-one in `poll`'s substream request;
- an answer matched without comparing the id;
- an answer that does not wake the exchange;
- `read_request` bounded by the response maximum;
- a prologue without the client fingerprint;
- `outbound()` passing its fingerprints in its own parameter order;
- `no_keep_alive` releasing its `Arc` on every call.

## 4. Findings

1. **Status events can be lost** (`status_report`, handler.rs:849). `compute_new_protocol_status` returns `reported: true` whenever the support bit did not change, even when the current status was never reported. When the remote adds `kad` and then adds another protocol before a poll, the unreported confirmation is marked reported and no `ProtocolConfirmed` is ever emitted.
2. **The inbound limit can be exceeded** (`inbound_limit`, handler.rs:559).
   - Eviction leaves the `Cancelled` victim in the pool and pushes the new exchange, so `len()` becomes `MAX + 1`.
   - The next substream then fails the `==` test and is admitted without eviction.
3. **Duplicate answers are accepted** (`duplicate_answer`, handler.rs:167). A `RequestId` is the reused substream's id. A second answer is taken by the next request on that substream, and is written as that request's response.
4. **The idle deadline can be stale** (`keepalive_fresh`, handler.rs:779).
   - Poll's last step keeps any `Until`. An exchange that starts and ends between two runs of that step never sets `Yes`.
   - The deadline from `Handler::new` then survives, earlier than idle start + timeout.
5. **A reset request strands its exchange** (`reset_stranded`, handler.rs:197).
   - `close()` drops the waker without waking it, and `FuturesUnordered` never polls the `Closing` exchange again.
   - The substream is never closed, it holds an inbound slot, and `keep_alive` stays `Yes`.
6. **Client mode still admits inbound requests** (`client_mode`, handler.rs:542). A substream negotiated in Server mode is admitted after `ReconfigureMode(Client)`, and its request reaches the behaviour. The comment at handler.rs:542 and the spec say that cannot happen.
7. **A response of another kind is reported as the query's result** (`response_kind`, handler.rs:1168). `process_kad_response` turns any response into its own event under the query's `QueryId`. Only `Pong` is rejected (`UnexpectedMessage`). A remote that answers a FindNode query with a GetProviders response makes the handler emit `GetProvidersRes` for it. The code's TODO says the response must be checked against the request, and spec §9 says a correct implementation would match them.

## 5. Not modelled and why

- **Response payloads** (closer peers, providers, records). Only the variant is modelled; no property looks at the payloads.
- **Composing `SwarmStream` with the Kademlia exchanges.** Nothing under `src/` calls `no_keep_alive`, so the two would meet only in code outside this repository.
- **The connection's idle close and the swarm.** They are not in `src/`. The Kademlia model checks the deadline the handler hands out. `SwarmStream` models the idle close only as the environment of the counter.
- **The request-response handler around the codec.** It drops the stream after a decode error, and that releases a writer blocked on a full window. The model assumes the drop; see the `cbor.rs:157` hazard.
- **The Noise cryptography.** Keys, DH and AEAD are out of TLC's reach and are abstracted to acceptance. Key generation (`into_authentic(..).unwrap()`) is taken to succeed.
- **`stream.rs` reads and writes.** They forward to the inner stream and change no state.

## 6. Plan

Done:
- the four Kademlia handler modules, with the outbound and inbound runs and their violation runs;
- both contracts with their refinement checks;
- the keep-alive clock;
- `CborCodec`, `WebRtcNoise` and `SwarmStream`;
- request and response kinds through `process_kad_response`, with the `response_kind` run;
- the CBOR size limit exactly at and one byte over the maximum.

Next, in this order:
1. Check the missing `WaitingAnswer` timeout (handler.rs:118) directly, as the query contract without `RemoteResponds`. This run is left out for now so that the other questions each keep a run.
2. Larger handler instances, using symmetry over `QueryId`s where it is sound.
