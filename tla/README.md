# KM43 in TLA+

KM43 is the message protocol between an Origin89 controller and its clients. The
repository's `crates/km43` is a `no_std` library that both ends link: it pairs them,
opens sessions, seals and opens messages, frames them for UART and BLE, builds and
reads pages of the controller's tables, checks what is written to its configuration,
and draws its randomness. These modules model that crate: the parts whose behaviour
depends on an order of events, and the codecs they send through. TLC checks them on
small instances. For instances of any size, TLAPS proves the safety of the replay window,
the sealed channel, the DRBG, both links, the received topology, the inventory walk, log
paging, the event stream, enrolment, the pairing handshake, the opening of sessions, invites and
vouches, of both configuration sections the register of device ids and the stamp of the
network, and of the crosswalk that the order of its rows decides nothing.

Paths below are relative to `src/crates/km43/src/` unless they say otherwise.

## The system

A controller (Cortex-M0+, FRAM, no allocator) is joined by a UART to a comms
processor, which relays between it and the clients over WebSocket, BLE and MQTT.
The comms processor holds no key: it may lose, delay, reorder, repeat, reflect
and alter whatever it carries, and the crate has to stay right. The firmware, the
BLE stack, the UART and the clients' programs are not in the repository; where a
model needs them they are written from how the crate's code and
`docs/PROTOCOL.md` use them, and marked external in `PROJECT.json`.

| Part | State it keeps | Operations | Hard behaviour | What makes it right |
| --- | --- | --- | --- | --- |
| Replay window (`sealed.rs`, `Window`, `Opener`) | highest nonce, a 64-bit word of bits | `admits`, `accept` | arrival in any order, shifts past the word | it answers as the whole history would |
| Sealed channel (`sealed.rs`) | two counters, two windows | `seal` (request, controller), `open`, `refusal`, `counts` | a relay that does anything; failed writes; exhaustion | a nonce keys one frame; a frame opens once, as sealed; silence and counting do not hurt honest peers |
| DRBG (`drbg.rs`) | state in FRAM, generator in RAM, a draw in flight | `from_stored`, `draw_mixing` | cancellation and reset at each await; lost and torn writes | no value is drawn twice or left readable |
| BLE fragmentation (`ble.rs`) | sender's slot, message id, receiver's assembly and clock | `enqueue`, `fragment`, `accepted`, `receive`, `expire`, `reset` | lost and repeated values, retries, wrap of the id, a clock that steps back | messages arrive whole, in order, and no assembly stays for ever |
| UART framing (`frame.rs`, `cobs.rs`, `crc.rs`) | bytes of the run, overlong flag, silence | `write`, `push`, `tick`; `encode`, `decode` | joining mid-frame, noise, loss, stalls; full blocks and the implied zero | every clean frame is handed up; a refusal means a fault |
| Received topology (`received_topology.rs`) | revision, bus table, device table | `page` | pages repeated, out of order, across revisions; full tables | what is held is the latest rows, all judged by P-202 |
| Event stream (`event.rs`, `subscribe.rs`) | the client's mark | `answer`, `accepting_from`, `accept` | overwriting ring, second subscription, relay | each event once, no silent loss |
| Log paging (`readlog.rs`) | a cursor | `page_size`, `start_at`, `push` | the ring moves between pages | each record once or told gone; paging ends |
| Inventory (`inventory.rs`) | page under construction, digest | `push`, `absorb`, `encode`, `decode` | rows change under a walk, with or without a new revision | a matching digest means one state of the tables |
| Hot plane (`readings.rs`, `changes.rs`, `concerns.rs`, `counter.rs`) | pages and sweep under construction, last published total | `select`, `push*`, `judge`, `published`, `report` | a row left for the next page; an entry left for the next event | nothing skipped or repeated; every fall of a counter is marked; what changed is heard |
| Device configuration (`buses_devices.rs`, `config_messages.rs`) | section, next device id | `check`, `accept`, `DevAllocator` | two stores with a power failure between; adoption at run time; exhaustion | an id never names a second device; what is held is sound |
| Network configuration (`config.rs`, `config_messages.rs`, `net_origin.rs`) | the controller's record, the cache in flash, the copy in RAM | `compare and set`, `needs_push`, `settle` | boards swapped, flash that fails, sections repaired | a matching stamp means the same network; the cache follows |
| Hello (`hello.rs`, `handshake.rs`, `noise.rs`, `kdf.rs`, `kdf/stored.rs`) | handshake state, the enrolment a phone keeps | `start`, `admit`, `prove`, `reply`, `finish`, `restore` | messages crossed between connections; a slot re-keyed half-way; restarts | one session, the same at both ends, for the slot it names |
| Pairing (`pairing.rs`, `noise.rs`) | both ends' handshake, client slots | `start`, `read`, `finish`, `refuse`, `proceed`, `answer`, `choose` | lost answers, retries, interleaved pairings, interrupted slot writes, a leaked label | what a phone is told is true; one key, one slot; the owner's slot stands |
| Invitations (`invite.rs`) | a guest's commitment and reveal, pending rows | `new`, `receive`, `verify`, `keep` | a relay that puts other keys in place | the key approved is the one the digits were read for |
| Vouching (`vouch.rs`) | a verifier's issued nonces | `issue`, `answer`, `verify` | answers crossed between accounts, epochs, slots and controllers | an account is linked to what answered its own request |
| Admission, routing, envelope (`envelope.rs`, `routing.rs`, `admission.rs`, `signed.rs`, `empty.rs`, `error.rs`) | none | tables by opcode | one fact kept in seven files | the tables agree |
| CBOR (`cbor.rs`) | reader position, pending key, writer's open containers | head, skip, raw, finish | repeats found late, nesting, counts | only one well-formed item passes, and only one is written |
| Bodies (a codec in nearly every file) | none | `encode`, `decode` | companions, outcomes that forbid keys, unknown keys | what one end writes the other reads, and nothing else is taken for it |
| Crosswalk and registries (`generated.rs`; `crates/xtask`: `registry.rs`, `check.rs`, `bindings.rs`) | none | `resolve_crosswalk`, `crosswalk_findings`, `validate`; `dataset_name`, `members`, `unit_and_scale` | rows typed in any order, tables searched by bisection, rows that overlap | a reading has one word; every number and word is accounted for once |
| Limits (`limits.rs`) | none | sizes and compile-time assertions | sizes counted by hand in several files | no message is built that cannot be sent |
| The client's package (`packages/km43`, TypeScript) | none | decode, encode and check of the devices section; CBOR reader and writer | every rule written a second time, in another language | both languages take, refuse and write the same bodies |
| `crc.rs`, generated tables, `crates/xtask` | | | | see *Not modelled* |

Parts meet as follows. A body is written by its codec, sealed by the channel, wrapped
in an envelope, and framed for its link (UART: COBS and checksum; BLE: fragments). On
arrival the frame reader or the BLE receiver hands up an envelope, the channel opens
it, and the body reaches one of the stateful readers: the mark, the topology, a page.
The channel's key comes from the handshake, whose slot comes from a pairing or an
invite, and whose ephemeral keys and challenges the DRBG draws. Between parts there are
only calls; between the two ends there are only messages, and nothing is shared.

## Modules

### Channel and randomness

**`Window`** is the word of bits: `Admits` and `Accept` translate
`Window::admits` and `Window::accept`, the checked shift included. A window is a
record of the highest nonce, the set of set bits and the span. `Width` is the
word's 64 bits.

**`ReplayFilter`** is the abstract specification: a receiver that keeps the set of
all nonces ever accepted, up to `ReservedNonce`. **`Opener`** is one receiving direction, `Sealed::open`
over a `Window`: the reserved nonce, the window, the length, the buffer, the tag,
and only then the window moves. It implements `ReplayFilter` with the identity as
its mapping, since the two share the history `accepted` and the `verdict`.

**`SealedChannel`** composes both sealers and both openers with a comms processor.
A frame is its routing scalars, its nonce and the shape of its body. An altered
frame fails its tag, which is the one thing taken from the cryptography. The
firmware appears as the rule that a request is answered once when it opens (or
with the error `refusal` names), and the client as the rule that it keeps within
`MAX_INFLIGHT`. `wire` is a set, so order is free.

**`Drbg`** splits a draw at its awaits: `DrawMixing` moves the generator into the
future, `Write` lands, is lost or is torn and reports one or the other, `ReadBack`
compares. `Cancel` drops the future at either await. A generator state is its seed
and the extras folded in; HMAC is taken as injective and one-way, so a draw is
named by the state it came from.

### Links

**`BleLink`** is one direction of a connection. A byte is the number of its message
and its place, so a stitched message shows. `Fragment` and `Accepted` are the two
halves of a value's admission; `Receive` is the whole of `BleReceiver::receive`,
whose order of checks is in `Refuses`. `rx.age` is the clock less the last
fragment's time, which is all `expire` looks at.

**`Cobs`** has `Encode` and `Decode` as the loops of `encode` and `Decoder::run`: a
function from the bytes pushed, or the blocks read, to the encoder's or the decoder's
state then (`Pushed`, `Run`), so that they can be reasoned about turn by turn. `WellFormed` is the reference: it says which
bodies are legal without decoding one. **`UartFrame`** extends it, and takes the
checksum as the operator parameter `Crc`. The reader's `push` and `tick` are
functions from a reader to a reader and what it received. The line may start
half-way through a frame.

**`NetworkConfig`** is the network section and its cache. `Write` is a
client's compare-and-set on the controller's record; `needs_push` and `settle` decide
what is pushed and what flash then holds; the board in the socket may be swapped for its own older
self or for one out of another unit, a section may be found unreadable and be
repaired, and a flash write may fail.

### Tables and planes

**`ReceivedTopology`** applies a page row by row to a copy, judging P-202 after
each, and keeps the copy only if all passed.

**`LogRing`** is the controller's ring (external) and `LogExtent`.
**`EventStream`** and **`LogWalk`** extend it: the subscription with the client's
mark over a relay, and the catch-up by pages.

**`InventoryWalk`** is the cold plane. The controller answers each page from the
tables as they are then, pinning nothing; the client assembles the pages, absorbs
their rows into a digest and keeps the result as a cache only if the digests agree.
`Push` and the two caps, `Absorb`, `Forbidden` and the header's decoding are the
crate's; the handler and the client's walk are written from P-146 to P-152 and the
comments on `InventoryHeader`. `EditUnbumped` is the fault the digest exists for.
`stood` on a response is history.

**`HotPlane`** is what a controller says of its signals: pages of readings (samples
and series in one budget of bytes) and of concerns, `CounterRun` with its judgement
and what was published, and the coalesced event of each tick, whose sweep leaves an
entry that does not fit for the next one.

**`DeviceRegister`** is the abstract specification of device ids: an id names one kind
of device, and once removed it names none. **`DeviceConfig`** is the code: a write is
checked entry by entry, accepted, and stored as two values between which power may
go; sub-devices adopted at run time draw from the same allocator. It implements
`DeviceRegister` by `INSTANCE DeviceRegister WITH`: `live` is the section's list and
`retired` every id below the next one that the list does not have. The client's own check
of a body (`checkBusesAndDevices`, in TypeScript) is beside the controller's.

### Enrolment and sessions

**`Noise`** gives both handshake patterns, the derived keys and the tags as terms: a
hash is the sequence of what was mixed in, a key the chain it came from, and a tag or
ciphertext what it was computed from. Two terms are equal exactly when their inputs
are. The cipher's nonce is kept. Every `mix_key` sets it back to zero and a pattern
encrypts only a few times under one key, so the reserved nonce that the code refuses at
is out of reach of both handshakes.

**`Pair`** is the pairing handshake under its payloads, over a carrier that cuts,
replaces and crosses messages part by part. **`Enrolment`** is what its payloads say:
an attempt stands for its transcript. `Choose` is `Allocation::choose`, run at
message 1 without a key and again at message 3 with one. Each of the phone's methods
consumes its state, so a reply that does not check out ends the attempt. The
controller's slot writes are P-239's three steps, and power may go between any two;
approvals and removals change the table in between. `leaked` says that somebody between
phone and controller has read the label too: they can answer message 1 and tag refusals,
and they cannot prove the controller's static key.

**`Hello`** opens sessions: the prologue, a phone's `start` and `finish`, the
controller's `admit`, `prove` and `reply`, versions, and the stored enrolment a phone
restores after a restart. Connections and challenges come and go, and a slot may be
re-keyed between admission and proof. **`Invite`** has the guest's commitment, reveal,
comparison and kept enrolment; **`Vouch`** a verifier's request, a controller's answer
and the link. Each message, or part of one, may be held, repeated, replaced or handed
over elsewhere.

### Codecs

**`Bodies`** is what every body codec has in common. A body is a sequence of pairs of
key and value; a value is its class (an enum is its registry number, a string its
length, an integer zero, the greatest legal value or one past it). A codec is described
twice, apart: its *decoder* by the keys it knows, what each value may be and the error
for one it may not, what becomes of a key it does not know, and the rules after the
loop, in their order; its *encoder* by the sequences of puts it can make and the pair
count it declares. `Decode` and `WrittenBy` are defined once for all of them.

**`SessionBodies`** (who may open a session, and the session itself), **`PlaneBodies`**
(the hot and the cold plane) and **`LinkBodies`** (the comms link and configuration) are
the schemas, one operator per struct; `ClientBodies` are those of the devices section as
`packages/km43` has them. **`Registry`** has the enums of `generated.rs` that
they carry.

**`Cbor`** is the reader's pass over item heads, with nesting, the deferred search for
a repeated key and `skip`, and the writer's counts and raw copies; and a head's own
bytes. Arguments are byte strings, so that a whole `u64` fits. The client's reader is
there too: a plain descent that remembers the keys of every open map, where the
controller's remembers one and searches later; and its UTF-8. **`MessageKinds`** has the
tables by opcode, the envelope of both wires, each error type's answer and the addressing
of refusals.

**`Budgets`** weighs the bodies. Every size that `limits.rs` and the codecs count by
hand is computed again from the encoder's puts, key by key; the compile-time
assertions are an assumption that TLC evaluates; the page builders are run against
the caps.

**`Crosswalk`** is what is looked up by number and what is built to be: `resolve_crosswalk`
turns the rows of `protocol.toml` into the table that `dataset_name` walks, most specific
first; `crosswalk_findings`, `no_number_is_allocated_twice` and `validate` are the gate's
checks on it and on the registries; `members`, `names` and `unit_and_scale` bisect the
generated tables, which are there as they are generated. A row as typed is a record with
just the fields somebody typed.

### Composing modules

`*_proof` modules hold the proofs. `MC*` modules hold what only a run needs: payloads,
rows, widths, the checksum of the UART, symmetries. `MCLinks`, `MCStreams`, `MCConfig`
and `MCHandshakes` put related modules in one run: a variable picks the part, only that
part moves, and so the state space is their sum and no part constrains another.
`MCCodecs` starts from a body an encoder writes, or from nothing, and changes or grows
it. Operators under *Seeded fault* are deliberate mistakes that show each property can
fail; no action uses them.

## Runs

| Run | What it asks | Bounds, and why they are enough |
| --- | --- | --- |
| `opener` | Does the word of bits answer as the history would? | A 5-bit word, a span of 4 and 10 nonces: jumps of less than, exactly and more than the word, with room on both sides of the span. |
| `sealed_channel` | Nonces, replays, answers and counted failures over a relay that may do anything | Two requests in flight, a window of three, four nonces: both counters run to exhaustion. One replay, and one alteration or tight buffer. More of the same repeat steps from states already reached. |
| `sealed_honest` | Is it true that an honest client never meets the window? It is not: see *Findings*. | No replay, no alteration: the relay only delays. |
| `links` | Are messages ever stitched, cut or out of order; do assemblies end; does everything arrive that met no trouble? | BLE: up to three fragments, two ids so that they wrap, two faults, a disconnection, one step back of the clock. UART: three frames, two faults, an empty, an all-zero and a full payload, full blocks of two bytes. |
| `handshakes` | Do both ends of a pairing, a session, an invite and a vouch hold what the other agreed to? Beside them, can the generator draw a value twice, or have one read out later? | Two of everything that can be crossed (labels, Discovers, phones, connections, guests, accounts, controllers) and one change under the feet of each (a slot re-keyed, a factory reset). Symmetric in the phones: the properties are safety and no rule names one. The generator: three draws per seed, two kinds of extra, two reseeds, since a repeat needs two draws and a failure between. |
| `codecs` | Does what one end writes mean the same at the other, and only that? | Two changes to any body an encoder writes, which reaches every pair of faults; COBS frames of up to 7 bytes with full blocks of three; seven heads, which hold a map of three pairs or two with a map inside; six writer calls; every fill of every page builder; every opcode and every head byte; crosswalks of up to three rows (`MaxTyped`), out of seventeen right and wrong ones, so that any two rows can collide in front of a third. |
| `concern_encoder` | Does the encoder of a concern's change refuse one that moved nothing, as its documentation says? It does not: see *Findings*. | The bodies as encoders write them (`MaxChanges` is 0). |
| `topology` | Is what is held the latest rows, all judged? | Three pages of up to two rows, three devices for two slots, two revisions; symmetric in devices and addresses. |
| `streams` | Is anything said in pieces lost, repeated or changed by where the pieces part? | A ring of three that wraps, pages of two, two subscriptions, two relay faults; three signals whose rows meet the row caps and the byte caps at different places. |
| `inventory` | Is a completed walk one state of the tables, and does the client end with the last? | Two kinds of up to three rows, narrow and wide, so a page meets its row cap and its byte cap; one edit that moves the revision and one that does not; pages lost at will. |
| `enrol` | Is what a phone is told true; does the table keep its rules? | Two attempts, two approvals, and one reset, failed write or removal; three slots with one admin and one viewer; two labels, three keys, two generations. Two attempts are what a race at message 3 needs. |
| `config` | Does an id name one device for ever, and does the cache in the socket end up the controller's? | Three devices, one level of sub-devices, four ids, so they run out; two networks and versions, one repair, two swaps of the board, any flash failures. |

Deadlock is not checked where a bounded counter stops the model, which is every
run but `opener`.

### Properties

- *Window.* `WindowIsHistory`: bit `i` is set exactly when `highest - i` was
  accepted. `ImplementsFilter`: the refinement, which also says that no refused frame
  changes any later verdict.
- *Channel.* `NonceUsedOnce`; `OpenedOnceAsSealed`; `OneAnswerPerRequest`: a request
  has one response, and no more errors than arrivals under its `req_id` that were altered
  or did not fit, so a replay mints no second answer and not even an error under a fresh
  nonce; `CountedWasAltered`: delaying
  and replaying honest frames never counts towards shedding the client.
- *DRBG.* `NeverDrawnTwice`; `ProbeYieldsNoPastDraw`: what can be read in FRAM or
  RAM lies strictly after every draw handed out.
- *Links.* `DeliveredAsSent`: whole, in order, and twice only where the stack repeated a
  value. `AssemblyEnds`, `EnqueuedArrives`. `CleanFrameArrives`: a frame that follows a delimiter
  or a full silence and meets no fault is handed up, whatever came before it.
  `RefusalMeansFault`.
- *Handshakes.* `PairOpensAsWritten`: a message of a pairing opens only as it was
  written, for both ends' view of label and Discover. `SessionAgreed`: a session is the
  same at both ends, one Hello opens at most one, and what a phone restores is what it
  stored. `SoundHelloOpens`: what arrives as written is not refused. `InviteAgreed`: the
  key enrolled is the key whose digits two people compared. `LinkedAsVouched`: an account
  is linked only on the answer to its own request, at most once a nonce.
- *Codecs.* `EncodedDecodes`: whatever an encoder writes its decoder takes, and with
  keys a later version might add, and in any order. Three bodies are written and then always
  refused, each for its one reason: a concern's change to the state it was in, a bare error
  whose code needs a seal, a bus entry that sets nothing. `DecodedWasWritable`: what a decoder
  takes, its encoder could have written, apart from the fields named as liberal.
  `ItemsExact`: the reader takes exactly the well-formed items and the writer finishes
  only such, and the client's reader answers every input as the controller's does.
  `TablesAgree`: the tables by opcode say one thing, and so do the two languages of the
  devices section (`BindingsAgree`): the same bodies taken, the same values held, the same
  kind of refusal, and what a client has read it can write. It also says
  of the crosswalk (`CrosswalkDecides`) that the gate takes exactly the rows that each say
  one thing and do not reach the same readings, and that a reading then has the word of the
  one row that outranks every other it matches; and of the generated tables
  (`TablesSound`) that the gate would let them through, and every lookup finds its row. `BudgetsHold`: every hand-counted size is what the encoder
  comes to, and no page a builder makes is too long to send.
- *Topology.* `HeldIsLatest`, `EveryRowJudged`.
- *Streams.* `TakenOnceInOrder`, `NoSilentLoss`; `EveryRecordOnceOrTold`, `CatchUpEnds`;
  `PagesWhole`: a walk gives every row once and every fall of a counter is called a
  reset, whichever page it fell in; `HeardInTheEnd`: what changed is heard, though it did
  not fit the event.
- *Inventory.* `CompletedWhole`: a cache is the tables as they stood at one moment,
  whatever was edited between pages, and a controller that moves its revision is never
  called faulty. `CurrentInTheEnd`: once edits stop, the cache is the tables.
- *Pairing.* `ToldTrue`: a slot and generation a phone was told are its own key's and
  no other's, and a refusal it believed was sent. `OneKeyOneSlot`. `OwnerStands`: an
  owner's slot is freed only for its own key.
- *Configuration.* `ImplementsRegister`: the refinement. `SentBackAccepted`: a section
  read and sent back, buses and devices, passes the client's check and the controller's and changes nothing,
  and the client refuses exactly the bodies the controller would. `CurrentMeansSame`: a matching
  stamp means the same network, over swaps and repairs. `CacheConverges`.

### Fairness

- `BleLink.Fairness`: the adapter offers a refused value again, reads the stack's FIFO,
  runs its timer, and time passes. `docs/PROTOCOL.md` (BLE GATT) requires these of
  an adapter; the crate leaves them to it. `EnqueuedArrives` excuses the messages a
  fault, a late fragment or a disconnection touched. The UART has none:
  `CleanFrameArrives` is a step property.
- `LogWalk.Spec`: a client whose page was not complete asks again at the cursor,
  which is how `LogPage` describes paging. Writes have no fairness.
- `HotPlane.Spec`: the controller's tick comes round. Signals move as they like, and
  the bound on moves is what lets them stop.
- `InventoryWalk.WalkSpec`: a client without a current cache opens a session and asks;
  the controller answers and a page arrives again and again if asked for again and
  again (strong fairness, since the link may lose any one of them).
- `NetworkConfig.Spec`: `LinkUp` happens again and again (weak fairness). A comms
  processor sends it at boot and every two seconds until it is answered
  (`docs/protocol/LINK.md`, L-030, L-120), and a push that was lost or a write that failed
  waits for the next one (L-137). That there is a next one is assumed: nothing in the
  protocol bounds how long a linked board stays up. The comparison and a flash write that
  lands are strongly fair, since a message may be lost and a write fail.

The other specifications are safety only.

## Findings

*The window and an honest client.* `docs/PROTOCOL.md:519` says of the window's refusal
that it is a condition an honest client never meets. `sealed_honest` shows a client within
`MAX_INFLIGHT` and a relay that only delays. One request waits while later ones are
answered; the span counts nonces and not requests outstanding, so the delayed request is
below the window when it arrives, and it is dropped in silence.

Two requests must be outstanding for this (`MAX_INFLIGHT` of at least 2): the
second keeps being answered and replaced while the first is held.

*A change that changed nothing.* `crates/km43/src/concerns.rs:502` says of
`ConcernChanged::encode` that it refuses a change to the state the concern was already in.
It compares nothing and writes the body; only `decode` refuses it, with `WentNowhere`
(`concerns.rs:548`). `concern_encoder` shows the body written (`EncodedChangeMoved`), and
`EncodedDecodes` that its decoder always refuses it: a controller that sends one is told
nothing, and its client drops the event. The siblings `ValidityChanged::push` and
`PresenceChanged::push` refuse it on writing (`changes.rs:235`, `changes.rs:306`).

## Proofs

For every value of the constants that the modules' assumptions allow:

| Theorem | Statement |
| --- | --- |
| `Channel_proof!OpenerTypeCorrect` | `OpenerSpec => []OpenerTypeOK` |
| `Channel_proof!WindowCorrect` | `OpenerSpec => []WindowIsHistory` |
| `Channel_proof!OpenerImplementsFilter` | `OpenerSpec => ImplementsFilter` |
| `Channel_proof!TypeCorrect` | `Spec => []TypeOK` |
| `Channel_proof!NoncesNeverReused` | `Spec => []NonceUsedOnce` |
| `Channel_proof!OpenedOnce` | `Spec => []OpenedOnceAsSealed` |
| `Channel_proof!OneAnswerOnly` | `Spec => []OneAnswerPerRequest` |
| `Channel_proof!OnlyAlteredCounts` | `Spec => []CountedWasAltered` |
| `Channel_proof!DrawsTyped` | `DrbgSpec => []DrbgTypeOK` |
| `Channel_proof!DrawsDiffer` | `DrbgSpec => []NeverDrawnTwice` |
| `Channel_proof!PastStaysHidden` | `DrbgSpec => []ProbeYieldsNoPastDraw` |
| `Links_proof!RoundTrips` | `\A src \in Seq(Byte) : RoundTrip(src)` |
| `Links_proof!EncodingFits` | `\A src \in Seq(Byte) : WithinBound(src)` |
| `Links_proof!CleanFramesArrive` | `LinksSpec => CleanFrameArrives` |
| `Links_proof!RefusalsAreFaults` | `LinksSpec => []RefusalMeansFault` |
| `Links_proof!DeliversAsSent` | `LinksSpec => []DeliveredAsSent` |
| `Inventory_proof!TypeCorrect` | `Spec => []TypeOK` |
| `Inventory_proof!HeldIsTheWalk` | `Spec => []HeldIsLatest` |
| `Inventory_proof!JudgedRowByRow` | `Spec => []EveryRowJudged` |
| `Inventory_proof!CompletedWholeHolds` | `WalkSpec => CompletedWhole` |
| `Streams_proof!PagedOnceOrTold` | `StreamsSpec => []EveryRecordOnceOrTold` |
| `Streams_proof!EventsOnceInOrder` | `StreamsSpec => []TakenOnceInOrder` |
| `Streams_proof!MissedIsTold` | `StreamsSpec => []NoSilentLoss` |
| `Streams_proof!RowsKeepTheirMeaning` | `StreamsSpec => []PagesWhole` |
| `Enrolment_proof!TypeCorrect` | `Spec => []TypeOK` |
| `Enrolment_proof!NoKeyTwice` | `Spec => []OneKeyOneSlot` |
| `Enrolment_proof!PhonesToldTrue` | `Spec => []ToldTrue` |
| `Enrolment_proof!OwnersStand` | `Spec => OwnerStands` |
| `Config_proof!MatchingStampIsCurrent` | `ConfigSpec => []CurrentMeansSame` |
| `Config_proof!SectionImplementsRegister` | `ConfigSpec => ImplementsRegister` |
| `Config_proof!SectionComesBack` | `ConfigSpec => []SentBackAccepted` |
| `Handshakes_proof!PairingsOpenAsWritten` | `HandshakesSpec => []PairOpensAsWritten` |
| `Handshakes_proof!InvitesAreAgreed` | `HandshakesSpec => []InviteAgreed` |
| `Handshakes_proof!LinksAreVouched` | `HandshakesSpec => []LinkedAsVouched` |
| `Handshakes_proof!SessionsAreShared` | `HandshakesSpec => []SessionAgreed` |
| `Handshakes_proof!SoundHellosOpen` | `HandshakesSpec => []SoundHelloOpens` |
| `Crosswalk!OrderNeverDecides` | two tables of the same rows, each most specific first and with one word a place, give every reading the same word |

Each proof has the same outline: an inductive invariant `IInv` that implies the
properties, a lemma for the initial states, one for each action that is not short, one for
`Next`, and a temporal step. TLC checked
every `IInv` on its run's instance before it was proved, but for the parts that say of a
message that someone wrote it: those quantify over every message there could be, which TLC
does not enumerate. What each one adds to its property, and why the property alone is not
inductive:

*Window.* The lemmas about the word have no state: `AcceptRemembers` shows that accepting an
admitted nonce keeps the word equal to the history, by cases on whether the nonce
is the first, above the highest (the shift, `ShlMember`) or below it;
`AdmitsIsHistory` shows that `admits` then gives the verdict the history would.
They need `span <= Width`, which the crate asserts at compile time beside
`MAX_REPLAY_WINDOW`. The opener's inductive invariant (`OpenerInv`) is `OpenerTypeOK` and
`WindowIsHistory` together: the second is inductive only over typed windows. The
refinement is then one step per verdict.

*Sealed channel.* `NonceUsedOnce` is about what was sealed, and the next seal keeps it
only because the counter is past every nonce of its side (`SealedInOrder`).
`OpenedOnceAsSealed` needs more: what is delivered unaltered was sealed (`WireSealed`),
and each side's word stands for the nonces of what it opened (`WindowsRemember`), for
which the lemmas about the word are cited. That a second copy does not open is then
that the window refuses its nonce; that a different frame does not open in its place is
that no two frames share one. `OneAnswer` says that a response owed answers a request the
controller opened, and that owed and sealed responses are apart, so a request has one or
the other; `ErrorsPaid` that the errors sealed under a `req_id`, with one owed, are paid for
by the arrivals that were altered or did not fit, one each.

*DRBG.* `NeverDrawnTwice` is not inductive: it needs that the state about to be
drawn from lies after every state drawn from before. The invariant adds
`ProbeYieldsNoPastDraw`, which says it of FRAM, RAM and the draw in flight,
`DrawAdvances` (the next state of a draw lies after its own) and `SeedsWritten`
(no state names a seed the station has not written yet, so that a reseed is after
all of them). The order is by seed and then by number of draws. HMAC's injectivity
is in the modelling of states and not an assumption of a theorem.

*COBS.* Each loop is shown right turn by turn, and a claim about every turn by the first
one at which it would fail (`EachUpTo`); that a function defined by its value one turn
before exists at all is `RecursionExists`. The encoder's side (`Holds`, `PushHolds`) says
what was written and what is held back after each byte. The decoder's (`Parsed`,
`NextTurn`) says that on any body which starts with what the encoder wrote, some number of
turns reads just that and gives the bytes pushed so far, less the zero that a last block
implies. A block is full exactly when its code is the largest, so that zero is owed in all
cases but one, and `ZeroCloses`, `FullCloses` and `LastTurn` are those cases.

*UART.* A refusal is a fault only because of what the reader holds at each moment:
`ReaderInv` says that behind a boundary it holds nothing, and that while it holds a run its
clock reads as the line's does; `LineInv` that what is still to be sent is the rest of one
frame and the reader holds the part before it, if the frame is intact; `CleanInv` that a
line without faults is at a boundary or inside an intact frame. `FrameFacts`, which rests
on the round trip, gives that the run before the last byte of a frame is taken for its
envelope. The envelopes and the checksum are parameters: an envelope is at most
`MaxPayload` bytes and its checksum `CrcBytes` of them, and nothing else is asked of either.

*BLE.* `WireInv` says that the values on their way are fragments that follow each other
without a gap, whatever limit each message was cut with, and `SenderInv` that the sender's
next one continues them. An assembly is the head of one message (`AssemblyInv`). It is
joined only to a value with its id, and a value has the id of another message only a whole
turn of the ids later: the stack has by then failed once for every message between, and
once more if the value is past its message's start. That is more than `TurnAssumption`
allows. The assumption is needed and not the code's: see *Limits of the models*.

*Received topology.* `HeldIsLatest` reads the held tables off the history of accepted
pages. The work is in one page: `Apply` is a recursive function over the page's rows, whose value
at each row `ApplyCopies` gives, and `RowTaken` and `PageTaken` show that copy to be the
rows of the walk not replaced up to that place (`LastRows`, `Unreplaced`). `HistInv` says
what connects a page to those before it: the held revision is the last page's, and nothing
is held before the first. A page of another revision starts a walk of its own and a page
of the held one continues it (`NextWalk`). `EveryRowJudged` is kept because a page is taken
only when each of its rows was judged, on the tables that the history gives for that row.
That no more than `Devices` rows are held is by the cardinality of the set with one row
added.

*Inventory walk.* `WalkInv` says that what a walk has taken is what its digest was taken
of, and `WireInv` that a page on its way answers the walk's own question and that the
digest it ends with is of the tables it was built from; so a walk whose digests agree has
those tables (`PageArrives`), whatever moved under it. That an honest controller is never
found at fault needs more. While every edit moved the revision, a revision names one state
of the tables (`Past`), and the rows a walk has, with those still to come at its revision,
are that state's (`OnItsWay`). That a page keeps this so is `PageThenRest`: the rows of a
page followed by the rows from the id it hands back are the rows that were asked for, for
any widths and caps (`BuiltHolds`, and `RestOfRows`, by the rank of an id in its table). An
edit that leaves the revision ends the claim and not the first one, which never uses it.

*Log paging.* `WalkInv` ties the cursor to the ring: a record below the cursor was
received or told gone, none was received twice, and a cursor that has moved is at most one
past the newest record, so a record still to be written cannot fall behind it. A page's
entries are the lowest of what the ring holds at or past the cursor (`PageSet`,
`LeastMember`), which gives that the next cursor skips nothing.

*Event stream.* Order and single delivery (`TakenOnceInOrder`) hold whatever the carrier
does, from `ClientInv` (what was taken lies below the mark, in order) and `WireInv` (what
is on the wire is a recorded event or a sound answer). `NoSilentLoss` is about a carrier
without faults, and needs the wire as a chain: each event is the next record after what is
before it (`Follows`), the last is what the subscription sends next, and the mark is the
first (`CarriedInv`). `RingInv` adds that what left the ring was sent, since P-098 closes
the session otherwise.

*Hot plane.* `PagesWhole` speaks of a walk that met its end; `RowsInv` says what a walk was
given at every cursor, each row before it once and none after. The work is again in one
page: `BuiltFacts` shows that whatever the weights and the caps, a page's rows are those
from its cursor up to the one it refused, which is the cursor it hands back, and
`PageCarries` that the two arrays it is sent as hold each of them once. For the counters,
`CounterInv` says that the run is the last total published, however often a judged sample
was put off.

*Enrolment.* `OneKeyOneSlot` fails to be inductive over a power failure: a record is
chosen at one step and stored three later. `WritesApart` says that no other slot holds the
key of a record on its way, `OwnersOwnWrite` that an owner's slot is on its way to nobody
else, `OneRecord` that one slot is written at a time; the two message-3 rules of `Choose`
establish them, and an approval or a removal between the steps keeps them. `ToldTrue`
needs that a generation is issued once (`GenerationsFresh`, which is why P-239 raises the
mark first) and that message 3, the write it starts and the answer are about one key
(`KeysBound`).

*Configuration.* `CurrentMeansSame` needs every place a network section may be in:
`CopySound` holds of flash, of the board in the drawer and of each push under way, and
says that a section of the master's origin is no newer than it, and the same when as new.
Origins separate what is the same version of different sections; a repair draws a new
origin, so that no copy matches it by chance. For the register, `DevSound` says that no id
of the section stands for two devices. The refinement is step by step
(`RegisterStep`): `Allotted` gives that an accepted list draws its new ids in order from
the allocator, and `NotBehind` that the next id is past every listed one, except between
the two stores of a write, where `live` already has the new ids and `retired` does not.

`SentBackAccepted` says what is wanted of the section in paths and loops, which no step can
be followed through; `SectionInv` says it in heights: every device has one, within the
depth, and its parent's is lower (`Lower`). The walk of `check_chain` above each entry of a
body gives the heights (`ChainsStand`: a chain that meets a listed device goes on as that
device's own does, `AboveShift`), storing keeps them, since an entry that brings no id is
nobody's parent, and heights give back that no set of devices keeps its own parents
(`NoLoop`), that no path is longer than the depth (`NoLongPath`) and that the walk passes on
the list a client reads (`StandingChains`). That list, and that of the buses, exist because a finite set of numbers has
an order (`RisingExists`), and hold what is held and nothing else (`BackFacts`,
`BackBusesFacts`). That no two entries of one bus have one address is asked of each
entry about the later ones only, and is symmetric once stored (`AddressesApart`). The
client's check is compared with the controller's rule by rule for any body (`ChecksAgree`):
buses, entries and the first row of the drivers' table in one step each, the two walks along
their links (`WalkOnward`, `ChainsAgree`).

*Pairing handshake.* A handshake state is what was mixed into it, so the proof reads the
state off each message. `PairInv` says which attempt each end is in and that its state is
that attempt's, written out; `PairOpensAsWritten` alone forgets, once a message is
answered, which states the next one is opened with. A ciphertext that opens was sealed
under its reader's own chain and hash (`OpenedAsSealed`, `SealsAlike`), and an attempt's
ephemeral key is the third part of every chain of it, so the parts of another attempt's
messages do not open, whole or crossed (`FirstAlike`, `EeAlike`, `EsAlike`, `SeAlike`).
That both ends mix the same is that a shared secret is the same from either side
(`MixSame`), and that no honest message is refused is that none of their keys is the
low-order point (`KeysAgree`).

*Opening of sessions.* An admission, a session on either end and a reply each stand on one
Hello, and `HelloInv` says which: `Written` that an enrolled phone tagged and wrote it, and
`Sent` that it is under way. Who wrote a Hello can be read off it (`HelloApart`), and an
admission tag that verifies says which key tagged it and over what (`TagSaysWho`), so the
Hello admitted is the one its slot's holder wrote, whatever the relay changed beside it. A
controller answers one Hello a challenge, and a challenge that was answered is past
(`Past`): the two ends of a session hold the same challenge, and a rekey or a new slot
holder in between is refused. The reply opens only for the phone whose Hello it answers
(`HelloReplyRead`, `FinishesOnItsOwn`), which gives that the keys and the versions both
hold are of the same exchange. What a phone reads back from its storage is the enrolment it
put there (`DecodesWhole`), by cases on how the slot's two halves are written.

*Invites.* `InviteInv` traces every match, enrolment and confirmation to one guest: what an
admin compared was a row over the words that guest shows (`Compared`), what a slot was
written with is that guest's key and details (`Agreed`), and a confirmation is over its
words (`Confirms`). Words are told apart by the transcript they are computed from
(`SameWords`), which has both keys and the role in it. A row that is pending is of the
present epoch, so nothing of a former one is approved. `WhatStands` says that no step
takes back what a guest was shown, and so disturbs none of it.

*Vouches.* `VouchInv` has that every answer is tagged by the controller it speaks of, over
what it says, and every link stands on an answer and an issue that is spent (`Grounded`).
A tag that verifies says what its issue asks (`TagSaysIt`), which is why an answer to
another account, epoch, slot or controller links nothing.

*Crosswalk.* `dataset_name` takes the first row that matches. Two rows that match one
reading and are as specific reach the same place, for the weights of a role, a point and
a direction never add up to one another (`AsSpecificIsOnePlace`); so the first match of
either table is the one narrowest row.

The assumptions are the crate's own. `RowsAssumption` is the compile-time assertion on the
caps of `limits.rs`; `ChannelAssumption` has the relation of the windows to
`MAX_INFLIGHT`; `WritesAssumption` gives the decoder's shape to the bodies of a section
write and `SiteAssumption` to the board and the drivers' table, whose transports are the
registry's seven; `VersionsAssumption` says that a version is a pair of counts, and `TopologyAssumption` that the value standing for no revision is not a
revision; `WalkAssumption` that a row fits a page alone. Bounds are only said to be natural numbers. No theorem assumes anything of the
order of messages.

The one assumption on what surrounds the crate is BLE's `TurnAssumption`. Recursive
functions are reasoned about along their own finitely many steps, by the least
step at which a claim would fail (`NatLessThanWellFounded`, `WFMin`): the theorems on
induction take an operator as parameter, which the provers cannot instantiate. Rows are
addressed as `at[1]` and `at[2]`, since the prover's parser does not take a set of tuples
filtered by a tuple pattern.

### Only model-checked

- Liveness (`AssemblyEnds`, `EnqueuedArrives`, `CatchUpEnds`, `HeardInTheEnd`,
  `CurrentInTheEnd`, `CacheConverges`): beyond the proof system.
- The codecs' five properties, except for what `EncodedDecodes` says of COBS
  (`RoundTrips`, `EncodingFits`). `RefusesMalformed`, the converse for COBS, is checked for
  every body of the run's lengths. `EncodedDecodes`, `DecodedWasWritable`, `TablesAgree` and
  `BudgetsHold` are, but for `OrderNeverDecides`, about the particular schemas and tables, which TLC evaluates in full;
  `ItemsExact` is about a `RECURSIVE` reader, which the prover does not take.

The type invariants of `Opener`, `SealedChannel`, `Drbg`, `ReceivedTopology` and
`Enrolment` are proved and so not checked again in their runs; in `Links_proof`,
`Streams_proof` and `Config_proof` what typing is needed is part of the inductive
invariant. The other modules state theirs and the runs keep their room for the rest.

## Limits of the models

- BLE ids count modulo 256. If a sender loses the end of one message and then
  every value of the next 255, inside one timeout, the ids come round and the tail
  of another message could be joined to the first one's head. `TurnAssumption` leaves
  this case out (with two ids TLC finds it at three faults); the timeout makes it remote.
- The relay of `SealedChannel` alters one scalar or the body at a time. Any altered
  frame fails its tag, so more at once reaches no further branch of `open`.
- `UartFrame`'s checksum is a small one that tells the run's payloads and their
  damaged forms apart. A collision of the real CRC-16 is not modelled.
- `EventStream` has the mark alone: a copy of an event that the channel's window
  would refuse first is allowed to reach it.
- `InventoryWalk`: SHA-256 is injective, and a row is its id and content. The digest
  is over the rows' bytes without their kind, so the caches compared are the rows in
  canonical order and not the kind each came under. The request's device filter is
  left out.
- `Noise`, `Hello`, `Pair`, `Invite`, `Vouch`: the primitives are ideal. Digits are the
  transcript they are computed from, so two transcripts with the same six digits are left
  out. Wiping of keys is not modelled.
- `Enrolment`: the firmware's handlers are written from P-064, P-239, P-240, P-255 and
  P-256. Which failures count against `MAX_AUTH_FAILURES` (`PairError::counts`) is not
  modelled. A holder of the label can tag a refusal, so `ToldTrue` speaks of refusals only
  while the label is not leaked.
- `Bodies`: a value is its class, so an encoding of the right class is always taken. What
  is inside a string is looked at only where a codec refuses by content. The greatest
  `req_id` of the envelope stands for 2^32 - 1.
- `DeviceConfig`: a write is one of a list made to break each rule alone and some in
  pairs.
- `NetworkConfig`: a write that expects a version the section has come round to again
  after a repair is accepted, as the code accepts it; the properties are of the cache.

Three things seen on the way, which no document contradicts. `BusEntry::encode` writes an
entry that sets nothing, which its decoder and `check` refuse (P-261).
`InventoryHeader::decode` takes a nonzero `next` beside a refusal. P-258 says in
`docs/PROTOCOL.md` that a table the admins and the cloud have filled is still one an owner
can be invited into; beside `MAX_ADMINS` admins, `MAX_VIEWERS` viewers and the owner that
approves, no row is left.

## Not modelled

- `crc.rs`: a table-driven checksum without state; a parameter of `UartFrame`.
- `generated.rs` beyond the registries that `Registry` takes and the tables of
  `Crosswalk`, and `requirements.rs`: generated from `protocol.toml`, without behaviour.
- `crates/xtask` beyond the rules in `Crosswalk`: the text of the generated files, the
  vectors, the rendering of the registry and the findings about files and formatting.
- `packages/km43`: `ble.ts`, which is `ble.rs` written again, and `generated.ts`. A number
  wider than its field and the lengths of strings are left out of the client's codecs; its
  reads of an integer are held to the controller's apart, head by head.
- The push of a pairing window and of heartbeats: their bodies are schemas, and the state
  around them is the firmware's.
- Failure counting of `Pair`, the tag of a signed write, the wiping of keys.
- What `Invite`, `Approve` and `Remove` do to the table of slots: external, from
  `docs/PROTOCOL.md`, in `Enrolment` and `Invite`.

## Plan

Done, in order: the channel and the DRBG with their proofs; links; topology; log and
inventory; pairing; hot plane; configuration; codecs and budgets; handshakes, invites and
vouches; the gate's crosswalk and tables; and the proofs of the sealed channel, enrolment,
the streams, configuration, the received topology, the inventory walk, the two links, the pairing handshake,
the opening of sessions, invites and vouches.

Every safety property of the runs is proved for all instances, but for those of the codecs,
which are about particular tables (*Only model-checked*). What is left to model: failure
counting across `Hello` and `Pair`.
