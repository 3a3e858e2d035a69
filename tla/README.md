# A TLA+ model of AEGIS-MESH

AEGIS-MESH is an off-grid messenger: nodes with an Ed25519 identity exchange
signed envelopes over BLE, LoRa or a local socket, suppress duplicates, relay
by flooding, keep a distance-vector table, and queue what cannot be delivered.
The Rust workspace under `src/aegis-mesh/crates` has a core library
(`aegis-core`), a command line (`aegis-cli`, whose `serve` command is the
node), and a foreign-function layer (`aegis-ffi`) for the Android application.

Paths below are relative to `src/aegis-mesh/crates/aegis-core/src` unless they
say otherwise.

## 1. Inventory

| Part | State | Operations | Correct when |
|---|---|---|---|
| Envelope, `messaging/envelope.rs` | a value: kind, sender, recipient, timestamp, ttl, hops, signature | constructors, `advance_ttl`, `sign`, `verify`, `validate`, `is_fresh` | hop accounting adds up along a path; what validation accepts survives a relay; the signature survives it too |
| Inbound routing, `mesh/router.rs` | `seen_messages`: id -> instant | `route_inbound`, `check_and_record`, `gc_seen` | an envelope is admitted only while fresh, not twice within `seen_ttl`, and a refused copy leaves no trace |
| Route table, `mesh/router.rs` | `routes`: destination -> next hop, cost, seq | `update`, `process_route_announce`, `remove`, `remove_routes_via`, `next_hop`, `forward_targets` | every route is vouched for by its destination; order of arrival does not matter; entries only improve |
| Store and forward, `mesh/store_forward.rs` | ordered map (priority, instant) -> envelope, attempts | `enqueue`, `dequeue_due`, `drain_for`, `requeue`, `gc` | nothing lost or duplicated, caps held, no due envelope overtaken |
| Peer registry, `mesh/peer.rs` | `peers`, `observe_times`, each under a lock of its own | `observe`, `mark_verified`, `block`, `unblock`, `refresh_states`, `neighbor_ids` | a blocked peer stays blocked; the cap and the rate limit hold under concurrent calls |
| Node, `aegis-cli/src/commands/serve.rs` | router, peers, transports, broadcast channel | announce task, gc task, forwarders, `handle_inbound`, `relay`, shutdown | each envelope handled once per life of the node; flooding covers the network |
| `aegis send`, FFI | none | build, sign and hand over an envelope | the message leaves the node |
| Transports, `transport/*.rs` | bounded broadcast channels; BLE queue; hub's listener and write halves; serial port | `start`, `stop`, `send`, `subscribe`, read loops | bounded, no deadlock at stop, a slow reader does not silence the node |
| Sessions, `crypto/signal.rs`, `x25519.rs` | root key, two chains, counters | `init_as_alice`, `init_as_bob`, `encrypt`, `decrypt`, `dh_ratchet` (never called) | both sides derive the same root; one bad message does not end the session |
| Key store, `crypto/keystore.rs` | one encrypted file | `store`, `load`, `delete`, `list` | a map that survives a crash at any step |
| Files and configuration, `config.rs` | files | `secure_write`, `load_or_default`, `save` | as above |
| SQLite store, `storage/sqlite.rs` | tables, a connection and its transaction | `open`, `store_envelope`, `mark_delivered`, `store_channel`, `kv_set`, `kv_delete`, `wipe`; `undelivered_for`, `kv_get` read | what a call reports is in the file; a delivered envelope does not wait again; a wipe has been done or not, and its result is about both the rows and the VACUUM after them |
| Data directory, `aegis-cli/src/commands/identity.rs`, `wipe.rs`, `context.rs` | identity file, key store, database | `identity create`, `identity import`, `wipe` | an identity reported as written is not lost; a wipe that reports success has wiped |
| Channels, `messaging/channel.rs` | members, admins | `add_member`, ... | only admins change membership |
| AEAD, identity, fingerprints, priorities | none but a nonce counter no code shares | pure computation | outside a model checker's interest |
| Android application | screens, callbacks | platform calls around stubs | not modelled |

How they interact: a transport decodes frames with `Envelope::from_bytes` (which
validates) and publishes them on its broadcast channel; a forwarder task copies
them to the node's channel; the main loop takes one at a time and calls
`handle_inbound`, which calls `route_inbound` and, depending on its decision,
displays the text and calls `relay`; `relay` calls `advance_ttl` and sends on
every transport. The announce and gc tasks run beside it and share the router.
`serve` computes `forward_targets` and discards the result, and calls neither
`process_route_announce` nor `observe` nor the queue: these are the library's
interface, and what changes state in it is modelled on its own under every legal
order of calls.

Hard behaviours: two locks taken one after the other (`observe`); two time
windows that do not match (cache and freshness); arithmetic at `u64::MAX` and
at hop count 255; an ordered map whose key holds an instant; suppression of
duplicates when copies with different ttl race; restarts that empty the cache;
bounded channels that report lag as an error; read-change-write of a file
without a lock. `PROJECT.json` lists each at its line with the property that
would catch it.

## 2. Modules

| Module | Models | Rests on |
|---|---|---|
| `Envelope` | envelope shapes, hop accounting, validation, freshness, what a signature covers | |
| `RouterRules` | what `route_inbound`, `check_and_record` and `gc_seen` compute | `Envelope` |
| `ReplayFilter` | abstract: when an envelope may be admitted, with no cache | |
| `Router` | one node's inbound routing with a clock; implements `ReplayFilter` | `RouterRules` |
| `RouteTable` | one node's table, honest and rogue announcers | |
| `StoreForward` | the queue and its client | |
| `PeerRegistry` | the registry and concurrent callers of `observe` | |
| `Mesh` | a network of nodes on a lossy radio | `RouterRules` |
| `Session` | X3DH and the two chains, over a mesh that loses, repeats, mixes up and damages | |
| `Broadcast` | tokio's bounded broadcast channel with one receiver (external) | |
| `Node` | one `serve` process: main loop, announce task, forwarders, hub, BLE, shutdown | `Broadcast` |
| `Files` | `secure_write` on a file system that may lose power | |
| `KeyMap` | abstract: what `FileKeyStore` gives callers that change it one at a time | |
| `SqliteStore` | one connection to the database | |
| `DataDir` | jobs at work on one data directory; its key store implements `KeyMap` | `Files`, `SqliteStore` |
| `RouterProofs`, `PeerRegistryProofs`, `RouteTableProofs`, `StoreForwardProofs`, `MeshProofs`, `SessionProofs`, `NodeProofs`, `DataDirProofs` | theorems | the module named |
| `MC*` | values for the model checker | the module named |

Definitions keep the code's names in TLA+ spelling (`check_and_record` ->
`IsNew` and `Recorded`, its answer and its effect; `gc_seen` -> `Collected`).
Operators whose comment begins "A slip" are plausible errors, each of which
breaks a property when it takes the place of the definition below it; no
specification uses them.

**Envelope.** A record of a `body` (which relays leave alone), `hop` (ttl and
hops) and `sig`: the hop fields the signature covers, or `None`. As `sign`
always covers the whole envelope and relays change nothing but the hop fields,
these determine whether `verify` succeeds. Payload, priority, flags and version
are left out; nothing modelled looks at them.

**Router.** `seen_messages` is a function from ids to instants. Each method
holds the lock from its read to its write, so `RouteInbound` (the envelope
passes), `RouteInboundDrops` (it does not) and `GcSeen` are single steps, in any
order, at any time: `serve` calls `gc_seen` once a minute, and the model does
not rely on it. The wall clock of the freshness check and the monotonic clock
of the cache are one variable: the time of day is not changed while the node
runs. `admitted` is a history of passes.

**RouteTable.** A node is named by its key, as its id is the key's hash. A
signature is the key and the fields it covers; an honest node signs for itself
with hop count 0 and numbers it has reached, a rogue signs anything. (The
numbering is the announce task's. That task signs its envelope; the signature
over origin, hop count and number that `process_route_announce` verifies is made
by no code in the repository.) An announcement is any signature with any fields
around it. The sum in the jump check is taken modulo 2^w as in a release build (a
debug build panics there and leaves the table as it is). `offered` remembers
the best authentic announcement since a route was inserted.

**StoreForward.** The map is a function on pairs. An insertion reads the clock
twice, once for the key and once for `queued_at` (`store_forward.rs:62`, `:64`),
so the two may differ; and the clock may stay the same between two readings, as
the documentation of `Instant` allows, so two envelopes can meet under one key.
`dequeue_due` is its loop: `StartDequeue` takes the lock and reads the clock,
`DequeueNext` takes the first key not visited out of the map and sorts it into
`out` or `toRequeue`, and `EndDequeue` puts the latter back. The lock is held
meanwhile, so no other method runs, but the clock goes on and the client
delivers. The other methods are one step each. `inHand` holds what `dequeue_due`
and `drain_for` gave away; the client delivers or requeues it. `requeue` takes
its envelope by value, so one that is refused is gone ("refused"). `handed` and
`where` are histories.

**PeerRegistry.** `observe` is three steps: the instant is read
(`ObserveStart`), the critical section on `observe_times` and the second clock
reading (`ObserveRate`), the critical section on `peers` (`ObserveApply`). Any
number of callers are between these steps while other methods run. A record
keeps `last_seen`, `state` and `verified`; signal strength and transport name
are overwritten and never read.

**Mesh.** `air` is the set of copies under way: received in any order, received
again, or lost. A node's handling of a copy is one step, because the main loop
awaits `handle_inbound` before it takes the next. A restart empties the cache.
A run lasts less than `seen_ttl`, so the clock is left to `Router`. One step of
`Receive` covers transport, forwarder and main loop, on the assumption that
fewer envelopes are outstanding than the broadcast channels hold (256).

**Session.** Keys are symbolic: a Diffie-Hellman result is the set of its two
keys, a chain key is what it was derived from and the counters it was stepped
with, and a ciphertext opens under its key and associated data only. An
identity key is one key for signing and for X25519, as the conversion in
`crypto/identity.rs` makes it. A bundle or an initial message may arrive
altered in any field the code looks at, of an initial message also the identity
and the ephemeral key together, and of a bundle the one-time prekey, which nothing
signs; Bob's application may pass any of his
prekeys to `init_as_bob`, as what the message echoes is not checked. `decrypt`
steps the receiving chain before it knows whether the message is good
(`DecryptCall`). An initial message may be used again: nothing records those that
were. `used`, `life` and `heard` are histories. Counters are u32 and
wrap as in a release build (a debug build panics).

**Broadcast, Node.** What a frame says is left to `Router`: here it has a
number, and is good, unreadable or too large. Each task is at a named place
between two awaits; what it does without awaiting is one step, except `stop` and
`send`, which are cut at every lock they take. `snd` is a sender's progress
through hub and BLE, as the main loop and the announce task both call `send`. A
lock is not a variable: `write_halfs` is locked exactly while a sender is at
"write", the listener while the accept loop is at "accepting". `halves` is the
list of write halves, `kept` those a sender has written to without an error (the
code notes the others, as `failed`, and removes them at the end), `down` the
frames in each client's socket. A receiver that is overrun gets an error; a forwarder's `while let Ok` then ends, and the
branch of main's `select!` is disabled while it still waits for Ctrl-C ("deaf").
Ctrl-C is taken only by a `select!` that is waiting, because each one makes a
listener of its own: pressed while main handles an envelope, it is lost.
A frame comes from `SendCmd::run` or another client of the socket (`WriteFrame`).
`late` counts what is pushed to BLE after its stop.

**Files, SqliteStore, DataDir, KeyMap.** A directory maps names to inodes; data
not synced may be lost or torn by a loss of power, and the directory may go back
to any version since it was last written back, as the code never syncs it. A
job is a command in its own process or thread: `store` and `delete` read the
file at their start and then go through `secure_write` and the rename;
`identity create` looks for the file at its start. `aegis wipe` opens the
directory and removes one regular file at a time; what `is_file` refuses, the
hub's socket and subdirectories, it passes over, so `Name` has only files, and
`read_dir` may or may not list what appears meanwhile (`WipeNotices`). Its value
is what it failed to remove. Jobs interleave at every system call and may be
killed or fail anywhere. `clash` remembers whether two have been at the key store,
or at the identity, at one time. `mine` is the identity last reported as written;
it is given up at an import, a wipe, and a loss of power that takes its directory
entry back, which the code does nothing against.

The database has one connection; its methods hold the mutex from beginning to end
and are single steps. `told` holds what the calls of the connection amount to: a
set, because a `wipe` that returns Err may have been done or not. It fails at a
statement inside its transaction (`WipeFails`), which stays open, or at the VACUUM
after the commit (`VacuumFails`), when the rows are gone. `KeyMap` is what the key
store gives callers that change it one at a time, and not what the documentation
says of it: section 5. An open that makes a file waits for a free inode (a bound;
an open that fails ends its job as `Kill` does). The database, its log and its
index are one file here, and a second connection at the same time, with its BUSY
errors, is left out.

## 3. Runs

The runs finish in seconds, except `store_forward`, `peer_registry`, `data_dir`
and `node`, about a minute each, and `session`, about two.

| Run | States | Question | Bounds |
|---|---|---|---|
| `router` | 36 thousand | do cache, history and freshness agree; does the node implement the filter | two envelopes (one flooded, one direct) with different stamps; hop fields below, at and beyond each limit; 16 minutes with a 5-minute cache and a 10+1-minute window, as in the code, so an id is forgotten twice within its window |
| `route_table` | 10 thousand | what a rogue, a relay or a late announcement can do to the table | one honest, one rogue node and us; numbers of 3 bits with a jump of 2, so the jump check refuses, wraps, and lets `u64::MAX` through; hop counts 0, 1 and the largest |
| `store_forward` | 2.0 million | is an envelope ever lost, duplicated or overtaken, in the middle of a walk too | three envelopes, total cap 2, one per recipient, two priorities, 4 instants with back-off 1, 2 and retention 2, two hand-outs each: both caps refuse, also a requeue, keys collide, entries expire |
| `peer_registry` | 3.4 million | what happens between the two locks | three peers for two places, two callers, thresholds 1 and 2 in 4 instants: eviction, refusal, blocking in mid-observation; peers and callers are interchangeable |
| `mesh` | 138 thousand | once per life, hop accounting, coverage | a triangle and a tail, the smallest graph with a loop, two paths and a node two hops away; ttl equal to the longest loop-free way; one loss, two repeats, one restart |
| `session` | 986 thousand | when roots agree, whether a key is used twice, what `decrypt` accepts | two signed prekeys and a one-time prekey, ephemeral keys for two sessions with it or three without, two sessions started by each party, three messages in all, two calls of `decrypt` in a session; counters of one bit, so that they wrap |
| `node` | 201 thousand | what is handled and in which order, what an overrun costs, what is sent after a stop, whether shutdown completes | one client and the BLE bridge; channels, socket and BLE queue of size one, so that each overflows; up to three frames, one of them damaged, and up to two announcements, three of both together: two announcements are what it takes to push twice after a stop, three frames to leave a gap between two |
| `data_dir` | 382 thousand | what two jobs, kills, full disks and power losses leave | two jobs, keys and identities, one envelope; three jobs, or two and two calls of the store, or six calls; five inodes, which is all that two jobs and three names can hold or may get back |
| `session_onetime`, `session_replay` | violation | section 5 | as `session` |
| `keystore_callers` | violation | section 5 | as `data_dir` |
| `mesh_signatures` | violation | section 5 | as `mesh`, nothing lost, repeated or restarted |

The remaining disagreements with the documentation have a configuration each,
which finds its counterexample within a minute: `tlc -config MCRouterReplay.cfg
MCRouter`, and so on.

| Configuration | Of | Violates |
|---|---|---|
| `MCRouterReplay` | `MCRouter` | `NeverReplayed` |
| `MCRouteTableJump` | `MCRouteTable` | `SeqJumpsBounded` |
| `MCStoreForwardShare` | `MCStoreForward` | `PerRecipientCap` |
| `MCStoreForwardRetries` | `MCStoreForward` | `GcDropsExhausted` |
| `MCMeshCli` | `MCMesh` | `CliSendTransmits` |
| `MCNodeUnread` | `MCNode` | `StopReturns`, if clients need not read |
| `MCDataDirRollback` | `MCDataDir` | `NoRollback` |
| `MCDataDirWipe` | `MCDataDir` | `AllDataWiped` |
| `MCDataDirSqlite` | `MCDataDir` | `OkMeansStored` |

One envelope is enough in `mesh`: in a node's cache, decisions and relays, ids
have no state in common, so envelopes do not influence each other. Two are used
in `router` to show that, and to have both kinds of decision.

One client is enough in `node` to meet every pair of tasks: clients share only
`write_halfs`, which is taken in turn, and BLE is a second source beside it. (With
two there are 6.9 million states, on which the invariants hold as well; they are too
many for liveness.)

`mesh` and its variants, `session`, `node` and `data_dir` do not check for
deadlock: ids, keys and commands run out, a network falls quiet and a node
exits. Everywhere else it is checked.

**Fairness.** `Mesh` and `Node` have some. In `Mesh` each node, again and again, takes some copy
that has arrived for it (weak fairness of `Receive` per node). The main loop of
`serve` does that as long as it runs and its receiver does not lag. Nothing is
assumed about the radio (losses are unfair and bounded by the history in the
property), about applications, or about restarts. `FloodingReachesAll` promises
coverage only if no copy is lost and no node restarts. In `Node` the runtime runs
each task that can go on (weak fairness of each task), cancellation is seen in
the end though connections keep coming (`AcceptorEnds`: `select!` picks at random
among its ready branches), and a client's reader task reads, as that of
`connect_to_hub` does. Connecting, writing, leaving, announcing and Ctrl-C need
never happen. The reading client is the one thing assumed here that is not the
node's own: without it (`TaskFairness` alone, `SpecUnread`), `send` waits for ever
with `write_halfs` locked, and so do main, the announce task and `stop`:
`MCNodeUnread` shows it, and section 5 lists it.

## 4. Proofs

TLAPS checks, for every value of the constants satisfying the stated
assumptions:

- `RouterProofs!TypeCorrect`, `CacheCorrect`, `ReplayBounded`,
  `RouterImplementsFilter`. `CacheIsTheHistory` is inductive with the type
  invariant. The replay bound is not: it needs `AllSpaced`, that the n-th
  admission of an id comes at least (n-1) `seen_ttl` after the first, that both
  lie in the window of freshness, and that the cache has not forgotten the last
  one too soon. The refinement then follows step by step: an admission finds
  the id not in the cache, hence its last admission is `seen_ttl` ago, which is
  what the abstract filter demands.
- `RouteTableProofs!TypeCorrect`, `Authenticity`, `Improvement`,
  `BestOfferKept`. `BestOfferKept` needs that the entry is never
  older than the first one inserted and never newer than the best offer; then, as
  long as the best offer is within the jump of the first, no better offer can be
  refused. `Improvement` states the bound on jumps with the exception the code
  makes, `u64::MAX`; the bound as documented is refuted in section 5.
- `PeerRegistryProofs!TypeCorrect`, `BlockingLasts`, `ObservationsAreSpaced`,
  `RegistryBounded`, `EvictionIsFair`. Blocking is inductive on `Held`, that every
  blocked peer is registered as such; its one hard case is an observation applied
  after the peer was blocked, which `AppliedKeeps` covers: whatever an observation
  makes of the registry, a blocked peer is in it as before. The cap is inductive
  with the finiteness of the registry (`Bounded`): a step adds one peer to a
  registry with room, or puts one in the place of another (`AppliedDomain`).
- `StoreForwardProofs!TypeCorrect`, `NoneLostNoneTwice`, `AttemptsNeverCount`,
  `CapsObserved`, `DueInOrder`. All of them rest on the invariant of
  `dequeue_due`'s loop (`Walking`): the keys visited are in `out` or in
  `toRequeue`, by whether they were due, the others still in the map, and each key
  visited comes before all that are not. What is queued during a walk is the map
  and what the walk has out of it (`Held`); on `Held` a walk does nothing until it
  ends and hands out (`WalkHandsOut`). `DueInOrder` then says of `EndDequeue` what
  the loop was to find: only due entries, none passed over, and fewer than asked only
  if no more were due.
  The accounts are inductive with it: inserting displaces one envelope at most
  (`FiledAccounts`), a refused one is dropped, taking out moves each to the client.
  That `attempts` never passes 1 needs `Counted`: what was never queued was never
  handed out, what the client holds was. The caps need the queue to be finite
  (`Capped`), that inserting counts before it adds and, for each recipient, that a
  requeued envelope does not count, which is what the code does and not what it
  says: section 5.
- `MeshProofs!TypeCorrect`, `HopsAccounted`, `HandledOncePerLife`, for every
  network (`Distance` need only grow by at most one per hop), any number
  of envelopes and repeats. `Filed` adds to the types that an envelope is filed
  under its id. `OncePerLife` is not inductive, as it does not say whether the
  cache of this life already counts: `HandledWithin` bounds the counts by
  `Most`, the number of past lives, plus one if this life has seen the envelope.
- `SessionProofs!TypeCorrect`, `RootsCorrect`, `KeysCorrect`, `DecryptCorrect`,
  for any prekeys, any number of sessions and messages, and counters of any
  width. The invariant says that every session, and every message ever sent, is
  what X3DH and the calls so far make of it (`SessionsMade`, `MessagesMade`),
  that a message's session is the present one or an earlier one with another
  ephemeral key (`PresentOrPast`), and that places within sessions do not
  coincide (`PlacesDistinct`). `RootsMatch`, `AlicesRootTells` and
  `BobsRootTells` say what a root tells of its keys; `CounterCounts`, that a
  counter that wraps is the number of steps modulo its span. Keys stay distinct
  across the wrap because the chain key does, though the counter does not.
  That keys are symbolic, so that no two derivations collide, is part of the
  model.

- `NodeProofs!TypeCorrect`, `UnbrokenRuns`, `LateOnce`, `ClearedForGood`, for any
  number of clients and channels of any capacity. An unbroken run is a matter of
  both channels between a source and main at once: `Flow` says (`Run`) that what
  was handled comes before what waits for main and that before what waits for the
  forwarder, that all of it has arrived, and that, as long as a receiver has not been
  overrun, nothing good is missing between them. An overrun loses the oldest
  frames of a channel, and its receiver then takes nothing more, so the gap is
  never followed by anything handled. The others rest on `Order`: main waits for
  its own send; one task at a time writes to the halves; a client's half is in
  the list once and what a writer has kept and has yet to do are apart
  (`Writers`); after the listener is dropped nobody is accepted, and after the
  halves are cleared only `strays` come back (`Closed`); one push, that of the
  announce task decided before `stop`, may be late, as the task looks at `started`
  again before the next (`Lateness`).
- `DataDirProofs!TypeCorrect`, `KeyStoreWholeHolds`, `AcknowledgedIdentityHolds`,
  `StoreKeepsItsWordHolds`, `DeliveredStays`, `DataDirImplementsKeyMap`, for any jobs
  and through any kill, full disk or loss of power. What the properties say of a lone
  command, `Alone` says of the jobs: what is not in `clash` did not happen. The claims
  about the key store are made of all directories a loss of power may bring back
  (`versions`), not only of the present one: `Apart`, that the identity file never
  shares an inode with the key store or its temporary file; `KeysInv`, that the key
  store is whole and synced in each and the temporary file is in none of them under
  the name of the store. `IdentityInv` says that a reported identity is under its name
  and synced, and that who writes another has found none or is an import. `Stage`
  says how far the holder of a file has got with it. The refinement goes step by
  step: the rename and the removal by a wipe are the map's changes, a loss of power
  is its `GoBack` to one of the contents the directories may have, `Settle` its
  `Settled`, and every other step changes neither (`Elsewhere`). Once two changes
  overlap the map says nothing: `keystore_callers` shows what then happens.
  The database is apart from this: `StoreInv` says that the connection's
  file is one of the things the calls may have come to, also after a VACUUM that
  failed, unless a failing wipe left its transaction open.

Only model-checked: liveness under fairness (`FloodingReachesAll`,
`EveryFrameHandled`, `ShutdownCompletes`), which is out of the prover's reach.
Every other property of a passing run is a theorem. The prover's arithmetic is
unbounded; sequence numbers in `RouteTable` and counters in `Session` wrap
explicitly.

Assumptions are named in the modules (`RouterConstants`, `Inputs`,
`TableConstants`, `QueueConstants`, `RegistryConstants`,
`MeshConstants`, `NoneIsNotANode`, `SessionConstants`, `NoneIsNoText`, `ChannelConstants`,
`NodeConstants`, `NoneIsNoChannel`, `FileConstants`, `NoneIsNoRow`,
`DataDirConstants`, `MarksAreNoMaps`) and evaluated on every run. `Inputs` says
that two envelopes do not share an id, which `EnvelopeId::new` (the time in
nanoseconds) makes likely, not certain.

## 5. Where code and documentation disagree

Each has a counterexample, in a run or with one of the configurations of section 3,
but for the ratchet and the overruns, which passing properties describe. Some are
also findings of a passing run, whose property then states what the code does, with
the exception in so many words. Paths in this section are relative to
`src/aegis-mesh` where they begin with `docs`.

- **Replay** (`MCRouterReplay`; `ReplayBound`). The cache forgets after 300 s, an
  envelope is fresh for 600 s: a copy that comes in between is delivered and relayed
  again. With these windows, `ReplayBound` says, up to three times in all.
- **Jumps of the sequence number** (`MCRouteTableJump`; `NeverBackwards`).
  `mesh/router.rs:13` says "Max allowed sequence jump (audit fix: was unbounded,
  u64::MAX attack)" and `:40` "Update route with seq bound check (audit fix: u64::MAX
  attack)". The check (`:47`) does not apply to `u64::MAX` itself: an announcement
  with it replaces any route, and no later number is above it.
- **A recipient's share** (`MCStoreForwardShare`; `WithinCaps`).
  `mesh/store_forward.rs:11` says "Max queue size per recipient (audit fix: was
  unbounded)". `requeue` looks at the total only (`:123`): a recipient whose envelopes
  were handed out, replaced and requeued has more than its share.
- **Retries** (`MCStoreForwardRetries`; `AttemptsSayOnlyWhether`). `requeue` sets
  `attempts` to 1 (`mesh/store_forward.rs:129`) where its comments say it is
  incremented (`:120`, `:129`); `gc` never drops an envelope for its attempts.
- **`aegis send`** (`MCMeshCli`). It signs as the node and writes to the
  node, which takes the message for an echo of its own and discards it.
- **Signatures** (`mesh_signatures`). They cover ttl and hops, so the first
  relay invalidates them. (No code calls `verify` on inbound envelopes.)
- **One-time prekeys** (`session_onetime`; `RootsAgree`). `crypto/signal.rs:255` says
  that Bob "derives same root key from Alice's initial message", and
  `docs/SECURITY.md:43` that "Alice transmits her ephemeral public keys", from which
  (`:45`) "Bob derives the same root key". With a
  one-time prekey Alice's third DH uses a second ephemeral key (`signal.rs:210`) that
  the message does not carry: the roots never agree.
- **Replay of a session** (`session_replay`; `AcceptsExactlyTheNext`).
  `docs/SECURITY.md:63` says that the associated data "prevents cross-session
  ciphertext swapping and replay". It does within a session. An initial message that
  arrives again gives Bob a session with the keys, id and counters of the first, which
  accepts the same ciphertexts once more.
- **Ratchet** (`AcceptsExactlyTheNext`). `signal.rs:6` says "DH ratchet on every
  sender switch"; `dh_ratchet` is never called. `decrypt` advances the chain
  whatever comes of it, so one lost, repeated or damaged message makes it refuse
  every later one.
- **Stopping the hub** (`MCNodeUnread`; `ShutdownCompletes`). `transport/loopback.rs:97`
  says "Audit fix: signal cancellation (was deadlocking)". `send` holds `write_halfs`
  while it writes to each client in turn (`:112`, `:117`); one that does not read holds
  it for ever, and `stop` waits for it.
- **Key store, rollback** (`MCDataDirRollback`; `ImplementsKeyMap`). `crypto/keystore.rs:1`
  says "atomic writes, anti-rollback", `:16` "monotonic counter" and
  `docs/SECURITY.md:72` "with version byte + anti-rollback". There is no counter and no
  sync of the directory, and a loss of power may bring back an older store, which loads
  as the present one.
- **Key store, callers** (`keystore_callers`; `KeyStoreWhole`). The trait is
  `Send + Sync` (`keystore.rs:9`) and flush an "Atomic write" (`:61`). Two callers at
  once lose a change, and may leave the file empty or torn, as they share the temporary
  one and nothing excludes them.
- **The store's wipe** (`MCDataDirSqlite`; `StoreKeepsItsWord`). `storage/sqlite.rs:199`
  says "Transactional wipe". A failing one leaves its transaction open, and what later
  calls report as Ok is gone when the connection ends.
- **`aegis wipe`** (`MCDataDirWipe`). It says "All data wiped."
  (`aegis-cli/src/commands/wipe.rs:35`) whatever could not be removed (`:32`).
- **Overruns** (`EveryFrameHandled`). After one a transport, or the whole node, is
  deaf until it is started again; nothing says so, and so there is nothing to refute.

## 6. Not modelled, and plan

- `next_hop` and `forward_targets`: they read the table and compute a list. `serve`
  discards it (`serve.rs:163`) and floods. The list leaves out `env.sender`, the
  originator (`router.rs:198`, `:202`), and not the neighbour an envelope came from, so
  a caller that used it could send an envelope back where it came from.
- LoRa: without the `std-serial` feature `send` reports success and does nothing,
  and nothing is received; with it, the blocking reader does not compile.
- Channel membership: two guards on a record that its caller holds alone, and no
  caller. `MemoryKeyStore`: a map under one mutex.
- `undelivered_for`: it only reads. One row that does not parse makes it fail for
  every envelope of that recipient (`from_bytes` lets such an envelope in), but
  nothing says what it should do.
- `AeadCipher` and its nonce counter, `dh_ratchet`: no code uses them.
- Cryptographic primitives, key derivation, formatting and parsing (pure
  computation in libraries); argument parsing, prompts, configuration files; the
  Android application, whose calls into the core are stubs.

Next: an abstract specification of a node as an in-order pipe that may lose a
tail, implemented by `Node` (`Flow` is most of what its refinement needs), and of
the queue as a priority queue with a cap; a property for `observe_times`, which
grows with every peer ever observed.
