# A TLA+ verification of tor-js

tor-js runs a Tor client (arti, compiled to WebAssembly) in browsers and Node.
Browsers cannot open TCP connections, so the client reaches relays through a
*gateway*: one KPS connection (WebRTC or QUIC, with streams) that carries
HTTP/1.1 exchanges, one per stream, and turns a `CONNECT` into a TCP tunnel to
a relay of the current Tor consensus. The gateway also serves the consensus it
has verified (a bootstrap archive) and a mirror of hash-addressed objects.

The modules here are translated from the source, not from its documentation;
`PROJECT.json` maps every definition to the lines it models. TLC checks the
configurations listed below on small instances; TLAPS proves theorems about
each of the modelled components (section 5) for every value of their constants.

## 1. Inventory

### Gateway (`crates/tor-js-gateway`, Rust, tokio)

| Part | State | Operations | What is hard | Correct means |
|---|---|---|---|---|
| Tunnel limiter (`tunnel.rs`: `ConnectionTracker`, `TunnelGuard`) | `total`, the per-IP map, a counter per KPS connection | `acquire`, guard drop | runs on several threads; two caps are checked without a lock | counters exact, caps kept or overshot by a known amount, every slot comes back |
| CONNECT exchange (`kps_server.rs`, `tunnel.rs`) | where each stream is, bytes in flight, the slot | read a head, decide, dial, upgrade, relay, end | two peers that half-close, reset or fall silent; bytes read ahead of the upgrade; errors at every await | no byte lost, doubled or reordered; a truncation never looks complete; slot exactly as long as the tunnel |
| Object mirror (`keccak_mirror.rs`, the `/keccak` routes) | object files, `sync_lock`, `last_manual`, `syncs_enabled`, `verified_bundles` | poll, trigger, reconcile (list, fetch, prune), serve | poll and triggers concurrent; the branch moves meanwhile; fetches fail one by one; crash | one sync at a time, throttled; published objects stay; only matching bytes served; converges |
| Consensus sync (`sync.rs`, `store/`, the loop of `main.rs`) | three stores in memory, the allowlist, seven files | fetch or diff, certificates, verify, microdescriptors, write, archive | lagging directories; failure or crash between any two steps; unverified text in the store | only verified consensuses published; no rollback; what is published is admitted; catches up |
| Bootstrap route (`routes.rs`) | reads three files | serve archive, 304 | reads race the renames | ETag and body belong together |
| Start-up, configuration, CLI, systemd unit (`main.rs`, `config.rs`, `mirror_cli.rs`, `service.rs`) | none after start | | order of start | |

### Client (`src/`, TypeScript, single-threaded; `crates/tor-js-wasm`, Rust)

| Part | State | Operations | What is hard | Correct means |
|---|---|---|---|---|
| Gateway client (`kpsGateway.ts`) | `#connPromise`, `#teardowns`, `#closed` | `fetch`, `connect`, `close`, redial | calls share a dial that may fail, hang or die while each has its own deadline; reads that never settle | one shared dial; each call ends; streams released; no truncated body |
| Gateway selection (`socketProvider.ts`) | per gateway `inFlight`, `failures`, `notBefore` | `connect`, `gatewayFetch`, socket close | concurrent callers over awaits, results out of order | exact load; sound order; fail only after all were tried |
| Storage lock (`storage/locking.ts`) | Web Lock or lock file, `overlay` | `tryLock`, `unlock`, `set`; create and drop of the cache | several tabs or processes; stale lock files; writes that outlive the lock | one owner; the lock comes back; a client without it leaves the store alone |
| Storage cache (`storage.rs`: `CachedJsStorage`) | the cache, tasks that write back | preload, `set`, `delete`, `set_many`, drop | writes settle in another order; a batch outlives later sets; kill in a batch | storage becomes what the cache was |
| Fast bootstrap (`fast_bootstrap.rs`) | the cache | download, decompress, parse, store | fails half way; damaged archives; 32-bit offsets | a second start completes it; a damaged archive is an error or less, never other bytes |
| TorClient, singleton, WASM loader (`TorClient.ts`, `singleton.ts`, `wasm.ts`, `lib.rs`) | `clientPromise`, `readyPromise`, `closed`, `initPromise`, log listeners, `inner` | construct, `ready`, `fetch`, `close`, `configure`, `setLogLevel` | cached promises that reject; `close` between any two steps | every caller is answered; close releases everything |
| anon-rpc worker (`anon-rpc-worker/`) | attempt number | bootstrap with retries, serve calls | as above | retries until ready |
| HTTP client over a Tor stream (`fetch.rs`, `fetch_impl` in `lib.rs`) | buffer, chunk position | request, head, body decoder, abort | reads split anywhere; 1xx; truncation | decodes exactly the body or fails |
| JS socket as async stream (`runtime.rs`) | a pending read, a pending write, flags | poll read, write, flush, close | promises held over polls; errors seen once | order kept; no silent loss |
| Back ends, entry points, errors | key-value files, one cached download | | | |

The parts meet as follows. `TorClient` gives arti a `connect` callback, which is
`ArtiSocketProvider.connect`; that picks a `KpsGateway`, which opens a KPS
stream and sends a `CONNECT`; `kps_server.rs` receives it, `handle_connect`
takes a slot from `ConnectionTracker`, checks the target against the allowlist
that the consensus sync maintains, dials and relays. The fast bootstrap fetches
the archive the same sync wrote. The storage is shared by the tabs or processes
of one user.

## 2. Modules

| Module | Models | Notes |
|---|---|---|
| `TunnelSlots` | what the limiter promises a client IP | abstract specification |
| `TunnelTracker` | `acquire` and drop, one atomic access or critical section per step | implements `TunnelSlots` |
| `TunnelTrackerProofs` | | theorems about `TunnelTracker` |
| `ConnectExchange` | one KPS stream from its head to its end | takes its slots from `TunnelSlots` |
| `ConnectExchangeProofs` | | theorems about `ConnectExchange`, its use of `TunnelSlots` among them |
| `KpsGateway` | client side of a gateway connection | an action is the work between two awaits |
| `KpsGatewayProofs` | | theorems about `KpsGateway` |
| `SocketProvider` | choice of gateway and failover | an attempt is one call of `KpsGateway` |
| `KeccakMirror` | mirror and its routes | |
| `KeccakMirrorProofs` | | theorems about `KeccakMirror` |
| `ConsensusSync` | `sync_once` with stores, files, archive, restart | |
| `BootstrapRoute` | `/bootstrap.zip.zst` as a reader of the archive | extends `ConsensusSync`: both run side by side |
| `ConsensusSyncProofs` | | theorems about `BootstrapRoute` and the sync under it |
| `StorageLock` | lock, overlay, write-back | browser and file locks in one module |
| `CachedStorage` | the cache of `CachedJsStorage` and its tasks, with keys and values | a storage that settles in order, or files |
| `StoredZip` | `parse_stored_zip` as a function on archives | arithmetic of the 32-bit target |
| `FastBootstrap` | a client's starts over `CachedStorage` and `StoredZip` | |
| `ClientStorageProofs` | | theorems about `StorageLock` and `FastBootstrap`, the archive reader included |
| `HttpMessages` | what bytes on the wire mean, read whole | pure; the reference for `HttpFetch` |
| `HttpFetch` | one `fetch()`, read by read | |
| `BytePipe` | what a one-way stream promises | abstract specification |
| `JsProxyStream` | the polls of `JsProxyStream` over promises | implements `BytePipe` twice |
| `ClientStreamProofs` | | theorems about `JsProxyStream`, both refinements among them, and about `HttpFetch` |
| `ClientLifecycle` | clients, their users, the WASM module they share | |
| `TorClientProofs` | | theorems about `SocketProvider`, sorting included, and about `ClientLifecycle` |

Composition: `ConnectExchange` is checked against the abstract limiter, and
`TunnelTracker` is shown to implement that limiter, so the atomic steps of the
counters need not be interleaved with the bytes of the tunnels. `SocketProvider`
treats an attempt as something that ends with success or failure; `KpsGateway`
shows how far that is so. `BootstrapRoute` adds a request to the sync it reads
beside; `FastBootstrap` drives `CachedStorage` with what `StoredZip` makes of an
archive. In `ClientLifecycle` the lock of `StorageLock` is one variable, a fetch
of `HttpFetch` and a fast bootstrap are each a step that may come or never come.
`ConnectExchange` has one cap of its own, that of a client; a refusal for another cap
may come at any time.

### From code to model

**TunnelTracker.** `total`, `per_ip` and `conn_count` are the counters of the
code; `pc` says which of the atomic steps a stream has behind it. `acquire` is
`LoadTotal`, `LoadConn`, `CheckAndCountIp` (the mutex), `CountTotal`,
`CountConn`; the drop is `ReleaseTotal`, `ReleaseIp`, `ReleaseConn`. Neither
contains an await, so at most `Workers` streams are inside. `per_ip = 0` (a
setting that admits nobody) is excluded by `LimitsAssumption`: with it the map
would keep an entry per refused client.

**ConnectExchange.** A request is what the checks look at (`Requests`); bytes
are numbered units. `src` is the sending side of a direction, `sink` the end of
stream the other side has seen, `buf` what the relay has read and not written.
`RefuseProfile`, `RefuseTarget`, `Route`, `RefuseBusy` and `Admit` are
`handle_request` with `validate_target`; the two timeouts, the failed upgrade and
the bytes hyper read ahead have actions of their own. The idle
timeout and the maximal lifetime are the two ways an idle tunnel ends.

**KpsGateway.** `current` is the dial behind `#connPromise`. The KPS library is
external; a connection may die without settling its streams, and a dial, an
`openStream` or a write may hang, as the comments of the code say. `teardowns` are the
registered closures; running one cancels the reader (a pending read then
resolves as done) and closes the stream. The write of the request is awaited outside
`abortRace`: it settles when the network lets it (`WriteSettles`), if ever, and a
deadline that passes meanwhile is noticed only then.

**SocketProvider.** Time is relative: `cool` is `notBefore - now`. `plan` is the
candidate list computed once per operation. Jitter is a choice of any value
between half and the whole of the cooldown. `filter` and the stable `sort` of
`#candidates` are one operator, `StableSort`: the sequence of a set of gateways in
which each precedes the next by key, then by shuffle position; a filtered list is
sorted by a constant key.

**KeccakMirror.** An object is its hash, a file is absent, good or rotten.
`sync_lock` is tokio's fair mutex: its release hands it to a waiting poll, while
triggers use `try_lock`. There is no await between a trigger's stamp and its
lock, so no time passes there (`Tick`), though other tasks run. A client that
hangs up does not end the sync it triggered: hyper does not watch the stream
while a handler runs (`half_close`). A request reads a file (`Reads`) and hashes what it
read (`Serve`) in two steps, between which the file may change.

**ConsensusSync.** A consensus is its valid-after and its fresh-until, in periods, and
whether its signatures suffice; one that the authorities made has both in the same
period. The store takes an unverified text (`Resolves`), as the code does;
`old` is `old_digest`; the files are written one by one, each atomically. The
allowlist is the period whose relays it has and the address families it has of them:
a verification admits both families, `Preloaded` at a start only IPv4, or nothing. A
start may also fail to read the consensus into the store, which then is empty; the
histories `kept` (this process has published nothing yet) and `forgot` (some start
could not read it) are what the properties say of this.

What a directory may deliver is `Received`, from the status, the encoding and
whether the body was whole; what somebody else made up (`Forged`) has any dates, those
to come included. A directory may send microdescriptors nobody asked
for, and they are kept.

**BootstrapRoute.** A request reads the etag (or, if there is none, the zip whose
hash it writes back, whole, in part or not at all), may answer 304, and reads the zst. `cut` remembers that an
archive was left half written. `Earlier` is a data directory without an etag.

**StorageLock.** `stage` walks through `tryLock`, `unlock`, `tryLock` of
`CachedJsStorage::new`. The lock file is created, looked at, overwritten and
unlinked in separate steps. `batch` is a `set_many` task, which outlives the
storage. The values written are not modelled here, only where they go.

**CachedStorage, FastBootstrap.** `Issue` hands one write to the back end,
`Settles` is its effect, which on files may come in any order (`Overtaken`) and
fail (`FailsAt`), there with a part of it written. A batch goes on entry by entry (`GoesOn`), after a failed write
too. A start preloads, asks for the archive unless a consensus is there,
stores consensus and certificates, awaits the digests, stores microdescriptors;
after it arti writes what it likes. `Dies` ends the process between any two steps.
`lost` is a history of the keys the code may be without, and `Undone` those that an
older client's deletion may still remove, on files.
An archive is a sequence of bytes of which only the zip headers are looked at.

**HttpFetch.** The call fixes the peer's bytes and how the connection ends; every
read takes some of them. `reader` is `BodyReader`, `buf` first the head then its
overflow. `RequestBody` sorts the caller's body by its JavaScript type.

**JsProxyStream.** A poll is one action; the promise it may leave behind settles
later. Chunks come from the socket's `onmessage`; `pending` writes report success
before the socket has taken them, as in the code.

**ClientLifecycle.** `boot` is where `bootstrap()` of `TorClient.ts` and
`create_client` of `lib.rs` are; JavaScript runs to its next await, so an action
is what happens in between. `Closing` is `close()` up to its end, `ClosesInner`
what it leaves to a promise; `Unlocks` is the drop of the last reference to the
arti client, which `Held` enumerates. A lock is `Stuck` when it is held and no storage
is there any more whose drop could release it: a start-up that fails between the two
calls of `tryLock()` (`storage.rs:226`), or an `unlock()` of the drop that is refused.
A provider whose constructor throws (`TorClient.ts:64`) leaves the listener before it.
The singleton is a page with one client; the worker has its own steps around the same
client.

## 3. Runs

| Run | Instance and bounds | Shows |
|---|---|---|
| `tunnel_tracker` | 5 streams, 3 connections, 2 clients, all caps 2, 2 threads | `CountersExact`, `GlobalOvershootBounded`, `NoSpuriousRefusal`, `ImplementsSlots` |
| `connect_exchange` | one stream with any request and 2 units each way, a rival for the only slot | `RelayFaithful`, `SlotsMatchTunnels`, `EveryTunnelEnds` |
| `kps_gateway` | a GET and a CONNECT, 2 dials | `OneSharedDial`, `CleanupExact`, `HeadIsDeadlined`, `DeathEndsCalls` |
| `socket_provider` | 3 gateways, 2 callers, cooldown 1 to 2 | `SelectionSound`, `FailsOnlyAfterAll` |
| `keccak_mirror` | 2 objects, 2 clients, 1 push, 2 crashes or rotten files, window 2 | `ServedBytesMatch`, `TriggersThrottled`, `PublishedStays`, `PollGetsItsTurn`, `Converges` |
| `consensus_sync` | 2 periods, lifetime 1, a relay that joins, a forged text from period 3, 1 crash, one request beside the sync | `OnlyVerifiedPublished`, `AllowlistCovers`, `ServedTagFits`, `NoRollback`, `CatchesUp` |
| `storage_lock` | 2 clients, stale after 2 ticks, batches of 2, 2 deaths | `ExclusiveUntilTakeover`, `LockReturns` |
| `http_fetch` | some 430 calls, bodies of 2 bytes, reads of 4, heads up to 12 | `DeliversBody`, `EndsHonest`, `AbortStops`, `UploadHonest`, `FetchSettles` |
| `http_bodiless` | the same | **violated** `BodilessResolves` |
| `proxy_stream` | chunks of 0 to 3 units, buffers of 1 and 2 | `FailureReported`, `SocketReleased`, `ImplementsPipes`, `ReadsEnd` |
| `fast_bootstrap` | 3 starts, 1 write of arti, 1 failing write, two back ends, some 40 archives | `WriteBackConverges`, `SkipMeansWhole`, `ParseSound` |
| `client_lifecycle` | 2 clients, 2 callers, 2 log levels; page or worker | `ClosedIsReleased`, `EverySettles` |

Every property of a passing run has a mutant in `PROJECT.json`: a changed
definition ("Mutated form of ...") under which TLC finds that property violated.
Properties with several parts are named for what the parts have in common and
list them (`EndsHonest`, `RelayFaithful`, `SelectionSound`, `CleanupExact`,
`ClosedIsReleased`). The modules also define `TypeOK`; it was checked while they
were written and is proved wherever section 5 says so.

Why the bounds suffice for the questions asked:

- *Limiter.* With caps of 2, two threads and three streams of one client every
  check can be passed by a second stream while the first is between check and
  increment. The theorems remove the bounds.
- *Exchange.* Two units make partial reads, writes and truncation visible; two
  streams and one slot make a leaked slot refuse somebody.
- *KpsGateway.* Two dials are a connection and its successor; a stale write to
  `#connPromise` needs no third.
- *SocketProvider.* Three gateways are one more than the preferred two; two
  callers suffice to change load and cooldown under each other. `failures` stops
  counting where the cooldown stops growing (`FailureCapAssumption`).
- *KeccakMirror.* Two objects let one be replaced by the other; two clients and
  the poll contend for window and lock; two incidents are a crash of a
  recovery, or a crash with a rotten file.
- *ConsensusSync, BootstrapRoute.* Two periods allow a directory that lags behind
  what is stored and a store behind the network, and two archives under one
  request; the forged text is fresh for good and newer than everything real. That a
  real consensus is too old to be accepted does not happen in them. The
  theorems remove the bounds.
- *StorageLock.* Two clients and two deaths: an owner is killed, and the one that
  took over too.
- *HttpFetch.* Every position of the decoder is a place between two bytes; a body
  of two chunks has all of them, and reads of up to 4 bytes cut it everywhere and
  run over the end of a head, a chunk and a size line. `MaxHeader` is a bound that
  an interim head with its final one exceeds and a single head does not.
- *JsProxyStream.* Chunks on both sides of the buffer's size and an empty one.
- *FastBootstrap.* Three starts: one client deletes, the next stores the archive while
  the deletion is still under way, a third skips it; two were too few to see the
  deletion settle last. One write of arti meets one batch. A consensus and two more
  documents are a batch that has a next entry, or a certificate and a descriptor.
  Archives are whole, cut at every kind of place and damaged in the sizes of every
  member, up to near the width of the target.
- *ClientLifecycle.* Two clients are a closing one and its successor, two callers
  share a `ready()` or straddle a close. Two levels are a broader and a narrower.

### Fairness

Only what the code or its runtime schedules is fair.

- `ConnectExchange`: the gateway's timers, hyper's answer, the write of the
  leftover bytes. Nothing of the peers.
- `KpsGateway`: continuations that are due, the deadline of a call, the close of a
  connection. Nothing of the network: a dial, an `openStream`, the write of a request
  and an answer may be awaited for ever, and `HeadIsDeadlined` says which of these
  waits the deadline ends (all but the write).
- `KeccakMirror`: the poll wakes, a sync makes progress (requests time out);
  `Converges` also assumes that listing, a fetch and a removal that are tried
  again and again succeed in the end.
- `ConsensusSync`: every await ends and time passes; `CatchesUp` also assumes that
  a directory hands out the current consensus now and then and that its
  processing does not fail for ever. It does not assume that a directory never hands out
  a forged one: that is its exception.
- `StorageLock`: storage calls end, time passes, clients come and go. A heartbeat
  is *not* assumed to be punctual.
- `HttpFetch`: the client's steps go on while their read or write can. The peer owes
  nothing; nobody has to abort.
- `JsProxyStream`: arti polls what it was woken for; a socket's promises settle.
- `ClientLifecycle`: settled promises resume their awaiters, the drop of the last
  reference runs, timers of the worker fire. Nothing of what they wait for has to end:
  the load of the WASM module, the storage, the archive (its head has a deadline, its
  body none), the bootstrap, the next event of arti, the answer to a request have no
  timeout in the code. `EverySettles` says for which of them a caller is waiting.
- `TunnelTracker`, `SocketProvider` and `FastBootstrap` have safety properties only, and
  no fairness.

## 4. Where code and documentation disagree

One run is expected to be violated; the others are configurations beside the runs
of the same module, each with one property that TLC finds violated at once.

1. `fetch()` rejects on a 204, 205 or 304 (`http_bodiless`): `fetch.rs:69` knows
   answers without a body, `lib.rs:595` gives every answer a body stream, and the
   platform's `Response` takes none for these statuses.
2. `tunnel_max` is not a strict cap (`TunnelTrackerCap.cfg`, `GlobalCapStrict`).
   Two threads can both pass the check. `GlobalOvershoot` proves the excess is
   below the number of threads.
3. A body can be truncated silently (`KpsGatewayBody.cfg`, `BodyEndsAtFin`): the
   teardown of a dead connection cancels the reader, and `fetch` takes this for
   the end.
4. The setup of a tunnel is not bounded by its deadline (`KpsGatewaySetup.cfg`,
   `SetupBounded`): the diagnostic of a refused CONNECT is read without it, and the
   request is written without it.
5. A failed fetch does not keep the old object (`KeccakMirrorPrune.cfg`,
   `FailedFetchKeepsOld`): the prune runs all the same, against the comment above it.
6. The archive can stay a consensus behind after a successful sync
   (`ConsensusSyncArchive.cfg`, `ArchiveHoldsConsensus`), if the sync before it
   failed after storing the response.
7. A 200 of the bootstrap route can carry an ETag newer than its body
   (`BootstrapRouteTag.cfg`, `TagNotAhead`); a client that revalidates with it
   keeps the old body until the next consensus. `ServedTagFits` says exactly when.
8. A client without the storage lock can write to the shared store
   (`StorageLockOverlay.cfg`, `OverlayKeepsWrites`): its write-back outlives its
   overlay.
9. `close()` does not always release what it should (`ClientLifecycleClose.cfg`,
   `CloseReleases`; "Close the TorClient and release resources",
   `TorClient.ts:152`): called before the WASM module is loaded, it finds neither
   the listener nor the provider that `bootstrap()` makes afterwards; and a
   `ready()` that waits for events, or a fetch, keeps the arti client and the storage
   lock for as long as it takes, which nothing bounds.
10. The worker's "retry indefinitely" (`worker.ts:63`) cannot succeed after a failed
    bootstrap (`ClientLifecycleRetry.cfg`, `RetryHelps`): `clientPromise` is created
    once.

The passing properties name these cases as exceptions and hold otherwise.

## 5. Proofs

`TunnelTrackerProofs`, for all finite sets of streams, any clients, connections,
caps and number of threads (`StreamsAssumption`, `LimitsAssumption`):

- `TypeCorrect`, `Exact`, `MapStaysSmall`, `PerIpCap`: counters are exact, the map
  holds no empty entry, the per-IP cap is strict.
- `GlobalOvershoot`, `ConnOvershoot`: the lock-free caps are exceeded by at most
  `Workers - 1`.
- `RefusalsJustified`: no spurious 429.
- `Refinement`: `Spec => Slots!Spec`.

The counters alone are not inductive for the overshoot: a state in which many
streams have passed the check of `total` would allow any excess. The invariant
`IInv` therefore counts the *racers*: whoever passed the check was admitted below
the cap, so `total` plus the racers is at most `MaxTunnels + Workers - 1`, because
at a load the racers and the loader occupy at most `Workers` threads
(`RacersBounded`). The lemma `Move` does the arithmetic once: a stream that
changes phase changes the size of a class of phases by `Delta`. One lemma per
action (`LoadTotalOK` ...) then updates the three counters against their classes
(`MoveClasses`). The refinement follows because the per-IP check is exact.

`KeccakMirrorProofs`, for any finite set of objects, any clients, window, number
of pushes and crashes (`MirrorAssumption`):

- `OneSyncAtATime`: whoever reconciles holds the lock.
- `NothingPublishedPruned`: an object is removed only if the branch lacked it since
  it landed.
- `BytesMatch`: what is served matches its hash unless it went bad after the first request
  for it had read it: `RotKnown` follows the object from that read to its check.
- `TypeCorrect`, `Throttled`: types; triggered syncs are at least a window apart.

The safety properties are not inductive alone. `IInv` adds four facts, checked with
TLC before they were proved. `RotKnown` is above. `HolderWorks`: only the holder of
`sync_lock` has anything to fetch or prune, so a fetch cannot revive what another sync
is about to prune. `DropsKnown`: what is on disk and not in the branch, and what a sync is about
to prune, was dropped since it landed. `WindowCharged`: the rest of the window and
the time since the last triggered sync add up to the window, and a trigger between
its stamp and the lock is alone there. There is one lemma per action; `Frames` says
once which variables each part depends on, and `EndSyncOK` serves both ends of a sync.

`ConsensusSyncProofs`, for any number of periods, lifetimes, microdescriptors and
restarts, and any forged texts, which have no sufficient signatures (`SyncAssumption`),
with requests for the archive at any time:

- `VerifiedOnly`: nothing unverified is in a file or an archive.
- `AdmittedFirst`: what this process published is admitted by all addresses, what the
  one before left by IPv4 or not at all; the zip is never ahead of the consensus file,
  nor the zst of the zip.
- `ForwardOnly`: none of the three goes back to an older period.
- `TagsServed`: an ETag newer than its body goes out only while the archive is torn.

The last three are silent once a start could not read the consensus file (`forgot`). None is inductive alone, because the files are written from `text`, a local of
`sync_once`. `IInv` says what it holds (`TextHeld`): while there is a text it is the
stored one, which is at least as recent as the file; past the verification it is the
one whose relays are admitted and is signed (`SignedHeld`); past the first write it
is the consensus file. `TagsKnown` and `TagsFit` compare each tag with the file and
the zst. `IInv` was checked with TLC on the instance of `consensus_sync` first. Each
action has a lemma in two parts, the order of the periods (`Ordered`) and the
signatures; where a file is replaced, the period is compared before the record is
put in its place, since the prover loses the type of the number otherwise.

`ConnectExchangeProofs`, for any finite set of streams, any requests they may bring,
any clients and any number of units each way (`ExchangeAssumption`):

- `TypesHold`, `SlotsExact`: types; a slot is held exactly while its stream tunnels.
- `RelayIsFaithful`: bytes in order and once, no truncation that looks complete.
- `UsesLimiter`: `Spec => Limiter!Spec`, the limiter of `TunnelSlots`. With
  `Refinement` of `TunnelTrackerProofs`, the concrete counters and the concrete
  exchange meet at one abstract specification.
- `IpCap`: no client has more than `PerIp` tunnels, a consequence of `UsesLimiter`.

`RelayFaithful` speaks of ended tunnels and of sums of bytes; inductive is, per stream,
`Fine`: what was delivered followed by what is buffered is a prefix of the numbers
(`InOrder`); nothing was read, nor an end passed on, before the relay (`Unread`,
`Unclosed`); a FIN that was passed on came after all there is (`Passed`); a short end
was a reset (`Reported`). A step touches one stream, so `Local` leaves `Fine` of the
others alone, and each action has a lemma about its own. `UptoExtends` is the one fact
about sequences that reading and delivering need.

`KpsGatewayProofs`, for any finite set of calls, of either kind, and any number of
dials (`GatewayAssumption`):

- `TypesHold`, `DialIsShared`, `CallsCleanUp`: types; one shared dial; exactly the
  teardowns that are needed, and no stream left open.

`OneSharedDial` is inductive once `close()` is known to doom dials that were started
(`DoomedStarted`). Teardowns need `UsesLanded`: a call past `#connection` is on a
connection that came up, so that a dial which lands starts with no call and no
teardown; `StreamsOpened` does the same for streams. `EndsOK` and `MovesOK` treat the
ways a call ends, or goes on, once for all actions.

`TorClientProofs`, on `SocketProvider`, for any finite set of gateways in any shuffle, any
finite set of callers, any cooldowns (`ProviderAssumption`, `FailureCapAssumption`):

- `TypesHold`, `SelectionIsSound`, `EveryGatewayTried`: types (no load is negative, no
  cooldown above its ceiling); a new operation picks by exact loads from a list that has
  the promised order; no operation fails before it has tried every gateway once.

The list is defined by `CHOOSE`, so the first thing to prove is that a sorted sequence
exists: a smallest set of gateways that has none would not be empty, would have a
first element and, without it, a sorted sequence to put that element in front of
(`Smallest`, `FirstExists`, `SortExists`). `ReadyShape`, `FrontShape` and `CoolShape`
say what each part of the list is, `CandidatesPermute` that the whole is every gateway
once, `FrontIsFirst` that the front is the first two by shuffle, counted as the
property counts them. Loads are followed per operation: `OneMoves` says what one
operation that leaves or enters a gateway does to the number of its carriers. The
walk needs `NoneTwice`, or a gateway could be relieved twice.

`TorClientProofs`, on `ClientLifecycle`, for any clients and callers and any finite set
of log levels (`LifecycleAssumption`):

- `LifeTypesHold`, `ListenersGetTheirs`: types; each listener gets what it asked for.
- `CloseLetsGo`: what `close()` lets go of stays gone, but for clients closed too early.
- `WaitersRemembered`: nobody waits for a `readyPromise` that was cleared.

The last three are the safety parts of `ClosedIsReleased` and `EverySettles`. For the
filter it is enough that it is nowhere above a listener's level (`FilterLow`), which the
load of the WASM module keeps as well. `CloseLetsGo` is not inductive alone: a client
that is closed without a provider would get one. `Owned` adds that listener and provider
come in the step after the load or never, so that a client closed before it is `late`.

`ClientStorageProofs`, on `StorageLock`, for any finite set of clients, any staleness,
batches and deaths (`LockAssumption`):

- `LockTypesHold`, `Ownership`: types (a running client has the lock or an overlay,
  never both); two owners only after a takeover of a lock file.
- `WebLockOwnership`: with a Web Lock, two owners never.

The lock itself is recorded in one place and the flags of the client in others;
`HoldersHold` ties them until a takeover, `TriesBare` says that a client between its two
attempts has nothing, `WebLockStays` that the browser form never reaches the stages of
a stale file.

`ClientStorageProofs`, on `FastBootstrap`, for any keys, any archives and any number of
starts, writes and failures (`BackendAssumption`, `BootAssumption`):

- `BootTypesHold`, `WriteBackIsComplete`: types; when the writes are done, the storage
  is the cache, up to the exceptions of the code.
- `SkippedIsWhole`: a start that skips the archive has all that was stored of it.
- `ReaderIsSound`: the reader never leaves the bytes it got and returns whole members.

`WriteBackConverges` and `SkipMeansWhole` speak of a queue that is empty or of a cache
read long after the write. Inductive is where a key is *going* (`EndsIn`): the writes of
it that are queued, or come later in a task, end with a given value, and where there are
none the stored one is it. `Converging` says so of the cache's value and every key that
is not excused, `Kept` of a value that is there and every key that is not `lost`. Three
lemmas follow a key through the queue: a write that settles does not change where its
key is going (`SettleKeepsEnd`); a new task leaves the other keys alone
(`OthersKeepEnd`) and sends its own keys to its values (`WritesSetEnd`). `SpawnedTypes`,
`SpawnedConverges` and `SpawnedKeeps` say what a task does to each part, once for
`Populates`, `Digested` and `ArtiWrites`. On an ordered back end only the last write of
a key decides; on files each one that is under way may, so that a key written again
meanwhile is excused, and one that an older deletion may still remove is lost.

The reader is two recursions, where a member starts (`StartOf`) and the walk over the
headers (`Visit`). That each satisfies its recursion is proved by building a solution one
place at a time (`SolutionExists`, `StartExists`). Then the walk of an honest archive
visits exactly the starts of its members, as far as the bytes go (`WalkIsWhole`).

`ClientStreamProofs`, on `JsProxyStream`, for any peer that sends any chunks and ends or
resets, any writes of arti, any sizes of its buffers (`StreamAssumption`):

- `PipesAreFaithful`: `StreamSpec => ReadPipe!Spec` and `StreamSpec => WritePipe!Spec`.
- `StreamTypesHold`, `LossIsReported`, `SocketsEnd`: types; no success over lost bytes;
  no socket without its stream, but for the one after a given-up connect and one that
  `wrap()` refuses.

`ReadSide` cuts what the peer sent into what was read, what `poll_read` left over, the
chunk at hand and the chunks to come; every step moves a cut. `WriteSide` says that
until a failure arti's bytes are the socket's and the chunk under way, and that a
failure means a socket that is broken for good, so that nothing more is accepted after
it. The chunks to come are flattened by a recursive function of the library; that it
satisfies its recursion is proved first (`PartialExists`, `FlattenIsPartial`,
`FlattenStep`), by induction on sets of numbers (`Induct`), which needs no theorem with
an operator for a parameter.

`ClientStreamProofs`, on `HttpFetch`, for any calls and peers, any size of a read and of
a head (`HeadsAssumption`, `FetchAssumption`, which keeps the size of an uploaded chunk
to one digit, as the model writes it):

- `TypesHold`, `BodyIsDelivered`: types; what is yielded is a prefix of the body that
  the bytes mean, however reads cut them.
- `EndIsHonest`: a body that ends was whole and is given whole, but for a reset taken for
  the end; an answer that is whole does not fail, but for the two kinds the code refuses.
- `AbortIsHeeded`: after an abort at most the chunk being read comes through; a fetch
  aborted before it connects never does, one aborted before its request never sends it.
- `UploadIsHonest`: a request that reads as complete has the caller's whole body.

The properties compare the client with `HttpMessages`, which reads a message whole. The
invariants are about what is left: `Typed` that the reader is at a place it can be in,
`Answering` that the bytes not yet decoded, read whole from that place, give exactly
what is still to be yielded, `Written` that what was sent so far, with what is queued,
decodes to what the caller gave. One lemma per place of the chunk decoder (`AtSizeLine`,
`InChunkTaken`, `AtChunkEnd`) says how the whole reading moves on when the client moves;
`FinalStep` does the same for interim heads, `FrameRead` and `WireCarries` for the frames
of an upload. Whole readings go from each place to a later one; `OneSolution` proves once,
by induction backward, that such a recursion has exactly one solution.

Two components share a module where they need the same facts: about recursion and
flattened sequences in the last two, about least numbers in `TorClientProofs`. `Induct`
and what it says of `FlattenSeq` stand in both of the former, so that each is read alone.

The inductive invariants of all modules were checked with TLC on the instances of the
runs before they were proved. With a guard, a reset or a release dropped from the model
the proofs of the corresponding lemma fail.

Two attempts failed for a good reason, and TLC showed the state once the instance had
it. `EndsHonest` excepted answers by their first separator; an interim head followed by
a final one that is too long violates that, and `LongHead` now says what the code bounds.
`SkipMeansWhole` is violated with a third start, when an older client's deletion settles
after the archive's write of the same key, as files allow; `Undone` now excepts it. Both
instances grew to have these cases.

Some definitions were changed to be reasoned about, none in what it describes:
`StableSort` and the filtered list of ready gateways of `SocketProvider` (the library's
sorting and selection are opaque to the prover), `StartOf` and the walk of `StoredZip`
and the decoders of `HttpMessages` (recursive functions), and `TypeOK` of
`ConnectExchange`, `SocketProvider`, `JsProxyStream` and `ClientLifecycle`, which now
covers every variable. `StreamAssumption` names the bytes (`Byte`). The definitions of
`StorageLock`, `JsProxyStream` and `ClientLifecycle` have names of their own (`LockSpec`,
`StreamSpec`, `LifeSpec`), so that a module can be about two components.

Only model-checked: liveness, which is beyond TLAPS (`EveryTunnelEnds`, `HeadIsDeadlined`, `DeathEndsCalls`, `PollGetsItsTurn`, `Converges`,
`CatchesUp`, `LockReturns`, `FetchSettles`, `ReadsEnd`, and what is eventual in
`ClosedIsReleased` and `EverySettles`). Every invariant and every other action property
that a run checks is a theorem.

## 6. Not modelled

arti itself, KPS and the JavaScript host are environment. Parsing, encoding and
formatting are left out where no property is about them. Configuration, CLI, the
website, the build and the choice of a WASM source are sequential glue, as is
`/relay/random`. Storage back ends are key-value I/O; that files settle writes in
any order is in `CachedStorage`. In the modelled parts: `metadata.json` of the
gateway's data directory, microdescriptor batching, HTTP framing inside
`KpsGateway`, the stubs, timers and TLS connector of the WASM runtime.

Hazards beyond those in `PROJECT.json`. Covered by the property in brackets:

- `tunnel.rs:365` bytes read ahead of the upgrade (`RelayFaithful`);
- `kpsGateway.ts:133`, `:220` reads that never settle, a death in a body
  (`DeathEndsCalls`); `:167` a dial that never settles (`HeadIsDeadlined`);
- `socketProvider.ts:277` fewer than two gateways ready (`SelectionSound`);
- `keccak_mirror.rs:346` a tree that is old when it prunes (`PublishedStays`); `:286`
  a refused trigger charges the window (`TriggersThrottled`); `:252` a sync with
  failed objects waits the full interval (`Converges`);
- `sync.rs:237` a digest that is older than the archive, `:143` the order of
  allowlist and files (`AllowlistCovers`); `consensus.rs:145` lagging directories
  (`NoRollback`); `main.rs:364` the loop after an error or a 304 (`CatchesUp`);
- `routes.rs:245` the fallback writes the etag over a newer one (`ServedTagFits`: the
  tag it leaves is older or cut short, which costs a 304 that was due);
- `storage.rs:226` lock, unlock, lock (`ExclusiveUntilTakeover`); `:304` a kill in a
  batch, `fast_bootstrap.rs:63` any stored consensus counts, `:172` an archive cut
  between members (`SkipMeansWhole`, `ParseSound`);
- `fetch.rs:211` a reset taken for the end (`EndsHonest`); `runtime.rs:467` a failed
  close that succeeds when polled again (`FailureReported`);
- `TorClient.ts:105` `closed` is looked at before two awaits, `wasm.ts:107` a rejected
  initialisation is kept (`EverySettles`); `wasm.ts:52` one filter for all listeners,
  `singleton.ts:27` a new client while the old one closes (`ClosedIsReleased`).

Known and not covered:

- `lib.rs:482`, `kpsGateway.ts:229`: nothing ends a fetch to a server that says nothing,
  nor an archive whose body does not come: `fetch()`, `ready()` and `create()` then wait
  for ever, on an open client too, and so does whoever awaits them (`Pending`, the
  exception of `EverySettles`).
- `storage.rs:226`: a start-up that fails between its two locks may leave the storage
  locked, with nobody to unlock it (`Stuck`); the property of a closed client speaks of
  locks its own storage holds.
- `lib.rs:563`: a header name or value that the platform's `Headers` refuses rejects the
  fetch after the answer; `HttpFetch` has answers without one.
- `filesystem.ts:129`: two writes of one file at once may leave a mixture of both;
  `CachedStorage` has one of the two, or a part of one when it fails or is cut off.
- `runtime.rs:572`: a socket without streams is refused and left open (`SocketReleased`
  excepts it, and a socket that opens after arti gave up).
- `tunnel.rs:217`: the switch of the tests for local targets is off in the model.
- `keccak_mirror.rs:347`: a rotten file counts as present and is never replaced.
- `main.rs:185`: after a restart the allowlist has the IPv4 addresses of the published
  relays only, or none if the file could not be read, until the next verification
  replaces it: up to then the gateway refuses relays of the archive it serves
  (`AllowlistCovers` excepts this, and nothing else).
- `consensus.rs:157`, `:106`, `sync.rs:53`: a text is stored before it is verified. One
  with a fresh-until to come is not fetched again, only verified in vain every minute,
  and one with a valid-after to come makes every real answer count as older: the gateway
  stops following the network until it is restarted (`Poisoned`, the exception of
  `CatchesUp`).
- `consensus.rs:46`: a start that cannot read the consensus file has an empty store, and
  then takes an older consensus from a lagging directory (`forgot`, the exception of
  `NoRollback`).
- `main.rs:318`: with `--no-mirror` the listener starts before syncs are disabled.
- `sync.rs:188`: an archive made without a failed batch is not made again; its
  completeness is promised nowhere.
- `locking.ts:192`: see 8 above; `:123`: an unlink error leaves the flags set;
  `storage.rs:249`: a client without the lock reads the store once.
- `tunnel.rs:283`: a failed upgrade ends the TCP side with a FIN, not a reset.
- `kpsGateway.ts:226`, `:270`: the write of a request is awaited without the signal, so
  a stream that takes no bytes holds the call past its deadline; `:37`: a deadline
  during that write leaves a promise without a handler; `:283`: see 4 above; `socketProvider.ts:370`: such a connect
  keeps its load; `:401`: a 503 counts as a success of its gateway; `:298`: jitter
  and rounding of the cooldown.

## 7. Plan

Done, in this order: `TunnelTracker` with its proofs, `ConnectExchange`,
`KpsGateway`, `SocketProvider`, `KeccakMirror` with its proofs, `ConsensusSync`,
`StorageLock`; then `HttpFetch`, `JsProxyStream`, `CachedStorage` with
`FastBootstrap`, `ClientLifecycle`, `BootstrapRoute` and `ConsensusSyncProofs`; then
the proofs of `ConnectExchange`, `KpsGateway`, `SocketProvider`, `StorageLock` and
`JsProxyStream`; then those of `HttpFetch`, `FastBootstrap` and `ClientLifecycle`.

Next:

1. An abstract gateway connection that `KpsGateway` implements and
   `SocketProvider` uses.
2. `StorageLock` over `CachedStorage`, so that the divergence 8 is seen in the
   values of keys.
3. Theorems about the abstract connection of 1, once it is there, and about the order
   in which `ClientLifecycle` takes the lock of `StorageLock`.
