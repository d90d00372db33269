# A verification project for llmman

llmman serves language models: a daemon (`llmman serve`) answers the Ollama,
OpenAI and Anthropic APIs and starts one backend process per loaded model
(`llama-server`, vLLM, ...); a command line pulls, lists and removes models in a
content-addressed store.  What is hard about it is not the translation of
requests but the coordination: requests that load, share, evict and retire
models concurrently, may be cancelled at any await, and give what they own back
through tasks that run later; and processes that write, read and sweep one store
without a common lock.

The modules here model that coordination from the source under `src/`, TLC
checks them on small instances, and TLAPS proves theorems for every instance.

## Inventory

| component | state | operations | what is hard | what makes it correct |
|---|---|---|---|---|
| model scheduler (`src/cmd/serve.rs`, `serve/sched.rs`) | `ModelManager` (`running`, `pending_loads`), `in_flight` and the retire mark of each model, `LOAD_LOCKS`, `PENDING_REQUESTS`, guards owned by tasks | `resolve_target`, `unload_model`, `reap_idle_models`, guards' drops | cancellation at any await, drops that spawn tasks, eviction while a process stops, out-of-memory retries | one load per identity at a time, the cap holds, nothing reserved or claimed is lost or given back twice, a served request keeps its backend |
| load identity (`load_identity`, `canonical_ref`) | reads the store | name to lock key, name to running key | the store changes during a load | one content, one lock |
| keyed locks (`keyed_lock`, `release_keyed_lock`) | registry of mutexes with reference counts | get or create, drop when last | removal against creation | two holders of a key never hold two mutexes |
| blob store (`storage/oci.rs`, `storage/gc.rs`, `storage/repair.rs`, `hf/oci.rs`, `hf/pull.rs`, `cmd/rm.rs`) | blobs, tag pointers, temporary files, modification times | pull, remove, sweep, repair, list | several processes, no lock, a grace period | a tag never names a missing blob |
| keep_alive | `last_active`, `keep_alive` of each model | claims, guards' drops, the reaper | overrides applied late | a model outlives its last request by its keep_alive |
| aggregation (`serve/aggregation.rs`) | the peers | poll, place, forward, unload | stale polls, slow peers | one hop at most, an answer from some node |
| hybrid pairs (`hybrid.rs`, `serve/hybrid.rs`) | none of its own: the pin, the budget | choose a half, retry on the other | composed with the aggregation and with a refusal | a pin is obeyed |
| lazy runtime (`serve/runtime.rs`) | the resolution, a mutex | resolve, resolve again | failures, cancelled loads, a binary removed | failures are not kept, no load gets a dead path |
| provider catalog (`providers.rs`) | the catalog, its age, `CATALOG`, the download gate, a cache file | catalog, listing, background refresh | refreshes in the background, two locks | one download at a time, no catalog lost |
| download marker, daemon start (`llama_release.rs`, `daemon.rs`) | a marker file, the port, processes | fetch, poll, replace a stale daemon | several processes and clocks, stale probes | a live fetch is not killed, a lost race for the port fails nobody, a client returns |
| transfer shim (`go-shim/`) | fetches under way, `.part` files, progress, bars | deduplicated, resumed fetch | shared failure, cancellation, restarts | each pull credited once, no tag over a missing layer, a pull returns |
| reply streams (`serve/{stream,messages,responses,ollama,gemini,anthropic}.rs`) | the state machine of each translator | one line of a stream | any order of text, reasoning, refusals and calls; a stream that just ends | events that make sense, nothing lost, an end reported as what it was |
| request translation, apps, launchers, inference code, logs | - | - | data mapping and I/O | not modelled: see below |

How they meet: a request reaches an API surface, which calls `ensure_model_for`
-> `resolve_target`.  A hybrid pair is first reduced to one half; a provider's
model and one that a peer should serve return at once; everything else goes
through the scheduler, which calls the store (the pull, the digest), the lazy
runtime (which binary) and the backend (spawn, poll). What `resolve_target`
hands back, a port and an `ActivityGuard`, lives in the response stream, through
whichever translator the API needs, until the last byte.

## Modules

| module | what it is |
|---|---|
| `Scheduler` | the scheduler: one action per step a task takes between two awaits |
| `Slots` | what `LLMMAN_MAX_LOADED_MODELS` promises, in five actions |
| `SchedulerProofs` | types, mutual exclusion of loads, slots, capacity, queue, for every instance; `Scheduler` implements `Slots`, which keeps its cap; claims, one backend per content, nothing replaced |
| `KeyedLock` | a registry of keyed locks, by clones of its mutexes |
| `LockMap` | what such a registry promises: one lock per key |
| `KeyedLockProofs` | the registry implements `LockMap` |
| `LoadIdentity` | locks and running keys over a store that changes; holds two `KeyedLock`s |
| `LoadIdentityProofs` | what its two registries and its loads keep, for every instance |
| `BlobStore` | the store on disk: pulls, copies, removals and sweeps of several processes |
| `Routing` | which half of a pair, on which node, and the retry |
| `Startup` | clients that start, wait for and replace daemons; the download marker |
| `LayerFetch` | pulls that share fetches, resume them, and wait for their bars |
| `LazyRuntime` | the shared resolution of the runtime |
| `NodeProofs` | which node, side and binary serve a request, what tags and sweeps keep: theorems about `Routing`, `LazyRuntime` and `BlobStore` |
| `Catalog` | the memoized provider catalog and its two locks |
| `DownloadProofs` | what is fetched and who waits for it: theorems about `Catalog`, `LayerFetch` and `Startup` |
| `ChatStream` | the lines of a chat completion, input of every translator |
| `MessagesStream`, `ResponsesStream`, `OllamaStream`, `GeminiStream` | one translator each, as pure operators |
| `AnthropicStream` | the translator in the other direction, of a hosted provider's reply |
| `Streams` | one reply through all of them, and the clients that read the events |
| `Fold`, `FoldProofs` | a sequence taken element by element, and what that computes |
| `ConverterProofs` | what one line does to each converter and its client |
| `StreamsProofs` | theorems about `Streams`, for replies of any length |
| `MCScheduler`, `MCBlobStore`, `MCLoadIdentity`, `MCRouting`, `MCLayerFetch`, `MCStreams` | small instances for TLC |
| `MCParts` | six parts that do not interact, side by side in one run |

`LoadIdentity` composes the keyed locks (twice: `LOAD_LOCKS`, `MODEL_LOCKS`)
with loads, unloads, pulls, copies and removals; `Streams` composes six
translators; `Routing` composes the pair with the aggregation.  `Scheduler` and
`BlobStore` meet at two points only: `Pull` of the scheduler is a whole pull of
the store, and what it leaves is a tag.  They are not composed: neither reads
the other's state, and the scheduler's `Pull` may fail or succeed at any time,
which covers whatever the store does.

### Scheduler

The granularity is that of the runtime: a task runs from one await to the next
without losing the `ModelManager` mutex, so each action is one locked section
with the code around it, and `pc` is the await a request is suspended at.

| code | model |
|---|---|
| `running: HashMap<String, RunningModel>` | `running[k]`, a backend or `None`; a key is a stored spelling |
| `RunningModel.in_flight`, `.context_window`, `.retiring` | `inFlight[b]`, `window[b]`, `Retiring(b)` (some request's `mark` is on `b`) |
| `ModelProcess` | `proc[b]`: starting, ready, crashed, stopping; a process nobody owns any more is `none` and its name is free again |
| `pending_loads`, `PENDING_REQUESTS`, `LOAD_LOCKS` | `pendingLoads`, `pendingRequests`, `loadLock` |
| `LoadLockGuard`, `QueueGuard` | released by `Leave`, at once |
| `PendingLoadGuard` | owned at the program points `Reserved`; its Drop moves the request to `releasing`, where the spawned task decrements |
| `ActivityGuard` | `guardKey[r]`: a key, not a backend, as in the code; its Drop is `dropping`, and `ReleaseClaim` is the spawned task |
| a future dropped by a disconnect | `Disconnect`: `Abandon` at any await of the load |

`FastPath`, `TryAdmit`, `AcquireLoadLock`, `Recheck`, `Pull`, `Rejoin`,
`CheckRunningByDigest`, `Plan`, `RetireForContext`, `ReserveSlot`,
`EvictForSlot`, `RejectBusy`, `Stopped`, `Spawn`, `WaitForReady`, `EvictOthers`,
`ReduceAndRetry` and `Insert` are `resolve_target` from top to bottom;
`UnloadLock`, `UnloadByKey`, `UnloadByDigest` are `unload_model`;
`ReapIdleModels` is a pass of the reaper.  `using` is history: the backend a
request was handed, so that losing it can be seen.

Left open or abstracted: which idle model is evicted (the code takes the least
recently active one), when a keep_alive has passed, what a window is in tokens
(levels that a retry lowers, `MaxShrinks` times), which engine runs (every
backend behaves as `llama-server`, the engine with `num_ctx` and the
out-of-memory retries; an explicit `LLMMAN_CONTEXT_LENGTH` is a load that does
not shrink, as with `num_ctx`).  A process that is dropped without being waited
for counts as gone.  A pull on a blocking thread goes on after its request has
been dropped; what it writes is the store's business.  A reference keeps its
running key during its load (that it may change with the pull is the subject of
`LoadIdentity`), and one content has one load lock (`IdentityAssumption`, which
only the sharing theorems use; `LoadIdentity` says how far the code keeps it).
Providers, peers and hybrid pairs leave `resolve_target` before anything
modelled here (`Routing`).

### BlobStore

Here the granularity is that of the file system: each action reads or writes one
file, because the processes share no lock (the daemon's `MODEL_LOCKS` order its
own pulls of one reference, nothing else).

| code | model |
|---|---|
| files in `blobs/sha256`, written under a temporary name and renamed | `present` |
| their modification times | `age`, in ticks up to `Grace` (`GC_GRACE_PERIOD`) |
| pointers under `manifests-v2` | `tag` |
| `pull_serialized` and `hf::pull::pull`, `llmman resolve` | `FindPresent`, `FindMissing`, `ReportCached`, `FetchModelInfo`, `DownloadLayer`, `WriteConfig`, `WriteManifest`, `WriteManifestRef`, `Fail`, `Return` |
| `cp::copy`, `/api/copy` | `CopyFind`, then `WriteManifestRef` |
| `/api/delete`, `reject_stored` | `Delete` |
| `llmman rm` | `Remove` for each reference, then `StartSweep` |
| `referenced_digests` | `ReadRef` for each pointer, then `ReadManifest` for each manifest |
| `prune_blobs_with_account` | `Condemn` (the file's age is looked at) and `Prune` (it is deleted) |
| the start of the daemon | `Start` (it sweeps), `Listen` |

`writer[w].raced`, `writer[w].stale`, `sweep[s].fresh` and `exposed` are history
and guard nothing.  `exposed` holds the tags written in a race with a sweep:
while one was under way, or after one that began or ran since the writer began,
when the writer relies on a blob it found, on one older than the grace period,
or on one that a sweep had found old before it was written anew.  The last case
needs two sweeps: both look at one old file, the first deletes it, a pull writes
it again, the second deletes the new one.

Left out: temporary files and their repair, sizes (a blob is complete or
absent), the cache of extracted models, legacy pointers (which are only read),
signature policies (a refused pull is `Delete`), and the time between the last
byte of a download and its rename.  Pulls by the Go shim and by object-store
sources write blobs and tag in the same order but are not modelled line by line.

### KeyedLock and LoadIdentity

A registry entry is an `Arc<Mutex>`; the model counts its clones.  `Clone` is
`keyed_lock`, `Release` is `release_keyed_lock` (both under the registry's own
mutex), `GiveUp` a dropped waiter, which gives up its clone and calls nothing,
so that an entry may stay behind.  `ImplementsLockMap` maps the holder of a
key's mutex to `owner`.

| code | model (`LoadIdentity`) |
|---|---|
| tags and digest spellings of one repository | `Names`; the store maps them to contents, and a digest to itself |
| `canonical_ref`, `load_identity`, `stored_tag_for_digest` | `CanonicalRef`, `Identity`, `StoredTag`, read when the code reads them |
| the load from lookup to registration | `FastPath`, `AcquireLoadLock`, `Recheck`, `Pulled`, `Rejoin`, `CheckRunningByDigest`, `Insert`, `Leave` |
| `unload_model` | `LockUnload`, `RemoveByKey`, `RemoveByDigest` |
| `pull_serialized`, which goes on when its caller is dropped | `PullQueue`, `PullEnter`, `PullLand`, `PullFail`, `PullLeave` |
| `/api/copy`, `evict_if_retagged` | `Copy`, `EvictIfRetagged`, two steps, no lock |
| rm by another process; the end of a server | `Remove`, `Exit` |

A server records the content it serves and the lock its load held:
`OneServerPerLock` then says that two servers of one content, if there are, were
loaded under different locks.

### Routing

`Side` is the decision table of `hybrid::route`, `ResolveSide` the function that
applies it (the pin, then the budget of the local half), `ArriveAt` the entry of
a request at a node, `LookHere` and `PeersHere` the check of the node's own
models and the poll of its peers, `PollAnswer` one answer or silence, `Place`
and `Rank` the choice (over positions in `Order`, the list of `llmman.conf` with
this node first: of those where the model is loaded, else of those that rank
best, the first), `Route` and `Forwarded` the hop, `LoadHere` the local
load (which may be refused as over the context), and `Refused` the retry on the
hosted half. `OtherRequests` loads, evicts and removes the model on any node
between any two of these.  A pin does not travel with a hop: what is forwarded
is the local half's own reference, so there is nothing left to pin.

### Startup

A client is the sequence of `ensure_server`: `Probe`, `Identify`, `Term`,
`WaitForPortFree`, `Kill`, `Spawn`, `Poll`, `Look` (the marker), `Confirm`,
`Lost` (the port went to another daemon), `LastExit`, `LastFetch` and `Stop`
(the last looks before it gives up).  A probe's answer is kept and used later,
when it may be stale.  A daemon fetches or not, beats on the marker, binds or
finds the port taken, and may crash.  A tick is one marker heartbeat (15 s);
`Credible` is the staleness limit and `Budget` the startup budget.

### LayerFetch

A pull has a task for each of its layers: `Launch` (the semaphore), `Do` (the
blob is there, a fetch of it is under way, or this task leads one), `Fetch` (on
from what a `.part` file holds), `Copy`, `Break`, `Verify`; `GroupWait` is the
error group, which cancels the other tasks of a failed pull, and `ProgressWait`
is `mpb`'s `Wait`.  `Restart` kills the daemon and keeps the files.

### LazyRuntime and Catalog

`AskRuntime`, `LockToResolve`, `Resolve` are `Lazy::resolve` (a look, the mutex,
the resolution on a blocking thread); `CheckBinary`, `LockToRecheck`,
`ResolveAgain` are `local_llama_server_bin`.  `Cancel` drops a load at any of
its awaits, and `OrphanEnds` is the end of the resolution it left on its thread.

In `Catalog`, `Serve` is a request answered from memory (and, when expired, the
start of a refresh), `LoadInline` the first load, under `CATALOG`; `TakeTurn`,
`Load`, `Download`, `WriteCache`, `Store` and `FallBack` are a load under the
gate's turn, whether by the refresher or by a listing that misses a model.  The
file may be unwritable, and other processes (`llmman launch`) download and write
too: `world` says which.

### Streams

A line of a chat completion carries text, reasoning, a refusal, a tool call
(whole or in two halves), an error, a finish reason, or is the sentinel;
`Backend` sends any sequence of them, and `Provider` the Anthropic events that
become such lines.  `Feed` gives the same lines to every translator (`Relay`).  A client of
each surface (`ReadMessages`, `ReadResponses`, ...) then checks the events it is
sent as a parser would: indices, open and closed blocks, ends.  Text is counted
in fragments.  Left out: raw `<think>` and harmony tags once the prefix is
decided, identifiers, usage, the legacy `function_call`.

## Runs

| run | bounds | what it shows |
|---|---|---|
| `SchedulerFaults` | 3 requests, 1 unload, 3 models, one of them under two names, cap 2, queue 2, everything may fail | `LoadsExclude`, `CapacityRespected`, `ReservationsCovered`, `QueueAccounted`, `ClaimsNotLeaked`, `OneBackendPerContent`, `NeverReplaced`, and every step implements `Slots` |
| `SchedulerCalm` | 3 requests, 3 models, two windows, cap 2, out-of-memory failures with every retry, no crash, unload or disconnect | `ReservationsExact`, `NeverReplaced`, `ServedUntilDone`: eviction, retirement and the reaper never take a backend from a request |
| `SchedulerLive` | 3 requests, 2 models, two windows, cap 1, out-of-memory failures, crashes, fair | `RetirementEnds`, `CapacityWaitEnds` |
| `SchedulerStaleClaim` | 3 requests, 1 unload, 2 models, cap 1 | `ServedUntilDone` fails: see Findings |
| `SchedulerLostReservation` | 3 requests that may disconnect, 2 models, cap 1 | `ReservationsExact` fails: see Findings |
| `BlobStoreSweeps` | a task of the daemon, a command, an rm and the daemon's start; 2 tags, one manifest of three blobs, a grace period of one tick | `OnlyRacesBreakTags`, `SweepSparesTags` |
| `BlobStoreOldBlob` | a task, an rm and the daemon's start, 1 tag | `PullsKeepBlobs` fails: see Findings |
| `BlobStoreRepull` | the same | `RepullRepairs` fails: see Findings |
| `LoadIdentity` | 2 tasks, 2 tags of one content and its digest, 2 mutexes per registry | `OneMutexPerKey`, `LoadLocksExclude` (the registry implements `LockMap` under real use), `OneServerPerLock`, `PullsOnce` |
| `Parts` | six parts, one of which runs in a behaviour; see below | the properties of `Startup`, `Streams`, `LayerFetch`, `Catalog`, `LazyRuntime` and `Routing` |
| `StreamsReasonedLate` | 3 lines of a backend, 3 blocks of a provider | `ItemsOwnTheirIndex` fails: see Findings |
| `LayerFetchHang` | 2 pulls sharing a layer, no restart, fair | `PullsReturn` fails: see Findings |

Why these bounds are enough.  Three requests are a holder, a waiter and one who
interferes: with three, a load can wait for a lock another holds while a third
takes slots.  A cap of two under three models makes the third load evict while
another waits for the same slot, and leaves an idle model for an out-of-memory
retry to evict; a cap of one makes every load evict.  A queue of two under three
requests makes admission fail.  Six backends are more than three requests and
two slots can use at once (`Spawn` takes the first unused name, and is never
stopped by the bound), so the number of processes over time is not bounded.
Clients are symmetric, and so are the two models that only differ in name, and
the references of the store; the run with liveness does not use symmetry. In the
store, two sweeps (of rm and of the daemon) and two writers are the fewest that
let every exception in `exposed` happen, and one tick is enough to tell young
from old.  Two tags on one manifest share all their blobs, which is what
removing one and keeping the other is about; that nothing depends on there being
one manifest is what the theorems show. In `LoadIdentity`, two tasks are a load
and whatever undoes it (another load, an unload, a pull, a copy), and a dropped
load's pull runs on beside both; two tags on one content, with its digest, give
every way two names can meet.  Two mutexes suffice for two tasks, and are
reused.

`Parts` runs six parts that share no state, as alternatives: `part` is chosen
first and never changes, so that its state space is their sum, not their
product.

| part | bounds | what happens within them |
|---|---|---|
| `Startup` | 2 clients, a stale daemon and two new ones; `Budget` 3 ticks and `Credible` 2 for the code's 60 s of each, with a heartbeat of 15 s; one fetch per daemon (see below) | both replace the stale daemon at once, both spawn, one loses the port, a fetch outlives the budget, another fetch's end takes the marker away, a fetch dies and leaves it |
| `Streams` | 3 lines after the first, 3 blocks of 2 deltas | text, reasoning and a call in every order, resumed, cut off at each line |
| `LayerFetch` | 3 pulls, 2 layers (one shared), a layout of its own for a signature check, one fetch at a time, 1 restart | a joined fetch, a broken one, a resumed one, a cancelled pull whose fetch is joined |
| `Catalog` | 2 callers and the refresher, two versions, Retry 1 < Cooldown 2 < Ttl 3 ticks | both locks held at once, a refresh queued behind a listing, failures of the net and of the file, an older file of another process |
| `LazyRuntime` | 2 loads, 2 binaries or a container | the binary goes before, during and after a resolution; a load cancelled in one |
| `Routing` | 2 nodes that list each other, room 1 to 3 for a weight of 2, known or unknown | too little, enough and more room; a poll made stale in every way; silent peers; a refusal and its retry |

`FetchSpared` is a claim about that one fetch per daemon. The code accepts that
the first of two fetches to end takes the marker away until the other's next
heartbeat, "well inside the client's idle budget" (`llama_release.rs:624`); but
a daemon may fetch several times before it binds, and with `MaxFetches = 2` TLC
finds the fault: one daemon's two fetches each end just after the other's
heartbeat, a client looks in both gaps and in no other moment, and stops a fetch
that never paused.  It takes four coincidences within one budget, so the run
checks, and the property states, what one such end can do.

Deadlock is checked in every run except `Parts`, `StreamsReasonedLate` and
`LayerFetchHang`, whose parts end: a client returns, a stream is over, a pull is
done.  There `CallsAdvance`, `ClientsReturn` and `PullsReturn` say what may not
stop early.

Fairness (`FairSpec`), and why the code justifies it: a task that can run is
polled by tokio (weak fairness of each step of a load, of the tasks that Drop
spawns, and of a response, which ends); `stop_and_wait` and `wait_for_ready`
have timeouts; tokio's mutex is FIFO, so a waiter for a load lock gets it
although others come and go (strong fairness of `AcquireLoadLock`).  Nothing is
assumed of clients, of the reaper's finding anything expired, or of crashes. The
liveness run leaves out disconnects (the slot a disconnect loses, finding 2,
stops every later load) and unloads.

`StartupFairness`: time passes, a client that can take a step does
(`ensure_server` is a loop with sleeps), and a new daemon's fetch ends, well or
not (or its process dies).  That a daemon binds, that one asked to stop does,
and that a fetch is short are not assumed: `ClientsReturn` holds because of the
budgets alone.  `LayerFairness`: the tasks of a pull that began are run and a
fetch ends or breaks; nobody has to start one.  The other parts have safety
properties only.

## Findings

1. `SchedulerStaleClaim` (`serve/sched.rs:229`).  An `ActivityGuard` remembers a
   key.  Its Drop spawns a task that decrements whatever runs under that key
   when the task gets the lock.  TLC's behaviour: a request ends and its guard
   drops; before the task runs, the model is unloaded and another request loads
   it again; the task takes the new request's claim, the busy model counts as
   idle and is evicted.  The guard's comment says eviction "will never touch
   this model" while a claim is outstanding.
2. `SchedulerLostReservation` (`serve.rs:1518`).  `enforce_max_loaded_models`
   counts the reservation, awaits the victim's `stop_and_wait`, and only then
   builds the guard that would give it back.  A client that disconnects at that
   await loses the slot for good: with `LLMMAN_MAX_LOADED_MODELS=1` every later
   load waits for ever.  `retire_for_context` builds its guard first.
3. `BlobStoreOldBlob` (`hf/pull.rs:426`).  A pull that finds a blob does not
   touch it.  If only removed models used the blob, it is older than the grace
   period, and a sweep that runs before the tag is written deletes it: the pull
   succeeds and its tag names a blob that is gone.  `storage/gc.rs` and
   `cmd/rm.rs` say the grace window protects a pull's blobs.  A copy races in
   the same way with the removal of its source.
4. `BlobStoreRepull` (`serve.rs:853`).  A pull answers with success when the tag
   is there, whatever became of its blobs, so the advice of `storage/repair.rs`,
   to re-pull a model that is missing some, does nothing.
5. `StreamsReasonedLate` (`serve/responses.rs:830`).  A backend that reasons
   again after its answer has begun, which the daemon itself asks Anthropic for,
   makes the Responses translator open a reasoning item at the index of the open
   message: two items share one `output_index`, and the message's later events
   go to an index that was never added.  `ResponsesWellFormed` holds of every
   other reply.
6. `LayerFetchHang` (`go-shim/backend_docker.go:893`).  A pull that joined
   another's fetch ends the bar it did not fill with `SetTotal(size, true)`,
   which does nothing for a bar made with a total, as the same file says at line
   431. The pull then waits for its bars for ever.

Met while modelling, and not given a run of their own:

* A copy onto a tag evicts what runs under it so that "the next request loads
  that content" (`serve/ollama.rs:922`).  `evict_if_retagged` takes no load
  lock: a load under way that read the old digest registers the old content
  after it.
* `load_identity` reads the store before the lock (`serve.rs:1024-1051`): when a
  pull by tag lands between two loads of one content, they take two locks, and
  two servers of it may run; `OneServerPerLock` is what remains true.
* A joined pull fails when the pull that leads the fetch is cancelled, and a
  layer that arrived before its turn is not credited (`go-shim/shared_oci.go`).
* Gemini's stream treats the sentinel alone as a normal stop, and goes on after
  an error in the stream; refusals are dropped on the Ollama and Gemini
  surfaces.
* A client that gives up says that the stale daemon still holds the port
  (`daemon.rs:442`), which is wrong when another client has replaced it; and the
  fallback of `kill_daemon` kills a bare pid, whoever has it by then.
* "a request never waits on models.dev once there is anything to serve"
  (`providers.rs:1022`): where the cache file cannot be written or is missing, a
  failed background refresh replaces an expired catalog by its error, and later
  requests wait. `CatalogKept` is about a file that can be written.  A refresh
  queued between a listing's record and its store repeats the download; another
  process may put an older catalog in the file.
* "One fetch at a time" (`serve/runtime.rs:118`): a load cancelled during its
  resolution releases the mutex while the download goes on, and the next load
  starts a second one.
* "Never a second copy" (`docs/aggregation.md:83`): two cold requests whose
  polls both come before either load make two.  A node of unknown memory ranks
  above a known one that the model does not fit on.  A pair whose local half a
  peer serves has no fallback on a refusal for context.

## Theorems

Those about the scheduler are proved for any finite set of requests and
references, any backends, limits and assignment of locks and contents, from the
named assumptions of `Scheduler` (types of the constants; actors and `None` are
distinct).  Only the two about sharing use `IdentityAssumption`.

* `TypeCorrect` (`SchedulerProofs`): `TypeInv`, which is `TypeOK` with the fact
  that a request that still has a claim knows on which key (without it
  `ReleaseClaim` could index outside of `running`); `TypesHold` is `TypeOK`
  alone.
* `LoadsExcluded`: a request between taking the load lock and leaving the load
  is the lock's owner (`LocksOwned`, the inductive invariant): locks change
  hands only while free, and `Leave` releases exactly the leaver's.
* `ReservationsAlwaysCovered` and `SchedulerImplementsSlots`: `pending_loads` is at least the number of requests
  entitled to a reservation.  That is what makes the saturating decrements
  exact, so a release is always a `Release` or a `Fill` of `Slots`; every step
  is shown to be a step of `Slots` or to leave it alone.
* `CapacityKept`: from the implementation and `SlotsBounded`, which shows once,
  about the five abstract actions, that the cap is inductive (`SlotsInv`).
* `QueueAlwaysAccounted`: every path out of a load passes `Leave`, whose
  decrement is guarded by what the request owns.
* `ClaimsNeverLeak` (`SchedulerProofs`).  A claim is counted on a backend
  and owed on a key, so the invariant is about ownership: a backend is in the
  map under one key, or held by one task, never both (`OwnedOnce`); what is
  owned is not forgotten, so its name is not given out again (`OwnedAlive`); and
  a request outside of `Claiming` has no guard (`GuardsOwned`).  `Handed` is the
  one lemma about all the ways a backend changes hands.
* `OneBackend` and `NothingReplaced`: where nobody asks for `num_ctx`
  (`PlainAsks`) and under `IdentityAssumption`, once a load has looked for its
  content under other names, nothing in the map has that content until it
  registers (`NothingLoaded`), because the load lock keeps every other load of
  it out (`LocksAlwaysOwned`) and only `Insert` makes an entry. Without
  `PlainAsks` `OneBackend` is false by design: a window that differs from a copy
  running under another name is loaded beside it.
* `NoneLostUncancelled` (`SchedulerProofs`), for `Impatient = {}`:
  `ReservationsExact`.  Each step keeps the reservation of its task, takes one
  with `pending_loads + 1` or gives one back with `- 1`; the one path that
  forgets a reservation starts at `stopVictim`, which only a disconnection
  leaves early.  That is the fault finding 2 needs, and the only one.
* `ServedWhereCalm` (`SchedulerProofs`), for `CalmInstance` (`Fragile`
  and `Unloads` empty, clients may disconnect and ask for windows):
  `ServedUntilDone`.  `CalmInv`: `in_flight` is exactly the guards of the key
  and a key without an entry has none (`ClaimsExact`), so an idle entry serves
  nobody; what is loaded is ready (`AllReady`), so no lookup drops it; a load
  past `Rejoin` has no fitting entry under its key and, from the slot on, none
  (`Fresh`), so `Insert` replaces nothing.  `Fresh` needs that a mark on an
  entry is that of the one load holding its lock (`MarksOwn`).  Every step but
  those of claims then only lets idle entries go (`StepEvicts`).  A backend that
  exits, or an unload, breaks `ClaimsExact`: that is finding 1.
* `RegistryKeepsMutex`, `RegistryExcludes`, `RegistryImplementsLockMap`
  (`KeyedLockProofs`), from `KeyedLockAssumption`: whoever holds or waits for a
  key does so at the mutex the registry has for it, because an entry is removed
  only when the registry's clone is the last.
* `IdentityTyped`, `RegistriesKeepMutexes`, `LoadsExclude`, `ServersNotDoubled`,
  `NamesPulledOnce` (`LoadIdentityProofs`), for any tasks, names, contents and
  mutexes, over a store that anybody changes at any time.  The invariant,
  `IdentityInv`, is `TypeOK` with three facts.  Each of the two registries is the
  one of `KeyedLock`, whose lemmas apply to its steps (`LocksFit`); what a task
  holds or waits for in a registry is what its program point says, and a pull
  that outlived its caller keeps the lock of its name (`TasksFit`); and
  `OneServerPerLock` itself: a load that has found no server of its lock since it
  took it is the only one that can add one.  `LoadsExclude` is a refinement: each
  step of a load or unload is a step of `LockMap` on `LOAD_LOCKS`, or none.
* `DownloadsExclude` (`DownloadProofs`).  `LockInv`: who downloads holds
  `CATALOG`, or the turn while there is a catalog; `CATALOG` is held across a
  step only while there is none, and the refresher runs only while there is one.
  So the two locks, never taken together by a downloader, still exclude each
  other.
* `CatalogsKept` (`DownloadProofs`), an action property.  `KeptInv` adds to
  `LockInv` that the file, where it can be written, has a catalog whenever memory
  does (`FileKept`), and none older while no other process writes (`FileNewest`,
  `OthersWrite`): so falling back to the file after a failed download loses
  nothing.
* `LayersHaveArrived` (`DownloadProofs`), for any pulls, manifests, layouts and
  restarts. `LayerInv`: whoever was told a layer is there has its blob
  (`ToldTrue`), because a result is shared by fetches of one layout only, a blob
  is only ever whole, and no step takes one away; and a pull that waits for its
  bars has no goroutine left (`Ended`).
* `CreditsKept` (`DownloadProofs`): `CreditedOnce`, which speaks of sums. The
  invariant counts instead: `completed` is the number of pieces in the stack of a
  pull's layers, each as high as its goroutine was credited, and `total` that of
  the layers it listed (`Completed`, `Totalled`); no goroutine has more pieces
  than its layer, and none has any before its copy began (`GoroutinesFit`), nor a
  `.part` file (`PartsFit`).  A fetch's end then adds a whole layer to each pull
  that joined it, which had none of it, and nothing to its own.  That the fold in
  `SumOver` is the number of pieces is `SumCountsPieces`: the recursion is
  unfolded by a least counterexample among the finite sets of layers
  (`SumUnfolds`), for which the library's well-foundedness theorem is enough.
* `StartupTyped`, `RacesAreServed` (`DownloadProofs`), for any clients and
  daemons. `StartupInv`: nothing else is started while the stale daemon holds the
  port (`StaleFirst`); while nothing died by mishap, a daemon that is gone lost
  the port to one that still serves (`LostToServer`); and what a client has seen
  of the processes stays true (`ClientsFit`), so that a client whose child is
  gone finds the winner when it looks for it.
* `PinsHold` (`NodeProofs`), for any nodes, peers, rooms and sizes: until it
  is forwarded a request carries the pin it came with, and from then on names a
  model and not the pair (`PinCarried`); wherever it goes, the side chosen is
  the pin's (`SideKept`).
* `PlacesAsDocumented` (`NodeProofs`), an action property, for any peers in
  any order.  `PlaceInv`: this node always answers its own poll.  `Rank` is
  shown to order nodes as `docs/aggregation.md` does (`RankAsDocumented`), a best
  rank to exist (`SomeBest`), and `Place` to take the first node that has it
  (`PlaceIsFirst`), all by the least element of a set of numbers.
* `LoadsSpawnWhatWasThere`, `ResolutionsKept` (`NodeProofs`), for any loads
  and binaries.  `RuntimeInv`: only the load that has the mutex resolves, and
  resolves again only what has vanished (`ResolversLocked`); what is resolved is
  still there or was missed (`MissedIsVanished`); and a load under way has seen
  all that was there since it asked (`AllSeen`).
* `StoreTypeCorrect`, `UnexposedTagsComplete` and `SweepsSpare`
  (`NodeProofs`), for any processes, references, manifests and grace
  period, from `ContentAssumption` and `GraceAssumption`.  None of the three
  properties is inductive.  `Inv` adds: what a writer secured is in the store
  unless a sweep raced with it, and is young and not about to be deleted unless
  the writer is stale (`WritersSafe`); a sweep has yet to read a tag that was
  there when it began, or knows all its blobs to be live, so none of them is
  left to be deleted (`SweepsCover`); a tag that is not exposed is complete and
  known to every sweep under way (`TagsSafe`).  A deletion then cannot hit a
  complete tag (`SweepsCover` and `TagsSafe`) nor a writer that will not be
  exposed (`WritersSafe`).

* `StreamsFit` (`StreamsProofs`), for any number of lines, blocks and deltas,
  and from it the five properties of `Streams`: `MessagesStreamsWell`,
  `ResponsesStreamsWell`, `StreamsFold`, `StreamsLoseNothing` and `StreamsAgree`.
  None of the five is inductive: each speaks of what a client has read, and what
  it reads next depends on the converter.  `FitInv` therefore says, surface by
  surface, how the converter's state, the client's and what the lines carried
  determine each other:
  - Messages (`MessagesFit`): the client's blocks are those that were recorded,
    then the one that grows; a call's block is open until the end, at the index
    the converter noted for it, with the arguments it has (`Running`,
    `ToolsShown`); text and reasoning in them add up to what came (`Carries`).
    At the end all blocks are shown and closed (`Completed`), or the stream
    failed for a reason the reply gives.
  - Responses (`ResponsesHold`): while the reply has not reasoned late, the
    items that are over are the completed output, at most one more is open, and
    no call is among them (`Streamed`, `Tells`); a complete one lists the calls
    last, in their order (`ListsAll`).  A reply that reasons late is let go
    (`IsDead`), which is what finding 5 asks for.
  - Ollama and Gemini (`OllamaFit`, `GeminiFit`): what the client has, and for
    Ollama what the decoder still holds, is what came; one end, when the
    converter is done.
  - A provider (`Translates`, `Knows`, `HasCalls`): the translator knows the
    block that is open and no later one; its text, reasoning and calls are both
    what the provider told and what its lines carried, and a call that was told
    without arguments has become one with an empty object.

  `ConverterProofs` shows that one line keeps each surface's part
  (`MessagesLine`, `ResponsesLine`, `OllamaLine`, `GeminiLine`, put together in
  `RelayKeeps`); `StreamsProofs`, that each event of a provider becomes lines
  that fit (`FitContentBlockDelta` and its siblings).  Both rest on
  `FoldProofs`: the function inside `Through` exists and goes through the
  sequence from left to right (`ThroughSteps`, by the well-foundedness of the
  natural numbers, since an induction theorem with an operator as parameter
  cannot be used), is extended by an element (`ThroughAppend`) and does not tell
  apart sequences whose elements do the same (`ThroughAlike`).

Only model-checked: `CallsAdvance`, which is about `ENABLED`; `FetchSpared`,
which holds within the bound of two new daemons with one fetch each, and so has
no theorem for every value of the constants; and liveness
(`RetirementEnds`, `CapacityWaitEnds`, `ClientsReturn`), which the prover does
not do.

## Not modelled

* keep_alive deadlines: any idle model may expire at any time in `Scheduler`,
  which covers every clock; which override wins is documented as the last guard
  to drop.
* The podman backend, spawn command lines and health polling: `Scheduler` models
  a backend by its effect on a load.
* Temporary files, repair, the cache of extracted models, legacy pointers,
  create and build, pushes, zero-size layers, signatures, retries inside one
  fetch.
* Listings and unloads across peers, the providers of `llmman.conf`, the
  spelling and parsing of pairs: maps over data, with no state between calls.
* The request side of the translators, harmony, chat templates, raw reasoning
  tags: pure data mapping, which the repository's fixtures cover.
* Managed endpoints, OAuth, the browser shell, logs, launchers, apps, the vLLM
  plugin: I/O with services or users outside of this code.
* Speech, media and inference code: numerical, out of a model checker's reach.

## What is left

1. The scheduler's deadlines, if keep_alive is ever promised more precisely than
   "the last guard to drop".
2. The store's temporary files, with the repair that would visit them.
