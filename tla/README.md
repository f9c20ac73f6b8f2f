# tinyTiles: TLA+ models and proofs

tinyTiles turns map data into immutable `.ttiles` artifacts, serves their tiles over
HTTP while artifacts are replaced, and keeps offline copies on clients. This
directory holds TLA+ models of its concurrent parts, of the pipelines that make
artifacts and of the algorithms they rest on, the TLC configurations that check them on small instances, and TLAPS proofs of
their main properties for every value of the constants.

Contents: [System](#1-the-system) · [Modules](#2-modules) ·
[Runs](#3-runs) · [Fairness](#4-fairness) · [Proofs](#5-proofs) ·
[Findings](#6-where-code-and-comments-differ) · [Hazards left](#7-hazards-no-run-covers) ·
[Limits](#8-what-is-not-modelled) · [Plan](#9-plan)

## 1. The system

```
 inputs ──► import / build ──► artifact.ttiles ──► Dataset ──► Server ──► Synchronizer ──► Store
 (MBTiles,   cmd/tinytiles      (immutable dir,     reader      HTTP,      offline/sync     files,
  PMTiles,   minigen, geo        written once)       pool        caches,                     memory,
  OSM PBF)                                                       reload                      IndexedDB
```

| Part | State it keeps | Operations | What is hard | What makes it correct |
|---|---|---|---|---|
| **Dataset** (`dataset.go`) | readers in the channels `hotReader` and `readers`, a `WaitGroup`, `closed` | `Open`, `acquire`, `borrow`, `release`, `Close` | lookups race `Close` between a receive and the registration; sends that may block; failures inside `Open` | one lookup per reader; nothing used after it is closed; nothing leaked; `Close` and lookups end |
| **Tile cache** (`server/tile_cache.go`) | per lane an LRU list, a byte counter, a mutex and a lock-free front pointer | `get`, `checksum`, `put` | the front is read during insertions and evictions; two-stage eviction; sizes at the boundary | byte bound; the front is the newest payload; what was put is kept |
| **Tile server** (`server/server.go`, `tile_load_group.go`, `cmd/tinytiles-server`) | the current generation (dataset, cache, load group), calls in flight, the dataset handle of `main` | tile request, `SwapDataset`, reload, shutdown | one read shared by many requests, each with its own context; a swap at any moment; a reload that meets the shutdown | one read per tile; answers are not older than the request; cancellation stays local; datasets are closed once nobody reads them, and all of them at exit |
| **Prefetcher** (`server/prefetch.go`) | bounded channel of keys, map of pending keys, workers | `Prefetch…`, `enqueue`, `worker`, `Close` | keys marked after they were sent; a stop that races buffered work; a swap between question and read | no key lost, repeated or stuck; callers never wait; nothing runs after `Close` |
| **Synchronizer** (`offline/sync.go`) | gate, manifest, previous manifest, channel of keys, first error | `Sync`, `publish` | cancellation, errors and crashes at every step; the server reloads while tiles are fetched | the active manifest is complete; only a replaced revision is pruned; `Sync` returns |
| **Stores** (`offline/file_store.go`, `memory.go`, `indexeddb_js_wasm.go`) | active manifest, tiles by revision, warm verification | `PutTile`, `HasTile`, `PutManifest`, `DeleteRevision` | atomic replacement, corrupt records, a prune that fails half way | a tile counts only when its checksum holds |
| **Route planner** (`offline/route.go`) | none | `RouteTileKeys`, `RouteSyncRequest` | the line between two tiles, the shorter way round the world, zoom limits, truncation | the tiles of the route, in order, within the limit |
| **PMTiles reader** (`internal/pmtiles`, `cmd/tinytiles/pmtiles_source.go`) | a stack of directories, a budget of tiles; a staging database | `Open`, `EachTile`, `InspectTiles`, `ScanTiles`, staging | 64-bit offsets and run lengths of a foreign file, nested and cyclic directories | nothing outside a section is read; the walk is bounded; no tile lost or repeated |
| **Import** (`cmd/tinytiles/main.go`, `compact.go`) | a staging database, a batch, the artifact directory | `importArtifact`, `compactMBTiles` | failure between staging and publication; deduplication by hash; paths that alias | all or nothing; tiles are preserved; nothing that is read is replaced |
| **PBF build** (`pbf_build_native.go`, `cmd/tinytiles/build.go`) | workspace, artifact, postal-code sidecar | `BuildPBF` | two outputs published one after the other; paths that overlap | inputs are never overwritten; outputs belong together |
| **Generator** (`internal/minigen/build.go`) | three passes over the inputs, tile builders, stream | `scanInputsParallel`, `writeZoom`, `Build` | parallel scans with errors and cancellation; merging in the order of the inputs | no input ignored; the stream does not depend on the schedule |
| **Postal boundaries** (`internal/minigen/multipolygon.go`, `postal.go`) | none | `assembleRings`, `collectPostalFeatures` | rings assembled from loose ways of several extracts | a boundary has the area of its relation |
| **Tile geometry** (`internal/minigen/mvt.go`) | none | `clipLine`, `clipPolygon`, `encodeGeometry` | clipping, the winding of holes, relative coordinates | a reader of the commands draws the clipped feature |
| **Generalization** (`internal/minigen/simplify`) | linked list and heap with stale items | `Simplify`, `SimplifyRing` | areas in the heap outlive the neighbours they were measured with | the smallest triangle of the moment goes first |
| **Geometry** (`internal/geo`) | none | `Repair`, `Dissolve`, `NestHoles`, `ContainsPoint` | shared edges must cancel exactly | boundaries are closed rings of the area united |
| **Territories** (`internal/territory`) | none | `Build`, `Aggregate`, `Validate` | joins by keys that are written differently; order of the sweep | a territory is the area of its members; nothing disappears unreported |
| **Other handlers** (`server/postcode.go`, `style.go`) and **command line** | immutable indexes | search, style, flags, benchmarks | sequential | |

How they interact: `main` of the server opens a `Dataset` and gives it to a `Server`;
the reloader opens another one, calls `Server.SwapDataset` (an atomic pointer store of a
*generation*) and then `Close` on the dataset that was replaced. A request and a
prefetch worker load the generation pointer and then use that generation's cache,
load group and dataset. `Dataset.Close` waits for the lookups that have *registered*
and for nothing else, which is the seam where most of the hazards lie. The
synchronizer knows the server only through its HTTP answers: a manifest naming a
revision, and tiles of that revision for as long as the server has it.

`PROJECT.json` lists the hazards of this code, each at its line, with the properties
that would show it going wrong or the reason why none does.

## 2. Modules

| Module | Models | Actions or operators |
|---|---|---|
| `DatasetPool` | `src/dataset.go` | one per channel operation and per critical section of `Dataset.mu`; what a lookup does without synchronising is one step |
| `ReaderLease` | what the pool promises (abstract) | `Provide`, `Grant`, `GiveBack`, `BeginClose`, `Retire` |
| `TileCache` | `src/server/tile_cache.go` | a lock-free probe and a locked lookup are one step each; an insertion takes the lock in one step and evicts one entry per step before it unlocks |
| `TileServer` | `serveXYZ`/`serveTMSSync`, `lookupTile`, `tileLoadGroup`, `SwapDataset`, reloader and shutdown | one per atomic access: generation pointer, cache, critical section of the load group, reader, channel of a call |
| `Prefetcher` | `src/server/prefetch.go`, `routePrefetcher`, `Server.Close` | one per critical section, channel operation, cache question and lookup |
| `OfflineSync` | `Synchronizer.Sync`, its workers and `publish`, over a `FileStore`, a `MemoryStore` or another `Store` | one per channel operation, request to the server and operation of the store; `Crash` at any moment for files |
| `OfflineCache` | what readers of the store are promised (abstract) | `Retain`, `Switch`, `Remove` |
| `TileID` | `internal/pmtiles` identifiers | `ZxyToID`, `IDToZxy` as functions |
| `PMTiles` | `internal/pmtiles/archive.go`, `cmd/tinytiles/pmtiles_source.go` | one per iteration of the loops of `walk` and `inspectTiles`, and per tile handed on; `Fail` and `Cancel` at any of them |
| `Compact` | `cmd/tinytiles/compact.go` | one per row copied |
| `Paths` | comparison of paths (`build.go`, `pbf_build_native.go`) | operators on paths with links |
| `ImportPipeline` | the import command, over `Compact` and `Paths` | one per stage that writes or fails by itself |
| `PBFBuild` | the build command and `BuildPBF`, over `ImportPipeline` | one per stage; `Crash` at any moment |
| `Generator` | `internal/minigen/build.go` | one per goroutine started or ended, per merge, per zoom |
| `Selection` | sequences without some of their elements (`wayLine`, the usable chains, the rings left in a tile) | a recursive function |
| `TileGrid` | the tiles along a side of a zoom, for `Generator` and `Route` | a recursive function |
| `Route` | `offline/route.go` | operators |
| `Polygons` | `internal/geo` | operators |
| `Boundaries` | `internal/minigen/multipolygon.go`, `postal.go`, over `Polygons` | operators |
| `Territory` | `internal/territory`, over `Polygons` | operators |
| `TileGeometry` | clipping and commands of `internal/minigen/mvt.go` | operators |
| `Simplify` | `internal/minigen/simplify` | one per item popped from the heap |
| `Generalization` | what `Simplify` promises (abstract) | `Drop`, `End` |
| `Geometry` | the calls of the five above, and `Simplify` beside them | one per call, which answers with what the operators give |

`MC<Module>` gives each module its model values and small tables. `Geometry` composes the modules
without state: a job is one call, its result what the call returns; loops are folds or recursive functions,
one step of the loop an operator of its own (`Onward`, `Assemble`, `Duel`, `Followed`). `<Module>Proofs` holds theorems
(`GeometryProofs` those of `Geometry` about routes, territories and tiles; `BuildProofs` those of `PBFBuild` and what it is made of, of `Generator`, of `Simplify`, and of `Geometry` about rings). Operators named `Action_SomeFault` are plausible bugs
of the definition they precede and belong to no behaviour: each property of a passing run
is shown to fail once its definition is replaced by one of them, so that a property is
known to depend on the code.

**DatasetPool.** `pc` is the place of a lookup: `enter` (the context is asked), `tryHot`
and `select` (the two selects of `acquire`), `borrow` (a reader in hand, not registered),
`use`, `release`, `spill` (committed to the send to `readers`), `finish`
(`inFlight.Done`). `hot` and `pool` are the channels' contents as sets: no property
depends on the order in which readers come out. `Open` is modelled with each failure
it can meet, and the `Close` it then performs itself.
`ReaderLease` sees a lease from `borrow` to the send back.

**TileCache.** `get` asks the two front pointers, then for each lane its front again and its list under
the lock: up to six lookups. `checksum` and `Stats` only read. A payload too large for its
shard goes to the large lane; one too large for both leaves its digest only. An entry
loses its payload first and its digest when that is not enough. Keys are hashed to
shards by the constant `Home` and have the payload length `Length`. The payload of a
key never changes: an artifact is immutable.

**TileServer.** A request goes through `accepted`, `lookup`, `join` and then either leads
(`recheck`, `acquire`, `read`, `store`, `publish`) or waits. `loads` is the map of the load
group, `call` the call a waiter holds, `floor` the generation that was current when the
request was accepted (history). The reloader's places are `opened` (the new dataset),
`swapped`, `stored` (main's pointer), `closing`. A dataset is `open`, `closing` or `closed` here;
`DatasetPool` has its inside, and a cache is the set of tiles it holds, from which any may
be evicted at any time; `TileCache` has the inside of that. Cancellation of a client may come at any step.

**Prefetcher.** Any question to the cache may be answered either way. `pending` is
the map, `asked` the generation whose cache missed a pending key (history), `late` the
jobs a worker began after the stop (history).

**OfflineSync.** A call enters the gate, resolves the **OfflineSync.** A call enters the gate with a request (its keys, workers and whether to prune), resolves the manifest, reads the previous
one, and hands its keys to the workers, of whom there are no more than keys, through a channel of twice as many slots. A key is first
offered, and sent when there is room. A worker reuses, fetches, puts or
fails; cancellation makes it drop what it has. `JoinWorkers` decides on `firstErr` and the
context, `Publish` writes the manifest, `PruneTile`/`EndPrune` delete the replaced revision
record by record, possibly incompletely. `store` is one of `Stores` and selects what differs: file and memory stores skip
`PutManifest` when the revision is unchanged, only a memory store verifies warm tiles without workers, only files survive a crash.
A record is `absent`, `good`, `bad` (its checksum fails) or `foreign`: the sound tile of another revision than the one it is filed under. What keeps those out
is that the server compares the revision in a tile's path with the one it serves (`Found`); the checksum of an answer is right whatever revision it is of. `covered` is what was asked of
the active revision (history).
`OfflineCache` abstracts from who synchronizes: a tile may be retained, the active revision
may be switched to one whose asked-for tiles are all retained, and tiles may be removed
from other revisions only.

**PMTiles.** A file is anything: its header, its sections and, at each extent where the author put one, a
directory of coded entries (deltas, run lengths, lengths, offsets of which 0 means "where the last
one ended"). All of them are words modulo `Word` (2^64 in the code). `stack` is the recursion of `walk` with its
place in each directory, `remaining` the budget of tiles the header declares, `run` the run whose tiles are being handed on.
`job` tells the two uses apart: `direct` inspects all directories first and then streams, `stage`
copies into a database in transactions of `Batch` rows. `read` is the last extent read (history).
`Contents` is what a traversal has to deliver: the directory tree written out level by level, without a stack, a budget or a run under way, and with the tile of an identifier found by
`ZxyToID` alone; a leaf that is missing or too deep stands as a tile that does not exist. Powers of two are the recursive function `Pow2`, about which the prover can reason.

**Compact, ImportPipeline, PBFBuild.** A source is the sequence of its rows' payloads. `Compact` looks a payload up by its hash, which two
payloads may share, and compares; a map row may dangle. `opts` is the whole command line. `pc` names
the stage, `temp` the temporary directories, `artifact`, `published` and `sidecar` what lies at the outputs, `lost` whatever
was destroyed that had to stay (history). `there` is what exists. `defers` are the removals that functions have deferred, each of its function and its directory, and `kept` the
directories whose function has set its `keep`: a return of any function runs its own deferred calls (`Leave`), those of a staging
function look at `keep` (`Cleans`), a function that hands its copy on sets it and the caller defers the removal (`HandOn`), and an exit of the command returns through all its functions (`Return`).
`Paths` has three views of a path: what the checks compute before anything is there (`Canonical`, where a link that dangles is not followed), the place where the operating system
later reads and writes (`Real`), and the entry itself, should it be a link, which a rename replaces (`Located`). Links may dangle, and what they name may come to exist; `File` tells regular files apart, of
which hard links are one.

**Generator.** `worker` is the state of each goroutine of the pass under way, `launched` how many passed the
semaphore, `slots` what the goroutines have left: each writes its own result when it ends, a failed one what it had. The slots of a pass (node references, coordinates, features) are
merged when `wg.Wait` has returned, from what they hold then; then each zoom puts
features into tiles, the tiles are encoded by goroutines into slots, and what the slots hold is
written in order. Any scan, encoding or write may fail, and so may the stream when it is created or closed. Coordinates are columns and rows of the finest grid.

**Geometry.** Each operator is a function of the source on integer coordinates, which is what the code computes with
from quantization on (`Polygons`), from node identifiers (`Boundaries`), from tile numbers (`Route`) or from tile pixels (`TileGeometry`).
The properties compare them with definitions that know nothing of the algorithm: the cells of an area, the
edges of a set of ways, the shape a reader of the tile format draws. Which points of a line or a ring a tile keeps is given to `TileGeometry` (any selection); `Simplify`
has what selects them. A ring loses its closing point before that.

**Simplify.** `nodes` is the linked list with versions, `queue` the heap as a set of items, stale ones included: any
item of the smallest area may come out first. `Generalization` knows the points kept, and nothing of lists or heaps.

## 3. Runs

Twelve runs; every definition that is an action or a disjunct of one fires in a
passing run. States are distinct states.

| Run | Question | Instance | States |
|---|---|---|---|
| `pool` | Are readers lost? Do lookups and `Close` return? Does the pool implement `ReaderLease`, with its fairness? | 2 readers, 3 lookups, 2 closers | 90,571 |
| `pool_close` | Is every reader closed when `Close` returns? (no) | 2 readers, 2 lookups, 1 closer | violation |
| `tilecache` | Byte bound, the lock-free front, survival of what was put, every call returns | 2 clients, 5 keys, 20 bytes, 4 shards | 24,435 |
| `tileserver` | Shared loads, current answers, local cancellation, datasets closed in the end, everyone answered, shutdown ends | 2 requests, 1 tile, 2 datasets | 113,700 |
| `tileserver_swap` | Does closing the replaced dataset at once drop no request? (it may) | 1 request, 2 datasets | violation |
| `prefetcher` | Quiet after `Close`; callers, queued keys and `Close` come to an end | 2 callers, 1 worker, 2 keys, channel of 1, 2 closers, 2 generations | 373,812 |
| `offline` | Is `OfflineCache` implemented, crashes and corrupt records included? Does every call return? | 2 calls, 2 workers, 2 revisions with 2 tiles, 4 keys for 1 worker, file and memory stores | 635,258 |
| `archive` | Does a walk stay inside, keep its budget, deliver the expansion of the directories, and end as the inspection foretold? | files of 31 bytes, words of 6 bits, zooms 0–2, two nested levels, transactions of 2 rows | 235,973 |
| `pipeline` | Are inputs and temporary files safe, is the artifact its source, do batches fit memory, is compaction lossless? | command lines over aliased paths, every failure, a crash at any step; 3 payloads, two with one hash; links that dangle, a hard link of the input | 59,548 |
| `build_zoom` | Do explicit zooms win over a preset? (not 0 and 0) | build commands with every combination of `--minzoom`, `--maxzoom` | violation |
| `generator` | Is the stream independent of the schedule, is no failure lost, does a build return? | 6 input lists of 1–3 files, 2 goroutines at a time, zooms 1–2 | 25,756 |
| `geometry` | What each algorithm promises about its result; `Simplify` implements `Generalization` | below | 60,207 |

Why these bounds are enough to meet the interesting cases:

* `pool`: two readers give both lanes one slot each; three lookups make one wait; two closers make
  one lose.
* `tilecache`: shard 0 has room for one digest, with the empty payload of `a` or without the one of `huge`, which fits nowhere;
  the large lane holds one of `big` and `big2`, beside the digest of the other; the 20 bytes do not divide evenly,
  and in the smaller shard of `tiny` not even a digest fits.
* `tileserver`: two requests are a leader and a waiter, or one that comes too late; the second dataset lacks
  the tile, so an answer from the wrong generation shows. `MaxGen = 2` bounds the reloads:
  the third dataset would differ from the second only in its number.
* `prefetcher`: a channel of one is full after one key; the list `k1, k2, k1` repeats a key and is
  truncated by `MaxTiles`; one key is buffered while another is in the worker's hands.
  Two callers and two closers race for the marks and for the stop.
* `offline`: the first revision can be completed; of the second one tile's record is corrupt, and once a prune has removed it the server does not
  have the tile, so that only the smaller request, which prunes, can publish it. Revisions are published and pruned in both directions.
  Two keys are on no server. A request names them first, and two more, for a single worker and its channel of two: the worker
  fails while the channel is full and the fourth key is offered.
* `archive`: entries that overflow a word, that end one byte past their section or file, runs across the last identifier, a leaf that
  names itself, leaves deeper than the limit, a data section that is empty far outside, counts that are too small, exact and too large. Zoom 2 has all four orientations of the curve.
* `pipeline`: the input is reached through a link, outputs lie in, above, at and beside it and each other; one link dangles into the old artifact, which a build may replace, and one into nothing, at or below
  which outputs are given; a hard link of the input is given as an output; two rows per
  transaction put a commit inside and at the end of a source; memory for no row, one, some and more than the cap.
* `generator`: three inputs on two goroutines make one wait at the semaphore; the inputs disagree on the position of two nodes; an area is closed by its
  nodes but not by the positions known; a feature spans more tiles than allowed.
* `geometry`: routes of up to three points on grids of up to eight tiles a side, over the antimeridian, with a radius and with truncation;
  all sets of up to three ways between three nodes and some of four; a square with a hole whose boundary is
  cut into two ways at every pair of corners, in both directions, over two extracts of which one is outdated; territories of up to three features that
  touch, coincide, contain, degenerate or have no key, with every aggregation; lines and pairs of rings over a tile of four pixels; rings of up to
  five points compared in every rotation; lines of five points and rings of five, with ties.

Only `pool_close` uses symmetry (readers, lookups and closers, whose identities nothing orders or names); the
other runs check liveness or name their values. Deadlock is checked where
the system cannot stop; the configurations that say `CHECK_DEADLOCK FALSE` are of systems
that end (a failed `Open`, an exited process, a command, a call).

Some invariants have a theorem and no run, because a run would add nothing to the proof: `ReaderIsExclusive`,
`ClosedReadersAreGone`, `CloseWaitsForLookups`, `ReleaseNeverBlocks`, `HotLaneFilledWhenIdle` (pool); `HitsRefreshRecency` (cache);
`ServedDatasetIsOpen`, `NoReadAfterClose` (server); `PendingIsExact`, `NoDuplicateWork`, `OneLateJob`, `ReadsFreshGeneration` (prefetcher);
`ActiveIsComplete`, `OnlyReplacedIsPruned` (offline); and every type invariant.

## 4. Fairness

* Goroutines that can take a step take it (weak fairness), separately for each lookup,
  request, caller, worker, closer, and for reloader and main. A call of `Sync` needs less: that one of its goroutines moves while any of them can. External work (a read of an
  artifact, an HTTP request, an operation of a store) ends.
* Strong fairness is used for two guarantees of the Go runtime: receivers and senders
  blocked on a channel are served in order (`TakeHot`/`TakePool` of a lookup, `EnterGate` of a call of `Sync`), and
  `sync.Mutex` hands over the lock to a waiter that starves (`LockedProbe`, `PutStep`).
* `Generator`: the goroutine of `Build` runs on, and so does some goroutine it started while there is one.
* Nothing from outside has to happen: no call, cancellation, swap, reload, eviction, shutdown,
  failure or crash is ever fair.

`CallsReturn` (pool, cache, prefetcher), `SyncReturns`, `RequestsAreAnswered`, `PendingIsServed`, `ShutdownEnds` and
`BuildReturns` use no timeout: they would hold with handlers whose clients never leave.
The import and build commands are sequential and end with their inputs: the pipeline has no liveness property.

## 5. Proofs

Eight modules, 23,192 obligations, all checked by TLAPS with no assumption but the
named `ASSUME`s on the constants: finite sets where the code counts, sentinels outside their sets,
positive sizes, files, links and options of the right shape. The sets of requests, clients, keys, generations,
files, command lines and point lists are otherwise arbitrary.

**DatasetPoolProofs.** Inductive invariant `IInv`:
`TypeOK`; `OpenInv` (before `Open` returns there are no lookups and no closers); `ClosesInv` (a reader is closed only
after `closed` or a failed `Open`); `Ownership` (every opened reader is in exactly one of: a channel, a lookup's hands, closed);
`CounterInv` (`inFlight` is the number of registered lookups); `DrainInv` (while someone drains, nobody is registered);
`WinnerInv` (once closed, either a closer still works or all lanes are empty and nobody is registered); `LaneInv` (an open
dataset has its hot lane filled or a lookup that decides about it). None of the properties is inductive by itself:
`ReaderIsExclusive` needs to know where every reader is, and `ReleaseNeverBlocks` is a counting argument: the reader
that spills is outside `pool`, and so is the one that `LaneInv` finds in the hot lane or in hand, so at
most `N - 2` of the `N` readers can be in a channel of `N - 1`. `PoolImplementsLease` maps every step to a step of `ReaderLease` or a
stutter (its fairness is checked by TLC).

**TileCacheProofs.** Lemmas about removing, prepending and cutting off elements of an injective sequence
carry `TypeOK` (lists without repetition, payloads of entries only, locks held exactly during eviction)
and `FrontIsMostRecent`: a step that changes the head of a list publishes or clears the front in the same step.
`HitsRefreshRecency` follows: a hit on the front is a hit on the head. `BytesInv` says that the counter of a lane is the sum over its list of what
its entries cost, a sum over a finite sequence, which lemmas follow through each insertion, refresh and eviction. With it,
`WithinBudget` is a statement about the sum of the lanes' budgets, and `PutIsRetained` one about what an eviction leaves: a lane above its
budget has another entry than the new one to give up, because the new one alone fits.

**TileServerProofs.** Layers, each resting on those before: `TypeOK`; `SingleFlight` (the map names exactly the loading
requests); `ResultInv` (a result belongs to the generation of its request); `WaiterInv` (a waiter without a result has a leader that is still at work,
for the same tile and generation: theorem `NoLostWakeup`); `GenerationInv` (generations only grow, and a
request never uses one below its floor) and `AnswerInv`, which give `AnswersAreCurrent` and
`OnlyOwnCancellation`; `DatasetInv` (the state of each dataset is a function of the places of reloader and main) for
`ServedDatasetIsOpen` and `NothingLeftOpen`; and `ReadsEndBeforeClose`.

**PrefetcherProofs.** `PendingInv` (a key is pending exactly if it is in the channel or a worker's hands, once), with
lemmas about appending to and taking from an injective channel; `CloseInv`; `LateInv` (a worker that began a
late job never comes back to its `select`); `GenerationInv` (asked and read generations never pass `current`).

**OfflineSyncProofs.** `SyncInv` is the conjunction of `CleanInv` (a call finds an empty open channel),
`ProgressInv` (while no error is recorded and the context lives, every wanted key is still to be sent, in the channel, in a
worker's hands or stored, so that when all workers have returned all of them are stored), `FetchInv` (what a worker fetches or
puts replaces an absent or a good record, never a bad one, and what it puts is of the manifest's revision), `NothingForeign` (no record holds the tile of another revision), `PublishInv` (from the decision to publish on, everything wanted is there) and
`ActiveIsComplete`, which without `ProgressInv` and `PublishInv` is not preserved by `Publish`. `SyncImplementsCache` is full refinement: initial states map to initial
states and every step to a step of `OfflineCache` or a stutter.

**PMTilesProofs.** `ArchiveInv` adds to `TypeOK` that the stack is never longer than the limit (`StackOK`) and that a run under way
has its tiles left in the budget (`RunOK`). Decoding is a recursive function over the entries of a directory; what the proof needs of it is only
that a decoded entry is of words. `ReadsInside` follows from the checks of an entry (`length <= section` and then `offset <= section - length`), which do not overflow where
their sum would; `BudgetIsExact` relates tiles handed on, tiles of the run under way and `remaining`. A cyclic archive is among the files: depth and budget alone stop it.
`InspectionForetellsScan` compares two traversals of one file that are never under way together. What joins them is a *walk*: the sequence of places (stack and totals so far)
that the rules of an entry lead through. The inspection makes a walk (`InspectsWalk`), and the scan replays the same one (`ScansWalk`): it is always at a place of it, or in the
run that leads from one place to the next, so every entry it meets has been accepted and counted, and at the end its totals are those of the walk.
`ScanIsExpansion` says which tiles these are. `ScanInv`: what was visited, what the run under way has left and what the stack still holds is at every moment the directory tree
written out (`Contents`); what a stack holds is the rest of its innermost directory, then of the one around it, and so on (`Rest`), and a step passes an entry, enters a leaf or leaves one.
The tiles are compared with `ZxyToID` and delivered by `IDToZxy`, so the proof needs `TilesAreNumbered`: both directions follow one chain of quadrants (`OnCurve`), which number
or coordinates alone determine (`CurveIsUnique`); the bits that wrap around in `ZxyToID` lie above every bit that is still to be read.

**BuildProofs.** The commands first, with four invariants side by side: `CompactInv` (the copied rows name images of their payloads, images differ, and
committed and open rows are the rows before `next`), `ControlInv` (what the checks of a command found out holds for as long as it
runs: `Accepted`; and which stages belong to which command), `TablesInv` (a compacted import publishes finished tables only) and `WorkInv`
(every temporary directory is covered by a deferred call that would remove it if the command returned now, or is to be kept for the user; a `keep` is set for what was
handed on, and for nothing before that; what is to be read is still there). `WorkspacesAreRemoved` follows from the last one: a return runs all deferred calls (`ReturnCleans`).
`NothingIsBuried` rests on `Accepted` and on one lemma about links, any of which may dangle: the path to something that exists is compared as it is found (`ExistingIsCanonical`), because
no link on the way to it dangles. So the input, which exists when it is compared, is told apart from every output by the checks, wherever that leads later, unless an output is
a hard link of it. An output that is given by a dangling link is not compared as it is written; the property claims nothing of it, see section 6.

Then the generator. `PassInv`: what the merges of the passes so far have put together is what the inputs hold, in their order, whatever goroutine ended when.
`SlotInv` carries that: a slot whose goroutine has ended well holds the result of its own scan or encoding (`Found`, `Encoded`), so that after the wait and without an error every slot does; it is what fails when a result is
appended instead, or merged before the wait.
`StreamInv`: what is written is what is expected of the zooms that are done, and then of the tiles before `next`, each encoded from exactly the features that
enter it. Both compare with definitions over the files alone, so that the schedule cannot occur in them; the lemmas below them are about selecting, flattening
and numbering sequences, and about the box of tiles that a line enters. Failures: a goroutine that has failed stays in its slot until its pass fails (`FailureInv`), because slots are used once and in order (`PoolInv`).
Then the simplifier. `SimplifyInv`: the links of every kept point are its neighbours in order (on a line with ends, on a ring around),
and the queue holds the present area of every removable one under its present version. The lemma at its heart is that
unlinking a point makes its two neighbours each other's, and changes nobody else's. `SimplifyImplementsGeneralization` follows: a stale item is a stutter, and
a present item of the smallest area is a point of the smallest triangle, because every triangle has an item in the queue.

**GeometryProofs** and the rest of **BuildProofs**: six calls of `Geometry`, of any input. The overlap report (`SweepIsComplete`): the sweep goes through the boxes by their western edges and leaves
its inner loop at the first that begins east of the box in hand. As the order is sorted, every later box begins there too, and of two boxes with an area in common the second begins
before the first one ends. The property names no order, so equal edges may be swept in any.
The identity of rings (`SignaturesAreIdentity`): a rotation is *dead* if another is less. `DuelInv`: of the rotations before the further of the two pointers of
`minimumRotation` all but the two pointed at are dead, and these two agree on their first `k` points; when point `k` tells them apart,
the loser and the `k` rotations behind it are dead at once, each beaten by the one as far behind the winner. `i + j + k` grows in every step, so `3n` steps
are enough. A pointer that has left the ring has the other at a rotation that is not dead; two that agree all the way around are one rotation. A signature is the lesser of the least rotations of the two directions,
turns of a ring have the same ones (`CanonicalOfTurn`), and a signature is itself a turn of the ring or of its reverse, so equal signatures lead back from ring to ring.
The assembly of rings (`RingsAreComplete`): `Sound` speaks of all lines of a state together (`LinesIn`: the rings, the line being grown, the chains left).
A step leaves them as they are, drops one or joins two; a join has the edges of both, each in its place (`Carries`), and takes two ends from the node where they meet and none
from any other (`MergedCount`), so the number of ends at every node stays even. Where no edge occurs twice, nothing is dropped: a closed line of less than three edges repeats one, and a line that is
not closed and that nothing continues is the only one there with an end and no beginning, which makes the count odd (`OddEnd`). `2 |remaining|`, and one more while a line grows, is less after every step.

The route planner (`CorridorsFollowRoutes`): on the line of a leg the error determines how far it is (`OnLine`), so that column and row arrive at the end
together and no step is to spare; the longer way is recognised by its columns, and the way that `ShortWay` takes instead is the shorter one around the world.
`Emitted` passes over the keys once: what it has kept is distinct and in order (`EmittedWithin`), what a smaller budget keeps is a prefix of what a larger
one does, and the grid holds no more tiles than it has, so that only a budget cuts a corridor off.
The accounts (`MembersAccounted`): the fate of a feature (`Fate`) is joined rows or a count of why there are none. What is placed is one entry for each join, so that
the entries of a group are as many as its joins; a feature that is in no group and has a ring has a count of its own, and the counts are summed over the features (`Total`).
That no order of the features changes the report rests on one relation: `Rearranged(s, t)`, a bijection of the places under which two sequences hold the same. Selecting from two sequences and flattening
two sequences of sequences, in which the places of one are paired with those of the other, keeps it (`KeptRearranged`, `FlattenRearranged`), so that the placed entries, the members of a group and the values of a field
are rearranged with the features. Sums are equal (`TotalRearranged`), and so are the ends of the sorted numbers: a sorted rearrangement exists (`SortExists`), so the `CHOOSE` of `Sorted` has a value, and
its first and last are the least and the greatest of the numbers (`SortedEnds`). `AggregateSame` goes through the aggregations; `first` and `list`, and the area of a territory, are left out because the code
makes them depend on the order. `SortedUnique` depends on the set of the values alone.

The tile geometry (`CommandsAreFaithful`) has the longest chain below it. Fractions first: of a finite set of them there is a greatest and a least one, though different pairs may be
equal. A segment is cut at the largest of the fractions at which it enters and the smallest at which it leaves; a point of it between these two satisfies all four limits, and rounding a
coordinate between 0 and the extent leaves it there (`RoundInside`). So `clipSegment` answers with points of the tile, and a point of the tile is its own end (`ClipSegmentFacts`);
`clipLine` passes them on and loses none. For a ring the four cuts of `clipPolygon` follow one another: each keeps the points inside its side, and adds for an edge across it what `clipSegment` answers, which is in the tile
or is an end of that edge; so after all four a point of the tile is still there, and every other point is in the tile or one of the ring's own (`Draws`). Then the commands: steps from point to point lead back to the points (`WalkedIs`), a ring is read as it was and leaves the reader on its
last point (`RingIsRead`), where the next one is counted from (`WrittenIsRead`). Reversing a ring negates its area (`AreaOfReverse`), which is what makes the winding right, and rings that
are dropped leave the others in their places (`KeptNames`).

A recursive function over numbers is a `CHOOSE`: that it exists is shown by induction, and induction over a *set* of numbers is one application of
the well-foundedness of `<` (lemma `Induction`), which needs no operator as a parameter.

Model-checked only: every liveness property (fairness and `ENABLED` are beyond the prover), and two properties of the geometry.
`BoundaryKeepsItsArea` and `TerritoriesCoverTheirMembers` speak of the cells that the rings of a boundary or a territory enclose: that crossing numbers of
chained edges agree with those of the rings they came from is a fact of plane geometry, not of the transitions of a system. The second of them also compares, on the instance, the area of the
territories with that of the same features in the other order, which is what the order theorem leaves open.

## 6. Where code and comments differ

* `pool_close`: "Close waits for active lookups, then closes every reader" (`src/dataset.go:277`). A lookup that has
  received a reader and not yet entered `borrow` is neither in a channel nor registered. `Close` returns first;
  `borrow` closes that reader afterwards. Nothing leaks (`NoReaderLeaks`), but a caller
  that removes the artifact right after `Close` may do so under an open reader.
* `tileserver_swap`: "calling it immediately after a successful swap is safe" (`src/server/server.go:242`) and "without dropping in-flight
  requests". A request that loaded the old generation and has not registered a lookup there meets
  `ErrClosed` and is answered 500.
* `build_zoom`: "any flag you also pass explicitly always wins" (`src/README.md:445`). `--minzoom 0 --maxzoom 0` looks to
  `BuildPBF` like zooms that were not given (`src/pbf_build_native.go:216`): the preset's zooms are built.

Observations that no run states:

* "Keep geometry inside the tile [...] polygons use Sutherland-Hodgman clipping against the four tile edges" (`src/internal/minigen/mvt.go:287`).
  An edge that crosses one side is cut by `clipSegment`, which cuts at all four sides, and gives back the edge's own ends
  where it misses the tile. A ring beside the tile may be written whole, and a clipped one may keep a vertex outside: of the ring (1,6), (-2,1), (2,2) and a tile of 4 by 4
  pixels, the first edge crosses the western side and misses the tile, and (-2,1) is written.
  `CommandsDrawTheFeature` states what holds: a ring keeps its points in the tile, and leaves the tile only at points of its own.
* "persist the generated MBTiles at this path" (`src/cmd/tinytiles/build.go:29`). The paths are compared before the generator runs, when a link that dangles cannot be followed
  (the comment at line 644 says that an output that is not yet there stays as it is), and `checkMBTilesDestination` takes such a link for a new path (line 499).
  With `--mbtiles-out e`, where `e` is a link to `out/m` in the old artifact `out` that does not exist, the generator writes through the link, the import reads the file, and `--replace`
  puts the new artifact in the place of the old one, with the file in it: the build ends well and the MBTiles are gone. `NothingIsBuried`
  therefore speaks of outputs that no dangling link leads to (`NoneDangles`).
* A hard link of the input, given as `--mbtiles-out` with `--replace-mbtiles`, is another path to the comparison of paths: the generator overwrites the input. The import command asks `os.SameFile` of its
  artifact (`src/cmd/tinytiles/main.go:109`), the build command does not. `NothingIsBuried` names the exception.
* "visits every grid cell crossed by a segment" (`src/offline/route.go:133`): a diagonal step of Bresenham's line visits neither of the two tiles beside the
  corner. `CorridorFollowsRoute` states what holds: neighbouring tiles, corners included, and no more of them than the distance needs.
* The line takes the shorter way over the antimeridian; the window of a radius about a tile is cut at it.
* A territory feature without any ring leaves no trace, neither in a territory nor in the diagnostics.
* Ways that do not close may take ways with them that could have: `assembleRings` promises all edges only where every node has an even number of ends.
* "Dropped means the bounded queue had no capacity" (`src/server/prefetch.go:68`). A caller that got the prefetcher
  before `Close` and enqueues after it is told `Dropped` whatever the room.

## 7. Hazards no run covers

Kept here beside those of `PROJECT.json`:

* A panic in a load (`server/tile_load_group.go:56`) leaves its call in the load group with the channel open: the model has no panics.
* `ListenAndServe` returns when the shutdown begins (`cmd/tinytiles-server/main.go:149`): the process may exit under handlers. `RequestsAreAnswered` ends with the process.
* A key pending since before a swap counts as queued (`server/prefetch.go:303`), though its worker may have read the replaced generation: a missed warm-up, no wrong answer.
* `offline/sync.go:120`: the gate is per `Synchronizer`; two of them on one `Store` may prune what the other has just published.
* `offline/file_store.go:361`: the directory of a file is synced, the parents created above it are not. `Crash` ends the process, not the machine.
* `pbf_build_native.go:82`: a rebuild without postal codes leaves the old sidecar beside the new artifact; `SidecarFollowsArtifact` speaks of the files a command writes.
* `minigen/build.go:194`: with several failures the first in the order of the inputs is reported, which may be a cancellation that another one caused.
* `server/server.go:553`: the manifest's ETag is its revision, its body also holds the tile URL template.

## 8. What is not modelled

* The tile path with caching disabled (`TileCacheBytes = -1`): no cache, no shared state besides the dataset.
* Keys the cache never holds (tiles that do not exist are not cached) need nothing: `StoreTile` is for tiles only.
* Power loss; failures of `PutManifest` after the rename are not told apart from failures before it.
* HTTP caching, compression, MIME types, templates; the wire formats of PBF, MVT, PMTiles metadata and GeoJSON: byte-level encodings.
* Floating point: projections, areas in square kilometres, the tolerance of the generalization in degrees.
* The browser's store (IndexedDB), whose transactions are the browser's, the HTTP fetcher, the read-only handlers
  (postal codes, styles), flags, printing, benchmarks and examples: no state of the system.
* The external packages: tinySQL's reader and importer are seen through what the code here does with them; the importer publishes by a rename or not at all.

## 9. Plan

Done: the serving core (`DatasetPool`, `TileCache`, `TileServer`, `Prefetcher`), the offline core (`OfflineSync`, `OfflineCache`),
archives (`TileID`, `PMTiles`), the making of artifacts (`ImportPipeline`, `PBFBuild`, `Compact`, `Generator`) and the
geometry (`Route`, `Polygons`, `Boundaries`, `Territory`, `TileGeometry`, `Simplify`), with the proofs of section 5.

Left, in this order:

1. **Composition**: the server's dataset states replaced by `DatasetPool` through `ReaderLease`.
2. **Two synchronizers on one store**, with the weaker promise that then holds.
3. **Proofs** about areas: that `Dissolve` preserves crossing numbers, for `TerritoriesCoverTheirMembers` and `BoundaryKeepsItsArea`.
4. **Panics**: a load that panics, and what a recovering handler leaves in the load group.
