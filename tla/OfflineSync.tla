----------------------------- MODULE OfflineSync -----------------------------
(***************************************************************************)
(* The offline synchronizer (src/offline/sync.go) over a FileStore         *)
(* (file_store.go), a MemoryStore (memory.go) or a Store of the            *)
(* application, against a server that may change its revision.             *)
(*                                                                         *)
(* A gate lets one call of Sync through at a time.  It resolves the        *)
(* manifest, hands the requested keys to workers that reuse or fetch each  *)
(* tile, and when all of them are there switches the active manifest and   *)
(* may prune the revision it replaced.  Any step may fail, a call may be   *)
(* cancelled at any time, and a process with a FileStore may crash and     *)
(* start again.                                                            *)
(*                                                                         *)
(* One dataset is modelled; a manifest is its revision.  A tile of the     *)
(* store is absent, good, bad or foreign: a bad record fails its checksum, *)
(* a foreign one is the sound tile of another revision.                    *)
(***************************************************************************)
EXTENDS Integers, Sequences

CONSTANTS
  Call,
  maxSyncConcurrency,
  Revision, Key,
  Tiles,       \* the keys the server has a tile for, by revision
  Requests,    \* what callers ask for: keys in the order of visit, the number of
               \* workers (Concurrency, or its default), and prune_previous
  Stores,      \* the kinds of store in question
  Planted,     \* bad records that are in the store at the beginning
  NoCall, NoRevision, NoKey

\* The goroutines of a call, by the number of the loop that starts them.
Worker == 1..maxSyncConcurrency

Elements(s) == {s[i] : i \in DOMAIN s}

ASSUME SyncAssumption ==
  /\ Tiles \in [Revision -> SUBSET Key]
  /\ Requests \subseteq [keys : Seq(Key), workers : Worker, prune : BOOLEAN]
  /\ Stores \subseteq {"file", "memory", "custom"}
  /\ Planted \subseteq Revision \X Key
  /\ NoCall \notin Call /\ NoRevision \notin Revision /\ NoKey \notin Key
  /\ maxSyncConcurrency \in Nat

VARIABLES
  served,          \* the revision the server serves
  store,           \* its kind, which nothing changes
  active, tiles,   \* what it holds
  covered,         \* history: see OfflineCache
  cpc, canceled,   \* calls: place, whether the context is done
  holder, phase,   \* the call that holds the gate and what it does
  request,         \* what it was asked for
  manifest, previous,
  todo, offering,  \* keys not yet sent, whether the first of them is offered
  jobs, closed,    \* the channel
  err,             \* firstErr
  wpc, wkey, wtile \* workers: place, key in hand, revision of the tile in hand

storeVars  == <<store, active, tiles, covered>>
callVars   == <<cpc, canceled>>
planVars   == <<request, manifest, previous>>
workerVars == <<wpc, wkey, wtile>>
workVars   == <<todo, offering, jobs, closed, err, workerVars>>
vars == <<served, storeVars, callVars, holder, phase, planVars, workVars>>

NoRequest == [keys |-> <<>>, workers |-> 0, prune |-> FALSE]

Wanted == Elements(request.keys)

\* The records whose checksum is right, which is all that a store can check.
Sound == {"good", "foreign"}

Init ==
  /\ served \in Revision /\ store \in Stores /\ active = NoRevision /\ covered = {}
  /\ tiles = [r \in Revision |-> [k \in Key |-> IF <<r, k>> \in Planted THEN "bad" ELSE "absent"]]
  /\ cpc = [c \in Call |-> "idle"] /\ canceled = [c \in Call |-> FALSE]
  /\ holder = NoCall /\ phase = "off" /\ request = NoRequest
  /\ manifest = NoRevision /\ previous = NoRevision
  /\ todo = <<>> /\ offering = FALSE /\ jobs = <<>> /\ closed = FALSE /\ err = FALSE
  /\ wpc = [w \in Worker |-> "exited"] /\ wkey = [w \in Worker |-> NoKey]
  /\ wtile = [w \in Worker |-> NoRevision]

\* Back to the state in which no call holds the gate.
Unlock ==
  /\ holder' = NoCall /\ phase' = "off" /\ request' = NoRequest
  /\ manifest' = NoRevision /\ previous' = NoRevision
  /\ todo' = <<>> /\ offering' = FALSE /\ jobs' = <<>> /\ closed' = FALSE /\ err' = FALSE
  /\ wpc' = [w \in Worker |-> "exited"] /\ wkey' = [w \in Worker |-> NoKey]
  /\ wtile' = [w \in Worker |-> NoRevision]

-----------------------------------------------------------------------------
(* The environment: the server, the callers and the process                *)

\* A reload of the server.
Serve(r) ==
  /\ r # served /\ served' = r
  /\ UNCHANGED <<storeVars, callVars, holder, phase, planVars, workVars>>

CallSync(c) ==
  /\ cpc[c] # "waiting" /\ c # holder
  /\ cpc' = [cpc EXCEPT ![c] = "waiting"]
  /\ UNCHANGED <<served, storeVars, canceled, holder, phase, planVars, workVars>>

CancelCall(c) ==
  /\ cpc[c] \in {"waiting", "running"} /\ ~canceled[c]
  /\ canceled' = [canceled EXCEPT ![c] = TRUE]
  /\ UNCHANGED <<served, storeVars, cpc, holder, phase, planVars, workVars>>

\* The files remain, and whatever a rename had not published is gone.
Crash ==
  /\ store = "file" /\ Unlock
  /\ cpc' = [c \in Call |-> "idle"] /\ canceled' = [c \in Call |-> FALSE]
  /\ UNCHANGED <<served, storeVars>>

-----------------------------------------------------------------------------
(* Sync up to its workers                                                  *)

\* Its context is of no further use.
Returns(c, outcome) ==
  /\ cpc' = [cpc EXCEPT ![c] = outcome] /\ canceled' = [canceled EXCEPT ![c] = FALSE]

\* A call that waits for the gate is cancelled.
GiveUp(c) ==
  /\ cpc[c] = "waiting" /\ canceled[c]
  /\ Returns(c, "failed")
  /\ UNCHANGED <<served, storeVars, holder, phase, planVars, workVars>>

EnterGate(c, r) ==
  /\ cpc[c] = "waiting" /\ ~canceled[c] /\ holder = NoCall
  /\ cpc' = [cpc EXCEPT ![c] = "running"]
  /\ holder' = c /\ phase' = "resolve" /\ request' = r
  /\ UNCHANGED <<served, storeVars, canceled, manifest, previous, workVars>>

\* The call returns and frees the gate.
Leave(outcome) ==
  /\ Returns(holder, outcome) /\ Unlock
  /\ UNCHANGED served

\* An error before the workers start, a cancellation while hasVerifiedTiles
\* looks, or an error when the manifest is written.
Abort ==
  /\ \/ phase \in {"resolve", "previous", "publish"}
     \/ phase = "plan" /\ store = "memory" /\ previous = manifest /\ canceled[holder]
  /\ Leave("failed") /\ UNCHANGED storeVars

\* A full manifest, or the cached one that the server confirms.
ResolveManifest ==
  /\ phase = "resolve" /\ ~canceled[holder]
  /\ manifest' = served /\ phase' = "previous"
  /\ UNCHANGED <<served, storeVars, callVars, holder, request, previous, workVars>>

ReadPrevious ==
  /\ phase = "previous" /\ ~canceled[holder]
  /\ previous' = active /\ phase' = "plan"
  /\ UNCHANGED <<served, storeVars, callVars, holder, request, manifest, workVars>>

\* hasVerifiedTiles: everything asked for is there, and nobody wants progress.
UseWarmTiles ==
  /\ phase = "plan" /\ store = "memory" /\ previous = manifest
  /\ \A k \in Wanted : tiles[manifest][k] \in Sound
  /\ phase' = "publish"
  /\ UNCHANGED <<served, storeVars, callVars, holder, planVars, workVars>>

\* No more workers than keys.
workers == IF request.workers < Len(request.keys) THEN request.workers ELSE Len(request.keys)

StartWorkers ==
  /\ phase = "plan"
  /\ phase' = "work" /\ todo' = request.keys
  /\ wpc' = [w \in Worker |-> IF w <= workers THEN "idle" ELSE "exited"]
  /\ UNCHANGED <<served, storeVars, callVars, holder, planVars, offering, jobs, closed, err, wkey, wtile>>

-----------------------------------------------------------------------------
(* The producer and the workers                                            *)

\* workCtx: the first error cancels it, and so does the caller.
Done == err \/ canceled[holder]

Capacity == 2 * workers

\* visit looks at the context before each key and offers the key to the workers.
Offer ==
  /\ phase = "work" /\ todo # <<>> /\ ~closed /\ ~offering /\ ~Done
  /\ offering' = TRUE
  /\ UNCHANGED <<served, storeVars, callVars, holder, phase, planVars, todo, jobs, closed, err, workerVars>>

\* The send, which select may choose although the context is done meanwhile.
Produce ==
  /\ phase = "work" /\ offering /\ ~closed /\ Len(jobs) < Capacity
  /\ jobs' = Append(jobs, Head(todo)) /\ todo' = Tail(todo) /\ offering' = FALSE
  /\ UNCHANGED <<served, storeVars, callVars, holder, phase, planVars, closed, err, workerVars>>

\* Fault: a key that is offered waits for room only.
CloseJobs_AfterRoom ==
  /\ phase = "work" /\ ~closed /\ ~offering /\ (todo = <<>> \/ Done)
  /\ closed' = TRUE
  /\ UNCHANGED <<served, storeVars, callVars, holder, phase, planVars, todo, offering, jobs, err, workerVars>>

\* visit ends, after the last key or when the context is done, which it learns
\* before a key or while it waits for room.
CloseJobs ==
  /\ phase = "work" /\ ~closed /\ (todo = <<>> \/ Done)
  /\ closed' = TRUE /\ offering' = FALSE
  /\ UNCHANGED <<served, storeVars, callVars, holder, phase, planVars, todo, jobs, err, workerVars>>

Receive(w) ==
  /\ wpc[w] = "idle" /\ jobs # <<>>
  /\ wkey' = [wkey EXCEPT ![w] = Head(jobs)] /\ jobs' = Tail(jobs)
  /\ wpc' = [wpc EXCEPT ![w] = "got"]
  /\ UNCHANGED <<served, storeVars, callVars, holder, phase, planVars, todo, offering, closed, err, wtile>>

WorkerMoves(w, place) ==
  /\ wpc' = [wpc EXCEPT ![w] = place]
  /\ wkey' = IF place \in {"idle", "exited"} THEN [wkey EXCEPT ![w] = NoKey] ELSE wkey
  /\ wtile' = [wtile EXCEPT ![w] = IF place = "put" THEN served ELSE NoRevision]
  /\ UNCHANGED <<served, store, active, covered, callVars, holder, phase, planVars, todo, offering, jobs, closed>>

EndOfJobs(w) ==
  /\ wpc[w] = "idle" /\ jobs = <<>> /\ closed
  /\ WorkerMoves(w, "exited") /\ UNCHANGED <<tiles, err>>

\* The key in hand is dropped without an error of its own.
StopWorking(w) ==
  /\ wpc[w] = "got" /\ Done
  /\ WorkerMoves(w, "exited") /\ UNCHANGED <<tiles, err>>

\* Fault: a worker's error is not kept.
FailWorker_Forgets(w) ==
  /\ wpc[w] \in {"got", "fetch", "put"}
  /\ WorkerMoves(w, "exited") /\ UNCHANGED <<tiles, err>>

\* The store, the server, a checksum or the context: fail.
FailWorker(w) ==
  /\ wpc[w] \in {"got", "fetch", "put"}
  /\ err' = TRUE
  /\ WorkerMoves(w, "exited") /\ UNCHANGED tiles

ReuseTile(w) ==
  /\ wpc[w] = "got" /\ ~Done /\ tiles[manifest][wkey[w]] \in Sound
  /\ WorkerMoves(w, "idle") /\ UNCHANGED <<tiles, err>>

MissTile(w) ==
  /\ wpc[w] = "got" /\ ~Done /\ tiles[manifest][wkey[w]] = "absent"
  /\ WorkerMoves(w, "fetch") /\ UNCHANGED <<tiles, err>>

\* Fault: the revision in the path is not compared.
Found_AnyRevision(r, k) == k \in Tiles[served]

\* The server's answer: another revision than the one it serves at that moment,
\* or a key without a tile, is not found.
Found(r, k) == r = served /\ k \in Tiles[served]

FetchTile(w) ==
  /\ wpc[w] = "fetch" /\ ~Done /\ Found(manifest, wkey[w])
  /\ WorkerMoves(w, "put") /\ UNCHANGED <<tiles, err>>

\* The record is filed under the revision of the manifest, whatever came.
PutTile(w) ==
  /\ wpc[w] = "put" /\ ~Done
  /\ tiles' = [tiles EXCEPT ![manifest][wkey[w]] = IF wtile[w] = manifest THEN "good" ELSE "foreign"]
  /\ WorkerMoves(w, "idle") /\ UNCHANGED err

AllExited == \A w \in Worker : wpc[w] = "exited"

JoinWorkers ==
  /\ phase = "work" /\ closed /\ AllExited /\ ~Done
  /\ phase' = "publish"
  /\ UNCHANGED <<served, storeVars, callVars, holder, planVars, workVars>>

JoinFails ==
  /\ phase = "work" /\ closed /\ AllExited /\ Done
  /\ Leave("failed") /\ UNCHANGED storeVars

-----------------------------------------------------------------------------
(* publish                                                                 *)

\* The built-in stores keep a manifest that says the same.
WritesManifest == previous # manifest \/ store = "custom"

Prunes == request.prune /\ previous # NoRevision /\ previous # manifest

Publish ==
  /\ phase = "publish" /\ (WritesManifest => ~canceled[holder])
  /\ active' = manifest
  /\ covered' = IF active = manifest THEN covered \cup Wanted ELSE Wanted
  /\ phase' = IF Prunes THEN "prune" ELSE "published"
  /\ UNCHANGED <<served, store, tiles, callVars, holder, planVars, workVars>>

\* DeleteRevision removes one record after the other.
PruneTile(k) ==
  /\ phase = "prune" /\ tiles[previous][k] # "absent"
  /\ tiles' = [tiles EXCEPT ![previous][k] = "absent"]
  /\ UNCHANGED <<served, store, active, covered, callVars, holder, phase, planVars, workVars>>

\* Also when some records could not be removed: the error is only reported.
EndPrune ==
  /\ phase = "prune" /\ phase' = "published"
  /\ UNCHANGED <<served, storeVars, callVars, holder, planVars, workVars>>

ReturnResult ==
  /\ phase = "published"
  /\ Leave("synced") /\ UNCHANGED storeVars

-----------------------------------------------------------------------------
WorkerStep(w) ==
  \/ Receive(w) \/ EndOfJobs(w) \/ StopWorking(w) \/ FailWorker(w)
  \/ ReuseTile(w) \/ MissTile(w) \/ FetchTile(w) \/ PutTile(w)

SyncStep ==
  \/ Abort \/ ResolveManifest \/ ReadPrevious \/ UseWarmTiles
  \/ StartWorkers \/ Offer \/ Produce \/ CloseJobs \/ JoinWorkers \/ JoinFails
  \/ Publish \/ EndPrune \/ ReturnResult

Environment ==
  \/ \E r \in Revision : Serve(r)
  \/ \E c \in Call : CallSync(c) \/ CancelCall(c)
  \/ Crash

Next ==
  \/ Environment
  \/ \E c \in Call : GiveUp(c) \/ \E r \in Requests : EnterGate(c, r)
  \/ SyncStep
  \/ \E w \in Worker : WorkerStep(w)
  \/ \E k \in Key : PruneTile(k)

\* As long as a goroutine of the call that holds the gate can run, one of them
\* does: every request to the server and every operation of the store comes back.
\* A waiting call sees that it is cancelled, and one of those that wait for a free
\* gate enters it.  That each of them enters some day is the fairness of Go's
\* channels: waiting senders are served in order.
Fairness ==
  /\ WF_vars(SyncStep \/ \E w \in Worker : WorkerStep(w))
  /\ \A c \in Call : WF_vars(GiveUp(c)) /\ SF_vars(\E r \in Requests : EnterGate(c, r))

Spec     == Init /\ [][Next]_vars
LiveSpec == Spec /\ Fairness

-----------------------------------------------------------------------------
(* Properties                                                              *)

InHand == {"got", "fetch", "put"}

StoreOK ==
  /\ served \in Revision /\ store \in Stores /\ active \in Revision \cup {NoRevision}
  /\ tiles \in [Revision -> [Key -> {"absent", "good", "bad", "foreign"}]]
  /\ covered \subseteq Key

GateOK ==
  /\ cpc \in [Call -> {"idle", "waiting", "running", "synced", "failed"}]
  /\ canceled \in [Call -> BOOLEAN]
  /\ holder \in Call \cup {NoCall}
  /\ phase \in {"off", "resolve", "previous", "plan", "work", "publish", "prune", "published"}
  /\ holder = NoCall <=> phase = "off"
  /\ \A c \in Call : cpc[c] = "running" <=> c = holder

PlanOK ==
  /\ request \in [keys : Seq(Key), workers : Nat, prune : BOOLEAN]
  /\ phase = "off" => request = NoRequest
  /\ phase # "off" => request \in Requests
  /\ manifest \in Revision \cup {NoRevision} /\ previous \in Revision \cup {NoRevision}
  /\ phase \notin {"off", "resolve"} => manifest \in Revision
  /\ phase = "prune" => previous \in Revision

WorkOK ==
  /\ todo \in Seq(Key) /\ jobs \in Seq(Key) /\ Len(jobs) <= Capacity
  /\ closed \in BOOLEAN /\ err \in BOOLEAN
  /\ offering \in BOOLEAN /\ (offering => phase = "work" /\ ~closed /\ todo # <<>>)
  /\ wpc \in [Worker -> {"idle", "exited"} \cup InHand]
  /\ wkey \in [Worker -> Key \cup {NoKey}] /\ wtile \in [Worker -> Revision \cup {NoRevision}]
  /\ \A w \in Worker : wkey[w] \in Key <=> wpc[w] \in InHand
  /\ phase # "work" => AllExited

TypeOK == StoreOK /\ GateOK /\ PlanOK /\ WorkOK

\* Every tile that was asked for is there, checked, for the revision of the
\* active manifest, whatever failed, was cancelled or crashed on the way.
ActiveIsComplete == active # NoRevision => \A k \in covered : tiles[active][k] = "good"

\* What an interrupted sync retained stays for the next one: only the revision
\* that a published manifest has replaced is pruned.
OnlyReplacedIsPruned ==
  [][\A r \in Revision, k \in Key :
       tiles[r][k] = "good" /\ tiles'[r][k] # "good"
         => r = previous /\ active = manifest /\ r # active]_vars

Cache == INSTANCE OfflineCache

\* The synchronizer implements the promise of the cache.
ImplementsCache == Cache!CacheSpec

\* A call that waits for the gate or holds it returns, also when its workers
\* have all given up while keys are still to be sent, or the process crashes.
SyncReturns == \A c \in Call : cpc[c] \in {"waiting", "running"} ~> cpc[c] \notin {"waiting", "running"}
=============================================================================
