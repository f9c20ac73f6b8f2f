------------------------------ MODULE TileServer ------------------------------
(***************************************************************************)
(* How the server answers tile requests while its dataset is replaced      *)
(* (src/server/server.go, src/server/tile_load_group.go and the reload and *)
(* shutdown code of src/cmd/tinytiles-server/main.go).                     *)
(*                                                                         *)
(* A request loads the current generation once and works with the cache,   *)
(* the load group and the dataset of that generation to its end.  Requests *)
(* that miss the cache for the same tile share one read of the dataset.    *)
(* The reloader opens a new dataset, swaps it in and closes the one it     *)
(* replaced; at shutdown main closes the last one.                         *)
(*                                                                         *)
(* The cache of a generation is the set of tiles it holds (TileCache has   *)
(* its inside) and a dataset is open, closing or closed (DatasetPool has   *)
(* its readers): a lookup on a dataset that closes fails with ErrClosed.   *)
(***************************************************************************)
EXTENDS Integers, FiniteSets

CONSTANTS
  Request,    \* concurrent HTTP requests; each may be followed by another
  Key,
  MaxGen,     \* bound on the datasets opened in one life of the process
  Tiles,      \* the keys each dataset has a tile for
  NoRequest

Gen == 1 .. MaxGen

ASSUME ServerAssumption ==
  /\ MaxGen \in Nat \ {0}
  /\ NoRequest \notin Request
  /\ Tiles \in [Gen -> SUBSET Key]

VARIABLES
  current,   \* Server.gen
  cached,    \* per generation, the keys in its tileCache
  loads,     \* per generation and key, the request that leads its load
  ds,        \* per dataset, its state
  rpc,       \* where the reloader is
  next,      \* the dataset it opened last
  previous,  \* the dataset it replaced last
  handle,    \* the pointer current of main
  mpc,       \* where main is
  pc,        \* where each request is
  key, gen,  \* what it asks for, and of which generation
  call,      \* the leader whose result a waiter waits for
  result,    \* what a load came to, for its leader and its waiters
  answer,    \* the answer of a request
  canceled,  \* whether the client of a request has gone
  floor      \* the generation that was current when it was accepted

genVars  == <<cached, loads>>
mainVars == <<current, rpc, next, previous, handle, mpc>>
reqVars  == <<pc, key, gen, call, result, answer, canceled, floor>>
vars == <<genVars, mainVars, ds, reqVars>>

\* An outcome carries the generation it comes from.
Outcome(kind, g) == [kind |-> kind, rev |-> g]
Pending == Outcome("pending", 0)

LoadOutcomes == {Pending} \cup [kind : {"tile", "absent", "closed", "failed"}, rev : Gen]
Outcomes     == LoadOutcomes \cup [kind : {"canceled"}, rev : Gen]

\* The places between becoming the leader of a load and publishing its result.
Leading == {"recheck", "acquire", "read", "store", "publish"}

Init ==
  /\ current = 1 /\ next = 1 /\ previous = 1 /\ handle = 1
  /\ cached = [g \in Gen |-> {}]
  /\ loads = [g \in Gen |-> [k \in Key |-> NoRequest]]
  /\ ds = [g \in Gen |-> IF g = 1 THEN "open" ELSE "unopened"]
  /\ rpc = "idle" /\ mpc = "serving"
  /\ pc = [r \in Request |-> "idle"]
  /\ key \in [Request -> Key] /\ gen = [r \in Request |-> 1]
  /\ call = [r \in Request |-> NoRequest]
  /\ result = [r \in Request |-> Pending]
  /\ answer = [r \in Request |-> Pending]
  /\ canceled = [r \in Request |-> FALSE]
  /\ floor = [r \in Request |-> 1]

-----------------------------------------------------------------------------
(* serveXYZ, serveTMSSync and lookupTile                                   *)

Goto(r, label) == pc' = [pc EXCEPT ![r] = label]

\* Requests run until the process exits, but none is accepted in a shutdown.
Running == mpc # "exited"

Accept(r, k) ==
  /\ mpc = "serving" /\ pc[r] \in {"idle", "answered"}
  /\ Goto(r, "accepted")
  /\ key' = [key EXCEPT ![r] = k]
  /\ floor' = [floor EXCEPT ![r] = current]
  /\ answer' = [answer EXCEPT ![r] = Pending]
  /\ canceled' = [canceled EXCEPT ![r] = FALSE]
  /\ UNCHANGED <<genVars, mainVars, ds, gen, call, result>>

Cancel(r) ==
  /\ Running /\ pc[r] \notin {"idle", "answered"} /\ ~canceled[r]
  /\ canceled' = [canceled EXCEPT ![r] = TRUE]
  /\ UNCHANGED <<genVars, mainVars, ds, pc, key, gen, call, result, answer, floor>>

LoadGeneration(r) ==
  /\ Running /\ pc[r] = "accepted"
  /\ gen' = [gen EXCEPT ![r] = current]
  /\ Goto(r, "lookup")
  /\ UNCHANGED <<genVars, mainVars, ds, key, call, result, answer, canceled, floor>>

Answer(r, outcome) ==
  /\ Goto(r, "answered")
  /\ answer' = [answer EXCEPT ![r] = outcome]

\* lookupTile asks the cache first.
LookupCache(r) ==
  /\ Running /\ pc[r] = "lookup"
  /\ IF key[r] \in cached[gen[r]]
     THEN Answer(r, Outcome("tile", gen[r]))
     ELSE Goto(r, "join") /\ UNCHANGED answer
  /\ UNCHANGED <<genVars, mainVars, ds, key, gen, call, result, canceled, floor>>

-----------------------------------------------------------------------------
(* tileLoadGroup.do                                                        *)

\* Fault: one load group for the whole server.
Group_Shared(r) == 1

\* The load group of the request's generation.
Group(r) == gen[r]

Leader(r) == loads[Group(r)][key[r]]

JoinCanceled(r) ==
  /\ Running /\ pc[r] = "join" /\ canceled[r]
  /\ Answer(r, Outcome("canceled", gen[r]))
  /\ UNCHANGED <<genVars, mainVars, ds, key, gen, call, result, canceled, floor>>

BecomeLeader(r) ==
  /\ Running /\ pc[r] = "join" /\ ~canceled[r] /\ Leader(r) = NoRequest
  /\ loads' = [loads EXCEPT ![Group(r)][key[r]] = r]
  /\ Goto(r, "recheck")
  /\ UNCHANGED <<cached, mainVars, ds, key, gen, call, result, answer, canceled, floor>>

BecomeWaiter(r) ==
  /\ Running /\ pc[r] = "join" /\ ~canceled[r] /\ Leader(r) # NoRequest
  /\ call' = [call EXCEPT ![r] = Leader(r)]
  /\ Goto(r, "wait")
  /\ UNCHANGED <<genVars, mainVars, ds, key, gen, result, answer, canceled, floor>>

Forget(r) ==
  /\ call' = [call EXCEPT ![r] = NoRequest]
  /\ result' = [result EXCEPT ![r] = Pending]

Wake(r) ==
  /\ Running /\ pc[r] = "wait" /\ result[r] # Pending
  /\ Answer(r, result[r]) /\ Forget(r)
  /\ UNCHANGED <<genVars, mainVars, ds, key, gen, canceled, floor>>

\* The select may also take this branch when the result is there.
GiveUp(r) ==
  /\ Running /\ pc[r] = "wait" /\ canceled[r]
  /\ Answer(r, Outcome("canceled", gen[r])) /\ Forget(r)
  /\ UNCHANGED <<genVars, mainVars, ds, key, gen, canceled, floor>>

\* A waiter whose call has ended has its result and belongs to no later call.
Waiters(r) == {w \in Request : pc[w] = "wait" /\ call[w] = r /\ result[w] = Pending}

\* Fault: the call stays in the map.
Publish_KeepsCall(r) ==
  /\ Running /\ pc[r] = "publish"
  /\ result' = [w \in Request |-> IF w \in Waiters(r) THEN result[r]
                                  ELSE IF w = r THEN Pending ELSE result[w]]
  /\ Answer(r, result[r])
  /\ UNCHANGED <<genVars, mainVars, ds, key, gen, call, canceled, floor>>

\* Fault: the channel of the call is not closed.
Publish_WakesNobody(r) ==
  /\ Running /\ pc[r] = "publish"
  /\ loads' = [loads EXCEPT ![Group(r)][key[r]] = NoRequest]
  /\ result' = [result EXCEPT ![r] = Pending]
  /\ Answer(r, result[r])
  /\ UNCHANGED <<cached, mainVars, ds, key, gen, call, canceled, floor>>

\* The result is set, the call leaves the map and its channel is closed in one
\* critical section; the leader returns with the same result.
Publish(r) ==
  /\ Running /\ pc[r] = "publish"
  /\ loads' = [loads EXCEPT ![Group(r)][key[r]] = NoRequest]
  /\ result' = [w \in Request |-> IF w \in Waiters(r) THEN result[r]
                                  ELSE IF w = r THEN Pending ELSE result[w]]
  /\ Answer(r, result[r])
  /\ UNCHANGED <<cached, mainVars, ds, key, gen, call, canceled, floor>>

-----------------------------------------------------------------------------
(* loadTile, run by the leader without its client's context                *)

LoadEnds(r, outcome) ==
  /\ Goto(r, "publish")
  /\ result' = [result EXCEPT ![r] = outcome]

\* Another load may have filled the cache since lookupTile asked it.
Recheck(r) ==
  /\ Running /\ pc[r] = "recheck"
  /\ IF key[r] \in cached[gen[r]]
     THEN LoadEnds(r, Outcome("tile", gen[r]))
     ELSE Goto(r, "acquire") /\ UNCHANGED result
  /\ UNCHANGED <<genVars, mainVars, ds, key, gen, call, answer, canceled, floor>>

\* Fault: the load runs with the context of the request that leads it.
AcquireReader_OwnContext(r) ==
  /\ Running /\ pc[r] = "acquire"
  /\ IF canceled[r] THEN LoadEnds(r, Outcome("canceled", gen[r]))
     ELSE IF ds[gen[r]] = "open"
     THEN Goto(r, "read") /\ UNCHANGED result
     ELSE LoadEnds(r, Outcome("closed", gen[r]))
  /\ UNCHANGED <<genVars, mainVars, ds, key, gen, call, answer, canceled, floor>>

AcquireReader(r) ==
  /\ Running /\ pc[r] = "acquire"
  /\ IF ds[gen[r]] = "open"
     THEN Goto(r, "read") /\ UNCHANGED result
     ELSE LoadEnds(r, Outcome("closed", gen[r]))
  /\ UNCHANGED <<genVars, mainVars, ds, key, gen, call, answer, canceled, floor>>

\* The reader is given back before the tile is stored in the cache.
ReadTile(r) ==
  /\ Running /\ pc[r] = "read"
  /\ \/ key[r] \in Tiles[gen[r]] /\ Goto(r, "store") /\ UNCHANGED result
     \/ key[r] \notin Tiles[gen[r]] /\ LoadEnds(r, Outcome("absent", gen[r]))
     \/ LoadEnds(r, Outcome("failed", gen[r]))
  /\ UNCHANGED <<genVars, mainVars, ds, key, gen, call, answer, canceled, floor>>

\* put, which may also decline a payload that is too large.
StoreTile(r) ==
  /\ Running /\ pc[r] = "store"
  /\ cached' \in {cached, [cached EXCEPT ![gen[r]] = @ \cup {key[r]}]}
  /\ LoadEnds(r, Outcome("tile", gen[r]))
  /\ UNCHANGED <<loads, mainVars, ds, key, gen, call, answer, canceled, floor>>

\* The cache of a generation evicts payloads for others.
Evict(g, k) ==
  /\ Running /\ k \in cached[g]
  /\ cached' = [cached EXCEPT ![g] = @ \ {k}]
  /\ UNCHANGED <<loads, mainVars, ds, reqVars>>

-----------------------------------------------------------------------------
(* reloadDataset and SwapDataset                                           *)

\* A reload that cannot open its artifact changes nothing.
OpenDataset ==
  /\ rpc = "idle" /\ Running /\ next < MaxGen
  /\ next' = next + 1
  /\ ds' = [ds EXCEPT ![next + 1] = "open"]
  /\ rpc' = "opened"
  /\ UNCHANGED <<genVars, current, previous, handle, mpc, reqVars>>

\* buildGeneration rejects the artifact: nobody has used the dataset.
SwapRejected ==
  /\ rpc = "opened" /\ Running
  /\ ds' = [ds EXCEPT ![next] = "closed"]
  /\ rpc' = "idle"
  /\ UNCHANGED <<genVars, current, next, previous, handle, mpc, reqVars>>

Swap ==
  /\ rpc = "opened" /\ Running
  /\ current' = next /\ previous' = current
  /\ rpc' = "swapped"
  /\ UNCHANGED <<genVars, next, handle, mpc, ds, reqVars>>

StoreHandle ==
  /\ rpc = "swapped" /\ Running
  /\ handle' = next
  /\ rpc' = "stored"
  /\ UNCHANGED <<genVars, current, next, previous, mpc, ds, reqVars>>

ClosePrevious ==
  /\ rpc = "stored" /\ Running
  /\ ds' = [ds EXCEPT ![previous] = "closing"]
  /\ rpc' = "closing"
  /\ UNCHANGED <<genVars, current, next, previous, handle, mpc, reqVars>>

Readers(g) == {r \in Request : pc[r] = "read" /\ gen[r] = g}

\* Close waits for the lookups in flight.
PreviousClosed ==
  /\ rpc = "closing" /\ Running /\ Readers(previous) = {}
  /\ ds' = [ds EXCEPT ![previous] = "closed"]
  /\ rpc' = "idle"
  /\ UNCHANGED <<genVars, current, next, previous, handle, mpc, reqVars>>

\* Fault: the reload loop waits for signals only.
ReloaderStops_Never == FALSE

\* The reload loop sees that the context of the process is done.
ReloaderStops ==
  /\ rpc = "idle" /\ mpc = "stopping"
  /\ rpc' = "stopped"
  /\ UNCHANGED <<genVars, current, next, previous, handle, mpc, ds, reqVars>>

-----------------------------------------------------------------------------
(* The shutdown of main                                                    *)

\* A signal: ListenAndServe returns, requests in flight keep running.
Shutdown ==
  /\ mpc = "serving" /\ mpc' = "stopping"
  /\ UNCHANGED <<genVars, current, rpc, next, previous, handle, ds, reqVars>>

\* Fault: main does not wait for the reloader.
MainCloses_NoWait ==
  /\ mpc = "stopping" /\ mpc' = "closing"
  /\ ds' = [ds EXCEPT ![handle] = "closing"]
  /\ UNCHANGED <<genVars, current, rpc, next, previous, handle, reqVars>>

MainCloses ==
  /\ mpc = "stopping" /\ rpc = "stopped" /\ mpc' = "closing"
  /\ ds' = [ds EXCEPT ![handle] = "closing"]
  /\ UNCHANGED <<genVars, current, rpc, next, previous, handle, reqVars>>

MainExits ==
  /\ mpc = "closing" /\ Readers(handle) = {} /\ mpc' = "exited"
  /\ ds' = [ds EXCEPT ![handle] = "closed"]
  /\ UNCHANGED <<genVars, current, rpc, next, previous, handle, reqVars>>

-----------------------------------------------------------------------------
DoStep(r) ==
  \/ JoinCanceled(r) \/ BecomeLeader(r) \/ BecomeWaiter(r) \/ Wake(r) \/ GiveUp(r)
  \/ Publish(r)

LoadStep(r) == Recheck(r) \/ AcquireReader(r) \/ ReadTile(r) \/ StoreTile(r)

RequestStep(r) == LoadGeneration(r) \/ LookupCache(r) \/ DoStep(r) \/ LoadStep(r)

ReloadStep == SwapRejected \/ Swap \/ StoreHandle \/ ClosePrevious \/ PreviousClosed \/ ReloaderStops

MainStep == MainCloses \/ MainExits

Next ==
  \/ \E r \in Request : (\E k \in Key : Accept(r, k)) \/ Cancel(r) \/ RequestStep(r)
  \/ \E g \in Gen, k \in Key : Evict(g, k)
  \/ OpenDataset \/ ReloadStep \/ Shutdown \/ MainStep

\* What has begun goes on: handlers, reads of the dataset (all of them end) and
\* the reloader are goroutines nobody blocks for ever.  Nothing has to arrive,
\* be cancelled, evicted, reloaded or shut down.
Fairness ==
  /\ \A r \in Request : WF_vars(RequestStep(r))
  /\ WF_vars(ReloadStep) /\ WF_vars(MainStep)

Spec     == Init /\ [][Next]_vars
LiveSpec == Spec /\ Fairness

-----------------------------------------------------------------------------
(* Properties                                                              *)

TypeOK ==
  /\ current \in Gen /\ next \in Gen /\ previous \in Gen /\ handle \in Gen
  /\ cached \in [Gen -> SUBSET Key]
  /\ loads \in [Gen -> [Key -> Request \cup {NoRequest}]]
  /\ ds \in [Gen -> {"unopened", "open", "closing", "closed"}]
  /\ rpc \in {"idle", "opened", "swapped", "stored", "closing", "stopped"}
  /\ mpc \in {"serving", "stopping", "closing", "exited"}
  /\ pc \in [Request -> {"idle", "accepted", "lookup", "join", "wait", "answered"} \cup Leading]
  /\ key \in [Request -> Key] /\ gen \in [Request -> Gen] /\ floor \in [Request -> Gen]
  /\ call \in [Request -> Request \cup {NoRequest}]
  /\ result \in [Request -> LoadOutcomes] /\ answer \in [Request -> Outcomes]
  /\ canceled \in [Request -> BOOLEAN]

\* The map of the load group names exactly the requests that are loading, so no
\* tile of a generation is read by two of them at once.
SingleFlight ==
  /\ \A r \in Request : pc[r] \in Leading => Leader(r) = r
  /\ \A g \in Gen, k \in Key : loads[g][k] # NoRequest =>
       LET r == loads[g][k] IN pc[r] \in Leading /\ Group(r) = g /\ key[r] = k

\* A waiter without a result waits for a load that is still going on, for the
\* tile it asked for: no wake-up is lost.
WaiterHasLeader ==
  \A w \in Request : pc[w] = "wait" /\ result[w] = Pending =>
    LET r == call[w] IN r \in Request /\ pc[r] \in Leading /\ key[r] = key[w]

\* A request is answered from the generation it loaded, also when another one
\* did the reading, and from none that was replaced before it was accepted:
\* "every request accepted after SwapDataset returns serves newDataset".
AnswersAreCurrent ==
  \A r \in Request : answer[r] # Pending =>
    answer[r].rev = gen[r] /\ answer[r].rev >= floor[r]

\* Only a request whose own client went is told so: the disconnect of the one
\* that leads a load does not reach the others.
OnlyOwnCancellation ==
  \A r \in Request : answer[r] # Pending /\ answer[r].kind = "canceled" => canceled[r]

\* No dataset is closed under a request that reads it.
NoReadAfterClose == \A g \in Gen : ds[g] = "closed" => Readers(g) = {}

\* Until main closes it, the dataset of the current generation is open.
ServedDatasetIsOpen == mpc \in {"serving", "stopping"} => ds[current] = "open"

\* When the process exits in order, no dataset it opened is left open: main
\* closed the one the last reload left current.
NothingLeftOpen == mpc = "exited" => \A g \in Gen : ds[g] \in {"unopened", "closed"}

\* SwapDataset's comment: closing the previous dataset "immediately after a
\* successful swap is safe and does not need an additional drain delay", so no
\* request meets a closed dataset while the server serves.
SwapDropsNoRequest ==
  \A r \in Request : mpc = "serving" /\ answer[r] # Pending => answer[r].kind # "closed"

\* Every accepted request is answered unless the process exits first, whoever
\* leads its load and whichever clients leave.
RequestsAreAnswered ==
  \A r \in Request : pc[r] = "accepted" ~> pc[r] = "answered" \/ mpc = "exited"

\* A shutdown comes to its end: the reloader finishes what it is doing and
\* stops, and no lookup keeps the last dataset from closing.
ShutdownEnds == mpc = "stopping" ~> mpc = "exited"
=============================================================================
