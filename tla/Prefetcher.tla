------------------------------ MODULE Prefetcher ------------------------------
(***************************************************************************)
(* Predictive caching in the server (src/server/prefetch.go and            *)
(* Server.Close, routePrefetcher in src/server/server.go).                 *)
(*                                                                         *)
(* Callers submit lists of tile keys.  A key that is neither cached nor    *)
(* pending goes into a bounded channel, without ever waiting for room;     *)
(* background workers take keys from it and look them up, which warms the  *)
(* cache.  Server.Close stops the workers and waits for them.  The         *)
(* generation that is served may be swapped at any time.                   *)
(*                                                                         *)
(* What the cache holds is left open: any question to it may be answered   *)
(* either way (TileCache has its inside).                                  *)
(***************************************************************************)
EXTENDS Integers, Sequences

CONSTANTS
  Caller, Worker, Closer,
  Key,
  KeyLists,   \* the lists of keys that callers submit
  QueueSize,  \* capacity of the channel of jobs
  MaxTiles,   \* keys of one list that are considered
  MaxGen,     \* bound on the generations swapped in
  NoKey

Gen == 1 .. MaxGen

ASSUME PrefetchAssumption ==
  /\ QueueSize \in Nat \ {0} /\ MaxTiles \in Nat \ {0} /\ MaxGen \in Nat \ {0}
  /\ KeyLists \subseteq Seq(Key)
  /\ NoKey \notin Key

VARIABLES
  current,        \* the generation served
  prefetchClosed, \* Server.prefetchClosed
  created,        \* whether the prefetcher exists, and its workers with it
  closed,         \* tilePrefetcher.closed, set together with closing stop
  jobs,           \* the channel of keys
  pending,        \* tilePrefetcher.pending
  wpc, wkey, wgen,     \* workers: place, the key in hand, the generation loaded for it
  cpc, todo, seen,     \* callers: place, the keys still to consider, those considered
  cgen, outcome,       \* the generation whose cache is asked, the outcome of the last key
  kpc,                 \* callers of Server.Close
  asked,               \* history: the generation a pending key was missing in
  late                 \* history: jobs a worker took after the prefetcher was closed

serverVars == <<current, prefetchClosed, created>>
queueVars  == <<closed, jobs, pending, asked>>
workerVars == <<wpc, wkey, wgen, late>>
callerVars == <<cpc, todo, seen, cgen, outcome>>
vars == <<serverVars, queueVars, workerVars, callerVars, kpc>>

Init ==
  /\ current = 1 /\ prefetchClosed = FALSE /\ created = FALSE /\ closed = FALSE
  /\ jobs = <<>> /\ pending = {} /\ asked = [k \in Key |-> 1]
  /\ wpc = [w \in Worker |-> "none"] /\ wkey = [w \in Worker |-> NoKey]
  /\ wgen = [w \in Worker |-> 1] /\ late = [w \in Worker |-> 0]
  /\ cpc = [c \in Caller |-> "idle"] /\ todo = [c \in Caller |-> <<>>]
  /\ seen = [c \in Caller |-> {}] /\ cgen = [c \in Caller |-> 1]
  /\ outcome = [c \in Caller |-> "none"]
  /\ kpc = [k \in Closer |-> "idle"]

Swap ==
  /\ current < MaxGen /\ current' = current + 1
  /\ UNCHANGED <<prefetchClosed, created, queueVars, workerVars, callerVars, kpc>>

-----------------------------------------------------------------------------
(* PrefetchKeys and prefetchTiles.  The lists of PrefetchRoute,            *)
(* PrefetchRange and PrefetchXYZRange come the same way.                   *)

\* At most MaxTiles keys are considered.
Truncated(keys) == IF Len(keys) > MaxTiles THEN SubSeq(keys, 1, MaxTiles) ELSE keys

Submit(c, keys) ==
  /\ cpc[c] = "idle"
  /\ cpc' = [cpc EXCEPT ![c] = "submitted"]
  /\ todo' = [todo EXCEPT ![c] = Truncated(keys)]
  /\ UNCHANGED <<serverVars, queueVars, workerVars, seen, cgen, outcome, kpc>>

\* The call returns and its local variables are gone.
Return(c) ==
  /\ cpc' = [cpc EXCEPT ![c] = "idle"]
  /\ todo' = [todo EXCEPT ![c] = <<>>]
  /\ seen' = [seen EXCEPT ![c] = {}]
  /\ cgen' = [cgen EXCEPT ![c] = 1]
  /\ outcome' = [outcome EXCEPT ![c] = "none"]
  /\ UNCHANGED <<serverVars, queueVars, workerVars, kpc>>

\* ErrPredictiveCachingDisabled: Server.Close was called.
RoutePrefetcherClosed(c) ==
  /\ cpc[c] = "submitted" /\ prefetchClosed
  /\ Return(c)

\* Fault: a prefetcher is made although the server is closed.
RoutePrefetcher_EvenClosed(c) ==
  /\ cpc[c] = "submitted"
  /\ created' = TRUE
  /\ wpc' = IF created THEN wpc ELSE [w \in Worker |-> "check"]
  /\ cpc' = [cpc EXCEPT ![c] = "prefetcher"]
  /\ UNCHANGED <<current, prefetchClosed, queueVars, wkey, wgen, late, todo, seen, cgen, outcome, kpc>>

\* The first caller creates the prefetcher and starts its workers.
RoutePrefetcher(c) ==
  /\ cpc[c] = "submitted" /\ ~prefetchClosed
  /\ created' = TRUE
  /\ wpc' = IF created THEN wpc ELSE [w \in Worker |-> "check"]
  /\ cpc' = [cpc EXCEPT ![c] = "prefetcher"]
  /\ UNCHANGED <<current, prefetchClosed, queueVars, wkey, wgen, late, todo, seen, cgen, outcome, kpc>>

CallerLoadsGeneration(c) ==
  /\ cpc[c] = "prefetcher"
  /\ cgen' = [cgen EXCEPT ![c] = current]
  /\ cpc' = [cpc EXCEPT ![c] = "considering"]
  /\ UNCHANGED <<serverVars, queueVars, workerVars, todo, seen, outcome, kpc>>

\* All keys are considered, the context is done or the next key is invalid.
ReturnResult(c) ==
  /\ cpc[c] = "considering"
  /\ Return(c)

KeyDone(c, result) ==
  /\ todo' = [todo EXCEPT ![c] = Tail(@)]
  /\ outcome' = [outcome EXCEPT ![c] = result]

\* A repetition in the list or a tile that is in the cache is not queued.
SkipKey(c) ==
  /\ cpc[c] = "considering" /\ todo[c] # <<>>
  /\ IF Head(todo[c]) \in seen[c] THEN KeyDone(c, "alreadyQueued") ELSE KeyDone(c, "alreadyCached")
  /\ seen' = [seen EXCEPT ![c] = @ \cup {Head(todo[c])}]
  /\ UNCHANGED <<serverVars, queueVars, workerVars, cpc, cgen, kpc>>

MissKey(c) ==
  /\ cpc[c] = "considering" /\ todo[c] # <<>> /\ Head(todo[c]) \notin seen[c]
  /\ seen' = [seen EXCEPT ![c] = @ \cup {Head(todo[c])}]
  /\ cpc' = [cpc EXCEPT ![c] = "enqueue"]
  /\ UNCHANGED <<serverVars, queueVars, workerVars, todo, cgen, outcome, kpc>>

\* Fault: a call waits until the channel has room.
EnqueueRefused_Waits(c) ==
  /\ cpc[c] = "enqueue" /\ ~closed /\ Head(todo[c]) \in pending
  /\ KeyDone(c, "alreadyQueued")
  /\ cpc' = [cpc EXCEPT ![c] = "considering"]
  /\ UNCHANGED <<serverVars, queueVars, workerVars, seen, cgen, kpc>>

\* enqueue, in one critical section.  The send never waits.
EnqueueRefused(c) ==
  /\ cpc[c] = "enqueue"
  /\ LET k == Head(todo[c]) IN
       \/ closed /\ KeyDone(c, "dropped")
       \/ ~closed /\ k \in pending /\ KeyDone(c, "alreadyQueued")
       \/ ~closed /\ k \notin pending /\ Len(jobs) = QueueSize /\ KeyDone(c, "dropped")
  /\ cpc' = [cpc EXCEPT ![c] = "considering"]
  /\ UNCHANGED <<serverVars, queueVars, workerVars, seen, cgen, kpc>>

EnqueueAccepted(c) ==
  /\ cpc[c] = "enqueue" /\ ~closed /\ Len(jobs) < QueueSize
  /\ LET k == Head(todo[c]) IN
       /\ k \notin pending
       /\ jobs' = Append(jobs, k) /\ pending' = pending \cup {k}
       /\ asked' = [asked EXCEPT ![k] = cgen[c]]
  /\ KeyDone(c, "queued")
  /\ cpc' = [cpc EXCEPT ![c] = "considering"]
  /\ UNCHANGED <<serverVars, closed, workerVars, seen, cgen, kpc>>

-----------------------------------------------------------------------------
(* The workers                                                             *)

\* The first select prefers the end to buffered work.
CheckStop(w) ==
  /\ wpc[w] = "check"
  /\ wpc' = [wpc EXCEPT ![w] = IF closed THEN "gone" ELSE "select"]
  /\ UNCHANGED <<serverVars, queueVars, wkey, wgen, late, callerVars, kpc>>

\* The second select waits for a job or the end, whichever it sees.
StopWorker(w) ==
  /\ wpc[w] = "select" /\ closed
  /\ wpc' = [wpc EXCEPT ![w] = "gone"]
  /\ UNCHANGED <<serverVars, queueVars, wkey, wgen, late, callerVars, kpc>>

TakeJob(w) ==
  /\ wpc[w] = "select" /\ jobs # <<>>
  /\ wkey' = [wkey EXCEPT ![w] = Head(jobs)]
  /\ jobs' = Tail(jobs)
  /\ late' = [late EXCEPT ![w] = IF closed THEN @ + 1 ELSE @]
  /\ wpc' = [wpc EXCEPT ![w] = "taken"]
  /\ UNCHANGED <<serverVars, closed, pending, asked, wgen, callerVars, kpc>>

WorkerLoadsGeneration(w) ==
  /\ wpc[w] = "taken"
  /\ wgen' = [wgen EXCEPT ![w] = current]
  /\ wpc' = [wpc EXCEPT ![w] = "lookup"]
  /\ UNCHANGED <<serverVars, queueVars, wkey, late, callerVars, kpc>>

\* Fault: a key stays pending when its lookup is over.
Complete_KeepsPending(w) ==
  /\ wpc[w] = "lookup"
  /\ wkey' = [wkey EXCEPT ![w] = NoKey]
  /\ wpc' = [wpc EXCEPT ![w] = "check"]
  /\ UNCHANGED <<serverVars, queueVars, wgen, late, callerVars, kpc>>

\* The lookup, whose result and error nobody reads, and complete.
Complete(w) ==
  /\ wpc[w] = "lookup"
  /\ pending' = pending \ {wkey[w]}
  /\ asked' = [asked EXCEPT ![wkey[w]] = 1]
  /\ wkey' = [wkey EXCEPT ![w] = NoKey]
  /\ wgen' = [wgen EXCEPT ![w] = 1]
  /\ wpc' = [wpc EXCEPT ![w] = "check"]
  /\ UNCHANGED <<serverVars, closed, jobs, late, callerVars, kpc>>

-----------------------------------------------------------------------------
(* Server.Close                                                            *)

\* A later call returns at once, also while the first one still waits.
CloseAgain(k) ==
  /\ kpc[k] = "idle" /\ prefetchClosed
  /\ kpc' = [kpc EXCEPT ![k] = "returnedEarly"]
  /\ UNCHANGED <<serverVars, queueVars, workerVars, callerVars>>

CloseFirst(k) ==
  /\ kpc[k] = "idle" /\ ~prefetchClosed
  /\ prefetchClosed' = TRUE
  /\ kpc' = [kpc EXCEPT ![k] = IF created THEN "closing" ELSE "returned"]
  /\ UNCHANGED <<current, created, queueVars, workerVars, callerVars>>

\* tilePrefetcher.close up to the unlock.
SignalStop(k) ==
  /\ kpc[k] = "closing"
  /\ closed' = TRUE
  /\ kpc' = [kpc EXCEPT ![k] = "waiting"]
  /\ UNCHANGED <<serverVars, jobs, pending, asked, workerVars, callerVars>>

CloseReturns(k) ==
  /\ kpc[k] = "waiting" /\ \A w \in Worker : wpc[w] = "gone"
  /\ kpc' = [kpc EXCEPT ![k] = "returned"]
  /\ UNCHANGED <<serverVars, queueVars, workerVars, callerVars>>

-----------------------------------------------------------------------------
CallerStep(c) ==
  \/ RoutePrefetcherClosed(c) \/ RoutePrefetcher(c) \/ CallerLoadsGeneration(c)
  \/ ReturnResult(c) \/ SkipKey(c) \/ MissKey(c) \/ EnqueueRefused(c) \/ EnqueueAccepted(c)

WorkerStep(w) ==
  CheckStop(w) \/ StopWorker(w) \/ TakeJob(w) \/ WorkerLoadsGeneration(w) \/ Complete(w)

CloserStep(k) == SignalStop(k) \/ CloseReturns(k)

Next ==
  \/ Swap
  \/ \E c \in Caller : (\E keys \in KeyLists : Submit(c, keys)) \/ CallerStep(c)
  \/ \E w \in Worker : WorkerStep(w)
  \/ \E k \in Closer : CloseAgain(k) \/ CloseFirst(k) \/ CloserStep(k)

\* Goroutines that can go on do; lookups of the dataset end.  Nobody has to
\* submit keys, swap a generation or close the server.
Fairness ==
  /\ \A c \in Caller : WF_vars(CallerStep(c))
  /\ \A w \in Worker : WF_vars(WorkerStep(w))
  /\ \A k \in Closer : WF_vars(CloserStep(k))

Spec     == Init /\ [][Next]_vars
LiveSpec == Spec /\ Fairness

-----------------------------------------------------------------------------
(* Properties                                                              *)

Working == {"taken", "lookup"}

ServerOK ==
  /\ current \in Gen /\ prefetchClosed \in BOOLEAN /\ created \in BOOLEAN /\ closed \in BOOLEAN
  /\ kpc \in [Closer -> {"idle", "closing", "waiting", "returned", "returnedEarly"}]

QueueOK ==
  /\ jobs \in Seq(Key) /\ Len(jobs) <= QueueSize
  /\ pending \subseteq Key /\ asked \in [Key -> Gen]

WorkersOK ==
  /\ wpc \in [Worker -> {"none", "check", "select", "gone"} \cup Working]
  /\ wkey \in [Worker -> Key \cup {NoKey}]
  /\ ~created => \A w \in Worker : wpc[w] = "none"
  /\ \A w \in Worker : wkey[w] \in Key <=> wpc[w] \in Working
  /\ wgen \in [Worker -> Gen] /\ late \in [Worker -> Nat]

CallersOK ==
  /\ cpc \in [Caller -> {"idle", "submitted", "prefetcher", "considering", "enqueue"}]
  /\ todo \in [Caller -> Seq(Key)]
  /\ \A c \in Caller : cpc[c] = "enqueue" => todo[c] # <<>>
  /\ seen \in [Caller -> SUBSET Key] /\ cgen \in [Caller -> Gen]
  /\ outcome \in [Caller -> {"none", "queued", "alreadyQueued", "alreadyCached", "dropped"}]

TypeOK == ServerOK /\ QueueOK /\ WorkersOK /\ CallersOK

\* The map of pending keys holds exactly the keys that are in the channel or in
\* a worker's hands: no key is refused as queued for ever, none is lost.
PendingIsExact ==
  pending = {jobs[i] : i \in DOMAIN jobs} \cup {wkey[w] : w \in {v \in Worker : wpc[v] \in Working}}

\* No tile is waiting or read twice at the same time.
NoDuplicateWork ==
  /\ \A i, j \in DOMAIN jobs : jobs[i] = jobs[j] => i = j
  /\ \A v, w \in Worker : wpc[v] \in Working /\ wpc[w] \in Working /\ wkey[v] = wkey[w] => v = w
  /\ \A i \in DOMAIN jobs, w \in Worker : wpc[w] \in Working => jobs[i] # wkey[w]

\* When the Close that stops the prefetcher has returned, no worker runs and
\* none is ever started again: the dataset can be closed.
CloseStopsWorkers ==
  (\E k \in Closer : kpc[k] = "returned") => \A w \in Worker : wpc[w] \in {"none", "gone"}

\* "Prefer shutdown over processing buffered work": a worker begins at most one
\* job after the stop, the one its second select may have chosen.
OneLateJob == \A w \in Worker : late[w] <= 1

\* A key that was queued is looked up in a generation that is no older than the
\* one whose cache missed it, however many swaps came between.
ReadsFreshGeneration ==
  \A w \in Worker : wpc[w] = "lookup" => wgen[w] >= asked[wkey[w]]

\* A call that submits keys returns, full queue or not, and Close comes to its
\* end: every worker sees the stop, whatever is still buffered.
CallsReturn ==
  /\ \A c \in Caller : cpc[c] = "submitted" ~> cpc[c] = "idle"
  /\ \A k \in Closer : kpc[k] = "closing" ~> kpc[k] = "returned"

\* A pending key is looked up, unless the server is closed.
PendingIsServed == \A k \in Key : k \in pending ~> k \notin pending \/ closed
=============================================================================
