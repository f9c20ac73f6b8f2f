----------------------------- MODULE DatasetPool -----------------------------
(***************************************************************************)
(* The reader pool of a Dataset (src/dataset.go): Open fills it, a lookup  *)
(* takes a reader out of one of its two channels, registers itself as in   *)
(* flight, uses the reader and puts it back, and Close stops the traffic   *)
(* and closes the readers.                                                 *)
(*                                                                         *)
(* Everything a lookup does without synchronising is one step; every       *)
(* channel operation and every critical section of Dataset.mu is a step of *)
(* its own.  The two channels are kept as sets: they hand readers out in   *)
(* some order, and no property depends on which.                           *)
(***************************************************************************)
EXTENDS Integers, FiniteSets

CONSTANTS
  Reader,    \* the tiles.Reader handles of the pool (options.Readers of them)
  Request,   \* goroutines that perform lookups, one at a time each
  Closer,    \* goroutines that call Dataset.Close
  Opener,    \* the goroutine inside Open, which calls Close when it fails
  NoReader

ASSUME PoolAssumption ==
  /\ IsFiniteSet(Reader) /\ Reader # {}
  /\ IsFiniteSet(Request)
  /\ NoReader \notin Reader
  /\ Opener \notin Closer

VARIABLES
  opc,        \* how far Open got
  opened,     \* the readers tiles.OpenArtifact has returned
  hot,        \* the readers buffered in hotReader (capacity 1)
  pool,       \* the readers buffered in readers (capacity readerCount - 1)
  closed,     \* Dataset.closed; the channel done is closed in the same step
  inFlight,   \* the counter of the WaitGroup
  pc,         \* where each lookup is
  held,       \* the reader a lookup has received from a channel
  canceled,   \* whether the context of the lookup is done
  cpc,        \* where each call of Close is
  closes      \* how often Close was called on each reader

openVars  == <<opc, opened>>
poolVars  == <<hot, pool>>
lookVars  == <<pc, held, canceled>>
closeVars == <<closed, cpc>>
vars == <<openVars, poolVars, lookVars, closeVars, inFlight, closes>>

Closers     == Closer \cup {Opener}
ReaderCount == Cardinality(Reader)

\* A lookup is registered from borrow until inFlight.Done.
Registered == {"use", "release", "spill", "finish"}
\* A lookup has a reader of its own from the receive until the send back.
Holding    == {"borrow", "use", "release", "spill"}
LookupPC   == {"idle", "enter", "tryHot", "select"} \cup Holding \cup Registered
ClosePC    == {"idle", "enter", "wait", "drain", "returned"}
OpenPC     == {"first", "scan", "rest", "open", "failed", "closing"}

Init ==
  /\ opc = "first" /\ opened = {}
  /\ hot = {} /\ pool = {}
  /\ closed = FALSE /\ inFlight = 0
  /\ pc = [p \in Request |-> "idle"]
  /\ held = [p \in Request |-> NoReader]
  /\ canceled = [p \in Request |-> FALSE]
  /\ cpc = [c \in Closers |-> "idle"]
  /\ closes = [r \in Reader |-> 0]

-----------------------------------------------------------------------------
(* Open                                                                    *)

\* The first reader is opened to read the artifact's description from it.
OpenFirst(r) ==
  /\ opc = "first"
  /\ opened' = {r} /\ opc' = "scan"
  /\ UNCHANGED <<poolVars, lookVars, closeVars, inFlight, closes>>

OpenFirstFails ==
  /\ opc = "first" /\ opc' = "failed"
  /\ UNCHANGED <<opened, poolVars, lookVars, closeVars, inFlight, closes>>

ScanMetadata ==
  /\ opc = "scan" /\ opc' = "rest"
  /\ hot' = opened
  /\ UNCHANGED <<opened, pool, lookVars, closeVars, inFlight, closes>>

\* A read error or a duplicate metadata name.
ScanMetadataFails ==
  /\ opc = "scan" /\ opc' = "failed"
  /\ closes' = [r \in Reader |-> IF r \in opened THEN closes[r] + 1 ELSE closes[r]]
  /\ UNCHANGED <<opened, poolVars, lookVars, closeVars, inFlight>>

OpenNext(r) ==
  /\ opc = "rest" /\ r \notin opened
  /\ Cardinality(pool) < ReaderCount - 1
  /\ opened' = opened \cup {r} /\ pool' = pool \cup {r}
  /\ UNCHANGED <<opc, hot, lookVars, closeVars, inFlight, closes>>

\* A later reader does not open: the half-filled dataset is closed.
OpenNextFails ==
  /\ opc = "rest" /\ opened # Reader
  /\ opc' = "closing" /\ cpc' = [cpc EXCEPT ![Opener] = "enter"]
  /\ UNCHANGED <<opened, poolVars, lookVars, closed, inFlight, closes>>

OpenReturns ==
  /\ opc = "rest" /\ opened = Reader
  /\ opc' = "open"
  /\ UNCHANGED <<opened, poolVars, lookVars, closeVars, inFlight, closes>>

-----------------------------------------------------------------------------
(* A lookup: acquire, borrow, the reader's own work, release               *)

Goto(p, label) == pc' = [pc EXCEPT ![p] = label]

\* The lookup returns to its caller; the next one starts with a new context.
Return(p) ==
  /\ Goto(p, "idle")
  /\ canceled' = [canceled EXCEPT ![p] = FALSE]

Call(p) ==
  /\ opc = "open" /\ pc[p] = "idle"
  /\ Goto(p, "enter")
  /\ UNCHANGED <<held, canceled, openVars, poolVars, closeVars, inFlight, closes>>

\* The context matters to acquire only: a reader that notices it returns early,
\* which Use allows anyway.
Cancel(p) ==
  /\ pc[p] \in {"enter", "tryHot", "select"} /\ ~canceled[p]
  /\ canceled' = [canceled EXCEPT ![p] = TRUE]
  /\ UNCHANGED <<pc, held, openVars, poolVars, closeVars, inFlight, closes>>

CheckContext(p) ==
  /\ pc[p] = "enter"
  /\ IF canceled[p] THEN Return(p) ELSE Goto(p, "tryHot") /\ UNCHANGED canceled
  /\ UNCHANGED <<held, openVars, poolVars, closeVars, inFlight, closes>>

\* The reader leaves its channel before the lookup is registered.
Receive(p, r) ==
  /\ held' = [held EXCEPT ![p] = r]
  /\ canceled' = [canceled EXCEPT ![p] = FALSE]
  /\ Goto(p, "borrow")
  /\ UNCHANGED <<openVars, closeVars, inFlight, closes>>

TakeHot(p) ==
  /\ pc[p] \in {"tryHot", "select"}
  /\ \E r \in hot : Receive(p, r) /\ hot' = hot \ {r}
  /\ UNCHANGED pool

MissHot(p) ==
  /\ pc[p] = "tryHot" /\ hot = {}
  /\ Goto(p, "select")
  /\ UNCHANGED <<held, canceled, openVars, poolVars, closeVars, inFlight, closes>>

TakePool(p) ==
  /\ pc[p] = "select"
  /\ \E r \in pool : Receive(p, r) /\ pool' = pool \ {r}
  /\ UNCHANGED hot

\* Fault: the select waits for the context but not for done.
SelectDone_ContextOnly(p) ==
  /\ pc[p] = "select" /\ canceled[p]
  /\ Return(p)
  /\ UNCHANGED <<held, openVars, poolVars, closeVars, inFlight, closes>>

SelectDone(p) ==
  /\ pc[p] = "select"
  /\ closed \/ canceled[p]
  /\ Return(p)
  /\ UNCHANGED <<held, openVars, poolVars, closeVars, inFlight, closes>>

\* Fault: borrow registers without looking at closed.
Borrow_IgnoresClose(p) ==
  /\ pc[p] = "borrow"
  /\ inFlight' = inFlight + 1
  /\ Goto(p, "use")
  /\ UNCHANGED <<held, canceled, openVars, poolVars, closeVars, closes>>

\* One critical section of mu.RLock: either register, or, once Close has
\* begun, close the reader that Close can no longer find in a channel.
Borrow(p) ==
  /\ pc[p] = "borrow" /\ ~closed
  /\ inFlight' = inFlight + 1
  /\ Goto(p, "use")
  /\ UNCHANGED <<held, canceled, openVars, poolVars, closeVars, closes>>

\* Fault: the losing borrow drops the reader without closing it.
BorrowClosed_Drops(p) ==
  /\ pc[p] = "borrow" /\ closed
  /\ held' = [held EXCEPT ![p] = NoReader]
  /\ Return(p)
  /\ UNCHANGED <<openVars, poolVars, closeVars, inFlight, closes>>

BorrowClosed(p) ==
  /\ pc[p] = "borrow" /\ closed
  /\ closes' = [closes EXCEPT ![held[p]] = @ + 1]
  /\ held' = [held EXCEPT ![p] = NoReader]
  /\ Return(p)
  /\ UNCHANGED <<openVars, poolVars, closeVars, inFlight>>

\* reader.LookupFunc or reader.Scan with the caller's callback: found, not
\* found, failed or panicked, the deferred release runs.
Use(p) ==
  /\ pc[p] = "use"
  /\ Goto(p, "release")
  /\ UNCHANGED <<held, canceled, openVars, poolVars, closeVars, inFlight, closes>>

ReleaseHot(p) ==
  /\ pc[p] = "release" /\ hot = {}
  /\ hot' = {held[p]}
  /\ held' = [held EXCEPT ![p] = NoReader]
  /\ Goto(p, "finish")
  /\ UNCHANGED <<canceled, pool, openVars, closeVars, inFlight, closes>>

ReleaseFull(p) ==
  /\ pc[p] = "release" /\ hot # {}
  /\ Goto(p, "spill")
  /\ UNCHANGED <<held, canceled, openVars, poolVars, closeVars, inFlight, closes>>

\* A blocking send: it waits while the channel is full.
Spill(p) ==
  /\ pc[p] = "spill" /\ Cardinality(pool) < ReaderCount - 1
  /\ pool' = pool \cup {held[p]}
  /\ held' = [held EXCEPT ![p] = NoReader]
  /\ Goto(p, "finish")
  /\ UNCHANGED <<canceled, hot, openVars, closeVars, inFlight, closes>>

Finish(p) ==
  /\ pc[p] = "finish"
  /\ inFlight' = inFlight - 1
  /\ Return(p)
  /\ UNCHANGED <<held, openVars, poolVars, closeVars, closes>>

-----------------------------------------------------------------------------
(* Close                                                                   *)

CloseCall(c) ==
  /\ opc = "open" /\ cpc[c] = "idle"
  /\ cpc' = [cpc EXCEPT ![c] = "enter"]
  /\ UNCHANGED <<closed, openVars, poolVars, lookVars, inFlight, closes>>

\* One critical section of mu.Lock.  A second call returns without waiting.
CloseEnter(c) ==
  /\ cpc[c] = "enter"
  /\ closed' = TRUE
  /\ cpc' = [cpc EXCEPT ![c] = IF closed THEN "returned" ELSE "wait"]
  /\ UNCHANGED <<openVars, poolVars, lookVars, inFlight, closes>>

CloseWait(c) ==
  /\ cpc[c] = "wait" /\ inFlight = 0
  /\ cpc' = [cpc EXCEPT ![c] = "drain"]
  /\ UNCHANGED <<closed, openVars, poolVars, lookVars, inFlight, closes>>

Drain(c) ==
  /\ cpc[c] = "drain"
  /\ \E r \in hot \cup pool :
       /\ hot' = hot \ {r} /\ pool' = pool \ {r}
       /\ closes' = [closes EXCEPT ![r] = @ + 1]
  /\ UNCHANGED <<closeVars, openVars, lookVars, inFlight>>

CloseReturn(c) ==
  /\ cpc[c] = "drain" /\ hot \cup pool = {}
  /\ cpc' = [cpc EXCEPT ![c] = "returned"]
  /\ UNCHANGED <<closed, openVars, poolVars, lookVars, inFlight, closes>>

-----------------------------------------------------------------------------
OpenStep ==
  \/ \E r \in Reader : OpenFirst(r) \/ OpenNext(r)
  \/ OpenFirstFails \/ ScanMetadata \/ ScanMetadataFails
  \/ OpenNextFails \/ OpenReturns

\* The steps of a lookup that is under way.
LookupStep(p) ==
  \/ CheckContext(p) \/ TakeHot(p) \/ MissHot(p) \/ TakePool(p) \/ SelectDone(p)
  \/ Borrow(p) \/ BorrowClosed(p) \/ Use(p)
  \/ ReleaseHot(p) \/ ReleaseFull(p) \/ Spill(p) \/ Finish(p)

CloseStep(c) == CloseEnter(c) \/ CloseWait(c) \/ Drain(c) \/ CloseReturn(c)

Next ==
  \/ OpenStep
  \/ \E p \in Request : Call(p) \/ Cancel(p) \/ LookupStep(p)
  \/ \E c \in Closer : CloseCall(c)
  \/ \E c \in Closers : CloseStep(c)

(***************************************************************************)
(* Goroutines that can run do run, and the reader's work ends.  A waiting  *)
(* receiver is served in arrival order by the Go runtime, which is strong  *)
(* fairness of the receive.  Nobody has to call, cancel or close.          *)
(***************************************************************************)
Fairness ==
  /\ \A p \in Request : WF_vars(LookupStep(p)) /\ SF_vars(TakeHot(p) \/ TakePool(p))
  /\ \A c \in Closers : WF_vars(CloseStep(c))

Spec == Init /\ [][Next]_vars /\ Fairness
-----------------------------------------------------------------------------
(* Properties                                                              *)

\* The range of every variable.
TypeOK ==
  /\ opc \in OpenPC /\ opened \in SUBSET Reader
  /\ hot \in SUBSET Reader /\ pool \in SUBSET Reader
  /\ closed \in BOOLEAN /\ inFlight \in Nat
  /\ pc \in [Request -> LookupPC]
  /\ held \in [Request -> Reader \cup {NoReader}]
  /\ canceled \in [Request -> BOOLEAN]
  /\ cpc \in [Closers -> ClosePC]
  /\ closes \in [Reader -> Nat]

\* A reader is in at most one place: one of the two channels or the hands of
\* one lookup, so no two lookups share a pager handle (the comment on Dataset),
\* and hotReader never holds more than its one slot.
ReaderIsExclusive ==
  /\ hot \cap pool = {}
  /\ \A r, s \in hot : r = s
  /\ \A p \in Request : pc[p] \in Holding => held[p] \in Reader \ (hot \cup pool)
  /\ \A p, q \in Request :
       pc[p] \in Holding /\ pc[q] \in Holding /\ held[p] = held[q] => p = q

\* No reader is closed twice, and none is closed while a channel or a lookup
\* still has it: whether Close, the losing borrow or a failed Open closes it.
ClosedReadersAreGone ==
  /\ \A r \in Reader : closes[r] <= 1
  /\ \A r \in hot \cup pool : closes[r] = 0
  /\ \A p \in Request : pc[p] \in Holding => closes[held[p]] = 0

\* The channels have exactly as many slots as there are readers, yet release
\* tries the hot lane first and commits to the other: the send it then makes
\* finds a free slot, however the readers were shuffled meanwhile.
ReleaseNeverBlocks ==
  \A p \in Request : pc[p] = "spill" => Cardinality(pool) < ReaderCount - 1

\* While no lookup is using a reader and the dataset is open, the hot lane is
\* filled, even if releases to the other lane are still under way: the next
\* request of a sequential stream finds the reader (and the page cache) of the
\* one before it.
HotLaneFilledWhenIdle ==
  opc = "open" /\ ~closed
    /\ (\A p \in Request : pc[p] \notin {"borrow", "use", "release"})
  => hot # {}

\* From the moment Close stops waiting, no lookup is registered and none will
\* be: release puts the reader back before it leaves the WaitGroup, and borrow
\* registers under the lock that Close takes.
CloseWaitsForLookups ==
  \A c \in Closers : cpc[c] = "drain" => \A p \in Request : pc[p] \notin Registered

\* Once a closed dataset, or one that Open gave up, has come to rest, every
\* reader that was opened has been closed: a reader that a lookup received
\* from a channel but could not borrow is not forgotten.
NoReaderLeaks ==
  /\ opc = "failed" \/ (closed /\ \E c \in Closers : cpc[c] = "returned")
  /\ \A c \in Closers : cpc[c] \notin {"wait", "drain"}
  /\ \A p \in Request : pc[p] \notin Holding
  => \A r \in opened : closes[r] = 1

\* Every lookup and every call of Close returns, however lookups, cancellations
\* and Close interleave.
CallsReturn ==
  /\ \A p \in Request : pc[p] = "enter" ~> pc[p] = "idle"
  /\ \A c \in Closers : cpc[c] = "enter" ~> cpc[c] = "returned"

\* The comment on Close: it "waits for active lookups, then closes every
\* reader", so when the call that closed the dataset returns, all are closed.
CloseReturnsWithReadersClosed ==
  \A c \in Closers : cpc[c] = "returned" => \A r \in opened : closes[r] = 1
-----------------------------------------------------------------------------
(* The abstract specification                                              *)

InUse == {"use", "release", "spill"}

Lease == INSTANCE ReaderLease WITH
  gone    <- {r \in Reader : closes[r] > 0},
  leases  <- {<<p, held[p]>> : p \in {q \in Request : pc[q] \in InUse}},
  closing <- closed \/ opc = "failed"

\* The pool implements the leases of ReaderLease: no lease after Close has
\* begun, none of a closed reader, and every reader is retired in the end.
ImplementsLease == Lease!Spec
=============================================================================
