--------------------------- MODULE PrefetcherProofs ---------------------------
(***************************************************************************)
(* Proofs about Prefetcher for any sets of callers, workers and keys, any  *)
(* lists of keys and any capacity of the channel.                          *)
(***************************************************************************)
EXTENDS Prefetcher, SequenceTheorems, TLAPS

-----------------------------------------------------------------------------
(* The inductive invariant                                                 *)

Queued(k) == \E i \in DOMAIN jobs : jobs[i] = k
InHand(k) == \E w \in Worker : wpc[w] \in Working /\ wkey[w] = k

PendingInv ==
  /\ \A k \in Key : k \in pending <=> Queued(k) \/ InHand(k)
  /\ NoDuplicateWork

\* Once the server is closed no worker is started, and the Close that returned
\* has seen all of them gone.
CloseInv ==
  /\ \A s \in Closer : kpc[s] \in {"closing", "waiting", "returned"} => prefetchClosed
  /\ CloseStopsWorkers

\* A worker that took a job late never comes back to the second select.
LateInv ==
  \A w \in Worker : late[w] = 0 \/ (late[w] = 1 /\ closed /\ wpc[w] # "select")

GenerationInv ==
  /\ \A k \in Key : asked[k] <= current
  /\ \A c \in Caller : cgen[c] <= current
  /\ ReadsFreshGeneration

-----------------------------------------------------------------------------
(* Lemmas on the channel                                                   *)

LEMMA GenFacts == Gen \subseteq Nat /\ 1 \in Gen /\ MaxGen \in Nat /\ QueueSize \in Nat \ {0}
  BY PrefetchAssumption DEF Gen

LEMMA TruncatedType ==
  ASSUME NEW keys \in KeyLists
  PROVE  Truncated(keys) \in Seq(Key)
<1>1. keys \in Seq(Key) /\ MaxTiles \in Nat \ {0}
  BY PrefetchAssumption
<1>2. Len(keys) > MaxTiles => SubSeq(keys, 1, MaxTiles) \in Seq(Key)
  <2> SUFFICES ASSUME Len(keys) > MaxTiles
               PROVE  SubSeq(keys, 1, MaxTiles) \in Seq(Key)
    OBVIOUS
  <2>1. \A i \in 1 .. MaxTiles : keys[i] \in Key
    BY <1>1
  <2> QED BY <1>1, <2>1, SubSeqProperties
<1> QED BY <1>1, <1>2 DEF Truncated

\* The members of the channel after a send and after a receive.
LEMMA SentKeys ==
  ASSUME NEW s \in Seq(Key), NEW e \in Key
  PROVE  /\ Append(s, e) \in Seq(Key) /\ Len(Append(s, e)) = Len(s) + 1
         /\ DOMAIN Append(s, e) = 1 .. Len(s) + 1
         /\ Append(s, e)[Len(s) + 1] = e
         /\ \A i \in DOMAIN s : Append(s, e)[i] = s[i]
         /\ DOMAIN s = 1 .. Len(s)
  BY AppendProperties

LEMMA ReceivedKeys ==
  ASSUME NEW s \in Seq(Key), s # <<>>
  PROVE  /\ Tail(s) \in Seq(Key) /\ Len(Tail(s)) = Len(s) - 1 /\ Len(s) \in Nat \ {0}
         /\ Head(s) = s[1] /\ Head(s) \in Key
         /\ DOMAIN s = 1 .. Len(s) /\ DOMAIN Tail(s) = 1 .. Len(s) - 1
         /\ \A i \in DOMAIN Tail(s) : Tail(s)[i] = s[i + 1]
  BY HeadTailProperties

-----------------------------------------------------------------------------
(* Type correctness                                                        *)

LEMMA EmptyChannel == <<>> \in Seq(Key) /\ Len(<<>>) = 0
  OBVIOUS

LEMMA InitType == Init => TypeOK
<1> SUFFICES ASSUME Init PROVE TypeOK
  OBVIOUS
<1> USE GenFacts DEF Init
<1>1. ServerOK
  BY DEF ServerOK
<1>2. QueueOK
  BY EmptyChannel DEF QueueOK
<1>3. WorkersOK
  BY PrefetchAssumption DEF WorkersOK, Working
<1>4. CallersOK
  BY EmptyChannel DEF CallersOK
<1> QED BY <1>1, <1>2, <1>3, <1>4 DEF TypeOK

LEMMA ServerTypeStep ==
  ASSUME TypeOK, [Next]_vars
  PROVE  ServerOK'
<1> USE GenFacts DEF TypeOK, ServerOK, serverVars, queueVars, workerVars, callerVars
<1>1. CASE UNCHANGED vars
  BY <1>1 DEF vars
<1>2. CASE Swap
  BY <1>2 DEF Swap, Gen
<1>3. ASSUME NEW c \in Caller, (\E keys \in KeyLists : Submit(c, keys)) \/ CallerStep(c)
      PROVE  ServerOK'
  BY <1>3 DEF Submit, CallerStep, RoutePrefetcherClosed, RoutePrefetcher, CallerLoadsGeneration,
              ReturnResult, Return, SkipKey, MissKey, EnqueueRefused, EnqueueAccepted
<1>4. ASSUME NEW w \in Worker, WorkerStep(w) PROVE ServerOK'
  BY <1>4 DEF WorkerStep, CheckStop, StopWorker, TakeJob, WorkerLoadsGeneration, Complete
<1>5. ASSUME NEW s \in Closer, CloseAgain(s) \/ CloseFirst(s) \/ CloserStep(s) PROVE ServerOK'
  BY <1>5 DEF CloseAgain, CloseFirst, CloserStep, SignalStop, CloseReturns
<1> QED BY <1>1, <1>2, <1>3, <1>4, <1>5 DEF Next

LEMMA QueueTypeStep ==
  ASSUME TypeOK, [Next]_vars
  PROVE  QueueOK'
<1> USE GenFacts DEF QueueOK, serverVars, queueVars, workerVars, callerVars
<1> QueueOK /\ ServerOK /\ WorkersOK /\ CallersOK
  BY DEF TypeOK
<1>1. CASE UNCHANGED vars
  BY <1>1 DEF vars
<1>2. CASE Swap
  BY <1>2 DEF Swap
<1>3. ASSUME NEW c \in Caller, (\E keys \in KeyLists : Submit(c, keys)) \/ CallerStep(c)
      PROVE  QueueOK'
  <2>1. CASE EnqueueAccepted(c)
    <3>1. Head(todo[c]) \in Key
      BY <2>1, ReceivedKeys DEF EnqueueAccepted, CallersOK
    <3>2. cgen[c] \in Gen
      BY DEF CallersOK
    <3> QED BY <2>1, <3>1, <3>2, SentKeys DEF EnqueueAccepted
  <2>2. CASE ~EnqueueAccepted(c)
    BY <1>3, <2>2 DEF Submit, CallerStep, RoutePrefetcherClosed, RoutePrefetcher, CallerLoadsGeneration,
                      ReturnResult, Return, SkipKey, MissKey, EnqueueRefused
  <2> QED BY <2>1, <2>2
<1>4. ASSUME NEW w \in Worker, WorkerStep(w) PROVE QueueOK'
  <2>1. CASE TakeJob(w)
    BY <2>1, ReceivedKeys DEF TakeJob
  <2>2. CASE ~TakeJob(w)
    BY <1>4, <2>2 DEF WorkerStep, CheckStop, StopWorker, WorkerLoadsGeneration, Complete
  <2> QED BY <2>1, <2>2
<1>5. ASSUME NEW s \in Closer, CloseAgain(s) \/ CloseFirst(s) \/ CloserStep(s) PROVE QueueOK'
  BY <1>5 DEF CloseAgain, CloseFirst, CloserStep, SignalStop, CloseReturns
<1> QED BY <1>1, <1>2, <1>3, <1>4, <1>5 DEF Next

LEMMA WorkersTypeStep ==
  ASSUME TypeOK, [Next]_vars
  PROVE  WorkersOK'
<1> USE GenFacts, PrefetchAssumption
    DEF WorkersOK, Working, serverVars, queueVars, workerVars, callerVars
<1> QueueOK /\ ServerOK /\ WorkersOK
  BY DEF TypeOK
<1>1. CASE UNCHANGED vars
  BY <1>1 DEF vars
<1>2. CASE Swap
  BY <1>2 DEF Swap
<1>3. ASSUME NEW c \in Caller, (\E keys \in KeyLists : Submit(c, keys)) \/ CallerStep(c)
      PROVE  WorkersOK'
  <2>1. CASE RoutePrefetcher(c)
    <3>1. wpc' \in [Worker -> {"none", "check", "select", "gone"} \cup Working]
      BY <2>1 DEF RoutePrefetcher
    <3>2. \A w \in Worker : wpc'[w] = wpc[w] \/ (wpc[w] = "none" /\ wpc'[w] = "check")
      BY <2>1, <3>1 DEF RoutePrefetcher
    <3> QED BY <2>1, <3>1, <3>2 DEF RoutePrefetcher
  <2>2. CASE ~RoutePrefetcher(c)
    BY <1>3, <2>2 DEF Submit, CallerStep, RoutePrefetcherClosed, CallerLoadsGeneration,
                      ReturnResult, Return, SkipKey, MissKey, EnqueueRefused, EnqueueAccepted
  <2> QED BY <2>1, <2>2
<1>4. ASSUME NEW w \in Worker, WorkerStep(w) PROVE WorkersOK'
  <2>1. CASE CheckStop(w) \/ StopWorker(w)
    BY <2>1 DEF CheckStop, StopWorker, ServerOK
  <2>2. CASE TakeJob(w)
    <3>1. Head(jobs) \in Key
      BY <2>2, ReceivedKeys DEF TakeJob, QueueOK
    <3> QED BY <2>2, <3>1 DEF TakeJob, ServerOK
  <2>3. CASE WorkerLoadsGeneration(w) \/ Complete(w)
    BY <2>3 DEF WorkerLoadsGeneration, Complete, ServerOK
  <2> QED BY <1>4, <2>1, <2>2, <2>3 DEF WorkerStep
<1>5. ASSUME NEW s \in Closer, CloseAgain(s) \/ CloseFirst(s) \/ CloserStep(s) PROVE WorkersOK'
  BY <1>5 DEF CloseAgain, CloseFirst, CloserStep, SignalStop, CloseReturns
<1> QED BY <1>1, <1>2, <1>3, <1>4, <1>5 DEF Next

LEMMA CallersTypeStep ==
  ASSUME TypeOK, [Next]_vars
  PROVE  CallersOK'
<1> USE GenFacts DEF CallersOK, serverVars, queueVars, workerVars, callerVars
<1> ServerOK /\ CallersOK
  BY DEF TypeOK
<1>1. CASE UNCHANGED vars
  BY <1>1 DEF vars
<1>2. CASE Swap
  BY <1>2 DEF Swap
<1>3. ASSUME NEW c \in Caller, NEW keys \in KeyLists, Submit(c, keys) PROVE CallersOK'
  BY <1>3, TruncatedType DEF Submit
<1>4. ASSUME NEW c \in Caller, CallerStep(c) PROVE CallersOK'
  <2>1. CASE RoutePrefetcherClosed(c) \/ ReturnResult(c)
    <3>1. Return(c)
      BY <2>1 DEF RoutePrefetcherClosed, ReturnResult
    <3>2. todo' \in [Caller -> Seq(Key)]
      BY <3>1, EmptyChannel DEF Return
    <3>3. \A q \in Caller : cpc'[q] = "enqueue" => q # c /\ todo'[q] = todo[q]
      BY <3>1 DEF Return
    <3> QED BY <3>1, <3>2, <3>3 DEF Return
  <2>2. CASE RoutePrefetcher(c) \/ CallerLoadsGeneration(c)
    BY <2>2 DEF RoutePrefetcher, CallerLoadsGeneration, ServerOK
  <2>3. CASE MissKey(c)
    BY <2>3, ReceivedKeys DEF MissKey
  <2>4. ASSUME todo[c] # <<>> PROVE Head(todo[c]) \in Key /\ Tail(todo[c]) \in Seq(Key)
    BY <2>4, ReceivedKeys
  <2>5. CASE SkipKey(c)
    <3>1. todo' \in [Caller -> Seq(Key)]
      BY <2>4, <2>5 DEF SkipKey, KeyDone
    <3>2. seen' \in [Caller -> SUBSET Key]
      BY <2>4, <2>5 DEF SkipKey
    <3>3. outcome' \in [Caller -> {"none", "queued", "alreadyQueued", "alreadyCached", "dropped"}]
      BY <2>5 DEF SkipKey, KeyDone
    <3>4. \A q \in Caller : cpc'[q] = "enqueue" => q # c
      BY <2>5 DEF SkipKey
    <3>5. \A q \in Caller : q # c => todo'[q] = todo[q]
      BY <2>5 DEF SkipKey, KeyDone
    <3> QED BY <2>5, <3>1, <3>2, <3>3, <3>4, <3>5 DEF SkipKey
  <2>6. CASE EnqueueRefused(c) \/ EnqueueAccepted(c)
    <3>1. \E o \in {"queued", "alreadyQueued", "dropped"} : KeyDone(c, o)
      BY <2>6 DEF EnqueueRefused, EnqueueAccepted
    <3>2. /\ cpc[c] = "enqueue" /\ cpc' = [cpc EXCEPT ![c] = "considering"]
          /\ UNCHANGED <<seen, cgen>>
      BY <2>6 DEF EnqueueRefused, EnqueueAccepted
    <3>3. todo' \in [Caller -> Seq(Key)]
      BY <2>4, <3>1, <3>2 DEF KeyDone
    <3>4. outcome' \in [Caller -> {"none", "queued", "alreadyQueued", "alreadyCached", "dropped"}]
      BY <3>1 DEF KeyDone
    <3>5. \A q \in Caller : q # c => todo'[q] = todo[q]
      BY <3>1 DEF KeyDone
    <3> QED BY <3>2, <3>3, <3>4, <3>5
  <2> QED BY <1>4, <2>1, <2>2, <2>3, <2>5, <2>6 DEF CallerStep
<1>5. ASSUME NEW w \in Worker, WorkerStep(w) PROVE CallersOK'
  BY <1>5 DEF WorkerStep, CheckStop, StopWorker, TakeJob, WorkerLoadsGeneration, Complete
<1>6. ASSUME NEW s \in Closer, CloseAgain(s) \/ CloseFirst(s) \/ CloserStep(s) PROVE CallersOK'
  BY <1>6 DEF CloseAgain, CloseFirst, CloserStep, SignalStop, CloseReturns
<1> QED BY <1>1, <1>2, <1>3, <1>4, <1>5, <1>6 DEF Next

LEMMA TypeStep ==
  ASSUME TypeOK, [Next]_vars
  PROVE  TypeOK'
  BY ServerTypeStep, QueueTypeStep, WorkersTypeStep, CallersTypeStep DEF TypeOK

\* Every reachable state is well typed, and the channel never holds more than
\* its capacity.
THEOREM TypeCorrect == Spec => []TypeOK
<1>1. Init => TypeOK
  BY InitType
<1>2. TypeOK /\ [Next]_vars => TypeOK'
  BY TypeStep
<1> QED BY <1>1, <1>2, PTL DEF Spec

-----------------------------------------------------------------------------
(* Pending keys                                                            *)

LEMMA PendingStep ==
  ASSUME TypeOK, TypeOK', PendingInv, [Next]_vars
  PROVE  PendingInv'
<1> USE DEF PendingInv, NoDuplicateWork, Queued, InHand, serverVars, queueVars, workerVars, callerVars
<1> DEFINE Frame == UNCHANGED <<jobs, pending, wkey>>
                    /\ \A w \in Worker : wpc'[w] \in Working <=> wpc[w] \in Working
<1>1. CASE Frame
  BY <1>1
<1>2. UNCHANGED vars => Frame
  BY DEF vars
<1>3. Swap => Frame
  BY DEF Swap
<1>4. ASSUME NEW c \in Caller, CallerStep(c) PROVE PendingInv'
  <2>1. CASE RoutePrefetcher(c)
    <3>1. \A w \in Worker : wpc'[w] = wpc[w] \/ (wpc[w] = "none" /\ wpc'[w] = "check")
      BY <2>1 DEF RoutePrefetcher, TypeOK, WorkersOK
    <3>2. Frame
      BY <2>1, <3>1 DEF RoutePrefetcher, Working
    <3> QED BY <1>1, <3>2
  <2>2. CASE EnqueueAccepted(c)
    <3> DEFINE k == Head(todo[c])
    <3>1. k \in Key /\ jobs \in Seq(Key)
      BY <2>2, ReceivedKeys DEF EnqueueAccepted, TypeOK, CallersOK, QueueOK
    <3>2. k \notin pending /\ jobs' = Append(jobs, k) /\ pending' = pending \cup {k}
          /\ wpc' = wpc /\ wkey' = wkey
      BY <2>2 DEF EnqueueAccepted
    <3>3. /\ DOMAIN jobs = 1 .. Len(jobs) /\ DOMAIN jobs' = 1 .. Len(jobs) + 1 /\ Len(jobs) \in Nat
          /\ jobs'[Len(jobs) + 1] = k
          /\ \A i \in DOMAIN jobs : jobs'[i] = jobs[i]
      BY <3>1, <3>2, SentKeys, LenProperties
    <3> HIDE DEF k
    <3>4. ~Queued(k) /\ ~InHand(k)
      BY <3>1, <3>2
    <3>5. \A q \in Key : Queued(q)' <=> Queued(q) \/ q = k
      BY <3>3
    <3>6. NoDuplicateWork'
      BY <3>2, <3>3, <3>4
    <3> QED BY <3>1, <3>2, <3>4, <3>5, <3>6
  <2>3. CASE ~RoutePrefetcher(c) /\ ~EnqueueAccepted(c)
    <3>1. Frame
      BY <1>4, <2>3 DEF CallerStep, RoutePrefetcherClosed, CallerLoadsGeneration,
                        ReturnResult, Return, SkipKey, MissKey, EnqueueRefused
    <3> QED BY <1>1, <3>1
  <2> QED BY <2>1, <2>2, <2>3
<1>5. ASSUME NEW c \in Caller, NEW keys \in KeyLists, Submit(c, keys) PROVE Frame
  BY <1>5 DEF Submit
<1>6. ASSUME NEW w \in Worker, WorkerStep(w) PROVE PendingInv'
  <2>1. CASE TakeJob(w)
    <3>1. jobs \in Seq(Key) /\ jobs # <<>>
      BY <2>1 DEF TakeJob, TypeOK, QueueOK
    <3>2. /\ jobs' = Tail(jobs) /\ pending' = pending
          /\ wpc[w] \notin Working /\ wpc'[w] \in Working /\ wkey'[w] = Head(jobs)
          /\ \A v \in Worker : v # w => wpc'[v] = wpc[v] /\ wkey'[v] = wkey[v]
      BY <2>1 DEF TakeJob, TypeOK, WorkersOK, Working
    <3>3. /\ Len(jobs) \in Nat \ {0} /\ Head(jobs) = jobs[1] /\ Head(jobs) \in Key
          /\ DOMAIN jobs = 1 .. Len(jobs) /\ DOMAIN jobs' = 1 .. Len(jobs) - 1
          /\ \A i \in DOMAIN jobs' : jobs'[i] = jobs[i + 1]
      BY <3>1, <3>2, ReceivedKeys
    <3>4. \A q \in Key : Queued(q) <=> Queued(q)' \/ q = Head(jobs)
      <4> SUFFICES ASSUME NEW q \in Key PROVE Queued(q) <=> Queued(q)' \/ q = Head(jobs)
        OBVIOUS
      <4>1. ASSUME NEW i \in DOMAIN jobs, jobs[i] = q, q # Head(jobs) PROVE Queued(q)'
        <5>1. i - 1 \in DOMAIN jobs' /\ jobs'[i - 1] = jobs[i]
          BY <3>3, <4>1
        <5> QED BY <4>1, <5>1
      <4>2. Queued(q)' => Queued(q)
        BY <3>3
      <4>3. q = Head(jobs) => Queued(q)
        BY <3>3
      <4> QED BY <4>1, <4>2, <4>3
    <3>5. \A q \in Key : InHand(q)' <=> InHand(q) \/ q = Head(jobs)
      BY <3>2
    <3>6. \A i \in DOMAIN jobs' : jobs'[i] # Head(jobs)
      BY <3>3
    <3>7. \A v \in Worker : wpc[v] \in Working => wkey[v] # Head(jobs)
      BY <3>3
    <3>8. /\ \A i, j \in DOMAIN jobs' : jobs'[i] = jobs'[j] => i = j
          /\ \A i \in DOMAIN jobs', v \in Worker : wpc[v] \in Working => jobs'[i] # wkey[v]
      BY <3>3
    <3>9. NoDuplicateWork'
      BY <3>2, <3>6, <3>7, <3>8
    <3> QED BY <3>2, <3>4, <3>5, <3>9
  <2>2. CASE Complete(w)
    <3>1. /\ jobs' = jobs /\ pending' = pending \ {wkey[w]}
          /\ wpc[w] \in Working /\ wpc'[w] \notin Working
          /\ \A v \in Worker : v # w => wpc'[v] = wpc[v] /\ wkey'[v] = wkey[v]
      BY <2>2 DEF Complete, TypeOK, WorkersOK, Working
    <3>2. \A q \in Key : InHand(q)' <=> InHand(q) /\ q # wkey[w]
      BY <3>1
    <3>3. \A q \in Key : Queued(q)' <=> Queued(q)
      BY <3>1
    <3>4. \A q \in Key : Queued(q) => q # wkey[w]
      BY <3>1
    <3>5. NoDuplicateWork'
      BY <3>1
    <3> QED BY <3>1, <3>2, <3>3, <3>4, <3>5
  <2>3. CASE CheckStop(w) \/ StopWorker(w) \/ WorkerLoadsGeneration(w)
    <3>1. Frame
      BY <2>3 DEF CheckStop, StopWorker, WorkerLoadsGeneration, Working, TypeOK, WorkersOK
    <3> QED BY <1>1, <3>1
  <2> QED BY <1>6, <2>1, <2>2, <2>3 DEF WorkerStep
<1>7. ASSUME NEW s \in Closer, CloseAgain(s) \/ CloseFirst(s) \/ CloserStep(s) PROVE Frame
  BY <1>7 DEF CloseAgain, CloseFirst, CloserStep, SignalStop, CloseReturns
<1> HIDE DEF Frame, PendingInv
<1> QED BY <1>1, <1>2, <1>3, <1>4, <1>5, <1>6, <1>7 DEF Next

LEMMA PendingAlways == Spec => [](TypeOK /\ PendingInv)
<1>1. Init => PendingInv
  BY DEF Init, PendingInv, NoDuplicateWork, Queued, InHand, Working
<1>2. TypeOK /\ TypeOK' /\ PendingInv /\ [Next]_vars => PendingInv'
  BY PendingStep
<1> QED BY <1>1, <1>2, TypeCorrect, PTL DEF Spec

\* The map of pending keys is exactly what is in the channel and in the hands
\* of workers (prefetch.go: enqueue, complete).
THEOREM PendingKeysAreExact == Spec => []PendingIsExact
<1>1. TypeOK /\ PendingInv => PendingIsExact
  <2> SUFFICES ASSUME TypeOK, PendingInv PROVE PendingIsExact
    OBVIOUS
  <2>1. \A i \in DOMAIN jobs : jobs[i] \in Key
    BY DEF TypeOK, QueueOK
  <2>2. \A w \in Worker : wpc[w] \in Working => wkey[w] \in Key
    BY DEF TypeOK, WorkersOK
  <2>3. pending \subseteq Key
    BY DEF TypeOK, QueueOK
  <2> QED BY <2>1, <2>2, <2>3 DEF PendingIsExact, PendingInv, Queued, InHand
<1> QED BY <1>1, PendingAlways, PTL

\* No tile is waiting or being read twice at once.
THEOREM WorkIsNotRepeated == Spec => []NoDuplicateWork
<1>1. PendingInv => NoDuplicateWork
  BY DEF PendingInv
<1> QED BY <1>1, PendingAlways, PTL

-----------------------------------------------------------------------------
(* The end of the workers                                                  *)

LEMMA CloseStep ==
  ASSUME TypeOK, CloseInv, [Next]_vars
  PROVE  CloseInv'
<1> USE DEF CloseInv, CloseStopsWorkers, serverVars, queueVars, workerVars, callerVars
<1> ServerOK /\ WorkersOK
  BY DEF TypeOK
<1>1. CASE UNCHANGED vars
  BY <1>1 DEF vars
<1>2. CASE Swap
  BY <1>2 DEF Swap
<1>3. ASSUME NEW c \in Caller, (\E keys \in KeyLists : Submit(c, keys)) \/ CallerStep(c)
      PROVE  CloseInv'
  BY <1>3 DEF Submit, CallerStep, RoutePrefetcherClosed, RoutePrefetcher, CallerLoadsGeneration,
              ReturnResult, Return, SkipKey, MissKey, EnqueueRefused, EnqueueAccepted
<1>4. ASSUME NEW w \in Worker, WorkerStep(w) PROVE CloseInv'
  BY <1>4 DEF WorkerStep, CheckStop, StopWorker, TakeJob, WorkerLoadsGeneration, Complete, WorkersOK
<1>5. ASSUME NEW s \in Closer, CloseAgain(s) \/ CloseFirst(s) \/ CloserStep(s) PROVE CloseInv'
  BY <1>5 DEF CloseAgain, CloseFirst, CloserStep, SignalStop, CloseReturns, ServerOK, WorkersOK
<1> QED BY <1>1, <1>2, <1>3, <1>4, <1>5 DEF Next

\* After the Close that stops the prefetcher has returned no worker runs, and
\* no later call starts one (server.go: Close, routePrefetcher).
THEOREM ClosedPrefetcherIsQuiet == Spec => []CloseStopsWorkers
<1>1. Init => CloseInv
  BY DEF Init, CloseInv, CloseStopsWorkers
<1>2. TypeOK /\ CloseInv /\ [Next]_vars => CloseInv'
  BY CloseStep
<1>3. CloseInv => CloseStopsWorkers
  BY DEF CloseInv
<1> QED BY <1>1, <1>2, <1>3, TypeCorrect, PTL DEF Spec

LEMMA LateStep ==
  ASSUME TypeOK, LateInv, [Next]_vars
  PROVE  LateInv'
<1> USE DEF LateInv, serverVars, queueVars, workerVars, callerVars
<1> ServerOK /\ WorkersOK
  BY DEF TypeOK
<1>1. CASE UNCHANGED vars
  BY <1>1 DEF vars
<1>2. CASE Swap
  BY <1>2 DEF Swap
<1>3. ASSUME NEW c \in Caller, (\E keys \in KeyLists : Submit(c, keys)) \/ CallerStep(c)
      PROVE  LateInv'
  BY <1>3 DEF Submit, CallerStep, RoutePrefetcherClosed, RoutePrefetcher, CallerLoadsGeneration,
              ReturnResult, Return, SkipKey, MissKey, EnqueueRefused, EnqueueAccepted
<1>4. ASSUME NEW w \in Worker, WorkerStep(w) PROVE LateInv'
  BY <1>4 DEF WorkerStep, CheckStop, StopWorker, TakeJob, WorkerLoadsGeneration, Complete,
              WorkersOK, ServerOK
<1>5. ASSUME NEW s \in Closer, CloseAgain(s) \/ CloseFirst(s) \/ CloserStep(s) PROVE LateInv'
  BY <1>5 DEF CloseAgain, CloseFirst, CloserStep, SignalStop, CloseReturns
<1> QED BY <1>1, <1>2, <1>3, <1>4, <1>5 DEF Next

\* Of the jobs that are still buffered at the stop, each worker begins at most
\* one (prefetch.go: the two selects of the worker loop).
THEOREM StopOvertakesBuffer == Spec => []OneLateJob
<1>1. Init => LateInv
  BY DEF Init, LateInv
<1>2. TypeOK /\ LateInv /\ [Next]_vars => LateInv'
  BY LateStep
<1>3. LateInv => OneLateJob
  BY DEF LateInv, OneLateJob
<1> QED BY <1>1, <1>2, <1>3, TypeCorrect, PTL DEF Spec

-----------------------------------------------------------------------------
(* Generations                                                             *)

LEMMA GenerationStep ==
  ASSUME TypeOK, PendingInv, GenerationInv, [Next]_vars
  PROVE  GenerationInv'
<1> USE GenFacts DEF GenerationInv, ReadsFreshGeneration, serverVars, queueVars, workerVars, callerVars
<1> ServerOK /\ WorkersOK /\ QueueOK /\ CallersOK
  BY DEF TypeOK
<1>1. CASE UNCHANGED vars
  BY <1>1 DEF vars
<1>2. CASE Swap
  <2>1. /\ \A k \in Key : asked[k] \in Nat
        /\ \A c \in Caller : cgen[c] \in Nat
        /\ current \in Nat
    BY DEF ServerOK, QueueOK, CallersOK
  <2> QED BY <1>2, <2>1 DEF Swap
<1>3. ASSUME NEW c \in Caller, (\E keys \in KeyLists : Submit(c, keys)) \/ CallerStep(c)
      PROVE  GenerationInv'
  <2>1. CASE EnqueueAccepted(c)
    <3> DEFINE k == Head(todo[c])
    <3>1. k \notin pending /\ asked' = [asked EXCEPT ![k] = cgen[c]]
          /\ UNCHANGED <<wpc, wkey, wgen, cgen, current>>
      BY <2>1 DEF EnqueueAccepted
    <3>2. \A w \in Worker : wpc[w] = "lookup" => wkey[w] \in Key /\ wkey[w] \in pending
      BY DEF PendingInv, InHand, WorkersOK, Working
    <3> HIDE DEF k
    <3> QED BY <3>1, <3>2 DEF QueueOK
  <2>2. CASE RoutePrefetcher(c)
    BY <2>2 DEF RoutePrefetcher, WorkersOK
  <2>3. CASE ~EnqueueAccepted(c) /\ ~RoutePrefetcher(c)
    <3>1. UNCHANGED <<current, asked, wpc, wkey, wgen>>
      BY <1>3, <2>3 DEF Submit, CallerStep, RoutePrefetcherClosed, CallerLoadsGeneration,
                        ReturnResult, Return, SkipKey, MissKey, EnqueueRefused
    <3>2. cgen' \in {cgen, [cgen EXCEPT ![c] = 1], [cgen EXCEPT ![c] = current]}
      BY <1>3, <2>3 DEF Submit, CallerStep, RoutePrefetcherClosed, CallerLoadsGeneration,
                        ReturnResult, Return, SkipKey, MissKey, EnqueueRefused
    <3>3. current \in Nat /\ 1 <= current
      BY DEF ServerOK, Gen
    <3>4. \A q \in Caller : cgen'[q] \in {cgen[q], 1, current}
      BY <3>2 DEF CallersOK
    <3> QED BY <3>1, <3>3, <3>4
  <2> QED BY <2>1, <2>2, <2>3
<1>4. ASSUME NEW w \in Worker, WorkerStep(w) PROVE GenerationInv'
  <2>1. CASE CheckStop(w) \/ StopWorker(w) \/ TakeJob(w)
    BY <2>1 DEF CheckStop, StopWorker, TakeJob, WorkersOK
  <2>2. CASE WorkerLoadsGeneration(w)
    BY <2>2 DEF WorkerLoadsGeneration, WorkersOK, Working
  <2>3. CASE Complete(w)
    <3>1. /\ \A v \in Worker : wpc[v] = "lookup" => wkey[v] \in Key
          /\ \A v \in Worker : v # w => wpc'[v] = wpc[v] /\ wkey'[v] = wkey[v] /\ wgen'[v] = wgen[v]
          /\ wpc'[w] = "check" /\ UNCHANGED <<cgen, current>>
      BY <2>3 DEF Complete, WorkersOK, Working
    <3>2. \A k \in Key : asked'[k] = asked[k] \/ asked'[k] = 1
      BY <2>3 DEF Complete, QueueOK
    <3>3. \A k \in Key, v \in Worker : asked[k] \in Nat /\ wgen[v] \in Nat /\ wgen[v] >= 1 /\ current >= 1
      BY DEF QueueOK, WorkersOK, ServerOK, Gen
    <3> QED BY <3>1, <3>2, <3>3
  <2> QED BY <1>4, <2>1, <2>2, <2>3 DEF WorkerStep
<1>5. ASSUME NEW s \in Closer, CloseAgain(s) \/ CloseFirst(s) \/ CloserStep(s) PROVE GenerationInv'
  BY <1>5 DEF CloseAgain, CloseFirst, CloserStep, SignalStop, CloseReturns
<1> QED BY <1>1, <1>2, <1>3, <1>4, <1>5 DEF Next

\* A queued key is looked up in a generation at least as new as the one whose
\* cache missed it (prefetch.go: the worker loads the generation per job).
THEOREM PrefetchReadsFresh == Spec => []ReadsFreshGeneration
<1>1. Init => GenerationInv
  BY DEF Init, GenerationInv, ReadsFreshGeneration
<1>2. TypeOK /\ PendingInv /\ GenerationInv /\ [Next]_vars => GenerationInv'
  BY GenerationStep
<1>3. GenerationInv => ReadsFreshGeneration
  BY DEF GenerationInv
<1> QED BY <1>1, <1>2, <1>3, PendingAlways, PTL DEF Spec
=============================================================================
