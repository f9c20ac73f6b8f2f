-------------------------- MODULE OfflineSyncProofs --------------------------
(***************************************************************************)
(* Proofs about OfflineSync for any calls, workers, revisions and          *)
(* requests, and that it implements OfflineCache.                          *)
(***************************************************************************)
EXTENDS OfflineSync, SequenceTheorems, TLAPS

-----------------------------------------------------------------------------
(* The inductive invariant                                                 *)

\* A call begins with nothing of the one before it.
CleanInv == phase \in {"off", "resolve", "previous", "plan"} => jobs = <<>> /\ ~closed

IsInHand(k) == \E w \in Worker : wpc[w] \in InHand /\ wkey[w] = k

\* While the workers run, no requested key is forgotten unless the sync fails.
ProgressInv ==
  phase = "work" /\ ~Done =>
    /\ \A k \in Wanted :
         \/ k \in Elements(todo) \/ k \in Elements(jobs) \/ IsInHand(k)
         \/ tiles[manifest][k] = "good"
    /\ closed => todo = <<>>
    /\ AllExited => jobs = <<>> /\ (closed \/ todo = <<>>)

\* What is fetched replaces no bad record: one would have failed the sync.  And
\* what is put is a tile of the manifest's revision.
FetchInv ==
  \A w \in Worker :
    /\ wpc[w] \in {"fetch", "put"} => phase = "work" /\ tiles[manifest][wkey[w]] # "bad"
    /\ wpc[w] = "put" => wtile[w] = manifest

\* No record holds the tile of another revision.
NothingForeign == \A r \in Revision, k \in Key : tiles[r][k] # "foreign"

PublishInv ==
  /\ phase \in {"publish", "prune", "published"} => \A k \in Wanted : tiles[manifest][k] = "good"
  /\ phase = "prune" => active = manifest /\ previous # manifest

SyncInv == CleanInv /\ ProgressInv /\ FetchInv /\ NothingForeign /\ PublishInv /\ ActiveIsComplete

-----------------------------------------------------------------------------
(* Lemmas on sequences                                                     *)

LEMMA EmptyList == <<>> \in Seq(Key) /\ Len(<<>>) = 0 /\ Elements(<<>>) = {}
  BY DEF Elements

LEMMA SentKeys ==
  ASSUME NEW s \in Seq(Key), NEW e \in Key
  PROVE  /\ Append(s, e) \in Seq(Key) /\ Len(Append(s, e)) = Len(s) + 1
         /\ Elements(Append(s, e)) = Elements(s) \cup {e}
<1>1. /\ Append(s, e) \in Seq(Key) /\ Len(Append(s, e)) = Len(s) + 1
      /\ Append(s, e)[Len(s) + 1] = e
      /\ \A i \in 1 .. Len(s) : Append(s, e)[i] = s[i]
      /\ DOMAIN s = 1 .. Len(s) /\ Len(s) \in Nat
      /\ DOMAIN Append(s, e) = 1 .. Len(s) + 1
  BY AppendProperties, LenProperties
<1> DEFINE t == Append(s, e)
<1> HIDE DEF t
<1>2. Elements(t) = Elements(s) \cup {e}
  BY <1>1 DEF Elements, t
<1> QED BY <1>1, <1>2 DEF t

LEMMA ReceivedKeys ==
  ASSUME NEW s \in Seq(Key), s # <<>>
  PROVE  /\ Tail(s) \in Seq(Key) /\ Len(Tail(s)) = Len(s) - 1 /\ Len(s) \in Nat \ {0}
         /\ Head(s) \in Key
         /\ Elements(s) = Elements(Tail(s)) \cup {Head(s)}
<1>1. /\ Tail(s) \in Seq(Key) /\ Len(Tail(s)) = Len(s) - 1 /\ Len(s) \in Nat \ {0}
      /\ Head(s) \in Key /\ Head(s) = s[1]
      /\ \A i \in 1 .. Len(s) - 1 : Tail(s)[i] = s[i + 1]
      /\ DOMAIN s = 1 .. Len(s) /\ DOMAIN Tail(s) = 1 .. Len(s) - 1
  BY HeadTailProperties, LenProperties
<1> DEFINE t == Tail(s)
<1>2. t = Tail(s)
  OBVIOUS
<1> HIDE DEF t
<1>3. ASSUME NEW i \in DOMAIN s, i # 1 PROVE s[i] = t[i - 1] /\ i - 1 \in DOMAIN t
  <2>1. i - 1 \in 1 .. Len(s) - 1 /\ (i - 1) + 1 = i
    BY <1>1, <1>3
  <2>2. DOMAIN t = 1 .. Len(s) - 1 /\ \A j \in 1 .. Len(s) - 1 : t[j] = s[j + 1]
    BY <1>1, <1>2
  <2> QED BY <2>1, <2>2
<1>4. Elements(s) \subseteq Elements(t) \cup {Head(s)}
  BY <1>1, <1>3 DEF Elements
<1>5. Elements(t) \cup {Head(s)} \subseteq Elements(s)
  BY <1>1, <1>2 DEF Elements
<1> QED BY <1>1, <1>2, <1>4, <1>5

LEMMA RoomFacts ==
  ASSUME PlanOK
  PROVE  workers \in Nat /\ Capacity \in Nat
<1>1. Len(request.keys) \in Nat /\ request.workers \in Nat
  BY LenProperties DEF PlanOK
<1> QED BY <1>1 DEF workers, Capacity

\* Someone works when a key is asked for.
LEMMA TeamFacts ==
  ASSUME PlanOK, phase # "off", request.keys # <<>>
  PROVE  1 \in Worker /\ 1 <= workers
<1>1. Len(request.keys) \in Nat \ {0}
  BY LenProperties, EmptySeq DEF PlanOK
<1>2. request.workers \in Worker
  BY SyncAssumption DEF PlanOK
<1>3. request.workers \in Nat \ {0} /\ 1 \in Worker
  BY <1>2, SyncAssumption DEF Worker
<1> QED BY <1>1, <1>3 DEF workers

-----------------------------------------------------------------------------
(* Type correctness                                                        *)

LEMMA Unlocked ==
  ASSUME Unlock
  PROVE  /\ holder' = NoCall /\ phase' = "off" /\ PlanOK' /\ WorkOK'
<1>1. PlanOK'
  BY EmptyList DEF Unlock, PlanOK, NoRequest
<1>2. AllExited' /\ wpc' \in [Worker -> {"idle", "exited"} \cup InHand]
      /\ \A w \in Worker : wpc'[w] \notin InHand /\ wkey'[w] = NoKey
  BY DEF Unlock, AllExited, InHand
<1>3. WorkOK'
  <2>1. Len(jobs') <= Capacity'
    BY EmptyList DEF Unlock, NoRequest, workers, Capacity
  <2> QED BY <1>2, <2>1, EmptyList, SyncAssumption DEF Unlock, WorkOK
<1> QED BY <1>1, <1>3 DEF Unlock

LEMMA InitType == Init => TypeOK
<1> SUFFICES ASSUME Init PROVE TypeOK
  OBVIOUS
<1>1. StoreOK
  BY DEF Init, StoreOK
<1>2. GateOK
  BY SyncAssumption DEF Init, GateOK
<1>3. PlanOK
  BY EmptyList DEF Init, PlanOK, NoRequest
<1>4. WorkOK
  <2>1. Len(jobs) <= Capacity
    BY EmptyList DEF Init, NoRequest, workers, Capacity
  <2>2. AllExited /\ wpc \in [Worker -> {"idle", "exited"} \cup InHand]
        /\ \A w \in Worker : wpc[w] \notin InHand /\ wkey[w] = NoKey
    BY DEF Init, AllExited, InHand
  <2> QED BY <2>1, <2>2, EmptyList, SyncAssumption DEF Init, WorkOK
<1> QED BY <1>1, <1>2, <1>3, <1>4 DEF TypeOK

LEMMA StoreTypeStep ==
  ASSUME TypeOK, [Next]_vars
  PROVE  StoreOK'
<1> USE DEF StoreOK, storeVars, callVars, planVars, workVars, workerVars
<1> StoreOK /\ GateOK /\ PlanOK
  BY DEF TypeOK
<1>1. CASE UNCHANGED vars
  BY <1>1 DEF vars
<1>2. CASE Environment
  BY <1>2 DEF Environment, Serve, CallSync, CancelCall, Crash
<1>3. ASSUME NEW c \in Call, GiveUp(c) \/ \E r \in Requests : EnterGate(c, r) PROVE StoreOK'
  BY <1>3 DEF GiveUp, EnterGate
<1>4. CASE Publish
  <2>1. Wanted \subseteq Key
    BY DEF Wanted, Elements, PlanOK
  <2> QED BY <1>4, <2>1 DEF Publish, PlanOK
<1>5. CASE SyncStep /\ ~Publish
  BY <1>5 DEF SyncStep, Abort, ResolveManifest, ReadPrevious, UseWarmTiles, StartWorkers, Offer, Produce,
              CloseJobs, JoinWorkers, JoinFails, Leave, EndPrune, ReturnResult
<1>6. ASSUME NEW w \in Worker, WorkerStep(w) PROVE StoreOK'
  <2>1. CASE PutTile(w)
    <3>1. tiles' \in [Revision -> [Key -> {"absent", "good", "bad", "foreign"}]]
      BY <2>1 DEF PutTile
    <3> QED BY <2>1, <3>1 DEF PutTile, WorkerMoves
  <2>2. CASE ~PutTile(w)
    BY <1>6, <2>2 DEF WorkerStep, Receive, EndOfJobs, StopWorking, FailWorker, ReuseTile, MissTile,
                      FetchTile, WorkerMoves
  <2> QED BY <2>1, <2>2
<1>7. ASSUME NEW k \in Key, PruneTile(k) PROVE StoreOK'
  BY <1>7 DEF PruneTile
<1> QED BY <1>1, <1>2, <1>3, <1>4, <1>5, <1>6, <1>7 DEF Next

\* No worker step touches the gate or the plan.
LEMMA WorkerKeepsPlan ==
  ASSUME NEW w \in Worker, WorkerStep(w)
  PROVE  UNCHANGED <<served, active, covered, cpc, canceled, holder, phase, request, manifest, previous, todo, offering, closed>>
  BY DEF WorkerStep, Receive, EndOfJobs, StopWorking, FailWorker, ReuseTile, MissTile, FetchTile,
         PutTile, WorkerMoves, storeVars, callVars, planVars

LEMMA GateTypeStep ==
  ASSUME TypeOK, [Next]_vars
  PROVE  GateOK'
<1> USE DEF GateOK, storeVars, callVars, planVars, workVars, workerVars
<1> GateOK
  BY DEF TypeOK
<1>1. CASE UNCHANGED vars
  BY <1>1 DEF vars
<1>2. CASE Environment
  <2>1. CASE Crash
    BY <2>1, SyncAssumption DEF Crash, Unlock
  <2>2. CASE ~Crash
    BY <1>2, <2>2 DEF Environment, Serve, CallSync, CancelCall
  <2> QED BY <2>1, <2>2
<1>3. ASSUME NEW c \in Call, GiveUp(c) \/ \E r \in Requests : EnterGate(c, r) PROVE GateOK'
  BY <1>3, SyncAssumption DEF GiveUp, EnterGate, Returns
<1>4. ASSUME NEW outcome \in {"synced", "failed"}, Leave(outcome) PROVE GateOK'
  BY <1>4, SyncAssumption DEF Leave, Returns, Unlock
<1>5. CASE SyncStep
  <2>1. CASE Abort \/ JoinFails \/ ReturnResult
    BY <1>4, <2>1 DEF Abort, JoinFails, ReturnResult
  <2>2. CASE ~(Abort \/ JoinFails \/ ReturnResult)
    BY <1>5, <2>2 DEF SyncStep, ResolveManifest, ReadPrevious, UseWarmTiles, StartWorkers, Offer, Produce,
                      CloseJobs, JoinWorkers, Publish, EndPrune
  <2> QED BY <2>1, <2>2
<1>6. ASSUME NEW w \in Worker, WorkerStep(w) PROVE GateOK'
  BY <1>6, WorkerKeepsPlan
<1>7. ASSUME NEW k \in Key, PruneTile(k) PROVE GateOK'
  BY <1>7 DEF PruneTile
<1> QED BY <1>1, <1>2, <1>3, <1>5, <1>6, <1>7 DEF Next

LEMMA PlanTypeStep ==
  ASSUME TypeOK, [Next]_vars
  PROVE  PlanOK'
<1> USE DEF PlanOK, storeVars, callVars, planVars, workVars, workerVars
<1> PlanOK /\ StoreOK /\ GateOK
  BY DEF TypeOK
<1>1. CASE UNCHANGED vars
  BY <1>1 DEF vars
<1>2. CASE Environment
  <2>1. CASE Crash
    BY <2>1, Unlocked DEF Crash
  <2>2. CASE ~Crash
    BY <1>2, <2>2 DEF Environment, Serve, CallSync, CancelCall
  <2> QED BY <2>1, <2>2
<1>3. ASSUME NEW c \in Call, GiveUp(c) \/ \E r \in Requests : EnterGate(c, r) PROVE PlanOK'
  <2>1. ASSUME NEW r \in Requests, EnterGate(c, r) PROVE PlanOK'
    <3>1. r \in [keys : Seq(Key), workers : Nat, prune : BOOLEAN]
      <4>1. r \in [keys : Seq(Key), workers : Worker, prune : BOOLEAN] /\ Worker \subseteq Nat
        BY SyncAssumption DEF Worker
      <4> QED BY <4>1
    <3>2. request' = r /\ phase' = "resolve" /\ UNCHANGED <<manifest, previous>>
      BY <2>1 DEF EnterGate
    <3> QED BY <3>1, <3>2
  <2> QED BY <1>3, <2>1 DEF GiveUp
<1>4. CASE SyncStep
  <2>1. CASE Abort \/ JoinFails \/ ReturnResult
    BY <2>1, Unlocked DEF Abort, JoinFails, ReturnResult, Leave
  <2>2. CASE ResolveManifest \/ ReadPrevious
    BY <2>2 DEF ResolveManifest, ReadPrevious, StoreOK
  <2>3. CASE Publish
    BY <2>3 DEF Publish, Prunes
  <2>4. CASE UseWarmTiles \/ StartWorkers \/ Offer
             \/ Produce \/ CloseJobs \/ JoinWorkers \/ EndPrune
    BY <2>4 DEF UseWarmTiles, StartWorkers, Offer, Produce, CloseJobs, JoinWorkers, EndPrune
  <2> QED BY <1>4, <2>1, <2>2, <2>3, <2>4 DEF SyncStep
<1>5. ASSUME NEW w \in Worker, WorkerStep(w) PROVE PlanOK'
  BY <1>5, WorkerKeepsPlan
<1>6. ASSUME NEW k \in Key, PruneTile(k) PROVE PlanOK'
  BY <1>6 DEF PruneTile
<1> QED BY <1>1, <1>2, <1>3, <1>4, <1>5, <1>6 DEF Next

LEMMA WorkTypeStep ==
  ASSUME TypeOK, [Next]_vars
  PROVE  WorkOK'
<1> USE DEF WorkOK, storeVars, callVars, planVars, workVars, workerVars
<1> WorkOK /\ PlanOK /\ GateOK
  BY DEF TypeOK
<1> DEFINE Frame == /\ UNCHANGED <<todo, offering, jobs, closed, err, wpc, wkey, wtile>>
                    /\ request' = request /\ (phase' = "work" <=> phase = "work")
<1>0. CASE Frame
  BY <1>0 DEF AllExited, Capacity, workers
<1>1. CASE UNCHANGED vars
  BY <1>0, <1>1 DEF vars
<1>2. CASE Environment
  <2>1. CASE Crash
    BY <2>1, Unlocked DEF Crash
  <2>2. CASE ~Crash
    BY <1>0, <1>2, <2>2 DEF Environment, Serve, CallSync, CancelCall
  <2> QED BY <2>1, <2>2
<1>3. ASSUME NEW c \in Call, GiveUp(c) \/ \E r \in Requests : EnterGate(c, r) PROVE WorkOK'
  <2>1. CASE GiveUp(c)
    <3>1. Frame
      BY <2>1 DEF GiveUp
    <3> QED BY <1>0, <3>1
  <2>2. ASSUME NEW r \in Requests, EnterGate(c, r) PROVE WorkOK'
    <3>1. phase = "off" /\ phase' = "resolve" /\ UNCHANGED <<todo, offering, jobs, closed, err, wpc, wkey, wtile>>
      BY <2>2 DEF EnterGate, GateOK
    <3>2. Len(jobs) = 0
      <4>1. Capacity = 0
        BY <3>1, EmptyList DEF PlanOK, Capacity, workers, NoRequest
      <4> QED BY <4>1, LenProperties
    <3>3. Capacity' \in Nat
      <4>1. Len(r.keys) \in Nat /\ r.workers \in Nat /\ request' = r
        BY <2>2, SyncAssumption, LenProperties DEF EnterGate, Worker
      <4> QED BY <4>1 DEF Capacity, workers
    <3>4. Len(jobs') <= Capacity'
      BY <3>1, <3>2, <3>3
    <3> QED BY <3>1, <3>4 DEF AllExited
  <2> QED BY <1>3, <2>1, <2>2
<1>4. CASE SyncStep
  <2>1. CASE Abort \/ JoinFails \/ ReturnResult
    BY <2>1, Unlocked DEF Abort, JoinFails, ReturnResult, Leave
  <2>2. CASE ResolveManifest \/ ReadPrevious \/ UseWarmTiles \/ Publish \/ EndPrune
    <3>1. Frame
      BY <2>2 DEF ResolveManifest, ReadPrevious, UseWarmTiles, Publish, EndPrune
    <3> QED BY <1>0, <3>1
  <2>3. CASE StartWorkers
    <3>1. wpc' \in [Worker -> {"idle", "exited"} \cup InHand]
      BY <2>3 DEF StartWorkers
    <3>2. \A w \in Worker : wpc[w] \notin InHand /\ wpc'[w] \notin InHand
      BY <2>3 DEF StartWorkers, AllExited, InHand
    <3> QED BY <2>3, <3>1, <3>2 DEF StartWorkers, Capacity, workers, PlanOK
  <2>4. CASE Produce
    <3>1. /\ Head(todo) \in Key /\ Tail(todo) \in Seq(Key)
      BY <2>4, ReceivedKeys DEF Produce
    <3>2. Append(jobs, Head(todo)) \in Seq(Key) /\ Len(Append(jobs, Head(todo))) = Len(jobs) + 1
      BY <3>1, SentKeys
    <3>3. Len(jobs) \in Nat /\ Capacity \in Nat /\ Capacity' = Capacity
      BY <2>4, RoomFacts, LenProperties DEF Produce, Capacity, workers
    <3>4. /\ jobs' = Append(jobs, Head(todo)) /\ todo' = Tail(todo) /\ Len(jobs) < Capacity
          /\ phase = "work" /\ offering' = FALSE /\ UNCHANGED <<phase, closed, err, wpc, wkey, wtile>>
      BY <2>4 DEF Produce
    <3>5. Len(jobs') <= Capacity'
      BY <3>2, <3>3, <3>4
    <3>6. AllExited' = AllExited /\ wpc' \in [Worker -> {"idle", "exited"} \cup InHand]
      BY <3>4 DEF AllExited
    <3> QED BY <3>1, <3>2, <3>4, <3>5, <3>6
  <2>5. CASE Offer \/ CloseJobs
    <3>1. /\ UNCHANGED <<todo, jobs, err, phase, wpc, wkey, wtile>> /\ phase = "work"
          /\ \/ todo # <<>> /\ closed' = FALSE /\ offering' = TRUE
             \/ closed' = TRUE /\ offering' = FALSE
      BY <2>5 DEF Offer, CloseJobs
    <3>2. Capacity' = Capacity
      BY <2>5 DEF Offer, CloseJobs, Capacity, workers
    <3> QED BY <3>1, <3>2 DEF AllExited
  <2>6. CASE JoinWorkers
    BY <2>6 DEF JoinWorkers, Capacity, workers, AllExited
  <2> QED BY <1>4, <2>1, <2>2, <2>3, <2>4, <2>5, <2>6 DEF SyncStep
<1>5. ASSUME NEW w \in Worker, WorkerStep(w) PROVE WorkOK'
  <2>0. phase' = phase /\ todo' = todo /\ offering' = offering /\ closed' = closed /\ Capacity' = Capacity
    BY <1>5, WorkerKeepsPlan DEF Capacity, workers
  <2>1. phase # "work" => ~WorkerStep(w)
    BY DEF WorkerStep, Receive, EndOfJobs, StopWorking, FailWorker, ReuseTile, MissTile, FetchTile,
           PutTile, AllExited
  <2>2. CASE Receive(w)
    <3>1. Head(jobs) \in Key /\ Tail(jobs) \in Seq(Key) /\ Len(Tail(jobs)) <= Capacity
      BY <2>2, ReceivedKeys, RoomFacts DEF Receive
    <3>2. wpc' = [wpc EXCEPT ![w] = "got"] /\ wkey' = [wkey EXCEPT ![w] = Head(jobs)]
          /\ jobs' = Tail(jobs) /\ err' = err /\ wtile' = wtile
      BY <2>2 DEF Receive
    <3> QED BY <1>5, <2>0, <2>1, <3>1, <3>2 DEF InHand
  <2>3. ASSUME NEW place \in {"idle", "exited", "fetch", "put"}, WorkerMoves(w, place), wpc[w] \in InHand \/ place \in {"idle", "exited"},
               err' \in BOOLEAN
        PROVE  WorkOK'
    <3>1. /\ wpc' = [wpc EXCEPT ![w] = place] /\ jobs' = jobs
          /\ wkey' = IF place \in {"idle", "exited"} THEN [wkey EXCEPT ![w] = NoKey] ELSE wkey
          /\ wtile' = [wtile EXCEPT ![w] = IF place = "put" THEN served ELSE NoRevision]
      BY <2>3 DEF WorkerMoves
    <3>2. wtile' \in [Worker -> Revision \cup {NoRevision}]
      BY <3>1 DEF TypeOK, StoreOK
    <3> QED BY <1>5, <2>0, <2>1, <2>3, <3>1, <3>2, SyncAssumption DEF InHand
  <2>4. CASE EndOfJobs(w) \/ StopWorking(w) \/ FailWorker(w)
    BY <2>3, <2>4 DEF EndOfJobs, StopWorking, FailWorker
  <2>5. CASE ReuseTile(w) \/ PutTile(w)
    BY <2>3, <2>5 DEF ReuseTile, PutTile
  <2>6. CASE MissTile(w) \/ FetchTile(w)
    BY <2>3, <2>6 DEF MissTile, FetchTile, InHand
  <2> QED BY <1>5, <2>2, <2>4, <2>5, <2>6 DEF WorkerStep
<1>6. ASSUME NEW k \in Key, PruneTile(k) PROVE WorkOK'
  BY <1>0, <1>6 DEF PruneTile
<1> QED BY <1>1, <1>2, <1>3, <1>4, <1>5, <1>6 DEF Next

LEMMA TypeStep ==
  ASSUME TypeOK, [Next]_vars
  PROVE  TypeOK'
  BY StoreTypeStep, GateTypeStep, PlanTypeStep, WorkTypeStep DEF TypeOK

\* Every reachable state is well typed: in particular one call at most holds
\* the gate, and no worker runs outside its work.
THEOREM TypeCorrect == Spec => []TypeOK
<1>1. Init => TypeOK
  BY InitType
<1>2. TypeOK /\ [Next]_vars => TypeOK'
  BY TypeStep
<1> QED BY <1>1, <1>2, PTL DEF Spec

-----------------------------------------------------------------------------
(* The safety of the switch                                                *)

\* A step that touches neither the store nor the work of the current call, and
\* does not bring its context back.
Untouched ==
  /\ UNCHANGED <<active, tiles, covered, request, manifest, previous, todo, offering, jobs, closed, err, wpc, wkey, wtile>>
  /\ phase = "work" /\ Done => Done'

LEMMA UntouchedStep ==
  ASSUME SyncInv, Untouched, phase' = phase
  PROVE  SyncInv'
<1>1. Wanted' = Wanted /\ AllExited' = AllExited /\ (\A k : IsInHand(k)' = IsInHand(k))
  BY DEF Untouched, Wanted, AllExited, IsInHand
<1>2. ProgressInv'
  BY <1>1 DEF SyncInv, ProgressInv, Untouched
<1>3. FetchInv' /\ NothingForeign' /\ ActiveIsComplete'
  BY DEF SyncInv, FetchInv, NothingForeign, ActiveIsComplete, Untouched
<1>4. PublishInv' /\ CleanInv'
  BY <1>1 DEF SyncInv, PublishInv, CleanInv, Untouched
<1> QED BY <1>2, <1>3, <1>4 DEF SyncInv

LEMMA UnlockStep ==
  ASSUME SyncInv, Unlock, UNCHANGED storeVars
  PROVE  SyncInv'
  BY DEF SyncInv, Unlock, storeVars, CleanInv, ProgressInv, FetchInv, NothingForeign, PublishInv, ActiveIsComplete

LEMMA EnvironmentStep ==
  ASSUME TypeOK, SyncInv, Environment
  PROVE  SyncInv'
<1> USE DEF callVars, planVars, workVars, workerVars
<1>1. CASE Crash
  BY <1>1, UnlockStep DEF Crash
<1>2. CASE ~Crash
  <2>1. UNCHANGED <<storeVars, holder, phase, planVars, workVars>>
    BY <1>2 DEF Environment, Serve, CallSync, CancelCall
  <2>2. phase = "work" /\ canceled[holder] => canceled'[holder]
    <3>1. phase = "work" => holder \in Call /\ cpc[holder] = "running"
      BY DEF TypeOK, GateOK
    <3> QED BY <1>2, <3>1 DEF Environment, Serve, CallSync, CancelCall, TypeOK, GateOK
  <2>3. Untouched /\ phase' = phase
    BY <2>1, <2>2 DEF Untouched, Done, storeVars
  <2> QED BY <2>3, UntouchedStep
<1> QED BY <1>1, <1>2

LEMMA CallStep ==
  ASSUME TypeOK, SyncInv, NEW c \in Call, GiveUp(c) \/ \E r \in Requests : EnterGate(c, r)
  PROVE  SyncInv'
<1>1. CASE GiveUp(c)
  <2>1. Untouched /\ phase' = phase
    <3>1. phase = "work" => holder # c
      BY <1>1 DEF GiveUp, TypeOK, GateOK
    <3>2. phase = "work" => holder \in Call /\ canceled'[holder] = canceled[holder]
      BY <1>1, <3>1 DEF GiveUp, Returns, TypeOK, GateOK
    <3> QED BY <1>1, <3>2 DEF GiveUp, Untouched, Done, storeVars, planVars, workVars, workerVars
  <2> QED BY <2>1, UntouchedStep
<1>2. ASSUME NEW r \in Requests, EnterGate(c, r) PROVE SyncInv'
  <2>1. /\ phase = "off" /\ phase' = "resolve"
        /\ UNCHANGED <<active, tiles, covered, manifest, jobs, closed, wpc, wkey, wtile>>
    BY <1>2 DEF EnterGate, TypeOK, GateOK, storeVars, workVars, workerVars
  <2> QED BY <2>1 DEF SyncInv, CleanInv, ProgressInv, FetchInv, NothingForeign, PublishInv, ActiveIsComplete
<1> QED BY <1>1, <1>2

\* As nothing is foreign, a right checksum means the right tile.
LEMMA SoundIsGood ==
  ASSUME SyncInv, NEW r \in Revision, NEW k \in Key, tiles[r][k] \in Sound
  PROVE  tiles[r][k] = "good"
  BY DEF SyncInv, NothingForeign, Sound

LEMMA WantedKeys == PlanOK => Wanted \subseteq Key
  BY DEF PlanOK, Wanted, Elements

\* The steps of a call before and after its work.
LEMMA PlanStep ==
  ASSUME TypeOK, SyncInv,
         Abort \/ ResolveManifest \/ ReadPrevious \/ UseWarmTiles \/ JoinFails \/ EndPrune \/ ReturnResult
  PROVE  SyncInv'
<1> USE DEF storeVars, callVars, planVars, workVars, workerVars
<1>1. CASE Abort \/ JoinFails \/ ReturnResult
  BY <1>1, UnlockStep DEF Abort, JoinFails, ReturnResult, Leave
<1>2. CASE ResolveManifest \/ ReadPrevious
  <2>1. /\ phase \in {"resolve", "previous"} /\ phase' \in {"previous", "plan"}
        /\ UNCHANGED <<active, tiles, covered, jobs, closed, wpc, wkey, wtile>>
    BY <1>2 DEF ResolveManifest, ReadPrevious
  <2> QED BY <2>1 DEF SyncInv, CleanInv, ProgressInv, FetchInv, NothingForeign, PublishInv, ActiveIsComplete
<1>3. CASE UseWarmTiles \/ EndPrune
  <2>1. /\ phase' \in {"publish", "published"} /\ phase \in {"plan", "prune"}
        /\ \A k \in Wanted : tiles[manifest][k] = "good"
        /\ UNCHANGED <<active, tiles, covered, request, manifest, previous, wpc, wkey, wtile>>
    <3>1. CASE UseWarmTiles
      <4>1. manifest \in Revision /\ Wanted \subseteq Key
        BY <3>1, WantedKeys DEF UseWarmTiles, TypeOK, PlanOK
      <4> QED BY <3>1, <4>1, SoundIsGood DEF UseWarmTiles
    <3>2. CASE EndPrune
      BY <3>2 DEF EndPrune, SyncInv, PublishInv
    <3> QED BY <1>3, <3>1, <3>2
  <2> QED BY <2>1 DEF SyncInv, CleanInv, ProgressInv, FetchInv, NothingForeign, PublishInv, ActiveIsComplete, Wanted
<1> QED BY <1>1, <1>2, <1>3

LEMMA StartStep ==
  ASSUME TypeOK, SyncInv, StartWorkers
  PROVE  SyncInv'
<1>1. /\ phase = "plan" /\ phase' = "work" /\ todo' = request.keys
      /\ wpc' = [w \in Worker |-> IF w <= workers THEN "idle" ELSE "exited"]
      /\ UNCHANGED <<active, tiles, covered, request, manifest, previous, jobs, closed, holder, canceled>>
  BY DEF StartWorkers, storeVars, callVars, planVars
<1>2. Wanted' = Elements(todo')
  BY <1>1 DEF Wanted
<1>3. request.keys # <<>> => ~AllExited'
  <2>1. request.keys # <<>> => 1 \in Worker /\ 1 <= workers
    BY <1>1, TeamFacts DEF TypeOK
  <2> QED BY <1>1, <2>1 DEF AllExited
<1>4. jobs' = <<>> /\ ~closed'
  BY <1>1 DEF SyncInv, CleanInv
<1>5. ProgressInv'
  <2>1. AllExited' => request.keys = <<>>
    BY <1>3
  <2> QED BY <1>1, <1>2, <1>4, <2>1 DEF ProgressInv
<1>6. FetchInv'
  BY <1>1 DEF FetchInv
<1>7. CleanInv' /\ NothingForeign' /\ PublishInv' /\ ActiveIsComplete'
  BY <1>1 DEF CleanInv, NothingForeign, PublishInv, ActiveIsComplete, SyncInv
<1> QED BY <1>5, <1>6, <1>7 DEF SyncInv

LEMMA ProducerStep ==
  ASSUME TypeOK, SyncInv, Offer \/ Produce \/ CloseJobs
  PROVE  SyncInv'
<1>1. /\ phase = "work" /\ phase' = "work" /\ ~closed
      /\ UNCHANGED <<active, tiles, covered, request, manifest, previous, err, holder, canceled, wpc, wkey, wtile>>
  BY DEF Offer, Produce, CloseJobs, storeVars, callVars, planVars, workerVars
<1>2. Wanted' = Wanted /\ AllExited' = AllExited /\ (\A k : IsInHand(k)' = IsInHand(k)) /\ Done' = Done
  BY <1>1 DEF Wanted, AllExited, IsInHand, Done
<1>3. FetchInv' /\ NothingForeign' /\ CleanInv' /\ PublishInv' /\ ActiveIsComplete'
  BY <1>1 DEF SyncInv, FetchInv, NothingForeign, CleanInv, PublishInv, ActiveIsComplete
<1>4. ProgressInv'
  <2> SUFFICES ASSUME ~Done PROVE ProgressInv'
    BY <1>2 DEF ProgressInv
  <2>1. /\ \A k \in Wanted : \/ k \in Elements(todo) \/ k \in Elements(jobs) \/ IsInHand(k)
                             \/ tiles[manifest][k] = "good"
        /\ AllExited => jobs = <<>> /\ todo = <<>>
    BY <1>1 DEF SyncInv, ProgressInv
  <2>2. CASE Produce
    <3>1. todo # <<>> /\ jobs' = Append(jobs, Head(todo)) /\ todo' = Tail(todo) /\ closed' = closed
      BY <2>2 DEF Produce, TypeOK, WorkOK
    <3>2. Head(todo) \in Key /\ Elements(todo) = Elements(Tail(todo)) \cup {Head(todo)}
      BY <3>1, ReceivedKeys DEF TypeOK, WorkOK
    <3>3. Elements(jobs') = Elements(jobs) \cup {Head(todo)}
      BY <3>1, <3>2, SentKeys DEF TypeOK, WorkOK
    <3>4. Elements(todo') = Elements(Tail(todo))
      BY <3>1
    <3>5. ~AllExited'
      BY <1>2, <2>1, <3>1
    <3>6. \A k \in Wanted' : \/ k \in Elements(todo') \/ k \in Elements(jobs') \/ IsInHand(k)'
                             \/ tiles'[manifest'][k] = "good"
      BY <1>1, <1>2, <2>1, <3>2, <3>3, <3>4
    <3> QED BY <1>1, <3>1, <3>5, <3>6 DEF ProgressInv
  <2>3. CASE CloseJobs
    <3>1. todo = <<>> /\ todo' = todo /\ jobs' = jobs
      BY <2>3 DEF CloseJobs
    <3> QED BY <1>1, <1>2, <2>1, <3>1 DEF ProgressInv
  <2>4. CASE Offer
    BY <1>1, <1>2, <2>1, <2>4 DEF Offer, ProgressInv
  <2> QED BY <2>2, <2>3, <2>4
<1> QED BY <1>3, <1>4 DEF SyncInv

\* When the workers are through without an error, every tile is there.
LEMMA JoinStep ==
  ASSUME TypeOK, SyncInv, JoinWorkers
  PROVE  SyncInv'
<1>1. /\ phase = "work" /\ closed /\ AllExited /\ ~Done /\ phase' = "publish"
      /\ UNCHANGED <<active, tiles, covered, request, manifest, previous, wpc, wkey, wtile>>
  BY DEF JoinWorkers, storeVars, planVars, workVars, workerVars
<1>2. todo = <<>> /\ jobs = <<>>
  BY <1>1 DEF SyncInv, ProgressInv
<1>3. \A k \in Wanted : tiles[manifest][k] = "good"
  <2>1. \A k : ~IsInHand(k)
    BY <1>1 DEF IsInHand, AllExited, InHand
  <2> QED BY <1>1, <1>2, <2>1, EmptyList DEF SyncInv, ProgressInv
<1>4. Wanted' = Wanted
  BY <1>1 DEF Wanted
<1>5. FetchInv'
  BY <1>1 DEF FetchInv, AllExited
<1> QED BY <1>1, <1>3, <1>4, <1>5 DEF SyncInv, CleanInv, ProgressInv, NothingForeign, PublishInv, ActiveIsComplete

LEMMA PublishStep ==
  ASSUME TypeOK, SyncInv, Publish
  PROVE  SyncInv'
<1>1. /\ phase = "publish" /\ phase' \in {"prune", "published"} /\ (phase' = "prune" => previous # manifest)
      /\ active' = manifest /\ covered' = IF active = manifest THEN covered \cup Wanted ELSE Wanted
      /\ UNCHANGED <<tiles, request, manifest, previous, wpc, wkey, wtile>>
  BY DEF Publish, Prunes, planVars, workVars, workerVars
<1>2. \A k \in Wanted : tiles[manifest][k] = "good"
  BY <1>1 DEF SyncInv, PublishInv
<1>3. manifest # NoRevision
  BY <1>1, SyncAssumption DEF TypeOK, PlanOK
<1>4. ActiveIsComplete'
  BY <1>1, <1>2, <1>3 DEF SyncInv, ActiveIsComplete
<1>5. Wanted' = Wanted
  BY <1>1 DEF Wanted
<1> QED BY <1>1, <1>2, <1>4, <1>5 DEF SyncInv, CleanInv, ProgressInv, FetchInv, NothingForeign, PublishInv

LEMMA PruneStep ==
  ASSUME TypeOK, SyncInv, NEW k \in Key, PruneTile(k)
  PROVE  SyncInv'
<1>1. /\ phase = "prune" /\ tiles' = [tiles EXCEPT ![previous][k] = "absent"]
      /\ UNCHANGED <<active, covered, phase, request, manifest, previous, wpc, wkey, wtile>>
  BY DEF PruneTile, planVars, workVars, workerVars
<1>2. active = manifest /\ previous # manifest
  BY <1>1 DEF SyncInv, PublishInv
<1>3. tiles'[manifest] = tiles[manifest]
  BY <1>1, <1>2 DEF TypeOK, StoreOK, PlanOK
<1>4. Wanted' = Wanted
  BY <1>1 DEF Wanted
<1> QED BY <1>1, <1>2, <1>3, <1>4
    DEF SyncInv, CleanInv, ProgressInv, FetchInv, NothingForeign, PublishInv, ActiveIsComplete

\* A worker that moves on without losing its key keeps the promise to its sync;
\* one that drops it has failed the sync or found the tile.
LEMMA WorkerMoveStep ==
  ASSUME TypeOK, SyncInv, NEW w \in Worker, NEW place \in {"idle", "exited", "fetch", "put"},
         phase = "work", WorkerMoves(w, place), tiles' = tiles, err => err',
         \/ Done'
         \/ wpc[w] = "idle" /\ place = "exited" /\ closed /\ jobs = <<>>
         \/ wpc[w] \in InHand /\ place = "idle" /\ tiles[manifest][wkey[w]] = "good"
         \/ wpc[w] \in InHand /\ place \in {"fetch", "put"},
         place \in {"fetch", "put"} => tiles[manifest][wkey[w]] # "bad",
         place = "put" => served = manifest
  PROVE  SyncInv'
<1>1. /\ wpc' = [wpc EXCEPT ![w] = place] /\ tiles' = tiles
      /\ wkey' = IF place \in {"idle", "exited"} THEN [wkey EXCEPT ![w] = NoKey] ELSE wkey
      /\ UNCHANGED <<active, covered, request, manifest, previous, todo, jobs, closed, phase, holder, canceled>>
  BY DEF WorkerMoves, callVars, planVars
<1>2. wpc \in [Worker -> {"idle", "exited"} \cup InHand] /\ wkey \in [Worker -> Key \cup {NoKey}]
  BY DEF TypeOK, WorkOK
<1>0. /\ wtile' = [wtile EXCEPT ![w] = IF place = "put" THEN served ELSE NoRevision]
      /\ wtile \in [Worker -> Revision \cup {NoRevision}]
  BY DEF WorkerMoves, TypeOK, WorkOK
<1>3. Wanted' = Wanted /\ (Done => Done')
  BY <1>1 DEF Wanted, Done
<1>4. FetchInv'
  BY <1>0, <1>1, <1>2 DEF SyncInv, FetchInv
<1>5. CleanInv' /\ NothingForeign' /\ PublishInv' /\ ActiveIsComplete'
  BY <1>1 DEF SyncInv, CleanInv, NothingForeign, PublishInv, ActiveIsComplete
<1>6. ProgressInv'
  <2> SUFFICES ASSUME ~Done' PROVE ProgressInv'
    BY DEF ProgressInv
  <2>1. /\ \A k \in Wanted : \/ k \in Elements(todo) \/ k \in Elements(jobs) \/ IsInHand(k)
                             \/ tiles[manifest][k] = "good"
        /\ closed => todo = <<>>
    BY <1>3 DEF SyncInv, ProgressInv
  <2>2. \A k \in Wanted : IsInHand(k) => IsInHand(k)' \/ tiles[manifest][k] = "good"
    <3> SUFFICES ASSUME NEW k \in Wanted, NEW v \in Worker, wpc[v] \in InHand, wkey[v] = k
                 PROVE  IsInHand(k)' \/ tiles[manifest][k] = "good"
      BY DEF IsInHand
    <3>1. CASE v # w
      <4>1. wpc'[v] = wpc[v] /\ wkey'[v] = wkey[v]
        BY <1>1, <1>2, <3>1
      <4> QED BY <4>1 DEF IsInHand
    <3>2. CASE v = w
      <4>1. CASE place = "idle"
        BY <3>2, <4>1 DEF InHand
      <4>2. CASE place \in {"fetch", "put"}
        <5>1. wpc'[w] \in InHand /\ wkey'[w] = k
          BY <1>1, <1>2, <3>2, <4>2 DEF InHand
        <5> QED BY <5>1 DEF IsInHand
      <4> QED BY <3>2, <4>1, <4>2 DEF InHand
    <3> QED BY <3>1, <3>2
  <2>3. AllExited' => jobs = <<>> /\ closed
    <3>1. AllExited' => place = "exited"
      BY <1>1, <1>2 DEF AllExited
    <3> QED BY <3>1
  <2>4. \A k \in Wanted' : \/ k \in Elements(todo') \/ k \in Elements(jobs') \/ IsInHand(k)'
                           \/ tiles'[manifest'][k] = "good"
    BY <1>1, <1>3, <2>1, <2>2
  <2> QED BY <1>1, <2>1, <2>3, <2>4 DEF ProgressInv
<1> QED BY <1>4, <1>5, <1>6 DEF SyncInv

\* Outside its work no worker of a call moves.
LEMMA WorkersWork ==
  ASSUME TypeOK, NEW w \in Worker, WorkerStep(w)
  PROVE  phase = "work"
<1>1. wpc[w] # "exited"
  BY DEF WorkerStep, Receive, EndOfJobs, StopWorking, FailWorker, ReuseTile, MissTile, FetchTile, PutTile
<1> QED BY <1>1 DEF TypeOK, WorkOK, AllExited

LEMMA ReceiveStep ==
  ASSUME TypeOK, SyncInv, NEW w \in Worker, Receive(w), phase = "work"
  PROVE  SyncInv'
<1>1. /\ wpc[w] = "idle" /\ jobs # <<>> /\ wpc' = [wpc EXCEPT ![w] = "got"]
      /\ wkey' = [wkey EXCEPT ![w] = Head(jobs)] /\ jobs' = Tail(jobs)
      /\ UNCHANGED <<active, tiles, covered, request, manifest, previous, todo, closed, err, phase, holder, canceled, wtile>>
  BY DEF Receive, storeVars, callVars, planVars
<1>2. wpc \in [Worker -> {"idle", "exited"} \cup InHand] /\ wkey \in [Worker -> Key \cup {NoKey}]
  BY DEF TypeOK, WorkOK
<1>3. Head(jobs) \in Key /\ Elements(jobs) = Elements(Tail(jobs)) \cup {Head(jobs)}
  BY <1>1, ReceivedKeys DEF TypeOK, WorkOK
<1>4. Wanted' = Wanted /\ Done' = Done
  BY <1>1 DEF Wanted, Done
<1>5. FetchInv' /\ NothingForeign' /\ CleanInv' /\ PublishInv' /\ ActiveIsComplete'
  BY <1>1, <1>2 DEF SyncInv, FetchInv, NothingForeign, CleanInv, PublishInv, ActiveIsComplete
<1>6. ProgressInv'
  <2> SUFFICES ASSUME ~Done PROVE ProgressInv'
    BY <1>4 DEF ProgressInv
  <2>1. /\ \A k \in Wanted : \/ k \in Elements(todo) \/ k \in Elements(jobs) \/ IsInHand(k)
                             \/ tiles[manifest][k] = "good"
        /\ closed => todo = <<>>
    BY DEF SyncInv, ProgressInv
  <2>2. \A k : IsInHand(k) => IsInHand(k)'
    <3> SUFFICES ASSUME NEW k, NEW v \in Worker, wpc[v] \in InHand, wkey[v] = k
                 PROVE  IsInHand(k)'
      BY DEF IsInHand
    <3>1. wpc'[v] = wpc[v] /\ wkey'[v] = wkey[v]
      BY <1>1, <1>2 DEF InHand
    <3> QED BY <3>1 DEF IsInHand
  <2>3. ASSUME NEW k, k = Head(jobs) PROVE IsInHand(k)'
    <3>1. wpc'[w] \in InHand /\ wkey'[w] = k
      BY <1>1, <1>2, <2>3 DEF InHand
    <3> QED BY <3>1 DEF IsInHand
  <2>4. ~AllExited'
    BY <1>1, <1>2 DEF AllExited
  <2>5. \A k \in Wanted' : \/ k \in Elements(todo') \/ k \in Elements(jobs') \/ IsInHand(k)'
                           \/ tiles'[manifest'][k] = "good"
    <3> SUFFICES ASSUME NEW k \in Wanted
                 PROVE  \/ k \in Elements(todo) \/ k \in Elements(Tail(jobs)) \/ IsInHand(k)'
                        \/ tiles[manifest][k] = "good"
      BY <1>1, <1>4
    <3> QED BY <1>3, <2>1, <2>2, <2>3
  <2> QED BY <1>1, <2>1, <2>4, <2>5 DEF ProgressInv
<1> QED BY <1>5, <1>6 DEF SyncInv

\* A tile that is put was absent or is already there: no bad record is hidden.
LEMMA PutIsNew ==
  ASSUME TypeOK, SyncInv, NEW w \in Worker, PutTile(w)
  PROVE  /\ phase = "work" /\ manifest \in Revision /\ wkey[w] \in Key
         /\ tiles[manifest][wkey[w]] \in {"absent", "good"}
         /\ tiles' = [tiles EXCEPT ![manifest][wkey[w]] = "good"]
<1>1. phase = "work" /\ tiles[manifest][wkey[w]] # "bad"
  BY DEF PutTile, SyncInv, FetchInv
<1>2. manifest \in Revision /\ wkey[w] \in Key
  BY <1>1 DEF PutTile, TypeOK, PlanOK, WorkOK, InHand
<1>3. tiles[manifest][wkey[w]] \in {"absent", "good", "bad", "foreign"}
  BY <1>2 DEF TypeOK, StoreOK
<1>4. tiles[manifest][wkey[w]] # "foreign"
  BY <1>2 DEF SyncInv, NothingForeign
<1>5. tiles' = [tiles EXCEPT ![manifest][wkey[w]] = "good"]
  BY DEF PutTile, SyncInv, FetchInv
<1> QED BY <1>1, <1>2, <1>3, <1>4, <1>5

LEMMA PutStep ==
  ASSUME TypeOK, SyncInv, NEW w \in Worker, PutTile(w)
  PROVE  SyncInv'
<1> DEFINE key == wkey[w]
<1>1. /\ wpc[w] = "put" /\ ~Done /\ wpc' = [wpc EXCEPT ![w] = "idle"] /\ wkey' = [wkey EXCEPT ![w] = NoKey]
      /\ tiles' = [tiles EXCEPT ![manifest][key] = "good"]
      /\ UNCHANGED <<active, covered, request, manifest, previous, todo, jobs, closed, err, phase, holder, canceled>>
  BY PutIsNew DEF PutTile, WorkerMoves, callVars, planVars
<1>0. wtile' = [wtile EXCEPT ![w] = NoRevision] /\ wtile \in [Worker -> Revision \cup {NoRevision}]
  BY DEF PutTile, WorkerMoves, TypeOK, WorkOK
<1>2. wpc \in [Worker -> {"idle", "exited"} \cup InHand] /\ wkey \in [Worker -> Key \cup {NoKey}]
  BY DEF TypeOK, WorkOK
<1>3. phase = "work" /\ manifest \in Revision /\ key \in Key
  BY PutIsNew
<1>4. /\ tiles'[manifest][key] = "good"
      /\ \A r \in Revision, k \in Key : tiles[r][k] = "good" => tiles'[r][k] = "good"
      /\ \A k \in Key : tiles[manifest][k] # "bad" => tiles'[manifest][k] # "bad"
  BY <1>1, <1>3 DEF TypeOK, StoreOK
<1>5. Wanted' = Wanted /\ Wanted \subseteq Key /\ Done' = Done
  BY <1>1 DEF Wanted, Elements, Done, TypeOK, PlanOK
<1>6. FetchInv'
  <2> SUFFICES ASSUME NEW v \in Worker, wpc'[v] \in {"fetch", "put"}
               PROVE  phase' = "work" /\ tiles'[manifest'][wkey'[v]] # "bad"
                      /\ (wpc'[v] = "put" => wtile'[v] = manifest')
    BY DEF FetchInv
  <2>1. v # w /\ wpc[v] \in {"fetch", "put"} /\ wkey'[v] = wkey[v] /\ wpc'[v] = wpc[v] /\ wtile'[v] = wtile[v]
    BY <1>0, <1>1, <1>2
  <2>2. tiles[manifest][wkey[v]] # "bad" /\ wkey[v] \in Key /\ (wpc[v] = "put" => wtile[v] = manifest)
    BY <2>1 DEF SyncInv, FetchInv, TypeOK, WorkOK, InHand
  <2> QED BY <1>1, <1>3, <1>4, <2>1, <2>2
<1>7. ActiveIsComplete'
  <2>1. active \in Revision \cup {NoRevision} /\ covered \subseteq Key
    BY DEF TypeOK, StoreOK
  <2> QED BY <1>1, <1>4, <2>1 DEF SyncInv, ActiveIsComplete
<1>8. CleanInv' /\ PublishInv' /\ NothingForeign'
  <2>1. NothingForeign'
    BY <1>1 DEF SyncInv, NothingForeign, TypeOK, StoreOK
  <2> QED BY <1>1, <1>3, <2>1 DEF CleanInv, PublishInv
<1>9. ProgressInv'
  <2>1. /\ \A k \in Wanted : \/ k \in Elements(todo) \/ k \in Elements(jobs) \/ IsInHand(k)
                             \/ tiles[manifest][k] = "good"
        /\ closed => todo = <<>>
    BY <1>1, <1>3 DEF SyncInv, ProgressInv
  <2>2. \A k \in Wanted : IsInHand(k) => IsInHand(k)' \/ k = key
    <3> SUFFICES ASSUME NEW k \in Wanted, NEW v \in Worker, wpc[v] \in InHand, wkey[v] = k, v # w
                 PROVE  IsInHand(k)'
      BY DEF IsInHand
    <3>1. wpc'[v] = wpc[v] /\ wkey'[v] = wkey[v]
      BY <1>1, <1>2
    <3> QED BY <3>1 DEF IsInHand
  <2>3. \A k \in Wanted : \/ k \in Elements(todo) \/ k \in Elements(jobs) \/ IsInHand(k)'
                          \/ tiles'[manifest][k] = "good"
    BY <1>3, <1>4, <1>5, <2>1, <2>2
  <2>4. ~AllExited'
    BY <1>1, <1>2 DEF AllExited
  <2> HIDE DEF key
  <2> QED BY <1>1, <1>5, <2>1, <2>3, <2>4 DEF ProgressInv
<1> QED BY <1>6, <1>7, <1>8, <1>9 DEF SyncInv

LEMMA WorkerInvStep ==
  ASSUME TypeOK, SyncInv, NEW w \in Worker, WorkerStep(w)
  PROVE  SyncInv'
<1>1. phase = "work"
  BY WorkersWork
<1>2. ASSUME WorkerMoves(w, "exited") PROVE UNCHANGED <<holder, canceled>>
  BY <1>2 DEF WorkerMoves, callVars
<1>3. CASE EndOfJobs(w)
  BY <1>1, <1>3, WorkerMoveStep DEF EndOfJobs
<1>4. CASE StopWorking(w)
  <2>1. Done' /\ WorkerMoves(w, "exited") /\ tiles' = tiles /\ err' = err
    BY <1>2, <1>4 DEF StopWorking, Done
  <2> QED BY <1>1, <2>1, WorkerMoveStep
<1>5. CASE FailWorker(w)
  <2>1. Done' /\ WorkerMoves(w, "exited") /\ tiles' = tiles /\ err'
    BY <1>5 DEF FailWorker, Done
  <2> QED BY <1>1, <2>1, WorkerMoveStep
<1>6. CASE ReuseTile(w)
  <2>1. manifest \in Revision /\ wkey[w] \in Key
    BY <1>1, <1>6 DEF ReuseTile, TypeOK, PlanOK, WorkOK, InHand
  <2>2. tiles[manifest][wkey[w]] = "good"
    BY <1>6, <2>1, SoundIsGood DEF ReuseTile
  <2> QED BY <1>1, <1>6, <2>2, WorkerMoveStep DEF ReuseTile, InHand
<1>7. CASE MissTile(w)
  BY <1>1, <1>7, WorkerMoveStep DEF MissTile, InHand
<1>8. CASE FetchTile(w)
  <2>1. tiles[manifest][wkey[w]] # "bad"
    BY <1>8 DEF FetchTile, SyncInv, FetchInv
  <2> QED BY <1>1, <1>8, <2>1, WorkerMoveStep DEF FetchTile, Found, InHand
<1> QED BY <1>1, <1>3, <1>4, <1>5, <1>6, <1>7, <1>8, ReceiveStep, PutStep DEF WorkerStep

LEMMA SyncInvInit == Init => SyncInv
  BY DEF Init, SyncInv, CleanInv, ProgressInv, FetchInv, NothingForeign, PublishInv, ActiveIsComplete

LEMMA SyncInvStep ==
  ASSUME TypeOK, SyncInv, [Next]_vars
  PROVE  SyncInv'
<1>1. CASE UNCHANGED vars
  <2>1. Untouched /\ phase' = phase
    BY <1>1 DEF vars, Untouched, Done, storeVars, callVars, planVars, workVars, workerVars
  <2> QED BY <2>1, UntouchedStep
<1>2. CASE SyncStep
  BY <1>2, PlanStep, StartStep, ProducerStep, JoinStep, PublishStep DEF SyncStep
<1> QED BY <1>1, <1>2, EnvironmentStep, CallStep, WorkerInvStep, PruneStep DEF Next

\* The tiles that were asked for stay complete for the active manifest, for any
\* number of calls, workers, revisions and keys.
THEOREM ActiveStaysComplete == Spec => []ActiveIsComplete
<1>1. Init => TypeOK /\ SyncInv
  BY InitType, SyncInvInit
<1>2. TypeOK /\ SyncInv /\ [Next]_vars => (TypeOK /\ SyncInv)'
  BY TypeStep, SyncInvStep
<1>3. SyncInv => ActiveIsComplete
  BY DEF SyncInv
<1> QED BY <1>1, <1>2, <1>3, PTL DEF Spec

-----------------------------------------------------------------------------
(* OfflineSync implements OfflineCache                                     *)

\* The steps that a reader of the store does not see.
LEMMA HiddenSteps ==
  ASSUME [Next]_vars, ~Publish, \A w \in Worker : ~PutTile(w), \A k \in Key : ~PruneTile(k)
  PROVE  UNCHANGED storeVars
<1> USE DEF storeVars
<1>1. CASE UNCHANGED vars \/ Environment
  BY <1>1 DEF vars, Environment, Serve, CallSync, CancelCall, Crash
<1>2. ASSUME NEW c \in Call, GiveUp(c) \/ \E r \in Requests : EnterGate(c, r) PROVE UNCHANGED storeVars
  BY <1>2 DEF GiveUp, EnterGate
<1>3. CASE SyncStep
  BY <1>3 DEF SyncStep, Abort, ResolveManifest, ReadPrevious, UseWarmTiles, StartWorkers, Offer, Produce,
              CloseJobs, JoinWorkers, JoinFails, EndPrune, ReturnResult
<1>4. ASSUME NEW w \in Worker, WorkerStep(w) PROVE UNCHANGED storeVars
  BY <1>4 DEF WorkerStep, Receive, EndOfJobs, StopWorking, FailWorker, ReuseTile, MissTile, FetchTile,
              WorkerMoves
<1> QED BY <1>1, <1>2, <1>3, <1>4 DEF Next

LEMMA PutRefines ==
  ASSUME TypeOK, SyncInv, NEW w \in Worker, PutTile(w)
  PROVE  Cache!Retain(manifest, wkey[w]) \/ UNCHANGED storeVars
<1>1. /\ tiles' = [tiles EXCEPT ![manifest][wkey[w]] = "good"]
      /\ store' = store /\ active' = active /\ covered' = covered
  BY PutIsNew DEF PutTile, WorkerMoves
<1>2. CASE tiles[manifest][wkey[w]] = "absent"
  BY <1>1, <1>2 DEF Cache!Retain
<1>3. CASE tiles[manifest][wkey[w]] = "good"
  <2>1. tiles' = tiles
    BY <1>1, <1>3, PutIsNew DEF TypeOK, StoreOK
  <2> QED BY <1>1, <2>1 DEF storeVars
<1> QED BY <1>2, <1>3, PutIsNew

LEMMA PublishRefines ==
  ASSUME TypeOK, SyncInv, Publish
  PROVE  manifest \in Revision /\ Wanted \in SUBSET Key /\ Cache!Switch(manifest, Wanted)
<1>1. phase = "publish" /\ manifest \in Revision /\ Wanted \subseteq Key
  BY DEF Publish, TypeOK, PlanOK, Wanted, Elements
<1>2. \A k \in Wanted : tiles[manifest][k] = "good"
  BY <1>1 DEF SyncInv, PublishInv
<1> QED BY <1>1, <1>2 DEF Publish, Cache!Switch

\* What a prune takes away belongs to the revision that was replaced.
LEMMA PrunedIsReplaced ==
  ASSUME TypeOK, SyncInv, NEW k \in Key, PruneTile(k)
  PROVE  previous \in Revision /\ active = manifest /\ previous # active
<1>1. phase = "prune"
  BY DEF PruneTile
<1> QED BY <1>1 DEF TypeOK, PlanOK, SyncInv, PublishInv

LEMMA PruneRefines ==
  ASSUME TypeOK, SyncInv, NEW k \in Key, PruneTile(k)
  PROVE  previous \in Revision /\ Cache!Remove(previous, k)
  BY PrunedIsReplaced DEF PruneTile, Cache!Remove

LEMMA StepRefines ==
  ASSUME TypeOK, SyncInv, [Next]_vars
  PROVE  [Cache!CacheNext]_(Cache!cacheVars)
<1>1. ASSUME Publish PROVE Cache!CacheNext
  BY <1>1, PublishRefines DEF Cache!CacheNext
<1>2. ASSUME NEW w \in Worker, PutTile(w) PROVE Cache!CacheNext \/ UNCHANGED storeVars
  BY <1>2, PutRefines, PutIsNew DEF Cache!CacheNext
<1>3. ASSUME NEW k \in Key, PruneTile(k) PROVE Cache!CacheNext
  BY <1>3, PruneRefines DEF Cache!CacheNext
<1>4. ASSUME ~Publish, \A w \in Worker : ~PutTile(w), \A k \in Key : ~PruneTile(k)
      PROVE  UNCHANGED storeVars
  BY <1>4, HiddenSteps
<1>5. [Cache!CacheNext]_storeVars
  <2>1. CASE Publish
    BY <1>1, <2>1
  <2>2. CASE \E w \in Worker : PutTile(w)
    BY <1>2, <2>2
  <2>3. CASE \E k \in Key : PruneTile(k)
    BY <1>3, <2>3
  <2>4. CASE ~Publish /\ (\A w \in Worker : ~PutTile(w)) /\ (\A k \in Key : ~PruneTile(k))
    BY <1>4, <2>4
  <2> QED BY <2>1, <2>2, <2>3, <2>4
<1> QED BY <1>5 DEF Cache!cacheVars, storeVars

LEMMA InitRefines == Init => Cache!CacheInit
  BY DEF Init, Cache!CacheInit

\* Every behaviour of the synchronizer is one of the cache that its readers are
\* promised: a manifest never becomes active before its tiles are there.
THEOREM SyncImplementsCache == Spec => ImplementsCache
<1>1. Init => TypeOK /\ SyncInv /\ Cache!CacheInit
  BY InitType, SyncInvInit, InitRefines
<1>2. TypeOK /\ SyncInv /\ [Next]_vars => (TypeOK /\ SyncInv)'
  BY TypeStep, SyncInvStep
<1>3. TypeOK /\ SyncInv /\ [Next]_vars => [Cache!CacheNext]_(Cache!cacheVars)
  BY StepRefines
<1> QED BY <1>1, <1>2, <1>3, PTL DEF Spec, ImplementsCache, Cache!CacheSpec

PruneStepIsSafe ==
  \A r \in Revision, k \in Key :
    tiles[r][k] = "good" /\ tiles'[r][k] # "good" => r = previous /\ active = manifest /\ r # active

LEMMA StepPrunesSafely ==
  ASSUME TypeOK, SyncInv, [Next]_vars
  PROVE  PruneStepIsSafe
<1>1. CASE UNCHANGED tiles
  BY <1>1 DEF PruneStepIsSafe
<1>2. CASE Publish
  BY <1>1, <1>2 DEF Publish
<1>3. ASSUME NEW w \in Worker, PutTile(w) PROVE PruneStepIsSafe
  <2>1. tiles' = [tiles EXCEPT ![manifest][wkey[w]] = "good"]
    BY <1>3, PutIsNew
  <2> QED BY <2>1 DEF PruneStepIsSafe, TypeOK, StoreOK
<1>4. ASSUME NEW k \in Key, PruneTile(k) PROVE PruneStepIsSafe
  <2>1. tiles' = [tiles EXCEPT ![previous][k] = "absent"]
    BY <1>4 DEF PruneTile
  <2>2. previous \in Revision /\ active = manifest /\ previous # active
    BY <1>4, PrunedIsReplaced
  <2> QED BY <2>1, <2>2 DEF PruneStepIsSafe, TypeOK, StoreOK
<1> QED BY <1>1, <1>2, <1>3, <1>4, HiddenSteps DEF storeVars

\* A tile that was there only goes away with the revision it belongs to, after
\* the manifest of another one has become active.
THEOREM PruneIsSafe == Spec => OnlyReplacedIsPruned
<1>1. Init => TypeOK /\ SyncInv
  BY InitType, SyncInvInit
<1>2. TypeOK /\ SyncInv /\ [Next]_vars => (TypeOK /\ SyncInv)'
  BY TypeStep, SyncInvStep
<1>3. TypeOK /\ SyncInv /\ [Next]_vars => [PruneStepIsSafe]_vars
  BY StepPrunesSafely
<1>4. Spec => [][PruneStepIsSafe]_vars
  BY <1>1, <1>2, <1>3, PTL DEF Spec
<1> QED BY <1>4, PTL DEF OnlyReplacedIsPruned, PruneStepIsSafe
=============================================================================
