--------------------------- MODULE TileServerProofs ---------------------------
(***************************************************************************)
(* Proofs about TileServer for any set of requests and keys and any number *)
(* of reloads.                                                             *)
(***************************************************************************)
EXTENDS TileServer, TLAPS

-----------------------------------------------------------------------------
(* The inductive invariant                                                 *)

\* A result is there only between the end of a load and its use.
ResultInv ==
  /\ \A r \in Request : result[r] # Pending =>
       pc[r] \in {"wait", "publish"} /\ result[r].rev = gen[r]
  /\ \A r \in Request : pc[r] = "publish" => result[r] # Pending

\* The load a waiter waits for belongs to its own generation.
WaiterInv ==
  \A w \in Request : pc[w] = "wait" /\ result[w] = Pending =>
    /\ call[w] \in Request
    /\ pc[call[w]] \in Leading
    /\ key[call[w]] = key[w] /\ gen[call[w]] = gen[w]

\* Generations are swapped in the order they are opened, and requests take the
\* current one after they are accepted.
GenerationInv ==
  /\ current <= next
  /\ rpc = "opened" => current < next
  /\ \A r \in Request : floor[r] <= current /\ gen[r] <= current
  /\ \A r \in Request : pc[r] \notin {"idle", "accepted"} => gen[r] >= floor[r]

AnswerInv ==
  \A r \in Request : answer[r] # Pending => pc[r] = "answered" /\ answer[r].rev = gen[r]

\* The state of every dataset, by where the reloader and main are.
DatasetState(g) ==
  IF g = current
  THEN CASE mpc \in {"serving", "stopping"} -> "open"
         [] mpc = "closing" -> "closing"
         [] mpc = "exited"  -> "closed"
  ELSE IF g > next THEN "unopened"
  ELSE IF rpc = "opened" /\ g = next THEN "open"
  ELSE IF rpc \in {"swapped", "stored"} /\ g = previous THEN "open"
  ELSE IF rpc = "closing" /\ g = previous THEN "closing"
  ELSE "closed"

DatasetInv ==
  /\ \A g \in Gen : ds[g] = DatasetState(g)
  /\ handle = IF rpc = "swapped" THEN previous ELSE current
  /\ rpc = "swapped" => current = next
  /\ rpc \in {"swapped", "stored", "closing"} => previous < current
  /\ mpc \in {"closing", "exited"} => rpc = "stopped"

-----------------------------------------------------------------------------
(* Type correctness                                                        *)

LEMMA GenFacts == Gen \subseteq Nat /\ 1 \in Gen /\ MaxGen \in Nat
  BY ServerAssumption DEF Gen

LEMMA OutcomeFacts ==
  /\ Pending \in LoadOutcomes /\ LoadOutcomes \subseteq Outcomes
  /\ \A o \in LoadOutcomes : o # Pending => o.kind # "canceled"
  /\ \A g \in Gen : \A k \in {"tile", "absent", "closed", "failed"} :
       /\ Outcome(k, g) \in LoadOutcomes /\ Outcome(k, g) # Pending
       /\ Outcome(k, g).rev = g
  /\ \A g \in Gen : /\ Outcome("canceled", g) \in Outcomes /\ Outcome("canceled", g) # Pending
                    /\ Outcome("canceled", g).rev = g
  BY DEF Outcome, Pending, LoadOutcomes, Outcomes

\* What a request can be answered with, by the generation it loaded.
LEMMA RequestOutcome ==
  ASSUME TypeOK, NEW r \in Request
  PROVE  /\ Pending \in LoadOutcomes /\ Pending \in Outcomes
         /\ result[r] \in LoadOutcomes /\ result[r] \in Outcomes
         /\ Outcome("tile", gen[r]) \in LoadOutcomes /\ Outcome("tile", gen[r]) \in Outcomes
         /\ Outcome("absent", gen[r]) \in LoadOutcomes
         /\ Outcome("closed", gen[r]) \in LoadOutcomes
         /\ Outcome("failed", gen[r]) \in LoadOutcomes
         /\ Outcome("canceled", gen[r]) \in Outcomes
  BY OutcomeFacts DEF TypeOK

LEMMA InitType == Init => TypeOK
  BY GenFacts, OutcomeFacts, ServerAssumption DEF Init, TypeOK

LEMMA TypeStep ==
  ASSUME TypeOK, [Next]_vars
  PROVE  TypeOK'
<1> USE GenFacts DEF TypeOK, genVars, mainVars, reqVars
<1>1. CASE UNCHANGED vars
  BY <1>1 DEF vars
<1>2. ASSUME NEW r \in Request, NEW k \in Key, Accept(r, k) \/ Cancel(r) PROVE TypeOK'
  <2>1. CASE Accept(r, k)
    BY <2>1, RequestOutcome DEF Accept, Goto
  <2>2. CASE Cancel(r)
    BY <2>2 DEF Cancel
  <2> QED BY <1>2, <2>1, <2>2
<1>3. ASSUME NEW r \in Request, LoadGeneration(r) \/ LookupCache(r) PROVE TypeOK'
  BY <1>3, RequestOutcome DEF LoadGeneration, LookupCache, Goto, Answer
<1>4. ASSUME NEW r \in Request, JoinCanceled(r) \/ BecomeLeader(r) \/ BecomeWaiter(r) PROVE TypeOK'
  <2>1. CASE JoinCanceled(r)
    BY <2>1, RequestOutcome DEF JoinCanceled, Goto, Answer
  <2>2. CASE BecomeLeader(r)
    <3>1. loads' \in [Gen -> [Key -> Request \cup {NoRequest}]]
      BY <2>2 DEF BecomeLeader, Group
    <3>2. pc' = [pc EXCEPT ![r] = "recheck"] /\ "recheck" \in Leading
      BY <2>2 DEF BecomeLeader, Goto, Leading
    <3> QED BY <2>2, <3>1, <3>2 DEF BecomeLeader
  <2>3. CASE BecomeWaiter(r)
    <3>1. Leader(r) \in Request \cup {NoRequest}
      <4>1. loads[gen[r]] \in [Key -> Request \cup {NoRequest}] /\ key[r] \in Key
        OBVIOUS
      <4> QED BY <4>1 DEF Leader, Group
    <3> QED BY <2>3, <3>1 DEF BecomeWaiter, Goto
  <2> QED BY <1>4, <2>1, <2>2, <2>3
<1>5. ASSUME NEW r \in Request, Wake(r) \/ GiveUp(r) PROVE TypeOK'
  BY <1>5, RequestOutcome DEF Wake, GiveUp, Goto, Answer, Forget
<1>6. ASSUME NEW r \in Request, Publish(r) PROVE TypeOK'
  <2>1. result' \in [Request -> LoadOutcomes]
    BY <1>6, RequestOutcome DEF Publish
  <2>2. answer' \in [Request -> Outcomes]
    BY <1>6, RequestOutcome DEF Publish, Answer
  <2> QED BY <1>6, <2>1, <2>2 DEF Publish, Goto, Answer, Group
<1>7. ASSUME NEW r \in Request, LoadStep(r) PROVE TypeOK'
  <2>1. CASE Recheck(r)
    BY <2>1, RequestOutcome DEF Recheck, LoadEnds, Goto, Leading
  <2>2. CASE AcquireReader(r)
    BY <2>2, RequestOutcome DEF AcquireReader, LoadEnds, Goto, Leading
  <2>3. CASE ReadTile(r)
    BY <2>3, RequestOutcome DEF ReadTile, LoadEnds, Goto, Leading
  <2>4. CASE StoreTile(r)
    BY <2>4, RequestOutcome DEF StoreTile, LoadEnds, Goto, Leading
  <2> QED BY <1>7, <2>1, <2>2, <2>3, <2>4 DEF LoadStep
<1>8. ASSUME NEW g \in Gen, NEW k \in Key, Evict(g, k) PROVE TypeOK'
  BY <1>8 DEF Evict
<1>9. CASE OpenDataset
  BY <1>9 DEF OpenDataset, Gen
<1>10. CASE ReloadStep
  BY <1>10 DEF ReloadStep, SwapRejected, Swap, StoreHandle, ClosePrevious, PreviousClosed, ReloaderStops
<1>11. CASE Shutdown \/ MainStep
  BY <1>11 DEF Shutdown, MainStep, MainCloses, MainExits
<1> QED BY <1>1, <1>2, <1>3, <1>4, <1>5, <1>6, <1>7, <1>8, <1>9, <1>10, <1>11
        DEF Next, RequestStep, DoStep

\* Every variable keeps its range; a load never ends in its leader's
\* cancellation.
THEOREM TypeCorrect == Spec => []TypeOK
<1>1. Init => TypeOK
  BY InitType
<1>2. TypeOK /\ [Next]_vars => TypeOK'
  BY TypeStep
<1> QED BY <1>1, <1>2, PTL DEF Spec

-----------------------------------------------------------------------------
(* The load group                                                          *)

\* The steps of requests that are not their own.
LEMMA OtherSteps ==
  ASSUME [Next]_vars, ~\E r \in Request : (\E k \in Key : Accept(r, k)) \/ Cancel(r) \/ RequestStep(r)
  PROVE  UNCHANGED <<loads, reqVars>>
  BY DEF Next, vars, genVars, reqVars, Evict, OpenDataset, ReloadStep, SwapRejected, Swap, StoreHandle,
         ClosePrevious, PreviousClosed, ReloaderStops, Shutdown, MainStep, MainCloses, MainExits

LEMMA RequestFacts ==
  ASSUME TypeOK
  PROVE  /\ pc = [q \in Request |-> pc[q]]
         /\ \A q \in Request : gen[q] \in Gen /\ key[q] \in Key
         /\ loads = [g \in Gen |-> loads[g]]
         /\ \A g \in Gen : loads[g] = [k \in Key |-> loads[g][k]]
  BY DEF TypeOK

\* A request that moves without entering or leaving its load leaves the map as
\* accurate as it was.
LEMMA MoveKeepsSingleFlight ==
  ASSUME TypeOK, SingleFlight, NEW r \in Request, UNCHANGED loads,
         \A q \in Request \ {r} : pc'[q] = pc[q] /\ gen'[q] = gen[q] /\ key'[q] = key[q],
         pc[r] \in Leading <=> pc'[r] \in Leading,
         pc[r] \in Leading => gen'[r] = gen[r] /\ key'[r] = key[r]
  PROVE  SingleFlight'
<1>1. ASSUME NEW q \in Request, pc'[q] \in Leading PROVE Leader(q)' = q
  BY <1>1 DEF SingleFlight, Leader, Group
<1>2. ASSUME NEW g \in Gen, NEW k \in Key, loads[g][k] # NoRequest
      PROVE /\ pc'[loads[g][k]] \in Leading
            /\ gen'[loads[g][k]] = g /\ key'[loads[g][k]] = k
  <2> DEFINE q == loads[g][k]
  <2>1. q \in Request
    <3>1. loads[g] \in [Key -> Request \cup {NoRequest}]
      BY DEF TypeOK
    <3> QED BY <3>1, <1>2
  <2>2. pc[q] \in Leading /\ gen[q] = g /\ key[q] = k
    BY <1>2 DEF SingleFlight, Group
  <2> HIDE DEF q
  <2>3. pc'[q] \in Leading /\ gen'[q] = g /\ key'[q] = k
    BY <2>1, <2>2
  <2> QED BY <2>3 DEF q
<1> QED BY <1>1, <1>2 DEF SingleFlight, Group

LEMMA SingleFlightStep ==
  ASSUME TypeOK, SingleFlight, [Next]_vars
  PROVE  SingleFlight'
<1> USE DEF genVars, mainVars, reqVars
<1>1. ASSUME UNCHANGED <<loads, reqVars>> PROVE SingleFlight'
  BY <1>1 DEF SingleFlight, Leader, Group
<1>2. ASSUME NEW r \in Request, NEW k \in Key, Accept(r, k) PROVE SingleFlight'
  <2>1. /\ pc[r] \notin Leading /\ pc'[r] \notin Leading /\ UNCHANGED <<loads, gen>>
        /\ \A q \in Request \ {r} : pc'[q] = pc[q] /\ key'[q] = key[q]
    BY <1>2, RequestFacts DEF Accept, Goto, Leading, TypeOK
  <2> QED BY <2>1, MoveKeepsSingleFlight
<1>3. ASSUME NEW r \in Request, Cancel(r) PROVE SingleFlight'
  BY <1>3 DEF Cancel, SingleFlight, Leader, Group
<1>4. ASSUME NEW r \in Request, LoadGeneration(r) \/ LookupCache(r) PROVE SingleFlight'
  <2>1. /\ pc[r] \notin Leading /\ pc'[r] \notin Leading /\ UNCHANGED <<loads, key>>
        /\ \A q \in Request \ {r} : pc'[q] = pc[q] /\ gen'[q] = gen[q]
    BY <1>4, RequestFacts DEF LoadGeneration, LookupCache, Goto, Answer, Leading, TypeOK
  <2> QED BY <2>1, MoveKeepsSingleFlight
<1>5. ASSUME NEW r \in Request, BecomeLeader(r) PROVE SingleFlight'
  <2>1. \A g \in Gen : \A k \in Key :
          loads'[g][k] = IF g = gen[r] /\ k = key[r] THEN r ELSE loads[g][k]
    <3>1. loads' = [loads EXCEPT ![Group(r)][key[r]] = r]
      BY <1>5 DEF BecomeLeader
    <3> QED BY <3>1, RequestFacts DEF Group
  <2>2. /\ pc[r] = "join" /\ loads[gen[r]][key[r]] = NoRequest
        /\ pc' = [pc EXCEPT ![r] = "recheck"] /\ UNCHANGED <<gen, key>>
    BY <1>5 DEF BecomeLeader, Goto, Leader, Group
  <2> QED BY <2>1, <2>2, RequestFacts, ServerAssumption DEF Leading, SingleFlight, Leader, Group
<1>6. ASSUME NEW r \in Request, JoinCanceled(r) \/ BecomeWaiter(r) \/ Wake(r) \/ GiveUp(r)
      PROVE SingleFlight'
  <2>1. /\ pc[r] \notin Leading /\ pc'[r] \notin Leading /\ UNCHANGED <<loads, gen, key>>
        /\ \A q \in Request \ {r} : pc'[q] = pc[q]
    BY <1>6, RequestFacts DEF JoinCanceled, BecomeWaiter, Wake, GiveUp, Goto, Answer, Leading
  <2> QED BY <2>1, MoveKeepsSingleFlight
<1>7. ASSUME NEW r \in Request, Publish(r) PROVE SingleFlight'
  <2>1. \A g \in Gen : \A k \in Key :
          loads'[g][k] = IF g = gen[r] /\ k = key[r] THEN NoRequest ELSE loads[g][k]
    <3>1. loads' = [loads EXCEPT ![Group(r)][key[r]] = NoRequest]
      BY <1>7 DEF Publish
    <3> QED BY <3>1, RequestFacts DEF Group
  <2>2. /\ pc[r] = "publish" /\ pc' = [pc EXCEPT ![r] = "answered"] /\ UNCHANGED <<gen, key>>
    BY <1>7 DEF Publish, Goto, Answer
  <2>3. loads[gen[r]][key[r]] = r
    BY <2>2 DEF SingleFlight, Leader, Group, Leading
  <2> QED BY <2>1, <2>2, <2>3, RequestFacts, ServerAssumption DEF Leading, SingleFlight, Leader, Group
<1>8. ASSUME NEW r \in Request, LoadStep(r) PROVE SingleFlight'
  <2>1. /\ pc[r] \in Leading /\ pc'[r] \in Leading /\ UNCHANGED <<loads, gen, key>>
        /\ \A q \in Request \ {r} : pc'[q] = pc[q]
    BY <1>8, RequestFacts DEF LoadStep, Recheck, AcquireReader, ReadTile, StoreTile, LoadEnds, Goto, Leading
  <2> QED BY <2>1, MoveKeepsSingleFlight
<1> QED BY <1>1, <1>2, <1>3, <1>4, <1>5, <1>6, <1>7, <1>8, OtherSteps DEF RequestStep, DoStep

\* One request at a time reads a tile of a generation, and the map names it.
THEOREM OneLoadPerTile == Spec => []SingleFlight
<1>1. Init => SingleFlight
  BY DEF Init, SingleFlight, Leading
<1>2. TypeOK /\ SingleFlight /\ [Next]_vars => SingleFlight'
  BY SingleFlightStep
<1> QED BY <1>1, <1>2, TypeCorrect, PTL DEF Spec

\* What a step of a load does: it stays inside, or ends with an outcome of its
\* own generation.
LEMMA LoadStepFacts ==
  ASSUME TypeOK, NEW r \in Request, LoadStep(r)
  PROVE  /\ pc[r] \in Leading \ {"publish"} /\ pc'[r] \in Leading
         /\ UNCHANGED <<loads, mainVars, ds, key, gen, call, answer, canceled, floor>>
         /\ \A q \in Request \ {r} : pc'[q] = pc[q] /\ result'[q] = result[q]
         /\ IF pc'[r] = "publish"
            THEN result'[r] # Pending /\ result'[r].rev = gen[r]
            ELSE result'[r] = result[r]
<1> USE OutcomeFacts DEF TypeOK, LoadEnds, Goto, Leading, genVars
<1>1. CASE Recheck(r)
  BY <1>1 DEF Recheck
<1>2. CASE AcquireReader(r)
  BY <1>2 DEF AcquireReader
<1>3. CASE ReadTile(r)
  BY <1>3 DEF ReadTile
<1>4. CASE StoreTile(r)
  BY <1>4 DEF StoreTile
<1> QED BY <1>1, <1>2, <1>3, <1>4 DEF LoadStep

LEMMA ResultStep ==
  ASSUME TypeOK, ResultInv, [Next]_vars, SingleFlight, WaiterInv
  PROVE  ResultInv'
<1> USE DEF TypeOK, ResultInv, genVars, mainVars, reqVars
<1>1. ASSUME UNCHANGED <<loads, reqVars>> PROVE ResultInv'
  BY <1>1
<1>2. ASSUME NEW r \in Request, NEW k \in Key, Accept(r, k) PROVE ResultInv'
  BY <1>2 DEF Accept, Goto
<1>3. ASSUME NEW r \in Request, Cancel(r) PROVE ResultInv'
  BY <1>3 DEF Cancel
<1>4. ASSUME NEW r \in Request, LoadGeneration(r) \/ LookupCache(r) PROVE ResultInv'
  BY <1>4 DEF LoadGeneration, LookupCache, Goto, Answer
<1>5. ASSUME NEW r \in Request, JoinCanceled(r) \/ BecomeLeader(r) \/ BecomeWaiter(r) PROVE ResultInv'
  BY <1>5 DEF JoinCanceled, BecomeLeader, BecomeWaiter, Goto, Answer
<1>6. ASSUME NEW r \in Request, Wake(r) \/ GiveUp(r) PROVE ResultInv'
  BY <1>6 DEF Wake, GiveUp, Forget, Goto, Answer
<1>7. ASSUME NEW r \in Request, Publish(r) PROVE ResultInv'
  BY <1>7 DEF Publish, Goto, Answer, Waiters, WaiterInv
<1>8. ASSUME NEW r \in Request, LoadStep(r) PROVE ResultInv'
  <2> HIDE DEF TypeOK
  <2>1. /\ UNCHANGED gen /\ pc[r] \in Leading \ {"publish"} /\ pc'[r] \in Leading
        /\ \A q \in Request \ {r} : pc'[q] = pc[q] /\ result'[q] = result[q]
        /\ pc'[r] = "publish" => result'[r] # Pending /\ result'[r].rev = gen[r]
        /\ pc'[r] # "publish" => result'[r] = result[r]
    BY <1>8, LoadStepFacts
  <2>2. pc[r] \notin {"wait", "publish"}
    BY <2>1 DEF Leading
  <2> QED BY <2>1, <2>2
<1> QED BY <1>1, <1>2, <1>3, <1>4, <1>5, <1>6, <1>7, <1>8, OtherSteps DEF RequestStep, DoStep

\* A request that is neither a waiter without result nor a leader does not
\* matter to the waiters, and neither does one that stays a leader.
LEMMA MoveKeepsWaiters ==
  ASSUME WaiterInv, NEW r \in Request,
         \A q \in Request \ {r} : /\ pc'[q] = pc[q] /\ gen'[q] = gen[q] /\ key'[q] = key[q]
                                  /\ call'[q] = call[q] /\ result'[q] = result[q],
         pc'[r] # "wait",
         pc[r] \in Leading => pc'[r] \in Leading /\ gen'[r] = gen[r] /\ key'[r] = key[r]
  PROVE  WaiterInv'
<1>1. ASSUME NEW w \in Request, pc'[w] = "wait", result'[w] = Pending
      PROVE /\ call'[w] \in Request
            /\ pc'[call'[w]] \in Leading
            /\ key'[call'[w]] = key'[w] /\ gen'[call'[w]] = gen'[w]
  <2>1. w # r /\ pc[w] = "wait" /\ result[w] = Pending /\ call'[w] = call[w]
    BY <1>1
  <2>2. call[w] \in Request /\ pc[call[w]] \in Leading /\ key[call[w]] = key[w] /\ gen[call[w]] = gen[w]
    BY <2>1 DEF WaiterInv
  <2> QED BY <2>1, <2>2
<1> QED BY <1>1 DEF WaiterInv

LEMMA WaiterStep ==
  ASSUME TypeOK, SingleFlight, ResultInv, WaiterInv, [Next]_vars
  PROVE  WaiterInv'
<1> USE DEF genVars, mainVars, reqVars
<1>1. ASSUME UNCHANGED <<loads, reqVars>> PROVE WaiterInv'
  BY <1>1 DEF WaiterInv
<1>2. ASSUME NEW r \in Request, NEW k \in Key, Accept(r, k) PROVE WaiterInv'
  BY <1>2, MoveKeepsWaiters DEF Accept, Goto, Leading, TypeOK
<1>3. ASSUME NEW r \in Request, Cancel(r) PROVE WaiterInv'
  BY <1>3 DEF Cancel, WaiterInv
<1>4. ASSUME NEW r \in Request, LoadGeneration(r) \/ LookupCache(r) PROVE WaiterInv'
  BY <1>4, MoveKeepsWaiters DEF LoadGeneration, LookupCache, Goto, Answer, Leading, TypeOK
<1>5. ASSUME NEW r \in Request, JoinCanceled(r) \/ BecomeLeader(r) PROVE WaiterInv'
  BY <1>5, MoveKeepsWaiters DEF JoinCanceled, BecomeLeader, Goto, Answer, Leading, TypeOK
<1>6. ASSUME NEW r \in Request, BecomeWaiter(r) PROVE WaiterInv'
  <2> DEFINE l == Leader(r)
  <2>1. pc[l] \in Leading /\ gen[l] = gen[r] /\ key[l] = key[r]
    BY <1>6, RequestFacts DEF SingleFlight, Leader, Group, BecomeWaiter
  <2>2. l \in Request
    <3>1. loads[gen[r]] \in [Key -> Request \cup {NoRequest}] /\ key[r] \in Key
      BY DEF TypeOK
    <3> QED BY <1>6, <3>1 DEF Leader, Group, BecomeWaiter
  <2>3. /\ call' = [call EXCEPT ![r] = l] /\ pc' = [pc EXCEPT ![r] = "wait"]
        /\ UNCHANGED <<gen, key, result>> /\ pc[r] = "join"
    BY <1>6 DEF BecomeWaiter, Goto
  <2> HIDE DEF l
  <2> QED BY <2>1, <2>2, <2>3 DEF WaiterInv, TypeOK, Leading
<1>7. ASSUME NEW r \in Request, Wake(r) \/ GiveUp(r) PROVE WaiterInv'
  BY <1>7, MoveKeepsWaiters DEF Wake, GiveUp, Forget, Goto, Answer, Leading, TypeOK
<1>8. ASSUME NEW r \in Request, Publish(r) PROVE WaiterInv'
  BY <1>8 DEF Publish, Goto, Answer, Waiters, ResultInv, WaiterInv, Leading, TypeOK
<1>9. ASSUME NEW r \in Request, LoadStep(r) PROVE WaiterInv'
  BY <1>9, LoadStepFacts, MoveKeepsWaiters DEF Leading
<1> QED BY <1>1, <1>2, <1>3, <1>4, <1>5, <1>6, <1>7, <1>8, <1>9, OtherSteps DEF RequestStep, DoStep

\* A waiter that has no result yet waits for a load that is going on: the end
\* of a load wakes every one of its waiters.
THEOREM NoLostWakeup == Spec => []WaiterHasLeader
<1>1. Init => ResultInv /\ WaiterInv
  BY DEF Init, ResultInv, WaiterInv
<1>2. TypeOK /\ SingleFlight /\ ResultInv /\ WaiterInv /\ [Next]_vars => ResultInv' /\ WaiterInv'
  BY ResultStep, WaiterStep
<1>3. WaiterInv => WaiterHasLeader
  BY DEF WaiterInv, WaiterHasLeader
<1> QED BY <1>1, <1>2, <1>3, TypeCorrect, OneLoadPerTile, PTL DEF Spec

-----------------------------------------------------------------------------
(* Answers                                                                 *)

LEMMA GenerationStep ==
  ASSUME TypeOK, GenerationInv, [Next]_vars
  PROVE  GenerationInv'
<1> USE GenFacts DEF TypeOK, GenerationInv, genVars, mainVars, reqVars
<1>1. CASE UNCHANGED vars
  BY <1>1 DEF vars
<1>2. ASSUME NEW r \in Request, NEW k \in Key, Accept(r, k) \/ Cancel(r) PROVE GenerationInv'
  BY <1>2 DEF Accept, Cancel, Goto
<1>3. ASSUME NEW r \in Request, LoadGeneration(r) \/ LookupCache(r) PROVE GenerationInv'
  BY <1>3 DEF LoadGeneration, LookupCache, Goto, Answer
<1>4. ASSUME NEW r \in Request, DoStep(r) PROVE GenerationInv'
  BY <1>4 DEF DoStep, JoinCanceled, BecomeLeader, BecomeWaiter, Wake, GiveUp, Publish, Forget, Goto, Answer
<1>5. ASSUME NEW r \in Request, LoadStep(r) PROVE GenerationInv'
  <2>1. /\ UNCHANGED <<current, next, rpc, gen, floor>> /\ pc[r] \in Leading
        /\ \A q \in Request \ {r} : pc'[q] = pc[q]
    BY <1>5, LoadStepFacts
  <2> QED BY <2>1 DEF Leading
<1>6. ASSUME NEW g \in Gen, NEW k \in Key, Evict(g, k) PROVE GenerationInv'
  BY <1>6 DEF Evict
<1>7. CASE OpenDataset \/ ReloadStep
  <2>1. CASE OpenDataset
    BY <2>1 DEF OpenDataset
  <2>2. CASE Swap
    <3>1. /\ rpc = "opened" /\ rpc' = "swapped" /\ current' = next
          /\ UNCHANGED <<next, pc, gen, floor>>
      BY <2>2 DEF Swap
    <3>2. /\ current < next /\ current \in Nat /\ next \in Nat
          /\ \A r \in Request : floor[r] \in Nat /\ gen[r] \in Nat
      BY <3>1
    <3> HIDE DEF TypeOK
    <3> QED BY <3>1, <3>2
  <2>3. CASE SwapRejected \/ StoreHandle \/ ClosePrevious
    BY <2>3 DEF SwapRejected, StoreHandle, ClosePrevious
  <2>4. CASE PreviousClosed \/ ReloaderStops
    BY <2>4 DEF PreviousClosed, ReloaderStops
  <2> QED BY <1>7, <2>1, <2>2, <2>3, <2>4 DEF ReloadStep
<1>8. CASE Shutdown \/ MainStep
  BY <1>8 DEF Shutdown, MainStep, MainCloses, MainExits
<1> QED BY <1>1, <1>2, <1>3, <1>4, <1>5, <1>6, <1>7, <1>8 DEF Next, RequestStep

LEMMA AnswerStep ==
  ASSUME TypeOK, ResultInv, AnswerInv, OnlyOwnCancellation, [Next]_vars
  PROVE  AnswerInv' /\ OnlyOwnCancellation'
<1> USE DEF TypeOK, AnswerInv, OnlyOwnCancellation, genVars, mainVars, reqVars
<1>1. ASSUME UNCHANGED <<loads, reqVars>> PROVE AnswerInv' /\ OnlyOwnCancellation'
  BY <1>1
<1>2. ASSUME NEW r \in Request, NEW k \in Key, Accept(r, k) \/ Cancel(r)
      PROVE AnswerInv' /\ OnlyOwnCancellation'
  BY <1>2 DEF Accept, Cancel, Goto
<1>3. ASSUME NEW r \in Request, LoadGeneration(r) PROVE AnswerInv' /\ OnlyOwnCancellation'
  BY <1>3 DEF LoadGeneration, Goto
<1>4. ASSUME NEW r \in Request, LookupCache(r) \/ JoinCanceled(r) PROVE AnswerInv' /\ OnlyOwnCancellation'
  <2>1. /\ UNCHANGED <<gen, canceled>>
        /\ \A q \in Request \ {r} : pc'[q] = pc[q] /\ answer'[q] = answer[q]
        /\ answer'[r] # Pending => pc'[r] = "answered" /\ answer'[r].rev = gen[r]
        /\ answer'[r] # Pending => answer'[r].kind = "tile" \/ canceled[r]
    BY <1>4 DEF LookupCache, JoinCanceled, Goto, Answer, Outcome
  <2> HIDE DEF TypeOK
  <2> QED BY <2>1
<1>5. ASSUME NEW r \in Request, BecomeLeader(r) \/ BecomeWaiter(r) PROVE AnswerInv' /\ OnlyOwnCancellation'
  BY <1>5 DEF BecomeLeader, BecomeWaiter, Goto
<1>6. ASSUME NEW r \in Request, Wake(r) \/ GiveUp(r) PROVE AnswerInv' /\ OnlyOwnCancellation'
  <2>1. result[r] # Pending => result[r].rev = gen[r] /\ result[r].kind # "canceled"
    BY OutcomeFacts DEF ResultInv
  <2>2. /\ UNCHANGED <<gen, canceled>> /\ pc'[r] = "answered"
        /\ \A q \in Request \ {r} : pc'[q] = pc[q] /\ answer'[q] = answer[q]
        /\ \/ answer'[r] = result[r]
           \/ answer'[r].rev = gen[r] /\ canceled[r]
    BY <1>6 DEF Wake, GiveUp, Forget, Goto, Answer, Outcome
  <2> HIDE DEF TypeOK
  <2> QED BY <2>1, <2>2
<1>7. ASSUME NEW r \in Request, Publish(r) PROVE AnswerInv' /\ OnlyOwnCancellation'
  BY <1>7, OutcomeFacts DEF Publish, Goto, Answer, ResultInv
<1>8. ASSUME NEW r \in Request, LoadStep(r) PROVE AnswerInv' /\ OnlyOwnCancellation'
  <2>1. /\ UNCHANGED <<gen, answer, canceled>> /\ pc[r] # "answered"
        /\ \A q \in Request \ {r} : pc'[q] = pc[q]
    BY <1>8, LoadStepFacts DEF Leading
  <2> HIDE DEF TypeOK
  <2> QED BY <2>1
<1> QED BY <1>1, <1>2, <1>3, <1>4, <1>5, <1>6, <1>7, <1>8, OtherSteps DEF RequestStep, DoStep

LEMMA AnswersInv == Spec => [](GenerationInv /\ AnswerInv /\ OnlyOwnCancellation)
<1>1. Init => GenerationInv /\ AnswerInv /\ OnlyOwnCancellation /\ ResultInv /\ WaiterInv
  BY DEF Init, GenerationInv, AnswerInv, OnlyOwnCancellation, ResultInv, WaiterInv
<1>2. /\ TypeOK /\ SingleFlight /\ ResultInv /\ WaiterInv
      /\ GenerationInv /\ AnswerInv /\ OnlyOwnCancellation /\ [Next]_vars
      => GenerationInv' /\ AnswerInv' /\ OnlyOwnCancellation' /\ ResultInv' /\ WaiterInv'
  BY GenerationStep, AnswerStep, ResultStep, WaiterStep
<1> QED BY <1>1, <1>2, TypeCorrect, OneLoadPerTile, PTL DEF Spec

\* Every answer is of the generation its request loaded, whoever read the tile,
\* and that generation was not replaced before the request was accepted.
THEOREM AnswersComeFromCurrent == Spec => []AnswersAreCurrent
<1>1. TypeOK /\ GenerationInv /\ AnswerInv => AnswersAreCurrent
  BY GenFacts DEF TypeOK, GenerationInv, AnswerInv, AnswersAreCurrent
<1> QED BY <1>1, TypeCorrect, AnswersInv, PTL

\* Nobody is told of a cancellation but the one whose client went.
THEOREM CancellationStaysOwn == Spec => []OnlyOwnCancellation
  BY AnswersInv, PTL

-----------------------------------------------------------------------------
(* Datasets                                                                *)

LEMMA DatasetStep ==
  ASSUME TypeOK, GenerationInv, DatasetInv, [Next]_vars
  PROVE  DatasetInv'
<1> USE GenFacts DEF TypeOK, GenerationInv, DatasetInv, DatasetState, genVars, mainVars, reqVars
<1>1. ASSUME UNCHANGED <<mainVars, ds>> PROVE DatasetInv'
  BY <1>1
<1>2. ASSUME NEW r \in Request, (\E k \in Key : Accept(r, k)) \/ Cancel(r) \/ RequestStep(r)
      PROVE UNCHANGED <<mainVars, ds>>
  BY <1>2, LoadStepFacts DEF Accept, Cancel, RequestStep, LoadGeneration, LookupCache, DoStep, JoinCanceled,
     BecomeLeader, BecomeWaiter, Wake, GiveUp, Publish
<1>3. CASE OpenDataset
  <2>1. /\ rpc = "idle" /\ rpc' = "opened" /\ next' = next + 1 /\ next + 1 \in Gen
        /\ ds' = [ds EXCEPT ![next + 1] = "open"]
        /\ UNCHANGED <<current, previous, handle, mpc>>
    BY <1>3 DEF OpenDataset, Gen
  <2>2. ASSUME NEW g \in Gen PROVE ds'[g] = DatasetState(g)'
    <3>1. CASE g = next + 1
      BY <2>1, <3>1
    <3>2. CASE g # next + 1
      <4>1. ds'[g] = ds[g] /\ (g > next <=> g > next')
        BY <2>1, <3>2
      <4>2. DatasetState(g)' = DatasetState(g)
        BY <2>1, <3>2, <4>1
      <4> QED BY <4>1, <4>2
    <3> QED BY <3>1, <3>2
  <2>3. handle' = current' /\ mpc' \notin {"closing", "exited"}
    BY <2>1
  <2> QED BY <2>1, <2>2, <2>3
<1>4. CASE SwapRejected
  BY <1>4 DEF SwapRejected
<1>5. CASE Swap
  BY <1>5 DEF Swap
<1>6. CASE StoreHandle
  <2>1. rpc = "swapped" /\ rpc' = "stored" /\ handle' = next /\ UNCHANGED <<current, previous, next, ds, mpc>>
    BY <1>6 DEF StoreHandle
  <2>2. ASSUME NEW g \in Gen PROVE ds'[g] = DatasetState(g)'
    BY <2>1
  <2> QED BY <2>1, <2>2
<1>7. CASE ClosePrevious
  BY <1>7 DEF ClosePrevious
<1>8. CASE PreviousClosed
  BY <1>8 DEF PreviousClosed
<1>9. CASE ReloaderStops \/ Shutdown
  BY <1>9 DEF ReloaderStops, Shutdown
<1>10. CASE MainCloses
  BY <1>10 DEF MainCloses
<1>11. CASE MainExits
  BY <1>11 DEF MainExits
<1>12. CASE UNCHANGED vars \/ \E g \in Gen, k \in Key : Evict(g, k)
  BY <1>12 DEF vars, Evict
<1> QED BY <1>1, <1>2, <1>3, <1>4, <1>5, <1>6, <1>7, <1>8, <1>9, <1>10, <1>11, <1>12
        DEF Next, ReloadStep, MainStep

LEMMA DatasetsInv == Spec => []DatasetInv
<1>1. Init => DatasetInv
  BY GenFacts DEF Init, DatasetInv, DatasetState, Gen
<1>2. TypeOK /\ GenerationInv /\ DatasetInv /\ [Next]_vars => DatasetInv'
  BY DatasetStep
<1> QED BY <1>1, <1>2, TypeCorrect, AnswersInv, PTL DEF Spec

\* Whatever reloads do, the dataset in service is open until main closes it.
THEOREM ServiceStaysOpen == Spec => []ServedDatasetIsOpen
<1>1. TypeOK /\ DatasetInv => ServedDatasetIsOpen
  BY DEF TypeOK, DatasetInv, DatasetState, ServedDatasetIsOpen
<1> QED BY <1>1, TypeCorrect, DatasetsInv, PTL

\* An orderly exit leaves no dataset open, however many reloads there were and
\* wherever a shutdown met them.
THEOREM ExitClosesEverything == Spec => []NothingLeftOpen
<1>1. TypeOK /\ DatasetInv => NothingLeftOpen
  BY DEF TypeOK, DatasetInv, DatasetState, NothingLeftOpen
<1> QED BY <1>1, TypeCorrect, DatasetsInv, PTL

LEMMA ReadStep ==
  ASSUME TypeOK, GenerationInv, NoReadAfterClose, [Next]_vars
  PROVE  NoReadAfterClose'
<1> USE DEF NoReadAfterClose, Readers, genVars, mainVars, reqVars
<1>1. ASSUME UNCHANGED <<ds, gen>>,
             \A q \in Request : pc'[q] = "read" => pc[q] = "read" \/ ds[gen[q]] = "open"
      PROVE NoReadAfterClose'
  BY <1>1
<1>2. ASSUME NEW r \in Request, NEW k \in Key, Accept(r, k) PROVE NoReadAfterClose'
  BY <1>2, RequestFacts DEF Accept, Goto
<1>3. ASSUME NEW r \in Request, LoadGeneration(r) PROVE NoReadAfterClose'
  BY <1>3, RequestFacts DEF LoadGeneration, Goto, TypeOK
<1>4. ASSUME NEW r \in Request, Cancel(r) \/ LookupCache(r) \/ DoStep(r)
      PROVE NoReadAfterClose'
  BY <1>4, RequestFacts DEF Cancel, LookupCache, DoStep, JoinCanceled, BecomeLeader, BecomeWaiter, Wake, GiveUp,
     Publish, Forget, Goto, Answer
<1>5. ASSUME NEW r \in Request, LoadStep(r) PROVE NoReadAfterClose'
  <2>1. /\ UNCHANGED <<ds, gen>> /\ \A q \in Request \ {r} : pc'[q] = pc[q]
    BY <1>5, LoadStepFacts
  <2>2. pc'[r] = "read" => ds[gen[r]] = "open"
    BY <1>5, RequestFacts DEF LoadStep, Recheck, AcquireReader, ReadTile, StoreTile, LoadEnds, Goto
  <2> QED BY <2>1, <2>2, <1>1
<1>6. CASE SwapRejected
  <2>1. Readers(next) = {} /\ ds' = [ds EXCEPT ![next] = "closed"] /\ UNCHANGED reqVars
    BY <1>6, GenFacts DEF SwapRejected, GenerationInv, TypeOK
  <2> QED BY <2>1 DEF TypeOK
<1>7. CASE PreviousClosed
  BY <1>7 DEF PreviousClosed, TypeOK
<1>8. CASE MainExits
  BY <1>8 DEF MainExits, TypeOK
<1>9. CASE OpenDataset \/ Swap \/ StoreHandle \/ ClosePrevious \/ ReloaderStops
  BY <1>9 DEF OpenDataset, Swap, StoreHandle, ClosePrevious, ReloaderStops, TypeOK
<1>10. CASE Shutdown \/ MainCloses
  BY <1>10 DEF Shutdown, MainCloses, TypeOK
<1>11. CASE UNCHANGED vars \/ \E g \in Gen, k \in Key : Evict(g, k)
  BY <1>11 DEF vars, Evict
<1> QED BY <1>2, <1>3, <1>4, <1>5, <1>6, <1>7, <1>8, <1>9, <1>10, <1>11
        DEF Next, RequestStep, ReloadStep, MainStep

\* No dataset is ever closed while a request reads it, neither the replaced one
\* nor a rejected one nor the last.
THEOREM ReadsEndBeforeClose == Spec => []NoReadAfterClose
<1>1. Init => NoReadAfterClose
  BY DEF Init, NoReadAfterClose, Readers
<1>2. TypeOK /\ GenerationInv /\ NoReadAfterClose /\ [Next]_vars => NoReadAfterClose'
  BY ReadStep
<1> QED BY <1>1, <1>2, TypeCorrect, AnswersInv, PTL DEF Spec
=============================================================================
