-------------------------- MODULE DatasetPoolProofs --------------------------
(***************************************************************************)
(* Proofs about DatasetPool for any finite set of readers and lookups and  *)
(* any set of callers of Close.                                            *)
(***************************************************************************)
EXTENDS DatasetPool, FiniteSetTheorems, TLAPS

-----------------------------------------------------------------------------
(* The inductive invariant                                                 *)

\* Lookups and Close exist only once Open has handed the dataset out, or has
\* given up on it; until then the channels hold what Open put there.
OpenInv ==
  /\ opc = "first" => opened = {}
  /\ opc = "scan" => \E r \in Reader : opened = {r}
  /\ opc \in {"first", "scan", "failed"} => hot = {} /\ pool = {}
  /\ \A p \in Request : pc[p] # "idle" => opc = "open"
  /\ \A c \in Closers : cpc[c] # "idle" => opc \in {"open", "closing"}
  /\ closed => opc \in {"open", "closing"}

\* Only a dataset that is ending closes readers.
ClosesInv ==
  /\ \A r \in Reader : closes[r] > 0 => closed \/ opc = "failed"
  /\ \A r \in Reader : closes[r] > 0 => r \in opened
  /\ opc = "scan" => \A r \in Reader : closes[r] = 0

\* Every opened reader is somewhere: in a channel, with a lookup, closed, or
\* still with Open.
Located ==
  /\ hot \cup pool \subseteq opened
  /\ \A p \in Request : pc[p] \in Holding => held[p] \in opened
  /\ \A r \in opened :
       \/ r \in hot \cup pool
       \/ \E p \in Request : pc[p] \in Holding /\ held[p] = r
       \/ closes[r] = 1
       \/ opc = "scan"

Ownership == Located /\ ReaderIsExclusive /\ ClosedReadersAreGone

RegisteredLookups == {p \in Request : pc[p] \in Registered}

\* The WaitGroup counts the registered lookups.
CounterInv == inFlight = Cardinality(RegisteredLookups)

\* Close drains after the dataset is closed, with no lookup registered.
DrainInv ==
  /\ \A c \in Closers : cpc[c] \in {"wait", "drain", "returned"} => closed
  /\ CloseWaitsForLookups

\* Once closed, either a call of Close is still at work or nothing is left.
WinnerInv ==
  closed => \/ \E c \in Closers : cpc[c] \in {"wait", "drain"}
            \/ /\ hot \cup pool = {}
               /\ \A p \in Request : pc[p] \notin Registered

\* The lookups that have not chosen a lane yet.
Undecided == {p \in Request : pc[p] \in {"borrow", "use", "release"}}

\* The reader whose removal emptied the hot lane has not gone to the other
\* lane: it is still out, and will come back to the hot one, or was closed.
LaneInv ==
  opc \in {"rest", "open", "closing"} =>
    \/ hot # {}
    \/ Undecided # {}
    \/ \E r \in Reader : closes[r] > 0

IInv ==
  /\ TypeOK /\ OpenInv /\ ClosesInv /\ Ownership
  /\ CounterInv /\ DrainInv /\ WinnerInv /\ LaneInv
-----------------------------------------------------------------------------
(* Each part of the invariant is preserved; ASSUME names the parts it rests on *)

LEMMA RegisteredFinite == IsFiniteSet(RegisteredLookups)
  BY PoolAssumption, FS_Subset DEF RegisteredLookups

\* Only borrow and the last step of release move the counter, each together
\* with the lookup it counts.
LEMMA CounterStep ==
  ASSUME TypeOK, CounterInv, Next
  PROVE  CounterInv' /\ inFlight' \in Nat
<1> USE DEF TypeOK, CounterInv, RegisteredLookups, Registered,
            openVars, poolVars, lookVars, closeVars
<1>1. ASSUME NEW p \in Request, Borrow(p)
      PROVE  CounterInv' /\ inFlight' \in Nat
  <2>1. /\ RegisteredLookups' = RegisteredLookups \cup {p}
        /\ p \notin RegisteredLookups
    BY <1>1 DEF Borrow, Goto
  <2>2. inFlight' = inFlight + 1
    BY <1>1 DEF Borrow
  <2>3. Cardinality(RegisteredLookups') = Cardinality(RegisteredLookups) + 1
    BY <2>1, RegisteredFinite, FS_AddElement DEF RegisteredLookups
  <2> QED
    BY <2>2, <2>3
<1>2. ASSUME NEW p \in Request, Finish(p)
      PROVE  CounterInv' /\ inFlight' \in Nat
  <2>1. /\ RegisteredLookups' = RegisteredLookups \ {p}
        /\ p \in RegisteredLookups
    BY <1>2 DEF Finish, Goto, Return
  <2>2. inFlight' = inFlight - 1
    BY <1>2 DEF Finish
  <2> HIDE DEF RegisteredLookups
  <2>3. /\ IsFiniteSet(RegisteredLookups')
        /\ Cardinality(RegisteredLookups') = Cardinality(RegisteredLookups) - 1
    BY <2>1, RegisteredFinite, FS_RemoveElement
  <2>4. Cardinality(RegisteredLookups') \in Nat
    BY <2>3, FS_CardinalityType
  <2> QED
    BY <2>2, <2>3, <2>4
<1>3. ASSUME RegisteredLookups' = RegisteredLookups, inFlight' = inFlight
      PROVE  CounterInv' /\ inFlight' \in Nat
  BY <1>3
<1>4. ASSUME OpenStep
      PROVE  CounterInv' /\ inFlight' \in Nat
  BY <1>3, <1>4 DEF OpenStep, OpenFirst, OpenFirstFails, ScanMetadata,
                  ScanMetadataFails, OpenNext, OpenNextFails, OpenReturns
<1>5. ASSUME NEW p \in Request, Call(p) \/ Cancel(p) \/ CheckContext(p) \/ MissHot(p) \/ SelectDone(p)
      PROVE  CounterInv' /\ inFlight' \in Nat
  BY <1>3, <1>5 DEF Call, Cancel, CheckContext, MissHot, SelectDone, Goto,
                  Return
<1>6. ASSUME NEW p \in Request, TakeHot(p) \/ TakePool(p) \/ BorrowClosed(p)
      PROVE  CounterInv' /\ inFlight' \in Nat
  BY <1>3, <1>6 DEF TakeHot, TakePool, BorrowClosed, Receive, Goto, Return
<1>7. ASSUME NEW p \in Request, Use(p) \/ ReleaseHot(p) \/ ReleaseFull(p) \/ Spill(p)
      PROVE  CounterInv' /\ inFlight' \in Nat
  BY <1>3, <1>7 DEF Use, ReleaseHot, ReleaseFull, Spill, Goto
<1>8. ASSUME NEW c \in Closer, CloseCall(c)
      PROVE  CounterInv' /\ inFlight' \in Nat
  BY <1>3, <1>8 DEF CloseCall
<1>9. ASSUME NEW c \in Closers, CloseStep(c)
      PROVE  CounterInv' /\ inFlight' \in Nat
  BY <1>3, <1>9 DEF CloseStep, CloseEnter, CloseWait, Drain, CloseReturn
<1> QED
  BY <1>1, <1>2, <1>4, <1>5, <1>6, <1>7, <1>8, <1>9
     DEF Next, OpenStep, LookupStep, CloseStep

\* inFlight' needs the counter invariant: a WaitGroup that went negative would
\* panic.
LEMMA TypeStep ==
  ASSUME TypeOK, OpenInv, Ownership, CounterInv, Next
  PROVE  TypeOK'
<1> USE DEF TypeOK, OpenInv, Ownership, Located, ReaderIsExclusive,
            ClosedReadersAreGone, LookupPC, ClosePC, OpenPC, Holding,
            Registered, Closers, openVars, poolVars, lookVars, closeVars
<1>1. ASSUME OpenStep
      PROVE  TypeOK'
  BY <1>1 DEF OpenStep, OpenFirst, OpenFirstFails, ScanMetadata,
              ScanMetadataFails, OpenNext, OpenNextFails, OpenReturns
<1>2. ASSUME NEW p \in Request, Call(p) \/ Cancel(p) \/ CheckContext(p) \/ MissHot(p) \/ SelectDone(p)
      PROVE  TypeOK'
  BY <1>2 DEF Call, Cancel, CheckContext, MissHot, SelectDone, Goto, Return
<1>3. ASSUME NEW p \in Request, TakeHot(p)
      PROVE  TypeOK'
  BY <1>3 DEF TakeHot, Receive, Goto
<1>4. ASSUME NEW p \in Request, TakePool(p)
      PROVE  TypeOK'
  BY <1>4 DEF TakePool, Receive, Goto
<1>5. ASSUME NEW p \in Request, Borrow(p)
      PROVE  TypeOK'
  BY <1>5 DEF Borrow, Goto
<1>6. ASSUME NEW p \in Request, BorrowClosed(p)
      PROVE  TypeOK'
  BY <1>6 DEF BorrowClosed, Goto, Return
<1>7. ASSUME NEW p \in Request, Use(p) \/ ReleaseFull(p)
      PROVE  TypeOK'
  BY <1>7 DEF Use, ReleaseFull, Goto
<1>8. ASSUME NEW p \in Request, ReleaseHot(p) \/ Spill(p)
      PROVE  TypeOK'
  BY <1>8 DEF ReleaseHot, Spill, Goto
<1>9. ASSUME NEW p \in Request, Finish(p)
      PROVE  TypeOK'
  <2>1. inFlight' \in Nat
    BY <1>9, CounterStep
  <2> QED
    BY <1>9, <2>1 DEF Finish, Goto, Return
<1>10. ASSUME NEW c \in Closer, CloseCall(c)
      PROVE  TypeOK'
  BY <1>10 DEF CloseCall
<1>11. ASSUME NEW c \in Closers, CloseEnter(c) \/ CloseReturn(c)
      PROVE  TypeOK'
  BY <1>11 DEF CloseEnter, CloseReturn
<1>12. ASSUME NEW c \in Closers, CloseWait(c)
      PROVE  TypeOK'
  BY <1>12 DEF CloseWait
<1>13. ASSUME NEW c \in Closers, Drain(c)
      PROVE  TypeOK'
  BY <1>13 DEF Drain
<1> QED
  BY <1>1, <1>2, <1>3, <1>4, <1>5, <1>6, <1>7, <1>8, <1>9, <1>10, <1>11,
     <1>12, <1>13
     DEF Next, OpenStep, LookupStep, CloseStep

\* Lookups and Close start from "open", and Open never leaves it.
LEMMA OpenInvStep ==
  ASSUME TypeOK, OpenInv, Next
  PROVE  OpenInv'
<1> USE DEF TypeOK, OpenInv, LookupPC, ClosePC, OpenPC, Closers, openVars,
            poolVars, lookVars, closeVars
<1>1. ASSUME OpenStep
      PROVE  OpenInv'
  BY <1>1 DEF OpenStep, OpenFirst, OpenFirstFails, ScanMetadata,
              ScanMetadataFails, OpenNext, OpenNextFails, OpenReturns
<1>2. ASSUME NEW p \in Request, Call(p) \/ Cancel(p) \/ CheckContext(p) \/ MissHot(p) \/ SelectDone(p)
      PROVE  OpenInv'
  BY <1>2 DEF Call, Cancel, CheckContext, MissHot, SelectDone, Goto, Return
<1>3. ASSUME NEW p \in Request, TakeHot(p) \/ TakePool(p)
      PROVE  OpenInv'
  BY <1>3 DEF TakeHot, TakePool, Receive, Goto
<1>4. ASSUME NEW p \in Request, Borrow(p)
      PROVE  OpenInv'
  BY <1>4 DEF Borrow, Goto
<1>5. ASSUME NEW p \in Request, BorrowClosed(p)
      PROVE  OpenInv'
  BY <1>5 DEF BorrowClosed, Goto, Return
<1>6. ASSUME NEW p \in Request, Use(p) \/ ReleaseFull(p)
      PROVE  OpenInv'
  BY <1>6 DEF Use, ReleaseFull, Goto
<1>7. ASSUME NEW p \in Request, ReleaseHot(p) \/ Spill(p)
      PROVE  OpenInv'
  BY <1>7 DEF ReleaseHot, Spill, Goto
<1>8. ASSUME NEW p \in Request, Finish(p)
      PROVE  OpenInv'
  BY <1>8 DEF Finish, Goto, Return
<1>9. ASSUME NEW c \in Closer, CloseCall(c)
      PROVE  OpenInv'
  BY <1>9 DEF CloseCall
<1>10. ASSUME NEW c \in Closers, CloseEnter(c) \/ CloseReturn(c)
      PROVE  OpenInv'
  BY <1>10 DEF CloseEnter, CloseReturn
<1>11. ASSUME NEW c \in Closers, CloseWait(c)
      PROVE  OpenInv'
  BY <1>11 DEF CloseWait
<1>12. ASSUME NEW c \in Closers, Drain(c)
      PROVE  OpenInv'
  BY <1>12 DEF Drain
<1> QED
  BY <1>1, <1>2, <1>3, <1>4, <1>5, <1>6, <1>7, <1>8, <1>9, <1>10, <1>11, <1>12
     DEF Next, OpenStep, LookupStep, CloseStep

\* A reader is closed by a failed Open, by Close, or by a borrow that lost to it.
LEMMA ClosesInvStep ==
  ASSUME TypeOK, OpenInv, ClosesInv, Ownership, DrainInv, Next
  PROVE  ClosesInv'
<1> USE DEF TypeOK, OpenInv, ClosesInv, Ownership, Located, ReaderIsExclusive,
            ClosedReadersAreGone, DrainInv, CloseWaitsForLookups, Holding,
            Closers, openVars, poolVars, lookVars, closeVars
<1>1. ASSUME OpenStep
      PROVE  ClosesInv'
  BY <1>1 DEF OpenStep, OpenFirst, OpenFirstFails, ScanMetadata,
              ScanMetadataFails, OpenNext, OpenNextFails, OpenReturns
<1>2. ASSUME NEW p \in Request, Call(p) \/ Cancel(p) \/ CheckContext(p) \/ MissHot(p) \/ SelectDone(p)
      PROVE  ClosesInv'
  BY <1>2 DEF Call, Cancel, CheckContext, MissHot, SelectDone, Goto, Return
<1>3. ASSUME NEW p \in Request, TakeHot(p) \/ TakePool(p)
      PROVE  ClosesInv'
  BY <1>3 DEF TakeHot, TakePool, Receive, Goto
<1>4. ASSUME NEW p \in Request, Borrow(p)
      PROVE  ClosesInv'
  BY <1>4 DEF Borrow, Goto
<1>5. ASSUME NEW p \in Request, BorrowClosed(p)
      PROVE  ClosesInv'
  BY <1>5 DEF BorrowClosed, Goto, Return
<1>6. ASSUME NEW p \in Request, Use(p) \/ ReleaseFull(p) \/ ReleaseHot(p) \/ Spill(p)
      PROVE  ClosesInv'
  BY <1>6 DEF Use, ReleaseFull, ReleaseHot, Spill, Goto
<1>7. ASSUME NEW p \in Request, Finish(p)
      PROVE  ClosesInv'
  BY <1>7 DEF Finish, Goto, Return
<1>8. ASSUME NEW c \in Closer, CloseCall(c)
      PROVE  ClosesInv'
  BY <1>8 DEF CloseCall
<1>9. ASSUME NEW c \in Closers, CloseEnter(c) \/ CloseReturn(c)
      PROVE  ClosesInv'
  BY <1>9 DEF CloseEnter, CloseReturn
<1>10. ASSUME NEW c \in Closers, CloseWait(c)
      PROVE  ClosesInv'
  BY <1>10 DEF CloseWait
<1>11. ASSUME NEW c \in Closers, Drain(c)
      PROVE  ClosesInv'
  BY <1>11 DEF Drain
<1> QED
  BY <1>1, <1>2, <1>3, <1>4, <1>5, <1>6, <1>7, <1>8, <1>9, <1>10, <1>11
     DEF Next, OpenStep, LookupStep, CloseStep

\* A reader moves from a channel to a lookup and back, or is closed by its holder.
LEMMA OwnershipStep ==
  ASSUME TypeOK, OpenInv, ClosesInv, Ownership, Next
  PROVE  Ownership'
<1> USE DEF TypeOK, OpenInv, ClosesInv, Ownership, Located, ReaderIsExclusive,
            ClosedReadersAreGone, Holding, Closers, openVars, poolVars,
            lookVars, closeVars
<1>1. ASSUME NEW r \in Reader, OpenFirst(r)
      PROVE  Ownership'
  BY <1>1 DEF OpenFirst
<1>2. ASSUME OpenFirstFails \/ OpenNextFails \/ OpenReturns
      PROVE  Ownership'
  BY <1>2 DEF OpenFirstFails, OpenNextFails, OpenReturns
<1>3. ASSUME ScanMetadata
      PROVE  Ownership'
  BY <1>3 DEF ScanMetadata
<1>4. ASSUME ScanMetadataFails
      PROVE  Ownership'
  BY <1>4 DEF ScanMetadataFails
<1>5. ASSUME NEW r \in Reader, OpenNext(r)
      PROVE  Ownership'
  BY <1>5 DEF OpenNext
<1>6. ASSUME NEW p \in Request, Call(p) \/ Cancel(p) \/ CheckContext(p) \/ MissHot(p) \/ SelectDone(p)
      PROVE  Ownership'
  BY <1>6 DEF Call, Cancel, CheckContext, MissHot, SelectDone, Goto, Return
<1>7. ASSUME NEW p \in Request, TakeHot(p)
      PROVE  Ownership'
  BY <1>7 DEF TakeHot, Receive, Goto
<1>8. ASSUME NEW p \in Request, TakePool(p)
      PROVE  Ownership'
  BY <1>8 DEF TakePool, Receive, Goto
<1>9. ASSUME NEW p \in Request, Borrow(p)
      PROVE  Ownership'
  BY <1>9 DEF Borrow, Goto
<1>10. ASSUME NEW p \in Request, BorrowClosed(p)
      PROVE  Ownership'
  BY <1>10 DEF BorrowClosed, Goto, Return
<1>11. ASSUME NEW p \in Request, Use(p) \/ ReleaseFull(p)
      PROVE  Ownership'
  BY <1>11 DEF Use, ReleaseFull, Goto
<1>12. ASSUME NEW p \in Request, ReleaseHot(p)
      PROVE  Ownership'
  BY <1>12 DEF ReleaseHot, Goto
<1>13. ASSUME NEW p \in Request, Spill(p)
      PROVE  Ownership'
  BY <1>13 DEF Spill, Goto
<1>14. ASSUME NEW p \in Request, Finish(p)
      PROVE  Ownership'
  BY <1>14 DEF Finish, Goto, Return
<1>15. ASSUME NEW c \in Closer, CloseCall(c)
      PROVE  Ownership'
  BY <1>15 DEF CloseCall
<1>16. ASSUME NEW c \in Closers, CloseEnter(c)
      PROVE  Ownership'
  BY <1>16 DEF CloseEnter
<1>17. ASSUME NEW c \in Closers, CloseWait(c)
      PROVE  Ownership'
  BY <1>17 DEF CloseWait
<1>18. ASSUME NEW c \in Closers, Drain(c)
      PROVE  Ownership'
  BY <1>18 DEF Drain
<1>19. ASSUME NEW c \in Closers, CloseReturn(c)
      PROVE  Ownership'
  BY <1>19 DEF CloseReturn
<1> QED
  BY <1>1, <1>2, <1>3, <1>4, <1>5, <1>6, <1>7, <1>8, <1>9, <1>10, <1>11,
     <1>12, <1>13, <1>14, <1>15, <1>16, <1>17, <1>18, <1>19
     DEF Next, OpenStep, LookupStep, CloseStep

\* Registration is refused once closed, so the count Close waits for only falls.
LEMMA DrainWinnerStep ==
  ASSUME TypeOK, OpenInv, CounterInv, DrainInv, WinnerInv, Next
  PROVE  DrainInv' /\ WinnerInv'
<1> USE DEF TypeOK, OpenInv, DrainInv, CloseWaitsForLookups, WinnerInv,
            Registered, Closers, openVars, poolVars, lookVars, closeVars
<1>1. ASSUME OpenStep
      PROVE  DrainInv' /\ WinnerInv'
  BY <1>1 DEF OpenStep, OpenFirst, OpenFirstFails, ScanMetadata,
              ScanMetadataFails, OpenNext, OpenNextFails, OpenReturns
<1>2. ASSUME NEW p \in Request, Call(p) \/ Cancel(p) \/ CheckContext(p) \/ MissHot(p) \/ SelectDone(p)
      PROVE  DrainInv' /\ WinnerInv'
  BY <1>2 DEF Call, Cancel, CheckContext, MissHot, SelectDone, Goto, Return
<1>3. ASSUME NEW p \in Request, TakeHot(p) \/ TakePool(p)
      PROVE  DrainInv' /\ WinnerInv'
  BY <1>3 DEF TakeHot, TakePool, Receive, Goto
<1>4. ASSUME NEW p \in Request, Borrow(p)
      PROVE  DrainInv' /\ WinnerInv'
  BY <1>4 DEF Borrow, Goto
<1>5. ASSUME NEW p \in Request, BorrowClosed(p)
      PROVE  DrainInv' /\ WinnerInv'
  BY <1>5 DEF BorrowClosed, Goto, Return
<1>6. ASSUME NEW p \in Request, Use(p) \/ ReleaseFull(p)
      PROVE  DrainInv' /\ WinnerInv'
  BY <1>6 DEF Use, ReleaseFull, Goto
<1>7. ASSUME NEW p \in Request, ReleaseHot(p) \/ Spill(p)
      PROVE  DrainInv' /\ WinnerInv'
  BY <1>7 DEF ReleaseHot, Spill, Goto
<1>8. ASSUME NEW p \in Request, Finish(p)
      PROVE  DrainInv' /\ WinnerInv'
  BY <1>8 DEF Finish, Goto, Return
<1>9. ASSUME NEW c \in Closer, CloseCall(c)
      PROVE  DrainInv' /\ WinnerInv'
  BY <1>9 DEF CloseCall
<1>10. ASSUME NEW c \in Closers, CloseEnter(c)
      PROVE  DrainInv' /\ WinnerInv'
  BY <1>10 DEF CloseEnter
<1>11. ASSUME NEW c \in Closers, CloseReturn(c)
      PROVE  DrainInv' /\ WinnerInv'
  BY <1>11 DEF CloseReturn
<1>12. ASSUME NEW c \in Closers, CloseWait(c)
      PROVE  DrainInv' /\ WinnerInv'
  <2>1. RegisteredLookups = {}
    BY <1>12, RegisteredFinite, FS_EmptySet DEF CloseWait, CounterInv
  <2> QED
    BY <1>12, <2>1 DEF CloseWait, RegisteredLookups
<1>13. ASSUME NEW c \in Closers, Drain(c)
      PROVE  DrainInv' /\ WinnerInv'
  BY <1>13 DEF Drain
<1> QED
  BY <1>1, <1>2, <1>3, <1>4, <1>5, <1>6, <1>7, <1>8, <1>9, <1>10, <1>11,
     <1>12, <1>13
     DEF Next, OpenStep, LookupStep, CloseStep

\* The send that misses the hot lane leaves it filled; the receive that empties
\* it leaves an undecided lookup behind.
LEMMA LaneStep ==
  ASSUME TypeOK, OpenInv, Ownership, DrainInv, LaneInv, Next
  PROVE  LaneInv'
<1> USE DEF TypeOK, OpenInv, Ownership, Located, ReaderIsExclusive,
            ClosedReadersAreGone, DrainInv, CloseWaitsForLookups, LaneInv,
            Undecided, Holding, Closers, openVars, poolVars, lookVars,
            closeVars
<1>1. ASSUME OpenStep
      PROVE  LaneInv'
  BY <1>1 DEF OpenStep, OpenFirst, OpenFirstFails, ScanMetadata,
              ScanMetadataFails, OpenNext, OpenNextFails, OpenReturns
<1>2. ASSUME NEW p \in Request, Call(p) \/ Cancel(p) \/ CheckContext(p) \/ MissHot(p) \/ SelectDone(p)
      PROVE  LaneInv'
  BY <1>2 DEF Call, Cancel, CheckContext, MissHot, SelectDone, Goto, Return
<1>3. ASSUME NEW p \in Request, TakeHot(p) \/ TakePool(p)
      PROVE  LaneInv'
  BY <1>3 DEF TakeHot, TakePool, Receive, Goto
<1>4. ASSUME NEW p \in Request, Borrow(p)
      PROVE  LaneInv'
  BY <1>4 DEF Borrow, Goto
<1>5. ASSUME NEW p \in Request, BorrowClosed(p)
      PROVE  LaneInv'
  BY <1>5 DEF BorrowClosed, Goto, Return
<1>6. ASSUME NEW p \in Request, Use(p) \/ ReleaseFull(p)
      PROVE  LaneInv'
  BY <1>6 DEF Use, ReleaseFull, Goto
<1>7. ASSUME NEW p \in Request, ReleaseHot(p) \/ Spill(p)
      PROVE  LaneInv'
  BY <1>7 DEF ReleaseHot, Spill, Goto
<1>8. ASSUME NEW p \in Request, Finish(p)
      PROVE  LaneInv'
  BY <1>8 DEF Finish, Goto, Return
<1>9. ASSUME NEW c \in Closer, CloseCall(c)
      PROVE  LaneInv'
  BY <1>9 DEF CloseCall
<1>10. ASSUME NEW c \in Closers, CloseEnter(c) \/ CloseReturn(c)
      PROVE  LaneInv'
  BY <1>10 DEF CloseEnter, CloseReturn
<1>11. ASSUME NEW c \in Closers, CloseWait(c)
      PROVE  LaneInv'
  BY <1>11 DEF CloseWait
<1>12. ASSUME NEW c \in Closers, Drain(c)
      PROVE  LaneInv'
  BY <1>12 DEF Drain
<1> QED
  BY <1>1, <1>2, <1>3, <1>4, <1>5, <1>6, <1>7, <1>8, <1>9, <1>10, <1>11, <1>12
     DEF Next, OpenStep, LookupStep, CloseStep

-----------------------------------------------------------------------------
(* The invariant holds in every reachable state                            *)

LEMMA InvInit == Init => IInv
  <1> SUFFICES ASSUME Init PROVE IInv
    OBVIOUS
  <1>1. RegisteredLookups = {}
    BY DEF Init, RegisteredLookups, Registered
  <1>2. CounterInv
    BY <1>1, FS_EmptySet DEF Init, CounterInv
  <1>3. TypeOK
    BY DEF Init, TypeOK, OpenPC, ClosePC, LookupPC
  <1>4. OpenInv /\ ClosesInv
    BY DEF Init, OpenInv, ClosesInv
  <1>5. Ownership
    BY DEF Init, Ownership, Located, ReaderIsExclusive, ClosedReadersAreGone, Holding
  <1>6. DrainInv /\ WinnerInv /\ LaneInv
    BY DEF Init, DrainInv, WinnerInv, LaneInv, CloseWaitsForLookups
  <1> QED
    BY <1>2, <1>3, <1>4, <1>5, <1>6 DEF IInv

LEMMA InvStep == IInv /\ [Next]_vars => IInv'
  <1>1. ASSUME IInv, Next PROVE IInv'
    BY <1>1, TypeStep, OpenInvStep, ClosesInvStep, OwnershipStep, CounterStep,
       DrainWinnerStep, LaneStep DEF IInv
  <1>2. ASSUME IInv, UNCHANGED vars PROVE IInv'
    <2> USE DEF vars, openVars, poolVars, lookVars, closeVars
    <2>1. TypeOK' /\ OpenInv' /\ ClosesInv' /\ Ownership'
      BY <1>2 DEF IInv, TypeOK, OpenInv, ClosesInv, Ownership, Located,
                  ReaderIsExclusive, ClosedReadersAreGone
    <2>2. CounterInv'
      BY <1>2 DEF IInv, CounterInv, RegisteredLookups
    <2>3. DrainInv' /\ WinnerInv' /\ LaneInv'
      BY <1>2 DEF IInv, DrainInv, WinnerInv, LaneInv, CloseWaitsForLookups, Undecided
    <2> QED
      BY <2>1, <2>2, <2>3 DEF IInv
  <1> QED
    BY <1>1, <1>2

LEMMA Invariant == Spec => []IInv
  BY InvInit, InvStep, PTL DEF Spec

-----------------------------------------------------------------------------
(* Theorems                                                                *)

\* Every variable keeps its range; in particular the WaitGroup's counter never
\* goes negative, which would make sync.WaitGroup panic.
THEOREM TypeCorrect == Spec => []TypeOK
  <1>1. IInv => TypeOK
    BY DEF IInv
  <1> QED
    BY <1>1, Invariant, PTL

\* One reader, one place: no two lookups share a pager handle, and hotReader
\* never holds more than one.
THEOREM ReadersAreExclusive == Spec => []ReaderIsExclusive
  <1>1. IInv => ReaderIsExclusive
    BY DEF IInv, Ownership
  <1> QED
    BY <1>1, Invariant, PTL

\* No reader is closed twice, nor while a channel or a lookup has it.
THEOREM NoUseAfterClose == Spec => []ClosedReadersAreGone
  <1>1. IInv => ClosedReadersAreGone
    BY DEF IInv, Ownership
  <1> QED
    BY <1>1, Invariant, PTL

\* Close starts to drain only when no lookup is registered, and none registers
\* from then on.
THEOREM DrainFindsNoLookup == Spec => []CloseWaitsForLookups
  <1>1. IInv => CloseWaitsForLookups
    BY DEF IInv, DrainInv
  <1> QED
    BY <1>1, Invariant, PTL

\* At rest, a closed dataset has closed every reader it opened.
THEOREM ClosedDatasetLeaksNothing == Spec => []NoReaderLeaks
  <1>1. ASSUME IInv PROVE NoReaderLeaks
    <2> USE <1>1 DEF IInv, OpenInv, Ownership, Located, WinnerInv
    <2>1. CASE opc = "failed"
      BY <2>1 DEF NoReaderLeaks, Holding
    <2>2. CASE closed
      BY <2>2 DEF NoReaderLeaks
    <2> QED
      BY <2>1, <2>2 DEF NoReaderLeaks
  <1> QED
    BY <1>1, Invariant, PTL

\* The blocking send of release always finds a free slot: some reader is
\* neither the one being sent nor in the channel.
THEOREM SpillHasRoom == Spec => []ReleaseNeverBlocks
  <1>1. ASSUME IInv, NEW p \in Request, pc[p] = "spill"
        PROVE  Cardinality(pool) < ReaderCount - 1
    <2>1. held[p] \in Reader \ pool
      BY <1>1 DEF IInv, Ownership, ReaderIsExclusive, Holding
    <2>2. PICK b \in Reader : b \notin pool /\ b # held[p]
      <3> USE <1>1 DEF IInv, TypeOK, Ownership, ReaderIsExclusive,
                       ClosedReadersAreGone, Holding
      <3>1. CASE hot # {}
        BY <3>1
      <3>2. CASE Undecided # {}
        BY <3>2 DEF Undecided
      <3>3. CASE \E r \in Reader : closes[r] > 0
        BY <3>3
      <3> QED
        BY <3>1, <3>2, <3>3 DEF OpenInv, LaneInv
    <2> DEFINE Others == Reader \ {held[p]}
               Rest   == Others \ {b}
    <2>3. IsFiniteSet(Others) /\ Cardinality(Others) = ReaderCount - 1
      BY <2>1, PoolAssumption, FS_RemoveElement DEF ReaderCount
    <2>4. IsFiniteSet(Rest) /\ Cardinality(Rest) = Cardinality(Others) - 1
      BY <2>2, <2>3, FS_RemoveElement
    <2>5. pool \subseteq Rest
      BY <1>1, <2>1, <2>2 DEF IInv, TypeOK
    <2>6. Cardinality(pool) <= Cardinality(Rest)
      BY <2>4, <2>5, FS_Subset
    <2>7. /\ Cardinality(pool) \in Int /\ Cardinality(Rest) \in Int
          /\ ReaderCount \in Int
      BY <2>4, <2>5, PoolAssumption, FS_Subset, FS_CardinalityType DEF ReaderCount
    <2> HIDE DEF Others, Rest
    <2> QED
      BY <2>3, <2>4, <2>6, <2>7
  <1>2. IInv => ReleaseNeverBlocks
    BY <1>1 DEF ReleaseNeverBlocks
  <1> QED
    BY <1>2, Invariant, PTL

\* A dataset none of whose readers is in use has one in the hot lane.
THEOREM IdleDatasetIsHot == Spec => []HotLaneFilledWhenIdle
  <1>1. ASSUME IInv PROVE HotLaneFilledWhenIdle
    BY <1>1 DEF IInv, ClosesInv, LaneInv, Undecided, HotLaneFilledWhenIdle
  <1> QED
    BY <1>1, Invariant, PTL

-----------------------------------------------------------------------------
(* DatasetPool implements ReaderLease                                      *)

leasedPairs == {<<p, held[p]>> : p \in {q \in Request : pc[q] \in InUse}}
goneReaders == {r \in Reader : closes[r] > 0}

\* A step that changes neither the set of leases nor anything else that
\* ReaderLease sees.
Stutter == UNCHANGED <<opened, goneReaders, leasedPairs, (closed \/ opc = "failed")>>

LEMMA StutterIsUnchanged == Stutter => UNCHANGED Lease!vars
  BY DEF Stutter, Lease!vars, goneReaders, leasedPairs

LEMMA LeaseInit == Init => Lease!Init
  BY DEF Init, Lease!Init, InUse

\* Opening a reader provides it; a failing Open begins to close, and retires
\* the reader whose metadata it could not use.
LEMMA OpenRefines ==
  ASSUME IInv, OpenStep
  PROVE  Lease!Next \/ Stutter
<1> USE DEF IInv, TypeOK, OpenInv, ClosesInv, InUse, openVars, poolVars, lookVars, closeVars
<1>1. ASSUME NEW r \in Reader, OpenFirst(r) \/ OpenNext(r)
      PROVE  Lease!Provide(r)
  BY <1>1 DEF OpenFirst, OpenNext, Lease!Provide
<1>2. ASSUME OpenFirstFails
      PROVE  Lease!BeginClose
  BY <1>2 DEF OpenFirstFails, Lease!BeginClose
<1>3. ASSUME ScanMetadataFails
      PROVE  \E r \in Reader : Lease!Retire(r)
  <2>1. PICK r \in Reader : opened = {r}
    BY <1>3 DEF ScanMetadataFails
  <2>2. ~Lease!Leased(r) /\ r \notin goneReaders
    BY <1>3 DEF ScanMetadataFails, Lease!Leased, goneReaders
  <2>3. {q \in Reader : closes'[q] > 0} = {q \in Reader : closes[q] > 0} \cup {r}
    BY <1>3, <2>1 DEF ScanMetadataFails
  <2>4. Lease!Retire(r)
    BY <1>3, <2>1, <2>2, <2>3 DEF ScanMetadataFails, Lease!Retire, goneReaders
  <2> QED
    BY <2>4
<1>4. ASSUME ScanMetadata \/ OpenNextFails \/ OpenReturns
      PROVE  Stutter
  BY <1>4 DEF ScanMetadata, OpenNextFails, OpenReturns, Stutter, goneReaders, leasedPairs
<1> QED
  BY <1>1, <1>2, <1>3, <1>4 DEF OpenStep, Lease!Next

\* borrow grants the lease, the send back ends it, and the losing borrow
\* retires the reader; the rest of a lookup is invisible.
LEMMA LookupRefines ==
  ASSUME IInv, NEW p \in Request, Call(p) \/ Cancel(p) \/ LookupStep(p)
  PROVE  Lease!Next \/ Stutter
<1> USE DEF IInv, TypeOK, InUse, Holding, Registered, LookupPC,
            openVars, poolVars, lookVars, closeVars
<1>1. ASSUME NEW r \in Reader, held[p] = r, Borrow(p)
      PROVE  Lease!Grant(p, r)
  <2>1. /\ r \in opened \ goneReaders
        /\ ~Lease!Leased(r) /\ ~Lease!Leasing(p)
    BY <1>1 DEF Borrow, Ownership, Located, ReaderIsExclusive, ClosedReadersAreGone,
                Lease!Leased, Lease!Leasing, goneReaders
  <2>2. leasedPairs' = leasedPairs \cup {<<p, r>>}
    BY <1>1 DEF Borrow, Goto, leasedPairs
  <2>3. ~(closed \/ opc = "failed")
    BY <1>1 DEF Borrow, OpenInv
  <2>4. UNCHANGED <<opened, goneReaders, (closed \/ opc = "failed")>>
    BY <1>1 DEF Borrow, goneReaders
  <2> QED
    BY <2>1, <2>2, <2>3, <2>4 DEF Lease!Grant, leasedPairs, goneReaders
<1>2. ASSUME NEW r \in Reader, held[p] = r, BorrowClosed(p)
      PROVE  Lease!Retire(r)
  <2>1. r \in opened \ goneReaders /\ ~Lease!Leased(r)
    BY <1>2 DEF BorrowClosed, Ownership, Located, ReaderIsExclusive,
                ClosedReadersAreGone, Lease!Leased, goneReaders
  <2>2. goneReaders' = goneReaders \cup {r}
    BY <1>2, <2>1 DEF BorrowClosed, goneReaders, Ownership, ReaderIsExclusive
  <2>3. leasedPairs' = leasedPairs
    BY <1>2 DEF BorrowClosed, Return, Goto, leasedPairs
  <2>4. opened' = opened /\ (closed \/ opc = "failed")'
    BY <1>2 DEF BorrowClosed
  <2> QED
    BY <2>1, <2>2, <2>3, <2>4 DEF Lease!Retire, leasedPairs, goneReaders
<1>3. ASSUME NEW r \in Reader, held[p] = r, ReleaseHot(p) \/ Spill(p)
      PROVE  Lease!GiveBack(p, r)
  <2>1. <<p, r>> \in leasedPairs
    BY <1>3 DEF ReleaseHot, Spill, leasedPairs
  <2>2. leasedPairs' = leasedPairs \ {<<p, r>>}
    BY <1>3 DEF ReleaseHot, Spill, Goto, leasedPairs
  <2>3. UNCHANGED <<opened, goneReaders, (closed \/ opc = "failed")>>
    BY <1>3 DEF ReleaseHot, Spill, goneReaders
  <2> QED
    BY <2>1, <2>2, <2>3 DEF Lease!GiveBack, leasedPairs, goneReaders
<1>4. ASSUME TakeHot(p) \/ TakePool(p)
      PROVE  Stutter
  BY <1>4 DEF TakeHot, TakePool, Receive, Goto, Stutter, goneReaders, leasedPairs
<1>5. ASSUME Call(p) \/ Cancel(p) \/ CheckContext(p) \/ MissHot(p) \/ SelectDone(p)
      PROVE  Stutter
  BY <1>5 DEF Call, Cancel, CheckContext, MissHot, SelectDone, Goto, Return, Stutter,
              goneReaders, leasedPairs
<1>6. ASSUME Use(p) \/ ReleaseFull(p) \/ Finish(p)
      PROVE  Stutter
  BY <1>6 DEF Use, ReleaseFull, Finish, Goto, Return, Stutter, goneReaders, leasedPairs
<1>7. ASSUME Borrow(p) \/ BorrowClosed(p) \/ ReleaseHot(p) \/ Spill(p)
      PROVE  held[p] \in Reader
  BY <1>7 DEF Borrow, BorrowClosed, ReleaseHot, Spill, Ownership, ReaderIsExclusive
<1>8. CASE Borrow(p)
  BY <1>1, <1>7, <1>8 DEF Lease!Next
<1>9. CASE BorrowClosed(p)
  BY <1>2, <1>7, <1>9 DEF Lease!Next
<1>10. CASE ReleaseHot(p) \/ Spill(p)
  BY <1>3, <1>7, <1>10 DEF Lease!Next
<1> QED
  BY <1>4, <1>5, <1>6, <1>8, <1>9, <1>10 DEF LookupStep

\* Close begins when it sets closed and retires what it drains.
LEMMA CloseRefines ==
  ASSUME IInv, \/ \E c \in Closer : CloseCall(c)
               \/ \E c \in Closers : CloseStep(c)
  PROVE  Lease!Next \/ Stutter
<1> USE DEF IInv, TypeOK, InUse, openVars, poolVars, lookVars, closeVars
<1>1. ASSUME NEW c \in Closers, CloseEnter(c)
      PROVE  Lease!BeginClose
  BY <1>1 DEF CloseEnter, Lease!BeginClose
<1>2. ASSUME NEW c \in Closers, Drain(c)
      PROVE  \E r \in Reader : Lease!Retire(r)
  <2>1. PICK r \in hot \cup pool : closes' = [closes EXCEPT ![r] = @ + 1]
    BY <1>2 DEF Drain
  <2>2. r \in opened \ goneReaders /\ ~Lease!Leased(r)
    BY <2>1 DEF Ownership, Located, ReaderIsExclusive, ClosedReadersAreGone, Holding,
                Lease!Leased, goneReaders
  <2>3. goneReaders' = goneReaders \cup {r}
    BY <2>1, <2>2 DEF goneReaders
  <2>4. leasedPairs' = leasedPairs
    BY <1>2 DEF Drain, leasedPairs
  <2>5. opened' = opened /\ (closed \/ opc = "failed")'
    BY <1>2 DEF Drain, DrainInv
  <2>6. Lease!Retire(r)
    BY <2>2, <2>3, <2>4, <2>5 DEF Lease!Retire, leasedPairs, goneReaders
  <2> QED
    BY <2>1, <2>6
<1>3. ASSUME \/ \E c \in Closer : CloseCall(c)
             \/ \E c \in Closers : CloseWait(c) \/ CloseReturn(c)
      PROVE  Stutter
  BY <1>3 DEF CloseCall, CloseWait, CloseReturn, Stutter, goneReaders, leasedPairs
<1> QED
  BY <1>1, <1>2, <1>3 DEF CloseStep, Lease!Next

\* The pool implements the safety part of ReaderLease: leases are exclusive,
\* none is granted once closing has begun, and no leased reader is closed.
THEOREM PoolImplementsLease == Spec => Lease!Safety
  <1>1. ASSUME IInv, [Next]_vars
        PROVE  [Lease!Next]_(Lease!vars)
    <2>1. CASE Next
      BY <1>1, <2>1, OpenRefines, LookupRefines, CloseRefines, StutterIsUnchanged DEF Next
    <2>2. CASE UNCHANGED vars
      <3>1. Stutter
        BY <2>2 DEF vars, openVars, poolVars, lookVars, closeVars, Stutter, goneReaders,
                    leasedPairs
      <3> QED
        BY <3>1, StutterIsUnchanged
    <2> QED
      BY <1>1, <2>1, <2>2
  <1> QED
    BY <1>1, LeaseInit, Invariant, PTL DEF Spec, Lease!Safety
=============================================================================
