----------------------------- MODULE ReaderLease -----------------------------
(***************************************************************************)
(* What a Dataset promises about its readers, without channels, locks or a *)
(* WaitGroup: a reader is leased to one lookup at a time, is retired       *)
(* (closed) only while nobody leases it, and no lease is granted any more  *)
(* once closing has begun.  DatasetPool implements it.                     *)
(***************************************************************************)
CONSTANTS Reader, Request

VARIABLES
  opened,   \* readers that exist
  gone,     \* readers that were closed
  leases,   \* pairs <<lookup, reader>>
  closing   \* Close has begun, or Open has failed

vars == <<opened, gone, leases, closing>>

Init == opened = {} /\ gone = {} /\ leases = {} /\ closing = FALSE

Leased(r) == \E p \in Request : <<p, r>> \in leases
Leasing(p) == \E r \in Reader : <<p, r>> \in leases

Provide(r) ==
  /\ ~closing /\ r \notin opened
  /\ opened' = opened \cup {r}
  /\ UNCHANGED <<gone, leases, closing>>

Grant(p, r) ==
  /\ ~closing
  /\ r \in opened \ gone /\ ~Leased(r) /\ ~Leasing(p)
  /\ leases' = leases \cup {<<p, r>>}
  /\ UNCHANGED <<opened, gone, closing>>

GiveBack(p, r) ==
  /\ <<p, r>> \in leases
  /\ leases' = leases \ {<<p, r>>}
  /\ UNCHANGED <<opened, gone, closing>>

BeginClose ==
  /\ closing' = TRUE
  /\ UNCHANGED <<opened, gone, leases>>

\* Closing a reader is final for the whole dataset.
Retire(r) ==
  /\ r \in opened \ gone /\ ~Leased(r)
  /\ gone' = gone \cup {r} /\ closing' = TRUE
  /\ UNCHANGED <<opened, leases>>

Next ==
  \/ BeginClose
  \/ \E r \in Reader :
       \/ Provide(r) \/ Retire(r)
       \/ \E p \in Request : Grant(p, r) \/ GiveBack(p, r)

Safety == Init /\ [][Next]_vars

\* Leases end, and once closing has begun the readers are retired.
Fairness ==
  /\ \A p \in Request, r \in Reader : WF_vars(GiveBack(p, r))
  /\ \A r \in Reader : WF_vars(closing /\ Retire(r))

Spec == Safety /\ Fairness
=============================================================================
