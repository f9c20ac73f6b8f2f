------------------------------- MODULE TileCache -------------------------------
(***************************************************************************)
(* The server's tile cache (src/server/tile_cache.go): byte-bounded LRU    *)
(* lists, one per shard and one shared lane for large payloads, each with  *)
(* a front pointer that lets the most recent payload be read without the   *)
(* lane's lock.                                                            *)
(*                                                                         *)
(* A probe of the front pointer and a locked lookup are one step each.  An *)
(* insertion publishes the new front in the step that takes the lock and   *)
(* evicts one entry per step before it lets go: readers of the front       *)
(* pointer run in between.  The artifact behind a cache is immutable, so a *)
(* key always comes with the same payload and the same checksum.           *)
(***************************************************************************)
EXTENDS Integers, Sequences, SequencesExt

CONSTANTS
  Key,
  Client,         \* goroutines that call get and put
  Nobody,
  MaxBytes,       \* the byte budget given to newTileCache
  ShardCount,     \* tileCacheShardCount
  LargeFraction,  \* tileCacheLargeFraction
  Large,          \* the lane of large payloads
  Home,           \* the shard a key hashes to
  Length,         \* the payload length of a key
  DigestSize      \* tileCacheChecksumSize of a digest

ASSUME CacheAssumption ==
  /\ Nobody \notin Client \cup Key
  /\ MaxBytes \in Nat \ {0}
  /\ ShardCount \in Nat \ {0} /\ LargeFraction \in Nat \ {0}
  /\ Large \notin 0 .. ShardCount - 1
  /\ Home \in [Key -> 0 .. ShardCount - 1]
  /\ Length \in [Key -> Nat]
  /\ DigestSize \in Nat \ {0}

VARIABLES
  lru,     \* per lane, the keys of its entries, most recently used first
  full,    \* per lane, the keys whose entry still has its payload
  used,    \* per lane, the bytes accounted for
  front,   \* per lane, the key of the payload in the front pointer
  holder,  \* per lane, who holds its mutex across steps
  pc,      \* what each client is doing
  arg,     \* the key of its call
  step     \* how many of the lookups of get it has made

laneVars == <<lru, full, used, front, holder>>
vars == <<laneVars, pc, arg, step>>

Shard == 0 .. ShardCount - 1
Lane  == Shard \cup {Large}

\* newTileCache gives every lane its share of the budget.
Budget(l) ==
  LET large  == MaxBytes \div LargeFraction
      normal == MaxBytes - large
  IN  IF l = Large THEN large
      ELSE normal \div ShardCount + (IF l < normal % ShardCount THEN 1 ELSE 0)

Size(k) == DigestSize + Length[k]

\* The accounted size of an entry: an evicted payload leaves its digest.
EntrySize(l, k) == IF k \in full[l] THEN Size(k) ELSE DigestSize

\* The lane put chooses.
PutLane(k) == IF Size(k) > Budget(Home[k]) THEN Large ELSE Home[k]

\* Fault: the large lane takes any payload.
Fits_Unbounded(k) == Size(k) <= Budget(Home[k]) \/ Budget(Large) > 0

\* Whether the payload fits its lane at all.
Fits(k) == Size(k) <= Budget(PutLane(k))

Has(l, k) == \E i \in DOMAIN lru[l] : lru[l][i] = k

\* The list element that entries maps the key to.
Element(l, k) == CHOOSE i \in DOMAIN lru[l] : lru[l][i] = k

\* MoveToFront of that element, or PushFront of a new one.
MovedToFront(l, k) ==
  <<k>> \o (IF Has(l, k) THEN RemoveAt(lru[l], Element(l, k)) ELSE lru[l])

Init ==
  /\ lru = [l \in Lane |-> <<>>]
  /\ full = [l \in Lane |-> {}]
  /\ used = [l \in Lane |-> 0]
  /\ front = [l \in Lane |-> Nobody]
  /\ holder = [l \in Lane |-> Nobody]
  /\ pc = [g \in Client |-> "idle"]
  /\ arg = [g \in Client |-> Nobody]
  /\ step = [g \in Client |-> 0]

-----------------------------------------------------------------------------
(* get                                                                     *)

\* get asks the two front pointers, then getFrom asks each lane again: its
\* front pointer first, its list under the lock afterwards.
GetProbes(k) ==
  << [lane |-> Home[k], locked |-> FALSE], [lane |-> Large, locked |-> FALSE],
     [lane |-> Home[k], locked |-> FALSE], [lane |-> Home[k], locked |-> TRUE],
     [lane |-> Large, locked |-> FALSE],   [lane |-> Large, locked |-> TRUE] >>

Probe(g) == GetProbes(arg[g])[step[g]]

Return(g, how) ==
  /\ pc' = [pc EXCEPT ![g] = how]
  /\ arg' = [arg EXCEPT ![g] = Nobody]
  /\ step' = [step EXCEPT ![g] = 0]

Get(g, k) ==
  /\ pc[g] \in {"idle", "hit", "miss"}
  /\ pc' = [pc EXCEPT ![g] = "get"]
  /\ arg' = [arg EXCEPT ![g] = k]
  /\ step' = [step EXCEPT ![g] = 1]
  /\ UNCHANGED laneVars

\* The next lookup, or a miss after the last one.
NextProbe(g) ==
  IF step[g] = 6
  THEN Return(g, "miss")
  ELSE step' = [step EXCEPT ![g] = @ + 1] /\ UNCHANGED <<pc, arg>>

\* getFast loads the front pointer and touches nothing.
FastProbe(g) ==
  /\ pc[g] = "get" /\ ~Probe(g).locked
  /\ IF front[Probe(g).lane] = arg[g] THEN Return(g, "hit") ELSE NextProbe(g)
  /\ UNCHANGED laneVars

\* Fault: a miss returns without Unlock.
LockedProbe_KeepsLock(g) ==
  /\ pc[g] = "get" /\ Probe(g).locked
  /\ LET l == Probe(g).lane IN
     /\ holder[l] = Nobody
     /\ IF arg[g] \in full[l]
        THEN /\ lru' = [lru EXCEPT ![l] = MovedToFront(l, arg[g])]
             /\ front' = [front EXCEPT ![l] = arg[g]]
             /\ Return(g, "hit") /\ UNCHANGED holder
        ELSE NextProbe(g) /\ holder' = [holder EXCEPT ![l] = g] /\ UNCHANGED <<lru, front>>
  /\ UNCHANGED <<full, used>>

LockedProbe(g) ==
  /\ pc[g] = "get" /\ Probe(g).locked
  /\ LET l == Probe(g).lane IN
     /\ holder[l] = Nobody
     /\ IF arg[g] \in full[l]
        THEN /\ lru' = [lru EXCEPT ![l] = MovedToFront(l, arg[g])]
             /\ front' = [front EXCEPT ![l] = arg[g]]
             /\ Return(g, "hit")
        ELSE NextProbe(g) /\ UNCHANGED <<lru, front>>
  /\ UNCHANGED <<full, used, holder>>

-----------------------------------------------------------------------------
(* put                                                                     *)

Put(g, k) ==
  /\ pc[g] \in {"idle", "hit", "miss"}
  /\ pc' = [pc EXCEPT ![g] = "put"]
  /\ arg' = [arg EXCEPT ![g] = k]
  /\ UNCHANGED <<laneVars, step>>

\* The step that takes the lock: the entry becomes the most recent one.
Insert(g, l, full1, front1) ==
  /\ pc[g] = "put" /\ holder[l] = Nobody
  /\ holder' = [holder EXCEPT ![l] = g]
  /\ lru' = [lru EXCEPT ![l] = MovedToFront(l, arg[g])]
  /\ full' = [full EXCEPT ![l] = full1]
  /\ front' = [front EXCEPT ![l] = front1]
  /\ pc' = [pc EXCEPT ![g] = "evict"]
  /\ UNCHANGED <<arg, step>>

\* Fault: the new payload is not published.
PutInto_KeepsFront(g) ==
  LET k == arg[g]
      l == PutLane(k)
      old == IF Has(l, k) THEN EntrySize(l, k) ELSE 0
  IN  /\ pc[g] = "put" /\ Fits(k)
      /\ Insert(g, l, full[l] \cup {k}, front[l])
      /\ used' = [used EXCEPT ![l] = @ - old + Size(k)]

PutInto(g) ==
  LET k == arg[g]
      l == PutLane(k)
      old == IF Has(l, k) THEN EntrySize(l, k) ELSE 0
  IN  /\ pc[g] = "put" /\ Fits(k)
      /\ Insert(g, l, full[l] \cup {k}, k)
      /\ used' = [used EXCEPT ![l] = @ - old + Size(k)]

\* A payload too large for the cache leaves its digest in its home shard.  Its
\* entry there never has the payload, so putChecksum always gets past line 276.
PutChecksum(g) ==
  LET k == arg[g]
      l == Home[k]
  IN  /\ pc[g] = "put" /\ ~Fits(k) /\ DigestSize <= Budget(l)
      /\ Insert(g, l, full[l], Nobody)
      /\ used' = [used EXCEPT ![l] = IF Has(l, k) THEN @ ELSE @ + DigestSize]

PutNothing(g) ==
  /\ pc[g] = "put" /\ ~Fits(arg[g]) /\ DigestSize > Budget(Home[arg[g]])
  /\ Return(g, "idle")
  /\ UNCHANGED laneVars

Evicting(g, l) == pc[g] = "evict" /\ holder[l] = g

\* Fault: eviction only ever drops payloads.
Overfull_PayloadsOnly(l) ==
  used[l] > Budget(l) /\ lru[l] # <<>> /\ Last(lru[l]) \in full[l]

Overfull(l) == used[l] > Budget(l) /\ lru[l] # <<>>

\* The least recently used entry loses its payload first ...
DropPayload(g, l) ==
  /\ Evicting(g, l) /\ Overfull(l)
  /\ LET victim == Last(lru[l]) IN
     /\ victim \in full[l]
     /\ full' = [full EXCEPT ![l] = @ \ {victim}]
     /\ front' = [front EXCEPT ![l] = IF @ = victim THEN Nobody ELSE @]
     /\ used' = [used EXCEPT ![l] = @ - Length[victim]]
  /\ UNCHANGED <<lru, holder, pc, arg, step>>

\* ... and is removed when that is not enough.
DropEntry(g, l) ==
  /\ Evicting(g, l) /\ Overfull(l)
  /\ LET victim == Last(lru[l]) IN
     /\ victim \notin full[l]
     /\ lru' = [lru EXCEPT ![l] = Front(@)]
     /\ used' = [used EXCEPT ![l] = @ - DigestSize]
  /\ UNCHANGED <<full, front, holder, pc, arg, step>>

Unlock(g, l) ==
  /\ Evicting(g, l) /\ ~Overfull(l)
  /\ holder' = [holder EXCEPT ![l] = Nobody]
  /\ Return(g, "idle")
  /\ UNCHANGED <<lru, full, used, front>>

-----------------------------------------------------------------------------
GetStep(g) == FastProbe(g) \/ LockedProbe(g)

PutStep(g) ==
  \/ PutInto(g) \/ PutChecksum(g) \/ PutNothing(g)
  \/ \E l \in Lane : DropPayload(g, l) \/ DropEntry(g, l) \/ Unlock(g, l)

Next ==
  \E g \in Client :
    \/ \E k \in Key : Get(g, k) \/ Put(g, k)
    \/ GetStep(g) \/ PutStep(g)

\* A call that has begun goes on.  sync.Mutex hands the lock to a goroutine
\* that keeps waiting for it, hence strong fairness where a step needs it.
Fairness ==
  \A g \in Client : WF_vars(FastProbe(g)) /\ SF_vars(LockedProbe(g)) /\ SF_vars(PutStep(g))

Spec     == Init /\ [][Next]_vars
LiveSpec == Spec /\ Fairness

-----------------------------------------------------------------------------
(* Properties                                                              *)

\* Lists hold no key twice, and payloads belong to their entries.
ListsOK ==
  /\ lru \in [Lane -> Seq(Key)] /\ full \in [Lane -> SUBSET Key]
  /\ \A l \in Lane : IsInjective(lru[l]) /\ full[l] \subseteq ToSet(lru[l])

CallsOK ==
  /\ pc \in [Client -> {"idle", "hit", "miss", "get", "put", "evict"}]
  /\ arg \in [Client -> Key \cup {Nobody}]
  /\ step \in [Client -> 0 .. 6]
  /\ \A g \in Client : pc[g] = "get" => step[g] > 0
  /\ \A g \in Client : pc[g] \in {"get", "put", "evict"} => arg[g] \in Key

\* A client holds a lane's lock exactly while it evicts, and only one.
LocksOK ==
  /\ holder \in [Lane -> Client \cup {Nobody}]
  /\ \A g \in Client : pc[g] = "evict" <=> \E l \in Lane : holder[l] = g
  /\ \A g \in Client : \A l, m \in Lane : holder[l] = g /\ holder[m] = g => l = m

\* The type of every variable, with the locks every path gives back.
TypeOK ==
  /\ ListsOK /\ CallsOK /\ LocksOK
  /\ used \in [Lane -> Int]
  /\ front \in [Lane -> Key \cup {Nobody}]

\* w[1] + ... + w[n].
SumTo(w, n) ==
  LET sum[i \in 0 .. n] == IF i = 0 THEN 0 ELSE w[i] + sum[i - 1]
  IN  sum[n]

SumOfEntries(l) == SumTo([i \in 1 .. Len(lru[l]) |-> EntrySize(l, lru[l][i])], Len(lru[l]))

SumOfBudgets == SumTo([i \in 1 .. ShardCount |-> Budget(i - 1)], ShardCount) + Budget(Large)

\* The entries of a lane nobody holds fit its budget, although the bound is
\* enforced on a counter that putInto, putChecksum and both ways an entry
\* shrinks keep up to date separately, and the budgets newTileCache deals out
\* are together no more than the one it was given.
WithinBudget ==
  /\ \A l \in Lane : holder[l] = Nobody => SumOfEntries(l) <= Budget(l)
  /\ SumOfBudgets <= MaxBytes

\* A published front is the payload of its lane's most recent entry: it was
\* cleared before that payload was evicted or overtaken.
FrontIsMostRecent ==
  \A l \in Lane : front[l] # Nobody =>
    /\ lru[l] # <<>> /\ Head(lru[l]) = front[l]
    /\ front[l] \in full[l]

\* Every hit, also one that took no lock, leaves its key the most recently
\* used of its lane: the fast path does not weaken the LRU order.
HitsRefreshRecency ==
  [][\A g \in Client : pc[g] = "get" /\ pc'[g] = "hit" =>
       Head(lru'[Probe(g).lane]) = arg[g]]_vars

\* Eviction never reaches the payload it makes room for: when put lets go of
\* the lock, what it stored is there, at the head of the list.
PutIsRetained ==
  [][\A g \in Client : \A l \in Lane :
       holder[l] = g /\ holder'[l] = Nobody =>
         /\ lru'[l] # <<>> /\ Head(lru'[l]) = arg[g]
         /\ PutLane(arg[g]) = l /\ Fits(arg[g]) => arg[g] \in full'[l]]_vars

\* Every get and put returns, whatever the others do: locks are given back and
\* the eviction loop ends.
CallsReturn ==
  \A g \in Client : pc[g] \in {"get", "put", "evict"} ~> pc[g] \in {"idle", "hit", "miss"}
=============================================================================
