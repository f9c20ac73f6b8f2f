\* A file or a memory store; two calls, two workers, two tiles of two revisions
\* served in turn, a bad record of the second one, crashes; and a request of more
\* keys than its only worker and the channel can hold.
CONSTANTS
  Call = {c1, c2}
  maxSyncConcurrency = 2
  r1 = r1
  r2 = r2
  k1 = k1
  k2 = k2
  k3 = k3
  k4 = k4
  Revision = {r1, r2}
  Key = {k1, k2, k3, k4}
  Tiles <- MCTiles
  Requests <- MCRequests
  Stores = {"file", "memory"}
  Planted <- MCPlanted
  NoCall = noCall
  NoRevision = noRevision
  NoKey = noKey
SPECIFICATION LiveSpec
PROPERTY
  ImplementsCache
  SyncReturns
