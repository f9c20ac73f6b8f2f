\* Two callers, a worker and room for one key in the channel; two calls of Close.
CONSTANTS
  Caller = {c1, c2}
  Worker = {w1}
  Closer = {s1, s2}
  k1 = k1
  k2 = k2
  Key = {k1, k2}
  KeyLists <- MCKeyLists
  QueueSize = 1
  MaxTiles = 2
  MaxGen = 2
  NoKey = noKey
SPECIFICATION LiveSpec
INVARIANTS
  CloseStopsWorkers
PROPERTIES
  CallsReturn
  PendingIsServed
