\* Does closing the replaced dataset at once drop a request?
CONSTANTS
  Request = {r1}
  Key = {k1}
  MaxGen = 2
  NoRequest = noRequest
  Tiles <- MCTiles
SPECIFICATION Spec
INVARIANTS
  SwapDropsNoRequest
\* Nothing happens once the process has exited.
CHECK_DEADLOCK FALSE
