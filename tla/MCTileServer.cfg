\* Two requests for one tile, before and after one reload; a shutdown at any time.
CONSTANTS
  Request = {r1, r2}
  Key = {k1}
  MaxGen = 2
  NoRequest = noRequest
  Tiles <- MCTiles
SPECIFICATION LiveSpec
INVARIANTS
  SingleFlight
  AnswersAreCurrent
  OnlyOwnCancellation
  NothingLeftOpen
PROPERTIES
  RequestsAreAnswered
  ShutdownEnds
\* Nothing happens once the process has exited.
CHECK_DEADLOCK FALSE
