\* Two clients; room for one small payload and for one of two large ones, one
\* that fits nowhere and one that leaves nothing.
CONSTANTS
  a = a
  big = big
  big2 = big2
  huge = huge
  tiny = tiny
  Key = {a, big, big2, huge, tiny}
  Client = {g1, g2}
  Nobody = Nobody
  MaxBytes = 20
  ShardCount = 4
  LargeFraction = 2
  DigestSize = 3
  Large <- MCLarge
  Home <- MCHome
  Length <- MCLength
SPECIFICATION LiveSpec
INVARIANTS
  WithinBudget
  FrontIsMostRecent
PROPERTIES
  PutIsRetained
  CallsReturn
