\* Zooms given as flags, and those that are generated.
CONSTANTS
  p1 = p1
  p2 = p2
  p3 = p3
  Payload = {p1, p2, p3}
  NoPayload = noPayload
  Hash <- MCHash
  CommitBatch = 2
  Existing <- MCExisting
  File <- MCFile
  Link <- MCLink
  NoPath = noPath
  FixedMemory = 2
  RowOverhead = 1
  MinimumTile = 2
  Headroom = 2
  MaxAutoBatch = 8
  DefaultBatch = 5
  Options <- MCOptions
  Sources <- MCSources
  Preset <- MCPreset
  Unset = unset
SPECIFICATION Spec
INVARIANT
  ExplicitZoomWins
\* A command ends.
CHECK_DEADLOCK FALSE
