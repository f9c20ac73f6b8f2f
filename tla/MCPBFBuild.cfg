\* Imports and builds over aliased paths; three payloads of which two share a
\* hash; transactions of two rows; memory for no row, one, some and many.
CONSTANTS
  p1 = p1
  p2 = p2
  p3 = p3
  Payload = {p1, p2, p3}
  NoPayload = noPayload
  Hash <- MCHash
  CommitBatch = 2
  Existing <- MCExisting
  File <- MCFile
  Link <- MCLink
  NoPath = noPath
  FixedMemory = 2
  RowOverhead = 1
  MinimumTile = 2
  Headroom = 2
  MaxAutoBatch = 8
  DefaultBatch = 5
  Options <- MCOptions
  Sources <- MCSources
  Preset <- MCPreset
  Unset = unset
SPECIFICATION Spec
INVARIANTS
  WorkspacesAreRemoved
  NothingIsBuried
  PublishedIsSource
  SidecarFollowsArtifact
  StreamBatchFits
  CompactionIsLossless
\* A command ends.
CHECK_DEADLOCK FALSE
