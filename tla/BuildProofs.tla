---------------------------- MODULE BuildProofs -----------------------------
(* What the import and build commands promise, for any command lines, paths, *)
(* sources, hash of the payloads and sizes, and what they build with: the    *)
(* generator, its simplifier, the identity and the assembly of rings.        *)
(*                                                                           *)
(* The commands: the induction needs what the checks at the beginning have   *)
(* established, at every step that relies on it much later (ControlInv),     *)
(* that the tables of a compaction are well formed (CompactInv), and that a  *)
(* deferred call covers every temporary directory while keep is set for none *)
(* but those handed on (WorkInv).  A path that leads to what exists is       *)
(* compared as it is found (ExistingIsCanonical), so an input is never       *)
(* mistaken for another file, whatever the links.                            *)
(*                                                                           *)
(* The stream: a slot holds the result of the scan or of the encoding it was *)
(* given and of no other (SlotInv), what the passes have merged is what the  *)
(* inputs hold (PassInv), and what is written is what is expected of the     *)
(* zooms that are done, in order (StreamInv).  Failures: a goroutine that    *)
(* has failed stays in its slot until its pass has failed (FailureInv), as   *)
(* slots are used once and in order (PoolInv).                               *)
(*                                                                           *)
(* The simplifier: the links are the neighbours in the order of the points   *)
(* still alive (LinksOK), and the queue has the present area of every        *)
(* removable point while an item of the present version never holds another  *)
(* one (QueueOK).                                                            *)
(*                                                                           *)
(* The identity of rings: every rotation the two pointers of minimumRotation *)
(* have passed is worse than another (DuelInv), so one of them ends on a     *)
(* least one, and turns of one ring share it.                                *)
(*                                                                           *)
(* The assembly: all lines of a state, its rings, the one being grown and    *)
(* the chains left, have the edges of the ways, each once, and an even       *)
(* number of ends at every node (Sound), so that a line which has not closed *)
(* is continued by another (OddEnd).                                         *)
EXTENDS GeometryProofs, Generator, PBFBuild

-----------------------------------------------------------------------------
(* The import and build commands                                           *)

CompactType ==
  /\ source \in Seq(Payload \cup {NoPayload})
  /\ next \in Nat \ {0} /\ next <= Len(source) + 1
  /\ images \in Seq(Payload) /\ map \in Seq(Nat)
  /\ written \in Nat /\ committed \in Nat
  /\ writer \in {"none", "open", "finished", "failed"}

CompactInv ==
  /\ CompactType
  /\ writer = "none" => next = 1 /\ committed = 0 /\ written = 0
  /\ CompactionIsLossless

\* What the checks of the command have found out.
Accepted ==
  \/ opts.cmd = "import" /\ ImportAccepted
  \/ opts.cmd = "build" /\ FlagsAccepted /\ ArtifactAccepted /\ MBTilesAccepted /\ GeneratorAccepted

OwnSteps == {"buildPBF", "generate"}
GeneratorSteps == {"prepare", "generator", "check"}
ImportSteps == {"import", "stage", "plan", "compact", "copy", "index"}

ControlInv ==
  /\ opts \in Options /\ reading \in SourceType
  /\ pc \in OwnSteps \cup GeneratorSteps \cup ImportSteps
              \cup {"validate", "publish", "sidecar", "ok", "failed", "refused", "crashed"}
  /\ ~Ended /\ pc # "validate" => Accepted
  /\ pc \in OwnSteps => OwnBuild /\ reading.kind = "pbf"
  /\ pc \in GeneratorSteps => opts.cmd = "build" /\ opts.generator
  /\ pc = "import" /\ reading.kind = "pmtiles" => opts.cmd = "import"
  /\ pc \in ImportSteps => ~OwnBuild
  /\ pc \in {"plan", "compact", "copy", "index"} => reading.kind \in {"mbtiles", "staged"}
  /\ pc = "validate" /\ opts.cmd = "build" => reading.kind = "pbf"
  /\ "build" \in temp => opts.cmd = "build" /\ opts.generator

TablesInv ==
  /\ pc = "index" \/ (pc = "publish" /\ opts.compact) => writer = "finished"
  /\ pc = "sidecar" => artifact = "new"

-----------------------------------------------------------------------------
(* Compaction                                                                *)

LEMMA CompactBegins ==
  ASSUME source \in Seq(Payload \cup {NoPayload}), CompactInit
  PROVE  CompactInv
BY DEF CompactInit, CompactInv, CompactType, CompactionIsLossless

LEMMA AddRowInv ==
  ASSUME CompactInv, AddRow
  PROVE  CompactInv'
<1>1. /\ writer = "open" /\ next <= Len(source) /\ source[next] # NoPayload
      /\ next' = next + 1 /\ source' = source /\ writer' = writer
  BY DEF AddRow
<1>2. PICK id \in 1..(Len(images) + 1) : ImageOf(source[next], id) /\ map' = Append(map, id)
  BY DEF AddRow
<1>3. /\ CompactType /\ Len(map) = next - 1
      /\ \A i \in 1..(next - 1) : map[i] \in DOMAIN images /\ images[map[i]] = source[i]
      /\ \A i, j \in DOMAIN images : images[i] = images[j] => i = j
      /\ committed + written = next - 1
  BY <1>1 DEF CompactInv, CompactionIsLossless
<1>4. next \in DOMAIN source /\ source[next] \in Payload
  BY <1>1, <1>3 DEF CompactType
<1>5. /\ written' \in Nat /\ committed' \in Nat /\ committed' + written' = next
  <2>1. CASE written + 1 < CommitBatch
    BY <2>1, <1>3 DEF AddRow, CompactType
  <2>2. CASE ~(written + 1 < CommitBatch)
    BY <2>2, <1>3 DEF AddRow, CompactType
  <2> QED BY <2>1, <2>2
<1>6. /\ images' \in Seq(Payload) /\ id \in DOMAIN images' /\ images'[id] = source[next]
      /\ DOMAIN images \subseteq DOMAIN images' /\ \A i \in DOMAIN images : images'[i] = images[i]
      /\ \A i, j \in DOMAIN images' : images'[i] = images'[j] => i = j
  <2>1. CASE Known(source[next]) # {}
    BY <2>1, <1>2, <1>3 DEF ImageOf, Known, CompactType
  <2>2. CASE Known(source[next]) = {}
    <3>1. id = Len(images) + 1 /\ images' = Append(images, source[next])
      BY <2>2, <1>2 DEF ImageOf
    <3>2. \A i \in DOMAIN images : images[i] # source[next]
      BY <2>2 DEF Known
    <3> QED BY <3>1, <3>2, <1>3, <1>4 DEF CompactType
  <2> QED BY <2>1, <2>2
<1>7. /\ map' \in Seq(Nat) /\ Len(map') = next
      /\ \A i \in 1..(next - 1) : map'[i] = map[i]
      /\ map'[next] = id
  BY <1>2, <1>3 DEF CompactType
<1>8. CompactType'
  <2>1. source' \in Seq(Payload \cup {NoPayload}) /\ writer' = "open"
    BY <1>1, <1>3 DEF CompactType
  <2>2. next' \in Nat \ {0} /\ next' <= Len(source') + 1
    BY <1>1, <1>3 DEF CompactType
  <2>3. images' \in Seq(Payload) /\ map' \in Seq(Nat) /\ written' \in Nat /\ committed' \in Nat
    BY <1>5, <1>6, <1>7
  <2> QED BY <2>1, <2>2, <2>3 DEF CompactType
<1>9. \A i \in 1..(next' - 1) : map'[i] \in DOMAIN images' /\ images'[map'[i]] = source'[i]
  <2> SUFFICES ASSUME NEW i \in 1..next
               PROVE  map'[i] \in DOMAIN images' /\ images'[map'[i]] = source[i]
    BY <1>1, <1>3 DEF CompactType
  <2>1. CASE i = next
    BY <2>1, <1>6, <1>7
  <2>2. CASE i # next
    <3>1. i \in 1..(next - 1)
      BY <2>2, <1>3 DEF CompactType
    <3> QED BY <3>1, <1>3, <1>6, <1>7
  <2> QED BY <2>1, <2>2
<1>10. CompactionIsLossless'
  <2>1. next' - 1 = next
    BY <1>1, <1>3 DEF CompactType
  <2>2. Len(map') = next' - 1 /\ (writer' = "open" => committed' + written' = next' - 1)
    BY <1>5, <1>7, <2>1
  <2>3. writer' # "finished"
    BY <1>1
  <2>4. \A i, j \in DOMAIN images' : images'[i] = images'[j] => i = j
    BY <1>6
  <2> QED BY <1>9, <2>2, <2>3, <2>4 DEF CompactionIsLossless
<1> QED BY <1>1, <1>8, <1>10 DEF CompactInv

LEMMA CompactKeepsInv ==
  ASSUME CompactInv, [CompactNext]_compactVars
  PROVE  CompactInv'
<1>1. CASE BeginCompact
  BY <1>1 DEF BeginCompact, CompactInv, CompactType, CompactionIsLossless
<1>2. CASE AddRow
  BY <1>2, AddRowInv
<1>3. CASE CompactFails
  BY <1>3 DEF CompactFails, CompactInv, CompactType, CompactionIsLossless
<1>4. CASE FinishCompact
  BY <1>4 DEF FinishCompact, CompactInv, CompactType, CompactionIsLossless
<1>5. CASE UNCHANGED compactVars
  BY <1>5 DEF compactVars, CompactInv, CompactType, CompactionIsLossless
<1> QED BY <1>1, <1>2, <1>3, <1>4, <1>5 DEF CompactNext

-----------------------------------------------------------------------------
(* Control                                                                   *)

LEMMA OptionFacts ==
  ASSUME opts \in Options
  PROVE  /\ opts \in OptionsType
         /\ opts.cmd = "import" => opts.mbtilesOut = NoPath /\ opts.workDir = NoPath
         /\ opts.cmd \in {"import", "build"} /\ opts.generator \in BOOLEAN /\ opts.compact \in BOOLEAN
         /\ opts.batch \in Int /\ opts.memory \in Int
         /\ opts.input \in Seq(STRING) /\ opts.artifact \in Seq(STRING)
         /\ opts.mbtilesOut # NoPath => opts.mbtilesOut \in Seq(STRING)
         /\ opts.workDir # NoPath => opts.workDir \in Seq(STRING)
BY BuildAssumption DEF OptionsType

LEMMA InitControl == Init => CompactInv /\ ControlInv /\ TablesInv
<1> SUFFICES ASSUME Init PROVE CompactInv /\ ControlInv /\ TablesInv
  OBVIOUS
<1>1. reading \in SourceType /\ source = reading.payloads /\ opts \in Options
  BY BuildAssumption DEF Init
<1>2. source \in Seq(Payload \cup {NoPayload})
  BY <1>1 DEF SourceType
<1>3. CompactInv
  BY <1>2, CompactBegins DEF Init
<1>4. opts.cmd = "build" => reading.kind = "pbf"
  BY DEF Init
<1>5. ControlInv
  BY <1>1, <1>4 DEF Init, ControlInv, Ended, OwnSteps, GeneratorSteps, ImportSteps
<1> QED BY <1>3, <1>5 DEF TablesInv, Init

\* Only the compaction changes its tables.
LEMMA TablesChange ==
  ASSUME [Next]_vars
  PROVE  [CompactNext]_compactVars
<1>1. CASE Compacting
  BY <1>1 DEF Compacting, CompactNext
<1>2. CASE CompactionFails
  BY <1>2 DEF CompactionFails, CompactNext
<1>3. CASE \/ ValidateImport \/ StreamArchive \/ StageArchive \/ StagingDone \/ ReadMBTiles \/ Plan
           \/ BeginCompaction \/ CompactionDone \/ Publish \/ ImportFails
  BY <1>3 DEF ValidateImport, StreamArchive, StageArchive, StagingDone, ReadMBTiles, Plan, BeginCompaction,
              CompactionDone, Publish, ImportFails
<1>4. CASE BuildNext
  BY <1>4 DEF BuildNext, ValidateBuild, BeginBuildPBF, Generate, WriteSidecar, NoSidecar, BuildFails,
              PrepareWork, RunGenerator, CheckGenerated
<1>5. CASE Crash \/ UNCHANGED vars
  BY <1>5 DEF Crash, vars
<1> QED BY <1>1, <1>2, <1>3, <1>4, <1>5 DEF Next, ImportNext

LEMMA NextCompactInv == CompactInv /\ [Next]_vars => CompactInv'
BY TablesChange, CompactKeepsInv

\* What is read in place of the input: a staged copy, what was generated.
LEMMA Restaged ==
  ASSUME reading \in SourceType
  PROVE  /\ [reading EXCEPT !.kind = "staged", !.tables = "flat"] \in SourceType
         /\ [reading EXCEPT !.kind = "mbtiles"] \in SourceType
BY DEF SourceType

LEMMA NextControl == ControlInv /\ [Next]_vars => ControlInv'
<1> SUFFICES ASSUME ControlInv, [Next]_vars PROVE ControlInv'
  OBVIOUS
<1> USE DEF OwnSteps, GeneratorSteps, ImportSteps
<1>0. opts' = opts /\ (Accepted' <=> Accepted) /\ (OwnBuild' <=> OwnBuild)
  <2>1. opts' = opts
    BY DEF Next, ImportNext, BuildNext, vars, pipelineVars, ValidateImport, StreamArchive, StageArchive,
           StagingDone, ReadMBTiles, Plan, BeginCompaction, Compacting, CompactionFails, CompactionDone,
           Publish, ImportFails, ValidateBuild, BeginBuildPBF, Generate, WriteSidecar, NoSidecar,
           BuildFails, PrepareWork, RunGenerator, CheckGenerated, Crash
  <2> QED BY <2>1 DEF Accepted, ImportAccepted, FlagsAccepted, ArtifactAccepted, MBTilesAccepted,
                      GeneratorAccepted, minZoom, maxZoom, postalCodes, OwnBuild
<1>1. CASE ValidateImport
  BY <1>0, <1>1 DEF ValidateImport, ControlInv, Ended, Accepted, Return, Leave, planVars, tempVars, OwnBuild
<1>2. CASE StreamArchive
  BY <1>0, <1>2 DEF StreamArchive, ControlInv, Ended, tempVars, OwnBuild
<1>3. CASE StageArchive
  BY <1>0, <1>3 DEF StageArchive, ControlInv, Ended, MakeTemp, planVars, OwnBuild
<1>4. CASE StagingDone
  BY <1>0, <1>4, Restaged DEF StagingDone, ControlInv, Ended, HandOn, Leave, SourceType
<1>5. CASE ReadMBTiles
  BY <1>0, <1>5 DEF ReadMBTiles, ControlInv, Ended, planVars, tempVars, OwnBuild
<1>6. CASE Plan
  BY <1>0, <1>6 DEF Plan, ControlInv, Ended, tempVars
<1>7. CASE BeginCompaction
  BY <1>0, <1>7 DEF BeginCompaction, ControlInv, Ended, MakeTemp, planVars
<1>8. CASE Compacting
  BY <1>0, <1>8 DEF Compacting, ControlInv, Ended, planVars, tempVars
<1>9. CASE CompactionFails
  BY <1>0, <1>9 DEF CompactionFails, ControlInv, Ended, Return, Leave, planVars
<1>10. CASE CompactionDone
  BY <1>0, <1>10 DEF CompactionDone, ControlInv, Ended, HandOn, Leave, planVars
<1>11. CASE Publish
  BY <1>0, <1>11 DEF Publish, ControlInv, Ended, Return, Leave, planVars, tempVars
<1>12. CASE ImportFails
  BY <1>0, <1>12 DEF ImportFails, ControlInv, Ended, Return, Leave, planVars
<1>13. CASE ValidateBuild
  BY <1>0, <1>13 DEF ValidateBuild, ControlInv, Ended, Accepted, Return, Leave, planVars, tempVars, OwnBuild
<1>14. CASE BeginBuildPBF
  BY <1>0, <1>14 DEF BeginBuildPBF, ControlInv, Ended, MakeTemp
<1>15. CASE Generate
  BY <1>0, <1>15 DEF Generate, ControlInv, Ended, planVars, tempVars
<1>16. CASE WriteSidecar
  BY <1>0, <1>16 DEF WriteSidecar, ControlInv, Ended, Return, Leave, planVars, tempVars
<1>17. CASE NoSidecar
  BY <1>0, <1>17 DEF NoSidecar, ControlInv, Ended, Return, Leave, planVars
<1>18. CASE BuildFails
  BY <1>0, <1>18 DEF BuildFails, ControlInv, Ended, Return, Leave, planVars
<1>19. CASE PrepareWork
  BY <1>0, <1>19 DEF PrepareWork, ControlInv, Ended, planVars
<1>20. CASE RunGenerator
  BY <1>0, <1>20 DEF RunGenerator, ControlInv, Ended, tempVars
<1>21. CASE CheckGenerated
  BY <1>0, <1>21, Restaged DEF CheckGenerated, ControlInv, Ended, tempVars, SourceType, OwnBuild
<1>22. CASE Crash
  BY <1>0, <1>22 DEF Crash, ControlInv, Ended, planVars, tempVars
<1>23. CASE UNCHANGED vars
  BY <1>0, <1>23 DEF vars, pipelineVars, planVars, tempVars, ControlInv, Ended
<1> QED BY <1>1, <1>2, <1>3, <1>4, <1>5, <1>6, <1>7, <1>8, <1>9, <1>10, <1>11, <1>12, <1>13, <1>14,
           <1>15, <1>16, <1>17, <1>18, <1>19, <1>20, <1>21, <1>22, <1>23 DEF Next, ImportNext, BuildNext

\* A step that leaves the tables, the artifact and the publication alone.
QuietStep ==
  ValidateImport \/ StreamArchive \/ StageArchive \/ StagingDone \/ ReadMBTiles \/ Plan \/ BeginCompaction
    \/ ImportFails \/ ValidateBuild \/ BeginBuildPBF \/ Generate \/ BuildFails \/ PrepareWork
    \/ RunGenerator \/ CheckGenerated \/ Crash

LEMMA StepsByKind ==
  ASSUME [Next]_vars
  PROVE  \/ QuietStep \/ Compacting \/ CompactionFails \/ CompactionDone \/ Publish
         \/ WriteSidecar \/ NoSidecar \/ UNCHANGED vars
BY DEF Next, ImportNext, BuildNext, QuietStep

LEMMA QuietFrame ==
  ASSUME ControlInv, QuietStep
  PROVE  /\ UNCHANGED <<compactVars, opts, artifact, published, sidecar>>
         /\ pc' \notin {"sidecar", "ok", "index"}
         /\ pc' = "publish" => ~opts.compact
<1> USE DEF planVars, outVars, Return
<1>1. CASE ValidateImport
  BY <1>1 DEF ValidateImport
<1>2. CASE StreamArchive
  BY <1>2 DEF StreamArchive
<1>3. CASE StageArchive
  BY <1>3 DEF StageArchive
<1>4. CASE StagingDone
  BY <1>4 DEF StagingDone
<1>5. CASE ReadMBTiles
  BY <1>5 DEF ReadMBTiles
<1>6. CASE Plan
  BY <1>6 DEF Plan
<1>7. CASE BeginCompaction
  BY <1>7 DEF BeginCompaction
<1>8. CASE ImportFails
  BY <1>8 DEF ImportFails
<1>9. CASE ValidateBuild
  BY <1>9 DEF ValidateBuild
<1>10. CASE BeginBuildPBF
  BY <1>10 DEF BeginBuildPBF
<1>11. CASE Generate
  <2>1. OwnBuild /\ Accepted
    BY <1>11 DEF Generate, ControlInv, OwnSteps, Ended
  <2>2. ~opts.compact
    BY <2>1 DEF Accepted, FlagsAccepted, OwnBuild
  <2> QED BY <1>11, <2>2 DEF Generate
<1>12. CASE BuildFails
  BY <1>12 DEF BuildFails
<1>13. CASE PrepareWork
  BY <1>13 DEF PrepareWork
<1>14. CASE RunGenerator
  BY <1>14 DEF RunGenerator
<1>15. CASE CheckGenerated
  BY <1>15 DEF CheckGenerated
<1>16. CASE Crash
  BY <1>16 DEF Crash
<1> QED BY <1>1, <1>2, <1>3, <1>4, <1>5, <1>6, <1>7, <1>8, <1>9, <1>10, <1>11, <1>12, <1>13, <1>14, <1>15, <1>16
        DEF QuietStep

LEMMA NextTables == CompactInv /\ ControlInv /\ TablesInv /\ [Next]_vars => TablesInv'
<1> SUFFICES ASSUME CompactInv, ControlInv, TablesInv, [Next]_vars PROVE TablesInv'
  OBVIOUS
<1>1. CASE QuietStep
  BY <1>1, QuietFrame DEF TablesInv, compactVars
<1>2. CASE Compacting
  BY <1>2 DEF Compacting, TablesInv, BeginCompact, AddRow, FinishCompact
<1>3. CASE CompactionFails \/ CompactionDone
  BY <1>3 DEF CompactionFails, CompactionDone, TablesInv, Return, compactVars, outVars
<1>4. CASE Publish
  BY <1>4 DEF Publish, TablesInv, Return
<1>5. CASE WriteSidecar \/ NoSidecar
  BY <1>5 DEF WriteSidecar, NoSidecar, TablesInv, Return, outVars
<1>6. CASE UNCHANGED vars
  BY <1>6 DEF vars, pipelineVars, compactVars, outVars, TablesInv
<1> QED BY <1>1, <1>2, <1>3, <1>4, <1>5, <1>6, StepsByKind

LEMMA PipelineInv == Spec => [](CompactInv /\ ControlInv /\ TablesInv)
<1>1. CompactInv /\ ControlInv /\ TablesInv /\ [Next]_vars => (CompactInv /\ ControlInv /\ TablesInv)'
  BY NextCompactInv, NextControl, NextTables
<1> QED BY <1>1, InitControl, PTL DEF Spec

\* However many payloads share a hash and whatever the size of a transaction, a
\* compacted copy has the payload of every row, once.
THEOREM CompactionLossless == Spec => []CompactionIsLossless
<1>1. CompactInv => CompactionIsLossless
  BY DEF CompactInv
<1> QED BY <1>1, PipelineInv, PTL

-----------------------------------------------------------------------------
(* The artifact and its sidecar                                              *)

\* What is imported is the source, compacted or not.
LEMMA ImportedIsSource ==
  ASSUME CompactInv, TablesInv, pc = "publish"
  PROVE  ImportedRows = source
<1>1. CASE ~opts.compact
  BY <1>1 DEF ImportedRows
<1>2. CASE opts.compact
  <2>1. /\ source \in Seq(Payload \cup {NoPayload}) /\ map \in Seq(Nat)
        /\ Len(map) = Len(source) /\ next = Len(source) + 1
        /\ \A i \in 1..(next - 1) : map[i] \in DOMAIN images /\ images[map[i]] = source[i]
    BY <1>2 DEF TablesInv, CompactInv, CompactType, CompactionIsLossless
  <2>2. DOMAIN map = 1..Len(source) /\ DOMAIN source = 1..Len(source) /\ next - 1 = Len(source)
    BY <2>1
  <2>3. ImportedRows = [i \in DOMAIN map |->
                          IF map[i] \in DOMAIN images THEN images[map[i]] ELSE NoPayload]
    BY <1>2 DEF ImportedRows
  <2>4. \A i \in DOMAIN map : (IF map[i] \in DOMAIN images THEN images[map[i]] ELSE NoPayload) = source[i]
    BY <2>1, <2>2
  <2>5. ImportedRows = [i \in DOMAIN source |-> source[i]]
    BY <2>2, <2>3, <2>4
  <2>6. source = [i \in DOMAIN source |-> source[i]]
    BY <2>1
  <2> QED BY <2>5, <2>6
<1> QED BY <1>1, <1>2

LEMMA SourceStays == [Next]_vars => source' = source
BY TablesChange DEF CompactNext, compactVars, BeginCompact, AddRow, CompactFails, FinishCompact

LEMMA NextPublished ==
  CompactInv /\ ControlInv /\ TablesInv /\ PublishedIsSource /\ [Next]_vars => PublishedIsSource'
<1> SUFFICES ASSUME CompactInv, ControlInv, TablesInv, PublishedIsSource, [Next]_vars
             PROVE  PublishedIsSource'
  OBVIOUS
<1>0. source' = source
  BY SourceStays
<1>1. CASE QuietStep
  BY <1>0, <1>1, QuietFrame DEF PublishedIsSource
<1>2. CASE Compacting
  BY <1>0, <1>2 DEF Compacting, PublishedIsSource, outVars
<1>3. CASE CompactionFails \/ CompactionDone
  BY <1>0, <1>3 DEF CompactionFails, CompactionDone, PublishedIsSource, outVars, Return
<1>4. CASE Publish
  BY <1>0, <1>4, ImportedIsSource DEF Publish, PublishedIsSource
<1>5. CASE WriteSidecar \/ NoSidecar
  BY <1>0, <1>5 DEF WriteSidecar, NoSidecar, PublishedIsSource, TablesInv, outVars
<1>6. CASE UNCHANGED vars
  BY <1>6 DEF vars, compactVars, pipelineVars, outVars, PublishedIsSource
<1> QED BY <1>1, <1>2, <1>3, <1>4, <1>5, <1>6, StepsByKind

\* Every published artifact holds its source, whatever the command line, the
\* source and the sizes.
THEOREM ArtifactIsSource == Spec => []PublishedIsSource
<1>1. Init => PublishedIsSource
  BY DEF Init, PublishedIsSource
<1> QED BY <1>1, PipelineInv, NextPublished, PTL DEF Spec

LEMMA NextSidecar ==
  ControlInv /\ TablesInv /\ SidecarFollowsArtifact /\ [Next]_vars => SidecarFollowsArtifact'
<1> SUFFICES ASSUME ControlInv, TablesInv, SidecarFollowsArtifact, [Next]_vars
             PROVE  SidecarFollowsArtifact'
  OBVIOUS
<1>1. CASE QuietStep
  BY <1>1, QuietFrame DEF SidecarFollowsArtifact
<1>2. CASE Compacting
  BY <1>2 DEF Compacting, SidecarFollowsArtifact, outVars
<1>3. CASE CompactionFails \/ CompactionDone
  BY <1>3 DEF CompactionFails, CompactionDone, SidecarFollowsArtifact, outVars, Return
<1>4. CASE Publish
  BY <1>4 DEF Publish, SidecarFollowsArtifact, Return, OwnBuild
<1>5. CASE WriteSidecar
  BY <1>5 DEF WriteSidecar, SidecarFollowsArtifact, TablesInv, Return
<1>6. CASE NoSidecar
  BY <1>6 DEF NoSidecar, SidecarFollowsArtifact, TablesInv, planVars, outVars, postalCodes, PresetOf
<1>7. CASE UNCHANGED vars
  BY <1>7 DEF vars, pipelineVars, planVars, outVars, SidecarFollowsArtifact, postalCodes, PresetOf
<1> QED BY <1>1, <1>2, <1>3, <1>4, <1>5, <1>6, <1>7, StepsByKind

\* The postal codes of a build never precede its artifact, whatever fails.
THEOREM SidecarNeverAhead == Spec => []SidecarFollowsArtifact
<1>1. Init => SidecarFollowsArtifact
  BY DEF Init, SidecarFollowsArtifact
<1> QED BY <1>1, PipelineInv, NextSidecar, PTL DEF Spec

-----------------------------------------------------------------------------
(* Paths                                                                     *)

\* Where the beginnings of a path lead.
Leads(f, path, links) ==
  /\ f \in [0..Len(path) -> Seq(STRING)] /\ f[0] = <<>>
  /\ \A i \in 1..Len(path) : f[i] = Hop(f[i - 1], path[i], links)

LEMMA SequenceFacts ==
  ASSUME NEW T, NEW s \in Seq(T), NEW x \in T
  PROVE  /\ Append(s, x) \in Seq(T) /\ Front(Append(s, x)) = s /\ IsPrefix(s, Append(s, x))
         /\ s # <<>> => /\ Front(s) \in Seq(T) /\ Len(Front(s)) = Len(s) - 1 /\ Len(s) \in Nat \ {0}
                        /\ \A i \in 1..(Len(s) - 1) : Front(s)[i] = s[i]
<1>1. Append(s, x) \in Seq(T) /\ Front(Append(s, x)) = s
  BY DEF Front
<1>2. IsPrefix(s, Append(s, x))
  <2>1. SubSeq(Append(s, x), 1, Len(s)) = s /\ SubSeq(s, 1, Len(s)) = s /\ Len(Append(s, x)) = Len(s) + 1
    OBVIOUS
  <2> QED BY <2>1 DEF IsPrefix
<1>3. ASSUME s # <<>>
      PROVE  /\ Front(s) \in Seq(T) /\ Len(Front(s)) = Len(s) - 1 /\ Len(s) \in Nat \ {0}
             /\ \A i \in 1..(Len(s) - 1) : Front(s)[i] = s[i]
  <2> DEFINE m == Len(s) - 1
  <2>1. m \in 0..Len(s) /\ m \in Nat /\ Len(s) \in Nat \ {0} /\ Front(s) = SubSeq(s, 1, m)
    BY <1>3 DEF Front
  <2> HIDE DEF m
  <2>2. \A i \in 1..m : s[i] \in T
    BY <2>1
  <2>3. SubSeq(s, 1, m) = [i \in 1..m |-> s[i]]
    BY <2>1
  <2>4. SubSeq(s, 1, m) \in Seq(T) /\ Len(SubSeq(s, 1, m)) = m
    BY <2>1, <2>2, <2>3
  <2> QED BY <2>1, <2>3, <2>4 DEF m
<1> QED BY <1>1, <1>2, <1>3

LEMMA HopType ==
  ASSUME NEW dir \in Seq(STRING), NEW name \in STRING, NEW links \in SUBSET DOMAIN Link
  PROVE  Hop(dir, name, links) \in Seq(STRING)
<1>1. Append(dir, name) \in Seq(STRING)
  BY SequenceFacts
<1>2. \A l \in DOMAIN Link : Link[l] \in Seq(STRING)
  BY PathsAssumption
<1> QED BY <1>1, <1>2 DEF Hop

LEMMA LeadsExists ==
  ASSUME NEW path \in Seq(STRING), NEW links \in SUBSET DOMAIN Link
  PROVE  \E f : Leads(f, path, links)
<1> DEFINE N == Len(path)
           G == [i \in 1..N |-> [dir \in Seq(STRING) |-> Hop(dir, path[i], links)]]
<1>1. N \in Nat /\ <<>> \in Seq(STRING) /\ \A i \in 1..N : path[i] \in STRING
  OBVIOUS
<1>2. G \in [1..N -> [Seq(STRING) -> Seq(STRING)]]
  <2> SUFFICES ASSUME NEW i \in 1..N, NEW dir \in Seq(STRING) PROVE Hop(dir, path[i], links) \in Seq(STRING)
    OBVIOUS
  <2> QED BY <1>1, HopType
<1>3. Recurs(Seq(STRING), <<>>, N, G)
  <2> HIDE DEF G, N
  <2> QED BY <1>1, <1>2, Recursion
<1>4. PICK f \in [0..N -> Seq(STRING)] : f[0] = <<>> /\ \A i \in 1..N : f[i] = G[i][f[i - 1]]
  <2> HIDE DEF G, N
  <2> QED BY <1>3 DEF Recurs
<1>5. ASSUME NEW i \in 1..N PROVE f[i] = Hop(f[i - 1], path[i], links)
  <2>1. i - 1 \in 0..N
    BY <1>1
  <2>2. f[i - 1] \in Seq(STRING)
    BY <1>4, <2>1
  <2> QED BY <1>4, <2>2
<1> HIDE DEF G
<1> QED BY <1>4, <1>5 DEF Leads

LEMMA FollowIs ==
  ASSUME NEW path \in Seq(STRING), NEW links \in SUBSET DOMAIN Link, NEW f, Leads(f, path, links)
  PROVE  Follow(path, links) = f[Len(path)]
<1> DEFINE N == Len(path)
           Rec(g) == g = [i \in 0..N |-> IF i = 0 THEN <<>> ELSE Hop(g[i - 1], path[i], links)]
           at == CHOOSE g : Rec(g)
<1>1. N \in Nat
  OBVIOUS
<1>2. Rec(f)
  <2> DEFINE body == [i \in 0..N |-> IF i = 0 THEN <<>> ELSE Hop(f[i - 1], path[i], links)]
  <2>1. ASSUME NEW i \in 0..N PROVE f[i] = body[i]
    <3>1. CASE i = 0
      BY <3>1 DEF Leads
    <3>2. CASE i # 0
      <4>1. i \in 1..N
        BY <3>2
      <4> QED BY <3>2, <4>1 DEF Leads
    <3> QED BY <3>1, <3>2
  <2>2. f = [i \in 0..N |-> f[i]] /\ body = [i \in 0..N |-> body[i]]
    BY DEF Leads
  <2> QED BY <2>1, <2>2
<1>3. Rec(at)
  BY <1>2
<1> HIDE DEF at
<1>4. \A i \in 0..N : at[i] = IF i = 0 THEN <<>> ELSE Hop(at[i - 1], path[i], links)
  BY <1>3
<1> DEFINE D == {i \in Nat : i <= N => at[i] = f[i]}
<1>5. 0 \in D
  BY <1>4 DEF Leads
<1>6. ASSUME NEW i \in Nat \cap D PROVE i + 1 \in D
  <2> SUFFICES ASSUME i + 1 <= N PROVE at[i + 1] = f[i + 1]
    OBVIOUS
  <2>1. i + 1 \in 1..N /\ (i + 1) - 1 = i /\ at[i] = f[i]
    BY <1>1
  <2> QED BY <1>4, <2>1 DEF Leads
<1>7. \A i \in Nat : i \in D
  <2> HIDE DEF D
  <2> QED BY <1>5, <1>6, Induction
<1>8. at[N] = f[N]
  BY <1>1, <1>7
<1> QED BY <1>8 DEF Follow, at

LEMMA PrefixIsOne ==
  ASSUME NEW p \in Seq(STRING), NEW q \in Seq(STRING), IsPrefix(p, q)
  PROVE  p \in Prefixes(q)
<1>1. p = SubSeq(p, 1, Len(p)) /\ Len(p) \in Nat
  OBVIOUS
<1>2. Len(p) \in 0..Len(q) /\ p = SubSeq(q, 1, Len(p))
  BY <1>1 DEF IsPrefix
<1> QED BY <1>2 DEF Prefixes

\* A prefix of what exists exists, and is no link.
LEMMA PrefixExists ==
  ASSUME NEW p \in Seq(STRING), NEW q \in Existing, IsPrefix(p, q)
  PROVE  p \in Existing /\ p \notin DOMAIN Link
BY PathsAssumption, PrefixIsOne

\* Of a path that leads to what exists, the beginnings do as well: a link lies in
\* a directory that exists.
LEMMA LeadsThroughExisting ==
  ASSUME NEW path \in Seq(STRING), NEW f, Leads(f, path, DOMAIN Link), f[Len(path)] \in Existing
  PROVE  \A i \in 0..Len(path) : f[i] \in Existing
<1> DEFINE N == Len(path)
           D == {k \in Nat : k <= N => f[N - k] \in Existing}
<1>1. N \in Nat /\ 0 \in D
  OBVIOUS
<1>2. ASSUME NEW k \in Nat \cap D PROVE k + 1 \in D
  <2> SUFFICES ASSUME k + 1 <= N PROVE f[N - (k + 1)] \in Existing
    OBVIOUS
  <2> DEFINE i == N - k
             dir == f[i - 1]
             whole == Append(dir, path[i])
  <2>1. i \in 1..N /\ N - (k + 1) = i - 1 /\ i - 1 \in 0..N /\ k <= N
    BY <1>1
  <2>2. f[i] \in Existing /\ dir \in Seq(STRING) /\ path[i] \in STRING
    BY <1>2, <2>1 DEF Leads
  <2>3. f[i] = IF whole \in DOMAIN Link THEN Link[whole] ELSE whole
    BY <2>1 DEF Leads, Hop
  <2> HIDE DEF i, dir
  <2>4. whole \in Seq(STRING) /\ Front(whole) = dir /\ IsPrefix(dir, whole)
    BY <2>2, SequenceFacts
  <2>5. dir \in Existing
    <3>1. CASE whole \in DOMAIN Link
      BY <2>4, <3>1, PathsAssumption
    <3>2. CASE whole \notin DOMAIN Link
      BY <2>2, <2>3, <2>4, <3>2, PrefixExists
    <3> QED BY <3>1, <3>2
  <2> QED BY <2>1, <2>5 DEF dir
<1>3. \A k \in Nat : k \in D
  <2> HIDE DEF D
  <2> QED BY <1>1, <1>2, Induction
<1>4. ASSUME NEW i \in 0..N PROVE f[i] \in Existing
  <2>1. N - i \in Nat /\ N - i <= N /\ N - (N - i) = i
    BY <1>1
  <2>2. N - i \in D
    BY <1>3, <2>1
  <2> QED BY <2>1, <2>2
<1> QED BY <1>4

\* What exists already is compared as the operating system finds it.
LEMMA ExistingIsCanonical ==
  ASSUME NEW path \in Seq(STRING), Real(path) \in Existing
  PROVE  Canonical(path) = Real(path)
<1> DEFINE N == Len(path)
           sound == {l \in DOMAIN Link : Link[l] \in Existing}
<1>1. PICK f : Leads(f, path, DOMAIN Link)
  BY LeadsExists
<1>2. Real(path) = f[N] /\ N \in Nat
  BY <1>1, FollowIs DEF Real
<1>3. \A i \in 0..N : f[i] \in Existing
  BY <1>1, <1>2, LeadsThroughExisting
<1>4. ASSUME NEW i \in 1..N PROVE Hop(f[i - 1], path[i], sound) = Hop(f[i - 1], path[i], DOMAIN Link)
  <2>1. f[i] \in Existing /\ f[i] = Hop(f[i - 1], path[i], DOMAIN Link)
    BY <1>1, <1>3 DEF Leads
  <2> QED BY <2>1 DEF Hop
<1>5. Leads(f, path, sound)
  <2> HIDE DEF sound
  <2> QED BY <1>1, <1>4 DEF Leads
<1>6. Follow(path, sound) = f[N]
  <2>1. sound \in SUBSET DOMAIN Link
    OBVIOUS
  <2> HIDE DEF sound
  <2> QED BY <1>5, <2>1, FollowIs
<1> QED BY <1>2, <1>6 DEF Canonical, Resolved

\* No link is left in a path that is followed.
LEMMA RealHasNoLinks ==
  ASSUME NEW path \in Seq(STRING)
  PROVE  Real(path) \in Seq(STRING) /\ Prefixes(Real(path)) \cap DOMAIN Link = {}
<1> DEFINE N == Len(path)
<1>1. PICK f : Leads(f, path, DOMAIN Link)
  BY LeadsExists
<1>2. Real(path) = f[N] /\ N \in Nat
  BY <1>1, FollowIs DEF Real
<1> DEFINE D == {i \in Nat : i <= N => Prefixes(f[i]) \cap DOMAIN Link = {}}
<1>3. 0 \in D
  <2>1. f[0] = <<>>
    BY <1>1 DEF Leads
  <2>2. ASSUME NEW p \in Prefixes(<<>>) PROVE p = <<>>
    <3>1. PICK l \in 0..0 : p = SubSeq(<<>>, 1, l)
      BY DEF Prefixes
    <3> QED BY <3>1
  <2>3. <<>> \notin DOMAIN Link
    BY PathsAssumption
  <2> QED BY <2>1, <2>2, <2>3
<1>4. ASSUME NEW i \in Nat \cap D PROVE i + 1 \in D
  <2> SUFFICES ASSUME i + 1 <= N PROVE Prefixes(f[i + 1]) \cap DOMAIN Link = {}
    OBVIOUS
  <2> DEFINE dir == f[i]
             whole == Append(dir, path[i + 1])
  <2>1. i + 1 \in 1..N /\ (i + 1) - 1 = i /\ i \in 0..N /\ i <= N
    BY <1>2
  <2>2. dir \in Seq(STRING) /\ path[i + 1] \in STRING /\ Prefixes(dir) \cap DOMAIN Link = {}
    BY <1>1, <1>4, <2>1 DEF Leads
  <2>3. f[i + 1] = IF whole \in DOMAIN Link THEN Link[whole] ELSE whole
    BY <1>1, <2>1 DEF Leads, Hop
  <2> HIDE DEF dir
  <2>4. CASE whole \in DOMAIN Link
    BY <2>3, <2>4, PathsAssumption
  <2>5. CASE whole \notin DOMAIN Link
    <3>1. ASSUME NEW p \in Prefixes(whole) PROVE p \in Prefixes(dir) \/ p = whole
      <4>1. PICK l \in 0..Len(whole) : p = SubSeq(whole, 1, l)
        BY <3>1 DEF Prefixes
      <4>2. Len(whole) = Len(dir) + 1 /\ Len(dir) \in Nat
        BY <2>2
      <4>3. CASE l = Len(whole)
        BY <2>2, <4>1, <4>3
      <4>4. CASE l # Len(whole)
        <5>1. l \in 0..Len(dir)
          BY <4>2, <4>4
        <5>2. SubSeq(whole, 1, l) = SubSeq(dir, 1, l)
          BY <2>2, <5>1
        <5> QED BY <4>1, <5>1, <5>2 DEF Prefixes
      <4> QED BY <4>3, <4>4
    <3> QED BY <2>2, <2>3, <2>5, <3>1
  <2> QED BY <2>4, <2>5
<1>5. \A i \in Nat : i \in D
  <2> HIDE DEF D
  <2> QED BY <1>3, <1>4, Induction
<1>6. f[N] \in Seq(STRING)
  BY <1>1, <1>2 DEF Leads
<1> QED BY <1>2, <1>5, <1>6

\* A path leads to where it lies, unless it is a link itself.
LEMMA LocatedIsReal ==
  ASSUME NEW path \in Seq(STRING)
  PROVE  /\ Located(path) \in Seq(STRING)
         /\ Located(path) \notin DOMAIN Link => Real(path) = Located(path)
<1> DEFINE N == Len(path)
           dir == Front(path)
<1>1. PICK f : Leads(f, path, DOMAIN Link)
  BY LeadsExists
<1>2. Real(path) = f[N] /\ N \in Nat
  BY <1>1, FollowIs DEF Real
<1>3. CASE path = <<>>
  <2>1. Real(path) = <<>>
    BY <1>1, <1>2, <1>3 DEF Leads
  <2> QED BY <1>3, <2>1 DEF Located
<1>4. CASE path # <<>>
  <2>1. /\ dir \in Seq(STRING) /\ Len(dir) = N - 1 /\ N \in 1..N /\ Len(dir) \in Nat
        /\ \A i \in 1..Len(dir) : dir[i] = path[i]
    <3>1. path[1] \in STRING
      BY <1>4
    <3>2. /\ dir \in Seq(STRING) /\ Len(dir) = N - 1 /\ N \in Nat \ {0}
          /\ \A i \in 1..(N - 1) : dir[i] = path[i]
      BY <1>4, <3>1, SequenceFacts
    <3> QED BY <3>2
  <2> DEFINE g == [i \in 0..Len(dir) |-> f[i]]
  <2>2. Leads(g, dir, DOMAIN Link)
    <3>1. \A i \in 0..Len(dir) : g[i] = f[i] /\ i \in 0..N
      BY <2>1
    <3>2. ASSUME NEW i \in 1..Len(dir) PROVE g[i] = Hop(g[i - 1], dir[i], DOMAIN Link)
      <4>1. i \in 1..N /\ i - 1 \in 0..Len(dir) /\ i \in 0..Len(dir) /\ dir[i] = path[i]
        BY <2>1
      <4>2. f[i] = Hop(f[i - 1], path[i], DOMAIN Link)
        BY <1>1, <4>1 DEF Leads
      <4> HIDE DEF g, dir
      <4> QED BY <3>1, <4>1, <4>2
    <3>3. g \in [0..Len(dir) -> Seq(STRING)]
      BY <1>1, <2>1, <3>1 DEF Leads
    <3>4. g[0] = <<>>
      BY <1>1, <2>1, <3>1 DEF Leads
    <3> HIDE DEF g, dir
    <3> QED BY <3>2, <3>3, <3>4 DEF Leads
  <2>3. Real(dir) = f[N - 1]
    <3>1. Real(dir) = g[Len(dir)]
      <4> HIDE DEF g, dir
      <4> QED BY <2>1, <2>2, FollowIs DEF Real
    <3> QED BY <2>1, <3>1
  <2>4. Located(path) = Append(f[N - 1], path[N])
    BY <1>4, <2>3 DEF Located, Last
  <2>5. N \in 1..N /\ N - 1 \in 0..N
    BY <2>1, <1>2
  <2>6. f[N] = Hop(f[N - 1], path[N], DOMAIN Link) /\ f[N - 1] \in Seq(STRING)
    BY <1>1, <2>5 DEF Leads
  <2>7. path[N] \in STRING
    BY <2>5
  <2>8. Append(f[N - 1], path[N]) \in Seq(STRING)
    BY <2>6, <2>7, SequenceFacts
  <2> QED BY <1>2, <2>4, <2>6, <2>8 DEF Hop
<1> QED BY <1>3, <1>4

-----------------------------------------------------------------------------
(* Temporary directories                                                     *)

StagingFrames == {"stagePMTiles", "compactMBTiles"}

\* A deferred call that would remove the directory if the command returned now.
Covered(dir) == \E d \in defers : d.dir = dir /\ (d.frame \in StagingFrames => dir \notin kept)

\* Every directory is covered, but the one to be kept.  A staging function covers
\* its own only, and sets keep at its end; what was handed on is still there.
WorkInv ==
  /\ ~Ended => \A dir \in temp : Covered(dir) \/ (dir = "build" /\ opts.keepWork)
  /\ \A d \in defers : /\ d.frame = "stagePMTiles" => d.dir = "pmtiles"
                       /\ d.frame = "compactMBTiles" => d.dir = "compact"
  /\ pc \in OwnSteps \cup GeneratorSteps \cup {"validate", "import", "stage"} => kept = {}
  /\ pc \in {"plan", "compact", "copy", "index"} => kept \subseteq {"pmtiles"}
  /\ pc = "stage" => "pmtiles" \in temp
  /\ pc \in {"copy", "index"} => "compact" \in temp
  /\ pc = "generate" => "pbf" \in temp

\* All deferred calls of a return leave only what is kept for the user.
LEMMA ReturnCleans ==
  ASSUME WorkInv, ~Ended, NEW exit, Return(exit)
  PROVE  temp' \subseteq (IF opts.keepWork THEN {"build"} ELSE {}) /\ defers' = {} /\ pc' = exit
<1> SUFFICES ASSUME NEW dir \in temp', ~(dir = "build" /\ opts.keepWork) PROVE FALSE
  BY DEF Return, Leave
<1>1. /\ dir \in temp /\ kept' = kept
      /\ \A d \in defers : Cleans(d) => d.dir # dir
  BY DEF Return, Leave
<1>2. PICK d \in defers : d.dir = dir /\ (d.frame \in StagingFrames => dir \notin kept)
  BY <1>1 DEF WorkInv, Covered
<1>3. Cleans(d)
  BY <1>1, <1>2 DEF Cleans, StagingFrames
<1> QED BY <1>1, <1>2, <1>3

\* A directory that is made is covered from then on.
LEMMA MadeIsCovered ==
  ASSUME WorkInv, ~Ended, NEW frame, NEW dir, NEW parent, MakeTemp(frame, dir, parent),
         frame \in StagingFrames => dir \notin kept
  PROVE  /\ temp' = temp \cup {dir} /\ kept' = kept
         /\ defers' = defers \cup {[frame |-> frame, dir |-> dir]}
         /\ \A other \in temp' : Covered(other)' \/ (other = "build" /\ opts.keepWork)
<1>1. /\ temp' = temp \cup {dir} /\ kept' = kept
      /\ defers' = defers \cup {[frame |-> frame, dir |-> dir]}
  BY DEF MakeTemp
<1>2. Covered(dir)'
  <2> DEFINE own == [frame |-> frame, dir |-> dir]
  <2>1. own \in defers' /\ own.dir = dir /\ (own.frame \in StagingFrames => dir \notin kept')
    BY <1>1
  <2>2. Covered(dir)' <=> \E d \in defers' : d.dir = dir /\ (d.frame \in StagingFrames => dir \notin kept')
    BY DEF Covered, StagingFrames
  <2> HIDE DEF own
  <2> QED BY <2>1, <2>2
<1>3. ASSUME NEW other \in temp, Covered(other) PROVE Covered(other)'
  BY <1>1, <1>3 DEF Covered
<1> QED BY <1>1, <1>2, <1>3 DEF WorkInv

\* A copy that is handed on stays, and is covered by the caller.
LEMMA HandedOnStays ==
  ASSUME WorkInv, ~Ended, NEW frame \in StagingFrames, NEW dir, HandOn(frame, dir),
         \A d \in defers : d.frame = frame => d.dir = dir,
         \A d \in defers : d.frame \in StagingFrames => d.frame = frame \/ d.dir # dir
  PROVE  /\ temp' = temp /\ kept' = kept \cup {dir}
         /\ \A d \in defers' : d \in defers \/ d.frame \notin StagingFrames
         /\ \A other \in temp' : Covered(other)' \/ (other = "build" /\ opts.keepWork)
<1> DEFINE caller == [frame |-> "importArtifactWithProvenanceAndCompact", dir |-> dir]
           run == {d \in defers : d.frame = frame}
<1>1. kept' = kept \cup {dir} /\ defers' = (defers \ run) \cup {caller}
  BY DEF HandOn, Leave
<1>2. temp' = temp
  <2>1. \A d \in run : ~Cleans(d)
    BY <1>1 DEF Cleans, StagingFrames
  <2> QED BY <2>1 DEF HandOn, Leave
<1>3. caller.frame \notin StagingFrames /\ caller.dir = dir /\ caller \in defers'
  BY <1>1 DEF StagingFrames
<1>4. Covered(dir)'
  <2>1. Covered(dir)' <=> \E d \in defers' : d.dir = dir /\ (d.frame \in StagingFrames => dir \notin kept')
    BY DEF Covered, StagingFrames
  <2> HIDE DEF caller
  <2> QED BY <1>3, <2>1
<1>5. ASSUME NEW other \in temp, other # dir, Covered(other) PROVE Covered(other)'
  <2>1. PICK d \in defers : d.dir = other /\ (d.frame \in StagingFrames => other \notin kept)
    BY <1>5 DEF Covered
  <2>2. d \notin run /\ d \in defers'
    BY <1>1, <1>5, <2>1
  <2> HIDE DEF run
  <2> QED BY <1>1, <1>5, <2>1, <2>2 DEF Covered, StagingFrames
<1>6. \A d \in defers' : d \in defers \/ d.frame \notin StagingFrames
  <2> HIDE DEF caller
  <2> QED BY <1>1, <1>3
<1> QED BY <1>1, <1>2, <1>4, <1>5, <1>6 DEF WorkInv

\* A return of the command is not the end of a step that goes on.
LEMMA NextWork ==
  ControlInv /\ TablesInv /\ WorkInv /\ WorkspacesAreRemoved /\ [Next]_vars => WorkInv' /\ WorkspacesAreRemoved'
<1> SUFFICES ASSUME ControlInv, TablesInv, WorkInv, WorkspacesAreRemoved, [Next]_vars
             PROVE  WorkInv' /\ WorkspacesAreRemoved'
  OBVIOUS
<1> USE DEF OwnSteps, GeneratorSteps
<1>1. ASSUME NEW exit \in {"ok", "failed", "refused"}, ~Ended, Return(exit), opts' = opts
      PROVE  WorkInv' /\ WorkspacesAreRemoved'
  <2>1. /\ temp' \subseteq (IF opts.keepWork THEN {"build"} ELSE {}) /\ defers' = {} /\ pc' = exit
    BY <1>1, ReturnCleans
  <2> QED BY <1>1, <2>1 DEF WorkInv, WorkspacesAreRemoved, Ended
\* The directories are left alone.
<1>2. ASSUME ~Ended, UNCHANGED <<opts, tempVars>>,
             pc' \in {"import", "plan", "compact", "publish", "check", "crashed", "prepare", "buildPBF",
                     "sidecar"} \cup {pc},
             pc' \in {"import", "prepare", "buildPBF"} => pc \in {"validate", "check"},
             pc' = "check" => pc \in {"check", "generator"},
             pc' = "plan" => pc \in {"plan", "import"},
             pc' = "compact" => pc \in {"plan", "compact"},
             reading'.kind = "staged" => reading.kind = "staged",
             pc' = "publish" /\ opts.compact => pc = "publish",
             pc' = "publish" /\ OwnBuild => pc \in {"generate", "publish"}
      PROVE  WorkInv' /\ WorkspacesAreRemoved'
  <2>1. /\ temp' = temp /\ defers' = defers /\ kept' = kept /\ opts' = opts
        /\ \A dir : Covered(dir)' <=> Covered(dir)
        /\ OwnBuild' = OwnBuild
    BY <1>2 DEF tempVars, Covered, OwnBuild
  <2>2. WorkInv'
    BY <1>2, <2>1 DEF WorkInv, Ended
  <2>3. WorkspacesAreRemoved'
    BY <1>2, <2>1 DEF WorkInv, WorkspacesAreRemoved, Ended
  <2> QED BY <2>2, <2>3
<1>3. CASE ValidateImport
  <2>1. CASE Return("refused")
    BY <1>1, <1>3, <2>1 DEF ValidateImport, Ended
  <2>2. CASE ~Return("refused")
    BY <1>2, <1>3, <2>2 DEF ValidateImport, Ended, planVars, tempVars, ControlInv
  <2> QED BY <2>1, <2>2
<1>4. CASE StreamArchive
  <2>1. ~OwnBuild
    BY <1>4 DEF StreamArchive, ControlInv, ImportSteps
  <2> QED BY <1>2, <1>4, <2>1 DEF StreamArchive, Ended
<1>5. CASE StageArchive
  <2>1. /\ kept = {} /\ ~Ended /\ MakeTemp("stagePMTiles", "pmtiles", Parent(opts.artifact)) /\ pc' = "stage"
        /\ opts' = opts /\ reading' = reading /\ reading.kind = "pmtiles"
    BY <1>5 DEF StageArchive, WorkInv, Ended, planVars
  <2>2. /\ temp' = temp \cup {"pmtiles"} /\ kept' = kept
        /\ defers' = defers \cup {[frame |-> "stagePMTiles", dir |-> "pmtiles"]}
        /\ \A other \in temp' : Covered(other)' \/ (other = "build" /\ opts.keepWork)
    BY <2>1, MadeIsCovered
  <2> QED BY <2>1, <2>2 DEF WorkInv, WorkspacesAreRemoved, Ended
<1>6. CASE StagingDone
  <2>1. /\ ~Ended /\ HandOn("stagePMTiles", "pmtiles") /\ pc' = "plan" /\ opts' = opts
        /\ "pmtiles" \in temp /\ kept = {}
    BY <1>6 DEF StagingDone, WorkInv, Ended, planVars
  <2>2. /\ \A d \in defers : d.frame = "stagePMTiles" => d.dir = "pmtiles"
        /\ \A d \in defers : d.frame \in StagingFrames => d.frame = "stagePMTiles" \/ d.dir # "pmtiles"
    BY DEF WorkInv, StagingFrames
  <2>3. /\ temp' = temp /\ kept' = kept \cup {"pmtiles"}
        /\ \A d \in defers' : d \in defers \/ d.frame \notin StagingFrames
        /\ \A other \in temp' : Covered(other)' \/ (other = "build" /\ opts.keepWork)
    BY <2>1, <2>2, HandedOnStays DEF StagingFrames
  <2>4. WorkInv'
    BY <2>1, <2>3 DEF WorkInv, Ended, StagingFrames
  <2>5. WorkspacesAreRemoved'
    BY <2>1, <2>3 DEF WorkspacesAreRemoved, Ended
  <2> QED BY <2>4, <2>5
<1>7. CASE ReadMBTiles
  BY <1>2, <1>7 DEF ReadMBTiles, Ended, planVars
<1>8. CASE Plan
  <2>1. pc' = "publish" => ~opts.compact /\ ~OwnBuild
    BY <1>8 DEF Plan, ControlInv, ImportSteps
  <2> QED BY <1>2, <1>8, <2>1 DEF Plan, Ended
<1>9. CASE BeginCompaction
  <2>1. /\ kept \subseteq {"pmtiles"} /\ ~Ended /\ MakeTemp("compactMBTiles", "compact", Parent(opts.artifact))
        /\ pc' = "copy" /\ opts' = opts /\ reading' = reading
    BY <1>9 DEF BeginCompaction, WorkInv, Ended, planVars
  <2>2. /\ temp' = temp \cup {"compact"} /\ kept' = kept
        /\ defers' = defers \cup {[frame |-> "compactMBTiles", dir |-> "compact"]}
        /\ \A other \in temp' : Covered(other)' \/ (other = "build" /\ opts.keepWork)
    BY <2>1, MadeIsCovered
  <2> QED BY <2>1, <2>2 DEF WorkInv, WorkspacesAreRemoved, Ended
<1>10. CASE Compacting
  <2>1. /\ ~Ended /\ pc = "copy" /\ pc' \in {"copy", "index"} /\ UNCHANGED <<opts, reading, tempVars>>
    BY <1>10 DEF Compacting, Ended, planVars
  <2>2. \A dir : Covered(dir)' <=> Covered(dir)
    BY <2>1 DEF Covered, tempVars
  <2> QED BY <2>1, <2>2 DEF WorkInv, WorkspacesAreRemoved, Ended, tempVars
<1>11. CASE CompactionFails
  BY <1>1, <1>11 DEF CompactionFails, Ended
<1>12. CASE CompactionDone
  <2>1. /\ ~Ended /\ HandOn("compactMBTiles", "compact") /\ pc' = "publish" /\ opts' = opts
        /\ "compact" \in temp
        /\ reading' = reading
    BY <1>12 DEF CompactionDone, WorkInv, Ended, planVars
  <2>2. /\ \A d \in defers : d.frame = "compactMBTiles" => d.dir = "compact"
        /\ \A d \in defers : d.frame \in StagingFrames => d.frame = "compactMBTiles" \/ d.dir # "compact"
    BY DEF WorkInv, StagingFrames
  <2>3. /\ temp' = temp /\ kept' = kept \cup {"compact"}
        /\ \A d \in defers' : d \in defers \/ d.frame \notin StagingFrames
        /\ \A other \in temp' : Covered(other)' \/ (other = "build" /\ opts.keepWork)
    BY <2>1, <2>2, HandedOnStays DEF StagingFrames
  <2>4. WorkInv'
    BY <2>1, <2>3 DEF WorkInv, Ended, StagingFrames
  <2>5. WorkspacesAreRemoved'
    <3>1. ~OwnBuild
      BY <1>12 DEF CompactionDone, ControlInv, ImportSteps
    <3> QED BY <2>1, <2>3, <3>1 DEF WorkspacesAreRemoved, Ended, OwnBuild
  <2> QED BY <2>4, <2>5
<1>13. CASE Publish
  <2>1. CASE Return("ok")
    BY <1>1, <1>13, <2>1 DEF Publish, Ended
  <2>2. CASE ~Return("ok")
    BY <1>2, <1>13, <2>2 DEF Publish, Ended, planVars, tempVars, ControlInv
  <2> QED BY <2>1, <2>2
<1>14. CASE ImportFails
  BY <1>1, <1>14 DEF ImportFails, Ended
<1>15. CASE ValidateBuild
  <2>1. CASE Return("refused")
    BY <1>1, <1>15, <2>1 DEF ValidateBuild, Ended
  <2>2. CASE ~Return("refused")
    BY <1>2, <1>15, <2>2 DEF ValidateBuild, Ended, planVars, tempVars, ControlInv
  <2> QED BY <2>1, <2>2
<1>16. CASE BeginBuildPBF
  <2>1. /\ ~Ended /\ MakeTemp("BuildPBF", "pbf", Parent(Target)) /\ pc' = "generate"
        /\ opts' = opts /\ reading' = reading /\ kept = {}
    BY <1>16 DEF BeginBuildPBF, WorkInv, Ended
  <2>2. /\ temp' = temp \cup {"pbf"} /\ kept' = kept
        /\ defers' = defers \cup {[frame |-> "BuildPBF", dir |-> "pbf"]}
        /\ \A other \in temp' : Covered(other)' \/ (other = "build" /\ opts.keepWork)
    BY <2>1, MadeIsCovered DEF StagingFrames
  <2> QED BY <2>1, <2>2 DEF WorkInv, WorkspacesAreRemoved, Ended
<1>17. CASE Generate
  <2>1. ~opts.compact
    BY <1>17, QuietFrame DEF QuietStep, Generate
  <2> QED BY <1>2, <1>17, <2>1 DEF Generate, Ended, planVars
<1>18. CASE WriteSidecar
  <2>1. CASE Return("ok")
    BY <1>1, <1>18, <2>1 DEF WriteSidecar, Ended
  <2>2. CASE ~Return("ok")
    BY <1>2, <1>18, <2>2 DEF WriteSidecar, Ended, planVars, tempVars, ControlInv
  <2> QED BY <2>1, <2>2
<1>19. CASE NoSidecar
  BY <1>1, <1>19 DEF NoSidecar, Ended
<1>20. CASE BuildFails
  BY <1>1, <1>20 DEF BuildFails, Ended
<1>21. CASE PrepareWork
  <2>1. /\ ~Ended /\ pc' = "generator" /\ temp' = temp \cup {"build"} /\ kept' = kept /\ kept = {}
        /\ defers' = IF opts.keepWork THEN defers ELSE defers \cup {[frame |-> "commandBuild", dir |-> "build"]}
        /\ opts' = opts /\ reading' = reading
    BY <1>21 DEF PrepareWork, Ended, WorkInv, planVars
  <2>2. ASSUME NEW dir \in temp, Covered(dir) PROVE Covered(dir)'
    BY <2>1, <2>2 DEF Covered
  <2>3. ~opts.keepWork => Covered("build")'
    <3> DEFINE own == [frame |-> "commandBuild", dir |-> "build"]
    <3>1. own.dir = "build" /\ own.frame \notin StagingFrames /\ (~opts.keepWork => own \in defers')
      BY <2>1 DEF StagingFrames
    <3>2. Covered("build")' <=> \E d \in defers' : d.dir = "build" /\ (d.frame \in StagingFrames => "build" \notin kept')
      BY DEF Covered, StagingFrames
    <3> HIDE DEF own
    <3> QED BY <3>1, <3>2
  <2> QED BY <2>1, <2>2, <2>3 DEF WorkInv, WorkspacesAreRemoved, Ended
<1>22. CASE RunGenerator
  <2>1. /\ ~Ended /\ pc = "generator" /\ pc' \in {"generator", "check"} /\ UNCHANGED <<opts, reading, tempVars>>
    BY <1>22 DEF RunGenerator, Ended
  <2> QED BY <1>2, <2>1
<1>23. CASE CheckGenerated
  <2>1. reading'.kind = "mbtiles"
    BY <1>23 DEF CheckGenerated, ControlInv, SourceType
  <2> QED BY <1>2, <1>23, <2>1 DEF CheckGenerated, Ended
<1>24. CASE Crash
  BY <1>2, <1>24 DEF Crash, Ended, planVars
<1>25. CASE UNCHANGED vars
  BY <1>25 DEF vars, pipelineVars, planVars, tempVars, WorkInv, WorkspacesAreRemoved, Covered, Ended, OwnBuild
<1> QED BY <1>3, <1>4, <1>5, <1>6, <1>7, <1>8, <1>9, <1>10, <1>11, <1>12, <1>13, <1>14,
           <1>15, <1>16, <1>17, <1>18, <1>19, <1>20, <1>21, <1>22, <1>23, <1>24, <1>25 DEF Next, ImportNext, BuildNext

\* Whatever a command does and whichever step fails, the deferred calls of its
\* functions remove every temporary directory, not before it has been read.
THEOREM NoWorkspaceStays == Spec => []WorkspacesAreRemoved
<1>1. Init => WorkInv /\ WorkspacesAreRemoved
  BY DEF Init, WorkInv, WorkspacesAreRemoved, Ended
<1> QED BY <1>1, PipelineInv, NextWork, PTL DEF Spec

-----------------------------------------------------------------------------
(* What a command must not destroy                                           *)

\* The input exists: where it is found, it is compared, and nothing that it lies in
\* is replaced; a build's other paths do when no link dangles.
LEMMA NothingBuried ==
  ASSUME ControlInv, pc = "publish", NEW at \in Renamed
  PROVE  "input" \notin Burials(at) /\ (NoneDangles => Burials(at) = {})
<1>1. /\ Accepted /\ opts \in OptionsType /\ opts.cmd \in {"import", "build"}
      /\ opts.input \in Seq(STRING) /\ opts.artifact \in Seq(STRING)
      /\ opts.cmd = "import" => opts.mbtilesOut = NoPath /\ opts.workDir = NoPath
      /\ opts.mbtilesOut # NoPath => opts.mbtilesOut \in Seq(STRING)
      /\ opts.workDir # NoPath => opts.workDir \in Seq(STRING)
  BY OptionFacts DEF ControlInv, Ended
<1> DEFINE a == opts.artifact
<1>2. /\ Real(a) \in Seq(STRING) /\ Located(a) \in Seq(STRING)
      /\ Located(a) \notin DOMAIN Link => Real(a) = Located(a)
  BY <1>1, RealHasNoLinks, LocatedIsReal
<1>3. Real(opts.input) \in Existing /\ Canonical(opts.input) = Real(opts.input)
  <2>1. Real(opts.input) \in Existing
    BY <1>1, PathsAssumption DEF Accepted, ImportAccepted, ArtifactAccepted, RegularFile
  <2> QED BY <1>1, <2>1, ExistingIsCanonical
<1>4. ~PathWithin(opts.input, a)
  BY <1>1 DEF Accepted, ImportAccepted, ArtifactAccepted, Overlap
<1>5. at \in {Canonical(a), Located(a), Real(a)} /\ (at = Canonical(a) => OwnBuild \/ at \in {Located(a), Real(a)})
  BY DEF Renamed, Target
<1>6. ~IsPrefix(at, Real(opts.input))
  <2> SUFFICES ASSUME IsPrefix(at, Real(opts.input)) PROVE FALSE
    OBVIOUS
  <2>1. at = Canonical(a)
    <3>1. CASE at = Real(a)
      <4>1. Real(a) \in Existing
        BY <1>2, <1>3, <3>1, PrefixExists
      <4> QED BY <1>1, <3>1, <4>1, ExistingIsCanonical
    <3>2. CASE at = Located(a)
      <4>1. Located(a) \in Existing /\ Located(a) \notin DOMAIN Link
        BY <1>2, <1>3, <3>2, PrefixExists
      <4> QED BY <1>1, <1>2, <3>2, <4>1, ExistingIsCanonical
    <3> QED BY <1>5, <3>1, <3>2
  <2> QED BY <1>3, <1>4, <2>1 DEF PathWithin
<1>7. ASSUME NoneDangles, NEW path \in Seq(STRING), path \in {opts.mbtilesOut, opts.workDir} \ {NoPath},
             ~PathWithin(path, a), opts.cmd = "build"
      PROVE  ~IsPrefix(at, Real(path))
  <2>1. Canonical(path) = Real(path) /\ Canonical(a) = Real(a)
    BY <1>7 DEF NoneDangles
  <2> SUFFICES ASSUME IsPrefix(at, Real(path)) PROVE FALSE
    OBVIOUS
  <2>2. at = Real(a)
    <3>1. CASE at = Located(a)
      <4>1. Real(path) \in Seq(STRING) /\ Prefixes(Real(path)) \cap DOMAIN Link = {}
        BY <1>7, RealHasNoLinks
      <4>2. Located(a) \in Prefixes(Real(path))
        BY <1>2, <3>1, <4>1, PrefixIsOne
      <4> QED BY <1>2, <3>1, <4>1, <4>2
    <3> QED BY <1>5, <2>1, <3>1
  <2> QED BY <1>7, <2>1, <2>2 DEF PathWithin
<1>8. "input" \notin Burials(at)
  BY <1>6 DEF Burials
<1>9. ASSUME NoneDangles PROVE "mbtiles" \notin Burials(at)
  <2> SUFFICES ASSUME opts.mbtilesOut # NoPath PROVE ~IsPrefix(at, Real(opts.mbtilesOut))
    BY DEF Burials
  <2>1. opts.cmd = "build" /\ ~PathWithin(opts.mbtilesOut, a)
    BY <1>1 DEF Accepted, MBTilesAccepted
  <2> QED BY <1>1, <1>7, <1>9, <2>1
<1>10. ASSUME NoneDangles PROVE "work" \notin Burials(at)
  <2> SUFFICES ASSUME "build" \in temp, opts.workDir # NoPath PROVE ~IsPrefix(at, Real(opts.workDir))
    BY DEF Burials
  <2>1. opts.cmd = "build" /\ ~PathWithin(opts.workDir, a)
    BY <1>1 DEF ControlInv, Accepted, GeneratorAccepted
  <2> QED BY <1>1, <1>7, <1>10, <2>1
<1> QED BY <1>8, <1>9, <1>10 DEF Burials

\* What the generator overwrites was compared, if it exists: it is the input only
\* by another name of the same file.
LEMMA NothingOverwritten ==
  ASSUME ControlInv, pc = "generator", opts.mbtilesOut # NoPath, SameFile(opts.mbtilesOut, opts.input)
  PROVE  Real(opts.mbtilesOut) # Real(opts.input)
<1>1. /\ Accepted /\ opts.cmd = "build" /\ opts.input \in Seq(STRING) /\ opts.mbtilesOut \in Seq(STRING)
  BY OptionFacts DEF ControlInv, Ended, GeneratorSteps
<1>2. Real(opts.mbtilesOut) \in Existing /\ Real(opts.input) \in Existing
  BY PathsAssumption DEF SameFile, RegularFile
<1>3. Canonical(opts.mbtilesOut) = Real(opts.mbtilesOut) /\ Canonical(opts.input) = Real(opts.input)
  BY <1>1, <1>2, ExistingIsCanonical
<1> QED BY <1>1, <1>3 DEF Accepted, MBTilesAccepted, SamePath

LEMMA NextNothingBuried == ControlInv /\ NothingIsBuried /\ [Next]_vars => NothingIsBuried'
<1> SUFFICES ASSUME ControlInv, NothingIsBuried, [Next]_vars PROVE NothingIsBuried'
  OBVIOUS
<1> DEFINE aliased == /\ opts.mbtilesOut # NoPath /\ SameFile(opts.mbtilesOut, opts.input)
                      /\ Real(opts.mbtilesOut) # Real(opts.input)
<1>1. /\ "input" \in lost => aliased
      /\ NoneDangles => lost \subseteq {"input"}
  BY DEF NothingIsBuried
<1>2. CASE Publish
  <2>1. PICK at \in Renamed : lost' = lost \cup Burials(at)
    BY <1>2 DEF Publish
  <2>2. "input" \notin Burials(at) /\ (NoneDangles => Burials(at) = {}) /\ opts' = opts
    BY <1>2, <2>1, NothingBuried DEF Publish
  <2> QED BY <1>1, <2>1, <2>2 DEF NothingIsBuried, NoneDangles
<1>3. CASE RunGenerator
  <2>1. /\ opts' = opts
        /\ lost' = lost \/ (lost' = lost \cup {"input"} /\ aliased)
    BY <1>3, NothingOverwritten DEF RunGenerator
  <2> QED BY <1>1, <2>1 DEF NothingIsBuried, NoneDangles
<1>4. CASE ~Publish /\ ~RunGenerator
  <2>1. lost' = lost /\ opts' = opts
    BY <1>4 DEF Next, ImportNext, BuildNext, vars, pipelineVars, outVars, ValidateImport, StreamArchive,
                StageArchive, StagingDone, ReadMBTiles, Plan, BeginCompaction, Compacting, CompactionFails,
                CompactionDone, ImportFails, ValidateBuild, BeginBuildPBF, Generate, WriteSidecar, NoSidecar,
                BuildFails, PrepareWork, CheckGenerated, Crash
  <2> QED BY <1>1, <2>1 DEF NothingIsBuried, NoneDangles
<1> QED BY <1>2, <1>3, <1>4

\* No command destroys its input, but through a hard link of it given as an output;
\* nor, unless it is given a dangling link, the MBTiles or the work directory it was
\* asked to keep: whatever else the paths and links are.
THEOREM NothingBuriedEver == Spec => []NothingIsBuried
<1>1. Init => NothingIsBuried
  BY DEF Init, NothingIsBuried
<1> QED BY <1>1, PipelineInv, NextNothingBuried, PTL DEF Spec

-----------------------------------------------------------------------------
(* The batch of a stream                                                     *)

LEMMA SmallerFacts ==
  \A a, b \in Int : Smaller(a, b) \in {a, b} /\ Smaller(a, b) <= a /\ Smaller(a, b) <= b
BY DEF Smaller

\* Rows of a quotient fit, whatever their size.
LEMMA QuotientFits ==
  ASSUME NEW available \in Nat, NEW size \in Nat \ {0}, NEW rows \in Nat, rows <= available \div size
  PROVE  rows * size <= available
<1> DEFINE q == available \div size
<1>1. q \in Nat /\ q * size <= available
  OBVIOUS
<1>2. rows * size <= q * size
  <2>1. rows <= q /\ q \in Nat
    BY <1>1
  <2> HIDE DEF q
  <2> QED BY <2>1
<1>3. rows * size \in Nat /\ q * size \in Nat
  BY <1>1
<1> HIDE DEF q
<1> QED BY <1>1, <1>2, <1>3

LEMMA BatchFits ==
  ASSUME NEW requested \in Nat, NEW largest \in Nat, NEW memory \in Nat
  PROVE  LET rows == TileStreamBatch(requested, largest, memory) IN
         \/ rows = 1
         \/ rows * (largest + RowOverhead) + FixedMemory <= memory /\ rows \in 1..MaxAutoBatch
<1> DEFINE available == memory - FixedMemory
           size == largest + RowOverhead
           fitting == IF available <= 0 THEN 1 ELSE available \div size
           fits == Smaller(IF fitting < 1 THEN 1 ELSE fitting, MaxAutoBatch)
           rows == TileStreamBatch(requested, largest, memory)
<1>1. available \in Int /\ size \in Nat \ {0} /\ MaxAutoBatch \in Nat \ {0} /\ FixedMemory \in Nat
  BY ImportAssumption
<1>2. rows = IF requested = 0 THEN fits ELSE Smaller(requested, fits)
  BY DEF TileStreamBatch
<1>3. CASE available <= 0
  <2>1. fits = 1
    BY <1>1, <1>3 DEF Smaller
  <2>2. rows = 1
    <3> HIDE DEF fits, rows
    <3> QED BY <1>2, <2>1 DEF Smaller
  <2> QED BY <2>2
<1>4. CASE available > 0
  <2>1. fitting = available \div size /\ fitting \in Nat
    BY <1>1, <1>4
  <2>2. CASE fitting < 1
    <3>1. fits = 1
      <4> HIDE DEF fitting
      <4> QED BY <1>1, <2>2 DEF Smaller
    <3>2. rows = 1
      <4> HIDE DEF fits, rows
      <4> QED BY <1>2, <3>1 DEF Smaller
    <3> QED BY <3>2
  <2>3. CASE fitting >= 1
    <3>1. fits \in 1..MaxAutoBatch /\ fits <= fitting
      <4> HIDE DEF fitting
      <4> QED BY <1>1, <2>1, <2>3 DEF Smaller
    <3>2. rows \in 1..MaxAutoBatch /\ rows <= fitting
      <4> HIDE DEF fitting, fits, rows
      <4> QED BY <1>1, <1>2, <2>1, <3>1 DEF Smaller
    <3>3. rows * size <= available
      <4>1. available \in Nat /\ rows \in Nat /\ rows <= available \div size
        BY <1>1, <1>4, <2>1, <3>2
      <4> HIDE DEF rows, available, size
      <4> QED BY <1>1, <4>1, QuotientFits
    <3>4. rows * size \in Int
      <4> HIDE DEF rows, size
      <4> QED BY <1>1, <3>2
    <3>5. rows * size + FixedMemory <= memory
      <4>1. rows * size <= memory - FixedMemory
        BY <3>3
      <4> HIDE DEF rows, size
      <4> QED BY <1>1, <3>4, <4>1
    <3> QED BY <3>2, <3>5
  <2> QED BY <2>1, <2>2, <2>3
<1> QED BY <1>1, <1>3, <1>4

LEMMA NextBatch == ControlInv /\ StreamBatchFits /\ [Next]_vars => StreamBatchFits'
<1> SUFFICES ASSUME ControlInv, StreamBatchFits, [Next]_vars, pc' = "publish", reading'.kind = "pmtiles"
             PROVE  \/ batch' = 1
                    \/ /\ batch' * (reading'.largest + RowOverhead) + FixedMemory <= opts'.memory
                       /\ batch' \in 1..MaxAutoBatch
  BY DEF StreamBatchFits
<1>1. CASE StreamArchive
  <2>1. opts.cmd = "import" /\ Accepted /\ opts \in Options /\ reading.largest \in Nat
    BY <1>1 DEF StreamArchive, ControlInv, Ended, SourceType
  <2>2. opts.batch \in Nat /\ opts.memory \in Nat
    BY <2>1, OptionFacts DEF Accepted, ImportAccepted
  <2>3. /\ batch' = TileStreamBatch(opts.batch, reading.largest, opts.memory)
        /\ reading' = reading /\ opts' = opts
    BY <1>1 DEF StreamArchive
  <2> QED BY <2>1, <2>2, <2>3, BatchFits
<1>2. CASE CompactionDone \/ Generate \/ Plan
  <2>1. reading'.kind # "pmtiles"
    BY <1>2 DEF CompactionDone, Generate, Plan, planVars, ControlInv, OwnSteps
  <2> QED BY <2>1
<1>3. CASE UNCHANGED vars
  BY <1>3 DEF vars, pipelineVars, planVars, StreamBatchFits
<1>4. CASE ~(StreamArchive \/ CompactionDone \/ Generate \/ Plan \/ UNCHANGED vars)
  BY <1>4 DEF Next, ImportNext, BuildNext, ValidateImport, StageArchive, StagingDone, ReadMBTiles,
              BeginCompaction, Compacting, CompactionFails, ImportFails, Publish, ValidateBuild, BeginBuildPBF, WriteSidecar, NoSidecar, BuildFails,
              PrepareWork, RunGenerator, CheckGenerated, Crash, Return
<1> QED BY <1>1, <1>2, <1>3, <1>4

\* A streamed archive never takes more memory for a batch than the caller
\* allows, whatever its tiles, the memory and the batch it asked for.
THEOREM StreamFitsMemory == Spec => []StreamBatchFits
<1>1. Init => StreamBatchFits
  BY DEF Init, StreamBatchFits
<1> QED BY <1>1, PipelineInv, NextBatch, PTL DEF Spec
-----------------------------------------------------------------------------
(* Sequences                                                                 *)

\* The set decides only about the elements of the sequence.
LEMMA KeptCong ==
  ASSUME NEW T, NEW s \in Seq(T), NEW S, NEW U, \A i \in 1..Len(s) : s[i] \in S <=> s[i] \in U
  PROVE  Kept(s, S) = Kept(s, U)
<1>1. PICK f \in [0..Len(s) -> Seq(T)] : KeptBy(f, s, S, Len(s)) /\ Kept(s, S) = f[Len(s)]
  BY KeptFunction
<1>2. KeptBy(f, s, U, Len(s))
  BY <1>1 DEF KeptBy
<1> QED BY <1>1, <1>2, KeptIs

\* To keep the elements of S and then those of U is to keep those of both.
LEMMA KeptTwice ==
  ASSUME NEW T, NEW s \in Seq(T), NEW S, NEW U
  PROVE  Kept(Kept(s, S), U) = Kept(s, S \cap U)
<1> DEFINE r == Kept(s, S)
<1>1. PICK f \in [0..Len(s) -> Seq(T)] : KeptBy(f, s, S, Len(s)) /\ r = f[Len(s)]
  BY KeptFunction
<1>2. r \in Seq(T)
  BY KeptType
<1>3. PICK g \in [0..Len(r) -> Seq(T)] : KeptBy(g, r, U, Len(r)) /\ Kept(r, U) = g[Len(r)]
  BY <1>2, KeptFunction
<1>4. PICK h \in [0..Len(s) -> Seq(T)] : KeptBy(h, s, S \cap U, Len(s)) /\ Kept(s, S \cap U) = h[Len(s)]
  BY KeptFunction
<1> HIDE DEF r
<1> DEFINE Beginning(m) == Len(f[m]) <= Len(r) /\ \A i \in 1..Len(f[m]) : f[m][i] = r[i]
           B == {k \in Nat : k <= Len(s) => Beginning(Len(s) - k)}
<1>5. \A m \in 0..Len(s) : Beginning(m)
  <2>1. 0 \in B
    BY <1>1, <1>2
  <2>2. ASSUME NEW k \in Nat \cap B PROVE k + 1 \in B
    <3> SUFFICES ASSUME k + 1 <= Len(s) PROVE Beginning(Len(s) - (k + 1))
      OBVIOUS
    <3> DEFINE m == Len(s) - (k + 1)
    <3>1. m \in 0..Len(s) /\ m + 1 \in 1..Len(s) /\ (m + 1) - 1 = m /\ m + 1 = Len(s) - k
      OBVIOUS
    <3>2. Beginning(m + 1)
      BY <3>1
    <3>3. f[m + 1] = IF s[m + 1] \in S THEN Append(f[m], s[m + 1]) ELSE f[m]
      BY <1>1, <3>1 DEF KeptBy
    <3>4. f[m] \in Seq(T)
      BY <1>1, <3>1
    <3> HIDE DEF m
    <3>5. Len(f[m]) \in Nat /\ Len(r) \in Nat
      BY <1>2, <3>4
    <3>6. CASE s[m + 1] \in S
      <4>1. Len(f[m + 1]) = Len(f[m]) + 1 /\ \A i \in 1..Len(f[m]) : f[m + 1][i] = f[m][i]
        BY <3>3, <3>4, <3>6
      <4> QED BY <3>2, <3>5, <4>1 DEF m
    <3>7. CASE s[m + 1] \notin S
      BY <3>2, <3>3, <3>7 DEF m
    <3> QED BY <3>6, <3>7
  <2>3. \A k \in Nat : k \in B
    <3> HIDE DEF B
    <3> QED BY <2>1, <2>2, Induction
  <2>4. ASSUME NEW m \in 0..Len(s) PROVE Beginning(m)
    <3>1. Len(s) - m \in Nat /\ Len(s) - m <= Len(s) /\ Len(s) - (Len(s) - m) = m
      OBVIOUS
    <3>2. Len(s) - m \in B
      BY <2>3, <3>1
    <3> QED BY <3>1, <3>2
  <2> QED BY <2>4
<1> DEFINE D == {m \in Nat : m <= Len(s) => g[Len(f[m])] = h[m]}
<1>6. 0 \in D
  BY <1>1, <1>3, <1>4 DEF KeptBy
<1>7. ASSUME NEW m \in Nat \cap D PROVE m + 1 \in D
  <2> SUFFICES ASSUME m + 1 <= Len(s) PROVE g[Len(f[m + 1])] = h[m + 1]
    OBVIOUS
  <2>1. m \in 0..Len(s) /\ m + 1 \in 1..Len(s) /\ (m + 1) - 1 = m /\ g[Len(f[m])] = h[m]
    OBVIOUS
  <2>2. /\ f[m + 1] = IF s[m + 1] \in S THEN Append(f[m], s[m + 1]) ELSE f[m]
        /\ h[m + 1] = IF s[m + 1] \in S \cap U THEN Append(h[m], s[m + 1]) ELSE h[m]
        /\ f[m] \in Seq(T)
    BY <1>1, <1>4, <2>1 DEF KeptBy
  <2>3. CASE s[m + 1] \in S
    <3>1. Len(f[m + 1]) = Len(f[m]) + 1 /\ f[m + 1][Len(f[m]) + 1] = s[m + 1] /\ Len(f[m]) \in Nat
      BY <2>2, <2>3
    <3>2. Beginning(m + 1)
      BY <1>5, <2>1
    <3>3. Len(f[m]) + 1 \in 1..Len(r) /\ r[Len(f[m]) + 1] = s[m + 1]
      BY <1>2, <3>1, <3>2
    <3>4. g[Len(f[m]) + 1] = IF r[Len(f[m]) + 1] \in U THEN Append(g[Len(f[m])], r[Len(f[m]) + 1]) ELSE g[Len(f[m])]
      <4> DEFINE i == Len(f[m]) + 1
      <4>1. i \in 1..Len(r) /\ i - 1 = Len(f[m])
        BY <3>1, <3>3
      <4>2. g[i] = IF r[i] \in U THEN Append(g[i - 1], r[i]) ELSE g[i - 1]
        <5> HIDE DEF i
        <5> QED BY <1>3, <4>1 DEF KeptBy
      <4> QED BY <4>1, <4>2
    <3> QED BY <2>1, <2>2, <2>3, <3>1, <3>3, <3>4
  <2>4. CASE s[m + 1] \notin S
    BY <2>1, <2>2, <2>4
  <2> QED BY <2>3, <2>4
<1>8. \A m \in Nat : m \in D
  <2> HIDE DEF D
  <2> QED BY <1>6, <1>7, Induction
<1>9. g[Len(f[Len(s)])] = h[Len(s)]
  <2>1. Len(s) \in Nat /\ Len(s) <= Len(s)
    OBVIOUS
  <2>2. Len(s) \in D
    BY <1>8, <2>1
  <2> QED BY <2>1, <2>2
<1> QED BY <1>1, <1>3, <1>4, <1>9 DEF r

LEMMA FlattenType ==
  ASSUME NEW T, NEW ss \in Seq(Seq(T))
  PROVE  FlattenSeq(ss) \in Seq(T)
<1>1. CASE Len(ss) = 0
  BY <1>1 DEF FlattenSeq
<1>2. CASE Len(ss) # 0
  <2>0. Len(ss) \in 1..Len(ss)
    BY <1>2
  <2>1. PICK f \in [1..Len(ss) -> Seq(T)] : FlattenedBy(f, ss, Len(ss))
    BY FlattenExists
  <2> DEFINE Rec(g) == g = [i \in 1..Len(ss) |-> IF i = 1 THEN ss[i] ELSE g[i - 1] \o ss[i]]
             flat == CHOOSE g : Rec(g)
  <2>2. Rec(f)
    BY <2>1 DEF FlattenedBy
  <2>3. Rec(flat)
    BY <2>2
  <2> HIDE DEF flat
  <2>4. \A i \in 1..Len(ss) : flat[i] = IF i = 1 THEN ss[i] ELSE flat[i - 1] \o ss[i]
    BY <2>3
  <2> DEFINE D == {i \in Nat : i \in 1..Len(ss) => flat[i] \in Seq(T)}
  <2>5. 0 \in D
    OBVIOUS
  <2>6. ASSUME NEW i \in Nat \cap D PROVE i + 1 \in D
    <3> SUFFICES ASSUME i + 1 \in 1..Len(ss) PROVE flat[i + 1] \in Seq(T)
      OBVIOUS
    <3>1. ss[i + 1] \in Seq(T) /\ (i + 1) - 1 = i
      OBVIOUS
    <3>2. CASE i = 0
      BY <2>4, <3>1, <3>2
    <3>3. CASE i # 0
      <4>1. i \in 1..Len(ss) /\ i + 1 # 1
        BY <3>3
      <4>2. flat[i] \in Seq(T)
        BY <4>1
      <4>3. flat[i + 1] = flat[(i + 1) - 1] \o ss[i + 1]
        BY <2>4, <4>1
      <4> QED BY <3>1, <4>2, <4>3
    <3> QED BY <3>2, <3>3
  <2>7. \A i \in Nat : i \in D
    <3> HIDE DEF D
    <3> QED BY <2>5, <2>6, Induction
  <2>8. flat[Len(ss)] \in Seq(T)
    BY <2>0, <2>7
  <2>9. FlattenSeq(ss) = flat[Len(ss)]
    BY <1>2 DEF FlattenSeq, flat
  <2> QED BY <2>8, <2>9
<1> QED BY <1>1, <1>2

-----------------------------------------------------------------------------
(* Numbers                                                                   *)

\* A set of numbers that has one below a bound has a greatest.
LEMMA MaxBelow ==
  ASSUME NEW N \in Nat, NEW S \in SUBSET (1..N), S # {}
  PROVE  Max(S) \in S
<1>1. PICK k \in S : TRUE
  OBVIOUS
<1> DEFINE f == [i \in 1..N |-> IF i \in S THEN i ELSE k]
<1>2. N # 0 /\ \A i \in 1..N : f[i] \in S /\ f[i] \in Int
  BY <1>1
<1>3. \A i \in S : i \in 1..N /\ f[i] = i
  OBVIOUS
<1>4. S = {f[i] : i \in 1..N}
  <2> HIDE DEF f
  <2> QED BY <1>2, <1>3
<1>5. N \in Nat \ {0} /\ \A i \in 1..N : f[i] \in Int
  BY <1>2
<1> HIDE DEF f
<1> QED BY <1>4, <1>5, MaxOf

-----------------------------------------------------------------------------
(* Tiles                                                                     *)

\* From the west, and from the north in a column.
TileBefore(s, t) == s[1] < t[1] \/ (s[1] = t[1] /\ s[2] < t[2])

LEMMA DivisionOrder ==
  ASSUME NEW N \in Nat \ {0}, NEW i \in Nat, NEW j \in Nat, i < j
  PROVE  i \div N < j \div N \/ (i \div N = j \div N /\ i % N < j % N)
OBVIOUS

LEMMA ColumnwiseFacts ==
  ASSUME NEW z \in Nat
  PROVE  /\ Columnwise(z) \in Seq(Grid(z))
         /\ \A i, j \in 1..Len(Columnwise(z)) : i < j => TileBefore(Columnwise(z)[i], Columnwise(z)[j])
         /\ \A t \in Grid(z) : \E i \in 1..Len(Columnwise(z)) : Columnwise(z)[i] = t
<1> DEFINE N == Side(z)
           M == N * N
           c == [i \in 1..M |-> <<(i - 1) \div N, (i - 1) % N>>]
<1>1. N \in Nat \ {0}
  BY SideFacts
<1>2. Columnwise(z) = c /\ Grid(z) = (0..(N - 1)) \X (0..(N - 1))
  BY DEF Columnwise, Grid
<1> HIDE DEF N
<1>3. M \in Nat
  BY <1>1
<1>4. \A i \in 1..M : i - 1 \in 0..(N * N - 1) /\ i - 1 \in Nat
  BY <1>3
<1>5. \A i \in 1..M : c[i] \in Grid(z)
  BY <1>1, <1>2, <1>4, DivisionRange
<1>6. Len(c) = M /\ c \in Seq(Grid(z))
  <2>1. \A i \in 1..M : c[i] \in Grid(z)
    BY <1>5
  <2> HIDE DEF M
  <2> QED BY <1>3, <2>1
<1>7. ASSUME NEW i \in 1..M, NEW j \in 1..M, i < j PROVE TileBefore(c[i], c[j])
  <2>1. i - 1 \in Nat /\ j - 1 \in Nat /\ i - 1 < j - 1
    BY <1>3, <1>7
  <2>2. \/ (i - 1) \div N < (j - 1) \div N
        \/ (i - 1) \div N = (j - 1) \div N /\ (i - 1) % N < (j - 1) % N
    BY <1>1, <2>1, DivisionOrder
  <2>3. c[i] = <<(i - 1) \div N, (i - 1) % N>> /\ c[j] = <<(j - 1) \div N, (j - 1) % N>>
    BY <1>7
  <2> HIDE DEF c
  <2> QED BY <2>2, <2>3 DEF TileBefore
<1>8. ASSUME NEW t \in Grid(z) PROVE \E i \in 1..M : c[i] = t
  <2>1. t[1] \in 0..(N - 1) /\ t[2] \in 0..(N - 1) /\ t = <<t[1], t[2]>>
    BY <1>2
  <2> DEFINE k == t[1] * N + t[2]
  <2>2. k \div N = t[1] /\ k % N = t[2] /\ k \in 0..(N * N - 1)
    BY <1>1, <2>1, DivisionPlace
  <2> HIDE DEF k
  <2>3. k + 1 \in 1..M /\ (k + 1) - 1 = k
    BY <1>3, <2>2
  <2> QED BY <2>1, <2>2, <2>3
<1> HIDE DEF c, M
<1> QED BY <1>2, <1>6, <1>7, <1>8

LEMMA TileOfType ==
  ASSUME NEW p \in Nat \X Nat, NEW z \in 0..GridZoom
  PROVE  TileOf(p, z)[1] \in Int /\ TileOf(p, z)[2] \in Int
<1> DEFINE N == Side(GridZoom - z)
<1>1. N \in Nat \ {0}
  <2>1. GridZoom - z \in Nat
    BY GeneratorAssumption
  <2> QED BY <2>1, SideFacts
<1>2. TileOf(p, z) = <<p[1] \div N, p[2] \div N>>
  BY DEF TileOf
<1> HIDE DEF N
<1>3. p[1] \in Nat /\ p[2] \in Nat
  OBVIOUS
<1>4. p[1] \div N \in Int /\ p[2] \div N \in Int
  BY <1>1, <1>3
<1> QED BY <1>2, <1>4

LEMMA BetweenMeans ==
  ASSUME NEW a \in Int, NEW b \in Int, NEW c \in Int, Between(a, b, c)
  PROVE  (a <= c /\ c <= b) \/ (b <= c /\ c <= a)
<1>1. Min({a, b}) = (IF a <= b THEN a ELSE b) /\ Max({a, b}) = (IF a <= b THEN b ELSE a)
  BY PairMinMax
<1>2. Min({a, b}) <= c /\ c <= Max({a, b})
  BY DEF Between
<1> QED BY <1>1, <1>2

\* A tile that a line crosses is in the box of the line.
LEMMA EntersBox ==
  ASSUME NEW line \in Seq(Nat \X Nat), NEW z \in 0..GridZoom, NEW x \in Int, NEW y \in Int,
         Enters(line, <<x, y>>, z), BoxTiles(line, z) # {}
  PROVE  <<x, y>> \in BoxTiles(line, z)
<1> DEFINE X == [i \in 1..Len(line) |-> TileOf(line[i], z)[1]]
           Y == [i \in 1..Len(line) |-> TileOf(line[i], z)[2]]
           at == {TileOf(line[i], z) : i \in DOMAIN line}
           xs == {t[1] : t \in at}
           ys == {t[2] : t \in at}
           box == (Min(xs)..Max(xs)) \X (Min(ys)..Max(ys))
<1>1. DOMAIN line = 1..Len(line)
  OBVIOUS
<1>2. BoxTiles(line, z) = box
  BY DEF BoxTiles
<1>3. PICK k \in 1..(Len(line) - 1) :
        /\ Between(TileOf(line[k], z)[1], TileOf(line[k + 1], z)[1], x)
        /\ Between(TileOf(line[k], z)[2], TileOf(line[k + 1], z)[2], y)
  BY DEF Enters
<1>4. k \in 1..Len(line) /\ k + 1 \in 1..Len(line) /\ Len(line) \in Nat \ {0}
  OBVIOUS
<1>5. \A i \in 1..Len(line) : X[i] = TileOf(line[i], z)[1] /\ Y[i] = TileOf(line[i], z)[2]
  OBVIOUS
<1>6. \A i \in 1..Len(line) : X[i] \in Int /\ Y[i] \in Int
  <2>1. \A i \in 1..Len(line) : line[i] \in Nat \X Nat
    OBVIOUS
  <2>2. \A i \in 1..Len(line) : TileOf(line[i], z)[1] \in Int /\ TileOf(line[i], z)[2] \in Int
    BY <2>1, TileOfType
  <2> QED BY <1>5, <2>2
<1> HIDE DEF X, Y
<1>7. xs = {X[i] : i \in 1..Len(line)}
  <2>1. xs = {TileOf(line[i], z)[1] : i \in 1..Len(line)}
    BY <1>1
  <2> QED BY <1>5, <2>1, ZenonT(30)
<1>8. ys = {Y[i] : i \in 1..Len(line)}
  <2>1. ys = {TileOf(line[i], z)[2] : i \in 1..Len(line)}
    BY <1>1
  <2> QED BY <1>5, <2>1, ZenonT(30)
<1> HIDE DEF xs, ys
<1>9. Between(X[k], X[k + 1], x) /\ Between(Y[k], Y[k + 1], y)
  BY <1>3, <1>4, <1>5
<1>10. xs \subseteq Int /\ X[k] \in xs /\ X[k + 1] \in xs
  BY <1>4, <1>6, <1>7
<1>11. ys \subseteq Int /\ Y[k] \in ys /\ Y[k + 1] \in ys
  BY <1>4, <1>6, <1>8
<1>12. Max(xs) \in xs /\ (\A v \in xs : v <= Max(xs)) /\ Min(xs) \in xs /\ (\A v \in xs : Min(xs) <= v)
  BY <1>4, <1>6, <1>7, MaxOf, MinOf
<1>13. Max(ys) \in ys /\ (\A v \in ys : v <= Max(ys)) /\ Min(ys) \in ys /\ (\A v \in ys : Min(ys) <= v)
  BY <1>4, <1>6, <1>8, MaxOf, MinOf
<1>14. x \in Min(xs)..Max(xs)
  <2> DEFINE lo == Min(xs)
             hi == Max(xs)
             a == X[k]
             b == X[k + 1]
  <2>1. a \in Int /\ b \in Int /\ lo \in Int /\ hi \in Int
    BY <1>10, <1>12
  <2>2. lo <= a /\ lo <= b /\ a <= hi /\ b <= hi
    BY <1>10, <1>12
  <2>3. Between(a, b, x)
    BY <1>9
  <2>4. x \in lo..hi
    <3> HIDE DEF lo, hi, a, b
    <3>1. (a <= x /\ x <= b) \/ (b <= x /\ x <= a)
      BY <2>1, <2>3, BetweenMeans
    <3>2. lo <= x /\ x <= hi
      BY <2>1, <2>2, <3>1
    <3> QED BY <2>1, <3>2
  <2> QED BY <2>4
<1>15. y \in Min(ys)..Max(ys)
  <2> DEFINE lo == Min(ys)
             hi == Max(ys)
             a == Y[k]
             b == Y[k + 1]
  <2>1. a \in Int /\ b \in Int /\ lo \in Int /\ hi \in Int
    BY <1>11, <1>13
  <2>2. lo <= a /\ lo <= b /\ a <= hi /\ b <= hi
    BY <1>11, <1>13
  <2>3. Between(a, b, y)
    BY <1>9
  <2>4. y \in lo..hi
    <3> HIDE DEF lo, hi, a, b
    <3>1. (a <= y /\ y <= b) \/ (b <= y /\ y <= a)
      BY <2>1, <2>3, BetweenMeans
    <3>2. lo <= y /\ y <= hi
      BY <2>1, <2>2, <3>1
    <3> QED BY <2>1, <3>2
  <2> QED BY <2>4
<1> QED BY <1>2, <1>14, <1>15

-----------------------------------------------------------------------------
(* What the inputs hold                                                      *)

Point == Nat \X Nat

Feature == [layer : {"road", "area"}, minZoom : Nat, line : Seq(Point)]

LEMMA FilesAre ==
  ASSUME inputs \in Inputs
  PROVE  /\ DOMAIN inputs = 1..Len(inputs) /\ Len(inputs) \in Nat
         /\ \A i \in DOMAIN inputs : IsFile(inputs[i])
BY GeneratorAssumption

LEMMA PositionType ==
  ASSUME inputs \in Inputs, NEW k, Holding(inputs, k) # {}
  PROVE  Max(Holding(inputs, k)) \in Holding(inputs, k) /\ Position(inputs, k) \in Point
<1>1. Holding(inputs, k) \in SUBSET (1..Len(inputs)) /\ Len(inputs) \in Nat
  BY FilesAre DEF Holding
<1>2. Max(Holding(inputs, k)) \in Holding(inputs, k)
  BY <1>1, MaxBelow
<1> DEFINE last == Max(Holding(inputs, k))
<1>3. last \in DOMAIN inputs /\ k \in DOMAIN inputs[last].nodes
  BY <1>2 DEF Holding
<1>4. inputs[last].nodes[k] \in Nat \X Nat
  BY <1>3, FilesAre DEF IsFile
<1> QED BY <1>2, <1>4 DEF Position, Point

LEMMA LineOfType ==
  ASSUME inputs \in Inputs, NEW ids \in Seq(Node)
  PROVE  LineOf(inputs, ids) \in Seq(Point)
<1> DEFINE S == {k \in ToSet(ids) : Holding(inputs, k) # {}}
           known == Kept(ids, S)
<1>1. known \in Seq(Node)
  BY KeptType
<1>2. ASSUME NEW i \in 1..Len(known) PROVE Position(inputs, known[i]) \in Point
  <2>1. known[i] \in S
    BY KeptElements
  <2>2. Holding(inputs, known[i]) # {}
    BY <2>1
  <2> HIDE DEF known
  <2> QED BY <2>2, PositionType
<1>3. LineOf(inputs, ids) = [i \in DOMAIN known |-> Position(inputs, known[i])]
  BY DEF LineOf
<1> HIDE DEF known
<1>4. DOMAIN known = 1..Len(known) /\ Len(known) \in Nat
  BY <1>1
<1> QED BY <1>2, <1>3, <1>4

LEMMA LinesOfType ==
  ASSUME inputs \in Inputs, NEW w \in Way
  PROVE  LinesOf(inputs, w) \in Seq(Feature)
<1> DEFINE line == LineOf(inputs, w.nodes)
           f == [layer |-> w.class, minZoom |-> w.minZoom, line |-> line]
<1>1. w.nodes \in Seq(Node) /\ w.class \in {"road", "area", "none"} /\ w.minZoom \in Nat
  BY DEF Way
<1>2. line \in Seq(Point)
  BY <1>1, LineOfType
<1>3. LinesOf(inputs, w) = <<>> \/ (w.class \in {"road", "area"} /\ LinesOf(inputs, w) = <<f>>)
  BY DEF LinesOf
<1> HIDE DEF line
<1>4. w.class \in {"road", "area"} => f \in Feature
  BY <1>1, <1>2 DEF Feature
<1> HIDE DEF f
<1>5. CASE LinesOf(inputs, w) = <<>>
  BY <1>5
<1>6. CASE w.class \in {"road", "area"} /\ LinesOf(inputs, w) = <<f>>
  <2>1. f \in Feature
    BY <1>4, <1>6
  <2>2. <<f>> \in Seq(Feature)
    BY <2>1
  <2> QED BY <1>6, <2>2
<1> QED BY <1>3, <1>5, <1>6

LEMMA LinesType ==
  ASSUME inputs \in Inputs
  PROVE  Lines(inputs) \in Seq(Feature)
<1> DEFINE all == [i \in DOMAIN inputs |-> FlattenSeq([j \in DOMAIN inputs[i].ways |-> LinesOf(inputs, inputs[i].ways[j])])]
<1>1. ASSUME NEW i \in DOMAIN inputs PROVE all[i] \in Seq(Feature)
  <2> DEFINE ways == inputs[i].ways
             these == [j \in DOMAIN ways |-> LinesOf(inputs, ways[j])]
  <2>1. ways \in Seq(Way)
    BY FilesAre DEF IsFile
  <2> HIDE DEF ways
  <2>2. DOMAIN ways = 1..Len(ways) /\ Len(ways) \in Nat
    BY <2>1
  <2>3. \A j \in DOMAIN ways : LinesOf(inputs, ways[j]) \in Seq(Feature)
    BY <2>1, <2>2, LinesOfType
  <2>4. these \in Seq(Seq(Feature))
    BY <2>2, <2>3
  <2>5. FlattenSeq(these) \in Seq(Feature)
    <3> HIDE DEF these
    <3> QED BY <2>4, FlattenType
  <2> QED BY <2>5 DEF ways
<1>2. DOMAIN inputs = 1..Len(inputs) /\ Len(inputs) \in Nat
  BY FilesAre
<1>3. DOMAIN all = DOMAIN inputs
  OBVIOUS
<1>4. Lines(inputs) = FlattenSeq(all)
  BY DEF Lines
<1>5. all \in Seq(Seq(Feature))
  BY <1>1, <1>2, <1>3
<1> HIDE DEF all
<1> QED BY <1>4, <1>5, FlattenType

-----------------------------------------------------------------------------
(* The passes find what the inputs hold                                      *)

\* What all inputs hold: the nodes wanted, their positions and the features.
AllRefs == UNION {NodesOf(inputs[i]) : i \in DOMAIN inputs}

AllCoords ==
  [k \in {m \in refs : Holding(inputs, m) # {}} |-> inputs[Max(Holding(inputs, k))].nodes[k]]

AllFeatures == FlattenSeq([i \in DOMAIN inputs |-> FeaturesIn(inputs[i])])

LEMMA WayLineIs ==
  ASSUME inputs \in Inputs, refs = AllRefs, coords = AllCoords,
         NEW i \in DOMAIN inputs, NEW j \in DOMAIN inputs[i].ways, Renderable(inputs[i].ways[j])
  PROVE  WayLine(inputs[i].ways[j].nodes) = LineOf(inputs, inputs[i].ways[j].nodes)
<1> DEFINE w == inputs[i].ways[j]
           S == {k \in ToSet(w.nodes) : Holding(inputs, k) # {}}
           known == Kept(w.nodes, S)
<1>1. w.nodes \in Seq(Node)
  <2>1. inputs[i].ways \in Seq(Way)
    BY FilesAre DEF IsFile
  <2>2. w \in Way
    BY <2>1
  <2> HIDE DEF w
  <2> QED BY <2>2 DEF Way
<1>2. ToSet(w.nodes) \subseteq refs
  <2>1. ToSet(w.nodes) \subseteq NodesOf(inputs[i])
    BY DEF NodesOf
  <2> QED BY <2>1 DEF AllRefs
<1>3. DOMAIN coords = {k \in refs : Holding(inputs, k) # {}} /\ \A k \in DOMAIN coords : coords[k] = Position(inputs, k)
  BY DEF AllCoords, Position
<1> HIDE DEF w
<1>4. \A k \in 1..Len(w.nodes) : w.nodes[k] \in DOMAIN coords <=> w.nodes[k] \in S
  <2>1. \A k \in 1..Len(w.nodes) : w.nodes[k] \in ToSet(w.nodes)
    BY <1>1 DEF ToSet
  <2> QED BY <1>2, <1>3, <2>1
<1>5. Kept(w.nodes, DOMAIN coords) = known
  <2> HIDE DEF S
  <2> QED BY <1>1, <1>4, KeptCong
<1>6. \A k \in DOMAIN known : coords[known[k]] = Position(inputs, known[k])
  <2>1. known \in Seq(Node)
    BY <1>1, KeptType
  <2>2. \A k \in 1..Len(known) : known[k] \in S
    BY <1>1, KeptElements
  <2>3. \A k \in 1..Len(known) : known[k] \in DOMAIN coords
    BY <1>2, <1>3, <2>2
  <2> HIDE DEF known
  <2> QED BY <1>3, <2>1, <2>3
<1>7. WayLine(w.nodes) = [k \in DOMAIN known |-> coords[known[k]]]
  BY <1>5 DEF WayLine
<1>8. LineOf(inputs, w.nodes) = [k \in DOMAIN known |-> Position(inputs, known[k])]
  BY DEF LineOf
<1> HIDE DEF known
<1>9. WayLine(w.nodes) = LineOf(inputs, w.nodes)
  BY <1>6, <1>7, <1>8
<1> QED BY <1>9 DEF w

LEMMA FeatureOfIs ==
  ASSUME inputs \in Inputs, refs = AllRefs, coords = AllCoords,
         NEW i \in DOMAIN inputs, NEW j \in DOMAIN inputs[i].ways
  PROVE  FeatureOf(inputs[i].ways[j]) = LinesOf(inputs, inputs[i].ways[j])
<1> DEFINE w == inputs[i].ways[j]
<1>1. CASE w.class = "none"
  <2>1. FeatureOf(w) = LinesOf(inputs, w)
    <3> HIDE DEF w
    <3> QED BY <1>1 DEF FeatureOf, LinesOf
  <2> QED BY <2>1
<1>2. CASE w.class # "none"
  <2>1. WayLine(w.nodes) = LineOf(inputs, w.nodes)
    BY <1>2, WayLineIs DEF Renderable
  <2>2. FeatureOf(w) = LinesOf(inputs, w)
    <3> HIDE DEF w
    <3> QED BY <2>1 DEF FeatureOf, LinesOf, Closed
  <2> QED BY <2>2
<1> QED BY <1>1, <1>2

LEMMA AllFeaturesAre ==
  ASSUME inputs \in Inputs, refs = AllRefs, coords = AllCoords
  PROVE  AllFeatures = Lines(inputs)
<1>1. ASSUME NEW i \in DOMAIN inputs
      PROVE  [j \in DOMAIN inputs[i].ways |-> FeatureOf(inputs[i].ways[j])]
               = [j \in DOMAIN inputs[i].ways |-> LinesOf(inputs, inputs[i].ways[j])]
  BY FeatureOfIs
<1> DEFINE found == [i \in DOMAIN inputs |-> FlattenSeq([j \in DOMAIN inputs[i].ways |-> FeatureOf(inputs[i].ways[j])])]
           all == [i \in DOMAIN inputs |-> FlattenSeq([j \in DOMAIN inputs[i].ways |-> LinesOf(inputs, inputs[i].ways[j])])]
<1>2. found = all
  <2>1. \A i \in DOMAIN inputs : found[i] = all[i]
    BY <1>1
  <2>2. DOMAIN found = DOMAIN inputs /\ DOMAIN all = DOMAIN inputs
    OBVIOUS
  <2> QED BY <2>1
<1> QED BY <1>2 DEF AllFeatures, FeaturesIn, Lines

-----------------------------------------------------------------------------
(* The tiles of a zoom are those expected                                    *)

LEMMA VisibleFacts ==
  ASSUME inputs \in Inputs, features = Lines(inputs)
  PROVE  /\ features \in Seq(Feature) /\ Visible \in Seq(Feature)
         /\ \A i \in 1..Len(Visible) : Visible[i] \in ToSet(features)
         /\ \A i \in 1..Len(features) :
              zoom >= features[i].minZoom => features[i] \in ToSet(Visible)
<1> DEFINE V == {f \in ToSet(features) : zoom >= f.minZoom}
<1>1. features \in Seq(Feature)
  BY LinesType
<1>2. Visible = Kept(features, V)
  BY DEF Visible
<1>3. Visible \in Seq(Feature)
  BY <1>1, <1>2, KeptType
<1>4. /\ \A i \in 1..Len(Visible) : Visible[i] \in V
      /\ \A j \in 1..Len(features) : features[j] \in V => \E i \in 1..Len(Visible) : Visible[i] = features[j]
  <2> HIDE DEF V
  <2> QED BY <1>1, <1>2, KeptElements
<1>5. \A i \in 1..Len(features) : features[i] \in ToSet(features)
  BY <1>1 DEF ToSet
<1>6. ASSUME NEW i \in 1..Len(features), zoom >= features[i].minZoom
      PROVE  features[i] \in ToSet(Visible)
  <2>1. features[i] \in V
    BY <1>5, <1>6
  <2>2. PICK j \in 1..Len(Visible) : Visible[j] = features[i]
    BY <1>4, <2>1
  <2>3. Visible[j] \in ToSet(Visible)
    BY <1>3 DEF ToSet
  <2> QED BY <2>2, <2>3
<1> QED BY <1>1, <1>3, <1>4, <1>6

\* The features of a layer that a tile is given, and those expected in it.
Given(layer, tile) ==
  {f \in ToSet(Visible) : /\ f.layer = layer /\ tile \in BoxTiles(f.line, zoom)
                          /\ Enters(f.line, tile, zoom)}

Due(layer, tile) ==
  {f \in ToSet(Lines(inputs)) : /\ f.layer = layer /\ zoom >= f.minZoom
                        /\ Enters(f.line, tile, zoom)
                        /\ BoxTiles(f.line, zoom) # {}}

LEMMA GivenIsDue ==
  ASSUME inputs \in Inputs, features = Lines(inputs), zoom \in 0..GridZoom,
         NEW layer, NEW x \in Int, NEW y \in Int
  PROVE  Kept(Visible, Given(layer, <<x, y>>)) = Kept(Lines(inputs), Due(layer, <<x, y>>))
<1> DEFINE V == {f \in ToSet(features) : zoom >= f.minZoom}
           A == Given(layer, <<x, y>>)
           D == Due(layer, <<x, y>>)
<1>1. features \in Seq(Feature)
  BY VisibleFacts
<1>2. Kept(Visible, A) = Kept(features, V \cap A)
  <2>1. Visible = Kept(features, V)
    BY DEF Visible
  <2> HIDE DEF V, A
  <2> QED BY <1>1, <2>1, KeptTwice
<1>3. ASSUME NEW i \in 1..Len(features)
      PROVE  features[i] \in V \cap A <=> features[i] \in D
  <2> DEFINE f == features[i]
  <2>1. f \in ToSet(features) /\ f \in ToSet(Lines(inputs)) /\ f.line \in Seq(Nat \X Nat)
    <3>1. f \in Feature
      BY <1>1
    <3>2. f \in ToSet(features)
      BY <1>1 DEF ToSet
    <3> QED BY <3>1, <3>2 DEF Feature, Point
  <2>2. zoom >= f.minZoom => f \in ToSet(Visible)
    BY VisibleFacts
  <2>3. Enters(f.line, <<x, y>>, zoom) /\ BoxTiles(f.line, zoom) # {} => <<x, y>> \in BoxTiles(f.line, zoom)
    <3> HIDE DEF f
    <3> QED BY <2>1, EntersBox
  <2>4. <<x, y>> \in BoxTiles(f.line, zoom) => BoxTiles(f.line, zoom) # {}
    OBVIOUS
  <2> HIDE DEF f
  <2>5. f \in V \cap A <=> f \in D
    BY <2>1, <2>2, <2>3, <2>4 DEF Given, Due
  <2> QED BY <2>5 DEF f
<1>4. Kept(features, V \cap A) = Kept(features, D)
  <2> HIDE DEF V, A, D
  <2> QED BY <1>1, <1>3, KeptCong
<1> QED BY <1>2, <1>4

LEMMA EncodedIs ==
  ASSUME inputs \in Inputs, features = Lines(inputs), zoom \in 0..GridZoom,
         NEW x \in Int, NEW row \in Int
  PROVE  Encoded(<<x, Side(zoom) - 1 - row>>) = ExpectedIn(inputs, zoom, x, row)
<1> DEFINE tile == <<x, Side(zoom) - 1 - row>>
<1>1. Side(zoom) - 1 - row \in Int
  <2>1. Side(zoom) \in Nat \ {0}
    BY SideFacts, GeneratorAssumption
  <2> QED BY <2>1
<1>2. \A layer : Kept(Visible, Given(layer, tile)) = Kept(Lines(inputs), Due(layer, tile))
  BY <1>1, GivenIsDue
<1>3. Encoded(tile) = Kept(Visible, Given("area", tile)) \o Kept(Visible, Given("road", tile))
  BY DEF Encoded, Given
<1>4. ExpectedIn(inputs, zoom, x, row) = Kept(Lines(inputs), Due("area", tile)) \o Kept(Lines(inputs), Due("road", tile))
  BY DEF ExpectedIn, Due
<1> HIDE DEF tile
<1>5. Encoded(tile) = ExpectedIn(inputs, zoom, x, row)
  BY <1>2, <1>3, <1>4, SMTT(30)
<1> QED BY <1>5 DEF tile

LEMMA GivenInBox ==
  ASSUME inputs \in Inputs, features = Lines(inputs), NEW layer, NEW tile,
         Kept(Visible, Given(layer, tile)) # <<>>
  PROVE  \E i \in DOMAIN Visible : tile \in BoxTiles(Visible[i].line, zoom)
<1> DEFINE A == Given(layer, tile)
           k == Kept(Visible, A)
<1>1. Visible \in Seq(Feature)
  BY VisibleFacts
<1>2. k \in Seq(Feature)
  BY <1>1, KeptType
<1>3. \A i \in 1..Len(k) : k[i] \in A /\ \E j \in 1..Len(Visible) : k[i] = Visible[j]
  <2> HIDE DEF A
  <2> QED BY <1>1, KeptElements
<1>4. k # <<>>
  OBVIOUS
<1> HIDE DEF k
<1>5. 1 \in 1..Len(k)
  BY <1>2, <1>4
<1>6. PICK j \in 1..Len(Visible) : Visible[j] \in A
  BY <1>3, <1>5
<1> QED BY <1>1, <1>6 DEF Given

LEMMA EncodedInBox ==
  ASSUME inputs \in Inputs, features = Lines(inputs), NEW tile, Encoded(tile) # <<>>
  PROVE  \E i \in DOMAIN Visible : tile \in BoxTiles(Visible[i].line, zoom)
<1> DEFINE area == Kept(Visible, Given("area", tile))
           road == Kept(Visible, Given("road", tile))
<1>1. Encoded(tile) = area \o road
  BY DEF Encoded, Given
<1>2. area # <<>> \/ road # <<>>
  <2> HIDE DEF area, road
  <2> QED BY <1>1
<1> QED BY <1>2, GivenInBox

LEMMA SortedTilesFacts ==
  ASSUME inputs \in Inputs, features = Lines(inputs), zoom \in 0..GridZoom
  PROVE  /\ SortedTiles \in Seq(Grid(zoom))
         /\ \A i, j \in 1..Len(SortedTiles) : i < j => TileBefore(SortedTiles[i], SortedTiles[j])
         /\ \A t \in Grid(zoom) : Encoded(t) # <<>> => \E i \in 1..Len(SortedTiles) : SortedTiles[i] = t
<1> DEFINE S == UNION {BoxTiles(Visible[i].line, zoom) : i \in DOMAIN Visible}
           c == Columnwise(zoom)
           ts == Kept(c, S)
<1>1. SortedTiles = ts
  BY DEF SortedTiles
<1>2. zoom \in Nat
  BY GeneratorAssumption
<1>3. /\ c \in Seq(Grid(zoom))
      /\ \A i, j \in 1..Len(c) : i < j => TileBefore(c[i], c[j])
      /\ \A t \in Grid(zoom) : \E i \in 1..Len(c) : c[i] = t
  BY <1>2, ColumnwiseFacts
<1>4. \A t : Encoded(t) # <<>> => t \in S
  BY EncodedInBox
<1> HIDE DEF S, c
<1>5. ts \in Seq(Grid(zoom))
  BY <1>3, KeptType
<1>6. PICK g : Selects(g, ts, c, Len(c), S)
  BY <1>3, KeptSelects
<1> HIDE DEF ts
<1>7. \A i, j \in 1..Len(ts) : i < j => TileBefore(ts[i], ts[j])
  <2>1. \A i \in 1..Len(ts) : g[i] \in 1..Len(c) /\ ts[i] = c[g[i]]
    BY <1>6 DEF Selects
  <2>2. \A i, j \in 1..Len(ts) : i < j => g[i] < g[j]
    BY <1>6 DEF Selects
  <2> QED BY <1>3, <2>1, <2>2
<1>8. ASSUME NEW t \in Grid(zoom), Encoded(t) # <<>>
      PROVE  \E i \in 1..Len(ts) : ts[i] = t
  <2>1. PICK j \in 1..Len(c) : c[j] = t
    BY <1>3
  <2>2. c[j] \in S
    BY <1>4, <1>8, <2>1
  <2>3. PICK i \in 1..Len(ts) : g[i] = j
    BY <1>6, <2>2 DEF Selects
  <2> QED BY <1>6, <2>1, <2>3 DEF Selects
<1> QED BY <1>1, <1>5, <1>7, <1>8

RecordOf(tile) == Record(tile, Encoded(tile))

\* The zoom as it is to be written.
AllWritten ==
  LET records == [i \in DOMAIN tiles |-> RecordOf(tiles[i])]
  IN  Kept(records, {r \in ToSet(records) : r.content # <<>>})

LEMMA RecordIs ==
  ASSUME inputs \in Inputs, features = Lines(inputs), zoom \in 0..GridZoom, NEW t \in Grid(zoom)
  PROVE  LET row == Side(zoom) - 1 - t[2]
         IN  /\ <<t[1], row>> \in Grid(zoom) /\ row \in Int
             /\ RecordOf(t) = [z |-> zoom, x |-> t[1], row |-> row, content |-> ExpectedIn(inputs, zoom, t[1], row)]
             /\ RecordOf(t).content = Encoded(t)
<1> DEFINE side == Side(zoom)
           row == side - 1 - t[2]
<1>1. side \in Nat \ {0}
  BY SideFacts, GeneratorAssumption
<1>2. t = <<t[1], t[2]>> /\ t[1] \in 0..(side - 1) /\ t[2] \in 0..(side - 1)
  BY DEF Grid
<1>3. Grid(zoom) = (0..(side - 1)) \X (0..(side - 1))
  BY DEF Grid
<1>4. RecordOf(t) = [z |-> zoom, x |-> t[1], row |-> row, content |-> Encoded(t)]
  BY DEF Record, RecordOf
<1> HIDE DEF side
<1>5. row \in 0..(side - 1) /\ t[1] \in Int /\ row \in Int /\ side - 1 - row = t[2]
  BY <1>1, <1>2
<1>6. Encoded(t) = ExpectedIn(inputs, zoom, t[1], row)
  <2>1. Encoded(<<t[1], side - 1 - row>>) = ExpectedIn(inputs, zoom, t[1], row)
    <3> HIDE DEF row
    <3> QED BY <1>5, EncodedIs DEF side
  <2> QED BY <1>2, <1>5, <2>1
<1>7. <<t[1], row>> \in Grid(zoom)
  BY <1>2, <1>3, <1>5
<1> QED BY <1>4, <1>5, <1>6, <1>7 DEF side

LEMMA AllWrittenFacts ==
  ASSUME inputs \in Inputs, features = Lines(inputs), zoom \in 0..GridZoom, tiles = SortedTiles
  PROVE  /\ AllWritten \in Seq(Expected(inputs, zoom))
         /\ \A i, j \in 1..Len(AllWritten) : i < j => Before(AllWritten[i], AllWritten[j])
         /\ \A r \in Expected(inputs, zoom) : \E i \in 1..Len(AllWritten) : AllWritten[i] = r
<1> DEFINE R == {RecordOf(t) : t \in Grid(zoom)}
           records == [i \in DOMAIN tiles |-> RecordOf(tiles[i])]
           C == {r \in ToSet(records) : r.content # <<>>}
           w == Kept(records, C)
<1>1. /\ tiles \in Seq(Grid(zoom)) /\ DOMAIN tiles = 1..Len(tiles) /\ Len(tiles) \in Nat
      /\ \A i, j \in 1..Len(tiles) : i < j => TileBefore(tiles[i], tiles[j])
      /\ \A t \in Grid(zoom) : Encoded(t) # <<>> => \E i \in 1..Len(tiles) : tiles[i] = t
  BY SortedTilesFacts
<1>2. \A i \in 1..Len(tiles) : tiles[i] \in Grid(zoom) /\ records[i] = RecordOf(tiles[i])
  BY <1>1
<1>3. AllWritten = w
  BY DEF AllWritten
<1>4. records \in Seq(R) /\ Len(records) = Len(tiles)
  <2>1. \A i \in 1..Len(tiles) : RecordOf(tiles[i]) \in R
    BY <1>2
  <2> HIDE DEF R
  <2> QED BY <1>1, <2>1
<1> HIDE DEF records
<1>5. \A i \in 1..Len(records) : records[i] \in C <=> records[i].content # <<>>
  BY <1>4 DEF ToSet
<1> HIDE DEF R, C
<1>6. PICK g : Selects(g, w, records, Len(records), C)
  BY <1>4, KeptSelects
<1>7. w \in Seq(R)
  BY <1>4, KeptType
<1> HIDE DEF w
<1>8. \A i \in 1..Len(w) : /\ g[i] \in 1..Len(tiles) /\ w[i] = RecordOf(tiles[g[i]])
                           /\ w[i].content # <<>>
  BY <1>2, <1>4, <1>5, <1>6 DEF Selects
<1>9. \A i \in 1..Len(w) : w[i] \in Expected(inputs, zoom)
  <2> TAKE i \in 1..Len(w)
  <2> DEFINE t == tiles[g[i]]
             row == Side(zoom) - 1 - t[2]
  <2>1. t \in Grid(zoom) /\ w[i] = RecordOf(t) /\ w[i].content # <<>>
    BY <1>2, <1>8
  <2>2. /\ <<t[1], row>> \in Grid(zoom)
        /\ RecordOf(t) = [z |-> zoom, x |-> t[1], row |-> row, content |-> ExpectedIn(inputs, zoom, t[1], row)]
    <3> HIDE DEF t
    <3> QED BY <2>1, RecordIs
  <2> DEFINE u == <<t[1], row>>
  <2>3. w[i] = [z |-> zoom, x |-> u[1], row |-> u[2], content |-> ExpectedIn(inputs, zoom, u[1], u[2])] /\ u \in Grid(zoom)
    BY <2>1, <2>2
  <2> HIDE DEF u
  <2> QED BY <2>1, <2>3 DEF Expected
<1>10. w \in Seq(Expected(inputs, zoom))
  BY <1>7, <1>9
<1>11. ASSUME NEW i \in 1..Len(w), NEW j \in 1..Len(w), i < j PROVE Before(w[i], w[j])
  <2> DEFINE s == tiles[g[i]]
             t == tiles[g[j]]
             rs == Side(zoom) - 1 - s[2]
             rt == Side(zoom) - 1 - t[2]
  <2>1. g[i] < g[j] /\ g[i] \in 1..Len(tiles) /\ g[j] \in 1..Len(tiles)
    BY <1>6, <1>8, <1>11 DEF Selects
  <2>2. TileBefore(s, t) /\ s \in Grid(zoom) /\ t \in Grid(zoom) /\ w[i] = RecordOf(s) /\ w[j] = RecordOf(t)
    BY <1>1, <1>2, <1>8, <2>1
  <2> HIDE DEF s, t
  <2>3. RecordOf(s) = [z |-> zoom, x |-> s[1], row |-> rs, content |-> ExpectedIn(inputs, zoom, s[1], rs)]
    BY <2>2, RecordIs
  <2>4. RecordOf(t) = [z |-> zoom, x |-> t[1], row |-> rt, content |-> ExpectedIn(inputs, zoom, t[1], rt)]
    BY <2>2, RecordIs
  <2>5. s[2] \in Int /\ t[2] \in Int /\ Side(zoom) \in Int
    BY <2>2, SideFacts, GeneratorAssumption DEF Grid
  <2>6. s[2] < t[2] => rs > rt
    BY <2>5
  <2>7. /\ w[i].z = zoom /\ w[i].x = s[1] /\ w[i].row = rs
        /\ w[j].z = zoom /\ w[j].x = t[1] /\ w[j].row = rt
    BY <2>2, <2>3, <2>4
  <2> HIDE DEF rs, rt
  <2> QED BY <2>2, <2>6, <2>7 DEF TileBefore, Before
<1>12. ASSUME NEW r \in Expected(inputs, zoom) PROVE \E i \in 1..Len(w) : w[i] = r
  <2>1. PICK u \in Grid(zoom) :
          /\ r = [z |-> zoom, x |-> u[1], row |-> u[2], content |-> ExpectedIn(inputs, zoom, u[1], u[2])]
          /\ r.content # <<>>
    BY DEF Expected
  <2> DEFINE side == Side(zoom)
             t == <<u[1], side - 1 - u[2]>>
  <2>2. side \in Nat \ {0}
    BY SideFacts, GeneratorAssumption
  <2>3. Grid(zoom) = (0..(side - 1)) \X (0..(side - 1))
    BY DEF Grid
  <2> HIDE DEF side
  <2>4. t \in Grid(zoom) /\ t[1] = u[1] /\ side - 1 - t[2] = u[2]
    BY <2>2, <2>3
  <2> HIDE DEF t
  <2>5. RecordOf(t) = r /\ RecordOf(t).content = Encoded(t)
    BY <2>1, <2>4, RecordIs DEF side
  <2>6. PICK k \in 1..Len(tiles) : tiles[k] = t
    BY <1>1, <2>1, <2>4, <2>5
  <2>7. k \in 1..Len(records) /\ records[k] = r /\ records[k] \in C
    BY <1>2, <1>4, <1>5, <2>1, <2>5, <2>6
  <2>8. PICK i \in 1..Len(w) : g[i] = k
    BY <1>6, <2>7 DEF Selects
  <2>9. w[i] = records[g[i]]
    BY <1>6 DEF Selects
  <2> QED BY <2>7, <2>8, <2>9
<1> QED BY <1>3, <1>10, <1>11, <1>12

-----------------------------------------------------------------------------
(* The pool                                                                  *)

Outcome == {"idle", "running", "ok", "failed", "canceled"}

\* The goroutines are started in the order of their slots.
PoolInv ==
  /\ worker \in Seq(Outcome) /\ launched \in 0..Len(worker)
  /\ \A i \in DOMAIN worker : i > launched <=> worker[i] = "idle"

LEMMA IdleType ==
  ASSUME NEW k \in Nat
  PROVE  /\ Idle(k) \in Seq(Outcome) /\ Len(Idle(k)) = k
         /\ \A i \in DOMAIN Idle(k) : Idle(k)[i] = "idle"
BY DEF Idle, Outcome

\* A new pool is idle.
LEMMA NewPoolInv ==
  ASSUME NEW k \in Nat, NewPool(k)
  PROVE  PoolInv'
BY IdleType DEF NewPool, PoolInv

\* One goroutine ends.
LEMMA EndKeepsPool ==
  ASSUME PoolInv, NEW i \in DOMAIN worker, worker[i] = "running", launched' = launched,
         NEW o \in Outcome \ {"idle"}, worker' = [worker EXCEPT ![i] = o]
  PROVE  /\ PoolInv' /\ DOMAIN worker' = DOMAIN worker /\ worker'[i] = o
         /\ \A j \in DOMAIN worker : worker[j] = "failed" => worker'[j] = "failed"
<1>1. worker \in Seq(Outcome) /\ launched \in 0..Len(worker)
  BY DEF PoolInv
<1>2. /\ worker' \in Seq(Outcome) /\ Len(worker') = Len(worker) /\ DOMAIN worker' = DOMAIN worker
      /\ worker'[i] = o /\ \A j \in DOMAIN worker : j # i => worker'[j] = worker[j]
  BY <1>1
<1>3. ~(i > launched)
  BY DEF PoolInv
<1> QED BY <1>1, <1>2, <1>3 DEF PoolInv

LEMMA LaunchKeepsPool ==
  ASSUME PoolInv, Launch
  PROVE  /\ PoolInv' /\ DOMAIN worker' = DOMAIN worker
         /\ \A j \in DOMAIN worker : worker[j] = "failed" => worker'[j] = "failed"
<1>1. worker \in Seq(Outcome) /\ launched \in 0..Len(worker)
  BY DEF PoolInv
<1> DEFINE i == launched + 1
<1>2. launched < Len(worker) /\ launched' = i /\ worker' = [worker EXCEPT ![i] = "running"]
  BY DEF Launch
<1>3. i \in DOMAIN worker /\ worker[i] = "idle"
  BY <1>1, <1>2 DEF PoolInv
<1>4. /\ worker' \in Seq(Outcome) /\ Len(worker') = Len(worker) /\ DOMAIN worker' = DOMAIN worker
      /\ \A j \in DOMAIN worker : j # i => worker'[j] = worker[j]
  BY <1>1, <1>2, <1>3 DEF Outcome
<1>5. \A j \in DOMAIN worker : j > i => j > launched /\ j # i
  BY <1>1
<1> QED BY <1>1, <1>2, <1>3, <1>4, <1>5 DEF PoolInv

-----------------------------------------------------------------------------
(* The stream                                                                *)

LEMMA AllRefsSame ==
  ASSUME inputs' = inputs
  PROVE  AllRefs' = AllRefs
BY DEF AllRefs

LEMMA AllCoordsSame ==
  ASSUME inputs' = inputs, refs' = refs
  PROVE  AllCoords' = AllCoords
BY DEF AllCoords

LEMMA SortedTilesSame ==
  ASSUME zoom' = zoom, features' = features
  PROVE  SortedTiles' = SortedTiles
BY DEF SortedTiles, Visible

TileRecord == [z : Nat, x : Int, row : Int, content : Seq(Feature)]

\* What is written, once the zooms below the current one are.
StreamInv ==
  /\ stream \in Seq(TileRecord) /\ zoom \in MinZoom..(MaxZoom + 1)
  /\ \A i \in 1..Len(stream) : stream[i].z < zoom /\ stream[i] \in Expected(inputs, stream[i].z) /\ stream[i].z >= MinZoom
  /\ \A i, j \in 1..Len(stream) : i < j => Before(stream[i], stream[j])
  /\ \A z \in MinZoom..(zoom - 1) : \A r \in Expected(inputs, z) : \E i \in 1..Len(stream) : stream[i] = r

\* What the passes have merged, when the next one needs it.
PassInv ==
  /\ inputs \in Inputs
  /\ pass \in {"coords", "features"} => refs = AllRefs
  /\ pass = "features" => coords = AllCoords
  /\ pass \in {"build", "encode", "done"} => features = Lines(inputs)
  /\ pass = "encode" => zoom <= MaxZoom /\ tiles = SortedTiles
  /\ pass = "done" => zoom = MaxZoom + 1

\* What the goroutines that have ended well have left in their slots.
SlotInv ==
  /\ slots = [i \in DOMAIN worker |-> slots[i]]
  /\ Scanning => /\ DOMAIN worker = DOMAIN inputs
                 /\ \A i \in DOMAIN worker : worker[i] = "ok" => slots[i] = Found(inputs[i])
  /\ pass = "encode" => /\ DOMAIN worker = DOMAIN tiles
                        /\ \A i \in DOMAIN worker : worker[i] = "ok" => slots[i] = Encoded(tiles[i])

\* After the wait, and without an error, every slot is filled.
LEMMA AllAreWell ==
  ASSUME PoolInv, AllEnded, AllWell
  PROVE  \A i \in DOMAIN worker : worker[i] = "ok"
<1> SUFFICES ASSUME NEW i \in DOMAIN worker PROVE worker[i] = "ok"
  OBVIOUS
<1>1. worker[i] \in Outcome /\ worker[i] \notin {"running", "failed", "canceled"}
  BY DEF PoolInv, AllEnded, AllWell, Running
<1>2. ~(i > launched)
  BY DEF PoolInv, AllEnded
<1>3. worker[i] # "idle"
  BY <1>2 DEF PoolInv
<1> QED BY <1>1, <1>3 DEF Outcome

LEMMA SlotsAre ==
  ASSUME PoolInv, SlotInv, AllEnded, AllWell, Scanning
  PROVE  slots = [i \in DOMAIN inputs |-> Found(inputs[i])]
BY AllAreWell DEF SlotInv

LEMMA MergedRefsAre ==
  ASSUME PoolInv, SlotInv, AllEnded, AllWell, pass = "refs"
  PROVE  MergedRefs = AllRefs
<1>1. slots = [i \in DOMAIN inputs |-> Found(inputs[i])]
  BY SlotsAre DEF Scanning
<1>2. \A i \in DOMAIN inputs : Found(inputs[i]) = NodesOf(inputs[i])
  BY DEF Found
<1> QED BY <1>1, <1>2 DEF MergedRefs, AllRefs

LEMMA MergedCoordsAre ==
  ASSUME inputs \in Inputs, PoolInv, SlotInv, AllEnded, AllWell, pass = "coords"
  PROVE  MergedCoords = AllCoords
<1>1. slots = [i \in DOMAIN inputs |-> Found(inputs[i])]
  BY SlotsAre DEF Scanning
<1>2. \A i \in DOMAIN inputs : Found(inputs[i]) = PositionsIn(inputs[i])
  BY DEF Found
<1>3. /\ DOMAIN slots = DOMAIN inputs
      /\ \A i \in DOMAIN inputs :
           /\ DOMAIN slots[i] = DOMAIN inputs[i].nodes \cap refs
           /\ \A k \in DOMAIN slots[i] : slots[i][k] = inputs[i].nodes[k]
  BY <1>1, <1>2 DEF PositionsIn
<1>4. \A k \in refs : SlotsWith(k) = Holding(inputs, k)
  BY <1>3 DEF SlotsWith, Holding
<1>5. UNION {DOMAIN slots[i] : i \in DOMAIN slots} = {m \in refs : Holding(inputs, m) # {}}
  BY <1>3 DEF Holding
<1>6. ASSUME NEW k \in refs, Holding(inputs, k) # {}
      PROVE  slots[Max(SlotsWith(k))][k] = inputs[Max(Holding(inputs, k))].nodes[k]
  <2> DEFINE last == Max(Holding(inputs, k))
  <2>1. last \in Holding(inputs, k)
    BY <1>6, PositionType
  <2>2. last \in DOMAIN inputs /\ k \in DOMAIN inputs[last].nodes
    BY <2>1 DEF Holding
  <2>3. SlotsWith(k) = Holding(inputs, k)
    BY <1>4
  <2> HIDE DEF last
  <2>4. slots[last][k] = inputs[last].nodes[k]
    BY <1>3, <2>2
  <2> QED BY <2>3, <2>4 DEF last
<1> QED BY <1>5, <1>6 DEF MergedCoords, AllCoords

LEMMA MergedFeaturesAre ==
  ASSUME PoolInv, SlotInv, AllEnded, AllWell, pass = "features"
  PROVE  MergedFeatures = AllFeatures
<1>1. slots = [i \in DOMAIN inputs |-> Found(inputs[i])]
  BY SlotsAre DEF Scanning
<1>2. \A i \in DOMAIN inputs : Found(inputs[i]) = FeaturesIn(inputs[i])
  BY DEF Found
<1>3. slots = [i \in DOMAIN inputs |-> FeaturesIn(inputs[i])]
  BY <1>1, <1>2
<1> QED BY <1>3 DEF MergedFeatures, AllFeatures

LEMMA WrittenIs ==
  ASSUME PoolInv, SlotInv, AllEnded, AllWell, pass = "encode"
  PROVE  Written = AllWritten
<1>1. \A i \in DOMAIN tiles : slots[i] = Encoded(tiles[i])
  BY AllAreWell DEF SlotInv
<1>2. [i \in DOMAIN tiles |-> Record(tiles[i], slots[i])] = [i \in DOMAIN tiles |-> RecordOf(tiles[i])]
  BY <1>1 DEF RecordOf
<1> QED BY <1>2 DEF Written, AllWritten

LEMMA ExpectedType ==
  ASSUME inputs \in Inputs, NEW z \in Nat, NEW r \in Expected(inputs, z)
  PROVE  r \in TileRecord /\ r.z = z
<1>1. PICK t \in Grid(z) : r = [z |-> z, x |-> t[1], row |-> t[2], content |-> ExpectedIn(inputs, z, t[1], t[2])]
  BY DEF Expected
<1>2. t[1] \in Int /\ t[2] \in Int
  BY SideFacts DEF Grid
<1>3. ASSUME NEW x, NEW row PROVE ExpectedIn(inputs, z, x, row) \in Seq(Feature)
  <2> DEFINE lines == Lines(inputs)
             tile == <<x, Side(z) - 1 - row>>
             in(layer) == Kept(lines, {f \in ToSet(lines) : /\ f.layer = layer /\ z >= f.minZoom
                                                            /\ Enters(f.line, tile, z)
                                                            /\ BoxTiles(f.line, z) # {}})
  <2>1. lines \in Seq(Feature)
    BY LinesType
  <2>2. ExpectedIn(inputs, z, x, row) = in("area") \o in("road")
    BY DEF ExpectedIn
  <2> HIDE DEF lines
  <2>3. \A layer : in(layer) \in Seq(Feature)
    BY <2>1, KeptType
  <2> HIDE DEF in
  <2>4. in("area") \in Seq(Feature) /\ in("road") \in Seq(Feature)
    BY <2>3
  <2> QED BY <2>2, <2>4
<1> QED BY <1>1, <1>2, <1>3 DEF TileRecord

LEMMA WriteZoomKeepsStream ==
  ASSUME PassInv, StreamInv, PoolInv, SlotInv, WriteZoom
  PROVE  StreamInv'
<1> DEFINE E(z) == Expected(inputs, z)
           w == AllWritten
           N == Len(stream)
<1>1. /\ stream' = stream \o w /\ zoom' = zoom + 1 /\ inputs' = inputs
      /\ pass = "encode"
  BY WrittenIs DEF WriteZoom
<1>2. /\ inputs \in Inputs /\ features = Lines(inputs) /\ tiles = SortedTiles
      /\ zoom \in MinZoom..MaxZoom /\ zoom \in Nat /\ zoom \in 0..GridZoom
  BY <1>1, GeneratorAssumption DEF PassInv, StreamInv
<1>3. /\ w \in Seq(E(zoom))
      /\ \A i, j \in 1..Len(w) : i < j => Before(w[i], w[j])
      /\ \A r \in E(zoom) : \E i \in 1..Len(w) : w[i] = r
  BY <1>2, AllWrittenFacts
<1>4. \A r \in E(zoom) : r \in TileRecord /\ r.z = zoom
  BY <1>2, ExpectedType
<1>5. /\ stream \in Seq(TileRecord)
      /\ \A i \in 1..N : stream[i].z < zoom /\ stream[i] \in E(stream[i].z) /\ stream[i].z >= MinZoom
      /\ \A i, j \in 1..N : i < j => Before(stream[i], stream[j])
      /\ \A z \in MinZoom..(zoom - 1) : \A r \in E(z) : \E i \in 1..N : stream[i] = r
  BY DEF StreamInv
<1> HIDE DEF E, w
<1>6. w \in Seq(TileRecord) /\ \A i \in 1..Len(w) : w[i] \in E(zoom) /\ w[i].z = zoom
  BY <1>3, <1>4
<1> DEFINE s == stream \o w
<1>7. /\ s \in Seq(TileRecord) /\ Len(s) = N + Len(w) /\ N \in Nat /\ Len(w) \in Nat
      /\ \A i \in 1..N : i \in 1..Len(s) /\ s[i] = stream[i]
      /\ \A i \in 1..Len(w) : N + i \in 1..Len(s) /\ s[N + i] = w[i]
  BY <1>5, <1>6
<1> HIDE DEF s, N
<1>8. \A i \in 1..Len(s) : i \in 1..N \/ (i - N \in 1..Len(w) /\ i = N + (i - N))
  BY <1>7
<1>9. \A i \in 1..Len(s) : \/ i \in 1..N /\ s[i] = stream[i]
                           \/ i - N \in 1..Len(w) /\ s[i] = w[i - N]
  BY <1>7, <1>8
<1>10. \A i \in 1..N : stream[i].z \in Nat
  <2>1. \A i \in 1..N : stream[i] \in TileRecord
    BY <1>5 DEF N
  <2> QED BY <2>1 DEF TileRecord
<1>11. ASSUME NEW i \in 1..Len(s)
       PROVE  s[i].z < zoom + 1 /\ s[i] \in E(s[i].z) /\ s[i].z >= MinZoom
  <2>1. CASE i \in 1..N /\ s[i] = stream[i]
    BY <1>2, <1>5, <1>10, <2>1
  <2>2. CASE i - N \in 1..Len(w) /\ s[i] = w[i - N]
    BY <1>2, <1>6, <2>2
  <2> QED BY <1>9, <2>1, <2>2
<1>12. ASSUME NEW i \in 1..Len(s), NEW j \in 1..Len(s), i < j PROVE Before(s[i], s[j])
  <2>1. CASE i \in 1..N /\ j \in 1..N
    BY <1>5, <1>7, <1>12, <2>1
  <2>2. CASE i \in 1..N /\ j - N \in 1..Len(w)
    <3>1. s[i].z < zoom /\ s[j].z = zoom
      BY <1>5, <1>6, <1>7, <1>9, <2>2
    <3> QED BY <3>1 DEF Before
  <2>3. CASE i - N \in 1..Len(w) /\ j - N \in 1..Len(w)
    <3>1. s[i] = w[i - N] /\ s[j] = w[j - N] /\ i - N < j - N
      BY <1>7, <1>12, <2>3
    <3> QED BY <1>3, <2>3, <3>1
  <2>4. i \in 1..N \/ ~(j \in 1..N)
    BY <1>7, <1>12
  <2> QED BY <1>8, <2>1, <2>2, <2>3, <2>4
<1>13. ASSUME NEW z \in MinZoom..((zoom + 1) - 1), NEW r \in E(z) PROVE \E i \in 1..Len(s) : s[i] = r
  <2>1. CASE z = zoom
    <3>1. PICK i \in 1..Len(w) : w[i] = r
      BY <1>3, <1>13, <2>1
    <3> QED BY <1>7, <3>1
  <2>2. CASE z # zoom
    <3>1. z \in MinZoom..(zoom - 1)
      BY <1>2, <2>2
    <3>2. PICK i \in 1..N : stream[i] = r
      BY <1>5, <3>1
    <3> QED BY <1>7, <3>2
  <2> QED BY <2>1, <2>2
<1>14. stream' = s /\ zoom' = zoom + 1 /\ zoom + 1 \in MinZoom..(MaxZoom + 1)
  BY <1>1, <1>2, GeneratorAssumption DEF s
<1>15. /\ s \in Seq(TileRecord) /\ zoom + 1 \in MinZoom..(MaxZoom + 1)
       /\ \A i \in 1..Len(s) : s[i].z < zoom + 1 /\ s[i] \in Expected(inputs, s[i].z) /\ s[i].z >= MinZoom
       /\ \A i, j \in 1..Len(s) : i < j => Before(s[i], s[j])
       /\ \A z \in MinZoom..((zoom + 1) - 1) : \A r \in Expected(inputs, z) : \E i \in 1..Len(s) : s[i] = r
  BY <1>7, <1>11, <1>12, <1>13, <1>14 DEF E
<1> QED BY <1>1, <1>14, <1>15 DEF StreamInv

\* The steps that leave alone what is merged and written.
Quiet ==
  /\ UNCHANGED <<inputs, dataVars, zoom, tiles, stream>>
  /\ \/ pass' \in {pass, "failed"}
     \/ pass = "build" /\ zoom > MaxZoom /\ pass' = "done"

LEMMA QuietKeeps ==
  ASSUME PassInv, StreamInv, Quiet
  PROVE  PassInv' /\ StreamInv'
<1>1. inputs' = inputs /\ refs' = refs /\ coords' = coords /\ features' = features
      /\ zoom' = zoom /\ tiles' = tiles /\ stream' = stream
  BY DEF Quiet, dataVars
<1>2. StreamInv'
  BY <1>1 DEF StreamInv
<1>3. AllRefs' = AllRefs /\ AllCoords' = AllCoords /\ SortedTiles' = SortedTiles
  BY <1>1, AllRefsSame, AllCoordsSame, SortedTilesSame
<1>4. CASE pass' \in {pass, "failed"}
  <2>1. pass' = pass \/ pass' = "failed"
    BY <1>4
  <2> QED BY <1>1, <1>2, <1>3, <2>1 DEF PassInv
<1>5. CASE pass = "build" /\ zoom > MaxZoom /\ pass' = "done"
  <2>1. zoom = MaxZoom + 1
    BY <1>5, GeneratorAssumption DEF StreamInv
  <2> QED BY <1>1, <1>2, <1>5, <2>1 DEF PassInv
<1> QED BY <1>4, <1>5 DEF Quiet

LEMMA DataInvInit == GeneratorInit => PassInv /\ StreamInv
<1> SUFFICES ASSUME GeneratorInit PROVE PassInv /\ StreamInv
  OBVIOUS
<1>1. inputs \in Inputs /\ pass = "refs" /\ stream = <<>> /\ zoom = MinZoom
  BY DEF GeneratorInit
<1>2. StreamInv
  <2>1. MinZoom \in MinZoom..(MaxZoom + 1) /\ MinZoom..(MinZoom - 1) = {}
    BY GeneratorAssumption
  <2> QED BY <1>1, <2>1 DEF StreamInv
<1>3. PassInv
  BY <1>1 DEF PassInv
<1> QED BY <1>2, <1>3

LEMMA DataInvNext ==
  PassInv /\ StreamInv /\ PoolInv /\ SlotInv /\ [GeneratorNext]_generatorVars => PassInv' /\ StreamInv'
<1> SUFFICES ASSUME PassInv, StreamInv, PoolInv, SlotInv, [GeneratorNext]_generatorVars PROVE PassInv' /\ StreamInv'
  OBVIOUS
<1>1. CASE EndRefs
  <2>1. /\ inputs' = inputs /\ refs' = AllRefs /\ pass' = "coords"
        /\ stream' = stream /\ zoom' = zoom
    BY <1>1, MergedRefsAre DEF EndRefs
  <2>2. refs' = AllRefs'
    BY <2>1, AllRefsSame
  <2>3. StreamInv'
    BY <2>1 DEF StreamInv
  <2>4. PassInv'
    BY <2>1, <2>2 DEF PassInv
  <2> QED BY <2>3, <2>4
<1>2. CASE EndCoords
  <2>1. /\ inputs' = inputs /\ refs' = refs /\ coords' = AllCoords /\ pass' \in {"failed", "features"}
        /\ stream' = stream /\ zoom' = zoom /\ pass = "coords"
    BY <1>2, MergedCoordsAre DEF EndCoords, PassInv
  <2>2. refs' = AllRefs' /\ coords' = AllCoords'
    BY <2>1, AllRefsSame, AllCoordsSame DEF PassInv
  <2>3. StreamInv'
    BY <2>1 DEF StreamInv
  <2>4. PassInv'
    BY <2>1, <2>2 DEF PassInv
  <2> QED BY <2>3, <2>4
<1>3. CASE EndFeatures
  <2>1. /\ inputs' = inputs /\ features' = AllFeatures /\ pass' = "build"
        /\ stream' = stream /\ zoom' = zoom /\ pass = "features"
    BY <1>3, MergedFeaturesAre DEF EndFeatures
  <2>2. features' = Lines(inputs)
    BY <2>1, AllFeaturesAre DEF PassInv
  <2>3. StreamInv'
    BY <2>1 DEF StreamInv
  <2>4. PassInv'
    BY <2>1, <2>2 DEF PassInv
  <2> QED BY <2>3, <2>4
<1>4. CASE BuildZoom
  <2>1. /\ inputs' = inputs /\ features' = features /\ pass' = "encode" /\ tiles' = SortedTiles
        /\ stream' = stream /\ zoom' = zoom /\ pass = "build" /\ zoom <= MaxZoom
    BY <1>4 DEF BuildZoom, dataVars
  <2>2. tiles' = SortedTiles'
    BY <2>1, SortedTilesSame
  <2>3. StreamInv'
    BY <2>1 DEF StreamInv
  <2>4. PassInv'
    BY <2>1, <2>2 DEF PassInv
  <2> QED BY <2>3, <2>4
<1>5. CASE WriteZoom
  <2>1. StreamInv'
    BY <1>5, WriteZoomKeepsStream
  <2>2. inputs' = inputs /\ features' = features /\ pass' = "build" /\ pass = "encode"
    BY <1>5 DEF WriteZoom, dataVars
  <2> QED BY <2>1, <2>2 DEF PassInv
<1>6. CASE Launch
  BY <1>6, QuietKeeps DEF Launch, Quiet
<1>7. CASE PassFails \/ ZoomCanceled \/ WriteFails \/ StreamFails
  BY <1>7, QuietKeeps DEF PassFails, ZoomCanceled, WriteFails, StreamFails, Quiet
<1>8. CASE CloseStream
  BY <1>8, QuietKeeps DEF CloseStream, Quiet
<1>9. CASE \E i \in DOMAIN worker : WorkerEnds(i)
  BY <1>9, QuietKeeps
  DEF WorkerEnds, ScanSucceeds, ScanFails, ScanSeesCancel, EncodeSucceeds, EncodeFails, Quiet
<1>10. CASE Cancel
  BY <1>10, QuietKeeps DEF Cancel, Quiet
<1>11. CASE UNCHANGED generatorVars
  BY <1>11, QuietKeeps DEF generatorVars, dataVars, Quiet
<1> QED BY <1>1, <1>2, <1>3, <1>4, <1>5, <1>6, <1>7, <1>8, <1>9, <1>10, <1>11 DEF GeneratorNext, BuildStep

LEMMA DataInvImplies == PassInv /\ StreamInv => StreamIsDeterministic
<1> SUFFICES ASSUME PassInv, StreamInv, pass = "done"
             PROVE  /\ \A i, j \in DOMAIN stream : i < j => Before(stream[i], stream[j])
                    /\ ToSet(stream) = UNION {Expected(inputs, z) : z \in MinZoom..MaxZoom}
  BY DEF StreamIsDeterministic
<1> DEFINE E(z) == Expected(inputs, z)
<1>1. zoom = MaxZoom + 1 /\ zoom - 1 = MaxZoom /\ MaxZoom \in Int /\ MinZoom \in Int
  BY GeneratorAssumption DEF PassInv
<1>2. DOMAIN stream = 1..Len(stream) /\ stream \in Seq(TileRecord)
  BY DEF StreamInv
<1>3. /\ \A i \in 1..Len(stream) : stream[i].z < zoom /\ stream[i] \in E(stream[i].z) /\ stream[i].z >= MinZoom
      /\ \A i, j \in 1..Len(stream) : i < j => Before(stream[i], stream[j])
      /\ \A z \in MinZoom..MaxZoom : \A r \in E(z) : \E i \in 1..Len(stream) : stream[i] = r
  BY <1>1 DEF StreamInv
<1> HIDE DEF E
<1>4. \A i \in 1..Len(stream) : stream[i].z \in MinZoom..MaxZoom
  <2>1. \A i \in 1..Len(stream) : stream[i].z \in Nat
    <3>1. \A i \in 1..Len(stream) : stream[i] \in TileRecord
      BY <1>2
    <3> QED BY <3>1 DEF TileRecord
  <2> QED BY <1>1, <1>3, <2>1
<1>5. ToSet(stream) = {stream[i] : i \in 1..Len(stream)}
  BY <1>2 DEF ToSet
<1>6. ToSet(stream) = UNION {E(z) : z \in MinZoom..MaxZoom}
  BY <1>3, <1>4, <1>5
<1> QED BY <1>2, <1>3, <1>6 DEF E

-----------------------------------------------------------------------------
(* Failures                                                                  *)

\* A failure is seen by its pass, which has not ended, or has failed the build.
FailureInv ==
  broken => \/ pass = "failed"
            \/ /\ pass \in {"refs", "coords", "features", "encode"}
               /\ \E i \in DOMAIN worker : worker[i] = "failed"

LEMMA FailureInit == GeneratorInit => PoolInv /\ FailureInv
<1> SUFFICES ASSUME GeneratorInit PROVE PoolInv /\ FailureInv
  OBVIOUS
<1>1. Len(inputs) \in Nat
  BY FilesAre DEF GeneratorInit
<1>2. worker = Idle(Len(inputs)) /\ launched = 0 /\ ~broken
  BY DEF GeneratorInit
<1> QED BY <1>1, <1>2, IdleType DEF PoolInv, FailureInv

LEMMA FailureNext == PassInv /\ StreamInv /\ PoolInv /\ FailureInv /\ [GeneratorNext]_generatorVars => PoolInv' /\ FailureInv'
<1> SUFFICES ASSUME PassInv, StreamInv, PoolInv, FailureInv, [GeneratorNext]_generatorVars PROVE PoolInv' /\ FailureInv'
  OBVIOUS
<1>0. Len(inputs) \in Nat
  BY FilesAre DEF PassInv
<1>1. ASSUME AllEnded, AllWell, pass # "failed" PROVE ~broken
  BY <1>1 DEF AllWell, FailureInv
<1>2. CASE EndRefs \/ EndCoords
  <2>1. NewPool(Len(inputs)) /\ ~broken /\ broken' = broken
    BY <1>1, <1>2 DEF EndRefs, EndCoords
  <2> QED BY <1>0, <2>1, NewPoolInv DEF FailureInv
<1>3. CASE EndFeatures
  <2>1. NewPool(0) /\ ~broken /\ broken' = broken
    BY <1>1, <1>3 DEF EndFeatures
  <2> QED BY <2>1, NewPoolInv DEF FailureInv
<1>4. CASE BuildZoom
  <2>1. NewPool(Len(SortedTiles)) /\ ~broken /\ broken' = broken /\ zoom <= MaxZoom /\ pass = "build"
    BY <1>4 DEF BuildZoom, FailureInv
  <2>2. Len(SortedTiles) \in Nat
    <3>1. inputs \in Inputs /\ features = Lines(inputs) /\ zoom \in 0..GridZoom
      BY <2>1, GeneratorAssumption DEF PassInv, StreamInv
    <3>2. SortedTiles \in Seq(Grid(zoom))
      BY <3>1, SortedTilesFacts
    <3> QED BY <3>2
  <2> QED BY <2>1, <2>2, NewPoolInv DEF FailureInv
<1>5. CASE WriteZoom
  <2>1. ~broken /\ broken' = broken /\ launched' = launched /\ worker' = worker
    BY <1>1, <1>5 DEF WriteZoom, poolVars
  <2> QED BY <2>1 DEF PoolInv, FailureInv
<1>6. CASE Launch
  <2>1. pass' = pass /\ broken' = broken
    BY <1>6 DEF Launch
  <2>2. /\ PoolInv' /\ DOMAIN worker' = DOMAIN worker
        /\ \A j \in DOMAIN worker : worker[j] = "failed" => worker'[j] = "failed"
    BY <1>6, LaunchKeepsPool
  <2> QED BY <2>1, <2>2 DEF FailureInv
<1>7. CASE PassFails \/ ZoomCanceled \/ WriteFails \/ StreamFails \/ CloseStream
  <2>1. /\ broken' = broken /\ launched' = launched /\ worker' = worker
        /\ pass' = "failed" \/ (pass = "build" /\ pass' = "done")
    BY <1>7 DEF PassFails, ZoomCanceled, WriteFails, StreamFails, CloseStream, poolVars
  <2> QED BY <2>1 DEF PoolInv, FailureInv
<1>8. ASSUME NEW i \in DOMAIN worker, WorkerEnds(i) PROVE PoolInv' /\ FailureInv'
  <2>1. CASE ScanSucceeds(i) \/ ScanSeesCancel(i) \/ EncodeSucceeds(i)
    <3>1. /\ pass' = pass /\ broken' = broken /\ launched' = launched /\ worker[i] = "running"
          /\ \/ worker' = [worker EXCEPT ![i] = "ok"]
             \/ worker' = [worker EXCEPT ![i] = "canceled"]
      BY <2>1 DEF ScanSucceeds, ScanSeesCancel, EncodeSucceeds
    <3>2. "ok" \in Outcome \ {"idle"} /\ "canceled" \in Outcome \ {"idle"}
      BY DEF Outcome
    <3>3. /\ PoolInv' /\ DOMAIN worker' = DOMAIN worker
          /\ \A j \in DOMAIN worker : worker[j] = "failed" => worker'[j] = "failed"
      BY <3>1, <3>2, EndKeepsPool
    <3> QED BY <3>1, <3>3 DEF FailureInv
  <2>2. CASE ScanFails(i) \/ EncodeFails(i)
    <3>1. /\ pass' = pass /\ launched' = launched /\ worker[i] = "running"
          /\ pass \in {"refs", "coords", "features", "encode"}
          /\ worker' = [worker EXCEPT ![i] = "failed"]
      BY <2>2 DEF ScanFails, EncodeFails, Scanning
    <3>2. "failed" \in Outcome \ {"idle"}
      BY DEF Outcome
    <3>3. PoolInv' /\ DOMAIN worker' = DOMAIN worker /\ worker'[i] = "failed"
      BY <3>1, <3>2, EndKeepsPool
    <3> QED BY <3>1, <3>3 DEF FailureInv
  <2> QED BY <1>8, <2>1, <2>2 DEF WorkerEnds
<1>9. CASE Cancel
  <2>1. pass' = pass /\ broken' = broken /\ launched' = launched /\ worker' = worker
    BY <1>9 DEF Cancel, poolVars
  <2> QED BY <2>1 DEF PoolInv, FailureInv
<1>10. CASE UNCHANGED generatorVars
  <2>1. pass' = pass /\ broken' = broken /\ launched' = launched /\ worker' = worker
    BY <1>10 DEF generatorVars, poolVars
  <2> QED BY <2>1 DEF PoolInv, FailureInv
<1> QED BY <1>2, <1>3, <1>4, <1>5, <1>6, <1>7, <1>8, <1>9, <1>10 DEF GeneratorNext, BuildStep

-----------------------------------------------------------------------------
(* The slots                                                                 *)

\* What a scan finds, and what a tile holds, stays while the goroutines run.
LEMMA FoundSame ==
  ASSUME inputs' = inputs, pass' = pass, refs' = refs, coords' = coords
  PROVE  \A i \in DOMAIN inputs : Found(inputs[i])' = Found(inputs[i])
<1>1. \A i \in DOMAIN inputs : NodesOf(inputs[i])' = NodesOf(inputs[i])
  BY DEF NodesOf
<1>2. \A i \in DOMAIN inputs : PositionsIn(inputs[i])' = PositionsIn(inputs[i])
  BY DEF PositionsIn
<1>3. \A i \in DOMAIN inputs : FeaturesIn(inputs[i])' = FeaturesIn(inputs[i])
  BY DEF FeaturesIn, FeatureOf, WayLine
<1> QED BY <1>1, <1>2, <1>3 DEF Found

LEMMA EncodedSame ==
  ASSUME tiles' = tiles, zoom' = zoom, features' = features
  PROVE  \A i \in DOMAIN tiles : Encoded(tiles[i])' = Encoded(tiles[i])
BY DEF Encoded, Visible

\* No goroutine of a new pool has ended.
LEMMA NewSlots ==
  ASSUME NEW k \in Nat, NewPool(k),
         Scanning' => DOMAIN inputs' = 1..k,
         pass' = "encode" => DOMAIN tiles' = 1..k
  PROVE  SlotInv'
<1>1. worker' = Idle(k) /\ slots' = [i \in 1..k |-> <<>>]
  BY DEF NewPool
<1>2. DOMAIN worker' = 1..k /\ \A i \in DOMAIN worker' : worker'[i] = "idle"
  BY <1>1 DEF Idle
<1>3. slots' = [i \in DOMAIN worker' |-> slots'[i]]
  BY <1>1, <1>2
<1> QED BY <1>2, <1>3 DEF SlotInv

\* While a pass runs, one goroutine at most changes its slot and its outcome.
LEMMA SlotsKept ==
  ASSUME SlotInv, UNCHANGED <<inputs, pass, dataVars, zoom, tiles>>,
         DOMAIN worker' = DOMAIN worker, slots' = [i \in DOMAIN worker |-> slots'[i]],
         \A i \in DOMAIN worker :
           worker'[i] = "ok" => \/ worker[i] = "ok" /\ slots'[i] = slots[i]
                                \/ Scanning /\ slots'[i] = Found(inputs[i])
                                \/ pass = "encode" /\ slots'[i] = Encoded(tiles[i])
  PROVE  SlotInv'
<1>1. /\ inputs' = inputs /\ pass' = pass /\ tiles' = tiles /\ zoom' = zoom
      /\ refs' = refs /\ coords' = coords /\ features' = features
  BY DEF dataVars
<1>2. Scanning' <=> Scanning
  BY <1>1 DEF Scanning
<1>3. ~(Scanning /\ pass = "encode")
  BY DEF Scanning
<1>4. ASSUME Scanning, NEW i \in DOMAIN worker', worker'[i] = "ok"
      PROVE  slots'[i] = Found(inputs[i])'
  <2>1. i \in DOMAIN inputs /\ i \in DOMAIN worker
    BY <1>4 DEF SlotInv
  <2>2. slots'[i] = Found(inputs[i])
    BY <1>3, <1>4, <2>1 DEF SlotInv
  <2> QED BY <1>1, <2>1, <2>2, FoundSame
<1>5. ASSUME pass = "encode", NEW i \in DOMAIN worker', worker'[i] = "ok"
      PROVE  slots'[i] = Encoded(tiles[i])'
  <2>1. i \in DOMAIN tiles /\ i \in DOMAIN worker
    BY <1>5 DEF SlotInv
  <2>2. slots'[i] = Encoded(tiles[i])
    BY <1>3, <1>5, <2>1 DEF SlotInv
  <2> QED BY <1>1, <2>1, <2>2, EncodedSame
<1>6. slots' = [i \in DOMAIN worker' |-> slots'[i]]
  OBVIOUS
<1>7. Scanning' => DOMAIN worker' = DOMAIN inputs'
  BY <1>1, <1>2 DEF SlotInv
<1>8. pass' = "encode" => DOMAIN worker' = DOMAIN tiles'
  BY <1>1 DEF SlotInv
<1> QED BY <1>1, <1>2, <1>4, <1>5, <1>6, <1>7, <1>8 DEF SlotInv

LEMMA SlotInit == GeneratorInit => SlotInv
<1> SUFFICES ASSUME GeneratorInit PROVE SlotInv
  OBVIOUS
<1>1. /\ inputs \in Inputs /\ pass = "refs" /\ worker = Idle(Len(inputs))
      /\ slots = [i \in DOMAIN inputs |-> {}]
  BY DEF GeneratorInit
<1>2. DOMAIN inputs = 1..Len(inputs)
  BY <1>1, FilesAre
<1>3. DOMAIN worker = DOMAIN inputs /\ \A i \in DOMAIN worker : worker[i] = "idle"
  BY <1>1, <1>2 DEF Idle
<1> QED BY <1>1, <1>3 DEF SlotInv

LEMMA SlotNext ==
  PassInv /\ StreamInv /\ PoolInv /\ SlotInv /\ [GeneratorNext]_generatorVars => SlotInv'
<1> SUFFICES ASSUME PassInv, StreamInv, PoolInv, SlotInv, [GeneratorNext]_generatorVars PROVE SlotInv'
  OBVIOUS
<1>0. Len(inputs) \in Nat /\ DOMAIN inputs = 1..Len(inputs)
  BY FilesAre DEF PassInv
<1>1. CASE EndRefs \/ EndCoords
  <2>1. NewPool(Len(inputs)) /\ inputs' = inputs /\ pass' # "encode"
    BY <1>1 DEF EndRefs, EndCoords
  <2> QED BY <1>0, <2>1, NewSlots
<1>2. CASE EndFeatures
  <2>1. NewPool(0) /\ pass' = "build"
    BY <1>2 DEF EndFeatures
  <2> QED BY <2>1, NewSlots DEF Scanning
<1>3. CASE BuildZoom
  <2>1. NewPool(Len(SortedTiles)) /\ pass' = "encode" /\ tiles' = SortedTiles
        /\ zoom <= MaxZoom /\ pass = "build"
    BY <1>3 DEF BuildZoom
  <2>2. Len(SortedTiles) \in Nat /\ DOMAIN SortedTiles = 1..Len(SortedTiles)
    <3>1. inputs \in Inputs /\ features = Lines(inputs) /\ zoom \in 0..GridZoom
      BY <2>1, GeneratorAssumption DEF PassInv, StreamInv
    <3>2. SortedTiles \in Seq(Grid(zoom))
      BY <3>1, SortedTilesFacts
    <3> QED BY <3>2
  <2> QED BY <2>1, <2>2, NewSlots DEF Scanning
<1>4. CASE Launch
  <2>1. UNCHANGED <<inputs, pass, slots, dataVars, zoom, tiles>>
    BY <1>4 DEF Launch
  <2>2. DOMAIN worker' = DOMAIN worker
    BY <1>4, LaunchKeepsPool
  <2>3. worker' = [worker EXCEPT ![launched + 1] = "running"]
    BY <1>4 DEF Launch
  <2>4. \A i \in DOMAIN worker : worker'[i] = "ok" => worker[i] = "ok"
    BY <2>3
  <2>5. slots' = [i \in DOMAIN worker |-> slots'[i]]
    BY <2>1 DEF SlotInv
  <2> QED BY <2>1, <2>2, <2>4, <2>5, SlotsKept
<1>5. ASSUME NEW i \in DOMAIN worker, WorkerEnds(i) PROVE SlotInv'
  <2>1. /\ UNCHANGED <<inputs, pass, dataVars, zoom, tiles>>
        /\ DOMAIN worker' = DOMAIN worker
        /\ \A j \in DOMAIN worker : j # i => worker'[j] = worker[j]
    BY <1>5 DEF WorkerEnds, ScanSucceeds, ScanFails, ScanSeesCancel, EncodeSucceeds, EncodeFails
  <2>2. \/ slots' = slots
        \/ \E found : slots' = [slots EXCEPT ![i] = found]
    BY <1>5 DEF WorkerEnds, ScanSucceeds, ScanFails, ScanSeesCancel, EncodeSucceeds, EncodeFails
  <2>3. /\ slots' = [j \in DOMAIN worker |-> slots'[j]]
        /\ \A j \in DOMAIN worker : j # i => slots'[j] = slots[j]
    BY <2>2 DEF SlotInv
  <2>4. worker'[i] = "ok" => \/ Scanning /\ slots'[i] = Found(inputs[i])
                             \/ pass = "encode" /\ slots'[i] = Encoded(tiles[i])
    <3>1. CASE ScanSucceeds(i)
      <4>1. Scanning /\ slots' = [slots EXCEPT ![i] = Found(inputs[i])]
        BY <3>1 DEF ScanSucceeds
      <4>2. i \in DOMAIN slots
        BY DEF SlotInv
      <4> QED BY <4>1, <4>2
    <3>2. CASE EncodeSucceeds(i)
      <4>1. pass = "encode" /\ slots' = [slots EXCEPT ![i] = Encoded(tiles[i])]
        BY <3>2 DEF EncodeSucceeds
      <4>2. i \in DOMAIN slots
        BY DEF SlotInv
      <4> QED BY <4>1, <4>2
    <3>3. CASE ScanFails(i) \/ ScanSeesCancel(i) \/ EncodeFails(i)
      BY <3>3 DEF ScanFails, ScanSeesCancel, EncodeFails
    <3> QED BY <1>5, <3>1, <3>2, <3>3 DEF WorkerEnds
  <2> QED BY <2>1, <2>3, <2>4, SlotsKept
<1>6. CASE PassFails \/ ZoomCanceled \/ WriteFails \/ StreamFails \/ CloseStream \/ WriteZoom
  <2>1. /\ slots' = slots /\ worker' = worker
        /\ pass' \in {"failed", "build", "done"}
    BY <1>6 DEF PassFails, ZoomCanceled, WriteFails, StreamFails, CloseStream, WriteZoom, poolVars
  <2>2. ~Scanning' /\ pass' # "encode"
    BY <2>1 DEF Scanning
  <2> QED BY <2>1, <2>2 DEF SlotInv
<1>7. CASE Cancel \/ UNCHANGED generatorVars
  <2>1. UNCHANGED <<inputs, pass, slots, worker, dataVars, zoom, tiles>>
    BY <1>7 DEF Cancel, generatorVars, poolVars
  <2>2. slots' = [i \in DOMAIN worker |-> slots'[i]]
    BY <2>1 DEF SlotInv
  <2> QED BY <2>1, <2>2, SlotsKept
<1> QED BY <1>1, <1>2, <1>3, <1>4, <1>5, <1>6, <1>7 DEF GeneratorNext, BuildStep

-----------------------------------------------------------------------------
(* What a build promises                                                     *)

GeneratorInv == PassInv /\ StreamInv /\ PoolInv /\ SlotInv /\ FailureInv

LEMMA GeneratorInvHolds == GeneratorSpec => []GeneratorInv
<1>1. GeneratorInit => GeneratorInv
  BY DataInvInit, FailureInit, SlotInit DEF GeneratorInv
<1>2. GeneratorInv /\ [GeneratorNext]_generatorVars => GeneratorInv'
  BY DataInvNext, FailureNext, SlotNext DEF GeneratorInv
<1> QED BY <1>1, <1>2, PTL DEF GeneratorSpec

\* Whatever the inputs, the zooms and the number of goroutines, and in whatever
\* order these fill their slots, a build that ends well has written the tiles
\* that hold something, each once and in order (Build, scanInputsParallel,
\* writeZoom).
THEOREM StreamIsTheSame == GeneratorSpec => []StreamIsDeterministic
<1>1. GeneratorInv => StreamIsDeterministic
  BY DataInvImplies DEF GeneratorInv
<1> QED BY <1>1, GeneratorInvHolds, PTL

\* Whatever the inputs and the number of goroutines, no build ends well after a
\* scan or an encoding has failed (scanInputsParallel, encodeZoom).
THEOREM FailuresAlwaysReported == GeneratorSpec => []FailuresAreReported
<1>1. GeneratorInv => FailuresAreReported
  BY DEF GeneratorInv, FailureInv, FailuresAreReported
<1> QED BY <1>1, GeneratorInvHolds, PTL

-----------------------------------------------------------------------------
(* The simplifier                                                            *)

Linked == Indices \cup {None}

TypeOK ==
  /\ input \in Input
  /\ nodes \in [Indices -> [prev : Linked, next : Linked, alive : BOOLEAN, version : Nat]]
  /\ queue \subseteq [idx : Indices, area : Nat, version : Nat]
  /\ running \in BOOLEAN

\* Of the indices of S, j comes next after i; on a ring, round its end.
Follows(S, closed, i, j) ==
  \/ i < j /\ \A k \in S : k <= i \/ j <= k
  \/ closed /\ j <= i /\ \A k \in S : j <= k /\ k <= i

NextOK(i) ==
  \/ nodes[i].next \in Alive /\ Follows(Alive, input.closed, i, nodes[i].next)
  \/ nodes[i].next = None /\ ~input.closed /\ \A k \in Alive : k <= i

PrevOK(i) ==
  \/ nodes[i].prev \in Alive /\ Follows(Alive, input.closed, nodes[i].prev, i)
  \/ nodes[i].prev = None /\ ~input.closed /\ \A k \in Alive : i <= k

LinksOK == \A i \in Alive : NextOK(i) /\ PrevOK(i)

QueueOK ==
  /\ \A item \in queue :
       /\ item.version <= nodes[item.idx].version
       /\ IsCurrent(item) => removable(nodes[item.idx]) /\ item = Item(item.idx, nodes[item.idx])
  /\ running => \A i \in Alive : removable(nodes[i]) => Item(i, nodes[i]) \in queue

SimplifyInv == TypeOK /\ LinksOK /\ QueueOK

-----------------------------------------------------------------------------
(* The order of the points left                                             *)

LEMMA NextIsUnique ==
  ASSUME NEW S \in SUBSET Int, NEW closed \in BOOLEAN, NEW i \in S, NEW j \in S, NEW k \in S,
         Follows(S, closed, i, j), Follows(S, closed, i, k)
  PROVE  j = k
BY DEF Follows

LEMMA PrevIsUnique ==
  ASSUME NEW S \in SUBSET Int, NEW closed \in BOOLEAN, NEW i \in S, NEW j \in S, NEW k \in S,
         Follows(S, closed, j, i), Follows(S, closed, k, i)
  PROVE  j = k
BY DEF Follows

LEMMA FollowsShrinks ==
  ASSUME NEW S \in SUBSET Int, NEW closed \in BOOLEAN, NEW i \in S, NEW j \in S, NEW gone \in S,
         Follows(S, closed, i, j)
  PROVE  Follows(S \ {gone}, closed, i, j)
BY DEF Follows

\* The neighbours of a point that goes become neighbours.
LEMMA FollowsAcross ==
  ASSUME NEW S \in SUBSET Int, NEW closed \in BOOLEAN, NEW i \in S, NEW p \in S \ {i}, NEW q \in S \ {i},
         Follows(S, closed, p, i), Follows(S, closed, i, q)
  PROVE  Follows(S \ {i}, closed, p, q)
BY DEF Follows

LEMMA OnlyAloneFollowsItself ==
  ASSUME NEW S \in SUBSET Int, NEW closed \in BOOLEAN, NEW i \in S, Follows(S, closed, i, i)
  PROVE  S = {i}
<1>1. \A k \in S : k = i
  BY DEF Follows
<1> QED BY <1>1

-----------------------------------------------------------------------------
(* Types                                                                     *)

LEMMA InputFacts ==
  ASSUME input \in Input
  PROVE  /\ n \in Nat /\ minKeep \in {2, 3} /\ Indices = 1..n /\ Indices \subseteq Int
         /\ None \notin Indices
         /\ \A i \in Indices : input.points[i] \in Int \X Int
         /\ input.closed \in BOOLEAN /\ input.tolerance \in Int
<1>1. /\ input.points \in Seq(Int \X Int)
      /\ input.closed \in BOOLEAN /\ input.tolerance \in Int
  BY InputAssumption
<1> QED BY <1>1 DEF n, minKeep, Indices, None

LEMMA TriangleType ==
  ASSUME NEW a \in Int \X Int, NEW b \in Int \X Int, NEW c \in Int \X Int
  PROVE  triangleArea(a, b, c) \in Nat
<1> DEFINE area == (b[1] - a[1]) * (c[2] - a[2]) - (c[1] - a[1]) * (b[2] - a[2])
<1>1. \A x, y \in Int : x - y \in Int /\ x * y \in Int
  OBVIOUS
<1>2. area \in Int
  <2>1. a[1] \in Int /\ a[2] \in Int /\ b[1] \in Int /\ b[2] \in Int /\ c[1] \in Int /\ c[2] \in Int
    OBVIOUS
  <2>2. b[1] - a[1] \in Int /\ c[2] - a[2] \in Int /\ c[1] - a[1] \in Int /\ b[2] - a[2] \in Int
    BY <2>1, <1>1
  <2>3. (b[1] - a[1]) * (c[2] - a[2]) \in Int /\ (c[1] - a[1]) * (b[2] - a[2]) \in Int
    BY <2>2, <1>1
  <2> QED BY <2>3, <1>1
<1>3. triangleArea(a, b, c) = IF area < 0 THEN -area ELSE area
  BY DEF triangleArea
<1> HIDE DEF area
<1> QED BY <1>2, <1>3

LEMMA ItemType ==
  ASSUME input \in Input, NEW i \in Indices,
         NEW node \in [prev : Linked, next : Linked, alive : BOOLEAN, version : Nat], removable(node)
  PROVE  Item(i, node) \in [idx : Indices, area : Nat, version : Nat]
<1>1. node.prev \in Indices /\ node.next \in Indices
  BY DEF removable, Linked
<1>2. AreaAt(node.prev, i, node.next) \in Nat
  BY <1>1, InputFacts, TriangleType DEF AreaAt
<1> QED BY <1>2 DEF Item

LEMMA AliveFacts ==
  ASSUME TypeOK
  PROVE  Alive \in SUBSET Int /\ Alive \subseteq Indices /\ IsFiniteSet(Alive)
<1>1. Alive \subseteq Indices /\ Indices = 1..n /\ n \in Nat
  BY InputFacts DEF TypeOK, Alive
<1>2. IsFiniteSet(1..n)
  BY <1>1, FS_Interval
<1>3. IsFiniteSet(Alive)
  BY <1>1, <1>2, FS_Subset
<1>4. \A i \in Alive : i \in Int
  BY <1>1
<1> QED BY <1>1, <1>3, <1>4

-----------------------------------------------------------------------------
(* What a state of the list and the queue says                               *)

LEMMA Neighbours ==
  ASSUME TypeOK, LinksOK, NEW i \in Alive, removable(nodes[i])
  PROVE  /\ nodes[i].prev \in Alive /\ Follows(Alive, input.closed, nodes[i].prev, i)
         /\ nodes[i].next \in Alive /\ Follows(Alive, input.closed, i, nodes[i].next)
BY DEF LinksOK, NextOK, PrevOK, removable

\* The neighbours of the abstract list are the links.
LEMMA LinksAreNeighbours ==
  ASSUME TypeOK, LinksOK, NEW i \in Alive, NEW before \in Alive, NEW after \in Alive,
         Follows(Alive, input.closed, before, i), Follows(Alive, input.closed, i, after)
  PROVE  before = nodes[i].prev /\ after = nodes[i].next
<1> DEFINE closed == input.closed
<1>1. Alive \in SUBSET Int /\ closed \in BOOLEAN
  BY AliveFacts, InputFacts DEF TypeOK
<1>2. NextOK(i) /\ PrevOK(i)
  BY DEF LinksOK
<1>3. after = nodes[i].next
  <2>1. CASE nodes[i].next \in Alive /\ Follows(Alive, closed, i, nodes[i].next)
    BY <2>1, <1>1, NextIsUnique
  <2>2. CASE ~closed /\ \A k \in Alive : k <= i
    BY <2>2, <1>1 DEF Follows
  <2> QED BY <1>2, <2>1, <2>2 DEF NextOK
<1>4. before = nodes[i].prev
  <2>1. CASE nodes[i].prev \in Alive /\ Follows(Alive, closed, nodes[i].prev, i)
    BY <2>1, <1>1, PrevIsUnique
  <2>2. CASE ~closed /\ \A k \in Alive : i <= k
    BY <2>2, <1>1 DEF Follows
  <2> QED BY <1>2, <2>1, <2>2 DEF PrevOK
<1> QED BY <1>3, <1>4

LEMMA SpansIsArea ==
  ASSUME TypeOK, LinksOK, NEW i \in Alive
  PROVE  \A area : Generalization!Spans(i, area)
                     <=> removable(nodes[i]) /\ area = AreaAt(nodes[i].prev, i, nodes[i].next)
<1>1. \A j, k : Generalization!After(j, k) <=> Follows(Alive, input.closed, j, k)
  BY DEF Generalization!After, Follows
<1>2. \A a, b, c : Generalization!Triangle(a, b, c) = triangleArea(a, b, c)
  BY DEF Generalization!Triangle, triangleArea
<1>3. ASSUME NEW area, Generalization!Spans(i, area)
      PROVE  removable(nodes[i]) /\ area = AreaAt(nodes[i].prev, i, nodes[i].next)
  <2>1. PICK before \in Alive, after \in Alive :
          /\ Follows(Alive, input.closed, before, i) /\ Follows(Alive, input.closed, i, after)
          /\ area = triangleArea(input.points[before], input.points[i], input.points[after])
    BY <1>1, <1>2, <1>3 DEF Generalization!Spans
  <2>2. before = nodes[i].prev /\ after = nodes[i].next
    BY <2>1, LinksAreNeighbours
  <2>3. before # None /\ after # None
    BY AliveFacts, InputFacts DEF TypeOK
  <2> QED BY <2>1, <2>2, <2>3 DEF removable, AreaAt
<1>4. ASSUME NEW area, removable(nodes[i]), area = AreaAt(nodes[i].prev, i, nodes[i].next)
      PROVE  Generalization!Spans(i, area)
  <2>1. /\ nodes[i].prev \in Alive /\ Generalization!After(nodes[i].prev, i)
        /\ nodes[i].next \in Alive /\ Generalization!After(i, nodes[i].next)
    BY <1>1, <1>4, Neighbours
  <2>2. area = Generalization!Triangle(input.points[nodes[i].prev], input.points[i], input.points[nodes[i].next])
    BY <1>2, <1>4 DEF AreaAt
  <2> QED BY <2>1, <2>2 DEF Generalization!Spans
<1> QED BY <1>3, <1>4

\* The item that is popped has the smallest area of all points.
LEMMA QueueHasAreas ==
  ASSUME SimplifyInv, running, NEW i \in Alive, NEW area, Generalization!Spans(i, area)
  PROVE  area \in Nat /\ \E item \in queue : item.area = area
<1>1. removable(nodes[i]) /\ area = AreaAt(nodes[i].prev, i, nodes[i].next)
  BY SpansIsArea DEF SimplifyInv
<1>2. Item(i, nodes[i]) \in queue
  BY <1>1 DEF SimplifyInv, QueueOK
<1>3. Item(i, nodes[i]).area = area
  BY <1>1 DEF Item
<1> QED BY <1>2, <1>3 DEF SimplifyInv, TypeOK

-----------------------------------------------------------------------------
(* The removal of a point                                                    *)

\* The loop's body for an item within the tolerance.
Removes(item, again) ==
  /\ item \in queue /\ Popped(item) /\ IsCurrent(item) /\ item.area <= input.tolerance
  /\ again = Remeasured(item.idx, Unlinked(item.idx))
  /\ nodes' = [k \in Indices |->
                 [Unlinked(item.idx)[k] EXCEPT !.version = IF k \in again THEN @ + 1 ELSE @]]
  /\ queue' = (queue \ {item}) \cup {Item(k, nodes'[k]) : k \in again}
  /\ input' = input /\ running' = running

LEMMA RemovePointRemoves ==
  ASSUME RemovePoint
  PROVE  \E item, again : Removes(item, again)
<1>1. PICK item \in queue :
        LET i == item.idx
            unlinked == Unlinked(i)
            again == Remeasured(i, unlinked)
            nodesNext == [k \in Indices |->
                            [unlinked[k] EXCEPT !.version = IF k \in again THEN @ + 1 ELSE @]]
        IN  /\ Popped(item)
            /\ IsCurrent(item)
            /\ item.area <= input.tolerance
            /\ nodes' = nodesNext
            /\ queue' = (queue \ {item}) \cup {Item(k, nodesNext[k]) : k \in again}
            /\ UNCHANGED <<input, running>>
  BY DEF RemovePoint
<1> DEFINE again == Remeasured(item.idx, Unlinked(item.idx))
<1>2. queue' = (queue \ {item}) \cup {Item(k, nodes'[k]) : k \in again}
  BY <1>1
<1>3. Removes(item, again)
  BY <1>1, <1>2 DEF Removes
<1> QED BY <1>3

LEMMA RemovesFacts ==
  ASSUME NEW item, NEW again, Removes(item, again)
  PROVE  /\ item \in queue /\ Popped(item) /\ IsCurrent(item) /\ item.area <= input.tolerance
         /\ nodes' = [k \in Indices |-> nodes'[k]]
         /\ queue' = (queue \ {item}) \cup {Item(k, nodes'[k]) : k \in again}
         /\ input' = input /\ running' = running
         /\ \A k : k \in again <=> /\ k \in {nodes[item.idx].prev, nodes[item.idx].next} \ {None}
                                  /\ removable(Unlinked(item.idx)[k])
<1> DEFINE after(k) == [Unlinked(item.idx)[k] EXCEPT !.version = IF k \in again THEN @ + 1 ELSE @]
<1>1. nodes' = [k \in Indices |-> after(k)]
  BY DEF Removes
<1>2. nodes' = [k \in Indices |-> nodes'[k]]
  <2> HIDE DEF after
  <2> QED BY <1>1
<1>3. /\ item \in queue /\ Popped(item) /\ IsCurrent(item) /\ item.area <= input.tolerance
      /\ queue' = (queue \ {item}) \cup {Item(k, nodes'[k]) : k \in again}
      /\ input' = input /\ running' = running
      /\ again = Remeasured(item.idx, Unlinked(item.idx))
  BY DEF Removes
<1> QED BY <1>2, <1>3 DEF Remeasured

LEMMA RemovedFields ==
  ASSUME TypeOK, NEW item, NEW again, Removes(item, again)
  PROVE  \A k \in Indices :
           /\ nodes'[k].alive <=> nodes[k].alive /\ k # item.idx
           /\ nodes'[k].prev = IF k = nodes[item.idx].next THEN nodes[item.idx].prev ELSE nodes[k].prev
           /\ nodes'[k].next = IF k = nodes[item.idx].prev THEN nodes[item.idx].next ELSE nodes[k].next
           /\ nodes'[k].version = IF k \in again THEN nodes[k].version + 1 ELSE nodes[k].version
           /\ nodes'[k] \in [prev : Linked, next : Linked, alive : BOOLEAN, version : Nat]
           /\ removable(nodes'[k]) <=> removable(Unlinked(item.idx)[k])
<1> DEFINE i == item.idx
<1>1. i \in Indices
  BY DEF TypeOK, Removes
<1> SUFFICES ASSUME NEW k \in Indices
             PROVE  /\ nodes'[k].alive <=> nodes[k].alive /\ k # i
                    /\ nodes'[k].prev = IF k = nodes[i].next THEN nodes[i].prev ELSE nodes[k].prev
                    /\ nodes'[k].next = IF k = nodes[i].prev THEN nodes[i].next ELSE nodes[k].next
                    /\ nodes'[k].version = IF k \in again THEN nodes[k].version + 1 ELSE nodes[k].version
                    /\ nodes'[k] \in [prev : Linked, next : Linked, alive : BOOLEAN, version : Nat]
                    /\ removable(nodes'[k]) <=> removable(Unlinked(i)[k])
  OBVIOUS
<1>2. /\ nodes[k] \in [prev : Linked, next : Linked, alive : BOOLEAN, version : Nat]
      /\ nodes[i] \in [prev : Linked, next : Linked, alive : BOOLEAN, version : Nat]
  BY <1>1 DEF TypeOK
<1>3. Unlinked(i)[k] = [prev |-> IF k = nodes[i].next THEN nodes[i].prev ELSE nodes[k].prev,
                        next |-> IF k = nodes[i].prev THEN nodes[i].next ELSE nodes[k].next,
                        alive |-> nodes[k].alive /\ k # i,
                        version |-> nodes[k].version]
  BY <1>2 DEF Unlinked
<1>4. nodes'[k] = [Unlinked(i)[k] EXCEPT !.version = IF k \in again THEN @ + 1 ELSE @]
  BY DEF Removes
<1>5. nodes'[k] = [prev |-> IF k = nodes[i].next THEN nodes[i].prev ELSE nodes[k].prev,
                   next |-> IF k = nodes[i].prev THEN nodes[i].next ELSE nodes[k].next,
                   alive |-> nodes[k].alive /\ k # i,
                   version |-> IF k \in again THEN nodes[k].version + 1 ELSE nodes[k].version]
  BY <1>3, <1>4
<1> DEFINE p == IF k = nodes[i].next THEN nodes[i].prev ELSE nodes[k].prev
           q == IF k = nodes[i].prev THEN nodes[i].next ELSE nodes[k].next
           a == nodes[k].alive /\ k # i
           v == IF k \in again THEN nodes[k].version + 1 ELSE nodes[k].version
<1>6. p \in Linked /\ q \in Linked /\ a \in BOOLEAN /\ v \in Nat
  BY <1>2
<1>7. nodes'[k] = [prev |-> p, next |-> q, alive |-> a, version |-> v]
  BY <1>5
<1>8. /\ nodes'[k].prev = p /\ nodes'[k].next = q /\ nodes'[k].alive = a /\ nodes'[k].version = v
      /\ nodes'[k] \in [prev : Linked, next : Linked, alive : BOOLEAN, version : Nat]
  <2> HIDE DEF p, q, a, v
  <2> QED BY <1>6, <1>7
<1>9. removable(nodes'[k]) <=> removable(Unlinked(i)[k])
  <2>1. Unlinked(i)[k].prev = p /\ Unlinked(i)[k].next = q
    BY <1>3
  <2> QED BY <1>8, <2>1 DEF removable
<1>10. nodes'[k].alive <=> nodes[k].alive /\ k # i
  <2>1. nodes'[k].alive = a /\ a \in BOOLEAN
    BY <1>6, <1>8
  <2> QED BY <2>1
<1> QED BY <1>8, <1>9, <1>10

LEMMA RemovedAlive ==
  ASSUME TypeOK, NEW item, NEW again, Removes(item, again)
  PROVE  /\ item.idx \in Alive /\ Alive' = Alive \ {item.idx}
         /\ n' = n /\ Indices' = Indices
<1>1. n' = n /\ Indices' = Indices
  BY DEF Removes, n, Indices
<1>2. item.idx \in Alive
  BY DEF Removes, IsCurrent, TypeOK, Alive
<1>3. \A k \in Indices : nodes'[k].alive <=> nodes[k].alive /\ k # item.idx
  BY RemovedFields
<1> QED BY <1>1, <1>2, <1>3 DEF Alive

\* It had two neighbours other than itself.
LEMMA RemovedHadNeighbours ==
  ASSUME SimplifyInv, NEW item, NEW again, Removes(item, again)
  PROVE  LET i == item.idx IN
         /\ removable(nodes[i]) /\ item = Item(i, nodes[i])
         /\ nodes[i].prev \in Alive \ {i} /\ Follows(Alive, input.closed, nodes[i].prev, i)
         /\ nodes[i].next \in Alive \ {i} /\ Follows(Alive, input.closed, i, nodes[i].next)
<1> DEFINE i == item.idx
<1>1. i \in Alive
  BY RemovedAlive DEF SimplifyInv
<1>2. removable(nodes[i]) /\ item = Item(i, nodes[i])
  BY DEF SimplifyInv, QueueOK, Removes
<1>3. /\ nodes[i].prev \in Alive /\ Follows(Alive, input.closed, nodes[i].prev, i)
      /\ nodes[i].next \in Alive /\ Follows(Alive, input.closed, i, nodes[i].next)
  BY <1>1, <1>2, Neighbours DEF SimplifyInv
<1>4. ~Follows(Alive, input.closed, i, i)
  <2>1. SUFFICES ASSUME Follows(Alive, input.closed, i, i) PROVE FALSE
    OBVIOUS
  <2>2. Alive = {i}
    BY <1>1, <2>1, AliveFacts, InputFacts, OnlyAloneFollowsItself DEF SimplifyInv, TypeOK
  <2>3. Cardinality(Alive) = 1
    BY <2>2, FS_Singleton
  <2>4. Cardinality(Alive) > minKeep /\ minKeep \in {2, 3}
    BY InputFacts DEF SimplifyInv, TypeOK, Removes, Popped
  <2> QED BY <2>3, <2>4
<1> QED BY <1>2, <1>3, <1>4

LEMMA RemovedType ==
  ASSUME SimplifyInv, NEW item, NEW again, Removes(item, again)
  PROVE  TypeOK'
<1> DEFINE i == item.idx
<1>1. Indices' = Indices /\ Linked' = Linked
  BY RemovedAlive DEF SimplifyInv, Linked
<1>2. nodes' \in [Indices -> [prev : Linked, next : Linked, alive : BOOLEAN, version : Nat]]
  <2>1. \A k \in Indices : nodes'[k] \in [prev : Linked, next : Linked, alive : BOOLEAN, version : Nat]
    BY RemovedFields DEF SimplifyInv
  <2>2. nodes' = [k \in Indices |-> nodes'[k]]
    BY RemovesFacts
  <2> QED BY <2>1, <2>2
<1>3. ASSUME NEW k \in again PROVE Item(k, nodes'[k]) \in [idx : Indices, area : Nat, version : Nat]
  <2>1. nodes[i].prev \in Indices /\ nodes[i].next \in Indices
    BY RemovedHadNeighbours, AliveFacts DEF SimplifyInv
  <2>2. k \in Indices /\ removable(Unlinked(i)[k])
    BY <1>3, <2>1, RemovesFacts
  <2>3. removable(nodes'[k]) /\ nodes'[k] \in [prev : Linked, next : Linked, alive : BOOLEAN, version : Nat]
    BY <2>2, RemovedFields DEF SimplifyInv
  <2> QED BY <2>2, <2>3, ItemType DEF SimplifyInv, TypeOK
<1>4. queue' \subseteq [idx : Indices, area : Nat, version : Nat]
  BY <1>3, RemovesFacts DEF SimplifyInv, TypeOK
<1>5. input' \in Input /\ running' \in BOOLEAN
  BY RemovesFacts DEF SimplifyInv, TypeOK
<1> QED BY <1>1, <1>2, <1>4, <1>5 DEF TypeOK

LEMMA RemovedLinks ==
  ASSUME SimplifyInv, NEW item, NEW again, Removes(item, again)
  PROVE  LinksOK'
<1> DEFINE i == item.idx
           closed == input.closed
<1>1. /\ Alive \in SUBSET Int /\ Alive \subseteq Indices /\ closed \in BOOLEAN /\ i \in Alive
      /\ Alive' = Alive \ {i} /\ input' = input
  BY AliveFacts, InputFacts, RemovedAlive, RemovesFacts DEF SimplifyInv, TypeOK
<1>2. /\ nodes[i].prev \in Alive \ {i} /\ Follows(Alive, closed, nodes[i].prev, i)
      /\ nodes[i].next \in Alive \ {i} /\ Follows(Alive, closed, i, nodes[i].next)
  BY RemovedHadNeighbours
<1>3. Follows(Alive \ {i}, closed, nodes[i].prev, nodes[i].next)
  BY <1>1, <1>2, FollowsAcross
<1> SUFFICES ASSUME NEW k \in Alive \ {i} PROVE NextOK(k)' /\ PrevOK(k)'
  BY <1>1 DEF LinksOK
<1>4. NextOK(k) /\ PrevOK(k)
  BY DEF SimplifyInv, LinksOK
<1>5. /\ nodes'[k].prev = IF k = nodes[i].next THEN nodes[i].prev ELSE nodes[k].prev
      /\ nodes'[k].next = IF k = nodes[i].prev THEN nodes[i].next ELSE nodes[k].next
  <2>1. TypeOK /\ k \in Indices
    BY <1>1 DEF SimplifyInv
  <2> QED BY <2>1, RemovedFields
<1>6. NextOK(k)'
  <2>1. CASE k = nodes[i].prev
    BY <2>1, <1>1, <1>2, <1>3, <1>5 DEF NextOK
  <2>2. CASE k # nodes[i].prev /\ nodes[k].next \in Alive /\ Follows(Alive, closed, k, nodes[k].next)
    <3>1. nodes[k].next # i
      BY <2>2, <1>1, <1>2, PrevIsUnique
    <3>2. Follows(Alive \ {i}, closed, k, nodes[k].next)
      BY <2>2, <1>1, FollowsShrinks
    <3> QED BY <2>2, <3>1, <3>2, <1>1, <1>5 DEF NextOK
  <2>3. CASE k # nodes[i].prev /\ nodes[k].next = None /\ ~closed /\ \A j \in Alive : j <= k
    BY <2>3, <1>1, <1>5 DEF NextOK
  <2> QED BY <1>4, <2>1, <2>2, <2>3 DEF NextOK
<1>7. PrevOK(k)'
  <2>1. CASE k = nodes[i].next
    BY <2>1, <1>1, <1>2, <1>3, <1>5 DEF PrevOK
  <2>2. CASE k # nodes[i].next /\ nodes[k].prev \in Alive /\ Follows(Alive, closed, nodes[k].prev, k)
    <3>1. nodes[k].prev # i
      BY <2>2, <1>1, <1>2, NextIsUnique
    <3>2. Follows(Alive \ {i}, closed, nodes[k].prev, k)
      BY <2>2, <1>1, FollowsShrinks
    <3> QED BY <2>2, <3>1, <3>2, <1>1, <1>5 DEF PrevOK
  <2>3. CASE k # nodes[i].next /\ nodes[k].prev = None /\ ~closed /\ \A j \in Alive : k <= j
    BY <2>3, <1>1, <1>5 DEF PrevOK
  <2> QED BY <1>4, <2>1, <2>2, <2>3 DEF PrevOK
<1> QED BY <1>6, <1>7

LEMMA RemovedQueue ==
  ASSUME SimplifyInv, NEW item, NEW again, Removes(item, again)
  PROVE  QueueOK'
<1> DEFINE i == item.idx
<1>1. /\ TypeOK /\ Alive \subseteq Indices /\ i \in Alive /\ Alive' = Alive \ {i}
      /\ input' = input /\ running' = running /\ running
      /\ queue' = (queue \ {item}) \cup {Item(k, nodes'[k]) : k \in again}
      /\ \A k : k \in again <=> /\ k \in {nodes[i].prev, nodes[i].next} \ {None}
                               /\ removable(Unlinked(i)[k])
  BY AliveFacts, RemovedAlive, RemovesFacts DEF SimplifyInv, Popped
<1>2. /\ nodes[i].prev \in Alive \ {i} /\ nodes[i].next \in Alive \ {i} /\ None \notin Indices
  BY RemovedHadNeighbours, InputFacts DEF SimplifyInv, TypeOK
<1>3. \A k \in Indices :
        /\ nodes'[k].alive <=> nodes[k].alive /\ k # i
        /\ nodes'[k].prev = IF k = nodes[i].next THEN nodes[i].prev ELSE nodes[k].prev
        /\ nodes'[k].next = IF k = nodes[i].prev THEN nodes[i].next ELSE nodes[k].next
        /\ nodes'[k].version = IF k \in again THEN nodes[k].version + 1 ELSE nodes[k].version
        /\ nodes[k].version \in Nat
        /\ removable(nodes'[k]) <=> removable(Unlinked(i)[k])
  BY <1>1, RemovedFields DEF TypeOK
<1>4. SUFFICES
        /\ \A o \in queue' :
             /\ o.version <= nodes'[o.idx].version
             /\ nodes'[o.idx].alive /\ o.version = nodes'[o.idx].version
                  => removable(nodes'[o.idx]) /\ o = Item(o.idx, nodes'[o.idx])
        /\ \A k \in Alive \ {i} : removable(nodes'[k]) => Item(k, nodes'[k]) \in queue'
  <2>1. \A k : Item(k, nodes[k])' = Item(k, nodes'[k])
    BY <1>1 DEF Item, AreaAt
  <2> QED BY <1>1, <2>1 DEF QueueOK, IsCurrent, removable
<1>5. \A o \in queue :
        /\ o.idx \in Indices /\ o.version \in Nat /\ o.version <= nodes[o.idx].version
        /\ nodes[o.idx].alive /\ o.version = nodes[o.idx].version
             => removable(nodes[o.idx]) /\ o = Item(o.idx, nodes[o.idx])
  BY DEF SimplifyInv, TypeOK, QueueOK, IsCurrent
\* Who is not measured again keeps its neighbours, if it has two.
<1>6. ASSUME NEW k \in Indices, k # i, k \notin again, removable(nodes[k]) \/ removable(nodes'[k])
      PROVE  removable(nodes[k]) /\ removable(nodes'[k]) /\ Item(k, nodes'[k]) = Item(k, nodes[k])
  <2>1. removable(nodes[i])
    BY RemovedHadNeighbours
  <2>2. k \notin {nodes[i].prev, nodes[i].next}
    <3>1. removable(nodes'[k])
      BY <1>3, <1>6, <2>1 DEF removable
    <3> QED BY <1>1, <1>2, <1>3, <1>6, <3>1
  <2>3. /\ nodes'[k].prev = nodes[k].prev /\ nodes'[k].next = nodes[k].next
        /\ nodes'[k].version = nodes[k].version
    BY <1>3, <1>6, <2>2
  <2> QED BY <1>6, <2>3 DEF removable, Item
<1>7. ASSUME NEW k \in again
      PROVE  /\ k \in Indices /\ removable(nodes'[k])
             /\ Item(k, nodes'[k]).idx = k /\ Item(k, nodes'[k]).version = nodes'[k].version
  <2>1. k \in Indices /\ removable(Unlinked(i)[k])
    BY <1>1, <1>2, <1>7
  <2> QED BY <2>1, <1>3 DEF Item
<1>8. ASSUME NEW o \in queue
      PROVE  /\ o.version <= nodes'[o.idx].version
             /\ nodes'[o.idx].alive /\ o.version = nodes'[o.idx].version
                  => removable(nodes'[o.idx]) /\ o = Item(o.idx, nodes'[o.idx])
  <2>1. /\ o.idx \in Indices /\ o.version \in Nat /\ o.version <= nodes[o.idx].version
        /\ nodes[o.idx].version \in Nat
        /\ nodes'[o.idx].version = IF o.idx \in again THEN nodes[o.idx].version + 1 ELSE nodes[o.idx].version
    BY <1>3, <1>5
  <2>2. o.version <= nodes'[o.idx].version
    BY <2>1
  <2>3. ASSUME nodes'[o.idx].alive, o.version = nodes'[o.idx].version
        PROVE  removable(nodes'[o.idx]) /\ o = Item(o.idx, nodes'[o.idx])
    <3>1. o.idx \notin again /\ o.version = nodes[o.idx].version
      BY <2>1, <2>3
    <3>2. nodes[o.idx].alive /\ o.idx # i
      BY <1>3, <2>1, <2>3
    <3>3. removable(nodes[o.idx]) /\ o = Item(o.idx, nodes[o.idx])
      BY <1>5, <3>1, <3>2
    <3> QED BY <1>6, <2>1, <3>1, <3>2, <3>3
  <2> QED BY <2>2, <2>3
<1>9. ASSUME NEW k \in Alive \ {i}, removable(nodes'[k])
      PROVE  Item(k, nodes'[k]) \in queue'
  <2>1. CASE k \in again
    BY <1>1, <2>1
  <2>2. CASE k \notin again
    <3>1. removable(nodes[k]) /\ Item(k, nodes'[k]) = Item(k, nodes[k])
      BY <1>1, <1>6, <1>9, <2>2
    <3>2. Item(k, nodes[k]) \in queue
      BY <1>1, <3>1 DEF SimplifyInv, QueueOK
    <3>3. Item(k, nodes[k]) # item
      BY DEF Item
    <3> QED BY <1>1, <3>1, <3>2, <3>3
  <2> QED BY <2>1, <2>2
<1>10. ASSUME NEW o \in queue'
       PROVE  /\ o.version <= nodes'[o.idx].version
              /\ nodes'[o.idx].alive /\ o.version = nodes'[o.idx].version
                   => removable(nodes'[o.idx]) /\ o = Item(o.idx, nodes'[o.idx])
  <2>1. CASE o \in queue
    BY <1>8, <2>1
  <2>2. CASE \E k \in again : o = Item(k, nodes'[k])
    <3>1. PICK k \in again : o = Item(k, nodes'[k])
      BY <2>2
    <3>2. o.idx = k /\ k \in Indices /\ removable(nodes'[k]) /\ o.version = nodes'[k].version
      BY <1>7, <3>1
    <3>3. nodes'[k].version \in Nat
      BY <1>3, <3>2
    <3> QED BY <3>1, <3>2, <3>3
  <2> QED BY <1>1, <2>1, <2>2
<1> QED BY <1>9, <1>10

-----------------------------------------------------------------------------
(* The invariant                                                             *)

LEMMA InitialNodes ==
  ASSUME SimplifyInit
  PROVE  /\ input \in Input /\ Alive = Indices /\ Indices = 1..n /\ n \in Nat
         /\ nodes \in [Indices -> [prev : Linked, next : Linked, alive : BOOLEAN, version : Nat]]
         /\ \A i \in Indices :
              /\ nodes[i].prev = IF i > 1 THEN i - 1 ELSE IF input.closed THEN n ELSE None
              /\ nodes[i].next = IF i < n THEN i + 1 ELSE IF input.closed THEN 1 ELSE None
              /\ nodes[i].alive /\ nodes[i].version = 0
<1>1. input \in Input /\ Indices = 1..n /\ n \in Nat
  BY InputFacts DEF SimplifyInit
<1>2. nodes = [i \in 1..n |->
                 [prev |-> IF i > 1 THEN i - 1 ELSE IF input.closed THEN n ELSE None,
                  next |-> IF i < n THEN i + 1 ELSE IF input.closed THEN 1 ELSE None,
                  alive |-> TRUE, version |-> 0]]
  BY DEF SimplifyInit, LinkedNodes, n
<1>3. ASSUME NEW i \in Indices
      PROVE  /\ nodes[i].prev = IF i > 1 THEN i - 1 ELSE IF input.closed THEN n ELSE None
             /\ nodes[i].next = IF i < n THEN i + 1 ELSE IF input.closed THEN 1 ELSE None
             /\ nodes[i].alive /\ nodes[i].version = 0
             /\ nodes[i] \in [prev : Linked, next : Linked, alive : BOOLEAN, version : Nat]
  <2> DEFINE p == IF i > 1 THEN i - 1 ELSE IF input.closed THEN n ELSE None
             q == IF i < n THEN i + 1 ELSE IF input.closed THEN 1 ELSE None
  <2>1. p \in Linked /\ q \in Linked
    BY <1>1 DEF Linked, None
  <2>2. nodes[i] = [prev |-> p, next |-> q, alive |-> TRUE, version |-> 0]
    BY <1>1, <1>2
  <2>3. nodes[i].prev = p /\ nodes[i].next = q
    <3> HIDE DEF p, q
    <3> QED BY <2>2
  <2>4. /\ nodes[i].alive /\ nodes[i].version = 0
        /\ nodes[i] \in [prev : Linked, next : Linked, alive : BOOLEAN, version : Nat]
    <3> HIDE DEF p, q
    <3> QED BY <2>1, <2>2
  <2> QED BY <2>3, <2>4
<1>4. nodes = [i \in Indices |-> nodes[i]]
  BY <1>1, <1>2
<1>5. Alive = Indices
  BY <1>3 DEF Alive
<1>6. nodes \in [Indices -> [prev : Linked, next : Linked, alive : BOOLEAN, version : Nat]]
  BY <1>3, <1>4
<1> QED BY <1>1, <1>3, <1>5, <1>6

LEMMA InitInv == SimplifyInit => SimplifyInv
<1> SUFFICES ASSUME SimplifyInit PROVE SimplifyInv
  OBVIOUS
<1>1. /\ input \in Input /\ Alive = 1..n /\ Indices = 1..n /\ n \in Nat
      /\ nodes \in [Indices -> [prev : Linked, next : Linked, alive : BOOLEAN, version : Nat]]
      /\ \A i \in Indices :
           /\ nodes[i].prev = IF i > 1 THEN i - 1 ELSE IF input.closed THEN n ELSE None
           /\ nodes[i].next = IF i < n THEN i + 1 ELSE IF input.closed THEN 1 ELSE None
           /\ nodes[i].alive /\ nodes[i].version = 0
  BY InitialNodes
<1>2. input.closed \in BOOLEAN
  BY <1>1, InputFacts
<1>3. queue \subseteq {Item(i, nodes[i]) : i \in {i \in Indices : removable(nodes[i])}}
  BY DEF SimplifyInit
<1>4. ASSUME NEW item \in queue
      PROVE  \E i \in Indices : removable(nodes[i]) /\ item = Item(i, nodes[i]) /\ item.idx = i /\ item.version = 0
  BY <1>1, <1>3 DEF Item
<1>5. TypeOK
  <2>1. queue \subseteq [idx : Indices, area : Nat, version : Nat]
    BY <1>1, <1>4, ItemType
  <2>2. running \in BOOLEAN
    BY DEF SimplifyInit
  <2> QED BY <1>1, <2>1, <2>2 DEF TypeOK
<1>6. LinksOK
  <2> SUFFICES ASSUME NEW i \in Alive PROVE NextOK(i) /\ PrevOK(i)
    BY DEF LinksOK
  <2>1. NextOK(i)
    <3>1. CASE i < n
      BY <3>1, <1>1 DEF NextOK, Follows
    <3>2. CASE ~(i < n)
      BY <3>2, <1>1, <1>2 DEF NextOK, Follows
    <3> QED BY <3>1, <3>2
  <2>2. PrevOK(i)
    <3>1. CASE i > 1
      BY <3>1, <1>1 DEF PrevOK, Follows
    <3>2. CASE ~(i > 1)
      BY <3>2, <1>1, <1>2 DEF PrevOK, Follows
    <3> QED BY <3>1, <3>2
  <2> QED BY <2>1, <2>2
<1>7. QueueOK
  <2>1. ASSUME NEW item \in queue
        PROVE  /\ item.version <= nodes[item.idx].version
               /\ removable(nodes[item.idx]) /\ item = Item(item.idx, nodes[item.idx])
    BY <1>1, <1>4
  <2>2. running => \A i \in Alive : removable(nodes[i]) => Item(i, nodes[i]) \in queue
    BY <1>1 DEF SimplifyInit
  <2> QED BY <2>1, <2>2 DEF QueueOK
<1> QED BY <1>5, <1>6, <1>7 DEF SimplifyInv

\* What the list says stays true while it does not change.
LEMMA SameNodes ==
  ASSUME SimplifyInv, UNCHANGED <<input, nodes>>, queue' \subseteq queue, running' \in BOOLEAN,
         running' => running /\ \A item \in queue \ queue' : ~IsCurrent(item)
  PROVE  SimplifyInv'
<1>1. /\ n' = n /\ Indices' = Indices /\ Linked' = Linked /\ Alive' = Alive
      /\ input' = input /\ nodes' = nodes
  BY DEF n, Indices, Linked, Alive
<1>2. TypeOK'
  BY <1>1 DEF SimplifyInv, TypeOK
<1>3. LinksOK'
  BY <1>1 DEF SimplifyInv, LinksOK, NextOK, PrevOK
<1>4. QueueOK'
  <2>1. \A i : Item(i, nodes[i])' = Item(i, nodes[i])
    BY <1>1 DEF Item, AreaAt
  <2>2. ASSUME NEW item \in queue'
        PROVE  /\ item.version <= nodes[item.idx].version
               /\ IsCurrent(item) => removable(nodes[item.idx]) /\ item = Item(item.idx, nodes[item.idx])
    BY DEF SimplifyInv, QueueOK
  <2>3. ASSUME running', NEW i \in Alive, removable(nodes[i])
        PROVE  Item(i, nodes[i]) \in queue'
    <3>1. Item(i, nodes[i]) \in queue
      BY <2>3 DEF SimplifyInv, QueueOK
    <3>2. IsCurrent(Item(i, nodes[i]))
      BY <2>3 DEF IsCurrent, Item, Alive
    <3> QED BY <2>3, <3>1, <3>2
  <2>4. \A item : IsCurrent(item)' <=> IsCurrent(item)
    BY <1>1 DEF IsCurrent
  <2>5. \A i : removable(nodes[i])' <=> removable(nodes[i])
    BY <1>1 DEF removable
  <2> QED BY <1>1, <2>1, <2>2, <2>3, <2>4, <2>5 DEF QueueOK
<1> QED BY <1>2, <1>3, <1>4 DEF SimplifyInv

LEMMA NextInv == SimplifyInv /\ [SimplifyNext]_simplifyVars => SimplifyInv'
<1> SUFFICES ASSUME SimplifyInv, [SimplifyNext]_simplifyVars PROVE SimplifyInv'
  OBVIOUS
<1>0. running \in BOOLEAN
  BY DEF SimplifyInv, TypeOK
<1>1. CASE Skip
  BY <1>0, <1>1, SameNodes DEF Skip, Popped
<1>2. CASE Stop
  BY <1>2, SameNodes DEF Stop
<1>3. CASE RemovePoint
  <2>1. PICK item, again : Removes(item, again)
    BY <1>3, RemovePointRemoves
  <2> QED BY <2>1, RemovedType, RemovedLinks, RemovedQueue DEF SimplifyInv
<1>4. CASE Exhaust
  BY <1>4, SameNodes DEF Exhaust
<1>5. CASE UNCHANGED simplifyVars
  BY <1>0, <1>5, SameNodes DEF simplifyVars
<1> QED BY <1>1, <1>2, <1>3, <1>4, <1>5 DEF SimplifyNext

\* The links of the list and the items of the queue have their meaning in every
\* state of simplify, whatever the points, the tolerance and the ties.
THEOREM SimplifyCorrect == SimplifySpec => []SimplifyInv
BY InitInv, NextInv, PTL DEF SimplifySpec

-----------------------------------------------------------------------------
(* The refinement                                                            *)

LEMMA GeneralizationInit == SimplifyInit => Generalization!Init
<1> SUFFICES ASSUME SimplifyInit PROVE Generalization!Init
  OBVIOUS
<1>1. input \in Input /\ Alive = 1..n /\ n = Len(input.points)
  BY InitialNodes DEF n
<1>2. Generalization!Fewest = minKeep
  BY DEF Generalization!Fewest, minKeep
<1>3. n \in Nat /\ minKeep \in Int /\ input.tolerance \in Int
  BY <1>1, InputFacts
<1>4. running = (n > minKeep /\ input.tolerance > 0)
  BY <1>3 DEF SimplifyInit, Untouched
<1> QED BY <1>1, <1>2, <1>4 DEF Generalization!Init

\* The item of the smallest area bounds every triangle.
LEMMA PoppedIsSmallest ==
  ASSUME SimplifyInv, NEW item \in queue, Popped(item), NEW i \in Alive, NEW area, Generalization!Spans(i, area)
  PROVE  area \in Nat /\ item.area \in Nat /\ item.area <= area
<1>1. area \in Nat /\ \E other \in queue : other.area = area
  BY QueueHasAreas DEF Popped
<1>2. item.area \in Nat
  BY DEF SimplifyInv, TypeOK
<1> QED BY <1>1, <1>2 DEF Popped

\* Both modules count by the same definition.
LEMMA SameCount == \A S : Generalization!Cardinality(S) = Cardinality(S)
BY DEF Generalization!Cardinality, Cardinality

LEMMA RemovePointDrops == SimplifyInv /\ RemovePoint => Generalization!Drop
<1> SUFFICES ASSUME SimplifyInv, RemovePoint PROVE Generalization!Drop
  OBVIOUS
<1>1. PICK item, again : Removes(item, again)
  BY RemovePointRemoves
<1> DEFINE i == item.idx
<1>2. /\ item \in queue /\ Popped(item) /\ item.area <= input.tolerance
      /\ input' = input /\ running' = running
  BY <1>1, RemovesFacts
<1>3. i \in Alive /\ Alive' = Alive \ {i}
  BY <1>1, RemovedAlive DEF SimplifyInv
<1>4. removable(nodes[i]) /\ item = Item(i, nodes[i])
  BY <1>1, RemovedHadNeighbours
<1>5. Generalization!Spans(i, item.area)
  <2>1. item.area = AreaAt(nodes[i].prev, i, nodes[i].next)
    BY <1>4 DEF Item
  <2>2. TypeOK /\ LinksOK
    BY DEF SimplifyInv
  <2> HIDE DEF i
  <2> QED BY <1>3, <1>4, <2>1, <2>2, SpansIsArea
<1>6. item.area \in 0..input.tolerance
  BY <1>2, InputFacts DEF SimplifyInv, TypeOK
<1>7. ASSUME NEW other \in Alive, NEW less \in 0..(item.area - 1)
      PROVE  ~Generalization!Spans(other, less)
  BY <1>2, <1>6, <1>7, PoppedIsSmallest
<1>8. running /\ Cardinality(Alive) > Generalization!Fewest
  BY <1>2 DEF Popped, Generalization!Fewest, minKeep
<1>9. Generalization!Cardinality(Alive) > Generalization!Fewest
  BY <1>8, SameCount
<1> QED BY <1>2, <1>3, <1>5, <1>6, <1>7, <1>8, <1>9 DEF Generalization!Drop

LEMMA StopEnds == SimplifyInv /\ Stop => Generalization!End
<1> SUFFICES ASSUME SimplifyInv, Stop PROVE Generalization!End
  OBVIOUS
<1>1. PICK item \in queue : /\ Popped(item) /\ item.area > input.tolerance
                            /\ running' = FALSE /\ UNCHANGED <<input, nodes>>
  BY DEF Stop
<1>2. input.tolerance \in Int
  BY InputFacts DEF SimplifyInv, TypeOK
<1>3. ASSUME NEW i \in Alive, NEW area \in 0..input.tolerance
      PROVE  ~Generalization!Spans(i, area)
  BY <1>1, <1>2, PoppedIsSmallest
<1>4. running /\ Alive' = Alive /\ input' = input
  BY <1>1 DEF Popped, Alive, Indices, n
<1> QED BY <1>1, <1>3, <1>4 DEF Generalization!End

LEMMA ExhaustEnds == SimplifyInv /\ Exhaust => Generalization!End
<1> SUFFICES ASSUME SimplifyInv, Exhaust PROVE Generalization!End
  OBVIOUS
<1>1. running /\ running' = FALSE /\ Alive' = Alive /\ input' = input
  BY DEF Exhaust, Alive, Indices, n
<1>2. CASE queue = {}
  <2>1. ASSUME NEW i \in Alive, NEW area \in 0..input.tolerance
        PROVE  ~Generalization!Spans(i, area)
    BY <1>1, <1>2, QueueHasAreas
  <2> QED BY <1>1, <2>1 DEF Generalization!End
<1>3. CASE Cardinality(Alive) <= minKeep
  BY <1>1, <1>3, SameCount DEF Generalization!End, Generalization!Fewest, minKeep
<1> QED BY <1>2, <1>3 DEF Exhaust

LEMMA SimplifyStepImplements ==
  SimplifyInv /\ [SimplifyNext]_simplifyVars
    => [Generalization!Drop \/ Generalization!End]_<<input, Alive, running>>
<1> SUFFICES ASSUME SimplifyInv, [SimplifyNext]_simplifyVars
             PROVE  [Generalization!Drop \/ Generalization!End]_<<input, Alive, running>>
  OBVIOUS
<1>1. CASE Skip
  BY <1>1 DEF Skip, Alive, Indices, n
<1>2. CASE UNCHANGED simplifyVars
  BY <1>2 DEF simplifyVars, Alive, Indices, n
<1> QED BY <1>1, <1>2, RemovePointDrops, StopEnds, ExhaustEnds DEF SimplifyNext

\* The linked list and the heap with its stale items remove, of every line and
\* ring, a point of the smallest triangle of the moment, and stop no earlier and
\* no later than promised.
THEOREM SimplifyImplementsGeneralization == SimplifySpec => ImplementsGeneralization
<1>1. SimplifyInv /\ [SimplifyNext]_simplifyVars
        => [Generalization!Drop \/ Generalization!End]_<<input, Alive, running>>
  BY SimplifyStepImplements
<1> QED BY <1>1, SimplifyCorrect, GeneralizationInit, PTL
        DEF SimplifySpec, ImplementsGeneralization, Generalization!Spec

-----------------------------------------------------------------------------
(* The identity of rings                                                     *)

LEMMA RemainderOfMirror ==
  ASSUME NEW s \in Nat \ {0}, NEW N \in Int
  PROVE  (s - 1 - N) % s = s - 1 - (N % s)
<1> DEFINE q == N \div s
           r == N % s
<1>1. q \in Int /\ r \in 0..(s - 1) /\ N = s * q + r
  BY DivisionIs
<1> HIDE DEF q, r
<1>2. s - 1 - N = s * (-q) + (s - 1 - r)
  BY <1>1
<1>3. (s - 1 - N) % s = s - 1 - r
  BY <1>1, <1>2, DivisionIsUnique, SMTT(30)
<1> QED BY <1>3 DEF r

LEMMA RemainderOfSum ==
  ASSUME NEW N \in Nat \ {0}, NEW a \in Int, NEW b \in Int
  PROVE  ((a % N) + b) % N = (a + b) % N
<1> DEFINE r == a % N
           A == a \div N
           s == (r + b) % N
           B == (r + b) \div N
<1>1. A \in Int /\ r \in 0..(N - 1) /\ a = N * A + r
  BY DivisionIs
<1>2. B \in Int /\ s \in 0..(N - 1) /\ r + b = N * B + s
  BY <1>1, DivisionIs, SMTT(30)
<1> HIDE DEF r, A, s, B
<1>3. N * A + N * B = N * (A + B)
  BY <1>1, <1>2
<1>4. a + b = N * (A + B) + s
  <2> DEFINE x == N * A
             y == N * B
  <2>1. x \in Int /\ y \in Int /\ a = x + r /\ r + b = y + s /\ x + y = N * (A + B)
    BY <1>1, <1>2, <1>3
  <2> HIDE DEF x, y
  <2>2. a + b = (x + y) + s
    BY <1>1, <1>2, <2>1
  <2> QED BY <2>1, <2>2
<1>5. (a + b) % N = s
  <2> DEFINE C == A + B
  <2>1. C \in Int /\ a + b = N * C + s
    BY <1>1, <1>2, <1>4
  <2> HIDE DEF C
  <2>2. (N * C + s) % N = s
    BY <1>2, <2>1, DivisionIsUnique
  <2> QED BY <2>1, <2>2
<1> QED BY <1>5 DEF s, r

\* The remainder as a name, of which the prover is to know these facts only.
Modulo(t, N) == t % N

LEMMA ModuloFacts ==
  ASSUME NEW N \in Nat \ {0}, NEW t \in Int
  PROVE  /\ Modulo(t, N) \in 0..(N - 1)
         /\ t \in 0..(N - 1) => Modulo(t, N) = t
         /\ Modulo(t + N, N) = Modulo(t, N)
         /\ Modulo(N - 1 - t, N) = N - 1 - Modulo(t, N)
<1>1. t % N \in 0..(N - 1)
  BY DivisionIs
<1>2. t \in 0..(N - 1) => t % N = t
  BY SmallRemainder
<1>3. (t + N) % N = t % N
  BY RemainderOfTurn
<1>4. (N - 1 - t) % N = N - 1 - (t % N)
  BY RemainderOfMirror
<1> QED BY <1>1, <1>2, <1>3, <1>4 DEF Modulo

LEMMA ModuloOfSum ==
  ASSUME NEW N \in Nat \ {0}, NEW a \in Int, NEW b \in Int
  PROVE  Modulo(Modulo(a, N) + b, N) = Modulo(a + b, N)
BY RemainderOfSum DEF Modulo

\* A point of the grid, and rings of N of them.
GridPoint == [1..2 -> Int]

GridRing(N) == [1..N -> GridPoint]

LEMMA RingLength ==
  ASSUME NEW N \in Nat, NEW q \in GridRing(N)
  PROVE  Len(q) = N /\ DOMAIN q = 1..N
BY DEF GridRing

LEMMA PointAtFacts ==
  ASSUME NEW N \in Nat \ {0}, NEW q \in GridRing(N), NEW t \in Int
  PROVE  /\ PointAt(q, t) \in GridPoint
         /\ PointAt(q, t) = q[Modulo(t, N) + 1]
         /\ PointAt(q, t + N) = PointAt(q, t)
<1>1. Len(q) = N
  BY RingLength
<1>2. Modulo(t, N) + 1 \in 1..N /\ Modulo(t + N, N) = Modulo(t, N)
  <2>1. Modulo(t, N) \in 0..(N - 1) /\ Modulo(t + N, N) = Modulo(t, N)
    BY ModuloFacts
  <2> DEFINE u == Modulo(t, N)
  <2>2. u \in 0..(N - 1)
    BY <2>1
  <2> HIDE DEF u
  <2>3. u + 1 \in 1..N
    BY <2>2
  <2> QED BY <2>1, <2>3 DEF u
<1>3. PointAt(q, t) = q[Modulo(t, N) + 1] /\ PointAt(q, t + N) = q[Modulo(t + N, N) + 1]
  BY <1>1 DEF PointAt, Modulo
<1> QED BY <1>2, <1>3 DEF GridRing

LEMMA RotatedType ==
  ASSUME NEW N \in Nat, NEW q \in GridRing(N), NEW m \in Int
  PROVE  /\ Rotated(q, m) \in GridRing(N)
         /\ \A i \in 1..N : Rotated(q, m)[i] = PointAt(q, m + i - 1)
<1>1. Len(q) = N /\ DOMAIN q = 1..N
  BY RingLength
<1>2. ASSUME NEW i \in 1..N PROVE PointAt(q, m + i - 1) \in GridPoint
  BY PointAtFacts
<1> QED BY <1>1, <1>2 DEF Rotated, GridRing

LEMMA RotatedAt ==
  ASSUME NEW N \in Nat \ {0}, NEW q \in GridRing(N), NEW m \in Int, NEW t \in Int
  PROVE  PointAt(Rotated(q, m), t) = PointAt(q, m + t)
<1> DEFINE u == Modulo(t, N)
<1>1. u \in 0..(N - 1)
  BY ModuloFacts
<1>2. PointAt(Rotated(q, m), t) = Rotated(q, m)[u + 1]
  BY RotatedType, PointAtFacts
<1>3. Rotated(q, m)[u + 1] = PointAt(q, m + u)
  <2> HIDE DEF u
  <2> DEFINE i == u + 1
  <2>1. i \in 1..N /\ m + i - 1 = m + u
    BY <1>1
  <2> HIDE DEF i
  <2>2. Rotated(q, m)[i] = PointAt(q, m + i - 1)
    BY <2>1, RotatedType
  <2> QED BY <2>1, <2>2 DEF i
<1>4. Modulo(m + u, N) = Modulo(m + t, N)
  <2>1. Modulo(u + m, N) = Modulo(t + m, N)
    BY ModuloOfSum
  <2>2. u + m = m + u /\ t + m = m + t
    BY <1>1
  <2> QED BY <2>1, <2>2
<1> HIDE DEF u
<1>5. PointAt(q, m + u) = q[Modulo(m + u, N) + 1] /\ PointAt(q, m + t) = q[Modulo(m + t, N) + 1]
  BY <1>1, PointAtFacts
<1> QED BY <1>2, <1>3, <1>4, <1>5

LEMMA SameRing ==
  ASSUME NEW N \in Nat, NEW q \in GridRing(N), NEW p \in GridRing(N), \A i \in 1..N : q[i] = p[i]
  PROVE  q = p
BY DEF GridRing

LEMMA RotatedTwice ==
  ASSUME NEW N \in Nat, NEW q \in GridRing(N), NEW m \in Int, NEW k \in Int
  PROVE  Rotated(Rotated(q, m), k) = Rotated(q, m + k)
<1>1. Rotated(q, m) \in GridRing(N) /\ Rotated(Rotated(q, m), k) \in GridRing(N) /\ Rotated(q, m + k) \in GridRing(N)
  BY RotatedType
<1>2. ASSUME NEW i \in 1..N PROVE Rotated(Rotated(q, m), k)[i] = Rotated(q, m + k)[i]
  <2>1. N \in Nat \ {0} /\ k + i - 1 \in Int /\ m + (k + i - 1) = (m + k) + i - 1
    OBVIOUS
  <2>2. Rotated(Rotated(q, m), k)[i] = PointAt(Rotated(q, m), k + i - 1)
    BY <1>1, RotatedType
  <2>3. PointAt(Rotated(q, m), k + i - 1) = PointAt(q, m + (k + i - 1))
    BY <2>1, RotatedAt
  <2>4. Rotated(q, m + k)[i] = PointAt(q, (m + k) + i - 1)
    BY RotatedType
  <2> QED BY <2>1, <2>2, <2>3, <2>4
<1> QED BY <1>1, <1>2, SameRing

LEMMA NotRotated ==
  ASSUME NEW N \in Nat, NEW q \in GridRing(N)
  PROVE  Rotated(q, 0) = q
<1>1. Rotated(q, 0) \in GridRing(N)
  BY RotatedType
<1>2. ASSUME NEW i \in 1..N PROVE Rotated(q, 0)[i] = q[i]
  <2>1. N \in Nat \ {0} /\ i - 1 \in 0..(N - 1) /\ 0 + i - 1 = i - 1
    OBVIOUS
  <2>2. Modulo(i - 1, N) = i - 1
    BY <2>1, ModuloFacts
  <2>3. PointAt(q, i - 1) = q[Modulo(i - 1, N) + 1]
    BY <2>1, PointAtFacts
  <2>4. Rotated(q, 0)[i] = PointAt(q, i - 1)
    BY <2>1, RotatedType
  <2>5. Modulo(i - 1, N) + 1 = i
    BY <2>1, <2>2
  <2> QED BY <2>3, <2>4, <2>5
<1> QED BY <1>1, <1>2, SameRing

LEMMA RotatedByRemainder ==
  ASSUME NEW N \in Nat \ {0}, NEW q \in GridRing(N), NEW m \in Int
  PROVE  Rotated(q, Modulo(m, N)) = Rotated(q, m)
<1> DEFINE u == Modulo(m, N)
<1>1. u \in 0..(N - 1)
  BY ModuloFacts
<1>2. ASSUME NEW i \in 1..N PROVE Rotated(q, u)[i] = Rotated(q, m)[i]
  <2>1. Modulo(u + (i - 1), N) = Modulo(m + (i - 1), N)
    <3> DEFINE b == i - 1
    <3>1. b \in Int
      OBVIOUS
    <3> HIDE DEF b
    <3>2. Modulo(Modulo(m, N) + b, N) = Modulo(m + b, N)
      BY <3>1, ModuloOfSum
    <3> QED BY <3>2 DEF b
  <2> HIDE DEF u
  <2>2. u + i - 1 = u + (i - 1) /\ m + i - 1 = m + (i - 1) /\ u + (i - 1) \in Int /\ m + (i - 1) \in Int
    BY <1>1
  <2>3. Rotated(q, u)[i] = PointAt(q, u + (i - 1)) /\ Rotated(q, m)[i] = PointAt(q, m + (i - 1))
    <3>1. u \in Int
      BY <1>1
    <3>2. Rotated(q, u)[i] = PointAt(q, u + i - 1) /\ Rotated(q, m)[i] = PointAt(q, m + i - 1)
      BY <3>1, RotatedType
    <3> QED BY <2>2, <3>2
  <2>4. /\ PointAt(q, u + (i - 1)) = q[Modulo(u + (i - 1), N) + 1]
        /\ PointAt(q, m + (i - 1)) = q[Modulo(m + (i - 1), N) + 1]
    BY <2>2, PointAtFacts
  <2> QED BY <2>1, <2>3, <2>4
<1> HIDE DEF u
<1>3. Rotated(q, u) \in GridRing(N) /\ Rotated(q, m) \in GridRing(N)
  BY <1>1, RotatedType
<1>4. Rotated(q, u) = Rotated(q, m)
  BY <1>2, <1>3, SameRing
<1> QED BY <1>4 DEF u

LEMMA ReverseType ==
  ASSUME NEW N \in Nat, NEW q \in GridRing(N)
  PROVE  /\ Reverse(q) \in GridRing(N)
         /\ \A i \in 1..N : Reverse(q)[i] = q[(N - i) + 1]
         /\ Reverse(Reverse(q)) = q
<1>1. Len(q) = N
  BY RingLength
<1>2. Reverse(q) = [i \in 1..N |-> q[(N - i) + 1]]
  BY <1>1 DEF Reverse
<1>3. \A i \in 1..N : (N - i) + 1 \in 1..N /\ (N - ((N - i) + 1)) + 1 = i
  OBVIOUS
<1>4. Reverse(q) \in GridRing(N)
  BY <1>2, <1>3 DEF GridRing
<1>5. Reverse(Reverse(q)) = [i \in 1..N |-> Reverse(q)[(N - i) + 1]]
  BY <1>4, RingLength DEF Reverse
<1>6. ASSUME NEW i \in 1..N PROVE Reverse(q)[(N - i) + 1] = q[i]
  BY <1>2, <1>3
<1>7. q = [i \in 1..N |-> q[i]]
  BY DEF GridRing
<1> QED BY <1>2, <1>4, <1>5, <1>6, <1>7

LEMMA ReverseAt ==
  ASSUME NEW N \in Nat \ {0}, NEW q \in GridRing(N), NEW t \in Int
  PROVE  PointAt(Reverse(q), t) = PointAt(q, N - 1 - t)
<1> DEFINE u == Modulo(t, N)
<1>1. u \in 0..(N - 1)
  BY ModuloFacts
<1>2. Modulo(N - 1 - t, N) = N - 1 - u
  BY ModuloFacts
<1>3. PointAt(Reverse(q), t) = Reverse(q)[u + 1]
  BY ReverseType, PointAtFacts
<1>4. PointAt(q, N - 1 - t) = q[Modulo(N - 1 - t, N) + 1]
  BY PointAtFacts
<1> HIDE DEF u
<1>5. u + 1 \in 1..N /\ (N - (u + 1)) + 1 = (N - 1 - u) + 1
  BY <1>1
<1>6. Reverse(q)[u + 1] = q[(N - (u + 1)) + 1]
  BY <1>5, ReverseType
<1> QED BY <1>2, <1>3, <1>4, <1>5, <1>6

LEMMA ReverseRotated ==
  ASSUME NEW N \in Nat, NEW q \in GridRing(N), NEW m \in Int
  PROVE  Reverse(Rotated(q, m)) = Rotated(Reverse(q), -m)
<1>1. /\ Reverse(q) \in GridRing(N) /\ Rotated(q, m) \in GridRing(N) /\ -m \in Int
  BY ReverseType, RotatedType
<1>2. Reverse(Rotated(q, m)) \in GridRing(N) /\ Rotated(Reverse(q), -m) \in GridRing(N)
  BY <1>1, ReverseType, RotatedType
<1>3. ASSUME NEW i \in 1..N PROVE Reverse(Rotated(q, m))[i] = Rotated(Reverse(q), -m)[i]
  <2>1. N \in Nat \ {0} /\ (N - i) + 1 \in 1..N /\ -m + i - 1 \in Int
    OBVIOUS
  <2>2. Reverse(Rotated(q, m))[i] = PointAt(q, m + ((N - i) + 1) - 1)
    <3> DEFINE j == (N - i) + 1
    <3>1. j \in 1..N
      BY <2>1
    <3>2. Reverse(Rotated(q, m))[i] = Rotated(q, m)[j]
      BY <1>1, ReverseType
    <3> HIDE DEF j
    <3>3. Rotated(q, m)[j] = PointAt(q, m + j - 1)
      BY <3>1, RotatedType
    <3> QED BY <3>2, <3>3 DEF j
  <2>3. Rotated(Reverse(q), -m)[i] = PointAt(Reverse(q), -m + i - 1)
    BY <1>1, RotatedType
  <2>4. PointAt(Reverse(q), -m + i - 1) = PointAt(q, N - 1 - (-m + i - 1))
    BY <2>1, ReverseAt
  <2>5. N - 1 - (-m + i - 1) = m + ((N - i) + 1) - 1
    BY <2>1
  <2> QED BY <2>2, <2>3, <2>4, <2>5
<1> QED BY <1>2, <1>3, SameRing

LEMMA LeastNatural ==
  ASSUME NEW S \in SUBSET Nat, S # {}
  PROVE  \E k \in S : \A m \in S : k <= m
<1>1. IsWellFoundedOn(OpToRel(<, Nat), Nat)
  BY NatLessThanWellFounded
<1>2. PICK k \in S : \A m \in S : <<m, k>> \notin OpToRel(<, Nat)
  BY <1>1, WFMin
<1>3. ASSUME NEW m \in S PROVE k <= m
  <2>1. m \in Nat /\ k \in Nat
    OBVIOUS
  <2>2. ~(m < k)
    BY <1>2, <2>1 DEF OpToRel
  <2> QED BY <2>1, <2>2
<1> QED BY <1>3

LEMMA BelowOrder ==
  ASSUME NEW p \in GridPoint, NEW q \in GridPoint
  PROVE  /\ p = q \/ Below(p, q) \/ Below(q, p)
         /\ ~(Below(p, q) /\ Below(q, p))
         /\ \A r \in GridPoint : Below(p, q) /\ Below(q, r) => Below(p, r)
<1>1. ASSUME NEW r \in GridPoint PROVE r[1] \in Int /\ r[2] \in Int
  BY DEF GridPoint
<1>2. p[1] = q[1] /\ p[2] = q[2] => p = q
  BY DEF GridPoint
<1> QED BY <1>1, <1>2 DEF Below

\* Where s is before t in the order of rings.
First(s, t, i, N) == i \in 1..N /\ Below(s[i], t[i]) /\ \A k \in 1..(i - 1) : s[k] = t[k]

LEMMA LexBelowIs ==
  ASSUME NEW N \in Nat, NEW s \in GridRing(N), NEW t \in GridRing(N)
  PROVE  LexBelow(s, t) <=> \E i \in 1..N : First(s, t, i, N)
<1>1. DOMAIN s = 1..N
  BY RingLength
<1>2. ASSUME NEW i \in 1..N, Below(s[i], t[i]) PROVE s[i] # t[i]
  <2>1. s[i] \in GridPoint /\ t[i] \in GridPoint
    BY DEF GridRing
  <2> QED BY <1>2, <2>1, BelowOrder
<1> QED BY <1>1, <1>2 DEF LexBelow, First

LEMMA LexTotal ==
  ASSUME NEW N \in Nat, NEW s \in GridRing(N), NEW t \in GridRing(N)
  PROVE  s = t \/ LexBelow(s, t) \/ LexBelow(t, s)
<1> SUFFICES ASSUME s # t PROVE LexBelow(s, t) \/ LexBelow(t, s)
  OBVIOUS
<1> DEFINE S == {i \in 1..N : s[i] # t[i]}
<1>1. S # {}
  BY SameRing
<1>2. PICK i \in S : \A m \in S : i <= m
  <2>1. S \in SUBSET Nat
    OBVIOUS
  <2> HIDE DEF S
  <2> QED BY <1>1, <2>1, LeastNatural
<1>3. i \in 1..N /\ s[i] # t[i] /\ s[i] \in GridPoint /\ t[i] \in GridPoint
  BY DEF GridRing
<1>4. ASSUME NEW k \in 1..(i - 1) PROVE s[k] = t[k] /\ t[k] = s[k]
  <2>1. k \in 1..N /\ ~(i <= k)
    BY <1>3
  <2> QED BY <1>2, <2>1
<1>5. First(s, t, i, N) \/ First(t, s, i, N)
  BY <1>3, <1>4, BelowOrder DEF First
<1> QED BY <1>3, <1>5, LexBelowIs

LEMMA LexTransitive ==
  ASSUME NEW N \in Nat, NEW s \in GridRing(N), NEW t \in GridRing(N), NEW r \in GridRing(N),
         LexBelow(s, t), LexBelow(t, r)
  PROVE  LexBelow(s, r)
<1>1. PICK i \in 1..N : First(s, t, i, N)
  BY LexBelowIs
<1>2. PICK j \in 1..N : First(t, r, j, N)
  BY LexBelowIs
<1>3. \A k \in 1..N : s[k] \in GridPoint /\ t[k] \in GridPoint /\ r[k] \in GridPoint
  BY DEF GridRing
<1>4. CASE i < j
  <2>1. i \in 1..(j - 1) /\ \A k \in 1..(i - 1) : k \in 1..(j - 1)
    BY <1>4
  <2>2. First(s, r, i, N)
    BY <1>1, <1>2, <2>1 DEF First
  <2> QED BY <2>2, LexBelowIs
<1>5. CASE j < i
  <2>1. j \in 1..(i - 1) /\ \A k \in 1..(j - 1) : k \in 1..(i - 1)
    BY <1>5
  <2>2. First(s, r, j, N)
    BY <1>1, <1>2, <2>1 DEF First
  <2> QED BY <2>2, LexBelowIs
<1>6. CASE i = j
  <2>1. Below(s[i], r[i])
    BY <1>1, <1>2, <1>3, <1>6, BelowOrder DEF First
  <2>2. First(s, r, i, N)
    BY <1>1, <1>2, <1>6, <2>1 DEF First
  <2> QED BY <2>2, LexBelowIs
<1> QED BY <1>4, <1>5, <1>6

LEMMA LexAsymmetric ==
  ASSUME NEW N \in Nat, NEW s \in GridRing(N), NEW t \in GridRing(N), LexBelow(s, t)
  PROVE  ~LexBelow(t, s)
<1> SUFFICES ASSUME LexBelow(t, s) PROVE FALSE
  OBVIOUS
<1>1. LexBelow(s, s)
  BY LexTransitive
<1>2. PICK i \in 1..N : First(s, s, i, N)
  BY <1>1, LexBelowIs
<1>3. s[i] \in GridPoint
  BY DEF GridRing
<1> QED BY <1>2, <1>3, BelowOrder DEF First

\* A rotation that a lesser one shows not to be the least.
Dead(q, m) == \E k \in Int : LexBelow(Rotated(q, k), Rotated(q, m))

\* The least rotation, by the least number that gives it.
LEMMA LeastRotation ==
  ASSUME NEW N \in Nat \ {0}, NEW q \in GridRing(N)
  PROVE  \E m \in 0..(N - 1) : ~Dead(q, m) /\ \A k \in 0..(m - 1) : Dead(q, k)
<1> DEFINE R(m) == Rotated(q, m)
           D == {b \in Nat : \E m \in 0..b : \A k \in 0..b : ~LexBelow(R(k), R(m))}
<1>0. \A m \in Int : R(m) \in GridRing(N)
  BY RotatedType
<1> HIDE DEF R
<1>1. 0 \in D
  <2>1. \A k \in 0..0 : k = 0
    OBVIOUS
  <2>2. ~LexBelow(R(0), R(0))
    BY <1>0, LexAsymmetric
  <2> QED BY <2>1, <2>2
<1>2. ASSUME NEW b \in Nat \cap D PROVE b + 1 \in D
  <2>1. PICK m \in 0..b : \A k \in 0..b : ~LexBelow(R(k), R(m))
    OBVIOUS
  <2>2. \A k \in 0..(b + 1) : k \in 0..b \/ k = b + 1
    OBVIOUS
  <2>3. CASE LexBelow(R(b + 1), R(m))
    <3>1. ASSUME NEW k \in 0..(b + 1) PROVE ~LexBelow(R(k), R(b + 1))
      <4>1. CASE k = b + 1
        BY <1>0, <4>1, LexAsymmetric
      <4>2. CASE k \in 0..b
        <5> SUFFICES ASSUME LexBelow(R(k), R(b + 1)) PROVE FALSE
          OBVIOUS
        <5>1. R(k) \in GridRing(N) /\ R(b + 1) \in GridRing(N) /\ R(m) \in GridRing(N)
          BY <1>0
        <5>2. LexBelow(R(k), R(m))
          BY <2>3, <5>1, LexTransitive
        <5> QED BY <2>1, <4>2, <5>2
      <4> QED BY <2>2, <4>1, <4>2
    <3>2. b + 1 \in 0..(b + 1)
      OBVIOUS
    <3> QED BY <3>1, <3>2
  <2>4. CASE ~LexBelow(R(b + 1), R(m))
    <3>1. m \in 0..(b + 1) /\ \A k \in 0..(b + 1) : ~LexBelow(R(k), R(m))
      BY <2>1, <2>2, <2>4
    <3> QED BY <3>1
  <2> QED BY <2>3, <2>4
<1>3. \A b \in Nat : b \in D
  <2> HIDE DEF D
  <2> QED BY <1>1, <1>2, Induction
<1>4. N - 1 \in D
  BY <1>3
<1>5. PICK m \in 0..(N - 1) : \A k \in 0..(N - 1) : ~LexBelow(R(k), R(m))
  BY <1>4
<1>6. ~Dead(q, m)
  <2> SUFFICES ASSUME NEW k \in Int, LexBelow(Rotated(q, k), Rotated(q, m)) PROVE FALSE
    BY DEF Dead
  <2>1. Modulo(k, N) \in 0..(N - 1) /\ R(Modulo(k, N)) = Rotated(q, k)
    BY ModuloFacts, RotatedByRemainder DEF R
  <2> QED BY <1>5, <2>1 DEF R
<1> DEFINE S == {k \in 0..(N - 1) : ~Dead(q, k)}
<1>7. S \in SUBSET Nat /\ S # {}
  BY <1>6
<1>8. PICK k \in S : \A j \in S : k <= j
  <2> HIDE DEF S
  <2> QED BY <1>7, LeastNatural
<1>9. ASSUME NEW j \in 0..(k - 1) PROVE Dead(q, j)
  <2>1. k \in 0..(N - 1) /\ j \in 0..(N - 1) /\ ~(k <= j)
    BY <1>8
  <2> QED BY <1>8, <2>1
<1> QED BY <1>8, <1>9

-----------------------------------------------------------------------------
(* The duel of two rotations                                                 *)

Contests == [i : Nat, j : Nat, k : Nat]

Over(N, d) == d.i >= N \/ d.j >= N \/ d.k >= N

\* Of the rotations before the further one only the two are still to decide.
DuelInv(q, N, d) ==
  /\ d \in Contests
  /\ d.i # d.j /\ (d.i < N \/ d.j < N) /\ d.k <= N
  /\ \A l \in 0..(d.k - 1) : PointAt(q, d.i + l) = PointAt(q, d.j + l)
  /\ \A m \in Nat : (m < d.i \/ m < d.j) /\ m # d.i /\ m # d.j => Dead(q, m)

\* The rotation that loses, and those from points it shares with the other.
LEMMA Defeated ==
  ASSUME NEW N \in Nat \ {0}, NEW q \in GridRing(N), NEW i \in Nat, NEW j \in Nat, NEW k \in 0..(N - 1),
         \A l \in 0..(k - 1) : PointAt(q, i + l) = PointAt(q, j + l),
         Below(PointAt(q, j + k), PointAt(q, i + k)), NEW m \in i..(i + k)
  PROVE  Dead(q, m)
<1> DEFINE t == m - i
           s == Rotated(q, j + t)
           r == Rotated(q, i + t)
           x == (k - t) + 1
<1>1. t \in 0..k /\ m = i + t /\ i + t \in Nat /\ j + t \in Nat
  OBVIOUS
<1>2. x \in 1..N /\ (j + t) + x - 1 = j + k /\ (i + t) + x - 1 = i + k
  BY <1>1
<1> HIDE DEF t, x
<1>3. /\ s \in GridRing(N) /\ r \in GridRing(N)
      /\ \A y \in 1..N : s[y] = PointAt(q, (j + t) + y - 1) /\ r[y] = PointAt(q, (i + t) + y - 1)
  <2>1. \A c \in Int : /\ Rotated(q, c) \in GridRing(N)
                       /\ \A y \in 1..N : Rotated(q, c)[y] = PointAt(q, c + y - 1)
    BY RotatedType
  <2>2. j + t \in Int /\ i + t \in Int
    BY <1>1
  <2> QED BY <2>1, <2>2
<1> HIDE DEF s, r
<1>4. Below(s[x], r[x])
  BY <1>2, <1>3
<1>5. ASSUME NEW y \in 1..(x - 1) PROVE s[y] = r[y]
  <2> DEFINE l == t + y - 1
  <2>1. l \in 0..(k - 1) /\ (j + t) + y - 1 = j + l /\ (i + t) + y - 1 = i + l /\ y \in 1..N
    BY <1>1, <1>2 DEF x
  <2> HIDE DEF l
  <2> QED BY <1>3, <2>1
<1>6. First(s, r, x, N)
  BY <1>2, <1>4, <1>5 DEF First
<1>7. LexBelow(s, r)
  BY <1>2, <1>3, <1>6, LexBelowIs
<1> QED BY <1>1, <1>7 DEF Dead, s, r

LEMMA DuelStep ==
  ASSUME NEW N \in Nat \ {0}, NEW q \in GridRing(N), NEW d, DuelInv(q, N, d)
  PROVE  /\ DuelInv(q, N, Duel(q, d))
         /\ Over(N, d) => Duel(q, d) = d
         /\ ~Over(N, d) => Duel(q, d).i + Duel(q, d).j + Duel(q, d).k > d.i + d.j + d.k
<1> DEFINE i == d.i
           j == d.j
           k == d.k
           e == Duel(q, d)
<1>1. Len(q) = N
  BY RingLength
<1>2. /\ i \in Nat /\ j \in Nat /\ k \in Nat /\ d = Contest(i, j, k) /\ i # j
      /\ \A l \in 0..(k - 1) : PointAt(q, i + l) = PointAt(q, j + l)
      /\ \A m \in Nat : (m < i \/ m < j) /\ m # i /\ m # j => Dead(q, m)
  BY DEF DuelInv, Contests, Contest
<1>3. CASE Over(N, d)
  <2>1. e = d
    BY <1>1, <1>3 DEF Duel, Over
  <2> QED BY <1>3, <2>1
<1>4. ASSUME ~Over(N, d) PROVE DuelInv(q, N, e) /\ e.i + e.j + e.k > i + j + k
  <2>1. i < N /\ j < N /\ k < N /\ k \in 0..(N - 1)
    BY <1>2, <1>4 DEF Over
  <2>2. PointAt(q, i + k) \in GridPoint /\ PointAt(q, j + k) \in GridPoint
    BY <1>2, PointAtFacts
  <2> DEFINE Past(loser, other) == IF loser + k + 1 = other THEN other + 1 ELSE loser + k + 1
  <2>3. e = IF PointAt(q, i + k) = PointAt(q, j + k) THEN Contest(i, j, k + 1)
            ELSE IF Below(PointAt(q, j + k), PointAt(q, i + k)) THEN Contest(Past(i, j), j, 0)
            ELSE Contest(i, Past(j, i), 0)
    BY <1>1, <1>4 DEF Duel, Over
  <2> HIDE DEF e, i, j, k
  <2>4. CASE PointAt(q, i + k) = PointAt(q, j + k)
    <3>1. e.i = i /\ e.j = j /\ e.k = k + 1 /\ e \in Contests
      BY <1>2, <2>3, <2>4 DEF Contest, Contests
    <3>2. ASSUME NEW l \in 0..((k + 1) - 1) PROVE PointAt(q, i + l) = PointAt(q, j + l)
      <4>1. l \in 0..(k - 1) \/ l = k
        BY <1>2
      <4> QED BY <1>2, <2>4, <4>1
    <3>3. DuelInv(q, N, e)
      BY <1>2, <2>1, <3>1, <3>2 DEF DuelInv
    <3> QED BY <1>2, <3>1, <3>3
  <2>5. CASE Below(PointAt(q, j + k), PointAt(q, i + k))
    <3> DEFINE a == Past(i, j)
    <3>1. ~(PointAt(q, i + k) = PointAt(q, j + k))
      BY <2>2, <2>5, BelowOrder
    <3>2. e.i = a /\ e.j = j /\ e.k = 0 /\ e = Contest(a, j, 0)
      BY <2>3, <2>5, <3>1 DEF Contest
    <3>3. a \in Nat /\ a > i + k /\ a # j /\ \A m \in Nat : m < a => m <= i + k \/ m = j
      BY <1>2
    <3> HIDE DEF a
    <3>4. e \in Contests
      BY <1>2, <3>2, <3>3 DEF Contest, Contests
    <3>5. \A m \in i..(i + k) : Dead(q, m)
      BY <1>2, <2>1, <2>5, Defeated
    <3>6. ASSUME NEW m \in Nat, m < a \/ m < j, m # a, m # j PROVE Dead(q, m)
      <4>1. m \in i..(i + k) \/ (m < i \/ (m < j /\ m # i))
        BY <1>2, <3>3, <3>6
      <4> QED BY <1>2, <3>5, <3>6, <4>1
    <3>7. \A l \in 0..(0 - 1) : PointAt(q, a + l) = PointAt(q, j + l)
      OBVIOUS
    <3>8. DuelInv(q, N, e)
      BY <2>1, <3>2, <3>3, <3>4, <3>6, <3>7 DEF DuelInv
    <3> QED BY <1>2, <3>2, <3>3, <3>8
  <2>6. CASE Below(PointAt(q, i + k), PointAt(q, j + k))
    <3> DEFINE a == Past(j, i)
    <3>1. ~(PointAt(q, i + k) = PointAt(q, j + k)) /\ ~Below(PointAt(q, j + k), PointAt(q, i + k))
      BY <2>2, <2>6, BelowOrder
    <3>2. e.i = i /\ e.j = a /\ e.k = 0 /\ e = Contest(i, a, 0)
      BY <2>3, <3>1 DEF Contest
    <3>3. a \in Nat /\ a > j + k /\ a # i /\ \A m \in Nat : m < a => m <= j + k \/ m = i
      BY <1>2
    <3> HIDE DEF a
    <3>4. e \in Contests
      BY <1>2, <3>2, <3>3 DEF Contest, Contests
    <3>5. \A m \in j..(j + k) : Dead(q, m)
      <4>1. \A l \in 0..(k - 1) : PointAt(q, j + l) = PointAt(q, i + l)
        BY <1>2
      <4> QED BY <1>2, <2>1, <2>6, <4>1, Defeated
    <3>6. ASSUME NEW m \in Nat, m < i \/ m < a, m # i, m # a PROVE Dead(q, m)
      <4>1. m \in j..(j + k) \/ (m < j \/ (m < i /\ m # j))
        BY <1>2, <3>3, <3>6
      <4> QED BY <1>2, <3>5, <3>6, <4>1
    <3>7. \A l \in 0..(0 - 1) : PointAt(q, i + l) = PointAt(q, a + l)
      OBVIOUS
    <3>8. DuelInv(q, N, e)
      BY <2>1, <3>2, <3>3, <3>4, <3>6, <3>7 DEF DuelInv
    <3> QED BY <1>2, <3>2, <3>3, <3>8
  <2> QED BY <2>2, <2>4, <2>5, <2>6, BelowOrder
<1> QED BY <1>3, <1>4

\* The values of the loop.
LEMMA DuelsAre ==
  ASSUME NEW N \in Nat \ {0}, NEW q \in GridRing(N)
  PROVE  \E d \in Contests : minimumRotation(q) = Min({d.i, d.j}) /\ DuelInv(q, N, d) /\ Over(N, d)
<1> DEFINE M == 3 * N
           b == Contest(0, 1, 0)
           Step(d) == Duel(q, d)
           Rec(g) == g = [t \in 0..M |-> IF t = 0 THEN b ELSE Step(g[t - 1])]
           after == CHOOSE g : Rec(g)
           T == {d \in Contests : DuelInv(q, N, d)}
<1>1. M \in Nat /\ Len(q) = N
  BY RingLength
<1>2. b \in T
  <2>1. b \in Contests /\ b.i = 0 /\ b.j = 1 /\ b.k = 0
    BY DEF Contest, Contests
  <2>2. \A m \in Nat : m < 0 \/ m < 1 => m = 0
    OBVIOUS
  <2> HIDE DEF b
  <2>3. DuelInv(q, N, b)
    BY <2>1, <2>2 DEF DuelInv
  <2> QED BY <2>1, <2>3
<1>3. \A d \in T : Step(d) \in T
  BY DuelStep DEF DuelInv
<1>4. \A d \in T : Over(N, d) => Step(d) = d
  BY DuelStep
<1>5. \A d \in T : ~Over(N, d) => Step(d).i + Step(d).j + Step(d).k > d.i + d.j + d.k
  BY DuelStep
<1>6. minimumRotation(q) = Min({after[M].i, after[M].j})
  BY <1>1 DEF minimumRotation
<1>7. \A d \in T : d.i \in Nat /\ d.j \in Nat /\ d.k \in Nat /\ d \in Contests /\ DuelInv(q, N, d)
  BY DEF Contests
<1>8. b.i + b.j + b.k = 1
  BY DEF Contest
<1> HIDE DEF T, Step, b, M
<1>9. \E g : g \in [0..M -> T] /\ Rec(g)
  <2> DEFINE G == [t \in 1..M |-> [d \in T |-> Step(d)]]
  <2>1. G \in [1..M -> [T -> T]]
    BY <1>3
  <2> HIDE DEF G
  <2>2. Recurs(T, b, M, G)
    BY <1>1, <1>2, <2>1, Recursion
  <2>3. PICK g \in [0..M -> T] : g[0] = b /\ \A t \in 1..M : g[t] = G[t][g[t - 1]]
    BY <2>2 DEF Recurs
  <2>4. ASSUME NEW t \in 1..M PROVE g[t] = Step(g[t - 1])
    <3>1. g[t - 1] \in T
      BY <1>1
    <3> QED BY <2>3, <3>1 DEF G
  <2>5. \A t \in 0..M : g[t] = IF t = 0 THEN b ELSE Step(g[t - 1])
    BY <1>1, <2>3, <2>4
  <2> QED BY <2>5
<1>10. Rec(after)
  <2> HIDE DEF Rec
  <2> QED BY <1>9
<1> HIDE DEF after
<1>11. \A t \in 0..M : after[t] = IF t = 0 THEN b ELSE Step(after[t - 1])
  BY <1>10
<1> DEFINE Sum(d) == d.i + d.j + d.k
           D == {t \in Nat : t <= M => /\ after[t] \in T
                                       /\ Over(N, after[t]) \/ Sum(after[t]) >= t + 1}
<1>12. \A t \in Nat : t \in D
  <2>1. 0 \in D
    BY <1>1, <1>2, <1>8, <1>11
  <2>2. ASSUME NEW t \in Nat \cap D PROVE t + 1 \in D
    <3> SUFFICES ASSUME t + 1 <= M
                 PROVE  /\ after[t + 1] \in T
                        /\ Over(N, after[t + 1]) \/ Sum(after[t + 1]) >= (t + 1) + 1
      OBVIOUS
    <3> DEFINE d == after[t]
    <3>1. t + 1 \in 0..M /\ t + 1 # 0 /\ (t + 1) - 1 = t /\ t <= M
      BY <1>1
    <3>2. after[t + 1] = Step(d) /\ d \in T /\ (Over(N, d) \/ Sum(d) >= t + 1)
      BY <1>11, <3>1
    <3> HIDE DEF d
    <3>3. Step(d) \in T
      BY <1>3, <3>2
    <3>4. CASE Over(N, d)
      BY <1>4, <3>2, <3>4
    <3>5. CASE ~Over(N, d)
      <4>1. Sum(Step(d)) > Sum(d) /\ Sum(d) >= t + 1
        BY <1>5, <3>2, <3>5
      <4>2. Sum(Step(d)) \in Nat /\ Sum(d) \in Nat
        BY <1>7, <3>2, <3>3
      <4>3. Sum(Step(d)) >= (t + 1) + 1
        <5> HIDE DEF Sum
        <5> QED BY <4>1, <4>2
      <4> QED BY <3>2, <3>3, <4>3
    <3> QED BY <3>4, <3>5
  <2> HIDE DEF D
  <2> QED BY <2>1, <2>2, Induction
<1>13. after[M] \in T /\ (Over(N, after[M]) \/ Sum(after[M]) >= M + 1)
  BY <1>1, <1>12
<1> DEFINE d == after[M]
<1>14. Over(N, d)
  <2> SUFFICES ASSUME ~Over(N, d) PROVE FALSE
    OBVIOUS
  <2>1. d \in T /\ Sum(d) >= M + 1
    BY <1>13
  <2> HIDE DEF d
  <2>2. d.i \in Nat /\ d.j \in Nat /\ d.k \in Nat /\ d.i < N /\ d.j < N /\ d.k < N
    BY <1>7, <2>1 DEF Over
  <2> QED BY <2>1, <2>2 DEF M
<1> QED BY <1>6, <1>7, <1>13, <1>14

\* Rotations that agree in every point: each later one has an earlier equal.
LEMMA PeriodicRotation ==
  ASSUME NEW N \in Nat \ {0}, NEW q \in GridRing(N), NEW i \in Nat, NEW j \in Nat, NEW x \in Int,
         \A l \in 0..(N - 1) : PointAt(q, i + l) = PointAt(q, j + l)
  PROVE  Rotated(q, i + x) = Rotated(q, j + x)
<1>1. Rotated(q, i) \in GridRing(N) /\ Rotated(q, j) \in GridRing(N)
  BY RotatedType
<1>2. ASSUME NEW y \in 1..N PROVE Rotated(q, i)[y] = Rotated(q, j)[y]
  <2> DEFINE l == y - 1
  <2>1. l \in 0..(N - 1) /\ i + y - 1 = i + l /\ j + y - 1 = j + l
    OBVIOUS
  <2> HIDE DEF l
  <2>2. Rotated(q, i)[y] = PointAt(q, i + y - 1) /\ Rotated(q, j)[y] = PointAt(q, j + y - 1)
    BY RotatedType
  <2>3. PointAt(q, i + l) = PointAt(q, j + l)
    BY <2>1
  <2> QED BY <2>1, <2>2, <2>3
<1>3. Rotated(q, i) = Rotated(q, j)
  BY <1>1, <1>2, SameRing
<1>4. Rotated(Rotated(q, i), x) = Rotated(q, i + x) /\ Rotated(Rotated(q, j), x) = Rotated(q, j + x)
  BY RotatedTwice
<1> QED BY <1>3, <1>4

\* The least of all rotations is found.
LEMMA MinimumRotationIsLeast ==
  ASSUME NEW N \in Nat \ {0}, NEW q \in GridRing(N)
  PROVE  minimumRotation(q) \in Nat /\ ~Dead(q, minimumRotation(q))
<1>1. PICK d \in Contests : minimumRotation(q) = Min({d.i, d.j}) /\ DuelInv(q, N, d) /\ Over(N, d)
  BY DuelsAre
<1>2. PICK m \in 0..(N - 1) : ~Dead(q, m) /\ \A c \in 0..(m - 1) : Dead(q, c)
  BY LeastRotation
<1> DEFINE i == d.i
           j == d.j
<1>3. /\ i \in Nat /\ j \in Nat /\ i # j /\ (i < N \/ j < N) /\ d.k \in Nat /\ d.k <= N
      /\ \A l \in 0..(d.k - 1) : PointAt(q, i + l) = PointAt(q, j + l)
      /\ \A c \in Nat : (c < i \/ c < j) /\ c # i /\ c # j => Dead(q, c)
  BY <1>1 DEF DuelInv, Contests
<1>4. i >= N \/ j >= N \/ d.k = N
  BY <1>1, <1>3 DEF Over
<1> HIDE DEF i, j
<1>5. minimumRotation(q) = IF i <= j THEN i ELSE j
  BY <1>1, <1>3, PairMinMax DEF i, j
<1>6. ~(m < i \/ m < j) \/ m = i \/ m = j
  BY <1>2, <1>3
<1>7. CASE i >= N \/ j >= N
  <2>1. minimumRotation(q) = m
    BY <1>3, <1>5, <1>6, <1>7
  <2> QED BY <1>2, <2>1
<1>8. CASE d.k = N
  <2>1. \A l \in 0..(N - 1) : PointAt(q, i + l) = PointAt(q, j + l)
    BY <1>3, <1>8
  <2>2. \A x \in Int : Rotated(q, i + x) = Rotated(q, j + x)
    BY <1>3, <2>1, PeriodicRotation
  <2>3. \A x \in Int : Dead(q, i + x) <=> Dead(q, j + x)
    BY <2>2 DEF Dead
  <2>4. ASSUME NEW x \in Nat, m = i + x, j < i PROVE FALSE
    <3>1. j + x \in 0..(m - 1)
      BY <1>2, <1>3, <2>4
    <3>2. x \in Int
      BY <2>4
    <3> QED BY <1>2, <2>3, <2>4, <3>1, <3>2
  <2>5. ASSUME NEW x \in Nat, m = j + x, i < j PROVE FALSE
    <3>1. i + x \in 0..(m - 1)
      BY <1>2, <1>3, <2>5
    <3>2. x \in Int
      BY <2>5
    <3> QED BY <1>2, <2>3, <2>5, <3>1, <3>2
  <2>6. m < i \/ m < j
    <3> SUFFICES ASSUME m >= i, m >= j PROVE FALSE
      BY <1>3
    <3>1. CASE j < i
      <4>1. m - i \in Nat /\ m = i + (m - i)
        BY <1>3
      <4> QED BY <2>4, <3>1, <4>1
    <3>2. CASE i < j
      <4>1. m - j \in Nat /\ m = j + (m - j)
        BY <1>3
      <4> QED BY <2>5, <3>2, <4>1
    <3> QED BY <1>3, <3>1, <3>2
  <2>7. minimumRotation(q) = m
    BY <1>3, <1>5, <1>6, <2>6
  <2> QED BY <1>2, <2>7
<1> QED BY <1>4, <1>7, <1>8

-----------------------------------------------------------------------------
(* Signatures                                                                *)

\* The least of the rotations of q.
LeastTurn(q) == Rotated(q, minimumRotation(q))

\* p, read from another of its points.
TurnOf(q, p) == \E m \in Int : q = Rotated(p, m)

LEMMA CanonicalFacts ==
  ASSUME NEW N \in Nat, NEW q \in GridRing(N)
  PROVE  /\ LeastTurn(q) \in GridRing(N)
         /\ TurnOf(LeastTurn(q), q)
         /\ \A m \in Int : ~LexBelow(Rotated(q, m), LeastTurn(q))
<1>1. CASE N = 0
  <2>1. \A s \in GridRing(N) : ~LexBelow(s, q)
    <3>1. \A s \in GridRing(N) : DOMAIN s = {}
      BY <1>1, RingLength
    <3> QED BY <3>1 DEF LexBelow
  <2>2. LeastTurn(q) = q
    <3>1. DOMAIN q = {}
      BY <1>1, RingLength
    <3>2. LeastTurn(q) = [i \in {} |-> PointAt(q, minimumRotation(q) + i - 1)]
      BY <3>1 DEF LeastTurn, Rotated
    <3>3. q = [i \in {} |-> q[i]]
      BY <1>1 DEF GridRing
    <3> QED BY <3>2, <3>3
  <2>3. \A m \in Int : Rotated(q, m) \in GridRing(N)
    BY RotatedType
  <2>4. q = Rotated(q, 0)
    BY NotRotated
  <2>5. TurnOf(q, q)
    BY <2>4 DEF TurnOf
  <2> QED BY <2>1, <2>2, <2>3, <2>5
<1>2. CASE N # 0
  <2>1. minimumRotation(q) \in Int /\ ~Dead(q, minimumRotation(q))
    BY <1>2, MinimumRotationIsLeast
  <2>2. Rotated(q, minimumRotation(q)) \in GridRing(N)
    BY <2>1, RotatedType
  <2> QED BY <2>1, <2>2 DEF Dead, LeastTurn, TurnOf
<1> QED BY <1>1, <1>2

LEMMA TurnFacts ==
  ASSUME NEW N \in Nat, NEW q \in GridRing(N), NEW p \in GridRing(N), NEW r \in GridRing(N)
  PROVE  /\ TurnOf(q, p) => TurnOf(p, q)
         /\ TurnOf(q, p) /\ TurnOf(p, r) => TurnOf(q, r)
         /\ TurnOf(q, p) => TurnOf(Reverse(q), Reverse(p))
<1>1. ASSUME NEW m \in Int, q = Rotated(p, m) PROVE p = Rotated(q, -m)
  <2>1. Rotated(Rotated(p, m), -m) = Rotated(p, m + (-m))
    BY RotatedTwice
  <2>2. m + (-m) = 0
    OBVIOUS
  <2>3. Rotated(p, 0) = p
    BY NotRotated
  <2> QED BY <1>1, <2>1, <2>2, <2>3
<1>2. ASSUME NEW m \in Int, NEW k \in Int, q = Rotated(p, m), p = Rotated(r, k) PROVE q = Rotated(r, k + m)
  BY <1>2, RotatedTwice
<1>3. ASSUME NEW m \in Int, q = Rotated(p, m) PROVE Reverse(q) = Rotated(Reverse(p), -m)
  BY <1>3, ReverseRotated
<1>4. \A m, k \in Int : -m \in Int /\ k + m \in Int
  OBVIOUS
<1> QED BY <1>1, <1>2, <1>3, <1>4 DEF TurnOf

LEMMA CanonicalOfTurn ==
  ASSUME NEW N \in Nat, NEW q \in GridRing(N), NEW p \in GridRing(N), TurnOf(q, p)
  PROVE  LeastTurn(q) = LeastTurn(p)
<1>1. LeastTurn(q) \in GridRing(N) /\ LeastTurn(p) \in GridRing(N)
  BY CanonicalFacts
<1>2. TurnOf(LeastTurn(q), q) /\ TurnOf(LeastTurn(p), p)
  BY CanonicalFacts
<1>3. TurnOf(LeastTurn(q), p)
  BY <1>1, <1>2, TurnFacts
<1>4. TurnOf(p, q)
  BY TurnFacts
<1>5. TurnOf(LeastTurn(p), q)
  BY <1>1, <1>2, <1>4, TurnFacts
<1>6. ~LexBelow(LeastTurn(q), LeastTurn(p))
  BY <1>3, CanonicalFacts DEF TurnOf
<1>7. ~LexBelow(LeastTurn(p), LeastTurn(q))
  BY <1>5, CanonicalFacts DEF TurnOf
<1> QED BY <1>1, <1>6, <1>7, LexTotal

\* The lesser of the two directions.
SignatureOf(q) ==
  IF LexBelow(LeastTurn(Reverse(q)), LeastTurn(q)) THEN LeastTurn(Reverse(q)) ELSE LeastTurn(q)

LEMMA SignatureOfTurn ==
  ASSUME NEW N \in Nat, NEW q \in GridRing(N), NEW p \in GridRing(N), TurnOf(q, p)
  PROVE  SignatureOf(q) = SignatureOf(p)
<1>1. Reverse(q) \in GridRing(N) /\ Reverse(p) \in GridRing(N) /\ TurnOf(Reverse(q), Reverse(p))
  BY ReverseType, TurnFacts
<1>2. LeastTurn(q) = LeastTurn(p)
  BY CanonicalOfTurn
<1>3. LeastTurn(Reverse(q)) = LeastTurn(Reverse(p))
  BY <1>1, CanonicalOfTurn
<1> QED BY <1>2, <1>3 DEF SignatureOf

LEMMA SignatureOfReverse ==
  ASSUME NEW N \in Nat, NEW q \in GridRing(N)
  PROVE  SignatureOf(Reverse(q)) = SignatureOf(q)
<1>1. Reverse(Reverse(q)) = q /\ Reverse(q) \in GridRing(N)
  BY ReverseType
<1> DEFINE F == LeastTurn(q)
           B == LeastTurn(Reverse(q))
<1>2. F \in GridRing(N) /\ B \in GridRing(N)
  BY <1>1, CanonicalFacts
<1>3. SignatureOf(q) = IF LexBelow(B, F) THEN B ELSE F
  BY DEF SignatureOf
<1>4. SignatureOf(Reverse(q)) = IF LexBelow(F, B) THEN F ELSE B
  BY <1>1 DEF SignatureOf
<1> HIDE DEF F, B
<1>5. LexBelow(F, B) => ~LexBelow(B, F)
  BY <1>2, LexAsymmetric
<1>6. B = F \/ LexBelow(F, B) \/ LexBelow(B, F)
  BY <1>2, LexTotal
<1> QED BY <1>3, <1>4, <1>5, <1>6

LEMMA SignatureFacts ==
  ASSUME NEW N \in Nat, NEW q \in GridRing(N)
  PROVE  SignatureOf(q) \in GridRing(N) /\ (TurnOf(SignatureOf(q), q) \/ TurnOf(SignatureOf(q), Reverse(q)))
<1>1. Reverse(q) \in GridRing(N)
  BY ReverseType
<1>2. /\ LeastTurn(q) \in GridRing(N) /\ LeastTurn(Reverse(q)) \in GridRing(N)
      /\ TurnOf(LeastTurn(q), q) /\ TurnOf(LeastTurn(Reverse(q)), Reverse(q))
  BY <1>1, CanonicalFacts
<1> QED BY <1>2 DEF SignatureOf

\* One signature means one ring.
LEMMA SameSignature ==
  ASSUME NEW N \in Nat, NEW q \in GridRing(N), NEW p \in GridRing(N)
  PROVE  SignatureOf(q) = SignatureOf(p) <=> (TurnOf(q, p) \/ TurnOf(q, Reverse(p)))
<1>1. Reverse(q) \in GridRing(N) /\ Reverse(p) \in GridRing(N) /\ Reverse(Reverse(q)) = q /\ Reverse(Reverse(p)) = p
  BY ReverseType
<1>2. ASSUME TurnOf(q, p) PROVE SignatureOf(q) = SignatureOf(p)
  BY <1>2, SignatureOfTurn
<1>3. ASSUME TurnOf(q, Reverse(p)) PROVE SignatureOf(q) = SignatureOf(p)
  <2>1. SignatureOf(q) = SignatureOf(Reverse(p))
    BY <1>1, <1>3, SignatureOfTurn
  <2>2. SignatureOf(Reverse(p)) = SignatureOf(p)
    BY SignatureOfReverse
  <2> QED BY <2>1, <2>2
<1>4. ASSUME SignatureOf(q) = SignatureOf(p) PROVE TurnOf(q, p) \/ TurnOf(q, Reverse(p))
  <2> DEFINE s == SignatureOf(q)
  <2>1. s \in GridRing(N) /\ (TurnOf(s, q) \/ TurnOf(s, Reverse(q))) /\ (TurnOf(s, p) \/ TurnOf(s, Reverse(p)))
    BY <1>4, SignatureFacts
  <2> HIDE DEF s
  <2>2. CASE TurnOf(s, q)
    <3>1. TurnOf(q, s)
      BY <2>1, <2>2, TurnFacts
    <3>2. CASE TurnOf(s, p)
      BY <2>1, <3>1, <3>2, TurnFacts
    <3>3. CASE TurnOf(s, Reverse(p))
      BY <1>1, <2>1, <3>1, <3>3, TurnFacts
    <3> QED BY <2>1, <3>2, <3>3
  <2>3. CASE TurnOf(s, Reverse(q))
    <3>1. TurnOf(Reverse(q), s)
      BY <1>1, <2>1, <2>3, TurnFacts
    <3>2. CASE TurnOf(s, p)
      <4>1. TurnOf(Reverse(q), p)
        BY <1>1, <2>1, <3>1, <3>2, TurnFacts
      <4>2. TurnOf(Reverse(Reverse(q)), Reverse(p))
        BY <1>1, <4>1, TurnFacts
      <4> QED BY <1>1, <4>2
    <3>3. CASE TurnOf(s, Reverse(p))
      <4>1. TurnOf(Reverse(q), Reverse(p))
        BY <1>1, <2>1, <3>1, <3>3, TurnFacts
      <4>2. TurnOf(Reverse(Reverse(q)), Reverse(Reverse(p)))
        BY <1>1, <4>1, TurnFacts
      <4> QED BY <1>1, <4>2
    <3> QED BY <2>1, <3>2, <3>3
  <2> QED BY <2>1, <2>2, <2>3
<1> QED BY <1>2, <1>3, <1>4

LEMMA RotationsAreTurns ==
  ASSUME NEW N \in Nat, NEW p \in GridRing(N), NEW q
  PROVE  q \in RotationsOf(p) <=> TurnOf(q, p)
<1>1. Len(p) = N /\ DOMAIN p = 1..N
  BY RingLength
<1>2. ASSUME NEW k \in Int PROVE Rotated(p, k) = [i \in DOMAIN p |-> p[((i + k - 1) % Len(p)) + 1]]
  <2>1. \A i \in DOMAIN p : k + i - 1 = i + k - 1
    BY <1>1
  <2> QED BY <2>1 DEF Rotated, PointAt
<1>3. RotationsOf(p) = {Rotated(p, k) : k \in 0..N}
  <2>1. RotationsOf(p) = {[i \in DOMAIN p |-> p[((i + k - 1) % Len(p)) + 1]] : k \in 0..Len(p)}
    BY DEF RotationsOf
  <2> DEFINE S == {Rotated(p, k) : k \in 0..N}
  <2>2. \A k \in 0..N : k \in Int
    OBVIOUS
  <2>3. ASSUME NEW s \in RotationsOf(p) PROVE s \in S
    <3>1. PICK k \in 0..N : s = [i \in DOMAIN p |-> p[((i + k - 1) % Len(p)) + 1]]
      BY <1>1, <2>1
    <3>2. s = Rotated(p, k)
      BY <1>2, <2>2, <3>1
    <3> QED BY <3>2
  <2>4. ASSUME NEW k \in 0..N PROVE Rotated(p, k) \in RotationsOf(p)
    <3>1. Rotated(p, k) = [i \in DOMAIN p |-> p[((i + k - 1) % Len(p)) + 1]]
      BY <1>2, <2>2
    <3> QED BY <1>1, <2>1, <3>1
  <2> QED BY <2>3, <2>4
<1>4. ASSUME NEW m \in Int PROVE \E k \in 0..N : Rotated(p, m) = Rotated(p, k)
  <2>1. CASE N = 0
    <3>1. Rotated(p, m) \in GridRing(N) /\ Rotated(p, 0) \in GridRing(N)
      BY RotatedType
    <3>2. \A i \in 1..N : Rotated(p, m)[i] = Rotated(p, 0)[i]
      BY <2>1
    <3>3. Rotated(p, m) = Rotated(p, 0)
      BY <3>1, <3>2, SameRing
    <3> QED BY <3>3
  <2>2. CASE N # 0
    <3>1. N \in Nat \ {0}
      BY <2>2
    <3>2. Modulo(m, N) \in 0..(N - 1)
      BY <3>1, ModuloFacts
    <3>3. Rotated(p, Modulo(m, N)) = Rotated(p, m)
      BY <3>1, RotatedByRemainder
    <3>4. Modulo(m, N) \in 0..N
      BY <3>2
    <3> QED BY <3>3, <3>4
  <2> QED BY <2>1, <2>2
<1> QED BY <1>3, <1>4 DEF TurnOf

LEMMA QuantizedType ==
  ASSUME NEW r \in Seq(Int \X Int)
  PROVE  \E N \in Nat : quantizedRing(r) \in GridRing(N)
<1> DEFINE o == OpenRing(r)
<1>1. Len(r) \in Nat /\ DOMAIN r = 1..Len(r)
  OBVIOUS
<1>2. \E N \in Nat : N <= Len(r) /\ DOMAIN o = 1..N
  <2>1. CASE o = r
    <3>1. Len(r) \in Nat /\ Len(r) <= Len(r) /\ DOMAIN o = 1..Len(r)
      BY <1>1, <2>1
    <3> HIDE DEF o
    <3> QED BY <3>1
  <2>2. CASE o # r
    <3>1. o = Front(r) /\ Len(r) > 1
      BY <2>2 DEF OpenRing
    <3>2. DOMAIN o = 1..(Len(r) - 1) /\ Len(r) - 1 \in Nat /\ Len(r) - 1 <= Len(r)
      BY <1>1, <3>1 DEF Front
    <3> QED BY <3>2
  <2> QED BY <2>1, <2>2
<1>3. PICK N \in Nat : N <= Len(r) /\ DOMAIN o = 1..N
  BY <1>2
<1>4. ASSUME NEW i \in 1..N PROVE quantize(r[i]) \in GridPoint
  <2>1. r[i] \in Int \X Int
    BY <1>1, <1>3
  <2> DEFINE magnitude(c) == (2 * (IF c < 0 THEN -c ELSE c) + QuantUnit) \div (2 * QuantUnit)
  <2>2. ASSUME NEW c \in Int PROVE magnitude(c) \in Int
    <3> DEFINE d == 2 * (IF c < 0 THEN -c ELSE c) + QuantUnit
    <3>1. 2 * QuantUnit \in Nat \ {0} /\ d \in Int
      BY QuantUnitAssumption
    <3> HIDE DEF d
    <3>2. d \div (2 * QuantUnit) \in Int
      BY <3>1, DivisionIs
    <3> QED BY <3>2 DEF d
  <2>3. quantize(r[i]) = [c \in 1..2 |-> IF r[i][c] < 0 THEN -magnitude(r[i][c]) ELSE magnitude(r[i][c])]
    BY DEF quantize
  <2> HIDE DEF magnitude
  <2>4. ASSUME NEW c \in 1..2
        PROVE  (IF r[i][c] < 0 THEN -magnitude(r[i][c]) ELSE magnitude(r[i][c])) \in Int
    <3>1. r[i][c] \in Int
      BY <2>1
    <3>2. magnitude(r[i][c]) \in Int
      BY <2>2, <3>1
    <3> QED BY <3>2
  <2> QED BY <2>3, <2>4 DEF GridPoint
<1>5. quantizedRing(r) = [i \in 1..N |-> quantize(r[i])]
  BY <1>3 DEF quantizedRing
<1> QED BY <1>4, <1>5 DEF GridRing

LEMMA SignatureIs == \A r : ringSignature(r) = SignatureOf(quantizedRing(r))
BY DEF ringSignature, SignatureOf, LeastTurn

LEMMA SignaturesIdentify ==
  ASSUME NEW a \in Seq(Int \X Int), NEW b \in Seq(Int \X Int)
  PROVE  ringSignature(a) = ringSignature(b) <=>
           (quantizedRing(a) \in RotationsOf(quantizedRing(b)) \/ quantizedRing(a) \in RotationsOf(Reverse(quantizedRing(b))))
<1> DEFINE q == quantizedRing(a)
           p == quantizedRing(b)
<1>1. PICK N \in Nat : q \in GridRing(N)
  BY QuantizedType
<1>2. PICK M \in Nat : p \in GridRing(M)
  BY QuantizedType
<1>3. ringSignature(a) = SignatureOf(q) /\ ringSignature(b) = SignatureOf(p)
  BY SignatureIs
<1> HIDE DEF q, p
<1>4. Reverse(p) \in GridRing(M)
  BY <1>2, ReverseType
<1>5. /\ q \in RotationsOf(p) <=> TurnOf(q, p)
      /\ q \in RotationsOf(Reverse(p)) <=> TurnOf(q, Reverse(p))
  BY <1>2, <1>4, RotationsAreTurns
<1>6. CASE N = M
  BY <1>1, <1>2, <1>3, <1>5, <1>6, SameSignature DEF q, p
<1>7. CASE N # M
  <2>1. \A s \in GridRing(N) : s \notin GridRing(M)
    <3>1. ASSUME NEW s \in GridRing(N), s \in GridRing(M) PROVE FALSE
      <4>1. Len(s) = N /\ Len(s) = M
        BY <3>1, RingLength
      <4> QED BY <1>7, <4>1
    <3> QED BY <3>1
  <2>2. SignatureOf(q) # SignatureOf(p)
    BY <1>1, <1>2, <2>1, SignatureFacts
  <2>3. \A m \in Int : Rotated(p, m) \in GridRing(M) /\ Rotated(Reverse(p), m) \in GridRing(M)
    BY <1>2, <1>4, RotatedType
  <2>4. ~TurnOf(q, p) /\ ~TurnOf(q, Reverse(p))
    BY <1>1, <2>1, <2>3 DEF TurnOf
  <2> QED BY <1>3, <1>5, <2>2, <2>4 DEF q, p
<1> QED BY <1>6, <1>7

\* A signing that has answered answered with the signatures of its rings.
SigningInv ==
  /\ job \in Jobs
  /\ Done("signature") => result = <<ringSignature(job.call[1]), ringSignature(job.call[2])>>

LEMMA SigningInvInit == GeometryInit => SigningInv
BY DEF GeometryInit, SigningInv, Done

LEMMA SigningInvNext == SigningInv /\ [GeometryNext]_geometryVars => SigningInv'
<1> SUFFICES ASSUME SigningInv, [GeometryNext]_geometryVars PROVE SigningInv'
  OBVIOUS
<1> USE DEF SigningInv, Done
<1>1. ASSUME UNCHANGED <<job, result>> PROVE SigningInv'
  BY <1>1
<1>2. ASSUME UNCHANGED job, job.kind # "signature" PROVE SigningInv'
  BY <1>2
<1>3. CASE PlanRoute
  BY <1>2, <1>3 DEF PlanRoute, Answer
<1>4. CASE AssembleRings
  BY <1>2, <1>4 DEF AssembleRings, Answer
<1>5. CASE CollectBoundaries
  BY <1>2, <1>5 DEF CollectBoundaries, Answer
<1>6. CASE ValidateTerritories
  BY <1>2, <1>6 DEF ValidateTerritories, Answer
<1>7. CASE EncodeFeature
  BY <1>2, <1>7 DEF EncodeFeature, Answer
<1>8. CASE SignRings
  BY <1>8 DEF SignRings, Answer
<1>9. CASE SimplifyStep
  BY <1>1, <1>9 DEF SimplifyStep
<1>10. CASE UNCHANGED geometryVars
  BY <1>1, <1>10 DEF geometryVars
<1> QED BY <1>3, <1>4, <1>5, <1>6, <1>7, <1>8, <1>9, <1>10 DEF GeometryNext

LEMMA SigningInvImplies == SigningInv => SignatureIdentifiesRing
<1> SUFFICES ASSUME SigningInv, Done("signature") PROVE SignatureIdentifiesRing
  BY DEF SignatureIdentifiesRing
<1> DEFINE a == job.call[1]
           b == job.call[2]
<1>1. a \in Seq(Int \X Int) /\ b \in Seq(Int \X Int)
  BY JobsAssumption DEF SigningInv, Done
<1>2. result[1] = ringSignature(a) /\ result[2] = ringSignature(b)
  BY DEF SigningInv
<1> HIDE DEF a, b
<1>3. ringSignature(a) = ringSignature(b) <=>
        (quantizedRing(a) \in RotationsOf(quantizedRing(b)) \/ quantizedRing(a) \in RotationsOf(Reverse(quantizedRing(b))))
  BY <1>1, SignaturesIdentify
<1> QED BY <1>2, <1>3 DEF SignatureIdentifiesRing, a, b

(* Two rings have one signature exactly if they are one ring on the grid,    *)
(* read from another point or backwards: the two pointers of minimumRotation *)
(* find the least rotation of any ring, also of one that repeats its points. *)
THEOREM SignaturesAreIdentity == GeometrySpec => []SignatureIdentifiesRing
<1> QED BY SigningInvInit, SigningInvNext, SigningInvImplies, PTL DEF GeometrySpec

-----------------------------------------------------------------------------
(* Lines of nodes                                                            *)

Line == {w \in Seq(Int) : Len(w) >= 2}

Place(lines, l, i) == l \in DOMAIN lines /\ i \in 1..(Len(lines[l]) - 1)

LEMMA LineFacts ==
  ASSUME NEW w \in Line
  PROVE  /\ w \in Seq(Int) /\ Len(w) \in Nat /\ Len(w) >= 2 /\ DOMAIN w = 1..Len(w)
         /\ \A i \in 1..Len(w) : w[i] \in Int
         /\ w[1] \in Int /\ Last(w) \in Int /\ Last(w) = w[Len(w)]
<1>1. w \in Seq(Int) /\ Len(w) \in Nat /\ Len(w) >= 2 /\ DOMAIN w = 1..Len(w) /\ \A i \in 1..Len(w) : w[i] \in Int
  BY DEF Line
<1>2. 1 \in 1..Len(w) /\ Len(w) \in 1..Len(w)
  BY <1>1
<1> QED BY <1>1, <1>2 DEF Last

LEMMA EdgesAre ==
  ASSUME NEW lines, NEW e
  PROVE  e \in EdgesOf(lines) <=> \E l, i : Place(lines, l, i) /\ e = Edge(lines[l], i)
BY DEF EdgesOf, Place

LEMMA OnceMeans ==
  ASSUME NEW lines
  PROVE  EachOnce(lines) <=>
           /\ \A l, i : Place(lines, l, i) => lines[l][i] # lines[l][i + 1]
           /\ \A l, i, m, j : Place(lines, l, i) /\ Place(lines, m, j) /\ Edge(lines[l], i) = Edge(lines[m], j) => l = m /\ i = j
<1>1. ASSUME EachOnce(lines)
      PROVE  /\ \A l, i : Place(lines, l, i) => lines[l][i] # lines[l][i + 1]
             /\ \A l, i, m, j : Place(lines, l, i) /\ Place(lines, m, j) /\ Edge(lines[l], i) = Edge(lines[m], j) => l = m /\ i = j
  BY <1>1 DEF EachOnce, Place
<1>2. ASSUME /\ \A l, i : Place(lines, l, i) => lines[l][i] # lines[l][i + 1]
             /\ \A l, i, m, j : Place(lines, l, i) /\ Place(lines, m, j) /\ Edge(lines[l], i) = Edge(lines[m], j) => l = m /\ i = j
      PROVE  EachOnce(lines)
  BY <1>2 DEF EachOnce, Place
<1> QED BY <1>1, <1>2

\* b holds edges of a, each in a place of its own: in line g and there h.
Carries(b, a, g, h) ==
  /\ \A l, i : Place(b, l, i) =>
       /\ Place(a, g[l][i], h[l][i])
       /\ Edge(b[l], i) = Edge(a[g[l][i]], h[l][i])
       /\ b[l][i] = b[l][i + 1] => a[g[l][i]][h[l][i]] = a[g[l][i]][h[l][i] + 1]
  /\ \A l, i, m, j : Place(b, l, i) /\ Place(b, m, j) /\ g[l][i] = g[m][j] /\ h[l][i] = h[m][j] => l = m /\ i = j

LEMMA CarriedEdges ==
  ASSUME NEW a, NEW b, NEW g, NEW h, Carries(b, a, g, h)
  PROVE  /\ EdgesOf(b) \subseteq EdgesOf(a)
         /\ EachOnce(a) => EachOnce(b)
<1>1. ASSUME NEW e \in EdgesOf(b) PROVE e \in EdgesOf(a)
  <2>1. PICK l, i : Place(b, l, i) /\ e = Edge(b[l], i)
    BY EdgesAre
  <2> QED BY <2>1, EdgesAre DEF Carries
<1>2. ASSUME EachOnce(a) PROVE EachOnce(b)
  <2>1. \A l, i : Place(b, l, i) => b[l][i] # b[l][i + 1]
    BY <1>2, OnceMeans DEF Carries
  <2>2. ASSUME NEW l, NEW i, NEW m, NEW j, Place(b, l, i), Place(b, m, j), Edge(b[l], i) = Edge(b[m], j)
        PROVE  l = m /\ i = j
    <3>1. g[l][i] = g[m][j] /\ h[l][i] = h[m][j]
      BY <1>2, <2>2, OnceMeans DEF Carries
    <3> QED BY <2>2, <3>1 DEF Carries
  <2> QED BY <2>1, <2>2, OnceMeans
<1> QED BY <1>1, <1>2

-----------------------------------------------------------------------------
(* A line less                                                               *)

Behind(l, q) == IF l < q THEN l ELSE l + 1

Without(lines, q) == [l \in 1..(Len(lines) - 1) |-> lines[Behind(l, q)]]

LEMMA BehindFacts ==
  ASSUME NEW N \in Nat, NEW q \in 1..N
  PROVE  /\ \A l \in 1..(N - 1) : Behind(l, q) \in 1..N /\ Behind(l, q) # q
         /\ \A l, m \in 1..(N - 1) : Behind(l, q) = Behind(m, q) => l = m
         /\ \A m \in 1..N : m # q => \E l \in 1..(N - 1) : Behind(l, q) = m
<1>1. ASSUME NEW m \in 1..N, m # q PROVE \E l \in 1..(N - 1) : Behind(l, q) = m
  <2>1. CASE m < q
    <3>1. m \in 1..(N - 1) /\ Behind(m, q) = m
      BY <2>1 DEF Behind
    <3> QED BY <3>1
  <2>2. CASE m > q
    <3>1. m - 1 \in 1..(N - 1) /\ Behind(m - 1, q) = m
      BY <2>2 DEF Behind
    <3> QED BY <3>1
  <2> QED BY <1>1, <2>1, <2>2
<1>2. \A l \in 1..(N - 1) : Behind(l, q) \in 1..N /\ Behind(l, q) # q
  BY DEF Behind
<1>3. \A l, m \in 1..(N - 1) : Behind(l, q) = Behind(m, q) => l = m
  BY DEF Behind
<1> QED BY <1>1, <1>2, <1>3

Numbered(lines) == Len(lines) \in Nat /\ DOMAIN lines = 1..Len(lines)

LEMMA WithoutFacts ==
  ASSUME NEW lines, Numbered(lines), NEW q \in DOMAIN lines
  PROVE  /\ Numbered(Without(lines, q)) /\ Len(Without(lines, q)) = Len(lines) - 1
         /\ \A l \in 1..(Len(lines) - 1) : Without(lines, q)[l] = lines[Behind(l, q)]
         /\ EdgesOf(Without(lines, q)) \subseteq EdgesOf(lines)
         /\ EachOnce(lines) => EachOnce(Without(lines, q))
         /\ Len(lines[q]) = 1 => EdgesOf(Without(lines, q)) = EdgesOf(lines)
<1> DEFINE N == Len(lines)
           b == Without(lines, q)
           g == [l \in 1..(N - 1) |-> [i \in 1..(Len(b[l]) - 1) |-> Behind(l, q)]]
           h == [l \in 1..(N - 1) |-> [i \in 1..(Len(b[l]) - 1) |-> i]]
<1>1. N \in Nat /\ q \in 1..N /\ N - 1 \in Nat /\ DOMAIN lines = 1..N
  BY DEF Numbered
<1>2. DOMAIN b = 1..(N - 1) /\ Len(b) = N - 1 /\ \A l \in 1..(N - 1) : b[l] = lines[Behind(l, q)]
  BY <1>1 DEF Without
<1> HIDE DEF b, N
<1>3. ASSUME NEW l, NEW i, Place(b, l, i)
      PROVE  l \in 1..(N - 1) /\ g[l][i] = Behind(l, q) /\ h[l][i] = i /\ Place(lines, Behind(l, q), i)
  <2>1. l \in 1..(N - 1) /\ i \in 1..(Len(b[l]) - 1) /\ b[l] = lines[Behind(l, q)]
    BY <1>2, <1>3 DEF Place
  <2>2. Behind(l, q) \in 1..N
    BY <1>1, <2>1, BehindFacts
  <2> QED BY <1>1, <2>1, <2>2 DEF Place
<1> HIDE DEF g, h
<1>4. Carries(b, lines, g, h)
  <2>1. ASSUME NEW l, NEW i, Place(b, l, i)
        PROVE  /\ Place(lines, g[l][i], h[l][i])
               /\ Edge(b[l], i) = Edge(lines[g[l][i]], h[l][i])
               /\ b[l][i] = b[l][i + 1] => lines[g[l][i]][h[l][i]] = lines[g[l][i]][h[l][i] + 1]
    BY <1>2, <1>3, <2>1
  <2>2. ASSUME NEW l, NEW i, NEW m, NEW j, Place(b, l, i), Place(b, m, j), g[l][i] = g[m][j], h[l][i] = h[m][j]
        PROVE  l = m /\ i = j
    <3>1. Behind(l, q) = Behind(m, q) /\ i = j /\ l \in 1..(N - 1) /\ m \in 1..(N - 1)
      BY <1>3, <2>2
    <3> QED BY <1>1, <3>1, BehindFacts
  <2> QED BY <2>1, <2>2 DEF Carries
<1>5. ASSUME Len(lines[q]) = 1, NEW e \in EdgesOf(lines) PROVE e \in EdgesOf(b)
  <2>1. PICK m, i : Place(lines, m, i) /\ e = Edge(lines[m], i)
    BY EdgesAre
  <2>2. m \in 1..N /\ m # q /\ i \in 1..(Len(lines[m]) - 1)
    <3>1. m \in 1..N /\ i \in 1..(Len(lines[m]) - 1)
      BY <1>1, <2>1 DEF Place
    <3>2. ASSUME m = q PROVE FALSE
      <4>1. Len(lines[m]) - 1 = 0
        BY <1>5, <3>2
      <4>2. i \in 1..0
        BY <3>1, <4>1
      <4> QED BY <4>2
    <3> QED BY <3>1, <3>2
  <2>3. PICK l \in 1..(N - 1) : Behind(l, q) = m
    BY <1>1, <2>2, BehindFacts
  <2>4. Place(b, l, i) /\ e = Edge(b[l], i)
    BY <1>2, <2>1, <2>2, <2>3 DEF Place
  <2> QED BY <2>4, EdgesAre
<1>6. EdgesOf(b) \subseteq EdgesOf(lines) /\ (EachOnce(lines) => EachOnce(b))
  BY <1>4, CarriedEdges
<1>7. Numbered(b)
  BY <1>1, <1>2 DEF Numbered
<1> QED BY <1>1, <1>2, <1>5, <1>6, <1>7 DEF b, N

-----------------------------------------------------------------------------
(* Two lines joined                                                          *)

Spliced(a, b) == a \o Continuation(b, Last(a))

\* The far end of b, and where b has edge i of the join.
FarEnd(a, b) == IF b[1] = Last(a) THEN Last(b) ELSE b[1]

Twin(a, b, i) == IF b[1] = Last(a) THEN i - Len(a) + 1 ELSE Len(b) - (i - Len(a) + 1)

LEMMA ContinuationIs ==
  ASSUME NEW b \in Line, NEW t \in Int
  PROVE  /\ Continuation(b, t) \in Seq(Int) /\ Len(Continuation(b, t)) = Len(b) - 1
         /\ \A k \in 1..(Len(b) - 1) : Continuation(b, t)[k] = IF b[1] = t THEN b[k + 1] ELSE b[Len(b) - k]
<1>1. b \in Seq(Int) /\ Len(b) \in Nat /\ Len(b) >= 2 /\ \A i \in 1..Len(b) : b[i] \in Int
  BY LineFacts
<1> DEFINE r == Reverse(b)
<1>2. r \in Seq(Int) /\ Len(r) = Len(b) /\ \A i \in 1..Len(b) : r[i] = b[(Len(b) - i) + 1]
  <2>1. \A i \in 1..Len(b) : (Len(b) - i) + 1 \in 1..Len(b)
    BY <1>1
  <2>2. r = [i \in 1..Len(b) |-> b[(Len(b) - i) + 1]]
    BY DEF Reverse
  <2>3. r \in [1..Len(b) -> Int]
    BY <1>1, <2>1, <2>2
  <2> QED BY <1>1, <2>2, <2>3
<1> HIDE DEF r
<1>3. CASE b[1] = t
  <2>1. Continuation(b, t) = Tail(b)
    BY <1>3 DEF Continuation
  <2> QED BY <1>1, <1>3, <2>1
<1>4. CASE b[1] # t
  <2>1. Continuation(b, t) = Tail(r)
    BY <1>4 DEF Continuation, r
  <2>2. /\ Tail(r) \in Seq(Int) /\ Len(Tail(r)) = Len(b) - 1
        /\ \A k \in 1..(Len(b) - 1) : Tail(r)[k] = r[k + 1]
    BY <1>1, <1>2
  <2>3. ASSUME NEW k \in 1..(Len(b) - 1) PROVE r[k + 1] = b[Len(b) - k]
    <3>1. k + 1 \in 1..Len(b) /\ (Len(b) - (k + 1)) + 1 = Len(b) - k
      BY <1>1
    <3> QED BY <1>2, <3>1
  <2> QED BY <1>4, <2>1, <2>2, <2>3
<1> QED BY <1>3, <1>4

LEMMA JoinFacts ==
  ASSUME NEW a \in Line, NEW b \in Line, b[1] = Last(a) \/ Last(b) = Last(a)
  PROVE  /\ Spliced(a, b) \in Line /\ Len(Spliced(a, b)) = Len(a) + Len(b) - 1
         /\ \A i \in 1..Len(a) : Spliced(a, b)[i] = a[i]
         /\ \A k \in 1..Len(b) : Spliced(a, b)[Len(a) + k - 1] = IF b[1] = Last(a) THEN b[k] ELSE b[(Len(b) - k) + 1]
<1> DEFINE c == Continuation(b, Last(a))
           J == Spliced(a, b)
<1>1. /\ a \in Seq(Int) /\ Len(a) \in Nat /\ Len(a) >= 2 /\ Last(a) \in Int /\ Last(a) = a[Len(a)]
      /\ b \in Seq(Int) /\ Len(b) \in Nat /\ Len(b) >= 2 /\ Last(b) = b[Len(b)]
  BY LineFacts
<1>2. /\ c \in Seq(Int) /\ Len(c) = Len(b) - 1
      /\ \A k \in 1..(Len(b) - 1) : c[k] = IF b[1] = Last(a) THEN b[k + 1] ELSE b[Len(b) - k]
  BY <1>1, ContinuationIs
<1>3. J = a \o c
  BY DEF Spliced
<1> HIDE DEF c, J
<1>4. /\ J \in Seq(Int) /\ Len(J) = Len(a) + Len(b) - 1
      /\ \A i \in 1..Len(a) : J[i] = a[i]
      /\ \A k \in 1..(Len(b) - 1) : J[Len(a) + k] = c[k]
  <2>0. a \in Seq(Int) /\ c \in Seq(Int) /\ J = a \o c
    BY <1>1, <1>2, <1>3
  <2>1. J \in Seq(Int) /\ Len(J) = Len(a) + Len(c)
    BY <2>0
  <2>2. \A i \in 1..Len(a) : J[i] = a[i]
    BY <2>0
  <2>3. ASSUME NEW k \in 1..Len(c) PROVE J[Len(a) + k] = c[k]
    <3>1. Len(a) \in Nat /\ Len(c) \in Nat /\ Len(a) + k \in 1..(Len(a) + Len(c)) /\ ~(Len(a) + k <= Len(a))
      BY <2>0
    <3> QED BY <2>0, <3>1
  <2> QED BY <1>1, <1>2, <2>1, <2>2, <2>3
<1>5. J \in Line
  BY <1>1, <1>4 DEF Line
<1>6. ASSUME NEW k \in 1..Len(b) PROVE J[Len(a) + k - 1] = IF b[1] = Last(a) THEN b[k] ELSE b[(Len(b) - k) + 1]
  <2>1. CASE k = 1
    <3>1. Len(a) + k - 1 = Len(a) /\ Len(a) \in 1..Len(a) /\ (Len(b) - k) + 1 = Len(b)
      BY <1>1, <2>1
    <3>2. J[Len(a) + k - 1] = Last(a)
      BY <1>1, <1>4, <3>1
    <3> QED BY <1>1, <2>1, <3>1, <3>2
  <2>2. CASE k # 1
    <3> DEFINE d == k - 1
    <3>1. d \in 1..(Len(b) - 1) /\ Len(a) + k - 1 = Len(a) + d /\ d + 1 = k /\ Len(b) - d = (Len(b) - k) + 1
      BY <1>1, <2>2
    <3> HIDE DEF d
    <3>2. J[Len(a) + k - 1] = c[d]
      BY <1>4, <3>1
    <3>3. c[d] = IF b[1] = Last(a) THEN b[d + 1] ELSE b[Len(b) - d]
      BY <1>2, <3>1
    <3> QED BY <3>1, <3>2, <3>3
  <2> QED BY <2>1, <2>2
<1> QED BY <1>4, <1>5, <1>6 DEF J

LEMMA JoinEnds ==
  ASSUME NEW a \in Line, NEW b \in Line, b[1] = Last(a) \/ Last(b) = Last(a)
  PROVE  Spliced(a, b)[1] = a[1] /\ Last(Spliced(a, b)) = FarEnd(a, b)
<1> DEFINE J == Spliced(a, b)
<1>1. Len(a) \in Nat /\ Len(a) >= 2 /\ Len(b) \in Nat /\ Len(b) >= 2 /\ Last(b) = b[Len(b)]
  BY LineFacts
<1>2. /\ Len(J) = Len(a) + Len(b) - 1 /\ Last(J) = J[Len(J)]
      /\ \A i \in 1..Len(a) : J[i] = a[i]
      /\ \A k \in 1..Len(b) : J[Len(a) + k - 1] = IF b[1] = Last(a) THEN b[k] ELSE b[(Len(b) - k) + 1]
  BY JoinFacts, LineFacts
<1> HIDE DEF J
<1>3. 1 \in 1..Len(a) /\ Len(b) \in 1..Len(b) /\ (Len(b) - Len(b)) + 1 = 1
  BY <1>1
<1>4. Last(J) = IF b[1] = Last(a) THEN b[Len(b)] ELSE b[1]
  BY <1>2, <1>3
<1> QED BY <1>1, <1>2, <1>3, <1>4 DEF FarEnd, J

LEMMA JoinEdges ==
  ASSUME NEW a \in Line, NEW b \in Line, b[1] = Last(a) \/ Last(b) = Last(a),
         NEW i \in 1..(Len(Spliced(a, b)) - 1)
  PROVE  /\ i < Len(a) => /\ i \in 1..(Len(a) - 1)
                          /\ Edge(Spliced(a, b), i) = Edge(a, i)
                          /\ Spliced(a, b)[i] = Spliced(a, b)[i + 1] => a[i] = a[i + 1]
         /\ i >= Len(a) => /\ Twin(a, b, i) \in 1..(Len(b) - 1)
                           /\ Edge(Spliced(a, b), i) = Edge(b, Twin(a, b, i))
                           /\ Spliced(a, b)[i] = Spliced(a, b)[i + 1] => b[Twin(a, b, i)] = b[Twin(a, b, i) + 1]
<1> DEFINE J == Spliced(a, b)
<1>1. Len(a) \in Nat /\ Len(a) >= 2 /\ Len(b) \in Nat /\ Len(b) >= 2
  BY LineFacts
<1>2. /\ Len(J) = Len(a) + Len(b) - 1
      /\ \A m \in 1..Len(a) : J[m] = a[m]
      /\ \A k \in 1..Len(b) : J[Len(a) + k - 1] = IF b[1] = Last(a) THEN b[k] ELSE b[(Len(b) - k) + 1]
  BY JoinFacts
<1>3. i \in 1..(Len(J) - 1)
  OBVIOUS
<1> HIDE DEF J
<1>4. CASE i < Len(a)
  <2>1. i \in 1..(Len(a) - 1) /\ i \in 1..Len(a) /\ i + 1 \in 1..Len(a)
    BY <1>1, <1>2, <1>3, <1>4
  <2>2. J[i] = a[i] /\ J[i + 1] = a[i + 1]
    BY <1>2, <2>1
  <2> QED BY <1>1, <1>4, <2>1, <2>2 DEF Edge, J
<1>5. CASE i >= Len(a)
  <2> DEFINE k == i - Len(a) + 1
  <2>1. k \in 1..(Len(b) - 1) /\ k \in 1..Len(b) /\ k + 1 \in 1..Len(b) /\ Len(a) + k - 1 = i /\ Len(a) + (k + 1) - 1 = i + 1
    <3>1. i \in Int /\ i <= Len(a) + Len(b) - 2
      BY <1>1, <1>2, <1>3
    <3> QED BY <1>1, <1>5, <3>1
  <2>2. Twin(a, b, i) = IF b[1] = Last(a) THEN k ELSE Len(b) - k
    BY DEF Twin
  <2> HIDE DEF k
  <2>3. /\ J[i] = IF b[1] = Last(a) THEN b[k] ELSE b[(Len(b) - k) + 1]
        /\ J[i + 1] = IF b[1] = Last(a) THEN b[k + 1] ELSE b[(Len(b) - (k + 1)) + 1]
    BY <1>2, <2>1
  <2>4. CASE b[1] = Last(a)
    BY <1>1, <1>5, <2>1, <2>2, <2>3, <2>4 DEF Edge, J
  <2>5. CASE b[1] # Last(a)
    <3> DEFINE u == Len(b) - k
    <3>1. u \in 1..(Len(b) - 1) /\ (Len(b) - (k + 1)) + 1 = u /\ (Len(b) - k) + 1 = u + 1
      BY <1>1, <2>1
    <3>2. Twin(a, b, i) = u
      BY <2>2, <2>5
    <3> HIDE DEF u
    <3>3. J[i] = b[u + 1] /\ J[i + 1] = b[u]
      BY <2>3, <2>5, <3>1
    <3>4. {b[u + 1], b[u]} = {b[u], b[u + 1]}
      OBVIOUS
    <3> QED BY <1>1, <1>5, <3>1, <3>2, <3>3, <3>4 DEF Edge, J
  <2> QED BY <2>4, <2>5
<1> QED BY <1>1, <1>4, <1>5

-----------------------------------------------------------------------------
(* Two lines of many joined                                                  *)

Meet(a, b) == b[1] = Last(a) \/ Last(b) = Last(a)

\* The join in the place of the first of two lines, a single node in the other's.
Knotted(lines, p, q) ==
  [l \in DOMAIN lines |-> IF l = p THEN Spliced(lines[p], lines[q]) ELSE IF l = q THEN <<Last(lines[p])>> ELSE lines[l]]

Merged(lines, p, q) == Without(Knotted(lines, p, q), q)

LEMMA KnottedFacts ==
  ASSUME NEW lines \in Seq(Line), NEW p \in DOMAIN lines, NEW q \in DOMAIN lines, p # q, Meet(lines[p], lines[q])
  PROVE  /\ Numbered(Knotted(lines, p, q)) /\ Len(Knotted(lines, p, q)) = Len(lines)
         /\ Len(Knotted(lines, p, q)[q]) = 1
         /\ EdgesOf(Knotted(lines, p, q)) = EdgesOf(lines)
         /\ EachOnce(lines) => EachOnce(Knotted(lines, p, q))
<1> DEFINE x == Knotted(lines, p, q)
           a == lines[p]
           b == lines[q]
           J == Spliced(a, b)
           Far(l, i) == l = p /\ i >= Len(a)
           g == [l \in DOMAIN lines |-> [i \in 1..(Len(x[l]) - 1) |-> IF Far(l, i) THEN q ELSE l]]
           h == [l \in DOMAIN lines |-> [i \in 1..(Len(x[l]) - 1) |-> IF Far(l, i) THEN Twin(a, b, i) ELSE i]]
<1>1. Len(lines) \in Nat /\ DOMAIN lines = 1..Len(lines) /\ a \in Line /\ b \in Line
  OBVIOUS
<1>2. /\ Len(a) \in Nat /\ Len(a) >= 2 /\ Len(b) \in Nat /\ Len(b) >= 2 /\ Meet(a, b)
      /\ Len(J) = Len(a) + Len(b) - 1
  BY <1>1, LineFacts, JoinFacts DEF Meet
<1>3. /\ DOMAIN x = DOMAIN lines /\ x[p] = J /\ x[q] = <<Last(a)>>
      /\ \A l \in DOMAIN lines : l # p /\ l # q => x[l] = lines[l]
  BY DEF Knotted
<1>4. Len(x) = Len(lines) /\ Len(x[q]) = 1 /\ Numbered(x)
  BY <1>1, <1>3 DEF Numbered
<1>5. ASSUME NEW i \in 1..(Len(J) - 1)
      PROVE  /\ i < Len(a) => i \in 1..(Len(a) - 1) /\ Edge(J, i) = Edge(a, i) /\ (J[i] = J[i + 1] => a[i] = a[i + 1])
             /\ i >= Len(a) => /\ Twin(a, b, i) \in 1..(Len(b) - 1) /\ Edge(J, i) = Edge(b, Twin(a, b, i))
                               /\ J[i] = J[i + 1] => b[Twin(a, b, i)] = b[Twin(a, b, i) + 1]
  BY <1>1, <1>2, JoinEdges DEF Meet
<1> HIDE DEF x, a, b, J
<1>6. ASSUME NEW l, NEW i, Place(x, l, i)
      PROVE  /\ l \in DOMAIN lines /\ l # q /\ i \in 1..(Len(x[l]) - 1)
             /\ g[l][i] = IF Far(l, i) THEN q ELSE l
             /\ h[l][i] = IF Far(l, i) THEN Twin(a, b, i) ELSE i
  <2>1. l \in DOMAIN lines /\ i \in 1..(Len(x[l]) - 1)
    BY <1>3, <1>6 DEF Place
  <2>2. ASSUME l = q PROVE FALSE
    <3>0. Len(x[l]) - 1 = 0
      BY <1>4, <2>2
    <3>1. i \in 1..0
      BY <2>1, <3>0
    <3> QED BY <3>1
  <2> QED BY <2>1, <2>2
<1> HIDE DEF g, h
<1>7. Carries(x, lines, g, h)
  <2>1. ASSUME NEW l, NEW i, Place(x, l, i)
        PROVE  /\ Place(lines, g[l][i], h[l][i])
               /\ Edge(x[l], i) = Edge(lines[g[l][i]], h[l][i])
               /\ x[l][i] = x[l][i + 1] => lines[g[l][i]][h[l][i]] = lines[g[l][i]][h[l][i] + 1]
    <3>1. CASE l # p
      BY <1>3, <1>6, <2>1, <3>1 DEF Place
    <3>2. CASE l = p /\ i < Len(a)
      <4>1. i \in 1..(Len(J) - 1) /\ ~Far(l, i)
        BY <1>2, <1>3, <1>6, <2>1, <3>2
      <4>2. g[l][i] = p /\ h[l][i] = i /\ lines[p] = a /\ x[l] = J
        BY <1>3, <1>6, <2>1, <3>2, <4>1 DEF a
      <4> QED BY <1>5, <3>2, <4>1, <4>2 DEF Place
    <3>3. CASE l = p /\ i >= Len(a)
      <4>1. i \in 1..(Len(J) - 1) /\ Far(l, i)
        BY <1>3, <1>6, <2>1, <3>3
      <4>2. g[l][i] = q /\ h[l][i] = Twin(a, b, i) /\ lines[q] = b /\ x[l] = J
        BY <1>3, <1>6, <2>1, <3>3, <4>1 DEF b
      <4> QED BY <1>5, <3>3, <4>1, <4>2 DEF Place
    <3>4. l = p => i < Len(a) \/ i >= Len(a)
      BY <1>2, <1>6, <2>1
    <3> QED BY <3>1, <3>2, <3>3, <3>4
  <2>2. ASSUME NEW l, NEW i, NEW m, NEW j, Place(x, l, i), Place(x, m, j), g[l][i] = g[m][j], h[l][i] = h[m][j]
        PROVE  l = m /\ i = j
    <3>1. l # q /\ m # q /\ i \in Int /\ j \in Int
      BY <1>6, <2>2
    <3>2. CASE Far(l, i)
      <4>1. Far(m, j)
        BY <1>6, <2>2, <3>1, <3>2
      <4>2. Twin(a, b, i) = Twin(a, b, j) /\ l = p /\ m = p
        BY <1>6, <2>2, <3>2, <4>1
      <4> QED BY <1>2, <3>1, <4>2 DEF Twin
    <3>3. CASE ~Far(l, i)
      <4>1. ~Far(m, j)
        BY <1>6, <2>2, <3>1, <3>3
      <4> QED BY <1>6, <2>2, <3>3, <4>1
    <3> QED BY <3>2, <3>3
  <2> QED BY <2>1, <2>2 DEF Carries
<1>8. ASSUME NEW e \in EdgesOf(lines) PROVE e \in EdgesOf(x)
  <2>1. PICK m, k : Place(lines, m, k) /\ e = Edge(lines[m], k)
    BY EdgesAre
  <2>2. m \in DOMAIN lines /\ k \in 1..(Len(lines[m]) - 1)
    BY <2>1 DEF Place
  <2>3. CASE m # p /\ m # q
    <3>1. Place(x, m, k) /\ e = Edge(x[m], k)
      BY <1>3, <2>1, <2>2, <2>3 DEF Place
    <3> QED BY <3>1, EdgesAre
  <2>4. CASE m = p
    <3>1. k \in 1..(Len(a) - 1) /\ e = Edge(a, k)
      BY <2>1, <2>2, <2>4 DEF a
    <3>2. k \in 1..(Len(J) - 1) /\ k < Len(a)
      BY <1>2, <3>1
    <3>3. Place(x, p, k) /\ e = Edge(x[p], k)
      BY <1>3, <1>5, <3>1, <3>2 DEF Place
    <3> QED BY <3>3, EdgesAre
  <2>5. CASE m = q
    <3>1. k \in 1..(Len(b) - 1) /\ e = Edge(b, k)
      BY <2>1, <2>2, <2>5 DEF b
    <3> DEFINE i == IF b[1] = Last(a) THEN k + Len(a) - 1 ELSE Len(b) - k + Len(a) - 1
    <3>2. i \in 1..(Len(J) - 1) /\ i >= Len(a)
      BY <1>2, <3>1
    <3>3. Twin(a, b, i) = k
      BY <1>2, <3>1 DEF Twin
    <3> HIDE DEF i
    <3>4. Edge(J, i) = e
      BY <1>5, <3>1, <3>2, <3>3
    <3>5. Place(x, p, i) /\ e = Edge(x[p], i)
      BY <1>3, <3>2, <3>4 DEF Place
    <3> QED BY <3>5, EdgesAre
  <2> QED BY <2>3, <2>4, <2>5
<1>9. EdgesOf(x) \subseteq EdgesOf(lines) /\ (EachOnce(lines) => EachOnce(x))
  BY <1>7, CarriedEdges
<1> QED BY <1>4, <1>8, <1>9 DEF x

LEMMA MergedFacts ==
  ASSUME NEW lines \in Seq(Line), NEW p \in DOMAIN lines, NEW q \in DOMAIN lines, p # q, Meet(lines[p], lines[q])
  PROVE  /\ EdgesOf(Merged(lines, p, q)) = EdgesOf(lines)
         /\ EachOnce(lines) => EachOnce(Merged(lines, p, q))
<1> DEFINE x == Knotted(lines, p, q)
<1>1. Numbered(x) /\ q \in DOMAIN x /\ Len(x[q]) = 1 /\ EdgesOf(x) = EdgesOf(lines) /\ (EachOnce(lines) => EachOnce(x))
  <2>1. q \in DOMAIN x
    BY DEF Knotted
  <2> QED BY <2>1, KnottedFacts
<1> HIDE DEF x
<1>2. EdgesOf(Without(x, q)) = EdgesOf(x) /\ (EachOnce(x) => EachOnce(Without(x, q)))
  BY <1>1, WithoutFacts
<1> QED BY <1>1, <1>2 DEF Merged, x

-----------------------------------------------------------------------------
(* Beginnings and ends                                                       *)

Begin(lines, v) == {l \in DOMAIN lines : lines[l][1] = v}

End(lines, v) == {l \in DOMAIN lines : Last(lines[l]) = v}

Count(lines, v) == Cardinality(Begin(lines, v)) + Cardinality(End(lines, v))

Even(c) == \E k \in Int : c = 2 * k

AllEven(lines) == \A v \in Int : Even(Count(lines, v))

LEMMA EvenFacts ==
  /\ \A c \in Int : Even(c) => Even(c - 2)
  /\ \A c \in Int : Even(c) => c % 2 = 0
  /\ \A c \in Int : c % 2 = 0 => Even(c)
  /\ \A c \in Int : ~Even(c + c + 1)
<1>1. ASSUME NEW c \in Int, Even(c) PROVE Even(c - 2)
  <2>1. PICK k \in Int : c = 2 * k
    BY <1>1 DEF Even
  <2>2. k - 1 \in Int /\ c - 2 = 2 * (k - 1)
    BY <2>1
  <2> QED BY <2>2 DEF Even
<1>2. ASSUME NEW c \in Int, Even(c) PROVE c % 2 = 0
  <2>1. PICK k \in Int : c = 2 * k
    BY <1>2 DEF Even
  <2> QED BY <2>1
<1>3. ASSUME NEW c \in Int, c % 2 = 0 PROVE Even(c)
  <2>1. c = 2 * (c \div 2) /\ c \div 2 \in Int
    BY <1>3
  <2> QED BY <2>1 DEF Even
<1>4. ASSUME NEW c \in Int, Even(c + c + 1) PROVE FALSE
  <2>1. PICK k \in Int : c + c + 1 = 2 * k
    BY <1>4 DEF Even
  <2> QED BY <2>1
<1> QED BY <1>1, <1>2, <1>3, <1>4

LEMMA CountType ==
  ASSUME NEW lines, Numbered(lines), NEW v
  PROVE  /\ IsFiniteSet(Begin(lines, v)) /\ IsFiniteSet(End(lines, v))
         /\ Cardinality(Begin(lines, v)) \in Nat /\ Cardinality(End(lines, v)) \in Nat
<1>1. IsFiniteSet(DOMAIN lines)
  BY FS_Interval DEF Numbered
<1>2. Begin(lines, v) \in SUBSET DOMAIN lines /\ End(lines, v) \in SUBSET DOMAIN lines
  BY DEF Begin, End
<1>3. IsFiniteSet(Begin(lines, v)) /\ IsFiniteSet(End(lines, v))
  BY <1>1, <1>2, FS_Subset
<1> QED BY <1>3, FS_CardinalityType

LEMMA WithoutCount ==
  ASSUME NEW N \in Nat, NEW q \in 1..N, NEW T \in SUBSET (1..N)
  PROVE  Cardinality({l \in 1..(N - 1) : Behind(l, q) \in T}) = Cardinality(T \ {q})
<1> DEFINE S == {l \in 1..(N - 1) : Behind(l, q) \in T}
           f == [l \in S |-> Behind(l, q)]
<1>1. IsFiniteSet(S)
  <2>1. IsFiniteSet(1..(N - 1))
    BY FS_Interval
  <2> QED BY <2>1, FS_Subset
<1>2. f \in [S -> T \ {q}]
  BY BehindFacts
<1>3. \A l, m \in S : f[l] = f[m] => l = m
  BY BehindFacts
<1>4. \A m \in T \ {q} : \E l \in S : f[l] = m
  <2>1. ASSUME NEW m \in T \ {q} PROVE \E l \in S : f[l] = m
    <3>1. PICK l \in 1..(N - 1) : Behind(l, q) = m
      BY BehindFacts
    <3> QED BY <3>1
  <2> QED BY <2>1
<1> HIDE DEF S, f
<1>5. f \in Injection(S, T \ {q}) /\ f \in Surjection(S, T \ {q})
  BY <1>2, <1>3, <1>4 DEF Injection, IsInjective, Surjection
<1>6. Cardinality(T \ {q}) = Cardinality(S)
  BY <1>1, <1>5, FS_Surjection
<1> QED BY <1>6 DEF S

LEMMA CountWithout ==
  ASSUME NEW lines, Numbered(lines), NEW q \in DOMAIN lines, NEW v
  PROVE  /\ Cardinality(Begin(Without(lines, q), v)) = Cardinality(Begin(lines, v) \ {q})
         /\ Cardinality(End(Without(lines, q), v)) = Cardinality(End(lines, v) \ {q})
<1> DEFINE N == Len(lines)
           b == Without(lines, q)
<1>1. N \in Nat /\ q \in 1..N /\ DOMAIN lines = 1..N
  BY DEF Numbered
<1>2. DOMAIN b = 1..(N - 1) /\ \A l \in 1..(N - 1) : b[l] = lines[Behind(l, q)] /\ Behind(l, q) \in 1..N
  BY <1>1, WithoutFacts, BehindFacts DEF Numbered
<1> HIDE DEF N, b
<1>3. Begin(b, v) = {l \in 1..(N - 1) : Behind(l, q) \in Begin(lines, v)}
  BY <1>1, <1>2 DEF Begin
<1>4. End(b, v) = {l \in 1..(N - 1) : Behind(l, q) \in End(lines, v)}
  BY <1>1, <1>2 DEF End
<1>5. Begin(lines, v) \in SUBSET (1..N) /\ End(lines, v) \in SUBSET (1..N)
  BY <1>1 DEF Begin, End
<1> QED BY <1>1, <1>3, <1>4, <1>5, WithoutCount, ZenonT(30) DEF b

\* What the join takes from the count of a node.
LEMMA MergedCount ==
  ASSUME NEW lines \in Seq(Line), NEW p \in DOMAIN lines, NEW q \in DOMAIN lines, p # q, Meet(lines[p], lines[q]), NEW v \in Int
  PROVE  Count(Merged(lines, p, q), v) = Count(lines, v) - (IF Last(lines[p]) = v THEN 2 ELSE 0)
<1> DEFINE x == Knotted(lines, p, q)
           a == lines[p]
           b == lines[q]
           B == Begin(lines, v)
           E == End(lines, v)
           beg == IF b[1] = v THEN 1 ELSE 0
           mid == IF Last(a) = v THEN 1 ELSE 0
           fin == IF Last(b) = v THEN 1 ELSE 0
           far == IF FarEnd(a, b) = v THEN 1 ELSE 0
<1>1. Numbered(lines) /\ Numbered(x) /\ q \in DOMAIN x /\ DOMAIN x = DOMAIN lines /\ a \in Line /\ b \in Line /\ Meet(a, b)
  BY KnottedFacts DEF Knotted, Numbered
<1>2. /\ x[p][1] = a[1] /\ Last(x[p]) = FarEnd(a, b)
      /\ \A l \in DOMAIN lines : l # p /\ l # q => x[l] = lines[l]
  BY <1>1, JoinEnds DEF Knotted, Meet
<1>3. Count(Merged(lines, p, q), v) = Cardinality(Begin(x, v) \ {q}) + Cardinality(End(x, v) \ {q})
  <2> HIDE DEF x
  <2> QED BY <1>1, CountWithout, ZenonT(30) DEF Merged, Count, x
<1>4. (q \in B <=> b[1] = v) /\ (p \in E <=> Last(a) = v) /\ (q \in E <=> Last(b) = v)
  BY DEF Begin, End
<1> HIDE DEF x, a, b
<1>5. Begin(x, v) \ {q} = B \ {q}
  <2>1. ASSUME NEW l PROVE l \in Begin(x, v) \ {q} <=> l \in B \ {q}
    <3>1. CASE l = p
      BY <1>1, <1>2, <3>1 DEF Begin, a
    <3>2. CASE l # p
      BY <1>1, <1>2, <3>2 DEF Begin
    <3> QED BY <3>1, <3>2
  <2> QED BY <2>1
<1> DEFINE rest == (E \ {p}) \ {q}
<1>6. End(x, v) \ {q} = IF FarEnd(a, b) = v THEN rest \cup {p} ELSE rest
  <2>1. ASSUME NEW l PROVE l \in End(x, v) \ {q} <=> (l \in rest \/ (l = p /\ FarEnd(a, b) = v))
    <3>1. CASE l = p
      BY <1>1, <1>2, <3>1 DEF End
    <3>2. CASE l # p
      BY <1>1, <1>2, <3>2 DEF End
    <3> QED BY <3>1, <3>2
  <2> HIDE DEF rest
  <2> QED BY <2>1
<1>7. IsFiniteSet(B) /\ IsFiniteSet(E) /\ Cardinality(B) \in Nat /\ Cardinality(E) \in Nat
  BY <1>1, CountType
<1>8. Count(lines, v) = Cardinality(B) + Cardinality(E)
  BY DEF Count
<1> HIDE DEF B, E
<1>9. Cardinality(B \ {q}) = Cardinality(B) - beg
  <2>1. Cardinality(B \ {q}) = IF q \in B THEN Cardinality(B) - 1 ELSE Cardinality(B)
    BY <1>7, FS_RemoveElement
  <2>2. CASE b[1] = v
    BY <1>4, <2>1, <2>2
  <2>3. CASE b[1] # v
    BY <1>4, <1>7, <2>1, <2>3
  <2> QED BY <2>2, <2>3
<1>10. IsFiniteSet(E \ {p}) /\ Cardinality(E \ {p}) = Cardinality(E) - mid
  <2>1. IsFiniteSet(E \ {p}) /\ Cardinality(E \ {p}) = IF p \in E THEN Cardinality(E) - 1 ELSE Cardinality(E)
    BY <1>7, FS_RemoveElement
  <2>2. CASE Last(a) = v
    BY <1>4, <2>1, <2>2
  <2>3. CASE Last(a) # v
    BY <1>4, <1>7, <2>1, <2>3
  <2> QED BY <2>2, <2>3
<1>11. IsFiniteSet(rest) /\ Cardinality(rest) \in Nat /\ Cardinality(rest) = Cardinality(E \ {p}) - fin
  <2>1. IsFiniteSet(rest) /\ Cardinality(rest) = IF q \in E \ {p} THEN Cardinality(E \ {p}) - 1 ELSE Cardinality(E \ {p})
    BY <1>10, FS_RemoveElement
  <2>2. q \in E \ {p} <=> Last(b) = v
    BY <1>4
  <2>3. Cardinality(E \ {p}) \in Nat /\ Cardinality(rest) \in Nat
    BY <1>10, <2>1, FS_CardinalityType
  <2> HIDE DEF rest
  <2>4. CASE Last(b) = v
    BY <2>1, <2>2, <2>3, <2>4
  <2>5. CASE Last(b) # v
    BY <2>1, <2>2, <2>3, <2>5
  <2> QED BY <2>1, <2>3, <2>4, <2>5
<1>12. Cardinality(rest \cup {p}) = Cardinality(rest) + 1
  <2>1. p \notin rest
    OBVIOUS
  <2> HIDE DEF rest
  <2> QED BY <1>11, <2>1, FS_AddElement
<1> HIDE DEF rest
<1>13. Cardinality(End(x, v) \ {q}) = Cardinality(rest) + far
  <2>1. CASE FarEnd(a, b) = v
    BY <1>6, <1>12, <2>1
  <2>2. CASE FarEnd(a, b) # v
    <3>1. far = 0
      BY <2>2
    <3>2. Cardinality(End(x, v) \ {q}) = Cardinality(rest)
      BY <1>6, <2>2
    <3> QED BY <1>11, <3>1, <3>2
  <2> QED BY <2>1, <2>2
<1>14. beg + fin = mid + far
  BY <1>1 DEF FarEnd, Meet
<1>15. beg \in Int /\ mid \in Int /\ fin \in Int /\ far \in Int
  OBVIOUS
<1>16. mid + mid = IF Last(lines[p]) = v THEN 2 ELSE 0
  BY DEF a
<1> HIDE DEF beg, mid, fin, far
<1>17. Count(Merged(lines, p, q), v) = (Cardinality(B) - beg) + (Cardinality(rest) + far)
  BY <1>3, <1>5, <1>9, <1>13
<1>18. Cardinality(rest) = (Cardinality(E) - mid) - fin
  BY <1>10, <1>11
<1>19. Count(Merged(lines, p, q), v) = (Cardinality(B) + Cardinality(E)) - (mid + mid)
  <2>1. ASSUME NEW m \in Int, NEW k \in Int, NEW r \in Int, r = (k - mid) - fin
        PROVE  (m - beg) + (r + far) = (m + k) - (mid + mid)
    BY <1>14, <1>15, <2>1
  <2>2. Cardinality(B) \in Int /\ Cardinality(E) \in Int /\ Cardinality(rest) \in Int
    BY <1>7, <1>11
  <2> QED BY <1>17, <1>18, <2>1, <2>2
<1> QED BY <1>8, <1>16, <1>19

LEMMA MergedEven ==
  ASSUME NEW lines \in Seq(Line), NEW p \in DOMAIN lines, NEW q \in DOMAIN lines, p # q, Meet(lines[p], lines[q]), AllEven(lines)
  PROVE  AllEven(Merged(lines, p, q))
<1> SUFFICES ASSUME NEW v \in Int PROVE Even(Count(Merged(lines, p, q), v))
  BY DEF AllEven
<1>1. Even(Count(lines, v))
  BY DEF AllEven
<1>2. Count(lines, v) \in Int
  <2>1. Numbered(lines)
    BY DEF Numbered
  <2> QED BY <2>1, CountType DEF Count
<1>3. Count(Merged(lines, p, q), v) = Count(lines, v) - (IF Last(lines[p]) = v THEN 2 ELSE 0)
  BY MergedCount
<1>4. CASE Last(lines[p]) = v
  BY <1>1, <1>2, <1>3, <1>4, EvenFacts
<1>5. CASE Last(lines[p]) # v
  BY <1>1, <1>2, <1>3, <1>5
<1> QED BY <1>4, <1>5

-----------------------------------------------------------------------------
(* The assembly of rings                                                     *)

AssemblyStates == [rings : Seq(Line), current : Line \cup {<<>>}, remaining : Seq(Line)]

Grown(s) == IF s.current = <<>> THEN 0 ELSE 1

\* All lines of a state: its rings, the one being grown, the chains.
LinesIn(s) ==
  [l \in 1..(Len(s.rings) + (Grown(s) + Len(s.remaining))) |->
     IF l <= Len(s.rings) THEN s.rings[l]
     ELSE IF l <= Len(s.rings) + Grown(s) THEN s.current ELSE s.remaining[l - (Len(s.rings) + Grown(s))]]

LEMMA StateFacts ==
  ASSUME NEW s \in AssemblyStates
  PROVE  /\ s.rings \in Seq(Line) /\ Len(s.rings) \in Nat /\ DOMAIN s.rings = 1..Len(s.rings)
         /\ s.remaining \in Seq(Line) /\ Len(s.remaining) \in Nat /\ DOMAIN s.remaining = 1..Len(s.remaining)
         /\ s.current # <<>> => s.current \in Line
         /\ Grown(s) \in 0..1
BY DEF AssemblyStates, Grown

LEMMA LinesFacts ==
  ASSUME NEW s \in AssemblyStates
  PROVE  /\ LinesIn(s) \in Seq(Line) /\ Len(LinesIn(s)) = Len(s.rings) + (Grown(s) + Len(s.remaining))
         /\ \A l \in 1..Len(s.rings) : LinesIn(s)[l] = s.rings[l]
         /\ s.current # <<>> => LinesIn(s)[Len(s.rings) + 1] = s.current
         /\ \A k \in 1..Len(s.remaining) : LinesIn(s)[Len(s.rings) + (Grown(s) + k)] = s.remaining[k]
<1> DEFINE R == Len(s.rings)
           G == Grown(s)
           M == Len(s.remaining)
           N == R + (G + M)
           L == LinesIn(s)
<1>1. /\ R \in Nat /\ M \in Nat /\ G \in Nat /\ N \in Nat
      /\ \A l \in 1..R : s.rings[l] \in Line
      /\ \A k \in 1..M : s.remaining[k] \in Line
      /\ s.current # <<>> => s.current \in Line /\ G = 1
      /\ s.current = <<>> => G = 0
  <2>1. G \in Nat /\ (s.current # <<>> => G = 1) /\ (s.current = <<>> => G = 0)
    BY DEF Grown
  <2>2. /\ s.rings \in Seq(Line) /\ R \in Nat /\ s.remaining \in Seq(Line) /\ M \in Nat
        /\ s.current # <<>> => s.current \in Line
    BY StateFacts
  <2>3. (\A l \in 1..R : s.rings[l] \in Line) /\ (\A k \in 1..M : s.remaining[k] \in Line)
    BY <2>2
  <2> HIDE DEF R, G, M
  <2> QED BY <2>1, <2>2, <2>3 DEF N
<1>2. DOMAIN L = 1..N
  BY DEF LinesIn
<1>3. \A l \in 1..N : L[l] = IF l <= R THEN s.rings[l] ELSE IF l <= R + G THEN s.current ELSE s.remaining[l - (R + G)]
  BY DEF LinesIn
<1>4. L = [l \in 1..N |-> L[l]]
  BY DEF LinesIn
<1> HIDE DEF R, G, M, N, L
<1>5. \A l \in 1..R : l \in 1..N /\ L[l] = s.rings[l]
  BY <1>1, <1>3 DEF N
<1>6. ASSUME s.current # <<>> PROVE L[R + 1] = s.current
  <2>1. R + 1 \in 1..N /\ ~(R + 1 <= R) /\ R + 1 <= R + G
    BY <1>1, <1>6 DEF N
  <2> QED BY <1>3, <2>1
<1>7. ASSUME NEW k \in 1..M PROVE L[R + (G + k)] = s.remaining[k]
  <2>1. R + (G + k) \in 1..N /\ ~(R + (G + k) <= R) /\ ~(R + (G + k) <= R + G) /\ (R + (G + k)) - (R + G) = k
    BY <1>1 DEF N
  <2> QED BY <1>3, <2>1
<1>8. ASSUME NEW l \in 1..N PROVE L[l] \in Line
  <2>1. CASE l <= R
    BY <1>1, <1>3, <2>1
  <2>2. CASE ~(l <= R) /\ l <= R + G
    <3>1. s.current # <<>>
      BY <1>1, <2>2
    <3> QED BY <1>1, <1>3, <2>2, <3>1
  <2>3. CASE ~(l <= R) /\ ~(l <= R + G)
    <3>1. l - (R + G) \in 1..M
      BY <1>1, <2>3 DEF N
    <3> QED BY <1>1, <1>3, <2>3, <3>1
  <2> QED BY <2>1, <2>2, <2>3
<1>9. L \in [1..N -> Line]
  BY <1>4, <1>8
<1>10. L \in Seq(Line) /\ Len(L) = N
  BY <1>1, <1>9
<1> QED BY <1>5, <1>6, <1>7, <1>10 DEF R, G, M, N, L

\* Every place is in the rings, the line being grown or the chains.
LEMMA LinesCover ==
  ASSUME NEW s \in AssemblyStates, NEW l \in DOMAIN LinesIn(s)
  PROVE  \/ l \in 1..Len(s.rings)
         \/ s.current # <<>> /\ l = Len(s.rings) + 1
         \/ \E k \in 1..Len(s.remaining) : l = Len(s.rings) + (Grown(s) + k)
<1> DEFINE R == Len(s.rings)
           G == Grown(s)
           M == Len(s.remaining)
<1>1. R \in Nat /\ M \in Nat /\ (s.current # <<>> => G = 1) /\ (s.current = <<>> => G = 0)
  <2>1. (s.current # <<>> => G = 1) /\ (s.current = <<>> => G = 0)
    BY DEF Grown
  <2> HIDE DEF G
  <2> QED BY <2>1, StateFacts
<1>2. l \in 1..(R + (G + M))
  BY DEF LinesIn
<1> HIDE DEF R, G, M
<1>3. CASE l <= R
  BY <1>1, <1>2, <1>3 DEF R
<1>4. CASE ~(l <= R) /\ l <= R + G
  BY <1>1, <1>2, <1>4 DEF R
<1>5. CASE ~(l <= R + G)
  <2> DEFINE k == l - (R + G)
  <2>1. k \in 1..M /\ l = R + (G + k)
    BY <1>1, <1>2, <1>5
  <2> HIDE DEF k
  <2> QED BY <2>1 DEF R, G, M
<1> QED BY <1>3, <1>4, <1>5

LEMMA SameLines ==
  ASSUME NEW a \in Seq(Line), NEW b, Numbered(b), Len(a) = Len(b), b = [l \in DOMAIN b |-> b[l]],
         \A l \in 1..Len(a) : a[l] = b[l]
  PROVE  a = b
BY DEF Numbered

LEMMA RemoveAtIs ==
  ASSUME NEW T, NEW s \in Seq(T), NEW i \in 1..Len(s)
  PROVE  /\ RemoveAt(s, i) \in Seq(T) /\ Len(RemoveAt(s, i)) = Len(s) - 1
         /\ \A k \in 1..(Len(s) - 1) : RemoveAt(s, i)[k] = s[Behind(k, i)]
<1> DEFINE a == SubSeq(s, 1, i - 1)
           b == SubSeq(s, i + 1, Len(s))
           c == a \o b
<1>1. /\ a \in Seq(T) /\ Len(a) = i - 1 /\ \A k \in 1..(i - 1) : a[k] = s[k]
      /\ b \in Seq(T) /\ Len(b) = Len(s) - i /\ \A k \in 1..(Len(s) - i) : b[k] = s[i + k]
      /\ i \in Int /\ Len(s) \in Nat
  OBVIOUS
<1> HIDE DEF a, b
<1>2. c \in Seq(T) /\ Len(c) = Len(s) - 1
  <2>1. a \in Seq(T) /\ b \in Seq(T)
    BY <1>1
  <2>2. c \in Seq(T) /\ Len(c) = Len(a) + Len(b)
    BY <2>1
  <2> HIDE DEF c
  <2> QED BY <1>1, <2>2
<1>3. ASSUME NEW k \in 1..(Len(s) - 1) PROVE c[k] = s[Behind(k, i)]
  <2>1. CASE k < i
    <3>1. k \in 1..(i - 1) /\ k \in 1..Len(a)
      BY <1>1, <2>1
    <3>2. c[k] = a[k]
      BY <1>1, <3>1
    <3> QED BY <1>1, <2>1, <3>1, <3>2 DEF Behind
  <2>2. CASE ~(k < i)
    <3> DEFINE m == k - (i - 1)
    <3>1. m \in 1..(Len(s) - i) /\ k = (i - 1) + m /\ i + m = k + 1
      BY <1>1, <2>2
    <3> HIDE DEF m
    <3>2. c[k] = b[m]
      BY <1>1, <3>1
    <3>3. b[m] = s[i + m]
      BY <1>1, <3>1
    <3> QED BY <2>2, <3>1, <3>2, <3>3 DEF Behind
  <2> QED BY <2>1, <2>2
<1>4. RemoveAt(s, i) = c
  BY DEF RemoveAt, a, b
<1> HIDE DEF c
<1> QED BY <1>2, <1>3, <1>4

LEMMA FirstFromIs ==
  ASSUME NEW r \in Seq(Line), NEW t
  PROVE  \/ FirstFrom(r, t) = 0 /\ \A i \in 1..Len(r) : r[i][1] # t /\ Last(r[i]) # t
         \/ FirstFrom(r, t) \in 1..Len(r) /\ (r[FirstFrom(r, t)][1] = t \/ Last(r[FirstFrom(r, t)]) = t)
<1> DEFINE ending == {i \in DOMAIN r : r[i][1] = t \/ Last(r[i]) = t}
<1>1. FirstFrom(r, t) = IF ending = {} THEN 0 ELSE Min(ending)
  BY DEF FirstFrom
<1>2. DOMAIN r = 1..Len(r) /\ Len(r) \in Nat
  OBVIOUS
<1>3. ending \in SUBSET Int /\ IsFiniteSet(ending)
  <2>1. IsFiniteSet(1..Len(r))
    BY <1>2, FS_Interval
  <2> QED BY <1>2, <2>1, FS_Subset
<1>4. CASE ending = {}
  BY <1>1, <1>2, <1>4
<1>5. CASE ending # {}
  <2>1. Min(ending) \in ending
    <3> HIDE DEF ending
    <3> QED BY <1>3, <1>5, FiniteBounds
  <2> QED BY <1>1, <1>2, <1>5, <2>1
<1> QED BY <1>4, <1>5

LEMMA LinesEqual ==
  ASSUME NEW s \in AssemblyStates, NEW b, Numbered(b), b = [l \in DOMAIN b |-> b[l]], Len(b) = Len(LinesIn(s)),
         \A l \in 1..Len(s.rings) : b[l] = s.rings[l],
         s.current # <<>> => b[Len(s.rings) + 1] = s.current,
         \A k \in 1..Len(s.remaining) : b[Len(s.rings) + (Grown(s) + k)] = s.remaining[k]
  PROVE  LinesIn(s) = b
<1> DEFINE a == LinesIn(s)
<1>1. a \in Seq(Line) /\ DOMAIN a = 1..Len(a)
  BY LinesFacts
<1>2. ASSUME NEW l \in 1..Len(a) PROVE a[l] = b[l]
  <2>1. l \in DOMAIN LinesIn(s)
    BY <1>1
  <2>2. \/ l \in 1..Len(s.rings)
        \/ s.current # <<>> /\ l = Len(s.rings) + 1
        \/ \E k \in 1..Len(s.remaining) : l = Len(s.rings) + (Grown(s) + k)
    BY <2>1, LinesCover
  <2> QED BY <2>2, LinesFacts
<1> HIDE DEF a
<1>3. a = b
  BY <1>1, <1>2, SameLines DEF a
<1> QED BY <1>3 DEF a

LEMMA AssembledIs ==
  ASSUME NEW rings \in Seq(Line), NEW current \in Line \cup {<<>>}, NEW remaining \in Seq(Line)
  PROVE  /\ Assembled(rings, current, remaining) \in AssemblyStates
         /\ Assembled(rings, current, remaining).rings = rings
         /\ Assembled(rings, current, remaining).current = current
         /\ Assembled(rings, current, remaining).remaining = remaining
BY DEF Assembled, AssemblyStates

LEMMA NoLine1 == <<>> \notin Line
BY DEF Line

LEMMA LinesShape ==
  ASSUME NEW s \in AssemblyStates
  PROVE  Numbered(LinesIn(s)) /\ LinesIn(s) = [l \in DOMAIN LinesIn(s) |-> LinesIn(s)[l]]
<1>1. LinesIn(s) \in Seq(Line)
  BY LinesFacts
<1>2. LinesIn(s) = [l \in DOMAIN LinesIn(s) |-> LinesIn(s)[l]]
  BY DEF LinesIn
<1> HIDE DEF LinesIn
<1> QED BY <1>1, <1>2 DEF Numbered

Weight(s) == 2 * Len(s.remaining) + Grown(s)

\* a lays out R rings, the line c being grown where G is 1, and M chains.
Laid(a, r, c, w, R, G, M) ==
  /\ Numbered(a) /\ a = [l \in DOMAIN a |-> a[l]] /\ R \in Nat /\ M \in Nat
  /\ G = 0 \/ G = 1
  /\ Len(a) = R + (G + M)
  /\ \A l \in 1..R : a[l] = r[l]
  /\ G = 1 => a[R + 1] = c
  /\ \A k \in 1..M : a[R + (G + k)] = w[k]

LEMMA LaidIs ==
  ASSUME NEW s \in AssemblyStates
  PROVE  /\ Laid(LinesIn(s), s.rings, s.current, s.remaining, Len(s.rings), Grown(s), Len(s.remaining))
         /\ \A b : Laid(b, s.rings, s.current, s.remaining, Len(s.rings), Grown(s), Len(s.remaining)) => LinesIn(s) = b
         /\ s.current = <<>> => Grown(s) = 0
         /\ s.current # <<>> => Grown(s) = 1
<1>0. /\ s.current = <<>> => Grown(s) = 0
      /\ s.current # <<>> => Grown(s) = 1
  BY DEF Grown
<1>1. Laid(LinesIn(s), s.rings, s.current, s.remaining, Len(s.rings), Grown(s), Len(s.remaining))
  <2>1. /\ Len(LinesIn(s)) = Len(s.rings) + (Grown(s) + Len(s.remaining))
        /\ \A l \in 1..Len(s.rings) : LinesIn(s)[l] = s.rings[l]
        /\ s.current # <<>> => LinesIn(s)[Len(s.rings) + 1] = s.current
        /\ \A k \in 1..Len(s.remaining) : LinesIn(s)[Len(s.rings) + (Grown(s) + k)] = s.remaining[k]
    BY LinesFacts
  <2>2. Numbered(LinesIn(s)) /\ LinesIn(s) = [l \in DOMAIN LinesIn(s) |-> LinesIn(s)[l]]
    BY LinesShape
  <2>3. Len(s.rings) \in Nat /\ Len(s.remaining) \in Nat
    BY StateFacts
  <2>4. Grown(s) = 0 \/ Grown(s) = 1
    BY <1>0
  <2>5. Grown(s) = 1 => s.current # <<>>
    BY <1>0
  <2> DEFINE a == LinesIn(s)
             R == Len(s.rings)
             M == Len(s.remaining)
             G == Grown(s)
  <2> HIDE DEF a, R, M, G
  <2>6. G = 1 => a[R + 1] = s.current
    BY <2>1, <2>5 DEF a, R, M, G
  <2> QED BY <2>1, <2>2, <2>3, <2>4, <2>6 DEF Laid, a, R, M, G
<1>2. ASSUME NEW b, Laid(b, s.rings, s.current, s.remaining, Len(s.rings), Grown(s), Len(s.remaining))
      PROVE  LinesIn(s) = b
  <2>1. Len(LinesIn(s)) = Len(s.rings) + (Grown(s) + Len(s.remaining))
    BY LinesFacts
  <2>2. /\ Numbered(b) /\ b = [l \in DOMAIN b |-> b[l]]
        /\ Len(b) = Len(s.rings) + (Grown(s) + Len(s.remaining))
        /\ \A l \in 1..Len(s.rings) : b[l] = s.rings[l]
        /\ Grown(s) = 1 => b[Len(s.rings) + 1] = s.current
        /\ \A k \in 1..Len(s.remaining) : b[Len(s.rings) + (Grown(s) + k)] = s.remaining[k]
    BY <1>2 DEF Laid
  <2>3. Len(b) = Len(LinesIn(s))
    BY <2>1, <2>2
  <2>4. s.current # <<>> => b[Len(s.rings) + 1] = s.current
    BY <1>0, <2>2
  <2> QED BY <2>2, <2>3, <2>4, LinesEqual
<1> QED BY <1>0, <1>1, <1>2

LEMMA TakenLaid ==
  ASSUME NEW a, NEW r, NEW w, NEW R, NEW M, Laid(a, r, <<>>, w, R, 0, M), M # 0,
         NEW c, c = w[1], NEW u, \A k \in 1..(M - 1) : u[k] = w[k + 1]
  PROVE  Laid(a, r, c, u, R, 1, M - 1)
<1>1. /\ Numbered(a) /\ a = [l \in DOMAIN a |-> a[l]] /\ R \in Nat /\ M \in Nat
      /\ Len(a) = R + (0 + M)
      /\ \A l \in 1..R : a[l] = r[l]
      /\ \A k \in 1..M : a[R + (0 + k)] = w[k]
  BY DEF Laid
<1>2. M - 1 \in Nat /\ Len(a) = R + (1 + (M - 1)) /\ 1 \in 1..M
  BY <1>1
<1>3. a[R + 1] = c
  <2>1. a[R + (0 + 1)] = w[1] /\ R + (0 + 1) = R + 1
    BY <1>1, <1>2
  <2> QED BY <2>1
<1>4. ASSUME NEW k \in 1..(M - 1) PROVE a[R + (1 + k)] = u[k]
  <2>1. k + 1 \in 1..M /\ R + (0 + (k + 1)) = R + (1 + k)
    BY <1>1
  <2>2. a[R + (0 + (k + 1))] = w[k + 1]
    BY <1>1, <2>1
  <2> QED BY <2>1, <2>2
<1> QED BY <1>1, <1>2, <1>3, <1>4 DEF Laid

LEMMA FinishedLaid ==
  ASSUME NEW a, NEW r, NEW c, NEW w, NEW R, NEW M, Laid(a, r, c, w, R, 1, M),
         NEW e, \A l \in 1..R : e[l] = r[l], e[R + 1] = c
  PROVE  Laid(a, e, <<>>, w, R + 1, 0, M)
<1>1. /\ Numbered(a) /\ a = [l \in DOMAIN a |-> a[l]] /\ R \in Nat /\ M \in Nat
      /\ Len(a) = R + (1 + M)
      /\ \A l \in 1..R : a[l] = r[l]
      /\ a[R + 1] = c
      /\ \A k \in 1..M : a[R + (1 + k)] = w[k]
  BY DEF Laid
<1>2. R + 1 \in Nat /\ Len(a) = (R + 1) + (0 + M)
  BY <1>1
<1>3. ASSUME NEW l \in 1..(R + 1) PROVE a[l] = e[l]
  <2>1. l \in 1..R \/ l = R + 1
    BY <1>1
  <2> QED BY <1>1, <2>1
<1>4. ASSUME NEW k \in 1..M PROVE a[(R + 1) + (0 + k)] = w[k]
  <2>1. (R + 1) + (0 + k) = R + (1 + k)
    BY <1>1
  <2> QED BY <1>1, <2>1
<1> QED BY <1>1, <1>2, <1>3, <1>4 DEF Laid

LEMMA DroppedLaid ==
  ASSUME NEW a, NEW r, NEW c, NEW w, NEW R, NEW M, Laid(a, r, c, w, R, 1, M)
  PROVE  R + 1 \in DOMAIN a /\ Laid(Without(a, R + 1), r, <<>>, w, R, 0, M)
<1> DEFINE b == Without(a, R + 1)
<1>1. /\ Numbered(a) /\ a = [l \in DOMAIN a |-> a[l]] /\ R \in Nat /\ M \in Nat
      /\ Len(a) = R + (1 + M)
      /\ \A l \in 1..R : a[l] = r[l]
      /\ \A k \in 1..M : a[R + (1 + k)] = w[k]
  BY DEF Laid
<1>2. R + 1 \in DOMAIN a
  BY <1>1 DEF Numbered
<1>3. Numbered(b) /\ Len(b) = Len(a) - 1 /\ \A l \in 1..(Len(a) - 1) : b[l] = a[Behind(l, R + 1)]
  BY <1>1, <1>2, WithoutFacts
<1>4. b = [l \in DOMAIN b |-> b[l]]
  BY DEF Without
<1> HIDE DEF b
<1>5. Len(a) - 1 = R + (0 + M)
  BY <1>1
<1>6. ASSUME NEW l \in 1..R PROVE b[l] = r[l]
  <2>1. l \in 1..(Len(a) - 1)
    BY <1>1, <1>5
  <2>2. Behind(l, R + 1) = l
    BY <1>1 DEF Behind
  <2> QED BY <1>1, <1>3, <2>1, <2>2
<1>7. ASSUME NEW k \in 1..M PROVE b[R + (0 + k)] = w[k]
  <2>1. R + (0 + k) \in 1..(Len(a) - 1)
    BY <1>1, <1>5
  <2>2. Behind(R + (0 + k), R + 1) = R + (1 + k)
    BY <1>1 DEF Behind
  <2> QED BY <1>1, <1>3, <2>1, <2>2
<1>8. Len(b) = R + (0 + M)
  BY <1>3, <1>5
<1> QED BY <1>1, <1>2, <1>3, <1>4, <1>6, <1>7, <1>8 DEF Laid, b

LEMMA ExtendedLaid ==
  ASSUME NEW a \in Seq(Line), NEW r, NEW c, NEW w, NEW R, NEW M, Laid(a, r, c, w, R, 1, M),
         NEW following \in 1..M, Meet(c, w[following]), NEW u, \A k \in 1..(M - 1) : u[k] = w[Behind(k, following)]
  PROVE  /\ R + 1 \in DOMAIN a /\ R + (1 + following) \in DOMAIN a /\ R + 1 # R + (1 + following)
         /\ a[R + 1] = c /\ a[R + (1 + following)] = w[following]
         /\ Laid(Merged(a, R + 1, R + (1 + following)), r, Spliced(c, w[following]), u, R, 1, M - 1)
<1> DEFINE J == Spliced(c, w[following])
           p == R + 1
           q == R + (1 + following)
           x == Knotted(a, p, q)
           b == Without(x, q)
<1>1. /\ Numbered(a) /\ R \in Nat /\ M \in Nat
      /\ Len(a) = R + (1 + M)
      /\ \A l \in 1..R : a[l] = r[l]
      /\ a[R + 1] = c
      /\ \A k \in 1..M : a[R + (1 + k)] = w[k]
  BY DEF Laid
<1>2. p \in DOMAIN a /\ q \in DOMAIN a /\ p # q
  BY <1>1 DEF Numbered
<1>3. a[p] = c /\ a[q] = w[following]
  BY <1>1
<1>4. /\ Numbered(x) /\ Len(x) = Len(a)
  BY <1>2, <1>3, KnottedFacts
<1>5. /\ DOMAIN x = DOMAIN a /\ x[p] = J
      /\ \A l \in DOMAIN a : l # p /\ l # q => x[l] = a[l]
  BY <1>2, <1>3 DEF Knotted
<1>6. p \in Nat /\ q \in Nat /\ p < q /\ p = R + 1 /\ q = R + (1 + following) /\ Len(a) - 1 = R + M /\ M >= 1
  BY <1>1
<1> HIDE DEF x, J, p, q
<1>7. Numbered(b) /\ Len(b) = Len(a) - 1 /\ \A l \in 1..(Len(a) - 1) : b[l] = x[Behind(l, q)]
  <2>1. q \in DOMAIN x
    BY <1>2, <1>5
  <2> QED BY <1>4, <2>1, WithoutFacts
<1>8. b = [l \in DOMAIN b |-> b[l]]
  BY DEF Without
<1> HIDE DEF b
<1>9. ASSUME NEW l \in 1..R PROVE b[l] = r[l]
  <2>1. l \in 1..(Len(a) - 1) /\ l < q /\ l # p
    BY <1>1, <1>6
  <2>2. l \in DOMAIN a /\ l # q /\ Behind(l, q) = l
    BY <1>1, <1>6, <2>1 DEF Behind, Numbered
  <2> QED BY <1>1, <1>5, <1>7, <2>1, <2>2
<1>10. b[R + 1] = J
  <2>1. p \in 1..(Len(a) - 1)
    BY <1>1, <1>6
  <2>2. Behind(p, q) = p
    BY <1>6 DEF Behind
  <2>3. b[p] = J
    BY <1>5, <1>7, <2>1, <2>2
  <2> QED BY <1>6, <2>3
<1>11. ASSUME NEW k \in 1..(M - 1) PROVE b[R + (1 + k)] = u[k]
  <2> DEFINE m == Behind(k, following)
  <2>1. m \in 1..M /\ m # following
    BY <1>1, BehindFacts
  <2>2. R + (1 + k) \in 1..(Len(a) - 1)
    BY <1>1, <1>6
  <2>3. Behind(R + (1 + k), q) = R + (1 + m)
    BY <1>1, <1>6 DEF Behind
  <2> HIDE DEF m
  <2>4. R + (1 + m) \in DOMAIN a /\ R + (1 + m) # p /\ R + (1 + m) # q
    BY <1>1, <1>6, <2>1, SMTT(30) DEF Numbered
  <2>5. x[R + (1 + m)] = w[m]
    BY <1>1, <1>5, <2>1, <2>4
  <2>6. b[R + (1 + k)] = w[m]
    BY <1>7, <2>2, <2>3, <2>5
  <2> QED BY <2>6 DEF m
<1>12. Len(b) = R + (1 + (M - 1)) /\ M - 1 \in Nat
  BY <1>1, <1>6, <1>7
<1>13. Laid(b, r, J, u, R, 1, M - 1)
  BY <1>1, <1>7, <1>8, <1>9, <1>10, <1>11, <1>12 DEF Laid
<1> QED BY <1>2, <1>3, <1>13 DEF b, x, J, p, q, Merged

LEMMA ClosedIs ==
  ASSUME NEW rings \in Seq(Line), NEW remaining \in Seq(Line), NEW t, t = Assembled(rings, <<>>, remaining)
  PROVE  t \in AssemblyStates /\ t.rings = rings /\ t.current = <<>> /\ t.remaining = remaining
<1> DEFINE c == <<>>
<1>1. c \in Line \cup {<<>>}
  OBVIOUS
<1> HIDE DEF c
<1>2. /\ Assembled(rings, c, remaining) \in AssemblyStates
      /\ Assembled(rings, c, remaining).rings = rings
      /\ Assembled(rings, c, remaining).current = c
      /\ Assembled(rings, c, remaining).remaining = remaining
  BY <1>1, AssembledIs
<1> QED BY <1>2 DEF c

LEMMA Taken ==
  ASSUME NEW s \in AssemblyStates, s.current = <<>>, s.remaining # <<>>,
         NEW t, t = Assembled(s.rings, Head(s.remaining), Tail(s.remaining))
  PROVE  t \in AssemblyStates /\ t.rings = s.rings /\ LinesIn(t) = LinesIn(s) /\ Weight(t) = Weight(s) - 1
<1> DEFINE h == Head(s.remaining)
           u == Tail(s.remaining)
           M == Len(s.remaining)
<1>1. /\ s.rings \in Seq(Line) /\ s.remaining \in Seq(Line) /\ M \in Nat
  BY StateFacts
<1>2. /\ M # 0 /\ h = s.remaining[1] /\ h \in Line /\ h # <<>>
      /\ u \in Seq(Line) /\ Len(u) = M - 1
      /\ \A k \in 1..(M - 1) : u[k] = s.remaining[k + 1]
  BY <1>1, NoLine1
<1> HIDE DEF h, u
<1>3. t \in AssemblyStates /\ t.rings = s.rings /\ t.current = h /\ t.remaining = u
  <2>1. t = Assembled(s.rings, h, u)
    BY DEF h, u
  <2> QED BY <1>1, <1>2, <2>1, AssembledIs
<1>4. Grown(t) = 1 /\ Grown(s) = 0
  BY <1>2, <1>3, LaidIs
<1>5. Laid(LinesIn(s), s.rings, <<>>, s.remaining, Len(s.rings), 0, M)
  BY <1>4, LaidIs
<1>6. Laid(LinesIn(s), s.rings, h, u, Len(s.rings), 1, M - 1)
  <2> HIDE DEF M
  <2> QED BY <1>2, <1>5, TakenLaid
<1>7. Laid(LinesIn(s), t.rings, t.current, t.remaining, Len(t.rings), Grown(t), Len(t.remaining))
  BY <1>2, <1>3, <1>4, <1>6
<1>8. LinesIn(t) = LinesIn(s)
  BY <1>3, <1>7, LaidIs
<1>9. Len(t.remaining) = M - 1
  BY <1>2, <1>3
<1>10. Weight(t) = 2 * (M - 1) + 1 /\ Weight(s) = 2 * M + 0
  BY <1>4, <1>9 DEF Weight
<1> HIDE DEF M
<1>11. Weight(t) = Weight(s) - 1
  BY <1>1, <1>10
<1> QED BY <1>3, <1>8, <1>11

LEMMA Finished ==
  ASSUME NEW s \in AssemblyStates, s.current # <<>>,
         NEW t, t = Assembled(Append(s.rings, s.current), <<>>, s.remaining)
  PROVE  /\ t \in AssemblyStates /\ t.rings = Append(s.rings, s.current)
         /\ LinesIn(t) = LinesIn(s) /\ Weight(t) = Weight(s) - 1
<1> DEFINE e == Append(s.rings, s.current)
           M == Len(s.remaining)
           R == Len(s.rings)
<1>1. s.rings \in Seq(Line) /\ s.remaining \in Seq(Line) /\ M \in Nat /\ R \in Nat /\ s.current \in Line
  BY StateFacts
<1>2. /\ e \in Seq(Line) /\ Len(e) = R + 1
      /\ \A l \in 1..R : e[l] = s.rings[l]
      /\ e[R + 1] = s.current
  BY <1>1
<1> HIDE DEF e
<1>3. t \in AssemblyStates /\ t.rings = e /\ t.current = <<>> /\ t.remaining = s.remaining
  <2>1. t = Assembled(e, <<>>, s.remaining)
    BY DEF e
  <2> QED BY <1>1, <1>2, <2>1, ClosedIs
<1>4. Grown(t) = 0 /\ Grown(s) = 1
  BY <1>3, LaidIs
<1>5. Laid(LinesIn(s), s.rings, s.current, s.remaining, R, 1, M)
  BY <1>4, LaidIs
<1>6. Laid(LinesIn(s), e, <<>>, s.remaining, R + 1, 0, M)
  <2> HIDE DEF M, R
  <2> QED BY <1>2, <1>5, FinishedLaid
<1>7. Laid(LinesIn(s), t.rings, t.current, t.remaining, Len(t.rings), Grown(t), Len(t.remaining))
  BY <1>2, <1>3, <1>4, <1>6
<1>8. LinesIn(t) = LinesIn(s)
  BY <1>3, <1>7, LaidIs
<1>9. Weight(t) = 2 * M + 0 /\ Weight(s) = 2 * M + 1
  BY <1>3, <1>4 DEF Weight
<1>10. Weight(t) = Weight(s) - 1
  <2> HIDE DEF M
  <2> QED BY <1>1, <1>9
<1> QED BY <1>3, <1>8, <1>10 DEF e

LEMMA Dropped ==
  ASSUME NEW s \in AssemblyStates, s.current # <<>>, NEW t, t = Assembled(s.rings, <<>>, s.remaining)
  PROVE  /\ t \in AssemblyStates /\ t.rings = s.rings /\ Len(s.rings) + 1 \in DOMAIN LinesIn(s)
         /\ LinesIn(t) = Without(LinesIn(s), Len(s.rings) + 1) /\ Weight(t) = Weight(s) - 1
<1> DEFINE M == Len(s.remaining)
           R == Len(s.rings)
<1>1. s.rings \in Seq(Line) /\ s.remaining \in Seq(Line) /\ M \in Nat /\ R \in Nat
  BY StateFacts
<1>2. t \in AssemblyStates /\ t.rings = s.rings /\ t.current = <<>> /\ t.remaining = s.remaining
  BY <1>1, ClosedIs
<1>3. Grown(t) = 0 /\ Grown(s) = 1
  BY <1>2, LaidIs
<1>4. Laid(LinesIn(s), s.rings, s.current, s.remaining, R, 1, M)
  BY <1>3, LaidIs
<1>5. R + 1 \in DOMAIN LinesIn(s) /\ Laid(Without(LinesIn(s), R + 1), s.rings, <<>>, s.remaining, R, 0, M)
  <2> HIDE DEF M, R
  <2> QED BY <1>4, DroppedLaid
<1>6. LinesIn(t) = Without(LinesIn(s), R + 1)
  <2>1. Laid(Without(LinesIn(s), R + 1), t.rings, t.current, t.remaining, Len(t.rings), Grown(t), Len(t.remaining))
    BY <1>2, <1>3, <1>5
  <2> HIDE DEF R
  <2> QED BY <1>2, <2>1, LaidIs
<1>7. Weight(t) = 2 * M + 0 /\ Weight(s) = 2 * M + 1
  BY <1>2, <1>3 DEF Weight
<1>8. Weight(t) = Weight(s) - 1
  <2> HIDE DEF M
  <2> QED BY <1>1, <1>7
<1> QED BY <1>2, <1>5, <1>6, <1>8

LEMMA Extended ==
  ASSUME NEW s \in AssemblyStates, s.current # <<>>, NEW following \in 1..Len(s.remaining), Meet(s.current, s.remaining[following]),
         NEW t, t = Assembled(s.rings, Spliced(s.current, s.remaining[following]), RemoveAt(s.remaining, following))
  PROVE  LET p == Len(s.rings) + 1
             q == Len(s.rings) + (1 + following)
         IN  /\ t \in AssemblyStates /\ t.rings = s.rings
             /\ p \in DOMAIN LinesIn(s) /\ q \in DOMAIN LinesIn(s) /\ p # q /\ Meet(LinesIn(s)[p], LinesIn(s)[q])
             /\ LinesIn(t) = Merged(LinesIn(s), p, q)
             /\ Weight(t) = Weight(s) - 2
<1> DEFINE J == Spliced(s.current, s.remaining[following])
           r == RemoveAt(s.remaining, following)
           M == Len(s.remaining)
           R == Len(s.rings)
           p == R + 1
           q == R + (1 + following)
<1>1. /\ s.rings \in Seq(Line) /\ R \in Nat /\ s.remaining \in Seq(Line) /\ M \in Nat
      /\ s.current \in Line /\ s.remaining[following] \in Line
  BY StateFacts
<1>2. J \in Line /\ J # <<>>
  BY <1>1, JoinFacts, NoLine1 DEF Meet
<1>3. r \in Seq(Line) /\ Len(r) = M - 1 /\ \A k \in 1..(M - 1) : r[k] = s.remaining[Behind(k, following)]
  BY <1>1, RemoveAtIs
<1> HIDE DEF J, r
<1>4. t \in AssemblyStates /\ t.rings = s.rings /\ t.current = J /\ t.remaining = r
  <2>1. t = Assembled(s.rings, J, r)
    BY DEF J, r
  <2> QED BY <1>1, <1>2, <1>3, <2>1, AssembledIs
<1>5. Grown(t) = 1 /\ Grown(s) = 1
  BY <1>2, <1>4, LaidIs
<1>6. LinesIn(s) \in Seq(Line) /\ Laid(LinesIn(s), s.rings, s.current, s.remaining, R, 1, M)
  BY <1>5, LaidIs, LinesFacts
<1>7. /\ p \in DOMAIN LinesIn(s) /\ q \in DOMAIN LinesIn(s) /\ p # q
      /\ LinesIn(s)[p] = s.current /\ LinesIn(s)[q] = s.remaining[following]
      /\ Laid(Merged(LinesIn(s), p, q), s.rings, J, r, R, 1, M - 1)
  <2>1. following \in 1..M
    OBVIOUS
  <2> HIDE DEF M, R
  <2> QED BY <1>3, <1>6, <2>1, ExtendedLaid DEF J
<1>8. LinesIn(t) = Merged(LinesIn(s), p, q)
  <2>1. Laid(Merged(LinesIn(s), p, q), t.rings, t.current, t.remaining, Len(t.rings), Grown(t), Len(t.remaining))
    BY <1>3, <1>4, <1>5, <1>7
  <2> HIDE DEF p, q
  <2> QED BY <1>4, <2>1, LaidIs
<1>9. Len(t.remaining) = M - 1
  BY <1>3, <1>4
<1>10. Weight(t) = 2 * (M - 1) + 1 /\ Weight(s) = 2 * M + 1
  BY <1>5, <1>9 DEF Weight
<1>11. Weight(t) = Weight(s) - 2
  <2> HIDE DEF M
  <2> QED BY <1>1, <1>10
<1> QED BY <1>4, <1>7, <1>8, <1>11

\* What the assembly of u keeps.
Sound(u, s) ==
  /\ s \in AssemblyStates
  /\ \A l \in 1..Len(s.rings) : s.rings[l][1] = Last(s.rings[l])
  /\ EdgesOf(LinesIn(s)) \subseteq EdgesOf(u)
  /\ EachOnce(u) => EachOnce(LinesIn(s))
  /\ EachOnce(u) /\ AllEven(u) => AllEven(LinesIn(s)) /\ EdgesOf(LinesIn(s)) = EdgesOf(u)

\* A ring of two edges or fewer has an edge twice or one that stays.
LEMMA ShortRing ==
  ASSUME NEW lines \in Seq(Line), EachOnce(lines), NEW p \in DOMAIN lines, lines[p][1] = Last(lines[p])
  PROVE  Len(lines[p]) >= 4
<1> DEFINE c == lines[p]
<1>1. c \in Line
  OBVIOUS
<1>2. Len(c) \in Nat /\ Len(c) >= 2 /\ Last(c) = c[Len(c)] /\ c[1] = Last(c)
  BY <1>1, LineFacts
<1>3. \A i \in 1..(Len(c) - 1) : Place(lines, p, i)
  BY DEF Place
<1> HIDE DEF c
<1>4. ASSUME Len(c) = 2 PROVE FALSE
  <2>1. Place(lines, p, 1)
    BY <1>3, <1>4
  <2>2. c[1] # c[1 + 1]
    BY <2>1, OnceMeans DEF c
  <2> QED BY <1>2, <1>4, <2>2
<1>5. ASSUME Len(c) = 3 PROVE FALSE
  <2>1. 1 \in 1..(Len(c) - 1) /\ 2 \in 1..(Len(c) - 1)
    BY <1>5
  <2>2. Place(lines, p, 1) /\ Place(lines, p, 2)
    BY <1>3, <2>1
  <2>3. c[3] = c[1] /\ 1 + 1 = 2 /\ 2 + 1 = 3
    BY <1>2, <1>5
  <2>4. Edge(c, 1) = {c[1], c[2]} /\ Edge(c, 2) = {c[2], c[1]}
    BY <2>3 DEF Edge
  <2>5. Edge(lines[p], 1) = Edge(lines[p], 2)
    BY <2>4 DEF c
  <2>6. 1 = 2
    BY <2>2, <2>5, OnceMeans
  <2> QED BY <2>6
<1>6. Len(c) >= 4
  <2>1. Len(c) # 2 /\ Len(c) # 3
    BY <1>4, <1>5
  <2>2. \A x \in Nat : x >= 2 /\ x # 2 /\ x # 3 => x >= 4
    OBVIOUS
  <2> QED BY <1>2, <2>1, <2>2
<1> QED BY <1>6 DEF c

\* A line that no other meets has an odd end.
LEMMA OddEnd ==
  ASSUME NEW lines \in Seq(Line), NEW p \in DOMAIN lines, lines[p][1] # Last(lines[p]),
         \A l \in DOMAIN lines : l # p =>
           \/ lines[l][1] = Last(lines[l])
           \/ lines[l][1] # Last(lines[p]) /\ Last(lines[l]) # Last(lines[p])
  PROVE  ~AllEven(lines)
<1> DEFINE v == Last(lines[p])
           B == Begin(lines, v)
           E == End(lines, v)
<1>1. v \in Int
  <2>1. lines[p] \in Line
    OBVIOUS
  <2> QED BY <2>1, LineFacts
<1>2. p \notin B /\ p \in E /\ \A l : l # p => (l \in B <=> l \in E)
  BY DEF Begin, End
<1>3. E = B \cup {p}
  BY <1>2
<1>4. IsFiniteSet(B) /\ Cardinality(B) \in Nat
  <2>1. Numbered(lines)
    BY DEF Numbered
  <2> QED BY <2>1, CountType
<1>5. Count(lines, v) = Cardinality(B) + Cardinality(E)
  BY DEF Count
<1> HIDE DEF B, E, v
<1>6. Cardinality(E) = Cardinality(B) + 1
  BY <1>2, <1>3, <1>4, FS_AddElement
<1>7. Count(lines, v) = Cardinality(B) + Cardinality(B) + 1
  BY <1>4, <1>5, <1>6
<1>8. ~Even(Cardinality(B) + Cardinality(B) + 1)
  BY <1>4, EvenFacts
<1>9. ~Even(Count(lines, v))
  BY <1>7, <1>8
<1> QED BY <1>1, <1>9 DEF AllEven

\* Steps that keep the lines, drop one, join two.
LEMMA SameSound ==
  ASSUME NEW u, NEW s, NEW t, Sound(u, s), t \in AssemblyStates, LinesIn(t) = LinesIn(s),
         \A l \in 1..Len(t.rings) : t.rings[l][1] = Last(t.rings[l])
  PROVE  Sound(u, t)
BY DEF Sound

LEMMA DroppedSound ==
  ASSUME NEW u, NEW s, NEW t, Sound(u, s), s.current # <<>>, t = Assembled(s.rings, <<>>, s.remaining),
         EachOnce(LinesIn(s)) => ~AllEven(LinesIn(s))
  PROVE  Sound(u, t)
<1>1. s \in AssemblyStates
  BY DEF Sound
<1> DEFINE a == LinesIn(s)
           p == Len(s.rings) + 1
<1>2. t \in AssemblyStates /\ t.rings = s.rings /\ p \in DOMAIN a /\ LinesIn(t) = Without(a, p)
  BY <1>1, Dropped
<1>3. Numbered(a)
  BY <1>1, LinesShape
<1> HIDE DEF a, p
<1>4. EdgesOf(Without(a, p)) \subseteq EdgesOf(a) /\ (EachOnce(a) => EachOnce(Without(a, p)))
  BY <1>2, <1>3, WithoutFacts
<1> QED BY <1>2, <1>4 DEF Sound, a

LEMMA ExtendedSound ==
  ASSUME NEW u, NEW s, NEW t, Sound(u, s), s.current # <<>>,
         NEW following \in 1..Len(s.remaining), Meet(s.current, s.remaining[following]),
         t = Assembled(s.rings, Spliced(s.current, s.remaining[following]), RemoveAt(s.remaining, following))
  PROVE  Sound(u, t)
<1>1. s \in AssemblyStates
  BY DEF Sound
<1> DEFINE a == LinesIn(s)
           p == Len(s.rings) + 1
           q == Len(s.rings) + (1 + following)
<1>2. /\ t \in AssemblyStates /\ t.rings = s.rings
      /\ p \in DOMAIN a /\ q \in DOMAIN a /\ p # q /\ Meet(a[p], a[q])
      /\ LinesIn(t) = Merged(a, p, q)
  BY <1>1, Extended
<1>3. a \in Seq(Line)
  BY <1>1, LinesFacts
<1> HIDE DEF a, p, q
<1>4. EdgesOf(Merged(a, p, q)) = EdgesOf(a) /\ (EachOnce(a) => EachOnce(Merged(a, p, q)))
  BY <1>2, <1>3, MergedFacts
<1>5. AllEven(a) => AllEven(Merged(a, p, q))
  BY <1>2, <1>3, MergedEven
<1> QED BY <1>2, <1>4, <1>5 DEF Sound, a

\* A step keeps Sound and comes nearer to the end.
Nearer(s, t) == Weight(t) <= Weight(s) - 1 \/ (Weight(s) = 0 /\ t = s)

LEMMA AssembleStep ==
  ASSUME NEW u, NEW s, Sound(u, s)
  PROVE  Sound(u, Assemble(s)) /\ Nearer(s, Assemble(s))
<1> DEFINE following == FirstFrom(s.remaining, Last(s.current))
           a == LinesIn(s)
           p == Len(s.rings) + 1
<1>1. /\ s \in AssemblyStates /\ \A l \in 1..Len(s.rings) : s.rings[l][1] = Last(s.rings[l])
      /\ a \in Seq(Line) /\ Weight(s) \in Nat
      /\ s.rings \in Seq(Line) /\ s.remaining \in Seq(Line)
  <2>1. s \in AssemblyStates /\ \A l \in 1..Len(s.rings) : s.rings[l][1] = Last(s.rings[l])
    BY DEF Sound
  <2>2. Len(s.remaining) \in Nat /\ Grown(s) \in Nat
    BY <2>1, StateFacts
  <2>3. Weight(s) \in Nat
    BY <2>2 DEF Weight
  <2> QED BY <2>1, <2>3, StateFacts, LinesFacts
<1>2. CASE s.current = <<>> /\ s.remaining = <<>>
  <2>1. Assemble(s) = s
    BY <1>2 DEF Assemble
  <2>2. Grown(s) = 0 /\ Len(s.remaining) = 0
    BY <1>2 DEF Grown
  <2>3. Weight(s) = 0
    BY <2>2 DEF Weight
  <2> QED BY <2>1, <2>3 DEF Nearer
<1>3. CASE s.current = <<>> /\ s.remaining # <<>>
  <2> DEFINE t == Assembled(s.rings, Head(s.remaining), Tail(s.remaining))
  <2>1. Assemble(s) = t
    BY <1>3 DEF Assemble
  <2>2. t \in AssemblyStates /\ t.rings = s.rings /\ LinesIn(t) = a /\ Weight(t) = Weight(s) - 1
    BY <1>1, <1>3, Taken
  <2> HIDE DEF t
  <2>3. Sound(u, t)
    BY <1>1, <2>2, SameSound
  <2> QED BY <1>1, <2>1, <2>2, <2>3 DEF Nearer
<1>4. CASE s.current # <<>>
  <2>0. p \in DOMAIN a /\ a[p] = s.current /\ s.current \in Line
    <3>1. p \in DOMAIN LinesIn(s)
      BY <1>1, <1>4, Dropped
    <3> QED BY <1>1, <1>4, <3>1, LinesFacts, StateFacts
  <2> DEFINE d == Assembled(s.rings, <<>>, s.remaining)
  <2>1. Weight(d) = Weight(s) - 1
    BY <1>1, <1>4, Dropped
  <2>2. CASE s.current[1] = Last(s.current) /\ Len(s.current) >= 4
    <3> DEFINE t == Assembled(Append(s.rings, s.current), <<>>, s.remaining)
    <3>1. Assemble(s) = t
      BY <1>4, <2>2 DEF Assemble
    <3>2. t \in AssemblyStates /\ t.rings = Append(s.rings, s.current) /\ LinesIn(t) = a /\ Weight(t) = Weight(s) - 1
      BY <1>1, <1>4, Finished
    <3> HIDE DEF t
    <3>3. \A l \in 1..Len(t.rings) : t.rings[l][1] = Last(t.rings[l])
      <4> DEFINE e == Append(s.rings, s.current)
      <4>1. /\ Len(e) = Len(s.rings) + 1 /\ e[Len(s.rings) + 1] = s.current
            /\ \A l \in 1..Len(s.rings) : e[l] = s.rings[l]
            /\ Len(s.rings) \in Nat
        BY <1>1, <2>0
      <4> HIDE DEF e
      <4>2. \A l \in 1..Len(e) : l \in 1..Len(s.rings) \/ l = Len(s.rings) + 1
        BY <4>1
      <4>3. \A l \in 1..Len(e) : e[l][1] = Last(e[l])
        BY <1>1, <2>2, <4>1, <4>2
      <4> QED BY <3>2, <4>3 DEF e
    <3>4. Sound(u, t)
      BY <3>2, <3>3, SameSound
    <3> QED BY <1>1, <3>1, <3>2, <3>4 DEF Nearer
  <2>3. CASE s.current[1] = Last(s.current) /\ ~(Len(s.current) >= 4)
    <3>1. Assemble(s) = d
      BY <1>4, <2>3 DEF Assemble
    <3>2. ~EachOnce(a)
      BY <1>1, <2>0, <2>3, ShortRing
    <3>3. Sound(u, d)
      BY <1>4, <3>2, DroppedSound
    <3> HIDE DEF d
    <3> QED BY <1>1, <2>1, <3>1, <3>3 DEF Nearer
  <2>4. CASE s.current[1] # Last(s.current) /\ following = 0
    <3>1. Assemble(s) = d
      BY <1>4, <2>4 DEF Assemble
    <3>2. \A i \in 1..Len(s.remaining) : s.remaining[i][1] # Last(s.current) /\ Last(s.remaining[i]) # Last(s.current)
      BY <1>1, <2>4, FirstFromIs
    <3>3. ASSUME NEW l \in DOMAIN a, l # p
          PROVE  \/ a[l][1] = Last(a[l])
                 \/ a[l][1] # Last(a[p]) /\ Last(a[l]) # Last(a[p])
      <4>1. \/ l \in 1..Len(s.rings)
            \/ \E k \in 1..Len(s.remaining) : l = Len(s.rings) + (Grown(s) + k)
        BY <1>1, <3>3, LinesCover
      <4>2. CASE l \in 1..Len(s.rings)
        <5>1. a[l] = s.rings[l]
          BY <1>1, <4>2, LinesFacts
        <5> QED BY <1>1, <4>2, <5>1
      <4>3. ASSUME NEW k \in 1..Len(s.remaining), l = Len(s.rings) + (Grown(s) + k)
            PROVE  a[l][1] # Last(a[p]) /\ Last(a[l]) # Last(a[p])
        <5>1. a[l] = s.remaining[k]
          BY <1>1, <4>3, LinesFacts
        <5> QED BY <2>0, <3>2, <5>1
      <4> QED BY <4>1, <4>2, <4>3
    <3>4. ~AllEven(a)
      <4> HIDE DEF a, p
      <4> QED BY <1>1, <2>0, <2>4, <3>3, OddEnd
    <3>5. Sound(u, d)
      BY <1>4, <3>4, DroppedSound
    <3> HIDE DEF d
    <3> QED BY <1>1, <2>1, <3>1, <3>5 DEF Nearer
  <2>5. CASE s.current[1] # Last(s.current) /\ following # 0
    <3> DEFINE t == Assembled(s.rings, Spliced(s.current, s.remaining[following]), RemoveAt(s.remaining, following))
    <3>1. Assemble(s) = t
      BY <1>4, <2>5 DEF Assemble, Spliced
    <3>2. following \in 1..Len(s.remaining) /\ Meet(s.current, s.remaining[following])
      BY <1>1, <2>5, FirstFromIs DEF Meet
    <3>3. Weight(t) = Weight(s) - 2
      <4> HIDE DEF following
      <4> QED BY <1>1, <1>4, <3>2, Extended
    <3>4. Sound(u, t)
      <4> HIDE DEF following
      <4> QED BY <1>4, <3>2, ExtendedSound
    <3> HIDE DEF t
    <3> QED BY <1>1, <3>1, <3>3, <3>4 DEF Nearer
  <2> QED BY <2>2, <2>3, <2>4, <2>5
<1> QED BY <1>2, <1>3, <1>4

LEMMA BeginsSound ==
  ASSUME NEW u \in Seq(Line), NEW b, b = Assembled(<<>>, <<>>, u)
  PROVE  Sound(u, b) /\ Weight(b) = 2 * Len(u)
<1> DEFINE e == <<>>
           M == Len(u)
<1>1. e \in Seq(Line) /\ Len(e) = 0 /\ M \in Nat /\ DOMAIN u = 1..M
  OBVIOUS
<1>2. b = Assembled(e, <<>>, u)
  OBVIOUS
<1> HIDE DEF e
<1>3. b \in AssemblyStates /\ b.rings = e /\ b.current = <<>> /\ b.remaining = u
  <2>1. e \in Seq(Line) /\ u \in Seq(Line)
    BY <1>1
  <2>2. \A r, w \in Seq(Line) : \A t : t = Assembled(r, <<>>, w) =>
          t \in AssemblyStates /\ t.rings = r /\ t.current = <<>> /\ t.remaining = w
    BY ClosedIs
  <2> QED BY <1>2, <2>1, <2>2
<1>4. Grown(b) = 0
  BY <1>3, LaidIs
<1>5. Numbered(u) /\ u = [l \in DOMAIN u |-> u[l]]
  BY DEF Numbered
<1>6. Laid(u, e, <<>>, u, 0, 0, M)
  <2> HIDE DEF M
  <2>1. Len(u) = M
    BY DEF M
  <2>2. Len(u) = 0 + (0 + M) /\ \A k \in 1..M : 0 + (0 + k) = k
    BY <1>1, <2>1
  <2>3. \A l \in 1..0 : u[l] = e[l]
    OBVIOUS
  <2> QED BY <1>1, <1>5, <2>2, <2>3 DEF Laid
<1>7. LinesIn(b) = u
  <2>1. Laid(u, b.rings, b.current, b.remaining, Len(b.rings), Grown(b), Len(b.remaining))
    BY <1>1, <1>3, <1>4, <1>6
  <2> QED BY <1>3, <2>1, LaidIs
<1>8. \A l \in 1..Len(b.rings) : b.rings[l][1] = Last(b.rings[l])
  <2>1. \A l \in 1..Len(e) : e[l][1] = Last(e[l])
    BY <1>1
  <2> QED BY <1>3, <2>1
<1>9. Weight(b) = 2 * M + 0
  BY <1>3, <1>4 DEF Weight
<1>10. Weight(b) = 2 * M
  <2> HIDE DEF M
  <2> QED BY <1>1, <1>9
<1> QED BY <1>3, <1>7, <1>8, <1>10 DEF Sound

\* With nothing left, the lines are the rings.
LEMMA EndsSound ==
  ASSUME NEW u, NEW s, Sound(u, s), Weight(s) <= 0
  PROVE  LinesIn(s) = s.rings
<1> DEFINE M == Len(s.remaining)
           G == Grown(s)
<1>1. s \in AssemblyStates /\ s.rings \in Seq(Line)
  BY StateFacts DEF Sound
<1>2. M \in Nat /\ G \in Nat /\ Weight(s) = 2 * M + G
  <2>1. G \in 0..1 /\ M \in Nat
    BY <1>1, StateFacts
  <2> QED BY <2>1 DEF Weight
<1>3. M = 0 /\ G = 0
  <2> HIDE DEF M, G
  <2> QED BY <1>2
<1>4. s.current = <<>>
  BY <1>1, <1>3, LaidIs
<1>5. Len(s.rings) \in Nat /\ DOMAIN s.rings = 1..Len(s.rings)
  BY <1>1
<1>6. Laid(s.rings, s.rings, s.current, s.remaining, Len(s.rings), 0, 0)
  <2> DEFINE r == s.rings
             R == Len(r)
  <2>1. r = [l \in DOMAIN r |-> r[l]] /\ Numbered(r)
    BY <1>1 DEF Numbered
  <2>2. R \in Nat /\ Len(r) = R
    BY <1>5
  <2> HIDE DEF r, R
  <2>3. Len(r) = R + (0 + 0)
    BY <2>2
  <2>4. Laid(r, r, s.current, s.remaining, R, 0, 0)
    BY <2>1, <2>2, <2>3 DEF Laid
  <2> QED BY <2>4 DEF r, R
<1>7. Laid(s.rings, s.rings, s.current, s.remaining, Len(s.rings), Grown(s), Len(s.remaining))
  BY <1>3, <1>6
<1> QED BY <1>1, <1>7, LaidIs

\* What the rings of the lines u are.
RingsOf(u, rings) ==
  /\ \A l \in DOMAIN rings : rings[l][1] = Last(rings[l])
  /\ EdgesOf(rings) \subseteq EdgesOf(u)
  /\ EachOnce(u) => EachOnce(rings)
  /\ EachOnce(u) /\ AllEven(u) => EdgesOf(rings) = EdgesOf(u)

LEMMA AssembledRings ==
  ASSUME NEW chains, Usable(chains) \in Seq(Line)
  PROVE  RingsOf(Usable(chains), assembleRings(chains))
<1> DEFINE u == Usable(chains)
           M == 2 * Len(u)
           b == Assembled(<<>>, <<>>, u)
           Rec(g) == g = [t \in 0..M |-> IF t = 0 THEN b ELSE Assemble(g[t - 1])]
           after == CHOOSE g : Rec(g)
           T == {s \in AssemblyStates : Sound(u, s)}
<1>1. M \in Nat
  OBVIOUS
<1>2. b \in T /\ Weight(b) = M
  <2> HIDE DEF u, b
  <2>1. u \in Seq(Line) /\ b = Assembled(<<>>, <<>>, u)
    BY DEF u, b
  <2>2. Sound(u, b) /\ Weight(b) = 2 * Len(u)
    BY <2>1, BeginsSound
  <2> QED BY <2>2 DEF Sound
<1>3. \A s \in T : Assemble(s) \in T /\ Nearer(s, Assemble(s)) /\ Weight(s) \in Nat
  <2> HIDE DEF u
  <2>1. ASSUME NEW s \in T PROVE Assemble(s) \in T /\ Nearer(s, Assemble(s)) /\ Weight(s) \in Nat
    <3>1. Sound(u, Assemble(s)) /\ Nearer(s, Assemble(s))
      BY AssembleStep
    <3>2. Len(s.remaining) \in Nat /\ Grown(s) \in Nat
      BY StateFacts
    <3> QED BY <3>1, <3>2 DEF Sound, Weight
  <2> QED BY <2>1
<1>4. assembleRings(chains) = after[M].rings
  BY DEF assembleRings
<1>5. \A s \in T : Sound(u, s)
  OBVIOUS
<1> HIDE DEF T, b, M
<1>6. \E g : g \in [0..M -> T] /\ Rec(g)
  <2> DEFINE G == [t \in 1..M |-> [s \in T |-> Assemble(s)]]
  <2>1. G \in [1..M -> [T -> T]]
    BY <1>3
  <2> HIDE DEF G
  <2>2. Recurs(T, b, M, G)
    BY <1>1, <1>2, <2>1, Recursion
  <2>3. PICK g \in [0..M -> T] : g[0] = b /\ \A t \in 1..M : g[t] = G[t][g[t - 1]]
    BY <2>2 DEF Recurs
  <2>4. ASSUME NEW t \in 1..M PROVE g[t] = Assemble(g[t - 1])
    <3>1. g[t - 1] \in T
      BY <1>1
    <3> QED BY <2>3, <3>1 DEF G
  <2>5. \A t \in 0..M : g[t] = IF t = 0 THEN b ELSE Assemble(g[t - 1])
    BY <1>1, <2>3, <2>4
  <2> QED BY <2>5
<1>7. Rec(after)
  <2> HIDE DEF Rec
  <2> QED BY <1>6
<1> HIDE DEF after
<1>8. \A t \in 0..M : after[t] = IF t = 0 THEN b ELSE Assemble(after[t - 1])
  BY <1>7
<1> DEFINE D == {t \in Nat : t <= M => after[t] \in T /\ Weight(after[t]) <= M - t}
<1>9. \A t \in Nat : t \in D
  <2>1. 0 \in D
    <3>1. after[0] = b
      BY <1>1, <1>8
    <3> QED BY <1>1, <1>2, <3>1
  <2>2. ASSUME NEW t \in Nat \cap D PROVE t + 1 \in D
    <3> SUFFICES ASSUME t + 1 <= M PROVE after[t + 1] \in T /\ Weight(after[t + 1]) <= M - (t + 1)
      OBVIOUS
    <3>1. t + 1 \in 0..M /\ t + 1 # 0 /\ (t + 1) - 1 = t /\ t <= M
      BY <1>1
    <3>2. after[t] \in T /\ Weight(after[t]) <= M - t /\ after[t + 1] = Assemble(after[t])
      BY <1>8, <3>1
    <3> DEFINE s == after[t]
               r == Assemble(s)
               x == Weight(s)
               y == Weight(r)
    <3>3. r \in T /\ x \in Nat /\ y \in Nat /\ (y <= x - 1 \/ (x = 0 /\ y = x))
      BY <1>3, <3>2 DEF Nearer
    <3>4. x <= M - t
      BY <3>2
    <3>5. y = Weight(after[t + 1]) /\ after[t + 1] \in T
      BY <3>2, <3>3
    <3> HIDE DEF x, y, r, s
    <3>6. y <= M - (t + 1)
      BY <1>1, <3>1, <3>3, <3>4
    <3> QED BY <3>5, <3>6
  <2> HIDE DEF D
  <2> QED BY <2>1, <2>2, Induction
<1>10. after[M] \in T /\ Weight(after[M]) <= M - M
  BY <1>1, <1>9
<1> DEFINE s == after[M]
<1>11. Sound(u, s) /\ Weight(s) <= 0
  BY <1>1, <1>5, <1>10
<1> HIDE DEF s, u
<1>12. LinesIn(s) = s.rings
  BY <1>11, EndsSound
<1>13. s.rings \in Seq(Line)
  BY <1>11, StateFacts DEF Sound
<1>14. RingsOf(u, s.rings)
  BY <1>11, <1>12, <1>13 DEF Sound, RingsOf
<1> QED BY <1>4, <1>14 DEF s, u

-----------------------------------------------------------------------------
(* The lines among the chains                                                *)

UsableOf(chains) == {chain \in ToSet(chains) : Len(chain) >= 2}

\* g is where the usable chains are.
Picks(g, u, chains) ==
  /\ \A i \in 1..Len(u) : g[i] \in 1..Len(chains) /\ u[i] = chains[g[i]] /\ Len(chains[g[i]]) >= 2
  /\ \A i, j \in 1..Len(u) : g[i] = g[j] => i = j
  /\ \A j \in 1..Len(chains) : Len(chains[j]) >= 2 => \E i \in 1..Len(u) : g[i] = j

LEMMA UsableFacts ==
  ASSUME NEW chains \in Seq(Seq(Int))
  PROVE  Usable(chains) \in Seq(Line) /\ \E g : Picks(g, Usable(chains), chains)
<1> DEFINE u == Usable(chains)
           S == UsableOf(chains)
           N == Len(chains)
<1>1. u = Kept(chains, S)
  BY DEF Usable, UsableOf
<1>2. u \in Seq(Seq(Int))
  BY <1>1, KeptType
<1>3. PICK g : Selects(g, u, chains, N, S)
  BY <1>1, KeptSelects
<1>4. \A j \in 1..N : chains[j] \in S <=> Len(chains[j]) >= 2
  <2>1. \A j \in 1..N : chains[j] \in ToSet(chains)
    BY DEF ToSet
  <2> QED BY <2>1 DEF UsableOf
<1>5. N \in Nat /\ Len(u) \in Nat /\ \A i \in 1..Len(u) : u[i] \in Seq(Int)
  BY <1>2
<1> HIDE DEF u, S
<1>6. /\ \A i \in 1..Len(u) : g[i] \in 1..N /\ u[i] = chains[g[i]] /\ chains[g[i]] \in S
      /\ \A i, j \in 1..Len(u) : i < j => g[i] < g[j]
      /\ \A j \in 1..N : chains[j] \in S => \E i \in 1..Len(u) : g[i] = j
  BY <1>3 DEF Selects
<1>7. ASSUME NEW i \in 1..Len(u), NEW j \in 1..Len(u), g[i] = g[j] PROVE i = j
  <2>0. (i < j => g[i] < g[j]) /\ (j < i => g[j] < g[i])
    BY <1>6
  <2>1. g[i] \in Int /\ g[j] \in Int
    <3>1. g[i] \in 1..N /\ g[j] \in 1..N
      BY <1>6
    <3> QED BY <1>5, <3>1
  <2> QED BY <1>5, <1>7, <2>0, <2>1
<1>8. Picks(g, u, chains)
  BY <1>4, <1>6, <1>7 DEF Picks
<1>9. ASSUME NEW i \in 1..Len(u) PROVE u[i] \in Line
  BY <1>4, <1>5, <1>6 DEF Line
<1>10. u \in Seq(Line)
  BY <1>2, <1>9
<1> QED BY <1>8, <1>10 DEF u

LEMMA PickedEdges ==
  ASSUME NEW chains \in Seq(Seq(Int)), NEW u \in Seq(Line), NEW g, Picks(g, u, chains)
  PROVE  EdgesOf(u) = EdgesOf(chains) /\ (EachOnce(chains) => EachOnce(u))
<1> DEFINE h == [l \in 1..Len(u) |-> [i \in 1..(Len(u[l]) - 1) |-> g[l]]]
           k == [l \in 1..Len(u) |-> [i \in 1..(Len(u[l]) - 1) |-> i]]
<1>1. DOMAIN u = 1..Len(u) /\ DOMAIN chains = 1..Len(chains)
  OBVIOUS
<1>2. ASSUME NEW l, NEW i, Place(u, l, i)
      PROVE  /\ l \in 1..Len(u) /\ h[l][i] = g[l] /\ k[l][i] = i
             /\ u[l] = chains[g[l]] /\ Place(chains, g[l], i)
  <2>1. l \in 1..Len(u) /\ i \in 1..(Len(u[l]) - 1)
    BY <1>1, <1>2 DEF Place
  <2>2. g[l] \in 1..Len(chains) /\ u[l] = chains[g[l]]
    BY <2>1 DEF Picks
  <2> QED BY <1>1, <2>1, <2>2 DEF Place
<1> HIDE DEF h, k
<1>3. Carries(u, chains, h, k)
  <2>1. ASSUME NEW l, NEW i, Place(u, l, i)
        PROVE  /\ Place(chains, h[l][i], k[l][i])
               /\ Edge(u[l], i) = Edge(chains[h[l][i]], k[l][i])
               /\ u[l][i] = u[l][i + 1] => chains[h[l][i]][k[l][i]] = chains[h[l][i]][k[l][i] + 1]
    <3>1. h[l][i] = g[l] /\ k[l][i] = i /\ u[l] = chains[g[l]] /\ Place(chains, g[l], i)
      BY <1>2, <2>1
    <3> DEFINE c == g[l]
    <3>2. h[l][i] = c /\ k[l][i] = i /\ u[l] = chains[c] /\ Place(chains, c, i)
      BY <3>1
    <3> HIDE DEF c
    <3> QED BY <3>2
  <2>2. ASSUME NEW l, NEW i, NEW m, NEW j, Place(u, l, i), Place(u, m, j), h[l][i] = h[m][j], k[l][i] = k[m][j]
        PROVE  l = m /\ i = j
    <3>1. l \in 1..Len(u) /\ m \in 1..Len(u) /\ g[l] = g[m] /\ i = j
      BY <1>2, <2>2
    <3> QED BY <3>1 DEF Picks
  <2> QED BY <2>1, <2>2 DEF Carries
<1>4. ASSUME NEW e \in EdgesOf(chains) PROVE e \in EdgesOf(u)
  <2>1. PICK m, i : Place(chains, m, i) /\ e = Edge(chains[m], i)
    BY EdgesAre
  <2>2. m \in 1..Len(chains) /\ i \in 1..(Len(chains[m]) - 1)
    BY <1>1, <2>1 DEF Place
  <2>3. Len(chains[m]) \in Nat
    BY <2>2
  <2>4. Len(chains[m]) >= 2
    BY <2>2, <2>3
  <2>5. PICK l \in 1..Len(u) : g[l] = m
    BY <2>2, <2>4 DEF Picks
  <2>6. u[l] = chains[m]
    BY <2>5 DEF Picks
  <2>7. Place(u, l, i) /\ e = Edge(u[l], i)
    BY <1>1, <2>1, <2>2, <2>5, <2>6 DEF Place
  <2> QED BY <2>7, EdgesAre
<1>5. EdgesOf(u) \subseteq EdgesOf(chains) /\ (EachOnce(chains) => EachOnce(u))
  BY <1>3, CarriedEdges
<1> QED BY <1>4, <1>5

\* g takes numbers up to K to T, each element of T from one of them.
Reaches(g, K, T) ==
  /\ \A i, j \in 1..K : g[i] = g[j] => i = j
  /\ \A j \in T : \E i \in 1..K : g[i] = j

LEMMA PickedCount ==
  ASSUME NEW K \in Nat, NEW g, NEW T, Reaches(g, K, T), NEW S, S = {i \in 1..K : g[i] \in T}
  PROVE  Cardinality(S) = Cardinality(T)
<1> DEFINE f == [i \in S |-> g[i]]
<1>1. IsFiniteSet(S)
  <2>1. IsFiniteSet(1..K)
    BY FS_Interval
  <2> QED BY <2>1, FS_Subset
<1>2. f \in [S -> T] /\ \A i, j \in S : f[i] = f[j] => i = j
  BY DEF Reaches
<1>3. \A m \in T : \E i \in S : f[i] = m
  BY DEF Reaches
<1> HIDE DEF f
<1>4. f \in Injection(S, T) /\ f \in Surjection(S, T)
  BY <1>2, <1>3 DEF Injection, IsInjective, Surjection
<1>5. Cardinality(T) = Cardinality(S)
  BY <1>1, <1>4, FS_Surjection
<1> QED BY <1>5

\* An even number of ends in the chains, in their lines too.
LEMMA PickedEven ==
  ASSUME NEW chains \in Seq(Seq(Int)), NEW u \in Seq(Line), NEW g, Picks(g, u, chains), Closing(chains)
  PROVE  AllEven(u)
<1> SUFFICES ASSUME NEW v \in Int PROVE Even(Count(u, v))
  BY DEF AllEven
<1> DEFINE K == Len(u)
           N == Len(chains)
           B == {l \in DOMAIN chains : Len(chains[l]) >= 2 /\ chains[l][1] = v}
           E == {l \in DOMAIN chains : Len(chains[l]) >= 2 /\ Last(chains[l]) = v}
<1>1. K \in Nat /\ N \in Nat /\ DOMAIN u = 1..K /\ DOMAIN chains = 1..N
  OBVIOUS
<1>2. /\ \A i \in 1..K : g[i] \in 1..N /\ u[i] = chains[g[i]] /\ Len(chains[g[i]]) >= 2
      /\ \A i, j \in 1..K : g[i] = g[j] => i = j
      /\ \A j \in 1..N : Len(chains[j]) >= 2 => \E i \in 1..K : g[i] = j
  BY DEF Picks
<1>3. Begin(u, v) = {i \in 1..K : g[i] \in B} /\ End(u, v) = {i \in 1..K : g[i] \in E}
  <2> HIDE DEF K, N
  <2> QED BY <1>1, <1>2 DEF Begin, End
<1>4. B \in SUBSET (1..N) /\ E \in SUBSET (1..N) /\ \A j \in B \cup E : \E i \in 1..K : g[i] = j
  <2> HIDE DEF K, N
  <2> QED BY <1>1, <1>2
<1>5. Ends(chains, v) = Cardinality(B) + Cardinality(E)
  BY DEF Ends
<1>6. Count(u, v) = Ends(chains, v)
  <2> HIDE DEF K, N, B, E
  <2>1. Reaches(g, K, B) /\ Reaches(g, K, E)
    BY <1>2, <1>4 DEF Reaches
  <2>2. Cardinality(Begin(u, v)) = Cardinality(B)
    BY <1>1, <1>3, <2>1, PickedCount
  <2>3. Cardinality(End(u, v)) = Cardinality(E)
    BY <1>1, <1>3, <2>1, PickedCount
  <2> QED BY <1>5, <2>2, <2>3 DEF Count
<1>7. IsFiniteSet(B) /\ IsFiniteSet(E) /\ Cardinality(B) \in Nat /\ Cardinality(E) \in Nat
  <2> HIDE DEF B, E, N
  <2>1. IsFiniteSet(1..N)
    BY <1>1, FS_Interval
  <2>2. IsFiniteSet(B) /\ IsFiniteSet(E)
    BY <1>4, <2>1, FS_Subset
  <2> QED BY <2>2, FS_CardinalityType
<1>8. CASE B = {} /\ E = {}
  <2>1. Cardinality(B) = 0 /\ Cardinality(E) = 0
    BY <1>8, FS_EmptySet
  <2> HIDE DEF B, E
  <2>2. Count(u, v) = 2 * 0
    BY <1>5, <1>6, <2>1
  <2> QED BY <2>2 DEF Even
<1>9. CASE \E l \in 1..N : Len(chains[l]) >= 2 /\ \E i \in DOMAIN chains[l] : chains[l][i] = v
  <2>0. PICK l \in 1..N : \E i \in DOMAIN chains[l] : chains[l][i] = v
    BY <1>9
  <2>1. PICK i \in DOMAIN chains[l] : chains[l][i] = v
    BY <2>0
  <2>2. Ends(chains, v) % 2 = 0
    BY <1>1, <2>1 DEF Closing
  <2>3. Ends(chains, v) \in Int
    <3> HIDE DEF B, E
    <3> QED BY <1>5, <1>7
  <2> QED BY <1>6, <2>2, <2>3, EvenFacts
<1>10. ASSUME NEW l \in B \cup E PROVE \E m \in 1..N : Len(chains[m]) >= 2 /\ \E i \in DOMAIN chains[m] : chains[m][i] = v
  <2>1. l \in 1..N /\ Len(chains[l]) >= 2 /\ (chains[l][1] = v \/ Last(chains[l]) = v)
    BY <1>1
  <2>2. chains[l] \in Line
    BY <2>1 DEF Line
  <2> DEFINE c == chains[l]
  <2>3. Last(c) = c[Len(c)] /\ DOMAIN c = 1..Len(c) /\ Len(c) \in Nat /\ Len(c) >= 2
    BY <2>2, LineFacts
  <2>4. 1 \in DOMAIN c /\ Len(c) \in DOMAIN c
    BY <2>3
  <2>5. \E i \in DOMAIN c : c[i] = v
    BY <2>1, <2>3, <2>4
  <2> QED BY <2>1, <2>5
<1> QED BY <1>8, <1>9, <1>10

LEMMA RingsOfChains ==
  ASSUME NEW chains \in Seq(Seq(Int)), NEW rings, rings = assembleRings(chains)
  PROVE  /\ \A r \in DOMAIN rings : rings[r][1] = Last(rings[r])
         /\ EdgesOf(rings) \subseteq EdgesOf(chains)
         /\ EachOnce(chains) => EachOnce(rings)
         /\ EachOnce(chains) /\ Closing(chains) => EdgesOf(rings) = EdgesOf(chains)
<1> DEFINE u == Usable(chains)
<1>1. u \in Seq(Line)
  BY UsableFacts
<1>2. PICK g : Picks(g, u, chains)
  BY UsableFacts
<1>3. RingsOf(u, rings)
  BY <1>1, AssembledRings
<1> HIDE DEF u
<1>4. EdgesOf(u) = EdgesOf(chains) /\ (EachOnce(chains) => EachOnce(u))
  BY <1>1, <1>2, PickedEdges
<1>5. Closing(chains) => AllEven(u)
  BY <1>1, <1>2, PickedEven
<1> QED BY <1>3, <1>4, <1>5 DEF RingsOf

-----------------------------------------------------------------------------
(* The rings of a job are those assembleRings returns for its chains.        *)

AssemblyInv ==
  /\ job \in Jobs
  /\ Done("chains") => result = assembleRings(job.call)

LEMMA AssemblyInvInit == GeometryInit => AssemblyInv
BY DEF GeometryInit, AssemblyInv, Done

LEMMA AssemblyInvNext == AssemblyInv /\ [GeometryNext]_geometryVars => AssemblyInv'
<1> SUFFICES ASSUME AssemblyInv, [GeometryNext]_geometryVars PROVE AssemblyInv'
  OBVIOUS
<1> USE DEF AssemblyInv, Done
<1>1. ASSUME UNCHANGED <<job, result>> PROVE AssemblyInv'
  BY <1>1
<1>2. ASSUME UNCHANGED job, job.kind # "chains" PROVE AssemblyInv'
  BY <1>2
<1>3. CASE PlanRoute
  BY <1>2, <1>3 DEF PlanRoute, Answer
<1>4. CASE AssembleRings
  BY <1>4 DEF AssembleRings, Answer
<1>5. CASE CollectBoundaries
  BY <1>2, <1>5 DEF CollectBoundaries, Answer
<1>6. CASE ValidateTerritories
  BY <1>2, <1>6 DEF ValidateTerritories, Answer
<1>7. CASE EncodeFeature
  BY <1>2, <1>7 DEF EncodeFeature, Answer
<1>8. CASE SignRings
  BY <1>2, <1>8 DEF SignRings, Answer
<1>9. CASE SimplifyStep
  BY <1>1, <1>9 DEF SimplifyStep
<1>10. CASE UNCHANGED geometryVars
  BY <1>1, <1>10 DEF geometryVars
<1> QED BY <1>3, <1>4, <1>5, <1>6, <1>7, <1>8, <1>9, <1>10 DEF GeometryNext

LEMMA AssemblyInvImplies == AssemblyInv => RingsUseEveryWay
<1> SUFFICES ASSUME AssemblyInv, Done("chains") PROVE RingsUseEveryWay
  BY DEF RingsUseEveryWay
<1>1. job.call \in Seq(Seq(Int))
  BY JobsAssumption DEF AssemblyInv, Done
<1>2. result = assembleRings(job.call)
  BY DEF AssemblyInv
<1> QED BY <1>1, <1>2, RingsOfChains DEF RingsUseEveryWay

(* Whatever the ways, every ring closes and has only their edges; of ways    *)
(* that have no edge twice and an even number of ends at every node, the     *)
(* rings have every edge, each once: a line that nothing continues would     *)
(* leave an odd number of ends at its node.                                  *)
THEOREM RingsAreComplete == GeometrySpec => []RingsUseEveryWay
<1> QED BY AssemblyInvInit, AssemblyInvNext, AssemblyInvImplies, PTL DEF GeometrySpec

=============================================================================
