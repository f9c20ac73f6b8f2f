--------------------------- MODULE ImportPipeline ---------------------------
(***************************************************************************)
(* The import of a tile source into an artifact (src/cmd/tinytiles/main.go *)
(* and compact.go), as the import and the build commands call it.          *)
(*                                                                         *)
(* An archive is streamed into the importer, or staged as MBTiles when its *)
(* payloads have to be deduplicated; the importer publishes the artifact   *)
(* by a rename.  A temporary directory is removed by a deferred call of    *)
(* the function that made it, unless this hands it on, and then by one of  *)
(* the caller.                                                             *)
(*                                                                         *)
(* A source is its rows' payloads.  What the commands compute of its sizes *)
(* is kept, its bytes are not.                                             *)
(***************************************************************************)
EXTENDS Compact, Paths

CONSTANTS
  NoPath,
  \* importBatchFixedMemory, importBatchPerRowOverhead, importBatchMinimumTileSize,
  \* importBatchSampleHeadroom, defaultAutoImportBatchSize, defaultImportBatchSize
  FixedMemory, RowOverhead, MinimumTile, Headroom, MaxAutoBatch, DefaultBatch

ASSUME ImportAssumption ==
  /\ FixedMemory \in Nat
  /\ {RowOverhead, MinimumTile, Headroom, MaxAutoBatch, DefaultBatch} \subseteq Nat \ {0}

VARIABLES
  opts,        \* the command line
  pc,          \* the step under way; an exit: "ok", "failed", "refused", "crashed"
  reading,     \* what is imported: its kind, tables, sizes
  schema, batch,
  zooms,       \* the first and the last zoom that were generated, or none
  there,       \* the files and directories that are there, but for the artifact's
  temp,        \* temporary directories on disk: "pmtiles", "compact", "pbf", "build"
  defers,      \* deferred removals: of which function, and of which directory
  kept,        \* directories whose function has set keep
  artifact,    \* "none", "old", "new"
  published,   \* the payloads of the new artifact's tiles
  sidecar,     \* postal codes next to the artifact: "none", "old", "partial", "new"
  mbtiles,     \* the file of --mbtiles-out: "none", "old", "partial", "new"
  lost         \* what a command destroyed: "input", "mbtiles", "work"

planVars == <<reading, schema, batch, zooms>>
outVars  == <<artifact, published, sidecar, mbtiles, lost>>
tempVars == <<temp, defers, kept>>
pipelineVars == <<opts, pc, planVars, there, tempVars, outVars>>
vars == <<compactVars, pipelineVars>>

Ended == pc \in {"ok", "failed", "refused", "crashed"}

\* The built-in generator's build.
OwnBuild == opts.cmd = "build" /\ ~opts.generator

\* Fault: a staging function always cleans up.
Cleans_Always(d) == TRUE

\* The deferred calls of stagePMTiles and compactMBTiles look at keep.
Cleans(d) == d.frame \in {"stagePMTiles", "compactMBTiles"} => d.dir \notin kept'

\* Functions return, and their deferred calls run; the caller may defer one.
Leave(frames, deferred) ==
  LET run == {d \in defers : d.frame \in frames}
  IN  /\ temp' = temp \ {d.dir : d \in {e \in run : Cleans(e)}}
      /\ defers' = (defers \ run) \cup deferred

\* A return of the command, through all its functions.
Return(exit) == pc' = exit /\ UNCHANGED kept /\ Leave({d.frame : d \in defers}, {})

Files == DOMAIN File \cup (IF mbtiles \in {"partial", "new"} THEN {Real(opts.mbtilesOut)} ELSE {})

\* os.MkdirAll makes no directory that a dangling link names, and none below a file.
Makeable(dir) == Resolved(dir, there) = Real(dir) /\ Prefixes(Real(dir)) \cap Files = {}

MakeDir(dir) == Makeable(dir) /\ there' = there \cup Prefixes(Real(dir))

\* os.MkdirAll and os.MkdirTemp, and the deferred removal.
MakeTemp(frame, dir, parent) ==
  /\ MakeDir(parent)
  /\ temp' = temp \cup {dir} /\ defers' = defers \cup {[frame |-> frame, dir |-> dir]}
  /\ UNCHANGED kept

\* Fault: the caller does not close what it is handed.
HandOn_NotClosed(frame, dir) == kept' = kept \cup {dir} /\ Leave({frame}, {})

\* A staging function sets keep and returns its copy, which the caller closes.
HandOn(frame, dir) ==
  /\ kept' = kept \cup {dir}
  /\ Leave({frame}, {[frame |-> "importArtifactWithProvenanceAndCompact", dir |-> dir]})

-----------------------------------------------------------------------------
(* Checks and the size of a batch                                          *)

\* commandImport: the flags, and validateImportPaths.
ImportAccepted ==
  /\ ~(opts.compact /\ opts.schema = "flat")
  /\ opts.batch >= 0 /\ opts.memory > 0
  /\ RegularFile(opts.input) /\ ~SameFile(opts.input, opts.artifact)
  /\ Comparable(opts.artifact) /\ ~Overlap(opts.input, opts.artifact)

Smaller(a, b) == IF a < b THEN a ELSE b

\* Fault: the bookkeeping of a row is not counted.
TileStreamBatch_PayloadOnly(requested, maxTile, memory) ==
  LET available == memory - FixedMemory
      rows == IF available <= 0 THEN 1 ELSE available \div maxTile
      fits == Smaller(IF rows < 1 THEN 1 ELSE rows, MaxAutoBatch)
  IN  IF requested = 0 THEN fits ELSE Smaller(requested, fits)

\* tileStreamBatchSize: rows of the largest tile that fit into the memory.
TileStreamBatch(requested, maxTile, memory) ==
  LET available == memory - FixedMemory
      rows == IF available <= 0 THEN 1 ELSE available \div (maxTile + RowOverhead)
      fits == Smaller(IF rows < 1 THEN 1 ELSE rows, MaxAutoBatch)
  IN  IF requested = 0 THEN fits ELSE Smaller(requested, fits)

\* autoImportBatchSize, from the largest sampled payload; when not even one row
\* fits, the default is left to the importer to refuse.
AutoBatch(sampled, memory) ==
  LET estimate == sampled * Headroom
      perTile == (IF estimate < MinimumTile THEN MinimumTile ELSE estimate) + RowOverhead
      rows == (memory - FixedMemory) \div perTile
  IN  IF memory <= FixedMemory \/ rows < 1 THEN DefaultBatch ELSE Smaller(rows, MaxAutoBatch)

\* resolveAutoArtifactSchema: normalized tables without any reuse become flat.
ResolvedSchema(s, r) ==
  IF s = "auto" /\ r.tables = "normalized" /\ r.reuse = FALSE THEN "flat" ELSE s

-----------------------------------------------------------------------------
(* importArtifactWithProvenanceAndCompact                                  *)

ValidateImport ==
  /\ pc = "validate" /\ opts.cmd = "import"
  /\ IF ImportAccepted THEN pc' = "import" /\ UNCHANGED tempVars ELSE Return("refused")
  /\ UNCHANGED <<compactVars, opts, planVars, there, outVars>>

\* openPMTilesTileSource has inspected the archive.
StreamArchive ==
  /\ pc = "import" /\ reading.kind = "pmtiles"
  /\ ~opts.compact /\ opts.schema # "normalized"
  /\ batch' = TileStreamBatch(opts.batch, reading.largest, opts.memory)
  /\ schema' = "flat" /\ pc' = "publish"
  /\ UNCHANGED <<compactVars, opts, reading, zooms, there, tempVars, outVars>>

\* stagePMTiles, whose copy is in PMTiles.
StageArchive ==
  /\ pc = "import" /\ reading.kind = "pmtiles"
  /\ opts.compact \/ opts.schema = "normalized"
  /\ MakeTemp("stagePMTiles", "pmtiles", Parent(opts.artifact))
  /\ pc' = "stage"
  /\ UNCHANGED <<compactVars, opts, planVars, outVars>>

\* The copy is there; its rows are flat.
StagingDone ==
  /\ pc = "stage"
  /\ HandOn("stagePMTiles", "pmtiles")
  /\ reading' = [reading EXCEPT !.kind = "staged", !.tables = "flat"]
  /\ pc' = "plan"
  /\ UNCHANGED <<compactVars, opts, schema, batch, zooms, there, outVars>>

ReadMBTiles ==
  /\ pc = "import" /\ reading.kind = "mbtiles"
  /\ pc' = "plan"
  /\ UNCHANGED <<compactVars, opts, planVars, there, tempVars, outVars>>

\* Schema and batch, both from the source as it is before its compaction.
Plan ==
  /\ pc = "plan" /\ reading.tables # "other"
  /\ schema' = IF opts.compact THEN "normalized" ELSE ResolvedSchema(opts.schema, reading)
  /\ batch' = IF opts.batch = 0 THEN AutoBatch(reading.sampled, opts.memory) ELSE opts.batch
  /\ pc' = IF opts.compact THEN "compact" ELSE "publish"
  /\ UNCHANGED <<compactVars, opts, reading, zooms, there, tempVars, outVars>>

\* compactMBTiles: its workspace, the copy of the rows, and their index.
BeginCompaction ==
  /\ pc = "compact"
  /\ MakeTemp("compactMBTiles", "compact", Parent(opts.artifact))
  /\ pc' = "copy"
  /\ UNCHANGED <<compactVars, opts, planVars, outVars>>

Compacting ==
  /\ pc = "copy" /\ (BeginCompact \/ AddRow \/ FinishCompact)
  /\ pc' = IF writer' = "finished" THEN "index" ELSE pc
  /\ UNCHANGED <<opts, planVars, there, tempVars, outVars>>

CompactionFails ==
  /\ pc = "copy" /\ CompactFails
  /\ Return("failed")
  /\ UNCHANGED <<opts, planVars, there, outVars>>

CompactionDone ==
  /\ pc = "index"
  /\ HandOn("compactMBTiles", "compact")
  /\ pc' = "publish"
  /\ UNCHANGED <<compactVars, opts, planVars, there, outVars>>

\* What the importer reads: the compacted copy when there is one.
ImportedRows ==
  IF opts.compact THEN [i \in DOMAIN map |-> IF map[i] \in DOMAIN images THEN images[map[i]] ELSE NoPayload]
  ELSE source

\* What the importer is told to write.  BuildPBF gives it the path it compared.
Target == IF OwnBuild THEN Canonical(opts.artifact) ELSE opts.artifact

\* It renames to that path: to the link, or to what the link names by then.
Renamed == {IF OwnBuild THEN Target ELSE Located(Target), Real(opts.artifact)}

\* Whatever lies at or below the path that is renamed to is gone.
Burials(at) ==
  LET buried(path) == IsPrefix(at, Real(path))
  IN  (IF buried(opts.input) THEN {"input"} ELSE {})
        \cup (IF opts.mbtilesOut # NoPath /\ mbtiles # "none" /\ buried(opts.mbtilesOut) THEN {"mbtiles"} ELSE {})
        \cup (IF "build" \in temp /\ opts.workDir # NoPath /\ buried(opts.workDir) THEN {"work"} ELSE {})

\* The importer refuses an artifact that it must not replace, a dangling row and
\* whatever else it finds wrong; otherwise its rename publishes the artifact.
Importable ==
  /\ Located(Target) \in there \cup DOMAIN Link => opts.replace
  /\ Makeable(Parent(Target))
  /\ NoPayload \notin Range(ImportedRows)

Publish ==
  /\ pc = "publish" /\ Importable
  /\ artifact' = "new" /\ published' = ImportedRows
  /\ \E at \in Renamed : lost' = lost \cup Burials(at)
  /\ IF OwnBuild THEN pc' = "sidecar" /\ UNCHANGED tempVars ELSE Return("ok")
  /\ UNCHANGED <<compactVars, opts, planVars, there, sidecar, mbtiles>>

\* Any step of an import may fail, or find the context cancelled.
ImportFails ==
  /\ pc \in {"import", "stage", "plan", "compact", "index", "publish"} \/ (pc = "copy" /\ writer = "none")
  /\ Return("failed")
  /\ UNCHANGED <<compactVars, opts, planVars, there, outVars>>

ImportNext ==
  \/ ValidateImport \/ StreamArchive \/ StageArchive \/ StagingDone \/ ReadMBTiles \/ Plan
  \/ BeginCompaction \/ Compacting \/ CompactionFails \/ CompactionDone \/ Publish \/ ImportFails
=============================================================================
