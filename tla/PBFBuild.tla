------------------------------ MODULE PBFBuild ------------------------------
(***************************************************************************)
(* The build of an artifact from OSM data, with the built-in generator     *)
(* (src/pbf_build_native.go) or with an external one whose MBTiles are     *)
(* then imported (src/cmd/tinytiles/build.go).  Together with the import   *)
(* this is what the commands do to the file system.  A command may fail or *)
(* crash at any step.                                                      *)
(***************************************************************************)
EXTENDS ImportPipeline

CONSTANTS
  Options,        \* command lines, see OptionsType
  Sources,        \* what they read, see SourceType
  Preset,         \* presetTable: minimum and maximum zoom, postal codes
  Unset

OptionsType ==
  [cmd : {"import", "build"}, generator : BOOLEAN, input : Seq(STRING), artifact : Seq(STRING),
   replace : BOOLEAN, mbtilesOut : Seq(STRING) \cup {NoPath}, replaceMB : BOOLEAN,
   workDir : Seq(STRING) \cup {NoPath}, keepWork : BOOLEAN, compact : BOOLEAN,
   schema : {"auto", "flat", "normalized"}, batch : Int, memory : Int,
   preset : DOMAIN Preset \cup {Unset}, postal : BOOLEAN \cup {Unset},
   minZoom : Int \cup {Unset}, maxZoom : Int \cup {Unset}]

SourceType ==
  [kind : {"mbtiles", "pmtiles", "pbf", "staged"}, tables : {"flat", "normalized", "other"},
   reuse : BOOLEAN, largest : Nat, sampled : Nat, boundaries : BOOLEAN,
   payloads : Seq(Payload \cup {NoPayload})]

\* An import has none of the flags of an external generator.
ASSUME BuildAssumption ==
  /\ Options \subseteq OptionsType /\ Sources \subseteq SourceType
  /\ \A o \in Options : o.cmd = "import" => o.mbtilesOut = NoPath /\ o.workDir = NoPath

Init ==
  /\ opts \in Options
  /\ \E s \in Sources : /\ s.kind \in (IF opts.cmd = "import" THEN {"mbtiles", "pmtiles"} ELSE {"pbf"})
                        /\ reading = s /\ source = s.payloads
  /\ pc = "validate" /\ schema = opts.schema /\ batch = opts.batch /\ zooms = <<>>
  /\ CompactInit
  /\ there = Existing /\ temp = {} /\ defers = {} /\ kept = {} /\ lost = {} /\ published = <<>>
  /\ artifact = (IF Real(opts.artifact) \in Existing THEN "old" ELSE "none")
  /\ sidecar = (IF Real(opts.artifact) \in Existing THEN "old" ELSE "none")
  /\ mbtiles = (IF opts.mbtilesOut # NoPath /\ Real(opts.mbtilesOut) \in Existing THEN "old" ELSE "none")

-----------------------------------------------------------------------------
(* Validation                                                              *)

\* ResolvePreset; no preset is the balanced one.
PresetOf(name) == Preset[IF name = Unset THEN "balanced" ELSE name]

minZoom == IF opts.minZoom = Unset THEN PresetOf(opts.preset).minZoom ELSE opts.minZoom
maxZoom == IF opts.maxZoom = Unset THEN PresetOf(opts.preset).maxZoom ELSE opts.maxZoom
postalCodes == IF opts.postal = Unset THEN PresetOf(opts.preset).postal ELSE opts.postal

\* The flags of commandBuild, and options.validate.
FlagsAccepted ==
  /\ minZoom >= 0 /\ maxZoom >= minZoom /\ maxZoom <= 22
  /\ ~(opts.compact /\ opts.schema = "flat")
  /\ ~opts.generator => ~opts.compact /\ opts.mbtilesOut = NoPath
  /\ opts.batch >= 0 /\ opts.memory > 0

\* parsePBFInputs, validateArtifactBuildPaths and checkArtifactDestination, which
\* BuildPBF repeats.  The latter does not follow a link.
ArtifactAccepted ==
  /\ RegularFile(opts.input)
  /\ Comparable(opts.artifact) /\ ~Overlap(opts.artifact, opts.input)
  /\ Located(opts.artifact) \in Existing \cup DOMAIN Link => opts.replace

\* validatePersistentBuildPaths, and checkMBTilesDestination, which follows links.
MBTilesAccepted ==
  opts.mbtilesOut # NoPath =>
    /\ Comparable(opts.mbtilesOut) /\ ~SamePath(opts.mbtilesOut, opts.input)
    /\ ~PathWithin(opts.mbtilesOut, opts.artifact) /\ ~PathWithin(opts.artifact, opts.mbtilesOut)
    /\ Real(opts.mbtilesOut) \in Existing => RegularFile(opts.mbtilesOut) /\ opts.replaceMB

\* The last checks of the external path.
GeneratorAccepted ==
  opts.generator =>
    /\ ~postalCodes /\ opts.preset = Unset
    /\ opts.workDir # NoPath => Comparable(opts.workDir) /\ ~PathWithin(opts.workDir, opts.artifact)

ValidateBuild ==
  /\ pc = "validate" /\ opts.cmd = "build"
  /\ IF FlagsAccepted /\ ArtifactAccepted /\ MBTilesAccepted /\ GeneratorAccepted
     THEN pc' = (IF opts.generator THEN "prepare" ELSE "buildPBF") /\ UNCHANGED tempVars
     ELSE Return("refused")
  /\ UNCHANGED <<compactVars, opts, planVars, there, outVars>>

-----------------------------------------------------------------------------
(* BuildPBF                                                                *)

\* resolvePBFBuildOptions fills in what it takes for not given: zooms that are
\* both zero, and an automatic batch.
BeginBuildPBF ==
  /\ pc = "buildPBF"
  /\ batch' = IF opts.batch = 0 THEN DefaultBatch ELSE opts.batch
  /\ zooms' = IF minZoom = 0 /\ maxZoom = 0
              THEN <<PresetOf(opts.preset).minZoom, PresetOf(opts.preset).maxZoom>>
              ELSE <<minZoom, maxZoom>>
  /\ MakeTemp("BuildPBF", "pbf", Parent(Target)) /\ pc' = "generate"
  /\ UNCHANGED <<compactVars, opts, reading, schema, outVars>>

\* Fault: the sidecar is written where the tiles are generated.
Generate_WithSidecar ==
  /\ pc = "generate" /\ pc' = "publish"
  /\ sidecar' = IF postalCodes /\ reading.boundaries THEN "new" ELSE sidecar
  /\ UNCHANGED <<compactVars, opts, planVars, there, tempVars, artifact, published, mbtiles, lost>>

\* minigen.Build wrote a complete stream, which is opened again for the import.
Generate ==
  /\ pc = "generate" /\ pc' = "publish"
  /\ UNCHANGED <<compactVars, opts, planVars, there, tempVars, outVars>>

\* Boundaries were assembled: the file is truncated and written in place.
WriteSidecar ==
  /\ pc = "sidecar" /\ postalCodes /\ reading.boundaries
  /\ IF sidecar = "partial"
     THEN sidecar' = "new" /\ Return("ok")
     ELSE sidecar' = "partial" /\ UNCHANGED <<pc, tempVars>>
  /\ UNCHANGED <<compactVars, opts, planVars, there, artifact, published, mbtiles, lost>>

NoSidecar ==
  /\ pc = "sidecar" /\ ~(postalCodes /\ reading.boundaries)
  /\ Return("ok")
  /\ UNCHANGED <<compactVars, opts, planVars, there, outVars>>

\* A failure of the sidecar is reported although the artifact is published.
BuildFails ==
  /\ pc \in {"buildPBF", "generate", "sidecar", "prepare", "generator", "check"}
  /\ Return("failed")
  /\ UNCHANGED <<compactVars, opts, planVars, there, outVars>>

-----------------------------------------------------------------------------
(* An external generator                                                   *)

\* The directory lies where it was asked for, or next to the artifact; the
\* deferred call is left out when it is to be kept.
PrepareWork ==
  /\ pc = "prepare"
  /\ MakeDir(IF opts.workDir = NoPath THEN Parent(opts.artifact) ELSE opts.workDir)
  /\ temp' = temp \cup {"build"}
  /\ defers' = IF opts.keepWork THEN defers ELSE defers \cup {[frame |-> "commandBuild", dir |-> "build"]}
  /\ pc' = "generator"
  /\ UNCHANGED <<compactVars, opts, planVars, kept, outVars>>

\* The generator is another program: it writes the MBTiles file where it is told
\* to, in place and through links, and may end without it or with a part of it.
Writable(path) == /\ Parent(Real(path)) \in there \ Files
                  /\ Real(path) \in there => Real(path) \in Files

RunGenerator ==
  /\ pc = "generator" /\ (opts.mbtilesOut # NoPath => Writable(opts.mbtilesOut))
  /\ \E wrote \in {"partial", "new"} :
       /\ mbtiles' = IF opts.mbtilesOut = NoPath THEN mbtiles ELSE wrote
       /\ pc' = IF wrote = "new" THEN "check" ELSE pc
  /\ there' = IF opts.mbtilesOut = NoPath THEN there ELSE there \cup {Real(opts.mbtilesOut)}
  /\ lost' = IF opts.mbtilesOut # NoPath /\ SameFile(opts.mbtilesOut, opts.input) THEN lost \cup {"input"} ELSE lost
  /\ zooms' = <<minZoom, maxZoom>>
  /\ UNCHANGED <<compactVars, opts, reading, schema, batch, tempVars, artifact, published, sidecar>>

\* requireRegularFile, and the import of what was generated.
CheckGenerated ==
  /\ pc = "check"
  /\ reading' = [reading EXCEPT !.kind = "mbtiles"] /\ pc' = "import"
  /\ UNCHANGED <<compactVars, opts, schema, batch, zooms, there, tempVars, outVars>>

-----------------------------------------------------------------------------

\* The process dies: nothing deferred runs.
Crash ==
  /\ ~Ended /\ pc' = "crashed"
  /\ UNCHANGED <<compactVars, opts, planVars, there, tempVars, outVars>>

BuildNext ==
  \/ ValidateBuild \/ BeginBuildPBF \/ Generate \/ WriteSidecar \/ NoSidecar \/ BuildFails
  \/ PrepareWork \/ RunGenerator \/ CheckGenerated

Next == ImportNext \/ BuildNext \/ Crash

Spec == Init /\ [][Next]_vars

-----------------------------------------------------------------------------
(* Properties                                                              *)

\* A staged copy is there as long as it is to be read, although the function that
\* made it would have removed it; and whatever step fails, or succeeds, no return
\* of a command leaves a temporary directory, but a build's when it was asked for.
WorkspacesAreRemoved ==
  /\ ~Ended /\ reading.kind = "staged" => "pmtiles" \in temp
  /\ pc = "publish" /\ opts.compact => "compact" \in temp
  /\ pc = "publish" /\ OwnBuild => "pbf" \in temp
  /\ Ended /\ pc # "crashed" => temp \subseteq (IF opts.keepWork THEN {"build"} ELSE {})

\* The paths that are compared are those that will be written: none of them
\* leads through a dangling link.
NoneDangles ==
  \A path \in {opts.artifact} \cup ({opts.mbtilesOut, opts.workDir} \ {NoPath}) : Canonical(path) = Real(path)

\* No command destroys what it reads, nor what it was asked to keep: the checks
\* compare paths before anything exists at them, the importer and the generator
\* write much later, through links that may dangle at first.  The input is safe
\* from all but a hard link of it that is given as the MBTiles output; the MBTiles
\* and the work directory are safe when no output is given by a dangling link.
NothingIsBuried ==
  /\ "input" \in lost => /\ opts.mbtilesOut # NoPath /\ SameFile(opts.mbtilesOut, opts.input)
                         /\ Real(opts.mbtilesOut) # Real(opts.input)
  /\ NoneDangles => lost \subseteq {"input"}

\* A published artifact holds the tiles of its source, all of them and in their
\* order, streamed, staged or compacted; and success means that it is there.
PublishedIsSource ==
  /\ artifact = "new" => published = source
  /\ pc = "ok" => artifact = "new"

\* The postal codes never run ahead of the artifact they describe: also after
\* a crash or a failure, a file that is new, or half written, belongs to an
\* artifact that is published; after a success that found boundaries it is whole.
SidecarFollowsArtifact ==
  /\ sidecar \in {"partial", "new"} => artifact = "new"
  /\ pc = "ok" /\ opts.cmd = "build" /\ ~opts.generator /\ postalCodes /\ reading.boundaries => sidecar = "new"

\* README.md:445 of the presets: "any flag you also pass explicitly always wins
\* over the preset's value for that one setting".
ExplicitZoomWins ==
  zooms # <<>> =>
    /\ opts.minZoom # Unset => zooms[1] = opts.minZoom
    /\ opts.maxZoom # Unset => zooms[2] = opts.maxZoom

\* A streamed archive is imported in batches that fit into the memory the
\* caller allows, whatever it asked for; one tile is always imported.
StreamBatchFits ==
  pc = "publish" /\ reading.kind = "pmtiles" =>
    \/ batch = 1
    \/ batch * (reading.largest + RowOverhead) + FixedMemory <= opts.memory /\ batch \in 1..MaxAutoBatch
=============================================================================
