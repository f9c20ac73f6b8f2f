------------------------------- MODULE PMTiles -------------------------------
(***************************************************************************)
(* Reading a PMTiles v3 archive (src/internal/pmtiles/archive.go) on the   *)
(* two ways an import takes (src/cmd/tinytiles/pmtiles_source.go).         *)
(*                                                                         *)
(*   direct   the directories are inspected first, then the tiles are      *)
(*            streamed to the importer;                                    *)
(*   stage    the tiles are copied to a temporary MBTiles source, in       *)
(*            transactions of Batch rows, which is then indexed.           *)
(*                                                                         *)
(* A traversal is a stack of directories.  A step is one iteration of a    *)
(* loop of walk or inspectTiles.  The file may be anything: offsets,       *)
(* lengths and identifiers are words, and what lies at an extent is a      *)
(* directory only where the archive's author put one.                      *)
(***************************************************************************)
EXTENDS TileID, Sequences, SequencesExt

CONSTANTS
  Archive,        \* the files, see ArchiveType
  Word,           \* 2^64 in the code
  MaxLeafDepth, MaxAddressed, MaxRootBytes, MaxLeafBytes, MaxTileBytes,
  Batch           \* pmtilesCommitBatch

Uint64 == 0..(Word - 1)

Section == [offset : Uint64, length : Uint64]

\* Deltas of identifiers, run lengths, lengths, and coded offsets.
RawDirectory == Seq([delta : Uint64, run : Uint64, length : Uint64, value : Uint64])

\* What a file holds: its header, and the directories by their place.
ArchiveType ==
  [size : Uint64, magic : BOOLEAN, minZoom : Nat, maxZoom : Nat,
   root : Section, metadata : Section, leaf : Section, data : Section,
   addressed : Uint64, compression : {"none", "gzip", "brotli", "zstd"},
   directories : SUBSET [offset : Uint64, length : Uint64, entries : RawDirectory]]

ASSUME PMTilesAssumption ==
  /\ Archive \subseteq ArchiveType
  /\ \A f \in Archive : 2 * f.size < Word     \* a file's size is an int64
  /\ \A f \in Archive : \A d, e \in f.directories :   \* an extent decodes in one way
       d.offset = e.offset /\ d.length = e.length => d = e
  /\ MaxZoom \in Nat /\ Word \in Nat /\ Word > 0
  /\ {MaxLeafDepth, MaxAddressed, MaxRootBytes, MaxLeafBytes, MaxTileBytes, Batch} \subseteq Nat

VARIABLES
  file, job,
  pc,          \* "open", "inspect", "scan", "done", "failed"
  stack,       \* the directories under way: entries and the next to look at
  remaining,   \* tiles the header still allows
  run,         \* the run being visited, NoRun between two entries
  stats,       \* TileStats of the inspection
  read,        \* the last extent read, and the section it belongs to
  visited,     \* tiles handed to the visitor, in order
  rows, pending,  \* staging: committed rows, rows of the open transaction
  canceled,
  failure      \* history: a read, the visitor or SQLite has failed

envVars == <<file, job>>
walkVars == <<stack, remaining, run>>
outVars == <<visited, rows, pending>>
vars == <<envVars, pc, walkVars, stats, read, outVars, canceled, failure>>

NoRun == [id |-> 0, length |-> 0, offset |-> 0, left |-> 0, step |-> 0]

NoStats == [tiles |-> 0, bytes |-> 0, max |-> 0]

NoRead == [section |-> "none", offset |-> 0, length |-> 0]

-----------------------------------------------------------------------------
(* Extents and directories                                                 *)

\* checkExtent: the extent lies in the file.
InFile(f, offset, length) == offset <= f.size /\ length <= f.size - offset

\* validateSections; an empty section is not looked at.
ValidSections(f) ==
  /\ \A s \in {f.root, f.metadata, f.leaf, f.data} : s.length # 0 => InFile(f, s.offset, s.length)
  /\ f.root.length \in 1..MaxRootBytes

ValidHeader(f) == f.magic /\ f.minZoom <= f.maxZoom /\ f.maxZoom <= MaxZoom

CanOpen(f) ==
  /\ ValidHeader(f) /\ ValidSections(f)
  /\ f.compression \in {"none", "gzip"}

\* Identifiers are coded by difference; an offset of 0 continues the previous entry.
TileIds(raw) ==
  LET id[i \in 0..Len(raw)] == IF i = 0 THEN 0 ELSE id[i - 1] + raw[i].delta IN id

Offsets(raw) ==
  LET offset[i \in DOMAIN raw] ==
        IF raw[i].value = 0 /\ i > 1 THEN offset[i - 1] + raw[i - 1].length
        ELSE raw[i].value - 1
  IN  offset

\* deserializeEntries: the sum that leaves the word is an error, as is an
\* offset that continues nothing.
Decodes(raw) ==
  /\ raw # <<>>
  /\ \A i \in DOMAIN raw : TileIds(raw)[i] \in Uint64 /\ Offsets(raw)[i] \in Uint64

Decode(raw) ==
  [i \in DOMAIN raw |-> [id |-> TileIds(raw)[i], run |-> raw[i].run,
                         offset |-> Offsets(raw)[i], length |-> raw[i].length]]

\* The directories that readDirectory finds at an extent: at most one.
DirectoryAt(f, offset, length, limit) ==
  {d \in f.directories : /\ d.offset = offset /\ d.length = length /\ length <= limit
                         /\ InFile(f, offset, length) /\ Decodes(d.entries)}

\* Fault: the length is compared with the section and not with what is left of it.
Within_WholeLength(e, section) == e.offset <= section.length /\ e.length <= section.length

\* validateEntry: section-relative extents, and identifiers of known zooms.
Within(e, section) == e.offset <= section.length /\ e.length <= section.length - e.offset

ValidEntry(e) ==
  IF e.run = 0 THEN Within(e, file.leaf)
  ELSE /\ Within(e, file.data)
       /\ e.id <= maxTileID /\ e.run - 1 <= maxTileID - e.id

\* addOffset.
Adds(base, relative) == base + relative < Word

-----------------------------------------------------------------------------
(* Control                                                                 *)

Init ==
  /\ file \in Archive /\ job \in {"direct", "stage"} /\ pc = "open"
  /\ stack = <<>> /\ remaining = 0 /\ run = NoRun
  /\ stats = NoStats /\ read = NoRead
  /\ visited = <<>> /\ rows = <<>> /\ pending = <<>>
  /\ canceled = FALSE /\ failure = FALSE

\* An error: the open transaction is rolled back, the copy removed with its workspace.
Abort ==
  /\ pc' = "failed" /\ stack' = <<>> /\ run' = NoRun
  /\ rows' = <<>> /\ pending' = <<>>
  /\ UNCHANGED <<envVars, remaining, stats, read, visited, canceled>>

Budget(f) == IF f.addressed = 0 THEN MaxAddressed ELSE f.addressed

RootDirectory(f) == DirectoryAt(f, f.root.offset, f.root.length, MaxRootBytes)

\* Both traversals begin with the root directory and the whole budget.
BeginWalk(phase) ==
  \E d \in RootDirectory(file) :
    /\ pc' = phase /\ run' = NoRun
    /\ stack' = <<[entries |-> Decode(d.entries), next |-> 1]>>
    /\ remaining' = Budget(file)
    /\ read' = [section |-> "root", offset |-> d.offset, length |-> d.length]

\* openPMTilesTileSource and stagePMTiles, up to their traversal.
Open ==
  /\ pc = "open" /\ CanOpen(file) /\ ~canceled
  /\ BeginWalk(IF job = "direct" THEN "inspect" ELSE "scan")
  /\ UNCHANGED <<envVars, stats, outVars, canceled, failure>>

RejectArchive ==
  /\ pc = "open"
  /\ ~CanOpen(file) \/ RootDirectory(file) = {} \/ canceled
  /\ Abort /\ UNCHANGED failure

Top == stack[Len(stack)]

AtEntry == pc \in {"inspect", "scan"} /\ stack # <<>> /\ run = NoRun /\ Top.next <= Len(Top.entries)

Entry == Top.entries[Top.next]

Advanced == [stack EXCEPT ![Len(stack)].next = @ + 1]

LeafDirectory(e) == DirectoryAt(file, file.leaf.offset + e.offset, e.length, MaxLeafBytes)

LeafAccepted(e) ==
  /\ e.run = 0 /\ ValidEntry(e) /\ Len(stack) <= MaxLeafDepth
  /\ Adds(file.leaf.offset, e.offset) /\ LeafDirectory(e) # {}

EnterLeaf ==
  /\ AtEntry /\ ~canceled /\ LeafAccepted(Entry)
  /\ \E d \in LeafDirectory(Entry) :
       /\ stack' = Append(Advanced, [entries |-> Decode(d.entries), next |-> 1])
       /\ read' = [section |-> "leaf", offset |-> d.offset, length |-> d.length]
  /\ UNCHANGED <<envVars, pc, remaining, run, stats, outVars, canceled, failure>>

RunAccepted(e) ==
  /\ e.run > 0 /\ ValidEntry(e)
  /\ e.run <= remaining /\ e.length <= MaxTileBytes

\* The inspection does not read tiles, and sums them up in words.
CanCount(e) == stats.bytes + e.run * e.length < Word /\ stats.tiles + e.run < Word

\* Fault: the blob of a run is counted once.
InspectRun_BlobOnce ==
  /\ pc = "inspect" /\ AtEntry /\ ~canceled
  /\ RunAccepted(Entry) /\ CanCount(Entry)
  /\ stats' = [tiles |-> stats.tiles + Entry.run, bytes |-> stats.bytes + Entry.length,
               max |-> IF Entry.length > stats.max THEN Entry.length ELSE stats.max]
  /\ remaining' = remaining - Entry.run
  /\ stack' = Advanced
  /\ UNCHANGED <<envVars, pc, run, read, outVars, canceled, failure>>

InspectRun ==
  /\ pc = "inspect" /\ AtEntry /\ ~canceled
  /\ RunAccepted(Entry) /\ CanCount(Entry)
  /\ stats' = [tiles |-> stats.tiles + Entry.run, bytes |-> stats.bytes + Entry.run * Entry.length,
               max |-> IF Entry.length > stats.max THEN Entry.length ELSE stats.max]
  /\ remaining' = remaining - Entry.run
  /\ stack' = Advanced
  /\ UNCHANGED <<envVars, pc, run, read, outVars, canceled, failure>>

\* ReadAt takes an int64; no byte is asked for beyond the file otherwise.
CanRead(e) ==
  /\ Adds(file.data.offset, e.offset)
  /\ 2 * (file.data.offset + e.offset) < Word
  /\ e.length > 0 => InFile(file, file.data.offset + e.offset, e.length)

\* The blob of a run is read once.
ReadRun ==
  /\ pc = "scan" /\ AtEntry /\ ~canceled
  /\ RunAccepted(Entry) /\ CanRead(Entry)
  /\ read' = [section |-> "data", offset |-> file.data.offset + Entry.offset, length |-> Entry.length]
  /\ run' = [id |-> Entry.id, length |-> Entry.length, offset |-> Entry.offset, left |-> Entry.run, step |-> 0]
  /\ stack' = Advanced
  /\ UNCHANGED <<envVars, pc, remaining, stats, outVars, canceled, failure>>

EntryAccepted(e) ==
  \/ LeafAccepted(e)
  \/ RunAccepted(e) /\ (IF pc = "inspect" THEN CanCount(e) ELSE CanRead(e))

RejectEntry ==
  /\ AtEntry /\ (canceled \/ ~EntryAccepted(Entry))
  /\ Abort /\ UNCHANGED failure

\* The visitor of ScanTiles, or of copyPMTilesTiles: the one place where rows are flipped.
VisitedTile == LET t == IDToZxy(run.id + run.step)
               IN  [z |-> t.z, x |-> t.x, y |-> TMSRow(t), blob |-> <<run.offset, run.length>>]

\* Fault: the row that fills a transaction is not in it.
Visit_BeforeInsert ==
  /\ run # NoRun /\ run.left > 0 /\ ~canceled
  /\ visited' = Append(visited, VisitedTile)
  /\ IF job = "direct" THEN UNCHANGED <<rows, pending>>
     ELSE IF Len(pending) + 1 < Batch
     THEN pending' = Append(pending, VisitedTile) /\ UNCHANGED rows
     ELSE rows' = rows \o pending /\ pending' = <<>>
  /\ run' = [run EXCEPT !.left = @ - 1, !.step = @ + 1]
  /\ UNCHANGED <<envVars, pc, stack, remaining, stats, read, canceled, failure>>

Visit ==
  /\ run # NoRun /\ run.left > 0 /\ ~canceled
  /\ visited' = Append(visited, VisitedTile)
  /\ IF job = "direct" THEN UNCHANGED <<rows, pending>>
     ELSE IF Len(pending) + 1 < Batch
     THEN pending' = Append(pending, VisitedTile) /\ UNCHANGED rows
     ELSE rows' = rows \o Append(pending, VisitedTile) /\ pending' = <<>>
  /\ run' = [run EXCEPT !.left = @ - 1, !.step = @ + 1]
  /\ UNCHANGED <<envVars, pc, stack, remaining, stats, read, canceled, failure>>

VisitCanceled ==
  /\ run # NoRun /\ run.left > 0 /\ canceled
  /\ Abort /\ UNCHANGED failure

\* Fault: an entry counts once, however many tiles it runs over.
FinishRun_Once ==
  /\ run # NoRun /\ run.left = 0
  /\ remaining' = remaining - 1 /\ run' = NoRun
  /\ UNCHANGED <<envVars, pc, stack, stats, read, outVars, canceled, failure>>

\* The run counts against the budget when it has been visited.
FinishRun ==
  /\ run # NoRun /\ run.left = 0
  /\ remaining' = remaining - run.step /\ run' = NoRun
  /\ UNCHANGED <<envVars, pc, stack, stats, read, outVars, canceled, failure>>

LeaveDirectory ==
  /\ stack # <<>> /\ run = NoRun /\ Top.next > Len(Top.entries)
  /\ stack' = SubSeq(stack, 1, Len(stack) - 1)
  /\ UNCHANGED <<envVars, pc, remaining, run, stats, read, outVars, canceled, failure>>

-----------------------------------------------------------------------------
(* The end of a traversal                                                  *)

WalkEnds == pc \in {"inspect", "scan"} /\ stack = <<>> /\ run = NoRun

\* A declared number of tiles is exact.
CountsMatch == file.addressed = 0 \/ remaining = 0

\* The source is ready; the importer scans it.
Inspected ==
  /\ pc = "inspect" /\ WalkEnds /\ CountsMatch /\ stats.tiles > 0 /\ ~canceled
  /\ BeginWalk("scan")
  /\ UNCHANGED <<envVars, stats, outVars, canceled, failure>>

DirectScanned ==
  /\ pc = "scan" /\ job = "direct" /\ WalkEnds /\ CountsMatch
  /\ pc' = "done"
  /\ UNCHANGED <<envVars, walkVars, stats, read, outVars, canceled, failure>>

Coordinates(tiles) == [i \in DOMAIN tiles |-> <<tiles[i].z, tiles[i].x, tiles[i].y>>]

NoneTwice(s) == \A i, j \in DOMAIN s : s[i] = s[j] => i = j

\* The last transaction is committed; a unique index makes the copy a source.
CanIndex == visited # <<>> /\ ~canceled /\ NoneTwice(Coordinates(rows \o pending))

StageIndexed ==
  /\ pc = "scan" /\ job = "stage" /\ WalkEnds /\ CountsMatch /\ CanIndex
  /\ pc' = "done" /\ rows' = rows \o pending /\ pending' = <<>>
  /\ UNCHANGED <<envVars, walkVars, stats, read, visited, canceled, failure>>

RejectCount ==
  /\ WalkEnds
  /\ \/ ~CountsMatch
     \/ pc = "inspect" /\ (stats.tiles = 0 \/ canceled)
     \/ pc = "scan" /\ job = "stage" /\ ~CanIndex
  /\ Abort /\ UNCHANGED failure

\* A read fails, or the visitor, or a statement of SQLite.
Fail ==
  /\ pc \notin {"done", "failed"}
  /\ failure' = TRUE /\ Abort

Cancel ==
  /\ pc \notin {"done", "failed"} /\ ~canceled
  /\ canceled' = TRUE
  /\ UNCHANGED <<envVars, pc, walkVars, stats, read, outVars, failure>>

Step ==
  \/ Open \/ RejectArchive
  \/ EnterLeaf \/ InspectRun \/ ReadRun \/ RejectEntry
  \/ Visit \/ VisitCanceled \/ FinishRun \/ LeaveDirectory
  \/ Inspected \/ DirectScanned \/ StageIndexed \/ RejectCount

Next == Step \/ Fail \/ Cancel

Spec == Init /\ [][Next]_vars

-----------------------------------------------------------------------------
(* Properties                                                              *)

\* Every variable has its type.  The nesting of directories is bounded, also
\* where a leaf directory names itself.
TypeOK ==
  /\ job \in {"direct", "stage"}
  /\ pc \in {"open", "inspect", "scan", "done", "failed"}
  /\ Len(stack) <= MaxLeafDepth + 1
  /\ remaining \in Nat /\ canceled \in BOOLEAN /\ failure \in BOOLEAN
  /\ run \in [id : Uint64, length : Uint64, offset : Uint64, left : Nat, step : Nat]
  /\ stats \in [tiles : Uint64, bytes : Uint64, max : Uint64]
  /\ read.offset \in Uint64 /\ read.length \in Uint64

SectionOf(name) == IF name = "root" THEN file.root ELSE IF name = "leaf" THEN file.leaf ELSE file.data

\* No read leaves the section its entry belongs to, nor the file, whatever the
\* words of the header and of the directories are: archive.go:644 "File bounds
\* alone would allow an entry to point into a different section".
ReadsInside ==
  read.length > 0 =>
    LET s == SectionOf(read.section)
    IN  /\ s.offset <= read.offset
        /\ read.offset + read.length <= s.offset + s.length
        /\ read.offset + read.length <= file.size

\* At any moment of a scan the visitor has been given no more tiles than the
\* header declares, and what is left of the budget accounts for the rest.
BudgetIsExact ==
  pc = "scan" => Len(visited) + remaining = Budget(file) + run.step

Bytes(tiles) ==
  LET sum[i \in 0..Len(tiles)] == IF i = 0 THEN 0 ELSE sum[i - 1] + tiles[i].blob[2]
  IN  sum[Len(tiles)]

Largest(tiles) == Max({0} \cup {tiles[i].blob[2] : i \in DOMAIN tiles})

\* The importer sizes its batches by the inspection: a scan that ends has
\* delivered the tiles, the bytes and the largest tile the inspection counted,
\* and the scan of an inspected archive is refused only for a failure, for a
\* cancellation, or for an empty data section at an offset no read accepts.
InspectionForetellsScan ==
  [][job = "direct" /\ pc = "scan" =>
       /\ pc' = "done" =>
            stats = [tiles |-> Len(visited), bytes |-> Bytes(visited), max |-> Largest(visited)]
       /\ pc' = "failed" => failure' \/ canceled \/ file.data.length = 0]_vars

-----------------------------------------------------------------------------
(* The tiles an archive holds                                              *)

Entries == [id : Uint64, run : Uint64, offset : Uint64, length : Uint64]

\* The tile of an identifier, by ZxyToID alone.
TileOfId == [id \in 0..maxTileID |-> CHOOSE t \in TileSet : ZxyToID(t.z, t.x, t.y) = id]

\* The tile as it is to be delivered, with its row from the south.
Spell(id, e) == LET t == TileOfId[id]
                IN  [z |-> t.z, x |-> t.x, y |-> Pow2[t.z] - 1 - t.y, blob |-> <<e.offset, e.length>>]

\* What a missing leaf holds, and one nested too deeply.
NoTile == [z |-> -1, x |-> 0, y |-> 0, blob |-> <<0, 0>>]

\* An entry written out: a run tile by tile, a leaf as its directory is below.
WriteOut(f, e, below) ==
  LET leaf == {d \in f.directories : /\ d.offset = f.leaf.offset + e.offset /\ d.length = e.length
                                     /\ Decodes(d.entries)}
  IN  IF e.run > 0 THEN [k \in 1..e.run |-> Spell(e.id + k - 1, e)]
      ELSE IF leaf = {} THEN <<NoTile>>
      ELSE below[Decode((CHOOSE d \in leaf : TRUE).entries)]

\* The last n entries of a directory written out.
LastEntries(f, entries, below) ==
  LET last[n \in 0..Len(entries)] ==
        IF n = 0 THEN <<>> ELSE WriteOut(f, entries[Len(entries) + 1 - n], below) \o last[n - 1]
  IN  last

\* A directory written out, with the leaves below it down to a depth.
Expand(f) ==
  LET expand[depth \in 0..(MaxLeafDepth + 1)] ==
        [entries \in Seq(Entries) |->
           IF depth = 0 THEN <<NoTile>>
           ELSE LastEntries(f, entries, expand[depth - 1])[Len(entries)]]
  IN  expand

Contents(f) == Expand(f)[MaxLeafDepth + 1][Decode((CHOOSE d \in RootDirectory(f) : TRUE).entries)]

\* A traversal that ends has delivered the expansion of the directory tree, in
\* its order and with rows from the south: to the importer (ScanTiles), or as
\* rows of the staged copy, over all its transactions, where no tile is twice.
ScanIsExpansion ==
  pc = "done" =>
    IF job = "direct" THEN visited = Contents(file)
    ELSE rows = Contents(file) /\ \A i, j \in DOMAIN rows : i # j => rows[i] # rows[j]
=============================================================================
