------------------------------ MODULE Generator ------------------------------
(***************************************************************************)
(* The built-in generator (src/internal/minigen/build.go): OSM inputs      *)
(* become a stream of tiles.                                               *)
(*                                                                         *)
(* Three passes scan every input, one goroutine each behind a semaphore,   *)
(* each into a slot of its own; the slots are merged when all have ended.  *)
(* Then, zoom by zoom, the features are put into tiles, the tiles are      *)
(* encoded by goroutines into slots, and the slots are written in order.   *)
(* Any scan or encoding may fail, and the caller may cancel.               *)
(*                                                                         *)
(* Coordinates are columns and rows of the finest grid, and lines run      *)
(* along its axes; a tile's content is the features in it, in order.       *)
(***************************************************************************)
EXTENDS Integers, Sequences, FiniteSets, SequencesExt, FiniteSetsExt, Selection, TileGrid

CONSTANTS
  Inputs,             \* sequences of files, see IsFile
  Concurrency,
  MinZoom, MaxZoom,
  GridZoom,           \* the zoom of the finest grid
  MaxFan              \* tiles one feature may be put into: 4096

Node == Nat

\* A way: whether it is a road or an area, the zoom it is visible from.
Way == [class : {"road", "area", "none"}, minZoom : Nat, nodes : Seq(Node)]

\* A file: the positions of its nodes, and its ways.
IsFile(file) ==
  /\ file.ways \in Seq(Way)
  /\ \A n \in DOMAIN file.nodes : file.nodes[n] \in Nat \X Nat

ASSUME GeneratorAssumption ==
  /\ \A files \in Inputs : /\ files # <<>> /\ DOMAIN files = 1..Len(files) /\ Len(files) \in Nat
                           /\ \A i \in DOMAIN files : IsFile(files[i])
  /\ Concurrency \in Nat \ {0} /\ MinZoom \in Nat /\ GridZoom \in Nat
  /\ MaxZoom \in MinZoom..GridZoom

VARIABLES
  inputs,
  pass,        \* "refs", "coords", "features", "build", "encode", "done", "failed"
  launched,    \* goroutines started in this pass or for this zoom
  worker,      \* of every input, or of every tile: "idle", "running", "ok", "failed", "canceled"
  slots,       \* the results of the goroutines: out of a pass, results of a zoom
  canceled, groupCanceled,
  refs, coords, features,   \* what the passes merged
  zoom,
  tiles,       \* the tiles of the zoom, sorted
  stream,      \* records written so far
  broken       \* history: a scan or an encoding failed

dataVars == <<refs, coords, features>>
poolVars == <<launched, worker, slots, groupCanceled>>
generatorVars == <<inputs, pass, poolVars, canceled, dataVars, zoom, tiles, stream, broken>>

Scanning == pass \in {"refs", "coords", "features"}

Idle(n) == [i \in 1..n |-> "idle"]

GeneratorInit ==
  /\ inputs \in Inputs /\ pass = "refs"
  /\ launched = 0 /\ worker = Idle(Len(inputs)) /\ groupCanceled = FALSE
  /\ slots = [i \in DOMAIN inputs |-> {}]
  /\ canceled = FALSE /\ broken = FALSE
  /\ refs = {} /\ coords = <<>> /\ features = <<>>
  /\ zoom = MinZoom /\ tiles = <<>> /\ stream = <<>>

-----------------------------------------------------------------------------
(* What a pass finds                                                       *)

\* isRenderableWay
Renderable(w) == w.class # "none"

NodesOf(file) == UNION {ToSet(file.ways[i].nodes) : i \in {j \in DOMAIN file.ways : Renderable(file.ways[j])}}

\* loadCoordinates: the positions of the nodes that are wanted.
PositionsIn(file) == [n \in DOMAIN file.nodes \cap refs |-> file.nodes[n]]

\* wayLine: nodes without a position are left out.
WayLine(nodes) ==
  LET known == Kept(nodes, DOMAIN coords)
  IN  [i \in DOMAIN known |-> coords[known[i]]]

Closed(s) == Len(s) >= 4 /\ s[1] = s[Len(s)]

\* The features of one way: an area must be closed by its nodes, and still by
\* the positions that are known.
FeatureOf(w) ==
  LET line == WayLine(w.nodes)
      drawn == \/ w.class = "road" /\ Len(line) >= 2
               \/ w.class = "area" /\ Closed(w.nodes) /\ Closed(line)
  IN  IF drawn THEN <<[layer |-> w.class, minZoom |-> w.minZoom, line |-> line]>> ELSE <<>>

\* collectRenderableFeatures: in the order of the ways.
FeaturesIn(file) == FlattenSeq([j \in DOMAIN file.ways |-> FeatureOf(file.ways[j])])

\* scanOne: what the pass looks for in an input.
Found(file) ==
  CASE pass = "refs"     -> NodesOf(file)
    [] pass = "coords"   -> PositionsIn(file)
    [] pass = "features" -> FeaturesIn(file)

\* The zero value of a slot.
NoResult == IF pass = "refs" THEN {} ELSE <<>>

-----------------------------------------------------------------------------
(* What the slots of a pass are merged to                                  *)

MergedRefs == UNION {slots[i] : i \in DOMAIN slots}

SlotsWith(n) == {i \in DOMAIN slots : n \in DOMAIN slots[i]}

\* A later slot overrides an earlier one.
MergedCoords ==
  [n \in UNION {DOMAIN slots[i] : i \in DOMAIN slots} |-> slots[Max(SlotsWith(n))][n]]

MergedFeatures == FlattenSeq(slots)

-----------------------------------------------------------------------------
(* scanInputsParallel                                                      *)

Running == {i \in DOMAIN worker : worker[i] = "running"}

\* The loop waits for the semaphore before it starts the next goroutine, and
\* starts all of them whatever the others found.
Launch ==
  /\ pass \in {"refs", "coords", "features", "encode"}
  /\ launched < Len(worker) /\ Cardinality(Running) < Concurrency
  /\ launched' = launched + 1
  /\ worker' = [worker EXCEPT ![launched + 1] = "running"]
  /\ UNCHANGED <<inputs, pass, slots, groupCanceled, canceled, dataVars, zoom, tiles, stream, broken>>

\* Fault: the result is appended to those that have come.
ScanSucceeds_Appends(i) ==
  /\ Scanning /\ worker[i] = "running"
  /\ worker' = [worker EXCEPT ![i] = "ok"]
  /\ slots' = [slots EXCEPT ![Cardinality({j \in DOMAIN worker : worker[j] = "ok"}) + 1] = Found(inputs[i])]
  /\ UNCHANGED <<inputs, pass, launched, groupCanceled, canceled, dataVars, zoom, tiles, stream, broken>>

\* A scan that does not look at the context again may still end well.
ScanSucceeds(i) ==
  /\ Scanning /\ worker[i] = "running"
  /\ worker' = [worker EXCEPT ![i] = "ok"]
  /\ slots' = [slots EXCEPT ![i] = Found(inputs[i])]
  /\ UNCHANGED <<inputs, pass, launched, groupCanceled, canceled, dataVars, zoom, tiles, stream, broken>>

\* The slot gets what was found up to the error.
ScanFails(i) ==
  /\ Scanning /\ worker[i] = "running"
  /\ worker' = [worker EXCEPT ![i] = "failed"]
  /\ \E part \in {NoResult, Found(inputs[i])} : slots' = [slots EXCEPT ![i] = part]
  /\ groupCanceled' = TRUE /\ broken' = TRUE
  /\ UNCHANGED <<inputs, pass, launched, canceled, dataVars, zoom, tiles, stream>>

ScanSeesCancel(i) ==
  /\ Scanning /\ worker[i] = "running" /\ (canceled \/ groupCanceled)
  /\ worker' = [worker EXCEPT ![i] = "canceled"]
  /\ \E part \in {NoResult, Found(inputs[i])} : slots' = [slots EXCEPT ![i] = part]
  /\ groupCanceled' = TRUE
  /\ UNCHANGED <<inputs, pass, launched, canceled, dataVars, zoom, tiles, stream, broken>>

\* Fault: a goroutine that fails returns without wg.Done.
AllEnded_WellOnly == launched = Len(worker) /\ \A i \in DOMAIN worker : worker[i] = "ok"

\* Fault: the loop has started the last goroutine and does not wait.
AllEnded_NoWait == launched = Len(worker)

\* wg.Wait has returned.
AllEnded == launched = Len(worker) /\ Running = {}

NewPool(n) ==
  /\ launched' = 0 /\ worker' = Idle(n) /\ groupCanceled' = FALSE
  /\ slots' = [i \in 1..n |-> <<>>]

\* Fault: only a cancellation stops the build.
AllWell_NotCanceled == \A i \in DOMAIN worker : worker[i] # "canceled"

\* No slot has an error.
AllWell == \A i \in DOMAIN worker : worker[i] \notin {"failed", "canceled"}

EndRefs ==
  /\ pass = "refs" /\ AllEnded /\ AllWell
  /\ refs' = MergedRefs /\ pass' = "coords" /\ NewPool(Len(inputs))
  /\ UNCHANGED <<inputs, canceled, coords, features, zoom, tiles, stream, broken>>

\* Without any position there is nothing to build.
EndCoords ==
  /\ pass = "coords" /\ AllEnded /\ AllWell
  /\ coords' = MergedCoords
  /\ pass' = IF coords' = <<>> THEN "failed" ELSE "features"
  /\ NewPool(Len(inputs))
  /\ UNCHANGED <<inputs, canceled, refs, features, zoom, tiles, stream, broken>>

EndFeatures ==
  /\ pass = "features" /\ AllEnded /\ AllWell
  /\ features' = MergedFeatures /\ pass' = "build" /\ NewPool(0)
  /\ UNCHANGED <<inputs, canceled, refs, coords, zoom, tiles, stream, broken>>

PassFails ==
  /\ Scanning /\ AllEnded /\ ~AllWell
  /\ pass' = "failed"
  /\ UNCHANGED <<inputs, poolVars, canceled, dataVars, zoom, tiles, stream, broken>>

-----------------------------------------------------------------------------
(* The tiles of a zoom                                                     *)

\* lonLatToTile
TileOf(p, z) == <<p[1] \div Side(GridZoom - z), p[2] \div Side(GridZoom - z)>>

\* addFeature: every tile of the bounding box, unless there are too many.
BoxTiles(line, z) ==
  LET at == {TileOf(line[i], z) : i \in DOMAIN line}
      xs == {t[1] : t \in at}
      ys == {t[2] : t \in at}
      box == (Min(xs)..Max(xs)) \X (Min(ys)..Max(ys))
  IN  IF Cardinality(box) > MaxFan THEN {} ELSE box

Visible == Kept(features, {f \in ToSet(features) : zoom >= f.minZoom})

\* buildZoomFromFeatures, and the order writeZoom sorts the keys by: column by
\* column, from the north.
Columnwise(z) == [i \in 1..(Side(z) * Side(z)) |-> <<(i - 1) \div Side(z), (i - 1) % Side(z)>>]

SortedTiles ==
  Kept(Columnwise(zoom), UNION {BoxTiles(Visible[i].line, zoom) : i \in DOMAIN Visible})

BuildZoom ==
  /\ pass = "build" /\ zoom <= MaxZoom /\ ~canceled
  /\ tiles' = SortedTiles /\ NewPool(Len(SortedTiles)) /\ pass' = "encode"
  /\ UNCHANGED <<inputs, canceled, dataVars, zoom, stream, broken>>

ZoomCanceled ==
  /\ pass = "build" /\ zoom <= MaxZoom /\ canceled
  /\ pass' = "failed"
  /\ UNCHANGED <<inputs, poolVars, canceled, dataVars, zoom, tiles, stream, broken>>

\* encodeGeometry: what is left of a line in a tile, also when it only passes
\* through.  Nothing looks at the context here.
Between(a, b, c) == Min({a, b}) <= c /\ c <= Max({a, b})

Enters(line, tile, z) ==
  \E i \in 1..(Len(line) - 1) :
    LET a == TileOf(line[i], z)
        b == TileOf(line[i + 1], z)
    IN  Between(a[1], b[1], tile[1]) /\ Between(a[2], b[2], tile[2])

\* encodeTile: layer by layer, in a fixed order.
Encoded(tile) ==
  LET in(layer) == Kept(Visible, {f \in ToSet(Visible) : /\ f.layer = layer /\ tile \in BoxTiles(f.line, zoom)
                                                          /\ Enters(f.line, tile, zoom)})
  IN  in("area") \o in("road")

\* Fault: the result is appended to those that have come.
EncodeSucceeds_Appends(i) ==
  /\ pass = "encode" /\ worker[i] = "running"
  /\ worker' = [worker EXCEPT ![i] = "ok"]
  /\ slots' = [slots EXCEPT ![Cardinality({j \in DOMAIN worker : worker[j] = "ok"}) + 1] = Encoded(tiles[i])]
  /\ UNCHANGED <<inputs, pass, launched, groupCanceled, canceled, dataVars, zoom, tiles, stream, broken>>

EncodeSucceeds(i) ==
  /\ pass = "encode" /\ worker[i] = "running"
  /\ worker' = [worker EXCEPT ![i] = "ok"]
  /\ slots' = [slots EXCEPT ![i] = Encoded(tiles[i])]
  /\ UNCHANGED <<inputs, pass, launched, groupCanceled, canceled, dataVars, zoom, tiles, stream, broken>>

EncodeFails(i) ==
  /\ pass = "encode" /\ worker[i] = "running"
  /\ worker' = [worker EXCEPT ![i] = "failed"] /\ broken' = TRUE
  /\ UNCHANGED <<inputs, pass, launched, slots, groupCanceled, canceled, dataVars, zoom, tiles, stream>>

\* One record of the stream: xyzToTMS turns the row.
Record(tile, content) ==
  [z |-> zoom, x |-> tile[1], row |-> Side(zoom) - 1 - tile[2], content |-> content]

\* The slots are written in the order of the keys, tiles without content left out.
Written ==
  LET records == [i \in DOMAIN tiles |-> Record(tiles[i], slots[i])]
  IN  Kept(records, {r \in ToSet(records) : r.content # <<>>})

WriteZoom ==
  /\ pass = "encode" /\ AllEnded /\ AllWell
  /\ stream' = stream \o Written
  /\ zoom' = zoom + 1 /\ pass' = "build"
  /\ UNCHANGED <<inputs, poolVars, canceled, dataVars, tiles, broken>>

\* An encoding has failed, or a write; what is written then is discarded with
\* the stream.
WriteFails ==
  /\ pass = "encode" /\ AllEnded
  /\ pass' = "failed"
  /\ UNCHANGED <<inputs, poolVars, canceled, dataVars, zoom, tiles, stream, broken>>

\* The stream cannot be created, or not be closed.
StreamFails ==
  /\ pass = "build" /\ (zoom = MinZoom \/ zoom > MaxZoom)
  /\ pass' = "failed"
  /\ UNCHANGED <<inputs, poolVars, canceled, dataVars, zoom, tiles, stream, broken>>

\* The stream is flushed and closed.
CloseStream ==
  /\ pass = "build" /\ zoom > MaxZoom
  /\ pass' = "done"
  /\ UNCHANGED <<inputs, poolVars, canceled, dataVars, zoom, tiles, stream, broken>>

Cancel ==
  /\ pass \notin {"done", "failed"} /\ ~canceled
  /\ canceled' = TRUE
  /\ UNCHANGED <<inputs, pass, poolVars, dataVars, zoom, tiles, stream, broken>>

WorkerEnds(i) ==
  ScanSucceeds(i) \/ ScanFails(i) \/ ScanSeesCancel(i) \/ EncodeSucceeds(i) \/ EncodeFails(i)

BuildStep ==
  \/ Launch \/ EndRefs \/ EndCoords \/ EndFeatures \/ PassFails
  \/ BuildZoom \/ ZoomCanceled \/ WriteZoom \/ WriteFails \/ StreamFails \/ CloseStream

GeneratorNext == BuildStep \/ (\E i \in DOMAIN worker : WorkerEnds(i)) \/ Cancel

\* Build runs on, and so does every goroutine it started.
Fairness == WF_generatorVars(BuildStep) /\ WF_generatorVars(\E i \in DOMAIN worker : WorkerEnds(i))

GeneratorSpec == GeneratorInit /\ [][GeneratorNext]_generatorVars /\ Fairness

-----------------------------------------------------------------------------
(* Properties                                                              *)

\* The tiles a reader of the inputs expects: positions from the last input that
\* has the node, features in the order of inputs and ways.
Holding(files, n) == {i \in DOMAIN files : n \in DOMAIN files[i].nodes}

Position(files, n) == files[Max(Holding(files, n))].nodes[n]

LineOf(files, nodes) ==
  LET known == Kept(nodes, {n \in ToSet(nodes) : Holding(files, n) # {}})
  IN  [i \in DOMAIN known |-> Position(files, known[i])]

LinesOf(files, w) ==
  LET line == LineOf(files, w.nodes)
  IN  IF \/ w.class = "road" /\ Len(line) >= 2
         \/ w.class = "area" /\ Len(w.nodes) >= 4 /\ w.nodes[1] = w.nodes[Len(w.nodes)]
                             /\ Len(line) >= 4 /\ line[1] = line[Len(line)]
      THEN <<[layer |-> w.class, minZoom |-> w.minZoom, line |-> line]>> ELSE <<>>

Lines(files) ==
  FlattenSeq([i \in DOMAIN files |->
    FlattenSeq([j \in DOMAIN files[i].ways |-> LinesOf(files, files[i].ways[j])])])

\* The features that cross a tile, but for those too large for any tile.
ExpectedIn(files, z, x, row) ==
  LET lines == Lines(files)
      tile == <<x, Side(z) - 1 - row>>
      in(layer) == Kept(lines, {f \in ToSet(lines) : /\ f.layer = layer /\ z >= f.minZoom
                                                     /\ Enters(f.line, tile, z)
                                                     /\ BoxTiles(f.line, z) # {}})
  IN  in("area") \o in("road")

Grid(z) == (0..(Side(z) - 1)) \X (0..(Side(z) - 1))

Expected(files, z) ==
  {r \in {[z |-> z, x |-> t[1], row |-> t[2], content |-> ExpectedIn(files, z, t[1], t[2])] :
             t \in Grid(z)} :
     r.content # <<>>}

\* By zoom, column, and row from the north.
Before(r, s) ==
  \/ r.z < s.z
  \/ r.z = s.z /\ r.x < s.x
  \/ r.z = s.z /\ r.x = s.x /\ r.row > s.row

\* However the goroutines are scheduled, a build that succeeds has written the
\* same stream: the tiles that hold something, each once, by zoom, column and
\* row from the north, with their features in the order of the inputs.  Build's
\* comment: "only the computation parallelizes, never the on-disk order or the
\* resulting bytes".
StreamIsDeterministic ==
  pass = "done" =>
    /\ \A i, j \in DOMAIN stream : i < j => Before(stream[i], stream[j])
    /\ ToSet(stream) = UNION {Expected(inputs, z) : z \in MinZoom..MaxZoom}

\* A failure of any goroutine, at any time, is the failure of the build: no
\* stream is handed on that misses what an input or a tile would have added.
FailuresAreReported == pass = "done" => ~broken

\* Every build returns, canceled or not.
BuildReturns == <>(pass \in {"done", "failed"})
=============================================================================
