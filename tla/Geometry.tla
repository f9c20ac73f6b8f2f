------------------------------ MODULE Geometry ------------------------------
(* The algorithms on geometry, each a call of its own: a job is one call,    *)
(* its result what the call returns; simplify runs step by step beside them. *)
EXTENDS Route, Boundaries, Territory, TileGeometry, Simplify

CONSTANTS Jobs,        \* records [kind, call]
          NoLine,      \* what simplify has to do beside the other jobs
          Pending      \* no result yet

ASSUME JobsAssumption ==
  \A j \in Jobs :
    /\ j.kind = "route" =>
         /\ j.call.route \in Seq([x : Int, y : Int] \cup {OutsideWGS84})
         /\ j.call.options \in [zoom : Int, radius : Int, maxTiles : Int]
    /\ j.kind = "territory" =>
         /\ j.call.features \in Seq(ToSet(j.call.features))
         /\ \A f \in DOMAIN j.call.features :
              /\ j.call.features[f].geometry \in Seq(Seq(Seq(Int \X Int)))
              /\ \A field \in DOMAIN j.call.features[f].fields : j.call.features[f].fields[field] \in Int
         /\ j.call.mapping # NoMapping =>
              /\ j.call.mapping \in Seq(ToSet(j.call.mapping))
              /\ \A row \in ToSet(j.call.mapping) : \A field \in DOMAIN row.fields : row.fields[field] \in Int
    /\ j.kind = "tile" =>
         /\ j.call.points \in Seq(Int \X Int)
         /\ j.call.kept \in Seq(1..Len(IF j.call.kind = "polygon" THEN WithoutClosing(j.call.points) ELSE j.call.points))
         /\ j.call.rings \in Seq([points : Seq(Int \X Int), kept : Seq(Nat), hole : BOOLEAN])
         /\ \A r \in DOMAIN j.call.rings :
              j.call.rings[r].kept \in Seq(1..Len(WithoutClosing(j.call.rings[r].points)))
    /\ j.kind = "chains" => j.call \in Seq(Seq(Int))
    /\ j.kind = "signature" => j.call \in Seq(Int \X Int) \X Seq(Int \X Int)

VARIABLES job, result

geometryVars == <<job, result, simplifyVars>>

-----------------------------------------------------------------------------

GeometryInit ==
  /\ job \in Jobs
  /\ result = Pending
  /\ input = IF job.kind = "simplify" THEN job.call ELSE NoLine
  /\ SimplifyInit

Answer(kind, Outcomes(_)) ==
  /\ job.kind = kind
  /\ result = Pending
  /\ result' \in Outcomes(job.call)
  /\ UNCHANGED <<job, simplifyVars>>

PlanRoute == Answer("route", LAMBDA call : {RouteSyncRequest(call.route, call.options)})
AssembleRings == Answer("chains", LAMBDA chains : {assembleRings(chains)})
CollectBoundaries == Answer("boundary", LAMBDA inputs : {collectPostalFeatures(inputs)})
ValidateTerritories == Answer("territory", LAMBDA opts : {Validate(opts, order) : order \in SweepOrders(opts.features)})
EncodeFeature == Answer("tile", LAMBDA f : {encodeGeometry(f)})
SignRings == Answer("signature", LAMBDA pair : {<<ringSignature(pair[1]), ringSignature(pair[2])>>})
SimplifyStep == SimplifyNext /\ UNCHANGED <<job, result>>

GeometryNext ==
  \/ PlanRoute \/ AssembleRings \/ CollectBoundaries \/ ValidateTerritories
  \/ EncodeFeature \/ SignRings \/ SimplifyStep

GeometrySpec == GeometryInit /\ [][GeometryNext]_geometryVars

Done(kind) == job.kind = kind /\ result # Pending

-----------------------------------------------------------------------------
\* All tiles of a corridor: the grid has not more than the budget.
Whole(route, zoom, radius) == RouteTileKeys(route, zoom, radius, Side(zoom) * Side(zoom)).keys

\* Columns are as near as the world is round.
Apart(a, b, side) == Min({absInt(a - b), side - absInt(a - b)})

\* From tile to neighbouring tile by the shorter way round the world, with
\* none to spare.
IsLeg(keys, from, to, side) ==
  /\ keys[1] = from /\ Last(keys) = to
  /\ Len(keys) = Max({Apart(from.x, to.x, side), absInt(from.y - to.y)}) + 1
  /\ \A i \in 2..Len(keys) : /\ Apart(keys[i].x, keys[i - 1].x, side) <= 1
                             /\ absInt(keys[i].y - keys[i - 1].y) <= 1

(* A corridor is a leg from each point to the next, and a radius adds the    *)
(* tiles about them and no others.  What a call returns are distinct tiles   *)
(* of the grid within the budget, those that come first, and it says whether *)
(* there are more; what lies ahead on the route does not change them.        *)
CorridorFollowsRoute ==
  (Done("route") /\ ~result.err) =>
    LET route == job.call.route
        options == job.call.options
        side == Side(options.zoom)
        full == Whole(route, options.zoom, options.radius)
        bare == Whole(route, options.zoom, 0)
        At(p) == [z |-> options.zoom, x |-> Clamp(p.x, side - 1), y |-> side - 1 - Clamp(p.y, side - 1)]
        Leg(i) == Whole(<<route[i], route[i + 1]>>, options.zoom, 0)
    IN  /\ ToSet(result.keys) \subseteq TilesOf(options.zoom)
        /\ IsInjective(result.keys)
        /\ Len(result.keys) <= (IF options.maxTiles = 0 THEN DefaultRouteSyncMaxTiles ELSE options.maxTiles)
        /\ IsPrefix(result.keys, full)
        /\ result.truncated <=> Len(result.keys) < Len(full)
        /\ \A i \in DOMAIN route : IsPrefix(Whole(SubSeq(route, 1, i), options.zoom, options.radius), full)
        /\ ToSet(full) = {key \in TilesOf(options.zoom) :
                            \E near \in ToSet(bare) : /\ absInt(near.x - key.x) <= options.radius
                                                      /\ absInt(near.y - key.y) <= options.radius}
        /\ ToSet(bare) = {At(route[1])} \cup UNION {ToSet(Leg(i)) : i \in 1..(Len(route) - 1)}
        /\ \A i \in 1..(Len(route) - 1) : IsLeg(Leg(i), At(route[i]), At(route[i + 1]), side)

Edge(line, i) == {line[i], line[i + 1]}

EdgesOf(lines) == UNION {{Edge(lines[l], i) : i \in 1..(Len(lines[l]) - 1)} : l \in DOMAIN lines}

\* No edge stays at its node, and none occurs twice.
EachOnce(lines) ==
  \A l, m \in DOMAIN lines : \A i \in 1..(Len(lines[l]) - 1), j \in 1..(Len(lines[m]) - 1) :
    /\ lines[l][i] # lines[l][i + 1]
    /\ Edge(lines[l], i) = Edge(lines[m], j) => l = m /\ i = j

\* How often a way begins or ends at a node.
Ends(chains, node) ==
  Cardinality({l \in DOMAIN chains : Len(chains[l]) >= 2 /\ chains[l][1] = node})
    + Cardinality({l \in DOMAIN chains : Len(chains[l]) >= 2 /\ Last(chains[l]) = node})

Closing(chains) == \A l \in DOMAIN chains : \A i \in DOMAIN chains[l] : Ends(chains, chains[l][i]) % 2 = 0

(* Whatever the ways, each ring is closed and has only edges of ways.  Ways  *)
(* that have no edge twice and together close, an even number of ends at     *)
(* every node, come out as rings of all their edges, each once, however they *)
(* are listed and directed.                                                  *)
RingsUseEveryWay ==
  Done("chains") =>
    /\ \A r \in DOMAIN result : result[r][1] = Last(result[r])
    /\ EdgesOf(result) \subseteq EdgesOf(job.call)
    /\ EachOnce(job.call) => /\ EachOnce(result)
                             /\ Closing(job.call) => EdgesOf(result) = EdgesOf(job.call)

(* The sweep over the western edges reports every pair of boxes with an area *)
(* in common and no other, in whatever order equal edges are swept.          *)
OverlapsAreFound ==
  (Done("territory") /\ ~result.err) =>
    LET features == job.call.features
        boxed == {f \in DOMAIN features : Corners(features[f].geometry) # {}}
        Overlap(f, g) == f # g /\ bboxAreaOverlap(BBox(features[f].geometry), BBox(features[g].geometry))
    IN  result.overlaps = {{pair[1], pair[2]} : pair \in {pair \in boxed \X boxed : Overlap(pair[1], pair[2])}}

\* The rows that join feature f to a group, from the options alone.
RowsJoining(opts, f) ==
  LET key == stringify(opts.features[f].key)
      Row(row, group) == [row |-> row, group |-> group]
  IN  IF key = <<>> \/ Repair(opts.features[f].geometry).geometry = <<>> THEN {}
      ELSE IF opts.mapping = NoMapping THEN {Row(1, PrefixGroup(key, opts.prefix))}
      ELSE {Row(row, TrimSpace(opts.mapping[row].group)) :
              row \in {row \in DOMAIN opts.mapping :
                         /\ normalizeKey(key) # <<>>
                         /\ normalizeKey(opts.mapping[row].key) = normalizeKey(key)
                         /\ TrimSpace(opts.mapping[row].group) # <<>>}}

Joins(opts) == UNION {{[feature |-> f, row |-> j.row, group |-> j.group] : j \in RowsJoining(opts, f)} : f \in DOMAIN opts.features}

\* The options with their features in another order.
Reordered(opts, p) ==
  [geometryKey |-> opts.geometryKey, groupBy |-> opts.groupBy, features |-> [f \in DOMAIN p |-> opts.features[p[f]]],
   mapping |-> opts.mapping, prefix |-> opts.prefix, aggregation |-> opts.aggregation]

\* A territory without its area and the values that are aggregated in order.
Unordered(aggregation, t) ==
  LET fields == {field \in DOMAIN t.properties : resolve(aggregation, field) \notin {"first", "list"}}
  IN  [id |-> t.id, members |-> t.members, count |-> t.count, fields |-> DOMAIN t.properties,
       properties |-> [field \in fields |-> t.properties[field]]]

SameButForOrder(aggregation, built, again) ==
  /\ ~again.err
  /\ again.emptyKeys = built.emptyKeys /\ again.warnings = built.warnings
  /\ again.unmatched = built.unmatched /\ again.unused = built.unused /\ again.duplicates = built.duplicates
  /\ {Unordered(aggregation, t) : t \in again.territories} = {Unordered(aggregation, t) : t \in built.territories}

(* There is a territory for every group a feature is joined to and no other, *)
(* and it counts a member for each row that joins one and names them all.    *)
(* Of the features in no territory that have a ring, each whose key is not   *)
(* among the unmatched ones has a warning or an empty key of its own.  No    *)
(* order of the features changes this, nor any value of a territory but      *)
(* those of the aggregations that are defined by an order.                   *)
MembersAreAccounted ==
  (Done("territory") /\ ~result.err) =>
    LET opts == job.call
        built == result.built
        features == DOMAIN opts.features
        Of(group) == {j \in Joins(opts) : j.group = group}
        Lost(f) == /\ RowsJoining(opts, f) = {}
                   /\ \E p \in DOMAIN opts.features[f].geometry : opts.features[f].geometry[p] # <<>>
                   /\ opts.features[f].key \notin built.unmatched
    IN  /\ {t.id : t \in built.territories} = {j.group : j \in Joins(opts)}
        /\ \A t \in built.territories : /\ t.count = Cardinality(Of(t.id))
                                        /\ t.members = {opts.features[j.feature].key : j \in Of(t.id)}
        /\ Cardinality({f \in features : Lost(f)}) <= built.emptyKeys + built.warnings
        /\ \A p \in Bijection(features, features) :
             \E again \in {Build(Reordered(opts, p))} : SameButForOrder(opts.aggregation, built, again)

\* q from each of its points.
RotationsOf(q) == {[i \in DOMAIN q |-> q[((i + k - 1) % Len(q)) + 1]] : k \in 0..Len(q)}

(* Two rings have one signature exactly if they are one ring on the grid,    *)
(* read from another point or backwards.                                     *)
SignatureIdentifiesRing ==
  Done("signature") =>
    LET r == quantizedRing(job.call[1])
        s == quantizedRing(job.call[2])
    IN  result[1] = result[2] <=> (r \in RotationsOf(s) \/ r \in RotationsOf(Reverse(s)))
\* Where the steps lead to from a position.
Walked(at, steps) ==
  LET path[k \in 0..Len(steps)] ==
        IF k = 0 THEN <<>>
        ELSE LET from == IF k = 1 THEN at ELSE Last(path[k - 1])
             IN  Append(path[k - 1], <<from[1] + steps[k][1], from[2] + steps[k][2]>>)
  IN  path[Len(steps)]

\* The lines and rings of a command stream, by the rules of the tile format.
Obeyed(state, c) ==
  LET path == Walked(state.at, c.steps)
  IN  CASE c.op = "MoveTo" -> [at |-> Last(path), paths |-> Append(state.paths, path)]
        [] c.op = "LineTo" -> [at |-> Last(path), paths |-> Append(Front(state.paths), Last(state.paths) \o path)]
        [] c.op = "ClosePath" -> state

Reading(commands) ==
  LET state[i \in 0..Len(commands)] ==
        IF i = 0 THEN [at |-> <<0, 0>>, paths |-> <<>>] ELSE Obeyed(state[i - 1], commands[i])
  IN  state[Len(commands)]

Read(commands) == Reading(commands).paths

InTile(p) == p[1] \in 0..tileExtent /\ p[2] \in 0..tileExtent

\* The points in the tile are drawn, and no others but those in the tile or
\* as they came.
Draws(path, points) ==
  /\ \A i \in DOMAIN points : InTile(points[i]) => points[i] \in ToSet(path)
  /\ \A i \in DOMAIN path : InTile(path[i]) \/ path[i] \in ToSet(points)

(* What a renderer reads of a simplified feature: a line stays in the tile   *)
(* and keeps its points in it.  A ring is the clipped one, turned by its     *)
(* role, also if another ring is written before it; it keeps its points in   *)
(* the tile, and leaves the tile only at points of its own.                  *)
CommandsDrawTheFeature ==
  Done("tile") =>
    LET f == job.call
        paths == Read(result)
        line == LinePixels(f)
        ring == clipPolygon(RingPixels(f))
        clipped == [r \in DOMAIN f.rings |-> clipPolygon(RingPixels(f.rings[r]))]
        left == Kept([r \in DOMAIN f.rings |-> r], {r \in DOMAIN f.rings : Len(clipped[r]) >= 3})
    IN  /\ f.kind = "line" =>
             /\ \A p \in DOMAIN paths : \A i \in DOMAIN paths[p] : InTile(paths[p][i])
             /\ paths # <<>> => \A i \in DOMAIN line : InTile(line[i]) => line[i] \in ToSet(paths[1])
        /\ (f.kind = "polygon" /\ f.rings = <<>>) =>
             /\ paths = (IF Len(ring) >= 3 THEN <<ring>> ELSE <<>>)
             /\ paths # <<>> => Draws(paths[1], RingPixels(f))
        /\ (f.kind = "polygon" /\ f.rings # <<>>) =>
             /\ Len(paths) = Len(left)
             /\ \A p \in DOMAIN paths :
                  /\ paths[p] \in {clipped[left[p]], Reverse(clipped[left[p]])}
                  /\ signedArea(paths[p]) = 0 \/ (signedArea(paths[p]) > 0) # f.rings[left[p]].hole
                  /\ Draws(paths[p], RingPixels(f.rings[left[p]]))
=============================================================================
