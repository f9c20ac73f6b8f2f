----------------------------- MODULE MCGeometry -----------------------------
(* The algorithms on geometry over bounded inputs.                           *)
EXTENDS Geometry

-----------------------------------------------------------------------------
(* Lines and rings to simplify.                                              *)

MCLines == {[points |-> [i \in 1..5 |-> <<i, y[i]>>], closed |-> FALSE, tolerance |-> t] :
              y \in {y \in [1..5 -> 0..2] : y[1] = 0}, t \in {0, 1, 2}}

MCRings == {[points |-> <<<<0, 0>>, a, <<4, 0>>, <<4, 4>>, b>>, closed |-> TRUE, tolerance |-> t] :
              a \in {<<2, 0>>, <<2, -1>>, <<1, 1>>}, b \in {<<0, 4>>, <<3, 4>>, <<4, 4>>, <<2, 2>>}, t \in {4, 8, 40}}

MCNoLine == [points |-> <<<<0, 0>>, <<1, 0>>>>, closed |-> FALSE, tolerance |-> 0]

MCInput == MCLines \cup MCRings \cup {MCNoLine}

-----------------------------------------------------------------------------
(* Routes, up to three points on grids of at most eight tiles a side.        *)

Job(kind, call) == [kind |-> kind, call |-> call]

Points(zoom) == {[x |-> x, y |-> y] : x \in 0..(2^zoom), y \in {0, 2, 2^zoom - 1, 2^zoom}}

Call(route, zoom, radius, maxTiles) == [route |-> route, options |-> [zoom |-> zoom, radius |-> radius, maxTiles |-> maxTiles]]

RouteJobs ==
  {Call(<<a, b>>, 3, 0, 0) : a, b \in Points(3)}
    \cup {Call(<<a, b, c>>, zoom, radius, maxTiles) :
            a \in Points(1), b \in Points(2),
            c \in {[x |-> 0, y |-> 0], [x |-> 4, y |-> 2], [x |-> 2, y |-> 3]}, zoom \in {1, 2}, radius \in {0, 1}, maxTiles \in {0, 3, 5}}
    \cup {Call(<<a>>, zoom, 1, maxTiles) : a \in Points(2), zoom \in {0, 2}, maxTiles \in {0, 1, 9}}
    \cup {Call(route, zoom, radius, maxTiles) :
            route \in {<<>>, <<[x |-> 0, y |-> 0]>>, <<[x |-> 0, y |-> 0], OutsideWGS84>>},
            zoom \in {-1, 1, 4}, radius \in {-1, 0, 2}, maxTiles \in {-1, 1}}

-----------------------------------------------------------------------------
(* Boundaries: chains between three nodes, and a square of three tiles with  *)
(* a hole in its middle, its boundary cut into two ways in every manner.     *)

Chain(i, ends) == <<ends[1], 10 + i, 20 + i, ends[2]>>

ChainJobs == UNION {{[i \in 1..k |-> Chain(i, ends[i])] : ends \in [1..k -> (1..3) \X (1..3)]} : k \in {1, 2, 3}}
               \cup {[i \in 1..4 |-> Chain(i, ends[i])] :
                       ends \in [1..4 -> {<<1, 2>>, <<2, 1>>, <<2, 3>>, <<1, 3>>, <<3, 1>>, <<2, 2>>}]}

Corner == [node \in 1..8 |-> <<<<0, 0>>, <<12, 0>>, <<12, 12>>, <<0, 12>>,
                               <<4, 4>>, <<8, 4>>, <<8, 8>>, <<4, 8>>>>[node]]

\* The nodes of the outer ring from one corner to another.
Arc(from, to) == [k \in 1..(((to - from) % 4) + 1) |-> ((from + k - 2) % 4) + 1]
Turned(way, back) == IF back THEN Reverse(way) ELSE way

Way(id, nodesOf) == [id |-> id, nodes |-> nodesOf]
Member(type, ref, role) == [type |-> type, ref |-> ref, role |-> role]

Boundary(members, code) ==
  [tags |-> [boundary |-> TRUE, postal_code |-> IF code = 1 THEN NoCode ELSE code, ref |-> code], members |-> members]

\* Two extracts: the first holds an outdated way and an outdated node.
Extracts(cut, back, hole, order) ==
  LET members == <<Member("way", 1, ""), Member("way", 2, "outer"), Member("way", 3, "inner"),
                   Member("node", 1, "outer"), Member("way", 9, "outer")>>
      inner == [k \in 1..5 |-> ((hole + k - 2) % 4) + 5]
  IN  <<[relations |-> <<Boundary([m \in 1..5 |-> members[((m + order) % 5) + 1]], 1),
                         [Boundary(<<>>, 2) EXCEPT !.tags.boundary = FALSE], Boundary(<<>>, NoCode)>>,
         ways |-> <<Way(1, <<2, 1>>), Way(2, Turned(Arc(cut[2], cut[1]), back[2]))>>,
         nodes |-> [node \in 1..5 |-> <<6, 6>>]],
        [relations |-> <<Boundary(<<>>, 3)>>,
         ways |-> <<Way(1, Turned(Arc(cut[1], cut[2]), back[1])), Way(3, Turned(inner, back[1] = back[2])),
                    Way(4, <<1, 2>>)>>,
         nodes |-> Corner]>>

BoundaryJobs ==
  {Extracts(cut, back, hole, order) :
     cut \in {cut \in (1..4) \X (1..4) : cut[1] # cut[2]}, back \in BOOLEAN \X BOOLEAN, hole \in 1..4, order \in 0..4}

-----------------------------------------------------------------------------
(* Territories over cells of four steps a side.                              *)

Box(w, s, e, north) == <<<<w, s>>, <<e, s>>, <<e, north>>, <<w, north>>, <<w, s>>>>

CellA == Box(0, 0, 4, 4)
CellARotated == <<<<4, 4>>, <<4, 0>>, <<0, 0>>, <<0, 4>>, <<4, 4>>>>
CellBOpen == <<<<5, 0>>, <<4, 5>>, <<8, 4>>, <<8, 0>>>>
Frame == <<Box(0, 0, 12, 12), <<<<4, 4>>, <<8, 4>>, <<8, 4>>, <<8, 8>>, <<4, 8>>, <<4, 4>>>>>>
Line == <<<<0, 0>>, <<4, 0>>, <<0, 0>>>>

Feature(key, geometry, fields) == [key |-> key, geometry |-> geometry, fields |-> fields]
Value(v) == [f \in {"f"} |-> v]
NoValues == [f \in {} |-> 0]

Features ==
  {Feature(<<1, 2>>, <<<<CellA>>>>, Value(3)), Feature(<<1, 2>>, <<<<CellARotated>>>>, Value(1)),
   Feature(<<1, 3>>, <<<<CellBOpen>>>>, Value(-1)), Feature(<<2>>, <<Frame>>, Value(0)),
   Feature(<<-1, 2, 0>>, <<<<Box(4, 4, 8, 8)>>>>, Value(2)), Feature(<<1, 2>>, <<<<Line>>>>, Value(9)),
   Feature(Null, <<<<CellA>>>>, NoValues), Feature(<<3>>, <<<<>>>>, NoValues),
   Feature(<<2, 1>>, <<<<Line, CellA>>, <<Box(12, 0, 16, 4)>>, <<Box(12, 8, 16, 12)>>>>, NoValues)}

Row(key, group, fields) == [key |-> key, group |-> group, fields |-> fields]

OneGroup ==
  <<Row(<<1, 2>>, <<5>>, Value(7)), Row(<<2>>, <<5>>, NoValues), Row(<<0, -1, 2>>, <<0>>, NoValues), Row(<<>>, <<5>>, NoValues)>>

TwoGroups ==
  <<Row(<<1, 2>>, <<5>>, NoValues), Row(<<-1, 2>>, <<6>>, NoValues), Row(<<1, 3>>, <<5, 0>>, NoValues),
    Row(<<2>>, <<6>>, NoValues), Row(<<9>>, <<5>>, NoValues)>>

Opts(features, mapping, prefix, aggregation) ==
  [geometryKey |-> TRUE, groupBy |-> mapping # NoMapping, features |-> features, mapping |-> mapping,
   prefix |-> prefix, aggregation |-> aggregation]

MCAggregations == {[f \in {} |-> ""], [f \in {"f"} |-> "min"], [f \in {"f"} |-> "sum"], [f \in {"f"} |-> "max"],
                   [f \in {"f"} |-> "count"], [f \in {"f"} |-> "discard"], [f \in {"f"} |-> "first"], [f \in {"f"} |-> "list"]}

Groupings == {<<NoMapping, 0>>, <<NoMapping, 1>>, <<OneGroup, 0>>, <<TwoGroups, 0>>}

TerritoryJobs ==
  {Opts(<<f, g>>, grouping[1], grouping[2], aggregation) :
     f, g \in Features, grouping \in Groupings, aggregation \in MCAggregations}
    \cup {Opts(<<f, g, h>>, grouping[1], grouping[2], [x \in {} |-> ""]) :
            f, g, h \in Features, grouping \in {<<NoMapping, 1>>, <<TwoGroups, 0>>}}
    \cup {[Opts(<<>>, OneGroup, 0, [x \in {} |-> ""]) EXCEPT !.geometryKey = g, !.groupBy = b] :
            g, b \in BOOLEAN}

-----------------------------------------------------------------------------
(* Features of a tile of four pixels a side, and rings to be told apart.     *)

Pixels == (-2..6) \X (-2..6)

Shapes ==
  {<<<<a, a>>, <<b, a>>, <<b, b>>, <<a, b>>>> : <<a, b>> \in {<<0, 4>>, <<1, 3>>, <<-1, 2>>, <<2, 6>>, <<5, 6>>}}
    \cup {<<<<1, 1>>, <<3, 3>>, <<1, 3>>, <<1, 1>>>>, <<<<-2, 1>>, <<2, 1>>, <<6, 4>>>>, <<<<0, 0>>, <<2, 0>>, <<1, 0>>>>,
         <<<<1, 6>>, <<-2, 1>>, <<2, 2>>>>}

Positions(points) == [i \in DOMAIN points |-> i]

RingOf(points, hole, back) ==
  [points |-> Turned(points, back), kept |-> Positions(WithoutClosing(points)), hole |-> hole]

Drawing(kind, points, kept, rings) == [kind |-> kind, points |-> points, kept |-> kept, rings |-> rings]

TileJobs ==
  {Drawing("line", <<a, b>>, <<1, 2>>, <<>>) : a, b \in Pixels}
    \cup {Drawing("line", <<a, b, c>>, kept, <<>>) :
            a, c \in {<<-2, 1>>, <<0, 0>>, <<2, 2>>, <<6, 3>>, <<4, 5>>}, b \in Pixels, kept \in {<<1, 2, 3>>, <<1, 3>>}}
    \cup {Drawing("polygon", s, Positions(WithoutClosing(s)), <<>>) : s \in Shapes}
    \cup {Drawing("polygon", s, <<1, 3, 4>>, <<>>) : s \in {s \in Shapes : Len(WithoutClosing(s)) = 4}}
    \cup {Drawing("polygon", <<>>, <<>>, <<RingOf(s, FALSE, p), RingOf(t, hole, q)>>) :
            s, t \in Shapes, hole, p, q \in BOOLEAN}
    \cup {Drawing("point", <<<<1, 1>>>>, <<1>>, <<>>)}

OpenRings == [1..4 -> {<<0, 0>>, <<4, 0>>, <<4, 4>>}] \cup [1..5 -> {<<0, 0>>, <<4, 0>>}]

SignatureJobs == {<<r, s>> \in OpenRings \X OpenRings : Len(r) = Len(s) /\ r[1] = <<0, 0>>}

-----------------------------------------------------------------------------
MCJobs ==
  {Job("route", call) : call \in RouteJobs} \cup {Job("chains", chains) : chains \in ChainJobs}
    \cup {Job("boundary", inputs) : inputs \in BoundaryJobs} \cup {Job("territory", opts) : opts \in TerritoryJobs}
    \cup {Job("tile", f) : f \in TileJobs} \cup {Job("signature", pair) : pair \in SignatureJobs}
    \cup {Job("simplify", in) : in \in MCLines \cup MCRings}

-----------------------------------------------------------------------------
Middle(cell) == <<4 * cell[1] + 2, 4 * cell[2] + 2>>

(* The boundary of a postal code is the area of its relation however it is   *)
(* cut into ways, over whichever extracts; its hole stays marked as one.     *)
BoundaryKeepsItsArea ==
  Done("boundary") =>
    /\ Len(result) = 1
    /\ result[1].code = 1
    /\ \A cell \in (0..2) \X (0..2) : ContainsPoint(result[1].geometry, Middle(cell)) <=> cell # <<1, 1>>
    /\ LET rings == toMVTRings(result[1].geometry)
       IN  Len(rings) = 2 /\ \A r \in DOMAIN rings : rings[r].hole <=> IsClockwise(rings[r].points)

Grid == (0..3) \X (0..2)
CellsOf(geometry) == {cell \in Grid : ContainsPoint(geometry, Middle(cell))}

\* Polygons apart from each other, holes in their exterior, no border between
\* two members left.
WellFormed(geometry) ==
  LET edges == FlattenSeq([p \in DOMAIN geometry |-> FlattenSeq([r \in DOMAIN geometry[p] |-> DirectedEdges(geometry[p][r])])])
  IN  /\ \A p, q \in DOMAIN geometry : p # q => CellsOf(<<geometry[p]>>) \cap CellsOf(<<geometry[q]>>) = {}
      /\ \A p \in DOMAIN geometry : \A r \in 2..Len(geometry[p]) :
           CellsOf(<<<<geometry[p][r]>>>>) \subseteq CellsOf(<<<<geometry[p][1]>>>>)
      /\ \A i, j \in DOMAIN edges : ~(edges[i].qa = edges[j].qb /\ edges[i].qb = edges[j].qa)

(* A territory is exactly the area of the features joined to it, for         *)
(* features that only touch or are the same, in well-formed polygons; and    *)
(* for any features its area is the same in the other order.                 *)
TerritoriesCoverTheirMembers ==
  (Done("territory") /\ ~result.err) =>
    LET opts == job.call
        features == DOMAIN opts.features
        cells == [f \in features |-> CellsOf(Repair(opts.features[f].geometry).geometry)]
        Joined(group) == {f \in features : \E j \in RowsJoining(opts, f) : j.group = group}
        Tiled(group) == \A f, g \in Joined(group) : cells[f] = cells[g] \/ cells[f] \cap cells[g] = {}
        Areas(built) == {[id |-> t.id, area |-> CellsOf(t.geometry)] : t \in built.territories}
    IN  /\ \A t \in result.built.territories :
             Tiled(t.id) => /\ CellsOf(t.geometry) = UNION {cells[f] : f \in Joined(t.id)}
                            /\ WellFormed(t.geometry)
        /\ Areas(Build([opts EXCEPT !.features = Reverse(@)])) = Areas(result.built)
=============================================================================
