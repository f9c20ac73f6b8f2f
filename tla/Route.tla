------------------------------- MODULE Route -------------------------------
(* RouteTileKeys: the tiles along a route, in its order, within a budget.    *)
(* A route point is its position on the tile grid before it is clamped, the  *)
(* column and the row from the north: the projection itself is left out.     *)
(* Longitude 180 gives the column past the last, and the latitudes at which  *)
(* the projection ends give, rounded, the last row or the one past it.       *)
EXTENDS Integers, Sequences, FiniteSets, FiniteSetsExt, SequencesExt, Selection, TileGrid

CONSTANTS OutsideWGS84,     \* a point that is no coordinate
          maxRouteZoom, maxRouteRadius, DefaultRouteSyncMaxTiles

ASSUME RouteAssumption ==
  maxRouteZoom \in Nat /\ maxRouteRadius \in Nat /\ DefaultRouteSyncMaxTiles \in Nat \ {0}

absInt(value) == IF value < 0 THEN -value ELSE value

Clamp(value, limit) == Min({Max({value, 0}), limit})

routePointXY(point, zoom) ==
  [x |-> Clamp(point.x, Side(zoom) - 1), y |-> Clamp(point.y, Side(zoom) - 1)]

\* TileKey.Validate, its zoom aside.
TilesOf(zoom) == [z : {zoom}, x : 0..(Side(zoom) - 1), y : 0..(Side(zoom) - 1)]

-----------------------------------------------------------------------------
(* rasterizeRouteSegment.                                                    *)

\* The cells with the next one, by the accumulated error of the line.
Onward(start, end, line) ==
  LET cell == Last(line.cells)
      dx == absInt(end.x - start.x)
      dy == -absInt(end.y - start.y)
      sx == IF start.x < end.x THEN 1 ELSE -1
      sy == IF start.y < end.y THEN 1 ELSE -1
      alongX == 2 * line.err >= dy
      alongY == 2 * line.err <= dx
  IN  IF cell = end THEN line
      ELSE [cells |-> Append(line.cells, [x |-> IF alongX THEN cell.x + sx ELSE cell.x,
                                          y |-> IF alongY THEN cell.y + sy ELSE cell.y]),
            err |-> line.err + (IF alongX THEN dy ELSE 0) + (IF alongY THEN dx ELSE 0)]

\* Every step is one along an axis at least.
rasterizeRouteSegment(start, end) ==
  LET dx == absInt(end.x - start.x)
      dy == -absInt(end.y - start.y)
      line[k \in 0..(dx - dy)] ==
        IF k = 0 THEN [cells |-> <<start>>, err |-> dx + dy] ELSE Onward(start, end, line[k - 1])
  IN  line[dx - dy].cells

\* Fault: no segment is long enough to go round the other way.
IsLongWay_Never(start, end, n) == absInt(end.x - start.x) > n

IsLongWay(start, end, n) == absInt(end.x - start.x) > n \div 2

\* The end of a segment, moved to where the shorter way reaches it.
ShortWay(start, end, n) ==
  IF ~IsLongWay(start, end, n) THEN end
  ELSE [end EXCEPT !.x = IF end.x > start.x THEN end.x - n ELSE end.x + n]

\* The cells of a route; one point is its own cell.
Visited(points, n) ==
  LET Segment(i) == rasterizeRouteSegment(points[i], ShortWay(points[i], points[i + 1], n))
      cells == IF Len(points) = 1 THEN points ELSE FlattenSeq([i \in 1..(Len(points) - 1) |-> Segment(i)])
  IN  [c \in DOMAIN cells |-> [x |-> cells[c].x % n, y |-> cells[c].y]]

-----------------------------------------------------------------------------
(* RouteTileKeys.                                                            *)

\* The keys around a cell, by row and column; rows are counted from the south.
Window(cell, zoom, radius) ==
  LET width == 2 * radius + 1
      Key(i) == [z |-> zoom, x |-> cell.x - radius + ((i - 1) % width),
                 y |-> Side(zoom) - 1 - (cell.y - radius + ((i - 1) \div width))]
  IN  Kept([i \in 1..(width * width) |-> Key(i)], TilesOf(zoom))

\* A key that does not fit ends the traversal.
Emit(corridor, key, maxTiles) ==
  IF corridor.truncated \/ key \in ToSet(corridor.keys) THEN corridor
  ELSE IF Len(corridor.keys) = maxTiles THEN [corridor EXCEPT !.truncated = TRUE]
  ELSE [corridor EXCEPT !.keys = Append(corridor.keys, key)]

Refused(route, zoom, radius, maxTiles) ==
  \/ zoom \notin 0..maxRouteZoom
  \/ radius \notin 0..maxRouteRadius
  \/ maxTiles < 0
  \/ route = <<>>
  \/ maxTiles > 0 /\ OutsideWGS84 \in ToSet(route)

Corridor(keys, truncated, err) == [keys |-> keys, truncated |-> truncated, err |-> err]

\* The keys that fit, once each, in the order of the traversal.
Emitted(keys, maxTiles) ==
  LET corridor[k \in 0..Len(keys)] ==
        IF k = 0 THEN Corridor(<<>>, FALSE, FALSE) ELSE Emit(corridor[k - 1], keys[k], maxTiles)
  IN  corridor[Len(keys)]

RouteTileKeys(route, zoom, radius, maxTiles) ==
  LET cells == Visited([i \in DOMAIN route |-> routePointXY(route[i], zoom)], Side(zoom))
      keys == FlattenSeq([c \in DOMAIN cells |-> Window(cells[c], zoom, radius)])
  IN  IF Refused(route, zoom, radius, maxTiles) THEN Corridor(<<>>, FALSE, TRUE)
      ELSE IF maxTiles = 0 THEN Corridor(<<>>, TRUE, FALSE)
      ELSE Emitted(keys, maxTiles)

\* The keys of the SyncRequest for a route.
RouteSyncRequest(route, options) ==
  RouteTileKeys(route, options.zoom, options.radius,
                IF options.maxTiles = 0 THEN DefaultRouteSyncMaxTiles ELSE options.maxTiles)
=============================================================================
