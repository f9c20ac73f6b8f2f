------------------------------ MODULE Polygons ------------------------------
(* The polygons of internal/geo: ring repair, winding, the identity of a     *)
(* ring, and the union of a group by cancelling shared edges.  A point is a  *)
(* pair of coordinates, a ring a closed sequence of points, a polygon a      *)
(* sequence of rings of which the first is the exterior, a MultiPolygon a    *)
(* sequence of polygons.  A coordinate counts steps finer than the grid of   *)
(* quantize, QuantUnit of them to one of its steps.                          *)
EXTENDS Integers, Sequences, FiniteSets, FiniteSetsExt, SequencesExt, Selection

CONSTANT QuantUnit

ASSUME QuantUnitAssumption == QuantUnit \in Nat \ {0}

\* Halves are rounded away from zero.
quantize(p) ==
  LET magnitude(c) == (2 * (IF c < 0 THEN -c ELSE c) + QuantUnit) \div (2 * QuantUnit)
  IN  [i \in 1..2 |-> IF p[i] < 0 THEN -magnitude(p[i]) ELSE magnitude(p[i])]

-----------------------------------------------------------------------------
(* Winding.                                                                  *)

shoelaceSum(r) ==
  MapThenSumSet(LAMBDA i : r[i][1] * r[i + 1][2] - r[i + 1][1] * r[i][2], 1..(Len(r) - 1))

IsClockwise(r) == shoelaceSum(r) < 0

OrientRing(r, clockwise) == IF IsClockwise(r) = clockwise THEN r ELSE Reverse(r)

Normalize(mp) == [p \in DOMAIN mp |-> [i \in DOMAIN mp[p] |-> OrientRing(mp[p][i], i > 1)]]

-----------------------------------------------------------------------------
(* Repair.                                                                   *)

\* r without the points that repeat the one before them.
WithoutRepeats(r) ==
  LET kept == SelectSeq([i \in DOMAIN r |-> i], LAMBDA i : i = 1 \/ r[i] # r[i - 1])
  IN  [k \in DOMAIN kept |-> r[kept[k]]]

repairRing(r) ==
  LET deduped == WithoutRepeats(r)
      open == r # <<>> /\ deduped[1] # Last(deduped)
      ok == Cardinality(ToSet(deduped)) >= 3
  IN  [ok |-> ok, warned |-> open \/ ~ok,
       ring |-> IF open THEN Append(deduped, deduped[1]) ELSE deduped]

Total(counts) ==
  LET sum[i \in 0..Len(counts)] == IF i = 0 THEN 0 ELSE sum[i - 1] + counts[i]
  IN  sum[Len(counts)]

KeptRings(read) ==
  LET kept == Kept(read, {ring \in ToSet(read) : ring.ok})
  IN  [rings |-> [i \in DOMAIN kept |-> kept[i].ring],
       warnings |-> Len(Kept(read, {ring \in ToSet(read) : ring.warned}))]

\* A polygon whose exterior is beyond repair is dropped, its holes unread.
RepairPolygon(poly) ==
  LET repaired == [i \in DOMAIN poly |-> repairRing(poly[i])]
  IN  KeptRings(IF poly # <<>> /\ ~repaired[1].ok THEN <<repaired[1]>> ELSE repaired)

KeptPolygons(mp, repaired) ==
  LET kept == Kept(repaired, {poly \in ToSet(repaired) : poly.rings # <<>>})
  IN  [geometry |-> Normalize([p \in DOMAIN kept |-> kept[p].rings]),
       warnings |-> Total([p \in DOMAIN mp |-> repaired[p].warnings])]

Repair(mp) == KeptPolygons(mp, [p \in DOMAIN mp |-> RepairPolygon(mp[p])])

-----------------------------------------------------------------------------
(* The identity of a ring: its points from its least rotation, in the        *)
(* lesser of its two directions.                                             *)

Below(p, q) == p[1] < q[1] \/ (p[1] = q[1] /\ p[2] < q[2])

\* The order of bytes.Compare, which may be any: numbers in place of bytes.
LexBelow(s, t) == \E i \in DOMAIN s : s[i] # t[i] /\ Below(s[i], t[i]) /\ \A k \in 1..(i - 1) : s[k] = t[k]

\* The point of q that is m points from its first one.
PointAt(q, m) == q[(m % Len(q)) + 1]

Contest(i, j, k) == [i |-> i, j |-> j, k |-> k]

\* One step between two rotations i and j that agree on their first k points.
Duel(q, d) ==
  LET Past(loser, other) == IF loser + d.k + 1 = other THEN other + 1 ELSE loser + d.k + 1
  IN  IF d.i >= Len(q) \/ d.j >= Len(q) \/ d.k >= Len(q) THEN d
      ELSE IF PointAt(q, d.i + d.k) = PointAt(q, d.j + d.k) THEN Contest(d.i, d.j, d.k + 1)
      ELSE IF Below(PointAt(q, d.j + d.k), PointAt(q, d.i + d.k)) THEN Contest(Past(d.i, d.j), d.j, 0)
      ELSE Contest(d.i, Past(d.j, d.i), 0)

\* Fault: a scan for the least point, which stops at the first of equal ones.
minimumRotation_Scan(q) ==
  Min({m \in 0..(Len(q) - 1) : \A k \in DOMAIN q : ~Below(q[k], q[m + 1])})

\* Every step of the loop lets i + j + k grow.
minimumRotation(q) ==
  LET after[t \in 0..(3 * Len(q))] == IF t = 0 THEN Contest(0, 1, 0) ELSE Duel(q, after[t - 1])
      last == after[3 * Len(q)]
  IN  Min({last.i, last.j})

\* q from its point m on.
Rotated(q, m) == [i \in DOMAIN q |-> PointAt(q, m + i - 1)]

\* r without the point that closes it.
OpenRing(r) == IF Len(r) > 1 /\ quantize(r[1]) = quantize(Last(r)) THEN Front(r) ELSE r

quantizedRing(r) == [i \in DOMAIN OpenRing(r) |-> quantize(r[i])]

ringSignature(r) ==
  LET forward == Rotated(quantizedRing(r), minimumRotation(quantizedRing(r)))
      reversed == Reverse(quantizedRing(r))
      backward == Rotated(reversed, minimumRotation(reversed))
  IN  IF LexBelow(backward, forward) THEN backward ELSE forward

\* The holes in any order, a repeated one as often as it occurs.
polygonSignature(poly) ==
  LET holes == [i \in 1..(Len(poly) - 1) |-> ringSignature(poly[i + 1])]
  IN  <<ringSignature(poly[1]), [s \in ToSet(holes) |-> Cardinality({i \in DOMAIN holes : holes[i] = s})]>>

\* The first of the polygons of every signature.
DedupePolygons(mp) ==
  LET signature == [p \in DOMAIN mp |-> polygonSignature(mp[p])]
      kept == SelectSeq([p \in DOMAIN mp |-> p], LAMBDA p : \A e \in 1..(p - 1) : signature[e] # signature[p])
  IN  [k \in DOMAIN kept |-> mp[kept[k]]]

-----------------------------------------------------------------------------
(* Points in rings.                                                          *)

\* The even-odd test, its quotient multiplied out.
ringContainsPoint(r, p) ==
  LET Crosses(i) ==
        LET a == r[i]
            b == IF i = 1 THEN Last(r) ELSE r[i - 1]
            across == (p[1] - a[1]) * (b[2] - a[2])
            rise == (b[1] - a[1]) * (p[2] - a[2])
        IN  /\ (a[2] > p[2]) # (b[2] > p[2])
            /\ IF b[2] > a[2] THEN across < rise ELSE across > rise
  IN  Cardinality({i \in DOMAIN r : Crosses(i)}) % 2 = 1

ContainsPoint(mp, p) ==
  MapThenSumSet(LAMBDA m : Cardinality({i \in DOMAIN mp[m] : ringContainsPoint(mp[m][i], p)}), DOMAIN mp) % 2 = 1

\* The box of the exteriors: west, south, east, north.  Its callers ask only
\* for polygons with a point.
Corners(mp) == UNION {ToSet(mp[p][1]) : p \in {p \in DOMAIN mp : mp[p] # <<>>}}

BBox(mp) ==
  LET x == {c[1] : c \in Corners(mp)}
      y == {c[2] : c \in Corners(mp)}
  IN  <<Min(x), Min(y), Max(x), Max(y)>>

-----------------------------------------------------------------------------
(* Dissolve.                                                                 *)

DirectedEdges(ring) ==
  LET edges == [i \in 1..(Len(ring) - 1) |->
                  [a |-> ring[i], b |-> ring[i + 1], qa |-> quantize(ring[i]), qb |-> quantize(ring[i + 1])]]
  IN  SelectSeq(edges, LAMBDA e : e.qa # e.qb)

\* Fault: edges are compared by their points, not by the grid.
cancelSharedEdges_Exact(rings) ==
  LET edges == FlattenSeq([i \in DOMAIN rings |-> DirectedEdges(rings[i])])
      present == {<<edges[i].a, edges[i].b>> : i \in DOMAIN edges}
  IN  SelectSeq(edges, LAMBDA e : <<e.b, e.a>> \notin present)

cancelSharedEdges(rings) ==
  LET edges == FlattenSeq([i \in DOMAIN rings |-> DirectedEdges(rings[i])])
      present == {<<edges[i].qa, edges[i].qb>> : i \in DOMAIN edges}
  IN  SelectSeq(edges, LAMBDA e : <<e.qb, e.qa>> \notin present)

\* The trail with the edge that continues it, unless it closes or none does.
Followed(edges, used, trail) ==
  LET last == edges[Last(trail)]
      next == {e \in DOMAIN edges \ (used \cup ToSet(trail)) : edges[e].qa = last.qb}
  IN  IF last.qb = edges[trail[1]].qa \/ next = {} THEN trail ELSE Append(trail, Min(next))

Trail(edges, used, start) == FoldLeft(LAMBDA trail, e : Followed(edges, used, trail), <<start>>, edges)

\* The edges used and the rings found, also from edge start.
Chained(edges, done, start) ==
  LET trail == Trail(edges, done.used, start)
      ring == <<edges[start].a>> \o [i \in DOMAIN trail |-> edges[trail[i]].b]
      closes == Len(ring) >= 4 /\ quantize(ring[1]) = quantize(Last(ring))
  IN  IF start \in done.used THEN done
      ELSE [used |-> done.used \cup ToSet(trail), rings |-> IF closes THEN Append(done.rings, ring) ELSE done.rings]

chainEdges(edges) ==
  FoldLeft(LAMBDA done, start : Chained(edges, done, start), [used |-> {}, rings |-> <<>>],
           [e \in DOMAIN edges |-> e]).rings

\* The innermost of the exteriors around a hole, the first of equal ones; 0 is none.
Owner(exteriors, hole) ==
  LET around == {i \in DOMAIN exteriors : hole # <<>> /\ ringContainsPoint(exteriors[i], hole[1])}
      area == [i \in around |-> LET s == shoelaceSum(exteriors[i]) IN IF s < 0 THEN -s ELSE s]
      smallest == {i \in around : \A j \in around : area[i] <= area[j]}
  IN  IF around = {} THEN 0 ELSE Min(smallest)

NestHoles(exteriors, holes) ==
  [i \in DOMAIN exteriors |->
     <<exteriors[i]>> \o SelectSeq(holes, LAMBDA hole : Owner(exteriors, hole) = i)]

classifyRings(rings) ==
  NestHoles(SelectSeq(rings, LAMBDA r : ~IsClockwise(r)), SelectSeq(rings, IsClockwise))

Dissolve(members) ==
  LET flattened == DedupePolygons(Normalize(FlattenSeq(members)))
  IN  classifyRings(chainEdges(cancelSharedEdges(FlattenSeq(flattened))))
=============================================================================
