---------------------------- MODULE TileGeometry ----------------------------
(* The geometry of a feature in a vector tile: rings and lines clipped to    *)
(* the tile, wound by their role, and written as one stream of commands.     *)
(* Points are pixels.  Simplify has what simplifyPixels keeps of them, here  *)
(* given with them; the arithmetic of the code is done in fractions.         *)
EXTENDS Integers, Sequences, FiniteSets, SequencesExt, Selection

CONSTANT tileExtent

ASSUME ExtentAssumption == tileExtent \in Nat \ {0}

-----------------------------------------------------------------------------
(* What is simplified.                                                       *)

WithoutClosing(points) ==
  IF Len(points) > 1 /\ points[1] = Last(points) THEN Front(points) ELSE points

\* The points at the positions that are kept.
simplifyPixels(points, kept) == [i \in DOMAIN kept |-> points[kept[i]]]

LinePixels(line) == simplifyPixels(line.points, line.kept)
RingPixels(ring) == simplifyPixels(WithoutClosing(ring.points), ring.kept)

-----------------------------------------------------------------------------
(* Clipping.                                                                 *)

\* Fractions are pairs with a positive denominator.
Fraction(num, den) == IF den < 0 THEN <<-num, -den>> ELSE <<num, den>>
AtMost(r, s) == r[1] * s[2] <= s[1] * r[2]
Greatest(S) == CHOOSE r \in S : \A s \in S : AtMost(s, r)
Least(S) == CHOOSE r \in S : \A s \in S : AtMost(r, s)

\* Halves are rounded away from zero.
Round(r) ==
  LET magnitude == IF r[1] < 0 THEN -r[1] ELSE r[1]
      rounded == (2 * magnitude + r[2]) \div (2 * r[2])
  IN  IF r[1] < 0 THEN -rounded ELSE rounded

\* The speed at which a segment leaves each side, and how far it starts inside.
Limits(a, b) ==
  {<<a[1] - b[1], a[1]>>, <<b[1] - a[1], tileExtent - a[1]>>,
   <<a[2] - b[2], a[2]>>, <<b[2] - a[2], tileExtent - a[2]>>}

\* The part of a segment inside the tile; the segment itself if there is none.
clipSegment(a, b) ==
  LET limits == Limits(a, b)
      t0 == Greatest({<<0, 1>>} \cup {Fraction(l[2], l[1]) : l \in {l \in limits : l[1] < 0}})
      t1 == Least({<<1, 1>>} \cup {Fraction(l[2], l[1]) : l \in {l \in limits : l[1] > 0}})
      At(t) == <<Round(<<a[1] * t[2] + t[1] * (b[1] - a[1]), t[2]>>),
                 Round(<<a[2] * t[2] + t[1] * (b[2] - a[2]), t[2]>>)>>
  IN  IF ~AtMost(t0, t1) \/ \E l \in limits : l[1] = 0 /\ l[2] < 0
      THEN [ok |-> FALSE, a |-> a, b |-> b]
      ELSE [ok |-> TRUE, a |-> At(t0), b |-> At(t1)]

AppendNew(points, p) == IF points # <<>> /\ Last(points) = p THEN points ELSE Append(points, p)

clipLine(in) ==
  LET Onto(out, s) == IF s.ok THEN AppendNew(AppendNew(out, s.a), s.b) ELSE out
      out[i \in 0..Len(in)] ==
        IF i <= 1 THEN <<>> ELSE Onto(out[i - 1], clipSegment(in[i - 1], in[i]))
  IN  out[Len(in)]

inside(p, edge) ==
  CASE edge = 0 -> p[1] >= 0
    [] edge = 1 -> p[1] <= tileExtent
    [] edge = 2 -> p[2] >= 0
    [] edge = 3 -> p[2] <= tileExtent

\* What is written for the ring's edge that begins at point i.  One across the
\* side is cut by clipSegment, which cuts at every side, and not at all if it
\* misses the tile.
Pieces(points, edge, i) ==
  LET a == points[i]
      b == points[(i % Len(points)) + 1]
      cut == clipSegment(a, b)
  IN  CASE inside(a, edge) /\ inside(b, edge) -> <<b>>
        [] inside(a, edge) /\ ~inside(b, edge) -> <<cut.b>>
        [] ~inside(a, edge) /\ inside(b, edge) -> <<cut.a, b>>
        [] OTHER -> <<>>

\* One pass of Sutherland and Hodgman.
ClipToEdge(points, edge) ==
  LET next[i \in 0..Len(points)] == IF i = 0 THEN <<>> ELSE next[i - 1] \o Pieces(points, edge, i)
  IN  next[Len(points)]

clipPolygon(in) == ClipToEdge(ClipToEdge(ClipToEdge(ClipToEdge(in, 0), 1), 2), 3)

-----------------------------------------------------------------------------
(* Winding and commands.                                                     *)

Cross(a, b) == a[1] * b[2] - b[1] * a[2]

signedArea(points) ==
  LET sum[i \in 0..Len(points)] ==
        IF i = 0 THEN 0 ELSE sum[i - 1] + Cross(points[i], points[(i % Len(points)) + 1])
  IN  sum[Len(points)]

ensureWinding(points, clockwise) ==
  IF (signedArea(points) > 0) = clockwise THEN points ELSE Reverse(points)

\* The commands of a point list, its steps counted from a position before it.
Command(op, steps) == [op |-> op, steps |-> steps]

\* Fault: every ring is counted from the origin.
Steps_Origin(points, last) ==
  [i \in DOMAIN points |-> LET from == IF i = 1 THEN <<0, 0>> ELSE points[i - 1]
                           IN  <<points[i][1] - from[1], points[i][2] - from[2]>>]

Steps(points, last) ==
  [i \in DOMAIN points |-> LET from == IF i = 1 THEN last ELSE points[i - 1]
                           IN  <<points[i][1] - from[1], points[i][2] - from[2]>>]

appendRing(out, points, last, close) ==
  LET steps == Steps(points, last)
  IN  out \o <<Command("MoveTo", <<steps[1]>>)>>
          \o (IF Len(points) > 1 THEN <<Command("LineTo", Tail(steps))>> ELSE <<>>)
          \o (IF close THEN <<Command("ClosePath", <<>>)>> ELSE <<>>)

commandGeometry(points, polygon) == appendRing(<<>>, points, <<0, 0>>, polygon)

\* What is left of the rings in the tile.
ClippedRings(rings) ==
  LET clipped == [r \in DOMAIN rings |-> [points |-> clipPolygon(RingPixels(rings[r])), hole |-> rings[r].hole]]
  IN  Kept(clipped, {ring \in ToSet(clipped) : Len(ring.points) >= 3})

\* Exteriors clockwise, holes the other way.
Wound(rings) ==
  LET left == ClippedRings(rings) IN [r \in DOMAIN left |-> ensureWinding(left[r].points, ~left[r].hole)]

\* The cursor is left on the last point of a ring.
encodeRings(rings) ==
  LET wound == Wound(rings)
      Cursor(r) == IF r = 1 THEN <<0, 0>> ELSE Last(wound[r - 1])
      out[r \in 0..Len(wound)] == IF r = 0 THEN <<>> ELSE appendRing(out[r - 1], wound[r], Cursor(r), TRUE)
  IN  out[Len(wound)]

encodeGeometry(f) ==
  LET line == clipLine(LinePixels(f))
      ring == clipPolygon(RingPixels(f))
  IN  CASE f.kind = "polygon" /\ f.rings # <<>> -> encodeRings(f.rings)
        [] f.kind = "polygon" /\ f.rings = <<>> -> IF Len(ring) < 3 THEN <<>> ELSE commandGeometry(ring, TRUE)
        [] f.kind = "line" -> IF Len(line) < 2 THEN <<>> ELSE commandGeometry(line, FALSE)
        [] OTHER -> <<>>
=============================================================================
