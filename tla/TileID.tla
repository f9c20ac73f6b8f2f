------------------------------- MODULE TileID -------------------------------
(***************************************************************************)
(* The identifiers of tiles in a PMTiles archive                           *)
(* (src/internal/pmtiles/tileid.go): the tiles of every zoom in turn, those *)
(* of one zoom along a Hilbert curve.                                      *)
(***************************************************************************)
EXTENDS Integers

CONSTANTS
  MaxZoom,         \* 30 in the code
  CoordinateBits   \* 32 in the code

\* A coordinate of the last zoom fits its type.
ASSUME TileIDAssumption ==
  MaxZoom \in Nat /\ CoordinateBits \in Nat /\ MaxZoom <= CoordinateBits

\* 1 << n
Pow2[n \in Nat] == IF n = 0 THEN 1 ELSE 2 * Pow2[n - 1]

\* The first identifier of a zoom.
FirstID(z) == (Pow2[2 * z] - 1) \div 3

maxTileID == FirstID(MaxZoom + 1) - 1

\* A coordinate wraps around.
Wrap(n) == n % Pow2[CoordinateBits]

\* The quadrant a curve enters at side n, turned into the one it enters at n / 2.
Rotate(n, x, y, rx, ry) ==
  CASE ry # 0 -> <<x, y>>
    [] ry = 0 /\ rx # 0 -> <<Wrap(n - 1 - y), Wrap(n - 1 - x)>>
    [] ry = 0 /\ rx = 0 -> <<y, x>>

\* The place of a quadrant on the curve: (3 * rx) ^ ry.
Digit(rx, ry) == IF rx = 0 THEN ry ELSE 3 - ry

\* The loop of ZxyToID at side s.  Coordinates above the bit under test stay
\* in x and y, which the code lets wrap around; only lower bits are read later.
Deeper(s, up) ==
  LET rx == (up.x \div s) % 2
      ry == (up.y \div s) % 2
      at == Rotate(s, up.x, up.y, rx, ry)
  IN  [id |-> up.id + Digit(rx, ry) * (s * s), x |-> at[1], y |-> at[2]]

ZxyToID(z, x, y) ==
  LET level[i \in 0..z] ==
        IF i = 0 THEN [id |-> FirstID(z), x |-> x, y |-> y] ELSE Deeper(Pow2[z - i], level[i - 1])
  IN  level[z].id

\* The tiles of all zooms.
TileSet ==
  {t \in [z : 0..MaxZoom, x : 0..(Pow2[MaxZoom] - 1), y : 0..(Pow2[MaxZoom] - 1)] :
     t.x < Pow2[t.z] /\ t.y < Pow2[t.z]}

ZoomOf(id) == CHOOSE z \in 0..MaxZoom : Pow2[2 * z] <= 3 * id + 1 /\ 3 * id + 1 < Pow2[2 * (z + 1)]

\* The loop of IDToZxy at side s.
Higher(s, low) ==
  LET rx == (low.t \div 2) % 2
      ry == (low.t + rx) % 2
      at == Rotate(s, low.x, low.y, rx, ry)
  IN  [t |-> low.t \div 4, x |-> at[1] + rx * s, y |-> at[2] + ry * s]

\* The tile of an identifier up to maxTileID.
IDToZxy(id) ==
  LET z == ZoomOf(id)
      level[a \in 0..z] ==
        IF a = 0 THEN [t |-> id - FirstID(z), x |-> 0, y |-> 0] ELSE Higher(Pow2[a - 1], level[a - 1])
  IN  [z |-> z, x |-> level[z].x, y |-> level[z].y]

\* MBTiles and artifacts count rows from the south.
TMSRow(t) == Pow2[t.z] - 1 - t.y
=============================================================================
