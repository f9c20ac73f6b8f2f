------------------------------ MODULE TileGrid ------------------------------
(* The tiles of a zoom.                                                      *)
EXTENDS Integers

\* Every zoom halves the tiles of the one before: 2^z of them along a side.
Side(z) == LET side[k \in 0..z] == IF k = 0 THEN 1 ELSE 2 * side[k - 1] IN side[z]
=============================================================================
