----------------------------- MODULE MCTileServer -----------------------------
(* Small instances of TileServer for TLC. *)
EXTENDS TileServer

\* Every dataset but the second has every tile.
MCTiles == [g \in Gen |-> IF g = 2 THEN {} ELSE Key]
=============================================================================
