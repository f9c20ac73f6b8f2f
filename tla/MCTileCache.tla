----------------------------- MODULE MCTileCache -----------------------------
(* A small instance of TileCache for TLC.  20 bytes give two of the four    *)
(* shards 3 bytes and two of them 2, and the large lane 10; a digest takes  *)
(* 3 bytes.                                                                 *)
EXTENDS TileCache, TLC

CONSTANTS a, big, big2, huge, tiny

MCHome  == [k \in Key |-> IF k = tiny THEN 3 ELSE 0]
MCLarge == -1

\* The empty payload of a fits shard 0 with its digest; of big and big2 one fits
\* the large lane, beside the digest of the other; huge fits nowhere and leaves
\* its digest in shard 0, where it replaces a; of tiny not even the digest fits.
MCLength == [k \in Key |-> CASE k = a -> 0 [] k \in {big, big2} -> 3 [] OTHER -> 8]
=============================================================================
