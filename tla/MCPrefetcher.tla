----------------------------- MODULE MCPrefetcher -----------------------------
(* A small instance of Prefetcher for TLC. *)
EXTENDS Prefetcher, TLC

CONSTANTS k1, k2

\* More keys than a call accepts.
MCKeyLists == {<<k1, k2, k1>>}
=============================================================================
