---------------------------- MODULE MCDatasetPool ----------------------------
(* Small instances of DatasetPool for TLC. *)
EXTENDS DatasetPool, TLC

\* Readers, lookups and callers of Close are interchangeable; not
\* used by a run with liveness properties.
Symmetry == Permutations(Reader) \cup Permutations(Request) \cup Permutations(Closer)
=============================================================================
