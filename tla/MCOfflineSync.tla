---------------------------- MODULE MCOfflineSync ----------------------------
(* A small instance of OfflineSync for TLC. *)
EXTENDS OfflineSync, TLC

CONSTANTS r1, r2, k1, k2, k3, k4

\* The second revision has lost a tile; two keys never had one.
MCTiles == [r \in Revision |-> IF r = r2 THEN {k1} ELSE {k1, k2}]

\* A bad record of the second revision, as an application may have put it.
MCPlanted == {<<r2, k2>>}

\* All there is, a part that prunes the previous revision, and more keys than a
\* worker and its channel can hold.
MCRequests == {[keys |-> <<k1, k2>>, workers |-> 2, prune |-> FALSE],
               [keys |-> <<k1>>, workers |-> 1, prune |-> TRUE],
               [keys |-> <<k3, k4, k1, k2>>, workers |-> 1, prune |-> FALSE]}
=============================================================================
