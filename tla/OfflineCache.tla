----------------------------- MODULE OfflineCache -----------------------------
(***************************************************************************)
(* What the offline cache promises the application that reads it: the      *)
(* active manifest moves to a revision only when the tiles that were asked *)
(* for are there, and tiles are only taken away from revisions that are    *)
(* not active.  OfflineSync is shown to implement this.                    *)
(***************************************************************************)
CONSTANTS Revision, Key, NoRevision

VARIABLES
  active,  \* the revision of the active manifest
  tiles,   \* what the store holds for each revision and key
  covered  \* the keys that syncs of the active revision were asked for

cacheVars == <<active, tiles, covered>>

CacheInit ==
  /\ active = NoRevision
  /\ tiles \in [Revision -> [Key -> {"absent", "bad"}]]
  /\ covered = {}

Retain(r, k) ==
  /\ tiles[r][k] = "absent"
  /\ tiles' = [tiles EXCEPT ![r][k] = "good"]
  /\ UNCHANGED <<active, covered>>

Switch(r, keys) ==
  /\ \A k \in keys : tiles[r][k] = "good"
  /\ active' = r
  /\ covered' = IF active = r THEN covered \cup keys ELSE keys
  /\ UNCHANGED tiles

Remove(r, k) ==
  /\ r # active
  /\ tiles' = [tiles EXCEPT ![r][k] = "absent"]
  /\ UNCHANGED <<active, covered>>

CacheNext ==
  \E r \in Revision :
    \/ \E k \in Key : Retain(r, k) \/ Remove(r, k)
    \/ \E keys \in SUBSET Key : Switch(r, keys)

CacheSpec == CacheInit /\ [][CacheNext]_cacheVars
=============================================================================
