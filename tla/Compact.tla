------------------------------- MODULE Compact -------------------------------
(***************************************************************************)
(* The compaction of an MBTiles source (src/cmd/tinytiles/compact.go):     *)
(* every row is copied, every distinct payload stored once.  A payload is  *)
(* looked up by its hash and compared byte for byte, in transactions of    *)
(* CommitBatch rows.                                                       *)
(*                                                                         *)
(* A source row names a payload, or none where a map row dangles.  Images  *)
(* are numbered in the order they are written.                             *)
(***************************************************************************)
EXTENDS Integers, Sequences

CONSTANTS
  Payload, NoPayload,
  Hash,            \* the hash of a payload, which two payloads may share
  CommitBatch      \* compactCommitBatch

ASSUME CompactAssumption ==
  /\ NoPayload \notin Payload
  /\ Hash \in [Payload -> Nat]
  /\ CommitBatch \in Nat \ {0}

VARIABLES
  source,          \* the payloads of the source's rows, in the order of tiles
  next,            \* the row to be copied next
  images, map,     \* tables of the copy: payloads, and the image of every row
  written,         \* rows of the open transaction
  committed,       \* rows that are committed
  writer           \* "none", "open", "finished", "failed"

compactVars == <<source, next, images, map, written, committed, writer>>

CompactInit ==
  /\ next = 1 /\ images = <<>> /\ map = <<>>
  /\ written = 0 /\ committed = 0 /\ writer = "none"

\* newCompactTileWriter and its first transaction.
BeginCompact ==
  /\ writer = "none" /\ writer' = "open"
  /\ UNCHANGED <<source, next, images, map, written, committed>>

\* Fault: an equal hash is taken for an equal payload.
Known_HashOnly(p) == {i \in DOMAIN images : Hash[images[i]] = Hash[p]}

\* Images under the payload's hash that are the payload.
Known(p) == {i \in DOMAIN images : Hash[images[i]] = Hash[p] /\ images[i] = p}

\* imageID: a payload that is not known becomes the next image.
ImageOf(p, id) ==
  IF Known(p) # {} THEN id \in Known(p) /\ UNCHANGED images
  ELSE id = Len(images) + 1 /\ images' = Append(images, p)

AddRow ==
  /\ writer = "open" /\ next <= Len(source) /\ source[next] # NoPayload
  /\ \E id \in 1..(Len(images) + 1) :
       ImageOf(source[next], id) /\ map' = Append(map, id)
  /\ next' = next + 1
  /\ IF written + 1 < CommitBatch
     THEN written' = written + 1 /\ UNCHANGED committed
     ELSE written' = 0 /\ committed' = committed + written + 1
  /\ UNCHANGED <<source, writer>>

\* A map row without an image, the context, or SQLite: the transaction is rolled back.
CompactFails ==
  /\ writer = "open" /\ writer' = "failed" /\ written' = 0
  /\ UNCHANGED <<source, next, images, map, committed>>

\* Fault: an error of the query is taken for its end.
FinishCompact_AnyRow ==
  /\ writer = "open"
  /\ writer' = "finished" /\ committed' = committed + written /\ written' = 0
  /\ UNCHANGED <<source, next, images, map>>

FinishCompact ==
  /\ writer = "open" /\ next > Len(source)
  /\ writer' = "finished" /\ committed' = committed + written /\ written' = 0
  /\ UNCHANGED <<source, next, images, map>>

CompactNext == BeginCompact \/ AddRow \/ CompactFails \/ FinishCompact

CompactSpec == source \in Seq(Payload \cup {NoPayload}) /\ CompactInit /\ [][CompactNext]_compactVars

-----------------------------------------------------------------------------

\* The copy is lossless whatever payloads share a hash: every row copied so far
\* has the payload of its source row, no payload is stored twice, and the rows
\* are those committed and those of the open transaction; when the writer has
\* finished, all rows are committed.
CompactionIsLossless ==
  /\ Len(map) = next - 1
  /\ \A i \in 1..(next - 1) : map[i] \in DOMAIN images /\ images[map[i]] = source[i]
  /\ \A i, j \in DOMAIN images : images[i] = images[j] => i = j
  /\ writer = "open" => committed + written = next - 1
  /\ writer = "finished" => next = Len(source) + 1 /\ committed = Len(source)
=============================================================================
