------------------------------ MODULE MCPMTiles ------------------------------
(* Small archives for TLC: a file of 31 bytes and words of 6 bits.          *)
EXTENDS PMTiles

Raw(d, r, l, v) == [delta |-> d, run |-> r, length |-> l, value |-> v]

\* Tiles, a run with the last identifier in it, one past it, a coded offset
\* that continues, one outside the section, and three leaf directories.
MCEntries ==
  {Raw(0, 1, 2, 1), Raw(1, 1, 0, 3), Raw(1, 2, 1, 0), Raw(19, 2, 3, 2), Raw(20, 2, 1, 1),
   Raw(2, 1, 2, 6), Raw(1, 1, 63, 2), Raw(40, 1, 1, 1), Raw(1, 18, 4, 1),
   Raw(0, 0, 4, 1), Raw(3, 0, 4, 5), Raw(0, 0, 4, 7), Raw(1, 0, 3, 0)}

MCRoots == {<<e>> : e \in MCEntries} \cup {<<e, f>> : e, f \in MCEntries}
             \cup {<<Raw(0, 0, 4, 1), e, f>> : e, f \in MCEntries}

\* The first leaf holds tiles; the second names the first and may name itself.
MCDirectories(root) ==
  {[offset |-> 1, length |-> 4, entries |-> root],
   [offset |-> 6, length |-> 4, entries |-> <<Raw(0, 1, 1, 1), Raw(1, 1, 1, 0)>>],
   [offset |-> 10, length |-> 4, entries |-> <<Raw(4, 1, 2, 3), Raw(0, 0, 4, 5)>>],
   [offset |-> 12, length |-> 4, entries |-> <<Raw(0, 1, 1, 1)>>]}

MCFile(root, data, addressed, compression) ==
  [size |-> 31, magic |-> TRUE, minZoom |-> 0, maxZoom |-> 2,
   root |-> [offset |-> 1, length |-> 4], metadata |-> [offset |-> 5, length |-> 0],
   leaf |-> [offset |-> 6, length |-> 8], data |-> data,
   addressed |-> addressed, compression |-> compression,
   directories |-> MCDirectories(root)]

\* The data section ends with the file, before it, is empty far outside of it,
\* or reaches past its end.
MCData == {[offset |-> 26, length |-> 5], [offset |-> 15, length |-> 7],
           [offset |-> 40, length |-> 0], [offset |-> 28, length |-> 4]}

MCArchive ==
  {MCFile(root, data, addressed, "gzip") : root \in MCRoots, data \in MCData, addressed \in {0, 2, 3, 18}}
    \cup {MCFile(<<Raw(0, 1, 2, 1)>>, [offset |-> 26, length |-> 5], 1, "brotli")}
    \cup {[MCFile(<<Raw(0, 1, 2, 1)>>, [offset |-> 26, length |-> 5], 1, "none") EXCEPT !.maxZoom = z] : z \in {2, 3}}

=============================================================================
