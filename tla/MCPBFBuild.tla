----------------------------- MODULE MCPBFBuild -----------------------------
(* Command lines and sources for TLC.                                       *)
EXTENDS PBFBuild, TLC

CONSTANTS p1, p2, p3

\* p1 and p2 share a hash.
MCHash == p1 :> 0 @@ p2 :> 0 @@ p3 :> 1

\* d holds the input, of which h is a hard link, and is also reached through the
\* link l.  The link e dangles into the old artifact, the link x into nothing.
In == <<"d", "in">>
MCExisting == {<<>>, <<"d">>, In, <<"h">>, <<"out">>, <<"m">>}
MCFile == In :> 1 @@ <<"h">> :> 1 @@ <<"m">> :> 2
MCLink == <<"l">> :> <<"d">> @@ <<"e">> :> <<"out", "m">> @@ <<"x">> :> <<"y">>

MCPreset ==
  [n \in {"balanced", "postcode"} |->
     [minZoom |-> 5, maxZoom |-> IF n = "balanced" THEN 14 ELSE 13, postal |-> n = "postcode"]]

Artifacts == {<<"out">>, <<"new">>, <<"l", "new">>, <<"d">>, <<"l">>, In, <<"l", "in">>, <<"l", "in", "x">>,
              <<"h">>, <<"x">>, <<"x", "a">>}

Command ==
  [cmd |-> "import", generator |-> FALSE, input |-> In, artifact |-> <<"out">>, replace |-> TRUE,
   mbtilesOut |-> NoPath, replaceMB |-> TRUE, workDir |-> NoPath, keepWork |-> FALSE, compact |-> FALSE,
   schema |-> "auto", batch |-> 0, memory |-> 40, preset |-> Unset, postal |-> Unset, minZoom |-> Unset, maxZoom |-> Unset]

Imports ==
  {[Command EXCEPT !.artifact = a, !.replace = r, !.compact = c, !.schema = s] :
     a \in Artifacts, r \in BOOLEAN, c \in BOOLEAN, s \in {"auto", "flat", "normalized"}}
  \cup {[Command EXCEPT !.batch = b, !.memory = m, !.compact = c] :
          b \in {-1, 0, 2, 9}, m \in {0, 3, 9, 14, 40}, c \in BOOLEAN}

BuiltIn ==
  {[Command EXCEPT !.cmd = "build", !.artifact = a, !.replace = r, !.preset = n, !.postal = c] :
     a \in Artifacts, r \in BOOLEAN, n \in {Unset, "postcode"}, c \in {Unset, TRUE, FALSE}}
  \cup {[Command EXCEPT !.cmd = "build", !.minZoom = z, !.maxZoom = y] : z, y \in {Unset, 0, 14, 23}}

External ==
  {[Command EXCEPT !.cmd = "build", !.generator = TRUE, !.artifact = a, !.mbtilesOut = m,
                   !.workDir = w, !.keepWork = k, !.compact = k, !.replaceMB = r] :
     a \in Artifacts, m \in {NoPath, <<"m">>, <<"n">>, In, <<"l", "in">>, <<"new", "m">>, <<"l">>, <<"l", "new">>,
                                <<"h">>, <<"e">>, <<"x">>},
     w \in {NoPath, <<"w">>, <<"out", "w">>, <<"l", "new">>, <<"y">>, <<"x">>}, k \in BOOLEAN, r \in BOOLEAN}

MCOptions == Imports \cup BuiltIn \cup External

Source(kind, tables, payloads) ==
  [kind |-> kind, tables |-> tables, reuse |-> FALSE, largest |-> 3, sampled |-> 1,
   boundaries |-> TRUE, payloads |-> payloads]

MCSources ==
  {Source(k, "flat", <<p1, p2, p1, p3>>) : k \in {"mbtiles", "pmtiles", "pbf"}}
  \cup {Source("mbtiles", "normalized", <<p2, NoPayload, p1>>), Source("mbtiles", "other", <<>>),
        [Source("mbtiles", "normalized", <<p1, p2, p2>>) EXCEPT !.reuse = TRUE],
        [Source("pmtiles", "flat", <<p3>>) EXCEPT !.largest = 9], 
        [Source("pbf", "flat", <<p3, p3, p2, p1, p1>>) EXCEPT !.boundaries = FALSE]}
=============================================================================
