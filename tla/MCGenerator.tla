----------------------------- MODULE MCGenerator -----------------------------
(* Small inputs for TLC: a grid of four by four at zoom 2.                  *)
EXTENDS Generator

Road(z, nodes) == [class |-> "road", minZoom |-> z, nodes |-> nodes]
Area(z, nodes) == [class |-> "area", minZoom |-> z, nodes |-> nodes]
Other(nodes) == [class |-> "none", minZoom |-> 0, nodes |-> nodes]

\* A bent road, and an area and a road of an input that has its end elsewhere.
West == [nodes |-> 1 :> <<1, 0>> @@ 2 :> <<2, 0>> @@ 3 :> <<2, 2>> @@ 4 :> <<3, 2>>,
         ways |-> <<Road(1, <<1, 2, 3>>), Other(<<4, 1>>)>>]

East == [nodes |-> 3 :> <<2, 1>> @@ 4 :> <<3, 1>> @@ 5 :> <<3, 1>> @@ 6 :> <<2, 1>>,
         ways |-> <<Area(2, <<3, 4, 5, 6, 3>>), Area(1, <<4, 5, 9, 4>>), Road(2, <<3, 4>>), Area(1, <<9, 4, 5, 6, 9>>)>>]

\* A road too long to be put into tiles, and nothing to draw.
Long == [nodes |-> 6 :> <<3, 3>> @@ 7 :> <<0, 3>> @@ 8 :> <<3, 0>>, ways |-> <<Road(1, <<7, 6, 8>>), Road(1, <<7>>)>>]
Empty == [nodes |-> 1 :> <<0, 0>>, ways |-> <<Other(<<1>>)>>]

MCInputs == {<<West, East>>, <<East, West>>, <<West, East, Long>>, <<East>>, <<Empty>>, <<Long, Empty>>}
=============================================================================
