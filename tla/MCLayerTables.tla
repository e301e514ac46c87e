--------------------------- MODULE MCLayerTables ---------------------------
(* LayerTables for TLC: three layers, of which the default one never moves, *)
(* cells of two pixels in screens of two by two cells, nodes of one         *)
(* reference.                                                               *)
EXTENDS LayerTables

MCMargin == [standard |-> 1, classic |-> 2]

Loc(x, y, w, h) == [X |-> x, Y |-> y, Width |-> w, Height |-> h]

\* A wide block in the first layer that moves, a high one in the second, and one in
\* the default layer, left of and above the others.
MCPlaces == {[layer |-> 1, Location |-> Loc(1, 0, 5, 1)],
             [layer |-> 2, Location |-> Loc(0, 1, 1, 4)],
             [layer |-> 0, Location |-> Loc(-3, -1, 3, 3)]}

MCSpeeds == {<<0, 0>>, <<3, -1>>}

MCQueries == {[l |-> -2, r |-> 4, t |-> -1, b |-> 3], [l |-> 0, r |-> 1, t |-> -1, b |-> 3],
              [l |-> 0, r |-> 4, t |-> 1, b |-> 3], [l |-> -2, r |-> 1, t |-> -1, b |-> 0]}
MCPoints  == {Loc(x, y, 2, 0) : x \in {-3, 0, 4}, y \in {-1, 2}}
=============================================================================
