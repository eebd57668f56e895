-------------------------------- MODULE MCPanel --------------------------------
(* Two row pairs, two columns; two planes, and six; the panel white, and a *)
(* canvas whose pixels all differ, in bits shown and in bits that are not. *)
EXTENDS Panel

CONSTANTS white, mixed, nothing

MCCanvases == {white, mixed}

MCPixel(c, l, x) ==
    IF c = white THEN [r |-> 31, g |-> 63, b |-> 31]
    ELSE [r |-> (7 * l + 3 * x) % 32, g |-> (13 * l + 29 * x) % 64, b |-> (31 - 5 * l - x) % 32]

MCDepths  == {2, 6}
MCLayouts == {1, 2}
MCLoads   == {1, 10}
================================================================================
