------------------------------- MODULE MCPairing -------------------------------
(* Two places for clients.  millis() wraps after eight, the window lasts   *)
(* two, and the cfg says how long UP may go without being pressed: less    *)
(* than half of the wrap beyond the window, or more.                       *)
EXTENDS Pairing, TLC

CONSTANTS i1, i2, i3, nobody

MCIds == {i1, i2, i3}

Symmetry == Permutations(MCIds)
================================================================================
