----------------------------- MODULE DoubleBuffer -----------------------------
(***************************************************************************)
(* What a double-buffered display promises: it shows one frame, whole; the *)
(* next frame is drawn out of sight, and changes places with it at once    *)
(* and in the end.                                                         *)
(***************************************************************************)
CONSTANTS Frames, Nothing

VARIABLES front, drawn

vars == <<front, drawn>>

Init == front = Nothing /\ drawn = Nothing

Draw == drawn = Nothing /\ drawn' \in Frames /\ UNCHANGED front

Flip == drawn # Nothing /\ front' = drawn /\ drawn' = Nothing

Next == Draw \/ Flip

Spec == Init /\ [][Next]_vars /\ WF_vars(Flip)
===============================================================================
