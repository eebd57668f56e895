-------------------------- MODULE MCCommandPipeline --------------------------
(* CommandPipeline on small instances.  The cfg files choose the board and *)
(* the bounds; outOfRange is no value a descriptor accepts.                 *)
EXTENDS CommandPipeline
==============================================================================
