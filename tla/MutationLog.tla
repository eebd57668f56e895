----------------------------- MODULE MutationLog -----------------------------
(***************************************************************************)
(* "A Command is the only way app state is mutated" (docs/concurrency.md). *)
(*                                                                         *)
(* Since boot the panel has accepted a log of commands and its state is    *)
(* the effect of a prefix of it, taken in order.  Posters extend the log,  *)
(* the owner of the display moves along it, and nothing else writes the    *)
(* state; a reboot starts from some restored state and an empty log.       *)
(***************************************************************************)
EXTENDS Integers, Sequences

CONSTANTS Cells, Valid, Command

VARIABLES log, done, panel

vars == <<log, done, panel>>

Init == log = <<>> /\ done = 0 /\ panel \in [Cells -> Valid]

Accept == \E c \in Command : log' = Append(log, c) /\ UNCHANGED <<done, panel>>

Apply ==
    /\ done < Len(log)
    /\ done' = done + 1
    /\ panel' = [panel EXCEPT ![log[done + 1].cell] = log[done + 1].val]
    /\ UNCHANGED log

Reboot == log' = <<>> /\ done' = 0 /\ panel' \in [Cells -> Valid]

Next == Accept \/ Apply \/ Reboot

Spec == Init /\ [][Next]_vars
==============================================================================
