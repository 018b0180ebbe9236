---- MODULE MCProductionExecution ----
(* Mutations that want the same bytes at the same path: the hardest case for *)
(* saying who created a note.                                                *)
EXTENDS ProductionExecution

CONSTANTS note, wanted, other
MCTarget == [m \in Mutations |-> note]
MCContent == [m \in Mutations |-> wanted]
====
