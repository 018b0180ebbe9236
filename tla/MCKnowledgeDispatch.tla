---- MODULE MCKnowledgeDispatch ----
(* Two mutations with their own targets: the one of the smaller digest can *)
(* stand in the way of the other.                                          *)
EXTENDS KnowledgeDispatch

CONSTANTS first, second, note1, note2, wanted, other
MCTarget == [m \in {first, second} |-> IF m = first THEN note1 ELSE note2]
MCContent == [m \in {first, second} |-> wanted]
MCOrder == <<first, second>>
====
