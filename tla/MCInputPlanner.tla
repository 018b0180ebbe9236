---- MODULE MCInputPlanner ----
(* Two selections, two software revisions and two modes. *)
EXTENDS InputPlanner

MCJobs == Contexts \X Revisions
====
