---- MODULE MCOperationQueue ----
(* Instances of the operation queue for TLC.                               *)
EXTENDS OperationQueue, TLC
====
