---- MODULE MCWorkers ----
(* Workers that share records and may die, hang or be started twice.  A     *)
(* behaviour is one of:                                                     *)
(*   queue       PreReviewJob with two jobs that compete for the stage      *)
(*               services, and one process run by hand that can take work   *)
(*               away from them                                             *)
(*   production  ProductionExecution with two mutations of the same bytes   *)
(*               and path, and two transport workers                        *)
EXTENDS MCProductionExecution, PreReviewJob, TLC

VARIABLE part

workerVars == <<vars, jobVars, part>>

\* A part that rests stays in one of its initial states.
WorkersInit ==
  /\ part \in {"queue", "production"} /\ Init /\ JobInit
  /\ part = "queue" => /\ \E m \in Mutations : job = [p \in Procs |-> m]
                       /\ \A t \in Targets : remote[t] = Absent

WorkersNext ==
  \/ part = "queue" /\ JobNext /\ UNCHANGED <<vars, part>>
  \/ part = "production" /\ Next /\ UNCHANGED <<jobVars, part>>

WorkersSpec == WorkersInit /\ [][WorkersNext]_workerVars

\* The two mutations agree on path and bytes, so they too are interchangeable.
Symmetry == Permutations(Jobs) \cup Permutations(Mutations) \cup Permutations(Workers)
====
