---- MODULE MCDurableQueues ----
(* The durable queues that a service works off one request after another.  *)
(* A behaviour is one of:                                                  *)
(*   operations  OperationQueue with two requests                          *)
(*   cleanup     ProjectionCleanup with two cases                          *)
(*   status      GitHubStatus with one note                                *)
(* They share nothing.                                                     *)
EXTENDS OperationQueue, ProjectionCleanup, GitHubStatus

VARIABLE part

\* A part that rests stays in one of its initial states.
QueuesInit ==
  /\ part \in {"operations", "cleanup", "status"}
  /\ Init /\ CleanInit /\ GitHubInit
  /\ part # "operations" => at = CHOOSE f \in [Threads -> Requests] : TRUE
  /\ part # "status" => note.status = "planning"

QueuesNext ==
  \/ part = "operations" /\ Next /\ UNCHANGED <<part, cleanVars, githubVars>>
  \/ part = "cleanup" /\ CleanNext /\ UNCHANGED <<part, vars, githubVars>>
  \/ part = "status" /\ GitHubNext /\ UNCHANGED <<part, vars, cleanVars>>

\* The fairness each module states, for its own behaviours.
Operations(A) == part = "operations" /\ A

QueuesFairness ==
  /\ WF_vars(Operations(ListenerStep)) /\ WF_vars(Operations(WorkerStep))
  /\ WF_vars(Operations(ToolStep))
  /\ SF_vars(Operations(\E r \in Requests : Claim(r)))
  /\ WF_cleanVars(part = "cleanup" /\ CleanStep)
  /\ WF_githubVars(part = "status" /\ Cycle)

QueuesSpec == QueuesInit /\ [][QueuesNext]_<<part, vars, cleanVars, githubVars>> /\ QueuesFairness
====
