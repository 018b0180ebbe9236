---- MODULE MCServices ----
(* What the two systemd cycles promise in the end.  A behaviour is one of: *)
(*   dispatch    KnowledgeDispatch as in MCKnowledgeDispatch               *)
(*   pre_review  PreReviewJob without manual operations and with one       *)
(*               generation for each of two jobs                           *)
EXTENDS MCKnowledgeDispatch

VARIABLES part, born, state, attempts, output, work, retries, manual, faults

CONSTANTS Jobs, Extra, Idle, MaxAttempts, MaxAwaiting, MaxFaults

Queue == INSTANCE PreReviewJob WITH MaxGenerations <- 1, MaxManual <- 0

queueVars == <<born, state, attempts, output, work, retries, manual, faults>>
serviceVars == <<part, dispatchVars, queueVars>>

\* A part that rests stays in one of its initial states; the job of an idle process
\* is never read.
ServicesInit ==
  /\ part \in {"dispatch", "pre_review"} /\ DispatchInit /\ Queue!JobInit
  /\ job = CHOOSE j \in [Procs -> Mutations] : TRUE
  /\ part # "dispatch" => remote = [t \in Targets |-> Absent]

ServicesNext ==
  \/ part = "dispatch" /\ DispatchNext /\ UNCHANGED <<part, queueVars>>
  \/ part = "pre_review" /\ Queue!JobNext /\ UNCHANGED <<part, dispatchVars>>

\* The fairness each module states, for its own behaviours.
ServicesFairness ==
  /\ WF_dispatchVars(part = "dispatch" /\ CycleStep)
  /\ \A s \in {"generation", "validation", "evaluation_context", "evaluation"} :
       /\ WF_Queue!jobVars(part = "pre_review" /\ Queue!ClaimStage(s, s))
       /\ WF_Queue!jobVars(part = "pre_review" /\ (Queue!Finish(s) \/ Queue!Crash(s)))

ServicesSpec == ServicesInit /\ [][ServicesNext]_serviceVars /\ ServicesFairness

-----------------------------------------------------------------------------
\* Every current generation settles (module PreReviewJob).
CurrentSettles == Queue!CurrentSettles
====
