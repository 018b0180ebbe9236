---- MODULE PostReview ----
(***************************************************************************)
(* From the evaluator to the end of a generation: human_projection         *)
(* publishes the Review note, a Human decides in it, review_intake turns   *)
(* the decision into the one Review of the mutation, and                   *)
(* pre_review_reconcile carries Review and receipt back into the queue of  *)
(* PreReviewJob, on whose states and attempts it is built.                 *)
(*                                                                         *)
(* An evaluation is known by its attempt; the paths of its Evaluation and  *)
(* its Review note depend on the generation alone.  Both are published the *)
(* same way; only the Review note is modelled.                             *)
(***************************************************************************)
EXTENDS PreReviewJob

CONSTANTS Mutation,    \* the mutation of each generation; two may agree
          Digest(_),   \* the order of request digests
          MaxItems,    \* --max-items of the reconciliation
          Nothing      \* no note, no Review

ASSUME ItemsAssumption == MaxItems \in Nat \ {0}
ASSUME MutationAssumption == DOMAIN Mutation = Gen

Decisions == {"approve", "reject", "keep_as_idea"}
Evaluations == Gen \X Nat
Reviews == [decision : Decisions, evaluation : Evaluations]

ASSUME NothingAssumption == Nothing \notin Evaluations \cup Reviews

VARIABLES emitted,   \* evaluations whose projection request is stored
          result,    \* stored projection results: evaluation to outcome
          note,      \* the evaluation shown by the note at a generation's path
          request,   \* review_request in that note
          review,    \* 20-Review: the Review of a mutation
          receipt,   \* mutations with an execution receipt
          seen       \* history: what Humans asked for, on which evaluation

reviewVars == <<emitted, result, note, request, review, receipt, seen>>
vars == <<jobVars, reviewVars>>

Mutations == {Mutation[g] : g \in Gen}

Init ==
  /\ JobInit
  /\ emitted = {} /\ result = <<>>
  /\ note = [g \in Gen |-> Nothing] /\ request = [g \in Gen |-> "blank"]
  /\ review = [m \in Mutations |-> Nothing]
  /\ receipt = {} /\ seen = {}

Selected(g) == <<g, output[g]["evaluation"]>>
Shown(e) == note[e[1]] = e
MutationOf(e) == Mutation[e[1]]

\* Requests are looked at in the order of their digests.
Earlier(e) == {f \in emitted : Digest(f) < Digest(e)}

-----------------------------------------------------------------------------
\* The evaluator stores both requests before it completes its attempt, whose
\* status it does not read again.
EmitReview(p) ==
  /\ work[p] # Idle /\ work[p] \notin emitted
  /\ attempts[work[p][1]][work[p][2]].stage = "evaluation"
  /\ emitted' = emitted \cup {work[p]}
  /\ UNCHANGED <<jobVars, result, note, request, review, receipt, seen>>

\* The queue's own steps; an evaluation succeeds only after its requests are out.
EmittedFirst ==
  \A g \in Gen : output'[g]["evaluation"] # output[g]["evaluation"] =>
    <<g, output'[g]["evaluation"]>> \in emitted

PreReviewStep == UNCHANGED reviewVars /\ JobNext /\ EmittedFirst

\* The units of a cycle follow each other: sync, intake and reconciliation start
\* when each stage's service has come to its end, and has on the way recovered
\* what an earlier one left running.
StagesDone ==
  /\ \A s \in Stages : work[s] = Idle
  /\ \A g \in Gen : Current(g) =>
       \A i \in Running(g) : \E p \in Extra : work[p] = <<g, i>>

\* run_projection_sync comes to a request when all before it are published.
Due(e) == /\ e \in emitted \ DOMAIN result
          /\ \A f \in Earlier(e) : f \in DOMAIN result /\ result[f] = "published"

Publish(e) == /\ note' = [note EXCEPT ![e[1]] = e]
              /\ request' = [request EXCEPT ![e[1]] = "blank"]

\* observe_remote after a refused create: the bytes are the request's own only
\* while nobody has written into the note.
Outcome(e) == IF Shown(e) /\ request[e[1]] = "blank" THEN "published" ELSE "conflict"

\* apply_request; the process may die between the create and the result.
ProjectionSync(e) ==
  /\ StagesDone /\ Due(e)
  /\ \/ /\ note[e[1]] = Nothing /\ Publish(e)
        /\ \/ result' = [f \in DOMAIN result \cup {e} |-> IF f = e THEN "published" ELSE result[f]]
              /\ UNCHANGED faults
           \/ Fault /\ UNCHANGED result
     \/ /\ note[e[1]] # Nothing /\ UNCHANGED <<note, request, faults>>
        /\ result' = [f \in DOMAIN result \cup {e} |-> IF f = e THEN Outcome(e) ELSE result[f]]
  /\ UNCHANGED <<born, state, attempts, output, work, retries, manual,
                 emitted, review, receipt, seen>>

\* A Human answers a note, changes the answer, or moves the note away.
HumanDecides(g, d) ==
  /\ note[g] # Nothing /\ request[g] # d
  /\ \/ request[g] = "blank" /\ UNCHANGED manual
     \/ request[g] # "blank" /\ Manual
  /\ request' = [request EXCEPT ![g] = d]
  /\ seen' = seen \cup {<<note[g], d>>}
  /\ UNCHANGED <<born, state, attempts, output, work, retries, faults,
                 emitted, result, note, review, receipt>>

HumanRemoves(g) ==
  /\ note[g] # Nothing /\ Manual
  /\ note' = [note EXCEPT ![g] = Nothing]
  /\ UNCHANGED <<born, state, attempts, output, work, retries, faults,
                 emitted, result, request, review, receipt, seen>>

\* Where run_review_intake raises, so that it never comes to a later request.
IntakeStops(e) ==
  \/ e \notin DOMAIN result \/ result[e] # "published"
  \/ review[MutationOf(e)] # Nothing /\ review[MutationOf(e)].evaluation # e

\* Mutant: any answer in the note is taken for an answer to this request.
AnsweredAnyhow(e) == note[e[1]] # Nothing /\ request[e[1]] # "blank"

\* extract_review_decision: the note is the requested one but for the answer.
Answered(e) == Shown(e) /\ request[e[1]] # "blank"

\* Mutant: a later evaluation's Review replaces the first.
IntakeReplaces(e) ==
  /\ StagesDone /\ e \in emitted /\ Answered(e)
  /\ e \in DOMAIN result /\ result[e] = "published"
  /\ review' = [review EXCEPT ![MutationOf(e)] = [decision |-> request[e[1]], evaluation |-> e]]
  /\ UNCHANGED <<jobVars, emitted, result, note, request, receipt, seen>>

\* run_review_intake at one request: the Review is created once.
ReviewIntake(e) ==
  /\ StagesDone /\ e \in emitted /\ Answered(e)
  /\ \A f \in Earlier(e) \cup {e} : ~IntakeStops(f)
  /\ review[MutationOf(e)] = Nothing
  /\ review' = [review EXCEPT ![MutationOf(e)] = [decision |-> request[e[1]], evaluation |-> e]]
  /\ UNCHANGED <<jobVars, emitted, result, note, request, receipt, seen>>

\* The production path (ProductionExecution) receipts approved mutations.
Execute(m) ==
  /\ m \notin receipt /\ review[m] # Nothing /\ review[m].decision = "approve"
  /\ receipt' = receipt \cup {m}
  /\ UNCHANGED <<jobVars, emitted, result, note, request, review, seen>>

-----------------------------------------------------------------------------
\* Mutant: generations that were replaced count too.
WaitingAll == {g \in Gen : state[g] \in {"awaiting_human_review", "approved_pending_execution"}}

\* The rows of reconcile_post_review: the oldest current generations.
Waiting == {g \in Gen : /\ Current(g)
                        /\ state[g] \in {"awaiting_human_review", "approved_pending_execution"}}
Batch == {g \in Waiting : Cardinality({h \in Waiting : born[h] < born[g]}) < MaxItems}

\* Mutant: the Review's evaluation is not compared.
RaisesLess(g) ==
  LET r == review[Mutation[g]] IN
    r # Nothing /\ r.decision # "approve" /\ Mutation[g] \in receipt

\* The rows that make the whole transaction raise and roll back.
Raises(g) ==
  LET r == review[Mutation[g]] IN
    \/ r = Nothing /\ state[g] # "awaiting_human_review"
    \/ r # Nothing /\ \/ r.evaluation # Selected(g)
                      \/ r.decision # "approve" /\ Mutation[g] \in receipt

Reconciled(g) ==
  LET r == review[Mutation[g]] IN
    CASE r = Nothing -> state[g]
      [] r # Nothing /\ r.decision = "reject" -> "human_rejected"
      [] r # Nothing /\ r.decision = "keep_as_idea" -> "human_kept_as_idea"
      [] r # Nothing /\ r.decision = "approve" ->
           IF Mutation[g] \in receipt THEN "completed" ELSE "approved_pending_execution"

ReconcilePostReview ==
  /\ StagesDone /\ \A g \in Batch : ~Raises(g)
  /\ state' = [g \in Gen |-> IF g \in Batch THEN Reconciled(g) ELSE state[g]]
  /\ UNCHANGED <<born, attempts, output, work, retries, manual, faults, reviewVars>>

Next ==
  \/ PreReviewStep
  \/ \E p \in Processes : EmitReview(p)
  \/ \E e \in emitted : ProjectionSync(e) \/ ReviewIntake(e)
  \/ \E g \in Gen : HumanRemoves(g) \/ \E d \in Decisions : HumanDecides(g, d)
  \/ \E m \in Mutations : Execute(m)
  \/ ReconcilePostReview

\* The cycle starts the sync, the intake and the reconciliation again and again,
\* each only while the units before it succeed: a conflict fails the sync, and a
\* Review of another evaluation the intake; the production units between intake
\* and reconciliation (KnowledgeDispatch) are taken to succeed.  The stage services
\* come back too, but with one job an answer needs no step of theirs.
SyncFails == \E e \in emitted : e \in DOMAIN result /\ result[e] = "conflict"
IntakeFails == \E e \in emitted : IntakeStops(e)

Spec == /\ Init /\ [][Next]_vars
        /\ WF_vars(\E e \in emitted : ProjectionSync(e))
        /\ WF_vars(~SyncFails /\ \E e \in emitted : ReviewIntake(e))
        /\ WF_vars(~SyncFails /\ ~IntakeFails /\ ReconcilePostReview)

-----------------------------------------------------------------------------

\* Every variable has the shape the actions above assume.
TypeOK ==
  /\ emitted \subseteq Evaluations
  /\ DOMAIN result \subseteq emitted
  /\ \A e \in DOMAIN result : result[e] \in {"published", "conflict"}
  /\ note \in [Gen -> Evaluations \cup {Nothing}]
  /\ request \in [Gen -> Decisions \cup {"blank"}]
  /\ review \in [Mutations -> Reviews \cup {Nothing}]
  /\ receipt \subseteq Mutations /\ seen \subseteq Evaluations \X Decisions

\* A generation ends as the Review of its own selected evaluation says, as
\* completed only with a receipt, and as rejected or kept only without one.
EndingsEarned ==
  \A g \in Gen : LET r == review[Mutation[g]] m == Mutation[g] IN
    /\ state[g] \in {"completed", "approved_pending_execution"} =>
         r = [decision |-> "approve", evaluation |-> Selected(g)]
    /\ state[g] = "completed" => m \in receipt
    /\ state[g] = "human_rejected" =>
         r = [decision |-> "reject", evaluation |-> Selected(g)] /\ m \notin receipt
    /\ state[g] = "human_kept_as_idea" =>
         r = [decision |-> "keep_as_idea", evaluation |-> Selected(g)] /\ m \notin receipt

\* A Review says what a Human asked for in the note of the very evaluation the
\* Review names, though several evaluations share the note's path.
ReviewAsked ==
  \A m \in Mutations :
    review[m] # Nothing => <<review[m].evaluation, review[m].decision>> \in seen

\* The Review of a mutation is authoritative: no later note, evaluation or
\* generation with the same mutation changes it.
ReviewStands ==
  [][\A m \in Mutations : review[m] # Nothing => review'[m] = review[m]]_vars

\* The reconciliation, which raises and rolls back for all its rows at once, does
\* so over one cause only: the mutation of a waiting generation has the Review
\* of one evaluation and the request of another.  It never meets an execution
\* without approval, or an approved generation whose Review is gone.
RaisesExplained ==
  \A g \in Waiting : Raises(g) =>
    \E e \in emitted : review[MutationOf(e)] # Nothing /\ review[MutationOf(e)].evaluation # e

\* What stops the cycle for good: a projection conflict, a mutation whose Review
\* is of one evaluation while another evaluation has a request, or more waiting
\* generations than the reconciliation looks at.
Stuck == \/ \E e \in emitted :
              \/ e \in DOMAIN result /\ result[e] = "conflict"
              \/ review[MutationOf(e)] # Nothing /\ review[MutationOf(e)].evaluation # e
         \/ Cardinality({g \in Waiting : Current(g)}) > MaxItems

\* A Human's answer in the note of the selected evaluation reaches the current
\* generation, unless the note is removed first or the cycle is stuck.
AnswerArrives ==
  \A g \in Gen :
    (Current(g) /\ state[g] = "awaiting_human_review" /\ Answered(Selected(g)))
      ~> (state[g] # "awaiting_human_review" \/ ~Current(g) \/ ~Shown(Selected(g)) \/ Stuck)

\* "it marks that attempt `interrupted` and starts a new attempt without adopting
\* unselected artifacts" (docs/pre-review-job-orchestration.md:318): no Review
\* is bound to the evaluation of an interrupted attempt.
UnselectedNeverReviewed ==
  \A m \in Mutations : review[m] # Nothing =>
    LET e == review[m].evaluation IN attempts[e[1]][e[2]].status # "interrupted"
====
