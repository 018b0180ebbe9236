---- MODULE PostReviewProofs ----
(***************************************************************************)
(* Theorems of the way from the evaluator to the end of a generation       *)
(* (module PostReview), for any jobs, attempts, deaths, digests and any    *)
(* assignment of mutations.  The queue's own invariant carries over, as    *)
(* reconciliation only moves generations that rest; the rest is about who  *)
(* may write what into a note and about Reviews that stand.                *)
(***************************************************************************)
EXTENDS PostReview, PreReviewJobProofs

\* A generation the reconciliation looks at, or has ended, has its evaluation.
Settled == Endings \cup {"awaiting_human_review"}
Evaluated == \A g \in Gen : state[g] \in Settled => output[g]["evaluation"] # 0

\* The answer in a note was given below the evaluation the note shows.
AnswersAsked ==
  \A g \in Gen : note[g] # Nothing /\ request[g] # "blank" => <<note[g], request[g]>> \in seen

RInv == IInv /\ TypeOK /\ Evaluated /\ AnswersAsked /\ ReviewAsked /\ EndingsEarned

-----------------------------------------------------------------------------

LEMMA MutationMember == \A g \in Gen : Mutation[g] \in Mutations
  BY DEF Mutations

LEMMA InitRInv == Init => RInv
  <1> SUFFICES ASSUME Init PROVE RInv
    OBVIOUS
  <1>1. IInv
    BY InitIInv DEF Init
  <1>2. TypeOK
    BY DEF Init, TypeOK
  <1>3. Evaluated /\ AnswersAsked /\ ReviewAsked /\ EndingsEarned
    BY MutationMember DEF Init, JobInit, Evaluated, AnswersAsked, ReviewAsked, EndingsEarned,
       Settled, Endings
  <1> QED BY <1>1, <1>2, <1>3 DEF RInv

\* The queue's own operations set none of the endings, and let a generation wait
\* for a Human only by selecting its evaluation.
LEMMA NoNewEnding ==
  ASSUME IInv, [JobNext]_jobVars
  PROVE  \A g \in Gen : state'[g] \in Settled =>
           \/ state'[g] = state[g]
           \/ state'[g] = "awaiting_human_review" /\ output'[g]["evaluation"] # 0
  <1> DEFINE None == \A g \in Gen : state'[g] \in Settled =>
               \/ state'[g] = state[g]
               \/ state'[g] = "awaiting_human_review" /\ output'[g]["evaluation"] # 0
  <1>0. /\ \A s \in Stages : Active(s) \notin Settled /\ Expected(s) \notin Settled
        /\ \A s \in Stages, o \in Outcomes : StateAfter(s, o) \in Settled =>
             s = "evaluation" /\ o = "succeeded" /\ StateAfter(s, o) = "awaiting_human_review"
        /\ Settled \cap {"queued", "superseded", "retryable_failure", "retry_exhausted"} = {}
    BY DEF Stages, Active, Expected, Success, StateAfter, Outcomes, Settled, Endings
  <1>1. ASSUME UNCHANGED state PROVE None
    BY <1>1
  <1>2. ASSUME NEW g \in Gen, NEW new, new \notin Settled, state' = [state EXCEPT ![g] = new]
        PROVE  None
    BY <1>2 DEF IInv, JobTypeOK
  <1>3. ASSUME NEW s \in Stages
        PROVE  \A g \in Gen : RecoveredState(s)[g] \in Settled => RecoveredState(s)[g] = state[g]
    BY <1>0 DEF RecoveredState
  <1>4. ASSUME NEW j \in Jobs, Submit(j) PROVE None
    <2>1. <<j, 1>> \in Gen
      BY JobBoundAssumption DEF Gen
    <2> QED BY <1>0, <1>2, <1>4, <2>1 DEF Submit, Queue
  <1>5. ASSUME NEW g \in Gen, Regenerate(g) PROVE None
    <2>1. <<g[1], g[2] + 1>> \in Gen
      BY <1>5, JobBoundAssumption DEF Regenerate, Gen
    <2> QED BY <1>0, <1>2, <1>5, <2>1 DEF Regenerate, Queue
  <1>6. ASSUME NEW g \in Gen, Supersede(g) \/ Retire(g) \/ Retry(g) PROVE None
    <2>1. CASE Supersede(g) \/ Retire(g)
      BY <1>0, <1>2, <2>1 DEF Supersede, Unstarted, Retire, SetState
    <2>2. CASE Retry(g)
      <3>1. LastAttempt(g).stage \in Stages
        BY <2>2, Rows DEF Retry, IInv
      <3>2. Expected(LastAttempt(g).stage) \notin Settled
        BY <1>0, <3>1
      <3> QED BY <1>2, <2>2, <3>2 DEF Retry, SetState
    <2> QED BY <1>6, <2>1, <2>2
  <1>7. ASSUME NEW p \in Processes, NEW s \in Stages, ClaimNothing(p, s) PROVE None
    BY <1>0, <1>3, <1>7 DEF ClaimNothing
  <1>8. ASSUME NEW p \in Processes, NEW s \in Stages, NEW g \in Gen, Claim(p, s, g) PROVE None
    BY <1>0, <1>3, <1>8 DEF Claim
  <1>9. ASSUME NEW p \in Processes, NEW s \in Stages, NEW g \in Gen, StartAttempt(p, g, s)
        PROVE  None
    BY <1>0, <1>2, <1>9 DEF StartAttempt
  <1>10. ASSUME NEW p \in Processes, NEW o \in Outcomes, Complete(p, o) PROVE None
    <2> DEFINE g == work[p][1]
               s == attempts[g][work[p][2]].stage
    <2>1. g \in Gen /\ work[p][2] \in DOMAIN attempts[g]
      BY <1>10 DEF Complete, IInv, JobTypeOK, WorkExists
    <2>2. attempts[g] \in Seq(Attempt)
      BY <2>1, Rows DEF IInv
    <2>3. attempts[g][work[p][2]] \in Attempt
      BY <2>1, <2>2
    <2>4. s \in Stages
      BY <2>3 DEF Attempt
    <2>5. /\ state' = [state EXCEPT ![g] = StateAfter(s, o)]
          /\ o = "succeeded" => output' = [output EXCEPT ![g][s] = work[p][2]]
          /\ work[p][2] # 0
      <3>1. state' = [state EXCEPT ![g] = StateAfter(s, o)]
        BY <1>10, Zenon DEF Complete
      <3>2. o = "succeeded" => output' = [output EXCEPT ![g][s] = work[p][2]]
        BY <1>10 DEF Complete
      <3>3. work[p][2] # 0
        <4> HIDE DEF g
        <4> QED BY <2>1, <2>2
      <3> QED BY <3>1, <3>2, <3>3
    <2> HIDE DEF g, s
    <2>6. CASE StateAfter(s, o) \notin Settled
      <3> HIDE DEF None
      <3> QED BY <1>2, <2>1, <2>5, <2>6
    <2>7. CASE StateAfter(s, o) \in Settled
      <3>1. s = "evaluation" /\ o = "succeeded" /\ StateAfter(s, o) = "awaiting_human_review"
        BY <1>0, <2>4, <2>7
      <3>2. output'[g]["evaluation"] # 0
        BY <2>1, <2>4, <2>5, <3>1 DEF IInv, JobTypeOK
      <3>3. \A h \in Gen \ {g} : state'[h] = state[h]
        BY <2>5 DEF IInv, JobTypeOK
      <3>4. state'[g] = "awaiting_human_review"
        BY <2>1, <2>5, <3>1 DEF IInv, JobTypeOK
      <3> QED BY <3>2, <3>3, <3>4
    <2> QED BY <2>6, <2>7
  <1> HIDE DEF None
  <1>11. None
    BY <1>1, <1>4, <1>5, <1>6, <1>7, <1>8, <1>9, <1>10
       DEF JobNext, ClaimStage, Finish, Refused, Crash, jobVars
  <1> QED BY <1>11 DEF None

\* What the reconciliation makes of a generation: nothing, or the ending that
\* the Review of its evaluation asks for.
LEMMA ReconcileRow ==
  ASSUME TypeOK, ReconcilePostReview, NEW g \in Gen
  PROVE  \/ state'[g] = state[g]
         \/ /\ state[g] \in {"awaiting_human_review", "approved_pending_execution"}
            /\ review[Mutation[g]] # Nothing /\ review[Mutation[g]] \in Reviews
            /\ review[Mutation[g]].evaluation = Selected(g)
            /\ \/ /\ review[Mutation[g]].decision = "approve"
                  /\ \/ state'[g] = "completed" /\ Mutation[g] \in receipt
                     \/ state'[g] = "approved_pending_execution"
               \/ /\ review[Mutation[g]].decision = "reject" /\ Mutation[g] \notin receipt
                  /\ state'[g] = "human_rejected"
               \/ /\ review[Mutation[g]].decision = "keep_as_idea" /\ Mutation[g] \notin receipt
                  /\ state'[g] = "human_kept_as_idea"
  <1> DEFINE r == review[Mutation[g]]
  <1>1. r \in Reviews \cup {Nothing}
    BY MutationMember DEF TypeOK
  <1>2. state'[g] = IF g \in Batch THEN Reconciled(g) ELSE state[g]
    BY DEF ReconcilePostReview
  <1>3. CASE g \notin Batch
    BY <1>2, <1>3
  <1>4. CASE g \in Batch
    <2>1. /\ state[g] \in {"awaiting_human_review", "approved_pending_execution"}
          /\ ~Raises(g)
      BY <1>4 DEF ReconcilePostReview, Batch, Waiting
    <2>2. CASE r = Nothing
      BY <1>2, <1>4, <2>2 DEF Reconciled
    <2>3. CASE r # Nothing
      <3>1. /\ r \in Reviews /\ r.evaluation = Selected(g)
            /\ r.decision = "approve" \/ Mutation[g] \notin receipt
        BY <1>1, <2>1, <2>3 DEF Raises
      <3>2. r.decision \in Decisions
        BY <3>1 DEF Reviews
      <3>3. state'[g] = CASE r.decision = "reject" -> "human_rejected"
                          [] r.decision = "keep_as_idea" -> "human_kept_as_idea"
                          [] r.decision = "approve" ->
                               IF Mutation[g] \in receipt THEN "completed"
                               ELSE "approved_pending_execution"
        BY <1>2, <1>4, <2>3, <3>2 DEF Reconciled, Decisions
      <3> HIDE DEF r
      <3>4. CASE r.decision = "approve"
        BY <2>1, <2>3, <3>1, <3>3, <3>4 DEF r
      <3>5. CASE r.decision = "reject"
        BY <2>1, <2>3, <3>1, <3>3, <3>5 DEF r
      <3>6. CASE r.decision = "keep_as_idea"
        BY <2>1, <2>3, <3>1, <3>3, <3>6 DEF r
      <3> QED BY <3>2, <3>4, <3>5, <3>6 DEF Decisions
    <2> QED BY <2>2, <2>3
  <1> QED BY <1>3, <1>4

\* Reconciliation moves generations that rest into states that rest.
LEMMA ReconcileIInv ==
  ASSUME IInv, TypeOK, ReconcilePostReview
  PROVE  IInv'
  <1>1. ASSUME NEW g \in Gen
        PROVE  \/ state'[g] = state[g]
               \/ /\ state[g] \in {"awaiting_human_review", "approved_pending_execution"}
                  /\ state'[g] \in Endings
    BY ReconcileRow DEF Endings
  <1>2. /\ UNCHANGED <<born, attempts, output, work, retries, manual, faults>>
        /\ state' = [g \in Gen |-> state'[g]]
    BY DEF ReconcilePostReview
  <1>3. JobTypeOK' /\ WorkExists'
    BY <1>1, <1>2 DEF IInv, JobTypeOK, WorkExists, States
  <1>4. ASSUME NEW g \in Gen PROVE GenOK(state'[g], attempts'[g], output'[g])
    <2>1. CASE state'[g] = state[g]
      BY <1>2, <2>1 DEF IInv
    <2>2. CASE /\ state[g] \in {"awaiting_human_review", "approved_pending_execution"}
               /\ state'[g] \in Endings
      <3>1. \A i \in DOMAIN attempts[g] : attempts[g][i].status # "running"
        BY <2>2, InactiveRests DEF ActiveStates
      <3>2. /\ \A s \in Stages : state'[g] \notin {"none", Expected(s), Active(s)}
            /\ state'[g] \notin Failures
        BY <2>2 DEF Endings, Stages, Expected, Active, Failures
      <3>3. GenOK(state[g], attempts[g], output[g])
        BY DEF IInv
      <3>4. GenOK(state'[g], attempts[g], output[g])
        BY <3>1, <3>2, <3>3 DEF GenOK, RunningIsLast, Undone
      <3> QED BY <1>2, <3>4
    <2> QED BY <1>1, <2>1, <2>2
  <1> QED BY <1>3, <1>4 DEF IInv

LEMMA NextIInvKept ==
  ASSUME RInv, [Next]_vars
  PROVE  IInv'
  <1>1. ASSUME NEW g \in Gen, HumanRemoves(g) PROVE IInv'
    BY <1>1, JobBoundAssumption DEF HumanRemoves, Manual, RInv, IInv, JobTypeOK, WorkExists
  <1>2. ASSUME NEW g \in Gen, NEW d \in Decisions, HumanDecides(g, d) PROVE IInv'
    BY <1>2, JobBoundAssumption DEF HumanDecides, Manual, RInv, IInv, JobTypeOK, WorkExists
  <1>3. ASSUME NEW e \in emitted, ProjectionSync(e) PROVE IInv'
    BY <1>3, JobBoundAssumption DEF ProjectionSync, Fault, RInv, IInv, JobTypeOK, WorkExists
  <1>4. CASE UNCHANGED jobVars
    BY <1>4 DEF jobVars, RInv, IInv, JobTypeOK, WorkExists
  <1> QED BY <1>1, <1>2, <1>3, <1>4, NextIInv, ReconcileIInv
          DEF Next, PreReviewStep, EmitReview, ReviewIntake, Execute, vars, RInv

-----------------------------------------------------------------------------

LEMMA NextTypeOK ==
  ASSUME RInv, [Next]_vars
  PROVE  TypeOK'
  <1> USE DEF RInv
  <1>1. CASE UNCHANGED reviewVars
    BY <1>1 DEF reviewVars, TypeOK
  <1>2. ASSUME NEW p \in Processes, EmitReview(p) PROVE TypeOK'
    BY <1>2 DEF EmitReview, TypeOK, IInv, JobTypeOK, Evaluations
  <1>3. ASSUME NEW e \in emitted, ProjectionSync(e) PROVE TypeOK'
    <2>1. e \in Evaluations /\ e[1] \in Gen
      BY DEF TypeOK, Evaluations
    <2>2. /\ DOMAIN result' \subseteq emitted'
          /\ \A f \in DOMAIN result' : result'[f] \in {"published", "conflict"}
      BY <1>3 DEF ProjectionSync, Outcome, TypeOK
    <2>3. /\ note' \in [Gen -> Evaluations \cup {Nothing}]
          /\ request' \in [Gen -> Decisions \cup {"blank"}]
      BY <1>3, <2>1 DEF ProjectionSync, Publish, TypeOK
    <2> QED BY <1>3, <2>2, <2>3 DEF ProjectionSync, TypeOK
  <1>4. ASSUME NEW g \in Gen, NEW d \in Decisions, HumanDecides(g, d) PROVE TypeOK'
    BY <1>4 DEF HumanDecides, TypeOK
  <1>5. ASSUME NEW g \in Gen, HumanRemoves(g) PROVE TypeOK'
    BY <1>5 DEF HumanRemoves, TypeOK
  <1>6. ASSUME NEW e \in emitted, ReviewIntake(e) PROVE TypeOK'
    <2>1. e \in Evaluations /\ e[1] \in Gen /\ request[e[1]] \in Decisions
      BY <1>6 DEF TypeOK, Evaluations, ReviewIntake, Answered
    <2>2. [decision |-> request[e[1]], evaluation |-> e] \in Reviews
      BY <2>1 DEF Reviews
    <2> QED BY <1>6, <2>2 DEF ReviewIntake, TypeOK
  <1>7. ASSUME NEW m \in Mutations, Execute(m) PROVE TypeOK'
    BY <1>7 DEF Execute, TypeOK
  <1> QED BY <1>1, <1>2, <1>3, <1>4, <1>5, <1>6, <1>7
          DEF Next, PreReviewStep, ReconcilePostReview, vars

\* What the queue's own operations leave of a generation that has been ended.
LEMMA QueueKeeps ==
  ASSUME RInv, PreReviewStep, NEW g \in Gen
  PROVE  /\ state[g] \in Settled => state'[g] = state[g]
         /\ state'[g] \in Settled =>
              \/ state'[g] = state[g]
              \/ state'[g] = "awaiting_human_review" /\ output'[g]["evaluation"] # 0
         /\ output[g]["evaluation"] # 0 => output'[g]["evaluation"] = output[g]["evaluation"]
  <1>1. IInv /\ [JobNext]_jobVars /\ "evaluation" \in Stages
    BY DEF RInv, PreReviewStep, Stages
  <1> QED BY <1>1, StaysStep, FrozenStep, NoNewEnding DEF Final, Settled

\* A generation comes to wait for a Human only by the success of its evaluation.
LEMMA NextEvaluated ==
  ASSUME RInv, [Next]_vars
  PROVE  Evaluated'
  <1> USE DEF RInv
  <1>1. CASE UNCHANGED <<state, output>>
    BY <1>1 DEF Evaluated
  <1>2. CASE ReconcilePostReview
    <2>1. output' = output
      BY <1>2 DEF ReconcilePostReview
    <2>2. \A g \in Gen : state'[g] = state[g] \/ state[g] \in Settled
      BY <1>2, ReconcileRow DEF Settled, Endings
    <2> QED BY <2>1, <2>2 DEF Evaluated
  <1>3. CASE PreReviewStep
    <2>1. ASSUME NEW g \in Gen, state'[g] \in Settled
          PROVE  output'[g]["evaluation"] # 0
      BY <1>3, <2>1, QueueKeeps DEF Evaluated
    <2> QED BY <2>1 DEF Evaluated
  <1> QED BY <1>1, <1>2, <1>3
          DEF Next, EmitReview, ProjectionSync, ReviewIntake, HumanDecides, HumanRemoves, Execute,
              jobVars, vars

LEMMA NextAsked ==
  ASSUME RInv, [Next]_vars
  PROVE  AnswersAsked' /\ ReviewAsked'
  <1> USE DEF RInv
  <1>1. CASE UNCHANGED <<note, request, review, seen>>
    BY <1>1 DEF AnswersAsked, ReviewAsked
  <1>2. ASSUME NEW e \in emitted, ProjectionSync(e) PROVE AnswersAsked' /\ ReviewAsked'
    BY <1>2 DEF ProjectionSync, Publish, AnswersAsked, ReviewAsked, TypeOK
  <1>3. ASSUME NEW g \in Gen, NEW d \in Decisions, HumanDecides(g, d)
        PROVE  AnswersAsked' /\ ReviewAsked'
    BY <1>3 DEF HumanDecides, AnswersAsked, ReviewAsked, TypeOK
  <1>4. ASSUME NEW g \in Gen, HumanRemoves(g) PROVE AnswersAsked' /\ ReviewAsked'
    BY <1>4 DEF HumanRemoves, AnswersAsked, ReviewAsked, TypeOK
  <1>5. ASSUME NEW e \in emitted, ReviewIntake(e) PROVE AnswersAsked' /\ ReviewAsked'
    <2>1. e \in Evaluations /\ e[1] \in Gen
      BY DEF TypeOK, Evaluations
    <2>2. e # Nothing
      BY <2>1, NothingAssumption
    <2>3. <<e, request[e[1]]>> \in seen
      BY <1>5, <2>1, <2>2 DEF ReviewIntake, Answered, Shown, AnswersAsked
    <2> QED BY <1>5, <2>3 DEF ReviewIntake, AnswersAsked, ReviewAsked, TypeOK
  <1> QED BY <1>1, <1>2, <1>3, <1>4, <1>5
          DEF Next, PreReviewStep, reviewVars, EmitReview, Execute, ReconcilePostReview, vars

\* An ending stands on a Review, which no step takes away.
LEMMA NextEarned ==
  ASSUME RInv, [Next]_vars
  PROVE  EndingsEarned'
  <1> USE DEF RInv
  <1>1. CASE UNCHANGED <<state, output, review, receipt>>
    BY <1>1 DEF EndingsEarned, Selected
  <1>2. CASE PreReviewStep
    <2>1. UNCHANGED <<review, receipt>>
      BY <1>2 DEF PreReviewStep, reviewVars
    <2>2. ASSUME NEW g \in Gen, state'[g] \in Endings
          PROVE  state[g] = state'[g] /\ Selected(g)' = Selected(g)
      <3>1. state[g] = state'[g]
        BY <1>2, <2>2, QueueKeeps DEF Settled, Endings
      <3>2. output[g]["evaluation"] # 0
        BY <2>2, <3>1 DEF Evaluated, Settled
      <3> QED BY <1>2, <3>1, <3>2, QueueKeeps DEF Selected
    <2> QED BY <2>1, <2>2 DEF EndingsEarned, Endings
  <1>3. CASE ReconcilePostReview
    <2>1. UNCHANGED <<output, review, receipt>>
      BY <1>3 DEF ReconcilePostReview, reviewVars
    <2> DEFINE r(g) == review[Mutation[g]]
               EarnedAt(g, s) ==
                 /\ s \in {"completed", "approved_pending_execution"} =>
                      r(g) = [decision |-> "approve", evaluation |-> Selected(g)]
                 /\ s = "completed" => Mutation[g] \in receipt
                 /\ s = "human_rejected" =>
                      /\ r(g) = [decision |-> "reject", evaluation |-> Selected(g)]
                      /\ Mutation[g] \notin receipt
                 /\ s = "human_kept_as_idea" =>
                      /\ r(g) = [decision |-> "keep_as_idea", evaluation |-> Selected(g)]
                      /\ Mutation[g] \notin receipt
    <2>2. ASSUME NEW g \in Gen PROVE EarnedAt(g, state[g])
      BY DEF EndingsEarned
    <2>3. ASSUME NEW g \in Gen, state'[g] # state[g] PROVE EarnedAt(g, state'[g])
      <3> DEFINE q == r(g)
                 e == Selected(g)
      <3>1. /\ q \in Reviews /\ q.evaluation = e
            /\ \/ q.decision = "approve" /\ state'[g] = "completed" /\ Mutation[g] \in receipt
               \/ q.decision = "approve" /\ state'[g] = "approved_pending_execution"
               \/ q.decision = "reject" /\ state'[g] = "human_rejected" /\ Mutation[g] \notin receipt
               \/ q.decision = "keep_as_idea" /\ state'[g] = "human_kept_as_idea"
                    /\ Mutation[g] \notin receipt
        BY <1>3, <2>3, ReconcileRow
      <3> HIDE DEF q, e
      <3>2. q = [decision |-> q.decision, evaluation |-> e]
        BY <3>1 DEF Reviews
      <3>3. /\ state'[g] \in {"completed", "approved_pending_execution"} =>
                 q = [decision |-> "approve", evaluation |-> e]
            /\ state'[g] = "completed" => Mutation[g] \in receipt
            /\ state'[g] = "human_rejected" =>
                 q = [decision |-> "reject", evaluation |-> e] /\ Mutation[g] \notin receipt
            /\ state'[g] = "human_kept_as_idea" =>
                 q = [decision |-> "keep_as_idea", evaluation |-> e] /\ Mutation[g] \notin receipt
        BY <3>1, <3>2
      <3> QED BY <3>3 DEF q, e
    <2>4. ASSUME NEW g \in Gen PROVE EarnedAt(g, state'[g])
      BY <2>2, <2>3
    <2> QED BY <2>1, <2>4 DEF EndingsEarned, Selected
  <1>4. ASSUME NEW e \in emitted, ReviewIntake(e) PROVE EndingsEarned'
    <2>1. ASSUME NEW g \in Gen, state[g] \in Endings PROVE review[Mutation[g]] # Nothing
      <3>1. PICK d \in Decisions : review[Mutation[g]] = [decision |-> d, evaluation |-> Selected(g)]
        BY <2>1 DEF EndingsEarned, Endings, Decisions
      <3>2. Selected(g) \in Evaluations
        BY DEF Selected, Evaluations, IInv, JobTypeOK, Stages
      <3>3. review[Mutation[g]] \in Reviews
        BY <3>1, <3>2 DEF Reviews
      <3> QED BY <3>3, NothingAssumption
    <2>2. UNCHANGED <<state, output, receipt>>
      BY <1>4 DEF ReviewIntake, jobVars
    <2>3. \A g \in Gen : state[g] \in Endings => review'[Mutation[g]] = review[Mutation[g]]
      BY <1>4, <2>1 DEF ReviewIntake, TypeOK
    <2> QED BY <2>2, <2>3 DEF EndingsEarned, Endings, Selected
  <1>5. ASSUME NEW m \in Mutations, Execute(m) PROVE EndingsEarned'
    BY <1>5 DEF Execute, EndingsEarned, jobVars, Selected
  <1> QED BY <1>1, <1>2, <1>3, <1>4, <1>5
          DEF Next, EmitReview, ProjectionSync, HumanDecides, HumanRemoves, jobVars, reviewVars, vars

LEMMA NextRInv == RInv /\ [Next]_vars => RInv'
  BY NextIInvKept, NextTypeOK, NextEvaluated, NextAsked, NextEarned DEF RInv

-----------------------------------------------------------------------------

\* The invariant of the whole way holds in every behaviour.
THEOREM ReviewInvariance == Spec => []RInv
  BY InitRInv, NextRInv, PTL DEF Spec

\* The variables of projection, review and execution keep their types.
THEOREM ReviewTypeCorrect == Spec => []TypeOK
  BY ReviewInvariance, PTL DEF RInv

\* A generation ends as the Review of its own selected evaluation says.
THEOREM Earned == Spec => []EndingsEarned
  BY ReviewInvariance, PTL DEF RInv

\* A Review says what a Human asked for below the evaluation it names.
THEOREM Asked == Spec => []ReviewAsked
  BY ReviewInvariance, PTL DEF RInv

\* No step changes a Review.
THEOREM Stands == Spec => ReviewStands
  <1>1. RInv /\ [Next]_vars => [\A m \in Mutations : review[m] # Nothing => review'[m] = review[m]]_vars
    BY DEF RInv, TypeOK, Next, PreReviewStep, reviewVars, EmitReview, ProjectionSync, HumanDecides,
           HumanRemoves, ReviewIntake, Execute, ReconcilePostReview, vars
  <1> QED BY <1>1, ReviewInvariance, PTL DEF Spec, ReviewStands

-----------------------------------------------------------------------------

\* The evaluator's requests are out when its evaluation is selected, and what is
\* executed was approved.
SelectedEmitted == \A g \in Gen : output[g]["evaluation"] # 0 => Selected(g) \in emitted
ExecutedApproved == \A m \in receipt : review[m] # Nothing /\ review[m].decision = "approve"

LEMMA NextCauses ==
  ASSUME RInv, SelectedEmitted, ExecutedApproved, [Next]_vars
  PROVE  SelectedEmitted' /\ ExecutedApproved'
  <1>1. SelectedEmitted'
    <2>1. CASE UNCHANGED output
      <3>1. emitted \subseteq emitted'
        BY DEF Next, PreReviewStep, reviewVars, EmitReview, ProjectionSync, HumanDecides,
               HumanRemoves, ReviewIntake, Execute, ReconcilePostReview, vars
      <3> QED BY <2>1, <3>1 DEF SelectedEmitted, Selected
    <2>2. CASE PreReviewStep
      BY <2>2 DEF PreReviewStep, EmittedFirst, reviewVars, SelectedEmitted, Selected
    <2> QED BY <2>1, <2>2
            DEF Next, EmitReview, ProjectionSync, HumanDecides, HumanRemoves, ReviewIntake,
                Execute, ReconcilePostReview, jobVars, vars
  <1>2. ExecutedApproved'
    <2>1. CASE UNCHANGED <<review, receipt>>
      BY <2>1 DEF ExecutedApproved
    <2>2. ASSUME NEW e \in emitted, ReviewIntake(e) PROVE ExecutedApproved'
      BY <2>2 DEF ReviewIntake, ExecutedApproved, RInv, TypeOK
    <2>3. ASSUME NEW m \in Mutations, Execute(m) PROVE ExecutedApproved'
      BY <2>3 DEF Execute, ExecutedApproved
    <2> QED BY <2>1, <2>2, <2>3
            DEF Next, PreReviewStep, reviewVars, EmitReview, ProjectionSync, HumanDecides,
                HumanRemoves, ReconcilePostReview, vars
  <1> QED BY <1>1, <1>2

\* What rolls the whole reconciliation back is always a second evaluation of a
\* mutation that has its Review.
THEOREM RollbackExplained == Spec => []RaisesExplained
  <1>1. Init => SelectedEmitted /\ ExecutedApproved
    BY DEF Init, JobInit, SelectedEmitted, ExecutedApproved, Stages
  <1>2. RInv /\ SelectedEmitted /\ ExecutedApproved => RaisesExplained
    <2> SUFFICES ASSUME RInv, SelectedEmitted, ExecutedApproved, NEW g \in Waiting, Raises(g)
                 PROVE  \E e \in emitted : /\ review[MutationOf(e)] # Nothing
                                           /\ review[MutationOf(e)].evaluation # e
      BY DEF RaisesExplained
    <2> DEFINE r == review[Mutation[g]]
    <2>1. g \in Gen /\ state[g] \in {"awaiting_human_review", "approved_pending_execution"}
      BY DEF Waiting
    <2>2. Selected(g) \in emitted /\ Selected(g) \in Evaluations
      BY <2>1 DEF RInv, Evaluated, Settled, Endings, SelectedEmitted, TypeOK
    <2>3. MutationOf(Selected(g)) = Mutation[g]
      BY DEF MutationOf, Selected
    <2>4. CASE r = Nothing
      <3>1. r = [decision |-> "approve", evaluation |-> Selected(g)]
        BY <2>1, <2>4 DEF Raises, RInv, EndingsEarned
      <3>2. r \in Reviews
        BY <2>2, <3>1 DEF Reviews, Decisions
      <3> QED BY <2>4, <3>2, NothingAssumption
    <2>5. CASE r # Nothing
      <3>1. r.evaluation # Selected(g)
        BY <2>5 DEF Raises, ExecutedApproved
      <3> QED BY <2>2, <2>3, <2>5, <3>1
    <2> QED BY <2>4, <2>5
  <1> QED BY <1>1, <1>2, InitRInv, NextRInv, NextCauses, PTL DEF Spec
====
