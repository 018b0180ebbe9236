---- MODULE PreReviewJob ----
(***************************************************************************)
(* pre_review_job with pre_review_worker: the SQLite queue of generations, *)
(* their attempts and the one selected output of each stage.  Every        *)
(* operation of the queue is one BEGIN IMMEDIATE transaction, hence one    *)
(* action; the work on an attempt happens between two transactions, where  *)
(* the worker may die, or find that a later claim has taken its attempt    *)
(* for the leftover of a crash.                                            *)
(*                                                                         *)
(* Jobs, recipes and outputs are data; an output is known by the attempt   *)
(* that produced it.                                                       *)
(***************************************************************************)
EXTENDS Naturals, Sequences, FiniteSets

CONSTANTS Jobs,
          Extra,           \* processes run by hand beside the stage services
          Idle,            \* a process that holds no attempt
          MaxAttempts,     \* --max-attempts
          MaxAwaiting,     \* --max-awaiting-review
          MaxGenerations,  \* bound: generations per job
          MaxManual,       \* bound: manual operations
          MaxFaults        \* bound: crashes, failed attempts and overlapping runs

ASSUME LimitAssumption == MaxAttempts \in Nat \ {0} /\ MaxAwaiting \in Nat \ {0}
ASSUME JobsAssumption == IsFiniteSet(Jobs)
ASSUME JobBoundAssumption == /\ MaxGenerations \in Nat \ {0}
                             /\ MaxManual \in Nat /\ MaxFaults \in Nat

Stages == {"generation", "validation", "evaluation_context", "evaluation"}
Processes == Stages \cup Extra
Gen == Jobs \X (1..MaxGenerations)

ASSUME IdleAssumption == Idle \notin Gen \X Nat

VARIABLES born,      \* generations.created_at: the order of creation, 0 for none
          state,     \* generations.state
          attempts,  \* attempts by rowid: stage and status
          output,    \* stage_outputs: the attempt selected for a stage, 0 for none
          work,      \* the attempt each process works on
          retries,   \* history: manual retries of each generation
          manual, faults

jobVars == <<born, state, attempts, output, work, retries, manual, faults>>

Stopped == {"awaiting_human_review", "deterministic_reject", "retry_exhausted", "blocked"}
ActiveStates == {"generating", "validating", "building_evaluation_context", "evaluating"}
\* Set by the reconciliation of reviews (module PostReview) only.
Endings == {"approved_pending_execution", "completed", "human_rejected", "human_kept_as_idea"}
States == Stopped \cup ActiveStates \cup Endings
          \cup {"none", "queued", "retryable_failure", "superseded"}
Outcomes == {"succeeded", "retryable_failure", "deterministic_reject", "blocked"}
Attempt == [stage : Stages, status : Outcomes \cup {"running", "interrupted"}]

\* _STAGE_START, _STAGE_SUCCESS and _STAGE_PREVIOUS.
Active(s) == CASE s = "generation" -> "generating"
               [] s = "validation" -> "validating"
               [] s = "evaluation_context" -> "building_evaluation_context"
               [] s = "evaluation" -> "evaluating"
Expected(s) == IF s = "generation" THEN "queued" ELSE Active(s)
Success(s) == CASE s = "generation" -> "validating"
                [] s = "validation" -> "building_evaluation_context"
                [] s = "evaluation_context" -> "evaluating"
                [] s = "evaluation" -> "awaiting_human_review"
Precedes(s, t) == <<s, t>> \in {<<"generation", "validation">>,
                                <<"validation", "evaluation_context">>,
                                <<"evaluation_context", "evaluation">>}

JobInit ==
  /\ born = [g \in Gen |-> 0]
  /\ state = [g \in Gen |-> "none"]
  /\ attempts = [g \in Gen |-> <<>>]
  /\ output = [g \in Gen |-> [s \in Stages |-> 0]]
  /\ work = [p \in Processes |-> Idle]
  /\ retries = [g \in Gen |-> 0]
  /\ manual = 0 /\ faults = 0

-----------------------------------------------------------------------------
Current(g) == /\ state[g] # "none"
              /\ \A h \in Gen : h[1] = g[1] /\ h[2] > g[2] => state[h] = "none"

Running(g) == {i \in DOMAIN attempts[g] : attempts[g][i].status = "running"}
Count(g, s) == Cardinality({i \in DOMAIN attempts[g] : attempts[g][i].stage = s})
LastAttempt(g) == attempts[g][Len(attempts[g])]
Awaiting == Cardinality({g \in Gen : Current(g) /\ state[g] = "awaiting_human_review"})

Manual == manual < MaxManual /\ manual' = manual + 1
Fault == faults < MaxFaults /\ faults' = faults + 1

Queue(g) == /\ state' = [state EXCEPT ![g] = "queued"]
            /\ born' = [born EXCEPT ![g] = 1 + Cardinality({h \in Gen : born[h] # 0})]
            /\ UNCHANGED <<attempts, output, work, retries, faults>>

\* submit_job; a job that exists is only looked up.
Submit(j) == state[<<j, 1>>] = "none" /\ Queue(<<j, 1>>) /\ UNCHANGED manual

\* regenerate_job: a new generation beside a stopped one.
Regenerate(g) ==
  /\ Manual /\ Current(g) /\ g[2] < MaxGenerations
  /\ state[g] \in Stopped \cup {"retryable_failure"}
  /\ Queue(<<g[1], g[2] + 1>>)

SetState(g, s) == /\ state' = [state EXCEPT ![g] = s]
                  /\ UNCHANGED <<born, attempts, output, work, faults>>

\* What supersede_unstarted_generation requires: no running attempt and no
\* output, and at most failed attempts of the Generator.
Unstarted(g) ==
  /\ Current(g)
  /\ Running(g) = {} /\ \A s \in Stages : output[g][s] = 0
  /\ \/ state[g] = "queued" /\ attempts[g] = <<>>
     \/ /\ state[g] = "retryable_failure" /\ attempts[g] # <<>>
        /\ \A i \in DOMAIN attempts[g] : attempts[g][i].stage = "generation"
        /\ LastAttempt(g).status \in {"retryable_failure", "interrupted"}

\* supersede_unstarted_generation.
Supersede(g) == Manual /\ Unstarted(g) /\ SetState(g, "superseded") /\ UNCHANGED retries

\* retire_historical_runtime_generation.  The recorded reason and the recipe's
\* revision, which it also compares, are left open.
Retire(g) ==
  /\ Manual /\ Current(g) /\ Running(g) = {}
  /\ attempts[g] # <<>> /\ LastAttempt(g).stage \in {"generation", "evaluation"}
  /\ \/ state[g] = "blocked" /\ LastAttempt(g).status = "blocked"
     \/ state[g] = "retry_exhausted" /\ LastAttempt(g).status = "retryable_failure"
  /\ SetState(g, "superseded") /\ UNCHANGED retries

\* Mutant: a retry restarts the Generator.
RetryFromGenerator(g) ==
  /\ Manual
  /\ state[g] \in {"retryable_failure", "retry_exhausted", "blocked"}
  /\ Running(g) = {} /\ attempts[g] # <<>>
  /\ SetState(g, "queued")
  /\ retries' = [retries EXCEPT ![g] = @ + 1]

\* retry_generation restores the failed stage.
Retry(g) ==
  /\ Manual
  /\ state[g] \in {"retryable_failure", "retry_exhausted", "blocked"}
  /\ Running(g) = {} /\ attempts[g] # <<>>
  /\ output[g][LastAttempt(g).stage] = 0
  /\ SetState(g, Expected(LastAttempt(g).stage))
  /\ retries' = [retries EXCEPT ![g] = @ + 1]

-----------------------------------------------------------------------------
Take(p, g, s, old) == /\ attempts' = [old EXCEPT ![g] = Append(@, [stage |-> s, status |-> "running"])]
                      /\ work' = [work EXCEPT ![p] = <<g, Len(old[g]) + 1>>]

\* Mutant: a running attempt is no obstacle.
StartSecond(p, g, s) ==
  /\ Manual /\ work[p] = Idle
  /\ state[g] = Expected(s) /\ output[g][s] = 0
  /\ Take(p, g, s, attempts)
  /\ state' = [state EXCEPT ![g] = Active(s)]
  /\ retries' = [retries EXCEPT ![g] = @ + 1]
  /\ UNCHANGED <<born, output, faults>>

\* start_attempt: a named generation, current or not, without a limit.
StartAttempt(p, g, s) ==
  /\ Manual /\ work[p] = Idle
  /\ state[g] = Expected(s) /\ Running(g) = {} /\ output[g][s] = 0
  /\ Take(p, g, s, attempts)
  /\ state' = [state EXCEPT ![g] = Active(s)]
  /\ retries' = [retries EXCEPT ![g] = @ + 1]
  /\ UNCHANGED <<born, output, faults>>

\* Mutant: claims do not recover what a dead worker left running.
NotLeft(s) == {}

\* _recover_running_stage_attempts: the current generations with a running
\* attempt of this stage, whoever runs it.
LeftRunning(s) == {g \in Gen : Current(g) /\ \E i \in Running(g) : attempts[g][i].stage = s}

RecoveredState(s) == [g \in Gen |-> IF g \in LeftRunning(s) THEN "retryable_failure" ELSE state[g]]
RecoveredAttempts(s) ==
  [g \in Gen |-> [i \in DOMAIN attempts[g] |->
     IF g \in LeftRunning(s) /\ attempts[g][i] = [stage |-> s, status |-> "running"]
     THEN [stage |-> s, status |-> "interrupted"] ELSE attempts[g][i]]]

\* The generations claim_next_attempt selects from, after the recovery.
Candidates(s) ==
  {g \in Gen : /\ Current(g)
               /\ \/ RecoveredState(s)[g] = Expected(s)
                  \/ RecoveredState(s)[g] = "retryable_failure" /\ LastAttempt(g).stage = s}

\* Mutant: one attempt too many.
SpentLate(s) == {g \in Candidates(s) : /\ RecoveredState(s)[g] = "retryable_failure"
                                       /\ Count(g, s) > MaxAttempts}

Spent(s) == {g \in Candidates(s) : /\ RecoveredState(s)[g] = "retryable_failure"
                                   /\ Count(g, s) >= MaxAttempts}

Full(s) == s = "generation" /\ Awaiting >= MaxAwaiting

\* claim_next_attempt: the recovery stands even when backpressure, or the lack
\* of candidates, ends the claim.
ClaimNothing(p, s) ==
  /\ work[p] = Idle
  /\ Full(s) \/ Candidates(s) \subseteq Spent(s)
  /\ attempts' = RecoveredAttempts(s)
  /\ state' = [g \in Gen |-> IF g \in Spent(s) /\ ~Full(s) THEN "retry_exhausted"
                             ELSE RecoveredState(s)[g]]
  /\ UNCHANGED <<born, output, work, retries, manual>>

\* Generations are looked at in the order of their creation; those without
\* attempts left are marked on the way.
Claim(p, s, g) ==
  /\ work[p] = Idle /\ ~Full(s)
  /\ g \in Candidates(s) \ Spent(s)
  /\ LET passed == {h \in Candidates(s) : born[h] < born[g]} IN
       /\ passed \subseteq Spent(s)
       /\ Take(p, g, s, RecoveredAttempts(s))
       /\ state' = [h \in Gen |-> IF h = g THEN Active(s)
                                  ELSE IF h \in passed THEN "retry_exhausted"
                                  ELSE RecoveredState(s)[h]]
  /\ UNCHANGED <<born, output, retries, manual>>

-----------------------------------------------------------------------------
StateAfter(s, o) == IF o = "succeeded" THEN Success(s) ELSE o

\* Mutant: whatever a worker reports is taken.
AcceptedBlindly(g, i, o) == attempts[g][i].status # o

\* What complete_attempt checks: the attempt is still running, its generation
\* is in the stage, and a success builds on the selected output before it.
Accepted(g, i, o) ==
  LET s == attempts[g][i].stage IN
    /\ attempts[g][i].status = "running" /\ state[g] = Active(s)
    /\ o = "succeeded" => /\ output[g][s] = 0
                          /\ \A t \in Stages : Precedes(t, s) => output[g][t] # 0

\* complete_attempt, with the outcomes the workers report: a deterministic reject
\* comes from the Generator that has no candidate and from the Validator.
Complete(p, o) == LET g == work[p][1] i == work[p][2] s == attempts[g][i].stage IN
  /\ work[p] # Idle
  /\ o = "deterministic_reject" => s \in {"generation", "validation"}
  /\ Accepted(g, i, o)
  /\ attempts' = [attempts EXCEPT ![g][i].status = o]
  /\ output' = IF o = "succeeded" THEN [output EXCEPT ![g][s] = i] ELSE output
  /\ state' = [state EXCEPT ![g] = StateAfter(s, o)]
  /\ work' = [work EXCEPT ![p] = Idle]
  /\ IF o = "succeeded" THEN UNCHANGED faults ELSE Fault
  /\ UNCHANGED <<born, retries, manual>>

\* complete_attempt raises, and the worker exits.
Refused(p) ==
  /\ work[p] # Idle
  /\ \E o \in Outcomes : ~Accepted(work[p][1], work[p][2], o)
  /\ work' = [work EXCEPT ![p] = Idle]
  /\ UNCHANGED <<born, state, attempts, output, retries, manual, faults>>

\* The worker dies, or raises outside the code that reports an outcome.
Crash(p) ==
  /\ work[p] # Idle /\ Fault
  /\ work' = [work EXCEPT ![p] = Idle]
  /\ UNCHANGED <<born, state, attempts, output, retries, manual>>

Finish(p) == Refused(p) \/ \E o \in Outcomes : Complete(p, o)

\* The service of the stage claims for it, or a process run by hand.
ClaimStage(p, s) == /\ \/ p = s /\ UNCHANGED faults
                       \/ p \in Extra /\ Fault
                    /\ ClaimNothing(p, s) \/ \E g \in Gen : Claim(p, s, g)

JobNext ==
  \/ \E j \in Jobs : Submit(j)
  \/ \E g \in Gen : Regenerate(g) \/ Supersede(g) \/ Retire(g) \/ Retry(g)
  \/ \E p \in Processes :
       \/ \E s \in Stages : \/ ClaimStage(p, s)
                            \/ \E g \in Gen : p \in Extra /\ StartAttempt(p, g, s)
       \/ Finish(p) \/ Crash(p)

\* Each stage has its own service, started again and again by the recurring
\* cycle; nothing makes the processes run by hand come back.
JobSpec == /\ JobInit /\ [][JobNext]_jobVars
           /\ \A s \in Stages : /\ WF_jobVars(ClaimStage(s, s))
                                /\ WF_jobVars(Finish(s) \/ Crash(s))

-----------------------------------------------------------------------------

\* Every variable has the shape the actions above assume.
JobTypeOK ==
  /\ born \in [Gen -> Nat]
  /\ state \in [Gen -> States]
  /\ attempts \in [Gen -> Seq(Attempt)]
  /\ output \in [Gen -> [Stages -> Nat]]
  /\ work \in [Processes -> (Gen \X Nat) \cup {Idle}]
  /\ retries \in [Gen -> Nat]
  /\ manual \in 0..MaxManual /\ faults \in 0..MaxFaults

\* A running attempt is the only one of its generation and its last one, and
\* the generation is in the stage of that attempt: recoveries, stale workers and
\* manual operations never leave two workers entitled to complete a stage.
OneRunning ==
  \A g \in Gen : \A i \in Running(g) :
    i = Len(attempts[g]) /\ state[g] = Active(attempts[g][i].stage)

\* Every selected output was produced by a succeeded attempt of its stage, that
\* attempt is the only succeeded one, and the stages before it have theirs.
OutputsLinked ==
  \A g \in Gen, s \in Stages :
    /\ \A i \in DOMAIN attempts[g] :
         attempts[g][i] = [stage |-> s, status |-> "succeeded"] => output[g][s] = i
    /\ output[g][s] # 0 =>
         /\ output[g][s] \in DOMAIN attempts[g]
         /\ attempts[g][output[g][s]] = [stage |-> s, status |-> "succeeded"]
         /\ \A t \in Stages : Precedes(t, s) => output[g][t] # 0

\* The claim never runs into one of its own consistency errors, each of which
\* would stop the stage for every job: no candidate has the output or a running
\* attempt, and none that is recovered has the output.
ClaimNeverPoisoned ==
  \A s \in Stages : /\ \A g \in LeftRunning(s) : output[g][s] = 0
                    /\ \A g \in Candidates(s) : output[g][s] = 0 /\ Running(g) \subseteq
                         {i \in DOMAIN attempts[g] : attempts[g][i].stage = s}

\* A current generation on its way is never lost and never contended for: the
\* claim of exactly one stage would take it up, or mark it exhausted, whatever
\* workers have died and whatever was retried by hand.
OneStageResponsible ==
  \A g \in Gen :
    Current(g) /\ state[g] \notin Stopped \cup Endings \cup {"superseded"} =>
      \E s \in Stages : \A t \in Stages : g \in Candidates(t) <=> t = s

\* "The automatic worker path allows at most three attempts per stage": more
\* only by a manual retry or start each.
AttemptsBounded ==
  \A g \in Gen, s \in Stages : Count(g, s) <= MaxAttempts + retries[g]

\* What ended an attempt stands, whatever a stale worker reports later, and a
\* selected output is never replaced.
FinishedFrozen ==
  [][\A g \in Gen :
       /\ \A i \in DOMAIN attempts[g] :
            attempts[g][i].status # "running" => attempts'[g][i] = attempts[g][i]
       /\ \A s \in Stages : output[g][s] # 0 => output'[g][s] = output[g][s]]_jobVars

\* Automatic progress stops where the documentation says it does: a stopped
\* generation moves only by a manual operation, and a superseded one never.
StoppedStays ==
  [][\A g \in Gen :
       /\ state[g] \in Stopped /\ manual' = manual => state'[g] = state[g]
       /\ state[g] \in {"superseded", "deterministic_reject", "awaiting_human_review"}
            => state'[g] = state[g]]_jobVars

\* Every current generation stops, is superseded or replaced, whatever workers
\* die, unless the backpressure of the Human's reviews holds it back.
CurrentSettles ==
  \A g \in Gen :
    Current(g) ~> \/ state[g] \in Stopped \cup {"superseded"} \/ ~Current(g)
                  \/ Awaiting >= MaxAwaiting
====
