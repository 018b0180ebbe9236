---- MODULE InputPlannerProofs ----
(***************************************************************************)
(* The planner never has a selection worked on by two revisions at once,   *)
(* for any number of selections, revisions, deaths and deployments.        *)
(*                                                                         *)
(* The argument follows the journal.  A submission that is only prepared   *)
(* has no noted generation, one that was submitted has none but that of    *)
(* the journal's revision; a planner that is about to submit has           *)
(* superseded any other before.  Workers, Humans and operators never       *)
(* revive a generation, so what is noted of a selection only shrinks       *)
(* outside the planner.                                                    *)
(***************************************************************************)
EXTENDS InputPlanner, PreReviewJobProofs

Dead == {"none", "superseded"}
Places == {"idle", "journal", "supersede", "submit", "record", "note", "input", "context",
           "advance", "clear", "anchor"}

PlannerTypeOK ==
  /\ pc \in Places
  /\ pc # "idle" => plan \in Submission
  /\ pending # None => pending \in Submission
  /\ contexts \in 0..MaxContexts /\ cursor \in Nat /\ clock \in 1..MaxClock
  /\ deployed \in Revisions /\ mode \in Modes

\* Context numbers are used once: nothing exists of a later one.
OnlyMade ==
  /\ pc # "idle" => plan.context <= contexts
  /\ pending # None => pending.context <= contexts
  /\ \A c \in Contexts : c > contexts => \A r \in Revisions : state[Generation(c, r)] = "none"

\* The process works on what the journal says, once it is written.
PlanJournaled ==
  /\ pc = "journal" => pending = None /\ plan.phase = "prepared"
  /\ pc \notin {"idle", "journal"} => pending # None /\ plan.context = pending.context

\* What is noted of the selection in the journal.
JournalKnows ==
  /\ pc = "journal" => Noted(plan.context) = {}
  /\ pending # None =>
       Noted(pending.context) \subseteq
         (IF pending.phase = "submitted" THEN {pending.revision} ELSE {})
  /\ pc \in {"submit", "record", "note"} => Noted(plan.context) \subseteq {plan.revision}

\* What is noted of the others.
OthersSettled ==
  \A c \in Contexts : pending = None \/ pending.context # c =>
    \A q, r \in Noted(c) : q = r

PlannerInv == /\ IInv /\ PlannerTypeOK /\ OnlyMade /\ PlanJournaled
              /\ JournalKnows /\ OthersSettled

-----------------------------------------------------------------------------
LEMMA GenerationIsGen ==
  ASSUME NEW c \in Contexts, NEW r \in Revisions
  PROVE  Generation(c, r) \in Gen
  BY PlannerJobsAssumption, JobBoundAssumption DEF Generation, Gen

LEMMA GenerationsDiffer ==
  ASSUME NEW c, NEW d, NEW q, NEW r, Generation(c, q) = Generation(d, r)
  PROVE  c = d /\ q = r
  BY DEF Generation

LEMMA PlannerInitInv == Init => PlannerInv
  <1> SUFFICES ASSUME Init PROVE PlannerInv
    OBVIOUS
  <1>1. IInv
    BY InitIInv DEF Init
  <1>2. PlannerTypeOK /\ PlanJournaled
    BY PlannerBoundAssumption DEF Init, PlannerTypeOK, Places, PlanJournaled
  <1>3. \A c \in Contexts, r \in Revisions : state[Generation(c, r)] = "none"
    BY GenerationIsGen DEF Init, JobInit
  <1>4. \A c \in Contexts : Noted(c) = {}
    BY <1>3 DEF Noted, Live
  <1>5. OnlyMade
    BY <1>3 DEF Init, OnlyMade
  <1>6. JournalKnows /\ OthersSettled
    BY <1>4 DEF Init, JournalKnows, OthersSettled
  <1> QED BY <1>1, <1>2, <1>5, <1>6 DEF PlannerInv

\* A generation with a running attempt is in a stage.
LEMMA LeftIsActive ==
  ASSUME IInv, NEW s \in Stages, NEW g \in LeftRunning(s)
  PROVE  state[g] \in ActiveStates
  BY InactiveRests DEF LeftRunning, Running

\* A stage's worker neither submits, nor revives, nor tries a dead generation.
LEMMA WorkerKeepsDead ==
  ASSUME IInv, NEW s \in Stages, StageStep(s)
  PROVE  /\ IInv'
         /\ \A g \in Gen : state[g] \in Dead => state'[g] = state[g]
         /\ \A g \in Gen : state[g] \in Dead => attempts'[g] = attempts[g]
  <1> DEFINE Kept == /\ \A g \in Gen : state[g] \in Dead => state'[g] = state[g]
                     /\ \A g \in Gen : state[g] \in Dead => attempts'[g] = attempts[g]
  <1>1. s \in Processes
    BY DEF Processes
  <1>2. \A g \in Gen : state[g] \in Dead =>
          /\ RecoveredState(s)[g] = state[g] /\ g \notin Candidates(s)
          /\ RecoveredAttempts(s)[g] = attempts[g]
    <2> SUFFICES ASSUME NEW g \in Gen, state[g] \in Dead
                 PROVE  /\ RecoveredState(s)[g] = state[g] /\ g \notin Candidates(s)
                        /\ RecoveredAttempts(s)[g] = attempts[g]
      OBVIOUS
    <2>1. g \notin LeftRunning(s)
      BY LeftIsActive DEF Dead, ActiveStates
    <2>2. RecoveredState(s)[g] = state[g]
      BY <2>1 DEF RecoveredState
    <2>3. state[g] # Expected(s) /\ state[g] # "retryable_failure"
      BY DEF Dead, Expected, Active, Stages
    <2>4. RecoveredAttempts(s)[g] = [i \in DOMAIN attempts[g] |-> attempts[g][i]]
      BY <2>1 DEF RecoveredAttempts
    <2>5. RecoveredAttempts(s)[g] = attempts[g]
      BY <2>4, Rows DEF IInv
    <2> QED BY <2>2, <2>3, <2>5 DEF Candidates
  <1>3. CASE ClaimNothing(s, s) /\ faults' \in 0..MaxFaults
    <2>1. Kept
      BY <1>2, <1>3 DEF ClaimNothing, Spent
    <2>2. IInv'
      BY <1>1, <1>3, ClaimNothingStep
    <2> QED BY <2>1, <2>2
  <1>4. ASSUME NEW h \in Gen, Claim(s, s, h), faults' \in 0..MaxFaults
        PROVE  IInv' /\ Kept
    <2>1. \A g \in Gen : g # h => attempts'[g] = RecoveredAttempts(s)[g]
      BY <1>4 DEF Claim, Take, RecoveredAttempts
    <2>3. h \in Candidates(s)
      BY <1>4 DEF Claim
    <2>4. Kept
      BY <1>2, <1>4, <2>1, <2>3 DEF Claim, Spent
    <2>2. IInv'
      BY <1>1, <1>4, ClaimStep
    <2> QED BY <2>2, <2>4
  <1>5. ASSUME NEW o \in Outcomes, Complete(s, o)
        PROVE  IInv' /\ Kept
    <2> DEFINE h == work[s][1]
               a == attempts[h][work[s][2]]
    <2>1. h \in Gen /\ work[s][2] \in DOMAIN attempts[h]
      BY <1>1, <1>5 DEF Complete, IInv, JobTypeOK, WorkExists
    <2>2. attempts[h] \in Seq(Attempt)
      BY <2>1, Rows DEF IInv
    <2>3. a \in Attempt
      BY <2>1, <2>2
    <2>4. a.stage \in Stages
      BY <2>3 DEF Attempt
    <2>5. /\ state[h] = Active(a.stage) /\ state' = [state EXCEPT ![h] = StateAfter(a.stage, o)]
          /\ \A g \in Gen : g # h => attempts'[g] = attempts[g]
      BY <1>5 DEF Complete, Accepted, IInv, JobTypeOK
    <2> HIDE DEF h, a
    <2>6. state[h] \notin Dead
      BY <2>4, <2>5, StageStates DEF Dead, ActiveStates
    <2>7. Kept
      BY <2>1, <2>5, <2>6 DEF IInv, JobTypeOK
    <2>8. IInv'
      BY <1>1, <1>5, CompleteStep
    <2> QED BY <2>7, <2>8
  <1>6. \/ ClaimNothing(s, s) /\ faults' \in 0..MaxFaults
        \/ \E h \in Gen : Claim(s, s, h) /\ faults' \in 0..MaxFaults
        \/ \E o \in Outcomes : Complete(s, o)
    BY JobBoundAssumption DEF StageStep, ClaimStage, Fault, Outcomes, IInv, JobTypeOK
  <1> QED BY <1>3, <1>4, <1>5, <1>6

\* The state a worker leaves is never that of a generation not submitted.
LEMMA WorkerNeverForgets ==
  ASSUME IInv, NEW s \in Stages, StageStep(s), NEW g \in Gen, state'[g] = "none"
  PROVE  state[g] = "none"
  <1>1. Active(s) # "none" /\ s \in Processes
    BY StageStates DEF ActiveStates, Processes
  <1>2. RecoveredState(s)[g] = "none" => state[g] = "none"
    BY DEF RecoveredState
  <1>3. CASE ClaimStage(s, s)
    BY <1>1, <1>2, <1>3 DEF ClaimStage, ClaimNothing, Claim
  <1>4. ASSUME NEW o \in Outcomes, Complete(s, o) PROVE state[g] = "none"
    <2> DEFINE h == work[s][1]
               a == attempts[h][work[s][2]]
    <2>1. state' = [state EXCEPT ![h] = StateAfter(a.stage, o)] /\ h \in Gen
          /\ state[h] = Active(a.stage) /\ work[s][2] \in DOMAIN attempts[h]
      BY <1>1, <1>4 DEF Complete, Accepted, IInv, JobTypeOK, WorkExists
    <2>2. a \in Attempt
      BY <2>1, Rows DEF IInv
    <2>3. a.stage \in Stages
      BY <2>2 DEF Attempt
    <2> HIDE DEF h, a
    <2>4. StateAfter(a.stage, o) # "none"
      BY <2>3 DEF StateAfter, Success, Stages, Outcomes
    <2> QED BY <2>1, <2>4 DEF IInv, JobTypeOK
  <1> QED BY <1>3, <1>4 DEF StageStep, Outcomes

-----------------------------------------------------------------------------
\* Nothing is noted of a generation that was not, unless it is submitted or its
\* note is written.
LEMMA NotedShrinks ==
  ASSUME \A g \in Gen : state[g] \in Dead => state'[g] \in Dead, unnoted \subseteq unnoted'
  PROVE  \A c \in Contexts : Noted(c)' \subseteq Noted(c)
  BY GenerationIsGen DEF Noted, Live, Dead

\* The queue changes, the planner does not.
LEMMA QueueMoves ==
  ASSUME PlannerInv, IInv', \A g \in Gen : state[g] \in Dead => state'[g] = state[g],
         UNCHANGED <<pc, plan, pending, cursor, contexts, unnoted>>,
         clock' \in 1..MaxClock, deployed' \in Revisions, mode' \in Modes
  PROVE  PlannerInv'
  <1>1. \A c \in Contexts : Noted(c)' \subseteq Noted(c)
    BY NotedShrinks
  <1>2. PlannerTypeOK' /\ PlanJournaled'
    BY DEF PlannerInv, PlannerTypeOK, PlanJournaled
  <1>3. OnlyMade'
    BY GenerationIsGen DEF PlannerInv, OnlyMade, Dead
  <1>4. /\ pc # "idle" => plan.context \in Contexts
        /\ pending # None => pending.context \in Contexts
    BY DEF PlannerInv, PlannerTypeOK, Submission
  <1>5. JournalKnows'
    BY <1>1, <1>4 DEF PlannerInv, JournalKnows
  <1>6. OthersSettled'
    BY <1>1 DEF PlannerInv, OthersSettled
  <1> QED BY <1>2, <1>3, <1>5, <1>6 DEF PlannerInv

\* The planner moves on, and the queue, the journal and the notes stay.
LEMMA PlannerMoves ==
  ASSUME PlannerInv, UNCHANGED <<jobVars, pending, unnoted, contexts, clock, deployed, mode>>,
         cursor' \in Nat, PlannerTypeOK', PlanJournaled',
         pc' # "idle" => plan'.context <= contexts',
         pc' # "journal",
         pc' \in {"submit", "record", "note"} =>
           Noted(plan'.context) \subseteq {plan'.revision}
  PROVE  PlannerInv'
  <1>1. IInv'
    BY DEF PlannerInv, IInv, JobTypeOK, WorkExists, jobVars
  <1>2. UNCHANGED <<state, unnoted>>
    BY DEF jobVars
  <1>3. \A c : Noted(c)' = Noted(c)
    BY <1>2 DEF Noted, Live
  <1>4. OnlyMade'
    BY <1>2 DEF PlannerInv, OnlyMade
  <1>5. JournalKnows' /\ OthersSettled'
    BY <1>2 DEF PlannerInv, JournalKnows, OthersSettled, Noted, Live
  <1> QED BY <1>1, <1>4, <1>5 DEF PlannerInv

\* A generation that rests is superseded, or ended by its review.
LEMMA EndStep ==
  ASSUME IInv, NEW g \in Gen, NEW new \in {"superseded", "human_rejected"},
         SetState(g, new), Running(g) = {}, UNCHANGED retries, manual' \in 0..MaxManual,
         state[g] \notin Dead
  PROVE  /\ IInv'
         /\ \A h \in Gen : state[h] \in Dead => state'[h] = state[h]
  <1>1. new \in States /\ Undone(new, attempts[g], output[g])
    BY DEF States, Endings, Undone, Stages, Active, Expected, Failures
  <1>2. retries' \in [Gen -> Nat]
    BY DEF IInv, JobTypeOK
  <1>3. IInv'
    BY <1>1, <1>2, SetStateStep
  <1> QED BY <1>3 DEF SetState, IInv, JobTypeOK

LEMMA AwaitingRests ==
  ASSUME IInv, NEW g \in Gen, state[g] = "awaiting_human_review"
  PROVE  Running(g) = {}
  BY InactiveRests DEF ActiveStates, Running

LEMMA SubmitStep ==
  ASSUME PlannerInv, SubmitPlanned
  PROVE  PlannerInv'
  <1> DEFINE g == Generation(plan.context, plan.revision)
  <1>1. /\ pc = "submit" /\ pc' = "record" /\ plan \in Submission
        /\ pending # None /\ pending \in Submission /\ plan.context = pending.context
        /\ UNCHANGED <<plan, pending, cursor, contexts, clock, deployed, mode>>
        /\ unnoted' = unnoted \cup {g}
    BY DEF SubmitPlanned, Step, Environment, PlannerInv, PlannerTypeOK, PlanJournaled
  <1>2. plan.context \in Contexts /\ plan.revision \in Revisions /\ g \in Gen
    BY <1>1, GenerationIsGen DEF Submission
  <1>3. g = <<g[1], 1>>
    BY DEF Generation
  <1>4. IInv' /\ \A h \in Gen \ {g} : state'[h] = state[h]
    <2>1. CASE Submit(g[1])
      <3>1. Queue(g) /\ state[g] = "none" /\ manual' \in 0..MaxManual
        BY <1>3, <2>1 DEF Submit, PlannerInv, IInv, JobTypeOK
      <3>2. IInv
        BY DEF PlannerInv
      <3>3. IInv'
        BY <1>2, <3>1, <3>2, QueueStep
      <3>4. state' = [state EXCEPT ![g] = "queued"]
        BY <3>1 DEF Queue
      <3> QED BY <3>2, <3>3, <3>4 DEF IInv, JobTypeOK
    <2>2. CASE UNCHANGED jobVars
      BY <2>2 DEF PlannerInv, IInv, JobTypeOK, WorkExists, jobVars
    <2> QED BY <2>1, <2>2 DEF SubmitPlanned
  <1>5. \A c \in Contexts : Noted(c)' \subseteq Noted(c)
    <2> SUFFICES ASSUME NEW c \in Contexts, NEW r \in Noted(c)' PROVE r \in Noted(c)
      OBVIOUS
    <2>1. r \in Revisions /\ Generation(c, r) \notin unnoted' /\ state'[Generation(c, r)] \notin Dead
      BY DEF Noted, Live, Dead
    <2>2. Generation(c, r) \in Gen \ {g}
      BY <1>1, <2>1, GenerationIsGen
    <2> QED BY <1>1, <1>4, <2>1, <2>2 DEF Noted, Live, Dead
  <1> HIDE DEF g
  <1>6. PlannerTypeOK' /\ PlanJournaled'
    BY <1>1 DEF PlannerInv, PlannerTypeOK, PlanJournaled, Places
  <1>7. OnlyMade'
    <2>1. \A c \in Contexts, r \in Revisions : Generation(c, r) = g => c = plan.context
      BY GenerationsDiffer DEF g
    <2>2. plan.context <= contexts /\ contexts \in Nat
      BY <1>1 DEF PlannerInv, PlannerTypeOK, OnlyMade
    <2>3. \A c \in Contexts, r \in Revisions : c > contexts => Generation(c, r) # g
      BY <1>2, <2>1, <2>2 DEF Contexts
    <2> QED BY <1>1, <1>4, <2>3, GenerationIsGen DEF PlannerInv, OnlyMade
  <1>8. JournalKnows'
    BY <1>1, <1>2, <1>5 DEF PlannerInv, JournalKnows
  <1>9. OthersSettled'
    BY <1>1, <1>5 DEF PlannerInv, OthersSettled
  <1> QED BY <1>4, <1>6, <1>7, <1>8, <1>9 DEF PlannerInv

LEMMA SupersedeStep ==
  ASSUME PlannerInv, SupersedeOld
  PROVE  PlannerInv'
  <1> DEFINE old == Generation(pending.context, pending.revision)
  <1>1. /\ pc = "supersede" /\ pc' = "submit" /\ plan \in Submission
        /\ pending # None /\ pending \in Submission /\ plan.context = pending.context
        /\ UNCHANGED <<plan, pending, cursor, contexts, clock, deployed, mode, unnoted>>
    BY DEF SupersedeOld, Step, Environment, PlannerInv, PlannerTypeOK, PlanJournaled
  <1>2. plan.context \in Contexts /\ pending.revision \in Revisions /\ old \in Gen
    BY <1>1, GenerationIsGen DEF Submission
  <1>3. /\ IInv' /\ state'[old] = "superseded"
        /\ \A h \in Gen : state[h] \in Dead => state'[h] = state[h]
    <2>1. CASE UNCHANGED jobVars /\ state[old] = "superseded"
      BY <2>1 DEF PlannerInv, IInv, JobTypeOK, WorkExists, jobVars
    <2>2. CASE Unstarted(old) /\ SetState(old, "superseded") /\ UNCHANGED <<retries, manual>>
      <3>1. Running(old) = {} /\ state[old] \notin Dead /\ manual' \in 0..MaxManual
        BY <2>2 DEF Unstarted, Dead, PlannerInv, IInv, JobTypeOK
      <3>2. IInv
        BY DEF PlannerInv
      <3>3. IInv' /\ \A h \in Gen : state[h] \in Dead => state'[h] = state[h]
        BY <1>2, <2>2, <3>1, <3>2, EndStep
      <3> QED BY <1>2, <2>2, <3>2, <3>3 DEF SetState, IInv, JobTypeOK
    <2> QED BY <2>1, <2>2 DEF SupersedeOld
  <1>4. \A c \in Contexts : Noted(c)' \subseteq Noted(c)
    BY <1>1, <1>3, NotedShrinks DEF Dead
  <1>5. \A c \in Contexts : c = pending.context => Noted(c)' = {}
    <2> SUFFICES ASSUME NEW c \in Contexts, c = pending.context PROVE Noted(c)' = {}
      OBVIOUS
    <2>1. Noted(c)' \subseteq {pending.revision}
      BY <1>1, <1>2, <1>4 DEF PlannerInv, JournalKnows
    <2>2. pending.revision \notin Noted(c)'
      BY <1>1, <1>3 DEF Noted, Live
    <2> QED BY <2>1, <2>2
  <1> HIDE DEF old
  <1>6. PlannerTypeOK' /\ PlanJournaled'
    BY <1>1 DEF PlannerInv, PlannerTypeOK, PlanJournaled, Places
  <1>7. OnlyMade'
    BY <1>1, <1>3, GenerationIsGen DEF PlannerInv, OnlyMade, Dead
  <1>8. JournalKnows'
    <2>1. Noted(pending.context)' = {} /\ Noted(plan.context)' = {}
      BY <1>1, <1>2, <1>5
    <2> QED BY <1>1, <2>1 DEF JournalKnows
  <1>9. OthersSettled'
    BY <1>1, <1>4 DEF PlannerInv, OthersSettled
  <1> QED BY <1>3, <1>6, <1>7, <1>8, <1>9 DEF PlannerInv

LEMMA NoteStep ==
  ASSUME PlannerInv, Note
  PROVE  PlannerInv'
  <1> DEFINE g == Generation(plan.context, plan.revision)
  <1>1. /\ pc = "note" /\ pc' = "input" /\ plan \in Submission
        /\ pending # None /\ pending \in Submission /\ plan.context = pending.context
        /\ pending' = [plan EXCEPT !.phase = "submitted"] /\ unnoted' = unnoted \ {g}
        /\ UNCHANGED <<jobVars, plan, cursor, contexts, clock, deployed, mode>>
    BY DEF Note, Step, Environment, PlannerInv, PlannerTypeOK, PlanJournaled
  <1>2. /\ pending' \in Submission /\ pending'.context = plan.context
        /\ pending'.revision = plan.revision /\ pending'.phase = "submitted"
        /\ pending' # None /\ plan.context \in Contexts
    BY <1>1, NoneAssumption DEF Submission
  <1>3. UNCHANGED state
    BY <1>1 DEF jobVars
  <1>4. \A c \in Contexts \ {plan.context} : Noted(c)' \subseteq Noted(c)
    <2> SUFFICES ASSUME NEW c \in Contexts \ {plan.context}, NEW r \in Noted(c)'
                 PROVE  r \in Noted(c)
      OBVIOUS
    <2>1. r \in Revisions /\ state[Generation(c, r)] \notin Dead
          /\ Generation(c, r) \notin unnoted'
      BY <1>3 DEF Noted, Live, Dead
    <2>2. Generation(c, r) # g
      BY GenerationsDiffer
    <2> QED BY <1>1, <2>1, <2>2 DEF Noted, Live, Dead
  <1>5. Noted(plan.context)' \subseteq {plan.revision}
    <2> SUFFICES ASSUME NEW r \in Noted(plan.context)' PROVE r = plan.revision
      OBVIOUS
    <2>1. CASE Generation(plan'.context, r) = g
      BY <1>1, <2>1, GenerationsDiffer
    <2>2. CASE Generation(plan'.context, r) # g
      <3>1. r \in Noted(plan.context)
        BY <1>1, <1>3, <2>2 DEF Noted, Live
      <3> QED BY <1>1, <3>1 DEF PlannerInv, JournalKnows
    <2> QED BY <2>1, <2>2
  <1>6. IInv'
    BY <1>1 DEF PlannerInv, IInv, JobTypeOK, WorkExists, jobVars
  <1> HIDE DEF g
  <1>7. PlannerTypeOK' /\ PlanJournaled'
    BY <1>1, <1>2 DEF PlannerInv, PlannerTypeOK, PlanJournaled, Places
  <1>8. OnlyMade'
    BY <1>1, <1>2, <1>3 DEF PlannerInv, OnlyMade
  <1>9. JournalKnows'
    <2>1. Noted(pending.context)' \subseteq {plan.revision}
      <3>1. pending'.context = plan'.context
        BY <1>1, <1>2
      <3> QED BY <1>5, <3>1 DEF Noted, Live
    <2> QED BY <1>1, <1>2, <2>1 DEF JournalKnows
  <1>10. OthersSettled'
    BY <1>1, <1>2, <1>4 DEF PlannerInv, OthersSettled
  <1> QED BY <1>6, <1>7, <1>8, <1>9, <1>10 DEF PlannerInv

LEMMA PrepareStep ==
  ASSUME PlannerInv, Prepare
  PROVE  PlannerInv'
  <1>1. /\ pc = "idle" /\ pc' = "journal" /\ pending = None /\ contexts' = contexts + 1
        /\ contexts < MaxContexts /\ cursor < MaxCycle
        /\ plan' = [context |-> contexts + 1, revision |-> deployed, cycle |-> cursor,
                    anchor |-> clock, mode |-> mode, phase |-> "prepared"]
        /\ UNCHANGED <<jobVars, pending, cursor, unnoted, clock, deployed, mode>>
    BY DEF Prepare, Step, Environment
  <1>2. contexts \in 0..MaxContexts /\ cursor \in Nat /\ clock \in 1..MaxClock
        /\ deployed \in Revisions /\ mode \in Modes
    BY DEF PlannerInv, PlannerTypeOK
  <1>3. contexts + 1 \in Contexts /\ cursor \in 0..MaxCycle
    BY <1>1, <1>2, PlannerBoundAssumption DEF Contexts
  <1>4. plan' \in Submission /\ plan'.context = contexts + 1 /\ plan'.phase = "prepared"
    BY <1>1, <1>2, <1>3 DEF Submission
  <1>5. UNCHANGED <<state, unnoted>>
    BY <1>1 DEF jobVars
  <1>6. \A c \in Contexts : c > contexts => Noted(c) = {}
    BY DEF PlannerInv, OnlyMade, Noted, Live
  <1>7. Noted(plan'.context) = {}
    BY <1>2, <1>3, <1>4, <1>6
  <1>8. IInv'
    BY <1>1 DEF PlannerInv, IInv, JobTypeOK, WorkExists, jobVars
  <1>9. PlannerTypeOK' /\ PlanJournaled'
    BY <1>1, <1>2, <1>4, PlannerBoundAssumption
       DEF PlannerTypeOK, PlanJournaled, Places
  <1>10. OnlyMade'
    <2>1. \A c \in Contexts : c > contexts' => c > contexts
      BY <1>1, <1>2 DEF Contexts
    <2>2. plan'.context <= contexts'
      BY <1>1, <1>2, <1>4
    <2> QED BY <1>1, <1>5, <2>1, <2>2 DEF PlannerInv, OnlyMade
  <1>11. JournalKnows' /\ OthersSettled'
    BY <1>1, <1>5, <1>7 DEF PlannerInv, JournalKnows, OthersSettled, Noted, Live
  <1> QED BY <1>8, <1>9, <1>10, <1>11 DEF PlannerInv

LEMMA JournalStep ==
  ASSUME PlannerInv, Journal
  PROVE  PlannerInv'
  <1>1. /\ pc = "journal" /\ pc' = "submit" /\ plan \in Submission
        /\ pending = None /\ plan.phase = "prepared" /\ Noted(plan.context) = {}
        /\ plan.context <= contexts
        /\ pending' = plan
        /\ UNCHANGED <<jobVars, plan, cursor, contexts, unnoted, clock, deployed, mode>>
    BY DEF Journal, Step, Environment, PlannerInv, PlannerTypeOK, PlanJournaled, JournalKnows,
           OnlyMade
  <1>2. plan # None
    BY <1>1, NoneAssumption
  <1>3. UNCHANGED <<state, unnoted>>
    BY <1>1 DEF jobVars
  <1>4. IInv'
    BY <1>1 DEF PlannerInv, IInv, JobTypeOK, WorkExists, jobVars
  <1>5. PlannerTypeOK' /\ PlanJournaled'
    BY <1>1, <1>2 DEF PlannerInv, PlannerTypeOK, PlanJournaled, Places
  <1>6. OnlyMade'
    BY <1>1, <1>3 DEF PlannerInv, OnlyMade
  <1>7. JournalKnows' /\ OthersSettled'
    BY <1>1, <1>2, <1>3 DEF PlannerInv, JournalKnows, OthersSettled, Noted, Live
  <1> QED BY <1>4, <1>5, <1>6, <1>7 DEF PlannerInv

LEMMA ClearStep ==
  ASSUME PlannerInv, Clear
  PROVE  PlannerInv'
  <1>1. /\ pc = "clear" /\ pc' = "idle" /\ pending # None /\ pending' = None
        /\ UNCHANGED <<jobVars, cursor, contexts, unnoted, clock, deployed, mode>>
    BY DEF Clear, Leave, Environment, PlannerInv, PlanJournaled
  <1>2. UNCHANGED <<state, unnoted>>
    BY <1>1 DEF jobVars
  <1>3. IInv'
    BY <1>1 DEF PlannerInv, IInv, JobTypeOK, WorkExists, jobVars
  <1>4. PlannerTypeOK' /\ PlanJournaled' /\ OnlyMade' /\ JournalKnows'
    BY <1>1, <1>2
       DEF PlannerInv, PlannerTypeOK, PlanJournaled, OnlyMade, JournalKnows, Places
  <1>5. \A c \in Contexts : \A q, r \in Noted(c) : q = r
    BY <1>1 DEF PlannerInv, JournalKnows, OthersSettled
  <1>6. OthersSettled'
    BY <1>2, <1>5 DEF OthersSettled, Noted, Live
  <1> QED BY <1>3, <1>4, <1>6 DEF PlannerInv

\* The steps of the planner that only move it on.
LEMMA MoveOnStep ==
  ASSUME PlannerInv,
         \/ Pause \/ PlanNothing \/ Recover \/ RecoverCommitted \/ Record
         \/ EmitInput \/ EmitContext \/ Advance \/ CrashPlanner
  PROVE  PlannerInv'
  <1> USE DEF Environment
  <1>1. CASE Pause \/ PlanNothing \/ CrashPlanner
    <2>1. /\ UNCHANGED <<jobVars, pending, unnoted, contexts, clock, deployed, mode>>
          /\ pc' = "idle" /\ cursor' \in Nat
      BY <1>1 DEF Pause, PlanNothing, CrashPlanner, Leave, PlannerInv, PlannerTypeOK
    <2>2. PlannerTypeOK' /\ PlanJournaled'
      BY <2>1 DEF PlannerInv, PlannerTypeOK, PlanJournaled, Places
    <2> QED BY <2>1, <2>2, PlannerMoves
  <1>2. CASE Recover
    <2>1. /\ UNCHANGED <<jobVars, pending, unnoted, contexts, clock, deployed, mode, cursor>>
          /\ pending # None /\ pending \in Submission /\ deployed \in Revisions
          /\ plan' = [pending EXCEPT !.revision = deployed]
          /\ pc' = IF pending.phase = "submitted" /\ pending.revision # deployed
                   THEN "supersede" ELSE "submit"
          /\ pending.context <= contexts /\ cursor \in Nat
      BY <1>2 DEF Recover, Step, PlannerInv, PlannerTypeOK, OnlyMade
    <2>2. plan' \in Submission /\ plan'.context = pending.context /\ plan'.revision = deployed
      BY <2>1 DEF Submission
    <2>3. PlannerTypeOK' /\ PlanJournaled'
      BY <2>1, <2>2 DEF PlannerInv, PlannerTypeOK, PlanJournaled, Places
    <2>4. pc' = "submit" => Noted(pending.context) \subseteq {deployed}
      BY <2>1 DEF PlannerInv, JournalKnows
    <2> QED BY <2>1, <2>2, <2>3, <2>4, PlannerMoves
  <1>3. CASE RecoverCommitted
    <2>1. /\ UNCHANGED <<jobVars, pending, unnoted, contexts, clock, deployed, mode, cursor>>
          /\ pending # None /\ pending \in Submission /\ plan' = pending /\ pc' = "anchor"
          /\ pending.context <= contexts /\ cursor \in Nat
      BY <1>3 DEF RecoverCommitted, Step, PlannerInv, PlannerTypeOK, OnlyMade
    <2>2. PlannerTypeOK' /\ PlanJournaled'
      BY <2>1 DEF PlannerInv, PlannerTypeOK, PlanJournaled, Places
    <2> QED BY <2>1, <2>2, PlannerMoves
  <1>4. CASE Record \/ EmitInput \/ EmitContext \/ Advance
    <2>1. /\ UNCHANGED <<jobVars, pending, unnoted, contexts, clock, deployed, mode, plan>>
          /\ pc \notin {"idle", "journal"} /\ pc' \in Places \ {"idle", "journal"}
          /\ pc' \in {"submit", "record", "note"} => pc = "record"
      BY <1>4 DEF Record, EmitInput, EmitContext, Show, Advance, Step, Places
    <2>2. plan \in Submission /\ plan.context <= contexts
      BY <2>1 DEF PlannerInv, PlannerTypeOK, OnlyMade
    <2>3. cursor' \in Nat
      BY <1>4, <2>2 DEF Record, EmitInput, EmitContext, Show, Advance, PlannerInv,
                        PlannerTypeOK, Submission
    <2>4. PlannerTypeOK' /\ PlanJournaled'
      BY <2>1, <2>2, <2>3 DEF PlannerInv, PlannerTypeOK, PlanJournaled
    <2>5. pc = "record" => Noted(plan.context) \subseteq {plan.revision}
      BY DEF PlannerInv, JournalKnows
    <2> QED BY <2>1, <2>2, <2>3, <2>4, <2>5, PlannerMoves
  <1> QED BY <1>1, <1>2, <1>3, <1>4

LEMMA PlannerStepInv == PlannerInv /\ [Next]_vars => PlannerInv'
  <1> SUFFICES ASSUME PlannerInv, [Next]_vars PROVE PlannerInv'
    OBVIOUS
  <1>0. /\ IInv /\ clock \in 1..MaxClock /\ deployed \in Revisions /\ mode \in Modes
        /\ manual \in 0..MaxManual
    BY DEF PlannerInv, PlannerTypeOK, IInv, JobTypeOK
  <1>1. CASE PlanStep \/ CrashPlanner
    BY <1>1, MoveOnStep, PrepareStep, JournalStep, SupersedeStep, SubmitStep, NoteStep, ClearStep
       DEF PlanStep
  <1>2. ASSUME NEW s \in Stages, StageStep(s) PROVE PlannerInv'
    <2>1. IInv' /\ \A g \in Gen : state[g] \in Dead => state'[g] = state[g]
      BY <1>0, <1>2, WorkerKeepsDead
    <2>2. /\ UNCHANGED <<pc, plan, pending, cursor, contexts, unnoted>>
          /\ UNCHANGED <<clock, deployed, mode>>
      BY <1>2 DEF StageStep, Environment
    <2> QED BY <1>0, <2>1, <2>2, QueueMoves
  <1>3. ASSUME NEW g \in Gen, Reviewed(g) \/ Retired(g) PROVE PlannerInv'
    <2>1. \/ /\ Reviewed(g) /\ SetState(g, "human_rejected")
             /\ state[g] = "awaiting_human_review" /\ manual' = manual
          \/ /\ Retire(g) /\ SetState(g, "superseded") /\ Running(g) = {}
             /\ state[g] \in {"blocked", "retry_exhausted"} /\ manual' \in 0..MaxManual
      BY <1>0, <1>3, JobBoundAssumption DEF Reviewed, Retired, Retire, Manual
    <2>2. Running(g) = {}
      BY <1>0, <2>1, AwaitingRests
    <2>3. /\ UNCHANGED retries /\ UNCHANGED ownVars /\ state[g] \notin Dead
      BY <1>3, <2>1 DEF Reviewed, Retired, Retire, Dead
    <2>4. IInv' /\ \A h \in Gen : state[h] \in Dead => state'[h] = state[h]
      BY <1>0, <2>1, <2>2, <2>3, EndStep
    <2> QED BY <1>0, <2>3, <2>4, QueueMoves DEF ownVars
  <1>4. CASE Change \/ Tick \/ UNCHANGED vars
    <2>1. /\ UNCHANGED jobVars /\ UNCHANGED <<pc, plan, pending, cursor, contexts, unnoted>>
          /\ deployed' \in Revisions /\ mode' \in Modes
      BY <1>0, <1>4 DEF Change, Tick, vars, ownVars
    <2>2. clock' \in 1..MaxClock
      BY <1>0, <1>4, PlannerBoundAssumption DEF Change, Tick, vars, ownVars
    <2>3. IInv' /\ UNCHANGED state
      BY <1>0, <2>1 DEF IInv, JobTypeOK, WorkExists, jobVars
    <2> QED BY <2>1, <2>2, <2>3, QueueMoves
  <1> QED BY <1>1, <1>2, <1>3, <1>4 DEF Next, CycleStep

\* The invariant holds in every behaviour.
THEOREM PlannerInvariance == Spec => []PlannerInv
  BY PlannerInitInv, PlannerStepInv, PTL DEF Spec

\* What the journal has noted of a selection is one revision's, wherever the
\* planner died and whatever was deployed in between.
THEOREM NotedOnce == Spec => []OneNoted
  <1>1. PlannerInv => OneNoted
    BY DEF PlannerInv, JournalKnows, OthersSettled, OneNoted
  <1> QED BY <1>1, PlannerInvariance, PTL

\* The queue behind the planner keeps the invariant of PreReviewJob, although
\* the planner supersedes in it.
THEOREM QueueStaysSound == Spec => []JobTypeOK
  <1>1. PlannerInv => JobTypeOK
    BY DEF PlannerInv, IInv
  <1> QED BY <1>1, PlannerInvariance, PTL

-----------------------------------------------------------------------------
(***************************************************************************)
(* What the journal stands for is durable when it is cleared, and the      *)
(* cooldown survives: both rest on where the process is between the        *)
(* stores, and on what a recovery can tell from the cursor.                *)
(***************************************************************************)
Both == {"input", "context"}
Planned == Generation(plan.context, plan.revision)

DurableTypeOK ==
  /\ anchor \in [Contexts -> 0..MaxClock] /\ last \in Nat
  /\ shown \in [Gen -> SUBSET Both]
  /\ pc # "idle" => unit = "planner"

\* The process carries the journal's anchor and cycle; the cursor says whether
\* the submission was committed.
PlanCarried ==
  /\ pending # None => /\ anchor[pending.context] = pending.anchor
                       /\ cursor \in {pending.cycle, pending.cycle + 1}
  /\ pc \notin {"idle", "journal"} =>
       plan.anchor = pending.anchor /\ plan.cycle = pending.cycle
  /\ pc \in {"anchor", "clear"} => cursor = plan.cycle + 1
  /\ pc \notin {"idle", "anchor", "clear"} => cursor = plan.cycle
  /\ pc \in {"input", "context", "advance"} =>
       pending.revision = plan.revision /\ pending.phase = "submitted"

\* What is stored by the time the process is there.
StoredSoFar ==
  /\ pc \in {"note", "input", "context", "advance", "clear"} => last >= plan.anchor
  /\ pc \in {"context", "advance"} => "input" \in shown[Planned]
  /\ pc = "advance" => "context" \in shown[Planned]
  /\ pending # None /\ cursor = pending.cycle + 1 =>
       \A r \in Noted(pending.context) : shown[Generation(pending.context, r)] = Both

\* The planner that is about to write its journal has waited long enough.
Waited ==
  pc = "journal" =>
    \A d \in Contexts : anchor[d] # 0 => plan.anchor >= anchor[d] + Interval(Awaiting)

DurableInv == /\ PlannerInv /\ DurableTypeOK /\ PlanCarried /\ StoredSoFar /\ Waited
              /\ ClearedComplete

LEMMA DurableInitInv == Init => DurableInv
  <1> SUFFICES ASSUME Init PROVE DurableInv
    OBVIOUS
  <1>1. PlannerInv
    BY PlannerInitInv
  <1>2. DurableTypeOK
    BY PlannerBoundAssumption DEF Init, DurableTypeOK
  <1>3. PlanCarried /\ StoredSoFar /\ Waited
    BY DEF Init, PlanCarried, StoredSoFar, Waited
  <1>4. ClearedComplete
    BY DEF Init, ClearedComplete
  <1> QED BY <1>1, <1>2, <1>3, <1>4 DEF DurableInv

LEMMA AwaitingNat == Awaiting \in Nat /\ Awaiting' \in Nat
  BY GenFinite, FS_Subset, FS_CardinalityType DEF Awaiting

\* Fewer waiting reviews never make the interval longer.
LEMMA IntervalGrows ==
  ASSUME NEW a \in Nat, NEW b \in Nat, a <= b
  PROVE  Interval(a) <= Interval(b) /\ Interval(a) \in Nat /\ Interval(b) \in Nat
  BY DEF Interval

LEMMA PlanFacts ==
  ASSUME DurableInv
  PROVE  /\ pc # "idle" => /\ plan \in Submission /\ plan.context \in Contexts
                           /\ plan.revision \in Revisions /\ Planned \in Gen
                           /\ plan.anchor \in 1..MaxClock /\ plan.cycle \in Nat
         /\ pending # None => /\ pending \in Submission /\ pending.context \in Contexts
                              /\ pending.anchor \in 1..MaxClock /\ pending.cycle \in Nat
         /\ cursor \in Nat /\ clock \in 1..MaxClock /\ last \in Nat
         /\ pc \notin {"idle", "journal"} => pending # None /\ plan.context = pending.context
         /\ pc = "journal" => pending = None
  BY GenerationIsGen
     DEF DurableInv, DurableTypeOK, PlannerInv, PlannerTypeOK, PlanJournaled, Submission, Planned

\* The queue changes, or time and configuration do; the planner does not.
LEMMA QueueMovesDurable ==
  ASSUME DurableInv, PlannerInv', \A g \in Gen : state[g] \in Dead => state'[g] = state[g],
         UNCHANGED <<pc, plan, pending, cursor, last, shown, anchor, unnoted>>,
         pc # "idle" => unit' = "planner",
         pc = "journal" => Awaiting' <= Awaiting
  PROVE  DurableInv'
  <1>1. \A c \in Contexts : Noted(c)' \subseteq Noted(c)
    BY NotedShrinks
  <1>2. DurableTypeOK' /\ PlanCarried'
    BY DEF DurableInv, DurableTypeOK, PlanCarried
  <1>3. StoredSoFar'
    BY <1>1, PlanFacts DEF DurableInv, StoredSoFar, Planned, Generation
  <1>4. Waited'
    <2> SUFFICES ASSUME pc = "journal", NEW d \in Contexts, anchor[d] # 0
                 PROVE  plan.anchor >= anchor[d] + Interval(Awaiting)'
      BY DEF Waited
    <2>1. Awaiting \in Nat /\ Awaiting' \in Nat
      BY AwaitingNat
    <2>2. Interval(Awaiting') <= Interval(Awaiting) /\ Interval(Awaiting) \in Nat
          /\ Interval(Awaiting') \in Nat
      BY <2>1, IntervalGrows
    <2>3. plan.anchor >= anchor[d] + Interval(Awaiting) /\ plan.anchor \in Nat /\ anchor[d] \in Nat
      BY PlanFacts DEF DurableInv, Waited, DurableTypeOK
    <2> QED BY <2>2, <2>3 DEF Interval
  <1>5. ClearedComplete'
    BY <1>1 DEF DurableInv, ClearedComplete, Generation
  <1> QED BY <1>2, <1>3, <1>4, <1>5 DEF DurableInv

\* A submission shows in the queue, and in nothing the planner has stored.
LEMMA SubmitDurable ==
  ASSUME DurableInv, PlannerInv', SubmitPlanned
  PROVE  DurableInv'
  <1>1. /\ pc = "submit" /\ pc' = "record" /\ unit = "planner" /\ unit' = unit
        /\ UNCHANGED <<plan, pending, cursor, last, shown, anchor>>
        /\ plan.context = pending.context /\ pending # None /\ cursor = pending.cycle
        /\ pending.cycle \in Nat
    BY PlanFacts DEF SubmitPlanned, Step, DurableInv, DurableTypeOK, PlanCarried
  <1>2. \A c \in Contexts : c # plan.context => Noted(c)' \subseteq Noted(c)
    <2> SUFFICES ASSUME NEW c \in Contexts, c # plan.context, NEW r \in Noted(c)'
                 PROVE  r \in Noted(c)
      OBVIOUS
    <2>1. r \in Revisions /\ Generation(c, r) \notin unnoted' /\ state'[Generation(c, r)] \notin Dead
      BY DEF Noted, Live, Dead
    <2>2. Generation(c, r) \in Gen /\ Generation(c, r) # Planned
      BY <2>1, GenerationIsGen, GenerationsDiffer DEF Planned
    <2>3. state'[Generation(c, r)] = state[Generation(c, r)]
      <3>1. Planned = <<Planned[1], 1>>
        BY DEF Planned, Generation
      <3> QED BY <2>2, <3>1 DEF SubmitPlanned, Planned, Submit, Queue, jobVars, PlannerInv,
                                 DurableInv, IInv, JobTypeOK
    <2> QED BY <2>1, <2>2, <2>3 DEF SubmitPlanned, Noted, Live, Dead
  <1>3. DurableTypeOK' /\ PlanCarried' /\ Waited'
    BY <1>1 DEF DurableInv, DurableTypeOK, PlanCarried, Waited
  <1>4. StoredSoFar'
    BY <1>1 DEF StoredSoFar
  <1>5. ClearedComplete'
    BY <1>1, <1>2 DEF DurableInv, ClearedComplete, Generation
  <1> QED BY <1>3, <1>4, <1>5 DEF DurableInv

\* What the planner does without a change of the queue or of what is noted.
LEMMA QuietNoted ==
  ASSUME UNCHANGED <<state, unnoted>>
  PROVE  \A c \in Contexts : Noted(c)' = Noted(c)
  BY DEF Noted, Live

LEMMA IdleDurable ==
  ASSUME DurableInv, PlannerInv', Pause \/ PlanNothing \/ CrashPlanner
  PROVE  DurableInv'
  <1>1. /\ UNCHANGED <<jobVars, pending, last, shown, anchor, unnoted>> /\ pc' = "idle"
        /\ cursor' = cursor \/ (pending = None /\ cursor' = cursor + 1)
    BY DEF Pause, PlanNothing, CrashPlanner, Leave
  <1>2. UNCHANGED <<state, unnoted>>
    BY <1>1 DEF jobVars
  <1>3. \A c \in Contexts : Noted(c)' = Noted(c)
    BY <1>2, QuietNoted
  <1>4. DurableTypeOK' /\ PlanCarried' /\ Waited'
    BY <1>1 DEF DurableInv, DurableTypeOK, PlanCarried, Waited
  <1>5. StoredSoFar'
    BY <1>1, <1>3, PlanFacts DEF DurableInv, StoredSoFar, Generation
  <1>6. cursor > 0 => cursor' > 0
    BY <1>1, PlanFacts
  <1>7. ClearedComplete'
    BY <1>1, <1>3, <1>6 DEF DurableInv, ClearedComplete, Generation
  <1> QED BY <1>4, <1>5, <1>7 DEF DurableInv

LEMMA PrepareDurable ==
  ASSUME DurableInv, PlannerInv', Prepare
  PROVE  DurableInv'
  <1>1. /\ pc = "idle" /\ pc' = "journal" /\ pending = None /\ Eligible /\ unit = "planner"
        /\ plan' = [context |-> contexts + 1, revision |-> deployed, cycle |-> cursor,
                    anchor |-> clock, mode |-> mode, phase |-> "prepared"]
        /\ UNCHANGED <<jobVars, unit, pending, cursor, last, shown, anchor, unnoted>>
    BY DEF Prepare, Step, MayPlan
  <1>2. UNCHANGED <<state, unnoted>> /\ Awaiting' = Awaiting
    BY <1>1 DEF jobVars, Awaiting, Current
  <1>3. \A c \in Contexts : Noted(c)' = Noted(c)
    BY <1>2, QuietNoted
  <1>4. DurableTypeOK' /\ PlanCarried' /\ StoredSoFar'
    BY <1>1 DEF DurableInv, DurableTypeOK, PlanCarried, StoredSoFar
  <1>5. Waited'
    <2> SUFFICES ASSUME NEW d \in Contexts, anchor[d] # 0
                 PROVE  clock >= anchor[d] + Interval(Awaiting)
      BY <1>1, <1>2 DEF Waited
    <2>1. last >= anchor[d] /\ anchor[d] \in Nat /\ last \in Nat /\ clock \in Nat
      BY <1>1, PlanFacts DEF DurableInv, ClearedComplete, DurableTypeOK
    <2>2. clock >= last + Interval(Awaiting)
      BY <1>1, <2>1 DEF Eligible
    <2>3. Interval(Awaiting) \in Nat
      BY AwaitingNat, IntervalGrows
    <2> QED BY <2>1, <2>2, <2>3
  <1>6. ClearedComplete'
    BY <1>1, <1>3 DEF DurableInv, ClearedComplete, Generation
  <1> QED BY <1>4, <1>5, <1>6 DEF DurableInv

LEMMA JournalDurable ==
  ASSUME DurableInv, PlannerInv', Journal
  PROVE  DurableInv'
  <1>1. /\ pc = "journal" /\ pc' = "submit" /\ pending = None /\ pending' = plan
        /\ anchor' = [anchor EXCEPT ![plan.context] = plan.anchor]
        /\ unit = "planner" /\ cursor = plan.cycle /\ Noted(plan.context) = {}
        /\ UNCHANGED <<jobVars, unit, plan, cursor, last, shown, unnoted>>
    BY DEF Journal, Step, DurableInv, DurableTypeOK, PlanCarried, PlannerInv, PlanJournaled,
           JournalKnows
  <1>2. UNCHANGED <<state, unnoted>>
    BY <1>1 DEF jobVars
  <1>3. \A c \in Contexts : Noted(c)' = Noted(c)
    BY <1>2, QuietNoted
  <1>4. plan.context \in Contexts /\ plan.anchor \in 1..MaxClock /\ plan.cycle \in Nat
    BY <1>1, PlanFacts
  <1>5. DurableTypeOK'
    BY <1>1, <1>4, PlannerBoundAssumption DEF DurableInv, DurableTypeOK
  <1>6. PlanCarried'
    BY <1>1, <1>4 DEF DurableInv, DurableTypeOK, PlanCarried
  <1>7. StoredSoFar'
    BY <1>1, <1>4 DEF StoredSoFar
  <1>8. Waited'
    BY <1>1 DEF Waited
  <1>9. plan # None
    BY <1>1, PlanFacts, NoneAssumption
  <1>10. \A c \in Contexts : c # plan.context => anchor'[c] = anchor[c]
    BY <1>1 DEF DurableInv, DurableTypeOK
  <1>11. ClearedComplete'
    BY <1>1, <1>3, <1>9, <1>10 DEF DurableInv, ClearedComplete, Generation
  <1> QED BY <1>5, <1>6, <1>7, <1>8, <1>11 DEF DurableInv

\* A recovery takes up what the journal says; what it writes first is the queue.
LEMMA RecoverDurable ==
  ASSUME DurableInv, PlannerInv', Recover \/ RecoverCommitted \/ SupersedeOld
  PROVE  DurableInv'
  <1>1. /\ UNCHANGED <<pending, cursor, last, shown, anchor, unnoted, unit>>
        /\ unit = "planner" /\ pending # None /\ pending \in Submission
        /\ pending.cycle \in Nat
        /\ \/ /\ plan' = [pending EXCEPT !.revision = deployed] \/ plan' = plan
              /\ pc' \in {"supersede", "submit"} /\ cursor = pending.cycle
           \/ plan' = pending /\ pc' = "anchor" /\ cursor = pending.cycle + 1
        /\ plan' = plan => pc = "supersede" \/ plan' = pending
                           \/ plan' = [pending EXCEPT !.revision = deployed]
    BY PlanFacts DEF Recover, RecoverCommitted, SupersedeOld, Step, DurableInv, DurableTypeOK,
                     PlanCarried
  <1>2. plan'.anchor = pending.anchor /\ plan'.cycle = pending.cycle
    BY <1>1 DEF DurableInv, PlanCarried, Submission
  <1>3. \A c \in Contexts : Noted(c)' \subseteq Noted(c)
    <2>1. \A g \in Gen : state[g] \in Dead => state'[g] \in Dead
      <3>1. CASE UNCHANGED jobVars
        BY <3>1 DEF jobVars
      <3>2. CASE SetState(Generation(pending.context, pending.revision), "superseded")
        BY <3>2 DEF SetState, Dead, DurableInv, PlannerInv, IInv, JobTypeOK
      <3> QED BY <3>1, <3>2 DEF Recover, RecoverCommitted, SupersedeOld
    <2> QED BY <1>1, <2>1, NotedShrinks
  <1>4. DurableTypeOK'
    BY <1>1 DEF DurableInv, DurableTypeOK
  <1>5. PlanCarried'
    BY <1>1, <1>2 DEF DurableInv, PlanCarried
  <1>6. StoredSoFar'
    BY <1>1, <1>3, PlanFacts DEF DurableInv, StoredSoFar, Generation
  <1>7. Waited'
    BY <1>1 DEF Waited
  <1>8. ClearedComplete'
    BY <1>1, <1>3 DEF DurableInv, ClearedComplete, Generation
  <1> QED BY <1>4, <1>5, <1>6, <1>7, <1>8 DEF DurableInv

LEMMA RecordDurable ==
  ASSUME DurableInv, PlannerInv', Record
  PROVE  DurableInv'
  <1>1. /\ pc \in {"record", "anchor"} /\ pc' = IF pc = "record" THEN "note" ELSE "clear"
        /\ last' = IF plan.anchor < last THEN last ELSE plan.anchor
        /\ UNCHANGED <<jobVars, unit, plan, pending, cursor, shown, anchor, unnoted>>
        /\ unit = "planner" /\ pending # None
        /\ plan.anchor \in Nat /\ last \in Nat
    BY PlanFacts DEF Record, DurableInv, DurableTypeOK
  <1>2. last' >= plan.anchor /\ last' >= last /\ last' \in Nat
    BY <1>1
  <1>3. \A c \in Contexts : Noted(c)' = Noted(c)
    BY <1>1, QuietNoted DEF jobVars
  <1>4. DurableTypeOK' /\ PlanCarried' /\ Waited'
    BY <1>1, <1>2 DEF DurableInv, DurableTypeOK, PlanCarried, Waited
  <1>5. StoredSoFar'
    BY <1>1, <1>2, <1>3, PlanFacts DEF DurableInv, StoredSoFar, Generation
  <1>6. \A c \in Contexts : anchor[c] \in Nat
    BY DEF DurableInv, DurableTypeOK
  <1>7. \A c \in Contexts : last >= anchor[c] => last' >= anchor[c]
    BY <1>1, <1>2, <1>6
  <1>8. ClearedComplete'
    BY <1>1, <1>3, <1>7 DEF DurableInv, ClearedComplete, Generation
  <1> QED BY <1>4, <1>5, <1>8 DEF DurableInv

LEMMA NoteDurable ==
  ASSUME DurableInv, PlannerInv', Note
  PROVE  DurableInv'
  <1>1. /\ pc = "note" /\ pc' = "input" /\ unit = "planner"
        /\ pending' = [plan EXCEPT !.phase = "submitted"]
        /\ unnoted' = unnoted \ {Planned}
        /\ plan \in Submission /\ plan.context = pending.context
        /\ plan.context \in Contexts
        /\ cursor = plan.cycle /\ plan.cycle \in Nat /\ pending # None
        /\ UNCHANGED <<jobVars, unit, plan, cursor, last, shown, anchor>>
    BY PlanFacts DEF Note, Step, Planned, DurableInv, DurableTypeOK, PlanCarried
  <1>2. /\ pending'.context = plan.context /\ pending'.anchor = plan.anchor
        /\ pending'.cycle = plan.cycle /\ pending'.phase = "submitted"
        /\ pending'.revision = plan.revision
    BY <1>1 DEF Submission
  <1>3. \A c \in Contexts : c # plan.context => Noted(c)' \subseteq Noted(c)
    <2> SUFFICES ASSUME NEW c \in Contexts, c # plan.context, NEW r \in Noted(c)'
                 PROVE  r \in Noted(c)
      OBVIOUS
    <2>1. Generation(c, r) # Planned
      BY GenerationsDiffer DEF Planned
    <2> QED BY <1>1, <2>1 DEF Noted, Live, jobVars
  <1>4. plan.anchor = pending.anchor
    BY <1>1 DEF DurableInv, PlanCarried
  <1>5. DurableTypeOK' /\ Waited'
    BY <1>1 DEF DurableInv, DurableTypeOK, Waited
  <1>6. PlanCarried'
    BY <1>1, <1>2, <1>4 DEF DurableInv, PlanCarried
  <1>7. StoredSoFar'
    BY <1>1, <1>2 DEF DurableInv, StoredSoFar
  <1>8. ClearedComplete'
    <2>1. \A c \in Contexts :
            pending' = None \/ pending'.context # c => c # plan.context
      <3>1. pending' \in Submission
        BY <1>1 DEF Submission
      <3> QED BY <1>2, <3>1, NoneAssumption
    <2> QED BY <1>1, <1>3, <2>1 DEF DurableInv, ClearedComplete, Generation
  <1> QED BY <1>5, <1>6, <1>7, <1>8 DEF DurableInv

LEMMA ShowDurable ==
  ASSUME DurableInv, PlannerInv', EmitInput \/ EmitContext
  PROVE  DurableInv'
  <1>1. PICK kind \in Both :
          /\ pc \in {"input", "context"} /\ pc' \in {"context", "advance"}
          /\ kind = pc /\ pc' = IF pc = "input" THEN "context" ELSE "advance"
          /\ shown' = [shown EXCEPT ![Planned] = @ \cup {kind}]
          /\ UNCHANGED <<jobVars, unit, plan, pending, cursor, last, anchor, unnoted>>
    BY DEF EmitInput, EmitContext, Show, Step, Both, Planned
  <1>2. /\ Planned \in Gen /\ pending # None /\ unit = "planner" /\ cursor = plan.cycle
        /\ plan.cycle = pending.cycle /\ pending.cycle \in Nat
        /\ plan.context = pending.context /\ plan.context \in Contexts
    BY <1>1, PlanFacts DEF DurableInv, DurableTypeOK, PlanCarried
  <1>3. /\ shown' \in [Gen -> SUBSET Both]
        /\ shown'[Planned] = shown[Planned] \cup {kind}
        /\ \A g \in Gen \ {Planned} : shown'[g] = shown[g]
    BY <1>1, <1>2 DEF DurableInv, DurableTypeOK
  <1>4. Planned' = Planned
    BY <1>1 DEF Planned
  <1>5. \A c \in Contexts : Noted(c)' = Noted(c)
    BY <1>1, QuietNoted DEF jobVars
  <1>6. DurableTypeOK' /\ PlanCarried' /\ Waited'
    BY <1>1, <1>2, <1>3 DEF DurableInv, DurableTypeOK, PlanCarried, Waited
  <1>7. StoredSoFar'
    BY <1>1, <1>2, <1>3, <1>4 DEF DurableInv, StoredSoFar
  <1>8. \A c \in Contexts, r \in Revisions :
          c # plan.context => shown'[Generation(c, r)] = shown[Generation(c, r)]
    BY <1>3, GenerationIsGen, GenerationsDiffer DEF Planned
  <1>9. ClearedComplete'
    BY <1>1, <1>2, <1>5, <1>8 DEF DurableInv, ClearedComplete, Noted, Live
  <1> QED BY <1>6, <1>7, <1>9 DEF DurableInv

LEMMA AdvanceDurable ==
  ASSUME DurableInv, PlannerInv', Advance
  PROVE  DurableInv'
  <1>1. /\ pc = "advance" /\ pc' = "clear" /\ unit = "planner" /\ pending # None
        /\ cursor' = plan.cycle + 1 /\ cursor = plan.cycle /\ plan.cycle \in Nat
        /\ plan.cycle = pending.cycle /\ plan.context = pending.context
        /\ plan.context \in Contexts
        /\ pending.revision = plan.revision /\ pending.phase = "submitted"
        /\ shown[Planned] = Both
        /\ UNCHANGED <<jobVars, unit, plan, pending, last, shown, anchor, unnoted>>
    BY PlanFacts DEF Advance, Step, DurableInv, DurableTypeOK, PlanCarried, StoredSoFar, Both
  <1>2. \A c \in Contexts : Noted(c)' = Noted(c)
    BY <1>1, QuietNoted DEF jobVars
  <1>3. \A r \in Noted(pending.context) : Generation(pending.context, r) = Planned
    BY <1>1 DEF DurableInv, PlannerInv, JournalKnows, Planned
  <1>4. DurableTypeOK' /\ PlanCarried' /\ Waited'
    BY <1>1 DEF DurableInv, DurableTypeOK, PlanCarried, Waited
  <1>5. StoredSoFar'
    BY <1>1, <1>2, <1>3 DEF DurableInv, StoredSoFar, Generation, Planned
  <1>6. cursor' > 0
    BY <1>1
  <1>7. ClearedComplete'
    BY <1>1, <1>2, <1>6 DEF DurableInv, ClearedComplete, Generation
  <1> QED BY <1>4, <1>5, <1>7 DEF DurableInv

\* Clearing the journal leaves its submission complete.
LEMMA ClearDurable ==
  ASSUME DurableInv, PlannerInv', Clear
  PROVE  DurableInv'
  <1>1. /\ pc = "clear" /\ pc' = "idle" /\ pending' = None /\ pending # None
        /\ UNCHANGED <<jobVars, cursor, last, shown, anchor, unnoted>>
        /\ cursor = pending.cycle + 1 /\ pending.cycle \in Nat
        /\ last >= anchor[pending.context]
    BY PlanFacts DEF Clear, Leave, DurableInv, DurableTypeOK, PlanCarried, StoredSoFar
  <1>2. \A c \in Contexts : Noted(c)' = Noted(c)
    BY <1>1, QuietNoted DEF jobVars
  <1>3. DurableTypeOK' /\ PlanCarried' /\ StoredSoFar' /\ Waited'
    BY <1>1 DEF DurableInv, DurableTypeOK, PlanCarried, StoredSoFar, Waited
  <1>4. \A r \in Noted(pending.context) : shown[Generation(pending.context, r)] = Both
    BY <1>1 DEF DurableInv, StoredSoFar
  <1>5. cursor > 0
    BY <1>1
  <1>6. ClearedComplete'
    BY <1>1, <1>2, <1>4, <1>5 DEF DurableInv, ClearedComplete, Generation, Both
  <1> QED BY <1>3, <1>6 DEF DurableInv

\* A Review that ends only lowers the number of those that wait, and an operator
\* retires none of them.
LEMMA AwaitingShrinks ==
  ASSUME IInv, NEW g \in Gen, NEW new, new # "awaiting_human_review", new # "none",
         state[g] # "none", state' = [state EXCEPT ![g] = new]
  PROVE  Awaiting' <= Awaiting
  <1> DEFINE W == {h \in Gen : Current(h) /\ state[h] = "awaiting_human_review"}
             V == {h \in Gen : Current(h)' /\ state'[h] = "awaiting_human_review"}
  <1>1. \A h \in Gen : state'[h] = "none" <=> state[h] = "none"
    BY DEF IInv, JobTypeOK
  <1>2. V \subseteq W
    BY <1>1 DEF IInv, JobTypeOK, Current
  <1>3. IsFiniteSet(W)
    BY GenFinite, FS_Subset
  <1>4. Cardinality(V) <= Cardinality(W)
    BY <1>2, <1>3, FS_Subset
  <1> QED BY <1>4 DEF Awaiting

LEMMA DurableStepInv == DurableInv /\ [Next]_vars => DurableInv'
  <1> SUFFICES ASSUME DurableInv, [Next]_vars PROVE DurableInv'
    OBVIOUS
  <1>0. PlannerInv /\ IInv /\ PlannerInv'
    BY PlannerStepInv DEF DurableInv, PlannerInv
  <1>1. CASE PlanStep \/ CrashPlanner
    BY <1>0, <1>1, IdleDurable, PrepareDurable, JournalDurable, RecoverDurable, SubmitDurable,
       RecordDurable, NoteDurable, ShowDurable, AdvanceDurable, ClearDurable DEF PlanStep
  <1>2. ASSUME NEW s \in Stages, StageStep(s) PROVE DurableInv'
    <2>1. \A g \in Gen : state[g] \in Dead => state'[g] = state[g]
      BY <1>0, <1>2, WorkerKeepsDead
    <2>2. UNCHANGED <<pc, plan, pending, cursor, last, shown, anchor, unnoted>> /\ unit = s
      BY <1>2 DEF StageStep
    <2>3. pc = "idle"
      BY <2>2 DEF Stages, DurableInv, DurableTypeOK
    <2> QED BY <1>0, <2>1, <2>2, <2>3, QueueMovesDurable
  <1>3. ASSUME NEW g \in Gen, Reviewed(g) \/ Retired(g) PROVE DurableInv'
    <2>1. PICK new \in {"human_rejected", "superseded"} : state' = [state EXCEPT ![g] = new]
      BY <1>3 DEF Reviewed, Retired, Retire, SetState
    <2>2. /\ state[g] \notin Dead /\ UNCHANGED ownVars
      BY <1>3 DEF Reviewed, Retired, Retire, Dead
    <2>3. Awaiting' <= Awaiting
      BY <1>0, <2>1, <2>2, AwaitingShrinks DEF Dead
    <2>4. \A h \in Gen : state[h] \in Dead => state'[h] = state[h]
      BY <1>0, <2>1, <2>2 DEF IInv, JobTypeOK
    <2>5. /\ UNCHANGED <<pc, plan, pending, cursor, last, shown, anchor, unnoted>>
          /\ UNCHANGED unit
      BY <2>2 DEF ownVars
    <2>6. pc # "idle" => unit' = "planner"
      BY <2>5 DEF DurableInv, DurableTypeOK
    <2> QED BY <1>0, <2>3, <2>4, <2>5, <2>6, QueueMovesDurable
  <1>4. CASE Change \/ Tick \/ UNCHANGED vars
    <2>1. /\ UNCHANGED jobVars
          /\ UNCHANGED <<unit, pc, plan, pending, cursor, last, shown, anchor, unnoted>>
      BY <1>4 DEF Change, Tick, vars, ownVars
    <2>2. UNCHANGED state /\ Awaiting' = Awaiting
      BY <2>1 DEF jobVars, Awaiting, Current
    <2>3. Awaiting' <= Awaiting
      BY <2>2, AwaitingNat
    <2>4. pc # "idle" => unit' = "planner"
      BY <2>1 DEF DurableInv, DurableTypeOK
    <2> QED BY <1>0, <2>1, <2>2, <2>3, <2>4, QueueMovesDurable
  <1> QED BY <1>1, <1>2, <1>3, <1>4 DEF Next, CycleStep

\* The invariant holds in every behaviour.
THEOREM DurableInvariance == Spec => []DurableInv
  BY DurableInitInv, DurableStepInv, PTL DEF Spec

\* What has left the journal is complete: it counts in the cursor and in the
\* cadence, and the noted generation has both of its projection requests.
THEOREM ClearedIsComplete == Spec => []ClearedComplete
  <1>1. DurableInv => ClearedComplete
    BY DEF DurableInv
  <1> QED BY <1>1, DurableInvariance, PTL

\* No restart shortens the interval between two journaled submissions.
THEOREM CooldownIsKept == Spec => CooldownKept
  <1> DEFINE Kept ==
        \A c \in Contexts : anchor[c] = 0 /\ anchor'[c] # 0 =>
          \A d \in Contexts : anchor[d] # 0 => anchor'[c] >= anchor[d] + Interval(Awaiting)
  <1>1. ASSUME DurableInv, [Next]_vars PROVE Kept
    <2>1. CASE Journal
      <3>1. /\ pc = "journal" /\ anchor' = [anchor EXCEPT ![plan.context] = plan.anchor]
        BY <2>1 DEF Journal, Step
      <3>2. \A c \in Contexts : anchor'[c] \in {anchor[c], plan.anchor}
        BY <1>1, <3>1 DEF DurableInv, DurableTypeOK
      <3>3. \A d \in Contexts : anchor[d] # 0 => plan.anchor >= anchor[d] + Interval(Awaiting)
        BY <1>1, <3>1 DEF DurableInv, Waited
      <3>4. ASSUME NEW c \in Contexts, anchor[c] = 0, anchor'[c] # 0
            PROVE  anchor'[c] = plan.anchor
        BY <3>2, <3>4
      <3> QED BY <3>3, <3>4
    <2>2. CASE ~Journal
      <3>1. UNCHANGED anchor
        BY <1>1, <2>2
           DEF Next, CycleStep, PlanStep, Pause, PlanNothing, Prepare, Recover,
               RecoverCommitted, SupersedeOld, SubmitPlanned, Record, Note, EmitInput,
               EmitContext, Show, Advance, Clear, CrashPlanner, Change, Tick, StageStep,
               Reviewed, Retired, ownVars, vars
      <3> QED BY <3>1
    <2> QED BY <2>1, <2>2
  <1> QED BY <1>1, DurableInvariance, PTL DEF Spec, CooldownKept

-----------------------------------------------------------------------------
(***************************************************************************)
(* What a dead planner leaves can be taken up.  Nothing of its selection   *)
(* has been started, as the units behind it run only when it has cleared   *)
(* the journal; and what the journal calls submitted is in the queue.      *)
(***************************************************************************)
Waits(g) == attempts[g] = <<>> /\ state[g] \in {"none", "queued", "superseded"}

NothingStarted ==
  /\ \A g \in Gen : state[g] = "none" => attempts[g] = <<>>
  /\ pc # "idle" => \A r \in Revisions : Waits(Generation(plan.context, r))
  /\ pending # None => \A r \in Revisions : Waits(Generation(pending.context, r))

SubmittedExists ==
  /\ pc \in {"record", "note"} => state[Planned] # "none"
  /\ pending # None /\ pending.phase = "submitted" =>
       state[Generation(pending.context, pending.revision)] # "none"

RecoveryInv == /\ DurableInv /\ NothingStarted /\ SubmittedExists
               /\ pending # None => unit = "planner"

LEMMA RecoveryInitInv == Init => RecoveryInv
  <1> SUFFICES ASSUME Init PROVE RecoveryInv
    OBVIOUS
  <1>1. pc = "idle" /\ pending = None /\ \A g \in Gen : attempts[g] = <<>>
    BY DEF Init, JobInit
  <1> QED BY <1>1, DurableInitInv DEF RecoveryInv, NothingStarted, SubmittedExists

\* What the planner works on, and what the journal says, are generations.
LEMMA RecoveryFacts ==
  ASSUME RecoveryInv
  PROVE  /\ DurableInv /\ IInv
         /\ pc # "idle" => /\ plan \in Submission /\ Planned \in Gen
                           /\ \A r \in Revisions : Generation(plan.context, r) \in Gen
         /\ pending # None =>
              /\ pending \in Submission /\ pending.revision \in Revisions
              /\ \A r \in Revisions : Generation(pending.context, r) \in Gen
  BY PlanFacts, GenerationIsGen DEF RecoveryInv, DurableInv, PlannerInv, Submission

\* No step of the planner starts a generation, and none forgets one.
LEMMA PlannerKeepsWaiting ==
  ASSUME RecoveryInv, PlanStep \/ CrashPlanner
  PROVE  \A g \in Gen : /\ Waits(g) => Waits(g)'
                        /\ state[g] # "none" => state'[g] # "none"
                        /\ attempts'[g] = attempts[g]
  <1>1. CASE UNCHANGED jobVars
    BY <1>1 DEF jobVars, Waits
  <1>2. CASE SubmitPlanned
    <2> DEFINE g == Generation(plan.context, plan.revision)
    <2>1. CASE Submit(g[1])
      <3>1. state' = [state EXCEPT ![<<g[1], 1>>] = "queued"] /\ UNCHANGED attempts
        BY <2>1 DEF Submit, Queue
      <3> HIDE DEF g
      <3> QED BY <3>1, RecoveryFacts DEF Waits, IInv, JobTypeOK
    <2> QED BY <1>1, <1>2, <2>1 DEF SubmitPlanned
  <1>3. CASE SupersedeOld
    <2> DEFINE old == Generation(pending.context, pending.revision)
    <2>1. CASE SetState(old, "superseded")
      <3>1. state' = [state EXCEPT ![old] = "superseded"] /\ UNCHANGED attempts
        BY <2>1 DEF SetState
      <3> HIDE DEF old
      <3> QED BY <3>1, RecoveryFacts DEF Waits, IInv, JobTypeOK
    <2> QED BY <1>1, <1>3, <2>1 DEF SupersedeOld
  <1> QED BY <1>1, <1>2, <1>3
          DEF PlanStep, Pause, PlanNothing, Prepare, Journal, Recover, RecoverCommitted, Record,
              Note, EmitInput, EmitContext, Show, Advance, Clear, CrashPlanner

\* The steps that keep the selection the planner and the journal are about.
LEMMA SelectionKept ==
  ASSUME RecoveryInv, DurableInv',
         \A g \in Gen : /\ Waits(g) => Waits(g)'
                        /\ state[g] # "none" => state'[g] # "none"
                        /\ state'[g] = "none" => attempts'[g] = attempts[g],
         pc' # "idle" => \/ pc # "idle" /\ plan' = plan
                         \/ pending # None /\ plan'.context = pending.context,
         pending' # None => \/ pending # None /\ pending' = pending
                            \/ pc # "idle" /\ pending'.context = plan.context,
         SubmittedExists', pending' # None => unit' = "planner"
  PROVE  RecoveryInv'
  <1>1. \A g \in Gen : state'[g] = "none" => attempts'[g] = <<>>
    BY DEF RecoveryInv, NothingStarted
  <1>2. pc' # "idle" => \A r \in Revisions : Waits(Generation(plan.context, r))'
    <2> SUFFICES ASSUME pc' # "idle", NEW r \in Revisions
                 PROVE  Waits(Generation(plan.context, r))'
      OBVIOUS
    <2> DEFINE g == Generation(plan'.context, r)
    <2>1. g \in Gen /\ Waits(g)
      BY RecoveryFacts DEF RecoveryInv, NothingStarted
    <2>2. attempts'[g] = <<>> /\ state'[g] \in {"none", "queued", "superseded"}
      BY <2>1 DEF Waits
    <2> QED BY <2>2 DEF Waits, Generation
  <1>3. pending' # None => \A r \in Revisions : Waits(Generation(pending.context, r))'
    <2> SUFFICES ASSUME pending' # None, NEW r \in Revisions
                 PROVE  Waits(Generation(pending.context, r))'
      OBVIOUS
    <2> DEFINE g == Generation(pending'.context, r)
    <2>1. g \in Gen /\ Waits(g)
      BY RecoveryFacts DEF RecoveryInv, NothingStarted
    <2>2. attempts'[g] = <<>> /\ state'[g] \in {"none", "queued", "superseded"}
      BY <2>1 DEF Waits
    <2> QED BY <2>2 DEF Waits, Generation
  <1> QED BY <1>1, <1>2, <1>3 DEF RecoveryInv, NothingStarted

\* A new selection is about a Context nothing has been submitted for.
LEMMA PrepareRecovery ==
  ASSUME RecoveryInv, DurableInv', Prepare
  PROVE  RecoveryInv'
  <1>1. /\ pc' = "journal" /\ pending = None /\ pending' = None /\ UNCHANGED jobVars
        /\ plan'.context = contexts + 1 /\ contexts < MaxContexts
    BY DEF Prepare, Step
  <1>2. contexts + 1 \in Contexts /\ contexts + 1 > contexts
    BY <1>1, PlannerBoundAssumption DEF Contexts, RecoveryInv, DurableInv, PlannerInv, PlannerTypeOK
  <1>3. \A r \in Revisions : Waits(Generation(contexts + 1, r))
    BY <1>2, GenerationIsGen
       DEF Waits, RecoveryInv, NothingStarted, DurableInv, PlannerInv, OnlyMade
  <1>4. \A g : Waits(g)' <=> Waits(g)
    BY <1>1 DEF Waits, jobVars
  <1>5. \A r \in Revisions : Waits(Generation(plan.context, r))'
    <2>1. \A r \in Revisions : Waits(Generation(plan'.context, r))
      BY <1>1, <1>3
    <2> QED BY <1>1, <2>1 DEF Waits, Generation, jobVars
  <1> QED BY <1>1, <1>5 DEF RecoveryInv, NothingStarted, SubmittedExists, jobVars

\* The other steps of the planner.
LEMMA PlannerRecovery ==
  ASSUME RecoveryInv, DurableInv', (PlanStep /\ ~Prepare) \/ CrashPlanner
  PROVE  RecoveryInv'
  <1>1. \A g \in Gen : /\ Waits(g) => Waits(g)'
                       /\ state[g] # "none" => state'[g] # "none"
                       /\ attempts'[g] = attempts[g]
    BY PlannerKeepsWaiting
  <1>2. pc # "idle" => unit = "planner"
    BY DEF RecoveryInv, DurableInv, DurableTypeOK
  <1>3. CASE Pause \/ PlanNothing \/ CrashPlanner \/ Clear
    <2>1. pc' = "idle" /\ pending' \in {None, pending} /\ (pending' # None => unit' = unit)
          /\ UNCHANGED jobVars
      BY <1>3 DEF Pause, PlanNothing, CrashPlanner, Clear, Leave
    <2>2. SubmittedExists' /\ (pending' # None => unit' = "planner")
      BY <2>1 DEF SubmittedExists, RecoveryInv, jobVars
    <2> QED BY <1>1, <2>1, <2>2, SelectionKept
  <1>4. CASE Journal
    <2>1. /\ pc = "journal" /\ pc' = "submit" /\ pending' = plan /\ plan' = plan
          /\ plan.phase = "prepared" /\ unit' = unit
      BY <1>4 DEF Journal, Step, RecoveryInv, DurableInv, PlannerInv, PlanJournaled
    <2>2. SubmittedExists'
      BY <2>1 DEF SubmittedExists
    <2> QED BY <1>1, <1>2, <2>1, <2>2, SelectionKept
  <1>5. CASE Recover \/ RecoverCommitted
    <2>1. /\ pending # None /\ pending' = pending /\ plan'.context = pending.context
          /\ pc' \in {"supersede", "submit", "anchor"} /\ UNCHANGED <<jobVars, unit>>
      BY <1>5, RecoveryFacts DEF Recover, RecoverCommitted, Step, Submission
    <2>2. SubmittedExists'
      BY <2>1 DEF SubmittedExists, RecoveryInv, jobVars
    <2> QED BY <1>1, <2>1, <2>2, SelectionKept DEF RecoveryInv
  <1>6. CASE SupersedeOld \/ SubmitPlanned \/ Record \/ EmitInput \/ EmitContext \/ Advance
    <2>1. /\ pc # "idle" /\ plan' = plan /\ pending' = pending /\ unit' = unit
          /\ pc' \in {"record", "note"} => SubmitPlanned \/ (UNCHANGED jobVars /\ pc = "record")
      BY <1>6 DEF SupersedeOld, SubmitPlanned, Record, EmitInput, EmitContext, Show, Advance, Step
    <2>2. SubmitPlanned => state'[Planned] # "none"
      <3> SUFFICES ASSUME SubmitPlanned PROVE state'[Planned] # "none"
        OBVIOUS
      <3>1. Planned = <<Planned[1], 1>> /\ Planned \in Gen
        BY <2>1, RecoveryFacts DEF Planned, Generation
      <3> QED BY <3>1, RecoveryFacts DEF SubmitPlanned, Planned, Submit, Queue, jobVars, IInv, JobTypeOK
    <2>3. Planned' = Planned
      BY <2>1 DEF Planned, Generation
    <2>4. SubmittedExists'
      <3>1. pc' \in {"record", "note"} => state'[Planned'] # "none"
        BY <2>1, <2>2, <2>3 DEF SubmittedExists, RecoveryInv, jobVars
      <3>2. pending # None /\ pending.phase = "submitted" =>
              state'[Generation(pending.context, pending.revision)] # "none"
        BY <1>1, RecoveryFacts DEF SubmittedExists, RecoveryInv
      <3> QED BY <2>1, <3>1, <3>2 DEF SubmittedExists, Generation
    <2> QED BY <1>1, <1>2, <2>1, <2>4, SelectionKept
  <1>7. CASE Note
    <2>1. /\ pc = "note" /\ pc' = "input" /\ plan' = plan /\ unit' = unit /\ UNCHANGED jobVars
          /\ pending' = [plan EXCEPT !.phase = "submitted"]
      BY <1>7 DEF Note, Step
    <2>2. pending'.context = plan.context /\ pending'.revision = plan.revision
      BY <2>1, RecoveryFacts DEF Submission
    <2>3. SubmittedExists'
      BY <2>1, <2>2 DEF SubmittedExists, RecoveryInv, Planned, Generation, jobVars
    <2> QED BY <1>1, <1>2, <2>1, <2>2, <2>3, SelectionKept
  <1> QED BY <1>3, <1>4, <1>5, <1>6, <1>7 DEF PlanStep

LEMMA RecoveryStepInv == RecoveryInv /\ [Next]_vars => RecoveryInv'
  <1> SUFFICES ASSUME RecoveryInv, [Next]_vars PROVE RecoveryInv'
    OBVIOUS
  <1>0. DurableInv' /\ IInv
    BY DurableStepInv, RecoveryFacts DEF RecoveryInv
  <1>1. CASE PlanStep \/ CrashPlanner
    BY <1>0, <1>1, PrepareRecovery, PlannerRecovery
  \* While a unit behind the planner runs there is no journal.
  <1>2. ASSUME NEW s \in Stages, StageStep(s) PROVE RecoveryInv'
    <2>1. /\ \A g \in Gen : state[g] \in Dead => state'[g] = state[g] /\ attempts'[g] = attempts[g]
          /\ IInv'
      BY <1>0, <1>2, WorkerKeepsDead
    <2>2. unit # "planner" /\ pc' = pc /\ pending' = pending
      BY <1>2 DEF StageStep, Stages
    <2>3. pc = "idle" /\ pending = None
      BY <2>2 DEF RecoveryInv, DurableInv, DurableTypeOK
    <2>4. \A g \in Gen : state'[g] = "none" => attempts'[g] = <<>>
      <3>1. ASSUME NEW g \in Gen, state'[g] = "none" PROVE state[g] = "none"
        BY <1>2, <3>1, WorkerNeverForgets, <1>0
      <3> QED BY <2>1, <3>1 DEF Dead, RecoveryInv, NothingStarted
    <2> QED BY <1>0, <2>2, <2>3, <2>4 DEF RecoveryInv, NothingStarted, SubmittedExists
  <1>3. ASSUME NEW g \in Gen, Reviewed(g) \/ Retired(g) PROVE RecoveryInv'
    <2>1. PICK new \in {"human_rejected", "superseded"} : state' = [state EXCEPT ![g] = new]
      BY <1>3 DEF Reviewed, Retired, Retire, SetState
    <2>2. /\ state[g] \in Stopped /\ UNCHANGED <<attempts, pc, plan, pending, unit>>
      BY <1>3 DEF Reviewed, Retired, Retire, SetState, Stopped, ownVars
    <2>3. \A h \in Gen : /\ Waits(h) => Waits(h)'
                         /\ state[h] # "none" => state'[h] # "none"
                         /\ state'[h] = "none" => attempts'[h] = attempts[h]
      BY <1>0, <2>1, <2>2 DEF Waits, Stopped, IInv, JobTypeOK
    <2>4. SubmittedExists'
      BY <2>2, <2>3, RecoveryFacts DEF SubmittedExists, RecoveryInv, Planned, Generation
    <2> QED BY <1>0, <2>2, <2>3, <2>4, SelectionKept DEF RecoveryInv
  <1>4. CASE Change \/ Tick \/ UNCHANGED vars
    <2>1. UNCHANGED jobVars /\ UNCHANGED <<unit, pc, plan, pending>>
      BY <1>4 DEF Change, Tick, vars, ownVars
    <2>2. SubmittedExists'
      BY <2>1 DEF SubmittedExists, RecoveryInv, Planned, Generation, jobVars
    <2>3. \A h \in Gen : /\ Waits(h) => Waits(h)'
                         /\ state[h] # "none" => state'[h] # "none"
                         /\ state'[h] = "none" => attempts'[h] = attempts[h]
      BY <2>1 DEF Waits, jobVars
    <2> QED BY <1>0, <2>1, <2>2, <2>3, SelectionKept DEF RecoveryInv
  <1> QED BY <1>1, <1>2, <1>3, <1>4 DEF Next, CycleStep

\* Whatever a planner that died has left, the next one does not raise over it:
\* the cursor fits, and what another revision replaces was never started.
THEOREM LeftoversAreAccepted == Spec => []RecoveryAccepted
  <1>1. RecoveryInv => RecoveryAccepted
    <2> SUFFICES ASSUME RecoveryInv, pending # None
                 PROVE  /\ unit = "planner" /\ cursor \in {pending.cycle, pending.cycle + 1}
                        /\ pending.phase = "submitted" =>
                             LET old == Generation(pending.context, pending.revision)
                             IN  state[old] = "superseded" \/ Unstarted(old)
      BY DEF RecoveryAccepted
    <2> DEFINE old == Generation(pending.context, pending.revision)
    <2>1. /\ unit = "planner" /\ cursor \in {pending.cycle, pending.cycle + 1}
          /\ old \in Gen /\ Waits(old) /\ output[old] \in [Stages -> Nat]
          /\ Linked(attempts[old], output[old])
      BY RecoveryFacts, Rows DEF RecoveryInv, DurableInv, PlanCarried, NothingStarted, IInv, GenOK
    <2>2. ASSUME pending.phase = "submitted", state[old] # "superseded" PROVE Unstarted(old)
      <3>1. state[old] = "queued" /\ attempts[old] = <<>>
        BY <2>1, <2>2 DEF Waits, RecoveryInv, SubmittedExists
      <3>2. Current(old)
        BY <2>1, <3>1, PlannerBoundAssumption DEF Current, Gen, Generation
      <3>3. Running(old) = {} /\ \A s \in Stages : output[old][s] = 0
        BY <2>1, <3>1 DEF Running, Linked
      <3> QED BY <3>1, <3>2, <3>3 DEF Unstarted
    <2> QED BY <2>1, <2>2
  <1> QED BY <1>1, RecoveryInitInv, RecoveryStepInv, PTL DEF Spec
====
