---- MODULE InputPlanner ----
(***************************************************************************)
(* ai_input_planner with planner_cadence, in front of the pre-review queue *)
(* (module PreReviewJob): plan_once chooses sources, stores their Context  *)
(* and submits one job for it.  The submission is a transaction over five  *)
(* files and a database, journaled in input-planner-pending.json; a        *)
(* planner that dies in it leaves the rest to a later run, which may run   *)
(* another software revision and hence build another recipe.               *)
(*                                                                         *)
(* The timer runs planner, generator, validator, reader and evaluator in   *)
(* this order, each only if the one before it succeeded; a worker takes at *)
(* most one generation per run.                                            *)
(*                                                                         *)
(* A Context is its number, a recipe the revision it is built for, a job   *)
(* the pair of both.  Time passes in half hours.                           *)
(***************************************************************************)
EXTENDS PreReviewJob

CONSTANTS Revisions,         \* the software revisions that get deployed
          Modes,             \* values of AI_INPUT_MODE
          None,
          HardBackpressure, TargetInflight,
          MaxContexts,       \* bound: plans that reach a Context
          MaxCycle,          \* bound: the cursor's cycle
          MaxClock,          \* bound: half hours
          MaxChanges,        \* bound: deployments and configuration changes
          MaxCrashes         \* bound: planner runs that fail half way

Contexts == 1..MaxContexts
ASSUME PlannerJobsAssumption == Jobs = Contexts \X Revisions
ASSUME PlannerBoundAssumption ==
  /\ MaxContexts \in Nat /\ MaxCycle \in Nat /\ MaxClock \in Nat \ {0}
  /\ MaxChanges \in Nat /\ MaxCrashes \in Nat
  /\ MaxGenerations = 1 /\ HardBackpressure \in Nat /\ TargetInflight \in Nat

VARIABLES unit,       \* the unit of the cycle that runs, or runs next
          pc, plan,   \* the planner process and the submission it holds in memory
          pending,    \* input-planner-pending.json
          cursor,     \* input-planner-state.json, known by its cycle
          last,       \* last_submission_at of input-planner-cadence.json, 0 for none
          shown,      \* the projection requests stored for each generation
          deployed, mode, clock,
          contexts,   \* the Contexts made so far
          anchor,     \* history: cadence_anchor_at of the plan for each Context, 0 for none
          unnoted,    \* history: generations submitted, but never noted in the journal
          changes, crashes

ownVars == <<unit, pc, plan, pending, cursor, last, shown, deployed, mode, clock,
             contexts, anchor, unnoted, changes, crashes>>
vars == <<jobVars, ownVars>>

Generation(c, r) == <<<<c, r>>, 1>>
Revision(g) == g[1][2]
Submission == [context : Contexts, revision : Revisions, cycle : 0..MaxCycle,
               anchor : 1..MaxClock, mode : Modes, phase : {"prepared", "submitted"}]

ASSUME NoneAssumption == None \notin Submission

Init ==
  /\ JobInit
  /\ unit = "planner" /\ pc = "idle" /\ plan = None /\ pending = None
  /\ cursor = 0 /\ last = 0 /\ shown = [g \in Gen |-> {}]
  /\ deployed \in Revisions /\ mode \in Modes /\ clock = 1
  /\ contexts = 0 /\ anchor = [c \in Contexts |-> 0] /\ unnoted = {}
  /\ changes = 0 /\ crashes = 0

-----------------------------------------------------------------------------
\* What plan_once looks at before it plans anything new.
CurrentStates(S) == Cardinality({g \in Gen : Current(g) /\ state[g] \in S})
ActiveJobStates == ActiveStates \cup {"queued", "awaiting_human_review", "approved_pending_execution"}
Unhealthy == CurrentStates({"blocked", "retry_exhausted"}) > 0

\* cadence_interval_seconds: 60, 90 and 180 minutes.
Interval(awaiting) == CASE awaiting = 0 -> 2 [] awaiting = 1 -> 3 [] OTHER -> 6

\* Mutant: the cooldown is that of an empty backlog.
ShortCooldown == last = 0 \/ clock >= last + Interval(0)

\* cadence_snapshot.
Eligible == last = 0 \/ clock >= last + Interval(Awaiting)

MayPlan == /\ ~Unhealthy /\ Awaiting < HardBackpressure
           /\ CurrentStates(ActiveJobStates) < TargetInflight
           /\ Eligible

Step(from, to) == pc = from /\ pc' = to
Leave == pc' = "idle" /\ plan' = None /\ unit' = "generation"
Environment == <<deployed, mode, clock, changes, crashes>>

\* A run with no submission left over that stops at a gate, or skips a
\* selection that is not new (semantic mode).
Pause ==
  /\ unit = "planner" /\ pc = "idle" /\ pending = None
  /\ ~MayPlan \/ mode # "legacy"
  /\ Leave
  /\ UNCHANGED <<jobVars, pending, cursor, last, shown, contexts, anchor, unnoted, Environment>>

\* No eligible sources: only the cursor moves.
PlanNothing ==
  /\ unit = "planner" /\ pc = "idle" /\ pending = None /\ MayPlan /\ mode = "legacy"
  /\ cursor < MaxCycle /\ cursor' = cursor + 1
  /\ Leave
  /\ UNCHANGED <<jobVars, pending, last, shown, contexts, anchor, unnoted, Environment>>

\* Sources are chosen, their Context and selection stored.
Prepare ==
  /\ unit = "planner" /\ pending = None /\ MayPlan
  /\ contexts < MaxContexts /\ cursor < MaxCycle
  /\ Step("idle", "journal")
  /\ contexts' = contexts + 1
  /\ plan' = [context |-> contexts + 1, revision |-> deployed, cycle |-> cursor,
              anchor |-> clock, mode |-> mode, phase |-> "prepared"]
  /\ UNCHANGED <<jobVars, unit, pending, cursor, last, shown, anchor, unnoted, Environment>>

\* _store_pending before the submission.
Journal ==
  /\ Step("journal", "submit")
  /\ pending' = plan
  /\ anchor' = [anchor EXCEPT ![plan.context] = plan.anchor]
  /\ UNCHANGED <<jobVars, unit, plan, cursor, last, shown, contexts, unnoted, Environment>>

\* Mutant: a submission that was noted is taken up as it is.
RecoverAsNoted ==
  /\ unit = "planner" /\ pending # None /\ pending.mode = mode
  /\ cursor = pending.cycle
  /\ plan' = [pending EXCEPT !.revision = deployed]
  /\ Step("idle", "submit")
  /\ UNCHANGED <<jobVars, unit, pending, cursor, last, shown, contexts, anchor, unnoted, Environment>>

\* Mutant: what was noted is taken for shown.
RecoverAsShown ==
  /\ unit = "planner" /\ pending # None /\ pending.mode = mode
  /\ cursor = pending.cycle
  /\ plan' = [pending EXCEPT !.revision = deployed]
  /\ Step("idle", IF pending.phase = "prepared" THEN "submit"
                  ELSE IF pending.revision # deployed THEN "supersede" ELSE "advance")
  /\ UNCHANGED <<jobVars, unit, pending, cursor, last, shown, contexts, anchor, unnoted, Environment>>

\* _recover_pending_submission: the recipe is built again, for the revision
\* that runs now.  Another mode, or a cursor the journal does not know, raises.
Recover ==
  /\ unit = "planner" /\ pending # None /\ pending.mode = mode
  /\ cursor = pending.cycle
  /\ plan' = [pending EXCEPT !.revision = deployed]
  /\ Step("idle", IF pending.phase = "submitted" /\ pending.revision # deployed
                  THEN "supersede" ELSE "submit")
  /\ UNCHANGED <<jobVars, unit, pending, cursor, last, shown, contexts, anchor, unnoted, Environment>>

\* The cursor was stored already: what is left is the cadence and the journal.
RecoverCommitted ==
  /\ unit = "planner" /\ pending # None /\ pending.mode = mode
  /\ cursor = pending.cycle + 1
  /\ plan' = pending
  /\ Step("idle", "anchor")
  /\ UNCHANGED <<jobVars, unit, pending, cursor, last, shown, contexts, anchor, unnoted, Environment>>

\* Mutant: a supersession is not found again.
SupersedeOnce == LET old == Generation(pending.context, pending.revision) IN
  /\ Step("supersede", "submit")
  /\ Unstarted(old) /\ SetState(old, "superseded") /\ UNCHANGED <<retries, manual>>
  /\ UNCHANGED <<unit, plan, pending, cursor, last, shown, contexts, anchor, unnoted, Environment>>

\* supersede_unstarted_generation with planner_revision_replaced; repeated, it
\* finds its own supersession.
SupersedeOld == LET old == Generation(pending.context, pending.revision) IN
  /\ Step("supersede", "submit")
  /\ \/ state[old] = "superseded" /\ UNCHANGED jobVars
     \/ Unstarted(old) /\ SetState(old, "superseded") /\ UNCHANGED <<retries, manual>>
  /\ UNCHANGED <<unit, plan, pending, cursor, last, shown, contexts, anchor, unnoted, Environment>>

\* submit_job, which returns the generation of a job it knows.
SubmitPlanned == LET g == Generation(plan.context, plan.revision) IN
  /\ Step("submit", "record")
  /\ IF state[g] = "none" THEN Submit(g[1]) ELSE UNCHANGED jobVars
  /\ unnoted' = unnoted \cup {g}
  /\ UNCHANGED <<unit, plan, pending, cursor, last, shown, contexts, anchor, Environment>>

\* record_submission never moves the clock back.
Record ==
  /\ pc \in {"record", "anchor"}
  /\ pc' = IF pc = "record" THEN "note" ELSE "clear"
  /\ last' = IF plan.anchor < last THEN last ELSE plan.anchor
  /\ UNCHANGED <<jobVars, unit, plan, pending, cursor, shown, contexts, anchor, unnoted, Environment>>

\* _store_pending after the submission.
Note ==
  /\ Step("note", "input")
  /\ pending' = [plan EXCEPT !.phase = "submitted"]
  /\ unnoted' = unnoted \ {Generation(plan.context, plan.revision)}
  /\ UNCHANGED <<jobVars, unit, plan, cursor, last, shown, contexts, anchor, Environment>>

Show(kind, from, to) ==
  /\ Step(from, to)
  /\ shown' = [shown EXCEPT ![Generation(plan.context, plan.revision)] = @ \cup {kind}]
  /\ UNCHANGED <<jobVars, unit, plan, pending, cursor, last, contexts, anchor, unnoted, Environment>>

\* emit_input_projection, then the emission for the Context of either mode.
EmitInput == Show("input", "input", "context")
EmitContext == Show("context", "context", "advance")

\* _store_state with the next state.
Advance ==
  /\ Step("advance", "clear")
  /\ cursor' = plan.cycle + 1
  /\ UNCHANGED <<jobVars, unit, plan, pending, last, shown, contexts, anchor, unnoted, Environment>>

\* _clear_pending, and the planner exits with success.
Clear ==
  /\ pc = "clear" /\ pending' = None /\ Leave
  /\ UNCHANGED <<jobVars, cursor, last, shown, contexts, anchor, unnoted, Environment>>

\* The planner dies, or a store, a submission or an emission raises: the unit
\* fails, and the cycle starts again with it.
CrashPlanner ==
  /\ pc # "idle" /\ crashes < MaxCrashes /\ crashes' = crashes + 1
  /\ pc' = "idle" /\ plan' = None
  /\ UNCHANGED <<jobVars, unit, pending, cursor, last, shown, deployed, mode, clock,
                 contexts, anchor, unnoted, changes>>

PlanStep ==
  \/ Pause \/ PlanNothing \/ Prepare \/ Journal
  \/ Recover \/ RecoverCommitted \/ SupersedeOld \/ SubmitPlanned \/ Record
  \/ Note \/ EmitInput \/ EmitContext \/ Advance \/ Clear

-----------------------------------------------------------------------------
After(s) == CASE s = "generation" -> "validation"
              [] s = "validation" -> "evaluation_context"
              [] s = "evaluation_context" -> "evaluation"
              [] s = "evaluation" -> "planner"

\* _component_preflight: the models' workers refuse a recipe of another revision.
Mismatch(s, g) == s \in {"generation", "evaluation"} /\ Revision(g) # deployed

\* One run of a stage's worker, claim and report; its failures and deaths are
\* the subject of PreReviewJob.
StageStep(s) ==
  /\ unit = s
  /\ \/ ClaimStage(s, s)
     \/ work[s] # Idle /\ Complete(s, IF Mismatch(s, work[s][1]) THEN "blocked" ELSE "succeeded")
  /\ unit' = IF work'[s] = Idle THEN After(s) ELSE s
  /\ UNCHANGED <<pc, plan, pending, cursor, last, shown, contexts, anchor, unnoted, Environment>>

\* reconcile_post_review has learnt how the review ended (module PostReview).
Reviewed(g) ==
  /\ Current(g) /\ state[g] = "awaiting_human_review"
  /\ SetState(g, "human_rejected") /\ UNCHANGED <<retries, manual, ownVars>>

\* An operator retires a generation a worker refused.
Retired(g) == Retire(g) /\ UNCHANGED ownVars

\* Between two runs of the cycle the updater deploys another revision, or the
\* configuration of the planner is changed; both are read when a unit starts.
Change ==
  /\ pc = "idle" /\ changes < MaxChanges /\ changes' = changes + 1
  /\ \A s \in Stages : work[s] = Idle
  /\ \/ \E r \in Revisions \ {deployed} : deployed' = r /\ UNCHANGED mode
     \/ \E m \in Modes \ {mode} : mode' = m /\ UNCHANGED deployed
  /\ UNCHANGED <<jobVars, unit, pc, plan, pending, cursor, last, shown, clock, contexts,
                 anchor, unnoted, crashes>>

\* Time that passes while something runs counts when the planner starts.
Tick ==
  /\ unit = "planner" /\ pc = "idle" /\ clock < MaxClock /\ clock' = clock + 1
  /\ UNCHANGED <<jobVars, unit, pc, plan, pending, cursor, last, shown, deployed, mode,
                 contexts, anchor, unnoted, changes, crashes>>

CycleStep == PlanStep \/ \E s \in Stages : StageStep(s)

Next == \/ CycleStep \/ CrashPlanner \/ Change \/ Tick
        \/ \E g \in Gen : Reviewed(g) \/ Retired(g)

\* A unit that was started goes on, and the timer starts the cycle again.
Spec == Init /\ [][Next]_vars /\ WF_vars(CycleStep)

-----------------------------------------------------------------------------
Live(c) == {r \in Revisions : state[Generation(c, r)] \notin {"none", "superseded"}}
Noted(c) == {r \in Live(c) : Generation(c, r) \notin unnoted}

\* A selection is worked on by one revision only: recovery under another
\* revision supersedes the generation the journal had noted, in whatever step
\* the run before it died.
OneNoted == \A c \in Contexts : \A q, r \in Noted(c) : q = r

\* docs/ai-input-planner.md:149 says it of every generation that was submitted,
\* noted or not.
OneGeneration == \A c \in Contexts : \A q, r \in Live(c) : q = r

\* The journal is cleared only after everything it promises is durable: each
\* selection that is not in it any more has counted in the cursor and in the
\* cadence, and both requests for its noted generation are stored.
ClearedComplete ==
  \A c \in Contexts :
    anchor[c] # 0 /\ (pending = None \/ pending.context # c) =>
      /\ last >= anchor[c] /\ cursor > 0
      /\ \A r \in Noted(c) : shown[Generation(c, r)] = {"input", "context"}

\* Restarts never reset the cooldown: a new submission is journaled only when
\* the interval, for the reviews that wait, has passed since every earlier one.
CooldownKept ==
  [][\A c \in Contexts : anchor[c] = 0 /\ anchor'[c] # 0 =>
       \A d \in Contexts : anchor[d] # 0 => anchor'[c] >= anchor[d] + Interval(Awaiting)]_vars

\* Whatever a dead planner leaves, the next one can take up: no worker has come
\* between, the cursor is one the journal accounts for, and the generation
\* another revision would replace is one supersede_unstarted_generation accepts.
RecoveryAccepted ==
  pending # None =>
    /\ unit = "planner" /\ cursor \in {pending.cycle, pending.cycle + 1}
    /\ pending.phase = "submitted" =>
         LET old == Generation(pending.context, pending.revision)
         IN  state[old] = "superseded" \/ Unstarted(old)

\* No crash and no deployment strands a journaled submission; only a mode that
\* is not the one it was planned in keeps it.
SubmissionEnds == pending # None ~> (pending = None \/ pending.mode # mode)
====
