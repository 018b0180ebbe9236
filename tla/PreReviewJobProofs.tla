---- MODULE PreReviewJobProofs ----
(***************************************************************************)
(* Theorems of the pre-review queue (module PreReviewJob) for any number   *)
(* of jobs, processes, attempts and deaths.  The invariant speaks of one   *)
(* generation at a time, as every transaction of the queue rewrites rows   *)
(* of a generation by a few moves: a change of state, the recovery of a    *)
(* running attempt, a new attempt, a completion.  Each move is a lemma.    *)
(***************************************************************************)
EXTENDS PreReviewJob, FiniteSetTheorems, TLAPS

Failures == {"retryable_failure", "retry_exhausted", "blocked"}

\* The rows of one generation: its state, its attempts and its outputs.
RunningIsLast(st, at) ==
  \A i \in DOMAIN at : at[i].status = "running" =>
                         i = Len(at) /\ st = Active(at[i].stage)

Linked(at, out) ==
  \A s \in Stages :
    /\ \A i \in DOMAIN at : at[i] = [stage |-> s, status |-> "succeeded"] => out[s] = i
    /\ out[s] # 0 => /\ out[s] \in DOMAIN at
                     /\ at[out[s]] = [stage |-> s, status |-> "succeeded"]
                     /\ \A t \in Stages : Precedes(t, s) => out[t] # 0

\* A stage that is to be done, or was tried last and failed, has no output.
Undone(st, at, out) ==
  /\ \A s \in Stages : st \in {"none", Expected(s), Active(s)} => out[s] = 0
  /\ st \in Failures => at # <<>> /\ out[at[Len(at)].stage] = 0

GenOK(st, at, out) == RunningIsLast(st, at) /\ Linked(at, out) /\ Undone(st, at, out)

\* What a process works on is an attempt that exists.
WorkExists ==
  \A p \in Processes : work[p] # Idle => work[p][2] \in DOMAIN attempts[work[p][1]]

IInv == /\ JobTypeOK /\ WorkExists
        /\ \A g \in Gen : GenOK(state[g], attempts[g], output[g])

-----------------------------------------------------------------------------

LEMMA StageStates ==
  /\ \A s \in Stages : Active(s) \in ActiveStates /\ Success(s) \in States
  /\ \A s \in Stages : Expected(s) \in ActiveStates \cup {"queued"}
  /\ \A s, t \in Stages : Active(s) \in {Active(t), Expected(t)} => s = t
  /\ \A s, t \in Stages : Expected(s) \in {Active(t), Expected(t)} => s = t
  BY DEF Stages, Active, Expected, Success, ActiveStates, States, Stopped

\* The state of a success belongs to the next stage only, or to none.
LEMMA SuccessPrecedes ==
  \A s, t \in Stages :
    Success(s) \in {"none", Active(t), Expected(t)} => Precedes(s, t)
  BY DEF Stages, Active, Expected, Success, Precedes

\* A change of state, where no attempt is running.
LEMMA MoveState ==
  ASSUME NEW at \in Seq(Attempt), NEW out \in [Stages -> Nat], NEW st, NEW new,
         GenOK(st, at, out),
         \A i \in DOMAIN at : at[i].status # "running",
         \A s \in Stages : new \in {"none", Expected(s), Active(s)} => out[s] = 0,
         new \in Failures => at # <<>> /\ out[at[Len(at)].stage] = 0
  PROVE  GenOK(new, at, out)
  BY DEF GenOK, RunningIsLast, Undone

\* A new attempt of a stage that is to be done.
LEMMA MoveTake ==
  ASSUME NEW at \in Seq(Attempt), NEW out \in [Stages -> Nat], NEW st, NEW s \in Stages,
         Linked(at, out), out[s] = 0,
         \A i \in DOMAIN at : at[i].status # "running"
  PROVE  GenOK(Active(s), Append(at, [stage |-> s, status |-> "running"]), out)
  <1> DEFINE a == [stage |-> s, status |-> "running"]
             new == Append(at, a)
  <1>1. /\ a \in Attempt /\ new \in Seq(Attempt) /\ Len(new) = Len(at) + 1
        /\ DOMAIN new = DOMAIN at \cup {Len(new)}
        /\ new[Len(new)] = a /\ Len(new) \notin DOMAIN at
        /\ \A i \in DOMAIN at : new[i] = at[i]
    <2>1. a \in Attempt
      BY DEF Attempt
    <2> HIDE DEF a
    <2> QED BY <2>1
  <1> HIDE DEF new
  <1>2. RunningIsLast(Active(s), new)
    BY <1>1 DEF RunningIsLast
  <1>3. Linked(new, out)
    <2>1. \A t \in Stages : a # [stage |-> t, status |-> "succeeded"]
      OBVIOUS
    <2>2. PICK n : DOMAIN new = DOMAIN at \cup {n} /\ new[n] = a /\ n \notin DOMAIN at
      BY <1>1
    <2> HIDE DEF a
    <2> QED BY <1>1, <2>1, <2>2 DEF Linked
  <1>4. Undone(Active(s), new, out)
    BY StageStates DEF Undone, ActiveStates, Failures
  <1> QED BY <1>2, <1>3, <1>4 DEF GenOK, new

\* The end of the running attempt.
LEMMA MoveComplete ==
  ASSUME NEW at \in Seq(Attempt), NEW out \in [Stages -> Nat], NEW st,
         NEW i \in DOMAIN at, NEW o \in Outcomes,
         GenOK(st, at, out), at[i].status = "running",
         o = "succeeded" => \A t \in Stages : Precedes(t, at[i].stage) => out[t] # 0
  PROVE  GenOK(StateAfter(at[i].stage, o), [at EXCEPT ![i].status = o],
               IF o = "succeeded" THEN [out EXCEPT ![at[i].stage] = i] ELSE out)
  <1> DEFINE s == at[i].stage
             new == [at EXCEPT ![i].status = o]
             sel == IF o = "succeeded" THEN [out EXCEPT ![s] = i] ELSE out
  <1>1. /\ s \in Stages /\ at[i] \in Attempt /\ i \in Nat \ {0} /\ i = Len(at)
        /\ st = Active(s) /\ out[s] = 0
    <2>1. at[i] \in Attempt /\ i \in Nat \ {0}
      OBVIOUS
    <2>4. s \in Stages
      BY <2>1 DEF Attempt
    <2>2. i = Len(at) /\ st = Active(s)
      BY DEF GenOK, RunningIsLast
    <2>3. \A t \in Stages : st = Active(t) => out[t] = 0
      BY DEF GenOK, Undone
    <2> QED BY <2>1, <2>2, <2>3, <2>4
  <1>2. /\ DOMAIN new = DOMAIN at /\ Len(new) = Len(at)
        /\ new[i] = [stage |-> s, status |-> o]
        /\ \A j \in DOMAIN at \ {i} : new[j] = at[j]
    BY <1>1 DEF Attempt
  <1>3. /\ sel \in [Stages -> Nat]
        /\ o = "succeeded" => sel[s] = i
        /\ o # "succeeded" => sel[s] = 0
        /\ \A t \in Stages \ {s} : sel[t] = out[t]
    BY <1>1
  <1> HIDE DEF new, sel, s
  <1>4. RunningIsLast(StateAfter(s, o), new)
    BY <1>1, <1>2 DEF GenOK, RunningIsLast, Outcomes
  <1>5. Linked(new, sel)
    <2> SUFFICES ASSUME NEW t \in Stages
                 PROVE  /\ \A j \in DOMAIN new : new[j] = [stage |-> t, status |-> "succeeded"] => sel[t] = j
                        /\ sel[t] # 0 => /\ sel[t] \in DOMAIN new
                                         /\ new[sel[t]] = [stage |-> t, status |-> "succeeded"]
                                         /\ \A u \in Stages : Precedes(u, t) => sel[u] # 0
      BY DEF Linked
    <2>1. \A u \in Stages : out[u] # 0 => sel[u] # 0
      BY <1>1, <1>3
    <2>2. CASE t = s
      BY <1>1, <1>2, <1>3, <2>1, <2>2 DEF GenOK, Linked, s
    <2>3. CASE t # s
      BY SMTT(40), <1>1, <1>2, <1>3, <2>1, <2>3 DEF GenOK, Linked
    <2> QED BY <2>2, <2>3
  <1>6. Undone(StateAfter(s, o), new, sel)
    <2>1. CASE o = "succeeded"
      <3>1. \A t \in Stages : Precedes(s, t) => s # t /\ out[t] = 0
        BY <1>1 DEF GenOK, Linked, Precedes, Stages
      <3>2. Success(s) \notin Failures
        BY <1>1 DEF Success, Stages, Failures
      <3> QED BY <2>1, <3>1, <3>2, <1>1, <1>3, SuccessPrecedes DEF Undone, StateAfter
    <2>2. CASE o # "succeeded"
      <3>1. \A t \in Stages : o \notin {"none", Active(t), Expected(t)}
        BY <2>2 DEF Outcomes, Stages, Active, Expected
      <3> QED BY <2>2, <3>1, <1>1, <1>2, <1>3 DEF Undone, StateAfter
    <2> QED BY <2>1, <2>2
  <1> QED BY <1>4, <1>5, <1>6 DEF GenOK, new, sel, s

\* The recovery of a claim: a running attempt of stage s is interrupted.
Interrupted(at, s) == [i \in DOMAIN at |-> IF at[i] = [stage |-> s, status |-> "running"]
                                           THEN [stage |-> s, status |-> "interrupted"] ELSE at[i]]

LEMMA RecoverRows ==
  ASSUME NEW at \in Seq(Attempt), NEW s \in Stages
  PROVE  /\ Interrupted(at, s) \in Seq(Attempt)
         /\ Len(Interrupted(at, s)) = Len(at) /\ DOMAIN Interrupted(at, s) = DOMAIN at
         /\ \A i \in DOMAIN at :
              /\ Interrupted(at, s)[i] \in Attempt /\ Interrupted(at, s)[i].stage = at[i].stage
              /\ Interrupted(at, s)[i].status \in {at[i].status, "interrupted"}
              /\ at[i].status # "running" => Interrupted(at, s)[i] = at[i]
              /\ at[i].stage = s => Interrupted(at, s)[i].status # "running"
  <1> DEFINE new == Interrupted(at, s)
  <1>1. /\ DOMAIN at = 1..Len(at) /\ Len(at) \in Nat
        /\ \A i \in DOMAIN at : at[i] \in Attempt
    OBVIOUS
  <1>2. \A i \in DOMAIN at : new[i] \in Attempt
    BY <1>1 DEF Interrupted, Attempt
  <1>3. new \in [1..Len(at) -> Attempt]
    BY <1>1, <1>2 DEF Interrupted
  <1>4. new \in Seq(Attempt) /\ Len(new) = Len(at) /\ DOMAIN new = DOMAIN at
    BY <1>1, <1>3
  <1>5. \A i \in DOMAIN at :
          /\ new[i].stage = at[i].stage
          /\ new[i].status \in {at[i].status, "interrupted"}
          /\ at[i].status # "running" => new[i] = at[i]
          /\ at[i].stage = s => new[i].status # "running"
    BY <1>1 DEF Interrupted, Attempt
  <1> QED BY <1>2, <1>4, <1>5

LEMMA MoveRecover ==
  ASSUME NEW at \in Seq(Attempt), NEW out \in [Stages -> Nat], NEW st, NEW s \in Stages,
         GenOK(st, at, out),
         NEW i \in DOMAIN at, at[i] = [stage |-> s, status |-> "running"]
  PROVE  GenOK("retryable_failure", Interrupted(at, s), out)
  <1> DEFINE new == Interrupted(at, s)
  <1>1. i = Len(at) /\ st = Active(s) /\ out[s] = 0 /\ at # <<>>
    <2>1. i = Len(at) /\ st = Active(s)
      BY DEF GenOK, RunningIsLast
    <2>2. \A t \in Stages : st = Active(t) => out[t] = 0
      BY DEF GenOK, Undone
    <2> QED BY <2>1, <2>2
  <1>2. /\ Len(new) = Len(at) /\ DOMAIN new = DOMAIN at
        /\ \A j \in DOMAIN at :
             /\ new[j] \in Attempt /\ new[j].stage = at[j].stage
             /\ new[j].status \in {at[j].status, "interrupted"}
             /\ at[j].status # "running" => new[j] = at[j]
             /\ at[j].stage = s => new[j].status # "running"
    BY RecoverRows
  <1> HIDE DEF new
  <1>3. \A j \in DOMAIN new : new[j].status # "running"
    <2>1. \A j \in DOMAIN at : at[j].status = "running" => j = i
      BY <1>1 DEF GenOK, RunningIsLast
    <2> QED BY <1>2, <2>1
  <1>4. Linked(new, out)
    <2>1. \A j \in DOMAIN at, t \in Stages :
            new[j] = [stage |-> t, status |-> "succeeded"] <=>
              at[j] = [stage |-> t, status |-> "succeeded"]
      <3> TAKE j \in DOMAIN at, t \in Stages
      <3>1. CASE at[j].status = "running"
        BY <1>2, <3>1
      <3>2. CASE at[j].status # "running"
        BY <1>2, <3>2
      <3> QED BY <3>1, <3>2
    <2>2. DOMAIN new = DOMAIN at
      BY <1>2
    <2>3. /\ \A t \in Stages : \A j \in DOMAIN at :
                at[j] = [stage |-> t, status |-> "succeeded"] => out[t] = j
          /\ \A t \in Stages : out[t] # 0 =>
               /\ out[t] \in DOMAIN at
               /\ at[out[t]] = [stage |-> t, status |-> "succeeded"]
               /\ \A u \in Stages : Precedes(u, t) => out[u] # 0
      BY Zenon DEF GenOK, Linked
    <2> HIDE DEF Precedes
    <2>4. ASSUME NEW t \in Stages
          PROVE  /\ \A j \in DOMAIN new :
                       new[j] = [stage |-> t, status |-> "succeeded"] => out[t] = j
                 /\ out[t] # 0 => /\ out[t] \in DOMAIN new
                                  /\ new[out[t]] = [stage |-> t, status |-> "succeeded"]
                                  /\ \A u \in Stages : Precedes(u, t) => out[u] # 0
      <3>1. ASSUME NEW j \in DOMAIN new, new[j] = [stage |-> t, status |-> "succeeded"]
            PROVE  out[t] = j
        BY <2>1, <2>2, <2>3, <3>1, Zenon
      <3>2. ASSUME out[t] # 0
            PROVE  /\ out[t] \in DOMAIN new
                   /\ new[out[t]] = [stage |-> t, status |-> "succeeded"]
                   /\ \A u \in Stages : Precedes(u, t) => out[u] # 0
        BY <2>1, <2>2, <2>3, <3>2, Zenon
      <3> QED BY <3>1, <3>2, Zenon
    <2> QED BY <2>4, Zenon DEF Linked
  <1>5. Undone("retryable_failure", new, out)
    <2>1. \A t \in Stages : "retryable_failure" \notin {"none", Active(t), Expected(t)}
      BY DEF Stages, Active, Expected
    <2>2. Len(new) = i /\ new[i].stage = s /\ i \in 1..Len(new)
      BY <1>1, <1>2
    <2>3. new # <<>>
      BY <2>2
    <2> QED BY <1>1, <2>1, <2>2, <2>3 DEF Undone
  <1> QED BY <1>3, <1>4, <1>5 DEF GenOK, RunningIsLast, new

-----------------------------------------------------------------------------

LEMMA InitIInv == JobInit => IInv
  <1> SUFFICES ASSUME JobInit PROVE IInv
    OBVIOUS
  <1>1. JobTypeOK
    BY JobBoundAssumption DEF JobInit, JobTypeOK, States
  <1>2. WorkExists
    BY DEF JobInit, WorkExists
  <1>3. ASSUME NEW g \in Gen PROVE GenOK(state[g], attempts[g], output[g])
    BY DEF JobInit, GenOK, RunningIsLast, Linked, Undone, Failures
  <1> QED BY <1>1, <1>2, <1>3 DEF IInv

LEMMA GenFinite == IsFiniteSet(Gen)
  <1>1. IsFiniteSet(1..MaxGenerations)
    BY JobBoundAssumption, FS_Interval
  <1> QED BY <1>1, JobsAssumption, FS_Product DEF Gen

\* The rows of a generation have their types, and so has its last attempt.
LEMMA Rows ==
  ASSUME JobTypeOK, NEW g \in Gen
  PROVE  /\ state[g] \in States /\ attempts[g] \in Seq(Attempt)
         /\ output[g] \in [Stages -> Nat]
         /\ attempts[g] # <<>> => LastAttempt(g) \in Attempt /\ LastAttempt(g).stage \in Stages
  <1>1. state[g] \in States /\ attempts[g] \in Seq(Attempt) /\ output[g] \in [Stages -> Nat]
    BY DEF JobTypeOK
  <1>2. attempts[g] # <<>> => LastAttempt(g) \in Attempt
    BY <1>1 DEF LastAttempt
  <1> QED BY <1>1, <1>2 DEF Attempt

\* A generation outside the four stages has no running attempt.
LEMMA InactiveRests ==
  ASSUME IInv, NEW g \in Gen, state[g] \notin ActiveStates
  PROVE  \A i \in DOMAIN attempts[g] : attempts[g][i].status # "running"
  <1> SUFFICES ASSUME NEW i \in DOMAIN attempts[g], attempts[g][i].status = "running"
               PROVE FALSE
    OBVIOUS
  <1>1. attempts[g][i].stage \in Stages
    <2>1. attempts[g] \in Seq(Attempt)
      BY Rows DEF IInv
    <2>2. attempts[g][i] \in Attempt
      BY <2>1
    <2> QED BY <2>2 DEF Attempt
  <1>2. state[g] = Active(attempts[g][i].stage)
    BY DEF IInv, GenOK, RunningIsLast
  <1> QED BY <1>1, <1>2, StageStates

\* The manual operations and the submission change the state of one row.
LEMMA StateChanged ==
  ASSUME IInv, NEW g \in Gen, NEW new \in States,
         state' = [state EXCEPT ![g] = new], UNCHANGED <<attempts, output, work>>,
         \A i \in DOMAIN attempts[g] : attempts[g][i].status # "running",
         Undone(new, attempts[g], output[g])
  PROVE  /\ state' \in [Gen -> States] /\ WorkExists'
         /\ \A h \in Gen : GenOK(state'[h], attempts'[h], output'[h])
  <1>1. state' \in [Gen -> States] /\ WorkExists'
    BY DEF IInv, JobTypeOK, WorkExists
  <1>2. GenOK(new, attempts[g], output[g])
    BY DEF IInv, GenOK, RunningIsLast
  <1>3. /\ state'[g] = new
        /\ \A h \in Gen \ {g} : state'[h] = state[h]
    BY DEF IInv, JobTypeOK
  <1> QED BY <1>1, <1>2, <1>3 DEF IInv

LEMMA QueueStep ==
  ASSUME IInv, NEW g \in Gen, state[g] = "none", Queue(g), manual' \in 0..MaxManual
  PROVE  IInv'
  <1>1. Undone("queued", attempts[g], output[g])
    BY DEF IInv, GenOK, Undone, Failures
  <1>2. \A i \in DOMAIN attempts[g] : attempts[g][i].status # "running"
    BY InactiveRests DEF ActiveStates
  <1>3. Cardinality({h \in Gen : born[h] # 0}) \in Nat
    BY GenFinite, FS_Subset, FS_CardinalityType
  <1>4. JobTypeOK'
    BY <1>3 DEF IInv, JobTypeOK, Queue, States
  <1>5. WorkExists' /\ \A h \in Gen : GenOK(state'[h], attempts'[h], output'[h])
    BY <1>1, <1>2, StateChanged DEF Queue, States
  <1> QED BY <1>4, <1>5 DEF IInv

LEMMA SetStateStep ==
  ASSUME IInv, NEW g \in Gen, NEW new \in States, SetState(g, new), Running(g) = {},
         Undone(new, attempts[g], output[g]),
         manual' \in 0..MaxManual, retries' \in [Gen -> Nat]
  PROVE  IInv'
  <1>1. \A i \in DOMAIN attempts[g] : attempts[g][i].status # "running"
    BY DEF Running
  <1>2. /\ state' \in [Gen -> States] /\ WorkExists'
        /\ \A h \in Gen : GenOK(state'[h], attempts'[h], output'[h])
    BY <1>1, StateChanged DEF SetState
  <1> QED BY <1>2 DEF IInv, JobTypeOK, SetState

-----------------------------------------------------------------------------

\* The tables after the recovery at the head of a claim are sound again.
LEMMA RecoveredSound ==
  ASSUME IInv, NEW s \in Stages, NEW g \in Gen
  PROVE  /\ RecoveredState(s)[g] \in States
         /\ RecoveredAttempts(s)[g] \in Seq(Attempt)
         /\ DOMAIN RecoveredAttempts(s)[g] = DOMAIN attempts[g]
         /\ Len(RecoveredAttempts(s)[g]) = Len(attempts[g])
         /\ \A i \in DOMAIN attempts[g] :
              /\ RecoveredAttempts(s)[g][i].stage = attempts[g][i].stage
              /\ attempts[g][i].status # "running" =>
                   RecoveredAttempts(s)[g][i] = attempts[g][i]
         /\ GenOK(RecoveredState(s)[g], RecoveredAttempts(s)[g], output[g])
  <1>1. /\ state[g] \in States /\ attempts[g] \in Seq(Attempt)
        /\ output[g] \in [Stages -> Nat]
        /\ GenOK(state[g], attempts[g], output[g])
    BY Rows DEF IInv
  <1>2. CASE g \in LeftRunning(s)
    <2>1. PICK i \in DOMAIN attempts[g] : attempts[g][i].status = "running" /\ attempts[g][i].stage = s
      BY <1>2 DEF LeftRunning, Running
    <2>2. attempts[g][i] = [stage |-> s, status |-> "running"]
      <3>1. attempts[g][i] \in Attempt
        BY <1>1
      <3> QED BY <2>1, <3>1 DEF Attempt
    <2>3. RecoveredAttempts(s)[g] = Interrupted(attempts[g], s)
      BY <1>2 DEF RecoveredAttempts, Interrupted
    <2>4. RecoveredState(s)[g] = "retryable_failure"
      BY <1>2 DEF RecoveredState
    <2>5. GenOK("retryable_failure", Interrupted(attempts[g], s), output[g])
      BY <1>1, <2>2, MoveRecover
    <2>6. "retryable_failure" \in States
      BY DEF States
    <2> QED BY <1>1, <2>3, <2>4, <2>5, <2>6, RecoverRows
  <1>3. CASE g \notin LeftRunning(s)
    <2>1. RecoveredAttempts(s)[g] = [i \in DOMAIN attempts[g] |-> attempts[g][i]]
      BY <1>3 DEF RecoveredAttempts
    <2>2. RecoveredAttempts(s)[g] = attempts[g]
      BY <1>1, <2>1
    <2>3. RecoveredState(s)[g] = state[g]
      BY <1>3 DEF RecoveredState
    <2> QED BY <1>1, <2>2, <2>3
  <1> QED BY <1>2, <1>3

\* A candidate of a stage has no output of it and no running attempt left.
LEMMA CandidateUndone ==
  ASSUME IInv, NEW s \in Stages, NEW g \in Candidates(s)
  PROVE  /\ output[g][s] = 0
         /\ RecoveredState(s)[g] = "retryable_failure" => attempts[g] # <<>>
         /\ RecoveredState(s)[g] \in {Expected(s), "retryable_failure"}
         /\ g \in Gen
  <1>1. g \in Gen /\ RecoveredState(s)[g] \in {Expected(s), "retryable_failure"}
    BY DEF Candidates
  <1>2. /\ GenOK(RecoveredState(s)[g], RecoveredAttempts(s)[g], output[g])
        /\ Len(RecoveredAttempts(s)[g]) = Len(attempts[g])
        /\ DOMAIN RecoveredAttempts(s)[g] = DOMAIN attempts[g]
        /\ \A i \in DOMAIN attempts[g] : RecoveredAttempts(s)[g][i].stage = attempts[g][i].stage
        /\ RecoveredAttempts(s)[g] \in Seq(Attempt) /\ attempts[g] \in Seq(Attempt)
    BY <1>1, RecoveredSound, Rows DEF IInv
  <1>3. CASE RecoveredState(s)[g] = Expected(s)
    <2>1. Expected(s) # "retryable_failure"
      BY DEF Stages, Expected, Active
    <2> QED BY <1>1, <1>2, <1>3, <2>1 DEF GenOK, Undone
  <1>4. CASE RecoveredState(s)[g] = "retryable_failure"
    <2>1. /\ RecoveredAttempts(s)[g] # <<>>
          /\ output[g][RecoveredAttempts(s)[g][Len(RecoveredAttempts(s)[g])].stage] = 0
      BY <1>2, <1>4 DEF GenOK, Undone, Failures
    <2>2. attempts[g] # <<>> /\ Len(attempts[g]) \in DOMAIN attempts[g]
      BY <1>2, <2>1
    <2>3. RecoveredState(s)[g] # Expected(s)
      BY <1>4 DEF Stages, Expected, Active
    <2>4. LastAttempt(g).stage = s
      BY <1>4, <2>3 DEF Candidates
    <2> QED BY <1>1, <1>2, <2>1, <2>2, <2>4 DEF LastAttempt
  <1> QED BY <1>1, <1>3, <1>4

LEMMA CandidateRests ==
  ASSUME IInv, NEW s \in Stages, NEW g \in Candidates(s)
  PROVE  \A i \in DOMAIN RecoveredAttempts(s)[g] :
            RecoveredAttempts(s)[g][i].status # "running"
  <1> SUFFICES ASSUME NEW i \in DOMAIN RecoveredAttempts(s)[g],
                      RecoveredAttempts(s)[g][i].status = "running"
               PROVE FALSE
    OBVIOUS
  <1> DEFINE a == RecoveredAttempts(s)[g][i]
  <1>1. /\ g \in Gen /\ RecoveredState(s)[g] = Active(a.stage)
        /\ a \in Attempt /\ i \in DOMAIN attempts[g] /\ a.stage = attempts[g][i].stage
    BY CandidateUndone, RecoveredSound DEF GenOK, RunningIsLast
  <1>2. a.stage \in Stages
    BY <1>1 DEF Attempt
  <1>3. RecoveredState(s)[g] = Expected(s) /\ a.stage = s
    BY <1>1, <1>2, CandidateUndone, StageStates DEF ActiveStates
  <1>4. a = attempts[g][i] /\ g \notin LeftRunning(s)
    <2>1. g \notin LeftRunning(s)
      BY <1>1, <1>3 DEF RecoveredState, Stages, Expected, Active
    <2> QED BY <1>1, <2>1 DEF RecoveredAttempts
  <1> QED BY <1>1, <1>3, <1>4 DEF LeftRunning, Running, Candidates

\* Marking a candidate without attempts left keeps its rows sound.
LEMMA Exhausted ==
  ASSUME IInv, NEW s \in Stages, NEW g \in Spent(s)
  PROVE  GenOK("retry_exhausted", RecoveredAttempts(s)[g], output[g])
  <1>1. g \in Candidates(s) /\ g \in Gen /\ RecoveredState(s)[g] = "retryable_failure"
    BY DEF Spent, Candidates
  <1>2. GenOK("retryable_failure", RecoveredAttempts(s)[g], output[g])
    BY <1>1, RecoveredSound
  <1>3. \A i \in DOMAIN RecoveredAttempts(s)[g] : RecoveredAttempts(s)[g][i].status # "running"
    BY <1>1, CandidateRests
  <1>4. \A t \in Stages : "retry_exhausted" \notin {"none", Active(t), Expected(t)}
    BY DEF Stages, Active, Expected
  <1> QED BY <1>2, <1>3, <1>4 DEF GenOK, RunningIsLast, Undone, Failures

LEMMA ClaimNothingStep ==
  ASSUME IInv, NEW p \in Processes, NEW s \in Stages, ClaimNothing(p, s),
         faults' \in 0..MaxFaults
  PROVE  IInv'
  <1>1. \A g \in Gen :
          /\ attempts'[g] = RecoveredAttempts(s)[g]
          /\ state'[g] = IF g \in Spent(s) /\ ~Full(s) THEN "retry_exhausted"
                         ELSE RecoveredState(s)[g]
    BY DEF ClaimNothing
  <1>2. JobTypeOK'
    <2>1. attempts' \in [Gen -> Seq(Attempt)]
      BY RecoveredSound DEF ClaimNothing, RecoveredAttempts
    <2>2. state' \in [Gen -> States]
      BY RecoveredSound DEF ClaimNothing, States, Stopped
    <2> QED BY <2>1, <2>2 DEF IInv, JobTypeOK, ClaimNothing
  <1>3. WorkExists'
    BY SMTT(40), <1>1, RecoveredSound DEF IInv, JobTypeOK, WorkExists, ClaimNothing
  <1>4. ASSUME NEW g \in Gen PROVE GenOK(state'[g], attempts'[g], output'[g])
    BY <1>1, RecoveredSound, Exhausted DEF ClaimNothing
  <1> QED BY <1>2, <1>3, <1>4 DEF IInv

\* A new attempt on recovered tables; the rest of the transaction is in old
\* and the states of the other generations.
LEMMA TakeStep ==
  ASSUME IInv, NEW p \in Processes, NEW s \in Stages, NEW g \in Gen,
         NEW old \in [Gen -> Seq(Attempt)], Take(p, g, s, old),
         \A h \in Gen : DOMAIN old[h] = DOMAIN attempts[h],
         \A i \in DOMAIN old[g] : old[g][i].status # "running",
         Linked(old[g], output[g]), output[g][s] = 0,
         state' \in [Gen -> States], state'[g] = Active(s),
         \A h \in Gen \ {g} : GenOK(state'[h], old[h], output[h]),
         UNCHANGED <<born, output>>,
         manual' \in 0..MaxManual, faults' \in 0..MaxFaults, retries' \in [Gen -> Nat]
  PROVE  IInv'
  <1> DEFINE a == [stage |-> s, status |-> "running"]
  <1>1. /\ attempts'[g] = Append(old[g], a) /\ \A h \in Gen \ {g} : attempts'[h] = old[h]
        /\ Append(old[g], a) \in Seq(Attempt) /\ attempts' \in [Gen -> Seq(Attempt)]
        /\ DOMAIN Append(old[g], a) = DOMAIN old[g] \cup {Len(old[g]) + 1}
    <2>1. a \in Attempt
      BY DEF Attempt
    <2> HIDE DEF a
    <2>2. attempts' = [old EXCEPT ![g] = Append(old[g], a)]
      BY DEF Take, a
    <2>3. Append(old[g], a) \in Seq(Attempt)
      BY <2>1
    <2>4. DOMAIN Append(old[g], a) = DOMAIN old[g] \cup {Len(old[g]) + 1}
      BY <2>1
    <2> QED BY <2>2, <2>3, <2>4
  <1>2. GenOK(state'[g], attempts'[g], output'[g])
    <2>1. output[g] \in [Stages -> Nat] /\ old[g] \in Seq(Attempt) /\ output' = output
      BY DEF IInv, JobTypeOK
    <2>2. GenOK(Active(s), Append(old[g], a), output[g])
      BY <2>1, MoveTake
    <2> QED BY <1>1, <2>1, <2>2
  <1>3. \A h \in Gen : GenOK(state'[h], attempts'[h], output'[h])
    BY <1>1, <1>2
  <1>4. work' = [work EXCEPT ![p] = <<g, Len(old[g]) + 1>>] /\ Len(old[g]) + 1 \in Nat
    BY DEF Take
  <1>5. WorkExists'
    <2> SUFFICES ASSUME NEW q \in Processes, work'[q] # Idle
                 PROVE work'[q][2] \in DOMAIN attempts'[work'[q][1]]
      BY DEF WorkExists
    <2>1. CASE q = p
      BY <1>1, <1>4, <2>1 DEF IInv, JobTypeOK
    <2>2. CASE q # p
      <3>1. work'[q] = work[q] /\ work[q][1] \in Gen /\ work[q][2] \in DOMAIN attempts[work[q][1]]
        BY <1>4, <2>2 DEF IInv, JobTypeOK, WorkExists
      <3> QED BY <1>1, <3>1
    <2> QED BY <2>1, <2>2
  <1>6. JobTypeOK'
    BY <1>1, <1>4 DEF IInv, JobTypeOK
  <1> QED BY <1>3, <1>5, <1>6 DEF IInv

LEMMA ClaimStep ==
  ASSUME IInv, NEW p \in Processes, NEW s \in Stages, NEW g \in Gen, Claim(p, s, g),
         faults' \in 0..MaxFaults
  PROVE  IInv'
  <1> DEFINE passed == {h \in Candidates(s) : born[h] < born[g]}
             old == RecoveredAttempts(s)
  <1>1. /\ g \in Candidates(s) /\ g \notin Spent(s) /\ passed \subseteq Spent(s)
        /\ Take(p, g, s, old)
        /\ \A h \in Gen : state'[h] = IF h = g THEN Active(s)
                                       ELSE IF h \in passed THEN "retry_exhausted"
                                       ELSE RecoveredState(s)[h]
        /\ UNCHANGED <<born, output, retries, manual>>
    BY DEF Claim
  <1>2. old \in [Gen -> Seq(Attempt)]
    BY RecoveredSound DEF RecoveredAttempts
  <1>3. /\ \A i \in DOMAIN old[g] : old[g][i].status # "running"
        /\ output[g][s] = 0 /\ Linked(old[g], output[g])
    BY <1>1, CandidateRests, CandidateUndone, RecoveredSound DEF GenOK
  <1>4. /\ \A h \in Gen : RecoveredState(s)[h] \in States
        /\ "retry_exhausted" \in States /\ Active(s) \in States
    BY RecoveredSound, StageStates DEF States, Stopped
  <1>5. state' \in [Gen -> States] /\ state'[g] = Active(s)
    BY <1>1, <1>4 DEF Claim
  <1>6. \A h \in Gen \ {g} : GenOK(state'[h], old[h], output[h])
    BY <1>1, RecoveredSound, Exhausted
  <1>7. \A h \in Gen : DOMAIN old[h] = DOMAIN attempts[h]
    BY RecoveredSound
  <1>8. manual' \in 0..MaxManual /\ retries' \in [Gen -> Nat]
    BY <1>1 DEF IInv, JobTypeOK
  <1> HIDE DEF old, passed
  <1> QED BY <1>1, <1>2, <1>3, <1>5, <1>6, <1>7, <1>8, TakeStep

LEMMA StartStep ==
  ASSUME IInv, NEW p \in Processes, NEW s \in Stages, NEW g \in Gen, StartAttempt(p, g, s)
  PROVE  IInv'
  <1>1. \A i \in DOMAIN attempts[g] : attempts[g][i].status # "running"
    BY DEF StartAttempt, Running
  <1>2. Linked(attempts[g], output[g]) /\ output[g][s] = 0
    BY DEF StartAttempt, IInv, GenOK
  <1>3. state' \in [Gen -> States] /\ state'[g] = Active(s)
    BY StageStates DEF StartAttempt, IInv, JobTypeOK, States
  <1>4. \A h \in Gen \ {g} : GenOK(state'[h], attempts[h], output[h])
    BY DEF StartAttempt, IInv, JobTypeOK
  <1>5. /\ attempts \in [Gen -> Seq(Attempt)] /\ Take(p, g, s, attempts)
        /\ UNCHANGED <<born, output>>
        /\ manual' \in 0..MaxManual /\ faults' \in 0..MaxFaults /\ retries' \in [Gen -> Nat]
    BY JobBoundAssumption DEF StartAttempt, Manual, IInv, JobTypeOK
  <1> QED BY <1>1, <1>2, <1>3, <1>4, <1>5, TakeStep

LEMMA CompleteStep ==
  ASSUME IInv, NEW p \in Processes, NEW o \in Outcomes, Complete(p, o)
  PROVE  IInv'
  <1> DEFINE g == work[p][1]
             i == work[p][2]
             s == attempts[g][i].stage
             new == [attempts[g] EXCEPT ![i].status = o]
             sel == IF o = "succeeded" THEN [output[g] EXCEPT ![s] = i] ELSE output[g]
  <1>1. g \in Gen /\ i \in DOMAIN attempts[g] /\ i \in Nat
    BY DEF Complete, IInv, JobTypeOK, WorkExists
  <1>2. /\ attempts[g] \in Seq(Attempt) /\ output[g] \in [Stages -> Nat]
        /\ GenOK(state[g], attempts[g], output[g])
        /\ attempts[g][i] \in Attempt /\ s \in Stages
    <2>1. attempts[g] \in Seq(Attempt) /\ output[g] \in [Stages -> Nat]
      BY <1>1, Rows DEF IInv
    <2>2. attempts[g][i] \in Attempt
      BY <1>1, <2>1
    <2> QED BY <1>1, <2>1, <2>2 DEF IInv, Attempt
  <1>3. /\ attempts[g][i].status = "running"
        /\ o = "succeeded" => \A t \in Stages : Precedes(t, s) => output[g][t] # 0
    BY DEF Complete, Accepted
  <1>4. GenOK(StateAfter(s, o), new, sel)
    BY <1>1, <1>2, <1>3, MoveComplete
  <1>5. /\ attempts' = [attempts EXCEPT ![g] = new]
        /\ output' = [output EXCEPT ![g] = sel]
        /\ state' = [state EXCEPT ![g] = StateAfter(s, o)]
    BY <1>1, <1>2 DEF Complete, IInv, JobTypeOK
  <1>6. /\ new \in Seq(Attempt) /\ DOMAIN new = DOMAIN attempts[g]
        /\ sel \in [Stages -> Nat] /\ StateAfter(s, o) \in States
    <2>1. [attempts[g][i] EXCEPT !.status = o] \in Attempt
      BY <1>2 DEF Attempt
    <2>2. new \in Seq(Attempt) /\ DOMAIN new = DOMAIN attempts[g]
      BY <1>1, <1>2, <2>1
    <2>3. sel \in [Stages -> Nat]
      BY <1>1, <1>2
    <2>4. StateAfter(s, o) \in States
      BY <1>2, StageStates DEF StateAfter, Outcomes, States, Stopped
    <2> QED BY <2>2, <2>3, <2>4
  <1>7. work' = [work EXCEPT ![p] = Idle] /\ UNCHANGED <<born, retries, manual>>
        /\ faults' \in 0..MaxFaults
    BY JobBoundAssumption DEF Complete, Fault, IInv, JobTypeOK
  <1> HIDE DEF new, sel, s, g, i
  <1>8. JobTypeOK'
    BY <1>1, <1>5, <1>6, <1>7 DEF IInv, JobTypeOK
  <1>9. WorkExists'
    BY <1>1, <1>5, <1>6, <1>7 DEF IInv, JobTypeOK, WorkExists
  <1>10. \A h \in Gen : GenOK(state'[h], attempts'[h], output'[h])
    BY <1>1, <1>4, <1>5 DEF IInv, JobTypeOK
  <1> QED BY <1>8, <1>9, <1>10 DEF IInv

LEMMA ManualStep ==
  ASSUME IInv, NEW g \in Gen, Regenerate(g) \/ Supersede(g) \/ Retire(g) \/ Retry(g)
  PROVE  IInv'
  <1>1. manual' \in 0..MaxManual
    BY JobBoundAssumption DEF Regenerate, Supersede, Unstarted, Retire, Retry, Manual, IInv, JobTypeOK
  <1>2. CASE Regenerate(g)
    <2>1. <<g[1], g[2] + 1>> \in Gen /\ state[<<g[1], g[2] + 1>>] = "none"
      BY <1>2, JobBoundAssumption DEF Regenerate, Current, Gen
    <2> QED BY <1>1, <1>2, <2>1, QueueStep DEF Regenerate
  <1>3. CASE Supersede(g) \/ Retire(g)
    <2>1. Undone("superseded", attempts[g], output[g])
      BY DEF Undone, Stages, Active, Expected, Failures
    <2>2. SetState(g, "superseded") /\ Running(g) = {} /\ retries' \in [Gen -> Nat]
      BY <1>3 DEF Supersede, Unstarted, Retire, IInv, JobTypeOK
    <2>3. "superseded" \in States
      BY DEF States
    <2> QED BY <1>1, <2>1, <2>2, <2>3, SetStateStep
  <1>4. CASE Retry(g)
    <2> DEFINE s == LastAttempt(g).stage
    <2>1. s \in Stages /\ output[g][s] = 0
      BY <1>4, Rows DEF Retry, IInv
    <2> HIDE DEF s
    <2>2. Undone(Expected(s), attempts[g], output[g])
      BY <2>1, StageStates DEF Undone, ActiveStates, Failures
    <2>3. Expected(s) \in States
      BY <2>1, StageStates DEF States
    <2>4. SetState(g, Expected(s)) /\ Running(g) = {} /\ retries' \in [Gen -> Nat]
      BY <1>4 DEF Retry, s, IInv, JobTypeOK
    <2> QED BY <1>1, <2>2, <2>3, <2>4, SetStateStep
  <1> QED BY <1>2, <1>3, <1>4

\* A process that gives up, or dies, only forgets its attempt.
LEMMA GiveUpStep ==
  ASSUME IInv, NEW p \in Processes, Refused(p) \/ Crash(p)
  PROVE  IInv'
  <1>1. /\ work' = [work EXCEPT ![p] = Idle] /\ faults' \in 0..MaxFaults
        /\ UNCHANGED <<born, state, attempts, output, retries, manual>>
    BY JobBoundAssumption DEF Refused, Crash, Fault, IInv, JobTypeOK
  <1>2. JobTypeOK' /\ WorkExists'
    BY <1>1 DEF IInv, JobTypeOK, WorkExists
  <1> QED BY <1>1, <1>2 DEF IInv

LEMMA NextIInv == IInv /\ [JobNext]_jobVars => IInv'
  <1> SUFFICES ASSUME IInv, [JobNext]_jobVars PROVE IInv'
    OBVIOUS
  <1>1. ASSUME NEW j \in Jobs, Submit(j) PROVE IInv'
    <2>1. <<j, 1>> \in Gen
      BY JobBoundAssumption DEF Gen
    <2>2. manual' \in 0..MaxManual
      BY <1>1 DEF Submit, IInv, JobTypeOK
    <2> QED BY <1>1, <2>1, <2>2, QueueStep DEF Submit
  <1>2. ASSUME NEW g \in Gen, Regenerate(g) \/ Supersede(g) \/ Retire(g) \/ Retry(g) PROVE IInv'
    BY <1>2, ManualStep
  <1>3. ASSUME NEW p \in Processes, NEW s \in Stages, ClaimStage(p, s) PROVE IInv'
    <2>1. faults' \in 0..MaxFaults
      BY <1>3, JobBoundAssumption DEF ClaimStage, Fault, IInv, JobTypeOK
    <2> QED BY <1>3, <2>1, ClaimNothingStep, ClaimStep DEF ClaimStage
  <1>4. ASSUME NEW p \in Processes, NEW s \in Stages, NEW g \in Gen, StartAttempt(p, g, s) PROVE IInv'
    BY <1>4, StartStep
  <1>5. ASSUME NEW p \in Processes, Finish(p) \/ Crash(p) PROVE IInv'
    BY <1>5, CompleteStep, GiveUpStep DEF Finish
  <1>6. CASE UNCHANGED jobVars
    BY <1>6 DEF jobVars, IInv, JobTypeOK, WorkExists
  <1> QED BY <1>1, <1>2, <1>3, <1>4, <1>5, <1>6 DEF JobNext

\* The queue's tables stay sound in every behaviour.
THEOREM Invariance == JobSpec => []IInv
  BY InitIInv, NextIInv, PTL DEF JobSpec

\* The variables of the queue keep their types.
THEOREM TypeCorrect == JobSpec => []JobTypeOK
  BY Invariance, PTL DEF IInv

\* At most one attempt of a generation is running; it is the last one, and the
\* generation is in its stage: complete_attempt is open to one worker only.
THEOREM OneWorker == JobSpec => []OneRunning
  <1>1. IInv => OneRunning
    BY DEF IInv, GenOK, RunningIsLast, OneRunning, Running
  <1> QED BY <1>1, Invariance, PTL

\* Selected outputs are those of succeeded attempts, stage after stage.
THEOREM OutputChain == JobSpec => []OutputsLinked
  <1>1. IInv => OutputsLinked
    BY DEF IInv, GenOK, Linked, OutputsLinked
  <1> QED BY <1>1, Invariance, PTL

\* No reachable table makes claim_next_attempt raise.
THEOREM ClaimSafe == JobSpec => []ClaimNeverPoisoned
  <1>1. IInv => ClaimNeverPoisoned
    <2> SUFFICES ASSUME IInv, NEW s \in Stages
                 PROVE  /\ \A g \in LeftRunning(s) : output[g][s] = 0
                        /\ \A g \in Candidates(s) :
                             /\ output[g][s] = 0
                             /\ Running(g) \subseteq {i \in DOMAIN attempts[g] : attempts[g][i].stage = s}
      BY DEF ClaimNeverPoisoned
    <2>1. ASSUME NEW g \in LeftRunning(s) PROVE output[g][s] = 0
      <3>1. PICK i \in DOMAIN attempts[g] : attempts[g][i].status = "running" /\ attempts[g][i].stage = s
        BY DEF LeftRunning, Running
      <3>2. g \in Gen
        BY DEF LeftRunning
      <3>3. state[g] = Active(s)
        BY <3>1, <3>2 DEF IInv, GenOK, RunningIsLast
      <3> QED BY <3>2, <3>3 DEF IInv, GenOK, Undone
    <2>2. ASSUME NEW g \in Candidates(s), NEW i \in Running(g)
          PROVE  attempts[g][i].stage = s
      <3>1. g \in Gen /\ i \in DOMAIN attempts[g] /\ attempts[g][i].status = "running"
        BY DEF Candidates, Running
      <3>2. RecoveredAttempts(s)[g][i] # attempts[g][i]
        BY <3>1, CandidateRests, RecoveredSound
      <3> QED BY <3>1, <3>2, Rows DEF RecoveredAttempts, IInv
    <2> QED BY <2>1, <2>2, CandidateUndone DEF Running
  <1> QED BY <1>1, Invariance, PTL

-----------------------------------------------------------------------------

LEMMA FrozenStep ==
  ASSUME IInv, [JobNext]_jobVars
  PROVE  \A g \in Gen :
           /\ \A i \in DOMAIN attempts[g] :
                attempts[g][i].status # "running" => attempts'[g][i] = attempts[g][i]
           /\ \A s \in Stages : output[g][s] # 0 => output'[g][s] = output[g][s]
  <1> DEFINE Stable == \A g \in Gen :
               /\ \A i \in DOMAIN attempts[g] :
                    attempts[g][i].status # "running" => attempts'[g][i] = attempts[g][i]
               /\ \A s \in Stages : output[g][s] # 0 => output'[g][s] = output[g][s]
  <1>1. Stable
    <2>1. CASE UNCHANGED <<attempts, output>>
      BY <2>1
    <2>2. ASSUME NEW p \in Processes, NEW s \in Stages, ClaimNothing(p, s) PROVE Stable
      BY <2>2, RecoveredSound DEF ClaimNothing
    <2>3. ASSUME NEW p \in Processes, NEW s \in Stages, NEW g \in Gen,
                 NEW old \in [Gen -> Seq(Attempt)], Take(p, g, s, old), output' = output,
                 \A h \in Gen :
                   /\ DOMAIN old[h] = DOMAIN attempts[h]
                   /\ \A i \in DOMAIN attempts[h] :
                        attempts[h][i].status # "running" => old[h][i] = attempts[h][i]
          PROVE  Stable
      <3> DEFINE a == [stage |-> s, status |-> "running"]
      <3>1. a \in Attempt
        BY DEF Attempt
      <3>2. attempts' = [old EXCEPT ![g] = Append(old[g], a)]
        BY <2>3 DEF Take
      <3> HIDE DEF a
      <3>3. \A h \in Gen : \A i \in DOMAIN old[h] : attempts'[h][i] = old[h][i]
        BY <3>1, <3>2
      <3> QED BY <2>3, <3>3
    <2>4. ASSUME NEW p \in Processes, NEW s \in Stages, NEW g \in Gen, Claim(p, s, g)
          PROVE  Stable
      <3>1. RecoveredAttempts(s) \in [Gen -> Seq(Attempt)]
        BY RecoveredSound DEF RecoveredAttempts
      <3> QED BY ZenonT(60), <2>3, <2>4, <3>1, RecoveredSound DEF Claim
    <2>5. ASSUME NEW p \in Processes, NEW s \in Stages, NEW g \in Gen, StartAttempt(p, g, s)
          PROVE  Stable
      BY <2>3, <2>5 DEF StartAttempt, IInv, JobTypeOK
    <2>6. ASSUME NEW p \in Processes, NEW o \in Outcomes, Complete(p, o) PROVE Stable
      <3> DEFINE g == work[p][1]
                 i == work[p][2]
      <3>1. g \in Gen /\ i \in DOMAIN attempts[g] /\ attempts[g][i].status = "running"
        BY <2>6 DEF Complete, Accepted, IInv, JobTypeOK, WorkExists
      <3>2. /\ attempts' = [attempts EXCEPT ![g][i].status = o]
            /\ output' = IF o = "succeeded" THEN [output EXCEPT ![g][attempts[g][i].stage] = i] ELSE output
            /\ o = "succeeded" => output[g][attempts[g][i].stage] = 0
        BY <2>6 DEF Complete, Accepted
      <3> HIDE DEF g, i
      <3> QED BY <3>1, <3>2 DEF IInv, JobTypeOK
    <2> QED BY <2>1, <2>2, <2>4, <2>5, <2>6
            DEF JobNext, ClaimStage, Submit, Regenerate, Supersede, Unstarted, Retire, Retry, SetState, Queue,
                Finish, Refused, Crash, jobVars
  <1> QED BY <1>1

\* What ended an attempt stands, and no selected output is replaced.
THEOREM Frozen == JobSpec => FinishedFrozen
  BY FrozenStep, Invariance, PTL DEF JobSpec, FinishedFrozen

\* No operation of the queue leaves these states.
Final == {"superseded", "deterministic_reject", "awaiting_human_review"} \cup Endings

LEMMA StaysStep ==
  ASSUME IInv, [JobNext]_jobVars
  PROVE  \A g \in Gen :
           /\ state[g] \in Stopped /\ manual' = manual => state'[g] = state[g]
           /\ state[g] \in Final => state'[g] = state[g]
  <1> DEFINE Kept == \A g \in Gen :
               /\ state[g] \in Stopped /\ manual' = manual => state'[g] = state[g]
               /\ state[g] \in Final => state'[g] = state[g]
             Idles == Stopped \cup Final
  <1>1. Kept
    <2>0. /\ \A s \in Stages : Active(s) \notin Idles /\ Expected(s) \notin Idles
          /\ "retryable_failure" \notin Idles /\ "none" \notin Idles /\ "queued" \notin Idles
      BY DEF Stages, Active, Expected, Stopped, Final, Endings
    <2>1. CASE UNCHANGED state
      BY <2>1
    <2>2. ASSUME NEW j \in Jobs, Submit(j) PROVE Kept
      BY <2>0, <2>2 DEF Submit, Queue, IInv, JobTypeOK
    <2>3. ASSUME NEW g \in Gen, Regenerate(g) PROVE Kept
      <3>1. state[<<g[1], g[2] + 1>>] = "none"
        BY <2>3, JobBoundAssumption DEF Regenerate, Current, Gen
      <3>2. manual' # manual
        BY <2>3, JobBoundAssumption DEF Regenerate, Manual, IInv, JobTypeOK
      <3> QED BY <2>0, <2>3, <3>1, <3>2 DEF Regenerate, Queue, IInv, JobTypeOK
    <2>4. ASSUME NEW g \in Gen, Supersede(g) \/ Retire(g) \/ Retry(g) PROVE Kept
      <3>1. manual' # manual
        BY <2>4, JobBoundAssumption DEF Supersede, Unstarted, Retire, Retry, Manual, IInv, JobTypeOK
      <3>2. state[g] \notin Final
        BY <2>4 DEF Supersede, Unstarted, Retire, Retry, Final, Endings
      <3>3. \A h \in Gen \ {g} : state'[h] = state[h]
        BY <2>4 DEF Supersede, Unstarted, Retire, Retry, SetState, IInv, JobTypeOK
      <3> QED BY <3>1, <3>2, <3>3
    <2>5. ASSUME NEW s \in Stages
          PROVE  /\ \A g \in Gen : state[g] \in Idles => RecoveredState(s)[g] = state[g]
                 /\ \A g \in Candidates(s) : state[g] \notin Idles
      <3>1. ASSUME NEW g \in LeftRunning(s) PROVE state[g] \notin Idles
        <4>1. PICK i \in DOMAIN attempts[g] : attempts[g][i].status = "running" /\ attempts[g][i].stage = s
          BY DEF LeftRunning, Running
        <4>2. g \in Gen
          BY DEF LeftRunning
        <4> QED BY <2>0, <4>1, <4>2 DEF IInv, GenOK, RunningIsLast
      <3>2. \A g \in Gen : state[g] \in Idles => RecoveredState(s)[g] = state[g]
        BY <3>1 DEF RecoveredState
      <3> QED BY <2>0, <3>2, CandidateUndone
    <2>6. ASSUME NEW p \in Processes, NEW s \in Stages, ClaimNothing(p, s) PROVE Kept
      BY <2>5, <2>6 DEF ClaimNothing, Spent
    <2>7. ASSUME NEW p \in Processes, NEW s \in Stages, NEW g \in Gen, Claim(p, s, g) PROVE Kept
      BY <2>5, <2>7 DEF Claim, Spent
    <2>8. ASSUME NEW p \in Processes, NEW s \in Stages, NEW g \in Gen, StartAttempt(p, g, s) PROVE Kept
      BY <2>0, <2>8 DEF StartAttempt, IInv, JobTypeOK
    <2>9. ASSUME NEW p \in Processes, NEW o \in Outcomes, Complete(p, o) PROVE Kept
      <3> DEFINE g == work[p][1]
                 s == attempts[g][work[p][2]].stage
      <3>1. g \in Gen /\ work[p][2] \in DOMAIN attempts[g]
        BY <2>9 DEF Complete, IInv, JobTypeOK, WorkExists
      <3>2. attempts[g] \in Seq(Attempt)
        BY <3>1, Rows DEF IInv
      <3>3. attempts[g][work[p][2]] \in Attempt
        BY <3>1, <3>2
      <3>4. s \in Stages
        BY <3>3 DEF Attempt
      <3>5. state[g] = Active(s) /\ state' = [state EXCEPT ![g] = StateAfter(s, o)]
        BY <2>9 DEF Complete, Accepted
      <3> HIDE DEF g, s
      <3> QED BY <2>0, <3>1, <3>4, <3>5 DEF IInv, JobTypeOK
    <2> HIDE DEF Kept
    <2> QED BY <2>1, <2>2, <2>3, <2>4, <2>6, <2>7, <2>8, <2>9
            DEF JobNext, ClaimStage, Finish, Refused, Crash, jobVars
  <1> QED BY <1>1

\* A stopped generation is left alone by every automatic step, and a superseded,
\* rejected or awaiting one by every step.
THEOREM Stays == JobSpec => StoppedStays
  <1>1. ASSUME IInv, [JobNext]_jobVars
        PROVE  \A g \in Gen :
                 /\ state[g] \in Stopped /\ manual' = manual => state'[g] = state[g]
                 /\ state[g] \in {"superseded", "deterministic_reject", "awaiting_human_review"}
                      => state'[g] = state[g]
    BY <1>1, StaysStep DEF Final
  <1> QED BY <1>1, Invariance, PTL DEF JobSpec, StoppedStays

-----------------------------------------------------------------------------
(* The limit on attempts.  A stage that waits to be started for the first  *)
(* time, or after a manual retry, has an attempt to spare; a stage whose   *)
(* predecessor has no output was never tried.                              *)

Tries(at, s) == Cardinality({i \in DOMAIN at : at[i].stage = s})

InOrder(st, at, out) ==
  /\ st = "none" => at = <<>>
  /\ \A s, t \in Stages :
       Precedes(t, s) /\ out[t] = 0 =>
         /\ st \notin {Expected(s), Active(s)}
         /\ \A i \in DOMAIN at : at[i].stage # s

Spare(st, at, r) ==
  \A s \in Stages :
    /\ Tries(at, s) <= MaxAttempts + r
    /\ st = Expected(s) /\ (\A i \in DOMAIN at : at[i].status # "running") =>
         Tries(at, s) < MaxAttempts + r

BInv == IInv /\ \A g \in Gen : /\ InOrder(state[g], attempts[g], output[g])
                              /\ Spare(state[g], attempts[g], retries[g])

LEMMA TriesFacts ==
  ASSUME NEW at \in Seq(Attempt), NEW s \in Stages
  PROVE  /\ Tries(at, s) \in Nat
         /\ (\A i \in DOMAIN at : at[i].stage # s) => Tries(at, s) = 0
  <1>1. IsFiniteSet({i \in DOMAIN at : at[i].stage = s})
    <2>1. IsFiniteSet(1..Len(at)) /\ DOMAIN at = 1..Len(at)
      BY FS_Interval
    <2> QED BY <2>1, FS_Subset
  <1> QED BY <1>1, FS_CardinalityType, FS_EmptySet DEF Tries

LEMMA TriesAppend ==
  ASSUME NEW at \in Seq(Attempt), NEW s \in Stages, NEW t \in Stages, NEW a \in Attempt,
         a.stage = s
  PROVE  Tries(Append(at, a), t) = IF t = s THEN Tries(at, t) + 1 ELSE Tries(at, t)
  <1> DEFINE new == Append(at, a)
             S == {i \in DOMAIN at : at[i].stage = t}
  <1>1. /\ DOMAIN new = DOMAIN at \cup {Len(at) + 1} /\ new[Len(at) + 1] = a
        /\ Len(at) + 1 \notin DOMAIN at /\ \A i \in DOMAIN at : new[i] = at[i]
    OBVIOUS
  <1>2. IsFiniteSet(S)
    <2>1. IsFiniteSet(1..Len(at)) /\ DOMAIN at = 1..Len(at)
      BY FS_Interval
    <2> QED BY <2>1, FS_Subset
  <1> HIDE DEF new
  <1>3. CASE t = s
    <2>1. {i \in DOMAIN new : new[i].stage = t} = S \cup {Len(at) + 1}
      BY <1>1, <1>3
    <2>2. Len(at) + 1 \notin S
      BY <1>1
    <2> QED BY <1>2, <1>3, <2>1, <2>2, FS_AddElement DEF Tries, new
  <1>4. CASE t # s
    <2>1. {i \in DOMAIN new : new[i].stage = t} = S
      BY <1>1, <1>4
    <2> QED BY <1>4, <2>1 DEF Tries, new
  <1> QED BY <1>3, <1>4

\* The recovery and a completion leave the stages of the attempts alone.
LEMMA TriesSame ==
  ASSUME NEW at, NEW new, NEW s, DOMAIN new = DOMAIN at,
         \A i \in DOMAIN at : new[i].stage = at[i].stage
  PROVE  Tries(new, s) = Tries(at, s)
  <1>1. {i \in DOMAIN new : new[i].stage = s} = {i \in DOMAIN at : at[i].stage = s}
    OBVIOUS
  <1> QED BY <1>1 DEF Tries

\* Rows that end in a state nobody waits in.
LEMMA RestRows ==
  ASSUME NEW st, NEW new, NEW at, NEW at2, NEW out, NEW r,
         InOrder(st, at, out), Spare(st, at, r),
         DOMAIN at2 = DOMAIN at, \A i \in DOMAIN at : at2[i].stage = at[i].stage,
         new \in Stopped \cup {"retryable_failure", "superseded"}
  PROVE  InOrder(new, at2, out) /\ Spare(new, at2, r)
  <1>1. new # "none" /\ \A s \in Stages : new \notin {Expected(s), Active(s)}
    BY DEF Stages, Expected, Active, Stopped
  <1>2. \A s \in Stages : Tries(at2, s) = Tries(at, s)
    BY TriesSame
  <1>3. InOrder(new, at2, out)
    BY <1>1 DEF InOrder
  <1> QED BY <1>1, <1>2, <1>3 DEF Spare

LEMMA InitBInv == JobInit => BInv
  <1> SUFFICES ASSUME JobInit PROVE BInv
    OBVIOUS
  <1>1. ASSUME NEW g \in Gen
        PROVE  InOrder(state[g], attempts[g], output[g]) /\ Spare(state[g], attempts[g], retries[g])
    <2>1. state[g] = "none" /\ attempts[g] = <<>> /\ retries[g] = 0
      BY <1>1 DEF JobInit
    <2>2. \A s \in Stages : "none" \notin {Expected(s), Active(s)}
      BY DEF Stages, Expected, Active
    <2>3. \A s \in Stages : Tries(<<>>, s) = 0
      BY FS_EmptySet DEF Tries
    <2> QED BY <2>1, <2>2, <2>3, LimitAssumption DEF InOrder, Spare
  <1> QED BY <1>1, InitIInv DEF BInv

LEMMA TakeRows ==
  ASSUME NEW at \in Seq(Attempt), NEW out, NEW st, NEW s \in Stages,
         NEW r0 \in Nat, NEW r \in Nat,
         InOrder(st, at, out), Spare(st, at, r0), r0 <= r,
         st = Expected(s) \/ \E i \in DOMAIN at : at[i].stage = s,
         Tries(at, s) < MaxAttempts + r
  PROVE  LET new == Append(at, [stage |-> s, status |-> "running"])
         IN  InOrder(Active(s), new, out) /\ Spare(Active(s), new, r)
  <1> DEFINE a == [stage |-> s, status |-> "running"]
             new == Append(at, a)
  <1>1. a \in Attempt /\ a.stage = s /\ a.status = "running"
    BY DEF Attempt
  <1> HIDE DEF a
  <1>2. /\ DOMAIN new = DOMAIN at \cup {Len(at) + 1} /\ new[Len(at) + 1] = a
        /\ \A i \in DOMAIN at : new[i] = at[i]
    BY <1>1
  <1>3. \A u \in Stages : Tries(new, u) = IF u = s THEN Tries(at, u) + 1 ELSE Tries(at, u)
    BY <1>1, TriesAppend
  <1>4. \A u \in Stages : Tries(at, u) \in Nat /\ Tries(at, u) <= MaxAttempts + r0
    BY TriesFacts DEF Spare
  <1> HIDE DEF new
  <1>5. InOrder(Active(s), new, out)
    <2>1. Active(s) # "none"
      BY StageStates DEF ActiveStates
    <2>2. ASSUME NEW u \in Stages, NEW t \in Stages, Precedes(t, u), out[t] = 0
          PROVE  /\ Active(s) \notin {Expected(u), Active(u)}
                 /\ \A i \in DOMAIN new : new[i].stage # u
      <3>1. st # Expected(u) /\ \A i \in DOMAIN at : at[i].stage # u
        BY <2>2 DEF InOrder
      <3>2. u # s
        BY <3>1
      <3>3. Active(s) \notin {Expected(u), Active(u)}
        BY <3>2, StageStates
      <3> QED BY <1>1, <1>2, <3>1, <3>2, <3>3
    <2> QED BY <2>1, <2>2 DEF InOrder
  <1>6. Spare(Active(s), new, r)
    <2>1. \A u \in Stages : Tries(new, u) <= MaxAttempts + r
      BY <1>3, <1>4, LimitAssumption
    <2>2. \E i \in DOMAIN new : new[i].status = "running"
      BY <1>1, <1>2
    <2> QED BY <2>1, <2>2 DEF Spare
  <1> QED BY <1>5, <1>6 DEF new, a

LEMMA CompleteRows ==
  ASSUME NEW at \in Seq(Attempt), NEW out \in [Stages -> Nat], NEW st,
         NEW i \in DOMAIN at, NEW o \in Outcomes, NEW r \in Nat,
         InOrder(st, at, out), Spare(st, at, r), out[at[i].stage] = 0
  PROVE  LET new == [at EXCEPT ![i].status = o]
             sel == IF o = "succeeded" THEN [out EXCEPT ![at[i].stage] = i] ELSE out
         IN  /\ InOrder(StateAfter(at[i].stage, o), new, sel)
             /\ Spare(StateAfter(at[i].stage, o), new, r)
  <1> DEFINE s == at[i].stage
             new == [at EXCEPT ![i].status = o]
             sel == IF o = "succeeded" THEN [out EXCEPT ![s] = i] ELSE out
  <1>1. at[i] \in Attempt /\ i \in Nat \ {0}
    OBVIOUS
  <1>2. s \in Stages
    BY <1>1 DEF Attempt
  <1>3. DOMAIN new = DOMAIN at /\ \A j \in DOMAIN at : new[j].stage = at[j].stage
    BY <1>1 DEF Attempt
  <1>4. CASE o # "succeeded"
    <2>1. o \in Stopped \cup {"retryable_failure", "superseded"}
      BY <1>4 DEF Outcomes, Stopped
    <2>2. InOrder(o, new, out) /\ Spare(o, new, r)
      BY ZenonT(60), <1>3, <2>1, RestRows
    <2> QED BY <1>4, <2>2 DEF StateAfter
  <1>5. CASE o = "succeeded"
    <2>1. StateAfter(s, o) = Success(s) /\ sel = [out EXCEPT ![s] = i]
      BY <1>5 DEF StateAfter
    <2>2. \A t \in Stages : sel[t] = 0 => out[t] = 0 /\ t # s
      BY <1>1, <1>2, <2>1
    <2> HIDE DEF s, new, sel
    <2>3. Success(s) # "none"
      BY <1>2 DEF Success, Stages
    <2>4. \A u, t \in Stages : Precedes(t, u) /\ Precedes(s, u) => t = s
      BY <1>2 DEF Precedes, Stages
    <2>5. InOrder(Success(s), new, sel)
      <3>1. ASSUME NEW u \in Stages, NEW t \in Stages, Precedes(t, u), sel[t] = 0
            PROVE  /\ Success(s) \notin {Expected(u), Active(u)}
                   /\ \A j \in DOMAIN new : new[j].stage # u
        <4>1. \A j \in DOMAIN at : at[j].stage # u
          BY <3>1, <2>2 DEF InOrder
        <4>2. Success(s) \notin {Expected(u), Active(u)}
          BY <1>2, <2>2, <2>4, <3>1, SuccessPrecedes
        <4> QED BY <1>3, <4>1, <4>2
      <3> QED BY <2>3, <3>1 DEF InOrder
    <2>6. Spare(Success(s), new, r)
      <3>1. \A u \in Stages : Tries(new, u) = Tries(at, u) /\ Tries(at, u) <= MaxAttempts + r
        BY <1>3, TriesSame DEF Spare
      <3>2. ASSUME NEW u \in Stages, Success(s) = Expected(u) PROVE Tries(at, u) = 0
        <4>1. Precedes(s, u) /\ out[s] = 0
          BY <1>2, <3>2, SuccessPrecedes DEF s
        <4>2. \A j \in DOMAIN at : at[j].stage # u
          BY <1>2, <4>1 DEF InOrder
        <4> QED BY <4>2, TriesFacts
      <3> QED BY <3>1, <3>2, LimitAssumption DEF Spare
    <2> QED BY <2>1, <2>5, <2>6 DEF s, new, sel
  <1> QED BY <1>4, <1>5

GenBounded(st, at, out, r) == InOrder(st, at, out) /\ Spare(st, at, r)

\* Counting through the recovery of a claim.
LEMMA RecoveredBounded ==
  ASSUME BInv, NEW s \in Stages, NEW g \in Gen
  PROVE  /\ GenBounded(RecoveredState(s)[g], RecoveredAttempts(s)[g], output[g], retries[g])
         /\ Tries(RecoveredAttempts(s)[g], s) = Count(g, s)
  <1>1. /\ InOrder(state[g], attempts[g], output[g]) /\ Spare(state[g], attempts[g], retries[g])
        /\ DOMAIN RecoveredAttempts(s)[g] = DOMAIN attempts[g]
        /\ \A i \in DOMAIN attempts[g] : RecoveredAttempts(s)[g][i].stage = attempts[g][i].stage
        /\ attempts[g] \in Seq(Attempt)
    BY RecoveredSound, Rows DEF BInv, IInv
  <1>2. Tries(RecoveredAttempts(s)[g], s) = Count(g, s)
    BY <1>1, TriesSame DEF Tries, Count
  <1>3. CASE g \in LeftRunning(s)
    <2>1. RecoveredState(s)[g] = "retryable_failure"
      BY <1>3 DEF RecoveredState
    <2> QED BY <1>1, <1>2, <2>1, RestRows DEF GenBounded
  <1>4. CASE g \notin LeftRunning(s)
    <2>1. /\ RecoveredState(s)[g] = state[g]
          /\ RecoveredAttempts(s)[g] = [i \in DOMAIN attempts[g] |-> attempts[g][i]]
      BY <1>4 DEF RecoveredState, RecoveredAttempts
    <2>2. RecoveredAttempts(s)[g] = attempts[g]
      BY <1>1, <2>1
    <2> QED BY <1>1, <1>2, <2>1, <2>2 DEF GenBounded
  <1> QED BY <1>3, <1>4

LEMMA ExhaustedBounded ==
  ASSUME BInv, NEW s \in Stages, NEW g \in Gen
  PROVE  GenBounded("retry_exhausted", RecoveredAttempts(s)[g], output[g], retries[g])
  BY RecoveredBounded, RestRows DEF GenBounded, Stopped

LEMMA ClaimBounded ==
  ASSUME BInv, NEW p \in Processes, NEW s \in Stages, NEW g \in Gen, Claim(p, s, g), NEW h \in Gen
  PROVE  GenBounded(state'[h], attempts'[h], output'[h], retries'[h])
  <1> DEFINE old == RecoveredAttempts(s)
  <1>1. /\ g \in Candidates(s) \ Spent(s) /\ Take(p, g, s, old)
        /\ state'[h] \in IF h = g THEN {Active(s)} ELSE {"retry_exhausted", RecoveredState(s)[h]}
        /\ output' = output /\ retries' = retries
    BY DEF Claim
  <1>2. /\ old[h] \in Seq(Attempt) /\ retries[h] \in Nat /\ h \in DOMAIN old
        /\ GenBounded(RecoveredState(s)[h], old[h], output[h], retries[h])
        /\ Tries(old[h], s) = Count(h, s)
    BY RecoveredBounded, RecoveredSound DEF BInv, IInv, JobTypeOK, RecoveredAttempts
  <1>3. CASE h # g
    <2>1. attempts'[h] = old[h]
      BY <1>1, <1>2, <1>3 DEF Take
    <2> QED BY <1>1, <1>2, <1>3, <2>1, ExhaustedBounded
  <1>4. CASE h = g
    <2>1. attempts'[g] = Append(old[g], [stage |-> s, status |-> "running"]) /\ state'[g] = Active(s)
      BY <1>1, <1>2, <1>4 DEF Take
    <2>2. CASE RecoveredState(s)[g] = Expected(s)
      <3>1. Tries(old[g], s) < MaxAttempts + retries[g]
        BY <1>1, <1>2, <1>4, <2>2, CandidateRests DEF BInv, GenBounded, Spare
      <3> QED BY <1>1, <1>2, <1>4, <2>1, <2>2, <3>1, TakeRows DEF GenBounded
    <2>3. CASE RecoveredState(s)[g] # Expected(s)
      <3>1. RecoveredState(s)[g] = "retryable_failure" /\ attempts[g] # <<>> /\ LastAttempt(g).stage = s
        BY <1>1, <2>3, CandidateUndone DEF BInv, Candidates
      <3>2. \E i \in DOMAIN old[g] : old[g][i].stage = s
        <4>1. Len(attempts[g]) \in DOMAIN attempts[g]
          BY <3>1, Rows DEF BInv, IInv
        <4> QED BY <3>1, <4>1, RecoveredSound DEF BInv, LastAttempt
      <3>3. Tries(old[g], s) < MaxAttempts
        <4>1. ~(Count(g, s) >= MaxAttempts) /\ Tries(old[g], s) \in Nat
          BY <1>1, <1>2, <1>4, <3>1, TriesFacts DEF Spent
        <4> QED BY <1>2, <1>4, <4>1, LimitAssumption
      <3>4. Tries(old[g], s) < MaxAttempts + retries[g]
        <4>1. Tries(old[g], s) \in Nat
          BY <1>2, <1>4, TriesFacts
        <4> QED BY <1>2, <1>4, <3>3, <4>1, LimitAssumption
      <3>5. /\ InOrder(RecoveredState(s)[g], old[g], output[g])
            /\ Spare(RecoveredState(s)[g], old[g], retries[g])
            /\ old[g] \in Seq(Attempt) /\ retries[g] \in Nat /\ retries[g] <= retries[g]
        BY <1>2, <1>4 DEF GenBounded
      <3>6. LET new == Append(old[g], [stage |-> s, status |-> "running"])
            IN  InOrder(Active(s), new, output[g]) /\ Spare(Active(s), new, retries[g])
        BY <3>2, <3>4, <3>5, TakeRows
      <3> QED BY <1>1, <1>4, <2>1, <3>6 DEF GenBounded
    <2> QED BY <2>2, <2>3
  <1> QED BY <1>3, <1>4

LEMMA NextBInv == BInv /\ [JobNext]_jobVars => BInv'
  <1> SUFFICES ASSUME BInv, [JobNext]_jobVars, NEW h \in Gen
               PROVE  GenBounded(state'[h], attempts'[h], output'[h], retries'[h])
    BY NextIInv DEF BInv, GenBounded
  <1> DEFINE Goal == GenBounded(state'[h], attempts'[h], output'[h], retries'[h])
  <1>0. /\ GenBounded(state[h], attempts[h], output[h], retries[h])
        /\ attempts[h] \in Seq(Attempt) /\ retries[h] \in Nat /\ JobTypeOK /\ IInv
    BY DEF BInv, IInv, JobTypeOK, GenBounded
  <1>1. CASE UNCHANGED <<state, attempts, output, retries>>
    BY <1>0, <1>1
  <1>2. ASSUME NEW g \in Gen, state[g] = "none", Queue(g) PROVE Goal
    <2>1. CASE h = g
      <3>1. attempts[g] = <<>>
        BY <1>0, <1>2, <2>1 DEF GenBounded, InOrder
      <3>2. \A s \in Stages : Tries(<<>>, s) = 0
        BY FS_EmptySet DEF Tries
      <3>3. \A s, t \in Stages : "queued" \in {"none", Expected(s), Active(s)} => ~Precedes(t, s)
        BY DEF Stages, Expected, Active, Precedes
      <3> QED BY <1>0, <1>2, <2>1, <3>1, <3>2, <3>3, LimitAssumption
              DEF Queue, GenBounded, InOrder, Spare, JobTypeOK
    <2> QED BY <1>0, <1>2, <2>1 DEF Queue, JobTypeOK
  <1>3. ASSUME NEW g \in Gen, Supersede(g) \/ Retire(g) PROVE Goal
    <2>1. state'[h] = IF h = g THEN "superseded" ELSE state[h]
      BY <1>0, <1>3 DEF Supersede, Unstarted, Retire, SetState, JobTypeOK
    <2>2. UNCHANGED <<attempts, output, retries>>
      BY <1>3 DEF Supersede, Unstarted, Retire, SetState
    <2> QED BY <1>0, <2>1, <2>2, RestRows DEF GenBounded
  <1>4. ASSUME NEW g \in Gen, Retry(g) PROVE Goal
    <2> DEFINE s == LastAttempt(g).stage
    <2>1. /\ s \in Stages /\ Running(g) = {} /\ attempts[g] # <<>>
          /\ state' = [state EXCEPT ![g] = Expected(s)] /\ UNCHANGED <<attempts, output>>
          /\ retries' = [retries EXCEPT ![g] = retries[g] + 1]
      BY <1>0, <1>4, Rows DEF Retry, SetState
    <2>2. CASE h = g
      <3>1. Len(attempts[g]) \in DOMAIN attempts[g] /\ attempts[g][Len(attempts[g])].stage = s
        BY <1>0, <2>1, <2>2 DEF LastAttempt
      <3> HIDE DEF s
      <3>2. Expected(s) # "none" /\ \A u \in Stages : Expected(s) \in {Expected(u), Active(u)} => u = s
        BY <2>1, StageStates DEF ActiveStates
      <3>3. InOrder(Expected(s), attempts[g], output[g])
        BY <1>0, <2>1, <2>2, <3>1, <3>2 DEF GenBounded, InOrder
      <3>4. \A u \in Stages : Tries(attempts[g], u) \in Nat /\ Tries(attempts[g], u) <= MaxAttempts + retries[g]
        BY <1>0, <2>2, TriesFacts DEF GenBounded, Spare
      <3>5. Spare(Expected(s), attempts[g], retries[g] + 1)
        BY <1>0, <2>2, <3>4, LimitAssumption DEF Spare
      <3> QED BY <1>0, <2>1, <2>2, <3>3, <3>5 DEF GenBounded, JobTypeOK
    <2> QED BY <1>0, <2>1, <2>2 DEF JobTypeOK
  <1>5. ASSUME NEW p \in Processes, NEW s \in Stages, ClaimNothing(p, s) PROVE Goal
    BY <1>5, RecoveredBounded, ExhaustedBounded DEF ClaimNothing
  <1>6. ASSUME NEW p \in Processes, NEW s \in Stages, NEW g \in Gen, Claim(p, s, g) PROVE Goal
    BY <1>6, ClaimBounded
  <1>7. ASSUME NEW p \in Processes, NEW s \in Stages, NEW g \in Gen, StartAttempt(p, g, s) PROVE Goal
    <2>1. /\ state[g] = Expected(s) /\ Running(g) = {} /\ Take(p, g, s, attempts)
          /\ state' = [state EXCEPT ![g] = Active(s)] /\ output' = output
          /\ retries' = [retries EXCEPT ![g] = retries[g] + 1]
      BY <1>7 DEF StartAttempt
    <2>2. CASE h = g
      <3>1. Tries(attempts[g], s) < MaxAttempts + (retries[g] + 1) /\ retries[g] <= retries[g] + 1
        <4>1. Tries(attempts[g], s) \in Nat /\ Tries(attempts[g], s) <= MaxAttempts + retries[g]
          BY <1>0, <2>2, TriesFacts DEF GenBounded, Spare
        <4> QED BY <1>0, <2>2, <4>1, LimitAssumption
      <3>2. /\ attempts'[g] = Append(attempts[g], [stage |-> s, status |-> "running"])
            /\ state'[g] = Active(s) /\ retries'[g] = retries[g] + 1 /\ retries[g] + 1 \in Nat
        BY <1>0, <2>1, <2>2 DEF Take, JobTypeOK
      <3> QED BY <1>0, <2>1, <2>2, <3>1, <3>2, TakeRows DEF GenBounded
    <2> QED BY <1>0, <2>1, <2>2 DEF Take, JobTypeOK
  <1>8. ASSUME NEW p \in Processes, NEW o \in Outcomes, Complete(p, o) PROVE Goal
    <2> DEFINE g == work[p][1]
               i == work[p][2]
               s == attempts[g][i].stage
               new == [attempts[g] EXCEPT ![i].status = o]
               sel == IF o = "succeeded" THEN [output[g] EXCEPT ![s] = i] ELSE output[g]
    <2>1. g \in Gen /\ i \in DOMAIN attempts[g]
      BY <1>0, <1>8 DEF Complete, IInv, JobTypeOK, WorkExists
    <2>2. /\ attempts' = [attempts EXCEPT ![g] = new] /\ output' = [output EXCEPT ![g] = sel]
          /\ state' = [state EXCEPT ![g] = StateAfter(s, o)] /\ retries' = retries
      BY <1>0, <1>8, <2>1 DEF Complete, JobTypeOK
    <2>3. CASE h = g
      <3>1. attempts[g][i] \in Attempt /\ output[g] \in [Stages -> Nat]
        BY <1>0, <2>1, <2>3, Rows
      <3>2. output[g][s] = 0
        <4>1. state[g] = Active(s) /\ s \in Stages
          BY <1>8, <3>1 DEF Complete, Accepted, Attempt
        <4>2. GenOK(state[g], attempts[g], output[g])
          BY <1>0, <2>1 DEF IInv
        <4> HIDE DEF s, g, i
        <4> QED BY <4>1, <4>2 DEF GenOK, Undone
      <3>3. GenBounded(StateAfter(s, o), new, sel, retries[g])
        <4>1. /\ attempts[g] \in Seq(Attempt) /\ retries[g] \in Nat
              /\ InOrder(state[g], attempts[g], output[g])
              /\ Spare(state[g], attempts[g], retries[g])
          BY <1>0, <2>3 DEF GenBounded
        <4> HIDE DEF g, i
        <4> QED BY <2>1, <3>1, <3>2, <4>1, CompleteRows DEF GenBounded
      <3> HIDE DEF s, new, sel, g, i
      <3> QED BY <1>0, <2>1, <2>2, <2>3, <3>3 DEF JobTypeOK
    <2> HIDE DEF s, new, sel, g, i
    <2> QED BY <1>0, <2>1, <2>2, <2>3 DEF JobTypeOK
  <1> HIDE DEF Goal
  <1>9. ASSUME NEW j \in Jobs, Submit(j) PROVE Goal
    <2>1. <<j, 1>> \in Gen
      BY JobBoundAssumption DEF Gen
    <2> QED BY <1>2, <1>9, <2>1 DEF Submit
  <1>10. ASSUME NEW g \in Gen, Regenerate(g) PROVE Goal
    <2>1. <<g[1], g[2] + 1>> \in Gen /\ state[<<g[1], g[2] + 1>>] = "none"
      BY <1>10, JobBoundAssumption DEF Regenerate, Current, Gen
    <2> QED BY <1>2, <1>10, <2>1 DEF Regenerate
  <1> QED BY <1>1, <1>3, <1>4, <1>5, <1>6, <1>7, <1>8, <1>9, <1>10
          DEF JobNext, ClaimStage, Finish, Refused, Crash, jobVars, Goal

\* No stage of a generation is tried more often than the limit and the manual
\* retries and starts together allow.
THEOREM Bounded == JobSpec => []AttemptsBounded
  <1>1. BInv => AttemptsBounded
    <2>1. \A g \in Gen, s \in Stages : Count(g, s) = Tries(attempts[g], s)
      BY DEF Count, Tries
    <2> QED BY <2>1 DEF BInv, Spare, AttemptsBounded
  <1> QED BY <1>1, InitBInv, NextBInv, PTL DEF JobSpec

-----------------------------------------------------------------------------

\* A generation in the first stage is there by an attempt that still runs.  In
\* the later stages it may also wait for its first attempt.
Attended == \A g \in Gen : state[g] = "generating" => Running(g) # {}

AInv == IInv /\ Attended

\* The recovery of a claim leaves no generation of the first stage unattended.
LEMMA RecoveredAttended ==
  ASSUME AInv, NEW s \in Stages, NEW g \in Gen, RecoveredState(s)[g] = "generating"
  PROVE  \E i \in DOMAIN RecoveredAttempts(s)[g] : RecoveredAttempts(s)[g][i].status = "running"
  <1>1. g \notin LeftRunning(s) /\ state[g] = "generating"
    BY DEF RecoveredState
  <1>2. PICK i \in DOMAIN attempts[g] : attempts[g][i].status = "running"
    BY <1>1 DEF AInv, Attended, Running
  <1>3. RecoveredAttempts(s)[g] = [k \in DOMAIN attempts[g] |-> attempts[g][k]]
    BY <1>1 DEF RecoveredAttempts
  <1> QED BY <1>2, <1>3

\* The attempt a process takes attends its generation.
LEMMA TakenAttends ==
  ASSUME NEW p \in Processes, NEW s \in Stages, NEW g \in Gen,
         NEW old \in [Gen -> Seq(Attempt)], Take(p, g, s, old)
  PROVE  /\ Running(g)' # {}
         /\ \A h \in Gen \ {g} : attempts'[h] = old[h]
  <1> DEFINE a == [stage |-> s, status |-> "running"]
             n == Len(old[g]) + 1
  <1>1. a \in Attempt
    BY DEF Attempt
  <1> HIDE DEF a
  <1>2. attempts' = [old EXCEPT ![g] = Append(old[g], a)]
    BY DEF Take, a
  <1>3. n \in DOMAIN attempts'[g] /\ attempts'[g][n] = a
    BY <1>1, <1>2
  <1>4. \A h \in Gen \ {g} : attempts'[h] = old[h]
    BY <1>2
  <1> QED BY <1>3, <1>4 DEF Running, a

LEMMA NextAInv == AInv /\ [JobNext]_jobVars => AInv'
  <1> SUFFICES ASSUME AInv, [JobNext]_jobVars, NEW h \in Gen, state'[h] = "generating"
               PROVE  \E i \in DOMAIN attempts'[h] : attempts'[h][i].status = "running"
    BY NextIInv DEF AInv, Attended, Running
  <1> DEFINE Goal == \E i \in DOMAIN attempts'[h] : attempts'[h][i].status = "running"
  <1>0. IInv /\ JobTypeOK /\ (state[h] = "generating" => Running(h) # {})
    BY DEF AInv, IInv, Attended
  <1>1. CASE state'[h] = state[h] /\ attempts'[h] = attempts[h]
    BY <1>0, <1>1 DEF Running
  <1>2. ASSUME NEW g \in Gen, NEW new \in States \ {"generating"},
               state' = [state EXCEPT ![g] = new], attempts' = attempts
        PROVE  Goal
    BY <1>0, <1>1, <1>2 DEF JobTypeOK
  <1>3. \A s \in Stages : Expected(s) \in States \ {"generating"}
    BY DEF Stages, Expected, Active, States, ActiveStates
  <1>4. ASSUME NEW j \in Jobs, Submit(j) PROVE Goal
    <2>1. <<j, 1>> \in Gen
      BY JobBoundAssumption DEF Gen
    <2> QED BY <1>2, <1>4, <2>1 DEF Submit, Queue, States
  <1>5. ASSUME NEW g \in Gen, Regenerate(g) PROVE Goal
    <2>1. <<g[1], g[2] + 1>> \in Gen
      BY <1>5, JobBoundAssumption DEF Regenerate, Gen
    <2> QED BY <1>2, <1>5, <2>1 DEF Regenerate, Queue, States
  <1>6. ASSUME NEW g \in Gen, Supersede(g) \/ Retire(g) PROVE Goal
    BY <1>2, <1>6 DEF Supersede, Retire, SetState, States
  <1>7. ASSUME NEW g \in Gen, Retry(g) PROVE Goal
    <2>1. LastAttempt(g).stage \in Stages
      BY <1>0, <1>7, Rows DEF Retry
    <2> QED BY <1>2, <1>3, <1>7, <2>1 DEF Retry, SetState
  <1>8. ASSUME NEW p \in Processes, NEW s \in Stages, ClaimNothing(p, s) PROVE Goal
    <2>1. state'[h] \in {"retry_exhausted", RecoveredState(s)[h]}
      BY <1>8 DEF ClaimNothing
    <2> QED BY <1>8, <2>1, RecoveredAttended DEF ClaimNothing
  <1>9. ASSUME NEW p \in Processes, NEW s \in Stages, NEW g \in Gen, Claim(p, s, g) PROVE Goal
    <2>1. /\ Take(p, g, s, RecoveredAttempts(s))
          /\ h # g => state'[h] \in {"retry_exhausted", RecoveredState(s)[h]}
      BY <1>9 DEF Claim
    <2>2. RecoveredAttempts(s) \in [Gen -> Seq(Attempt)]
      BY <1>0, RecoveredSound DEF RecoveredAttempts
    <2>3. Running(g)' # {} /\ (h # g => attempts'[h] = RecoveredAttempts(s)[h])
      BY <2>1, <2>2, TakenAttends
    <2>4. CASE h = g
      BY <2>3, <2>4 DEF Running
    <2>5. CASE h # g
      BY <2>1, <2>3, <2>5, RecoveredAttended
    <2> QED BY <2>4, <2>5
  <1>10. ASSUME NEW p \in Processes, NEW s \in Stages, NEW g \in Gen, StartAttempt(p, g, s) PROVE Goal
    <2>1. Running(g)' # {} /\ (h # g => attempts'[h] = attempts[h])
      <3>1. attempts \in [Gen -> Seq(Attempt)] /\ Take(p, g, s, attempts)
        BY <1>0, <1>10 DEF StartAttempt, JobTypeOK
      <3> QED BY <3>1, TakenAttends
    <2>2. h # g => state'[h] = state[h]
      BY <1>0, <1>10 DEF StartAttempt, JobTypeOK
    <2> QED BY <1>1, <2>1, <2>2 DEF Running
  <1>11. ASSUME NEW p \in Processes, NEW o \in Outcomes, Complete(p, o) PROVE Goal
    <2> DEFINE g == work[p][1]
               i == work[p][2]
               s == attempts[g][i].stage
    <2>1. g \in Gen /\ i \in DOMAIN attempts[g] /\ attempts[g] \in Seq(Attempt)
      BY <1>0, <1>11 DEF Complete, IInv, JobTypeOK, WorkExists
    <2>2. s \in Stages
      <3>1. attempts[g][i] \in Attempt
        BY <2>1
      <3> QED BY <3>1 DEF Attempt
    <2>3. StateAfter(s, o) # "generating"
      BY <2>2 DEF StateAfter, Success, Stages, Outcomes
    <2>4. /\ state' = [state EXCEPT ![g] = StateAfter(s, o)]
          /\ h # g => attempts'[h] = attempts[h]
      BY <1>0, <1>11 DEF Complete, JobTypeOK
    <2> QED BY <1>0, <1>1, <2>1, <2>3, <2>4 DEF JobTypeOK
  <1> HIDE DEF Goal
  <1>12. ASSUME UNCHANGED <<state, attempts>> PROVE Goal
    BY <1>1, <1>12 DEF Goal
  <1> QED BY <1>4, <1>5, <1>6, <1>7, <1>8, <1>9, <1>10, <1>11, <1>12
          DEF JobNext, ClaimStage, Finish, Refused, Crash, jobVars, Goal

\* The claims of the stages share the generations on their way out among
\* themselves: each has exactly one stage that would take it up.
THEOREM AlwaysResponsible == JobSpec => []OneStageResponsible
  <1>1. JobInit => AInv
    BY InitIInv DEF AInv, Attended, JobInit
  <1>2. AInv => OneStageResponsible
    <2> SUFFICES ASSUME AInv, NEW g \in Gen, Current(g),
                        state[g] \notin Stopped \cup Endings \cup {"superseded"}
                 PROVE  \E s \in Stages : \A t \in Stages : g \in Candidates(t) <=> t = s
      BY DEF OneStageResponsible
    <2>1. /\ state[g] \in ActiveStates \cup {"queued", "retryable_failure"}
          /\ attempts[g] \in Seq(Attempt) /\ GenOK(state[g], attempts[g], output[g])
      BY Rows DEF AInv, IInv, States, Current
    <2>2. \A s, t \in Stages : /\ Expected(s) = Expected(t) => s = t
                               /\ Active(s) = Expected(t) => s = t
                               /\ Expected(s) # "retryable_failure" /\ Active(s) # "retryable_failure"
      BY DEF Stages, Active, Expected
    <2>3. CASE Running(g) # {}
      <3>1. PICK i \in DOMAIN attempts[g] : attempts[g][i].status = "running"
        BY <2>3 DEF Running
      <3> DEFINE s == attempts[g][i].stage
      <3>2. s \in Stages
        <4>1. attempts[g][i] \in Attempt
          BY <2>1
        <4> QED BY <4>1 DEF Attempt
      <3>3. /\ state[g] = Active(s) /\ LastAttempt(g).stage = s
            /\ \A j \in Running(g) : attempts[g][j].stage = s
        BY <2>1, <3>1 DEF GenOK, RunningIsLast, Running, LastAttempt
      <3>4. g \in LeftRunning(s) /\ \A t \in Stages \ {s} : g \notin LeftRunning(t)
        BY <3>1, <3>3 DEF LeftRunning, Running
      <3> HIDE DEF s
      <3>5. /\ RecoveredState(s)[g] = "retryable_failure"
            /\ \A t \in Stages \ {s} : RecoveredState(t)[g] = Active(s)
        BY <3>3, <3>4 DEF RecoveredState
      <3> QED BY <2>2, <3>2, <3>3, <3>5 DEF Candidates
    <2>4. CASE Running(g) = {}
      <3>1. \A t \in Stages : RecoveredState(t)[g] = state[g]
        BY <2>4 DEF RecoveredState, LeftRunning
      <3>2. CASE state[g] = "retryable_failure"
        <4>1. LastAttempt(g).stage \in Stages
          BY <2>1, <3>2, Rows DEF GenOK, Undone, Failures, AInv, IInv
        <4> QED BY <2>2, <3>1, <3>2, <4>1 DEF Candidates
      <3>3. CASE state[g] # "retryable_failure"
        <4>1. \E s \in Stages : state[g] = Expected(s)
          BY <2>1, <2>4, <3>3 DEF AInv, Attended, ActiveStates, Stages, Expected, Active
        <4> QED BY <2>2, <3>1, <3>3, <4>1 DEF Candidates
      <3> QED BY <3>2, <3>3
    <2> QED BY <2>3, <2>4
  <1> QED BY <1>1, <1>2, NextAInv, PTL DEF JobSpec
====
