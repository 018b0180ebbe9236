---- MODULE LocalExecutionProofs ----
(***************************************************************************)
(* Theorems of the host-local effect path (module LocalExecution), for any *)
(* number of mutations, targets, runners, crashes and edits.  The argument *)
(* is the flock: while a runner is inside its section nobody else moves    *)
(* the mutation on, so what it read under the lock stays true.             *)
(***************************************************************************)
EXTENDS LocalExecution, TLAPS

\* A runner inside its section holds the flock of its mutation.
Locked == \A r \in Runners : place[r] # "idle" => lock[job[r]] = r

\* An intent needs the approval; past the preparation there is an intent.
Approved ==
  /\ \A m \in intent : review[m] = "approve"
  /\ \A r \in Runners : place[r] \in {"check", "link", "sync", "receipt"} =>
                          job[r] \in intent

\* Past the link the note is this service's work.
Provenance ==
  /\ receipt \subseteq created \cap intent
  /\ \A r \in Runners : place[r] \in {"sync", "receipt"} => job[r] \in created

\* A recovery-aware runner on its way to the effect saw no recovery record.
Unresolved ==
  \A r \in AwareRunners : place[r] \in {"prepare", "check", "link"} =>
                            recovery[job[r]] = "none"

\* Until a Human edits the Vault, the disk lags behind it but never contradicts
\* it, and a note reaches the disk before its receipt is stored.
Durable ==
  edits = 0 =>
    /\ \A t \in Targets : vaultDisk[t] # Absent => vault[t] = vaultDisk[t]
    /\ \A r \in Runners :
         /\ place[r] = "sync" => vault[Target[job[r]]] # Absent
         /\ place[r] = "receipt" => vaultDisk[Target[job[r]]] # Absent
    /\ \A m \in receipt : vaultDisk[Target[m]] # Absent

IInv == LocalTypeOK /\ Locked /\ Approved /\ Provenance /\ Unresolved /\ Durable

-----------------------------------------------------------------------------

LEMMA InitIInv == LocalInit => IInv
  <1> SUFFICES ASSUME LocalInit PROVE IInv
    OBVIOUS
  <1>1. LocalTypeOK
    BY LocalBoundAssumption, LocalRunnerAssumption
       DEF LocalInit, LocalTypeOK, Places, Decisions, Recoveries
  <1>2. Locked /\ Approved /\ Provenance /\ Unresolved /\ Durable
    BY DEF LocalInit, Locked, Approved, Provenance, Unresolved, Durable, Runners
  <1> QED BY <1>1, <1>2 DEF IInv

LEMMA TypeStep == LocalTypeOK /\ [LocalNext]_localVars => LocalTypeOK'
  <1> SUFFICES ASSUME LocalTypeOK, [LocalNext]_localVars PROVE LocalTypeOK'
    OBVIOUS
  <1> USE LocalBoundAssumption, LocalBindingAssumption, LocalAbsentAssumption
      DEF LocalTypeOK, artifacts, procs, vaults, budget
  <1>1. ASSUME NEW m \in Mutations, NEW d \in Decisions, Decide(m, d)
        PROVE  LocalTypeOK'
    BY <1>1 DEF Decide
  <1>2. ASSUME NEW m \in Mutations, NEW r \in Runners, Run(r, m)
        PROVE  LocalTypeOK'
    BY <1>2 DEF Run, Places
  <1>3. ASSUME NEW m \in Mutations, NEW d \in Recoveries, RecordRecovery(m, d)
        PROVE  LocalTypeOK'
    BY <1>3 DEF RecordRecovery
  <1>4. ASSUME NEW r \in Runners, Reconcile(r)
        PROVE  LocalTypeOK'
    BY <1>4 DEF Reconcile, Move, Release, Places
  <1>5. ASSUME NEW r \in Runners, Prepare(r)
        PROVE  LocalTypeOK'
    BY <1>5 DEF Prepare, Move, Release, Places
  <1>6. ASSUME NEW r \in Runners, CheckEffect(r)
        PROVE  LocalTypeOK'
    BY <1>6 DEF CheckEffect, Move, Release, Places
  <1>7. ASSUME NEW r \in Runners, Link(r)
        PROVE  LocalTypeOK'
    BY <1>7 DEF Link, Move, Release, Places
  <1>8. ASSUME NEW r \in Runners, SyncNote(r) \/ StoreReceipt(r) \/ Interrupt(r)
        PROVE  LocalTypeOK'
    BY <1>8 DEF SyncNote, StoreReceipt, Interrupt, Move, Release, Places
  <1>9. ASSUME NEW t \in Targets, NEW c \in Contents \cup {Absent}, HumanEdit(t, c)
        PROVE  LocalTypeOK'
    BY <1>9 DEF HumanEdit
  <1>10. CASE HostPowerLoss \/ NoteWriteBack
    BY <1>10 DEF HostPowerLoss, NoteWriteBack, Places
  <1>11. CASE UNCHANGED localVars
    BY <1>11 DEF localVars
  <1> QED BY <1>1, <1>2, <1>3, <1>4, <1>5, <1>6, <1>7, <1>8, <1>9, <1>10, <1>11
          DEF LocalNext

-----------------------------------------------------------------------------

\* What a move inside the section does to the process variables.
LEMMA Moved ==
  ASSUME LocalTypeOK, NEW r \in Runners, NEW step \in Places, Move(r, step)
  PROVE  /\ place'[r] = step
         /\ \A s \in Runners \ {r} : place'[s] = place[s]
         /\ lock' = lock /\ job' = job
  BY DEF LocalTypeOK, Move

\* What leaving it does: the runner's locks are free, all others stay.
LEMMA Released ==
  ASSUME LocalTypeOK, NEW r \in Runners, Release(r)
  PROVE  /\ place'[r] = "idle"
         /\ \A s \in Runners \ {r} : place'[s] = place[s]
         /\ \A m \in Mutations : lock[m] # r => lock'[m] = lock[m]
         /\ job' = job
  BY DEF LocalTypeOK, Release

\* The three states a runner can be sent on from.
LEMMA StateMeaning ==
  ASSUME LocalTypeOK, NEW r \in Runners, NEW m \in Mutations
  PROVE  /\ State(r, m) = "pending_retry" => m \in intent
         /\ State(r, m) \in {"not_started", "pending_retry"} /\ r \in AwareRunners =>
              recovery[m] = "none"
  <1>1. Raw(m) \in {"not_started", "completed", "pending_retry", "conflict",
                    "effect_observed_without_receipt"}
    BY DEF Raw, Observed
  <1>2. Raw(m) = "pending_retry" => m \in intent
    BY DEF Raw, Observed
  <1>3. recovery[m] \in {"none", "adopt_observed_effect", "abandon"}
    BY DEF LocalTypeOK, Recoveries
  <1>4. recovery[m] # "none" =>
          Recovered(m) \in {"conflict", "resolved_abandoned", "resolved_effect_adopted"}
    BY <1>1, <1>3 DEF Recovered
  <1>5. recovery[m] = "none" => Recovered(m) = Raw(m)
    BY DEF Recovered
  <1> QED BY <1>2, <1>4, <1>5 DEF State

LEMMA LockedStep == LocalTypeOK /\ Locked /\ [LocalNext]_localVars => Locked'
  <1> SUFFICES ASSUME LocalTypeOK, Locked, [LocalNext]_localVars PROVE Locked'
    OBVIOUS
  <1> USE DEF artifacts, procs, vaults, budget
  <1>0. Nobody \notin Runners
    BY LocalRunnerAssumption
  <1>1. ASSUME NEW r \in Runners, NEW step \in Places, Move(r, step), place[r] # "idle"
        PROVE  Locked'
    BY <1>1, Moved DEF Locked
  <1>2. ASSUME NEW r \in Runners, Release(r)
        PROVE  Locked'
    <2>1. \A s \in Runners \ {r} : place'[s] # "idle" => lock'[job'[s]] = s
      BY <1>2, Released DEF Locked, LocalTypeOK
    <2> QED BY <1>2, <2>1, Released DEF Locked
  <1>3. ASSUME NEW m \in Mutations, NEW r \in Runners, Run(r, m)
        PROVE  Locked'
    <2>1. /\ place'[r] = "reconcile" /\ job'[r] = m /\ lock'[m] = r
          /\ \A s \in Runners \ {r} : place'[s] = place[s] /\ job'[s] = job[s]
          /\ \A n \in Mutations \ {m} : lock'[n] = lock[n]
      BY <1>3 DEF Run, LocalTypeOK
    <2>2. \A s \in Runners \ {r} : place[s] # "idle" => job[s] \in Mutations \ {m}
      BY <1>0, <1>3 DEF Run, Locked, LocalTypeOK
    <2> QED BY <2>1, <2>2 DEF Locked
  <1>4. ASSUME NEW r \in Runners,
               Reconcile(r) \/ Prepare(r) \/ CheckEffect(r) \/ Link(r) \/ SyncNote(r)
        PROVE  Locked'
    BY <1>1, <1>2, <1>4 DEF Reconcile, Prepare, CheckEffect, Link, SyncNote, Places
  <1>5. ASSUME NEW r \in Runners, StoreReceipt(r) \/ Interrupt(r)
        PROVE  Locked'
    BY <1>2, <1>5 DEF StoreReceipt, Interrupt
  <1>6. CASE HostPowerLoss
    BY <1>6 DEF HostPowerLoss, Locked
  <1> QED BY <1>3, <1>4, <1>5, <1>6
          DEF LocalNext, Decide, RecordRecovery, HumanEdit, NoteWriteBack, localVars, Locked

-----------------------------------------------------------------------------

LEMMA ApprovedStep == IInv /\ [LocalNext]_localVars => Approved'
  <1> SUFFICES ASSUME IInv, [LocalNext]_localVars PROVE Approved'
    OBVIOUS
  <1> USE DEF artifacts, procs, vaults, budget
  <1>0. LocalTypeOK /\ Approved /\ \A r \in Runners : job[r] \in Mutations
    BY DEF IInv, LocalTypeOK
  <1>1. ASSUME NEW m \in Mutations, NEW d \in Decisions, Decide(m, d)
        PROVE  Approved'
    BY <1>0, <1>1 DEF Decide, Approved, LocalTypeOK
  <1>2. ASSUME NEW m \in Mutations, NEW r \in Runners, Run(r, m)
        PROVE  Approved'
    <2>1. /\ place'[r] = "reconcile" /\ UNCHANGED <<review, intent>>
          /\ \A s \in Runners \ {r} : place'[s] = place[s] /\ job'[s] = job[s]
      BY <1>0, <1>2 DEF Run, LocalTypeOK
    <2> QED BY <1>0, <2>1 DEF Approved
  <1>3. ASSUME NEW r \in Runners, NEW step \in Places, Move(r, step),
               UNCHANGED <<review, intent>>,
               step \in {"check", "link", "sync", "receipt"} => job[r] \in intent
        PROVE  Approved'
    BY <1>0, <1>3, Moved DEF Approved
  <1>4. ASSUME NEW r \in Runners, Release(r), UNCHANGED <<review, intent>>
        PROVE  Approved'
    BY <1>0, <1>4, Released DEF Approved
  <1>5. ASSUME NEW r \in Runners, Reconcile(r)
        PROVE  Approved'
    <2>1. CASE State(r, job[r]) = "pending_retry"
      <3>1. job[r] \in intent /\ Move(r, "check")
        BY <1>0, <1>5, <2>1, StateMeaning DEF Reconcile
      <3> QED BY <1>3, <1>5, <3>1 DEF Reconcile, Places
    <2>2. CASE State(r, job[r]) # "pending_retry"
      BY <1>3, <1>4, <1>5, <2>2 DEF Reconcile, Places
    <2> QED BY <2>1, <2>2
  <1>6. ASSUME NEW r \in Runners, Prepare(r)
        PROVE  Approved'
    <2>1. CASE Move(r, "reconcile") /\ review[job[r]] = "approve"
               /\ intent' = intent \cup {job[r]}
      BY <1>0, <1>6, <2>1, Moved DEF Prepare, Approved, Places
    <2> QED BY <1>4, <1>6, <2>1 DEF Prepare
  <1>7. ASSUME NEW r \in Runners, CheckEffect(r) \/ Link(r) \/ SyncNote(r)
        PROVE  Approved'
    <2>1. job[r] \in intent \/ place[r] = "idle"
      BY <1>0, <1>7 DEF CheckEffect, Link, SyncNote, Approved
    <2> QED BY <1>3, <1>4, <1>7, <2>1
            DEF CheckEffect, Link, SyncNote, Places
  <1>8. ASSUME NEW r \in Runners, StoreReceipt(r) \/ Interrupt(r)
        PROVE  Approved'
    BY <1>4, <1>8 DEF StoreReceipt, Interrupt
  <1>9. CASE HostPowerLoss
    BY <1>0, <1>9 DEF HostPowerLoss, Approved
  <1> QED BY <1>0, <1>1, <1>2, <1>5, <1>6, <1>7, <1>8, <1>9
          DEF LocalNext, RecordRecovery, HumanEdit, NoteWriteBack, localVars, Approved

LEMMA ProvenanceStep == IInv /\ [LocalNext]_localVars => Provenance'
  <1> SUFFICES ASSUME IInv, [LocalNext]_localVars PROVE Provenance'
    OBVIOUS
  <1> USE DEF artifacts, procs, vaults, budget
  <1>0. LocalTypeOK /\ Approved /\ Provenance /\ \A r \in Runners : job[r] \in Mutations
    BY DEF IInv, LocalTypeOK
  <1>1. ASSUME NEW m \in Mutations, NEW r \in Runners, Run(r, m)
        PROVE  Provenance'
    <2>1. /\ place'[r] = "reconcile" /\ UNCHANGED <<intent, receipt, created>>
          /\ \A s \in Runners \ {r} : place'[s] = place[s] /\ job'[s] = job[s]
      BY <1>0, <1>1 DEF Run, LocalTypeOK
    <2> QED BY <1>0, <2>1 DEF Provenance
  <1>2. ASSUME NEW r \in Runners, NEW step \in Places, Move(r, step),
               receipt' = receipt, intent \subseteq intent', created \subseteq created',
               step \in {"sync", "receipt"} => job[r] \in created'
        PROVE  Provenance'
    BY <1>0, <1>2, Moved DEF Provenance
  <1>3. ASSUME NEW r \in Runners, Release(r), UNCHANGED <<intent, created>>,
               receipt' \subseteq receipt \cup (created \cap intent)
        PROVE  Provenance'
    BY <1>0, <1>3, Released DEF Provenance
  <1>4. ASSUME NEW r \in Runners, Reconcile(r) \/ Prepare(r) \/ CheckEffect(r)
        PROVE  Provenance'
    BY <1>2, <1>3, <1>4 DEF Reconcile, Prepare, CheckEffect, Places
  <1>5. ASSUME NEW r \in Runners, Link(r) \/ SyncNote(r)
        PROVE  Provenance'
    BY <1>0, <1>2, <1>3, <1>5 DEF Link, SyncNote, Places, Provenance
  <1>6. ASSUME NEW r \in Runners, StoreReceipt(r) \/ Interrupt(r)
        PROVE  Provenance'
    <2>1. place[r] = "receipt" => job[r] \in created \cap intent
      BY <1>0 DEF Provenance, Approved
    <2> QED BY <1>3, <1>6, <2>1 DEF StoreReceipt, Interrupt
  <1>7. CASE HostPowerLoss
    BY <1>0, <1>7 DEF HostPowerLoss, Provenance
  <1> QED BY <1>0, <1>1, <1>4, <1>5, <1>6, <1>7
          DEF LocalNext, Decide, RecordRecovery, HumanEdit, NoteWriteBack, localVars, Provenance

LEMMA UnresolvedStep == IInv /\ [LocalNext]_localVars => Unresolved'
  <1> SUFFICES ASSUME IInv, [LocalNext]_localVars PROVE Unresolved'
    OBVIOUS
  <1> USE DEF artifacts, procs, vaults, budget
  <1>0. /\ LocalTypeOK /\ Locked /\ Unresolved
        /\ \A r \in Runners : job[r] \in Mutations
        /\ AwareRunners \subseteq Runners /\ Nobody \notin Runners
    BY LocalRunnerAssumption DEF IInv, LocalTypeOK, Runners
  <1>1. ASSUME NEW m \in Mutations, NEW r \in Runners, Run(r, m)
        PROVE  Unresolved'
    <2>1. /\ place'[r] = "reconcile" /\ recovery' = recovery
          /\ \A s \in Runners \ {r} : place'[s] = place[s] /\ job'[s] = job[s]
      BY <1>0, <1>1 DEF Run, LocalTypeOK
    <2> QED BY <1>0, <2>1 DEF Unresolved
  <1>2. ASSUME NEW r \in Runners, NEW step \in Places, Move(r, step), recovery' = recovery,
               step \in {"prepare", "check", "link"} /\ r \in AwareRunners =>
                 recovery[job[r]] = "none"
        PROVE  Unresolved'
    BY <1>0, <1>2, Moved DEF Unresolved
  <1>3. ASSUME NEW r \in Runners, Release(r), recovery' = recovery
        PROVE  Unresolved'
    BY <1>0, <1>3, Released DEF Unresolved
  <1>4. ASSUME NEW r \in Runners, Reconcile(r)
        PROVE  Unresolved'
    <2>1. CASE State(r, job[r]) \in {"not_started", "pending_retry"}
      <3>1. r \in AwareRunners => recovery[job[r]] = "none"
        BY <1>0, <2>1, StateMeaning
      <3> QED BY <1>2, <1>4, <2>1, <3>1 DEF Reconcile, Places
    <2>2. CASE State(r, job[r]) \notin {"not_started", "pending_retry"}
      BY <1>3, <1>4, <2>2 DEF Reconcile
    <2> QED BY <2>1, <2>2
  <1>5. ASSUME NEW r \in Runners, Prepare(r) \/ CheckEffect(r)
        PROVE  Unresolved'
    <2>1. r \in AwareRunners => recovery[job[r]] = "none"
      BY <1>0, <1>5 DEF Prepare, CheckEffect, Unresolved
    <2> QED BY <1>2, <1>3, <1>5, <2>1 DEF Prepare, CheckEffect, Places
  <1>6. ASSUME NEW r \in Runners, Link(r) \/ SyncNote(r) \/ StoreReceipt(r) \/ Interrupt(r)
        PROVE  Unresolved'
    BY <1>2, <1>3, <1>6 DEF Link, SyncNote, StoreReceipt, Interrupt, Places
  <1>7. ASSUME NEW m \in Mutations, NEW d \in Recoveries, RecordRecovery(m, d)
        PROVE  Unresolved'
    <2>1. \A r \in Runners : place[r] # "idle" => job[r] # m
      BY <1>0, <1>7 DEF RecordRecovery, Locked
    <2>2. /\ UNCHANGED <<place, job>>
          /\ \A n \in Mutations \ {m} : recovery'[n] = recovery[n]
      BY <1>0, <1>7 DEF RecordRecovery, LocalTypeOK
    <2> QED BY <1>0, <2>1, <2>2 DEF Unresolved
  <1>8. CASE HostPowerLoss
    BY <1>0, <1>8 DEF HostPowerLoss, Unresolved
  <1> QED BY <1>0, <1>1, <1>4, <1>5, <1>6, <1>7, <1>8
          DEF LocalNext, Decide, HumanEdit, NoteWriteBack, localVars, Unresolved

LEMMA DurableStep == IInv /\ [LocalNext]_localVars => Durable'
  <1> SUFFICES ASSUME IInv, [LocalNext]_localVars, edits' = 0 PROVE Durable'
    BY DEF Durable
  <1> USE DEF artifacts, procs, vaults, budget
  <1>0. /\ LocalTypeOK /\ Durable /\ edits \in Nat
        /\ \A r \in Runners : job[r] \in Mutations
        /\ Target \in [Mutations -> Targets]
        /\ \A m \in receipt : m \in Mutations
        /\ Content \in [Mutations -> Contents] /\ Absent \notin Contents
    BY LocalBindingAssumption, LocalAbsentAssumption, LocalBoundAssumption
       DEF IInv, LocalTypeOK
  <1>1. ASSUME NEW m \in Mutations, NEW r \in Runners, Run(r, m)
        PROVE  Durable'
    <2>1. /\ place'[r] = "reconcile" /\ UNCHANGED <<vault, vaultDisk, receipt, edits>>
          /\ \A s \in Runners \ {r} : place'[s] = place[s] /\ job'[s] = job[s]
      BY <1>0, <1>1 DEF Run, LocalTypeOK
    <2> QED BY <1>0, <2>1 DEF Durable
  <1>2. ASSUME NEW r \in Runners, NEW step \in Places \ {"sync", "receipt"}, Move(r, step),
               UNCHANGED <<vault, vaultDisk, receipt, edits>>
        PROVE  Durable'
    BY <1>0, <1>2, Moved DEF Durable
  <1>3. ASSUME NEW r \in Runners, Release(r), UNCHANGED <<vault, vaultDisk, edits>>,
               receipt' \subseteq receipt \cup (IF place[r] = "receipt" THEN {job[r]} ELSE {})
        PROVE  Durable'
    BY <1>0, <1>3, Released DEF Durable
  <1>4. ASSUME NEW r \in Runners, Reconcile(r) \/ Prepare(r) \/ CheckEffect(r)
        PROVE  Durable'
    BY <1>2, <1>3, <1>4 DEF Reconcile, Prepare, CheckEffect, Places
  <1>5. ASSUME NEW r \in Runners, Link(r)
        PROVE  Durable'
    <2>1. CASE vault[Target[job[r]]] = Absent
      <3>1. /\ vault' = [vault EXCEPT ![Target[job[r]]] = Content[job[r]]]
            /\ Move(r, "sync") /\ UNCHANGED <<vaultDisk, receipt, edits>>
        BY <1>5, <2>1 DEF Link
      <3>2. /\ vault'[Target[job[r]]] # Absent
            /\ \A t \in Targets : vault[t] # Absent => vault'[t] = vault[t]
        BY <1>0, <2>1, <3>1 DEF LocalTypeOK
      <3> QED BY <1>0, <3>1, <3>2, Moved DEF Durable, Places
    <2>2. CASE vault[Target[job[r]]] # Absent
      BY <1>3, <1>5, <2>2 DEF Link
    <2> QED BY <2>1, <2>2
  <1>6. ASSUME NEW r \in Runners, SyncNote(r)
        PROVE  Durable'
    <2>1. /\ place[r] = "sync" /\ vaultDisk' = vault /\ Move(r, "receipt")
          /\ UNCHANGED <<vault, receipt, edits>>
      BY <1>6 DEF SyncNote
    <2>2. vault[Target[job[r]]] # Absent
      BY <1>0, <2>1 DEF Durable
    <2>3. \A t \in Targets : vaultDisk[t] # Absent => vaultDisk'[t] # Absent
      BY <1>0, <2>1 DEF Durable
    <2> QED BY <1>0, <2>1, <2>2, <2>3, Moved DEF Durable, Places
  <1>7. ASSUME NEW r \in Runners, StoreReceipt(r) \/ Interrupt(r)
        PROVE  Durable'
    BY <1>3, <1>7 DEF StoreReceipt, Interrupt
  <1>8. CASE HostPowerLoss
    BY <1>0, <1>8 DEF HostPowerLoss, Durable
  <1>9. CASE NoteWriteBack
    BY <1>0, <1>9 DEF NoteWriteBack, Durable
  <1>10. ASSUME NEW t \in Targets, NEW c \in Contents \cup {Absent}, HumanEdit(t, c)
         PROVE  FALSE
    BY <1>0, <1>10 DEF HumanEdit
  <1> QED BY <1>0, <1>1, <1>4, <1>5, <1>6, <1>7, <1>8, <1>9, <1>10
          DEF LocalNext, Decide, RecordRecovery, localVars, Durable

THEOREM Invariance == LocalSpec => []IInv
  <1>1. IInv /\ [LocalNext]_localVars => IInv'
    BY TypeStep, LockedStep, ApprovedStep, ProvenanceStep, UnresolvedStep, DurableStep
       DEF IInv
  <1> QED BY InitIInv, <1>1, PTL DEF LocalSpec

-----------------------------------------------------------------------------

\* Type correctness of the local path.
THEOREM TypeCorrect == LocalSpec => []LocalTypeOK
  <1>1. IInv => LocalTypeOK
    BY DEF IInv
  <1> QED BY <1>1, Invariance, PTL

\* Every receipt stands for a note a runner linked itself, under an intent
\* and an approval (store_execution_receipt is reached by no other way).
THEOREM ReceiptProvenance == LocalSpec => []ReceiptHasProvenance
  <1>1. IInv => ReceiptHasProvenance
    BY DEF IInv, Approved, Provenance, ReceiptHasProvenance
  <1> QED BY <1>1, Invariance, PTL

\* No runner's step replaces or removes a file of the Vault.
THEOREM NoOverwrite == LocalSpec => NeverOverwrites
  <1>1. ASSUME IInv, [LocalNext]_localVars, edits' = edits, crashes' = crashes,
               NEW t \in Targets, vault[t] # Absent
        PROVE  vault'[t] = vault[t]
    <2> USE DEF artifacts, procs, vaults, budget
    <2>1. LocalTypeOK
      BY <1>1 DEF IInv
    <2>2. ASSUME NEW r \in Runners, Link(r)
          PROVE  vault'[t] = vault[t]
      BY <1>1, <2>1, <2>2, LocalBindingAssumption DEF Link, LocalTypeOK
    <2>3. edits + 1 # edits /\ crashes + 1 # crashes
      BY <2>1, LocalBoundAssumption DEF LocalTypeOK
    <2> QED BY <1>1, <2>2, <2>3
            DEF LocalNext, Decide, Run, RecordRecovery, Reconcile, Prepare, CheckEffect,
                SyncNote, StoreReceipt, Interrupt, HumanEdit, HostPowerLoss, NoteWriteBack, localVars
  <1>2. IInv /\ [LocalNext]_localVars =>
          [edits' = edits /\ crashes' = crashes =>
             \A t \in Targets : vault[t] # Absent => vault'[t] = vault[t]]_localVars
    BY <1>1
  <1> QED BY <1>2, Invariance, PTL DEF LocalSpec, NeverOverwrites

\* Neither an adopted nor an abandoned mutation is executed by the
\* recovery-aware runner, whatever the Human did to the target since.
THEOREM ResolvedNotExecuted == LocalSpec => ResolvedNeverRuns
  <1>1. IInv /\ [LocalNext]_localVars =>
          [\A r \in AwareRunners : place[r] = "link" /\ place'[r] = "sync"
                                     => recovery[job[r]] = "none"]_localVars
    BY DEF IInv, Unresolved
  <1> QED BY <1>1, Invariance, PTL DEF LocalSpec, ResolvedNeverRuns

\* A completed mutation is still completed after a crash, as long as no Human
\* edited the Vault.
THEOREM CompletedDurable == LocalSpec => CompletedSurvivesCrash
  <1>1. ASSUME IInv, [LocalNext]_localVars, crashes' # crashes, edits = 0,
               NEW m \in Mutations, Raw(m) = "completed"
        PROVE  Raw(m)' = "completed"
    <2> USE DEF artifacts, procs, vaults, budget
    <2>1. m \in intent \cap receipt /\ vault[Target[m]] = Content[m]
      BY <1>1 DEF Raw, Observed
    <2>2. /\ vaultDisk[Target[m]] = vault[Target[m]] /\ Content[m] # Absent
      BY <1>1, <2>1, LocalBindingAssumption, LocalAbsentAssumption DEF IInv, Durable
    <2>3. UNCHANGED <<intent, receipt>> /\ (vault' = vault \/ vault' = vaultDisk)
      BY <1>1 DEF LocalNext, Decide, Run, RecordRecovery, Reconcile, Prepare, CheckEffect,
                  Link, SyncNote, StoreReceipt, Interrupt, HumanEdit, HostPowerLoss,
                  NoteWriteBack, localVars
    <2>4. m \in intent' \cap receipt' /\ vault'[Target[m]] = Content[m]
      BY <2>1, <2>2, <2>3
    <2> QED BY <2>2, <2>4 DEF Raw, Observed
  <1>2. IInv /\ [LocalNext]_localVars =>
          [crashes' # crashes /\ edits = 0 =>
             \A m \in Mutations : Raw(m) = "completed" => Raw(m)' = "completed"]_localVars
    BY <1>1
  <1> QED BY <1>2, Invariance, PTL DEF LocalSpec, CompletedSurvivesCrash
====
