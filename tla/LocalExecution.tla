---- MODULE LocalExecution ----
(***************************************************************************)
(* The host-local effect path: execution_orchestrator, human_recovery and  *)
(* canonical_mutation.  A runner holds the mutation's flock, reconciles    *)
(* the durable artifacts with the Vault, stores an intent, creates the     *)
(* note by a no-replace link and stores a receipt.  A Human shares the     *)
(* Vault without any lock, and may record one recovery decision.           *)
(*                                                                         *)
(* Artifacts are stored by _store_immutable (module ImmutableStore), so    *)
(* they survive a power loss; a note survives only after the directory     *)
(* fsync of _create_exclusive_note.                                        *)
(***************************************************************************)
EXTENDS Naturals

CONSTANTS Mutations, Targets, Contents,
          Target, Content,   \* the path and the bytes of each mutation
          Absent,            \* no file at a target
          AwareRunners,      \* run_recovery_aware_create_note
          PlainRunners,      \* run_approved_create_note
          Nobody,            \* a free lock
          MaxCrashes,        \* bound: crashes and exceptions
          MaxEdits           \* bound: Human edits of the Vault

Runners == AwareRunners \cup PlainRunners

ASSUME LocalBindingAssumption == /\ Target \in [Mutations -> Targets]
                                 /\ Content \in [Mutations -> Contents]
ASSUME LocalAbsentAssumption == Absent \notin Contents
ASSUME LocalRunnerAssumption == /\ Nobody \notin Runners
                                /\ AwareRunners \cap PlainRunners = {}
ASSUME LocalBoundAssumption == MaxCrashes \in Nat /\ MaxEdits \in Nat

VARIABLES review,       \* 20-Review/<m>.approval.json
          intent,       \* 25-Execution/<m>.intent.json
          receipt,      \* 30-Receipts/<m>.receipt.json
          recovery,     \* 20-Review/<m>.recovery.json
          lock,         \* 25-Execution/<m>.lock
          place, job,      \* each runner: its place in the code, its mutation
          vault,        \* the canonical Vault as the host sees it
          vaultDisk,    \* the Vault a power loss would leave
          created,      \* history: mutations some runner linked into the Vault
          crashes, edits

artifacts == <<review, intent, receipt, recovery>>
procs == <<lock, place, job>>
vaults == <<vault, vaultDisk>>
budget == <<crashes, edits>>
localVars == <<artifacts, procs, vaults, created, budget>>

Decisions == {"approve", "reject", "keep_as_idea"}
Recoveries == {"adopt_observed_effect", "abandon"}
Places == {"idle", "reconcile", "prepare", "check", "link", "sync", "receipt"}

LocalInit ==
  /\ review = [m \in Mutations |-> "none"]
  /\ intent = {} /\ receipt = {}
  /\ recovery = [m \in Mutations |-> "none"]
  /\ lock = [m \in Mutations |-> Nobody]
  /\ place = [r \in Runners |-> "idle"]
  /\ job \in [Runners -> Mutations]
  /\ vault \in [Targets -> Contents \cup {Absent}]
  /\ vaultDisk = vault
  /\ created = {}
  /\ crashes = 0 /\ edits = 0

-----------------------------------------------------------------------------
\* _observe_target
Observed(m) == IF vault[Target[m]] = Absent THEN "absent"
               ELSE IF vault[Target[m]] = Content[m] THEN "matching"
               ELSE "conflict"

\* _reconcile_unlocked, for mutations whose approval still stands.
Raw(m) ==
  CASE m \notin intent -> "not_started"
    [] m \in intent \cap receipt ->
         IF Observed(m) = "matching" THEN "completed" ELSE "conflict"
    [] OTHER -> CASE Observed(m) = "absent" -> "pending_retry"
                  [] Observed(m) = "matching" -> "effect_observed_without_receipt"
                  [] Observed(m) = "conflict" -> "conflict"

\* _apply_recovery_unlocked; the record always binds the one immutable intent.
Recovered(m) ==
  CASE recovery[m] = "none" -> Raw(m)
    [] recovery[m] # "none" /\ Raw(m) = "completed" -> "conflict"
    [] recovery[m] = "abandon" /\ Raw(m) # "completed" -> "resolved_abandoned"
    [] recovery[m] = "adopt_observed_effect" /\ Raw(m) # "completed" ->
         IF Raw(m) = "effect_observed_without_receipt"
         THEN "resolved_effect_adopted" ELSE "conflict"

State(r, m) == IF r \in AwareRunners THEN Recovered(m) ELSE Raw(m)

-----------------------------------------------------------------------------
Move(r, step) == place' = [place EXCEPT ![r] = step] /\ UNCHANGED <<lock, job>>

\* The runner leaves the locked section, by return, exception or crash.
Release(r) == /\ lock' = [m \in Mutations |-> IF lock[m] = r THEN Nobody ELSE lock[m]]
              /\ place' = [place EXCEPT ![r] = "idle"]
              /\ UNCHANGED job

Decide(m, d) ==
  /\ review[m] = "none"
  /\ review' = [review EXCEPT ![m] = d]
  /\ UNCHANGED <<intent, receipt, recovery, procs, vaults, created, budget>>

\* Either entry point: take the flock, then reconcile.
Run(r, m) ==
  /\ place[r] = "idle" /\ lock[m] = Nobody
  /\ lock' = [lock EXCEPT ![m] = r]
  /\ job' = [job EXCEPT ![r] = m]
  /\ place' = [place EXCEPT ![r] = "reconcile"]
  /\ UNCHANGED <<artifacts, vaults, created, budget>>

\* Mutant: a matching target without a receipt is claimed as this runner's work.
ReconcileClaims(r) ==
  /\ place[r] = "reconcile"
  /\ LET s == State(r, job[r]) IN
       \/ s = "not_started" /\ Move(r, "prepare")
       \/ s = "pending_retry" /\ Move(r, "check")
       \/ s = "effect_observed_without_receipt" /\ Move(r, "receipt")
       \/ /\ s \notin {"not_started", "pending_retry",
                       "effect_observed_without_receipt"}
          /\ Release(r)
  /\ UNCHANGED <<artifacts, vaults, created, budget>>

\* Only not_started and pending_retry go on; every other state is returned.
Reconcile(r) ==
  /\ place[r] = "reconcile"
  /\ LET s == State(r, job[r]) IN
       \/ s = "not_started" /\ Move(r, "prepare")
       \/ s = "pending_retry" /\ Move(r, "check")
       \/ s \notin {"not_started", "pending_retry"} /\ Release(r)
  /\ UNCHANGED <<artifacts, vaults, created, budget>>

\* _prepare_unlocked: approval, target absence, durable intent; then the
\* second reconciliation.
Prepare(r) == LET m == job[r] IN
  /\ place[r] = "prepare"
  /\ \/ /\ review[m] = "approve" /\ Observed(m) = "absent"
        /\ intent' = intent \cup {m}
        /\ Move(r, "reconcile")
     \/ /\ review[m] # "approve" \/ Observed(m) # "absent"
        /\ Release(r) /\ UNCHANGED intent
  /\ UNCHANGED <<review, receipt, recovery, vaults, created, budget>>

\* execute_create_note: approval and absence are checked again ...
CheckEffect(r) == LET m == job[r] IN
  /\ place[r] = "check"
  /\ \/ review[m] = "approve" /\ Observed(m) = "absent" /\ Move(r, "link")
     \/ (review[m] # "approve" \/ Observed(m) # "absent") /\ Release(r)
  /\ UNCHANGED <<artifacts, vaults, created, budget>>

\* Mutant: the temporary file is renamed onto the target.
LinkReplacing(r) == LET m == job[r] IN
  /\ place[r] = "link"
  /\ vault' = [vault EXCEPT ![Target[m]] = Content[m]]
  /\ created' = created \cup {m}
  /\ Move(r, "sync")
  /\ UNCHANGED <<artifacts, vaultDisk, budget>>

\* ... and the synced temporary file is linked to the target, which fails
\* when a Human created the target after the check.
Link(r) == LET m == job[r] IN
  /\ place[r] = "link"
  /\ \/ /\ vault[Target[m]] = Absent
        /\ vault' = [vault EXCEPT ![Target[m]] = Content[m]]
        /\ created' = created \cup {m}
        /\ Move(r, "sync")
     \/ /\ vault[Target[m]] # Absent
        /\ Release(r) /\ UNCHANGED <<vault, created>>
  /\ UNCHANGED <<artifacts, vaultDisk, budget>>

\* Mutant: the directory fsync is forgotten.
SyncNoteForgotten(r) ==
  /\ place[r] = "sync"
  /\ Move(r, "receipt")
  /\ UNCHANGED <<artifacts, vaults, created, budget>>

\* unlink of the temporary name and fsync of the directory.
SyncNote(r) ==
  /\ place[r] = "sync"
  /\ vaultDisk' = vault
  /\ Move(r, "receipt")
  /\ UNCHANGED <<artifacts, vault, created, budget>>

\* store_execution_receipt and the final reconciliation, which can only raise.
StoreReceipt(r) == LET m == job[r] IN
  /\ place[r] = "receipt"
  /\ receipt' = receipt \cup {m}
  /\ Release(r)
  /\ UNCHANGED <<review, intent, recovery, vaults, created, budget>>

\* Mutant: the decision is recorded without the flock.
RecordUnlocked(m, d) ==
  /\ recovery[m] = "none"
  /\ Raw(m) \in {"effect_observed_without_receipt", "conflict"}
  /\ d = "adopt_observed_effect" => Raw(m) = "effect_observed_without_receipt"
  /\ recovery' = [recovery EXCEPT ![m] = d]
  /\ UNCHANGED <<review, intent, receipt, procs, vaults, created, budget>>

\* record_human_recovery, under the same flock.
RecordRecovery(m, d) ==
  /\ lock[m] = Nobody
  /\ recovery[m] = "none"
  /\ Raw(m) \in {"effect_observed_without_receipt", "conflict"}
  /\ d = "adopt_observed_effect" => Raw(m) = "effect_observed_without_receipt"
  /\ recovery' = [recovery EXCEPT ![m] = d]
  /\ UNCHANGED <<review, intent, receipt, procs, vaults, created, budget>>

-----------------------------------------------------------------------------
\* A runner dies or raises at any step of its locked section.
Interrupt(r) ==
  /\ place[r] # "idle" /\ crashes < MaxCrashes
  /\ crashes' = crashes + 1
  /\ Release(r)
  /\ UNCHANGED <<artifacts, vaults, created, edits>>

\* Power loss: all runners stop, an unsynced note is gone.
HostPowerLoss ==
  /\ crashes < MaxCrashes
  /\ crashes' = crashes + 1
  /\ vault' = vaultDisk
  /\ lock' = [m \in Mutations |-> Nobody]
  /\ place' = [r \in Runners |-> "idle"]
  /\ UNCHANGED <<artifacts, job, vaultDisk, created, edits>>

\* A Human, or the synchronisation, changes a note, durably.
HumanEdit(t, c) ==
  /\ edits < MaxEdits /\ vault[t] # c
  /\ edits' = edits + 1
  /\ vault' = [vault EXCEPT ![t] = c]
  /\ vaultDisk' = vault'
  /\ UNCHANGED <<artifacts, procs, created, crashes>>

\* The kernel commits the Vault directory of its own accord.
NoteWriteBack ==
  /\ vaultDisk' = vault
  /\ UNCHANGED <<artifacts, procs, vault, created, budget>>

LocalNext ==
  \/ \E m \in Mutations :
       \/ \E d \in Decisions : Decide(m, d)
       \/ \E r \in Runners : Run(r, m)
       \/ \E d \in Recoveries : RecordRecovery(m, d)
  \/ \E r \in Runners :
       \/ Reconcile(r) \/ Prepare(r) \/ CheckEffect(r) \/ Link(r)
       \/ SyncNote(r) \/ StoreReceipt(r) \/ Interrupt(r)
  \/ \E t \in Targets, c \in Contents \cup {Absent} : HumanEdit(t, c)
  \/ HostPowerLoss \/ NoteWriteBack

LocalSpec == LocalInit /\ [][LocalNext]_localVars

-----------------------------------------------------------------------------

\* Every variable has the shape the actions above assume.
LocalTypeOK ==
  /\ review \in [Mutations -> Decisions \cup {"none"}]
  /\ intent \subseteq Mutations /\ receipt \subseteq Mutations
  /\ recovery \in [Mutations -> Recoveries \cup {"none"}]
  /\ lock \in [Mutations -> Runners \cup {Nobody}]
  /\ place \in [Runners -> Places] /\ job \in [Runners -> Mutations]
  /\ vault \in [Targets -> Contents \cup {Absent}]
  /\ vaultDisk \in [Targets -> Contents \cup {Absent}]
  /\ created \subseteq Mutations
  /\ crashes \in 0..MaxCrashes /\ edits \in 0..MaxEdits

\* A receipt is only stored for a note a runner itself linked into the Vault,
\* under a durable intent and a standing approval.
ReceiptHasProvenance ==
  \A m \in receipt : m \in created \cap intent /\ review[m] = "approve"

\* Runners only ever add files: what is in the Vault changes by a Human's edit
\* or is lost to a crash, never by a runner that raced one of them.
NeverOverwrites ==
  [][edits' = edits /\ crashes' = crashes =>
       \A t \in Targets : vault[t] # Absent => vault'[t] = vault[t]]_localVars

\* A crash never turns a completed mutation into a conflict: the note was on
\* the disk before its receipt was.  (Until a Human edits the Vault: a second
\* mutation may put the bytes back and lose them before its own fsync.)
CompletedSurvivesCrash ==
  [][crashes' # crashes /\ edits = 0 =>
       \A m \in Mutations : Raw(m) = "completed" => Raw(m)' = "completed"]_localVars

\* The recovery-aware runner never executes an abandoned or adopted mutation,
\* even when the target is removed and the raw state would be pending_retry.
ResolvedNeverRuns ==
  [][\A r \in AwareRunners : place[r] = "link" /\ place'[r] = "sync"
                          => recovery[job[r]] = "none"]_localVars
====
