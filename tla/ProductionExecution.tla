---- MODULE ProductionExecution ----
(***************************************************************************)
(* The production effect path: production_orchestrator with webdav_create. *)
(* An executor turns an approved mutation into a durable intent and a      *)
(* transport request; a worker with the Nextcloud credential performs one  *)
(* conditional PUT and records what it saw; the executor turns a verified  *)
(* create into a receipt; a Human resolves what stayed ambiguous.          *)
(*                                                                         *)
(* Artifacts are write-once and survive crashes (ImmutableStore), so each  *)
(* is a set of mutations or a function that leaves "none" once.  A crash   *)
(* and an exception look alike: the mutation's flock is released and only  *)
(* what was already stored remains.                                        *)
(***************************************************************************)
EXTENDS Naturals

CONSTANTS Mutations, Targets, Contents,
          Target, Content,    \* the path and the bytes of each mutation
          Absent,             \* no file at a target
          Executors, Workers, \* processes under the Executor / Sync accounts
          Nobody,             \* a free lock
          MaxFailures,        \* bound: crashes, timeouts and failed requests
          MaxEdits            \* bound: Human edits of the remote Vault

ASSUME BindingAssumption == /\ Target \in [Mutations -> Targets]
                            /\ Content \in [Mutations -> Contents]
ASSUME AbsentAssumption == Absent \notin Contents
ASSUME ProcessAssumption == /\ Nobody \notin Executors \cup Workers
                            /\ Executors \cap Workers = {}
ASSUME BoundAssumption == MaxFailures \in Nat /\ MaxEdits \in Nat

VARIABLES review,         \* 20-Review/<m>.approval.json
          intent,         \* 25-Execution/<m>.intent.json
          request,        \* 25-Execution/<m>.transport-request.json
          result,         \* 27-Transport/<m>.transport-result.json
          receipt,        \* 30-Receipts/<m>.receipt.json
          recovery,       \* 20-Review/<m>.remote-recovery.json
          localRecovery,  \* 20-Review/<m>.recovery.json (human_recovery.py)
          lock,           \* 24-Locks/<m>.lock
          pc, job,        \* each process: its place in the code, its mutation
          seen,           \* each worker: the result it is about to store
          mirror,         \* the local read replica of the Vault
          remote,         \* the Vault on the WebDAV server
          late,           \* PUTs still in flight whose client gave up
          applied,        \* history: mutations a PUT of which was accepted
          failures, edits \* how many failures and Human edits happened

artifacts == <<review, intent, request, result, receipt, recovery, localRecovery>>
procs == <<lock, pc, job, seen>>
vaults == <<mirror, remote, late, applied>>
budget == <<failures, edits>>
vars == <<artifacts, procs, vaults, budget>>

Procs == Executors \cup Workers
Decisions == {"approve", "reject", "keep_as_idea"}
TransportOutcomes == {"created_verified", "target_exists_matching", "target_exists_conflict"}
Recoveries == {"adopt_observed_effect", "abandon"}
Steps == {"idle", "reconcile", "prepare", "request", "receipt",
          "put", "verify", "observe", "store"}

Init ==
  /\ review = [m \in Mutations |-> "none"]
  /\ intent = {} /\ request = {} /\ receipt = {} /\ localRecovery = {}
  /\ result = [m \in Mutations |-> "none"]
  /\ recovery = [m \in Mutations |-> "none"]
  /\ lock = [m \in Mutations |-> Nobody]
  /\ pc = [p \in Procs |-> "idle"]
  /\ job \in [Procs -> Mutations]
  /\ seen = [p \in Procs |-> "none"]
  /\ remote \in [Targets -> Contents \cup {Absent}]
  /\ mirror = remote
  /\ late = {} /\ applied = {}
  /\ failures = 0 /\ edits = 0

\* What a GET of m's target shows.
Observation(m) == IF remote[Target[m]] = Absent THEN "absent"
                  ELSE IF remote[Target[m]] = Content[m] THEN "matching"
                  ELSE "conflict"

-----------------------------------------------------------------------------
\* _reconcile_production_unlocked, on the artifacts alone.

Terminal(m) == m \in receipt \/ recovery[m] # "none"

\* Mutant: an adopted effect is judged by the Vault again.
ResolutionReobserved(m) ==
  CASE recovery[m] = "abandon" -> "resolved_abandoned"
    [] /\ recovery[m] = "adopt_observed_effect"
       /\ Observation(m) = "matching" -> "resolved_effect_adopted"
    [] OTHER -> "conflict"

Resolution(m) ==
  CASE recovery[m] = "abandon" -> "resolved_abandoned"
    [] /\ recovery[m] = "adopt_observed_effect"
       /\ result[m] = "target_exists_matching" -> "resolved_effect_adopted"
    [] OTHER -> "conflict"

Status(m) ==
  CASE m \notin intent -> "not_started"
    [] m \in intent /\ review[m] # "approve" -> "error"
    [] m \in intent /\ m \in localRecovery -> "conflict"
    [] m \in intent \ localRecovery /\ m \notin request ->
         IF Terminal(m) THEN "conflict" ELSE "request_pending"
    [] m \in (intent \cap request) \ localRecovery /\ result[m] = "none" ->
         IF Terminal(m) THEN "conflict" ELSE "transport_pending"
    [] m \in (intent \cap request) \ localRecovery /\ result[m] = "created_verified" ->
         IF recovery[m] # "none" THEN "conflict"
         ELSE IF m \in receipt THEN "completed" ELSE "remote_verified_pending_receipt"
    [] OTHER ->
         IF m \in receipt THEN "conflict"
         ELSE IF recovery[m] # "none" THEN Resolution(m)
         ELSE IF result[m] = "target_exists_matching"
              THEN "remote_effect_observed_without_receipt"
         ELSE "conflict"

-----------------------------------------------------------------------------
\* Locks and program counters.

Acquire(p, m, step) == /\ pc[p] = "idle" /\ lock[m] = Nobody
                       /\ lock' = [lock EXCEPT ![m] = p]
                       /\ job' = [job EXCEPT ![p] = m]
                       /\ pc' = [pc EXCEPT ![p] = step]
                       /\ UNCHANGED seen

Goto(p, step) == pc' = [pc EXCEPT ![p] = step] /\ UNCHANGED <<lock, job, seen>>

\* The process leaves the locked section, by return, exception or crash.
Release(p) == /\ lock' = [m \in Mutations |-> IF lock[m] = p THEN Nobody ELSE lock[m]]
              /\ pc' = [pc EXCEPT ![p] = "idle"]
              /\ seen' = [seen EXCEPT ![p] = "none"]
              /\ UNCHANGED job

-----------------------------------------------------------------------------
\* The Human reviewer: one immutable decision per mutation.
Decide(m, d) ==
  /\ review[m] = "none"
  /\ review' = [review EXCEPT ![m] = d]
  /\ UNCHANGED <<intent, request, result, receipt, recovery, localRecovery,
                 procs, vaults, budget>>

\* advance_production_executor takes the mutation's lock and reconciles.
Advance(e, m) ==
  /\ Acquire(e, m, "reconcile")
  /\ UNCHANGED <<artifacts, vaults, budget>>

Reconcile(e) ==
  /\ pc[e] = "reconcile"
  /\ LET s == Status(job[e]) IN
       \/ s \in {"not_started", "request_pending"} /\ Goto(e, "prepare")
       \/ s = "remote_verified_pending_receipt" /\ Goto(e, "receipt")
       \/ /\ s \notin {"not_started", "request_pending",
                       "remote_verified_pending_receipt"}
          /\ Release(e)
  /\ UNCHANGED <<artifacts, vaults, budget>>

\* prepare_transport_request: the other way into the preparation, refused
\* once a Human has recorded any recovery decision.
PrepareRequest(e, m) ==
  /\ Acquire(e, m, "prepare")
  /\ m \notin localRecovery /\ recovery[m] = "none"
  /\ UNCHANGED <<artifacts, vaults, budget>>

\* _store_request_unlocked and _prepare_unlocked, up to the durable intent: an
\* existing request or intent is only verified; a new intent needs an approval
\* and a target that is absent from the mirror.
Prepare(e) == LET m == job[e] IN
  /\ pc[e] = "prepare"
  /\ \/ m \in request /\ Release(e) /\ UNCHANGED intent
     \/ m \in intent \ request /\ Goto(e, "request") /\ UNCHANGED intent
     \/ /\ m \notin intent \cup request
        /\ review[m] = "approve" /\ mirror[Target[m]] = Absent
        /\ intent' = intent \cup {m}
        /\ Goto(e, "request")
     \/ /\ m \notin intent \cup request
        /\ review[m] # "approve" \/ mirror[Target[m]] # Absent
        /\ Release(e) /\ UNCHANGED intent
  /\ UNCHANGED <<review, request, result, receipt, recovery, localRecovery,
                 vaults, budget>>

StoreRequest(e) ==
  /\ pc[e] = "request"
  /\ request' = request \cup {job[e]}
  /\ Release(e)
  /\ UNCHANGED <<review, intent, result, receipt, recovery, localRecovery,
                 vaults, budget>>

\* The receipt for a verified create, and the final reconciliation (which can
\* only raise after the receipt is stored).
StoreReceipt(e) ==
  /\ pc[e] = "receipt"
  /\ receipt' = IF result[job[e]] = "created_verified"
                THEN receipt \cup {job[e]} ELSE receipt
  /\ Release(e)
  /\ UNCHANGED <<review, intent, request, result, recovery, localRecovery,
                 vaults, budget>>

-----------------------------------------------------------------------------
\* Mutant: the existing result is not looked up before the PUT.
TransportAgain(w, m) ==
  /\ Acquire(w, m, "put")
  /\ m \in request \cap intent /\ review[m] = "approve"
  /\ m \notin localRecovery /\ recovery[m] = "none"
  /\ UNCHANGED <<artifacts, vaults, budget>>

\* process_transport_request, up to the send: a bound request, no recovery
\* decision of either kind, and no result yet (an existing one is returned).
Transport(w, m) ==
  /\ Acquire(w, m, "put")
  /\ m \in request \cap intent /\ review[m] = "approve"
  /\ m \notin localRecovery /\ recovery[m] = "none"
  /\ result[m] = "none"
  /\ UNCHANGED <<artifacts, vaults, budget>>

\* Mutant: the PUT carries no precondition.
AcceptAnyPut(m) == /\ remote' = [remote EXCEPT ![Target[m]] = Content[m]]
                   /\ applied' = applied \cup {m}

\* The server's side of PUT with If-None-Match: *.
AcceptPut(m) == /\ remote[Target[m]] = Absent
                /\ remote' = [remote EXCEPT ![Target[m]] = Content[m]]
                /\ applied' = applied \cup {m}
RefusePut(m) == remote[Target[m]] # Absent /\ UNCHANGED <<remote, applied>>

\* The server answers 2xx or 412 and the worker reads the answer.
Put(w) ==
  /\ pc[w] = "put"
  /\ \/ AcceptPut(job[w]) /\ Goto(w, "verify")
     \/ RefusePut(job[w]) /\ Goto(w, "observe")
  /\ UNCHANGED <<artifacts, mirror, late, budget>>

\* conditional_create reads the new file back; other bytes are an error and
\* leave no result behind.
VerifyPut(w) ==
  /\ pc[w] = "verify"
  /\ \/ /\ Observation(job[w]) = "matching"
        /\ pc' = [pc EXCEPT ![w] = "store"]
        /\ seen' = [seen EXCEPT ![w] = "created_verified"]
        /\ UNCHANGED <<lock, job>>
     \/ Observation(job[w]) # "matching" /\ Release(w)
  /\ UNCHANGED <<artifacts, vaults, budget>>

\* Mutant: matching bytes after a 412 are taken for this worker's own create.
ObserveClaims(w) ==
  /\ pc[w] = "observe"
  /\ \/ /\ Observation(job[w]) # "absent"
        /\ pc' = [pc EXCEPT ![w] = "store"]
        /\ seen' = [seen EXCEPT ![w] = IF Observation(job[w]) = "matching"
                                       THEN "created_verified"
                                       ELSE "target_exists_conflict"]
        /\ UNCHANGED <<lock, job>>
     \/ Observation(job[w]) = "absent" /\ Release(w)
  /\ UNCHANGED <<artifacts, vaults, budget>>

\* After a 412 the worker looks at what is there; nothing there is an error.
ObserveTaken(w) ==
  /\ pc[w] = "observe"
  /\ \/ /\ Observation(job[w]) # "absent"
        /\ pc' = [pc EXCEPT ![w] = "store"]
        /\ seen' = [seen EXCEPT ![w] = IF Observation(job[w]) = "matching"
                                       THEN "target_exists_matching"
                                       ELSE "target_exists_conflict"]
        /\ UNCHANGED <<lock, job>>
     \/ Observation(job[w]) = "absent" /\ Release(w)
  /\ UNCHANGED <<artifacts, vaults, budget>>

\* The result is stored; a different one already there would be an error.
StoreResult(w) == LET m == job[w] IN
  /\ pc[w] = "store"
  /\ result' = IF result[m] = "none" THEN [result EXCEPT ![m] = seen[w]] ELSE result
  /\ Release(w)
  /\ UNCHANGED <<review, intent, request, receipt, recovery, localRecovery,
                 vaults, budget>>

-----------------------------------------------------------------------------
\* Faults: a crash, an exception, a timeout or an unexpected HTTP status at any
\* step.  A PUT whose client gave up may still reach the server.
Interrupt(p) ==
  /\ pc[p] # "idle" /\ failures < MaxFailures
  /\ failures' = failures + 1
  /\ late' \in IF pc[p] = "put" THEN {late, late \cup {job[p]}} ELSE {late}
  /\ Release(p)
  /\ UNCHANGED <<artifacts, mirror, remote, applied, edits>>

LatePut(m) ==
  /\ m \in late
  /\ late' = late \ {m}
  /\ AcceptPut(m) \/ RefusePut(m)
  /\ UNCHANGED <<artifacts, procs, mirror, budget>>

\* Human edits of the Vault on the server, and the pull into the mirror.
HumanEdit(t, c) ==
  /\ edits < MaxEdits /\ remote[t] # c
  /\ remote' = [remote EXCEPT ![t] = c]
  /\ edits' = edits + 1
  /\ UNCHANGED <<artifacts, procs, mirror, late, applied, failures>>

Pull(t) ==
  /\ mirror[t] # remote[t]
  /\ mirror' = [mirror EXCEPT ![t] = remote[t]]
  /\ UNCHANGED <<artifacts, procs, remote, late, applied, budget>>

-----------------------------------------------------------------------------
\* Mutants: a recovery of a verified create, and the adoption of other bytes.
RecordAnyRecovery(m, d) ==
  /\ lock[m] = Nobody
  /\ m \notin localRecovery /\ recovery[m] = "none"
  /\ result[m] # "none"
  /\ d = "adopt_observed_effect" => result[m] = "target_exists_matching"
  /\ recovery' = [recovery EXCEPT ![m] = d]
  /\ UNCHANGED <<review, intent, request, result, receipt, localRecovery,
                 procs, vaults, budget>>

RecordBlindAdoption(m, d) ==
  /\ lock[m] = Nobody
  /\ m \notin localRecovery /\ recovery[m] = "none"
  /\ Status(m) \in {"remote_effect_observed_without_receipt", "conflict"}
  /\ m \in request
  /\ result[m] \in {"target_exists_matching", "target_exists_conflict"}
  /\ recovery' = [recovery EXCEPT ![m] = d]
  /\ UNCHANGED <<review, intent, request, result, receipt, localRecovery,
                 procs, vaults, budget>>

\* record_remote_human_recovery, under the mutation's lock.
RecordRecovery(m, d) ==
  /\ lock[m] = Nobody
  /\ m \notin localRecovery /\ recovery[m] = "none"
  /\ Status(m) \in {"remote_effect_observed_without_receipt", "conflict"}
  /\ m \in request
  /\ result[m] \in {"target_exists_matching", "target_exists_conflict"}
  /\ d = "adopt_observed_effect" => result[m] = "target_exists_matching"
  /\ recovery' = [recovery EXCEPT ![m] = d]
  /\ UNCHANGED <<review, intent, request, result, receipt, localRecovery,
                 procs, vaults, budget>>

\* human_recovery.record_human_recovery takes another lock file (25-Execution)
\* and judges by the mirror: with a receipt the mirror must have drifted,
\* without one it must hold some file.
RecordLocalRecovery(m) ==
  /\ m \in intent \ localRecovery
  /\ IF m \in receipt THEN mirror[Target[m]] # Content[m]
                      ELSE mirror[Target[m]] # Absent
  /\ localRecovery' = localRecovery \cup {m}
  /\ UNCHANGED <<review, intent, request, result, receipt, recovery,
                 procs, vaults, budget>>

-----------------------------------------------------------------------------
ExecutorStep(e) == \/ Reconcile(e) \/ Prepare(e)
                   \/ StoreRequest(e) \/ StoreReceipt(e)
WorkerStep(w) == Put(w) \/ VerifyPut(w) \/ ObserveTaken(w) \/ StoreResult(w)

Next ==
  \/ \E m \in Mutations :
       \/ \E d \in Decisions : Decide(m, d)
       \/ \E e \in Executors : Advance(e, m) \/ PrepareRequest(e, m)
       \/ \E w \in Workers : Transport(w, m)
       \/ \E d \in Recoveries : RecordRecovery(m, d)
       \/ RecordLocalRecovery(m) \/ LatePut(m)
  \/ \E e \in Executors : ExecutorStep(e)
  \/ \E w \in Workers : WorkerStep(w)
  \/ \E p \in Procs : Interrupt(p)
  \/ \E t \in Targets : Pull(t) \/ \E c \in Contents \cup {Absent} : HumanEdit(t, c)

Spec == Init /\ [][Next]_vars

-----------------------------------------------------------------------------

\* Every variable has the shape the actions above assume.
TypeOK ==
  /\ review \in [Mutations -> Decisions \cup {"none"}]
  /\ intent \subseteq Mutations /\ request \subseteq Mutations
  /\ receipt \subseteq Mutations /\ localRecovery \subseteq Mutations
  /\ result \in [Mutations -> TransportOutcomes \cup {"none"}]
  /\ recovery \in [Mutations -> Recoveries \cup {"none"}]
  /\ lock \in [Mutations -> Procs \cup {Nobody}]
  /\ pc \in [Procs -> Steps]
  /\ job \in [Procs -> Mutations]
  /\ seen \in [Procs -> TransportOutcomes \cup {"none"}]
  /\ mirror \in [Targets -> Contents \cup {Absent}]
  /\ remote \in [Targets -> Contents \cup {Absent}]
  /\ late \subseteq Mutations /\ applied \subseteq Mutations
  /\ failures \in 0..MaxFailures /\ edits \in 0..MaxEdits

\* A receipt is only ever written for a mutation whose own conditional PUT the
\* server accepted, although another mutation, a Human or a late PUT may put
\* the very same bytes at the target ("the actor that created the bytes").
ReceiptHasProvenance ==
  \A m \in receipt : m \in applied /\ result[m] = "created_verified"

\* Nothing reaches the server, and no execution artifact exists, for a mutation
\* the reviewer did not approve.
OnlyApprovedExecutes ==
  \A m \in Mutations :
    m \in intent \cup request \cup applied \cup late => review[m] = "approve"

\* A mutation never ends both ways: no receipt beside a recovery decision, and
\* an adopted effect was really observed as matching.
OneEnding ==
  \A m \in Mutations :
    /\ ~(m \in receipt /\ recovery[m] # "none")
    /\ recovery[m] = "adopt_observed_effect" => result[m] = "target_exists_matching"

\* Reconciliation reports a conflict only for a taken target or a misplaced
\* local recovery: its "terminal artifact without ..." branches stay unreached.
ConflictIsExplained ==
  \A m \in Mutations :
    Status(m) = "conflict" => \/ result[m] = "target_exists_conflict"
                              \/ m \in localRecovery

\* The automation never replaces or removes a file of the Vault: what exists
\* changes only by a Human's edit.
NeverOverwrites ==
  [][edits' = edits => \A t \in Targets : remote[t] # Absent => remote'[t] = remote[t]]_vars

\* A worker about to send the PUT of a mutation may rely on its earlier look at
\* the result: no other worker, retry or restart records an outcome meanwhile,
\* and none sends a PUT again, which could recreate a note a Human removed.
ResultStopsTransport ==
  \A w \in Workers : pc[w] = "put" => result[job[w]] = "none"

\* docs/ai-production-authority.md:373 on a crash between PUT and result: "the next
\* conditional PUT returns 412".  (It does not when a Human removed the note in
\* between: the retry then recreates it.)
NextPutIsRefused ==
  [][\A w \in Workers : pc[w] = "put" /\ job[w] \in applied => pc'[w] # "verify"]_vars

\* A finished mutation stays finished: later failures, edits and runs of either
\* process do not change what reconciliation says (a local recovery aside).
FinishedStays ==
  [][\A m \in Mutations :
       /\ Status(m) \in {"completed", "resolved_abandoned", "resolved_effect_adopted"}
       /\ m \notin localRecovery'
       => Status(m)' = Status(m)]_vars

\* The durable artifacts implement the mutation lifecycle.
Phase(m) ==
  CASE review[m] = "none" -> "proposed"
    [] review[m] \in {"reject", "keep_as_idea"} -> "declined"
    [] review[m] = "approve" /\ recovery[m] = "abandon" -> "abandoned"
    [] review[m] = "approve" /\ recovery[m] = "adopt_observed_effect" -> "adopted"
    [] review[m] = "approve" /\ recovery[m] = "none" ->
         IF m \in receipt THEN "receipted"
         ELSE CASE result[m] = "none" -> "approved"
                [] result[m] = "created_verified" -> "created"
                [] result[m] = "target_exists_matching" -> "ambiguous"
                [] result[m] = "target_exists_conflict" -> "blocked"

Lifecycle == INSTANCE MutationLifecycle WITH
               phase <- [m \in Mutations |-> Phase(m)], effect <- applied
ImplementsLifecycle == Lifecycle!Spec
====
