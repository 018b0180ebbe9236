---- MODULE ProductionExecutionProofs ----
(***************************************************************************)
(* Proofs about ProductionExecution, for any mutations, paths, contents,   *)
(* processes and number of failures and edits.  The inductive invariant says *)
(* that the flock serialises the locked sections, what each section has    *)
(* established, and how the durable artifacts bind each other.             *)
(***************************************************************************)
EXTENDS KnowledgeDispatch, TLAPS

ExecutorSteps == {"idle", "reconcile", "prepare", "request", "receipt"}
WorkerSteps == {"idle", "put", "verify", "observe", "store"}

\* A process inside its locked section holds the lock of its mutation.
LockHeld ==
  /\ \A e \in Executors : pc[e] \in ExecutorSteps
  /\ \A w \in Workers : pc[w] \in WorkerSteps
  /\ \A p \in Procs : pc[p] # "idle" => lock[job[p]] = p

\* What the executor's steps have established.
ExecutorBound ==
  \A e \in Executors :
    /\ pc[e] = "request" => job[e] \in intent
    /\ pc[e] = "receipt" => result[job[e]] = "created_verified"

\* What the worker's steps have established: the request is bound, nothing is
\* resolved, and the answer it carries is the server's.
WorkerBound ==
  \A w \in Workers : pc[w] # "idle" =>
    /\ job[w] \in request
    /\ result[job[w]] = "none"
    /\ pc[w] = "verify" => job[w] \in applied
    /\ pc[w] = "store" => seen[w] \in TransportOutcomes
    /\ pc[w] = "store" /\ seen[w] = "created_verified" => job[w] \in applied

\* How the durable artifacts bind each other.
ArtifactsBound ==
  \A m \in Mutations :
    /\ m \in intent => review[m] = "approve"
    /\ m \in request => m \in intent
    /\ m \in applied \cup late => m \in request
    /\ result[m] # "none" => m \in request
    /\ result[m] = "created_verified" => m \in applied
    /\ m \in receipt => result[m] = "created_verified"
    /\ recovery[m] # "none" => result[m] \in {"target_exists_matching",
                                              "target_exists_conflict"}
    /\ recovery[m] = "adopt_observed_effect" => result[m] = "target_exists_matching"

IInv == TypeOK /\ LockHeld /\ ExecutorBound /\ WorkerBound /\ ArtifactsBound

-----------------------------------------------------------------------------

LEMMA InitIInv == Init => IInv
  <1> SUFFICES ASSUME Init PROVE IInv
    OBVIOUS
  <1>1. TypeOK
    BY BoundAssumption DEF Init, TypeOK, Procs, Steps
  <1>2. LockHeld /\ ExecutorBound /\ WorkerBound
    BY DEF Init, LockHeld, ExecutorBound, WorkerBound, ExecutorSteps, WorkerSteps, Procs
  <1>3. ArtifactsBound
    BY DEF Init, ArtifactsBound
  <1> QED BY <1>1, <1>2, <1>3 DEF IInv

\* Leaving a locked section keeps everything but the artifacts' own bindings.
LEMMA ReleaseKeeps ==
  ASSUME IInv, NEW p \in Procs, Release(p)
  PROVE  /\ lock' \in [Mutations -> Procs \cup {Nobody}]
         /\ pc' \in [Procs -> Steps] /\ pc'[p] = "idle"
         /\ \A q \in Procs \ {p} : pc'[q] = pc[q] /\ seen'[q] = seen[q]
         /\ job' = job
         /\ seen' \in [Procs -> TransportOutcomes \cup {"none"}]
         /\ LockHeld'
  <1>1. /\ lock' \in [Mutations -> Procs \cup {Nobody}]
        /\ pc' \in [Procs -> Steps] /\ pc'[p] = "idle"
        /\ \A q \in Procs \ {p} : pc'[q] = pc[q] /\ seen'[q] = seen[q]
        /\ job' = job
        /\ seen' \in [Procs -> TransportOutcomes \cup {"none"}]
    BY DEF IInv, TypeOK, Release, Steps
  <1>2. \A q \in Procs : pc'[q] # "idle" => lock'[job'[q]] = q
    BY <1>1 DEF IInv, TypeOK, LockHeld, Release
  <1>3. /\ \A e \in Executors : pc'[e] \in ExecutorSteps
        /\ \A w \in Workers : pc'[w] \in WorkerSteps
    BY <1>1 DEF IInv, LockHeld, ExecutorSteps, WorkerSteps, Procs
  <1> QED BY <1>1, <1>2, <1>3 DEF LockHeld

\* Two processes inside locked sections work on different mutations.
LEMMA Exclusive ==
  ASSUME IInv, NEW p \in Procs, NEW q \in Procs, p # q,
         pc[p] # "idle", pc[q] # "idle"
  PROVE  job[p] # job[q]
  BY DEF IInv, LockHeld

\* Only a recorded verified create leads to the receipt.
LEMMA PendingReceipt ==
  ASSUME TypeOK, NEW m \in Mutations, Status(m) = "remote_verified_pending_receipt"
  PROVE  result[m] = "created_verified"
  BY DEF Status, Resolution, Terminal, TypeOK, TransportOutcomes

\* Steps that change no artifact and no process.
LEMMA VaultStep ==
  ASSUME IInv, UNCHANGED <<artifacts, procs>>, TypeOK', applied \subseteq applied',
         applied' \cup late' \subseteq request
  PROVE  IInv'
  <1> USE DEF artifacts, procs
  <1>1. LockHeld'
    BY DEF IInv, LockHeld
  <1>2. ExecutorBound'
    BY DEF IInv, ExecutorBound
  <1>3. WorkerBound'
    BY DEF IInv, WorkerBound
  <1>4. ArtifactsBound'
    BY DEF IInv, ArtifactsBound, TypeOK
  <1> QED BY <1>1, <1>2, <1>3, <1>4 DEF IInv

\* Entering a locked section, and moving inside it.
LEMMA AcquireKeeps ==
  ASSUME IInv, NEW p \in Procs, NEW m \in Mutations, NEW step \in Steps,
         Acquire(p, m, step), step # "idle",
         p \in Executors => step \in ExecutorSteps,
         p \in Workers => step \in WorkerSteps
  PROVE  /\ lock' \in [Mutations -> Procs \cup {Nobody}]
         /\ pc' \in [Procs -> Steps] /\ pc'[p] = step
         /\ job' \in [Procs -> Mutations] /\ job'[p] = m
         /\ \A q \in Procs \ {p} : pc'[q] = pc[q] /\ job'[q] = job[q]
         /\ seen' = seen
         /\ LockHeld'
  <1>1. /\ lock' \in [Mutations -> Procs \cup {Nobody}]
        /\ pc' \in [Procs -> Steps] /\ pc'[p] = step
        /\ job' \in [Procs -> Mutations] /\ job'[p] = m
        /\ \A q \in Procs \ {p} : pc'[q] = pc[q] /\ job'[q] = job[q]
        /\ seen' = seen
    BY DEF IInv, TypeOK, Acquire
  <1>2. \A q \in Procs : pc'[q] # "idle" => lock'[job'[q]] = q
    <2> SUFFICES ASSUME NEW q \in Procs, pc'[q] # "idle"
                 PROVE  lock'[job'[q]] = q
      OBVIOUS
    <2>1. CASE q = p
      BY <1>1, <2>1 DEF IInv, TypeOK, Acquire
    <2>2. CASE q # p
      <3>1. lock[job[q]] = q /\ job[q] \in Mutations /\ lock[m] = Nobody
        BY <1>1, <2>2 DEF IInv, TypeOK, LockHeld, Acquire
      <3>2. job[q] # m
        BY <3>1, ProcessAssumption DEF Procs
      <3> QED BY <1>1, <2>2, <3>1, <3>2 DEF IInv, TypeOK, Acquire
    <2> QED BY <2>1, <2>2
  <1>3. /\ \A e \in Executors : pc'[e] \in ExecutorSteps
        /\ \A w \in Workers : pc'[w] \in WorkerSteps
    BY <1>1 DEF IInv, LockHeld, Procs
  <1> QED BY <1>1, <1>2, <1>3 DEF LockHeld

LEMMA GotoKeeps ==
  ASSUME IInv, NEW p \in Procs, NEW step \in Steps, UNCHANGED <<lock, job>>,
         pc' = [pc EXCEPT ![p] = step], pc[p] # "idle",
         p \in Executors => step \in ExecutorSteps,
         p \in Workers => step \in WorkerSteps
  PROVE  /\ pc' \in [Procs -> Steps] /\ pc'[p] = step
         /\ \A q \in Procs \ {p} : pc'[q] = pc[q]
         /\ LockHeld'
  <1>1. /\ pc' \in [Procs -> Steps] /\ pc'[p] = step
        /\ \A q \in Procs \ {p} : pc'[q] = pc[q]
    BY DEF IInv, TypeOK
  <1> QED BY <1>1 DEF IInv, LockHeld, Procs

-----------------------------------------------------------------------------
\* The executor's steps.

LEMMA ExecutorKeeps ==
  ASSUME IInv, NEW e \in Executors, ExecutorStep(e)
  PROVE  IInv'
  <1> USE DEF artifacts, vaults, budget
  <1>0. e \in Procs /\ e \notin Workers /\ job[e] \in Mutations /\ TypeOK
    BY ProcessAssumption DEF Procs, IInv, TypeOK
  <1>1. CASE Reconcile(e)
    <2>1. CASE Release(e)
      <3>1. TypeOK'
        BY <1>0, <1>1, <2>1, ReleaseKeeps DEF Reconcile, TypeOK
      <3>2. LockHeld' /\ ExecutorBound' /\ WorkerBound'
        BY <1>0, <1>1, <2>1, ReleaseKeeps
           DEF Reconcile, IInv, ExecutorBound, WorkerBound, Procs
      <3>3. ArtifactsBound'
        BY <1>1 DEF Reconcile, IInv, ArtifactsBound
      <3> QED BY <3>1, <3>2, <3>3 DEF IInv
    <2>2. ASSUME NEW step \in {"prepare", "receipt"}, Goto(e, step),
                 step = "receipt" => result[job[e]] = "created_verified"
          PROVE  IInv'
      <3>1. /\ pc' \in [Procs -> Steps] /\ pc'[e] = step
            /\ \A q \in Procs \ {e} : pc'[q] = pc[q]
            /\ LockHeld'
        BY <1>0, <1>1, <2>2, GotoKeeps DEF Goto, Reconcile, Steps, ExecutorSteps
      <3>2. TypeOK' /\ ArtifactsBound'
        BY <1>1, <2>2, <3>1 DEF Reconcile, Goto, IInv, TypeOK, ArtifactsBound
      <3>3. ExecutorBound' /\ WorkerBound'
        BY <1>0, <1>1, <2>2, <3>1 DEF Reconcile, Goto, IInv, ExecutorBound, WorkerBound, Procs
      <3> QED BY <3>1, <3>2, <3>3 DEF IInv
    <2>3. Status(job[e]) = "remote_verified_pending_receipt"
            => result[job[e]] = "created_verified"
      BY <1>0, PendingReceipt
    <2> QED BY <1>1, <2>1, <2>2, <2>3 DEF Reconcile
  <1>2. CASE Prepare(e)
    <2>1. /\ intent \subseteq intent' /\ intent' \subseteq intent \cup {job[e]}
          /\ job[e] \in intent' \ intent => review[job[e]] = "approve"
          /\ UNCHANGED <<review, request, result, receipt, recovery, localRecovery,
                         vaults, budget>>
      BY <1>2 DEF Prepare
    <2>2. ArtifactsBound'
      BY <1>0, <2>1 DEF IInv, ArtifactsBound
    <2>3. CASE Release(e)
      <3>1. TypeOK'
        BY <1>0, <2>1, <2>3, ReleaseKeeps DEF TypeOK
      <3>2. LockHeld' /\ ExecutorBound' /\ WorkerBound'
        BY <1>0, <2>1, <2>3, ReleaseKeeps DEF IInv, ExecutorBound, WorkerBound, Procs
      <3> QED BY <2>2, <3>1, <3>2 DEF IInv
    <2>4. CASE Goto(e, "request") /\ job[e] \in intent'
      <3>1. /\ pc' \in [Procs -> Steps] /\ pc'[e] = "request"
            /\ \A q \in Procs \ {e} : pc'[q] = pc[q]
            /\ LockHeld'
        BY <1>0, <1>2, <2>4, GotoKeeps DEF Goto, Prepare, Steps, ExecutorSteps
      <3>2. TypeOK'
        BY <1>0, <2>1, <2>4, <3>1 DEF Goto, TypeOK
      <3>3. ExecutorBound' /\ WorkerBound'
        BY <1>0, <2>1, <2>4, <3>1 DEF Goto, IInv, ExecutorBound, WorkerBound, Procs
      <3> QED BY <2>2, <3>1, <3>2, <3>3 DEF IInv
    <2> QED BY <1>2, <2>3, <2>4 DEF Prepare
  <1>3. CASE StoreRequest(e)
    <2>1. Release(e) /\ job[e] \in intent
      BY <1>3 DEF StoreRequest, IInv, ExecutorBound
    <2>2. TypeOK'
      BY <1>0, <1>3, <2>1, ReleaseKeeps DEF StoreRequest, TypeOK
    <2>3. LockHeld' /\ ExecutorBound' /\ WorkerBound'
      BY <1>0, <1>3, <2>1, ReleaseKeeps
         DEF StoreRequest, IInv, ExecutorBound, WorkerBound, Procs
    <2>4. ArtifactsBound'
      BY <1>0, <1>3, <2>1 DEF StoreRequest, IInv, ArtifactsBound
    <2> QED BY <2>2, <2>3, <2>4 DEF IInv
  <1>4. CASE StoreReceipt(e)
    <2>1. Release(e) /\ result[job[e]] = "created_verified"
      BY <1>4 DEF StoreReceipt, IInv, ExecutorBound
    <2>2. TypeOK'
      BY <1>0, <1>4, <2>1, ReleaseKeeps DEF StoreReceipt, TypeOK
    <2>3. LockHeld' /\ ExecutorBound' /\ WorkerBound'
      BY <1>0, <1>4, <2>1, ReleaseKeeps
         DEF StoreReceipt, IInv, ExecutorBound, WorkerBound, Procs
    <2>4. ArtifactsBound'
      BY <1>0, <1>4, <2>1 DEF StoreReceipt, IInv, ArtifactsBound
    <2> QED BY <2>2, <2>3, <2>4 DEF IInv
  <1> QED BY <1>1, <1>2, <1>3, <1>4 DEF ExecutorStep

-----------------------------------------------------------------------------
\* The worker's steps.

LEMMA WorkerKeeps ==
  ASSUME IInv, NEW w \in Workers, WorkerStep(w)
  PROVE  IInv'
  <1> USE DEF artifacts, vaults, budget
  <1>0. w \in Procs /\ w \notin Executors /\ job[w] \in Mutations /\ TypeOK
        /\ Target[job[w]] \in Targets /\ Content[job[w]] \in Contents
    BY ProcessAssumption, BindingAssumption DEF Procs, IInv, TypeOK
  <1>a. ASSUME Release(w), UNCHANGED <<artifacts, vaults, budget>>
        PROVE  IInv'
    <2>1. TypeOK'
      BY <1>0, <1>a, ReleaseKeeps DEF TypeOK
    <2>2. LockHeld' /\ ExecutorBound' /\ WorkerBound'
      BY <1>0, <1>a, ReleaseKeeps DEF IInv, ExecutorBound, WorkerBound, Procs
    <2>3. ArtifactsBound'
      BY <1>a DEF IInv, ArtifactsBound
    <2> QED BY <2>1, <2>2, <2>3 DEF IInv
  <1>1. CASE Put(w)
    <2>1. /\ job[w] \in request /\ result[job[w]] = "none"
          /\ pc[w] = "put"
      BY <1>0, <1>1 DEF Put, IInv, WorkerBound
    <2>2. PICK step \in {"verify", "observe"} :
            /\ Goto(w, step)
            /\ applied \subseteq applied' /\ applied' \subseteq applied \cup {job[w]}
            /\ step = "verify" => job[w] \in applied'
            /\ remote' \in [Targets -> Contents \cup {Absent}]
      BY <1>0, <1>1 DEF Put, AcceptPut, RefusePut, TypeOK
    <2>3. /\ pc' \in [Procs -> Steps] /\ pc'[w] = step
          /\ \A q \in Procs \ {w} : pc'[q] = pc[q]
          /\ LockHeld'
      BY <1>0, <2>1, <2>2, GotoKeeps DEF Goto, Steps, WorkerSteps
    <2>4. TypeOK'
      BY <1>0, <1>1, <2>2, <2>3 DEF Put, Goto, TypeOK
    <2>5. ExecutorBound'
      BY <1>0, <1>1, <2>2, <2>3 DEF Put, Goto, IInv, ExecutorBound, Procs
    <2>6. WorkerBound'
      BY <1>0, <1>1, <2>1, <2>2, <2>3 DEF Put, Goto, IInv, WorkerBound, Procs
    <2>7. ArtifactsBound'
      BY <1>0, <1>1, <2>1, <2>2 DEF Put, IInv, ArtifactsBound
    <2> QED BY <2>3, <2>4, <2>5, <2>6, <2>7 DEF IInv
  <1>2. CASE VerifyPut(w) \/ ObserveTaken(w)
    <2>1. CASE Release(w)
      BY <1>2, <1>a, <2>1 DEF VerifyPut, ObserveTaken
    <2>2. CASE ~Release(w)
      <3>1. /\ job[w] \in request /\ result[job[w]] = "none" /\ pc[w] # "idle"
            /\ pc[w] = "verify" => job[w] \in applied
        BY <1>0, <1>2 DEF VerifyPut, ObserveTaken, IInv, WorkerBound
      <3>2. /\ pc' = [pc EXCEPT ![w] = "store"]
            /\ UNCHANGED <<lock, job, artifacts, vaults, budget>>
            /\ \E o \in TransportOutcomes : /\ seen' = [seen EXCEPT ![w] = o]
                                            /\ o = "created_verified" => pc[w] = "verify"
        BY <1>2, <2>2 DEF VerifyPut, ObserveTaken, TransportOutcomes
      <3>3. PICK o \in TransportOutcomes : /\ seen' = [seen EXCEPT ![w] = o]
                                           /\ o = "created_verified" => pc[w] = "verify"
        BY <3>2
      <3>4. /\ pc' \in [Procs -> Steps] /\ pc'[w] = "store"
            /\ \A q \in Procs \ {w} : pc'[q] = pc[q]
            /\ LockHeld'
        BY <1>0, <3>1, <3>2, GotoKeeps DEF Steps, WorkerSteps
      <3>5. TypeOK'
        BY <1>0, <3>2, <3>3, <3>4 DEF TypeOK
      <3>6. ExecutorBound' /\ ArtifactsBound'
        BY <1>0, <3>2, <3>4 DEF IInv, ExecutorBound, ArtifactsBound, Procs
      <3>7. seen'[w] = o /\ \A q \in Procs \ {w} : seen'[q] = seen[q]
        BY <1>0, <3>3 DEF TypeOK
      <3>8. WorkerBound'
        BY <1>0, <3>1, <3>2, <3>3, <3>4, <3>7 DEF IInv, WorkerBound, Procs
      <3> QED BY <3>4, <3>5, <3>6, <3>8 DEF IInv
    <2> QED BY <2>1, <2>2
  <1>3. CASE StoreResult(w)
    <2>1. /\ job[w] \in request /\ result[job[w]] = "none" /\ pc[w] = "store"
          /\ seen[w] \in TransportOutcomes
          /\ seen[w] = "created_verified" => job[w] \in applied
      BY <1>0, <1>3 DEF StoreResult, IInv, WorkerBound
    <2>2. /\ Release(w) /\ result' = [result EXCEPT ![job[w]] = seen[w]]
          /\ UNCHANGED <<review, intent, request, receipt, recovery, localRecovery,
                         vaults, budget>>
      BY <1>3, <2>1 DEF StoreResult
    <2>3. TypeOK'
      BY <1>0, <2>1, <2>2, ReleaseKeeps DEF TypeOK
    <2>4. LockHeld'
      BY <1>0, <2>2, ReleaseKeeps
    <2>5. \A q \in Procs \ {w} : pc[q] # "idle" => job[q] # job[w]
      BY <1>0, <2>1, Exclusive
    <2>6. ExecutorBound'
      BY <1>0, <2>2, <2>5, ReleaseKeeps DEF IInv, TypeOK, ExecutorBound, Procs
    <2>7. WorkerBound'
      BY <1>0, <2>2, <2>5, ReleaseKeeps DEF IInv, TypeOK, WorkerBound, Procs
    <2>8. ArtifactsBound'
      BY <1>0, <2>1, <2>2 DEF IInv, TypeOK, ArtifactsBound, TransportOutcomes
    <2> QED BY <2>3, <2>4, <2>6, <2>7, <2>8 DEF IInv
  <1> QED BY <1>1, <1>2, <1>3 DEF WorkerStep

-----------------------------------------------------------------------------
\* Entering the locked sections.

LEMMA BeginKeeps ==
  ASSUME IInv, NEW p \in Procs, NEW m \in Mutations,
         \/ p \in Executors /\ (Advance(p, m) \/ PrepareRequest(p, m))
         \/ p \in Workers /\ Transport(p, m)
  PROVE  IInv'
  <1>1. PICK step \in {"reconcile", "prepare", "put"} :
          /\ Acquire(p, m, step)
          /\ p \in Executors => step \in {"reconcile", "prepare"}
          /\ p \in Workers => step = "put" /\ m \in request /\ result[m] = "none"
          /\ UNCHANGED <<artifacts, vaults, budget>>
    BY ProcessAssumption DEF Advance, PrepareRequest, Transport
  <1>2. /\ lock' \in [Mutations -> Procs \cup {Nobody}]
        /\ pc' \in [Procs -> Steps] /\ pc'[p] = step
        /\ job' \in [Procs -> Mutations] /\ job'[p] = m
        /\ \A q \in Procs \ {p} : pc'[q] = pc[q] /\ job'[q] = job[q]
        /\ seen' = seen
        /\ LockHeld'
    BY <1>1, AcquireKeeps DEF Steps, ExecutorSteps, WorkerSteps
  <1> USE DEF artifacts, vaults, budget
  <1>3. TypeOK'
    BY <1>1, <1>2 DEF IInv, TypeOK
  <1>4. ExecutorBound'
    BY <1>1, <1>2 DEF IInv, ExecutorBound, Procs
  <1>5. WorkerBound'
    BY <1>1, <1>2 DEF IInv, WorkerBound, Procs
  <1>6. ArtifactsBound'
    BY <1>1 DEF IInv, ArtifactsBound
  <1> QED BY <1>2, <1>3, <1>4, <1>5, <1>6 DEF IInv

\* A fault ends one section and may leave its PUT in flight.
LEMMA InterruptKeeps ==
  ASSUME IInv, NEW p \in Procs, Interrupt(p)
  PROVE  IInv'
  <1> USE DEF artifacts
  <1>0. /\ TypeOK /\ job[p] \in Mutations
        /\ pc[p] = "put" => job[p] \in request
    BY DEF IInv, TypeOK, LockHeld, WorkerBound, ExecutorSteps, Procs
  <1>1. late' \subseteq Mutations /\ late' \subseteq late \cup request
    BY <1>0 DEF Interrupt, TypeOK
  <1>2. TypeOK'
    BY <1>0, <1>1, ReleaseKeeps, BoundAssumption DEF Interrupt, TypeOK
  <1>3. LockHeld' /\ ExecutorBound' /\ WorkerBound'
    BY ReleaseKeeps DEF Interrupt, IInv, ExecutorBound, WorkerBound, Procs
  <1>4. ArtifactsBound'
    BY <1>1 DEF Interrupt, IInv, ArtifactsBound
  <1> QED BY <1>2, <1>3, <1>4 DEF IInv

-----------------------------------------------------------------------------
\* The Human, the server and the mirror.

LEMMA HumanKeeps ==
  ASSUME IInv, NEW m \in Mutations,
         \/ \E d \in Decisions : Decide(m, d)
         \/ \E d \in Recoveries : RecordRecovery(m, d)
         \/ RecordLocalRecovery(m)
  PROVE  IInv'
  <1> USE DEF procs, vaults, budget
  <1>1. UNCHANGED <<intent, request, result, receipt, procs, vaults, budget>>
    BY DEF Decide, RecordRecovery, RecordLocalRecovery
  <1>2. TypeOK'
    BY <1>1 DEF IInv, TypeOK, Decide, RecordRecovery, RecordLocalRecovery
  <1>3. LockHeld' /\ ExecutorBound' /\ WorkerBound'
    BY <1>1 DEF IInv, LockHeld, ExecutorBound, WorkerBound
  <1>4. \A n \in Mutations : n \in intent => review'[n] = "approve"
    BY DEF IInv, TypeOK, ArtifactsBound, Decide, RecordRecovery, RecordLocalRecovery
  <1>5. \A n \in Mutations :
          /\ recovery'[n] # "none" => result[n] \in {"target_exists_matching",
                                                     "target_exists_conflict"}
          /\ recovery'[n] = "adopt_observed_effect"
               => result[n] = "target_exists_matching"
    BY DEF IInv, TypeOK, ArtifactsBound, Decide, RecordRecovery, RecordLocalRecovery
  <1>6. ArtifactsBound'
    BY <1>1, <1>4, <1>5 DEF IInv, ArtifactsBound
  <1> QED BY <1>2, <1>3, <1>6 DEF IInv

LEMMA StepIInv == IInv /\ [Next]_vars => IInv'
  <1> SUFFICES ASSUME IInv, [Next]_vars PROVE IInv'
    OBVIOUS
  <1>1. ASSUME NEW m \in Mutations, LatePut(m)
        PROVE  IInv'
    <2>1. /\ remote' \in [Targets -> Contents \cup {Absent}]
          /\ applied \subseteq applied' /\ applied' \subseteq applied \cup late
      BY <1>1, BindingAssumption DEF LatePut, AcceptPut, RefusePut, IInv, TypeOK
    <2>2. TypeOK'
      BY <1>1, <2>1 DEF LatePut, IInv, TypeOK, artifacts, procs, budget
    <2>3. applied' \cup late' \subseteq request
      BY <1>1, <2>1 DEF LatePut, IInv, TypeOK, ArtifactsBound
    <2> QED BY <1>1, <2>1, <2>2, <2>3, VaultStep DEF LatePut
  <1>2. ASSUME NEW t \in Targets,
               Pull(t) \/ \E c \in Contents \cup {Absent} : HumanEdit(t, c)
        PROVE  IInv'
    <2>1. TypeOK'
      BY <1>2, BoundAssumption
         DEF Pull, HumanEdit, IInv, TypeOK, artifacts, procs, budget
    <2>2. applied' \cup late' \subseteq request
      BY <1>2 DEF Pull, HumanEdit, IInv, TypeOK, ArtifactsBound
    <2> QED BY <1>2, <2>1, <2>2, VaultStep DEF Pull, HumanEdit
  <1>3. CASE UNCHANGED vars
    BY <1>3 DEF vars, artifacts, procs, vaults, budget, IInv, TypeOK, LockHeld,
         ExecutorBound, WorkerBound, ArtifactsBound
  <1>4. ASSUME NEW m \in Mutations, NEW p \in Procs,
               \/ p \in Executors /\ (Advance(p, m) \/ PrepareRequest(p, m))
               \/ p \in Workers /\ Transport(p, m)
        PROVE  IInv'
    BY <1>4, BeginKeeps
  <1>5. ASSUME NEW p \in Procs, Interrupt(p)
        PROVE  IInv'
    BY <1>5, InterruptKeeps
  <1> QED BY <1>1, <1>2, <1>3, <1>4, <1>5, HumanKeeps, ExecutorKeeps, WorkerKeeps
          DEF Next, Procs

\* The inductive invariant holds of every behaviour.
THEOREM Invariance == Spec => []IInv
  BY InitIInv, StepIInv, PTL DEF Spec

\* Types: every variable keeps its shape, for any constants.
THEOREM TypeCorrect == Spec => []TypeOK
  <1>1. IInv => TypeOK
    BY DEF IInv
  <1> QED BY <1>1, Invariance, PTL

\* A receipt always stands for a create of this very mutation that the server
\* accepted.
THEOREM Provenance == Spec => []ReceiptHasProvenance
  <1>1. IInv => ReceiptHasProvenance
    BY DEF IInv, TypeOK, ArtifactsBound, ReceiptHasProvenance
  <1> QED BY <1>1, Invariance, PTL

\* Nothing is prepared, sent or created without an approval.
THEOREM OnlyApproved == Spec => []OnlyApprovedExecutes
  <1>1. IInv => OnlyApprovedExecutes
    BY DEF IInv, TypeOK, ArtifactsBound, OnlyApprovedExecutes
  <1> QED BY <1>1, Invariance, PTL

\* No mutation has both a receipt and a remote recovery decision.
THEOREM SingleEnding == Spec => []OneEnding
  <1>1. IInv => OneEnding
    BY DEF IInv, ArtifactsBound, OneEnding
  <1> QED BY <1>1, Invariance, PTL

\* Reconciliation never meets the artifact combinations its code calls
\* inconsistent.
THEOREM ConflictExplained == Spec => []ConflictIsExplained
  <1>1. IInv => ConflictIsExplained
    <2> SUFFICES ASSUME IInv, NEW m \in Mutations, Status(m) = "conflict",
                        m \notin localRecovery
                 PROVE  result[m] = "target_exists_conflict"
      BY DEF ConflictIsExplained
    <2>1. /\ result[m] \in TransportOutcomes \cup {"none"}
          /\ recovery[m] \in Recoveries \cup {"none"}
          /\ m \in receipt => result[m] = "created_verified"
          /\ recovery[m] # "none" => result[m] \in {"target_exists_matching",
                                                    "target_exists_conflict"}
          /\ recovery[m] = "adopt_observed_effect" => result[m] = "target_exists_matching"
          /\ result[m] # "none" => m \in request
      BY DEF IInv, TypeOK, ArtifactsBound
    <2> QED BY <2>1 DEF Status, Resolution, Terminal, TransportOutcomes, Recoveries
  <1> QED BY <1>1, Invariance, PTL

\* The automation adds files to the Vault and never changes one.
THEOREM NoOverwrite == Spec => NeverOverwrites
  <1>1. [Next]_vars => [edits' = edits =>
                \A t \in Targets : remote[t] # Absent => remote'[t] = remote[t]]_vars
    <2> SUFFICES ASSUME [Next]_vars, edits' = edits, NEW t \in Targets, remote[t] # Absent
                 PROVE  remote'[t] = remote[t]
      OBVIOUS
    <2>1. CASE UNCHANGED remote
      BY <2>1
    <2>2. ASSUME NEW m, AcceptPut(m)
          PROVE  remote'[t] = remote[t]
      BY <2>2 DEF AcceptPut
    <2>3. ASSUME NEW m, AcceptPut(m) \/ RefusePut(m)
          PROVE  remote'[t] = remote[t]
      BY <2>2, <2>3 DEF RefusePut
    <2>4. ASSUME NEW w \in Workers, WorkerStep(w)
          PROVE  remote'[t] = remote[t]
      <3>1. CASE Put(w)
        BY <2>3, <3>1 DEF Put
      <3> QED BY <2>4, <3>1 DEF WorkerStep, VerifyPut, ObserveTaken, StoreResult, vaults
    <2>5. ASSUME NEW m \in Mutations, LatePut(m)
          PROVE  remote'[t] = remote[t]
      BY <2>3, <2>5 DEF LatePut
    <2>6. ASSUME NEW u \in Targets, NEW c \in Contents \cup {Absent}, HumanEdit(u, c)
          PROVE  FALSE
      BY <2>6 DEF HumanEdit
    <2> QED BY <2>1, <2>4, <2>5, <2>6
            DEF Next, vars, vaults, Decide, Advance, PrepareRequest, Transport,
                RecordRecovery, RecordLocalRecovery, ExecutorStep, Reconcile,
                Prepare, StoreRequest, StoreReceipt, Interrupt, Pull
  <1> QED BY <1>1, PTL DEF Spec, NeverOverwrites

\* No PUT is sent for a mutation whose outcome is recorded, whichever workers,
\* retries and crashes lie between the look-up and the PUT.
THEOREM ResultStops == Spec => []ResultStopsTransport
  <1>1. IInv => ResultStopsTransport
    BY DEF IInv, WorkerBound, ResultStopsTransport
  <1> QED BY <1>1, Invariance, PTL

\* What a step may do to the durable artifacts of one mutation.
LEMMA ArtifactsGrow ==
  ASSUME IInv, [Next]_vars, NEW m \in Mutations
  PROVE  /\ intent \subseteq intent' /\ request \subseteq request'
         /\ receipt \subseteq receipt'
         /\ m \in receipt' \ receipt => result[m] = "created_verified"
         /\ review[m] # "none" => review'[m] = review[m]
         /\ result[m] # "none" => result'[m] = result[m]
         /\ recovery'[m] # recovery[m] =>
              /\ recovery[m] = "none"
              /\ result[m] \in {"target_exists_matching", "target_exists_conflict"}
  <1> DEFINE Grows == /\ intent \subseteq intent' /\ request \subseteq request'
                      /\ receipt \subseteq receipt'
                      /\ m \in receipt' \ receipt => result[m] = "created_verified"
                      /\ review[m] # "none" => review'[m] = review[m]
                      /\ result[m] # "none" => result'[m] = result[m]
                      /\ recovery'[m] # recovery[m] =>
                           /\ recovery[m] = "none"
                           /\ result[m] \in {"target_exists_matching",
                                             "target_exists_conflict"}
  <1> USE DEF artifacts, IInv, TypeOK
  <1>1. CASE UNCHANGED artifacts
    BY <1>1
  <1>2. ASSUME NEW n \in Mutations,
               \/ \E d \in Decisions : Decide(n, d)
               \/ \E d \in Recoveries : RecordRecovery(n, d)
               \/ RecordLocalRecovery(n)
        PROVE  Grows
    BY <1>2 DEF Decide, RecordRecovery, RecordLocalRecovery
  <1>3. ASSUME NEW e \in Executors, ExecutorStep(e) PROVE Grows
    <2>1. pc[e] = "receipt" => result[job[e]] = "created_verified"
      BY DEF ExecutorBound
    <2> QED BY <1>3, <2>1 DEF ExecutorStep, Reconcile, Prepare, StoreRequest, StoreReceipt
  <1>4. ASSUME NEW w \in Workers, WorkerStep(w) PROVE Grows
    BY <1>4 DEF WorkerStep, Put, VerifyPut, ObserveTaken, StoreResult
  <1> QED BY <1>1, <1>2, <1>3, <1>4
          DEF Next, vars, Advance, PrepareRequest, Transport, LatePut, Interrupt, Pull, HumanEdit

\* A finished mutation stays finished through later runs, failures and edits.
THEOREM FinishedRemains == Spec => FinishedStays
  <1>1. ASSUME IInv, [Next]_vars, NEW m \in Mutations, m \notin localRecovery',
               Status(m) \in {"completed", "resolved_abandoned", "resolved_effect_adopted"}
        PROVE  Status(m)' = Status(m)
    <2>1. /\ m \in intent \cap request /\ review[m] = "approve" /\ result[m] # "none"
          /\ \/ result[m] = "created_verified" /\ m \in receipt /\ recovery[m] = "none"
             \/ result[m] # "created_verified" /\ m \notin receipt /\ recovery[m] # "none"
      BY <1>1 DEF Status, Resolution, Terminal, IInv, ArtifactsBound
    <2>2. /\ m \in intent' \cap request'
          /\ review'[m] = review[m] /\ result'[m] = result[m] /\ recovery'[m] = recovery[m]
          /\ m \in receipt' <=> m \in receipt
      BY <1>1, <2>1, ArtifactsGrow
    <2>3. m \notin localRecovery
      BY <1>1, <2>1 DEF Status
    <2> QED BY <1>1, <2>1, <2>2, <2>3 DEF Status, Resolution, Terminal
  <1>2. IInv /\ [Next]_vars =>
          [\A m \in Mutations :
             /\ Status(m) \in {"completed", "resolved_abandoned", "resolved_effect_adopted"}
             /\ m \notin localRecovery'
             => Status(m)' = Status(m)]_vars
    BY <1>1
  <1> QED BY <1>2, Invariance, PTL DEF Spec, FinishedStays

-----------------------------------------------------------------------------
\* The durable artifacts implement the mutation lifecycle.

LEMMA PhaseUnchanged ==
  ASSUME NEW m \in Mutations, review'[m] = review[m], result'[m] = result[m],
         recovery'[m] = recovery[m], m \in receipt' <=> m \in receipt
  PROVE  Phase(m)' = Phase(m)
  BY DEF Phase

LEMMA MoveStep ==
  ASSUME NEW m \in Mutations, NEW from, NEW to, Phase(m) \in from, Phase(m)' \in to,
         \A n \in Mutations \ {m} : Phase(n)' = Phase(n), applied' = applied
  PROVE  Lifecycle!Move(m, from, to)
  BY DEF Lifecycle!Move

LEMMA LifecycleStep ==
  ASSUME IInv, [Next]_vars
  PROVE  [Lifecycle!Next]_(Lifecycle!vars)
  <1> USE DEF artifacts, vaults, budget, procs
  <1>0. TypeOK /\ ArtifactsBound
    BY DEF IInv
  <1>1. ASSUME NEW m \in Mutations, NEW d \in Decisions, Decide(m, d)
        PROVE  Lifecycle!Next
    <2>1. /\ review' = [review EXCEPT ![m] = d] /\ review[m] = "none"
          /\ UNCHANGED <<result, recovery, receipt, applied, intent, request>>
      BY <1>1 DEF Decide
    <2>2. Phase(m) = "proposed"
      BY <2>1 DEF Phase
    <2>3. m \notin intent /\ result[m] = "none" /\ recovery[m] = "none" /\ m \notin receipt
      BY <1>0, <2>1 DEF TypeOK, ArtifactsBound
    <2>4. Phase(m)' \in {"approved", "declined"}
      BY <1>0, <2>1, <2>3 DEF Phase, Decisions, TypeOK
    <2>5. \A n \in Mutations \ {m} : Phase(n)' = Phase(n)
      BY <1>0, <2>1, PhaseUnchanged DEF TypeOK
    <2>6. Lifecycle!Review(m)
      BY <2>1, <2>2, <2>4, <2>5, MoveStep DEF Lifecycle!Review
    <2> QED BY <2>6 DEF Lifecycle!Next
  <1>2. ASSUME NEW e \in Executors, StoreReceipt(e), receipt' # receipt
        PROVE  Lifecycle!Next
    <2>0. PICK m \in Mutations : m = job[e]
      BY <1>0 DEF TypeOK, Procs
    <2>1. /\ m \notin receipt /\ receipt' = receipt \cup {m}
          /\ result[m] = "created_verified"
          /\ UNCHANGED <<review, result, recovery, applied>>
      BY <1>0, <1>2, <2>0 DEF StoreReceipt
    <2>2. review[m] = "approve" /\ recovery[m] = "none"
      BY <1>0, <2>1 DEF ArtifactsBound, TypeOK
    <2>3. Phase(m) = "created" /\ Phase(m)' = "receipted"
      BY <2>1, <2>2 DEF Phase
    <2>4. \A n \in Mutations \ {m} : Phase(n)' = Phase(n)
      BY <2>1, PhaseUnchanged
    <2>5. Lifecycle!Receipt(m)
      BY <2>1, <2>3, <2>4, MoveStep DEF Lifecycle!Receipt
    <2> QED BY <2>1, <2>5 DEF Lifecycle!Next
  <1>3. ASSUME NEW w \in Workers, StoreResult(w), result' # result
        PROVE  Lifecycle!Next
    <2>0. PICK m \in Mutations : m = job[w]
      BY <1>0 DEF TypeOK, Procs
    <2>1. /\ m \in request /\ result[m] = "none"
          /\ seen[w] \in TransportOutcomes
          /\ seen[w] = "created_verified" => m \in applied
          /\ result' = [result EXCEPT ![m] = seen[w]]
          /\ UNCHANGED <<review, recovery, receipt, applied>>
      BY <1>0, <1>3, <2>0 DEF StoreResult, IInv, WorkerBound
    <2>2. review[m] = "approve" /\ recovery[m] = "none" /\ m \notin receipt
      BY <1>0, <2>1 DEF ArtifactsBound, TypeOK
    <2>3. Phase(m) = "approved" /\ result'[m] = seen[w]
      BY <1>0, <2>1, <2>2 DEF Phase, TypeOK
    <2>4. \A n \in Mutations \ {m} : Phase(n)' = Phase(n)
      BY <1>0, <2>1, PhaseUnchanged DEF TypeOK
    <2>5. \/ Phase(m)' = "created" /\ m \in applied
          \/ Phase(m)' \in {"ambiguous", "blocked"}
      BY <2>1, <2>2, <2>3 DEF Phase, TransportOutcomes
    <2>6. Lifecycle!Confirm(m) \/ Lifecycle!FindTaken(m)
      BY <2>1, <2>3, <2>4, <2>5, MoveStep DEF Lifecycle!Confirm, Lifecycle!FindTaken
    <2> QED BY <2>1, <2>6 DEF Lifecycle!Next
  <1>4. ASSUME NEW m \in Mutations, NEW d \in Recoveries, RecordRecovery(m, d)
        PROVE  Lifecycle!Next
    <2>1. /\ recovery' = [recovery EXCEPT ![m] = d] /\ recovery[m] = "none"
          /\ result[m] \in {"target_exists_matching", "target_exists_conflict"}
          /\ d = "adopt_observed_effect" => result[m] = "target_exists_matching"
          /\ UNCHANGED <<review, result, receipt, applied>>
      BY <1>4 DEF RecordRecovery
    <2>2. review[m] = "approve" /\ m \notin receipt /\ recovery'[m] = d
      BY <1>0, <2>1 DEF ArtifactsBound, TypeOK
    <2>3. \A n \in Mutations \ {m} : Phase(n)' = Phase(n)
      BY <1>0, <2>1, PhaseUnchanged DEF TypeOK
    <2>4. \/ Phase(m) = "ambiguous" /\ Phase(m)' \in {"adopted", "abandoned"}
          \/ Phase(m) = "blocked" /\ Phase(m)' = "abandoned"
      BY <2>1, <2>2 DEF Phase, Recoveries
    <2>5. Lifecycle!Adopt(m) \/ Lifecycle!Abandon(m)
      BY <2>1, <2>3, <2>4, MoveStep DEF Lifecycle!Adopt, Lifecycle!Abandon
    <2> QED BY <2>5 DEF Lifecycle!Next
  \* An accepted PUT, in time or late, is the lifecycle's effect.
  <1>5. ASSUME NEW m \in request, applied' \in {applied, applied \cup {m}},
               UNCHANGED <<review, result, recovery, receipt>>
        PROVE  [Lifecycle!Next]_(Lifecycle!vars)
    <2>1. m \in Mutations /\ review[m] = "approve"
      BY <1>0 DEF TypeOK, ArtifactsBound
    <2>2. \A n \in Mutations : Phase(n)' = Phase(n)
      BY <1>5, PhaseUnchanged
    <2>3. Phase(m) \notin {"proposed", "declined"}
      BY <1>0, <2>1 DEF Phase, TypeOK, TransportOutcomes, Recoveries
    <2>4. CASE applied' = applied
      BY <2>2, <2>4 DEF Lifecycle!vars
    <2>5. CASE applied' = applied \cup {m}
      <3>1. Lifecycle!Effect(m)
        BY <2>1, <2>2, <2>3, <2>5 DEF Lifecycle!Effect
      <3> QED BY <2>1, <3>1 DEF Lifecycle!Next
    <2> QED BY <1>5, <2>4, <2>5
  <1>6. ASSUME NEW w \in Workers, Put(w)
        PROVE  [Lifecycle!Next]_(Lifecycle!vars)
    <2>1. job[w] \in request
      BY <1>6 DEF Put, IInv, WorkerBound
    <2>2. /\ applied' \in {applied, applied \cup {job[w]}}
          /\ UNCHANGED <<review, result, recovery, receipt>>
      BY <1>6 DEF Put, AcceptPut, RefusePut
    <2> QED BY <1>5, <2>1, <2>2
  <1>7. ASSUME NEW m \in Mutations, LatePut(m)
        PROVE  [Lifecycle!Next]_(Lifecycle!vars)
    <2>1. m \in request
      BY <1>0, <1>7 DEF LatePut, ArtifactsBound
    <2>2. /\ applied' \in {applied, applied \cup {m}}
          /\ UNCHANGED <<review, result, recovery, receipt>>
      BY <1>7 DEF LatePut, AcceptPut, RefusePut
    <2> QED BY <1>5, <2>1, <2>2
  <1>8. ASSUME UNCHANGED <<review, result, recovery, receipt, applied>>
        PROVE  UNCHANGED Lifecycle!vars
    <2>1. \A n \in Mutations : Phase(n)' = Phase(n)
      BY <1>8, PhaseUnchanged
    <2> QED BY <1>8, <2>1 DEF Lifecycle!vars
  <1> QED BY <1>1, <1>2, <1>3, <1>4, <1>6, <1>7, <1>8
        DEF Next, vars, Advance, PrepareRequest, Transport, RecordLocalRecovery,
            ExecutorStep, Reconcile, Prepare, StoreRequest, StoreReceipt,
            WorkerStep, VerifyPut, ObserveTaken, StoreResult, Interrupt, Pull, HumanEdit

\* Whatever crashes, times out or is edited, each mutation goes through its
\* lifecycle: decided once, one outcome, success only for its own create.
THEOREM Refinement == Spec => ImplementsLifecycle
  <1>1. Init => Lifecycle!Init
    BY DEF Init, Lifecycle!Init, Phase
  <1>2. IInv /\ [Next]_vars => [Lifecycle!Next]_(Lifecycle!vars)
    BY LifecycleStep
  <1> QED BY <1>1, <1>2, Invariance, PTL DEF Spec, ImplementsLifecycle, Lifecycle!Spec

\* An ending of the lifecycle is the last word about a mutation.
LEMMA EndingStep ==
  ASSUME [Lifecycle!Next]_(Lifecycle!vars), NEW m \in Mutations, Phase(m) \in Lifecycle!Endings
  PROVE  Phase(m)' = Phase(m)
<1> DEFINE at == [k \in Mutations |-> Phase(k)]
<1>1. CASE UNCHANGED Lifecycle!vars
  <2>1. at'[m] = at[m]
    BY <1>1 DEF Lifecycle!vars
  <2> QED BY <2>1
<1>2. ASSUME NEW n \in Mutations, NEW from, NEW to, Lifecycle!Move(n, from, to),
             from \cap Lifecycle!Endings = {}
      PROVE  Phase(m)' = Phase(m)
  <2>1. PICK p \in to : at' = [at EXCEPT ![n] = p]
    BY <1>2 DEF Lifecycle!Move
  <2>2. m # n
    BY <1>2 DEF Lifecycle!Move
  <2>3. at'[m] = at[m]
    BY <2>1, <2>2
  <2> QED BY <2>3
<1>3. ASSUME NEW n \in Mutations, Lifecycle!Effect(n) PROVE Phase(m)' = Phase(m)
  <2>1. at' = at
    BY <1>3 DEF Lifecycle!Effect
  <2>2. at'[m] = at[m]
    BY <2>1
  <2> QED BY <2>2
<1> QED BY <1>1, <1>2, <1>3
        DEF Lifecycle!Next, Lifecycle!Review, Lifecycle!Confirm, Lifecycle!FindTaken, Lifecycle!Receipt,
            Lifecycle!Adopt, Lifecycle!Abandon, Lifecycle!Endings

\* What the lifecycle promises holds of the artifacts: a mutation that is declined,
\* receipted, adopted or abandoned stays so.
THEOREM EndingsRemain == Spec => Lifecycle!EndingsStand
<1>1. [Lifecycle!Next]_(Lifecycle!vars) => [Lifecycle!SameEndings]_(Lifecycle!vars)
  <2> SUFFICES ASSUME [Lifecycle!Next]_(Lifecycle!vars) PROVE Lifecycle!SameEndings
      OBVIOUS
  <2>1. \A m \in Mutations : Phase(m) \in Lifecycle!Endings => Phase(m)' = Phase(m)
    BY EndingStep
  <2> QED BY <2>1 DEF Lifecycle!SameEndings
<1> QED BY <1>1, Refinement, PTL DEF ImplementsLifecycle, Lifecycle!Spec, Lifecycle!EndingsStand

-----------------------------------------------------------------------------
(* KnowledgeDispatch: the recurring cycle *)

Stages == {"waiting", "prepare", "transport", "finalize"}

\* Where the cycle is, and that its units are alone.
DispatchInv == stage \in Stages /\ processed \in Nat /\ UnitsAlone /\ NeverLockedOut

LEMMA TwoAccounts ==
  /\ Procs = {Executor, Worker} /\ Executor \in Executors /\ Worker \in Workers
  /\ Executor # Worker /\ Process \in Procs
  BY AccountAssumption, ProcessAssumption DEF Procs, Process

\* A step of a call goes on inside it or ends it.
LEMMA CallStep ==
  ASSUME IInv, NEW p \in Procs, ExecutorStep(p) \/ WorkerStep(p)
  PROVE  /\ InCall(p)
         /\ \/ Release(p)
            \/ /\ UNCHANGED <<lock, job>>
               /\ \E step \in Steps \ {"idle"} : pc' = [pc EXCEPT ![p] = step]
<1>1. CASE ExecutorStep(p)
  BY <1>1 DEF ExecutorStep, Reconcile, Prepare, StoreRequest, StoreReceipt, Goto, InCall, Steps
<1>2. CASE WorkerStep(p)
  BY <1>2 DEF WorkerStep, Put, VerifyPut, ObserveTaken, StoreResult, Goto, InCall, Steps
<1> QED BY <1>1, <1>2

\* Outside of a call every mutation is free.
LEMMA FreeOutside ==
  ASSUME DispatchInv, ~InCall(Process)
  PROVE  /\ \A p \in Procs : ~InCall(p)
         /\ IInv => \A m \in Mutations : lock[m] = Nobody
  BY DEF DispatchInv, UnitsAlone, NeverLockedOut, IInv, TypeOK

\* A cycle that moves on between two calls keeps the units apart.
LEMMA BetweenCalls ==
  ASSUME IInv, DispatchInv, ~InCall(Process), UNCHANGED vars,
         stage' \in Stages, processed' \in 0..MaxItems
  PROVE  DispatchInv'
<1>1. \A p \in Procs : ~InCall(p)'
  BY FreeOutside DEF InCall, vars, procs
<1>2. \A m \in Mutations : lock'[m] = Nobody
  BY FreeOutside DEF vars, procs
<1> QED BY <1>1, <1>2, MaxItemsAssumption DEF DispatchInv, UnitsAlone, NeverLockedOut

\* A dispatcher calls for the mutation it has come to.
LEMMA CallKeeps ==
  ASSUME IInv, DispatchInv, NEW m \in Mutations, StartsWith(m), processed < MaxItems,
         stage # "waiting", NEW step \in Steps \ {"idle"}, Acquire(Process, m, step),
         UNCHANGED cycle
  PROVE  DispatchInv'
<1> DEFINE p == Process
<1>1. p \in Procs /\ Process' = p
  BY TwoAccounts DEF Process, cycle
<1>2. \A q \in Procs : ~InCall(q)
  BY FreeOutside DEF Acquire, InCall
<1>3. /\ lock' = [lock EXCEPT ![m] = p] /\ job' = [job EXCEPT ![p] = m]
      /\ pc' = [pc EXCEPT ![p] = step]
  BY DEF Acquire
<1> HIDE DEF p
<1>4. /\ \A q \in Procs \ {p} : pc'[q] = "idle"
      /\ pc'[p] # "idle" /\ job'[p] = m
      /\ lock'[m] = p /\ \A n \in Mutations \ {m} : lock'[n] = Nobody
  <2>1. \A n \in Mutations : lock[n] = Nobody
    BY FreeOutside, <1>2, TwoAccounts
  <2> QED BY <1>1, <1>2, <1>3, <2>1 DEF InCall, IInv, TypeOK
<1>5. /\ StartsWith(m)' /\ processed' < MaxItems /\ stage' # "waiting"
      /\ processed' <= MaxItems /\ processed' \in Nat /\ stage' \in Stages
  BY MaxItemsAssumption DEF StartsWith, cycle, DispatchInv
<1>6. UnitsAlone'
  BY <1>1, <1>4, <1>5 DEF UnitsAlone, InCall
<1>7. NeverLockedOut'
  BY <1>4 DEF NeverLockedOut, InCall
<1> QED BY <1>5, <1>6, <1>7 DEF DispatchInv

\* A call that ends, or dies, leaves nothing locked.
LEMMA ReturnKeeps ==
  ASSUME IInv, DispatchInv, InCall(Process), Release(Process),
         stage' \in Stages, processed' \in 0..MaxItems
  PROVE  DispatchInv'
<1>1. Process \in Procs
  BY TwoAccounts
<1>2. \A q \in Procs : pc'[q] = "idle"
  BY <1>1, ReleaseKeeps DEF DispatchInv, UnitsAlone, InCall
<1>3. \A m \in Mutations : lock'[m] = Nobody
  <2>1. \A m \in Mutations : lock[m] # Nobody => lock[m] = Process
    BY DEF DispatchInv, UnitsAlone, NeverLockedOut, IInv, TypeOK
  <2> QED BY <2>1 DEF Release
<1> QED BY <1>2, <1>3, MaxItemsAssumption DEF DispatchInv, UnitsAlone, NeverLockedOut, InCall

\* A call that goes on.
LEMMA GoesOnKeeps ==
  ASSUME IInv, DispatchInv, InCall(Process), UNCHANGED <<lock, job, cycle>>,
         NEW step \in Steps \ {"idle"}, pc' = [pc EXCEPT ![Process] = step]
  PROVE  DispatchInv'
<1>1. Process \in Procs /\ Process' = Process
  BY TwoAccounts DEF Process, cycle
<1>2. \A q \in Procs : InCall(q)' => InCall(q)
  BY <1>1 DEF InCall, IInv, TypeOK
<1>3. UnitsAlone'
  BY <1>1, <1>2 DEF DispatchInv, UnitsAlone, StartsWith, cycle
<1>4. NeverLockedOut'
  BY <1>1 DEF DispatchInv, NeverLockedOut, InCall, IInv, TypeOK
<1> QED BY <1>3, <1>4 DEF DispatchInv, cycle

LEMMA RunKeeps ==
  ASSUME IInv, DispatchInv, RunExecutor \/ RunTransport
  PROVE  DispatchInv'
<1>1. /\ ExecutorStep(Process) \/ WorkerStep(Process)
      /\ pc'[Process] # "idle" => UNCHANGED cycle
      /\ pc'[Process] = "idle" => ExecutorReturns \/ TransportReturns
  BY DEF RunExecutor, RunTransport, Process
<1>2. Process \in Procs /\ InCall(Process) /\ processed < MaxItems
  BY <1>1, TwoAccounts, CallStep DEF DispatchInv, UnitsAlone
<1>3. CASE Release(Process)
  <2>1. pc'[Process] = "idle"
    BY <1>2, <1>3, ReleaseKeeps
  <2>2. stage' \in Stages /\ processed' \in 0..MaxItems
    BY <1>1, <1>2, <2>1, MaxItemsAssumption
       DEF ExecutorReturns, TransportReturns, Continues, Fails, Enter, DispatchInv, Stages
  <2> QED BY <1>2, <1>3, <2>2, ReturnKeeps
<1>4. ASSUME NEW step \in Steps \ {"idle"}, pc' = [pc EXCEPT ![Process] = step],
             UNCHANGED <<lock, job>>
      PROVE  DispatchInv'
  <2>1. pc'[Process] # "idle"
    BY <1>2, <1>4 DEF IInv, TypeOK
  <2> QED BY <1>1, <1>2, <1>4, <2>1, GoesOnKeeps
<1> QED BY <1>1, <1>2, <1>3, <1>4, CallStep

LEMMA DispatchKeeps == IInv /\ DispatchInv /\ [DispatchNext]_dispatchVars => DispatchInv'
<1> SUFFICES ASSUME IInv, DispatchInv, [DispatchNext]_dispatchVars PROVE DispatchInv'
    OBVIOUS
<1>1. CASE StartCycle
  <2>1. ~InCall(Process)
    BY <1>1, TwoAccounts DEF StartCycle, DispatchInv, UnitsAlone
  <2>2. stage' \in Stages /\ processed' \in 0..MaxItems
    BY <1>1, MaxItemsAssumption DEF StartCycle, Enter, Stages
  <2> QED BY <1>1, <2>1, <2>2, BetweenCalls DEF StartCycle
<1>2. CASE FinishUnit
  <2>1. stage' \in Stages /\ processed' \in 0..MaxItems
    BY <1>2, MaxItemsAssumption DEF FinishUnit, Enter, Stages, DispatchInv
  <2> QED BY <1>2, <2>1, BetweenCalls DEF FinishUnit, InCall
<1>3. CASE SkipDone
  <2>1. ~InCall(Process) /\ UNCHANGED vars
    BY <1>3 DEF SkipDone, Looking, InCall
  <2>2. stage' \in Stages /\ processed' \in 0..MaxItems
    BY <1>3, MaxItemsAssumption DEF SkipDone, Continues, DispatchInv, UnitsAlone
  <2> QED BY <2>1, <2>2, BetweenCalls
<1>4. CASE CallExecutor
  <2>1. PICK m \in Mutations : StartsWith(m) /\ Acquire(Executor, m, "reconcile")
    BY <1>4 DEF CallExecutor, Advance
  <2>2. stage # "waiting" /\ Process = Executor /\ processed < MaxItems /\ UNCHANGED cycle
    BY <1>4 DEF CallExecutor, Looking, Process
  <2>3. "reconcile" \in Steps \ {"idle"}
    BY DEF Steps
  <2> QED BY <2>1, <2>2, <2>3, CallKeeps
<1>5. CASE CallTransport
  <2>1. /\ stage = "transport" /\ Process = Worker /\ processed < MaxItems /\ ~InCall(Process)
    BY <1>5 DEF CallTransport, Looking, Process, InCall
  <2>2. ASSUME NEW m \in Mutations, StartsWith(m), Transport(Worker, m), UNCHANGED cycle
        PROVE  DispatchInv'
    <3>1. Acquire(Worker, m, "put")
      BY <2>2 DEF Transport
    <3>2. "put" \in Steps \ {"idle"}
      BY DEF Steps
    <3> QED BY <2>1, <2>2, <3>1, <3>2, CallKeeps
  <2>3. CASE Fails /\ UNCHANGED vars
    <3>1. stage' \in Stages /\ processed' \in 0..MaxItems
      BY <2>3, MaxItemsAssumption DEF Fails, Enter, Stages
    <3> QED BY <2>1, <2>3, <3>1, BetweenCalls
  <2> QED BY <1>5, <2>2, <2>3 DEF CallTransport
<1>6. CASE RunExecutor \/ RunTransport
  BY <1>6, RunKeeps
<1>7. CASE Crash
  <2>1. InCall(Process) /\ Release(Process)
    BY <1>7 DEF Crash, Interrupt, InCall
  <2>2. stage' \in Stages /\ processed' \in 0..MaxItems
    BY <1>7, MaxItemsAssumption DEF Crash, Fails, Enter, Stages
  <2> QED BY <2>1, <2>2, ReturnKeeps
<1>8. CASE Environment \/ UNCHANGED dispatchVars
  <2>1. UNCHANGED <<procs, cycle>>
    BY <1>8 DEF Environment, Decide, RecordRecovery, RecordLocalRecovery, LatePut, Pull, HumanEdit,
                dispatchVars, vars
  <2>2. Process' = Process
    BY <2>1 DEF Process, cycle
  <2> QED BY <2>1, <2>2
          DEF DispatchInv, UnitsAlone, NeverLockedOut, InCall, StartsWith, procs, cycle
<1> QED BY <1>1, <1>2, <1>3, <1>4, <1>5, <1>6, <1>7, <1>8 DEF DispatchNext, CycleStep

\* The cycle runs the handlers of production execution and nothing else.
LEMMA CycleCallsHandlers == [DispatchNext]_dispatchVars => [Next]_vars
<1> SUFFICES ASSUME [DispatchNext]_dispatchVars PROVE [Next]_vars
    OBVIOUS
<1>1. CASE CallExecutor
  BY <1>1, TwoAccounts DEF CallExecutor, Next
<1>2. CASE CallTransport
  BY <1>2, TwoAccounts DEF CallTransport, Next
<1>3. CASE RunExecutor \/ RunTransport
  BY <1>3, TwoAccounts DEF RunExecutor, RunTransport, Next
<1>4. CASE Crash
  BY <1>4, TwoAccounts DEF Crash, Next
<1>5. CASE Environment
  BY <1>5 DEF Environment, Next
<1>6. CASE UNCHANGED vars
  BY <1>6
<1> QED BY <1>1, <1>2, <1>3, <1>4, <1>5, <1>6
        DEF DispatchNext, CycleStep, StartCycle, FinishUnit, SkipDone, dispatchVars

\* The recurring cycle is one way to run production execution: what is proved of
\* that, for any interleaving of its processes, holds of the cycle.
THEOREM CycleRefinement == DispatchSpec => Spec
<1>1. DispatchInit => Init
  BY DEF DispatchInit
<1> QED BY <1>1, CycleCallsHandlers, PTL DEF DispatchSpec, Spec

LEMMA DispatchInitInv == DispatchInit => DispatchInv
  BY TwoAccounts, MaxItemsAssumption
     DEF DispatchInit, Init, DispatchInv, Stages, UnitsAlone, NeverLockedOut, InCall

LEMMA DispatchInvariance == DispatchSpec => [](IInv /\ DispatchInv)
<1>1. DispatchSpec => []IInv
  BY CycleRefinement, Invariance, PTL
<1> QED BY <1>1, DispatchInitInv, DispatchKeeps, PTL DEF DispatchSpec

\* In the cycle a call is alone, of the unit that runs, about the mutation its
\* listing has come to, and within the budget.
THEOREM UnitsStayAlone == DispatchSpec => []UnitsAlone
<1>1. DispatchInv => UnitsAlone
  BY DEF DispatchInv
<1> QED BY <1>1, DispatchInvariance, PTL

\* In the cycle no dispatcher waits for the lock of a mutation.
THEOREM LocksAreFree == DispatchSpec => []NeverLockedOut
<1>1. DispatchInv => NeverLockedOut
  BY DEF DispatchInv
<1> QED BY <1>1, DispatchInvariance, PTL

\* Every receipt the cycle leaves behind is of a PUT of its own mutation, and no
\* file of the Vault was replaced on the way.
THEOREM CycleSound == DispatchSpec => []ReceiptHasProvenance /\ NeverOverwrites
  BY CycleRefinement, Provenance, NoOverwrite, PTL

-----------------------------------------------------------------------------
\* The executor's call is about a mutation that is approved and not receipted, and
\* it prepares none whose request is there.
CallBound ==
  InCall(Executor) =>
    /\ review[job[Executor]] = "approve" /\ job[Executor] \notin receipt
    /\ pc[Executor] \in {"prepare", "request"} => job[Executor] \notin request

LEMMA CallBoundKeeps ==
  ASSUME IInv, DispatchInv, DispatchInv', CallBound, [DispatchNext]_dispatchVars
  PROVE  CallBound'
<1>1. CASE UNCHANGED vars
  BY <1>1 DEF vars, artifacts, procs, CallBound, InCall
<1>2. CASE Environment
  BY <1>2, TwoAccounts
     DEF Environment, Decide, RecordRecovery, RecordLocalRecovery, LatePut, Pull, HumanEdit,
         artifacts, procs, CallBound, InCall, IInv, TypeOK
<1>3. CASE CallExecutor
  <2>1. PICK m \in Mutations : review[m] = "approve" /\ m \notin receipt /\ Advance(Executor, m)
    BY <1>3 DEF CallExecutor
  <2>2. pc'[Executor] = "reconcile" /\ job'[Executor] = m
        /\ UNCHANGED <<review, receipt>>
    BY <2>1, TwoAccounts DEF Advance, Acquire, artifacts, IInv, TypeOK
  <2> QED BY <2>1, <2>2 DEF CallBound
<1>4. CASE RunExecutor
  <2>1. ExecutorStep(Executor) /\ InCall(Executor) /\ Executor \in Procs
    BY <1>4, CallStep, TwoAccounts DEF RunExecutor
  <2>2. CASE Release(Executor)
    BY <2>1, <2>2, ReleaseKeeps DEF CallBound, InCall
  <2>3. CASE UNCHANGED <<review, request, receipt, job>> /\ pc'[Executor] \in {"receipt"}
    BY <2>1, <2>3 DEF CallBound
  <2>4. CASE Reconcile(Executor) /\ pc'[Executor] = "prepare"
    <3>1. /\ Status(job[Executor]) \in {"not_started", "request_pending",
                                        "remote_verified_pending_receipt"}
          /\ Status(job[Executor]) # "remote_verified_pending_receipt"
          /\ UNCHANGED <<review, request, receipt, job>>
      BY <2>1, <2>4, ReleaseKeeps DEF Reconcile, Goto, artifacts, IInv, TypeOK
    <3>2. job[Executor] \notin request
      BY <2>1, <3>1 DEF Status, Resolution, Terminal, IInv, TypeOK, ArtifactsBound, TransportOutcomes
    <3> QED BY <2>1, <3>1, <3>2 DEF CallBound
  <2>5. CASE Prepare(Executor) /\ pc'[Executor] = "request"
    <3>1. UNCHANGED <<review, request, receipt, job>> /\ pc[Executor] = "prepare"
      BY <2>5 DEF Prepare, Goto, Release
    <3> QED BY <2>1, <2>5, <3>1 DEF CallBound
  <2> QED BY <2>1, <2>2, <2>3, <2>4, <2>5
          DEF ExecutorStep, Reconcile, Prepare, StoreRequest, StoreReceipt, Goto, artifacts, IInv, TypeOK
<1>5. CASE CallTransport \/ RunTransport \/ Crash
  <2>1. CASE stage' \in {"transport", "waiting"}
    <3>1. ~InCall(Executor)'
      BY <2>1, TwoAccounts DEF DispatchInv, UnitsAlone, Process
    <3> QED BY <3>1 DEF CallBound
  <2> QED BY <1>5, <2>1
          DEF CallTransport, RunTransport, Crash, Fails, Enter, TransportReturns, Continues, cycle, Looking
<1> QED BY <1>1, <1>2, <1>3, <1>4, <1>5
        DEF DispatchNext, CycleStep, StartCycle, FinishUnit, SkipDone, dispatchVars

\* What an executor call says when it ends, of the mutation it was about.
LEMMA ExecutorOutcome ==
  ASSUME IInv, DispatchInv, CallBound, RunExecutor, stage' = "waiting",
         NEW m \in Mutations, m = job[Executor]
  PROVE  Stuck(m)'
<1>1. /\ Executor \in Executors /\ Executor \in Procs /\ m \in Mutations /\ job' = job
      /\ stage \in {"prepare", "finalize"} /\ ExecutorStep(Executor)
      /\ review[m] = "approve" /\ m \notin receipt /\ Stages = {"waiting", "prepare", "transport", "finalize"}
  <2>1. Executor \in Procs /\ ExecutorStep(Executor) /\ InCall(Executor)
    BY TwoAccounts, CallStep DEF RunExecutor
  <2>2. job' = job
    BY <2>1, CallStep DEF Release
  <2> QED BY <2>1, <2>2, TwoAccounts DEF CallBound, RunExecutor, IInv, TypeOK, Stages
<1>2. pc'[Executor] = "idle" /\ Status(m)' \notin {"completed", "transport_pending"}
  <2>1. pc'[Executor] = "idle"
    BY <1>1 DEF RunExecutor, cycle
  <2>2. job'[Executor] = m
    BY <1>1
  <2>3. Status(job[Executor])' \notin {"completed", "transport_pending"}
    BY <1>1, <2>1 DEF RunExecutor, ExecutorReturns, Continues
  <2> QED BY <2>1, <2>2, <2>3 DEF Status, Resolution, Terminal
<1>3. m = job[Executor]
  OBVIOUS
<1>4. CASE Reconcile(Executor)
  <2>1. /\ Status(m) \notin {"not_started", "request_pending", "remote_verified_pending_receipt"}
        /\ UNCHANGED <<artifacts, vaults>>
    BY <1>1, <1>2, <1>3, <1>4 DEF Reconcile, Goto, IInv, TypeOK
  <2>2. Status(m)' = Status(m) /\ review'[m] = "approve"
    BY <1>1, <2>1 DEF Status, Resolution, Terminal, artifacts
  <2>3. Status(m) \in {"conflict", "remote_effect_observed_without_receipt",
                       "resolved_abandoned", "resolved_effect_adopted",
                       "completed", "transport_pending"}
    <3>1. m \in intent => review[m] = "approve"
      BY <1>1
    <3> QED BY <1>1, <2>1, <3>1 DEF Status, Resolution, Terminal
  <2> QED BY <1>1, <1>2, <1>3, <2>2, <2>3 DEF Stuck
<1>5. CASE Prepare(Executor)
  <2>1. m \notin request
    BY <1>1, <1>3, <1>5 DEF CallBound, Prepare, InCall
  <2>2. /\ m \notin intent /\ mirror[Target[m]] # Absent
        /\ UNCHANGED <<intent, review, vaults>>
    BY <1>1, <1>2, <1>3, <1>5, <2>1 DEF Prepare, Goto, IInv, TypeOK
  <2> QED BY <1>1, <1>3, <2>2 DEF Stuck, vaults
<1>6. CASE StoreRequest(Executor)
  <2>1. /\ m \in intent /\ m \notin request /\ result[m] = "none" /\ recovery[m] = "none"
    BY <1>1, <1>3, <1>6
       DEF StoreRequest, CallBound, InCall, IInv, TypeOK, ExecutorBound, ArtifactsBound
  <2>2. /\ m \in request' /\ m \in intent' /\ review'[m] = "approve" /\ m \notin receipt'
        /\ result'[m] = "none" /\ recovery'[m] = "none"
    BY <1>1, <1>3, <1>6, <2>1 DEF StoreRequest
  <2>3. Status(m)' \in {"conflict", "transport_pending"}
    BY <2>2 DEF Status, Terminal
  <2> QED BY <1>1, <1>2, <1>3, <2>2, <2>3 DEF Stuck
<1>7. CASE StoreReceipt(Executor)
  <2>1. result[m] = "created_verified" /\ m \in request /\ m \in intent /\ recovery[m] = "none"
    BY <1>1, <1>3, <1>7 DEF StoreReceipt, IInv, TypeOK, ExecutorBound, ArtifactsBound
  <2>2. /\ m \in request' /\ m \in intent' /\ review'[m] = "approve" /\ m \in receipt'
        /\ result'[m] = "created_verified" /\ recovery'[m] = "none"
    BY <1>1, <1>3, <1>7, <2>1 DEF StoreReceipt
  <2>3. Status(m)' \in {"conflict", "completed"}
    BY <2>2 DEF Status, Terminal
  <2> QED BY <1>1, <1>2, <1>3, <2>2, <2>3 DEF Stuck
<1> QED BY <1>1, <1>4, <1>5, <1>6, <1>7 DEF ExecutorStep

\* Where an executor unit raises, the mutation it was about needs a Human.
THEOREM OnlyHumansStopIt == DispatchSpec => StopsForHuman
<1>1. DispatchInit => CallBound
  BY TwoAccounts DEF DispatchInit, Init, CallBound, InCall
<1>2. IInv /\ DispatchInv /\ CallBound /\ [DispatchNext]_dispatchVars
      => [\A m \in Mutations :
            RunExecutor /\ stage' = "waiting" /\ StartsWith(m) => Stuck(m)']_dispatchVars
  <2> SUFFICES ASSUME IInv, DispatchInv, CallBound, NEW m \in Mutations,
                      RunExecutor, stage' = "waiting", StartsWith(m)
               PROVE  Stuck(m)'
      OBVIOUS
  <2>1. InCall(Executor) /\ Executor \in Procs
    BY TwoAccounts, CallStep DEF RunExecutor
  <2>2. m = job[Executor] /\ job' = job
    BY <2>1, CallStep DEF RunExecutor, DispatchInv, UnitsAlone, StartsWith, Release
  <2> QED BY <2>2, ExecutorOutcome
<1> QED BY <1>1, <1>2, CallBoundKeeps, DispatchInvariance, PTL DEF DispatchSpec, StopsForHuman
====
