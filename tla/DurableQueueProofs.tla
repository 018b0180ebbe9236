---- MODULE DurableQueueProofs ----
(***************************************************************************)
(* Proofs about the queues that a service works off request by request, for*)
(* any constants:                                                          *)
(*   OperationQueue     any requests and capacity of the journal, any      *)
(*                      number of failures, deaths and lost markers        *)
(*   ProjectionCleanup  any cases, budget of a run, number of failures and *)
(*                      of pushes of a lagging client                      *)
(*   GitHubStatus       any room in the queue, number of edits and outages *)
(*                                                                         *)
(* The inductive invariants: of OperationQueue, that the flock keeps the   *)
(* three threads apart, how the records of one request rest on each other, *)
(* and what each thread has established between two of its steps; of       *)
(* ProjectionCleanup, in which order the notes of a case come and what a   *)
(* deletion under way still owes; of GitHubStatus, what is known under the *)
(* ETag that was read, and what the row shows of the present stable period.*)
(***************************************************************************)
EXTENDS OperationQueue, ProjectionCleanup, GitHubStatus, FiniteSetTheorems, TLAPS

-----------------------------------------------------------------------------
(* OperationQueue *)

ListenerSteps == {"idle", "look", "submit", "marker", "request"}
WorkerSteps == {"idle", "claim", "execute", "settle", "result", "unmark"}
ToolSteps == {"idle", "attest", "evidence", "reconcile", "proof", "recheck", "unmark"}
Locked == {"look", "marker", "request", "claim", "result", "unmark", "evidence", "proof", "recheck"}

\* Who is at a step inside a locked section holds the lock.
LockHeld ==
  /\ pc["listener"] \in ListenerSteps
  /\ pc["worker"] \in WorkerSteps
  /\ pc["tool"] \in ToolSteps
  /\ \A t \in Threads : pc[t] \in Locked => lock = t

\* How the records of a request rest on each other.
RecordsBound ==
  \A r \in Requests :
    /\ processing[r] # "none" => request[r] = "whole"
    /\ executed[r] # 0 => executed[r] = 1 /\ processing[r] = "whole"
    /\ result[r] # "none" => executed[r] = 1
    /\ evidence[r] # "none" => result[r] = "indeterminate"
    /\ proof[r] # "none" => evidence[r] = "whole"

\* The listener stores a new request while everything before it is closed.
ListenerBound == LET r == at["listener"] IN
  /\ pc["listener"] = "marker" => active = "none"
  /\ pc["listener"] \in {"marker", "request"} =>
       /\ request[r] = "none"
       /\ \A s \in Requests : request[s] = "none" \/ result[s] = "completed" \/ proof[s] = "whole"

\* The worker carries an operation that is claimed once and has no result, and
\* removes no marker but that of a completed one.
WorkerBound == LET r == at["worker"] IN
  /\ pc["worker"] = "claim" => request[r] = "whole" /\ processing[r] = "none"
  /\ pc["worker"] = "execute" => processing[r] = "whole" /\ executed[r] = 0
  /\ pc["worker"] \in {"settle", "result"} => executed[r] = 1 /\ result[r] = "none"
  /\ pc["worker"] = "result" => active \in {"none", r}
  /\ pc["worker"] = "unmark" => active \in {"none", r} /\ result[r] = "completed"

\* The tool deals with an unknown outcome, and removes no marker but that of an
\* acknowledged one.
ToolBound == LET r == at["tool"] IN
  /\ pc["tool"] # "idle" => result[r] = "indeterminate"
  /\ pc["tool"] = "evidence" => evidence[r] = "none"
  /\ pc["tool"] = "proof" => evidence[r] = "whole" /\ proof[r] = "none"
  /\ pc["tool"] = "unmark" => active \in {"none", r} /\ Acknowledged(r)

IInv == TypeOK /\ LockHeld /\ RecordsBound /\ ListenerBound /\ WorkerBound /\ ToolBound

-----------------------------------------------------------------------------

LEMMA InitIInv == Init => IInv
  <1> SUFFICES ASSUME Init PROVE IInv
    OBVIOUS
  <1> QED BY DEF Init, IInv, TypeOK, LockHeld, RecordsBound, ListenerBound, WorkerBound, ToolBound,
                 Threads, ListenerSteps, WorkerSteps, ToolSteps, Locked, Acknowledged

\* The history that lets a new request in holds nothing open.
LEMMA PriorClosed ==
  ASSUME PriorSettled, NEW s \in Requests, request[s] # "none"
  PROVE  result[s] = "completed" \/ (result[s] = "indeterminate" /\ Acknowledged(s))
  <1> QED BY DEF PriorSettled, Existing

LEMMA ListenerPreserves ==
  ASSUME IInv, ListenerStep \/ \E r \in Requests : Look(r) \/ Receive(r)
  PROVE  IInv'
  <1> USE DEF IInv, TypeOK, LockHeld, RecordsBound, ListenerBound, WorkerBound, ToolBound, Acknowledged,
              Threads, ListenerSteps, WorkerSteps, ToolSteps, Locked,
              records, threads, service, budget, Enter, Goto, Leave, Write
  <1>1. CASE \E r \in Requests : Look(r) \/ Receive(r)
    BY <1>1 DEF Look, Receive
  <1>2. CASE LookDone
    BY <1>2 DEF LookDone
  <1>3. CASE Submit
    BY <1>3, PriorClosed DEF Submit, Acceptable
  <1>4. CASE StoreMarker
    BY <1>4 DEF StoreMarker
  <1>5. CASE StoreRequest
    BY <1>5 DEF StoreRequest
  <1> QED BY <1>1, <1>2, <1>3, <1>4, <1>5 DEF ListenerStep

LEMMA WorkerPreserves ==
  ASSUME IInv, WorkerStep \/ ClaimRefused \/ \E r \in Requests : Claim(r)
  PROVE  IInv'
  <1> USE DEF IInv, TypeOK, LockHeld, RecordsBound, ListenerBound, WorkerBound, ToolBound, Acknowledged,
              Threads, ListenerSteps, WorkerSteps, ToolSteps, Locked,
              records, threads, service, budget, Enter, Goto, Leave, Write
  <1>1. CASE \E r \in Requests : Claim(r)
    BY <1>1 DEF Claim, Claimable
  <1>2. CASE ClaimRefused
    BY <1>2 DEF ClaimRefused
  <1>3. CASE StoreClaim
    BY <1>3 DEF StoreClaim
  <1>4. CASE Execute
    BY <1>4 DEF Execute
  <1>5. CASE Settle
    <2>1. CASE active = at["worker"] /\ processing[at["worker"]] = "whole" /\ result[at["worker"]] = "none"
      <3>1. TypeOK'
        BY <1>5, <2>1 DEF Settle
      <3> QED BY <1>5, <2>1, <3>1 DEF Settle
    <2>2. CASE ~(active = at["worker"] /\ processing[at["worker"]] = "whole" /\ result[at["worker"]] = "none")
      <3>0. failed' \in BOOLEAN
        <4>1. failed' = TRUE
          BY <1>5, <2>2, Zenon DEF Settle
        <4> QED BY <4>1
      <3>1. TypeOK'
        BY <1>5, <2>2, <3>0 DEF Settle
      <3> QED BY <1>5, <2>2, <3>1 DEF Settle
    <2> QED BY <2>1, <2>2
  <1>6. CASE SettleBusy
    BY <1>6 DEF SettleBusy
  <1>7. CASE StoreResult
    <2>1. CASE good
      <3>1. TypeOK'
        BY <1>7, <2>1 DEF StoreResult
      <3> QED BY <1>7, <2>1, <3>1 DEF StoreResult
    <2>2. CASE ~good
      <3>0. failed' \in BOOLEAN
        <4>1. failed' = TRUE
          BY <1>7, <2>2, Zenon DEF StoreResult
        <4> QED BY <4>1
      <3>1. TypeOK'
        BY <1>7, <2>2, <3>0 DEF StoreResult
      <3> QED BY <1>7, <2>2, <3>1 DEF StoreResult
    <2> QED BY <2>1, <2>2
  <1>8. CASE Unmark("worker")
    BY <1>8 DEF Unmark
  <1> QED BY <1>1, <1>2, <1>3, <1>4, <1>5, <1>6, <1>7, <1>8 DEF WorkerStep

LEMMA ToolPreserves ==
  ASSUME IInv, ToolStep \/ \E r \in Reviewed : ToolStart(r)
  PROVE  IInv'
  <1> USE DEF IInv, TypeOK, LockHeld, RecordsBound, ListenerBound, WorkerBound, ToolBound, Acknowledged,
              Threads, ListenerSteps, WorkerSteps, ToolSteps, Locked,
              records, threads, service, budget, Enter, Goto, Leave, Write
  <1>1. CASE \E r \in Reviewed : ToolStart(r)
    BY <1>1, RequestAssumption DEF ToolStart, Unknown
  <1>2. CASE Attest
    BY <1>2 DEF Attest
  <1>3. CASE StoreEvidence
    BY <1>3 DEF StoreEvidence
  <1>4. CASE Reconcile
    BY <1>4 DEF Reconcile, Unknown
  <1>5. CASE StoreProof
    BY <1>5 DEF StoreProof
  <1>6. CASE Recheck
    BY <1>6, PriorClosed DEF Recheck
  <1>7. CASE ToolBusy
    BY <1>7 DEF ToolBusy
  <1>8. CASE Unmark("tool")
    BY <1>8 DEF Unmark
  <1> QED BY <1>1, <1>2, <1>3, <1>4, <1>5, <1>6, <1>7, <1>8 DEF ToolStep

\* A store that is cut off leaves the records of a request resting on each
\* other and touches nothing the threads outside the lock rely on.
LEMMA CutPreserves ==
  ASSUME IInv, NEW t \in Threads, Cut(t), pc[t] \in Locked => lock = t
  PROVE  /\ active' \in Requests \cup {"none", "torn"}
         /\ request' \in [Requests -> {"none", "torn", "whole"}]
         /\ processing' \in [Requests -> {"none", "torn", "whole"}]
         /\ result' \in [Requests -> {"none", "torn", "completed", "indeterminate"}]
         /\ evidence' \in [Requests -> {"none", "torn", "whole"}]
         /\ proof' \in [Requests -> {"none", "torn", "whole"}]
         /\ executed' = executed => RecordsBound'
         /\ \A r \in Requests :
              /\ processing[r] # "none" => processing'[r] = processing[r]
              /\ result[r] # "none" => result'[r] = result[r]
              /\ t # "worker" => result'[r] = result[r]
         /\ pc[t] \notin Locked => UNCHANGED records
  <1> USE DEF IInv, TypeOK, LockHeld, RecordsBound, ListenerBound, WorkerBound, ToolBound, Acknowledged,
              Threads, ListenerSteps, WorkerSteps, ToolSteps, Locked,
              records, threads, service, budget, Enter, Goto, Leave, Write
  <1>1. CASE pc[t] \in {"marker", "unmark"} \/ UNCHANGED records
    BY <1>1 DEF Cut
  <1>2. CASE pc[t] = "request"
    BY <1>2 DEF Cut
  <1>3. CASE pc[t] = "claim"
    BY <1>3 DEF Cut
  <1>4. CASE pc[t] = "result"
    BY <1>4 DEF Cut
  <1>5. CASE pc[t] = "evidence"
    BY <1>5 DEF Cut
  <1>6. CASE pc[t] = "proof"
    BY <1>6 DEF Cut
  <1> QED BY <1>1, <1>2, <1>3, <1>4, <1>5, <1>6 DEF Cut

LEMMA FaultPreserves ==
  ASSUME IInv, (\E t \in Threads : StoreFails(t)) \/ Crash \/ ToolDies \/ Stop \/ Start \/ LoseMarker
  PROVE  IInv'
  <1> USE DEF IInv, TypeOK, LockHeld, RecordsBound, ListenerBound, WorkerBound, ToolBound, Acknowledged,
              Threads, ListenerSteps, WorkerSteps, ToolSteps, Locked,
              records, threads, service, budget, Enter, Goto, Leave, Write
  <1>1. ASSUME NEW t \in Threads, StoreFails(t)
        PROVE  IInv'
    BY <1>1, CutPreserves DEF StoreFails
  <1>2. CASE Crash
    <2>1. up' \in BOOLEAN
      <3>1. up' = FALSE
        BY <1>2 DEF Crash
      <3> QED BY <3>1
    <2>2. ASSUME NEW t \in {"listener", "worker"}, lock = t, Cut(t), lock' = "nobody"
          PROVE  IInv'
      <3>1. TypeOK' /\ RecordsBound'
        BY <1>2, <2>1, <2>2, CutPreserves DEF Crash
      <3> QED BY <1>2, <2>2, <3>1, CutPreserves DEF Crash
    <2>3. CASE lock \notin {"listener", "worker"} /\ UNCHANGED <<records, lock>>
      BY <1>2, <2>1, <2>3 DEF Crash
    <2> QED BY <1>2, <2>2, <2>3 DEF Crash
  <1>3. CASE ToolDies
    <2>1. CASE pc["tool"] \in Locked
      BY <1>3, <2>1, CutPreserves DEF ToolDies
    <2>2. CASE UNCHANGED records
      BY <1>3, <2>2 DEF ToolDies
    <2> QED BY <1>3, <2>1, <2>2, CutPreserves DEF ToolDies
  <1>4. CASE Stop
    <2>1. up' \in BOOLEAN
      <3>1. up' = FALSE
        BY <1>4 DEF Stop
      <3> QED BY <3>1
    <2> QED BY <1>4, <2>1 DEF Stop
  <1>5. CASE Start
    <2>1. up' \in BOOLEAN /\ failed' \in BOOLEAN
      <3>1. up' = TRUE /\ failed' = FALSE
        BY <1>5 DEF Start
      <3> QED BY <3>1
    <2> QED BY <1>5, <2>1 DEF Start
  <1>6. CASE LoseMarker
    BY <1>6 DEF LoseMarker
  <1> QED BY <1>1, <1>2, <1>3, <1>4, <1>5, <1>6

THEOREM Invariance == Spec => []IInv
  <1>1. IInv /\ [Next]_vars => IInv'
    <2> SUFFICES ASSUME IInv, [Next]_vars PROVE IInv'
      OBVIOUS
    <2>1. CASE Next
      BY <2>1, ListenerPreserves, WorkerPreserves, ToolPreserves, FaultPreserves DEF Next
    <2>2. CASE UNCHANGED vars
      BY <2>2 DEF vars, records, threads, service, budget, IInv, TypeOK, LockHeld, RecordsBound,
                  ListenerBound, WorkerBound, ToolBound, Acknowledged
    <2> QED BY <2>1, <2>2
  <1> QED BY InitIInv, <1>1, PTL DEF Spec

\* The variables of the queue keep their types.
THEOREM OperationTypeCorrect == Spec => []TypeOK
  <1> QED BY Invariance, PTL DEF IInv

-----------------------------------------------------------------------------
\* Receipts.

\* No record is written twice.
Grow ==
  \A r \in Requests :
    /\ request[r] # "none" => request'[r] = request[r]
    /\ processing[r] # "none" => processing'[r] = processing[r]
    /\ result[r] # "none" => result'[r] = result[r]
    /\ evidence[r] # "none" => evidence'[r] = evidence[r]
    /\ proof[r] # "none" => proof'[r] = proof[r]

\* What may become of the marker: it breaks, is lost, is removed from a request
\* that is done or acknowledged, or is set for a new one.
MarkerMoves ==
  \/ active' = active \/ active' = "torn"
  \/ active' = "none" /\ lost' # lost
  \/ /\ active' = "none" /\ active \in Requests
     /\ result[active] = "completed" \/ Acknowledged(active)
  \/ active = "none" /\ active' \in Requests /\ request[active'] = "none"

LEMMA CutGrows ==
  ASSUME IInv, NEW t \in Threads, Cut(t), pc[t] \in Locked => lock = t
  PROVE  Grow /\ MarkerMoves
  <1> USE DEF IInv, TypeOK, LockHeld, RecordsBound, ListenerBound, WorkerBound, ToolBound,
              Threads, ListenerSteps, WorkerSteps, ToolSteps, Locked,
              records, threads, service, budget, Enter, Goto, Leave, Write
  <1> USE DEF Grow, MarkerMoves
  <1>1. CASE UNCHANGED records
    BY <1>1
  <1>2. CASE pc[t] = "marker"
    BY <1>2 DEF Cut
  <1>3. CASE pc[t] = "unmark"
    BY <1>3 DEF Cut
  <1>4. CASE pc[t] = "request"
    BY <1>4 DEF Cut
  <1>5. CASE pc[t] = "claim"
    BY <1>5 DEF Cut
  <1>6. CASE pc[t] = "result"
    BY <1>6 DEF Cut
  <1>7. CASE pc[t] = "evidence"
    BY <1>7 DEF Cut
  <1>8. CASE pc[t] = "proof"
    BY <1>8 DEF Cut
  <1> QED BY <1>1, <1>2, <1>3, <1>4, <1>5, <1>6, <1>7, <1>8 DEF Cut

LEMMA StepGrows ==
  ASSUME IInv, Next
  PROVE  Grow /\ MarkerMoves
  <1> USE DEF IInv, TypeOK, LockHeld, RecordsBound, ListenerBound, WorkerBound, ToolBound,
              Threads, ListenerSteps, WorkerSteps, ToolSteps, Locked,
              records, threads, service, budget, Enter, Goto, Leave, Write
  <1> USE DEF Grow, MarkerMoves
  <1>1. CASE UNCHANGED records
    BY <1>1
  <1>2. CASE StoreMarker
    BY <1>2 DEF StoreMarker
  <1>3. CASE StoreRequest
    BY <1>3 DEF StoreRequest
  <1>4. CASE StoreClaim
    BY <1>4 DEF StoreClaim
  <1>5. CASE StoreResult
    BY <1>5 DEF StoreResult
  <1>6. CASE StoreEvidence
    BY <1>6 DEF StoreEvidence
  <1>7. CASE StoreProof
    BY <1>7 DEF StoreProof
  <1>8. ASSUME NEW t \in {"worker", "tool"}, Unmark(t)
        PROVE  Grow /\ MarkerMoves
    BY <1>8 DEF Unmark
  <1>9. CASE (\E t \in Threads : StoreFails(t)) \/ Crash \/ ToolDies
    BY <1>1, <1>9, CutGrows DEF StoreFails, Crash, ToolDies
  <1>10. CASE LoseMarker
    BY <1>10 DEF LoseMarker
  <1> HIDE DEF IInv, TypeOK, LockHeld, RecordsBound, ListenerBound, WorkerBound, ToolBound, Grow, MarkerMoves
  <1> QED BY <1>1, <1>2, <1>3, <1>4, <1>5, <1>6, <1>7, <1>8, <1>9, <1>10
          DEF Next, ListenerStep, WorkerStep, ToolStep, Look, Receive, Claim, ToolStart, ClaimRefused,
              LookDone, Submit, Execute, Settle, SettleBusy, Attest, Reconcile, Recheck, ToolBusy, Stop, Start

\* A final receipt stands: no later step, death or acknowledgement changes it.
THEOREM FinalReceiptsStand == Spec => ReceiptsStand
  <1>1. ASSUME IInv, [Next]_vars, NEW r \in Requests, State(r) \in {"completed", "indeterminate"}
        PROVE  \/ State(r)' = State(r)
               \/ State(r)' = "unreadable" /\ (active' = "torn" \/ lost' # lost)
    <2>1. CASE UNCHANGED vars
      BY <2>1 DEF vars, records, State, Acknowledged
    <2>2. CASE Next
      <3>1. Grow /\ MarkerMoves
        BY <1>1, <2>2, StepGrows
      <3>2. /\ request[r] = "whole" /\ request'[r] = "whole"
            /\ processing[r] = "whole" /\ processing'[r] = "whole"
            /\ result'[r] = result[r] /\ active # "torn"
            /\ Acknowledged(r) => Acknowledged(r)'
        BY <1>1, <3>1 DEF IInv, TypeOK, Grow, State, Acknowledged
      <3>3. CASE result[r] = "completed"
        <4>1. active # r
          BY <1>1, <3>3 DEF State
        <4>2. active' = "torn" \/ active' # r
          BY <3>1, <3>2, <4>1, MarkerAssumption DEF MarkerMoves
        <4> QED BY <1>1, <3>2, <3>3, <4>1, <4>2 DEF State
      <3>4. CASE result[r] = "indeterminate"
        <4>1. active = r \/ Acknowledged(r)
          BY <1>1, <3>4 DEF State
        <4>2. active' = "torn" \/ lost' # lost \/ active' = r \/ Acknowledged(r)'
          BY <3>1, <3>2, <3>4, <4>1, MarkerAssumption DEF MarkerMoves
        <4> QED BY <1>1, <3>2, <3>4, <4>1, <4>2 DEF State
      <3> QED BY <1>1, <3>3, <3>4 DEF State
    <2> QED BY <1>1, <2>1, <2>2
  <1>2. IInv /\ [Next]_vars =>
          [\A r \in Requests : State(r) \in {"completed", "indeterminate"} =>
             \/ State(r)' = State(r)
             \/ State(r)' = "unreadable" /\ (active' = "torn" \/ lost' # lost)]_vars
    BY <1>1
  <1> QED BY <1>2, Invariance, PTL DEF Spec, ReceiptsStand

-----------------------------------------------------------------------------
\* The records implement SingleOperation.

\* A phase is read off four records, so a step that leaves them alone stutters.
LEMMA PhaseFrame ==
  ASSUME UNCHANGED <<request, result, proof, executed>>
  PROVE  UNCHANGED Single!vars
  <1> QED BY DEF Single!vars, Phase

\* Partial records change no phase.
LEMMA TornStutters ==
  ASSUME IInv, NEW r \in Requests, UNCHANGED executed,
         \/ request[r] = "none" /\ Write(request, r, "torn") /\ UNCHANGED <<result, proof>>
         \/ result[r] = "none" /\ Write(result, r, "torn") /\ UNCHANGED <<request, proof>>
         \/ proof[r] = "none" /\ Write(proof, r, "torn") /\ UNCHANGED <<request, result>>
  PROVE  UNCHANGED Single!vars
  <1>1. \A s \in Requests : Phase(s)' = Phase(s)
    BY DEF IInv, TypeOK, Write, Phase
  <1> QED BY <1>1 DEF Single!vars

LEMMA AcceptStep ==
  ASSUME IInv, NEW r \in Requests, request[r] = "none",
         \A s \in Requests : request[s] = "none" \/ result[s] = "completed" \/ proof[s] = "whole",
         Write(request, r, "whole"), UNCHANGED <<result, proof, executed>>
  PROVE  Single!Next
  <1>1. \A s \in Requests : Phase(s) \in Single!Closed
    BY DEF IInv, TypeOK, RecordsBound, Phase, Single!Closed
  <1>2. Phase(r) = "new" /\ Phase(r)' = "accepted"
    BY DEF IInv, TypeOK, RecordsBound, Write, Phase
  <1>3. \A s \in Requests \ {r} : Phase(s)' = Phase(s)
    BY DEF IInv, TypeOK, Write, Phase
  <1>4. Single!Accept(r)
    BY <1>1, <1>2, <1>3 DEF Single!Accept, Single!Move
  <1> QED BY <1>4 DEF Single!Next

LEMMA TryStep ==
  ASSUME IInv, NEW r \in Requests, processing[r] = "whole", executed[r] = 0,
         executed' = [executed EXCEPT ![r] = @ + 1], UNCHANGED <<request, result, proof>>
  PROVE  Single!Next
  <1>1. Phase(r) = "accepted" /\ Phase(r)' = "tried"
    BY DEF IInv, TypeOK, RecordsBound, Phase
  <1>2. \A s \in Requests \ {r} : Phase(s)' = Phase(s)
    BY DEF IInv, TypeOK, Phase
  <1>3. Single!Try(r)
    BY <1>1, <1>2 DEF Single!Try, Single!Move
  <1> QED BY <1>3 DEF Single!Next

LEMMA FinishStep ==
  ASSUME IInv, NEW r \in Requests, executed[r] = 1, result[r] = "none",
         NEW v \in {"completed", "indeterminate"},
         Write(result, r, v), UNCHANGED <<request, proof, executed>>
  PROVE  Single!Next
  <1>1. Phase(r) = "tried" /\ Phase(r)' \in {"done", "unknown"}
    BY DEF IInv, TypeOK, RecordsBound, Write, Phase
  <1>2. \A s \in Requests \ {r} : Phase(s)' = Phase(s)
    BY DEF IInv, TypeOK, Write, Phase
  <1>3. Single!Finish(r)
    BY <1>1, <1>2 DEF Single!Finish, Single!Move
  <1> QED BY <1>3 DEF Single!Next

LEMMA AcknowledgeStep ==
  ASSUME IInv, NEW r \in Requests, result[r] = "indeterminate", proof[r] = "none",
         Write(proof, r, "whole"), UNCHANGED <<request, result, executed>>
  PROVE  Single!Next
  <1>1. Phase(r) = "unknown" /\ Phase(r)' = "acknowledged"
    BY DEF IInv, TypeOK, Write, Phase
  <1>2. \A s \in Requests \ {r} : Phase(s)' = Phase(s)
    BY DEF IInv, TypeOK, Write, Phase
  <1>3. Single!Acknowledge(r)
    BY <1>1, <1>2 DEF Single!Acknowledge, Single!Move
  <1> QED BY <1>3 DEF Single!Next

LEMMA CutStep ==
  ASSUME IInv, NEW t \in Threads, Cut(t), UNCHANGED executed, pc[t] \in Locked => lock = t
  PROVE  [Single!Next]_(Single!vars)
  <1> DEFINE r == at[t]
  <1>0. /\ r \in Requests
        /\ request = [request EXCEPT ![r] = request[r]]
        /\ result = [result EXCEPT ![r] = result[r]]
        /\ proof = [proof EXCEPT ![r] = proof[r]]
    BY DEF IInv, TypeOK
  <1>1. CASE UNCHANGED <<request, result, proof>>
    BY <1>1, PhaseFrame
  <1>2. CASE pc[t] = "request"
    <2>1. t = "listener"
      BY <1>2 DEF Threads, IInv, LockHeld, ListenerSteps, WorkerSteps, ToolSteps
    <2>2. UNCHANGED <<result, proof>>
      BY <1>2 DEF Cut
    <2>3. PICK v \in {"none", "torn", "whole"} : Write(request, r, v)
      BY <1>2 DEF Cut
    <2>4. /\ request[r] = "none"
          /\ \A s \in Requests : request[s] = "none" \/ result[s] = "completed" \/ proof[s] = "whole"
      BY <1>2, <2>1 DEF IInv, ListenerBound
    <2>5. CASE v = "none"
      BY <1>0, <1>1, <2>2, <2>3, <2>4, <2>5 DEF Write
    <2>6. CASE v = "torn"
      BY <1>0, <2>2, <2>3, <2>4, <2>6, TornStutters
    <2>7. CASE v = "whole"
      BY <1>0, <2>2, <2>3, <2>4, <2>7, AcceptStep
    <2> QED BY <2>5, <2>6, <2>7
  <1>3. CASE pc[t] = "result"
    <2>1. t = "worker"
      BY <1>3 DEF Threads, IInv, LockHeld, ListenerSteps, WorkerSteps, ToolSteps
    <2>2. UNCHANGED <<request, proof>>
      BY <1>3 DEF Cut
    <2>3. PICK v \in {"none", "torn", "completed", "indeterminate"} : Write(result, r, v)
      BY <1>3 DEF Cut
    <2>4. executed[r] = 1 /\ result[r] = "none"
      BY <1>3, <2>1 DEF IInv, WorkerBound
    <2>5. CASE v = "none"
      BY <1>0, <1>1, <2>2, <2>3, <2>4, <2>5 DEF Write
    <2>6. CASE v = "torn"
      BY <1>0, <2>2, <2>3, <2>4, <2>6, TornStutters
    <2>7. CASE v \in {"completed", "indeterminate"}
      BY <1>0, <2>2, <2>3, <2>4, <2>7, FinishStep
    <2> QED BY <2>5, <2>6, <2>7
  <1>4. CASE pc[t] = "proof"
    <2>1. t = "tool"
      BY <1>4 DEF Threads, IInv, LockHeld, ListenerSteps, WorkerSteps, ToolSteps
    <2>2. UNCHANGED <<request, result>>
      BY <1>4 DEF Cut
    <2>3. PICK v \in {"none", "torn", "whole"} : Write(proof, r, v)
      BY <1>4 DEF Cut
    <2>4. result[r] = "indeterminate" /\ proof[r] = "none"
      BY <1>4, <2>1 DEF IInv, ToolBound
    <2>5. CASE v = "none"
      BY <1>0, <1>1, <2>2, <2>3, <2>4, <2>5 DEF Write
    <2>6. CASE v = "torn"
      BY <1>0, <2>2, <2>3, <2>4, <2>6, TornStutters
    <2>7. CASE v = "whole"
      BY <1>0, <2>2, <2>3, <2>4, <2>7, AcknowledgeStep
    <2> QED BY <2>5, <2>6, <2>7
  <1> QED BY <1>1, <1>2, <1>3, <1>4 DEF Cut, records

LEMMA SingleStep ==
  ASSUME IInv, Next
  PROVE  [Single!Next]_(Single!vars)
  <1> USE DEF records, threads, service, budget
  <1>1. CASE UNCHANGED <<request, result, proof, executed>>
    BY <1>1, PhaseFrame
  <1>2. CASE StoreRequest
    BY <1>2, AcceptStep DEF StoreRequest, IInv, TypeOK, Threads, ListenerBound
  <1>3. CASE Execute
    BY <1>3, TryStep DEF Execute, IInv, TypeOK, Threads, WorkerBound
  <1>4. CASE StoreResult
    BY <1>4, FinishStep DEF StoreResult, IInv, TypeOK, Threads, WorkerBound
  <1>5. CASE StoreProof
    BY <1>5, AcknowledgeStep DEF StoreProof, IInv, TypeOK, Threads, ToolBound
  <1>6. CASE (\E t \in Threads : StoreFails(t)) \/ Crash \/ ToolDies
    BY <1>1, <1>6, CutStep DEF StoreFails, Crash, ToolDies, IInv, LockHeld, Threads
  <1> QED BY <1>1, <1>2, <1>3, <1>4, <1>5, <1>6
          DEF Next, ListenerStep, WorkerStep, ToolStep, Look, LookDone, Receive, Submit, StoreMarker,
              Claim, ClaimRefused, StoreClaim, Settle, SettleBusy, Unmark, ToolStart, Attest,
              StoreEvidence, Reconcile, Recheck, ToolBusy, Stop, Start, LoseMarker

\* Whatever fails, dies or is lost, one operation is open at a time, none is
\* tried twice, and only an acknowledgement closes an unknown outcome.
THEOREM OperationRefinement == Spec => ImplementsSingleOperation
  <1>1. Init => Single!Init
    BY DEF Init, Single!Init, Phase
  <1>2. IInv /\ [Next]_vars => [Single!Next]_(Single!vars)
    <2>1. ASSUME IInv, UNCHANGED vars PROVE UNCHANGED Single!vars
      BY <2>1, PhaseFrame DEF vars, records, service
    <2> QED BY <2>1, SingleStep
  <1> QED BY <1>1, <1>2, Invariance, PTL DEF Spec, ImplementsSingleOperation, Single!Spec

\* A move of the abstract queue, request by request.
LEMMA MoveMeans ==
  ASSUME NEW r \in Requests, NEW from, NEW to, Single!Move(r, from, to)
  PROVE  /\ Phase(r) = from /\ Phase(r)' = to
         /\ \A s \in Requests \ {r} : Phase(s)' = Phase(s)
  <1>1. [s \in Requests |-> Phase(s)]' = [[s \in Requests |-> Phase(s)] EXCEPT ![r] = to]
    BY DEF Single!Move
  <1>2. \A s \in Requests : [t \in Requests |-> Phase(t)]'[s] = Phase(s)'
    OBVIOUS
  <1> QED BY <1>1, <1>2 DEF Single!Move

LEMMA OneAtATimeStep ==
  ASSUME TypeOK, Single!OneAtATime, [Single!Next]_(Single!vars)
  PROVE  Single!OneAtATime'
  <1>1. CASE UNCHANGED Single!vars
    BY <1>1 DEF Single!vars, Single!OneAtATime
  <1>2. ASSUME NEW r \in Requests, NEW from, NEW to, Single!Move(r, from, to), executed' = executed,
               from \in {"new", "accepted"} <=> to \in {"new", "accepted"},
               \/ from \notin Single!Closed
               \/ \A s \in Requests : Phase(s) \in Single!Closed
        PROVE  Single!OneAtATime'
    BY <1>2, MoveMeans DEF Single!OneAtATime
  <1>3. ASSUME NEW r \in Requests, Single!Move(r, "accepted", "tried"),
               executed' = [executed EXCEPT ![r] = @ + 1]
        PROVE  Single!OneAtATime'
    <2>1. /\ Phase(r) = "accepted" /\ Phase(r)' = "tried"
          /\ \A s \in Requests \ {r} : Phase(s)' = Phase(s)
      BY <1>3, MoveMeans
    <2>2. executed[r] = 0 /\ executed'[r] = 1
          /\ \A s \in Requests \ {r} : executed'[s] = executed[s]
      BY <1>3, <2>1 DEF Single!OneAtATime, TypeOK
    <2> QED BY <2>1, <2>2 DEF Single!OneAtATime, Single!Closed
  <1>4. ASSUME NEW r \in Requests, Single!Accept(r) PROVE Single!OneAtATime'
    BY <1>2, <1>4 DEF Single!Accept
  <1>5. ASSUME NEW r \in Requests, Single!Finish(r) \/ Single!Acknowledge(r)
        PROVE  Single!OneAtATime'
    BY <1>2, <1>5 DEF Single!Finish, Single!Acknowledge, Single!Closed
  <1> QED BY <1>1, <1>3, <1>4, <1>5 DEF Single!Next, Single!Try

\* What the abstract queue promises holds of the records: at most one operation is
\* open, and none was tried more than once, or before its request was accepted.
THEOREM OneOperationAtATime == Spec => []Single!OneAtATime
  <1>1. Init => Single!OneAtATime
    BY DEF Init, Single!OneAtATime, Single!Closed, Phase
  <1>2. TypeOK /\ Single!OneAtATime /\ [Single!Next]_(Single!vars) => Single!OneAtATime'
    BY OneAtATimeStep
  <1> QED BY <1>1, <1>2, OperationRefinement, OperationTypeCorrect, PTL
          DEF Spec, ImplementsSingleOperation, Single!Spec

-----------------------------------------------------------------------------
(* ProjectionCleanup *)

CleanUnits == {"evaluator", "projection", "intake", "prepare", "transport", "finalize",
               "post_projection", "cleanup"}
Deletable == {"input", "evaluation", "review", "execution", "transport"}

CleanTypes ==
  /\ unit \in CleanUnits
  /\ requested \in [Cases -> SUBSET Notes] /\ published \in [Cases -> SUBSET Notes]
  /\ vault \in [Cases -> SUBSET Notes] /\ strays \in [Cases -> SUBSET Notes]
  /\ answer \in [Cases -> {"none", "reject", "approve"}]
  /\ decision \in [Cases -> {"none", "reject", "approve"}]
  /\ progress \in [Cases -> {"none", "prepared", "carried", "receipted"}]
  /\ requests \subseteq Cases /\ cleaned \subseteq Cases
  /\ unseen \subseteq Cases /\ deleting \in Cases \cup {Nobody}
  /\ rest \in Seq(Deletable)

\* A published note was requested; the Review note is published after the input
\* notes and before the decision; only an approved case is executed.
PublishedBound ==
  \A c \in Cases :
    /\ vault[c] \subseteq requested[c] /\ published[c] \subseteq requested[c]
    /\ "review" \in requested[c] => "input" \in requested[c]
    /\ "review" \in published[c] => "input" \in published[c]
    /\ decision[c] # "none" => "review" \in published[c]
    /\ decision[c] # "approve" => requested[c] \subseteq {"input", "evaluation", "review"}
    /\ progress[c] # "none" => decision[c] = "approve"

\* The completed note is never taken away.
CompletedStays == \A c \in Cases : "completed" \in published[c] => "completed" \in vault[c]

\* A deletion is of a rejected case or of one whose completed note is there, and
\* what it leaves of a rejected one is still to be deleted or was pushed back.
DeletingBound ==
  deleting # Nobody =>
    /\ unit = "cleanup"
    /\ decision[deleting] = "reject" \/ "completed" \in published[deleting]
    /\ decision[deleting] = "reject" =>
         \/ rest = <<"input", "evaluation", "review">>
            /\ vault[deleting] \subseteq strays[deleting] \cup {"input", "evaluation", "review"}
         \/ rest = <<"evaluation", "review">>
            /\ vault[deleting] \subseteq strays[deleting] \cup {"evaluation", "review"}
         \/ rest = <<"review">> /\ vault[deleting] \subseteq strays[deleting] \cup {"review"}
         \/ rest = <<>> /\ vault[deleting] \subseteq strays[deleting]

\* The first half of LeftoversFindable; the second follows from PublishedBound.
LeftoversKnown ==
  \A c \in cleaned : decision[c] = "reject" =>
    vault[c] \subseteq strays[c] \/ "review" \in vault[c]

CleanInv == CleanTypes /\ PublishedBound /\ CompletedStays /\ DeletingBound
            /\ NoCaseVanishes /\ LeftoversKnown

-----------------------------------------------------------------------------
LEMMA CleanInitInv == CleanInit => CleanInv
<1> SUFFICES ASSUME CleanInit PROVE CleanInv
    OBVIOUS
<1>1. CleanTypes
  BY DEF CleanInit, CleanTypes, CleanUnits, Notes
<1>2. PublishedBound /\ CompletedStays /\ NoCaseVanishes /\ LeftoversKnown
  BY DEF CleanInit, PublishedBound, CompletedStays, NoCaseVanishes, LeftoversKnown
<1>3. DeletingBound
  BY DEF CleanInit, DeletingBound
<1> QED BY <1>1, <1>2, <1>3 DEF CleanInv

\* Between two units nothing is under deletion.
LEMMA NextUnit ==
  ASSUME CleanTypes, EnterNext \/ Restart
  PROVE  /\ unit' \in CleanUnits /\ unseen' \subseteq Cases
         /\ deleting' = Nobody /\ rest' = <<>> /\ rest' \in Seq(Deletable)
<1>1. CASE EnterNext
  BY <1>1 DEF CleanTypes, CleanUnits, EnterNext
<1>2. CASE Restart
  BY <1>2 DEF CleanTypes, CleanUnits, Restart
<1> QED BY <1>1, <1>2

\* Where nothing is under deletion, the bound on it says nothing.
LEMMA NoDeletion == ASSUME deleting' = Nobody PROVE DeletingBound'
  BY DEF DeletingBound

\* What depends on the cases alone.
LEMMA SameCases ==
  ASSUME CleanInv, UNCHANGED <<requested, published, vault, decision, progress, cleaned, strays>>
  PROVE  PublishedBound' /\ CompletedStays' /\ NoCaseVanishes' /\ LeftoversKnown'
  BY DEF CleanInv, PublishedBound, CompletedStays, NoCaseVanishes, LeftoversKnown

\* New requests, of notes a case may have.
LEMMA RequestKeeps ==
  ASSUME CleanInv, requested' \in [Cases -> SUBSET Notes],
         progress' \in [Cases -> {"none", "prepared", "carried", "receipted"}],
         UNCHANGED <<published, vault, decision, cleaned, strays>>,
         \A c \in Cases :
           \/ requested'[c] = requested[c] /\ progress'[c] = progress[c]
           \/ progress'[c] = progress[c]
              /\ requested'[c] = requested[c] \cup {"input", "evaluation", "review"}
           \/ /\ decision[c] = "approve" /\ requested[c] \subseteq requested'[c]
              /\ "review" \in requested'[c] => "review" \in requested[c]
  PROVE  PublishedBound' /\ CompletedStays' /\ NoCaseVanishes' /\ LeftoversKnown'
<1>1. PublishedBound'
  BY DEF CleanInv, PublishedBound, CleanTypes
<1>2. CompletedStays' /\ NoCaseVanishes' /\ LeftoversKnown'
  BY DEF CleanInv, CompletedStays, NoCaseVanishes, LeftoversKnown
<1> QED BY <1>1, <1>2

LEMMA ProposeKeeps == ASSUME CleanInv, Propose PROVE CleanInv'
<1>1. PICK C \in SUBSET {c \in Cases : requested[c] = {}} :
        requested' = Request(C, {"input", "evaluation", "review"})
  BY DEF Propose
<1>2. requested' \in [Cases -> SUBSET Notes]
  BY <1>1 DEF Request, Notes, CleanInv, CleanTypes
<1>3. PublishedBound' /\ CompletedStays' /\ NoCaseVanishes' /\ LeftoversKnown'
  <2>1. \A c \in Cases :
          progress'[c] = progress[c]
          /\ (\/ requested'[c] = requested[c]
              \/ requested'[c] = requested[c] \cup {"input", "evaluation", "review"})
    BY <1>1 DEF Request, Propose
  <2>2. /\ UNCHANGED <<published, vault, decision, cleaned, strays>>
        /\ progress' \in [Cases -> {"none", "prepared", "carried", "receipted"}]
    BY DEF Propose, CleanInv, CleanTypes
  <2> QED BY <1>2, <2>1, <2>2, RequestKeeps
<1>4. CleanTypes' /\ DeletingBound'
  BY <1>2, NextUnit, NoDeletion DEF Propose, CleanInv, CleanTypes
<1> QED BY <1>3, <1>4 DEF CleanInv

LEMMA TransportKeeps == ASSUME CleanInv, DispatchTransport PROVE CleanInv'
<1>1. PICK S \in SUBSET {c \in Cases : progress[c] # "none"}, M \in Missing :
        /\ progress' = [c \in Cases |-> IF c \in S /\ progress[c] = "prepared" THEN "carried"
                                       ELSE progress[c]]
        /\ requested' = Request(S \ M, {"transport"})
  BY DEF DispatchTransport
<1>2. /\ requested' \in [Cases -> SUBSET Notes]
      /\ progress' \in [Cases -> {"none", "prepared", "carried", "receipted"}]
  BY <1>1 DEF Request, Notes, CleanInv, CleanTypes
<1>3. PublishedBound' /\ CompletedStays' /\ NoCaseVanishes' /\ LeftoversKnown'
  <2>1. ASSUME NEW c \in Cases
        PROVE  \/ requested'[c] = requested[c] /\ progress'[c] = progress[c]
               \/ /\ decision[c] = "approve" /\ requested[c] \subseteq requested'[c]
                  /\ "review" \in requested'[c] => "review" \in requested[c]
    <3>1. CASE c \in S
      <4>1. decision[c] = "approve"
        BY <3>1, <1>1 DEF CleanInv, PublishedBound
      <4>2. requested'[c] = requested[c] \cup {"transport"} \/ requested'[c] = requested[c]
        BY <1>1 DEF Request
      <4> QED BY <4>1, <4>2
    <3>2. CASE c \notin S
      BY <3>2, <1>1 DEF Request
    <3> QED BY <3>1, <3>2
  <2>2. UNCHANGED <<published, vault, decision, cleaned, strays>>
    BY DEF DispatchTransport
  <2> QED BY <1>2, <2>1, <2>2, RequestKeeps
<1>4. CleanTypes' /\ DeletingBound'
  BY <1>2, NextUnit, NoDeletion DEF DispatchTransport, CleanInv, CleanTypes
<1> QED BY <1>3, <1>4 DEF CleanInv

LEMMA ExecutorKeeps == ASSUME CleanInv, DispatchExecutor PROVE CleanInv'
<1>1. PICK S \in SUBSET Approved, M \in Missing, N \in Missing :
        LET done == {c \in S : progress[c] \in {"carried", "receipted"}} IN
          /\ progress' = [c \in Cases |-> IF c \in done THEN "receipted"
                                         ELSE IF c \in S THEN "prepared" ELSE progress[c]]
          /\ requested' = [c \in Cases |-> requested[c] \cup
                             (IF c \in done \ M THEN {"completed"}
                              ELSE IF c \in S \ M THEN {"execution"} ELSE {})]
          /\ requests' = requests \cup (done \ (M \cup N))
  BY DEF DispatchExecutor
<1>2. /\ requested' \in [Cases -> SUBSET Notes] /\ requests' \subseteq Cases
      /\ progress' \in [Cases -> {"none", "prepared", "carried", "receipted"}]
  BY <1>1 DEF Approved, Notes, CleanInv, CleanTypes
<1>3. PublishedBound' /\ CompletedStays' /\ NoCaseVanishes' /\ LeftoversKnown'
  <2>1. ASSUME NEW c \in Cases
        PROVE  \/ requested'[c] = requested[c] /\ progress'[c] = progress[c]
               \/ /\ decision[c] = "approve" /\ requested[c] \subseteq requested'[c]
                  /\ "review" \in requested'[c] => "review" \in requested[c]
    <3>1. CASE c \in S
      BY <3>1, <1>1 DEF Approved
    <3>2. CASE c \notin S
      BY <3>2, <1>1
    <3> QED BY <3>1, <3>2
  <2>2. UNCHANGED <<published, vault, decision, cleaned, strays>>
    BY DEF DispatchExecutor
  <2> QED BY <1>2, <2>1, <2>2, RequestKeeps
<1>4. CleanTypes' /\ DeletingBound'
  BY <1>2, NextUnit, NoDeletion DEF DispatchExecutor, CleanInv, CleanTypes
<1> QED BY <1>3, <1>4 DEF CleanInv

LEMMA PublishKeeps ==
  ASSUME CleanInv, NEW c \in Cases, NEW s \in Notes, Publish(c, s) PROVE CleanInv'
<1> USE DEF CleanInv
<1>1. /\ vault' = [vault EXCEPT ![c] = @ \cup {s}]
      /\ published' = [published EXCEPT ![c] = @ \cup {s}] \/ published' = published
      /\ strays' = IF c \in cleaned THEN [strays EXCEPT ![c] = @ \cup {s}] ELSE strays
      /\ UNCHANGED <<requested, answer, decision, progress, requests, cleaned>>
  BY DEF Publish
<1>2. deleting = Nobody /\ deleting' = Nobody
  <2>1. unit # "cleanup"
    BY DEF Publish
  <2> QED BY <2>1 DEF DeletingBound, Publish, Restart
<1>3. s \in requested[c] /\ s \notin published[c]
  BY DEF Publish, Due, Unpublished
<1>4. CleanTypes'
  <2>1. unit' \in CleanUnits /\ unseen' \subseteq Cases
        /\ rest' \in Seq(Deletable)
    BY NextUnit DEF Publish, CleanTypes
  <2>2. /\ vault' \in [Cases -> SUBSET Notes] /\ published' \in [Cases -> SUBSET Notes]
        /\ strays' \in [Cases -> SUBSET Notes]
    BY <1>1 DEF CleanTypes
  <2> QED BY <1>1, <1>2, <2>1, <2>2 DEF CleanTypes
<1>5. s = "review" => "input" \in published[c]
  <2> SUFFICES ASSUME s = "review", "input" \notin published[c] PROVE FALSE
      OBVIOUS
  <2>1. "input" \in Unpublished(c)
    BY <1>3 DEF PublishedBound, Unpublished
  <2>2. Position["review"] <= Position["input"]
    BY <2>1 DEF Publish, Due
  <2> QED BY <2>2 DEF Position
<1>6. PublishedBound'
  <2>1. ASSUME NEW d \in Cases
        PROVE  /\ vault'[d] = vault[d] \/ (d = c /\ vault'[d] = vault[d] \cup {s})
               /\ published'[d] = published[d]
                  \/ (d = c /\ published'[d] = published[d] \cup {s})
    BY <1>1 DEF CleanTypes
  <2> QED BY <1>1, <1>3, <1>5, <2>1 DEF PublishedBound
<1>7. CompletedStays' /\ NoCaseVanishes'
  BY <1>1 DEF CleanTypes, CompletedStays, NoCaseVanishes
<1>8. LeftoversKnown'
  <2>1. ASSUME NEW d \in cleaned
        PROVE  \/ vault'[d] = vault[d] /\ strays'[d] = strays[d]
               \/ vault'[d] = vault[d] \cup {s} /\ strays'[d] = strays[d] \cup {s}
    BY <1>1 DEF CleanTypes
  <2> QED BY <1>1, <2>1 DEF LeftoversKnown
<1> QED BY <1>2, <1>4, <1>6, <1>7, <1>8, NoDeletion

LEMMA IntakeKeeps == ASSUME CleanInv, ReviewIntake PROVE CleanInv'
<1> USE DEF CleanInv
<1>1. ASSUME NEW c \in Cases
      PROVE  \/ decision'[c] = decision[c]
             \/ /\ decision[c] = "none" /\ decision'[c] = answer[c]
                /\ "review" \in vault[c] /\ "review" \in published[c]
  BY DEF ReviewIntake
<1>2. UNCHANGED <<requested, published, vault, answer, progress, cleaned, strays>>
  BY DEF ReviewIntake
<1>3. CleanTypes' /\ DeletingBound'
  <2>1. decision' \in [Cases -> {"none", "reject", "approve"}]
    BY DEF ReviewIntake, CleanTypes
  <2>2. requests' \subseteq Cases
    BY DEF ReviewIntake, CleanTypes
  <2> QED BY <1>2, <2>1, <2>2, NextUnit, NoDeletion DEF ReviewIntake, CleanTypes
<1>4. PublishedBound'
  BY <1>1, <1>2 DEF PublishedBound, CleanTypes
<1>5. CompletedStays' /\ NoCaseVanishes'
  BY <1>1, <1>2 DEF CompletedStays, NoCaseVanishes
<1>6. LeftoversKnown'
  BY <1>1, <1>2 DEF LeftoversKnown, CleanTypes
<1> QED BY <1>3, <1>4, <1>5, <1>6

LEMMA StartKeeps == ASSUME CleanInv, NEW c \in Cases, StartDeletion(c) PROVE CleanInv'
<1> USE DEF CleanInv
<1>1. /\ deleting' = c /\ rest' = StagesOf(c) /\ unit = "cleanup"
      /\ UNCHANGED <<caseVars, unit, left, unseen, strays>>
      /\ decision[c] = "reject" \/ "completed" \in published[c]
  BY DEF StartDeletion, NextRequest, Pending, Rejected
<1>2. CleanTypes'
  <2>1. StagesOf(c) \in Seq(Deletable)
    <3>1. <<"input", "evaluation", "review">> \in Seq(Deletable)
      BY DEF Deletable
    <3>2. <<"input", "evaluation", "review", "execution", "transport">> \in Seq(Deletable)
      BY DEF Deletable
    <3> QED BY <3>1, <3>2 DEF StagesOf, TerminalStages, CleanupStages
  <2> QED BY <1>1, <2>1 DEF CleanTypes, caseVars
<1>3. DeletingBound'
  <2>1. CASE decision[c] = "reject"
    <3>1. rest' = <<"input", "evaluation", "review">>
      BY <1>1, <2>1 DEF StagesOf, CleanupStages
    <3>2. vault[c] \subseteq {"input", "evaluation", "review"}
      BY <2>1 DEF PublishedBound
    <3> QED BY <1>1, <2>1, <3>1, <3>2 DEF DeletingBound, caseVars
  <2>2. CASE decision[c] # "reject"
    BY <1>1, <2>2 DEF DeletingBound, caseVars
  <2> QED BY <2>1, <2>2
<1> QED BY <1>1, <1>2, <1>3, SameCases DEF caseVars

LEMMA DeleteKeeps == ASSUME CleanInv, DeleteNote PROVE CleanInv'
<1> USE DEF CleanInv
<1> DEFINE n == Head(rest)
<1>1. /\ deleting \in Cases /\ rest # <<>> /\ rest' = Tail(rest)
      /\ vault' = [vault EXCEPT ![deleting] = @ \ {n}]
      /\ UNCHANGED <<requested, published, answer, decision, progress, requests, cleaned,
                     unit, unseen, deleting, strays>>
  BY DEF DeleteNote, CleanTypes
<1>2. n \in Deletable /\ rest' \in Seq(Deletable)
  BY <1>1 DEF CleanTypes
<1>3. ASSUME NEW c \in Cases
      PROVE  vault'[c] = IF c = deleting THEN vault[c] \ {n} ELSE vault[c]
  BY <1>1 DEF CleanTypes
<1> HIDE DEF n
<1>4. CleanTypes'
  BY <1>1, <1>2 DEF CleanTypes
<1>5. PublishedBound'
  BY <1>1, <1>3 DEF PublishedBound
<1>6. CompletedStays'
  BY <1>1, <1>2, <1>3 DEF CompletedStays, Deletable
<1>7. NoCaseVanishes'
  <2>1. decision[deleting] = "approve" => "completed" \in vault[deleting]
    BY <1>1, NobodyAssumption DEF DeletingBound, CompletedStays, CleanTypes
  <2> QED BY <1>1, <1>2, <1>3, <2>1 DEF NoCaseVanishes, Deletable
<1>8. deleting # Nobody
  BY <1>1, NobodyAssumption
<1>9. decision[deleting] = "reject" =>
        \/ n = "input" /\ rest' = <<"evaluation", "review">>
           /\ vault'[deleting] \subseteq strays[deleting] \cup {"evaluation", "review"}
        \/ n = "evaluation" /\ rest' = <<"review">>
           /\ vault'[deleting] \subseteq strays[deleting] \cup {"review"}
        \/ n = "review" /\ rest' = <<>> /\ vault'[deleting] \subseteq strays[deleting]
  <2> SUFFICES ASSUME decision[deleting] = "reject"
               PROVE  \/ n = "input" /\ rest' = <<"evaluation", "review">>
                         /\ vault'[deleting] \subseteq strays[deleting]
                                               \cup {"evaluation", "review"}
                      \/ n = "evaluation" /\ rest' = <<"review">>
                         /\ vault'[deleting] \subseteq strays[deleting] \cup {"review"}
                      \/ n = "review" /\ rest' = <<>> /\ vault'[deleting] \subseteq strays[deleting]
      OBVIOUS
  <2>1. vault'[deleting] = vault[deleting] \ {n}
    BY <1>1, <1>3
  <2>2. CASE rest = <<"input", "evaluation", "review">>
            /\ vault[deleting] \subseteq strays[deleting] \cup {"input", "evaluation", "review"}
    <3>1. n = "input" /\ Tail(rest) = <<"evaluation", "review">>
      BY <2>2 DEF n
    <3> QED BY <1>1, <2>1, <2>2, <3>1
  <2>3. CASE rest = <<"evaluation", "review">>
            /\ vault[deleting] \subseteq strays[deleting] \cup {"evaluation", "review"}
    <3>1. n = "evaluation" /\ Tail(rest) = <<"review">>
      BY <2>3 DEF n
    <3> QED BY <1>1, <2>1, <2>3, <3>1
  <2>4. CASE rest = <<"review">> /\ vault[deleting] \subseteq strays[deleting] \cup {"review"}
    <3>1. n = "review" /\ Tail(rest) = <<>>
      BY <2>4 DEF n
    <3>2. vault'[deleting] \subseteq strays[deleting]
      BY <2>1, <2>4, <3>1
    <3> QED BY <1>1, <3>1, <3>2
  <2> QED BY <1>1, <1>8, <2>2, <2>3, <2>4 DEF DeletingBound
<1>10. DeletingBound'
  BY <1>1, <1>8, <1>9 DEF DeletingBound
<1>11. LeftoversKnown'
  BY <1>1, <1>3, <1>9 DEF LeftoversKnown, CleanTypes
<1> QED BY <1>4, <1>5, <1>6, <1>7, <1>10, <1>11

LEMMA StoreKeeps == ASSUME CleanInv, StoreCleanup PROVE CleanInv'
<1> USE DEF CleanInv
<1>1. CleanTypes' /\ DeletingBound'
  BY NoDeletion DEF StoreCleanup, CleanTypes
<1>2. PublishedBound' /\ CompletedStays' /\ NoCaseVanishes'
  BY DEF StoreCleanup, PublishedBound, CompletedStays, NoCaseVanishes
<1>3. LeftoversKnown'
  BY DEF StoreCleanup, LeftoversKnown, DeletingBound
<1> QED BY <1>1, <1>2, <1>3

LEMMA PushBackKeeps ==
  ASSUME CleanInv, NEW c \in Cases, NEW S \in SUBSET Notes, PushBack(c, S) PROVE CleanInv'
<1> USE DEF CleanInv
<1>1. /\ S \subseteq published[c]
      /\ vault' = [vault EXCEPT ![c] = @ \cup S]
      /\ strays' = (IF deleting = c \/ "review" \notin S
                    THEN [strays EXCEPT ![c] = @ \cup S] ELSE strays)
      /\ UNCHANGED <<requested, published, answer, decision, progress, requests, cleaned, runVars>>
  BY DEF PushBack
<1>2. ASSUME NEW d \in Cases
      PROVE  /\ vault'[d] = IF d = c THEN vault[d] \cup S ELSE vault[d]
             /\ strays'[d] = IF d = c /\ (deleting = c \/ "review" \notin S)
                             THEN strays[d] \cup S ELSE strays[d]
  BY <1>1 DEF CleanTypes
<1>3. CleanTypes'
  BY <1>1 DEF CleanTypes, runVars
<1>4. PublishedBound' /\ CompletedStays' /\ NoCaseVanishes'
  BY <1>1, <1>2 DEF PublishedBound, CompletedStays, NoCaseVanishes
<1>5. DeletingBound'
  BY <1>1, <1>2 DEF DeletingBound, CleanTypes, runVars
<1>6. LeftoversKnown'
  BY <1>1, <1>2 DEF LeftoversKnown, CleanTypes
<1> QED BY <1>3, <1>4, <1>5, <1>6

\* The invariant holds after every step.
LEMMA CleanStepInv == CleanInv /\ [CleanNext]_cleanVars => CleanInv'
<1> SUFFICES ASSUME CleanInv, [CleanNext]_cleanVars PROVE CleanInv'
    OBVIOUS
<1>1. CASE Propose
  BY <1>1, ProposeKeeps
<1>2. CASE SyncDone \/ CleanupDone \/ CleanupFails
  <2>1. CleanTypes' /\ DeletingBound'
    BY <1>2, NextUnit, NoDeletion
       DEF SyncDone, CleanupDone, CleanupFails, caseVars, CleanInv, CleanTypes
  <2> QED BY <1>2, <2>1, SameCases DEF SyncDone, CleanupDone, CleanupFails, caseVars, CleanInv
<1>3. CASE ReviewIntake
  BY <1>3, IntakeKeeps
<1>4. CASE DispatchTransport
  BY <1>4, TransportKeeps
<1>5. CASE DispatchExecutor
  BY <1>5, ExecutorKeeps
<1>6. CASE DeleteNote
  BY <1>6, DeleteKeeps
<1>7. CASE StoreCleanup
  BY <1>7, StoreKeeps
<1>8. CASE \E c \in Cases : SkipRequest(c)
  <2>1. CleanTypes' /\ DeletingBound'
    BY <1>8 DEF SkipRequest, NextRequest, caseVars, CleanInv, CleanTypes, DeletingBound
  <2> QED BY <1>8, <2>1, SameCases DEF SkipRequest, caseVars, CleanInv
<1>9. CASE \E c \in Cases : StartDeletion(c)
  BY <1>9, StartKeeps
<1>10. CASE \E c \in Cases, s \in Notes : Publish(c, s)
  BY <1>10, PublishKeeps
<1>11. CASE \E c \in Cases, d \in {"reject", "approve"} : HumanAnswers(c, d)
  <2>1. CleanTypes' /\ DeletingBound'
    BY <1>11 DEF HumanAnswers, runVars, CleanInv, CleanTypes, DeletingBound
  <2> QED BY <1>11, <2>1, SameCases DEF HumanAnswers, CleanInv
<1>12. CASE \E c \in Cases, S \in SUBSET Notes : PushBack(c, S)
  BY <1>12, PushBackKeeps
<1>13. CASE UNCHANGED cleanVars
  <2>1. CleanTypes' /\ DeletingBound'
    BY <1>13 DEF cleanVars, caseVars, runVars, CleanInv, CleanTypes, DeletingBound
  <2> QED BY <1>13, <2>1, SameCases DEF cleanVars, caseVars, CleanInv
<1> QED BY <1>1, <1>2, <1>3, <1>4, <1>5, <1>6, <1>7, <1>8, <1>9, <1>10, <1>11, <1>12, <1>13
        DEF CleanNext, CleanStep

\* However publishing, deleting, failures and pushes of a lagging client interleave,
\* an approved case has a note: none goes before the completed one is there, and
\* that is never taken away.
THEOREM CaseStaysVisible == CleanSpec => []NoCaseVanishes
<1>1. CleanInv => NoCaseVanishes
  BY DEF CleanInv
<1> QED BY <1>1, CleanInitInv, CleanStepInv, PTL DEF CleanSpec

\* What is left of a rejected case that has a cleanup result is found by a later
\* run, or came back without its Review note, or late: a deletion that stops half
\* way leaves the Review note, the one that is deleted last and looked for again.
\* No other note than the evaluation note can still come from the sync.
THEOREM LeftoversStayFindable == CleanSpec => []LeftoversFindable
<1>1. CleanInv => LeftoversFindable
  <2> SUFFICES ASSUME CleanInv, NEW c \in cleaned, decision[c] = "reject"
               PROVE  /\ vault[c] \subseteq strays[c] \/ "review" \in vault[c]
                      /\ Unpublished(c) \subseteq {"evaluation"}
      BY DEF LeftoversFindable
  <2>1. Unpublished(c) \subseteq {"evaluation"}
    BY DEF CleanInv, CleanTypes, PublishedBound, Unpublished
  <2> QED BY <2>1 DEF CleanInv, LeftoversKnown
<1> QED BY <1>1, CleanInitInv, CleanStepInv, PTL DEF CleanSpec

-----------------------------------------------------------------------------
(* GitHubStatus *)

StatusTypes ==
  /\ note \in [status : Statuses, body : Nat] /\ mirror \in [status : Statuses, body : Nat]
  /\ etag \in Nat /\ repo \in [head : Nat, issues : SUBSET {1}, recent : BOOLEAN]
  /\ record \in Records \cup {None} /\ emitted \in Proposals \cup {None}
  /\ queue \in [Slots -> Proposals \cup {None}] /\ unhandled \subseteq Slots
  /\ step \in {"pull", "watch", "enqueue", "write", "put", "verify"}
  /\ slot \in Slots \cup {None} /\ before \in Sights \cup {None}
  /\ inFlight \in Puts \cup {None}
  /\ entered \in Nat /\ pulled \in Nat /\ baseline \in Baselines \cup {None}

\* Work in hand is real: what is enqueued, looked at and written.
WorkBound ==
  /\ step = "enqueue" => emitted # None
  /\ step \in {"write", "put", "verify"} => \A s \in unhandled : queue[s] # None
  /\ step \in {"put", "verify"} => /\ slot \in Slots /\ queue[slot] # None
                                   /\ before # None

\* What was read under an ETag is the note as long as the ETag is the same.
SightBound ==
  /\ step = "put" => /\ before.status = queue[slot].from /\ before.etag <= etag
                     /\ before.etag = etag => /\ note.status = before.status
                                              /\ note.body = before.body
  /\ inFlight # None => /\ inFlight.ifMatch <= etag
                        /\ inFlight.ifMatch = etag => /\ note.status \in Automated
                                                      /\ note.body = inFlight.body

\* Stable is entered by a Human alone, so within the time between two entries it is
\* left once; the mirror is of the time `pulled`.
EraBound ==
  /\ pulled <= entered
  /\ entered = pulled /\ mirror.status # "stable" => note.status # "stable"
  /\ record = None => baseline = None
  /\ baseline # None =>
       /\ baseline.era <= pulled
       /\ baseline.era = pulled /\ record.last # "stable" => mirror.status # "stable"

StatusInv == StatusTypes /\ WorkBound /\ SightBound /\ EraBound /\ ActivityKept

-----------------------------------------------------------------------------
LEMMA StatusInitInv == GitHubInit => StatusInv
<1> SUFFICES ASSUME GitHubInit PROVE StatusInv
    OBVIOUS
<1>1. StatusTypes
  <2>1. /\ note \in [status : Statuses, body : Nat] /\ mirror \in [status : Statuses, body : Nat]
        /\ repo \in [head : Nat, issues : SUBSET {1}, recent : BOOLEAN]
    BY DEF GitHubInit, Statuses, Automated
  <2> QED BY <2>1 DEF GitHubInit, StatusTypes
<1>2. WorkBound /\ SightBound /\ EraBound /\ ActivityKept
  BY DEF GitHubInit, WorkBound, SightBound, EraBound, ActivityKept
<1> QED BY <1>1, <1>2 DEF StatusInv

\* What is proposed leaves the status, and never for stable.
LEMMA DecideProposes ==
  ASSUME StatusTypes, mirror.status \in Automated
  PROVE  Decide \in Automated /\ (Decide # mirror.status => Decide \in Proposable)
<1>1. Want \in Proposable
  BY DEF Want, Proposable
<1>2. record # None /\ record.pending # None => record.pending \in Proposable
  BY DEF StatusTypes, Records
<1> QED BY <1>1, <1>2 DEF Decide, Automated, Proposable

\* A PUT puts the note into planning or running, under a new ETag.
LEMMA WrittenBinds ==
  ASSUME StatusInv, NEW p \in Puts, Written(p)
  PROVE  /\ note' \in [status : Statuses, body : Nat] /\ etag' \in Nat /\ etag' > etag
         /\ note'.status = p.status /\ note'.body = p.body
         /\ p.status \in Proposable /\ p.status # "stable"
<1>1. p.status \in Proposable /\ p.body \in Nat
  BY DEF Puts
<1>2. note' = [status |-> p.status, body |-> p.body] /\ etag' = etag + 1
  BY DEF Written
<1>3. etag \in Nat
  BY DEF StatusInv, StatusTypes
<1> QED BY <1>1, <1>2, <1>3 DEF Statuses, Automated, Proposable

\* The PUT of the writer is one of what was read.
LEMMA PutReads ==
  ASSUME StatusInv, step = "put"
  PROVE  /\ Put \in Puts /\ Put.body = before.body /\ Put.ifMatch = before.etag
         /\ Put.ifMatch <= etag
         /\ Put.ifMatch = etag => note.status \in Automated /\ note.body = Put.body
<1>1. queue[slot] \in Proposals /\ before \in Sights
  BY DEF StatusInv, StatusTypes, WorkBound
<1>2. queue[slot].to \in Proposable /\ queue[slot].from \in Automated
      /\ before.body \in Nat /\ before.etag \in Nat
  BY <1>1 DEF Proposals, Sights
<1>3. Put \in Puts /\ Put.body = before.body /\ Put.ifMatch = before.etag
  BY <1>2 DEF Put, Puts
<1> QED BY <1>2, <1>3 DEF StatusInv, SightBound

\* A slot is left with work in the others only.
LEMMA LeaveKeepsWork ==
  ASSUME StatusTypes, NEW s \in Slots, \A t \in unhandled \ {s} : queue[t] # None,
         Finish(s) \/ Keep(s)
  PROVE  /\ queue' \in [Slots -> Proposals \cup {None}] /\ unhandled' \subseteq Slots
         /\ step' = "write" /\ slot' = None /\ before' = None /\ WorkBound'
<1>1. step' = "write" /\ unhandled' = unhandled \ {s} /\ slot' = None /\ before' = None
  BY DEF Finish, Keep, LeaveSlot
<1>2. queue' \in [Slots -> Proposals \cup {None}]
  BY DEF Finish, Keep, StatusTypes
<1>3. \A t \in unhandled' : queue'[t] # None
  BY <1>1 DEF Finish, Keep, StatusTypes
<1> QED BY <1>1, <1>2, <1>3 DEF WorkBound, StatusTypes

\* Where the note and what is known of it stay, so do the bounds on them.
LEMMA SameSight ==
  ASSUME StatusInv, UNCHANGED <<note, etag, inFlight>>, step' # "put"
  PROVE  SightBound'
  BY DEF StatusInv, SightBound

LEMMA SameEra ==
  ASSUME StatusInv, UNCHANGED <<mirror, record, entered, pulled, baseline>>,
         note'.status = note.status \/ note'.status # "stable"
  PROVE  EraBound' /\ ActivityKept'
  BY DEF StatusInv, EraBound, ActivityKept

-----------------------------------------------------------------------------
LEMMA PullKeeps == ASSUME StatusInv, Pull PROVE StatusInv'
<1> USE DEF StatusInv
<1>1. StatusTypes' /\ WorkBound' /\ ActivityKept'
  BY DEF Pull, StatusTypes, WorkBound, ActivityKept, writerVars
<1>2. SightBound'
  BY SameSight DEF Pull
<1>3. EraBound'
  <2>1. baseline # None => baseline.era \in Nat
    BY DEF StatusTypes, Baselines
  <2> QED BY <2>1 DEF Pull, EraBound, StatusTypes
<1> QED BY <1>1, <1>2, <1>3

LEMMA WatchKeeps == ASSUME StatusInv, Watch PROVE StatusInv'
<1> USE DEF StatusInv
<1> DEFINE proposed == IF Decide = mirror.status THEN None ELSE Decide
<1>1. /\ step = "watch"
      /\ UNCHANGED <<note, etag, mirror, repo, queue, writerVars, inFlight, entered, pulled>>
  BY DEF Watch
<1>2. \/ baseline' = baseline
         /\ (mirror.status = "stable" => baseline # None /\ baseline.era = pulled)
      \/ mirror.status = "stable"
         /\ baseline' = [era |-> pulled, head |-> repo.head, issues |-> repo.issues]
  BY DEF Watch
<1>3. \/ mirror.status \notin Automated /\ StartWriter /\ UNCHANGED <<record, emitted>>
      \/ /\ mirror.status \in Automated
         /\ record' = [last |-> mirror.status, head |-> repo.head,
                       issues |-> repo.issues, pending |-> proposed]
         /\ \/ proposed = None /\ StartWriter /\ UNCHANGED emitted
            \/ /\ proposed # None /\ step' = "enqueue" /\ UNCHANGED unhandled
               /\ emitted' = [from |-> mirror.status, to |-> proposed]
  BY DEF Watch
<1>4. mirror.status \in Automated => proposed \in Proposable \cup {None}
  BY DecideProposes
<1>5. repo.head \in Nat /\ repo.issues \in SUBSET {1}
  BY DEF StatusTypes
<1>6. None \notin Proposals /\ None \notin Records /\ None \notin Baselines
  BY NoneStatusAssumption
<1>7. baseline' \in Baselines \cup {None}
  BY <1>2, <1>5 DEF StatusTypes, Baselines
<1>8. record' \in Records \cup {None} /\ emitted' \in Proposals \cup {None}
  <2> HIDE DEF proposed
  <2> QED BY <1>3, <1>4, <1>5 DEF StatusTypes, Records, Proposals
<1>9. StatusTypes'
  <2>1. step' \in {"enqueue", "write"} /\ unhandled' \subseteq Slots
    BY <1>3 DEF StartWriter, StatusTypes, Backlog
  <2> QED BY <1>1, <1>7, <1>8, <2>1 DEF StatusTypes, writerVars
<1>10. WorkBound'
  <2>1. step' = "enqueue" => emitted' # None
    <3> HIDE DEF proposed
    <3> QED BY <1>3, <1>4, <1>6 DEF Proposals, StartWriter
  <2> QED BY <1>1, <1>3, <2>1 DEF WorkBound, StartWriter, Backlog
<1>11. SightBound'
  BY <1>1, <1>3, SameSight DEF StartWriter
<1>12. EraBound'
  <2>1. record' = None => mirror.status \notin Automated /\ record = None
    <3> HIDE DEF proposed
    <3> QED BY <1>3, <1>4, <1>5, <1>6 DEF Records
  <2>2. record' = None => baseline' = None
    BY <1>2, <2>1 DEF EraBound, Automated
  <2>3. baseline' # None /\ baseline'.era = pulled /\ record'.last # "stable"
        => mirror.status # "stable"
    BY <1>2, <1>3 DEF EraBound, Automated
  <2>4. baseline' # None => baseline'.era <= pulled
    BY <1>2 DEF EraBound, StatusTypes
  <2> QED BY <1>1, <2>2, <2>3, <2>4 DEF EraBound
<1>13. ActivityKept'
  <2> SUFFICES ASSUME record' # None, record'.last = "stable", record'.pending = None
               PROVE  /\ baseline' # None
                      /\ record'.head = baseline'.head
                      /\ record'.issues \subseteq baseline'.issues
      BY DEF ActivityKept
  <2>1. CASE mirror.status \notin Automated
    BY <1>2, <1>3, <2>1 DEF ActivityKept, Automated
  <2>2. CASE mirror.status \in Automated
    <3>1. /\ mirror.status = "stable" /\ proposed = None
          /\ record'.head = repo.head /\ record'.issues = repo.issues
      BY <1>3, <2>2
    <3>2. Decide = "stable"
      BY <3>1, DecideProposes, NoneStatusAssumption DEF Proposable, Automated
    <3>3. CASE baseline' = [era |-> pulled, head |-> repo.head, issues |-> repo.issues]
      <4>1. baseline' \in Baselines
        BY <1>5, <3>3 DEF Baselines, StatusTypes
      <4> QED BY <1>6, <3>1, <3>3, <4>1
    <3>4. CASE baseline' = baseline /\ baseline # None /\ baseline.era = pulled
      <4>1. record # None /\ record.last = "stable"
        BY <3>1, <3>4 DEF EraBound
      <4>2. repo.head = record.head /\ record.pending = None /\ repo.issues \subseteq record.issues
        <5>1. record.pending \in Proposable \cup {None}
          BY <4>1 DEF StatusTypes, Records
        <5> QED BY <3>1, <3>2, <4>1, <5>1 DEF Decide, Proposable
      <4>3. record.head = baseline.head /\ record.issues \subseteq baseline.issues
        BY <4>1, <4>2 DEF ActivityKept
      <4> QED BY <3>1, <3>4, <4>2, <4>3
    <3> QED BY <1>2, <3>1, <3>3, <3>4
  <2> QED BY <2>1, <2>2
<1> QED BY <1>9, <1>10, <1>11, <1>12, <1>13

LEMMA EnqueueKeeps == ASSUME StatusInv, NEW s \in Slots, Enqueue(s) PROVE StatusInv'
<1> USE DEF StatusInv
<1>1. StatusTypes'
  BY DEF Enqueue, Backlog, StatusTypes, writerVars, historyVars
<1>2. WorkBound'
  BY DEF Enqueue, WorkBound, Backlog
<1>3. SightBound' /\ EraBound' /\ ActivityKept'
  BY SameSight, SameEra DEF Enqueue, historyVars
<1> QED BY <1>1, <1>2, <1>3

LEMMA ObserveKeeps == ASSUME StatusInv, NEW s \in Slots, Observe(s) PROVE StatusInv'
<1> USE DEF StatusInv
<1>1. /\ step = "write" /\ s \in unhandled /\ queue[s] \in Proposals /\ queue[s] # None
      /\ UNCHANGED <<note, etag, mirror, repo, record, emitted, inFlight, historyVars>>
  BY NoneStatusAssumption DEF Observe, WorkBound, StatusTypes
<1>2. EraBound' /\ ActivityKept'
  BY <1>1, SameEra DEF historyVars
<1>3. CASE Applies(queue[s]) /\ step' = "put"
  <2>1. /\ slot' = s /\ UNCHANGED <<queue, unhandled>>
        /\ before' = [status |-> note.status, body |-> note.body, etag |-> etag]
    BY <1>3 DEF Observe, Finish, Keep, LeaveSlot
  <2>2. before' \in Sights /\ before' # None
    <3>1. note.status \in Statuses /\ note.body \in Nat /\ etag \in Nat
      BY DEF StatusTypes
    <3> QED BY <2>1, <3>1, NoneStatusAssumption DEF Sights
  <2>3. StatusTypes' /\ WorkBound'
    BY <1>1, <1>3, <2>1, <2>2 DEF StatusTypes, WorkBound, historyVars
  <2>4. SightBound'
    BY <1>1, <1>3, <2>1 DEF SightBound, Applies, StatusTypes
  <2> QED BY <1>2, <2>3, <2>4
<1>4. CASE Finish(s) \/ Keep(s)
  <2>1. \A t \in unhandled \ {s} : queue[t] # None
    BY <1>1 DEF WorkBound
  <2>2. /\ queue' \in [Slots -> Proposals \cup {None}] /\ unhandled' \subseteq Slots
        /\ step' = "write" /\ slot' = None /\ before' = None /\ WorkBound'
    BY <1>4, <2>1, LeaveKeepsWork
  <2>3. StatusTypes'
    BY <1>1, <2>2 DEF StatusTypes, historyVars
  <2>4. SightBound'
    BY <1>1, <2>2, SameSight
  <2> QED BY <1>2, <2>2, <2>3, <2>4
<1> QED BY <1>3, <1>4 DEF Observe

\* The writer's PUT takes effect, answered or not.
LEMMA WriteKeeps ==
  ASSUME StatusInv, step = "put", Accepts(Put), Written(Put), step' = "verify",
         UNCHANGED <<queue, unhandled, slot, before, inFlight, mirror, repo, record, emitted,
                     historyVars>>
  PROVE  StatusInv'
<1> USE DEF StatusInv
<1>1. /\ note' \in [status : Statuses, body : Nat] /\ etag' \in Nat /\ etag' > etag
      /\ note'.status # "stable"
  BY PutReads, WrittenBinds
<1>2. StatusTypes' /\ WorkBound'
  BY <1>1 DEF StatusTypes, WorkBound, historyVars
<1>3. SightBound'
  <2>1. inFlight # None => inFlight.ifMatch \in Nat
    BY DEF StatusTypes, Puts
  <2> QED BY <1>1, <2>1 DEF SightBound, StatusTypes
<1>4. EraBound' /\ ActivityKept'
  BY <1>1, SameEra DEF historyVars
<1> QED BY <1>2, <1>3, <1>4

LEMMA PutKeeps == ASSUME StatusInv, PutAnswers PROVE StatusInv'
<1> USE DEF StatusInv
<1>1. step = "put" /\ UNCHANGED <<mirror, repo, record, emitted, historyVars>>
      /\ slot \in Slots /\ queue[slot] # None /\ before # None
  BY DEF PutAnswers, WorkBound
<1>2. CASE Accepts(Put) /\ Written(Put) /\ step' = "verify"
            /\ UNCHANGED <<queue, unhandled, slot, before, inFlight>>
  BY <1>1, <1>2, WriteKeeps
<1>3. CASE UNCHANGED <<note, etag>>
  <2>1. EraBound' /\ ActivityKept'
    BY <1>1, <1>3, SameEra DEF historyVars
  <2>2. CASE Finish(slot) /\ UNCHANGED inFlight
    <3>1. \A t \in unhandled \ {slot} : queue[t] # None
      BY <1>1 DEF WorkBound
    <3>2. /\ queue' \in [Slots -> Proposals \cup {None}] /\ unhandled' \subseteq Slots
          /\ step' = "write" /\ slot' = None /\ before' = None /\ WorkBound'
      BY <1>1, <2>2, <3>1, LeaveKeepsWork
    <3>3. StatusTypes'
      BY <1>1, <1>3, <2>2, <3>2 DEF StatusTypes, historyVars
    <3>4. SightBound'
      BY <1>3, <2>2, <3>2, SameSight
    <3> QED BY <2>1, <3>2, <3>3, <3>4
  <2>3. CASE step' = "verify" /\ UNCHANGED <<queue, unhandled, slot, before>>
             /\ inFlight' \in {Put, inFlight}
    <3>1. Put \in Puts /\ Put.ifMatch <= etag
          /\ (Put.ifMatch = etag => note.status \in Automated /\ note.body = Put.body)
      BY <1>1, PutReads
    <3>2. StatusTypes' /\ WorkBound'
      BY <1>1, <1>3, <2>3, <3>1 DEF StatusTypes, WorkBound, historyVars
    <3>3. SightBound'
      <4> HIDE DEF StatusInv
      <4>1. CASE inFlight' = Put
        <5>1. step' # "put" /\ note' = note /\ etag' = etag
          BY <1>3, <2>3
        <5> QED BY <3>1, <4>1, <5>1 DEF SightBound
      <4>2. CASE inFlight' = inFlight
        BY <1>3, <2>3, <4>2, SameSight
      <4> QED BY <2>3, <4>1, <4>2
    <3> QED BY <2>1, <3>2, <3>3
  <2> QED BY <1>3, <2>2, <2>3 DEF PutAnswers, writerVars
<1> QED BY <1>1, <1>2, <1>3 DEF PutAnswers, writerVars

LEMMA LateKeeps == ASSUME StatusInv, LatePut PROVE StatusInv'
<1> USE DEF StatusInv
<1>1. /\ inFlight \in Puts /\ inFlight' = None
      /\ UNCHANGED <<mirror, repo, record, emitted, queue, unhandled, step, slot, before,
                     historyVars>>
  BY DEF LatePut, StatusTypes, writerVars
<1>2. CASE Accepts(inFlight) /\ Written(inFlight)
  <2>1. /\ note' \in [status : Statuses, body : Nat] /\ etag' \in Nat /\ etag' > etag
        /\ note'.status # "stable"
    BY <1>1, <1>2, WrittenBinds
  <2>2. StatusTypes' /\ WorkBound'
    BY <1>1, <2>1 DEF StatusTypes, WorkBound, historyVars
  <2>3. SightBound'
    <3>1. step = "put" => before.etag \in Nat
      BY DEF StatusTypes, WorkBound, Sights
    <3> QED BY <1>1, <2>1, <3>1 DEF SightBound, StatusTypes
  <2>4. EraBound' /\ ActivityKept'
    BY <1>1, <2>1, SameEra DEF historyVars
  <2> QED BY <2>2, <2>3, <2>4
<1>3. CASE UNCHANGED <<note, etag>>
  <2>1. StatusTypes' /\ WorkBound'
    BY <1>1, <1>3 DEF StatusTypes, WorkBound, historyVars
  <2>2. SightBound'
    BY <1>1, <1>3 DEF SightBound
  <2>3. EraBound' /\ ActivityKept'
    BY <1>1, <1>3, SameEra DEF historyVars
  <2> QED BY <2>1, <2>2, <2>3
<1> QED BY <1>2, <1>3 DEF LatePut

LEMMA VerifyKeeps == ASSUME StatusInv, Verify PROVE StatusInv'
<1> USE DEF StatusInv
<1>1. /\ slot \in Slots /\ (Finish(slot) \/ Keep(slot))
      /\ \A t \in unhandled \ {slot} : queue[t] # None
      /\ UNCHANGED <<note, etag, mirror, repo, record, emitted, inFlight, historyVars>>
  BY DEF Verify, WorkBound
<1>2. /\ queue' \in [Slots -> Proposals \cup {None}] /\ unhandled' \subseteq Slots
      /\ step' = "write" /\ slot' = None /\ before' = None /\ WorkBound'
  BY <1>1, LeaveKeepsWork
<1>3. StatusTypes'
  BY <1>1, <1>2 DEF StatusTypes, historyVars
<1>4. SightBound' /\ EraBound' /\ ActivityKept'
  BY <1>1, <1>2, SameSight, SameEra DEF historyVars
<1> QED BY <1>2, <1>3, <1>4

LEMMA DiesKeeps == ASSUME StatusInv, CycleDies PROVE StatusInv'
<1> USE DEF StatusInv
<1>1. /\ step' = "pull" /\ emitted' = None /\ unhandled' = {} /\ slot' = None /\ before' = None
      /\ inFlight' = inFlight \/ (step = "put" /\ inFlight' = Put)
      /\ UNCHANGED <<note, etag, mirror, repo, record, queue, historyVars>>
  BY DEF CycleDies
<1>2. EraBound' /\ ActivityKept'
  BY <1>1, SameEra DEF historyVars
<1>3. CASE inFlight' = inFlight
  BY <1>1, <1>2, <1>3, SameSight DEF StatusTypes, WorkBound, historyVars
<1>4. CASE step = "put" /\ inFlight' = Put
  <2>1. Put \in Puts /\ Put.ifMatch <= etag
        /\ (Put.ifMatch = etag => note.status \in Automated /\ note.body = Put.body)
    BY <1>4, PutReads
  <2>2. StatusTypes' /\ WorkBound'
    BY <1>1, <1>4, <2>1 DEF StatusTypes, WorkBound, historyVars
  <2>3. SightBound'
    <3> HIDE DEF StatusInv
    <3> QED BY <1>1, <1>4, <2>1 DEF SightBound
  <2> QED BY <1>2, <2>2, <2>3
<1> QED BY <1>1, <1>3, <1>4

LEMMA EditKeeps == ASSUME StatusInv, HumanEdits PROVE StatusInv'
<1> USE DEF StatusInv
<1>1. /\ etag' = etag + 1
      /\ UNCHANGED <<mirror, repo, record, emitted, queue, unhandled, step, slot, before,
                     inFlight, pulled, baseline>>
  BY DEF HumanEdits, writerVars
<1>2. note' \in [status : Statuses, body : Nat] /\ entered' \in Nat
      /\ \/ entered' = entered /\ (note'.status = note.status \/ note'.status # "stable")
         \/ entered' = entered + 1
  <2>1. entered + 1 \in Nat /\ note.body + 1 \in Nat
    BY DEF StatusTypes
  <2>2. CASE \E s \in Statuses \ {note.status} :
               /\ note' = [note EXCEPT !.status = s]
               /\ entered' = IF s = "stable" THEN entered + 1 ELSE entered
    BY <2>1, <2>2 DEF StatusTypes
  <2>3. CASE note' = [note EXCEPT !.body = @ + 1] /\ UNCHANGED entered
    BY <2>1, <2>3 DEF StatusTypes
  <2> QED BY <2>2, <2>3 DEF HumanEdits
<1>3. StatusTypes' /\ WorkBound'
  <2>1. etag + 1 \in Nat
    BY DEF StatusTypes
  <2> QED BY <1>1, <1>2, <2>1 DEF StatusTypes, WorkBound
<1>4. SightBound'
  <2>1. (step = "put" => before.etag \in Nat) /\ (inFlight # None => inFlight.ifMatch \in Nat)
    BY DEF StatusTypes, WorkBound, Sights, Puts
  <2> QED BY <1>1, <2>1 DEF SightBound, StatusTypes
<1>5. EraBound' /\ ActivityKept'
  BY <1>1, <1>2 DEF EraBound, ActivityKept, StatusTypes
<1> QED BY <1>3, <1>4, <1>5

LEMMA ActivityKeeps == ASSUME StatusInv, Activity PROVE StatusInv'
<1> USE DEF StatusInv
<1>1. UNCHANGED <<note, etag, mirror, record, emitted, queue, unhandled, step, slot, before,
                  inFlight, historyVars>>
  BY DEF Activity, writerVars
<1>2. repo' \in [head : Nat, issues : SUBSET {1}, recent : BOOLEAN]
  <2>1. repo.head + 1 \in Nat /\ {1} \ repo.issues \in SUBSET {1}
    BY DEF StatusTypes
  <2> QED BY <2>1 DEF Activity, StatusTypes
<1>3. StatusTypes' /\ WorkBound' /\ SightBound'
  BY <1>1, <1>2 DEF StatusTypes, WorkBound, SightBound, historyVars
<1>4. EraBound' /\ ActivityKept'
  BY <1>1, SameEra DEF historyVars
<1> QED BY <1>3, <1>4

\* The invariant holds after every step.
LEMMA StatusStepInv == StatusInv /\ [GitHubNext]_githubVars => StatusInv'
<1> SUFFICES ASSUME StatusInv, [GitHubNext]_githubVars PROVE StatusInv'
    OBVIOUS
<1>1. CASE Pull
  BY <1>1, PullKeeps
<1>2. CASE Watch
  BY <1>2, WatchKeeps
<1>3. CASE \E s \in Slots : Enqueue(s)
  BY <1>3, EnqueueKeeps
<1>4. CASE \E s \in Slots : Observe(s)
  BY <1>4, ObserveKeeps
<1>5. CASE PutAnswers
  BY <1>5, PutKeeps
<1>6. CASE Verify
  BY <1>6, VerifyKeeps
<1>7. CASE WriterDone
  <2>1. StatusTypes' /\ WorkBound'
    BY <1>7 DEF WriterDone, writerVars, historyVars, StatusInv, StatusTypes, WorkBound
  <2>2. SightBound' /\ EraBound' /\ ActivityKept'
    BY <1>7, SameSight, SameEra DEF WriterDone, historyVars
  <2> QED BY <2>1, <2>2 DEF StatusInv
<1>8. CASE LatePut
  BY <1>8, LateKeeps
<1>9. CASE CycleDies
  BY <1>9, DiesKeeps
<1>10. CASE HumanEdits
  BY <1>10, EditKeeps
<1>11. CASE Activity
  BY <1>11, ActivityKeeps
<1>12. CASE UNCHANGED githubVars
  BY <1>12 DEF githubVars, StatusInv, StatusTypes, WorkBound, SightBound, EraBound, ActivityKept
<1> QED BY <1>1, <1>2, <1>3, <1>4, <1>5, <1>6, <1>7, <1>8, <1>9, <1>10, <1>11, <1>12
        DEF GitHubNext, Cycle

\* A PUT that is accepted is of the note as it is.
LEMMA AcceptedOfNote ==
  ASSUME StatusInv, NEW p \in Puts, Written(p), Accepts(p),
         (p = Put /\ step = "put") \/ p = inFlight
  PROVE  /\ note'.body = note.body /\ note.status \in Automated
         /\ note'.status \in {"planning", "running"}
<1>1. note'.status \in Proposable /\ note'.body = p.body
  BY WrittenBinds
<1>2. note.status \in Automated /\ note.body = p.body
  <2>1. CASE p = Put /\ step = "put"
    BY <2>1, PutReads DEF Accepts
  <2>2. CASE p = inFlight
    BY <2>2, NoneStatusAssumption DEF StatusInv, SightBound, Accepts
  <2> QED BY <2>1, <2>2
<1> QED BY <1>1, <1>2 DEF Proposable

\* What a step that is no Human's does to the note.
LEMMA StepSparesEdits ==
  ASSUME StatusInv, [GitHubNext]_githubVars, ~HumanEdits
  PROVE  /\ note'.body = note.body
         /\ note'.status # note.status =>
              note.status \in Automated /\ note'.status \in {"planning", "running"}
<1>1. CASE PutAnswers
  <2>1. step = "put" /\ ((Accepts(Put) /\ Written(Put)) \/ UNCHANGED note)
    BY <1>1 DEF PutAnswers
  <2> QED BY <2>1, PutReads, AcceptedOfNote
<1>2. CASE LatePut
  <2>1. inFlight \in Puts /\ ((Accepts(inFlight) /\ Written(inFlight)) \/ UNCHANGED note)
    BY <1>2 DEF LatePut, StatusInv, StatusTypes
  <2> QED BY <2>1, AcceptedOfNote
<1>3. CASE UNCHANGED note
  BY <1>3
<1> QED BY <1>1, <1>2, <1>3
        DEF GitHubNext, Cycle, Pull, Watch, Enqueue, Observe, Verify, WriterDone, CycleDies,
            Activity, githubVars

\* The row of a Project in stable accounts for all activity since it was first seen
\* there: what became known stays pending until a Human enters stable anew.
THEOREM ActivityStaysKept == GitHubSpec => []ActivityKept
<1>1. StatusInv => ActivityKept
  BY DEF StatusInv
<1> QED BY <1>1, StatusInitInv, StatusStepInv, PTL DEF GitHubSpec

\* No step but a Human's changes the body of the note or takes it out of a status
\* that is not watched: a PUT, also one that arrives late, is accepted under the
\* ETag of what was read alone.
THEOREM HumanEditsSurvive == GitHubSpec => EditsSurvive
<1>1. StatusInv /\ [GitHubNext]_githubVars
      => [~HumanEdits => /\ note'.body = note.body
                         /\ note'.status # note.status =>
                              note.status \in Automated /\ note'.status \in {"planning", "running"}
         ]_githubVars
  BY StepSparesEdits
<1> QED BY <1>1, StatusInitInv, StatusStepInv, PTL DEF GitHubSpec, EditsSurvive

-----------------------------------------------------------------------------
\* What this run of the writer leaves behind is owed to a failure, also what an
\* unanswered PUT may leave.
CarriedBound ==
  /\ outages \in Nat /\ (ambiguous => step = "verify")
  /\ step \in {"put", "verify"} => slot \in unhandled
  /\ step \in {"write", "put", "verify"} =>
       /\ Cardinality(Backlog \ unhandled) <= outages
       /\ ambiguous => Cardinality(Backlog \ unhandled) + 1 <= outages

RoomInv == CarriedBound /\ BacklogEarned

LEMMA SmallerBacklog ==
  ASSUME NEW S \in SUBSET Slots, NEW T \in SUBSET S
  PROVE  /\ Cardinality(S) \in Nat /\ Cardinality(T) \in Nat
         /\ Cardinality(T) <= Cardinality(S)
<1>1. IsFiniteSet(S)
  BY RoomAssumption, FS_Subset
<1> QED BY <1>1, FS_Subset, FS_CardinalityType

LEMMA OneMore ==
  ASSUME NEW S \in SUBSET Slots, NEW s \in Slots, NEW T \in SUBSET (S \cup {s})
  PROVE  Cardinality(T) \in Nat /\ Cardinality(T) <= Cardinality(S) + 1
<1>1. IsFiniteSet(S) /\ S \cup {s} \in SUBSET Slots
  BY RoomAssumption, FS_Subset
<1>2. /\ Cardinality(S) \in Nat /\ Cardinality(S \cup {s}) \in Nat
      /\ Cardinality(S \cup {s}) <= Cardinality(S) + 1
  <2>1. Cardinality(S) \in Nat
    BY <1>1, FS_CardinalityType
  <2>2. Cardinality(S \cup {s}) = IF s \in S THEN Cardinality(S) ELSE Cardinality(S) + 1
    BY <1>1, FS_AddElement
  <2> QED BY <2>1, <2>2
<1>3. Cardinality(T) \in Nat /\ Cardinality(T) <= Cardinality(S \cup {s})
  BY <1>1, SmallerBacklog
<1> QED BY <1>2, <1>3

LEMMA RoomInitInv == GitHubInit => RoomInv
<1> SUFFICES ASSUME GitHubInit PROVE RoomInv
    OBVIOUS
<1>1. Backlog = {} /\ Cardinality({}) = 0 /\ outages = 0
  BY FS_EmptySet DEF GitHubInit, Backlog
<1>2. BacklogEarned
  BY <1>1 DEF GitHubInit, BacklogEarned
<1>3. CarriedBound
  <2>1. Backlog \ unhandled = {}
    BY <1>1
  <2> QED BY <1>1, <2>1 DEF GitHubInit, CarriedBound
<1> QED BY <1>2, <1>3 DEF RoomInv

LEMMA RoomKeeps == StatusInv /\ RoomInv /\ [GitHubNext]_githubVars => RoomInv'
<1> SUFFICES ASSUME StatusInv, RoomInv, [GitHubNext]_githubVars PROVE RoomInv'
    OBVIOUS
<1>b. /\ Backlog \in SUBSET Slots /\ unhandled \in SUBSET Slots
      /\ Cardinality(Backlog) \in Nat /\ Cardinality(Backlog \ unhandled) \in Nat
      /\ outages \in Nat /\ outages + 1 \in Nat
  BY SmallerBacklog DEF Backlog, StatusInv, StatusTypes, RoomInv, CarriedBound
<1>c. Cardinality(Backlog) <= outages + (IF step \in {"write", "put", "verify"} THEN 1 ELSE 0)
  BY DEF RoomInv, BacklogEarned
<1> USE DEF RoomInv
<1>1. CASE UNCHANGED <<queue, unhandled, step, slot, ambiguous, outages>>
  BY <1>1 DEF CarriedBound, BacklogEarned, Backlog
<1>2. CASE step \in {"pull", "watch"} /\ step' \in {"watch", "enqueue"}
            /\ UNCHANGED <<queue, slot, ambiguous, outages>>
  <2>1. Backlog' = Backlog
    BY <1>2 DEF Backlog
  <2> QED BY <1>2, <1>c, <2>1 DEF CarriedBound, BacklogEarned
<1>3. ASSUME step \in {"watch", "enqueue"}, step' = "write", unhandled' = Backlog',
             outages' = outages, ambiguous' = ambiguous, Cardinality(Backlog') <= outages + 1
      PROVE  RoomInv'
  <2>1. Backlog' \ unhandled' = {} /\ Cardinality({}) = 0
    BY <1>3, FS_EmptySet
  <2>2. ~ambiguous'
    BY <1>3 DEF CarriedBound
  <2>3. CarriedBound'
    BY <1>b, <1>3, <2>1, <2>2 DEF CarriedBound
  <2> QED BY <1>3, <2>3 DEF BacklogEarned
<1>4. CASE Watch /\ step' = "write"
  <2>1. Backlog' = Backlog /\ unhandled' = Backlog' /\ UNCHANGED <<outages, ambiguous>> /\ step = "watch"
    BY <1>4 DEF Watch, StartWriter, Backlog, writerVars
  <2> QED BY <1>b, <1>c, <1>3, <1>4, <2>1
<1>5. ASSUME NEW s \in Slots, Enqueue(s) PROVE RoomInv'
  <2>1. /\ step = "enqueue" /\ step' = "write" /\ unhandled' = Backlog'
        /\ UNCHANGED <<outages, ambiguous>>
    BY <1>5 DEF Enqueue, Backlog, writerVars
  <2>2. Backlog' \in SUBSET (Backlog \cup {s})
    BY <1>5 DEF Enqueue, Backlog, StatusInv, StatusTypes
  <2>3. Cardinality(Backlog') <= Cardinality(Backlog) + 1 /\ Cardinality(Backlog') \in Nat
    BY <1>b, <2>2, OneMore
  <2> QED BY <1>b, <1>c, <1>3, <2>1, <2>3
<1>6. ASSUME NEW s \in unhandled, Finish(s), step \in {"write", "put", "verify"},
             outages' \in {outages, outages + 1}
      PROVE  RoomInv'
  <2>1. /\ Backlog' = Backlog \ {s} /\ unhandled' = unhandled \ {s} /\ step' = "write"
        /\ ~ambiguous'
    BY <1>b, <1>6 DEF Finish, LeaveSlot, Backlog, StatusInv, StatusTypes
  <2>2. Backlog' \ unhandled' = Backlog \ unhandled
    BY <1>6, <2>1
  <2>3. CarriedBound'
    BY <1>b, <1>6, <2>1, <2>2 DEF CarriedBound
  <2>4. Cardinality(Backlog') <= Cardinality(Backlog) /\ Cardinality(Backlog') \in Nat
    BY <1>b, <2>1, SmallerBacklog
  <2>5. BacklogEarned'
    BY <1>b, <1>c, <1>6, <2>1, <2>4 DEF BacklogEarned
  <2> QED BY <2>3, <2>5
<1>7. ASSUME NEW s \in unhandled, Keep(s), step \in {"write", "put", "verify"},
             \/ outages' = outages + 1
             \/ ambiguous /\ outages' = outages
      PROVE  RoomInv'
  <2>1. /\ Backlog' = Backlog /\ unhandled' = unhandled \ {s} /\ step' = "write"
        /\ ~ambiguous'
    BY <1>7 DEF Keep, LeaveSlot, Backlog
  <2>2. /\ Cardinality(Backlog' \ unhandled') <= Cardinality(Backlog \ unhandled) + 1
        /\ Cardinality(Backlog' \ unhandled') \in Nat
    <3>1. Backlog' \ unhandled' \in SUBSET ((Backlog \ unhandled) \cup {s})
          /\ Backlog \ unhandled \in SUBSET Slots /\ s \in Slots
      BY <1>b, <2>1
    <3> QED BY <3>1, OneMore
  <2>3. CarriedBound'
    BY <1>b, <1>7, <2>1, <2>2 DEF CarriedBound
  <2>4. BacklogEarned'
    BY <1>b, <1>c, <1>7, <2>1 DEF BacklogEarned
  <2> QED BY <2>3, <2>4
<1>8. ASSUME NEW s \in Slots, Observe(s) PROVE RoomInv'
  <2>1. s \in unhandled /\ step = "write"
    BY <1>8 DEF Observe
  <2>2. CASE step' = "put" /\ slot' = s /\ UNCHANGED <<queue, unhandled, ambiguous, outages>>
    <3>1. Backlog' = Backlog
      BY <2>2 DEF Backlog
    <3> QED BY <1>b, <1>c, <2>1, <2>2, <3>1 DEF CarriedBound, BacklogEarned
  <2> QED BY <1>6, <1>7, <1>8, <2>1, <2>2 DEF Observe, Outage
<1>9. CASE PutAnswers
  <2>1. step = "put" /\ slot \in unhandled /\ ~ambiguous
    BY <1>9 DEF PutAnswers, CarriedBound
  <2>2. CASE step' = "verify" /\ UNCHANGED <<queue, unhandled, slot, ambiguous, outages>>
    <3>1. Backlog' = Backlog
      BY <2>2 DEF Backlog
    <3> QED BY <1>b, <1>c, <2>1, <2>2, <3>1 DEF CarriedBound, BacklogEarned
  <2>3. CASE step' = "verify" /\ UNCHANGED <<queue, unhandled, slot>> /\ ambiguous' = TRUE
             /\ outages' = outages + 1
    <3>1. Backlog' = Backlog
      BY <2>3 DEF Backlog
    <3> QED BY <1>b, <1>c, <2>1, <2>3, <3>1 DEF CarriedBound, BacklogEarned
  <2>4. CASE Finish(slot) /\ outages' \in {outages, outages + 1}
    BY <1>6, <2>1, <2>4
  <2> QED BY <1>9, <2>2, <2>3, <2>4 DEF PutAnswers, Outage, writerVars
<1>10. CASE Verify
  <2>1. step = "verify" /\ slot \in unhandled
    BY <1>10 DEF Verify, CarriedBound
  <2> QED BY <1>6, <1>7, <1>10, <2>1 DEF Verify, Outage
<1>11. CASE WriterDone
  <2>1. Backlog' = Backlog /\ Backlog \ unhandled = Backlog /\ step = "write" /\ step' = "pull"
        /\ UNCHANGED <<slot, ambiguous, outages>>
    BY <1>11 DEF WriterDone, Backlog, writerVars
  <2>2. ~ambiguous /\ Cardinality(Backlog) <= outages
    BY <1>b, <2>1 DEF CarriedBound
  <2> QED BY <1>b, <2>1, <2>2 DEF CarriedBound, BacklogEarned
<1>12. CASE CycleDies
  <2>1. /\ Backlog' = Backlog /\ step' = "pull" /\ ~ambiguous' /\ outages' = outages + 1
    BY <1>12 DEF CycleDies, Outage, Backlog
  <2> QED BY <1>b, <1>c, <2>1 DEF CarriedBound, BacklogEarned
<1> QED BY <1>1, <1>2, <1>4, <1>5, <1>8, <1>9, <1>10, <1>11, <1>12
        DEF GitHubNext, Cycle, Pull, Watch, StartWriter, LatePut, HumanEdits, Activity, githubVars,
            writerVars

\* Requests pile up by failures alone.
THEOREM BacklogStaysEarned == GitHubSpec => []BacklogEarned
<1>1. RoomInv => BacklogEarned
  BY DEF RoomInv
<1> QED BY <1>1, StatusInitInv, StatusStepInv, RoomInitInv, RoomKeeps, PTL DEF GitHubSpec

\* With room for the failures and one more, no proposal is ever held up.
THEOREM ProposalsFindRoom == GitHubSpec => []RoomLeft
<1>1. outages \in 0..MaxOutages /\ BacklogEarned => RoomLeft
  <2> SUFFICES ASSUME outages \in 0..MaxOutages, BacklogEarned, step = "enqueue",
                      \A s \in Slots : queue[s] # None
               PROVE  FALSE
      BY DEF RoomLeft
  <2>1. Backlog = Slots /\ Cardinality(Backlog) <= outages
    BY RoomAssumption, SmallerBacklog DEF Backlog, BacklogEarned
  <2>2. Cardinality(Slots) \in Nat
    BY RoomAssumption, FS_CardinalityType
  <2> QED BY <2>1, <2>2, RoomAssumption
<1>2. GitHubInit => outages \in 0..MaxOutages
  BY RoomAssumption DEF GitHubInit
<1>3. outages \in 0..MaxOutages /\ [GitHubNext]_githubVars => (outages \in 0..MaxOutages)'
  BY RoomAssumption
     DEF GitHubNext, Cycle, Pull, Watch, Enqueue, Observe, PutAnswers, Verify, WriterDone, LatePut,
         CycleDies, HumanEdits, Activity, Outage, githubVars
<1> QED BY <1>1, <1>2, <1>3, BacklogStaysEarned, PTL DEF GitHubSpec
====
