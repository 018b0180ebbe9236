---- MODULE OperationQueue ----
(***************************************************************************)
(* The administrator's operation queue: admin_operation_queue and those    *)
(* who use it.  In the operator service a listener thread accepts requests *)
(* and shows receipts while a worker thread claims, executes and settles   *)
(* them; while the service is down, a root tool lets a Human acknowledge   *)
(* an operation of unknown outcome.  Everything is a file of its own,      *)
(* stored once, and active.json marks the one open request.                *)
(*                                                                         *)
(* All of them take one flock without waiting: who finds it taken gives    *)
(* up.  A store that fails or dies leaves nothing, a partial file or the   *)
(* whole record.                                                           *)
(***************************************************************************)
EXTENDS Naturals, FiniteSets

CONSTANTS Requests,
          Reviewed,     \* run_once requests the tool was reviewed for
          MaxRecords,   \* MAX_AUDIT_ENTRIES
          MaxFaults,    \* bound: failed stores and deaths
          MaxLost       \* bound: losses of active.json

Threads == {"listener", "worker", "tool"}

ASSUME RequestAssumption == IsFiniteSet(Requests) /\ Reviewed \subseteq Requests
ASSUME MarkerAssumption == Requests \cap {"none", "torn"} = {}
ASSUME QueueBoundAssumption == MaxRecords \in Nat /\ MaxFaults \in Nat /\ MaxLost \in Nat

VARIABLES active,       \* active.json: the request it names
          request,      \* request-<id>.json
          processing,   \* processing-<id>.json: the worker's claim
          result,       \* result-<id>.json; "completed" is systemd_job_accepted too
          evidence,     \* manual-evidence-<id>.json
          proof,        \* manual-reconcile-<id>.json
          lock, pc, at, \* the flock; each thread: its place and its request
          good,         \* what the executor returned to the worker
          up, failed,   \* the service runs; its _worker_failure is set
          executed,     \* history: how often the executor was called
          faults, lost

records == <<active, request, processing, result, evidence, proof>>
threads == <<lock, pc, at>>
service == <<good, up, failed, executed>>
budget == <<faults, lost>>
vars == <<records, threads, service, budget>>

Init ==
  /\ active = "none"
  /\ request = [r \in Requests |-> "none"] /\ processing = request
  /\ result = request /\ evidence = request /\ proof = request
  /\ lock = "nobody" /\ pc = [t \in Threads |-> "idle"]
  /\ at \in [Threads -> Requests]
  /\ good = FALSE /\ up = TRUE /\ failed = FALSE
  /\ executed = [r \in Requests |-> 0]
  /\ faults = 0 /\ lost = 0

-----------------------------------------------------------------------------
\* _lock and _close.

Enter(t, r, step) == /\ lock = "nobody" /\ lock' = t
                     /\ pc' = [pc EXCEPT ![t] = step] /\ at' = [at EXCEPT ![t] = r]

Goto(t, step) == pc' = [pc EXCEPT ![t] = step] /\ UNCHANGED <<lock, at>>

Leave(t, step) == /\ lock' = IF lock = t THEN "nobody" ELSE lock
                  /\ pc' = [pc EXCEPT ![t] = step] /\ UNCHANGED at

Write(record, r, v) == record' = [record EXCEPT ![r] = v]

Existing(record) == {r \in Requests : record[r] # "none"}

\* The files of the directory, admission.lock among them.
Entries == 1 + (IF active = "none" THEN 0 ELSE 1)
             + Cardinality(Existing(request)) + Cardinality(Existing(processing))
             + Cardinality(Existing(result)) + Cardinality(Existing(evidence))
             + Cardinality(Existing(proof))

\* _manual_proof returns a record; the bytes it binds never change.
Acknowledged(r) == proof[r] = "whole" /\ evidence[r] = "whole"

\* _prior_work_fully_settled
PriorSettled ==
  /\ Entries <= MaxRecords
  /\ Existing(processing) \cup Existing(result) \cup Existing(evidence) \cup Existing(proof)
       \subseteq Existing(request)
  /\ Existing(evidence) = Existing(proof)
  /\ \A r \in Existing(request) :
       /\ request[r] = "whole" /\ processing[r] = "whole"
       /\ \/ result[r] = "indeterminate" /\ Acknowledged(r)
          \/ result[r] = "completed" /\ proof[r] = "none"

\* Mutant: the receipt of an unknown outcome is tied to the marker alone.
StateByMarker(r) ==
  IF \/ request[r] # "whole" \/ "torn" \in {active, processing[r], result[r]}
     \/ result[r] # "none" /\ processing[r] = "none"
     \/ result[r] \in {"none", "indeterminate"} /\ active # r
  THEN "unreadable"
  ELSE IF result[r] = "indeterminate" THEN "indeterminate"
  ELSE IF result[r] = "completed" THEN IF active = r THEN "completed_pending_cleanup" ELSE "completed"
  ELSE IF processing[r] = "whole" THEN "processing" ELSE "accepted"

\* _state: what a receipt says of a request, or that reading it raises.
State(r) ==
  IF \/ request[r] # "whole" \/ "torn" \in {active, processing[r], result[r]}
     \/ result[r] # "none" /\ processing[r] = "none"
     \/ result[r] = "indeterminate" /\ active # r /\ ~Acknowledged(r)
     \/ result[r] = "none" /\ active # r
  THEN "unreadable"
  ELSE IF result[r] = "indeterminate" THEN "indeterminate"
  ELSE IF result[r] = "completed" THEN IF active = r THEN "completed_pending_cleanup" ELSE "completed"
  ELSE IF processing[r] = "whole" THEN "processing" ELSE "accepted"

-----------------------------------------------------------------------------
\* The listener.  A receipt, a repeated or a refused submission only holds the
\* lock for a while.

Look(r) ==
  /\ up /\ pc["listener"] = "idle" /\ Enter("listener", r, "look")
  /\ UNCHANGED <<records, service, budget>>

LookDone ==
  /\ pc["listener"] = "look" /\ Leave("listener", "idle")
  /\ UNCHANGED <<records, service, budget>>

\* The service takes a submission while its worker is well, ...
Receive(r) ==
  /\ up /\ ~failed /\ pc["listener"] = "idle"
  /\ pc' = [pc EXCEPT !["listener"] = "submit"] /\ at' = [at EXCEPT !["listener"] = r]
  /\ UNCHANGED <<records, lock, service, budget>>

Acceptable(r) == request[r] = "none" /\ result[r] = "none" /\ active = "none" /\ PriorSettled

\* ... which may have changed when submit looks at the records.
Submit == LET r == at["listener"] IN
  /\ pc["listener"] = "submit"
  /\ \/ lock = "nobody" /\ Acceptable(r) /\ Enter("listener", r, "marker")
     \/ lock = "nobody" /\ ~Acceptable(r) /\ Enter("listener", r, "look")
     \/ lock # "nobody" /\ Goto("listener", "idle")
  /\ UNCHANGED <<records, service, budget>>

StoreMarker ==
  /\ pc["listener"] = "marker" /\ Goto("listener", "request")
  /\ active' = at["listener"]
  /\ UNCHANGED <<request, processing, result, evidence, proof, service, budget>>

StoreRequest ==
  /\ pc["listener"] = "request" /\ Leave("listener", "idle")
  /\ Write(request, at["listener"], "whole")
  /\ UNCHANGED <<active, processing, result, evidence, proof, service, budget>>

-----------------------------------------------------------------------------
\* The worker, at most one call of work_once at a time.

Claimable(r) == active = r /\ request[r] = "whole" /\ processing[r] = "none" /\ result[r] = "none"

\* Mutants: a claim that exists is taken up again; a failed worker claims no more.
ClaimAgain(r) ==
  /\ up /\ pc["worker"] = "idle" /\ Enter("worker", r, "claim")
  /\ active = r /\ request[r] = "whole" /\ result[r] = "none"
  /\ UNCHANGED <<records, service, budget>>
ClaimIfWell(r) ==
  /\ up /\ ~failed /\ pc["worker"] = "idle" /\ Enter("worker", r, "claim")
  /\ Claimable(r)
  /\ UNCHANGED <<records, service, budget>>

\* claim_for_worker
Claim(r) ==
  /\ up /\ pc["worker"] = "idle" /\ Enter("worker", r, "claim")
  /\ Claimable(r)
  /\ UNCHANGED <<records, service, budget>>

\* Without a marker there is nothing to do; any other refusal is a failure.
ClaimRefused ==
  /\ up /\ ~failed /\ pc["worker"] = "idle" /\ lock = "nobody"
  /\ active # "none" /\ \A r \in Requests : ~Claimable(r)
  /\ failed' = TRUE
  /\ UNCHANGED <<records, threads, good, up, executed, budget>>

StoreClaim ==
  /\ pc["worker"] = "claim" /\ Leave("worker", "execute")
  /\ Write(processing, at["worker"], "whole")
  /\ UNCHANGED <<active, request, result, evidence, proof, service, budget>>

\* The executor: anything but a verified effect is FALSE.
Execute ==
  /\ pc["worker"] = "execute" /\ Goto("worker", "settle")
  /\ good' \in BOOLEAN
  /\ executed' = [executed EXCEPT ![at["worker"]] = @ + 1]
  /\ UNCHANGED <<records, up, failed, budget>>

\* settle
Settle == LET r == at["worker"] IN
  /\ pc["worker"] = "settle" /\ lock = "nobody"
  /\ \/ /\ active = r /\ processing[r] = "whole" /\ result[r] = "none"
        /\ Enter("worker", r, "result") /\ UNCHANGED failed
     \/ /\ active # r \/ processing[r] # "whole" \/ result[r] # "none"
        /\ Leave("worker", "idle") /\ failed' = TRUE
  /\ UNCHANGED <<records, good, up, executed, budget>>

\* admission_lock_busy, which process_pending_once takes for an idle round.
SettleBusy ==
  /\ pc["worker"] = "settle" /\ lock # "nobody"
  /\ Leave("worker", "idle")
  /\ UNCHANGED <<records, service, budget>>

StoreResult ==
  /\ pc["worker"] = "result"
  /\ Write(result, at["worker"], IF good THEN "completed" ELSE "indeterminate")
  /\ \/ good /\ Goto("worker", "unmark") /\ UNCHANGED failed
     \/ ~good /\ Leave("worker", "idle") /\ failed' = TRUE
  /\ UNCHANGED <<active, request, processing, evidence, proof, good, up, executed, budget>>

\* _unlink of active.json, for the worker and for the tool; it raises without it.
Unmark(t) ==
  /\ pc[t] = "unmark" /\ Leave(t, "idle")
  /\ active' = "none"
  /\ failed' = IF t = "worker" THEN active = "none" ELSE failed
  /\ UNCHANGED <<request, processing, result, evidence, proof, good, up, executed, budget>>

-----------------------------------------------------------------------------
\* reconcile_admin_operator_queue, a root tool for the service's down time.

Unknown(r) == request[r] = "whole" /\ processing[r] = "whole" /\ result[r] = "indeterminate"

\* require_record_evidence
ToolStart(r) ==
  /\ ~up /\ pc["tool"] = "idle" /\ lock = "nobody"
  /\ Unknown(r) /\ active # "torn" /\ (active = r \/ Acknowledged(r))
  /\ pc' = [pc EXCEPT !["tool"] = "attest"] /\ at' = [at EXCEPT !["tool"] = r]
  /\ UNCHANGED <<records, lock, service, budget>>

\* The evidence is stored, or found from an earlier attempt.
Attest == LET r == at["tool"] IN
  /\ pc["tool"] = "attest" /\ lock = "nobody"
  /\ \/ evidence[r] = "none" /\ active = r /\ Enter("tool", r, "evidence")
     \/ evidence[r] = "whole" /\ Goto("tool", "reconcile")
     \/ /\ evidence[r] = "torn" \/ (evidence[r] = "none" /\ active # r)
        /\ Goto("tool", "idle")
  /\ UNCHANGED <<records, service, budget>>

StoreEvidence ==
  /\ pc["tool"] = "evidence" /\ Leave("tool", "reconcile")
  /\ Write(evidence, at["tool"], "whole")
  /\ UNCHANGED <<active, request, processing, result, proof, service, budget>>

\* manually_reconcile_unknown, up to the proof
Reconcile == LET r == at["tool"] IN
  /\ pc["tool"] = "reconcile" /\ lock = "nobody"
  /\ \/ /\ Unknown(r) /\ evidence[r] = "whole" /\ proof[r] = "none" /\ active = r
        /\ Enter("tool", r, "proof")
     \/ /\ Unknown(r) /\ evidence[r] = "whole" /\ proof[r] = "whole" /\ active \in {"none", r}
        /\ Enter("tool", r, "recheck")
     \/ /\ \/ ~Unknown(r) \/ evidence[r] # "whole" \/ proof[r] = "torn"
           \/ proof[r] = "none" /\ active # r
           \/ active \notin {"none", r}
        /\ Goto("tool", "idle")
  /\ UNCHANGED <<records, service, budget>>

StoreProof ==
  /\ pc["tool"] = "proof" /\ Goto("tool", "recheck")
  /\ Write(proof, at["tool"], "whole")
  /\ UNCHANGED <<active, request, processing, result, evidence, service, budget>>

\* The whole history is read again before the marker goes.
Recheck ==
  /\ pc["tool"] = "recheck"
  /\ \/ PriorSettled /\ active = at["tool"] /\ Goto("tool", "unmark")
     \/ (~PriorSettled \/ active # at["tool"]) /\ Leave("tool", "idle")
  /\ UNCHANGED <<records, service, budget>>

\* The tool gives up when it finds the lock taken.
ToolBusy ==
  /\ pc["tool"] \in {"attest", "reconcile"} /\ lock # "nobody"
  /\ Goto("tool", "idle")
  /\ UNCHANGED <<records, service, budget>>

-----------------------------------------------------------------------------
\* What a store of t that is cut off may leave behind.
Cut(t) ==
  \/ pc[t] = "marker" /\ active' \in {"none", "torn", at[t]}
     /\ UNCHANGED <<request, processing, result, evidence, proof>>
  \/ pc[t] = "unmark" /\ active' \in {"none", active}
     /\ UNCHANGED <<request, processing, result, evidence, proof>>
  \/ pc[t] = "request" /\ \E v \in {"none", "torn", "whole"} : Write(request, at[t], v)
     /\ UNCHANGED <<active, processing, result, evidence, proof>>
  \/ pc[t] = "claim" /\ \E v \in {"none", "torn", "whole"} : Write(processing, at[t], v)
     /\ UNCHANGED <<active, request, result, evidence, proof>>
  \/ pc[t] = "result"
     /\ \E v \in {"none", "torn", IF good THEN "completed" ELSE "indeterminate"} : Write(result, at[t], v)
     /\ UNCHANGED <<active, request, processing, evidence, proof>>
  \/ pc[t] = "evidence" /\ \E v \in {"none", "torn", "whole"} : Write(evidence, at[t], v)
     /\ UNCHANGED <<active, request, processing, result, proof>>
  \/ pc[t] = "proof" /\ \E v \in {"none", "torn", "whole"} : Write(proof, at[t], v)
     /\ UNCHANGED <<active, request, processing, result, evidence>>
  \/ pc[t] \in {"idle", "look", "submit", "execute", "settle", "attest", "reconcile", "recheck"}
     /\ UNCHANGED records

\* A store raises; the thread gives up, and the worker has failed.
StoreFails(t) ==
  /\ faults < MaxFaults /\ faults' = faults + 1
  /\ lock = t /\ pc[t] \notin {"look", "recheck"} /\ Cut(t) /\ Leave(t, "idle")
  /\ failed' = (failed \/ t = "worker")
  /\ UNCHANGED <<good, up, executed, lost>>

\* The service dies, and with it both threads.
Crash ==
  /\ up /\ up' = FALSE /\ faults < MaxFaults /\ faults' = faults + 1
  /\ \/ \E t \in {"listener", "worker"} : lock = t /\ Cut(t) /\ lock' = "nobody"
     \/ lock \notin {"listener", "worker"} /\ UNCHANGED <<records, lock>>
  /\ pc' = [t \in Threads |-> IF t = "tool" THEN pc[t] ELSE "idle"]
  /\ UNCHANGED <<at, good, failed, executed, lost>>

ToolDies ==
  /\ pc["tool"] # "idle" /\ faults < MaxFaults /\ faults' = faults + 1
  /\ Cut("tool") /\ Leave("tool", "idle")
  /\ UNCHANGED <<service, lost>>

\* A stop waits for the worker; a start forgets the last failure.
Stop ==
  /\ up /\ up' = FALSE /\ pc["listener"] = "idle" /\ pc["worker"] = "idle"
  /\ UNCHANGED <<records, threads, good, failed, executed, budget>>

Start ==
  /\ ~up /\ up' = TRUE /\ failed' = FALSE
  /\ UNCHANGED <<records, threads, good, executed, budget>>

\* Somebody removes active.json, against which submit guards itself.
LoseMarker ==
  /\ active # "none" /\ lost < MaxLost /\ lost' = lost + 1
  /\ active' = "none"
  /\ UNCHANGED <<request, processing, result, evidence, proof, threads, service, faults>>

ListenerStep == LookDone \/ Submit \/ StoreMarker \/ StoreRequest
WorkerStep == StoreClaim \/ Execute \/ Settle \/ SettleBusy \/ StoreResult \/ Unmark("worker")
ToolStep == Attest \/ StoreEvidence \/ Reconcile \/ StoreProof \/ Recheck \/ ToolBusy \/ Unmark("tool")

Next ==
  \/ \E r \in Requests : Look(r) \/ Receive(r) \/ Claim(r)
  \/ \E r \in Reviewed : ToolStart(r)
  \/ ClaimRefused \/ ListenerStep \/ WorkerStep \/ ToolStep
  \/ \E t \in Threads : StoreFails(t)
  \/ Crash \/ ToolDies \/ Stop \/ Start \/ LoseMarker

\* The threads of a running service go on.  The worker comes back every quarter
\* of a second, and clients leave the lock free in between, so that it is not
\* refused for ever.
Spec == /\ Init /\ [][Next]_vars
        /\ WF_vars(ListenerStep) /\ WF_vars(WorkerStep) /\ WF_vars(ToolStep)
        /\ SF_vars(\E r \in Requests : Claim(r))

-----------------------------------------------------------------------------

\* Every variable has the shape the actions above assume.
TypeOK ==
  /\ active \in Requests \cup {"none", "torn"}
  /\ request \in [Requests -> {"none", "torn", "whole"}]
  /\ processing \in [Requests -> {"none", "torn", "whole"}]
  /\ result \in [Requests -> {"none", "torn", "completed", "indeterminate"}]
  /\ evidence \in [Requests -> {"none", "torn", "whole"}]
  /\ proof \in [Requests -> {"none", "torn", "whole"}]
  /\ lock \in Threads \cup {"nobody"}
  /\ pc \in [Threads -> {"idle", "look", "submit", "marker", "request", "claim", "execute", "settle", "result",
                         "unmark", "attest", "evidence", "reconcile", "proof", "recheck"}]
  /\ at \in [Threads -> Requests]
  /\ good \in BOOLEAN /\ up \in BOOLEAN /\ failed \in BOOLEAN
  /\ executed \in [Requests -> Nat]
  /\ faults \in Nat /\ lost \in Nat

\* The records implement SingleOperation: whatever fails, dies or is lost, no
\* operation is tried twice, none beside one that is not closed, and an unknown
\* outcome is closed by an acknowledgement only.
Phase(r) ==
  IF proof[r] = "whole" THEN "acknowledged"
  ELSE IF result[r] = "completed" THEN "done"
  ELSE IF result[r] = "indeterminate" THEN "unknown"
  ELSE IF executed[r] # 0 THEN "tried"
  ELSE IF request[r] = "whole" THEN "accepted" ELSE "new"

Single == INSTANCE SingleOperation WITH
            phase <- [r \in Requests |-> Phase(r)], effects <- executed

ImplementsSingleOperation == Single!Spec

\* A final receipt stands: later requests, crashes, restarts and the
\* acknowledgement change nothing about it, though a partial or lost marker may
\* make it unreadable.
ReceiptsStand ==
  [][\A r \in Requests : State(r) \in {"completed", "indeterminate"} =>
       \/ State(r)' = State(r)
       \/ State(r)' = "unreadable" /\ (active' = "torn" \/ lost' # lost)]_vars

\* An accepted operation is claimed in a running service, also by a worker that
\* has failed before.
AcceptedRuns ==
  \A r \in Requests : (up /\ State(r) = "accepted") ~> (State(r) # "accepted" \/ ~up)

\* "Unknown, failed, interrupted or throwing callbacks are conservatively
\* indeterminate" (docs/admin-control-durable-queue.md:72): without any fault, an
\* operation the worker has executed and left has a result.
ExecutedHasResult ==
  faults = 0 /\ lost = 0 =>
    \A r \in Requests :
      executed[r] # 0 /\ ~(pc["worker"] # "idle" /\ at["worker"] = r) => result[r] # "none"
====
