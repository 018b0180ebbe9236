---- MODULE KnowledgeDispatch ----
(***************************************************************************)
(* knowledge_production: the two batch dispatchers, in the order in which  *)
(* the recurring systemd cycle runs them (executor-prepare, transport,     *)
(* executor-finalize; each unit Requires= its predecessor).  A dispatcher  *)
(* walks the mutations in digest order and stops at the first one that     *)
(* raises, which also keeps the later units of the cycle from starting.    *)
(*                                                                         *)
(* One mutation at a time is handled by the actions of ProductionExecution.*)
(***************************************************************************)
EXTENDS ProductionExecution, Sequences

CONSTANTS Order,             \* the mutations sorted by digest
          Executor, Worker,  \* the processes of the two service accounts
          MaxItems           \* --max-items

ASSUME OrderAssumption == /\ Order \in Seq(Mutations)
                          /\ \A m \in Mutations : \E i \in DOMAIN Order : Order[i] = m
ASSUME AccountAssumption == Executors = {Executor} /\ Workers = {Worker}
ASSUME MaxItemsAssumption == MaxItems \in Nat \ {0}

VARIABLES stage,     \* the unit of the cycle that is running
          todo,      \* its directory listing: the mutations not yet looked at
          processed  \* how many of them it advanced

cycle == <<stage, todo, processed>>
dispatchVars == <<vars, cycle>>

Units == <<"prepare", "transport", "finalize">>
Process == IF stage = "transport" THEN Worker ELSE Executor

\* _digest_files: the reviews, or the transport requests, sorted by digest.
Listing(unit) ==
  SelectSeq(Order, LAMBDA m : IF unit = "transport" THEN m \in request
                              ELSE review[m] # "none")

DispatchInit == Init /\ stage = "waiting" /\ todo = <<>> /\ processed = 0

Enter(unit) == /\ stage' = unit
               /\ todo' = IF unit = "waiting" THEN <<>> ELSE Listing(unit)
               /\ processed' = 0

\* obsidian-pre-review.timer starts the next cycle.
StartCycle == stage = "waiting" /\ Enter("prepare") /\ UNCHANGED vars

\* A dispatcher that is through its listing, or its budget, exits with 0 ...
FinishUnit ==
  /\ stage # "waiting" /\ pc[Process] = "idle"
  /\ todo = <<>> \/ processed = MaxItems
  /\ Enter(CASE stage = "prepare" -> "transport"
             [] stage = "transport" -> "finalize"
             [] stage = "finalize" -> "waiting")
  /\ UNCHANGED vars

\* ... and one that raises ends the cycle.
Fails == Enter("waiting")
Continues(n) == todo' = Tail(todo) /\ processed' = processed + n /\ UNCHANGED stage

Looking(unit) == /\ stage = unit /\ pc[Process] = "idle"
                 /\ todo # <<>> /\ processed < MaxItems

StartsWith(m) == todo # <<>> /\ Head(todo) = m

\* Mutant: a mutation whose request exists is skipped in both executor units.
SkipRequested ==
  /\ Looking("prepare") \/ Looking("finalize")
  /\ \E m \in Mutations : StartsWith(m) /\ (review[m] # "approve" \/ m \in receipt \cup request)
  /\ Continues(0) /\ UNCHANGED vars

\* Declined and receipted mutations, and transports with a result, are done.
SkipDone ==
  /\ \E m \in Mutations : StartsWith(m) /\
       \/ /\ Looking("prepare") \/ Looking("finalize")
          /\ review[m] # "approve" \/ m \in receipt
       \/ Looking("transport") /\ result[m] # "none"
  /\ Continues(0) /\ UNCHANGED vars

\* The dispatcher calls into production_orchestrator for the next mutation.
CallExecutor ==
  /\ Looking("prepare") \/ Looking("finalize")
  /\ \E m \in Mutations : /\ StartsWith(m) /\ review[m] = "approve" /\ m \notin receipt
                          /\ Advance(Executor, m)
  /\ UNCHANGED cycle

CallTransport ==
  /\ Looking("transport")
  /\ \E m \in Mutations :
       /\ StartsWith(m) /\ result[m] = "none"
       /\ \/ Transport(Worker, m) /\ UNCHANGED cycle
          \/ /\ m \in localRecovery \/ recovery[m] # "none"
             /\ Fails /\ UNCHANGED vars

\* The status the executor call returned: whatever is not on its way raises,
\* and so does a preparation that was refused.
ExecutorReturns ==
  IF Status(job[Executor])' \in {"completed", "transport_pending"}
  THEN Continues(1) ELSE Fails

TransportReturns ==
  IF result'[job[Worker]] = "created_verified" THEN Continues(1) ELSE Fails

RunExecutor == /\ stage \in {"prepare", "finalize"} /\ ExecutorStep(Executor)
               /\ IF pc'[Executor] = "idle" THEN ExecutorReturns ELSE UNCHANGED cycle

RunTransport == /\ stage = "transport" /\ WorkerStep(Worker)
                /\ IF pc'[Worker] = "idle" THEN TransportReturns ELSE UNCHANGED cycle

Crash == Interrupt(Process) /\ Fails

CycleStep == \/ StartCycle \/ FinishUnit \/ SkipDone
             \/ CallExecutor \/ CallTransport \/ RunExecutor \/ RunTransport

\* The Humans, the server and the pull of the mirror go on meanwhile.
Environment ==
  /\ \/ \E m \in Mutations :
          \/ \E d \in Decisions : Decide(m, d)
          \/ \E d \in Recoveries : RecordRecovery(m, d)
          \/ RecordLocalRecovery(m) \/ LatePut(m)
     \/ \E t \in Targets : Pull(t) \/ \E c \in Contents \cup {Absent} : HumanEdit(t, c)
  /\ UNCHANGED cycle

DispatchNext == CycleStep \/ Crash \/ Environment

\* The timer fires again and again and a started unit runs on; nothing makes a
\* Human act, the mirror refresh succeed or a late request arrive.
DispatchSpec == DispatchInit /\ [][DispatchNext]_dispatchVars /\ WF_dispatchVars(CycleStep)

-----------------------------------------------------------------------------
InCall(p) == pc[p] # "idle"

\* The units of the cycle keep the two service accounts apart: a call under way is
\* of the unit that runs, about the mutation its listing has come to, and within
\* its budget, however units fail or are killed.
UnitsAlone ==
  /\ \A p \in Procs : InCall(p) => /\ stage # "waiting" /\ p = Process
                                   /\ StartsWith(job[p]) /\ processed < MaxItems
  /\ processed <= MaxItems

\* No dispatcher finds a mutation locked: nobody holds its flock but the call under
\* way, so a unit that died or raised leaves nothing that its successor, which has
\* no timeout on the lock, could wait for.
NeverLockedOut == \A m \in Mutations : lock[m] # Nobody => InCall(lock[m]) /\ job[lock[m]] = m

\* m needs a Human: reconciliation does not go on by itself, or the mirror
\* already has its target and no intent can be prepared.
Stuck(m) == /\ review[m] = "approve"
            /\ \/ Status(m) \in {"conflict", "remote_effect_observed_without_receipt",
                                 "resolved_abandoned", "resolved_effect_adopted"}
               \/ m \notin intent /\ mirror[Target[m]] # Absent

\* The executor units stop the cycle for nothing that would go on by itself: where
\* they raise, a Human is needed, whatever the server, the mirror and the Humans did
\* between the reconciliation and the last step of the call.
StopsForHuman ==
  [][\A m \in Mutations :
       RunExecutor /\ stage' = "waiting" /\ StartsWith(m) => Stuck(m)']_dispatchVars

Earlier(m) == {Order[i] : i \in 1..(CHOOSE j \in DOMAIN Order : Order[j] = m)}

\* Every approved mutation gets its receipt, whatever fails on the way, unless
\* it or a mutation of a smaller digest needs a Human.
ApprovedSettles ==
  \A m \in Mutations :
    review[m] = "approve" ~> (m \in receipt \/ \E k \in Earlier(m) : Stuck(k))

\* What the dispatcher's error says, "executor dispatcher requires Human
\* recovery": it does not stop for a mutation whose recovery is recorded.
StopsOnlyForRecovery ==
  [][\A m \in Mutations :
       stage \in {"prepare", "finalize"} /\ stage' = "waiting" /\ StartsWith(m)
       => recovery[m] = "none"]_dispatchVars
====
