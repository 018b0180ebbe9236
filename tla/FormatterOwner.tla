---- MODULE FormatterOwner ----
(***************************************************************************)
(* vault_format_run_drain, _run_ledger, _owner_coordination, _signed_run   *)
(* and the reservations of _writer: the Owner registers, claims and stops  *)
(* signed runs, a Worker performs the effect of one.                       *)
(*                                                                         *)
(* Both hold the flock of effect-drain.lock while they do; the Worker does *)
(* not wait for it.  The Owner's ledger is a database that commits durably *)
(* (synchronous=FULL).  The other files are names and bytes that a power   *)
(* loss takes away unless they were synced; those of the authority root    *)
(* belong to the Owner, those of the receipt root to the Worker.           *)
(***************************************************************************)
EXTENDS Naturals

CONSTANTS Runs,         \* run ids with a signed grant, its operation id and one note
          EffectWorkers,
          Owner,
          Unlocked,     \* a free lock
          NoRun,        \* an idle process
          MaxFailures   \* bound: failing calls, deaths and power losses

VARIABLES ledger,     \* run_intents.status, "none" without a row
          marker,     \* <run>.revoked in the authority root
          claimed,    \* recurring-run-<run>.claimed in the receipt root
          reserved,   \* operation-<operation>.marker in the receipt root
          holder,     \* effect-drain.lock
          at, running,   \* each process: its place in the code, its run
          reconciled, \* _boot_reconciled of the Owner's process
          stopped,    \* history: runs whose stop was acknowledged
          leased,     \* history: effect leases entered per run
          sent,       \* history: PUTs sent per run
          failures

ownerVars == <<ledger, marker, claimed, reserved, holder, at, running, reconciled,
               stopped, leased, sent, failures>>

Processes == EffectWorkers \cup {Owner}

ASSUME OwnerAssumption ==
  /\ Owner \notin EffectWorkers /\ Unlocked \notin Processes /\ NoRun \notin Runs
  /\ MaxFailures \in Nat

\* What is written to the marker, and whether bytes and name are on disk.
NoMarker == [text |-> "none", data |-> TRUE, entry |-> TRUE]
NewMarker == [text |-> "empty", data |-> FALSE, entry |-> FALSE]
Durable == [text |-> "whole", data |-> TRUE, entry |-> TRUE]

OwnerInit ==
  /\ ledger = [r \in Runs |-> "none"] /\ marker = [r \in Runs |-> NoMarker]
  /\ claimed = [r \in Runs |-> "none"] /\ reserved = [r \in Runs |-> "none"]
  /\ holder = Unlocked /\ at = [p \in Processes |-> "idle"]
  /\ running = [p \in Processes |-> NoRun] /\ reconciled = FALSE
  /\ stopped = {} /\ leased = [r \in Runs |-> 0] /\ sent = [r \in Runs |-> 0]
  /\ failures = 0

\* SignedRunVerifier: any file of that name denies the run.
Signed(r) == marker[r].text = "none"

files == <<marker, claimed, reserved>>
history == <<stopped, leased, sent>>

Lock(p, r, step) == /\ at[p] = "idle" /\ holder = Unlocked /\ holder' = p
                    /\ at' = [at EXCEPT ![p] = step]
                    /\ running' = [running EXCEPT ![p] = r]

Proceed(p, from, to) == /\ at[p] = from /\ at' = [at EXCEPT ![p] = to]
                        /\ UNCHANGED <<holder, running>>

\* Closing the file releases the flock, after success, denial or exception.
Unlock(p) == /\ holder' = Unlocked /\ at' = [at EXCEPT ![p] = "idle"]
             /\ running' = [running EXCEPT ![p] = NoRun]

-----------------------------------------------------------------------------
\* mark_unconfirmed_after_restart: by a starting session, or by owner.recover.
Recover ==
  /\ holder = Unlocked /\ reconciled' = TRUE
  /\ ledger' = [r \in Runs |-> IF ledger[r] = "claimed" THEN "unconfirmed" ELSE ledger[r]]
  /\ UNCHANGED <<files, holder, at, running, history, failures>>

RegisterSigned(r) ==
  /\ holder = Unlocked /\ reconciled /\ Signed(r) /\ ledger[r] = "none"
  /\ ledger' = [ledger EXCEPT ![r] = "approved"]
  /\ UNCHANGED <<files, holder, at, running, reconciled, history, failures>>

ClaimSigned(r) ==
  /\ holder = Unlocked /\ reconciled /\ Signed(r) /\ ledger[r] = "approved"
  /\ ledger' = [ledger EXCEPT ![r] = "claimed"]
  /\ UNCHANGED <<files, holder, at, running, reconciled, history, failures>>

-----------------------------------------------------------------------------
\* stop_and_drain has waited for the lock, and creates the marker with O_EXCL.
StopRun(r) == /\ Lock(Owner, r, "create")
              /\ UNCHANGED <<ledger, files, reconciled, history, failures>>

Stopping == running[Owner]

SetMarker(m) == /\ marker' = [marker EXCEPT ![Stopping] = m]
                /\ UNCHANGED <<ledger, claimed, reserved, reconciled, history, failures>>

\* A marker that exists must be whole, and is synced again.
CreateMarker ==
  /\ at[Owner] = "create"
  /\ LET m == marker[Stopping] IN
       \/ m.text = "none" /\ Proceed(Owner, "create", "write") /\ SetMarker(NewMarker)
       \/ m.text = "whole" /\ Proceed(Owner, "create", "data") /\ SetMarker(m)
       \/ m.text = "empty" /\ Unlock(Owner) /\ SetMarker(m)

WriteMarker ==
  Proceed(Owner, "write", "data") /\ SetMarker([marker[Stopping] EXCEPT !.text = "whole"])

SyncMarker ==
  Proceed(Owner, "data", "entry") /\ SetMarker([marker[Stopping] EXCEPT !.data = TRUE])

\* Mutant: the directory of a marker is not synced.
SyncNoRoot == Proceed(Owner, "entry", "revoke") /\ SetMarker(marker[Stopping])

SyncAuthorityRoot ==
  Proceed(Owner, "entry", "revoke") /\ SetMarker([marker[Stopping] EXCEPT !.entry = TRUE])

\* persisted_revocation, still under the lock.
Revoke ==
  /\ Proceed(Owner, "revoke", "confirm")
  /\ ledger' = [ledger EXCEPT ![Stopping] =
                  IF @ \in {"approved", "claimed"} THEN "revoked" ELSE @]
  /\ UNCHANGED <<files, reconciled, history, failures>>

\* The stop is acknowledged only for a row that is revoked.
Confirm ==
  /\ at[Owner] = "confirm" /\ Unlock(Owner)
  /\ stopped' = stopped \cup IF ledger[Stopping] = "revoked" THEN {Stopping} ELSE {}
  /\ UNCHANGED <<ledger, files, reconciled, leased, sent, failures>>

-----------------------------------------------------------------------------
\* effect: the lock without waiting, then the signed grant.
Effect(w, r) == /\ Lock(w, r, "claim") /\ Signed(r)
                /\ UNCHANGED <<ledger, files, reconciled, history, failures>>

\* A name of the receipt root: O_EXCL, or the effect is refused.
CreateName(w, names, from, to) ==
  LET r == running[w]
  IN  /\ at[w] = from
      /\ IF names[r] = "none"
         THEN Proceed(w, from, to) /\ names' = [names EXCEPT ![r] = "cached"]
         ELSE Unlock(w) /\ UNCHANGED names
      /\ UNCHANGED <<ledger, marker, reconciled, history, failures>>

ClaimRun(w) == CreateName(w, claimed, "claim", "syncClaim") /\ UNCHANGED reserved

\* Mutant: the claim is not synced before the lease is entered.
EnterUnsynced(w) ==
  /\ Proceed(w, "syncClaim", "reserve")
  /\ leased' = [leased EXCEPT ![running[w]] = @ + 1]
  /\ UNCHANGED <<ledger, files, reconciled, stopped, sent, failures>>

\* The claim is durable, and the effect is entered.
EnterEffect(w) ==
  /\ Proceed(w, "syncClaim", "reserve")
  /\ claimed' = [claimed EXCEPT ![running[w]] = "durable"]
  /\ leased' = [leased EXCEPT ![running[w]] = @ + 1]
  /\ UNCHANGED <<ledger, marker, reserved, reconciled, stopped, sent, failures>>

\* _marker of the Writer.
ReserveOperation(w) ==
  CreateName(w, reserved, "reserve", "syncOperation") /\ UNCHANGED claimed

SyncOperation(w) ==
  /\ Proceed(w, "syncOperation", "put")
  /\ reserved' = [reserved EXCEPT ![running[w]] = "durable"]
  /\ UNCHANGED <<ledger, marker, claimed, reconciled, history, failures>>

\* guarded_transport asks the verifier once more.
Put(w) ==
  /\ at[w] = "put"
  /\ IF Signed(running[w])
     THEN Proceed(w, "put", "readback") /\ sent' = [sent EXCEPT ![running[w]] = @ + 1]
     ELSE Unlock(w) /\ UNCHANGED sent
  /\ UNCHANGED <<ledger, files, reconciled, stopped, leased, failures>>

\* An accepted, refused or lost PUT is followed by the readback, never by a second.
LeaveEffect(w) ==
  /\ at[w] = "readback" /\ Unlock(w)
  /\ UNCHANGED <<ledger, files, reconciled, history, failures>>

-----------------------------------------------------------------------------
Failing == failures < MaxFailures /\ failures' = failures + 1

\* A write or fsync fails, or a Worker dies.
Interrupted(p) == /\ Failing /\ at[p] # "idle" /\ Unlock(p)
                  /\ UNCHANGED <<ledger, files, reconciled, history>>

OwnerDies == /\ Failing /\ reconciled' = FALSE
             /\ IF holder = Owner THEN Unlock(Owner) ELSE UNCHANGED <<holder, at, running>>
             /\ UNCHANGED <<ledger, files, history>>

KeptName(n) == IF n = "cached" THEN {"none", "durable"} ELSE {n}

KeptMarker(m) ==
  {[text |-> t, data |-> TRUE, entry |-> TRUE] :
     t \in IF m.data THEN {m.text} ELSE {m.text, "empty"}}
  \cup IF m.entry THEN {} ELSE {NoMarker}

PowerFails ==
  /\ Failing /\ reconciled' = FALSE /\ holder' = Unlocked
  /\ at' = [p \in Processes |-> "idle"] /\ running' = [p \in Processes |-> NoRun]
  /\ \E m \in [Runs -> UNION {KeptMarker(marker[r]) : r \in Runs}] :
       marker' = m /\ \A r \in Runs : m[r] \in KeptMarker(marker[r])
  /\ \E c \in [Runs -> {"none", "durable"}] :
       claimed' = c /\ \A r \in Runs : c[r] \in KeptName(claimed[r])
  /\ \E o \in [Runs -> {"none", "durable"}] :
       reserved' = o /\ \A r \in Runs : o[r] \in KeptName(reserved[r])
  /\ UNCHANGED <<ledger, history>>

OwnerNext ==
  \/ Recover
  \/ (\E r \in Runs : RegisterSigned(r) \/ ClaimSigned(r) \/ StopRun(r))
  \/ CreateMarker \/ WriteMarker \/ SyncMarker \/ SyncAuthorityRoot \/ Revoke \/ Confirm
  \/ (\E w \in EffectWorkers :
        \/ (\E r \in Runs : Effect(w, r))
        \/ ClaimRun(w) \/ EnterEffect(w) \/ ReserveOperation(w) \/ SyncOperation(w)
        \/ Put(w) \/ LeaveEffect(w))
  \/ (\E p \in Processes : Interrupted(p)) \/ OwnerDies \/ PowerFails

OwnerSpec == OwnerInit /\ [][OwnerNext]_ownerVars

-----------------------------------------------------------------------------
\* A run's row, files, histories and the process at work on it fit together.
OwnerTypeOK ==
  /\ ledger \in [Runs -> {"none", "approved", "claimed", "revoked", "unconfirmed"}]
  /\ marker \in [Runs -> [text : {"none", "empty", "whole"}, data : BOOLEAN, entry : BOOLEAN]]
  /\ claimed \in [Runs -> {"none", "cached", "durable"}]
  /\ reserved \in [Runs -> {"none", "cached", "durable"}]
  /\ holder \in Processes \cup {Unlocked}
  /\ \A p \in Processes : at[p] # "idle" => holder = p
  /\ running \in [Processes -> Runs \cup {NoRun}] /\ reconciled \in BOOLEAN
  /\ stopped \subseteq Runs /\ leased \in [Runs -> Nat] /\ sent \in [Runs -> Nat]

\* An acknowledged stop is final, through every death and power loss: its marker
\* and its revoked row are durable, and no Worker is inside an effect of the run.
StopIsFinal ==
  \A r \in stopped :
    /\ marker[r] = Durable /\ ledger[r] = "revoked"
    /\ \A w \in EffectWorkers : running[w] # r

\* The effect of a run is entered once and sends one PUT for its note, whichever
\* Worker tries it again after a death or a power loss at any step; and the types
\* of above hold.
EffectOnce == OwnerTypeOK /\ \A r \in Runs : leased[r] <= 1 /\ sent[r] <= 1
====
