---- MODULE EffectJournal ----
(***************************************************************************)
(* OwnerEffectJournal of vault_format_effect_journal: the database that    *)
(* fences every effect attempt before it is dispatched, and decides when   *)
(* the Owner may report Off, install new credentials or open again after a *)
(* restart.  Every operation is one transaction (BEGIN IMMEDIATE), so a    *)
(* death falls between two of them; what callers know of the journal they  *)
(* read in an earlier one.                                                 *)
(*                                                                         *)
(* The Broker that sends effects and proves their outcome does not exist   *)
(* yet: here its reports come in any order, or never.                      *)
(***************************************************************************)
EXTENDS Integers

CONSTANTS Attempts,      \* (run id, operation id)
          AccountOf, PathOf,   \* the account and the note of each attempt
          Generations,   \* digests of credentials
          NoGeneration,  \* of the new journal, and no rotation target
          NoClaim,
          MaxBoots,      \* bound: Owner boots
          MaxRotations   \* bound: completed rotations

ASSUME JournalAssumption == MaxBoots \in Nat /\ MaxRotations \in Nat

VARIABLES gate,          \* admission_gate
          status,        \* effect_attempt.status, "none" without a row
          conflicts,     \* resource_conflict
          quarantined,   \* account_quarantine
          claims,        \* the claim each attempt was sealed with
          offDone        \* history: Off was reported complete

journalVars == <<gate, status, conflicts, quarantined, claims, offDone>>

Resource(a) == <<AccountOf[a], PathOf[a]>>
Accounts == {AccountOf[a] : a \in Attempts}
Terminal == {"verified_remote_effect", "verified_no_effect"}

JournalInit ==
  /\ gate = [open |-> FALSE, reason |-> "initial", boot |-> 0, reconciled |-> FALSE,
             generation |-> NoGeneration, epoch |-> 0, watermark |-> -1,
             target |-> NoGeneration]
  /\ status = [a \in Attempts |-> "none"]
  /\ conflicts = {} /\ quarantined = {}
  /\ claims = [a \in Attempts |-> NoClaim] /\ offDone = FALSE

Active == {a \in Attempts : status[a] = "active"}
Unresolved == {a \in Attempts : status[a] \in {"active", "unconfirmed"}}

\* Mutant: what a restart left unconfirmed is not waited for.
OutstandingActive == Active # {}

\* _counts: attempts, reserved notes and quarantined accounts.
Outstanding == Unresolved # {} \/ conflicts # {} \/ quarantined # {}

-----------------------------------------------------------------------------
\* A run is claimed under the gate of that moment; the claim never changes.
SealClaim(a) ==
  /\ claims[a] = NoClaim
  /\ claims' = [claims EXCEPT ![a] = [boot |-> gate.boot, epoch |-> gate.epoch,
                                      generation |-> gate.generation]]
  /\ UNCHANGED <<gate, status, conflicts, quarantined, offDone>>

CurrentClaim(c) == /\ c # NoClaim /\ c.boot = gate.boot
                   /\ c.epoch = gate.epoch /\ c.generation = gate.generation

RecordBegin(a) ==
  /\ gate.open /\ gate.reconciled /\ CurrentClaim(claims[a])
  /\ gate.watermark < claims[a].epoch
  /\ AccountOf[a] \notin quarantined /\ status[a] = "none"
  /\ \A c \in conflicts : c.resource # Resource(a)
  /\ status' = [status EXCEPT ![a] = "active"]
  /\ conflicts' = conflicts \cup {[resource |-> Resource(a), attempt |-> a]}
  /\ UNCHANGED <<gate, quarantined, claims, offDone>>

MarkUncertain(a) ==
  /\ status[a] = "active" /\ status' = [status EXCEPT ![a] = "unconfirmed"]
  /\ UNCHANGED <<gate, conflicts, quarantined, claims, offDone>>

\* The outcome and the release of the note are one transaction.
RecordVerifiedOutcome(a, outcome) ==
  /\ a \in Unresolved
  /\ \E c \in conflicts : c = [resource |-> Resource(a), attempt |-> a]
  /\ conflicts' = conflicts \ {[resource |-> Resource(a), attempt |-> a]}
  /\ status' = [status EXCEPT ![a] = outcome]
  /\ UNCHANGED <<gate, quarantined, claims, offDone>>

QuarantineAccount(x) == /\ quarantined' = quarantined \cup {x}
                        /\ UNCHANGED <<gate, status, conflicts, claims, offDone>>

ReleaseAccount(x) ==
  /\ x \in quarantined /\ \A c \in conflicts : c.resource[1] # x
  /\ quarantined' = quarantined \ {x}
  /\ UNCHANGED <<gate, status, conflicts, claims, offDone>>

-----------------------------------------------------------------------------
Commanded == gate.reason \in {"off", "rotation"}

\* owner_start_boot, once per boot: a second one waits until the first is reconciled.
StartBoot ==
  /\ gate.boot < MaxBoots /\ (gate.boot = 0 \/ gate.reconciled)
  /\ gate' = [gate EXCEPT !.open = FALSE, !.boot = @ + 1, !.reconciled = FALSE,
                          !.reason = IF Commanded THEN @ ELSE "restart"]
  /\ status' = [a \in Attempts |-> IF a \in Active THEN "unconfirmed" ELSE status[a]]
  /\ UNCHANGED <<conflicts, quarantined, claims, offDone>>

\* It opens only a gate that a restart closed.
CompleteBootRecovery ==
  /\ ~Outstanding /\ gate.boot > 0
  /\ \/ Commanded /\ gate' = [gate EXCEPT !.reconciled = TRUE]
     \/ gate.reason = "restart" /\ gate' = [gate EXCEPT !.reconciled = TRUE, !.open = TRUE]
  /\ UNCHANGED <<status, conflicts, quarantined, claims, offDone>>

\* Off takes the place of a rotation that waits.
RequestOff ==
  /\ gate' = [gate EXCEPT !.open = FALSE, !.reason = "off", !.target = NoGeneration]
  /\ offDone' = (offDone \/ ~Outstanding)
  /\ UNCHANGED <<status, conflicts, quarantined, claims>>

\* The gate closes at once; the credentials change when nothing is outstanding.
RequestRotation(g) ==
  /\ gate.reason # "off" /\ g # gate.generation
  /\ gate.reason = "rotation" => gate.target \in {NoGeneration, g}
  /\ LET closed == [gate EXCEPT !.open = FALSE, !.reason = "rotation", !.target = g]
     IN  \/ (Outstanding \/ ~gate.reconciled) /\ gate' = closed
         \/ /\ ~Outstanding /\ gate.reconciled /\ gate.epoch < MaxRotations
            /\ gate' = [closed EXCEPT !.generation = g, !.epoch = @ + 1,
                                      !.watermark = gate.epoch, !.target = NoGeneration]
  /\ UNCHANGED <<status, conflicts, quarantined, claims, offDone>>

JournalNext ==
  \/ (\E a \in Attempts :
        \/ SealClaim(a) \/ RecordBegin(a) \/ MarkUncertain(a)
        \/ (\E outcome \in Terminal : RecordVerifiedOutcome(a, outcome)))
  \/ (\E x \in Accounts : QuarantineAccount(x) \/ ReleaseAccount(x))
  \/ StartBoot \/ CompleteBootRecovery \/ RequestOff
  \/ (\E g \in Generations : RequestRotation(g))

JournalSpec == JournalInit /\ [][JournalNext]_journalVars

-----------------------------------------------------------------------------
\* The tables hold rows of their columns.
JournalTypeOK ==
  /\ gate.open \in BOOLEAN /\ gate.reconciled \in BOOLEAN
  /\ gate.reason \in {"initial", "restart", "off", "rotation"}
  /\ gate.boot \in 0..MaxBoots /\ gate.epoch \in 0..MaxRotations
  /\ gate.watermark < gate.epoch
  /\ {gate.generation, gate.target} \subseteq Generations \cup {NoGeneration}
  /\ status \in [Attempts -> Terminal \cup {"none", "active", "unconfirmed"}]
  /\ conflicts \subseteq [resource : {Resource(a) : a \in Attempts}, attempt : Attempts]
  /\ quarantined \subseteq Accounts /\ offDone \in BOOLEAN

\* An attempt whose outcome is unknown has its note to itself and the credentials
\* it began under, through restarts, Off and rotations; one that is active was
\* claimed after the last restart; and after Off was reported complete no attempt
\* is under way, ever.  The types of above hold.
Fenced ==
  /\ JournalTypeOK
  /\ \A a, b \in Unresolved : Resource(a) = Resource(b) => a = b
  /\ \A a \in Unresolved : claims[a].generation = gate.generation
  /\ \A a \in Active : claims[a].boot = gate.boot /\ gate.reconciled
  /\ offDone => Unresolved = {}
====
