---- MODULE MCHostFiles ----
(* What files on the host promise through kills and power losses: a        *)
(* behaviour is one of the artifact store (two writers that race over one  *)
(* name, twice each, with two payloads), of the local effect path (two     *)
(* mutations that want the same bytes at the same path), of the refresh of *)
(* the semantic index (two notes, of which one may go, may get the text of *)
(* the other or change places with it, and two models), of the formatter's *)
(* signed runs (two runs) or of its effect journal (three attempts, two of *)
(* them for one note).                                                     *)
EXTENDS ImmutableStore, LocalExecution, SemanticRefresh, FormatterOwner, EffectJournal,
        TLC

CONSTANTS note, wanted, other
MCTarget == [m \in Mutations |-> note]
MCContent == [m \in Mutations |-> wanted]

CONSTANTS n1, n2, a, b, model
MCFirst == [corpus |-> n1 :> a @@ n2 :> b, model |-> model]
MCVaults == {n1 :> a @@ n2 :> b, n1 :> b @@ n2 :> a, n1 :> b}

CONSTANTS t1, t2, t3, account, account2, path, path2
MCAccounts == t1 :> account @@ t2 :> account @@ t3 :> account2
MCPaths == t1 :> path @@ t2 :> path @@ t3 :> path2

VARIABLE part

hostVars == <<vars, localVars, refreshVars, ownerVars, journalVars, part>>

\* A part that rests stays in one of its initial states.
HostInit ==
  /\ part \in {"store", "notes", "index", "runs", "journal"}
  /\ Init /\ LocalInit /\ RefreshInit /\ OwnerInit /\ JournalInit
  /\ part # "store" => call = CHOOSE c \in [Writers -> {c \in Call : c.id = 0}] : TRUE
  /\ part # "notes" => /\ job = CHOOSE j \in [Runners -> Mutations] : TRUE
                       /\ vault = [t \in Targets |-> Absent]

HostNext ==
  \/ /\ part = "store" /\ Next
     /\ UNCHANGED <<localVars, refreshVars, ownerVars, journalVars, part>>
  \/ /\ part = "notes" /\ LocalNext
     /\ UNCHANGED <<vars, refreshVars, ownerVars, journalVars, part>>
  \/ /\ part = "index" /\ RefreshNext
     /\ UNCHANGED <<vars, localVars, ownerVars, journalVars, part>>
  \/ /\ part = "runs" /\ OwnerNext
     /\ UNCHANGED <<vars, localVars, refreshVars, journalVars, part>>
  \/ /\ part = "journal" /\ JournalNext
     /\ UNCHANGED <<vars, localVars, refreshVars, ownerVars, part>>

Index(A) == part = "index" /\ A

\* RefreshFairness, for the behaviours of that part.
HostFairness ==
  /\ WF_refreshVars(Index(Pull)) /\ SF_refreshVars(Index(PrepareRefresh))
  /\ WF_refreshVars(Index(Plan)) /\ WF_refreshVars(Index(StartEmbed))
  /\ WF_refreshVars(Index(EmbedDone)) /\ SF_refreshVars(Index(Finalize))
  /\ WF_refreshVars(Index(Publish))

HostSpec == HostInit /\ [][HostNext]_hostVars /\ HostFairness
====
