---- MODULE SemanticRefresh ----
(***************************************************************************)
(* semantic_refresh, with the parts of semantic_corpus, semantic_index and *)
(* vault_mirror it drives: every pull of the Vault starts prepare, embed   *)
(* and finalize, which replace the active semantic index by one of the     *)
(* pulled notes.                                                           *)
(*                                                                         *)
(* prepare, finalize and an operator's activate hold the refresh lock, the *)
(* pull and whatever reads notes the mirror lock, embed neither.  A corpus *)
(* is the text of every note; the vector of a note is named by the text it *)
(* was computed from.                                                      *)
(***************************************************************************)
EXTENDS Naturals, Sequences, Functions

CONSTANTS Models,
          Vaults,      \* contents the remote Vault can have: the text of each note
          First,       \* the corpus and model of the index activated first
          None,        \* no control, no operation
          MaxChanges,  \* bound: changes of the remote Vault
          MaxManual,   \* bound: activations by an operator
          MaxFaults    \* bound: failed pulls, provider failures and reboots

VARIABLES remote, mirror,
          indexes,   \* the finalized indexes, immutable
          active,    \* semantic-active-index.json
          reader,    \* the Reader's control file
          embedder,  \* the Embedder's control file
          op,        \* the Reader operation that holds the refresh lock
          embedding, \* the Reader control the running embed has loaded
          due,       \* start jobs of the chain's units
          changes, manual, faults

refreshVars == <<remote, mirror, indexes, active, reader, embedder, op, embedding, due,
                 changes, manual, faults>>

Notes == UNION {DOMAIN vault : vault \in Vaults}
Texts == UNION {Range(vault) : vault \in Vaults}
Corpora == UNION {[N -> Texts] : N \in SUBSET Notes}
Current == indexes[active]

Built(corpus, m) == [corpus |-> corpus, vectors |-> corpus, model |-> m, prev |-> 0]

\* Artifacts are named by their content.
Stored(index) == IF index \in Range(indexes) THEN indexes ELSE Append(indexes, index)
Position(index, stored) == CHOOSE i \in DOMAIN stored : stored[i] = index

RefreshInit ==
  /\ remote = First.corpus /\ mirror = remote
  /\ indexes = <<Built(mirror, First.model)>>
  /\ active = 1 /\ reader = None /\ embedder = None
  /\ op = None /\ embedding = None /\ due = {}
  /\ changes = 0 /\ manual = 0 /\ faults = 0

Fault == faults < MaxFaults /\ faults' = faults + 1

\* OnSuccess=: a start job merges into one that waits or runs.
Start(unit, running) == IF running THEN due ELSE due \cup {unit}

ASSUME RefreshConstants ==
  First \in [corpus : Vaults, model : Models] /\ Vaults \subseteq Corpora

-----------------------------------------------------------------------------
Change == /\ changes < MaxChanges /\ changes' = changes + 1
          /\ remote' \in Vaults \ {remote}
          /\ UNCHANGED <<mirror, indexes, active, reader, embedder, op, embedding, due,
                         manual, faults>>

Planning == op # None /\ op.at = "plan"
Publishing == op # None /\ op.at = "publish"

\* rclone sync under the mirror lock; one that fails leaves some notes behind.
Pull == /\ mirror' = remote /\ due' = Start("prepare", Planning)
        /\ UNCHANGED <<remote, indexes, active, reader, embedder, op, embedding,
                       changes, manual, faults>>

PullFails ==
  /\ Fault
  /\ \E S \in SUBSET Notes :
       mirror' = [n \in (DOMAIN remote \cap S) \cup (DOMAIN mirror \ S) |->
                    IF n \in S THEN remote[n] ELSE mirror[n]]
  /\ UNCHANGED <<remote, indexes, active, reader, embedder, op, embedding, due, changes,
                 manual>>

-----------------------------------------------------------------------------
\* Mutant: nothing to do for notes that have been prepared before.
UnpreparedOnly(corpus) ==
  corpus = Current.corpus \/ (reader # None /\ corpus = reader.corpus)

Unchanged(corpus) == corpus = Current.corpus

Control(phase, corpus) ==
  [phase |-> phase, prev |-> active, corpus |-> corpus, model |-> Current.model]

\* _prepare_refresh_locked reads the notes twice: for the corpus manifest ...
PrepareRefresh ==
  /\ "prepare" \in due /\ op = None /\ due' = due \ {"prepare"}
  /\ op' = [at |-> "plan", corpus |-> mirror]
  /\ UNCHANGED <<remote, mirror, indexes, active, reader, embedder, embedding, changes,
                 manual, faults>>

\* ... and for the embedding plan, if they are still the same.
Plan ==
  /\ Planning /\ op' = None
  /\ IF Unchanged(op.corpus) \/ op.corpus = mirror
     THEN /\ reader' = Control(IF Unchanged(op.corpus) THEN "unchanged" ELSE "prepared",
                               op.corpus)
          /\ due' = Start("embed", embedding # None)
     ELSE UNCHANGED <<reader, due>>
  /\ UNCHANGED <<remote, mirror, indexes, active, embedder, embedding, changes, manual,
                 faults>>

-----------------------------------------------------------------------------
\* Mutant: a vector is reused for the same note.
MatchesNote(index, old, corpus, new) == old = new

\* _requests_match_for_vector_reuse: the same input text, whatever note it is from.
Matches(index, old, corpus, new) == index.corpus[old] = corpus[new]

Embedded(control) ==
  LET index == indexes[control.prev]
  IN  [n \in DOMAIN control.corpus |->
         LET from == {o \in DOMAIN index.corpus : Matches(index, o, control.corpus, n)}
         IN  IF from = {} THEN control.corpus[n]
             ELSE index.vectors[CHOOSE o \in from : TRUE]]

StartEmbed ==
  /\ "embed" \in due /\ embedding = None /\ reader # None
  /\ due' = due \ {"embed"} /\ embedding' = reader
  /\ UNCHANGED <<remote, mirror, indexes, active, reader, embedder, op, changes, manual,
                 faults>>

EmbedDone ==
  /\ embedding # None /\ embedding' = None
  /\ embedder' = [reader |-> embedding,
                  vectors |-> IF embedding.phase = "unchanged" THEN None
                              ELSE Embedded(embedding)]
  /\ due' = Start("finalize", Publishing)
  /\ UNCHANGED <<remote, mirror, indexes, active, reader, op, changes, manual, faults>>

\* The provider fails, times out or serves another revision of the model.
EmbedFails == /\ embedding # None /\ embedding' = None /\ Fault
              /\ UNCHANGED <<remote, mirror, indexes, active, reader, embedder, op, due,
                             changes, manual>>

-----------------------------------------------------------------------------
\* Mutant: whatever is active is replaced.
ReplacesAny == TRUE

\* The active index is the one the refresh was prepared from.
ReplacesPrevious == active = reader.prev

Refreshed == [corpus |-> reader.corpus, vectors |-> embedder.vectors,
              model |-> reader.model, prev |-> reader.prev]

Ready == /\ embedder # None /\ embedder.reader = reader
         /\ ReplacesPrevious
         /\ reader.phase = "prepared"
         /\ mirror = reader.corpus /\ reader.model = Current.model

\* The immutable index is stored only from notes that are current.
Finalize ==
  /\ "finalize" \in due /\ op = None /\ reader # None
  /\ due' = due \ {"finalize"}
  /\ IF Ready
     THEN /\ indexes' = Stored(Refreshed)
          /\ op' = [at |-> "publish", index |-> Refreshed, reader |-> reader,
                    active |-> active]
     ELSE UNCHANGED <<indexes, op>>
  /\ UNCHANGED <<remote, mirror, active, reader, embedder, embedding, changes, manual,
                 faults>>

\* Mutant: the notes were checked when the index was stored.
Revalidated == reader = op.reader /\ active = op.active

\* _revalidate_publication and verify_semantic_corpus_current.
Publishable == reader = op.reader /\ active = op.active /\ mirror = op.index.corpus

Publish ==
  /\ Publishing /\ op' = None
  /\ active' = IF Publishable
               THEN Position(op.index, indexes) ELSE active
  /\ UNCHANGED <<remote, mirror, indexes, reader, embedder, embedding, due, changes,
                 manual, faults>>

-----------------------------------------------------------------------------
Manual == manual < MaxManual /\ manual' = manual + 1

\* activate_semantic_index: an operator returns to a stored index or activates one
\* built by hand, which may be of another model.
Activate(index) ==
  /\ Manual /\ op = None
  /\ index.corpus = mirror
  /\ indexes' = Stored(index) /\ active' = Position(index, indexes')
  /\ UNCHANGED <<remote, mirror, reader, embedder, op, embedding, due, changes, faults>>

\* Files are replaced atomically and the kernel drops the locks.
Reboot == /\ Fault /\ op' = None /\ embedding' = None /\ due' = {}
          /\ UNCHANGED <<remote, mirror, indexes, active, reader, embedder, changes,
                          manual>>

RefreshNext ==
  \/ Change \/ Pull \/ PullFails \/ PrepareRefresh \/ Plan
  \/ StartEmbed \/ EmbedDone \/ EmbedFails \/ Finalize \/ Publish
  \/ (\E i \in DOMAIN indexes : Activate(indexes[i]))
  \/ (\E m \in Models : Activate(Built(mirror, m)))
  \/ Reboot

\* finalize waits in flock for a prepare that takes seconds every five minutes.
RefreshFairness ==
  /\ WF_refreshVars(Pull) /\ SF_refreshVars(PrepareRefresh) /\ WF_refreshVars(Plan)
  /\ WF_refreshVars(StartEmbed) /\ WF_refreshVars(EmbedDone)
  /\ SF_refreshVars(Finalize) /\ WF_refreshVars(Publish)

RefreshSpec == RefreshInit /\ [][RefreshNext]_refreshVars /\ RefreshFairness

-----------------------------------------------------------------------------
\* Every stored index holds, for each of its notes, the vector of that note's
\* text, however often vectors were handed on from index to index.
VectorsBelong == \A i \in DOMAIN indexes : indexes[i].vectors = indexes[i].corpus

\* An index becomes active only while the mirror holds exactly its notes, although
\* the notes are read, embedded and stored under different locks at different times.
ActivatedCurrent == [][active' # active => indexes'[active'].corpus = mirror]_refreshVars

\* A refresh replaces only the index it started from, by one of the same model: it
\* never takes back what an operator activated while it was under way.
RefreshesInPlace ==
  [][active' # active /\ manual' = manual =>
       /\ indexes'[active'].prev = active
       /\ indexes'[active'].model = indexes[active].model]_refreshVars

\* Once the Vault is quiet its notes are indexed, whatever failed and however often
\* pulls overtake a running embed.
RefreshSettles == <>[](Current.corpus = remote)
====
