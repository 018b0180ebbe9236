---- MODULE HostFileProofs ----
(***************************************************************************)
(* The safety properties of three components that keep their state in host *)
(* files: the semantic refresh, the effect journal and the signed runs of  *)
(* the formatter; for any sets of notes, attempts, runs and processes and  *)
(* any number of failures.                                                 *)
(*                                                                         *)
(* What the properties of the refresh rest on is what a control file or a  *)
(* process still knows when it takes the lock again: the index a refresh   *)
(* started from is still stored (indexes only grow), the vectors in the    *)
(* Embedder's control are those of the notes in the Reader control it was  *)
(* made for, and the index under publication is stored and has the model   *)
(* of the one it replaces.  Those of the journal rest on the one conflict  *)
(* each unresolved attempt holds, those of the runs on how far the holder  *)
(* of the drain's lock is and on what is durable by then.                  *)
(***************************************************************************)
EXTENDS SemanticRefresh, FormatterOwner, EffectJournal, TLAPS

Index == [corpus : Corpora, vectors : Corpora, model : Models, prev : Nat]
ControlFile == [phase : {"prepared", "unchanged"}, prev : Nat, corpus : Corpora,
                model : Models]
PlanOp == [at : {"plan"}, corpus : Corpora]
PublishOp == [at : {"publish"}, index : Index, reader : ControlFile, active : Nat]

RefreshTypeOK ==
  /\ remote \in Vaults /\ mirror \in Corpora
  /\ indexes \in Seq(Index) /\ active \in DOMAIN indexes
  /\ reader # None => reader \in ControlFile
  /\ embedding # None => embedding \in ControlFile
  /\ embedder # None => embedder.reader \in ControlFile
  /\ op # None => op \in PlanOp \cup PublishOp
  /\ manual \in Nat

\* What a refresh was prepared from is still stored.
StartsStored ==
  /\ reader # None => reader.prev \in DOMAIN indexes
  /\ embedding # None => embedding.prev \in DOMAIN indexes

\* The embedding result belongs to the notes of its Reader control.
ResultBelongs ==
  embedder # None /\ embedder.reader.phase = "prepared" =>
    embedder.vectors = embedder.reader.corpus

\* The index under publication is stored, and would replace the index it was
\* prepared from by one of the same model.
PublishedStored ==
  Publishing => /\ \E i \in DOMAIN indexes : indexes[i] = op.index
                /\ op.active \in DOMAIN indexes
                /\ op.index.prev = op.active
                /\ op.index.model = indexes[op.active].model

RefreshInv == RefreshTypeOK /\ VectorsBelong /\ StartsStored /\ ResultBelongs /\ PublishedStored

-----------------------------------------------------------------------------
\* Storing an index keeps every index where it was and finds the new one.
LEMMA StoredKeeps ==
  ASSUME indexes \in Seq(Index), NEW index \in Index
  PROVE  /\ Stored(index) \in Seq(Index)
         /\ \A i \in DOMAIN indexes :
              i \in DOMAIN Stored(index) /\ Stored(index)[i] = indexes[i]
         /\ \E i \in DOMAIN Stored(index) : Stored(index)[i] = index
         /\ \A i \in DOMAIN Stored(index) :
              i \in DOMAIN indexes \/ Stored(index)[i] = index
  <1>1. CASE index \in Range(indexes)
    BY <1>1 DEF Stored, Range
  <1>2. CASE index \notin Range(indexes)
    <2>1. Stored(index) = Append(indexes, index)
      BY <1>2 DEF Stored
    <2>2. /\ DOMAIN indexes = 1..Len(indexes)
          /\ DOMAIN Append(indexes, index) = 1..Len(indexes) + 1
          /\ Append(indexes, index) \in Seq(Index)
          /\ Len(indexes) \in Nat
      OBVIOUS
    <2>3. /\ \A i \in 1..Len(indexes) : Append(indexes, index)[i] = indexes[i]
          /\ Append(indexes, index)[Len(indexes) + 1] = index
      OBVIOUS
    <2> QED BY <2>1, <2>2, <2>3
  <1> QED BY <1>1, <1>2

\* The name of a stored index leads to it.
LEMMA PositionFinds ==
  ASSUME NEW stored, NEW index, \E i \in DOMAIN stored : stored[i] = index
  PROVE  Position(index, stored) \in DOMAIN stored /\ stored[Position(index, stored)] = index
  BY DEF Position

LEMMA CorpusIsFunction ==
  ASSUME NEW corpus \in Corpora PROVE corpus = [n \in DOMAIN corpus |-> corpus[n]]
  BY DEF Corpora

LEMMA VaultIsCorpus == Vaults \subseteq Corpora
  BY RefreshConstants

\* A pull that fails leaves notes of the old and of the new contents.
LEMMA MixIsCorpus ==
  ASSUME NEW f \in Corpora, NEW g \in Corpora, NEW S
  PROVE  [n \in (DOMAIN f \cap S) \cup (DOMAIN g \ S) |-> IF n \in S THEN f[n] ELSE g[n]]
           \in Corpora
  <1> DEFINE D == (DOMAIN f \cap S) \cup (DOMAIN g \ S)
             mix == [n \in D |-> IF n \in S THEN f[n] ELSE g[n]]
  <1>1. PICK F \in SUBSET Notes : f \in [F -> Texts]
    BY DEF Corpora
  <1>2. PICK G \in SUBSET Notes : g \in [G -> Texts]
    BY DEF Corpora
  <1>3. D \in SUBSET Notes
    BY <1>1, <1>2
  <1>4. mix \in [D -> Texts]
    BY <1>1, <1>2
  <1> QED BY <1>3, <1>4 DEF Corpora

\* Embedding, with vectors taken over where the text is the same, gives each note
\* the vector of its text.
LEMMA EmbeddedBelongs ==
  ASSUME RefreshTypeOK, VectorsBelong, NEW control \in ControlFile,
         control.prev \in DOMAIN indexes
  PROVE  Embedded(control) = control.corpus
  <1> DEFINE index == indexes[control.prev]
             corpus == control.corpus
             From(n) == {o \in DOMAIN index.corpus : Matches(index, o, corpus, n)}
             Vector(n) == IF From(n) = {} THEN corpus[n]
                          ELSE index.vectors[CHOOSE o \in From(n) : TRUE]
  <1>1. index.vectors = index.corpus
    BY DEF VectorsBelong
  <1>2. ASSUME NEW n \in DOMAIN corpus PROVE Vector(n) = corpus[n]
    <2>1. CASE From(n) # {}
      <3>1. (CHOOSE o \in From(n) : TRUE) \in From(n)
        BY <2>1
      <3>2. index.corpus[CHOOSE o \in From(n) : TRUE] = corpus[n]
        BY <3>1 DEF Matches
      <3> QED BY <2>1, <3>2, <1>1
    <2> QED BY <2>1
  <1>3. Embedded(control) = [n \in DOMAIN corpus |-> Vector(n)]
    BY DEF Embedded
  <1>4. corpus \in Corpora
    BY DEF ControlFile
  <1> HIDE DEF Vector, corpus
  <1>5. [n \in DOMAIN corpus |-> Vector(n)] = [n \in DOMAIN corpus |-> corpus[n]]
    BY <1>2
  <1>6. Embedded(control) = corpus
    BY <1>3, <1>4, <1>5, CorpusIsFunction
  <1> QED BY <1>6 DEF corpus

-----------------------------------------------------------------------------
THEOREM RefreshInitInv == RefreshInit => RefreshInv
  <1> SUFFICES ASSUME RefreshInit PROVE RefreshInv
    OBVIOUS
  <1> DEFINE first == Built(mirror, First.model)
  <1>1. remote \in Vaults /\ mirror \in Corpora /\ first \in Index
    BY RefreshConstants DEF RefreshInit, Built, Index
  <1>2. indexes = <<first>> /\ active = 1
    BY DEF RefreshInit
  <1>3. indexes \in Seq(Index) /\ DOMAIN indexes = {1} /\ indexes[1] = first
    BY <1>1, <1>2
  <1>4. RefreshTypeOK
    BY <1>1, <1>2, <1>3 DEF RefreshInit, RefreshTypeOK
  <1>5. first.vectors = first.corpus
    BY DEF Built
  <1>6. VectorsBelong /\ StartsStored /\ ResultBelongs /\ PublishedStored
    BY <1>3, <1>5 DEF RefreshInit, VectorsBelong, StartsStored, ResultBelongs,
                      PublishedStored, Publishing
  <1> QED BY <1>4, <1>6 DEF RefreshInv

\* What holds of the indexes, and of what refers to them, when one is stored.
LEMMA StoreKeepsInv ==
  ASSUME RefreshInv, NEW index \in Index, index.vectors = index.corpus,
         indexes' = Stored(index)
  PROVE  /\ indexes' \in Seq(Index) /\ VectorsBelong'
         /\ \A i \in DOMAIN indexes : i \in DOMAIN indexes' /\ indexes'[i] = indexes[i]
         /\ \E i \in DOMAIN indexes' : indexes'[i] = index
         /\ Position(index, indexes') \in DOMAIN indexes'
         /\ indexes'[Position(index, indexes')] = index
  <1>1. indexes \in Seq(Index)
    BY DEF RefreshInv, RefreshTypeOK
  <1>2. /\ indexes' \in Seq(Index)
        /\ \A i \in DOMAIN indexes : i \in DOMAIN indexes' /\ indexes'[i] = indexes[i]
        /\ \E i \in DOMAIN indexes' : indexes'[i] = index
        /\ \A i \in DOMAIN indexes' : i \in DOMAIN indexes \/ indexes'[i] = index
    BY <1>1, StoredKeeps
  <1>3. VectorsBelong'
    BY <1>2 DEF RefreshInv, VectorsBelong
  <1>4. /\ Position(index, indexes') \in DOMAIN indexes'
        /\ indexes'[Position(index, indexes')] = index
    BY <1>2, PositionFinds
  <1> QED BY <1>2, <1>3, <1>4

\* Steps that leave the indexes, the controls and the operation alone.
LEMMA QuietStep ==
  ASSUME RefreshInv, remote' \in Vaults, mirror' \in Corpora,
         UNCHANGED <<indexes, active, reader, embedder, manual>>,
         op' \in {op, None}, embedding' \in {embedding, None}
  PROVE  RefreshInv'
  BY DEF RefreshInv, RefreshTypeOK, VectorsBelong, StartsStored, ResultBelongs,
         PublishedStored, Publishing

THEOREM RefreshStepInv == RefreshInv /\ [RefreshNext]_refreshVars => RefreshInv'
  <1> SUFFICES ASSUME RefreshInv, [RefreshNext]_refreshVars PROVE RefreshInv'
    OBVIOUS
  <1> USE DEF RefreshInv
  <1>1. CASE Change
    BY <1>1, QuietStep DEF Change, RefreshTypeOK
  <1>2. CASE Pull
    BY <1>2, QuietStep, VaultIsCorpus DEF Pull, RefreshTypeOK
  <1>3. CASE PullFails
    <2>1. remote \in Corpora
      BY VaultIsCorpus DEF RefreshTypeOK
    <2>2. PICK S \in SUBSET Notes :
            mirror' = [n \in (DOMAIN remote \cap S) \cup (DOMAIN mirror \ S) |->
                         IF n \in S THEN remote[n] ELSE mirror[n]]
      BY <1>3 DEF PullFails
    <2>3. mirror \in Corpora
      BY DEF RefreshTypeOK
    <2> HIDE DEF RefreshInv
    <2>4. [n \in (DOMAIN remote \cap S) \cup (DOMAIN mirror \ S) |->
             IF n \in S THEN remote[n] ELSE mirror[n]] \in Corpora
      BY <2>1, <2>3, MixIsCorpus
    <2>5. mirror' \in Corpora
      BY <2>2, <2>4
    <2> QED BY <1>3, <2>5, QuietStep DEF PullFails, RefreshInv, RefreshTypeOK
  <1>4. CASE PrepareRefresh
    <2>1. op' \in PlanOp
      BY <1>4 DEF PrepareRefresh, PlanOp, RefreshTypeOK
    <2>2. ~Publishing'
      BY <2>1 DEF PlanOp, Publishing
    <2> QED BY <1>4, <2>1, <2>2
            DEF PrepareRefresh, RefreshTypeOK, VectorsBelong, StartsStored, ResultBelongs,
                PublishedStored
  <1>5. CASE Plan
    <2>1. op' = None /\ op \in PlanOp
      BY <1>5 DEF Plan, Planning, RefreshTypeOK, PublishOp, PlanOp
    <2>2. Current \in Index /\ active \in Nat
      BY DEF Current, RefreshTypeOK
    <2>3. \A p \in {"prepared", "unchanged"} : /\ Control(p, op.corpus) \in ControlFile
                                               /\ Control(p, op.corpus).prev = active
      BY <2>1, <2>2 DEF Control, ControlFile, PlanOp, Index
    <2>4. \/ UNCHANGED reader
          \/ reader' \in ControlFile /\ reader'.prev = active
      BY <1>5, <2>3 DEF Plan
    <2>5. UNCHANGED <<remote, mirror, indexes, active, embedder, embedding, manual>>
      BY <1>5 DEF Plan
    <2> QED BY <2>1, <2>4, <2>5
            DEF RefreshTypeOK, VectorsBelong, StartsStored, ResultBelongs, PublishedStored,
                Publishing
  <1>6. CASE StartEmbed
    BY <1>6 DEF StartEmbed, RefreshTypeOK, VectorsBelong, StartsStored, ResultBelongs,
                PublishedStored, Publishing
  <1>7. CASE EmbedDone
    <2>1. embedding \in ControlFile /\ embedding.prev \in DOMAIN indexes
      BY <1>7 DEF EmbedDone, RefreshTypeOK, StartsStored
    <2>2. Embedded(embedding) = embedding.corpus
      BY <2>1, EmbeddedBelongs
    <2>3. /\ embedder'.reader = embedding
          /\ embedding.phase = "prepared" => embedder'.vectors = embedding.corpus
      BY <1>7, <2>2 DEF EmbedDone
    <2> QED BY <1>7, <2>1, <2>3
            DEF EmbedDone, RefreshTypeOK, VectorsBelong, StartsStored, ResultBelongs,
                PublishedStored, Publishing
  <1>8. CASE EmbedFails
    BY <1>8, QuietStep DEF EmbedFails, RefreshTypeOK
  <1>9. CASE Finalize
    <2>1. CASE ~Ready
      BY <1>9, <2>1, QuietStep DEF Finalize, RefreshTypeOK
    <2>2. CASE Ready
      <3>1. /\ reader \in ControlFile /\ embedder.reader = reader
            /\ reader.phase = "prepared" /\ reader.prev = active
            /\ reader.model = indexes[active].model /\ active \in DOMAIN indexes
        BY <1>9, <2>2 DEF Finalize, Ready, ReplacesPrevious, Current, RefreshTypeOK
      <3>2. embedder.vectors = reader.corpus
        BY <2>2, <3>1 DEF Ready, ResultBelongs
      <3>3. Refreshed \in Index /\ Refreshed.vectors = Refreshed.corpus
        BY <3>1, <3>2 DEF Refreshed, Index, ControlFile
      <3>4. Refreshed.prev = active /\ Refreshed.model = indexes[active].model
        BY <3>1 DEF Refreshed
      <3>5. /\ indexes' = Stored(Refreshed)
            /\ op' = [at |-> "publish", index |-> Refreshed, reader |-> reader,
                      active |-> active]
            /\ UNCHANGED <<remote, mirror, active, reader, embedder, embedding, manual>>
        BY <1>9, <2>2 DEF Finalize
      <3>6. /\ indexes' \in Seq(Index) /\ VectorsBelong'
            /\ \A i \in DOMAIN indexes : i \in DOMAIN indexes' /\ indexes'[i] = indexes[i]
            /\ \E i \in DOMAIN indexes' : indexes'[i] = Refreshed
        BY <3>3, <3>5, StoreKeepsInv
      <3>7. active \in Nat
        BY <3>1 DEF RefreshTypeOK
      <3>8. op' \in PublishOp
        BY <3>1, <3>3, <3>5, <3>7 DEF PublishOp
      <3>9. RefreshTypeOK'
        BY <3>1, <3>5, <3>6, <3>8 DEF RefreshTypeOK
      <3>10. StartsStored' /\ ResultBelongs'
        BY <3>5, <3>6 DEF StartsStored, ResultBelongs
      <3>11. PublishedStored'
        BY <3>1, <3>4, <3>5, <3>6 DEF PublishedStored
      <3> QED BY <3>6, <3>9, <3>10, <3>11
    <2> QED BY <2>1, <2>2
  <1>10. CASE Publish
    <2>1. \E i \in DOMAIN indexes : indexes[i] = op.index
      BY <1>10 DEF Publish, PublishedStored
    <2>2. Position(op.index, indexes) \in DOMAIN indexes
      BY <2>1, PositionFinds
    <2> QED BY <1>10, <2>2
            DEF Publish, RefreshTypeOK, VectorsBelong, StartsStored, ResultBelongs,
                PublishedStored, Publishing
  <1>11. ASSUME NEW index \in Index, index.vectors = index.corpus, Activate(index)
         PROVE  RefreshInv'
    <2>1. /\ indexes' = Stored(index) /\ active' = Position(index, indexes') /\ op = None
          /\ UNCHANGED <<remote, mirror, reader, embedder, op, embedding>>
          /\ manual' \in Nat
      BY <1>11 DEF Activate, Manual, RefreshTypeOK
    <2>2. /\ indexes' \in Seq(Index) /\ VectorsBelong'
          /\ \A i \in DOMAIN indexes : i \in DOMAIN indexes' /\ indexes'[i] = indexes[i]
          /\ active' \in DOMAIN indexes'
      BY <1>11, <2>1, StoreKeepsInv
    <2> QED BY <2>1, <2>2 DEF RefreshTypeOK, StartsStored, ResultBelongs, PublishedStored,
                              Publishing
  <1>12. ASSUME NEW i \in DOMAIN indexes, Activate(indexes[i]) PROVE RefreshInv'
    <2>1. indexes[i] \in Index /\ indexes[i].vectors = indexes[i].corpus
      BY DEF RefreshTypeOK, VectorsBelong
    <2> QED BY <1>11, <1>12, <2>1
  <1>13. ASSUME NEW m \in Models, Activate(Built(mirror, m)) PROVE RefreshInv'
    <2>1. Built(mirror, m) \in Index /\ Built(mirror, m).vectors = Built(mirror, m).corpus
      BY DEF Built, Index, RefreshTypeOK
    <2> QED BY <1>11, <1>13, <2>1
  <1>14. CASE Reboot
    BY <1>14, QuietStep DEF Reboot, RefreshTypeOK
  <1>15. CASE UNCHANGED refreshVars
    BY <1>15, QuietStep DEF refreshVars, RefreshTypeOK
  <1> QED BY <1>1, <1>2, <1>3, <1>4, <1>5, <1>6, <1>7, <1>8, <1>9, <1>10, <1>12, <1>13,
             <1>14, <1>15 DEF RefreshNext

\* The invariant holds in every behaviour.
THEOREM RefreshInvariance == RefreshSpec => []RefreshInv
  BY RefreshInitInv, RefreshStepInv, PTL DEF RefreshSpec

\* No stored index ever has a vector of another text.
THEOREM VectorsAreTheirNotes == RefreshSpec => []VectorsBelong
  <1>1. RefreshInv => VectorsBelong
    BY DEF RefreshInv
  <1> QED BY <1>1, RefreshInvariance, PTL

-----------------------------------------------------------------------------
\* Only two kinds of steps change what is active, and both know what they make
\* active.
LEMMA Activations ==
  ASSUME RefreshInv, [RefreshNext]_refreshVars, active' # active
  PROVE  \/ /\ Publish /\ Publishable
            /\ indexes'[active'] = op.index
         \/ /\ manual' # manual
            /\ indexes'[active'].corpus = mirror
  <1>1. CASE Publish
    <2>1. Publishing /\ active' = Position(op.index, indexes) /\ Publishable
          /\ UNCHANGED indexes
      BY <1>1 DEF Publish
    <2>2. \E i \in DOMAIN indexes : indexes[i] = op.index
      BY <2>1 DEF RefreshInv, PublishedStored
    <2> QED BY <1>1, <2>1, <2>2, PositionFinds
  <1>2. ASSUME NEW index \in Index, Activate(index)
        PROVE  indexes'[active'].corpus = mirror
    <2>1. indexes' = Stored(index) /\ active' = Position(index, indexes')
          /\ index.corpus = mirror
      BY <1>2 DEF Activate
    <2>2. \E i \in DOMAIN indexes' : indexes'[i] = index
      BY <2>1, StoredKeeps DEF RefreshInv, RefreshTypeOK
    <2> QED BY <2>1, <2>2, PositionFinds
  <1>3. \A i \in DOMAIN indexes : indexes[i] \in Index
    BY DEF RefreshInv, RefreshTypeOK
  <1>4. \A m \in Models : Built(mirror, m) \in Index
    BY DEF Built, Index, RefreshInv, RefreshTypeOK
  <1>5. \/ Publish
        \/ \E i \in DOMAIN indexes : Activate(indexes[i])
        \/ \E m \in Models : Activate(Built(mirror, m))
    BY DEF RefreshNext, refreshVars, Change, Pull, PullFails, PrepareRefresh, Plan,
           StartEmbed, EmbedDone, EmbedFails, Finalize, Reboot
  <1>6. ASSUME NEW index \in Index, Activate(index) PROVE manual' # manual
    BY <1>6 DEF Activate, Manual, RefreshInv, RefreshTypeOK
  <1> QED BY <1>1, <1>2, <1>3, <1>4, <1>5, <1>6

\* Whatever becomes active holds exactly the notes of the mirror at that moment.
THEOREM ActivationsCurrent == RefreshSpec => ActivatedCurrent
  <1>1. RefreshInv /\ [RefreshNext]_refreshVars /\ active' # active
          => indexes'[active'].corpus = mirror
    BY Activations DEF Publishable
  <1> QED BY <1>1, RefreshInvariance, PTL DEF RefreshSpec, ActivatedCurrent

\* A refresh replaces the index it started from by one of the same model.
THEOREM RefreshesReplace == RefreshSpec => RefreshesInPlace
  <1>1. ASSUME RefreshInv, [RefreshNext]_refreshVars, active' # active, manual' = manual
        PROVE  /\ indexes'[active'].prev = active
               /\ indexes'[active'].model = indexes[active].model
    <2>1. Publish /\ Publishable /\ indexes'[active'] = op.index
      BY <1>1, Activations
    <2>2. op.active = active /\ Publishing
      BY <2>1 DEF Publish, Publishable
    <2>3. op.index.prev = active /\ op.index.model = indexes[active].model
      BY <1>1, <2>2 DEF RefreshInv, PublishedStored
    <2> QED BY <2>1, <2>3
  <1> QED BY <1>1, RefreshInvariance, PTL DEF RefreshSpec, RefreshesInPlace

-----------------------------------------------------------------------------
Claim == [boot : Nat, epoch : Nat, generation : Generations \cup {NoGeneration}]
Gate == [open : BOOLEAN, reason : {"initial", "restart", "off", "rotation"},
         boot : 0..MaxBoots, reconciled : BOOLEAN,
         generation : Generations \cup {NoGeneration}, epoch : 0..MaxRotations,
         watermark : Int, target : Generations \cup {NoGeneration}]

Held(a) == [resource |-> Resource(a), attempt |-> a]

\* What later transactions may rely on: an unresolved attempt holds its note,
\* alone, and a gate that was asked to close does not open.
JInv ==
  /\ gate \in Gate /\ gate.watermark < gate.epoch
  /\ status \in [Attempts -> Terminal \cup {"none", "active", "unconfirmed"}]
  /\ claims \in [Attempts -> Claim \cup {NoClaim}]
  /\ conflicts \subseteq {Held(a) : a \in Attempts}
  /\ quarantined \subseteq Accounts /\ offDone \in BOOLEAN
  /\ \A c, d \in conflicts : c.resource = d.resource => c = d
  /\ \A a \in Unresolved : /\ Held(a) \in conflicts
                           /\ claims[a] # NoClaim /\ claims[a].generation = gate.generation
  /\ \A a \in Active : claims[a].boot = gate.boot /\ gate.reconciled
  /\ gate.open => gate.reason = "restart"
  /\ offDone => Unresolved = {} /\ gate.reason = "off"

LEMMA JournalBegins == JournalInit => JInv
  <1> SUFFICES ASSUME JournalInit PROVE JInv
    OBVIOUS
  <1>1. Unresolved = {} /\ Active = {}
    BY DEF JournalInit, Unresolved, Active
  <1>2. gate \in Gate /\ gate.watermark < gate.epoch /\ ~gate.open
    BY JournalAssumption DEF JournalInit, Gate
  <1>3. status \in [Attempts -> Terminal \cup {"none", "active", "unconfirmed"}]
    BY DEF JournalInit
  <1> QED BY <1>1, <1>2, <1>3 DEF JournalInit, JInv

LEMMA JournalStep == JInv /\ [JournalNext]_journalVars => JInv'
  <1> SUFFICES ASSUME JInv, [JournalNext]_journalVars PROVE JInv'
    OBVIOUS
  <1> USE JournalAssumption
  <1>1. ASSUME NEW a \in Attempts, SealClaim(a) PROVE JInv'
    <2>1. gate' = gate /\ status' = status /\ Unresolved' = Unresolved /\ Active' = Active
      BY <1>1 DEF SealClaim, Unresolved, Active
    <2>2. claims' \in [Attempts -> Claim \cup {NoClaim}]
      BY <1>1 DEF SealClaim, JInv, Gate, Claim
    <2>3. \A b \in Unresolved : claims'[b] = claims[b]
      BY <1>1 DEF SealClaim, JInv, Unresolved
    <2>4. Active \subseteq Unresolved
      BY DEF Active, Unresolved
    <2> QED BY <1>1, <2>1, <2>2, <2>3, <2>4 DEF SealClaim, JInv, Held
  <1>2. ASSUME NEW a \in Attempts, RecordBegin(a) PROVE JInv'
    <2>1. Unresolved' = Unresolved \cup {a} /\ Active' = Active \cup {a}
      BY <1>2 DEF RecordBegin, JInv, Unresolved, Active
    <2>2. status' \in [Attempts -> Terminal \cup {"none", "active", "unconfirmed"}]
      BY <1>2 DEF RecordBegin, JInv
    <2>3. conflicts' = conflicts \cup {Held(a)}
      BY <1>2 DEF RecordBegin, Held
    <2>4. \A c, d \in conflicts' : c.resource = d.resource => c = d
      BY <1>2, <2>3 DEF RecordBegin, JInv, Held
    <2> QED BY <1>2, <2>1, <2>2, <2>3, <2>4 DEF RecordBegin, CurrentClaim, JInv, Held
  <1>3. ASSUME NEW a \in Attempts, MarkUncertain(a) PROVE JInv'
    <2>1. Unresolved' = Unresolved /\ Active' = Active \ {a}
      BY <1>3 DEF MarkUncertain, JInv, Unresolved, Active
    <2>2. status' \in [Attempts -> Terminal \cup {"none", "active", "unconfirmed"}]
      BY <1>3 DEF MarkUncertain, JInv
    <2> QED BY <1>3, <2>1, <2>2 DEF MarkUncertain, JInv, Held
  <1>4. ASSUME NEW a \in Attempts, NEW o \in Terminal, RecordVerifiedOutcome(a, o) PROVE JInv'
    <2>1. Unresolved' = Unresolved \ {a} /\ Active' = Active \ {a}
      BY <1>4 DEF RecordVerifiedOutcome, JInv, Unresolved, Active, Terminal
    <2>2. status' \in [Attempts -> Terminal \cup {"none", "active", "unconfirmed"}]
      BY <1>4 DEF RecordVerifiedOutcome, JInv
    <2>3. conflicts' = conflicts \ {Held(a)}
      BY <1>4 DEF RecordVerifiedOutcome, Held
    <2>4. \A b \in Unresolved' : Held(b) \in conflicts'
      <3> SUFFICES ASSUME NEW b \in Unresolved' PROVE Held(b) \in conflicts'
        OBVIOUS
      <3>1. Held(b) # Held(a)
        BY <2>1 DEF Held
      <3> QED BY <2>1, <2>3, <3>1 DEF JInv
    <2> QED BY <1>4, <2>1, <2>2, <2>3, <2>4 DEF RecordVerifiedOutcome, JInv
  <1>5. ASSUME NEW x \in Accounts, QuarantineAccount(x) \/ ReleaseAccount(x) PROVE JInv'
    BY <1>5 DEF QuarantineAccount, ReleaseAccount, JInv, Unresolved, Active, Held
  <1>6. CASE StartBoot
    <2>1. Unresolved' = Unresolved /\ Active' = {}
      BY <1>6 DEF StartBoot, JInv, Unresolved, Active
    <2>2. status' \in [Attempts -> Terminal \cup {"none", "active", "unconfirmed"}]
      BY <1>6 DEF StartBoot, JInv
    <2>3. /\ gate.boot + 1 \in 0..MaxBoots
          /\ gate' = [gate EXCEPT !.open = FALSE, !.boot = @ + 1, !.reconciled = FALSE,
                                  !.reason = IF Commanded THEN @ ELSE "restart"]
      BY <1>6 DEF StartBoot, JInv, Gate
    <2>4. gate' \in Gate /\ gate'.watermark < gate'.epoch /\ ~gate'.open
      BY <2>3 DEF JInv, Gate
    <2>5. /\ gate'.generation = gate.generation
          /\ gate.reason = "off" => gate'.reason = "off"
      BY <2>3 DEF JInv, Gate, Commanded
    <2> QED BY <1>6, <2>1, <2>2, <2>4, <2>5 DEF StartBoot, JInv, Held
  <1>7. CASE CompleteBootRecovery
    <2>1. Unresolved' = Unresolved /\ Active' = Active
      BY <1>7 DEF CompleteBootRecovery, Unresolved, Active
    <2>2. Unresolved = {} /\ Active = {}
      BY <1>7 DEF CompleteBootRecovery, Outstanding, Unresolved, Active
    <2>3. gate' \in Gate /\ gate'.watermark < gate'.epoch /\ gate'.reason = gate.reason
          /\ (gate'.open => gate'.reason = "restart")
      BY <1>7 DEF CompleteBootRecovery, JInv, Gate, Commanded
    <2> QED BY <1>7, <2>1, <2>2, <2>3 DEF CompleteBootRecovery, JInv, Held
  <1>8. CASE RequestOff
    <2>1. Unresolved' = Unresolved /\ Active' = Active
      BY <1>8 DEF RequestOff, Unresolved, Active
    <2>2. gate' \in Gate /\ gate'.watermark < gate'.epoch /\ ~gate'.open /\ gate'.reason = "off"
          /\ gate'.generation = gate.generation /\ gate'.boot = gate.boot
          /\ gate'.reconciled = gate.reconciled
      BY <1>8 DEF RequestOff, JInv, Gate
    <2>3. offDone' \in BOOLEAN /\ (offDone' => Unresolved = {})
      BY <1>8 DEF RequestOff, Outstanding, JInv
    <2> QED BY <1>8, <2>1, <2>2, <2>3 DEF RequestOff, JInv, Held
  <1>9. ASSUME NEW g \in Generations, RequestRotation(g) PROVE JInv'
    <2>1. Unresolved' = Unresolved /\ Active' = Active
      BY <1>9 DEF RequestRotation, Unresolved, Active
    <2>2. CASE gate' = [gate EXCEPT !.open = FALSE, !.reason = "rotation", !.target = g]
      <3>1. gate' \in Gate /\ gate'.watermark < gate'.epoch /\ ~gate'.open
        BY <2>2 DEF JInv, Gate
      <3>2. /\ gate'.boot = gate.boot /\ gate'.reconciled = gate.reconciled
            /\ gate'.generation = gate.generation
        BY <2>2 DEF JInv, Gate
      <3>3. ~offDone
        BY <1>9 DEF RequestRotation, JInv
      <3> QED BY <1>9, <2>1, <3>1, <3>2, <3>3 DEF RequestRotation, JInv, Held
    <2>3. CASE /\ ~Outstanding /\ gate.reconciled /\ gate.epoch < MaxRotations
               /\ gate' = [[gate EXCEPT !.open = FALSE, !.reason = "rotation", !.target = g]
                            EXCEPT !.generation = g, !.epoch = @ + 1,
                                   !.watermark = gate.epoch, !.target = NoGeneration]
      <3>1. gate.epoch + 1 \in 0..MaxRotations
        BY <2>3 DEF JInv, Gate
      <3>2. gate' \in Gate /\ gate'.watermark < gate'.epoch /\ ~gate'.open
        <4>1. gate \in Gate /\ gate.epoch \in Int /\ gate.epoch < gate.epoch + 1
          BY DEF JInv, Gate
        <4>2. gate' = [gate EXCEPT !.open = FALSE, !.reason = "rotation",
                                   !.target = NoGeneration, !.generation = g,
                                   !.epoch = gate.epoch + 1, !.watermark = gate.epoch]
          BY <2>3, <4>1 DEF Gate
        <4>3. gate' \in Gate
          BY <3>1, <4>1, <4>2 DEF Gate
        <4> QED BY <4>1, <4>2, <4>3 DEF Gate
      <3>3. Unresolved = {} /\ Active = {}
        BY <2>3 DEF Outstanding, Unresolved, Active
      <3>4. ~offDone
        BY <1>9 DEF RequestRotation, JInv
      <3> QED BY <1>9, <2>1, <3>2, <3>3, <3>4 DEF RequestRotation, JInv, Held
    <2> QED
      BY <1>9, <2>2, <2>3 DEF RequestRotation
  <1>10. CASE UNCHANGED journalVars
    BY <1>10 DEF journalVars, JInv, Unresolved, Active, Held
  <1> QED BY <1>1, <1>2, <1>3, <1>4, <1>5, <1>6, <1>7, <1>8, <1>9, <1>10 DEF JournalNext

\* Fenced: whatever ends, restarts or rotates, attempts that may still land are
\* remembered with their note, their credential generation and a closed gate.
THEOREM AttemptsFenced == JournalSpec => []Fenced
  <1>1. JInv => Fenced
    <2> SUFFICES ASSUME JInv PROVE Fenced
      OBVIOUS
    <2>1. JournalTypeOK
      BY DEF JInv, Gate, JournalTypeOK, Held
    <2>2. \A a, b \in Unresolved : Resource(a) = Resource(b) => a = b
      BY DEF JInv, Held
    <2> QED BY <2>1, <2>2 DEF JInv, Fenced
  <1> QED BY <1>1, JournalBegins, JournalStep, PTL DEF JournalSpec

-----------------------------------------------------------------------------
\* The places of the Owner and of a Worker that hold the lock.
OwnerSteps == {"create", "write", "data", "entry", "revoke", "confirm"}
WorkerSteps == {"claim", "syncClaim", "reserve", "syncOperation", "put", "readback"}
Marker == [text : {"none", "empty", "whole"}, data : BOOLEAN, entry : BOOLEAN]
Rows == {"none", "approved", "claimed", "revoked", "unconfirmed"}
NameStates == {"none", "cached", "durable"}

RowTypes ==
  /\ ledger \in [Runs -> Rows] /\ marker \in [Runs -> Marker]
  /\ claimed \in [Runs -> NameStates] /\ reserved \in [Runs -> NameStates]
  /\ reconciled \in BOOLEAN /\ stopped \subseteq Runs
  /\ leased \in [Runs -> Nat] /\ sent \in [Runs -> Nat]

\* Only the holder of the lock is anywhere, and it has a run.
Exclusive ==
  /\ at \in [Processes -> OwnerSteps \cup WorkerSteps \cup {"idle"}]
  /\ running \in [Processes -> Runs \cup {NoRun}]
  /\ holder \in Processes \cup {Unlocked}
  /\ \A p \in Processes : IF holder = p THEN at[p] # "idle" /\ running[p] \in Runs
                                        ELSE at[p] = "idle" /\ running[p] = NoRun
  /\ at[Owner] \in OwnerSteps \cup {"idle"}
  /\ \A w \in EffectWorkers : at[w] \in WorkerSteps \cup {"idle"}

\* How far the stop in progress is.
StopBound ==
  LET m == marker[running[Owner]]
  IN  /\ at[Owner] = "write" => m.text = "empty"
      /\ at[Owner] \in {"data", "entry", "revoke", "confirm"} => m.text = "whole"
      /\ at[Owner] \in {"entry", "revoke", "confirm"} => m.data
      /\ at[Owner] \in {"revoke", "confirm"} => m.entry

Acknowledged == \A r \in stopped : marker[r] = Durable /\ ledger[r] = "revoked"

\* The durable claim counts the lease, the lease the PUT.
LeaseBound ==
  /\ \A r \in Runs : /\ sent[r] <= leased[r] /\ leased[r] <= 1
                     /\ leased[r] = 1 => claimed[r] = "durable"
  /\ \A w \in EffectWorkers :
       LET r == running[w]
       IN  /\ at[w] = "syncClaim" => claimed[r] = "cached"
           /\ at[w] \in {"reserve", "syncOperation", "put", "readback"} => leased[r] = 1
           /\ at[w] \in {"reserve", "syncOperation", "put"} => sent[r] = 0

\* No effect is inside a run whose stop was acknowledged.
NoneStopped == \A w \in EffectWorkers : running[w] \notin stopped

OInv == RowTypes /\ Exclusive /\ StopBound /\ Acknowledged /\ NoneStopped /\ LeaseBound

LEMMA OwnerBegins == OwnerInit => OInv
  <1> USE OwnerAssumption
  <1> SUFFICES ASSUME OwnerInit PROVE OInv
    OBVIOUS
  <1>1. RowTypes
    BY DEF OwnerInit, RowTypes, Rows, Marker, NoMarker, NameStates
  <1>2. Exclusive
    BY DEF OwnerInit, Exclusive, Processes
  <1>3. StopBound
    BY DEF OwnerInit, StopBound, Processes
  <1>4. Acknowledged /\ NoneStopped /\ LeaseBound
    BY DEF OwnerInit, Acknowledged, NoneStopped, LeaseBound, Processes
  <1> QED BY <1>1, <1>2, <1>3, <1>4 DEF OInv

\* What a lock taken, passed on and given back does to the places.
LEMMA LockExclusive ==
  ASSUME Exclusive, NEW p \in Processes, NEW r \in Runs,
         NEW s \in OwnerSteps \cup WorkerSteps,
         p = Owner => s \in OwnerSteps, p \in EffectWorkers => s \in WorkerSteps,
         Lock(p, r, s)
  PROVE  /\ Exclusive' /\ at'[p] = s /\ running'[p] = r
         /\ \A q \in Processes \ {p} : at'[q] = "idle"
  BY OwnerAssumption DEF Lock, Exclusive, Processes, OwnerSteps, WorkerSteps

LEMMA ProceedExclusive ==
  ASSUME Exclusive, NEW p \in Processes, NEW f \in OwnerSteps \cup WorkerSteps,
         NEW s \in OwnerSteps \cup WorkerSteps,
         p = Owner => s \in OwnerSteps, p \in EffectWorkers => s \in WorkerSteps,
         Proceed(p, f, s)
  PROVE  /\ Exclusive' /\ at[p] = f /\ at'[p] = s /\ running' = running /\ running[p] \in Runs
         /\ \A q \in Processes \ {p} : at'[q] = "idle" /\ at[q] = "idle"
  BY OwnerAssumption DEF Proceed, Exclusive, Processes, OwnerSteps, WorkerSteps

LEMMA UnlockExclusive ==
  ASSUME Exclusive, NEW p \in Processes, holder = p, Unlock(p)
  PROVE  Exclusive' /\ \A q \in Processes : at'[q] = "idle" /\ running'[q] = NoRun
  BY OwnerAssumption DEF Unlock, Exclusive, Processes, OwnerSteps, WorkerSteps

\* Syncing a whole marker loses nothing of it.
LEMMA MarkerSynced ==
  ASSUME NEW n \in Marker
  PROVE  /\ [n EXCEPT !.data = TRUE] \in Marker /\ [n EXCEPT !.entry = TRUE] \in Marker
         /\ [n EXCEPT !.data = TRUE].data /\ [n EXCEPT !.entry = TRUE].entry
         /\ [n EXCEPT !.entry = TRUE].data = n.data
         /\ [n EXCEPT !.data = TRUE].text = n.text /\ [n EXCEPT !.entry = TRUE].text = n.text
         /\ n.text = "whole" /\ n.data /\ n.entry => n = Durable
         /\ n = Durable => /\ [n EXCEPT !.data = TRUE] = Durable
                           /\ [n EXCEPT !.entry = TRUE] = Durable
  <1>1. /\ [n EXCEPT !.data = TRUE] \in Marker /\ [n EXCEPT !.entry = TRUE] \in Marker
        /\ [n EXCEPT !.data = TRUE].data /\ [n EXCEPT !.entry = TRUE].entry
        /\ [n EXCEPT !.entry = TRUE].data = n.data /\ [n EXCEPT !.data = TRUE].entry = n.entry
        /\ [n EXCEPT !.data = TRUE].text = n.text /\ [n EXCEPT !.entry = TRUE].text = n.text
    BY DEF Marker
  <1>2. \A m \in Marker : m.text = "whole" /\ m.data /\ m.entry => m = Durable
    BY DEF Marker, Durable
  <1>3. Durable.text = "whole" /\ Durable.data /\ Durable.entry
    BY DEF Durable
  <1>4. n = Durable => /\ [n EXCEPT !.data = TRUE] = Durable
                       /\ [n EXCEPT !.entry = TRUE] = Durable
    <2> DEFINE d == [n EXCEPT !.data = TRUE]
               e == [n EXCEPT !.entry = TRUE]
    <2>1. n = Durable => /\ d \in Marker /\ d.text = "whole" /\ d.data /\ d.entry
                         /\ e \in Marker /\ e.text = "whole" /\ e.data /\ e.entry
      BY <1>1, <1>3
    <2> HIDE DEF d, e
    <2>2. n = Durable => d = Durable /\ e = Durable
      BY <1>2, <2>1
    <2> QED BY <2>2 DEF d, e
  <1> QED BY <1>1, <1>2, <1>4

\* The Owner's part.  While it has the lock no Worker is in an effect.
LEMMA OwnerActs ==
  ASSUME OInv,
         \/ Recover \/ \E r \in Runs : RegisterSigned(r) \/ ClaimSigned(r) \/ StopRun(r)
         \/ CreateMarker \/ WriteMarker \/ SyncMarker \/ SyncAuthorityRoot
         \/ Revoke \/ Confirm
  PROVE  OInv'
  <1> USE OwnerAssumption DEF OInv
  <1> Owner \in Processes /\ EffectWorkers \subseteq Processes
    BY DEF Processes
  <1>1. ASSUME LeaseBound, Exclusive', UNCHANGED <<claimed, leased, sent>>,
               \A w \in EffectWorkers : at'[w] = "idle"
        PROVE  LeaseBound'
    BY <1>1 DEF LeaseBound
  <1>0. ASSUME RowTypes', Exclusive', \A w \in EffectWorkers : at'[w] = "idle"
        PROVE  NoneStopped'
    BY <1>0 DEF RowTypes, Exclusive, NoneStopped
  <1>2. CASE Recover \/ \E r \in Runs : RegisterSigned(r) \/ ClaimSigned(r)
    <2>1. UNCHANGED <<marker, claimed, reserved, holder, at, running, stopped, leased, sent>>
      BY <1>2 DEF Recover, RegisterSigned, ClaimSigned, files, history
    <2>2. ledger' \in [Runs -> Rows] /\ reconciled' \in BOOLEAN
      BY <1>2 DEF Recover, RegisterSigned, ClaimSigned, RowTypes, Rows
    <2>3. \A r \in Runs : ledger[r] = "revoked" => ledger'[r] = "revoked"
      BY <1>2 DEF Recover, RegisterSigned, ClaimSigned, RowTypes
    <2>4. RowTypes' /\ Acknowledged'
      BY <2>1, <2>2, <2>3 DEF RowTypes, Acknowledged
    <2>5. Exclusive' /\ StopBound' /\ NoneStopped' /\ LeaseBound'
      BY <2>1 DEF Exclusive, StopBound, NoneStopped, LeaseBound
    <2> QED BY <2>4, <2>5
  <1>3. ASSUME NEW r \in Runs, StopRun(r) PROVE OInv'
    <2>1. UNCHANGED <<ledger, marker, claimed, reserved, reconciled, stopped, leased, sent>>
      BY <1>3 DEF StopRun, files, history
    <2>2. Exclusive' /\ at'[Owner] = "create" /\ \A q \in Processes \ {Owner} : at'[q] = "idle"
      BY <1>3, LockExclusive DEF StopRun, OwnerSteps
    <2>3. RowTypes' /\ Acknowledged' /\ StopBound' /\ LeaseBound'
      BY <1>1, <2>1, <2>2 DEF RowTypes, Acknowledged, StopBound
    <2> QED BY <1>0, <2>2, <2>3
  <1>4. ASSUME NEW m \in Marker, SetMarker(m), Exclusive', Stopping \in Runs,
               \A w \in EffectWorkers : at'[w] = "idle",
               marker[Stopping] = Durable => m = Durable
        PROVE  RowTypes' /\ Acknowledged' /\ LeaseBound' /\ marker'[Stopping] = m
    <2>1. UNCHANGED <<ledger, claimed, reserved, reconciled, stopped, leased, sent>>
      BY <1>4 DEF SetMarker, history
    <2>2. marker' = [marker EXCEPT ![Stopping] = m] /\ marker \in [Runs -> Marker]
      BY <1>4 DEF SetMarker, RowTypes
    <2>3. marker' \in [Runs -> Marker] /\ marker'[Stopping] = m
          /\ \A r \in Runs : r # Stopping => marker'[r] = marker[r]
      BY <1>4, <2>2
    <2>4. RowTypes' /\ LeaseBound'
      BY <1>1, <1>4, <2>1, <2>3 DEF RowTypes
    <2>5. Acknowledged'
      BY <1>4, <2>1, <2>3 DEF Acknowledged, RowTypes
    <2> QED BY <2>3, <2>4, <2>5
  <1>5. CASE CreateMarker
    <2>1. at[Owner] = "create" /\ holder = Owner /\ Stopping \in Runs
      BY <1>5 DEF CreateMarker, Exclusive, Stopping
    <2>2. marker[Stopping] \in Marker
      BY <2>1 DEF RowTypes
    <2>3. CASE marker[Stopping].text = "none" /\ Proceed(Owner, "create", "write")
               /\ SetMarker(NewMarker)
      <3>1. Exclusive' /\ at'[Owner] = "write" /\ running' = running
            /\ \A q \in Processes \ {Owner} : at'[q] = "idle"
        BY <2>3, ProceedExclusive DEF OwnerSteps
      <3>2. NewMarker \in Marker /\ marker[Stopping] # Durable
        BY <2>3 DEF NewMarker, Marker, Durable
      <3>3. RowTypes' /\ Acknowledged' /\ LeaseBound' /\ marker'[Stopping] = NewMarker
        BY <1>4, <2>1, <2>3, <3>1, <3>2
      <3>4. StopBound'
        BY <3>1, <3>3 DEF StopBound, Stopping, NewMarker
      <3> QED BY <1>0, <3>1, <3>3, <3>4
    <2>4. CASE marker[Stopping].text = "whole" /\ Proceed(Owner, "create", "data")
               /\ SetMarker(marker[Stopping])
      <3>1. Exclusive' /\ at'[Owner] = "data" /\ running' = running
            /\ \A q \in Processes \ {Owner} : at'[q] = "idle"
        BY <2>4, ProceedExclusive DEF OwnerSteps
      <3>2. RowTypes' /\ Acknowledged' /\ LeaseBound' /\ marker'[Stopping] = marker[Stopping]
        BY <1>4, <2>1, <2>2, <2>4, <3>1
      <3>3. StopBound'
        BY <2>4, <3>1, <3>2 DEF StopBound, Stopping
      <3> QED BY <1>0, <3>1, <3>2, <3>3
    <2>5. CASE Unlock(Owner) /\ SetMarker(marker[Stopping])
      <3>1. Exclusive' /\ \A q \in Processes : at'[q] = "idle"
        BY <2>1, <2>5, UnlockExclusive
      <3>2. RowTypes' /\ Acknowledged' /\ LeaseBound'
        BY <1>4, <2>1, <2>2, <2>5, <3>1
      <3>3. StopBound'
        BY <3>1 DEF StopBound
      <3> QED BY <1>0, <3>1, <3>2, <3>3
    <2> QED BY <1>5, <2>3, <2>4, <2>5 DEF CreateMarker
  <1>6. CASE WriteMarker
    <2> DEFINE m == [marker[Stopping] EXCEPT !.text = "whole"]
    <2>1. /\ Exclusive' /\ at[Owner] = "write" /\ at'[Owner] = "data" /\ running' = running
          /\ Stopping \in Runs /\ \A q \in Processes \ {Owner} : at'[q] = "idle"
      BY <1>6, ProceedExclusive DEF WriteMarker, OwnerSteps, Stopping
    <2>2. marker[Stopping] \in Marker /\ marker[Stopping].text = "empty"
      BY <2>1 DEF RowTypes, StopBound, Stopping
    <2>3. m \in Marker /\ m.text = "whole" /\ marker[Stopping] # Durable
      BY <2>2 DEF Marker, Durable
    <2>4. SetMarker(m)
      BY <1>6 DEF WriteMarker
    <2> HIDE DEF m
    <2>5. RowTypes' /\ Acknowledged' /\ LeaseBound' /\ marker'[Stopping] = m
      BY <1>4, <2>1, <2>3, <2>4
    <2>6. StopBound'
      BY <2>1, <2>3, <2>5 DEF StopBound, Stopping
    <2> QED BY <1>0, <2>1, <2>5, <2>6
  <1>7. CASE SyncMarker
    <2> DEFINE m == [marker[Stopping] EXCEPT !.data = TRUE]
    <2>1. /\ Exclusive' /\ at[Owner] = "data" /\ at'[Owner] = "entry" /\ running' = running
          /\ Stopping \in Runs /\ \A q \in Processes \ {Owner} : at'[q] = "idle"
      BY <1>7, ProceedExclusive DEF SyncMarker, OwnerSteps, Stopping
    <2>2. marker[Stopping] \in Marker /\ marker[Stopping].text = "whole"
      BY <2>1 DEF RowTypes, StopBound, Stopping
    <2>3. m \in Marker /\ m.text = "whole" /\ m.data /\ (marker[Stopping] = Durable => m = Durable)
      BY <2>2, MarkerSynced
    <2>4. SetMarker(m)
      BY <1>7 DEF SyncMarker
    <2> HIDE DEF m
    <2>5. RowTypes' /\ Acknowledged' /\ LeaseBound' /\ marker'[Stopping] = m
      BY <1>4, <2>1, <2>3, <2>4
    <2>6. StopBound'
      BY <2>1, <2>3, <2>5 DEF StopBound, Stopping
    <2> QED BY <1>0, <2>1, <2>5, <2>6
  <1>8. CASE SyncAuthorityRoot
    <2> DEFINE m == [marker[Stopping] EXCEPT !.entry = TRUE]
    <2>1. /\ Exclusive' /\ at[Owner] = "entry" /\ at'[Owner] = "revoke" /\ running' = running
          /\ Stopping \in Runs /\ \A q \in Processes \ {Owner} : at'[q] = "idle"
      BY <1>8, ProceedExclusive DEF SyncAuthorityRoot, OwnerSteps, Stopping
    <2>2. marker[Stopping] \in Marker /\ marker[Stopping].text = "whole" /\ marker[Stopping].data
      BY <2>1 DEF RowTypes, StopBound, Stopping
    <2>3. /\ m \in Marker /\ m.text = "whole" /\ m.data /\ m.entry
          /\ marker[Stopping] = Durable => m = Durable
      BY <2>2, MarkerSynced
    <2>4. SetMarker(m)
      BY <1>8 DEF SyncAuthorityRoot
    <2> HIDE DEF m
    <2>5. RowTypes' /\ Acknowledged' /\ LeaseBound' /\ marker'[Stopping] = m
      BY <1>4, <2>1, <2>3, <2>4
    <2>6. StopBound'
      BY <2>1, <2>3, <2>5 DEF StopBound, Stopping
    <2> QED BY <1>0, <2>1, <2>5, <2>6
  <1>9. CASE Revoke
    <2>1. /\ Exclusive' /\ at[Owner] = "revoke" /\ at'[Owner] = "confirm" /\ running' = running
          /\ Stopping \in Runs /\ \A q \in Processes \ {Owner} : at'[q] = "idle"
      BY <1>9, ProceedExclusive DEF Revoke, OwnerSteps, Stopping
    <2>2. UNCHANGED <<marker, claimed, reserved, reconciled, stopped, leased, sent>>
      BY <1>9 DEF Revoke, files, history
    <2>3. ledger' \in [Runs -> Rows] /\ \A r \in Runs : ledger[r] = "revoked" => ledger'[r] = "revoked"
      BY <1>9, <2>1 DEF Revoke, RowTypes, Rows
    <2>4. RowTypes' /\ Acknowledged' /\ LeaseBound'
      BY <1>1, <2>1, <2>2, <2>3 DEF RowTypes, Acknowledged
    <2>5. StopBound'
      BY <2>1, <2>2 DEF StopBound
    <2> QED BY <1>0, <2>1, <2>4, <2>5
  <1>10. CASE Confirm
    <2>1. at[Owner] = "confirm" /\ holder = Owner /\ Stopping \in Runs
      BY <1>10 DEF Confirm, Exclusive, Stopping
    <2>2. Exclusive' /\ \A q \in Processes : at'[q] = "idle"
      BY <1>10, <2>1, UnlockExclusive DEF Confirm
    <2>3. UNCHANGED <<ledger, marker, claimed, reserved, reconciled, leased, sent>>
      BY <1>10 DEF Confirm, files
    <2>4. marker[Stopping] \in Marker /\ marker[Stopping].text = "whole"
          /\ marker[Stopping].data /\ marker[Stopping].entry
      BY <2>1 DEF RowTypes, StopBound, Stopping
    <2>5. marker[Stopping] = Durable
      BY <2>4 DEF Marker, Durable
    <2>6. stopped' \subseteq Runs
          /\ \A r \in stopped' : r \in stopped \/ (r = Stopping /\ ledger[r] = "revoked")
      BY <1>10, <2>1 DEF Confirm, RowTypes
    <2>7. RowTypes' /\ Acknowledged' /\ LeaseBound'
      BY <1>1, <2>2, <2>3, <2>5, <2>6 DEF RowTypes, Acknowledged
    <2>8. StopBound'
      BY <2>2 DEF StopBound
    <2> QED BY <1>0, <2>2, <2>7, <2>8
  <1> QED BY <1>2, <1>3, <1>5, <1>6, <1>7, <1>8, <1>9, <1>10

\* A Worker's part.  The Owner is idle, and no stop is acknowledged meanwhile.
LEMMA WorkerActs ==
  ASSUME OInv, NEW w \in EffectWorkers,
         \/ \E r \in Runs : Effect(w, r)
         \/ ClaimRun(w) \/ EnterEffect(w) \/ ReserveOperation(w) \/ SyncOperation(w)
         \/ Put(w) \/ LeaveEffect(w)
  PROVE  OInv'
  <1> USE OwnerAssumption DEF OInv
  <1> DEFINE r == running[w]
  <1> w \in Processes /\ Owner \in Processes /\ Owner # w /\ EffectWorkers \subseteq Processes
    BY DEF Processes
  <1>1. ASSUME Exclusive', UNCHANGED <<ledger, marker, reconciled, stopped>>,
               \A q \in Processes \ {w} : at'[q] = "idle", running'[w] \notin stopped,
               claimed' \in [Runs -> NameStates], reserved' \in [Runs -> NameStates],
               leased' \in [Runs -> Nat], sent' \in [Runs -> Nat], LeaseBound'
        PROVE  OInv'
    <2>1. RowTypes' /\ StopBound'
      BY <1>1 DEF RowTypes, StopBound
    <2>2. Acknowledged'
      BY <1>1 DEF Acknowledged
    <2>3. NoneStopped'
      BY <1>1 DEF NoneStopped, Exclusive, RowTypes
    <2> QED BY <1>1, <2>1, <2>2, <2>3
  <1>2. ASSUME holder = w, Unlock(w), UNCHANGED <<ledger, marker, claimed, reserved>>,
               UNCHANGED <<reconciled, stopped, leased, sent>>
        PROVE  OInv'
    <2>1. Exclusive' /\ \A q \in Processes : at'[q] = "idle" /\ running'[q] = NoRun
      BY <1>2, UnlockExclusive
    <2>2. LeaseBound'
      BY <1>2, <2>1 DEF LeaseBound
    <2> QED BY <1>1, <1>2, <2>1, <2>2 DEF RowTypes
  <1>3. ASSUME NEW s \in WorkerSteps, at[w] = s
        PROVE  holder = w /\ r \in Runs /\ r \notin stopped /\ leased[r] \in Nat /\ sent[r] \in Nat
    BY <1>3 DEF Exclusive, WorkerSteps, NoneStopped, RowTypes
  <1>4. ASSUME NEW f \in WorkerSteps, NEW s \in WorkerSteps, Proceed(w, f, s)
        PROVE  /\ Exclusive' /\ at[w] = f /\ at'[w] = s /\ running' = running
               /\ r \in Runs /\ running'[w] \notin stopped
               /\ \A q \in Processes \ {w} : at'[q] = "idle"
    BY <1>4, ProceedExclusive DEF NoneStopped
  <1>5. ASSUME NEW x \in Runs, Effect(w, x) PROVE OInv'
    <2>1. UNCHANGED <<ledger, marker, claimed, reserved, reconciled, stopped, leased, sent>>
      BY <1>5 DEF Effect, files, history
    <2>2. /\ Exclusive' /\ at'[w] = "claim" /\ running'[w] = x
          /\ \A q \in Processes \ {w} : at'[q] = "idle"
      BY <1>5, LockExclusive DEF Effect, WorkerSteps
    <2>3. x \notin stopped
      BY <1>5 DEF Effect, Signed, Acknowledged, Durable
    <2>4. LeaseBound'
      BY <2>1, <2>2 DEF LeaseBound
    <2> QED BY <1>1, <2>1, <2>2, <2>3, <2>4 DEF RowTypes
  <1>6. CASE ClaimRun(w)
    <2>1. /\ at[w] = "claim" /\ reserved' = reserved
          /\ UNCHANGED <<ledger, marker, reconciled, stopped, leased, sent>>
      BY <1>6 DEF ClaimRun, CreateName, history
    <2>2. holder = w /\ r \in Runs
      BY <1>3, <2>1 DEF WorkerSteps
    <2>3. CASE claimed[r] = "none"
      <3>1. Proceed(w, "claim", "syncClaim") /\ claimed' = [claimed EXCEPT ![r] = "cached"]
        BY <1>6, <2>3 DEF ClaimRun, CreateName
      <3>2. /\ Exclusive' /\ at'[w] = "syncClaim" /\ running' = running
            /\ running'[w] \notin stopped /\ \A q \in Processes \ {w} : at'[q] = "idle"
        BY <1>4, <3>1 DEF WorkerSteps
      <3>3. claimed' \in [Runs -> NameStates]
        BY <3>1 DEF RowTypes, NameStates
      <3>4. LeaseBound'
        BY <2>1, <2>2, <2>3, <3>1, <3>2 DEF LeaseBound, RowTypes
      <3> QED BY <1>1, <2>1, <3>2, <3>3, <3>4 DEF RowTypes
    <2>4. CASE claimed[r] # "none"
      BY <1>2, <1>6, <2>1, <2>2, <2>4 DEF ClaimRun, CreateName
    <2> QED BY <2>3, <2>4
  <1>7. CASE EnterEffect(w)
    <2>1. UNCHANGED <<ledger, marker, reserved, reconciled, stopped, sent>>
      BY <1>7 DEF EnterEffect
    <2>2. /\ Exclusive' /\ at[w] = "syncClaim" /\ at'[w] = "reserve" /\ running' = running
          /\ r \in Runs /\ running'[w] \notin stopped /\ \A q \in Processes \ {w} : at'[q] = "idle"
      BY <1>4, <1>7 DEF EnterEffect, WorkerSteps
    <2>3. /\ claimed' = [claimed EXCEPT ![r] = "durable"]
          /\ leased' = [leased EXCEPT ![r] = leased[r] + 1]
      BY <1>7 DEF EnterEffect
    <2>4. leased[r] = 0 /\ sent[r] = 0
      BY <2>2 DEF LeaseBound, RowTypes
    <2>5. claimed' \in [Runs -> NameStates] /\ leased' \in [Runs -> Nat]
      <3>1. claimed' \in [Runs -> NameStates]
        BY <2>3 DEF RowTypes, NameStates
      <3>2. leased[r] + 1 \in Nat /\ leased \in [Runs -> Nat]
        BY <2>4 DEF RowTypes
      <3> QED BY <2>3, <3>1, <3>2
    <2>6. LeaseBound'
      BY <2>1, <2>2, <2>3, <2>4 DEF LeaseBound, RowTypes
    <2> QED BY <1>1, <2>1, <2>2, <2>5, <2>6 DEF RowTypes
  <1>8. CASE ReserveOperation(w)
    <2>1. /\ at[w] = "reserve" /\ claimed' = claimed
          /\ UNCHANGED <<ledger, marker, reconciled, stopped, leased, sent>>
      BY <1>8 DEF ReserveOperation, CreateName, history
    <2>2. holder = w
      BY <1>3, <2>1 DEF WorkerSteps
    <2>3. CASE reserved[r] = "none"
      <3>1. Proceed(w, "reserve", "syncOperation") /\ reserved' = [reserved EXCEPT ![r] = "cached"]
        BY <1>8, <2>3 DEF ReserveOperation, CreateName
      <3>2. /\ Exclusive' /\ at'[w] = "syncOperation" /\ running' = running
            /\ running'[w] \notin stopped /\ \A q \in Processes \ {w} : at'[q] = "idle"
        BY <1>4, <3>1 DEF WorkerSteps
      <3>3. reserved' \in [Runs -> NameStates]
        BY <3>1 DEF RowTypes, NameStates
      <3>4. LeaseBound'
        BY <2>1, <3>2 DEF LeaseBound
      <3> QED BY <1>1, <2>1, <3>2, <3>3, <3>4 DEF RowTypes
    <2>4. CASE reserved[r] # "none"
      BY <1>2, <1>8, <2>1, <2>2, <2>4 DEF ReserveOperation, CreateName
    <2> QED BY <2>3, <2>4
  <1>9. CASE SyncOperation(w)
    <2>1. UNCHANGED <<ledger, marker, claimed, reconciled, stopped, leased, sent>>
      BY <1>9 DEF SyncOperation, history
    <2>2. /\ Exclusive' /\ at[w] = "syncOperation" /\ at'[w] = "put" /\ running' = running
          /\ running'[w] \notin stopped /\ \A q \in Processes \ {w} : at'[q] = "idle"
      BY <1>4, <1>9 DEF SyncOperation, WorkerSteps
    <2>3. reserved' \in [Runs -> NameStates]
      BY <1>9 DEF SyncOperation, RowTypes, NameStates
    <2>4. LeaseBound'
      BY <2>1, <2>2 DEF LeaseBound
    <2> QED BY <1>1, <2>1, <2>2, <2>3, <2>4 DEF RowTypes
  <1>10. CASE Put(w)
    <2>1. at[w] = "put" /\ UNCHANGED <<ledger, marker, claimed, reserved, reconciled, stopped, leased>>
      BY <1>10 DEF Put, files
    <2>2. holder = w
      BY <1>3, <2>1 DEF WorkerSteps
    <2>3. CASE Signed(r)
      <3>1. Proceed(w, "put", "readback") /\ sent' = [sent EXCEPT ![r] = sent[r] + 1]
        BY <1>10, <2>3 DEF Put
      <3>2. /\ Exclusive' /\ at'[w] = "readback" /\ running' = running /\ r \in Runs
            /\ running'[w] \notin stopped /\ \A q \in Processes \ {w} : at'[q] = "idle"
        BY <1>4, <3>1 DEF WorkerSteps
      <3>3. leased[r] = 1 /\ sent[r] = 0
        BY <2>1 DEF LeaseBound
      <3>4. sent' \in [Runs -> Nat]
        <4>1. sent[r] + 1 \in Nat /\ sent \in [Runs -> Nat]
          BY <3>3 DEF RowTypes
        <4> QED BY <3>1, <4>1
      <3>5. LeaseBound'
        BY <2>1, <3>1, <3>2, <3>3 DEF LeaseBound, RowTypes
      <3> QED BY <1>1, <2>1, <3>2, <3>4, <3>5 DEF RowTypes
    <2>4. CASE ~Signed(r)
      BY <1>2, <1>10, <2>1, <2>2, <2>4 DEF Put
    <2> QED BY <2>3, <2>4
  <1>11. CASE LeaveEffect(w)
    <2>1. at[w] = "readback" /\ Unlock(w)
          /\ UNCHANGED <<ledger, marker, claimed, reserved, reconciled, stopped, leased, sent>>
      BY <1>11 DEF LeaveEffect, files, history
    <2>2. holder = w
      BY <1>3, <2>1 DEF WorkerSteps
    <2> QED BY <1>2, <2>1, <2>2
  <1> QED BY <1>5, <1>6, <1>7, <1>8, <1>9, <1>10, <1>11

\* A power loss keeps what was synced.
LEMMA KeptDurable ==
  ASSUME NEW n \in Marker, NEW m \in KeptMarker(n)
  PROVE  m \in Marker /\ (n = Durable => m = Durable)
  <1>1. ASSUME NEW t \in IF n.data THEN {n.text} ELSE {n.text, "empty"},
               m = [text |-> t, data |-> TRUE, entry |-> TRUE]
        PROVE  m \in Marker /\ (n = Durable => m = Durable)
    <2>1. t \in {"none", "empty", "whole"}
      BY DEF Marker
    <2>2. n = Durable => t = "whole"
      BY DEF Durable
    <2> QED BY <1>1, <2>1, <2>2 DEF Marker, Durable
  <1>2. CASE m = NoMarker /\ ~n.entry
    BY <1>2 DEF NoMarker, Marker, Durable
  <1> QED BY <1>1, <1>2 DEF KeptMarker

\* The faults: they leave the lock with nobody, or with whom it was.
LEMMA FaultsKeep ==
  ASSUME OInv, (\E p \in Processes : Interrupted(p)) \/ OwnerDies \/ PowerFails
  PROVE  OInv'
  <1> USE OwnerAssumption DEF OInv
  <1> Owner \in Processes /\ EffectWorkers \subseteq Processes
    BY DEF Processes
  <1>1. ASSUME RowTypes', Acknowledged', Exclusive',
               UNCHANGED <<leased, sent>>,
               \A x \in Runs : claimed[x] = "durable" => claimed'[x] = "durable",
               \A q \in Processes : at'[q] = "idle" /\ running'[q] = NoRun
        PROVE  OInv'
    <2>1. StopBound' /\ NoneStopped'
      BY <1>1 DEF StopBound, NoneStopped, RowTypes
    <2>2. LeaseBound'
      BY <1>1 DEF LeaseBound
    <2> QED BY <1>1, <2>1, <2>2
  <1>2. ASSUME NEW p \in Processes, holder = p, Unlock(p), reconciled' \in BOOLEAN,
               UNCHANGED <<ledger, marker, claimed, reserved, stopped, leased, sent>>
        PROVE  OInv'
    <2>1. Exclusive' /\ \A q \in Processes : at'[q] = "idle" /\ running'[q] = NoRun
      BY <1>2, UnlockExclusive
    <2>2. RowTypes' /\ Acknowledged'
      BY <1>2 DEF RowTypes, Acknowledged
    <2> QED BY <1>1, <1>2, <2>1, <2>2
  <1>3. ASSUME NEW p \in Processes, Interrupted(p) PROVE OInv'
    <2>1. holder = p
      BY <1>3 DEF Interrupted, Exclusive
    <2> QED BY <1>2, <1>3, <2>1 DEF Interrupted, files, history, RowTypes
  <1>4. CASE OwnerDies
    <2>1. reconciled' \in BOOLEAN
          /\ UNCHANGED <<ledger, marker, claimed, reserved, stopped, leased, sent>>
      BY <1>4 DEF OwnerDies, files, history
    <2>2. CASE holder = Owner
      BY <1>2, <1>4, <2>1, <2>2 DEF OwnerDies
    <2>3. CASE UNCHANGED <<holder, at, running>>
      BY <2>1, <2>3 DEF RowTypes, Exclusive, StopBound, Acknowledged, NoneStopped, LeaseBound
    <2> QED BY <1>4, <2>2, <2>3 DEF OwnerDies
  <1>5. CASE PowerFails
    <2>1. /\ UNCHANGED <<ledger, stopped, leased, sent>> /\ reconciled' = FALSE
          /\ holder' = Unlocked /\ at' = [p \in Processes |-> "idle"]
          /\ running' = [p \in Processes |-> NoRun]
      BY <1>5 DEF PowerFails, history
    <2>2. Exclusive' /\ \A q \in Processes : at'[q] = "idle" /\ running'[q] = NoRun
      BY <2>1 DEF Exclusive
    <2>3. PICK m \in [Runs -> UNION {KeptMarker(marker[x]) : x \in Runs}] :
            marker' = m /\ \A x \in Runs : m[x] \in KeptMarker(marker[x])
      BY <1>5 DEF PowerFails
    <2>4. \A x \in Runs : m[x] \in Marker /\ (marker[x] = Durable => m[x] = Durable)
      BY <2>3, KeptDurable DEF RowTypes
    <2>5. marker' \in [Runs -> Marker]
      BY <2>3, <2>4
    <2>6. /\ claimed' \in [Runs -> NameStates] /\ reserved' \in [Runs -> NameStates]
          /\ \A x \in Runs : claimed[x] = "durable" => claimed'[x] = "durable"
      <3>1. PICK c \in [Runs -> {"none", "durable"}] :
              claimed' = c /\ \A x \in Runs : c[x] \in KeptName(claimed[x])
        BY <1>5 DEF PowerFails
      <3>2. reserved' \in [Runs -> {"none", "durable"}]
        BY <1>5 DEF PowerFails
      <3>3. \A x \in Runs : claimed[x] = "durable" => c[x] = "durable"
        BY <3>1 DEF KeptName
      <3>4. \A f \in [Runs -> {"none", "durable"}] : f \in [Runs -> NameStates]
        BY DEF NameStates
      <3> QED BY <3>1, <3>2, <3>3, <3>4
    <2>7. RowTypes'
      BY <2>1, <2>5, <2>6 DEF RowTypes
    <2>8. Acknowledged'
      BY <2>1, <2>3, <2>4 DEF Acknowledged, RowTypes
    <2> QED BY <1>1, <2>1, <2>2, <2>6, <2>7, <2>8
  <1> QED BY <1>3, <1>4, <1>5

LEMMA OwnerKeeps == OwnerSpec => []OInv
  <1>1. OInv /\ [OwnerNext]_ownerVars => OInv'
    <2> SUFFICES ASSUME OInv, [OwnerNext]_ownerVars PROVE OInv'
      OBVIOUS
    <2>1. CASE UNCHANGED ownerVars
      BY <2>1 DEF ownerVars, OInv, RowTypes, Exclusive, StopBound, Acknowledged,
                  NoneStopped, LeaseBound
    <2> QED BY <2>1, OwnerActs, WorkerActs, FaultsKeep DEF OwnerNext
  <1> QED BY <1>1, OwnerBegins, PTL DEF OwnerSpec

\* StopIsFinal: the marker of an acknowledged stop is durable, so no power loss
\* takes it away, and a Worker that finds it does not begin.
THEOREM StopsAreFinal == OwnerSpec => []StopIsFinal
  <1>1. OInv => StopIsFinal
    BY DEF OInv, Acknowledged, NoneStopped, StopIsFinal
  <1> QED BY <1>1, OwnerKeeps, PTL

\* EffectOnce: an entered effect has a durable claim, and a claim is created once.
THEOREM EffectsOnce == OwnerSpec => []EffectOnce
  <1>1. OInv => EffectOnce
    <2> SUFFICES ASSUME OInv PROVE EffectOnce
      OBVIOUS
    <2>1. OwnerTypeOK
      BY DEF OInv, RowTypes, Exclusive, OwnerTypeOK, Rows, Marker, NameStates
    <2>2. ASSUME NEW r \in Runs PROVE leased[r] <= 1 /\ sent[r] <= 1
      <3>1. sent[r] <= leased[r] /\ leased[r] <= 1
        BY DEF OInv, LeaseBound
      <3>2. sent[r] \in Nat /\ leased[r] \in Nat
        BY DEF OInv, RowTypes
      <3> QED BY <3>1, <3>2
    <2> QED BY <2>1, <2>2 DEF EffectOnce
  <1> QED BY <1>1, OwnerKeeps, PTL
====
