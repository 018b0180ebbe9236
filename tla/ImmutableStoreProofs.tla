---- MODULE ImmutableStoreProofs ----
(***************************************************************************)
(* Proofs about ImmutableStore, for any writers, names, data and number of *)
(* calls: an acknowledged store survives every crash, no partial file is   *)
(* ever published, and the store implements the write-once register.       *)
(***************************************************************************)
EXTENDS ImmutableStore, TLAPS

Complete(f) == f.whole /\ f.synced

\* Only complete, synced files carry a final name; the disk lags behind the
\* live directory but never disagrees with it.
Published ==
  \A n \in Names :
    /\ cached[n] # NoFile => Complete(cached[n])
    /\ disk[n] # NoFile => disk[n] = cached[n]

\* What the steps of a call have established so far.
Progress ==
  \A w \in Writers :
    /\ pc[w] \in {"write", "syncData", "share", "rename", "compare"} =>
         staged[w] \in File /\ staged[w].data = call[w].data
    /\ pc[w] \in {"syncData", "share", "rename", "compare"} => staged[w].whole
    /\ pc[w] \in {"share", "rename", "compare"} => staged[w].synced
    /\ pc[w] \in {"syncDir", "compare"} => cached[call[w].name] # NoFile
    /\ pc[w] = "syncDir" => cached[call[w].name].data = call[w].data

Durable ==
  \A a \in acked : disk[a[2].name] # NoFile /\ disk[a[2].name].data = a[2].data

IInv == TypeOK /\ Published /\ Progress /\ Durable

-----------------------------------------------------------------------------

LEMMA InitIInv == Init => IInv
  <1> SUFFICES ASSUME Init PROVE IInv
    OBVIOUS
  <1>1. TypeOK
    BY DEF Init, TypeOK, Call, Steps
  <1>2. Published /\ Durable
    BY DEF Init, Published, Durable
  <1>3. Progress
    BY DEF Init, Progress
  <1> QED BY <1>1, <1>2, <1>3 DEF IInv

\* The step lemma, first for the types alone.
LEMMA TypeStep == TypeOK /\ Progress /\ [Next]_vars => TypeOK'
  <1> SUFFICES ASSUME TypeOK, Progress, [Next]_vars PROVE TypeOK'
    OBVIOUS
  <1> USE DEF TypeOK, tmps
  <1>1. ASSUME NEW w \in Writers, NEW n \in Names, NEW d \in Data, Begin(w, n, d)
        PROVE  TypeOK'
    <2>1. call[w].id + 1 \in 0..MaxCalls
      BY <1>1, MaxCallsAssumption DEF Begin, Call
    <2>2. call' \in [Writers -> Call]
      BY <1>1, <2>1 DEF Begin, Call
    <2> QED BY <1>1, <2>2 DEF Begin, Goto, Steps
  <1>2. ASSUME NEW w \in Writers, Abandon(w)
        PROVE  TypeOK'
    BY <1>2 DEF Abandon, Goto, Steps
  <1>3. ASSUME NEW w \in Writers, Lookup(w)
        PROVE  TypeOK'
    BY <1>2, <1>3 DEF Lookup, Goto, Steps
  <1>4. ASSUME NEW w \in Writers, CreateProbe(w) \/ RemoveProbe(w)
        PROVE  TypeOK'
    <2>1. Probe(w) \in TmpNames
      BY DEF Probe, TmpNames, Call
    <2> QED BY <1>4, <2>1 DEF CreateProbe, RemoveProbe, Goto, Steps
  <1>5. ASSUME NEW w \in Writers, CreateStage(w)
        PROVE  TypeOK'
    <2>1. Stage(w) \in TmpNames
      BY DEF Stage, TmpNames, Call
    <2>2. NewFile(call[w].data) \in File
      BY DEF NewFile, File, Call
    <2> QED BY <1>5, <2>1, <2>2 DEF CreateStage, Goto, Steps
  <1>6. ASSUME NEW w \in Writers, WriteAll(w) \/ SyncData(w) \/ Share(w)
        PROVE  TypeOK'
    <2>1. staged[w] \in File
      BY <1>6 DEF Progress, WriteAll, SyncData, Share
    <2>2. /\ [staged[w] EXCEPT !.whole = TRUE] \in File
          /\ [staged[w] EXCEPT !.synced = TRUE] \in File
          /\ [staged[w] EXCEPT !.shared = TRUE] \in File
      BY <2>1 DEF File
    <2>3. staged' \in [Writers -> File \cup {NoFile}]
      BY <1>6, <2>2 DEF WriteAll, SyncData, Share
    <2> QED BY <1>6, <2>3 DEF WriteAll, SyncData, Share, Goto, Steps
  <1>7. ASSUME NEW w \in Writers, Rename(w)
        PROVE  TypeOK'
    BY <1>7 DEF Rename, Goto, Steps, Call
  <1>8. ASSUME NEW w \in Writers, Compare(w)
        PROVE  TypeOK'
    BY <1>2, <1>8 DEF Compare, Goto, Steps
  <1>9. ASSUME NEW w \in Writers, SyncDir(w)
        PROVE  TypeOK'
    BY <1>9 DEF SyncDir, Goto, Steps
  <1>10. ASSUME NEW w \in Writers, Fail(w)
        PROVE  TypeOK'
    BY <1>2, <1>10 DEF Fail
  <1>11. ASSUME NEW w \in Writers, Kill(w)
        PROVE  TypeOK'
    BY <1>11 DEF Kill, Goto, Steps
  <1>12. CASE WriteBack
    BY <1>12 DEF WriteBack
  <1>13. ASSUME NEW torn \in BOOLEAN, PowerLoss(torn)
        PROVE  TypeOK'
    <2>1. \A n \in Names : AfterLoss(disk[n], torn) \in File \cup {NoFile}
      BY DEF AfterLoss, File
    <2> QED BY <1>13, <2>1 DEF PowerLoss, Steps
  <1>14. CASE UNCHANGED vars
    BY <1>14 DEF vars
  <1> QED BY <1>1, <1>3, <1>4, <1>5, <1>6, <1>7, <1>8, <1>9, <1>10, <1>11,
             <1>12, <1>13, <1>14 DEF Next

\* A power loss cannot tear a published file: all of them are synced.
LEMMA LossKeepsPublished ==
  ASSUME TypeOK, Published, NEW n \in Names, NEW torn \in BOOLEAN
  PROVE  AfterLoss(disk[n], torn) = disk[n]
  BY DEF AfterLoss, Published, Complete, TypeOK

LEMMA StepIInv == IInv /\ [Next]_vars => IInv'
  <1> SUFFICES ASSUME IInv, [Next]_vars PROVE IInv'
    OBVIOUS
  <1>0. TypeOK /\ TypeOK'
    BY TypeStep DEF IInv
  <1> SUFFICES Published' /\ Progress' /\ Durable'
    BY <1>0 DEF IInv
  <1> USE <1>0 DEF TypeOK, IInv, tmps
  \* Steps that leave the final names and the acknowledgements alone keep
  \* Published and Durable.
  <1>a. ASSUME UNCHANGED <<cached, disk, acked>> PROVE Published' /\ Durable'
    BY <1>a DEF Published, Durable, Complete
  <1>1. ASSUME NEW w \in Writers, NEW n \in Names, NEW d \in Data, Begin(w, n, d)
        PROVE  Published' /\ Progress' /\ Durable'
    <2>1. Progress'
      BY <1>1 DEF Begin, Goto, Progress
    <2> QED BY <1>1, <1>a, <2>1 DEF Begin
  <1>2. ASSUME NEW w \in Writers, Abandon(w)
        PROVE  Published' /\ Progress' /\ Durable'
    <2>1. Progress'
      BY <1>2 DEF Abandon, Goto, Progress
    <2> QED BY <1>2, <1>a, <2>1 DEF Abandon
  <1>3. ASSUME NEW w \in Writers, Lookup(w)
        PROVE  Published' /\ Progress' /\ Durable'
    <2>1. CASE Abandon(w)
      BY <1>2, <2>1
    <2>2. CASE ~Abandon(w)
      <3>1. Progress'
        BY <1>3, <2>2 DEF Lookup, Goto, Progress, SameBytes
      <3> QED BY <1>3, <2>2, <1>a, <3>1 DEF Lookup
    <2> QED BY <2>1, <2>2
  <1>4. ASSUME NEW w \in Writers, CreateProbe(w) \/ RemoveProbe(w)
        PROVE  Published' /\ Progress' /\ Durable'
    <2>1. Progress'
      BY <1>4 DEF CreateProbe, RemoveProbe, Goto, Progress
    <2> QED BY <1>4, <1>a, <2>1 DEF CreateProbe, RemoveProbe
  <1>5. ASSUME NEW w \in Writers, CreateStage(w)
        PROVE  Published' /\ Progress' /\ Durable'
    <2>1. NewFile(call[w].data) \in File /\ NewFile(call[w].data).data = call[w].data
      BY DEF NewFile, File, Call
    <2>2. Progress'
      BY <1>5, <2>1 DEF CreateStage, Goto, Progress
    <2> QED BY <1>5, <1>a, <2>2 DEF CreateStage
  <1>6. ASSUME NEW w \in Writers, WriteAll(w) \/ SyncData(w) \/ Share(w)
        PROVE  Published' /\ Progress' /\ Durable'
    <2>1. staged[w] \in File /\ staged[w].data = call[w].data
      BY <1>6 DEF Progress, WriteAll, SyncData, Share
    <2>2. /\ pc'[w] \in {"syncData", "share", "rename"}
          /\ staged'[w] \in File /\ staged'[w].data = call[w].data
          /\ staged'[w].whole
          /\ pc'[w] \in {"share", "rename"} => staged'[w].synced
      <3>1. CASE WriteAll(w)
        BY <3>1, <2>1 DEF WriteAll, Goto, File, Steps
      <3>2. CASE SyncData(w)
        <4>1. staged[w].whole
          BY <3>2 DEF SyncData, Progress
        <4> QED BY <3>2, <2>1, <4>1 DEF SyncData, Goto, File, Steps
      <3>3. CASE Share(w)
        <4>1. staged[w].whole /\ staged[w].synced
          BY <3>3 DEF Share, Progress
        <4> QED BY <3>3, <2>1, <4>1 DEF Share, Goto, File, Steps
      <3> QED BY <1>6, <3>1, <3>2, <3>3
    <2>3. /\ UNCHANGED <<cached, disk, acked, call>>
          /\ \A v \in Writers \ {w} : pc'[v] = pc[v] /\ staged'[v] = staged[v]
      BY <1>6 DEF WriteAll, SyncData, Share, Goto
    <2>4. Progress'
      BY <2>2, <2>3 DEF Progress
    <2> QED BY <2>3, <1>a, <2>4
  <1>7. ASSUME NEW w \in Writers, Rename(w)
        PROVE  Published' /\ Progress' /\ Durable'
    <2>0. call[w].name \in Names /\ staged[w] \in File /\ Complete(staged[w])
          /\ staged[w].data = call[w].data
      BY <1>7 DEF Rename, Progress, Complete, Call
    <2>1. staged[w] # NoFile
      BY <2>0, NoFileAssumption DEF File
    <2>2. Published'
      BY <1>7, <2>0 DEF Rename, Published, Complete
    <2>3. Durable'
      BY <1>7 DEF Rename, Durable
    <2>4. Progress'
      BY <1>7, <2>0, <2>1 DEF Rename, Goto, Progress, Call
    <2> QED BY <2>2, <2>3, <2>4
  <1>8. ASSUME NEW w \in Writers, Compare(w)
        PROVE  Published' /\ Progress' /\ Durable'
    <2>1. CASE Abandon(w)
      BY <1>2, <2>1
    <2>2. CASE ~Abandon(w)
      <3>1. Progress'
        BY <1>8, <2>2 DEF Compare, Goto, Progress, SameBytes
      <3> QED BY <1>8, <2>2, <1>a, <3>1 DEF Compare
    <2> QED BY <2>1, <2>2
  <1>9. ASSUME NEW w \in Writers, SyncDir(w)
        PROVE  Published' /\ Progress' /\ Durable'
    <2>1. Published'
      BY <1>9 DEF SyncDir, Published, Complete
    <2>2. Progress'
      BY <1>9 DEF SyncDir, Goto, Progress
    <2>3. cached[call[w].name] # NoFile /\ cached[call[w].name].data = call[w].data
      BY <1>9 DEF SyncDir, Progress
    <2>4. ASSUME NEW a \in acked'
          PROVE  disk'[a[2].name] # NoFile /\ disk'[a[2].name].data = a[2].data
      <3>1. CASE a \in acked
        <4>1. a[2].name \in Names
          BY <3>1 DEF Call
        <4> QED BY <3>1, <4>1, <1>9 DEF SyncDir, Durable, Published
      <3>2. CASE a = <<w, call[w]>>
        BY <3>2, <2>3, <1>9 DEF SyncDir
      <3> QED BY <3>1, <3>2, <2>4, <1>9 DEF SyncDir
    <2>5. Durable'
      BY <2>4 DEF Durable
    <2> QED BY <2>1, <2>2, <2>5
  <1>10. ASSUME NEW w \in Writers, Fail(w)
        PROVE  Published' /\ Progress' /\ Durable'
    BY <1>2, <1>10 DEF Fail
  <1>11. ASSUME NEW w \in Writers, Kill(w)
        PROVE  Published' /\ Progress' /\ Durable'
    <2>1. Progress'
      BY <1>11 DEF Kill, Goto, Progress
    <2> QED BY <1>11, <1>a, <2>1 DEF Kill
  <1>12. CASE WriteBack
    <2>1. Published' /\ Progress'
      BY <1>12 DEF WriteBack, Published, Progress, Complete
    <2>2. ASSUME NEW a \in acked
          PROVE  disk'[a[2].name] # NoFile /\ disk'[a[2].name].data = a[2].data
      <3>1. a[2].name \in Names
        BY DEF Call
      <3> QED BY <3>1, <1>12 DEF WriteBack, Durable, Published
    <2> QED BY <2>1, <2>2, <1>12 DEF WriteBack, Durable
  <1>13. ASSUME NEW torn \in BOOLEAN, PowerLoss(torn)
        PROVE  Published' /\ Progress' /\ Durable'
    <2>1. disk' = disk /\ cached' = disk
      BY <1>13, LossKeepsPublished DEF PowerLoss
    <2>2. Published'
      BY <2>1 DEF Published, Complete
    <2>3. Progress'
      BY <1>13 DEF PowerLoss, Progress
    <2> QED BY <2>1, <2>2, <2>3, <1>13 DEF PowerLoss, Durable
  <1>14. CASE UNCHANGED vars
    BY <1>14 DEF vars, Published, Progress, Durable, Complete
  <1> QED BY <1>1, <1>3, <1>4, <1>5, <1>6, <1>7, <1>8, <1>9, <1>10, <1>11,
             <1>12, <1>13, <1>14 DEF Next

\* The inductive invariant holds of every behaviour.
THEOREM Invariance == Spec => []IInv
  BY InitIInv, StepIInv, PTL DEF Spec

\* Types: every variable keeps its shape, for any constants.
THEOREM TypeCorrect == Spec => []TypeOK
  <1>1. IInv => TypeOK
    BY DEF IInv
  <1> QED BY <1>1, Invariance, PTL

\* A store call that returned its path left its bytes, complete, on the disk,
\* whatever the other writers, the kernel and the crashes did.
THEOREM AckedDurable == Spec => []AckedIsDurable
  <1>1. IInv => AckedIsDurable
    <2> SUFFICES ASSUME IInv, NEW a \in acked
                 PROVE  disk[a[2].name] # NoFile /\ disk[a[2].name].whole
                        /\ disk[a[2].name].data = a[2].data
      BY DEF AckedIsDurable
    <2>1. a[2].name \in Names
      BY DEF IInv, TypeOK, Call
    <2> QED BY <2>1 DEF IInv, Durable, Published, Complete
  <1> QED BY <1>1, Invariance, PTL

\* Readers never find a partial file under a final name.
THEOREM FinalWhole == Spec => []FinalNamesWhole
  <1>1. IInv => FinalNamesWhole
    BY DEF IInv, FinalNamesWhole, Published, Complete
  <1> QED BY <1>1, Invariance, PTL

\* One step of the store, seen from the disk: names only gain their file.
LEMMA DiskGrows ==
  ASSUME IInv, [Next]_vars
  PROVE  \A n \in Names : disk[n] # NoFile => disk'[n] = disk[n]
  <1> USE DEF IInv, tmps
  <1>1. ASSUME NEW torn \in BOOLEAN, PowerLoss(torn) PROVE disk' = disk
    BY <1>1, LossKeepsPublished DEF PowerLoss, TypeOK
  <1>2. ASSUME UNCHANGED disk \/ disk' = cached
        PROVE  \A n \in Names : disk[n] # NoFile => disk'[n] = disk[n]
    BY <1>2 DEF Published
  <1> QED BY <1>1, <1>2 DEF Next, vars, Begin, Lookup, CreateProbe, RemoveProbe,
        CreateStage, WriteAll, SyncData, Share, Rename, Compare, SyncDir, Fail,
        Kill, WriteBack, Abandon

\* A committed name keeps its bytes for ever.
THEOREM CommittedConstant == Spec => CommittedNeverChanges
  <1>1. IInv /\ [Next]_vars => [\A n \in Names : disk[n] # NoFile => disk'[n] = disk[n]]_vars
    BY DiskGrows
  <1> QED BY <1>1, Invariance, PTL DEF Spec, CommittedNeverChanges

-----------------------------------------------------------------------------
\* The staged inode and the temporary names.

LEMMA SharedStep == IInv /\ SharedIsComplete /\ [Next]_vars => SharedIsComplete'
  <1> SUFFICES ASSUME IInv, SharedIsComplete, [Next]_vars, NEW v \in Writers,
                      staged'[v] # NoFile, staged'[v].shared
               PROVE  staged'[v].whole /\ staged'[v].synced
    BY DEF SharedIsComplete
  <1> USE DEF IInv, TypeOK
  <1>1. ASSUME staged'[v] \in {staged[v], NoFile}
        PROVE  staged'[v].whole /\ staged'[v].synced
    BY <1>1 DEF SharedIsComplete
  <1>2. ASSUME NEW w \in Writers, CreateStage(w)
        PROVE  staged'[v].whole /\ staged'[v].synced
    <2>1. staged'[v] = staged[v] \/ staged'[v] = NewFile(call[w].data)
      BY <1>2 DEF CreateStage
    <2> QED BY <1>1, <2>1 DEF NewFile
  <1>3. ASSUME NEW w \in Writers, WriteAll(w) \/ SyncData(w) \/ Share(w)
        PROVE  staged'[v].whole /\ staged'[v].synced
    <2>1. CASE v # w
      BY <1>1, <1>3, <2>1 DEF WriteAll, SyncData, Share
    <2>2. CASE v = w
      <3>1. staged[w] \in File /\ staged[w] # NoFile
        BY <1>3, NoFileAssumption DEF Progress, WriteAll, SyncData, Share, File
      <3>2. CASE WriteAll(w)
        BY <2>2, <3>1, <3>2 DEF WriteAll, SharedIsComplete, File
      <3>3. CASE SyncData(w)
        <4>1. staged[w].whole
          BY <3>3 DEF SyncData, Progress
        <4> QED BY <2>2, <3>1, <3>3, <4>1 DEF SyncData, File
      <3>4. CASE Share(w)
        <4>1. staged[w].whole /\ staged[w].synced
          BY <3>4 DEF Share, Progress
        <4> QED BY <2>2, <3>1, <3>4, <4>1 DEF Share, File
      <3> QED BY <1>3, <3>2, <3>3, <3>4
    <2> QED BY <2>1, <2>2
  <1> QED BY <1>1, <1>2, <1>3 DEF Next, vars, Begin, Lookup, CreateProbe, RemoveProbe,
        Rename, Compare, SyncDir, Fail, Kill, WriteBack, PowerLoss, Abandon

\* An inode is opened to other users only once it is complete and synced.
THEOREM SharedComplete == Spec => []SharedIsComplete
  <1>1. Init => SharedIsComplete
    BY DEF Init, SharedIsComplete
  <1> QED BY <1>1, SharedStep, Invariance, PTL DEF Spec

\* Temporary names belong to the current or an earlier call; a call that can
\* still succeed has none left, and a call that succeeded has none anywhere.
TmpBound ==
  /\ \A t \in cachedTmp \cup diskTmp : t[2] <= call[t[1]].id
  /\ \A w \in Writers :
       /\ pc[w] \in {"lookup", "probe", "probed", "create"} =>
            Stage(w) \notin cachedTmp \cup diskTmp
       /\ pc[w] = "syncDir" => Stage(w) \notin cachedTmp
  /\ \A a \in acked : /\ a[2].id <= call[a[1]].id
                      /\ a[2].id = call[a[1]].id => pc[a[1]] = "idle"
  /\ NoResurrectedStage

LEMMA TmpStep == IInv /\ TmpBound /\ [Next]_vars => TmpBound'
  <1> SUFFICES ASSUME IInv, TmpBound, [Next]_vars PROVE TmpBound'
    OBVIOUS
  <1> USE DEF tmps
  <1>0. /\ TypeOK
        /\ \A t \in cachedTmp \cup diskTmp : t[1] \in Writers /\ t[2] \in Nat
        /\ \A a \in acked : a[1] \in Writers /\ a[2].id \in Nat
        /\ \A w \in Writers : call[w].id \in Nat
        /\ \A w \in Writers : Probe(w) = <<w, call[w].id, "probe">>
                              /\ Stage(w) = <<w, call[w].id, "stage">>
    BY MaxCallsAssumption DEF IInv, TypeOK, TmpNames, Call, Probe, Stage
  \* A step inside a call: it touches its own temporary names only, and has no
  \* stage where it can still succeed without unlinking one.
  <1>a. ASSUME NEW w \in Writers, NEW step \in Steps \ {"lookup"}, Goto(w, step),
               pc[w] # "idle", cachedTmp' \subseteq cachedTmp \cup {Probe(w), Stage(w)},
               UNCHANGED <<diskTmp, call, acked>>,
               step \in {"probe", "probed", "create"} =>
                 Stage(w) \notin cachedTmp' \cup diskTmp,
               step = "syncDir" => Stage(w) \notin cachedTmp'
        PROVE  TmpBound'
    <2>1. /\ pc'[w] = step
          /\ \A v \in Writers \ {w} : pc'[v] = pc[v]
          /\ \A v \in Writers : Stage(v)' = Stage(v)
      BY <1>a, <1>0 DEF Goto, TypeOK, Stage
    <2>2. \A t \in cachedTmp' \cup diskTmp' : t[2] <= call'[t[1]].id
      BY <1>0, <1>a DEF TmpBound
    <2>3. \A v \in Writers \ {w} : Stage(v) \in cachedTmp' => Stage(v) \in cachedTmp
      BY <1>0, <1>a
    <2>4. \A v \in Writers :
            /\ pc'[v] \in {"lookup", "probe", "probed", "create"} =>
                 Stage(v)' \notin cachedTmp' \cup diskTmp'
            /\ pc'[v] = "syncDir" => Stage(v)' \notin cachedTmp'
      BY <1>a, <2>1, <2>3 DEF TmpBound
    <2>5. \A a \in acked' : /\ a[2].id <= call'[a[1]].id
                            /\ a[2].id = call'[a[1]].id => pc'[a[1]] = "idle"
      BY <1>0, <1>a, <2>1 DEF TmpBound
    <2>6. NoResurrectedStage'
      <3> SUFFICES ASSUME NEW a \in acked
                   PROVE  <<a[1], a[2].id, "stage">> \notin diskTmp \cup cachedTmp'
        BY <1>a DEF NoResurrectedStage
      <3>1. <<a[1], a[2].id, "stage">> \notin diskTmp \cup cachedTmp
        BY DEF TmpBound, NoResurrectedStage
      <3>2. a[1] # w \/ a[2].id # call[w].id
        BY <1>a DEF TmpBound
      <3>3. /\ <<a[1], a[2].id, "stage">> # <<w, call[w].id, "stage">>
            /\ <<a[1], a[2].id, "stage">> # <<w, call[w].id, "probe">>
        BY <3>2
      <3> QED BY <1>0, <1>a, <3>1, <3>3
    <2> QED BY <2>2, <2>4, <2>5, <2>6 DEF TmpBound
  <1>1. ASSUME NEW w \in Writers, NEW n \in Names, NEW d \in Data, Begin(w, n, d)
        PROVE  TmpBound'
    <2>1. /\ pc'[w] = "lookup" /\ call'[w].id = call[w].id + 1
          /\ \A v \in Writers \ {w} : pc'[v] = pc[v] /\ call'[v] = call[v]
          /\ UNCHANGED <<cachedTmp, diskTmp, acked>>
      BY <1>0, <1>1 DEF Begin, Goto, TypeOK
    <2>2. Stage(w)' = <<w, call[w].id + 1, "stage">>
          /\ \A v \in Writers \ {w} : Stage(v)' = Stage(v)
      BY <2>1 DEF Stage
    <2>3. <<w, call[w].id + 1, "stage">> \notin cachedTmp \cup diskTmp
      BY <1>0 DEF TmpBound
    <2>4. \A t \in cachedTmp' \cup diskTmp' : t[2] <= call'[t[1]].id
      BY <1>0, <2>1 DEF TmpBound
    <2>5. \A a \in acked' : /\ a[2].id <= call'[a[1]].id
                            /\ a[2].id = call'[a[1]].id => pc'[a[1]] = "idle"
      BY <1>0, <2>1 DEF TmpBound
    <2>6. \A v \in Writers :
            /\ pc'[v] \in {"lookup", "probe", "probed", "create"} =>
                 Stage(v)' \notin cachedTmp' \cup diskTmp'
            /\ pc'[v] = "syncDir" => Stage(v)' \notin cachedTmp'
      BY <2>1, <2>2, <2>3 DEF TmpBound
    <2> QED BY <2>1, <2>4, <2>5, <2>6 DEF TmpBound, NoResurrectedStage
  <1>2. ASSUME NEW w \in Writers, Abandon(w), pc[w] # "idle"
        PROVE  TmpBound'
    BY <1>a, <1>2 DEF Abandon, Steps
  <1>3. ASSUME NEW w \in Writers, Lookup(w)
        PROVE  TmpBound'
    <2>1. Stage(w) \notin cachedTmp \cup diskTmp /\ pc[w] # "idle"
      BY <1>3 DEF Lookup, TmpBound
    <2> QED BY <1>a, <1>2, <1>3, <2>1 DEF Lookup, Steps
  <1>4. ASSUME NEW w \in Writers, CreateProbe(w) \/ RemoveProbe(w)
        PROVE  TmpBound'
    <2>1. Stage(w) \notin cachedTmp \cup diskTmp /\ pc[w] # "idle" /\ Stage(w) # Probe(w)
      BY <1>0, <1>4 DEF CreateProbe, RemoveProbe, TmpBound
    <2> QED BY <1>a, <1>4, <2>1 DEF CreateProbe, RemoveProbe, Steps
  <1>5. ASSUME NEW w \in Writers,
               CreateStage(w) \/ WriteAll(w) \/ SyncData(w) \/ Share(w)
        PROVE  TmpBound'
    BY <1>a, <1>5 DEF CreateStage, WriteAll, SyncData, Share, Steps
  <1>6. ASSUME NEW w \in Writers, Rename(w) \/ Compare(w)
        PROVE  TmpBound'
    BY <1>a, <1>2, <1>6 DEF Rename, Compare, Steps
  <1>7. ASSUME NEW w \in Writers, SyncDir(w)
        PROVE  TmpBound'
    <2>1. /\ pc'[w] = "idle" /\ \A v \in Writers \ {w} : pc'[v] = pc[v]
          /\ \A v \in Writers : Stage(v)' = Stage(v)
          /\ diskTmp' = cachedTmp /\ UNCHANGED <<cachedTmp, call>>
          /\ acked' = acked \cup {<<w, call[w]>>}
      BY <1>0, <1>7 DEF SyncDir, Goto, TypeOK, Stage
    <2>2. Stage(w) \notin cachedTmp
      BY <1>7 DEF SyncDir, TmpBound
    <2>3. NoResurrectedStage'
      <3> SUFFICES ASSUME NEW a \in acked'
                   PROVE  <<a[1], a[2].id, "stage">> \notin cachedTmp
        BY <2>1 DEF NoResurrectedStage
      <3>1. CASE a \in acked
        BY <3>1 DEF TmpBound, NoResurrectedStage
      <3>2. CASE a = <<w, call[w]>>
        <4>1. a[1] = w /\ a[2] = call[w]
          BY <3>2
        <4> QED BY <1>0, <2>2, <4>1
      <3> QED BY <2>1, <3>1, <3>2
    <2>4. \A a \in acked' : /\ a[2].id <= call'[a[1]].id
                            /\ a[2].id = call'[a[1]].id => pc'[a[1]] = "idle"
      BY <1>0, <2>1 DEF TmpBound
    <2> QED BY <1>0, <2>1, <2>3, <2>4 DEF TmpBound
  <1>8. ASSUME NEW w \in Writers, Fail(w)
        PROVE  TmpBound'
    BY <1>2, <1>8 DEF Fail
  <1>9. ASSUME NEW w \in Writers, Kill(w)
        PROVE  TmpBound'
    BY <1>a, <1>9 DEF Kill, Steps
  <1>10. CASE WriteBack
    BY <1>10 DEF WriteBack, TmpBound, NoResurrectedStage, Stage
  <1>11. ASSUME NEW torn \in BOOLEAN, PowerLoss(torn)
         PROVE  TmpBound'
    BY <1>0, <1>11 DEF PowerLoss, TmpBound, NoResurrectedStage
  <1>12. CASE UNCHANGED vars
    BY <1>12 DEF vars, TmpBound, NoResurrectedStage, Stage
  <1> QED BY <1>1, <1>3, <1>4, <1>5, <1>6, <1>7, <1>8, <1>9, <1>10, <1>11, <1>12
          DEF Next

\* A staging name of a store that reported success never comes back.
THEOREM NoOrphanAfterSuccess == Spec => []NoResurrectedStage
  <1>1. Init => TmpBound
    BY DEF Init, TmpBound, NoResurrectedStage
  <1>2. TmpBound => NoResurrectedStage
    BY DEF TmpBound
  <1> QED BY <1>1, <1>2, TmpStep, Invariance, PTL DEF Spec

-----------------------------------------------------------------------------

\* The refinement: the disk is the register.
Value == [n \in Names |-> ValueOf(disk[n])]
Acks == {<<a[2].name, a[2].data>> : a \in acked}

LEMMA ValueStep ==
  ASSUME IInv, IInv', [Next]_vars
  PROVE  /\ Value' \in [Names -> Data \cup {NoFile}]
         /\ \A n \in Names : Value[n] # NoFile => Value'[n] = Value[n]
  <1>1. \A n \in Names : ValueOf(disk[n])' \in Data \cup {NoFile}
    BY DEF IInv, TypeOK, ValueOf, File
  <1>2. \A n \in Names : disk[n] # NoFile => disk'[n] = disk[n]
    BY DiskGrows
  <1> QED BY <1>1, <1>2 DEF Value, ValueOf

\* Every step stores, commits or stutters: only SyncDir acknowledges.
LEMMA RegisterStep ==
  ASSUME IInv, IInv', [Next]_vars
  PROVE  [Register!Next]_(Register!vars)
  <1>1. /\ Value' \in [Names -> Data \cup {NoFile}]
        /\ \A n \in Names : Value[n] # NoFile => Value'[n] = Value[n]
    BY ValueStep
  <1>2. ASSUME NEW w \in Writers, SyncDir(w)
        PROVE  Register!Next
    <2>1. call[w].name \in Names /\ call[w].data \in Data
      BY DEF IInv, TypeOK, Call
    <2>2. cached[call[w].name] # NoFile /\ cached[call[w].name].data = call[w].data
      BY <1>2 DEF SyncDir, IInv, Progress
    <2>3. Value'[call[w].name] = call[w].data
      BY <2>1, <2>2, <1>2 DEF SyncDir, Value, ValueOf
    <2>4. Acks' = Acks \cup {<<call[w].name, call[w].data>>}
      <3>1. acked' = acked \cup {<<w, call[w]>>}
        BY <1>2 DEF SyncDir
      <3>2. <<w, call[w]>>[2] = call[w]
        OBVIOUS
      <3> QED BY <3>1, <3>2, Zenon DEF Acks
    <2>5. \E n \in Names, d \in Data :
            Register!Grows /\ Value'[n] = d /\ Acks' = Acks \cup {<<n, d>>}
      BY <1>1, <2>1, <2>3, <2>4 DEF Register!Grows, Value
    <2> QED BY <2>5 DEF Register!Next, Register!Store, Value, Acks
  <1>3. ASSUME UNCHANGED acked PROVE Register!Next
    BY <1>1, <1>3 DEF Register!Next, Register!Commit, Register!Grows, Value
  <1> QED BY <1>2, <1>3 DEF Next, vars, Begin, Lookup, CreateProbe, RemoveProbe,
        CreateStage, WriteAll, SyncData, Share, Rename, Compare, Fail, Kill,
        WriteBack, Abandon, PowerLoss

\* The store implements the write-once register, for any constants.
THEOREM Refinement == Spec => ImplementsWriteOnce
  <1>1. Init => Register!Init
    BY DEF Init, Register!Init, ValueOf
  <1>2. IInv /\ IInv' /\ [Next]_vars => [Register!Next]_(Register!vars)
    BY RegisterStep
  <1> QED BY <1>1, <1>2, Invariance, PTL DEF Spec, ImplementsWriteOnce, Register!Spec
====
