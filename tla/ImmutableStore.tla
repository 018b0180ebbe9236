---- MODULE ImmutableStore ----
(***************************************************************************)
(* artifact_lifecycle._store_immutable: the no-overwrite, crash-consistent *)
(* publication every durable artifact of the system goes through, for the  *)
(* processes that share one stage directory.                               *)
(*                                                                         *)
(* The directory is kept twice: as the running system sees it (cached) and *)
(* as a power loss would leave it (disk).  Only an fsync of the directory, *)
(* or the kernel's own journal commit, copies the first to the second.     *)
(***************************************************************************)
EXTENDS Naturals

CONSTANTS Writers,   \* processes calling _store_immutable
          Names,     \* final artifact names
          Data,      \* byte strings
          NoFile,    \* a name with no directory entry
          MaxCalls   \* bound: store calls per writer

ASSUME NoFileAssumption == NoFile \notin [data : Data, whole : BOOLEAN,
                                          synced : BOOLEAN, shared : BOOLEAN]
ASSUME NoDataAssumption == NoFile \notin Data
ASSUME MaxCallsAssumption == MaxCalls \in Nat

VARIABLES cached,     \* final names in the live directory
          cachedTmp,  \* temporary names in the live directory
          disk,       \* final names a power loss would leave
          diskTmp,    \* temporary names a power loss would leave
          pc,         \* where each writer is in _store_immutable
          call,       \* the number, name and data of each writer's current call
          staged,     \* the staged inode of each writer's current call
          acked       \* history: the calls that returned their path

vars == <<cached, cachedTmp, disk, diskTmp, pc, call, staged, acked>>
tmps == <<cachedTmp, diskTmp>>

\* An inode: its bytes, whether they are all written, whether they survive a
\* power loss, and whether its mode lets other users open it.
File == [data : Data, whole : BOOLEAN, synced : BOOLEAN, shared : BOOLEAN]
Call == [id : 0..MaxCalls, name : Names, data : Data]
TmpNames == Writers \X (0..MaxCalls) \X {"probe", "stage"}

Probe(w) == <<w, call[w].id, "probe">>
Stage(w) == <<w, call[w].id, "stage">>
NewFile(d) == [data |-> d, whole |-> FALSE, synced |-> FALSE, shared |-> FALSE]

\* _same_immutable_bytes: the complete inode at the final name equals the data.
SameBytes(n, d) == cached[n].whole /\ cached[n].data = d

Steps == {"idle", "lookup", "probe", "probed", "create", "write", "syncData",
          "share", "rename", "compare", "syncDir"}

Init == /\ cached = [n \in Names |-> NoFile]
        /\ disk = cached
        /\ cachedTmp = {}
        /\ diskTmp = {}
        /\ pc = [w \in Writers |-> "idle"]
        /\ call \in [Writers -> {c \in Call : c.id = 0}]
        /\ staged = [w \in Writers |-> NoFile]
        /\ acked = {}

Goto(w, step) == pc' = [pc EXCEPT ![w] = step]

\* A caller asks for data d under name n.
Begin(w, n, d) ==
  /\ pc[w] = "idle" /\ call[w].id < MaxCalls
  /\ call' = [call EXCEPT ![w] = [id |-> @.id + 1, name |-> n, data |-> d]]
  /\ Goto(w, "lookup")
  /\ UNCHANGED <<cached, disk, tmps, staged, acked>>

\* Every exit by exception runs the finally block: the call's own temporary
\* names are unlinked (without a directory fsync) and nothing is reported.
Abandon(w) ==
  /\ cachedTmp' = cachedTmp \ {Probe(w), Stage(w)}
  /\ staged' = [staged EXCEPT ![w] = NoFile]
  /\ Goto(w, "idle")
  /\ UNCHANGED <<cached, disk, diskTmp, call, acked>>

\* The fast path: an existing name with the same bytes needs only its
\* directory fsync, one with other bytes is an error.
Lookup(w) ==
  /\ pc[w] = "lookup"
  /\ \/ /\ cached[call[w].name] = NoFile
        /\ Goto(w, "probe")
        /\ UNCHANGED <<cached, disk, tmps, call, staged, acked>>
     \/ /\ cached[call[w].name] # NoFile
        /\ SameBytes(call[w].name, call[w].data)
        /\ Goto(w, "syncDir")
        /\ UNCHANGED <<cached, disk, tmps, call, staged, acked>>
     \/ /\ cached[call[w].name] # NoFile
        /\ ~SameBytes(call[w].name, call[w].data)
        /\ Abandon(w)

\* The zero-byte permission probe is created ...
CreateProbe(w) ==
  /\ pc[w] = "probe"
  /\ cachedTmp' = cachedTmp \cup {Probe(w)}
  /\ Goto(w, "probed")
  /\ UNCHANGED <<cached, disk, diskTmp, call, staged, acked>>

\* ... and removed once its mode is known.  (An inadequate mode is Fail.)
RemoveProbe(w) ==
  /\ pc[w] = "probed"
  /\ cachedTmp' = cachedTmp \ {Probe(w)}
  /\ Goto(w, "create")
  /\ UNCHANGED <<cached, disk, diskTmp, call, staged, acked>>

CreateStage(w) ==
  /\ pc[w] = "create"
  /\ cachedTmp' = cachedTmp \cup {Stage(w)}
  /\ staged' = [staged EXCEPT ![w] = NewFile(call[w].data)]
  /\ Goto(w, "write")
  /\ UNCHANGED <<cached, disk, diskTmp, call, acked>>

WriteAll(w) ==
  /\ pc[w] = "write"
  /\ staged' = [staged EXCEPT ![w].whole = TRUE]
  /\ Goto(w, "syncData")
  /\ UNCHANGED <<cached, disk, tmps, call, acked>>

\* Mutant: the fsync of the staged file is forgotten.
SyncDataForgotten(w) ==
  /\ pc[w] = "syncData"
  /\ Goto(w, "share")
  /\ UNCHANGED <<cached, disk, tmps, call, staged, acked>>

SyncData(w) ==
  /\ pc[w] = "syncData"
  /\ staged' = [staged EXCEPT ![w].synced = TRUE]
  /\ Goto(w, "share")
  /\ UNCHANGED <<cached, disk, tmps, call, acked>>

\* fchmod to the probed mode, and the second fsync of the inode.
Share(w) ==
  /\ pc[w] = "share"
  /\ staged' = [staged EXCEPT ![w].shared = TRUE]
  /\ Goto(w, "rename")
  /\ UNCHANGED <<cached, disk, tmps, call, acked>>

\* Mutant: a plain rename, which replaces an existing name.
RenameReplacing(w) ==
  /\ pc[w] = "rename"
  /\ cached' = [cached EXCEPT ![call[w].name] = staged[w]]
  /\ cachedTmp' = cachedTmp \ {Stage(w)}
  /\ Goto(w, "syncDir")
  /\ UNCHANGED <<disk, diskTmp, call, staged, acked>>

\* renameat2(RENAME_NOREPLACE): atomic, and EEXIST leaves both names alone.
Rename(w) ==
  /\ pc[w] = "rename"
  /\ \/ /\ cached[call[w].name] = NoFile
        /\ cached' = [cached EXCEPT ![call[w].name] = staged[w]]
        /\ cachedTmp' = cachedTmp \ {Stage(w)}
        /\ Goto(w, "syncDir")
     \/ /\ cached[call[w].name] # NoFile
        /\ Goto(w, "compare")
        /\ UNCHANGED <<cached, cachedTmp>>
  /\ UNCHANGED <<disk, diskTmp, call, staged, acked>>

\* Mutant: the losing writer leaves its staging entry for the cleanup that never
\* comes once success was reported.
CompareKeepsStage(w) ==
  /\ pc[w] = "compare"
  /\ \/ /\ SameBytes(call[w].name, call[w].data)
        /\ Goto(w, "syncDir")
        /\ UNCHANGED <<cached, disk, tmps, call, staged, acked>>
     \/ /\ ~SameBytes(call[w].name, call[w].data)
        /\ Abandon(w)

\* A losing writer accepts the winner's identical bytes, after unlinking its
\* own staging entry; other bytes are an error.
Compare(w) ==
  /\ pc[w] = "compare"
  /\ \/ /\ SameBytes(call[w].name, call[w].data)
        /\ cachedTmp' = cachedTmp \ {Stage(w)}
        /\ Goto(w, "syncDir")
        /\ UNCHANGED <<cached, disk, diskTmp, call, staged, acked>>
     \/ /\ ~SameBytes(call[w].name, call[w].data)
        /\ Abandon(w)

\* Mutant: the path is returned without the directory fsync.
SyncDirForgotten(w) ==
  /\ pc[w] = "syncDir"
  /\ acked' = acked \cup {<<w, call[w]>>}
  /\ staged' = [staged EXCEPT ![w] = NoFile]
  /\ Goto(w, "idle")
  /\ UNCHANGED <<cached, disk, tmps, call>>

\* fsync of the directory, and the return of the path.
SyncDir(w) ==
  /\ pc[w] = "syncDir"
  /\ disk' = cached
  /\ diskTmp' = cachedTmp
  /\ acked' = acked \cup {<<w, call[w]>>}
  /\ staged' = [staged EXCEPT ![w] = NoFile]
  /\ Goto(w, "idle")
  /\ UNCHANGED <<cached, cachedTmp, call>>

\* Any system call after the lookup may fail; the finally block cleans up.
Fail(w) == pc[w] # "idle" /\ Abandon(w)

\* The process dies: no finally block runs, the live directory stays.
Kill(w) ==
  /\ pc[w] # "idle"
  /\ staged' = [staged EXCEPT ![w] = NoFile]
  /\ Goto(w, "idle")
  /\ UNCHANGED <<cached, disk, tmps, call, acked>>

\* The kernel commits the directory of its own accord.
WriteBack ==
  /\ disk' = cached
  /\ diskTmp' = cachedTmp
  /\ UNCHANGED <<cached, cachedTmp, pc, call, staged, acked>>

\* A file whose bytes were not synced may come back incomplete.
AfterLoss(f, torn) ==
  IF f # NoFile /\ ~f.synced /\ torn THEN [f EXCEPT !.whole = FALSE] ELSE f

\* Power loss: every process stops and only the disk is left.
PowerLoss(torn) ==
  /\ disk' = [n \in Names |-> AfterLoss(disk[n], torn)]
  /\ cached' = disk'
  /\ cachedTmp' = diskTmp
  /\ pc' = [w \in Writers |-> "idle"]
  /\ staged' = [w \in Writers |-> NoFile]
  /\ UNCHANGED <<diskTmp, call, acked>>

Next ==
  \/ \E w \in Writers :
       \/ \E n \in Names, d \in Data : Begin(w, n, d)
       \/ Lookup(w) \/ CreateProbe(w) \/ RemoveProbe(w) \/ CreateStage(w)
       \/ WriteAll(w) \/ SyncData(w) \/ Share(w) \/ Rename(w) \/ Compare(w)
       \/ SyncDir(w) \/ Fail(w) \/ Kill(w)
  \/ WriteBack
  \/ \E torn \in BOOLEAN : PowerLoss(torn)

Spec == Init /\ [][Next]_vars

-----------------------------------------------------------------------------

\* Every variable has the shape the actions above assume.
TypeOK ==
  /\ cached \in [Names -> File \cup {NoFile}]
  /\ disk \in [Names -> File \cup {NoFile}]
  /\ cachedTmp \subseteq TmpNames
  /\ diskTmp \subseteq TmpNames
  /\ pc \in [Writers -> Steps]
  /\ call \in [Writers -> Call]
  /\ staged \in [Writers -> File \cup {NoFile}]
  /\ acked \subseteq Writers \X Call

\* A call that returned leaves its bytes complete under its name on the disk:
\* no crash, and no other writer, can take them away or change them.  This
\* covers the fast path, which may find a name its publisher never synced.
AckedIsDurable ==
  \A a \in acked : LET f == disk[a[2].name] IN
    f # NoFile /\ f.whole /\ f.data = a[2].data

\* "Never a partial final pathname": what readers find under a final name,
\* before or after a crash, is a complete file.
FinalNamesWhole ==
  \A n \in Names : /\ cached[n] # NoFile => cached[n].whole
                   /\ disk[n] # NoFile => disk[n].whole

\* No staging name of a call that reported success can come back after a crash
\* (the comment on the losing same-key writer).
NoResurrectedStage ==
  \A a \in acked : <<a[1], a[2].id, "stage">> \notin diskTmp \cup cachedTmp

\* Other users never get to open an inode that is not complete and synced.
SharedIsComplete ==
  \A w \in Writers : staged[w] # NoFile /\ staged[w].shared
                       => staged[w].whole /\ staged[w].synced

\* A name committed to disk keeps its bytes for ever.
CommittedNeverChanges ==
  [][\A n \in Names : disk[n] # NoFile => disk'[n] = disk[n]]_vars

\* The store implements the write-once register.
ValueOf(f) == IF f = NoFile THEN NoFile ELSE f.data
Register == INSTANCE WriteOnceStore WITH
              value <- [n \in Names |-> ValueOf(disk[n])],
              acks <- {<<a[2].name, a[2].data>> : a \in acked}
ImplementsWriteOnce == Register!Spec
====
