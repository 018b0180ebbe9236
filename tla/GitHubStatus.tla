---- MODULE GitHubStatus ----
(***************************************************************************)
(* github_project_watcher, github_project_status_queue, _mutation, _worker:*)
(* the status of one Project note follows the activity of its repository.  *)
(*                                                                         *)
(* A cycle pulls a mirror of the Vault, observes, stores the observation,  *)
(* enqueues a proposal, and the writer works off the queue: GET, PUT with  *)
(* If-Match, GET again, record.  Humans edit the note, and own its         *)
(* statuses stopped, done and cancelled ("stopped" here) and the entering  *)
(* of stable.  A request with a result or a rejection is never looked at   *)
(* again and removed by the compactor: here it leaves its slot.            *)
(***************************************************************************)
EXTENDS Naturals, FiniteSets

CONSTANTS Slots,       \* room in the request queue: more than MaxOutages
          None,        \* no record, no proposal, no request in flight
          MaxEvents,   \* bound: Human edits and GitHub activity
          MaxOutages   \* bound: crashes and transport failures

VARIABLES note,      \* the remote note: status and body
          etag,      \* changes with every write
          mirror,    \* the pulled copy
          repo,      \* GitHub: default HEAD, open issues, a recent commit
          record,    \* project_state in the watcher's SQLite
          emitted,   \* the proposal of this observation
          queue,     \* the request in each slot
          unhandled, \* the slots this writer run has not handled
          step,      \* pull, watch, enqueue, write, put, verify
          slot, before, ambiguous,  \* the writer's request
          inFlight,  \* a PUT that outlived its client
          events, outages,
          entered, pulled, baseline \* history: see Kept

githubVars == <<note, etag, mirror, repo, record, emitted, queue, unhandled, step, slot,
                before, ambiguous, inFlight, events, outages, entered, pulled, baseline>>

Automated == {"planning", "running", "stable"}
Statuses == Automated \cup {"stopped"}
Proposable == {"planning", "running"}

\* A project_state row, a proposal, what a GET shows, and a PUT.
Records == [last : Automated, head : Nat, issues : SUBSET {1},
            pending : Proposable \cup {None}]
Proposals == [from : Automated, to : Proposable]
Sights == [status : Statuses, body : Nat, etag : Nat]
Puts == [body : Nat, status : Proposable, ifMatch : Nat]
Baselines == [era : Nat, head : Nat, issues : SUBSET {1}]

ASSUME RoomAssumption == IsFiniteSet(Slots) /\ MaxOutages \in Nat /\ Cardinality(Slots) > MaxOutages
ASSUME NoneStatusAssumption ==
  None \notin Slots \cup Proposable \cup Records \cup Proposals \cup Sights \cup Puts \cup Baselines

GitHubInit ==
  /\ note \in [status : {"planning", "stable"}, body : {0}] /\ etag = 0 /\ mirror = note
  /\ repo = [head |-> 0, issues |-> {}, recent |-> FALSE]
  /\ record = None /\ emitted = None
  /\ queue = [s \in Slots |-> None] /\ unhandled = {} /\ step = "pull"
  /\ slot = None /\ before = None /\ ambiguous = FALSE /\ inFlight = None
  /\ events = 0 /\ outages = 0
  /\ entered = 0 /\ pulled = 0 /\ baseline = None

Outage == outages < MaxOutages /\ outages' = outages + 1
writerVars == <<slot, before, ambiguous>>
historyVars == <<entered, pulled, baseline>>

-----------------------------------------------------------------------------
Pull == /\ step = "pull" /\ step' = "watch"
        /\ mirror' = note /\ pulled' = entered
        /\ UNCHANGED <<note, etag, repo, record, emitted, queue, unhandled, writerVars,
                       inFlight, events, outages, entered, baseline>>

Want == IF repo.recent THEN "running" ELSE "planning"

\* Mutant: what was observed once is not proposed again.
DecideOnce ==
  IF mirror.status # "stable" THEN Want
  ELSE IF record = None \/ record.last # "stable" THEN "stable"
  ELSE IF repo.head # record.head THEN "running"
  ELSE IF repo.issues \subseteq record.issues THEN "stable" ELSE "planning"

\* decide_status of a watched Project.
Decide ==
  IF mirror.status # "stable" THEN Want
  ELSE IF record = None \/ record.last # "stable" THEN "stable"
  ELSE IF repo.head # record.head THEN "running"
  ELSE IF record.pending # None THEN record.pending
  ELSE IF repo.issues \subseteq record.issues THEN "stable" ELSE "planning"

\* The requests without a result or a rejection.
Backlog == {s \in Slots : queue[s] # None}

StartWriter == step' = "write" /\ unhandled' = Backlog

\* run_once: the record is saved before the proposal leaves the process.
Watch ==
  /\ step = "watch"
  /\ IF mirror.status \notin Automated
     THEN StartWriter /\ UNCHANGED <<record, emitted>>
     ELSE LET proposed == IF Decide = mirror.status THEN None ELSE Decide
          IN  /\ record' = [last |-> mirror.status, head |-> repo.head,
                            issues |-> repo.issues, pending |-> proposed]
              /\ IF proposed = None
                 THEN StartWriter /\ UNCHANGED emitted
                 ELSE /\ step' = "enqueue" /\ UNCHANGED unhandled
                      /\ emitted' = [from |-> mirror.status, to |-> proposed]
  /\ baseline' = IF mirror.status = "stable" /\ (baseline = None \/ baseline.era # pulled)
                 THEN [era |-> pulled, head |-> repo.head, issues |-> repo.issues]
                 ELSE baseline
  /\ UNCHANGED <<note, etag, mirror, repo, queue, writerVars, inFlight, events, outages,
                 entered, pulled>>

\* enqueue_proposal; every observation has its own name.
Enqueue(s) ==
  /\ step = "enqueue" /\ queue[s] = None
  /\ queue' = [queue EXCEPT ![s] = emitted] /\ emitted' = None
  /\ step' = "write" /\ unhandled' = Backlog'
  /\ UNCHANGED <<note, etag, mirror, repo, record, writerVars, inFlight, events, outages,
                 historyVars>>

-----------------------------------------------------------------------------
\* The writer is done with the request in slot s; "kept" ones are tried again
\* in the next cycle.
LeaveSlot(s) == /\ step' = "write" /\ unhandled' = unhandled \ {s}
                /\ slot' = None /\ before' = None /\ ambiguous' = FALSE
Finish(s) == LeaveSlot(s) /\ queue' = [queue EXCEPT ![s] = None]
Keep(s) == LeaveSlot(s) /\ UNCHANGED queue

\* prepare_project_update says "apply"; otherwise it conflicts or there is
\* nothing to do.
Applies(p) == note.status = p.from

\* apply_project_status up to the PUT.
Observe(s) ==
  /\ step = "write" /\ s \in unhandled
  /\ \/ /\ Applies(queue[s])
        /\ step' = "put" /\ slot' = s
        /\ before' = [status |-> note.status, body |-> note.body, etag |-> etag]
        /\ UNCHANGED <<queue, unhandled, ambiguous, outages>>
     \/ ~Applies(queue[s]) /\ Finish(s) /\ UNCHANGED outages
     \/ Keep(s) /\ Outage
  /\ UNCHANGED <<note, etag, mirror, repo, record, emitted, inFlight, events, historyVars>>

Put == [body |-> before.body, status |-> queue[slot].to, ifMatch |-> before.etag]

\* Mutant: a PUT without If-Match.
AcceptsAny(put) == TRUE

Accepts(put) == put.ifMatch = etag
Written(put) == /\ note' = [status |-> put.status, body |-> put.body]
                /\ etag' = etag + 1

\* The response, or its absence: 5xx and network errors say nothing about the
\* effect, which may also come later.
PutAnswers ==
  /\ step = "put"
  /\ \/ Accepts(Put) /\ Written(Put) /\ step' = "verify"
        /\ UNCHANGED <<queue, unhandled, writerVars, inFlight, outages>>
     \/ ~Accepts(Put) /\ Finish(slot) /\ UNCHANGED <<note, etag, inFlight, outages>>
     \/ Finish(slot) /\ Outage /\ UNCHANGED <<note, etag, inFlight>>
     \/ /\ Outage /\ step' = "verify" /\ ambiguous' = TRUE
        /\ \/ Accepts(Put) /\ Written(Put) /\ UNCHANGED inFlight
           \/ inFlight' = Put /\ UNCHANGED <<note, etag>>
           \/ UNCHANGED <<note, etag, inFlight>>
        /\ UNCHANGED <<queue, unhandled, slot, before>>
  /\ UNCHANGED <<mirror, repo, record, emitted, events, historyVars>>

LatePut ==
  /\ inFlight # None /\ inFlight' = None
  /\ IF Accepts(inFlight) THEN Written(inFlight) ELSE UNCHANGED <<note, etag>>
  /\ UNCHANGED <<mirror, repo, record, emitted, queue, unhandled, step, writerVars, events,
                 outages, historyVars>>

\* The second GET: only an unanswered PUT without a visible effect leaves the
\* request open, every other sight of the note ends it.
Verify ==
  /\ step = "verify"
  /\ \/ /\ IF ambiguous /\ note = [status |-> before.status, body |-> before.body]
           THEN Keep(slot) ELSE Finish(slot)
        /\ UNCHANGED outages
     \/ Keep(slot) /\ Outage
  /\ UNCHANGED <<note, etag, mirror, repo, record, emitted, inFlight, events, historyVars>>

WriterDone ==
  /\ step = "write" /\ unhandled = {} /\ step' = "pull"
  /\ UNCHANGED <<note, etag, mirror, repo, record, emitted, queue, unhandled, writerVars,
                 inFlight, events, outages, historyVars>>

\* The next tick of the timer starts from the pull.
CycleDies ==
  /\ Outage /\ step \notin {"pull", "watch"} /\ step' = "pull"
  /\ emitted' = None /\ unhandled' = {} /\ slot' = None /\ before' = None /\ ambiguous' = FALSE
  /\ inFlight' \in {inFlight} \cup (IF step = "put" THEN {Put} ELSE {})
  /\ UNCHANGED <<note, etag, mirror, repo, record, queue, events, historyVars>>

-----------------------------------------------------------------------------
Event == events < MaxEvents /\ events' = events + 1

HumanEdits ==
  /\ Event /\ etag' = etag + 1
  /\ \/ \E s \in Statuses \ {note.status} :
          /\ note' = [note EXCEPT !.status = s]
          /\ entered' = IF s = "stable" THEN entered + 1 ELSE entered
     \/ note' = [note EXCEPT !.body = @ + 1] /\ UNCHANGED entered
  /\ UNCHANGED <<mirror, repo, record, emitted, queue, unhandled, step, writerVars, inFlight,
                 outages, pulled, baseline>>

\* Commits reach the default branch or another one, and grow old.
Activity ==
  /\ Event
  /\ \/ repo' = [repo EXCEPT !.head = @ + 1, !.recent = TRUE]
     \/ ~repo.recent /\ repo' = [repo EXCEPT !.recent = TRUE]
     \/ repo.recent /\ repo' = [repo EXCEPT !.recent = FALSE]
     \/ repo' = [repo EXCEPT !.issues = {1} \ @]
  /\ UNCHANGED <<note, etag, mirror, record, emitted, queue, unhandled, step, writerVars,
                 inFlight, outages, historyVars>>

Cycle == \/ Pull \/ Watch \/ (\E s \in Slots : Enqueue(s) \/ Observe(s))
         \/ PutAnswers \/ Verify \/ WriterDone

GitHubNext == Cycle \/ LatePut \/ CycleDies \/ HumanEdits \/ Activity

GitHubSpec == GitHubInit /\ [][GitHubNext]_githubVars /\ WF_githubVars(Cycle)

-----------------------------------------------------------------------------
\* What a Human wrote survives the writer, whatever of it is read late, repeated
\* or delivered late: only a watched status changes, and only to planning or
\* running.
EditsSurvive ==
  [][~HumanEdits => /\ note'.body = note.body
                    /\ note'.status # note.status =>
                         note.status \in Automated /\ note'.status \in {"planning", "running"}
    ]_githubVars

\* Activity seen once is not forgotten, whichever proposal about it is lost or
\* refused and whatever Humans do to the status meanwhile: the row of a Project in
\* stable without a pending proposal shows no more than what was there when it was
\* first seen in stable since it last entered it.
ActivityKept ==
  record # None /\ record.last = "stable" /\ record.pending = None =>
    /\ baseline # None
    /\ record.head = baseline.head /\ record.issues \subseteq baseline.issues

\* Requests pile up by failures alone: a run of the writer leaves no more behind than
\* there were failures, and the next run starts with one more at most, whatever of
\* its work is left open, repeated or cut short.
BacklogEarned ==
  Cardinality(Backlog)
    <= outages + (IF step \in {"write", "put", "verify"} THEN 1 ELSE 0)

\* So a proposal always finds room.
RoomLeft == step = "enqueue" => \E s \in Slots : queue[s] = None

Kept == /\ note.status \in {"planning", "running"} => note.status = Want
        /\ note.status = "stable" =>
             baseline # None /\ repo.head = baseline.head /\ repo.issues \subseteq baseline.issues

\* Once Humans and GitHub are quiet the status is right: no proposal that was
\* lost, refused or overtaken leaves a Project in planning or running against its
\* commits, or in stable with activity since it was first seen there.
Converges == <>[]Kept
====
