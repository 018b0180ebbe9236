---- MODULE ProjectionCleanup ----
(***************************************************************************)
(* human_projection_cleanup: the notes of a case after its end.            *)
(*                                                                         *)
(* A note of a case is requested by one service, created by the projection *)
(* sync, and deleted by the cleanup sync once the Review rejected the case *)
(* or its completed note is published.  The units of a cycle run one after *)
(* another, each only if the one before it succeeded; both syncs work off  *)
(* at most max_requests per run.  A client with an old copy of the folder  *)
(* may push deleted notes back.                                            *)
(*                                                                         *)
(* "input" stands for the four notes of the services before the evaluator. *)
(***************************************************************************)
EXTENDS Naturals, Sequences

CONSTANTS Cases, Nobody,
          MaxRequests,  \* max_requests of both syncs
          MaxMishaps,   \* bound: failures and deaths
          MaxPushes     \* bound: pushes of a lagging client

ASSUME NobodyAssumption == Nobody \notin Cases

VARIABLES unit,         \* the unit of the cycle that runs, or runs next
          left,         \* what is left of its max_requests
          requested,    \* the projection requests of each case
          published,    \* those with a stored result
          vault,        \* the notes of each case
          answer,       \* what a Human asked for in the Review note
          decision,     \* 20-Review
          progress,     \* of an approved case, up to its receipt
          requests,     \* cases with a cleanup request
          cleaned,      \* cases with a cleanup result
          unseen,       \* cleanup requests this run has not looked at
          deleting,     \* the case under deletion, and
          rest,         \* its notes that are still to be deleted
          strays,       \* history: notes that come back, or come late, where no
                        \* recheck looks for them
          mishaps, pushes

caseVars == <<requested, published, vault, answer, decision, progress, requests, cleaned>>
runVars == <<unit, left, unseen, deleting, rest>>
cleanVars == <<caseVars, runVars, strays, mishaps, pushes>>

\* CLEANUP_STAGES and TERMINAL_CLEANUP_STAGES.
CleanupStages == <<"input", "evaluation", "review">>
TerminalStages == <<"input", "evaluation", "review", "execution", "transport">>
Notes == {"input", "evaluation", "review", "execution", "transport", "completed"}

StagesOf(c) == IF decision[c] = "approve" THEN TerminalStages ELSE CleanupStages

\* Requests are listed role by role: the services before the evaluator, the
\* evaluator, the executor, the sync.
Position == [input |-> 1, evaluation |-> 2, review |-> 2,
             execution |-> 3, completed |-> 3, transport |-> 4]

CleanInit ==
  /\ unit = "evaluator" /\ left = 0 /\ unseen = {} /\ deleting = Nobody /\ rest = <<>>
  /\ requested = [c \in Cases |-> {}] /\ published = [c \in Cases |-> {}]
  /\ vault = [c \in Cases |-> {}]
  /\ answer = [c \in Cases |-> "none"] /\ decision = [c \in Cases |-> "none"]
  /\ progress = [c \in Cases |-> "none"] /\ requests = {} /\ cleaned = {}
  /\ strays = [c \in Cases |-> {}] /\ mishaps = 0 /\ pushes = 0

Mishap == mishaps < MaxMishaps /\ mishaps' = mishaps + 1

\* A unit that fails ends the cycle.
Restart == /\ unit' = "evaluator" /\ deleting' = Nobody /\ rest' = <<>> /\ unseen' = {}
           /\ left' = 0

EnterNext ==
  /\ deleting' = Nobody /\ rest' = <<>> /\ left' = MaxRequests
  /\ unit' = CASE unit = "evaluator" -> "projection"
               [] unit = "projection" -> "intake"
               [] unit = "intake" -> "prepare"
               [] unit = "prepare" -> "transport"
               [] unit = "transport" -> "finalize"
               [] unit = "finalize" -> "post_projection"
               [] unit = "post_projection" -> "cleanup"
               [] unit = "cleanup" -> "evaluator"
  /\ unseen' = IF unit = "post_projection" THEN requests ELSE {}

Request(C, s) == [c \in Cases |-> requested[c] \cup (IF c \in C THEN s ELSE {})]

\* The workers before the review store the requests of new cases.
Propose ==
  /\ unit = "evaluator" /\ EnterNext
  /\ \E C \in SUBSET {c \in Cases : requested[c] = {}} :
       requested' = Request(C, {"input", "evaluation", "review"})
  /\ UNCHANGED <<published, vault, answer, decision, progress, requests, cleaned,
                 strays, mishaps, pushes>>

Unpublished(c) == requested[c] \ published[c]

\* Within a role the requests are in the order of their digests: any.
Due(c, s) == s \in Unpublished(c)
             /\ \A d \in Cases : \A t \in Unpublished(d) : Position[s] <= Position[t]

\* run_projection_sync, one note; it may die before the result is stored.
Publish(c, s) ==
  /\ unit \in {"projection", "post_projection"} /\ left > 0 /\ Due(c, s)
  /\ vault' = [vault EXCEPT ![c] = @ \cup {s}]
  /\ strays' = IF c \in cleaned THEN [strays EXCEPT ![c] = @ \cup {s}] ELSE strays
  /\ \/ /\ published' = [published EXCEPT ![c] = @ \cup {s}]
        /\ left' = left - 1
        /\ UNCHANGED <<unit, unseen, deleting, rest, mishaps>>
     \/ Mishap /\ Restart /\ UNCHANGED published
  /\ UNCHANGED <<requested, answer, decision, progress, requests, cleaned, pushes>>

SyncDone ==
  /\ unit \in {"projection", "post_projection"}
  /\ left = 0 \/ \A c \in Cases : Unpublished(c) = {}
  /\ EnterNext
  /\ UNCHANGED <<caseVars, strays, mishaps, pushes>>

Rejected == {c \in Cases : decision[c] = "reject"}

\* run_review_intake: new Reviews, and the cleanup request of each rejected
\* case, also of those reviewed in an earlier run.  It may die between the two.
ReviewIntake ==
  /\ unit = "intake"
  /\ decision' = [c \in Cases |-> IF decision[c] = "none" /\ "review" \in vault[c] \cap published[c]
                                  THEN answer[c] ELSE decision[c]]
  /\ \/ /\ EnterNext
        /\ requests' = requests \cup {c \in Cases : decision'[c] = "reject"}
        /\ UNCHANGED mishaps
     \/ Mishap /\ Restart /\ UNCHANGED requests
  /\ UNCHANGED <<requested, published, vault, answer, progress, cleaned, strays, pushes>>

\* _emit_execution_if_enabled, _emit_transport_if_enabled and
\* _emit_completed_and_queue_cleanup report a failure and leave it to a later cycle.
Missing == {{}} \cup {{c} : c \in Cases}
Counts(M) == IF M = {} THEN UNCHANGED mishaps ELSE Mishap

Approved == {c \in Cases : decision[c] = "approve"}

\* dispatch_pending_executor, which prepares and finalizes: of the cases S that it
\* comes to before max_items, those with a transport result get their receipt.
DispatchExecutor ==
  /\ unit \in {"prepare", "finalize"} /\ EnterNext
  /\ \E S \in SUBSET Approved, M \in Missing, N \in Missing :
       LET done == {c \in S : progress[c] \in {"carried", "receipted"}} IN
         /\ progress' = [c \in Cases |-> IF c \in done THEN "receipted"
                                        ELSE IF c \in S THEN "prepared" ELSE progress[c]]
         /\ requested' = [c \in Cases |-> requested[c] \cup
                            (IF c \in done \ M THEN {"completed"}
                             ELSE IF c \in S \ M THEN {"execution"} ELSE {})]
         /\ requests' = requests \cup (done \ (M \cup N))
         /\ Counts(M \cup N)
  /\ UNCHANGED <<published, vault, answer, decision, cleaned, strays, pushes>>

\* dispatch_pending_transport, for the cases S it comes to.
DispatchTransport ==
  /\ unit = "transport" /\ EnterNext
  /\ \E S \in SUBSET {c \in Cases : progress[c] # "none"}, M \in Missing :
       /\ progress' = [c \in Cases |-> IF c \in S /\ progress[c] = "prepared" THEN "carried"
                                      ELSE progress[c]]
       /\ requested' = Request(S \ M, {"transport"})
       /\ Counts(M)
  /\ UNCHANGED <<published, vault, answer, decision, requests, cleaned, strays, pushes>>

-----------------------------------------------------------------------------
\* run_cleanup_sync looks at the requests of rejected cases first.
NextRequest(c) == /\ unit = "cleanup" /\ deleting = Nobody /\ left > 0 /\ c \in unseen
                  /\ c \notin Rejected => unseen \cap Rejected = {}


\* A result says that the case was cleaned; of a rejected one the Review note is
\* looked for again.
Done(c) == c \in cleaned /\ (c \in Rejected => "review" \notin vault[c])

\* Mutant: the receipt is enough.
PendingNever(c) == FALSE

\* _verify_terminal_cleanup_binding: the completed note is not published yet.
Pending(c) == c \notin Rejected /\ "completed" \notin published[c]

SkipRequest(c) ==
  /\ NextRequest(c) /\ (Done(c) \/ Pending(c))
  /\ unseen' = unseen \ {c}
  /\ UNCHANGED <<caseVars, unit, left, deleting, rest, strays, mishaps, pushes>>

StartDeletion(c) ==
  /\ NextRequest(c) /\ ~Done(c) /\ ~Pending(c)
  /\ deleting' = c /\ rest' = StagesOf(c)
  /\ UNCHANGED <<caseVars, unit, left, unseen, strays, mishaps, pushes>>

\* _delete_remote_target; what is absent counts as deleted.
DeleteNote ==
  /\ deleting # Nobody /\ rest # <<>>
  /\ vault' = [vault EXCEPT ![deleting] = @ \ {Head(rest)}]
  /\ rest' = Tail(rest)
  /\ UNCHANGED <<requested, published, answer, decision, progress, requests, cleaned,
                 unit, left, unseen, deleting, strays, mishaps, pushes>>

\* The result is stored, if there is none yet.
StoreCleanup ==
  /\ deleting # Nobody /\ rest = <<>>
  /\ cleaned' = cleaned \cup {deleting}
  /\ left' = left - 1 /\ unseen' = unseen \ {deleting} /\ deleting' = Nobody
  /\ UNCHANGED <<requested, published, vault, answer, decision, progress, requests,
                 unit, rest, strays, mishaps, pushes>>

\* An observation, a DELETE or its check fails, or the cleanup dies.
CleanupFails ==
  /\ unit = "cleanup" /\ Mishap /\ Restart
  /\ UNCHANGED <<caseVars, strays, pushes>>

CleanupDone ==
  /\ unit = "cleanup" /\ deleting = Nobody /\ (left = 0 \/ unseen = {})
  /\ EnterNext
  /\ UNCHANGED <<caseVars, strays, mishaps, pushes>>

-----------------------------------------------------------------------------
HumanAnswers(c, d) ==
  /\ "review" \in vault[c] \cap published[c] /\ answer[c] = "none"
  /\ answer' = [answer EXCEPT ![c] = d]
  /\ UNCHANGED <<requested, published, vault, decision, progress, requests, cleaned,
                 runVars, strays, mishaps, pushes>>

\* A client that has not heard of the deletions.
PushBack(c, S) ==
  /\ pushes < MaxPushes /\ pushes' = pushes + 1
  /\ c \in requests /\ S # {} /\ S \subseteq published[c] \ vault[c]
  /\ vault' = [vault EXCEPT ![c] = @ \cup S]
  /\ strays' = IF deleting = c \/ "review" \notin S
               THEN [strays EXCEPT ![c] = @ \cup S] ELSE strays
  /\ UNCHANGED <<requested, published, answer, decision, progress, requests, cleaned,
                 runVars, mishaps>>

CleanStep ==
  \/ Propose \/ SyncDone \/ ReviewIntake \/ DispatchTransport \/ DispatchExecutor
  \/ DeleteNote \/ StoreCleanup \/ CleanupFails \/ CleanupDone
  \/ \E c \in Cases : SkipRequest(c) \/ StartDeletion(c) \/ \E s \in Notes : Publish(c, s)

CleanNext ==
  \/ CleanStep
  \/ \E c \in Cases : \/ \E d \in {"reject", "approve"} : HumanAnswers(c, d)
                      \/ \E S \in SUBSET Notes : PushBack(c, S)

CleanSpec == CleanInit /\ [][CleanNext]_cleanVars /\ WF_cleanVars(CleanStep)

-----------------------------------------------------------------------------
\* A Human never loses sight of what was approved: some note of the case is
\* there from the Review on, however publishing and deleting interleave.
NoCaseVanishes == \A c \in Cases : decision[c] = "approve" => vault[c] # {}

\* What a rejected case still has once there is a cleanup result, however it got
\* there: notes no recheck looks for, or the Review note that makes it look again;
\* and what the sync has yet to publish of it is at most the evaluation note.
LeftoversFindable ==
  \A c \in cleaned : decision[c] = "reject" =>
    /\ vault[c] \subseteq strays[c] \/ "review" \in vault[c]
    /\ Unpublished(c) \subseteq {"evaluation"}


\* docs/human-ai-projection.md:249: the completed note remains as the terminal
\* visible case.
OnlyCompletedRemains ==
  \A c \in cleaned : decision[c] = "approve" => vault[c] \subseteq {"completed"}
====
