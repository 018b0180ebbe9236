---- MODULE SingleOperation ----
(***************************************************************************)
(* What an administrator may rely on about the operation queue: requests   *)
(* are accepted one at a time, the effect of each is tried at most once,   *)
(* and an effect whose outcome is unknown holds everything up until a      *)
(* Human acknowledges it as unknown; it never becomes a success.           *)
(***************************************************************************)
EXTENDS Naturals

CONSTANT Requests

VARIABLES phase,    \* where each request is in its life
          effects   \* how often its effect was tried

vars == <<phase, effects>>

Closed == {"new", "done", "acknowledged"}

Init == /\ phase = [r \in Requests |-> "new"]
        /\ effects = [r \in Requests |-> 0]

Move(r, from, to) == phase[r] = from /\ phase' = [phase EXCEPT ![r] = to]

Accept(r) == /\ \A s \in Requests : phase[s] \in Closed
             /\ Move(r, "new", "accepted")
             /\ UNCHANGED effects

Try(r) == /\ Move(r, "accepted", "tried")
          /\ effects' = [effects EXCEPT ![r] = @ + 1]

Finish(r) == /\ Move(r, "tried", "done") \/ Move(r, "tried", "unknown")
             /\ UNCHANGED effects

Acknowledge(r) == Move(r, "unknown", "acknowledged") /\ UNCHANGED effects

Next == \E r \in Requests : Accept(r) \/ Try(r) \/ Finish(r) \/ Acknowledge(r)

Spec == Init /\ [][Next]_vars

-----------------------------------------------------------------------------
\* What follows from it: one request at most is open, the effect of each was tried
\* once if it is past its acceptance and never before that.
OneAtATime ==
  /\ \A r, s \in Requests : phase[r] \notin Closed /\ phase[s] \notin Closed => r = s
  /\ \A r \in Requests : effects[r] = IF phase[r] \in {"new", "accepted"} THEN 0 ELSE 1
====
