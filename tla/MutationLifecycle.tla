---- MODULE MutationLifecycle ----
(***************************************************************************)
(* What a Human may rely on about one approved mutation, whatever machines *)
(* crash and whatever requests are lost: it is decided once, its outcome   *)
(* is found once, and success is only ever claimed for an effect that this *)
(* system's own conditional create produced.                               *)
(***************************************************************************)
CONSTANT Mutations

VARIABLES phase,   \* what the durable artifacts say of each mutation
          effect   \* the mutations whose create the remote server accepted

vars == <<phase, effect>>

Phases == {"proposed", "declined", "approved", "created", "ambiguous",
           "blocked", "receipted", "adopted", "abandoned"}

Init == /\ phase = [m \in Mutations |-> "proposed"]
        /\ effect = {}

Move(m, from, to) == /\ phase[m] \in from
                     /\ \E p \in to : phase' = [phase EXCEPT ![m] = p]
                     /\ UNCHANGED effect

Review(m) == Move(m, {"proposed"}, {"approved", "declined"})

\* The server accepts a create for m: only ever for an approved mutation.
Effect(m) == /\ phase[m] \notin {"proposed", "declined"}
             /\ effect' = effect \cup {m}
             /\ UNCHANGED phase

\* The outcome of the transport becomes known, exactly once.
Confirm(m) == m \in effect /\ Move(m, {"approved"}, {"created"})
FindTaken(m) == Move(m, {"approved"}, {"ambiguous", "blocked"})

\* A receipt needs a confirmed create; a Human may adopt only a matching
\* target, and abandon only what was not confirmed.
Receipt(m) == Move(m, {"created"}, {"receipted"})
Adopt(m) == Move(m, {"ambiguous"}, {"adopted"})
Abandon(m) == Move(m, {"ambiguous", "blocked"}, {"abandoned"})

Next == \E m \in Mutations :
          \/ Review(m) \/ Effect(m) \/ Confirm(m) \/ FindTaken(m)
          \/ Receipt(m) \/ Adopt(m) \/ Abandon(m)

Spec == Init /\ [][Next]_vars

-----------------------------------------------------------------------------
Endings == {"declined", "receipted", "adopted", "abandoned"}

SameEndings == \A m \in Mutations : phase[m] \in Endings => phase'[m] = phase[m]

\* What follows from it: an ending is the last word about a mutation.
EndingsStand == [][SameEndings]_vars
====
