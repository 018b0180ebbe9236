---- MODULE WriteOnceStore ----
(***************************************************************************)
(* What a caller of artifact_lifecycle._store_immutable relies on: a       *)
(* write-once register per artifact name.  A name takes a value at most    *)
(* once, never loses it again whatever crashes, and a store is only        *)
(* acknowledged when the register holds exactly the bytes it asked for.    *)
(***************************************************************************)
CONSTANTS Names,   \* artifact file names of one stage directory
          Data,    \* the byte strings callers try to store
          NoFile   \* the value of a name that was never committed

VARIABLES value,   \* the committed content of each name
          acks     \* the <<name, data>> pairs some store call returned for

vars == <<value, acks>>

Init == /\ value = [n \in Names |-> NoFile]
        /\ acks = {}

\* Names only go from empty to a datum, and never change afterwards.
Grows == /\ value' \in [Names -> Data \cup {NoFile}]
         /\ \A n \in Names : value[n] # NoFile => value'[n] = value[n]

Commit == Grows /\ UNCHANGED acks

Store(n, d) == /\ Grows
               /\ value'[n] = d
               /\ acks' = acks \cup {<<n, d>>}

Next == Commit \/ \E n \in Names, d \in Data : Store(n, d)

Spec == Init /\ [][Next]_vars
====
