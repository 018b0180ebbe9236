---- MODULE MCPostReview ----
(* One job of which the first and the third generation propose the same *)
(* mutation.  Later attempts have the smaller digests, so that a retry's *)
(* requests come first.                                                 *)
EXTENDS PostReview

FirstIsThird == [g \in Gen |-> IF g[2] = 2 THEN "m2" ELSE "m1"]
LaterFirst(e) == 100 - 10 * e[1][2] - e[2]
====
