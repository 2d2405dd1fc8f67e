---------------------------- MODULE MCSessionPool ----------------------------
(* Instances of SessionPool for TLC.                                       *)
EXTENDS SessionPool, TLC

Symmetry == Permutations(Workers) \cup Permutations(Callers)

(* BOUND: one slot goes through every incarnation with all threads on it;    *)
(* once the second one is in use too, one incarnation of each with one       *)
(* worker at a time and one batch in the ring.                               *)
Affordable ==
  \/ sessionId[1] = 0
  \/ /\ \A s \in Slots : sessionId[s] <= 1 /\ queued[s] <= 1
     /\ \A v, w \in Workers : v # w => "idle" \in {pc[v], pc[w]}
     /\ \A c \in Callers, r \in Reapers : "idle" \in {pc[c], pc[r]}
=============================================================================
