------------------------------ MODULE MCSaving ------------------------------
(* Two characters, one of whom owns an item, and two channels.               *)
EXTENDS Saving, TLC

CONSTANTS ann, bob, sword

MCStartRow      == ann :> {sword} @@ bob :> {}
OneLogin        == ann :> 1 @@ bob :> 1
AnnComesBack    == ann :> 2 @@ bob :> 1
Interchangeable == Permutations(Channels)

\* BOUND: session events and commands under way, one after a pickup that no property covers any
\* more; no shutdown after an item was torn, no failures once somebody came back.
UnderWay   == Len(queue) + FoldFunction(LAMBDA e, n : Len(e) + n, 0, events)
Affordable == /\ UnderWay <= IF "discard" \in torn THEN 1 ELSE 2
              /\ torn # {} => server = "up" /\ sid[ann] < 2
              /\ sid[ann] = 2 => server = "up" /\ faults = 0
=============================================================================
