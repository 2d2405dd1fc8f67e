------------------------------ MODULE MCTrade ------------------------------
(* Two players with a stack of potions and a sword, two slots in the bag,   *)
(* so that offers can fill a bag and stacks can merge.                      *)
EXTENDS Trade, TLC

CONSTANTS ann, bob, potion, sword, m1, m2

MCStackMax == potion :> 2 @@ sword :> 1
MCStartInv ==
  ann :> [Empty EXCEPT ![0] = [kind |-> potion, quantity |-> 2]] @@
  bob :> [Empty EXCEPT ![0] = [kind |-> sword, quantity |-> 1],
                       ![1] = [kind |-> potion, quantity |-> 1]]
MCStartGround == [m \in Maps |-> <<>>]
=============================================================================
