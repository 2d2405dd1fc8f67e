------------------------------ MODULE MCMonsters ------------------------------
(* One spawn group of two monsters in a pool of two: one may lie dead, be swept *)
(* and be replaced in either slot while the other hunts.                        *)
EXTENDS Monsters, TLC

CONSTANT wolf

MCCount == wolf :> 2
=============================================================================
