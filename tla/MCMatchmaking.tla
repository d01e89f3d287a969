--------------------------- MODULE MCMatchmaking ---------------------------
(* Instances of Matchmaking for TLC. *)
EXTENDS Matchmaking

CONSTANTS c1, c2, o1, o2

ClientSymmetry == Permutations(Client)
=============================================================================
