--------------------------- MODULE MCOperatorBets ---------------------------
(* OperatorBets for TLC: the attempts and the admins are interchangeable. *)
EXTENDS OperatorBetsInv, TLC

Symmetry == Permutations(Cashouts) \cup Permutations(Admins)
=============================================================================
