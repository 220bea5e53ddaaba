---------------------------- MODULE MCWithdrawals ----------------------------
(* Withdrawals of two minor units each, from a balance that covers only one. *)
EXTENDS Withdrawals

MCAmount == [w \in Withdrawals |-> 2]
=============================================================================
