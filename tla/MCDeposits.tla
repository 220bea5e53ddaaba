----------------------------- MODULE MCDeposits -----------------------------
(* Instances of Deposits for the model checker; the configurations give every *)
(* constant its value.                                                        *)
EXTENDS Deposits
=============================================================================
