------------------------------ MODULE MCReports ------------------------------
(***************************************************************************)
(* Reports and billing, for TLC.                                           *)
(***************************************************************************)
EXTENDS Billing, TLC

\* Two operators in one round; one bet pays more than its stake.
MCBilledTo == 1 :> "op1" @@ 2 :> "op1" @@ 3 :> "op2"
MCBilledRound == [b \in BilledBets |-> "round"]
MCStakeOf == [b \in BilledBets |-> b]
MCWinOf == [b \in BilledBets |-> 3]

===============================================================================
