---------------------------- MODULE BetDocClaims ----------------------------
(***************************************************************************)
(* Statements the repository's documents and comments make about operator  *)
(* bets which the code, as OperatorBets models it, does not keep.  Each    *)
(* has a run in which TLC finds the counterexample.                        *)
(***************************************************************************)
EXTENDS OperatorBets

\* Termination marks a bet before it awaits the rollback "to prevent a
\* double-handle race" with a cashout (operator.ts).  A cashout already waiting
\* for /win is not stopped by the mark: the bet is both paid and refunded.
NeverPaidAndRefunded ==
  \A b \in Bets : b \in refunded => winTxn[b] \notin credited

\* "Signed 4xx: operator definitively says no debit happened" (placeOperatorBet).
\* A 429 answering a retry is a signed 4xx and says nothing of the first try.
RejectedIsNotDebited ==
  [][\A b \in Bets : state[b] = "PENDING" /\ state'[b] = "VOIDED" => b \notin debited]_vars

=============================================================================
