--------------------------- MODULE OperatorBetsInv ---------------------------
(***************************************************************************)
(* The inductive invariant behind the safety properties of OperatorBets.   *)
(* It ties the row's win_txn_id to every place the id can be used from:    *)
(* the attempt that wrote it, a call on the wire, the operator's books, a  *)
(* force-credit and the recovery.                                          *)
(***************************************************************************)
EXTENDS OperatorBets

\* States a row can be in once an attempt has written its winTxnId.
ClaimedStates == {"SETTLING", "SETTLED", "WIN_FAILED", "ROLLBACK_PENDING", "VOIDED"}

Returning == {"ROLLBACK_PENDING", "VOIDED"}

\* A row's id belongs to the attempt of that bet, and a row that waits for its
\* money, or has it, holds an id.
RowHasClaim ==
  \A b \in Bets :
    /\ winTxn[b] # NoTxn => /\ cashoutBet[winTxn[b]] = b
                            /\ cashout[winTxn[b]] \notin {"idle", "request", "pausedRequest"}
                            /\ state[b] \in ClaimedStates
    /\ state[b] \in {"SETTLING", "SETTLED", "WIN_FAILED"} => winTxn[b] # NoTxn

\* An attempt names its bet; from its call on, its id is the one in the row.
AttemptHasClaim ==
  \A t \in Cashouts :
    /\ cashout[t] # "idle" => cashoutBet[t] \in Bets
    /\ cashout[t] \in {"calling", "settle", "fail", "pausedFail"} => winTxn[cashoutBet[t]] = t
    /\ cashout[t] = "settle" => t \in credited

\* A /win on the wire, executed, or recorded as executed, carries a claimed id.
OperatorHasClaim ==
  \A t \in Cashouts :
    /\ WinCall(t) \in calls \/ t \in credited =>
         cashoutBet[t] \in Bets /\ winTxn[cashoutBet[t]] = t
    /\ idem[t] = "ok" => t \in credited

AdminHasClaim ==
  \A a \in Admins :
    admin[a] \in {"send", "calling", "book"} =>
      /\ adminBet[a] \in Bets /\ winTxn[adminBet[a]] # NoTxn
      /\ admin[a] = "book" => winTxn[adminBet[a]] \in credited

RecoveryHasClaim ==
  /\ server = "down" => recovery = "off"
  /\ recovery \in {"off", "pending"} => todo = {} /\ recovering = NoBet
  /\ recovery = "alert" => recovering \in Bets
  /\ recovery = "rollback" => todo \cup ({recovering} \ {NoBet}) \subseteq {b \in Bets : state[b] \in Returning}
  /\ recovery \in {"settling", "alert"} =>
       todo \cup ({recovering} \ {NoBet}) \subseteq {b \in Bets : winTxn[b] # NoTxn}

\* A rollback is only under way, or done, for a row that can no longer be
\* lost; and only a rollback refunds.
RollbackIsForReturning ==
  /\ refunded \subseteq rolledBack \cap debited
  /\ \A b \in Bets :
       RollbackCall(b) \in calls \/ b \in rolledBack => state[b] \in Returning

Claims ==
  /\ RowHasClaim /\ AttemptHasClaim /\ OperatorHasClaim /\ AdminHasClaim /\ RecoveryHasClaim
  /\ RollbackIsForReturning /\ SettledIsPaid /\ PlayedIsDebited

\* Inductive: it holds initially and every step preserves it.
IInv == TypeOK /\ Claims

\* Handlers run only in a process that serves; recovery before it does.
ServingOrRecovering ==
  /\ recovery # "off" => server = "recovering"
  /\ server # "serving" => \A b \in Bets : placing[b] = "idle"
  /\ crashes = 0 => server = "serving" /\ recovery = "off"

\* When nothing arrives late and no throttle hides an executed call: a stake can only
\* be taken while its row is PENDING, so a rollback that was answered has returned
\* whatever was taken, and a bet that was rejected took nothing.
StakeIsInHand ==
  /\ \A b \in Bets : placing[b] = "calling" => state[b] = "PENDING"
  /\ \A b \in Bets : BetCall(b) \in calls => placing[b] = "calling" /\ b \notin debited
  /\ \A b \in Bets : seat[b] # "none" \/ voiding[b] # "idle" => placing[b] = "idle" /\ state[b] # "NONE"
  /\ \A b \in Bets : b \in debited \/ placing[b] # "idle" => state[b] # "NONE"
  /\ rolledBack \cap debited \subseteq refunded
  /\ \A b \in Bets : state[b] = "VOIDED" => b \in rolledBack \/ b \notin debited

\* Inductive beside IInv: the first when no call is late or throttled, the second when
\* the database answers.
ReturnInv == ServingOrRecovering /\ StakeIsInHand
AlertInv == ServingOrRecovering /\ FailureIsAlerted
=============================================================================
