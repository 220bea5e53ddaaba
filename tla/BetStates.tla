------------------------------ MODULE BetStates ------------------------------
(***************************************************************************)
(* The table every write to a bet_log row goes through                     *)
(* (packages/wallet/src/state-machine.ts).  In that table each event has   *)
(* one target, whatever the state it is applied in, so the table is kept   *)
(* as the states an event is accepted in and the state it leads to.        *)
(***************************************************************************)

BetState == {"PENDING", "ARMED", "FLYING", "SETTLING", "SETTLED", "LOST",
             "ROLLBACK_PENDING", "VOIDED", "WIN_FAILED"}

Terminal == {"SETTLED", "LOST", "VOIDED", "WIN_FAILED"}

Sources ==
  [bet_accepted       |-> {"PENDING"},
   bet_rejected       |-> {"PENDING"},
   round_started      |-> {"ARMED"},
   cashout_requested  |-> {"ARMED", "FLYING"},
   round_crashed      |-> {"ARMED", "FLYING"},
   win_settled        |-> {"SETTLING"},
   win_failed         |-> {"SETTLING"},
   win_force_credited |-> {"WIN_FAILED"},
   rollback_started   |-> {"PENDING", "ARMED", "FLYING", "SETTLING", "WIN_FAILED"},
   rollback_completed |-> {"ROLLBACK_PENDING"}]

Target ==
  [bet_accepted       |-> "ARMED",
   bet_rejected       |-> "VOIDED",
   round_started      |-> "FLYING",
   cashout_requested  |-> "SETTLING",
   round_crashed      |-> "LOST",
   win_settled        |-> "SETTLED",
   win_failed         |-> "WIN_FAILED",
   win_force_credited |-> "SETTLED",
   rollback_started   |-> "ROLLBACK_PENDING",
   rollback_completed |-> "VOIDED"]
=============================================================================
