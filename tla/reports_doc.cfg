SPECIFICATION BillingSpec
CONSTANTS
  BilledBets = {1, 2, 3}
  BilledTo <- MCBilledTo
  BilledRound <- MCBilledRound
  StakeOf <- MCStakeOf
  WinOf <- MCWinOf
  DayLength = 1
  MonthDays = 2
  Months = 1
  Shares = {1500, 2000}
  MaxInvoices = 2
INVARIANT RoundShowsOwnStakes
CHECK_DEADLOCK FALSE
