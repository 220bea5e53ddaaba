SPECIFICATION FairSpec
CONSTANTS
  w1 = w1
  w2 = w2
  d1 = d1
  NoOne = NoOne
  Withdrawals = {w1, w2}
  Deliveries = {d1}
  Amount <- MCAmount
  Funds = 3
  Signed = TRUE
  Guessing = FALSE
  MaxCrashes = 1
INVARIANTS NoOverdraft RefundIsRight SuccessIsPaid
PROPERTY EndedPayoutSettles
CHECK_DEADLOCK FALSE
