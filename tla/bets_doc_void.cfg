SPECIFICATION Spec
CONSTANTS
  Bets = {b1}
  Cashouts = {t1, t2}
  Admins = {a1}
  NoTxn = NoTxn
  NoBet = NoBet
  MaxRound = 1
  MaxCrashes = 0
  LateDelivery = FALSE
  RateLimited = FALSE
  DbErrors = FALSE
  Archivable = FALSE
INVARIANT NeverPaidAndRefunded
