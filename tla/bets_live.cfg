SPECIFICATION FairSpec
CONSTANTS
  Bets = {b1}
  Cashouts = {t1, t2}
  Admins = {a1}
  NoTxn = NoTxn
  NoBet = NoBet
  MaxRound = 1
  MaxCrashes = 1
  LateDelivery = TRUE
  RateLimited = TRUE
  DbErrors = FALSE
  Archivable = TRUE
INVARIANT
  FailureIsAlerted
PROPERTIES
  CallsResolve
  SeatedBetResolves
