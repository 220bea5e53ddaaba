SPECIFICATION Spec
CONSTANTS
  Bets = {b1, b2}
  Cashouts = {t1}
  Admins = {a1}
  NoTxn = NoTxn
  NoBet = NoBet
  MaxRound = 1
  MaxCrashes = 1
  LateDelivery = FALSE
  RateLimited = FALSE
  DbErrors = TRUE
  Archivable = FALSE
SYMMETRY Symmetry
INVARIANTS
  VoidedIsWhole
