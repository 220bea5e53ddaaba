SPECIFICATION Spec
CONSTANTS
  Bets = {b1}
  Cashouts = {t1, t2}
  Admins = {a1}
  NoTxn = NoTxn
  NoBet = NoBet
  MaxRound = 2
  MaxCrashes = 1
  LateDelivery = TRUE
  RateLimited = TRUE
  DbErrors = TRUE
  Archivable = TRUE
SYMMETRY Symmetry
INVARIANTS
  IInv
  CreditIsClaimed
  SettledIsPaid
  StakeIsRight
PROPERTIES
  ClaimIsStable
  ImplementsContract
