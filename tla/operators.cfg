SPECIFICATION Spec
CONSTANTS
  tb = tb
  tw = tw
  tr = tr
  tb2 = tb2
  cb = cb
  cw1 = cw1
  cw2 = cw2
  cr = cr
  cb2 = cb2
  Txns = {tb, tw, tr, tb2}
  TxnKind <- MCTxnKind
  TxnBet <- MCTxnBet
  TxnAmount <- MCTxnAmount
  Callers = {cb, cw1, cw2, cr, cb2}
  CallTxn <- MCCallTxn
  CallBody <- MCCallBody
  Bodies = {tb, tw, tr, tb2}
  Tries <- MCTries
  Balance = 3
  LateDelivery = FALSE
  MaxCallFaults = 2
  ReconTxns = {1, 2, 3}
  Rollbacks = {3}
  OurSide <- MCOurSide
  TheirSide <- MCTheirSide
  TheirTime <- MCTheirTime
  Runs = {run}
  PageSize = 1
  DaySeconds = 2
  LastSecond = 3
  MaxReconFaults = 1
  g1 = g1
  g2 = g2
  g3 = g3
  g4 = g4
  Changes = {g1, g2, g3, g4}
  ChangeKind <- MCChangeKind
  MaxSkew = 1
  LastTick = 5
  MaxHandled = 2
  MaxRegistryFaults = 1
  Sessions = {s1, s2}
  Terminations = {t1, t2}
  MaxGateMoves = 1
  Games = {"galaxy", "other"}
  Base = "galaxy"
  GameTypes = {"sprite", "gif"}
  Rtps = {97, 96}
  Edits = {e1, e2}
  MaxRefreshes = 2
  Admins = {"ann", "bob"}
  AdminsAtStart = {"ann", "bob"}
  BootAdmin = "ann"
  Passwords = {"p"}
  Requests = {1, 2, 3}
  TokenHours = 1
  LastHour = 1
  MaxAdminCrashes = 1
  Rows = {1, 2, 3}
  GroupOf <- MCGroupOf
  StreamOf <- MCStreamOf
  PageLimit = 1
  LastNow = 3
  BilledBets = {1, 2, 3}
  BilledTo <- MCBilledTo
  BilledRound <- MCBilledRound
  StakeOf <- MCStakeOf
  WinOf <- MCWinOf
  DayLength = 1
  MonthDays = 2
  Months = 1
  Shares = {1500, 2000}
  MaxInvoices = 2
INVARIANTS WalletCallsAreTrue ReconciliationIsRight RegistryIsRight TerminationHolds CatalogueIsRight AdminsAreAccountable ListingsAreWhole BillingIsRight
CHECK_DEADLOCK FALSE
