SPECIFICATION FairSpec
CONSTANTS
  dep1 = dep1
  h1 = h1
  h2 = h2
  NoOne = NoOne
  Deposits = {dep1}
  Providers = 2
  Deliveries = {h1, h2}
  MaxCrashes = 2
INVARIANTS ChargedByOne CreditIsRight ToldOnceIfSettled
PROPERTY PaidIsCredited
CHECK_DEADLOCK FALSE
