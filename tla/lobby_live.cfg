SPECIFICATION Spec
CONSTANTS
  r1 = r1
  d1 = d1
  p = p
  d = d
  RBets = {r1, d1}
  Accounts = {p, d}
  DemoAccounts = {d}
  AccountOf <- MCAccountOf
  SeatOf <- MCSeatOf
  AutoBets = {r1}
  StartBalance = 1
  MaxRounds = 2
  MaxStops = 1
  MaxResets = 0
  a = a
  b = b
  j1 = j1
  j2 = j2
  j3 = j3
  l1 = l1
  l2 = l2
  Entrants = {a, b}
  Leagues = {l1, l2}
  Joins = {j1, j2, j3}
  JoinPlayer <- MCJoinPlayer
  JoinLeague <- MCJoinLeague
  JoinPick <- MCJoinPick
  Ticks = {k1}
  Footballers = {1, 2, 3}
  Position <- MCPosition
  Club <- MCClub
  Cost <- MCCost
  Limits <- MCLimits
  SquadSize = 2
  MaxPerClub = 2
  Budget = 4
  Points <- MCPoints
  Fee = 5
  FantasyPurse = 9
  RakeBps = 1000
  PayoutBps <- MCPayoutBps
  MinEntrants = 2
  LastTime = 1
INVARIANT LeagueMoneyIsRight
PROPERTIES SeatedIsResolved LeaguesAreFinalised
CHECK_DEADLOCK FALSE
