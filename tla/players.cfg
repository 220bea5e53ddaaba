SPECIFICATION Spec
CONSTANTS
  a = a
  b = b
  j1 = j1
  j2 = j2
  j3 = j3
  l1 = l1
  l2 = l2
  Entrants = {a, b}
  Leagues = {l1}
  Joins = {j1, j3}
  JoinPlayer <- MCJoinPlayer
  JoinLeague <- MCJoinLeague
  JoinPick <- MCJoinPick
  Ticks = {k1, k2}
  Footballers = {1, 2, 3}
  Position <- MCPosition
  Club <- MCClub
  Cost <- MCCost
  Limits <- MCLimits
  SquadSize = 2
  MaxPerClub = 2
  Budget = 4
  Points <- MCPoints
  Fee = 5
  FantasyPurse = 9
  RakeBps = 1000
  PayoutBps <- MCPayoutBps
  MinEntrants = 2
  LastTime = 1
  s1 = s1
  s2 = s2
  s3 = s3
  p = p
  e1 = e1
  e2 = e2
  Slips = {s1, s2, s3}
  Bettors = {p}
  SlipBettor <- MCBettor
  SlipMode <- MCMode
  SlipPicks <- MCPicks
  SlipStake <- MCStake
  AcceptsMoves = {s3}
  Feeds = {0, 1, 2}
  Quote <- MCQuote
  Kickoff <- MCKickoff
  FeedTtl = 1
  MatchPurse = 2
  MaxLegs = 2
  MaxCombined = 400
  MaxPayout = 3
  Hold <- MCHold
  Seeds = {1, 2}
  Draw <- MCDraw
  MaxGoals = 2
  Weight <- MCWeight
  LastMatchTime = 2
  Conns = {c1, c2}
  Passwords = {w1, w2}
  OtherRoute = OtherRoute
  MaxAttempts = 1
  MaxCodes = 1
  MaxVersion = 2
  r1 = r1
  r2 = r2
  d1 = d1
  d = d
  RBets = {r1, r2, d1}
  Accounts = {p, d}
  DemoAccounts = {d}
  AccountOf <- MCAccountOf
  SeatOf <- MCSeatOf
  AutoBets = {r1}
  StartBalance = 1
  MaxRounds = 2
  MaxStops = 1
  MaxResets = 1
  Plays = {p1, p2}
  Resets = {z1}
  Binders = {x1}
  Credits = 1
  Free = Free
  MaxHalts = 1
  Slots = {0, 1}
  RebetSlots = {0}
  AimSlots = {1}
  MaxTabRounds = 2
  MaxLag = 1
  MaxSockets = 2
  MaxAsks = 2
  MaxExpiries = 1
  FairGames = {"galaxy-crash", "g2"}
  DefaultGame = "galaxy-crash"
  FairRtps = {97, 90}
  ConfigRtp = 97
  MaxFairRounds = 5
  MaxFairEdits = 2
  MaxFairStarts = 2
  Wagers = {1, 2, 3}
  DemoWagers = {1}
  OperatorWagers = {3}
  HistoryLimit = 2
  MaxStoreFails = 1
  Draws = 32
  RtpPercent = 97
  MaxPoint = 110
  Curves <- MCCurves
  BaseRate = 2
  LevelSize = 1
  FlightBets = {1}
  Targets = {0, 100, 103, 105}
  MaxTick = 2
  LastMoment = 10
  MaxCurveEdits = 1
SYMMETRY Symmetry
INVARIANTS RoundMoneyIsRight DemoBalanceIsRight SlipsAreHonest CredentialsAreSafe TabIsHonest RoundsAreFair StatsAreTrue FlightIsFair
PROPERTIES FinalLeaguesStay AccountStepsAreSafe
CHECK_DEADLOCK FALSE
