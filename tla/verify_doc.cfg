SPECIFICATION FairRoundsSpec
CONSTANTS
  FairGames = {"galaxy-crash", "g2"}
  DefaultGame = "galaxy-crash"
  FairRtps = {97, 90}
  ConfigRtp = 97
  MaxFairRounds = 2
  MaxFairEdits = 0
  MaxFairStarts = 0
INVARIANT AnyoneCanVerify
CHECK_DEADLOCK FALSE
