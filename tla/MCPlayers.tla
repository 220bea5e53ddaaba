------------------------------ MODULE MCPlayers ------------------------------
(***************************************************************************)
(* The player's side, for TLC: the bets of rounds, the demo session, a     *)
(* fantasy gameweek, match bets, the account, the tab at a game, the       *)
(* fairness of rounds, the session's statistics and the flight.  These     *)
(* share no state: a behaviour is one of a single component, the others    *)
(* stay as they were in the beginning, so one run explores all.            *)
(***************************************************************************)
EXTENDS MCFantasy, RoundBets, DemoSessions, MatchBets, PlayerAccounts, GameTab, ProvablyFair, PlayStats, Flight

CONSTANTS s1, s2, s3, p, e1, e2, r1, r2, d1, d

\* Rounds: two lobby bets of one player for one seat, and a demo bet.
MCAccountOf == [x \in RBets |-> IF x = d1 THEN d ELSE p]
MCSeatOf == [x \in RBets |-> IF x = d1 THEN "s1" ELSE "s2"]

-----------------------------------------------------------------------------
(* Match bets: two singles, an accumulator, and a single that accepts new odds. *)

MCBettor == [s \in Slips |-> p]
MCMode == s1 :> "single" @@ s2 :> "multi" @@ s3 :> "single"
PickOf(event, market, pick, seenAt) == [event |-> event, market |-> market, pick |-> pick, seen |-> seenAt]
MCPicks ==
  s1 :> <<PickOf(e1, "result", "home", 200), PickOf(e1, "odd_even", "odd", 0)>>
    @@ s2 :> <<PickOf(e1, "over_under_1_5", "over", 180), PickOf(e2, "total_goals", "t0_1", 250)>>
    @@ s3 :> <<PickOf(e2, "correct_score", <<1, 0>>, 700)>>
MCStake == [s \in Slips |-> 1]

\* The sample feed, and two of the harvester's between which two prices move.
Prices(home, score) ==
  <<e1, "result", "home">> :> home @@ <<e1, "odd_even", "odd">> :> 190
    @@ <<e1, "over_under_1_5", "over">> :> 180 @@ <<e2, "total_goals", "t0_1">> :> 250
    @@ <<e2, "correct_score", <<1, 0>> >> :> score
MCQuote == 0 :> (<<e1, "btts", "yes">> :> 170) @@ 1 :> Prices(200, 700) @@ 2 :> Prices(210, 650)
MCKickoff == 0 :> (e1 :> 9) @@ 1 :> (e1 :> 2 @@ e2 :> 9) @@ 2 :> (e1 :> 2 @@ e2 :> 9)
MCHold == <<950, 974>>

\* Two seeds: results that win and lose, goals of the same minute, and late ones.
DrawOf(u, score, m1, m2) == [u |-> u, score |-> score, home |-> <<m1, m2>>, away |-> <<m2, m1>>]
MCDraw ==
  1 :> (1 :> (1 :> DrawOf(500, 0, 90, 90) @@ 2 :> DrawOf(900, 999, 45, 45)) @@ 2 :> (1 :> DrawOf(800, 500, 3, 60)))
    @@ 2 :> (1 :> (1 :> DrawOf(470, 400, 44, 44) @@ 2 :> DrawOf(300, 700, 89, 90)) @@ 2 :> (1 :> DrawOf(480, 600, 30, 46)))
MCWeight == [s \in (0..2) \X (0..2) |-> 5 - s[1] - s[2]]

-----------------------------------------------------------------------------
(* The flight: curves of no band, of two, unsorted, of equal beginnings, and one
   whose first band is left out since it does not climb. *)

Segment(from, rate) == [from |-> from, rate |-> rate]
MCCurves ==
  {<<>>, <<Segment(0, 2), Segment(4, 1)>>, <<Segment(4, 1), Segment(0, 2), Segment(2, 2)>>,
   <<Segment(2, 1), Segment(2, 2), Segment(6, 1)>>, <<Segment(4, 0), Segment(2, 1)>>}

\* The hypothesis of the theorem on flights holds of these.
ASSUME MCWholeTimes == WholeTimes

-----------------------------------------------------------------------------
Symmetry == Permutations(Conns)

VARIABLE moving  \* the component that moves
gameVars == <<fantasyVars, roundVars, demoVars, matchVars, accountVars>>
clientVars == <<tabVars, fairVars, statsVars, flightVars>>
vars == <<gameVars, clientVars, moving>>

\* What accounts and flights begin with makes no difference while they stand still.
Init ==
  /\ moving \in {"fantasy", "rounds", "demo", "match", "accounts", "tab", "fair", "stats", "flight"}
  /\ FantasyInit /\ RoundInit /\ DemoInit /\ MatchInit /\ AccountInit
  /\ TabInit /\ FairInit /\ StatsInit /\ FlightInit
  /\ moving # "accounts" => acct = NoAccount
  /\ moving # "flight" => draw = 0 /\ growth = <<>>

Next ==
  /\ \/ moving = "fantasy" /\ FantasyNext /\ UNCHANGED <<roundVars, demoVars, matchVars, accountVars, clientVars>>
     \/ moving = "rounds" /\ RoundNext /\ UNCHANGED <<fantasyVars, demoVars, matchVars, accountVars, clientVars>>
     \/ moving = "demo" /\ DemoNext /\ UNCHANGED <<fantasyVars, roundVars, matchVars, accountVars, clientVars>>
     \/ moving = "match" /\ MatchNext /\ UNCHANGED <<fantasyVars, roundVars, demoVars, accountVars, clientVars>>
     \/ moving = "accounts" /\ AccountNext /\ UNCHANGED <<fantasyVars, roundVars, demoVars, matchVars, clientVars>>
     \/ moving = "tab" /\ TabNext /\ UNCHANGED <<gameVars, fairVars, statsVars, flightVars>>
     \/ moving = "fair" /\ FairNext /\ UNCHANGED <<gameVars, tabVars, statsVars, flightVars>>
     \/ moving = "stats" /\ StatsNext /\ UNCHANGED <<gameVars, tabVars, fairVars, flightVars>>
     \/ moving = "flight" /\ FlightNext /\ UNCHANGED <<gameVars, tabVars, fairVars, statsVars>>
  /\ UNCHANGED moving

Spec == Init /\ [][Next]_vars
=============================================================================
