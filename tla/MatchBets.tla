------------------------------ MODULE MatchBets ------------------------------
(***************************************************************************)
(* The match bets of the lobby: POST /simulate/bets (http/player-bets.ts). *)
(* A slip is priced from a cached feed, its result is drawn from a secret  *)
(* seed (shared/simulate.ts, shared/football.ts), and its bets are written *)
(* with their ledger entries in one transaction under the player's         *)
(* advisory lock (wallet/sim-bets-repo-pg.ts).                             *)
(*                                                                         *)
(* Amounts are integers, odds are in hundredths, and probabilities in      *)
(* thousandths.  A seed is what it determines: the draws of its legs.      *)
(***************************************************************************)
EXTENDS Integers, Sequences, FiniteSets, Functions, FiniteSetsExt, SequencesExt, TLC

CONSTANTS
  Slips,          \* the requests that are made
  Bettors,        \* the players
  SlipBettor,     \* [Slips -> Bettors]
  SlipMode,       \* [Slips -> {"single", "multi"}]
  SlipPicks,      \* [Slips -> Seq of [event, market, pick, seen]], seen = 0: no price sent
  SlipStake,      \* [Slips -> Nat], already within the stake limits
  AcceptsMoves,   \* the slips that accept changed odds
  Feeds,          \* 1..n: the feeds the harvester uploads, in order; 0 is the bundled sample
  Quote,          \* [Feeds -> function from the priced <<event, market, pick>> to odds]
  Kickoff,        \* [Feeds -> function from events to their start]
  FeedTtl,        \* SIMULATE_FEED_TTL_MS
  MatchPurse,     \* what a player's ledger holds at first
  MaxLegs, MaxCombined, MaxPayout,  \* SimulateConfig and the limits of real bets
  Hold,           \* Hold[n]: the n-th root of the RTP
  Seeds,          \* the seeds that can be generated
  Draw,           \* Draw[seed][nonce][leg]: [u, score, home, away], the hash's uniforms
  MaxGoals,       \* MAX_GOALS of the score grid
  Weight,         \* Weight[<<h, a>>]: the grid, as positive integers
  LastMatchTime   \* bound on the clock

ASSUME MatchAssumption ==
  /\ SlipBettor \in [Slips -> Bettors] /\ SlipMode \in [Slips -> {"single", "multi"}]
  /\ SlipStake \in [Slips -> Nat \ {0}] /\ MatchPurse \in Nat
  /\ AcceptsMoves \subseteq Slips /\ 0 \in Feeds /\ Feeds \subseteq Nat
  /\ \A s \in Slips : SlipPicks[s] \in Seq(Range(SlipPicks[s])) /\ \A k \in Range(SlipPicks[s]) : k.seen \in Nat
  /\ \A f \in Feeds : \A q \in DOMAIN Quote[f] : q[1] \in DOMAIN Kickoff[f] /\ Kickoff[f][q[1]] \in Int

VARIABLES
  mclock,     \* Date.now()
  harvested,  \* the feed object in S3; 0 while it cannot be read
  feedCache,  \* fixtures.ts `cache`: [feed, at]
  slip,       \* the handler of each request: [pc, feed, at, bets, tx]
  simBets,    \* sim_bets with their legs
  entries     \* wallet_ledger rows of the bets: [slip, bet, type, amount]
matchVars == <<mclock, harvested, feedCache, slip, simBets, entries>>

-----------------------------------------------------------------------------
(* The market catalogue: each outcome is the set of final scores it wins on. *)

Scores == (0..MaxGoals) \X (0..MaxGoals)
Over(n) == {s \in Scores : s[1] + s[2] > n}
Between(i, j) == {s \in Scores : s[1] + s[2] \in i..j}
OverUnder(n) == [over |-> Over(n), under |-> Scores \ Over(n)]
AnyOther == <<>>
CorrectScore == [p \in ((0..3) \X (0..3)) \cup {AnyOther} |->
  IF p = AnyOther THEN {s \in Scores : s[1] > 3 \/ s[2] > 3} ELSE {p} \cap Scores]

WinsOn ==
  LET Home == {s \in Scores : s[1] > s[2]}
      Level == {s \in Scores : s[1] = s[2]}
      Away == {s \in Scores : s[1] < s[2]}
      Odd == {s \in Scores : (s[1] + s[2]) % 2 = 1}
      Both == {s \in Scores : s[1] > 0 /\ s[2] > 0}
  IN  [result          |-> [home |-> Home, draw |-> Level, away |-> Away],
       double_chance   |-> [home_draw |-> Home \cup Level, home_away |-> Home \cup Away,
                            draw_away |-> Level \cup Away],
       btts            |-> [yes |-> Both, no |-> Scores \ Both],
       odd_even        |-> [odd |-> Odd, even |-> Scores \ Odd],
       over_under_0_5  |-> OverUnder(0), over_under_1_5 |-> OverUnder(1),
       over_under_2_5  |-> OverUnder(2), over_under_3_5 |-> OverUnder(3),
       over_under_4_5  |-> OverUnder(4),
       total_goals     |-> [t0_1 |-> Between(0, 1), t2_3 |-> Between(2, 3),
                            t4_6 |-> Between(4, 6), t7_plus |-> Over(6)],
       correct_score   |-> CorrectScore]

\* What is priced is an outcome that some scores settle for and some against, and what
\* a seed determines is a uniform (in thousandths) and minutes.
Drawn(d) ==
  /\ d.score \in Nat /\ d.score < 1000
  /\ \A i \in 1..MaxGoals : d.home[i] \in Nat /\ d.away[i] \in Nat

ASSUME DrawAssumption ==
  /\ MaxGoals \in Nat /\ MaxGoals < 50 /\ \A s \in Scores : Weight[s] \in Nat \ {0}
  /\ \A f \in Feeds : \A q \in DOMAIN Quote[f] : WinsOn[q[2]][q[3]] \in (SUBSET Scores) \ {{}, Scores}
  /\ \A seed \in Seeds, s \in Slips : \A i \in DOMAIN SlipPicks[s] :
       Drawn(IF SlipMode[s] = "multi" THEN Draw[seed][1][i] ELSE Draw[seed][i][1])

\* The caps let at least a unit through, and prices are numbers of hundredths.
ASSUME PriceAssumption ==
  /\ MaxCombined \in Nat /\ MaxCombined >= 100 /\ MaxPayout \in Nat /\ MaxPayout > 0
  /\ \A f \in Feeds : \A q \in DOMAIN Quote[f] : Quote[f][q] \in Nat

-----------------------------------------------------------------------------
(* Drawing the result of a slip. *)

Product(legs) == FoldSeq(LAMBDA l, acc : (acc * l.odds) \div 100, 100, legs)
CombinedOdds(legs) == Min({Product(legs), MaxCombined})

\* Two picks of one event, too many picks, or a price of 1 make a slip invalid.
ValidSlip(legs) ==
  /\ legs # <<>> /\ Len(legs) <= MaxLegs
  /\ \A i \in DOMAIN legs : legs[i].odds > 100
  /\ \A i, j \in DOMAIN legs : i # j => legs[i].event # legs[j].event

\* Faulty variant of SettlesAs: any score is shown.
SettlesAnyhow(market, pick, won) == Scores

SettlesAs(market, pick, won) == IF won THEN WinsOn[market][pick] ELSE Scores \ WinsOn[market][pick]

\* The order of the grid: by the goals of home, then of away.
Earlier(t, s) == t[1] < s[1] \/ (t[1] = s[1] /\ t[2] < s[2])

\* The score is drawn among those that settle the pick the way it was decided.
DrawScore(u, leg, won) ==
  LET fits == SettlesAs(leg.market, leg.pick, won)
      mass(set) == SumFunctionOnSet(Weight, set)
      before(s) == mass({t \in fits : Earlier(t, s)})
  IN  CHOOSE s \in fits : /\ 1000 * before(s) <= u * mass(fits)
                          /\ u * mass(fits) < 1000 * (before(s) + Weight[s])

\* The goals of each side at their drawn minutes, those of home first.
Goals(d, score) == {<<d.home[i], 0, i>> : i \in 1..score[1]} \cup {<<d.away[i], 1, i>> : i \in 1..score[2]}
Key(g) == 100 * g[1] + 50 * g[2] + g[3]
InOrder(goals) == [i \in 1..Cardinality(goals) |->
  CHOOSE g \in goals : Cardinality({x \in goals : Key(x) < Key(g)}) = i - 1]

\* The minutes shown: one that is not after the last is nudged past it, up to the 90th.
Nudged(order) ==
  LET minute[i \in 0..Len(order)] ==
        IF i = 0 THEN 0 ELSE Min({90, Max({order[i][1], minute[i - 1] + 1})})
  IN  minute

Timeline(d, score) ==
  LET order == InOrder(Goals(d, score))
      minute == Nudged(order)
  IN  [i \in DOMAIN order |-> [minute |-> minute[i], team |-> IF order[i][2] = 0 THEN "home" ELSE "away"]]

GoalsOf(team, goals) == Cardinality({i \in DOMAIN goals : goals[i].team = team})

\* The goals before the first one past the 45th minute.
HalfTime(goals) ==
  LET first == {i \in DOMAIN goals : \A k \in 1..i : goals[k].minute <= 45}
      scored(team) == Cardinality({i \in first : goals[i].team = team})
  IN  <<scored("home"), scored("away")>>

LegResult(d, leg, n) ==
  LET won == d.u * leg.odds < Hold[n] * 100
      score == DrawScore(d.score, leg, won)
      goals == Timeline(d, score)
  IN  [event |-> leg.event, market |-> leg.market, pick |-> leg.pick, odds |-> leg.odds,
       won |-> won, score |-> score, timeline |-> goals, half |-> HalfTime(goals)]

\* What a won bet pays is rounded down and capped.
PayoutOfWin(legs, stake) == Min({(stake * CombinedOdds(legs)) \div 100, MaxPayout})

\* A bet is lost with its first lost leg.
SimulateSlip(seed, nonce, legs, stake) ==
  LET results == [i \in DOMAIN legs |-> LegResult(Draw[seed][nonce][i], legs[i], Len(legs))]
      won == \A i \in DOMAIN results : results[i].won
  IN  [seed |-> seed, nonce |-> nonce, won |-> won, legs |-> results,
       payout |-> IF won THEN PayoutOfWin(legs, stake) ELSE 0]

-----------------------------------------------------------------------------
(* The request. *)

NoFeed == [feed |-> 0, at |-> -FeedTtl]
Idle == [pc |-> "idle", feed |-> 0, at |-> 0, bets |-> <<>>, tx |-> {}]
EndSlip(s, answer) == slip' = [slip EXCEPT ![s] = [Idle EXCEPT !.pc = answer]]

Amount(set) == MapThenSumSet(LAMBDA e : e.amount, set)
PurseOf(p) == MatchPurse + Amount({e \in entries : SlipBettor[e.slip] = p})

\* A request that began its transaction keeps the player's lock to its end.
LockHeldBy(s) == slip[s].pc = "placing" /\ slip[s].tx # {}
PlayerLockFree(s) == \A t \in Slips \ {s} : SlipBettor[t] = SlipBettor[s] => ~LockHeldBy(t)

\* The prices a request finds: the feed must have them, and none may have started.
Priced(s, f) == \A i \in DOMAIN SlipPicks[s] :
  LET k == SlipPicks[s][i] IN <<k.event, k.market, k.pick>> \in DOMAIN Quote[f]
Started(s, f) == \E i \in DOMAIN SlipPicks[s] :
  LET k == SlipPicks[s][i] IN k.event \in DOMAIN Kickoff[f] /\ Kickoff[f][k.event] <= mclock
Legs(s, f) == [i \in DOMAIN SlipPicks[s] |->
  LET k == SlipPicks[s][i]
  IN  [event |-> k.event, market |-> k.market, pick |-> k.pick, odds |-> Quote[f][<<k.event, k.market, k.pick>>]]]

\* A price the player saw and that is no longer the price.
OddsChanged(s, f) ==
  /\ s \notin AcceptsMoves
  /\ \E i \in DOMAIN SlipPicks[s] : SlipPicks[s][i].seen > 0 /\ SlipPicks[s][i].seen # Legs(s, f)[i].odds

\* One bet of all picks, or one bet of each.
Bets(s, f, seed) ==
  LET legs == Legs(s, f)
  IN  IF SlipMode[s] = "multi" THEN <<SimulateSlip(seed, 1, legs, SlipStake[s])>>
      ELSE [i \in DOMAIN legs |-> SimulateSlip(seed, i, <<legs[i]>>, SlipStake[s])]
TotalStake(s) == IF SlipMode[s] = "multi" THEN SlipStake[s] ELSE SlipStake[s] * Len(SlipPicks[s])
AllValid(s, f) == IF SlipMode[s] = "multi" THEN ValidSlip(Legs(s, f))
                  ELSE \A i \in DOMAIN SlipPicks[s] : ValidSlip(<<Legs(s, f)[i]>>)

\* Prices, checks and draws happen in one turn of the event loop once the feed is there.
Resolve(s, f) ==
  IF ~Priced(s, f) \/ Started(s, f) THEN EndSlip(s, "refused")
  ELSE IF OddsChanged(s, f) THEN EndSlip(s, "odds changed")
  ELSE IF ~AllValid(s, f) THEN EndSlip(s, "refused")
  ELSE \E seed \in Seeds :
         slip' = [slip EXCEPT ![s] = [Idle EXCEPT !.pc = "placing", !.feed = f, !.at = mclock, !.bets = Bets(s, f, seed)]]

CheckFunds(s) ==
  /\ slip[s].pc = "idle"
  /\ IF Len(SlipPicks[s]) > MaxLegs THEN EndSlip(s, "refused")
     ELSE IF PurseOf(SlipBettor[s]) < TotalStake(s) THEN EndSlip(s, "no funds")
     ELSE slip' = [slip EXCEPT ![s].pc = "funded", ![s].at = mclock]
  /\ UNCHANGED <<mclock, harvested, feedCache, simBets, entries>>

UseCachedFeed(s) ==
  /\ slip[s].pc = "funded" /\ mclock - feedCache.at < FeedTtl
  /\ Resolve(s, feedCache.feed)
  /\ UNCHANGED <<mclock, harvested, feedCache, simBets, entries>>

\* Past its time the cache is fetched anew by every request that finds it so.
FetchFeed(s) ==
  /\ slip[s].pc = "funded" /\ mclock - feedCache.at >= FeedTtl
  /\ slip' = [slip EXCEPT ![s].pc = "fetching", ![s].feed = harvested, ![s].at = mclock]
  /\ UNCHANGED <<mclock, harvested, feedCache, simBets, entries>>

\* The answer of S3, or the sample feed when it cannot be had.
FeedArrives(s) ==
  /\ slip[s].pc = "fetching"
  /\ \E f \in {slip[s].feed, 0} :
       /\ feedCache' = [feed |-> f, at |-> slip[s].at]
       /\ Resolve(s, f)
  /\ UNCHANGED <<mclock, harvested, simBets, entries>>

\* One bet of the transaction: its stake under the lock, and its win.
PlaceOne(s) ==
  /\ slip[s].pc = "placing" /\ PlayerLockFree(s)
  /\ \E i \in DOMAIN slip[s].bets :
       /\ i = 1 + Cardinality({e \in slip[s].tx : e.type = "bet"})
       /\ LET bet == slip[s].bets[i]
              stake == [slip |-> s, bet |-> i, type |-> "bet", amount |-> -SlipStake[s]]
              win == [slip |-> s, bet |-> i, type |-> "win", amount |-> bet.payout]
          IN  IF PurseOf(SlipBettor[s]) + Amount(slip[s].tx) < SlipStake[s] THEN EndSlip(s, "no funds")
              ELSE slip' = [slip EXCEPT ![s].tx = @ \cup {stake} \cup (IF bet.payout > 0 THEN {win} ELSE {})]
  /\ UNCHANGED <<mclock, harvested, feedCache, simBets, entries>>

\* Every bet is in before the transaction commits.
MayCommit(s) == Cardinality({e \in slip[s].tx : e.type = "bet"}) = Len(slip[s].bets)

Commit(s) ==
  /\ slip[s].pc = "placing" /\ MayCommit(s)
  /\ entries' = entries \cup slip[s].tx
  /\ simBets' = simBets \cup {[slip |-> s, bet |-> i, feed |-> slip[s].feed, at |-> slip[s].at, result |-> slip[s].bets[i]]
                               : i \in {e.bet : e \in slip[s].tx}}
  /\ EndSlip(s, "placed")
  /\ UNCHANGED <<mclock, harvested, feedCache>>

\* A database error, five bet ids taken, or the process going: nothing is kept.
PlacingFails(s) ==
  /\ slip[s].pc = "placing"
  /\ EndSlip(s, "error")
  /\ UNCHANGED <<mclock, harvested, feedCache, simBets, entries>>

Harvest ==
  /\ harvested' \in {f \in Feeds : f > harvested}
  /\ UNCHANGED <<mclock, feedCache, slip, simBets, entries>>

MatchTick ==
  /\ mclock < LastMatchTime
  /\ mclock' = mclock + 1
  /\ UNCHANGED <<harvested, feedCache, slip, simBets, entries>>

-----------------------------------------------------------------------------
MatchInit ==
  /\ mclock = 0 /\ harvested = 0 /\ feedCache = NoFeed
  /\ slip = [s \in Slips |-> Idle]
  /\ simBets = {} /\ entries = {}

MatchNext ==
  \/ \E s \in Slips : \/ CheckFunds(s) \/ UseCachedFeed(s) \/ FetchFeed(s) \/ FeedArrives(s)
                      \/ PlaceOne(s) \/ Commit(s) \/ PlacingFails(s)
  \/ Harvest \/ MatchTick

MatchSpec == MatchInit /\ [][MatchNext]_matchVars

-----------------------------------------------------------------------------
(* Properties *)

\* The balances and the bets are of their types.
MatchTypeOK ==
  /\ mclock \in 0..LastMatchTime /\ harvested \in Feeds
  /\ feedCache.feed \in Feeds /\ feedCache.at \in -FeedTtl..LastMatchTime
  /\ \A s \in Slips : slip[s].pc \in {"idle", "funded", "fetching", "placing", "placed", "refused",
                                      "odds changed", "no funds", "error"}
  /\ \A e \in entries \cup UNION {slip[s].tx : s \in Slips} :
       e.slip \in Slips /\ e.type \in {"bet", "win"} /\ e.amount \in Int

\* Requests of one player at the same time never spend more than the ledger holds
\* (the balance check before the feed is only a cheap early one).
MatchPurseNotOverdrawn == \A p \in Bettors : PurseOf(p) >= 0

\* A request's bets are placed together or not at all, each with its stake and,
\* exactly if it won, its win.
SlipIsWhole == \A s \in Slips :
  LET rows == {b \in simBets : b.slip = s}
      posted == {e \in entries : e.slip = s}
  IN  /\ rows # {} => {b.bet : b \in rows} = (IF SlipMode[s] = "multi" THEN {1} ELSE DOMAIN SlipPicks[s])
      /\ {e.bet : e \in {x \in posted : x.type = "bet"}} = {b.bet : b \in rows}
      /\ {<<e.bet, e.amount>> : e \in {x \in posted : x.type = "win"}}
           = {<<b.bet, b.result.payout>> : b \in {r \in rows : r.result.won}}

\* No bet is placed at a price the player did not see, unless the player accepts
\* that, nor on an event that had started when it was priced, whatever feed was
\* cached or fetched meanwhile.
PricedAsSeen == \A b \in simBets : \A i \in DOMAIN b.result.legs :
  LET leg == b.result.legs[i]
      pick == IF SlipMode[b.slip] = "multi" THEN SlipPicks[b.slip][i] ELSE SlipPicks[b.slip][b.bet]
  IN  /\ leg.event = pick.event /\ leg.market = pick.market /\ leg.pick = pick.pick
      /\ pick.seen \in {0, leg.odds} \/ b.slip \in AcceptsMoves
      /\ Kickoff[b.feed][leg.event] > b.at

\* The score shown settles the pick the way it was paid, and the goals shown,
\* in the order shown, lead to that score through the half-time score.
ScoreExplainsResult == \A b \in simBets : \A i \in DOMAIN b.result.legs :
  LET leg == b.result.legs[i]
      goals == leg.timeline
  IN  /\ leg.won <=> leg.score \in WinsOn[leg.market][leg.pick]
      /\ <<GoalsOf("home", goals), GoalsOf("away", goals)>> = leg.score
      /\ \A k \in 1..Len(goals) - 1 : goals[k].minute <= goals[k + 1].minute
      /\ leg.half[1] <= leg.score[1] /\ leg.half[2] <= leg.score[2]

\* A slip is placed whole, at the prices its player saw, and settled as its matches say.
SlipsAreHonest == MatchPurseNotOverdrawn /\ SlipIsWhole /\ PricedAsSeen /\ ScoreExplainsResult
=============================================================================
