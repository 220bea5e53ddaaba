---------------------------- MODULE FantasyLeague ----------------------------
(***************************************************************************)
(* Fantasy leagues of one gameweek: the scheduler opens them and settles   *)
(* them when FPL has checked the results, players join with a squad and an *)
(* entry fee from their wallet.  FPL's answers are cached; joining holds a  *)
(* SHARE lock on the league row, settling an exclusive one.                *)
(***************************************************************************)
EXTENDS Integers, FiniteSets, FiniteSetsExt, Sequences

CONSTANTS
  Entrants,       \* players
  Leagues,        \* the templates' leagues of the gameweek
  Joins,          \* POST /leagues/:id/join requests
  JoinPlayer, JoinLeague, JoinPick,  \* of each: squads have an xi, a captain and a vice
  Ticks,          \* passes of the scheduler, of the process and of its replacement
  Footballers,
  Position, Club, Cost,  \* of each footballer
  Limits,         \* POSITION_LIMITS: position to [min, max]
  SquadSize, MaxPerClub, Budget,
  Points,         \* "provisional" and "official" points and minutes of each footballer
  Fee, FantasyPurse, RakeBps, PayoutBps, MinEntrants,
  LastTime        \* bound: the clock

ASSUME FantasyAssumption ==
  /\ JoinPlayer \in [Joins -> Entrants] /\ JoinLeague \in [Joins -> Leagues]
  /\ Fee \in Nat \ {0} /\ FantasyPurse \in Nat /\ RakeBps \in Nat /\ RakeBps <= 10000
  /\ MinEntrants \in Nat /\ LastTime \in Nat
  /\ IsFiniteSet(Entrants) /\ IsFiniteSet(Leagues) /\ IsFiniteSet(Footballers)

\* A footballer the catalogue does not have is refused (squadIssues), and FPL scores all it has.
ASSUME PointsAssumption ==
  /\ \A j \in Joins : JoinPick[j].xi \subseteq Footballers
  /\ Points \in [{"provisional", "official"} -> [Footballers -> [points : Int, minutes : Nat]]]

\* DEFAULT_PAYOUT_BPS, which no league departs from: the first place is paid, a lower one no more.
ASSUME PayoutAssumption ==
  /\ PayoutBps \in Seq(Nat) /\ PayoutBps # <<>> /\ PayoutBps[1] > 0
  /\ \A i \in 2..Len(PayoutBps) : PayoutBps[i] <= PayoutBps[i - 1]

VARIABLES
  time, fplDeadline, checked,  \* FPL's gameweek: its deadline, finished and data_checked
  catalog,        \* cached catalogue: the gameweek as it was fetched, or NoCatalog
  livePoints,     \* cached points: "none", "provisional" or "official"
  leagueStatus, deadline,  \* fantasy_leagues rows
  squads,         \* fantasy_league_members: of each league, who entered with which squad
  points, payout, \* of each member, written by settle
  rake,           \* the house's part
  joining, calledAt,  \* each join: where it is, nowMs
  tick, known, todo,  \* each tick: where it is, the gameweek it saw, leagues left to settle
  fpurse          \* wallet balances

fplVars    == <<time, fplDeadline, checked>>
cacheVars  == <<catalog, livePoints>>
leagueVars == <<leagueStatus, deadline, squads, points, payout, rake>>
joinVars   == <<joining, calledAt>>
tickVars   == <<tick, known, todo>>
fantasyVars == <<fplVars, cacheVars, leagueVars, joinVars, tickVars, fpurse>>

NoCatalog == [deadline |-> 0, checked |-> FALSE]
Members(l) == DOMAIN squads[l]

-----------------------------------------------------------------------------
(* The rules (shared/fantasy.ts). *)

SquadCost(xi) == MapThenSumSet(LAMBDA f : Cost[f], xi)

\* squadIssues finds nothing.
SquadOk(p) ==
  /\ Cardinality(p.xi) = SquadSize
  /\ \A pos \in DOMAIN Limits :
       LET n == Cardinality({f \in p.xi : Position[f] = pos}) IN
       Limits[pos].min <= n /\ n <= Limits[pos].max
  /\ \A f \in p.xi : Cardinality({g \in p.xi : Club[g] = Club[f]}) <= MaxPerClub
  /\ SquadCost(p.xi) <= Budget
  /\ {p.captain, p.vice} \subseteq p.xi /\ p.captain # p.vice

\* squadPoints: the captain counts twice, or the vice-captain if he did not play.
SquadPoints(p, live) ==
  MapThenSumSet(LAMBDA f : live[f].points, p.xi)
    + live[IF live[p.captain].minutes > 0 THEN p.captain ELSE p.vice].points

\* rankByPoints: 1, 2, 2, 4.
RankOf(pts, e) == 1 + Cardinality({x \in DOMAIN pts : pts[x] > pts[e]})

Least(a, b) == IF a <= b THEN a ELSE b
SharesOf(places) == MapThenSumSet(LAMBDA i : PayoutBps[i], places)

\* Faulty variant of PayoutOf: tied players all take the place they share.
PayoutByRank(pts, prize, e) ==
  LET places == Least(Len(PayoutBps), Cardinality(DOMAIN pts)) IN
  IF RankOf(pts, e) > places THEN 0
  ELSE (prize * PayoutBps[RankOf(pts, e)]) \div SharesOf(1..places)

\* payouts: those of one rank share the places they occupy, rounded down.
PayoutOf(pts, prize, e) ==
  LET places == Least(Len(PayoutBps), Cardinality(DOMAIN pts))
      peers  == Cardinality({x \in DOMAIN pts : pts[x] = pts[e]})
      first  == RankOf(pts, e)
      share  == SharesOf(first..Least(first + peers - 1, places))
  IN (prize * share) \div (SharesOf(1..places) * peers)

\* splitPool.
RakeOf(pool) == (pool * RakeBps) \div 10000

-----------------------------------------------------------------------------
(* Faulty variants of helpers. *)

\* status is not looked at again under the lock.
StillOpenUnchecked(l) == leagueStatus[l] # "none"

\* The failed league's tick is remembered as running.
ForgetToStop(k) == UNCHANGED tickVars

-----------------------------------------------------------------------------
(* FPL, external, and its cache (fpl.ts). *)

TimePasses ==
  /\ time < LastTime /\ time' = time + 1
  /\ UNCHANGED <<fplDeadline, checked, cacheVars, leagueVars, joinVars, tickVars, fpurse>>

\* A postponed gameweek, at the latest to after the bound.
FplMovesDeadline ==
  /\ fplDeadline > time /\ fplDeadline <= LastTime /\ fplDeadline' = fplDeadline + 1
  /\ UNCHANGED <<time, checked, cacheVars, leagueVars, joinVars, tickVars, fpurse>>

\* finished and data_checked: from here on the points FPL serves are official.
FplChecksResults ==
  /\ time >= fplDeadline /\ ~checked /\ checked' = TRUE
  /\ UNCHANGED <<time, fplDeadline, cacheVars, leagueVars, joinVars, tickVars, fpurse>>

Served == IF checked THEN "official" ELSE "provisional"

\* cached(): what was loaded is served until its time to live is over, and then
\* the next request, whosever it is, loads it again.
LoadCatalog ==
  /\ catalog' = [deadline |-> fplDeadline, checked |-> checked]
  /\ UNCHANGED <<fplVars, livePoints, leagueVars, joinVars, tickVars, fpurse>>

LoadLivePoints ==
  /\ time >= fplDeadline /\ livePoints' = Served
  /\ UNCHANGED <<fplVars, catalog, leagueVars, joinVars, tickVars, fpurse>>

-----------------------------------------------------------------------------
(* Joining (http/fantasy-league.ts, fantasy-league-repo-pg.ts). *)

JoinGoes(j, s) == joining' = [joining EXCEPT ![j] = s]

\* phaseOf, the squad against the catalogue, and join(..., now()).
CheckJoin(j) ==
  LET l == JoinLeague[j] IN
  /\ joining[j] = "none" /\ leagueStatus[l] # "none" /\ catalog # NoCatalog
  /\ JoinGoes(j, IF leagueStatus[l] = "open" /\ deadline[l] > time /\ SquadOk(JoinPick[j])
                 THEN "called" ELSE "refused")
  /\ calledAt' = [calledAt EXCEPT ![j] = time]
  /\ UNCHANGED <<fplVars, cacheVars, leagueVars, tickVars, fpurse>>

StillOpen(l) == leagueStatus[l] = "open"

\* SELECT ... FOR SHARE; settle's own lock lasts no longer than its step here.
LockForJoin(j) ==
  LET l == JoinLeague[j] IN
  /\ joining[j] = "called"
  /\ JoinGoes(j, IF leagueStatus[l] = "open" /\ deadline[l] > calledAt[j] THEN "locked" ELSE "refused")
  /\ UNCHANGED <<fplVars, cacheVars, leagueVars, calledAt, tickVars, fpurse>>

\* The primary key: a second insert waits for the first to commit or roll back.
InsertMember(j) ==
  LET l == JoinLeague[j]  e == JoinPlayer[j] IN
  /\ joining[j] = "locked"
  /\ \A i \in Joins \ {j} : joining[i] = "inserted" => <<JoinLeague[i], JoinPlayer[i]>> # <<l, e>>
  /\ JoinGoes(j, IF e \in Members(l) THEN "refused" ELSE "inserted")
  /\ UNCHANGED <<fplVars, cacheVars, leagueVars, calledAt, tickVars, fpurse>>

\* betInTx under the player's lock, and COMMIT.
PayEntry(j) ==
  LET l == JoinLeague[j]  e == JoinPlayer[j] IN
  /\ joining[j] = "inserted"
  /\ IF fpurse[e] < Fee
     THEN JoinGoes(j, "refused") /\ UNCHANGED <<squads, fpurse>>
     ELSE /\ JoinGoes(j, "joined")
          /\ fpurse' = [fpurse EXCEPT ![e] = @ - Fee]
          /\ squads' = [squads EXCEPT ![l] = [m \in Members(l) \cup {e} |->
                          IF m = e THEN JoinPick[j] ELSE squads[l][m]]]
  /\ UNCHANGED <<fplVars, cacheVars, leagueStatus, deadline, points, payout, rake,
                 calledAt, tickVars>>

JoinFails(j) ==
  /\ joining[j] \in {"called", "locked", "inserted"} /\ JoinGoes(j, "refused")
  /\ UNCHANGED <<fplVars, cacheVars, leagueVars, calledAt, tickVars, fpurse>>

-----------------------------------------------------------------------------
(* The scheduler (scheduler.ts). *)

\* What a pass knew is gone with it.
Stopped(k) ==
  /\ tick' = [tick EXCEPT ![k] = "idle"] /\ todo' = [todo EXCEPT ![k] = {}]
  /\ known' = [known EXCEPT ![k] = NoCatalog]

\* A tick asks for the catalogue; ticks of one process do not overlap.
StartTick(k) ==
  /\ tick[k] = "idle" /\ catalog # NoCatalog
  /\ tick' = [tick EXCEPT ![k] = IF catalog.deadline > time THEN "open" ELSE "list"]
  /\ known' = [known EXCEPT ![k] = catalog]
  /\ todo' = [todo EXCEPT ![k] = IF catalog.deadline > time THEN Leagues ELSE {}]
  /\ UNCHANGED <<fplVars, cacheVars, leagueVars, joinVars, fpurse>>

\* ensureLeagues: INSERT ... ON CONFLICT follows the deadline of an open league,
\* and waits for a joining transaction that has the row.
EnsureLeague(k, l) ==
  /\ tick[k] = "open" /\ l \in todo[k]
  /\ \A j \in Joins : JoinLeague[j] = l => joining[j] \notin {"locked", "inserted"}
  /\ todo' = [todo EXCEPT ![k] = @ \ {l}]
  /\ tick' = [tick EXCEPT ![k] = IF todo[k] = {l} THEN "list" ELSE @]
  /\ leagueStatus' = [leagueStatus EXCEPT ![l] = IF @ = "none" THEN "open" ELSE @]
  /\ deadline' = [deadline EXCEPT ![l] = IF leagueStatus[l] \in {"none", "open"} THEN known[k].deadline ELSE @]
  /\ UNCHANGED <<fplVars, cacheVars, squads, points, payout, rake, joinVars, known, fpurse>>

\* listOpen, when the gameweek is final; else the pass is over.
ListOpen(k) ==
  LET open == {l \in Leagues : leagueStatus[l] = "open"} IN
  /\ tick[k] = "list"
  /\ IF known[k].checked /\ open # {}
     THEN tick' = [tick EXCEPT ![k] = "settle"] /\ todo' = [todo EXCEPT ![k] = open] /\ UNCHANGED known
     ELSE Stopped(k)
  /\ UNCHANGED <<fplVars, cacheVars, leagueVars, joinVars, fpurse>>

\* FOR UPDATE waits for every joining transaction.
LeagueFree(l) ==
  \A j \in Joins : JoinLeague[j] = l => joining[j] \notin {"locked", "inserted"}

Finish(k, l) ==
  IF todo[k] = {l} THEN Stopped(k)
  ELSE todo' = [todo EXCEPT ![k] = @ \ {l}] /\ UNCHANGED <<tick, known>>

\* Fewer than MIN_ENTRANTS: refunds.
CancelLeague(l) ==
  /\ leagueStatus' = [leagueStatus EXCEPT ![l] = "cancelled"]
  /\ fpurse' = [e \in Entrants |-> fpurse[e] + IF e \in Members(l) THEN Fee ELSE 0]
  /\ UNCHANGED <<points, payout, rake>>

PayLeague(l, live) ==
  LET pts   == [e \in Members(l) |-> SquadPoints(squads[l][e], live)]
      pool  == Fee * Cardinality(Members(l))
      prize == pool - RakeOf(pool)
      paid  == [e \in Members(l) |-> PayoutOf(pts, prize, e)]
  IN /\ leagueStatus' = [leagueStatus EXCEPT ![l] = "settled"]
     /\ points' = [points EXCEPT ![l] = pts] /\ payout' = [payout EXCEPT ![l] = paid]
     /\ fpurse' = [e \in Entrants |-> fpurse[e] + IF e \in Members(l) THEN paid[e] ELSE 0]
     /\ rake' = [rake EXCEPT ![l] = pool - MapThenSumSet(LAMBDA e : paid[e], Members(l))]

\* livePoints and settle, one transaction; 'already-final' changes nothing.
SettleLeague(k, l) ==
  /\ tick[k] = "settle" /\ l \in todo[k] /\ livePoints # "none" /\ LeagueFree(l)
  /\ IF ~StillOpen(l) THEN UNCHANGED <<leagueStatus, points, payout, rake, fpurse>>
     ELSE IF Cardinality(Members(l)) < MinEntrants
          THEN CancelLeague(l) ELSE PayLeague(l, Points[livePoints])
  /\ Finish(k, l)
  /\ UNCHANGED <<fplVars, cacheVars, deadline, squads, joinVars>>

\* An exception, or the end of the process: the next tick starts over.
TickFails(k) ==
  /\ tick[k] # "idle" /\ Stopped(k)
  /\ UNCHANGED <<fplVars, cacheVars, leagueVars, joinVars, fpurse>>

-----------------------------------------------------------------------------
FantasyInit ==
  /\ time = 0 /\ fplDeadline = 1 /\ checked = FALSE
  /\ catalog = NoCatalog /\ livePoints = "none"
  /\ leagueStatus = [l \in Leagues |-> "none"] /\ deadline = [l \in Leagues |-> 0]
  /\ squads = [l \in Leagues |-> <<>>] /\ points = squads /\ payout = squads
  /\ rake = [l \in Leagues |-> 0]
  /\ joining = [j \in Joins |-> "none"]
  /\ calledAt = [j \in Joins |-> 0]
  /\ tick = [k \in Ticks |-> "idle"] /\ known = [k \in Ticks |-> NoCatalog]
  /\ todo = [k \in Ticks |-> {}]
  /\ fpurse = [e \in Entrants |-> FantasyPurse]

FantasyNext ==
  \/ TimePasses \/ FplMovesDeadline \/ FplChecksResults
  \/ LoadCatalog \/ LoadLivePoints
  \/ \E j \in Joins : \/ CheckJoin(j) \/ LockForJoin(j)
                      \/ InsertMember(j) \/ PayEntry(j) \/ JoinFails(j)
  \/ \E k \in Ticks : \/ StartTick(k) \/ ListOpen(k) \/ TickFails(k)
                      \/ \E l \in Leagues : EnsureLeague(k, l) \/ SettleLeague(k, l)

FantasySpec == FantasyInit /\ [][FantasyNext]_fantasyVars

-----------------------------------------------------------------------------
(* Properties. *)

Steps == {"none", "called", "locked", "inserted", "joined", "refused"}

\* Every variable keeps its type.
FantasyTypeOK ==
  /\ time \in 0..LastTime /\ fplDeadline \in 1..(LastTime + 1) /\ checked \in BOOLEAN
  /\ livePoints \in {"none", "provisional", "official"}
  /\ leagueStatus \in [Leagues -> {"none", "open", "settled", "cancelled"}]
  /\ \A l \in Leagues : Members(l) \subseteq Entrants /\ \A e \in Members(l) : SquadOk(squads[l][e])
  /\ joining \in [Joins -> Steps] /\ calledAt \in [Joins -> 0..LastTime]
  /\ tick \in [Ticks -> {"idle", "open", "list", "settle"}] /\ todo \in [Ticks -> SUBSET Leagues]
  /\ fpurse \in [Entrants -> Nat]

\* No money is made or lost: what left the wallets is in the pools of the open
\* leagues or in the rake, with joins, two ticks and a settlement interleaved.
EntryFeesBalance ==
  MapThenSumSet(LAMBDA e : fpurse[e], Entrants)
    + MapThenSumSet(LAMBDA l : IF leagueStatus[l] = "open" THEN Fee * Cardinality(Members(l)) ELSE rake[l], Leagues)
  = FantasyPurse * Cardinality(Entrants)

\* Whoever scored more is paid no less, whoever scored the same the same (payouts).
PaidByRank ==
  \A l \in Leagues : leagueStatus[l] = "settled" =>
    \A e, f \in Members(l) : points[l][e] >= points[l][f] => payout[l][e] >= payout[l][f]

\* The house never pays in: rounding leaves it at least its rake (splitPool, payouts).
HouseKeepsRake ==
  \A l \in Leagues : leagueStatus[l] = "settled" => rake[l] >= RakeOf(Fee * Cardinality(Members(l)))

LeagueMoneyIsRight == EntryFeesBalance /\ PaidByRank /\ HouseKeepsRake

\* A final league is final: nobody joins it, and no second tick settles it again.
FinalLeaguesStay ==
  [][\A l \in Leagues : leagueStatus[l] \in {"settled", "cancelled"} =>
       leagueStatus'[l] = leagueStatus[l] /\ squads'[l] = squads[l] /\ payout'[l] = payout[l]]_fantasyVars

\* Every open league is settled or cancelled once FPL has checked the results,
\* whatever single ticks fail on (runFantasyTick is retried).
LeaguesAreFinalised ==
  \A l \in Leagues : (leagueStatus[l] = "open" /\ checked) ~> leagueStatus[l] \in {"settled", "cancelled"}

=============================================================================
