------------------------------ MODULE PlayStats ------------------------------
(***************************************************************************)
(* What a session's panel counts (store.ts): bets, wins, losses, streaks   *)
(* and profit, kept by read-modify-write under a lock that serves in order, *)
(* fed by place_bet, by credits that land when they land, and by the crash; *)
(* and the session's history, newest first.                                *)
(* Every bet stakes one unit, a win pays three.                            *)
(***************************************************************************)
EXTENDS Integers, Sequences, FiniteSets, SequencesExt

CONSTANTS
  Wagers,         \* bets of the session, of one kind
  DemoWagers,     \* of a demo session: counted before they are seated
  OperatorWagers, \* cashed out when the operator has answered, not before
  HistoryLimit,   \* HISTORY_LIMIT
  MaxStoreFails   \* bound: mutations the store refuses

ASSUME PlayStatsAssumption ==
  /\ DemoWagers \subseteq Wagers /\ OperatorWagers \subseteq Wagers \ DemoWagers
  /\ IsFiniteSet(Wagers) /\ HistoryLimit \in Nat /\ MaxStoreFails \in Nat

VARIABLES
  wager,     \* of each bet: "none", "counting", "adrift" (counting, for a round that is over), "seated",
             \* "cashing" (credit awaited), "cashed", "lost", or "missed" by the counts
  marked,    \* bet.cashedOut
  flight,    \* the round's phase
  counts,    \* session:<id>:stats
  waiting,   \* mutations waiting for the lock, in order: <<kind, bet>>
  held,      \* what the mutation in the lock has read, or <<>>
  log,       \* session:<id>:history, newest first: [kind, bet]
  logging,   \* appendHistory calls waiting for their lock, in order
  panel,     \* the stats the client shows
  order,     \* history: outcomes in the order they were counted
  late,      \* history: operator bets counted as lost while their credit was awaited
  storeFails

lockVars == <<counts, waiting, held, panel, order, storeFails>>
logVars == <<log, logging>>
statsVars == <<wager, marked, flight, lockVars, logVars, late>>

ZeroStats == [bets |-> 0, wins |-> 0, losses |-> 0, net |-> 0, streak |-> 0, best |-> 0]
Larger(a, b) == IF a >= b THEN a ELSE b

-----------------------------------------------------------------------------
(* Faulty variant of InTurn. *)

\* The lock serves mutations in any order.
InTurnAny(i) == TRUE

-----------------------------------------------------------------------------
(* store.ts *)

\* recordBet, recordWin, recordLoss.
Counted(s, kind) ==
  CASE kind = "bet"  -> [s EXCEPT !.bets = @ + 1, !.net = @ - 1]
    [] kind = "win"  -> LET streak == IF s.streak >= 0 THEN s.streak + 1 ELSE 1
                        IN [s EXCEPT !.wins = @ + 1, !.net = @ + 3, !.streak = streak, !.best = Larger(@, streak)]
    [] kind = "loss" -> [s EXCEPT !.losses = @ + 1, !.streak = IF @ <= 0 THEN @ - 1 ELSE -1]

InTurn(i) == i = 1

\* withLock: the next mutation reads.
StatsRead ==
  /\ held = <<>>
  /\ \E i \in DOMAIN waiting :
       InTurn(i) /\ held' = <<waiting[i], counts>> /\ waiting' = RemoveAt(waiting, i)
  /\ UNCHANGED <<wager, marked, flight, counts, panel, order, storeFails, logVars, late>>

\* A demo bet is seated when it has been counted.
Seats(b) == CASE wager[b] = "counting" -> "seated" [] wager[b] = "adrift" -> "missed" [] OTHER -> wager[b]

\* ... and writes; bet_placed and cashout_success carry the result, a loss sends none.
StatsWritten ==
  /\ held # <<>> /\ held' = <<>>
  /\ LET kind == held[1][1]
         bet  == held[1][2]
     IN /\ counts' = Counted(held[2], kind)
        /\ panel' = IF kind = "loss" THEN panel ELSE counts'
        /\ order' = IF kind = "bet" THEN order ELSE Append(order, kind)
        /\ wager' = [wager EXCEPT ![bet] = Seats(bet)]
        /\ logging' = IF bet \in DemoWagers /\ kind # "loss" THEN Append(logging, <<kind, bet>>) ELSE logging
  /\ UNCHANGED <<marked, flight, waiting, storeFails, log, late>>

\* The store is offline: recordStatsSafely swallows it, a demo bet fails.
StatsRefused ==
  /\ held # <<>> /\ held' = <<>> /\ storeFails < MaxStoreFails /\ storeFails' = storeFails + 1
  /\ wager' = [wager EXCEPT ![held[1][2]] = IF @ \in {"counting", "adrift"} THEN "missed" ELSE @]
  /\ UNCHANGED <<marked, flight, counts, waiting, panel, order, logVars, late>>

\* appendHistory: unshift and trim, one call after another.
HistoryAppended ==
  /\ logging # <<>> /\ logging' = Tail(logging)
  /\ log' = SubSeq(<<Head(logging)>> \o log, 1, IF Len(log) < HistoryLimit THEN Len(log) + 1 ELSE HistoryLimit)
  /\ UNCHANGED <<wager, marked, flight, lockVars, late>>

-----------------------------------------------------------------------------
(* The flows that feed it (handlers.ts, bets.ts, engine.ts). *)

\* The debit succeeded.
StakeTaken(b) ==
  /\ wager[b] = "none" /\ flight = "BETTING"
  /\ wager' = [wager EXCEPT ![b] = IF b \in DemoWagers THEN "counting" ELSE "seated"]
  /\ waiting' = Append(waiting, <<"bet", b>>)
  /\ UNCHANGED <<marked, flight, counts, held, panel, order, storeFails, logVars, late>>

StatsPhase ==
  /\ flight = "BETTING" /\ flight' = "FLYING"
  /\ UNCHANGED <<wager, marked, lockVars, logVars, late>>

\* tryCashoutBet: an operator's bet is marked when the answer is there.
CashoutAsked(b) ==
  /\ flight = "FLYING" /\ wager[b] = "seated" /\ ~marked[b]
  /\ wager' = [wager EXCEPT ![b] = "cashing"] /\ marked' = [marked EXCEPT ![b] = b \notin OperatorWagers]
  /\ UNCHANGED <<flight, lockVars, logVars, late>>

\* The credit lands: recordWin.
CreditLands(b) ==
  /\ wager[b] = "cashing" /\ wager' = [wager EXCEPT ![b] = "cashed"]
  /\ marked' = [marked EXCEPT ![b] = TRUE]
  /\ waiting' = Append(waiting, <<"win", b>>)
  /\ UNCHANGED <<flight, counts, held, panel, order, storeFails, logVars, late>>

\* It does not: nothing is recorded, whatever comes of it later.
CreditMissing(b) ==
  /\ wager[b] = "cashing" /\ wager' = [wager EXCEPT ![b] = "missed"]
  /\ marked' = [marked EXCEPT ![b] = TRUE]
  /\ UNCHANGED <<flight, lockVars, logVars, late>>

\* Bets of the round that are not cashed out (one cashing since an earlier round is not
\* at this table).
LosersOfRound == {b \in Wagers \ late : wager[b] \in {"seated", "cashing"} /\ ~marked[b]}

\* crash: recordLoss is called and not awaited; getStats, called after it, reads the
\* record first, and what it reads is sent.
StatsCrash ==
  /\ flight = "FLYING" /\ flight' = "CRASHED"
  /\ waiting' = waiting \o SetToSeq({<<"loss", b>> : b \in LosersOfRound})
  /\ logging' = logging \o SetToSeq({<<"loss", b>> : b \in LosersOfRound \cap DemoWagers})
  /\ late' = late \cup {b \in LosersOfRound : wager[b] = "cashing"}
  /\ wager' = [b \in Wagers |-> IF b \in LosersOfRound /\ wager[b] = "seated" THEN "lost" ELSE wager[b]]
  /\ panel' = IF LosersOfRound = {} THEN panel ELSE counts
  /\ UNCHANGED <<marked, counts, held, order, storeFails, log>>

\* The next round has a table of its own: a bet seated after the crash is not looked
\* at again.
StatsRoundBegins ==
  /\ flight = "CRASHED" /\ flight' = "BETTING"
  /\ wager' = [b \in Wagers |-> CASE wager[b] = "seated" -> "missed" [] wager[b] = "counting" -> "adrift"
                                 [] OTHER -> wager[b]]
  /\ UNCHANGED <<marked, lockVars, logVars, late>>

-----------------------------------------------------------------------------
StatsInit ==
  /\ wager = [b \in Wagers |-> "none"] /\ marked = [b \in Wagers |-> FALSE] /\ flight = "BETTING"
  /\ counts = ZeroStats /\ waiting = <<>> /\ held = <<>> /\ log = <<>> /\ logging = <<>>
  /\ panel = ZeroStats /\ order = <<>> /\ late = {} /\ storeFails = 0

StatsNext ==
  \/ StatsRead \/ StatsWritten \/ StatsRefused \/ HistoryAppended
  \/ StatsPhase \/ StatsCrash \/ StatsRoundBegins
  \/ \E b \in Wagers : StakeTaken(b) \/ CashoutAsked(b) \/ CreditLands(b) \/ CreditMissing(b)

StatsSpec == StatsInit /\ [][StatsNext]_statsVars

-----------------------------------------------------------------------------
(* Properties. *)

NothingWaits == waiting = <<>> /\ held = <<>>
WagersAt(st) == Cardinality({b \in Wagers : wager[b] \in st})

\* No update is lost: every bet, credit and loss that happened is counted once, and a
\* bet ends as one of the two, but for an operator's bet that crashed while its win
\* was under way, which is counted as both.  (store.ts:84, engine.ts:184.)
EveryOutcomeCounts ==
  /\ counts.net = 3 * counts.wins - counts.bets
  /\ counts.wins + counts.losses <= counts.bets + Cardinality(late) + storeFails
  /\ NothingWaits /\ storeFails = 0 =>
       /\ counts.bets = WagersAt({"seated", "cashing", "cashed", "missed", "lost"})
       /\ counts.wins = WagersAt({"cashed"})
       /\ counts.losses = WagersAt({"lost"}) + Cardinality(late)

\* The streak is the run of equal outcomes at the end of what was counted, and the
\* best one the longest run of wins.  (store.ts:373, 400.)
RunEndingAt(i) ==
  CHOOSE n \in 1..i : /\ \A k \in (i - n + 1)..i : order[k] = order[i]
                      /\ n < i => order[i - n] # order[i]
StreaksAreRuns ==
  /\ order # <<>> =>
       counts.streak = IF Last(order) = "win" THEN RunEndingAt(Len(order)) ELSE -RunEndingAt(Len(order))
  /\ \A i \in DOMAIN order : order[i] = "win" => RunEndingAt(i) <= counts.best

\* The history holds no more than its limit, each entry once, and a bet's outcome after
\* (above) the bet.
HistoryIsInOrder ==
  /\ Len(log) <= HistoryLimit /\ IsInjective(log)
  /\ \A i, j \in DOMAIN log : i < j /\ log[i][2] = log[j][2] => log[j][1] = "bet"

\* The panel's numbers, streaks and history are those of what happened.
StatsAreTrue == EveryOutcomeCounts /\ StreaksAreRuns /\ HistoryIsInOrder
=============================================================================
