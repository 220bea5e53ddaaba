------------------------------ MODULE RoundBets ------------------------------
(***************************************************************************)
(* Bets of the demo and of the personal lobby over the rounds of one game. *)
(* A demo bet is paid from the balance of its session (RocksDB), a lobby   *)
(* bet from wallet_ledger.  place_bet looks at the round, then awaits the   *)
(* debit, then pushes the bet to the round object it looked at: the round  *)
(* may have started, crashed or been replaced in between.  Every bet       *)
(* stakes one unit and a cashout pays two.                                 *)
(***************************************************************************)
EXTENDS Integers, Sequences, SequencesExt

CONSTANTS
  RBets,         \* place_bet messages
  Accounts,      \* demo sessions, and lobby players with their wallets
  DemoAccounts,  \* the demo sessions among them
  AccountOf,     \* of each message
  SeatOf,        \* session and slot of each message
  AutoBets,      \* bets with an auto-cashout target below the crash point
  StartBalance,  \* of every account
  MaxRounds,     \* bound: rounds played
  MaxStops,      \* bound: stops of the server process
  MaxResets      \* bound: reset_balance messages

ASSUME RoundBetsAssumption ==
  /\ AccountOf \in [RBets -> Accounts] /\ DemoAccounts \subseteq Accounts
  /\ AutoBets \subseteq RBets
  /\ StartBalance \in Nat /\ MaxRounds \in Nat /\ MaxStops \in Nat /\ MaxResets \in Nat

VARIABLES
  roundNo, phase,     \* engine.round: its number and phase
  table,              \* engine.round.bets, the bets of players only
  place, inRound,     \* place_bet: where each message is, the round it captured
  read,               \* the balance each message has read
  locking,            \* wallet.bet transactions that hold the player's advisory lock
  purse,              \* session.balance, or SUM(amount_minor) of wallet_ledger
  staked, wins,       \* debits made, wins credited per bet
  cashed, paying,     \* bet.cashedOut; cashouts whose credit is awaited
  lost,               \* bets the crash counted as lost
  stops, resets

placeVars == <<place, inRound, read, locking>>
moneyVars == <<purse, staked, wins>>
cashVars  == <<cashed, paying, lost>>
roundVars == <<roundNo, phase, table, placeVars, moneyVars, cashVars, stops, resets>>

IsDemo(b) == AccountOf[b] \in DemoAccounts
Seated == ToSet(table)

-----------------------------------------------------------------------------
(* Faulty variants of helpers below, one plausible bug each. *)

\* The bet goes to the round that is running when the debit returns.
SeatInLatestRound(b) == table' = Append(table, b)

\* The crash takes only the bets without an auto-cashout target.
LosersManual == Seated \ (cashed \cup AutoBets)

-----------------------------------------------------------------------------
(* The engine's loop (engine.ts). *)

\* start() and the result phase's timer: a fresh round object.
StartBetting ==
  /\ phase \in {"OFF", "CRASHED"} /\ roundNo < MaxRounds
  /\ roundNo' = roundNo + 1 /\ phase' = "BETTING" /\ table' = <<>>
  /\ UNCHANGED <<placeVars, moneyVars, cashVars, stops, resets>>

StartFlight ==
  /\ phase = "BETTING" /\ phase' = "FLYING"
  /\ UNCHANGED <<roundNo, table, placeVars, moneyVars, cashVars, stops, resets>>

Losers == Seated \ cashed

\* crash(): whoever has not cashed out has lost; the stake was debited before.
Crash ==
  /\ phase = "FLYING" /\ phase' = "CRASHED"
  /\ lost' = lost \cup Losers
  /\ UNCHANGED <<roundNo, table, placeVars, moneyVars, cashed, paying, stops, resets>>

-----------------------------------------------------------------------------
(* place_bet (handlers.ts). *)

Goes(b, s) == place' = [place EXCEPT ![b] = s]

\* await getSession, which for the demo brings the balance along.
ReadSession(b) ==
  /\ phase # "OFF" /\ place[b] = "none"
  /\ Goes(b, "read") /\ read' = [read EXCEPT ![b] = purse[AccountOf[b]]]
  /\ UNCHANGED <<roundNo, phase, table, inRound, locking, moneyVars, cashVars, stops, resets>>

\* The tests between getSession and the debit, in one piece: betting open, slot
\* free, and for the demo a balance that covers the stake.
MayBet(b) ==
  /\ phase = "BETTING"
  /\ \A c \in Seated : SeatOf[c] # SeatOf[b]
  /\ IsDemo(b) => read[b] >= 1

CheckBet(b) ==
  /\ place[b] = "read"
  /\ Goes(b, IF MayBet(b) THEN "checked" ELSE "refused")
  /\ inRound' = [inRound EXCEPT ![b] = IF MayBet(b) THEN roundNo ELSE @]
  /\ UNCHANGED <<roundNo, phase, table, read, locking, moneyVars, cashVars, stops, resets>>

\* adjustBalance has no floor, and runs alone in the session's lock.
DemoDebit(b) ==
  /\ place[b] = "checked" /\ IsDemo(b)
  /\ Goes(b, "debited")
  /\ purse' = [purse EXCEPT ![AccountOf[b]] = @ - 1] /\ staked' = staked \cup {b}
  /\ UNCHANGED <<roundNo, phase, table, inRound, read, locking, wins, cashVars, stops, resets>>

\* The exchange rate puts the stake over the limit or is not to be had, or the
\* transaction fails, rolls back and gives up the lock.
LobbyRefused(b) ==
  /\ place[b] = "checked" /\ ~IsDemo(b)
  /\ Goes(b, "refused") /\ locking' = locking \ {b}
  /\ UNCHANGED <<roundNo, phase, table, inRound, read, moneyVars, cashVars, stops, resets>>

\* pg_advisory_xact_lock on the player.
LockFree(b) == \A c \in locking : AccountOf[c] # AccountOf[b]

LobbyLock(b) ==
  /\ place[b] = "checked" /\ ~IsDemo(b) /\ b \notin locking /\ LockFree(b)
  /\ locking' = locking \cup {b} /\ read' = [read EXCEPT ![b] = purse[AccountOf[b]]]
  /\ UNCHANGED <<roundNo, phase, table, place, inRound, moneyVars, cashVars, stops, resets>>

\* debitInTx: InsufficientFundsError, or the row is inserted and committed.
LobbyDebit(b) ==
  /\ b \in locking /\ locking' = locking \ {b}
  /\ IF read[b] < 1
     THEN Goes(b, "refused") /\ UNCHANGED <<purse, staked>>
     ELSE /\ Goes(b, "debited") /\ staked' = staked \cup {b}
          /\ purse' = [purse EXCEPT ![AccountOf[b]] = @ - 1]
  /\ UNCHANGED <<roundNo, phase, table, inRound, read, wins, cashVars, stops, resets>>

\* currentRound.bets.push: the captured object, which nothing reads any more when
\* the engine has replaced it.
SeatInCapturedRound(b) ==
  table' = IF inRound[b] = roundNo THEN Append(table, b) ELSE table

PushBet(b) ==
  /\ place[b] = "debited" /\ Goes(b, "placed")
  /\ SeatInCapturedRound(b)
  /\ UNCHANGED <<roundNo, phase, inRound, read, locking, moneyVars, cashVars, stops, resets>>

\* The commit, the stats or the history throw after the debit: "Bet failed".
PlacementFails(b) ==
  /\ place[b] = "debited" /\ Goes(b, "failed")
  /\ UNCHANGED <<roundNo, phase, table, inRound, read, locking, moneyVars, cashVars, stops, resets>>

-----------------------------------------------------------------------------
(* Cashouts (bets.ts): cashedOut is set before the credit is awaited. *)

MarkCashed(b) ==
  /\ b \notin cashed
  /\ cashed' = cashed \cup {b} /\ paying' = paying \cup {b}

\* findBetForSession returns the first bet of the seat.
IsFirstOfSeat(b) ==
  \E i \in DOMAIN table :
    table[i] = b /\ \A j \in 1..(i - 1) : SeatOf[table[j]] # SeatOf[b]

CashOut(b) ==
  /\ phase = "FLYING" /\ b \in Seated
  /\ IsFirstOfSeat(b) \/ b \in AutoBets
  /\ MarkCashed(b)
  /\ UNCHANGED <<roundNo, phase, table, placeVars, moneyVars, lost, stops, resets>>

\* wallet.win, or adjustBalance.
CreditWin(b) ==
  /\ b \in paying /\ paying' = paying \ {b}
  /\ purse' = [purse EXCEPT ![AccountOf[b]] = @ + 2]
  /\ wins' = [wins EXCEPT ![b] = @ + 1]
  /\ UNCHANGED <<roundNo, phase, table, placeVars, staked, cashed, lost, stops, resets>>

\* "Cashout failed to credit - contact support".
CreditFails(b) ==
  /\ b \in paying /\ paying' = paying \ {b}
  /\ UNCHANGED <<roundNo, phase, table, placeVars, moneyVars, cashed, lost, stops, resets>>

-----------------------------------------------------------------------------
\* reset_balance: setBalance for the demo session, whatever it is playing.
ResetBalance(a) ==
  /\ phase # "OFF" /\ resets < MaxResets /\ resets' = resets + 1
  /\ purse' = [purse EXCEPT ![a] = StartBalance]
  /\ UNCHANGED <<roundNo, phase, table, placeVars, staked, wins, cashVars, stops>>

\* The process stops: rounds, bets and handlers are memory; an open transaction
\* rolls back.  Nothing recovers the bets of the demo and of the lobby.
Stop ==
  /\ phase # "OFF" /\ stops < MaxStops /\ stops' = stops + 1
  /\ phase' = "OFF" /\ table' = <<>> /\ locking' = {} /\ paying' = {}
  /\ place' = [b \in RBets |-> IF place[b] \in {"none", "refused", "placed"} THEN place[b] ELSE "failed"]
  /\ UNCHANGED <<roundNo, inRound, read, moneyVars, cashed, lost, resets>>

-----------------------------------------------------------------------------
RoundInit ==
  /\ roundNo = 0 /\ phase = "OFF" /\ table = <<>>
  /\ place = [b \in RBets |-> "none"] /\ inRound = [b \in RBets |-> 0]
  /\ read = [b \in RBets |-> 0] /\ locking = {}
  /\ purse = [a \in Accounts |-> StartBalance] /\ staked = {} /\ wins = [b \in RBets |-> 0]
  /\ cashed = {} /\ paying = {} /\ lost = {}
  /\ stops = 0 /\ resets = 0

Placement(b) ==
  \/ CheckBet(b) \/ DemoDebit(b) \/ LobbyLock(b) \/ LobbyDebit(b) \/ PushBet(b)

RoundNext ==
  \/ StartBetting \/ StartFlight \/ Crash \/ Stop
  \/ \E b \in RBets :
       \/ ReadSession(b) \/ Placement(b) \/ LobbyRefused(b) \/ PlacementFails(b)
       \/ CashOut(b) \/ CreditWin(b) \/ CreditFails(b)
  \/ \E a \in DemoAccounts : ResetBalance(a)

RoundSpec == RoundInit /\ [][RoundNext]_roundVars

\* A round that has begun goes on (timers), unless the process stops.
RoundFairness == WF_roundVars(StartFlight) /\ WF_roundVars(Crash)

-----------------------------------------------------------------------------
(* Properties. *)

Stages == {"none", "read", "checked", "debited", "placed", "refused", "failed"}

\* Every variable keeps its type.
RoundTypeOK ==
  /\ roundNo \in Nat /\ phase \in {"OFF", "BETTING", "FLYING", "CRASHED"}
  /\ table \in Seq(RBets)
  /\ place \in [RBets -> Stages] /\ inRound \in [RBets -> Nat] /\ read \in [RBets -> Int]
  /\ locking \subseteq RBets
  /\ purse \in [Accounts -> Int] /\ staked \subseteq RBets /\ wins \in [RBets -> Nat]
  /\ {cashed, paying, lost} \subseteq SUBSET RBets
  /\ stops \in Nat /\ resets \in Nat

\* Bets placed at the same time, in both slots or from two sessions of a player,
\* never overdraw the wallet (debitInTx compares under the player's lock).
WalletNotOverdrawn == \A a \in Accounts \ DemoAccounts : purse[a] >= 0

\* A bet is credited at most once, however many ticks and cashout messages hit it
\* while its credit is awaited, and only if it was debited (cashOutLobbyBet,
\* cashOutBet).
PaidOnceIfStaked ==
  \A b \in RBets : wins[b] <= 1 /\ (wins[b] = 1 => b \in staked)

\* No bet is both won and counted as lost, with a credit under way while the
\* round crashes (crash, tryCashoutBet).
NotWonAndLost == (cashed \cap lost = {}) /\ \A b \in lost : wins[b] = 0

\* A bet plays in the round it was checked against, or in none: a debit that
\* returns in a later round never enters it (place_bet).
PlaysOwnRound == \A b \in Seated : inRound[b] = roundNo

\* The money of a bet follows what became of it in the round it was placed for.
RoundMoneyIsRight == WalletNotOverdrawn /\ PaidOnceIfStaked /\ NotWonAndLost /\ PlaysOwnRound

\* A seat taken before the flight is won or lost by the end of it, unless the
\* process stops (startFlightPhase, crash).
SeatedIsResolved ==
  \A b \in RBets :
    (b \in Seated /\ phase = "BETTING") ~> (b \in lost \cup cashed \/ phase = "OFF")

=============================================================================
