# Crash game: a TLA+ verification project

This directory specifies the crash game (`packages/server`, `packages/wallet`, `packages/shared` and the parts
of `packages/client` that keep state), checks the specifications with TLC on small instances, and proves
theorems about them with TLAPS for every value of the constants.

The server is one Node.js process over Postgres (bets, ledger, accounts, operators, catalogue), RocksDB
(sessions, balances of demo players, rounds) and three kinds of remote party: casino operators that hold
their players' money (`/bet`, `/win`, `/rollback`), pay-in processors and a payout provider. Node runs one
callback at a time. What makes the system hard is that almost every handler awaits a transaction or an HTTP
call in its middle, that answers can be lost, late or repeated, and that the process can stop between
any two of those awaits. A step of these specifications is therefore the code between two awaits.

1. Inventory - 2. Modules - 3. Correspondence with the code - 4. Runs and bounds - 5. Fairness - 6. Proofs -
7. Left out - 8. Findings and observations - 9. What is left

## 1. Inventory

| Component | State | Operations | Talks to | Hard part |
|---|---|---|---|---|
| Operator bet engine (`game/bets.ts`, `ws/handlers.ts`, `game/engine.ts`, `bet-log-pg.ts`, `state-machine.ts`) | `bet_log` rows, rounds and seats in memory | place, cash out (player, auto every 50 ms), expire on crash, void, archive a game | operator, through the wallet client | attempts of one bet overlap; late `/bet`; paused operators; alerts |
| Startup recovery (`recovery.ts`, `index.ts`) | same rows | PENDING, ROLLBACK_PENDING and SETTLING rows | operator | calls of the dead process still on the wire |
| Admin bet operations (`http/admin.ts`) | same rows | force-credit, pause | operator | two administrators; a recorded answer replayed |
| Wallet client and adapters (`client.ts`, `softswiss.ts`) | `txn_idempotency` | bet, win, rollback with retries | operator | an executed try whose answer is lost or whose repetition is throttled; calls that share a transaction id; best-effort records |
| Demo and lobby round bets (`game/bets.ts`, `ws/handlers.ts`, `engine.ts`) | rounds, seats, `wallet_ledger` | place, cash out, ticks, reset | session store, ledger | checks before awaits, rounds that ended meanwhile |
| Session store (`store.ts`) | RocksDB sessions, statistics, history | lock, adjust, bind, expire | - | writes outside the lock |
| Withdrawals (`withdrawals.ts`, `withdrawals-repo-pg.ts`) | `withdrawals`, `wallet_ledger` | hold, pay out, webhook, reconcile, finance decision | payout provider | unknown outcomes must not be refunded; four sides race |
| Deposits (`lobby-deposit.ts`, `deposit-webhook.ts`, `deposits-repo.ts`) | `deposits`, `wallet_ledger` | collect with fail-over, verify, credit, settle, notify | pay-in processors | replays, stops between writes, lost answers |
| Wallet ledger (`wallet-ledger.ts`) | rows; balance = sum | deposit, bet, win, debit, credit | - | overdraft under concurrency |
| Fantasy leagues (`fantasy-league-repo-pg.ts`, `scheduler.ts`) | leagues, members, cached FPL feed | join, settle, cancel | ledger, FPL | join against settle, ticks that fail |
| Match bets (`player-bets.ts`, `sim-bets-repo.ts`) | slips, ledger, feed | place singles or an accumulator | ledger | a feed that is replaced between check and write |
| Player accounts and codes (`account/*`) | `players`, `otp_codes` | register, sign in, issue and verify codes, reset, exclude, deactivate | SMS | attempts counted in separate statements |
| Operator registry and request signing (`operator-registry-pg.ts`) | rows, copy in memory, nonces | create, patch, pause, rotate; verify a request | operators | overlapping refreshes; nonces expire |
| Operator sessions (`operator.ts`, `ws/`) | sessions, sockets, locks | launch, upgrade, lock, terminate | operators | requests under way at a termination |
| Catalogue (`games-repo-pg.ts`) | games, links, engines | edit, archive, timers | - | merged writes, refreshes that overlap |
| Administration accounts and audit (`admin.ts`, `admin-store-pg.ts`) | administrators, tokens, audit rows | sign in, create, change, delete | - | two administrators act on each other |
| Daily reconciliation (`reconciler-pg.ts`) | runs, findings | page our log, fetch the operator's list, compare, close | operators | pages while rows arrive; amounts read through a join with the bets; a failed page |
| Listings and player history (`bet-log-pg.ts`, ...) | rows | keyset, grouped and merged pages | - | rows arrive and move while pages are walked |
| Reports and billing (`bet-log-pg.ts`, `operator.ts`) | rows, invoices | report, invoice, round totals | - | bets of a window are inserted and settle late |
| Game mathematics (`rng.ts`, `multiplier.ts`, `round.ts`) | - | crash point, curve, commit and reveal | - | rounding, edits during a flight |
| Game page (`client/src`) | the tab's round, bets and panels; statistics | socket frames, panels, verifier | WebSocket | a socket lost anywhere in a round |
| Pay-in and payout processor clients | - | HTTP formats | processors | modelled as the contract the services rely on |
| Support chat, metrics, bots, assets; browser lobby, simulator and creator | - | - | - | not modelled |

`PROJECT.json` has every component with its status and every hazard at its line.

## 2. Modules

| Module | Models | Extended by the proofs |
|---|---|---|
| `BetStates` | the transition table of `bet_log` | |
| `OperatorBets` | operator bets: calls, attempts, voids, force-credit, pause, stop and recovery; extends `BetStates`, instance of `BetContract` | `OperatorBetsInv`, `OperatorBetsProofs` |
| `BetContract` | abstract: what a player may be charged, paid and returned for a bet | |
| `BetDocClaims` | statements of the repository the engine does not keep | |
| `Withdrawals`, `Deposits` | payments over the ledger | `WithdrawalsProofs`, `DepositsProofs` |
| `RoundBets`, `PlayStats` | bets of demo and lobby players over the phases of a round; statistics and history of a session | `RoundBetsProofs` |
| `ProvablyFair`, `Flight` | seeds and commitments; crash point, curve, ticks and cash-outs | `FairnessProofs` |
| `OperatorRegistry`, `OperatorSessions`, `Catalogue`, `AdminAccounts` | the operators' side and the back office | `OperatorProofs` |
| `PlayerAccounts` | the account, its codes, tokens and exclusions | `AccountProofs` |
| `FantasyLeague`, `DemoSessions`, `Billing`, `MatchBets`, `Listings` | pools, demo balances, reports, slips, pages of listings | `MoneyProofs` |
| `Reconciliation` | a reconciliation run | `MoneyProofs` |
| `WalletCalls` | wallet calls of one operator | `OperatorProofs` |
| `GameTab` | the tab at a game | `AccountProofs` |
| `MCOperatorBets`, `MCWithdrawals`, `MCDeposits`, `MCFantasy`, `MCReports` | values of the constants, symmetry | |
| `MCLobby`, `MCPlayers`, `MCOperators` | several components in one run | |

Components that share no state are put side by side in `MCLobby`, `MCPlayers` and `MCOperators`. The variable
`moving` picks the one that moves, in the first state; the others stand still, with what they could begin
with pinned to one choice. A behaviour of such a module is a behaviour of one component, so each property is
checked of its component alone and the state spaces add up instead of multiplying.

A component module ends its helpers with "faulty variants". They are not part of the specification: each is a
plausible bug of one helper, and with it in the helper's place TLC finds a property violated.

## 3. Correspondence with the code

The `map` of `PROJECT.json` has the lines of every definition. What a reader needs before the modules:

**OperatorBets.** `state`, `winTxn` and `betRound` are columns of `bet_log`; `Move` is `PgBetLog.transition`, guard
and write in one transaction. `seat[b]` is the in-memory `Bet` of the current round (`live`, or marked `cashedOut`); a bet
pushed to a replaced round has no seat. `placing`, `cashout`, `voiding`, `admin` and `recovery` are program counters
of handlers that can be in the middle of an await, with their locals `cashoutBet`, `adminBet`, `toList`/`toExpire` (the
expiry that `crash()` starts and does not wait for) and `todo`/`recovering`. `calls` holds requests on the wire;
`debited`, `credited`, `rolledBack` and `refunded` are the operator's books. The operator executes a call once per
transaction id and answers a rollback of an unknown bet with a no-op that it keeps. A handler may learn
nothing of its call, and the request may still be executed later (`LateDelivery`). A signed 4xx means "not
executed", but a 429 may follow an executed try (`RateLimited`). `DbErrors` lets any transaction fail where the code
has a catch. Each bet is placed once (primary key); each attempt to cash out has its own `winTxnId`.

**Withdrawals.** `balance` is the sum of the player's ledger rows; `holding` and `seen` are the transaction with the
player's advisory lock and the balance it compared. `known` is a provider id in the row, `refunds` counts ledger rows
`wd-refund:<reference>`. `payout` is the provider's own record. `sending`, `hook` and `checking` are `initiate`,
`onWebhook` and `reconcile` in the middle of an await. A signed event says the truth of a payment, but may
report as failed an attempt the provider repeats. `Resolve` is finance's decision; unless `Guessing`, it follows
the provider's books.

**Deposits.** `stage` and `at` are `POST /deposit` and the processor it is with; `asked` and `charge` are the requests
on the wire and what the processors made of them. A delivery of a webhook goes through `verify`, `credit`, `settle`
and `notify`; it can throw at any of them (500) and is sent again. A success event may be about anything, since the
code trusts the verification alone.

**RoundBets.** A placement is its checks, the debit under the lock of the player's row, and the push to the round
it captured; the tick, the player's cashout and the awaited credit are steps of their own. `DemoSessions` has
the same money for the demo balance: what `withLock` covers, what is read before it, the refund of
an overdraw, and `bindSessionGame`, which writes the record without the lock.

**Accounts, registry, sessions, catalogue, administrators.** One program counter per request, with what it read
before its awaits; the rows; and history variables where a property speaks of the past (`oks`, the requests a code let
pass; `wanted`, what the patches amount to). Time is a small counter where expiry matters (tokens, nonces).

**FantasyLeague, MatchBets, Billing, Reconciliation, Listings.** Amounts are integers, as in the code's minor units.
Odds are in hundredths and probabilities in thousandths; a draw is a member of a small table in place of the seeded
generator. Pages are the SELECTs with their cursors. `Report`, `RoundSummary` and `Invoice` are the SUMs. A bet takes
its `created_at` (`StampBet`) before its row is inserted (`InsertBet`), so a month that is over can still get a bet;
`late` and `settled` of an invoice are history, they are on no invoice of the code. In `Reconciliation` a transaction
is stamped and then inserted (`StampTxn`, `InsertTxn`), and its amount comes from the row of its bet by a join on the
id: `linked` are the ids in the bets' rows, there before a `/bet` or a `/win` is sent but only after the answer of a
`/rollback` (`LinkTxn`); `bare` is what a page read without its bet, with the amount 0. `known` and `joined` of a run
are history.

**WalletCalls.** `call` is the program counter of `withIdempotency` with the current try, `recorded` is
`txn_idempotency` with the code the answer had, `answered` the operator's own table. Any try can be lost, answered
late or unsigned, or throttled with a 429, and a win failed with a 500, whatever an earlier try did, and a SoftSwiss operator can
answer a repetition with DUPLICATE_TRANSACTION (409). The client takes every 4xx that ends a call for a rejection and
records it, the 429 and the 409 included; a later call under the same id and body gets the record. Malformed answers,
whose outcome is unknown, are left out.

**ProvablyFair, Flight.** A hash is a term: commitments of different seeds differ, and so do the draws of different
messages. Multipliers are hundredths; the curve is taken in logarithms, where a band of exponential growth is a
straight line (`HeightAt`), and floating point is exact arithmetic: a draw is one of `Draws` equal shares, and only
monotonicity and the cut to hundredths matter to what is paid.

**GameTab, PlayStats.** The frames the server sends, in order but late (`MaxLag`), and what the tab's panels
conclude from them; the counters of a session, each bump being a read and a write that may fail.

## 4. Runs and bounds

| Run | Question | Bounds |
|---|---|---|
| `bets_race` | do row, attempts and operator agree on who is paid, in every order, and is `BetContract` implemented? | 1 bet, 2 attempts, 1 administrator, 2 rounds, 1 stop; every failure on |
| `bets_whole` | is a voided bet that was debited refunded? | 2 bets, 1 attempt, 1 round, 1 stop, database failures; no late call, no 429 |
| `bets_live` | do calls resolve, do seated bets leave ARMED, is every failed win announced until the process stops? | 1 bet, 2 attempts, 1 round, 1 stop; late and throttled calls, archived game; no database failures |
| `withdrawals` | overdraft, refunds, false successes, settlement | 2 withdrawals of 2 from 3, 1 delivery, 1 stop |
| `deposits` | charged by one processor, credited and told once, in the end credited | 1 deposit, 2 processors, 2 deliveries, 2 stops |
| `lobby_live` | is every seated bet resolved, every league finalised, every pot shared out? | a lobby and a demo bet over 2 rounds, 1 stop; 2 leagues, 3 joins, 1 tick |
| `players` | ten properties of the nine components of the player's side | section 2; per component below |
| `operators` | eight properties of the operators' side and the back office | per component below |
| `bets_doc_void`, `bets_doc_4xx`, `reports_doc`, `verify_doc` | one statement of the repository each, refuted (section 8) | as small as shows it |

Why these are enough to meet the interesting cases. Two attempts are the player's cashout against the tick's; two
rounds show a stale round; one stop with its recovery shows all that recovery can meet, since its calls and the dead
process's are on the wire together. Bets share only the round, so `VoidedIsWhole` alone is checked with two. A balance
that covers one of two withdrawals is the overdraft; two deliveries replay an event while it is handled. In `players`:
two lobby bets of one seat and a demo bet; two ticks of one league; three slips (a single, an accumulator, a single
that accepts new odds) over three feeds; two requests at a time with codes of one wrong guess; a tab over two rounds
and two sockets; two games of two returns over five rounds; three bets with a history of two; five curves, among them
unsorted and flat ones. In `operators`: five callers of four transactions, two of them of one payment, two tries each
and two faults, which is an executed try whose answer is lost and a throttled second one, and a 409 with a record that
cannot be stored; pages of one row and four transactions, one a rollback on which both sides agree; invoices of one
operator (`OneIsInvoiced`), two of them; four registry changes, of which a behaviour has the pause or the edit
(`PauseOrPatch`); two sessions and two terminations; two edits at once; three back-office requests; a month of two
days. The theorems lift the safety results to all bounds.

Bounds are constants whose names begin with `Max` or `Last`, the sets themselves, `PauseOrPatch` and `OneIsInvoiced`.
`bets_whole` excludes late calls and 429s, and `bets_live` database failures, because `VoidedIsWhole` and
`FailureIsAlerted` are false with them (section 8); the theorems have the same hypotheses. `CHECK_DEADLOCK FALSE` is
set where a system really ends: all payments made, all requests answered.

Some properties leave out the worst half of a hazard, by a constant of their run or in their own text.
`VoidedIsWhole` says nothing when a rollback overtakes the `/bet` it is for; `FailureIsAlerted`, `CallsResolve` and `SeatedBetResolves`
nothing of a row a database error left behind, and the last one nothing of a bet that was pushed to a round that is
over; `RegistryIsRight` nothing of a copy once an older SELECT was installed last; `CatalogueIsRight` nothing of a
theme once a merge wrote over what it had not read; `AdminsAreAccountable` nothing once a deleted administrator
deleted another; `WalletCallsAreTrue` counts a throttle among the outcomes that say nothing, as the client does not.
In each of these cases the code goes wrong, and section 8 has it.

## 5. Fairness

- `OperatorBets`: weak fairness of each handler that has started (every call has a time-out and counted
  tries, and the event loop runs what is ready), of the engine's timers, of the expiry and of recovery (the
  container restarts a dead process). Nothing is assumed of players, administrators or operators.
- `Withdrawals`: the five-minute timer lists what is open (weak); a lookup and a write that are repeated for ever
  succeed once (strong). No webhook needs to arrive.
- `Deposits`: a delivery ends (weak); the sender repeats an event it got no 200 for, and a verification and a credit
  that are repeated for ever succeed once (strong).
- `RoundBets` in `MCLobby`: the engine's timers start flights and crash them (weak).
- `FantasyLeague` in `MCLobby`: time passes, FPL confirms its results, the feed is loaded again, an open
  transaction ends (weak); no step of the repeated ticks fails every time (strong).

## 6. Proofs

TLAPS checks the following for every value of the constants that satisfies the module's named assumption. None
of the properties is inductive; each is proved from a stronger invariant, which TLC checked first.

| Module | Theorems | Inductive invariant, and what it adds |
|---|---|---|
| `OperatorBetsProofs` | `Invariance`, `CreditClaimed`, `SettledPaid`, `StakeRight`, `ClaimStable`, `ContractImplemented`, ... | `IInv`: the row's id belongs to the attempt that wrote it (`RowHasClaim`); an attempt past its first transaction finds its id (`AttemptHasClaim`); calls, executed calls, force-credits and recovery only use such ids (`OperatorHasClaim`, `AdminHasClaim`, `RecoveryHasClaim`); a rollback is out only for a row that can no longer be lost (`RollbackIsForReturning`) |
| | `VoidsRefund`, `FailuresAlerted` | `ReturnInv`, `AlertInv`: the server serves or recovery runs (`ServingOrRecovering`); a debit or a request on the wire whose bet is not played is in the hands of a handler or of recovery, which rolls it back (`StakeIsInHand`); `FailureIsAlerted` counts the handler that is about to announce, before the process has stopped once |
| `WithdrawalsProofs` | `NeverOverdrawn`, `RefundRight`, `SuccessSafe`, ... | the lock holder's balance can only have grown (`LockInv`); a verdict that waits to be written is still true when it is (`VerdictInv`) |
| `DepositsProofs` | `NeverChargedTwice`, `CreditRight`, `ToldOnce`, ... | processors before the current one refused, those after it were never asked (`OrderInv`); a delivery has done what its stage says (`DeliveryInv`, `TellingInv`) |
| `RoundBetsProofs` | `RoundMoney` | a player's lock has one holder, and what it read is still there (`LockInv`); behind a debit there is a stake, and before it neither cashout nor loss (`PlaceInv`); the losers of a crash are not at the next table (`FlightInv`); a credit is awaited by a bet marked cashed out, and made once (`CreditInv`) |
| | `StatsTrue` | mutations are in line once, after that of their bet (`LineOrder`); a bet in line has its outcome in line too (`LineFits`); what happened and is not in line is counted, but for what the store refused (`CountInv`); the streak is the run at the end (`StreakInv`); entries on their way to the history keep its order (`LogInv`) |
| `FairnessProofs` | `FairRounds` | the seed in play has a published commitment and fixed terms, and the next one is unused (`EngineInv`); commitments and terms are made once for a seed (`CommitInv`); a revealed seed lies before the one in play, with its commitment and its point (`RevealInv`) |
| | `HouseEdge`, `EdgeOfFlight`, `CashoutsOfFlight` | lemmas that count the draws reaching a target; in flight the table has seen no more than take-off and the highest tick, and that was below the crash point (`FlightInv`) |
| | `FlightFair` | the bands of `normalize` are in order (`BandsAre`); after every band a unit of time more is either still to be spent or was spent in the band that holds the height (`UnitClimbs`), and a band takes the time that `timeToMultiplierMs` counts for it (`BandTime`) |
| `OperatorProofs` | `RegistryRight` | copies are not newer than the row and have the key of their version (`VersionsInv`, `KeysInv`); what was answered is known to the copy (`SettledInv`); the client lags behind only an unfinished rotation (`ClientInv`); the credentials kept for reading are the newest answered (`OneShotInv`); a nonce is remembered longer than its timestamp is accepted (`NonceInv`) |
| | `SessionsEnd`, `AdminsAccountable`, `CatalogueRight` | a session in the scope of a termination is ahead of it, in hand, or gone (`MintedInv`, `ScopeInv`); requests under way had what they checked, and have their audit row or are about to (`ChangesInv`, `AuditInv`); a merged edit fits what it read, and what was read before the last write is older than it (`CheckedInv`, `RefreshInv`) |
| | `WalletCallsTrue` | one try of a caller is on the wire, and a reply says what the operator knows (`WireInv`); what was executed, undone or closed fits together (`OperatorInv`); no record and nothing a caller holds says other than what was executed (`RecordInv`, `CallerInv`), a throttle says nothing, and a duplicate is only said of what was answered before |
| `AccountProofs` | `CredentialsSafe`, `AccountSteps` | only a sign-up serves a number without an account (`MadeInv`); a code's attempts and the requests comparing with it are bounded together (`CodesInv`); a login about to sign holds the password of the version it read (`SignInv`); an exclusion is written by a request that passed the gate with none in force (`GateInv`) |
| | `TabHonest` | what is shown, under way or on the stage is in the order of the rounds (`OrderInv`); no frame ends a round that the tab or an earlier frame does not know (`RoundInv`); the tab would show the stage once everything under way had arrived (`SocketInv`), and while the socket holds, the seed and the panels too (`CleanInv`) |
| `MoneyProofs` | `LeaguesFinal` | joins that hold the SHARE lock hold open leagues (`JoinInv`), so the tick's row lock waits for them |
| | `LeagueMoney` | a settled row holds the shares of its members' ranks and the house the rest (`PaidOut`); whoever may still be paid in is not a member yet, and waits alone (`JoinsApart`); purses, pots and rakes add up after every step (`FeesBalance`) |
| | `DemoBalances` | the lock has one holder; unless a game was bound meanwhile, what it read is the net of all changes (`DemoLock`, `NoLostUpdate`); a negative balance is owed by the plays that are refunding (`DemoDebt`) |
| | `InvoicesStayTrue`, `ReportsAddUp` | every invoice is of a month that is over, and the bets of that month that were not late then rest and amount to what they did (`BillInv`): no step brings a bet into a month that is over (`MonthIsOver`), and one that rests stays (`BillMoves`); a bet that counts was placed, and not after now (`WindowInv`), so that days and months leave none out |
| | `ReconciliationRight` | what was recorded before a run began and lies in its window, the run has read or its cursor has yet to pass (`RunIsOnTheWay`), however rows arrive; what it read without its bet was a rollback not linked when it began |
| | `SlipsHonest` | the transaction holds the entries of exactly the first picks, each priced as its player saw or accepted (`SlipInv`); who has begun to pay holds the player's lock, and what he has paid so far was there (`PurseInv`); what a request has drawn is explained by its score and goals (`ScoreInv`). Under these stand lemmas on the code's algorithms: a score is drawn among those that settle the pick (`SomeIsDrawn`), nudged minutes do not go back (`MinutesGoOn`), prices above 1 multiply to a win of at least a unit (`WinsArePaid`) |
| | `ListingsWhole` | of what was there at the start, the part above the cursor was shown and the part below is owed (`RowWalk`); a group only moves up, so one that did not move is still owed or was shown (`GroupWalk`); page n begins after n - 1 pages of newer rows (`HistoryWalk`) |

`OperatorBetsProofs!ContractImplemented` is the refinement: every behaviour of `OperatorBets` is one of `BetContract`
under claim = `winTxn`, paid = `credited`, returned = `refunded`, lost = rows in LOST. `HouseEdge` is about the code's
formula: of all draws, those that reach a target together pay at most the return, and less than one payment below it.

Hypotheses besides the modules' assumptions: `VoidsRefund` and `WalletCallsTrue` have `~LateDelivery`, the former
`~RateLimited` too, `FailuresAlerted` `~DbErrors`, `SuccessSafe` and `RefundRight` `~Guessing` (each switch off is a
plain run of the system, and the property is false with it on). `FlightFair` has `WholeTimes`: segments begin at
multipliers of 1 or more, as `GrowthSegment` says (`curve.ts:17`), and a band is climbed in whole units of the model's
time; the code's time is not whole, so this only chooses a fine enough unit. TLC evaluates it on the curves of
`MCPlayers`.

Assumptions on constants that are more than their types, each kept by the code: the first place of a league is paid and a
lower one no more (`PayoutAssumption`); the feed prices outcomes that some scores settle for and some against, and scores
have positive weights (`DrawAssumption`: `drawScore` shows nothing for others); the caps on odds and pay let at least
a unit through (`PriceAssumption`); a bet transaction is called by one caller (`CallAssumption`).

What the proofs taught about the specifications. A first version of the flight lost the edge for the target 1.00,
which every draw reaches. The registry's copy is not current when a PATCH stands beside a rotation that has not ended:
that exception is in the property now, and in section 8. `VoidedIsWhole` and `FailureIsAlerted` are false without the
hypotheses above. Some CASEs had overlapping guards, and the prover cannot choose; they are disjoint now.
`LobbyRefused` gives up the row lock, without which no invariant about the lock holds. In the definition of a streak a
conjunct had slipped under a quantifier, and the number it chose was not determined. A recorded rejection and a first
try that still arrives contradict each other, so `WalletCallsAreTrue` needs `~LateDelivery`; and a recorded throttle
contradicts an executed try even without it, so that a throttle cannot count as a rejection in what is claimed.
Invoices of a month agree only up to the bets that were late, since a bet has its time before its row, and a
reconciliation judges a rollback by what its bet's row says when the page is read. Sums and products over sets, and
the recursive functions of the curve and of the nudged minutes, go over any number of elements; what they yield is
proved without an induction theorem, from a counterexample of least size (`LeastOf`, `SetInduction`, `Upwards`,
`SumExists`). The curve was one recursion over bands, heights and times at once, and its bands were sorted by an
operator that does not say how equal beginnings fall; it is one turn per band now (`ClimbBand`), and the sort is
stable as JavaScript's is. The half-time score was that of the goals up to the 45th minute wherever they stand; it is
that of the goals before the first later one now, as the code's `break` has it. A priced fixture whose kickoff does
not parse is never taken as started (`simulate.ts:197`), so `MatchAssumption` says that it parses.

Only model-checked:

- liveness, since TLAPS cannot reason about fairness through ENABLED here: `CallsResolve`, `SeatedBetResolves`,
  `EndedPayoutSettles`, `PaidIsCredited`, `SeatedIsResolved`, `LeaguesAreFinalised`;
- the refuted statements of section 8.

## 7. Left out

- The limits of 500 rows (recovery) and 200 rows (`listUnsettled`), and `ROLLBACK_PENDING` rows that wait for the next
  restart: listed as hazards.
- Round ids that start again at `rnd-1` after a restart (`engine.ts:83`): rounds of one process are numbers here.
- Wording and wire formats, the adapters' message formats, cryptography, read routes, logging, metrics.
- Amounts of operator bets: one bet is one stake, won or lost whole.
- `round_started` is in the transition table and is sent by no code, so no row becomes FLYING.
- The price model of `simulate.ts` and of the feed; the drawing of the game; the lobby's slip, simulator and creator;
  support chat, metrics, bots and assets.

## 8. Findings and observations

Findings, each with a run that TLC refutes:

- `bets_doc_void`: `voidOperatorBet` takes a SETTLING row while its `/win` is under way: the bet is paid and refunded
  (`bets.ts:637`), against `operator.ts:133-135`.
- `bets_doc_4xx`: a 429 on a later try voids a bet the first try debited (`bets.ts:454`), against `bets.ts:457`.
- `reports_doc`: the stakes of a round shown to an operator include those of the others (`bet-log-pg.ts:233`), against
  `operator.ts:330-331`.
- `verify_doc`: the drawer's verifier computes another point for every game but the default one
  (`ProvablyFairDrawer.tsx:50`), against `README.md:378`.

Behaviour met while modelling, which the specifications have as it is:

- *Bets.* A `/bet` answered after the expiry of its round leaves an ARMED row until the next expiry of that number. A
  force-credit replays a recorded rejection. Two `place_bet` messages of one slot both pass the check
  (`handlers.ts:91`). The alert of a failed win is not sent when the row cannot be read back (`bets.ts:201`).
- *Wallet calls.* After a recorded INSUFFICIENT_FUNDS the late first try may still debit. SoftSwiss's
  DUPLICATE_TRANSACTION becomes a 409 (`softswiss.ts:213`), a rejection of what was executed. A 429 that outlasts the
  tries is recorded as a rejection (`client.ts:259-289`) although `seamless-wallet-v1.md:344` says "Back off; retry":
  every force-credit of that `/win` is answered from the record, because it uses the original transaction id
  (`admin.ts:904`).
- *Recovery.* Its clients have neither the operator's adapter nor the bet log (`recovery.ts:55`, against
  `client-cache.ts:33`): it calls SoftSwiss operators in the native protocol, and their rows stay as they are. It
  repeats a void's rollback under the same id with another reason (`recovery.ts:153`), which an operator answers with
  409 DUPLICATE_TXN by `seamless-wallet-v1.md:369`, where `bets.ts:647-649` expects it to dedupe.
- *Payments.* A deposit given up is credited when the player pays and stays `failed` (`deposits-repo.ts:11`); an event
  is answered 200 while the verification lags (`deposit-webhook.ts:99`). A payment that comes back after it was
  recorded as paid is ignored (`withdrawals.ts:50`).
- *Sessions.* `bindSessionGame` writes a record it read without the lock, and may undo a change of the balance
  (`store.ts:16`). A player's lock misses sessions that never bet (`operator.ts:794`) and later launches; sockets
  are closed before the row is deleted.
- *Fantasy, match bets.* A league settles from cached points that may be older than FPL's confirmation
  (`fantasy-league-repo-pg.ts:208`). A fixture whose kickoff does not parse never counts as started (`simulate.ts:197`).
- *Accounts.* Two concurrent issues of a code are both sent (`otp.ts:46`). A self-exclusion can be overwritten by
  a shorter one that passed the gate before. A second registration before the code is entered replaces the password.
- *Registry.* Two overlapping refreshes install the older copy last; a PATCH does not rebuild the wallet client
  (`admin.ts:517`, `:548`, `:576` do), so it may sign with the old key beside an unfinished rotation. A nonce may be
  accepted again when its sender's clock is a whole skew ahead.
- *Catalogue.* Type and theme are checked against what was read (`games-repo-pg.ts:107`); overlapping timers set
  engines back; an UPDATE of a deleted game is a 500. An operator's return override is unused by the engines.
- *Administrators.* Two can delete each other (`admin.ts:315`); tokens of deleted ones live 8 hours and the
  revoked set is lost on a restart; a deleted row's update throws without an audit row (`admin-store-pg.ts:277`).
- *Reconciliation, listings, billing.* A run may stay RUNNING after a database error. A rollback that was answered and
  is not in its bet's row yet, or not before the next recovery because the transition failed or the process stopped
  (`bets.ts:663`), is reported as an `amount_mismatch` though both sides agree (`bet-log-pg.ts:274`,
  `reconciler.ts:78`). The list of rounds moves groups past the cursor; singles of one request share `created_at`, so
  pages of the history repeat or skip them; an invoice uses the current share, and two invoices of a month that is
  over can differ by a bet that had its time and not its row (`bet-log-pg.ts:57`), one still in play, or a failed win
  paid by hand, none of which the invoice tells; report days are in the database's time zone, invoice months in UTC
  (`bet-log-pg.ts:328`).
- *Game page.* A reconnect clears `hasBet`, so a live bet cannot be cashed out from the panel; frames of an old round
  flip it; `cashout_pending` leaves "Cash out"; a bet whose `/win` is awaited at the crash is counted as lost and won;
  an edited return makes older rounds unverifiable.
- *Flight.* A tick that crosses a target and the crash point crashes first (`engine.ts:146-150` against
  `rng.ts:104-106`). Changing the growth in mid-flight moves the multiplier shown. Of two segments below the
  multiplier 1, which the server does not refuse, `timeToMultiplierMs` counts from the lower one (`curve.ts:74`),
  where `multiplierAtMs` skips the band (`curve.ts:49`).

## 9. What is left

1. `WalletCalls` as an implementation of the call that `OperatorBets` assumes.
2. The admin routes that only belong to single rows, the lobby's slip, and round ids across restarts.
