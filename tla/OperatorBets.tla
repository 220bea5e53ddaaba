---------------------------- MODULE OperatorBets ----------------------------
(***************************************************************************)
(* The life of operator-backed bets: the bet_log row, the wallet calls     *)
(* that move the player's money at the operator, and everything in the     *)
(* game server that touches either: placement, the crash engine, manual    *)
(* and auto cashouts, session termination, the admin force-credit, a       *)
(* process crash and the recovery that runs before the server listens.     *)
(*                                                                         *)
(* Node runs one callback at a time, so the code between two awaits is one *)
(* step; every await (a bet_log transaction, an HTTP call) ends a step.    *)
(***************************************************************************)
EXTENDS BetStates, Naturals, FiniteSets

CONSTANTS
  Bets,          \* bet ids; each is placed at most once (primary key of bet_log)
  Cashouts,      \* cashout attempts; each mints its own winTxnId
  Admins,        \* concurrent force-credit requests
  NoTxn, NoBet,
  MaxRound,      \* bound: rounds one process runs
  MaxCrashes,    \* bound: crashes of the server process
  LateDelivery,  \* a request the client gave up on may still reach the operator
  RateLimited,   \* a 429 may answer a retry of a request already executed
  DbErrors,      \* a bet_log transaction may fail
  Archivable     \* the game may be archived while a round is running

ASSUME BetsAssumption ==
  /\ NoTxn \notin Cashouts /\ NoBet \notin Bets
  /\ MaxRound \in Nat \ {0} /\ MaxCrashes \in Nat
  /\ {LateDelivery, RateLimited, DbErrors, Archivable} \subseteq BOOLEAN

VARIABLES
  state, winTxn, betRound,                 \* bet_log: state, win_txn_id, round_id
  idem,                                    \* txn_idempotency rows of /win calls
  calls, debited, credited, rolledBack, refunded,    \* network and operator
  server, crashes, paused,                 \* the process; operator paused in the registry
  round, phase, seat,                      \* the engine and its in-memory bets
  placing, cashout, cashoutBet, voiding,   \* handlers in progress
  admin, adminBet, toList, toExpire,
  recovery, todo, recovering,              \* runRecovery
  alerts                                   \* win_failed alerts emitted per bet

bookVars    == <<state, winTxn, betRound>>
operatorVars == <<calls, debited, credited, rolledBack, refunded>>
engineVars  == <<round, phase, seat>>
expiryVars  == <<toList, toExpire>>
cashoutVars == <<cashout, cashoutBet>>
adminVars   == <<admin, adminBet>>
recoveryVars == <<recovery, todo, recovering>>
processVars == <<server, crashes>>
vars == <<bookVars, idem, operatorVars, processVars, paused, engineVars,
          placing, cashoutVars, voiding, adminVars, expiryVars, recoveryVars, alerts>>

-----------------------------------------------------------------------------
Call(kind, id) == [kind |-> kind, id |-> id]

-----------------------------------------------------------------------------
(* Faulty variants of the helpers below, one bug each: the runs of the        *)
(* properties must tell every one of them from the code.                      *)

\* A second cashout accepted while the first is settling.
AcceptsTwoCashouts(b, event) ==
  state[b] \in Sources[event] \/ (event = "cashout_requested" /\ state[b] = "SETTLING")

\* SETTLING has only the way to SETTLED.
AcceptsNoFailure(b, event) == state[b] \in Sources[event] /\ event # "win_failed"

\* Only FLYING bets crash, although no code ever sends round_started.
AcceptsFlyingOnly(b, event) ==
  state[b] \in Sources[event] /\ ~(event = "round_crashed" /\ state[b] = "ARMED")

\* An ambiguous /bet answer arms the row.
MoveOptimistic(b, event) ==
  /\ state[b] \in Sources[event]
  /\ state' = [state EXCEPT ![b] =
       IF event = "rollback_started" /\ @ = "PENDING" THEN "ARMED" ELSE Target[event]]

\* Every error is taken for a confirmed rejection.
MayRejectAlways(executed) == TRUE

\* Every outcome is recorded as a success.
RecordSuccess(t, outcome) == idem' = [idem EXCEPT ![t] = "ok"]

\* A failed cashout ends without its alert.
CashoutGoesQuietly(t, pc) ==
  cashout' = [cashout EXCEPT ![t] = IF pc = "alert" THEN "done" ELSE pc]

-----------------------------------------------------------------------------
(* Calls to the operator. *)

BetCall(b)      == Call("bet", b)
WinCall(t)      == Call("win", t)
RollbackCall(b) == Call("rollback", b)
AllCalls == [kind : {"bet", "rollback"}, id : Bets] \cup [kind : {"win"}, id : Cashouts]

-----------------------------------------------------------------------------
(* Helpers the handlers share. *)

\* PgBetLog.transition: validated and written in one transaction.
Accepts(b, event) == state[b] \in Sources[event]
Move(b, event)    == Accepts(b, event) /\ state' = [state EXCEPT ![b] = Target[event]]

\* The client sends (and resends) a call until it settles on an outcome.
Send(c) == calls' = calls \cup {c}

\* Once the client has given up on a call, a copy of it may still be under way.
Abandon(c) == calls' = IF LateDelivery THEN calls ELSE calls \ {c}

\* A signed 4xx: the operator did not execute the call, unless its throttle
\* answered (429) before its idempotency table was asked.
MayReject(executed) == ~executed \/ RateLimited

\* withIdempotency: the first recorded outcome of a txnId stays; recording is best effort.
Record(t, outcome) ==
  \/ idem' = [idem EXCEPT ![t] = IF @ = "none" THEN outcome ELSE @]
  \/ DbErrors /\ UNCHANGED idem

\* tryCashoutBet marks its Bet object; a stale object no round refers to is out of reach.
LeaveSeat(b) == seat' = [seat EXCEPT ![b] = IF @ = "none" THEN "none" ELSE "cashedOut"]

Serving == server = "serving"

-----------------------------------------------------------------------------
(* Placement: handlePlaceOperatorBet and placeOperatorBet. *)

\* The phase is checked, the row created PENDING and /bet called.  The round
\* captured here is the one the bet is pushed to when the answer arrives.
PlaceBet(b) ==
  /\ Serving /\ phase = "BETTING" /\ ~paused
  /\ state[b] = "NONE"
  /\ state' = [state EXCEPT ![b] = "PENDING"]
  /\ betRound' = [betRound EXCEPT ![b] = round]
  /\ placing' = [placing EXCEPT ![b] = "calling"]
  /\ Send(BetCall(b))
  /\ UNCHANGED <<winTxn, idem, debited, credited, rolledBack, refunded, processVars, paused,
                 engineVars, cashoutVars, voiding, adminVars, expiryVars, recoveryVars, alerts>>

BetAccepted(b) ==
  /\ placing[b] = "calling" /\ b \in debited
  /\ Move(b, "bet_accepted")
  /\ placing' = [placing EXCEPT ![b] = "accepted"]
  /\ UNCHANGED <<winTxn, betRound, idem, operatorVars, processVars, paused, engineVars,
                 cashoutVars, voiding, adminVars, expiryVars, recoveryVars, alerts>>

\* The bet joins the round it was placed in, without a second look at the phase.
PushBet(b) ==
  /\ placing[b] = "accepted"
  /\ placing' = [placing EXCEPT ![b] = "idle"]
  /\ seat' = [seat EXCEPT ![b] = IF betRound[b] = round /\ phase # "STOPPED"
                                 THEN "live" ELSE "none"]
  /\ UNCHANGED <<bookVars, idem, operatorVars, processVars, paused, round, phase,
                 cashoutVars, voiding, adminVars, expiryVars, recoveryVars, alerts>>

\* A confirmed rejection (signed 4xx) voids the row without a rollback.
BetRejected(b) ==
  /\ placing[b] = "calling" /\ MayReject(b \in debited)
  /\ Move(b, "bet_rejected")
  /\ placing' = [placing EXCEPT ![b] = "idle"]
  /\ Abandon(BetCall(b))
  /\ UNCHANGED <<winTxn, betRound, idem, debited, credited, rolledBack, refunded, processVars,
                 paused, engineVars, cashoutVars, voiding, adminVars, expiryVars, recoveryVars, alerts>>

\* Retries exhausted on timeouts, 5xx or unsigned answers: maybe debited.
\* Nothing in this process issues the rollback.
BetUnanswered(b) ==
  /\ placing[b] = "calling"
  /\ Move(b, "rollback_started")
  /\ placing' = [placing EXCEPT ![b] = "idle"]
  /\ Abandon(BetCall(b))
  /\ UNCHANGED <<winTxn, betRound, idem, debited, credited, rolledBack, refunded, processVars,
                 paused, engineVars, cashoutVars, voiding, adminVars, expiryVars, recoveryVars, alerts>>

\* A transaction of the answer fails.  After a debit the catch treats it as
\* ambiguous and tries rollback_started; if that fails too, or the outcome was
\* a rejection, the row stays PENDING.
BetBookingFails(b) ==
  /\ DbErrors /\ placing[b] = "calling"
  /\ (b \in debited /\ Move(b, "rollback_started")) \/ UNCHANGED state
  /\ placing' = [placing EXCEPT ![b] = "idle"]
  /\ Abandon(BetCall(b))
  /\ UNCHANGED <<winTxn, betRound, idem, debited, credited, rolledBack, refunded, processVars, paused,
                 engineVars, cashoutVars, voiding, adminVars, expiryVars, recoveryVars, alerts>>

-----------------------------------------------------------------------------
(* The operator's wallet: executes a call once per transaction id. *)

OperatorDebits(b) ==
  /\ BetCall(b) \in calls
  /\ calls' = calls \ {BetCall(b)}
  /\ debited' = debited \cup {b}
  /\ UNCHANGED <<bookVars, idem, credited, rolledBack, refunded, processVars, paused, engineVars,
                 placing, cashoutVars, voiding, adminVars, expiryVars, recoveryVars, alerts>>

OperatorCredits(t) ==
  /\ WinCall(t) \in calls
  /\ calls' = calls \ {WinCall(t)}
  /\ credited' = credited \cup {t}
  /\ UNCHANGED <<bookVars, idem, debited, rolledBack, refunded, processVars, paused, engineVars,
                 placing, cashoutVars, voiding, adminVars, expiryVars, recoveryVars, alerts>>

\* Refunds a bet it debited; an unknown bet is answered with a noop.  Either
\* answer is kept under the rollback's txnId and replayed.
OperatorRollsBack(b) ==
  /\ RollbackCall(b) \in calls
  /\ calls' = calls \ {RollbackCall(b)}
  /\ rolledBack' = rolledBack \cup {b}
  /\ refunded' = IF b \in debited /\ b \notin rolledBack THEN refunded \cup {b} ELSE refunded
  /\ UNCHANGED <<bookVars, idem, debited, credited, processVars, paused, engineVars,
                 placing, cashoutVars, voiding, adminVars, expiryVars, recoveryVars, alerts>>

-----------------------------------------------------------------------------
(* The crash engine and the expiry of a crashed round's bets. *)

StartFlight ==
  /\ Serving /\ phase = "BETTING"
  /\ phase' = "FLYING"
  /\ UNCHANGED <<bookVars, idem, operatorVars, processVars, paused, round, seat, placing,
                 cashoutVars, voiding, adminVars, expiryVars, recoveryVars, alerts>>

\* crash() starts expireOperatorBetsOnCrash for this round and does not wait for it.
RoundCrashes ==
  /\ Serving /\ phase = "FLYING"
  /\ phase' = "CRASHED"
  /\ toList' = toList \cup {round}
  /\ UNCHANGED <<bookVars, idem, operatorVars, processVars, paused, round, seat, placing,
                 cashoutVars, voiding, adminVars, toExpire, recoveryVars, alerts>>

\* The next round replaces the round object and its bets.
NextRound ==
  /\ Serving /\ phase = "CRASHED" /\ round < MaxRound
  /\ round' = round + 1 /\ phase' = "BETTING"
  /\ seat' = [b \in Bets |-> "none"]
  /\ UNCHANGED <<bookVars, idem, operatorVars, processVars, paused, placing,
                 cashoutVars, voiding, adminVars, expiryVars, recoveryVars, alerts>>

\* listByRound reads by round id alone, so rows of an earlier process whose
\* round had the same number are in the list too.
ListForExpiry(r) ==
  /\ r \in toList
  /\ toList' = toList \ {r}
  /\ toExpire' = toExpire \cup {b \in Bets : betRound[b] = r /\ state[b] \in {"ARMED", "FLYING"}}
  /\ UNCHANGED <<bookVars, idem, operatorVars, processVars, paused, engineVars, placing,
                 cashoutVars, voiding, adminVars, recoveryVars, alerts>>

ExpireBet(b) ==
  /\ b \in toExpire
  /\ toExpire' = toExpire \ {b}
  /\ IF Accepts(b, "round_crashed") THEN Move(b, "round_crashed") ELSE UNCHANGED state
  /\ UNCHANGED <<winTxn, betRound, idem, operatorVars, processVars, paused, engineVars, placing,
                 cashoutVars, voiding, adminVars, toList, recoveryVars, alerts>>

\* A failed query ends the expiry; its error is only logged.
ExpiryFails ==
  /\ DbErrors /\ toList \cup toExpire # {}
  /\ toList' = {} /\ toExpire' = {}
  /\ UNCHANGED <<bookVars, idem, operatorVars, processVars, paused, engineVars, placing,
                 cashoutVars, voiding, adminVars, recoveryVars, alerts>>

\* startAllEngines stops and drops the engine of a game that left the catalogue.
ArchiveGame ==
  /\ Archivable /\ Serving /\ phase # "STOPPED"
  /\ phase' = "STOPPED"
  /\ seat' = [b \in Bets |-> "none"]
  /\ UNCHANGED <<bookVars, idem, operatorVars, processVars, paused, round, placing,
                 cashoutVars, voiding, adminVars, expiryVars, recoveryVars, alerts>>

PauseOrResume ==
  /\ Serving
  /\ paused' = ~paused
  /\ UNCHANGED <<bookVars, idem, operatorVars, processVars, engineVars, placing,
                 cashoutVars, voiding, adminVars, expiryVars, recoveryVars, alerts>>

-----------------------------------------------------------------------------
(* Cashout: tryCashoutBet and cashOutOperatorBet, run by the player's       *)
(* request and, every 50 ms, by the flight tick for an auto-cashout bet.    *)
(* cashedOut is set when an attempt ends, so attempts of one bet overlap.   *)

CashoutGoes(t, pc) == cashout' = [cashout EXCEPT ![t] = pc]

StartCashout(t, b) ==
  /\ Serving /\ phase = "FLYING" /\ seat[b] = "live"
  /\ cashout[t] = "idle"
  /\ CashoutGoes(t, IF paused THEN "pausedRequest" ELSE "request")
  /\ cashoutBet' = [cashoutBet EXCEPT ![t] = b]
  /\ UNCHANGED <<bookVars, idem, operatorVars, processVars, paused, engineVars, placing,
                 voiding, adminVars, expiryVars, recoveryVars, alerts>>

\* The winTxnId is in the row before /win is called.  A refused or failed
\* transition only marks the bet object; the player is told the win is pending.
RequestCashout(t) ==
  LET b == cashoutBet[t] IN
  /\ cashout[t] = "request"
  /\ \/ /\ Move(b, "cashout_requested")
        /\ winTxn' = [winTxn EXCEPT ![b] = t]
        /\ CashoutGoes(t, "calling")
        /\ Send(WinCall(t))
        /\ UNCHANGED seat
     \/ /\ ~Accepts(b, "cashout_requested") \/ DbErrors
        /\ CashoutGoes(t, "done")
        /\ LeaveSeat(b)
        /\ UNCHANGED <<state, winTxn, calls>>
  /\ UNCHANGED <<betRound, idem, debited, credited, rolledBack, refunded, processVars, paused,
                 round, phase, placing, cashoutBet, voiding, adminVars, expiryVars,
                 recoveryVars, alerts>>

WinAccepted(t) ==
  /\ cashout[t] = "calling" /\ t \in credited
  /\ Record(t, "ok")
  /\ CashoutGoes(t, "settle")
  /\ UNCHANGED <<bookVars, operatorVars, processVars, paused, engineVars, placing, cashoutBet,
                 voiding, adminVars, expiryVars, recoveryVars, alerts>>

WinRejected(t) ==
  /\ cashout[t] = "calling" /\ MayReject(t \in credited)
  /\ Record(t, "rejected")
  /\ CashoutGoes(t, "fail")
  /\ Abandon(WinCall(t))
  /\ UNCHANGED <<bookVars, debited, credited, rolledBack, refunded, processVars, paused,
                 engineVars, placing, cashoutBet, voiding, adminVars, expiryVars, recoveryVars, alerts>>

WinUnanswered(t) ==
  /\ cashout[t] = "calling"
  /\ CashoutGoes(t, "fail")
  /\ Abandon(WinCall(t))
  /\ UNCHANGED <<bookVars, idem, debited, credited, rolledBack, refunded, processVars, paused,
                 engineVars, placing, cashoutBet, voiding, adminVars, expiryVars, recoveryVars, alerts>>

\* win_settled, which writes win_txn_id again; if it cannot be written (a void
\* moved the row, or the database failed) the catch tries win_failed.
SettleWin(t) ==
  LET b == cashoutBet[t] IN
  /\ cashout[t] = "settle"
  /\ \/ /\ Move(b, "win_settled")
        /\ winTxn' = [winTxn EXCEPT ![b] = t]
        /\ CashoutGoes(t, "done")
        /\ LeaveSeat(b)
     \/ /\ ~Accepts(b, "win_settled") \/ DbErrors
        /\ CashoutGoes(t, "fail")
        /\ UNCHANGED <<state, winTxn, seat>>
  /\ UNCHANGED <<betRound, idem, operatorVars, processVars, paused, round, phase, placing,
                 cashoutBet, voiding, adminVars, expiryVars, recoveryVars, alerts>>

FailWin(t) ==
  LET b == cashoutBet[t] IN
  /\ cashout[t] = "fail"
  /\ \/ /\ Move(b, "win_failed")
        /\ winTxn' = [winTxn EXCEPT ![b] = t]
        /\ CashoutGoes(t, "alert")
        /\ UNCHANGED seat
     \/ /\ ~Accepts(b, "win_failed") \/ DbErrors
        /\ CashoutGoes(t, "done")
        /\ LeaveSeat(b)
        /\ UNCHANGED <<state, winTxn>>
  /\ UNCHANGED <<betRound, idem, operatorVars, processVars, paused, round, phase, placing,
                 cashoutBet, voiding, adminVars, expiryVars, recoveryVars, alerts>>

\* The alert goes out once the win_failed transaction has returned.
AlertWinFailed(t) ==
  LET b == cashoutBet[t] IN
  /\ cashout[t] = "alert"
  /\ CashoutGoes(t, "done")
  /\ alerts' = [alerts EXCEPT ![b] = @ + 1]
  /\ LeaveSeat(b)
  /\ UNCHANGED <<bookVars, idem, operatorVars, processVars, paused, round, phase, placing,
                 cashoutBet, voiding, adminVars, expiryVars, recoveryVars>>

\* Operator paused: the row goes SETTLING, WIN_FAILED without a call.
RequestPausedCashout(t) ==
  LET b == cashoutBet[t] IN
  /\ cashout[t] = "pausedRequest"
  /\ \/ /\ Move(b, "cashout_requested")
        /\ winTxn' = [winTxn EXCEPT ![b] = t]
        /\ CashoutGoes(t, "pausedFail")
        /\ UNCHANGED seat
     \/ /\ ~Accepts(b, "cashout_requested") \/ DbErrors
        /\ CashoutGoes(t, "pausedAlert")
        /\ LeaveSeat(b)
        /\ UNCHANGED <<state, winTxn>>
  /\ UNCHANGED <<betRound, idem, operatorVars, processVars, paused, round, phase, placing,
                 cashoutBet, voiding, adminVars, expiryVars, recoveryVars, alerts>>

FailPausedWin(t) ==
  LET b == cashoutBet[t] IN
  /\ cashout[t] = "pausedFail"
  /\ \/ Move(b, "win_failed") /\ winTxn' = [winTxn EXCEPT ![b] = t]
     \/ (~Accepts(b, "win_failed") \/ DbErrors) /\ UNCHANGED <<state, winTxn>>
  /\ CashoutGoes(t, "pausedAlert")
  /\ LeaveSeat(b)
  /\ UNCHANGED <<betRound, idem, operatorVars, processVars, paused, round, phase, placing,
                 cashoutBet, voiding, adminVars, expiryVars, recoveryVars, alerts>>

\* Refused, failed or done, the row is read again and announced all the same;
\* if that read fails the attempt ends without an alert.
AlertPausedWin(t) ==
  /\ cashout[t] = "pausedAlert"
  /\ CashoutGoes(t, "done")
  /\ alerts' = [alerts EXCEPT ![cashoutBet[t]] = @ + 1] \/ (DbErrors /\ UNCHANGED alerts)
  /\ UNCHANGED <<bookVars, idem, operatorVars, processVars, paused, engineVars, placing,
                 cashoutBet, voiding, adminVars, expiryVars, recoveryVars>>

-----------------------------------------------------------------------------
(* Session termination: terminateOneSession and voidOperatorBet. *)

VoidingGoes(b, pc) == voiding' = [voiding EXCEPT ![b] = pc]

\* The live bets are listed once and voided one after the other.
ListForVoid(b) ==
  /\ Serving /\ seat[b] = "live" /\ voiding[b] = "idle"
  /\ VoidingGoes(b, "listed")
  /\ UNCHANGED <<bookVars, idem, operatorVars, processVars, paused, engineVars, placing,
                 cashoutVars, adminVars, expiryVars, recoveryVars, alerts>>

MarkForVoid(b) ==
  /\ voiding[b] = "listed"
  /\ VoidingGoes(b, "read")
  /\ LeaveSeat(b)
  /\ UNCHANGED <<bookVars, idem, operatorVars, processVars, paused, round, phase, placing,
                 cashoutVars, adminVars, expiryVars, recoveryVars, alerts>>

ReadForVoid(b) ==
  /\ voiding[b] = "read"
  /\ \/ (state[b] \in Terminal \/ DbErrors) /\ VoidingGoes(b, "idle")
     \/ /\ state[b] \notin Terminal
        /\ VoidingGoes(b, IF paused THEN "startOnly" ELSE "start")
  /\ UNCHANGED <<bookVars, idem, operatorVars, processVars, paused, engineVars, placing,
                 cashoutVars, adminVars, expiryVars, recoveryVars, alerts>>

\* rollback_started, whatever the row has become since it was read.  Without a
\* wallet client (operator paused), or when the row cannot be read again for
\* its rollback txnId, it is left ROLLBACK_PENDING and no call is made.
StartVoid(b) ==
  /\ voiding[b] \in {"start", "startOnly"}
  /\ \/ /\ Move(b, "rollback_started")
        /\ \/ voiding[b] = "start" /\ VoidingGoes(b, "calling") /\ Send(RollbackCall(b))
           \/ (voiding[b] = "startOnly" \/ DbErrors) /\ VoidingGoes(b, "idle") /\ UNCHANGED calls
     \/ /\ ~Accepts(b, "rollback_started") \/ DbErrors
        /\ VoidingGoes(b, "idle")
        /\ UNCHANGED <<state, calls>>
  /\ UNCHANGED <<winTxn, betRound, idem, debited, credited, rolledBack, refunded, processVars,
                 paused, engineVars, placing, cashoutVars, adminVars, expiryVars, recoveryVars, alerts>>

FinishVoid(b) ==
  /\ voiding[b] = "calling" /\ b \in rolledBack
  /\ Move(b, "rollback_completed")
  /\ VoidingGoes(b, "idle")
  /\ UNCHANGED <<winTxn, betRound, idem, operatorVars, processVars, paused, engineVars, placing,
                 cashoutVars, adminVars, expiryVars, recoveryVars, alerts>>

\* Any failure leaves the row ROLLBACK_PENDING; this process never comes back to it.
VoidFails(b) ==
  /\ voiding[b] = "calling"
  /\ VoidingGoes(b, "idle")
  /\ Abandon(RollbackCall(b))
  /\ UNCHANGED <<bookVars, idem, debited, credited, rolledBack, refunded, processVars, paused,
                 engineVars, placing, cashoutVars, adminVars, expiryVars, recoveryVars, alerts>>

-----------------------------------------------------------------------------
(* The admin force-credit of a WIN_FAILED row. *)

AdminGoes(a, pc) == admin' = [admin EXCEPT ![a] = pc]

CheckForceCredit(a, b) ==
  /\ Serving /\ admin[a] = "idle"
  /\ state[b] = "WIN_FAILED" /\ winTxn[b] # NoTxn /\ ~paused
  /\ AdminGoes(a, "send")
  /\ adminBet' = [adminBet EXCEPT ![a] = b]
  /\ UNCHANGED <<bookVars, idem, operatorVars, processVars, paused, engineVars, placing,
                 cashoutVars, voiding, expiryVars, recoveryVars, alerts>>

\* client.win with the original winTxnId: a recorded outcome is replayed and
\* the operator is not asked.
SendForceCredit(a) ==
  LET t == winTxn[adminBet[a]] IN
  /\ admin[a] = "send"
  /\ \/ idem[t] = "ok"       /\ AdminGoes(a, "book") /\ UNCHANGED calls
     \/ idem[t] = "rejected" /\ AdminGoes(a, "idle") /\ UNCHANGED calls
     \/ idem[t] = "none"     /\ AdminGoes(a, "calling") /\ Send(WinCall(t))
  /\ UNCHANGED <<bookVars, idem, debited, credited, rolledBack, refunded, processVars, paused,
                 engineVars, placing, cashoutVars, voiding, adminBet, expiryVars, recoveryVars, alerts>>

ForceCreditAccepted(a) ==
  LET t == winTxn[adminBet[a]] IN
  /\ admin[a] = "calling" /\ t \in credited
  /\ Record(t, "ok")
  /\ AdminGoes(a, "book")
  /\ UNCHANGED <<bookVars, operatorVars, processVars, paused, engineVars, placing, cashoutVars,
                 voiding, adminBet, expiryVars, recoveryVars, alerts>>

ForceCreditRejected(a) ==
  LET t == winTxn[adminBet[a]] IN
  /\ admin[a] = "calling" /\ MayReject(t \in credited)
  /\ Record(t, "rejected")
  /\ AdminGoes(a, "idle")
  /\ Abandon(WinCall(t))
  /\ UNCHANGED <<bookVars, debited, credited, rolledBack, refunded, processVars, paused,
                 engineVars, placing, cashoutVars, voiding, adminBet, expiryVars, recoveryVars, alerts>>

ForceCreditUnanswered(a) ==
  /\ admin[a] = "calling"
  /\ AdminGoes(a, "idle")
  /\ Abandon(WinCall(winTxn[adminBet[a]]))
  /\ UNCHANGED <<bookVars, idem, debited, credited, rolledBack, refunded, processVars, paused,
                 engineVars, placing, cashoutVars, voiding, adminBet, expiryVars, recoveryVars, alerts>>

\* The operator has paid.  Where the row cannot be moved the admin is told that
\* the record is inconsistent (409 TRANSITION_FAILED).
BookForceCredit(a) ==
  /\ admin[a] = "book"
  /\ \/ Move(adminBet[a], "win_force_credited")
     \/ (~Accepts(adminBet[a], "win_force_credited") \/ DbErrors) /\ UNCHANGED state
  /\ AdminGoes(a, "idle")
  /\ UNCHANGED <<winTxn, betRound, idem, operatorVars, processVars, paused, engineVars, placing,
                 cashoutVars, voiding, adminBet, expiryVars, recoveryVars, alerts>>

-----------------------------------------------------------------------------
(* The process dies: handlers, timers, in-memory bets are gone; the rows and *)
(* what the operator did stay, and so may calls already on the wire.         *)

ProcessCrash ==
  /\ server # "down" /\ crashes < MaxCrashes
  /\ server' = "down" /\ crashes' = crashes + 1
  /\ round' = 0 /\ phase' = "STOPPED"
  /\ seat' = [b \in Bets |-> "none"]
  /\ placing' = [b \in Bets |-> "idle"]
  /\ voiding' = [b \in Bets |-> "idle"]
  /\ cashout' = [t \in Cashouts |-> IF cashout[t] = "idle" THEN "idle" ELSE "done"]
  /\ admin' = [a \in Admins |-> "idle"]
  /\ toList' = {} /\ toExpire' = {}
  /\ recovery' = "off" /\ todo' = {} /\ recovering' = NoBet
  /\ calls' = IF LateDelivery THEN calls ELSE {}
  /\ UNCHANGED <<bookVars, idem, debited, credited, rolledBack, refunded, paused,
                 cashoutBet, adminBet, alerts>>

(* runRecovery: serial, before the server listens; its client has no        *)
(* txn_idempotency table and ignores the operator's pause.                  *)

StartRecovery ==
  /\ server = "down"
  /\ server' = "recovering" /\ recovery' = "pending"
  /\ UNCHANGED <<bookVars, idem, operatorVars, crashes, paused, engineVars, placing, cashoutVars,
                 voiding, adminVars, expiryVars, todo, recovering, alerts>>

RecoverPending(b) ==
  /\ recovery = "pending"
  /\ state[b] = "PENDING" /\ Move(b, "rollback_started")
  /\ UNCHANGED <<winTxn, betRound, idem, operatorVars, processVars, paused, engineVars, placing,
                 cashoutVars, voiding, adminVars, expiryVars, recoveryVars, alerts>>

ListRollbacks ==
  /\ recovery = "pending"
  /\ (\A b \in Bets : state[b] # "PENDING") \/ DbErrors    \* a failed row is skipped
  /\ recovery' = "rollback"
  /\ todo' = {b \in Bets : state[b] = "ROLLBACK_PENDING"}
  /\ UNCHANGED <<bookVars, idem, operatorVars, processVars, paused, engineVars, placing,
                 cashoutVars, voiding, adminVars, expiryVars, recovering, alerts>>

SendRecoveryCall(b) ==
  /\ recovery \in {"rollback", "settling"} /\ recovering = NoBet /\ b \in todo
  /\ todo' = todo \ {b} /\ recovering' = b
  /\ Send(IF recovery = "rollback" THEN RollbackCall(b) ELSE WinCall(winTxn[b]))
  /\ UNCHANGED <<bookVars, idem, debited, credited, rolledBack, refunded, processVars, paused,
                 engineVars, placing, cashoutVars, voiding, adminVars, expiryVars, recovery, alerts>>

RollbackRecovered ==
  /\ recovery = "rollback" /\ recovering \in rolledBack
  /\ Move(recovering, "rollback_completed")
  /\ recovering' = NoBet
  /\ UNCHANGED <<winTxn, betRound, idem, operatorVars, processVars, paused, engineVars, placing,
                 cashoutVars, voiding, adminVars, expiryVars, recovery, todo, alerts>>

\* Any error (also an operator that is no longer registered): left for the next run.
RollbackUnrecovered ==
  /\ recovery = "rollback" /\ recovering # NoBet
  /\ recovering' = NoBet
  /\ Abandon(RollbackCall(recovering))
  /\ UNCHANGED <<bookVars, idem, debited, credited, rolledBack, refunded, processVars, paused,
                 engineVars, placing, cashoutVars, voiding, adminVars, expiryVars, recovery, todo, alerts>>

ListSettling ==
  /\ recovery = "rollback" /\ todo = {} /\ recovering = NoBet
  /\ recovery' = "settling"
  /\ todo' = {b \in Bets : state[b] = "SETTLING" /\ winTxn[b] # NoTxn}
  /\ UNCHANGED <<bookVars, idem, operatorVars, processVars, paused, engineVars, placing,
                 cashoutVars, voiding, adminVars, expiryVars, recovering, alerts>>

\* An error of the database leaves the row SETTLING for the next run.
WinRecovered ==
  /\ recovery = "settling" /\ recovering # NoBet /\ winTxn[recovering] \in credited
  /\ Move(recovering, "win_settled") \/ (DbErrors /\ UNCHANGED state)
  /\ recovering' = NoBet
  /\ UNCHANGED <<winTxn, betRound, idem, operatorVars, processVars, paused, engineVars, placing,
                 cashoutVars, voiding, adminVars, expiryVars, recovery, todo, alerts>>

WinUnrecovered ==
  /\ recovery = "settling" /\ recovering # NoBet
  /\ \/ Move(recovering, "win_failed") /\ recovery' = "alert" /\ UNCHANGED recovering
     \/ DbErrors /\ recovering' = NoBet /\ UNCHANGED <<state, recovery>>
  /\ Abandon(WinCall(winTxn[recovering]))
  /\ UNCHANGED <<winTxn, betRound, idem, debited, credited, rolledBack, refunded, processVars,
                 paused, engineVars, placing, cashoutVars, voiding, adminVars, expiryVars,
                 todo, alerts>>

AlertUnrecovered ==
  /\ recovery = "alert"
  /\ recovery' = "settling" /\ recovering' = NoBet
  /\ alerts' = [alerts EXCEPT ![recovering] = @ + 1]
  /\ UNCHANGED <<bookVars, idem, operatorVars, processVars, paused, engineVars, placing,
                 cashoutVars, voiding, adminVars, expiryVars, todo>>

\* The server listens and startAllEngines begins again at round 1.  A listing
\* that fails ends the recovery early, and the server starts all the same.
FinishRecovery ==
  /\ \/ recovery = "settling"
     \/ DbErrors /\ recovery \in {"pending", "rollback"}
  /\ todo = {} /\ recovering = NoBet
  /\ recovery' = "off"
  /\ server' = "serving" /\ round' = 1 /\ phase' = "BETTING"
  /\ UNCHANGED <<bookVars, idem, operatorVars, crashes, paused, seat, placing, cashoutVars,
                 voiding, adminVars, expiryVars, todo, recovering, alerts>>

-----------------------------------------------------------------------------
Init ==
  /\ state = [b \in Bets |-> "NONE"]
  /\ winTxn = [b \in Bets |-> NoTxn]
  /\ betRound = [b \in Bets |-> 0]
  /\ idem = [t \in Cashouts |-> "none"]
  /\ calls = {} /\ debited = {} /\ credited = {} /\ rolledBack = {} /\ refunded = {}
  /\ server = "serving" /\ crashes = 0 /\ paused = FALSE
  /\ round = 1 /\ phase = "BETTING"
  /\ seat = [b \in Bets |-> "none"]
  /\ placing = [b \in Bets |-> "idle"]
  /\ cashout = [t \in Cashouts |-> "idle"] /\ cashoutBet = [t \in Cashouts |-> NoBet]
  /\ voiding = [b \in Bets |-> "idle"]
  /\ admin = [a \in Admins |-> "idle"] /\ adminBet = [a \in Admins |-> NoBet]
  /\ toList = {} /\ toExpire = {}
  /\ recovery = "off" /\ todo = {} /\ recovering = NoBet
  /\ alerts = [b \in Bets |-> 0]

AnswerBet(b) ==
  \/ BetAccepted(b) \/ PushBet(b)
  \/ BetRejected(b) \/ BetUnanswered(b) \/ BetBookingFails(b)

Operator ==
  \/ \E b \in Bets : OperatorDebits(b) \/ OperatorRollsBack(b)
  \/ \E t \in Cashouts : OperatorCredits(t)

Expiry ==
  \/ \E r \in toList : ListForExpiry(r)
  \/ \E b \in toExpire : ExpireBet(b)
  \/ ExpiryFails

Engine == StartFlight \/ RoundCrashes \/ NextRound

Cashout(t) ==
  \/ RequestCashout(t) \/ WinAccepted(t) \/ WinRejected(t) \/ WinUnanswered(t)
  \/ SettleWin(t) \/ FailWin(t) \/ AlertWinFailed(t)
  \/ RequestPausedCashout(t) \/ FailPausedWin(t) \/ AlertPausedWin(t)

Void(b) ==
  \/ MarkForVoid(b) \/ ReadForVoid(b) \/ StartVoid(b) \/ FinishVoid(b) \/ VoidFails(b)

ForceCredit(a) ==
  \/ SendForceCredit(a) \/ ForceCreditAccepted(a) \/ ForceCreditRejected(a)
  \/ ForceCreditUnanswered(a) \/ BookForceCredit(a)

Recovery ==
  \/ StartRecovery \/ ListRollbacks \/ RollbackRecovered \/ RollbackUnrecovered
  \/ ListSettling \/ WinRecovered \/ WinUnrecovered \/ AlertUnrecovered \/ FinishRecovery
  \/ \E b \in Bets : RecoverPending(b) \/ SendRecoveryCall(b)

Next ==
  \/ \E b \in Bets : PlaceBet(b) \/ AnswerBet(b) \/ ListForVoid(b) \/ Void(b)
  \/ \E t \in Cashouts : Cashout(t) \/ (\E b \in Bets : StartCashout(t, b))
  \/ \E a \in Admins : ForceCredit(a) \/ (\E b \in Bets : CheckForceCredit(a, b))
  \/ Operator \/ Engine \/ Expiry \/ Recovery
  \/ ArchiveGame \/ PauseOrResume \/ ProcessCrash

Spec == Init /\ [][Next]_vars

\* A started handler goes on: every wallet call ends (each try has a timeout and
\* the tries are counted), the event loop runs what is ready, the engine's
\* timers fire, and a dead process is restarted.  Nothing is asked of players,
\* admins or the operator.
Fairness ==
  /\ \A b \in Bets : WF_vars(AnswerBet(b)) /\ WF_vars(Void(b))
  /\ \A t \in Cashouts : WF_vars(Cashout(t))
  /\ \A a \in Admins : WF_vars(ForceCredit(a))
  /\ WF_vars(Engine) /\ WF_vars(Expiry) /\ WF_vars(Recovery)

FairSpec == Spec /\ Fairness

-----------------------------------------------------------------------------
(* Properties. *)

\* Every variable keeps its type; alerts are bounded by the attempts there are.
TypeOK ==
  /\ state \in [Bets -> BetState \cup {"NONE"}]
  /\ winTxn \in [Bets -> Cashouts \cup {NoTxn}]
  /\ betRound \in [Bets -> 0..MaxRound]
  /\ idem \in [Cashouts -> {"none", "ok", "rejected"}]
  /\ calls \subseteq AllCalls
  /\ debited \subseteq Bets /\ rolledBack \subseteq Bets /\ refunded \subseteq Bets
  /\ credited \subseteq Cashouts
  /\ server \in {"down", "recovering", "serving"} /\ crashes \in 0..MaxCrashes
  /\ paused \in BOOLEAN
  /\ round \in 0..MaxRound /\ phase \in {"BETTING", "FLYING", "CRASHED", "STOPPED"}
  /\ seat \in [Bets -> {"none", "live", "cashedOut"}]
  /\ placing \in [Bets -> {"idle", "calling", "accepted"}]
  /\ cashout \in [Cashouts -> {"idle", "request", "calling", "settle", "fail", "alert",
                               "pausedRequest", "pausedFail", "pausedAlert", "done"}]
  /\ cashoutBet \in [Cashouts -> Bets \cup {NoBet}]
  /\ voiding \in [Bets -> {"idle", "listed", "read", "start", "startOnly", "calling"}]
  /\ admin \in [Admins -> {"idle", "send", "calling", "book"}]
  /\ adminBet \in [Admins -> Bets \cup {NoBet}]
  /\ toList \subseteq 0..MaxRound /\ toExpire \subseteq Bets
  /\ recovery \in {"off", "pending", "rollback", "settling", "alert"}
  /\ todo \subseteq Bets /\ recovering \in Bets \cup {NoBet}
  /\ alerts \in [Bets -> Nat]

\* The operator credits a win only for the cashout attempt whose winTxnId the
\* row holds, and never for a bet that is still in play or lost.  With several
\* attempts, force-credits and a recovery about, no bet is paid under two ids.
CreditIsClaimed ==
  \A t \in credited :
    \E b \in Bets :
      /\ winTxn[b] = t /\ cashoutBet[t] = b
      /\ state[b] \notin {"NONE", "PENDING", "ARMED", "FLYING", "LOST"}

\* A SETTLED bet has a matching /win receipt at the operator (wallet spec, 10).
SettledIsPaid ==
  \A b \in Bets : state[b] = "SETTLED" => winTxn[b] \in credited

\* Only a bet the operator debited is ever in play, won or lost.
PlayedIsDebited ==
  \A b \in Bets :
    state[b] \in {"ARMED", "FLYING", "SETTLING", "SETTLED", "LOST", "WIN_FAILED"} => b \in debited

\* A lost bet is final on the operator's side too: neither refunded nor credited.
LostKeepsStake ==
  \A b \in Bets : state[b] = "LOST" => b \notin rolledBack /\ RollbackCall(b) \notin calls

\* The stake of a bet that is played is with the operator and stays there if it is
\* lost (placeOperatorBet, expireOperatorBetsOnCrash, voidOperatorBet).
StakeIsRight == PlayedIsDebited /\ LostKeepsStake

\* A VOIDED bet that was debited has been refunded.
VoidedIsWhole ==
  \A b \in Bets : state[b] = "VOIDED" /\ b \in debited => b \in refunded

\* A row that has failed its win is announced, or the handler that failed it
\* is about to announce it, unless the process stopped or the database failed
\* (emitWinFailed, runRecovery).
FailureIsAlerted ==
  \A b \in Bets :
    state[b] = "WIN_FAILED" /\ crashes = 0 =>
      \/ alerts[b] > 0
      \/ \E t \in Cashouts : cashout[t] \in {"alert", "pausedAlert"} /\ cashoutBet[t] = b
      \/ recovery = "alert" /\ recovering = b

\* The winTxnId of a row never changes once written: every later /win for the
\* bet (retry, recovery, force-credit) repeats the same transaction.
KeepsClaims == \A b \in Bets : winTxn[b] # NoTxn => winTxn'[b] = winTxn[b]
ClaimIsStable == [][KeepsClaims]_vars

\* An attempt whose call is under way finds its own id in the row until it ends.
AttemptOwnsRow ==
  \A t \in Cashouts :
    cashout[t] \in {"calling", "settle", "fail", "pausedFail"} => winTxn[cashoutBet[t]] = t

\* The engine implements the money contract of BetContract: the row's
\* win_txn_id is the claim, LOST is the loss, and the operator's executed
\* calls are the payments and returns.
Contract ==
  INSTANCE BetContract WITH
    Txns <- Cashouts, claim <- winTxn, paid <- credited, returned <- refunded,
    lost <- {b \in Bets : state[b] = "LOST"}

ImplementsContract == Contract!Spec

\* A placed bet does not stay PENDING: the call is answered or given up, or the
\* process dies and recovery starts the rollback.
PendingResolves ==
  \A b \in Bets : (state[b] = "PENDING") ~> (state[b] # "PENDING")

\* A cashout does not stay SETTLING: the attempt, a void, or recovery ends it.
SettlingResolves ==
  \A b \in Bets : (state[b] = "SETTLING") ~> (state[b] # "SETTLING")

\* No bet waits for a call for ever, in either of the two ways a row can wait for
\* one (placeOperatorBet, cashOutOperatorBet, runRecovery).
CallsResolve == PendingResolves /\ SettlingResolves

\* A bet that is ARMED and seated in a flying round leaves ARMED: the round
\* crashes and its expiry finds every bet nobody else has taken.  Only a bet that
\* has lost its seat with the engine, to a stop or an archived game, may stay.
SeatedBetResolves ==
  \A b \in Bets :
    (state[b] = "ARMED" /\ seat[b] = "live" /\ phase = "FLYING") ~>
      (state[b] # "ARMED" \/ phase = "STOPPED")
=============================================================================
