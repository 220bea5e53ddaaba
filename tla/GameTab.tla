------------------------------- MODULE GameTab -------------------------------
(***************************************************************************)
(* A player's tab at one game, and the server at the other end of its      *)
(* socket: the engine broadcasts the phases of a round, place_bet awaits a  *)
(* debit and cashout a credit, the tab shows what the frames told it.  The *)
(* socket is lost and reopened at any point, and the session may expire.   *)
(* A round stands for its number, its seed, the hash that commits to the   *)
(* seed, and the crash point drawn from it.  Frames and messages of one    *)
(* socket keep their order.                                                *)
(***************************************************************************)
EXTENDS Integers, Sequences, FiniteSets, SequencesExt

CONSTANTS
  Slots,         \* the two bet panels
  RebetSlots,    \* panels with "Auto bet" on
  AimSlots,      \* panels with "Auto cash out" on
  MaxTabRounds,  \* bound: rounds played
  MaxLag,        \* bound: frames under way when the engine broadcasts one
  MaxSockets,    \* bound: sockets opened
  MaxAsks,       \* bound: place_bet messages sent
  MaxExpiries    \* bound: sessions that expire

ASSUME GameTabAssumption ==
  /\ Slots \subseteq Int /\ IsFiniteSet(Slots) /\ RebetSlots \subseteq Slots /\ AimSlots \subseteq Slots
  /\ MaxTabRounds \in Nat /\ MaxLag \in Nat /\ MaxSockets \in Nat /\ MaxAsks \in Nat /\ MaxExpiries \in Nat

VARIABLES
  stage,      \* engine.round: [no, phase]
  seats,      \* per slot the session's bets in engine.round.bets: whether each has cashed out
  debits,     \* place_bet handlers that await their debit: [ask, slot, no, ws]
  cashouts,   \* cashouts that await or missed their credit: [slot, no, ok]
  sock,       \* the tab's socket: "down", "up", or "claimed" when hello has attached the session
  toTab, toServer,  \* what is under way on it
  alive,      \* the store knows the session
  tab,        \* gameState and hasBet of App.tsx
  clean,      \* history: the socket held since the round began, which began with nothing awaited
  sockets, asks, expiries

serverVars == <<stage, seats, debits, cashouts>>
boundVars == <<sockets, asks, expiries>>
tabVars == <<serverVars, sock, toTab, toServer, alive, tab, clean, boundVars>>

NoSeats == [s \in Slots |-> <<>>]
NoSlots == [s \in Slots |-> FALSE]
Frame(kind, no, phase) == [kind |-> kind, no |-> no, phase |-> phase, slot |-> 0]
SlotFrame(kind, slot) == [kind |-> kind, no |-> 0, phase |-> "-", slot |-> slot]
Message(kind, slot) == [kind |-> kind, slot |-> slot]

Open == sock # "down"
MayLag == Len(toTab) < MaxLag
\* broadcast and safeSend: to sockets that are open.
Broadcast(frame) == toTab' = IF Open THEN Append(toTab, frame) ELSE toTab
\* sendToSession: to sockets hello or a bet has attached.
SendToSession(frame) == toTab' = IF sock = "claimed" THEN Append(toTab, frame) ELSE toTab

-----------------------------------------------------------------------------
(* Faulty variant of AfterPhase. *)

\* A new betting window keeps the panels as they were.
AfterPhaseKeepingBets(t, f) ==
  [t EXCEPT !.phase = f.phase, !.no = f.no, !.commit = IF f.phase = "BETTING" THEN f.no ELSE @,
            !.prev = IF f.phase = "BETTING" THEN f.no - 1 ELSE @,
            !.seed = IF f.phase = "RESULT" THEN f.no ELSE @]

-----------------------------------------------------------------------------
(* The engine (engine.ts): what each phase broadcasts. *)

\* startFlightPhase, crash, startResultPhase.
FollowingPhase == [BETTING |-> "FLYING", FLYING |-> "CRASHED", CRASHED |-> "RESULT"]

PhaseChanges ==
  /\ stage.phase # "RESULT" /\ MayLag
  /\ stage' = [stage EXCEPT !.phase = FollowingPhase[@]]
  /\ Broadcast(Frame(IF stage'.phase = "CRASHED" THEN "crash" ELSE "phase_change", stage.no, stage'.phase))
  /\ UNCHANGED <<seats, debits, cashouts, sock, toServer, alive, tab, clean, boundVars>>

\* startBettingPhase: a fresh round object without the session's bets.
RoundBegins ==
  /\ stage.phase = "RESULT" /\ stage.no < MaxTabRounds /\ MayLag
  /\ stage' = [no |-> stage.no + 1, phase |-> "BETTING"] /\ seats' = NoSeats
  /\ Broadcast(Frame("phase_change", stage.no + 1, "BETTING"))
  /\ cashouts' = {c \in cashouts : c.ok}
  /\ clean' = (sock = "claimed" /\ alive /\ debits = {} /\ cashouts' = {})
  /\ UNCHANGED <<debits, sock, toServer, alive, tab, boundVars>>

-----------------------------------------------------------------------------
(* Messages of the tab (handlers.ts).  Errors change nothing the tab keeps. *)

Takes(kind) == toServer # <<>> /\ Head(toServer).kind = kind /\ toServer' = Tail(toServer)

\* getSession finds nothing: session_invalid.
SessionMissing ==
  /\ ~alive /\ (Takes("hello") \/ Takes("place_bet"))
  /\ Broadcast(SlotFrame("session_invalid", 0))
  /\ UNCHANGED <<serverVars, sock, alive, tab, clean, boundVars>>

Hello ==
  /\ alive /\ Takes("hello") /\ sock' = "claimed"
  /\ UNCHANGED <<serverVars, toTab, alive, tab, clean, boundVars>>

\* Tells two requests under way apart.
FreeAsk == CHOOSE n \in 1..MaxAsks : \A d \in debits : d.ask # n

\* Betting open and slot free, or an error; then the debit is awaited.
PlaceBet ==
  /\ alive /\ Takes("place_bet")
  /\ LET s == Head(toServer).slot
     IN debits' = IF stage.phase = "BETTING" /\ seats[s] = <<>>
                  THEN debits \cup {[ask |-> FreeAsk, slot |-> s, no |-> stage.no, ws |-> "here"]}
                  ELSE debits
  /\ UNCHANGED <<stage, seats, cashouts, sock, toTab, alive, tab, clean, boundVars>>

\* The bet goes to the round the handler captured, and bet_placed to its socket.
BetPlaced(d) ==
  /\ d \in debits /\ debits' = debits \ {d}
  /\ seats' = IF d.no = stage.no /\ d.ws # "old" THEN [seats EXCEPT ![d.slot] = Append(@, FALSE)] ELSE seats
  /\ IF d.ws = "here" THEN toTab' = Append(toTab, SlotFrame("bet_placed", d.slot)) /\ sock' = "claimed"
                      ELSE UNCHANGED <<toTab, sock>>
  /\ UNCHANGED <<stage, cashouts, toServer, alive, tab, clean, boundVars>>

BetFails(d) ==
  /\ d \in debits /\ debits' = debits \ {d}
  /\ UNCHANGED <<stage, seats, cashouts, sock, toTab, toServer, alive, tab, clean, boundVars>>

CashesOut(s, i) ==
  /\ seats' = [seats EXCEPT ![s][i] = TRUE]
  /\ cashouts' = cashouts \cup {[slot |-> s, no |-> stage.no, ok |-> TRUE]}

\* findBetForSession: the first bet of the slot, which must be open and flying.
Cashout ==
  /\ Takes("cashout")
  /\ LET s == Head(toServer).slot
     IN IF stage.phase = "FLYING" /\ seats[s] # <<>> /\ ~seats[s][1]
        THEN CashesOut(s, 1) ELSE UNCHANGED <<seats, cashouts>>
  /\ UNCHANGED <<stage, debits, sock, toTab, alive, tab, clean, boundVars>>

\* The flight passes the bet's target.
AutoCashout(s, i) ==
  /\ s \in AimSlots /\ stage.phase = "FLYING" /\ i \in DOMAIN seats[s] /\ ~seats[s][i]
  /\ CashesOut(s, i)
  /\ UNCHANGED <<stage, debits, sock, toTab, toServer, alive, tab, clean, boundVars>>

CashoutPaid(c) ==
  /\ c \in cashouts /\ c.ok /\ cashouts' = cashouts \ {c}
  /\ SendToSession(SlotFrame("cashout_success", c.slot))
  /\ UNCHANGED <<stage, seats, debits, sock, toServer, alive, tab, clean, boundVars>>

\* cashout_pending, or an error: neither touches the panel.
CashoutUnpaid(c) ==
  /\ c \in cashouts /\ c.ok /\ cashouts' = (cashouts \ {c}) \cup {[c EXCEPT !.ok = FALSE]}
  /\ UNCHANGED <<stage, seats, debits, sock, toTab, toServer, alive, tab, clean, boundVars>>

-----------------------------------------------------------------------------
(* The socket (index.ts, App.tsx). *)

\* connect, 1.2 s after a close: the server sends a snapshot, the tab its hello.
Connect ==
  /\ sock = "down" /\ sockets < MaxSockets /\ sockets' = sockets + 1
  /\ sock' = "up"
  /\ toTab' = <<Frame("join", stage.no, stage.phase)>> /\ toServer' = <<Message("hello", 0)>>
  /\ UNCHANGED <<serverVars, alive, tab, clean, asks, expiries>>

\* What a handler would tell a closed socket is dropped.
Closed(ws) ==
  /\ sock' = "down" /\ toTab' = <<>> /\ toServer' = <<>> /\ clean' = FALSE
  /\ debits' = {[d EXCEPT !.ws = IF @ = "old" THEN "old" ELSE ws] : d \in debits}

Disconnect ==
  /\ Open /\ Closed("gone")
  /\ UNCHANGED <<stage, seats, cashouts, alive, tab, boundVars>>

SessionExpires ==
  /\ alive /\ expiries < MaxExpiries /\ expiries' = expiries + 1
  /\ alive' = FALSE /\ clean' = FALSE
  /\ UNCHANGED <<serverVars, sock, toTab, toServer, tab, sockets, asks>>

-----------------------------------------------------------------------------
(* The tab (App.tsx): handleMessage, one frame at a time. *)

\* The snapshot: no crash point and no seed, whatever the phase.
AfterJoin(t, f) ==
  [t EXCEPT !.phase = f.phase, !.no = f.no, !.commit = f.no, !.hasBet = NoSlots,
            !.prev = IF f.phase \in {"CRASHED", "RESULT"} THEN f.no ELSE f.no - 1]

AfterPhase(t, f) ==
  [t EXCEPT !.phase = f.phase, !.no = f.no,
            !.commit = IF f.phase = "BETTING" THEN f.no ELSE @,
            !.prev   = IF f.phase = "BETTING" THEN f.no - 1 ELSE @,
            !.seed   = IF f.phase = "RESULT" THEN f.no ELSE @,
            !.hasBet = IF f.phase = "BETTING" THEN NoSlots ELSE @]

AfterCrash(t, f) == [t EXCEPT !.phase = "CRASHED", !.seed = f.no, !.hasBet = NoSlots]

AfterFrame(t, f) ==
  CASE f.kind = "join"            -> AfterJoin(t, f)
    [] f.kind = "phase_change"    -> AfterPhase(t, f)
    [] f.kind = "crash"           -> AfterCrash(t, f)
    [] f.kind = "bet_placed"      -> [t EXCEPT !.hasBet[f.slot] = TRUE]
    [] f.kind = "cashout_success" -> [t EXCEPT !.hasBet[f.slot] = FALSE]

\* The effect on gameState.phase: auto bets when the phase becomes BETTING.
Rebets(before, after) ==
  IF after.phase = "BETTING" /\ before.phase # "BETTING"
  THEN SetToSeq({Message("place_bet", s) : s \in {r \in RebetSlots : ~after.hasBet[r]}}) ELSE <<>>

\* The auto bets the tab has sent for the round it shows, kept for the properties.
CountRebets(before, after, n) == IF after.no = before.no THEN before.rebets + n ELSE n

Receive ==
  /\ toTab # <<>> /\ Head(toTab).kind # "session_invalid"
  /\ LET after == AfterFrame(tab, Head(toTab))
         sent  == Rebets(tab, after)
     IN /\ asks + Len(sent) <= MaxAsks /\ asks' = asks + Len(sent)
        /\ toServer' = toServer \o sent
        /\ tab' = [after EXCEPT !.rebets = CountRebets(tab, after, Len(sent))]
  /\ toTab' = Tail(toTab)
  /\ UNCHANGED <<serverVars, sock, alive, clean, sockets, expiries>>

\* createNewSession: the socket is closed, and opened for the new session.
NewSession ==
  /\ toTab # <<>> /\ Head(toTab).kind = "session_invalid"
  /\ alive' = TRUE /\ Closed("old") /\ seats' = NoSeats /\ cashouts' = {}
  /\ UNCHANGED <<stage, tab, boundVars>>

\* BetPanel's buttons.
CanBet(s) == tab.phase = "BETTING" /\ ~tab.hasBet[s]
CanCashOut(s) == tab.phase = "FLYING" /\ tab.hasBet[s]

ClickBet(s) ==
  /\ CanBet(s) /\ Open /\ asks < MaxAsks /\ asks' = asks + 1
  /\ toServer' = Append(toServer, Message("place_bet", s))
  /\ UNCHANGED <<serverVars, sock, toTab, alive, tab, clean, sockets, expiries>>

ClickCashOut(s) ==
  /\ CanCashOut(s) /\ Open /\ Message("cashout", s) \notin ToSet(toServer)
  /\ toServer' = Append(toServer, Message("cashout", s))
  /\ UNCHANGED <<serverVars, sock, toTab, alive, tab, clean, boundVars>>

-----------------------------------------------------------------------------
TabInit ==
  /\ stage = [no |-> 1, phase |-> "BETTING"] /\ seats = NoSeats /\ debits = {} /\ cashouts = {}
  /\ sock = "down" /\ toTab = <<>> /\ toServer = <<>> /\ alive = TRUE /\ clean = FALSE
  /\ tab = [phase |-> "BETTING", no |-> 0, commit |-> 0, seed |-> 0, prev |-> 0, hasBet |-> NoSlots, rebets |-> 0]
  /\ sockets = 0 /\ asks = 0 /\ expiries = 0

TabNext ==
  \/ PhaseChanges \/ RoundBegins
  \/ SessionMissing \/ Hello \/ PlaceBet \/ Cashout
  \/ \E d \in debits : BetPlaced(d) \/ BetFails(d)
  \/ \E c \in cashouts : CashoutPaid(c) \/ CashoutUnpaid(c)
  \/ \E s \in Slots : \E i \in DOMAIN seats[s] : AutoCashout(s, i)
  \/ Connect \/ Disconnect \/ SessionExpires
  \/ Receive \/ NewSession
  \/ \E s \in Slots : ClickBet(s) \/ ClickCashOut(s)

TabSpec == TabInit /\ [][TabNext]_tabVars

-----------------------------------------------------------------------------
(* Properties. *)

Drained == Open /\ toTab = <<>>

\* A tab that has read its frames shows the phase of the engine's round and the
\* commitment to its seed, however often the socket was lost; and the seed it
\* reveals is the one committed to when the socket held throughout the round.
TabShowsTheGame ==
  Drained =>
    /\ tab.phase = stage.phase /\ tab.no = stage.no /\ tab.commit = stage.no
    /\ tab.prev \in {stage.no - 1, stage.no}
    /\ clean /\ stage.phase \in {"CRASHED", "RESULT"} => tab.seed = tab.commit

\* While the socket holds and no answer of an earlier round is awaited, an open bet
\* is on its panel, so that it can be cashed out; a panel shows a bet only if the
\* round holds one that is open or still unpaid; and no round is bet on twice by
\* "Auto bet".  (handlers.ts:91, App.tsx:594.)
Owed(s) == \E c \in cashouts : c.slot = s
PanelsShowTheBets ==
  /\ Drained /\ clean /\ stage.phase \in {"BETTING", "FLYING"} =>
       \A s \in Slots :
         /\ seats[s] = <<FALSE>> => tab.hasBet[s]
         /\ tab.hasBet[s] => (\E i \in DOMAIN seats[s] : ~seats[s][i]) \/ Owed(s)
  /\ tab.rebets <= Cardinality(RebetSlots)

\* The tab of a player who stays connected tells the truth about the round and the bets.
TabIsHonest == TabShowsTheGame /\ PanelsShowTheBets
=============================================================================
