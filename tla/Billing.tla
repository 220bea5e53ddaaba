------------------------------- MODULE Billing -------------------------------
(***************************************************************************)
(* What bets amount to in money reports: the financial report over a       *)
(* window, the settlement and the invoices of a month, and the stakes of a *)
(* round as its operators are shown them.                                  *)
(***************************************************************************)
EXTENDS Integers, FiniteSets, FiniteSetsExt

CONSTANTS
  BilledBets,   \* rows of bet_log
  BilledTo,     \* the operator of a bet
  BilledRound,  \* the round of a bet
  StakeOf,      \* amount_minor
  WinOf,        \* win_amount_minor once settled
  DayLength,    \* units of time in a day
  MonthDays,    \* days in a month
  Months,       \* bound on months
  Shares,       \* share_bps an operator may be given
  MaxInvoices   \* bound on invoices

ASSUME BillingAssumption ==
  /\ DayLength \in Nat \ {0} /\ MonthDays \in Nat \ {0} /\ Months \in Nat \ {0}
  /\ IsFiniteSet(BilledBets) /\ StakeOf \in [BilledBets -> Nat] /\ WinOf \in [BilledBets -> Nat]

VARIABLES
  today,    \* time
  placedAt, \* created_at of each bet, or NotPlaced
  standing, \* its state, as far as reports tell states apart; "none" without a row
  share,    \* the operators' share_bps
  invoices  \* history: invoices of months that were over, with what was late then
billingVars == <<today, placedAt, standing, share, invoices>>

NotPlaced == -1
MonthLength == DayLength * MonthDays
Customers == {BilledTo[b] : b \in BilledBets}
Placed == {b \in BilledBets : standing[b] # "none"}

-----------------------------------------------------------------------------
(* Reports are read from the rows. *)

InWindowInclusive(b, from, to) == placedAt[b] >= from /\ placedAt[b] <= to
InReportWindow(b, from, to) == placedAt[b] >= from /\ placedAt[b] < to

\* WIN_FAILED counts its stake and not its win; VOIDED and bets in play count nothing.
StakeCounted(b) == standing[b] \in {"SETTLED", "LOST", "WIN_FAILED"}

\* The gross gaming revenue of some bets.
MoneyOf(bets) ==
  LET counted == {b \in bets : StakeCounted(b)}
  IN  SumFunctionOnSet(StakeOf, counted) - SumFunctionOnSet(WinOf, {b \in counted : standing[b] = "SETTLED"})

BetsOf(o, from, to) == {b \in BilledBets : BilledTo[b] = o /\ InReportWindow(b, from, to)}

Report(o, from, to) ==
  [bets |-> Cardinality({b \in BetsOf(o, from, to) : StakeCounted(b)}), ggr |-> MoneyOf(BetsOf(o, from, to))]

Month(o, m) == Report(o, m * MonthLength, (m + 1) * MonthLength)
Day(o, d) == Report(o, d * DayLength, (d + 1) * DayLength)

\* floor(ggr * bps / 10000), downwards also below zero.
OurShare(ggr, bps) == (ggr * bps) \div 10000

\* A round as an operator lists it: the count is of its own bets, the stakes are
\* summed by a second statement over the round.
RoundSummary(o, r) ==
  [bets |-> Cardinality({b \in Placed : BilledRound[b] = r /\ BilledTo[b] = o}),
   stakes |-> SumFunctionOnSet(StakeOf, {b \in Placed : BilledRound[b] = r})]

MonthBets(o, m) == BetsOf(o, m * MonthLength, (m + 1) * MonthLength)

\* The bets of a month that can still change what it amounts to: not yet in the table, in
\* play, or with a payment that failed and may be forced or voided.
Late(o, m) == {b \in MonthBets(o, m) : standing[b] \in {"none", "open", "WIN_FAILED"}}

-----------------------------------------------------------------------------
TimeMoves ==
  /\ today < Months * MonthLength /\ today' = today + 1
  /\ UNCHANGED <<placedAt, standing, share, invoices>>

\* A bet has its time before its row is inserted, and no report sees it until then.
StampBet(b) ==
  /\ placedAt[b] = NotPlaced /\ placedAt' = [placedAt EXCEPT ![b] = today]
  /\ UNCHANGED <<today, standing, share, invoices>>

InsertBet(b) ==
  /\ placedAt[b] # NotPlaced /\ standing[b] = "none" /\ standing' = [standing EXCEPT ![b] = "open"]
  /\ UNCHANGED <<today, placedAt, share, invoices>>

\* The moves of the bet states that reports can see; a force-credit or a void may
\* come to a WIN_FAILED bet at any time.
BetMoves(b) ==
  /\ \/ standing[b] = "open" /\ \E s \in {"SETTLED", "LOST", "WIN_FAILED", "VOIDED"} : standing' = [standing EXCEPT ![b] = s]
     \/ standing[b] = "WIN_FAILED" /\ \E s \in {"SETTLED", "VOIDED"} : standing' = [standing EXCEPT ![b] = s]
  /\ UNCHANGED <<today, placedAt, share, invoices>>

ShareIsSet(o) ==
  /\ \E bps \in Shares : share' = [share EXCEPT ![o] = bps]
  /\ UNCHANGED <<today, placedAt, standing, invoices>>

\* The invoice is computed anew each time, of any month, and is not stored; nothing on it
\* says that bets are late.  A month with no row has none.  The history keeps those of
\* months that are over, with their late bets and what the others amount to.
Invoice(o, m) ==
  /\ today >= (m + 1) * MonthLength /\ Cardinality(invoices) < MaxInvoices
  /\ \E b \in MonthBets(o, m) : b \in Placed
  /\ invoices' = invoices \cup {[operator |-> o, month |-> m, ggr |-> Month(o, m).ggr,
       ours |-> OurShare(Month(o, m).ggr, share[o]), share |-> share[o],
       late |-> Late(o, m), settled |-> MoneyOf(MonthBets(o, m) \ Late(o, m))]}
  /\ UNCHANGED <<today, placedAt, standing, share>>

BillingInit ==
  /\ today = 0 /\ placedAt = [b \in BilledBets |-> NotPlaced] /\ standing = [b \in BilledBets |-> "none"]
  /\ share \in [Customers -> Shares] /\ invoices = {}

BillingNext ==
  \/ TimeMoves
  \/ \E b \in BilledBets : StampBet(b) \/ InsertBet(b) \/ BetMoves(b)
  \/ \E o \in Customers : ShareIsSet(o) \/ \E m \in 0..(Months - 1) : Invoice(o, m)

BillingSpec == BillingInit /\ [][BillingNext]_billingVars

-----------------------------------------------------------------------------
(* Properties *)

\* Windows add up: the days of a month to the month, the months to all that was
\* ever counted, so that no bet is billed twice or between two windows.
WindowsAddUp ==
  \A o \in {BilledTo[b] : b \in Placed} :
    /\ \A m \in 0..(Months - 1) :
         LET days == (m * MonthDays)..((m + 1) * MonthDays - 1) IN
         /\ Month(o, m).ggr  = MapThenSumSet(LAMBDA d : Day(o, d).ggr, days)
         /\ Month(o, m).bets = MapThenSumSet(LAMBDA d : Day(o, d).bets, days)
    /\ MapThenSumSet(LAMBDA m : Month(o, m).bets, 0..Months)
         = Cardinality({b \in BilledBets : BilledTo[b] = o /\ StakeCounted(b)})

\* What a month that is over amounts to changes by its late bets alone: the others stay
\* what they were when an invoice was made of it, whatever is placed, paid, voided or
\* agreed later; so two invoices of it made when nothing was late agree, at the same
\* share to the last unit.
InvoicesAgree ==
  /\ \A i \in invoices : MoneyOf(MonthBets(i.operator, i.month) \ i.late) = i.settled
  /\ \A i, j \in invoices :
       (i.operator = j.operator /\ i.month = j.month /\ i.late = {} /\ j.late = {}) =>
         i.ggr = j.ggr /\ (i.share = j.share => i.ours = j.ours)

\* Money reports: windows that add up, and invoices that stay true.
BillingIsRight == WindowsAddUp /\ InvoicesAgree

\* "other operators' bets in the same round are excluded by the forced operator_id
\* filter" (operator.ts): the stakes an operator is shown for a round are its own.
RoundShowsOwnStakes ==
  \A o \in Customers, r \in {BilledRound[b] : b \in BilledBets} :
    RoundSummary(o, r).bets > 0 => RoundSummary(o, r).stakes =
      SumFunctionOnSet(StakeOf, {b \in Placed : BilledRound[b] = r /\ BilledTo[b] = o})
=============================================================================
