--------------------------- MODULE RoundBetsProofs ---------------------------
(***************************************************************************)
(* Safety of RoundBets for every set of bets and accounts, every seating   *)
(* and starting balance, any number of rounds and stops.  The invariant    *)
(* says what place_bet knows after each of its awaits: the one bet that    *)
(* holds a player's lock has read a balance which can only have grown, and *)
(* a bet sits at a table only after its debit, in the round it was checked *)
(* against, which no crash has passed yet.                                 *)
(* And PlayStats, for every set of bets and every limit of the history:    *)
(* what was recorded is what happened and is not in line any more.         *)
(***************************************************************************)
EXTENDS RoundBets, PlayStats, FiniteSetTheorems, SequenceTheorems, TLAPS

\* A player's lock has one holder; what it has read is still there.
LockInv ==
  /\ \A b, c \in locking : AccountOf[b] = AccountOf[c] => b = c
  /\ \A b \in locking :
       place[b] = "checked" /\ ~IsDemo(b) /\ read[b] <= purse[AccountOf[b]]

\* Behind the debit there is a stake, and before it neither cashout nor loss.
PlaceInv ==
  /\ \A b \in RBets : place[b] \in {"debited", "placed"} => b \in staked
  /\ Seated \cup cashed \cup lost \subseteq {b \in RBets : place[b] = "placed"}

\* The losers of a crash are no longer at a table that takes off.
FlightInv == phase \in {"BETTING", "FLYING"} => Seated \cap lost = {}

\* A credit is made once the cashout is marked, and awaited until it is made.
CreditInv ==
  /\ paying \subseteq cashed
  /\ \A b \in RBets :
       /\ b \in paying => wins[b] = 0
       /\ b \notin cashed => wins[b] = 0

\* The inductive invariant.
RoundInv ==
  /\ RoundTypeOK /\ LockInv /\ PlaceInv /\ FlightInv /\ CreditInv
  /\ WalletNotOverdrawn /\ PaidOnceIfStaked /\ NotWonAndLost /\ PlaysOwnRound

-----------------------------------------------------------------------------
\* Who sits at a table after a push, and at a new one.
LEMMA SeatsAfterPush ==
  ASSUME NEW t \in Seq(RBets), NEW b \in RBets
  PROVE  Append(t, b) \in Seq(RBets) /\ ToSet(Append(t, b)) = ToSet(t) \cup {b}
  <1>1. Append(t, b) \in Seq(RBets) OBVIOUS
  <1>2. /\ DOMAIN Append(t, b) = 1..(Len(t) + 1) /\ DOMAIN t = 1..Len(t) /\ Len(t) \in Nat
        /\ \A i \in 1..Len(t) : Append(t, b)[i] = t[i]
        /\ Append(t, b)[Len(t) + 1] = b
    OBVIOUS
  <1>3. ToSet(Append(t, b)) \subseteq ToSet(t) \cup {b} BY <1>2 DEF ToSet
  <1>4. \A i \in 1..Len(t) : t[i] \in ToSet(Append(t, b)) BY <1>2 DEF ToSet
  <1>5. b \in ToSet(Append(t, b)) BY <1>2 DEF ToSet
  <1>6. ToSet(t) \subseteq ToSet(Append(t, b)) BY <1>2, <1>4 DEF ToSet
  <1> QED BY <1>1, <1>3, <1>5, <1>6

LEMMA EmptyTable == << >> \in Seq(RBets) /\ ToSet(<< >>) = {}
  BY DEF ToSet

\* The invariant holds before the first round.
LEMMA InitRoundInv == RoundInit => RoundInv
  BY RoundBetsAssumption, EmptyTable
     DEF RoundBetsAssumption, RoundInit, RoundInv, RoundTypeOK, Stages, LockInv, PlaceInv, FlightInv, CreditInv,
         WalletNotOverdrawn, PaidOnceIfStaked, NotWonAndLost, PlaysOwnRound, Seated

\* The engine's loop keeps the invariant: a new round starts with an empty table,
\* and those who have not cashed out when it crashes have no credit under way.
LEMMA EngineStep ==
  ASSUME RoundInv
  PROVE  StartBetting \/ StartFlight \/ Crash \/ Stop => RoundInv'
  <1> USE RoundBetsAssumption, EmptyTable
      DEF RoundBetsAssumption, RoundInv, RoundTypeOK, Stages, LockInv, PlaceInv, FlightInv, CreditInv,
          WalletNotOverdrawn, PaidOnceIfStaked, NotWonAndLost, PlaysOwnRound, Seated, IsDemo,
          placeVars, moneyVars, cashVars
  <1>1. CASE StartBetting BY <1>1 DEF StartBetting
  <1>2. CASE StartFlight BY <1>2 DEF StartFlight
  <1>3. CASE Crash BY SMTT(30), <1>3 DEF Crash, Losers
  <1>4. CASE Stop BY <1>4 DEF Stop
  <1> QED BY <1>1, <1>2, <1>3, <1>4

\* Every step of place_bet keeps the invariant.
LEMMA PlacementStep ==
  ASSUME RoundInv, NEW b \in RBets
  PROVE  ReadSession(b) \/ Placement(b) \/ LobbyRefused(b) \/ PlacementFails(b) => RoundInv'
  <1> USE RoundBetsAssumption
      DEF RoundBetsAssumption, RoundInv, RoundTypeOK, Stages, LockInv, PlaceInv, FlightInv, CreditInv,
          WalletNotOverdrawn, PaidOnceIfStaked, NotWonAndLost, PlaysOwnRound, Seated, IsDemo,
          placeVars, moneyVars, cashVars, Goes
  <1>1. CASE ReadSession(b) BY <1>1 DEF ReadSession
  <1>2. CASE CheckBet(b) BY <1>2 DEF CheckBet
  <1>3. CASE DemoDebit(b) BY <1>3 DEF DemoDebit
  <1>4. CASE LobbyLock(b) BY <1>4 DEF LobbyLock, LockFree
  <1>5. CASE LobbyDebit(b)
    <2>1. CASE read[b] < 1 BY SMTT(30), <1>5, <2>1 DEF LobbyDebit
    <2>2. CASE ~(read[b] < 1)
      <3>1. /\ place' = [place EXCEPT ![b] = "debited"] /\ staked' = staked \cup {b}
            /\ purse' = [purse EXCEPT ![AccountOf[b]] = @ - 1] /\ locking' = locking \ {b}
            /\ UNCHANGED <<roundNo, phase, table, inRound, read, wins, cashed, paying, lost, stops, resets>>
        BY <1>5, <2>2 DEF LobbyDebit
      <3>2. place[b] = "checked" /\ purse[AccountOf[b]] >= 1 /\ purse[AccountOf[b]] \in Int
        BY <1>5, <2>2 DEF LobbyDebit
      <3>3. LockInv'
        <4>1. \A c \in locking' : c \in RBets /\ c # b /\ c \in locking BY <3>1
        <4>2. \A c \in locking' : AccountOf[c] # AccountOf[b] BY <4>1, <1>5 DEF LobbyDebit
        <4>3. \A c \in locking' : purse'[AccountOf[c]] = purse[AccountOf[c]] /\ place'[c] = place[c]
          BY <4>1, <4>2, <3>1
        <4> QED BY SMTT(30), <4>1, <4>3, <3>1
      <3>4. PlaceInv' /\ FlightInv' /\ CreditInv' BY <3>1, <3>2
      <3>5. WalletNotOverdrawn' BY <3>1, <3>2
      <3>6. PaidOnceIfStaked' /\ NotWonAndLost' /\ PlaysOwnRound' BY <3>1
      <3>7. RoundTypeOK' BY <3>1, <3>2
      <3> QED BY <3>3, <3>4, <3>5, <3>6, <3>7
    <2> QED BY <2>1, <2>2
  <1>6. CASE PushBet(b) BY <1>6, SeatsAfterPush DEF PushBet, SeatInCapturedRound
  <1>7. CASE LobbyRefused(b) BY <1>7 DEF LobbyRefused
  <1>8. CASE PlacementFails(b) BY <1>8 DEF PlacementFails
  <1> QED BY <1>1, <1>2, <1>3, <1>4, <1>5, <1>6, <1>7, <1>8 DEF Placement

\* Cashouts, their credits and reset_balance keep the invariant.
LEMMA CashoutStep ==
  ASSUME RoundInv, NEW b \in RBets
  PROVE  CashOut(b) \/ CreditWin(b) \/ CreditFails(b) => RoundInv'
  <1> USE RoundBetsAssumption
      DEF RoundBetsAssumption, RoundInv, RoundTypeOK, Stages, LockInv, PlaceInv, FlightInv, CreditInv,
          WalletNotOverdrawn, PaidOnceIfStaked, NotWonAndLost, PlaysOwnRound, Seated, IsDemo,
          placeVars, moneyVars, cashVars
  <1>1. CASE CashOut(b) BY SMTT(30), <1>1 DEF CashOut, MarkCashed
  <1>2. CASE CreditWin(b) BY SMTT(30), <1>2 DEF CreditWin
  <1>3. CASE CreditFails(b) BY SMTT(30), <1>3 DEF CreditFails
  <1> QED BY <1>1, <1>2, <1>3

LEMMA ResetStep ==
  ASSUME RoundInv, NEW a \in DemoAccounts, ResetBalance(a)
  PROVE  RoundInv'
  BY RoundBetsAssumption
     DEF RoundBetsAssumption, RoundInv, RoundTypeOK, Stages, LockInv, PlaceInv, FlightInv, CreditInv,
         WalletNotOverdrawn, PaidOnceIfStaked, NotWonAndLost, PlaysOwnRound, Seated, IsDemo,
         placeVars, moneyVars, cashVars, ResetBalance

\* A step in which nothing changes.
LEMMA RoundStutter ==
  ASSUME RoundInv, UNCHANGED roundVars
  PROVE  RoundInv'
  BY DEF RoundInv, RoundTypeOK, LockInv, PlaceInv, FlightInv, CreditInv,
         WalletNotOverdrawn, PaidOnceIfStaked, NotWonAndLost, PlaysOwnRound, Seated,
         roundVars, placeVars, moneyVars, cashVars

-----------------------------------------------------------------------------
\* The invariant, and with it what follows from it.
THEOREM RoundInvariance == RoundSpec => []RoundInv
  <1>1. RoundInv /\ [RoundNext]_roundVars => RoundInv'
    BY EngineStep, PlacementStep, CashoutStep, ResetStep, RoundStutter DEF RoundNext
  <1> QED BY <1>1, InitRoundInv, PTL DEF RoundSpec

\* Every variable keeps its type.
THEOREM RoundTypes == RoundSpec => []RoundTypeOK
  <1>1. RoundInv => RoundTypeOK BY DEF RoundInv
  <1> QED BY <1>1, RoundInvariance, PTL

\* However the awaits of place_bet, the engine's loop, cashouts and stops of the
\* process follow each other: no wallet below zero, no bet paid twice or without
\* its stake, none both won and lost, none in a round it was not checked against.
THEOREM RoundMoney == RoundSpec => []RoundMoneyIsRight
  <1>1. RoundInv => RoundMoneyIsRight BY DEF RoundInv, RoundMoneyIsRight
  <1> QED BY <1>1, RoundInvariance, PTL

-----------------------------------------------------------------------------
(* Sequences without repetition. *)

\* One more at the end.
LEMMA AppendNew ==
  ASSUME NEW S, NEW s \in Seq(S), NEW x \in S, IsInjective(s), x \notin Range(s)
  PROVE  /\ Append(s, x) \in Seq(S) /\ Len(Append(s, x)) = Len(s) + 1
         /\ \A i \in 1..Len(s) : Append(s, x)[i] = s[i]
         /\ Append(s, x)[Len(s) + 1] = x
         /\ IsInjective(Append(s, x)) /\ Range(Append(s, x)) = Range(s) \cup {x}
  <1>1. /\ Append(s, x) \in Seq(S) /\ Len(Append(s, x)) = Len(s) + 1
        /\ \A i \in 1..Len(s) : Append(s, x)[i] = s[i]
        /\ Append(s, x)[Len(s) + 1] = x
    BY AppendProperties
  <1> DEFINE t == Append(s, x)
  <1>2. DOMAIN s = 1..Len(s) /\ DOMAIN t = 1..(Len(s) + 1) /\ Len(s) \in Nat BY <1>1, LenProperties
  <1> HIDE DEF t
  <1>3. Range(t) = Range(s) \cup {x} BY <1>1, <1>2 DEF Range, t
  <1>4. IsInjective(t)
    <2> SUFFICES ASSUME NEW i \in DOMAIN t, NEW j \in DOMAIN t, t[i] = t[j] PROVE i = j BY DEF IsInjective
    <2>1. \A k \in 1..Len(s) : t[k] = s[k] /\ s[k] # x BY <1>1, <1>2 DEF Range, t
    <2>2. t[Len(s) + 1] = x BY <1>1 DEF t
    <2>3. \A k, l \in 1..Len(s) : s[k] = s[l] => k = l BY <1>2 DEF IsInjective
    <2> QED BY <1>2, <2>1, <2>2, <2>3
  <1> QED BY <1>1, <1>3, <1>4 DEF t

\* Without the first.
LEMMA TailOfNew ==
  ASSUME NEW S, NEW s \in Seq(S), s # <<>>, IsInjective(s)
  PROVE  /\ Head(s) \in S /\ Head(s) \in Range(s) /\ Tail(s) \in Seq(S) /\ Len(Tail(s)) = Len(s) - 1
         /\ \A i \in 1..Len(Tail(s)) : Tail(s)[i] = s[i + 1]
         /\ IsInjective(Tail(s)) /\ Range(Tail(s)) = Range(s) \ {Head(s)}
  <1>1. /\ Head(s) \in S /\ Tail(s) \in Seq(S) /\ Len(Tail(s)) = Len(s) - 1
        /\ \A i \in 1..Len(Tail(s)) : Tail(s)[i] = s[i + 1]
        /\ Head(s) = s[1]
    BY HeadTailProperties
  <1> DEFINE t == Tail(s)
  <1>2. DOMAIN s = 1..Len(s) /\ DOMAIN t = 1..(Len(s) - 1) /\ Len(s) \in Nat /\ Len(s) > 0
    BY <1>1, LenProperties, EmptySeq
  <1>3. \A k, l \in 1..Len(s) : s[k] = s[l] => k = l BY <1>2 DEF IsInjective
  <1>4. \A i \in 1..(Len(s) - 1) : t[i] = s[i + 1] BY <1>1
  <1> HIDE DEF t
  <1>5. IsInjective(t) BY <1>2, <1>3, <1>4 DEF IsInjective
  <1>6. Range(t) = Range(s) \ {s[1]}
    <2>1. ASSUME NEW k \in 2..Len(s) PROVE s[k] \in Range(t)
      <3>1. k - 1 \in 1..(Len(s) - 1) /\ t[k - 1] = s[k] BY <1>2, <1>4
      <3> QED BY <1>2, <3>1 DEF Range
    <2>2. \A i \in 1..(Len(s) - 1) : t[i] \in Range(s) /\ t[i] # s[1] BY <1>2, <1>3, <1>4 DEF Range
    <2> QED BY <1>2, <2>1, <2>2 DEF Range
  <1>7. s[1] \in Range(s) BY <1>2 DEF Range
  <1> QED BY <1>1, <1>5, <1>6, <1>7 DEF t

\* One after the other.
LEMMA ConcatNew ==
  ASSUME NEW S, NEW s \in Seq(S), NEW t \in Seq(S), IsInjective(s), IsInjective(t), Range(s) \cap Range(t) = {}
  PROVE  /\ s \o t \in Seq(S) /\ Len(s \o t) = Len(s) + Len(t)
         /\ \A i \in 1..Len(s) : (s \o t)[i] = s[i]
         /\ \A i \in 1..Len(t) : (s \o t)[Len(s) + i] = t[i]
         /\ IsInjective(s \o t) /\ Range(s \o t) = Range(s) \cup Range(t)
  <1> DEFINE u == s \o t
  <1>1. u \in Seq(S) /\ Len(u) = Len(s) + Len(t) /\ \A i \in 1..Len(u) : u[i] = IF i <= Len(s) THEN s[i] ELSE t[i - Len(s)]
    BY ConcatProperties
  <1>2. /\ DOMAIN s = 1..Len(s) /\ DOMAIN t = 1..Len(t) /\ DOMAIN u = 1..(Len(s) + Len(t))
        /\ Len(s) \in Nat /\ Len(t) \in Nat
    BY <1>1, LenProperties
  <1> HIDE DEF u
  <1>3. \A i \in 1..Len(s) : u[i] = s[i] BY <1>1, <1>2
  <1>4. \A i \in 1..Len(t) : u[Len(s) + i] = t[i] BY <1>1, <1>2
  <1>5. \A i \in DOMAIN u : i \in 1..Len(s) \/ \E j \in 1..Len(t) : i = Len(s) + j
    <2> SUFFICES ASSUME NEW i \in DOMAIN u, ~(i <= Len(s)) PROVE \E j \in 1..Len(t) : i = Len(s) + j BY <1>2
    <2>1. i - Len(s) \in 1..Len(t) /\ i = Len(s) + (i - Len(s)) BY <1>2
    <2> QED BY <2>1
  <1>6. IsInjective(u)
    <2> SUFFICES ASSUME NEW i \in DOMAIN u, NEW j \in DOMAIN u, u[i] = u[j] PROVE i = j BY DEF IsInjective
    <2>1. \A k, l \in 1..Len(s) : s[k] = s[l] => k = l BY <1>2 DEF IsInjective
    <2>2. \A k, l \in 1..Len(t) : t[k] = t[l] => k = l BY <1>2 DEF IsInjective
    <2>3. \A k \in 1..Len(s), l \in 1..Len(t) : s[k] # t[l] BY <1>2 DEF Range
    <2> USE <1>3, <1>4, <1>5, <2>1, <2>2, <2>3
    <2>4. CASE i \in 1..Len(s)
      <3>1. ~(\E l \in 1..Len(t) : j = Len(s) + l)
        <4> SUFFICES ASSUME NEW l \in 1..Len(t), j = Len(s) + l PROVE FALSE OBVIOUS
        <4>1. s[i] = t[l] BY <2>4
        <4> QED BY <2>4, <4>1
      <3>2. j \in 1..Len(s) BY <3>1
      <3> QED BY <2>4, <3>2
    <2>5. ASSUME NEW k \in 1..Len(t), i = Len(s) + k PROVE i = j
      <3>1. j \notin 1..Len(s)
        <4> SUFFICES ASSUME j \in 1..Len(s) PROVE FALSE OBVIOUS
        <4>1. s[j] = t[k] BY <2>5
        <4> QED BY <4>1
      <3>2. PICK l \in 1..Len(t) : j = Len(s) + l BY <3>1
      <3>3. t[k] = t[l] BY <2>5, <3>2
      <3> QED BY <2>5, <3>2, <3>3
    <2> QED BY <2>4, <2>5
  <1>7. Range(u) = Range(s) \cup Range(t) BY RangeConcatenation DEF u
  <1> QED BY <1>1, <1>3, <1>4, <1>6, <1>7 DEF u

\* A finite set as a sequence.
LEMMA InSequence ==
  ASSUME NEW S, IsFiniteSet(S)
  PROVE  SetToSeq(S) \in Seq(S) /\ IsInjective(SetToSeq(S)) /\ Range(SetToSeq(S)) = S
  <1> DEFINE n == Cardinality(S)
             f == SetToSeq(S)
  <1>1. n \in Nat /\ ExistsBijection(1..n, S) BY FS_CardinalityType
  <1>2. \E g \in [1..n -> S] : IsInjective(g) BY <1>1 DEF ExistsBijection, Bijection, Injection
  <1>3. f \in [1..n -> S] /\ IsInjective(f) BY <1>2 DEF SetToSeq
  <1> HIDE DEF f
  <1>4. f \in Injection(1..n, S) BY <1>3 DEF Injection
  <1>5. IsFiniteSet(1..n) /\ Cardinality(1..n) = n BY <1>1, FS_Interval
  <1>6. f \in Surjection(1..n, S) BY <1>4, <1>5, FS_Injection
  <1>7. Range(f) = S BY <1>3, <1>6 DEF Surjection, Range
  <1>8. f \in Seq(S) BY <1>1, <1>3
  <1> QED BY <1>3, <1>7, <1>8 DEF f

-----------------------------------------------------------------------------
(* The statistics of a session. *)

Outcomes == {"win", "loss"}
Items == ({"bet"} \cup Outcomes) \X Wagers
WagerStages == {"none", "counting", "adrift", "seated", "cashing", "cashed", "lost", "missed"}

\* The mutations not yet made, in the order they will be: that in the lock comes first.
Line == IF held = <<>> THEN waiting ELSE <<held[1]>> \o waiting

StatTypes ==
  /\ wager \in [Wagers -> WagerStages] /\ marked \in [Wagers -> BOOLEAN] /\ late \in SUBSET Wagers
  /\ counts \in [bets : Nat, wins : Nat, losses : Nat, net : Int, streak : Int, best : Nat]
  /\ waiting \in Seq(Items) /\ (held # <<>> => held[1] \in Items /\ held[2] = counts)
  /\ log \in Seq(Items) /\ logging \in Seq(Items) /\ order \in Seq(Outcomes) /\ storeFails \in Nat

\* The bets of which something is to be counted, and those of which it has been.
Happened(kind) ==
  IF kind = "bet" THEN {b \in Wagers : wager[b] # "none"}
  ELSE IF kind = "win" THEN {b \in Wagers : wager[b] = "cashed"}
  ELSE {b \in Wagers : wager[b] = "lost"} \cup late
Recorded(kind) == {b \in Happened(kind) : <<kind, b>> \notin Range(Line)}

\* A mutation is in line once, after that of its bet.
LineOrder ==
  /\ IsInjective(Line)
  /\ \A i, j \in DOMAIN Line : i < j /\ Line[j][1] = "bet" => Line[i][2] # Line[j][2]

\* A bet still in line has its outcome in line too, and a demo bet is seated when it
\* has left it.
LineFits ==
  /\ \A x \in Range(Line) : x[2] \in Happened(x[1])
  /\ \A b \in Wagers, k \in Outcomes : <<"bet", b>> \in Range(Line) /\ b \in Happened(k) => <<k, b>> \in Range(Line)
  /\ \A b \in Wagers : wager[b] \in {"counting", "adrift"} => <<"bet", b>> \in Range(Line)
  /\ \A b \in DemoWagers : <<"bet", b>> \in Range(Line) => wager[b] \in {"counting", "adrift"}

\* Only an operator's bet is counted as lost while it is being cashed out.
LateInv ==
  /\ \A b \in Wagers : wager[b] = "cashing" /\ ~marked[b] => b \in OperatorWagers
  /\ \A b \in late : b \in OperatorWagers /\ wager[b] \in {"cashing", "cashed", "missed"}

\* What was recorded is counted, but for what the store refused.
CountInv ==
  /\ counts.net = 3 * counts.wins - counts.bets
  /\ counts.wins <= Cardinality(Recorded("win")) /\ counts.losses <= Cardinality(Recorded("loss"))
  /\ Cardinality(Recorded("bet")) <= counts.bets + storeFails
  /\ storeFails = 0 => /\ counts.bets = Cardinality(Recorded("bet")) /\ counts.wins = Cardinality(Recorded("win"))
                       /\ counts.losses = Cardinality(Recorded("loss"))

\* An entry is in the history or on its way to it once, and after that of its bet.
LogInv ==
  /\ Len(log) <= HistoryLimit /\ IsInjective(log) /\ IsInjective(logging) /\ Range(log) \cap Range(logging) = {}
  /\ \A i, j \in DOMAIN log : i < j /\ log[i][2] = log[j][2] => log[j][1] = "bet"
  /\ \A i, j \in DOMAIN logging : i < j /\ logging[i][2] = logging[j][2] => logging[i][1] = "bet"
  /\ \A x \in Range(log), y \in Range(logging) : x[2] = y[2] => x[1] = "bet"
  /\ \A x \in Range(log) \cup Range(logging) :
       x[2] \in DemoWagers /\ x[2] \in Happened(x[1]) /\ (x[1] # "loss" => x \notin Range(Line))

\* The number of equal outcomes up to one of them.
IsRun(s, n, i) == n \in 1..i /\ (\A k \in (i - n + 1)..i : s[k] = s[i]) /\ (n < i => s[i - n] # s[i])
StreakInv ==
  /\ order = <<>> => counts.streak = 0
  /\ order # <<>> =>
       IF order[Len(order)] = "win" THEN IsRun(order, counts.streak, Len(order))
                                    ELSE IsRun(order, -counts.streak, Len(order))
  /\ \A i \in DOMAIN order : \E n \in 1..i : IsRun(order, n, i) /\ (order[i] = "win" => n <= counts.best)

-----------------------------------------------------------------------------
\* The losses of some bets, in some order.
LEMMA LossesInLine ==
  ASSUME NEW S \in SUBSET Wagers
  PROVE  LET L == {<<"loss", b>> : b \in S}
         IN  SetToSeq(L) \in Seq(L) /\ IsInjective(SetToSeq(L)) /\ Range(SetToSeq(L)) = L
  <1> DEFINE L == {<<"loss", b>> : b \in S}
             f == [b \in S |-> <<"loss", b>>]
  <1>1. IsFiniteSet(S) BY PlayStatsAssumption, FS_Subset
  <1>2. f \in Surjection(S, L) BY DEF Surjection
  <1> HIDE DEF f
  <1>3. IsFiniteSet(L) BY <1>1, <1>2, FS_Surjection
  <1> QED BY <1>3, InSequence

\* What the line is while the lock is held.
LEMMA LineIs ==
  ASSUME StatTypes
  PROVE  /\ Line \in Seq(Items) /\ DOMAIN Line = 1..Len(Line) /\ Len(Line) \in Nat
         /\ held # <<>> => /\ Line # <<>> /\ Head(Line) = held[1] /\ Line[1] = held[1] /\ Tail(Line) = waiting
                           /\ held[1] \in Items
  <1>1. CASE held = <<>> BY <1>1, LenProperties DEF StatTypes, Line
  <1>2. CASE held # <<>>
    <2>1. held[1] \in Items /\ waiting \in Seq(Items) BY <1>2 DEF StatTypes
    <2> DEFINE s == <<held[1]>>
    <2>2. s \in Seq(Items) /\ Len(s) = 1 /\ s[1] = held[1] BY <2>1
    <2> HIDE DEF s
    <2>3. Line = s \o waiting BY <1>2 DEF Line, s
    <2>4. /\ Line \in Seq(Items) /\ Len(Line) = 1 + Len(waiting)
          /\ \A i \in 1..(1 + Len(waiting)) : Line[i] = IF i <= 1 THEN s[i] ELSE waiting[i - 1]
      <3>1. /\ s \o waiting \in Seq(Items) /\ Len(s \o waiting) = Len(s) + Len(waiting)
            /\ \A i \in 1..Len(s) + Len(waiting) : (s \o waiting)[i] = IF i <= Len(s) THEN s[i] ELSE waiting[i - Len(s)]
        BY <2>1, <2>2, ConcatProperties
      <3> QED BY <2>2, <2>3, <3>1
    <2>5. Len(waiting) \in Nat /\ DOMAIN waiting = 1..Len(waiting) BY <2>1, LenProperties
    <2>6. Line # <<>> /\ Line[1] = held[1] /\ Head(Line) = held[1] BY <2>2, <2>4, <2>5
    <2>7. /\ Tail(Line) \in Seq(Items) /\ Len(Tail(Line)) = Len(waiting)
          /\ \A i \in 1..Len(waiting) : Tail(Line)[i] = Line[i + 1]
      BY <2>4, <2>5, <2>6, HeadTailProperties
    <2>8. \A i \in 1..Len(waiting) : Line[i + 1] = waiting[i] BY <2>4, <2>5
    <2>9. Tail(Line) = waiting BY <2>1, <2>7, <2>8, SeqEqual
    <2> QED BY <2>1, <2>4, <2>6, <2>9, LenProperties
  <1> QED BY <1>1, <1>2

\* Entering the lock leaves the line as it is.
LEMMA ReadKeepsLine ==
  ASSUME StatTypes, StatsRead
  PROVE  /\ Line' = Line /\ waiting' \in Seq(Items) /\ held' # <<>> /\ held'[1] \in Items /\ held'[2] = counts
  <1>1. PICK k \in DOMAIN waiting : k = 1 /\ held' = <<waiting[k], counts>> /\ waiting' = RemoveAt(waiting, k)
    BY DEF StatsRead, InTurn
  <1>2. held = <<>> /\ waiting \in Seq(Items) BY DEF StatsRead, StatTypes
  <1>3. waiting # <<>> /\ Len(waiting) \in Nat /\ Len(waiting) > 0 /\ DOMAIN waiting = 1..Len(waiting)
    BY <1>1, <1>2, LenProperties, EmptySeq
  <1>4. waiting' = Tail(waiting)
    <2>1. SubSeq(waiting, 1, 0) = <<>> BY SubSeqEmpty
    <2>2. SubSeq(waiting, 2, Len(waiting)) = Tail(waiting) BY <1>2, <1>3, TailIsSubSeq
    <2>3. Tail(waiting) \in Seq(Items) BY <1>2, <1>3, HeadTailProperties
    <2>4. waiting' = SubSeq(waiting, 1, 0) \o SubSeq(waiting, 2, Len(waiting)) BY <1>1 DEF RemoveAt
    <2> QED BY <2>1, <2>2, <2>3, <2>4, ConcatEmptySeq
  <1> DEFINE s == <<waiting[1]>>
             t == Tail(waiting)
  <1>5. waiting[1] \in Items BY <1>2, <1>3, ElementOfSeq
  <1>6. s \in Seq(Items) /\ Len(s) = 1 /\ s[1] = waiting[1] BY <1>5
  <1>7. t \in Seq(Items) /\ Len(t) = Len(waiting) - 1 /\ \A i \in 1..Len(t) : t[i] = waiting[i + 1]
    BY <1>2, <1>3, HeadTailProperties
  <1>8. held' # <<>> /\ held'[1] = waiting[1] /\ held'[2] = counts BY <1>1
  <1>9. Line' = s \o t BY <1>4, <1>8 DEF Line
  <1> HIDE DEF s, t
  <1>10. /\ s \o t \in Seq(Items) /\ Len(s \o t) = Len(waiting)
         /\ \A i \in 1..Len(waiting) : (s \o t)[i] = IF i <= 1 THEN s[i] ELSE t[i - 1]
    <2>1. /\ s \o t \in Seq(Items) /\ Len(s \o t) = Len(s) + Len(t)
          /\ \A i \in 1..Len(s) + Len(t) : (s \o t)[i] = IF i <= Len(s) THEN s[i] ELSE t[i - Len(s)]
      <3>1. s \in Seq(Items) /\ t \in Seq(Items) BY <1>6, <1>7
      <3> QED BY <3>1, ConcatProperties
    <2>2. Len(s) + Len(t) = Len(waiting) BY <1>3, <1>6, <1>7
    <2> QED BY <1>6, <2>1, <2>2
  <1>11. \A i \in 1..Len(waiting) : (s \o t)[i] = waiting[i] BY <1>3, <1>6, <1>7, <1>10
  <1>12. s \o t = waiting BY <1>2, <1>10, <1>11, SeqEqual
  <1> QED BY <1>2, <1>4, <1>5, <1>7, <1>8, <1>9, <1>12 DEF Line, t

\* Serving the line, and joining it.
LEMMA LineServed ==
  ASSUME StatTypes, LineOrder, held # <<>>, held' = <<>>, waiting' = waiting
  PROVE  /\ LineOrder' /\ Line # <<>> /\ held[1] \in Items /\ held[1] \in Range(Line)
         /\ Range(Line)' = Range(Line) \ {held[1]}
         /\ held[1][1] # "bet" => <<"bet", held[1][2]>> \notin Range(Line)
  <1>1. Line' = Tail(Line) BY LineIs DEF Line
  <1>2. /\ Line \in Seq(Items) /\ DOMAIN Line = 1..Len(Line) /\ Len(Line) \in Nat
        /\ Line # <<>> /\ Head(Line) = held[1] /\ Line[1] = held[1] /\ held[1] \in Items
    BY LineIs
  <1>3. /\ Tail(Line) \in Seq(Items) /\ Len(Tail(Line)) = Len(Line) - 1
        /\ \A i \in 1..Len(Tail(Line)) : Tail(Line)[i] = Line[i + 1]
        /\ IsInjective(Tail(Line)) /\ Range(Tail(Line)) = Range(Line) \ {held[1]} /\ held[1] \in Range(Line)
    BY <1>2, TailOfNew DEF LineOrder
  <1> DEFINE t == Tail(Line)
  <1>4. DOMAIN t = 1..(Len(Line) - 1) /\ \A i \in 1..(Len(Line) - 1) : t[i] = Line[i + 1] BY <1>3, LenProperties
  <1> HIDE DEF t
  <1>5. \A i, j \in DOMAIN t : i < j /\ t[j][1] = "bet" => t[i][2] # t[j][2]
    <2> SUFFICES ASSUME NEW i \in DOMAIN t, NEW j \in DOMAIN t, i < j, t[j][1] = "bet" PROVE t[i][2] # t[j][2]
      OBVIOUS
    <2>1. i + 1 \in DOMAIN Line /\ j + 1 \in DOMAIN Line /\ i + 1 < j + 1 BY <1>2, <1>4
    <2>2. Line[j + 1][1] = "bet" BY <1>4
    <2>3. Line[i + 1][2] # Line[j + 1][2] BY <2>1, <2>2 DEF LineOrder
    <2> QED BY <1>4, <2>3
  <1>6. ASSUME held[1][1] # "bet" PROVE <<"bet", held[1][2]>> \notin Range(Line)
    <2> SUFFICES ASSUME NEW j \in DOMAIN Line, Line[j] = <<"bet", held[1][2]>> PROVE FALSE BY DEF Range
    <2>1. j # 1 BY <1>2, <1>6
    <2>2. 1 \in DOMAIN Line /\ 1 < j BY <1>2, <2>1
    <2>3. Line[1][2] # Line[j][2] BY <2>2 DEF LineOrder
    <2> QED BY <1>2, <2>3
  <1>7. LineOrder' BY <1>1, <1>3, <1>5 DEF LineOrder, t
  <1>8. Range(Line)' = Range(Line) \ {held[1]} BY <1>1, <1>3 DEF Range
  <1> QED BY <1>2, <1>3, <1>6, <1>7, <1>8

\* Mutations that are new to the line join it.
LEMMA LineJoined ==
  ASSUME StatTypes, LineOrder, NEW q \in Seq(Items), IsInjective(q), held' = held, waiting' = waiting \o q,
         Range(q) \cap Range(Line) = {},
         \A i, j \in DOMAIN q : i < j /\ q[j][1] = "bet" => q[i][2] # q[j][2],
         \A x \in Range(q), y \in Range(Line) : x[1] = "bet" => y[2] # x[2]
  PROVE  LineOrder' /\ Range(Line)' = Range(Line) \cup Range(q)
  <1>1. Line' = Line \o q
    <2>1. CASE held = <<>> BY <2>1 DEF Line
    <2>2. CASE held # <<>>
      <3>1. <<held[1]>> \in Seq(Items) /\ waiting \in Seq(Items) BY <2>2 DEF StatTypes
      <3>2. (<<held[1]>> \o waiting) \o q = <<held[1]>> \o (waiting \o q) BY <3>1, ConcatAssociative
      <3> QED BY <2>2, <3>2 DEF Line
    <2> QED BY <2>1, <2>2
  <1>2. Line \in Seq(Items) /\ DOMAIN Line = 1..Len(Line) /\ Len(Line) \in Nat BY LineIs
  <1> DEFINE u == Line \o q
  <1>3. /\ u \in Seq(Items) /\ Len(u) = Len(Line) + Len(q)
        /\ \A i \in 1..Len(Line) : u[i] = Line[i]
        /\ \A i \in 1..Len(q) : u[Len(Line) + i] = q[i]
        /\ IsInjective(u) /\ Range(u) = Range(Line) \cup Range(q)
    BY <1>2, ConcatNew DEF LineOrder
  <1>4. DOMAIN q = 1..Len(q) /\ Len(q) \in Nat /\ DOMAIN u = 1..(Len(Line) + Len(q)) BY <1>2, <1>3, LenProperties
  <1> HIDE DEF u
  <1>5. \A i \in DOMAIN u : i \in 1..Len(Line) \/ \E j \in 1..Len(q) : i = Len(Line) + j
    <2> SUFFICES ASSUME NEW i \in DOMAIN u, ~(i <= Len(Line)) PROVE \E j \in 1..Len(q) : i = Len(Line) + j BY <1>2, <1>4
    <2>1. i - Len(Line) \in 1..Len(q) /\ i = Len(Line) + (i - Len(Line)) BY <1>2, <1>4
    <2> QED BY <2>1
  <1>6. \A i, j \in DOMAIN u : i < j /\ u[j][1] = "bet" => u[i][2] # u[j][2]
    <2> SUFFICES ASSUME NEW i \in DOMAIN u, NEW j \in DOMAIN u, i < j, u[j][1] = "bet" PROVE u[i][2] # u[j][2]
      OBVIOUS
    <2>1. CASE j \in 1..Len(Line)
      <3>1. i \in 1..Len(Line) BY <1>2, <1>4, <2>1
      <3> QED BY <1>2, <1>3, <2>1, <3>1 DEF LineOrder
    <2>2. ASSUME NEW m \in 1..Len(q), j = Len(Line) + m PROVE u[i][2] # u[j][2]
      <3>1. u[j] = q[m] /\ q[m] \in Range(q) BY <1>3, <1>4, <2>2 DEF Range
      <3>2. CASE i \in 1..Len(Line)
        <4>1. u[i] = Line[i] /\ Line[i] \in Range(Line) BY <1>2, <1>3, <3>2 DEF Range
        <4> QED BY <3>1, <4>1
      <3>3. ASSUME NEW l \in 1..Len(q), i = Len(Line) + l PROVE u[i][2] # u[j][2]
        <4>1. l < m BY <1>2, <2>2, <3>3
        <4>2. q[l][2] # q[m][2] BY <1>4, <3>1, <4>1
        <4>3. u[i] = q[l] BY <1>3, <3>3
        <4> QED BY <3>1, <4>2, <4>3
      <3> QED BY <1>5, <3>2, <3>3
    <2> QED BY <1>5, <2>1, <2>2
  <1>7. Line' = u BY <1>1 DEF u
  <1>8. LineOrder' BY <1>3, <1>6, <1>7 DEF LineOrder
  <1>9. Range(Line)' = Range(u) BY <1>7 DEF Range
  <1> QED BY <1>3, <1>8, <1>9

\* The next mutation joins the line.
LEMMA LineAppended ==
  ASSUME StatTypes, LineOrder, NEW x \in Items, held' = held, waiting' = Append(waiting, x),
         x \notin Range(Line), x[1] = "bet" => \A y \in Range(Line) : y[2] # x[2]
  PROVE  LineOrder' /\ Range(Line)' = Range(Line) \cup {x}
  <1> DEFINE q == <<x>>
  <1>1. q \in Seq(Items) /\ DOMAIN q = {1} /\ q[1] = x OBVIOUS
  <1>2. IsInjective(q) /\ Range(q) = {x} BY <1>1 DEF IsInjective, Range
  <1>3. waiting' = waiting \o q BY AppendIsConcat DEF StatTypes
  <1> HIDE DEF q
  <1> QED BY SMTT(30), <1>1, <1>2, <1>3, LineJoined

-----------------------------------------------------------------------------
(* Types. *)

\* A bet is in one stage, a mutation in the lock has read the counts as they are.
LEMMA StatTypesStep == ASSUME StatTypes, LineOrder, StatsNext PROVE StatTypes'
  <1> USE PlayStatsAssumption DEF StatTypes
  <1>1. CASE StatsRead
    <2>1. waiting' \in Seq(Items) /\ held'[1] \in Items /\ held'[2] = counts BY <1>1, ReadKeepsLine
    <2> QED BY <1>1, <2>1 DEF StatsRead, logVars
  <1>2. CASE StatsWritten
    <2> DEFINE kind == held[1][1]
               bet == held[1][2]
    <2>1. held[1] \in Items /\ held[2] = counts BY <1>2 DEF StatsWritten
    <2>2. kind \in {"bet", "win", "loss"} /\ bet \in Wagers /\ held[1] = <<kind, bet>> BY <2>1 DEF Items, Outcomes
    <2>3. Counted(counts, kind) \in [bets : Nat, wins : Nat, losses : Nat, net : Int, streak : Int, best : Nat]
      <3> HIDE DEF kind, bet
      <3>0. /\ counts \in [bets : Nat, wins : Nat, losses : Nat, net : Int, streak : Int, best : Nat]
            /\ counts.bets \in Nat /\ counts.wins \in Nat /\ counts.losses \in Nat
            /\ counts.net \in Int /\ counts.streak \in Int /\ counts.best \in Nat
        OBVIOUS
      <3> HIDE DEF StatTypes
      <3>1. CASE kind = "bet"
        <4>1. Counted(counts, kind) = [counts EXCEPT !.bets = counts.bets + 1, !.net = counts.net - 1] BY <3>1 DEF Counted
        <4>2. counts.bets + 1 \in Nat /\ counts.net - 1 \in Int BY <3>0
        <4> QED BY <3>0, <4>1, <4>2
      <3>2. CASE kind = "loss"
        <4> DEFINE streak == IF counts.streak <= 0 THEN counts.streak - 1 ELSE -1
        <4>1. Counted(counts, kind) = [counts EXCEPT !.losses = counts.losses + 1, !.streak = streak] BY <3>2 DEF Counted
        <4>2. counts.losses + 1 \in Nat /\ streak \in Int BY <3>0
        <4> HIDE DEF streak
        <4> QED BY <3>0, <4>1, <4>2
      <3>3. CASE kind = "win"
        <4> DEFINE streak == IF counts.streak >= 0 THEN counts.streak + 1 ELSE 1
                   best == Larger(counts.best, streak)
                   won == counts.wins + 1
                   net == counts.net + 3
        <4>1. streak \in Nat /\ best \in Nat /\ won \in Nat /\ net \in Int BY <3>0 DEF Larger
        <4>2. Counted(counts, kind) = [counts EXCEPT !.wins = won, !.net = net, !.streak = streak, !.best = best]
          BY <3>3 DEF Counted
        <4> DEFINE R == [bets : Nat, wins : Nat, losses : Nat, net : Int, streak : Int, best : Nat]
                   r == [counts EXCEPT !.wins = won, !.net = net]
        <4> HIDE DEF streak, best, won, net
        <4>3. r \in R BY <3>0, <4>1
        <4>4. \A q \in R : [q EXCEPT !.streak = streak, !.best = best] \in R
          <5>1. streak \in Int /\ best \in Nat BY <4>1
          <5>2. \A q \in R : [q EXCEPT !.streak = streak] \in R BY <5>1
          <5>3. \A q \in R : [q EXCEPT !.best = best] \in R BY <5>1
          <5>4. \A q \in R : [q EXCEPT !.streak = streak, !.best = best]
                              = [[q EXCEPT !.streak = streak] EXCEPT !.best = best]
            OBVIOUS
          <5> QED BY <5>2, <5>3, <5>4
        <4>5. Counted(counts, kind) = [r EXCEPT !.streak = streak, !.best = best] BY <3>0, <4>2
        <4> QED BY <4>3, <4>4, <4>5
      <3> QED BY <2>2, <3>1, <3>2, <3>3
    <2>4. counts' \in [bets : Nat, wins : Nat, losses : Nat, net : Int, streak : Int, best : Nat]
      BY <1>2, <2>1, <2>3 DEF StatsWritten
    <2>5. Seats(bet) \in WagerStages BY <2>2 DEF Seats, WagerStages
    <2>6. wager' \in [Wagers -> WagerStages]
      <3>1. wager' = [wager EXCEPT ![bet] = Seats(bet)] BY <1>2 DEF StatsWritten
      <3> HIDE DEF bet
      <3> QED BY <2>5, <3>1
    <2>7. order' \in Seq(Outcomes)
      <3>1. order' = IF kind = "bet" THEN order ELSE Append(order, kind) BY <1>2 DEF StatsWritten
      <3>2. kind # "bet" => kind \in Outcomes BY <2>2 DEF Outcomes
      <3> HIDE DEF kind
      <3>3. order \in Seq(Outcomes) OBVIOUS
      <3>4. CASE kind = "bet" BY <3>1, <3>3, <3>4
      <3>5. CASE kind # "bet"
        <4>1. Append(order, kind) \in Seq(Outcomes) BY <3>2, <3>3, <3>5, AppendProperties
        <4> QED BY <3>1, <3>5, <4>1
      <3> QED BY <3>4, <3>5
    <2>8. logging' \in Seq(Items)
      <3>1. logging' = logging \/ logging' = Append(logging, held[1]) BY <1>2, <2>2 DEF StatsWritten
      <3>2. Append(logging, held[1]) \in Seq(Items) BY <2>1, AppendProperties
      <3> QED BY <3>1, <3>2
    <2>9. held' = <<>> /\ UNCHANGED <<marked, flight, waiting, storeFails, log, late>> BY <1>2 DEF StatsWritten
    <2> QED BY <2>4, <2>6, <2>7, <2>8, <2>9
  <1>3. CASE StatsRefused
    <2>1. held[1][2] \in Wagers BY <1>3 DEF StatsRefused, Items
    <2>2. wager' \in [Wagers -> WagerStages] BY <1>3, <2>1 DEF StatsRefused, WagerStages
    <2> QED BY SMTT(30), <1>3, <2>2 DEF StatsRefused, logVars
  <1>4. CASE HistoryAppended
    <2>1. logging # <<>> /\ logging' = Tail(logging) /\ UNCHANGED <<wager, marked, flight, lockVars, late>>
      BY <1>4 DEF HistoryAppended
    <2>2. logging' \in Seq(Items) /\ Head(logging) \in Items BY <2>1, HeadTailProperties
    <2> DEFINE s == <<Head(logging)>> \o log
               n == IF Len(log) < HistoryLimit THEN Len(log) + 1 ELSE HistoryLimit
    <2>3. s \in Seq(Items) /\ Len(s) = Len(log) + 1
      <3>1. <<Head(logging)>> \in Seq(Items) /\ Len(<<Head(logging)>>) = 1 BY <2>2
      <3> QED BY <3>1, ConcatProperties
    <2>4. n \in Nat /\ n <= Len(log) + 1 BY LenProperties
    <2>5. log' = SubSeq(s, 1, n) BY <1>4 DEF HistoryAppended
    <2> HIDE DEF s, n
    <2>6. \A i \in 1..n : s[i] \in Items BY <2>3, <2>4, LenProperties, ElementOfSeq
    <2>7. log' \in Seq(Items) BY <2>4, <2>5, <2>6, SubSeqProperties
    <2> QED BY <2>1, <2>2, <2>7 DEF lockVars
  <1>5. CASE StatsPhase BY <1>5 DEF StatsPhase, lockVars, logVars
  <1>6. CASE StatsCrash
    <2>1. LosersOfRound \subseteq Wagers BY DEF LosersOfRound
    <2>2. \A S \in SUBSET Wagers : SetToSeq({<<"loss", b>> : b \in S}) \in Seq(Items)
      <3> SUFFICES ASSUME NEW S \in SUBSET Wagers PROVE SetToSeq({<<"loss", b>> : b \in S}) \in Seq(Items) OBVIOUS
      <3>1. {<<"loss", b>> : b \in S} \subseteq Items BY DEF Items, Outcomes
      <3> QED BY <3>1, LossesInLine, SeqMonotonic
    <2>3. waiting' \in Seq(Items) /\ logging' \in Seq(Items)
      <3>1. waiting' = waiting \o SetToSeq({<<"loss", b>> : b \in LosersOfRound}) BY <1>6 DEF StatsCrash
      <3>2. logging' = logging \o SetToSeq({<<"loss", b>> : b \in LosersOfRound \cap DemoWagers}) BY <1>6 DEF StatsCrash
      <3>3. SetToSeq({<<"loss", b>> : b \in LosersOfRound}) \in Seq(Items) BY <2>1, <2>2
      <3>4. SetToSeq({<<"loss", b>> : b \in LosersOfRound \cap DemoWagers}) \in Seq(Items) BY <2>1, <2>2
      <3> QED BY <3>1, <3>2, <3>3, <3>4, ConcatProperties
    <2>4. wager' \in [Wagers -> WagerStages] /\ late' \in SUBSET Wagers
      BY <1>6, <2>1 DEF StatsCrash, WagerStages
    <2> QED BY <1>6, <2>3, <2>4 DEF StatsCrash
  <1>7. CASE StatsRoundBegins
    <2>1. wager' \in [Wagers -> WagerStages] BY <1>7 DEF StatsRoundBegins, WagerStages
    <2> QED BY <1>7, <2>1 DEF StatsRoundBegins, lockVars, logVars
  <1>8. ASSUME NEW b \in Wagers, StakeTaken(b) PROVE StatTypes'
    <2>1. <<"bet", b>> \in Items BY DEF Items
    <2>2. waiting' \in Seq(Items) BY <1>8, <2>1, AppendProperties DEF StakeTaken
    <2>3. wager' \in [Wagers -> WagerStages] BY <1>8 DEF StakeTaken, WagerStages
    <2> QED BY <1>8, <2>2, <2>3 DEF StakeTaken, logVars
  <1>9. ASSUME NEW b \in Wagers, CashoutAsked(b) PROVE StatTypes'
    <2>1. (b \notin OperatorWagers) \in BOOLEAN OBVIOUS
    <2>2. wager' \in [Wagers -> WagerStages] BY <1>9 DEF CashoutAsked, WagerStages
    <2>3. marked' \in [Wagers -> BOOLEAN] BY <1>9, <2>1 DEF CashoutAsked
    <2> QED BY <1>9, <2>2, <2>3 DEF CashoutAsked, lockVars, logVars
  <1>10. ASSUME NEW b \in Wagers, CreditLands(b) PROVE StatTypes'
    <2>1. <<"win", b>> \in Items BY DEF Items, Outcomes
    <2>2. waiting' \in Seq(Items) BY <1>10, <2>1, AppendProperties DEF CreditLands
    <2>3. wager' \in [Wagers -> WagerStages] /\ marked' \in [Wagers -> BOOLEAN] BY <1>10 DEF CreditLands, WagerStages
    <2> QED BY <1>10, <2>2, <2>3 DEF CreditLands, logVars
  <1>11. ASSUME NEW b \in Wagers, CreditMissing(b) PROVE StatTypes'
    <2>1. wager' \in [Wagers -> WagerStages] /\ marked' \in [Wagers -> BOOLEAN] BY <1>11 DEF CreditMissing, WagerStages
    <2> QED BY <1>11, <2>1 DEF CreditMissing, lockVars, logVars
  <1> QED BY <1>1, <1>2, <1>3, <1>4, <1>5, <1>6, <1>7, <1>8, <1>9, <1>10, <1>11 DEF StatsNext

-----------------------------------------------------------------------------
(* The line and what has happened. *)

Kinds == {"bet"} \cup Outcomes
Counting(b) == wager[b] \in {"counting", "adrift"}
LineInv == LineOrder /\ LineFits /\ LateInv

\* What happened stays, and what is recorded does not change.
RecordKept == \A k \in Kinds : Recorded(k)' = Recorded(k) /\ Happened(k) \subseteq Happened(k)'

\* What happens joins the line.
LEMMA GrownLine ==
  ASSUME StatTypes, LineFits, NEW N \in SUBSET Items, Range(Line) \subseteq Items, Range(Line)' = Range(Line) \cup N,
         \A k \in Kinds : Happened(k)' = Happened(k) \cup {b \in Wagers : <<k, b>> \in N},
         \A k \in Kinds, b \in Wagers : <<k, b>> \in N => b \notin Happened(k),
         \A b \in Wagers : Counting(b)' <=> Counting(b) \/ (<<"bet", b>> \in N /\ b \in DemoWagers),
         \A k \in Outcomes, b \in Wagers : <<"bet", b>> \in N => b \notin Happened(k)
  PROVE  LineFits' /\ RecordKept
  <1> DEFINE R == Range(Line)
  <1>1. \A x \in Items : x = <<x[1], x[2]>> /\ x[1] \in Kinds /\ x[2] \in Wagers BY DEF Items, Kinds
  <1>2. \A k \in Kinds : Happened(k) \subseteq Wagers BY DEF Happened, StatTypes
  <1>3. \A x \in R' : x[2] \in Happened(x[1])'
    <2> SUFFICES ASSUME NEW x \in R \cup N PROVE x[2] \in Happened(x[1])' OBVIOUS
    <2>1. x \in Items OBVIOUS
    <2>2. Happened(x[1])' = Happened(x[1]) \cup {b \in Wagers : <<x[1], b>> \in N} BY <1>1, <2>1
    <2>3. CASE x \in R
      <3>1. x[2] \in Happened(x[1]) BY <2>3 DEF LineFits
      <3> QED BY <2>2, <3>1
    <2>4. CASE x \in N BY <1>1, <2>1, <2>2, <2>4
    <2> QED BY <2>3, <2>4
  <1>4. \A b \in Wagers, k \in Outcomes : <<"bet", b>> \in R' /\ b \in Happened(k)' => <<k, b>> \in R'
    <2> SUFFICES ASSUME NEW b \in Wagers, NEW k \in Outcomes, <<"bet", b>> \in R', b \in Happened(k)' PROVE <<k, b>> \in R'
      OBVIOUS
    <2>1. k \in Kinds BY DEF Kinds
    <2>2. b \in Happened(k) \/ <<k, b>> \in N BY <2>1
    <2>3. <<"bet", b>> \in R \/ <<"bet", b>> \in N OBVIOUS
    <2>4. <<"bet", b>> \in R /\ b \in Happened(k) => <<k, b>> \in R BY DEF LineFits
    <2> QED BY <2>2, <2>3, <2>4
  <1>5. \A b \in Wagers : Counting(b)' => <<"bet", b>> \in R' BY DEF LineFits, Counting
  <1>6. \A b \in DemoWagers : <<"bet", b>> \in R' => Counting(b)'
    <2>1. DemoWagers \subseteq Wagers BY PlayStatsAssumption
    <2> QED BY <2>1 DEF LineFits, Counting
  <1>7. LineFits' BY <1>3, <1>4, <1>5, <1>6 DEF LineFits, Counting
  <1>8. ASSUME NEW k \in Kinds PROVE Recorded(k)' = Recorded(k)
    <2>1. Recorded(k)' = {b \in Happened(k)' : <<k, b>> \notin R'} BY DEF Recorded
    <2>2. Recorded(k) = {b \in Happened(k) : <<k, b>> \notin R} BY DEF Recorded
    <2>3. Happened(k)' = Happened(k) \cup {b \in Wagers : <<k, b>> \in N} OBVIOUS
    <2>4. Happened(k) \subseteq Wagers /\ \A b \in Wagers : <<k, b>> \in N => b \notin Happened(k) BY <1>2
    <2> HIDE DEF R
    <2>5. R' = R \cup N BY DEF R
    <2> QED BY <2>1, <2>2, <2>3, <2>4, <2>5
  <1>9. \A k \in Kinds : Happened(k) \subseteq Happened(k)' OBVIOUS
  <1> QED BY <1>7, <1>8, <1>9 DEF RecordKept

\* Nothing new happens, and nothing is served.
LEMMA QuietLine ==
  ASSUME StatTypes, LineOrder, LineFits, Line' = Line, \A k \in Kinds : Happened(k)' = Happened(k),
         \A b \in Wagers : Counting(b)' <=> Counting(b)
  PROVE  LineOrder' /\ LineFits' /\ Range(Line)' = Range(Line) /\ RecordKept
  <1>1. Range(Line)' = Range(Line) \cup {} BY DEF Range
  <1>2. LineOrder' BY DEF LineOrder
  <1>3. Range(Line) \subseteq Items BY LineIs, RangeOfSeq
  <1>4. {} \in SUBSET Items /\ \A k \in Kinds : Happened(k)' = Happened(k) \cup {b \in Wagers : <<k, b>> \in {}} OBVIOUS
  <1>5. \A b \in Wagers : Counting(b)' <=> Counting(b) \/ (<<"bet", b>> \in {} /\ b \in DemoWagers) OBVIOUS
  <1>6. LineFits' /\ RecordKept BY <1>1, <1>3, <1>4, <1>5, GrownLine
  <1> QED BY <1>1, <1>2, <1>6

\* The first of the line is served: what it counted, or the store refused, is recorded.
LEMMA ServedLine ==
  ASSUME StatTypes, LineOrder, LineFits, held # <<>>, held' = <<>>, waiting' = waiting,
         \A k \in Kinds : Happened(k)' = Happened(k),
         \A b \in Wagers : Counting(b)' <=> Counting(b) /\ b # held[1][2]
  PROVE  /\ LineOrder' /\ LineFits' /\ Range(Line)' = Range(Line) \ {held[1]} /\ held[1] \in Range(Line)
         /\ held[1][2] \in Happened(held[1][1]) \ Recorded(held[1][1])
         /\ \A k \in Kinds : Recorded(k)' = IF k = held[1][1] THEN Recorded(k) \cup {held[1][2]} ELSE Recorded(k)
  <1> DEFINE kind == held[1][1]
             bet == held[1][2]
             R == Range(Line)
  <1>1. /\ LineOrder' /\ held[1] \in Items /\ held[1] \in R /\ R' = R \ {held[1]}
        /\ kind # "bet" => <<"bet", bet>> \notin R
    BY LineServed
  <1>2. held[1] = <<kind, bet>> /\ kind \in Kinds /\ bet \in Wagers BY <1>1 DEF Items, Kinds
  <1>3. R \subseteq Items BY LineIs, RangeOfSeq
  <1>4. \A x \in Items : x = <<x[1], x[2]>> /\ x[1] \in Kinds /\ x[2] \in Wagers BY DEF Items, Kinds
  <1>5. bet \in Happened(kind) BY <1>1 DEF LineFits
  <1>6. \A k \in Kinds : /\ Recorded(k)' = {b \in Happened(k)' : <<k, b>> \notin R'}
                         /\ Recorded(k) = {b \in Happened(k) : <<k, b>> \notin R}
    BY DEF Recorded
  <1>7. LineFits'
    <2>1. \A x \in R' : x[2] \in Happened(x[1])' BY <1>1, <1>3, <1>4 DEF LineFits
    <2>2. \A b \in Wagers, k \in Outcomes : <<"bet", b>> \in R' /\ b \in Happened(k)' => <<k, b>> \in R'
      <3> SUFFICES ASSUME NEW b \in Wagers, NEW k \in Outcomes, <<"bet", b>> \in R', b \in Happened(k)' PROVE <<k, b>> \in R'
        OBVIOUS
      <3>1. k \in Kinds /\ k # "bet" BY DEF Kinds, Outcomes
      <3>2. <<"bet", b>> \in R /\ b \in Happened(k) BY <1>1, <3>1
      <3>3. <<k, b>> \in R BY <3>2 DEF LineFits
      <3>4. <<k, b>> # <<kind, bet>> BY <1>1, <3>1, <3>2
      <3> QED BY <1>1, <1>2, <3>3, <3>4
    <2>3. \A b \in Wagers : Counting(b)' => <<"bet", b>> \in R'
      <3> SUFFICES ASSUME NEW b \in Wagers, Counting(b), b # bet PROVE <<"bet", b>> \in R' OBVIOUS
      <3>1. <<"bet", b>> \in R BY DEF LineFits, Counting
      <3> QED BY <1>1, <1>2, <3>1
    <2>4. \A b \in DemoWagers : <<"bet", b>> \in R' => Counting(b)'
      <3> SUFFICES ASSUME NEW b \in DemoWagers, <<"bet", b>> \in R' PROVE Counting(b)' OBVIOUS
      <3>1. <<"bet", b>> \in R /\ <<"bet", b>> # held[1] BY <1>1
      <3>2. Counting(b) BY <3>1 DEF LineFits, Counting
      <3>3. b # bet BY <1>1, <1>2, <3>1
      <3>4. b \in Wagers BY PlayStatsAssumption
      <3> QED BY <3>2, <3>3, <3>4
    <2> QED BY <2>1, <2>2, <2>3, <2>4 DEF LineFits, Counting
  <1>8. ASSUME NEW k \in Kinds PROVE Recorded(k)' = IF k = kind THEN Recorded(k) \cup {bet} ELSE Recorded(k)
    <2>1. Recorded(k)' = {b \in Happened(k) : <<k, b>> \notin R \ {<<kind, bet>>}} BY <1>1, <1>2, <1>6
    <2>2. Recorded(k) = {b \in Happened(k) : <<k, b>> \notin R} BY <1>6
    <2> HIDE DEF R, kind, bet
    <2> QED BY <1>5, <2>1, <2>2
  <1>9. bet \notin Recorded(kind) BY <1>1, <1>2 DEF Recorded
  <1> QED BY <1>1, <1>5, <1>7, <1>8, <1>9

\* What serving the line changes, counted or refused.
LEMMA ServeLine ==
  ASSUME StatTypes, LineInv, StatsWritten \/ StatsRefused
  PROVE  /\ LineInv' /\ Range(Line)' = Range(Line) \ {held[1]} /\ held[1] \in Range(Line) /\ held[1] \in Items
         /\ held[1][2] \in Happened(held[1][1]) \ Recorded(held[1][1])
         /\ \A k \in Kinds : Recorded(k)' = IF k = held[1][1] THEN Recorded(k) \cup {held[1][2]} ELSE Recorded(k)
         /\ \A k \in Kinds : Happened(k)' = Happened(k)
  <1>1. held # <<>> /\ held' = <<>> /\ waiting' = waiting /\ late' = late /\ marked' = marked
    BY DEF StatsWritten, StatsRefused
  <1>2. held[1] \in Items /\ held[1][2] \in Wagers BY <1>1 DEF StatTypes, Items
  <1> DEFINE bet == held[1][2]
  <1>3. \/ wager' = [wager EXCEPT ![bet] = Seats(bet)]
        \/ wager' = [wager EXCEPT ![bet] = IF @ \in {"counting", "adrift"} THEN "missed" ELSE @]
    BY DEF StatsWritten, StatsRefused
  <1>4. /\ DOMAIN wager = Wagers /\ bet \in Wagers
        /\ Seats(bet) \in {"seated", "missed", wager[bet]}
        /\ Counting(bet) => Seats(bet) \in {"seated", "missed"}
        /\ ~Counting(bet) => Seats(bet) = wager[bet]
    BY <1>2 DEF StatTypes, Seats, Counting
  <1> HIDE DEF bet
  <1>5. /\ \A b \in Wagers \ {bet} : wager'[b] = wager[b]
        /\ IF Counting(bet) THEN wager'[bet] \in {"seated", "missed"} ELSE wager'[bet] = wager[bet]
    BY <1>3, <1>4 DEF Counting
  <1>6. \A b \in Wagers : Counting(b)' <=> Counting(b) /\ b # bet BY <1>4, <1>5 DEF Counting
  <1>7. \A b \in Wagers : wager'[b] = wager[b] \/ (Counting(b) /\ wager'[b] \in {"seated", "missed"}) BY <1>5
  <1>8. \A k \in Kinds : Happened(k)' = Happened(k) BY <1>1, <1>7 DEF Happened, Counting
  <1>9. LateInv' BY <1>1, <1>7 DEF LineInv, LateInv, StatTypes, Counting
  <1> QED BY <1>1, <1>2, <1>6, <1>8, <1>9, ServedLine DEF LineInv, bet

\* The steps before the line: what happens is not recorded yet.
LEMMA FlowLine ==
  ASSUME StatTypes, LineInv, StatsNext, ~StatsWritten, ~StatsRefused
  PROVE  LineInv' /\ RecordKept
  <1> USE PlayStatsAssumption
  <1>0. DOMAIN wager = Wagers /\ DOMAIN marked = Wagers /\ late \subseteq Wagers BY DEF StatTypes
  <1>1. CASE StatsRead
    <2>1. Line' = Line /\ UNCHANGED <<wager, marked, late>> BY <1>1, ReadKeepsLine DEF StatsRead
    <2> QED BY <2>1, QuietLine DEF LineInv, LateInv, Happened, Counting
  <1>2. CASE HistoryAppended
    <2>1. UNCHANGED <<wager, marked, late, held, waiting>> BY <1>2 DEF HistoryAppended, lockVars
    <2> QED BY <2>1, QuietLine DEF LineInv, LateInv, Happened, Counting, Line
  <1>3. CASE StatsPhase
    <2>1. UNCHANGED <<wager, marked, late, held, waiting>> BY <1>3 DEF StatsPhase, lockVars
    <2> QED BY <2>1, QuietLine DEF LineInv, LateInv, Happened, Counting, Line
  <1>4. CASE StatsRoundBegins
    <2>1. UNCHANGED <<marked, late, held, waiting>> BY <1>4 DEF StatsRoundBegins, lockVars
    <2>2. \A b \in Wagers : wager'[b] = CASE wager[b] = "seated" -> "missed" [] wager[b] = "counting" -> "adrift"
                                          [] OTHER -> wager[b]
      BY <1>4 DEF StatsRoundBegins
    <2>3. \A b \in Wagers : \/ wager'[b] = wager[b]
                            \/ wager[b] = "seated" /\ wager'[b] = "missed"
                            \/ wager[b] = "counting" /\ wager'[b] = "adrift"
      BY <2>2
    <2>4. \A k \in Kinds : Happened(k)' = Happened(k) BY <2>1, <2>3 DEF Happened
    <2>5. \A b \in Wagers : Counting(b)' <=> Counting(b) BY <2>3 DEF Counting
    <2>6. LateInv' BY <1>0, <2>1, <2>3 DEF LineInv, LateInv
    <2>7. Line' = Line BY <2>1 DEF Line
    <2> QED BY <2>4, <2>5, <2>6, <2>7, QuietLine DEF LineInv
  <1>5. ASSUME NEW b \in Wagers, CashoutAsked(b) \/ CreditMissing(b)
        PROVE  LineInv' /\ RecordKept
    <2>1. UNCHANGED <<late, held, waiting>> BY <1>5 DEF CashoutAsked, CreditMissing, lockVars
    <2>2. /\ \A c \in Wagers \ {b} : wager'[c] = wager[c] /\ marked'[c] = marked[c]
          /\ \/ wager[b] = "seated" /\ wager'[b] = "cashing" /\ (~marked'[b] => b \in OperatorWagers)
             \/ wager[b] = "cashing" /\ wager'[b] = "missed"
      BY <1>0, <1>5 DEF CashoutAsked, CreditMissing
    <2>3. \A k \in Kinds : Happened(k)' = Happened(k) BY <2>1, <2>2 DEF Happened
    <2>4. \A c \in Wagers : Counting(c)' <=> Counting(c) BY <2>2 DEF Counting
    <2>5. LateInv' BY <1>0, <2>1, <2>2 DEF LineInv, LateInv
    <2>6. Line' = Line BY <2>1 DEF Line
    <2> QED BY <2>3, <2>4, <2>5, <2>6, QuietLine DEF LineInv
  <1>6. Range(Line) \subseteq Items BY LineIs, RangeOfSeq
  <1>7. \A k \in Kinds, b \in Wagers : <<k, b>> \in Items BY DEF Kinds, Items
  <1>8. \A x \in Range(Line) : x[1] \in Kinds /\ x[2] \in Happened(x[1]) BY <1>6 DEF LineInv, LineFits, Items, Kinds
  <1>9. ASSUME NEW b \in Wagers, StakeTaken(b) PROVE LineInv' /\ RecordKept
    <2> DEFINE x == <<"bet", b>>
    <2>1. held' = held /\ waiting' = Append(waiting, x) /\ late' = late /\ marked' = marked /\ wager[b] = "none"
      BY <1>9 DEF StakeTaken
    <2>2. /\ \A c \in Wagers \ {b} : wager'[c] = wager[c]
          /\ wager'[b] = IF b \in DemoWagers THEN "counting" ELSE "seated"
      BY <1>0, <1>9 DEF StakeTaken
    <2>3. b \notin late BY <2>1 DEF LineInv, LateInv
    <2>4. \A k \in Kinds : b \notin Happened(k) BY <2>1, <2>3 DEF Happened
    <2>5. \A y \in Range(Line) : y[2] # b BY <1>8, <2>4
    <2>6. x \in Items /\ x[1] = "bet" /\ x[2] = b BY DEF Items
    <2>7. LineOrder' /\ Range(Line)' = Range(Line) \cup {x} BY <2>1, <2>5, <2>6, LineAppended DEF LineInv
    <2>8. /\ Happened("bet")' = Happened("bet") \cup {b}
          /\ \A k \in Outcomes : Happened(k)' = Happened(k)
      BY <2>1, <2>2, <2>3 DEF Happened, Outcomes
    <2>9. \A k \in Kinds : Happened(k)' = Happened(k) \cup {c \in Wagers : <<k, c>> \in {x}}
      BY <2>8 DEF Kinds, Outcomes
    <2>10. \A c \in Wagers : Counting(c)' <=> Counting(c) \/ (<<"bet", c>> \in {x} /\ c \in DemoWagers)
      BY <2>1, <2>2 DEF Counting
    <2>11. LateInv' BY <1>0, <2>1, <2>2, <2>3 DEF LineInv, LateInv
    <2>12. {x} \in SUBSET Items BY <2>6
    <2>13. \A k \in Kinds, c \in Wagers : <<k, c>> \in {x} => c \notin Happened(k) BY <2>4
    <2>14. \A k \in Outcomes, c \in Wagers : <<"bet", c>> \in {x} => c \notin Happened(k) BY <2>4 DEF Kinds
    <2> HIDE DEF x
    <2>15. LineFits' /\ RecordKept
      BY <1>6, <2>7, <2>9, <2>10, <2>12, <2>13, <2>14, GrownLine DEF LineInv
    <2> QED BY <2>7, <2>11, <2>15 DEF LineInv
  <1>10. ASSUME NEW b \in Wagers, CreditLands(b) PROVE LineInv' /\ RecordKept
    <2> DEFINE x == <<"win", b>>
    <2>1. held' = held /\ waiting' = Append(waiting, x) /\ late' = late /\ wager[b] = "cashing"
      BY <1>10 DEF CreditLands
    <2>2. /\ \A c \in Wagers \ {b} : wager'[c] = wager[c] /\ marked'[c] = marked[c]
          /\ wager'[b] = "cashed"
      BY <1>0, <1>10 DEF CreditLands
    <2>3. b \notin Happened("win") BY <2>1 DEF Happened
    <2>4. x \notin Range(Line) BY <1>8, <2>3
    <2>5. x \in Items /\ x[1] # "bet" BY DEF Items, Outcomes
    <2>6. LineOrder' /\ Range(Line)' = Range(Line) \cup {x} BY <2>1, <2>4, <2>5, LineAppended DEF LineInv
    <2>7. /\ Happened("win")' = Happened("win") \cup {b}
          /\ Happened("bet")' = Happened("bet") /\ Happened("loss")' = Happened("loss")
      BY <2>1, <2>2 DEF Happened
    <2>8. \A k \in Kinds : Happened(k)' = Happened(k) \cup {c \in Wagers : <<k, c>> \in {x}}
      BY <2>7 DEF Kinds, Outcomes
    <2>9. \A c \in Wagers : Counting(c)' <=> Counting(c) \/ (<<"bet", c>> \in {x} /\ c \in DemoWagers)
      BY <2>1, <2>2 DEF Counting
    <2>10. LateInv' BY <1>0, <2>1, <2>2 DEF LineInv, LateInv
    <2>11. {x} \in SUBSET Items BY <2>5
    <2>12. \A k \in Kinds, c \in Wagers : <<k, c>> \in {x} => c \notin Happened(k) BY <2>3
    <2>13. \A k \in Outcomes, c \in Wagers : <<"bet", c>> \in {x} => c \notin Happened(k) OBVIOUS
    <2> HIDE DEF x
    <2>14. LineFits' /\ RecordKept
      BY <1>6, <2>6, <2>8, <2>9, <2>11, <2>12, <2>13, GrownLine DEF LineInv
    <2> QED BY <2>6, <2>10, <2>14 DEF LineInv
  <1>11. CASE StatsCrash
    <2> DEFINE L == LosersOfRound
               N == {<<"loss", b>> : b \in L}
               q == SetToSeq(N)
    <2>1. /\ held' = held /\ waiting' = waiting \o q /\ marked' = marked
          /\ late' = late \cup {b \in L : wager[b] = "cashing"}
          /\ wager' = [b \in Wagers |-> IF b \in L /\ wager[b] = "seated" THEN "lost" ELSE wager[b]]
      BY <1>11 DEF StatsCrash
    <2>2. L \subseteq Wagers /\ \A b \in L : b \notin late /\ wager[b] \in {"seated", "cashing"} /\ ~marked[b]
      BY DEF LosersOfRound
    <2>3. q \in Seq(N) /\ IsInjective(q) /\ Range(q) = N BY <2>2, LossesInLine
    <2>4. \A b \in L : b \notin Happened("loss") BY <2>2 DEF Happened
    <2>5. \A b \in Wagers : <<"loss", b>> \in N <=> b \in L OBVIOUS
    <2>6. \A x \in N : x[1] = "loss" /\ x[2] \in L /\ x \in Items BY <2>2 DEF Items, Outcomes
    <2>7. N \cap Range(Line) = {} BY <1>8, <2>4, <2>6
    <2> HIDE DEF L, N, q
    <2>8. q \in Seq(Items) BY <2>3, <2>6, SeqMonotonic
    <2>9. \A i \in DOMAIN q : q[i][1] = "loss"
      <3>1. \A i \in DOMAIN q : q[i] \in Range(q) BY DEF Range
      <3> QED BY <2>3, <2>6, <3>1
    <2>10. LineOrder' /\ Range(Line)' = Range(Line) \cup N
      <3>1. \A i, j \in DOMAIN q : i < j /\ q[j][1] = "bet" => q[i][2] # q[j][2] BY <2>9
      <3>2. \A x \in Range(q), y \in Range(Line) : x[1] = "bet" => y[2] # x[2] BY <2>3, <2>6
      <3>3. held' = held /\ waiting' = waiting \o q BY <2>1
      <3> QED BY <2>3, <2>7, <2>8, <3>1, <3>2, <3>3, LineJoined DEF LineInv
    <2>11. \A b \in Wagers : wager'[b] = IF b \in L /\ wager[b] = "seated" THEN "lost" ELSE wager[b] BY <2>1
    <2>12. /\ Happened("loss")' = Happened("loss") \cup L
           /\ Happened("bet")' = Happened("bet") /\ Happened("win")' = Happened("win")
      <3>1. Happened("loss")' = {b \in Wagers : wager'[b] = "lost"} \cup late' BY DEF Happened
      <3>2. Happened("loss") = {b \in Wagers : wager[b] = "lost"} \cup late BY DEF Happened
      <3>3. {b \in Wagers : wager'[b] = "lost"} = {b \in Wagers : wager[b] = "lost"} \cup {b \in L : wager[b] = "seated"}
        BY <2>2, <2>11
      <3>4. L = {b \in L : wager[b] = "seated"} \cup {b \in L : wager[b] = "cashing"} BY <2>2
      <3>5. Happened("loss")' = Happened("loss") \cup L BY <2>1, <3>1, <3>2, <3>3, <3>4
      <3>6. Happened("bet")' = Happened("bet") BY <2>11 DEF Happened
      <3>7. Happened("win")' = Happened("win") BY <2>11 DEF Happened
      <3> QED BY <3>5, <3>6, <3>7
    <2>13. \A k \in Kinds : Happened(k)' = Happened(k) \cup {c \in Wagers : <<k, c>> \in N}
      <3>1. {c \in Wagers : <<"loss", c>> \in N} = L BY <2>2, <2>5
      <3>2. \A c \in Wagers : <<"bet", c>> \notin N /\ <<"win", c>> \notin N BY <2>6
      <3>3. {c \in Wagers : <<"bet", c>> \in N} = {} /\ {c \in Wagers : <<"win", c>> \in N} = {} BY <3>2
      <3> QED BY <2>12, <3>1, <3>3 DEF Kinds, Outcomes
    <2>14. \A c \in Wagers : <<"bet", c>> \notin N BY <2>6
    <2>15. \A c \in Wagers : Counting(c)' <=> Counting(c) \/ (<<"bet", c>> \in N /\ c \in DemoWagers)
      BY <2>2, <2>11, <2>14 DEF Counting
    <2>16. LateInv'
      <3>1. \A b \in L : wager[b] = "cashing" => b \in OperatorWagers BY <2>2 DEF LineInv, LateInv
      <3>2. \A b \in late' : b \in Wagers /\ b \in OperatorWagers /\ wager[b] \in {"cashing", "cashed", "missed"}
        BY <1>0, <2>1, <2>2, <3>1 DEF LineInv, LateInv
      <3>3. \A b \in late' : wager'[b] = wager[b] BY <2>11, <3>2
      <3>4. \A b \in Wagers : wager'[b] = "cashing" => wager[b] = "cashing" BY <2>11
      <3> QED BY <2>1, <3>2, <3>3, <3>4 DEF LineInv, LateInv
    <2>17. N \in SUBSET Items BY <2>6
    <2>18. \A k \in Kinds, c \in Wagers : <<k, c>> \in N => c \notin Happened(k) BY <2>4, <2>6
    <2>19. \A k \in Outcomes, c \in Wagers : <<"bet", c>> \in N => c \notin Happened(k) BY <2>14
    <2>20. LineFits' /\ RecordKept
      BY <1>6, <2>10, <2>13, <2>15, <2>17, <2>18, <2>19, GrownLine DEF LineInv
    <2> QED BY <2>10, <2>16, <2>20 DEF LineInv
  <1> QED BY <1>1, <1>2, <1>3, <1>4, <1>5, <1>9, <1>10, <1>11 DEF StatsNext

-----------------------------------------------------------------------------
(* The counts. *)

\* Records can be counted.
LEMMA RecordsAreFinite ==
  ASSUME StatTypes, NEW k
  PROVE  Recorded(k) \subseteq Wagers /\ IsFiniteSet(Recorded(k)) /\ Cardinality(Recorded(k)) \in Nat
  <1>1. Recorded(k) \subseteq Wagers BY DEF Recorded, Happened, StatTypes
  <1> QED BY <1>1, PlayStatsAssumption, FS_Subset, FS_CardinalityType

\* Each mutation served counts what it records, or uses up a failure of the store.
LEMMA CountStep == ASSUME StatTypes, LineInv, CountInv, StatsNext PROVE CountInv'
  <1>1. "bet" \in Kinds /\ "win" \in Kinds /\ "loss" \in Kinds BY DEF Kinds, Outcomes
  <1> DEFINE N(k) == Cardinality(Recorded(k))
  <1>2. \A k \in Kinds : N(k) \in Nat BY RecordsAreFinite
  <1>3. /\ counts.bets \in Nat /\ counts.wins \in Nat /\ counts.losses \in Nat /\ counts.net \in Int
        /\ counts \in [bets : Nat, wins : Nat, losses : Nat, net : Int, streak : Int, best : Nat] /\ storeFails \in Nat
    BY DEF StatTypes
  <1>4. /\ counts.net = 3 * counts.wins - counts.bets
        /\ counts.wins <= N("win") /\ counts.losses <= N("loss") /\ N("bet") <= counts.bets + storeFails
        /\ storeFails = 0 => counts.bets = N("bet") /\ counts.wins = N("win") /\ counts.losses = N("loss")
    BY DEF CountInv
  <1>5. SUFFICES /\ counts'.net = 3 * counts'.wins - counts'.bets
                 /\ counts'.wins <= N("win")' /\ counts'.losses <= N("loss")' /\ N("bet")' <= counts'.bets + storeFails'
                 /\ storeFails' = 0 =>
                      counts'.bets = N("bet")' /\ counts'.wins = N("win")' /\ counts'.losses = N("loss")'
    BY DEF CountInv
  <1>6. CASE ~StatsWritten /\ ~StatsRefused
    <2>1. UNCHANGED <<counts, storeFails>>
      BY <1>6 DEF StatsNext, StatsRead, HistoryAppended, StatsPhase, StatsCrash, StatsRoundBegins, StakeTaken,
                  CashoutAsked, CreditLands, CreditMissing, lockVars
    <2>2. \A k \in Kinds : Recorded(k)' = Recorded(k) BY <1>6, FlowLine DEF RecordKept
    <2>3. N("bet")' = N("bet") /\ N("win")' = N("win") /\ N("loss")' = N("loss") BY <1>1, <2>2
    <2> HIDE DEF N
    <2> QED BY <1>4, <2>1, <2>3
  <1> DEFINE kind == held[1][1]
             bet == held[1][2]
  <1>7. ASSUME StatsWritten \/ StatsRefused
        PROVE  /\ kind \in Kinds
               /\ \A k \in Kinds : N(k)' = IF k = kind THEN N(k) + 1 ELSE N(k)
    <2>1. /\ held[1] \in Items /\ bet \notin Recorded(kind)
          /\ \A k \in Kinds : Recorded(k)' = IF k = kind THEN Recorded(k) \cup {bet} ELSE Recorded(k)
      BY <1>7, ServeLine
    <2>2. kind \in Kinds BY <2>1 DEF Items, Kinds
    <2>3. Cardinality(Recorded(kind) \cup {bet}) = N(kind) + 1
      BY <2>1, RecordsAreFinite, FS_AddElement
    <2> HIDE DEF kind, bet
    <2> QED BY <2>1, <2>2, <2>3
  <1>8. CASE StatsWritten
    <2>1. counts' = Counted(counts, kind) /\ storeFails' = storeFails BY <1>8 DEF StatsWritten, StatTypes
    <2>2. kind \in Kinds /\ \A k \in Kinds : N(k)' = IF k = kind THEN N(k) + 1 ELSE N(k) BY <1>7, <1>8
    <2> HIDE DEF kind, bet, N
    <2>3. CASE kind = "bet"
      <3>1. counts' = [counts EXCEPT !.bets = counts.bets + 1, !.net = counts.net - 1] BY <2>1, <2>3 DEF Counted
      <3>2. /\ counts'.bets = counts.bets + 1 /\ counts'.net = counts.net - 1
            /\ counts'.wins = counts.wins /\ counts'.losses = counts.losses
        BY <1>3, <3>1
      <3>3. N("bet")' = N("bet") + 1 /\ N("win")' = N("win") /\ N("loss")' = N("loss") BY <1>1, <2>2, <2>3
      <3> QED BY <1>1, <1>2, <1>3, <1>4, <2>1, <3>2, <3>3
    <2>4. CASE kind = "win"
      <3>1. PICK st, be :
              counts' = [counts EXCEPT !.wins = counts.wins + 1, !.net = counts.net + 3, !.streak = st, !.best = be]
        BY <2>1, <2>4 DEF Counted
      <3>2. /\ counts'.wins = counts.wins + 1 /\ counts'.net = counts.net + 3
            /\ counts'.bets = counts.bets /\ counts'.losses = counts.losses
        BY <1>3, <3>1
      <3>3. N("win")' = N("win") + 1 /\ N("bet")' = N("bet") /\ N("loss")' = N("loss") BY <1>1, <2>2, <2>4
      <3> QED BY <1>1, <1>2, <1>3, <1>4, <2>1, <3>2, <3>3
    <2>5. CASE kind = "loss"
      <3>1. PICK st : counts' = [counts EXCEPT !.losses = counts.losses + 1, !.streak = st] BY <2>1, <2>5 DEF Counted
      <3>2. /\ counts'.losses = counts.losses + 1 /\ counts'.net = counts.net
            /\ counts'.bets = counts.bets /\ counts'.wins = counts.wins
        BY <1>3, <3>1
      <3>3. N("loss")' = N("loss") + 1 /\ N("bet")' = N("bet") /\ N("win")' = N("win") BY <1>1, <2>2, <2>5
      <3> QED BY <1>1, <1>2, <1>3, <1>4, <2>1, <3>2, <3>3
    <2> QED BY <2>2, <2>3, <2>4, <2>5 DEF Kinds, Outcomes
  <1>9. CASE StatsRefused
    <2>1. counts' = counts /\ storeFails' = storeFails + 1 BY <1>9 DEF StatsRefused
    <2>2. kind \in Kinds /\ \A k \in Kinds : N(k)' = IF k = kind THEN N(k) + 1 ELSE N(k) BY <1>7, <1>9
    <2> HIDE DEF kind, bet, N
    <2>3. /\ N("bet")' <= N("bet") + 1 /\ N("win") <= N("win")' /\ N("loss") <= N("loss")'
          /\ N("bet")' \in Nat /\ N("win")' \in Nat /\ N("loss")' \in Nat
      BY <1>1, <1>2, <2>2
    <2> QED BY <1>1, <1>2, <1>3, <1>4, <2>1, <2>3
  <1> QED BY <1>6, <1>8, <1>9

\* The lines of the property.
LEMMA CountsAreTrue == ASSUME StatTypes, LineInv, CountInv PROVE EveryOutcomeCounts
  <1> DEFINE RB == Recorded("bet")
             RW == Recorded("win")
             RL == Recorded("loss")
  <1>1. /\ IsFiniteSet(RB) /\ IsFiniteSet(RW) /\ IsFiniteSet(RL) /\ IsFiniteSet(late)
        /\ Cardinality(RB) \in Nat /\ Cardinality(RW) \in Nat /\ Cardinality(RL) \in Nat /\ Cardinality(late) \in Nat
    <2>1. late \subseteq Wagers BY DEF StatTypes
    <2> QED BY <2>1, RecordsAreFinite, PlayStatsAssumption, FS_Subset, FS_CardinalityType
  <1>2. RW \cap RL \subseteq late BY DEF Recorded, Happened
  <1>3. RW \cup RL \subseteq RB
    <2> SUFFICES ASSUME NEW k \in Outcomes, NEW b \in Recorded(k) PROVE b \in RB BY DEF Outcomes
    <2>1. b \in Wagers /\ b \in Happened(k) /\ <<k, b>> \notin Range(Line) BY RecordsAreFinite DEF Recorded
    <2>2. <<"bet", b>> \notin Range(Line) BY <2>1 DEF LineInv, LineFits
    <2>3. wager[b] # "none" BY <2>1 DEF Happened, LineInv, LateInv, Outcomes
    <2> QED BY <2>1, <2>2, <2>3 DEF Recorded, Happened
  <1>4. counts.wins + counts.losses <= counts.bets + Cardinality(late) + storeFails
    <2>1. /\ counts.wins <= Cardinality(RW) /\ counts.losses <= Cardinality(RL)
          /\ Cardinality(RB) <= counts.bets + storeFails
          /\ counts.wins \in Nat /\ counts.losses \in Nat /\ counts.bets \in Nat /\ storeFails \in Nat
      BY DEF CountInv, StatTypes
    <2> HIDE DEF RB, RW, RL
    <2>2. Cardinality(RW \cup RL) = Cardinality(RW) + Cardinality(RL) - Cardinality(RW \cap RL) BY <1>1, FS_Union
    <2>3. Cardinality(RW \cup RL) <= Cardinality(RB) BY <1>1, <1>3, FS_Subset
    <2>4. Cardinality(RW \cap RL) <= Cardinality(late) BY <1>1, <1>2, FS_Subset
    <2>5. Cardinality(RW \cup RL) \in Nat /\ Cardinality(RW \cap RL) \in Nat
      BY <1>1, <1>2, <1>3, FS_Subset, FS_CardinalityType
    <2> QED BY <1>1, <2>1, <2>2, <2>3, <2>4, <2>5
  <1>5. ASSUME NothingWaits, storeFails = 0
        PROVE  /\ counts.bets = WagersAt({"seated", "cashing", "cashed", "missed", "lost"})
               /\ counts.wins = WagersAt({"cashed"})
               /\ counts.losses = WagersAt({"lost"}) + Cardinality(late)
    <2>1. Range(Line) = {} BY <1>5 DEF NothingWaits, Line, Range
    <2>2. \A k \in Kinds : Recorded(k) = Happened(k) BY <2>1 DEF Recorded
    <2>3. \A b \in Wagers : ~Counting(b) BY <2>1 DEF LineInv, LineFits, Counting
    <2>4. Happened("bet") = {b \in Wagers : wager[b] \in {"seated", "cashing", "cashed", "missed", "lost"}}
      BY <2>3 DEF Happened, Counting, StatTypes, WagerStages
    <2>5. Happened("win") = {b \in Wagers : wager[b] \in {"cashed"}} BY DEF Happened
    <2> DEFINE losers == {b \in Wagers : wager[b] \in {"lost"}}
    <2>6. Happened("loss") = losers \cup late BY DEF Happened
    <2>7. losers \cap late = {} BY DEF LineInv, LateInv
    <2>8. IsFiniteSet(losers) BY PlayStatsAssumption, FS_Subset
    <2>9. Cardinality(losers \cup late) = Cardinality(losers) + Cardinality(late)
      <3>1. Cardinality(losers \cup late) = Cardinality(losers) + Cardinality(late) - Cardinality(losers \cap late)
        BY <1>1, <2>8, FS_Union
      <3>2. Cardinality(losers \cap late) = 0 BY <2>7, FS_EmptySet
      <3> HIDE DEF losers
      <3> QED BY <1>1, <2>8, <3>1, <3>2, FS_CardinalityType
    <2>10. /\ counts.bets = Cardinality(Happened("bet")) /\ counts.wins = Cardinality(Happened("win"))
           /\ counts.losses = Cardinality(Happened("loss"))
      BY <1>5, <2>2 DEF CountInv, Kinds, Outcomes
    <2> QED BY <2>4, <2>5, <2>6, <2>9, <2>10 DEF WagersAt
  <1> QED BY <1>4, <1>5 DEF EveryOutcomeCounts, CountInv

-----------------------------------------------------------------------------
(* Streaks. *)

\* One more outcome continues the run at the end, or begins one.
LEMMA OutcomeCounted ==
  ASSUME NEW s \in Seq(Outcomes), NEW kind \in Outcomes, NEW t, t = Append(s, kind)
  PROVE  /\ t # <<>> /\ Len(t) = Len(s) + 1 /\ t[Len(s) + 1] = kind
         /\ \A i \in 1..Len(s) : t[i] = s[i]
         /\ \A i \in 1..Len(s), n \in Nat : IsRun(t, n, i) <=> IsRun(s, n, i)
         /\ \A n \in 1..Len(s) : s[Len(s)] = kind /\ IsRun(s, n, Len(s)) => IsRun(t, n + 1, Len(s) + 1)
         /\ s # <<>> /\ s[Len(s)] # kind => IsRun(t, 1, Len(s) + 1)
         /\ s = <<>> => IsRun(t, 1, Len(s) + 1)
  <1> DEFINE m == Len(s)
  <1>1. /\ Len(t) = m + 1 /\ t[m + 1] = kind /\ m \in Nat
        /\ \A i \in 1..m : t[i] = s[i]
    BY AppendProperties, LenProperties
  <1>2. t # <<>> BY <1>1, EmptySeq
  <1> HIDE DEF m
  <1>3. \A i \in 1..m, n \in Nat : IsRun(t, n, i) <=> IsRun(s, n, i)
    <2> SUFFICES ASSUME NEW i \in 1..m, NEW n \in Nat, n \in 1..i PROVE IsRun(t, n, i) <=> IsRun(s, n, i) BY DEF IsRun
    <2>1. t[i] = s[i] /\ \A k \in (i - n + 1)..i : t[k] = s[k] BY <1>1
    <2>2. n < i => t[i - n] = s[i - n] BY <1>1
    <2> QED BY <2>1, <2>2 DEF IsRun
  <1>4. ASSUME NEW n \in 1..m, s[m] = kind, IsRun(s, n, m) PROVE IsRun(t, n + 1, m + 1)
    <2>1. n + 1 \in 1..(m + 1) BY <1>1
    <2>2. \A k \in ((m + 1) - (n + 1) + 1)..(m + 1) : t[k] = t[m + 1]
      <3> SUFFICES ASSUME NEW k \in ((m + 1) - (n + 1) + 1)..(m + 1) PROVE t[k] = kind BY <1>1
      <3>1. CASE k = m + 1 BY <1>1, <3>1
      <3>2. CASE k # m + 1
        <4>1. k \in (m - n + 1)..m /\ k \in 1..m BY <1>1, <3>2
        <4> QED BY <1>1, <1>4, <4>1 DEF IsRun
      <3> QED BY <3>1, <3>2
    <2>3. n + 1 < m + 1 => t[(m + 1) - (n + 1)] # t[m + 1]
      <3> SUFFICES ASSUME n < m PROVE t[(m + 1) - (n + 1)] # kind BY <1>1
      <3>1. (m + 1) - (n + 1) = m - n /\ m - n \in 1..m BY <1>1
      <3> QED BY <1>1, <1>4, <3>1 DEF IsRun
    <2> QED BY <2>1, <2>2, <2>3 DEF IsRun
  <1>5. ASSUME m = 0 \/ s[m] # kind PROVE IsRun(t, 1, m + 1)
    <2>1. 1 \in 1..(m + 1) BY <1>1
    <2>2. \A k \in ((m + 1) - 1 + 1)..(m + 1) : t[k] = t[m + 1] BY <1>1
    <2>3. 1 < m + 1 => t[(m + 1) - 1] # t[m + 1] BY <1>1, <1>5
    <2> QED BY <2>1, <2>2, <2>3 DEF IsRun
  <1>6. s = <<>> => m = 0 BY EmptySeq DEF m
  <1> QED BY <1>1, <1>2, <1>3, <1>4, <1>5, <1>6 DEF m

\* Wins and losses counted keep the streaks; bets leave them alone.
LEMMA StreakStep == ASSUME StatTypes, StreakInv, StatsNext PROVE StreakInv'
  <1>1. CASE ~StatsWritten
    <2>1. UNCHANGED <<counts, order>>
      BY <1>1 DEF StatsNext, StatsRead, StatsRefused, HistoryAppended, StatsPhase, StatsCrash, StatsRoundBegins,
                  StakeTaken, CashoutAsked, CreditLands, CreditMissing, lockVars
    <2> QED BY <2>1 DEF StreakInv, IsRun
  <1>2. CASE StatsWritten
    <2> DEFINE kind == held[1][1]
               m == Len(order)
    <2>1. /\ counts' = Counted(counts, kind) /\ order' = (IF kind = "bet" THEN order ELSE Append(order, kind))
          /\ kind \in {"bet", "win", "loss"} /\ order \in Seq(Outcomes)
      BY <1>2 DEF StatsWritten, StatTypes, Items, Outcomes
    <2>2. /\ counts \in [bets : Nat, wins : Nat, losses : Nat, net : Int, streak : Int, best : Nat]
          /\ counts.streak \in Int /\ counts.best \in Nat
      BY DEF StatTypes
    <2> HIDE DEF kind
    <2>3. CASE kind = "bet"
      <3>1. counts' = [counts EXCEPT !.bets = counts.bets + 1, !.net = counts.net - 1] /\ order' = order
        BY <2>1, <2>3 DEF Counted
      <3>2. counts'.streak = counts.streak /\ counts'.best = counts.best BY <2>2, <3>1
      <3> QED BY <3>1, <3>2 DEF StreakInv, IsRun
    <2>4. ASSUME kind \in Outcomes
          PROVE  /\ order' # <<>> /\ Len(order') = m + 1 /\ order'[m + 1] = kind /\ m \in Nat
                 /\ \A i \in 1..m : order'[i] = order[i]
                 /\ \A i \in 1..m, n \in Nat : IsRun(order', n, i) <=> IsRun(order, n, i)
                 /\ \A n \in 1..m : order[m] = kind /\ IsRun(order, n, m) => IsRun(order', n + 1, m + 1)
                 /\ order # <<>> /\ order[m] # kind => IsRun(order', 1, m + 1)
                 /\ order = <<>> => IsRun(order', 1, m + 1)
                 /\ DOMAIN order = 1..m /\ DOMAIN order' = 1..(m + 1)
      <3>1. order' = Append(order, kind) /\ order' \in Seq(Outcomes) BY <2>1, <2>4, AppendProperties DEF Outcomes
      <3>2. order \in Seq(Outcomes) /\ m \in Nat /\ DOMAIN order = 1..m /\ DOMAIN order' = 1..Len(order')
        BY <2>1, <3>1, LenProperties
      <3> DEFINE t == order'
      <3>3. t = Append(order, kind) BY <3>1
      <3> HIDE DEF t
      <3>4. /\ t # <<>> /\ Len(t) = m + 1 /\ t[m + 1] = kind BY <2>4, <3>2, <3>3, OutcomeCounted
      <3>5. \A i \in 1..m : t[i] = order[i] BY <2>4, <3>2, <3>3, OutcomeCounted
      <3>6. \A i \in 1..m, n \in Nat : IsRun(t, n, i) <=> IsRun(order, n, i) BY <2>4, <3>2, <3>3, OutcomeCounted
      <3>7. \A n \in 1..m : order[m] = kind /\ IsRun(order, n, m) => IsRun(t, n + 1, m + 1)
        BY <2>4, <3>2, <3>3, OutcomeCounted
      <3>8. order # <<>> /\ order[m] # kind => IsRun(t, 1, m + 1) BY <2>4, <3>2, <3>3, OutcomeCounted
      <3>9. order = <<>> => IsRun(t, 1, m + 1) BY <2>4, <3>2, <3>3, OutcomeCounted
      <3> QED BY <3>2, <3>4, <3>5, <3>6, <3>7, <3>8, <3>9 DEF t
    <2>5. /\ order = <<>> => counts.streak = 0
          /\ order # <<>> /\ order[m] = "win" => IsRun(order, counts.streak, m)
          /\ order # <<>> /\ order[m] # "win" => IsRun(order, -counts.streak, m)
          /\ \A i \in DOMAIN order : \E n \in 1..i : IsRun(order, n, i) /\ (order[i] = "win" => n <= counts.best)
      BY DEF StreakInv
    <2>6. order # <<>> => order[m] \in Outcomes /\ m \in Nat /\ m > 0 /\ m \in 1..m
      BY <2>1, ElementOfSeq, LenProperties, EmptySeq
    <2>7. \A n, i : IsRun(order, n, i) => n \in 1..i BY DEF IsRun
    <2> HIDE DEF m
    <2>8. ASSUME kind \in Outcomes, NEW n \in 1..(m + 1), IsRun(order', n, m + 1), kind = "win" => n <= counts'.best,
                 counts'.best >= counts.best, counts'.best \in Nat,
                 kind = "win" => counts'.streak = n, kind = "loss" => counts'.streak = -n
          PROVE  StreakInv'
      <3>1. ASSUME NEW i \in 1..(m + 1) PROVE \E l \in 1..i : IsRun(order', l, i) /\ (order'[i] = "win" => l <= counts'.best)
        <4>1. CASE i = m + 1 BY <2>4, <2>8, <4>1
        <4>2. CASE i # m + 1
          <5>1. i \in 1..m BY <2>4, <2>8, <4>2
          <5>2. PICK l \in 1..i : IsRun(order, l, i) /\ (order[i] = "win" => l <= counts.best) BY <2>4, <2>5, <2>8, <5>1
          <5>3. IsRun(order', l, i) /\ order'[i] = order[i] BY <2>4, <2>8, <5>1, <5>2
          <5> QED BY <2>2, <2>8, <5>2, <5>3
        <4> QED BY <4>1, <4>2
      <3>2. -counts'.streak = n \/ kind = "win" BY <2>8 DEF Outcomes
      <3> QED BY <2>4, <2>8, <3>1, <3>2 DEF StreakInv
    <2>9. CASE kind = "win"
      <3> DEFINE n == IF counts.streak >= 0 THEN counts.streak + 1 ELSE 1
                 best == Larger(counts.best, n)
      <3>1. counts' = [counts EXCEPT !.wins = counts.wins + 1, !.net = counts.net + 3, !.streak = n, !.best = best]
        BY <2>1, <2>9 DEF Counted
      <3>2. counts'.streak = n /\ counts'.best = best BY <2>2, <3>1
      <3>3. best >= counts.best /\ best >= n /\ best \in Nat BY <2>2 DEF Larger
      <3>4. kind \in Outcomes BY <2>9 DEF Outcomes
      <3>5. n \in 1..(m + 1) /\ IsRun(order', n, m + 1)
        <4>1. CASE order = <<>>
          <5>1. n = 1 BY <2>2, <2>5, <4>1
          <5> QED BY <2>4, <3>4, <4>1, <5>1
        <4>2. CASE order # <<>> /\ order[m] = "win"
          <5>1. counts.streak \in 1..m /\ IsRun(order, counts.streak, m) BY <2>5, <2>7, <4>2
          <5>2. n = counts.streak + 1 BY <2>6, <4>2, <5>1
          <5>3. IsRun(order', counts.streak + 1, m + 1) BY <2>4, <2>9, <3>4, <4>2, <5>1
          <5> HIDE DEF n
          <5> QED BY <2>6, <4>2, <5>1, <5>2, <5>3
        <4>3. CASE order # <<>> /\ order[m] # "win"
          <5>1. -counts.streak \in 1..m BY <2>5, <2>7, <4>3
          <5>2. n = 1 BY <2>2, <2>6, <4>3, <5>1
          <5> QED BY <2>4, <2>6, <2>9, <3>4, <4>3, <5>2
        <4> QED BY <4>1, <4>2, <4>3
      <3> HIDE DEF n, best
      <3> QED BY <2>8, <2>9, <3>2, <3>3, <3>4, <3>5
    <2>10. CASE kind = "loss"
      <3> DEFINE n == IF counts.streak <= 0 THEN 1 - counts.streak ELSE 1
      <3>1. counts' = [counts EXCEPT !.losses = counts.losses + 1,
                                     !.streak = IF counts.streak <= 0 THEN counts.streak - 1 ELSE -1]
        BY <2>1, <2>10 DEF Counted
      <3>2. counts'.streak = -n /\ counts'.best = counts.best BY <2>2, <3>1
      <3>3. kind \in Outcomes BY <2>10 DEF Outcomes
      <3>4. n \in 1..(m + 1) /\ IsRun(order', n, m + 1)
        <4>1. CASE order = <<>>
          <5>1. n = 1 BY <2>2, <2>5, <4>1
          <5> QED BY <2>4, <3>3, <4>1, <5>1
        <4>2. CASE order # <<>> /\ order[m] # "win"
          <5>1. -counts.streak \in 1..m /\ IsRun(order, -counts.streak, m) /\ order[m] = "loss"
            BY <2>5, <2>6, <2>7, <4>2 DEF Outcomes
          <5>2. n = (-counts.streak) + 1 BY <2>2, <2>6, <4>2, <5>1
          <5>3. IsRun(order', (-counts.streak) + 1, m + 1) BY <2>4, <2>10, <3>3, <4>2, <5>1
          <5> HIDE DEF n
          <5> QED BY <2>2, <2>6, <4>2, <5>1, <5>2, <5>3
        <4>3. CASE order # <<>> /\ order[m] = "win"
          <5>1. counts.streak \in 1..m BY <2>5, <2>7, <4>3
          <5>2. n = 1 BY <2>2, <2>6, <4>3, <5>1
          <5> QED BY <2>4, <2>6, <2>10, <3>3, <4>3, <5>2
        <4> QED BY <4>1, <4>2, <4>3
      <3> HIDE DEF n
      <3> QED BY <2>2, <2>8, <2>10, <3>2, <3>3, <3>4
    <2> QED BY <2>1, <2>3, <2>9, <2>10
  <1> QED BY <1>1, <1>2

\* A run's length is unique, so the streak is the run the property speaks of.
LEMMA StreaksAreTrue == ASSUME StatTypes, StreakInv PROVE StreaksAreRuns
  <1>1. order \in Seq(Outcomes) /\ DOMAIN order = 1..Len(order) /\ Len(order) \in Nat BY LenProperties DEF StatTypes
  <1>2. \A n, m, i \in Nat : IsRun(order, n, i) /\ IsRun(order, m, i) => ~(n < m)
    <2> SUFFICES ASSUME NEW n \in Nat, NEW m \in Nat, NEW i \in Nat,
                        IsRun(order, n, i), IsRun(order, m, i), n < m
                 PROVE  FALSE
      OBVIOUS
    <2>1. n \in 1..i /\ m \in 1..i /\ n < i BY DEF IsRun
    <2>2. i - n \in (i - m + 1)..i BY <2>1
    <2> QED BY <2>1, <2>2 DEF IsRun
  <1>3. ASSUME NEW i \in DOMAIN order, NEW n \in 1..i, IsRun(order, n, i) PROVE RunEndingAt(i) = n
    <2>1. i \in Nat /\ n \in Nat BY <1>1
    <2>2. IsRun(order, RunEndingAt(i), i)
      <3> DEFINE P(l) == /\ \A k \in (i - l + 1)..i : order[k] = order[i]
                         /\ l < i => order[i - l] # order[i]
      <3>1. \E l \in 1..i : P(l) BY <1>3 DEF IsRun
      <3>2. RunEndingAt(i) = CHOOSE l \in 1..i : P(l) BY DEF RunEndingAt
      <3> HIDE DEF P
      <3>3. RunEndingAt(i) \in 1..i /\ P(RunEndingAt(i)) BY <3>1, <3>2
      <3> QED BY <3>3 DEF P, IsRun
    <2>3. RunEndingAt(i) \in Nat BY <2>1, <2>2 DEF IsRun
    <2> QED BY <1>2, <1>3, <2>1, <2>2, <2>3
  <1>4. ASSUME order # <<>>
        PROVE  counts.streak = IF Last(order) = "win" THEN RunEndingAt(Len(order)) ELSE -RunEndingAt(Len(order))
    <2>1. Len(order) \in DOMAIN order /\ Last(order) = order[Len(order)] BY <1>1, <1>4, EmptySeq DEF Last
    <2>2. counts.streak \in Int BY DEF StatTypes
    <2>3. CASE order[Len(order)] = "win"
      <3>1. IsRun(order, counts.streak, Len(order)) BY <1>4, <2>3 DEF StreakInv
      <3>2. counts.streak \in 1..Len(order) BY <3>1 DEF IsRun
      <3> QED BY <1>3, <2>1, <2>3, <3>1, <3>2
    <2>4. CASE order[Len(order)] # "win"
      <3>1. IsRun(order, -counts.streak, Len(order)) BY <1>4, <2>4 DEF StreakInv
      <3>2. -counts.streak \in 1..Len(order) BY <3>1 DEF IsRun
      <3>3. RunEndingAt(Len(order)) = -counts.streak BY <1>3, <2>1, <3>1, <3>2
      <3> QED BY <2>1, <2>2, <2>4, <3>3
    <2> QED BY <2>3, <2>4
  <1>5. ASSUME NEW i \in DOMAIN order, order[i] = "win" PROVE RunEndingAt(i) <= counts.best
    <2>1. PICK n \in 1..i : IsRun(order, n, i) /\ n <= counts.best BY <1>5 DEF StreakInv
    <2> QED BY <1>3, <2>1
  <1> QED BY <1>4, <1>5 DEF StreaksAreRuns

-----------------------------------------------------------------------------
(* The history. *)

\* One more entry at the end of the calls that wait for the lock of the history.
LEMMA CallsJoined ==
  ASSUME StatTypes, LineInv, LogInv, NEW q \in Seq(Items), IsInjective(q),
         log' = log, logging' = logging \o q,
         \A x \in Range(q) : /\ x \notin Range(log) \cup Range(logging)
                             /\ x[2] \in DemoWagers /\ x[2] \in Happened(x[1])'
                             /\ x[1] # "loss" => x \notin Range(Line)',
         \A x \in Range(q), y \in Range(log) \cup Range(logging) : x[2] = y[2] => y[1] = "bet",
         \A i, j \in DOMAIN q : q[i][2] = q[j][2] => i = j,
         \A k \in Kinds : Happened(k) \subseteq Happened(k)',
         \A x \in Items : x \in Range(Line)' => x \in Range(Line) \/ x[2] \notin Happened(x[1])
  PROVE  LogInv'
  <1>1. log \in Seq(Items) /\ logging \in Seq(Items) BY DEF StatTypes
  <1>2. Range(log) \subseteq Items /\ Range(logging) \subseteq Items /\ Range(q) \subseteq Items BY <1>1, RangeOfSeq
  <1>3. \A x \in Items : x[1] \in Kinds BY DEF Items, Kinds
  <1> DEFINE u == logging \o q
             m == Len(logging)
  <1>4. Range(logging) \cap Range(q) = {} OBVIOUS
  <1>5. /\ u \in Seq(Items) /\ Len(u) = m + Len(q)
        /\ \A i \in 1..m : u[i] = logging[i]
        /\ \A i \in 1..Len(q) : u[m + i] = q[i]
        /\ IsInjective(u) /\ Range(u) = Range(logging) \cup Range(q)
    BY <1>1, <1>4, ConcatNew DEF LogInv
  <1>6. /\ DOMAIN logging = 1..m /\ m \in Nat /\ DOMAIN q = 1..Len(q) /\ Len(q) \in Nat /\ DOMAIN u = 1..(m + Len(q))
    BY <1>1, <1>5, LenProperties
  <1>7. logging' = u OBVIOUS
  <1> HIDE DEF u, m
  <1>8. \A i \in DOMAIN u : i \in 1..m \/ \E j \in 1..Len(q) : i = m + j
    <2> SUFFICES ASSUME NEW i \in DOMAIN u, ~(i <= m) PROVE \E j \in 1..Len(q) : i = m + j BY <1>6
    <2>1. i - m \in 1..Len(q) /\ i = m + (i - m) BY <1>6
    <2> QED BY <2>1
  <1>9. \A i, j \in DOMAIN u : i < j /\ u[i][2] = u[j][2] => u[i][1] = "bet"
    <2> SUFFICES ASSUME NEW i \in DOMAIN u, NEW j \in DOMAIN u, i < j, u[i][2] = u[j][2] PROVE u[i][1] = "bet"
      OBVIOUS
    <2>1. CASE j \in 1..m
      <3>1. i \in 1..m BY <1>6, <2>1
      <3> QED BY <1>5, <1>6, <2>1, <3>1 DEF LogInv
    <2>2. ASSUME NEW l \in 1..Len(q), j = m + l PROVE u[i][1] = "bet"
      <3>1. u[j] = q[l] /\ q[l] \in Range(q) BY <1>5, <1>6, <2>2 DEF Range
      <3>2. CASE i \in 1..m
        <4>1. u[i] = logging[i] /\ logging[i] \in Range(logging) BY <1>5, <1>6, <3>2 DEF Range
        <4> QED BY <3>1, <4>1
      <3>3. ASSUME NEW k \in 1..Len(q), i = m + k PROVE FALSE
        <4>1. u[i] = q[k] BY <1>5, <3>3
        <4>2. k = l BY <1>6, <3>1, <4>1
        <4> QED BY <1>6, <2>2, <3>3, <4>2
      <3> QED BY <1>8, <3>2, <3>3
    <2> QED BY <1>8, <2>1, <2>2
  <1>10. \A x \in Range(log) \cup Range(logging) :
           x[2] \in DemoWagers /\ x[2] \in Happened(x[1])' /\ (x[1] # "loss" => x \notin Range(Line)')
    <2> SUFFICES ASSUME NEW x \in Range(log) \cup Range(logging)
                 PROVE  x[2] \in DemoWagers /\ x[2] \in Happened(x[1])' /\ (x[1] # "loss" => x \notin Range(Line)')
      OBVIOUS
    <2>1. x[2] \in DemoWagers /\ x[2] \in Happened(x[1]) /\ (x[1] # "loss" => x \notin Range(Line)) BY DEF LogInv
    <2>2. x \in Items /\ x[1] \in Kinds BY <1>2, <1>3
    <2>3. x[2] \in Happened(x[1])' BY <2>1, <2>2
    <2> QED BY <2>1, <2>2, <2>3
  <1>11. Range(logging)' = Range(logging) \cup Range(q) /\ Range(log)' = Range(log)
    <2>1. Range(logging)' = Range(u) BY <1>7 DEF Range
    <2>2. Range(log)' = Range(log) BY DEF Range
    <2> QED BY <1>5, <2>1, <2>2
  <1>12. Len(log') <= HistoryLimit /\ IsInjective(log') /\ IsInjective(logging') BY <1>5, <1>7 DEF LogInv
  <1>13. Range(log)' \cap Range(logging)' = {} BY <1>11 DEF LogInv
  <1>14. \A i, j \in DOMAIN log' : i < j /\ log'[i][2] = log'[j][2] => log'[j][1] = "bet" BY DEF LogInv
  <1>15. \A i, j \in DOMAIN logging' : i < j /\ logging'[i][2] = logging'[j][2] => logging'[i][1] = "bet" BY <1>7, <1>9
  <1>16. \A x \in Range(log)', y \in Range(logging)' : x[2] = y[2] => x[1] = "bet" BY <1>11 DEF LogInv
  <1>17. \A x \in Range(log)' \cup Range(logging)' :
           x[2] \in DemoWagers /\ x[2] \in Happened(x[1])' /\ (x[1] # "loss" => x \notin Range(Line)')
    BY <1>10, <1>11
  <1> QED BY <1>12, <1>13, <1>14, <1>15, <1>16, <1>17 DEF LogInv

\* The history keeps the order of the calls.
LEMMA LogStep == ASSUME StatTypes, LineInv, LogInv, StatsNext PROVE LogInv'
  <1> USE PlayStatsAssumption
  <1>1. log \in Seq(Items) /\ logging \in Seq(Items) BY DEF StatTypes
  <1>2. Range(log) \subseteq Items /\ Range(logging) \subseteq Items /\ Range(Line) \subseteq Items
    BY <1>1, LineIs, RangeOfSeq
  <1>3. \A x \in Items : x[1] \in Kinds /\ x[2] \in Wagers /\ x = <<x[1], x[2]>> BY DEF Items, Kinds
  <1>4. \A x \in Range(log) \cup Range(logging) :
          x[2] \in DemoWagers /\ x[2] \in Happened(x[1]) /\ (x[1] # "loss" => x \notin Range(Line))
    BY DEF LogInv
  <1>5. /\ \A k \in Kinds : Happened(k) \subseteq Happened(k)'
        /\ \A x \in Items : x \in Range(Line)' => x \in Range(Line) \/ x[2] \notin Happened(x[1])
    <2>1. CASE StatsWritten \/ StatsRefused
      <3>1. Range(Line)' \subseteq Range(Line) /\ \A k \in Kinds : Happened(k)' = Happened(k) BY <2>1, ServeLine
      <3> QED BY <3>1
    <2>2. CASE ~StatsWritten /\ ~StatsRefused
      <3>1. \A k \in Kinds : Recorded(k)' = Recorded(k) /\ Happened(k) \subseteq Happened(k)'
        BY <2>2, FlowLine DEF RecordKept
      <3>2. ASSUME NEW x \in Items, x \in Range(Line)', x \notin Range(Line), x[2] \in Happened(x[1]) PROVE FALSE
        <4>1. x[1] \in Kinds /\ x = <<x[1], x[2]>> BY <1>3
        <4>2. x[2] \in Recorded(x[1]) BY <3>2, <4>1 DEF Recorded
        <4>3. x[2] \in Recorded(x[1])' BY <3>1, <4>1, <4>2
        <4> QED BY <3>2, <4>1, <4>3 DEF Recorded
      <3> QED BY <3>1, <3>2
    <2> QED BY <2>1, <2>2
  <1>6. ASSUME log' = log, logging' = logging PROVE LogInv'
    <2>1. <<>> \in Seq(Items) /\ IsInjective(<<>>) /\ Range(<<>>) = {} /\ DOMAIN <<>> = {} BY DEF IsInjective, Range
    <2>2. logging' = logging \o <<>> BY <1>1, <1>6, ConcatEmptySeq
    <2> QED BY <1>5, <1>6, <2>1, <2>2, CallsJoined
  \* A demo bet that has an outcome has one only, and is counted.
  <1>7. ASSUME NEW b \in DemoWagers
        PROVE  /\ b \notin late /\ (b \in Happened("loss") => wager[b] = "lost")
               /\ (b \in Happened("win") => wager[b] = "cashed")
               /\ (<<"bet", b>> \in Range(Line) => Counting(b))
    BY DEF LineInv, LateInv, LineFits, Counting, Happened
  <1>8. CASE StatsWritten
    <2>0. PICK x : x = held[1] OBVIOUS
    <2>1. /\ x \in Items /\ x \in Range(Line) /\ x[2] \in Happened(x[1]) /\ Range(Line)' = Range(Line) \ {x}
          /\ \A k \in Kinds : Happened(k)' = Happened(k)
      BY <1>8, <2>0, ServeLine
    <2>2. x = <<x[1], x[2]>> /\ x[1] \in Kinds /\ x[2] \in Wagers BY <1>3, <2>1
    <2>3. /\ log' = log
          /\ logging' = IF x[2] \in DemoWagers /\ x[1] # "loss" THEN Append(logging, <<x[1], x[2]>>) ELSE logging
      BY <1>8, <2>0 DEF StatsWritten
    <2>4. CASE ~(x[2] \in DemoWagers /\ x[1] # "loss") BY <1>6, <2>3, <2>4
    <2>5. CASE x[2] \in DemoWagers /\ x[1] # "loss"
      <3> DEFINE q == <<x>>
      <3>1. q \in Seq(Items) /\ DOMAIN q = {1} /\ q[1] = x BY <2>1
      <3>2. IsInjective(q) /\ Range(q) = {x} BY <3>1 DEF IsInjective, Range
      <3>3. logging' = logging \o q
        <4>1. logging' = Append(logging, x) BY <2>2, <2>3, <2>5
        <4>2. Append(logging, x) = logging \o <<x>> BY <1>1, <2>1, AppendIsConcat
        <4> QED BY <4>1, <4>2
      <3>4. x \notin Range(log) \cup Range(logging) BY <1>4, <2>1, <2>5
      <3>5. x[2] \in Happened(x[1])' /\ x \notin Range(Line)' BY <2>1, <2>2
      <3>6. ASSUME NEW y \in Range(log) \cup Range(logging), x[2] = y[2] PROVE y[1] = "bet"
        <4>1. y \in Items /\ y[1] \in Kinds /\ y = <<y[1], x[2]>> BY <1>2, <1>3, <3>6
        <4>2. y[1] # x[1] BY <2>2, <3>4, <4>1
        <4>3. x[2] \in Happened(y[1]) BY <1>4, <3>6
        <4>4. CASE x[1] = "bet"
          <5>1. Counting(x[2]) BY <1>7, <2>1, <2>2, <2>5, <4>4
          <5>2. x[2] \notin Happened("loss") /\ x[2] \notin Happened("win") BY <1>7, <2>5, <5>1 DEF Counting
          <5> QED BY <4>1, <4>3, <5>2 DEF Kinds, Outcomes
        <4>5. CASE x[1] = "win"
          <5>1. x[2] \notin Happened("loss") BY <1>7, <2>1, <2>5, <4>5
          <5> QED BY <4>1, <4>2, <4>3, <4>5, <5>1 DEF Kinds, Outcomes
        <4> QED BY <2>2, <2>5, <4>4, <4>5 DEF Kinds, Outcomes
      <3>7. \A i, j \in DOMAIN q : q[i][2] = q[j][2] => i = j BY <3>1
      <3>8. \A y \in Range(q) : /\ y \notin Range(log) \cup Range(logging)
                                /\ y[2] \in DemoWagers /\ y[2] \in Happened(y[1])'
                                /\ y[1] # "loss" => y \notin Range(Line)'
        BY <2>5, <3>2, <3>4, <3>5
      <3>9. \A z \in Range(q), y \in Range(log) \cup Range(logging) : z[2] = y[2] => y[1] = "bet" BY <3>2, <3>6
      <3> HIDE DEF q
      <3> QED BY <1>5, <2>3, <3>1, <3>2, <3>3, <3>7, <3>8, <3>9, CallsJoined
    <2> QED BY <2>4, <2>5
  <1>9. CASE StatsCrash
    <2> DEFINE L == LosersOfRound \cap DemoWagers
               N == {<<"loss", b>> : b \in L}
               q == SetToSeq(N)
    <2>1. log' = log /\ logging' = logging \o q BY <1>9 DEF StatsCrash
    <2>2. L \subseteq Wagers /\ \A b \in L : b \in LosersOfRound /\ b \in DemoWagers /\ wager[b] \in {"seated", "cashing"}
      BY DEF LosersOfRound
    <2>3. q \in Seq(N) /\ IsInjective(q) /\ Range(q) = N BY <2>2, LossesInLine
    <2>4. \A x \in N : x[1] = "loss" /\ x[2] \in L /\ x = <<"loss", x[2]>> OBVIOUS
    <2>5. \A x \in N : x \in Items BY <2>2, <2>4 DEF Items, Outcomes
    <2>6. \A b \in L : b \in Happened("loss")'
      <3>1. \A b \in L : IF wager[b] = "seated" THEN wager'[b] = "lost" ELSE b \in late'
        BY <1>9, <2>2 DEF StatsCrash
      <3> QED BY <2>2, <3>1 DEF Happened
    <2>7. \A b \in L : b \notin Happened("loss") /\ b \notin Happened("win") BY <1>7, <2>2
    <2> HIDE DEF L, N, q
    <2>8. q \in Seq(Items) BY <2>3, <2>5, SeqMonotonic
    <2>9. \A x \in Range(q) : /\ x \notin Range(log) \cup Range(logging)
                              /\ x[2] \in DemoWagers /\ x[2] \in Happened(x[1])'
                              /\ x[1] # "loss" => x \notin Range(Line)'
      BY <1>4, <2>2, <2>3, <2>4, <2>6, <2>7
    <2>10. \A x \in Range(q), y \in Range(log) \cup Range(logging) : x[2] = y[2] => y[1] = "bet"
      <3> SUFFICES ASSUME NEW x \in Range(q), NEW y \in Range(log) \cup Range(logging), x[2] = y[2] PROVE y[1] = "bet"
        OBVIOUS
      <3>1. x[2] \in L /\ y[1] \in Kinds /\ x[2] \in Happened(y[1]) BY <1>2, <1>3, <1>4, <2>3, <2>4
      <3> QED BY <2>7, <3>1 DEF Kinds, Outcomes
    <2>11. \A i, j \in DOMAIN q : q[i][2] = q[j][2] => i = j
      <3> SUFFICES ASSUME NEW i \in DOMAIN q, NEW j \in DOMAIN q, q[i][2] = q[j][2] PROVE i = j OBVIOUS
      <3>1. q[i] \in N /\ q[j] \in N BY <2>3 DEF Range
      <3>2. q[i] = q[j] BY <2>4, <3>1
      <3> QED BY <2>3, <3>2 DEF IsInjective
    <2> QED BY <1>5, <2>1, <2>3, <2>8, <2>9, <2>10, <2>11, CallsJoined
  <1>10. CASE HistoryAppended
    <2> DEFINE x == Head(logging)
               s == <<x>> \o log
               n == IF Len(log) < HistoryLimit THEN Len(log) + 1 ELSE HistoryLimit
    <2>1. /\ logging # <<>> /\ logging' = Tail(logging) /\ log' = SubSeq(s, 1, n)
          /\ UNCHANGED <<wager, late, held, waiting>>
      BY <1>10 DEF HistoryAppended, lockVars
    <2>2. /\ x \in Items /\ x \in Range(logging) /\ Tail(logging) \in Seq(Items) /\ Len(Tail(logging)) = Len(logging) - 1
          /\ \A i \in 1..Len(Tail(logging)) : Tail(logging)[i] = logging[i + 1]
          /\ IsInjective(Tail(logging)) /\ Range(Tail(logging)) = Range(logging) \ {x}
      BY <1>1, <2>1, TailOfNew DEF LogInv
    <2>3. x = logging[1] /\ Len(logging) \in Nat /\ Len(logging) > 0 /\ DOMAIN logging = 1..Len(logging)
      BY <1>1, <2>1, HeadTailProperties, LenProperties, EmptySeq
    <2>4. Len(log) \in Nat /\ DOMAIN log = 1..Len(log) /\ Len(log) <= HistoryLimit BY <1>1, LenProperties DEF LogInv
    <2>5. n \in Nat /\ n <= Len(log) + 1 /\ n <= HistoryLimit BY <2>4
    <2>6. /\ s \in Seq(Items) /\ Len(s) = 1 + Len(log) /\ s[1] = x /\ \A i \in 1..Len(log) : s[1 + i] = log[i]
          /\ IsInjective(s) /\ DOMAIN s = 1..(1 + Len(log))
      <3> DEFINE h == <<x>>
      <3>1. h \in Seq(Items) /\ Len(h) = 1 /\ h[1] = x /\ DOMAIN h = {1} BY <2>2
      <3>2. IsInjective(h) /\ Range(h) = {x} BY <3>1 DEF IsInjective, Range
      <3>3. Range(h) \cap Range(log) = {} BY <2>2, <3>2 DEF LogInv
      <3> HIDE DEF h
      <3>4. IsInjective(log) BY DEF LogInv
      <3>5. /\ h \o log \in Seq(Items) /\ Len(h \o log) = 1 + Len(log)
            /\ \A i \in 1..(1 + Len(log)) : (h \o log)[i] = IF i <= 1 THEN h[i] ELSE log[i - 1]
        <4>1. /\ h \o log \in Seq(Items) /\ Len(h \o log) = Len(h) + Len(log)
              /\ \A i \in 1..(Len(h) + Len(log)) : (h \o log)[i] = IF i <= Len(h) THEN h[i] ELSE log[i - Len(h)]
          BY ZenonT(60), <1>1, <3>1, ConcatProperties
        <4> QED BY <3>1, <4>1
      <3>6. IsInjective(h \o log) BY <1>1, <3>1, <3>2, <3>3, <3>4, ConcatNew
      <3>7. (h \o log)[1] = x /\ \A i \in 1..Len(log) : (h \o log)[1 + i] = log[i] BY <2>4, <3>1, <3>5
      <3>8. s = h \o log BY DEF h
      <3> HIDE DEF s
      <3>9. Len(s) = 1 + Len(log) BY <3>5, <3>8
      <3> QED BY <3>5, <3>6, <3>7, <3>8, <3>9, LenProperties
    <2> DEFINE u == SubSeq(s, 1, n)
    <2> HIDE DEF s, n
    <2>7. u \in Seq(Items) /\ DOMAIN u = 1..n /\ Len(u) = n /\ \A i \in 1..n : u[i] = s[i]
      <3>1. \A i \in 1..n : s[i] \in Items BY <2>4, <2>5, <2>6, ElementOfSeq
      <3> QED BY <2>4, <2>5, <2>6, <3>1, SubSeqProperties, LenProperties
    <2> HIDE DEF u, x
    <2>8. \A i \in 1..n : i \in DOMAIN s /\ (i = 1 => u[i] = x) /\ (i # 1 => i - 1 \in DOMAIN log /\ u[i] = log[i - 1])
      <3> SUFFICES ASSUME NEW i \in 1..n
                   PROVE  i \in DOMAIN s /\ (i = 1 => u[i] = x) /\ (i # 1 => i - 1 \in DOMAIN log /\ u[i] = log[i - 1])
        OBVIOUS
      <3>1. i \in DOMAIN s /\ u[i] = s[i] BY <2>4, <2>5, <2>6, <2>7
      <3>2. ASSUME i # 1 PROVE i - 1 \in DOMAIN log /\ u[i] = log[i - 1]
        <4>1. i - 1 \in 1..Len(log) /\ 1 + (i - 1) = i BY <2>4, <2>5, <3>2
        <4>2. s[1 + (i - 1)] = log[i - 1] BY <2>6, <4>1
        <4> QED BY <2>4, <3>1, <4>1, <4>2
      <3> QED BY <2>6, <3>1, <3>2
    <2>9. IsInjective(u)
      <3> SUFFICES ASSUME NEW i \in 1..n, NEW j \in 1..n, u[i] = u[j] PROVE i = j BY <2>7 DEF IsInjective
      <3>1. s[i] = s[j] /\ i \in DOMAIN s /\ j \in DOMAIN s BY <2>7, <2>8
      <3> QED BY <2>6, <3>1 DEF IsInjective
    <2>10. Range(u) \subseteq Range(log) \cup {x} BY <2>7, <2>8 DEF Range
    <2>11. \A y \in Range(log) : y[2] = x[2] => y[1] = "bet" BY <2>2 DEF LogInv
    <2>12. \A i, j \in DOMAIN u : i < j /\ u[i][2] = u[j][2] => u[j][1] = "bet"
      <3> SUFFICES ASSUME NEW i \in 1..n, NEW j \in 1..n, i < j, u[i][2] = u[j][2] PROVE u[j][1] = "bet" BY <2>7
      <3>1. j - 1 \in DOMAIN log /\ u[j] = log[j - 1] BY <2>5, <2>8
      <3>2. CASE i = 1
        <4>1. log[j - 1] \in Range(log) /\ u[i] = x BY <2>8, <3>1, <3>2 DEF Range
        <4> QED BY <2>11, <3>1, <4>1
      <3>3. CASE i # 1
        <4>1. i - 1 \in DOMAIN log /\ u[i] = log[i - 1] BY <2>8, <3>3
        <4>2. i - 1 < j - 1 BY <2>5
        <4> QED BY <3>1, <4>1, <4>2 DEF LogInv
      <3> QED BY <3>2, <3>3
    <2> DEFINE t == Tail(logging)
    <2>13. /\ DOMAIN t = 1..(Len(logging) - 1) /\ \A i \in 1..(Len(logging) - 1) : t[i] = logging[i + 1]
           /\ IsInjective(t) /\ Range(t) = Range(logging) \ {x}
      BY <2>2, LenProperties
    <2> HIDE DEF t
    <2>14. \A i, j \in DOMAIN t : i < j /\ t[i][2] = t[j][2] => t[i][1] = "bet"
      <3> SUFFICES ASSUME NEW i \in DOMAIN t, NEW j \in DOMAIN t, i < j, t[i][2] = t[j][2] PROVE t[i][1] = "bet"
        OBVIOUS
      <3>1. i + 1 \in DOMAIN logging /\ j + 1 \in DOMAIN logging /\ i + 1 < j + 1 BY <2>3, <2>13
      <3>2. t[i] = logging[i + 1] /\ t[j] = logging[j + 1] BY <2>13
      <3> QED BY <3>1, <3>2 DEF LogInv
    <2>15. \A y \in Range(t) : x[2] = y[2] => x[1] = "bet"
      <3> SUFFICES ASSUME NEW i \in DOMAIN t, x[2] = t[i][2] PROVE x[1] = "bet" BY DEF Range
      <3>1. 1 \in DOMAIN logging /\ i + 1 \in DOMAIN logging /\ 1 < i + 1 /\ t[i] = logging[i + 1] BY <2>3, <2>13
      <3> QED BY <2>3, <3>1 DEF LogInv
    <2>16. log' = u /\ logging' = t BY <2>1 DEF u, t
    <2>17. Range(log)' = Range(u) /\ Range(logging)' = Range(t) BY <2>16 DEF Range
    <2>18. \A k \in Kinds : Happened(k)' = Happened(k) BY <2>1 DEF Happened
    <2>19. Range(Line)' = Range(Line) BY <2>1 DEF Line, Range
    <2>20. \A y \in Range(u) \cup Range(t) :
             y[2] \in DemoWagers /\ y[2] \in Happened(y[1])' /\ (y[1] # "loss" => y \notin Range(Line)')
      <3> SUFFICES ASSUME NEW y \in Range(u) \cup Range(t)
                   PROVE  y[2] \in DemoWagers /\ y[2] \in Happened(y[1])' /\ (y[1] # "loss" => y \notin Range(Line)')
        OBVIOUS
      <3>1. y \in Range(log) \cup Range(logging) BY <2>2, <2>10, <2>13
      <3>2. y[1] \in Kinds BY <1>2, <1>3, <3>1
      <3> QED BY <1>4, <2>18, <2>19, <3>1, <3>2
    <2>21. Len(log') <= HistoryLimit BY <2>5, <2>7, <2>16
    <2>22. Range(u) \cap Range(t) = {} BY <2>2, <2>10, <2>13 DEF LogInv
    <2>23. \A y \in Range(u), z \in Range(t) : y[2] = z[2] => y[1] = "bet" BY <2>10, <2>13, <2>15 DEF LogInv
    <2> QED BY <2>9, <2>12, <2>13, <2>14, <2>16, <2>17, <2>20, <2>21, <2>22, <2>23 DEF LogInv
  <1>11. CASE ~StatsWritten /\ ~StatsCrash /\ ~HistoryAppended
    <2>1. UNCHANGED <<log, logging>>
      BY <1>11 DEF StatsNext, StatsRead, StatsRefused, StatsPhase, StatsRoundBegins, StakeTaken, CashoutAsked,
                   CreditLands, CreditMissing, logVars
    <2> QED BY <1>6, <2>1
  <1> QED BY <1>8, <1>9, <1>10, <1>11

\* The invariant says what the property does, and more.
LEMMA HistoryIsTrue == ASSUME LogInv PROVE HistoryIsInOrder
  BY DEF LogInv, HistoryIsInOrder

-----------------------------------------------------------------------------
StatsInv == StatTypes /\ LineInv /\ CountInv /\ StreakInv /\ LogInv

\* Nothing is in line, nothing has happened.
LEMMA InitStats == StatsInit => StatsInv
  <1> SUFFICES ASSUME StatsInit PROVE StatsInv OBVIOUS
  <1> USE DEF StatsInit
  <1>1. StatTypes BY DEF StatTypes, WagerStages, ZeroStats
  <1>2. Line = <<>> /\ Range(Line) = {} BY DEF Line, Range
  <1>3. LineInv BY <1>2 DEF LineInv, LineOrder, LineFits, LateInv, Happened, IsInjective
  <1>4. \A k \in Kinds : Recorded(k) = {} BY DEF Recorded, Happened, Kinds, Outcomes
  <1>5. CountInv
    <2>1. Recorded("bet") = {} /\ Recorded("win") = {} /\ Recorded("loss") = {} BY <1>4 DEF Kinds, Outcomes
    <2>2. /\ Cardinality(Recorded("bet")) = 0 /\ Cardinality(Recorded("win")) = 0 /\ Cardinality(Recorded("loss")) = 0
      BY <2>1, FS_EmptySet
    <2>3. counts.bets = 0 /\ counts.wins = 0 /\ counts.losses = 0 /\ counts.net = 0 /\ storeFails = 0 BY DEF ZeroStats
    <2> QED BY <2>2, <2>3 DEF CountInv
  <1>6. StreakInv BY DEF StreakInv, ZeroStats
  <1>7. LogInv BY PlayStatsAssumption DEF LogInv, IsInjective, Range
  <1> QED BY <1>1, <1>3, <1>5, <1>6, <1>7 DEF StatsInv

\* Nothing changes.
LEMMA StatsStutter == ASSUME StatsInv, UNCHANGED statsVars PROVE StatsInv'
  <1>1. UNCHANGED <<wager, marked, flight, counts, waiting, held, panel, order, storeFails, log, logging, late>>
    BY DEF statsVars, lockVars, logVars
  <1>2. Line' = Line /\ Range(Line)' = Range(Line) /\ Range(log)' = Range(log) /\ Range(logging)' = Range(logging)
    BY <1>1 DEF Line, Range
  <1>3. \A k : Happened(k)' = Happened(k) /\ Recorded(k)' = Recorded(k) BY <1>1, <1>2 DEF Happened, Recorded
  <1>4. StatTypes' /\ StreakInv' /\ CountInv' BY <1>1, <1>3 DEF StatsInv, StatTypes, StreakInv, CountInv
  <1>5. LineInv' BY <1>1, <1>2, <1>3 DEF StatsInv, LineInv, LineOrder, LineFits, LateInv
  <1>6. LogInv' BY <1>1, <1>2, <1>3 DEF StatsInv, LogInv
  <1> QED BY <1>4, <1>5, <1>6 DEF StatsInv

\* The panel's numbers, its streaks and its history are those of what happened
\* (store.ts:84, 373), whatever order credits, crashes and store failures come in.
THEOREM StatsTrue == StatsSpec => []StatsAreTrue
  <1>1. StatsInv /\ [StatsNext]_statsVars => StatsInv'
    <2> SUFFICES ASSUME StatsInv, [StatsNext]_statsVars PROVE StatsInv' OBVIOUS
    <2>1. CASE StatsNext
      <3>1. LineInv' BY <2>1, ServeLine, FlowLine DEF StatsInv
      <3>2. StatTypes' BY <2>1, StatTypesStep DEF StatsInv, LineInv
      <3> QED BY <2>1, <3>1, <3>2, CountStep, StreakStep, LogStep DEF StatsInv
    <2> QED BY <2>1, StatsStutter
  <1>2. StatsInv => StatsAreTrue BY CountsAreTrue, StreaksAreTrue, HistoryIsTrue DEF StatsInv, StatsAreTrue
  <1> QED BY <1>1, <1>2, InitStats, PTL DEF StatsSpec
=============================================================================
