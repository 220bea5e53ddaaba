-------------------------------- MODULE Flight --------------------------------
(***************************************************************************)
(* The crash point (rng.ts) and the flight to it (curve.ts, engine.ts): a  *)
(* point drawn from uniform bits so that every target keeps the house its  *)
(* edge, a curve of exponential bands, and a timer that samples the curve, *)
(* pays automatic cash-outs and ends the flight.  Ticks come late, players *)
(* cash out between them, and the game's curve may be edited on the way.   *)
(*                                                                         *)
(* Multipliers are in hundredths.  The curve is taken in logarithms, where *)
(* a band is a straight line: heights, of which LevelSize make a hundredth *)
(* of the multiplier.                                                      *)
(***************************************************************************)
EXTENDS Integers, Sequences, FiniteSets, SequencesExt

CONSTANTS
  Draws,        \* 2^52: how many values the 13 hex digits take
  RtpPercent,   \* 100 * config.rtp
  MaxPoint,     \* config.maxMultiplier, in hundredths
  Curves,       \* growth segments of the themes: sequences of [from, rate], heights per unit of time
  BaseRate,     \* growthRate of a theme
  LevelSize,    \* heights to a hundredth
  FlightBets,   \* bets at the table
  Targets,      \* automatic cash-outs, in hundredths; 0 is none
  MaxTick,      \* bound: units of time between two ticks
  LastMoment,   \* bound: units of time of a flight
  MaxCurveEdits \* bound: edits of the theme

ASSUME FlightAssumption ==
  /\ Draws \in Nat \ {0} /\ RtpPercent \in 1..100 /\ MaxPoint \in Nat /\ MaxPoint >= 100
  /\ BaseRate \in Nat \ {0} /\ LevelSize \in Nat \ {0} /\ Targets \subseteq Nat /\ 0 \in Targets
  /\ MaxTick \in Nat \ {0} /\ LastMoment \in Nat /\ MaxCurveEdits \in Nat
  /\ \A segments \in Curves : segments \in Seq([from : Int, rate : Int])

VARIABLES
  draw,     \* the round's 52 bits
  airborne, \* round.phase: "BETTING", "FLYING" or "CRASHED"
  moment,   \* time since takeoff
  shown,    \* round.currentMultiplier
  growth,   \* the engine's segments
  wagers,   \* of each bet: [target, paid, source], paid = 0 while open
  peak,     \* history: the highest multiplier a tick has shown, 0 before the first
  curveEdits

flightVars == <<draw, airborne, moment, shown, growth, wagers, peak, curveEdits>>

Lesser(a, b) == IF a <= b THEN a ELSE b
Greater(a, b) == IF a >= b THEN a ELSE b

-----------------------------------------------------------------------------
(* rng.ts: crashPointForMessage. *)

\* Faulty variant: rounded up to the next hundredth.
CrashPointUp(n) == Lesser(Greater((RtpPercent * Draws) \div (Draws - n) + 1, 100), MaxPoint)

\* (100 * rtp) / (1 - u) with u = n / Draws, quantized down, within 1 and the maximum.
CrashPoint(n) == Lesser(Greater((RtpPercent * Draws) \div (Draws - n), 100), MaxPoint)

-----------------------------------------------------------------------------
(* curve.ts.  Height 0 is the multiplier 1. *)

\* normalize: those that climb, sorted, with the first brought down to height 0.
StartsBelow(segments, i, j) ==
  segments[i].from < segments[j].from \/ (segments[i].from = segments[j].from /\ i < j)
Bands(segments) ==
  LET climbing == {i \in DOMAIN segments : segments[i].rate > 0}
      sorted   == [k \in 1..Cardinality(climbing) |-> segments[
                     CHOOSE i \in climbing : Cardinality({j \in climbing : StartsBelow(segments, j, i)}) = k - 1]]
  IN IF climbing = {} THEN <<[from |-> 0, rate |-> BaseRate]>> ELSE [sorted EXCEPT ![1].from = 0]

\* Where band i ends; the last one goes on.
IsLast(bands, i) == i = Len(bands)
Above(bands, i, height) == IsLast(bands, i) \/ bands[i + 1].from > height

\* One turn of multiplierAtMs: to the end of band i, or as far as the time lasts.
ClimbBand(bands, i, was) ==
  LET top == was.height + bands[i].rate * was.left
  IN IF ~Above(bands, i, was.height) THEN was
     ELSE IF IsLast(bands, i) \/ top <= bands[i + 1].from THEN [height |-> top, left |-> 0]
     ELSE [height |-> bands[i + 1].from, left |-> was.left - (bands[i + 1].from - was.height) \div bands[i].rate]

\* multiplierAtMs.
HeightAt(time, segments) ==
  LET bands == Bands(segments)
      climb[i \in 0..Len(bands)] ==
        IF i = 0 THEN [height |-> 0, left |-> time] ELSE ClimbBand(bands, i, climb[i - 1])
  IN climb[Len(bands)].height

\* One turn of timeToMultiplierMs: the part of band i below the height.
TimeInBand(bands, i, height) ==
  LET top == IF IsLast(bands, i) THEN height ELSE Lesser(height, bands[i + 1].from)
  IN IF top > bands[i].from THEN (top - bands[i].from) \div bands[i].rate ELSE 0

\* timeToMultiplierMs.
TimeTo(height, segments) ==
  LET bands == Bands(segments)
      spent[i \in 0..Len(bands)] == IF i = 0 THEN 0 ELSE spent[i - 1] + TimeInBand(bands, i, height)
  IN IF height <= 0 THEN 0 ELSE spent[Len(bands)]

\* A curve whose segments begin at the multiplier 1 or above it, as GrowthSegment has it, in
\* units of time that suit it: time is whole here, so bands are to be climbed in whole units.
WholeBands(bands) == \A i \in 1..(Len(bands) - 1) : (bands[i + 1].from - bands[i].from) % bands[i].rate = 0
WholeTimes == \A segments \in Curves :
  /\ \A i \in DOMAIN segments : segments[i].from >= 0
  /\ WholeBands(Bands(segments))

-----------------------------------------------------------------------------
(* engine.ts. *)

Point == CrashPoint(draw)
\* The multiplier at a height: hundredths, and what is left of one.
Hundredths(height) == 100 + height \div LevelSize
Reached(height) == height >= (Point - 100) * LevelSize
OpenBet(b) == wagers[b].paid = 0

\* tryCashoutBet(bet, bet.autoCashout).
AutoPays(b, multiplier) == wagers[b].target

\* The automatic cash-outs of a tick.
Due(multiplier) ==
  {b \in FlightBets : OpenBet(b) /\ wagers[b].target > 0 /\ multiplier >= wagers[b].target /\ wagers[b].target <= Point}

TakeOff ==
  /\ airborne = "BETTING" /\ airborne' = "FLYING"
  /\ \E choice \in [FlightBets -> Targets] :
       wagers' = [b \in FlightBets |-> [target |-> choice[b], paid |-> 0, source |-> "-"]]
  /\ UNCHANGED <<draw, moment, shown, growth, peak, curveEdits>>

\* One tick of the interval: the crash comes first.
Tick ==
  /\ airborne = "FLYING"
  /\ \E step \in 1..MaxTick :
       /\ moment + step <= LastMoment /\ moment' = moment + step
       /\ LET height     == HeightAt(moment', growth)
              multiplier == Hundredths(height)
          IN IF Reached(height)
             THEN /\ airborne' = "CRASHED" /\ shown' = Point
                  /\ UNCHANGED <<wagers, peak>>
             ELSE /\ shown' = multiplier
                  /\ wagers' = [b \in FlightBets |->
                       IF b \in Due(multiplier) THEN [wagers[b] EXCEPT !.paid = AutoPays(b, multiplier), !.source = "auto"]
                                                ELSE wagers[b]]
                  /\ peak' = Greater(peak, multiplier) /\ UNCHANGED airborne
  /\ UNCHANGED <<draw, growth, curveEdits>>

\* The player's cash-out is paid the multiplier of the last tick.
CashOutNow(b) ==
  /\ airborne = "FLYING" /\ OpenBet(b)
  /\ wagers' = [wagers EXCEPT ![b].paid = shown, ![b].source = "manual"]
  /\ UNCHANGED <<draw, airborne, moment, shown, growth, peak, curveEdits>>

\* setGrowth, when the catalogue is read anew: at once, in flight or not.
GrowthEdited ==
  /\ curveEdits < MaxCurveEdits /\ curveEdits' = curveEdits + 1
  /\ growth' \in Curves
  /\ UNCHANGED <<draw, airborne, moment, shown, wagers, peak>>

-----------------------------------------------------------------------------
FlightInit ==
  /\ draw \in 0..(Draws - 1) /\ airborne = "BETTING" /\ moment = 0 /\ shown = 100
  /\ growth \in Curves /\ peak = 0 /\ curveEdits = 0
  /\ wagers = [b \in FlightBets |-> [target |-> 0, paid |-> 0, source |-> "-"]]

FlightNext == TakeOff \/ Tick \/ GrowthEdited \/ \E b \in FlightBets : CashOutNow(b)

FlightSpec == FlightInit /\ [][FlightNext]_flightVars

-----------------------------------------------------------------------------
(* Properties. *)

\* The draws that reach a target are those within the return to player: of all draws a
\* share of rtp / m reaches m, so that a player who always stops at m gets back the
\* return, and never more.  (rng.ts:104-113.)
EdgeIsKept ==
  \A m \in 101..MaxPoint : Point >= m <=> m * (Draws - draw) <= RtpPercent * Draws

\* The curve climbs, band by band at the band's rate, whatever order the bands were
\* given in, and the time to a height is the inverse.  (curve.ts:60, curve.test.ts.)
RateAt(height, segments) ==
  LET bands == Bands(segments)
  IN bands[CHOOSE i \in DOMAIN bands : bands[i].from <= height /\ Above(bands, i, height)].rate
CurveClimbs ==
  LET height == HeightAt(moment, growth)
  IN /\ moment = 0 => height = 0
     /\ HeightAt(moment + 1, growth) = height + RateAt(height, growth)
     /\ TimeTo(height, growth) = moment

\* Nobody is paid above the crash point or above what takeoff and ticks showed; an automatic
\* cash-out is paid its target, and one at or below the crash point is missed only if
\* no tick fell between the two.  (engine.ts:141-160.)
CashoutsAreHonest ==
  \A b \in FlightBets :
    /\ wagers[b].paid # 0 =>
         /\ wagers[b].paid <= Point
         /\ wagers[b].paid <= Greater(100, peak)
         /\ wagers[b].source = "auto" => wagers[b].paid = wagers[b].target
    /\ airborne # "BETTING" /\ OpenBet(b) /\ wagers[b].target > 0 =>
         peak < wagers[b].target \/ wagers[b].target > Point

\* What the flight shows and pays follows the draw and the curve.
FlightIsFair == EdgeIsKept /\ CurveClimbs /\ CashoutsAreHonest

=============================================================================
