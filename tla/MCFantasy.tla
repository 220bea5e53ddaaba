------------------------------ MODULE MCFantasy ------------------------------
(***************************************************************************)
(* A fantasy gameweek for TLC: two leagues, three players, three joins.    *)
(***************************************************************************)
EXTENDS FantasyLeague, TLC

CONSTANTS j1, j2, j3, a, b, l1, l2

(* Fantasy: one player joins both leagues, another the first. *)

MCJoinPlayer == [j \in Joins |-> IF j = j3 THEN b ELSE a]
MCJoinLeague == [j \in Joins |-> IF j = j2 THEN l2 ELSE l1]
MCPosition == [f \in 1..3 |-> IF f = 1 THEN "GKP" ELSE "MID"]
MCClub == [f \in 1..3 |-> 1]
MCCost == [f \in 1..3 |-> f]
MCLimits == [GKP |-> [min |-> 1, max |-> 1], MID |-> [min |-> 1, max |-> 2]]
MCJoinPick ==
  LET first  == [xi |-> {1, 2}, captain |-> 1, vice |-> 2]
      second == [xi |-> {1, 3}, captain |-> 3, vice |-> 1]
  IN [j \in Joins |-> IF j = j3 THEN second ELSE first]

\* The bonus points, which come with the official result, make a tie.
Scored(bonus) ==
  <<[points |-> 1, minutes |-> 0], [points |-> 2, minutes |-> 90], [points |-> 1 + bonus, minutes |-> 90]>>
MCPoints == [provisional |-> Scored(0), official |-> Scored(1)]
MCPayoutBps == <<5000, 3000, 2000>>
=============================================================================
