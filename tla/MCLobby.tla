------------------------------- MODULE MCLobby -------------------------------
(***************************************************************************)
(* What must come to an end in the lobby, for TLC: the bets of a round and *)
(* the fantasy gameweek.  They share no state: a behaviour is one of the   *)
(* two, the other stays as it was in the beginning.                        *)
(***************************************************************************)
EXTENDS RoundBets, MCFantasy

CONSTANTS r1, d1, p, d

\* A lobby bet that cashes out by itself, and a demo bet.
MCAccountOf == r1 :> p @@ d1 :> d
MCSeatOf == r1 :> "s1" @@ d1 :> "s2"

-----------------------------------------------------------------------------
VARIABLE moving  \* the component that moves
vars == <<roundVars, fantasyVars, moving>>

Init == moving \in {"rounds", "fantasy"} /\ RoundInit /\ FantasyInit

Next ==
  /\ \/ moving = "rounds"  /\ RoundNext   /\ UNCHANGED fantasyVars
     \/ moving = "fantasy" /\ FantasyNext /\ UNCHANGED roundVars
  /\ UNCHANGED moving

OfFantasy == moving = "fantasy"

\* While the gameweek moves: setInterval starts ticks again and again, FPL answers
\* again and again, an open transaction ends, and no step of a tick fails every time.
FantasyFairness ==
  /\ WF_fantasyVars(OfFantasy /\ TimePasses) /\ WF_fantasyVars(OfFantasy /\ FplChecksResults)
  /\ WF_fantasyVars(OfFantasy /\ LoadCatalog) /\ WF_fantasyVars(OfFantasy /\ LoadLivePoints)
  /\ \A j \in Joins : WF_fantasyVars(OfFantasy /\ (InsertMember(j) \/ PayEntry(j)))
  /\ \A k \in Ticks :
       /\ SF_fantasyVars(OfFantasy /\ StartTick(k) /\ catalog.checked) /\ SF_fantasyVars(OfFantasy /\ ListOpen(k))
       /\ \A l \in Leagues : SF_fantasyVars(OfFantasy /\ EnsureLeague(k, l)) /\ SF_fantasyVars(OfFantasy /\ SettleLeague(k, l))

Spec == Init /\ [][Next]_vars /\ RoundFairness /\ FantasyFairness
=============================================================================
