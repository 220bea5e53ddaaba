----------------------------- MODULE BetContract -----------------------------
(***************************************************************************)
(* What the bet engine promises about a player's money, whatever order its *)
(* handlers, its crashes and the operator's answers come in.  A debited    *)
(* bet gets at most one verdict: it is lost, or one win transaction claims *)
(* it.  Only that transaction may ever be paid; a lost bet is neither paid *)
(* nor returned, and a stake is returned at most once.                     *)
(***************************************************************************)
CONSTANTS Bets, Txns, NoTxn

VARIABLES debited, claim, lost, paid, returned

contractVars == <<debited, claim, lost, paid, returned>>

Init ==
  /\ debited = {} /\ lost = {} /\ returned = {} /\ paid = {}
  /\ claim = [b \in Bets |-> NoTxn]

\* The operator takes the stake.
Debit(b) ==
  /\ debited' = debited \cup {b}
  /\ UNCHANGED <<claim, lost, paid, returned>>

\* A cashout of a debited bet claims it for one transaction.
Claim(b, t) ==
  /\ b \in debited \ lost /\ claim[b] = NoTxn
  /\ \A other \in Bets : claim[other] # t
  /\ claim' = [claim EXCEPT ![b] = t]
  /\ UNCHANGED <<debited, lost, paid, returned>>

Lose(b) ==
  /\ b \in debited \ (lost \cup returned) /\ claim[b] = NoTxn
  /\ lost' = lost \cup {b}
  /\ UNCHANGED <<debited, claim, paid, returned>>

Pay(b) ==
  /\ claim[b] \in Txns \ paid
  /\ paid' = paid \cup {claim[b]}
  /\ UNCHANGED <<debited, claim, lost, returned>>

Return(b) ==
  /\ b \in debited \ (lost \cup returned)
  /\ returned' = returned \cup {b}
  /\ UNCHANGED <<debited, claim, lost, paid>>

Next ==
  \E b \in Bets : Debit(b) \/ Lose(b) \/ Pay(b) \/ Return(b) \/ (\E t \in Txns : Claim(b, t))

Spec == Init /\ [][Next]_contractVars
=============================================================================
