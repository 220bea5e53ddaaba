----------------------------- MODULE MCOperators -----------------------------
(***************************************************************************)
(* The operators' side and the back office, for TLC: calls of operators'   *)
(* wallets, the reconciliation of what they answered, their rows, their    *)
(* players' sessions, the games they may offer, administrators, listings   *)
(* and the money reports.  These share no state: a behaviour is one of a   *)
(* single component, the others stay as they were in the beginning.        *)
(***************************************************************************)
EXTENDS WalletCalls, Reconciliation, OperatorRegistry, OperatorSessions, Catalogue,
        AdminAccounts, Listings, MCReports

CONSTANTS tb, tw, tr, tb2, cb, cw1, cw2, cr, cb2, g1, g2, g3, g4

-----------------------------------------------------------------------------
(* Wallet calls: a bet; two payments of it, a cashout and a force-credit or two         *)
(* force-credits, under one transaction id and with one body, so that a later one is    *)
(* answered from the record of an earlier one; a void's rollback; and another bet.      *)

MCTxnKind == tb :> "bet" @@ tw :> "win" @@ tr :> "rollback" @@ tb2 :> "bet"
MCTxnBet == tb :> tb @@ tw :> tb @@ tr :> tb @@ tb2 :> tb2
MCTxnAmount == tb :> 2 @@ tw :> 3 @@ tr :> 2 @@ tb2 :> 3
MCCallTxn == cb :> tb @@ cw1 :> tw @@ cw2 :> tw @@ cr :> tr @@ cb2 :> tb2
MCCallBody == MCCallTxn
MCTries == [bet |-> 2, win |-> 2, rollback |-> 2]

\* Reconciliation: an amount and a status that differ, a rollback on which the sides
\* agree, and one that we lack.
Side(amount, status) == [amount |-> amount, status |-> status]
MCOurSide == 1 :> Side(1, "OK") @@ 2 :> Side(2, "FAILED") @@ 3 :> Side(1, "OK")
MCTheirSide == 1 :> Side(2, "OK") @@ 2 :> Side(2, "OK") @@ 3 :> Side(1, "OK") @@ 4 :> Side(2, "OK")
MCTheirTime == 1 :> 0 @@ 2 :> 0 @@ 3 :> 1 @@ 4 :> 1

\* An operator is created while its key is rotated and it is paused or edited.
MCChangeKind == g1 :> "create" @@ g2 :> "regen" @@ g3 :> "pause" @@ g4 :> "patch"

\* Bound: of the pause and the edit a behaviour has one.
PauseOrPatch == change'[g3].at = "new" \/ change'[g4].at = "new"

-----------------------------------------------------------------------------
(* The back office. *)

\* Two groups of rows and two tables.
MCGroupOf == [r \in Rows |-> r \div 2]
MCStreamOf == [r \in Rows |-> IF r = 1 THEN 1 ELSE 2]

\* Bound: one of the operators is invoiced, and renegotiates its share.
OneIsInvoiced == share'["op2"] = share["op2"] /\ \A i \in invoices' : i.operator = "op1"

-----------------------------------------------------------------------------
VARIABLE moving  \* the component that moves
sideVars == <<callVars, reconVars, registryVars, sessionVars, catalogueVars>>
officeVars == <<adminVars, listingVars, billingVars>>
vars == <<sideVars, officeVars, moving>>

\* What the others begin with makes no difference while they stand still.
Init ==
  /\ moving \in {"calls", "recon", "registry", "sessions", "catalogue", "admins", "listings", "billing"}
  /\ CallInit /\ ReconInit /\ RegistryInit /\ SessionsInit /\ CatalogueInit
  /\ AdminInit /\ ListingsInit /\ BillingInit
  /\ moving # "calls" => dialect = "native"
  /\ moving # "catalogue" => game[Base].type = CHOOSE type \in GameTypes : TRUE
  /\ \A o \in Customers : (moving = "billing" /\ o = "op1") \/ share[o] = CHOOSE bps \in Shares : TRUE

Next ==
  /\ \/ moving = "calls" /\ CallNext /\ UNCHANGED <<reconVars, registryVars, sessionVars, catalogueVars, officeVars>>
     \/ moving = "recon" /\ ReconNext /\ UNCHANGED <<callVars, registryVars, sessionVars, catalogueVars, officeVars>>
     \/ moving = "registry" /\ RegistryNext /\ PauseOrPatch /\ UNCHANGED <<callVars, reconVars, sessionVars, catalogueVars, officeVars>>
     \/ moving = "sessions" /\ SessionsNext /\ UNCHANGED <<callVars, reconVars, registryVars, catalogueVars, officeVars>>
     \/ moving = "catalogue" /\ CatalogueNext /\ UNCHANGED <<callVars, reconVars, registryVars, sessionVars, officeVars>>
     \/ moving = "admins" /\ AdminNext /\ UNCHANGED <<sideVars, listingVars, billingVars>>
     \/ moving = "listings" /\ ListingsNext /\ UNCHANGED <<sideVars, adminVars, billingVars>>
     \/ moving = "billing" /\ BillingNext /\ OneIsInvoiced /\ UNCHANGED <<sideVars, adminVars, listingVars>>
  /\ UNCHANGED moving

Spec == Init /\ [][Next]_vars
=============================================================================
