------------------------- MODULE OperatorBetsProofs -------------------------
(***************************************************************************)
(* Theorems about OperatorBets for any number of bets, cashout attempts,   *)
(* admins, rounds and crashes, and for every setting of the switches.      *)
(* IInv (OperatorBetsInv) is shown to be inductive; the safety properties  *)
(* and the refinement of BetContract follow from it.                       *)
(***************************************************************************)
EXTENDS OperatorBetsInv, TLAPS

\* IInv holds before the first bet.
LEMMA InitIInv == ASSUME Init PROVE IInv
<1>1. TypeOK
  <2>1. 0 \in 0..MaxRound /\ 1 \in 0..MaxRound /\ 0 \in 0..MaxCrashes
    BY BetsAssumption
  <2> QED BY <2>1 DEF Init, TypeOK, BetState
<1>2. Claims
  BY SMTT(30) DEF Init, Claims, RowHasClaim, AttemptHasClaim, OperatorHasClaim, AdminHasClaim,
         RecoveryHasClaim, RollbackIsForReturning, SettledIsPaid, PlayedIsDebited
<1> QED BY <1>1, <1>2 DEF IInv

\* Every step keeps the types.  The claims are needed where an id read from a
\* row is put on the wire.
LEMMA TypeStep == ASSUME IInv, [Next]_vars PROVE TypeOK'
<1> USE BetsAssumption
<1> USE DEF IInv, Claims, TypeOK, RowHasClaim, AttemptHasClaim, OperatorHasClaim, AdminHasClaim,
      RecoveryHasClaim, RollbackIsForReturning, SettledIsPaid, PlayedIsDebited,
      ClaimedStates, Returning, BetState, Sources, Target,
      Accepts, Move, Send, Abandon, Record, LeaveSeat, CashoutGoes, VoidingGoes, AdminGoes,
      Call, BetCall, WinCall, RollbackCall, AllCalls,
      bookVars, operatorVars, engineVars, expiryVars, cashoutVars, adminVars, recoveryVars, processVars
<1>1. ASSUME NEW b \in Bets, PlaceBet(b) PROVE TypeOK'
  BY <1>1 DEF PlaceBet
<1>2. ASSUME NEW b \in Bets, BetAccepted(b) PROVE TypeOK'
  BY <1>2 DEF BetAccepted
<1>3. ASSUME NEW b \in Bets, PushBet(b) PROVE TypeOK'
  BY <1>3 DEF PushBet
<1>4. ASSUME NEW b \in Bets, BetRejected(b) PROVE TypeOK'
  BY <1>4 DEF BetRejected
<1>5. ASSUME NEW b \in Bets, BetUnanswered(b) PROVE TypeOK'
  BY <1>5 DEF BetUnanswered
<1>6. ASSUME NEW b \in Bets, BetBookingFails(b) PROVE TypeOK'
  BY <1>6 DEF BetBookingFails
<1>7. ASSUME NEW b \in Bets, ListForVoid(b) PROVE TypeOK'
  BY <1>7 DEF ListForVoid
<1>8. ASSUME NEW b \in Bets, MarkForVoid(b) PROVE TypeOK'
  BY <1>8 DEF MarkForVoid
<1>9. ASSUME NEW b \in Bets, ReadForVoid(b) PROVE TypeOK'
  BY <1>9 DEF ReadForVoid
<1>10. ASSUME NEW b \in Bets, StartVoid(b) PROVE TypeOK'
  BY <1>10 DEF StartVoid
<1>11. ASSUME NEW b \in Bets, FinishVoid(b) PROVE TypeOK'
  BY <1>11 DEF FinishVoid
<1>12. ASSUME NEW b \in Bets, VoidFails(b) PROVE TypeOK'
  BY <1>12 DEF VoidFails
<1>13. ASSUME NEW b \in Bets, OperatorDebits(b) PROVE TypeOK'
  BY <1>13 DEF OperatorDebits
<1>14. ASSUME NEW b \in Bets, OperatorRollsBack(b) PROVE TypeOK'
  BY <1>14 DEF OperatorRollsBack
<1>15. ASSUME NEW b \in toExpire, ExpireBet(b) PROVE TypeOK'
  BY <1>15 DEF ExpireBet
<1>16. ASSUME NEW b \in Bets, RecoverPending(b) PROVE TypeOK'
  BY <1>16 DEF RecoverPending
<1>17. ASSUME NEW b \in Bets, SendRecoveryCall(b) PROVE TypeOK'
  BY <1>17 DEF SendRecoveryCall
<1>18. ASSUME NEW t \in Cashouts, RequestCashout(t) PROVE TypeOK'
  BY SMTT(30), <1>18 DEF RequestCashout
<1>19. ASSUME NEW t \in Cashouts, WinAccepted(t) PROVE TypeOK'
  BY <1>19 DEF WinAccepted
<1>20. ASSUME NEW t \in Cashouts, WinRejected(t) PROVE TypeOK'
  BY <1>20 DEF WinRejected
<1>21. ASSUME NEW t \in Cashouts, WinUnanswered(t) PROVE TypeOK'
  BY <1>21 DEF WinUnanswered
<1>22. ASSUME NEW t \in Cashouts, SettleWin(t) PROVE TypeOK'
  BY <1>22 DEF SettleWin
<1>23. ASSUME NEW t \in Cashouts, FailWin(t) PROVE TypeOK'
  BY <1>23 DEF FailWin
<1>24. ASSUME NEW t \in Cashouts, AlertWinFailed(t) PROVE TypeOK'
  BY <1>24 DEF AlertWinFailed
<1>25. ASSUME NEW t \in Cashouts, RequestPausedCashout(t) PROVE TypeOK'
  BY SMTT(30), <1>25 DEF RequestPausedCashout
<1>26. ASSUME NEW t \in Cashouts, FailPausedWin(t) PROVE TypeOK'
  BY <1>26 DEF FailPausedWin
<1>27. ASSUME NEW t \in Cashouts, AlertPausedWin(t) PROVE TypeOK'
  BY <1>27 DEF AlertPausedWin
<1>28. ASSUME NEW t \in Cashouts, OperatorCredits(t) PROVE TypeOK'
  BY <1>28 DEF OperatorCredits
<1>29. ASSUME NEW t \in Cashouts, NEW b \in Bets, StartCashout(t, b) PROVE TypeOK'
  BY <1>29 DEF StartCashout
<1>30. ASSUME NEW a \in Admins, SendForceCredit(a) PROVE TypeOK'
  BY <1>30 DEF SendForceCredit
<1>31. ASSUME NEW a \in Admins, ForceCreditAccepted(a) PROVE TypeOK'
  BY <1>31 DEF ForceCreditAccepted
<1>32. ASSUME NEW a \in Admins, ForceCreditRejected(a) PROVE TypeOK'
  BY <1>32 DEF ForceCreditRejected
<1>33. ASSUME NEW a \in Admins, ForceCreditUnanswered(a) PROVE TypeOK'
  BY <1>33 DEF ForceCreditUnanswered
<1>34. ASSUME NEW a \in Admins, BookForceCredit(a) PROVE TypeOK'
  BY <1>34 DEF BookForceCredit
<1>35. ASSUME NEW a \in Admins, NEW b \in Bets, CheckForceCredit(a, b) PROVE TypeOK'
  BY <1>35 DEF CheckForceCredit
<1>36. ASSUME NEW r \in toList, ListForExpiry(r) PROVE TypeOK'
  BY <1>36 DEF ListForExpiry
<1>37. ASSUME ExpiryFails PROVE TypeOK'
  BY <1>37 DEF ExpiryFails
<1>38. ASSUME StartFlight PROVE TypeOK'
  BY <1>38 DEF StartFlight
<1>39. ASSUME RoundCrashes PROVE TypeOK'
  BY <1>39 DEF RoundCrashes
<1>40. ASSUME NextRound PROVE TypeOK'
  BY <1>40 DEF NextRound
<1>41. ASSUME ArchiveGame PROVE TypeOK'
  BY <1>41 DEF ArchiveGame
<1>42. ASSUME PauseOrResume PROVE TypeOK'
  BY <1>42 DEF PauseOrResume
<1>43. ASSUME StartRecovery PROVE TypeOK'
  BY <1>43 DEF StartRecovery
<1>44. ASSUME ListRollbacks PROVE TypeOK'
  BY <1>44 DEF ListRollbacks
<1>45. ASSUME RollbackRecovered PROVE TypeOK'
  BY <1>45 DEF RollbackRecovered
<1>46. ASSUME RollbackUnrecovered PROVE TypeOK'
  BY <1>46 DEF RollbackUnrecovered
<1>47. ASSUME ListSettling PROVE TypeOK'
  BY <1>47 DEF ListSettling
<1>48. ASSUME WinRecovered PROVE TypeOK'
  BY <1>48 DEF WinRecovered
<1>49. ASSUME WinUnrecovered PROVE TypeOK'
  BY <1>49 DEF WinUnrecovered
<1>50. ASSUME AlertUnrecovered PROVE TypeOK'
  BY <1>50 DEF AlertUnrecovered
<1>51. ASSUME FinishRecovery PROVE TypeOK'
  BY <1>51 DEF FinishRecovery
<1>52. ASSUME ProcessCrash PROVE TypeOK'
  BY SMTT(30), <1>52 DEF ProcessCrash
<1>53. CASE UNCHANGED vars
  BY SMTT(30), <1>53 DEF vars
<1>54. QED
  BY <1>1, <1>2, <1>3, <1>4, <1>5, <1>6, <1>7, <1>8, <1>9, <1>10, <1>11, <1>12, 
     <1>13, <1>14, <1>15, <1>16, <1>17, <1>18, <1>19, <1>20, <1>21, <1>22, <1>23, 
     <1>24, <1>25, <1>26, <1>27, <1>28, <1>29, <1>30, <1>31, <1>32, <1>33, <1>34, 
     <1>35, <1>36, <1>37, <1>38, <1>39, <1>40, <1>41, <1>42, <1>43, <1>44, <1>45, 
     <1>46, <1>47, <1>48, <1>49, <1>50, <1>51, <1>52, <1>53
     DEF Next, AnswerBet, Operator, Expiry, Engine, Cashout, Void, ForceCredit, Recovery

\* Every step keeps the claims.
LEMMA ClaimStep == ASSUME IInv, [Next]_vars PROVE Claims'
<1> USE BetsAssumption
<1> USE DEF IInv, Claims, TypeOK, RowHasClaim, AttemptHasClaim, OperatorHasClaim, AdminHasClaim,
      RecoveryHasClaim, RollbackIsForReturning, SettledIsPaid, PlayedIsDebited,
      ClaimedStates, Returning, BetState, Sources, Target,
      Accepts, Move, Send, Abandon, Record, LeaveSeat, CashoutGoes, VoidingGoes, AdminGoes,
      Call, BetCall, WinCall, RollbackCall, AllCalls,
      bookVars, operatorVars, engineVars, expiryVars, cashoutVars, adminVars, recoveryVars, processVars
<1>1. ASSUME NEW b \in Bets, PlaceBet(b) PROVE Claims'
  BY <1>1 DEF PlaceBet
<1>2. ASSUME NEW b \in Bets, BetAccepted(b) PROVE Claims'
  BY <1>2 DEF BetAccepted
<1>3. ASSUME NEW b \in Bets, PushBet(b) PROVE Claims'
  BY <1>3 DEF PushBet
<1>4. ASSUME NEW b \in Bets, BetRejected(b) PROVE Claims'
  BY <1>4 DEF BetRejected
<1>5. ASSUME NEW b \in Bets, BetUnanswered(b) PROVE Claims'
  BY <1>5 DEF BetUnanswered
<1>6. ASSUME NEW b \in Bets, BetBookingFails(b) PROVE Claims'
  BY <1>6 DEF BetBookingFails
<1>7. ASSUME NEW b \in Bets, ListForVoid(b) PROVE Claims'
  BY <1>7 DEF ListForVoid
<1>8. ASSUME NEW b \in Bets, MarkForVoid(b) PROVE Claims'
  BY <1>8 DEF MarkForVoid
<1>9. ASSUME NEW b \in Bets, ReadForVoid(b) PROVE Claims'
  BY <1>9 DEF ReadForVoid
<1>10. ASSUME NEW b \in Bets, StartVoid(b) PROVE Claims'
  BY <1>10 DEF StartVoid
<1>11. ASSUME NEW b \in Bets, FinishVoid(b) PROVE Claims'
  BY <1>11 DEF FinishVoid
<1>12. ASSUME NEW b \in Bets, VoidFails(b) PROVE Claims'
  BY <1>12 DEF VoidFails
<1>13. ASSUME NEW b \in Bets, OperatorDebits(b) PROVE Claims'
  BY <1>13 DEF OperatorDebits
<1>14. ASSUME NEW b \in Bets, OperatorRollsBack(b) PROVE Claims'
  BY <1>14 DEF OperatorRollsBack
<1>15. ASSUME NEW b \in toExpire, ExpireBet(b) PROVE Claims'
  BY <1>15 DEF ExpireBet
<1>16. ASSUME NEW b \in Bets, RecoverPending(b) PROVE Claims'
  BY <1>16 DEF RecoverPending
<1>17. ASSUME NEW b \in Bets, SendRecoveryCall(b) PROVE Claims'
  BY <1>17 DEF SendRecoveryCall
<1>18. ASSUME NEW t \in Cashouts, RequestCashout(t) PROVE Claims'
  BY SMTT(30), <1>18 DEF RequestCashout
<1>19. ASSUME NEW t \in Cashouts, WinAccepted(t) PROVE Claims'
  BY <1>19 DEF WinAccepted
<1>20. ASSUME NEW t \in Cashouts, WinRejected(t) PROVE Claims'
  BY <1>20 DEF WinRejected
<1>21. ASSUME NEW t \in Cashouts, WinUnanswered(t) PROVE Claims'
  BY <1>21 DEF WinUnanswered
<1>22. ASSUME NEW t \in Cashouts, SettleWin(t) PROVE Claims'
  BY <1>22 DEF SettleWin
<1>23. ASSUME NEW t \in Cashouts, FailWin(t) PROVE Claims'
  BY <1>23 DEF FailWin
<1>24. ASSUME NEW t \in Cashouts, AlertWinFailed(t) PROVE Claims'
  BY <1>24 DEF AlertWinFailed
<1>25. ASSUME NEW t \in Cashouts, RequestPausedCashout(t) PROVE Claims'
  BY SMTT(30), <1>25 DEF RequestPausedCashout
<1>26. ASSUME NEW t \in Cashouts, FailPausedWin(t) PROVE Claims'
  BY <1>26 DEF FailPausedWin
<1>27. ASSUME NEW t \in Cashouts, AlertPausedWin(t) PROVE Claims'
  BY <1>27 DEF AlertPausedWin
<1>28. ASSUME NEW t \in Cashouts, OperatorCredits(t) PROVE Claims'
  BY <1>28 DEF OperatorCredits
<1>29. ASSUME NEW t \in Cashouts, NEW b \in Bets, StartCashout(t, b) PROVE Claims'
  BY <1>29 DEF StartCashout
<1>30. ASSUME NEW a \in Admins, SendForceCredit(a) PROVE Claims'
  <2> DEFINE t == winTxn[adminBet[a]]
  <2>1. t \in Cashouts /\ adminBet[a] \in Bets
    BY <1>30 DEF SendForceCredit
  <2>2. (idem[t] = "ok" => t \in credited) /\ cashoutBet[t] \in Bets /\ winTxn[cashoutBet[t]] = t
    <3>1. winTxn[adminBet[a]] # NoTxn
      BY <2>1
    <3>2. cashoutBet[t] = adminBet[a]
      BY <2>1, <3>1
    <3>3. idem[t] = "ok" => t \in credited
      BY <2>1
    <3> QED BY <2>1, <3>2, <3>3
  <2>3. /\ UNCHANGED <<state, winTxn, idem, credited, cashout, cashoutBet, adminBet, debited,
                       rolledBack, refunded, server, recovery, todo, recovering>>
        /\ calls' \in {calls, calls \cup {WinCall(t)}}
        /\ \E pc \in {"book", "idle", "calling"} :
             admin' = [admin EXCEPT ![a] = pc] /\ (pc = "book" => idem[t] = "ok")
    BY <1>30 DEF SendForceCredit
  <2> QED BY <2>1, <2>2, <2>3
<1>31. ASSUME NEW a \in Admins, ForceCreditAccepted(a) PROVE Claims'
  BY <1>31 DEF ForceCreditAccepted
<1>32. ASSUME NEW a \in Admins, ForceCreditRejected(a) PROVE Claims'
  BY <1>32 DEF ForceCreditRejected
<1>33. ASSUME NEW a \in Admins, ForceCreditUnanswered(a) PROVE Claims'
  BY <1>33 DEF ForceCreditUnanswered
<1>34. ASSUME NEW a \in Admins, BookForceCredit(a) PROVE Claims'
  BY SMTT(30), <1>34 DEF BookForceCredit
<1>35. ASSUME NEW a \in Admins, NEW b \in Bets, CheckForceCredit(a, b) PROVE Claims'
  BY <1>35 DEF CheckForceCredit
<1>36. ASSUME NEW r \in toList, ListForExpiry(r) PROVE Claims'
  BY <1>36 DEF ListForExpiry
<1>37. ASSUME ExpiryFails PROVE Claims'
  BY <1>37 DEF ExpiryFails
<1>38. ASSUME StartFlight PROVE Claims'
  BY <1>38 DEF StartFlight
<1>39. ASSUME RoundCrashes PROVE Claims'
  BY <1>39 DEF RoundCrashes
<1>40. ASSUME NextRound PROVE Claims'
  BY <1>40 DEF NextRound
<1>41. ASSUME ArchiveGame PROVE Claims'
  BY <1>41 DEF ArchiveGame
<1>42. ASSUME PauseOrResume PROVE Claims'
  BY <1>42 DEF PauseOrResume
<1>43. ASSUME StartRecovery PROVE Claims'
  BY <1>43 DEF StartRecovery
<1>44. ASSUME ListRollbacks PROVE Claims'
  BY <1>44 DEF ListRollbacks
<1>45. ASSUME RollbackRecovered PROVE Claims'
  BY <1>45 DEF RollbackRecovered
<1>46. ASSUME RollbackUnrecovered PROVE Claims'
  BY <1>46 DEF RollbackUnrecovered
<1>47. ASSUME ListSettling PROVE Claims'
  BY <1>47 DEF ListSettling
<1>48. ASSUME WinRecovered PROVE Claims'
  BY <1>48 DEF WinRecovered
<1>49. ASSUME WinUnrecovered PROVE Claims'
  BY <1>49 DEF WinUnrecovered
<1>50. ASSUME AlertUnrecovered PROVE Claims'
  BY <1>50 DEF AlertUnrecovered
<1>51. ASSUME FinishRecovery PROVE Claims'
  BY <1>51 DEF FinishRecovery
<1>52. ASSUME ProcessCrash PROVE Claims'
  BY <1>52 DEF ProcessCrash
<1>53. CASE UNCHANGED vars
  BY <1>53 DEF vars
<1>54. QED
  BY ZenonT(60), <1>1, <1>2, <1>3, <1>4, <1>5, <1>6, <1>7, <1>8, <1>9, <1>10, <1>11, <1>12, 
     <1>13, <1>14, <1>15, <1>16, <1>17, <1>18, <1>19, <1>20, <1>21, <1>22, <1>23, 
     <1>24, <1>25, <1>26, <1>27, <1>28, <1>29, <1>30, <1>31, <1>32, <1>33, <1>34, 
     <1>35, <1>36, <1>37, <1>38, <1>39, <1>40, <1>41, <1>42, <1>43, <1>44, <1>45, 
     <1>46, <1>47, <1>48, <1>49, <1>50, <1>51, <1>52, <1>53
     DEF Next, AnswerBet, Operator, Expiry, Engine, Cashout, Void, ForceCredit, Recovery

\* The inductive invariant is an invariant.
THEOREM Invariance == Spec => []IInv
<1>1. ASSUME IInv, [Next]_vars PROVE IInv'
  BY <1>1, TypeStep, ClaimStep DEF IInv
<1> QED BY InitIInv, <1>1, PTL DEF Spec

\* Type correctness, for every value of the constants.
THEOREM TypeCorrect == Spec => []TypeOK
  BY Invariance, PTL DEF IInv

\* The operator pays a bet under one id only, the one its row holds, and never a
\* bet that is in play or lost.
THEOREM CreditClaimed == Spec => []CreditIsClaimed
<1>1. IInv => CreditIsClaimed
  BY BetsAssumption DEF IInv, Claims, TypeOK, RowHasClaim, OperatorHasClaim, ClaimedStates, CreditIsClaimed
<1> QED BY Invariance, <1>1, PTL

\* A SETTLED row is backed by a /win the operator executed.
THEOREM SettledPaid == Spec => []SettledIsPaid
  BY Invariance, PTL DEF IInv, Claims

\* A bet in play, won or lost was debited.
THEOREM PlayedDebited == Spec => []PlayedIsDebited
  BY Invariance, PTL DEF IInv, Claims

\* A lost bet is not refunded, nor about to be.
THEOREM LostKept == Spec => []LostKeepsStake
<1>1. IInv => LostKeepsStake
  BY DEF IInv, Claims, RollbackIsForReturning, Returning, LostKeepsStake
<1> QED BY Invariance, <1>1, PTL

\* The stake of a played bet was debited, and that of a lost one stays.
THEOREM StakeRight == Spec => []StakeIsRight
  BY PlayedDebited, LostKept, PTL DEF StakeIsRight

\* An attempt finds its own id in the row until it ends.
THEOREM AttemptOwns == Spec => []AttemptOwnsRow
<1>1. IInv => AttemptOwnsRow
  BY DEF IInv, Claims, AttemptHasClaim, AttemptOwnsRow
<1> QED BY Invariance, <1>1, PTL

\* No step rewrites a win_txn_id; the transitions that write it again write the
\* id the row already holds.
LEMMA ClaimStableStep ==
  ASSUME IInv, [Next]_vars
  PROVE  \A c \in Bets : winTxn[c] # NoTxn => winTxn'[c] = winTxn[c]
<1> USE BetsAssumption
<1> USE DEF IInv, Claims, TypeOK, RowHasClaim, AttemptHasClaim, OperatorHasClaim, AdminHasClaim,
      RecoveryHasClaim, RollbackIsForReturning, SettledIsPaid, PlayedIsDebited,
      ClaimedStates, Returning, BetState, Sources, Target,
      Accepts, Move, Send, Abandon, Record, LeaveSeat, CashoutGoes, VoidingGoes, AdminGoes,
      Call, BetCall, WinCall, RollbackCall, AllCalls,
      bookVars, operatorVars, engineVars, expiryVars, cashoutVars, adminVars, recoveryVars, processVars
<1>1. ASSUME NEW b \in Bets, PlaceBet(b) PROVE \A c \in Bets : winTxn[c] # NoTxn => winTxn'[c] = winTxn[c]
  BY <1>1 DEF PlaceBet
<1>2. ASSUME NEW b \in Bets, BetAccepted(b) PROVE \A c \in Bets : winTxn[c] # NoTxn => winTxn'[c] = winTxn[c]
  BY <1>2 DEF BetAccepted
<1>3. ASSUME NEW b \in Bets, PushBet(b) PROVE \A c \in Bets : winTxn[c] # NoTxn => winTxn'[c] = winTxn[c]
  BY <1>3 DEF PushBet
<1>4. ASSUME NEW b \in Bets, BetRejected(b) PROVE \A c \in Bets : winTxn[c] # NoTxn => winTxn'[c] = winTxn[c]
  BY <1>4 DEF BetRejected
<1>5. ASSUME NEW b \in Bets, BetUnanswered(b) PROVE \A c \in Bets : winTxn[c] # NoTxn => winTxn'[c] = winTxn[c]
  BY <1>5 DEF BetUnanswered
<1>6. ASSUME NEW b \in Bets, BetBookingFails(b) PROVE \A c \in Bets : winTxn[c] # NoTxn => winTxn'[c] = winTxn[c]
  BY <1>6 DEF BetBookingFails
<1>7. ASSUME NEW b \in Bets, ListForVoid(b) PROVE \A c \in Bets : winTxn[c] # NoTxn => winTxn'[c] = winTxn[c]
  BY <1>7 DEF ListForVoid
<1>8. ASSUME NEW b \in Bets, MarkForVoid(b) PROVE \A c \in Bets : winTxn[c] # NoTxn => winTxn'[c] = winTxn[c]
  BY <1>8 DEF MarkForVoid
<1>9. ASSUME NEW b \in Bets, ReadForVoid(b) PROVE \A c \in Bets : winTxn[c] # NoTxn => winTxn'[c] = winTxn[c]
  BY <1>9 DEF ReadForVoid
<1>10. ASSUME NEW b \in Bets, StartVoid(b) PROVE \A c \in Bets : winTxn[c] # NoTxn => winTxn'[c] = winTxn[c]
  BY <1>10 DEF StartVoid
<1>11. ASSUME NEW b \in Bets, FinishVoid(b) PROVE \A c \in Bets : winTxn[c] # NoTxn => winTxn'[c] = winTxn[c]
  BY <1>11 DEF FinishVoid
<1>12. ASSUME NEW b \in Bets, VoidFails(b) PROVE \A c \in Bets : winTxn[c] # NoTxn => winTxn'[c] = winTxn[c]
  BY <1>12 DEF VoidFails
<1>13. ASSUME NEW b \in Bets, OperatorDebits(b) PROVE \A c \in Bets : winTxn[c] # NoTxn => winTxn'[c] = winTxn[c]
  BY <1>13 DEF OperatorDebits
<1>14. ASSUME NEW b \in Bets, OperatorRollsBack(b) PROVE \A c \in Bets : winTxn[c] # NoTxn => winTxn'[c] = winTxn[c]
  BY <1>14 DEF OperatorRollsBack
<1>15. ASSUME NEW b \in toExpire, ExpireBet(b) PROVE \A c \in Bets : winTxn[c] # NoTxn => winTxn'[c] = winTxn[c]
  BY <1>15 DEF ExpireBet
<1>16. ASSUME NEW b \in Bets, RecoverPending(b) PROVE \A c \in Bets : winTxn[c] # NoTxn => winTxn'[c] = winTxn[c]
  BY <1>16 DEF RecoverPending
<1>17. ASSUME NEW b \in Bets, SendRecoveryCall(b) PROVE \A c \in Bets : winTxn[c] # NoTxn => winTxn'[c] = winTxn[c]
  BY <1>17 DEF SendRecoveryCall
<1>18. ASSUME NEW t \in Cashouts, RequestCashout(t) PROVE \A c \in Bets : winTxn[c] # NoTxn => winTxn'[c] = winTxn[c]
  BY <1>18 DEF RequestCashout
<1>19. ASSUME NEW t \in Cashouts, WinAccepted(t) PROVE \A c \in Bets : winTxn[c] # NoTxn => winTxn'[c] = winTxn[c]
  BY <1>19 DEF WinAccepted
<1>20. ASSUME NEW t \in Cashouts, WinRejected(t) PROVE \A c \in Bets : winTxn[c] # NoTxn => winTxn'[c] = winTxn[c]
  BY <1>20 DEF WinRejected
<1>21. ASSUME NEW t \in Cashouts, WinUnanswered(t) PROVE \A c \in Bets : winTxn[c] # NoTxn => winTxn'[c] = winTxn[c]
  BY <1>21 DEF WinUnanswered
<1>22. ASSUME NEW t \in Cashouts, SettleWin(t) PROVE \A c \in Bets : winTxn[c] # NoTxn => winTxn'[c] = winTxn[c]
  BY <1>22 DEF SettleWin
<1>23. ASSUME NEW t \in Cashouts, FailWin(t) PROVE \A c \in Bets : winTxn[c] # NoTxn => winTxn'[c] = winTxn[c]
  BY <1>23 DEF FailWin
<1>24. ASSUME NEW t \in Cashouts, AlertWinFailed(t) PROVE \A c \in Bets : winTxn[c] # NoTxn => winTxn'[c] = winTxn[c]
  BY <1>24 DEF AlertWinFailed
<1>25. ASSUME NEW t \in Cashouts, RequestPausedCashout(t) PROVE \A c \in Bets : winTxn[c] # NoTxn => winTxn'[c] = winTxn[c]
  BY <1>25 DEF RequestPausedCashout
<1>26. ASSUME NEW t \in Cashouts, FailPausedWin(t) PROVE \A c \in Bets : winTxn[c] # NoTxn => winTxn'[c] = winTxn[c]
  BY <1>26 DEF FailPausedWin
<1>27. ASSUME NEW t \in Cashouts, AlertPausedWin(t) PROVE \A c \in Bets : winTxn[c] # NoTxn => winTxn'[c] = winTxn[c]
  BY <1>27 DEF AlertPausedWin
<1>28. ASSUME NEW t \in Cashouts, OperatorCredits(t) PROVE \A c \in Bets : winTxn[c] # NoTxn => winTxn'[c] = winTxn[c]
  BY <1>28 DEF OperatorCredits
<1>29. ASSUME NEW t \in Cashouts, NEW b \in Bets, StartCashout(t, b) PROVE \A c \in Bets : winTxn[c] # NoTxn => winTxn'[c] = winTxn[c]
  BY <1>29 DEF StartCashout
<1>30. ASSUME NEW a \in Admins, SendForceCredit(a) PROVE \A c \in Bets : winTxn[c] # NoTxn => winTxn'[c] = winTxn[c]
  BY <1>30 DEF SendForceCredit
<1>31. ASSUME NEW a \in Admins, ForceCreditAccepted(a) PROVE \A c \in Bets : winTxn[c] # NoTxn => winTxn'[c] = winTxn[c]
  BY <1>31 DEF ForceCreditAccepted
<1>32. ASSUME NEW a \in Admins, ForceCreditRejected(a) PROVE \A c \in Bets : winTxn[c] # NoTxn => winTxn'[c] = winTxn[c]
  BY <1>32 DEF ForceCreditRejected
<1>33. ASSUME NEW a \in Admins, ForceCreditUnanswered(a) PROVE \A c \in Bets : winTxn[c] # NoTxn => winTxn'[c] = winTxn[c]
  BY <1>33 DEF ForceCreditUnanswered
<1>34. ASSUME NEW a \in Admins, BookForceCredit(a) PROVE \A c \in Bets : winTxn[c] # NoTxn => winTxn'[c] = winTxn[c]
  BY <1>34 DEF BookForceCredit
<1>35. ASSUME NEW a \in Admins, NEW b \in Bets, CheckForceCredit(a, b) PROVE \A c \in Bets : winTxn[c] # NoTxn => winTxn'[c] = winTxn[c]
  BY <1>35 DEF CheckForceCredit
<1>36. ASSUME NEW r \in toList, ListForExpiry(r) PROVE \A c \in Bets : winTxn[c] # NoTxn => winTxn'[c] = winTxn[c]
  BY <1>36 DEF ListForExpiry
<1>37. ASSUME ExpiryFails PROVE \A c \in Bets : winTxn[c] # NoTxn => winTxn'[c] = winTxn[c]
  BY <1>37 DEF ExpiryFails
<1>38. ASSUME StartFlight PROVE \A c \in Bets : winTxn[c] # NoTxn => winTxn'[c] = winTxn[c]
  BY <1>38 DEF StartFlight
<1>39. ASSUME RoundCrashes PROVE \A c \in Bets : winTxn[c] # NoTxn => winTxn'[c] = winTxn[c]
  BY <1>39 DEF RoundCrashes
<1>40. ASSUME NextRound PROVE \A c \in Bets : winTxn[c] # NoTxn => winTxn'[c] = winTxn[c]
  BY <1>40 DEF NextRound
<1>41. ASSUME ArchiveGame PROVE \A c \in Bets : winTxn[c] # NoTxn => winTxn'[c] = winTxn[c]
  BY <1>41 DEF ArchiveGame
<1>42. ASSUME PauseOrResume PROVE \A c \in Bets : winTxn[c] # NoTxn => winTxn'[c] = winTxn[c]
  BY <1>42 DEF PauseOrResume
<1>43. ASSUME StartRecovery PROVE \A c \in Bets : winTxn[c] # NoTxn => winTxn'[c] = winTxn[c]
  BY <1>43 DEF StartRecovery
<1>44. ASSUME ListRollbacks PROVE \A c \in Bets : winTxn[c] # NoTxn => winTxn'[c] = winTxn[c]
  BY <1>44 DEF ListRollbacks
<1>45. ASSUME RollbackRecovered PROVE \A c \in Bets : winTxn[c] # NoTxn => winTxn'[c] = winTxn[c]
  BY <1>45 DEF RollbackRecovered
<1>46. ASSUME RollbackUnrecovered PROVE \A c \in Bets : winTxn[c] # NoTxn => winTxn'[c] = winTxn[c]
  BY <1>46 DEF RollbackUnrecovered
<1>47. ASSUME ListSettling PROVE \A c \in Bets : winTxn[c] # NoTxn => winTxn'[c] = winTxn[c]
  BY <1>47 DEF ListSettling
<1>48. ASSUME WinRecovered PROVE \A c \in Bets : winTxn[c] # NoTxn => winTxn'[c] = winTxn[c]
  BY <1>48 DEF WinRecovered
<1>49. ASSUME WinUnrecovered PROVE \A c \in Bets : winTxn[c] # NoTxn => winTxn'[c] = winTxn[c]
  BY <1>49 DEF WinUnrecovered
<1>50. ASSUME AlertUnrecovered PROVE \A c \in Bets : winTxn[c] # NoTxn => winTxn'[c] = winTxn[c]
  BY <1>50 DEF AlertUnrecovered
<1>51. ASSUME FinishRecovery PROVE \A c \in Bets : winTxn[c] # NoTxn => winTxn'[c] = winTxn[c]
  BY <1>51 DEF FinishRecovery
<1>52. ASSUME ProcessCrash PROVE \A c \in Bets : winTxn[c] # NoTxn => winTxn'[c] = winTxn[c]
  BY <1>52 DEF ProcessCrash
<1>53. CASE UNCHANGED vars
  BY <1>53 DEF vars
<1>54. QED
  BY <1>1, <1>2, <1>3, <1>4, <1>5, <1>6, <1>7, <1>8, <1>9, <1>10, <1>11, <1>12, 
     <1>13, <1>14, <1>15, <1>16, <1>17, <1>18, <1>19, <1>20, <1>21, <1>22, <1>23, 
     <1>24, <1>25, <1>26, <1>27, <1>28, <1>29, <1>30, <1>31, <1>32, <1>33, <1>34, 
     <1>35, <1>36, <1>37, <1>38, <1>39, <1>40, <1>41, <1>42, <1>43, <1>44, <1>45, 
     <1>46, <1>47, <1>48, <1>49, <1>50, <1>51, <1>52, <1>53
     DEF Next, AnswerBet, Operator, Expiry, Engine, Cashout, Void, ForceCredit, Recovery

\* The win_txn_id of a row never changes once written.
THEOREM ClaimStable == Spec => ClaimIsStable
<1>1. IInv /\ [Next]_vars => [KeepsClaims]_vars
  BY ClaimStableStep DEF KeepsClaims
<1> QED BY Invariance, <1>1, PTL DEF Spec, ClaimIsStable

\* Every step of the engine is a step of the money contract or leaves what the
\* contract speaks of alone.
LEMMA ContractStep ==
  ASSUME IInv, [Next]_vars
  PROVE  [Contract!Next]_(Contract!contractVars)
<1> USE BetsAssumption
<1> USE DEF IInv, Claims, TypeOK, RowHasClaim, AttemptHasClaim, OperatorHasClaim, AdminHasClaim,
      RecoveryHasClaim, RollbackIsForReturning, SettledIsPaid, PlayedIsDebited,
      ClaimedStates, Returning, BetState, Sources, Target,
      Accepts, Move, Send, Abandon, Record, LeaveSeat, CashoutGoes, VoidingGoes, AdminGoes,
      Call, BetCall, WinCall, RollbackCall, AllCalls,
      bookVars, operatorVars, engineVars, expiryVars, cashoutVars, adminVars, recoveryVars, processVars
<1> USE DEF Contract!contractVars
<1>1. ASSUME NEW b \in Bets, PlaceBet(b) PROVE [Contract!Next]_(Contract!contractVars)
  BY <1>1 DEF PlaceBet
<1>2. ASSUME NEW b \in Bets, BetAccepted(b) PROVE [Contract!Next]_(Contract!contractVars)
  BY <1>2 DEF BetAccepted
<1>3. ASSUME NEW b \in Bets, PushBet(b) PROVE [Contract!Next]_(Contract!contractVars)
  BY <1>3 DEF PushBet
<1>4. ASSUME NEW b \in Bets, BetRejected(b) PROVE [Contract!Next]_(Contract!contractVars)
  BY <1>4 DEF BetRejected
<1>5. ASSUME NEW b \in Bets, BetUnanswered(b) PROVE [Contract!Next]_(Contract!contractVars)
  BY <1>5 DEF BetUnanswered
<1>6. ASSUME NEW b \in Bets, BetBookingFails(b) PROVE [Contract!Next]_(Contract!contractVars)
  BY <1>6 DEF BetBookingFails
<1>7. ASSUME NEW b \in Bets, ListForVoid(b) PROVE [Contract!Next]_(Contract!contractVars)
  BY <1>7 DEF ListForVoid
<1>8. ASSUME NEW b \in Bets, MarkForVoid(b) PROVE [Contract!Next]_(Contract!contractVars)
  BY <1>8 DEF MarkForVoid
<1>9. ASSUME NEW b \in Bets, ReadForVoid(b) PROVE [Contract!Next]_(Contract!contractVars)
  BY <1>9 DEF ReadForVoid
<1>10. ASSUME NEW b \in Bets, StartVoid(b) PROVE [Contract!Next]_(Contract!contractVars)
  BY <1>10 DEF StartVoid
<1>11. ASSUME NEW b \in Bets, FinishVoid(b) PROVE [Contract!Next]_(Contract!contractVars)
  BY <1>11 DEF FinishVoid
<1>12. ASSUME NEW b \in Bets, VoidFails(b) PROVE [Contract!Next]_(Contract!contractVars)
  BY <1>12 DEF VoidFails
<1>13. ASSUME NEW b \in Bets, OperatorDebits(b) PROVE [Contract!Next]_(Contract!contractVars)
  <2>1. Contract!Debit(b)
    BY <1>13 DEF OperatorDebits, Contract!Debit
  <2> QED BY <2>1 DEF Contract!Next
<1>14. ASSUME NEW b \in Bets, OperatorRollsBack(b) PROVE [Contract!Next]_(Contract!contractVars)
  <2>1. b \in rolledBack \/ b \notin debited => UNCHANGED Contract!contractVars
    BY <1>14 DEF OperatorRollsBack, Contract!contractVars
  <2>2. b \notin rolledBack /\ b \in debited => Contract!Return(b)
    BY <1>14 DEF OperatorRollsBack, Contract!Return
  <2> QED BY <2>1, <2>2 DEF Contract!Next
<1>15. ASSUME NEW b \in toExpire, ExpireBet(b) PROVE [Contract!Next]_(Contract!contractVars)
  <2>0. b \in Bets
    OBVIOUS
  <2>1. CASE Accepts(b, "round_crashed")
    <3>1. state[b] \in {"ARMED", "FLYING"} /\ state' = [state EXCEPT ![b] = "LOST"]
      BY <1>15, <2>0, <2>1 DEF ExpireBet
    <3>2. b \in debited /\ b \notin refunded /\ winTxn[b] = NoTxn
      BY <2>0, <3>1
    <3>3. {c \in Bets : state'[c] = "LOST"} = {c \in Bets : state[c] = "LOST"} \cup {b}
      BY <2>0, <3>1
    <3>4. Contract!Lose(b)
      BY <1>15, <3>1, <3>2, <3>3 DEF ExpireBet, Contract!Lose
    <3> QED BY <2>0, <3>4 DEF Contract!Next
  <2>2. CASE ~Accepts(b, "round_crashed")
    BY <1>15, <2>2 DEF ExpireBet, Contract!contractVars
  <2> QED BY <2>1, <2>2
<1>16. ASSUME NEW b \in Bets, RecoverPending(b) PROVE [Contract!Next]_(Contract!contractVars)
  BY <1>16 DEF RecoverPending
<1>17. ASSUME NEW b \in Bets, SendRecoveryCall(b) PROVE [Contract!Next]_(Contract!contractVars)
  BY <1>17 DEF SendRecoveryCall
<1>18. ASSUME NEW t \in Cashouts, RequestCashout(t) PROVE [Contract!Next]_(Contract!contractVars)
  <2> DEFINE b == cashoutBet[t]
  <2>0. b \in Bets
    BY <1>18 DEF RequestCashout
  <2>1. CASE winTxn' = winTxn
    BY <1>18, <2>0, <2>1 DEF RequestCashout, Contract!contractVars
  <2>2. CASE winTxn' # winTxn
    <3>1. Contract!Claim(b, t)
      BY <1>18, <2>0, <2>2 DEF RequestCashout, Contract!Claim
    <3> QED BY <2>0, <3>1 DEF Contract!Next
  <2> QED BY <2>1, <2>2
<1>19. ASSUME NEW t \in Cashouts, WinAccepted(t) PROVE [Contract!Next]_(Contract!contractVars)
  BY <1>19 DEF WinAccepted
<1>20. ASSUME NEW t \in Cashouts, WinRejected(t) PROVE [Contract!Next]_(Contract!contractVars)
  BY <1>20 DEF WinRejected
<1>21. ASSUME NEW t \in Cashouts, WinUnanswered(t) PROVE [Contract!Next]_(Contract!contractVars)
  BY <1>21 DEF WinUnanswered
<1>22. ASSUME NEW t \in Cashouts, SettleWin(t) PROVE [Contract!Next]_(Contract!contractVars)
  BY <1>22 DEF SettleWin
<1>23. ASSUME NEW t \in Cashouts, FailWin(t) PROVE [Contract!Next]_(Contract!contractVars)
  BY <1>23 DEF FailWin
<1>24. ASSUME NEW t \in Cashouts, AlertWinFailed(t) PROVE [Contract!Next]_(Contract!contractVars)
  BY <1>24 DEF AlertWinFailed
<1>25. ASSUME NEW t \in Cashouts, RequestPausedCashout(t) PROVE [Contract!Next]_(Contract!contractVars)
  <2> DEFINE b == cashoutBet[t]
  <2>0. b \in Bets
    BY <1>25 DEF RequestPausedCashout
  <2>1. CASE winTxn' = winTxn
    BY <1>25, <2>0, <2>1 DEF RequestPausedCashout, Contract!contractVars
  <2>2. CASE winTxn' # winTxn
    <3>1. Contract!Claim(b, t)
      BY <1>25, <2>0, <2>2 DEF RequestPausedCashout, Contract!Claim
    <3> QED BY <2>0, <3>1 DEF Contract!Next
  <2> QED BY <2>1, <2>2
<1>26. ASSUME NEW t \in Cashouts, FailPausedWin(t) PROVE [Contract!Next]_(Contract!contractVars)
  BY <1>26 DEF FailPausedWin
<1>27. ASSUME NEW t \in Cashouts, AlertPausedWin(t) PROVE [Contract!Next]_(Contract!contractVars)
  BY <1>27 DEF AlertPausedWin
<1>28. ASSUME NEW t \in Cashouts, OperatorCredits(t) PROVE [Contract!Next]_(Contract!contractVars)
  <2> DEFINE b == cashoutBet[t]
  <2>0. b \in Bets /\ winTxn[b] = t
    BY <1>28 DEF OperatorCredits
  <2>1. t \in credited => UNCHANGED Contract!contractVars
    BY <1>28 DEF OperatorCredits, Contract!contractVars
  <2>2. t \notin credited => Contract!Pay(b)
    BY <1>28, <2>0 DEF OperatorCredits, Contract!Pay
  <2> QED BY <2>0, <2>1, <2>2 DEF Contract!Next
<1>29. ASSUME NEW t \in Cashouts, NEW b \in Bets, StartCashout(t, b) PROVE [Contract!Next]_(Contract!contractVars)
  BY <1>29 DEF StartCashout
<1>30. ASSUME NEW a \in Admins, SendForceCredit(a) PROVE [Contract!Next]_(Contract!contractVars)
  BY <1>30 DEF SendForceCredit
<1>31. ASSUME NEW a \in Admins, ForceCreditAccepted(a) PROVE [Contract!Next]_(Contract!contractVars)
  BY <1>31 DEF ForceCreditAccepted
<1>32. ASSUME NEW a \in Admins, ForceCreditRejected(a) PROVE [Contract!Next]_(Contract!contractVars)
  BY <1>32 DEF ForceCreditRejected
<1>33. ASSUME NEW a \in Admins, ForceCreditUnanswered(a) PROVE [Contract!Next]_(Contract!contractVars)
  BY <1>33 DEF ForceCreditUnanswered
<1>34. ASSUME NEW a \in Admins, BookForceCredit(a) PROVE [Contract!Next]_(Contract!contractVars)
  BY <1>34 DEF BookForceCredit
<1>35. ASSUME NEW a \in Admins, NEW b \in Bets, CheckForceCredit(a, b) PROVE [Contract!Next]_(Contract!contractVars)
  BY <1>35 DEF CheckForceCredit
<1>36. ASSUME NEW r \in toList, ListForExpiry(r) PROVE [Contract!Next]_(Contract!contractVars)
  BY <1>36 DEF ListForExpiry
<1>37. ASSUME ExpiryFails PROVE [Contract!Next]_(Contract!contractVars)
  BY <1>37 DEF ExpiryFails
<1>38. ASSUME StartFlight PROVE [Contract!Next]_(Contract!contractVars)
  BY <1>38 DEF StartFlight
<1>39. ASSUME RoundCrashes PROVE [Contract!Next]_(Contract!contractVars)
  BY <1>39 DEF RoundCrashes
<1>40. ASSUME NextRound PROVE [Contract!Next]_(Contract!contractVars)
  BY <1>40 DEF NextRound
<1>41. ASSUME ArchiveGame PROVE [Contract!Next]_(Contract!contractVars)
  BY <1>41 DEF ArchiveGame
<1>42. ASSUME PauseOrResume PROVE [Contract!Next]_(Contract!contractVars)
  BY <1>42 DEF PauseOrResume
<1>43. ASSUME StartRecovery PROVE [Contract!Next]_(Contract!contractVars)
  BY <1>43 DEF StartRecovery
<1>44. ASSUME ListRollbacks PROVE [Contract!Next]_(Contract!contractVars)
  BY <1>44 DEF ListRollbacks
<1>45. ASSUME RollbackRecovered PROVE [Contract!Next]_(Contract!contractVars)
  BY <1>45 DEF RollbackRecovered
<1>46. ASSUME RollbackUnrecovered PROVE [Contract!Next]_(Contract!contractVars)
  BY <1>46 DEF RollbackUnrecovered
<1>47. ASSUME ListSettling PROVE [Contract!Next]_(Contract!contractVars)
  BY <1>47 DEF ListSettling
<1>48. ASSUME WinRecovered PROVE [Contract!Next]_(Contract!contractVars)
  BY <1>48 DEF WinRecovered
<1>49. ASSUME WinUnrecovered PROVE [Contract!Next]_(Contract!contractVars)
  BY <1>49 DEF WinUnrecovered
<1>50. ASSUME AlertUnrecovered PROVE [Contract!Next]_(Contract!contractVars)
  BY <1>50 DEF AlertUnrecovered
<1>51. ASSUME FinishRecovery PROVE [Contract!Next]_(Contract!contractVars)
  BY <1>51 DEF FinishRecovery
<1>52. ASSUME ProcessCrash PROVE [Contract!Next]_(Contract!contractVars)
  BY <1>52 DEF ProcessCrash
<1>53. CASE UNCHANGED vars
  BY <1>53 DEF vars
<1>54. QED
  BY <1>1, <1>2, <1>3, <1>4, <1>5, <1>6, <1>7, <1>8, <1>9, <1>10, <1>11, <1>12, 
     <1>13, <1>14, <1>15, <1>16, <1>17, <1>18, <1>19, <1>20, <1>21, <1>22, <1>23, 
     <1>24, <1>25, <1>26, <1>27, <1>28, <1>29, <1>30, <1>31, <1>32, <1>33, <1>34, 
     <1>35, <1>36, <1>37, <1>38, <1>39, <1>40, <1>41, <1>42, <1>43, <1>44, <1>45, 
     <1>46, <1>47, <1>48, <1>49, <1>50, <1>51, <1>52, <1>53
     DEF Next, AnswerBet, Operator, Expiry, Engine, Cashout, Void, ForceCredit, Recovery

\* The bet engine implements BetContract: one verdict per debited bet, at most
\* one payment, by the transaction that claimed it, and at most one return.
THEOREM ContractImplemented == Spec => ImplementsContract
<1>1. Init => Contract!Init
  BY SMTT(30) DEF Init, Contract!Init
<1> QED BY Invariance, <1>1, ContractStep, PTL DEF Spec, ImplementsContract, Contract!Spec

-----------------------------------------------------------------------------
(* Refunds and alerts. *)

\* Every step keeps what is returned in step with what was taken.
LEMMA ReturnStep == ASSUME IInv, ReturnInv, ~LateDelivery, ~RateLimited, [Next]_vars PROVE ReturnInv'
<1> USE BetsAssumption
<1> USE DEF IInv, Claims, TypeOK, RecoveryHasClaim, RollbackIsForReturning, Returning, BetState, Sources, Target,
      ReturnInv, ServingOrRecovering, StakeIsInHand, Serving, MayReject,
      Call, BetCall, WinCall, RollbackCall, AllCalls,
      Accepts, Move, Send, Abandon, Record, LeaveSeat, CashoutGoes, VoidingGoes, AdminGoes,
      bookVars, operatorVars, engineVars, expiryVars, cashoutVars, adminVars, recoveryVars, processVars
<1>1. ASSUME NEW b \in Bets, PlaceBet(b) PROVE ReturnInv'
  BY <1>1 DEF PlaceBet
<1>2. ASSUME NEW b \in Bets, BetAccepted(b) PROVE ReturnInv'
  BY <1>2 DEF BetAccepted
<1>3. ASSUME NEW b \in Bets, PushBet(b) PROVE ReturnInv'
  BY <1>3 DEF PushBet
<1>4. ASSUME NEW b \in Bets, BetRejected(b) PROVE ReturnInv'
  BY <1>4 DEF BetRejected
<1>5. ASSUME NEW b \in Bets, BetUnanswered(b) PROVE ReturnInv'
  BY <1>5 DEF BetUnanswered
<1>6. ASSUME NEW b \in Bets, BetBookingFails(b) PROVE ReturnInv'
  BY <1>6 DEF BetBookingFails
<1>7. ASSUME NEW b \in Bets, ListForVoid(b) PROVE ReturnInv'
  BY <1>7 DEF ListForVoid
<1>8. ASSUME NEW b \in Bets, MarkForVoid(b) PROVE ReturnInv'
  BY <1>8 DEF MarkForVoid
<1>9. ASSUME NEW b \in Bets, ReadForVoid(b) PROVE ReturnInv'
  BY <1>9 DEF ReadForVoid
<1>10. ASSUME NEW b \in Bets, StartVoid(b) PROVE ReturnInv'
  BY <1>10 DEF StartVoid
<1>11. ASSUME NEW b \in Bets, FinishVoid(b) PROVE ReturnInv'
  BY <1>11 DEF FinishVoid
<1>12. ASSUME NEW b \in Bets, VoidFails(b) PROVE ReturnInv'
  BY <1>12 DEF VoidFails
<1>13. ASSUME NEW b \in Bets, OperatorDebits(b) PROVE ReturnInv'
  BY <1>13 DEF OperatorDebits
<1>14. ASSUME NEW b \in Bets, OperatorRollsBack(b) PROVE ReturnInv'
  BY <1>14 DEF OperatorRollsBack
<1>15. ASSUME NEW b \in toExpire, ExpireBet(b) PROVE ReturnInv'
  BY <1>15 DEF ExpireBet
<1>16. ASSUME NEW b \in Bets, RecoverPending(b) PROVE ReturnInv'
  BY <1>16 DEF RecoverPending
<1>17. ASSUME NEW b \in Bets, SendRecoveryCall(b) PROVE ReturnInv'
  BY <1>17 DEF SendRecoveryCall
<1>18. ASSUME NEW t \in Cashouts, RequestCashout(t) PROVE ReturnInv'
  BY <1>18 DEF RequestCashout
<1>19. ASSUME NEW t \in Cashouts, WinAccepted(t) PROVE ReturnInv'
  BY <1>19 DEF WinAccepted
<1>20. ASSUME NEW t \in Cashouts, WinRejected(t) PROVE ReturnInv'
  BY <1>20 DEF WinRejected
<1>21. ASSUME NEW t \in Cashouts, WinUnanswered(t) PROVE ReturnInv'
  BY <1>21 DEF WinUnanswered
<1>22. ASSUME NEW t \in Cashouts, SettleWin(t) PROVE ReturnInv'
  BY <1>22 DEF SettleWin
<1>23. ASSUME NEW t \in Cashouts, FailWin(t) PROVE ReturnInv'
  BY <1>23 DEF FailWin
<1>24. ASSUME NEW t \in Cashouts, AlertWinFailed(t) PROVE ReturnInv'
  BY <1>24 DEF AlertWinFailed
<1>25. ASSUME NEW t \in Cashouts, RequestPausedCashout(t) PROVE ReturnInv'
  BY <1>25 DEF RequestPausedCashout
<1>26. ASSUME NEW t \in Cashouts, FailPausedWin(t) PROVE ReturnInv'
  BY <1>26 DEF FailPausedWin
<1>27. ASSUME NEW t \in Cashouts, AlertPausedWin(t) PROVE ReturnInv'
  BY <1>27 DEF AlertPausedWin
<1>28. ASSUME NEW t \in Cashouts, OperatorCredits(t) PROVE ReturnInv'
  BY <1>28 DEF OperatorCredits
<1>29. ASSUME NEW t \in Cashouts, NEW b \in Bets, StartCashout(t, b) PROVE ReturnInv'
  BY <1>29 DEF StartCashout
<1>30. ASSUME NEW a \in Admins, SendForceCredit(a) PROVE ReturnInv'
  BY <1>30 DEF SendForceCredit
<1>31. ASSUME NEW a \in Admins, ForceCreditAccepted(a) PROVE ReturnInv'
  BY <1>31 DEF ForceCreditAccepted
<1>32. ASSUME NEW a \in Admins, ForceCreditRejected(a) PROVE ReturnInv'
  BY <1>32 DEF ForceCreditRejected
<1>33. ASSUME NEW a \in Admins, ForceCreditUnanswered(a) PROVE ReturnInv'
  BY <1>33 DEF ForceCreditUnanswered
<1>34. ASSUME NEW a \in Admins, BookForceCredit(a) PROVE ReturnInv'
  BY <1>34 DEF BookForceCredit
<1>35. ASSUME NEW a \in Admins, NEW b \in Bets, CheckForceCredit(a, b) PROVE ReturnInv'
  BY <1>35 DEF CheckForceCredit
<1>36. ASSUME NEW r \in toList, ListForExpiry(r) PROVE ReturnInv'
  BY <1>36 DEF ListForExpiry
<1>37. ASSUME ExpiryFails PROVE ReturnInv'
  BY <1>37 DEF ExpiryFails
<1>38. ASSUME StartFlight PROVE ReturnInv'
  BY <1>38 DEF StartFlight
<1>39. ASSUME RoundCrashes PROVE ReturnInv'
  BY <1>39 DEF RoundCrashes
<1>40. ASSUME NextRound PROVE ReturnInv'
  BY <1>40 DEF NextRound
<1>41. ASSUME ArchiveGame PROVE ReturnInv'
  BY <1>41 DEF ArchiveGame
<1>42. ASSUME PauseOrResume PROVE ReturnInv'
  BY <1>42 DEF PauseOrResume
<1>43. ASSUME StartRecovery PROVE ReturnInv'
  BY <1>43 DEF StartRecovery
<1>44. ASSUME ListRollbacks PROVE ReturnInv'
  BY <1>44 DEF ListRollbacks
<1>45. ASSUME RollbackRecovered PROVE ReturnInv'
  BY <1>45 DEF RollbackRecovered
<1>46. ASSUME RollbackUnrecovered PROVE ReturnInv'
  BY <1>46 DEF RollbackUnrecovered
<1>47. ASSUME ListSettling PROVE ReturnInv'
  BY <1>47 DEF ListSettling
<1>48. ASSUME WinRecovered PROVE ReturnInv'
  BY <1>48 DEF WinRecovered
<1>49. ASSUME WinUnrecovered PROVE ReturnInv'
  BY <1>49 DEF WinUnrecovered
<1>50. ASSUME AlertUnrecovered PROVE ReturnInv'
  BY <1>50 DEF AlertUnrecovered
<1>51. ASSUME FinishRecovery PROVE ReturnInv'
  BY <1>51 DEF FinishRecovery
<1>52. ASSUME ProcessCrash PROVE ReturnInv'
  BY <1>52 DEF ProcessCrash
<1>53. CASE UNCHANGED vars
  BY <1>53 DEF vars
<1>54. QED
  BY <1>1, <1>2, <1>3, <1>4, <1>5, <1>6, <1>7, <1>8, <1>9, <1>10, <1>11, <1>12, 
     <1>13, <1>14, <1>15, <1>16, <1>17, <1>18, <1>19, <1>20, <1>21, <1>22, <1>23, 
     <1>24, <1>25, <1>26, <1>27, <1>28, <1>29, <1>30, <1>31, <1>32, <1>33, <1>34, 
     <1>35, <1>36, <1>37, <1>38, <1>39, <1>40, <1>41, <1>42, <1>43, <1>44, <1>45, 
     <1>46, <1>47, <1>48, <1>49, <1>50, <1>51, <1>52, <1>53
     DEF Next, AnswerBet, Operator, Expiry, Engine, Cashout, Void, ForceCredit, Recovery

\* When no call is late and no throttle hides an executed one, a VOIDED bet that was
\* debited has been refunded, whichever of a void, a recovery and a crash came first.
THEOREM VoidsRefund ==
  ASSUME ~LateDelivery, ~RateLimited PROVE Spec => []VoidedIsWhole
<1>1. Init => ReturnInv
  BY DEF Init, ReturnInv, ServingOrRecovering, StakeIsInHand
<1>2. IInv /\ ReturnInv /\ [Next]_vars => ReturnInv'
  BY ReturnStep
<1>3. ReturnInv => VoidedIsWhole
  BY DEF ReturnInv, StakeIsInHand, VoidedIsWhole
<1> QED BY <1>1, <1>2, <1>3, Invariance, PTL DEF Spec

\* Every step that fails a win leaves somebody who announces it.
LEMMA AlertStep == ASSUME IInv, AlertInv, ~DbErrors, [Next]_vars PROVE AlertInv'
<1> USE BetsAssumption
<1> USE DEF IInv, Claims, TypeOK, RecoveryHasClaim, AttemptHasClaim, BetState, Sources, Target,
      AlertInv, ServingOrRecovering, FailureIsAlerted, Serving,
      Accepts, Move, Send, Abandon, Record, LeaveSeat, CashoutGoes, VoidingGoes, AdminGoes,
      bookVars, operatorVars, engineVars, expiryVars, cashoutVars, adminVars, recoveryVars, processVars
<1>1. ASSUME NEW b \in Bets, PlaceBet(b) PROVE AlertInv'
  BY <1>1 DEF PlaceBet
<1>2. ASSUME NEW b \in Bets, BetAccepted(b) PROVE AlertInv'
  BY <1>2 DEF BetAccepted
<1>3. ASSUME NEW b \in Bets, PushBet(b) PROVE AlertInv'
  BY <1>3 DEF PushBet
<1>4. ASSUME NEW b \in Bets, BetRejected(b) PROVE AlertInv'
  BY <1>4 DEF BetRejected
<1>5. ASSUME NEW b \in Bets, BetUnanswered(b) PROVE AlertInv'
  BY <1>5 DEF BetUnanswered
<1>6. ASSUME NEW b \in Bets, BetBookingFails(b) PROVE AlertInv'
  BY <1>6 DEF BetBookingFails
<1>7. ASSUME NEW b \in Bets, ListForVoid(b) PROVE AlertInv'
  BY <1>7 DEF ListForVoid
<1>8. ASSUME NEW b \in Bets, MarkForVoid(b) PROVE AlertInv'
  BY <1>8 DEF MarkForVoid
<1>9. ASSUME NEW b \in Bets, ReadForVoid(b) PROVE AlertInv'
  BY <1>9 DEF ReadForVoid
<1>10. ASSUME NEW b \in Bets, StartVoid(b) PROVE AlertInv'
  BY <1>10 DEF StartVoid
<1>11. ASSUME NEW b \in Bets, FinishVoid(b) PROVE AlertInv'
  BY <1>11 DEF FinishVoid
<1>12. ASSUME NEW b \in Bets, VoidFails(b) PROVE AlertInv'
  BY <1>12 DEF VoidFails
<1>13. ASSUME NEW b \in Bets, OperatorDebits(b) PROVE AlertInv'
  BY <1>13 DEF OperatorDebits
<1>14. ASSUME NEW b \in Bets, OperatorRollsBack(b) PROVE AlertInv'
  BY <1>14 DEF OperatorRollsBack
<1>15. ASSUME NEW b \in toExpire, ExpireBet(b) PROVE AlertInv'
  BY <1>15 DEF ExpireBet
<1>16. ASSUME NEW b \in Bets, RecoverPending(b) PROVE AlertInv'
  BY <1>16 DEF RecoverPending
<1>17. ASSUME NEW b \in Bets, SendRecoveryCall(b) PROVE AlertInv'
  BY <1>17 DEF SendRecoveryCall
<1>18. ASSUME NEW t \in Cashouts, RequestCashout(t) PROVE AlertInv'
  BY <1>18 DEF RequestCashout
<1>19. ASSUME NEW t \in Cashouts, WinAccepted(t) PROVE AlertInv'
  BY <1>19 DEF WinAccepted
<1>20. ASSUME NEW t \in Cashouts, WinRejected(t) PROVE AlertInv'
  BY <1>20 DEF WinRejected
<1>21. ASSUME NEW t \in Cashouts, WinUnanswered(t) PROVE AlertInv'
  BY <1>21 DEF WinUnanswered
<1>22. ASSUME NEW t \in Cashouts, SettleWin(t) PROVE AlertInv'
  BY <1>22 DEF SettleWin
<1>23. ASSUME NEW t \in Cashouts, FailWin(t) PROVE AlertInv'
  BY <1>23 DEF FailWin
<1>24. ASSUME NEW t \in Cashouts, AlertWinFailed(t) PROVE AlertInv'
  BY <1>24 DEF AlertWinFailed
<1>25. ASSUME NEW t \in Cashouts, RequestPausedCashout(t) PROVE AlertInv'
  BY <1>25 DEF RequestPausedCashout
<1>26. ASSUME NEW t \in Cashouts, FailPausedWin(t) PROVE AlertInv'
  BY <1>26 DEF FailPausedWin
<1>27. ASSUME NEW t \in Cashouts, AlertPausedWin(t) PROVE AlertInv'
  BY <1>27 DEF AlertPausedWin
<1>28. ASSUME NEW t \in Cashouts, OperatorCredits(t) PROVE AlertInv'
  BY <1>28 DEF OperatorCredits
<1>29. ASSUME NEW t \in Cashouts, NEW b \in Bets, StartCashout(t, b) PROVE AlertInv'
  BY <1>29 DEF StartCashout
<1>30. ASSUME NEW a \in Admins, SendForceCredit(a) PROVE AlertInv'
  BY <1>30 DEF SendForceCredit
<1>31. ASSUME NEW a \in Admins, ForceCreditAccepted(a) PROVE AlertInv'
  BY <1>31 DEF ForceCreditAccepted
<1>32. ASSUME NEW a \in Admins, ForceCreditRejected(a) PROVE AlertInv'
  BY <1>32 DEF ForceCreditRejected
<1>33. ASSUME NEW a \in Admins, ForceCreditUnanswered(a) PROVE AlertInv'
  BY <1>33 DEF ForceCreditUnanswered
<1>34. ASSUME NEW a \in Admins, BookForceCredit(a) PROVE AlertInv'
  BY <1>34 DEF BookForceCredit
<1>35. ASSUME NEW a \in Admins, NEW b \in Bets, CheckForceCredit(a, b) PROVE AlertInv'
  BY <1>35 DEF CheckForceCredit
<1>36. ASSUME NEW r \in toList, ListForExpiry(r) PROVE AlertInv'
  BY <1>36 DEF ListForExpiry
<1>37. ASSUME ExpiryFails PROVE AlertInv'
  BY <1>37 DEF ExpiryFails
<1>38. ASSUME StartFlight PROVE AlertInv'
  BY <1>38 DEF StartFlight
<1>39. ASSUME RoundCrashes PROVE AlertInv'
  BY <1>39 DEF RoundCrashes
<1>40. ASSUME NextRound PROVE AlertInv'
  BY <1>40 DEF NextRound
<1>41. ASSUME ArchiveGame PROVE AlertInv'
  BY <1>41 DEF ArchiveGame
<1>42. ASSUME PauseOrResume PROVE AlertInv'
  BY <1>42 DEF PauseOrResume
<1>43. ASSUME StartRecovery PROVE AlertInv'
  BY <1>43 DEF StartRecovery
<1>44. ASSUME ListRollbacks PROVE AlertInv'
  BY <1>44 DEF ListRollbacks
<1>45. ASSUME RollbackRecovered PROVE AlertInv'
  BY <1>45 DEF RollbackRecovered
<1>46. ASSUME RollbackUnrecovered PROVE AlertInv'
  BY <1>46 DEF RollbackUnrecovered
<1>47. ASSUME ListSettling PROVE AlertInv'
  BY <1>47 DEF ListSettling
<1>48. ASSUME WinRecovered PROVE AlertInv'
  BY <1>48 DEF WinRecovered
<1>49. ASSUME WinUnrecovered PROVE AlertInv'
  BY <1>49 DEF WinUnrecovered
<1>50. ASSUME AlertUnrecovered PROVE AlertInv'
  BY <1>50 DEF AlertUnrecovered
<1>51. ASSUME FinishRecovery PROVE AlertInv'
  BY <1>51 DEF FinishRecovery
<1>52. ASSUME ProcessCrash PROVE AlertInv'
  BY <1>52 DEF ProcessCrash
<1>53. CASE UNCHANGED vars
  BY <1>53 DEF vars
<1>54. QED
  BY <1>1, <1>2, <1>3, <1>4, <1>5, <1>6, <1>7, <1>8, <1>9, <1>10, <1>11, <1>12, 
     <1>13, <1>14, <1>15, <1>16, <1>17, <1>18, <1>19, <1>20, <1>21, <1>22, <1>23, 
     <1>24, <1>25, <1>26, <1>27, <1>28, <1>29, <1>30, <1>31, <1>32, <1>33, <1>34, 
     <1>35, <1>36, <1>37, <1>38, <1>39, <1>40, <1>41, <1>42, <1>43, <1>44, <1>45, 
     <1>46, <1>47, <1>48, <1>49, <1>50, <1>51, <1>52, <1>53
     DEF Next, AnswerBet, Operator, Expiry, Engine, Cashout, Void, ForceCredit, Recovery

\* A failed win is announced or about to be, unless the process stopped or the database
\* failed: an attempt against a paused operator announces only the row it can read again.
THEOREM FailuresAlerted ==
  ASSUME ~DbErrors PROVE Spec => []FailureIsAlerted
<1>1. Init => AlertInv
  BY DEF Init, AlertInv, ServingOrRecovering, FailureIsAlerted
<1>2. IInv /\ AlertInv /\ [Next]_vars => AlertInv'
  BY AlertStep
<1>3. AlertInv => FailureIsAlerted
  BY DEF AlertInv
<1> QED BY <1>1, <1>2, <1>3, Invariance, PTL DEF Spec
=============================================================================
