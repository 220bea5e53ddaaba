--------------------------- MODULE DepositsProofs ---------------------------
(***************************************************************************)
(* Safety of Deposits for every number of deposits, processors, deliveries *)
(* and crashes.  The invariant says how far down the list of processors    *)
(* the route has come, and what a delivery has done for its deposit.       *)
(***************************************************************************)
EXTENDS Deposits, TLAPS

\* Processors before the current one refused, those after it were not asked.
OrderInv ==
  \A d \in Deposits, i \in Order :
    /\ i < at[d] => charge[d][i] = "refused"
    /\ i > at[d] => charge[d][i] = "none"
    /\ i \in asked[d] => i = at[d] /\ charge[d][i] = "none"

\* The route asks once, and calls refused only what the processor refused.
RouteInv ==
  \A d \in Deposits :
    /\ status[d] = "none" =>
         stage[d] = "idle" /\ at[d] = 1 /\ 1 \notin asked[d] /\ charge[d][1] = "none"
    /\ stage[d] = "send" => at[d] \notin asked[d] /\ charge[d][at[d]] = "none"
    /\ stage[d] = "refused" => charge[d][at[d]] = "refused"

\* A delivery is about a charge, and past each step it has done that step.
DeliveryInv ==
  \A h \in Deliveries :
    /\ hook[h] # "idle" =>
         hookFor[h] \in Deposits /\ charge[hookFor[h]][hookAt[h]] \notin {"none", "refused"}
    /\ hook[h] \in {"credit", "settle", "notify"} => charge[hookFor[h]][hookAt[h]] = "paid"
    /\ hook[h] \in {"settle", "notify"} => credits[hookFor[h]] = 1

\* At most one delivery is to tell the player, and nobody has before it.
TellingInv ==
  \A h \in Deliveries : hook[h] = "notify" =>
    /\ status[hookFor[h]] = "settled" /\ told[hookFor[h]] = 0
    /\ \A g \in Deliveries : hook[g] = "notify" /\ hookFor[g] = hookFor[h] => g = h

\* The inductive invariant.
IInv ==
  /\ TypeOK /\ CreditedOnceIfPaid /\ SettledIsCredited /\ ToldOnceIfSettled
  /\ OrderInv /\ RouteInv /\ DeliveryInv /\ TellingInv

-----------------------------------------------------------------------------
\* The invariant holds before the first deposit.
LEMMA InitIInv == Init => IInv
BY DepositsAssumption
   DEF DepositsAssumption, Init, IInv, TypeOK, CreditedOnceIfPaid, SettledIsCredited,
       ToldOnceIfSettled, OrderInv, RouteInv, DeliveryInv, TellingInv, Order

\* The route keeps the invariant.
LEMMA RouteStep ==
  ASSUME IInv, NEW d \in Deposits
  PROVE  Route(d) => IInv'
  <1> USE DepositsAssumption
      DEF DepositsAssumption, Order, vars, rows, route, processor, hookVars,
          IInv, TypeOK, CreditedOnceIfPaid, SettledIsCredited, ToldOnceIfSettled,
          OrderInv, RouteInv, DeliveryInv, TellingInv,
          MarkFailed, Flips, CreditOnce, IsLast, MayFailOver, ChargeBecomes, HookGoes, StageAfter
  <1>1. ASSUME CreatePending(d) PROVE IInv'
    <2> USE <1>1 DEF CreatePending
    <2>1. TypeOK'
      OBVIOUS
    <2>2. CreditedOnceIfPaid'
      OBVIOUS
    <2>3. SettledIsCredited'
      OBVIOUS
    <2>4. ToldOnceIfSettled'
      OBVIOUS
    <2>5. OrderInv'
      OBVIOUS
    <2>6. RouteInv'
      OBVIOUS
    <2>7. DeliveryInv'
      OBVIOUS
    <2>8. TellingInv'
      OBVIOUS
    <2>9. QED
      BY <2>1, <2>2, <2>3, <2>4, <2>5, <2>6, <2>7, <2>8
  <1>2. ASSUME SendCollect(d) PROVE IInv'
    <2> USE <1>2 DEF SendCollect
    <2>1. TypeOK'
      OBVIOUS
    <2>2. CreditedOnceIfPaid'
      OBVIOUS
    <2>3. SettledIsCredited'
      OBVIOUS
    <2>4. ToldOnceIfSettled'
      OBVIOUS
    <2>5. OrderInv'
      OBVIOUS
    <2>6. RouteInv'
      OBVIOUS
    <2>7. DeliveryInv'
      OBVIOUS
    <2>8. TellingInv'
      OBVIOUS
    <2>9. QED
      BY <2>1, <2>2, <2>3, <2>4, <2>5, <2>6, <2>7, <2>8
  <1>3. CollectAnswered(d) => IInv'
    BY DEF CollectAnswered
  <1>4. CollectLost(d) => IInv'
    BY DEF CollectLost
  <1>5. ASSUME FailOver(d) PROVE IInv'
    <2> USE <1>5 DEF FailOver
    <2>1. TypeOK'
      BY SMTT(30)
    <2>2. CreditedOnceIfPaid'
      OBVIOUS
    <2>3. SettledIsCredited'
      OBVIOUS
    <2>4. ToldOnceIfSettled'
      OBVIOUS
    <2>5. OrderInv'
      OBVIOUS
    <2>6. RouteInv'
      OBVIOUS
    <2>7. DeliveryInv'
      OBVIOUS
    <2>8. TellingInv'
      OBVIOUS
    <2>9. QED
      BY <2>1, <2>2, <2>3, <2>4, <2>5, <2>6, <2>7, <2>8
  <1>6. ASSUME GiveUp(d) PROVE IInv'
    <2> USE <1>6 DEF GiveUp
    <2>1. TypeOK'
      OBVIOUS
    <2>2. CreditedOnceIfPaid'
      OBVIOUS
    <2>3. SettledIsCredited'
      OBVIOUS
    <2>4. ToldOnceIfSettled'
      OBVIOUS
    <2>5. OrderInv'
      OBVIOUS
    <2>6. RouteInv'
      OBVIOUS
    <2>7. DeliveryInv'
      OBVIOUS
    <2>8. TellingInv'
      OBVIOUS
    <2>9. QED
      BY <2>1, <2>2, <2>3, <2>4, <2>5, <2>6, <2>7, <2>8
  <1>7. QED
    BY <1>1, <1>2, <1>3, <1>4, <1>5, <1>6 DEF Route

\* A processor keeps the invariant.
LEMMA ProcessorStep ==
  ASSUME IInv, NEW d \in Deposits, NEW i \in Order
  PROVE  Processor(d, i) => IInv'
  <1> USE DepositsAssumption
      DEF DepositsAssumption, Order, vars, rows, route, processor, hookVars,
          IInv, TypeOK, CreditedOnceIfPaid, SettledIsCredited, ToldOnceIfSettled,
          OrderInv, RouteInv, DeliveryInv, TellingInv,
          MarkFailed, Flips, CreditOnce, IsLast, MayFailOver, ChargeBecomes, HookGoes, StageAfter
  <1>1. ASSUME TakesCollect(d, i) PROVE IInv'
    <2> USE <1>1 DEF TakesCollect
    <2>1. TypeOK'
      OBVIOUS
    <2>2. CreditedOnceIfPaid'
      OBVIOUS
    <2>3. SettledIsCredited'
      OBVIOUS
    <2>4. ToldOnceIfSettled'
      OBVIOUS
    <2>5. OrderInv'
      OBVIOUS
    <2>6. RouteInv'
      OBVIOUS
    <2>7. DeliveryInv'
      OBVIOUS
    <2>8. TellingInv'
      OBVIOUS
    <2>9. QED
      BY <2>1, <2>2, <2>3, <2>4, <2>5, <2>6, <2>7, <2>8
  <1>2. ASSUME ChargeEnds(d, i) PROVE IInv'
    <2> USE <1>2 DEF ChargeEnds
    <2>1. TypeOK'
      OBVIOUS
    <2>2. CreditedOnceIfPaid'
      <3>1. ASSUME NEW e \in Deposits, NEW j \in Order, charge[e][j] = "paid"
            PROVE  charge'[e][j] = "paid"
        BY <3>1
      <3>2. credits' = credits
        OBVIOUS
      <3>3. QED
        BY <3>1, <3>2
    <2>3. SettledIsCredited'
      OBVIOUS
    <2>4. ToldOnceIfSettled'
      OBVIOUS
    <2>5. OrderInv'
      OBVIOUS
    <2>6. RouteInv'
      OBVIOUS
    <2>7. DeliveryInv'
      OBVIOUS
    <2>8. TellingInv'
      OBVIOUS
    <2>9. QED
      BY <2>1, <2>2, <2>3, <2>4, <2>5, <2>6, <2>7, <2>8
  <1>3. QED
    BY <1>1, <1>2 DEF Processor

\* A webhook delivery keeps the invariant.
LEMMA WebhookStep ==
  ASSUME IInv, NEW h \in Deliveries
  PROVE  Webhook(h) => IInv'
  <1> USE DepositsAssumption
      DEF DepositsAssumption, Order, vars, rows, route, processor, hookVars,
          IInv, TypeOK, CreditedOnceIfPaid, SettledIsCredited, ToldOnceIfSettled,
          OrderInv, RouteInv, DeliveryInv, TellingInv,
          MarkFailed, Flips, CreditOnce, IsLast, MayFailOver, ChargeBecomes, HookGoes, StageAfter
  <1>1. (\E d \in Deposits, i \in Order, pc \in {"verify", "fail"} : StartWebhook(h, d, i, pc)) => IInv'
    BY SMTT(30) DEF StartWebhook
  <1>2. Verify(h) => IInv'
    BY DEF Verify
  <1>3. ASSUME CreditDeposit(h) PROVE IInv'
    <2> USE <1>3 DEF CreditDeposit
    <2>1. TypeOK'
      OBVIOUS
    <2>2. CreditedOnceIfPaid'
      <3>1. charge[hookFor[h]][hookAt[h]] = "paid" /\ hookFor[h] \in Deposits /\ hookAt[h] \in Order
        OBVIOUS
      <3>2. ASSUME NEW e \in Deposits, e # hookFor[h] PROVE credits'[e] = credits[e]
        BY <3>2
      <3>3. credits'[hookFor[h]] = 1
        BY SMTT(30)
      <3>4. QED
        BY <3>1, <3>2, <3>3
    <2>3. SettledIsCredited'
      OBVIOUS
    <2>4. ToldOnceIfSettled'
      OBVIOUS
    <2>5. OrderInv'
      OBVIOUS
    <2>6. RouteInv'
      OBVIOUS
    <2>7. DeliveryInv'
      OBVIOUS
    <2>8. TellingInv'
      OBVIOUS
    <2>9. QED
      BY <2>1, <2>2, <2>3, <2>4, <2>5, <2>6, <2>7, <2>8
  <1>4. ASSUME Settle(h) PROVE IInv'
    <2> USE <1>4 DEF Settle
    <2>1. TypeOK'
      <3>1. /\ status \in [Deposits -> {"none", "pending", "settled", "failed"}]
            /\ hook \in [Deliveries -> {"idle", "verify", "fail", "credit", "settle", "notify"}]
            /\ hookFor[h] \in Deposits
        OBVIOUS
      <3>2. \/ status' = [status EXCEPT ![hookFor[h]] = "settled"] /\ hook' = [hook EXCEPT ![h] = "notify"]
            \/ status' = status /\ hook' = [hook EXCEPT ![h] = "idle"]
        OBVIOUS
      <3>3. /\ status' \in [Deposits -> {"none", "pending", "settled", "failed"}]
            /\ hook' \in [Deliveries -> {"idle", "verify", "fail", "credit", "settle", "notify"}]
        BY ONLY <3>1, <3>2
      <3>4. QED
        BY <3>3
    <2>2. CreditedOnceIfPaid'
      OBVIOUS
    <2>3. SettledIsCredited'
      OBVIOUS
    <2>4. ToldOnceIfSettled'
      OBVIOUS
    <2>5. OrderInv'
      OBVIOUS
    <2>6. RouteInv'
      OBVIOUS
    <2>7. DeliveryInv'
      OBVIOUS
    <2>8. TellingInv'
      OBVIOUS
    <2>9. QED
      BY <2>1, <2>2, <2>3, <2>4, <2>5, <2>6, <2>7, <2>8
  <1>5. Notify(h) => IInv'
    BY DEF Notify
  <1>6. ASSUME FailDeposit(h) PROVE IInv'
    <2> USE <1>6 DEF FailDeposit
    <2>1. TypeOK'
      OBVIOUS
    <2>2. CreditedOnceIfPaid'
      OBVIOUS
    <2>3. SettledIsCredited'
      OBVIOUS
    <2>4. ToldOnceIfSettled'
      OBVIOUS
    <2>5. OrderInv'
      OBVIOUS
    <2>6. RouteInv'
      OBVIOUS
    <2>7. DeliveryInv'
      OBVIOUS
    <2>8. TellingInv'
      OBVIOUS
    <2>9. QED
      BY <2>1, <2>2, <2>3, <2>4, <2>5, <2>6, <2>7, <2>8
  <1>7. WebhookThrows(h) => IInv'
    BY DEF WebhookThrows
  <1>8. QED
    BY <1>1, <1>2, <1>3, <1>4, <1>5, <1>6, <1>7 DEF Webhook

\* The crash of the process loses deliveries and the route, and no row.
LEMMA CrashStep == IInv /\ (ProcessCrash \/ UNCHANGED vars) => IInv'
  <1> USE DepositsAssumption
      DEF DepositsAssumption, Order, vars, rows, route, processor, hookVars,
          IInv, TypeOK, CreditedOnceIfPaid, SettledIsCredited, ToldOnceIfSettled,
          OrderInv, RouteInv, DeliveryInv, TellingInv,
          MarkFailed, Flips, CreditOnce, IsLast, MayFailOver, ChargeBecomes, HookGoes, StageAfter
  <1>1. ASSUME IInv, ProcessCrash PROVE IInv'
    <2> USE <1>1 DEF ProcessCrash
    <2>1. TypeOK'
      OBVIOUS
    <2>2. CreditedOnceIfPaid'
      OBVIOUS
    <2>3. SettledIsCredited'
      OBVIOUS
    <2>4. ToldOnceIfSettled'
      OBVIOUS
    <2>5. OrderInv'
      OBVIOUS
    <2>6. RouteInv'
      OBVIOUS
    <2>7. DeliveryInv'
      OBVIOUS
    <2>8. TellingInv'
      OBVIOUS
    <2>9. QED
      BY <2>1, <2>2, <2>3, <2>4, <2>5, <2>6, <2>7, <2>8
  <1>2. IInv /\ UNCHANGED vars => IInv'
    OBVIOUS
  <1>3. QED
    BY <1>1, <1>2

\* The inductive invariant holds in every reachable state.
THEOREM Invariance == Spec => []IInv
<1>1. Init => IInv
  BY InitIInv
<1>2. IInv /\ [Next]_vars => IInv'
  BY RouteStep, ProcessorStep, WebhookStep, CrashStep DEF Next
<1>3. QED
  BY <1>1, <1>2, PTL DEF Spec

\* Every variable keeps its type.
THEOREM TypeCorrect == Spec => []TypeOK
<1>1. IInv => TypeOK
  BY DepositsAssumption DEF IInv, DepositsAssumption
<1>2. QED
  BY <1>1, Invariance, PTL

\* No deposit is charged, or about to be, by two processors.
THEOREM NeverChargedTwice == Spec => []ChargedByOne
<1>1. IInv => ChargedByOne
  BY DepositsAssumption DEF IInv, OrderInv, TypeOK, ChargedByOne, Order, DepositsAssumption
<1>2. QED
  BY <1>1, Invariance, PTL

\* A deposit is credited once at most, and only if it was paid in full.
THEOREM CreditedOnce == Spec => []CreditedOnceIfPaid
<1>1. IInv => CreditedOnceIfPaid
  BY DepositsAssumption DEF IInv, DepositsAssumption
<1>2. QED
  BY <1>1, Invariance, PTL

\* A settled deposit has been credited.
THEOREM SettledCredited == Spec => []SettledIsCredited
<1>1. IInv => SettledIsCredited
  BY DepositsAssumption DEF IInv, DepositsAssumption
<1>2. QED
  BY <1>1, Invariance, PTL

\* A deposit is credited once, for money received, before it is settled.
THEOREM CreditRight == Spec => []CreditIsRight
  BY CreditedOnce, SettledCredited, PTL DEF CreditIsRight

\* The player is told of a deposit once at most.
THEOREM ToldOnce == Spec => []ToldOnceIfSettled
<1>1. IInv => ToldOnceIfSettled
  BY DepositsAssumption DEF IInv, DepositsAssumption
<1>2. QED
  BY <1>1, Invariance, PTL
=============================================================================
