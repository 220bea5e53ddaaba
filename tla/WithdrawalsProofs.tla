-------------------------- MODULE WithdrawalsProofs --------------------------
(***************************************************************************)
(* Safety of Withdrawals for every number of withdrawals and deliveries,   *)
(* every balance and every number of crashes.  The invariant adds to the   *)
(* properties what the sides know: a verdict that waits to be written is   *)
(* still true when it is, and the one holder of the lock has read a        *)
(* balance that can only have grown.                                       *)
(***************************************************************************)
EXTENDS Withdrawals, TLAPS

\* One transaction at a time holds the lock; refunds, which do not take it, only
\* add to the balance it has read.
LockInv ==
  /\ \A v, w \in holding : v = w
  /\ \A w \in holding : status[w] = "none" /\ seen[w] <= balance

\* A payout is requested once, after its row was written.
RequestInv ==
  \A w \in Withdrawals :
    /\ status[w] = "none" => sending[w] = "idle" /\ w \notin requests /\ payout[w] = "none"
    /\ sending[w] = "held" => w \notin requests /\ payout[w] = "none"
    /\ w \in requests => payout[w] = "none"

PaidFor(w)   == payout[w] \in {"success", "reversed"}
EndedFor(w)  == payout[w] \in {"failed", "refused", "reversed"}

\* What the route, the webhooks and the timer have learned stays true.
VerdictInv ==
  /\ \A w \in Withdrawals :
       /\ sending[w] = "success" => PaidFor(w)
       /\ sending[w] \in {"failed", "refused"} => EndedFor(w)
       /\ checking[w] = "success" => PaidFor(w)
       /\ checking[w] = "failed" => EndedFor(w)
  /\ \A d \in Deliveries :
       /\ hook[d] # "idle" => hookFor[d] \in Withdrawals /\ payout[hookFor[d]] \notin {"none", "refused"}
       /\ hook[d] = "lookup" /\ claim[d] = "success" /\ Signed => PaidFor(hookFor[d])
       /\ hook[d] = "success" => PaidFor(hookFor[d])
       /\ hook[d] = "failed" => EndedFor(hookFor[d])

\* The inductive invariant.
IInv ==
  /\ TypeOK /\ NoOverdraft /\ RefundedOnceIfFailed
  /\ LockInv /\ RequestInv /\ VerdictInv
  /\ ~Guessing => RefundedIsNotPaid /\ SuccessIsPaid

-----------------------------------------------------------------------------
\* The invariant holds before the first request.
LEMMA InitIInv == Init => IInv
BY WithdrawalsAssumption
   DEF WithdrawalsAssumption, Init, IInv, TypeOK, NoOverdraft, RefundedOnceIfFailed, LockInv,
       RequestInv, VerdictInv, RefundedIsNotPaid, SuccessIsPaid, PaidFor, EndedFor, Statuses, Answers

\* The route and the provider keep the invariant.
LEMMA RouteStep ==
  ASSUME IInv, NEW w \in Withdrawals
  PROVE  Route(w) \/ Provider(w) => IInv'
  <1> USE WithdrawalsAssumption
      DEF WithdrawalsAssumption, IInv, TypeOK, NoOverdraft, RefundedOnceIfFailed, LockInv, RequestInv,
          VerdictInv, RefundedIsNotPaid, SuccessIsPaid, PaidFor, EndedFor,
          vars, rows, lockVars, provider, hookVars,
          Statuses, Answers, Open, LockIsFree, FailAndRefund, MarkSucceeded, MarkProcessing, Apply, VerdictOfLost, StatusOf,
          MayClaim, HookGoes, Believed, IsListed, WillNotPay
  <1>1. LockFunds(w) => IInv'
    BY DEF LockFunds
  <1>2. HoldFunds(w) => IInv'
    BY DEF HoldFunds
  <1>3. SendPayout(w) => IInv'
    BY DEF SendPayout
  <1>4. PayoutAnswered(w) => IInv'
    BY DEF PayoutAnswered
  <1>5. PayoutAnswerLost(w) => IInv'
    BY DEF PayoutAnswerLost
  <1>6. ApplyAnswer(w) => IInv'
    BY DEF ApplyAnswer
  <1>7. ProviderTakes(w) => IInv'
    BY DEF ProviderTakes
  <1>8. ProviderEnds(w) => IInv'
    BY DEF ProviderEnds
  <1>9. QED
    BY <1>1, <1>2, <1>3, <1>4, <1>5, <1>6, <1>7, <1>8 DEF Route, Provider

\* The timer, finance and lost verdicts keep the invariant.
LEMMA TimerStep ==
  ASSUME IInv, NEW w \in Withdrawals
  PROVE  Reconcile(w) \/ Resolve(w) \/ DropVerdict(w) => IInv'
  <1> USE WithdrawalsAssumption
      DEF WithdrawalsAssumption, IInv, TypeOK, NoOverdraft, RefundedOnceIfFailed, LockInv, RequestInv,
          VerdictInv, RefundedIsNotPaid, SuccessIsPaid, PaidFor, EndedFor,
          vars, rows, lockVars, provider, hookVars,
          Statuses, Answers, Open, LockIsFree, FailAndRefund, MarkSucceeded, MarkProcessing, Apply, VerdictOfLost, StatusOf,
          MayClaim, HookGoes, Believed, IsListed, WillNotPay
  <1>1. ListUnsettled(w) => IInv'
    BY DEF ListUnsettled
  <1>2. CheckFinds(w) => IInv'
    BY DEF CheckFinds
  <1>3. CheckFindsNothing(w) => IInv'
    BY DEF CheckFindsNothing
  <1>4. ApplyCheck(w) => IInv'
    BY DEF ApplyCheck
  <1>5. Resolve(w) => IInv'
    BY DEF Resolve
  <1>6. DropVerdict(w) => IInv'
    BY DEF DropVerdict
  <1>7. QED
    BY <1>1, <1>2, <1>3, <1>4, <1>5, <1>6 DEF Reconcile

\* A webhook delivery keeps the invariant.
LEMMA WebhookStep ==
  ASSUME IInv, NEW d \in Deliveries
  PROVE  Webhook(d) => IInv'
  <1> USE WithdrawalsAssumption
      DEF WithdrawalsAssumption, IInv, TypeOK, NoOverdraft, RefundedOnceIfFailed, LockInv, RequestInv,
          VerdictInv, RefundedIsNotPaid, SuccessIsPaid, PaidFor, EndedFor,
          vars, rows, lockVars, provider, hookVars,
          Statuses, Answers, Open, LockIsFree, FailAndRefund, MarkSucceeded, MarkProcessing, Apply, VerdictOfLost, StatusOf,
          MayClaim, HookGoes, Believed, IsListed, WillNotPay
  <1>1. (\E w \in Withdrawals : StartWebhook(d, w)) => IInv'
    BY DEF StartWebhook
  <1>2. LookupConfirms(d) => IInv'
    BY DEF LookupConfirms
  <1>3. LookupIsSilent(d) => IInv'
    BY DEF LookupIsSilent
  <1>4. ApplyWebhook(d) => IInv'
    BY DEF ApplyWebhook
  <1>5. DropWebhook(d) => IInv'
    BY DEF DropWebhook
  <1>6. QED
    BY <1>1, <1>2, <1>3, <1>4, <1>5 DEF Webhook

\* The crash of the process forgets verdicts and never invents one.
LEMMA CrashStep == IInv /\ (ProcessCrash \/ UNCHANGED vars) => IInv'
  <1> USE WithdrawalsAssumption
      DEF WithdrawalsAssumption, IInv, TypeOK, NoOverdraft, RefundedOnceIfFailed, LockInv, RequestInv,
          VerdictInv, RefundedIsNotPaid, SuccessIsPaid, PaidFor, EndedFor,
          vars, rows, lockVars, provider, hookVars,
          Statuses, Answers, Open, LockIsFree, FailAndRefund, MarkSucceeded, MarkProcessing, Apply, VerdictOfLost, StatusOf,
          MayClaim, HookGoes, Believed, IsListed, WillNotPay
  <1>1. IInv /\ ProcessCrash => IInv'
    BY DEF ProcessCrash
  <1>2. IInv /\ UNCHANGED vars => IInv'
    OBVIOUS
  <1>3. QED
    BY <1>1, <1>2

\* The inductive invariant holds in every reachable state.
THEOREM Invariance == Spec => []IInv
<1>1. Init => IInv
  BY InitIInv
<1>2. IInv /\ [Next]_vars => IInv'
  BY RouteStep, TimerStep, WebhookStep, CrashStep DEF Next
<1>3. QED
  BY <1>1, <1>2, PTL DEF Spec

\* Every variable keeps its type.
THEOREM TypeCorrect == Spec => []TypeOK
<1>1. IInv => TypeOK
  BY DEF IInv
<1>2. QED
  BY <1>1, Invariance, PTL

\* The player's balance never goes below zero, however many withdrawals race.
THEOREM NeverOverdrawn == Spec => []NoOverdraft
<1>1. IInv => NoOverdraft
  BY DEF IInv
<1>2. QED
  BY <1>1, Invariance, PTL

\* A withdrawal is refunded once if it failed, and never otherwise.
THEOREM RefundedOnce == Spec => []RefundedOnceIfFailed
<1>1. IInv => RefundedOnceIfFailed
  BY DEF IInv
<1>2. QED
  BY <1>1, Invariance, PTL

\* While finance does not guess, no refunded payout reaches the player.
THEOREM RefundSafe ==
  ASSUME ~Guessing
  PROVE  Spec => []RefundedIsNotPaid
<1>1. IInv => RefundedIsNotPaid
  BY DEF IInv
<1>2. QED
  BY <1>1, Invariance, PTL

\* While finance does not guess, refunds are made once and only of what is not paid.
THEOREM RefundRight ==
  ASSUME ~Guessing
  PROVE  Spec => []RefundIsRight
  BY RefundedOnce, RefundSafe, PTL DEF RefundIsRight

\* While finance does not guess, only payouts that were paid are recorded so.
THEOREM SuccessSafe ==
  ASSUME ~Guessing
  PROVE  Spec => []SuccessIsPaid
<1>1. IInv => SuccessIsPaid
  BY DEF IInv
<1>2. QED
  BY <1>1, Invariance, PTL
=============================================================================
