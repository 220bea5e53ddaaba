------------------------------ MODULE Deposits ------------------------------
(***************************************************************************)
(* Money into the personal lobby.  A deposit is asked of the pay-in        *)
(* processors in order until one accepts it; the player pays there, at any *)
(* later time; the processor's webhook, repeated and reordered, has the    *)
(* payment verified and credited.  The route may meanwhile have given the  *)
(* deposit up because an answer was lost.                                  *)
(***************************************************************************)
EXTENDS Integers

CONSTANTS
  Deposits,      \* references, game-dep-...
  Providers,     \* processors that support the currency; 1..Providers is their order
  Deliveries,    \* webhook deliveries handled at the same time
  NoOne,
  MaxCrashes     \* bound: crashes of the server process

ASSUME DepositsAssumption ==
  Providers \in Nat \ {0} /\ NoOne \notin Deposits /\ MaxCrashes \in Nat

Order == 1..Providers

VARIABLES
  status,                  \* deposits.status
  credits,                 \* wallet_ledger rows of kind 'deposit' with this ref
  told,                    \* balance notifications for this deposit
  stage, at,               \* POST /deposit: where it is, with which processor
  asked, charge,           \* collect requests under way; what each processor holds
  hook, hookFor, hookAt,   \* a webhook delivery: where it is, which charge it is about
  crashes

rows      == <<status, credits, told>>
route     == <<stage, at>>
processor == <<asked, charge>>
hookVars  == <<hook, hookFor, hookAt>>
vars == <<rows, route, processor, hookVars, crashes>>

-----------------------------------------------------------------------------
(* The helpers of the code with one bug each, kept to show which property    *)
(* needs which part of the code.                                             *)

\* A lost answer fails over too.
MayFailOverAlways(result) == TRUE

\* Credit only a deposit that is still pending.
CreditIfPending(d) ==
  credits' = [credits EXCEPT ![d] = IF status[d] = "pending" THEN 1 ELSE @]

\* The row is settled before the ledger is written.
SettleFirst == [verify |-> "settle", settle |-> "credit", credit |-> "notify"]

\* markSettled without its status guard.
FlipsAlways(d) == TRUE

-----------------------------------------------------------------------------
(* deposits-repo.ts and wallet-ledger.ts. *)

MarkFailed(d) ==
  status' = [status EXCEPT ![d] = IF @ = "pending" THEN "failed" ELSE @]

\* markSettled answers whether it flipped the row.
Flips(d) == status[d] = "pending"

\* ON CONFLICT (ref) WHERE kind = 'deposit' DO NOTHING.
CreditOnce(d) == credits' = [credits EXCEPT ![d] = IF @ = 0 THEN 1 ELSE @]

-----------------------------------------------------------------------------
(* POST /api/lobby/deposit. *)

CreatePending(d) ==
  /\ status[d] = "none"
  /\ status' = [status EXCEPT ![d] = "pending"]
  /\ stage' = [stage EXCEPT ![d] = "send"] /\ at' = [at EXCEPT ![d] = 1]
  /\ UNCHANGED <<credits, told, processor, hookVars, crashes>>

SendCollect(d) ==
  /\ stage[d] = "send"
  /\ stage' = [stage EXCEPT ![d] = "calling"]
  /\ asked' = [asked EXCEPT ![d] = @ \cup {at[d]}]
  /\ UNCHANGED <<rows, at, charge, hookVars, crashes>>

\* Accepted: the player is sent to pay and the route is done.
CollectAnswered(d) ==
  /\ stage[d] = "calling" /\ charge[d][at[d]] # "none"
  /\ stage' = [stage EXCEPT ![d] = IF charge[d][at[d]] = "refused" THEN "refused" ELSE "idle"]
  /\ UNCHANGED <<rows, at, processor, hookVars, crashes>>

CollectLost(d) ==
  /\ stage[d] = "calling"
  /\ stage' = [stage EXCEPT ![d] = "lost"]
  /\ UNCHANGED <<rows, at, processor, hookVars, crashes>>

IsLast(i) == i = Providers

\* Only an outright rejection: after a lost answer the charge may exist.
MayFailOver(result) == result = "refused"

FailOver(d) ==
  /\ stage[d] \in {"refused", "lost"} /\ MayFailOver(stage[d]) /\ ~IsLast(at[d])
  /\ stage' = [stage EXCEPT ![d] = "send"] /\ at' = [at EXCEPT ![d] = @ + 1]
  /\ UNCHANGED <<rows, processor, hookVars, crashes>>

\* 502, and the row fails; or the row cannot be written and stays pending.
GiveUp(d) ==
  /\ stage[d] \in {"refused", "lost"} /\ (~MayFailOver(stage[d]) \/ IsLast(at[d]))
  /\ MarkFailed(d) \/ UNCHANGED status
  /\ stage' = [stage EXCEPT ![d] = "idle"]
  /\ UNCHANGED <<credits, told, at, processor, hookVars, crashes>>

-----------------------------------------------------------------------------
(* A processor: refuses and charges nothing, or opens a charge that the      *)
(* player pays in full, in part or not at all.                               *)

ChargeBecomes(d, i, c) == charge' = [charge EXCEPT ![d] = [@ EXCEPT ![i] = c]]

TakesCollect(d, i) ==
  /\ i \in asked[d] /\ asked' = [asked EXCEPT ![d] = @ \ {i}]
  /\ \E c \in {"open", "refused"} : ChargeBecomes(d, i, c)
  /\ UNCHANGED <<rows, route, hookVars, crashes>>

ChargeEnds(d, i) ==
  /\ charge[d][i] = "open"
  /\ \E c \in {"paid", "short", "failed"} : ChargeBecomes(d, i, c)
  /\ UNCHANGED <<rows, asked, route, hookVars, crashes>>

-----------------------------------------------------------------------------
(* POST /api/webhooks/<processor>: handleEvent. *)

HookGoes(h, pc) == hook' = [hook EXCEPT ![h] = pc]

\* An event about a charge: a success, which is not trusted, or a failure, which
\* may be of one attempt to pay.
StartWebhook(h, d, i, pc) ==
  /\ hook[h] = "idle" /\ charge[d][i] \notin {"none", "refused"}
  /\ pc = "fail" => charge[d][i] \in {"open", "failed"}
  /\ HookGoes(h, pc)
  /\ hookFor' = [hookFor EXCEPT ![h] = d] /\ hookAt' = [hookAt EXCEPT ![h] = i]
  /\ UNCHANGED <<rows, route, processor, crashes>>

StageAfter == [verify |-> "credit", credit |-> "settle", settle |-> "notify"]

\* verifyTransaction: success, this reference, this amount, this currency.
Verify(h) ==
  /\ hook[h] = "verify"
  /\ HookGoes(h, IF charge[hookFor[h]][hookAt[h]] = "paid" THEN StageAfter.verify ELSE "idle")
  /\ UNCHANGED <<rows, route, processor, hookFor, hookAt, crashes>>

CreditDeposit(h) ==
  /\ hook[h] = "credit"
  /\ CreditOnce(hookFor[h])
  /\ HookGoes(h, StageAfter.credit)
  /\ UNCHANGED <<status, told, route, processor, hookFor, hookAt, crashes>>

Settle(h) ==
  /\ hook[h] = "settle"
  /\ IF Flips(hookFor[h])
     THEN /\ status' = [status EXCEPT ![hookFor[h]] = "settled"]
          /\ HookGoes(h, StageAfter.settle)
     ELSE UNCHANGED status /\ HookGoes(h, "idle")
  /\ UNCHANGED <<credits, told, route, processor, hookFor, hookAt, crashes>>

Notify(h) ==
  /\ hook[h] = "notify"
  /\ told' = [told EXCEPT ![hookFor[h]] = @ + 1]
  /\ HookGoes(h, "idle")
  /\ UNCHANGED <<status, credits, route, processor, hookFor, hookAt, crashes>>

FailDeposit(h) ==
  /\ hook[h] = "fail"
  /\ MarkFailed(hookFor[h]) /\ HookGoes(h, "idle")
  /\ UNCHANGED <<credits, told, route, processor, hookFor, hookAt, crashes>>

\* The processor or the database throws: 500, and the sender tries again.
WebhookThrows(h) ==
  /\ hook[h] # "idle" /\ HookGoes(h, "idle")
  /\ UNCHANGED <<rows, route, processor, hookFor, hookAt, crashes>>

ProcessCrash ==
  /\ crashes < MaxCrashes /\ crashes' = crashes + 1
  /\ stage' = [d \in Deposits |-> "idle"]
  /\ hook' = [h \in Deliveries |-> "idle"]
  /\ UNCHANGED <<rows, at, processor, hookFor, hookAt>>

-----------------------------------------------------------------------------
Init ==
  /\ status = [d \in Deposits |-> "none"]
  /\ credits = [d \in Deposits |-> 0] /\ told = [d \in Deposits |-> 0]
  /\ stage = [d \in Deposits |-> "idle"] /\ at = [d \in Deposits |-> 1]
  /\ asked = [d \in Deposits |-> {}] /\ charge = [d \in Deposits |-> [i \in Order |-> "none"]]
  /\ hook = [h \in Deliveries |-> "idle"]
  /\ hookFor = [h \in Deliveries |-> NoOne] /\ hookAt = [h \in Deliveries |-> 1]
  /\ crashes = 0

Route(d) ==
  \/ CreatePending(d) \/ SendCollect(d) \/ CollectAnswered(d)
  \/ CollectLost(d) \/ FailOver(d) \/ GiveUp(d)

Processor(d, i) == TakesCollect(d, i) \/ ChargeEnds(d, i)

Webhook(h) ==
  \/ \E d \in Deposits, i \in Order, pc \in {"verify", "fail"} : StartWebhook(h, d, i, pc)
  \/ Verify(h) \/ CreditDeposit(h) \/ Settle(h) \/ Notify(h)
  \/ FailDeposit(h) \/ WebhookThrows(h)

Next ==
  \/ \E d \in Deposits : Route(d) \/ \E i \in Order : Processor(d, i)
  \/ \E h \in Deliveries : Webhook(h)
  \/ ProcessCrash

Spec == Init /\ [][Next]_vars

\* The sender repeats the success event of an uncredited payment, which was
\* answered 500 or not at all; a delivery ends; and one that is repeated for ever
\* is once verified and credited.
DeliverPayment(h, d) ==
  credits[d] = 0 /\ \E i \in Order : charge[d][i] = "paid" /\ StartWebhook(h, d, i, "verify")

VerifyPayment(h, d) ==
  hookFor[h] = d /\ charge[d][hookAt[h]] = "paid" /\ Verify(h)

CreditPayment(h, d) == hookFor[h] = d /\ CreditDeposit(h)

EndDelivery(h) == hook[h] # "idle" /\ Webhook(h)

Fairness ==
  /\ \A h \in Deliveries : WF_vars(EndDelivery(h))
  /\ \A d \in Deposits :
       /\ SF_vars(\E h \in Deliveries : DeliverPayment(h, d))
       /\ SF_vars(\E h \in Deliveries : VerifyPayment(h, d))
       /\ SF_vars(\E h \in Deliveries : CreditPayment(h, d))

FairSpec == Spec /\ Fairness

-----------------------------------------------------------------------------
(* Properties. *)

\* Every variable keeps its type.
TypeOK ==
  /\ status \in [Deposits -> {"none", "pending", "settled", "failed"}]
  /\ credits \in [Deposits -> Nat] /\ told \in [Deposits -> Nat]
  /\ stage \in [Deposits -> {"idle", "send", "calling", "refused", "lost"}]
  /\ at \in [Deposits -> Order]
  /\ asked \in [Deposits -> SUBSET Order]
  /\ charge \in [Deposits -> [Order -> {"none", "refused", "open", "paid", "short", "failed"}]]
  /\ hook \in [Deliveries -> {"idle", "verify", "fail", "credit", "settle", "notify"}]
  /\ hookFor \in [Deliveries -> Deposits \cup {NoOne}]
  /\ hookAt \in [Deliveries -> Order]
  /\ crashes \in Nat

\* The player is never charged for a deposit by two processors: the next one is
\* asked only after the one before refused (POST /deposit, fail-over).
ChargedByOne ==
  \A d \in Deposits, i, j \in Order :
    /\ charge[d][i] \notin {"none", "refused"} \/ i \in asked[d]
    /\ charge[d][j] \notin {"none", "refused"} \/ j \in asked[d]
    => i = j

\* A deposit is credited once at most, and only if a processor holds its whole
\* amount, however many deliveries and replays there are (handleEvent, deposit).
CreditedOnceIfPaid ==
  \A d \in Deposits :
    /\ credits[d] <= 1
    /\ credits[d] = 1 => \E i \in Order : charge[d][i] = "paid"

\* A settled deposit has been credited, a crash between the two writes included
\* (handleEvent credits first).
SettledIsCredited ==
  \A d \in Deposits : status[d] = "settled" => credits[d] = 1

\* Credits: once, for money received, and before the row says so.
CreditIsRight == CreditedOnceIfPaid /\ SettledIsCredited

\* The player is told of a deposit once at most, and only when it is settled
\* (handleEvent, by the answer of markSettled).
ToldOnceIfSettled ==
  \A d \in Deposits : told[d] <= IF status[d] = "settled" THEN 1 ELSE 0

\* What a player paid in full is credited in the end, even for a deposit that was
\* given up meanwhile, through crashes and failing deliveries (handleEvent).
PaidIsCredited ==
  \A d \in Deposits : (\E i \in Order : charge[d][i] = "paid") ~> credits[d] = 1

=============================================================================
