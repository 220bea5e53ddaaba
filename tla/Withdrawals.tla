----------------------------- MODULE Withdrawals -----------------------------
(***************************************************************************)
(* Money out of the personal lobby: the withdrawals of one player.  Funds  *)
(* are debited from wallet_ledger before the payout is sent, and come back *)
(* only when the payout is known not to have happened.  The outcome can    *)
(* come from four sides at once: the answer to the payout request, payout  *)
(* webhooks (late, repeated, out of order), the reconciliation timer and a *)
(* finance decision.                                                       *)
(***************************************************************************)
EXTENDS Integers

CONSTANTS
  Withdrawals,   \* references
  Amount,        \* of each, in minor units
  Funds,         \* the player's balance at the start
  Deliveries,    \* webhook deliveries handled at the same time
  NoOne,
  Signed,        \* webhooks are checked against a configured secret
  Guessing,      \* finance may resolve a payout without knowing what became of it
  MaxCrashes     \* bound: crashes of the server process

ASSUME WithdrawalsAssumption ==
  /\ Amount \in [Withdrawals -> Nat \ {0}] /\ Funds \in Nat
  /\ NoOne \notin Withdrawals
  /\ {Signed, Guessing} \subseteq BOOLEAN /\ MaxCrashes \in Nat

VARIABLES
  balance,                  \* SUM(amount_minor) over the player's wallet_ledger rows
  holding, seen,            \* transactions in the player's advisory lock, the balance each read
  status, known, refunds,   \* withdrawals: status, provider_txn_id known, refunds written
  requests, payout,         \* payout requests under way; what the provider made of them
  sending,                  \* the route: WithdrawalService.initiate
  hook, hookFor, claim,     \* onWebhook
  checking,                 \* reconcile
  crashes

rows     == <<balance, status, known, refunds>>
lockVars == <<holding, seen>>
provider == <<requests, payout>>
hookVars == <<hook, hookFor, claim>>
vars == <<rows, lockVars, provider, sending, hookVars, checking, crashes>>

-----------------------------------------------------------------------------
(* The same helpers with one bug each, kept to show which property needs    *)
(* which part of the code.                                                   *)

\* The balance is compared without the lock held until the commit.
LockIsFreeAlways == TRUE

\* A lost answer is taken for a rejection.
VerdictOfLostIsRefused == "refused"

\* A payout that is accepted counts as paid.
AcceptedIsPaid(w) == IF payout[w] = "pending" THEN "success" ELSE payout[w]

\* listUnsettled leaves out the rows the provider has accepted.
ListedIfPending(w) == status[w] = "pending" /\ w \in known

-----------------------------------------------------------------------------
(* The repository's transactions (withdrawals-repo-pg.ts). *)

Open(w) == status[w] \in {"pending", "processing"}

\* pg_advisory_xact_lock(hashtext(player)), held until the transaction ends.
LockIsFree == holding = {}

FailAndRefund(w) ==
  IF Open(w)
  THEN /\ status' = [status EXCEPT ![w] = "failed"]
       /\ balance' = balance + Amount[w]
       /\ refunds' = [refunds EXCEPT ![w] = @ + 1]
  ELSE UNCHANGED <<status, balance, refunds>>

\* A late success after a refund changes nothing, and the other way round.
MarkSucceeded(w) ==
  /\ status' = [status EXCEPT ![w] = IF Open(w) THEN "success" ELSE @]
  /\ UNCHANGED <<balance, refunds>>

MarkProcessing(w) ==
  /\ status' = [status EXCEPT ![w] = IF @ = "pending" THEN "processing" ELSE @]
  /\ UNCHANGED <<balance, refunds>>

\* WithdrawalService.apply.  A success or progress that moves the row also keeps
\* the provider's id, when the caller has one.
Apply(w, verdict) ==
  \/ /\ verdict \in {"failed", "refused"}
     /\ FailAndRefund(w) /\ UNCHANGED known
  \/ /\ \/ verdict = "success" /\ MarkSucceeded(w)
        \/ verdict = "pending" /\ MarkProcessing(w)
     /\ known' \in {known} \cup (IF status' = status THEN {} ELSE {known \cup {w}})

-----------------------------------------------------------------------------
(* POST /withdraw: PgWithdrawalsRepo.request, then initiate. *)

\* The transaction takes the player's lock, then reads the balance.
LockFunds(w) ==
  /\ status[w] = "none" /\ w \notin holding /\ LockIsFree
  /\ holding' = holding \cup {w} /\ seen' = [seen EXCEPT ![w] = balance]
  /\ UNCHANGED <<rows, provider, sending, hookVars, checking, crashes>>

\* Debit and row commit together, or InsufficientFundsError rolls back.
HoldFunds(w) ==
  /\ w \in holding /\ holding' = holding \ {w}
  /\ IF seen[w] >= Amount[w]
     THEN /\ balance' = balance - Amount[w]
          /\ status' = [status EXCEPT ![w] = "pending"]
          /\ sending' = [sending EXCEPT ![w] = "held"]
     ELSE UNCHANGED <<balance, status, sending>>
  /\ UNCHANGED <<known, refunds, seen, provider, hookVars, checking, crashes>>

SendPayout(w) ==
  /\ sending[w] = "held"
  /\ sending' = [sending EXCEPT ![w] = "calling"]
  /\ requests' = requests \cup {w}
  /\ UNCHANGED <<rows, lockVars, payout, hookVars, checking, crashes>>

\* What the provider says of a payout; a reversed one is among PAYOUT_FAILED.
StatusOf(w) == IF payout[w] = "reversed" THEN "failed" ELSE payout[w]

\* The provider's answer: refused, or accepted with a status.
PayoutAnswered(w) ==
  /\ sending[w] = "calling" /\ payout[w] # "none"
  /\ sending' = [sending EXCEPT ![w] = StatusOf(w)]
  /\ UNCHANGED <<rows, lockVars, provider, hookVars, checking, crashes>>

\* The error path: no verdict, the row stays open for the other three sides.
VerdictOfLost == "idle"

PayoutAnswerLost(w) ==
  /\ sending[w] = "calling"
  /\ sending' = [sending EXCEPT ![w] = VerdictOfLost]
  /\ UNCHANGED <<rows, lockVars, provider, hookVars, checking, crashes>>

ApplyAnswer(w) ==
  /\ sending[w] \in {"pending", "success", "failed", "refused"}
  /\ Apply(w, sending[w])
  /\ sending' = [sending EXCEPT ![w] = "idle"]
  /\ UNCHANGED <<lockVars, provider, hookVars, checking, crashes>>

-----------------------------------------------------------------------------
(* The provider.  A request it refuses is never paid; one it accepts ends    *)
(* paid or failed, whenever the request arrives.                             *)

ProviderTakes(w) ==
  /\ w \in requests /\ requests' = requests \ {w}
  /\ \E answer \in {"pending", "refused"} : payout' = [payout EXCEPT ![w] = answer]
  /\ UNCHANGED <<rows, lockVars, sending, hookVars, checking, crashes>>

ProviderEnds(w) ==
  /\ \/ payout[w] = "pending" /\ payout' \in {[payout EXCEPT ![w] = end] : end \in {"success", "failed"}}
     \/ payout[w] = "success" /\ payout' = [payout EXCEPT ![w] = "reversed"]
  /\ UNCHANGED <<rows, lockVars, requests, sending, hookVars, checking, crashes>>

\* What an event may say of a payout: progress or a failed attempt at any time,
\* payment from a signed endpoint only if it was paid.
MayClaim(w, c) ==
  /\ payout[w] \notin {"none", "refused"}
  /\ (c = "success" /\ Signed) => payout[w] \in {"success", "reversed"}

-----------------------------------------------------------------------------
(* WithdrawalService.onWebhook. *)

HookGoes(d, pc) == hook' = [hook EXCEPT ![d] = pc]

\* A final row is ignored.
StartWebhook(d, w) ==
  /\ hook[d] = "idle" /\ Open(w)
  /\ \E c \in {"pending", "success", "failed"} : MayClaim(w, c) /\ claim' = [claim EXCEPT ![d] = c]
  /\ HookGoes(d, "lookup") /\ hookFor' = [hookFor EXCEPT ![d] = w]
  /\ UNCHANGED <<rows, lockVars, provider, sending, checking, crashes>>

LookupConfirms(d) ==
  /\ hook[d] = "lookup"
  /\ HookGoes(d, StatusOf(hookFor[d]))
  /\ UNCHANGED <<rows, lockVars, provider, sending, hookFor, claim, checking, crashes>>

\* A claim that is believed without a lookup: progress always, payment only
\* from a signed endpoint, failure never.
Believed(c) == c = "pending" \/ (c = "success" /\ Signed)

LookupIsSilent(d) ==
  /\ hook[d] = "lookup"
  /\ HookGoes(d, IF Believed(claim[d]) THEN claim[d] ELSE "idle")
  /\ UNCHANGED <<rows, lockVars, provider, sending, hookFor, claim, checking, crashes>>

ApplyWebhook(d) ==
  /\ hook[d] \in {"pending", "success", "failed"}
  /\ Apply(hookFor[d], hook[d])
  /\ HookGoes(d, "idle")
  /\ UNCHANGED <<lockVars, provider, sending, hookFor, claim, checking, crashes>>

-----------------------------------------------------------------------------
(* WithdrawalService.reconcile, every five minutes; a run may overlap the    *)
(* next.  A row without a provider id, or without a final status, is only    *)
(* reported for review.                                                      *)

\* listUnsettled, and the test of providerTxnId.
IsListed(w) == Open(w) /\ w \in known

ListUnsettled(w) ==
  /\ checking[w] = "no" /\ IsListed(w)
  /\ checking' = [checking EXCEPT ![w] = "listed"]
  /\ UNCHANGED <<rows, lockVars, provider, sending, hookVars, crashes>>

CheckFinds(w) ==
  /\ checking[w] = "listed" /\ StatusOf(w) \in {"success", "failed"}
  /\ checking' = [checking EXCEPT ![w] = StatusOf(w)]
  /\ UNCHANGED <<rows, lockVars, provider, sending, hookVars, crashes>>

CheckFindsNothing(w) ==
  /\ checking[w] = "listed"
  /\ checking' = [checking EXCEPT ![w] = "no"]
  /\ UNCHANGED <<rows, lockVars, provider, sending, hookVars, crashes>>

ApplyCheck(w) ==
  /\ checking[w] \in {"success", "failed"}
  /\ Apply(w, checking[w])
  /\ checking' = [checking EXCEPT ![w] = "no"]
  /\ UNCHANGED <<lockVars, provider, sending, hookVars, crashes>>

-----------------------------------------------------------------------------
\* POST /withdrawals/:reference/resolve.  Unless it guesses, finance records what
\* the provider's own books say: paid, or not paid and not to be paid any more.
WillNotPay(w) ==
  /\ payout[w] \in {"none", "failed", "refused"}
  /\ w \notin requests /\ sending[w] # "held"

Resolve(w) ==
  /\ Open(w)
  /\ \/ (Guessing \/ payout[w] = "success") /\ MarkSucceeded(w)
     \/ (Guessing \/ WillNotPay(w)) /\ FailAndRefund(w)
  /\ UNCHANGED <<known, lockVars, provider, sending, hookVars, checking, crashes>>

\* A verdict that cannot be written is dropped: by a failing database, or with
\* the process, which also drops an open transaction and its lock.
DropVerdict(w) ==
  /\ \/ /\ sending[w] \in {"pending", "success", "failed", "refused"}
        /\ sending' = [sending EXCEPT ![w] = "idle"] /\ UNCHANGED checking
     \/ /\ checking[w] \in {"success", "failed"}
        /\ checking' = [checking EXCEPT ![w] = "no"] /\ UNCHANGED sending
  /\ UNCHANGED <<rows, lockVars, provider, hookVars, crashes>>

DropWebhook(d) ==
  /\ hook[d] # "idle" /\ HookGoes(d, "idle")
  /\ UNCHANGED <<rows, lockVars, provider, sending, hookFor, claim, checking, crashes>>

ProcessCrash ==
  /\ crashes < MaxCrashes /\ crashes' = crashes + 1
  /\ holding' = {}
  /\ sending' = [w \in Withdrawals |-> "idle"]
  /\ hook' = [d \in Deliveries |-> "idle"]
  /\ checking' = [w \in Withdrawals |-> "no"]
  /\ UNCHANGED <<rows, seen, provider, hookFor, claim>>

-----------------------------------------------------------------------------
Init ==
  /\ balance = Funds /\ holding = {} /\ seen = [w \in Withdrawals |-> 0]
  /\ status = [w \in Withdrawals |-> "none"]
  /\ known = {} /\ refunds = [w \in Withdrawals |-> 0]
  /\ requests = {} /\ payout = [w \in Withdrawals |-> "none"]
  /\ sending = [w \in Withdrawals |-> "idle"]
  /\ hook = [d \in Deliveries |-> "idle"]
  /\ hookFor = [d \in Deliveries |-> NoOne] /\ claim = [d \in Deliveries |-> "pending"]
  /\ checking = [w \in Withdrawals |-> "no"]
  /\ crashes = 0

Route(w) ==
  \/ LockFunds(w) \/ HoldFunds(w) \/ SendPayout(w)
  \/ PayoutAnswered(w) \/ PayoutAnswerLost(w) \/ ApplyAnswer(w)

Provider(w) == ProviderTakes(w) \/ ProviderEnds(w)

Webhook(d) ==
  \/ \E w \in Withdrawals : StartWebhook(d, w)
  \/ LookupConfirms(d) \/ LookupIsSilent(d) \/ ApplyWebhook(d) \/ DropWebhook(d)

Reconcile(w) ==
  \/ ListUnsettled(w) \/ CheckFinds(w) \/ CheckFindsNothing(w) \/ ApplyCheck(w)

Next ==
  \/ \E w \in Withdrawals : Route(w) \/ Provider(w) \/ Reconcile(w) \/ Resolve(w) \/ DropVerdict(w)
  \/ \E d \in Deliveries : Webhook(d)
  \/ ProcessCrash

Spec == Init /\ [][Next]_vars

\* The timer lists what is open; a lookup repeated for ever is answered, and
\* its result repeated for ever is written.
Fairness ==
  \A w \in Withdrawals :
    WF_vars(ListUnsettled(w)) /\ SF_vars(CheckFinds(w)) /\ SF_vars(ApplyCheck(w))

FairSpec == Spec /\ Fairness

-----------------------------------------------------------------------------
(* Properties. *)

Statuses == {"none", "pending", "processing", "success", "failed"}
Answers  == {"pending", "success", "failed", "refused"}

\* Every variable keeps its type.
TypeOK ==
  /\ balance \in Int /\ holding \subseteq Withdrawals /\ seen \in [Withdrawals -> Int]
  /\ status \in [Withdrawals -> Statuses] /\ known \subseteq Withdrawals
  /\ refunds \in [Withdrawals -> Nat]
  /\ requests \subseteq Withdrawals
  /\ payout \in [Withdrawals -> Answers \cup {"none", "reversed"}]
  /\ sending \in [Withdrawals -> Answers \cup {"idle", "held", "calling"}]
  /\ hook \in [Deliveries -> {"idle", "lookup", "pending", "success", "failed"}]
  /\ hookFor \in [Deliveries -> Withdrawals \cup {NoOne}]
  /\ claim \in [Deliveries -> {"pending", "success", "failed"}]
  /\ checking \in [Withdrawals -> {"no", "listed", "success", "failed"}]
  /\ crashes \in Nat

\* Withdrawals requested at the same time never take the balance below zero
\* (debitInTx compares and inserts under the player's lock).
NoOverdraft == balance >= 0

\* The funds of a withdrawal come back once if it failed and never otherwise,
\* whichever of the answer, the webhooks, the timer and finance report the
\* failure, and however often (failAndRefund).
RefundedOnceIfFailed ==
  \A w \in Withdrawals : refunds[w] = IF status[w] = "failed" THEN 1 ELSE 0

\* A refunded payout has not reached the player and never will: no request for
\* it is under way or to be sent, and the provider has it as ended without
\* payment (initiate, onWebhook and apply refund on certainty only).
RefundedIsNotPaid ==
  \A w \in Withdrawals :
    status[w] = "failed" =>
      /\ w \notin requests /\ sending[w] # "held"
      /\ payout[w] \in {"none", "failed", "refused", "reversed"}

\* Refunds: once, for a failure, and never of money the player receives.
RefundIsRight == RefundedOnceIfFailed /\ RefundedIsNotPaid

\* A withdrawal that is recorded as paid was paid, so no funds are kept from a
\* player whose payout failed (apply, onWebhook, resolve); only a reversal after
\* that escapes the record.
SuccessIsPaid ==
  \A w \in Withdrawals : status[w] = "success" => payout[w] \in {"success", "reversed"}

\* A payout that has ended at the provider, with an id the row knows, becomes
\* final, through crashes and failed writes, by the timer alone (reconcile).
EndedPayoutSettles ==
  \A w \in Withdrawals :
    (w \in known /\ payout[w] \in {"success", "failed", "reversed"}) ~> ~Open(w)
=============================================================================
