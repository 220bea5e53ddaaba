----------------------------- MODULE WalletCalls -----------------------------
(***************************************************************************)
(* A transaction call of the wallet client against an operator: the        *)
(* recorded answer of txn_idempotency, the tries of executeWithRetry, a    *)
(* network that loses requests and answers, the decoding of the two wire   *)
(* protocols (native and SoftSwiss), and the operator as the two stubs in  *)
(* tools/ implement it, with its own table of answered transactions, and   *)
(* with the throttle and SoftSwiss's answer to a duplicate.                *)
(* The calls are those of the running server: the client of the startup    *)
(* recovery keeps no records, and its calls are in OperatorBets.           *)
(***************************************************************************)
EXTENDS Integers, FiniteSets, FiniteSetsExt

CONSTANTS
  Txns,          \* transaction ids
  TxnKind,       \* [Txns -> {"bet", "win", "rollback"}]
  TxnBet,        \* the bet transaction each one is about
  TxnAmount,     \* [Txns -> Nat]
  Callers,       \* calls of the client's bet, win and rollback
  CallTxn,       \* [Callers -> Txns]
  CallBody,      \* [Callers -> Bodies]: what the request says beside its id
  Bodies,
  Tries,         \* [{"bet", "win", "rollback"} -> Nat]: maxAttempts of each endpoint
  Balance,       \* the operator's balance of the player at first
  LateDelivery,  \* a request given up by the client may still arrive
  MaxCallFaults  \* bound on lost requests, lost answers, 5xx and throttles

Kinds == {"bet", "win", "rollback"}

ASSUME CallAssumption ==
  /\ TxnKind \in [Txns -> Kinds] /\ TxnBet \in [Txns -> Txns] /\ TxnAmount \in [Txns -> Nat]
  /\ CallTxn \in [Callers -> Txns] /\ CallBody \in [Callers -> Bodies]
  /\ Tries \in [Kinds -> Nat \ {0}] /\ Balance \in Nat /\ LateDelivery \in BOOLEAN
  /\ \A t \in Txns : TxnKind[TxnBet[t]] = "bet"
  \* The bet's row is created with its transaction id before the call, and only once.
  /\ \A c, d \in Callers : TxnKind[CallTxn[c]] = "bet" /\ CallTxn[c] = CallTxn[d] => c = d

VARIABLES
  dialect,     \* operator.adapter
  call,        \* [pc, try, answer] of each caller
  recorded,    \* txn_idempotency: the body and answer code of a txn, or NoRecord
  requests,    \* requests on the wire: [caller, try]
  replies,     \* answers on the wire: [caller, try, code, signed]
  answered,    \* the operator's idempotency table: the code it answered, or "none"
  executed,    \* how often it debited a bet or credited a win
  undone,      \* the bets it rolled back
  callFaults
callVars == <<dialect, call, recorded, requests, replies, answered, executed, undone, callFaults>>
operatorSide == <<answered, executed, undone>>

-----------------------------------------------------------------------------
(* The answers of an operator, and what the client makes of them. *)

NoRecord == [body |-> "none", code |-> "none"]

\* The status a code has once it is decoded: SoftSwiss sends its business errors
\* with 200 and a status text, which the adapter maps; the rollback of an
\* unknown transaction is a success without effect.
HttpStatus(code) ==
  CASE code \in {"ok", "noop", "UNKNOWN_TXN"} -> 200
    [] code = "INSUFFICIENT_FUNDS" -> IF dialect = "softswiss" THEN 402 ELSE 409
    [] code = "DUPLICATE_TRANSACTION" -> 409
    [] code = "RATE_LIMITED" -> 429
    [] OTHER -> 500

Retryable(status) == status = 0 \/ status = 429 \/ status >= 500

RejectedIfNotServerError(status) == status < 500

Rejected(status) == status >= 400 /\ status < 500

\* The status of a reply; an answer without a valid signature has none, and is
\* not asked for again.
StatusOf(r) == IF r.signed THEN HttpStatus(r.code) ELSE -1

-----------------------------------------------------------------------------
(* The client. *)

Kind(c) == TxnKind[CallTxn[c]]
Ended(c) == call[c].pc = "done"
Settles(c, answer) == call' = [call EXCEPT ![c] = [pc |-> "done", try |-> 0, answer |-> answer]]

SendFirst(c) ==
  /\ requests' = requests \cup {[caller |-> c, try |-> 1]}
  /\ call' = [call EXCEPT ![c] = [pc |-> "waiting", try |-> 1, answer |-> "none"]]

\* bet_log states order the calls of a bet: a win once it is debited, a rollback
\* once the outcome of the bet is known or given up.  An administrator's void may
\* send it while a win is awaited.
MayStart(c) ==
  \A b \in Callers : CallTxn[b] = TxnBet[CallTxn[c]] /\ b # c =>
    Ended(b) /\ call[b].answer \in IF Kind(c) = "win" THEN {"ok"} ELSE {"ok", "unknown"}

\* A txn without a record is sent; one with a record is answered from it, if the
\* body is the same; if it is not, that is called a bug of the caller.
StartCall(c) ==
  LET old == recorded[CallTxn[c]]
  IN  /\ call[c].pc = "idle" /\ MayStart(c)
      /\ \/ old = NoRecord /\ SendFirst(c)
         \/ old # NoRecord /\ Settles(c, IF old.body = CallBody[c] THEN old.code ELSE "mismatch") /\ UNCHANGED requests
      /\ UNCHANGED <<dialect, recorded, replies, callFaults, operatorSide>>

LookUpFails(c) ==
  /\ call[c].pc = "idle" /\ MayStart(c) /\ callFaults < MaxCallFaults
  /\ callFaults' = callFaults + 1
  /\ Settles(c, "unknown")
  /\ UNCHANGED <<dialect, recorded, requests, replies, operatorSide>>

\* An error ends the call: a rejection is stored under its code, any other outcome
\* stays open.  A throttle that outlasts the tries is a rejection too.
EndWithError(c, status, code) ==
  IF status >= 0 /\ Rejected(status)
  THEN call' = [call EXCEPT ![c].pc = "recording", ![c].answer = code]
  ELSE Settles(c, "unknown")

\* A failed try is repeated while the endpoint's policy allows.
RetryOrEnd(c, status, code, wire) ==
  IF Retryable(status) /\ call[c].try < Tries[Kind(c)]
  THEN /\ requests' = wire \cup {[caller |-> c, try |-> call[c].try + 1]}
       /\ call' = [call EXCEPT ![c].try = @ + 1]
  ELSE EndWithError(c, status, code) /\ requests' = wire

TakeReply(c) ==
  /\ call[c].pc = "waiting"
  /\ \E r \in replies :
       /\ r.caller = c /\ r.try = call[c].try
       /\ replies' = replies \ {r}
       /\ IF StatusOf(r) = 200
          THEN /\ call' = [call EXCEPT ![c].pc = "recording", ![c].answer = IF r.code = "ok" THEN "ok" ELSE "noop"]
               /\ UNCHANGED requests
          ELSE RetryOrEnd(c, StatusOf(r), r.code, requests)
  /\ UNCHANGED <<dialect, recorded, callFaults, operatorSide>>

\* The answer is stored once per txn; it is given to the caller even if it cannot be stored.
StoreAnswer(c) ==
  /\ call[c].pc = "recording"
  /\ Settles(c, call[c].answer)
  /\ \/ /\ recorded' = IF recorded[CallTxn[c]] # NoRecord THEN recorded
                       ELSE [recorded EXCEPT ![CallTxn[c]] = [body |-> CallBody[c], code |-> call[c].answer]]
        /\ UNCHANGED callFaults
     \/ /\ callFaults < MaxCallFaults /\ callFaults' = callFaults + 1
        /\ UNCHANGED recorded
  /\ UNCHANGED <<dialect, requests, replies, operatorSide>>

\* The abort timer: the request was lost, or its answer is, or either is late.
AbandonTry(c) ==
  LET mine(set) == {m \in set : m.caller = c /\ m.try = call[c].try}
  IN  /\ call[c].pc = "waiting" /\ callFaults < MaxCallFaults
      /\ callFaults' = callFaults + 1
      /\ replies' = replies \ mine(replies)
      /\ \E sent \in {requests} \cup {requests \ mine(requests)} :
           /\ LateDelivery \/ sent = requests \ mine(requests)
           /\ RetryOrEnd(c, 0, "NETWORK_ERROR", sent)
      /\ UNCHANGED <<dialect, recorded, operatorSide>>

-----------------------------------------------------------------------------
(* The operator. *)

Moved(kind) == MapThenSumSet(LAMBDA t : executed[t] * TxnAmount[t], {t \in Txns : TxnKind[t] = kind})
OperatorBalance == Balance - Moved("bet") + Moved("win") + MapThenSumSet(LAMBDA t : TxnAmount[t], undone)

\* Only executed transactions, and in the native protocol rollbacks of unknown
\* bets, are remembered.
Remember(t, code) == answered' = [answered EXCEPT ![t] = code]

Times(t) == [executed EXCEPT ![t] = @ + 1]

ExecuteBet(t) ==
  IF OperatorBalance < TxnAmount[t] THEN [code |-> "INSUFFICIENT_FUNDS", executed |-> executed, undone |-> undone]
  ELSE [code |-> "ok", executed |-> Times(t), undone |-> undone]

ExecuteWin(t) == [code |-> "ok", executed |-> Times(t), undone |-> undone]

ExecuteRollback(t) ==
  LET b == TxnBet[t]
  IN  [code |-> IF executed[b] > 0 THEN "ok" ELSE IF dialect = "native" THEN "noop" ELSE "UNKNOWN_TXN",
       executed |-> executed,
       undone |-> IF executed[b] > 0 THEN undone \cup {b} ELSE undone]

Execute(t) == CASE TxnKind[t] = "bet" -> ExecuteBet(t)
                [] TxnKind[t] = "win" -> ExecuteWin(t)
                [] OTHER -> ExecuteRollback(t)

\* A reply can reach the client with a signature that does not verify.
Reply(r, code, signed) ==
  replies' = IF call[r.caller].pc = "waiting" /\ call[r.caller].try = r.try
             THEN replies \cup {[caller |-> r.caller, try |-> r.try, code |-> code, signed |-> signed]}
             ELSE replies

\* What was executed is not executed again.  The first answer is repeated, as the stubs
\* do; a SoftSwiss operator may also call the repetition a duplicate.
Repetition(t) ==
  {answered[t]} \cup (IF dialect = "softswiss" THEN {"DUPLICATE_TRANSACTION"} ELSE {})

HandleRequest(r) ==
  LET t == CallTxn[r.caller]
      done == Execute(t)
  IN  /\ r \in requests
      /\ requests' = requests \ {r}
      /\ \E signed \in BOOLEAN :
           /\ callFaults' = IF signed THEN callFaults ELSE callFaults + 1
           /\ callFaults' <= MaxCallFaults
           /\ \/ /\ answered[t] # "none"
                 /\ \E code \in Repetition(t) : Reply(r, code, signed)
                 /\ UNCHANGED <<answered, executed, undone>>
              \/ /\ answered[t] = "none"
                 /\ Reply(r, done.code, signed)
                 /\ executed' = done.executed /\ undone' = done.undone
                 /\ IF done.code \in {"ok", "noop"} THEN Remember(t, done.code) ELSE UNCHANGED answered
      /\ UNCHANGED <<dialect, call, recorded>>

\* A try is turned away before the transaction is looked up, whatever became of an
\* earlier one.
TurnAway(r, code) ==
  /\ r \in requests /\ callFaults < MaxCallFaults
  /\ callFaults' = callFaults + 1
  /\ requests' = requests \ {r}
  /\ Reply(r, code, TRUE)
  /\ UNCHANGED <<dialect, call, recorded, answered, executed, undone>>

\* A 429 of the operator's rate limit.
Throttle(r) == TurnAway(r, "RATE_LIMITED")

\* STUB_FAIL_NEXT_WIN: a 500.
FailWin(r) == Kind(r.caller) = "win" /\ TurnAway(r, "UPSTREAM_ERROR")

-----------------------------------------------------------------------------
CallInit ==
  /\ dialect \in {"native", "softswiss"}
  /\ call = [c \in Callers |-> [pc |-> "idle", try |-> 0, answer |-> "none"]]
  /\ recorded = [t \in Txns |-> NoRecord]
  /\ requests = {} /\ replies = {}
  /\ answered = [t \in Txns |-> "none"] /\ executed = [t \in Txns |-> 0]
  /\ undone = {} /\ callFaults = 0

CallNext ==
  \/ \E c \in Callers : StartCall(c) \/ LookUpFails(c) \/ TakeReply(c) \/ StoreAnswer(c) \/ AbandonTry(c)
  \/ \E r \in requests : HandleRequest(r) \/ Throttle(r) \/ FailWin(r)

CallSpec == CallInit /\ [][CallNext]_callVars

-----------------------------------------------------------------------------
(* Properties *)

\* Outcomes that say nothing of the transaction.  A throttle is one of them: the client
\* takes it for a rejection, but an earlier try may have been executed.
Silent == {"none", "unknown", "mismatch", "RATE_LIMITED"}

StakeHeld(t) == executed[TxnBet[t]] = 1 /\ TxnBet[t] \notin undone

\* What any other code says: a success or a duplicate that the transaction was executed,
\* a rejection that it was not; of a rollback, which is never rejected for what it asks,
\* that the stake is not held.
Says(t, code) ==
  code \in Silent \/
  IF TxnKind[t] = "rollback" THEN code \in {"ok", "noop", "DUPLICATE_TRANSACTION"} /\ ~StakeHeld(t)
  ELSE (code \in {"ok", "DUPLICATE_TRANSACTION"}) <=> executed[t] = 1

\* What the client has told its callers, from the wire or from txn_idempotency, is what
\* the operator did and goes on being so, whichever of its tries and answers were lost.
AnswersAreTrue == \A c \in Callers : Ended(c) => Says(CallTxn[c], call[c].answer)

\* So is what is recorded, and is replayed to every later call with the same body.
RecordsAreTrue == \A t \in Txns : Says(t, recorded[t].code)

\* Neither an answer nor a record says other than what the operator did, and it did
\* nothing twice.
WalletCallsAreTrue == AnswersAreTrue /\ RecordsAreTrue /\ \A t \in Txns : executed[t] <= 1
=============================================================================
