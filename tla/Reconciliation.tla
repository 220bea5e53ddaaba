--------------------------- MODULE Reconciliation ---------------------------
(***************************************************************************)
(* The daily reconciliation: our answered transactions (txn_idempotency),  *)
(* read page by page from the newest to the oldest, each with the row of   *)
(* its bet if that row carries the id yet, while the server goes on        *)
(* answering others; compared with the list the operator gives; and the    *)
(* verdict written in one transaction.                                     *)
(***************************************************************************)
EXTENDS Integers, FiniteSets, FiniteSetsExt

CONSTANTS
  ReconTxns,    \* transaction ids, natural numbers: they are compared
  Rollbacks,    \* those whose bet row gets their id only after they were answered
  OurSide,      \* [ReconTxns -> [amount, status]]: of its bet row, and of its recorded answer
  TheirSide,    \* the operator's records: a function on some of the ids
  TheirTime,    \* the operator's time of each of its records
  Runs,         \* rows of reconciliation_runs
  PageSize,     \* rows of a page: 200
  DaySeconds,   \* length of the window of the daily sweep
  LastSecond,   \* bound on time
  MaxReconFaults \* bound on failing sources and database writes

ASSUME ReconAssumption ==
  /\ ReconTxns \subseteq Nat /\ Rollbacks \subseteq ReconTxns /\ PageSize \in Nat \ {0} /\ DaySeconds \in Nat \ {0}
  /\ LastSecond \in Nat
  /\ DOMAIN TheirSide = DOMAIN TheirTime /\ IsFiniteSet(DOMAIN TheirTime)
  /\ OurSide \in [ReconTxns -> [amount : Int, status : STRING]]
  /\ TheirSide \in [DOMAIN TheirTime -> [amount : Int, status : STRING]]

VARIABLES
  second,      \* time
  stamp,       \* created_at of each transaction, or NotYet
  inserted,    \* the transactions whose row is in txn_idempotency
  linked,      \* those whose id is in the row of their bet
  reconRun,    \* the runs, with the local state of PgReconciler.run
  reports,     \* [run, txn, kind]: rows of reconciliation_mismatches
  reconFaults
reconVars == <<second, stamp, inserted, linked, reconRun, reports, reconFaults>>

NotYet == -1
NoCursor == [at |-> LastSecond + 1, txn |-> 0]
IdleRun == [status |-> "none", from |-> 0, to |-> 0, cursor |-> NoCursor, seen |-> {}, bare |-> {},
            known |-> {}, joined |-> {}, theirs |-> {}, checked |-> 0, mismatches |-> 0]

-----------------------------------------------------------------------------
(* The server answers transactions: the row gets its time before it is inserted. *)

SecondPasses ==
  /\ second < LastSecond /\ second' = second + 1
  /\ UNCHANGED <<stamp, inserted, linked, reconRun, reports, reconFaults>>

\* The ids of a bet and of its payment are in the bet's row before they are sent.
StampTxn(t) ==
  /\ stamp[t] = NotYet /\ t \in linked \cup Rollbacks
  /\ stamp' = [stamp EXCEPT ![t] = second]
  /\ UNCHANGED <<second, inserted, linked, reconRun, reports, reconFaults>>

InsertTxn(t) ==
  /\ stamp[t] # NotYet /\ t \notin inserted
  /\ inserted' = inserted \cup {t}
  /\ UNCHANGED <<second, stamp, linked, reconRun, reports, reconFaults>>

\* The id of a rollback comes into the bet's row when the rollback is completed: after
\* its answer, or never, if the server stops or the transition fails.
LinkTxn(t) ==
  /\ t \notin linked /\ (t \in Rollbacks => stamp[t] # NotYet)
  /\ linked' = linked \cup {t}
  /\ UNCHANGED <<second, stamp, inserted, reconRun, reports, reconFaults>>

-----------------------------------------------------------------------------
(* One page of listIdempotencyFiltered. *)

OlderByTime(t, cursor) == stamp[t] < cursor.at

Older(t, cursor) == stamp[t] < cursor.at \/ (stamp[t] = cursor.at /\ t < cursor.txn)

InWindow(t, r) == stamp[t] >= reconRun[r].from /\ stamp[t] < reconRun[r].to

Remaining(r) == {t \in inserted : InWindow(t, r) /\ Older(t, reconRun[r].cursor)}

\* ORDER BY created_at DESC, txn_id DESC LIMIT PageSize.
Page(r) ==
  LET newer(t) == {u \in Remaining(r) : Older(t, [at |-> stamp[u], txn |-> u])}
  IN  {t \in Remaining(r) : Cardinality(newer(t)) < PageSize}

LastOf(page) == CHOOSE t \in page : \A u \in page : u = t \/ Older(t, [at |-> stamp[u], txn |-> u])

-----------------------------------------------------------------------------
(* PgReconciler.run *)

Begin(r, from, to) ==
  /\ reconRun[r] = IdleRun
  /\ reconRun' = [reconRun EXCEPT ![r] = [IdleRun EXCEPT !.status = "RUNNING", !.from = from, !.to = to,
                                             !.known = inserted, !.joined = inserted \cap linked]]
  /\ UNCHANGED <<second, stamp, inserted, linked, reports, reconFaults>>

\* The sweep of the scheduler takes the last day; an admin asks for any window.
Sweep(r) == second >= DaySeconds /\ Begin(r, second - DaySeconds, second)
RunOnDemand(r) == \E from, to \in 0..LastSecond : from < to /\ Begin(r, from, to)

\* A full page has a successor; a shorter one is the last.  A transaction is read with
\* the row of its bet as it then is.
ReadPage(r) ==
  /\ reconRun[r].status = "RUNNING"
  /\ reconRun' = [reconRun EXCEPT
       ![r].seen = @ \cup Page(r),
       ![r].bare = @ \cup (Page(r) \ linked),
       ![r].cursor = IF Cardinality(Page(r)) = PageSize THEN [at |-> stamp[LastOf(Page(r))], txn |-> LastOf(Page(r))] ELSE @,
       ![r].status = IF Cardinality(Page(r)) = PageSize THEN @ ELSE "FETCHING"]
  /\ UNCHANGED <<second, stamp, inserted, linked, reports, reconFaults>>

FetchTheirs(r) ==
  /\ reconRun[r].status = "FETCHING"
  /\ reconRun' = [reconRun EXCEPT ![r].status = "SAVING",
       ![r].theirs = {t \in DOMAIN TheirTime : TheirTime[t] >= reconRun[r].from /\ TheirTime[t] < reconRun[r].to}]
  /\ UNCHANGED <<second, stamp, inserted, linked, reports, reconFaults>>

\* A failing source ends the run as FAILED, with nothing checked.
SourceFails(r) ==
  /\ reconRun[r].status = "FETCHING" /\ reconFaults < MaxReconFaults
  /\ reconFaults' = reconFaults + 1
  /\ reconRun' = [reconRun EXCEPT ![r].status = "FAILED"]
  /\ UNCHANGED <<second, stamp, inserted, linked, reports>>

\* Without the row of its bet a transaction has the amount 0.
AmountRead(t, run) == IF t \in run.bare THEN 0 ELSE OurSide[t].amount

\* The comparison: presence first, then the amount, then the status.
KindOf(t, run) ==
  IF t \notin run.theirs THEN "missing_on_operator"
  ELSE IF t \notin run.seen THEN "missing_on_game"
  ELSE IF AmountRead(t, run) # TheirSide[t].amount THEN "amount_mismatch"
  ELSE IF OurSide[t].status # TheirSide[t].status THEN "status_mismatch"
  ELSE "match"

Mismatched(r) == {t \in reconRun[r].seen \cup reconRun[r].theirs : KindOf(t, reconRun[r]) # "match"}

Reported(r) == {[run |-> r, txn |-> t, kind |-> KindOf(t, reconRun[r])] : t \in Mismatched(r)}

\* The mismatches and the verdict are committed together.
SaveVerdict(r) ==
  /\ reconRun[r].status = "SAVING"
  /\ reports' = reports \cup Reported(r)
  /\ reconRun' = [reconRun EXCEPT
       ![r].checked = Cardinality(reconRun[r].seen \cup reconRun[r].theirs),
       ![r].mismatches = Cardinality(Mismatched(r)),
       ![r].status = IF Mismatched(r) = {} THEN "OK" ELSE "MISMATCHES"]
  /\ UNCHANGED <<second, stamp, inserted, linked, reconFaults>>

\* A database error leaves the row RUNNING for good; it is never listed.
SaveFails(r) ==
  /\ reconRun[r].status \in {"RUNNING", "FETCHING", "SAVING"} /\ reconFaults < MaxReconFaults
  /\ reconFaults' = reconFaults + 1
  /\ reconRun' = [reconRun EXCEPT ![r].status = "ABANDONED"]
  /\ UNCHANGED <<second, stamp, inserted, linked, reports>>

-----------------------------------------------------------------------------
ReconInit ==
  /\ second = 0 /\ stamp = [t \in ReconTxns |-> NotYet] /\ inserted = {} /\ linked = {}
  /\ reconRun = [r \in Runs |-> IdleRun] /\ reports = {} /\ reconFaults = 0

ReconNext ==
  \/ SecondPasses
  \/ \E t \in ReconTxns : StampTxn(t) \/ InsertTxn(t) \/ LinkTxn(t)
  \/ \E r \in Runs : Sweep(r) \/ RunOnDemand(r) \/ ReadPage(r) \/ FetchTheirs(r) \/ SourceFails(r) \/ SaveVerdict(r) \/ SaveFails(r)

ReconSpec == ReconInit /\ [][ReconNext]_reconVars

-----------------------------------------------------------------------------
(* Properties *)

Listed(r) == reconRun[r].status \in {"OK", "MISMATCHES", "FAILED"}
ReportsOf(r) == {m \in reports : m.run = r}

\* How the two sides differ in a transaction we have, when ours has this amount.
Differences(t, amount, theirs) ==
  IF t \notin theirs THEN {"missing_on_operator"}
  ELSE IF [amount |-> amount, status |-> OurSide[t].status] = TheirSide[t] THEN {}
  ELSE IF amount = TheirSide[t].amount THEN {"status_mismatch"}
  ELSE {"amount_mismatch"}

\* What a finished run says is true of every transaction recorded before it began,
\* however many pages it took and whatever was recorded meanwhile: each one of its
\* window was compared, and is reported exactly when and as the two sides differ; but a
\* rollback whose id had not come into its bet's row when the run began may instead be
\* judged as if its amount were 0.
VerdictIsTrue ==
  \A r \in Runs : reconRun[r].status \in {"OK", "MISMATCHES"} =>
    \A t \in reconRun[r].known : InWindow(t, r) =>
      LET kinds == {m.kind : m \in {n \in ReportsOf(r) : n.txn = t}}
          theirs == reconRun[r].theirs
      IN  /\ t \in reconRun[r].seen
          /\ \/ kinds = Differences(t, OurSide[t].amount, theirs)
             \/ kinds = Differences(t, 0, theirs) /\ t \in Rollbacks \ reconRun[r].joined

\* A run that is listed is whole: its rows are as many as it counts, a run that
\* failed has none, and "missing on our side" is never said of a transaction we
\* had recorded in the window before the run.
ListedRunsAreWhole ==
  \A r \in Runs : Listed(r) =>
    /\ Cardinality(ReportsOf(r)) = reconRun[r].mismatches
    /\ (reconRun[r].status = "OK") <=> (reconRun[r].mismatches = 0 /\ reconRun[r].status # "FAILED")
    /\ reconRun[r].status = "FAILED" => ReportsOf(r) = {}
    /\ \A m \in ReportsOf(r) : m.kind = "missing_on_game" => ~ (m.txn \in reconRun[r].known /\ InWindow(m.txn, r))

\* The verdict of a reconciliation run: true, and whole.
ReconciliationIsRight == VerdictIsTrue /\ ListedRunsAreWhole
=============================================================================
