----------------------------- MODULE DemoSessions -----------------------------
(***************************************************************************)
(* One demo session in the RocksDB store and the requests that use it at   *)
(* the same time: simulated slips (POST /play), reset_balance, the binding *)
(* of a game to a session and the lazy expiry.  Balance changes read and   *)
(* write under the session's lock; bindSessionGame and deleteSession do not *)
(* take it.  A slip stakes one credit and a winning one pays two.          *)
(***************************************************************************)
EXTENDS Integers, FiniteSets

CONSTANTS
  Plays,        \* POST /play requests of the session
  Resets,       \* reset_balance messages
  Binders,      \* sockets that attach the session with a ?game= of their own
  Credits,      \* balance of a new session
  Free,         \* no task holds the lock
  MaxHalts      \* bound: stops of the process

Tasks == Plays \cup Resets

ASSUME DemoSessionsAssumption ==
  Plays \cap Resets = {} /\ IsFiniteSet(Plays) /\ Free \notin Tasks /\ Credits \in Nat /\ MaxHalts \in Nat

VARIABLES
  stored, lapsed, bound, credits,  \* the record: present, past expiresAt, has a gameId, balance
  holder,                          \* task inside withLock(sessionId)
  job,                             \* what each task does: read, wait, write or nothing
  delta,                           \* the change a play is about to make
  got, gotBound,                   \* the record each task has read
  binding, gotCredits,             \* sockets between bindSessionGame's read and write
  net,                             \* what the balance changes made add up to
  halts

recVars  == <<stored, lapsed, bound, credits>>
taskVars == <<job, delta, got, gotBound>>
bindVars == <<binding, gotCredits>>
demoVars == <<recVars, holder, taskVars, bindVars, net, halts>>

-----------------------------------------------------------------------------
(* Faulty variants of helpers below. *)

\* Read-modify-write without the lock.
UnlockedTurn(t) == TRUE

-----------------------------------------------------------------------------
\* The step of a play after its debit: nothing, or another change.
AfterPlay(t, d) ==
  /\ job' = [job EXCEPT ![t] = IF d = 0 THEN "done" ELSE "wait"]
  /\ delta' = [delta EXCEPT ![t] = d]

-----------------------------------------------------------------------------
(* POST /play up to the debit, and reset_balance. *)

\* balanceOf: getSession.  A lapsed record is seen first and deleted afterwards.
ReadBalance(p) ==
  /\ job[p] = "idle"
  /\ job' = [job EXCEPT ![p] =
       IF stored /\ lapsed THEN "purge" ELSE IF stored /\ credits >= 1 THEN "wait" ELSE "done"]
  /\ delta' = [delta EXCEPT ![p] = -1]
  /\ UNCHANGED <<recVars, holder, got, gotBound, bindVars, net, halts>>

PurgeLapsed(p) ==
  /\ job[p] = "purge" /\ job' = [job EXCEPT ![p] = "done"]
  /\ stored' = FALSE
  /\ UNCHANGED <<lapsed, bound, credits, holder, delta, got, gotBound, bindVars, net, halts>>

StartReset(r) ==
  /\ job[r] = "idle" /\ job' = [job EXCEPT ![r] = "wait"]
  /\ UNCHANGED <<recVars, holder, delta, got, gotBound, bindVars, net, halts>>

-----------------------------------------------------------------------------
(* adjustBalance and setBalance, inside the lock. *)

MyTurn(t) == holder = Free

\* jget; a missing session throws and frees the lock.
ReadRecord(t) ==
  /\ job[t] = "wait" /\ MyTurn(t)
  /\ IF stored
     THEN job' = [job EXCEPT ![t] = "write"] /\ holder' = t
     ELSE job' = [job EXCEPT ![t] = "done"] /\ UNCHANGED holder
  /\ got' = [got EXCEPT ![t] = credits] /\ gotBound' = [gotBound EXCEPT ![t] = bound]
  /\ UNCHANGED <<recVars, delta, bindVars, net, halts>>

\* After the debit: a balance below zero is given back; a winning slip is paid.
AfterDebit(t, balance) ==
  IF balance < 0 THEN AfterPlay(t, 1) ELSE \E d \in {0, 2} : AfterPlay(t, d)

\* jput of the whole record, with a new expiresAt.
WriteRecord(t) ==
  LET balance == IF t \in Resets THEN Credits ELSE got[t] + delta[t] IN
  /\ job[t] = "write" /\ holder' = Free
  /\ stored' = TRUE /\ lapsed' = FALSE /\ bound' = gotBound[t] /\ credits' = balance
  /\ net' = IF t \in Resets THEN Credits ELSE net + delta[t]
  /\ IF t \in Plays /\ delta[t] = -1
     THEN AfterDebit(t, balance)
     ELSE job' = [job EXCEPT ![t] = "done"] /\ UNCHANGED delta
  /\ UNCHANGED <<got, gotBound, bindVars, halts>>

-----------------------------------------------------------------------------
(* Outside the lock. *)

\* bindSessionGame: getSession, and nothing to do for a session with a game.
ReadForBinding(x) ==
  /\ binding[x] = "idle"
  /\ binding' = [binding EXCEPT ![x] =
       IF stored /\ lapsed THEN "purge" ELSE IF stored /\ ~bound THEN "write" ELSE "done"]
  /\ gotCredits' = [gotCredits EXCEPT ![x] = credits]
  /\ UNCHANGED <<recVars, holder, taskVars, net, halts>>

\* jput({...session, gameId}): the balance and expiresAt it read come along.
WriteBinding(x) ==
  /\ binding[x] \in {"write", "purge"} /\ binding' = [binding EXCEPT ![x] = "done"]
  /\ IF binding[x] = "write"
     THEN stored' = TRUE /\ bound' = TRUE /\ credits' = gotCredits[x]
     ELSE stored' = FALSE /\ UNCHANGED <<bound, credits>>
  /\ UNCHANGED <<lapsed, holder, taskVars, gotCredits, net, halts>>

Lapse ==
  /\ stored /\ ~lapsed /\ lapsed' = TRUE
  /\ UNCHANGED <<stored, bound, credits, holder, taskVars, bindVars, net, halts>>

\* The process stops with the record as last written.
Halt ==
  /\ halts < MaxHalts /\ halts' = halts + 1
  /\ holder' = Free
  /\ binding' = [x \in Binders |-> IF binding[x] = "idle" THEN "idle" ELSE "done"]
  /\ job' = [t \in Tasks |-> IF job[t] = "idle" THEN "idle" ELSE "done"]
  /\ UNCHANGED <<recVars, delta, got, gotBound, gotCredits, net>>

-----------------------------------------------------------------------------
DemoInit ==
  /\ stored = TRUE /\ lapsed = FALSE /\ bound = FALSE /\ credits = Credits
  /\ holder = Free /\ job = [t \in Tasks |-> "idle"] /\ delta = [t \in Tasks |-> 0]
  /\ got = [t \in Tasks |-> 0] /\ gotBound = [t \in Tasks |-> FALSE]
  /\ binding = [x \in Binders |-> "idle"] /\ gotCredits = [x \in Binders |-> 0]
  /\ net = Credits /\ halts = 0

DemoNext ==
  \/ \E p \in Plays : ReadBalance(p) \/ PurgeLapsed(p)
  \/ \E r \in Resets : StartReset(r)
  \/ \E t \in Tasks : ReadRecord(t) \/ WriteRecord(t)
  \/ \E x \in Binders : ReadForBinding(x) \/ WriteBinding(x)
  \/ Lapse \/ Halt

DemoSpec == DemoInit /\ [][DemoNext]_demoVars

-----------------------------------------------------------------------------
(* Properties. *)

\* Every variable keeps its type.
DemoTypeOK ==
  /\ {stored, lapsed, bound} \subseteq BOOLEAN /\ {credits, net} \subseteq Int
  /\ holder \in Tasks \cup {Free}
  /\ job \in [Tasks -> {"idle", "purge", "wait", "write", "done"}]
  /\ delta \in [Tasks -> {-1, 0, 1, 2}] /\ got \in [Tasks -> Int]
  /\ gotBound \in [Tasks -> BOOLEAN]
  /\ binding \in [Binders -> {"idle", "write", "purge", "done"}] /\ gotCredits \in [Binders -> Int] /\ halts \in Nat

\* A balance is what the changes made to it add up to, with slips and resets at
\* the same time and the session deleted under them, until a game is bound to
\* the session (withLock; bindSessionGame writes an old balance back).
NoLostUpdate == stored /\ ~bound => credits = net

\* The debt of slips that passed the check together is only what the overdraw
\* guard is about to give back, unless the process stops in between (POST /play).
DebtIsRefunded ==
  stored /\ halts = 0 /\ ~bound =>
    credits + Cardinality({p \in Plays : delta[p] = 1 /\ job[p] \in {"wait", "write"}}) >= 0

DemoBalanceIsRight == NoLostUpdate /\ DebtIsRefunded

=============================================================================
