----------------------------- MODULE MoneyProofs -----------------------------
(***************************************************************************)
(* Money outside the rounds, for every value of the constants: final       *)
(* fantasy leagues, demo balances, invoices, the slips of match bets, the  *)
(* listings these are read from, and the daily reconciliation.             *)
(***************************************************************************)
EXTENDS FantasyLeague, DemoSessions, Billing, MatchBets, Listings, Reconciliation,
        FiniteSetTheorems, WellFoundedInduction, TLAPS

-----------------------------------------------------------------------------
(* Fantasy leagues. *)

\* A join that holds the row's SHARE lock holds it on an open league.
JoinInv ==
  /\ leagueStatus \in [Leagues -> {"none", "open", "settled", "cancelled"}]
  /\ joining \in [Joins -> Steps]
  /\ DOMAIN squads = Leagues /\ DOMAIN payout = Leagues
  /\ \A j \in Joins : joining[j] \in {"locked", "inserted"} => leagueStatus[JoinLeague[j]] = "open"

IsFinal(l) == leagueStatus[l] \in {"settled", "cancelled"}
StaysFinal == \A l \in Leagues : IsFinal(l) =>
  leagueStatus'[l] = leagueStatus[l] /\ squads'[l] = squads[l] /\ payout'[l] = payout[l]

LEMMA JoinStep == ASSUME JoinInv, FantasyNext PROVE JoinInv' /\ StaysFinal
  <1>0. JoinLeague \in [Joins -> Leagues] BY FantasyAssumption DEF FantasyAssumption
  <1> USE <1>0 DEF JoinInv, StaysFinal, IsFinal, Steps,
          fplVars, cacheVars, leagueVars, joinVars, tickVars, JoinGoes
  <1>1. CASE TimePasses \/ FplMovesDeadline \/ FplChecksResults \/ LoadCatalog \/ LoadLivePoints
    BY <1>1 DEF TimePasses, FplMovesDeadline, FplChecksResults, LoadCatalog, LoadLivePoints
  <1>2. ASSUME NEW j \in Joins, CheckJoin(j) PROVE JoinInv' /\ StaysFinal BY <1>2 DEF CheckJoin
  <1>3. ASSUME NEW j \in Joins, LockForJoin(j) PROVE JoinInv' /\ StaysFinal BY <1>3 DEF LockForJoin
  <1>4. ASSUME NEW j \in Joins, InsertMember(j) PROVE JoinInv' /\ StaysFinal BY <1>4 DEF InsertMember
  <1>5. ASSUME NEW j \in Joins, PayEntry(j) PROVE JoinInv' /\ StaysFinal
    <2>1. leagueStatus[JoinLeague[j]] = "open" /\ JoinLeague[j] \in Leagues BY <1>5 DEF PayEntry
    <2>2. UNCHANGED <<leagueStatus, payout>> /\ (joining' = [joining EXCEPT ![j] = "joined"] \/ joining' = [joining EXCEPT ![j] = "refused"])
      BY <1>5 DEF PayEntry
    <2>3. /\ DOMAIN squads' = Leagues
          /\ \A l \in Leagues \ {JoinLeague[j]} : squads'[l] = squads[l]
      BY <1>5, <2>1 DEF PayEntry
    <2> QED BY <2>1, <2>2, <2>3
  <1>6. ASSUME NEW j \in Joins, JoinFails(j) PROVE JoinInv' /\ StaysFinal BY <1>6 DEF JoinFails
  <1>7. ASSUME NEW k \in Ticks, StartTick(k) \/ ListOpen(k) \/ TickFails(k) PROVE JoinInv' /\ StaysFinal
    BY <1>7 DEF StartTick, ListOpen, TickFails
  <1>8. ASSUME NEW k \in Ticks, NEW l \in Leagues, EnsureLeague(k, l) PROVE JoinInv' /\ StaysFinal
    BY <1>8 DEF EnsureLeague
  <1>9. ASSUME NEW k \in Ticks, NEW l \in Leagues, SettleLeague(k, l) PROVE JoinInv' /\ StaysFinal
    <2>1. LeagueFree(l) /\ UNCHANGED <<squads, joining>> BY <1>9 DEF SettleLeague
    <2>2. CASE ~StillOpen(l) BY <1>9, <2>1, <2>2 DEF SettleLeague
    <2>3. CASE StillOpen(l) /\ CancelLeague(l) BY <2>1, <2>3 DEF LeagueFree, StillOpen, CancelLeague
    <2>4. CASE StillOpen(l) /\ PayLeague(l, Points[livePoints])
      <3>1. leagueStatus' = [leagueStatus EXCEPT ![l] = "settled"] BY <2>4 DEF PayLeague
      <3>2. DOMAIN payout' = Leagues /\ \A m \in Leagues \ {l} : payout'[m] = payout[m]
        <4> DEFINE pts  == [e \in Members(l) |-> SquadPoints(squads[l][e], Points[livePoints])]
                   pool == Fee * Cardinality(Members(l))
                   paid == [e \in Members(l) |-> PayoutOf(pts, pool - RakeOf(pool), e)]
        <4>1. payout' = [payout EXCEPT ![l] = paid] BY <2>4 DEF PayLeague
        <4> HIDE DEF paid
        <4> QED BY <4>1
      <3>3. leagueStatus[l] = "open" /\ \A j \in Joins : JoinLeague[j] = l => joining[j] \notin {"locked", "inserted"}
        BY <2>1, <2>4 DEF LeagueFree, StillOpen
      <3>4. JoinInv'
        <4>1. \A j \in Joins : joining'[j] \in {"locked", "inserted"} => leagueStatus'[JoinLeague[j]] = "open"
          BY <2>1, <3>1, <3>3
        <4>2. DOMAIN squads' = Leagues BY <2>1
        <4> QED BY <2>1, <3>1, <3>2, <4>1, <4>2
      <3>5. StaysFinal BY <2>1, <3>1, <3>2, <3>3
      <3> QED BY ONLY <3>4, <3>5
    <2> QED BY <1>9, <2>2, <2>3, <2>4 DEF SettleLeague
  <1> QED BY ONLY FantasyNext, <1>1, <1>2, <1>3, <1>4, <1>5, <1>6, <1>7, <1>8, <1>9 DEF FantasyNext

\* Nobody joins a league that was settled or cancelled, and no second tick pays it again,
\* whatever joins and ticks of two processes are under way (join, settle).
THEOREM LeaguesFinal == FantasySpec => FinalLeaguesStay
  <1>1. FantasyInit => JoinInv BY DEF FantasyInit, JoinInv, Steps
  <1>2. JoinInv /\ [FantasyNext]_fantasyVars => JoinInv'
    <2>1. CASE UNCHANGED fantasyVars
      BY <2>1 DEF JoinInv, fantasyVars, fplVars, cacheVars, leagueVars, joinVars, tickVars
    <2> QED BY <2>1, JoinStep
  <1>3. JoinInv /\ [FantasyNext]_fantasyVars => [StaysFinal]_fantasyVars BY JoinStep
  <1>4. StaysFinal <=> \A l \in Leagues : leagueStatus[l] \in {"settled", "cancelled"} =>
           leagueStatus'[l] = leagueStatus[l] /\ squads'[l] = squads[l] /\ payout'[l] = payout[l]
    BY DEF StaysFinal, IsFinal
  <1> QED BY <1>1, <1>2, <1>3, <1>4, PTL DEF FantasySpec, FinalLeaguesStay

-----------------------------------------------------------------------------
(* Demo sessions. *)

\* The balance of the record, or of the record a task in the lock has read before a game
\* was bound, is what the changes so far add up to; the debt of the slips is what the
\* overdraw guards are about to give back.
Refunding == {p \in Plays : delta[p] = 1 /\ job[p] \in {"wait", "write"}}
Unbound(t) == job[t] = "write" /\ ~gotBound[t]
DemoLock ==
  /\ \A t \in Tasks : job[t] = "write" => holder = t
  /\ \A t \in Tasks : Unbound(t) => got[t] = net
DemoDebt ==
  halts = 0 /\ ((stored /\ ~bound) \/ \E t \in Tasks : Unbound(t)) => net + Cardinality(Refunding) >= 0
DemoInv == DemoTypeOK /\ DemoLock /\ NoLostUpdate /\ DemoDebt

LEMMA DemoTypeStep == ASSUME DemoTypeOK, DemoNext PROVE DemoTypeOK'
  <1> USE DemoSessionsAssumption DEF DemoSessionsAssumption, DemoTypeOK, recVars, taskVars, bindVars, Tasks
  <1>1. ASSUME NEW p \in Plays, ReadBalance(p) PROVE DemoTypeOK' BY <1>1 DEF ReadBalance
  <1>2. ASSUME NEW p \in Plays, PurgeLapsed(p) PROVE DemoTypeOK' BY <1>2 DEF PurgeLapsed
  <1>3. ASSUME NEW r \in Resets, StartReset(r) PROVE DemoTypeOK' BY <1>3 DEF StartReset
  <1>4. ASSUME NEW t \in Tasks, ReadRecord(t) PROVE DemoTypeOK' BY <1>4 DEF ReadRecord
  <1>5. ASSUME NEW t \in Tasks, WriteRecord(t) PROVE DemoTypeOK'
    <2>1. /\ got[t] \in Int /\ delta[t] \in Int /\ gotBound[t] \in BOOLEAN /\ net \in Int /\ Credits \in Int
      OBVIOUS
    <2>2. /\ stored' = TRUE /\ lapsed' = FALSE /\ bound' = gotBound[t] /\ holder' = Free
          /\ UNCHANGED <<got, gotBound, binding, gotCredits, halts>>
      BY <1>5 DEF WriteRecord
    <2>3. credits' \in Int /\ net' \in Int
      <3>1. CASE t \in Resets BY <1>5, <2>1, <3>1 DEF WriteRecord
      <3>2. CASE t \notin Resets BY <1>5, <2>1, <3>2 DEF WriteRecord
      <3> QED BY <3>1, <3>2
    <2>4. \/ job' = [job EXCEPT ![t] = "done"] /\ delta' = delta
          \/ \E d \in {0, 1, 2} : AfterPlay(t, d)
      BY <1>5 DEF WriteRecord, AfterDebit
    <2>5. /\ job' \in [Tasks -> {"idle", "purge", "wait", "write", "done"}]
          /\ delta' \in [Tasks -> {-1, 0, 1, 2}]
      <3>1. CASE job' = [job EXCEPT ![t] = "done"] /\ delta' = delta BY <3>1
      <3>2. ASSUME NEW d \in {0, 1, 2}, AfterPlay(t, d) PROVE <2>5!1 /\ <2>5!2 BY <3>2 DEF AfterPlay
      <3> QED BY <2>4, <3>1, <3>2
    <2>6. {stored', lapsed', bound'} \subseteq BOOLEAN /\ {credits', net'} \subseteq Int
      BY ONLY <2>1, <2>2, <2>3
    <2> QED BY ONLY <2>2, <2>5, <2>6, DemoTypeOK DEF DemoTypeOK
  <1>6. ASSUME NEW x \in Binders, ReadForBinding(x) PROVE DemoTypeOK' BY <1>6 DEF ReadForBinding
  <1>7. ASSUME NEW x \in Binders, WriteBinding(x) PROVE DemoTypeOK'
    <2>1. gotCredits[x] \in Int /\ credits \in Int /\ bound \in BOOLEAN OBVIOUS
    <2>2. stored' \in BOOLEAN /\ bound' \in BOOLEAN /\ credits' \in Int
      <3>1. CASE binding[x] = "write" BY <1>7, <2>1, <3>1 DEF WriteBinding
      <3>2. CASE binding[x] # "write" BY <1>7, <2>1, <3>2 DEF WriteBinding
      <3> QED BY <3>1, <3>2
    <2>3. /\ UNCHANGED <<lapsed, holder, job, delta, got, gotBound, gotCredits, net, halts>>
          /\ binding' \in [Binders -> {"idle", "write", "purge", "done"}]
      BY <1>7 DEF WriteBinding
    <2> QED BY ONLY <2>2, <2>3, DemoTypeOK DEF DemoTypeOK
  <1>8. CASE Lapse BY <1>8 DEF Lapse
  <1>9. CASE Halt BY <1>9 DEF Halt
  <1> QED BY <1>1, <1>2, <1>3, <1>4, <1>5, <1>6, <1>7, <1>8, <1>9 DEF DemoNext

LEMMA RefundingIsFinite ==
  IsFiniteSet(Refunding) /\ Cardinality(Refunding) \in Nat
  <1>1. Refunding \in SUBSET Plays BY DEF Refunding
  <1> QED BY <1>1, FS_Subset, FS_CardinalityType, DemoSessionsAssumption DEF DemoSessionsAssumption

\* A step that moves no money, and begins no debt to count, keeps the account.
LEMMA DemoQuiet ==
  ASSUME DemoInv, Refunding' = Refunding, net' = net, halts' = halts, DemoLock', NoLostUpdate',
         (stored' /\ ~bound') \/ (\E t \in Tasks : Unbound(t)') => (stored /\ ~bound) \/ \E t \in Tasks : Unbound(t)
  PROVE  DemoDebt'
  BY DEF DemoInv, DemoDebt

\* The write of a record inside the lock.
LEMMA DemoWrite == ASSUME DemoInv, NEW t \in Tasks, WriteRecord(t) PROVE (DemoLock /\ NoLostUpdate /\ DemoDebt)'
  <1> USE DEF DemoInv
  <1>1. /\ job[t] = "write" /\ holder = t /\ \A u \in Tasks \ {t} : job[u] # "write"
        /\ delta[t] \in {-1, 0, 1, 2} /\ got[t] \in Int /\ net \in Int /\ Credits \in Nat
        /\ DOMAIN job = Tasks /\ DOMAIN delta = Tasks /\ halts' = halts
    BY DemoSessionsAssumption DEF WriteRecord, DemoLock, DemoTypeOK, DemoSessionsAssumption
  <1>2. UNCHANGED <<got, gotBound>> /\ stored' = TRUE /\ bound' = gotBound[t] BY DEF WriteRecord
  <1>3. job'[t] \in {"wait", "done"} /\ \A u \in Tasks \ {t} : job'[u] = job[u] /\ delta'[u] = delta[u]
    BY <1>1 DEF WriteRecord, AfterDebit, AfterPlay
  <1>4. \A u \in Tasks : job'[u] # "write" BY <1>1, <1>3
  <1>5. DemoLock' BY <1>4 DEF DemoLock, Unbound
  <1>6. ~gotBound[t] => got[t] = net BY <1>1 DEF DemoLock, Unbound
  <1>7. IsFiniteSet(Refunding) /\ Cardinality(Refunding) \in Nat BY RefundingIsFinite
  <1>8. IsFiniteSet(Refunding') /\ Cardinality(Refunding') \in Nat
    <2>1. Refunding' \in SUBSET Plays BY DEF Refunding
    <2> QED BY <2>1, FS_Subset, FS_CardinalityType, DemoSessionsAssumption DEF DemoSessionsAssumption
  <1>9. CASE t \in Resets
    <2>1. credits' = Credits /\ net' = Credits BY <1>9 DEF WriteRecord
    <2>2. NoLostUpdate' BY <2>1 DEF NoLostUpdate
    <2>3. DemoDebt' BY <1>1, <1>8, <2>1 DEF DemoDebt
    <2> QED BY <1>5, <2>2, <2>3
  <1>10. CASE t \notin Resets
    <2>1. t \in Plays /\ credits' = got[t] + delta[t] /\ net' = net + delta[t] BY <1>10 DEF WriteRecord, Tasks
    <2>2. NoLostUpdate' BY <1>2, <1>6, <2>1 DEF NoLostUpdate
    <2>3. ASSUME halts = 0, ~gotBound[t] PROVE net' + Cardinality(Refunding') >= 0
      <3>1. net + Cardinality(Refunding) >= 0 BY <1>1, <2>3 DEF DemoDebt, Unbound
      <3>2. got[t] = net BY <1>6, <2>3
      <3>3. CASE delta[t] = -1
        <4>1. AfterDebit(t, net - 1) BY <1>10, <2>1, <3>2, <3>3, <1>1 DEF WriteRecord
        <4>2. CASE net - 1 < 0
          <5>1. job'[t] = "wait" /\ delta'[t] = 1 BY <1>1, <4>1, <4>2 DEF AfterDebit, AfterPlay
          <5>2. Refunding' = Refunding \cup {t} BY <1>3, <2>1, <5>1 DEF Refunding, Tasks
          <5>3. t \notin Refunding BY <3>3 DEF Refunding
          <5>4. Cardinality(Refunding') = Cardinality(Refunding) + 1 BY <1>7, <5>2, <5>3, FS_AddElement
          <5> QED BY <1>1, <1>7, <2>1, <3>1, <3>3, <5>4
        <4>3. CASE net - 1 >= 0 BY <1>1, <1>8, <2>1, <3>3, <4>3
        <4> QED BY <4>2, <4>3, <1>1
      <3>4. CASE delta[t] # -1
        <4>1. job'[t] = "done" BY <3>4, <1>1, <1>10 DEF WriteRecord
        <4>2. Refunding' = Refunding \ {t} BY <1>3, <2>1, <4>1 DEF Refunding, Tasks
        <4>3. t \in Refunding <=> delta[t] = 1 BY <1>1, <2>1 DEF Refunding
        <4>4. Cardinality(Refunding') = IF t \in Refunding THEN Cardinality(Refunding) - 1 ELSE Cardinality(Refunding)
          BY <1>7, <4>2, FS_RemoveElement
        <4> QED BY <1>1, <1>7, <2>1, <3>1, <3>4, <4>3, <4>4
      <3> QED BY <3>3, <3>4
    <2>4. DemoDebt' BY <1>1, <1>2, <1>4, <2>3 DEF DemoDebt, Unbound
    <2> QED BY <1>5, <2>2, <2>4
  <1> QED BY <1>9, <1>10

\* The steps of the other kinds.
LEMMA DemoStep == ASSUME DemoInv, DemoNext PROVE (DemoLock /\ NoLostUpdate /\ DemoDebt)'
  <1> USE DemoSessionsAssumption DEF DemoSessionsAssumption, DemoTypeOK, recVars, taskVars, bindVars
  <1> DEFINE Goal == (DemoLock /\ NoLostUpdate /\ DemoDebt)'
  <1>1. ASSUME NEW t \in Tasks, \/ t \in Plays /\ (ReadBalance(t) \/ PurgeLapsed(t))
                                \/ t \in Resets /\ StartReset(t)
        PROVE Goal
    <2>1. /\ job[t] \in {"idle", "purge"} /\ job'[t] # "write" /\ \A u \in Tasks \ {t} : job'[u] = job[u] /\ delta'[u] = delta[u]
          /\ UNCHANGED <<bound, credits, holder, got, gotBound, net, halts>> /\ (stored' => stored)
          /\ t \in Plays => job'[t] = "done" \/ delta'[t] = -1
      BY <1>1 DEF DemoInv, ReadBalance, PurgeLapsed, StartReset, Tasks
    <2>2. Refunding' = Refunding BY <2>1 DEF Refunding, Tasks
    <2>3. \A u \in Tasks : Unbound(u)' <=> Unbound(u) BY <2>1 DEF Unbound
    <2>4. DemoLock' BY <2>1, <2>3 DEF DemoInv, DemoLock
    <2>5. NoLostUpdate' BY <2>1 DEF DemoInv, NoLostUpdate
    <2> QED BY <2>1, <2>2, <2>3, <2>4, <2>5, DemoQuiet
  <1>2. ASSUME NEW t \in Tasks, ReadRecord(t) PROVE Goal
    <2>1. /\ job[t] = "wait" /\ holder = Free /\ \A u \in Tasks : job[u] # "write"
          /\ \A u \in Tasks \ {t} : job'[u] = job[u] /\ got'[u] = got[u] /\ gotBound'[u] = gotBound[u]
          /\ UNCHANGED <<stored, bound, credits, delta, net, halts>>
      BY <1>2 DEF DemoInv, DemoLock, ReadRecord, MyTurn, Tasks
    <2>2. NoLostUpdate' BY <2>1 DEF DemoInv, NoLostUpdate
    <2>3. CASE stored
      <3>1. job'[t] = "write" /\ holder' = t /\ got'[t] = credits /\ gotBound'[t] = bound
        BY <1>2, <2>3 DEF DemoInv, ReadRecord
      <3>2. Refunding' = Refunding BY <2>1, <3>1 DEF Refunding, Tasks
      <3>3. \A u \in Tasks : Unbound(u)' => u = t /\ ~bound BY <2>1, <3>1 DEF Unbound
      <3>4. DemoLock' BY <2>1, <2>3, <3>1, <3>3 DEF DemoInv, DemoLock, NoLostUpdate
      <3> QED BY <2>1, <2>2, <2>3, <3>2, <3>3, <3>4, DemoQuiet
    <2>4. CASE ~stored
      <3>1. job'[t] = "done" /\ UNCHANGED holder BY <1>2, <2>4 DEF DemoInv, ReadRecord
      <3>2. \A u \in Tasks : job'[u] # "write" BY <2>1, <3>1
      <3>3. DemoLock' BY <3>2 DEF DemoLock, Unbound
      <3>4. DemoDebt' BY <2>1, <2>4, <3>2 DEF DemoDebt, Unbound
      <3> QED BY <2>2, <3>3, <3>4
    <2> QED BY <2>3, <2>4
  <1>3. ASSUME NEW x \in Binders, ReadForBinding(x) \/ WriteBinding(x) PROVE Goal
    <2>1. /\ UNCHANGED <<holder, job, delta, got, gotBound, net, halts>>
          /\ stored' /\ ~bound' => stored /\ ~bound /\ credits' = credits
      BY <1>3 DEF ReadForBinding, WriteBinding
    <2>2. Refunding' = Refunding BY <2>1 DEF Refunding
    <2>3. \A u \in Tasks : Unbound(u)' <=> Unbound(u) BY <2>1 DEF Unbound
    <2>4. DemoLock' BY <2>1, <2>3 DEF DemoInv, DemoLock
    <2>5. NoLostUpdate' BY <2>1 DEF DemoInv, NoLostUpdate
    <2> QED BY <2>1, <2>2, <2>3, <2>4, <2>5, DemoQuiet
  <1>4. ASSUME Lapse PROVE Goal
    <2>1. UNCHANGED <<stored, bound, credits, holder, job, delta, got, gotBound, net, halts>> BY <1>4 DEF Lapse
    <2>2. Refunding' = Refunding BY <2>1 DEF Refunding
    <2>3. \A u \in Tasks : Unbound(u)' <=> Unbound(u) BY <2>1 DEF Unbound
    <2> QED BY <2>1, <2>2, <2>3 DEF DemoInv, DemoLock, NoLostUpdate, DemoDebt
  <1>5. ASSUME Halt PROVE Goal
    <2>1. halts' # 0 /\ UNCHANGED <<stored, bound, credits, net>> /\ \A u \in Tasks : job'[u] # "write"
      BY <1>5 DEF DemoInv, Halt
    <2> QED BY <2>1 DEF DemoInv, DemoLock, NoLostUpdate, DemoDebt, Unbound
  <1>6. ASSUME NEW t \in Tasks, WriteRecord(t) PROVE Goal BY <1>6, DemoWrite
  <1>7. Plays \subseteq Tasks /\ Resets \subseteq Tasks BY DEF Tasks
  <1> HIDE DEF Goal
  <1>8. ASSUME NEW p \in Plays, ReadBalance(p) \/ PurgeLapsed(p) PROVE Goal BY ONLY <1>1, <1>7, <1>8
  <1>9. ASSUME NEW r \in Resets, StartReset(r) PROVE Goal BY ONLY <1>1, <1>7, <1>9
  <1>10. Goal BY ONLY <1>2, <1>3, <1>4, <1>5, <1>6, <1>8, <1>9, DemoNext DEF DemoNext
  <1> QED BY ONLY <1>10 DEF Goal

\* No change of a demo balance is lost and every overdraw is given back, with slips,
\* resets and expiry at the same time, until a game is bound (withLock, POST /play).
THEOREM DemoBalances == DemoSpec => []DemoBalanceIsRight
  <1>1. DemoInit => DemoInv
    <2> SUFFICES ASSUME DemoInit PROVE DemoInv OBVIOUS
    <2>1. DemoTypeOK
      <3>1. {stored, lapsed, bound} \subseteq BOOLEAN /\ halts \in Nat /\ holder \in Tasks \cup {Free}
        BY DEF DemoInit
      <3>4. Credits \in Int /\ credits = Credits /\ net = Credits
        BY DemoSessionsAssumption DEF DemoInit, DemoSessionsAssumption
      <3>5. {credits, net} \subseteq Int BY ONLY <3>4
      <3>2. /\ job \in [Tasks -> {"idle", "purge", "wait", "write", "done"}]
            /\ delta \in [Tasks -> {-1, 0, 1, 2}] /\ got \in [Tasks -> Int]
            /\ gotBound \in [Tasks -> BOOLEAN]
        BY DEF DemoInit
      <3>3. binding \in [Binders -> {"idle", "write", "purge", "done"}] /\ gotCredits \in [Binders -> Int]
        BY DEF DemoInit
      <3> QED BY ONLY <3>1, <3>2, <3>3, <3>5 DEF DemoTypeOK
    <2>2. DemoLock /\ NoLostUpdate BY DEF DemoInit, DemoLock, NoLostUpdate, Unbound
    <2>3. DemoDebt BY RefundingIsFinite, DemoSessionsAssumption DEF DemoInit, DemoDebt, DemoSessionsAssumption
    <2> QED BY <2>1, <2>2, <2>3 DEF DemoInv
  <1>2. DemoInv /\ [DemoNext]_demoVars => DemoInv'
    <2>1. CASE UNCHANGED demoVars
      <3>1. UNCHANGED <<stored, lapsed, bound, credits, holder, job, delta, got, gotBound, binding, gotCredits, net, halts>>
        BY <2>1 DEF demoVars, recVars, taskVars, bindVars
      <3>2. \A u \in Tasks : Unbound(u)' <=> Unbound(u) BY <3>1 DEF Unbound
      <3>3. Refunding' = Refunding BY <3>1 DEF Refunding
      <3> QED BY <3>1, <3>2, <3>3 DEF DemoInv, DemoTypeOK, DemoLock, NoLostUpdate, DemoDebt
    <2>2. ASSUME DemoInv, DemoNext PROVE DemoInv' BY <2>2, DemoTypeStep, DemoStep DEF DemoInv
    <2> QED BY <2>1, <2>2
  <1>3. DemoInv => DemoBalanceIsRight
    <2> SUFFICES ASSUME DemoInv PROVE DebtIsRefunded BY DEF DemoInv, DemoBalanceIsRight
    <2>1. stored /\ ~bound => credits = net BY DEF DemoInv, NoLostUpdate
    <2>2. stored /\ halts = 0 /\ ~bound => net + Cardinality(Refunding) >= 0 BY DEF DemoInv, DemoDebt
    <2> QED BY <2>1, <2>2 DEF DebtIsRefunded, Refunding
  <1> QED BY <1>1, <1>2, <1>3, PTL DEF DemoSpec

-----------------------------------------------------------------------------
(* Invoices. *)

Resting == {"SETTLED", "LOST", "VOIDED"}
States == {"none", "open", "WIN_FAILED"} \cup Resting
InTime(i) == MonthBets(i.operator, i.month) \ i.late

BillTypes == today \in Nat /\ placedAt \in [BilledBets -> Int] /\ standing \in [BilledBets -> States]

\* Every invoice of the history is of a month that is over; its bets that were not late rest,
\* and amount to what they did then.
BillInv ==
  /\ BillTypes
  /\ \A i \in invoices :
       /\ i.month \in Nat /\ today >= (i.month + 1) * MonthLength
       /\ \A b \in InTime(i) : standing[b] \in Resting
       /\ MoneyOf(InTime(i)) = i.settled
       /\ i.late = {} => i.ggr = i.settled
       /\ i.ours = OurShare(i.ggr, i.share)

LEMMA MonthLengthIsPositive == MonthLength \in Nat /\ MonthLength > 0
  BY BillingAssumption DEF BillingAssumption, MonthLength

\* A time lies in the month it is counted in, and in no other.
LEMMA WindowIsMonth == ASSUME NEW L \in Nat, L > 0, NEW p \in Int, NEW m \in Nat
  PROVE  p \div L = m <=> p >= m * L /\ p < (m + 1) * L
  <1> DEFINE q == p \div L
  <1>1. q \in Int /\ q * L <= p /\ p < q * L + L OBVIOUS
  <1> HIDE DEF q
  <1>2. m * L \in Int /\ (m + 1) * L = m * L + L /\ q * L \in Int
    <2>1. m * L \in Int /\ q * L \in Int BY <1>1
    <2>2. (m + 1) * L = m * L + L OBVIOUS
    <2> QED BY <2>1, <2>2
  <1>3. CASE q = m BY <1>1, <1>2, <1>3
  <1>4. CASE q < m
    <2>1. (m - q - 1) \in Nat BY <1>1, <1>4
    <2>2. (m - q - 1) * L >= 0 BY <2>1
    <2>3. (m - q - 1) * L = m * L - q * L - L BY <1>1
    <2> QED BY <1>1, <1>2, <1>4, <2>2, <2>3
  <1>5. CASE q > m
    <2>1. (q - m - 1) \in Nat BY <1>1, <1>5
    <2>2. (q - m - 1) * L >= 0 BY <2>1
    <2>3. (q - m - 1) * L = q * L - m * L - L BY <1>1
    <2> QED BY <1>1, <1>2, <1>5, <2>2, <2>3
  <1>6. q = m <=> p >= m * L /\ p < (m + 1) * L BY ONLY <1>1, <1>3, <1>4, <1>5, m \in Nat
  <1> QED BY ONLY <1>6 DEF q

\* A step of the reports keeps the types, never sets time back, and leaves bets that rest as they are.
LEMMA BillMoves == ASSUME BillTypes, BillingNext
  PROVE  /\ BillTypes' /\ today' >= today
         /\ \A b \in BilledBets : standing[b] \in Resting => standing'[b] = standing[b]
  <1> DEFINE Kept == /\ today' >= today
                     /\ \A b \in BilledBets : standing[b] \in Resting => standing'[b] = standing[b]
             Goal == BillTypes' /\ Kept
  <1>1. today \in Nat /\ placedAt \in [BilledBets -> Int] /\ standing \in [BilledBets -> States] BY DEF BillTypes
  <1>3. ASSUME TimeMoves PROVE Goal
    <2>1. today' = today + 1 /\ standing' = standing /\ placedAt' = placedAt BY <1>3 DEF TimeMoves
    <2> QED BY <1>1, <2>1 DEF BillTypes
  <1>4. ASSUME today' = today, standing' = standing, placedAt' = placedAt PROVE Goal BY <1>1, <1>4 DEF BillTypes
  <1>5. ASSUME NEW b \in BilledBets, standing[b] \notin Resting, today' = today, placedAt' = placedAt,
               NEW s \in States, standing' = [standing EXCEPT ![b] = s]
        PROVE  Goal
    <2>1. \A u \in BilledBets : standing[u] \in Resting => standing'[u] = standing[u] BY <1>1, <1>5
    <2>2. standing' \in [BilledBets -> States] BY ONLY <1>1, <1>5
    <2>3. BillTypes' BY ONLY <1>1, <1>5, <2>2 DEF BillTypes
    <2> QED BY ONLY <1>1, <1>5, <2>1, <2>3
  <1>6. ASSUME NEW b \in BilledBets, StampBet(b) PROVE Goal
    <2>1. today' = today /\ standing' = standing /\ placedAt' = [placedAt EXCEPT ![b] = today] BY <1>6 DEF StampBet
    <2>2. placedAt' \in [BilledBets -> Int] BY ONLY <1>1, <2>1
    <2> QED BY ONLY <1>1, <2>1, <2>2 DEF BillTypes
  <1>7. ASSUME NEW b \in BilledBets, InsertBet(b) PROVE Goal
    <2>1. /\ today' = today /\ placedAt' = placedAt /\ standing[b] = "none"
          /\ standing' = [standing EXCEPT ![b] = "open"]
      BY <1>7 DEF InsertBet
    <2>2. standing[b] \notin Resting /\ "open" \in States BY <2>1 DEF Resting, States
    <2> HIDE DEF Goal
    <2> QED BY ONLY <1>5, <1>7, <2>1, <2>2
  <1>8. ASSUME NEW b \in BilledBets, BetMoves(b) PROVE Goal
    <2>1. today' = today /\ placedAt' = placedAt /\ standing[b] \in {"open", "WIN_FAILED"} BY <1>8 DEF BetMoves
    <2>2. PICK s \in States : standing' = [standing EXCEPT ![b] = s] BY <1>8 DEF BetMoves, States, Resting
    <2>3. standing[b] \notin Resting BY <2>1 DEF Resting
    <2> HIDE DEF Goal
    <2> QED BY ONLY <1>5, <1>8, <2>1, <2>2, <2>3
  <1>9. ASSUME NEW o \in Customers, ShareIsSet(o) PROVE Goal
    <2>1. today' = today /\ standing' = standing /\ placedAt' = placedAt BY <1>9 DEF ShareIsSet
    <2> HIDE DEF Goal
    <2> QED BY ONLY <1>4, <2>1
  <1>10. ASSUME NEW o \in Customers, NEW m \in 0..(Months - 1), Invoice(o, m) PROVE Goal
    <2>1. today' = today /\ standing' = standing /\ placedAt' = placedAt BY <1>10 DEF Invoice
    <2> HIDE DEF Goal
    <2> QED BY ONLY <1>4, <2>1
  <1> HIDE DEF Goal
  <1>11. Goal BY ONLY <1>3, <1>6, <1>7, <1>8, <1>9, <1>10, BillingNext DEF BillingNext
  <1> QED BY ONLY <1>11 DEF Goal

\* No step brings a bet into a month that is over: one that is given its time now is of a later month.
LEMMA MonthIsOver == ASSUME BillInv, NEW o, NEW m \in Nat, today >= (m + 1) * MonthLength, BillingNext
  PROVE  MonthBets(o, m)' = MonthBets(o, m) /\ today' >= (m + 1) * MonthLength
  <1> DEFINE start == m * MonthLength
             end == (m + 1) * MonthLength
  <1>1. MonthLength' = MonthLength /\ start \in Nat /\ end \in Nat BY MonthLengthIsPositive DEF MonthLength
  <1>2. today \in Nat /\ today' \in Nat /\ today' >= today BY BillMoves DEF BillInv, BillTypes
  <1>3. ASSUME NEW b \in BilledBets
        PROVE  placedAt'[b] >= start /\ placedAt'[b] < end <=> placedAt[b] >= start /\ placedAt[b] < end
    <2>1. CASE placedAt'[b] = placedAt[b] BY <2>1
    <2>2. CASE placedAt'[b] # placedAt[b]
      <3>1. StampBet(b)
        BY <2>2 DEF BillInv, BillTypes, BillingNext, TimeMoves, StampBet, InsertBet, BetMoves, ShareIsSet, Invoice
      <3>2. placedAt[b] = -1 /\ placedAt'[b] = today BY <3>1 DEF StampBet, NotPlaced, BillInv, BillTypes
      <3>3. today >= end OBVIOUS
      <3> HIDE DEF start, end
      <3> QED BY <1>1, <1>2, <3>2, <3>3
    <2> QED BY <2>1, <2>2
  <1>4. MonthBets(o, m)' = MonthBets(o, m)
    <2>1. MonthBets(o, m) = {b \in BilledBets : BilledTo[b] = o /\ placedAt[b] >= start /\ placedAt[b] < end}
      BY DEF MonthBets, BetsOf, InReportWindow
    <2>2. MonthBets(o, m)' = {b \in BilledBets : BilledTo[b] = o /\ placedAt'[b] >= start /\ placedAt'[b] < end}
      BY <1>1 DEF MonthBets, BetsOf, InReportWindow
    <2> HIDE DEF start, end
    <2> QED BY <1>3, <2>1, <2>2
  <1>5. today' >= end
    <2>1. today >= end OBVIOUS
    <2> HIDE DEF end
    <2> QED BY <1>1, <1>2, <2>1
  <1> QED BY <1>4, <1>5

LEMMA BillStep == ASSUME BillInv, BillingNext PROVE BillInv'
  <1>1. BillTypes' BY BillMoves DEF BillInv
  <1>2. ASSUME NEW i, i.month \in Nat, today >= (i.month + 1) * MonthLength,
               \A b \in InTime(i) : standing[b] \in Resting, MoneyOf(InTime(i)) = i.settled
        PROVE  /\ today' >= (i.month + 1) * MonthLength
               /\ \A b \in InTime(i)' : standing'[b] \in Resting
               /\ MoneyOf(InTime(i))' = i.settled
    <2>1. InTime(i)' = InTime(i) /\ today' >= (i.month + 1) * MonthLength BY <1>2, MonthIsOver DEF InTime
    <2>2. InTime(i) \in SUBSET BilledBets BY DEF InTime, MonthBets, BetsOf
    <2>3. \A b \in InTime(i) : standing'[b] = standing[b] BY <1>2, <2>2, BillMoves DEF BillInv
    <2>4. MoneyOf(InTime(i))' = MoneyOf(InTime(i))
      <3> DEFINE bets == InTime(i)
                 counted == {b \in bets : StakeCounted(b)}
                 won == {b \in counted : standing[b] = "SETTLED"}
      <3>1. counted' = counted /\ won' = won BY <2>1, <2>3 DEF StakeCounted
      <3>2. MoneyOf(InTime(i)) = SumFunctionOnSet(StakeOf, counted) - SumFunctionOnSet(WinOf, won) BY DEF MoneyOf
      <3>3. MoneyOf(InTime(i))' = SumFunctionOnSet(StakeOf, counted') - SumFunctionOnSet(WinOf, won') BY DEF MoneyOf
      <3> HIDE DEF counted, won
      <3> QED BY <3>1, <3>2, <3>3
    <2> QED BY <1>2, <2>1, <2>3, <2>4
  <1>3. ASSUME NEW i \in invoices'
        PROVE  /\ i.month \in Nat /\ today >= (i.month + 1) * MonthLength
               /\ \A b \in InTime(i) : standing[b] \in Resting
               /\ MoneyOf(InTime(i)) = i.settled
               /\ i.late = {} => i.ggr = i.settled
               /\ i.ours = OurShare(i.ggr, i.share)
    <2>1. CASE i \in invoices BY <2>1 DEF BillInv
    <2>2. CASE i \notin invoices
      <3>1. PICK o \in Customers, m \in 0..(Months - 1) : Invoice(o, m)
        BY <1>3, <2>2 DEF BillingNext, TimeMoves, StampBet, InsertBet, BetMoves, ShareIsSet
      <3> DEFINE made == [operator |-> o, month |-> m, ggr |-> Month(o, m).ggr,
                          ours |-> OurShare(Month(o, m).ggr, share[o]), share |-> share[o],
                          late |-> Late(o, m), settled |-> MoneyOf(MonthBets(o, m) \ Late(o, m))]
      <3>2. i = made /\ today >= (m + 1) * MonthLength BY <1>3, <2>2, <3>1 DEF Invoice
      <3>3. /\ i.operator = o /\ i.month = m /\ i.late = Late(o, m) /\ i.settled = MoneyOf(InTime(i))
            /\ i.ggr = Month(o, m).ggr /\ i.ours = OurShare(i.ggr, i.share)
        BY <3>2 DEF InTime
      <3>4. m \in Nat BY BillingAssumption DEF BillingAssumption
      <3>5. \A b \in InTime(i) : standing[b] \in Resting
        <4> SUFFICES ASSUME NEW b \in MonthBets(o, m), b \notin Late(o, m) PROVE standing[b] \in Resting
          BY <3>3 DEF InTime
        <4>1. b \in BilledBets /\ standing[b] \notin {"none", "open", "WIN_FAILED"} BY DEF Late, MonthBets, BetsOf
        <4> QED BY <4>1 DEF BillInv, BillTypes, States
      <3>6. i.late = {} => i.ggr = i.settled
        <4>1. Month(o, m).ggr = MoneyOf(MonthBets(o, m)) BY DEF Month, Report, MonthBets
        <4>2. Late(o, m) = {} => InTime(i) = MonthBets(o, m) BY <3>3 DEF InTime
        <4> QED BY <3>3, <4>1, <4>2
      <3> QED BY <3>2, <3>3, <3>4, <3>5, <3>6
    <2> QED BY <2>1, <2>2
  <1>4. ASSUME NEW i \in invoices'
        PROVE  /\ today' >= (i.month + 1) * MonthLength
               /\ \A b \in InTime(i)' : standing'[b] \in Resting
               /\ MoneyOf(InTime(i))' = i.settled
    BY <1>2, <1>3
  <1>5. MonthLength' = MonthLength /\ \A ggr, bps : OurShare(ggr, bps)' = OurShare(ggr, bps) BY DEF MonthLength, OurShare
  <1> QED BY <1>1, <1>3, <1>4, <1>5 DEF BillInv

\* What a month that is over amounts to changes by its late bets alone, those without a row
\* yet, in play or with a failed payment when it was invoiced; and two invoices of it made
\* when nothing was late agree, whatever bets, payments, voids and shares come later
\* (GET /settlements/invoice).
THEOREM InvoicesStayTrue == BillingSpec => []InvoicesAgree
  <1>1. BillingInit => BillInv BY DEF BillingInit, BillInv, BillTypes, States, NotPlaced
  <1>2. BillInv /\ [BillingNext]_billingVars => BillInv'
    <2>1. CASE UNCHANGED billingVars
      <3>1. UNCHANGED <<today, placedAt, standing, invoices>> BY <2>1 DEF billingVars
      <3>2. \A i : MoneyOf(InTime(i))' = MoneyOf(InTime(i)) /\ InTime(i)' = InTime(i)
        BY <3>1 DEF InTime, MonthBets, BetsOf, InReportWindow, MoneyOf, StakeCounted, MonthLength
      <3> QED BY <3>1, <3>2 DEF BillInv, BillTypes, OurShare, MonthLength
    <2> QED BY <2>1, BillStep
  <1>3. BillInv => InvoicesAgree
    <2> SUFFICES ASSUME BillInv PROVE InvoicesAgree OBVIOUS
    <2>1. ASSUME NEW i \in invoices, NEW j \in invoices, i.operator = j.operator, i.month = j.month, i.late = {}, j.late = {}
          PROVE  i.ggr = j.ggr /\ (i.share = j.share => i.ours = j.ours)
      <3>1. InTime(i) = InTime(j) BY <2>1 DEF InTime
      <3>2. i.ggr = MoneyOf(InTime(i)) /\ j.ggr = MoneyOf(InTime(j)) BY <2>1 DEF BillInv
      <3>3. i.ours = OurShare(i.ggr, i.share) /\ j.ours = OurShare(j.ggr, j.share) BY DEF BillInv
      <3> QED BY <3>1, <3>2, <3>3
    <2> QED BY <2>1 DEF BillInv, InTime, InvoicesAgree
  <1> QED BY <1>1, <1>2, <1>3, PTL DEF BillingSpec

-----------------------------------------------------------------------------
(* Match bets. *)

BetNumbers(s) == IF SlipMode[s] = "multi" THEN {1} ELSE DOMAIN SlipPicks[s]
PickSeen(s, i, k) == IF SlipMode[s] = "multi" THEN SlipPicks[s][k] ELSE SlipPicks[s][i]

\* A leg as PricedAsSeen asks, and a bet of such legs that pays exactly if it is won.
LegIsAsSeen(s, f, at, leg, pick) ==
  /\ leg.event = pick.event /\ leg.market = pick.market /\ leg.pick = pick.pick
  /\ pick.seen \in {0, leg.odds} \/ s \in AcceptsMoves
  /\ Kickoff[f][leg.event] > at
BetIsAsSeen(s, f, at, i, bet) ==
  /\ bet.payout \in Nat /\ (bet.won <=> bet.payout > 0)
  /\ \A k \in DOMAIN bet.legs : LegIsAsSeen(s, f, at, bet.legs[k], PickSeen(s, i, k))

\* The entries of the first n bets of a slip.
StakeEntry(s, i) == [slip |-> s, bet |-> i, type |-> "bet", amount |-> -SlipStake[s]]
WinEntry(s, i, bets) == [slip |-> s, bet |-> i, type |-> "win", amount |-> bets[i].payout]
StakesOf(s, n) == {StakeEntry(s, i) : i \in 1..n}
WinsOf(s, bets, n) == {WinEntry(s, i, bets) : i \in {k \in 1..n : bets[k].payout > 0}}
EntriesOf(s, bets, n) == StakesOf(s, n) \cup WinsOf(s, bets, n)

\* The transaction of a slip holds the entries of its first bets and of no other.
SlipIsUnderWay(s, r) ==
  /\ DOMAIN r = {"pc", "feed", "at", "bets", "tx"}
  /\ r.pc = "fetching" => r.feed \in Feeds
  /\ r.pc = "placing" =>
       /\ DOMAIN r.bets = BetNumbers(s) /\ Len(r.bets) \in Nat /\ BetNumbers(s) = 1..Len(r.bets)
       /\ \A i \in BetNumbers(s) : BetIsAsSeen(s, r.feed, r.at, i, r.bets[i])
       /\ \E n \in 0..Len(r.bets) : r.tx = StakesOf(s, n) \cup WinsOf(s, r.bets, n)

RowsOf(s) == {b \in simBets : b.slip = s}
PostedOf(s) == {e \in entries : e.slip = s}
SlipInv ==
  /\ mclock \in Int /\ harvested \in Feeds /\ feedCache.feed \in Feeds
  /\ DOMAIN slip = Slips /\ \A s \in Slips : SlipIsUnderWay(s, slip[s])
  /\ \A s \in Slips : slip[s].pc # "placed" => RowsOf(s) = {} /\ PostedOf(s) = {}
  /\ \A b \in simBets : b.slip \in Slips /\ BetIsAsSeen(b.slip, b.feed, b.at, b.bet, b.result)
  /\ SlipIsWhole

LEMMA StakesCount == ASSUME NEW s, NEW bets, NEW n \in Nat
  PROVE  Cardinality({e \in StakesOf(s, n) \cup WinsOf(s, bets, n) : e.type = "bet"}) = n
  <1>1. {e \in StakesOf(s, n) \cup WinsOf(s, bets, n) : e.type = "bet"} = StakesOf(s, n)
    BY DEF StakesOf, WinsOf, StakeEntry, WinEntry
  <1>2. ExistsBijection(1..n, StakesOf(s, n))
    <2> DEFINE f == [i \in 1..n |-> StakeEntry(s, i)]
    <2>1. f \in [1..n -> StakesOf(s, n)] BY DEF StakesOf
    <2>2. \A i, j \in 1..n : f[i] = f[j] => i = j BY DEF StakeEntry
    <2>3. \A e \in StakesOf(s, n) : \E i \in 1..n : f[i] = e BY DEF StakesOf
    <2> HIDE DEF f
    <2>4. f \in Injection(1..n, StakesOf(s, n)) BY ONLY <2>1, <2>2 DEF Injection, IsInjective
    <2>5. f \in Surjection(1..n, StakesOf(s, n)) BY ONLY <2>1, <2>3 DEF Surjection
    <2> QED BY ONLY <2>4, <2>5 DEF ExistsBijection, Bijection
  <1> QED BY <1>1, <1>2, FS_CountingElements

LEMMA EntriesOfBets == ASSUME NEW s, NEW bets, NEW n \in Nat
  PROVE  /\ {e.bet : e \in EntriesOf(s, bets, n)} = 1..n /\ \A e \in EntriesOf(s, bets, n) : e.slip = s
         /\ {e.bet : e \in {x \in EntriesOf(s, bets, n) : x.type = "bet"}} = 1..n
         /\ {<<e.bet, e.amount>> : e \in {x \in EntriesOf(s, bets, n) : x.type = "win"}}
              = {<<i, bets[i].payout>> : i \in {k \in 1..n : bets[k].payout > 0}}
  <1> DEFINE tx == EntriesOf(s, bets, n)
             paid == {k \in 1..n : bets[k].payout > 0}
  <1>1. \A i : /\ StakeEntry(s, i).slip = s /\ StakeEntry(s, i).bet = i /\ StakeEntry(s, i).type = "bet"
               /\ WinEntry(s, i, bets).slip = s /\ WinEntry(s, i, bets).bet = i /\ WinEntry(s, i, bets).type = "win"
               /\ WinEntry(s, i, bets).amount = bets[i].payout
    BY DEF StakeEntry, WinEntry
  <1>2. StakesOf(s, n) = {StakeEntry(s, i) : i \in 1..n} /\ WinsOf(s, bets, n) = {WinEntry(s, i, bets) : i \in paid}
        /\ tx = StakesOf(s, n) \cup WinsOf(s, bets, n)
    BY DEF StakesOf, WinsOf, EntriesOf
  <1> HIDE DEF tx
  <1>3. {x \in tx : x.type = "bet"} = {StakeEntry(s, i) : i \in 1..n} BY <1>1, <1>2
  <1>4. {x \in tx : x.type = "win"} = {WinEntry(s, i, bets) : i \in paid} BY <1>1, <1>2
  <1>5. paid \subseteq 1..n OBVIOUS
  <1> HIDE DEF paid
  <1>6. {e.bet : e \in {StakeEntry(s, i) : i \in 1..n}} = 1..n BY <1>1
  <1>7. {<<e.bet, e.amount>> : e \in {WinEntry(s, i, bets) : i \in paid}} = {<<i, bets[i].payout>> : i \in paid} BY <1>1
  <1>8. {e.bet : e \in tx} = 1..n BY <1>1, <1>2, <1>5
  <1>9. \A e \in tx : e.slip = s BY <1>1, <1>2
  <1> QED BY <1>3, <1>4, <1>6, <1>7, <1>8, <1>9 DEF paid, tx

\* One bet as it is drawn at the prices of feed f.
LEMMA DrawnBet == ASSUME NEW seed, NEW nonce, NEW legs, NEW stake
  PROVE  LET bet == SimulateSlip(seed, nonce, legs, stake) IN
         /\ bet.payout = IF bet.won THEN PayoutOfWin(legs, stake) ELSE 0
         /\ bet.won \in BOOLEAN
         /\ DOMAIN bet.legs = DOMAIN legs
         /\ \A k \in DOMAIN legs : /\ bet.legs[k].event = legs[k].event /\ bet.legs[k].market = legs[k].market
                                   /\ bet.legs[k].pick = legs[k].pick /\ bet.legs[k].odds = legs[k].odds
  <1> DEFINE results == [i \in DOMAIN legs |-> LegResult(Draw[seed][nonce][i], legs[i], Len(legs))]
             won == \A i \in DOMAIN results : results[i].won
             bet == [seed |-> seed, nonce |-> nonce, won |-> won, legs |-> results,
                     payout |-> IF won THEN PayoutOfWin(legs, stake) ELSE 0]
  <1>1. SimulateSlip(seed, nonce, legs, stake) = bet BY DEF SimulateSlip
  <1>2. \A k \in DOMAIN legs : /\ results[k].event = legs[k].event /\ results[k].market = legs[k].market
                               /\ results[k].pick = legs[k].pick /\ results[k].odds = legs[k].odds
    BY DEF LegResult
  <1>3. DOMAIN results = DOMAIN legs /\ won \in BOOLEAN OBVIOUS
  <1> HIDE DEF results, won
  <1>4. bet.payout = (IF won THEN PayoutOfWin(legs, stake) ELSE 0) /\ bet.won = won /\ bet.legs = results
    OBVIOUS
  <1> QED BY <1>1, <1>2, <1>3, <1>4

\* The legs of a request at a feed that prices it, none of them started, all as seen.
LEMMA LegsAsSeen ==
  ASSUME NEW s \in Slips, NEW f \in Feeds, mclock \in Int, Priced(s, f), ~Started(s, f), ~OddsChanged(s, f)
  PROVE  /\ DOMAIN Legs(s, f) = DOMAIN SlipPicks[s]
         /\ \A i \in DOMAIN SlipPicks[s] : LegIsAsSeen(s, f, mclock, Legs(s, f)[i], SlipPicks[s][i])
  <1>1. DOMAIN Legs(s, f) = DOMAIN SlipPicks[s] BY DEF Legs
  <1>2. ASSUME NEW i \in DOMAIN SlipPicks[s] PROVE LegIsAsSeen(s, f, mclock, Legs(s, f)[i], SlipPicks[s][i])
    <2> DEFINE k == SlipPicks[s][i]
               leg == Legs(s, f)[i]
    <2>1. leg.event = k.event /\ leg.market = k.market /\ leg.pick = k.pick BY DEF Legs
    <2>2. <<k.event, k.market, k.pick>> \in DOMAIN Quote[f] BY DEF Priced
    <2>3. k.event \in DOMAIN Kickoff[f] /\ Kickoff[f][k.event] \in Int
      <3>1. <<k.event, k.market, k.pick>>[1] = k.event OBVIOUS
      <3> QED BY <2>2, <3>1, MatchAssumption DEF MatchAssumption
    <2>4. Kickoff[f][k.event] > mclock BY <2>3 DEF Started
    <2>5. k.seen \in Nat BY MatchAssumption DEF MatchAssumption, Range
    <2>6. k.seen \in {0, leg.odds} \/ s \in AcceptsMoves BY <2>5 DEF OddsChanged
    <2> QED BY <2>1, <2>4, <2>6 DEF LegIsAsSeen
  <1> QED BY <1>1, <1>2

\* A won bet of valid legs pays something: prices are above 1 and so are their products.
WinsPay == \A s \in Slips, f \in Feeds : Priced(s, f) /\ AllValid(s, f) =>
  IF SlipMode[s] = "multi" THEN PayoutOfWin(Legs(s, f), SlipStake[s]) \in Nat \ {0}
  ELSE \A i \in DOMAIN SlipPicks[s] : PayoutOfWin(<<Legs(s, f)[i]>>, SlipStake[s]) \in Nat \ {0}

LEMMA BetsAsSeen ==
  ASSUME WinsPay, NEW s \in Slips, NEW f \in Feeds, NEW seed, mclock \in Int,
         Priced(s, f), ~Started(s, f), ~OddsChanged(s, f), AllValid(s, f)
  PROVE  /\ DOMAIN Bets(s, f, seed) = BetNumbers(s) /\ Len(Bets(s, f, seed)) \in Nat
         /\ BetNumbers(s) = 1..Len(Bets(s, f, seed))
         /\ \A i \in BetNumbers(s) : BetIsAsSeen(s, f, mclock, i, Bets(s, f, seed)[i])
  <1> DEFINE legs == Legs(s, f)
  <1>1. /\ DOMAIN legs = DOMAIN SlipPicks[s]
        /\ \A i \in DOMAIN SlipPicks[s] : LegIsAsSeen(s, f, mclock, legs[i], SlipPicks[s][i])
    BY LegsAsSeen
  <1>2. Len(SlipPicks[s]) \in Nat /\ DOMAIN SlipPicks[s] = 1..Len(SlipPicks[s])
    BY MatchAssumption DEF MatchAssumption
  <1>3. CASE SlipMode[s] = "multi"
    <2> DEFINE bet == SimulateSlip(seed, 1, legs, SlipStake[s])
    <2>1. Bets(s, f, seed) = <<bet>> BY <1>3 DEF Bets
    <2>2. PayoutOfWin(legs, SlipStake[s]) \in Nat \ {0} BY <1>3 DEF WinsPay
    <2>3. BetIsAsSeen(s, f, mclock, 1, bet)
      <3>1. /\ bet.payout = IF bet.won THEN PayoutOfWin(legs, SlipStake[s]) ELSE 0
            /\ bet.won \in BOOLEAN
            /\ DOMAIN bet.legs = DOMAIN legs
            /\ \A k \in DOMAIN legs : /\ bet.legs[k].event = legs[k].event /\ bet.legs[k].market = legs[k].market
                                      /\ bet.legs[k].pick = legs[k].pick /\ bet.legs[k].odds = legs[k].odds
        BY DrawnBet
      <3> HIDE DEF bet, legs
      <3> QED BY <1>1, <1>3, <2>2, <3>1 DEF BetIsAsSeen, LegIsAsSeen, PickSeen
    <2> HIDE DEF bet
    <2> QED BY <1>3, <2>1, <2>3 DEF BetNumbers
  <1>4. CASE SlipMode[s] # "multi"
    <2> DEFINE bet(i) == SimulateSlip(seed, i, <<legs[i]>>, SlipStake[s])
               bets == [i \in DOMAIN SlipPicks[s] |-> bet(i)]
    <2>1. Bets(s, f, seed) = bets BY <1>1, <1>4 DEF Bets
    <2>2. ASSUME NEW i \in DOMAIN SlipPicks[s] PROVE BetIsAsSeen(s, f, mclock, i, bet(i))
      <3>1. PayoutOfWin(<<legs[i]>>, SlipStake[s]) \in Nat \ {0} BY <1>4 DEF WinsPay
      <3>2. /\ bet(i).payout = IF bet(i).won THEN PayoutOfWin(<<legs[i]>>, SlipStake[s]) ELSE 0
            /\ bet(i).won \in BOOLEAN
            /\ DOMAIN bet(i).legs = DOMAIN <<legs[i]>>
            /\ \A k \in DOMAIN <<legs[i]>> :
                 /\ bet(i).legs[k].event = <<legs[i]>>[k].event /\ bet(i).legs[k].market = <<legs[i]>>[k].market
                 /\ bet(i).legs[k].pick = <<legs[i]>>[k].pick /\ bet(i).legs[k].odds = <<legs[i]>>[k].odds
        BY DrawnBet
      <3> HIDE DEF bet, legs
      <3>3. \A k \in DOMAIN <<legs[i]>> : k = 1 /\ <<legs[i]>>[k] = legs[i] OBVIOUS
      <3> QED BY <1>1, <1>4, <3>1, <3>2, <3>3 DEF BetIsAsSeen, LegIsAsSeen, PickSeen
    <2> HIDE DEF bet
    <2>3. Len(bets) = Len(SlipPicks[s]) BY <1>2
    <2> QED BY <1>2, <1>4, <2>1, <2>2, <2>3 DEF BetNumbers
  <1> QED BY <1>3, <1>4

\* A step of one slip that commits nothing.
LEMMA OneSlip ==
  ASSUME SlipInv, NEW s \in Slips, NEW r, slip[s].pc # "placed", r.pc # "placed", SlipIsUnderWay(s, r),
         slip' = [slip EXCEPT ![s] = r], UNCHANGED <<harvested, simBets, entries>>,
         mclock' = mclock, feedCache'.feed \in Feeds
  PROVE  SlipInv'
  <1>1. DOMAIN slip' = Slips /\ slip'[s] = r /\ \A t \in Slips \ {s} : slip'[t] = slip[t] BY DEF SlipInv
  <1>2. \A t \in Slips : SlipIsUnderWay(t, slip'[t]) BY <1>1 DEF SlipInv
  <1>3. \A t \in Slips : slip'[t].pc # "placed" => slip[t].pc # "placed" BY <1>1
  <1>4. mclock' \in Int /\ harvested' \in Feeds /\ feedCache'.feed \in Feeds BY DEF SlipInv
  <1>5. SlipIsWhole' BY DEF SlipInv, SlipIsWhole
  <1>6. \A t \in Slips : slip'[t].pc # "placed" => RowsOf(t)' = {} /\ PostedOf(t)' = {}
    BY <1>3 DEF SlipInv, RowsOf, PostedOf
  <1>7. \A b \in simBets' : b.slip \in Slips /\ BetIsAsSeen(b.slip, b.feed, b.at, b.bet, b.result) BY DEF SlipInv
  <1> QED BY <1>1, <1>2, <1>4, <1>5, <1>6, <1>7 DEF SlipInv

LEMMA EndStep ==
  ASSUME SlipInv, NEW s \in Slips, NEW answer \in {"refused", "odds changed", "no funds", "error"}, EndSlip(s, answer),
         slip[s].pc # "placed", UNCHANGED <<harvested, simBets, entries>>, mclock' = mclock, feedCache'.feed \in Feeds
  PROVE  SlipInv'
  <1> DEFINE r == [Idle EXCEPT !.pc = answer]
  <1>1. slip' = [slip EXCEPT ![s] = r] BY DEF EndSlip
  <1>2. DOMAIN r = {"pc", "feed", "at", "bets", "tx"} /\ r.pc = answer BY DEF Idle
  <1> HIDE DEF r
  <1>3. SlipIsUnderWay(s, r) /\ r.pc # "placed" BY <1>2 DEF SlipIsUnderWay
  <1> QED BY <1>1, <1>3, OneSlip

LEMMA ResolveStep ==
  ASSUME WinsPay, SlipInv, NEW s \in Slips, NEW f \in Feeds, Resolve(s, f),
         slip[s].pc # "placed", UNCHANGED <<harvested, simBets, entries>>, mclock' = mclock, feedCache'.feed \in Feeds
  PROVE  SlipInv'
  <1>1. CASE EndSlip(s, "refused") \/ EndSlip(s, "odds changed") BY <1>1, EndStep
  <1>2. ASSUME ~(EndSlip(s, "refused") \/ EndSlip(s, "odds changed")) PROVE SlipInv'
    <2>1. Priced(s, f) /\ ~Started(s, f) /\ ~OddsChanged(s, f) /\ AllValid(s, f) BY <1>2 DEF Resolve
    <2>2. PICK seed \in Seeds :
            slip' = [slip EXCEPT ![s] = [Idle EXCEPT !.pc = "placing", !.feed = f, !.at = mclock, !.bets = Bets(s, f, seed)]]
      BY <1>2 DEF Resolve
    <2> DEFINE bets == Bets(s, f, seed)
               r == [Idle EXCEPT !.pc = "placing", !.feed = f, !.at = mclock, !.bets = bets]
    <2>3. /\ DOMAIN bets = BetNumbers(s) /\ Len(bets) \in Nat /\ BetNumbers(s) = 1..Len(bets)
          /\ \A i \in BetNumbers(s) : BetIsAsSeen(s, f, mclock, i, bets[i])
      <3>1. mclock \in Int BY DEF SlipInv
      <3> QED BY <2>1, <3>1, BetsAsSeen
    <2> HIDE DEF bets
    <2>4. /\ DOMAIN r = {"pc", "feed", "at", "bets", "tx"} /\ r.pc = "placing" /\ r.feed = f /\ r.at = mclock
          /\ r.bets = bets /\ r.tx = {}
      BY DEF Idle
    <2>5. slip' = [slip EXCEPT ![s] = r] BY <2>2 DEF bets
    <2> HIDE DEF r
    <2>6. 0 \in 0..Len(bets) /\ {} = StakesOf(s, 0) \cup WinsOf(s, bets, 0) BY <2>3 DEF StakesOf, WinsOf
    <2>7. SlipIsUnderWay(s, r) BY <2>3, <2>4, <2>6 DEF SlipIsUnderWay
    <2> QED BY <2>4, <2>5, <2>7, OneSlip
  <1> QED BY <1>1, <1>2

LEMMA PlaceStep == ASSUME SlipInv, NEW s \in Slips, PlaceOne(s) PROVE SlipInv'
  <1>1. PICK i \in DOMAIN slip[s].bets :
          /\ i = 1 + Cardinality({e \in slip[s].tx : e.type = "bet"})
          /\ LET bet == slip[s].bets[i]
                 stake == [slip |-> s, bet |-> i, type |-> "bet", amount |-> -SlipStake[s]]
                 win == [slip |-> s, bet |-> i, type |-> "win", amount |-> bet.payout]
             IN  IF PurseOf(SlipBettor[s]) + Amount(slip[s].tx) < SlipStake[s] THEN EndSlip(s, "no funds")
                 ELSE slip' = [slip EXCEPT ![s].tx = @ \cup {stake} \cup (IF bet.payout > 0 THEN {win} ELSE {})]
    BY DEF PlaceOne
  <1>2. /\ slip[s].pc = "placing" /\ UNCHANGED <<harvested, simBets, entries>> /\ mclock' = mclock
        /\ feedCache'.feed \in Feeds
    BY DEF PlaceOne, SlipInv
  <1>3. CASE EndSlip(s, "no funds") BY <1>2, <1>3, EndStep
  <1>4. CASE ~EndSlip(s, "no funds")
    <2> DEFINE bets == slip[s].bets
               grown == slip[s].tx \cup {StakeEntry(s, i)} \cup (IF bets[i].payout > 0 THEN {WinEntry(s, i, bets)} ELSE {})
               r == [slip[s] EXCEPT !.tx = grown]
    <2>1. slip' = [slip EXCEPT ![s] = r] BY <1>1, <1>4 DEF StakeEntry, WinEntry
    <2>2. SlipIsUnderWay(s, slip[s]) BY DEF SlipInv
    <2>3. /\ DOMAIN r = {"pc", "feed", "at", "bets", "tx"} /\ r.pc = "placing" /\ r.feed = slip[s].feed
          /\ r.at = slip[s].at /\ r.bets = bets /\ r.tx = grown
      BY <1>2, <2>2 DEF SlipIsUnderWay
    <2>4. PICK n \in 0..Len(bets) : slip[s].tx = StakesOf(s, n) \cup WinsOf(s, bets, n)
      BY <1>2, <2>2 DEF SlipIsUnderWay
    <2>5. Len(bets) \in Nat /\ DOMAIN bets = 1..Len(bets) BY <1>2, <2>2 DEF SlipIsUnderWay
    <2>6. n \in Nat /\ i = n + 1 /\ i \in 0..Len(bets)
      <3>1. n \in Nat BY <2>4, <2>5
      <3>2. Cardinality({e \in slip[s].tx : e.type = "bet"}) = n BY <2>4, <3>1, StakesCount
      <3>3. i = 1 + n BY <1>1, <3>2
      <3>4. i \in 1..Len(bets) BY <2>5
      <3> QED BY ONLY <3>1, <3>3, <3>4, <2>5
    <2>7. grown = StakesOf(s, i) \cup WinsOf(s, bets, i)
      <3>1. 1..i = (1..n) \cup {i} BY <2>6
      <3>2. StakesOf(s, i) = StakesOf(s, n) \cup {StakeEntry(s, i)} BY <3>1 DEF StakesOf
      <3>3. WinsOf(s, bets, i) = WinsOf(s, bets, n) \cup (IF bets[i].payout > 0 THEN {WinEntry(s, i, bets)} ELSE {})
        BY <3>1 DEF WinsOf
      <3> QED BY <2>4, <3>2, <3>3
    <2> HIDE DEF r, grown, bets
    <2>8. SlipIsUnderWay(s, r)
      <3>1. /\ DOMAIN bets = BetNumbers(s) /\ Len(bets) \in Nat /\ BetNumbers(s) = 1..Len(bets)
            /\ \A k \in BetNumbers(s) : BetIsAsSeen(s, r.feed, r.at, k, bets[k])
        BY <1>2, <2>2, <2>3 DEF SlipIsUnderWay, bets
      <3> QED BY <2>3, <2>6, <2>7, <3>1 DEF SlipIsUnderWay
    <2> QED BY <1>2, <2>1, <2>3, <2>8, OneSlip
  <1> QED BY <1>3, <1>4

\* The commit writes all bets of the slip, with their entries.
LEMMA CommitStep == ASSUME SlipInv, NEW s \in Slips, Commit(s) PROVE SlipInv'
  <1> DEFINE bets == slip[s].bets
             tx == slip[s].tx
             row(i) == [slip |-> s, bet |-> i, feed |-> slip[s].feed, at |-> slip[s].at, result |-> bets[i]]
             done == [Idle EXCEPT !.pc = "placed"]
  <1>1. /\ slip[s].pc = "placing" /\ entries' = entries \cup tx /\ slip' = [slip EXCEPT ![s] = done]
        /\ simBets' = simBets \cup {row(i) : i \in {e.bet : e \in tx}} /\ UNCHANGED <<mclock, harvested, feedCache>>
        /\ Cardinality({e \in tx : e.type = "bet"}) = Len(bets)
    BY DEF Commit, MayCommit, EndSlip
  <1>2. SlipIsUnderWay(s, slip[s]) BY DEF SlipInv
  <1>3. /\ DOMAIN bets = BetNumbers(s) /\ Len(bets) \in Nat /\ BetNumbers(s) = 1..Len(bets)
        /\ \A i \in BetNumbers(s) : BetIsAsSeen(s, slip[s].feed, slip[s].at, i, bets[i])
        /\ \E n \in 0..Len(bets) : tx = StakesOf(s, n) \cup WinsOf(s, bets, n)
    BY <1>1, <1>2 DEF SlipIsUnderWay
  <1>4. tx = StakesOf(s, Len(bets)) \cup WinsOf(s, bets, Len(bets))
    <2>1. PICK n \in 0..Len(bets) : tx = StakesOf(s, n) \cup WinsOf(s, bets, n) BY <1>3
    <2>2. n \in Nat BY <1>3, <2>1
    <2>3. Cardinality({e \in tx : e.type = "bet"}) = n BY SMTT(30), <2>1, <2>2, StakesCount
    <2> QED BY <1>1, <2>1, <2>3
  <1>5. /\ {e.bet : e \in tx} = BetNumbers(s) /\ \A e \in tx : e.slip = s
        /\ {e.bet : e \in {x \in tx : x.type = "bet"}} = BetNumbers(s)
        /\ {<<e.bet, e.amount>> : e \in {x \in tx : x.type = "win"}}
             = {<<i, bets[i].payout>> : i \in {k \in BetNumbers(s) : bets[k].payout > 0}}
    <2> DEFINE all == EntriesOf(s, bets, Len(bets))
    <2>1. /\ {e.bet : e \in all} = 1..Len(bets) /\ \A e \in all : e.slip = s
          /\ {e.bet : e \in {x \in all : x.type = "bet"}} = 1..Len(bets)
          /\ {<<e.bet, e.amount>> : e \in {x \in all : x.type = "win"}}
               = {<<i, bets[i].payout>> : i \in {k \in 1..Len(bets) : bets[k].payout > 0}}
      <3>1. Len(bets) \in Nat BY <1>3
      <3> HIDE DEF bets
      <3> QED BY ONLY <3>1, EntriesOfBets
    <2>2. tx = all /\ BetNumbers(s) = 1..Len(bets) BY <1>3, <1>4 DEF EntriesOf
    <2> HIDE DEF all, tx, bets
    <2> QED BY <2>1, <2>2
  <1>6. done.pc = "placed" /\ DOMAIN done = {"pc", "feed", "at", "bets", "tx"} BY DEF Idle
  <1>16. \A i : row(i).slip = s /\ row(i).bet = i /\ row(i).feed = slip[s].feed /\ row(i).at = slip[s].at /\ row(i).result = bets[i]
    OBVIOUS
  <1> HIDE DEF bets, tx, done, row
  <1>7. RowsOf(s) = {} /\ PostedOf(s) = {} BY <1>1 DEF SlipInv
  <1>8. RowsOf(s)' = {row(i) : i \in BetNumbers(s)} /\ \A t \in Slips \ {s} : RowsOf(t)' = RowsOf(t)
    <2>1. simBets' = simBets \cup {row(i) : i \in BetNumbers(s)} BY <1>1, <1>5
    <2> QED BY <1>7, <1>16, <2>1 DEF RowsOf
  <1>9. PostedOf(s)' = tx /\ \A t \in Slips \ {s} : PostedOf(t)' = PostedOf(t)
    BY <1>1, <1>5, <1>7 DEF PostedOf
  <1>10. DOMAIN slip' = Slips /\ \A t \in Slips : slip'[t] = IF t = s THEN done ELSE slip[t] BY <1>1 DEF SlipInv
  <1>11. \A t \in Slips : SlipIsUnderWay(t, slip'[t]) BY <1>6, <1>10 DEF SlipInv, SlipIsUnderWay
  <1>12. \A t \in Slips : slip'[t].pc # "placed" => RowsOf(t)' = {} /\ PostedOf(t)' = {}
    BY <1>6, <1>8, <1>9, <1>10 DEF SlipInv
  <1>13. \A b \in simBets' : b.slip \in Slips /\ BetIsAsSeen(b.slip, b.feed, b.at, b.bet, b.result)
    <2>1. \A b \in simBets' : b \in simBets \/ \E i \in BetNumbers(s) : b = row(i) BY <1>1, <1>5
    <2>2. \A i \in BetNumbers(s) : BetIsAsSeen(row(i).slip, row(i).feed, row(i).at, row(i).bet, row(i).result)
      BY <1>3, <1>16
    <2>3. \A i \in BetNumbers(s) : row(i).slip \in Slips BY <1>16
    <2>4. \A b \in simBets : b.slip \in Slips /\ BetIsAsSeen(b.slip, b.feed, b.at, b.bet, b.result) BY DEF SlipInv
    <2> QED BY ONLY <2>1, <2>2, <2>3, <2>4
  <1>14. SlipIsWhole'
    <2> DEFINE Whole(t, rows, posted) ==
          /\ rows # {} => {b.bet : b \in rows} = BetNumbers(t)
          /\ {e.bet : e \in {x \in posted : x.type = "bet"}} = {b.bet : b \in rows}
          /\ {<<e.bet, e.amount>> : e \in {x \in posted : x.type = "win"}}
               = {<<b.bet, b.result.payout>> : b \in {r \in rows : r.result.won}}
    <2>1. \A t \in Slips : Whole(t, RowsOf(t), PostedOf(t)) BY DEF SlipInv, SlipIsWhole, RowsOf, PostedOf, BetNumbers
    <2>2. Whole(s, {row(i) : i \in BetNumbers(s)}, tx)
      <3>1. {b.bet : b \in {row(i) : i \in BetNumbers(s)}} = BetNumbers(s) BY <1>16
      <3>4. {<<b.bet, b.result.payout>> : b \in {r \in {row(i) : i \in BetNumbers(s)} : r.result.won}}
              = {<<i, bets[i].payout>> : i \in {k \in BetNumbers(s) : bets[k].won}}
        BY <1>16
      <3>5. \A k \in BetNumbers(s) : bets[k].won <=> bets[k].payout > 0 BY <1>3 DEF BetIsAsSeen
      <3>6. {k \in BetNumbers(s) : bets[k].won} = {k \in BetNumbers(s) : bets[k].payout > 0} BY <3>5
      <3> QED BY <1>5, <3>1, <3>4, <3>6
    <2> HIDE DEF Whole
    <2>3. \A t \in Slips : Whole(t, RowsOf(t)', PostedOf(t)') BY <1>8, <1>9, <2>1, <2>2
    <2> QED BY <2>3 DEF Whole, SlipIsWhole, RowsOf, PostedOf, BetNumbers
  <1>15. mclock' \in Int /\ harvested' \in Feeds /\ feedCache'.feed \in Feeds BY <1>1 DEF SlipInv
  <1> QED BY <1>10, <1>11, <1>12, <1>13, <1>14, <1>15 DEF SlipInv

LEMMA MatchStep == ASSUME WinsPay, SlipInv, MatchNext PROVE SlipInv'
  <1>1. ASSUME NEW s \in Slips, CheckFunds(s) PROVE SlipInv'
    <2>1. slip[s].pc # "placed" /\ UNCHANGED <<harvested, simBets, entries>> /\ mclock' = mclock /\ feedCache'.feed \in Feeds
      BY <1>1 DEF CheckFunds, SlipInv
    <2>2. CASE EndSlip(s, "refused") \/ EndSlip(s, "no funds") BY <2>1, <2>2, EndStep
    <2>3. CASE slip' = [slip EXCEPT ![s].pc = "funded", ![s].at = mclock]
      <3> DEFINE r == [slip[s] EXCEPT !.pc = "funded", !.at = mclock]
      <3>1. slip' = [slip EXCEPT ![s] = r] BY <2>3 DEF SlipInv
      <3>2. DOMAIN r = {"pc", "feed", "at", "bets", "tx"} /\ r.pc = "funded" BY DEF SlipInv, SlipIsUnderWay
      <3> HIDE DEF r
      <3>3. SlipIsUnderWay(s, r) BY <3>2 DEF SlipIsUnderWay
      <3> QED BY <2>1, <3>1, <3>2, <3>3, OneSlip
    <2> QED BY <1>1, <2>2, <2>3 DEF CheckFunds
  <1>2. ASSUME NEW s \in Slips, UseCachedFeed(s) PROVE SlipInv'
    <2>1. /\ slip[s].pc # "placed" /\ UNCHANGED <<harvested, simBets, entries>> /\ mclock' = mclock /\ feedCache'.feed \in Feeds
          /\ feedCache.feed \in Feeds /\ Resolve(s, feedCache.feed)
      BY <1>2 DEF UseCachedFeed, SlipInv
    <2> QED BY <2>1, ResolveStep
  <1>3. ASSUME NEW s \in Slips, FetchFeed(s) PROVE SlipInv'
    <2>1. slip[s].pc # "placed" /\ UNCHANGED <<harvested, simBets, entries>> /\ mclock' = mclock /\ feedCache'.feed \in Feeds
          /\ slip' = [slip EXCEPT ![s].pc = "fetching", ![s].feed = harvested, ![s].at = mclock]
      BY <1>3 DEF FetchFeed, SlipInv
    <2> DEFINE r == [slip[s] EXCEPT !.pc = "fetching", !.feed = harvested, !.at = mclock]
    <2>2. slip' = [slip EXCEPT ![s] = r] BY <2>1 DEF SlipInv
    <2>3. DOMAIN r = {"pc", "feed", "at", "bets", "tx"} /\ r.pc = "fetching" /\ r.feed = harvested BY DEF SlipInv, SlipIsUnderWay
    <2> HIDE DEF r
    <2>4. SlipIsUnderWay(s, r) BY <2>3 DEF SlipIsUnderWay, SlipInv
    <2> QED BY <2>1, <2>2, <2>3, <2>4, OneSlip
  <1>4. ASSUME NEW s \in Slips, FeedArrives(s) PROVE SlipInv'
    <2>1. PICK f \in {slip[s].feed, 0} : feedCache' = [feed |-> f, at |-> slip[s].at] /\ Resolve(s, f)
      BY <1>4 DEF FeedArrives
    <2>2. slip[s].pc = "fetching" /\ UNCHANGED <<harvested, simBets, entries>> /\ mclock' = mclock BY <1>4 DEF FeedArrives
    <2>3. f \in Feeds BY <2>2, MatchAssumption DEF SlipInv, SlipIsUnderWay, MatchAssumption
    <2>4. feedCache'.feed \in Feeds BY <2>1, <2>3
    <2> QED BY <2>1, <2>2, <2>3, <2>4, ResolveStep
  <1>5. ASSUME NEW s \in Slips, PlacingFails(s) PROVE SlipInv'
    <2>1. /\ slip[s].pc # "placed" /\ UNCHANGED <<harvested, simBets, entries>> /\ mclock' = mclock /\ feedCache'.feed \in Feeds
          /\ EndSlip(s, "error")
      BY <1>5 DEF PlacingFails, SlipInv
    <2> QED BY <2>1, EndStep
  <1>6. CASE Harvest
    BY <1>6 DEF Harvest, SlipInv, SlipIsWhole, RowsOf, PostedOf
  <1>7. CASE MatchTick
    <2>1. mclock' \in Int /\ UNCHANGED <<harvested, feedCache, slip, simBets, entries>> BY <1>7 DEF MatchTick, SlipInv
    <2> QED BY <2>1 DEF SlipInv, SlipIsWhole, RowsOf, PostedOf
  <1> QED BY <1>1, <1>2, <1>3, <1>4, <1>5, <1>6, <1>7, PlaceStep, CommitStep DEF MatchNext

LEMMA SlipsStand == ASSUME WinsPay PROVE MatchSpec => []SlipInv
  <1>1. MatchInit => SlipInv
    <2> SUFFICES ASSUME MatchInit PROVE SlipInv OBVIOUS
    <2>1. mclock \in Int /\ harvested \in Feeds /\ feedCache.feed \in Feeds BY MatchAssumption DEF MatchInit, NoFeed, MatchAssumption
    <2>2. DOMAIN slip = Slips /\ \A s \in Slips : slip[s] = Idle /\ Idle.pc = "idle" /\ DOMAIN Idle = {"pc", "feed", "at", "bets", "tx"}
      BY DEF MatchInit, Idle
    <2>3. \A s \in Slips : SlipIsUnderWay(s, slip[s]) BY <2>2 DEF SlipIsUnderWay
    <2>4. simBets = {} /\ entries = {} BY DEF MatchInit
    <2>5. SlipIsWhole BY <2>4 DEF SlipIsWhole
    <2> QED BY <2>1, <2>2, <2>3, <2>4, <2>5 DEF SlipInv, RowsOf, PostedOf
  <1>2. SlipInv /\ [MatchNext]_matchVars => SlipInv'
    <2>1. CASE UNCHANGED matchVars BY <2>1 DEF matchVars, SlipInv, SlipIsWhole, RowsOf, PostedOf
    <2> QED BY <2>1, MatchStep
  <1> QED BY <1>1, <1>2, PTL DEF MatchSpec

-----------------------------------------------------------------------------
(* Listings walked page by page. *)

Keys == [at : Int, id : Int]
Ahead(keys, k) == {j \in keys : Below(k, j)}

\* A set of natural numbers has a least one.
LEMMA LeastOf == ASSUME NEW T, T \subseteq Nat, T # {} PROVE \E x \in T : \A y \in T : x <= y
  <1>1. PICK x \in T : \A y \in T : ~(<<y, x>> \in OpToRel(<, Nat)) BY WFMin, NatLessThanWellFounded
  <1>2. \A y \in T : ~(y < x) BY <1>1 DEF OpToRel
  <1> QED BY <1>2

\* Keys are in one order.
LEMMA BelowIsOrder ==
  /\ \A k \in Keys : ~Below(k, k)
  /\ \A k, j \in Keys : k = j \/ Below(k, j) \/ Below(j, k)
  /\ \A k, j, i \in Keys : Below(k, j) /\ Below(j, i) => Below(k, i)
  BY DEF Keys, Below

\* Of two keys the lower one has more ahead of it.
LEMMA AheadGrows ==
  ASSUME NEW keys, IsFiniteSet(keys), keys \subseteq Keys, NEW k \in keys, NEW j \in keys, Below(k, j)
  PROVE  /\ Ahead(keys, j) \subseteq Ahead(keys, k)
         /\ Cardinality(Ahead(keys, j)) \in Nat /\ Cardinality(Ahead(keys, k)) \in Nat
         /\ Cardinality(Ahead(keys, j)) < Cardinality(Ahead(keys, k))
  <1>1. Ahead(keys, j) \subseteq Ahead(keys, k) BY BelowIsOrder DEF Ahead
  <1>2. IsFiniteSet(Ahead(keys, k)) /\ IsFiniteSet(Ahead(keys, j)) BY FS_Subset DEF Ahead
  <1>3. j \in Ahead(keys, k) /\ j \notin Ahead(keys, j) BY BelowIsOrder DEF Ahead
  <1>4. Cardinality(Ahead(keys, j)) \in Nat /\ Cardinality(Ahead(keys, k)) \in Nat BY <1>2, FS_CardinalityType
  <1>5. /\ Cardinality(Ahead(keys, j)) <= Cardinality(Ahead(keys, k))
        /\ Cardinality(Ahead(keys, j)) # Cardinality(Ahead(keys, k))
    BY <1>1, <1>2, <1>3, FS_Subset
  <1> QED BY <1>1, <1>4, <1>5

\* The first n of a set of keys: fewer are all of them, and n or more have a last
\* one, with the rest below it.
LEMMA FirstOf ==
  ASSUME NEW keys, IsFiniteSet(keys), keys \subseteq Keys, NEW n \in Nat \ {0}, NEW page,
         page = {k \in keys : Cardinality(Ahead(keys, k)) < n}
  PROVE  /\ Cardinality(page) \in Nat
         /\ Cardinality(page) < n => page = keys
         /\ ~(Cardinality(page) < n) =>
              \E c \in page : /\ \A j \in page : j = c \/ Below(c, j)
                              /\ \A k \in keys \ page : Below(k, c)
  <1>1. page \subseteq keys /\ IsFiniteSet(page) BY FS_Subset
  <1>2. Cardinality(page) \in Nat BY <1>1, FS_CardinalityType
  <1>3. \A k \in keys : IsFiniteSet(Ahead(keys, k)) /\ Cardinality(Ahead(keys, k)) \in Nat
    BY FS_Subset, FS_CardinalityType DEF Ahead
  <1>4. ASSUME page # keys PROVE ~(Cardinality(page) < n)
    <2> DEFINE T == {Cardinality(Ahead(keys, k)) : k \in keys \ page}
    <2>1. T \subseteq Nat /\ T # {} BY <1>1, <1>3, <1>4
    <2>2. PICK t \in T : \A u \in T : t <= u
      <3> HIDE DEF T
      <3> QED BY <2>1, LeastOf
    <2>3. PICK k \in keys \ page : t = Cardinality(Ahead(keys, k)) BY <2>2
    <2>4. ASSUME NEW j \in Ahead(keys, k) PROVE j \in page
      <3>1. j \in keys /\ Below(k, j) BY DEF Ahead
      <3>2. Cardinality(Ahead(keys, j)) < t /\ Cardinality(Ahead(keys, j)) \in Nat /\ t \in Nat
        BY <2>3, <3>1, AheadGrows
      <3>3. Cardinality(Ahead(keys, j)) \notin T
        <4> HIDE DEF T
        <4> QED BY <2>2, <3>2
      <3> QED BY <3>1, <3>3
    <2>5. Cardinality(Ahead(keys, k)) <= Cardinality(page)
      <3>1. Ahead(keys, k) \in SUBSET page BY <2>4 DEF Ahead
      <3> QED BY <3>1, <1>1, FS_Subset
    <2>6. ~(Cardinality(Ahead(keys, k)) < n) BY <2>3
    <2> QED BY <1>2, <1>3, <2>3, <2>5, <2>6
  <1>5. ASSUME ~(Cardinality(page) < n)
        PROVE  \E c \in page : /\ \A j \in page : j = c \/ Below(c, j)
                               /\ \A k \in keys \ page : Below(k, c)
    <2> DEFINE T == {n - 1 - Cardinality(Ahead(keys, k)) : k \in page}
    <2>1. page # {} BY <1>5, FS_EmptySet
    <2>2. T \subseteq Nat /\ T # {} BY <1>1, <1>3, <2>1
    <2>3. PICK t \in T : \A u \in T : t <= u
      <3> HIDE DEF T
      <3> QED BY <2>2, LeastOf
    <2>4. PICK c \in page : t = n - 1 - Cardinality(Ahead(keys, c)) BY <2>3
    <2>5. ASSUME NEW j \in page, j # c PROVE Below(c, j)
      <3>1. CASE Below(j, c)
        <4>1. Cardinality(Ahead(keys, c)) < Cardinality(Ahead(keys, j)) BY <1>1, <3>1, AheadGrows
        <4>2. n - 1 - Cardinality(Ahead(keys, j)) \in T OBVIOUS
        <4>3. t <= n - 1 - Cardinality(Ahead(keys, j))
          <5> HIDE DEF T
          <5> QED BY <2>3, <4>2
        <4> QED BY <1>1, <1>3, <2>4, <4>1, <4>3
      <3> QED BY <1>1, <2>5, <3>1, BelowIsOrder
    <2>6. ASSUME NEW k \in keys \ page PROVE Below(k, c)
      <3>1. CASE Below(c, k)
        <4>1. Cardinality(Ahead(keys, k)) < Cardinality(Ahead(keys, c)) BY <1>1, <3>1, AheadGrows
        <4> QED BY <1>1, <1>3, <4>1
      <3>2. k # c OBVIOUS
      <3> QED BY <1>1, <3>1, <3>2, BelowIsOrder
    <2> QED BY <2>5, <2>6
  <1> QED BY <1>2, <1>4, <1>5

-----------------------------------------------------------------------------

WalkRows == [kind : {"none", "rows", "groups", "history"}, cursor : Keys, page : Nat, shown : SUBSET Int,
             twice : BOOLEAN, start : SUBSET Rows, done : BOOLEAN]

ListTypes ==
  /\ now \in 0..LastNow /\ written \in [Rows -> {Unwritten} \cup 0..LastNow]
  /\ present \in SUBSET Rows /\ IsFiniteSet(present) /\ \A r \in present : written[r] # Unwritten
  /\ walk \in WalkRows /\ walk.start \subseteq present

\* A row shown lies above the cursor, one that is owed lies below it.
RowKey(r) == [at |-> written[r], id |-> r]
RowWalk ==
  walk.kind = "rows" =>
    /\ ~walk.twice
    /\ walk.done => walk.start \subseteq walk.shown
    /\ ~walk.done => /\ \A r \in walk.shown : r \in present /\ ~Below(RowKey(r), walk.cursor)
                     /\ \A r \in walk.start : r \in walk.shown \/ Below(RowKey(r), walk.cursor)

\* A group shown lies above the cursor and can only move up; one that is owed lies
\* below it while it gets no row.
GroupKey(g) == [at |-> Max({written[r] : r \in RowsOfGroup(g)}), id |-> g]
Owed == {GroupOf[r] : r \in {s \in walk.start : RowsOfGroup(GroupOf[s]) \subseteq walk.start}}
GroupWalk ==
  walk.kind = "groups" =>
    /\ ~walk.twice
    /\ walk.done => Owed \subseteq walk.shown
    /\ ~walk.done => /\ \A g \in walk.shown : RowsOfGroup(g) # {} /\ ~Below(GroupKey(g), walk.cursor)
                     /\ \A g \in Owed : g \in walk.shown \/ Below(GroupKey(g), walk.cursor)

\* While nothing is added and times differ, the pages before this one have shown the
\* rows with fewer newer ones than they hold.
Newer(r) == {s \in present : written[s] > written[r]}
Exact == present = walk.start /\ \A r, s \in present : r # s => written[r] # written[s]
HistoryWalk ==
  walk.kind = "history" /\ Exact =>
    /\ ~walk.twice /\ walk.page > 0
    /\ walk.shown = {r \in present : Cardinality(Newer(r)) < Offset}
    /\ walk.done => Offset >= Cardinality(present)

ListInv == ListTypes /\ RowWalk /\ GroupWalk /\ HistoryWalk

\* The newest of some times.
LEMMA NewestTime ==
  ASSUME NEW G, G # {}, NEW w, \A r \in G : w[r] \in 0..LastNow
  PROVE  /\ Max({w[r] : r \in G}) \in 0..LastNow
         /\ \E r \in G : Max({w[r2] : r2 \in G}) = w[r]
         /\ \A r \in G : w[r] <= Max({w[r2] : r2 \in G})
  <1> DEFINE times == {w[r] : r \in G}
             T == {LastNow - t : t \in times}
  <1>1. times # {} /\ times \subseteq 0..LastNow OBVIOUS
  <1>2. T # {} /\ T \subseteq Nat BY <1>1, ListingsAssumption
  <1>3. PICK m \in T : \A u \in T : m <= u
    <2> HIDE DEF T
    <2> QED BY <1>2, LeastOf
  <1>4. PICK x \in times : m = LastNow - x BY <1>3
  <1>5. \A y \in times : m <= LastNow - y BY <1>3
  <1>6. \E z \in times : \A y \in times : z >= y
    <2> HIDE DEF times
    <2> QED BY <1>1, <1>4, <1>5, ListingsAssumption
  <1>7. Max(times) \in times /\ \A y \in times : Max(times) >= y
    <2> HIDE DEF times
    <2> QED BY <1>6 DEF Max
  <1>8. Max(times) \in 0..LastNow BY <1>1, <1>7
  <1>9. \A r \in G : w[r] \in times /\ w[r] \in Int OBVIOUS
  <1>10. \A r \in G : w[r] <= Max(times)
    <2> HIDE DEF times
    <2> QED BY <1>7, <1>8, <1>9
  <1>11. \E r \in G : Max(times) = w[r] BY <1>7
  <1> QED BY <1>8, <1>10, <1>11

\* The key of a group with rows has the newest of their times.
LEMMA NewestOf ==
  ASSUME ListTypes, NEW g, RowsOfGroup(g) # {}
  PROVE  GroupKey(g) \in Keys /\ GroupKey(g).id = g /\ \A r \in RowsOfGroup(g) : written[r] \in 0..LastNow
  <1>1. \A r \in RowsOfGroup(g) : written[r] \in 0..LastNow BY DEF ListTypes, RowsOfGroup
  <1>2. Max({written[r] : r \in RowsOfGroup(g)}) \in 0..LastNow BY <1>1, NewestTime
  <1>3. g \in Int BY ListingsAssumption DEF RowsOfGroup, ListTypes
  <1> QED BY <1>1, <1>2, <1>3 DEF GroupKey, Keys

\* The keys of rows and of groups are finitely many.
LEMMA KeysAreFinite ==
  ASSUME ListTypes
  PROVE  RowKeys \subseteq Keys /\ IsFiniteSet(RowKeys) /\ GroupKeys \subseteq Keys /\ IsFiniteSet(GroupKeys)
  <1>1. RowKeys \subseteq Keys BY ListingsAssumption DEF ListTypes, RowKeys, Keys, Unwritten
  <1>2. IsFiniteSet(RowKeys)
    <2> DEFINE f == [r \in present |-> RowKey(r)]
    <2>1. f \in Surjection(present, RowKeys) BY DEF Surjection, RowKeys, RowKey
    <2> HIDE DEF f
    <2> QED BY <2>1, FS_Surjection DEF ListTypes
  <1>3. \A g \in {GroupOf[r] : r \in present} : RowsOfGroup(g) # {} BY DEF RowsOfGroup
  <1>4. GroupKeys = {GroupKey(g) : g \in {GroupOf[r] : r \in present}} BY DEF GroupKeys, GroupKey
  <1>5. GroupKeys \subseteq Keys BY <1>3, <1>4, NewestOf
  <1>6. IsFiniteSet(GroupKeys)
    <2> DEFINE f == [r \in present |-> GroupKey(GroupOf[r])]
    <2>1. f \in Surjection(present, GroupKeys) BY <1>4 DEF Surjection
    <2> HIDE DEF f
    <2> QED BY <2>1, FS_Surjection DEF ListTypes
  <1> QED BY <1>1, <1>2, <1>5, <1>6

\* Every step keeps the types.
LEMMA ListTypesStep == ASSUME ListTypes, ListingsNext PROVE ListTypes'
  <1> USE ListingsAssumption DEF ListTypes
  <1>1. CASE NowPasses
    <2>1. now' \in 0..LastNow BY <1>1 DEF NowPasses
    <2>2. UNCHANGED <<written, present, walk>> BY <1>1 DEF NowPasses
    <2> QED BY <2>1, <2>2
  <1>2. CASE StartWalk
    <2>1. Top \in Keys BY DEF Top, Keys
    <2> QED BY <1>2, <2>1 DEF StartWalk, Walking, WalkRows
  <1>3. ASSUME NEW keys, keys \subseteq Keys, IsFiniteSet(keys), KeysetNext(keys), UNCHANGED <<now, written, present>>
        PROVE  ListTypes'
    <2> DEFINE left == {k \in keys : Below(k, walk.cursor)}
               page == KeysetPage(keys)
    <2>1. IsFiniteSet(left) /\ left \subseteq Keys BY <1>3, FS_Subset
    <2>2. page = {k \in left : Cardinality(Ahead(left, k)) < PageLimit} BY DEF KeysetPage, Ahead
    <2>3. ~(Cardinality(page) < PageLimit) => (CHOOSE k \in page : \A j \in page : j = k \/ Below(k, j)) \in Keys
      <3> HIDE DEF left, page
      <3>1. ~(Cardinality(page) < PageLimit) => \E c \in page : \A j \in page : j = c \/ Below(c, j)
        BY <2>1, <2>2, FirstOf
      <3> QED BY <3>1, <2>1, <2>2
    <2> DEFINE ids == {k.id : k \in page}
               last == IF Cardinality(page) < PageLimit THEN walk.cursor
                       ELSE CHOOSE k \in page : \A j \in page : j = k \/ Below(k, j)
               twice == walk.twice \/ ids \cap walk.shown # {}
               done == Cardinality(page) < PageLimit
    <2>4. walk.shown \cup ids \in SUBSET Int BY <2>1, <2>2 DEF Keys, WalkRows
    <2>5. last \in Keys BY <2>3 DEF WalkRows
    <2>6. twice \in BOOLEAN /\ done \in BOOLEAN OBVIOUS
    <2>7. walk' = [walk EXCEPT !.shown = walk.shown \cup ids, !.twice = twice, !.done = done, !.cursor = last]
      BY <1>3 DEF KeysetNext
    <2>8. walk' \in WalkRows /\ walk'.start = walk.start
      <3> HIDE DEF ids, last, twice, done
      <3> QED BY <2>4, <2>5, <2>6, <2>7 DEF WalkRows
    <2> QED BY <1>3, <2>8
  <1>4. CASE NextRows \/ NextGroups
    <2> QED BY <1>3, <1>4, KeysAreFinite DEF NextRows, NextGroups
  <1>5. CASE NextHistory
    <2>1. PICK f \in Orders : walk' = [walk EXCEPT
         !.shown = @ \cup HistoryPage(f), !.twice = @ \/ HistoryPage(f) \cap walk.shown # {},
         !.page = @ + 1, !.done = walk.page * PageLimit >= Cardinality(present)] BY <1>5 DEF NextHistory
    <2> DEFINE twice == walk.twice \/ HistoryPage(f) \cap walk.shown # {}
               done == walk.page * PageLimit >= Cardinality(present)
               shown == walk.shown \cup HistoryPage(f)
    <2>2. shown \in SUBSET Int
      <3>1. HistoryPage(f) \subseteq present BY DEF HistoryPage, Fetched
      <3>2. walk.shown \subseteq Int BY DEF WalkRows
      <3>3. present \subseteq Int OBVIOUS
      <3> HIDE DEF ListTypes
      <3> QED BY <3>1, <3>2, <3>3
    <2>3. twice \in BOOLEAN /\ done \in BOOLEAN OBVIOUS
    <2>4. walk' = [walk EXCEPT !.shown = shown, !.twice = twice, !.page = walk.page + 1, !.done = done] BY <2>1
    <2>9. walk.page + 1 \in Nat BY DEF WalkRows
    <2>5. walk' \in WalkRows /\ walk'.start = walk.start
      <3> HIDE DEF shown, twice, done
      <3> QED BY <2>2, <2>3, <2>4, <2>9 DEF WalkRows
    <2> QED BY SMTT(30), <1>5, <2>5 DEF NextHistory
  <1>6. ASSUME NEW r \in Rows, StampRow(r) PROVE ListTypes' BY <1>6 DEF StampRow, Unwritten
  <1>7. ASSUME NEW r \in Rows, InsertRow(r) PROVE ListTypes' BY <1>7, FS_AddElement DEF InsertRow
  <1> QED BY <1>1, <1>2, <1>4, <1>5, <1>6, <1>7 DEF ListingsNext

\* A page of keys below the cursor: all that are left, or a cursor that parts what was
\* shown from what is left.
LEMMA KeysetStep ==
  ASSUME ListTypes, NEW keys, keys \subseteq Keys, IsFiniteSet(keys), KeysetNext(keys)
  PROVE  LET page == KeysetPage(keys)
             left == {k \in keys : Below(k, walk.cursor)}
         IN  /\ page \subseteq left
             /\ walk'.kind = walk.kind /\ walk'.start = walk.start /\ walk'.done \in BOOLEAN
             /\ walk'.shown = walk.shown \cup {k.id : k \in page}
             /\ walk'.twice = (walk.twice \/ {k.id : k \in page} \cap walk.shown # {})
             /\ walk'.done => page = left
             /\ ~walk'.done => /\ walk'.cursor \in Keys /\ Below(walk'.cursor, walk.cursor)
                               /\ \A k \in page : ~Below(k, walk'.cursor)
                               /\ \A k \in left \ page : Below(k, walk'.cursor)
  <1> DEFINE page == KeysetPage(keys)
             left == {k \in keys : Below(k, walk.cursor)}
             last == CHOOSE k \in page : \A j \in page : j = k \/ Below(k, j)
  <1>1. IsFiniteSet(left) /\ left \subseteq Keys BY FS_Subset
  <1>2. page = {k \in left : Cardinality(Ahead(left, k)) < PageLimit} BY DEF KeysetPage, Ahead
  <1>3. PageLimit \in Nat \ {0} BY ListingsAssumption
  <1>4. /\ Cardinality(page) < PageLimit => page = left
        /\ ~(Cardinality(page) < PageLimit) =>
              \E c \in page : (\A j \in page : j = c \/ Below(c, j)) /\ \A k \in left \ page : Below(k, c)
    <2> HIDE DEF left, page
    <2> QED BY <1>1, <1>2, <1>3, FirstOf
  <1>5. page \subseteq left BY <1>2
  <1>6. ASSUME ~(Cardinality(page) < PageLimit)
        PROVE  /\ last \in page /\ \A k \in page : ~Below(k, last)
               /\ \A k \in left \ page : Below(k, last)
    <2> HIDE DEF left, page
    <2>1. PICK c \in page : (\A j \in page : j = c \/ Below(c, j)) /\ \A k \in left \ page : Below(k, c) BY <1>4, <1>6
    <2>2. last \in page /\ \A j \in page : j = last \/ Below(last, j) BY <2>1
    <2>3. last = c BY <1>1, <1>5, <2>1, <2>2, BelowIsOrder
    <2> QED BY <1>1, <1>5, <2>1, <2>2, <2>3, BelowIsOrder
  <1>7. /\ walk' = [walk EXCEPT
               !.shown = walk.shown \cup {k.id : k \in page}, !.twice = walk.twice \/ {k.id : k \in page} \cap walk.shown # {},
               !.done = Cardinality(page) < PageLimit,
               !.cursor = IF Cardinality(page) < PageLimit THEN walk.cursor ELSE last]
        /\ walk \in WalkRows
    BY DEF KeysetNext, ListTypes
  <1> HIDE DEF page, left, last
  <1>8. /\ walk'.kind = walk.kind /\ walk'.start = walk.start
        /\ walk'.shown = walk.shown \cup {k.id : k \in page}
        /\ walk'.twice = (walk.twice \/ {k.id : k \in page} \cap walk.shown # {})
        /\ walk'.done = (Cardinality(page) < PageLimit)
        /\ walk'.cursor = IF Cardinality(page) < PageLimit THEN walk.cursor ELSE last
    BY <1>7 DEF WalkRows
  <1>9. ~walk'.done => last \in Keys /\ Below(last, walk.cursor)
    <2>1. \A k \in left : Below(k, walk.cursor) BY DEF left
    <2> QED BY <1>1, <1>5, <1>6, <1>8, <2>1
  <1>10. walk'.done => page = left BY <1>4, <1>8
  <1>11. ~walk'.done => /\ walk'.cursor = last
                        /\ \A k \in page : ~Below(k, last)
                        /\ \A k \in left \ page : Below(k, last)
    BY <1>6, <1>8
  <1>12. walk'.done \in BOOLEAN BY <1>8
  <1> QED BY <1>5, <1>8, <1>9, <1>10, <1>11, <1>12 DEF page, left

\* Every step keeps what is shown and owed of rows.
LEMMA RowWalkStep == ASSUME ListTypes, RowWalk, ListingsNext PROVE RowWalk'
  <1> USE DEF RowWalk
  <1>1. CASE NowPasses BY <1>1 DEF NowPasses, RowKey
  <1>2. CASE StartWalk
    <2>1. PICK kind \in {"rows", "groups", "history"} : walk' = Walking(kind) BY <1>2 DEF StartWalk
    <2>2. walk'.twice = FALSE /\ walk'.done = FALSE /\ walk'.shown = {} /\ walk'.start = present /\ walk'.cursor = Top
      BY <2>1 DEF Walking
    <2>3. \A r \in present : written[r] < LastNow + 1
      BY ListingsAssumption DEF ListTypes, Unwritten
    <2>4. \A r \in present : Below([at |-> written[r], id |-> r], Top) BY <2>3 DEF Below, Top
    <2> QED BY <1>2, <2>2, <2>4 DEF StartWalk, RowKey
  <1>3. CASE NextRows
    <2> DEFINE page == KeysetPage(RowKeys)
               left == {k \in RowKeys : Below(k, walk.cursor)}
    <2>1. ~walk.done /\ walk.kind = "rows" /\ KeysetNext(RowKeys) /\ UNCHANGED <<now, written, present>> BY <1>3 DEF NextRows
    <2>2. RowKeys = {RowKey(r) : r \in present} /\ \A r \in present : RowKey(r).id = r /\ RowKey(r) \in Keys
      BY ListingsAssumption DEF RowKeys, RowKey, ListTypes, Keys, Unwritten
    <2>3. walk.cursor \in Keys /\ walk.start \subseteq present BY DEF ListTypes, WalkRows
    <2>4. /\ page \subseteq left
          /\ walk'.kind = walk.kind /\ walk'.start = walk.start /\ walk'.done \in BOOLEAN
          /\ walk'.shown = walk.shown \cup {k.id : k \in page}
          /\ walk'.twice = (walk.twice \/ {k.id : k \in page} \cap walk.shown # {})
          /\ walk'.done => page = left
          /\ ~walk'.done => /\ walk'.cursor \in Keys /\ Below(walk'.cursor, walk.cursor)
                            /\ \A k \in page : ~Below(k, walk'.cursor)
                            /\ \A k \in left \ page : Below(k, walk'.cursor)
      BY <2>1, KeysAreFinite, KeysetStep
    <2> HIDE DEF page
    <2>5. ~walk'.twice
      <3>1. \A k \in page : k = RowKey(k.id) /\ Below(k, walk.cursor) BY <2>2, <2>4
      <3>2. \A k \in page : k.id \notin walk.shown BY <2>1, <3>1
      <3> QED BY ZenonT(60), <2>1, <2>4, <3>2
    <2>6. \A r \in present : RowKey(r)' = RowKey(r) BY <2>1 DEF RowKey
    <2>7. \A r \in walk.start : r \notin walk.shown => RowKey(r) \in left BY <2>1, <2>2, <2>3
    <2>8. walk'.done => walk'.start \subseteq walk'.shown BY <2>2, <2>3, <2>4, <2>7
    <2>9. ASSUME ~walk'.done, NEW r \in walk'.shown PROVE r \in present' /\ ~Below(RowKey(r)', walk'.cursor)
      <3>1. CASE r \in walk.shown
        <4>1. r \in present /\ ~Below(RowKey(r), walk.cursor) BY <2>1, <3>1
        <4>2. ~Below(RowKey(r), walk'.cursor) BY <2>2, <2>3, <2>4, <2>9, <4>1, BelowIsOrder
        <4> QED BY <2>1, <2>6, <4>1, <4>2
      <3>2. CASE r \in {k.id : k \in page} BY <2>1, <2>2, <2>4, <2>6, <2>9, <3>2
      <3> QED BY <2>4, <2>9, <3>1, <3>2
    <2>10. ASSUME ~walk'.done, NEW r \in walk'.start PROVE r \in walk'.shown \/ Below(RowKey(r)', walk'.cursor)
      <3>1. CASE RowKey(r) \in page BY <2>2, <2>3, <2>4, <2>10, <3>1
      <3> QED BY <2>3, <2>4, <2>6, <2>7, <2>10, <3>1
    <2> QED BY <2>5, <2>8, <2>9, <2>10
  <1>4. CASE NextGroups
    <2>1. walk'.kind = "groups"
      BY <1>4, KeysAreFinite, KeysetStep DEF NextGroups
    <2> QED BY <2>1
  <1>5. CASE NextHistory
    <2>1. walk'.kind = "history" BY <1>5 DEF NextHistory, ListTypes, WalkRows
    <2> QED BY <2>1
  <1>6. ASSUME NEW r \in Rows, StampRow(r) PROVE RowWalk'
    <2>1. \A q \in present : RowKey(q)' = RowKey(q) BY <1>6 DEF StampRow, ListTypes, RowKey
    <2> QED BY <1>6, <2>1 DEF StampRow, ListTypes
  <1>7. ASSUME NEW r \in Rows, InsertRow(r) PROVE RowWalk' BY <1>7 DEF InsertRow, RowKey
  <1> QED BY <1>1, <1>2, <1>3, <1>4, <1>5, <1>6, <1>7 DEF ListingsNext

\* A group that gets a row moves up or stays.
LEMMA GroupRises ==
  ASSUME ListTypes, ListTypes', NEW g, RowsOfGroup(g) # {}, RowsOfGroup(g) \subseteq RowsOfGroup(g)',
         \A r \in present : written'[r] = written[r], NEW c \in Keys, Below(GroupKey(g)', c)
  PROVE  Below(GroupKey(g), c)
  <1> DEFINE G == RowsOfGroup(g)
             H == RowsOfGroup(g)'
             top == Max({written[r] : r \in G})
             top2 == Max({written'[r] : r \in H})
  <1>1. \A r \in G : written[r] \in 0..LastNow BY DEF ListTypes, RowsOfGroup
  <1>2. \A r \in H : written'[r] \in 0..LastNow BY DEF ListTypes, RowsOfGroup
  <1>3. top \in 0..LastNow /\ \E r \in G : top = written[r] BY <1>1, NewestTime
  <1>4. top2 \in 0..LastNow /\ \A r \in H : written'[r] <= top2 BY <1>2, NewestTime
  <1>5. G \subseteq present BY DEF RowsOfGroup
  <1>6. top <= top2
    <2> HIDE DEF top, top2
    <2>1. PICK r \in G : top = written[r] BY <1>3
    <2> QED BY <1>4, <1>5, <2>1
  <1>7. GroupKey(g) = [at |-> top, id |-> g] /\ GroupKey(g)' = [at |-> top2, id |-> g] BY DEF GroupKey
  <1>8. Below([at |-> top2, id |-> g], c) BY <1>7
  <1> HIDE DEF top, top2
  <1> QED BY <1>3, <1>4, <1>6, <1>7, <1>8 DEF Below, Keys

\* One without a new row stays.
LEMMA GroupStays ==
  ASSUME ListTypes, NEW g, RowsOfGroup(g)' = RowsOfGroup(g), \A r \in present : written'[r] = written[r]
  PROVE  GroupKey(g)' = GroupKey(g)
  <1>1. \A r \in RowsOfGroup(g) : written'[r] = written[r] BY DEF RowsOfGroup
  <1>2. {written'[r] : r \in RowsOfGroup(g)'} = {written[r] : r \in RowsOfGroup(g)} BY <1>1
  <1> QED BY <1>2 DEF GroupKey

\* Every step keeps what is shown and owed of groups.
LEMMA GroupWalkStep == ASSUME ListTypes, ListTypes', GroupWalk, ListingsNext PROVE GroupWalk'
  <1> USE DEF GroupWalk
  <1>1. ASSUME UNCHANGED walk, \A r \in present : written'[r] = written[r], present \subseteq present'
        PROVE GroupWalk'
    <2> SUFFICES ASSUME walk.kind = "groups" PROVE GroupWalk' BY <1>1
    <2>1. \A g : RowsOfGroup(g) \subseteq RowsOfGroup(g)' BY <1>1 DEF RowsOfGroup
    <2>2. walk.cursor \in Keys /\ walk.start \subseteq present BY DEF ListTypes, WalkRows
    <2>3. Owed' \subseteq Owed BY <1>1, <2>1 DEF Owed
    <2>4. ASSUME NEW g \in Owed' PROVE RowsOfGroup(g)' = RowsOfGroup(g)
      <3>1. RowsOfGroup(g)' \subseteq walk.start BY <1>1, <2>4 DEF Owed
      <3> QED BY <2>1, <2>2, <3>1 DEF RowsOfGroup
    <2>5. \A g \in Owed' : GroupKey(g)' = GroupKey(g) BY <1>1, <2>4, GroupStays
    <2>6. ASSUME ~walk.done, NEW g \in walk.shown PROVE RowsOfGroup(g)' # {} /\ ~Below(GroupKey(g)', walk.cursor)
      <3>1. RowsOfGroup(g) # {} /\ ~Below(GroupKey(g), walk.cursor) BY <2>6
      <3> QED BY <1>1, <2>1, <2>2, <3>1, GroupRises
    <2>7. ~walk.done => \A g \in Owed' : g \in walk.shown \/ Below(GroupKey(g)', walk.cursor) BY <2>3, <2>5
    <2> QED BY <1>1, <2>3, <2>6, <2>7
  <1>2. CASE NowPasses BY <1>1, <1>2 DEF NowPasses
  <1>3. CASE StartWalk
    <2>1. PICK kind \in {"rows", "groups", "history"} : walk' = Walking(kind) BY <1>3 DEF StartWalk
    <2>2. walk'.twice = FALSE /\ walk'.done = FALSE /\ walk'.shown = {} /\ walk'.start = present /\ walk'.cursor = Top
      BY <2>1 DEF Walking
    <2>3. UNCHANGED <<now, written, present>> BY <1>3 DEF StartWalk
    <2>4. ASSUME NEW g \in Owed' PROVE Below(GroupKey(g)', Top)
      <3>1. RowsOfGroup(g) # {} BY <2>2, <2>4 DEF Owed, RowsOfGroup
      <3>2. \A r \in RowsOfGroup(g) : written[r] \in 0..LastNow BY <3>1, NewestOf
      <3> DEFINE top == Max({written[r] : r \in RowsOfGroup(g)})
      <3>3. top \in 0..LastNow BY ZenonT(60), <3>1, <3>2, NewestTime
      <3>4. GroupKey(g)' = GroupKey(g) BY <2>3, GroupStays DEF RowsOfGroup
      <3>5. GroupKey(g) = [at |-> top, id |-> g] BY DEF GroupKey
      <3> HIDE DEF top
      <3>6. top < LastNow + 1 BY <3>3, ListingsAssumption
      <3> QED BY <3>4, <3>5, <3>6 DEF Below, Top
    <2> QED BY <2>2, <2>4
  <1>4. CASE NextGroups
    <2> DEFINE page == KeysetPage(GroupKeys)
               left == {k \in GroupKeys : Below(k, walk.cursor)}
    <2>1. ~walk.done /\ walk.kind = "groups" /\ KeysetNext(GroupKeys) /\ UNCHANGED <<now, written, present>> BY <1>4 DEF NextGroups
    <2>2. /\ \A k \in GroupKeys : k = GroupKey(k.id) /\ RowsOfGroup(k.id) # {}
          /\ \A r \in present : GroupKey(GroupOf[r]) \in GroupKeys
          /\ \A g : RowsOfGroup(g) # {} => GroupKey(g) \in Keys /\ GroupKey(g).id = g
      <3>1. GroupKeys = {GroupKey(g) : g \in {GroupOf[r] : r \in present}} BY DEF GroupKeys, GroupKey
      <3>2. \A r \in present : RowsOfGroup(GroupOf[r]) # {} BY DEF RowsOfGroup
      <3>3. \A g : GroupKey(g).id = g BY DEF GroupKey
      <3> QED BY <3>1, <3>2, <3>3, NewestOf
    <2>3. walk.cursor \in Keys /\ walk.start \subseteq present BY DEF ListTypes, WalkRows
    <2>4. /\ page \subseteq left
          /\ walk'.kind = walk.kind /\ walk'.start = walk.start /\ walk'.done \in BOOLEAN
          /\ walk'.shown = walk.shown \cup {k.id : k \in page}
          /\ walk'.twice = (walk.twice \/ {k.id : k \in page} \cap walk.shown # {})
          /\ walk'.done => page = left
          /\ ~walk'.done => /\ walk'.cursor \in Keys /\ Below(walk'.cursor, walk.cursor)
                            /\ \A k \in page : ~Below(k, walk'.cursor)
                            /\ \A k \in left \ page : Below(k, walk'.cursor)
      BY <2>1, KeysAreFinite, KeysetStep
    <2> HIDE DEF page
    <2>5. ~walk'.twice
      <3>1. \A k \in page : k = GroupKey(k.id) /\ Below(k, walk.cursor) BY <2>2, <2>4
      <3>2. \A k \in page : k.id \notin walk.shown BY <2>1, <3>1
      <3> QED BY ZenonT(60), <2>1, <2>4, <3>2
    <2>6. \A g : RowsOfGroup(g)' = RowsOfGroup(g) BY <2>1 DEF RowsOfGroup
    <2>7. \A g : GroupKey(g)' = GroupKey(g) BY <2>1, <2>6, GroupStays
    <2>8. Owed' = Owed BY <2>4, <2>6 DEF Owed
    <2>9. \A g \in Owed : RowsOfGroup(g) # {} /\ GroupKey(g) \in GroupKeys /\ GroupKey(g).id = g
      BY <2>2, <2>3 DEF Owed, RowsOfGroup
    <2>10. \A g \in Owed : g \notin walk.shown => GroupKey(g) \in left BY <2>1, <2>9
    <2>11. walk'.done => Owed' \subseteq walk'.shown BY <2>4, <2>8, <2>9, <2>10
    <2>12. ASSUME ~walk'.done, NEW g \in walk'.shown PROVE RowsOfGroup(g)' # {} /\ ~Below(GroupKey(g)', walk'.cursor)
      <3>1. CASE g \in walk.shown
        <4>1. RowsOfGroup(g) # {} /\ ~Below(GroupKey(g), walk.cursor) BY <2>1, <3>1
        <4>2. ~Below(GroupKey(g), walk'.cursor) BY <2>2, <2>3, <2>4, <2>12, <4>1, BelowIsOrder
        <4> QED BY <2>6, <2>7, <4>1, <4>2
      <3>2. CASE g \in {k.id : k \in page}
        <4>1. PICK k \in page : g = k.id BY <3>2
        <4>2. k = GroupKey(g) /\ RowsOfGroup(g) # {} BY <2>2, <2>4, <4>1
        <4> QED BY <2>4, <2>6, <2>7, <2>12, <4>2
      <3> QED BY <2>4, <2>12, <3>1, <3>2
    <2>13. ASSUME ~walk'.done, NEW g \in Owed' PROVE g \in walk'.shown \/ Below(GroupKey(g)', walk'.cursor)
      <3>1. CASE GroupKey(g) \in page BY <2>4, <2>8, <2>9, <3>1
      <3> QED BY <2>4, <2>7, <2>8, <2>10, <2>13, <3>1
    <2> QED BY <2>5, <2>11, <2>12, <2>13
  <1>5. CASE NextRows
    <2>1. walk'.kind = "rows" BY <1>5, KeysAreFinite, KeysetStep DEF NextRows
    <2> QED BY <2>1
  <1>6. CASE NextHistory
    <2>1. walk'.kind = "history" BY <1>6 DEF NextHistory, ListTypes, WalkRows
    <2> QED BY SMTT(30), <2>1
  <1>7. ASSUME NEW r \in Rows, StampRow(r) PROVE GroupWalk'
    <2>1. \A q \in present : written'[q] = written[q] BY <1>7 DEF StampRow, ListTypes
    <2> QED BY <1>1, <1>7, <2>1 DEF StampRow
  <1>8. ASSUME NEW r \in Rows, InsertRow(r) PROVE GroupWalk' BY <1>1, <1>8 DEF InsertRow
  <1> QED BY <1>2, <1>3, <1>4, <1>5, <1>6, <1>7, <1>8 DEF ListingsNext

-----------------------------------------------------------------------------
(* Pages by number. *)

\* With different times, one is newer than the other, and has fewer newer than itself.
LEMMA NewerIsOrder ==
  ASSUME ListTypes, Exact, NEW r \in present, NEW s \in present, r # s
  PROVE  /\ Cardinality(Newer(r)) \in Nat /\ Cardinality(Newer(s)) \in Nat
         /\ r \in Newer(s) \/ s \in Newer(r)
         /\ s \in Newer(r) => Newer(s) \subseteq Newer(r) /\ Cardinality(Newer(s)) < Cardinality(Newer(r))
  <1>1. /\ written \in [Rows -> Int] /\ present \subseteq Rows BY ListingsAssumption DEF ListTypes, Unwritten
  <1>2. IsFiniteSet(Newer(r)) /\ IsFiniteSet(Newer(s)) BY FS_Subset DEF ListTypes, Newer
  <1>3. Cardinality(Newer(r)) \in Nat /\ Cardinality(Newer(s)) \in Nat BY <1>2, FS_CardinalityType
  <1>4. written[r] # written[s] BY DEF Exact
  <1>5. r \in Newer(s) \/ s \in Newer(r) BY <1>1, <1>4 DEF Newer
  <1>6. ASSUME s \in Newer(r) PROVE Newer(s) \subseteq Newer(r) /\ Cardinality(Newer(s)) < Cardinality(Newer(r))
    <2>1. Newer(s) \subseteq Newer(r) /\ s \notin Newer(s) BY <1>1, <1>6 DEF Newer
    <2>2. Cardinality(Newer(s)) <= Cardinality(Newer(r)) /\ Cardinality(Newer(s)) # Cardinality(Newer(r))
      BY <1>2, <1>6, <2>1, FS_Subset
    <2> QED BY <1>3, <2>1, <2>2
  <1> QED BY <1>3, <1>5, <1>6

\* Whatever order the database gives, a page has the rows whose number of newer rows
\* falls in it, since each table gave enough of them.
LEMMA PageOfHistory ==
  ASSUME ListTypes, Exact, NEW f \in Orders, Offset \in Nat
  PROVE  HistoryPage(f) = {r \in present : Cardinality(Newer(r)) \in Offset..(Offset + PageLimit - 1)}
  <1> DEFINE F == Fetched(f)
             Rank(r) == Cardinality(Newer(r))
             Top2 == PageLimit + Offset
  <1>0. PageLimit \in Nat /\ PageLimit > 0 /\ Top2 \in Nat BY ListingsAssumption
  <1>1. /\ f \in [present -> Int]
        /\ \A r, s \in present : f[r] < f[s] <=> written[r] > written[s]
    <2>1. IsFiniteSet(present) /\ Cardinality(present) \in Nat BY FS_CardinalityType DEF ListTypes
    <2>2. f \in [present -> 1..Cardinality(present)] BY DEF Orders
    <2>8. \A r \in present : written[r] \in Int
      <3>1. \A r \in present : written[r] \in {Unwritten} \cup 0..LastNow BY DEF ListTypes
      <3>2. {Unwritten} \cup 0..LastNow \subseteq Int BY ListingsAssumption DEF Unwritten
      <3> QED BY <3>1, <3>2
    <2>3. \A r, s \in present : written[r] > written[s] => f[r] < f[s]
      <3>1. \A r, s \in present : r # s => (written[r] > written[s] => f[r] < f[s]) BY DEF Orders
      <3> QED BY <2>8, <3>1
    <2>4. \A r, s \in present : r # s => written[r] # written[s] BY DEF Exact
    <2>5. \A r \in present : written[r] \in Int /\ f[r] \in Int BY <2>1, <2>2, <2>8
    <2>6. \A r, s \in present : f[r] < f[s] => written[r] > written[s] BY <2>3, <2>4, <2>5
    <2>7. f \in [present -> Int] BY <2>1, <2>2
    <2> QED BY <2>3, <2>6, <2>7
  <1>2. \A r \in present : IsFiniteSet(Newer(r)) /\ Rank(r) \in Nat /\ r \notin Newer(r)
    BY FS_Subset, FS_CardinalityType, ListingsAssumption DEF ListTypes, Newer, Unwritten
  <1>3. ASSUME NEW r \in present, Rank(r) < Top2 PROVE r \in F
    <2> DEFINE ahead == {s \in present : StreamOf[s] = StreamOf[r] /\ f[s] <= f[r]}
    <2>1. ahead \subseteq Newer(r) \cup {r}
      <3>1. \A s \in present : f[s] = f[r] => s = r
        <4>1. \A s \in present : r # s => f[r] # f[s] BY DEF Orders
        <4> QED BY <4>1
      <3> QED BY <1>1, <3>1 DEF Newer
    <2>2. /\ IsFiniteSet(Newer(r) \cup {r})
          /\ Cardinality(Newer(r) \cup {r}) = Rank(r) + 1
      BY <1>2, FS_AddElement
    <2>3. IsFiniteSet(ahead) /\ Cardinality(ahead) <= Rank(r) + 1 /\ Cardinality(ahead) \in Nat
      <3> HIDE DEF ahead, Rank
      <3> QED BY <2>1, <2>2, FS_Subset, FS_CardinalityType
    <2>4. Cardinality(ahead) <= Top2 BY <1>0, <1>2, <1>3, <2>3
    <2> QED BY <2>4 DEF Fetched, InStream
  <1>4. \A r \in F : {s \in F : f[s] < f[r]} = F \cap Newer(r)
    <2>1. F \subseteq present BY DEF Fetched
    <2> QED BY <1>1, <2>1 DEF Newer
  <1>5. ASSUME NEW r \in present, Rank(r) < Top2 PROVE F \cap Newer(r) = Newer(r)
    <2>1. ASSUME NEW s \in Newer(r) PROVE s \in F
      <3>1. s \in present /\ s # r BY <1>2, <2>1 DEF Newer
      <3>2. Rank(s) < Rank(r) BY <3>1, <2>1, NewerIsOrder
      <3> QED BY <1>0, <1>2, <1>3, <1>5, <3>1, <3>2
    <2> QED BY <2>1
  <1>6. ASSUME NEW r \in present, ~(Rank(r) < Top2)
        PROVE  Cardinality(F \cap Newer(r)) >= Top2 /\ Cardinality(F \cap Newer(r)) \in Nat
    <2> DEFINE T == {Rank(s) : s \in {q \in present : ~(Rank(q) < Top2)}}
    <2>1. T # {} /\ T \subseteq Nat BY <1>2, <1>6
    <2>2. PICK t \in T : \A u \in T : t <= u
      <3> HIDE DEF T
      <3> QED BY <2>1, LeastOf
    <2>3. PICK s \in present : ~(Rank(s) < Top2) /\ t = Rank(s) BY <2>2
    <2>4. \A q \in present : ~(Rank(q) < Top2) => Rank(s) <= Rank(q)
      <3>1. \A q \in present : ~(Rank(q) < Top2) => Rank(q) \in T OBVIOUS
      <3> HIDE DEF T, Rank
      <3> QED BY <2>2, <2>3, <3>1
    <2>5. ASSUME NEW q \in Newer(s) PROVE q \in F
      <3>1. q \in present /\ q # s BY <1>2, <2>5 DEF Newer
      <3>2. Rank(q) < Rank(s) BY <3>1, <2>5, NewerIsOrder
      <3>3. Rank(q) < Top2 BY <1>0, <1>2, <2>4, <3>1, <3>2
      <3> QED BY <1>3, <3>1, <3>3
    <2>6. Newer(s) \subseteq Newer(r)
      <3>1. CASE s = r BY <3>1
      <3>2. CASE s # r
        <4>1. r \notin Newer(s) BY <1>2, <2>4, <1>6, <3>2, NewerIsOrder
        <4> QED BY <3>2, <4>1, NewerIsOrder
      <3> QED BY <3>1, <3>2
    <2>7. Newer(s) \in SUBSET (F \cap Newer(r)) BY <2>5, <2>6
    <2>8. IsFiniteSet(F \cap Newer(r)) BY <1>2, FS_Subset
    <2>9. Rank(s) <= Cardinality(F \cap Newer(r)) BY <2>7, <2>8, FS_Subset
    <2>10. Cardinality(F \cap Newer(r)) \in Nat BY <2>8, FS_CardinalityType
    <2> QED BY <1>0, <1>2, <2>3, <2>9, <2>10
  <1>7. ASSUME NEW r \in present PROVE r \in HistoryPage(f) <=> Rank(r) \in Offset..(Offset + PageLimit - 1)
    <2>1. CASE Rank(r) < Top2
      <3>1. r \in F BY <1>3, <2>1
      <3>2. Cardinality({s \in F : f[s] < f[r]}) = Rank(r) BY <1>4, <1>5, <2>1, <3>1
      <3> QED BY <3>1, <3>2 DEF HistoryPage
    <2>2. CASE ~(Rank(r) < Top2)
      <3>1. Rank(r) \notin Offset..(Offset + PageLimit - 1) BY <1>0, <1>2, <2>2
      <3>2. r \in F => Cardinality({s \in F : f[s] < f[r]}) \notin Offset..(Offset + PageLimit - 1)
        BY <1>0, <1>4, <1>6, <2>2
      <3> QED BY <3>1, <3>2 DEF HistoryPage
    <2> QED BY <2>1, <2>2
  <1>8. HistoryPage(f) \subseteq present BY DEF HistoryPage, Fetched
  <1> QED BY <1>7, <1>8

\* Every step keeps what numbered pages have shown.
LEMMA HistoryWalkStep == ASSUME ListTypes, ListTypes', HistoryWalk, ListingsNext PROVE HistoryWalk'
  <1> USE DEF HistoryWalk
  <1>0. PageLimit \in Nat /\ PageLimit > 0 BY ListingsAssumption
  <1>1. ASSUME UNCHANGED <<walk, present>>, \A r \in present : written'[r] = written[r] PROVE HistoryWalk'
    <2>1. Exact' => Exact BY <1>1 DEF Exact
    <2>2. \A r \in present : Newer(r)' = Newer(r) BY <1>1 DEF Newer
    <2>3. Offset' = Offset BY <1>1 DEF Offset
    <2> QED BY <1>1, <2>1, <2>2, <2>3
  <1>2. CASE NowPasses BY <1>1, <1>2 DEF NowPasses
  <1>3. ASSUME NEW r \in Rows, StampRow(r) PROVE HistoryWalk'
    <2>1. \A q \in present : written'[q] = written[q] BY <1>3 DEF StampRow, ListTypes
    <2> QED BY <1>1, <1>3, <2>1 DEF StampRow
  <1>4. ASSUME NEW r \in Rows, InsertRow(r) PROVE HistoryWalk'
    <2>1. ~Exact' BY <1>4 DEF InsertRow, Exact, ListTypes
    <2> QED BY <2>1
  <1>5. CASE StartWalk
    <2>1. PICK kind \in {"rows", "groups", "history"} : walk' = Walking(kind) BY <1>5 DEF StartWalk
    <2>2. walk'.twice = FALSE /\ walk'.done = FALSE /\ walk'.shown = {} /\ walk'.page = 1 BY <2>1 DEF Walking
    <2>3. Offset' = 0 BY <1>0, <2>2 DEF Offset
    <2>4. \A r \in present' : Cardinality(Newer(r)') \in Nat
      BY FS_Subset, FS_CardinalityType DEF ListTypes, Newer
    <2> QED BY <2>2, <2>3, <2>4
  <1>6. CASE NextRows \/ NextGroups
    <2>1. walk'.kind # "history" BY SMTT(30), <1>6, KeysAreFinite, KeysetStep DEF NextRows, NextGroups
    <2> QED BY <2>1
  <1>7. CASE NextHistory
    <2>1. PICK f \in Orders : walk' = [walk EXCEPT
         !.shown = @ \cup HistoryPage(f), !.twice = @ \/ HistoryPage(f) \cap walk.shown # {},
         !.page = @ + 1, !.done = walk.page * PageLimit >= Cardinality(present)] BY <1>7 DEF NextHistory
    <2>2. walk.kind = "history" /\ ~walk.done /\ UNCHANGED <<now, written, present>> BY <1>7 DEF NextHistory
    <2>3. /\ walk'.shown = walk.shown \cup HistoryPage(f)
          /\ walk'.twice = (walk.twice \/ HistoryPage(f) \cap walk.shown # {})
          /\ walk'.page = walk.page + 1 /\ walk'.start = walk.start
          /\ walk'.done = (walk.page * PageLimit >= Cardinality(present))
      BY <2>1 DEF ListTypes, WalkRows
    <2> SUFFICES ASSUME Exact' PROVE HistoryWalk' OBVIOUS
    <2>4. Exact BY <2>2, <2>3 DEF Exact
    <2>5. walk.page \in Nat /\ walk.page > 0 BY <2>2, <2>4 DEF ListTypes, WalkRows
    <2>6. Offset \in Nat /\ Offset' = Offset + PageLimit /\ walk.page * PageLimit = Offset + PageLimit
      <3>1. Offset' = walk.page * PageLimit BY <2>3, <2>5 DEF Offset
      <3>2. \A p, n \in Nat : p > 0 => (p - 1) * n \in Nat /\ p * n = (p - 1) * n + n OBVIOUS
      <3> QED BY <1>0, <2>5, <3>1, <3>2 DEF Offset
    <2>7. HistoryPage(f) = {r \in present : Cardinality(Newer(r)) \in Offset..(Offset + PageLimit - 1)}
      BY <2>4, <2>6, PageOfHistory
    <2>8. \A r \in present : Cardinality(Newer(r)) \in Nat BY FS_Subset, FS_CardinalityType DEF ListTypes, Newer
    <2>9. ~walk.twice /\ walk.shown = {r \in present : Cardinality(Newer(r)) < Offset} BY <2>2, <2>4
    <2>10. \A r \in present : Newer(r)' = Newer(r) BY <2>2 DEF Newer
    <2>11. ~walk'.twice
      <3>1. \A r \in HistoryPage(f) : r \notin walk.shown BY <2>6, <2>7, <2>8, <2>9
      <3> QED BY <2>3, <2>9, <3>1
    <2>12. walk'.shown = {r \in present : Cardinality(Newer(r)) < Offset'}
      BY <1>0, <2>3, <2>6, <2>7, <2>8, <2>9
    <2>13. walk'.done => Offset' >= Cardinality(present') BY <2>2, <2>3, <2>6
    <2>14. walk'.page > 0 BY <2>3, <2>5
    <2> QED BY SMTT(30), <2>2, <2>10, <2>11, <2>12, <2>13, <2>14
  <1> QED BY <1>2, <1>3, <1>4, <1>5, <1>6, <1>7 DEF ListingsNext

\* A reader who follows a listing to its end has seen all of it, once: rows always,
\* groups that got no row meanwhile, and numbered pages while nothing was added and
\* no two times are equal.  (bet-log-pg.ts.)
THEOREM ListingsWhole == ListingsSpec => []ListingsAreWhole
  <1>1. ListingsInit => ListInv
    <2> SUFFICES ASSUME ListingsInit PROVE ListInv OBVIOUS
    <2>1. Top \in Keys BY ListingsAssumption DEF Top, Keys
    <2>2. walk \in WalkRows BY <2>1 DEF ListingsInit, NoWalk, WalkRows
    <2>3. written \in [Rows -> {Unwritten} \cup 0..LastNow] BY DEF ListingsInit
    <2>4. ListTypes BY <2>2, <2>3, FS_EmptySet, ListingsAssumption DEF ListingsInit, ListTypes, NoWalk
    <2>5. walk.kind = "none" BY DEF ListingsInit, NoWalk
    <2> QED BY <2>4, <2>5 DEF ListInv, RowWalk, GroupWalk, HistoryWalk
  <1>2. ListInv /\ [ListingsNext]_listingVars => ListInv'
    <2>1. CASE UNCHANGED listingVars
      <3>1. ListTypes => ListTypes' BY <2>1 DEF ListTypes, listingVars
      <3>2. RowWalk => RowWalk' BY <2>1 DEF RowWalk, RowKey, listingVars
      <3>3. GroupWalk => GroupWalk' BY <2>1 DEF GroupWalk, GroupKey, Owed, RowsOfGroup, listingVars
      <3>4. HistoryWalk => HistoryWalk' BY <2>1 DEF HistoryWalk, Exact, Newer, Offset, listingVars
      <3> QED BY <3>1, <3>2, <3>3, <3>4 DEF ListInv
    <2>2. ASSUME ListInv, ListingsNext PROVE ListInv'
      <3>1. ListTypes' BY <2>2, ListTypesStep DEF ListInv
      <3> QED BY <2>2, <3>1, RowWalkStep, GroupWalkStep, HistoryWalkStep DEF ListInv
    <2> QED BY <2>1, <2>2
  <1>3. ListInv => ListingsAreWhole
    <2> SUFFICES ASSUME ListInv PROVE ListingsAreWhole OBVIOUS
    <2>1. walk.start \subseteq present /\ IsFiniteSet(present) BY DEF ListInv, ListTypes
    <2>2. RowsAreWalked BY DEF ListInv, RowWalk, RowsAreWalked
    <2>3. GroupsAreWalked BY DEF ListInv, GroupWalk, Owed, GroupsAreWalked
    <2>4. HistoryIsWalked
      <3> SUFFICES ASSUME walk.kind = "history", Exact PROVE ~walk.twice /\ (walk.done => walk.start \subseteq walk.shown)
        BY DEF HistoryIsWalked, Exact
      <3>1. ASSUME NEW r \in present PROVE Cardinality(Newer(r)) < Cardinality(present)
        <4>1. r \notin Newer(r) /\ Newer(r) \in SUBSET present
          BY ListingsAssumption DEF Newer, ListInv, ListTypes, Unwritten
        <4> QED BY <2>1, <4>1, FS_Subset, FS_CardinalityType
      <3>2. Cardinality(present) \in Nat /\ \A r \in present : Cardinality(Newer(r)) \in Nat
        BY <2>1, FS_Subset, FS_CardinalityType DEF Newer
      <3>3. /\ ~walk.twice /\ walk.page \in Nat /\ walk.page > 0
            /\ walk.shown = {r \in present : Cardinality(Newer(r)) < Offset}
            /\ walk.done => Offset >= Cardinality(present)
        BY DEF ListInv, HistoryWalk, ListTypes, WalkRows
      <3>4. Offset \in Int BY <3>3, ListingsAssumption DEF Offset
      <3> QED BY <2>1, <3>1, <3>2, <3>3, <3>4
    <2> QED BY <2>2, <2>3, <2>4 DEF ListingsAreWhole
  <1> QED BY <1>1, <1>2, <1>3, PTL DEF ListingsSpec

-----------------------------------------------------------------------------
(* Reconciliation.  The cursor of a run divides what it knew of its window:  *)
(* what it has not seen is older.                                            *)

\* A set has as many members as its image under a function that tells them apart.
LEMMA ImageSize ==
  ASSUME NEW S, IsFiniteSet(S), NEW f, f = [x \in S |-> f[x]], \A x, y \in S : f[x] = f[y] => x = y
  PROVE  LET T == {f[x] : x \in S} IN IsFiniteSet(T) /\ Cardinality(T) = Cardinality(S)
  <1> DEFINE T == {f[x] : x \in S}
  <1>1. f \in [S -> T] OBVIOUS
  <1>2. f \in Bijection(S, T) BY <1>1 DEF Bijection, Injection, Surjection, IsInjective
  <1>3. ExistsBijection(S, T) BY <1>2 DEF ExistsBijection
  <1> QED BY <1>3, FS_Bijection

KeyOf(t) == [at |-> stamp[t], id |-> t]
Dated == inserted \subseteq ReconTxns /\ IsFiniteSet(inserted) /\ stamp \in [ReconTxns -> -1..LastSecond]

\* A page takes the newest of what is left: a short one all of it, and a full one
\* leaves what is older than its last row.
LEMMA PageTakesNewest ==
  ASSUME Dated, NEW r \in Runs
  PROVE  /\ Page(r) \subseteq Remaining(r)
         /\ Cardinality(Page(r)) # PageSize => Page(r) = Remaining(r)
         /\ Cardinality(Page(r)) = PageSize =>
              /\ LastOf(Page(r)) \in Page(r)
              /\ \A t \in Remaining(r) \ Page(r) : Older(t, [at |-> stamp[LastOf(Page(r))], txn |-> LastOf(Page(r))])
  <1> DEFINE left == Remaining(r)
             page == Page(r)
             newer(t) == {u \in left : Older(t, [at |-> stamp[u], txn |-> u])}
             key == [t \in left |-> KeyOf(t)]
             keys == {key[t] : t \in left}
             pageKeys == {k \in keys : Cardinality(Ahead(keys, k)) < PageSize}
  <1>a. /\ left \subseteq ReconTxns /\ IsFiniteSet(left)
        /\ \A t \in left : t \in Nat /\ stamp[t] \in Int
    <2>1. left \subseteq inserted BY DEF Remaining
    <2>2. ReconTxns \subseteq Nat BY ReconAssumption
    <2>3. IsFiniteSet(left) BY <2>1, FS_Subset DEF Dated
    <2> QED
      <3> HIDE DEF left
      <3> QED BY <2>1, <2>2, <2>3 DEF Dated
  <1>b. PageSize \in Nat \ {0} BY ReconAssumption
  <1>c. page = {t \in left : Cardinality(newer(t)) < PageSize} BY DEF Page
  <1> HIDE DEF left, page
  <1>1. \A t, u \in left : key[t] = key[u] => t = u BY DEF KeyOf
  <1>2. \A t, u \in left : Older(t, [at |-> stamp[u], txn |-> u]) <=> Below(key[t], key[u])
    BY DEF Older, Below, KeyOf
  <1>3. keys \subseteq Keys BY <1>a DEF Keys, KeyOf
  <1>4. IsFiniteSet(keys)
    <2>1. key = [t \in left |-> key[t]] OBVIOUS
    <2> HIDE DEF key
    <2> QED BY <1>a, <1>1, <2>1, ImageSize
  <1>5. ASSUME NEW t \in left PROVE Cardinality(newer(t)) = Cardinality(Ahead(keys, key[t]))
    <2> DEFINE part == [u \in newer(t) |-> key[u]]
    <2>1. IsFiniteSet(newer(t)) BY <1>a, FS_Subset
    <2>2. \A x, y \in newer(t) : part[x] = part[y] => x = y BY <1>1
    <2>3. {part[u] : u \in newer(t)} = Ahead(keys, key[t]) BY <1>2 DEF Ahead
    <2> QED
      <3> HIDE DEF newer, part
      <3>1. part = [u \in newer(t) |-> part[u]] BY DEF part
      <3> QED BY <2>1, <2>2, <2>3, <3>1, ImageSize
  <1>6. pageKeys = {key[t] : t \in page} BY <1>5, <1>c
  <1>7. Cardinality(pageKeys) = Cardinality(page) /\ IsFiniteSet(pageKeys)
    <2> DEFINE part == [u \in page |-> key[u]]
    <2>0. page \subseteq left BY <1>c
    <2>1. IsFiniteSet(page) BY <1>a, <2>0, FS_Subset
    <2>2. \A x, y \in page : part[x] = part[y] => x = y BY <1>1, <2>0
    <2>3. {part[u] : u \in page} = pageKeys BY <1>6
    <2> QED
      <3> HIDE DEF pageKeys, part
      <3>1. part = [u \in page |-> part[u]] BY DEF part
      <3> QED BY <2>1, <2>2, <2>3, <3>1, ImageSize
  <1> HIDE DEF keys, key
  <1>8. /\ Cardinality(pageKeys) \in Nat
        /\ Cardinality(pageKeys) < PageSize => pageKeys = keys
        /\ ~(Cardinality(pageKeys) < PageSize) =>
             \E c \in pageKeys : /\ \A j \in pageKeys : j = c \/ Below(c, j)
                                 /\ \A k \in keys \ pageKeys : Below(k, c)
    <2> HIDE DEF pageKeys
    <2>1. pageKeys = {k \in keys : Cardinality(Ahead(keys, k)) < PageSize} BY DEF pageKeys
    <2> QED BY <1>3, <1>4, <1>b, <2>1, FirstOf
  <1>9. page \subseteq left BY <1>c
  <1>10. keys = {key[t] : t \in left} BY DEF keys
  <1>11. CASE Cardinality(pageKeys) < PageSize
    <2>1. {key[t] : t \in page} = {key[t] : t \in left} BY <1>6, <1>8, <1>10, <1>11
    <2>2. page = left BY <1>1, <1>9, <2>1
    <2> QED BY <1>7, <1>8, <1>9, <1>11, <1>b, <2>2 DEF left, page
  <1>12. CASE ~(Cardinality(pageKeys) < PageSize)
    <2>1. PICK c \in pageKeys : /\ \A j \in pageKeys : j = c \/ Below(c, j)
                                /\ \A k \in keys \ pageKeys : Below(k, c)
      BY <1>8, <1>12
    <2>2. PICK last \in page : c = key[last] BY <1>6
    <2>3. ASSUME NEW t \in page, t # last PROVE Older(last, [at |-> stamp[t], txn |-> t])
      <3>1. key[t] \in pageKeys /\ key[t] # c BY <1>1, <1>6, <1>9, <2>2, <2>3
      <3>2. Below(key[last], key[t]) BY <2>1, <2>2, <3>1
      <3> QED BY <1>2, <1>9, <3>2
    <2>4. \A t \in left \ page : Older(t, [at |-> stamp[last], txn |-> last])
      <3> TAKE t \in left \ page
      <3>1. key[t] \in keys \ pageKeys BY <1>1, <1>6, <1>9, <1>10
      <3> QED BY <1>2, <1>9, <2>1, <2>2, <3>1
    <2>5. Cardinality(pageKeys) <= PageSize
      <3>1. c \in keys /\ Cardinality(Ahead(keys, c)) < PageSize BY <2>1
      <3>2. IsFiniteSet(Ahead(keys, c)) BY <1>4, FS_Subset DEF Ahead
      <3>3. pageKeys \subseteq Ahead(keys, c) \cup {c} BY <2>1 DEF Ahead
      <3>4. IsFiniteSet(Ahead(keys, c) \cup {c}) /\ Cardinality(Ahead(keys, c) \cup {c}) <= Cardinality(Ahead(keys, c)) + 1
        <4>1. Cardinality(Ahead(keys, c)) \in Nat BY <3>2, FS_CardinalityType
        <4> DEFINE those == Ahead(keys, c)
        <4> HIDE DEF those
        <4>2. IsFiniteSet(those \cup {c}) /\ (Cardinality(those \cup {c}) = Cardinality(those) \/ Cardinality(those \cup {c}) = Cardinality(those) + 1)
          BY <3>2, FS_AddElement DEF those
        <4> QED BY <4>1, <4>2 DEF those
      <3>5. Cardinality(pageKeys) <= Cardinality(Ahead(keys, c) \cup {c})
        <4> HIDE DEF pageKeys
        <4> QED BY <3>3, <3>4, FS_Subset
      <3>6. Cardinality(Ahead(keys, c)) \in Nat /\ Cardinality(Ahead(keys, c) \cup {c}) \in Nat BY <3>2, <3>4, FS_CardinalityType
      <3> QED BY <1>8, <1>b, <3>1, <3>4, <3>5, <3>6
    <2>6. LastOf(page) = last
      <3>1. \A t \in page : (\A u \in page : u = t \/ Older(t, [at |-> stamp[u], txn |-> u])) => t = last
        <4> SUFFICES ASSUME NEW t \in page, t # last, Older(t, [at |-> stamp[last], txn |-> last]) PROVE FALSE OBVIOUS
        <4>1. Older(last, [at |-> stamp[t], txn |-> t]) BY <2>3
        <4>2. t \in Nat /\ last \in Nat /\ stamp[t] \in Int /\ stamp[last] \in Int BY <1>a, <1>9
        <4> QED BY <4>1, <4>2 DEF Older
      <3> QED BY <2>3, <3>1 DEF LastOf
    <2> QED BY <1>7, <1>8, <1>9, <1>12, <1>b, <2>4, <2>5, <2>6 DEF left, page
  <1> QED BY <1>11, <1>12

RunTypes == [status : {"none", "RUNNING", "FETCHING", "SAVING", "OK", "MISMATCHES", "FAILED", "ABANDONED"},
             from : Int, to : Int, cursor : [at : Int, txn : Int], seen : SUBSET ReconTxns, bare : SUBSET ReconTxns,
             known : SUBSET ReconTxns, joined : SUBSET ReconTxns, theirs : SUBSET DOMAIN TheirTime, checked : Int, mismatches : Int]

Saved == {"OK", "MISMATCHES"}

\* What a run knew of its window it has seen, or will still come to; what had its bet's row
\* then it read with it.
RunIsOnTheWay(r) ==
  LET run == reconRun[r] IN
  /\ run.seen \cup run.known \subseteq inserted
  /\ run.joined \subseteq linked /\ run.bare \cap run.joined = {} /\ run.known \subseteq run.joined \cup Rollbacks
  /\ run.status = "RUNNING" => \A t \in run.known : InWindow(t, r) => t \in run.seen \/ Older(t, run.cursor)
  /\ run.status \in Saved \cup {"FETCHING", "SAVING"} => \A t \in run.known : InWindow(t, r) => t \in run.seen
  /\ run.status = "none" => run = IdleRun
  /\ run.status \notin Saved => ReportsOf(r) = {} /\ run.mismatches = 0
  /\ run.status \in Saved =>
       /\ ReportsOf(r) = Reported(r) /\ run.mismatches = Cardinality(Mismatched(r))
       /\ (run.status = "OK") <=> (Mismatched(r) = {})

ReconInv ==
  /\ Dated /\ second \in 0..LastSecond
  /\ \A t \in inserted : stamp[t] # NotYet
  /\ \A t \in ReconTxns : stamp[t] # NotYet => t \in linked \cup Rollbacks
  /\ reconRun \in [Runs -> RunTypes]
  /\ \A r \in Runs : RunIsOnTheWay(r)

LEMMA ReconStarts == ReconInit => ReconInv
  <1> SUFFICES ASSUME ReconInit PROVE ReconInv OBVIOUS
  <1>1. LastSecond \in Nat BY ReconAssumption
  <1>2. Dated BY <1>1, FS_EmptySet DEF Dated, ReconInit, NotYet
  <1>3. IdleRun \in RunTypes BY <1>1 DEF IdleRun, RunTypes, NoCursor
  <1>4. ASSUME NEW r \in Runs PROVE RunIsOnTheWay(r)
    <2>1. reconRun[r] = IdleRun /\ reports = {} BY DEF ReconInit
    <2> QED BY <2>1 DEF RunIsOnTheWay, IdleRun, ReportsOf, Saved
  <1>5. \A t \in ReconTxns : stamp[t] = NotYet BY DEF ReconInit
  <1> QED BY <1>1, <1>2, <1>3, <1>4, <1>5 DEF ReconInv, ReconInit

\* What becomes of a run that a step does not touch.
LEMMA OtherRunsStay ==
  ASSUME ReconInv, NEW r \in Runs, reconRun'[r] = reconRun[r], ReportsOf(r)' = ReportsOf(r),
         inserted \subseteq inserted', linked \subseteq linked', \A t \in inserted : stamp'[t] = stamp[t]
  PROVE  RunIsOnTheWay(r)'
  <1> DEFINE run == reconRun[r]
  <1>1. RunIsOnTheWay(r) BY DEF ReconInv
  <1>2. run.known \subseteq inserted BY <1>1 DEF RunIsOnTheWay
  <1>3. \A t \in run.known : InWindow(t, r)' <=> InWindow(t, r) BY <1>2 DEF InWindow
  <1>4. \A t \in run.known : Older(t, run.cursor)' <=> Older(t, run.cursor) BY <1>2 DEF Older
  <1>5. Mismatched(r)' = Mismatched(r) /\ Reported(r)' = Reported(r) BY DEF Mismatched, Reported, KindOf, AmountRead
  <1> QED BY <1>1, <1>2, <1>3, <1>4, <1>5 DEF RunIsOnTheWay

LEMMA ServerStep ==
  ASSUME ReconInv, SecondPasses \/ \E t \in ReconTxns : StampTxn(t) \/ InsertTxn(t) \/ LinkTxn(t)
  PROVE  ReconInv'
  <1> DEFINE Kept == /\ Dated' /\ second' \in 0..LastSecond /\ inserted \subseteq inserted' /\ linked \subseteq linked'
                     /\ \A t \in inserted : stamp'[t] = stamp[t]
                     /\ \A t \in inserted' : stamp'[t] # NotYet
                     /\ \A t \in ReconTxns : stamp'[t] # NotYet => t \in linked' \cup Rollbacks
  <1>0. LastSecond \in Nat BY ReconAssumption
  <1>1. UNCHANGED <<reconRun, reports>> BY DEF SecondPasses, StampTxn, InsertTxn, LinkTxn
  <1>2. Kept
    <2>1. CASE SecondPasses BY <1>0, <2>1 DEF SecondPasses, ReconInv, Dated
    <2>2. ASSUME NEW t \in ReconTxns, StampTxn(t) PROVE Kept BY <1>0, <2>2 DEF StampTxn, ReconInv, Dated
    <2>3. ASSUME NEW t \in ReconTxns, InsertTxn(t) PROVE Kept
      <3>1. IsFiniteSet(inserted \cup {t}) BY FS_AddElement DEF ReconInv, Dated
      <3> QED BY <2>3, <3>1 DEF InsertTxn, ReconInv, Dated
    <2>4. ASSUME NEW t \in ReconTxns, LinkTxn(t) PROVE Kept BY <2>4 DEF LinkTxn, ReconInv, Dated
    <2> HIDE DEF Kept
    <2> QED BY <2>1, <2>2, <2>3, <2>4
  <1>3. \A r \in Runs : RunIsOnTheWay(r)' BY <1>1, <1>2, OtherRunsStay DEF ReportsOf
  <1> QED BY <1>1, <1>2, <1>3 DEF ReconInv

\* A step of one run that touches no row of another.
LEMMA RunStep ==
  ASSUME ReconInv, NEW r \in Runs, NEW run \in RunTypes, reconRun' = [reconRun EXCEPT ![r] = run],
         \A q \in Runs \ {r} : ReportsOf(q)' = ReportsOf(q),
         UNCHANGED <<second, stamp, inserted, linked>>, RunIsOnTheWay(r)'
  PROVE  ReconInv'
  <1>1. ASSUME NEW q \in Runs, q # r PROVE RunIsOnTheWay(q)'
    <2>1. reconRun'[q] = reconRun[q] BY <1>1 DEF ReconInv
    <2> QED BY <1>1, <2>1, OtherRunsStay
  <1>2. reconRun' \in [Runs -> RunTypes] BY DEF ReconInv
  <1> QED BY <1>1, <1>2 DEF ReconInv, Dated

LEMMA BeginStep ==
  ASSUME ReconInv, NEW r \in Runs, NEW from \in Int, NEW to \in Int, Begin(r, from, to)
  PROVE  ReconInv'
  <1> DEFINE run == [IdleRun EXCEPT !.status = "RUNNING", !.from = from, !.to = to,
                                    !.known = inserted, !.joined = inserted \cap linked]
  <1>1. LastSecond \in Nat BY ReconAssumption
  <1>2. run \in RunTypes
    <2> DEFINE half == [IdleRun EXCEPT !.status = "RUNNING", !.from = from]
    <2>1. IdleRun \in RunTypes BY <1>1 DEF IdleRun, RunTypes, NoCursor
    <2>2. half \in RunTypes BY <2>1 DEF RunTypes
    <2>3. run = [half EXCEPT !.to = to, !.known = inserted, !.joined = inserted \cap linked] OBVIOUS
    <2> HIDE DEF half
    <2>4. inserted \subseteq ReconTxns BY DEF ReconInv, Dated
    <2>5. [half EXCEPT !.to = to, !.known = inserted, !.joined = inserted \cap linked] \in RunTypes BY <2>2, <2>4 DEF RunTypes
    <2> HIDE DEF run
    <2> QED BY <2>3, <2>5
  <1>3. reconRun' = [reconRun EXCEPT ![r] = run] /\ UNCHANGED <<second, stamp, inserted, linked, reports>> BY DEF Begin
  <1>4. /\ run.status = "RUNNING" /\ run.seen = {} /\ run.known = inserted /\ run.mismatches = 0
        /\ run.cursor = NoCursor /\ run.bare = {} /\ run.joined = inserted \cap linked
    BY DEF IdleRun
  <1> HIDE DEF run
  <1>5. reconRun'[r] = run BY <1>3 DEF ReconInv
  <1>6. ReportsOf(r) = {}
    <2>1. reconRun[r].status = "none" BY DEF Begin, IdleRun
    <2> QED BY <2>1 DEF ReconInv, RunIsOnTheWay, Saved
  <1>7. \A t \in inserted : stamp[t] \in -1..LastSecond BY DEF ReconInv, Dated
  <1>8. \A t \in inserted : stamp[t] < LastSecond + 1 BY <1>1, <1>7
  <1>9. \A t \in inserted : Older(t, NoCursor)' BY <1>3, <1>8 DEF Older, NoCursor
  <1>10. ReportsOf(r)' = {} BY <1>3, <1>6 DEF ReportsOf
  <1>a. inserted \subseteq (inserted \cap linked) \cup Rollbacks BY DEF ReconInv, Dated
  <1>11. RunIsOnTheWay(r)' BY <1>3, <1>4, <1>5, <1>9, <1>10, <1>a DEF RunIsOnTheWay, Saved
  <1>12. \A q \in Runs : ReportsOf(q)' = ReportsOf(q) BY <1>3 DEF ReportsOf
  <1> QED BY <1>2, <1>3, <1>11, <1>12, RunStep

\* A page: what of the known rows is not on it and was not seen before is older.
LEMMA PageStep == ASSUME ReconInv, NEW r \in Runs, ReadPage(r) PROVE ReconInv'
  <1> DEFINE old == reconRun[r]
             full == Cardinality(Page(r)) = PageSize
             seen == old.seen \cup Page(r)
             bare == old.bare \cup (Page(r) \ linked)
             cursor == IF full THEN [at |-> stamp[LastOf(Page(r))], txn |-> LastOf(Page(r))] ELSE old.cursor
             status == IF full THEN "RUNNING" ELSE "FETCHING"
             run == [[old EXCEPT !.seen = seen, !.bare = bare, !.cursor = cursor] EXCEPT !.status = status]
  <1>0. Dated /\ old \in RunTypes /\ old.status = "RUNNING" /\ RunIsOnTheWay(r) BY DEF ReconInv, ReadPage
  <1>1. /\ reconRun' = [reconRun EXCEPT ![r] = run]
        /\ UNCHANGED <<second, stamp, inserted, linked, reports>>
    <2>1. reconRun' = [reconRun EXCEPT ![r].seen = seen, ![r].bare = bare, ![r].cursor = cursor, ![r].status = status]
      BY <1>0 DEF ReadPage
    <2> QED BY <2>1 DEF ReadPage, ReconInv
  <1>2. /\ Page(r) \subseteq Remaining(r)
        /\ ~full => Page(r) = Remaining(r)
        /\ full => /\ LastOf(Page(r)) \in Page(r)
                   /\ \A t \in Remaining(r) \ Page(r) : Older(t, cursor)
    BY <1>0, PageTakesNewest
  <1>3. Remaining(r) \subseteq inserted /\ inserted \subseteq ReconTxns BY <1>0 DEF Remaining, Dated
  <1>4. cursor \in [at : Int, txn : Int]
    <2>1. CASE full
      <3>1. LastOf(Page(r)) \in ReconTxns BY <1>2, <1>3, <2>1
      <3>2. LastOf(Page(r)) \in Nat /\ LastSecond \in Nat BY <3>1, ReconAssumption
      <3>3. stamp[LastOf(Page(r))] \in Int BY <1>0, <3>1, <3>2 DEF Dated
      <3> QED BY <2>1, <3>2, <3>3
    <2>2. CASE ~full BY <1>0, <2>2 DEF RunTypes
    <2> QED BY <2>1, <2>2
  <1>5. \A t \in old.known : InWindow(t, r) => t \in seen \/ (full /\ Older(t, cursor))
    <2> SUFFICES ASSUME NEW t \in old.known, InWindow(t, r), t \notin seen PROVE full /\ Older(t, cursor) OBVIOUS
    <2>1. t \in inserted /\ Older(t, old.cursor) BY <1>0 DEF RunIsOnTheWay
    <2>2. t \in Remaining(r) \ Page(r) BY <2>1 DEF Remaining
    <2> QED BY <1>2, <2>2
  <1>6. seen \subseteq inserted BY <1>0, <1>2, <1>3 DEF RunIsOnTheWay
  <1>b. bare \subseteq ReconTxns /\ bare \cap old.joined = {} BY <1>0, <1>2, <1>3 DEF RunIsOnTheWay, RunTypes
  <1> HIDE DEF full, seen, bare, cursor
  <1>7. run \in RunTypes BY <1>0, <1>3, <1>4, <1>6, <1>b DEF RunTypes
  <1>8. /\ run.status = status /\ run.seen = seen /\ run.cursor = cursor /\ run.known = old.known
        /\ run.bare = bare /\ run.joined = old.joined
        /\ run.mismatches = old.mismatches /\ run.from = old.from /\ run.to = old.to
    BY <1>0 DEF RunTypes
  <1> HIDE DEF run
  <1>9. reconRun'[r] = run BY <1>1 DEF ReconInv
  <1>10. /\ ReportsOf(r) = {} /\ old.mismatches = 0 /\ old.known \subseteq inserted
         /\ old.joined \subseteq linked /\ old.known \subseteq old.joined \cup Rollbacks
    BY <1>0 DEF RunIsOnTheWay, Saved
  <1>11. \A t : InWindow(t, r)' <=> InWindow(t, r) BY <1>1, <1>8, <1>9 DEF InWindow
  <1>12. \A q : ReportsOf(q)' = ReportsOf(q) BY <1>1 DEF ReportsOf
  <1>13. RunIsOnTheWay(r)'
    <2>1. reconRun'[r].status \notin Saved \cup {"none", "SAVING"} BY <1>8, <1>9 DEF Saved
    <2>2. reconRun'[r].seen \cup reconRun'[r].known \subseteq inserted' BY <1>1, <1>6, <1>8, <1>9, <1>10
    <2>3. reconRun'[r].status = "RUNNING" =>
            \A t \in reconRun'[r].known : InWindow(t, r)' => t \in reconRun'[r].seen \/ Older(t, reconRun[r].cursor)'
      <3> SUFFICES ASSUME reconRun'[r].status = "RUNNING", NEW t \in reconRun'[r].known, InWindow(t, r)', t \notin reconRun'[r].seen
                   PROVE  Older(t, reconRun[r].cursor)'
        OBVIOUS
      <3>1. Older(t, run.cursor) BY <1>5, <1>8, <1>9, <1>11
      <3> QED BY <1>1, <1>9, <3>1 DEF Older
    <2>4. reconRun'[r].status = "FETCHING" => \A t \in reconRun'[r].known : InWindow(t, r)' => t \in reconRun'[r].seen
      BY <1>5, <1>8, <1>9, <1>11
    <2>5. /\ reconRun'[r].joined \subseteq linked' /\ reconRun'[r].bare \cap reconRun'[r].joined = {}
          /\ reconRun'[r].known \subseteq reconRun'[r].joined \cup Rollbacks
      BY <1>1, <1>8, <1>9, <1>10, <1>b
    <2> QED BY <1>8, <1>9, <1>10, <1>12, <2>1, <2>2, <2>3, <2>4, <2>5 DEF RunIsOnTheWay
  <1> QED BY <1>1, <1>7, <1>12, <1>13, RunStep

\* The source answers or fails, and the run is given up: its rows are not yet written.
LEMMA WaitStep ==
  ASSUME ReconInv, NEW r \in Runs, FetchTheirs(r) \/ SourceFails(r) \/ SaveFails(r)
  PROVE  ReconInv'
  <1> DEFINE old == reconRun[r]
  <1>0. old \in RunTypes /\ RunIsOnTheWay(r) BY DEF ReconInv
  <1>1. old.status \in {"RUNNING", "FETCHING", "SAVING"} /\ UNCHANGED <<second, stamp, inserted, linked, reports>>
    BY DEF FetchTheirs, SourceFails, SaveFails
  <1>2. PICK status \in {"SAVING", "FAILED", "ABANDONED"}, theirs \in SUBSET DOMAIN TheirTime :
          /\ reconRun' = [reconRun EXCEPT ![r] = [old EXCEPT !.status = status, !.theirs = theirs]]
          /\ status = "SAVING" => old.status = "FETCHING"
    <2>1. CASE FetchTheirs(r)
      <3> DEFINE given == {t \in DOMAIN TheirTime : TheirTime[t] >= old.from /\ TheirTime[t] < old.to}
      <3>1. given \in SUBSET DOMAIN TheirTime OBVIOUS
      <3>2. reconRun' = [reconRun EXCEPT ![r].status = "SAVING", ![r].theirs = given] /\ old.status = "FETCHING"
        BY <2>1 DEF FetchTheirs
      <3> HIDE DEF given
      <3>3. reconRun' = [reconRun EXCEPT ![r] = [old EXCEPT !.status = "SAVING", !.theirs = given]]
        BY <1>0, <3>2 DEF ReconInv
      <3> QED BY <3>1, <3>2, <3>3
    <2>2. ASSUME NEW status \in {"FAILED", "ABANDONED"}, reconRun' = [reconRun EXCEPT ![r].status = status]
          PROVE  reconRun' = [reconRun EXCEPT ![r] = [old EXCEPT !.status = status, !.theirs = old.theirs]]
      <3>1. [old EXCEPT !.status = status] = [old EXCEPT !.status = status, !.theirs = old.theirs] BY <1>0 DEF RunTypes
      <3> QED BY <2>2, <3>1
    <2>3. CASE SourceFails(r) \/ SaveFails(r)
      <3>1. old.theirs \in SUBSET DOMAIN TheirTime BY <1>0 DEF RunTypes
      <3>2. PICK status \in {"FAILED", "ABANDONED"} : reconRun' = [reconRun EXCEPT ![r].status = status]
        BY <2>3 DEF SourceFails, SaveFails
      <3> QED BY <2>2, <3>1, <3>2
    <2> QED BY <2>1, <2>3
  <1> DEFINE run == [old EXCEPT !.status = status, !.theirs = theirs]
  <1>3. run \in RunTypes BY <1>0 DEF RunTypes
  <1>4. /\ run.status = status /\ run.seen = old.seen /\ run.known = old.known
        /\ run.bare = old.bare /\ run.joined = old.joined
        /\ run.mismatches = old.mismatches /\ run.from = old.from /\ run.to = old.to
    BY <1>0 DEF RunTypes
  <1> HIDE DEF run
  <1>5. reconRun'[r] = run BY <1>2 DEF ReconInv, run
  <1>6. /\ ReportsOf(r) = {} /\ old.mismatches = 0 /\ old.seen \cup old.known \subseteq inserted
        /\ old.joined \subseteq linked /\ old.bare \cap old.joined = {} /\ old.known \subseteq old.joined \cup Rollbacks
        /\ status = "SAVING" => \A t \in old.known : InWindow(t, r) => t \in old.seen
    BY <1>0, <1>1, <1>2 DEF RunIsOnTheWay, Saved
  <1>7. \A t : InWindow(t, r)' <=> InWindow(t, r) BY <1>1, <1>4, <1>5 DEF InWindow
  <1>8. \A q : ReportsOf(q)' = ReportsOf(q) BY <1>1 DEF ReportsOf
  <1>9. RunIsOnTheWay(r)' BY <1>1, <1>4, <1>5, <1>6, <1>7, <1>8 DEF RunIsOnTheWay, Saved
  <1> QED BY <1>1, <1>2, <1>3, <1>8, <1>9, RunStep DEF run

\* The verdict and its rows are written together, from what the run holds.
LEMMA VerdictStep == ASSUME ReconInv, NEW r \in Runs, SaveVerdict(r) PROVE ReconInv'
  <1> DEFINE old == reconRun[r]
             howMany == Cardinality(old.seen \cup old.theirs)
             mismatches == Cardinality(Mismatched(r))
             status == IF Mismatched(r) = {} THEN "OK" ELSE "MISMATCHES"
             run == [old EXCEPT !.checked = howMany, !.mismatches = mismatches, !.status = status]
  <1>0. old \in RunTypes /\ RunIsOnTheWay(r) /\ old.status = "SAVING" BY DEF ReconInv, SaveVerdict
  <1>1. /\ reconRun' = [reconRun EXCEPT ![r] = run] /\ reports' = reports \cup Reported(r)
        /\ UNCHANGED <<second, stamp, inserted, linked>>
    BY DEF SaveVerdict, ReconInv
  <1>2. IsFiniteSet(old.seen \cup old.theirs)
    <2>1. IsFiniteSet(old.seen) BY <1>0, FS_Subset DEF RunIsOnTheWay, ReconInv, Dated
    <2>2. old.theirs \subseteq DOMAIN TheirTime BY <1>0 DEF RunTypes
    <2>3. IsFiniteSet(DOMAIN TheirTime) BY ReconAssumption
    <2>4. IsFiniteSet(old.theirs) BY <2>2, <2>3, FS_Subset
    <2> HIDE DEF old
    <2> QED BY <2>1, <2>4, FS_Union
  <1>3. howMany \in Int /\ mismatches \in Int
    <2>1. Mismatched(r) \subseteq old.seen \cup old.theirs BY DEF Mismatched
    <2>2. IsFiniteSet(Mismatched(r)) BY <1>2, <2>1, FS_Subset
    <2> QED BY <1>2, <2>2, FS_CardinalityType
  <1> HIDE DEF howMany, mismatches
  <1>4. run \in RunTypes BY <1>0, <1>3 DEF RunTypes
  <1>5. /\ run.status = status /\ run.seen = old.seen /\ run.known = old.known /\ run.theirs = old.theirs
        /\ run.bare = old.bare /\ run.joined = old.joined
        /\ run.mismatches = mismatches /\ run.from = old.from /\ run.to = old.to
    BY <1>0 DEF RunTypes
  <1> HIDE DEF run
  <1>6. reconRun'[r] = run BY <1>1 DEF ReconInv
  <1>7. /\ ReportsOf(r) = {} /\ old.seen \cup old.known \subseteq inserted
        /\ old.joined \subseteq linked /\ old.bare \cap old.joined = {} /\ old.known \subseteq old.joined \cup Rollbacks
        /\ \A t \in old.known : InWindow(t, r) => t \in old.seen
    BY <1>0 DEF RunIsOnTheWay, Saved
  <1>8. \A t : InWindow(t, r)' <=> InWindow(t, r) BY <1>1, <1>5, <1>6 DEF InWindow
  <1>9. Mismatched(r)' = Mismatched(r) /\ Reported(r)' = Reported(r)
    BY <1>5, <1>6 DEF Mismatched, Reported, KindOf, AmountRead
  <1>10. ReportsOf(r)' = Reported(r) /\ \A q \in Runs \ {r} : ReportsOf(q)' = ReportsOf(q)
    <2>1. \A m \in Reported(r) : m.run = r BY DEF Reported
    <2> QED BY <1>1, <1>7, <2>1 DEF ReportsOf
  <1>11. RunIsOnTheWay(r)'
    <2>1. reconRun'[r].status = "OK" <=> Mismatched(r) = {} BY <1>5, <1>6
    <2>2. reconRun'[r].status \in Saved BY <1>5, <1>6 DEF Saved
    <2>3. reconRun'[r].seen \cup reconRun'[r].known \subseteq inserted' BY <1>1, <1>5, <1>6, <1>7
    <2>4. \A t \in reconRun'[r].known : InWindow(t, r)' => t \in reconRun'[r].seen BY <1>5, <1>6, <1>7, <1>8
    <2>5. reconRun'[r].mismatches = Cardinality(Mismatched(r)') BY <1>5, <1>6, <1>9 DEF mismatches
    <2>6. /\ reconRun'[r].joined \subseteq linked' /\ reconRun'[r].bare \cap reconRun'[r].joined = {}
          /\ reconRun'[r].known \subseteq reconRun'[r].joined \cup Rollbacks
      BY <1>1, <1>5, <1>6, <1>7
    <2> QED BY <1>9, <1>10, <2>1, <2>2, <2>3, <2>4, <2>5, <2>6 DEF RunIsOnTheWay, Saved
  <1> QED BY <1>1, <1>4, <1>10, <1>11, RunStep

LEMMA ReconKept == ReconInv /\ [ReconNext]_reconVars => ReconInv'
  <1> SUFFICES ASSUME ReconInv, [ReconNext]_reconVars PROVE ReconInv' OBVIOUS
  <1>1. CASE UNCHANGED reconVars
    <2>1. \A r \in Runs : RunIsOnTheWay(r)' BY <1>1, OtherRunsStay DEF reconVars, ReportsOf
    <2> QED BY <1>1, <2>1 DEF reconVars, ReconInv, Dated
  <1>2. CASE SecondPasses \/ \E t \in ReconTxns : StampTxn(t) \/ InsertTxn(t) \/ LinkTxn(t) BY <1>2, ServerStep
  <1>3. ASSUME NEW r \in Runs, Sweep(r) \/ RunOnDemand(r) PROVE ReconInv'
    <2>1. LastSecond \in Nat /\ DaySeconds \in Nat /\ second \in Int BY ReconAssumption DEF ReconInv
    <2>2. PICK from \in Int, to \in Int : Begin(r, from, to)
      <3>1. CASE Sweep(r) BY <2>1, <3>1 DEF Sweep
      <3>2. CASE RunOnDemand(r) BY <2>1, <3>2 DEF RunOnDemand
      <3> QED BY <1>3, <3>1, <3>2
    <2> QED BY <2>2, BeginStep
  <1> QED BY <1>1, <1>2, <1>3, PageStep, WaitStep, VerdictStep DEF ReconNext

\* What the verdict of a run says of one transaction it has read.
LEMMA VerdictOnOne ==
  ASSUME NEW r \in Runs, NEW t \in ReconTxns, t \in reconRun[r].seen, ReportsOf(r) = Reported(r),
         reconRun[r].theirs \subseteq DOMAIN TheirTime
  PROVE  {m.kind : m \in {n \in ReportsOf(r) : n.txn = t}} = Differences(t, AmountRead(t, reconRun[r]), reconRun[r].theirs)
  <1> DEFINE amount == AmountRead(t, reconRun[r])
             kind == KindOf(t, reconRun[r])
             kinds == {m.kind : m \in {n \in ReportsOf(r) : n.txn = t}}
             ours == [amount |-> amount, status |-> OurSide[t].status]
  <1>1. kinds = IF kind = "match" THEN {} ELSE {kind}
    <2>1. \A m \in ReportsOf(r) : m.txn = t => m.kind = kind /\ kind # "match" BY DEF Reported, Mismatched
    <2>2. kind # "match" => [run |-> r, txn |-> t, kind |-> kind] \in ReportsOf(r) BY DEF Reported, Mismatched
    <2> HIDE DEF kind
    <2> QED BY <2>1, <2>2
  <1>2. t \in reconRun[r].theirs =>
          ((ours = TheirSide[t]) <=> (amount = TheirSide[t].amount /\ OurSide[t].status = TheirSide[t].status))
    <2> SUFFICES ASSUME t \in reconRun[r].theirs
                 PROVE  (ours = TheirSide[t]) <=> (amount = TheirSide[t].amount /\ OurSide[t].status = TheirSide[t].status)
      OBVIOUS
    <2>1. TheirSide[t] \in [amount : Int, status : STRING] BY ReconAssumption
    <2> HIDE DEF amount
    <2>2. ours.amount = amount /\ ours.status = OurSide[t].status OBVIOUS
    <2> QED BY <2>1, <2>2
  <1>3. CASE t \notin reconRun[r].theirs BY <1>1, <1>3 DEF KindOf, Differences
  <1>4. CASE t \in reconRun[r].theirs
    <2>1. kind = IF amount # TheirSide[t].amount THEN "amount_mismatch"
                 ELSE IF OurSide[t].status # TheirSide[t].status THEN "status_mismatch" ELSE "match"
      BY <1>4 DEF KindOf
    <2>2. Differences(t, amount, reconRun[r].theirs) =
            IF ours = TheirSide[t] THEN {} ELSE IF amount = TheirSide[t].amount THEN {"status_mismatch"} ELSE {"amount_mismatch"}
      BY <1>4 DEF Differences
    <2> HIDE DEF kind, kinds, amount, ours
    <2> QED BY <1>1, <1>2, <1>4, <2>1, <2>2 DEF kinds, amount
  <1> QED BY <1>3, <1>4

LEMMA ReconImplies == ReconInv => ReconciliationIsRight
  <1> SUFFICES ASSUME ReconInv PROVE ReconciliationIsRight OBVIOUS
  <1>0. \A r \in Runs : /\ RunIsOnTheWay(r) /\ reconRun[r] \in RunTypes
                        /\ reconRun[r].known \subseteq ReconTxns /\ reconRun[r].theirs \subseteq DOMAIN TheirTime
    BY DEF ReconInv, RunTypes
  <1>1. VerdictIsTrue
    <2> SUFFICES ASSUME NEW r \in Runs, reconRun[r].status \in {"OK", "MISMATCHES"},
                        NEW t \in reconRun[r].known, InWindow(t, r)
                 PROVE  LET kinds == {m.kind : m \in {n \in ReportsOf(r) : n.txn = t}}
                            theirs == reconRun[r].theirs
                        IN  /\ t \in reconRun[r].seen
                            /\ \/ kinds = Differences(t, OurSide[t].amount, theirs)
                               \/ kinds = Differences(t, 0, theirs) /\ t \in Rollbacks \ reconRun[r].joined
      BY DEF VerdictIsTrue
    <2>1. /\ t \in reconRun[r].seen /\ ReportsOf(r) = Reported(r) /\ t \in ReconTxns
          /\ reconRun[r].bare \cap reconRun[r].joined = {} /\ t \in reconRun[r].joined \cup Rollbacks
      BY <1>0 DEF RunIsOnTheWay, Saved
    <2>2. {m.kind : m \in {n \in ReportsOf(r) : n.txn = t}} = Differences(t, AmountRead(t, reconRun[r]), reconRun[r].theirs)
      BY <1>0, <2>1, VerdictOnOne
    <2>3. CASE t \in reconRun[r].bare BY <2>1, <2>2, <2>3 DEF AmountRead
    <2>4. CASE t \notin reconRun[r].bare BY <2>1, <2>2, <2>4 DEF AmountRead
    <2> QED BY <2>3, <2>4
  <1>2. ListedRunsAreWhole
    <2> SUFFICES ASSUME NEW r \in Runs, Listed(r)
                 PROVE  /\ Cardinality(ReportsOf(r)) = reconRun[r].mismatches
                        /\ (reconRun[r].status = "OK") <=> (reconRun[r].mismatches = 0 /\ reconRun[r].status # "FAILED")
                        /\ reconRun[r].status = "FAILED" => ReportsOf(r) = {}
                        /\ \A m \in ReportsOf(r) : m.kind = "missing_on_game" => ~ (m.txn \in reconRun[r].known /\ InWindow(m.txn, r))
      BY DEF ListedRunsAreWhole
    <2>1. CASE reconRun[r].status = "FAILED"
      <3>1. ReportsOf(r) = {} /\ reconRun[r].mismatches = 0 BY <1>0, <2>1 DEF RunIsOnTheWay, Saved
      <3> QED BY <2>1, <3>1, FS_EmptySet
    <2>2. CASE reconRun[r].status \in Saved
      <3>1. /\ ReportsOf(r) = Reported(r) /\ reconRun[r].mismatches = Cardinality(Mismatched(r))
            /\ (reconRun[r].status = "OK") <=> (Mismatched(r) = {})
            /\ \A t \in reconRun[r].known : InWindow(t, r) => t \in reconRun[r].seen
        BY <1>0, <2>2 DEF RunIsOnTheWay, Saved
      <3>2. IsFiniteSet(Mismatched(r))
        <4>1. IsFiniteSet(reconRun[r].seen) BY <1>0, FS_Subset DEF RunIsOnTheWay, ReconInv, Dated
        <4>2. IsFiniteSet(DOMAIN TheirTime) BY ReconAssumption
        <4>3. IsFiniteSet(reconRun[r].theirs) BY <1>0, <4>2, FS_Subset
        <4>4. Mismatched(r) \subseteq reconRun[r].seen \cup reconRun[r].theirs BY DEF Mismatched
        <4>5. IsFiniteSet(reconRun[r].seen \cup reconRun[r].theirs) BY <4>1, <4>3, FS_Union
        <4> QED BY <4>4, <4>5, FS_Subset
      <3>3. Cardinality(Reported(r)) = Cardinality(Mismatched(r))
        <4> DEFINE f == [t \in Mismatched(r) |-> [run |-> r, txn |-> t, kind |-> KindOf(t, reconRun[r])]]
        <4>1. \A x, y \in Mismatched(r) : f[x] = f[y] => x = y OBVIOUS
        <4>2. {f[x] : x \in Mismatched(r)} = Reported(r) BY DEF Reported
        <4>3. f = [t \in Mismatched(r) |-> f[t]] OBVIOUS
        <4> HIDE DEF f
        <4> QED BY <3>2, <4>1, <4>2, <4>3, ImageSize
      <3>4. (Cardinality(Mismatched(r)) = 0) <=> (Mismatched(r) = {}) BY <3>2, FS_EmptySet
      <3>5. \A m \in Reported(r) : m.kind = "missing_on_game" => m.txn \notin reconRun[r].seen
        BY DEF Reported, KindOf
      <3> QED BY <2>2, <3>1, <3>3, <3>4, <3>5 DEF Saved
    <2> QED BY <2>1, <2>2 DEF Listed, Saved
  <1> QED BY <1>1, <1>2 DEF ReconciliationIsRight

\* What a finished run reports is true of all that was recorded in its window before it
\* began, however many pages it read and whatever was recorded meanwhile, except of a
\* rollback whose id was not yet in its bet's row, which may be judged as one of nothing;
\* and what is listed of it is whole (PgReconciler.run, listIdempotencyFiltered).
THEOREM ReconciliationRight == ReconSpec => []ReconciliationIsRight
  <1> QED BY ReconStarts, ReconKept, ReconImplies, PTL DEF ReconSpec

-----------------------------------------------------------------------------
(* Sums over finite sets.  The library's sum picks the elements in an order  *)
(* nobody knows; what follows says that the order does not matter.           *)

Chosen(s) == CHOOSE x \in s : TRUE
Rest(s) == s \ {Chosen(s)}
SumsUp(it, f, S) == it = [s \in SUBSET S |-> IF s = {} THEN 0 ELSE f[Chosen(s)] + it[Rest(s)]]

LEMMA RestIsSmaller ==
  ASSUME NEW s, IsFiniteSet(s), s # {}
  PROVE  /\ Chosen(s) \in s /\ Rest(s) \subseteq s /\ IsFiniteSet(Rest(s)) /\ Chosen(s) \notin Rest(s)
         /\ Cardinality(s) \in Nat /\ Cardinality(Rest(s)) \in Nat /\ Cardinality(Rest(s)) = Cardinality(s) - 1
  <1>1. Chosen(s) \in s BY DEF Chosen
  <1>2. IsFiniteSet(Rest(s)) /\ Cardinality(Rest(s)) = Cardinality(s) - 1 BY <1>1, FS_RemoveElement DEF Rest
  <1>3. Rest(s) \subseteq s /\ Chosen(s) \notin Rest(s) BY DEF Rest
  <1> QED BY <1>1, <1>2, <1>3, FS_CardinalityType

\* What holds of a set when it holds of it without any one of its elements holds of every finite set.
LEMMA SetInduction ==
  ASSUME NEW S, IsFiniteSet(S), NEW Good,
         \A s \in SUBSET S : (\A x \in s : s \ {x} \in Good) => s \in Good
  PROVE  S \in Good
  <1> DEFINE bad == {Cardinality(s) : s \in (SUBSET S) \ Good}
  <1>1. \A s \in SUBSET S : IsFiniteSet(s) BY FS_Subset
  <1>2. bad \subseteq Nat BY <1>1, FS_CardinalityType
  <1>3. bad = {}
    <2> SUFFICES ASSUME bad # {} PROVE FALSE OBVIOUS
    <2>1. PICK n \in bad : \A m \in bad : n <= m
      <3> HIDE DEF bad
      <3> QED BY <1>2, LeastOf
    <2>2. PICK s \in (SUBSET S) \ Good : n = Cardinality(s) BY <2>1
    <2>3. PICK x \in s : s \ {x} \notin Good BY <2>2
    <2>4. Cardinality(s \ {x}) = Cardinality(s) - 1 /\ Cardinality(s) \in Nat
      BY <1>1, FS_RemoveElement, FS_CardinalityType
    <2>5. s \ {x} \in (SUBSET S) \ Good BY <2>3
    <2>6. Cardinality(s \ {x}) \in bad BY <2>5
    <2>7. n <= Cardinality(s \ {x}) BY <2>1, <2>6
    <2> HIDE DEF bad
    <2> QED BY <2>2, <2>4, <2>7
  <1>4. S \in SUBSET S OBVIOUS
  <1> QED BY <1>3, <1>4

LEMMA SubsetInduction ==
  ASSUME NEW S, IsFiniteSet(S), NEW Good,
         \A s \in SUBSET S : (\A t \in SUBSET s : t # s => t \in Good) => s \in Good
  PROVE  S \in Good
  <1> DEFINE good == {s \in SUBSET S : \A t \in SUBSET s : t \in Good}
  <1>1. ASSUME NEW s \in SUBSET S, \A x \in s : s \ {x} \in good PROVE s \in good
    <2>1. ASSUME NEW t \in SUBSET s, t # s PROVE t \in Good
      <3>1. PICK x \in s : x \notin t BY <2>1
      <3>2. t \in SUBSET (s \ {x}) BY <3>1
      <3> QED BY <1>1, <3>2
    <2> QED BY <2>1
  <1> HIDE DEF good
  <1>2. S \in good BY <1>1, SetInduction
  <1> QED BY <1>2 DEF good

LEMMA SumExists == ASSUME NEW S, IsFiniteSet(S), NEW f PROVE \E it : SumsUp(it, f, S)
  <1> DEFINE upTo(n) == {s \in SUBSET S : Cardinality(s) <= n}
             fits(n, it) == it = [s \in upTo(n) |-> IF s = {} THEN 0 ELSE f[Chosen(s)] + it[Rest(s)]]
             bad == {n \in Nat : ~\E it : fits(n, it)}
  <1>0. \A s \in SUBSET S : IsFiniteSet(s) /\ Cardinality(s) \in Nat BY FS_Subset, FS_CardinalityType
  <1>1. 0 \notin bad
    <2> DEFINE it == [s \in upTo(0) |-> 0]
    <2>1. \A s \in upTo(0) : s = {} BY <1>0, FS_EmptySet
    <2>2. fits(0, it) BY <2>1
    <2> QED BY <2>2
  <1>2. ASSUME NEW n \in Nat, n \notin bad PROVE n + 1 \notin bad
    <2>1. PICK it : fits(n, it) BY <1>2
    <2> DEFINE next == [s \in upTo(n + 1) |-> IF s = {} THEN 0 ELSE f[Chosen(s)] + it[Rest(s)]]
    <2>2. \A s \in upTo(n) : s \in upTo(n + 1) BY <1>0
    <2>3. \A s \in upTo(n) : next[s] = it[s] BY <2>1, <2>2
    <2>4. \A s \in upTo(n + 1) : s # {} => Rest(s) \in upTo(n)
      <3> SUFFICES ASSUME NEW s \in upTo(n + 1), s # {} PROVE Rest(s) \in upTo(n) OBVIOUS
      <3>1. Rest(s) \subseteq s /\ Cardinality(Rest(s)) = Cardinality(s) - 1 /\ Cardinality(s) \in Nat
        BY <1>0, RestIsSmaller
      <3> QED BY <3>1
    <2>5. fits(n + 1, next)
      <3> HIDE DEF upTo
      <3>1. \A s \in upTo(n + 1) : s # {} => next[Rest(s)] = it[Rest(s)] BY <2>3, <2>4
      <3> QED BY <3>1
    <2> HIDE DEF next, fits
    <2> QED BY <2>5
  <1>3. bad = {}
    <2> SUFFICES ASSUME bad # {} PROVE FALSE OBVIOUS
    <2>1. bad \subseteq Nat OBVIOUS
    <2> HIDE DEF bad
    <2>2. PICK n \in bad : \A m \in bad : n <= m BY <2>1, LeastOf
    <2>3. n \in Nat /\ n # 0 BY <1>1, <2>1, <2>2
    <2>4. n - 1 \in Nat /\ n - 1 \notin bad BY <2>2, <2>3
    <2>5. (n - 1) + 1 \notin bad BY <1>2, <2>4
    <2>6. (n - 1) + 1 = n BY <2>3
    <2> QED BY <2>2, <2>5, <2>6
  <1>4. PICK n \in Nat : n = Cardinality(S) BY FS_CardinalityType
  <1>5. upTo(n) = SUBSET S
    <2>1. \A s \in SUBSET S : Cardinality(s) <= n BY <1>4, FS_Subset
    <2> QED BY <2>1
  <1>6. PICK it : fits(n, it) BY <1>3
  <1>7. SumsUp(it, f, S)
    <2> HIDE DEF upTo
    <2> QED BY <1>5, <1>6 DEF SumsUp
  <1> QED BY <1>7

\* The library's sum is the end of such a summation, and of any other.
LEMMA SumIsTheSummation ==
  ASSUME NEW S, IsFiniteSet(S), NEW f
  PROVE  \E it : SumsUp(it, f, S) /\ SumFunctionOnSet(f, S) = it[S]
  <1>1. SumFunctionOnSet(f, S) = (CHOOSE it : SumsUp(it, f, S))[S]
    BY DEF SumFunctionOnSet, FoldFunctionOnSet, MapThenFoldSet, SumsUp, Chosen, Rest
  <1>2. SumsUp(CHOOSE it : SumsUp(it, f, S), f, S) BY SumExists
  <1> QED BY <1>1, <1>2

LEMMA SumsAgree ==
  ASSUME NEW S, IsFiniteSet(S), NEW T, S \subseteq T, NEW f, NEW g, \A x \in S : f[x] = g[x],
         NEW it, SumsUp(it, f, S), NEW other, SumsUp(other, g, T)
  PROVE  it[S] = other[S]
  <1> DEFINE good == {s \in SUBSET S : it[s] = other[s]}
  <1>1. ASSUME NEW s \in SUBSET S, \A x \in s : s \ {x} \in good PROVE s \in good
    <2>1. IsFiniteSet(s) /\ s \in SUBSET T BY FS_Subset
    <2>2. CASE s = {} BY <2>1, <2>2 DEF SumsUp
    <2>3. CASE s # {}
      <3>1. Chosen(s) \in s BY <2>1, <2>3, RestIsSmaller
      <3>2. it[s] = f[Chosen(s)] + it[Rest(s)] /\ other[s] = g[Chosen(s)] + other[Rest(s)]
        BY <2>1, <2>3 DEF SumsUp
      <3>3. it[Rest(s)] = other[Rest(s)] BY <1>1, <3>1 DEF Rest
      <3> QED BY <3>1, <3>2, <3>3
    <2> QED BY <2>2, <2>3
  <1> HIDE DEF good
  <1>2. S \in good BY <1>1, SetInduction
  <1> QED BY <1>2 DEF good

\* Only the values on the set matter.
LEMMA SumSame ==
  ASSUME NEW S, IsFiniteSet(S), NEW f, NEW g, \A x \in S : f[x] = g[x]
  PROVE  SumFunctionOnSet(f, S) = SumFunctionOnSet(g, S)
  <1>1. PICK it : SumsUp(it, f, S) /\ SumFunctionOnSet(f, S) = it[S] BY SumIsTheSummation
  <1>2. PICK other : SumsUp(other, g, S) /\ SumFunctionOnSet(g, S) = other[S] BY SumIsTheSummation
  <1> QED BY <1>1, <1>2, SumsAgree

LEMMA SummationIsSum ==
  ASSUME NEW S, IsFiniteSet(S), NEW f, NEW it, SumsUp(it, f, S)
  PROVE  it[S] = SumFunctionOnSet(f, S)
  <1>1. PICK other : SumsUp(other, f, S) /\ SumFunctionOnSet(f, S) = other[S] BY SumIsTheSummation
  <1> QED BY <1>1, SumsAgree

LEMMA SumSteps ==
  ASSUME NEW S, IsFiniteSet(S), NEW f
  PROVE  /\ S = {} => SumFunctionOnSet(f, S) = 0
         /\ S # {} => SumFunctionOnSet(f, S) = f[Chosen(S)] + SumFunctionOnSet(f, Rest(S))
  <1>1. PICK it : SumsUp(it, f, S) /\ SumFunctionOnSet(f, S) = it[S] BY SumIsTheSummation
  <1>2. S = {} => it[S] = 0 BY <1>1 DEF SumsUp
  <1>3. ASSUME S # {} PROVE it[S] = f[Chosen(S)] + SumFunctionOnSet(f, Rest(S))
    <2>1. it[S] = f[Chosen(S)] + it[Rest(S)] BY <1>1, <1>3 DEF SumsUp
    <2>2. Rest(S) \subseteq S /\ IsFiniteSet(Rest(S)) BY <1>3, RestIsSmaller
    <2>3. PICK other : SumsUp(other, f, Rest(S)) /\ SumFunctionOnSet(f, Rest(S)) = other[Rest(S)]
      BY <2>2, SumIsTheSummation
    <2>4. other[Rest(S)] = it[Rest(S)] BY <1>1, <2>2, <2>3, SumsAgree
    <2> QED BY <2>1, <2>3, <2>4
  <1> QED BY <1>1, <1>2, <1>3

LEMMA SumType ==
  ASSUME NEW S, IsFiniteSet(S), NEW f, \A x \in S : f[x] \in Int
  PROVE  SumFunctionOnSet(f, S) \in Int
  <1> DEFINE good == {s \in SUBSET S : SumFunctionOnSet(f, s) \in Int}
  <1>1. ASSUME NEW s \in SUBSET S, \A x \in s : s \ {x} \in good PROVE s \in good
    <2>1. IsFiniteSet(s) BY FS_Subset
    <2>2. CASE s = {} BY <2>1, <2>2, SumSteps
    <2>3. CASE s # {}
      <3>1. Chosen(s) \in s BY <2>1, <2>3, RestIsSmaller
      <3>2. SumFunctionOnSet(f, Rest(s)) \in Int BY <1>1, <3>1 DEF Rest
      <3>3. SumFunctionOnSet(f, s) = f[Chosen(s)] + SumFunctionOnSet(f, Rest(s)) BY <2>1, <2>3, SumSteps
      <3> QED BY <3>1, <3>2, <3>3
    <2> QED BY <2>2, <2>3
  <1> HIDE DEF good
  <1>2. S \in good BY <1>1, SetInduction
  <1> QED BY <1>2 DEF good

\* Any element may come first.
LEMMA SumTakes ==
  ASSUME NEW S, IsFiniteSet(S), NEW f, \A x \in S : f[x] \in Int, NEW y \in S
  PROVE  SumFunctionOnSet(f, S) = f[y] + SumFunctionOnSet(f, S \ {y})
  <1> DEFINE sum(s) == SumFunctionOnSet(f, s)
             good == {s \in SUBSET S : \A x \in s : sum(s) = f[x] + sum(s \ {x})}
  <1>1. \A s \in SUBSET S : sum(s) \in Int
    <2> SUFFICES ASSUME NEW s \in SUBSET S PROVE SumFunctionOnSet(f, s) \in Int OBVIOUS
    <2> QED BY FS_Subset, SumType
  <1>2. \A s \in SUBSET S : s # {} => Chosen(s) \in s /\ sum(s) = f[Chosen(s)] + sum(s \ {Chosen(s)})
    BY FS_Subset, SumSteps, RestIsSmaller DEF Rest
  <1> HIDE DEF sum
  <1>3. ASSUME NEW s \in SUBSET S, \A x \in s : s \ {x} \in good PROVE s \in good
    <2> SUFFICES ASSUME NEW x \in s PROVE sum(s) = f[x] + sum(s \ {x}) OBVIOUS
    <2> DEFINE c == Chosen(s)
    <2>1. c \in s /\ sum(s) = f[c] + sum(s \ {c}) BY <1>2
    <2> HIDE DEF c
    <2>2. CASE x = c BY <2>1, <2>2
    <2>3. CASE x # c
      <3> DEFINE rest == (s \ {c}) \ {x}
      <3>1. sum(s \ {c}) = f[x] + sum(rest) BY <1>3, <2>1, <2>3
      <3>2. sum(s \ {x}) = f[c] + sum((s \ {x}) \ {c}) BY <1>3, <2>1, <2>3
      <3>3. (s \ {x}) \ {c} = rest /\ rest \in SUBSET S OBVIOUS
      <3>4. sum(rest) \in Int /\ f[x] \in Int /\ f[c] \in Int BY <1>1, <2>1, <3>3
      <3>5. sum(s \ {x}) = f[c] + sum(rest) BY <3>2, <3>3
      <3>6. sum(s) = f[c] + (f[x] + sum(rest)) BY <2>1, <3>1
      <3> HIDE DEF rest
      <3> QED BY <3>4, <3>5, <3>6
    <2> QED BY <2>2, <2>3
  <1> HIDE DEF good
  <1>4. S \in good BY <1>3, SetInduction
  <1> QED BY <1>4 DEF good, sum

\* What a sum is once its set is taken apart: it can be used for any kind of sum.
LEMMA SumAdds ==
  ASSUME NEW S, IsFiniteSet(S), NEW y, y \notin S, NEW f, \A x \in S \cup {y} : f[x] \in Int
  PROVE  SumFunctionOnSet(f, S \cup {y}) = SumFunctionOnSet(f, S) + f[y]
  <1> DEFINE all == S \cup {y}
  <1>1. IsFiniteSet(all) /\ y \in all /\ \A x \in all : f[x] \in Int BY FS_AddElement
  <1>2. all \ {y} = S OBVIOUS
  <1>3. SumFunctionOnSet(f, S) \in Int /\ f[y] \in Int BY SumType
  <1> HIDE DEF all
  <1>4. SumFunctionOnSet(f, all) = f[y] + SumFunctionOnSet(f, S) BY <1>1, <1>2, SumTakes
  <1>5. SumFunctionOnSet(f, all) = SumFunctionOnSet(f, S) + f[y] BY <1>3, <1>4
  <1> QED BY <1>5 DEF all

LEMMA SumFacts ==
  ASSUME NEW S, IsFiniteSet(S), NEW f, \A x \in S : f[x] \in Int
  PROVE  /\ SumFunctionOnSet(f, {}) = 0
         /\ \A s \in SUBSET S :
              /\ IsFiniteSet(s) /\ SumFunctionOnSet(f, s) \in Int
              /\ \A x \in s : SumFunctionOnSet(f, s) = f[x] + SumFunctionOnSet(f, s \ {x})
  <1>1. SumFunctionOnSet(f, {}) = 0 BY FS_EmptySet, SumSteps
  <1>2. ASSUME NEW s \in SUBSET S
        PROVE  /\ IsFiniteSet(s) /\ SumFunctionOnSet(f, s) \in Int
               /\ \A x \in s : SumFunctionOnSet(f, s) = f[x] + SumFunctionOnSet(f, s \ {x})
    <2>1. IsFiniteSet(s) /\ \A x \in s : f[x] \in Int BY FS_Subset
    <2> QED BY <2>1, SumType, SumTakes
  <1> QED BY <1>1, <1>2

\* A weighted sum of two sums.
LEMMA SumPlus ==
  ASSUME NEW S, IsFiniteSet(S), NEW f, NEW g, NEW h, NEW a \in Int, NEW b \in Int,
         \A x \in S : f[x] \in Int /\ g[x] \in Int /\ h[x] = a * f[x] + b * g[x]
  PROVE  SumFunctionOnSet(h, S) = a * SumFunctionOnSet(f, S) + b * SumFunctionOnSet(g, S)
  <1> DEFINE F(s) == SumFunctionOnSet(f, s)
             G(s) == SumFunctionOnSet(g, s)
             H(s) == SumFunctionOnSet(h, s)
             good == {s \in SUBSET S : H(s) = a * F(s) + b * G(s)}
  <1>0. \A x \in S : h[x] \in Int OBVIOUS
  <1>1. /\ F({}) = 0 /\ G({}) = 0 /\ H({}) = 0
        /\ \A s \in SUBSET S : /\ F(s) \in Int /\ G(s) \in Int
                               /\ \A x \in s : /\ F(s) = f[x] + F(s \ {x}) /\ G(s) = g[x] + G(s \ {x})
                                               /\ H(s) = h[x] + H(s \ {x})
    BY <1>0, SumFacts
  <1> HIDE DEF F, G, H
  <1>2. ASSUME NEW s \in SUBSET S, \A x \in s : s \ {x} \in good PROVE s \in good
    <2>1. CASE s = {} BY <1>1, <2>1
    <2>2. ASSUME NEW x \in s PROVE H(s) = a * F(s) + b * G(s)
      <3> DEFINE r == s \ {x}
      <3>1. H(r) = a * F(r) + b * G(r) BY <1>2, <2>2
      <3>2. H(s) = h[x] + H(r) /\ F(s) = f[x] + F(r) /\ G(s) = g[x] + G(r) BY <1>1, <2>2
      <3>3. F(r) \in Int /\ G(r) \in Int /\ f[x] \in Int /\ g[x] \in Int /\ h[x] = a * f[x] + b * g[x]
        BY <1>1, <2>2
      <3> HIDE DEF r
      <3> QED BY <3>1, <3>2, <3>3
    <2> QED BY <2>1, <2>2
  <1> HIDE DEF good
  <1>3. S \in good BY <1>2, SetInduction
  <1> QED BY <1>3 DEF good, F, G, H

LEMMA SumConst ==
  ASSUME NEW S, IsFiniteSet(S), NEW f, NEW c \in Int, \A x \in S : f[x] = c
  PROVE  SumFunctionOnSet(f, S) = c * Cardinality(S)
  <1> DEFINE F(s) == SumFunctionOnSet(f, s)
             good == {s \in SUBSET S : F(s) = c * Cardinality(s)}
  <1>1. F({}) = 0 /\ \A s \in SUBSET S : IsFiniteSet(s) /\ \A x \in s : F(s) = f[x] + F(s \ {x}) BY SumFacts
  <1> HIDE DEF F
  <1>2. ASSUME NEW s \in SUBSET S, \A x \in s : s \ {x} \in good PROVE s \in good
    <2>1. CASE s = {} BY <1>1, <2>1, FS_EmptySet
    <2>2. ASSUME NEW x \in s PROVE F(s) = c * Cardinality(s)
      <3>1. F(s \ {x}) = c * Cardinality(s \ {x}) BY <1>2, <2>2
      <3>2. Cardinality(s) \in Nat /\ Cardinality(s \ {x}) = Cardinality(s) - 1
        BY <1>1, <2>2, FS_RemoveElement, FS_CardinalityType
      <3>3. F(s) = c + F(s \ {x}) BY <1>1, <2>2
      <3>4. F(s) = c + c * (Cardinality(s) - 1) BY <3>1, <3>2, <3>3
      <3> QED BY <3>2, <3>4
    <2> QED BY <2>1, <2>2
  <1> HIDE DEF good
  <1>3. S \in good BY <1>2, SetInduction
  <1> QED BY <1>3 DEF good, F

LEMMA SumAtMost ==
  ASSUME NEW S, IsFiniteSet(S), NEW f, NEW g, \A x \in S : f[x] \in Int /\ g[x] \in Int /\ f[x] <= g[x]
  PROVE  SumFunctionOnSet(f, S) <= SumFunctionOnSet(g, S)
  <1> DEFINE F(s) == SumFunctionOnSet(f, s)
             G(s) == SumFunctionOnSet(g, s)
             good == {s \in SUBSET S : F(s) <= G(s)}
  <1>1. /\ F({}) = 0 /\ G({}) = 0
        /\ \A s \in SUBSET S : /\ F(s) \in Int /\ G(s) \in Int
                               /\ \A x \in s : F(s) = f[x] + F(s \ {x}) /\ G(s) = g[x] + G(s \ {x})
    BY SumFacts
  <1> HIDE DEF F, G
  <1>2. ASSUME NEW s \in SUBSET S, \A x \in s : s \ {x} \in good PROVE s \in good
    <2>1. CASE s = {} BY <1>1, <2>1
    <2>2. ASSUME NEW x \in s PROVE F(s) <= G(s)
      <3> DEFINE r == s \ {x}
      <3>1. F(r) <= G(r) /\ F(r) \in Int /\ G(r) \in Int BY <1>1, <1>2, <2>2
      <3>2. F(s) = f[x] + F(r) /\ G(s) = g[x] + G(r) BY <1>1, <2>2
      <3> HIDE DEF r
      <3> QED BY <2>2, <3>1, <3>2
    <2> QED BY <2>1, <2>2
  <1> HIDE DEF good
  <1>3. S \in good BY <1>2, SetInduction
  <1> QED BY <1>3 DEF good, F, G

LEMMA SumUnion ==
  ASSUME NEW S, NEW T, IsFiniteSet(S), IsFiniteSet(T), S \cap T = {}, NEW f, \A x \in S \cup T : f[x] \in Int
  PROVE  SumFunctionOnSet(f, S \cup T) = SumFunctionOnSet(f, S) + SumFunctionOnSet(f, T)
  <1> DEFINE F(s) == SumFunctionOnSet(f, s)
             good == {s \in SUBSET S : F(s \cup T) = F(s) + F(T)}
  <1>1. IsFiniteSet(S \cup T) BY FS_Union
  <1>2. F({}) = 0 /\ \A s \in SUBSET (S \cup T) : F(s) \in Int /\ \A x \in s : F(s) = f[x] + F(s \ {x})
    BY <1>1, SumFacts
  <1> HIDE DEF F
  <1>3. ASSUME NEW s \in SUBSET S, \A x \in s : s \ {x} \in good PROVE s \in good
    <2>1. CASE s = {}
      <3>1. F(T) \in Int /\ s \cup T = T BY <1>2, <2>1
      <3> QED BY <1>2, <2>1, <3>1
    <2>2. ASSUME NEW x \in s PROVE F(s \cup T) = F(s) + F(T)
      <3> DEFINE r == s \ {x}
                 whole == s \cup T
      <3>1. F(r \cup T) = F(r) + F(T) BY <1>3, <2>2
      <3>2. whole \ {x} = r \cup T BY <2>2
      <3>3. F(whole) = f[x] + F(whole \ {x}) BY <1>2, <2>2
      <3>4. F(s) = f[x] + F(r) /\ F(r) \in Int /\ F(T) \in Int /\ f[x] \in Int BY <1>2, <2>2
      <3>5. F(whole) = f[x] + (F(r) + F(T)) BY <3>1, <3>2, <3>3
      <3> HIDE DEF r
      <3>6. F(whole) = F(s) + F(T) BY <3>4, <3>5
      <3> QED BY <3>6
    <2> QED BY <2>1, <2>2
  <1> HIDE DEF good
  <1>4. S \in good BY <1>3, SetInduction
  <1> QED BY <1>4 DEF good, F

\* What only a part of a set counts for.
LEMMA SumPart ==
  ASSUME NEW S, IsFiniteSet(S), NEW M, M \subseteq S, NEW f, \A x \in M : f[x] \in Int,
         NEW h, \A x \in S : h[x] = IF x \in M THEN f[x] ELSE 0
  PROVE  SumFunctionOnSet(h, S) = SumFunctionOnSet(f, M)
  <1> DEFINE others == S \ M
  <1>1. IsFiniteSet(M) /\ IsFiniteSet(others) BY FS_Subset
  <1>2. M \cup others = S /\ M \cap others = {} OBVIOUS
  <1>3. \A x \in S : h[x] \in Int OBVIOUS
  <1>4. SumFunctionOnSet(h, M) = SumFunctionOnSet(f, M) BY <1>1, SumSame
  <1>5. SumFunctionOnSet(h, others) = 0 * Cardinality(others) BY <1>1, SumConst
  <1>6. Cardinality(others) \in Nat /\ SumFunctionOnSet(f, M) \in Int BY <1>1, FS_CardinalityType, SumType
  <1> HIDE DEF others
  <1>7. SumFunctionOnSet(h, M \cup others) = SumFunctionOnSet(h, M) + SumFunctionOnSet(h, others)
    BY <1>1, <1>2, <1>3, SumUnion
  <1>8. SumFunctionOnSet(h, S) = SumFunctionOnSet(h, M) + SumFunctionOnSet(h, others)
    <2>1. S = M \cup others BY <1>2
    <2> QED BY ONLY <1>7, <2>1
  <1>9. SumFunctionOnSet(h, others) = 0 BY <1>5, <1>6
  <1> QED BY <1>4, <1>6, <1>8, <1>9

\* One value changes.
LEMMA SumChange ==
  ASSUME NEW S, IsFiniteSet(S), NEW y \in S, NEW f, NEW g,
         \A x \in S : f[x] \in Int /\ g[x] \in Int /\ (x # y => g[x] = f[x])
  PROVE  SumFunctionOnSet(g, S) = SumFunctionOnSet(f, S) + (g[y] - f[y])
  <1> DEFINE others == S \ {y}
  <1>1. /\ SumFunctionOnSet(f, S) = f[y] + SumFunctionOnSet(f, others)
        /\ SumFunctionOnSet(g, S) = g[y] + SumFunctionOnSet(g, others)
        /\ IsFiniteSet(others) /\ SumFunctionOnSet(f, others) \in Int
    BY SumFacts
  <1>2. SumFunctionOnSet(f, others) = SumFunctionOnSet(g, others) BY <1>1, SumSame
  <1> HIDE DEF others
  <1> QED BY <1>1, <1>2

LEMMA SumNat ==
  ASSUME NEW S, IsFiniteSet(S), NEW f, \A x \in S : f[x] \in Nat
  PROVE  SumFunctionOnSet(f, S) \in Nat
  <1> DEFINE none == [x \in S |-> 0]
  <1>1. SumFunctionOnSet(none, S) = 0 * Cardinality(S) BY SumConst
  <1>2. \A x \in S : none[x] \in Int /\ f[x] \in Int /\ none[x] <= f[x] OBVIOUS
  <1> HIDE DEF none
  <1>3. SumFunctionOnSet(none, S) <= SumFunctionOnSet(f, S) BY <1>2, SumAtMost
  <1>4. SumFunctionOnSet(f, S) \in Int /\ Cardinality(S) \in Nat BY SumType, FS_CardinalityType
  <1> QED BY <1>1, <1>3, <1>4

-----------------------------------------------------------------------------
(* The money of the fantasy leagues. *)

HeldFor == [l \in Leagues |-> IF leagueStatus[l] = "open" THEN Fee * Cardinality(Members(l)) ELSE rake[l]]
FeesBalance ==
  SumFunctionOnSet(fpurse, Entrants) + SumFunctionOnSet(HeldFor, Leagues) = FantasyPurse * Cardinality(Entrants)

LEMMA FeesAsSums == EntryFeesBalance <=> FeesBalance
  <1> DEFINE held(l) == IF leagueStatus[l] = "open" THEN Fee * Cardinality(Members(l)) ELSE rake[l]
             summing(it) == it = [s \in SUBSET Leagues |-> IF s = {} THEN 0 ELSE held(Chosen(s)) + it[Rest(s)]]
  <1>0. IsFiniteSet(Leagues) BY FantasyAssumption DEF FantasyAssumption
  <1>1. MapThenSumSet(LAMBDA e : fpurse[e], Entrants) = SumFunctionOnSet(fpurse, Entrants)
    BY DEF SumFunctionOnSet, FoldFunctionOnSet, MapThenFoldSet, MapThenSumSet
  <1>2. MapThenSumSet(LAMBDA l : IF leagueStatus[l] = "open" THEN Fee * Cardinality(Members(l)) ELSE rake[l], Leagues)
          = (CHOOSE it : summing(it))[Leagues]
    BY DEF MapThenFoldSet, MapThenSumSet, Chosen, Rest
  <1>3. \A s \in SUBSET Leagues : s # {} => Chosen(s) \in Leagues BY DEF Chosen
  <1>4. \A l \in Leagues : HeldFor[l] = held(l) BY DEF HeldFor
  <1> HIDE DEF held
  <1>5. \A it : summing(it) <=> SumsUp(it, HeldFor, Leagues) BY <1>3, <1>4 DEF SumsUp
  <1>6. \E it : SumsUp(it, HeldFor, Leagues) BY <1>0, SumExists
  <1>8. SumFunctionOnSet(HeldFor, Leagues) = (CHOOSE it : summing(it))[Leagues]
    <2> DEFINE chosen == CHOOSE it : summing(it)
    <2>1. SumsUp(chosen, HeldFor, Leagues)
      <3> HIDE DEF summing
      <3> QED BY <1>5, <1>6
    <2> HIDE DEF chosen
    <2> QED BY <1>0, <2>1, SummationIsSum DEF chosen
  <1> QED BY <1>1, <1>2, <1>8 DEF EntryFeesBalance, FeesBalance

LEMMA FeesAsSumsNext == EntryFeesBalance' <=> FeesBalance'
  BY FeesAsSums, PTL

\* A total of integers, written with an operator or with a function.
LEMMA SumByOperator == ASSUME NEW f, NEW S PROVE MapThenSumSet(LAMBDA e : f[e], S) = SumFunctionOnSet(f, S)
  BY DEF SumFunctionOnSet, FoldFunctionOnSet, MapThenFoldSet, MapThenSumSet

LEMMA LeagueConstants ==
  /\ IsFiniteSet(Entrants) /\ IsFiniteSet(Leagues) /\ IsFiniteSet(Footballers)
  /\ JoinPlayer \in [Joins -> Entrants] /\ JoinLeague \in [Joins -> Leagues]
  /\ Fee \in Nat /\ Fee > 0 /\ FantasyPurse \in Nat /\ RakeBps \in Nat /\ RakeBps <= 10000
  <1>1. IsFiniteSet(Entrants) /\ IsFiniteSet(Leagues) /\ IsFiniteSet(Footballers)
    BY FantasyAssumption DEF FantasyAssumption
  <1>2. JoinPlayer \in [Joins -> Entrants] /\ JoinLeague \in [Joins -> Leagues]
    BY FantasyAssumption DEF FantasyAssumption
  <1>3. FantasyPurse \in Nat BY FantasyAssumption DEF FantasyAssumption
  <1>4. Fee \in Nat \ {0} BY FantasyAssumption DEF FantasyAssumption
  <1>5. RakeBps \in Nat /\ RakeBps <= 10000 BY FantasyAssumption DEF FantasyAssumption
  <1>6. Fee \in Nat /\ Fee > 0 BY <1>4
  <1> QED BY ONLY <1>1, <1>2, <1>3, <1>5, <1>6

GoodPick(p) == p.xi \subseteq Footballers /\ p.captain \in p.xi /\ p.vice \in p.xi

\* A settled league was paid out by the points of its members.
Pool(l) == Fee * Cardinality(Members(l))
PaidOut(l) ==
  /\ points[l] \in [Members(l) -> Int]
  /\ payout[l] = [e \in Members(l) |-> PayoutOf(points[l], Pool(l) - RakeOf(Pool(l)), e)]
  /\ rake[l] = Pool(l) - SumFunctionOnSet(payout[l], Members(l))

\* Who may still be paid in is not a member yet, and waits alone (the primary key).
JoinsApart ==
  /\ \A j \in Joins : joining[j] = "inserted" => JoinPlayer[j] \notin Members(JoinLeague[j])
  /\ \A i, j \in Joins : joining[i] = "inserted" /\ joining[j] = "inserted" /\ i # j =>
       JoinLeague[i] # JoinLeague[j] \/ JoinPlayer[i] # JoinPlayer[j]
  /\ \A j \in Joins : joining[j] \in {"called", "locked", "inserted"} => GoodPick(JoinPick[j])

LeagueRow(l) ==
  /\ Members(l) \subseteq Entrants
  /\ \A e \in Members(l) : GoodPick(squads[l][e])
  /\ leagueStatus[l] = "none" => Members(l) = {}
  /\ leagueStatus[l] # "settled" => rake[l] = 0
  /\ leagueStatus[l] = "settled" => PaidOut(l)

MoneyTypes ==
  /\ fpurse \in [Entrants -> Int] /\ rake \in [Leagues -> Int]
  /\ DOMAIN points = Leagues /\ livePoints \in {"none", "provisional", "official"}

LeagueInv ==
  /\ JoinInv /\ MoneyTypes /\ JoinsApart
  /\ \A l \in Leagues : LeagueRow(l)
  /\ FeesBalance

LEMMA HeldIsInt ==
  ASSUME NEW l \in Leagues, LeagueInv
  PROVE  IsFiniteSet(Members(l)) /\ Cardinality(Members(l)) \in Nat /\ Pool(l) \in Nat /\ HeldFor[l] \in Int
  <1>1. Members(l) \subseteq Entrants BY DEF LeagueInv, LeagueRow
  <1>2. IsFiniteSet(Members(l)) /\ Cardinality(Members(l)) \in Nat
    BY <1>1, LeagueConstants, FS_Subset, FS_CardinalityType
  <1>3. Fee \in Nat BY LeagueConstants
  <1>4. rake[l] \in Int BY DEF LeagueInv, MoneyTypes
  <1>5. Fee * Cardinality(Members(l)) \in Nat BY <1>2, <1>3
  <1> QED BY <1>2, <1>4, <1>5 DEF HeldFor, Pool

\* What the players gain the league holds less.
LEMMA MoneyMoves ==
  ASSUME LeagueInv, NEW l \in Leagues, NEW M, M \subseteq Entrants, NEW gain, \A e \in M : gain[e] \in Int,
         fpurse' = [e \in Entrants |-> fpurse[e] + IF e \in M THEN gain[e] ELSE 0],
         \A k \in Leagues \ {l} : HeldFor'[k] = HeldFor[k],
         HeldFor'[l] = HeldFor[l] - SumFunctionOnSet(gain, M)
  PROVE  FeesBalance' /\ fpurse' \in [Entrants -> Int]
  <1> DEFINE part == [e \in Entrants |-> IF e \in M THEN gain[e] ELSE 0]
             before == fpurse
             after == [e \in Entrants |-> fpurse[e] + IF e \in M THEN gain[e] ELSE 0]
             had == HeldFor
             has == HeldFor'
  <1>0. IsFiniteSet(Entrants) /\ IsFiniteSet(Leagues) /\ IsFiniteSet(M) BY LeagueConstants, FS_Subset
  <1>1. \A e \in Entrants : before[e] \in Int /\ part[e] \in Int /\ after[e] = 1 * before[e] + 1 * part[e]
    BY DEF LeagueInv, MoneyTypes
  <1>2. \A k \in Leagues : had[k] \in Int BY HeldIsInt
  <1>3. SumFunctionOnSet(gain, M) \in Int BY <1>0, SumType
  <1>4. SumFunctionOnSet(part, Entrants) = SumFunctionOnSet(gain, M)
    <2>1. \A e \in Entrants : part[e] = IF e \in M THEN gain[e] ELSE 0 OBVIOUS
    <2> HIDE DEF part
    <2> QED BY <1>0, <2>1, SumPart
  <1>5. after \in [Entrants -> Int] /\ fpurse' = after BY <1>1
  <1> HIDE DEF part, after, before, had, has
  <1>6. SumFunctionOnSet(after, Entrants) = 1 * SumFunctionOnSet(before, Entrants) + 1 * SumFunctionOnSet(part, Entrants)
    BY <1>0, <1>1, SumPlus
  <1>7. SumFunctionOnSet(has, Leagues) = SumFunctionOnSet(had, Leagues) + (has[l] - had[l])
    <2>1. \A k \in Leagues : had[k] \in Int /\ has[k] \in Int /\ (k # l => has[k] = had[k])
      BY <1>2, <1>3 DEF had, has
    <2> QED BY <1>0, <2>1, SumChange
  <1>8. SumFunctionOnSet(before, Entrants) \in Int /\ SumFunctionOnSet(had, Leagues) \in Int
    BY <1>0, <1>1, <1>2, SumType
  <1>9. SumFunctionOnSet(before, Entrants) + SumFunctionOnSet(had, Leagues) = FantasyPurse * Cardinality(Entrants)
    BY DEF LeagueInv, FeesBalance, before, had
  <1>10. has[l] = had[l] - SumFunctionOnSet(gain, M) /\ had[l] \in Int BY <1>2 DEF has, had
  <1>11. SumFunctionOnSet(after, Entrants) + SumFunctionOnSet(has, Leagues) = FantasyPurse * Cardinality(Entrants)
    BY <1>3, <1>4, <1>6, <1>7, <1>8, <1>9, <1>10
  <1> QED BY <1>5, <1>11 DEF FeesBalance, has

-----------------------------------------------------------------------------
(* What a settled league pays (payouts). *)

LEMMA Divides == ASSUME NEW a \in Int, NEW b \in Nat, b > 0
  PROVE a \div b \in Int /\ (a \div b) * b <= a /\ a < (a \div b) * b + b
  OBVIOUS

\* The shares of a row of places.
LEMMA SharesOfRow ==
  ASSUME NEW row, row \subseteq 1..Len(PayoutBps)
  PROVE  /\ SharesOf(row) \in Nat /\ IsFiniteSet(row)
         /\ \A x \in row : PayoutBps[x] \in Nat
         /\ SharesOf(row) = SumFunctionOnSet(PayoutBps, row)
  <1>1. PayoutBps \in Seq(Nat) BY PayoutAssumption DEF PayoutAssumption
  <1>2. \A x \in row : PayoutBps[x] \in Nat BY <1>1
  <1>3. IsFiniteSet(1..Len(PayoutBps)) BY <1>1, FS_Interval
  <1>4. IsFiniteSet(row) BY <1>3, FS_Subset
  <1>5. SharesOf(row) = SumFunctionOnSet(PayoutBps, row) BY SumByOperator DEF SharesOf
  <1>6. SumFunctionOnSet(PayoutBps, row) \in Nat BY <1>2, <1>4, SumNat
  <1> QED BY <1>2, <1>4, <1>5, <1>6

\* A row of places is paid what its two parts are.
LEMMA SharesAdd ==
  ASSUME NEW low, NEW high, NEW row, row \subseteq 1..Len(PayoutBps), row = low \cup high, low \cap high = {}
  PROVE  SharesOf(row) = SharesOf(low) + SharesOf(high)
  <1>1. low \subseteq 1..Len(PayoutBps) /\ high \subseteq 1..Len(PayoutBps) OBVIOUS
  <1>2. IsFiniteSet(low) /\ (\A x \in low : PayoutBps[x] \in Nat) /\ SharesOf(low) = SumFunctionOnSet(PayoutBps, low)
    BY <1>1, SharesOfRow
  <1>3. IsFiniteSet(high) /\ (\A x \in high : PayoutBps[x] \in Nat) /\ SharesOf(high) = SumFunctionOnSet(PayoutBps, high)
    BY <1>1, SharesOfRow
  <1>4. SharesOf(row) = SumFunctionOnSet(PayoutBps, row) BY SharesOfRow
  <1>5. SumFunctionOnSet(PayoutBps, low \cup high) = SumFunctionOnSet(PayoutBps, low) + SumFunctionOnSet(PayoutBps, high)
    <2>1. \A x \in low \cup high : PayoutBps[x] \in Int BY <1>2, <1>3
    <2> QED BY <1>2, <1>3, <2>1, SumUnion
  <1> QED BY <1>2, <1>3, <1>4, <1>5

\* A lower place is paid no more.
LEMMA LowerPlace ==
  ASSUME NEW i \in 1..Len(PayoutBps), NEW k \in 1..Len(PayoutBps), i <= k
  PROVE  PayoutBps[k] <= PayoutBps[i]
  <1> DEFINE bad == {n \in i..Len(PayoutBps) : ~(PayoutBps[n] <= PayoutBps[i])}
  <1>0. PayoutBps \in Seq(Nat) /\ Len(PayoutBps) \in Nat /\ \A n \in 2..Len(PayoutBps) : PayoutBps[n] <= PayoutBps[n - 1]
    BY PayoutAssumption DEF PayoutAssumption
  <1>1. \A n \in 1..Len(PayoutBps) : PayoutBps[n] \in Nat BY <1>0
  <1>2. bad = {}
    <2> SUFFICES ASSUME bad # {} PROVE FALSE OBVIOUS
    <2>1. bad \subseteq Nat BY <1>0
    <2>2. PICK n \in bad : \A m \in bad : n <= m
      <3> HIDE DEF bad
      <3> QED BY <2>1, LeastOf
    <2>3. n \in i..Len(PayoutBps) /\ ~(PayoutBps[n] <= PayoutBps[i]) BY <2>2
    <2>4. n # i BY <1>1, <2>3
    <2>5. n - 1 \in i..Len(PayoutBps) /\ n \in 2..Len(PayoutBps) BY <1>0, <2>3, <2>4
    <2>6. ~(n <= n - 1) BY <2>5
    <2>7. PayoutBps[n - 1] <= PayoutBps[i] BY <2>2, <2>5, <2>6
    <2>8. PayoutBps[n] <= PayoutBps[n - 1] BY <1>0, <2>5
    <2>9. n \in 1..Len(PayoutBps) /\ n - 1 \in 1..Len(PayoutBps) BY <1>0, <2>5
    <2>10. PayoutBps[n] \in Nat /\ PayoutBps[n - 1] \in Nat /\ PayoutBps[i] \in Nat BY <1>1, <2>9
    <2> HIDE DEF bad
    <2> QED BY <2>3, <2>7, <2>8, <2>10
  <1>3. k \in i..Len(PayoutBps) BY <1>0
  <1> QED BY <1>2, <1>3

\* The places a member's rank takes, and what they are paid together.
PaidPlaces(pts) == Least(Len(PayoutBps), Cardinality(DOMAIN pts))
Peers(pts, e) == {x \in DOMAIN pts : pts[x] = pts[e]}
Above(pts, e) == {x \in DOMAIN pts : pts[x] > pts[e]}
TakenBy(pts, e) == RankOf(pts, e)..Least(RankOf(pts, e) + Cardinality(Peers(pts, e)) - 1, PaidPlaces(pts))

\* In whole numbers: e is paid the most that its rank's shares, split among its peers, allow.
LEMMA PaidShare ==
  ASSUME NEW M, IsFiniteSet(M), NEW pts \in [M -> Int], NEW prize \in Nat, NEW e \in M
  PROVE  LET total == SharesOf(1..PaidPlaces(pts))
             peers == Cardinality(Peers(pts, e))
             owed == SharesOf(TakenBy(pts, e))
             paid == PayoutOf(pts, prize, e)
         IN  /\ PaidPlaces(pts) \in Nat /\ PaidPlaces(pts) >= 1 /\ PaidPlaces(pts) <= Len(PayoutBps)
             /\ Cardinality(M) \in Nat /\ Cardinality(M) >= 1
             /\ peers \in Nat /\ peers >= 1 /\ Cardinality(Above(pts, e)) \in Nat
             /\ RankOf(pts, e) = 1 + Cardinality(Above(pts, e))
             /\ 1..PaidPlaces(pts) \subseteq 1..Len(PayoutBps) /\ TakenBy(pts, e) \subseteq 1..Len(PayoutBps)
             /\ total \in Nat /\ total > 0 /\ owed \in Nat
             /\ paid \in Nat /\ paid * (total * peers) <= prize * owed
             /\ prize * owed < (paid + 1) * (total * peers)
  <1> DEFINE places == PaidPlaces(pts)
             all == 1..places
             taken == TakenBy(pts, e)
             total == SharesOf(all)
             peers == Cardinality(Peers(pts, e))
             owed == SharesOf(taken)
             paid == PayoutOf(pts, prize, e)
             rank == RankOf(pts, e)
  <1>0. PayoutBps \in Seq(Nat) /\ Len(PayoutBps) \in Nat /\ Len(PayoutBps) >= 1 /\ PayoutBps[1] \in Nat /\ PayoutBps[1] > 0
    BY PayoutAssumption DEF PayoutAssumption
  <1>1. Cardinality(M) \in Nat /\ Cardinality(M) >= 1
    <2>1. Cardinality(M) # 0 BY FS_EmptySet
    <2> QED BY <2>1, FS_CardinalityType
  <1>2. IsFiniteSet(Peers(pts, e)) /\ IsFiniteSet(Above(pts, e)) /\ e \in Peers(pts, e)
    <2>1. Peers(pts, e) \subseteq M /\ Above(pts, e) \subseteq M BY DEF Peers, Above
    <2> QED BY <2>1, FS_Subset DEF Peers
  <1>3. peers \in Nat /\ peers >= 1 /\ Cardinality(Above(pts, e)) \in Nat
    <2>1. peers # 0 BY <1>2, FS_EmptySet
    <2> QED BY <1>2, <2>1, FS_CardinalityType
  <1>4. places \in Nat /\ places >= 1 /\ places <= Len(PayoutBps) BY <1>0, <1>1 DEF PaidPlaces, Least
  <1>5. rank = 1 + Cardinality(Above(pts, e)) /\ rank \in Nat /\ rank >= 1 BY <1>3 DEF RankOf, Above
  <1>6. all \subseteq 1..Len(PayoutBps) /\ taken \subseteq 1..Len(PayoutBps)
    <2>1. \A x \in taken : x \in Int /\ rank <= x /\ x <= places BY <1>3, <1>4, <1>5 DEF TakenBy, Least
    <2> HIDE DEF taken, rank
    <2> QED BY <1>0, <1>4, <1>5, <2>1
  <1>7. total \in Nat /\ owed \in Nat /\ total > 0
    <2>1. 1 \in all BY <1>4
    <2> HIDE DEF all, taken
    <2>2. total \in Nat /\ owed \in Nat BY <1>6, SharesOfRow
    <2>3. IsFiniteSet(all) /\ (\A x \in all : PayoutBps[x] \in Nat) /\ total = SumFunctionOnSet(PayoutBps, all)
      BY <1>6, SharesOfRow
    <2> DEFINE rest == all \ {1}
    <2>4. SumFunctionOnSet(PayoutBps, all) = PayoutBps[1] + SumFunctionOnSet(PayoutBps, rest) BY <2>1, <2>3, SumTakes
    <2>5. IsFiniteSet(rest) /\ \A x \in rest : PayoutBps[x] \in Nat BY <2>3, FS_Subset
    <2>6. SumFunctionOnSet(PayoutBps, rest) \in Nat BY <2>5, SumNat
    <2> HIDE DEF rest, total
    <2> QED BY <1>0, <2>2, <2>3, <2>4, <2>6
  <1>8. paid = (prize * owed) \div (total * peers)
    BY DEF PayoutOf, PaidPlaces, Peers, TakenBy
  <1> HIDE DEF places, all, taken, total, peers, owed, paid, rank
  <1> DEFINE a == prize * owed
             b == total * peers
  <1>9. a \in Int /\ a >= 0 /\ b \in Nat /\ b > 0 BY <1>3, <1>7
  <1>10. paid = a \div b BY <1>8
  <1> HIDE DEF a, b
  <1>11. paid \in Int /\ paid * b <= a /\ a < paid * b + b BY <1>9, <1>10, Divides
  <1>12. paid \in Nat
    <2> SUFFICES ASSUME paid < 0 PROVE FALSE BY <1>11
    <2>1. paid + 1 <= 0 BY <1>11
    <2>2. (paid + 1) * b <= 0 BY <1>9, <1>11, <2>1
    <2>3. (paid + 1) * b = paid * b + b BY <1>9, <1>11
    <2> QED BY <1>9, <1>11, <2>2, <2>3
  <1>13. a < (paid + 1) * b
    <2>1. (paid + 1) * b = paid * b + b BY <1>9, <1>11
    <2> QED BY <1>11, <2>1
  <1>14. paid * (total * peers) <= prize * owed /\ prize * owed < (paid + 1) * (total * peers)
    BY <1>11, <1>13 DEF a, b
  <1> QED BY <1>1, <1>3, <1>4, <1>5, <1>6, <1>7, <1>12, <1>14 DEF places, all, taken, total, peers, owed, paid, rank

\* q times b is at most x times b: q is at most x, and so on; products of positive numbers.
LEMMA Factor == ASSUME NEW q \in Int, NEW x \in Int, NEW b \in Nat, b > 0, q * b <= x * b PROVE q <= x
  <1> SUFFICES ASSUME q >= x + 1 PROVE FALSE OBVIOUS
  <1>1. q * b >= (x + 1) * b OBVIOUS
  <1>2. (x + 1) * b = x * b + b OBVIOUS
  <1> QED BY <1>1, <1>2

LEMMA Widen == ASSUME NEW x \in Int, NEW y \in Int, x <= y, NEW k \in Nat PROVE k * x <= k * y
  OBVIOUS

\* The average share of places is at most any share that none of them passes, and the other way.
LEMMA RowBounds ==
  ASSUME NEW row, row \subseteq 1..Len(PayoutBps), NEW w \in Nat, NEW n \in Nat
  PROVE  /\ Cardinality(row) <= n /\ (\A x \in row : PayoutBps[x] <= w) => SharesOf(row) <= w * n
         /\ Cardinality(row) = n /\ (\A x \in row : w <= PayoutBps[x]) => w * n <= SharesOf(row)
  <1> DEFINE flat == [x \in row |-> w]
  <1>1. IsFiniteSet(row) /\ (\A x \in row : PayoutBps[x] \in Nat) /\ SharesOf(row) = SumFunctionOnSet(PayoutBps, row)
        /\ SharesOf(row) \in Nat
    BY SharesOfRow
  <1>3. \A x \in row : flat[x] = w OBVIOUS
  <1>4. Cardinality(row) \in Nat BY <1>1, FS_CardinalityType
  <1> HIDE DEF flat
  <1>2. SumFunctionOnSet(flat, row) = w * Cardinality(row)
    <2>1. IsFiniteSet(row) /\ w \in Int BY <1>1
    <2> QED BY <2>1, <1>3, SumConst
  <1>5. ASSUME Cardinality(row) <= n, \A x \in row : PayoutBps[x] <= w PROVE SharesOf(row) <= w * n
    <2>0. \A x \in row : PayoutBps[x] \in Int /\ flat[x] \in Int /\ PayoutBps[x] <= flat[x] BY <1>1, <1>3, <1>5
    <2>1. SumFunctionOnSet(PayoutBps, row) <= SumFunctionOnSet(flat, row) BY <1>1, <2>0, SumAtMost
    <2>2. w * Cardinality(row) <= w * n BY <1>4, <1>5, Widen
    <2> QED BY <1>1, <1>2, <1>4, <2>1, <2>2
  <1>6. ASSUME Cardinality(row) = n, \A x \in row : w <= PayoutBps[x] PROVE w * n <= SharesOf(row)
    <2>0. \A x \in row : PayoutBps[x] \in Int /\ flat[x] \in Int /\ flat[x] <= PayoutBps[x] BY <1>1, <1>3, <1>6
    <2>1. SumFunctionOnSet(flat, row) <= SumFunctionOnSet(PayoutBps, row) BY <1>1, <2>0, SumAtMost
    <2> QED BY <1>1, <1>2, <1>6, <2>1
  <1> QED BY <1>5, <1>6

\* Who has more points comes wholly before.
LEMMA RanksApart ==
  ASSUME NEW M, IsFiniteSet(M), NEW pts \in [M -> Int], NEW e \in M, NEW f \in M, pts[e] > pts[f]
  PROVE  RankOf(pts, e) + Cardinality(Peers(pts, e)) <= RankOf(pts, f)
  <1> DEFINE above == Above(pts, e)
             peers == Peers(pts, e)
             higher == Above(pts, f)
  <1>1. above \subseteq M /\ peers \subseteq M /\ higher \subseteq M BY DEF Above, Peers
  <1>2. above \cup peers \subseteq higher /\ above \cap peers = {} BY DEF Above, Peers
  <1>3. RankOf(pts, e) = 1 + Cardinality(above) /\ RankOf(pts, f) = 1 + Cardinality(higher) BY DEF RankOf, Above
  <1> HIDE DEF above, peers, higher
  <1>4. IsFiniteSet(above) /\ IsFiniteSet(peers) /\ IsFiniteSet(higher) BY <1>1, FS_Subset
  <1>5. Cardinality(above \cup peers) = Cardinality(above) + Cardinality(peers)
    <2>1. Cardinality(above \cap peers) = 0 BY <1>2, FS_EmptySet
    <2>2. Cardinality(above \cup peers) = Cardinality(above) + Cardinality(peers) - Cardinality(above \cap peers)
      BY <1>4, FS_Union
    <2>3. Cardinality(above) \in Nat /\ Cardinality(peers) \in Nat BY <1>4, FS_CardinalityType
    <2> QED BY <2>1, <2>2, <2>3
  <1>6. Cardinality(above \cup peers) <= Cardinality(higher) BY <1>2, <1>4, FS_Subset
  <1>7. Cardinality(above) \in Nat /\ Cardinality(peers) \in Nat /\ Cardinality(higher) \in Nat BY <1>4, FS_CardinalityType
  <1> QED BY <1>3, <1>5, <1>6, <1>7 DEF peers

LEMMA EqualPay ==
  ASSUME NEW M, NEW pts \in [M -> Int], NEW prize, NEW e \in M, NEW f \in M, pts[e] = pts[f]
  PROVE  PayoutOf(pts, prize, e) = PayoutOf(pts, prize, f)
  BY DEF PayoutOf, RankOf

\* More points, no less pay: a rank's shares are on average at least the share of the
\* first place below it.
LEMMA HigherPay ==
  ASSUME NEW M, IsFiniteSet(M), NEW pts \in [M -> Int], NEW prize \in Nat, NEW e \in M, NEW f \in M, pts[e] > pts[f]
  PROVE  PayoutOf(pts, prize, e) >= PayoutOf(pts, prize, f)
  <1> DEFINE places == PaidPlaces(pts)
             total == SharesOf(1..places)
             pe == Cardinality(Peers(pts, e))
             pf == Cardinality(Peers(pts, f))
             re == RankOf(pts, e)
             rf == RankOf(pts, f)
             te == TakenBy(pts, e)
             tf == TakenBy(pts, f)
             se == SharesOf(te)
             sf == SharesOf(tf)
             qe == PayoutOf(pts, prize, e)
             qf == PayoutOf(pts, prize, f)
  <1>1. /\ places \in Nat /\ places <= Len(PayoutBps) /\ total \in Nat /\ total > 0
        /\ pe \in Nat /\ pe >= 1 /\ re \in Nat /\ re >= 1 /\ te \subseteq 1..Len(PayoutBps) /\ se \in Nat
        /\ qe \in Nat /\ prize * se < (qe + 1) * (total * pe)
    <2>1. /\ Cardinality(Above(pts, e)) \in Nat /\ RankOf(pts, e) = 1 + Cardinality(Above(pts, e)) BY PaidShare
    <2>2. re \in Nat /\ re >= 1 BY <2>1
    <2> QED BY <2>2, PaidShare
  <1>2. /\ pf \in Nat /\ pf >= 1 /\ rf \in Nat /\ tf \subseteq 1..Len(PayoutBps) /\ sf \in Nat
        /\ qf \in Nat /\ qf * (total * pf) <= prize * sf
    <2>1. /\ Cardinality(Above(pts, f)) \in Nat /\ RankOf(pts, f) = 1 + Cardinality(Above(pts, f)) BY PaidShare
    <2>2. rf \in Nat BY <2>1
    <2> QED BY <2>2, PaidShare
  <1>3. re + pe <= rf BY RanksApart
  <1>4. te = re..Least(re + pe - 1, places) /\ tf = rf..Least(rf + pf - 1, places) BY DEF TakenBy
  <1>0. Len(PayoutBps) \in Nat BY PayoutAssumption DEF PayoutAssumption
  <1> HIDE DEF places, total, pe, pf, re, rf, te, tf, se, sf, qe, qf
  <1>5. CASE rf > places
    <2>1. tf = {} BY <1>1, <1>2, <1>4, <1>5 DEF Least
    <2>2. Cardinality(tf) = 0 /\ \A x \in tf : PayoutBps[x] <= 0 BY <2>1, FS_EmptySet
    <2>3. sf <= 0
      <3>1. 0 \in Nat /\ Cardinality(tf) <= 0 BY <2>2
      <3>2. SharesOf(tf) <= 0 * 0 BY <1>2, <2>2, <3>1, RowBounds
      <3> QED BY <3>2 DEF sf
    <2>4. prize * sf = 0 BY <1>2, <2>3
    <2>5. total * pf \in Nat /\ total * pf > 0 BY <1>1, <1>2
    <2>6. qf * (total * pf) <= 0 * (total * pf) BY <1>2, <2>4, <2>5
    <2>7. qf <= 0 BY <1>2, <2>5, <2>6, Factor
    <2> QED BY <1>1, <1>2, <2>7 DEF qe, qf
  <1>6. CASE rf <= places
    <2> DEFINE w == PayoutBps[rf]
    <2>1. rf \in 1..Len(PayoutBps) BY <1>0, <1>1, <1>2, <1>3, <1>6
    <2>2. w \in Nat
      <3>1. PayoutBps \in Seq(Nat) BY PayoutAssumption DEF PayoutAssumption
      <3> QED BY <2>1, <3>1
    <2>3. te = re..(re + pe - 1) /\ Cardinality(te) = pe
      <3>1. re + pe - 1 <= places BY <1>1, <1>2, <1>3, <1>6
      <3>2. te = re..(re + pe - 1) BY <1>1, <1>4, <3>1 DEF Least
      <3>3. re \in Int /\ re + pe - 1 \in Int /\ re <= re + pe - 1 /\ (re + pe - 1) - re + 1 = pe BY <1>1
      <3>4. Cardinality(re..(re + pe - 1)) = (re + pe - 1) - re + 1 BY <3>3, FS_Interval
      <3> QED BY <3>2, <3>3, <3>4
    <2>4. \A x \in te : w <= PayoutBps[x]
      <3> SUFFICES ASSUME NEW x \in te PROVE w <= PayoutBps[x] OBVIOUS
      <3>1. x \in 1..Len(PayoutBps) /\ x <= rf BY <1>1, <1>2, <1>3, <2>3
      <3> QED BY <2>1, <3>1, LowerPlace
    <2>5. \A x \in tf : PayoutBps[x] <= w
      <3> SUFFICES ASSUME NEW x \in tf PROVE PayoutBps[x] <= w OBVIOUS
      <3>1. x \in 1..Len(PayoutBps) /\ rf <= x BY <1>1, <1>2, <1>4 DEF Least
      <3> QED BY <2>1, <3>1, LowerPlace
    <2>6. Cardinality(tf) <= pf
      <3>1. tf \subseteq rf..(rf + pf - 1) BY <1>1, <1>2, <1>4 DEF Least
      <3>2. rf \in Int /\ rf + pf - 1 \in Int /\ rf <= rf + pf - 1 /\ (rf + pf - 1) - rf + 1 = pf BY <1>2
      <3> DEFINE row == rf..(rf + pf - 1)
      <3>3. IsFiniteSet(row) /\ Cardinality(row) = (rf + pf - 1) - rf + 1 BY <3>2, FS_Interval
      <3>4. tf \subseteq row BY <3>1
      <3> HIDE DEF row
      <3>5. Cardinality(tf) <= Cardinality(row) BY <3>3, <3>4, FS_Subset
      <3> QED BY <3>2, <3>3, <3>5
    <2> HIDE DEF w
    <2>7. w * pe <= se BY <1>1, <2>2, <2>3, <2>4, RowBounds DEF se
    <2>8. sf <= w * pf BY <1>2, <2>2, <2>5, <2>6, RowBounds DEF sf
    <2> DEFINE k == prize * w
    <2>9. k \in Nat BY <2>2
    <2>10. prize * sf <= k * pf
      <3>1. prize * sf <= prize * (w * pf) BY <1>2, <2>2, <2>8, Widen
      <3> QED BY <1>2, <2>2, <3>1
    <2>11. k * pe <= prize * se
      <3>1. prize * (w * pe) <= prize * se BY <1>1, <2>2, <2>7, Widen
      <3> QED BY <1>1, <2>2, <3>1
    <2> HIDE DEF k
    <2>12. qf * total <= k
      <3>1. qf * (total * pf) = (qf * total) * pf BY <1>1, <1>2
      <3>2. qf * (total * pf) \in Int /\ prize * sf \in Int /\ k * pf \in Int BY <1>1, <1>2, <2>9
      <3>3. (qf * total) * pf <= k * pf BY <1>2, <2>10, <3>1, <3>2
      <3>4. qf * total \in Int /\ pf > 0 BY <1>1, <1>2
      <3> QED BY <1>2, <2>9, <3>3, <3>4, Factor
    <2>13. k < (qe + 1) * total
      <3> SUFFICES ASSUME (qe + 1) * total <= k PROVE FALSE BY <1>1, <2>9
      <3>1. pe * ((qe + 1) * total) <= pe * k
        <4>1. (qe + 1) * total \in Int BY <1>1
        <4> QED BY <1>1, <2>9, <4>1, Widen
      <3>2. pe * ((qe + 1) * total) = (qe + 1) * (total * pe) /\ pe * k = k * pe BY <1>1, <2>9
      <3>3. (qe + 1) * (total * pe) \in Int /\ prize * se \in Int /\ k * pe \in Int BY <1>1, <2>9
      <3> QED BY <1>1, <2>11, <3>1, <3>2, <3>3
    <2>14. qf * total < (qe + 1) * total
      <3>1. qf * total \in Int /\ (qe + 1) * total \in Int BY <1>1, <1>2
      <3> QED BY <2>9, <2>12, <2>13, <3>1
    <2>15. qf < qe + 1
      <3> SUFFICES ASSUME qe + 1 <= qf PROVE FALSE BY <1>1, <1>2
      <3>1. total * (qe + 1) <= total * qf BY <1>1, <1>2, Widen
      <3> QED BY <1>1, <1>2, <2>14, <3>1
    <2> QED BY <1>1, <1>2, <2>15 DEF qe, qf
  <1> QED BY <1>1, <1>2, <1>5, <1>6

\* A finite set of integers has a least.
LEMMA LowestOf ==
  ASSUME NEW S, IsFiniteSet(S), S # {}, NEW f, \A x \in S : f[x] \in Int
  PROVE  \E c \in S : \A x \in S : f[c] <= f[x]
  <1> DEFINE good == {s \in SUBSET S : s # {} => \E c \in s : \A x \in s : f[c] <= f[x]}
  <1>1. ASSUME NEW s \in SUBSET S, \A x \in s : s \ {x} \in good PROVE s \in good
    <2> SUFFICES ASSUME s # {} PROVE \E c \in s : \A x \in s : f[c] <= f[x] OBVIOUS
    <2>1. PICK y \in s : TRUE OBVIOUS
    <2> DEFINE less == s \ {y}
    <2>2. less # {} => \E c \in less : \A x \in less : f[c] <= f[x] BY <1>1
    <2>3. \A x \in s : f[x] \in Int OBVIOUS
    <2>4. CASE less = {} BY <2>3, <2>4
    <2>5. CASE less # {}
      <3>1. PICK c \in less : \A x \in less : f[c] <= f[x] BY <2>2, <2>5
      <3>2. c \in s /\ f[c] \in Int /\ f[y] \in Int BY <2>3
      <3>3. CASE f[c] <= f[y]
        <4>1. \A x \in s : f[c] <= f[x] BY <3>1, <3>3
        <4> QED BY <3>2, <4>1
      <3>4. CASE f[y] <= f[c]
        <4>1. ASSUME NEW x \in s PROVE f[y] <= f[x]
          <5>1. CASE x = y BY <3>2, <5>1
          <5>2. CASE x # y
            <6>1. f[c] <= f[x] /\ f[x] \in Int BY <2>3, <3>1, <5>2
            <6> QED BY <3>2, <3>4, <6>1
          <5> QED BY <5>1, <5>2
        <4> QED BY <4>1
      <3> QED BY <3>2, <3>3, <3>4
    <2> QED BY <2>4, <2>5
  <1>2. S \in good
    <2> HIDE DEF good
    <2> QED BY <1>1, SetInduction
  <1> QED BY <1>2

\* The payouts of a league together are at most its prize: by the places that those
\* with the most points take together, a rank at a time.
LEMMA PoolCovers ==
  ASSUME NEW M, IsFiniteSet(M), NEW pts \in [M -> Int], NEW prize \in Nat,
         NEW paid, \A e \in M : paid[e] = PayoutOf(pts, prize, e)
  PROVE  SumFunctionOnSet(paid, M) \in Int /\ SumFunctionOnSet(paid, M) <= prize
  <1> DEFINE places == PaidPlaces(pts)
             total == SharesOf(1..places)
             F(s) == SumFunctionOnSet(paid, s)
             first(s) == 1..Least(places, Cardinality(s))
             closed(s) == \A x \in s, y \in M : pts[y] >= pts[x] => y \in s
             good == {s \in SUBSET M : closed(s) => total * F(s) <= prize * SharesOf(first(s))}
  <1>1. Len(PayoutBps) \in Nat BY PayoutAssumption DEF PayoutAssumption
  <1>2. \A s \in SUBSET M : IsFiniteSet(s) /\ Cardinality(s) \in Nat BY FS_Subset, FS_CardinalityType
  <1>3. DOMAIN pts = M OBVIOUS
  <1>4. places \in Nat /\ places <= Len(PayoutBps) /\ places <= Cardinality(M) BY <1>1, <1>2, <1>3 DEF PaidPlaces, Least
  <1>5. \A e \in M : paid[e] \in Int BY PaidShare
  <1>6. F({}) = 0 /\ \A s \in SUBSET M : F(s) \in Int BY <1>5, SumFacts
  <1>7. \A s \in SUBSET M : first(s) \subseteq 1..Len(PayoutBps) BY <1>1, <1>2, <1>4 DEF Least
  <1>8. \A s \in SUBSET M : SharesOf(first(s)) \in Nat
    <2> SUFFICES ASSUME NEW s \in SUBSET M PROVE SharesOf(first(s)) \in Nat OBVIOUS
    <2> DEFINE row == first(s)
    <2>1. row \subseteq 1..Len(PayoutBps) BY <1>7
    <2> HIDE DEF row
    <2>2. SharesOf(row) \in Nat BY <2>1, SharesOfRow
    <2> QED BY <2>2 DEF row
  <1>9. M # {} => total \in Nat /\ total > 0 BY PaidShare
  <1>15. total \in Nat
    <2> DEFINE row == 1..places
    <2>1. row \subseteq 1..Len(PayoutBps) BY <1>1, <1>4
    <2> HIDE DEF row
    <2>2. SharesOf(row) \in Nat BY <2>1, SharesOfRow
    <2> QED BY <2>2 DEF row
  <1> HIDE DEF F, total
  <1>10. ASSUME NEW s \in SUBSET M, \A t \in SUBSET s : t # s => t \in good PROVE s \in good
    <2> SUFFICES ASSUME closed(s) PROVE total * F(s) <= prize * SharesOf(first(s)) OBVIOUS
    <2>1. CASE s = {}
      <3>1. prize * SharesOf(first(s)) \in Nat BY <1>8
      <3>2. F(s) = 0 BY <1>6, <2>1
      <3>3. total * 0 = 0 BY <1>15
      <3> QED BY <3>1, <3>2, <3>3
    <2>2. CASE s # {}
      <3>1. PICK c \in s : \A x \in s : pts[c] <= pts[x]
        <4>1. \A x \in s : pts[x] \in Int OBVIOUS
        <4>2. IsFiniteSet(s) BY <1>2
        <4> QED BY <2>2, <4>1, <4>2, LowestOf
      <3> DEFINE peers == Peers(pts, c)
                 above == Above(pts, c)
                 q == PayoutOf(pts, prize, c)
                 taken == TakenBy(pts, c)
      <3>2. c \in peers /\ peers \subseteq M /\ above \subseteq M /\ peers \cap above = {} BY DEF Peers, Above
      <3>3. s = above \cup peers
        <4>1. ASSUME NEW x \in s PROVE x \in above \cup peers
          <5>1. pts[c] <= pts[x] /\ pts[x] \in Int /\ pts[c] \in Int /\ x \in M BY <3>1
          <5> QED BY <5>1 DEF Peers, Above
        <4>2. ASSUME NEW x \in above \cup peers PROVE x \in s
          <5>1. x \in M /\ pts[x] >= pts[c] BY DEF Peers, Above
          <5> QED BY <5>1
        <4> QED BY <4>1, <4>2
      <3>4. closed(above)
        <4> SUFFICES ASSUME NEW x \in above, NEW y \in M, pts[y] >= pts[x] PROVE y \in above OBVIOUS
        <4>1. pts[x] > pts[c] /\ pts[x] \in Int /\ pts[y] \in Int /\ pts[c] \in Int BY <3>2 DEF Above
        <4> QED BY <4>1 DEF Above
      <3>5. /\ Cardinality(peers) \in Nat /\ Cardinality(above) \in Nat /\ q \in Nat /\ taken \subseteq 1..Len(PayoutBps)
            /\ SharesOf(taken) \in Nat /\ total \in Nat /\ q * (total * Cardinality(peers)) <= prize * SharesOf(taken)
        BY PaidShare DEF total
      <3>6. \A x \in peers : paid[x] = q
        <4> SUFFICES ASSUME NEW x \in peers PROVE PayoutOf(pts, prize, x) = q BY <3>2
        <4>1. x \in M /\ pts[x] = pts[c] BY DEF Peers
        <4> QED BY <4>1, EqualPay
      <3>7. taken = (1 + Cardinality(above))..Least(Cardinality(above) + Cardinality(peers), places)
        <4>1. RankOf(pts, c) = 1 + Cardinality(above) BY DEF RankOf, Above
        <4>2. (1 + Cardinality(above)) + Cardinality(peers) - 1 = Cardinality(above) + Cardinality(peers) BY <3>5
        <4> QED BY <4>1, <4>2 DEF TakenBy
      <3>8. total * F(above) <= prize * SharesOf(first(above)) BY <1>10, <3>2, <3>3, <3>4
      <3> HIDE DEF peers, above, q, taken
      <3>9. Cardinality(s) = Cardinality(above) + Cardinality(peers)
        <4>1. IsFiniteSet(above) /\ IsFiniteSet(peers) BY <1>2, <3>2
        <4>2. Cardinality(above \cap peers) = 0
          <5>1. above \cap peers = {} BY <3>2
          <5> QED BY <5>1, FS_EmptySet
        <4>3. Cardinality(above \cup peers) = Cardinality(above) + Cardinality(peers) - Cardinality(above \cap peers)
          BY <4>1, FS_Union
        <4> QED BY <3>3, <3>5, <4>2, <4>3
      <3>10. F(peers) = q * Cardinality(peers)
        <4>1. IsFiniteSet(peers) /\ q \in Int BY <1>2, <3>2, <3>5
        <4> QED BY <3>6, <4>1, SumConst DEF F
      <3>11. F(s) = F(above) + F(peers)
        <4>1. IsFiniteSet(above) /\ IsFiniteSet(peers) /\ above \cap peers = {} BY <1>2, <3>2
        <4>2. \A x \in above \cup peers : paid[x] \in Int BY <1>5, <3>2
        <4> QED BY <3>3, <4>1, <4>2, SumUnion DEF F
      <3>12. SharesOf(first(s)) = SharesOf(first(above)) + SharesOf(taken)
        <4> DEFINE low == first(above)
                   row == first(s)
        <4>1. row \subseteq 1..Len(PayoutBps) BY <1>7
        <4>2. row = low \cup taken /\ low \cap taken = {}
          <5> DEFINE a == Cardinality(above)
                     p == Cardinality(peers)
          <5>1. a \in Nat /\ p \in Nat BY <3>5
          <5>2. low = 1..Least(places, a) /\ row = 1..Least(places, a + p) /\ taken = (1 + a)..Least(a + p, places)
            BY <3>7, <3>9
          <5> HIDE DEF a, p, low, row
          <5>3. CASE a + p <= places BY <1>4, <5>1, <5>2, <5>3 DEF Least
          <5>4. CASE ~(a + p <= places) BY <1>4, <5>1, <5>2, <5>4 DEF Least
          <5> QED BY <5>3, <5>4
        <4> HIDE DEF low, row
        <4>3. SharesOf(row) = SharesOf(low) + SharesOf(taken) BY <4>1, <4>2, SharesAdd
        <4> QED BY <4>3 DEF low, row
      <3> DEFINE p == Cardinality(peers)
                 fa == F(above)
                 sa == SharesOf(first(above))
                 st == SharesOf(taken)
      <3>13. p \in Nat /\ fa \in Int /\ sa \in Nat /\ st \in Nat BY <1>6, <1>8, <3>2, <3>5
      <3> HIDE DEF p, fa, sa, st, first
      <3>14. total * fa <= prize * sa /\ q * (total * p) <= prize * st BY <3>5, <3>8 DEF p, fa, sa, st
      <3>15. F(s) = fa + q * p /\ SharesOf(first(s)) = sa + st BY <3>10, <3>11, <3>12 DEF p, fa, sa, st
      <3>16. total * (fa + q * p) = total * fa + q * (total * p) BY <3>5, <3>13
      <3>17. prize * (sa + st) = prize * sa + prize * st BY <3>13
      <3>18. total * fa \in Int /\ q * (total * p) \in Int /\ prize * sa \in Int /\ prize * st \in Int BY <3>5, <3>13
      <3> QED BY <3>14, <3>15, <3>16, <3>17, <3>18
    <2> QED BY <2>1, <2>2
  <1>11. M \in good
    <2> HIDE DEF good
    <2> QED BY <1>10, SubsetInduction
  <1>12. F(M) \in Int BY <1>6
  <1>13. CASE M = {} BY <1>6, <1>13 DEF F
  <1>14. CASE M # {}
    <2>1. first(M) = 1..places BY <1>2, <1>4 DEF Least
    <2>2. total * F(M) <= prize * SharesOf(first(M)) BY <1>11
    <2>3. total * F(M) <= prize * total BY <2>1, <2>2 DEF total
    <2>4. total \in Nat /\ total > 0 BY <1>9, <1>14
    <2>5. total * F(M) = F(M) * total BY <1>12, <2>4
    <2>6. F(M) <= prize BY <1>12, <2>3, <2>4, <2>5, Factor
    <2> QED BY <1>12, <2>6 DEF F
  <1> QED BY <1>13, <1>14

\* A squad whose captain and vice-captain are in it has a number of points.
LEMMA SquadPointsType ==
  ASSUME NEW p, GoodPick(p), NEW live \in [Footballers -> [points : Int, minutes : Nat]]
  PROVE  SquadPoints(p, live) \in Int
  <1> DEFINE xi == p.xi
             scored == [f \in xi |-> live[f].points]
             summing(it) == it = [s \in SUBSET xi |-> IF s = {} THEN 0 ELSE live[Chosen(s)].points + it[Rest(s)]]
             chosen == CHOOSE it : summing(it)
             led == live[IF live[p.captain].minutes > 0 THEN p.captain ELSE p.vice].points
  <1>1. xi \subseteq Footballers /\ IsFiniteSet(xi) BY LeagueConstants, FS_Subset DEF GoodPick
  <1>2. \A f \in Footballers : live[f].points \in Int OBVIOUS
  <1>3. led \in Int BY <1>1, <1>2 DEF GoodPick
  <1>4. SquadPoints(p, live) = chosen[xi] + led
    BY DEF SquadPoints, MapThenFoldSet, MapThenSumSet, Chosen, Rest
  <1>5. \A f \in xi : scored[f] = live[f].points /\ scored[f] \in Int BY <1>1, <1>2
  <1>6. \A s \in SUBSET xi : s # {} => Chosen(s) \in xi BY DEF Chosen
  <1> HIDE DEF xi, scored, led
  <1>7. \A it : summing(it) <=> SumsUp(it, scored, xi) BY <1>5, <1>6 DEF SumsUp
  <1>8. \E it : SumsUp(it, scored, xi) BY <1>1, SumExists
  <1>9. SumsUp(chosen, scored, xi)
    <2> HIDE DEF summing
    <2> QED BY <1>7, <1>8
  <1> HIDE DEF chosen
  <1>10. chosen[xi] = SumFunctionOnSet(scored, xi) BY <1>1, <1>9, SummationIsSum
  <1>11. SumFunctionOnSet(scored, xi) \in Int BY <1>1, <1>5, SumType
  <1> QED BY <1>3, <1>4, <1>10, <1>11

LEMMA RakeBound == ASSUME NEW pool \in Nat PROVE RakeOf(pool) \in Nat /\ RakeOf(pool) <= pool
  <1> DEFINE a == pool * RakeBps
             r == a \div 10000
  <1>1. RakeBps \in Nat /\ RakeBps <= 10000 BY LeagueConstants
  <1>2. a \in Nat /\ a <= pool * 10000
    <2>1. pool * RakeBps <= pool * 10000 BY <1>1, Widen
    <2> QED BY <1>1, <2>1
  <1> HIDE DEF a
  <1>3. r \in Int /\ r * 10000 <= a /\ a < r * 10000 + 10000 BY <1>2, Divides
  <1> HIDE DEF r
  <1>4. r >= 0 BY <1>2, <1>3
  <1>5. r <= pool BY <1>2, <1>3
  <1> QED BY <1>3, <1>4, <1>5 DEF RakeOf, r, a

LEMMA PayLeagueIs ==
  ASSUME NEW l \in Leagues, NEW live, PayLeague(l, live), LeagueInv
  PROVE  \E pts, paid :
           /\ pts = [e \in Members(l) |-> SquadPoints(squads[l][e], live)]
           /\ paid = [e \in Members(l) |-> PayoutOf(pts, Pool(l) - RakeOf(Pool(l)), e)]
           /\ leagueStatus' = [leagueStatus EXCEPT ![l] = "settled"]
           /\ points' = [points EXCEPT ![l] = pts] /\ payout' = [payout EXCEPT ![l] = paid]
           /\ fpurse' = [e \in Entrants |-> fpurse[e] + IF e \in Members(l) THEN paid[e] ELSE 0]
           /\ rake' = [rake EXCEPT ![l] = Pool(l) - SumFunctionOnSet(paid, Members(l))]
  <1> DEFINE pts == [e \in Members(l) |-> SquadPoints(squads[l][e], live)]
             paid == [e \in Members(l) |-> PayoutOf(pts, Pool(l) - RakeOf(Pool(l)), e)]
  <1>1. /\ leagueStatus' = [leagueStatus EXCEPT ![l] = "settled"]
        /\ points' = [points EXCEPT ![l] = pts] /\ payout' = [payout EXCEPT ![l] = paid]
        /\ fpurse' = [e \in Entrants |-> fpurse[e] + IF e \in Members(l) THEN paid[e] ELSE 0]
    BY DEF PayLeague, Pool
  <1>2. rake' = [rake EXCEPT ![l] = Pool(l) - MapThenSumSet(LAMBDA e : paid[e], Members(l))]
    BY DEF PayLeague, Pool
  <1> HIDE DEF pts, paid
  <1>3. MapThenSumSet(LAMBDA e : paid[e], Members(l)) = SumFunctionOnSet(paid, Members(l)) BY SumByOperator
  <1>4. pts = [e \in Members(l) |-> SquadPoints(squads[l][e], live)] BY DEF pts
  <1>5. paid = [e \in Members(l) |-> PayoutOf(pts, Pool(l) - RakeOf(Pool(l)), e)] BY DEF paid
  <1> QED BY <1>1, <1>2, <1>3, <1>4, <1>5

\* What a step leaves when it touches no league and no purse.
LEMMA LeagueQuiet ==
  ASSUME LeagueInv, UNCHANGED <<leagueVars, fpurse>>
  PROVE  /\ fpurse' \in [Entrants -> Int] /\ rake' \in [Leagues -> Int] /\ DOMAIN points' = Leagues
         /\ FeesBalance' /\ \A l \in Leagues : LeagueRow(l)'
  <1> USE DEF leagueVars
  <1>1. fpurse' \in [Entrants -> Int] /\ rake' \in [Leagues -> Int] /\ DOMAIN points' = Leagues
    BY DEF LeagueInv, MoneyTypes
  <1>2. \A l \in Leagues : HeldFor'[l] = HeldFor[l] BY DEF HeldFor, Members
  <1>3. FeesBalance'
    <2>1. HeldFor' = HeldFor BY DEF HeldFor, Members
    <2> QED BY <2>1 DEF LeagueInv, FeesBalance
  <1>4. \A l \in Leagues : LeagueRow(l)'
    <2> SUFFICES ASSUME NEW l \in Leagues PROVE LeagueRow(l)' OBVIOUS
    <2>1. LeagueRow(l) BY DEF LeagueInv
    <2>2. Members(l)' = Members(l) BY DEF Members
    <2>3. PaidOut(l) => PaidOut(l)' BY <2>2 DEF PaidOut, Pool
    <2> QED BY <2>1, <2>2, <2>3 DEF LeagueRow
  <1> QED BY <1>1, <1>3, <1>4

\* A row that a step of another league leaves alone.
LEMMA RowStays ==
  ASSUME LeagueInv, NEW k \in Leagues, leagueStatus'[k] = leagueStatus[k], squads'[k] = squads[k],
         points'[k] = points[k], payout'[k] = payout[k], rake'[k] = rake[k]
  PROVE  LeagueRow(k)' /\ HeldFor'[k] = HeldFor[k]
  <1>1. LeagueRow(k) BY DEF LeagueInv
  <1>2. Members(k)' = Members(k) BY DEF Members
  <1>3. PaidOut(k) => PaidOut(k)' BY <1>2 DEF PaidOut, Pool
  <1>4. HeldFor'[k] = HeldFor[k] BY <1>2 DEF HeldFor
  <1> QED BY <1>1, <1>2, <1>3, <1>4 DEF LeagueRow

LEMMA ApartQuiet == ASSUME LeagueInv, UNCHANGED <<squads, joining>> PROVE JoinsApart'
  BY DEF LeagueInv, JoinsApart, Members

LEMMA CheckedIsGood == ASSUME NEW j \in Joins, SquadOk(JoinPick[j]) PROVE GoodPick(JoinPick[j])
  <1>1. JoinPick[j].xi \subseteq Footballers BY PointsAssumption DEF PointsAssumption
  <1>2. JoinPick[j].captain \in JoinPick[j].xi /\ JoinPick[j].vice \in JoinPick[j].xi BY DEF SquadOk
  <1> QED BY <1>1, <1>2 DEF GoodPick

\* One call of join that changes no league.
LEMMA ApartJoins ==
  ASSUME LeagueInv, NEW j \in Joins, CheckJoin(j) \/ LockForJoin(j) \/ InsertMember(j) \/ JoinFails(j)
  PROVE  JoinsApart'
  <1>0. JoinLeague \in [Joins -> Leagues] /\ joining \in [Joins -> Steps]
    <2>1. JoinLeague \in [Joins -> Leagues] BY LeagueConstants
    <2>2. joining \in [Joins -> Steps] BY DEF LeagueInv, JoinInv
    <2> QED BY <2>1, <2>2
  <1>1. UNCHANGED squads /\ \A i \in Joins : i # j => joining'[i] = joining[i]
    BY <1>0 DEF CheckJoin, LockForJoin, InsertMember, JoinFails, JoinGoes, leagueVars
  <1>2. joining'[j] = "inserted" =>
          /\ JoinPlayer[j] \notin Members(JoinLeague[j])
          /\ \A i \in Joins \ {j} : joining[i] = "inserted" =>
               <<JoinLeague[i], JoinPlayer[i]>> # <<JoinLeague[j], JoinPlayer[j]>>
    BY <1>0 DEF CheckJoin, LockForJoin, InsertMember, JoinFails, JoinGoes
  <1>3. joining'[j] \in {"called", "locked", "inserted"} => GoodPick(JoinPick[j])
    <2>1. CASE CheckJoin(j)
      <3>1. joining'[j] \in {"called", "locked", "inserted"} => SquadOk(JoinPick[j])
        BY <1>0, <2>1 DEF CheckJoin, JoinGoes
      <3> QED BY <3>1, CheckedIsGood
    <2>2. CASE LockForJoin(j) \/ InsertMember(j)
      BY <2>2 DEF LeagueInv, JoinsApart, LockForJoin, InsertMember
    <2>3. CASE JoinFails(j) BY <2>3 DEF LeagueInv, JoinsApart, JoinFails
    <2> QED BY <2>1, <2>2, <2>3
  <1>4. \A i \in Joins : Members(JoinLeague[i])' = Members(JoinLeague[i]) BY <1>1 DEF Members
  <1>5. \A i \in Joins : joining'[i] = "inserted" => JoinPlayer[i] \notin Members(JoinLeague[i])'
    BY <1>1, <1>2, <1>4 DEF LeagueInv, JoinsApart
  <1>6. \A i, k \in Joins : joining'[i] = "inserted" /\ joining'[k] = "inserted" /\ i # k =>
          JoinLeague[i] # JoinLeague[k] \/ JoinPlayer[i] # JoinPlayer[k]
    BY <1>1, <1>2 DEF LeagueInv, JoinsApart
  <1>7. \A i \in Joins : joining'[i] \in {"called", "locked", "inserted"} => GoodPick(JoinPick[i])
    BY <1>1, <1>3 DEF LeagueInv, JoinsApart
  <1> QED BY <1>5, <1>6, <1>7 DEF JoinsApart, Members

\* An entry is paid: the fee goes from the purse to the pool.
LEMMA PayEntryMoney ==
  ASSUME LeagueInv, NEW j \in Joins, PayEntry(j), ~(fpurse[JoinPlayer[j]] < Fee)
  PROVE  /\ FeesBalance' /\ fpurse' \in [Entrants -> Int]
         /\ (\A k \in Leagues : LeagueRow(k)') /\ JoinsApart'
  <1> DEFINE l == JoinLeague[j]
             e == JoinPlayer[j]
             M == {e}
             gain == [x \in M |-> 0 - Fee]
  <1>0. l \in Leagues /\ e \in Entrants /\ Fee \in Nat /\ joining \in [Joins -> Steps] /\ DOMAIN squads = Leagues
    <2>1. l \in Leagues /\ e \in Entrants /\ Fee \in Nat BY LeagueConstants
    <2>2. joining \in [Joins -> Steps] /\ DOMAIN squads = Leagues BY DEF LeagueInv, JoinInv
    <2> QED BY <2>1, <2>2
  <1>1. /\ joining[j] = "inserted" /\ joining' = [joining EXCEPT ![j] = "joined"]
        /\ fpurse' = [fpurse EXCEPT ![e] = @ - Fee]
        /\ squads' = [squads EXCEPT ![l] = [m \in Members(l) \cup {e} |-> IF m = e THEN JoinPick[j] ELSE squads[l][m]]]
        /\ UNCHANGED <<leagueStatus, deadline, points, payout, rake>>
    BY DEF PayEntry, JoinGoes
  <1>2. leagueStatus[l] = "open" /\ e \notin Members(l) /\ GoodPick(JoinPick[j])
    BY <1>1 DEF LeagueInv, JoinInv, JoinsApart
  <1>3. /\ squads'[l] = [m \in Members(l) \cup {e} |-> IF m = e THEN JoinPick[j] ELSE squads[l][m]]
        /\ \A k \in Leagues \ {l} : squads'[k] = squads[k]
    BY <1>0, <1>1
  <1>4. Members(l)' = Members(l) \cup {e} BY <1>3 DEF Members
  <1>5. /\ fpurse' = [x \in Entrants |-> fpurse[x] + IF x \in M THEN gain[x] ELSE 0]
    <2>1. fpurse \in [Entrants -> Int] BY DEF LeagueInv, MoneyTypes
    <2>2. fpurse' = [x \in Entrants |-> IF x = e THEN fpurse[x] - Fee ELSE fpurse[x]] BY <1>0, <1>1, <2>1
    <2>3. \A x \in Entrants : (IF x = e THEN fpurse[x] - Fee ELSE fpurse[x]) = fpurse[x] + IF x \in M THEN gain[x] ELSE 0
      <3> SUFFICES ASSUME NEW x \in Entrants
                   PROVE (IF x = e THEN fpurse[x] - Fee ELSE fpurse[x]) = fpurse[x] + IF x \in M THEN gain[x] ELSE 0
        OBVIOUS
      <3>1. fpurse[x] \in Int BY <2>1
      <3>2. CASE x = e
        <4>1. x \in M /\ gain[x] = 0 - Fee BY <3>2
        <4> HIDE DEF gain, M
        <4> QED BY <1>0, <3>1, <3>2, <4>1
      <3>3. CASE x # e
        <4>1. x \notin M BY <3>3
        <4> HIDE DEF gain, M
        <4> QED BY <3>1, <3>3, <4>1
      <3> QED BY <3>2, <3>3
    <2> HIDE DEF gain, M
    <2> QED BY <2>2, <2>3
  <1>6. \A k \in Leagues \ {l} : LeagueRow(k)' /\ HeldFor'[k] = HeldFor[k] BY <1>1, <1>3, RowStays
  <1>7. M \subseteq Entrants /\ (\A x \in M : gain[x] = 0 - Fee /\ gain[x] \in Int) BY <1>0
  <1>8. SumFunctionOnSet(gain, M) = 0 - Fee
    <2>1. IsFiniteSet(M) /\ Cardinality(M) = 1 BY FS_Singleton
    <2>2. 0 - Fee \in Int BY <1>0
    <2> HIDE DEF gain, M
    <2>3. SumFunctionOnSet(gain, M) = (0 - Fee) * Cardinality(M) BY <1>7, <2>1, <2>2, SumConst
    <2> QED BY <2>1, <2>2, <2>3
  <1>9. HeldFor'[l] = HeldFor[l] - SumFunctionOnSet(gain, M)
    <2>1. IsFiniteSet(Members(l)) /\ Cardinality(Members(l)) \in Nat BY <1>0, HeldIsInt
    <2>2. Cardinality(Members(l)') = Cardinality(Members(l)) + 1 BY <1>2, <1>4, <2>1, FS_AddElement
    <2>3. HeldFor[l] = Fee * Cardinality(Members(l)) /\ HeldFor'[l] = Fee * Cardinality(Members(l)')
      BY <1>0, <1>1, <1>2 DEF HeldFor
    <2> HIDE DEF gain
    <2> QED BY <1>0, <1>8, <2>1, <2>2, <2>3
  <1>10. FeesBalance' /\ fpurse' \in [Entrants -> Int]
    <2> HIDE DEF gain, M, l
    <2> QED BY <1>0, <1>5, <1>6, <1>7, <1>9, MoneyMoves
  <1>11. LeagueRow(l)'
    <2>1. LeagueRow(l) BY <1>0 DEF LeagueInv
    <2>2. \A m \in Members(l)' : GoodPick(squads'[l][m]) BY <1>2, <1>3, <1>4, <2>1 DEF LeagueRow
    <2>3. leagueStatus'[l] = "open" /\ rake'[l] = 0 BY <1>1, <1>2, <2>1 DEF LeagueRow
    <2> QED BY <1>0, <1>4, <2>1, <2>2, <2>3 DEF LeagueRow
  <1>12. JoinsApart'
    <2>1. \A i \in Joins : joining'[i] \in {"called", "locked", "inserted"} => i # j /\ joining'[i] = joining[i] BY <1>0, <1>1
    <2>2. \A i \in Joins : joining'[i] = "inserted" => JoinPlayer[i] \notin Members(JoinLeague[i])'
      <3> SUFFICES ASSUME NEW i \in Joins, joining'[i] = "inserted" PROVE JoinPlayer[i] \notin Members(JoinLeague[i])'
        OBVIOUS
      <3>1. i # j /\ joining[i] = "inserted" /\ JoinLeague[i] \in Leagues BY <2>1, LeagueConstants
      <3>2. JoinPlayer[i] \notin Members(JoinLeague[i]) BY <3>1 DEF LeagueInv, JoinsApart
      <3>3. CASE JoinLeague[i] = l
        <4>1. JoinPlayer[i] # e BY <1>1, <3>1, <3>3 DEF LeagueInv, JoinsApart
        <4> QED BY <1>4, <3>2, <3>3, <4>1
      <3>4. CASE JoinLeague[i] # l BY <1>3, <3>1, <3>2, <3>4 DEF Members
      <3> QED BY <3>3, <3>4
    <2> QED BY <2>1, <2>2 DEF LeagueInv, JoinsApart
  <1> QED BY <1>6, <1>10, <1>11, <1>12

\* A league is settled or cancelled: the pool goes to the purses and the rake.
LEMMA SettleMoney ==
  ASSUME LeagueInv, NEW k \in Ticks, NEW l \in Leagues, SettleLeague(k, l), StillOpen(l)
  PROVE  /\ FeesBalance' /\ fpurse' \in [Entrants -> Int] /\ rake' \in [Leagues -> Int]
         /\ DOMAIN points' = Leagues /\ \A m \in Leagues : LeagueRow(m)'
  <1>0. /\ DOMAIN squads = Leagues /\ DOMAIN payout = Leagues /\ DOMAIN points = Leagues
        /\ rake \in [Leagues -> Int] /\ leagueStatus \in [Leagues -> {"none", "open", "settled", "cancelled"}]
    BY DEF LeagueInv, JoinInv, MoneyTypes
  <1>1. UNCHANGED squads /\ leagueStatus[l] = "open" /\ livePoints # "none" BY DEF SettleLeague, StillOpen
  <1>2. LeagueRow(l) /\ rake[l] = 0 /\ Members(l)' = Members(l)
    BY <1>1 DEF LeagueInv, LeagueRow, Members
  <1>3. IsFiniteSet(Members(l)) /\ Cardinality(Members(l)) \in Nat /\ Pool(l) \in Nat /\ HeldFor[l] \in Int BY HeldIsInt
  <1>4. HeldFor[l] = Pool(l) BY <1>1 DEF HeldFor, Pool
  <1>5. Members(l) \subseteq Entrants BY <1>2 DEF LeagueRow
  <1> DEFINE M == Members(l)
  <1>6. CASE CancelLeague(l)
    <2> DEFINE gain == [x \in M |-> Fee]
    <2>1. /\ leagueStatus' = [leagueStatus EXCEPT ![l] = "cancelled"] /\ UNCHANGED <<points, payout, rake>>
          /\ fpurse' = [e \in Entrants |-> fpurse[e] + IF e \in M THEN gain[e] ELSE 0]
      BY <1>6 DEF CancelLeague
    <2>2. \A m \in Leagues \ {l} : LeagueRow(m)' /\ HeldFor'[m] = HeldFor[m] BY <1>0, <1>1, <2>1, RowStays
    <2>3. Fee \in Int /\ \A x \in M : gain[x] = Fee /\ gain[x] \in Int BY LeagueConstants
    <2> HIDE DEF gain, M
    <2>4. SumFunctionOnSet(gain, M) = Fee * Cardinality(M) BY <1>3, <2>3, SumConst DEF M
    <2>5. HeldFor'[l] = 0 BY <1>0, <1>2, <2>1 DEF HeldFor
    <2>6. HeldFor'[l] = HeldFor[l] - SumFunctionOnSet(gain, M) BY <1>3, <1>4, <2>4, <2>5 DEF Pool, M
    <2>7. FeesBalance' /\ fpurse' \in [Entrants -> Int]
      <3>1. M \subseteq Entrants BY <1>5 DEF M
      <3> QED BY <2>1, <2>2, <2>3, <2>6, <3>1, MoneyMoves
    <2>8. LeagueRow(l)'
      <3>1. leagueStatus'[l] = "cancelled" /\ rake'[l] = 0 BY <1>0, <1>2, <2>1
      <3> QED BY <1>1, <1>2, <3>1 DEF LeagueRow
    <2> QED BY <1>0, <2>1, <2>2, <2>7, <2>8
  <1>7. CASE PayLeague(l, Points[livePoints])
    <2> DEFINE live == Points[livePoints]
               prize == Pool(l) - RakeOf(Pool(l))
    <2>1. PICK pts, paid :
            /\ pts = [e \in Members(l) |-> SquadPoints(squads[l][e], live)]
            /\ paid = [e \in Members(l) |-> PayoutOf(pts, prize, e)]
            /\ leagueStatus' = [leagueStatus EXCEPT ![l] = "settled"]
            /\ points' = [points EXCEPT ![l] = pts] /\ payout' = [payout EXCEPT ![l] = paid]
            /\ fpurse' = [e \in Entrants |-> fpurse[e] + IF e \in Members(l) THEN paid[e] ELSE 0]
            /\ rake' = [rake EXCEPT ![l] = Pool(l) - SumFunctionOnSet(paid, Members(l))]
      BY <1>7, PayLeagueIs
    <2>2. live \in [Footballers -> [points : Int, minutes : Nat]]
      BY <1>1, PointsAssumption DEF PointsAssumption, LeagueInv, MoneyTypes
    <2>3. prize \in Nat BY <1>3, RakeBound
    <2>4. pts \in [M -> Int]
      <3>1. \A e \in M : GoodPick(squads[l][e]) BY <1>2 DEF LeagueRow
      <3> HIDE DEF live
      <3>2. \A e \in M : SquadPoints(squads[l][e], live) \in Int BY <2>2, <3>1, SquadPointsType
      <3> QED BY <2>1, <3>2
    <2>5. \A e \in M : paid[e] \in Int
      <3> SUFFICES ASSUME NEW e \in M PROVE paid[e] \in Int OBVIOUS
      <3>1. paid[e] = PayoutOf(pts, prize, e) BY <2>1
      <3> HIDE DEF prize, M
      <3>2. IsFiniteSet(M) BY <1>3 DEF M
      <3>3. PayoutOf(pts, prize, e) \in Nat BY <2>3, <2>4, <3>2, PaidShare
      <3> QED BY <3>1, <3>3
    <2> HIDE DEF live, prize
    <2>6. SumFunctionOnSet(paid, M) \in Int
      <3> HIDE DEF M
      <3>1. IsFiniteSet(M) BY <1>3 DEF M
      <3> QED BY <2>5, <3>1, SumType
    <2>7. rake'[l] = Pool(l) - SumFunctionOnSet(paid, M) /\ rake' \in [Leagues -> Int]
      BY <1>0, <1>3, <2>1, <2>6
    <2>8. \A m \in Leagues \ {l} : LeagueRow(m)' /\ HeldFor'[m] = HeldFor[m]
      BY <1>0, <1>1, <2>1, RowStays
    <2>9. HeldFor'[l] = HeldFor[l] - SumFunctionOnSet(paid, M) BY <1>0, <1>4, <2>1, <2>7 DEF HeldFor
    <2>10. FeesBalance' /\ fpurse' \in [Entrants -> Int]
      <3>1. fpurse' = [e \in Entrants |-> fpurse[e] + IF e \in M THEN paid[e] ELSE 0] BY <2>1
      <3>2. M \subseteq Entrants BY <1>5
      <3> HIDE DEF M
      <3> QED BY <2>5, <2>8, <2>9, <3>1, <3>2, MoneyMoves
    <2>11. DOMAIN points' = Leagues /\ points'[l] = pts /\ payout'[l] = paid /\ leagueStatus'[l] = "settled"
      BY <1>0, <2>1
    <2>12. LeagueRow(l)'
      <3>1. Pool(l)' = Pool(l) BY <1>2 DEF Pool
      <3>2. PaidOut(l)' BY <1>2, <2>1, <2>4, <2>7, <2>11, <3>1 DEF PaidOut, prize
      <3> QED BY <1>1, <1>2, <2>11, <3>2 DEF LeagueRow
    <2> QED BY <2>7, <2>8, <2>10, <2>11, <2>12
  <1> QED BY <1>1, <1>6, <1>7 DEF SettleLeague

\* A league is opened: nobody is in it yet.
LEMMA EnsureMoney ==
  ASSUME LeagueInv, NEW k \in Ticks, NEW l \in Leagues, EnsureLeague(k, l)
  PROVE  FeesBalance' /\ \A m \in Leagues : LeagueRow(m)'
  <1>0. /\ leagueStatus \in [Leagues -> {"none", "open", "settled", "cancelled"}] BY DEF LeagueInv, JoinInv
  <1>1. /\ leagueStatus' = [leagueStatus EXCEPT ![l] = IF @ = "none" THEN "open" ELSE @]
        /\ UNCHANGED <<squads, points, payout, rake, fpurse>>
    BY DEF EnsureLeague
  <1>2. \A m \in Leagues \ {l} : LeagueRow(m)' /\ HeldFor'[m] = HeldFor[m] BY <1>0, <1>1, RowStays
  <1>3. LeagueRow(l)' /\ HeldFor'[l] = HeldFor[l]
    <2>1. CASE leagueStatus[l] # "none"
      <3>1. leagueStatus'[l] = leagueStatus[l] BY <1>0, <1>1, <2>1
      <3> QED BY <1>1, <3>1, RowStays
    <2>2. CASE leagueStatus[l] = "none"
      <3>1. leagueStatus'[l] = "open" /\ Members(l)' = Members(l) BY <1>0, <1>1, <2>2 DEF Members
      <3>2. LeagueRow(l) /\ Members(l) = {} /\ rake[l] = 0 BY <2>2 DEF LeagueInv, LeagueRow
      <3>3. LeagueRow(l)' BY <1>1, <3>1, <3>2 DEF LeagueRow
      <3>4. Fee * Cardinality({}) = 0 BY FS_EmptySet, LeagueConstants
      <3>5. HeldFor[l] = 0 /\ HeldFor'[l] = 0 BY <1>1, <2>2, <3>1, <3>2, <3>4 DEF HeldFor
      <3> QED BY <3>3, <3>5
    <2> QED BY <2>1, <2>2
  <1>4. HeldFor' = HeldFor
    <2>1. \A m \in Leagues : HeldFor'[m] = HeldFor[m] BY <1>2, <1>3
    <2>2. /\ HeldFor = [m \in Leagues |-> HeldFor[m]] /\ HeldFor' = [m \in Leagues |-> HeldFor'[m]] BY DEF HeldFor
    <2> QED BY <2>1, <2>2
  <1> QED BY <1>1, <1>2, <1>3, <1>4 DEF LeagueInv, FeesBalance

LEMMA LeagueStep == ASSUME LeagueInv, FantasyNext PROVE LeagueInv'
  <1>0. JoinInv' BY JoinStep DEF LeagueInv
  <1>1. fpurse \in [Entrants -> Int] /\ rake \in [Leagues -> Int] /\ DOMAIN points = Leagues
        /\ livePoints \in {"none", "provisional", "official"}
    BY DEF LeagueInv, MoneyTypes
  <1>2. ASSUME UNCHANGED <<leagueVars, fpurse>>, JoinsApart', livePoints' \in {"none", "provisional", "official"}
        PROVE  LeagueInv'
    <2>1. /\ fpurse' \in [Entrants -> Int] /\ rake' \in [Leagues -> Int] /\ DOMAIN points' = Leagues
          /\ FeesBalance' /\ \A l \in Leagues : LeagueRow(l)'
      BY <1>2, LeagueQuiet
    <2> QED BY <1>0, <1>2, <2>1 DEF LeagueInv, MoneyTypes
  <1>3. CASE TimePasses \/ FplMovesDeadline \/ FplChecksResults \/ LoadCatalog \/ LoadLivePoints
    <2>1. UNCHANGED <<leagueVars, fpurse>> /\ UNCHANGED joining /\ livePoints' \in {"none", "provisional", "official"}
      BY <1>1, <1>3 DEF TimePasses, FplMovesDeadline, FplChecksResults, LoadCatalog, LoadLivePoints, Served, joinVars, cacheVars
    <2>2. JoinsApart' BY <2>1, ApartQuiet DEF leagueVars
    <2> QED BY <1>2, <2>1, <2>2
  <1>4. ASSUME NEW j \in Joins, CheckJoin(j) \/ LockForJoin(j) \/ InsertMember(j) \/ JoinFails(j) PROVE LeagueInv'
    <2>1. UNCHANGED <<leagueVars, fpurse, livePoints>> BY <1>4 DEF CheckJoin, LockForJoin, InsertMember, JoinFails, cacheVars
    <2>2. JoinsApart' BY <1>4, ApartJoins
    <2> QED BY <1>1, <1>2, <2>1, <2>2
  <1>5. ASSUME NEW j \in Joins, PayEntry(j) PROVE LeagueInv'
    <2>1. CASE fpurse[JoinPlayer[j]] < Fee
      <3>1. UNCHANGED <<leagueVars, fpurse, livePoints>> /\ joining' = [joining EXCEPT ![j] = "refused"]
        BY <1>5, <2>1 DEF PayEntry, JoinGoes, leagueVars, cacheVars
      <3>2. \A i \in Joins : joining'[i] \in {"called", "locked", "inserted"} => joining'[i] = joining[i]
        BY <3>1 DEF LeagueInv, JoinInv
      <3>3. \A i \in Joins : Members(JoinLeague[i])' = Members(JoinLeague[i]) BY <3>1 DEF leagueVars, Members
      <3>4. JoinsApart' BY <3>2, <3>3 DEF LeagueInv, JoinsApart, Members
      <3> QED BY <1>1, <1>2, <3>1, <3>4
    <2>2. CASE ~(fpurse[JoinPlayer[j]] < Fee)
      <3>1. UNCHANGED <<points, rake, livePoints>> BY <1>5 DEF PayEntry, cacheVars
      <3>2. FeesBalance' /\ fpurse' \in [Entrants -> Int] /\ (\A k \in Leagues : LeagueRow(k)') /\ JoinsApart'
        BY <1>5, <2>2, PayEntryMoney
      <3> QED BY <1>0, <1>1, <3>1, <3>2 DEF LeagueInv, MoneyTypes
    <2> QED BY <2>1, <2>2
  <1>6. ASSUME NEW k \in Ticks, StartTick(k) \/ ListOpen(k) \/ TickFails(k) PROVE LeagueInv'
    <2>1. UNCHANGED <<leagueVars, fpurse, livePoints, joining>> BY <1>6 DEF StartTick, ListOpen, TickFails, cacheVars, joinVars
    <2>2. JoinsApart' BY <2>1, ApartQuiet DEF leagueVars
    <2> QED BY <1>1, <1>2, <2>1, <2>2
  <1>7. ASSUME NEW k \in Ticks, NEW l \in Leagues, EnsureLeague(k, l) PROVE LeagueInv'
    <2>1. UNCHANGED <<squads, points, rake, fpurse, livePoints, joining>> BY <1>7 DEF EnsureLeague, cacheVars, joinVars
    <2>2. JoinsApart' BY <2>1, ApartQuiet
    <2>3. FeesBalance' /\ \A m \in Leagues : LeagueRow(m)' BY <1>7, EnsureMoney
    <2> QED BY <1>0, <1>1, <2>1, <2>2, <2>3 DEF LeagueInv, MoneyTypes
  <1>8. ASSUME NEW k \in Ticks, NEW l \in Leagues, SettleLeague(k, l) PROVE LeagueInv'
    <2>1. UNCHANGED <<squads, livePoints, joining>> BY <1>8 DEF SettleLeague, cacheVars, joinVars
    <2>2. JoinsApart' BY <2>1, ApartQuiet
    <2>3. CASE StillOpen(l)
      <3>1. /\ FeesBalance' /\ fpurse' \in [Entrants -> Int] /\ rake' \in [Leagues -> Int]
            /\ DOMAIN points' = Leagues /\ \A m \in Leagues : LeagueRow(m)'
        BY <1>8, <2>3, SettleMoney
      <3> QED BY <1>0, <1>1, <2>1, <2>2, <3>1 DEF LeagueInv, MoneyTypes
    <2>4. CASE ~StillOpen(l)
      <3>1. UNCHANGED <<leagueVars, fpurse>> BY <1>8, <2>4 DEF SettleLeague, leagueVars
      <3> QED BY <1>1, <1>2, <2>1, <2>2, <3>1
    <2> QED BY <2>3, <2>4
  <1> QED BY ONLY FantasyNext, <1>3, <1>4, <1>5, <1>6, <1>7, <1>8 DEF FantasyNext

LEMMA LeagueStart == ASSUME FantasyInit PROVE LeagueInv
  <1> DEFINE start == fpurse
             held == HeldFor
  <1>0. IsFiniteSet(Entrants) /\ IsFiniteSet(Leagues) /\ FantasyPurse \in Int BY LeagueConstants
  <1>1. JoinInv BY DEF FantasyInit, JoinInv, Steps
  <1>2. MoneyTypes BY <1>0 DEF FantasyInit, MoneyTypes
  <1>3. \A l \in Leagues : Members(l) = {} BY DEF FantasyInit, Members
  <1>4. JoinsApart BY DEF FantasyInit, JoinsApart
  <1>5. \A l \in Leagues : LeagueRow(l) BY <1>3 DEF FantasyInit, LeagueRow
  <1>6. (\A e \in Entrants : start[e] = FantasyPurse) /\ \A l \in Leagues : held[l] = 0 BY DEF FantasyInit, HeldFor
  <1> HIDE DEF start, held
  <1>7. SumFunctionOnSet(start, Entrants) = FantasyPurse * Cardinality(Entrants) BY <1>0, <1>6, SumConst
  <1>8. SumFunctionOnSet(held, Leagues) = 0 * Cardinality(Leagues) BY <1>0, <1>6, SumConst
  <1>9. Cardinality(Leagues) \in Nat /\ Cardinality(Entrants) \in Nat BY <1>0, FS_CardinalityType
  <1>10. FeesBalance BY <1>0, <1>7, <1>8, <1>9 DEF FeesBalance, start, held
  <1> QED BY <1>1, <1>2, <1>4, <1>5, <1>10 DEF LeagueInv

LEMMA LeagueIsRight == ASSUME LeagueInv PROVE LeagueMoneyIsRight
  <1>1. EntryFeesBalance BY FeesAsSums DEF LeagueInv
  <1>2. ASSUME NEW l \in Leagues, leagueStatus[l] = "settled"
        PROVE  /\ \A e, f \in Members(l) : points[l][e] >= points[l][f] => payout[l][e] >= payout[l][f]
               /\ rake[l] >= RakeOf(Fee * Cardinality(Members(l)))
    <2> DEFINE M == Members(l)
               pts == points[l]
               paid == payout[l]
               pool == Pool(l)
               prize == pool - RakeOf(pool)
    <2>1. IsFiniteSet(M) /\ pool \in Nat BY HeldIsInt
    <2>2. PaidOut(l) BY <1>2 DEF LeagueInv, LeagueRow
    <2>3. pts \in [M -> Int] /\ (\A e \in M : paid[e] = PayoutOf(pts, prize, e)) /\ rake[l] = pool - SumFunctionOnSet(paid, M)
      BY <2>2 DEF PaidOut
    <2> HIDE DEF M, pts, paid, pool
    <2>4. prize \in Nat /\ RakeOf(pool) \in Nat BY <2>1, RakeBound
    <2> HIDE DEF prize
    <2>5. ASSUME NEW e \in M, NEW f \in M, pts[e] >= pts[f] PROVE paid[e] >= paid[f]
      <3>1. paid[e] = PayoutOf(pts, prize, e) /\ paid[f] = PayoutOf(pts, prize, f) BY <2>3
      <3>2. PayoutOf(pts, prize, e) \in Nat /\ PayoutOf(pts, prize, f) \in Nat BY <2>1, <2>3, <2>4, PaidShare
      <3>3. pts[e] \in Int /\ pts[f] \in Int BY <2>3
      <3>4. CASE pts[e] = pts[f]
        <4>1. PayoutOf(pts, prize, e) = PayoutOf(pts, prize, f) BY <2>3, <3>4, EqualPay
        <4> QED BY <3>1, <3>2, <4>1
      <3>5. CASE pts[e] > pts[f]
        <4>1. PayoutOf(pts, prize, e) >= PayoutOf(pts, prize, f) BY <2>1, <2>3, <2>4, <3>5, HigherPay
        <4> QED BY <3>1, <4>1
      <3> QED BY <2>5, <3>3, <3>4, <3>5
    <2>6. SumFunctionOnSet(paid, M) \in Int /\ SumFunctionOnSet(paid, M) <= prize BY <2>1, <2>3, <2>4, PoolCovers
    <2>7. rake[l] >= RakeOf(pool) BY <2>1, <2>3, <2>4, <2>6 DEF prize
    <2> QED BY <2>5, <2>7 DEF M, pts, paid, pool, Pool
  <1> QED BY <1>1, <1>2 DEF LeagueMoneyIsRight, PaidByRank, HouseKeepsRake

\* No entry fee is made or lost by any interleaving of joins, ticks and settlements, who has
\* more points is paid no less, and the house keeps its rake (join, settle, payouts).
THEOREM LeagueMoney == FantasySpec => []LeagueMoneyIsRight
  <1>1. FantasyInit => LeagueInv BY LeagueStart
  <1>2. LeagueInv /\ [FantasyNext]_fantasyVars => LeagueInv'
    <2>1. CASE UNCHANGED fantasyVars
      <3>1. UNCHANGED <<leagueVars, fpurse, livePoints, joining, squads>>
        BY <2>1 DEF fantasyVars, cacheVars, joinVars, leagueVars
      <3>2. LeagueInv => JoinInv' BY <3>1 DEF LeagueInv, JoinInv, leagueVars
      <3>3. LeagueInv => JoinsApart' BY <3>1, ApartQuiet
      <3> QED BY <3>1, <3>2, <3>3, LeagueQuiet DEF LeagueInv, MoneyTypes
    <2> QED BY <2>1, LeagueStep
  <1>3. LeagueInv => LeagueMoneyIsRight BY LeagueIsRight
  <1> QED BY <1>1, <1>2, <1>3, PTL DEF FantasySpec

-----------------------------------------------------------------------------
(* The windows of reports. *)

IntegralOn(f, S) == \A x \in S : f[x] \in Int
SumRules(f, S) ==
  /\ SumFunctionOnSet(f, {}) = 0
  /\ \A s \in SUBSET S :
       /\ IsFiniteSet(s) /\ SumFunctionOnSet(f, s) \in Int
       /\ \A x \in s : SumFunctionOnSet(f, s) = f[x] + SumFunctionOnSet(f, s \ {x})

LEMMA SumRulesHold == ASSUME NEW S, IsFiniteSet(S), NEW f, IntegralOn(f, S) PROVE SumRules(f, S)
  <1>1. \A x \in S : f[x] \in Int BY DEF IntegralOn
  <1> QED BY <1>1, SumFacts DEF SumRules

\* g holds the totals of f over the parts of S.
Totals(g, I, f, S, part) ==
  /\ \A x \in S : part[x] \in I
  /\ \A i \in I : g[i] = SumFunctionOnSet(f, {x \in S : part[x] = i})

\* A total, part by part.
LEMMA SumByPart ==
  ASSUME NEW S, IsFiniteSet(S), NEW I, IsFiniteSet(I), NEW f, IntegralOn(f, S),
         NEW part, NEW g, Totals(g, I, f, S, part)
  PROVE  SumFunctionOnSet(g, I) = SumFunctionOnSet(f, S)
  <1> DEFINE sum(s) == SumFunctionOnSet(f, s)
             G(s) == SumFunctionOnSet(g, s)
             of(J) == {x \in S : part[x] \in J}
             good == {J \in SUBSET I : G(J) = sum(of(J))}
  <1>1. (\A x \in S : f[x] \in Int) /\ sum({}) = 0 /\ \A s \in SUBSET S : IsFiniteSet(s) /\ sum(s) \in Int
    <2>1. SumRules(f, S) BY SumRulesHold
    <2> QED BY <2>1 DEF SumRules, IntegralOn
  <1>2. \A i \in I : g[i] = sum({x \in S : part[x] = i}) /\ g[i] \in Int BY <1>1 DEF Totals
  <1>3. G({}) = 0 /\ \A s \in SUBSET I : IsFiniteSet(s) /\ G(s) \in Int /\ \A i \in s : G(s) = g[i] + G(s \ {i})
    <2>1. \A i \in I : g[i] \in Int BY <1>2
    <2> HIDE DEF sum, of
    <2>2. IntegralOn(g, I) BY <2>1 DEF IntegralOn
    <2>3. SumRules(g, I) BY ONLY <2>2, IsFiniteSet(I), SumRulesHold
    <2> QED BY ONLY <2>3 DEF G, SumRules
  <1>4. ASSUME NEW J \in SUBSET I, \A i \in J : J \ {i} \in good PROVE J \in good
    <2>1. CASE J = {}
      <3>1. of(J) = {} BY <2>1
      <3> HIDE DEF of, sum, G
      <3> QED BY <1>1, <1>3, <2>1, <3>1
    <2>2. CASE J # {}
      <3>1. PICK i \in J : TRUE BY <2>2
      <3> DEFINE mine == {x \in S : part[x] = i}
                 less == J \ {i}
                 rest == of(less)
      <3>2. G(less) = sum(rest) BY <1>4, <3>1
      <3>3. of(J) = mine \cup rest /\ mine \cap rest = {} BY <3>1
      <3>4. mine \subseteq S /\ rest \subseteq S OBVIOUS
      <3>5. g[i] = sum(mine) BY <1>2
      <3> HIDE DEF mine, rest
      <3>6. IsFiniteSet(mine) /\ IsFiniteSet(rest) /\ \A x \in mine \cup rest : f[x] \in Int BY <1>1, <3>4
      <3>7. sum(mine \cup rest) = sum(mine) + sum(rest) BY <3>3, <3>6, SumUnion
      <3>8. G(J) = g[i] + G(less) BY <1>3
      <3> HIDE DEF sum, G, of, less
      <3> QED BY <3>2, <3>3, <3>5, <3>7, <3>8
    <2> QED BY <2>1, <2>2
  <1>5. I \in good
    <2> HIDE DEF good
    <2> QED BY <1>4, SetInduction
  <1>6. of(I) = S BY DEF Totals
  <1> HIDE DEF sum, G, of
  <1> QED BY <1>5, <1>6 DEF sum, G

\* The report over the n-th window of a length.
Window(o, L, n) == Report(o, n * L, (n + 1) * L)
Counted(o) == {b \in BilledBets : BilledTo[b] = o /\ StakeCounted(b)}
CountedIn(o, L, D) == {b \in Counted(o) : placedAt[b] \div L \in D}
WonOf(s) == {b \in s : standing[b] = "SETTLED"}

LEMMA BilledConstants ==
  /\ IsFiniteSet(BilledBets) /\ \A b \in BilledBets : StakeOf[b] \in Int /\ WinOf[b] \in Int
  /\ DayLength \in Nat /\ DayLength > 0 /\ MonthDays \in Nat /\ MonthDays > 0 /\ Months \in Nat
  BY BillingAssumption DEF BillingAssumption

LEMMA WindowIs ==
  ASSUME placedAt \in [BilledBets -> Int], NEW o, NEW L \in Nat, L > 0, NEW n \in Nat
  PROVE  LET own == {b \in Counted(o) : placedAt[b] \div L = n} IN
         /\ Window(o, L, n).bets = Cardinality(own)
         /\ Window(o, L, n).ggr = SumFunctionOnSet(StakeOf, own) - SumFunctionOnSet(WinOf, WonOf(own))
  <1> DEFINE own == {b \in Counted(o) : placedAt[b] \div L = n}
             counted == {b \in BetsOf(o, n * L, (n + 1) * L) : StakeCounted(b)}
  <1>1. \A b \in BilledBets : placedAt[b] \div L = n <=> InReportWindow(b, n * L, (n + 1) * L)
    BY WindowIsMonth DEF InReportWindow
  <1>2. counted = own BY <1>1 DEF Counted, BetsOf
  <1>3. /\ Window(o, L, n).bets = Cardinality(counted)
        /\ Window(o, L, n).ggr = SumFunctionOnSet(StakeOf, counted) - SumFunctionOnSet(WinOf, WonOf(counted))
    BY DEF Window, Report, WonOf, MoneyOf
  <1> HIDE DEF counted, own
  <1> QED BY <1>2, <1>3 DEF own

LEMMA BetsAsSum ==
  ASSUME NEW o, NEW L, NEW D, IsFiniteSet(D)
  PROVE  MapThenSumSet(LAMBDA n : Window(o, L, n).bets, D) = SumFunctionOnSet([n \in D |-> Window(o, L, n).bets], D)
  <1> DEFINE amount(n) == Window(o, L, n).bets
             amounts == [n \in D |-> amount(n)]
             summing(it) == it = [s \in SUBSET D |-> IF s = {} THEN 0 ELSE amount(Chosen(s)) + it[Rest(s)]]
             chosen == CHOOSE it : summing(it)
  <1>1. MapThenSumSet(LAMBDA n : Window(o, L, n).bets, D) = chosen[D]
    BY DEF MapThenFoldSet, MapThenSumSet, Chosen, Rest
  <1>2. \A s \in SUBSET D : s # {} => Chosen(s) \in D BY DEF Chosen
  <1>3. \A n \in D : amounts[n] = amount(n) OBVIOUS
  <1> HIDE DEF amount, amounts
  <1>4. \A it : summing(it) <=> SumsUp(it, amounts, D) BY <1>2, <1>3 DEF SumsUp
  <1>5. \E it : SumsUp(it, amounts, D) BY SumExists
  <1>6. SumsUp(chosen, amounts, D)
    <2> HIDE DEF summing
    <2> QED BY <1>4, <1>5
  <1> HIDE DEF chosen
  <1>7. chosen[D] = SumFunctionOnSet(amounts, D) BY <1>6, SummationIsSum
  <1> QED BY <1>1, <1>7 DEF amounts, amount

LEMMA GgrAsSum ==
  ASSUME NEW o, NEW L, NEW D, IsFiniteSet(D)
  PROVE  MapThenSumSet(LAMBDA n : Window(o, L, n).ggr, D) = SumFunctionOnSet([n \in D |-> Window(o, L, n).ggr], D)
  <1> DEFINE amount(n) == Window(o, L, n).ggr
             amounts == [n \in D |-> amount(n)]
             summing(it) == it = [s \in SUBSET D |-> IF s = {} THEN 0 ELSE amount(Chosen(s)) + it[Rest(s)]]
             chosen == CHOOSE it : summing(it)
  <1>1. MapThenSumSet(LAMBDA n : Window(o, L, n).ggr, D) = chosen[D]
    BY DEF MapThenFoldSet, MapThenSumSet, Chosen, Rest
  <1>2. \A s \in SUBSET D : s # {} => Chosen(s) \in D BY DEF Chosen
  <1>3. \A n \in D : amounts[n] = amount(n) OBVIOUS
  <1> HIDE DEF amount, amounts
  <1>4. \A it : summing(it) <=> SumsUp(it, amounts, D) BY <1>2, <1>3 DEF SumsUp
  <1>5. \E it : SumsUp(it, amounts, D) BY SumExists
  <1>6. SumsUp(chosen, amounts, D)
    <2> HIDE DEF summing
    <2> QED BY <1>4, <1>5
  <1> HIDE DEF chosen
  <1>7. chosen[D] = SumFunctionOnSet(amounts, D) BY <1>6, SummationIsSum
  <1> QED BY <1>1, <1>7 DEF amounts, amount

\* Windows of one length that follow each other cover what they cover, once.
LEMMA WindowsCover ==
  ASSUME placedAt \in [BilledBets -> Int], NEW o, NEW L \in Nat, L > 0, NEW D, IsFiniteSet(D), D \subseteq Nat
  PROVE  /\ MapThenSumSet(LAMBDA n : Window(o, L, n).bets, D) = Cardinality(CountedIn(o, L, D))
         /\ MapThenSumSet(LAMBDA n : Window(o, L, n).ggr, D)
              = SumFunctionOnSet(StakeOf, CountedIn(o, L, D)) - SumFunctionOnSet(WinOf, WonOf(CountedIn(o, L, D)))
  <1> DEFINE all == CountedIn(o, L, D)
             won == WonOf(all)
             part == [b \in BilledBets |-> placedAt[b] \div L]
             ones == [b \in BilledBets |-> 1]
             own(n) == {b \in all : part[b] = n}
             wins(n) == {b \in won : part[b] = n}
             bets == [n \in D |-> Window(o, L, n).bets]
             ggrs == [n \in D |-> Window(o, L, n).ggr]
             stakes == [n \in D |-> SumFunctionOnSet(StakeOf, own(n))]
             paid == [n \in D |-> SumFunctionOnSet(WinOf, wins(n))]
  <1>1. all \subseteq BilledBets /\ won \subseteq all BY DEF CountedIn, Counted, WonOf
  <1>2. IsFiniteSet(all) /\ IsFiniteSet(won)
    <2>1. IsFiniteSet(all) BY <1>1, BilledConstants, FS_Subset
    <2> QED BY <1>1, <2>1, FS_Subset
  <1>3. \A b \in all : part[b] \in D BY DEF CountedIn, Counted
  <1>4. \A b \in all : StakeOf[b] \in Int /\ WinOf[b] \in Int /\ ones[b] = 1 /\ ones[b] \in Int BY <1>1, BilledConstants
  <1>5. \A n \in D : /\ Window(o, L, n).bets = Cardinality(own(n))
                     /\ Window(o, L, n).ggr = SumFunctionOnSet(StakeOf, own(n)) - SumFunctionOnSet(WinOf, wins(n))
    <2> SUFFICES ASSUME NEW n \in D
                 PROVE  /\ Window(o, L, n).bets = Cardinality(own(n))
                        /\ Window(o, L, n).ggr = SumFunctionOnSet(StakeOf, own(n)) - SumFunctionOnSet(WinOf, wins(n))
      OBVIOUS
    <2> DEFINE same == {b \in Counted(o) : placedAt[b] \div L = n}
    <2>1. same = own(n) BY DEF CountedIn, Counted
    <2>2. WonOf(same) = wins(n) BY DEF CountedIn, Counted, WonOf
    <2>3. n \in Nat OBVIOUS
    <2>4. /\ Window(o, L, n).bets = Cardinality(same)
          /\ Window(o, L, n).ggr = SumFunctionOnSet(StakeOf, same) - SumFunctionOnSet(WinOf, WonOf(same))
      BY <2>3, WindowIs
    <2> HIDE DEF same, own, wins
    <2> QED BY <2>1, <2>2, <2>4
  <1>6. \A n \in D : own(n) \subseteq all /\ wins(n) \subseteq won OBVIOUS
  <1> HIDE DEF all, won, part, ones
  <1>7. \A n \in D : IsFiniteSet(own(n)) /\ IsFiniteSet(wins(n)) BY <1>2, <1>6, FS_Subset
  <1>8. SumFunctionOnSet(bets, D) = Cardinality(all)
    <2>1. \A n \in D : bets[n] = SumFunctionOnSet(ones, {b \in all : part[b] = n})
      <3> SUFFICES ASSUME NEW n \in D PROVE bets[n] = SumFunctionOnSet(ones, own(n)) OBVIOUS
      <3> DEFINE s == own(n)
      <3>1. IsFiniteSet(s) /\ bets[n] = Cardinality(s) BY <1>5, <1>7
      <3>2. \A b \in s : ones[b] = 1 BY <1>4, <1>6
      <3> HIDE DEF s
      <3>3. SumFunctionOnSet(ones, s) = 1 * Cardinality(s) BY <3>1, <3>2, SumConst
      <3>4. Cardinality(s) \in Nat BY <3>1, FS_CardinalityType
      <3>5. bets[n] = SumFunctionOnSet(ones, s) BY <3>1, <3>3, <3>4
      <3> QED BY <3>5 DEF s
    <2> HIDE DEF bets, own
    <2>2. IntegralOn(ones, all) BY <1>4 DEF IntegralOn
    <2>3. Totals(bets, D, ones, all, part) BY <1>3, <2>1 DEF Totals
    <2>4. SumFunctionOnSet(bets, D) = SumFunctionOnSet(ones, all)
      BY ONLY <1>2, <2>2, <2>3, IsFiniteSet(D), SumByPart
    <2>5. SumFunctionOnSet(ones, all) = 1 * Cardinality(all) BY <1>2, <1>4, SumConst
    <2>6. Cardinality(all) \in Nat BY <1>2, FS_CardinalityType
    <2> QED BY <2>4, <2>5, <2>6
  <1>9. SumFunctionOnSet(stakes, D) = SumFunctionOnSet(StakeOf, all)
    <2>1. \A n \in D : stakes[n] = SumFunctionOnSet(StakeOf, {b \in all : part[b] = n}) OBVIOUS
    <2>2. IntegralOn(StakeOf, all) BY <1>4 DEF IntegralOn
    <2> HIDE DEF stakes, own
    <2>3. Totals(stakes, D, StakeOf, all, part) BY <1>3, <2>1 DEF Totals
    <2> QED BY ONLY <1>2, <2>2, <2>3, IsFiniteSet(D), SumByPart
  <1>10. SumFunctionOnSet(paid, D) = SumFunctionOnSet(WinOf, won)
    <2>1. \A n \in D : paid[n] = SumFunctionOnSet(WinOf, {b \in won : part[b] = n}) OBVIOUS
    <2>2. IntegralOn(WinOf, won) BY <1>1, <1>4 DEF IntegralOn
    <2>3. \A b \in won : part[b] \in D BY <1>1, <1>3
    <2> HIDE DEF paid, wins
    <2>4. Totals(paid, D, WinOf, won, part) BY <2>1, <2>3 DEF Totals
    <2> QED BY ONLY <1>2, <2>2, <2>4, IsFiniteSet(D), SumByPart
  <1>11. \A n \in D : stakes[n] \in Int /\ paid[n] \in Int
    <2> SUFFICES ASSUME NEW n \in D PROVE stakes[n] \in Int /\ paid[n] \in Int OBVIOUS
    <2> DEFINE s == own(n)
               w == wins(n)
    <2>1. IsFiniteSet(s) /\ IsFiniteSet(w) /\ s \subseteq all /\ w \subseteq won BY <1>6, <1>7
    <2> HIDE DEF s, w
    <2>2. \A b \in s : StakeOf[b] \in Int BY <1>4, <2>1
    <2>3. \A b \in w : WinOf[b] \in Int BY <1>1, <1>4, <2>1
    <2>4. SumFunctionOnSet(StakeOf, s) \in Int BY <2>1, <2>2, SumType
    <2>5. SumFunctionOnSet(WinOf, w) \in Int BY <2>1, <2>3, SumType
    <2> QED BY <2>4, <2>5 DEF s, w
  <1>12. \A n \in D : ggrs[n] = 1 * stakes[n] + (0 - 1) * paid[n]
    <2> SUFFICES ASSUME NEW n \in D PROVE ggrs[n] = 1 * stakes[n] + (0 - 1) * paid[n] OBVIOUS
    <2>1. ggrs[n] = stakes[n] - paid[n] BY <1>5
    <2>2. stakes[n] \in Int /\ paid[n] \in Int BY <1>11
    <2> HIDE DEF stakes, paid, ggrs
    <2> QED BY <2>1, <2>2
  <1>13. SumFunctionOnSet(ggrs, D) = SumFunctionOnSet(StakeOf, all) - SumFunctionOnSet(WinOf, won)
    <2> HIDE DEF stakes, paid, ggrs
    <2>1. 1 \in Int /\ 0 - 1 \in Int OBVIOUS
    <2>2. SumFunctionOnSet(ggrs, D) = 1 * SumFunctionOnSet(stakes, D) + (0 - 1) * SumFunctionOnSet(paid, D)
      <3>1. \A n \in D : stakes[n] \in Int /\ paid[n] \in Int /\ ggrs[n] = 1 * stakes[n] + (0 - 1) * paid[n]
        BY <1>11, <1>12
      <3> QED BY ONLY <2>1, <3>1, IsFiniteSet(D), SumPlus
    <2>3. SumFunctionOnSet(stakes, D) \in Int /\ SumFunctionOnSet(paid, D) \in Int BY <1>11, SumType
    <2> QED BY <1>9, <1>10, <2>2, <2>3
  <1>14. MapThenSumSet(LAMBDA n : Window(o, L, n).bets, D) = SumFunctionOnSet(bets, D) BY BetsAsSum
  <1>15. MapThenSumSet(LAMBDA n : Window(o, L, n).ggr, D) = SumFunctionOnSet(ggrs, D) BY GgrAsSum
  <1> HIDE DEF bets, ggrs
  <1> QED BY <1>8, <1>13, <1>14, <1>15 DEF all, won

\* The days of a month are the month.
LEMMA DaysOfMonth ==
  ASSUME NEW p \in Int, NEW m \in Nat
  PROVE  p \div MonthLength = m <=> p \div DayLength \in (m * MonthDays)..((m + 1) * MonthDays - 1)
  <1> DEFINE d == p \div DayLength
             first == m * MonthDays
             next == (m + 1) * MonthDays
             start == m * MonthLength
             end == (m + 1) * MonthLength
  <1>1. DayLength \in Nat /\ DayLength > 0 /\ MonthDays \in Nat /\ MonthLength \in Nat /\ MonthLength > 0
    BY BilledConstants, MonthLengthIsPositive
  <1>2. start = first * DayLength /\ end = next * DayLength
    <2>1. m * (DayLength * MonthDays) = (m * MonthDays) * DayLength BY <1>1
    <2>2. (m + 1) * (DayLength * MonthDays) = ((m + 1) * MonthDays) * DayLength BY <1>1
    <2> QED BY <2>1, <2>2 DEF MonthLength
  <1>3. first \in Int /\ next \in Int BY <1>1
  <1>4. d \in Int /\ d * DayLength <= p /\ p < d * DayLength + DayLength BY <1>1, Divides
  <1>5. p \div MonthLength = m <=> p >= start /\ p < end BY <1>1, WindowIsMonth
  <1> HIDE DEF d, first, next, start, end
  <1>6. start \in Int /\ end \in Int /\ (d + 1) * DayLength = d * DayLength + DayLength BY <1>1, <1>2, <1>3, <1>4
  <1>7. ASSUME p >= start PROVE d >= first
    <2> SUFFICES ASSUME d + 1 <= first PROVE FALSE BY <1>3, <1>4
    <2>1. DayLength * (d + 1) <= DayLength * first BY <1>1, <1>3, <1>4, Widen
    <2> QED BY <1>1, <1>2, <1>3, <1>4, <1>6, <1>7, <2>1
  <1>8. ASSUME p < end PROVE d < next
    <2> SUFFICES ASSUME next <= d PROVE FALSE BY <1>3, <1>4
    <2>1. DayLength * next <= DayLength * d BY <1>1, <1>3, <1>4, Widen
    <2> QED BY <1>1, <1>2, <1>3, <1>4, <1>6, <1>8, <2>1
  <1>9. ASSUME d >= first PROVE p >= start
    <2>1. DayLength * first <= DayLength * d BY <1>1, <1>3, <1>4, <1>9, Widen
    <2> QED BY <1>1, <1>2, <1>3, <1>4, <1>6, <2>1
  <1>10. ASSUME d < next PROVE p < end
    <2>1. d + 1 <= next BY <1>3, <1>4, <1>10
    <2>2. DayLength * (d + 1) <= DayLength * next BY <1>1, <1>3, <1>4, <2>1, Widen
    <2> QED BY <1>1, <1>2, <1>3, <1>4, <1>6, <2>2
  <1>11. p \div MonthLength = m <=> d \in first..(next - 1) BY <1>3, <1>4, <1>5, <1>7, <1>8, <1>9, <1>10
  <1> QED BY <1>11 DEF d, first, next

\* A bet that counts, or has its time, was given it not after now.
WindowInv ==
  /\ today \in 0..(Months * MonthLength)
  /\ placedAt \in [BilledBets -> Int] /\ DOMAIN standing = BilledBets
  /\ \A b \in BilledBets : StakeCounted(b) \/ standing[b] = "open" \/ placedAt[b] # NotPlaced => placedAt[b] \in 0..today

LEMMA WindowStep == ASSUME WindowInv, [BillingNext]_billingVars PROVE WindowInv'
  <1>0. Months \in Nat /\ MonthLength \in Nat BY BilledConstants, MonthLengthIsPositive
  <1>1. Months * MonthLength \in Nat BY <1>0
  <1>2. MonthLength' = MonthLength BY DEF MonthLength
  <1>3. CASE UNCHANGED billingVars BY <1>2, <1>3 DEF WindowInv, billingVars, StakeCounted
  <1>4. CASE TimeMoves
    <2>1. today' \in 0..(Months * MonthLength) /\ 0..today \subseteq 0..today' BY <1>1, <1>4 DEF WindowInv, TimeMoves
    <2> QED BY <1>2, <1>4, <2>1 DEF WindowInv, TimeMoves, StakeCounted
  <1>5. ASSUME NEW b \in BilledBets, StampBet(b) PROVE WindowInv'
    <2>1. today \in Int /\ today \in 0..today BY <1>1 DEF WindowInv
    <2>2. UNCHANGED <<today, standing>> /\ placedAt' \in [BilledBets -> Int] /\ placedAt'[b] = today
          /\ \A x \in BilledBets : x # b => placedAt'[x] = placedAt[x]
      BY <1>5, <2>1 DEF WindowInv, StampBet
    <2>3. \A x \in BilledBets : StakeCounted(x)' \/ standing'[x] = "open" \/ placedAt'[x] # NotPlaced => placedAt'[x] \in 0..today'
      BY <2>1, <2>2 DEF WindowInv, StakeCounted
    <2> QED BY <1>2, <2>2, <2>3 DEF WindowInv
  <1>6. ASSUME NEW b \in BilledBets, BetMoves(b) \/ InsertBet(b) PROVE WindowInv'
    <2>1. UNCHANGED <<today, placedAt>> /\ DOMAIN standing' = BilledBets BY <1>6 DEF WindowInv, BetMoves, InsertBet
    <2>2. \A x \in BilledBets : x # b => standing'[x] = standing[x] BY <1>6 DEF WindowInv, BetMoves, InsertBet
    <2>3. StakeCounted(b) \/ standing[b] = "open" \/ placedAt[b] # NotPlaced BY <1>6 DEF BetMoves, InsertBet, StakeCounted
    <2>4. \A x \in BilledBets : StakeCounted(x)' \/ standing'[x] = "open" \/ placedAt[x] # NotPlaced => placedAt[x] \in 0..today
      BY <2>2, <2>3 DEF WindowInv, StakeCounted
    <2> QED BY <1>2, <2>1, <2>4 DEF WindowInv
  <1>7. ASSUME NEW o \in Customers, ShareIsSet(o) PROVE WindowInv' BY <1>2, <1>7 DEF WindowInv, ShareIsSet, StakeCounted
  <1>8. ASSUME NEW o, NEW m, Invoice(o, m) PROVE WindowInv' BY <1>2, <1>8 DEF WindowInv, Invoice, StakeCounted
  <1> QED BY <1>3, <1>4, <1>5, <1>6, <1>7, <1>8 DEF BillingNext

LEMMA WindowsAreRight == ASSUME WindowInv PROVE WindowsAddUp
  <1>0. /\ DayLength \in Nat /\ DayLength > 0 /\ MonthLength \in Nat /\ MonthLength > 0
        /\ MonthDays \in Nat /\ MonthDays > 0 /\ Months \in Nat
    BY BilledConstants, MonthLengthIsPositive
  <1>1. placedAt \in [BilledBets -> Int] BY DEF WindowInv
  <1>2. ASSUME NEW o, NEW m \in 0..(Months - 1)
        PROVE  LET days == (m * MonthDays)..((m + 1) * MonthDays - 1) IN
               /\ Month(o, m).ggr = MapThenSumSet(LAMBDA d : Day(o, d).ggr, days)
               /\ Month(o, m).bets = MapThenSumSet(LAMBDA d : Day(o, d).bets, days)
    <2> DEFINE days == (m * MonthDays)..((m + 1) * MonthDays - 1)
               own == {b \in Counted(o) : placedAt[b] \div MonthLength = m}
    <2>1. m \in Nat BY <1>0
    <2>2. days \subseteq Nat /\ IsFiniteSet(days)
      <3>1. m * MonthDays \in Nat /\ (m + 1) * MonthDays - 1 \in Int BY <1>0, <2>1
      <3> QED BY <3>1, FS_Interval
    <2>3. own = CountedIn(o, DayLength, days) BY <1>1, <2>1, DaysOfMonth DEF CountedIn, Counted
    <2>4. /\ Window(o, MonthLength, m).bets = Cardinality(own)
          /\ Window(o, MonthLength, m).ggr = SumFunctionOnSet(StakeOf, own) - SumFunctionOnSet(WinOf, WonOf(own))
      <3>1. MonthLength \in Nat /\ MonthLength > 0 BY <1>0
      <3> QED BY ONLY <1>1, <2>1, <3>1, WindowIs
    <2> HIDE DEF days, own
    <2>5. /\ MapThenSumSet(LAMBDA n : Window(o, DayLength, n).bets, days) = Cardinality(own)
          /\ MapThenSumSet(LAMBDA n : Window(o, DayLength, n).ggr, days)
               = SumFunctionOnSet(StakeOf, own) - SumFunctionOnSet(WinOf, WonOf(own))
      BY <1>0, <1>1, <2>2, <2>3, WindowsCover
    <2>6. Month(o, m) = Window(o, MonthLength, m) BY DEF Month, Window
    <2>7. MapThenSumSet(LAMBDA d : Day(o, d).ggr, days) = MapThenSumSet(LAMBDA n : Window(o, DayLength, n).ggr, days)
      BY DEF Day, Window
    <2>8. MapThenSumSet(LAMBDA d : Day(o, d).bets, days) = MapThenSumSet(LAMBDA n : Window(o, DayLength, n).bets, days)
      BY DEF Day, Window
    <2>9. /\ Month(o, m).ggr = MapThenSumSet(LAMBDA d : Day(o, d).ggr, days)
          /\ Month(o, m).bets = MapThenSumSet(LAMBDA d : Day(o, d).bets, days)
      BY <2>4, <2>5, <2>6, <2>7, <2>8
    <2> QED BY <2>9 DEF days
  <1>3. ASSUME NEW o PROVE MapThenSumSet(LAMBDA m : Month(o, m).bets, 0..Months) = Cardinality(Counted(o))
    <2> DEFINE all == 0..Months
    <2>1. all \subseteq Nat /\ IsFiniteSet(all) BY <1>0, FS_Interval
    <2>2. Counted(o) = CountedIn(o, MonthLength, all)
      <3> SUFFICES ASSUME NEW b \in Counted(o) PROVE placedAt[b] \div MonthLength \in 0..Months BY DEF CountedIn
      <3>1. b \in BilledBets /\ StakeCounted(b) BY DEF Counted
      <3>2. placedAt[b] \in 0..today /\ today \in 0..(Months * MonthLength) BY <3>1 DEF WindowInv
      <3> DEFINE p == placedAt[b]
                 q == p \div MonthLength
      <3>3. p \in Int /\ p >= 0 /\ p <= Months * MonthLength
        <4>1. Months * MonthLength \in Int BY <1>0
        <4> QED BY <3>2, <4>1
      <3> HIDE DEF p
      <3>4. q \in Int /\ q * MonthLength <= p /\ p < q * MonthLength + MonthLength BY <1>0, <3>3, Divides
      <3> HIDE DEF q
      <3>5. q <= Months
        <4>1. q * MonthLength <= Months * MonthLength
          <5>1. Months * MonthLength \in Int /\ q * MonthLength \in Int BY <1>0, <3>4
          <5> QED BY <3>3, <3>4, <5>1
        <4> QED BY <1>0, <3>4, <4>1, Factor
      <3>6. q >= 0
        <4> SUFFICES ASSUME q + 1 <= 0 PROVE FALSE BY <3>4
        <4>1. MonthLength * (q + 1) <= MonthLength * 0 BY <1>0, <3>4, Widen
        <4>2. MonthLength * (q + 1) = q * MonthLength + MonthLength /\ MonthLength * 0 = 0 BY <1>0, <3>4
        <4> QED BY <1>0, <3>3, <3>4, <4>1, <4>2
      <3>7. q \in 0..Months BY <1>0, <3>4, <3>5, <3>6
      <3> QED BY <3>7 DEF p, q
    <2> HIDE DEF all
    <2>3. MapThenSumSet(LAMBDA n : Window(o, MonthLength, n).bets, all) = Cardinality(Counted(o))
      <3>1. MonthLength \in Nat /\ MonthLength > 0 BY <1>0
      <3>2. MapThenSumSet(LAMBDA n : Window(o, MonthLength, n).bets, all) = Cardinality(CountedIn(o, MonthLength, all))
        BY ONLY <1>1, <2>1, <3>1, WindowsCover
      <3> QED BY ONLY <2>2, <3>2
    <2>4. MapThenSumSet(LAMBDA m : Month(o, m).bets, all) = MapThenSumSet(LAMBDA n : Window(o, MonthLength, n).bets, all)
      BY DEF Month, Window
    <2> QED BY <2>3, <2>4 DEF all
  <1> QED BY <1>2, <1>3 DEF WindowsAddUp, Counted

\* The days of a month are the month and the months all that was counted, and the invoices
\* of a month that is over differ by its late bets alone (GET /reports, GET /settlements/invoice).
THEOREM ReportsAddUp == BillingSpec => []BillingIsRight
  <1>1. BillingInit => WindowInv
    <2>1. Months * MonthLength \in Nat BY BilledConstants, MonthLengthIsPositive
    <2> QED BY <2>1 DEF BillingInit, WindowInv, NotPlaced, StakeCounted
  <1>2. WindowInv /\ [BillingNext]_billingVars => WindowInv' BY WindowStep
  <1>3. WindowInv => WindowsAddUp BY WindowsAreRight
  <1>4. BillingSpec => []InvoicesAgree BY InvoicesStayTrue
  <1> QED BY <1>1, <1>2, <1>3, <1>4, PTL DEF BillingSpec, BillingIsRight

-----------------------------------------------------------------------------
(* The purses of match bets. *)

Amounts(set) == [e \in set |-> e.amount]

LEMMA AmountIsSum == ASSUME NEW S, IsFiniteSet(S) PROVE Amount(S) = SumFunctionOnSet(Amounts(S), S)
  <1> DEFINE amounts == Amounts(S)
             summing(it) == it = [s \in SUBSET S |-> IF s = {} THEN 0 ELSE Chosen(s).amount + it[Rest(s)]]
             chosen == CHOOSE it : summing(it)
  <1>1. Amount(S) = chosen[S] BY DEF Amount, MapThenFoldSet, MapThenSumSet, Chosen, Rest
  <1>2. \A s \in SUBSET S : s # {} => Chosen(s) \in S BY DEF Chosen
  <1>3. \A e \in S : amounts[e] = e.amount BY DEF Amounts
  <1> HIDE DEF amounts
  <1>4. \A it : summing(it) <=> SumsUp(it, amounts, S) BY <1>2, <1>3 DEF SumsUp
  <1>5. \E it : SumsUp(it, amounts, S) BY SumExists
  <1>6. SumsUp(chosen, amounts, S)
    <2> HIDE DEF summing
    <2> QED BY <1>4, <1>5
  <1> HIDE DEF chosen
  <1>7. chosen[S] = SumFunctionOnSet(amounts, S) BY <1>6, SummationIsSum
  <1> QED BY <1>1, <1>7 DEF amounts

LEMMA AmountType == ASSUME NEW S, IsFiniteSet(S), \A e \in S : e.amount \in Int PROVE Amount(S) \in Int
  <1> DEFINE f == Amounts(S)
  <1>1. \A e \in S : f[e] \in Int BY DEF Amounts
  <1>2. Amount(S) = SumFunctionOnSet(f, S) BY AmountIsSum
  <1> HIDE DEF f
  <1> QED BY <1>1, <1>2, SumType

LEMMA AmountOfNone == Amount({}) = 0
  <1> DEFINE f == Amounts({})
  <1>1. IsFiniteSet({}) BY FS_EmptySet
  <1>2. Amount({}) = SumFunctionOnSet(f, {}) BY <1>1, AmountIsSum
  <1> HIDE DEF f
  <1> QED BY <1>1, <1>2, SumSteps

LEMMA AmountAdds ==
  ASSUME NEW S, NEW T, IsFiniteSet(S), IsFiniteSet(T), S \cap T = {}, \A e \in S \cup T : e.amount \in Int
  PROVE  Amount(S \cup T) = Amount(S) + Amount(T)
  <1> DEFINE all == S \cup T
             f == Amounts(all)
             g == Amounts(S)
             h == Amounts(T)
  <1>1. (\A e \in all : f[e] \in Int) /\ (\A e \in S : g[e] = f[e]) /\ (\A e \in T : h[e] = f[e]) BY DEF Amounts
  <1>2. IsFiniteSet(all) BY FS_Union
  <1>3. Amount(all) = SumFunctionOnSet(f, all) /\ Amount(S) = SumFunctionOnSet(g, S) /\ Amount(T) = SumFunctionOnSet(h, T)
    BY <1>2, AmountIsSum
  <1> HIDE DEF f, g, h
  <1>4. SumFunctionOnSet(g, S) = SumFunctionOnSet(f, S) /\ SumFunctionOnSet(h, T) = SumFunctionOnSet(f, T)
    <2>1. SumFunctionOnSet(g, S) = SumFunctionOnSet(f, S) BY <1>1, SumSame
    <2>2. SumFunctionOnSet(h, T) = SumFunctionOnSet(f, T) BY <1>1, SumSame
    <2> QED BY <2>1, <2>2
  <1>5. SumFunctionOnSet(f, all) = SumFunctionOnSet(f, S) + SumFunctionOnSet(f, T) BY <1>1, SumUnion
  <1> QED BY <1>3, <1>4, <1>5

LEMMA AmountOfOne == ASSUME NEW S, IsFiniteSet(S), NEW y, y \notin S, \A e \in S \cup {y} : e.amount \in Int
  PROVE  IsFiniteSet(S \cup {y}) /\ Amount(S \cup {y}) = Amount(S) + y.amount
  <1> DEFINE one == {y}
             f == Amounts(one)
  <1>1. IsFiniteSet(one) /\ Cardinality(one) = 1 BY FS_Singleton
  <1>2. \A e \in one : f[e] = y.amount BY DEF Amounts
  <1>3. Amount(one) = SumFunctionOnSet(f, one) BY <1>1, AmountIsSum
  <1>4. y.amount \in Int /\ S \cap one = {} /\ (\A e \in S \cup one : e.amount \in Int) OBVIOUS
  <1> HIDE DEF one, f
  <1>5. SumFunctionOnSet(f, one) = y.amount * Cardinality(one) BY <1>1, <1>2, <1>4, SumConst
  <1>6. Amount(S \cup one) = Amount(S) + Amount(one) BY <1>1, <1>4, AmountAdds
  <1>7. IsFiniteSet(S \cup one) BY <1>1, FS_Union
  <1> QED BY <1>1, <1>3, <1>4, <1>5, <1>6, <1>7 DEF one

\* Who has begun to pay holds the player's lock, and what he has paid so far was there.
PurseInv ==
  /\ IsFiniteSet(entries) /\ \A e \in entries : e.amount \in Int
  /\ \A s \in Slips : IsFiniteSet(slip[s].tx) /\ \A e \in slip[s].tx : e.amount \in Int
  /\ \A s \in Slips : slip[s].pc # "placing" => slip[s].tx = {}
  /\ \A s, t \in Slips : s # t /\ SlipBettor[s] = SlipBettor[t] => slip[s].tx = {} \/ slip[t].tx = {}
  /\ \A s \in Slips : PurseOf(SlipBettor[s]) + Amount(slip[s].tx) >= 0
  /\ MatchPurseNotOverdrawn

PostedBy(p) == {e \in entries : SlipBettor[e.slip] = p}

LEMMA PurseType == ASSUME PurseInv, NEW p
  PROVE  IsFiniteSet(PostedBy(p)) /\ PurseOf(p) \in Int /\ PurseOf(p) = MatchPurse + Amount(PostedBy(p))
  <1>1. PostedBy(p) \subseteq entries BY DEF PostedBy
  <1>2. IsFiniteSet(PostedBy(p)) /\ \A e \in PostedBy(p) : e.amount \in Int BY <1>1, FS_Subset DEF PurseInv
  <1>3. Amount(PostedBy(p)) \in Int BY <1>2, AmountType
  <1>4. MatchPurse \in Int BY MatchAssumption DEF MatchAssumption
  <1> QED BY <1>2, <1>3, <1>4 DEF PurseOf, PostedBy

LEMMA BettorOfSlip == ASSUME NEW s \in Slips PROVE SlipBettor[s] \in Bettors /\ SlipStake[s] \in Nat
  <1>1. SlipBettor \in [Slips -> Bettors] BY MatchAssumption DEF MatchAssumption
  <1>2. SlipStake \in [Slips -> Nat \ {0}] BY MatchAssumption DEF MatchAssumption
  <1> QED BY <1>1, <1>2

\* A slip whose transaction is empty weighs on no purse.
LEMMA EmptyHanded ==
  ASSUME SlipInv, PurseInv, NEW s \in Slips, NEW r, r.tx = {}, slip' = [slip EXCEPT ![s] = r], UNCHANGED entries
  PROVE  PurseInv'
  <1>1. slip'[s] = r /\ \A t \in Slips \ {s} : slip'[t] = slip[t] BY DEF SlipInv
  <1>2. \A p : PurseOf(p)' = PurseOf(p) BY DEF PurseOf
  <1>3. \A t \in Slips : slip'[t].tx = slip[t].tx \/ slip'[t].tx = {} BY <1>1
  <1>4. ASSUME NEW t \in Slips PROVE PurseOf(SlipBettor[t])' + Amount(slip'[t].tx) >= 0
    <2>1. CASE slip'[t].tx = slip[t].tx BY <1>2, <2>1 DEF PurseInv
    <2>2. CASE slip'[t].tx = {}
      <3>1. PurseOf(SlipBettor[t]) >= 0 /\ PurseOf(SlipBettor[t]) \in Int
        BY BettorOfSlip, PurseType DEF PurseInv, MatchPurseNotOverdrawn
      <3>2. PurseOf(SlipBettor[t])' = PurseOf(SlipBettor[t]) BY <1>2
      <3>3. Amount(slip'[t].tx) = 0 BY <2>2, AmountOfNone
      <3> QED BY <3>1, <3>2, <3>3
    <2> QED BY <1>3, <2>1, <2>2
  <1>5. \A t \in Slips : IsFiniteSet(slip'[t].tx) /\ \A e \in slip'[t].tx : e.amount \in Int
    <2>1. IsFiniteSet({}) BY FS_EmptySet
    <2> QED BY <1>3, <2>1 DEF PurseInv
  <1>6. \A t \in Slips : slip'[t].pc # "placing" => slip'[t].tx = {} BY <1>1 DEF PurseInv
  <1>7. \A t, u \in Slips : t # u /\ SlipBettor[t] = SlipBettor[u] => slip'[t].tx = {} \/ slip'[u].tx = {}
    BY <1>3 DEF PurseInv
  <1>8. MatchPurseNotOverdrawn' BY <1>2 DEF PurseInv, MatchPurseNotOverdrawn
  <1>9. IsFiniteSet(entries') /\ \A e \in entries' : e.amount \in Int BY DEF PurseInv
  <1> QED BY <1>4, <1>5, <1>6, <1>7, <1>8, <1>9 DEF PurseInv

LEMMA EndIsEmpty == ASSUME SlipInv, PurseInv, NEW s \in Slips, NEW answer, EndSlip(s, answer), UNCHANGED entries PROVE PurseInv'
  <1> DEFINE r == [Idle EXCEPT !.pc = answer]
  <1>1. slip' = [slip EXCEPT ![s] = r] BY DEF EndSlip
  <1>2. r.tx = {} BY DEF Idle
  <1> HIDE DEF r
  <1> QED BY <1>1, <1>2, EmptyHanded

LEMMA ResolveIsEmpty ==
  ASSUME SlipInv, PurseInv, NEW s \in Slips, NEW f, Resolve(s, f), UNCHANGED entries PROVE PurseInv'
  <1>1. CASE EndSlip(s, "refused") \/ EndSlip(s, "odds changed") BY <1>1, EndIsEmpty
  <1>2. CASE \E seed \in Seeds :
         slip' = [slip EXCEPT ![s] = [Idle EXCEPT !.pc = "placing", !.feed = f, !.at = mclock, !.bets = Bets(s, f, seed)]]
    <2>1. PICK seed \in Seeds :
         slip' = [slip EXCEPT ![s] = [Idle EXCEPT !.pc = "placing", !.feed = f, !.at = mclock, !.bets = Bets(s, f, seed)]]
      BY <1>2
    <2> DEFINE bets == Bets(s, f, seed)
               r == [Idle EXCEPT !.pc = "placing", !.feed = f, !.at = mclock, !.bets = bets]
    <2>2. slip' = [slip EXCEPT ![s] = r] BY <2>1
    <2> HIDE DEF bets
    <2>3. r.tx = {} BY DEF Idle
    <2> HIDE DEF r
    <2> QED BY <2>2, <2>3, EmptyHanded
  <1> QED BY <1>1, <1>2 DEF Resolve

\* A stake is taken under the lock, from what is there with what the request has paid and won.
LEMMA PlaceOnPurse == ASSUME SlipInv, PurseInv, NEW s \in Slips, PlaceOne(s) PROVE PurseInv'
  <1> DEFINE tx == slip[s].tx
             bets == slip[s].bets
             p == SlipBettor[s]
  <1>1. PICK i \in DOMAIN bets :
          /\ i = 1 + Cardinality({e \in tx : e.type = "bet"})
          /\ IF PurseOf(p) + Amount(tx) < SlipStake[s] THEN EndSlip(s, "no funds")
             ELSE slip' = [slip EXCEPT ![s].tx = @ \cup {StakeEntry(s, i)}
                             \cup (IF bets[i].payout > 0 THEN {WinEntry(s, i, bets)} ELSE {})]
    BY DEF PlaceOne, StakeEntry, WinEntry
  <1>2. slip[s].pc = "placing" /\ UNCHANGED entries /\ PlayerLockFree(s) BY DEF PlaceOne
  <1>3. CASE PurseOf(p) + Amount(tx) < SlipStake[s] BY <1>1, <1>2, <1>3, EndIsEmpty
  <1>4. CASE ~(PurseOf(p) + Amount(tx) < SlipStake[s])
    <2> DEFINE stake == StakeEntry(s, i)
               win == WinEntry(s, i, bets)
               paid == tx \cup {stake}
               grown == paid \cup (IF bets[i].payout > 0 THEN {win} ELSE {})
    <2>1. SlipIsUnderWay(s, slip[s]) BY DEF SlipInv
    <2>2. /\ DOMAIN bets = 1..Len(bets) /\ Len(bets) \in Nat
          /\ \A k \in DOMAIN bets : bets[k].payout \in Nat
          /\ \E n \in 0..Len(bets) : tx = EntriesOf(s, bets, n)
      BY <1>2, <2>1 DEF SlipIsUnderWay, BetIsAsSeen, EntriesOf
    <2>3. PICK n \in 0..Len(bets) : tx = EntriesOf(s, bets, n) BY <2>2
    <2>4. n \in Nat BY <2>2, <2>3
    <2>5. {e.bet : e \in tx} = 1..n /\ Cardinality({e \in tx : e.type = "bet"}) = n
      <3>1. {e.bet : e \in EntriesOf(s, bets, n)} = 1..n BY <2>4, EntriesOfBets
      <3>2. Cardinality({e \in EntriesOf(s, bets, n) : e.type = "bet"}) = n BY <2>4, StakesCount DEF EntriesOf
      <3> QED BY <2>3, <3>1, <3>2
    <2>6. i = n + 1 /\ bets[i].payout \in Nat
      <3>1. i = 1 + n BY ONLY <1>1, <2>5
      <3>2. bets[i].payout \in Nat BY ONLY <1>1, <2>2
      <3> QED BY ONLY <2>4, <3>1, <3>2
    <2>7. /\ stake.bet = i /\ win.bet = i /\ stake.type = "bet" /\ win.type = "win"
          /\ stake.amount = -SlipStake[s] /\ win.amount = bets[i].payout
      BY DEF StakeEntry, WinEntry
    <2>8. stake \notin tx /\ win \notin paid
      <3>1. i \notin 1..n BY <2>4, <2>6
      <3>2. \A e \in tx : e.bet # i BY <2>5, <3>1
      <3> QED BY <2>7, <3>2
    <2>9. slip' = [slip EXCEPT ![s].tx = grown]
      <3>1. slip' = [slip EXCEPT ![s].tx = slip[s].tx \cup {StakeEntry(s, i)}
                       \cup (IF bets[i].payout > 0 THEN {WinEntry(s, i, bets)} ELSE {})]
        BY <1>1, <1>4
      <3> QED BY <3>1
    <2>10. /\ slip'[s].tx = grown /\ slip'[s].pc = "placing" /\ \A t \in Slips \ {s} : slip'[t] = slip[t]
      <3> HIDE DEF grown
      <3>1. DOMAIN slip = Slips /\ "tx" \in DOMAIN slip[s] BY <2>1 DEF SlipInv, SlipIsUnderWay
      <3> QED BY <1>2, <2>9, <3>1
    <2>11. IsFiniteSet(tx) /\ (\A e \in tx : e.amount \in Int) /\ SlipStake[s] \in Nat /\ p \in Bettors
      BY BettorOfSlip DEF PurseInv
    <2> HIDE DEF tx, bets, stake, win, paid
    <2>12. IsFiniteSet(paid) /\ Amount(paid) = Amount(tx) - SlipStake[s] /\ \A e \in paid : e.amount \in Int
      <3>1. stake.amount \in Int BY <2>7, <2>11
      <3>2. \A e \in tx \cup {stake} : e.amount \in Int BY <2>11, <3>1
      <3>3. IsFiniteSet(tx \cup {stake}) /\ Amount(tx \cup {stake}) = Amount(tx) + stake.amount
        BY <2>8, <2>11, <3>2, AmountOfOne
      <3>4. Amount(tx) \in Int BY <2>11, AmountType
      <3> QED BY <2>7, <2>11, <3>2, <3>3, <3>4 DEF paid
    <2>13. IsFiniteSet(grown) /\ Amount(grown) = Amount(paid) + bets[i].payout /\ \A e \in grown : e.amount \in Int
      <3>1. CASE bets[i].payout > 0
        <4>1. \A e \in paid \cup {win} : e.amount \in Int BY <2>6, <2>7, <2>12
        <4>2. IsFiniteSet(paid \cup {win}) /\ Amount(paid \cup {win}) = Amount(paid) + win.amount
          BY <2>8, <2>12, <4>1, AmountOfOne
        <4> QED BY <2>7, <3>1, <4>1, <4>2
      <3>2. CASE ~(bets[i].payout > 0)
        <4>1. grown = paid /\ bets[i].payout = 0 BY <2>6, <3>2
        <4>2. Amount(paid) \in Int BY <2>12, AmountType
        <4> HIDE DEF grown
        <4> QED BY <2>12, <4>1, <4>2
      <3> QED BY <3>1, <3>2
    <2> HIDE DEF grown
    <2>14. \A q : PurseOf(q)' = PurseOf(q) BY <1>2 DEF PurseOf
    <2>15. PurseOf(p)' + Amount(slip'[s].tx) >= 0
      <3>1. PurseOf(p) \in Int BY PurseType
      <3>2. Amount(tx) \in Int BY <2>11, AmountType
      <3>3. PurseOf(p) + (Amount(tx) - SlipStake[s] + bets[i].payout) >= 0 BY <1>4, <2>6, <2>11, <3>1, <3>2
      <3> QED BY <2>10, <2>12, <2>13, <2>14, <3>3
    <2>16. \A t \in Slips \ {s} : SlipBettor[t] = p => slip[t].tx = {}
      BY <1>2 DEF PlayerLockFree, LockHeldBy, PurseInv
    <2>17. \A t \in Slips : IsFiniteSet(slip'[t].tx) /\ \A e \in slip'[t].tx : e.amount \in Int
      BY <2>10, <2>13 DEF PurseInv
    <2>18. \A t \in Slips : slip'[t].pc # "placing" => slip'[t].tx = {} BY <2>10 DEF PurseInv
    <2>19. \A t, u \in Slips : t # u /\ SlipBettor[t] = SlipBettor[u] => slip'[t].tx = {} \/ slip'[u].tx = {}
      BY <2>10, <2>16 DEF PurseInv
    <2>20. \A t \in Slips : PurseOf(SlipBettor[t])' + Amount(slip'[t].tx) >= 0 BY <2>10, <2>14, <2>15 DEF PurseInv
    <2>21. MatchPurseNotOverdrawn' BY <2>14 DEF PurseInv, MatchPurseNotOverdrawn
    <2>22. IsFiniteSet(entries') /\ \A e \in entries' : e.amount \in Int BY <1>2 DEF PurseInv
    <2> QED BY <2>17, <2>18, <2>19, <2>20, <2>21, <2>22 DEF PurseInv
  <1> QED BY <1>3, <1>4

LEMMA CommitOnPurse == ASSUME SlipInv, PurseInv, NEW s \in Slips, Commit(s) PROVE PurseInv'
  <1> DEFINE tx == slip[s].tx
             bets == slip[s].bets
             p == SlipBettor[s]
             r == [Idle EXCEPT !.pc = "placed"]
  <1>1. slip[s].pc = "placing" /\ entries' = entries \cup tx /\ slip' = [slip EXCEPT ![s] = r]
    BY DEF Commit, EndSlip
  <1>2. r.tx = {} BY DEF Idle
  <1> HIDE DEF r
  <1>3. slip'[s] = r /\ \A t \in Slips \ {s} : slip'[t] = slip[t] BY <1>1 DEF SlipInv
  <1>4. \A e \in tx : e.slip = s
    <2>1. SlipIsUnderWay(s, slip[s]) BY DEF SlipInv
    <2>2. Len(bets) \in Nat /\ \E n \in 0..Len(bets) : tx = EntriesOf(s, bets, n)
      BY <1>1, <2>1 DEF SlipIsUnderWay, EntriesOf
    <2>3. PICK n \in 0..Len(bets) : tx = EntriesOf(s, bets, n) BY <2>2
    <2>4. n \in Nat BY <2>2, <2>3
    <2> HIDE DEF tx, bets
    <2>5. \A e \in EntriesOf(s, bets, n) : e.slip = s BY <2>4, EntriesOfBets
    <2> QED BY <2>3, <2>5
  <1>5. \A e \in entries : e.slip # s BY <1>1 DEF SlipInv, PostedOf
  <1>6. IsFiniteSet(entries) /\ (\A e \in entries : e.amount \in Int) /\ IsFiniteSet(tx) /\ (\A e \in tx : e.amount \in Int)
        /\ PurseOf(p) + Amount(tx) >= 0 /\ p \in Bettors
    BY BettorOfSlip DEF PurseInv
  <1>7. \A t \in Slips \ {s} : SlipBettor[t] = p => slip[t].tx = {} \/ tx = {} BY DEF PurseInv
  <1> HIDE DEF tx
  <1>8. IsFiniteSet(entries') /\ \A e \in entries' : e.amount \in Int BY <1>1, <1>6, FS_Union
  <1>9. \A q : q # p => PurseOf(q)' = PurseOf(q)
    <2> SUFFICES ASSUME NEW q, q # p PROVE PurseOf(q)' = PurseOf(q) OBVIOUS
    <2>1. {e \in entries' : SlipBettor[e.slip] = q} = {e \in entries : SlipBettor[e.slip] = q} BY <1>1, <1>4
    <2> QED BY <2>1 DEF PurseOf
  <1>10. PurseOf(p)' = PurseOf(p) + Amount(tx)
    <2> DEFINE had == PostedBy(p)
    <2>1. {e \in entries' : SlipBettor[e.slip] = p} = had \cup tx BY <1>1, <1>4 DEF PostedBy
    <2>2. IsFiniteSet(had) /\ PurseOf(p) = MatchPurse + Amount(had) BY PurseType
    <2>3. had \cap tx = {} BY <1>4, <1>5 DEF PostedBy
    <2>4. (\A e \in had : e.amount \in Int) /\ \A e \in had \cup tx : e.amount \in Int BY <1>6 DEF PostedBy
    <2> HIDE DEF had
    <2>5. Amount(had \cup tx) = Amount(had) + Amount(tx) BY <1>6, <2>2, <2>3, <2>4, AmountAdds
    <2>6. PurseOf(p)' = MatchPurse + Amount(had \cup tx) BY <2>1 DEF PurseOf
    <2>7. Amount(had) \in Int /\ Amount(tx) \in Int BY <1>6, <2>2, <2>4, AmountType
    <2>8. MatchPurse \in Int BY MatchAssumption DEF MatchAssumption
    <2> QED BY <2>2, <2>5, <2>6, <2>7, <2>8
  <1>11. PurseOf(p)' >= 0 /\ PurseOf(p)' \in Int
    <2>1. PurseOf(p) \in Int /\ Amount(tx) \in Int BY <1>6, PurseType, AmountType
    <2> QED BY <1>6, <1>10, <2>1
  <1>12. MatchPurseNotOverdrawn' BY <1>9, <1>11 DEF PurseInv, MatchPurseNotOverdrawn
  <1>13. ASSUME NEW t \in Slips PROVE PurseOf(SlipBettor[t])' + Amount(slip'[t].tx) >= 0
    <2>1. CASE SlipBettor[t] # p
      <3>1. slip'[t] = slip[t] BY <1>3, <2>1
      <3> QED BY <1>9, <2>1, <3>1 DEF PurseInv
    <2>2. CASE SlipBettor[t] = p /\ slip'[t].tx = {} BY <1>11, <2>2, AmountOfNone
    <2>3. CASE SlipBettor[t] = p /\ slip'[t].tx # {}
      <3>1. t # s /\ slip'[t].tx = slip[t].tx BY <1>2, <1>3, <2>3
      <3>2. tx = {} BY <1>7, <2>3, <3>1
      <3>3. PurseOf(p) + Amount(slip[t].tx) >= 0 BY <2>3 DEF PurseInv
      <3>4. PurseOf(p)' = PurseOf(p) BY <1>10, <3>2, AmountOfNone, PurseType
      <3> QED BY <2>3, <3>1, <3>3, <3>4
    <2> QED BY <2>1, <2>2, <2>3
  <1>14. \A t \in Slips : slip'[t].tx = slip[t].tx \/ slip'[t].tx = {} BY <1>2, <1>3
  <1>15. \A t \in Slips : IsFiniteSet(slip'[t].tx) /\ \A e \in slip'[t].tx : e.amount \in Int
    <2>1. IsFiniteSet({}) BY FS_EmptySet
    <2> QED BY <1>14, <2>1 DEF PurseInv
  <1>16. \A t \in Slips : slip'[t].pc # "placing" => slip'[t].tx = {} BY <1>2, <1>3 DEF PurseInv
  <1>17. \A t, u \in Slips : t # u /\ SlipBettor[t] = SlipBettor[u] => slip'[t].tx = {} \/ slip'[u].tx = {}
    BY <1>14 DEF PurseInv
  <1> QED BY <1>8, <1>12, <1>13, <1>15, <1>16, <1>17 DEF PurseInv

LEMMA PurseStep == ASSUME SlipInv, PurseInv, MatchNext PROVE PurseInv'
  <1>1. ASSUME NEW s \in Slips, CheckFunds(s) PROVE PurseInv'
    <2>1. slip[s].pc = "idle" /\ UNCHANGED entries BY <1>1 DEF CheckFunds
    <2>2. CASE EndSlip(s, "refused") \/ EndSlip(s, "no funds") BY <2>1, <2>2, EndIsEmpty
    <2>3. CASE slip' = [slip EXCEPT ![s].pc = "funded", ![s].at = mclock]
      <3> DEFINE r == [slip[s] EXCEPT !.pc = "funded", !.at = mclock]
      <3>1. slip' = [slip EXCEPT ![s] = r] BY <2>3 DEF SlipInv
      <3>2. slip[s].tx = {} /\ DOMAIN slip[s] = {"pc", "feed", "at", "bets", "tx"}
        BY <2>1 DEF PurseInv, SlipInv, SlipIsUnderWay
      <3>3. r.tx = {} BY <3>2
      <3> HIDE DEF r
      <3> QED BY <2>1, <3>1, <3>3, EmptyHanded
    <2> QED BY <1>1, <2>2, <2>3 DEF CheckFunds
  <1>2. ASSUME NEW s \in Slips, UseCachedFeed(s) PROVE PurseInv'
    <2>1. UNCHANGED entries /\ Resolve(s, feedCache.feed) BY <1>2 DEF UseCachedFeed
    <2> QED BY <2>1, ResolveIsEmpty
  <1>3. ASSUME NEW s \in Slips, FetchFeed(s) PROVE PurseInv'
    <2>1. slip[s].pc = "funded" /\ UNCHANGED entries
          /\ slip' = [slip EXCEPT ![s].pc = "fetching", ![s].feed = harvested, ![s].at = mclock]
      BY <1>3 DEF FetchFeed
    <2> DEFINE r == [slip[s] EXCEPT !.pc = "fetching", !.feed = harvested, !.at = mclock]
    <2>2. slip' = [slip EXCEPT ![s] = r] BY <2>1 DEF SlipInv
    <2>3. slip[s].tx = {} /\ DOMAIN slip[s] = {"pc", "feed", "at", "bets", "tx"}
      BY <2>1 DEF PurseInv, SlipInv, SlipIsUnderWay
    <2>4. r.tx = {} BY <2>3
    <2> HIDE DEF r
    <2> QED BY <2>1, <2>2, <2>4, EmptyHanded
  <1>4. ASSUME NEW s \in Slips, FeedArrives(s) PROVE PurseInv'
    <2>1. UNCHANGED entries /\ \E f \in {slip[s].feed, 0} : Resolve(s, f) BY <1>4 DEF FeedArrives
    <2> QED BY <2>1, ResolveIsEmpty
  <1>5. ASSUME NEW s \in Slips, PlacingFails(s) PROVE PurseInv'
    <2>1. UNCHANGED entries /\ EndSlip(s, "error") BY <1>5 DEF PlacingFails
    <2> QED BY <2>1, EndIsEmpty
  <1>6. CASE Harvest \/ MatchTick
    <2>1. UNCHANGED <<slip, entries>> BY <1>6 DEF Harvest, MatchTick
    <2> QED BY <2>1 DEF PurseInv, MatchPurseNotOverdrawn, PurseOf
  <1> QED BY <1>1, <1>2, <1>3, <1>4, <1>5, <1>6, PlaceOnPurse, CommitOnPurse DEF MatchNext

LEMMA PurseStart == ASSUME MatchInit PROVE PurseInv
  <1>1. entries = {} /\ \A s \in Slips : slip[s].tx = {} BY DEF MatchInit, Idle
  <1>2. IsFiniteSet({}) /\ Amount({}) = 0 BY FS_EmptySet, AmountOfNone
  <1>3. \A p : {e \in entries : SlipBettor[e.slip] = p} = {} BY <1>1
  <1>4. MatchPurse \in Nat BY MatchAssumption DEF MatchAssumption
  <1>5. \A p : PurseOf(p) = MatchPurse + 0 BY <1>2, <1>3 DEF PurseOf
  <1>6. \A p : PurseOf(p) >= 0 /\ PurseOf(p) + 0 >= 0 BY <1>4, <1>5
  <1> QED BY <1>1, <1>2, <1>6 DEF PurseInv, MatchPurseNotOverdrawn

-----------------------------------------------------------------------------
(* The score of a settled pick, and the goals that lead to it. *)

Mass(set) == SumFunctionOnSet(Weight, set)
Before(fits, s) == {t \in fits : Earlier(t, s)}

LEMMA ScoresAreFinite == IsFiniteSet(Scores) /\ \A s \in Scores : s[1] \in Nat /\ s[2] \in Nat /\ s[1] <= MaxGoals /\ s[2] <= MaxGoals
  <1> DEFINE side == 0..MaxGoals
  <1>1. MaxGoals \in Nat BY DrawAssumption
  <1>2. IsFiniteSet(side) BY <1>1, FS_Interval
  <1>3. Scores = side \X side BY DEF Scores
  <1>4. \A s \in Scores : s[1] \in side /\ s[2] \in side BY <1>3
  <1>5. IsFiniteSet(side \X side)
    <2> HIDE DEF side
    <2> QED BY <1>2, FS_Product
  <1> QED BY <1>1, <1>3, <1>4, <1>5

\* Some score comes last.
LEMMA SomeIsLast ==
  ASSUME NEW D, D \subseteq Scores, D # {}
  PROVE  \E s \in D : \A t \in D : t # s => Earlier(t, s)
  <1> DEFINE last(d) == \E s \in d : \A t \in d : t # s => Earlier(t, s)
             good == {d \in SUBSET D : d = {} \/ last(d)}
  <1>1. IsFiniteSet(D) BY ScoresAreFinite, FS_Subset
  <1>2. \A s, t \in Scores : s # t => Earlier(s, t) \/ Earlier(t, s)
    <2> SUFFICES ASSUME NEW s \in Scores, NEW t \in Scores, s # t PROVE Earlier(s, t) \/ Earlier(t, s) OBVIOUS
    <2>1. s = <<s[1], s[2]>> /\ t = <<t[1], t[2]>> BY DEF Scores
    <2>2. s[1] # t[1] \/ s[2] # t[2] BY <2>1
    <2> QED BY <2>2, ScoresAreFinite DEF Earlier
  <1>3. \A r, s, t \in Scores : Earlier(r, s) /\ Earlier(s, t) => Earlier(r, t) BY ScoresAreFinite DEF Earlier
  <1>4. ASSUME NEW d \in SUBSET D, \A x \in d : d \ {x} \in good PROVE d \in good
    <2> SUFFICES ASSUME NEW x \in d PROVE last(d) OBVIOUS
    <2>1. CASE d \ {x} = {} BY <2>1
    <2>2. CASE d \ {x} # {}
      <3>1. PICK s \in d \ {x} : \A t \in d \ {x} : t # s => Earlier(t, s) BY <1>4, <2>2
      <3>2. CASE Earlier(x, s) BY <3>1, <3>2
      <3>3. CASE Earlier(s, x)
        <4>1. \A t \in d : t # x => Earlier(t, x) BY <1>3, <3>1, <3>3
        <4> QED BY <4>1
      <3> QED BY <1>2, <3>1, <3>2, <3>3
    <2> QED BY <2>1, <2>2
  <1> HIDE DEF good
  <1>5. D \in good BY <1>1, <1>4, SetInduction
  <1> QED BY <1>5 DEF good

LEMMA MassOf ==
  /\ Mass({}) = 0
  /\ \A d \in SUBSET Scores : Mass(d) \in Int /\ \A s \in d : Mass(d) = Weight[s] + Mass(d \ {s})
  <1>1. \A s \in Scores : Weight[s] \in Int BY DrawAssumption
  <1>2. SumRules(Weight, Scores)
    <2>1. IntegralOn(Weight, Scores) BY <1>1 DEF IntegralOn
    <2> QED BY <2>1, ScoresAreFinite, SumRulesHold
  <1> QED BY <1>2 DEF SumRules, Mass

\* Whatever is drawn below the whole mass falls to a score.
LEMMA SomeIsDrawn ==
  ASSUME NEW fits, fits \subseteq Scores, NEW m \in Nat, m < 1000 * Mass(fits)
  PROVE  \E s \in fits : 1000 * Mass(Before(fits, s)) <= m /\ m < 1000 * (Mass(Before(fits, s)) + Weight[s])
  <1> DEFINE closed(d) == \A s \in d : Before(fits, s) \subseteq d
             drawn(d) == \E s \in d : /\ 1000 * Mass(Before(fits, s)) <= m
                                      /\ m < 1000 * (Mass(Before(fits, s)) + Weight[s])
             good == {d \in SUBSET fits : closed(d) /\ m < 1000 * Mass(d) => drawn(d)}
  <1>1. IsFiniteSet(fits) BY ScoresAreFinite, FS_Subset
  <1>2. ASSUME NEW d \in SUBSET fits, \A x \in d : d \ {x} \in good PROVE d \in good
    <2> SUFFICES ASSUME closed(d), m < 1000 * Mass(d) PROVE drawn(d) OBVIOUS
    <2>1. d # {} BY MassOf
    <2>2. PICK s \in d : \A t \in d : t # s => Earlier(t, s) BY <2>1, SomeIsLast
    <2>3. \A t \in Scores : ~Earlier(t, t) BY ScoresAreFinite DEF Earlier
    <2>4. Before(fits, s) = d \ {s} BY <2>2, <2>3 DEF Before
    <2>5. \A r, t \in Scores : Earlier(r, t) => ~Earlier(t, r) BY ScoresAreFinite DEF Earlier
    <2>6. closed(d \ {s}) BY <2>2, <2>5 DEF Before
    <2>7. d \ {s} \in good BY <1>2
    <2>8. Mass(d) = Weight[s] + Mass(d \ {s}) /\ Mass(d) \in Int /\ Mass(d \ {s}) \in Int BY MassOf
    <2>9. Weight[s] \in Nat BY DrawAssumption
    <2>10. CASE m < 1000 * Mass(d \ {s})
      <3>1. drawn(d \ {s}) BY <2>6, <2>7, <2>10
      <3> QED BY <3>1
    <2>11. CASE ~(m < 1000 * Mass(d \ {s}))
      <3>1. 1000 * Mass(d \ {s}) <= m /\ m < 1000 * (Mass(d \ {s}) + Weight[s]) BY <2>8, <2>9, <2>11
      <3> QED BY <2>4, <3>1
    <2> QED BY <2>10, <2>11
  <1> HIDE DEF good
  <1>3. fits \in good BY <1>1, <1>2, SetInduction
  <1>4. closed(fits) BY DEF Before
  <1> HIDE DEF closed
  <1> QED BY <1>3, <1>4 DEF good

LEMMA MassIsPositive == ASSUME NEW fits, fits \subseteq Scores, fits # {} PROVE Mass(fits) \in Nat /\ Mass(fits) > 0
  <1> DEFINE good == {d \in SUBSET fits : Mass(d) >= 0}
  <1>1. IsFiniteSet(fits) BY ScoresAreFinite, FS_Subset
  <1>2. \A d \in SUBSET fits : Mass(d) \in Int /\ \A s \in d : Mass(d) = Weight[s] + Mass(d \ {s}) /\ Weight[s] \in Nat /\ Weight[s] > 0
    BY MassOf, DrawAssumption
  <1>3. ASSUME NEW d \in SUBSET fits, \A x \in d : d \ {x} \in good PROVE d \in good
    <2>1. CASE d = {} BY <2>1, MassOf
    <2>2. ASSUME NEW s \in d PROVE Mass(d) >= 0
      <3>1. Mass(d \ {s}) >= 0 /\ Mass(d \ {s}) \in Int BY <1>2, <1>3
      <3> QED BY <1>2, <3>1
    <2> QED BY <2>1, <2>2
  <1>4. \A d \in SUBSET fits : Mass(d) >= 0
    <2> SUFFICES ASSUME NEW d \in SUBSET fits PROVE Mass(d) >= 0 OBVIOUS
    <2>1. IsFiniteSet(d) BY <1>1, FS_Subset
    <2>2. \A e \in SUBSET d : e \in SUBSET fits OBVIOUS
    <2> HIDE DEF good
    <2>3. d \in good BY <1>3, <2>1, <2>2, SetInduction
    <2> QED BY <2>3 DEF good
  <1>5. PICK s \in fits : TRUE OBVIOUS
  <1>6. Mass(fits \ {s}) >= 0 /\ Mass(fits \ {s}) \in Int BY <1>2, <1>4
  <1> QED BY <1>2, <1>5, <1>6

\* The score drawn settles the pick the way it was decided.
LEMMA ScoreSettles ==
  ASSUME NEW u \in Nat, u < 1000, NEW leg, NEW won \in BOOLEAN,
         WinsOn[leg.market][leg.pick] \in (SUBSET Scores) \ {{}, Scores}
  PROVE  DrawScore(u, leg, won) \in SettlesAs(leg.market, leg.pick, won)
  <1> DEFINE fits == SettlesAs(leg.market, leg.pick, won)
             m == u * Mass(fits)
  <1>1. fits \subseteq Scores /\ fits # {} BY DEF SettlesAs
  <1>2. DrawScore(u, leg, won) = CHOOSE s \in fits : /\ 1000 * Mass(Before(fits, s)) <= m
                                                     /\ m < 1000 * (Mass(Before(fits, s)) + Weight[s])
    BY DEF DrawScore, Mass, Before
  <1> HIDE DEF fits
  <1>3. Mass(fits) \in Nat /\ Mass(fits) > 0 BY <1>1, MassIsPositive
  <1>4. m \in Nat /\ m < 1000 * Mass(fits)
    <2>1. m \in Nat BY <1>3
    <2> DEFINE mass == Mass(fits)
    <2>2. mass \in Nat /\ mass > 0 BY <1>3
    <2> HIDE DEF mass
    <2>3. u * mass < 1000 * mass
      <3>1. u + 1 <= 1000 OBVIOUS
      <3>2. mass * (u + 1) <= mass * 1000 BY <2>2, <3>1, Widen
      <3>3. mass * (u + 1) = u * mass + mass BY <2>2
      <3>4. u * mass \in Nat BY <2>2
      <3> QED BY <2>2, <3>2, <3>3, <3>4
    <2> QED BY <2>1, <2>3 DEF mass
  <1> HIDE DEF m
  <1>5. \E s \in fits : 1000 * Mass(Before(fits, s)) <= m /\ m < 1000 * (Mass(Before(fits, s)) + Weight[s])
    BY <1>1, <1>4, SomeIsDrawn
  <1> QED BY <1>2, <1>5 DEF fits

-----------------------------------------------------------------------------
(* The goals of a score, one after the other. *)

LEMMA CountSame ==
  ASSUME NEW S, NEW T, IsFiniteSet(S), NEW f \in [S -> T],
         \A x, y \in S : f[x] = f[y] => x = y, \A t \in T : \E x \in S : f[x] = t
  PROVE  IsFiniteSet(T) /\ Cardinality(T) = Cardinality(S)
  <1>1. f \in Injection(S, T) BY DEF Injection, IsInjective
  <1>2. f \in Surjection(S, T) BY DEF Surjection
  <1>3. ExistsBijection(S, T) BY <1>1, <1>2 DEF ExistsBijection, Bijection
  <1> QED BY <1>3, FS_Bijection

LEMMA CountTo == ASSUME NEW n \in Nat PROVE IsFiniteSet(1..n) /\ Cardinality(1..n) = n
  BY FS_Interval

\* Keys that differ put a set in order.
LEMMA OrderIsWhole ==
  ASSUME NEW G, IsFiniteSet(G), \A g \in G : Key(g) \in Int, \A g, h \in G : Key(g) = Key(h) => g = h
  PROVE  /\ Cardinality(G) \in Nat /\ DOMAIN InOrder(G) = 1..Cardinality(G) /\ Len(InOrder(G)) = Cardinality(G)
         /\ \A i \in 1..Cardinality(G) : InOrder(G)[i] \in G
         /\ \A i, j \in 1..Cardinality(G) : InOrder(G)[i] = InOrder(G)[j] => i = j
         /\ \A g \in G : \E i \in 1..Cardinality(G) : InOrder(G)[i] = g
  <1> DEFINE n == Cardinality(G)
             below(g) == {x \in G : Key(x) < Key(g)}
             rank == [g \in G |-> Cardinality(below(g)) + 1]
             order == InOrder(G)
  <1>1. n \in Nat BY FS_CardinalityType
  <1>2. \A g \in G : IsFiniteSet(below(g)) /\ Cardinality(below(g)) \in Nat BY FS_Subset, FS_CardinalityType
  <1>3. ASSUME NEW g \in G PROVE rank[g] \in 1..n
    <2>1. below(g) \subseteq G \ {g} /\ IsFiniteSet(G \ {g}) /\ Cardinality(G \ {g}) = n - 1
      BY FS_RemoveElement
    <2>2. Cardinality(below(g)) <= n - 1
      <3> HIDE DEF below, n
      <3> QED BY <2>1, FS_Subset
    <2> HIDE DEF below, n
    <2> QED BY <1>1, <1>2, <2>2
  <1>4. ASSUME NEW g \in G, NEW h \in G, Key(g) < Key(h) PROVE rank[g] < rank[h]
    <2> DEFINE low == below(g)
               high == below(h)
    <2>1. low \cup {g} \subseteq high /\ g \notin low BY <1>4
    <2>2. IsFiniteSet(low) /\ IsFiniteSet(high) /\ Cardinality(low) \in Nat /\ Cardinality(high) \in Nat BY <1>2
    <2>3. rank[g] = Cardinality(low) + 1 /\ rank[h] = Cardinality(high) + 1 OBVIOUS
    <2> HIDE DEF low, high, rank
    <2>4. IsFiniteSet(low \cup {g}) /\ Cardinality(low \cup {g}) = Cardinality(low) + 1
      BY <2>1, <2>2, FS_AddElement
    <2>5. Cardinality(low \cup {g}) <= Cardinality(high) BY <2>1, <2>2, FS_Subset
    <2> QED BY <2>2, <2>3, <2>4, <2>5
  <1>5. \A g, h \in G : rank[g] = rank[h] => g = h
    <2> SUFFICES ASSUME NEW g \in G, NEW h \in G, rank[g] = rank[h], g # h PROVE FALSE OBVIOUS
    <2>1. Key(g) < Key(h) \/ Key(h) < Key(g) OBVIOUS
    <2>2. rank[g] \in Int /\ rank[h] \in Int BY <1>1, <1>3
    <2> HIDE DEF rank
    <2> QED BY <1>4, <2>1, <2>2
  <1>6. \A i \in 1..n : \E g \in G : rank[g] = i
    <2> DEFINE to == 1..n
    <2>1. IsFiniteSet(to) /\ Cardinality(to) = n BY <1>1, FS_Interval
    <2>2. rank \in [G -> to] BY <1>3
    <2> HIDE DEF rank, to
    <2>3. rank \in Injection(G, to) BY <1>5, <2>2 DEF Injection, IsInjective
    <2>4. rank \in Surjection(G, to) BY <2>1, <2>3, FS_Injection
    <2> QED BY <2>4 DEF Surjection, to
  <1>7. DOMAIN order = 1..n /\ Len(order) = n BY <1>1 DEF InOrder
  <1>8. ASSUME NEW i \in 1..n PROVE order[i] \in G /\ rank[order[i]] = i
    <2> DEFINE at(g) == Cardinality({x \in G : Key(x) < Key(g)}) = i - 1
    <2>1. order[i] = CHOOSE g \in G : at(g) BY DEF InOrder
    <2>2. \A g \in G : at(g) <=> rank[g] = i BY <1>1, <1>2
    <2>3. \E g \in G : at(g) BY <1>6, <2>2
    <2> HIDE DEF at
    <2>4. order[i] \in G /\ at(order[i]) BY <2>1, <2>3
    <2> QED BY <2>2, <2>4
  <1> HIDE DEF rank, order
  <1>9. \A i, j \in 1..n : order[i] = order[j] => i = j BY <1>8
  <1>10. \A g \in G : \E i \in 1..n : order[i] = g
    <2> SUFFICES ASSUME NEW g \in G PROVE order[rank[g]] = g BY <1>3
    <2>1. rank[g] \in 1..n BY <1>3
    <2> QED BY <1>5, <1>8, <2>1
  <1> QED BY <1>1, <1>7, <1>8, <1>9, <1>10 DEF order

\* What may be drawn and scored.
Sound(d, score) ==
  /\ \A i \in 1..MaxGoals : d.home[i] \in Nat /\ d.away[i] \in Nat
  /\ score \in Scores

GoalsBy(G, k) == {g \in G : g[2] = k}

LEMMA GoalsAre ==
  ASSUME NEW d, NEW score, Sound(d, score)
  PROVE  /\ IsFiniteSet(Goals(d, score))
         /\ \A g \in Goals(d, score) : Key(g) \in Int /\ g[1] \in Nat /\ g[2] \in {0, 1}
         /\ \A g, h \in Goals(d, score) : Key(g) = Key(h) => g = h
         /\ Cardinality(GoalsBy(Goals(d, score), 0)) = score[1] /\ Cardinality(GoalsBy(Goals(d, score), 1)) = score[2]
  <1> DEFINE home == {<<d.home[i], 0, i>> : i \in 1..score[1]}
             away == {<<d.away[i], 1, i>> : i \in 1..score[2]}
  <1>1. score[1] \in Nat /\ score[2] \in Nat /\ score[1] <= MaxGoals /\ score[2] <= MaxGoals BY ScoresAreFinite DEF Sound
  <1>2. MaxGoals \in Nat /\ MaxGoals < 50 BY DrawAssumption
  <1>3. \A i \in 1..score[1] : d.home[i] \in Nat BY <1>1, <1>2 DEF Sound
  <1>4. \A i \in 1..score[2] : d.away[i] \in Nat BY <1>1, <1>2 DEF Sound
  <1>5. Goals(d, score) = home \cup away BY DEF Goals
  <1>6. GoalsBy(home \cup away, 0) = home /\ GoalsBy(home \cup away, 1) = away BY DEF GoalsBy
  <1>7. \A g \in home : g = <<g[1], 0, g[3]>> /\ g[1] \in Nat /\ g[3] \in 1..score[1] /\ g[1] = d.home[g[3]] BY <1>3
  <1>8. \A g \in away : g = <<g[1], 1, g[3]>> /\ g[1] \in Nat /\ g[3] \in 1..score[2] /\ g[1] = d.away[g[3]] BY <1>4
  <1>9. IsFiniteSet(home) /\ Cardinality(home) = score[1]
    <2> DEFINE f == [i \in 1..score[1] |-> <<d.home[i], 0, i>>]
               to == 1..score[1]
    <2>1. IsFiniteSet(to) /\ Cardinality(to) = score[1] BY <1>1, CountTo
    <2>2. f \in [to -> home] /\ (\A i, j \in to : f[i] = f[j] => i = j) /\ \A g \in home : \E i \in to : f[i] = g OBVIOUS
    <2> HIDE DEF f, to, home
    <2> QED BY <2>1, <2>2, CountSame
  <1>10. IsFiniteSet(away) /\ Cardinality(away) = score[2]
    <2> DEFINE f == [i \in 1..score[2] |-> <<d.away[i], 1, i>>]
               to == 1..score[2]
    <2>1. IsFiniteSet(to) /\ Cardinality(to) = score[2] BY <1>1, CountTo
    <2>2. f \in [to -> away] /\ (\A i, j \in to : f[i] = f[j] => i = j) /\ \A g \in away : \E i \in to : f[i] = g OBVIOUS
    <2> HIDE DEF f, to, away
    <2> QED BY <2>1, <2>2, CountSame
  <1> HIDE DEF home, away
  <1>11. IsFiniteSet(home \cup away) BY <1>9, <1>10, FS_Union
  <1>12. \A g \in home \cup away : g = <<g[1], g[2], g[3]>> /\ g[1] \in Nat /\ g[2] \in {0, 1} /\ g[3] \in Nat /\ g[3] > 0 /\ g[3] < 50
    BY <1>1, <1>2, <1>7, <1>8
  <1>13. \A g \in home \cup away : Key(g) \in Int BY <1>12 DEF Key
  <1>14. ASSUME NEW g \in home \cup away, NEW h \in home \cup away, Key(g) = Key(h) PROVE g = h
    <2>1. /\ g[1] \in Nat /\ g[2] \in {0, 1} /\ g[3] \in Nat /\ g[3] > 0 /\ g[3] < 50
          /\ h[1] \in Nat /\ h[2] \in {0, 1} /\ h[3] \in Nat /\ h[3] > 0 /\ h[3] < 50
      BY <1>12
    <2>2. 100 * g[1] + 50 * g[2] + g[3] = 100 * h[1] + 50 * h[2] + h[3] BY <1>14 DEF Key
    <2>3. g[1] = h[1] /\ g[2] = h[2] /\ g[3] = h[3] BY ONLY <2>1, <2>2
    <2> QED BY ONLY <1>12, <1>14, <2>3
  <1> QED BY <1>5, <1>6, <1>9, <1>10, <1>11, <1>12, <1>13, <1>14

\* The minutes that are shown.
NudgedOnce(was, drawn) == Min({90, Max({drawn, was + 1})})
NudgesUp(minute, n, order) == minute = [i \in 0..n |-> IF i = 0 THEN 0 ELSE NudgedOnce(minute[i - 1], order[i][1])]

LEMMA NudgedIs ==
  ASSUME NEW was \in Nat, NEW drawn \in Nat
  PROVE  NudgedOnce(was, drawn) \in Nat /\ NudgedOnce(was, drawn) <= 90 /\ (was <= 90 => was <= NudgedOnce(was, drawn))
  <1> DEFINE later == Max({drawn, was + 1})
             shown == Min({90, later})
  <1>1. later \in {drawn, was + 1} /\ \A y \in {drawn, was + 1} : later >= y
    <2>1. \E x \in {drawn, was + 1} : \A y \in {drawn, was + 1} : x >= y OBVIOUS
    <2> QED BY <2>1 DEF Max
  <1>2. later \in Nat /\ later >= was + 1 BY <1>1
  <1> HIDE DEF later
  <1>3. shown \in {90, later} /\ \A y \in {90, later} : shown <= y
    <2>1. \E x \in {90, later} : \A y \in {90, later} : x <= y BY <1>2
    <2> QED BY <2>1 DEF Min
  <1>4. NudgedOnce(was, drawn) = shown BY DEF NudgedOnce, later
  <1> HIDE DEF shown
  <1> QED BY <1>2, <1>3, <1>4

LEMMA NudgingEnds == ASSUME NEW n \in Nat, NEW order PROVE \E minute : NudgesUp(minute, n, order)
  <1> DEFINE bad == {k \in Nat : ~\E minute : NudgesUp(minute, k, order)}
  <1>1. 0 \notin bad
    <2> DEFINE minute == [i \in 0..0 |-> 0]
    <2>1. NudgesUp(minute, 0, order) BY DEF NudgesUp
    <2> QED BY <2>1
  <1>2. ASSUME NEW k \in Nat, k \notin bad PROVE k + 1 \notin bad
    <2>1. PICK minute : NudgesUp(minute, k, order) BY <1>2
    <2> DEFINE next == [i \in 0..(k + 1) |-> IF i = 0 THEN 0 ELSE NudgedOnce(minute[i - 1], order[i][1])]
    <2>2. \A i \in 0..k : next[i] = minute[i]
      <3>1. \A i \in 0..k : i \in 0..(k + 1) OBVIOUS
      <3>2. \A i \in 0..k : minute[i] = IF i = 0 THEN 0 ELSE NudgedOnce(minute[i - 1], order[i][1]) BY <2>1 DEF NudgesUp
      <3> QED BY <3>1, <3>2
    <2>3. \A i \in 0..(k + 1) : i # 0 => next[i - 1] = minute[i - 1]
      <3>1. \A i \in 0..(k + 1) : i # 0 => i - 1 \in 0..k OBVIOUS
      <3> HIDE DEF next
      <3> QED BY <2>2, <3>1
    <2>4. next = [i \in 0..(k + 1) |-> IF i = 0 THEN 0 ELSE NudgedOnce(next[i - 1], order[i][1])] BY <2>3
    <2> HIDE DEF next
    <2>5. NudgesUp(next, k + 1, order) BY <2>4 DEF NudgesUp
    <2> QED BY <2>5
  <1>3. bad = {}
    <2> SUFFICES ASSUME bad # {} PROVE FALSE OBVIOUS
    <2>1. bad \subseteq Nat OBVIOUS
    <2> HIDE DEF bad
    <2>2. PICK k \in bad : \A m \in bad : k <= m BY <2>1, LeastOf
    <2>3. k \in Nat /\ k # 0 BY <1>1, <2>1, <2>2
    <2>4. k - 1 \in Nat /\ k - 1 \notin bad BY <2>2, <2>3
    <2>5. (k - 1) + 1 \notin bad BY <1>2, <2>4
    <2>6. (k - 1) + 1 = k BY <2>3
    <2> QED BY <2>2, <2>5, <2>6
  <1> QED BY <1>3

\* They do not go back, and not beyond the 90th.
LEMMA MinutesGoOn ==
  ASSUME NEW order, Len(order) \in Nat, \A i \in 1..Len(order) : order[i][1] \in Nat
  PROVE  \A i \in 1..Len(order) : /\ Nudged(order)[i] \in Nat
                                  /\ i > 1 => Nudged(order)[i - 1] <= Nudged(order)[i]
  <1> DEFINE n == Len(order)
             minute == Nudged(order)
             good(i) == minute[i] \in Nat /\ minute[i] <= 90
             bad == {i \in 0..n : ~good(i)}
  <1>1. minute = CHOOSE m : NudgesUp(m, n, order) BY DEF Nudged, NudgesUp, NudgedOnce
  <1>2. NudgesUp(minute, n, order)
    <2> HIDE DEF minute
    <2> QED BY <1>1, NudgingEnds
  <1> HIDE DEF minute
  <1>3. minute[0] = 0 /\ \A i \in 1..n : minute[i] = NudgedOnce(minute[i - 1], order[i][1]) BY <1>2 DEF NudgesUp
  <1>4. ASSUME NEW i \in 1..n, good(i - 1) PROVE good(i) /\ minute[i - 1] <= minute[i]
    <2>1. minute[i - 1] \in Nat /\ minute[i - 1] <= 90 /\ order[i][1] \in Nat BY <1>4
    <2>2. minute[i] = NudgedOnce(minute[i - 1], order[i][1]) BY <1>3
    <2> DEFINE was == minute[i - 1]
               drawn == order[i][1]
    <2>3. was \in Nat /\ drawn \in Nat /\ was <= 90 BY <2>1
    <2> HIDE DEF was, drawn
    <2>4. NudgedOnce(was, drawn) \in Nat /\ NudgedOnce(was, drawn) <= 90 /\ was <= NudgedOnce(was, drawn)
      BY ONLY <2>3, NudgedIs
    <2> QED BY <2>2, <2>4 DEF was, drawn
  <1>5. bad = {}
    <2> SUFFICES ASSUME bad # {} PROVE FALSE OBVIOUS
    <2>1. bad \subseteq Nat OBVIOUS
    <2>2. 0 \notin bad BY <1>3
    <2>3. \A k \in bad : k # 0 => k \in 1..n /\ ~good(k) OBVIOUS
    <2>4. \A k \in 1..n : k - 1 \notin bad => good(k - 1) OBVIOUS
    <2> HIDE DEF bad, good
    <2>5. PICK k \in bad : \A m \in bad : k <= m BY <2>1, LeastOf
    <2>6. k \in 1..n /\ ~good(k) BY <2>2, <2>3, <2>5
    <2>7. k - 1 \notin bad BY <2>1, <2>5, <2>6
    <2> QED BY <1>4, <2>4, <2>6, <2>7
  <1>6. \A i \in 1..n : i - 1 \in 0..n /\ i \in 0..n OBVIOUS
  <1>7. \A i \in 0..n : good(i) BY <1>5
  <1> QED BY <1>4, <1>6, <1>7 DEF minute

\* The first n of an order are the goals, each once.
Lists(order, n, G) ==
  /\ \A i \in 1..n : order[i] \in G
  /\ \A i, j \in 1..n : order[i] = order[j] => i = j
  /\ \A g \in G : \E i \in 1..n : order[i] = g
PlacesOf(order, n, k) == {i \in 1..n : order[i][2] = k}

LEMMA TeamCounts ==
  ASSUME NEW G, NEW order, NEW n \in Nat, Lists(order, n, G), NEW k
  PROVE  IsFiniteSet(PlacesOf(order, n, k)) /\ Cardinality(PlacesOf(order, n, k)) = Cardinality(GoalsBy(G, k))
  <1> DEFINE I == PlacesOf(order, n, k)
             of == GoalsBy(G, k)
             f == [i \in I |-> order[i]]
  <1>1. IsFiniteSet(I)
    <2>1. I \subseteq 1..n BY DEF PlacesOf
    <2> HIDE DEF I
    <2> QED BY <2>1, CountTo, FS_Subset
  <1>2. f \in [I -> of] /\ (\A i, j \in I : f[i] = f[j] => i = j) BY DEF PlacesOf, GoalsBy, Lists
  <1>3. \A g \in of : \E i \in I : f[i] = g BY DEF PlacesOf, GoalsBy, Lists
  <1> HIDE DEF I, of, f
  <1>4. Cardinality(of) = Cardinality(I) BY <1>1, <1>2, <1>3, CountSame
  <1> QED BY <1>1, <1>4 DEF I, of

\* The goals shown lead to the score, in order, through what stood at half-time.
LEMMA TimelineLeads ==
  ASSUME NEW d, NEW score, Sound(d, score)
  PROVE  LET goals == Timeline(d, score) IN
         /\ <<GoalsOf("home", goals), GoalsOf("away", goals)>> = score
         /\ \A k \in 1..Len(goals) - 1 : goals[k].minute <= goals[k + 1].minute
         /\ HalfTime(goals)[1] <= score[1] /\ HalfTime(goals)[2] <= score[2]
  <1> DEFINE G == Goals(d, score)
             order == InOrder(G)
             minute == Nudged(order)
             n == Cardinality(G)
             goals == [i \in DOMAIN order |-> [minute |-> minute[i], team |-> IF order[i][2] = 0 THEN "home" ELSE "away"]]
             first == {i \in DOMAIN goals : \A k \in 1..i : goals[k].minute <= 45}
             by(team) == {i \in DOMAIN goals : goals[i].team = team}
             early(team) == {i \in first : goals[i].team = team}
  <1>1. Timeline(d, score) = goals BY DEF Timeline
  <1>2. HalfTime(goals) = <<Cardinality(early("home")), Cardinality(early("away"))>> BY DEF HalfTime
  <1>3. GoalsOf("home", goals) = Cardinality(by("home")) /\ GoalsOf("away", goals) = Cardinality(by("away")) BY DEF GoalsOf
  <1>4. /\ IsFiniteSet(G) /\ \A g \in G : Key(g) \in Int /\ g[1] \in Nat /\ g[2] \in {0, 1}
        /\ \A g, h \in G : Key(g) = Key(h) => g = h
        /\ Cardinality(GoalsBy(G, 0)) = score[1] /\ Cardinality(GoalsBy(G, 1)) = score[2]
    BY GoalsAre
  <1> HIDE DEF G
  <1>5. /\ n \in Nat /\ DOMAIN order = 1..n /\ Len(order) = n /\ \A i \in 1..n : order[i] \in G
        /\ \A i, j \in 1..n : order[i] = order[j] => i = j
        /\ \A g \in G : \E k \in 1..n : order[k] = g
    BY <1>4, OrderIsWhole
  <1> HIDE DEF order, n
  <1>6. \A i \in 1..n : order[i][1] \in Nat /\ order[i][2] \in {0, 1} BY <1>4, <1>5
  <1>7. \A i \in 1..n : minute[i] \in Nat /\ (i > 1 => minute[i - 1] <= minute[i]) BY <1>5, <1>6, MinutesGoOn
  <1> HIDE DEF minute
  <1>8. DOMAIN goals = 1..n /\ Len(goals) = n BY <1>5
  <1>9. \A i \in 1..n : goals[i].minute = minute[i] /\ goals[i].team = IF order[i][2] = 0 THEN "home" ELSE "away" BY <1>5
  <1>10. by("home") = PlacesOf(order, n, 0) /\ by("away") = PlacesOf(order, n, 1)
    BY <1>5, <1>6 DEF PlacesOf
  <1>11. early("home") \subseteq by("home") /\ early("away") \subseteq by("away") OBVIOUS
  <1> HIDE DEF goals, by, early
  <1>12. Lists(order, n, G) BY <1>5 DEF Lists
  <1>13. /\ IsFiniteSet(PlacesOf(order, n, 0)) /\ IsFiniteSet(PlacesOf(order, n, 1))
         /\ Cardinality(PlacesOf(order, n, 0)) = score[1] /\ Cardinality(PlacesOf(order, n, 1)) = score[2]
    BY <1>4, <1>5, <1>12, TeamCounts
  <1>14. /\ IsFiniteSet(by("home")) /\ Cardinality(by("home")) = score[1]
         /\ IsFiniteSet(by("away")) /\ Cardinality(by("away")) = score[2]
    BY <1>10, <1>13
  <1>15. Cardinality(early("home")) <= score[1] /\ Cardinality(early("away")) <= score[2]
    <2>1. Cardinality(early("home")) <= Cardinality(by("home")) BY <1>11, <1>14, FS_Subset
    <2>2. Cardinality(early("away")) <= Cardinality(by("away")) BY <1>11, <1>14, FS_Subset
    <2> QED BY <1>14, <2>1, <2>2
  <1>16. \A k \in 1..Len(goals) - 1 : goals[k].minute <= goals[k + 1].minute
    <2> SUFFICES ASSUME NEW k \in 1..n - 1 PROVE goals[k].minute <= goals[k + 1].minute BY <1>8
    <2>1. k \in 1..n /\ k + 1 \in 1..n /\ k + 1 > 1 /\ (k + 1) - 1 = k BY <1>5
    <2>2. minute[(k + 1) - 1] <= minute[k + 1] BY <1>7, <2>1
    <2> QED BY <1>9, <2>1, <2>2
  <1>17. score = <<score[1], score[2]>> BY DEF Sound, Scores
  <1> QED BY <1>1, <1>2, <1>3, <1>14, <1>15, <1>16, <1>17

-----------------------------------------------------------------------------
(* The slips, with the scores of their legs. *)

Explained(leg) ==
  /\ leg.won <=> leg.score \in WinsOn[leg.market][leg.pick]
  /\ <<GoalsOf("home", leg.timeline), GoalsOf("away", leg.timeline)>> = leg.score
  /\ \A k \in 1..Len(leg.timeline) - 1 : leg.timeline[k].minute <= leg.timeline[k + 1].minute
  /\ leg.half[1] <= leg.score[1] /\ leg.half[2] <= leg.score[2]

LEMMA ResultIsExplained ==
  ASSUME NEW d, Drawn(d), NEW leg, NEW n, WinsOn[leg.market][leg.pick] \in (SUBSET Scores) \ {{}, Scores}
  PROVE  Explained(LegResult(d, leg, n))
  <1> DEFINE won == d.u * leg.odds < Hold[n] * 100
             score == DrawScore(d.score, leg, won)
             goals == Timeline(d, score)
             result == [event |-> leg.event, market |-> leg.market, pick |-> leg.pick, odds |-> leg.odds,
                        won |-> won, score |-> score, timeline |-> goals, half |-> HalfTime(goals)]
  <1>1. LegResult(d, leg, n) = result BY DEF LegResult
  <1>2. won \in BOOLEAN OBVIOUS
  <1>3. d.score \in Nat /\ d.score < 1000 BY DEF Drawn
  <1> HIDE DEF won
  <1>4. score \in SettlesAs(leg.market, leg.pick, won) BY <1>2, <1>3, ScoreSettles
  <1> HIDE DEF score
  <1>5. score \in Scores /\ (won <=> score \in WinsOn[leg.market][leg.pick]) BY <1>2, <1>4 DEF SettlesAs
  <1>6. Sound(d, score) BY <1>5 DEF Sound, Drawn
  <1>7. /\ <<GoalsOf("home", goals), GoalsOf("away", goals)>> = score
        /\ \A k \in 1..Len(goals) - 1 : goals[k].minute <= goals[k + 1].minute
        /\ HalfTime(goals)[1] <= score[1] /\ HalfTime(goals)[2] <= score[2]
    BY <1>6, TimelineLeads
  <1> HIDE DEF goals
  <1>8. /\ result.market = leg.market /\ result.pick = leg.pick /\ result.won = won /\ result.score = score
        /\ result.timeline = goals /\ result.half = HalfTime(goals)
    OBVIOUS
  <1> HIDE DEF result
  <1> QED BY <1>1, <1>5, <1>7, <1>8 DEF Explained

LEMMA SlipIsExplained ==
  ASSUME NEW seed, NEW nonce, NEW legs, NEW stake,
         \A i \in DOMAIN legs : Drawn(Draw[seed][nonce][i]) /\ WinsOn[legs[i].market][legs[i].pick] \in (SUBSET Scores) \ {{}, Scores}
  PROVE  \A i \in DOMAIN SimulateSlip(seed, nonce, legs, stake).legs : Explained(SimulateSlip(seed, nonce, legs, stake).legs[i])
  <1> DEFINE results == [i \in DOMAIN legs |-> LegResult(Draw[seed][nonce][i], legs[i], Len(legs))]
  <1>1. SimulateSlip(seed, nonce, legs, stake).legs = results BY DEF SimulateSlip
  <1>2. \A i \in DOMAIN legs : Explained(LegResult(Draw[seed][nonce][i], legs[i], Len(legs))) BY ResultIsExplained
  <1>3. \A i \in DOMAIN results : Explained(results[i]) BY <1>2
  <1> HIDE DEF results
  <1> QED BY <1>1, <1>3

BetsAreExplained(bets) == \A i \in DOMAIN bets : \A k \in DOMAIN bets[i].legs : Explained(bets[i].legs[k])

LEMMA DrawnAreExplained ==
  ASSUME NEW s \in Slips, NEW f \in Feeds, NEW seed \in Seeds, Priced(s, f)
  PROVE  BetsAreExplained(Bets(s, f, seed))
  <1> DEFINE legs == Legs(s, f)
  <1>1. DOMAIN legs = DOMAIN SlipPicks[s] BY DEF Legs
  <1>2. \A i \in DOMAIN SlipPicks[s] : WinsOn[legs[i].market][legs[i].pick] \in (SUBSET Scores) \ {{}, Scores}
    <2> SUFFICES ASSUME NEW i \in DOMAIN SlipPicks[s]
                 PROVE  WinsOn[legs[i].market][legs[i].pick] \in (SUBSET Scores) \ {{}, Scores}
      OBVIOUS
    <2> DEFINE k == SlipPicks[s][i]
               q == <<k.event, k.market, k.pick>>
    <2>1. legs[i].market = k.market /\ legs[i].pick = k.pick BY DEF Legs
    <2>2. q \in DOMAIN Quote[f] BY DEF Priced
    <2>3. q[2] = k.market /\ q[3] = k.pick OBVIOUS
    <2> HIDE DEF q, legs
    <2>4. WinsOn[q[2]][q[3]] \in (SUBSET Scores) \ {{}, Scores} BY <2>2, DrawAssumption
    <2> QED BY <2>1, <2>3, <2>4
  <1> HIDE DEF legs
  <1>3. CASE SlipMode[s] = "multi"
    <2>1. \A i \in DOMAIN legs : Drawn(Draw[seed][1][i]) BY <1>1, <1>3, DrawAssumption
    <2> DEFINE bet == SimulateSlip(seed, 1, legs, SlipStake[s])
    <2>2. \A i \in DOMAIN bet.legs : Explained(bet.legs[i]) BY <1>1, <1>2, <2>1, SlipIsExplained
    <2> HIDE DEF bet
    <2>3. Bets(s, f, seed) = <<bet>> BY <1>3 DEF Bets, bet, legs
    <2> QED BY <2>2, <2>3 DEF BetsAreExplained
  <1>4. CASE SlipMode[s] # "multi"
    <2> DEFINE bet(i) == SimulateSlip(seed, i, <<legs[i]>>, SlipStake[s])
    <2>1. ASSUME NEW i \in DOMAIN SlipPicks[s] PROVE \A k \in DOMAIN bet(i).legs : Explained(bet(i).legs[k])
      <3>1. Drawn(Draw[seed][i][1]) BY <1>4, DrawAssumption
      <3> DEFINE one == <<legs[i]>>
      <3>2. \A k \in DOMAIN one : k = 1 /\ one[k] = legs[i] OBVIOUS
      <3> HIDE DEF one
      <3>3. \A k \in DOMAIN one : Drawn(Draw[seed][i][k]) /\ WinsOn[one[k].market][one[k].pick] \in (SUBSET Scores) \ {{}, Scores}
        BY <1>2, <3>1, <3>2
      <3>4. \A k \in DOMAIN SimulateSlip(seed, i, one, SlipStake[s]).legs : Explained(SimulateSlip(seed, i, one, SlipStake[s]).legs[k])
        BY <3>3, SlipIsExplained
      <3> QED BY <3>4 DEF one
    <2>2. Bets(s, f, seed) = [i \in DOMAIN SlipPicks[s] |-> bet(i)] BY <1>1, <1>4 DEF Bets, legs
    <2> HIDE DEF bet
    <2> QED BY <2>1, <2>2 DEF BetsAreExplained
  <1> QED BY <1>3, <1>4

\* What a request has drawn, and what it has written, is explained.
ScoreInv ==
  /\ \A s \in Slips : BetsAreExplained(slip[s].bets)
  /\ \A b \in simBets : \A k \in DOMAIN b.result.legs : Explained(b.result.legs[k])

LEMMA OneIsExplained ==
  ASSUME SlipInv, ScoreInv, NEW s \in Slips, NEW r, slip' = [slip EXCEPT ![s] = r], BetsAreExplained(r.bets), UNCHANGED simBets
  PROVE  ScoreInv'
  <1>1. slip'[s] = r /\ \A t \in Slips \ {s} : slip'[t] = slip[t] BY DEF SlipInv
  <1>2. \A t \in Slips : BetsAreExplained(slip'[t].bets) BY <1>1 DEF ScoreInv
  <1>3. \A b \in simBets' : \A k \in DOMAIN b.result.legs : Explained(b.result.legs[k]) BY DEF ScoreInv
  <1> QED BY <1>2, <1>3 DEF ScoreInv

LEMMA NothingToExplain == BetsAreExplained(<<>>)
  BY DEF BetsAreExplained

LEMMA EndIsExplained == ASSUME SlipInv, ScoreInv, NEW s \in Slips, NEW answer, EndSlip(s, answer), UNCHANGED simBets PROVE ScoreInv'
  <1> DEFINE r == [Idle EXCEPT !.pc = answer]
  <1>1. slip' = [slip EXCEPT ![s] = r] BY DEF EndSlip
  <1>2. r.bets = <<>> BY DEF Idle
  <1> HIDE DEF r
  <1> QED BY <1>1, <1>2, NothingToExplain, OneIsExplained

LEMMA ResolveIsExplained ==
  ASSUME SlipInv, ScoreInv, NEW s \in Slips, NEW f \in Feeds, Resolve(s, f), UNCHANGED simBets PROVE ScoreInv'
  <1>1. CASE EndSlip(s, "refused") \/ EndSlip(s, "odds changed") BY <1>1, EndIsExplained
  <1>2. ASSUME ~(EndSlip(s, "refused") \/ EndSlip(s, "odds changed")) PROVE ScoreInv'
    <2>1. Priced(s, f) BY <1>2 DEF Resolve
    <2>2. PICK seed \in Seeds :
         slip' = [slip EXCEPT ![s] = [Idle EXCEPT !.pc = "placing", !.feed = f, !.at = mclock, !.bets = Bets(s, f, seed)]]
      BY <1>2 DEF Resolve
    <2> DEFINE bets == Bets(s, f, seed)
               r == [Idle EXCEPT !.pc = "placing", !.feed = f, !.at = mclock, !.bets = bets]
    <2>3. slip' = [slip EXCEPT ![s] = r] BY <2>2
    <2>4. BetsAreExplained(bets) BY <2>1, DrawnAreExplained
    <2> HIDE DEF bets
    <2>5. r.bets = bets BY DEF Idle
    <2> HIDE DEF r
    <2> QED BY <2>3, <2>4, <2>5, OneIsExplained
  <1> QED BY <1>1, <1>2

\* A step that leaves the bets of a slip as they are.
LEMMA SameBets ==
  ASSUME SlipInv, ScoreInv, NEW s \in Slips, NEW r, slip' = [slip EXCEPT ![s] = r], r.bets = slip[s].bets, UNCHANGED simBets
  PROVE  ScoreInv'
  <1>1. BetsAreExplained(r.bets) BY DEF ScoreInv
  <1> QED BY <1>1, OneIsExplained

LEMMA ScoreStep == ASSUME SlipInv, ScoreInv, MatchNext PROVE ScoreInv'
  <1>0. \A s \in Slips : DOMAIN slip[s] = {"pc", "feed", "at", "bets", "tx"} BY DEF SlipInv, SlipIsUnderWay
  <1>1. ASSUME NEW s \in Slips, CheckFunds(s) PROVE ScoreInv'
    <2>1. UNCHANGED simBets BY <1>1 DEF CheckFunds
    <2>2. CASE EndSlip(s, "refused") \/ EndSlip(s, "no funds") BY <2>1, <2>2, EndIsExplained
    <2>3. CASE slip' = [slip EXCEPT ![s].pc = "funded", ![s].at = mclock]
      <3> DEFINE r == [slip[s] EXCEPT !.pc = "funded", !.at = mclock]
      <3>1. slip' = [slip EXCEPT ![s] = r] BY <2>3 DEF SlipInv
      <3>2. r.bets = slip[s].bets BY <1>0
      <3> HIDE DEF r
      <3> QED BY <2>1, <3>1, <3>2, SameBets
    <2> QED BY <1>1, <2>2, <2>3 DEF CheckFunds
  <1>2. ASSUME NEW s \in Slips, UseCachedFeed(s) PROVE ScoreInv'
    <2>1. UNCHANGED simBets /\ Resolve(s, feedCache.feed) /\ feedCache.feed \in Feeds BY <1>2 DEF UseCachedFeed, SlipInv
    <2> QED BY <2>1, ResolveIsExplained
  <1>3. ASSUME NEW s \in Slips, FetchFeed(s) PROVE ScoreInv'
    <2>1. UNCHANGED simBets /\ slip' = [slip EXCEPT ![s].pc = "fetching", ![s].feed = harvested, ![s].at = mclock]
      BY <1>3 DEF FetchFeed
    <2> DEFINE r == [slip[s] EXCEPT !.pc = "fetching", !.feed = harvested, !.at = mclock]
    <2>2. slip' = [slip EXCEPT ![s] = r] BY <2>1 DEF SlipInv
    <2>3. r.bets = slip[s].bets BY <1>0
    <2> HIDE DEF r
    <2> QED BY <2>1, <2>2, <2>3, SameBets
  <1>4. ASSUME NEW s \in Slips, FeedArrives(s) PROVE ScoreInv'
    <2>1. slip[s].feed \in Feeds /\ 0 \in Feeds
      BY <1>4, MatchAssumption DEF FeedArrives, MatchAssumption, SlipInv, SlipIsUnderWay
    <2>2. UNCHANGED simBets /\ \E f \in {slip[s].feed, 0} : Resolve(s, f) BY <1>4 DEF FeedArrives
    <2> QED BY <2>1, <2>2, ResolveIsExplained
  <1>5. ASSUME NEW s \in Slips, PlaceOne(s) PROVE ScoreInv'
    <2>1. UNCHANGED simBets BY <1>5 DEF PlaceOne
    <2>2. EndSlip(s, "no funds") \/ \E tx : slip' = [slip EXCEPT ![s].tx = tx] BY <1>5 DEF PlaceOne
    <2>3. ASSUME NEW tx, slip' = [slip EXCEPT ![s].tx = tx] PROVE ScoreInv'
      <3> DEFINE r == [slip[s] EXCEPT !.tx = tx]
      <3>1. slip' = [slip EXCEPT ![s] = r] BY <2>3 DEF SlipInv
      <3>2. r.bets = slip[s].bets BY <1>0
      <3> HIDE DEF r
      <3> QED BY <2>1, <3>1, <3>2, SameBets
    <2> QED BY <2>1, <2>2, <2>3, EndIsExplained
  <1>6. ASSUME NEW s \in Slips, Commit(s) PROVE ScoreInv'
    <2> DEFINE tx == slip[s].tx
               bets == slip[s].bets
    <2>1. slip[s].pc = "placing" /\ EndSlip(s, "placed") BY <1>6 DEF Commit
    <2>2. SlipIsUnderWay(s, slip[s]) BY DEF SlipInv
    <2>3. Len(bets) \in Nat /\ DOMAIN bets = 1..Len(bets) /\ \E n \in 0..Len(bets) : tx = EntriesOf(s, bets, n)
      BY <2>1, <2>2 DEF SlipIsUnderWay, EntriesOf
    <2>4. PICK n \in 0..Len(bets) : tx = EntriesOf(s, bets, n) BY <2>3
    <2>5. n \in Nat BY <2>3, <2>4
    <2>6. \A i \in {e.bet : e \in tx} : i \in DOMAIN bets
      <3>1. {e.bet : e \in EntriesOf(s, bets, n)} = 1..n BY <2>5, EntriesOfBets
      <3> HIDE DEF tx, bets
      <3> QED BY <2>3, <2>4, <2>5, <3>1
    <2>7. BetsAreExplained(bets) BY DEF ScoreInv
    <2>8. simBets' = simBets \cup {[slip |-> s, bet |-> i, feed |-> slip[s].feed, at |-> slip[s].at, result |-> bets[i]]
                                     : i \in {e.bet : e \in tx}}
      BY <1>6 DEF Commit
    <2>9. slip' = [slip EXCEPT ![s] = [Idle EXCEPT !.pc = "placed"]] /\ [Idle EXCEPT !.pc = "placed"].bets = <<>>
      BY <2>1 DEF EndSlip, Idle
    <2> HIDE DEF tx, bets
    <2>10. \A b \in simBets' : b \in simBets \/ \E i \in DOMAIN bets : b.result = bets[i] BY <2>6, <2>8
    <2>11. \A b \in simBets' : \A k \in DOMAIN b.result.legs : Explained(b.result.legs[k])
      <3> SUFFICES ASSUME NEW b \in simBets', NEW k \in DOMAIN b.result.legs PROVE Explained(b.result.legs[k]) OBVIOUS
      <3>1. CASE b \in simBets BY <3>1 DEF ScoreInv
      <3>2. ASSUME NEW i \in DOMAIN bets, b.result = bets[i] PROVE Explained(b.result.legs[k])
        BY <2>7, <3>2 DEF BetsAreExplained
      <3> QED BY <2>10, <3>1, <3>2
    <2>12. \A t \in Slips : slip'[t].bets = slip[t].bets \/ slip'[t].bets = <<>> BY <2>9 DEF SlipInv
    <2>13. \A t \in Slips : BetsAreExplained(slip'[t].bets) BY <2>12, NothingToExplain DEF ScoreInv
    <2> QED BY <2>11, <2>13 DEF ScoreInv
  <1>7. ASSUME NEW s \in Slips, PlacingFails(s) PROVE ScoreInv'
    <2>1. UNCHANGED simBets /\ EndSlip(s, "error") BY <1>7 DEF PlacingFails
    <2> QED BY <2>1, EndIsExplained
  <1>8. CASE Harvest \/ MatchTick
    <2>1. UNCHANGED <<slip, simBets>> BY <1>8 DEF Harvest, MatchTick
    <2> QED BY <2>1 DEF ScoreInv
  <1> QED BY <1>1, <1>2, <1>3, <1>4, <1>5, <1>6, <1>7, <1>8 DEF MatchNext

-----------------------------------------------------------------------------
(* What a won bet pays. *)

\* A product of prices, whatever the order they are taken in.
Multiplies(it, legs, S) == it = [s \in SUBSET S |-> IF s = {} THEN 100 ELSE (it[Rest(s)] * legs[Chosen(s)].odds) \div 100]

LEMMA ProductExists == ASSUME NEW S, IsFiniteSet(S), NEW legs PROVE \E it : Multiplies(it, legs, S)
  <1> DEFINE upTo(n) == {s \in SUBSET S : Cardinality(s) <= n}
             times(v, s) == (v * legs[Chosen(s)].odds) \div 100
             fits(n, it) == it = [s \in upTo(n) |-> IF s = {} THEN 100 ELSE times(it[Rest(s)], s)]
             bad == {n \in Nat : ~\E it : fits(n, it)}
  <1> HIDE DEF times
  <1>0. \A s \in SUBSET S : IsFiniteSet(s) /\ Cardinality(s) \in Nat BY FS_Subset, FS_CardinalityType
  <1>1. 0 \notin bad
    <2> DEFINE it == [s \in upTo(0) |-> 100]
    <2>1. \A s \in upTo(0) : s = {} BY <1>0, FS_EmptySet
    <2>2. fits(0, it) BY <2>1
    <2> QED BY <2>2
  <1>2. ASSUME NEW n \in Nat, n \notin bad PROVE n + 1 \notin bad
    <2>1. PICK it : fits(n, it) BY <1>2
    <2> DEFINE next == [s \in upTo(n + 1) |-> IF s = {} THEN 100 ELSE times(it[Rest(s)], s)]
    <2>2. \A s \in upTo(n) : s \in upTo(n + 1) BY <1>0
    <2>3. \A s \in upTo(n) : next[s] = it[s] BY <2>1, <2>2
    <2>4. \A s \in upTo(n + 1) : s # {} => Rest(s) \in upTo(n)
      <3> SUFFICES ASSUME NEW s \in upTo(n + 1), s # {} PROVE Rest(s) \in upTo(n) OBVIOUS
      <3>1. Rest(s) \subseteq s /\ Cardinality(Rest(s)) = Cardinality(s) - 1 /\ Cardinality(s) \in Nat
        BY <1>0, RestIsSmaller
      <3> QED BY <3>1
    <2>5. fits(n + 1, next)
      <3> HIDE DEF upTo
      <3>1. \A s \in upTo(n + 1) : s # {} => next[Rest(s)] = it[Rest(s)] BY <2>3, <2>4
      <3> QED BY <3>1
    <2> HIDE DEF next, fits
    <2> QED BY <2>5
  <1>3. bad = {}
    <2> SUFFICES ASSUME bad # {} PROVE FALSE OBVIOUS
    <2>1. bad \subseteq Nat OBVIOUS
    <2> HIDE DEF bad
    <2>2. PICK n \in bad : \A m \in bad : n <= m BY <2>1, LeastOf
    <2>3. n \in Nat /\ n # 0 BY <1>1, <2>1, <2>2
    <2>4. n - 1 \in Nat /\ n - 1 \notin bad BY <2>2, <2>3
    <2>5. (n - 1) + 1 \notin bad BY <1>2, <2>4
    <2>6. (n - 1) + 1 = n BY <2>3
    <2> QED BY <2>2, <2>5, <2>6
  <1>4. PICK n \in Nat : n = Cardinality(S) BY FS_CardinalityType
  <1>5. upTo(n) = SUBSET S
    <2>1. \A s \in SUBSET S : Cardinality(s) <= n BY <1>4, FS_Subset
    <2> QED BY <2>1
  <1>6. PICK it : fits(n, it)
    <2>1. n \notin bad BY <1>3
    <2> HIDE DEF fits
    <2> QED BY <1>4, <2>1
  <1>7. Multiplies(it, legs, S)
    <2> HIDE DEF upTo
    <2> QED BY <1>5, <1>6 DEF Multiplies, times
  <1> QED BY <1>7

LEMMA ProductIs ==
  ASSUME NEW legs, IsFiniteSet(DOMAIN legs)
  PROVE  \E it : Multiplies(it, legs, DOMAIN legs) /\ Product(legs) = it[DOMAIN legs]
  <1> DEFINE S == DOMAIN legs
             chosen == CHOOSE it : Multiplies(it, legs, S)
  <1>1. Product(legs) = chosen[S]
    BY DEF Product, FoldSeq, FoldFunction, FoldFunctionOnSet, MapThenFoldSet, Multiplies, Chosen, Rest
  <1>2. Multiplies(chosen, legs, S)
    <2> HIDE DEF S
    <2>1. \E it : Multiplies(it, legs, S) BY ProductExists DEF S
    <2> QED BY <2>1
  <1> QED BY <1>1, <1>2

\* Prices above 1 multiply to no less.
LEMMA ProductOfPrices ==
  ASSUME NEW legs, IsFiniteSet(DOMAIN legs), \A i \in DOMAIN legs : legs[i].odds \in Nat /\ legs[i].odds > 100
  PROVE  Product(legs) \in Nat /\ Product(legs) >= 100
  <1> DEFINE S == DOMAIN legs
  <1>1. PICK it : Multiplies(it, legs, S) /\ Product(legs) = it[S] BY ProductIs
  <1> DEFINE good == {s \in SUBSET S : it[s] \in Nat /\ it[s] >= 100}
  <1>2. ASSUME NEW s \in SUBSET S, \A x \in s : s \ {x} \in good PROVE s \in good
    <2>1. CASE s = {}
      <3>1. it[s] = 100 BY <1>1, <2>1 DEF Multiplies
      <3> QED BY <3>1
    <2>2. CASE s # {}
      <3> DEFINE v == it[Rest(s)]
                 odds == legs[Chosen(s)].odds
      <3>1. Chosen(s) \in s BY <2>2 DEF Chosen
      <3>2. v \in Nat /\ v >= 100 BY <1>2, <3>1 DEF Rest
      <3>3. odds \in Nat /\ odds > 100 BY <3>1
      <3>4. it[s] = (v * odds) \div 100 BY <1>1, <2>2 DEF Multiplies
      <3> HIDE DEF v, odds
      <3>5. v * 100 <= v * odds BY <3>2, <3>3, Widen
      <3>6. v * odds \in Nat BY <3>2, <3>3
      <3> DEFINE x == v * odds
      <3>7. x \in Nat /\ 100 * 100 <= x /\ it[s] = x \div 100 BY <3>2, <3>4, <3>5, <3>6
      <3> HIDE DEF x
      <3>8. it[s] \in Nat /\ it[s] >= 100 BY ONLY <3>7
      <3> QED BY <3>8
    <2> QED BY <2>1, <2>2
  <1> HIDE DEF good
  <1>3. S \in good BY <1>2, SetInduction
  <1> QED BY <1>1, <1>3 DEF good

LEMMA ValidPays ==
  ASSUME NEW legs, IsFiniteSet(DOMAIN legs), \A i \in DOMAIN legs : legs[i].odds \in Nat /\ legs[i].odds > 100,
         NEW stake \in Nat \ {0}
  PROVE  PayoutOfWin(legs, stake) \in Nat \ {0}
  <1> DEFINE p == Product(legs)
             odds == CombinedOdds(legs)
             due == (stake * odds) \div 100
  <1>1. p \in Nat /\ p >= 100 BY ProductOfPrices
  <1>2. odds = Min({p, MaxCombined}) BY DEF CombinedOdds
  <1>3. MaxCombined \in Nat /\ MaxCombined >= 100 /\ MaxPayout \in Nat /\ MaxPayout > 0 BY PriceAssumption
  <1>4. PayoutOfWin(legs, stake) = Min({due, MaxPayout}) BY DEF PayoutOfWin
  <1> HIDE DEF p, odds
  <1>5. odds \in Nat /\ odds >= 100
    <2>1. \E x \in {p, MaxCombined} : \A y \in {p, MaxCombined} : x <= y BY <1>1, <1>3
    <2>2. odds \in {p, MaxCombined} BY <1>2, <2>1 DEF Min
    <2> QED BY <1>1, <1>3, <2>2
  <1>6. due \in Nat /\ due >= 1
    <2> DEFINE x == stake * odds
    <2>1. odds * 1 <= odds * stake BY <1>5, Widen
    <2>2. x \in Nat /\ x >= 100 BY <1>5, <2>1
    <2> HIDE DEF x
    <2>3. x \div 100 \in Nat /\ x \div 100 >= 1 BY ONLY <2>2
    <2> QED BY <2>3 DEF x
  <1> HIDE DEF due
  <1>7. Min({due, MaxPayout}) \in {due, MaxPayout}
    <2>1. \E x \in {due, MaxPayout} : \A y \in {due, MaxPayout} : x <= y BY <1>3, <1>6
    <2> QED BY <2>1 DEF Min
  <1> QED BY <1>3, <1>4, <1>6, <1>7

LEMMA WinsArePaid == WinsPay
  <1> SUFFICES ASSUME NEW s \in Slips, NEW f \in Feeds, Priced(s, f), AllValid(s, f)
               PROVE  IF SlipMode[s] = "multi" THEN PayoutOfWin(Legs(s, f), SlipStake[s]) \in Nat \ {0}
                      ELSE \A i \in DOMAIN SlipPicks[s] : PayoutOfWin(<<Legs(s, f)[i]>>, SlipStake[s]) \in Nat \ {0}
    BY DEF WinsPay
  <1> DEFINE legs == Legs(s, f)
  <1>1. SlipStake[s] \in Nat \ {0} BY MatchAssumption DEF MatchAssumption
  <1>2. DOMAIN legs = DOMAIN SlipPicks[s] BY DEF Legs
  <1>3. IsFiniteSet(DOMAIN SlipPicks[s])
    <2>1. Len(SlipPicks[s]) \in Nat /\ DOMAIN SlipPicks[s] = 1..Len(SlipPicks[s])
      BY MatchAssumption DEF MatchAssumption
    <2> QED BY <2>1, CountTo
  <1>4. \A i \in DOMAIN SlipPicks[s] : legs[i].odds \in Nat
    <2> SUFFICES ASSUME NEW i \in DOMAIN SlipPicks[s] PROVE legs[i].odds \in Nat OBVIOUS
    <2> DEFINE k == SlipPicks[s][i]
               q == <<k.event, k.market, k.pick>>
    <2>1. legs[i].odds = Quote[f][q] BY DEF Legs
    <2>2. q \in DOMAIN Quote[f] BY DEF Priced
    <2> HIDE DEF q
    <2> QED BY <2>1, <2>2, PriceAssumption
  <1>5. CASE SlipMode[s] = "multi"
    <2>1. \A i \in DOMAIN legs : legs[i].odds > 100 BY <1>5 DEF AllValid, ValidSlip
    <2> HIDE DEF legs
    <2>2. PayoutOfWin(legs, SlipStake[s]) \in Nat \ {0} BY <1>1, <1>2, <1>3, <1>4, <2>1, ValidPays
    <2> QED BY <1>5, <2>2 DEF legs
  <1>6. CASE SlipMode[s] # "multi"
    <2>1. ASSUME NEW i \in DOMAIN SlipPicks[s] PROVE PayoutOfWin(<<legs[i]>>, SlipStake[s]) \in Nat \ {0}
      <3> DEFINE one == <<legs[i]>>
      <3>1. DOMAIN one = 1..1 /\ \A k \in DOMAIN one : one[k] = legs[i] OBVIOUS
      <3>2. \A k \in DOMAIN one : one[k].odds > 100 BY <1>6 DEF AllValid, ValidSlip
      <3>3. IsFiniteSet(DOMAIN one) BY <3>1, CountTo
      <3> HIDE DEF one, legs
      <3>4. \A k \in DOMAIN one : one[k].odds \in Nat /\ one[k].odds > 100 BY <1>4, <3>1, <3>2
      <3>5. PayoutOfWin(one, SlipStake[s]) \in Nat \ {0} BY <1>1, <3>3, <3>4, ValidPays
      <3> QED BY <3>5 DEF one
    <2> QED BY <1>6, <2>1
  <1> QED BY <1>5, <1>6

\* A match bet slip is placed with all its bets, each with its stake and exactly if it won
\* its win, at prices its player saw on matches that had not started, and never for more
\* than the ledger holds; each score shown settles its pick the way it was paid, with goals
\* that lead to it.  This is so whatever requests, feeds and failures come between
\* (POST /simulate/bets, PgSimBetsRepo.place, drawScore, buildTimeline).
THEOREM SlipsHonest == MatchSpec => []SlipsAreHonest
  <1>1. MatchInit => ScoreInv
    <2> SUFFICES ASSUME MatchInit PROVE ScoreInv OBVIOUS
    <2>1. simBets = {} /\ \A s \in Slips : slip[s].bets = <<>> BY DEF MatchInit, Idle
    <2> QED BY <2>1, NothingToExplain DEF ScoreInv
  <1>2. SlipInv /\ ScoreInv /\ [MatchNext]_matchVars => ScoreInv'
    <2>1. CASE UNCHANGED matchVars BY <2>1 DEF matchVars, ScoreInv
    <2> QED BY <2>1, ScoreStep
  <1>3. SlipInv /\ PurseInv /\ [MatchNext]_matchVars => PurseInv'
    <2>1. CASE UNCHANGED matchVars BY <2>1 DEF matchVars, PurseInv, MatchPurseNotOverdrawn, PurseOf
    <2> QED BY <2>1, PurseStep
  <1>4. MatchSpec => []SlipInv BY WinsArePaid, SlipsStand
  <1>5. ScoreInv => ScoreExplainsResult BY DEF ScoreInv, ScoreExplainsResult, Explained
  <1>6. PurseInv => MatchPurseNotOverdrawn BY DEF PurseInv
  <1>7. SlipInv => SlipIsWhole BY SMTT(30) DEF SlipInv
  <1>8. SlipInv => PricedAsSeen BY DEF SlipInv, PricedAsSeen, BetIsAsSeen, LegIsAsSeen, PickSeen
  <1>9. MatchInit => PurseInv BY PurseStart
  <1> QED BY <1>1, <1>2, <1>3, <1>4, <1>5, <1>6, <1>7, <1>8, <1>9, PTL DEF MatchSpec, SlipsAreHonest
=============================================================================
