---------------------------- MODULE OperatorProofs ----------------------------
(***************************************************************************)
(* Safety of the operators' side for every set of changes, terminations,   *)
(* edits, administrators and requests: the registry's copy, the keys that  *)
(* are derived from it and the requests judged by it (OperatorRegistry),   *)
(* the end of a session (OperatorSessions), the catalogue's rows and       *)
(* engines (Catalogue), the administrators' accounts and audit             *)
(* (AdminAccounts), and the calls to an operator's wallet (WalletCalls).   *)
(* Each part has its own inductive invariant.                              *)
(***************************************************************************)
EXTENDS OperatorRegistry, OperatorSessions, Catalogue, AdminAccounts, WalletCalls, TLAPS

-----------------------------------------------------------------------------
(* OperatorRegistry.  The row only moves forward; every copy of it is one   *)
(* of its past values.  A copy's key is therefore that of the newest        *)
(* rotation written by the time of the copy, and which rotation that is     *)
(* can be read off from the change that wrote it.                           *)

Copies == [status : {"absent", "active", "paused"}, key : Int, version : Nat]
Phases == {"new", "written", "loaded", "failed", "refused", "done", "lost"}

RegistryTypeOK ==
  /\ row \in Copies /\ cached \in Copies /\ client \in Int /\ oneShot \in Int
  /\ change \in [Changes -> [at : Phases, wrote : Nat, snapshot : Copies]]
  /\ tick \in Nat /\ nonceUntil \in Nat /\ handled \in Nat /\ settled \in Nat /\ registryFaults \in Nat
  /\ request \in [sent : BOOLEAN, stamp : Int, ahead : Int, key : Int]
  /\ outOfOrder \in BOOLEAN

\* The copies in the process are not newer than the row; a read follows its write.
VersionsInv ==
  /\ cached.version <= row.version /\ settled <= row.version
  /\ (row = Absent) <=> (row.version = 0)
  /\ \A c \in Changes :
       /\ change[c].wrote <= row.version /\ change[c].snapshot.version <= row.version
       /\ change[c].at = "loaded" => change[c].wrote <= change[c].snapshot.version
       /\ (change[c].at \in {"new", "refused"}) <=> (change[c].wrote = 0)
       /\ ChangeKind[c] = "create" => change[c].wrote <= 1

\* A copy has the key of the newest rotation it could have seen, by what the changes wrote.
KeyOfItsTime(copy, now) ==
  /\ copy.key <= copy.version
  /\ copy.key # NoKey => copy.key > 0 /\ \E c \in Changes : ShowsKey(c) /\ now[c].wrote = copy.key
  /\ \A c \in Changes : ShowsKey(c) /\ now[c].wrote \in 1..copy.version => now[c].wrote <= copy.key
KeysInv ==
  /\ KeyOfItsTime(row, change) /\ KeyOfItsTime(cached, change)
  /\ \A c \in Changes : KeyOfItsTime(change[c].snapshot, change)

\* What was answered is known, what a restart cut off was read back by it.
SettledInv ==
  /\ \A c \in Changes : change[c].at = "done" => change[c].wrote <= settled
  /\ \A c, d \in Changes : (change[c].at \in {"written", "loaded"} /\ change[d].at = "lost")
                           => change[d].wrote < change[c].wrote
  /\ ~outOfOrder => /\ settled <= cached.version
                    /\ \A c \in Changes : change[c].at = "lost" => change[c].wrote <= cached.version

\* The wallet client lags behind only an unfinished rotation.
ClientInv ==
  client # NoKey =>
    /\ cached.version > 0
    /\ outOfOrder \/ client = cached.key
       \/ \E c \in Changes : ChangeKind[c] = "regen" /\ Unfinished(c) /\ change[c].wrote = cached.key

\* The key kept for reading is that of the newest rotation answered since the start.
OneShotInv ==
  oneShot # NoKey =>
    /\ \E c \in Changes : ShowsKey(c) /\ change[c].at = "done" /\ change[c].wrote = oneShot
    /\ \A c \in Changes : change[c].at = "lost" => change[c].wrote < oneShot
    /\ outOfOrder \/ \A c \in Changes : ShowsKey(c) /\ change[c].at = "done" => change[c].wrote <= oneShot

\* A nonce is remembered for longer than the request's timestamp is accepted.
NonceInv ==
  /\ handled > 0 => request.sent
  /\ request.sent => 2 * (request.stamp - request.ahead) <= tick
  /\ (registryFaults = 0 /\ handled > 0) => nonceUntil >= 2 * (request.stamp - request.ahead) + NonceTtl
  /\ (registryFaults = 0 /\ request.ahead < MaxSkew) => handled <= 1

RegistryInv ==
  /\ RegistryTypeOK /\ VersionsInv /\ KeysInv /\ SettledInv /\ ClientInv /\ OneShotInv /\ NonceInv

\* A new write leaves the keys of the copies before it in force.
LEMMA KeyKept ==
  ASSUME NEW copy \in Copies, NEW before, NEW now, KeyOfItsTime(copy, before),
         \A c \in Changes : now[c].wrote = before[c].wrote
                            \/ (before[c].wrote = 0 /\ now[c].wrote > copy.version)
  PROVE  KeyOfItsTime(copy, now)
  <1> USE DEF KeyOfItsTime, Copies, NoKey
  <1>1. copy.key \in Int /\ copy.version \in Nat OBVIOUS
  <1>2. copy.key # NoKey => \E c \in Changes : ShowsKey(c) /\ now[c].wrote = copy.key
    BY <1>1
  <1>3. ASSUME NEW c \in Changes, ShowsKey(c), now[c].wrote \in 1..copy.version PROVE now[c].wrote <= copy.key
    BY <1>1, <1>3
  <1> QED BY <1>1, <1>2, <1>3

\* The invariant says that the copy is current.
LEMMA CopyFromInv == RegistryInv => CopyIsCurrent
  <1> SUFFICES ASSUME RegistryInv, ~outOfOrder PROVE CopyIsCurrent BY DEF CopyIsCurrent
  <1> USE DEF RegistryInv, RegistryTypeOK, Copies, Phases
  <1>1. cached.version >= settled BY DEF SettledInv
  <1>2. client # NoKey => client = cached.key \/ \E c \in Changes : Unfinished(c) /\ change[c].wrote = cached.key
    BY DEF ClientInv
  <1>3. ASSUME oneShot # NoKey
        PROVE  oneShot = cached.key \/ \E c \in Changes : Unfinished(c) /\ change[c].wrote > oneShot
    <2>1. PICK d \in Changes : ShowsKey(d) /\ change[d].at = "done" /\ change[d].wrote = oneShot
      BY <1>3 DEF OneShotInv
    <2>2. oneShot <= settled /\ oneShot <= cached.version BY <2>1, <1>1 DEF SettledInv
    <2>3. change[d].wrote > 0 BY <2>1 DEF VersionsInv
    <2>4. oneShot <= cached.key BY <2>1, <2>2, <2>3 DEF KeysInv, KeyOfItsTime
    <2>5. ASSUME oneShot # cached.key
          PROVE  \E c \in Changes : Unfinished(c) /\ change[c].wrote > oneShot
      <3>1. cached.key # NoKey BY <2>1, <2>3, <2>4 DEF NoKey
      <3>2. PICK c \in Changes : ShowsKey(c) /\ change[c].wrote = cached.key
        BY <3>1 DEF KeysInv, KeyOfItsTime
      <3>3. change[c].wrote > oneShot BY SMTT(30), <3>2, <2>4, <2>5
      <3>4. change[c].at # "done" BY <3>2, <3>3, <1>3 DEF OneShotInv
      <3>5. change[c].at # "lost" BY <3>3, <1>3 DEF OneShotInv
      <3>6. change[c].at \notin {"new", "refused"} BY <3>1, <3>2 DEF VersionsInv, KeysInv, KeyOfItsTime
      <3>7. change[c].at \in Phases OBVIOUS
      <3> QED BY <3>2, <3>3, <3>4, <3>5, <3>6, <3>7 DEF Unfinished
    <2> QED BY <2>5
  <1> QED BY <1>1, <1>2, <1>3 DEF CopyIsCurrent

LEMMA InitRegistry == RegistryInit => RegistryInv
  <1> SUFFICES ASSUME RegistryInit PROVE RegistryInv OBVIOUS
  <1> USE RegistryAssumption
      DEF RegistryAssumption, RegistryInit, Absent, NewChange, NoKey, Copies, Phases
  <1>1. RegistryTypeOK
    <2>1. Absent \in Copies OBVIOUS
    <2>2. NewChange \in [at : Phases, wrote : Nat, snapshot : Copies] BY <2>1
    <2>3. change \in [Changes -> [at : Phases, wrote : Nat, snapshot : Copies]] BY <2>2
    <2>4. request \in [sent : BOOLEAN, stamp : Int, ahead : Int, key : Int] OBVIOUS
    <2> QED BY <2>1, <2>3, <2>4 DEF RegistryTypeOK
  <1>2. VersionsInv BY DEF VersionsInv
  <1>3. KeysInv BY DEF KeysInv, KeyOfItsTime
  <1>4. SettledInv /\ ClientInv /\ OneShotInv BY DEF SettledInv, ClientInv, OneShotInv
  <1>5. NonceInv BY DEF NonceInv
  <1> QED BY <1>1, <1>2, <1>3, <1>4, <1>5 DEF RegistryInv

\* A change's write is newer than everything and keeps the copies' lineage.
LEMMA WriteStep ==
  ASSUME RegistryInv, NEW g \in Changes, Write(g)
  PROVE  RegistryInv'
  <1> USE RegistryAssumption
      DEF RegistryAssumption, RegistryInv, RegistryTypeOK, Copies, Phases, NoKey, KeptByChanges
  <1>1. CASE ~Applies(g)
    <2>1. /\ change' = [change EXCEPT ![g].at = "refused"] /\ change[g].at = "new"
          /\ UNCHANGED <<row, cached, client, oneShot, settled, outOfOrder, registryFaults, tick, request, nonceUntil, handled>>
      BY <1>1 DEF Write
    <2>2. /\ \A c \in Changes \ {g} : change'[c] = change[c]
          /\ change'[g].at = "refused" /\ change'[g].wrote = change[g].wrote /\ change'[g].snapshot = change[g].snapshot
      BY <2>1
    <2>3. RegistryTypeOK' BY <2>1, <2>2
    <2>4. VersionsInv' BY <2>1, <2>2 DEF VersionsInv
    <2>5. KeysInv' 
      <3>1. \A copy \in Copies : KeyOfItsTime(copy, change) => KeyOfItsTime(copy, change')
        <4> TAKE copy \in Copies
        <4> HAVE KeyOfItsTime(copy, change)
        <4>1. \A c \in Changes : change'[c].wrote = change[c].wrote BY <2>2
        <4> QED BY <4>1, KeyKept
      <3>2. \A c \in Changes : change'[c].snapshot = change[c].snapshot BY <2>2
      <3> QED BY <2>1, <3>1, <3>2 DEF KeysInv
    <2>6. SettledInv' BY <2>1, <2>2 DEF SettledInv
    <2>7. ClientInv' /\ OneShotInv' BY <2>1, <2>2 DEF ClientInv, OneShotInv, Unfinished, ShowsKey
    <2>8. NonceInv' BY <2>1 DEF NonceInv
    <2> QED BY <2>3, <2>4, <2>5, <2>6, <2>7, <2>8
  <1>2. CASE Applies(g)
    <2> DEFINE w == row.version + 1
    <2>1. /\ row' = Written(g) /\ change' = [change EXCEPT ![g].at = "written", ![g].wrote = w] /\ change[g].at = "new"
          /\ UNCHANGED <<cached, client, oneShot, settled, outOfOrder, registryFaults, tick, request, nonceUntil, handled>>
      BY <1>2 DEF Write
    <2>2. /\ \A c \in Changes \ {g} : change'[c] = change[c]
          /\ change'[g].at = "written" /\ change'[g].wrote = w /\ change'[g].snapshot = change[g].snapshot
          /\ w \in Nat /\ row.version \in Nat /\ w > 0 /\ change[g].wrote = 0
      BY <2>1 DEF VersionsInv
    <2>3. /\ row' \in Copies /\ row'.version = w
          /\ row'.key = IF ShowsKey(g) THEN w ELSE row.key
          /\ row'.status # "absent"
      BY <2>1, <2>2, <1>2 DEF Written, Applies, ShowsKey, VersionsInv, Absent
    <2>4. RegistryTypeOK' BY <2>1, <2>2, <2>3
    <2>5. ChangeKind[g] = "create" => w = 1 BY <1>2, <2>2 DEF Applies, VersionsInv
    <2>6. VersionsInv' BY <2>1, <2>2, <2>3, <2>5 DEF VersionsInv, Absent
    <2>7. KeysInv'
      <3>1. ASSUME NEW copy \in Copies, copy.version <= row.version, KeyOfItsTime(copy, change)
            PROVE  KeyOfItsTime(copy, change')
        <4>1. \A c \in Changes : change'[c].wrote = change[c].wrote
                 \/ (change[c].wrote = 0 /\ change'[c].wrote > copy.version)
          BY <3>1, <2>2
        <4> QED BY <3>1, <4>1, KeyKept
      <3>2. KeyOfItsTime(cached', change') BY <3>1, <2>1 DEF VersionsInv, KeysInv
      <3>3. \A c \in Changes : KeyOfItsTime(change'[c].snapshot, change')
        <4> SUFFICES ASSUME NEW c \in Changes PROVE KeyOfItsTime(change'[c].snapshot, change') OBVIOUS
        <4>1. change'[c].snapshot = change[c].snapshot BY <2>2
        <4> QED BY <4>1, <3>1 DEF KeysInv, VersionsInv
      <3>4. KeyOfItsTime(row', change')
        <4>1. KeyOfItsTime(row, change') BY <3>1 DEF KeysInv
        <4>2. /\ row'.version = w /\ row'.key \in Int /\ row.key \in Int /\ w > row.version
              /\ \A c \in Changes : change'[c].wrote \in Nat /\ change'[c].wrote <= w
              /\ \A c \in Changes \ {g} : change'[c].wrote <= row.version
          BY <2>2, <2>3, <2>4 DEF VersionsInv
        <4>3. CASE ShowsKey(g) BY <4>3, <4>2, <2>2, <2>3 DEF KeyOfItsTime
        <4>4. CASE ~ShowsKey(g)
          <5>1. row'.key = row.key BY <4>4, <2>3
          <5>2. \A c \in Changes : ShowsKey(c) => change'[c].wrote <= row.version BY <4>4, <4>2
          <5> QED BY <4>1, <4>2, <5>1, <5>2 DEF KeyOfItsTime
        <4> QED BY <4>3, <4>4
      <3> QED BY <3>2, <3>3, <3>4 DEF KeysInv
    <2>8. SettledInv' BY <2>1, <2>2 DEF SettledInv, VersionsInv
    <2>9. ClientInv' BY <2>1, <2>2 DEF ClientInv, Unfinished, ShowsKey
    <2>10. OneShotInv' BY <2>1, <2>2 DEF OneShotInv, ShowsKey
    <2>11. NonceInv' BY <2>1 DEF NonceInv
    <2> QED BY <2>4, <2>6, <2>7, <2>8, <2>9, <2>10, <2>11
  <1> QED BY <1>1, <1>2

\* Reading the row back gives a copy of it.
LEMMA LoadStep ==
  ASSUME RegistryInv, NEW g \in Changes, Load(g) \/ LoadFails(g)
  PROVE  RegistryInv'
  <1> USE RegistryAssumption
      DEF RegistryAssumption, RegistryInv, RegistryTypeOK, Copies, Phases, NoKey, KeptByChanges
  <1>1. /\ UNCHANGED <<row, cached, client, oneShot, settled, outOfOrder, tick, request, nonceUntil, handled>>
        /\ change[g].at = "written" /\ registryFaults' \in Nat /\ registryFaults' >= registryFaults
    BY DEF Load, LoadFails
  <1>2. /\ change' \in [Changes -> [at : Phases, wrote : Nat, snapshot : Copies]]
        /\ \A c \in Changes \ {g} : change'[c] = change[c]
        /\ change'[g].wrote = change[g].wrote
        /\ \/ change'[g].at = "failed" /\ change'[g].snapshot = change[g].snapshot
           \/ change'[g].at = "loaded" /\ change'[g].snapshot = row
    <2>1. CASE Load(g) BY ZenonT(60), <2>1 DEF Load
    <2>2. CASE LoadFails(g) BY <2>2 DEF LoadFails
    <2> QED BY <2>1, <2>2
  <1>3. /\ change'[g].snapshot.version <= row.version /\ change[g].wrote <= row.version
        /\ change[g].wrote > 0 /\ row.version \in Nat
    BY <1>1, <1>2 DEF VersionsInv
  <1>11. \A c \in Changes :
           /\ change'[c].wrote = change[c].wrote
           /\ change'[c].snapshot \in {row, change[c].snapshot}
           /\ change'[c].at \in {"written", "loaded"} => change[c].at \in {"written", "loaded"}
           /\ change'[c].at = "lost" <=> change[c].at = "lost"
           /\ change'[c].at = "done" <=> change[c].at = "done"
    <2> TAKE c \in Changes
    <2>1. CASE c = g BY <2>1, <1>1, <1>2
    <2>2. CASE c # g BY <2>2, <1>2
    <2> QED BY <2>1, <2>2
  <1>12. \A c \in Changes : KeyOfItsTime(change'[c].snapshot, change) BY <1>11 DEF KeysInv
  <1>4. RegistryTypeOK' BY <1>1, <1>2, <1>3
  <1>5. VersionsInv' BY <1>1, <1>2, <1>3 DEF VersionsInv
  <1>6. KeysInv'
    <2>1. \A c \in Changes : change'[c].wrote = change[c].wrote BY <1>2
    <2>2. \A copy \in Copies : KeyOfItsTime(copy, change) => KeyOfItsTime(copy, change')
      <3> TAKE copy \in Copies
      <3> HAVE KeyOfItsTime(copy, change)
      <3> QED BY <2>1, KeyKept
    <2>3. \A c \in Changes : change'[c].snapshot \in Copies BY <1>2
    <2> QED BY <1>1, <1>12, <2>2, <2>3 DEF KeysInv
  <1>7. SettledInv' BY <1>1, <1>11 DEF SettledInv
  <1>8. ClientInv' BY <1>1, <1>2 DEF ClientInv, Unfinished, ShowsKey
  <1>9. OneShotInv' BY <1>1, <1>11 DEF OneShotInv, ShowsKey
  <1>10. NonceInv' BY <1>1 DEF NonceInv
  <1> QED BY <1>4, <1>5, <1>6, <1>7, <1>8, <1>9, <1>10

LEMMA DoneChange ==
  ASSUME NEW w
  PROVE  [NewChange EXCEPT !.at = "done", !.wrote = w] = [at |-> "done", wrote |-> w, snapshot |-> Absent]
  <1>1. [NewChange EXCEPT !.at = "done"] = [at |-> "done", wrote |-> 0, snapshot |-> Absent] BY DEF NewChange
  <1>2. [[at |-> "done", wrote |-> 0, snapshot |-> Absent] EXCEPT !.wrote = w] = [at |-> "done", wrote |-> w, snapshot |-> Absent]
    OBVIOUS
  <1>3. [NewChange EXCEPT !.at = "done", !.wrote = w] = [[NewChange EXCEPT !.at = "done"] EXCEPT !.wrote = w]
    BY DEF NewChange
  <1> QED BY <1>1, <1>2, <1>3

LEMMA LostChange ==
  ASSUME NEW w
  PROVE  [NewChange EXCEPT !.at = "lost", !.wrote = w] = [at |-> "lost", wrote |-> w, snapshot |-> Absent]
  <1>1. [NewChange EXCEPT !.at = "lost"] = [at |-> "lost", wrote |-> 0, snapshot |-> Absent] BY DEF NewChange
  <1>2. [[at |-> "lost", wrote |-> 0, snapshot |-> Absent] EXCEPT !.wrote = w] = [at |-> "lost", wrote |-> w, snapshot |-> Absent]
    OBVIOUS
  <1>3. [NewChange EXCEPT !.at = "lost", !.wrote = w] = [[NewChange EXCEPT !.at = "lost"] EXCEPT !.wrote = w]
    BY DEF NewChange
  <1> QED BY <1>1, <1>2, <1>3

\* Installing what was read keeps the copy's lineage; a client that is kept goes
\* on with its key, and only a rotation not yet answered can have given the copy
\* another one.
LEMMA InstallStep ==
  ASSUME RegistryInv, NEW g \in Changes, Install(g)
  PROVE  RegistryInv'
  <1> USE RegistryAssumption
      DEF RegistryAssumption, RegistryInv, RegistryTypeOK, Copies, Phases, NoKey, KeptByChanges
  <1> DEFINE copy == change[g].snapshot
             w == change[g].wrote
  <1>1. /\ change[g].at = "loaded" /\ cached' = copy
        /\ client' = IF DropsClient(g) THEN NoKey ELSE client
        /\ oneShot' = IF ShowsKey(g) THEN w ELSE oneShot
        /\ settled' = IF w > settled THEN w ELSE settled
        /\ UNCHANGED <<row, registryFaults, tick, request, nonceUntil, handled>>
    BY DEF Install
  <1>12. /\ outOfOrder' \in BOOLEAN
         /\ ~outOfOrder' => /\ ~outOfOrder /\ ~(copy.version < cached.version)
                            /\ ShowsKey(g) => \A d \in Changes : ShowsKey(d) /\ change[d].at = "done" => ~(change[d].wrote > w)
    BY DEF Install
  <1>13. [NewChange EXCEPT !.at = "done", !.wrote = w] = [at |-> "done", wrote |-> w, snapshot |-> Absent]
    BY DoneChange
  <1>2. /\ \A c \in Changes \ {g} : change'[c] = change[c]
        /\ change'[g] = [at |-> "done", wrote |-> w, snapshot |-> Absent]
        /\ change' = [change EXCEPT ![g] = [at |-> "done", wrote |-> w, snapshot |-> Absent]]
        /\ change'[g].at = "done" /\ change'[g].wrote = w /\ change'[g].snapshot = Absent
    BY <1>13 DEF Install
  <1>3. /\ w \in Nat /\ w > 0 /\ copy \in Copies /\ copy.version \in Nat /\ w <= copy.version
        /\ copy.version <= row.version /\ row.version \in Nat /\ cached.version \in Nat /\ settled \in Nat
        /\ KeyOfItsTime(copy, change) /\ KeyOfItsTime(cached, change) /\ copy.key \in Int /\ cached.key \in Int
    BY <1>1 DEF VersionsInv, KeysInv
  <1>4. Absent \in Copies BY DEF Absent
  <1>5. RegistryTypeOK' BY <1>1, <1>2, <1>3, <1>4, <1>12
  <1>6. VersionsInv' BY <1>1, <1>2, <1>3 DEF VersionsInv, Absent
  <1>7. KeysInv'
    <2>1. \A c \in Changes : change'[c].wrote = change[c].wrote BY <1>2
    <2>2. \A old \in Copies : KeyOfItsTime(old, change) => KeyOfItsTime(old, change')
      <3> TAKE old \in Copies
      <3> HAVE KeyOfItsTime(old, change)
      <3> QED BY <2>1, KeyKept
    <2>3. KeyOfItsTime(Absent, change') BY DEF KeyOfItsTime, Absent
    <2> QED BY <1>1, <1>2, <1>3, <2>2, <2>3 DEF KeysInv
  <1>8. SettledInv'
    <2>1. \A c \in Changes : change'[c].at = "done" => change'[c].wrote <= settled'
      BY <1>1, <1>2, <1>3 DEF SettledInv
    <2>2. \A c, d \in Changes : (change'[c].at \in {"written", "loaded"} /\ change'[d].at = "lost")
                                => change'[d].wrote < change'[c].wrote
      BY <1>2 DEF SettledInv
    <2>3. ~outOfOrder' => /\ settled' <= cached'.version
                          /\ \A c \in Changes : change'[c].at = "lost" => change'[c].wrote <= cached'.version
      <3> SUFFICES ASSUME ~outOfOrder' PROVE settled' <= cached'.version /\ \A c \in Changes : change'[c].at = "lost" => change'[c].wrote <= cached'.version
        OBVIOUS
      <3>1. ~outOfOrder /\ cached.version <= copy.version BY <1>3, <1>12
      <3>2. settled <= cached.version /\ \A c \in Changes : change[c].at = "lost" => change[c].wrote <= cached.version
        BY <3>1 DEF SettledInv
      <3> QED BY <3>1, <3>2, <1>1, <1>2, <1>3
    <2> QED BY <2>1, <2>2, <2>3 DEF SettledInv
  <1>9. ClientInv'
    <2> SUFFICES ASSUME client' # NoKey
                 PROVE  /\ cached'.version > 0
                        /\ ~outOfOrder' => client' = cached'.key
                             \/ \E c \in Changes : ChangeKind[c] = "regen" /\ Unfinished(c)' /\ change'[c].wrote = cached'.key
      BY DEF ClientInv
    <2>1. ~DropsClient(g) /\ client' = client /\ ChangeKind[g] # "regen" BY <1>1 DEF DropsClient
    <2>2. cached'.version > 0 BY <1>1, <1>3
    <2>3. ASSUME ~outOfOrder', client' # cached'.key
          PROVE  \E c \in Changes : ChangeKind[c] = "regen" /\ Unfinished(c)' /\ change'[c].wrote = cached'.key
      <3>1. ~outOfOrder /\ cached.version <= copy.version BY <2>3, <1>12, <1>3
      <3>2. \E c \in Changes : ChangeKind[c] = "regen" /\ Unfinished(c) /\ change[c].wrote = copy.key
        <4>1. CASE copy.key = cached.key BY <4>1, <3>1, <2>1, <2>3, <1>1 DEF ClientInv
        <4>2. CASE copy.key # cached.key
          <5>1. cached.version > 0 /\ settled <= cached.version
            BY <2>1, <3>1 DEF ClientInv, SettledInv
          <5>2. \A c \in Changes : ShowsKey(c) /\ change[c].wrote \in 1..cached.version => change[c].wrote <= copy.key
            BY <1>3, <3>1 DEF KeyOfItsTime
          <5>3. copy.key # NoKey
            BY <4>2, <1>3, <5>2 DEF KeyOfItsTime
          <5>4. PICK c \in Changes : ShowsKey(c) /\ change[c].wrote = copy.key
            BY <1>3, <5>3 DEF KeyOfItsTime
          <5>5. change[c].wrote > cached.version
            BY SMTT(30), <1>3, <4>2, <5>2, <5>3, <5>4 DEF KeyOfItsTime
          <5>6. change[c].at # "done" BY <5>1, <5>5 DEF SettledInv
          <5>7. change[c].at # "lost" BY <3>1, <5>5 DEF SettledInv
          <5>8. ChangeKind[c] # "create" BY <5>1, <5>5 DEF VersionsInv
          <5>9. change[c].at \notin {"new", "refused"} BY <5>1, <5>5 DEF VersionsInv
          <5> QED BY <5>4, <5>6, <5>7, <5>8, <5>9 DEF Unfinished, ShowsKey
        <4> QED BY <4>1, <4>2
      <3>3. PICK c \in Changes : ChangeKind[c] = "regen" /\ Unfinished(c) /\ change[c].wrote = copy.key BY <3>2
      <3>4. c # g BY <3>3, <2>1
      <3> QED BY <3>3, <3>4, <1>1, <1>2 DEF Unfinished
    <2> QED BY <2>2, <2>3
  <1>10. OneShotInv'
    <2>1. CASE ShowsKey(g)
      <3>1. oneShot' = w BY <2>1, <1>1
      <3>2. \A c \in Changes : change'[c].at = "lost" => change'[c].wrote < w BY <1>1, <1>2 DEF SettledInv
      <3>3. ~outOfOrder' => \A c \in Changes : ShowsKey(c) /\ change'[c].at = "done" => change'[c].wrote <= w
        BY <2>1, <1>12, <1>2, <1>3
      <3>4. \E c \in Changes : ShowsKey(c) /\ change'[c].at = "done" /\ change'[c].wrote = w BY <2>1, <1>2
      <3> QED BY <3>1, <3>2, <3>3, <3>4 DEF OneShotInv
    <2>2. CASE ~ShowsKey(g) BY <2>2, <1>1, <1>2, <1>12 DEF OneShotInv
    <2> QED BY <2>1, <2>2
  <1>11. NonceInv' BY <1>1 DEF NonceInv
  <1> QED BY <1>5, <1>6, <1>7, <1>8, <1>9, <1>10, <1>11

\* Reading the credentials, asking for the wallet client and the request's steps
\* leave the row, its copies and the changes alone.
LEMMA UseStep ==
  ASSUME RegistryInv, ReadCredentials \/ GetClient
  PROVE  RegistryInv'
  <1> USE RegistryAssumption
      DEF RegistryAssumption, RegistryInv, RegistryTypeOK, Copies, Phases, NoKey, KeptByChanges
  <1>1. /\ UNCHANGED <<row, cached, change, settled, outOfOrder, registryFaults, tick, request, nonceUntil, handled>>
        /\ oneShot' \in {oneShot, NoKey} /\ client' \in {NoKey, client, cached.key}
    BY DEF ReadCredentials, GetClient
  <1>2. RegistryTypeOK' BY <1>1
  <1>3. VersionsInv' BY <1>1 DEF VersionsInv
  <1>4. KeysInv' BY <1>1 DEF KeysInv
  <1>5. SettledInv' /\ OneShotInv' /\ NonceInv' BY <1>1 DEF SettledInv, OneShotInv, NonceInv
  <1>6. ClientInv'
    <2>1. CASE client' = client BY <2>1, <1>1 DEF ClientInv, Unfinished
    <2>2. CASE client' = NoKey BY <2>2 DEF ClientInv
    <2>3. CASE client' = cached.key /\ client' # NoKey
      <3>1. cached.version > 0 BY <2>3 DEF KeysInv, KeyOfItsTime
      <3> QED BY <3>1, <2>3, <1>1 DEF ClientInv
    <2> QED BY <1>1, <2>1, <2>2, <2>3
  <1> QED BY <1>2, <1>3, <1>4, <1>5, <1>6

\* A request is delivered twice only when its timestamp outlives its nonce.
LEMMA RequestStep ==
  ASSUME RegistryInv, TickPasses \/ SendRequest \/ Deliver
  PROVE  RegistryInv'
  <1> USE RegistryAssumption DEF RegistryAssumption, RegistryInv, RegistryTypeOK
  <1>1. UNCHANGED <<row, cached, client, oneShot, change, settled, outOfOrder, registryFaults>>
    BY DEF TickPasses, SendRequest, Deliver
  <1>2. /\ tick' \in Nat /\ nonceUntil' \in Nat /\ handled' \in Nat
        /\ request' \in [sent : BOOLEAN, stamp : Int, ahead : Int, key : Int]
        /\ NonceInv'
    <2>1. CASE TickPasses BY <2>1 DEF TickPasses, NonceInv
    <2>2. CASE SendRequest
      <3>1. row.key \in Int BY DEF Copies
      <3>2. PICK ahead \in (-1)..MaxSkew :
              request' = [sent |-> TRUE, stamp |-> Seconds(tick) + ahead, ahead |-> ahead, key |-> row.key]
        BY <2>2 DEF SendRequest
      <3>3. Seconds(tick) \in Nat /\ 2 * Seconds(tick) <= tick BY DEF Seconds
      <3>4. /\ ~request.sent /\ UNCHANGED <<tick, nonceUntil, handled>> /\ handled = 0
        BY <2>2 DEF SendRequest, NonceInv
      <3>5. ahead \in Int /\ Seconds(tick) + ahead - ahead = Seconds(tick) BY <3>3
      <3>6. request' \in [sent : BOOLEAN, stamp : Int, ahead : Int, key : Int] BY <3>1, <3>2, <3>3, <3>5
      <3>7. 2 * (request'.stamp - request'.ahead) <= tick BY <3>2, <3>3, <3>5
      <3> QED BY <3>4, <3>6, <3>7 DEF NonceInv
    <2>3. CASE Deliver
      <3> DEFINE sent == request.stamp - request.ahead
      <3>1. /\ request.sent /\ nonceUntil <= tick /\ nonceUntil' = tick + 4 * MaxSkew /\ handled' = handled + 1
            /\ InSkew /\ UNCHANGED <<tick, request>>
        BY <2>3 DEF Deliver, Fresh, Trusted, NonceTtl
      <3>2. /\ request.stamp \in Int /\ request.ahead \in Int /\ sent \in Int
            /\ 2 * sent <= tick
        BY <3>1 DEF NonceInv
      <3>3. nonceUntil' >= 2 * sent + NonceTtl BY <3>1, <3>2 DEF NonceTtl
      <3>4. ASSUME registryFaults = 0, request.ahead < MaxSkew PROVE handled = 0
        <4> SUFFICES ASSUME handled > 0 PROVE FALSE OBVIOUS
        <4>1. tick >= 2 * sent + 4 * MaxSkew BY <3>1, <3>2, <3>4 DEF NonceInv, NonceTtl
        <4>2. Seconds(tick) \in Nat /\ tick <= 2 * Seconds(tick) + 1 BY DEF Seconds
        <4>3. Seconds(tick) - request.stamp <= MaxSkew BY <3>1, <3>2, <4>2 DEF InSkew
        <4> QED BY <4>1, <4>2, <4>3, <3>2, <3>4
      <3>5. nonceUntil' \in Nat /\ handled' \in Nat BY <3>1
      <3> QED BY <3>1, <3>2, <3>3, <3>4, <3>5, <1>1 DEF NonceInv
    <2> QED BY <2>1, <2>2, <2>3
  <1>3. RegistryTypeOK' BY <1>1, <1>2
  <1>4. VersionsInv' BY <1>1 DEF VersionsInv
  <1>5. KeysInv' BY <1>1 DEF KeysInv
  <1>6. SettledInv' /\ OneShotInv' BY <1>1 DEF SettledInv, OneShotInv
  <1>7. ClientInv' BY <1>1 DEF ClientInv, Unfinished
  <1> QED BY <1>2, <1>3, <1>4, <1>5, <1>6, <1>7

\* A restart reads the row back; what it cut off is known to the copy from then on.
LEMMA RestartRegistryStep ==
  ASSUME RegistryInv, RestartRegistry
  PROVE  RegistryInv'
  <1> USE RegistryAssumption
      DEF RegistryAssumption, RegistryInv, RegistryTypeOK, Copies, Phases, NoKey
  <1>1. /\ registryFaults' = registryFaults + 1 /\ cached' = row /\ client' = NoKey /\ oneShot' = NoKey
        /\ nonceUntil' = 0 /\ outOfOrder' = FALSE /\ UNCHANGED <<row, tick, request, handled, settled>>
    BY DEF RestartRegistry
  <1>2. \A c \in Changes :
          change'[c] = IF change[c].at \in {"written", "loaded", "failed"}
                       THEN [at |-> "lost", wrote |-> change[c].wrote, snapshot |-> Absent] ELSE change[c]
    BY LostChange DEF RestartRegistry
  <1>3. Absent \in Copies BY DEF Absent
  <1>4. change' \in [Changes -> [at : Phases, wrote : Nat, snapshot : Copies]]
    <2>1. \A c \in Changes : change'[c] \in [at : Phases, wrote : Nat, snapshot : Copies]
      <3> TAKE c \in Changes
      <3>1. change[c] \in [at : Phases, wrote : Nat, snapshot : Copies] /\ change[c].wrote \in Nat OBVIOUS
      <3>2. [at |-> "lost", wrote |-> change[c].wrote, snapshot |-> Absent] \in [at : Phases, wrote : Nat, snapshot : Copies]
        BY <3>1, <1>3
      <3> QED BY <1>2, <3>1, <3>2
    <2>2. change' = [c \in Changes |-> change'[c]] BY DEF RestartRegistry
    <2> QED BY <2>1, <2>2
  <1>5. \A c \in Changes :
          /\ change'[c].wrote = change[c].wrote
          /\ change'[c].snapshot \in {Absent, change[c].snapshot}
          /\ change'[c].at \notin {"written", "loaded", "failed"}
          /\ change'[c].at = "done" => change[c].at = "done"
          /\ change'[c].at \in {"new", "refused"} <=> change[c].at \in {"new", "refused"}
    <2> TAKE c \in Changes
    <2>1. CASE change[c].at \in {"written", "loaded", "failed"}
      <3>1. change'[c] = [at |-> "lost", wrote |-> change[c].wrote, snapshot |-> Absent] BY <2>1, <1>2
      <3>2. change'[c].at = "lost" /\ change'[c].wrote = change[c].wrote /\ change'[c].snapshot = Absent
        BY <3>1
      <3> QED BY <2>1, <3>2
    <2>2. CASE change[c].at \notin {"written", "loaded", "failed"} BY <2>2, <1>2
    <2> QED BY <2>1, <2>2
  <1>6. RegistryTypeOK'
    <2>1. registryFaults' \in Nat BY <1>1
    <2>2. row' \in Copies /\ cached' \in Copies BY <1>1
    <2>3. client' \in Int /\ oneShot' \in Int BY <1>1
    <2>4. tick' \in Nat /\ nonceUntil' \in Nat /\ handled' \in Nat /\ settled' \in Nat BY <1>1
    <2>5. request' \in [sent : BOOLEAN, stamp : Int, ahead : Int, key : Int] BY <1>1
    <2>6. outOfOrder' \in BOOLEAN BY <1>1
    <2> QED BY ONLY <1>4, <2>1, <2>2, <2>3, <2>4, <2>5, <2>6 DEF RegistryTypeOK
  <1>7. VersionsInv' BY SMTT(30), <1>1, <1>5, <1>6 DEF VersionsInv, Absent
  <1>8. KeysInv'
    <2>1. \A copy \in Copies : KeyOfItsTime(copy, change) => KeyOfItsTime(copy, change')
      <3> TAKE copy \in Copies
      <3> HAVE KeyOfItsTime(copy, change)
      <3> QED BY <1>5, KeyKept
    <2>2. KeyOfItsTime(Absent, change') BY DEF KeyOfItsTime, Absent
    <2> QED BY <1>1, <1>5, <2>1, <2>2 DEF KeysInv
  <1>9. SettledInv' BY <1>1, <1>5 DEF SettledInv, VersionsInv
  <1>10. ClientInv' /\ OneShotInv' BY <1>1 DEF ClientInv, OneShotInv
  <1>11. NonceInv' BY <1>1 DEF NonceInv
  <1> QED BY <1>6, <1>7, <1>8, <1>9, <1>10, <1>11

LEMMA RegistryStutter == RegistryInv /\ UNCHANGED registryVars => RegistryInv'
  BY DEF registryVars, RegistryInv, RegistryTypeOK, VersionsInv, KeysInv, KeyOfItsTime, SettledInv, ClientInv, OneShotInv, NonceInv,
         Unfinished, ShowsKey

\* Every behaviour of the registry keeps its invariant.
THEOREM RegistryInvariance == RegistrySpec => []RegistryInv
  <1>1. RegistryInv /\ [RegistryNext]_registryVars => RegistryInv'
    BY WriteStep, LoadStep, InstallStep, UseStep, RequestStep, RestartRegistryStep, RegistryStutter DEF RegistryNext
  <1> QED BY <1>1, InitRegistry, PTL DEF RegistrySpec

\* Once a change was answered the copy, the wallet client and the key kept for reading
\* are current up to rotations not yet answered, and a signed request is handled once.
THEOREM RegistryRight == RegistrySpec => []RegistryIsRight
  <1>1. RegistryInv => RegistryIsRight BY CopyFromInv DEF RegistryIsRight, HandledOnce, RegistryInv, NonceInv
  <1> QED BY <1>1, RegistryInvariance, PTL

-----------------------------------------------------------------------------
(* OperatorSessions.  A session is minted once, so a row that was deleted   *)
(* does not come back, and what is attached, joining or betting after that  *)
(* was so when the row went.                                               *)

TermStates == [at : {"new", "working", "voiding", "deleting", "done"}, todo : SUBSET Sessions,
               current : SUBSET Sessions, scope : SUBSET Sessions]

SessionTypeOK ==
  /\ launch \in [Sessions -> {"none", "checked", "authenticated", "refused", "minted"}]
  /\ seat \in [Sessions -> {"none", "inAir", "seated", "voiding", "over"}]
  /\ term \in [Terminations -> TermStates]
  /\ stored \subseteq Sessions /\ logged \subseteq Sessions

Minted == {s \in Sessions : launch[s] = "minted"}
MintedInv ==
  /\ stored \subseteq Minted /\ logged \subseteq Minted
  /\ \A t \in Terminations : term[t].scope \subseteq Minted

\* A session in the scope of a termination is ahead of it, in hand, or gone.
ScopeInv ==
  \A t \in Terminations :
    /\ term[t].todo \cup term[t].current \subseteq term[t].scope
    /\ term[t].scope \cap stored \subseteq term[t].todo \cup term[t].current
    /\ term[t].at \in {"new", "working", "done"} => term[t].current = {}
    /\ term[t].at = "done" => term[t].todo = {}

SessionInv == SessionTypeOK /\ MintedInv /\ ScopeInv /\ TerminationHolds

LEMMA InitSessions == SessionsInit => SessionInv
  BY DEF SessionsInit, SessionInv, SessionTypeOK, MintedInv, Minted, ScopeInv, TerminationHolds, NewTerm, TermStates

\* Launching, joining and betting.
LEMMA PlayerStep ==
  ASSUME SessionInv, NEW s \in Sessions,
         \/ LaunchChecks(s) \/ LaunchAuthenticates(s) \/ LaunchMints(s) \/ JoinReads(s) \/ JoinAttaches(s)
         \/ Disconnects(s) \/ BetBegins(s) \/ BetAnswered(s) \/ BetPlayed(s)
  PROVE  SessionInv'
  <1> USE DEF SessionInv, SessionTypeOK, MintedInv, Minted, ScopeInv, TerminationHolds, UnderWay, Known
  <1>1. CASE LaunchChecks(s) BY <1>1 DEF LaunchChecks
  <1>2. CASE LaunchAuthenticates(s) BY <1>2 DEF LaunchAuthenticates
  <1>3. CASE LaunchMints(s)
    <2>1. \A t \in Terminations : s \notin term[t].scope BY <1>3 DEF LaunchMints
    <2> QED BY <1>3, <2>1 DEF LaunchMints
  <1>4. CASE JoinReads(s) BY <1>4 DEF JoinReads
  <1>5. CASE JoinAttaches(s) BY <1>5 DEF JoinAttaches
  <1>6. CASE Disconnects(s) BY <1>6 DEF Disconnects
  <1>7. CASE BetBegins(s) BY <1>7 DEF BetBegins
  <1>8. CASE BetAnswered(s) BY <1>8 DEF BetAnswered
  <1>9. CASE BetPlayed(s) BY <1>9 DEF BetPlayed
  <1> QED BY <1>1, <1>2, <1>3, <1>4, <1>5, <1>6, <1>7, <1>8, <1>9

\* Terminating one session, or all that ever bet.
LEMMA TerminationStep ==
  ASSUME SessionInv, NEW t \in Terminations,
         \/ LockBegins(t) \/ ClosesSockets(t) \/ DeletesRow(t)
         \/ \E s \in Sessions : TerminateBegins(t, s) \/ ListsBets(t, s)
  PROVE  SessionInv'
  <1> USE DEF SessionInv, SessionTypeOK, MintedInv, Minted, ScopeInv, TerminationHolds, UnderWay, Known, TermStates
  <1>1. CASE LockBegins(t) BY <1>1 DEF LockBegins
  <1>2. CASE ClosesSockets(t) BY <1>2 DEF ClosesSockets
  <1>3. CASE DeletesRow(t)
    <2>1. /\ term[t].at = "deleting" /\ stored' = stored \ term[t].current
          /\ late' = late \cup {s \in term[t].current \cap stored : UnderWay(s)}
          /\ UNCHANGED <<launch, joining, attached, seat, logged>>
      BY <1>3 DEF DeletesRow
    <2>2. /\ term' \in [Terminations -> TermStates] /\ \A u \in Terminations \ {t} : term'[u] = term[u]
          /\ term'[t].at = IF term[t].todo = {} THEN "done" ELSE "working"
          /\ term'[t].todo = term[t].todo /\ term'[t].current = {} /\ term'[t].scope = term[t].scope
      BY ZenonT(60), <1>3 DEF DeletesRow
    <2>3. SessionTypeOK' /\ MintedInv' BY <2>1, <2>2
    <2>4. ScopeInv'
      <3> SUFFICES ASSUME NEW u \in Terminations
                   PROVE  /\ term'[u].todo \cup term'[u].current \subseteq term'[u].scope
                          /\ term'[u].scope \cap stored' \subseteq term'[u].todo \cup term'[u].current
                          /\ term'[u].at \in {"new", "working", "done"} => term'[u].current = {}
                          /\ term'[u].at = "done" => term'[u].todo = {}
        OBVIOUS
      <3>1. CASE u = t BY <3>1, <2>1, <2>2
      <3>2. CASE u # t BY <3>2, <2>1, <2>2
      <3> QED BY <3>1, <3>2
    <2>5. \A u \in Terminations : term'[u].at = "done" => term'[u].scope \cap stored' = {}
      <3> TAKE u \in Terminations
      <3>1. term'[u].scope \cap stored' \subseteq term'[u].todo \cup term'[u].current BY <2>4
      <3>2. term'[u].at = "done" => term'[u].todo = {} /\ term'[u].current = {} BY <2>4
      <3> QED BY <3>1, <3>2
    <2>6. \A s \in Sessions : (launch'[s] = "minted" /\ s \notin stored' /\ s \notin late') => ~UnderWay(s)'
      BY <2>1
    <2> QED BY <2>3, <2>4, <2>5, <2>6
  <1>4. ASSUME NEW s \in Sessions, TerminateBegins(t, s) PROVE SessionInv' BY <1>4 DEF TerminateBegins
  <1>5. ASSUME NEW s \in Sessions, ListsBets(t, s) PROVE SessionInv'
    <2>1. /\ s \in term[t].todo /\ term[t].at = "working"
          /\ UNCHANGED <<launch, stored, joining, logged, late>>
      BY <1>5 DEF ListsBets
    <2>6. /\ seat' \in [Sessions -> {"none", "inAir", "seated", "voiding", "over"}]
          /\ attached' \subseteq attached /\ \A q \in Sessions : seat'[q] \in {seat[q], "voiding"}
      <3>1. CASE seat[s] = "seated" BY ZenonT(60), <1>5, <3>1 DEF ListsBets
      <3>2. CASE seat[s] # "seated" BY <1>5, <3>2 DEF ListsBets
      <3> QED BY <3>1, <3>2
    <2>2. /\ term' \in [Terminations -> TermStates] /\ \A u \in Terminations \ {t} : term'[u] = term[u]
          /\ term'[t].at \in {"voiding", "deleting"}
          /\ term'[t].todo = term[t].todo \ {s} /\ term'[t].current = {s} /\ term'[t].scope = term[t].scope
      <3>1. PICK x \in {"voiding", "deleting"} :
              term' = [term EXCEPT ![t].at = x, ![t].todo = @ \ {s}, ![t].current = {s}]
        BY <1>5 DEF ListsBets
      <3>2. term[t] \in TermStates /\ term[t].todo \ {s} \in SUBSET Sessions /\ {s} \in SUBSET Sessions OBVIOUS
      <3>3. [term[t] EXCEPT !.at = x, !.todo = @ \ {s}, !.current = {s}] \in TermStates BY <3>2
      <3> QED BY <3>1, <3>2, <3>3
    <2>3. SessionTypeOK' /\ MintedInv' BY <2>1, <2>2, <2>6
    <2>4. ScopeInv'
      <3> SUFFICES ASSUME NEW u \in Terminations
                   PROVE  /\ term'[u].todo \cup term'[u].current \subseteq term'[u].scope
                          /\ term'[u].scope \cap stored' \subseteq term'[u].todo \cup term'[u].current
                          /\ term'[u].at \in {"new", "working", "done"} => term'[u].current = {}
                          /\ term'[u].at = "done" => term'[u].todo = {}
        OBVIOUS
      <3>1. CASE u = t BY <3>1, <2>1, <2>2
      <3>2. CASE u # t BY <3>2, <2>1, <2>2
      <3> QED BY <3>1, <3>2
    <2>5. TerminationHolds' BY <2>1, <2>2, <2>6
    <2> QED BY <2>3, <2>4, <2>5
  <1> QED BY <1>1, <1>2, <1>3, <1>4, <1>5

\* Once a termination is answered its sessions are out, whatever was not under way
\* already when their rows were deleted.
THEOREM SessionsEnd == SessionsSpec => []TerminationHolds
  <1>1. SessionInv /\ GateMoves => SessionInv'
    BY DEF GateMoves, SessionInv, SessionTypeOK, MintedInv, Minted, ScopeInv, TerminationHolds, UnderWay
  <1>3. SessionInv /\ UNCHANGED sessionVars => SessionInv'
    BY DEF sessionVars, SessionInv, SessionTypeOK, MintedInv, Minted, ScopeInv, TerminationHolds, UnderWay
  <1>4. SessionInv /\ [SessionsNext]_sessionVars => SessionInv'
    BY <1>1, <1>3, PlayerStep, TerminationStep DEF SessionsNext
  <1>2. SessionInv => TerminationHolds BY DEF SessionInv
  <1> QED BY <1>4, <1>2, InitSessions, PTL DEF SessionsSpec

-----------------------------------------------------------------------------
(* AdminAccounts.  A request that deletes was not made by the account it    *)
(* deletes, and a request's outcome is set where its audit row is sent.     *)

AdminRows == [hash : Passwords, isAdmin : BOOLEAN]
Acts == {"create", "roles", "password", "delete"}

Served == [at : {"new", "signing", "refusing", "changing", "reading", "ended"}, kind : Acts \cup {"none"},
           actor : Admins \cup {"none"}, target : Admins \cup {"none"}, hash : Passwords \cup {"none"},
           isAdmin : BOOLEAN, outcome : {"none", "ok", "failed", "refused", "broken", "lost"}]

AdminTypeOK ==
  /\ admin \in [Admins -> AdminRows \cup {NoRow}]
  /\ DOMAIN token = Requests /\ \A r \in Requests : token[r] = NoToken \/ token[r].sub \in Admins
  /\ req \in [Requests -> Served]
  /\ adminFaults \in Nat /\ auditing \cup audited \subseteq Requests /\ ghost \in BOOLEAN

\* What a request may rely on when it goes on.
Sound(q) ==
  /\ q.at = "signing" => q.actor \in Admins
  /\ q.at \in {"changing", "reading"} => q.kind \in Acts /\ q.target \in Admins
  /\ q.at = "changing" =>
       /\ q.actor \in Admins
       /\ q.kind = "delete" => q.actor # q.target
       /\ q.kind \in {"create", "password"} => q.hash \in Passwords
  /\ q.at # "ended" => q.outcome = "none"
ChangesInv == \A r \in Requests : Sound(req[r])

\* Only requests that ended well, or a refused login, have an audit row; unless a
\* fault intervened they all have one or are about to.
AuditInv ==
  \A r \in Requests :
    /\ r \in auditing \cup audited => req[r].outcome \in {"ok", "failed"}
    /\ (adminFaults = 0 /\ req[r].outcome \in {"ok", "failed"}) => r \in auditing \cup audited

AdminInv == AdminTypeOK /\ ChangesInv /\ AuditInv /\ SomeoneRemains

LEMMA BootRows ==
  ASSUME NEW rows \in [Admins -> AdminRows \cup {NoRow}], NEW p \in Passwords
  PROVE  /\ Boot(rows) \in [Admins -> AdminRows \cup {NoRow}]
         /\ \E a \in Admins : Boot(rows)[a] # NoRow
         /\ \A a \in Admins : rows[a] # NoRow => Boot(rows)[a] # NoRow
  <1> USE AdminAssumption DEF AdminAssumption
  <1>1. FirstRow \in AdminRows /\ FirstRow # NoRow BY DEF FirstRow, AdminRows, NoRow
  <1> QED BY <1>1 DEF Boot

LEMMA InitAdmin == ASSUME AdminInit PROVE AdminInv
  <1> USE AdminAssumption DEF AdminAssumption, AdminInit
  <1>1. FirstRow \in AdminRows BY DEF FirstRow, AdminRows
  <1>2. [a \in Admins |-> IF a \in AdminsAtStart THEN FirstRow ELSE NoRow] \in [Admins -> AdminRows \cup {NoRow}]
    BY <1>1
  <1>3. /\ admin \in [Admins -> AdminRows \cup {NoRow}] /\ SomeoneRemains
    BY <1>2, BootRows DEF SomeoneRemains
  <1>4. NewRequest \in Served BY DEF NewRequest, Served
  <1>5. AdminTypeOK BY <1>3, <1>4 DEF AdminTypeOK
  <1>6. ChangesInv /\ AuditInv BY DEF ChangesInv, Sound, AuditInv, NewRequest
  <1> QED BY <1>3, <1>5, <1>6 DEF AdminInv

\* A request goes on.
LEMMA GoesOn ==
  ASSUME AdminInv, NEW r \in Requests, NEW q \in Served, Sound(q),
         req[r].at # "ended", q.at # "ended", req' = [req EXCEPT ![r] = q],
         UNCHANGED <<admin, token, auditing, audited, ghost, adminFaults>>
  PROVE  AdminInv'
  <1>1. req' \in [Requests -> Served] /\ ChangesInv' BY DEF AdminInv, AdminTypeOK, ChangesInv
  <1>2. req[r].outcome = "none" /\ q.outcome = "none" BY DEF AdminInv, ChangesInv, Sound
  <1>3. AuditInv' BY <1>2 DEF AdminInv, AdminTypeOK, AuditInv
  <1> QED BY <1>1, <1>3 DEF AdminInv, AdminTypeOK, SomeoneRemains

\* A request ends and sends its audit row if, and only if, it is to have one.
LEMMA Ending ==
  ASSUME AdminInv, NEW r \in Requests, NEW outcome \in {"ok", "failed", "refused", "broken"}, NEW writes \in BOOLEAN,
         req[r].at # "ended", End(r, outcome, writes), writes <=> outcome \in {"ok", "failed"},
         UNCHANGED <<audited, adminFaults>>
  PROVE  req' \in [Requests -> Served] /\ auditing' \subseteq Requests /\ ChangesInv' /\ AuditInv'
  <1> DEFINE q == [NewRequest EXCEPT !.at = "ended", !.outcome = outcome]
  <1>1. q \in Served /\ q.at = "ended" /\ q.outcome = outcome BY DEF NewRequest, Served
  <1>2. req' = [req EXCEPT ![r] = q] /\ auditing' = IF writes THEN auditing \cup {r} ELSE auditing BY DEF End
  <1>3. req' \in [Requests -> Served] /\ ChangesInv' BY <1>1, <1>2 DEF AdminInv, AdminTypeOK, ChangesInv, Sound
  <1>4. req[r].outcome = "none" BY DEF AdminInv, ChangesInv, Sound
  <1>5. AuditInv' BY <1>1, <1>2, <1>4 DEF AdminInv, AdminTypeOK, AuditInv
  <1> QED BY <1>2, <1>3, <1>5 DEF AdminInv, AdminTypeOK

\* Signing in and out.
LEMMA SignInStep ==
  ASSUME AdminInv, NEW r \in Requests, LoginReads(r) \/ LoginRefuses(r) \/ LoginSigns(r) \/ Logout(r)
  PROVE  AdminInv'
  <1> USE AdminAssumption DEF AdminAssumption
  <1>1. CASE LoginReads(r)
    <2>1. PICK a \in Admins, p \in Passwords :
            req' = [req EXCEPT ![r] = IF admin[a].hash = p
                THEN [NewRequest EXCEPT !.at = "signing", !.actor = a, !.isAdmin = admin[a].isAdmin]
                ELSE [NewRequest EXCEPT !.at = "refusing"]]
      BY <1>1 DEF LoginReads
    <2>2. req[r].at = "new" /\ UNCHANGED <<admin, token, auditing, audited, ghost, adminFaults>>
      BY <1>1 DEF LoginReads, Arrives
    <2>3. admin[a].isAdmin \in BOOLEAN
      <3>1. admin[a] \in AdminRows \/ admin[a] = NoRow BY DEF AdminInv, AdminTypeOK
      <3>2. CASE admin[a] \in AdminRows BY <3>2 DEF AdminRows
      <3>3. CASE admin[a] = NoRow BY <3>3 DEF NoRow
      <3> QED BY <3>1, <3>2, <3>3
    <2> DEFINE in == [NewRequest EXCEPT !.at = "signing", !.actor = a, !.isAdmin = admin[a].isAdmin]
               out == [NewRequest EXCEPT !.at = "refusing"]
    <2>4. in \in Served /\ Sound(in) /\ in.at # "ended" BY <2>3 DEF NewRequest, Served, Sound
    <2>5. out \in Served /\ Sound(out) /\ out.at # "ended" BY DEF NewRequest, Served, Sound
    <2>6. CASE req' = [req EXCEPT ![r] = in] BY <2>2, <2>4, <2>6, GoesOn
    <2>7. CASE req' = [req EXCEPT ![r] = out] BY <2>2, <2>5, <2>7, GoesOn
    <2> QED BY <2>1, <2>6, <2>7
  <1>2. CASE LoginRefuses(r)
    <2>1. req' \in [Requests -> Served] /\ auditing' \subseteq Requests /\ ChangesInv' /\ AuditInv'
      BY <1>2, Ending DEF LoginRefuses
    <2> QED BY <1>2, <2>1 DEF LoginRefuses, AdminInv, AdminTypeOK, SomeoneRemains
  <1>3. CASE LoginSigns(r)
    <2>1. req' \in [Requests -> Served] /\ auditing' \subseteq Requests /\ ChangesInv' /\ AuditInv'
      BY <1>3, Ending DEF LoginSigns
    <2>2. req[r].actor \in Admins BY <1>3 DEF LoginSigns, AdminInv, ChangesInv, Sound
    <2> QED BY <1>3, <2>1, <2>2 DEF LoginSigns, AdminInv, AdminTypeOK, SomeoneRemains
  <1>4. CASE Logout(r)
    <2>1. req' \in [Requests -> Served] /\ auditing' \subseteq Requests /\ ChangesInv' /\ AuditInv'
      BY <1>4, Ending DEF Logout, Arrives
    <2> QED BY <1>4, <2>1 DEF Logout, AdminInv, AdminTypeOK, SomeoneRemains
  <1> QED BY <1>1, <1>2, <1>3, <1>4

\* Changing the accounts: an administrator who deletes another one is still there,
\* or was deleted already.
LEMMA ChangeStep ==
  ASSUME AdminInv, NEW r \in Requests, BeginChange(r) \/ Change(r) \/ ReadBack(r)
  PROVE  AdminInv'
  <1> USE AdminAssumption DEF AdminAssumption
  <1>1. CASE BeginChange(r)
    <2>1. PICK j \in Requests, a \in Admins, kind \in Acts, p \in Passwords, isAdmin \in BOOLEAN :
       /\ Bearer(j) /\ token[j].isAdmin
       /\ kind = "delete" => MayDelete(token[j].sub, a)
       /\ req' = [req EXCEPT ![r] = [NewRequest EXCEPT !.at = "changing", !.kind = kind, !.actor = token[j].sub, !.target = a,
            !.hash = IF kind \in {"create", "password"} THEN p ELSE "none", !.isAdmin = (kind \in {"create", "roles"} /\ isAdmin)]]
      BY <1>1 DEF BeginChange, Acts
    <2>2. req[r].at = "new" /\ UNCHANGED <<admin, token, auditing, audited, ghost, adminFaults>>
      BY <1>1 DEF BeginChange, Arrives
    <2>3. token[j].sub \in Admins BY <2>1 DEF Bearer, AdminInv, AdminTypeOK
    <2>4. kind = "delete" => token[j].sub # a BY <2>1 DEF MayDelete
    <2> DEFINE q == [NewRequest EXCEPT !.at = "changing", !.kind = kind, !.actor = token[j].sub, !.target = a,
            !.hash = IF kind \in {"create", "password"} THEN p ELSE "none", !.isAdmin = (kind \in {"create", "roles"} /\ isAdmin)]
    <2>5. /\ q.at = "changing" /\ q.kind = kind /\ q.actor = token[j].sub /\ q.target = a /\ q.outcome = "none"
          /\ q.hash = IF kind \in {"create", "password"} THEN p ELSE "none"
      BY DEF NewRequest
    <2>6. q \in Served BY <2>3 DEF NewRequest, Served
    <2>7. Sound(q) BY <2>3, <2>4, <2>5 DEF Sound
    <2> QED BY ZenonT(60), <2>1, <2>2, <2>5, <2>6, <2>7, GoesOn
  <1>2. CASE Change(r)
    <2>1. /\ req[r].at = "changing" /\ req[r].kind \in Acts /\ req[r].target \in Admins /\ req[r].actor \in Admins
          /\ req[r].kind = "delete" => req[r].actor # req[r].target
          /\ req[r].kind \in {"create", "password"} => req[r].hash \in Passwords
          /\ req[r] \in Served
      BY <1>2 DEF Change, AdminInv, AdminTypeOK, ChangesInv, Sound
    <2>2. /\ admin' = IF Possible(r) THEN [admin EXCEPT ![req[r].target] = RowAfter(r)] ELSE admin
          /\ ghost' = (ghost \/ (Possible(r) /\ req[r].kind = "delete" /\ admin[req[r].actor] = NoRow))
          /\ UNCHANGED <<token, audited, adminFaults>>
      BY <1>2 DEF Change
    <2>3. ASSUME Possible(r), req[r].kind # "delete" PROVE RowAfter(r) \in AdminRows /\ RowAfter(r) # NoRow
      <3>1. req[r].kind # "create" => admin[req[r].target] \in AdminRows
        BY <2>1, <2>3 DEF Possible, AdminInv, AdminTypeOK
      <3>2. RowAfter(r) \in AdminRows
        <4>1. CASE req[r].kind = "create" BY <4>1, <2>1 DEF RowAfter, AdminRows, Served
        <4>2. CASE req[r].kind = "roles" BY <4>2, <2>1, <3>1 DEF RowAfter, AdminRows, Served
        <4>3. CASE req[r].kind = "password" BY <4>3, <2>1, <3>1 DEF RowAfter, AdminRows, Served
        <4> QED BY <4>1, <4>2, <4>3, <2>1, <2>3 DEF Acts
      <3> QED BY <3>2 DEF AdminRows, NoRow
    <2>4. req[r].kind = "delete" => RowAfter(r) = NoRow BY DEF RowAfter
    <2>5. admin' \in [Admins -> AdminRows \cup {NoRow}] BY <2>1, <2>2, <2>3, <2>4 DEF AdminInv, AdminTypeOK
    <2>6. SomeoneRemains'
      <3> SUFFICES ASSUME ~ghost' PROVE \E a \in Admins : admin'[a] # NoRow BY DEF SomeoneRemains
      <3>1. PICK a \in Admins : admin[a] # NoRow BY <2>2 DEF AdminInv, SomeoneRemains
      <3>2. CASE ~Possible(r) BY <3>1, <3>2, <2>2
      <3>3. CASE Possible(r) /\ req[r].kind # "delete"
        BY <3>3, <2>1, <2>2, <2>3 DEF AdminInv, AdminTypeOK
      <3>4. CASE Possible(r) /\ req[r].kind = "delete"
        <4>1. admin[req[r].actor] # NoRow BY <3>4, <2>2
        <4> QED BY <3>4, <4>1, <2>1, <2>2 DEF AdminInv, AdminTypeOK
      <3> QED BY <3>2, <3>3, <3>4
    <2>7. ghost' \in BOOLEAN BY <2>2 DEF AdminInv, AdminTypeOK
    <2>8. req' \in [Requests -> Served] /\ auditing' \subseteq Requests /\ ChangesInv' /\ AuditInv'
      <3>1. CASE Possible(r) /\ req[r].kind \in {"roles", "password"}
        <4>1. req' = [req EXCEPT ![r].at = "reading"] /\ auditing' = auditing BY <1>2, <3>1 DEF Change
        <4>2. req' \in [Requests -> Served] BY <4>1 DEF AdminInv, AdminTypeOK, Served
        <4>3. /\ req'[r].at = "reading" /\ req'[r].outcome = req[r].outcome /\ req'[r].kind = req[r].kind
              /\ req'[r].target = req[r].target /\ \A q \in Requests \ {r} : req'[q] = req[q]
          BY <4>1 DEF AdminInv, AdminTypeOK, Served
        <4>4. ChangesInv' BY <4>3, <2>1 DEF AdminInv, ChangesInv, Sound
        <4>5. AuditInv' BY <4>1, <4>3, <2>2 DEF AdminInv, AdminTypeOK, AuditInv
        <4> QED BY <4>1, <4>2, <4>4, <4>5 DEF AdminInv, AdminTypeOK
      <3>2. CASE ~(Possible(r) /\ req[r].kind \in {"roles", "password"})
        <4>1. CASE Possible(r)
          <5>1. End(r, "ok", TRUE) BY <1>2, <3>2, <4>1 DEF Change, AuditsChange, End
          <5> QED BY <5>1, <2>1, <2>2, Ending
        <4>2. CASE ~Possible(r)
          <5>1. End(r, "refused", FALSE) BY <1>2, <3>2, <4>2 DEF Change, AuditsChange, End
          <5> QED BY <5>1, <2>1, <2>2, Ending
        <4> QED BY <4>1, <4>2
      <3> QED BY <3>1, <3>2
    <2> QED BY <2>2, <2>5, <2>6, <2>7, <2>8 DEF AdminInv, AdminTypeOK
  <1>3. CASE ReadBack(r)
    <2>1. /\ req[r].at = "reading" /\ UNCHANGED <<admin, token, audited, ghost, adminFaults>>
          /\ End(r, "ok", TRUE) \/ End(r, "broken", FALSE)
      BY <1>3 DEF ReadBack
    <2>2. req' \in [Requests -> Served] /\ auditing' \subseteq Requests /\ ChangesInv' /\ AuditInv'
      BY <2>1, Ending
    <2> QED BY <2>1, <2>2 DEF AdminInv, AdminTypeOK, SomeoneRemains
  <1> QED BY <1>1, <1>2, <1>3

LEMMA AuditStep ==
  ASSUME AdminInv, NEW r \in Requests, AuditLands(r) \/ AuditFails(r)
  PROVE  AdminInv'
  BY DEF AuditLands, AuditFails, AdminInv, AdminTypeOK, ChangesInv, AuditInv, SomeoneRemains

LEMMA RestartAdminStep ==
  ASSUME AdminInv, RestartAdmin
  PROVE  AdminInv'
  <1> USE AdminAssumption DEF AdminAssumption, AdminInv, RestartAdmin
  <1>1. admin' \in [Admins -> AdminRows \cup {NoRow}] /\ SomeoneRemains'
    BY BootRows DEF AdminTypeOK, SomeoneRemains
  <1>2. \A r \in Requests :
          /\ req'[r] \in Served /\ Sound(req'[r])
          /\ req[r].at \in {"new", "ended"} => req'[r] = req[r]
          /\ req'[r] # req[r] => req'[r].outcome = "lost"
    <2> TAKE r \in Requests
    <2>1. req[r] \in Served /\ Sound(req[r]) BY DEF AdminTypeOK, ChangesInv
    <2>2. CASE req[r].at \in {"new", "ended"} BY <2>1, <2>2
    <2>3. CASE req[r].at \notin {"new", "ended"}
      <3>1. req'[r] = [req[r] EXCEPT !.at = "ended", !.outcome = "lost"] BY <2>3
      <3>2. req'[r] \in Served /\ req'[r].at = "ended" /\ req'[r].outcome = "lost" BY ZenonT(60), <2>1, <3>1 DEF Served
      <3> QED BY <2>3, <3>2 DEF Sound
    <2> QED BY <2>2, <2>3
  <1>3. req' = [r \in Requests |-> req'[r]] OBVIOUS
  <1>7. adminFaults' \in Nat /\ adminFaults' # 0
    <2>1. adminFaults \in Nat BY DEF AdminTypeOK
    <2>2. adminFaults' = adminFaults + 1 OBVIOUS
    <2> QED BY ONLY <2>1, <2>2
  <1>4. AdminTypeOK'
    <2>1. req' \in [Requests -> Served] BY <1>2, <1>3
    <2>2. auditing' = {} /\ audited' = audited /\ token' = token /\ ghost' = ghost OBVIOUS
    <2>3. adminFaults' \in Nat BY <1>7
    <2> QED BY ZenonT(60), <1>1, <2>1, <2>2, <2>3 DEF AdminTypeOK
  <1>5. ChangesInv' BY <1>2 DEF ChangesInv
  <1>6. AuditInv'
    <2>1. \A r \in audited : req'[r] = req[r]
      <3> TAKE r \in audited
      <3>1. r \in Requests /\ req[r].outcome \in {"ok", "failed"} BY DEF AdminTypeOK, AuditInv
      <3>2. req[r].at = "ended" BY <3>1 DEF ChangesInv, Sound
      <3> QED BY <1>2, <3>1, <3>2
    <2>2. auditing' = {} /\ audited' = audited /\ adminFaults' # 0 BY <1>7
    <2>3. \A r \in audited : req[r].outcome \in {"ok", "failed"} /\ r \in Requests BY DEF AuditInv, AdminTypeOK
    <2> QED BY ONLY SMTT(30), <2>1, <2>2, <2>3 DEF AuditInv
  <1> QED BY <1>1, <1>4, <1>5, <1>6

\* As long as nobody is deleted by an account already gone some account remains, and
\* the audit trail is true.
THEOREM AdminsAccountable == AdminSpec => []AdminsAreAccountable
  <1>1. AdminInv /\ HourPasses => AdminInv'
    BY DEF HourPasses, AdminInv, AdminTypeOK, ChangesInv, AuditInv, SomeoneRemains
  <1>2. AdminInv /\ UNCHANGED adminVars => AdminInv'
    BY DEF adminVars, AdminInv, AdminTypeOK, ChangesInv, AuditInv, SomeoneRemains
  <1>3. AdminInv /\ [AdminNext]_adminVars => AdminInv'
    BY <1>1, <1>2, SignInStep, ChangeStep, AuditStep, RestartAdminStep DEF AdminNext
  <1>4. AdminInv => AdminsAreAccountable BY DEF AdminInv, AdminTypeOK, AuditInv, AdminsAreAccountable, AuditIsTrue
  <1> QED BY <1>3, <1>4, InitAdmin, PTL DEF AdminSpec

-----------------------------------------------------------------------------
(* Catalogue.  An update was checked against the row it read, so it may be  *)
(* applied to a row with the same type and theme; a refresh that knows of   *)
(* every write has read the rows there are.                                 *)

Rates == Rtps \cup {0}
ThemeKinds == GameTypes \cup {Nothing}
GameRows == [status : {"active", "archived"}, type : ThemeKinds, theme : ThemeKinds, rtp : Rtps]
Patches == [type : ThemeKinds, theme : ThemeKinds, status : {Nothing, "active", "archived"}, rtp : Rates,
            enabled : {Nothing, "yes", "no"}, override : Rtps \cup {-1, NoOverride}]
LinkRows == [enabled : BOOLEAN, override : Rtps \cup {-1, NoOverride}]
EditRows == [at : {"new", "writing", "reloading", "ended"}, kind : {"none", "update", "delete", "link"}, game : Games,
             patch : Patches, read : GameRows \cup {NoGame}, link : LinkRows]
RefreshRows == [at : {"new", "read", "done"}, rows : [Games -> GameRows \cup {NoGame}], version : Nat]

CatalogueTypeOK ==
  /\ game \in [Games -> GameRows \cup {NoGame}] /\ version \in Nat /\ engineVersion \in Nat
  /\ link \in [Games -> LinkRows] /\ wanted \in [Games -> LinkRows]
  /\ edit \in [Edits -> EditRows] /\ refresh \in [1..MaxRefreshes -> RefreshRows]
  /\ skewed \in BOOLEAN

CheckedInv == \A e \in Edits : (edit[e].at = "writing" /\ edit[e].kind = "update") => ChecksOut(edit[e].patch, edit[e].read)

\* What was read before the last write is older than it.
RefreshInv ==
  /\ engineVersion <= version
  /\ \A t \in 1..MaxRefreshes : refresh[t].at = "read" =>
       refresh[t].version <= version /\ (refresh[t].version = version => refresh[t].rows = Active)

CatalogueInv == CatalogueTypeOK /\ CheckedInv /\ RefreshInv /\ EditsAreKept /\ EnginesFollow

LEMMA DefaultIsRate == DefaultRtp \in Rtps /\ DefaultRtp # 0 /\ 0 \notin Rtps
  BY CatalogueAssumption DEF CatalogueAssumption, DefaultRtp

LEMMA NoRows ==
  /\ NoPatch \in Patches /\ NoLink \in LinkRows /\ NewEdit \in EditRows /\ NewRefresh \in RefreshRows
  /\ NoGame \notin GameRows
  <1> USE CatalogueAssumption DEF CatalogueAssumption
  <1>1. NoPatch \in Patches BY DEF NoPatch, Patches, ThemeKinds, Rates
  <1>2. NoLink \in LinkRows BY DEF NoLink, LinkRows
  <1>3. NewEdit \in EditRows BY <1>1, <1>2 DEF NewEdit, EditRows
  <1>4. NewRefresh \in RefreshRows BY DEF NewRefresh, RefreshRows
  <1>5. NoGame \notin GameRows BY DEF NoGame, GameRows
  <1> QED BY <1>1, <1>2, <1>3, <1>4, <1>5

LEMMA InitCatalogue == CatalogueInit => CatalogueInv
  <1> SUFFICES ASSUME CatalogueInit PROVE CatalogueInv OBVIOUS
  <1> USE CatalogueAssumption, DefaultIsRate, NoRows DEF CatalogueAssumption
  <1>1. PICK type \in GameTypes :
          game = [g \in Games |-> IF g = Base THEN [status |-> "active", type |-> type, theme |-> type, rtp |-> DefaultRtp] ELSE NoGame]
    BY DEF CatalogueInit
  <1>2. [status |-> "active", type |-> type, theme |-> type, rtp |-> DefaultRtp] \in GameRows BY DEF GameRows, ThemeKinds
  <1>3. CatalogueTypeOK BY <1>1, <1>2 DEF CatalogueInit, CatalogueTypeOK
  <1>4. CheckedInv BY DEF CatalogueInit, CheckedInv, NewEdit
  <1>5. RefreshInv BY DEF CatalogueInit, RefreshInv, NewRefresh
  <1>6. EditsAreKept BY <1>1 DEF CatalogueInit, EditsAreKept, NoGame
  <1>7. EnginesFollow BY <1>1 DEF CatalogueInit, EnginesFollow, Active, NoGame
  <1> QED BY <1>3, <1>4, <1>5, <1>6, <1>7 DEF CatalogueInv

\* An edit goes on without touching the rows.
LEMMA EditGoesOn ==
  ASSUME CatalogueInv, NEW e \in Edits, NEW q \in EditRows, edit' = [edit EXCEPT ![e] = q],
         (q.at = "writing" /\ q.kind = "update") => ChecksOut(q.patch, q.read),
         UNCHANGED <<game, version, link, wanted, refresh, engine, engineVersion, skewed>>
  PROVE  CatalogueInv'
  <1>1. CatalogueTypeOK' /\ CheckedInv' BY DEF CatalogueInv, CatalogueTypeOK, CheckedInv
  <1>2. RefreshInv' /\ EditsAreKept' /\ EnginesFollow' BY DEF CatalogueInv, RefreshInv, EditsAreKept, EnginesFollow, Active
  <1> QED BY <1>1, <1>2 DEF CatalogueInv

\* A write of the rows makes every earlier read an old one.
LEMMA RowsWritten ==
  ASSUME CatalogueInv, NEW e \in Edits, Wrote(e), game' \in [Games -> GameRows \cup {NoGame}],
         link' \in [Games -> LinkRows], wanted' \in [Games -> LinkRows], skewed' \in BOOLEAN,
         EditsAreKept', UNCHANGED <<refresh, engine, engineVersion>>
  PROVE  CatalogueInv'
  <1> DEFINE q == [NewEdit EXCEPT !.at = "reloading"]
  <1>1. q \in EditRows /\ q.at = "reloading" BY NoRows DEF NewEdit, EditRows
  <1>2. edit' = [edit EXCEPT ![e] = q] /\ version' = version + 1 BY DEF Wrote
  <1>3. CatalogueTypeOK' /\ CheckedInv' BY <1>1, <1>2 DEF CatalogueInv, CatalogueTypeOK, CheckedInv
  <1>4. RefreshInv' BY <1>2 DEF CatalogueInv, CatalogueTypeOK, RefreshInv, RefreshRows
  <1>5. engineVersion # version' BY <1>2 DEF CatalogueInv, CatalogueTypeOK, RefreshInv
  <1>6. EnginesFollow' BY <1>5 DEF CatalogueInv, EnginesFollow
  <1> QED BY <1>3, <1>4, <1>6 DEF CatalogueInv

LEMMA ReadStep ==
  ASSUME CatalogueInv, NEW e \in Edits,
         ReadsForUpdate(e) \/ ReadsForDelete(e) \/ ReadsForLink(e) \/ Reloads(e)
  PROVE  CatalogueInv'
  <1> USE NoRows
  <1> DEFINE ended == [NewEdit EXCEPT !.at = "ended"]
  <1>1. ended \in EditRows /\ ended.at = "ended" BY DEF NewEdit, EditRows
  <1>2. CASE ReadsForUpdate(e)
    <2>1. PICK g \in Games, type, theme \in ThemeKinds, status \in {Nothing, "active", "archived"}, rtp \in Rates :
            LET patch == [NoPatch EXCEPT !.type = type, !.theme = theme, !.status = status, !.rtp = rtp] IN
            edit' = [edit EXCEPT ![e] = IF game[g] # NoGame /\ ChecksOut(patch, game[g])
              THEN [NewEdit EXCEPT !.at = "writing", !.kind = "update", !.game = g, !.patch = patch, !.read = game[g]]
              ELSE ended]
      BY <1>2 DEF ReadsForUpdate, ThemeKinds, Rates
    <2> DEFINE patch == [NoPatch EXCEPT !.type = type, !.theme = theme, !.status = status, !.rtp = rtp]
               q == [NewEdit EXCEPT !.at = "writing", !.kind = "update", !.game = g, !.patch = patch, !.read = game[g]]
    <2>2. patch \in Patches BY DEF NoPatch, Patches
    <2>3. game[g] \in GameRows \cup {NoGame} BY DEF CatalogueInv, CatalogueTypeOK
    <2>4. q \in EditRows /\ q.patch = patch /\ q.read = game[g] BY <2>2, <2>3 DEF NewEdit, EditRows
    <2>5. UNCHANGED <<game, version, link, wanted, refresh, engine, engineVersion, skewed>> BY <1>2 DEF ReadsForUpdate
    <2>6. CASE ChecksOut(patch, game[g]) /\ edit' = [edit EXCEPT ![e] = q] BY <2>4, <2>5, <2>6, EditGoesOn
    <2>7. CASE edit' = [edit EXCEPT ![e] = ended] BY <1>1, <2>5, <2>7, EditGoesOn
    <2> QED BY <2>1, <2>6, <2>7
  <1>3. CASE ReadsForDelete(e)
    <2>1. PICK g \in Games \ {Base} :
            edit' = [edit EXCEPT ![e] = IF game[g] # NoGame THEN [NewEdit EXCEPT !.at = "writing", !.kind = "delete", !.game = g]
                                                            ELSE ended]
      BY <1>3 DEF ReadsForDelete
    <2> DEFINE q == [NewEdit EXCEPT !.at = "writing", !.kind = "delete", !.game = g]
    <2>2. q \in EditRows /\ q.kind = "delete" BY DEF NewEdit, EditRows
    <2>3. UNCHANGED <<game, version, link, wanted, refresh, engine, engineVersion, skewed>> BY <1>3 DEF ReadsForDelete
    <2>4. CASE edit' = [edit EXCEPT ![e] = q] BY <2>2, <2>3, <2>4, EditGoesOn
    <2>5. CASE edit' = [edit EXCEPT ![e] = ended] BY <1>1, <2>3, <2>5, EditGoesOn
    <2> QED BY <2>1, <2>4, <2>5
  <1>4. CASE ReadsForLink(e)
    <2>1. PICK g \in Games, enabled \in {Nothing, "yes", "no"}, override \in Rtps \cup {-1, NoOverride} :
            edit' = [edit EXCEPT ![e] = [NewEdit EXCEPT !.at = "writing", !.kind = "link", !.game = g,
              !.patch = [NoPatch EXCEPT !.enabled = enabled, !.override = override], !.link = link[g]]]
      BY <1>4 DEF ReadsForLink
    <2> DEFINE patch == [NoPatch EXCEPT !.enabled = enabled, !.override = override]
               q == [NewEdit EXCEPT !.at = "writing", !.kind = "link", !.game = g, !.patch = patch, !.link = link[g]]
    <2>2. patch \in Patches BY DEF NoPatch, Patches
    <2>3. link[g] \in LinkRows BY DEF CatalogueInv, CatalogueTypeOK
    <2>4. q \in EditRows /\ q.kind = "link" BY <2>2, <2>3 DEF NewEdit, EditRows
    <2>5. UNCHANGED <<game, version, link, wanted, refresh, engine, engineVersion, skewed>> BY <1>4 DEF ReadsForLink
    <2> QED BY <2>1, <2>4, <2>5, EditGoesOn
  <1>5. CASE Reloads(e)
    <2>1. edit' = [edit EXCEPT ![e].at = "ended"] BY <1>5 DEF Reloads
    <2> DEFINE q == [edit[e] EXCEPT !.at = "ended"]
    <2>2. edit[e] \in EditRows BY DEF CatalogueInv, CatalogueTypeOK
    <2>3. q \in EditRows /\ q.at = "ended" BY <2>2 DEF EditRows
    <2>4. edit' = [edit EXCEPT ![e] = q] BY <2>1 DEF CatalogueInv, CatalogueTypeOK
    <2>5. UNCHANGED <<game, version, link, wanted, refresh, engine, engineVersion, skewed>> BY <1>5 DEF Reloads
    <2> QED BY <2>3, <2>4, <2>5, EditGoesOn
  <1> QED BY <1>2, <1>3, <1>4, <1>5

\* An update checked against the type and theme the row has keeps them together.
LEMMA PatchedFits ==
  ASSUME NEW old \in GameRows, NEW patch \in Patches, NEW read,
         ChecksOut(patch, read), old.type = read.type, old.theme = read.theme, old.theme = old.type
  PROVE  Patched(old, patch).theme = Patched(old, patch).type
  BY DEF ChecksOut, Given, Patched

LEMMA PatchedIsRow ==
  ASSUME NEW old \in GameRows, NEW patch \in Patches
  PROVE  Patched(old, patch) \in GameRows
  BY CatalogueAssumption DEF CatalogueAssumption, Given, Patched, GameRows, Patches, ThemeKinds, Rates, Nothing

\* Merging what was read is what the admin meant, if nobody wrote in between.
LEMMA MergedIsApplied ==
  ASSUME NEW old \in LinkRows, NEW patch \in Patches
  PROVE  Merged(patch, old) = Applied(patch, old) /\ Merged(patch, old) \in LinkRows
  <1>1. /\ patch.enabled \in {Nothing, "yes", "no"} /\ patch.override \in Rtps \cup {-1, NoOverride}
        /\ old.enabled \in BOOLEAN /\ old.override \in Rtps \cup {-1, NoOverride}
    BY DEF Patches, LinkRows
  <1>2. Merged(patch, old).enabled = Applied(patch, old).enabled /\ Merged(patch, old).enabled \in BOOLEAN
    <2>1. CASE patch.enabled = "yes" BY <2>1 DEF Merged, Applied
    <2>2. CASE patch.enabled = "no" BY <2>2 DEF Merged, Applied, Nothing
    <2>3. CASE patch.enabled = Nothing
      <3>1. CASE old = NoLink BY <2>3, <3>1 DEF Merged, Applied, Nothing
      <3>2. CASE old # NoLink /\ old.enabled = TRUE BY <2>3, <3>2 DEF Merged, Applied, Nothing
      <3>3. CASE old # NoLink /\ old.enabled = FALSE BY <2>3, <3>3 DEF Merged, Applied, Nothing
      <3> QED BY <1>1, <3>1, <3>2, <3>3
    <2> QED BY <1>1, <2>1, <2>2, <2>3
  <1>3. /\ Merged(patch, old).override = Applied(patch, old).override
        /\ Merged(patch, old).override \in Rtps \cup {-1, NoOverride}
    <2>1. CASE patch.override # -1 BY <1>1, <2>1 DEF Merged, Applied
    <2>2. CASE patch.override = -1 /\ old = NoLink BY <1>1, <2>2 DEF Merged, Applied
    <2>3. CASE patch.override = -1 /\ old # NoLink BY <1>1, <2>3 DEF Merged, Applied
    <2> QED BY <2>1, <2>2, <2>3
  <1>4. /\ Merged(patch, old) = [enabled |-> Merged(patch, old).enabled, override |-> Merged(patch, old).override]
        /\ Applied(patch, old) = [enabled |-> Applied(patch, old).enabled, override |-> Applied(patch, old).override]
    BY DEF Merged, Applied
  <1> QED BY <1>2, <1>3, <1>4 DEF LinkRows

LEMMA AppliedIsLink ==
  ASSUME NEW old \in LinkRows, NEW patch \in Patches
  PROVE  Applied(patch, old) \in LinkRows
  BY MergedIsApplied

LEMMA WritesStep ==
  ASSUME CatalogueInv, NEW e \in Edits, Creates(e) \/ Updates(e) \/ Deletes(e) \/ Links(e)
  PROVE  CatalogueInv'
  <1> USE NoRows
  <1> DEFINE h == edit[e].game
             old == game[h]
             patch == edit[e].patch
  <1>1. /\ edit[e] \in EditRows /\ h \in Games /\ patch \in Patches /\ edit[e].link \in LinkRows
        /\ game \in [Games -> GameRows \cup {NoGame}] /\ link \in [Games -> LinkRows] /\ wanted \in [Games -> LinkRows]
        /\ skewed \in BOOLEAN /\ old \in GameRows \cup {NoGame}
    BY DEF CatalogueInv, CatalogueTypeOK, EditRows
  <1>2. CASE Creates(e)
    <2>1. PICK g \in Games, type \in GameTypes, rtp \in Rtps :
            game' = [game EXCEPT ![g] = [status |-> "active", type |-> type, theme |-> type, rtp |-> rtp]]
      BY <1>2 DEF Creates
    <2>2. [status |-> "active", type |-> type, theme |-> type, rtp |-> rtp] \in GameRows BY DEF GameRows, ThemeKinds
    <2>3. game' \in [Games -> GameRows \cup {NoGame}] BY <1>1, <2>1, <2>2
    <2>4. Wrote(e) /\ UNCHANGED <<link, wanted, refresh, engine, engineVersion, skewed>> BY <1>2 DEF Creates
    <2>5. EditsAreKept' BY <1>1, <2>1, <2>4 DEF CatalogueInv, EditsAreKept
    <2> QED BY <1>1, <2>3, <2>4, <2>5, RowsWritten
  <1>3. CASE Updates(e)
    <2>1. /\ game' = IF old = NoGame THEN game ELSE [game EXCEPT ![h] = Patched(old, patch)]
          /\ skewed' = (skewed \/ (old.type # edit[e].read.type \/ old.theme # edit[e].read.theme))
          /\ Wrote(e) /\ UNCHANGED <<link, wanted, refresh, engine, engineVersion>>
          /\ ChecksOut(patch, edit[e].read)
      BY <1>3 DEF Updates, CatalogueInv, CheckedInv
    <2>2. game' \in [Games -> GameRows \cup {NoGame}] BY <1>1, <2>1, PatchedIsRow
    <2>3. EditsAreKept'
      <3> SUFFICES ASSUME ~skewed' PROVE (\A g \in Games : game'[g].theme = game'[g].type) /\ link' = wanted'
        BY DEF EditsAreKept
      <3>1. ~skewed /\ old.type = edit[e].read.type /\ old.theme = edit[e].read.theme BY <2>1
      <3>2. (\A g \in Games : game[g].theme = game[g].type) /\ link = wanted BY <3>1 DEF CatalogueInv, EditsAreKept
      <3>3. CASE old = NoGame BY <3>2, <3>3, <2>1
      <3>4. CASE old # NoGame
        <4>1. old \in GameRows /\ old.theme = old.type BY <1>1, <3>2, <3>4
        <4>2. Patched(old, patch).theme = Patched(old, patch).type BY <1>1, <2>1, <3>1, <4>1, PatchedFits
        <4> QED BY <1>1, <2>1, <3>2, <3>4, <4>2
      <3> QED BY <3>3, <3>4
    <2>4. skewed' \in BOOLEAN BY <2>1
    <2> QED BY <1>1, <2>1, <2>2, <2>3, <2>4, RowsWritten
  <1>4. CASE Deletes(e)
    <2>1. /\ game' = [game EXCEPT ![h] = NoGame] /\ link' = [link EXCEPT ![h] = NoLink] /\ wanted' = [wanted EXCEPT ![h] = NoLink]
          /\ Wrote(e) /\ UNCHANGED <<refresh, engine, engineVersion, skewed>>
      BY <1>4 DEF Deletes
    <2>2. EditsAreKept' BY <1>1, <2>1 DEF CatalogueInv, EditsAreKept, NoGame
    <2> QED BY <1>1, <2>1, <2>2, RowsWritten
  <1>5. CASE Links(e)
    <2> DEFINE q == [NewEdit EXCEPT !.at = "ended"]
    <2>1. q \in EditRows /\ q.at = "ended" BY DEF NewEdit, EditRows
    <2>2. edit' = [edit EXCEPT ![e] = q] /\ UNCHANGED <<game, version, refresh, engine, engineVersion>> BY <1>5 DEF Links
    <2>3. CASE old = NoGame
      <3>1. UNCHANGED <<link, wanted, skewed>> BY <1>5, <2>3 DEF Links
      <3> QED BY <2>1, <2>2, <3>1, EditGoesOn
    <2>4. CASE old # NoGame
      <3>1. /\ link' = [link EXCEPT ![h] = Merged(patch, edit[e].link)] /\ wanted' = [wanted EXCEPT ![h] = Applied(patch, wanted[h])]
            /\ skewed' = (skewed \/ link[h] # edit[e].link)
        BY <1>5, <2>4 DEF Links
      <3>2. link' \in [Games -> LinkRows] /\ wanted' \in [Games -> LinkRows] /\ skewed' \in BOOLEAN
        BY <1>1, <3>1, MergedIsApplied, AppliedIsLink
      <3>3. EditsAreKept'
        <4> SUFFICES ASSUME ~skewed' PROVE (\A g \in Games : game'[g].theme = game'[g].type) /\ link' = wanted'
          BY DEF EditsAreKept
        <4>1. ~skewed /\ link[h] = edit[e].link BY <3>1
        <4>2. (\A g \in Games : game[g].theme = game[g].type) /\ link = wanted BY <4>1 DEF CatalogueInv, EditsAreKept
        <4>3. Merged(patch, edit[e].link) = Applied(patch, wanted[h]) BY <1>1, <4>1, <4>2, MergedIsApplied
        <4> QED BY <2>2, <3>1, <4>2, <4>3
      <3>4. CatalogueTypeOK' /\ CheckedInv' BY <2>1, <2>2, <3>2 DEF CatalogueInv, CatalogueTypeOK, CheckedInv
      <3>5. RefreshInv' /\ EnginesFollow' BY <2>2 DEF CatalogueInv, RefreshInv, EnginesFollow, Active
      <3> QED BY <3>3, <3>4, <3>5 DEF CatalogueInv
    <2> QED BY <2>3, <2>4
  <1> QED BY <1>2, <1>3, <1>4, <1>5

\* The timer reads the rows and starts the engines of what it read.
LEMMA TimerStep ==
  ASSUME CatalogueInv, NEW t \in 1..MaxRefreshes, TimerReads(t) \/ TimerInstalls(t)
  PROVE  CatalogueInv'
  <1> USE NoRows
  <1>1. CatalogueTypeOK /\ refresh[t] \in RefreshRows BY DEF CatalogueInv, CatalogueTypeOK
  <1>2. CASE TimerReads(t)
    <2> DEFINE q == [at |-> "read", rows |-> Active, version |-> version]
    <2>1. Active \in [Games -> GameRows \cup {NoGame}] BY <1>1 DEF CatalogueTypeOK, Active
    <2>2. q \in RefreshRows BY <1>1, <2>1 DEF CatalogueTypeOK, RefreshRows
    <2>3. refresh' = [refresh EXCEPT ![t] = q] /\ UNCHANGED <<game, version, link, wanted, edit, engine, engineVersion, skewed>>
      BY <1>2 DEF TimerReads
    <2>4. CatalogueTypeOK' /\ CheckedInv' BY <2>2, <2>3 DEF CatalogueInv, CatalogueTypeOK, CheckedInv
    <2>5. Active' = Active BY <2>3 DEF Active
    <2>6. RefreshInv' BY <2>3, <2>5, <1>1 DEF CatalogueInv, CatalogueTypeOK, RefreshInv
    <2>7. EditsAreKept' /\ EnginesFollow' BY <2>3, <2>5 DEF CatalogueInv, EditsAreKept, EnginesFollow
    <2> QED BY <2>4, <2>6, <2>7 DEF CatalogueInv
  <1>3. CASE TimerInstalls(t)
    <2> DEFINE q == [NewRefresh EXCEPT !.at = "done"]
               rows == refresh[t].rows
    <2>1. q \in RefreshRows /\ q.at = "done" BY DEF NewRefresh, RefreshRows
    <2>2. /\ refresh[t].at = "read" /\ refresh' = [refresh EXCEPT ![t] = q]
          /\ engine' = EnginesFor(rows, engine) /\ engineVersion' = refresh[t].version
          /\ UNCHANGED <<game, version, link, wanted, edit, skewed>>
      BY <1>3 DEF TimerInstalls
    <2>3. rows \in [Games -> GameRows \cup {NoGame}] /\ refresh[t].version \in Nat BY <1>1 DEF RefreshRows
    <2>4. CatalogueTypeOK' /\ CheckedInv' BY <2>1, <2>2, <2>3 DEF CatalogueInv, CatalogueTypeOK, CheckedInv
    <2>5. Active' = Active BY <2>2 DEF Active
    <2>6. refresh[t].version <= version /\ (refresh[t].version = version => rows = Active)
      BY <2>2 DEF CatalogueInv, RefreshInv
    <2>7. RefreshInv' BY <2>1, <2>2, <2>5, <2>6, <1>1 DEF CatalogueInv, CatalogueTypeOK, RefreshInv
    <2>8. EnginesFollow'
      <3>1. engine'[Base] # 0
        <4>1. rows[Base] \in GameRows => rows[Base].rtp # 0 BY DefaultIsRate DEF GameRows
        <4> QED BY <2>2, <2>3, <4>1, DefaultIsRate, CatalogueAssumption DEF EnginesFor, CatalogueAssumption
      <3>2. ASSUME engineVersion' = version'
            PROVE  \A g \in Games : (g # Base \/ Active[g] # NoGame) => engine'[g] = Active[g].rtp
        <4>1. rows = Active BY <2>2, <2>6, <3>2
        <4> QED BY <2>2, <4>1 DEF EnginesFor, NoGame
      <3> QED BY <2>5, <3>1, <3>2 DEF EnginesFollow
    <2>9. EditsAreKept' BY <2>2 DEF CatalogueInv, EditsAreKept
    <2> QED BY <2>4, <2>7, <2>8, <2>9 DEF CatalogueInv
  <1> QED BY <1>2, <1>3

\* Rows and rights are what the edits amount to unless one wrote over what it had not
\* read; engines that know of every write run the active games and always the base game.
THEOREM CatalogueRight == CatalogueSpec => []CatalogueIsRight
  <1>1. CatalogueInv /\ UNCHANGED catalogueVars => CatalogueInv'
    BY DEF catalogueVars, CatalogueInv, CatalogueTypeOK, CheckedInv, RefreshInv, EditsAreKept, EnginesFollow, Active
  <1>2. CatalogueInv /\ [CatalogueNext]_catalogueVars => CatalogueInv'
    BY <1>1, ReadStep, WritesStep, TimerStep DEF CatalogueNext
  <1>3. CatalogueInv => CatalogueIsRight BY DEF CatalogueInv, CatalogueIsRight
  <1> QED BY <1>2, <1>3, InitCatalogue, PTL DEF CatalogueSpec

-----------------------------------------------------------------------------
(* WalletCalls.  One try of a caller is on the wire at a time, as a request  *)
(* or as its answer; what has been answered or recorded stays true, since    *)
(* nobody who could change it is still waiting.                              *)

Refusals == {"INSUFFICIENT_FUNDS", "DUPLICATE_TRANSACTION", "RATE_LIMITED"}
Codes == {"ok", "noop", "UNKNOWN_TXN", "UPSTREAM_ERROR"} \cup Refusals
\* What a call is answered, and what is recorded of it.
Recordable == {"ok", "noop"} \cup Refusals
Answers == {"none", "unknown", "mismatch"} \cup Recordable
CallStates == [pc : {"idle", "waiting", "recording", "done"}, try : Nat, answer : Answers]
CallRequests == [caller : Callers, try : Nat]
CallReplies == [caller : Callers, try : Nat, code : Codes, signed : BOOLEAN]

CallTypeOK ==
  /\ dialect \in {"native", "softswiss"} /\ call \in [Callers -> CallStates]
  /\ requests \subseteq CallRequests /\ replies \subseteq CallReplies
  /\ answered \in [Txns -> {"none", "ok", "noop"}] /\ executed \in [Txns -> {0, 1}] /\ undone \subseteq Txns
  /\ recorded \in [Txns -> [body : Bodies \cup {"none"}, code : {"none"} \cup Recordable]]

\* The bet's own call has ended, and the stake is not held.
BetClosed(t) == \A b \in Callers : CallTxn[b] = TxnBet[t] => call[b].pc = "done"
Returned(t) == executed[TxnBet[t]] = 0 \/ TxnBet[t] \in undone

\* What a code on the wire says of a transaction.
Tells(t, code) ==
  \/ code \in {"UPSTREAM_ERROR", "RATE_LIMITED"}
  \/ TxnKind[t] = "rollback" /\ code \in {"ok", "noop", "UNKNOWN_TXN", "DUPLICATE_TRANSACTION"} /\ Returned(t)
  \/ TxnKind[t] # "rollback" /\ code \in {"ok", "DUPLICATE_TRANSACTION"} /\ executed[t] = 1
  \/ TxnKind[t] = "bet" /\ code = "INSUFFICIENT_FUNDS" /\ executed[t] = 0

\* What an answer of the client, or a record, says of it.
Holds(t, answer) ==
  \/ answer \in Silent
  \/ TxnKind[t] = "rollback" /\ answer \in {"ok", "noop", "DUPLICATE_TRANSACTION"} /\ Returned(t)
  \/ TxnKind[t] # "rollback" /\ answer \in {"ok", "DUPLICATE_TRANSACTION"} /\ executed[t] = 1
  \/ TxnKind[t] = "bet" /\ answer = "INSUFFICIENT_FUNDS" /\ executed[t] = 0

OperatorInv(t) ==
  /\ TxnKind[t] # "rollback" => ((executed[t] = 1) <=> (answered[t] = "ok")) /\ answered[t] # "noop"
  /\ TxnKind[t] = "rollback" => executed[t] = 0 /\ (answered[t] # "none" => BetClosed(t) /\ Returned(t))

RecordInv(t) ==
  /\ recorded[t].code = "none" => recorded[t] = NoRecord
  /\ recorded[t].code # "none" =>
       /\ Holds(t, recorded[t].code)
       /\ TxnKind[t] = "rollback" => BetClosed(t)
       /\ TxnKind[t] = "bet" => \A c \in Callers : CallTxn[c] = t => call[c].pc = "done"

CallerInv(c) ==
  /\ call[c].pc \in {"idle", "waiting"} => call[c].answer = "none"
  /\ call[c].pc = "recording" => call[c].answer \in Recordable
  /\ Holds(CallTxn[c], call[c].answer)
  /\ Kind(c) = "rollback" /\ call[c].pc # "idle" => BetClosed(CallTxn[c])

WireInv ==
  /\ \A q \in requests : call[q.caller].pc = "waiting" /\ q.try = call[q.caller].try
  /\ \A p \in replies :
       /\ call[p.caller].pc = "waiting" /\ p.try = call[p.caller].try
       /\ Tells(CallTxn[p.caller], p.code)
       /\ \A q \in requests : q.caller # p.caller
       /\ \A q \in replies : q.caller = p.caller => q = p

CallInv ==
  /\ CallTypeOK /\ WireInv
  /\ \A t \in Txns : OperatorInv(t) /\ RecordInv(t)
  /\ \A c \in Callers : CallerInv(c)

LEMMA CallConstants ==
  /\ TxnKind \in [Txns -> Kinds] /\ TxnBet \in [Txns -> Txns] /\ CallTxn \in [Callers -> Txns]
  /\ CallBody \in [Callers -> Bodies]
  /\ \A t \in Txns : TxnKind[TxnBet[t]] = "bet"
  /\ \A c, d \in Callers : TxnKind[CallTxn[c]] = "bet" /\ CallTxn[c] = CallTxn[d] => c = d
  BY CallAssumption

LEMMA CallStarts == CallInit => CallInv
  <1> SUFFICES ASSUME CallInit PROVE CallInv OBVIOUS
  <1>1. CallTypeOK BY DEF CallInit, CallTypeOK, CallStates, Answers, NoRecord
  <1>2. WireInv BY DEF CallInit, WireInv
  <1>3. ASSUME NEW t \in Txns PROVE OperatorInv(t) /\ RecordInv(t)
    BY DEF CallInit, OperatorInv, RecordInv, NoRecord
  <1>4. ASSUME NEW c \in Callers PROVE CallerInv(c)
    BY DEF CallInit, CallerInv, Holds, Silent
  <1> QED BY <1>1, <1>2, <1>3, <1>4 DEF CallInv

\* A step of one caller that leaves the operator and the records alone: it keeps what
\* it may have on the wire, at most its next try.
LEMMA CallerStep ==
  ASSUME CallInv, NEW c \in Callers, NEW new \in CallStates, call' = [call EXCEPT ![c] = new],
         call[c].pc # "done", new.pc # "idle",
         UNCHANGED <<dialect, recorded, answered, executed, undone>>,
         requests' \subseteq CallRequests, replies' \subseteq replies,
         \A q \in requests' : (q \in requests /\ q.caller # c) \/ (q.caller = c /\ q.try = new.try /\ new.pc = "waiting"),
         \A p \in replies' : p.caller # c,
         new.pc = "waiting" => new.answer = "none",
         new.pc = "recording" => new.answer \in Recordable,
         Holds(CallTxn[c], new.answer),
         Kind(c) = "rollback" => BetClosed(CallTxn[c])
  PROVE  CallInv'
  <1>1. CallTypeOK' BY DEF CallInv, CallTypeOK
  <1>2. /\ call'[c] = new /\ \A d \in Callers \ {c} : call'[d] = call[d]
        /\ DOMAIN call = Callers
    BY DEF CallInv, CallTypeOK
  <1>3. \A t \in Txns : BetClosed(t) => BetClosed(t)' BY <1>2 DEF BetClosed
  <1>4. \A t : Returned(t)' <=> Returned(t) BY DEF Returned
  <1>5. \A t, a : Holds(t, a)' <=> Holds(t, a) BY <1>4 DEF Holds
  <1>6. \A t, a : Tells(t, a)' <=> Tells(t, a) BY <1>4 DEF Tells
  <1>7. ASSUME NEW t \in Txns PROVE OperatorInv(t)' /\ RecordInv(t)'
    <2>1. OperatorInv(t) /\ RecordInv(t) BY DEF CallInv
    <2>2. OperatorInv(t)' BY <1>3, <1>4, <2>1 DEF OperatorInv
    <2>3. Holds(t, recorded[t].code) => Holds(t, recorded[t].code)' BY <1>4 DEF Holds
    <2>4. RecordInv(t)' BY <1>2, <1>3, <2>1, <2>3 DEF RecordInv
    <2> QED BY <2>2, <2>4
  <1>8. ASSUME NEW d \in Callers PROVE CallerInv(d)'
    <2>1. CallTxn[d] \in Txns /\ CallTxn[c] \in Txns BY CallConstants
    <2>2. CASE d = c
      <3>1. Holds(CallTxn[c], call[c].answer)' BY <1>2, <1>4 DEF Holds
      <3> QED BY <1>2, <1>3, <2>1, <2>2, <3>1 DEF CallerInv, Kind
    <2>3. CASE d # c
      <3>1. CallerInv(d) BY DEF CallInv
      <3>2. Holds(CallTxn[d], call[d].answer)' BY <1>2, <1>4, <2>3, <3>1 DEF Holds, CallerInv
      <3> QED BY <1>2, <1>3, <2>1, <2>3, <3>1, <3>2 DEF CallerInv, Kind
    <2> QED BY <2>2, <2>3
  <1>9. WireInv'
    <2>1. WireInv /\ requests \subseteq CallRequests /\ replies \subseteq CallReplies BY DEF CallInv, CallTypeOK
    <2>2. ASSUME NEW q \in requests' PROVE call'[q.caller].pc = "waiting" /\ q.try = call'[q.caller].try
      BY <1>2, <2>1 DEF WireInv, CallRequests
    <2>3. ASSUME NEW p \in replies'
          PROVE  /\ call'[p.caller].pc = "waiting" /\ p.try = call'[p.caller].try
                 /\ Tells(CallTxn[p.caller], p.code)'
                 /\ \A q \in requests' : q.caller # p.caller
                 /\ \A q \in replies' : q.caller = p.caller => q = p
      <3>1. p \in replies /\ p.caller \in Callers \ {c} BY <2>1 DEF CallReplies
      <3>2. Tells(CallTxn[p.caller], p.code)' BY <1>4, <2>1, <3>1 DEF Tells, WireInv
      <3> QED BY <1>2, <2>1, <3>1, <3>2 DEF WireInv
    <2> QED BY <2>2, <2>3 DEF WireInv
  <1> QED BY <1>1, <1>7, <1>8, <1>9 DEF CallInv

\* A caller that is not waiting has nothing on the wire, and one with an answer there no request.
LEMMA WireOf ==
  ASSUME CallInv, NEW c \in Callers
  PROVE  /\ call[c].pc # "waiting" => (\A q \in requests : q.caller # c) /\ (\A p \in replies : p.caller # c)
         /\ \A r \in replies : r.caller = c =>
              (\A q \in requests : q.caller # c) /\ (\A p \in replies \ {r} : p.caller # c)
  BY DEF CallInv, WireInv

LEMMA StartClosesBet ==
  ASSUME NEW c \in Callers, MayStart(c), Kind(c) = "rollback" PROVE BetClosed(CallTxn[c])
  <1>1. TxnKind[TxnBet[CallTxn[c]]] = "bet" BY CallConstants
  <1>2. \A b \in Callers : CallTxn[b] = TxnBet[CallTxn[c]] => b # c BY <1>1 DEF Kind
  <1>3. \A b \in {d \in Callers : CallTxn[d] = TxnBet[CallTxn[c]] /\ d # c} : Ended(b) BY DEF MayStart
  <1> QED BY <1>2, <1>3 DEF BetClosed, Ended

LEMMA StartStep == ASSUME CallInv, NEW c \in Callers, StartCall(c) \/ LookUpFails(c) PROVE CallInv'
  <1>0. call[c].pc = "idle" /\ MayStart(c) BY DEF StartCall, LookUpFails
  <1>1. Kind(c) = "rollback" => BetClosed(CallTxn[c]) BY <1>0, StartClosesBet
  <1>2. (\A q \in requests : q.caller # c) /\ (\A p \in replies : p.caller # c) BY <1>0, WireOf
  <1>3. requests \subseteq CallRequests /\ CallTxn[c] \in Txns BY CallConstants DEF CallInv, CallTypeOK
  <1>4. \A a : [pc |-> "done", try |-> 0, answer |-> a].answer = a OBVIOUS
  <1>5. CASE StartCall(c) /\ SendFirst(c) /\ recorded[CallTxn[c]] = NoRecord
    <2> DEFINE new == [pc |-> "waiting", try |-> 1, answer |-> "none"]
    <2>1. call' = [call EXCEPT ![c] = new] /\ requests' = requests \cup {[caller |-> c, try |-> 1]}
      BY <1>5 DEF SendFirst
    <2>2. UNCHANGED <<dialect, recorded, answered, executed, undone, replies>> BY <1>5 DEF StartCall, operatorSide
    <2>3. new \in CallStates /\ new.pc = "waiting" /\ new.try = 1 /\ new.answer = "none" BY DEF CallStates, Answers
    <2>4. requests' \subseteq CallRequests BY <1>3, <2>1 DEF CallRequests
    <2>5. Holds(CallTxn[c], "none") BY DEF Holds, Silent
    <2>6. \A q \in requests' : (q \in requests /\ q.caller # c) \/ (q.caller = c /\ q.try = new.try /\ new.pc = "waiting")
      BY <1>2, <2>1
    <2> HIDE DEF new
    <2> QED BY <1>0, <1>1, <1>2, <2>1, <2>2, <2>3, <2>4, <2>5, <2>6, CallerStep
  <1>6. ASSUME NEW answer \in Answers, Settles(c, answer), Holds(CallTxn[c], answer),
               UNCHANGED <<dialect, recorded, answered, executed, undone, requests, replies>>
        PROVE  CallInv'
    <2> DEFINE new == [pc |-> "done", try |-> 0, answer |-> answer]
    <2>1. call' = [call EXCEPT ![c] = new] BY <1>6 DEF Settles
    <2>2. new \in CallStates /\ new.pc = "done" /\ new.answer = answer BY DEF CallStates
    <2> HIDE DEF new
    <2> QED BY <1>0, <1>1, <1>2, <1>3, <1>6, <2>1, <2>2, CallerStep
  <1>7. CASE StartCall(c) /\ recorded[CallTxn[c]] # NoRecord
    <2> DEFINE old == recorded[CallTxn[c]]
               answer == IF old.body = CallBody[c] THEN old.code ELSE "mismatch"
    <2>1. Settles(c, answer) /\ UNCHANGED <<dialect, recorded, answered, executed, undone, requests, replies>>
      BY <1>7 DEF StartCall, operatorSide
    <2>2. RecordInv(CallTxn[c]) /\ old.code \in {"none"} \cup Recordable BY <1>3 DEF CallInv, CallTypeOK
    <2>3. old.code # "none" /\ Holds(CallTxn[c], old.code) BY <1>7, <2>2 DEF RecordInv
    <2>4. Holds(CallTxn[c], "mismatch") BY DEF Holds, Silent
    <2>5. answer \in Answers /\ Holds(CallTxn[c], answer) BY <2>2, <2>3, <2>4 DEF Answers
    <2> HIDE DEF answer
    <2> QED BY <1>6, <2>1, <2>5
  <1>8. CASE LookUpFails(c)
    <2>1. Holds(CallTxn[c], "unknown") /\ "unknown" \in Answers BY DEF Holds, Silent, Answers
    <2> QED BY <1>6, <1>8, <2>1 DEF LookUpFails, operatorSide
  <1>9. StartCall(c) => (SendFirst(c) /\ recorded[CallTxn[c]] = NoRecord) \/ recorded[CallTxn[c]] # NoRecord
    BY DEF StartCall
  <1> QED BY <1>5, <1>7, <1>8, <1>9

\* A failed try is repeated, or ends the call.
LEMMA RetryStep ==
  ASSUME CallInv, NEW c \in Callers, call[c].pc = "waiting", NEW status \in Int, NEW wire \in SUBSET requests,
         NEW code, RetryOrEnd(c, status, code, wire), replies' \subseteq replies,
         UNCHANGED <<dialect, recorded, answered, executed, undone>>,
         \A q \in wire : q.caller # c, \A p \in replies' : p.caller # c,
         Rejected(status) => code \in Refusals /\ Holds(CallTxn[c], code)
  PROVE  CallInv'
  <1> DEFINE old == call[c]
  <1>0. /\ requests \subseteq CallRequests /\ old \in CallStates /\ call \in [Callers -> CallStates]
        /\ CallerInv(c) /\ old.answer = "none"
    BY DEF CallInv, CallTypeOK, CallerInv
  <1>1. Kind(c) = "rollback" => BetClosed(CallTxn[c]) BY <1>0 DEF CallerInv
  <1>2. Holds(CallTxn[c], "unknown") /\ Holds(CallTxn[c], "none") BY DEF Holds, Silent
  <1>3. CASE Retryable(status) /\ call[c].try < Tries[Kind(c)]
    <2> DEFINE new == [old EXCEPT !.try = old.try + 1]
    <2>1. /\ requests' = wire \cup {[caller |-> c, try |-> old.try + 1]}
          /\ call' = [call EXCEPT ![c] = new]
      BY <1>0, <1>3 DEF RetryOrEnd
    <2>2. new \in CallStates /\ new.pc = "waiting" /\ new.try = old.try + 1 /\ new.answer = "none" /\ new.try \in Nat
      BY <1>0 DEF CallStates
    <2>3. requests' \subseteq CallRequests BY <1>0, <2>1, <2>2 DEF CallRequests
    <2>4. \A q \in requests' : (q \in requests /\ q.caller # c) \/ (q.caller = c /\ q.try = new.try /\ new.pc = "waiting")
      BY <2>1, <2>2
    <2> HIDE DEF new
    <2> QED BY <1>1, <1>2, <2>1, <2>2, <2>3, <2>4, CallerStep
  <1>4. CASE ~(Retryable(status) /\ call[c].try < Tries[Kind(c)])
    <2>0. EndWithError(c, status, code) /\ requests' = wire BY <1>4 DEF RetryOrEnd
    <2>1. CASE status >= 0 /\ Rejected(status)
      <3> DEFINE new == [old EXCEPT !.pc = "recording", !.answer = code]
      <3>1. call' = [call EXCEPT ![c] = new] BY <1>0, <2>0, <2>1 DEF EndWithError
      <3>2. new \in CallStates /\ new.pc = "recording" /\ new.answer = code /\ code \in Recordable
        BY <1>0, <2>1 DEF CallStates, Answers, Recordable
      <3>3. Holds(CallTxn[c], code) BY <2>1
      <3> HIDE DEF new
      <3> QED BY <1>0, <1>1, <2>0, <3>1, <3>2, <3>3, CallerStep
    <2>2. CASE ~(status >= 0 /\ Rejected(status))
      <3> DEFINE new == [pc |-> "done", try |-> 0, answer |-> "unknown"]
      <3>1. call' = [call EXCEPT ![c] = new] BY <2>0, <2>2 DEF EndWithError, Settles
      <3>2. new \in CallStates /\ new.pc = "done" /\ new.answer = "unknown" BY DEF CallStates, Answers
      <3> HIDE DEF new
      <3> QED BY <1>0, <1>1, <1>2, <2>0, <3>1, <3>2, CallerStep
    <2> QED BY <2>1, <2>2
  <1> QED BY <1>3, <1>4

LEMMA ReplyStep == ASSUME CallInv, NEW c \in Callers, TakeReply(c) PROVE CallInv'
  <1>0. PICK r \in replies :
          /\ r.caller = c /\ r.try = call[c].try /\ replies' = replies \ {r}
          /\ IF StatusOf(r) = 200
             THEN /\ call' = [call EXCEPT ![c].pc = "recording", ![c].answer = IF r.code = "ok" THEN "ok" ELSE "noop"]
                  /\ UNCHANGED requests
             ELSE RetryOrEnd(c, StatusOf(r), r.code, requests)
    BY DEF TakeReply
  <1>1. call[c].pc = "waiting" /\ UNCHANGED <<dialect, recorded, answered, executed, undone>>
    BY DEF TakeReply, operatorSide
  <1>2. (\A q \in requests : q.caller # c) /\ (\A p \in replies' : p.caller # c) BY <1>0, WireOf
  <1>3. Tells(CallTxn[c], r.code) /\ r.code \in Codes /\ r.signed \in BOOLEAN BY <1>0 DEF CallInv, WireInv, CallTypeOK, CallReplies
  <1>4. StatusOf(r) \in {-1, 200, 402, 409, 429, 500} BY DEF StatusOf, HttpStatus
  <1>5. CASE StatusOf(r) = 200
    <2> DEFINE old == call[c]
               answer == IF r.code = "ok" THEN "ok" ELSE "noop"
               new == [old EXCEPT !.pc = "recording", !.answer = answer]
    <2>0. old \in CallStates /\ call \in [Callers -> CallStates] /\ CallerInv(c) /\ requests \subseteq CallRequests
      BY DEF CallInv, CallTypeOK
    <2>a. call' = [call EXCEPT ![c].pc = "recording", ![c].answer = answer] /\ UNCHANGED requests BY <1>0, <1>5
    <2>2. r.code \in {"ok", "noop", "UNKNOWN_TXN"} BY <1>3, <1>5 DEF StatusOf, HttpStatus, Codes, Refusals
    <2>3. Holds(CallTxn[c], answer)
      <3>1. CASE TxnKind[CallTxn[c]] = "rollback" BY <1>3, <2>2, <3>1 DEF Holds, Tells
      <3>2. CASE TxnKind[CallTxn[c]] # "rollback" BY <1>3, <2>2, <3>2 DEF Holds, Tells
      <3> QED BY <3>1, <3>2
    <2> HIDE DEF answer
    <2>1. call' = [call EXCEPT ![c] = new] BY <2>0, <2>a
    <2>4. new \in CallStates /\ new.pc = "recording" /\ new.answer = answer /\ answer \in Recordable
      BY <2>0 DEF CallStates, Answers, Recordable, answer
    <2> HIDE DEF new
    <2>5. Kind(c) = "rollback" => BetClosed(CallTxn[c]) BY <1>1, <2>0 DEF CallerInv
    <2>6. replies' \subseteq replies /\ requests' \subseteq CallRequests /\ \A q \in requests' : q \in requests /\ q.caller # c
      BY <1>0, <1>2, <2>0, <2>a
    <2>7. \A p \in replies' : p.caller # c BY <1>2
    <2>8. call[c].pc # "done" /\ Holds(CallTxn[c], new.answer) BY <1>1, <2>3, <2>4
    <2> QED BY <1>1, <2>1, <2>4, <2>5, <2>6, <2>7, <2>8, CallerStep
  <1>6. CASE StatusOf(r) # 200
    <2>1. RetryOrEnd(c, StatusOf(r), r.code, requests) BY <1>0, <1>6
    <2>2. Rejected(StatusOf(r)) => r.code \in Refusals BY DEF StatusOf, HttpStatus, Rejected, Refusals
    <2>3. Rejected(StatusOf(r)) => r.code \in Refusals /\ Holds(CallTxn[c], r.code)
      <3>1. r.code \in Refusals => Holds(CallTxn[c], r.code) BY <1>3 DEF Tells, Holds, Refusals, Silent
      <3> QED BY <2>2, <3>1
    <2>4. StatusOf(r) \in Int BY <1>4
    <2> QED BY <1>0, <1>1, <1>2, <2>1, <2>3, <2>4, RetryStep
  <1> QED BY <1>5, <1>6

LEMMA AbandonStep == ASSUME CallInv, ~LateDelivery, NEW c \in Callers, AbandonTry(c) PROVE CallInv'
  <1> DEFINE mine(set) == {m \in set : m.caller = c /\ m.try = call[c].try}
             wire == requests \ mine(requests)
  <1>1. /\ call[c].pc = "waiting" /\ replies' = replies \ mine(replies) /\ RetryOrEnd(c, 0, "NETWORK_ERROR", wire)
        /\ UNCHANGED <<dialect, recorded, answered, executed, undone>>
    BY DEF AbandonTry, operatorSide
  <1>2. \A q \in requests \cup replies : q.caller = c => q.try = call[c].try BY DEF CallInv, WireInv
  <1>3. (\A q \in wire : q.caller # c) /\ (\A p \in replies' : p.caller # c) BY <1>1, <1>2
  <1>4. ~Rejected(0) BY DEF Rejected
  <1>5. wire \in SUBSET requests /\ replies' \subseteq replies BY <1>1
  <1> HIDE DEF wire
  <1> QED BY <1>1, <1>3, <1>4, <1>5, RetryStep

\* The caller is given the answer; the record is written once, and is as true.
LEMMA StoreStep == ASSUME CallInv, NEW c \in Callers, StoreAnswer(c) PROVE CallInv'
  <1> DEFINE old == call[c]
             txn == CallTxn[c]
             new == [pc |-> "done", try |-> 0, answer |-> old.answer]
             told == [body |-> CallBody[c], code |-> old.answer]
  <1>0. /\ old.pc = "recording" /\ old \in CallStates /\ CallerInv(c) /\ txn \in Txns /\ CallBody[c] \in Bodies
        /\ RecordInv(txn) /\ OperatorInv(txn)
        /\ requests \subseteq CallRequests
    BY CallConstants DEF StoreAnswer, CallInv, CallTypeOK
  <1>1. call' = [call EXCEPT ![c] = new] /\ UNCHANGED <<dialect, requests, replies, answered, executed, undone>>
    BY DEF StoreAnswer, Settles, operatorSide
  <1>2. recorded' = recorded \/ (recorded[txn] = NoRecord /\ recorded' = [recorded EXCEPT ![txn] = told])
    BY DEF StoreAnswer
  <1>3. (\A q \in requests : q.caller # c) /\ (\A p \in replies : p.caller # c) BY <1>0, WireOf
  <1>4. old.answer \in Recordable /\ Holds(txn, old.answer) BY <1>0 DEF CallerInv
  <1>5. Kind(c) = "rollback" => BetClosed(txn) BY <1>0 DEF CallerInv
  <1>6. new \in CallStates /\ new.pc = "done" /\ new.answer = old.answer BY <1>4 DEF CallStates, Answers
  <1>7. told.code = old.answer /\ told \in [body : Bodies \cup {"none"}, code : {"none"} \cup Recordable]
    BY <1>0, <1>4
  <1> HIDE DEF new, told
  <1>8. /\ call'[c] = new /\ \A d \in Callers \ {c} : call'[d] = call[d]
    BY <1>1 DEF CallInv, CallTypeOK
  <1>9. \A t \in Txns : BetClosed(t) => BetClosed(t)' BY <1>6, <1>8 DEF BetClosed
  <1>10. \A t : Returned(t)' <=> Returned(t) BY <1>1 DEF Returned
  <1>11. CallTypeOK' BY <1>0, <1>1, <1>2, <1>6, <1>7 DEF CallInv, CallTypeOK
  <1>12. ASSUME NEW t \in Txns PROVE OperatorInv(t)'
    <2>1. OperatorInv(t) BY DEF CallInv
    <2> QED BY <1>1, <1>9, <1>10, <2>1 DEF OperatorInv
  <1>13. ASSUME NEW t \in Txns PROVE RecordInv(t)'
    <2>0. RecordInv(t) BY DEF CallInv
    <2>1. CASE recorded'[t] = recorded[t]
      <3>1. Holds(t, recorded[t].code) => Holds(t, recorded[t].code)' BY <1>1, <1>10, <2>1 DEF Holds
      <3> QED BY <1>6, <1>8, <1>9, <2>0, <2>1, <3>1 DEF RecordInv
    <2>2. CASE recorded'[t] # recorded[t]
      <3>1. t = txn /\ recorded'[t] = told BY <1>0, <1>2, <2>2 DEF CallInv, CallTypeOK
      <3>2. Holds(t, recorded[t].code)' BY <1>1, <1>4, <1>7, <1>10, <3>1 DEF Holds
      <3>3. TxnKind[t] = "rollback" => BetClosed(t)' BY <1>0, <1>5, <1>9, <3>1 DEF Kind
      <3>4. TxnKind[t] = "bet" => \A d \in Callers : CallTxn[d] = t => d = c BY <3>1, CallConstants
      <3>5. recorded'[t].code # "none" BY <1>4, <1>7, <3>1 DEF Recordable, Refusals
      <3> QED BY <1>6, <1>8, <3>2, <3>3, <3>4, <3>5 DEF RecordInv
    <2> QED BY <2>1, <2>2
  <1>14. ASSUME NEW d \in Callers PROVE CallerInv(d)'
    <2>1. CallTxn[d] \in Txns BY CallConstants
    <2>2. CASE d = c
      <3>1. Holds(txn, call[c].answer)' BY <1>1, <1>4, <1>6, <1>8, <1>10 DEF Holds
      <3> QED BY <1>0, <1>5, <1>6, <1>8, <1>9, <2>2, <3>1 DEF CallerInv, Kind
    <2>3. CASE d # c
      <3>1. CallerInv(d) BY DEF CallInv
      <3>2. Holds(CallTxn[d], call[d].answer)' BY <1>1, <1>8, <1>10, <2>3, <3>1 DEF Holds, CallerInv
      <3> QED BY <1>8, <1>9, <2>1, <2>3, <3>1, <3>2 DEF CallerInv, Kind
    <2> QED BY <2>2, <2>3
  <1>15. WireInv'
    <2>1. WireInv /\ requests \subseteq CallRequests /\ replies \subseteq CallReplies BY DEF CallInv, CallTypeOK
    <2>2. \A q \in requests \cup replies : q.caller \in Callers \ {c} BY <1>3, <2>1 DEF CallRequests, CallReplies
    <2>3. \A t, a : Tells(t, a) => Tells(t, a)' BY <1>1, <1>10 DEF Tells
    <2> QED BY <1>1, <1>8, <2>1, <2>2, <2>3 DEF WireInv
  <1> QED BY <1>11, <1>12, <1>13, <1>14, <1>15 DEF CallInv

-----------------------------------------------------------------------------
(* The operator's steps. *)

\* A reply is put on the wire for the try that waits for it, in place of its request.
LEMMA WireAfterReply ==
  ASSUME CallInv, NEW r \in requests, NEW code \in Codes, NEW signed \in BOOLEAN,
         Reply(r, code, signed), requests' = requests \ {r}, UNCHANGED call,
         Tells(CallTxn[r.caller], code)',
         \A p \in replies : Tells(CallTxn[p.caller], p.code)'
  PROVE  WireInv' /\ replies' \subseteq CallReplies
  <1> DEFINE p0 == [caller |-> r.caller, try |-> r.try, code |-> code, signed |-> signed]
  <1>1. /\ WireInv /\ requests \subseteq CallRequests /\ replies \subseteq CallReplies /\ r \in CallRequests
    BY DEF CallInv, CallTypeOK
  <1>2. call[r.caller].pc = "waiting" /\ r.try = call[r.caller].try BY <1>1 DEF WireInv
  <1>3. replies' = replies \cup {p0} BY <1>2 DEF Reply
  <1>4. /\ p0.caller = r.caller /\ p0.try = r.try /\ p0.code = code /\ p0 \in CallReplies
    BY <1>1 DEF CallRequests, CallReplies
  <1> HIDE DEF p0
  <1>5. \A q \in requests : q.caller = r.caller => q = r
    BY <1>1, <1>2 DEF WireInv, CallRequests
  <1>6. \A q \in replies : q.caller # r.caller BY <1>1 DEF WireInv
  <1>7. \A q \in requests' : call'[q.caller].pc = "waiting" /\ q.try = call'[q.caller].try BY <1>1 DEF WireInv
  <1>8. ASSUME NEW p \in replies'
        PROVE  /\ call'[p.caller].pc = "waiting" /\ p.try = call'[p.caller].try
               /\ Tells(CallTxn[p.caller], p.code)'
               /\ \A q \in requests' : q.caller # p.caller
               /\ \A q \in replies' : q.caller = p.caller => q = p
    <2>1. CASE p = p0
      <3>1. Tells(CallTxn[p.caller], p.code)' BY <1>4, <2>1
      <3> QED BY <1>2, <1>3, <1>4, <1>5, <1>6, <2>1, <3>1
    <2>2. CASE p # p0
      <3>1. p \in replies BY <1>3, <2>2
      <3> QED BY <1>1, <1>3, <1>4, <1>6, <3>1 DEF WireInv
    <2> QED BY <2>1, <2>2
  <1>9. replies' \subseteq CallReplies BY <1>1, <1>3, <1>4
  <1> QED BY <1>7, <1>8, <1>9 DEF WireInv

\* What the callers and the records know is not changed by what an operator does for a try
\* that is waited for: it is of a transaction whose calls have not ended, or it agrees.
OnlyAdds(t) ==
  /\ \A u \in Txns \ {t} : executed'[u] = executed[u]
  /\ executed'[t] \in {0, 1} /\ executed'[t] >= executed[t] /\ undone \subseteq undone' /\ undone' \subseteq Txns
  /\ \A u \in Txns \ {t} : answered'[u] = answered[u]

LEMMA ExecutedStep ==
  ASSUME CallInv, NEW c \in Callers, call[c].pc = "waiting", OnlyAdds(CallTxn[c]), UNCHANGED call
  PROVE  /\ \A t \in Txns : BetClosed(t)' <=> BetClosed(t)
         /\ \A t \in Txns : BetClosed(t) /\ Returned(t) => Returned(t)'
         /\ \A t \in Txns : executed[t] = 1 => executed'[t] = 1
         /\ \A d \in Callers \ {c} : \A a : Kind(d) # "rollback" /\ Holds(CallTxn[d], a) => Holds(CallTxn[d], a)'
  <1>1. \A t \in Txns : BetClosed(t)' <=> BetClosed(t) BY DEF BetClosed
  <1>2. CallTxn[c] \in Txns /\ executed \in [Txns -> {0, 1}] BY CallConstants DEF CallInv, CallTypeOK
  <1>3. ASSUME NEW t \in Txns, BetClosed(t), Returned(t) PROVE Returned(t)'
    <2>1. TxnBet[t] \in Txns /\ TxnBet[t] # CallTxn[c] BY <1>3, CallConstants DEF BetClosed
    <2> QED BY <1>3, <2>1 DEF Returned, OnlyAdds
  <1>4. \A t \in Txns : executed[t] = 1 => executed'[t] = 1 BY <1>2 DEF OnlyAdds
  <1>6. ASSUME NEW d \in Callers \ {c}, NEW a, Kind(d) # "rollback", Holds(CallTxn[d], a) PROVE Holds(CallTxn[d], a)'
    <2>1. CallTxn[d] \in Txns BY CallConstants
    <2>2. executed[CallTxn[d]] = 1 => executed'[CallTxn[d]] = 1 BY <1>4, <2>1
    <2>3. TxnKind[CallTxn[d]] = "bet" => executed'[CallTxn[d]] = executed[CallTxn[d]]
      <3>1. TxnKind[CallTxn[d]] = "bet" => CallTxn[d] # CallTxn[c] BY CallConstants
      <3> QED BY <2>1, <3>1 DEF OnlyAdds
    <2> QED BY <1>6, <2>1, <2>2, <2>3 DEF Holds, Kind
  <1> QED BY <1>1, <1>3, <1>4, <1>6

\* What an operator executes for a transaction it does not remember is what it says and remembers of it.
LEMMA ExecuteTells ==
  ASSUME CallInv, NEW c \in Callers, call[c].pc = "waiting", NEW t \in Txns, t = CallTxn[c], answered[t] = "none",
         NEW done, done = Execute(t), executed' = done.executed, undone' = done.undone, UNCHANGED call,
         IF done.code \in {"ok", "noop"} THEN Remember(t, done.code) ELSE UNCHANGED answered
  PROVE  /\ OnlyAdds(t) /\ done.code \in Codes /\ Tells(t, done.code)' /\ OperatorInv(t)'
         /\ answered' \in [Txns -> {"none", "ok", "noop"}] /\ executed' \in [Txns -> {0, 1}]
  <1>0. /\ executed \in [Txns -> {0, 1}] /\ undone \subseteq Txns /\ answered \in [Txns -> {"none", "ok", "noop"}]
        /\ OperatorInv(t) /\ CallerInv(c) /\ TxnBet[t] \in Txns /\ TxnKind[t] \in Kinds
        /\ dialect \in {"native", "softswiss"}
    BY CallConstants DEF CallInv, CallTypeOK
  <1>1. CASE TxnKind[t] # "rollback"
    <2>1. executed[t] = 0 BY <1>0, <1>1 DEF OperatorInv
    <2>2. /\ undone' = undone
          /\ \/ done.code = "INSUFFICIENT_FUNDS" /\ executed' = executed /\ TxnKind[t] = "bet"
             \/ done.code = "ok" /\ executed' = [executed EXCEPT ![t] = 1]
      <3>1. CASE TxnKind[t] = "bet" BY <1>0, <2>1, <3>1 DEF Execute, ExecuteBet, Times
      <3>2. CASE TxnKind[t] = "win"
        <4>1. done = ExecuteWin(t) BY <3>2 DEF Execute
        <4>2. done.code = "ok" /\ undone' = undone /\ executed' = [executed EXCEPT ![t] = executed[t] + 1]
          BY <4>1 DEF ExecuteWin, Times
        <4> QED BY <2>1, <4>2
      <3> QED BY <1>0, <1>1, <3>1, <3>2 DEF Kinds
    <2>3. CASE done.code = "INSUFFICIENT_FUNDS" /\ executed' = executed /\ TxnKind[t] = "bet"
      BY <1>0, <1>1, <2>1, <2>2, <2>3 DEF OnlyAdds, Codes, Refusals, Tells, OperatorInv
    <2>4. CASE done.code = "ok" /\ executed' = [executed EXCEPT ![t] = 1]
      <3>1. answered' = [answered EXCEPT ![t] = "ok"] BY <2>4 DEF Remember
      <3> QED BY <1>0, <1>1, <2>1, <2>2, <2>4, <3>1 DEF OnlyAdds, Codes, Tells, OperatorInv
    <2> QED BY <2>2, <2>3, <2>4
  <1>2. CASE TxnKind[t] = "rollback"
    <2> DEFINE bet == TxnBet[t]
    <2>1. /\ executed' = executed /\ undone' = (IF executed[bet] > 0 THEN undone \cup {bet} ELSE undone)
          /\ done.code = IF executed[bet] > 0 THEN "ok" ELSE IF dialect = "native" THEN "noop" ELSE "UNKNOWN_TXN"
      BY <1>2 DEF Execute, ExecuteRollback
    <2>2. executed[bet] \in {0, 1} BY <1>0
    <2>3. executed'[bet] = 0 \/ bet \in undone' BY <2>1, <2>2
    <2>4. Returned(t)' BY <2>3 DEF Returned
    <2>5. done.code \in {"ok", "noop", "UNKNOWN_TXN"} BY <2>1
    <2>6. undone \subseteq undone' /\ undone' \subseteq Txns BY <1>0, <2>1
    <2>7. /\ answered' \in [Txns -> {"none", "ok", "noop"}]
          /\ \A u \in Txns \ {t} : answered'[u] = answered[u]
      <3>1. CASE done.code \in {"ok", "noop"} BY <1>0, <3>1 DEF Remember
      <3>2. CASE done.code \notin {"ok", "noop"} BY <1>0, <3>2
      <3> QED BY <3>1, <3>2
    <2>8. OnlyAdds(t) BY <1>0, <2>1, <2>6, <2>7 DEF OnlyAdds
    <2>9. Tells(t, done.code)' BY <1>2, <2>4, <2>5 DEF Tells
    <2>10. BetClosed(t)'
      <3>1. BetClosed(t) BY <1>0, <1>2 DEF CallerInv, Kind
      <3> QED BY <3>1 DEF BetClosed
    <2>11. OperatorInv(t)' BY <1>0, <1>2, <2>1, <2>4, <2>10 DEF OperatorInv
    <2> QED BY <1>0, <2>1, <2>5, <2>7, <2>8, <2>9, <2>11 DEF Codes
  <1> QED BY <1>1, <1>2

\* Whatever an operator does with a request: the invariant's parts follow from what it tells.
LEMMA HandledStep ==
  ASSUME CallInv, NEW r \in requests, NEW code \in Codes, NEW signed \in BOOLEAN,
         Reply(r, code, signed), requests' = requests \ {r}, UNCHANGED <<dialect, call, recorded>>,
         OnlyAdds(CallTxn[r.caller]), OperatorInv(CallTxn[r.caller])', Tells(CallTxn[r.caller], code)',
         answered' \in [Txns -> {"none", "ok", "noop"}], executed' \in [Txns -> {0, 1}]
  PROVE  CallInv'
  <1> DEFINE c == r.caller
             txn == CallTxn[c]
  <1>0. /\ CallTypeOK /\ WireInv /\ c \in Callers /\ call[c].pc = "waiting" /\ txn \in Txns /\ CallerInv(c)
        /\ \A p \in replies : p.caller \in Callers
    <2>1. CallTypeOK /\ WireInv BY DEF CallInv
    <2>2. c \in Callers /\ call[c].pc = "waiting" /\ \A p \in replies : p.caller \in Callers
      BY <2>1 DEF CallTypeOK, WireInv, CallRequests, CallReplies
    <2> QED BY <2>1, <2>2, CallConstants DEF CallInv
  <1> HIDE DEF c
  <1>1. /\ \A t \in Txns : BetClosed(t)' <=> BetClosed(t)
        /\ \A t \in Txns : BetClosed(t) /\ Returned(t) => Returned(t)'
        /\ \A t \in Txns : executed[t] = 1 => executed'[t] = 1
        /\ \A d \in Callers \ {c} : \A a : Kind(d) # "rollback" /\ Holds(CallTxn[d], a) => Holds(CallTxn[d], a)'
    BY <1>0, ExecutedStep DEF c
  <1>2. \A d \in Callers : Kind(d) = "rollback" /\ call[d].pc # "idle" => BetClosed(CallTxn[d])
    BY DEF CallInv, CallerInv
  <1>3. ASSUME NEW t \in Txns PROVE OperatorInv(t)'
    <2>0. OperatorInv(t) BY DEF CallInv
    <2>1. CASE t = txn BY <2>1 DEF c
    <2>2. CASE t # txn
      <3>1. executed'[t] = executed[t] /\ answered'[t] = answered[t] BY <2>2 DEF OnlyAdds, c
      <3> QED BY <1>1, <2>0, <3>1 DEF OperatorInv
    <2> QED BY <2>1, <2>2
  <1>4. ASSUME NEW t \in Txns PROVE RecordInv(t)'
    <2>0. RecordInv(t) /\ recorded[t].code \in {"none"} \cup Recordable BY DEF CallInv, CallTypeOK
    <2>1. CASE recorded[t].code = "none" BY <2>0, <2>1 DEF RecordInv
    <2>2. CASE recorded[t].code # "none" /\ TxnKind[t] = "rollback"
      <3>1. BetClosed(t) /\ Holds(t, recorded[t].code) BY <2>0, <2>2 DEF RecordInv
      <3>2. Holds(t, recorded[t].code)' BY <1>1, <2>2, <3>1 DEF Holds
      <3> QED BY <1>1, <2>0, <2>2, <3>1, <3>2 DEF RecordInv
    <2>3. CASE recorded[t].code # "none" /\ TxnKind[t] # "rollback"
      <3>1. Holds(t, recorded[t].code) BY <2>0, <2>3 DEF RecordInv
      <3>2. TxnKind[t] = "bet" => t # txn BY <1>0, <2>0, <2>3 DEF RecordInv
      <3>3. TxnKind[t] = "bet" => executed'[t] = executed[t] BY <3>2 DEF OnlyAdds, c
      <3>4. Holds(t, recorded[t].code)' BY <1>1, <2>3, <3>1, <3>3 DEF Holds
      <3> QED BY <2>0, <2>3, <3>4 DEF RecordInv
    <2> QED BY <2>1, <2>2, <2>3
  <1>5. ASSUME NEW d \in Callers PROVE CallerInv(d)'
    <2>0. CallerInv(d) /\ CallTxn[d] \in Txns BY CallConstants DEF CallInv
    <2>1. Holds(CallTxn[d], call[d].answer)'
      <3>1. CASE d = c
        <4>1. call[c].answer = "none" BY <1>0 DEF CallerInv
        <4> QED BY <3>1, <4>1 DEF Holds, Silent
      <3>2. CASE d # c /\ Kind(d) # "rollback" BY <1>1, <2>0, <3>2 DEF CallerInv
      <3>3. CASE d # c /\ Kind(d) = "rollback"
        <4>1. call[d].pc = "idle" => call[d].answer = "none" BY <2>0 DEF CallerInv
        <4>2. call[d].pc # "idle" => BetClosed(CallTxn[d]) BY <1>2, <3>3
        <4> QED BY <1>1, <2>0, <3>3, <4>1, <4>2 DEF CallerInv, Holds, Kind
      <3> QED BY <3>1, <3>2, <3>3
    <2> QED BY <1>1, <2>0, <2>1 DEF CallerInv, Kind
  <1>6. ASSUME NEW p \in replies PROVE Tells(CallTxn[p.caller], p.code)'
    <2>0. Tells(CallTxn[p.caller], p.code) /\ p.caller \in Callers /\ call[p.caller].pc = "waiting"
      BY <1>0 DEF WireInv
    <2>1. CallTxn[p.caller] \in Txns BY <2>0, CallConstants
    <2>2. CASE TxnKind[CallTxn[p.caller]] = "rollback"
      <3>1. BetClosed(CallTxn[p.caller]) BY <1>2, <2>0, <2>2 DEF Kind
      <3> QED BY <1>1, <2>0, <2>1, <2>2, <3>1 DEF Tells
    <2>3. CASE TxnKind[CallTxn[p.caller]] # "rollback"
      <3>1. p.caller # c BY <1>0 DEF WireInv, c
      <3>2. TxnKind[CallTxn[p.caller]] = "bet" => CallTxn[p.caller] # txn BY <1>0, <2>0, <3>1, CallConstants
      <3>3. TxnKind[CallTxn[p.caller]] = "bet" => executed'[CallTxn[p.caller]] = executed[CallTxn[p.caller]]
        BY <2>1, <3>2 DEF OnlyAdds, c
      <3>4. executed[CallTxn[p.caller]] = 1 => executed'[CallTxn[p.caller]] = 1
        BY <1>1, <2>1
      <3> QED BY <2>0, <2>3, <3>3, <3>4 DEF Tells
    <2> QED BY <2>2, <2>3
  <1>7. WireInv' /\ replies' \subseteq CallReplies BY <1>6, WireAfterReply
  <1>8. CallTypeOK' BY <1>0, <1>7 DEF CallTypeOK, OnlyAdds, c
  <1> QED BY <1>3, <1>4, <1>5, <1>7, <1>8 DEF CallInv

LEMMA OperatorStep == ASSUME CallInv, NEW r \in requests, HandleRequest(r) \/ Throttle(r) \/ FailWin(r) PROVE CallInv'
  <1> DEFINE t == CallTxn[r.caller]
  <1>0. /\ CallTypeOK /\ WireInv /\ r.caller \in Callers /\ call[r.caller].pc = "waiting" /\ t \in Txns /\ OperatorInv(t)
        /\ requests' = requests \ {r} /\ UNCHANGED <<dialect, call, recorded>>
    <2>1. CallTypeOK /\ WireInv BY DEF CallInv
    <2>2. r.caller \in Callers /\ call[r.caller].pc = "waiting" BY <2>1 DEF CallTypeOK, WireInv, CallRequests
    <2> QED BY <2>1, <2>2, CallConstants DEF CallInv, HandleRequest, Throttle, FailWin, TurnAway
  <1>1. ASSUME UNCHANGED <<answered, executed, undone>>
        PROVE  /\ OnlyAdds(t) /\ OperatorInv(t)' /\ \A a : Tells(t, a)' <=> Tells(t, a)
               /\ answered' \in [Txns -> {"none", "ok", "noop"}] /\ executed' \in [Txns -> {0, 1}]
    <2>1. executed[t] \in {0, 1} BY <1>0 DEF CallTypeOK
    <2>2. OnlyAdds(t) BY <1>0, <1>1, <2>1 DEF OnlyAdds, CallTypeOK
    <2>3. BetClosed(t)' <=> BetClosed(t) BY <1>0 DEF BetClosed
    <2>4. Returned(t)' <=> Returned(t) BY <1>1 DEF Returned
    <2>5. OperatorInv(t)' BY <1>0, <1>1, <2>3, <2>4 DEF OperatorInv
    <2>6. \A a : Tells(t, a)' <=> Tells(t, a) BY <1>1, <2>4 DEF Tells
    <2> QED BY <1>0, <1>1, <2>2, <2>5, <2>6 DEF CallTypeOK
  <1>2. ASSUME NEW code \in {"UPSTREAM_ERROR", "RATE_LIMITED"}, TurnAway(r, code) PROVE CallInv'
    <2>1. Reply(r, code, TRUE) /\ UNCHANGED <<answered, executed, undone>> BY <1>2 DEF TurnAway
    <2>2. Tells(t, code)' BY <1>2 DEF Tells
    <2>3. code \in Codes BY DEF Codes, Refusals
    <2> QED BY <1>0, <1>1, <2>1, <2>2, <2>3, HandledStep
  <1>3. CASE HandleRequest(r)
    <2>0. PICK done : done = Execute(t) OBVIOUS
    <2>1. PICK signed \in BOOLEAN :
            \/ /\ answered[t] # "none" /\ UNCHANGED <<answered, executed, undone>>
               /\ \E code \in Repetition(t) : Reply(r, code, signed)
            \/ /\ answered[t] = "none" /\ Reply(r, done.code, signed)
               /\ executed' = done.executed /\ undone' = done.undone
               /\ IF done.code \in {"ok", "noop"} THEN Remember(t, done.code) ELSE UNCHANGED answered
      BY <1>3, <2>0 DEF HandleRequest
    <2>2. CASE answered[t] # "none"
      <3>1. PICK code \in Repetition(t) :
              Reply(r, code, signed) /\ UNCHANGED <<answered, executed, undone>>
        BY <2>1, <2>2
      <3>2. code \in {answered[t], "DUPLICATE_TRANSACTION"} BY <3>1 DEF Repetition
      <3>3. answered[t] \in {"ok", "noop"} /\ code \in Codes BY <3>2, <1>0, <2>2 DEF CallTypeOK, Codes, Refusals
      <3>4. Tells(t, code) BY <1>0, <2>2, <3>3, <3>2 DEF Tells, OperatorInv
      <3>5. Tells(t, code)' BY <1>1, <3>1, <3>4
      <3> QED BY <1>0, <1>1, <3>1, <3>3, <3>5, HandledStep
    <2>3. CASE answered[t] = "none"
      <3>1. /\ Reply(r, done.code, signed) /\ executed' = done.executed /\ undone' = done.undone
            /\ IF done.code \in {"ok", "noop"} THEN Remember(t, done.code) ELSE UNCHANGED answered
        BY <2>1, <2>3
      <3>2. /\ OnlyAdds(t) /\ done.code \in Codes /\ Tells(t, done.code)' /\ OperatorInv(t)'
            /\ answered' \in [Txns -> {"none", "ok", "noop"}] /\ executed' \in [Txns -> {0, 1}]
        BY <1>0, <2>0, <2>3, <3>1, ExecuteTells
      <3> QED BY <1>0, <3>1, <3>2, HandledStep
    <2> QED BY <2>2, <2>3
  <1> QED BY <1>2, <1>3 DEF Throttle, FailWin

LEMMA CallsKept == CallInv /\ ~LateDelivery /\ [CallNext]_callVars => CallInv'
  <1> SUFFICES ASSUME CallInv, ~LateDelivery, [CallNext]_callVars PROVE CallInv' OBVIOUS
  <1>1. CASE UNCHANGED callVars
    <2>1. UNCHANGED <<dialect, call, recorded, requests, replies, answered, executed, undone>> BY <1>1 DEF callVars
    <2>2. CallTypeOK' BY <2>1 DEF CallInv, CallTypeOK
    <2>3. WireInv' BY <2>1 DEF CallInv, WireInv, Tells, Returned
    <2>4. \A t \in Txns : OperatorInv(t)' /\ RecordInv(t)'
      BY <2>1 DEF CallInv, OperatorInv, RecordInv, Holds, BetClosed, Returned
    <2>5. \A c \in Callers : CallerInv(c)' BY <2>1 DEF CallInv, CallerInv, Holds, BetClosed, Returned, Kind
    <2> QED BY <2>2, <2>3, <2>4, <2>5 DEF CallInv
  <1> QED BY <1>1, StartStep, ReplyStep, StoreStep, AbandonStep, OperatorStep DEF CallNext

LEMMA CallsImply == CallInv => WalletCallsAreTrue
  <1> SUFFICES ASSUME CallInv PROVE WalletCallsAreTrue OBVIOUS
  <1>1. \A t \in Txns : executed[t] \in {0, 1} BY DEF CallInv, CallTypeOK
  <1>2. ASSUME NEW t \in Txns, NEW code, Holds(t, code) PROVE Says(t, code)
    <2>1. executed[TxnBet[t]] = 1 => TxnBet[t] \in undone \/ ~Returned(t) BY DEF Returned
    <2> QED BY <1>1, <1>2, <2>1 DEF Holds, Says, StakeHeld
  <1>3. AnswersAreTrue
    <2> SUFFICES ASSUME NEW c \in Callers, Ended(c) PROVE Says(CallTxn[c], call[c].answer) BY DEF AnswersAreTrue
    <2>1. CallTxn[c] \in Txns /\ Holds(CallTxn[c], call[c].answer) BY CallConstants DEF CallInv, CallerInv
    <2> QED BY <1>2, <2>1
  <1>4. RecordsAreTrue
    <2> SUFFICES ASSUME NEW t \in Txns PROVE Says(t, recorded[t].code) BY DEF RecordsAreTrue
    <2>1. CASE recorded[t].code = "none" BY <2>1 DEF Says, Silent
    <2>2. CASE recorded[t].code # "none"
      <3>1. Holds(t, recorded[t].code) BY <2>2 DEF CallInv, RecordInv
      <3> QED BY <1>2, <3>1
    <2> QED BY <2>1, <2>2
  <1>5. \A t \in Txns : executed[t] <= 1 BY <1>1
  <1> QED BY <1>3, <1>4, <1>5 DEF WalletCallsAreTrue

\* When no request that was given up is delivered late, what the wallet client answers and
\* records, but for a throttle, which says nothing, is what the operator did: a success or a
\* duplicate was executed, a lack of funds was not, and no stake is held after a rollback;
\* whichever tries and answers were lost, and however the calls of a bet interleave
\* (client.ts, withIdempotency and executeWithRetry).
THEOREM WalletCallsTrue == CallSpec /\ ~LateDelivery => []WalletCallsAreTrue
  <1> SUFFICES ASSUME ~LateDelivery PROVE CallSpec => []WalletCallsAreTrue OBVIOUS
  <1>1. CallInv /\ [CallNext]_callVars => CallInv' BY CallsKept
  <1> QED BY CallStarts, <1>1, CallsImply, PTL DEF CallSpec
=============================================================================
