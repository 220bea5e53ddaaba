--------------------------- MODULE OperatorRegistry ---------------------------
(***************************************************************************)
(* One operator's row, the registry's in-memory copy of it, the wallet     *)
(* client built from the copy and the credentials shown once.  A change    *)
(* writes the row, reads all rows back, and installs what it read; two     *)
(* changes interleave at each of these.  A signed request of the operator  *)
(* is delivered at least once and judged by the copy and the nonce cache.  *)
(***************************************************************************)
EXTENDS Integers, FiniteSets

CONSTANTS
  Changes,       \* requests that change the operator
  ChangeKind,    \* Changes -> {"create", "pause", "resume", "regen", "patch"}; "patch" is also POST /limits
  MaxSkew,       \* seconds a timestamp may be off: 300
  LastTick,      \* bound on time, in half seconds
  MaxHandled,    \* bound on how often the signed request is handled
  MaxRegistryFaults \* bound on reads that fail and on restarts

ASSUME RegistryAssumption ==
  /\ ChangeKind \in [Changes -> {"create", "pause", "resume", "regen", "patch"}]
  /\ MaxSkew \in Nat \ {0}

VARIABLES
  row,          \* the operator's row; version counts its writes
  cached,       \* the registry's copy
  client,       \* signing key of the cached wallet client, or NoKey
  oneShot,      \* signing key GET /credentials would show, or NoKey
  change,       \* [at, wrote, snapshot] of each change
  tick,         \* time in half seconds
  request,      \* the signed request: [sent, stamp, ahead, key]
  nonceUntil,   \* when the nonce is forgotten, 0 if it is not known
  handled,      \* times the request was handled
  settled,      \* history: newest write whose request was answered
  outOfOrder,   \* history: an older read was installed after a newer one
  registryFaults
registryVars == <<row, cached, client, oneShot, change, tick, request, nonceUntil, handled,
                  settled, outOfOrder, registryFaults>>

NoKey == -1
Absent == [status |-> "absent", key |-> NoKey, version |-> 0]
NewChange == [at |-> "new", wrote |-> 0, snapshot |-> Absent]
NonceTtlShort == 2 * MaxSkew
NonceTtl == 4 * MaxSkew   \* ten minutes against five, in half seconds
Seconds(t) == t \div 2

KeptByChanges == <<tick, request, nonceUntil, handled>>

-----------------------------------------------------------------------------
(* A change: write, read back, install. *)

\* The statement of each kind; the version stands for the moment of the write.
Written(c) ==
  LET next == row.version + 1
  IN  CASE ChangeKind[c] = "create" -> [status |-> "active", key |-> next, version |-> next]
        [] ChangeKind[c] = "pause"  -> [row EXCEPT !.status = "paused", !.version = next]
        [] ChangeKind[c] = "resume" -> [row EXCEPT !.status = "active", !.version = next]
        [] ChangeKind[c] = "regen"  -> [row EXCEPT !.key = next, !.version = next]
        [] OTHER                    -> [row EXCEPT !.version = next]

\* INSERT fails on a duplicate id, UPDATE on no row: 409 and 404, nothing changes.
Applies(c) == (ChangeKind[c] = "create") = (row = Absent)

Write(c) ==
  /\ change[c].at = "new"
  /\ IF Applies(c)
     THEN /\ row' = Written(c)
          /\ change' = [change EXCEPT ![c].at = "written", ![c].wrote = row.version + 1]
     ELSE /\ change' = [change EXCEPT ![c].at = "refused"]
          /\ UNCHANGED row
  /\ UNCHANGED <<cached, client, oneShot, settled, outOfOrder, registryFaults, KeptByChanges>>

\* refresh(): the rows as they are when the SELECT runs.
Load(c) ==
  /\ change[c].at = "written"
  /\ change' = [change EXCEPT ![c].at = "loaded", ![c].snapshot = row]
  /\ UNCHANGED <<row, cached, client, oneShot, settled, outOfOrder, registryFaults, KeptByChanges>>

\* The SELECT fails: 500, the row keeps the write and the copy does not learn of it.
LoadFails(c) ==
  /\ change[c].at = "written" /\ registryFaults < MaxRegistryFaults
  /\ change' = [change EXCEPT ![c].at = "failed"]
  /\ registryFaults' = registryFaults + 1
  /\ UNCHANGED <<row, cached, client, oneShot, settled, outOfOrder, KeptByChanges>>

\* regen, pause and resume drop the wallet client; PATCH and POST /limits keep it.
DropsClient(c) == ChangeKind[c] \in {"regen", "pause", "resume"}

\* create and regen keep the key they generated for one reading.
ShowsKey(c) == ChangeKind[c] \in {"create", "regen"}

\* The copy is replaced and the rest of the route runs without another await.
Install(c) ==
  /\ change[c].at = "loaded"
  /\ cached' = change[c].snapshot
  /\ client' = IF DropsClient(c) THEN NoKey ELSE client
  /\ oneShot' = IF ShowsKey(c) THEN change[c].wrote ELSE oneShot
  /\ outOfOrder' = (outOfOrder \/ change[c].snapshot.version < cached.version
                               \/ (ShowsKey(c) /\ \E d \in Changes : ShowsKey(d) /\ change[d].at = "done" /\ change[d].wrote > change[c].wrote))
  /\ settled' = IF change[c].wrote > settled THEN change[c].wrote ELSE settled
  /\ change' = [change EXCEPT ![c] = [NewChange EXCEPT !.at = "done", !.wrote = change[c].wrote]]
  /\ UNCHANGED <<row, registryFaults, KeptByChanges>>

\* GET /credentials: the key is shown once.
ReadCredentials ==
  /\ cached # Absent /\ oneShot # NoKey /\ oneShot' = NoKey
  /\ UNCHANGED <<row, cached, client, change, settled, outOfOrder, registryFaults, KeptByChanges>>

\* WalletClientCache.get: a client is built from the copy, or dropped when paused.
GetClient ==
  /\ client' = IF cached.status \in {"absent", "paused"} THEN NoKey
               ELSE IF client = NoKey THEN cached.key ELSE client
  /\ UNCHANGED <<row, cached, oneShot, change, settled, outOfOrder, registryFaults, KeptByChanges>>

\* The process restarts: requests die, memory is loaded from the rows.
RestartRegistry ==
  /\ registryFaults < MaxRegistryFaults /\ registryFaults' = registryFaults + 1
  /\ cached' = row /\ client' = NoKey /\ oneShot' = NoKey /\ nonceUntil' = 0
  /\ change' = [c \in Changes |-> IF change[c].at \in {"written", "loaded", "failed"}
                                  THEN [NewChange EXCEPT !.at = "lost", !.wrote = change[c].wrote]
                                  ELSE change[c]]
  /\ outOfOrder' = FALSE
  /\ UNCHANGED <<row, tick, request, handled, settled>>

-----------------------------------------------------------------------------
(* The operator's signed request; a delivery that is refused changes nothing. *)

TickPasses ==
  /\ tick < LastTick /\ tick' = tick + 1
  /\ UNCHANGED <<row, cached, client, oneShot, change, request, nonceUntil, handled, settled, outOfOrder, registryFaults>>

\* The operator signs with its key and its own clock.
SendRequest ==
  /\ ~request.sent /\ row # Absent
  /\ \E ahead \in (-1)..MaxSkew :
       request' = [sent |-> TRUE, stamp |-> Seconds(tick) + ahead, ahead |-> ahead, key |-> row.key]
  /\ UNCHANGED <<row, cached, client, oneShot, change, tick, nonceUntil, handled, settled, outOfOrder, registryFaults>>

InSkew == Seconds(tick) - request.stamp \in (-MaxSkew)..MaxSkew
Trusted == cached.status = "active" /\ InSkew /\ request.key = cached.key
Fresh == nonceUntil <= tick

\* verifyOperatorSignature: operator, status, clock and signature before the nonce is spent.
Deliver ==
  /\ request.sent /\ handled < MaxHandled
  /\ Trusted /\ Fresh
  /\ nonceUntil' = tick + NonceTtl /\ handled' = handled + 1
  /\ UNCHANGED <<row, cached, client, oneShot, change, tick, request, settled, outOfOrder, registryFaults>>

-----------------------------------------------------------------------------
RegistryInit ==
  /\ row = Absent /\ cached = Absent /\ client = NoKey /\ oneShot = NoKey
  /\ change = [c \in Changes |-> NewChange]
  /\ tick = 0 /\ nonceUntil = 0 /\ handled = 0
  /\ request = [sent |-> FALSE, stamp |-> 0, ahead |-> 0, key |-> NoKey]
  /\ settled = 0 /\ outOfOrder = FALSE /\ registryFaults = 0

RegistryNext ==
  \/ \E c \in Changes : Write(c) \/ Load(c) \/ LoadFails(c) \/ Install(c)
  \/ ReadCredentials \/ GetClient \/ RestartRegistry
  \/ TickPasses \/ SendRequest \/ Deliver

RegistrySpec == RegistryInit /\ [][RegistryNext]_registryVars

-----------------------------------------------------------------------------
(* Properties *)

\* A rotation that wrote its key and has not been answered: it is under way, or failed.
Unfinished(c) == ShowsKey(c) /\ change[c].at \in {"written", "loaded", "failed"}

\* Once a change was answered the copy is at least as new; the wallet client signs
\* with the copy's key unless that is the key of a rotation not yet answered; and the
\* key kept for reading is the copy's unless a later rotation is not yet answered.
\* Refreshes installed in another order than they read void this.
CopyIsCurrent ==
  ~outOfOrder =>
    /\ cached.version >= settled
    /\ client # NoKey =>
         \/ client = cached.key
         \/ \E c \in Changes : Unfinished(c) /\ change[c].wrote = cached.key
    /\ oneShot # NoKey =>
         \/ oneShot = cached.key
         \/ \E c \in Changes : Unfinished(c) /\ change[c].wrote > oneShot

\* A signed request is handled at most once however often it is delivered, if the
\* process does not restart and the operator's clock is not a whole skew ahead.
HandledOnce == (registryFaults = 0 /\ request.ahead < MaxSkew) => handled <= 1

\* The registry's copy and its judgement of requests.
RegistryIsRight == CopyIsCurrent /\ HandledOnce
=============================================================================
