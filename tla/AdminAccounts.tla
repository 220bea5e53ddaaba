---------------------------- MODULE AdminAccounts ----------------------------
(***************************************************************************)
(* The administration's own accounts: rows of admins, bearer tokens that   *)
(* carry the roles read at login and outlive the row, tokens revoked in    *)
(* memory, and the audit row every route writes after its effect without   *)
(* waiting for it.                                                         *)
(***************************************************************************)
EXTENDS Integers, FiniteSets

CONSTANTS
  Admins,        \* usernames
  AdminsAtStart, \* accounts earlier processes left, administrators all
  BootAdmin,     \* the user of ADMIN_BOOTSTRAP_USER
  Passwords,     \* passwords; a row keeps the hash of one
  Requests,      \* HTTP requests, each made once, numbered as they arrive
  TokenHours,    \* life of a token: 8
  LastHour,      \* bound on time
  MaxAdminCrashes \* bound on restarts

ASSUME AdminAssumption ==
  /\ BootAdmin \in Admins /\ TokenHours \in Nat \ {0} /\ Requests \subseteq Nat
  /\ Passwords # {} /\ "none" \notin Passwords

VARIABLES
  hour,      \* time
  admin,     \* rows: [hash, isAdmin], or NoRow
  token,     \* token issued by each login request: [sub, isAdmin, expires], or NoToken
  revoked,   \* tokens signed out since the process started
  req,       \* [at, kind, actor, target, hash, isAdmin, outcome]; "failed" is a refused login
  auditing,  \* requests whose audit row is being inserted
  audited,   \* rows of admin_audit, by request
  ghost,     \* history: an account was deleted by the token of an account already gone
  adminFaults \* history: restarts and failed audit writes
adminVars == <<hour, admin, token, revoked, req, auditing, audited, ghost, adminFaults>>

NoRow == [hash |-> "none", isAdmin |-> FALSE]
NoToken == [sub |-> "none", isAdmin |-> FALSE, expires |-> 0]
NewRequest == [at |-> "new", kind |-> "none", actor |-> "none", target |-> "none",
               hash |-> "none", isAdmin |-> FALSE, outcome |-> "none"]
FirstRow == [hash |-> CHOOSE p \in Passwords : TRUE, isAdmin |-> TRUE]
Boot(rows) == IF \A a \in Admins : rows[a] = NoRow
              THEN [rows EXCEPT ![BootAdmin] = FirstRow]
              ELSE rows

Arrives(r) == req[r].at = "new" /\ \A q \in Requests : q < r => req[q].at # "new"

\* A request ends; its audit row, if it has one, is dispatched and not awaited.
End(r, outcome, writes) ==
  /\ req' = [req EXCEPT ![r] = [NewRequest EXCEPT !.at = "ended", !.outcome = outcome]]
  /\ auditing' = IF writes THEN auditing \cup {r} ELSE auditing

-----------------------------------------------------------------------------
(* POST /auth/login *)

\* The row is read, then the password compared and the login recorded, both awaited.
LoginReads(r) ==
  /\ Arrives(r)
  /\ \E a \in Admins, p \in Passwords :
       req' = [req EXCEPT ![r] = IF admin[a].hash = p
            THEN [NewRequest EXCEPT !.at = "signing", !.actor = a, !.isAdmin = admin[a].isAdmin]
            ELSE [NewRequest EXCEPT !.at = "refusing"]]
  /\ UNCHANGED <<hour, admin, token, revoked, auditing, audited, ghost, adminFaults>>

LoginRefuses(r) ==
  /\ req[r].at = "refusing" /\ End(r, "failed", TRUE)
  /\ UNCHANGED <<hour, admin, token, revoked, audited, ghost, adminFaults>>

\* The token carries the roles of the row that was read.
LoginSigns(r) ==
  /\ req[r].at = "signing" /\ End(r, "ok", TRUE)
  /\ token' = [token EXCEPT ![r] = [sub |-> req[r].actor, isAdmin |-> req[r].isAdmin, expires |-> hour + TokenHours]]
  /\ UNCHANGED <<hour, admin, revoked, audited, ghost, adminFaults>>

-----------------------------------------------------------------------------
(* The routes behind the guards. *)

\* requireAdminJwt: signature, expiry and the revoked set; the account is not looked up.
Bearer(j) == token[j] # NoToken /\ hour < token[j].expires /\ j \notin revoked

\* CANNOT_DELETE_SELF
MayDeleteAnyone(actor, target) == TRUE
MayDelete(actor, target) == actor # target

Logout(r) ==
  /\ Arrives(r)
  /\ \E j \in Requests : Bearer(j) /\ revoked' = revoked \cup {j}
  /\ End(r, "ok", TRUE)
  /\ UNCHANGED <<hour, admin, token, audited, ghost, adminFaults>>

\* The guards pass and the body is taken; a password is hashed before the statement.
BeginChange(r) ==
  /\ Arrives(r)
  /\ \E j \in Requests, a \in Admins, kind \in {"create", "roles", "password", "delete"}, p \in Passwords, isAdmin \in BOOLEAN :
       /\ Bearer(j) /\ token[j].isAdmin
       /\ kind = "delete" => MayDelete(token[j].sub, a)
       /\ req' = [req EXCEPT ![r] = [NewRequest EXCEPT !.at = "changing", !.kind = kind, !.actor = token[j].sub, !.target = a,
            !.hash = IF kind \in {"create", "password"} THEN p ELSE "none", !.isAdmin = (kind \in {"create", "roles"} /\ isAdmin)]]
  /\ UNCHANGED <<hour, admin, token, revoked, auditing, audited, ghost, adminFaults>>

\* DUPLICATE_ADMIN, ADMIN_NOT_FOUND
Possible(r) == (req[r].kind = "create") = (admin[req[r].target] = NoRow)

AuditsChange(r) == Possible(r)

RowAfter(r) ==
  LET old == admin[req[r].target] IN
  CASE req[r].kind = "create"   -> [hash |-> req[r].hash, isAdmin |-> req[r].isAdmin]
    [] req[r].kind = "roles"    -> [old EXCEPT !.isAdmin = req[r].isAdmin]
    [] req[r].kind = "password" -> [old EXCEPT !.hash = req[r].hash]
    [] OTHER                    -> NoRow

Change(r) ==
  /\ req[r].at = "changing"
  /\ admin' = IF Possible(r) THEN [admin EXCEPT ![req[r].target] = RowAfter(r)] ELSE admin
  /\ ghost' = (ghost \/ (Possible(r) /\ req[r].kind = "delete" /\ admin[req[r].actor] = NoRow))
  /\ IF Possible(r) /\ req[r].kind \in {"roles", "password"}
     THEN req' = [req EXCEPT ![r].at = "reading"] /\ UNCHANGED auditing
     ELSE End(r, IF Possible(r) THEN "ok" ELSE "refused", AuditsChange(r))
  /\ UNCHANGED <<hour, token, revoked, audited, adminFaults>>

\* update() reads the row back for the answer; if it was deleted meanwhile the route
\* throws: 500, and the change is not audited.
ReadBack(r) ==
  /\ req[r].at = "reading"
  /\ IF admin[req[r].target] # NoRow THEN End(r, "ok", TRUE) ELSE End(r, "broken", FALSE)
  /\ UNCHANGED <<hour, admin, token, revoked, audited, ghost, adminFaults>>

-----------------------------------------------------------------------------
(* The audit insert, time, and restarts. *)

AuditLands(r) ==
  /\ r \in auditing /\ auditing' = auditing \ {r} /\ audited' = audited \cup {r}
  /\ UNCHANGED <<hour, admin, token, revoked, req, ghost, adminFaults>>

\* A failed insert is only logged.
AuditFails(r) ==
  /\ r \in auditing /\ adminFaults < MaxAdminCrashes
  /\ auditing' = auditing \ {r} /\ adminFaults' = adminFaults + 1
  /\ UNCHANGED <<hour, admin, token, revoked, req, audited, ghost>>

HourPasses ==
  /\ hour < LastHour /\ hour' = hour + 1
  /\ UNCHANGED <<admin, token, revoked, req, auditing, audited, ghost, adminFaults>>

\* Tokens are signed, so they outlive the process; the revoked set does not. With no
\* account left the first administrator is created again.
RestartAdmin ==
  /\ adminFaults < MaxAdminCrashes /\ adminFaults' = adminFaults + 1
  /\ admin' = Boot(admin) /\ revoked' = {} /\ auditing' = {}
  /\ req' = [r \in Requests |-> IF req[r].at \in {"new", "ended"} THEN req[r] ELSE [req[r] EXCEPT !.at = "ended", !.outcome = "lost"]]
  /\ UNCHANGED <<hour, token, audited, ghost>>

-----------------------------------------------------------------------------
AdminInit ==
  /\ hour = 0 /\ admin = Boot([a \in Admins |-> IF a \in AdminsAtStart THEN FirstRow ELSE NoRow])
  /\ token = [r \in Requests |-> NoToken] /\ revoked = {}
  /\ req = [r \in Requests |-> NewRequest]
  /\ auditing = {} /\ audited = {} /\ ghost = FALSE /\ adminFaults = 0

AdminNext ==
  \/ \E r \in Requests : LoginReads(r) \/ LoginRefuses(r) \/ LoginSigns(r) \/ Logout(r)
                         \/ BeginChange(r) \/ Change(r) \/ ReadBack(r) \/ AuditLands(r) \/ AuditFails(r)
  \/ HourPasses \/ RestartAdmin

AdminSpec == AdminInit /\ [][AdminNext]_adminVars

-----------------------------------------------------------------------------
(* Properties *)

\* Nobody can delete the last account: as long as every deletion was made by an
\* account that still existed, some account is left. Two administrators who delete
\* each other at once are the case the condition excludes.
SomeoneRemains == ghost \/ \E a \in Admins : admin[a] # NoRow

\* The audit trail says only what happened, and unless the process died or an insert
\* failed it says all of it once the inserts have landed.
AuditIsTrue ==
  /\ \A r \in audited : req[r].outcome \in {"ok", "failed"}
  /\ (adminFaults = 0 /\ auditing = {}) => \A r \in Requests : req[r].outcome \in {"ok", "failed"} => r \in audited

\* What the administration may rely on about its own accounts.
AdminsAreAccountable == SomeoneRemains /\ AuditIsTrue
=============================================================================
