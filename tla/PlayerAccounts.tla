---------------------------- MODULE PlayerAccounts ----------------------------
(***************************************************************************)
(* The account of one phone number: sign-up, sign-in, passwords, exclusion, *)
(* deactivation, and the one-time codes that prove the phone.  Each handler *)
(* awaits the database several times, so requests of the same account       *)
(* interleave between the row they read and the row they write.             *)
(***************************************************************************)
EXTENDS Integers, Sequences, SequencesExt, FiniteSets

CONSTANTS
  Conns,        \* requests handled at the same time
  Passwords,
  OtherRoute,   \* in place of a password: a token not of /login
  MaxAttempts,  \* wrong guesses a code allows
  MaxCodes,     \* bound: codes issued
  MaxVersion    \* bound: token versions

ASSUME PlayerAccountsAssumption ==
  /\ IsFiniteSet(Conns) /\ Passwords # {} /\ OtherRoute \notin Passwords
  /\ MaxAttempts \in Nat \ {0} /\ MaxCodes \in Nat /\ MaxVersion \in Nat

VARIABLES
  acct,     \* the players row; ver is token_version
  codes,    \* otp_codes rows, oldest first; oks counts the requests a row let pass
  at,       \* where each request is
  seen,     \* the account as the request read it, while it uses it
  pw,       \* the password in its body
  kind,     \* the purpose of the code it sends or checks
  row,      \* the code it checks
  tokens,   \* player JWTs of the current version: the password /login was given, or OtherRoute
  proofs    \* otp-proof JWTs of the current version: their purpose

reqVars     == <<at, seen, pw, kind, row>>
accountVars == <<acct, codes, reqVars, tokens, proofs>>

Purposes == {"register", "reset", "deactivate", "reactivate"}

-----------------------------------------------------------------------------
(* Faulty variants of helpers below. *)

\* Consumed without looking whether somebody else did.
ConsumeBlindly(r) == TRUE

\* replaceUnverifiedPassword forgets "AND phone_verified_at IS NULL".
ReplaceAnyPassword(w) == acct' = [acct EXCEPT !.pw = w]

-----------------------------------------------------------------------------
(* Helpers. *)

\* accountBlock (accounts-repo.ts).
Blocked(a) == ~a.active \/ a.excluded

SomePassword == CHOOSE w \in Passwords : TRUE
NoAccount == [made |-> FALSE, pw |-> SomePassword, verified |-> FALSE, active |-> TRUE,
              excluded |-> FALSE, ver |-> 0]

Continue(c, s) == at' = [at EXCEPT ![c] = s]
\* The handler goes on at s and no longer uses what it had read.
Continues(c, s) ==
  /\ Continue(c, s) /\ seen' = [seen EXCEPT ![c] = NoAccount]
  /\ pw' = [pw EXCEPT ![c] = SomePassword] /\ row' = [row EXCEPT ![c] = 0]
  /\ UNCHANGED kind

\* The response is sent; what the handler had read is gone.
Ends(c) ==
  /\ Continue(c, "idle") /\ seen' = [seen EXCEPT ![c] = NoAccount]
  /\ pw' = [pw EXCEPT ![c] = SomePassword] /\ row' = [row EXCEPT ![c] = 0]
  /\ kind' = [kind EXCEPT ![c] = "register"]

\* A new request goes on at s with what it has read and keeps.
Begins(c, s, a, w, k) ==
  /\ at[c] = "idle" /\ Continue(c, s) /\ seen' = [seen EXCEPT ![c] = a]
  /\ pw' = [pw EXCEPT ![c] = w] /\ kind' = [kind EXCEPT ![c] = k] /\ UNCHANGED row

\* A token or proof is compared with the account's version (requirePlayerJwt,
\* readProof); versions only grow, so one that is behind is of no use any more.
Sign(v, w) == tokens' = IF v = acct.ver THEN tokens \cup {w} ELSE tokens

\* requirePlayerJwt: some token passes the gate now.
SignedIn == ~Blocked(acct) /\ tokens # {}

RowsFor(k) == {i \in DOMAIN codes : codes[i].for = k /\ ~codes[i].deleted}
Latest(k) == CHOOSE i \in RowsFor(k) : \A j \in RowsFor(k) : j <= i

\* bump: the update, a new version, and every token and proof so far is behind.
Bump(a) ==
  /\ acct.ver < MaxVersion /\ acct' = [a EXCEPT !.ver = @ + 1]
  /\ tokens' = {} /\ proofs' = {}

-----------------------------------------------------------------------------
(* Requests begin with what they read (router.ts, lobby.ts). *)

Register(c, w) ==
  /\ ~(acct.made /\ acct.verified)
  /\ Begins(c, "save", [NoAccount EXCEPT !.made = acct.made], w, "register")
  /\ UNCHANGED <<acct, codes, tokens, proofs>>

\* findByPhone and bcrypt.compare succeed; what follows uses the row read.
Login(c) ==
  /\ acct.made
  /\ IF ~acct.verified THEN Begins(c, "cooldown", NoAccount, SomePassword, "register")
     ELSE ~Blocked(acct) /\ Begins(c, "sign", [NoAccount EXCEPT !.ver = acct.ver], acct.pw, "register")
  /\ UNCHANGED <<acct, codes, tokens, proofs>>

\* The lobby's login reads the hash first and the account after the comparison.
LobbyLogin(c) ==
  /\ acct.made /\ Begins(c, "lobby", NoAccount, SomePassword, "register")
  /\ UNCHANGED <<acct, codes, tokens, proofs>>

\* /otp/resend, /password/forgot, /reactivate/request, /deactivate/request.
Eligible(k) ==
  /\ acct.made
  /\ CASE k = "register"   -> ~acct.verified
       [] k = "reset"      -> acct.active
       [] k = "reactivate" -> ~acct.active
       [] k = "deactivate" -> SignedIn

RequestCode(c, k) ==
  /\ Eligible(k) /\ Begins(c, "cooldown", NoAccount, SomePassword, k)
  /\ UNCHANGED <<acct, codes, tokens, proofs>>

\* The four routes that check a code.
SubmitCode(c, k) ==
  /\ acct.made /\ (k = "deactivate" => SignedIn)
  /\ Begins(c, "check", [NoAccount EXCEPT !.ver = acct.ver], SomePassword, k)
  /\ UNCHANGED <<acct, codes, tokens, proofs>>

\* /password/reset and /reactivate/complete: the proof is of this version.
UseProof(c, w) ==
  /\ \E p \in proofs : Begins(c, p, NoAccount, w, p)
  /\ UNCHANGED <<acct, codes, tokens, proofs>>

\* PUT /password, past the gate and the comparison with the old password.
ChangePassword(c, w) ==
  /\ SignedIn /\ Begins(c, "change", NoAccount, w, "reset")
  /\ UNCHANGED <<acct, codes, tokens, proofs>>

\* POST /self-exclusion, past the gate.
SelfExclude(c) ==
  /\ SignedIn /\ Begins(c, "exclude", [NoAccount EXCEPT !.excluded = acct.excluded], SomePassword, "reset")
  /\ UNCHANGED <<acct, codes, tokens, proofs>>

-----------------------------------------------------------------------------
(* Writes of the account (accounts-repo.ts). *)

ReplaceUnverified(w) == acct' = IF acct.verified THEN acct ELSE [acct EXCEPT !.pw = w]

\* replaceUnverifiedPassword, or createPhoneAccount, which finds the number taken.
SaveRegistration(c) ==
  /\ at[c] = "save"
  /\ CASE seen[c].made -> ReplaceUnverified(pw[c]) /\ Continues(c, "cooldown")
       [] ~seen[c].made /\ acct.made -> Ends(c) /\ UNCHANGED acct
       [] ~seen[c].made /\ ~acct.made ->
            acct' = [acct EXCEPT !.made = TRUE, !.pw = pw[c]] /\ Continues(c, "cooldown")
  /\ UNCHANGED <<codes, tokens, proofs>>

\* setPassword; a reset then marks the phone verified, a change does not.
SetPassword(c) ==
  /\ at[c] \in {"reset", "change"}
  /\ Bump([acct EXCEPT !.pw = pw[c]])
  /\ Continues(c, IF at[c] = "reset" THEN "mark" ELSE "fresh")
  /\ UNCHANGED codes

\* markPhoneVerified.
MarkVerified(c) ==
  /\ at[c] = "mark" /\ acct' = [acct EXCEPT !.verified = TRUE]
  /\ Continues(c, IF kind[c] = "reset" THEN "unblocked" ELSE "fresh")
  /\ UNCHANGED <<codes, tokens, proofs>>

Exclude(c) ==
  /\ at[c] = "exclude"
  /\ Bump([acct EXCEPT !.excluded = TRUE])
  /\ Ends(c) /\ UNCHANGED codes

Deactivate(c) ==
  /\ at[c] = "deactivate"
  /\ Bump([acct EXCEPT !.active = FALSE])
  /\ Ends(c) /\ UNCHANGED codes

Reactivate(c) ==
  /\ at[c] = "reactivate"
  /\ Bump([acct EXCEPT !.active = TRUE, !.pw = pw[c], !.verified = TRUE])
  /\ Continues(c, "unblocked")
  /\ UNCHANGED codes

-----------------------------------------------------------------------------
(* Tokens. *)

VersionRead(c) == seen[c].ver

\* signedIn(res, acct) of /login: version and password hash come from one row.
SignLogin(c) ==
  /\ at[c] = "sign" /\ Sign(VersionRead(c), pw[c])
  /\ Ends(c) /\ UNCHANGED <<acct, codes, proofs>>

\* getById and signedIn at the end of the other routes; reset, reactivation and
\* the lobby's login look at accountBlock first.
SignFresh(c) ==
  /\ at[c] \in {"fresh", "unblocked", "lobby"}
  /\ IF at[c] # "fresh" /\ Blocked(acct) THEN UNCHANGED tokens
     ELSE Sign(acct.ver, OtherRoute)
  /\ Ends(c) /\ UNCHANGED <<acct, codes, proofs>>

-----------------------------------------------------------------------------
(* One-time codes (otp.ts). *)

\* issue: the last code of the purpose is young, or a new one is stored.
Young(i) == codes[i].age = 0
CheckCooldown(c) ==
  LET young == RowsFor(kind[c]) # {} /\ Young(Latest(kind[c])) IN
  /\ at[c] = "cooldown" /\ (young \/ Len(codes) < MaxCodes)
  /\ IF young THEN Ends(c) ELSE Continues(c, "store")
  /\ UNCHANGED <<acct, codes, tokens, proofs>>

StoreCode(c) ==
  /\ at[c] = "store" /\ Len(codes) < MaxCodes
  /\ codes' = Append(codes, [for |-> kind[c], attempts |-> 0, age |-> 0, oks |-> 0, deleted |-> FALSE])
  /\ Continue(c, "sms") /\ row' = [row EXCEPT ![c] = Len(codes) + 1]
  /\ UNCHANGED <<acct, seen, pw, kind, tokens, proofs>>

\* send: accepted within its attempts, or given up and the row deleted.
SendSms(c, accepted) ==
  /\ at[c] = "sms"
  /\ codes' = IF accepted THEN codes ELSE [codes EXCEPT ![row[c]].deleted = TRUE]
  /\ Ends(c) /\ UNCHANGED <<acct, tokens, proofs>>

OutOfAttempts(r) == codes[r].attempts >= MaxAttempts

\* verify, first half: the latest row, neither consumed nor expired.
ReadCode(c) ==
  LET r == Latest(kind[c]) IN
  /\ at[c] = "check"
  /\ IF RowsFor(kind[c]) # {} /\ codes[r].oks = 0 /\ codes[r].age < 2 /\ ~OutOfAttempts(r)
     THEN Continue(c, "compare") /\ row' = [row EXCEPT ![c] = r] /\ UNCHANGED <<seen, pw, kind>>
     ELSE Ends(c)
  /\ UNCHANGED <<acct, codes, tokens, proofs>>

WrongCode(c) ==
  /\ at[c] = "compare"
  /\ codes' = [codes EXCEPT ![row[c]].attempts = @ + 1]
  /\ Ends(c) /\ UNCHANGED <<acct, tokens, proofs>>

\* UPDATE ... WHERE consumed_at IS NULL: rowCount is 1 for one request only.
Consumes(r) == codes[r].oks = 0

\* What a proven phone is good for: a proof, or the next write.
AfterCode(c) ==
  IF kind[c] \in {"reset", "reactivate"}
  THEN Ends(c) /\ proofs' = IF seen[c].ver = acct.ver THEN proofs \cup {kind[c]} ELSE proofs
  ELSE Continues(c, IF kind[c] = "register" THEN "mark" ELSE "deactivate") /\ UNCHANGED proofs

RightCode(c) ==
  /\ at[c] = "compare"
  /\ IF ~codes[row[c]].deleted /\ Consumes(row[c])
     THEN AfterCode(c) /\ codes' = [codes EXCEPT ![row[c]].oks = @ + 1]
     ELSE Ends(c) /\ UNCHANGED <<proofs, codes>>
  /\ UNCHANGED <<acct, tokens>>

\* Sixty seconds, then ten minutes go by.
CodeAges(i) ==
  /\ codes[i].age < 2 /\ codes' = [codes EXCEPT ![i].age = @ + 1]
  /\ UNCHANGED <<acct, reqVars, tokens, proofs>>

ExclusionEnds ==
  /\ acct.excluded /\ acct' = [acct EXCEPT !.excluded = FALSE]
  /\ UNCHANGED <<codes, reqVars, tokens, proofs>>

-----------------------------------------------------------------------------
\* Registered and verified long ago.
OldAccount == [NoAccount EXCEPT !.made = TRUE, !.verified = TRUE]

AccountInit ==
  /\ acct \in {NoAccount} \cup {[OldAccount EXCEPT !.active = a] : a \in BOOLEAN}
  /\ codes = <<>>
  /\ at = [c \in Conns |-> "idle"] /\ seen = [c \in Conns |-> NoAccount]
  /\ pw = [c \in Conns |-> SomePassword] /\ kind = [c \in Conns |-> "register"]
  /\ row = [c \in Conns |-> 0] /\ tokens = {} /\ proofs = {}

Request(c) ==
  \/ Login(c) \/ LobbyLogin(c) \/ SelfExclude(c)
  \/ \E k \in Purposes : RequestCode(c, k) \/ SubmitCode(c, k)
  \/ \E w \in Passwords : Register(c, w) \/ UseProof(c, w) \/ ChangePassword(c, w)

Handling(c) ==
  \/ SaveRegistration(c) \/ SetPassword(c) \/ MarkVerified(c) \/ Exclude(c)
  \/ Deactivate(c) \/ Reactivate(c) \/ SignLogin(c) \/ SignFresh(c)
  \/ CheckCooldown(c) \/ StoreCode(c) \/ (\E ok \in BOOLEAN : SendSms(c, ok))
  \/ ReadCode(c) \/ WrongCode(c) \/ RightCode(c)

AccountNext ==
  \/ \E c \in Conns : Request(c) \/ Handling(c)
  \/ \E i \in DOMAIN codes : CodeAges(i)
  \/ ExclusionEnds

AccountSpec == AccountInit /\ [][AccountNext]_accountVars

-----------------------------------------------------------------------------
(* Properties. *)

AccountRows == [made : BOOLEAN, pw : Passwords, verified : BOOLEAN, active : BOOLEAN,
             excluded : BOOLEAN, ver : Nat]

\* Every variable keeps its type.
AccountTypeOK ==
  /\ acct \in AccountRows /\ seen \in [Conns -> AccountRows]
  /\ Len(codes) <= MaxCodes
  /\ \A i \in DOMAIN codes : codes[i].for \in Purposes /\ codes[i].attempts \in Nat
  /\ pw \in [Conns -> Passwords] /\ kind \in [Conns -> Purposes]
  /\ row \in [Conns -> 0..MaxCodes]
  /\ tokens \subseteq Passwords \cup {OtherRoute} /\ proofs \subseteq Purposes

\* One code proves the phone once, whoever submits it at the same time (verify).
CodeAcceptedOnce == \A i \in DOMAIN codes : codes[i].oks <= 1

\* Wrong guesses at one code stop at the limit, but for the requests that had
\* read the row before it was reached (verify reads, compares and then counts).
GuessesBounded ==
  \A i \in DOMAIN codes : codes[i].attempts <= MaxAttempts - 1 + Cardinality(Conns)

\* A login overtaken by a password change ends with a token the gate refuses: a
\* token of /login that passes was given for the password the account has.
OldPasswordSignsNobodyIn == tokens \subseteq {acct.pw, OtherRoute}

\* The player's credentials: codes are used once and guessed seldom, and only the
\* password in force signs in.
CredentialsAreSafe == CodeAcceptedOnce /\ GuessesBounded /\ OldPasswordSignsNobodyIn

\* The password of a verified account changes only together with its token
\* version, never by a registration that read the row unverified; and a running
\* exclusion is overwritten only by requests past the gate before it began, so
\* nobody who signs in later can shorten it (replaceUnverifiedPassword, selfExclude).
ReplacedWithVersion == acct.verified /\ acct'.pw # acct.pw => acct'.ver > acct.ver
ExclusionKept == \A c \in Conns : acct.excluded /\ Exclude(c) => ~seen[c].excluded
AccountStepsAreSafe == [][ReplacedWithVersion /\ ExclusionKept]_accountVars
=============================================================================
