---------------------------- MODULE AccountProofs ----------------------------
(***************************************************************************)
(* What a player is told, and may do.                                      *)
(* Safety of PlayerAccounts for every set of requests and passwords and    *)
(* every limit of attempts.  What a request may rely on between the row it *)
(* read and the row it writes: a login that has not signed yet holds the   *)
(* password of the version it read, and versions never come back; a code   *)
(* is compared by requests that each read it below the limit.              *)
(* Safety of GameTab for every number of panels, rounds and frames: what   *)
(* the tab would show once all that is under way had reached it.           *)
(***************************************************************************)
EXTENDS PlayerAccounts, GameTab, FiniteSetTheorems, SequenceTheorems, WellFoundedInduction, TLAPS

Steps == {"idle", "save", "cooldown", "sign", "lobby", "check", "reset", "reactivate", "change", "exclude", "mark",
          "fresh", "unblocked", "deactivate", "store", "sms", "compare"}
CodeRows == [for : Purposes, attempts : Nat, age : Nat, oks : Nat, deleted : BOOLEAN]

AccountTypes ==
  /\ acct \in AccountRows /\ seen \in [Conns -> AccountRows]
  /\ codes \in Seq(CodeRows) /\ Len(codes) <= MaxCodes
  /\ at \in [Conns -> Steps] /\ pw \in [Conns -> Passwords] /\ kind \in [Conns -> Purposes]
  /\ row \in [Conns -> 0..MaxCodes]
  /\ proofs \subseteq {"reset", "reactivate"}

\* Only a sign-up serves a number without an account; the rest begins with its row.
MadeInv ==
  /\ acct.verified \/ tokens # {} \/ proofs # {} => acct.made
  /\ \A c \in Conns : at[c] \notin {"idle", "save"} => acct.made
  /\ \A c \in Conns : at[c] = "save" /\ seen[c].made => acct.made

\* The requests that compare a guess with code i.
Comparing(i) == {c \in Conns : at[c] = "compare" /\ row[c] = i}
CodesInv ==
  /\ \A c \in Conns : at[c] \in {"compare", "sms"} => row[c] \in DOMAIN codes
  /\ \A i \in DOMAIN codes : codes[i].oks <= 1
  /\ \A i \in DOMAIN codes : codes[i].attempts + Cardinality(Comparing(i)) <= MaxAttempts - 1 + Cardinality(Conns)

\* A login about to sign holds the password of the version it read.
SignInv ==
  /\ tokens \subseteq {acct.pw, OtherRoute}
  /\ tokens \subseteq {OtherRoute} \/ acct.verified
  /\ \A c \in Conns : at[c] = "sign" =>
       acct.verified /\ seen[c].ver <= acct.ver /\ (seen[c].ver = acct.ver => pw[c] = acct.pw)

\* An exclusion is written by a request that passed the gate with none in force.
GateInv == \A c \in Conns : at[c] = "exclude" => ~seen[c].excluded

AccountInv == AccountTypes /\ MadeInv /\ CodesInv /\ SignInv /\ GateInv

-----------------------------------------------------------------------------
\* A non-empty set of positions has a last one.
LEMMA LastPosition ==
  ASSUME NEW n \in Nat, NEW S \in SUBSET (1..n), S # {}
  PROVE  \E m \in S : \A j \in S : j <= m
  <1> DEFINE T == {n - i : i \in S}
  <1>1. T \subseteq Nat /\ T # {}
    <2>1. \A i \in S : n - i \in Nat OBVIOUS
    <2> QED BY <2>1
  <1>2. PICK x \in T : \A y \in T : ~(<<y, x>> \in OpToRel(<, Nat)) BY <1>1, WFMin, NatLessThanWellFounded
  <1>3. \A y \in T : ~(y < x) BY <1>1, <1>2 DEF OpToRel
  <1>4. PICK m \in S : x = n - m OBVIOUS
  <1>5. \A j \in S : ~(n - j < n - m) BY <1>3, <1>4
  <1> QED BY <1>5

LEMMA FreshAccount == NoAccount \in AccountRows /\ SomePassword \in Passwords
  BY PlayerAccountsAssumption DEF PlayerAccountsAssumption, NoAccount, AccountRows, SomePassword

LEMMA LatestCode ==
  ASSUME AccountTypes, NEW k, RowsFor(k) # {}
  PROVE  Latest(k) \in DOMAIN codes
  <1>1. Len(codes) \in Nat /\ DOMAIN codes = 1..Len(codes) BY DEF AccountTypes
  <1>2. RowsFor(k) \in SUBSET (1..Len(codes)) BY <1>1 DEF RowsFor
  <1>3. \E i \in RowsFor(k) : \A j \in RowsFor(k) : j <= i BY <1>1, <1>2, LastPosition
  <1> QED BY <1>1, <1>2, <1>3 DEF Latest

LEMMA InitAccount == AccountInit => AccountInv
  <1> SUFFICES ASSUME AccountInit PROVE AccountInv OBVIOUS
  <1> USE PlayerAccountsAssumption, FreshAccount DEF PlayerAccountsAssumption, AccountInit
  <1>1. acct \in AccountRows BY ZenonT(60) DEF OldAccount, NoAccount, AccountRows
  <1>2. acct.verified => acct.made
    <2>1. CASE acct = NoAccount BY <2>1 DEF NoAccount
    <2>2. ASSUME NEW a \in BOOLEAN, acct = [OldAccount EXCEPT !.active = a] PROVE acct.made
      BY <2>2 DEF OldAccount, NoAccount
    <2> QED BY <2>1, <2>2
  <1>3. AccountTypes BY <1>1 DEF AccountTypes, Steps, Purposes
  <1>4. MadeInv /\ GateInv /\ SignInv BY <1>2 DEF MadeInv, GateInv, SignInv
  <1>5. CodesInv BY DEF CodesInv
  <1> QED BY <1>3, <1>4, <1>5 DEF AccountInv

-----------------------------------------------------------------------------
(* Steps of a request. *)

LEMMA ComparingIsFinite ==
  \A i : Comparing(i) \subseteq Conns /\ IsFiniteSet(Comparing(i)) /\ Cardinality(Comparing(i)) \in Nat
        /\ Cardinality(Comparing(i)) <= Cardinality(Conns) /\ Cardinality(Conns) \in Nat
  <1> USE PlayerAccountsAssumption DEF PlayerAccountsAssumption
  <1> TAKE i
  <1>1. Comparing(i) \in SUBSET Conns BY DEF Comparing
  <1> QED BY <1>1, FS_Subset, FS_CardinalityType

\* The row q that a step of c writes over the row r counts at most c's own guess.
Counts(i, c, r, q) ==
  IF c \in Comparing(i) THEN q.attempts <= r.attempts + 1 ELSE q.attempts <= r.attempts

\* A request that does not go on to compare leaves the codes' bound in place; the
\* one that had compared may count its guess.
LEMMA CodesStep ==
  ASSUME AccountInv, NEW c \in Conns, at'[c] \notin {"compare", "sms"},
         \A e \in Conns \ {c} : at'[e] = at[e] /\ row'[e] = row[e],
         codes' \in Seq(CodeRows), Len(codes') = Len(codes),
         \A i \in 1..Len(codes) : codes'[i].oks <= 1 /\ Counts(i, c, codes[i], codes'[i])
  PROVE  CodesInv'
  <1>1. codes \in Seq(CodeRows) BY DEF AccountInv, AccountTypes
  <1>2. Len(codes) \in Nat /\ DOMAIN codes = 1..Len(codes) /\ DOMAIN codes' = 1..Len(codes)
    BY <1>1, LenProperties
  <1>3. \A e \in Conns : at'[e] \in {"compare", "sms"} => row'[e] \in DOMAIN codes'
    BY <1>2 DEF AccountInv, CodesInv
  <1>4. \A i \in DOMAIN codes' : codes'[i].oks <= 1 BY <1>2
  <1>5. \A i \in DOMAIN codes' : codes'[i].attempts + Cardinality(Comparing(i)') <= MaxAttempts - 1 + Cardinality(Conns)
    <2> SUFFICES ASSUME NEW i \in 1..Len(codes)
                 PROVE  codes'[i].attempts + Cardinality(Comparing(i)') <= MaxAttempts - 1 + Cardinality(Conns)
      BY <1>2
    <2>1. codes[i].attempts + Cardinality(Comparing(i)) <= MaxAttempts - 1 + Cardinality(Conns)
      BY <1>2 DEF AccountInv, CodesInv
    <2>2. codes[i] \in CodeRows /\ codes'[i] \in CodeRows BY <1>1, <1>2, LenProperties
    <2>3. codes[i].attempts \in Nat /\ codes'[i].attempts \in Nat BY <2>2 DEF CodeRows
    <2>4. MaxAttempts \in Nat BY PlayerAccountsAssumption DEF PlayerAccountsAssumption
    <2>5. Comparing(i)' \in SUBSET (Comparing(i) \ {c}) BY DEF Comparing
    <2>6. IsFiniteSet(Comparing(i)) /\ Cardinality(Comparing(i)) \in Nat /\ Cardinality(Conns) \in Nat
      BY ComparingIsFinite
    <2>7. /\ IsFiniteSet(Comparing(i) \ {c})
          /\ c \in Comparing(i) => Cardinality(Comparing(i) \ {c}) = Cardinality(Comparing(i)) - 1
          /\ c \notin Comparing(i) => Cardinality(Comparing(i) \ {c}) = Cardinality(Comparing(i))
      BY <2>6, FS_RemoveElement
    <2>8. IsFiniteSet(Comparing(i)') /\ Cardinality(Comparing(i)') <= Cardinality(Comparing(i) \ {c})
      BY <2>5, <2>7, FS_Subset
    <2>9. Cardinality(Comparing(i)') \in Nat BY <2>8, FS_CardinalityType
    <2>10. Counts(i, c, codes[i], codes'[i]) OBVIOUS
    <2> DEFINE before == codes[i].attempts
               after == codes'[i].attempts
               comparing == Cardinality(Comparing(i))
               others == Cardinality(Comparing(i) \ {c})
               left == Cardinality(Comparing(i)')
               most == MaxAttempts - 1 + Cardinality(Conns)
    <2>11. before \in Nat /\ after \in Nat /\ comparing \in Nat /\ left \in Nat /\ most \in Int BY <2>3, <2>4, <2>6, <2>9
    <2>12. before + comparing <= most /\ left <= others BY <2>1, <2>8
    <2>13. \/ after <= before + 1 /\ others = comparing - 1
           \/ after <= before /\ others = comparing
      BY <2>7, <2>10 DEF Counts
    <2> HIDE DEF before, after, comparing, others, left, most
    <2>14. after + left <= most BY <2>11, <2>12, <2>13
    <2> QED BY <2>14 DEF after, left, most
  <1> QED BY <1>3, <1>4, <1>5 DEF CodesInv

\* ... and one that leaves the codes alone.
LEMMA CodesKept ==
  ASSUME AccountInv, NEW c \in Conns, NEW s \in Steps \ {"compare", "sms"}, at' = [at EXCEPT ![c] = s],
         \A e \in Conns \ {c} : row'[e] = row[e], UNCHANGED codes
  PROVE  CodesInv'
  <1>1. codes' \in Seq(CodeRows) BY DEF AccountInv, AccountTypes
  <1>2. at'[c] \notin {"compare", "sms"} /\ \A e \in Conns \ {c} : at'[e] = at[e]
    BY DEF AccountInv, AccountTypes
  <1>3. \A i \in 1..Len(codes) : codes[i].attempts \in Nat /\ codes[i].oks <= 1
    <2> TAKE i \in 1..Len(codes)
    <2>1. codes \in Seq(CodeRows) BY DEF AccountInv, AccountTypes
    <2>2. codes[i] \in CodeRows /\ i \in DOMAIN codes BY <2>1, LenProperties
    <2> QED BY <2>2 DEF CodeRows, AccountInv, CodesInv
  <1> QED BY <1>1, <1>2, <1>3, CodesStep DEF Counts

\* A new request.
LEMMA BeginsStep ==
  ASSUME AccountInv, NEW c \in Conns, NEW s \in Steps \ {"compare", "sms"}, NEW a \in AccountRows,
         NEW w \in Passwords, NEW k \in Purposes, Begins(c, s, a, w, k), UNCHANGED <<acct, codes, tokens, proofs>>,
         (s = "save" /\ ~a.made) \/ acct.made, s = "exclude" => ~a.excluded,
         s = "sign" => acct.verified /\ a.ver = acct.ver /\ w = acct.pw
  PROVE  AccountInv'
  <1> USE DEF AccountInv
  <1>1. /\ at' = [at EXCEPT ![c] = s] /\ seen' = [seen EXCEPT ![c] = a]
        /\ pw' = [pw EXCEPT ![c] = w] /\ kind' = [kind EXCEPT ![c] = k] /\ row' = row
    BY DEF Begins, Continue
  <1>2. AccountTypes' BY <1>1 DEF AccountTypes
  <1>3. MadeInv'
    <2>1. \A e \in Conns : at'[e] \notin {"idle", "save"} => acct.made
      <3> SUFFICES ASSUME NEW e \in Conns, at'[e] \notin {"idle", "save"} PROVE acct.made OBVIOUS
      <3>1. CASE e = c BY <1>1, <3>1 DEF AccountTypes
      <3>2. CASE e # c BY <1>1, <3>2 DEF MadeInv, AccountTypes
      <3> QED BY <3>1, <3>2
    <2>2. \A e \in Conns : at'[e] = "save" /\ seen'[e].made => acct.made
      <3> SUFFICES ASSUME NEW e \in Conns, at'[e] = "save", seen'[e].made PROVE acct.made OBVIOUS
      <3>1. CASE e = c BY <1>1, <3>1 DEF AccountTypes
      <3>2. CASE e # c BY <1>1, <3>2 DEF MadeInv, AccountTypes
      <3> QED BY <3>1, <3>2
    <2> QED BY <2>1, <2>2 DEF MadeInv
  <1>4. CodesInv' BY <1>1, CodesKept DEF AccountTypes
  <1>5. acct.ver \in Nat BY DEF AccountTypes, AccountRows
  <1>6. SignInv' BY <1>1, <1>5 DEF SignInv, AccountTypes
  <1>7. GateInv' BY <1>1 DEF GateInv, AccountTypes
  <1> QED BY <1>2, <1>3, <1>4, <1>6, <1>7

\* What a step of the account must respect: it is made and verified once, and the
\* password of a verified account changes only with its version.
Respects(tokensAfter, proofsAfter, after) ==
  /\ after \in AccountRows
  /\ acct.made => after.made
  /\ acct.verified => after.verified
  /\ after.verified => after.made
  /\ after.ver >= acct.ver
  /\ acct.verified /\ after.pw # acct.pw => after.ver > acct.ver
  /\ tokensAfter \subseteq {after.pw, OtherRoute} /\ (tokensAfter \subseteq {OtherRoute} \/ after.verified)
  /\ proofsAfter \subseteq {"reset", "reactivate"} /\ (tokensAfter # {} \/ proofsAfter # {} => after.made)

\* A request that goes on to another step, or ends.
LEMMA GoesOn ==
  ASSUME AccountInv, NEW c \in Conns, NEW s \in Steps \ {"compare", "sms", "sign", "exclude"},
         Continues(c, s) \/ (s = "idle" /\ Ends(c)), s = "idle" \/ acct'.made,
         Respects(tokens', proofs', acct'), codes' \in Seq(CodeRows), Len(codes') <= MaxCodes, CodesInv'
  PROVE  AccountInv'
  <1> USE FreshAccount DEF AccountInv, Respects
  <1>1. /\ at' = [at EXCEPT ![c] = s] /\ seen' = [seen EXCEPT ![c] = NoAccount]
        /\ pw' = [pw EXCEPT ![c] = SomePassword] /\ row' = [row EXCEPT ![c] = 0]
        /\ kind' = kind \/ kind' = [kind EXCEPT ![c] = "register"]
    BY DEF Continues, Ends, Continue
  <1>2. AccountTypes'
    <2>1. kind' \in [Conns -> Purposes] BY <1>1 DEF AccountTypes, Purposes
    <2>2. row' \in [Conns -> 0..MaxCodes] BY <1>1, PlayerAccountsAssumption DEF AccountTypes, PlayerAccountsAssumption
    <2> QED BY <1>1, <2>1, <2>2 DEF AccountTypes
  <1>3. MadeInv'
    <2>1. \A e \in Conns : at'[e] \notin {"idle", "save"} => acct'.made
      BY <1>1 DEF MadeInv, AccountTypes
    <2>2. \A e \in Conns : at'[e] = "save" /\ seen'[e].made => acct'.made
      <3> SUFFICES ASSUME NEW e \in Conns, at'[e] = "save", seen'[e].made PROVE acct'.made OBVIOUS
      <3>1. CASE e = c BY <1>1, <3>1 DEF AccountTypes
      <3>2. CASE e # c BY <1>1, <3>2 DEF MadeInv, AccountTypes
      <3> QED BY <3>1, <3>2
    <2> QED BY <2>1, <2>2 DEF MadeInv
  <1>4. acct.ver \in Nat /\ acct'.ver \in Nat /\ \A e \in Conns : seen[e].ver \in Nat
    BY DEF AccountTypes, AccountRows
  <1>5. SignInv'
    <2> SUFFICES ASSUME NEW e \in Conns, at'[e] = "sign"
                 PROVE  acct'.verified /\ seen'[e].ver <= acct'.ver /\ (seen'[e].ver = acct'.ver => pw'[e] = acct'.pw)
      BY DEF SignInv
    <2>1. e # c /\ at[e] = "sign" /\ seen'[e] = seen[e] /\ pw'[e] = pw[e] BY <1>1 DEF AccountTypes
    <2>2. acct.verified /\ seen[e].ver <= acct.ver /\ (seen[e].ver = acct.ver => pw[e] = acct.pw)
      BY <2>1 DEF SignInv
    <2> QED BY <2>1, <2>2, <1>4
  <1>6. GateInv' BY <1>1 DEF GateInv, AccountTypes
  <1> QED BY <1>2, <1>3, <1>5, <1>6

\* ... without touching the codes.
LEMMA GoesOnPlain ==
  ASSUME AccountInv, NEW c \in Conns, NEW s \in Steps \ {"compare", "sms", "sign", "exclude"},
         Continues(c, s) \/ (s = "idle" /\ Ends(c)), s = "idle" \/ acct'.made,
         Respects(tokens', proofs', acct'), UNCHANGED codes
  PROVE  AccountInv'
  <1>1. /\ at' = [at EXCEPT ![c] = s] /\ row' = [row EXCEPT ![c] = 0]
    BY DEF Continues, Ends, Continue
  <1>2. row' \in [Conns -> 0..MaxCodes] /\ \A e \in Conns \ {c} : row'[e] = row[e]
    BY <1>1, PlayerAccountsAssumption DEF AccountInv, AccountTypes, PlayerAccountsAssumption
  <1>3. CodesInv' BY <1>1, <1>2, CodesKept
  <1>4. codes' \in Seq(CodeRows) /\ Len(codes') <= MaxCodes BY DEF AccountInv, AccountTypes
  <1> QED BY <1>3, <1>4, GoesOn

\* Requests begin with what they read.
LEMMA RequestStep == ASSUME AccountInv, NEW c \in Conns, Request(c) PROVE AccountInv'
  <1>1. /\ acct.pw \in Passwords /\ acct.made \in BOOLEAN /\ acct.ver \in Nat /\ acct.excluded \in BOOLEAN
        /\ acct \in AccountRows
    BY DEF AccountInv, AccountTypes, AccountRows
  <1>2. SignedIn => acct.made /\ ~acct.excluded BY <1>1 DEF AccountInv, MadeInv, SignedIn, Blocked
  <1>3. SomePassword \in Passwords /\ NoAccount \in AccountRows BY FreshAccount
  <1>4. ASSUME NEW w \in Passwords, Register(c, w) PROVE AccountInv'
    <2> DEFINE a == [NoAccount EXCEPT !.made = acct.made]
    <2>1. a \in AccountRows BY <1>1, <1>3 DEF AccountRows
    <2>2. Begins(c, "save", a, w, "register") /\ UNCHANGED <<acct, codes, tokens, proofs>> BY <1>4 DEF Register
    <2>3. a.made = acct.made BY DEF NoAccount
    <2>4. ~a.made \/ acct.made BY <1>1, <2>3
    <2> QED BY <2>1, <2>2, <2>4, BeginsStep DEF Steps, Purposes
  <1>5. CASE Login(c)
    <2> DEFINE a == [NoAccount EXCEPT !.ver = acct.ver]
    <2>1. a \in AccountRows BY <1>1, <1>3 DEF AccountRows
    <2>4. a.ver = acct.ver BY DEF NoAccount
    <2>2. acct.made /\ UNCHANGED <<acct, codes, tokens, proofs>> BY <1>5 DEF Login
    <2>3. CASE ~acct.verified
      <3>1. Begins(c, "cooldown", NoAccount, SomePassword, "register") BY <1>5, <2>3 DEF Login
      <3> QED BY <1>3, <2>2, <3>1, BeginsStep DEF Steps, Purposes
    <2>5. CASE acct.verified
      <3>1. Begins(c, "sign", a, acct.pw, "register") BY <1>5, <2>5 DEF Login
      <3> QED BY <1>1, <2>1, <2>2, <2>4, <2>5, <3>1, BeginsStep DEF Steps, Purposes
    <2> QED BY <2>3, <2>5
  <1>6. CASE LobbyLogin(c) BY <1>6, <1>3, BeginsStep DEF LobbyLogin, Steps, Purposes
  <1>7. ASSUME NEW k \in Purposes, RequestCode(c, k) PROVE AccountInv'
    BY <1>7, <1>3, BeginsStep DEF RequestCode, Eligible, Steps
  <1>8. ASSUME NEW k \in Purposes, SubmitCode(c, k) PROVE AccountInv'
    <2> DEFINE a == [NoAccount EXCEPT !.ver = acct.ver]
    <2>1. a \in AccountRows BY <1>1, <1>3 DEF AccountRows
    <2>2. Begins(c, "check", a, SomePassword, k) /\ acct.made /\ UNCHANGED <<acct, codes, tokens, proofs>>
      BY <1>8 DEF SubmitCode
    <2> QED BY <1>3, <2>1, <2>2, BeginsStep DEF Steps
  <1>9. ASSUME NEW w \in Passwords, UseProof(c, w) PROVE AccountInv'
    <2>1. PICK p \in proofs : Begins(c, p, NoAccount, w, p) BY <1>9 DEF UseProof
    <2>2. p \in {"reset", "reactivate"} /\ acct.made BY DEF AccountInv, AccountTypes, MadeInv
    <2> QED BY <1>3, <1>9, <2>1, <2>2, BeginsStep DEF UseProof, Steps, Purposes
  <1>10. ASSUME NEW w \in Passwords, ChangePassword(c, w) PROVE AccountInv'
    BY <1>10, <1>2, <1>3, BeginsStep DEF ChangePassword, Steps, Purposes
  <1>11. CASE SelfExclude(c)
    <2> DEFINE a == [NoAccount EXCEPT !.excluded = acct.excluded]
    <2>1. a \in AccountRows BY <1>1, <1>3 DEF AccountRows
    <2>2. a.excluded = acct.excluded BY DEF NoAccount
    <2>3. Begins(c, "exclude", a, SomePassword, "reset") /\ SignedIn /\ UNCHANGED <<acct, codes, tokens, proofs>>
      BY <1>11 DEF SelfExclude
    <2> QED BY <1>2, <1>3, <2>1, <2>2, <2>3, BeginsStep DEF Steps, Purposes
  <1> QED BY <1>4, <1>5, <1>6, <1>7, <1>8, <1>9, <1>10, <1>11 DEF Request

\* The writes of the account.
LEMMA WriteStep ==
  ASSUME AccountInv, NEW c \in Conns,
         SaveRegistration(c) \/ SetPassword(c) \/ MarkVerified(c) \/ Exclude(c) \/ Deactivate(c) \/ Reactivate(c)
  PROVE  AccountInv'
  <1>1. /\ acct \in AccountRows /\ pw[c] \in Passwords /\ acct.ver \in Nat /\ acct.made \in BOOLEAN /\ acct.verified \in BOOLEAN
        /\ acct.active \in BOOLEAN /\ acct.excluded \in BOOLEAN /\ acct.pw \in Passwords
    BY DEF AccountInv, AccountTypes, AccountRows
  <1>2. /\ tokens \subseteq {acct.pw, OtherRoute} /\ (tokens \subseteq {OtherRoute} \/ acct.verified)
        /\ proofs \subseteq {"reset", "reactivate"}
        /\ acct.verified \/ tokens # {} \/ proofs # {} => acct.made
    BY DEF AccountInv, SignInv, MadeInv, AccountTypes
  <1>3. at[c] \notin {"idle", "save"} => acct.made BY DEF AccountInv, MadeInv
  <1>4. ASSUME NEW a \in AccountRows, Bump(a), a.ver = acct.ver, a.made = acct.made, acct.made, acct.verified => a.verified
        PROVE  Respects(tokens', proofs', acct') /\ acct'.made
    <2>1. acct' = [a EXCEPT !.ver = @ + 1] /\ tokens' = {} /\ proofs' = {} BY <1>4 DEF Bump
    <2>2. a.ver \in Nat BY <1>4 DEF AccountRows
    <2>3. acct' = [a EXCEPT !.ver = a.ver + 1] BY <2>1
    <2>4. acct' \in AccountRows BY <1>4, <2>2, <2>3 DEF AccountRows
    <2>5. acct'.ver = acct.ver + 1 /\ acct'.made = a.made /\ acct'.verified = a.verified
      BY <1>4, <2>3 DEF AccountRows
    <2>6. /\ acct.made => acct'.made
          /\ acct.verified => acct'.verified
          /\ acct'.verified => acct'.made
          /\ acct'.ver >= acct.ver /\ acct'.ver > acct.ver
      BY <1>1, <1>4, <2>5
    <2>7. /\ tokens' \subseteq {acct'.pw, OtherRoute} /\ tokens' \subseteq {OtherRoute}
          /\ proofs' \subseteq {"reset", "reactivate"} /\ ~(tokens' # {} \/ proofs' # {})
      BY <2>1
    <2> QED BY ONLY <1>4, <2>4, <2>5, <2>6, <2>7 DEF Respects
  <1>5. CASE SaveRegistration(c)
    <2>1. at[c] = "save" /\ UNCHANGED <<codes, tokens, proofs>> BY <1>5 DEF SaveRegistration
    <2>2. CASE seen[c].made
      <3>1. /\ acct' = IF acct.verified THEN acct ELSE [acct EXCEPT !.pw = pw[c]]
            /\ Continues(c, "cooldown")
        BY <1>5, <2>2 DEF SaveRegistration, ReplaceUnverified
      <3>2. acct.made BY <2>1, <2>2 DEF AccountInv, MadeInv
      <3>3. /\ acct' \in AccountRows /\ acct'.made = acct.made /\ acct'.verified = acct.verified /\ acct'.ver = acct.ver
            /\ acct.verified => acct' = acct
        BY <1>1, <3>1 DEF AccountRows
      <3>4. Respects(tokens', proofs', acct') BY <1>1, <1>2, <2>1, <3>2, <3>3 DEF Respects
      <3> QED BY <2>1, <3>1, <3>2, <3>3, <3>4, GoesOnPlain DEF Steps
    <2>3. CASE ~seen[c].made /\ acct.made
      <3>1. Ends(c) /\ acct' = acct BY <1>5, <2>3 DEF SaveRegistration
      <3>2. Respects(tokens', proofs', acct') BY <1>1, <1>2, <2>1, <3>1 DEF Respects
      <3> QED BY <2>1, <3>1, <3>2, GoesOnPlain DEF Steps
    <2>4. CASE ~seen[c].made /\ ~acct.made
      <3>1. acct' = [acct EXCEPT !.made = TRUE, !.pw = pw[c]] /\ Continues(c, "cooldown")
        BY <1>5, <2>4 DEF SaveRegistration
      <3>2. acct' \in AccountRows /\ acct'.made = TRUE /\ acct'.verified = acct.verified /\ acct'.ver = acct.ver
        BY <1>1, <3>1 DEF AccountRows
      <3>3. ~acct.verified /\ tokens = {} BY <2>4, <1>2
      <3>4. Respects(tokens', proofs', acct') BY <1>1, <1>2, <2>1, <3>2, <3>3 DEF Respects
      <3> QED BY <2>1, <3>1, <3>2, <3>4, GoesOnPlain DEF Steps
    <2> QED BY <2>2, <2>3, <2>4
  <1>6. CASE SetPassword(c)
    <2> DEFINE a == [acct EXCEPT !.pw = pw[c]]
    <2>1. a \in AccountRows /\ a.ver = acct.ver /\ a.made = acct.made /\ a.verified = acct.verified
      BY <1>1 DEF AccountRows
    <2>2. PICK s \in {"mark", "fresh"} : at[c] \notin {"idle", "save"} /\ Bump(a) /\ Continues(c, s) /\ UNCHANGED codes
      BY <1>6 DEF SetPassword
    <2>3. Respects(tokens', proofs', acct') /\ acct'.made BY <1>3, <1>4, <2>1, <2>2
    <2> QED BY <2>2, <2>3, GoesOnPlain DEF Steps
  <1>7. CASE MarkVerified(c)
    <2>1. PICK s \in {"unblocked", "fresh"} : /\ at[c] = "mark" /\ acct' = [acct EXCEPT !.verified = TRUE]
                                             /\ Continues(c, s) /\ UNCHANGED <<codes, tokens, proofs>>
      BY <1>7 DEF MarkVerified
    <2>2. acct' \in AccountRows /\ acct'.verified = TRUE /\ acct'.made = acct.made /\ acct'.ver = acct.ver /\ acct'.pw = acct.pw
      BY <1>1, <2>1 DEF AccountRows
    <2>3. acct.made BY <1>3, <2>1
    <2>4. Respects(tokens', proofs', acct') BY <1>1, <1>2, <2>1, <2>2, <2>3 DEF Respects
    <2> QED BY <2>1, <2>2, <2>3, <2>4, GoesOnPlain DEF Steps
  <1>8. CASE Exclude(c)
    <2> DEFINE a == [acct EXCEPT !.excluded = TRUE]
    <2>1. a \in AccountRows /\ a.ver = acct.ver /\ a.made = acct.made /\ a.verified = acct.verified
      BY <1>1 DEF AccountRows
    <2>2. at[c] \notin {"idle", "save"} /\ Bump(a) /\ Ends(c) /\ UNCHANGED codes BY <1>8 DEF Exclude
    <2>3. Respects(tokens', proofs', acct') /\ acct'.made BY <1>3, <1>4, <2>1, <2>2
    <2> QED BY <2>2, <2>3, GoesOnPlain DEF Steps
  <1>9. CASE Deactivate(c)
    <2> DEFINE a == [acct EXCEPT !.active = FALSE]
    <2>1. a \in AccountRows /\ a.ver = acct.ver /\ a.made = acct.made /\ a.verified = acct.verified
      BY <1>1 DEF AccountRows
    <2>2. at[c] \notin {"idle", "save"} /\ Bump(a) /\ Ends(c) /\ UNCHANGED codes BY <1>9 DEF Deactivate
    <2>3. Respects(tokens', proofs', acct') /\ acct'.made BY <1>3, <1>4, <2>1, <2>2
    <2> QED BY <2>2, <2>3, GoesOnPlain DEF Steps
  <1>10. CASE Reactivate(c)
    <2> DEFINE a == [acct EXCEPT !.active = TRUE, !.pw = pw[c], !.verified = TRUE]
    <2>1. a \in AccountRows /\ a.ver = acct.ver /\ a.made = acct.made /\ a.verified = TRUE
      BY <1>1 DEF AccountRows
    <2>2. at[c] \notin {"idle", "save"} /\ Bump(a) /\ Continues(c, "unblocked") /\ UNCHANGED codes BY <1>10 DEF Reactivate
    <2>3. Respects(tokens', proofs', acct') /\ acct'.made BY <1>3, <1>4, <2>1, <2>2
    <2> QED BY <2>2, <2>3, GoesOnPlain DEF Steps
  <1> QED BY <1>5, <1>6, <1>7, <1>8, <1>9, <1>10

\* Tokens are signed for the password and version that were read.
LEMMA SignStep ==
  ASSUME AccountInv, NEW c \in Conns, SignLogin(c) \/ SignFresh(c) \/ CheckCooldown(c)
  PROVE  AccountInv'
  <1>1. /\ acct \in AccountRows /\ acct.ver \in Nat
        /\ tokens \subseteq {acct.pw, OtherRoute} /\ (tokens \subseteq {OtherRoute} \/ acct.verified)
        /\ proofs \subseteq {"reset", "reactivate"}
        /\ acct.verified \/ tokens # {} \/ proofs # {} => acct.made
        /\ at[c] \notin {"idle", "save"} => acct.made
    BY DEF AccountInv, AccountTypes, AccountRows, SignInv, MadeInv
  <1>2. CASE SignLogin(c)
    <2>1. at[c] = "sign" /\ Ends(c) /\ UNCHANGED <<acct, codes, proofs>>
          /\ tokens' = IF seen[c].ver = acct.ver THEN tokens \cup {pw[c]} ELSE tokens
      BY <1>2 DEF SignLogin, Sign, VersionRead
    <2>2. acct.verified /\ (seen[c].ver = acct.ver => pw[c] = acct.pw) BY <2>1 DEF AccountInv, SignInv
    <2>3. Respects(tokens', proofs', acct') BY <1>1, <2>1, <2>2 DEF Respects
    <2> QED BY <2>1, <2>3, GoesOnPlain DEF Steps
  <1>3. CASE SignFresh(c)
    <2>1. /\ at[c] \notin {"idle", "save"} /\ Ends(c) /\ UNCHANGED <<acct, codes, proofs>>
          /\ tokens' = tokens \/ tokens' = tokens \cup {OtherRoute}
      BY <1>3 DEF SignFresh, Sign
    <2>2. Respects(tokens', proofs', acct') BY <1>1, <2>1 DEF Respects
    <2> QED BY <2>1, <2>2, GoesOnPlain DEF Steps
  <1>4. CASE CheckCooldown(c)
    <2>1. /\ at[c] \notin {"idle", "save"} /\ UNCHANGED <<acct, codes, tokens, proofs>>
          /\ Ends(c) \/ Continues(c, "store")
      BY <1>4 DEF CheckCooldown
    <2>2. Respects(tokens', proofs', acct') BY <1>1, <2>1 DEF Respects
    <2> QED BY <1>1, <2>1, <2>2, GoesOnPlain DEF Steps
  <1> QED BY <1>2, <1>3, <1>4

-----------------------------------------------------------------------------
(* One-time codes. *)

LEMMA SameAccount ==
  ASSUME AccountInv, UNCHANGED <<acct, tokens, proofs>> PROVE Respects(tokens', proofs', acct')
  <1>1. acct.ver \in Nat BY DEF AccountInv, AccountTypes, AccountRows
  <1> QED BY <1>1 DEF AccountInv, AccountTypes, MadeInv, SignInv, Respects

\* A stored code is new: nobody compares with it yet.
LEMMA StoreStep == ASSUME AccountInv, NEW c \in Conns, StoreCode(c) PROVE AccountInv'
  <1> DEFINE q == [for |-> kind[c], attempts |-> 0, age |-> 0, oks |-> 0, deleted |-> FALSE]
             n == Len(codes) + 1
  <1> USE DEF AccountInv
  <1>1. /\ at[c] = "store" /\ Len(codes) < MaxCodes /\ codes' = Append(codes, q)
        /\ at' = [at EXCEPT ![c] = "sms"] /\ row' = [row EXCEPT ![c] = n]
        /\ UNCHANGED <<acct, seen, pw, kind, tokens, proofs>>
    BY DEF StoreCode, Continue
  <1>2. q \in CodeRows BY DEF CodeRows, AccountTypes
  <1>3. codes \in Seq(CodeRows) /\ Len(codes) \in Nat /\ MaxCodes \in Nat /\ MaxAttempts \in Nat \ {0}
    BY LenProperties, PlayerAccountsAssumption DEF AccountTypes, PlayerAccountsAssumption
  <1>4. /\ codes' \in Seq(CodeRows) /\ Len(codes') = n /\ DOMAIN codes = 1..Len(codes) /\ DOMAIN codes' = 1..n
        /\ \A i \in 1..Len(codes) : codes'[i] = codes[i]
        /\ codes'[n] = q
    <2> HIDE DEF q
    <2> QED BY <1>1, <1>2, <1>3, AppendProperties, LenProperties
  <1>5. AccountTypes' BY <1>1, <1>3, <1>4 DEF AccountTypes, Steps
  <1>6. MadeInv' BY <1>1 DEF MadeInv, AccountTypes
  <1>7. CodesInv'
    <2>1. \A e \in Conns : at'[e] \in {"compare", "sms"} => row'[e] \in DOMAIN codes'
      BY <1>1, <1>3, <1>4 DEF CodesInv, AccountTypes
    <2>2. \A i \in DOMAIN codes' : codes'[i].oks <= 1 BY <1>3, <1>4 DEF CodesInv
    <2>3. \A i \in DOMAIN codes' : codes'[i].attempts + Cardinality(Comparing(i)') <= MaxAttempts - 1 + Cardinality(Conns)
      <3> SUFFICES ASSUME NEW i \in 1..n
                   PROVE  codes'[i].attempts + Cardinality(Comparing(i)') <= MaxAttempts - 1 + Cardinality(Conns)
        BY <1>4
      <3>1. CASE i = n
        <4>1. Comparing(i)' \in SUBSET Conns BY DEF Comparing
        <4>2. Cardinality(Comparing(i)') <= Cardinality(Conns)
          BY <4>1, FS_Subset, PlayerAccountsAssumption DEF PlayerAccountsAssumption
        <4>3. IsFiniteSet(Comparing(i)') /\ Cardinality(Comparing(i)') \in Nat /\ Cardinality(Conns) \in Nat
          BY <4>1, FS_Subset, FS_CardinalityType, PlayerAccountsAssumption DEF PlayerAccountsAssumption
        <4>4. codes'[i].attempts = 0 BY <3>1, <1>4
        <4> QED BY <4>2, <4>3, <4>4, <1>3
      <3>2. CASE i # n
        <4>1. i \in DOMAIN codes /\ codes'[i] = codes[i] BY <3>2, <1>3, <1>4
        <4>2. Comparing(i)' = Comparing(i) BY <1>1 DEF Comparing, AccountTypes
        <4> QED BY <4>1, <4>2 DEF CodesInv
      <3> QED BY <3>1, <3>2
    <2> QED BY <2>1, <2>2, <2>3 DEF CodesInv
  <1>8. SignInv' BY <1>1 DEF SignInv, AccountTypes
  <1>9. GateInv' BY <1>1 DEF GateInv, AccountTypes
  <1> QED BY <1>5, <1>6, <1>7, <1>8, <1>9

\* A request that goes on to compare has read the code below its limit.
LEMMA ReadStep == ASSUME AccountInv, NEW c \in Conns, ReadCode(c) PROVE AccountInv'
  <1> DEFINE r == Latest(kind[c])
  <1>1. at[c] = "check" /\ UNCHANGED <<acct, codes, tokens, proofs>> BY DEF ReadCode
  <1>2. CASE Ends(c) BY <1>1, <1>2, SameAccount, GoesOnPlain DEF Steps
  <1>3. CASE ~Ends(c)
    <2> USE DEF AccountInv
    <2>1. RowsFor(kind[c]) # {} /\ ~OutOfAttempts(r) /\ at' = [at EXCEPT ![c] = "compare"]
          /\ row' = [row EXCEPT ![c] = r] /\ UNCHANGED <<seen, pw, kind>>
      BY <1>3 DEF ReadCode, Continue
    <2>2. r \in DOMAIN codes BY <2>1, LatestCode
    <2>3. codes \in Seq(CodeRows) /\ DOMAIN codes = 1..Len(codes) /\ Len(codes) \in Nat /\ Len(codes) <= MaxCodes
      BY LenProperties DEF AccountTypes
    <2>4. MaxAttempts \in Nat /\ MaxCodes \in Nat BY PlayerAccountsAssumption DEF PlayerAccountsAssumption
    <2>5. codes[r] \in CodeRows BY <2>2, <2>3
    <2>6. codes[r].attempts \in Nat /\ codes[r].attempts < MaxAttempts
      BY <2>1, <2>4, <2>5 DEF OutOfAttempts, CodeRows
    <2> HIDE DEF r
    <2>7. AccountTypes' BY <1>1, <2>1, <2>2, <2>3, <2>4 DEF AccountTypes, Steps
    <2>8. MadeInv' BY <1>1, <2>1 DEF MadeInv, AccountTypes
    <2>9. CodesInv'
      <3>1. \A e \in Conns : at'[e] \in {"compare", "sms"} => row'[e] \in DOMAIN codes'
        BY <1>1, <2>1, <2>2 DEF CodesInv, AccountTypes
      <3>2. \A i \in DOMAIN codes' : codes'[i].oks <= 1 BY <1>1 DEF CodesInv
      <3>3. \A i \in DOMAIN codes' : codes'[i].attempts + Cardinality(Comparing(i)') <= MaxAttempts - 1 + Cardinality(Conns)
        <4> SUFFICES ASSUME NEW i \in DOMAIN codes
                     PROVE  codes[i].attempts + Cardinality(Comparing(i)') <= MaxAttempts - 1 + Cardinality(Conns)
          BY <1>1
        <4>1. CASE i = r
          <5>1. Comparing(i)' \in SUBSET Conns BY DEF Comparing
          <5>2. Cardinality(Comparing(i)') <= Cardinality(Conns)
            BY <5>1, FS_Subset, PlayerAccountsAssumption DEF PlayerAccountsAssumption
          <5>3. IsFiniteSet(Comparing(i)') /\ Cardinality(Comparing(i)') \in Nat /\ Cardinality(Conns) \in Nat
            BY <5>1, FS_Subset, FS_CardinalityType, PlayerAccountsAssumption DEF PlayerAccountsAssumption
          <5> QED BY <4>1, <5>2, <5>3, <2>4, <2>6
        <4>2. CASE i # r
          <5>1. Comparing(i)' = Comparing(i) BY <4>2, <1>1, <2>1 DEF Comparing, AccountTypes
          <5> QED BY <5>1 DEF CodesInv
        <4> QED BY <4>1, <4>2
      <3> QED BY <3>1, <3>2, <3>3 DEF CodesInv
    <2>10. SignInv' BY <1>1, <2>1 DEF SignInv, AccountTypes
    <2>11. GateInv' BY <1>1, <2>1 DEF GateInv, AccountTypes
    <2> QED BY <2>7, <2>8, <2>9, <2>10, <2>11
  <1> QED BY <1>2, <1>3

\* One row of the codes is updated by the request that ends its step with it.
LEMMA RowStep ==
  ASSUME AccountInv, NEW c \in Conns, NEW s \in Steps \ {"compare", "sms", "sign", "exclude"},
         Continues(c, s) \/ (s = "idle" /\ Ends(c)), s = "idle" \/ acct'.made,
         Respects(tokens', proofs', acct'), at[c] \in {"compare", "sms"},
         NEW q \in CodeRows, codes' = [codes EXCEPT ![row[c]] = q], q.oks <= 1,
         q.attempts <= codes[row[c]].attempts \/ (at[c] = "compare" /\ q.attempts = codes[row[c]].attempts + 1)
  PROVE  AccountInv'
  <1>1. row[c] \in DOMAIN codes BY DEF AccountInv, CodesInv
  <1>2. codes \in Seq(CodeRows) /\ DOMAIN codes = 1..Len(codes) /\ Len(codes) <= MaxCodes
    BY LenProperties DEF AccountInv, AccountTypes
  <1>3. /\ codes' \in Seq(CodeRows) /\ Len(codes') = Len(codes)
        /\ \A j \in 1..Len(codes) : codes'[j] = IF j = row[c] THEN q ELSE codes[j]
    BY <1>1, <1>2, ExceptSeq
  <1>4. \A i \in 1..Len(codes) : codes[i].attempts \in Nat /\ codes[i].oks <= 1
    <2> TAKE i \in 1..Len(codes)
    <2>1. codes[i] \in CodeRows /\ i \in DOMAIN codes BY <1>2, LenProperties
    <2> QED BY <2>1 DEF CodeRows, AccountInv, CodesInv
  <1>5. q.attempts \in Nat BY DEF CodeRows
  <1>6. /\ at'[c] = s /\ \A e \in Conns \ {c} : at'[e] = at[e] /\ row'[e] = row[e]
    BY DEF Continues, Ends, Continue, AccountInv, AccountTypes
  <1>7. \A i \in 1..Len(codes) : codes'[i].oks <= 1 /\ Counts(i, c, codes[i], codes'[i])
    <2> SUFFICES ASSUME NEW i \in 1..Len(codes)
                 PROVE  codes'[i].oks <= 1 /\ Counts(i, c, codes[i], codes'[i])
      OBVIOUS
    <2>1. c \in Comparing(i) <=> at[c] = "compare" /\ row[c] = i BY DEF Comparing
    <2>2. CASE i = row[c]
      <3>1. codes'[i] = q BY <1>3, <2>2
      <3> QED BY <1>4, <1>5, <2>1, <2>2, <3>1 DEF Counts
    <2>3. CASE i # row[c]
      <3>1. codes'[i] = codes[i] BY <1>3, <2>3
      <3> QED BY <1>4, <2>3, <3>1 DEF Counts
    <2> QED BY <2>2, <2>3
  <1>8. CodesInv' BY <1>3, <1>6, <1>7, CodesStep
  <1> QED BY <1>2, <1>3, <1>8, GoesOn

\* The SMS is sent or given up; the guess is wrong, or right and the first.
LEMMA CodeStep ==
  ASSUME AccountInv, NEW c \in Conns, (\E ok \in BOOLEAN : SendSms(c, ok)) \/ WrongCode(c) \/ RightCode(c)
  PROVE  AccountInv'
  <1> DEFINE p == codes[row[c]]
  <1>1. at[c] \in {"compare", "sms"} BY DEF SendSms, WrongCode, RightCode
  <1>2. row[c] \in DOMAIN codes /\ p \in CodeRows /\ p.oks <= 1
    <2>1. row[c] \in DOMAIN codes BY <1>1 DEF AccountInv, CodesInv
    <2> QED BY <2>1, LenProperties DEF AccountInv, AccountTypes, CodesInv
  <1>3. p.attempts \in Nat /\ p.oks \in Nat BY <1>2 DEF CodeRows
  <1>4. ASSUME NEW ok \in BOOLEAN, SendSms(c, ok) PROVE AccountInv'
    <2>1. at[c] = "sms" /\ Ends(c) /\ UNCHANGED <<acct, tokens, proofs>> BY <1>4 DEF SendSms
    <2>2. CASE ok
      <3>1. UNCHANGED codes BY <1>4, <2>2 DEF SendSms
      <3> QED BY <2>1, <3>1, SameAccount, GoesOnPlain DEF Steps
    <2>3. CASE ~ok
      <3> DEFINE q == [p EXCEPT !.deleted = TRUE]
      <3>1. codes' = [codes EXCEPT ![row[c]] = q] BY <1>4, <2>3 DEF SendSms
      <3>2. q \in CodeRows /\ q.oks = p.oks /\ q.attempts = p.attempts BY <1>2 DEF CodeRows
      <3> HIDE DEF q
      <3>3. q.oks <= 1 /\ q.attempts <= codes[row[c]].attempts BY <1>2, <1>3, <3>2
      <3>4. Respects(tokens', proofs', acct') BY <2>1, SameAccount
      <3>5. "idle" \in Steps \ {"compare", "sms", "sign", "exclude"} BY DEF Steps
      <3> QED BY ONLY AccountInv, c \in Conns, <1>1, <2>1, <3>1, <3>2, <3>3, <3>4, <3>5, RowStep
    <2> QED BY <2>2, <2>3
  <1>5. CASE WrongCode(c)
    <2> DEFINE q == [p EXCEPT !.attempts = p.attempts + 1]
    <2>1. at[c] = "compare" /\ Ends(c) /\ UNCHANGED <<acct, tokens, proofs>> /\ codes' = [codes EXCEPT ![row[c]] = q]
      BY <1>5 DEF WrongCode
    <2>2. q \in CodeRows /\ q.oks = p.oks /\ q.attempts = p.attempts + 1 BY <1>2, <1>3 DEF CodeRows
    <2> HIDE DEF q
    <2> QED BY <1>1, <1>2, <1>3, <2>1, <2>2, SameAccount, RowStep DEF Steps
  <1>6. CASE RightCode(c)
    <2>1. at[c] = "compare" /\ UNCHANGED <<acct, tokens>> BY <1>6 DEF RightCode
    <2>2. acct.made /\ kind[c] \in Purposes BY <2>1 DEF AccountInv, MadeInv, AccountTypes
    <2>3. CASE p.deleted \/ ~Consumes(row[c])
      <3>1. Ends(c) /\ UNCHANGED <<proofs, codes>> BY <1>6, <2>3 DEF RightCode
      <3> QED BY <2>1, <3>1, SameAccount, GoesOnPlain DEF Steps
    <2>4. CASE ~p.deleted /\ Consumes(row[c])
      <3> DEFINE q == [p EXCEPT !.oks = p.oks + 1]
      <3>1. AfterCode(c) /\ codes' = [codes EXCEPT ![row[c]] = q] BY <1>6, <2>4 DEF RightCode
      <3>2. p.oks = 0 BY <2>4 DEF Consumes
      <3>3. q \in CodeRows /\ q.oks = 1 /\ q.attempts = p.attempts BY <1>2, <1>3, <3>2 DEF CodeRows
      <3> HIDE DEF q
      <3>4. PICK s \in {"idle", "mark", "deactivate"} :
              /\ Continues(c, s) \/ (s = "idle" /\ Ends(c))
              /\ proofs' \subseteq proofs \cup ({kind[c]} \cap {"reset", "reactivate"})
        BY <3>1 DEF AfterCode
      <3>5. Respects(tokens', proofs', acct')
        <4>1. acct.ver \in Nat BY DEF AccountInv, AccountTypes, AccountRows
        <4> QED BY <4>1, <2>1, <2>2, <3>4 DEF AccountInv, AccountTypes, MadeInv, SignInv, Respects
      <3>6. acct'.made /\ s \in Steps \ {"compare", "sms", "sign", "exclude"} BY <2>1, <2>2 DEF Steps
      <3>7. q.oks <= 1 /\ q.attempts <= codes[row[c]].attempts BY <1>3, <3>3
      <3> QED BY ONLY AccountInv, c \in Conns, <1>1, <3>1, <3>3, <3>4, <3>5, <3>6, <3>7, RowStep
    <2> QED BY <2>3, <2>4
  <1> QED BY <1>4, <1>5, <1>6

-----------------------------------------------------------------------------
(* Time. *)

LEMMA AgeStep == ASSUME AccountInv, NEW i \in DOMAIN codes, CodeAges(i) PROVE AccountInv'
  <1> DEFINE q == [codes[i] EXCEPT !.age = codes[i].age + 1]
  <1> USE DEF AccountInv
  <1>1. codes' = [codes EXCEPT ![i] = q] /\ UNCHANGED <<acct, at, seen, pw, kind, row, tokens, proofs>>
    BY DEF CodeAges, reqVars
  <1>2. codes \in Seq(CodeRows) /\ DOMAIN codes = 1..Len(codes) /\ codes[i] \in CodeRows
    BY LenProperties DEF AccountTypes
  <1>3. q \in CodeRows /\ q.oks = codes[i].oks /\ q.attempts = codes[i].attempts
    <2>1. codes[i].age \in Nat /\ codes[i].oks \in Nat /\ codes[i].attempts \in Nat BY <1>2 DEF CodeRows
    <2>2. PICK r \in CodeRows, n \in Nat : r = codes[i] /\ n = codes[i].age + 1 BY <1>2, <2>1
    <2>3. q = [r EXCEPT !.age = n] BY <2>2
    <2> HIDE DEF q
    <2>4. q \in CodeRows /\ q.oks = r.oks /\ q.attempts = r.attempts BY <2>3 DEF CodeRows
    <2> QED BY <2>2, <2>4
  <1> HIDE DEF q
  <1>4. /\ codes' \in Seq(CodeRows) /\ Len(codes') = Len(codes) /\ DOMAIN codes' = DOMAIN codes
        /\ \A j \in DOMAIN codes : codes'[j] = IF j = i THEN q ELSE codes[j]
    <2>1. i \in 1..Len(codes) BY <1>2
    <2>2. /\ codes' \in Seq(CodeRows) /\ Len(codes') = Len(codes)
          /\ \A j \in 1..Len(codes) : codes'[j] = IF j = i THEN q ELSE codes[j]
      BY ONLY <1>1, <1>2, <1>3, <2>1, ExceptSeq
    <2>3. DOMAIN codes' = 1..Len(codes') BY <2>2, LenProperties
    <2> QED BY ONLY <1>2, <2>2, <2>3
  <1>5. AccountTypes' BY <1>1, <1>4 DEF AccountTypes
  <1>6. MadeInv' /\ SignInv' /\ GateInv' BY <1>1 DEF MadeInv, SignInv, GateInv
  <1>7. CodesInv'
    <2>1. \A j : Comparing(j)' = Comparing(j) BY <1>1 DEF Comparing
    <2>2. \A j \in DOMAIN codes : codes'[j].oks = codes[j].oks /\ codes'[j].attempts = codes[j].attempts BY <1>3, <1>4
    <2> QED BY <1>1, <1>4, <2>1, <2>2 DEF CodesInv
  <1> QED BY <1>5, <1>6, <1>7

LEMMA ExclusionStep == ASSUME AccountInv, ExclusionEnds PROVE AccountInv'
  <1> USE DEF AccountInv
  <1>1. /\ acct' = [acct EXCEPT !.excluded = FALSE]
        /\ UNCHANGED <<codes, at, seen, pw, kind, row, tokens, proofs>>
    BY DEF ExclusionEnds, reqVars
  <1>2. acct \in AccountRows BY DEF AccountTypes
  <1>3. acct' \in AccountRows /\ acct'.made = acct.made /\ acct'.verified = acct.verified
        /\ acct'.ver = acct.ver /\ acct'.pw = acct.pw
    BY <1>1, <1>2 DEF AccountRows
  <1>4. AccountTypes' BY <1>1, <1>3 DEF AccountTypes
  <1>5. MadeInv' /\ SignInv' /\ GateInv' BY <1>1, <1>3 DEF MadeInv, SignInv, GateInv
  <1>6. CodesInv'
    <2>1. \A j : Comparing(j)' = Comparing(j) BY <1>1 DEF Comparing
    <2> QED BY <1>1, <2>1 DEF CodesInv
  <1> QED BY <1>4, <1>5, <1>6

LEMMA AccountStutter == ASSUME AccountInv, UNCHANGED accountVars PROVE AccountInv'
  <1>1. UNCHANGED <<acct, codes, at, seen, pw, kind, row, tokens, proofs>> BY DEF accountVars, reqVars
  <1>2. \A j : Comparing(j)' = Comparing(j) BY <1>1 DEF Comparing
  <1>3. AccountTypes' BY <1>1 DEF AccountInv, AccountTypes
  <1>4. MadeInv' /\ SignInv' /\ GateInv' BY <1>1 DEF AccountInv, MadeInv, SignInv, GateInv
  <1>5. CodesInv' BY <1>1, <1>2 DEF AccountInv, CodesInv
  <1> QED BY <1>3, <1>4, <1>5 DEF AccountInv

-----------------------------------------------------------------------------
(* Theorems. *)

LEMMA HandlingStep == ASSUME AccountInv, NEW c \in Conns, Handling(c) PROVE AccountInv'
  BY WriteStep, SignStep, StoreStep, ReadStep, CodeStep DEF Handling

\* Every step of every request keeps the invariant the properties below rest on:
\* rows keep their types, only a registered number is served, a code is compared
\* below its limit, and who is about to sign holds the password of the version read.
THEOREM AccountInvariance == AccountSpec => []AccountInv
  <1>1. AccountInv /\ [AccountNext]_accountVars => AccountInv'
    <2> SUFFICES ASSUME AccountInv, [AccountNext]_accountVars PROVE AccountInv' OBVIOUS
    <2>1. ASSUME NEW c \in Conns, Request(c) \/ Handling(c) PROVE AccountInv' BY <2>1, RequestStep, HandlingStep
    <2>2. ASSUME NEW i \in DOMAIN codes, CodeAges(i) PROVE AccountInv' BY <2>2, AgeStep
    <2>3. CASE ExclusionEnds BY <2>3, ExclusionStep
    <2>4. CASE UNCHANGED accountVars BY <2>4, AccountStutter
    <2> QED BY <2>1, <2>2, <2>3, <2>4 DEF AccountNext
  <1> QED BY <1>1, InitAccount, PTL DEF AccountSpec

\* Every variable keeps its type.
THEOREM AccountTyping == AccountSpec => []AccountTypeOK
  <1>1. AccountInv => AccountTypeOK
    <2> SUFFICES ASSUME AccountInv PROVE AccountTypeOK OBVIOUS
    <2>1. \A i \in DOMAIN codes : codes[i] \in CodeRows BY LenProperties DEF AccountInv, AccountTypes
    <2>2. \A i \in DOMAIN codes : codes[i].for \in Purposes /\ codes[i].attempts \in Nat BY <2>1 DEF CodeRows
    <2>3. acct.pw \in Passwords BY DEF AccountInv, AccountTypes, AccountRows
    <2>4. tokens \subseteq Passwords \cup {OtherRoute} BY <2>3 DEF AccountInv, SignInv
    <2>5. proofs \subseteq Purposes BY DEF AccountInv, AccountTypes, Purposes
    <2> QED BY <2>2, <2>4, <2>5 DEF AccountTypeOK, AccountInv, AccountTypes
  <1> QED BY <1>1, AccountInvariance, PTL

\* A code proves the phone once, is guessed at a bounded number of times, and a
\* token that passes was given for the password in force (otp.ts, router.ts).
THEOREM CredentialsSafe == AccountSpec => []CredentialsAreSafe
  <1>1. AccountInv => CredentialsAreSafe
    <2> SUFFICES ASSUME AccountInv PROVE CredentialsAreSafe OBVIOUS
    <2>1. CodeAcceptedOnce BY DEF AccountInv, CodesInv, CodeAcceptedOnce
    <2>2. GuessesBounded
      <3> SUFFICES ASSUME NEW i \in DOMAIN codes PROVE codes[i].attempts <= MaxAttempts - 1 + Cardinality(Conns)
        BY DEF GuessesBounded
      <3>1. codes[i].attempts + Cardinality(Comparing(i)) <= MaxAttempts - 1 + Cardinality(Conns)
        BY DEF AccountInv, CodesInv
      <3>2. codes[i] \in CodeRows BY LenProperties DEF AccountInv, AccountTypes
      <3>3. codes[i].attempts \in Nat BY <3>2 DEF CodeRows
      <3>4. MaxAttempts \in Nat BY PlayerAccountsAssumption DEF PlayerAccountsAssumption
      <3> QED BY ONLY <3>1, <3>3, <3>4, ComparingIsFinite
    <2>3. OldPasswordSignsNobodyIn BY DEF AccountInv, SignInv, OldPasswordSignsNobodyIn
    <2> QED BY <2>1, <2>2, <2>3 DEF CredentialsAreSafe
  <1> QED BY <1>1, AccountInvariance, PTL

\* The password of a verified account changes only with its token version, and a
\* running exclusion is overwritten only by a request past the gate before it began.
THEOREM AccountSteps == AccountSpec => AccountStepsAreSafe
  <1>1. AccountInv /\ [AccountNext]_accountVars => [ReplacedWithVersion /\ ExclusionKept]_accountVars
    <2> SUFFICES ASSUME AccountInv, AccountNext PROVE ReplacedWithVersion /\ ExclusionKept OBVIOUS
    <2>1. ExclusionKept BY DEF ExclusionKept, Exclude, AccountInv, GateInv
    <2>2. acct \in AccountRows /\ acct.ver \in Nat BY DEF AccountInv, AccountTypes, AccountRows
    <2>3. ReplacedWithVersion
      <3>1. ASSUME NEW c \in Conns, Request(c) PROVE acct' = acct
        BY <3>1 DEF Request, Register, Login, LobbyLogin, RequestCode, SubmitCode, UseProof, ChangePassword, SelfExclude
      <3>2. ASSUME NEW c \in Conns, SaveRegistration(c) PROVE acct.verified => acct'.pw = acct.pw
        BY <3>2, <2>2 DEF SaveRegistration, ReplaceUnverified, AccountRows, AccountInv, MadeInv
      <3>3. ASSUME NEW c \in Conns, SetPassword(c) \/ Exclude(c) \/ Deactivate(c) \/ Reactivate(c) PROVE acct'.ver > acct.ver
        <4>1. PICK a : Bump(a) /\ a \in {[acct EXCEPT !.pw = pw[c]], [acct EXCEPT !.excluded = TRUE], [acct EXCEPT !.active = FALSE],
                                        [acct EXCEPT !.active = TRUE, !.pw = pw[c], !.verified = TRUE]}
          BY <3>3 DEF SetPassword, Exclude, Deactivate, Reactivate
        <4>2. acct' = [a EXCEPT !.ver = a.ver + 1] BY <4>1 DEF Bump
        <4>3. pw[c] \in Passwords BY DEF AccountInv, AccountTypes
        <4>4. a \in AccountRows /\ a.ver = acct.ver BY <4>1, <4>3, <2>2 DEF AccountRows
        <4>5. acct'.ver = acct.ver + 1 BY <4>2, <4>4 DEF AccountRows
        <4> QED BY <4>5, <2>2
      <3>4. ASSUME NEW c \in Conns, MarkVerified(c) PROVE acct'.pw = acct.pw BY <3>4, <2>2 DEF MarkVerified, AccountRows
      <3>5. ASSUME NEW c \in Conns, SignLogin(c) \/ SignFresh(c) \/ CheckCooldown(c) \/ StoreCode(c) \/ ReadCode(c)
                                     \/ (\E ok \in BOOLEAN : SendSms(c, ok)) \/ WrongCode(c) \/ RightCode(c)
            PROVE acct' = acct
        BY <3>5 DEF SignLogin, SignFresh, CheckCooldown, StoreCode, ReadCode, SendSms, WrongCode, RightCode
      <3>6. ASSUME NEW i \in DOMAIN codes, CodeAges(i) PROVE acct' = acct BY <3>6 DEF CodeAges
      <3>7. CASE ExclusionEnds
        <4>1. acct'.pw = acct.pw BY <3>7, <2>2 DEF ExclusionEnds, AccountRows
        <4> QED BY <4>1 DEF ReplacedWithVersion
      <3>8. ASSUME NEW c \in Conns, Handling(c) PROVE ReplacedWithVersion
        BY <3>2, <3>3, <3>4, <3>5, <3>8 DEF Handling, ReplacedWithVersion
      <3> QED BY <3>1, <3>6, <3>7, <3>8 DEF AccountNext, ReplacedWithVersion
    <2> QED BY <2>1, <2>3
  <1> QED BY <1>1, AccountInvariance, PTL DEF AccountSpec, AccountStepsAreSafe
-----------------------------------------------------------------------------
(* The tab at a game. *)

\* The last frame of some kind that is under way, or None.
None == [kind |-> "none"]
LastOf(K, q) ==
  IF \E i \in DOMAIN q : q[i] \in K
  THEN q[CHOOSE i \in DOMAIN q : q[i] \in K /\ \A j \in DOMAIN q : j > i => q[j] \notin K]
  ELSE None

Phases == {"BETTING", "FLYING", "CRASHED", "RESULT"}
RoundFrames == [kind : {"join", "phase_change", "crash"}, no : Nat, phase : Phases, slot : {0}]
SlotFrames == [kind : {"bet_placed", "cashout_success"}, no : {0}, phase : {"-"}, slot : Slots]
InvalidFrames == [kind : {"session_invalid"}, no : {0}, phase : {"-"}, slot : {0}]
Frames == RoundFrames \cup SlotFrames \cup InvalidFrames
Messages == [kind : {"hello"}, slot : {0}] \cup [kind : {"place_bet", "cashout"}, slot : Slots]

\* The frames that say which round it is, that reveal a seed, that settle a panel.
NumberFrames == {f \in RoundFrames : f.kind # "crash"}
SeedFrames == {f \in RoundFrames : f.kind = "crash" \/ (f.kind = "phase_change" /\ f.phase = "RESULT")}
PanelFrames(s) == {f \in Frames : \/ f.kind \in {"join", "crash"} \/ (f.kind = "phase_change" /\ f.phase = "BETTING")
                                  \/ (f.kind \in {"bet_placed", "cashout_success"} /\ f.slot = s)}

TabTypes ==
  /\ stage \in [no : Nat, phase : Phases]
  /\ seats \in [Slots -> Seq(BOOLEAN)]
  /\ \A d \in debits : /\ d = [ask |-> d.ask, slot |-> d.slot, no |-> d.no, ws |-> d.ws]
                       /\ d.slot \in Slots /\ d.no \in Nat /\ d.ws \in {"here", "gone", "old"}
  /\ cashouts \subseteq [slot : Slots, no : Nat, ok : BOOLEAN]
  /\ sock \in {"down", "up", "claimed"} /\ toTab \in Seq(Frames) /\ toServer \in Seq(Messages)
  /\ alive \in BOOLEAN /\ clean \in BOOLEAN
  /\ tab \in [phase : Phases, no : Nat, commit : Nat, seed : Nat, prev : Int, hasBet : [Slots -> BOOLEAN], rebets : Nat]

\* What is shown, under way or on the stage later is not of an earlier round, nor of
\* a betting window that was over.
Follows(b, a) == a.no <= b.no /\ (a.no = b.no /\ b.phase = "BETTING" => a.phase = "BETTING")
InOrder(g, t, q) ==
  /\ Follows(g, t)
  /\ \A i \in DOMAIN q : q[i] \in RoundFrames => Follows(q[i], t) /\ Follows(g, q[i])
  /\ \A i, j \in DOMAIN q : i < j /\ q[i] \in RoundFrames /\ q[j] \in RoundFrames => Follows(q[j], q[i])
OrderInv == InOrder(stage, tab, toTab)

\* The snapshot is the first frame of a socket, and a frame that ends a window comes
\* after one that says which round it ends.
Known(t, q, i, n) == t.no = n \/ \E j \in DOMAIN q : j < i /\ q[j] \in NumberFrames /\ q[j].no = n
Announces(f) == f.kind = "join" \/ (f.kind = "phase_change" /\ f.phase = "BETTING")
AllKnown(t, q) == \A i \in DOMAIN q : q[i] \in RoundFrames => Announces(q[i]) \/ Known(t, q, i, q[i].no)
KindsRight(q) == \A i \in DOMAIN q : q[i].kind = "crash" => q[i].phase = "CRASHED"
TabRight(t) == t.commit = t.no /\ t.prev \in {t.no - 1, t.no} /\ t.rebets <= Cardinality(RebetSlots)
RoundInv ==
  /\ AllKnown(tab, toTab) /\ KindsRight(toTab) /\ TabRight(tab)
  /\ Open => Known(tab, toTab, Len(toTab) + 1, stage.no)

\* Once everything under way has arrived, the tab shows the stage.
RoundShown(t, q) == LET f == LastOf(RoundFrames, q) IN IF f = None THEN [no |-> t.no, phase |-> t.phase]
                                                                 ELSE [no |-> f.no, phase |-> f.phase]
SeedShown(t, q) == LET f == LastOf(SeedFrames, q) IN IF f = None THEN t.seed ELSE f.no
BetShown(t, q, s) == LET f == LastOf(PanelFrames(s), q) IN IF f = None THEN t.hasBet[s] ELSE f.kind = "bet_placed"
SocketInv ==
  /\ ~Open => toTab = <<>> /\ toServer = <<>>
  /\ \A d \in debits : d.ws = "here" => Open
  /\ Open => RoundShown(tab, toTab) = stage

\* While the socket holds, so do the seed and the panels.
CleanSocket ==
  /\ sock = "claimed" /\ alive
  /\ \A d \in debits : d.no = stage.no /\ d.ws = "here"
  /\ \A c \in cashouts : \E i \in DOMAIN seats[c.slot] : seats[c.slot][i]
PanelHolds(t, q, seat, owed, s) ==
  /\ seat = <<FALSE>> => BetShown(t, q, s)
  /\ BetShown(t, q, s) => (\E i \in DOMAIN seat : ~seat[i]) \/ owed
CleanInv ==
  clean => /\ CleanSocket
           /\ stage.phase \in {"CRASHED", "RESULT"} => SeedShown(tab, toTab) = stage.no
           /\ stage.phase \in {"BETTING", "FLYING"} =>
                \A s \in Slots : PanelHolds(tab, toTab, seats[s], Owed(s), s)

TabInv == TabTypes /\ OrderInv /\ RoundInv /\ SocketInv /\ CleanInv

-----------------------------------------------------------------------------
(* The last frame of some kind. *)

\* The last one is found.
LEMMA LastFound ==
  ASSUME NEW S, NEW q \in Seq(S), NEW K, NEW m \in DOMAIN q, q[m] \in K, \A j \in DOMAIN q : j > m => q[j] \notin K
  PROVE  LastOf(K, q) = q[m]
  <1> DEFINE P(i) == q[i] \in K /\ \A j \in DOMAIN q : j > i => q[j] \notin K
  <1>1. DOMAIN q = 1..Len(q) /\ Len(q) \in Nat BY LenProperties
  <1>2. P(m) OBVIOUS
  <1>3. \A i \in DOMAIN q : P(i) => i = m BY <1>1
  <1>4. LastOf(K, q) = q[CHOOSE i \in DOMAIN q : P(i)] BY DEF LastOf
  <1> HIDE DEF P
  <1>5. (CHOOSE i \in DOMAIN q : P(i)) = m BY <1>2, <1>3
  <1> QED BY <1>4, <1>5

\* If there is one, one is the last.
LEMMA LastExists ==
  ASSUME NEW S, NEW q \in Seq(S), NEW K
  PROVE  \/ (\A i \in DOMAIN q : q[i] \notin K) /\ LastOf(K, q) = None
         \/ \E m \in DOMAIN q : /\ q[m] \in K /\ LastOf(K, q) = q[m]
                                /\ \A j \in DOMAIN q : j > m => q[j] \notin K
  <1>1. CASE \A i \in DOMAIN q : q[i] \notin K BY <1>1 DEF LastOf
  <1>2. CASE \E i \in DOMAIN q : q[i] \in K
    <2> DEFINE I == {i \in DOMAIN q : q[i] \in K}
    <2>1. Len(q) \in Nat /\ DOMAIN q = 1..Len(q) BY LenProperties
    <2>2. I \in SUBSET (1..Len(q)) /\ I # {} BY <1>2, <2>1
    <2>3. PICK m \in I : \A j \in I : j <= m BY <2>1, <2>2, LastPosition
    <2>4. \A j \in DOMAIN q : j > m => q[j] \notin K
      <3> SUFFICES ASSUME NEW j \in DOMAIN q, j > m, q[j] \in K PROVE FALSE OBVIOUS
      <3>1. j \in I /\ j \in Int /\ m \in Int BY <2>1
      <3> QED BY <2>3, <3>1
    <2> QED BY <2>3, <2>4, LastFound
  <1> QED BY <1>1, <1>2

LEMMA LastAppended ==
  ASSUME NEW S, NEW q \in Seq(S), NEW f \in S, NEW K
  PROVE  LastOf(K, Append(q, f)) = IF f \in K THEN f ELSE LastOf(K, q)
  <1> DEFINE u == Append(q, f)
  <1>1. /\ u \in Seq(S) /\ Len(u) = Len(q) + 1 /\ u[Len(q) + 1] = f
        /\ \A i \in 1..Len(q) : u[i] = q[i]
    BY AppendProperties
  <1>2. DOMAIN q = 1..Len(q) /\ DOMAIN u = 1..(Len(q) + 1) /\ Len(q) \in Nat BY <1>1, LenProperties
  <1> HIDE DEF u
  <1>3. CASE f \in K
    <2>1. Len(q) + 1 \in DOMAIN u /\ \A j \in DOMAIN u : j > Len(q) + 1 => u[j] \notin K BY <1>2
    <2>2. LastOf(K, u) = f BY <1>1, <1>3, <2>1, LastFound
    <2> QED BY <1>3, <2>2 DEF u
  <1>4. CASE f \notin K
    <2>1. CASE \A i \in DOMAIN q : q[i] \notin K
      <3>1. \A i \in DOMAIN u : u[i] \notin K BY <1>1, <1>2, <1>4, <2>1
      <3>2. LastOf(K, q) = None /\ LastOf(K, u) = None BY <2>1, <3>1 DEF LastOf
      <3> QED BY <1>4, <3>2 DEF u
    <2>2. CASE \E i \in DOMAIN q : q[i] \in K
      <3>1. PICK m \in DOMAIN q : q[m] \in K /\ LastOf(K, q) = q[m] /\ \A j \in DOMAIN q : j > m => q[j] \notin K
        BY <2>2, LastExists
      <3>2. m \in DOMAIN u /\ u[m] = q[m] BY <1>1, <1>2
      <3>3. \A j \in DOMAIN u : j > m => u[j] \notin K BY <1>1, <1>2, <1>4, <3>1
      <3>4. LastOf(K, u) = q[m] BY <1>1, <3>1, <3>2, <3>3, LastFound
      <3> QED BY <1>4, <3>1, <3>4 DEF u
    <2> QED BY <2>1, <2>2
  <1> QED BY <1>3, <1>4

LEMMA LastOfTail ==
  ASSUME NEW S, NEW q \in Seq(S), q # <<>>, NEW K, None \notin K
  PROVE  LastOf(K, q) = IF LastOf(K, Tail(q)) # None THEN LastOf(K, Tail(q))
                        ELSE IF Head(q) \in K THEN Head(q) ELSE None
  <1> DEFINE t == Tail(q)
  <1>1. /\ t \in Seq(S) /\ Len(t) = Len(q) - 1 /\ \A i \in 1..Len(t) : t[i] = q[i + 1]
        /\ Head(q) = q[1]
    BY HeadTailProperties
  <1>2. DOMAIN q = 1..Len(q) /\ DOMAIN t = 1..(Len(q) - 1) /\ Len(q) \in Nat /\ Len(q) > 0
    BY <1>1, LenProperties, EmptySeq
  <1>3. \A i \in 1..(Len(q) - 1) : t[i] = q[i + 1] BY <1>1
  <1> HIDE DEF t
  <1>4. \A j \in DOMAIN q : j # 1 => j - 1 \in DOMAIN t /\ t[j - 1] = q[j]
    <2> SUFFICES ASSUME NEW j \in DOMAIN q, j # 1 PROVE j - 1 \in DOMAIN t /\ t[j - 1] = q[j] OBVIOUS
    <2>1. j - 1 \in 1..(Len(q) - 1) /\ (j - 1) + 1 = j BY <1>2
    <2> QED BY <1>2, <1>3, <2>1
  <1>5. CASE \A i \in DOMAIN t : t[i] \notin K
    <2>1. LastOf(K, t) = None BY <1>5 DEF LastOf
    <2>2. \A j \in DOMAIN q : j > 1 => q[j] \notin K BY <1>2, <1>4, <1>5
    <2>3. CASE q[1] \in K
      <3>1. LastOf(K, q) = q[1] BY <1>2, <2>2, <2>3, LastFound
      <3> QED BY <1>1, <2>1, <2>3, <3>1 DEF t
    <2>4. CASE q[1] \notin K
      <3>1. \A j \in DOMAIN q : q[j] \notin K BY <1>2, <2>2, <2>4
      <3>2. LastOf(K, q) = None BY <3>1 DEF LastOf
      <3> QED BY <1>1, <2>1, <2>4, <3>2 DEF t
    <2> QED BY <2>3, <2>4
  <1>6. CASE \E i \in DOMAIN t : t[i] \in K
    <2>1. PICK m \in DOMAIN t : t[m] \in K /\ LastOf(K, t) = t[m] /\ \A j \in DOMAIN t : j > m => t[j] \notin K
      BY <1>1, <1>6, LastExists
    <2>2. m + 1 \in DOMAIN q /\ q[m + 1] = t[m] BY <1>2, <1>3
    <2>3. \A j \in DOMAIN q : j > m + 1 => q[j] \notin K
      <3> SUFFICES ASSUME NEW j \in DOMAIN q, j > m + 1 PROVE q[j] \notin K OBVIOUS
      <3>1. j # 1 /\ j - 1 > m BY <1>2
      <3> QED BY <1>4, <2>1, <3>1
    <2>4. LastOf(K, q) = t[m] BY <2>1, <2>2, <2>3, LastFound
    <2> QED BY <2>1, <2>4 DEF t
  <1> QED BY <1>5, <1>6

-----------------------------------------------------------------------------
(* What a step does to the frames under way. *)

TabRecords == [phase : Phases, no : Nat, commit : Nat, seed : Nat, prev : Int, hasBet : [Slots -> BOOLEAN], rebets : Nat]

\* What kinds of frame there are.
LEMMA FrameKinds ==
  ASSUME NEW f \in Frames
  PROVE  /\ f.no \in Nat
         /\ f \in RoundFrames <=> f.kind \in {"join", "phase_change", "crash"}
         /\ f \in RoundFrames => f.phase \in Phases
         /\ f \in NumberFrames <=> f.kind \in {"join", "phase_change"}
         /\ f \in SeedFrames <=> f.kind = "crash" \/ (f.kind = "phase_change" /\ f.phase = "RESULT")
         /\ f.kind \in {"bet_placed", "cashout_success"} => f.slot \in Slots
         /\ f.kind \in {"join", "phase_change", "crash", "bet_placed", "cashout_success", "session_invalid"}
         /\ \A s : f \in PanelFrames(s) <=> \/ f.kind \in {"join", "crash"} \/ (f.kind = "phase_change" /\ f.phase = "BETTING")
                                           \/ (f.kind \in {"bet_placed", "cashout_success"} /\ f.slot = s)
  BY DEF Frames, RoundFrames, SlotFrames, InvalidFrames, NumberFrames, SeedFrames, PanelFrames

\* No frame is None.
LEMMA NoneIsNone == None \notin Frames /\ None \notin RoundFrames /\ None \notin SeedFrames /\ \A s : None \notin PanelFrames(s)
  BY DEF None, Frames, RoundFrames, SlotFrames, InvalidFrames, SeedFrames, PanelFrames

\* The frames and messages the code makes.
LEMMA FramesMade ==
  /\ \A k \in {"join", "phase_change", "crash"}, n \in Nat, phase \in Phases :
       /\ Frame(k, n, phase) \in Frames /\ Frame(k, n, phase) \in RoundFrames
       /\ Frame(k, n, phase).kind = k /\ Frame(k, n, phase).no = n /\ Frame(k, n, phase).phase = phase
  /\ \A k \in {"bet_placed", "cashout_success"}, s \in Slots :
       /\ SlotFrame(k, s) \in Frames /\ SlotFrame(k, s) \notin RoundFrames
       /\ SlotFrame(k, s).kind = k /\ SlotFrame(k, s).slot = s
  /\ SlotFrame("session_invalid", 0) \in Frames /\ SlotFrame("session_invalid", 0) \notin RoundFrames
  /\ SlotFrame("session_invalid", 0).kind = "session_invalid"
  /\ \A s \in Slots : Message("place_bet", s) \in Messages /\ Message("cashout", s) \in Messages
  /\ Message("hello", 0) \in Messages
  BY DEF Frame, SlotFrame, Message, Frames, RoundFrames, SlotFrames, InvalidFrames, Messages

\* What a message asks about.
LEMMA MessageTaken ==
  ASSUME TabTypes, NEW k, Takes(k)
  PROVE  /\ toServer' \in Seq(Messages) /\ Head(toServer) \in Messages
         /\ k # "hello" => Head(toServer).slot \in Slots
  <1>1. toServer # <<>> /\ Head(toServer).kind = k /\ toServer' = Tail(toServer) /\ toServer \in Seq(Messages)
    BY DEF Takes, TabTypes
  <1>2. Head(toServer) \in Messages /\ Tail(toServer) \in Seq(Messages) BY <1>1, HeadTailProperties
  <1> QED BY <1>1, <1>2 DEF Messages

\* Auto bets: one for each panel that has none, when a betting window is shown.
LEMMA RebetsSent ==
  ASSUME NEW before, NEW after
  PROVE  /\ Rebets(before, after) \in Seq(Messages)
         /\ Len(Rebets(before, after)) \in Nat /\ Len(Rebets(before, after)) <= Cardinality(RebetSlots)
         /\ Cardinality(RebetSlots) \in Nat
         /\ Len(Rebets(before, after)) # 0 => after.phase = "BETTING" /\ before.phase # "BETTING"
  <1> DEFINE R == {r \in RebetSlots : ~after.hasBet[r]}
             M == {Message("place_bet", s) : s \in R}
             n == Cardinality(M)
             q == SetToSeq(M)
             f == [r \in R |-> Message("place_bet", r)]
  <1>1. RebetSlots \subseteq Slots /\ IsFiniteSet(RebetSlots) BY GameTabAssumption, FS_Subset
  <1>2. IsFiniteSet(R) /\ Cardinality(R) \in Nat /\ Cardinality(R) <= Cardinality(RebetSlots) /\ Cardinality(RebetSlots) \in Nat
    <2>1. R \subseteq RebetSlots OBVIOUS
    <2> HIDE DEF R
    <2> QED BY <1>1, <2>1, FS_Subset, FS_CardinalityType
  <1>3. M \subseteq Messages BY <1>1, FramesMade
  <1>4. f \in Surjection(R, M) BY DEF Surjection
  <1> HIDE DEF f, R
  <1>5. IsFiniteSet(M) /\ n \in Nat /\ n <= Cardinality(R) BY <1>2, <1>4, FS_Surjection, FS_CardinalityType
  <1> HIDE DEF M
  <1>6. \E g \in [1..n -> M] : IsInjective(g)
    <2>1. ExistsBijection(1..n, M) BY <1>5, FS_CardinalityType
    <2> QED BY <2>1 DEF ExistsBijection, Bijection, Injection
  <1>7. q \in [1..n -> M] BY <1>6 DEF SetToSeq
  <1> HIDE DEF n, q
  <1>8. q \in Seq(M) /\ Len(q) = n BY <1>5, <1>7
  <1>9. q \in Seq(Messages) BY <1>3, <1>8, SeqMonotonic
  <1>10. Rebets(before, after) = IF after.phase = "BETTING" /\ before.phase # "BETTING" THEN q ELSE <<>>
    BY DEF Rebets, q, M, R
  <1> QED BY <1>2, <1>5, <1>8, <1>9, <1>10

\* What a frame changes in the tab.
LEMMA FrameShown ==
  ASSUME TabTypes, NEW f \in Frames, f.kind # "session_invalid", f.kind = "crash" => f.phase = "CRASHED"
  PROVE  LET t == AfterFrame(tab, f)
         IN  /\ t \in TabRecords
             /\ t.phase = IF f \in RoundFrames THEN f.phase ELSE tab.phase
             /\ t.no = IF f \in NumberFrames THEN f.no ELSE tab.no
             /\ t.commit = IF Announces(f) THEN f.no ELSE tab.commit
             /\ Announces(f) => t.prev \in {f.no - 1, f.no}
             /\ ~Announces(f) => t.prev = tab.prev
             /\ t.seed = IF f \in SeedFrames THEN f.no ELSE tab.seed
             /\ \A s \in Slots : t.hasBet[s] = IF f \in PanelFrames(s) THEN f.kind = "bet_placed" ELSE tab.hasBet[s]
             /\ t.rebets = tab.rebets
  <1> DEFINE t == AfterFrame(tab, f)
  <1>1. /\ tab \in TabRecords /\ tab.hasBet \in [Slots -> BOOLEAN] /\ tab.no \in Nat /\ tab.commit \in Nat /\ tab.seed \in Nat
        /\ tab.prev \in Int /\ tab.rebets \in Nat /\ tab.phase \in Phases
    BY DEF TabTypes, TabRecords
  <1>2. NoSlots \in [Slots -> BOOLEAN] /\ \A s \in Slots : NoSlots[s] = FALSE BY DEF NoSlots
  <1> USE FrameKinds
  <1>3. CASE f.kind = "join"
    <2> DEFINE prev == IF f.phase \in {"CRASHED", "RESULT"} THEN f.no ELSE f.no - 1
    <2>1. t = [tab EXCEPT !.phase = f.phase, !.no = f.no, !.commit = f.no, !.hasBet = NoSlots, !.prev = prev]
      BY <1>3 DEF AfterFrame, AfterJoin
    <2>2. f.no \in Nat /\ f.phase \in Phases /\ prev \in Int /\ prev \in {f.no - 1, f.no} BY <1>3
    <2> HIDE DEF t, prev
    <2>3. t \in TabRecords BY <1>1, <1>2, <2>1, <2>2 DEF TabRecords
    <2>4. /\ t.phase = f.phase /\ t.no = f.no /\ t.commit = f.no /\ t.hasBet = NoSlots /\ t.prev = prev
          /\ t.seed = tab.seed /\ t.rebets = tab.rebets
      BY <1>1, <2>1 DEF TabRecords
    <2> QED BY <1>2, <1>3, <2>2, <2>3, <2>4 DEF t, Announces
  <1>4. CASE f.kind = "phase_change"
    <2>1. f.no \in Nat /\ f.phase \in Phases BY <1>4
    <2>2. CASE f.phase = "BETTING"
      <3>1. t = [tab EXCEPT !.phase = f.phase, !.no = f.no, !.commit = f.no, !.prev = f.no - 1, !.hasBet = NoSlots]
        <4>1. t = [tab EXCEPT !.phase = f.phase, !.no = f.no, !.commit = f.no, !.prev = f.no - 1, !.seed = tab.seed, !.hasBet = NoSlots]
          BY <1>4, <2>2 DEF AfterFrame, AfterPhase
        <4> QED BY <1>1, <4>1 DEF TabRecords
      <3> HIDE DEF t
      <3>2. t \in TabRecords
        <4> DEFINE u == [tab EXCEPT !.phase = f.phase, !.no = f.no, !.commit = f.no]
                   prev == f.no - 1
        <4>1. u \in TabRecords BY <1>1, <2>1 DEF TabRecords
        <4>2. t = [u EXCEPT !.prev = prev, !.hasBet = NoSlots] BY <1>1, <3>1 DEF TabRecords
        <4>3. prev \in Int BY <2>1
        <4> HIDE DEF u, prev
        <4> QED BY <1>2, <4>1, <4>2, <4>3 DEF TabRecords
      <3>3. /\ t.phase = f.phase /\ t.no = f.no /\ t.commit = f.no /\ t.hasBet = NoSlots /\ t.prev = f.no - 1
            /\ t.seed = tab.seed /\ t.rebets = tab.rebets
        BY <1>1, <3>1 DEF TabRecords
      <3> QED BY <1>2, <1>4, <2>1, <2>2, <3>2, <3>3 DEF t, Announces
    <2>3. CASE f.phase # "BETTING"
      <3> DEFINE seed == IF f.phase = "RESULT" THEN f.no ELSE tab.seed
      <3>1. t = [tab EXCEPT !.phase = f.phase, !.no = f.no, !.seed = seed]
        <4>1. t = [tab EXCEPT !.phase = f.phase, !.no = f.no, !.commit = tab.commit, !.prev = tab.prev, !.seed = seed, !.hasBet = tab.hasBet]
          BY <1>4, <2>3 DEF AfterFrame, AfterPhase
        <4> HIDE DEF seed
        <4> QED BY <1>1, <4>1 DEF TabRecords
      <3>2. seed \in Nat BY <1>1, <2>1
      <3> HIDE DEF t, seed
      <3>3. t \in TabRecords BY <1>1, <2>1, <3>1, <3>2 DEF TabRecords
      <3>4. /\ t.phase = f.phase /\ t.no = f.no /\ t.commit = tab.commit /\ t.hasBet = tab.hasBet /\ t.prev = tab.prev
            /\ t.seed = seed /\ t.rebets = tab.rebets
        BY <1>1, <3>1 DEF TabRecords
      <3> QED BY <1>4, <2>1, <2>3, <3>3, <3>4 DEF t, seed, Announces
    <2> QED BY <2>2, <2>3
  <1>5. CASE f.kind = "crash"
    <2>1. t = [tab EXCEPT !.phase = "CRASHED", !.seed = f.no, !.hasBet = NoSlots] BY <1>5 DEF AfterFrame, AfterCrash
    <2>2. f.no \in Nat /\ f.phase = "CRASHED" /\ "CRASHED" \in Phases BY <1>5 DEF Phases
    <2> HIDE DEF t
    <2>3. t \in TabRecords BY <1>1, <1>2, <2>1, <2>2 DEF TabRecords
    <2>4. /\ t.phase = f.phase /\ t.no = tab.no /\ t.commit = tab.commit /\ t.hasBet = NoSlots /\ t.prev = tab.prev
          /\ t.seed = f.no /\ t.rebets = tab.rebets
      BY <1>1, <2>1, <2>2 DEF TabRecords
    <2> QED BY <1>2, <1>5, <2>2, <2>3, <2>4 DEF t, Announces
  <1>6. CASE f.kind \in {"bet_placed", "cashout_success"}
    <2> DEFINE has == [tab.hasBet EXCEPT ![f.slot] = (f.kind = "bet_placed")]
    <2>1. t = [tab EXCEPT !.hasBet = has]
      <3>1. CASE f.kind = "bet_placed" BY <3>1 DEF AfterFrame
      <3>2. CASE f.kind = "cashout_success" BY <3>2 DEF AfterFrame
      <3> QED BY <1>6, <3>1, <3>2
    <2>2. /\ f.slot \in Slots /\ has \in [Slots -> BOOLEAN]
          /\ \A s \in Slots : has[s] = IF s = f.slot THEN f.kind = "bet_placed" ELSE tab.hasBet[s]
      BY <1>1, <1>6
    <2> HIDE DEF t, has
    <2>3. t \in TabRecords BY <1>1, <2>1, <2>2 DEF TabRecords
    <2>4. /\ t.phase = tab.phase /\ t.no = tab.no /\ t.commit = tab.commit /\ t.hasBet = has /\ t.prev = tab.prev
          /\ t.seed = tab.seed /\ t.rebets = tab.rebets
      BY <1>1, <2>1 DEF TabRecords
    <2> QED BY <1>6, <2>2, <2>3, <2>4 DEF t, Announces
  <1> QED BY <1>3, <1>4, <1>5, <1>6
-----------------------------------------------------------------------------
(* Frames that join the queue and leave it. *)

LEMMA FrameAppended ==
  ASSUME NEW S, NEW q \in Seq(S), NEW f \in S
  PROVE  /\ Append(q, f) \in Seq(S) /\ Len(Append(q, f)) = Len(q) + 1 /\ Append(q, f)[Len(q) + 1] = f
         /\ DOMAIN q = 1..Len(q) /\ DOMAIN Append(q, f) = 1..(Len(q) + 1) /\ Len(q) \in Nat
         /\ \A i \in DOMAIN q : i \in DOMAIN Append(q, f) /\ Append(q, f)[i] = q[i]
         /\ \A i \in DOMAIN Append(q, f) : i \in DOMAIN q \/ i = Len(q) + 1
  <1> DEFINE u == Append(q, f)
  <1>1. u \in Seq(S) /\ Len(u) = Len(q) + 1 /\ u[Len(q) + 1] = f /\ \A i \in 1..Len(q) : u[i] = q[i]
    BY AppendProperties
  <1>2. DOMAIN q = 1..Len(q) /\ DOMAIN u = 1..(Len(q) + 1) /\ Len(q) \in Nat BY <1>1, LenProperties
  <1> HIDE DEF u
  <1>3. /\ \A i \in DOMAIN q : i \in DOMAIN u /\ u[i] = q[i]
        /\ \A i \in DOMAIN u : i \in DOMAIN q \/ i = Len(q) + 1
    BY <1>1, <1>2
  <1> QED BY <1>1, <1>2, <1>3 DEF u

LEMMA FrameTaken ==
  ASSUME NEW S, NEW q \in Seq(S), q # <<>>
  PROVE  /\ Tail(q) \in Seq(S) /\ Len(Tail(q)) = Len(q) - 1 /\ Len(q) \in Nat /\ Len(q) > 0
         /\ DOMAIN q = 1..Len(q) /\ DOMAIN Tail(q) = 1..(Len(q) - 1) /\ 1 \in DOMAIN q
         /\ Head(q) = q[1] /\ Head(q) \in S
         /\ \A i \in DOMAIN Tail(q) : i + 1 \in DOMAIN q /\ Tail(q)[i] = q[i + 1]
  <1> DEFINE u == Tail(q)
  <1>1. u \in Seq(S) /\ Len(u) = Len(q) - 1 /\ Head(q) = q[1] /\ Head(q) \in S /\ \A i \in 1..Len(u) : u[i] = q[i + 1]
    BY HeadTailProperties
  <1>2. DOMAIN q = 1..Len(q) /\ DOMAIN u = 1..(Len(q) - 1) /\ Len(q) \in Nat /\ Len(q) > 0
    BY <1>1, LenProperties, EmptySeq
  <1> HIDE DEF u
  <1>3. \A i \in DOMAIN u : i + 1 \in DOMAIN q /\ u[i] = q[i + 1] BY <1>1, <1>2
  <1> QED BY <1>1, <1>2, <1>3 DEF u

\* A later frame is what is shown.
LEMMA ShownAppended ==
  ASSUME NEW t, NEW q \in Seq(Frames), NEW f \in Frames
  PROVE  /\ RoundShown(t, Append(q, f)) = IF f \in RoundFrames THEN [no |-> f.no, phase |-> f.phase] ELSE RoundShown(t, q)
         /\ SeedShown(t, Append(q, f)) = IF f \in SeedFrames THEN f.no ELSE SeedShown(t, q)
         /\ \A s : BetShown(t, Append(q, f), s) = IF f \in PanelFrames(s) THEN f.kind = "bet_placed" ELSE BetShown(t, q, s)
  <1> DEFINE u == Append(q, f)
  <1>1. f # None BY NoneIsNone
  <1>2. LastOf(RoundFrames, u) = IF f \in RoundFrames THEN f ELSE LastOf(RoundFrames, q) BY LastAppended
  <1>3. LastOf(SeedFrames, u) = IF f \in SeedFrames THEN f ELSE LastOf(SeedFrames, q) BY LastAppended
  <1>4. \A s : LastOf(PanelFrames(s), u) = IF f \in PanelFrames(s) THEN f ELSE LastOf(PanelFrames(s), q)
    <2> TAKE s
    <2> QED BY LastAppended
  <1> HIDE DEF u
  <1>5. RoundShown(t, u) = IF f \in RoundFrames THEN [no |-> f.no, phase |-> f.phase] ELSE RoundShown(t, q)
    BY <1>1, <1>2 DEF RoundShown
  <1>6. SeedShown(t, u) = IF f \in SeedFrames THEN f.no ELSE SeedShown(t, q) BY <1>1, <1>3 DEF SeedShown
  <1>7. \A s : BetShown(t, u, s) = IF f \in PanelFrames(s) THEN f.kind = "bet_placed" ELSE BetShown(t, q, s)
    <2> TAKE s
    <2>1. CASE f \in PanelFrames(s) BY <1>1, <1>4, <2>1 DEF BetShown
    <2>2. CASE f \notin PanelFrames(s) BY <1>4, <2>2 DEF BetShown
    <2> QED BY <2>1, <2>2
  <1> QED BY <1>5, <1>6, <1>7 DEF u

\* The frame the tab reads goes on being shown.
Reads(t, u, f) ==
  /\ f \in RoundFrames => u.no = f.no /\ u.phase = f.phase
  /\ f \notin RoundFrames => u.no = t.no /\ u.phase = t.phase
  /\ u.seed = IF f \in SeedFrames THEN f.no ELSE t.seed
  /\ \A s \in Slots : u.hasBet[s] = IF f \in PanelFrames(s) THEN f.kind = "bet_placed" ELSE t.hasBet[s]

LEMMA ShownTaken ==
  ASSUME NEW q \in Seq(Frames), q # <<>>, NEW t, NEW u, Reads(t, u, Head(q))
  PROVE  /\ RoundShown(u, Tail(q)) = RoundShown(t, q) /\ SeedShown(u, Tail(q)) = SeedShown(t, q)
         /\ \A s \in Slots : BetShown(u, Tail(q), s) = BetShown(t, q, s)
  <1> DEFINE f == Head(q)
             r == Tail(q)
  <1>1. f \in Frames BY FrameTaken
  <1>2. f # None BY <1>1, NoneIsNone
  <1>3. LastOf(RoundFrames, q) = IF LastOf(RoundFrames, r) # None THEN LastOf(RoundFrames, r)
                                 ELSE IF f \in RoundFrames THEN f ELSE None
    BY NoneIsNone, LastOfTail
  <1>4. LastOf(SeedFrames, q) = IF LastOf(SeedFrames, r) # None THEN LastOf(SeedFrames, r)
                                ELSE IF f \in SeedFrames THEN f ELSE None
    BY NoneIsNone, LastOfTail
  <1>5. \A s : LastOf(PanelFrames(s), q) = IF LastOf(PanelFrames(s), r) # None THEN LastOf(PanelFrames(s), r)
                                           ELSE IF f \in PanelFrames(s) THEN f ELSE None
    <2> TAKE s
    <2>1. None \notin PanelFrames(s) BY NoneIsNone
    <2> QED BY <2>1, LastOfTail
  <1>6. Reads(t, u, f) OBVIOUS
  <1> HIDE DEF f, r
  <1>7. RoundShown(u, r) = RoundShown(t, q) BY <1>2, <1>3, <1>6 DEF RoundShown, Reads
  <1>8. SeedShown(u, r) = SeedShown(t, q) BY <1>2, <1>4, <1>6 DEF SeedShown, Reads
  <1>9. \A s \in Slots : BetShown(u, r, s) = BetShown(t, q, s)
    <2> TAKE s \in Slots
    <2>1. CASE LastOf(PanelFrames(s), r) # None BY <1>5, <2>1 DEF BetShown
    <2>2. CASE LastOf(PanelFrames(s), r) = None /\ f \in PanelFrames(s) BY <1>2, <1>5, <1>6, <2>2 DEF BetShown, Reads
    <2>3. CASE LastOf(PanelFrames(s), r) = None /\ f \notin PanelFrames(s) BY <1>5, <1>6, <2>3 DEF BetShown, Reads
    <2> QED BY <2>1, <2>2, <2>3
  <1> QED BY <1>7, <1>8, <1>9 DEF f, r

-----------------------------------------------------------------------------
(* Order. *)

LEMMA FollowsOn ==
  ASSUME NEW a, NEW b, NEW c, a.no \in Nat, b.no \in Nat, c.no \in Nat, Follows(b, a), Follows(c, b)
  PROVE  Follows(c, a)
  BY DEF Follows

\* The stage moves on, and tells the socket.
LEMMA OrderAppended ==
  ASSUME NEW g, NEW h, NEW t, NEW q \in Seq(Frames), NEW f \in Frames, g.no \in Nat, h.no \in Nat, t.no \in Nat,
         InOrder(g, t, q), Follows(h, g), f \in RoundFrames => f.no = h.no /\ f.phase = h.phase
  PROVE  InOrder(h, t, q) /\ InOrder(h, t, Append(q, f))
  <1> DEFINE u == Append(q, f)
  <1>1. /\ DOMAIN q = 1..Len(q) /\ Len(q) \in Nat /\ u[Len(q) + 1] = f
        /\ \A i \in DOMAIN q : i \in DOMAIN u /\ u[i] = q[i]
        /\ \A i \in DOMAIN u : i \in DOMAIN q \/ i = Len(q) + 1
    BY FrameAppended
  <1> HIDE DEF u
  <1>2. \A i \in DOMAIN q : q[i] \in Frames /\ q[i].no \in Nat BY <1>1, ElementOfSeq, FrameKinds
  <1>3. Follows(h, t)
    <2>1. Follows(g, t) BY DEF InOrder
    <2> QED BY <2>1, FollowsOn
  <1>4. \A i \in DOMAIN q : q[i] \in RoundFrames => Follows(q[i], t) /\ Follows(h, q[i])
    <2> SUFFICES ASSUME NEW i \in DOMAIN q, q[i] \in RoundFrames PROVE Follows(q[i], t) /\ Follows(h, q[i]) OBVIOUS
    <2>1. Follows(q[i], t) /\ Follows(g, q[i]) BY DEF InOrder
    <2>2. q[i].no \in Nat BY <1>2
    <2>3. Follows(h, q[i]) BY <2>1, <2>2, FollowsOn
    <2> QED BY <2>1, <2>3
  <1>5. InOrder(h, t, q) BY <1>3, <1>4 DEF InOrder
  <1>6. \A i \in DOMAIN u : u[i] \in RoundFrames => Follows(u[i], t) /\ Follows(h, u[i])
    <2> SUFFICES ASSUME NEW i \in DOMAIN u, u[i] \in RoundFrames PROVE Follows(u[i], t) /\ Follows(h, u[i]) OBVIOUS
    <2>1. CASE i \in DOMAIN q BY <1>1, <1>4, <2>1
    <2>2. CASE i = Len(q) + 1
      <3>1. u[i].no = h.no /\ u[i].phase = h.phase BY <1>1, <2>2
      <3> QED BY <1>3, <3>1 DEF Follows
    <2> QED BY <1>1, <2>1, <2>2
  <1>7. \A i, j \in DOMAIN u : i < j /\ u[i] \in RoundFrames /\ u[j] \in RoundFrames => Follows(u[j], u[i])
    <2> SUFFICES ASSUME NEW i \in DOMAIN u, NEW j \in DOMAIN u, i < j, u[i] \in RoundFrames, u[j] \in RoundFrames
                 PROVE  Follows(u[j], u[i])
      OBVIOUS
    <2>1. i \in DOMAIN q BY <1>1
    <2>2. u[i] = q[i] BY <1>1, <2>1
    <2>3. CASE j \in DOMAIN q
      <3>1. u[j] = q[j] BY <1>1, <2>3
      <3> QED BY <2>1, <2>2, <2>3, <3>1 DEF InOrder
    <2>4. CASE j = Len(q) + 1
      <3>1. u[j].no = h.no /\ u[j].phase = h.phase BY <1>1, <2>4
      <3>2. Follows(h, u[i]) BY <1>4, <2>1, <2>2
      <3> QED BY <3>1, <3>2 DEF Follows
    <2> QED BY <1>1, <2>3, <2>4
  <1>8. InOrder(h, t, u) BY <1>3, <1>6, <1>7 DEF InOrder
  <1> QED BY <1>5, <1>8 DEF u

\* The tab reads a frame.
LEMMA OrderTaken ==
  ASSUME NEW g, NEW t, NEW u, NEW q \in Seq(Frames), q # <<>>, InOrder(g, t, q), Reads(t, u, Head(q))
  PROVE  InOrder(g, u, Tail(q))
  <1> DEFINE r == Tail(q)
             f == Head(q)
  <1>1. /\ DOMAIN q = 1..Len(q) /\ Len(q) \in Nat /\ 1 \in DOMAIN q /\ f = q[1]
        /\ DOMAIN r = 1..(Len(q) - 1) /\ \A i \in DOMAIN r : i + 1 \in DOMAIN q /\ r[i] = q[i + 1]
    BY FrameTaken
  <1>2. Reads(t, u, f) OBVIOUS
  <1> HIDE DEF r, f
  <1>3. Follows(g, u)
    <2>1. CASE f \in RoundFrames
      <3>1. Follows(g, f) BY <1>1, <2>1 DEF InOrder
      <3> QED BY <1>2, <2>1, <3>1 DEF Reads, Follows
    <2>2. CASE f \notin RoundFrames
      <3>1. Follows(g, t) BY DEF InOrder
      <3> QED BY <1>2, <2>2, <3>1 DEF Reads, Follows
    <2> QED BY <2>1, <2>2
  <1>4. \A i \in DOMAIN r : r[i] \in RoundFrames => Follows(r[i], u) /\ Follows(g, r[i])
    <2> SUFFICES ASSUME NEW i \in DOMAIN r, r[i] \in RoundFrames PROVE Follows(r[i], u) /\ Follows(g, r[i]) OBVIOUS
    <2>1. r[i] = q[i + 1] /\ i + 1 \in DOMAIN q /\ 1 < i + 1 BY <1>1
    <2>2. Follows(g, r[i]) /\ Follows(r[i], t) BY <2>1 DEF InOrder
    <2>3. CASE f \in RoundFrames
      <3>1. Follows(r[i], f) BY <1>1, <2>1, <2>3 DEF InOrder
      <3> QED BY <1>2, <2>2, <2>3, <3>1 DEF Reads, Follows
    <2>4. CASE f \notin RoundFrames BY <1>2, <2>2, <2>4 DEF Reads, Follows
    <2> QED BY <2>3, <2>4
  <1>5. \A i, j \in DOMAIN r : i < j /\ r[i] \in RoundFrames /\ r[j] \in RoundFrames => Follows(r[j], r[i])
    <2> SUFFICES ASSUME NEW i \in DOMAIN r, NEW j \in DOMAIN r, i < j, r[i] \in RoundFrames, r[j] \in RoundFrames
                 PROVE  Follows(r[j], r[i])
      OBVIOUS
    <2>1. r[i] = q[i + 1] /\ i + 1 \in DOMAIN q /\ r[j] = q[j + 1] /\ j + 1 \in DOMAIN q /\ i + 1 < j + 1 BY <1>1
    <2> QED BY <2>1 DEF InOrder
  <1>6. InOrder(g, u, r) BY <1>3, <1>4, <1>5 DEF InOrder
  <1> QED BY <1>6 DEF r

-----------------------------------------------------------------------------
(* Which round. *)

LEMMA KnownAppended ==
  ASSUME NEW t, NEW q \in Seq(Frames), NEW f \in Frames
  PROVE  /\ \A i \in 1..(Len(q) + 1), n \in Nat : Known(t, q, i, n) => Known(t, Append(q, f), i, n)
         /\ \A n \in Nat : Known(t, q, Len(q) + 1, n) => Known(t, Append(q, f), Len(q) + 2, n)
         /\ f \in NumberFrames => Known(t, Append(q, f), Len(q) + 2, f.no)
  <1> DEFINE u == Append(q, f)
  <1>1. /\ DOMAIN q = 1..Len(q) /\ DOMAIN u = 1..(Len(q) + 1) /\ Len(q) \in Nat /\ u[Len(q) + 1] = f
        /\ \A i \in DOMAIN q : i \in DOMAIN u /\ u[i] = q[i]
    BY FrameAppended
  <1> HIDE DEF u
  <1>2. \A i \in 1..(Len(q) + 1), n \in Nat : Known(t, q, i, n) => Known(t, u, i, n) BY <1>1 DEF Known
  <1>3. \A n \in Nat : Known(t, q, Len(q) + 1, n) => Known(t, u, Len(q) + 2, n) BY <1>1 DEF Known
  <1>4. f \in NumberFrames => Known(t, u, Len(q) + 2, f.no) BY <1>1 DEF Known
  <1> QED BY <1>2, <1>3, <1>4 DEF u

\* A frame for a round that is known, or one that announces it.
LEMMA AllKnownAppended ==
  ASSUME NEW t, NEW q \in Seq(Frames), NEW f \in Frames, AllKnown(t, q), KindsRight(q),
         f \in RoundFrames => Announces(f) \/ Known(t, q, Len(q) + 1, f.no), f.kind = "crash" => f.phase = "CRASHED"
  PROVE  AllKnown(t, Append(q, f)) /\ KindsRight(Append(q, f))
  <1> DEFINE u == Append(q, f)
  <1>1. /\ DOMAIN q = 1..Len(q) /\ DOMAIN u = 1..(Len(q) + 1) /\ Len(q) \in Nat /\ u[Len(q) + 1] = f
        /\ \A i \in DOMAIN q : i \in DOMAIN u /\ u[i] = q[i]
        /\ \A i \in DOMAIN u : i \in DOMAIN q \/ i = Len(q) + 1
    BY FrameAppended
  <1>2. \A i \in 1..(Len(q) + 1), n \in Nat : Known(t, q, i, n) => Known(t, u, i, n) BY KnownAppended
  <1> HIDE DEF u
  <1>3. \A i \in DOMAIN q : q[i] \in Frames /\ q[i].no \in Nat BY <1>1, ElementOfSeq, FrameKinds
  <1>4. AllKnown(t, u)
    <2> SUFFICES ASSUME NEW i \in DOMAIN u, u[i] \in RoundFrames PROVE Announces(u[i]) \/ Known(t, u, i, u[i].no)
      BY DEF AllKnown
    <2>1. CASE i \in DOMAIN q
      <3>1. u[i] = q[i] /\ i \in 1..(Len(q) + 1) /\ q[i].no \in Nat BY <1>1, <1>3, <2>1
      <3>2. Announces(q[i]) \/ Known(t, q, i, q[i].no) BY <2>1, <3>1 DEF AllKnown
      <3> QED BY <1>2, <3>1, <3>2
    <2>2. CASE i = Len(q) + 1
      <3>1. u[i] = f /\ i \in 1..(Len(q) + 1) /\ f.no \in Nat BY <1>1, <2>2, FrameKinds
      <3> QED BY <1>2, <2>2, <3>1
    <2> QED BY <1>1, <2>1, <2>2
  <1>5. KindsRight(u)
    <2> SUFFICES ASSUME NEW i \in DOMAIN u, u[i].kind = "crash" PROVE u[i].phase = "CRASHED" BY DEF KindsRight
    <2>1. CASE i \in DOMAIN q BY <1>1, <2>1 DEF KindsRight
    <2>2. CASE i = Len(q) + 1 BY <1>1, <2>2
    <2> QED BY <1>1, <2>1, <2>2
  <1> QED BY <1>4, <1>5 DEF u

LEMMA KnownTaken ==
  ASSUME NEW t, NEW u, NEW q \in Seq(Frames), q # <<>>, Reads(t, u, Head(q)),
         NEW i \in Nat, i > 1, i <= Len(q) + 1, NEW n \in Nat, Known(t, q, i, n), t.no \in Nat,
         Head(q) \in RoundFrames => t.no <= Head(q).no /\ Head(q).no <= n
  PROVE  Known(u, Tail(q), i - 1, n)
  <1> DEFINE r == Tail(q)
             f == Head(q)
  <1>1. /\ DOMAIN q = 1..Len(q) /\ Len(q) \in Nat /\ f = q[1] /\ f \in Frames
        /\ DOMAIN r = 1..(Len(q) - 1) /\ \A j \in DOMAIN r : r[j] = q[j + 1]
    BY FrameTaken
  <1>2. Reads(t, u, f) /\ (f \in RoundFrames => t.no <= f.no /\ f.no <= n) OBVIOUS
  <1> HIDE DEF r, f
  <1>3. f.no \in Nat /\ (f \in NumberFrames => f \in RoundFrames) BY <1>1, FrameKinds
  <1>4. CASE t.no = n BY <1>2, <1>3, <1>4 DEF Reads, Known
  <1>5. CASE \E j \in DOMAIN q : j < i /\ q[j] \in NumberFrames /\ q[j].no = n
    <2>1. PICK j \in DOMAIN q : j < i /\ q[j] \in NumberFrames /\ q[j].no = n BY <1>5
    <2>2. CASE j = 1 BY <1>1, <1>2, <1>3, <2>1, <2>2 DEF Reads, Known
    <2>3. CASE j # 1
      <3>1. j - 1 \in DOMAIN r /\ j - 1 < i - 1 /\ (j - 1) + 1 = j BY <1>1, <2>1, <2>3
      <3>2. r[j - 1] \in NumberFrames /\ r[j - 1].no = n BY <1>1, <2>1, <3>1
      <3>3. \E k \in DOMAIN r : k < i - 1 /\ r[k] \in NumberFrames /\ r[k].no = n BY <3>1, <3>2
      <3> QED BY <3>3 DEF Known, r
    <2> QED BY <2>2, <2>3
  <1>6. t.no = n \/ \E j \in DOMAIN q : j < i /\ q[j] \in NumberFrames /\ q[j].no = n BY DEF Known
  <1> QED BY <1>4, <1>5, <1>6 DEF r

-----------------------------------------------------------------------------
(* What a step does to the wire. *)

\* The tab reads the first frame.
LEMMA Received ==
  ASSUME TabTypes, RoundInv, Receive
  PROVE  /\ toTab # <<>> /\ toTab' = Tail(toTab) /\ Head(toTab) \in Frames /\ Reads(tab, tab', Head(toTab))
         /\ tab' \in TabRecords /\ toServer' \in Seq(Messages)
         /\ tab'.commit = tab'.no /\ tab'.prev \in {tab'.no - 1, tab'.no}
         /\ \E n \in Nat : /\ n <= Cardinality(RebetSlots) /\ (n # 0 => tab'.phase = "BETTING" /\ tab.phase # "BETTING")
                           /\ tab'.rebets = IF tab'.no = tab.no THEN tab.rebets + n ELSE n
  <1> DEFINE f == Head(toTab)
             t == AfterFrame(tab, f)
             sent == Rebets(tab, t)
             rebets == CountRebets(tab, t, Len(sent))
  <1>1. /\ toTab # <<>> /\ toTab' = Tail(toTab) /\ f.kind # "session_invalid"
        /\ toServer' = toServer \o sent /\ tab' = [t EXCEPT !.rebets = rebets]
    BY DEF Receive
  <1>2. /\ toTab \in Seq(Frames) /\ toServer \in Seq(Messages) /\ tab.no \in Nat /\ tab.commit = tab.no /\ tab.rebets \in Nat
        /\ tab.prev \in {tab.no - 1, tab.no} /\ tab.hasBet \in [Slots -> BOOLEAN]
    BY DEF TabTypes, RoundInv, TabRight
  <1>3. f \in Frames /\ f = toTab[1] /\ 1 \in DOMAIN toTab BY <1>1, <1>2, FrameTaken
  <1>4. f.kind = "crash" => f.phase = "CRASHED" BY <1>3 DEF RoundInv, KindsRight
  <1>5. f \in RoundFrames => Announces(f) \/ tab.no = f.no
    <2> SUFFICES ASSUME f \in RoundFrames, ~Announces(f) PROVE tab.no = f.no OBVIOUS
    <2>1. Known(tab, toTab, 1, toTab[1].no) BY <1>3 DEF RoundInv, AllKnown
    <2>2. \A j \in DOMAIN toTab : ~(j < 1)
      <3>1. DOMAIN toTab = 1..Len(toTab) /\ Len(toTab) \in Nat BY <1>2, LenProperties
      <3> QED BY <3>1
    <2> QED BY <1>3, <2>1, <2>2 DEF Known
  <1> HIDE DEF f
  <1>6. /\ t \in TabRecords
        /\ t.phase = IF f \in RoundFrames THEN f.phase ELSE tab.phase
        /\ t.no = IF f \in NumberFrames THEN f.no ELSE tab.no
        /\ t.commit = IF Announces(f) THEN f.no ELSE tab.commit
        /\ Announces(f) => t.prev \in {f.no - 1, f.no}
        /\ ~Announces(f) => t.prev = tab.prev
        /\ t.seed = IF f \in SeedFrames THEN f.no ELSE tab.seed
        /\ \A s \in Slots : t.hasBet[s] = IF f \in PanelFrames(s) THEN f.kind = "bet_placed" ELSE tab.hasBet[s]
        /\ t.rebets = tab.rebets
    BY <1>1, <1>3, <1>4, FrameShown
  <1>7. /\ sent \in Seq(Messages) /\ Len(sent) \in Nat /\ Len(sent) <= Cardinality(RebetSlots)
        /\ Len(sent) # 0 => t.phase = "BETTING" /\ tab.phase # "BETTING"
    BY RebetsSent
  <1> HIDE DEF t, sent
  <1>8. toServer' \in Seq(Messages) BY <1>1, <1>2, <1>7, ConcatProperties
  <1>9. rebets \in Nat /\ rebets = IF t.no = tab.no THEN tab.rebets + Len(sent) ELSE Len(sent)
    BY <1>2, <1>7 DEF CountRebets
  <1> HIDE DEF rebets
  <1>10. /\ tab' \in TabRecords
         /\ tab'.phase = t.phase /\ tab'.no = t.no /\ tab'.commit = t.commit /\ tab'.prev = t.prev
         /\ tab'.seed = t.seed /\ tab'.hasBet = t.hasBet /\ tab'.rebets = rebets
    BY <1>1, <1>6, <1>9 DEF TabRecords
  <1>11. (f \in RoundFrames => t.no = f.no) /\ (f \notin RoundFrames => t.no = tab.no)
    <2>1. /\ f \in RoundFrames <=> f.kind \in {"join", "phase_change", "crash"}
          /\ f \in NumberFrames <=> f.kind \in {"join", "phase_change"}
      BY <1>3, FrameKinds
    <2> QED BY <1>5, <1>6, <2>1 DEF Announces
  <1>12. Reads(tab, tab', f) BY <1>6, <1>10, <1>11 DEF Reads
  <1>13. tab'.commit = tab'.no /\ tab'.prev \in {tab'.no - 1, tab'.no}
    <2>1. f \in RoundFrames <=> f.kind \in {"join", "phase_change", "crash"} BY <1>3, FrameKinds
    <2>2. CASE Announces(f)
      <3>1. f \in RoundFrames BY <2>1, <2>2 DEF Announces
      <3> QED BY <1>6, <1>10, <1>11, <2>2, <3>1 DEF Announces
    <2>3. CASE ~Announces(f)
      <3>1. t.no = tab.no BY <1>5, <1>11, <2>3
      <3> QED BY <1>2, <1>6, <1>10, <2>3, <3>1 DEF Announces
    <2> QED BY <2>2, <2>3
  <1>14. \E n \in Nat : /\ n <= Cardinality(RebetSlots) /\ (n # 0 => tab'.phase = "BETTING" /\ tab.phase # "BETTING")
                        /\ tab'.rebets = IF tab'.no = tab.no THEN tab.rebets + n ELSE n
    BY <1>7, <1>9, <1>10
  <1> QED BY <1>1, <1>3, <1>8, <1>10, <1>12, <1>13, <1>14 DEF f

\* The frame a new stage is told with.
StageFrame(f, g, h) ==
  /\ f \in Frames /\ f \in RoundFrames /\ f.no = h.no /\ f.phase = h.phase
  /\ Announces(f) \/ (h.no = g.no /\ ~Announces(f))
  /\ f.kind = "crash" <=> f.phase = "CRASHED"
  /\ f.kind = "crash" \/ f.kind = "phase_change"

LEMMA PhaseTold ==
  ASSUME TabTypes, PhaseChanges
  PROVE  /\ stage' \in [no : Nat, phase : Phases] /\ stage'.no = stage.no /\ Follows(stage', stage)
         /\ stage'.phase = FollowingPhase[stage.phase]
         /\ \E f \in Frames : StageFrame(f, stage, stage') /\ toTab' = IF Open THEN Append(toTab, f) ELSE toTab
  <1> DEFINE k == IF stage'.phase = "CRASHED" THEN "crash" ELSE "phase_change"
             f == Frame(k, stage.no, stage'.phase)
             next == FollowingPhase[stage.phase]
  <1>1. stage \in [no : Nat, phase : Phases] /\ stage.no \in Nat /\ stage.phase \in Phases BY DEF TabTypes
  <1>2. stage.phase # "RESULT" /\ stage' = [stage EXCEPT !.phase = next] /\ toTab' = IF Open THEN Append(toTab, f) ELSE toTab
    BY DEF PhaseChanges, Broadcast
  <1>3. next \in {"FLYING", "CRASHED", "RESULT"} /\ next \in Phases BY <1>1, <1>2 DEF FollowingPhase, Phases
  <1> HIDE DEF next
  <1>4. stage' \in [no : Nat, phase : Phases] /\ stage'.no = stage.no /\ stage'.phase = next BY <1>1, <1>2, <1>3
  <1>5. Follows(stage', stage) BY <1>1, <1>3, <1>4 DEF Follows
  <1>6. k \in {"crash", "phase_change"} /\ (k = "crash" <=> stage'.phase = "CRASHED") OBVIOUS
  <1> HIDE DEF k
  <1>7. f \in Frames /\ f \in RoundFrames /\ f.kind = k /\ f.no = stage.no /\ f.phase = stage'.phase
    BY <1>1, <1>3, <1>4, <1>6, FramesMade
  <1> HIDE DEF f
  <1>8. StageFrame(f, stage, stage') BY <1>3, <1>4, <1>6, <1>7 DEF StageFrame, Announces
  <1> QED BY <1>2, <1>4, <1>5, <1>7, <1>8 DEF next

LEMMA RoundTold ==
  ASSUME TabTypes, RoundBegins
  PROVE  /\ stage' \in [no : Nat, phase : Phases] /\ Follows(stage', stage) /\ stage'.phase = "BETTING"
         /\ \E f \in Frames : StageFrame(f, stage, stage') /\ toTab' = IF Open THEN Append(toTab, f) ELSE toTab
  <1> DEFINE f == Frame("phase_change", stage.no + 1, "BETTING")
  <1>1. stage \in [no : Nat, phase : Phases] /\ stage.no \in Nat /\ stage.no + 1 \in Nat /\ "BETTING" \in Phases
    BY DEF TabTypes, Phases
  <1>2. stage' = [no |-> stage.no + 1, phase |-> "BETTING"] /\ toTab' = IF Open THEN Append(toTab, f) ELSE toTab
    BY DEF RoundBegins, Broadcast
  <1>3. stage' \in [no : Nat, phase : Phases] /\ Follows(stage', stage) BY <1>1, <1>2 DEF Follows
  <1>4. f \in Frames /\ f \in RoundFrames /\ f.kind = "phase_change" /\ f.no = stage.no + 1 /\ f.phase = "BETTING"
    BY <1>1, FramesMade
  <1> HIDE DEF f
  <1>5. StageFrame(f, stage, stage') BY <1>2, <1>4 DEF StageFrame, Announces
  <1> QED BY <1>2, <1>3, <1>4, <1>5

\* What each action leaves on the wire.
SamePlace == UNCHANGED <<stage, tab>>
Quiet == SamePlace /\ toTab' = toTab /\ (Open' <=> Open)
Noted == SamePlace /\ Open /\ Open' /\ \E f \in Frames : f \notin RoundFrames /\ toTab' = Append(toTab, f)
Staged ==
  /\ tab' = tab /\ (Open' <=> Open) /\ stage' \in [no : Nat, phase : Phases] /\ Follows(stage', stage)
  /\ \E f \in Frames : StageFrame(f, stage, stage') /\ toTab' = IF Open THEN Append(toTab, f) ELSE toTab
Cleared == SamePlace /\ ~Open' /\ toTab' = <<>>
Joined == SamePlace /\ Open' /\ toTab' = <<Frame("join", stage.no, stage.phase)>>

LEMMA WireSteps ==
  ASSUME TabTypes, SocketInv, TabNext
  PROVE  Receive \/ Quiet \/ Noted \/ Staged \/ Cleared \/ Joined
  <1>1. ASSUME PhaseChanges PROVE Staged
    <2>1. tab' = tab /\ sock' = sock BY <1>1 DEF PhaseChanges
    <2> QED BY <1>1, <2>1, PhaseTold DEF Staged, Open
  <1>2. ASSUME RoundBegins PROVE Staged
    <2>1. tab' = tab /\ sock' = sock BY <1>2 DEF RoundBegins
    <2> QED BY <1>2, <2>1, RoundTold DEF Staged, Open
  <1>3. ASSUME NEW k, Takes(k) PROVE Open BY <1>3 DEF Takes, SocketInv
  <1>4. ASSUME SessionMissing PROVE Noted
    <2>1. Open BY <1>3, <1>4 DEF SessionMissing
    <2>2. SamePlace /\ sock' = sock /\ toTab' = Append(toTab, SlotFrame("session_invalid", 0))
      BY <1>4, <2>1 DEF SessionMissing, Broadcast, SamePlace, serverVars
    <2> QED BY <2>1, <2>2, FramesMade DEF Noted, Open
  <1>5. ASSUME Hello PROVE Quiet
    <2>1. Open BY <1>3, <1>5 DEF Hello
    <2> QED BY <1>5, <2>1 DEF Hello, Quiet, SamePlace, serverVars, Open
  <1>6. ASSUME PlaceBet PROVE Quiet BY <1>6 DEF PlaceBet, Quiet, SamePlace, Open
  <1>7. ASSUME NEW d \in debits, BetPlaced(d) PROVE Quiet \/ Noted
    <2>1. SamePlace BY <1>7 DEF BetPlaced, SamePlace
    <2>2. CASE d.ws = "here"
      <3>1. Open /\ d.slot \in Slots BY <2>2 DEF SocketInv, TabTypes
      <3>2. toTab' = Append(toTab, SlotFrame("bet_placed", d.slot)) /\ sock' = "claimed" BY <1>7, <2>2 DEF BetPlaced
      <3>3. Open' BY <3>2 DEF Open
      <3> QED BY <2>1, <3>1, <3>2, <3>3, FramesMade DEF Noted
    <2>3. CASE d.ws # "here" BY <1>7, <2>1, <2>3 DEF BetPlaced, Quiet, Open
    <2> QED BY <2>2, <2>3
  <1>8. ASSUME NEW d \in debits, BetFails(d) PROVE Quiet BY <1>8 DEF BetFails, Quiet, SamePlace, Open
  <1>9. ASSUME Cashout PROVE Quiet BY <1>9 DEF Cashout, Quiet, SamePlace, Open
  <1>10. ASSUME NEW s \in Slots, NEW i \in DOMAIN seats[s], AutoCashout(s, i) PROVE Quiet
    BY <1>10 DEF AutoCashout, Quiet, SamePlace, Open
  <1>11. ASSUME NEW c \in cashouts, CashoutPaid(c) PROVE Quiet \/ Noted
    <2>1. SamePlace /\ sock' = sock BY <1>11 DEF CashoutPaid, SamePlace
    <2>2. CASE sock = "claimed"
      <3>1. toTab' = Append(toTab, SlotFrame("cashout_success", c.slot)) BY <1>11, <2>2 DEF CashoutPaid, SendToSession
      <3>2. c.slot \in Slots BY DEF TabTypes
      <3>3. Open /\ Open' BY <2>1, <2>2 DEF Open
      <3> QED BY <2>1, <3>1, <3>2, <3>3, FramesMade DEF Noted
    <2>3. CASE sock # "claimed" BY <1>11, <2>1, <2>3 DEF CashoutPaid, SendToSession, Quiet, Open
    <2> QED BY <2>2, <2>3
  <1>12. ASSUME NEW c \in cashouts, CashoutUnpaid(c) PROVE Quiet BY <1>12 DEF CashoutUnpaid, Quiet, SamePlace, Open
  <1>13. ASSUME Connect PROVE Joined BY <1>13 DEF Connect, Joined, SamePlace, serverVars, Open
  <1>14. ASSUME Disconnect PROVE Cleared BY <1>14 DEF Disconnect, Closed, Cleared, SamePlace, Open
  <1>15. ASSUME SessionExpires PROVE Quiet BY <1>15 DEF SessionExpires, Quiet, SamePlace, serverVars, Open
  <1>16. ASSUME NewSession PROVE Cleared BY <1>16 DEF NewSession, Closed, Cleared, SamePlace, Open
  <1>17. ASSUME NEW s \in Slots, ClickBet(s) \/ ClickCashOut(s) PROVE Quiet
    BY <1>17 DEF ClickBet, ClickCashOut, Quiet, SamePlace, serverVars, Open
  <1> QED BY <1>1, <1>2, <1>4, <1>5, <1>6, <1>7, <1>8, <1>9, <1>10, <1>11, <1>12, <1>13, <1>14, <1>15, <1>16, <1>17
          DEF TabNext

-----------------------------------------------------------------------------
(* The invariant. *)

LEMMA OrderStep == TabTypes /\ OrderInv /\ RoundInv /\ SocketInv /\ TabNext => OrderInv'
  <1> SUFFICES ASSUME TabTypes, OrderInv, RoundInv, SocketInv, TabNext PROVE OrderInv' OBVIOUS
  <1>1. toTab \in Seq(Frames) /\ stage.no \in Nat /\ tab.no \in Nat /\ stage \in [no : Nat, phase : Phases] BY DEF TabTypes
  <1>2. InOrder(stage, tab, toTab) BY DEF OrderInv
  <1>3. Follows(stage, stage) BY <1>1 DEF Follows
  <1>4. CASE Receive
    <2>1. /\ toTab # <<>> /\ toTab' = Tail(toTab) /\ Reads(tab, tab', Head(toTab)) BY <1>4, Received
    <2>2. InOrder(stage, tab', Tail(toTab)) BY <1>1, <1>2, <2>1, OrderTaken
    <2>3. stage' = stage BY <1>4 DEF Receive, serverVars
    <2> QED BY <2>1, <2>2, <2>3 DEF OrderInv
  <1>5. CASE Quiet BY <1>2, <1>5 DEF Quiet, SamePlace, OrderInv
  <1>6. CASE Noted
    <2>1. PICK f \in Frames : f \notin RoundFrames /\ toTab' = Append(toTab, f) BY <1>6 DEF Noted
    <2>2. InOrder(stage, tab, Append(toTab, f)) BY <1>1, <1>2, <1>3, <2>1, OrderAppended
    <2> QED BY <1>6, <2>1, <2>2 DEF Noted, SamePlace, OrderInv
  <1>7. CASE Staged
    <2>1. PICK f \in Frames : StageFrame(f, stage, stage') /\ toTab' = IF Open THEN Append(toTab, f) ELSE toTab
      BY <1>7 DEF Staged
    <2>2. stage'.no \in Nat /\ Follows(stage', stage) /\ f.no = stage'.no /\ f.phase = stage'.phase /\ tab' = tab
      BY <1>7, <2>1 DEF Staged, StageFrame
    <2>3. InOrder(stage', tab, toTab) /\ InOrder(stage', tab, Append(toTab, f)) BY <1>1, <1>2, <2>2, OrderAppended
    <2> QED BY <2>1, <2>2, <2>3 DEF OrderInv
  <1>8. CASE Cleared
    <2>1. Follows(stage, tab) BY <1>2 DEF InOrder
    <2>2. InOrder(stage, tab, <<>>) BY <2>1 DEF InOrder
    <2> QED BY <1>8, <2>2 DEF Cleared, SamePlace, OrderInv
  <1>9. CASE Joined
    <2> DEFINE f == Frame("join", stage.no, stage.phase)
    <2>1. f.no = stage.no /\ f.phase = stage.phase BY <1>1, FramesMade
    <2>2. Follows(stage, tab) BY <1>2 DEF InOrder
    <2> HIDE DEF f
    <2>3. Follows(f, tab) /\ Follows(stage, f) BY <1>1, <2>1, <2>2 DEF Follows
    <2>4. InOrder(stage, tab, <<f>>) BY <2>2, <2>3 DEF InOrder
    <2> QED BY <1>9, <2>4 DEF Joined, SamePlace, OrderInv, f
  <1> QED BY <1>4, <1>5, <1>6, <1>7, <1>8, <1>9, WireSteps

LEMMA RoundStep == TabTypes /\ OrderInv /\ RoundInv /\ SocketInv /\ TabNext => RoundInv'
  <1> SUFFICES ASSUME TabTypes, OrderInv, RoundInv, SocketInv, TabNext PROVE RoundInv' OBVIOUS
  <1>1. toTab \in Seq(Frames) /\ stage.no \in Nat /\ tab.no \in Nat /\ stage \in [no : Nat, phase : Phases] BY DEF TabTypes
  <1>2. InOrder(stage, tab, toTab) BY DEF OrderInv
  <1>3. /\ AllKnown(tab, toTab) /\ KindsRight(toTab) /\ TabRight(tab)
        /\ Open => Known(tab, toTab, Len(toTab) + 1, stage.no)
    BY DEF RoundInv
  <1>4. CASE Receive
    <2> DEFINE f == Head(toTab)
               r == Tail(toTab)
    <2>1. toTab # <<>> /\ toTab' = r /\ f \in Frames /\ Reads(tab, tab', f) BY <1>4, Received
    <2>2. /\ DOMAIN toTab = 1..Len(toTab) /\ Len(toTab) \in Nat /\ f = toTab[1] /\ Len(toTab) > 0 /\ 1 \in DOMAIN toTab
          /\ DOMAIN r = 1..(Len(toTab) - 1) /\ Len(r) = Len(toTab) - 1
          /\ \A i \in DOMAIN r : i + 1 \in DOMAIN toTab /\ r[i] = toTab[i + 1]
      BY <1>1, <2>1, FrameTaken
    <2>3. stage' = stage /\ sock' = sock BY <1>4 DEF Receive, serverVars
    <2>4. \A n \in Nat, i \in Nat : /\ i > 1 /\ i <= Len(toTab) + 1 /\ Known(tab, toTab, i, n)
                                    /\ f \in RoundFrames => tab.no <= f.no /\ f.no <= n
                                    => Known(tab', r, i - 1, n)
      BY <1>1, <2>1, KnownTaken
    <2>5. f \in RoundFrames => tab.no <= f.no /\ f.no <= stage.no BY <1>2, <2>2 DEF InOrder, Follows
    <2> HIDE DEF f, r
    <2>6. AllKnown(tab', r)
      <3> SUFFICES ASSUME NEW i \in DOMAIN r, r[i] \in RoundFrames, ~Announces(r[i]) PROVE Known(tab', r, i, r[i].no)
        BY DEF AllKnown
      <3>1. i \in Nat /\ i + 1 \in DOMAIN toTab /\ r[i] = toTab[i + 1] /\ i + 1 > 1 /\ i + 1 <= Len(toTab) + 1 BY <2>2
      <3>2. Known(tab, toTab, i + 1, r[i].no) BY <1>3, <3>1 DEF AllKnown
      <3>3. f \in RoundFrames => f.no <= r[i].no BY <1>2, <2>2, <3>1 DEF InOrder, Follows
      <3>4. r[i].no \in Nat BY <1>1, <3>1, ElementOfSeq, FrameKinds
      <3>5. Known(tab', r, (i + 1) - 1, r[i].no) BY <2>4, <2>5, <3>1, <3>2, <3>3, <3>4
      <3>6. (i + 1) - 1 = i BY <3>1
      <3> QED BY <3>5, <3>6
    <2>7. KindsRight(r) BY <1>3, <2>2 DEF KindsRight
    <2>8. Open => Known(tab', r, Len(r) + 1, stage.no)
      <3> SUFFICES ASSUME Open PROVE Known(tab', r, Len(r) + 1, stage.no) OBVIOUS
      <3>1. Len(toTab) + 1 \in Nat /\ Len(toTab) + 1 > 1 BY <2>2
      <3>2. Known(tab', r, (Len(toTab) + 1) - 1, stage.no) BY <1>1, <1>3, <2>4, <2>5, <3>1
      <3>3. (Len(toTab) + 1) - 1 = Len(r) + 1 BY <2>2
      <3> QED BY <3>2, <3>3
    <2>9. TabRight(tab')
      <3>1. PICK n \in Nat : /\ n <= Cardinality(RebetSlots) /\ (n # 0 => tab'.phase = "BETTING" /\ tab.phase # "BETTING")
                             /\ tab'.rebets = IF tab'.no = tab.no THEN tab.rebets + n ELSE n
        BY <1>4, Received
      <3>2. tab'.commit = tab'.no /\ tab'.prev \in {tab'.no - 1, tab'.no} BY <1>4, Received
      <3>3. tab.rebets \in Nat /\ tab.rebets <= Cardinality(RebetSlots) BY <1>3 DEF TabTypes, TabRight
      <3>4. CASE tab'.no = tab.no
        <4>1. CASE f \in RoundFrames
          <5>1. f.no = tab.no /\ tab'.phase = f.phase BY <2>1, <3>4, <4>1 DEF Reads
          <5>2. Follows(f, tab) BY <1>2, <2>2, <4>1 DEF InOrder
          <5>3. n = 0 BY <3>1, <5>1, <5>2 DEF Follows
          <5> QED BY <3>1, <3>2, <3>3, <3>4, <5>3 DEF TabRight
        <4>2. CASE f \notin RoundFrames
          <5>1. n = 0 BY <2>1, <3>1, <4>2 DEF Reads
          <5> QED BY <3>1, <3>2, <3>3, <3>4, <5>1 DEF TabRight
        <4> QED BY <4>1, <4>2
      <3>5. CASE tab'.no # tab.no BY <3>1, <3>2, <3>5 DEF TabRight
      <3> QED BY <3>4, <3>5
    <2> QED BY <2>1, <2>3, <2>6, <2>7, <2>8, <2>9 DEF RoundInv, Open
  <1>5. CASE Quiet BY <1>3, <1>5 DEF Quiet, SamePlace, RoundInv
  <1>6. CASE Noted
    <2>1. PICK f \in Frames : f \notin RoundFrames /\ toTab' = Append(toTab, f) BY <1>6 DEF Noted
    <2>2. f.kind # "crash" BY <2>1, FrameKinds
    <2>3. AllKnown(tab, toTab') /\ KindsRight(toTab') BY <1>1, <1>3, <2>1, <2>2, AllKnownAppended
    <2>4. Len(toTab') = Len(toTab) + 1 /\ Len(toTab) \in Nat BY <1>1, <2>1, FrameAppended
    <2>5. Known(tab, toTab', Len(toTab) + 2, stage.no) BY <1>1, <1>3, <1>6, <2>1, KnownAppended DEF Noted
    <2>6. Len(toTab) + 2 = Len(toTab') + 1 BY <2>4
    <2> QED BY <1>3, <1>6, <2>3, <2>5, <2>6 DEF Noted, SamePlace, RoundInv
  <1>7. CASE Staged
    <2>1. PICK f \in Frames : StageFrame(f, stage, stage') /\ toTab' = IF Open THEN Append(toTab, f) ELSE toTab
      BY <1>7 DEF Staged
    <2>2. tab' = tab /\ (Open' <=> Open) /\ stage'.no \in Nat BY <1>7 DEF Staged
    <2>3. CASE ~Open BY <1>3, <2>1, <2>2, <2>3 DEF RoundInv
    <2>4. CASE Open
      <3>1. toTab' = Append(toTab, f) BY <2>1, <2>4
      <3>2. f.no = stage'.no /\ (Announces(f) \/ stage'.no = stage.no) /\ (f.kind = "crash" => f.phase = "CRASHED")
        BY <2>1 DEF StageFrame
      <3>3. Known(tab, toTab, Len(toTab) + 1, stage.no) BY <1>3, <2>4
      <3>4. AllKnown(tab, toTab') /\ KindsRight(toTab') BY <1>1, <1>3, <3>1, <3>2, <3>3, AllKnownAppended
      <3>5. Len(toTab') = Len(toTab) + 1 /\ Len(toTab) \in Nat BY <1>1, <3>1, FrameAppended
      <3>6. Known(tab, toTab', Len(toTab) + 2, stage'.no)
        <4>1. CASE Announces(f)
          <5>1. f \in NumberFrames BY <4>1, FrameKinds DEF Announces
          <5> QED BY <1>1, <3>1, <3>2, <5>1, KnownAppended
        <4>2. CASE stage'.no = stage.no BY <1>1, <3>1, <3>3, <4>2, KnownAppended
        <4> QED BY <3>2, <4>1, <4>2
      <3>7. Len(toTab) + 2 = Len(toTab') + 1 BY <3>5
      <3> QED BY <1>3, <2>2, <3>4, <3>6, <3>7 DEF RoundInv
    <2> QED BY <2>3, <2>4
  <1>8. CASE Cleared
    <2>1. AllKnown(tab, <<>>) /\ KindsRight(<<>>) BY DEF AllKnown, KindsRight
    <2> QED BY <1>3, <1>8, <2>1 DEF Cleared, SamePlace, RoundInv
  <1>9. CASE Joined
    <2> DEFINE f == Frame("join", stage.no, stage.phase)
               q == <<f>>
    <2>1. f \in Frames /\ f \in RoundFrames /\ f.no = stage.no /\ f.kind = "join" BY <1>1, FramesMade
    <2>2. f \in NumberFrames BY <2>1, FrameKinds
    <2> HIDE DEF f
    <2>3. DOMAIN q = {1} /\ q[1] = f /\ Len(q) = 1 OBVIOUS
    <2>4. toTab' = q BY <1>9 DEF Joined, f
    <2> HIDE DEF q
    <2>5. AllKnown(tab, q) /\ KindsRight(q) BY <2>1, <2>3 DEF AllKnown, KindsRight, Announces
    <2>6. Known(tab, q, Len(q) + 1, stage.no) BY <2>1, <2>2, <2>3 DEF Known
    <2> QED BY <1>3, <1>9, <2>4, <2>5, <2>6 DEF Joined, SamePlace, RoundInv
  <1> QED BY <1>4, <1>5, <1>6, <1>7, <1>8, <1>9, WireSteps

\* What has arrived and what is under way show the stage.
LEMMA StageShown ==
  ASSUME TabTypes, OrderInv, RoundInv, SocketInv, TabNext
  PROVE  (Open => RoundShown(tab, toTab) = stage)'
  <1>1. toTab \in Seq(Frames) /\ stage \in [no : Nat, phase : Phases] BY DEF TabTypes
  <1>2. Open => RoundShown(tab, toTab) = stage BY DEF SocketInv
  <1>3. CASE Receive
    <2>1. toTab # <<>> /\ toTab' = Tail(toTab) /\ Reads(tab, tab', Head(toTab)) BY <1>3, Received
    <2>2. RoundShown(tab', toTab') = RoundShown(tab, toTab) BY <1>1, <2>1, ShownTaken
    <2>3. stage' = stage /\ sock' = sock BY <1>3 DEF Receive, serverVars
    <2> QED BY <1>2, <2>2, <2>3 DEF Open
  <1>4. CASE Quiet BY <1>2, <1>4 DEF Quiet, SamePlace
  <1>5. CASE Noted
    <2>1. PICK f \in Frames : f \notin RoundFrames /\ toTab' = Append(toTab, f) BY <1>5 DEF Noted
    <2>2. RoundShown(tab, Append(toTab, f)) = RoundShown(tab, toTab) BY <1>1, <2>1, ShownAppended
    <2> QED BY <1>2, <1>5, <2>1, <2>2 DEF Noted, SamePlace
  <1>6. CASE Staged
    <2>1. PICK f \in Frames : StageFrame(f, stage, stage') /\ toTab' = IF Open THEN Append(toTab, f) ELSE toTab
      BY <1>6 DEF Staged
    <2>2. stage' \in [no : Nat, phase : Phases] /\ tab' = tab /\ (Open' <=> Open) BY <1>6 DEF Staged
    <2>3. f \in RoundFrames /\ f.no = stage'.no /\ f.phase = stage'.phase BY <2>1 DEF StageFrame
    <2>4. RoundShown(tab, Append(toTab, f)) = [no |-> f.no, phase |-> f.phase] BY <1>1, <2>3, ShownAppended
    <2>5. stage' = [no |-> f.no, phase |-> f.phase] BY <2>2, <2>3
    <2> QED BY <2>1, <2>2, <2>4, <2>5
  <1>7. CASE Cleared BY <1>7 DEF Cleared
  <1>8. CASE Joined
    <2> DEFINE f == Frame("join", stage.no, stage.phase)
    <2>1. f \in Frames /\ f \in RoundFrames /\ f.no = stage.no /\ f.phase = stage.phase BY <1>1, FramesMade
    <2>2. Append(<<>>, f) = <<f>> OBVIOUS
    <2>3. toTab' = <<f>> /\ SamePlace BY <1>8 DEF Joined
    <2> HIDE DEF f
    <2>4. RoundShown(tab, Append(<<>>, f)) = [no |-> f.no, phase |-> f.phase]
      <3>1. <<>> \in Seq(Frames) OBVIOUS
      <3> QED BY <2>1, <3>1, ShownAppended
    <2>5. stage = [no |-> f.no, phase |-> f.phase] BY <1>1, <2>1
    <2> QED BY <2>2, <2>3, <2>4, <2>5 DEF SamePlace
  <1> QED BY <1>3, <1>4, <1>5, <1>6, <1>7, <1>8, WireSteps

LEMMA SocketStep == TabTypes /\ OrderInv /\ RoundInv /\ SocketInv /\ TabNext => SocketInv'
  <1> SUFFICES ASSUME TabTypes, OrderInv, RoundInv, SocketInv, TabNext PROVE SocketInv' OBVIOUS
  <1> DEFINE Shut == ~Open => toTab = <<>> /\ toServer = <<>>
             Here == \A d \in debits : d.ws = "here" => Open
  <1>1. Shut /\ Here BY DEF SocketInv
  <1>2. ASSUME NEW k, Takes(k) PROVE Open BY <1>2 DEF Takes, SocketInv
  <1>3. ASSUME PhaseChanges \/ RoundBegins PROVE Shut' /\ Here'
    <2>1. sock' = sock /\ debits' = debits /\ toServer' = toServer /\ (~Open => toTab' = toTab)
      BY <1>3 DEF PhaseChanges, RoundBegins, Broadcast
    <2> QED BY <1>1, <2>1 DEF Open
  <1>4. ASSUME SessionMissing \/ Hello \/ PlaceBet \/ Cashout PROVE Shut' /\ Here'
    <2>1. Open BY <1>2, <1>4 DEF SessionMissing, Hello, PlaceBet, Cashout
    <2>2. Open' BY <1>4, <2>1 DEF SessionMissing, Hello, PlaceBet, Cashout, Open
    <2> QED BY <2>2
  <1>5. ASSUME NEW d \in debits, BetPlaced(d) \/ BetFails(d) PROVE Shut' /\ Here'
    <2>1. toServer' = toServer /\ debits' \subseteq debits BY <1>5 DEF BetPlaced, BetFails
    <2>2. CASE d.ws = "here" /\ BetPlaced(d)
      <3>1. Open' BY <2>2 DEF BetPlaced, Open
      <3> QED BY <3>1
    <2>3. CASE sock' = sock /\ toTab' = toTab BY <1>1, <2>1, <2>3 DEF Open
    <2> QED BY <1>5, <2>2, <2>3 DEF BetPlaced, BetFails
  <1>6. ASSUME NEW s \in Slots, NEW i \in DOMAIN seats[s], AutoCashout(s, i) PROVE Shut' /\ Here'
    BY <1>1, <1>6 DEF AutoCashout, Open
  <1>7. ASSUME NEW c \in cashouts, CashoutPaid(c) \/ CashoutUnpaid(c) PROVE Shut' /\ Here'
    <2>1. sock' = sock /\ debits' = debits /\ toServer' = toServer /\ (~Open => toTab' = toTab)
      BY <1>7 DEF CashoutPaid, CashoutUnpaid, SendToSession, Open
    <2> QED BY <1>1, <2>1 DEF Open
  <1>8. ASSUME Connect PROVE Shut' /\ Here'
    <2>1. Open' BY <1>8 DEF Connect, Open
    <2> QED BY <2>1
  <1>9. ASSUME Disconnect \/ NewSession PROVE Shut' /\ Here'
    <2>1. PICK ws \in {"gone", "old"} : Closed(ws) BY <1>9 DEF Disconnect, NewSession
    <2>2. toTab' = <<>> /\ toServer' = <<>> BY <2>1 DEF Closed
    <2>3. \A d \in debits : [d EXCEPT !.ws = IF @ = "old" THEN "old" ELSE ws].ws # "here" BY <2>1 DEF TabTypes
    <2>4. \A d \in debits' : d.ws # "here" BY <2>1, <2>3 DEF Closed
    <2> QED BY <2>2, <2>4
  <1>10. ASSUME SessionExpires PROVE Shut' /\ Here' BY <1>1, <1>10 DEF SessionExpires, serverVars, Open
  <1>11. ASSUME Receive PROVE Shut' /\ Here'
    <2>1. Open /\ sock' = sock BY <1>1, <1>11 DEF Receive
    <2> QED BY <2>1 DEF Open
  <1>12. ASSUME NEW s \in Slots, ClickBet(s) \/ ClickCashOut(s) PROVE Shut' /\ Here'
    BY <1>1, <1>12 DEF ClickBet, ClickCashOut, serverVars, Open
  <1>13. Shut' /\ Here' BY <1>3, <1>4, <1>5, <1>6, <1>7, <1>8, <1>9, <1>10, <1>11, <1>12 DEF TabNext
  <1> QED BY <1>13, StageShown DEF SocketInv

\* The state is of its types.
LEMMA TypesStep == TabTypes /\ RoundInv /\ SocketInv /\ TabNext => TabTypes'
  <1> SUFFICES ASSUME TabTypes, RoundInv, SocketInv, TabNext PROVE TabTypes' OBVIOUS
  <1> DEFINE Debit(d) == /\ d = [ask |-> d.ask, slot |-> d.slot, no |-> d.no, ws |-> d.ws]
                         /\ d.slot \in Slots /\ d.no \in Nat /\ d.ws \in {"here", "gone", "old"}
             Server == /\ stage \in [no : Nat, phase : Phases] /\ seats \in [Slots -> Seq(BOOLEAN)]
                       /\ (\A d \in debits : Debit(d)) /\ cashouts \subseteq [slot : Slots, no : Nat, ok : BOOLEAN]
             Wire == /\ sock \in {"down", "up", "claimed"} /\ toTab \in Seq(Frames) /\ toServer \in Seq(Messages)
                     /\ alive \in BOOLEAN /\ clean \in BOOLEAN
             Game == tab \in TabRecords
  <1>1. Server /\ Wire /\ Game BY DEF TabTypes, TabRecords
  <1>2. ASSUME NEW f \in Frames PROVE Append(toTab, f) \in Seq(Frames) BY <1>1, <1>2, FrameAppended
  <1>3. NoSeats \in [Slots -> Seq(BOOLEAN)] /\ <<>> \in Seq(Frames) /\ <<>> \in Seq(Messages) BY DEF NoSeats
  <1>4. ASSUME NEW s \in Slots, NEW i \in DOMAIN seats[s], CashesOut(s, i), stage' = stage
        PROVE  seats' \in [Slots -> Seq(BOOLEAN)] /\ cashouts' \subseteq [slot : Slots, no : Nat, ok : BOOLEAN]
    <2>1. seats[s] \in Seq(BOOLEAN) /\ stage.no \in Nat BY <1>1
    <2>2. [seats[s] EXCEPT ![i] = TRUE] \in Seq(BOOLEAN) BY <2>1
    <2>3. seats' = [seats EXCEPT ![s] = [seats[s] EXCEPT ![i] = TRUE]] BY <1>1, <1>4 DEF CashesOut
    <2>4. seats' \in [Slots -> Seq(BOOLEAN)] BY <1>1, <2>2, <2>3
    <2>5. cashouts' \subseteq [slot : Slots, no : Nat, ok : BOOLEAN]
      <3> DEFINE c == [slot |-> s, no |-> stage.no, ok |-> TRUE]
      <3>1. c \in [slot : Slots, no : Nat, ok : BOOLEAN] BY <2>1
      <3>2. cashouts' = cashouts \cup {c} BY <1>4 DEF CashesOut
      <3> HIDE DEF c
      <3> QED BY <1>1, <3>1, <3>2
    <2> QED BY <2>4, <2>5
  <1>5. ASSUME NEW ws \in {"gone", "old"}, Closed(ws), alive' \in BOOLEAN PROVE Wire' /\ \A d \in debits' : Debit(d)
    <2>1. Wire' BY <1>3, <1>5 DEF Closed
    <2>2. \A d \in debits : Debit([d EXCEPT !.ws = IF @ = "old" THEN "old" ELSE ws])
      <3> SUFFICES ASSUME NEW d \in debits PROVE Debit([d EXCEPT !.ws = IF @ = "old" THEN "old" ELSE ws]) OBVIOUS
      <3> DEFINE w == IF d.ws = "old" THEN "old" ELSE ws
      <3>1. d = [ask |-> d.ask, slot |-> d.slot, no |-> d.no, ws |-> d.ws] /\ d.slot \in Slots /\ d.no \in Nat BY <1>1
      <3>2. w \in {"here", "gone", "old"} BY <1>5
      <3> HIDE DEF w
      <3>3. [d EXCEPT !.ws = w] = [ask |-> d.ask, slot |-> d.slot, no |-> d.no, ws |-> w] BY <3>1
      <3>4. Debit([d EXCEPT !.ws = w]) BY <3>1, <3>2, <3>3
      <3> QED BY <3>4 DEF w
    <2> QED BY <1>5, <2>1, <2>2 DEF Closed
  <1>6. ASSUME PhaseChanges PROVE Server' /\ Wire' /\ Game'
    <2>1. stage' \in [no : Nat, phase : Phases] BY <1>6, PhaseTold
    <2>2. toTab' \in Seq(Frames) BY <1>1, <1>2, <1>6, PhaseTold
    <2> QED BY <1>1, <1>6, <2>1, <2>2 DEF PhaseChanges
  <1>7. ASSUME RoundBegins PROVE Server' /\ Wire' /\ Game'
    <2>1. stage' \in [no : Nat, phase : Phases] BY <1>7, RoundTold
    <2>2. toTab' \in Seq(Frames) BY <1>1, <1>2, <1>7, RoundTold
    <2>3. cashouts' \subseteq [slot : Slots, no : Nat, ok : BOOLEAN] /\ clean' \in BOOLEAN BY <1>1, <1>7 DEF RoundBegins
    <2> QED BY <1>1, <1>3, <1>7, <2>1, <2>2, <2>3 DEF RoundBegins
  <1>8. ASSUME SessionMissing PROVE Server' /\ Wire' /\ Game'
    <2>1. toServer' \in Seq(Messages) BY <1>8, MessageTaken DEF SessionMissing
    <2>2. toTab' \in Seq(Frames) BY <1>1, <1>2, <1>8, FramesMade DEF SessionMissing, Broadcast
    <2> QED BY <1>1, <1>8, <2>1, <2>2 DEF SessionMissing, serverVars
  <1>9. ASSUME Hello PROVE Server' /\ Wire' /\ Game'
    <2>1. toServer' \in Seq(Messages) BY <1>9, MessageTaken DEF Hello
    <2> QED BY <1>1, <1>9, <2>1 DEF Hello, serverVars
  <1>10. ASSUME PlaceBet PROVE Server' /\ Wire' /\ Game'
    <2> DEFINE s == Head(toServer).slot
    <2>1. toServer' \in Seq(Messages) /\ s \in Slots /\ stage.no \in Nat BY <1>1, <1>10, MessageTaken DEF PlaceBet
    <2>2. debits' \subseteq debits \cup {[ask |-> FreeAsk, slot |-> s, no |-> stage.no, ws |-> "here"]}
      BY <1>10 DEF PlaceBet
    <2> HIDE DEF s
    <2>3. \A d \in debits' : Debit(d) BY <1>1, <2>1, <2>2
    <2> QED BY <1>1, <1>10, <2>1, <2>3 DEF PlaceBet
  <1>11. ASSUME NEW d \in debits, BetPlaced(d) PROVE Server' /\ Wire' /\ Game'
    <2>1. d.slot \in Slots /\ debits' \subseteq debits BY <1>1, <1>11 DEF BetPlaced
    <2>2. seats' \in [Slots -> Seq(BOOLEAN)]
      <3>1. seats[d.slot] \in Seq(BOOLEAN) BY <1>1, <2>1
      <3>2. Append(seats[d.slot], FALSE) \in Seq(BOOLEAN) BY <3>1, FrameAppended
      <3>3. seats' = seats \/ seats' = [seats EXCEPT ![d.slot] = Append(seats[d.slot], FALSE)] BY <1>11 DEF BetPlaced
      <3> QED BY <1>1, <3>2, <3>3
    <2>3. toTab' \in Seq(Frames) /\ sock' \in {"down", "up", "claimed"}
      <3>1. SlotFrame("bet_placed", d.slot) \in Frames BY <2>1, FramesMade
      <3> QED BY <1>1, <1>2, <1>11, <3>1 DEF BetPlaced
    <2> QED BY <1>1, <1>11, <2>1, <2>2, <2>3 DEF BetPlaced
  <1>12. ASSUME NEW d \in debits, BetFails(d) PROVE Server' /\ Wire' /\ Game' BY <1>1, <1>12 DEF BetFails
  <1>13. ASSUME Cashout PROVE Server' /\ Wire' /\ Game'
    <2> DEFINE s == Head(toServer).slot
    <2>1. toServer' \in Seq(Messages) /\ s \in Slots BY <1>13, MessageTaken DEF Cashout
    <2>2. /\ stage' = stage /\ debits' = debits /\ tab' = tab /\ sock' = sock /\ toTab' = toTab /\ alive' = alive /\ clean' = clean
          /\ (seats' = seats /\ cashouts' = cashouts) \/ (seats[s] # <<>> /\ CashesOut(s, 1))
      BY <1>13 DEF Cashout
    <2> HIDE DEF s
    <2>3. seats[s] # <<>> => 1 \in DOMAIN seats[s]
      <3>1. seats[s] \in Seq(BOOLEAN) BY <1>1, <2>1
      <3> QED BY <3>1, FrameTaken
    <2>4. seats' \in [Slots -> Seq(BOOLEAN)] /\ cashouts' \subseteq [slot : Slots, no : Nat, ok : BOOLEAN]
      BY <1>1, <1>4, <2>1, <2>2, <2>3
    <2> QED BY <1>1, <2>1, <2>2, <2>4
  <1>14. ASSUME NEW s \in Slots, NEW i \in DOMAIN seats[s], AutoCashout(s, i) PROVE Server' /\ Wire' /\ Game'
    <2>1. seats' \in [Slots -> Seq(BOOLEAN)] /\ cashouts' \subseteq [slot : Slots, no : Nat, ok : BOOLEAN]
      BY <1>4, <1>14 DEF AutoCashout
    <2> QED BY <1>1, <1>14, <2>1 DEF AutoCashout
  <1>15. ASSUME NEW c \in cashouts, CashoutPaid(c) PROVE Server' /\ Wire' /\ Game'
    <2>1. c.slot \in Slots BY <1>1
    <2>2. toTab' \in Seq(Frames) BY <1>1, <1>2, <1>15, <2>1, FramesMade DEF CashoutPaid, SendToSession
    <2> QED BY <1>1, <1>15, <2>2 DEF CashoutPaid
  <1>16. ASSUME NEW c \in cashouts, CashoutUnpaid(c) PROVE Server' /\ Wire' /\ Game'
    <2>1. [c EXCEPT !.ok = FALSE] \in [slot : Slots, no : Nat, ok : BOOLEAN] BY <1>1
    <2> QED BY <1>1, <1>16, <2>1 DEF CashoutUnpaid
  <1>17. ASSUME Connect PROVE Server' /\ Wire' /\ Game'
    <2>1. Frame("join", stage.no, stage.phase) \in Frames /\ Message("hello", 0) \in Messages BY <1>1, FramesMade
    <2>2. toTab' \in Seq(Frames) /\ toServer' \in Seq(Messages) BY <1>17, <2>1 DEF Connect
    <2> QED BY <1>1, <1>17, <2>2 DEF Connect, serverVars
  <1>18. ASSUME Disconnect PROVE Server' /\ Wire' /\ Game' BY <1>1, <1>5, <1>18 DEF Disconnect
  <1>19. ASSUME NewSession PROVE Server' /\ Wire' /\ Game' BY <1>1, <1>3, <1>5, <1>19 DEF NewSession
  <1>20. ASSUME SessionExpires PROVE Server' /\ Wire' /\ Game' BY <1>1, <1>20 DEF SessionExpires, serverVars
  <1>21. ASSUME Receive PROVE Server' /\ Wire' /\ Game'
    <2>1. toTab # <<>> /\ toTab' = Tail(toTab) /\ tab' \in TabRecords /\ toServer' \in Seq(Messages) BY <1>21, Received
    <2>2. toTab' \in Seq(Frames) BY <1>1, <2>1, FrameTaken
    <2> QED BY <1>1, <1>21, <2>1, <2>2 DEF Receive, serverVars
  <1>22. ASSUME NEW s \in Slots, ClickBet(s) \/ ClickCashOut(s) PROVE Server' /\ Wire' /\ Game'
    <2>1. Message("place_bet", s) \in Messages /\ Message("cashout", s) \in Messages BY FramesMade
    <2>2. toServer' \in Seq(Messages)
      <3>1. CASE ClickBet(s) BY <1>1, <2>1, <3>1, FrameAppended DEF ClickBet
      <3>2. CASE ClickCashOut(s) BY <1>1, <2>1, <3>2, FrameAppended DEF ClickCashOut
      <3> QED BY <1>22, <3>1, <3>2
    <2> QED BY <1>1, <1>22, <2>2 DEF ClickBet, ClickCashOut, serverVars
  <1>23. Server' /\ Wire' /\ Game'
    BY <1>6, <1>7, <1>8, <1>9, <1>10, <1>11, <1>12, <1>13, <1>14, <1>15, <1>16, <1>17, <1>18, <1>19, <1>20, <1>21, <1>22
       DEF TabNext
  <1> QED BY <1>23 DEF TabTypes, TabRecords

-----------------------------------------------------------------------------
(* While the socket holds. *)

SeedHolds == stage.phase \in {"CRASHED", "RESULT"} => SeedShown(tab, toTab) = stage.no
PanelsHold == stage.phase \in {"BETTING", "FLYING"} => \A s \in Slots : PanelHolds(tab, toTab, seats[s], Owed(s), s)

\* A panel with one open bet, and a bet more on a panel.
LEMMA OneSeat == DOMAIN <<FALSE>> = {1} /\ ~<<FALSE>>[1]
  OBVIOUS

LEMMA SeatTaken ==
  ASSUME NEW q \in Seq(BOOLEAN)
  PROVE  /\ \E j \in DOMAIN Append(q, FALSE) : ~Append(q, FALSE)[j]
         /\ \A j \in DOMAIN q : j \in DOMAIN Append(q, FALSE) /\ (q[j] => Append(q, FALSE)[j])
  <1> DEFINE u == Append(q, FALSE)
  <1>1. DOMAIN q = 1..Len(q) /\ DOMAIN u = 1..(Len(q) + 1) /\ Len(q) \in Nat BY FrameAppended
  <1>2. u[Len(q) + 1] = FALSE OBVIOUS
  <1>3. \A j \in 1..Len(q) : u[j] = q[j] OBVIOUS
  <1> HIDE DEF u
  <1>4. \E j \in DOMAIN u : ~u[j]
    <2>1. Len(q) + 1 \in DOMAIN u BY <1>1
    <2> QED BY <1>2, <2>1
  <1>5. \A j \in DOMAIN q : j \in DOMAIN u /\ (q[j] => u[j]) BY <1>1, <1>3
  <1> QED BY <1>4, <1>5 DEF u

\* A cashout marks the bet and is owed until it is paid.
LEMMA CashedOut ==
  ASSUME TabTypes, CleanSocket, SeedHolds, PanelsHold, UNCHANGED <<stage, debits, sock, toTab, alive, tab>>,
         NEW s \in Slots, NEW i \in DOMAIN seats[s], CashesOut(s, i)
  PROVE  (CleanSocket /\ SeedHolds /\ PanelsHold)'
  <1>1. /\ seats \in [Slots -> Seq(BOOLEAN)] /\ seats' = [seats EXCEPT ![s] = [seats[s] EXCEPT ![i] = TRUE]]
        /\ cashouts' = cashouts \cup {[slot |-> s, no |-> stage.no, ok |-> TRUE]}
    BY DEF TabTypes, CashesOut
  <1>2. /\ \A r \in Slots : r # s => seats'[r] = seats[r]
        /\ seats'[s] = [seats[s] EXCEPT ![i] = TRUE]
    BY <1>1
  <1>3. seats[s] \in Seq(BOOLEAN) /\ i \in DOMAIN seats[s] BY <1>1
  <1>4. /\ i \in DOMAIN seats'[s] /\ seats'[s][i] = TRUE /\ seats'[s] # <<FALSE>>
        /\ \A j \in DOMAIN seats[s] : j \in DOMAIN seats'[s] /\ (seats[s][j] => seats'[s][j])
    <2>1. DOMAIN seats'[s] = DOMAIN seats[s] /\ \A j \in DOMAIN seats[s] : seats'[s][j] = IF j = i THEN TRUE ELSE seats[s][j]
      BY <1>2
    <2>2. seats'[s] # <<FALSE>>
      <3> SUFFICES ASSUME seats'[s] = <<FALSE>> PROVE FALSE OBVIOUS
      <3>1. i \in DOMAIN <<FALSE>> /\ <<FALSE>>[i] = TRUE BY <1>3, <2>1
      <3> QED BY <3>1, OneSeat
    <2> QED BY <2>1, <2>2
  <1>5. CleanSocket'
    <2>1. \A c \in cashouts' : \E j \in DOMAIN seats'[c.slot] : seats'[c.slot][j]
      <3> SUFFICES ASSUME NEW c \in cashouts' PROVE \E j \in DOMAIN seats'[c.slot] : seats'[c.slot][j] OBVIOUS
      <3>1. CASE c.slot = s BY <1>4, <3>1
      <3>2. CASE c.slot # s
        <4>1. c \in cashouts /\ c.slot \in Slots BY <1>1, <3>2 DEF TabTypes
        <4> QED BY <1>2, <3>2, <4>1 DEF CleanSocket
      <3> QED BY <3>1, <3>2
    <2> QED BY <2>1 DEF CleanSocket
  <1>6. PanelsHold'
    <2> SUFFICES ASSUME stage.phase \in {"BETTING", "FLYING"}, NEW r \in Slots
                 PROVE  PanelHolds(tab, toTab, seats'[r], Owed(r)', r)
      BY DEF PanelsHold
    <2>1. PanelHolds(tab, toTab, seats[r], Owed(r), r) BY DEF PanelsHold
    <2>2. Owed(r) => Owed(r)' BY <1>1 DEF Owed
    <2>3. Owed(s)'
      <3> DEFINE c == [slot |-> s, no |-> stage.no, ok |-> TRUE]
      <3>1. c \in cashouts' /\ c.slot = s BY <1>1
      <3> HIDE DEF c
      <3> QED BY <3>1 DEF Owed
    <2>4. CASE r = s BY <1>4, <2>3, <2>4 DEF PanelHolds
    <2>5. CASE r # s
      <3>1. seats'[r] = seats[r] BY <1>2, <2>5
      <3> HIDE DEF Owed
      <3> QED BY <2>1, <2>2, <3>1 DEF PanelHolds
    <2> QED BY <2>4, <2>5
  <1> QED BY <1>5, <1>6 DEF SeedHolds

LEMMA CleanStep == TabTypes /\ RoundInv /\ SocketInv /\ CleanInv /\ TabNext => CleanInv'
  <1> SUFFICES ASSUME TabTypes, RoundInv, SocketInv, CleanInv, TabNext, clean' PROVE (CleanSocket /\ SeedHolds /\ PanelsHold)'
    BY DEF CleanInv, SeedHolds, PanelsHold
  <1>1. /\ toTab \in Seq(Frames) /\ stage \in [no : Nat, phase : Phases] /\ seats \in [Slots -> Seq(BOOLEAN)]
        /\ cashouts \subseteq [slot : Slots, no : Nat, ok : BOOLEAN] /\ \A d \in debits : d.slot \in Slots
    BY DEF TabTypes
  <1>2. clean => CleanSocket /\ SeedHolds /\ PanelsHold /\ Open BY DEF CleanInv, SeedHolds, PanelsHold, CleanSocket, Open
  <1>3. ASSUME PhaseChanges PROVE (CleanSocket /\ SeedHolds /\ PanelsHold)'
    <2>1. /\ clean /\ seats' = seats /\ debits' = debits /\ cashouts' = cashouts /\ sock' = sock /\ alive' = alive /\ tab' = tab
      BY <1>3 DEF PhaseChanges
    <2>2. /\ stage'.no = stage.no /\ stage'.phase = FollowingPhase[stage.phase]
          /\ \E f \in Frames : StageFrame(f, stage, stage') /\ toTab' = IF Open THEN Append(toTab, f) ELSE toTab
      BY <1>3, PhaseTold
    <2>3. PICK f \in Frames : StageFrame(f, stage, stage') /\ toTab' = Append(toTab, f) BY <1>2, <2>1, <2>2
    <2>4. /\ f.no = stage'.no /\ f.phase = stage'.phase /\ (f.kind = "crash" <=> f.phase = "CRASHED")
          /\ f.kind = "crash" \/ f.kind = "phase_change"
      BY <2>3 DEF StageFrame
    <2>5. stage.phase \in Phases /\ stage.phase # "RESULT" BY <1>1, <1>3 DEF PhaseChanges
    <2>6. /\ stage'.phase \in {"FLYING", "CRASHED", "RESULT"}
          /\ stage'.phase = "FLYING" => stage.phase = "BETTING"
      BY <2>2, <2>5 DEF FollowingPhase, Phases
    <2>7. CleanSocket' BY <1>2, <2>1, <2>2 DEF CleanSocket
    <2>8. SeedHolds'
      <3> SUFFICES ASSUME stage'.phase \in {"CRASHED", "RESULT"} PROVE SeedShown(tab', toTab') = stage'.no BY DEF SeedHolds
      <3>1. f \in SeedFrames BY <2>4, FrameKinds
      <3>2. SeedShown(tab, Append(toTab, f)) = f.no BY <1>1, <3>1, ShownAppended
      <3> QED BY <2>1, <2>3, <2>4, <3>2
    <2>9. PanelsHold'
      <3> SUFFICES ASSUME stage'.phase = "FLYING", NEW s \in Slots PROVE PanelHolds(tab', toTab', seats'[s], Owed(s)', s)
        BY <2>6 DEF PanelsHold
      <3>1. PanelHolds(tab, toTab, seats[s], Owed(s), s) BY <1>2, <2>1, <2>6 DEF PanelsHold
      <3>2. f \notin PanelFrames(s) BY <2>4, FrameKinds
      <3>3. BetShown(tab, Append(toTab, f), s) = BetShown(tab, toTab, s) BY <1>1, <3>2, ShownAppended
      <3>4. Owed(s)' <=> Owed(s) BY <2>1 DEF Owed
      <3> HIDE DEF Owed
      <3> QED BY <2>1, <2>3, <3>1, <3>3, <3>4 DEF PanelHolds
    <2> QED BY <2>7, <2>8, <2>9
  <1>4. ASSUME RoundBegins PROVE (CleanSocket /\ SeedHolds /\ PanelsHold)'
    <2>1. /\ sock = "claimed" /\ alive /\ debits = {} /\ cashouts' = {} /\ seats' = NoSeats
          /\ debits' = debits /\ sock' = sock /\ alive' = alive /\ tab' = tab
      BY <1>4 DEF RoundBegins
    <2>2. /\ stage'.phase = "BETTING"
          /\ \E f \in Frames : StageFrame(f, stage, stage') /\ toTab' = IF Open THEN Append(toTab, f) ELSE toTab
      BY <1>4, RoundTold
    <2>3. PICK f \in Frames : StageFrame(f, stage, stage') /\ toTab' = Append(toTab, f) BY <2>1, <2>2 DEF Open
    <2>4. CleanSocket' BY <2>1 DEF CleanSocket
    <2>5. PanelsHold'
      <3> SUFFICES ASSUME NEW s \in Slots PROVE PanelHolds(tab', toTab', seats'[s], Owed(s)', s) BY DEF PanelsHold
      <3>1. f.phase = "BETTING" /\ f.kind = "phase_change" BY <2>2, <2>3 DEF StageFrame
      <3>2. f \in PanelFrames(s) BY <3>1, FrameKinds
      <3>3. ~BetShown(tab, Append(toTab, f), s) BY <1>1, <3>1, <3>2, ShownAppended
      <3>4. seats'[s] = <<>> /\ <<>> # <<FALSE>> BY <2>1 DEF NoSeats
      <3> QED BY <2>1, <2>3, <3>3, <3>4 DEF PanelHolds
    <2> QED BY <2>2, <2>4, <2>5 DEF SeedHolds
  <1>5. ASSUME clean, UNCHANGED <<stage, seats, cashouts, toTab, alive, tab>>, sock' = sock \/ sock' = "claimed",
               \A d \in debits' : d \in debits \/ (d.no = stage.no /\ d.ws = "here")
        PROVE  (CleanSocket /\ SeedHolds /\ PanelsHold)'
    <2>1. CleanSocket' BY <1>2, <1>5 DEF CleanSocket
    <2>2. SeedHolds' BY <1>2, <1>5 DEF SeedHolds
    <2>3. \A s \in Slots : Owed(s)' <=> Owed(s) BY <1>5 DEF Owed
    <2> HIDE DEF Owed
    <2>4. PanelsHold' BY <1>2, <1>5, <2>3 DEF PanelsHold, PanelHolds
    <2> QED BY <2>1, <2>2, <2>4
  <1>6. ASSUME SessionMissing PROVE FALSE BY <1>2, <1>6 DEF SessionMissing, CleanSocket
  <1>7. ASSUME Hello PROVE (CleanSocket /\ SeedHolds /\ PanelsHold)' BY <1>5, <1>7 DEF Hello, serverVars
  <1>8. ASSUME PlaceBet PROVE (CleanSocket /\ SeedHolds /\ PanelsHold)' BY <1>5, <1>8 DEF PlaceBet
  <1>9. ASSUME NEW d \in debits, BetPlaced(d) PROVE (CleanSocket /\ SeedHolds /\ PanelsHold)'
    <2> DEFINE f == SlotFrame("bet_placed", d.slot)
               seat == Append(seats[d.slot], FALSE)
    <2>1. clean BY <1>9 DEF BetPlaced
    <2>2. d.no = stage.no /\ d.ws = "here" /\ d.slot \in Slots BY <1>1, <1>2, <2>1 DEF CleanSocket
    <2>3. /\ toTab' = Append(toTab, f) /\ sock' = "claimed" /\ debits' \subseteq debits
          /\ stage' = stage /\ cashouts' = cashouts /\ alive' = alive /\ tab' = tab /\ seats' = [seats EXCEPT ![d.slot] = seat]
      BY <1>9, <2>2 DEF BetPlaced
    <2>4. f \in Frames /\ f \notin RoundFrames /\ f.kind = "bet_placed" /\ f.slot = d.slot BY <2>2, FramesMade
    <2>5. /\ \E j \in DOMAIN seat : ~seat[j]
          /\ \A j \in DOMAIN seats[d.slot] : j \in DOMAIN seat /\ (seats[d.slot][j] => seat[j])
      <3>1. seats[d.slot] \in Seq(BOOLEAN) BY <1>1, <2>2
      <3> QED BY <3>1, SeatTaken
    <2> HIDE DEF f, seat
    <2>6. seats'[d.slot] = seat /\ \A s \in Slots : s # d.slot => seats'[s] = seats[s] BY <1>1, <2>2, <2>3
    <2>7. CleanSocket'
      <3>1. \A c \in cashouts' : \E j \in DOMAIN seats'[c.slot] : seats'[c.slot][j]
        <4> SUFFICES ASSUME NEW c \in cashouts PROVE \E j \in DOMAIN seats'[c.slot] : seats'[c.slot][j] BY <2>3
        <4>1. PICK j \in DOMAIN seats[c.slot] : seats[c.slot][j] BY <1>2, <2>1 DEF CleanSocket
        <4>2. c.slot \in Slots BY <1>1
        <4>3. CASE c.slot = d.slot
          <5>1. j \in DOMAIN seat /\ seat[j] BY <2>5, <4>1, <4>3
          <5> QED BY <2>6, <4>1, <4>3, <5>1
        <4>4. CASE c.slot # d.slot BY <2>6, <4>1, <4>2, <4>4
        <4> QED BY <4>3, <4>4
      <3> QED BY <1>2, <2>1, <2>3, <3>1 DEF CleanSocket
    <2>8. SeedHolds'
      <3>1. f \notin SeedFrames BY <2>4, FrameKinds
      <3>2. SeedShown(tab, Append(toTab, f)) = SeedShown(tab, toTab) BY <1>1, <2>4, <3>1, ShownAppended
      <3> QED BY <1>2, <2>1, <2>3, <3>2 DEF SeedHolds
    <2>9. PanelsHold'
      <3> SUFFICES ASSUME stage.phase \in {"BETTING", "FLYING"}, NEW s \in Slots
                   PROVE  PanelHolds(tab', toTab', seats'[s], Owed(s)', s)
        BY <2>3 DEF PanelsHold
      <3>1. PanelHolds(tab, toTab, seats[s], Owed(s), s) BY <1>2, <2>1 DEF PanelsHold
      <3>2. BetShown(tab, Append(toTab, f), s) = IF f \in PanelFrames(s) THEN f.kind = "bet_placed" ELSE BetShown(tab, toTab, s)
        BY ZenonT(60), <1>1, <2>4, ShownAppended
      <3>3. f \in PanelFrames(s) <=> s = d.slot BY <2>4, FrameKinds
      <3>4. Owed(s)' <=> Owed(s) BY <2>3 DEF Owed
      <3> HIDE DEF Owed
      <3>5. CASE s = d.slot
        <4>1. BetShown(tab', toTab', s) BY <2>3, <2>4, <3>2, <3>3, <3>5
        <4> QED BY <2>5, <2>6, <3>5, <4>1 DEF PanelHolds
      <3>6. CASE s # d.slot
        <4>1. BetShown(tab', toTab', s) = BetShown(tab, toTab, s) BY <2>3, <3>2, <3>3, <3>6
        <4> QED BY <2>6, <3>1, <3>4, <3>6, <4>1 DEF PanelHolds
      <3> QED BY <3>5, <3>6
    <2> QED BY <2>7, <2>8, <2>9
  <1>10. ASSUME NEW d \in debits, BetFails(d) PROVE (CleanSocket /\ SeedHolds /\ PanelsHold)' BY <1>5, <1>10 DEF BetFails
  <1>11. ASSUME Cashout PROVE (CleanSocket /\ SeedHolds /\ PanelsHold)'
    <2> DEFINE s == Head(toServer).slot
    <2>1. s \in Slots BY <1>11, MessageTaken DEF Cashout
    <2>2. /\ clean /\ stage' = stage /\ debits' = debits /\ tab' = tab /\ sock' = sock /\ toTab' = toTab /\ alive' = alive
          /\ (seats' = seats /\ cashouts' = cashouts) \/ (seats[s] # <<>> /\ CashesOut(s, 1))
      BY <1>11 DEF Cashout
    <2> HIDE DEF s
    <2>3. seats[s] # <<>> => 1 \in DOMAIN seats[s]
      <3>1. seats[s] \in Seq(BOOLEAN) BY <1>1, <2>1
      <3> QED BY <3>1, FrameTaken
    <2>4. CASE seats' = seats /\ cashouts' = cashouts BY <1>5, <2>2, <2>4
    <2>5. CASE seats[s] # <<>> /\ CashesOut(s, 1) BY <1>2, <2>1, <2>2, <2>3, <2>5, CashedOut
    <2> QED BY <2>2, <2>4, <2>5
  <1>12. ASSUME NEW s \in Slots, NEW i \in DOMAIN seats[s], AutoCashout(s, i) PROVE (CleanSocket /\ SeedHolds /\ PanelsHold)'
    <2>1. /\ clean /\ CashesOut(s, i) /\ UNCHANGED <<stage, debits, sock, toTab, alive, tab>> BY <1>12 DEF AutoCashout
    <2> QED BY <1>2, <2>1, CashedOut
  <1>13. ASSUME NEW c \in cashouts, CashoutPaid(c) PROVE (CleanSocket /\ SeedHolds /\ PanelsHold)'
    <2> DEFINE f == SlotFrame("cashout_success", c.slot)
    <2>1. /\ clean /\ cashouts' = cashouts \ {c} /\ UNCHANGED <<stage, seats, debits, sock, alive, tab>> BY <1>13 DEF CashoutPaid
    <2>2. toTab' = Append(toTab, f) BY <1>2, <1>13, <2>1 DEF CashoutPaid, SendToSession, CleanSocket
    <2>3. c.slot \in Slots BY <1>1
    <2>4. f \in Frames /\ f \notin RoundFrames /\ f.kind = "cashout_success" /\ f.slot = c.slot BY <2>3, FramesMade
    <2> HIDE DEF f
    <2>5. CleanSocket' BY <1>2, <2>1 DEF CleanSocket
    <2>6. SeedHolds'
      <3>1. f \notin SeedFrames BY <2>4, FrameKinds
      <3>2. SeedShown(tab, Append(toTab, f)) = SeedShown(tab, toTab) BY <1>1, <2>4, <3>1, ShownAppended
      <3> QED BY <1>2, <2>1, <2>2, <3>2 DEF SeedHolds
    <2>7. PanelsHold'
      <3> SUFFICES ASSUME stage.phase \in {"BETTING", "FLYING"}, NEW s \in Slots
                   PROVE  PanelHolds(tab', toTab', seats'[s], Owed(s)', s)
        BY <2>1 DEF PanelsHold
      <3>1. PanelHolds(tab, toTab, seats[s], Owed(s), s) BY <1>2, <2>1 DEF PanelsHold
      <3>2. BetShown(tab, Append(toTab, f), s) = IF f \in PanelFrames(s) THEN f.kind = "bet_placed" ELSE BetShown(tab, toTab, s)
        <4>1. f \in Frames BY <2>4
        <4> QED BY ZenonT(60), <1>1, <4>1, ShownAppended
      <3>3. f \in PanelFrames(s) <=> s = c.slot BY <2>4, FrameKinds
      <3>4. CASE s = c.slot
        <4>1. ~BetShown(tab', toTab', s) BY <2>1, <2>2, <2>4, <3>2, <3>3, <3>4
        <4>2. PICK j \in DOMAIN seats[s] : seats[s][j] BY <1>2, <2>1, <3>4 DEF CleanSocket
        <4>3. seats[s] # <<FALSE>> BY <4>2, OneSeat
        <4> QED BY <2>1, <4>1, <4>3 DEF PanelHolds
      <3>5. CASE s # c.slot
        <4>1. BetShown(tab', toTab', s) = BetShown(tab, toTab, s) BY <2>1, <2>2, <3>2, <3>3, <3>5
        <4>2. Owed(s)' <=> Owed(s) BY <2>1, <3>5 DEF Owed
        <4> HIDE DEF Owed
        <4> QED BY <2>1, <3>1, <4>1, <4>2 DEF PanelHolds
      <3> QED BY <3>4, <3>5
    <2> QED BY <2>5, <2>6, <2>7
  <1>14. ASSUME NEW c \in cashouts, CashoutUnpaid(c) PROVE (CleanSocket /\ SeedHolds /\ PanelsHold)'
    <2> DEFINE e == [c EXCEPT !.ok = FALSE]
    <2>1. /\ clean /\ cashouts' = (cashouts \ {c}) \cup {e} /\ UNCHANGED <<stage, seats, debits, sock, toTab, alive, tab>>
      BY <1>14 DEF CashoutUnpaid
    <2>2. e.slot = c.slot BY <1>1
    <2> HIDE DEF e
    <2>3. CleanSocket' BY <1>2, <2>1, <2>2 DEF CleanSocket
    <2>4. SeedHolds' BY <1>2, <2>1 DEF SeedHolds
    <2>5. \A s \in Slots : Owed(s)' <=> Owed(s) BY <2>1, <2>2 DEF Owed
    <2> HIDE DEF Owed
    <2>6. PanelsHold' BY <1>2, <2>1, <2>5 DEF PanelsHold, PanelHolds
    <2> QED BY <2>3, <2>4, <2>6
  <1>15. ASSUME Connect PROVE FALSE BY <1>2, <1>15 DEF Connect, Open
  <1>16. ASSUME Disconnect \/ NewSession \/ SessionExpires PROVE FALSE
    BY <1>16 DEF Disconnect, NewSession, SessionExpires, Closed
  <1>17. ASSUME Receive PROVE (CleanSocket /\ SeedHolds /\ PanelsHold)'
    <2>1. toTab # <<>> /\ toTab' = Tail(toTab) /\ Reads(tab, tab', Head(toTab)) BY <1>17, Received
    <2>2. clean /\ UNCHANGED <<stage, seats, debits, cashouts, sock, alive>> BY <1>17 DEF Receive, serverVars
    <2>3. /\ SeedShown(tab', toTab') = SeedShown(tab, toTab)
          /\ \A s \in Slots : BetShown(tab', toTab', s) = BetShown(tab, toTab, s)
      BY <1>1, <2>1, ShownTaken
    <2>4. CleanSocket' BY <1>2, <2>2 DEF CleanSocket
    <2>5. SeedHolds' BY <1>2, <2>2, <2>3 DEF SeedHolds
    <2>6. \A s \in Slots : Owed(s)' <=> Owed(s) BY <2>2 DEF Owed
    <2> HIDE DEF Owed
    <2>7. PanelsHold' BY <1>2, <2>2, <2>3, <2>6 DEF PanelsHold, PanelHolds
    <2> QED BY <2>4, <2>5, <2>7
  <1>18. ASSUME NEW s \in Slots, ClickBet(s) \/ ClickCashOut(s) PROVE (CleanSocket /\ SeedHolds /\ PanelsHold)'
    BY <1>5, <1>18 DEF ClickBet, ClickCashOut, serverVars
  <1> QED BY <1>3, <1>4, <1>6, <1>7, <1>8, <1>9, <1>10, <1>11, <1>12, <1>13, <1>14, <1>15, <1>16, <1>17, <1>18 DEF TabNext

LEMMA TabStart == TabInit => TabInv
  <1> SUFFICES ASSUME TabInit PROVE TabInv OBVIOUS
  <1>1. /\ stage = [no |-> 1, phase |-> "BETTING"] /\ seats = NoSeats /\ debits = {} /\ cashouts = {}
        /\ sock = "down" /\ toTab = <<>> /\ toServer = <<>> /\ alive = TRUE /\ clean = FALSE
        /\ tab = [phase |-> "BETTING", no |-> 0, commit |-> 0, seed |-> 0, prev |-> 0, hasBet |-> NoSlots, rebets |-> 0]
    BY DEF TabInit
  <1>2. TabTypes
    <2>1. NoSeats \in [Slots -> Seq(BOOLEAN)] /\ NoSlots \in [Slots -> BOOLEAN] BY DEF NoSeats, NoSlots
    <2>2. stage \in [no : Nat, phase : Phases] /\ tab \in TabRecords BY <1>1, <2>1 DEF Phases, TabRecords
    <2>3. toTab \in Seq(Frames) /\ toServer \in Seq(Messages) BY <1>1
    <2> QED BY <1>1, <2>1, <2>2, <2>3 DEF TabTypes, TabRecords
  <1>3. OrderInv BY <1>1 DEF OrderInv, InOrder, Follows
  <1>4. RoundInv
    <2>1. Cardinality(RebetSlots) \in Nat BY GameTabAssumption, FS_Subset, FS_CardinalityType
    <2>2. TabRight(tab) BY <1>1, <2>1 DEF TabRight
    <2>3. AllKnown(tab, <<>>) /\ KindsRight(<<>>) BY DEF AllKnown, KindsRight
    <2> QED BY <1>1, <2>2, <2>3 DEF RoundInv, Open
  <1>5. SocketInv /\ CleanInv BY <1>1 DEF SocketInv, CleanInv, Open
  <1> QED BY <1>2, <1>3, <1>4, <1>5 DEF TabInv

LEMMA TabStep == TabInv /\ [TabNext]_tabVars => TabInv'
  <1> SUFFICES ASSUME TabInv, [TabNext]_tabVars PROVE TabInv' OBVIOUS
  <1>1. CASE TabNext BY <1>1, TypesStep, OrderStep, RoundStep, SocketStep, CleanStep DEF TabInv
  <1>2. CASE UNCHANGED tabVars
    <2>1. UNCHANGED <<stage, seats, debits, cashouts, sock, toTab, toServer, alive, tab, clean>>
      BY <1>2 DEF tabVars, serverVars
    <2>2. TabTypes' /\ OrderInv' /\ RoundInv' /\ SocketInv'
      BY <2>1 DEF TabInv, TabTypes, OrderInv, RoundInv, SocketInv, Open
    <2>3. CleanInv' BY <2>1 DEF TabInv, CleanInv, CleanSocket, PanelHolds, Owed
    <2> QED BY <2>2, <2>3 DEF TabInv
  <1> QED BY <1>1, <1>2

\* With nothing under way the tab shows what the invariant says.
LEMMA TabTells == TabInv => TabIsHonest
  <1> SUFFICES ASSUME TabInv PROVE TabIsHonest OBVIOUS
  <1>1. TabRight(tab) /\ stage \in [no : Nat, phase : Phases] BY DEF TabInv, RoundInv, TabTypes
  <1>2. ASSUME Drained
        PROVE  /\ RoundShown(tab, toTab) = [no |-> tab.no, phase |-> tab.phase]
               /\ SeedShown(tab, toTab) = tab.seed /\ \A s : BetShown(tab, toTab, s) = tab.hasBet[s]
               /\ RoundShown(tab, toTab) = stage
    <2>1. \A K : LastOf(K, toTab) = None BY <1>2 DEF LastOf, Drained
    <2>2. RoundShown(tab, toTab) = stage BY <1>2 DEF Drained, TabInv, SocketInv
    <2> QED BY <2>1, <2>2 DEF RoundShown, SeedShown, BetShown
  <1>3. TabShowsTheGame
    <2> SUFFICES ASSUME Drained
                 PROVE  /\ tab.phase = stage.phase /\ tab.no = stage.no /\ tab.commit = stage.no
                        /\ tab.prev \in {stage.no - 1, stage.no}
                        /\ clean /\ stage.phase \in {"CRASHED", "RESULT"} => tab.seed = tab.commit
      BY DEF TabShowsTheGame
    <2>1. tab.phase = stage.phase /\ tab.no = stage.no BY <1>2
    <2>2. tab.commit = stage.no /\ tab.prev \in {stage.no - 1, stage.no} BY <1>1, <2>1 DEF TabRight
    <2>3. clean /\ stage.phase \in {"CRASHED", "RESULT"} => tab.seed = stage.no BY <1>2 DEF TabInv, CleanInv
    <2> QED BY <2>1, <2>2, <2>3
  <1>4. PanelsShowTheBets
    <2>1. ASSUME Drained, clean, stage.phase \in {"BETTING", "FLYING"}, NEW s \in Slots
          PROVE  /\ seats[s] = <<FALSE>> => tab.hasBet[s]
                 /\ tab.hasBet[s] => (\E i \in DOMAIN seats[s] : ~seats[s][i]) \/ Owed(s)
      <3>1. PanelHolds(tab, toTab, seats[s], Owed(s), s) BY <2>1 DEF TabInv, CleanInv
      <3>2. BetShown(tab, toTab, s) = tab.hasBet[s] BY <1>2, <2>1
      <3> HIDE DEF Owed
      <3> QED BY <3>1, <3>2 DEF PanelHolds
    <2> QED BY <1>1, <2>1 DEF PanelsShowTheBets, TabRight
  <1> QED BY <1>3, <1>4 DEF TabIsHonest

\* The tab of a player who stays connected tells the truth about the round and the
\* bets, however the frames, the messages and the losses of the socket interleave.
THEOREM TabHonest == TabSpec => []TabIsHonest
  <1>1. TabSpec => []TabInv BY TabStart, TabStep, PTL DEF TabSpec
  <1> QED BY <1>1, TabTells, PTL
=============================================================================
