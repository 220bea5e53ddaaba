--------------------------- MODULE FairnessProofs ---------------------------
(***************************************************************************)
(* Commit and reveal keep their promise for every set of games, any number *)
(* of rounds, edits and restarts; and the house keeps its edge for every   *)
(* number of draws, return and maximum.  The invariant of ProvablyFair     *)
(* says where the seeds of a game are: those published or drawn with lie   *)
(* before the one that waits, and those revealed before the one in play.   *)
(***************************************************************************)
EXTENDS ProvablyFair, Flight, FiniteSetTheorems, WellFoundedInduction, TLAPS

Seeds == FairGames \X Nat
Points == [seed : Seeds, message : [1..1 -> Nat] \cup (Nat \X FairGames), rtp : FairRtps]

\* Types, and the engine of a game: it waits with a seed of the game's own.
Engines ==
  [phase : {"BETTING", "FLYING", "CRASHED"}, no : Nat, seed : Seeds, next : Seeds, rtp : FairRtps, point : Points]

FairTypeOK ==
  /\ listing \in [FairGames -> [rtp : FairRtps, active : BOOLEAN]]
  /\ engineOf \in [FairGames -> Engines \cup {NoEngine}]
  /\ drawn \in [FairGames -> Nat]
  /\ published \subseteq [game : FairGames, no : Nat, commit : {"sha256"} \X Seeds]
  /\ revealed \subseteq [game : FairGames, no : Nat, seed : Seeds, point : Points]
  /\ terms \subseteq Seeds \X FairRtps
  /\ edits \in Nat /\ starts \in Nat

\* A seed that has served: drawn, and before the one that waits.
Served(s) == s[2] <= drawn[s[1]] /\ (Running(s[1]) => s[2] < engineOf[s[1]].next[2])

\* The two seeds of an engine, and what was told and noted about the one in play.
EngineInv ==
  \A g \in FairGames : Running(g) =>
    LET e == engineOf[g] IN
    /\ e.seed[1] = g /\ e.next[1] = g /\ e.seed[2] < e.next[2] /\ e.next[2] <= drawn[g]
    /\ [game |-> g, no |-> e.no, commit |-> CommitTo(e.seed)] \in published
    /\ <<e.seed, e.point.rtp>> \in terms
    /\ e.point = CrashPointFor(e.seed, CrashMessage(e.no, g), e.point.rtp)

\* Commitments and terms are made once for a seed.
CommitInv ==
  /\ \A p \in published : p.commit[2][1] = p.game /\ Served(p.commit[2])
  /\ \A p, q \in published : p.commit = q.commit => p = q
  /\ \A t \in terms : Served(t[1])
  /\ \A t, u \in terms : t[1] = u[1] => t = u

\* A revealed seed lies before the one in play, with its commitment and its terms.
RevealInv ==
  \A r \in revealed :
    /\ r.seed[1] = r.game /\ Served(r.seed)
    /\ Running(r.game) /\ engineOf[r.game].phase # "CRASHED" => r.seed[2] < engineOf[r.game].seed[2]
    /\ [game |-> r.game, no |-> r.no, commit |-> CommitTo(r.seed)] \in published
    /\ <<r.seed, r.point.rtp>> \in terms
    /\ r.point = CrashPointFor(r.seed, CrashMessage(r.no, r.game), r.point.rtp)

\* The inductive invariant.
FairInv == FairTypeOK /\ EngineInv /\ CommitInv /\ RevealInv

-----------------------------------------------------------------------------
LEMMA InitFairInv == FairInit => FairInv
  BY FairAssumption
     DEF FairAssumption, FairInit, FairInv, FairTypeOK, EngineInv, CommitInv, RevealInv, NoEngine, Running

\* What draws a point for a seed and a round of a game.
LEMMA PointType ==
  ASSUME NEW g \in FairGames, NEW s \in Seeds, NEW n \in Nat, NEW rtp \in FairRtps
  PROVE  /\ CrashPointFor(s, CrashMessage(n, g), DrawRtp(g, rtp)) \in Points
         /\ DrawRtp(g, rtp) \in FairRtps
         /\ CrashPointFor(s, CrashMessage(n, g), rtp) \in Points
  BY FairAssumption DEF FairAssumption, CrashPointFor, CrashMessage, DrawRtp, Points


\* A game begins a round with a seed that has not served, or keeps its round or drops it.
Begins(g) ==
  LET e == engineOf'[g] IN
  /\ e \in Engines /\ e.phase = "BETTING"
  /\ e.seed[1] = g /\ e.next[1] = g /\ e.seed[2] < e.next[2] /\ e.next[2] <= drawn'[g]
  /\ e.point = CrashPointFor(e.seed, CrashMessage(e.no, g), DrawRtp(g, e.rtp))
  /\ drawn'[g] >= drawn[g]
  /\ IF Running(g) THEN e.seed = engineOf[g].next ELSE e.seed[2] > drawn[g]

Keeps(g) ==
  LET e == engineOf'[g] IN
  /\ drawn'[g] = drawn[g]
  /\ \/ e = NoEngine
     \/ /\ Running(g) /\ e \in Engines /\ e.phase = engineOf[g].phase /\ e.no = engineOf[g].no
        /\ e.seed = engineOf[g].seed /\ e.next = engineOf[g].next /\ e.point = engineOf[g].point

\* Games that begin a round together, and what is told of them, keep the invariant.
LEMMA BeginStep ==
  ASSUME FairInv, NEW G \in SUBSET FairGames,
         engineOf' \in [FairGames -> Engines \cup {NoEngine}], drawn' \in [FairGames -> Nat],
         \A g \in G : Begins(g),
         \A g \in FairGames \ G : Keeps(g),
         Announce(G, engineOf'),
         UNCHANGED <<listing, revealed, edits, starts>>
  PROVE  FairInv'
  <1> DEFINE Told(g) == [game |-> g, no |-> engineOf'[g].no, commit |-> CommitTo(engineOf'[g].seed)]
             Term(g) == <<engineOf'[g].seed, DrawRtp(g, engineOf'[g].rtp)>>
  <1> HIDE DEF Told, Term
  <1>1. published' = published \cup {Told(g) : g \in G} /\ terms' = terms \cup {Term(g) : g \in G}
    BY DEF Announce, Told, Term
  <1>2. \A g \in G : /\ engineOf'[g] \in Engines /\ Running(g)'
                     /\ engineOf'[g].seed \in Seeds /\ engineOf'[g].seed[1] = g /\ engineOf'[g].seed[2] \in Nat
                     /\ engineOf'[g].no \in Nat /\ engineOf'[g].rtp \in FairRtps
                     /\ DrawRtp(g, engineOf'[g].rtp) \in FairRtps
    BY FairAssumption DEF Begins, Engines, Seeds, Running, DrawRtp, FairAssumption
  <1>3. \A g \in FairGames : /\ Keeps(g) \/ Begins(g)
                             /\ drawn'[g] >= drawn[g] /\ drawn[g] \in Nat /\ drawn'[g] \in Nat
    BY DEF Keeps, FairInv, FairTypeOK, Begins
  <1>4. \A s \in Seeds : Served(s) => Served(s)'
    <2> SUFFICES ASSUME NEW s \in Seeds, Served(s) PROVE Served(s)' OBVIOUS
    <2>1. s[1] \in FairGames /\ s[2] \in Nat BY DEF Seeds
    <2>2. CASE Keeps(s[1]) BY <2>1, <2>2, <1>3 DEF Keeps, Served, Running, NoEngine
    <2>3. CASE Begins(s[1])
      <3>0. drawn[s[1]] \in Nat /\ engineOf'[s[1]].seed[2] \in Nat BY <2>1, <2>3, <1>3 DEF Begins, Engines, Seeds
      <3>1. s[2] < engineOf'[s[1]].seed[2]
        <4>1. CASE Running(s[1])
          <5>1. engineOf'[s[1]].seed = engineOf[s[1]].next BY <4>1, <2>3 DEF Begins
          <5> QED BY <4>1, <5>1 DEF Served
        <4>2. CASE ~Running(s[1])
          <5>1. engineOf'[s[1]].seed[2] > drawn[s[1]] BY <4>2, <2>3 DEF Begins
          <5> QED BY <5>1, <3>0, <2>1 DEF Served
        <4> QED BY <4>1, <4>2
      <3>2. engineOf'[s[1]].seed[2] \in Nat /\ engineOf'[s[1]].next[2] \in Nat BY <2>3 DEF Begins, Engines, Seeds
      <3> QED BY <2>1, <2>3, <3>1, <3>2, <1>3 DEF Begins, Served
    <2> QED BY <1>3, <2>1, <2>2, <2>3
  <1>5. \A g \in G : Served(engineOf[g].seed)' /\ ~Served(engineOf'[g].seed)
    <2> SUFFICES ASSUME NEW g \in G PROVE Served(engineOf[g].seed)' /\ ~Served(engineOf'[g].seed) OBVIOUS
    <2>1. Begins(g) /\ g \in FairGames /\ drawn[g] \in Nat /\ drawn'[g] \in Nat BY <1>3
    <2>2. engineOf'[g].seed[2] \in Nat /\ engineOf'[g].next[2] \in Nat BY <2>1 DEF Begins, Engines, Seeds
    <2>3. /\ engineOf'[g].seed[1] = g /\ engineOf'[g].seed[2] < engineOf'[g].next[2]
          /\ engineOf'[g].next[2] <= drawn'[g]
      BY <2>1 DEF Begins
    <2>4. Served(engineOf[g].seed)' BY <2>1, <2>2, <2>3 DEF Served
    <2>5. CASE Running(g)
      <3>1. engineOf'[g].seed = engineOf[g].next BY <2>1, <2>5 DEF Begins
      <3> QED BY <3>1, <2>2, <2>3, <2>4, <2>5 DEF Served
    <2>6. CASE ~Running(g)
      <3>1. engineOf'[g].seed[2] > drawn[g] BY <2>1, <2>6 DEF Begins
      <3> QED BY <3>1, <2>1, <2>2, <2>3, <2>4 DEF Served
    <2> QED BY <2>5, <2>6
  <1>6. \A g \in G : /\ Told(g).game = g /\ Told(g).no = engineOf'[g].no
                     /\ Told(g).commit = <<"sha256", engineOf'[g].seed>>
                     /\ Told(g).commit[2] = engineOf'[g].seed
                     /\ Term(g)[1] = engineOf'[g].seed /\ Term(g)[2] = DrawRtp(g, engineOf'[g].rtp)
    BY DEF Told, Term, CommitTo
  <1>7. FairTypeOK'
    <2>1. \A g \in G : Told(g) \in [game : FairGames, no : Nat, commit : {"sha256"} \X Seeds]
      BY <1>2 DEF Told, CommitTo
    <2>2. \A g \in G : Term(g) \in Seeds \X FairRtps BY <1>2 DEF Term
    <2> QED BY <1>1, <2>1, <2>2 DEF FairInv, FairTypeOK
  <1>8. CommitInv'
    <2>1. ASSUME NEW p \in published' PROVE p.commit[2][1] = p.game /\ Served(p.commit[2])'
      <3>1. CASE p \in published
        <4>1. p.commit[2] \in Seeds BY <3>1 DEF FairInv, FairTypeOK
        <4> QED BY <3>1, <4>1, <1>4 DEF FairInv, CommitInv
      <3>2. ASSUME NEW g \in G, p = Told(g) PROVE p.commit[2][1] = p.game /\ Served(p.commit[2])'
        <4>1. p.commit[2] = engineOf'[g].seed /\ p.game = g BY <3>2, <1>6
        <4> QED BY <4>1, <1>2, <1>5
      <3> QED BY <3>1, <3>2, <1>1
    <2>2. ASSUME NEW p \in published, NEW g \in G PROVE p.commit # Told(g).commit
      BY <1>5, <1>6 DEF FairInv, CommitInv
    <2>3. ASSUME NEW g \in G, NEW h \in G, Told(g).commit = Told(h).commit PROVE g = h
      <3>1. engineOf'[g].seed = engineOf'[h].seed BY <2>3, <1>6
      <3> QED BY <3>1, <1>2
    <2>4. \A p, q \in published' : p.commit = q.commit => p = q
      BY <1>1, <2>2, <2>3 DEF FairInv, CommitInv
    <2>5. ASSUME NEW t \in terms' PROVE Served(t[1])'
      <3>1. CASE t \in terms
        <4>1. t[1] \in Seeds BY <3>1 DEF FairInv, FairTypeOK
        <4> QED BY <3>1, <4>1, <1>4 DEF FairInv, CommitInv
      <3>2. ASSUME NEW g \in G, t = Term(g) PROVE Served(t[1])'
        <4>1. t[1] = engineOf'[g].seed BY <3>2, <1>6
        <4> QED BY <4>1, <1>5
      <3> QED BY <3>1, <3>2, <1>1
    <2>6. ASSUME NEW t \in terms, NEW g \in G PROVE t[1] # Term(g)[1]
      BY <1>5, <1>6 DEF FairInv, CommitInv
    <2>7. ASSUME NEW g \in G, NEW h \in G, Term(g)[1] = Term(h)[1] PROVE g = h
      <3>1. engineOf'[g].seed = engineOf'[h].seed BY <2>7, <1>6
      <3> QED BY <3>1, <1>2
    <2>8. \A t, u \in terms' : t[1] = u[1] => t = u
      BY <1>1, <2>6, <2>7 DEF FairInv, CommitInv
    <2> QED BY <2>1, <2>4, <2>5, <2>8 DEF CommitInv
  <1>9. EngineInv'
    <2> SUFFICES ASSUME NEW g \in FairGames, Running(g)'
                 PROVE  LET e == engineOf'[g] IN
                        /\ e.seed[1] = g /\ e.next[1] = g /\ e.seed[2] < e.next[2] /\ e.next[2] <= drawn'[g]
                        /\ [game |-> g, no |-> e.no, commit |-> CommitTo(e.seed)] \in published'
                        /\ <<e.seed, e.point.rtp>> \in terms'
                        /\ e.point = CrashPointFor(e.seed, CrashMessage(e.no, g), e.point.rtp)
      BY DEF EngineInv
    <2>1. CASE g \in G
      <3>0. engineOf'[g].point = [seed |-> engineOf'[g].seed, message |-> CrashMessage(engineOf'[g].no, g),
                                  rtp |-> DrawRtp(g, engineOf'[g].rtp)]
        BY <2>1 DEF Begins, CrashPointFor
      <3>1. engineOf'[g].point.rtp = DrawRtp(g, engineOf'[g].rtp) BY <3>0
      <3>2. Told(g) \in published' /\ Term(g) \in terms' BY <2>1, <1>1
      <3> QED BY <2>1, <3>1, <3>2 DEF Begins, Told, Term
    <2>2. CASE g \notin G
      <3>1. /\ Running(g) /\ engineOf'[g].no = engineOf[g].no /\ engineOf'[g].seed = engineOf[g].seed
            /\ engineOf'[g].next = engineOf[g].next /\ engineOf'[g].point = engineOf[g].point /\ drawn'[g] = drawn[g]
        BY <2>2 DEF Keeps, Running, NoEngine
      <3> QED BY <3>1, <1>1 DEF FairInv, EngineInv
    <2> QED BY <2>1, <2>2
  <1>10. RevealInv'
    <2> SUFFICES ASSUME NEW r \in revealed
                 PROVE  /\ r.seed[1] = r.game /\ Served(r.seed)'
                        /\ Running(r.game)' /\ engineOf'[r.game].phase # "CRASHED" => r.seed[2] < engineOf'[r.game].seed[2]
                        /\ [game |-> r.game, no |-> r.no, commit |-> CommitTo(r.seed)] \in published'
                        /\ <<r.seed, r.point.rtp>> \in terms'
                        /\ r.point = CrashPointFor(r.seed, CrashMessage(r.no, r.game), r.point.rtp)
      BY DEF RevealInv
    <2>1. r.seed \in Seeds /\ r.seed[2] \in Nat /\ r.game \in FairGames /\ drawn[r.game] \in Nat
      BY DEF FairInv, FairTypeOK, Seeds
    <2>2. r.seed[1] = r.game /\ Served(r.seed) BY DEF FairInv, RevealInv
    <2>3. Running(r.game)' /\ engineOf'[r.game].phase # "CRASHED" => r.seed[2] < engineOf'[r.game].seed[2]
      <3>1. CASE r.game \in G BY <3>1, <2>1, <2>2, <1>2 DEF Begins, Served
      <3>2. CASE r.game \notin G
        <4>1. \/ engineOf'[r.game] = NoEngine
              \/ Running(r.game) /\ engineOf'[r.game].phase = engineOf[r.game].phase /\ engineOf'[r.game].seed = engineOf[r.game].seed
          BY <3>2, <2>1 DEF Keeps
        <4>2. Running(r.game)' => engineOf'[r.game] # NoEngine BY DEF Running, NoEngine
        <4>3. Running(r.game) /\ engineOf[r.game].phase # "CRASHED" => r.seed[2] < engineOf[r.game].seed[2]
          BY DEF FairInv, RevealInv
        <4> QED BY <4>1, <4>2, <4>3
      <3> QED BY <3>1, <3>2
    <2> QED BY <2>1, <2>2, <2>3, <1>1, <1>4 DEF FairInv, RevealInv
  <1> QED BY <1>7, <1>8, <1>9, <1>10 DEF FairInv


\* The engine that InBetting makes of one that waits.
LEMMA InBettingIs ==
  ASSUME NEW g, NEW a, NEW e, NEW p, NEW n \in Nat, NEW s, NEW x, NEW r, NEW q,
         e = [phase |-> p, no |-> n, seed |-> s, next |-> x, rtp |-> r, point |-> q]
  PROVE  InBetting(e, g, a) =
           [phase |-> "BETTING", no |-> n + 1, seed |-> x, next |-> a, rtp |-> r,
            point |-> CrashPointFor(x, CrashMessage(n + 1, g), DrawRtp(g, r))]
  <1> DEFINE c == CrashPointFor(x, CrashMessage(n + 1, g), DrawRtp(g, r))
  <1>1. e.no = n /\ e.next = x /\ e.rtp = r OBVIOUS
  <1>2. InBetting(e, g, a) = [e EXCEPT !.phase = "BETTING", !.no = n + 1, !.seed = x, !.next = a, !.point = c]
    BY <1>1 DEF InBetting, SeedOf
  <1> HIDE DEF c
  <1> QED BY <1>2 DEF c

LEMMA InBettingOf ==
  ASSUME NEW g, NEW a, NEW e \in Engines
  PROVE  InBetting(e, g, a) =
           [phase |-> "BETTING", no |-> e.no + 1, seed |-> e.next, next |-> a, rtp |-> e.rtp,
            point |-> CrashPointFor(e.next, CrashMessage(e.no + 1, g), DrawRtp(g, e.rtp))]
  <1> DEFINE c == CrashPointFor(e.next, CrashMessage(e.no + 1, g), DrawRtp(g, e.rtp))
  <1>1. InBetting(e, g, a) = [e EXCEPT !.phase = "BETTING", !.no = e.no + 1, !.seed = e.next, !.next = a, !.point = c]
    BY DEF InBetting, SeedOf, Engines
  <1> HIDE DEF c
  <1> QED BY <1>1 DEF c, Engines

\* Such an engine begins a round.
LEMMA RoundBegins ==
  ASSUME FairInv, NEW g \in FairGames, NEW n \in Nat, NEW s \in Seeds, NEW x \in Seeds, NEW rtp \in FairRtps,
         engineOf'[g] = [phase |-> "BETTING", no |-> n, seed |-> s, next |-> x, rtp |-> rtp,
                         point |-> CrashPointFor(s, CrashMessage(n, g), DrawRtp(g, rtp))],
         s[1] = g, x[1] = g, s[2] < x[2], x[2] <= drawn'[g], drawn'[g] >= drawn[g],
         IF Running(g) THEN s = engineOf[g].next ELSE s[2] > drawn[g]
  PROVE  Begins(g) /\ engineOf'[g] \in Engines
  BY PointType DEF Begins, Engines

\* A game whose engine and seeds stay as they were.
LEMMA SameEngineKeeps ==
  ASSUME FairInv, NEW g \in FairGames, engineOf'[g] = engineOf[g], drawn'[g] = drawn[g]
  PROVE  Keeps(g)
  BY DEF Keeps, Running, NoEngine, FairInv, FairTypeOK, Engines

LEMMA BettingBeginsStep ==
  ASSUME FairInv, NEW g \in FairGames, BettingBegins(g)
  PROVE  FairInv'
  <1> DEFINE e == engineOf[g]
             x == <<g, drawn[g] + 1>>
  <1>1. /\ Running(g) /\ e \in Engines /\ engineOf' = [engineOf EXCEPT ![g] = InBetting(e, g, x)]
        /\ drawn' = [drawn EXCEPT ![g] = @ + 1] /\ Announce({g}, engineOf')
        /\ UNCHANGED <<listing, revealed, edits, starts>>
    BY DEF BettingBegins, FairInv, FairTypeOK, Running, NoEngine
  <1>2. /\ engineOf \in [FairGames -> Engines \cup {NoEngine}] /\ drawn \in [FairGames -> Nat]
        /\ e.next[1] = g /\ e.next[2] <= drawn[g] /\ e.no \in Nat /\ e.next \in Seeds /\ e.rtp \in FairRtps
    BY <1>1 DEF FairInv, FairTypeOK, EngineInv, Engines
  <1>3. engineOf'[g] = [phase |-> "BETTING", no |-> e.no + 1, seed |-> e.next, next |-> x, rtp |-> e.rtp,
            point |-> CrashPointFor(e.next, CrashMessage(e.no + 1, g), DrawRtp(g, e.rtp))]
    <2> HIDE DEF x
    <2> QED BY <1>1, <1>2, InBettingOf
  <1>4. x \in Seeds /\ x[1] = g /\ x[2] = drawn[g] + 1 /\ drawn'[g] = drawn[g] + 1 /\ e.next[2] \in Nat /\ drawn[g] \in Nat
    BY <1>1, <1>2 DEF Seeds
  <1>5. Begins(g) /\ engineOf'[g] \in Engines
    <2> HIDE DEF e, x
    <2> QED BY <1>1, <1>2, <1>3, <1>4, RoundBegins DEF e
  <1>6. \A h \in FairGames \ {g} : Keeps(h) BY <1>1, <1>2, SameEngineKeeps
  <1>7. engineOf' \in [FairGames -> Engines \cup {NoEngine}] /\ drawn' \in [FairGames -> Nat] BY <1>1, <1>2, <1>5
  <1> HIDE DEF e, x
  <1> QED BY <1>1, <1>5, <1>6, <1>7, BeginStep

LEMMA RefreshStep ==
  ASSUME FairInv, Refresh
  PROVE  FairInv'
  <1> DEFINE G == {g \in Wanted : ~Running(g)}
  <1>1. /\ Announce(G, engineOf') /\ UNCHANGED <<listing, revealed, edits, starts>>
        /\ drawn' = [g \in FairGames |-> IF g \in G THEN drawn[g] + 3 ELSE drawn[g]]
        /\ engineOf' = [g \in FairGames |->
             CASE g \notin Wanted -> NoEngine
               [] g \in G         -> InBetting(NewEngine(g), g, <<g, drawn[g] + 3>>)
               [] OTHER           -> [engineOf[g] EXCEPT !.rtp = listing[g].rtp]]
    BY DEF Refresh
  <1>2. G \subseteq FairGames /\ G \subseteq Wanted BY DEF Wanted
  <1>3. /\ engineOf \in [FairGames -> Engines \cup {NoEngine}] /\ drawn \in [FairGames -> Nat]
        /\ \A g \in FairGames : listing[g].rtp \in FairRtps /\ drawn[g] \in Nat
    BY DEF FairInv, FairTypeOK
  <1>4. ASSUME NEW g \in G PROVE Begins(g) /\ engineOf'[g] \in Engines
    <2>3. engineOf'[g] = InBetting(NewEngine(g), g, <<g, drawn[g] + 3>>) BY <1>1, <1>2
    <2>4. engineOf'[g] = [phase |-> "BETTING", no |-> 1, seed |-> <<g, drawn[g] + 2>>, next |-> <<g, drawn[g] + 3>>,
            rtp |-> listing[g].rtp,
            point |-> CrashPointFor(<<g, drawn[g] + 2>>, CrashMessage(1, g), DrawRtp(g, listing[g].rtp))]
      <3>1. 0 + 1 = 1 OBVIOUS
      <3>0. NewEngine(g) = [phase |-> "new", no |-> 0, seed |-> <<g, drawn[g] + 1>>, next |-> <<g, drawn[g] + 2>>,
                            rtp |-> listing[g].rtp, point |-> << >>]
        BY DEF NewEngine
      <3>2. InBetting(NewEngine(g), g, <<g, drawn[g] + 3>>)
            = [phase |-> "BETTING", no |-> 0 + 1, seed |-> <<g, drawn[g] + 2>>, next |-> <<g, drawn[g] + 3>>,
               rtp |-> listing[g].rtp,
               point |-> CrashPointFor(<<g, drawn[g] + 2>>, CrashMessage(0 + 1, g), DrawRtp(g, listing[g].rtp))]
        BY ONLY SMTT(30), <3>0, 0 \in Nat, InBettingIs
      <3> QED BY <2>3, <3>1, <3>2
    <2>5. g \in FairGames /\ drawn'[g] = drawn[g] + 3 /\ ~Running(g) BY <1>1, <1>2
    <2>6. <<g, drawn[g] + 2>> \in Seeds /\ <<g, drawn[g] + 3>> \in Seeds BY <1>3, <2>5 DEF Seeds
    <2>7. /\ <<g, drawn[g] + 2>>[1] = g /\ <<g, drawn[g] + 3>>[1] = g
          /\ <<g, drawn[g] + 2>>[2] = drawn[g] + 2 /\ <<g, drawn[g] + 3>>[2] = drawn[g] + 3
      OBVIOUS
    <2> QED BY <1>3, <2>4, <2>5, <2>6, <2>7, RoundBegins
  <1>5. ASSUME NEW g \in FairGames \ G PROVE Keeps(g) /\ engineOf'[g] \in Engines \cup {NoEngine}
    <2>1. drawn'[g] = drawn[g] BY <1>1
    <2>2. CASE g \notin Wanted
      <3>1. engineOf'[g] = NoEngine BY <1>1, <2>2
      <3> QED BY <2>1, <3>1 DEF Keeps
    <2>3. CASE g \in Wanted
      <3>1. Running(g) /\ engineOf'[g] = [engineOf[g] EXCEPT !.rtp = listing[g].rtp] BY <1>1, <2>3
      <3>2. engineOf[g] \in Engines BY <1>3, <3>1 DEF Running, NoEngine
      <3> QED BY <1>3, <2>1, <3>1, <3>2 DEF Keeps, Engines
    <2> QED BY <2>2, <2>3
  <1>6. engineOf' \in [FairGames -> Engines \cup {NoEngine}] BY <1>1, <1>4, <1>5
  <1>7. drawn' \in [FairGames -> Nat] BY <1>1, <1>3
  <1> HIDE DEF G
  <1> QED BY <1>1, <1>2, <1>4, <1>5, <1>6, <1>7, BeginStep

\* The flight and the crash of a round.
LEMMA TakesOffStep ==
  ASSUME FairInv, NEW g \in FairGames, TakesOff(g)
  PROVE  FairInv'
  <1>1. /\ engineOf[g] \in Engines /\ engineOf[g].phase = "BETTING" /\ engineOf' = [engineOf EXCEPT ![g].phase = "FLYING"]
        /\ engineOf \in [FairGames -> Engines \cup {NoEngine}]
        /\ UNCHANGED <<listing, drawn, published, revealed, terms, edits, starts>>
    BY DEF TakesOff, FairInv, FairTypeOK, NoEngine
  <1>2. /\ engineOf'[g] = [engineOf[g] EXCEPT !.phase = "FLYING"] /\ engineOf'[g] \in Engines
        /\ \A h \in FairGames \ {g} : engineOf'[h] = engineOf[h]
    BY <1>1 DEF Engines
  <1>3. \A h \in FairGames : /\ Running(h)' <=> Running(h)
                             /\ engineOf'[h].no = engineOf[h].no /\ engineOf'[h].seed = engineOf[h].seed
                             /\ engineOf'[h].next = engineOf[h].next /\ engineOf'[h].point = engineOf[h].point
                             /\ engineOf'[h].phase # "CRASHED" <=> engineOf[h].phase # "CRASHED"
    BY <1>1, <1>2 DEF Running, Engines
  <1>4. FairTypeOK' BY <1>1, <1>2 DEF FairInv, FairTypeOK
  <1>5. \A s \in Seeds : Served(s)' <=> Served(s) BY <1>1, <1>3 DEF Served, Seeds
  <1>6. EngineInv' BY <1>1, <1>3 DEF FairInv, EngineInv
  <1>7. CommitInv'
    <2>1. \A p \in published : p.commit[2] \in Seeds BY DEF FairInv, FairTypeOK
    <2>2. \A t \in terms : t[1] \in Seeds BY DEF FairInv, FairTypeOK
    <2> QED BY <1>1, <1>5, <2>1, <2>2 DEF FairInv, CommitInv
  <1>8. RevealInv'
    <2>1. \A r \in revealed : r.seed \in Seeds /\ r.game \in FairGames BY DEF FairInv, FairTypeOK
    <2> QED BY <1>1, <1>3, <1>5, <2>1 DEF FairInv, RevealInv
  <1> QED BY <1>4, <1>6, <1>7, <1>8 DEF FairInv


LEMMA CrashesStep ==
  ASSUME FairInv, NEW g \in FairGames, Crashes(g)
  PROVE  FairInv'
  <1> DEFINE e == engineOf[g]
             new == [game |-> g, no |-> e.no, seed |-> e.seed, point |-> e.point]
  <1>1. /\ e \in Engines /\ e.phase = "FLYING" /\ Running(g) /\ engineOf' = [engineOf EXCEPT ![g].phase = "CRASHED"]
        /\ engineOf \in [FairGames -> Engines \cup {NoEngine}]
        /\ revealed' = revealed \cup {new}
        /\ UNCHANGED <<listing, drawn, published, terms, edits, starts>>
    BY DEF Crashes, ShownPoint, FairInv, FairTypeOK, NoEngine, Running
  <1>2. /\ engineOf'[g] = [e EXCEPT !.phase = "CRASHED"] /\ engineOf'[g] \in Engines
        /\ \A h \in FairGames \ {g} : engineOf'[h] = engineOf[h]
    BY <1>1 DEF Engines
  <1>3. \A h \in FairGames : /\ Running(h)' <=> Running(h)
                             /\ engineOf'[h].no = engineOf[h].no /\ engineOf'[h].seed = engineOf[h].seed
                             /\ engineOf'[h].next = engineOf[h].next /\ engineOf'[h].point = engineOf[h].point
                             /\ engineOf'[h].phase # "CRASHED" => engineOf[h].phase # "CRASHED" /\ h # g
    BY <1>1, <1>2 DEF Running, Engines
  <1>4. new \in [game : FairGames, no : Nat, seed : Seeds, point : Points] BY <1>1 DEF Engines
  <1>5. FairTypeOK' BY <1>1, <1>2, <1>4 DEF FairInv, FairTypeOK
  <1>6. \A s \in Seeds : Served(s)' <=> Served(s) BY <1>1, <1>3 DEF Served, Seeds
  <1>7. EngineInv' BY <1>1, <1>3 DEF FairInv, EngineInv
  <1>8. CommitInv'
    <2>1. \A p \in published : p.commit[2] \in Seeds BY DEF FairInv, FairTypeOK
    <2>2. \A t \in terms : t[1] \in Seeds BY DEF FairInv, FairTypeOK
    <2> QED BY <1>1, <1>6, <2>1, <2>2 DEF FairInv, CommitInv
  <1>9. RevealInv'
    <2>1. \A r \in revealed : r.seed \in Seeds /\ r.game \in FairGames BY DEF FairInv, FairTypeOK
    <2>2. /\ e.seed[1] = g /\ e.seed[2] < e.next[2] /\ e.next[2] <= drawn[g] /\ e.seed \in Seeds
          /\ e.seed[2] \in Nat /\ e.next[2] \in Nat /\ drawn[g] \in Nat
          /\ [game |-> g, no |-> e.no, commit |-> CommitTo(e.seed)] \in published
          /\ <<e.seed, e.point.rtp>> \in terms
          /\ e.point = CrashPointFor(e.seed, CrashMessage(e.no, g), e.point.rtp)
      BY <1>1 DEF FairInv, EngineInv, FairTypeOK, Engines, Seeds
    <2>3. Served(e.seed) BY <2>2 DEF Served
    <2>4. new.game = g /\ new.no = e.no /\ new.seed = e.seed /\ new.point = e.point OBVIOUS
    <2>5. engineOf'[g].phase = "CRASHED" BY <1>1, <1>2 DEF Engines
    <2>6. ASSUME NEW r \in revealed'
          PROVE  /\ r.seed[1] = r.game /\ Served(r.seed)'
                 /\ Running(r.game)' /\ engineOf'[r.game].phase # "CRASHED" => r.seed[2] < engineOf'[r.game].seed[2]
                 /\ [game |-> r.game, no |-> r.no, commit |-> CommitTo(r.seed)] \in published'
                 /\ <<r.seed, r.point.rtp>> \in terms'
                 /\ r.point = CrashPointFor(r.seed, CrashMessage(r.no, r.game), r.point.rtp)
      <3> HIDE DEF e, new
      <3>1. CASE r \in revealed BY <3>1, <1>1, <1>3, <1>6, <2>1 DEF FairInv, RevealInv
      <3>2. CASE r = new
        <4>1. r.game = g /\ r.no = e.no /\ r.seed = e.seed /\ r.point = e.point BY <3>2, <2>4
        <4>2. Served(r.seed)' BY <4>1, <1>6, <2>2, <2>3
        <4> QED BY <1>1, <2>2, <2>5, <4>1, <4>2
      <3> QED BY <3>1, <3>2, <1>1
    <2> QED BY <2>6 DEF RevealInv
  <1> QED BY <1>5, <1>7, <1>8, <1>9 DEF FairInv

\* The catalogue and the process: what was told stays, and no seed comes back.
LEMMA OfficeStep ==
  ASSUME FairInv, (\E g \in FairGames : EditGame(g)) \/ ProcessRestarts \/ UNCHANGED fairVars
  PROVE  FairInv'
  <1>1. /\ UNCHANGED <<drawn, published, revealed, terms>>
        /\ engineOf' = engineOf \/ engineOf' = [g \in FairGames |-> NoEngine]
    BY DEF EditGame, ProcessRestarts, fairVars
  <1>2. FairTypeOK' BY <1>1, FairAssumption DEF FairInv, FairTypeOK, EditGame, ProcessRestarts, fairVars, FairAssumption
  <1>3. \A g \in FairGames : Running(g)' => Running(g) /\ engineOf'[g] = engineOf[g]
    BY <1>1 DEF Running, NoEngine
  <1>4. \A s \in Seeds : Served(s) => Served(s)' BY <1>1, <1>3 DEF Served, Seeds
  <1>5. EngineInv' BY <1>1, <1>3 DEF FairInv, EngineInv
  <1>6. CommitInv'
    <2>1. \A p \in published : p.commit[2] \in Seeds BY DEF FairInv, FairTypeOK
    <2>2. \A t \in terms : t[1] \in Seeds BY DEF FairInv, FairTypeOK
    <2> QED BY <1>1, <1>4, <2>1, <2>2 DEF FairInv, CommitInv
  <1>7. RevealInv'
    <2>1. \A r \in revealed : r.seed \in Seeds /\ r.game \in FairGames BY DEF FairInv, FairTypeOK
    <2> QED BY <1>1, <1>3, <1>4, <2>1 DEF FairInv, RevealInv
  <1> QED BY <1>2, <1>5, <1>6, <1>7 DEF FairInv

-----------------------------------------------------------------------------
THEOREM FairInvariance == FairRoundsSpec => []FairInv
  <1>1. FairInv /\ [FairNext]_fairVars => FairInv'
    BY BettingBeginsStep, RefreshStep, TakesOffStep, CrashesStep, OfficeStep DEF FairNext
  <1> QED BY <1>1, InitFairInv, PTL DEF FairRoundsSpec

\* What the invariant says of the promise to the players.
LEMMA FairImpliesPromise == FairInv => RoundsAreFair
  <1> SUFFICES ASSUME FairInv PROVE RoundsAreFair OBVIOUS
  <1>1. \A r \in revealed : r.seed \in Seeds /\ r.seed[2] \in Nat /\ r.game \in FairGames /\ r.seed[1] \in FairGames
    BY DEF FairInv, FairTypeOK, Seeds
  <1>2. SeedsAreSecret
    <2> SUFFICES ASSUME NEW g \in FairGames, Running(g), NEW r \in revealed
                 PROVE  r.seed # engineOf[g].next /\ (engineOf[g].phase \in {"BETTING", "FLYING"} => r.seed # engineOf[g].seed)
      BY DEF SeedsAreSecret
    <2>1. CASE r.game = g
      <3>1. Served(r.seed) /\ r.seed[1] = g BY <2>1 DEF FairInv, RevealInv
      <3>2. r.seed[2] < engineOf[g].next[2] BY <3>1 DEF Served
      <3>3. engineOf[g].phase \in {"BETTING", "FLYING"} => r.seed[2] < engineOf[g].seed[2]
        BY <2>1 DEF FairInv, RevealInv
      <3> QED BY <1>1, <3>2, <3>3
    <2>2. CASE r.game # g
      <3>1. engineOf[g].next[1] = g /\ engineOf[g].seed[1] = g BY DEF FairInv, EngineInv
      <3>2. r.seed[1] = r.game BY DEF FairInv, RevealInv
      <3> QED BY <2>2, <3>1, <3>2
    <2> QED BY <2>1, <2>2
  <1>3. RevealsWereCommitted BY DEF FairInv, RevealInv, CommitInv, RevealsWereCommitted
  <1>4. PointsFollow
    <2> SUFFICES ASSUME NEW r \in revealed, NEW t \in terms, t[1] = r.seed
                 PROVE  /\ r.point = CrashPointFor(r.seed, CrashMessage(r.no, r.game), t[2])
                        /\ t[2] = VerifyRtp(r.game) => GetVerify(r.seed, r.no, r.game).point = r.point
      BY DEF PointsFollow
    <2>1. <<r.seed, r.point.rtp>> \in terms /\ r.point = CrashPointFor(r.seed, CrashMessage(r.no, r.game), r.point.rtp)
      BY DEF FairInv, RevealInv
    <2>2. t = <<r.seed, r.point.rtp>> BY <2>1 DEF FairInv, CommitInv
    <2>3. t[2] = r.point.rtp BY <2>2
    <2>4. GetVerify(r.seed, r.no, r.game).point = CrashPointFor(r.seed, CrashMessage(r.no, r.game), VerifyRtp(r.game))
      BY DEF GetVerify
    <2> QED BY <2>1, <2>3, <2>4
  <1> QED BY <1>2, <1>3, <1>4 DEF RoundsAreFair

\* A seed in play is a secret, a revealed one was committed to under its game and
\* number and served one round, and the point shown is the one the commitment fixed,
\* however games are edited, archived and started again.
THEOREM FairRounds == FairRoundsSpec => []RoundsAreFair
  BY FairInvariance, FairImpliesPromise, PTL

-----------------------------------------------------------------------------
(* The draw of the crash point. *)

\* Quotients: the whole multiples of b that fit into a.
LEMMA Quotient ==
  ASSUME NEW a \in Nat, NEW b \in Nat \ {0}, NEW m \in Nat
  PROVE  a \div b \in Nat /\ ((a \div b) >= m <=> m * b <= a)
  OBVIOUS


\* The crash point lies between 1 and the maximum.
LEMMA PointBounds ==
  ASSUME NEW n \in 0..(Draws - 1)
  PROVE  CrashPoint(n) \in 100..MaxPoint
  <1>1. Draws - n \in Nat \ {0} /\ RtpPercent * Draws \in Nat BY FlightAssumption DEF FlightAssumption
  <1>2. (RtpPercent * Draws) \div (Draws - n) \in Nat BY <1>1, Quotient
  <1> QED BY <1>2, FlightAssumption DEF CrashPoint, Lesser, Greater, FlightAssumption

\* Which draws reach a target.
LEMMA ReachesTarget ==
  ASSUME NEW n \in 0..(Draws - 1), NEW m \in 101..MaxPoint
  PROVE  CrashPoint(n) >= m <=> m * (Draws - n) <= RtpPercent * Draws
  <1>1. Draws - n \in Nat \ {0} /\ RtpPercent * Draws \in Nat BY FlightAssumption DEF FlightAssumption
  <1> DEFINE q == (RtpPercent * Draws) \div (Draws - n)
  <1>2. q \in Nat /\ (q >= m <=> m * (Draws - n) <= RtpPercent * Draws) BY <1>1, Quotient
  <1>3. CrashPoint(n) >= m <=> q >= m
    <2>1. CrashPoint(n) = Lesser(Greater(q, 100), MaxPoint) BY DEF CrashPoint
    <2> HIDE DEF q
    <2> QED BY <1>2, <2>1, FlightAssumption DEF Lesser, Greater, FlightAssumption
  <1> QED BY <1>2, <1>3

\* The expectation of whoever always stops at m: of all draws, those that reach m pay
\* m hundredths each; together they never pay more than the return to player, and fall
\* short of it by less than one payment.
Reaching(m) == {n \in 0..(Draws - 1) : CrashPoint(n) >= m}

THEOREM HouseEdge ==
  ASSUME NEW m \in 101..MaxPoint
  PROVE  /\ m * Cardinality(Reaching(m)) <= RtpPercent * Draws
         /\ RtpPercent * Draws < m * Cardinality(Reaching(m)) + m
  <1> DEFINE k == (RtpPercent * Draws) \div m
  <1>1. m \in Nat \ {0} /\ m > RtpPercent /\ Draws \in Nat \ {0} /\ RtpPercent \in Nat /\ RtpPercent * Draws \in Nat
    BY FlightAssumption DEF FlightAssumption
  <1>2. k \in Nat /\ m * k <= RtpPercent * Draws /\ RtpPercent * Draws < m * k + m BY <1>1
  <1>3. k <= Draws
    <2>1. RtpPercent * Draws <= m * Draws BY <1>1
    <2>2. \A i \in Nat : i > Draws => m * i > m * Draws BY <1>1
    <2> HIDE DEF k
    <2> QED BY <1>1, <1>2, <2>1, <2>2
  <1>4. \A j \in Nat : m * j <= RtpPercent * Draws <=> j <= k
    <2>1. \A i, j \in Nat : i <= j => m * i <= m * j BY <1>1
    <2>2. m * (k + 1) = m * k + m BY <1>1, <1>2
    <2> HIDE DEF k
    <2> QED BY <1>1, <1>2, <2>1, <2>2
  <1>5. Reaching(m) = (Draws - k)..(Draws - 1)
    <2> HIDE DEF k
    <2>1. \A n \in 0..(Draws - 1) : CrashPoint(n) >= m <=> Draws - n <= k
      BY <1>1, <1>4, ReachesTarget
    <2> QED BY <1>1, <1>2, <1>3, <2>1 DEF Reaching
  <1>6. Cardinality(Reaching(m)) = k
    <2> HIDE DEF k
    <2> QED BY <1>1, <1>2, <1>5, FS_Interval
  <1> HIDE DEF k
  <1> QED BY <1>2, <1>6

-----------------------------------------------------------------------------
(* The flight. *)

DrawInv == draw \in 0..(Draws - 1)

\* The crash point of every round keeps the house its edge.
THEOREM EdgeOfFlight == FlightSpec => []EdgeIsKept
  <1>1. FlightInit => DrawInv BY DEF FlightInit, DrawInv
  <1>2. DrawInv /\ [FlightNext]_flightVars => DrawInv'
    BY DEF DrawInv, FlightNext, TakeOff, Tick, CashOutNow, GrowthEdited, flightVars
  <1>3. DrawInv => EdgeIsKept BY ReachesTarget DEF DrawInv, EdgeIsKept, Point
  <1> QED BY <1>1, <1>2, <1>3, PTL DEF FlightSpec


\* What holds of 0 and is handed on holds up to n; what holds of n and is handed down, too.
LEMMA Upwards ==
  ASSUME NEW n \in Nat, NEW good, 0 \in good, \A i \in 1..n : i - 1 \in good => i \in good
  PROVE  \A i \in 0..n : i \in good
  <1> DEFINE bad == {i \in 0..n : i \notin good}
  <1> SUFFICES ASSUME bad # {} PROVE FALSE OBVIOUS
  <1>1. bad \subseteq Nat /\ bad \subseteq 0..n OBVIOUS
  <1> HIDE DEF bad
  <1>2. PICK x \in bad : \A y \in bad : ~(<<y, x>> \in OpToRel(<, Nat)) BY <1>1, WFMin, NatLessThanWellFounded
  <1>3. \A y \in bad : ~(y < x) BY <1>1, <1>2 DEF OpToRel
  <1>4. x \in 0..n /\ x \notin good BY <1>1 DEF bad
  <1>5. x \in 1..n BY <1>4
  <1>6. x - 1 \in good BY <1>3, <1>5 DEF bad
  <1> QED BY <1>4, <1>5, <1>6

LEMMA Downwards ==
  ASSUME NEW n \in Nat, NEW good, n \in good, \A i \in 1..n : i \in good => i - 1 \in good
  PROVE  \A i \in 0..n : i \in good
  <1> DEFINE down == {i \in 0..n : n - i \in good}
  <1>1. 0 \in down OBVIOUS
  <1>2. \A i \in 1..n : i - 1 \in down => i \in down
    <2> SUFFICES ASSUME NEW i \in 1..n, i - 1 \in down PROVE n - i \in good OBVIOUS
    <2>1. n - (i - 1) \in good /\ n - (i - 1) \in 1..n OBVIOUS
    <2>2. (n - (i - 1)) - 1 \in good BY <2>1
    <2> QED BY <2>2
  <1> HIDE DEF down
  <1>3. \A i \in 0..n : i \in down BY <1>1, <1>2, Upwards
  <1> SUFFICES ASSUME NEW i \in 0..n PROVE i \in good OBVIOUS
  <1>4. n - i \in 0..n OBVIOUS
  <1>5. n - (n - i) \in good BY <1>3, <1>4 DEF down
  <1> QED BY <1>5

-----------------------------------------------------------------------------
(* The bands of a curve. *)

AreBands(bands) ==
  /\ Len(bands) \in Nat /\ Len(bands) > 0 /\ bands[1].from = 0
  /\ \A i \in 1..Len(bands) : bands[i].from \in Int /\ bands[i].rate \in Nat /\ bands[i].rate > 0

Ascend(bands) == \A i \in 1..(Len(bands) - 1) : bands[i].from <= bands[i + 1].from

Climbing(segments) == {i \in DOMAIN segments : segments[i].rate > 0}
Under(segments, i) == {j \in Climbing(segments) : StartsBelow(segments, j, i)}
Placed(segments, k) == CHOOSE i \in Climbing(segments) : Cardinality(Under(segments, i)) = k - 1

LEMMA Element == ASSUME NEW S, NEW seq \in Seq(S), NEW i \in DOMAIN seq PROVE seq[i] \in S
  OBVIOUS

LEMMA ClimbingIsFinite ==
  ASSUME NEW segments \in Seq([from : Int, rate : Int])
  PROVE  /\ Climbing(segments) \subseteq 1..Len(segments) /\ IsFiniteSet(Climbing(segments))
         /\ Cardinality(Climbing(segments)) \in Nat
         /\ \A i \in Climbing(segments) :
              /\ segments[i].from \in Int /\ segments[i].rate \in Nat /\ segments[i].rate > 0
              /\ IsFiniteSet(Under(segments, i)) /\ Cardinality(Under(segments, i)) \in Nat
  <1>1. Climbing(segments) \subseteq 1..Len(segments) BY DEF Climbing
  <1>2. IsFiniteSet(1..Len(segments)) BY FS_Interval
  <1>3. IsFiniteSet(Climbing(segments)) /\ Cardinality(Climbing(segments)) \in Nat
    BY <1>1, <1>2, FS_Subset, FS_CardinalityType
  <1>4. \A i \in Climbing(segments) : segments[i].from \in Int /\ segments[i].rate \in Nat /\ segments[i].rate > 0
    <2> SUFFICES ASSUME NEW i \in Climbing(segments)
                 PROVE  segments[i].from \in Int /\ segments[i].rate \in Nat /\ segments[i].rate > 0
      OBVIOUS
    <2>0. i \in DOMAIN segments BY DEF Climbing
    <2>1. segments[i] \in [from : Int, rate : Int] BY <2>0, Element
    <2>2. segments[i].rate > 0 BY DEF Climbing
    <2> QED BY <2>1, <2>2
  <1>5. ASSUME NEW i \in Climbing(segments)
        PROVE  IsFiniteSet(Under(segments, i)) /\ Cardinality(Under(segments, i)) \in Nat
    <2>1. Under(segments, i) \subseteq Climbing(segments) BY DEF Under
    <2> QED BY <1>3, <2>1, FS_Subset, FS_CardinalityType
  <1> QED BY <1>1, <1>3, <1>4, <1>5

\* A segment that starts below another has fewer below it.
LEMMA LowerHasFewer ==
  ASSUME NEW segments \in Seq([from : Int, rate : Int]),
         NEW i \in Climbing(segments), NEW j \in Climbing(segments), StartsBelow(segments, i, j)
  PROVE  Cardinality(Under(segments, i)) < Cardinality(Under(segments, j))
  <1> DEFINE low == Under(segments, i)
             high == Under(segments, j)
  <1>0. \A k \in Climbing(segments) : segments[k].from \in Int /\ k \in Int
    <2> HIDE DEF low, high
    <2>1. Climbing(segments) \subseteq 1..Len(segments) BY ClimbingIsFinite
    <2>2. \A k \in Climbing(segments) : k \in Int BY ONLY <2>1
    <2>3. \A k \in Climbing(segments) : segments[k].from \in Int BY ClimbingIsFinite
    <2> QED BY ONLY <2>2, <2>3
  <1>1. low \cup {i} \subseteq high /\ i \notin low BY <1>0 DEF Under, StartsBelow
  <1>2. IsFiniteSet(low) /\ IsFiniteSet(high) /\ Cardinality(low) \in Nat /\ Cardinality(high) \in Nat
    BY ClimbingIsFinite
  <1> HIDE DEF low, high
  <1>3. Cardinality(low \cup {i}) = Cardinality(low) + 1 BY <1>1, <1>2, FS_AddElement
  <1>4. Cardinality(low \cup {i}) <= Cardinality(high) BY <1>1, <1>2, FS_Subset
  <1>5. Cardinality(low) < Cardinality(high) BY <1>2, <1>3, <1>4
  <1> QED BY <1>5 DEF low, high

\* Every place has its segment, and those of later places do not start below.
LEMMA PlacesFill ==
  ASSUME NEW segments \in Seq([from : Int, rate : Int])
  PROVE  \A k \in 1..Cardinality(Climbing(segments)) :
           Placed(segments, k) \in Climbing(segments) /\ Cardinality(Under(segments, Placed(segments, k))) = k - 1
  <1> DEFINE G == Climbing(segments)
             n == Cardinality(G)
             to == 1..n
             rank == [i \in G |-> Cardinality(Under(segments, i)) + 1]
  <1>1. IsFiniteSet(G) /\ n \in Nat BY ClimbingIsFinite
  <1>2. \A i \in G : Under(segments, i) \subseteq G \ {i} /\ Cardinality(Under(segments, i)) \in Nat
    <2>1. \A i \in G : segments[i].from \in Int /\ i \in Int BY ClimbingIsFinite
    <2>2. \A i \in G : Cardinality(Under(segments, i)) \in Nat BY ClimbingIsFinite
    <2>3. \A i \in G : Under(segments, i) \subseteq G \ {i} BY <2>1 DEF Under, StartsBelow
    <2> QED BY <2>2, <2>3
  <1>3. ASSUME NEW i \in G PROVE rank[i] \in to
    <2> DEFINE under == Under(segments, i)
    <2>1. under \subseteq G \ {i} /\ Cardinality(under) \in Nat /\ rank[i] = Cardinality(under) + 1 BY <1>2
    <2> HIDE DEF under, n, G, rank
    <2>2. IsFiniteSet(G \ {i}) /\ Cardinality(G \ {i}) = n - 1 BY <1>1, <1>3, FS_RemoveElement DEF n
    <2>3. Cardinality(under) <= n - 1 BY <2>1, <2>2, FS_Subset
    <2> QED BY <1>1, <2>1, <2>3
  <1>4. \A i, j \in G : rank[i] = rank[j] => i = j
    <2> SUFFICES ASSUME NEW i \in G, NEW j \in G, rank[i] = rank[j], i # j PROVE FALSE OBVIOUS
    <2>1. segments[i].from \in Int /\ segments[j].from \in Int /\ i \in Int /\ j \in Int BY ClimbingIsFinite
    <2>2. StartsBelow(segments, i, j) \/ StartsBelow(segments, j, i) BY <2>1 DEF StartsBelow
    <2> DEFINE a == Cardinality(Under(segments, i))
               b == Cardinality(Under(segments, j))
    <2>3. a < b \/ b < a BY <2>2, LowerHasFewer
    <2>4. a \in Nat /\ b \in Nat /\ a + 1 = b + 1 BY <1>2
    <2> HIDE DEF a, b
    <2> QED BY <2>3, <2>4
  <1>5. \A k \in to : \E i \in G : rank[i] = k
    <2>1. IsFiniteSet(to) /\ Cardinality(to) = n BY <1>1, FS_Interval
    <2>2. rank \in [G -> to] BY <1>3
    <2> HIDE DEF rank, to, G
    <2>3. rank \in Injection(G, to) BY <1>4, <2>2 DEF Injection, IsInjective
    <2>4. rank \in Surjection(G, to) BY <1>1, <2>1, <2>3, FS_Injection
    <2> QED BY <2>4 DEF Surjection
  <1> SUFFICES ASSUME NEW k \in to
               PROVE  Placed(segments, k) \in G /\ Cardinality(Under(segments, Placed(segments, k))) = k - 1
    OBVIOUS
  <1>6. PICK i \in G : rank[i] = k BY <1>5
  <1>7. Cardinality(Under(segments, i)) = k - 1 BY <1>1, <1>2, <1>6
  <1> HIDE DEF G
  <1> QED BY <1>7 DEF Placed, G

\* What normalize returns: bands that climb from height 0, in order if they begin at heights.
LEMMA BandsAre ==
  ASSUME NEW segments \in Curves
  PROVE  /\ AreBands(Bands(segments)) /\ DOMAIN Bands(segments) = 1..Len(Bands(segments))
         /\ (\A i \in DOMAIN segments : segments[i].from >= 0) => Ascend(Bands(segments))
  <1> DEFINE G == Climbing(segments)
             n == Cardinality(G)
             sorted == [k \in 1..n |-> segments[Placed(segments, k)]]
             bands == Bands(segments)
  <1>1. segments \in Seq([from : Int, rate : Int]) BY FlightAssumption DEF FlightAssumption
  <1>2. bands = IF G = {} THEN <<[from |-> 0, rate |-> BaseRate]>> ELSE [sorted EXCEPT ![1].from = 0]
    BY DEF Bands, Climbing, Placed, Under
  <1>3. CASE G = {}
    <2>1. bands = <<[from |-> 0, rate |-> BaseRate]>> BY <1>2, <1>3
    <2>2. Len(bands) = 1 /\ bands[1] = [from |-> 0, rate |-> BaseRate] BY <2>1
    <2>3. BaseRate \in Nat /\ BaseRate > 0 BY FlightAssumption DEF FlightAssumption
    <2>4. DOMAIN bands = 1..1 BY <2>1
    <2> HIDE DEF bands
    <2> QED BY <2>2, <2>3, <2>4 DEF AreBands, Ascend, bands
  <1>4. CASE G # {}
    <2>1. IsFiniteSet(G) /\ n \in Nat BY <1>1, ClimbingIsFinite
    <2>2. n # 0 BY <1>4, <2>1, FS_EmptySet
    <2>3. bands = [sorted EXCEPT ![1].from = 0] BY <1>2, <1>4
    <2> HIDE DEF bands, G, n
    <2>4. \A k \in 1..n : Placed(segments, k) \in G /\ Cardinality(Under(segments, Placed(segments, k))) = k - 1
      BY <1>1, PlacesFill DEF G, n
    <2>5. \A i \in G : segments[i].from \in Int /\ segments[i].rate \in Nat /\ segments[i].rate > 0 /\ i \in DOMAIN segments
      BY <1>1, ClimbingIsFinite DEF G
    <2>6. \A k \in 1..n : sorted[k].from \in Int /\ sorted[k].rate \in Nat /\ sorted[k].rate > 0 BY <2>4, <2>5
    <2>7. DOMAIN bands = 1..n /\ Len(bands) = n BY <2>1, <2>3
    <2>8. bands[1].from = 0 /\ bands[1].rate = sorted[1].rate
      <3>1. 1 \in 1..n BY <2>1, <2>2
      <3>2. bands[1] = [sorted[1] EXCEPT !.from = 0] BY <2>3, <3>1
      <3>3. sorted[1] = segments[Placed(segments, 1)] /\ segments[Placed(segments, 1)] \in [from : Int, rate : Int]
        <4>1. Placed(segments, 1) \in DOMAIN segments BY <2>4, <2>5, <3>1
        <4> QED BY <1>1, <3>1, <4>1, Element
      <3> HIDE DEF sorted
      <3> QED BY <3>2, <3>3
    <2>9. \A k \in 2..n : bands[k] = sorted[k] BY <2>1, <2>3
    <2>10. AreBands(bands)
      <3> HIDE DEF sorted
      <3>1. \A k \in 1..n : bands[k].from \in Int /\ bands[k].rate \in Nat /\ bands[k].rate > 0
        <4> SUFFICES ASSUME NEW k \in 1..n PROVE bands[k].from \in Int /\ bands[k].rate \in Nat /\ bands[k].rate > 0 OBVIOUS
        <4>1. CASE k = 1 BY <2>6, <2>8, <4>1
        <4>2. CASE k # 1
          <5>1. k \in 2..n BY <2>1, <4>2
          <5> QED BY <2>6, <2>9, <5>1
        <4> QED BY <4>1, <4>2
      <3> QED BY <2>1, <2>2, <2>7, <2>8, <3>1 DEF AreBands
    <2>11. ASSUME \A i \in DOMAIN segments : segments[i].from >= 0, NEW k \in 1..(n - 1)
           PROVE  bands[k].from <= bands[k + 1].from
      <3> DEFINE i == Placed(segments, k)
                 j == Placed(segments, k + 1)
      <3>1. k \in 1..n /\ k + 1 \in 2..n /\ k + 1 \in 1..n BY <2>1
      <3>2. i \in G /\ j \in G BY <2>4, <3>1
      <3>3. Cardinality(Under(segments, i)) = k - 1 /\ Cardinality(Under(segments, j)) = (k + 1) - 1 BY <2>4, <3>1
      <3>4. sorted[k] = segments[i] /\ sorted[k + 1] = segments[j] BY <3>1
      <3>5. segments[i].from \in Int /\ segments[j].from \in Int /\ segments[j].from >= 0 BY <2>5, <2>11, <3>2
      <3>6. bands[k + 1].from = segments[j].from BY <2>9, <3>1, <3>4
      <3>7. segments[i].from <= segments[j].from
        <4> HIDE DEF i, j
        <4> SUFFICES ASSUME segments[j].from < segments[i].from PROVE FALSE BY <3>5
        <4>1. StartsBelow(segments, j, i) BY DEF StartsBelow
        <4>2. Cardinality(Under(segments, j)) < Cardinality(Under(segments, i)) BY <1>1, <3>2, <4>1, LowerHasFewer DEF G
        <4> QED BY <2>1, <3>1, <3>3, <4>2
      <3>8. CASE k = 1 BY <2>8, <3>5, <3>6, <3>8
      <3>9. CASE k # 1
        <4>1. bands[k].from = segments[i].from
          <5>1. k \in 2..n BY <2>1, <3>1, <3>9
          <5> QED BY <2>9, <3>4, <5>1
        <4> QED BY <3>6, <3>7, <4>1
      <3> QED BY <3>8, <3>9
    <2> QED BY <2>7, <2>10, <2>11 DEF Ascend, bands
  <1> QED BY <1>3, <1>4

-----------------------------------------------------------------------------
(* Climbing from band to band. *)

Turns(climb, n, time, bands) ==
  climb = [i \in 0..n |-> IF i = 0 THEN [height |-> 0, left |-> time] ELSE ClimbBand(bands, i, climb[i - 1])]
Climb(time, bands) == CHOOSE climb : Turns(climb, Len(bands), time, bands)
Spends(spent, n, height, bands) ==
  spent = [i \in 0..n |-> IF i = 0 THEN 0 ELSE spent[i - 1] + TimeInBand(bands, i, height)]
Spent(height, bands) == CHOOSE spent : Spends(spent, Len(bands), height, bands)
Places == [height : Nat, left : Nat]

LEMMA ClimbEnds == ASSUME NEW n \in Nat, NEW time, NEW bands PROVE \E climb : Turns(climb, n, time, bands)
  <1> DEFINE good == {k \in 0..n : \E climb : Turns(climb, k, time, bands)}
  <1>1. 0 \in good
    <2> DEFINE climb == [i \in 0..0 |-> [height |-> 0, left |-> time]]
    <2>1. Turns(climb, 0, time, bands) BY DEF Turns
    <2> QED BY <2>1
  <1>2. ASSUME NEW k \in 1..n, k - 1 \in good PROVE k \in good
    <2>1. PICK climb : Turns(climb, k - 1, time, bands) BY <1>2
    <2> DEFINE next == [i \in 0..k |-> IF i = 0 THEN [height |-> 0, left |-> time] ELSE ClimbBand(bands, i, climb[i - 1])]
    <2>2. \A i \in 0..(k - 1) : next[i] = climb[i]
      <3>1. \A i \in 0..(k - 1) : i \in 0..k OBVIOUS
      <3>2. \A i \in 0..(k - 1) : climb[i] = IF i = 0 THEN [height |-> 0, left |-> time] ELSE ClimbBand(bands, i, climb[i - 1])
        BY <2>1 DEF Turns
      <3> QED BY <3>1, <3>2
    <2>3. \A i \in 0..k : i # 0 => next[i - 1] = climb[i - 1]
      <3>1. \A i \in 0..k : i # 0 => i - 1 \in 0..(k - 1) OBVIOUS
      <3> HIDE DEF next
      <3> QED BY <2>2, <3>1
    <2>4. next = [i \in 0..k |-> IF i = 0 THEN [height |-> 0, left |-> time] ELSE ClimbBand(bands, i, next[i - 1])] BY <2>3
    <2> HIDE DEF next
    <2>5. Turns(next, k, time, bands) BY <2>4 DEF Turns
    <2> QED BY <2>5
  <1> HIDE DEF good
  <1>3. n \in good BY <1>1, <1>2, Upwards
  <1> QED BY <1>3 DEF good

LEMMA SpendingEnds == ASSUME NEW n \in Nat, NEW height, NEW bands PROVE \E spent : Spends(spent, n, height, bands)
  <1> DEFINE good == {k \in 0..n : \E spent : Spends(spent, k, height, bands)}
  <1>1. 0 \in good
    <2> DEFINE spent == [i \in 0..0 |-> 0]
    <2>1. Spends(spent, 0, height, bands) BY DEF Spends
    <2> QED BY <2>1
  <1>2. ASSUME NEW k \in 1..n, k - 1 \in good PROVE k \in good
    <2>1. PICK spent : Spends(spent, k - 1, height, bands) BY <1>2
    <2> DEFINE next == [i \in 0..k |-> IF i = 0 THEN 0 ELSE spent[i - 1] + TimeInBand(bands, i, height)]
    <2>2. \A i \in 0..(k - 1) : next[i] = spent[i]
      <3>1. \A i \in 0..(k - 1) : i \in 0..k OBVIOUS
      <3>2. \A i \in 0..(k - 1) : spent[i] = IF i = 0 THEN 0 ELSE spent[i - 1] + TimeInBand(bands, i, height)
        BY <2>1 DEF Spends
      <3> QED BY <3>1, <3>2
    <2>3. \A i \in 0..k : i # 0 => next[i - 1] = spent[i - 1]
      <3>1. \A i \in 0..k : i # 0 => i - 1 \in 0..(k - 1) OBVIOUS
      <3> HIDE DEF next
      <3> QED BY <2>2, <3>1
    <2>4. next = [i \in 0..k |-> IF i = 0 THEN 0 ELSE next[i - 1] + TimeInBand(bands, i, height)] BY <2>3
    <2> HIDE DEF next
    <2>5. Spends(next, k, height, bands) BY <2>4 DEF Spends
    <2> QED BY <2>5
  <1> HIDE DEF good
  <1>3. n \in good BY <1>1, <1>2, Upwards
  <1> QED BY <1>3 DEF good

\* What multiplierAtMs and timeToMultiplierMs go through.
LEMMA ClimbIs ==
  ASSUME NEW time, NEW bands, AreBands(bands)
  PROVE  /\ Climb(time, bands)[0] = [height |-> 0, left |-> time]
         /\ \A i \in 1..Len(bands) : Climb(time, bands)[i] = ClimbBand(bands, i, Climb(time, bands)[i - 1])
  <1> DEFINE climb == Climb(time, bands)
             n == Len(bands)
  <1>1. n \in Nat BY DEF AreBands
  <1>2. Turns(climb, n, time, bands) BY <1>1, ClimbEnds DEF Climb
  <1> HIDE DEF climb, n
  <1>3. climb[0] = [height |-> 0, left |-> time] /\ \A i \in 1..n : climb[i] = ClimbBand(bands, i, climb[i - 1])
    BY <1>1, <1>2 DEF Turns
  <1> QED BY <1>3 DEF climb, n

LEMMA SpentIs ==
  ASSUME NEW height, NEW bands, AreBands(bands)
  PROVE  /\ Spent(height, bands)[0] = 0
         /\ \A i \in 1..Len(bands) : Spent(height, bands)[i] = Spent(height, bands)[i - 1] + TimeInBand(bands, i, height)
  <1> DEFINE spent == Spent(height, bands)
             n == Len(bands)
  <1>1. n \in Nat BY DEF AreBands
  <1>2. Spends(spent, n, height, bands) BY <1>1, SpendingEnds DEF Spent
  <1> HIDE DEF spent, n
  <1>3. spent[0] = 0 /\ \A i \in 1..n : spent[i] = spent[i - 1] + TimeInBand(bands, i, height) BY <1>1, <1>2 DEF Spends
  <1> QED BY <1>3 DEF spent, n

LEMMA HeightIs == ASSUME NEW time, NEW segments PROVE HeightAt(time, segments) = Climb(time, Bands(segments))[Len(Bands(segments))].height
  BY DEF HeightAt, Climb, Turns

LEMMA TimeIs ==
  ASSUME NEW height, NEW segments
  PROVE  TimeTo(height, segments) = IF height <= 0 THEN 0 ELSE Spent(height, Bands(segments))[Len(Bands(segments))]
  BY DEF TimeTo, Spent, Spends

LEMMA DividesDown == ASSUME NEW a \in Int, NEW r \in Nat, r > 0 PROVE a \div r \in Int /\ r * (a \div r) <= a /\ a < r * (a \div r) + r
  OBVIOUS

LEMMA Bigger == ASSUME NEW q \in Int, NEW x \in Int, NEW r \in Nat, r > 0, r * q < r * x PROVE q < x
  <1> SUFFICES ASSUME x <= q PROVE FALSE OBVIOUS
  <1>1. r * x <= r * q OBVIOUS
  <1> QED BY <1>1

\* A band does not lead down, and once the time is spent nothing moves.
LEMMA BandClimbs ==
  ASSUME NEW bands, AreBands(bands), NEW i \in 1..Len(bands), NEW was \in Places
  PROVE  /\ ClimbBand(bands, i, was) \in Places
         /\ ClimbBand(bands, i, was).height >= was.height
         /\ was.left = 0 => ClimbBand(bands, i, was) = was
  <1> DEFINE h == was.height
             l == was.left
             r == bands[i].rate
             end == bands[i + 1].from
             top == h + r * l
             is == ClimbBand(bands, i, was)
  <1>1. h \in Nat /\ l \in Nat /\ r \in Nat /\ r > 0 /\ was = [height |-> h, left |-> l] BY DEF Places, AreBands
  <1>2. i # Len(bands) => end \in Int
    <2>1. i # Len(bands) => i + 1 \in 1..Len(bands) BY DEF AreBands
    <2> QED BY <2>1 DEF AreBands
  <1>3. is = IF ~(i = Len(bands) \/ end > h) THEN was
             ELSE IF i = Len(bands) \/ top <= end THEN [height |-> top, left |-> 0]
             ELSE [height |-> end, left |-> l - (end - h) \div r]
    BY DEF ClimbBand, Above, IsLast
  <1>4. top \in Nat /\ top >= h /\ (l = 0 => top = h)
    <2>1. r * l \in Nat /\ (l = 0 => r * l = 0) BY <1>1
    <2> QED BY <1>1, <2>1
  <1> HIDE DEF is, top, h, l, r, end
  <1>5. CASE ~(i = Len(bands) \/ end > h)
    <2>1. is = was BY <1>3, <1>5
    <2>2. was \in Places /\ was.height >= was.height BY <1>1 DEF h
    <2> QED BY <2>1, <2>2 DEF is
  <1>6. CASE i = Len(bands) \/ (end > h /\ top <= end)
    <2>1. is = [height |-> top, left |-> 0] BY <1>3, <1>6
    <2> QED BY <1>1, <1>4, <2>1 DEF Places, is, h, l
  <1>7. CASE i # Len(bands) /\ end > h /\ ~(top <= end)
    <2> DEFINE q == (end - h) \div r
    <2>1. is = [height |-> end, left |-> l - q] BY <1>3, <1>7
    <2>2. q \in Int /\ r * q <= end - h
      <3>1. end - h \in Int BY <1>1, <1>2, <1>7
      <3> QED BY <1>1, <3>1, DividesDown
    <2> HIDE DEF q
    <2>3. end - h < r * l BY <1>1, <1>2, <1>4, <1>7 DEF top
    <2>4. r * q < r * l
      <3>1. r * q \in Int /\ r * l \in Int /\ end - h \in Int BY <1>1, <1>2, <1>7, <2>2
      <3> QED BY <2>2, <2>3, <3>1
    <2>5. q < l BY <1>1, <2>2, <2>4, Bigger
    <2>6. l # 0 BY <1>4, <1>7, <1>1, <1>2
    <2>7. end \in Nat /\ l - q \in Nat BY <1>1, <1>2, <1>7, <2>2, <2>5
    <2> QED BY <1>1, <1>7, <2>1, <2>6, <2>7, <1>2 DEF Places, is, h, l
  <1> QED BY <1>5, <1>6, <1>7

LEMMA ClimbTypes ==
  ASSUME NEW bands, AreBands(bands), NEW time \in Nat
  PROVE  \A i \in 0..Len(bands) : Climb(time, bands)[i] \in Places
  <1> DEFINE climb == Climb(time, bands)
             n == Len(bands)
             good == {i \in 0..n : climb[i] \in Places}
  <1>1. n \in Nat BY DEF AreBands
  <1>2. climb[0] = [height |-> 0, left |-> time] /\ \A i \in 1..n : climb[i] = ClimbBand(bands, i, climb[i - 1]) BY ClimbIs
  <1> HIDE DEF climb
  <1>3. 0 \in good BY <1>1, <1>2 DEF Places
  <1>4. ASSUME NEW i \in 1..n, i - 1 \in good PROVE i \in good
    <2>1. ClimbBand(bands, i, climb[i - 1]) \in Places BY <1>4, BandClimbs
    <2> QED BY <1>1, <1>2, <2>1
  <1> HIDE DEF good, n
  <1>5. \A i \in 0..n : i \in good BY <1>1, <1>3, <1>4, Upwards
  <1> QED BY <1>5 DEF good, n, climb

\* Heights are natural numbers, whatever the curve.
LEMMA HeightsAreNumbers == ASSUME NEW time \in Nat, NEW segments \in Curves PROVE HeightAt(time, segments) \in Nat
  <1> DEFINE bands == Bands(segments)
             n == Len(bands)
  <1>1. AreBands(bands) BY BandsAre
  <1> HIDE DEF bands
  <1>2. n \in 0..n BY <1>1 DEF AreBands
  <1>3. Climb(time, bands)[n] \in Places BY <1>1, <1>2, ClimbTypes
  <1>4. HeightAt(time, segments) = Climb(time, bands)[n].height BY HeightIs DEF bands
  <1> QED BY <1>3, <1>4 DEF Places

-----------------------------------------------------------------------------
(* The curve climbs at the rate of its band.  Time comes in whole units here, so that takes
   bands that are climbed in whole units. *)

Smooth(bands) == AreBands(bands) /\ Ascend(bands) /\ WholeBands(bands)

\* After band i: at its end while there is time, and there is none after the last.
AtEnd(bands, i, was) ==
  /\ i < Len(bands) => was.height <= bands[i + 1].from /\ (was.left > 0 => was.height = bands[i + 1].from)
  /\ i = Len(bands) => was.left = 0

\* A unit of time more is either still to be spent, or has been spent in the band that holds the height.
UnitMore(bands, i, was, more) ==
  \/ /\ i < Len(bands) /\ was.height = bands[i + 1].from
     /\ more.height = was.height /\ more.left = was.left + 1
  \/ /\ was.left = 0 /\ more.left = 0
     /\ \E k \in 1..i : /\ bands[k].from <= was.height /\ Above(bands, k, was.height)
                        /\ more.height = was.height + bands[k].rate

LEMMA WholeQuotient == ASSUME NEW a \in Nat, NEW r \in Nat, r > 0, a % r = 0 PROVE a \div r \in Nat /\ a = r * (a \div r)
  OBVIOUS

LEMMA UpTo == ASSUME NEW x \in Int, NEW y \in Int, NEW r \in Nat, r > 0 PROVE (r * x <= r * y) <=> (x <= y)
  <1>1. CASE x <= y
    <2>1. r * x <= r * y BY <1>1
    <2> QED BY <1>1, <2>1
  <1>2. CASE ~(x <= y)
    <2>1. r * y < r * x
      <3>1. y + 1 <= x BY <1>2
      <3>2. r * (y + 1) <= r * x BY <3>1
      <3>3. r * (y + 1) = r * y + r OBVIOUS
      <3>4. r * y \in Int /\ r * x \in Int OBVIOUS
      <3> QED BY <3>2, <3>3, <3>4
    <2>2. r * x \in Int /\ r * y \in Int OBVIOUS
    <2> QED BY <1>2, <2>1, <2>2
  <1> QED BY <1>1, <1>2

\* What a band does to who is at its beginning with time left.
LEMMA FromBeginning ==
  ASSUME NEW bands, Smooth(bands), NEW i \in 1..Len(bands), NEW was \in Places, was.height = bands[i].from
  PROVE  LET r == bands[i].rate
             h == was.height
             end == bands[i + 1].from
             q == (end - h) \div r
             is == ClimbBand(bands, i, was)
         IN  /\ i = Len(bands) => is = [height |-> h + r * was.left, left |-> 0]
             /\ i < Len(bands) => /\ end \in Nat /\ q \in Nat /\ h <= end /\ (q = 0 <=> end = h) /\ end = h + r * q
                                  /\ was.left <= q => is = [height |-> h + r * was.left, left |-> 0]
                                  /\ was.left < q => h + r * was.left < end
                                  /\ was.left >= q => is = [height |-> end, left |-> was.left - q]
  <1> DEFINE r == bands[i].rate
             h == was.height
             l == was.left
             end == bands[i + 1].from
             q == (end - h) \div r
             top == h + r * l
             is == ClimbBand(bands, i, was)
  <1>1. h \in Nat /\ l \in Nat /\ r \in Nat /\ r > 0 /\ was = [height |-> h, left |-> l] BY DEF Places, Smooth, AreBands
  <1>2. is = IF ~(i = Len(bands) \/ end > h) THEN was
             ELSE IF i = Len(bands) \/ top <= end THEN [height |-> top, left |-> 0]
             ELSE [height |-> end, left |-> l - q]
    BY DEF ClimbBand, Above, IsLast
  <1>3. CASE i = Len(bands)
    <2>1. is = [height |-> top, left |-> 0] BY <1>2, <1>3
    <2>2. ~(i < Len(bands)) BY <1>3 DEF Smooth, AreBands
    <2> HIDE DEF is
    <2> QED BY <2>1, <2>2 DEF is
  <1>4. CASE i < Len(bands)
    <2>1. i \in 1..(Len(bands) - 1) /\ i + 1 \in 1..Len(bands) BY <1>4 DEF Smooth, AreBands
    <2>2. end \in Int /\ h <= end /\ (end - h) % r = 0
      BY <2>1 DEF Smooth, AreBands, Ascend, WholeBands
    <2>3. i # Len(bands) BY <1>4 DEF Smooth, AreBands
    <2> DEFINE wide == end - h
    <2>4. wide \in Nat /\ wide % r = 0 BY <1>1, <2>2
    <2>5. q = wide \div r OBVIOUS
    <2> HIDE DEF wide, q, top, is, end, h, l, r
    <2>6. q \in Nat /\ wide = r * q BY <1>1, <2>4, <2>5, WholeQuotient
    <2>7. end \in Nat /\ end = h + r * q BY <1>1, <2>2, <2>6 DEF wide
    <2>8. q = 0 <=> end = h
      <3>1. CASE q = 0 BY <1>1, <2>7, <3>1
      <3>2. CASE q # 0
        <4>1. r * q > 0 /\ r * q \in Int BY <1>1, <2>6, <3>2
        <4> QED BY <1>1, <2>7, <3>2, <4>1
      <3> QED BY <3>1, <3>2
    <2>9. r * l \in Nat /\ r * q \in Nat BY <1>1, <2>6
    <2>10. (top <= end <=> l <= q) /\ (l < q => top < end)
      <3>0. l \in Int /\ q \in Int /\ r \in Nat /\ r > 0 BY <1>1, <2>6
      <3>1. (r * l <= r * q) <=> (l <= q) BY ONLY <3>0, UpTo
      <3>2. (r * q <= r * l) <=> (q <= l) BY ONLY <3>0, UpTo
      <3>3. top = h + r * l /\ end = h + r * q /\ h \in Nat BY <1>1, <2>7 DEF top
      <3> DEFINE a == r * l
                 b == r * q
      <3>4. a \in Nat /\ b \in Nat /\ ((a <= b) <=> (l <= q)) /\ ((b <= a) <=> (q <= l)) /\ top = h + a /\ end = h + b
        BY <2>9, <3>1, <3>2, <3>3
      <3> HIDE DEF a, b
      <3> QED BY ONLY <3>0, <3>3, <3>4
    <2>11. l <= q => is = [height |-> top, left |-> 0]
      <3> SUFFICES ASSUME l <= q PROVE is = [height |-> top, left |-> 0] OBVIOUS
      <3>1. CASE end > h BY <1>2, <2>3, <2>10, <3>1
      <3>2. CASE ~(end > h)
        <4>1. end = h /\ q = 0 /\ l = 0 BY <1>1, <2>2, <2>6, <2>8, <3>2
        <4>2. r * l = 0 BY <1>1, <4>1
        <4>3. top = h BY <1>1, <4>2 DEF top
        <4> QED BY <1>1, <1>2, <2>3, <3>2, <4>1, <4>3
      <3> QED BY <3>1, <3>2
    <2>12. l >= q => is = [height |-> end, left |-> l - q]
      <3> SUFFICES ASSUME l >= q PROVE is = [height |-> end, left |-> l - q] OBVIOUS
      <3>1. CASE ~(end > h)
        <4>1. end = h /\ q = 0 BY <1>1, <2>2, <2>8, <3>1
        <4> QED BY <1>1, <1>2, <2>3, <3>1, <4>1
      <3>2. CASE end > h /\ l = q
        <4>1. top = end /\ l - q = 0 BY <1>1, <2>6, <2>7, <3>2 DEF top
        <4> QED BY <2>11, <4>1, <3>2, <2>6
      <3>3. CASE end > h /\ l # q
        <4>1. ~(l <= q) BY <1>1, <2>6, <3>3
        <4> QED BY <1>2, <2>3, <2>10, <3>3, <4>1
      <3> QED BY <3>1, <3>2, <3>3
    <2>13. is = [height |-> h + r * l, left |-> 0] <=> is = [height |-> top, left |-> 0] BY DEF top
    <2>14. l < q => h + r * l < end BY <2>10 DEF top
    <2> QED BY <2>2, <2>3, <2>6, <2>7, <2>8, <2>11, <2>12, <2>13, <2>14 DEF is, end, h, l, r, q
  <1>5. i = Len(bands) \/ i < Len(bands) BY DEF Smooth, AreBands
  <1> QED BY <1>3, <1>4, <1>5

LEMMA BandKeeps ==
  ASSUME NEW bands, Smooth(bands), NEW i \in 1..Len(bands), NEW was \in Places, NEW more \in Places,
         AtEnd(bands, i - 1, was), UnitMore(bands, i - 1, was, more)
  PROVE  /\ AtEnd(bands, i, ClimbBand(bands, i, was))
         /\ UnitMore(bands, i, ClimbBand(bands, i, was), ClimbBand(bands, i, more))
  <1> DEFINE is == ClimbBand(bands, i, was)
             isMore == ClimbBand(bands, i, more)
             r == bands[i].rate
             h == was.height
             l == was.left
  <1>0. /\ AreBands(bands) /\ Len(bands) \in Nat /\ i \in Nat /\ i <= Len(bands) /\ i - 1 < Len(bands) /\ (i - 1) + 1 = i
        /\ i - 1 # Len(bands)
    BY DEF Smooth, AreBands
  <1>1. h \in Nat /\ l \in Nat /\ r \in Nat /\ r > 0 /\ more.height \in Nat /\ more.left \in Nat
    BY <1>0 DEF Places, AreBands
  <1>2. h <= bands[i].from /\ bands[i].from \in Int
    <2>1. bands[(i - 1) + 1] = bands[i] BY <1>0
    <2> QED BY <1>0, <2>1 DEF AtEnd, AreBands
  <1>3. CASE h = bands[i].from /\ more.height = h /\ more.left = l + 1
    <2>1. CASE i = Len(bands)
      <3>1. is = [height |-> h + r * l, left |-> 0] BY <1>3, <2>1, FromBeginning
      <3>2. isMore = [height |-> h + r * (l + 1), left |-> 0] BY <1>3, <2>1, FromBeginning
      <3>3. r * (l + 1) = r * l + r /\ r * l \in Nat
        <4>1. r \in Nat /\ l \in Nat BY <1>1
        <4> HIDE DEF r, l
        <4> QED BY ONLY <4>1
      <3>4. Above(bands, i, is.height) BY <2>1 DEF Above, IsLast
      <3>5. ~(i < Len(bands))
        <4>1. i \in Int OBVIOUS
        <4> QED BY ONLY <2>1, <4>1
      <3> HIDE DEF is, isMore, h, l, r
      <3>6. is.height = h + r * l /\ is.left = 0 /\ isMore.height = is.height + r /\ isMore.left = 0
        BY <1>1, <3>1, <3>2, <3>3
      <3>7. bands[i].from <= is.height BY <1>1, <1>3, <3>3, <3>6 DEF h
      <3>8. AtEnd(bands, i, is) BY <3>5, <3>6 DEF AtEnd
      <3>9. i \in 1..i BY <1>0
      <3>10. UnitMore(bands, i, is, isMore) BY <3>4, <3>6, <3>7, <3>9 DEF UnitMore, r
      <3> QED BY <3>8, <3>10 DEF is, isMore
    <2>2. CASE i < Len(bands)
      <3> DEFINE end == bands[i + 1].from
                 q == (end - h) \div r
      <3>1. /\ end \in Nat /\ q \in Nat
            /\ l <= q => is = [height |-> h + r * l, left |-> 0]
            /\ l < q => h + r * l < end
            /\ l >= q => is = [height |-> end, left |-> l - q]
        BY <1>3, <2>2, FromBeginning
      <3>2. /\ l + 1 <= q => isMore = [height |-> h + r * (l + 1), left |-> 0]
            /\ l + 1 >= q => isMore = [height |-> end, left |-> (l + 1) - q]
        <4>1. more.height = bands[i].from /\ (end - more.height) \div r = q BY <1>3
        <4> QED BY <1>3, <2>2, <4>1, FromBeginning
      <3>3. r * (l + 1) = r * l + r /\ r * l \in Nat
        <4>1. r \in Nat /\ l \in Nat BY <1>1
        <4> HIDE DEF r, l
        <4> QED BY ONLY <4>1
      <3>4. i # Len(bands) /\ i \in 1..i BY <1>0, <2>2
      <3> HIDE DEF is, isMore, r, q, end
      <3>5. CASE l < q
        <4>1. l <= q /\ l + 1 <= q BY <1>1, <3>1, <3>5
        <4>2. is.height = h + r * l /\ is.left = 0 /\ isMore.height = is.height + r /\ isMore.left = 0 /\ is.height < end
          <5>1. is = [height |-> h + r * l, left |-> 0] /\ h + r * l < end BY <3>1, <3>5, <4>1
          <5>2. isMore = [height |-> h + r * (l + 1), left |-> 0] BY <3>2, <4>1
          <5>3. h + r * (l + 1) = (h + r * l) + r BY <1>1, <3>3
          <5> QED BY <5>1, <5>2, <5>3
        <4>3. is.height \in Nat
          <5>1. is.height = h + r * l /\ r * l \in Nat /\ h \in Nat BY <1>1, <3>3, <4>2
          <5> DEFINE a == r * l
          <5>2. is.height = h + a /\ a \in Nat /\ h \in Nat BY <5>1
          <5> HIDE DEF a
          <5> QED BY ONLY <5>2
        <4>4. bands[i].from <= is.height BY <1>1, <1>3, <3>3, <4>2
        <4>5. AtEnd(bands, i, is) BY <3>1, <3>4, <4>2, <4>3 DEF AtEnd, end
        <4>6. Above(bands, i, is.height) BY <3>1, <4>2, <4>3 DEF Above, end
        <4>7. UnitMore(bands, i, is, isMore) BY <3>4, <4>2, <4>4, <4>6 DEF UnitMore, r
        <4> QED BY <4>5, <4>7 DEF is, isMore
      <3>6. CASE ~(l < q)
        <4>1. l >= q /\ l + 1 >= q BY <1>1, <3>1, <3>6
        <4>2. is.height = end /\ is.left = l - q /\ isMore.height = end /\ isMore.left = (l + 1) - q
          BY <3>1, <3>2, <4>1
        <4>3. isMore.left = is.left + 1 BY <1>1, <3>1, <4>2
        <4>4. AtEnd(bands, i, is) BY <3>1, <3>4, <4>2 DEF AtEnd, end
        <4>5. UnitMore(bands, i, is, isMore) BY <2>2, <4>2, <4>3 DEF UnitMore, end
        <4> QED BY <4>4, <4>5 DEF is, isMore
      <3> QED BY <3>5, <3>6
    <2> QED BY <1>0, <2>1, <2>2
  <1>4. CASE l = 0 /\ more.left = 0 /\ \E k \in 1..(i - 1) : /\ bands[k].from <= h /\ Above(bands, k, h)
                                                             /\ more.height = h + bands[k].rate
    <2>1. is = was /\ isMore = more BY <1>0, <1>4, BandClimbs
    <2>2. i < Len(bands) => h <= bands[i + 1].from
      <3> SUFFICES ASSUME i < Len(bands) PROVE h <= bands[i + 1].from OBVIOUS
      <3>1. i \in 1..(Len(bands) - 1) /\ i + 1 \in 1..Len(bands) BY <1>0
      <3>2. bands[i].from <= bands[i + 1].from /\ bands[i + 1].from \in Int BY <1>0, <3>1 DEF Smooth, Ascend, AreBands
      <3> QED BY <1>1, <1>2, <3>2
    <2>3. \A k \in 1..(i - 1) : k \in 1..i BY <1>0
    <2> HIDE DEF is, isMore
    <2>4. AtEnd(bands, i, was) BY <1>1, <1>4, <2>2 DEF AtEnd
    <2>5. UnitMore(bands, i, was, more) BY <1>4, <2>3 DEF UnitMore
    <2> QED BY <2>1, <2>4, <2>5 DEF is, isMore
  <1>5. bands[(i - 1) + 1] = bands[i] BY <1>0
  <1> QED BY <1>3, <1>4, <1>5 DEF UnitMore

\* After every band, and so after the last.
LEMMA UnitClimbs ==
  ASSUME NEW bands, Smooth(bands), NEW time \in Nat
  PROVE  \A i \in 0..Len(bands) : /\ AtEnd(bands, i, Climb(time, bands)[i])
                                  /\ UnitMore(bands, i, Climb(time, bands)[i], Climb(time + 1, bands)[i])
  <1> DEFINE climb == Climb(time, bands)
             more == Climb(time + 1, bands)
             n == Len(bands)
             good == {i \in 0..n : AtEnd(bands, i, climb[i]) /\ UnitMore(bands, i, climb[i], more[i])}
  <1>0. AreBands(bands) /\ n \in Nat /\ n > 0 /\ bands[1].from = 0 BY DEF Smooth, AreBands
  <1>1. climb[0] = [height |-> 0, left |-> time] /\ \A i \in 1..n : climb[i] = ClimbBand(bands, i, climb[i - 1])
    BY <1>0, ClimbIs
  <1>2. more[0] = [height |-> 0, left |-> time + 1] /\ \A i \in 1..n : more[i] = ClimbBand(bands, i, more[i - 1])
    BY <1>0, ClimbIs
  <1>3. \A i \in 0..n : climb[i] \in Places BY <1>0, ClimbTypes
  <1>4. \A i \in 0..n : more[i] \in Places
    <2>1. time + 1 \in Nat OBVIOUS
    <2> QED BY <1>0, <2>1, ClimbTypes
  <1> HIDE DEF climb, more
  <1>5. 0 \in good
    <2>1. 0 + 1 = 1 /\ 0 < n /\ 0 # n BY <1>0
    <2>2. climb[0].height = 0 /\ climb[0].left = time /\ more[0].height = 0 /\ more[0].left = time + 1 BY <1>1, <1>2
    <2>3. AtEnd(bands, 0, climb[0]) BY <1>0, <2>1, <2>2 DEF AtEnd
    <2>4. UnitMore(bands, 0, climb[0], more[0]) BY <1>0, <2>1, <2>2 DEF UnitMore
    <2> QED BY <1>0, <2>3, <2>4
  <1>6. ASSUME NEW i \in 1..n, i - 1 \in good PROVE i \in good
    <2>1. i \in 0..n /\ i - 1 \in 0..n BY <1>0
    <2>2. AtEnd(bands, i - 1, climb[i - 1]) /\ UnitMore(bands, i - 1, climb[i - 1], more[i - 1]) BY <1>6
    <2>3. AtEnd(bands, i, climb[i]) /\ UnitMore(bands, i, climb[i], more[i])
      BY <1>1, <1>2, <1>3, <1>4, <2>1, <2>2, BandKeeps
    <2> QED BY <2>1, <2>3
  <1> HIDE DEF good, n
  <1>7. \A i \in 0..n : i \in good BY <1>0, <1>5, <1>6, Upwards
  <1> QED BY <1>7 DEF good, n, climb, more

LEMMA Ascending ==
  ASSUME NEW bands, Smooth(bands), NEW i \in 1..Len(bands)
  PROVE  \A k \in i..Len(bands) : bands[i].from <= bands[k].from
  <1> DEFINE n == Len(bands)
             good == {k \in 0..n : k >= i => bands[i].from <= bands[k].from}
  <1>1. n \in Nat /\ \A k \in 1..n : bands[k].from \in Int BY DEF Smooth, AreBands
  <1>2. \A k \in 1..(n - 1) : bands[k].from <= bands[k + 1].from BY DEF Smooth, Ascend
  <1>3. 0 \in good BY <1>1
  <1>4. ASSUME NEW k \in 1..n, k - 1 \in good PROVE k \in good
    <2>1. CASE k < i BY <1>1, <2>1
    <2>2. CASE k = i
      <3>1. bands[i].from <= bands[k].from BY <1>1, <2>2
      <3> QED BY <1>1, <3>1
    <2>3. CASE k > i
      <3>1. k - 1 \in 1..(n - 1) /\ k - 1 \in 1..n /\ (k - 1) + 1 = k /\ k - 1 >= i BY <1>1, <2>3
      <3>2. bands[i].from <= bands[k - 1].from BY <1>4, <3>1
      <3>3. bands[k - 1].from <= bands[(k - 1) + 1].from BY <1>2, <3>1
      <3>4. bands[k - 1].from <= bands[k].from BY <3>1, <3>3
      <3>5. bands[i].from <= bands[k].from BY <1>1, <3>1, <3>2, <3>4
      <3> QED BY <1>1, <3>5
    <2> QED BY <1>1, <2>1, <2>2, <2>3
  <1> HIDE DEF good
  <1>5. \A k \in 0..n : k \in good BY <1>1, <1>3, <1>4, Upwards
  <1>6. \A k \in i..n : k \in 0..n /\ k >= i BY <1>1
  <1> QED BY <1>5, <1>6 DEF good

\* One band holds a height.
LEMMA OneBand ==
  ASSUME NEW bands, Smooth(bands), NEW height \in Nat,
         NEW i \in 1..Len(bands), bands[i].from <= height, Above(bands, i, height),
         NEW k \in 1..Len(bands), bands[k].from <= height, Above(bands, k, height)
  PROVE  i = k
  <1>1. ASSUME NEW x \in 1..Len(bands), NEW y \in 1..Len(bands), x < y, Above(bands, x, height), bands[y].from <= height
        PROVE  FALSE
    <2>0. Len(bands) \in Nat /\ \A z \in 1..Len(bands) : bands[z].from \in Int BY DEF Smooth, AreBands
    <2>1. x # Len(bands) /\ x + 1 \in 1..Len(bands) /\ y \in (x + 1)..Len(bands) BY <1>1, <2>0
    <2>2. bands[x + 1].from > height BY <1>1, <2>1 DEF Above, IsLast
    <2>3. bands[x + 1].from <= bands[y].from BY <2>1, Ascending
    <2> QED BY <1>1, <2>0, <2>1, <2>2, <2>3
  <1>2. i \in Int /\ k \in Int OBVIOUS
  <1>3. i < k \/ k < i \/ i = k BY <1>2
  <1> QED BY <1>1, <1>3

LEMMA ClimbIsMonotone ==
  ASSUME NEW bands, AreBands(bands), NEW time \in Nat
  PROVE  \A i \in 0..Len(bands) :
           /\ Climb(time, bands)[i].height <= Climb(time, bands)[Len(bands)].height
           /\ Climb(time, bands)[i].left = 0 => Climb(time, bands)[i].height = Climb(time, bands)[Len(bands)].height
  <1> DEFINE climb == Climb(time, bands)
             n == Len(bands)
             good == {i \in 0..n : /\ climb[i].height <= climb[n].height
                                   /\ climb[i].left = 0 => climb[i].height = climb[n].height}
  <1>0. n \in Nat BY DEF AreBands
  <1>1. climb[0] = [height |-> 0, left |-> time] /\ \A i \in 1..n : climb[i] = ClimbBand(bands, i, climb[i - 1]) BY ClimbIs
  <1>2. \A i \in 0..n : climb[i] \in Places BY ClimbTypes
  <1> HIDE DEF climb
  <1>3. \A i \in 0..n : climb[i].height \in Nat /\ climb[i].left \in Nat BY <1>2 DEF Places
  <1>4. n \in good
    <2>1. n \in 0..n BY <1>0
    <2> QED BY <1>3, <2>1
  <1>5. ASSUME NEW i \in 1..n, i \in good PROVE i - 1 \in good
    <2>1. i \in 0..n /\ i - 1 \in 0..n /\ n \in 0..n BY <1>0
    <2>2. /\ climb[i].height >= climb[i - 1].height
          /\ climb[i - 1].left = 0 => climb[i] = climb[i - 1]
      BY <1>1, <1>2, <2>1, BandClimbs
    <2>3. climb[i].height <= climb[n].height /\ (climb[i].left = 0 => climb[i].height = climb[n].height) BY <1>5
    <2>4. climb[i - 1].height <= climb[n].height BY <1>3, <2>1, <2>2, <2>3
    <2>5. climb[i - 1].left = 0 => climb[i - 1].height = climb[n].height BY <2>2, <2>3
    <2> QED BY <2>1, <2>4, <2>5
  <1> HIDE DEF good, n
  <1>6. \A i \in 0..n : i \in good BY <1>0, <1>4, <1>5, Downwards
  <1> QED BY <1>6 DEF good, n, climb

LEMMA DividesBack == ASSUME NEW x \in Nat, NEW r \in Nat, r > 0 PROVE (r * x) \div r = x
  <1> DEFINE a == r * x
             q == a \div r
  <1>1. a \in Int OBVIOUS
  <1>2. q \in Int /\ r * q <= a /\ a < r * q + r
    <2> HIDE DEF a
    <2> QED BY <1>1, DividesDown
  <1> HIDE DEF q
  <1>3. q <= x BY <1>2, UpTo
  <1>4. r * (q + 1) = r * q + r BY <1>2
  <1>5. q + 1 \in Int BY <1>2
  <1>6. r * x < r * (q + 1) BY <1>2, <1>4
  <1> HIDE DEF a
  <1>7. x < q + 1 BY <1>5, <1>6, Bigger
  <1>8. q = x BY <1>2, <1>3, <1>7
  <1> QED BY <1>8 DEF q, a

\* The time a band takes is what multiplierAtMs takes off there.
LEMMA BandTime ==
  ASSUME NEW bands, Smooth(bands), NEW i \in 1..Len(bands), NEW was \in Places, NEW height \in Nat,
         AtEnd(bands, i - 1, was), AtEnd(bands, i, ClimbBand(bands, i, was)),
         was.height <= height, was.left = 0 => was.height = height,
         ClimbBand(bands, i, was).height <= height,
         ClimbBand(bands, i, was).left = 0 => ClimbBand(bands, i, was).height = height
  PROVE  TimeInBand(bands, i, height) = was.left - ClimbBand(bands, i, was).left
  <1> DEFINE is == ClimbBand(bands, i, was)
             from == bands[i].from
             r == bands[i].rate
             h == was.height
             l == was.left
             end == bands[i + 1].from
             top == IF i = Len(bands) THEN height ELSE Lesser(height, end)
  <1>0. /\ AreBands(bands) /\ Len(bands) \in Nat /\ i \in Nat /\ i <= Len(bands) /\ i - 1 < Len(bands) /\ (i - 1) + 1 = i
    BY DEF Smooth, AreBands
  <1>1. h \in Nat /\ l \in Nat /\ r \in Nat /\ r > 0 /\ from \in Int BY <1>0 DEF Places, AreBands
  <1>2. TimeInBand(bands, i, height) = IF top > from THEN (top - from) \div r ELSE 0 BY DEF TimeInBand, IsLast
  <1>3. h <= from /\ (l > 0 => h = from)
    <2>1. bands[(i - 1) + 1] = bands[i] BY <1>0
    <2> QED BY <1>0, <2>1 DEF AtEnd
  <1>4. i < Len(bands) => end \in Int
    <2>1. i < Len(bands) => i + 1 \in 1..Len(bands) BY <1>0
    <2> QED BY <1>0, <2>1 DEF AreBands
  <1>5. i = Len(bands) \/ i < Len(bands)
    <2>1. i \in Int /\ Len(bands) \in Int /\ i <= Len(bands) BY <1>0
    <2> QED BY ONLY <2>1
  <1>6. top <= height /\ top \in Int
    <2>1. i # Len(bands) => end \in Int BY <1>4, <1>5
    <2> QED BY <2>1 DEF Lesser
  <1>7. CASE l = 0
    <2>1. is = was BY <1>0, <1>7, BandClimbs
    <2>2. h = height BY <1>7
    <2> HIDE DEF is, from, r, h, l, end, top
    <2>3. ~(top > from) BY <1>1, <1>3, <1>6, <2>2
    <2>4. was.left - is.left = 0 BY <1>7, <2>1 DEF l
    <2> QED BY <1>2, <2>3, <2>4 DEF is
  <1>8. CASE l > 0 /\ i = Len(bands)
    <2>1. is = [height |-> h + r * l, left |-> 0] BY <1>3, <1>8, FromBeginning
    <2>2. is.left = 0 /\ is.height = h + r * l BY <2>1
    <2>3. height = from + r * l BY <1>3, <1>8, <2>2
    <2>4. top = height BY <1>8
    <2> HIDE DEF is, from, r, h, l, end, top
    <2>5. r * l \in Nat /\ r * l > 0 BY <1>1, <1>8
    <2>6. top > from /\ top - from = r * l BY <1>1, <2>3, <2>4, <2>5
    <2>7. (r * l) \div r = l BY <1>1, DividesBack
    <2>8. TimeInBand(bands, i, height) = l BY <1>2, <2>6, <2>7
    <2>9. l = l - 0 BY <1>1
    <2> QED BY <2>2, <2>8, <2>9 DEF is, l
  <1>9. CASE l > 0 /\ i < Len(bands)
    <2> DEFINE q == (end - h) \div r
    <2>1. /\ end \in Nat /\ q \in Nat /\ h <= end /\ (q = 0 <=> end = h) /\ end = h + r * q
          /\ l <= q => is = [height |-> h + r * l, left |-> 0]
          /\ l >= q => is = [height |-> end, left |-> l - q]
      BY <1>3, <1>9, FromBeginning
    <2>2. i # Len(bands)
      <3>1. i \in Int BY <1>0
      <3> QED BY <1>9, <3>1
    <2>3. top = Lesser(height, end) BY <2>2
    <2>4. is.height <= end BY <1>9 DEF AtEnd
    <2> HIDE DEF top, end, q, from, r
    <2>5. CASE l <= q
      <3>1. is.left = 0 /\ is.height = h + r * l BY <2>1, <2>5
      <3>2. height = h + r * l /\ height <= end BY <2>4, <3>1
      <3>3. r * l \in Nat /\ r * l > 0 BY <1>1, <1>9
      <3>4. top = height BY <2>3, <3>2 DEF Lesser
      <3>5. h = from BY <1>3, <1>9
      <3> HIDE DEF is, h, l
      <3>6. top > from /\ top - from = r * l BY <1>1, <3>2, <3>3, <3>4, <3>5
      <3>7. (r * l) \div r = l BY <1>1, DividesBack
      <3>8. TimeInBand(bands, i, height) = l BY <1>2, <3>6, <3>7
      <3>9. l = l - 0 BY <1>1
      <3> QED BY <3>1, <3>8, <3>9 DEF is, l
    <2>6. CASE ~(l <= q)
      <3>1. l >= q BY <1>1, <2>1, <2>6
      <3>2. is.left = l - q /\ is.height = end BY <2>1, <3>1
      <3>3. end <= height BY <3>2
      <3>4. top = end BY <2>1, <2>3, <3>3 DEF Lesser
      <3>5. h = from BY <1>3, <1>9
      <3> HIDE DEF is, h, l
      <3>6. r * q \in Nat BY <1>1, <2>1
      <3>7. TimeInBand(bands, i, height) = q
        <4>1. CASE end > from
          <5>1. top - from = r * q BY <1>1, <2>1, <3>4, <3>5, <3>6
          <5>2. (r * q) \div r = q BY <1>1, <2>1, DividesBack
          <5> QED BY <1>2, <3>4, <4>1, <5>1, <5>2
        <4>2. CASE ~(end > from)
          <5>1. end = h BY <1>1, <2>1, <3>5, <4>2
          <5> QED BY <1>2, <2>1, <3>4, <4>2, <5>1
        <4> QED BY <4>1, <4>2
      <3>8. q = l - (l - q) BY <1>1, <2>1
      <3> QED BY <3>2, <3>7, <3>8 DEF is, l
    <2> QED BY <2>5, <2>6
  <1>10. l = 0 \/ l > 0 BY <1>1
  <1> QED BY <1>5, <1>7, <1>8, <1>9, <1>10

\* The time to the height that is reached is the time that has passed.
LEMMA TimeIsBack ==
  ASSUME NEW bands, Smooth(bands), NEW time \in Nat
  PROVE  Spent(Climb(time, bands)[Len(bands)].height, bands)[Len(bands)] = time
  <1> DEFINE climb == Climb(time, bands)
             n == Len(bands)
             height == climb[n].height
             spent == Spent(height, bands)
             good == {i \in 0..n : spent[i] = time - climb[i].left}
  <1>0. AreBands(bands) /\ n \in Nat BY DEF Smooth, AreBands
  <1>1. climb[0] = [height |-> 0, left |-> time] /\ \A i \in 1..n : climb[i] = ClimbBand(bands, i, climb[i - 1])
    BY <1>0, ClimbIs
  <1>2. \A i \in 0..n : climb[i] \in Places BY <1>0, ClimbTypes
  <1>3. spent[0] = 0 /\ \A i \in 1..n : spent[i] = spent[i - 1] + TimeInBand(bands, i, height) BY <1>0, SpentIs
  <1>4. \A i \in 0..n : AtEnd(bands, i, climb[i]) BY UnitClimbs
  <1>5. \A i \in 0..n : climb[i].height <= height /\ (climb[i].left = 0 => climb[i].height = height)
    BY <1>0, ClimbIsMonotone
  <1> HIDE DEF spent, climb
  <1>6. height \in Nat
    <2>1. n \in 0..n BY <1>0
    <2> QED BY <1>2, <2>1 DEF Places
  <1> HIDE DEF height
  <1>7. \A i \in 0..n : climb[i].left \in Nat BY <1>2 DEF Places
  <1>8. 0 \in good
    <2>1. climb[0].left = time /\ time - time = 0 BY <1>1
    <2> QED BY <1>0, <1>3, <2>1
  <1>9. ASSUME NEW i \in 1..n, i - 1 \in good PROVE i \in good
    <2>1. i \in 0..n /\ i - 1 \in 0..n BY <1>0
    <2> DEFINE was == climb[i - 1]
               is == climb[i]
    <2>2. was \in Places /\ is = ClimbBand(bands, i, was) BY <1>1, <1>2, <2>1
    <2>3. AtEnd(bands, i - 1, was) /\ AtEnd(bands, i, is) BY <1>4, <2>1
    <2>4. was.height <= height /\ (was.left = 0 => was.height = height) BY <1>5, <2>1
    <2>5. is.height <= height /\ (is.left = 0 => is.height = height) BY <1>5, <2>1
    <2>6. was.left \in Nat /\ is.left \in Nat /\ spent[i - 1] = time - was.left BY <1>7, <1>9, <2>1
    <2> HIDE DEF was, is
    <2>7. TimeInBand(bands, i, height) = was.left - is.left BY <1>6, <2>2, <2>3, <2>4, <2>5, BandTime
    <2>8. spent[i] = (time - was.left) + (was.left - is.left) BY <1>3, <2>6, <2>7
    <2>9. spent[i] = time - is.left BY <2>6, <2>8
    <2> QED BY <2>1, <2>9 DEF is
  <1> HIDE DEF good
  <1>10. \A i \in 0..n : i \in good BY <1>0, <1>8, <1>9, Upwards
  <1>11. n \in 0..n BY <1>0
  <1>12. spent[n] = time - climb[n].left BY <1>10, <1>11 DEF good
  <1>13. climb[n].left = 0 BY <1>4, <1>11 DEF AtEnd
  <1>14. spent[n] = time BY <1>12, <1>13
  <1> QED BY <1>14 DEF spent, height, climb

\* As the tests of the curve have it: at takeoff the height is 0, a unit of time adds the rate
\* of the band that holds the height, and the time to a height is the inverse.
LEMMA CurveIsClimbed ==
  ASSUME WholeTimes, moment \in Nat, growth \in Curves
  PROVE  CurveClimbs
  <1> DEFINE bands == Bands(growth)
             n == Len(bands)
             height == HeightAt(moment, growth)
  <1>1. Smooth(bands) /\ AreBands(bands) /\ DOMAIN bands = 1..n BY BandsAre DEF WholeTimes, Smooth
  <1>2. \A time \in Nat : HeightAt(time, growth) = Climb(time, bands)[n].height BY HeightIs
  <1>3. TimeTo(height, growth) = IF height <= 0 THEN 0 ELSE Spent(height, bands)[n] BY TimeIs
  <1>4. RateAt(height, growth) =
          bands[CHOOSE i \in DOMAIN bands : bands[i].from <= height /\ Above(bands, i, height)].rate
    BY DEF RateAt
  <1> HIDE DEF bands, height
  <1>5. n \in 0..n /\ n \in Nat /\ ~(n < n) BY <1>1 DEF AreBands
  <1> HIDE DEF n
  <1>6. ASSUME NEW time \in Nat
        PROVE  \E k \in 1..n : /\ bands[k].from <= HeightAt(time, growth) /\ Above(bands, k, HeightAt(time, growth))
                               /\ HeightAt(time + 1, growth) = HeightAt(time, growth) + bands[k].rate
    <2>1. UnitMore(bands, n, Climb(time, bands)[n], Climb(time + 1, bands)[n]) BY <1>1, <1>5, UnitClimbs DEF n
    <2>2. HeightAt(time, growth) = Climb(time, bands)[n].height /\ HeightAt(time + 1, growth) = Climb(time + 1, bands)[n].height
      <3>1. time + 1 \in Nat OBVIOUS
      <3> QED BY <1>2, <3>1
    <2> QED BY <1>5, <2>1, <2>2 DEF UnitMore, n
  <1>7. \A time \in Nat : HeightAt(time, growth) \in Nat BY HeightsAreNumbers
  <1>8. height = HeightAt(moment, growth) /\ height \in Nat BY <1>7 DEF height
  <1>9. moment = 0 => height = 0
    <2> SUFFICES ASSUME moment = 0 PROVE height = 0 OBVIOUS
    <2>1. Climb(0, bands)[0] = [height |-> 0, left |-> 0] BY <1>1, ClimbIs
    <2>2. 0 \in 0..n BY <1>5
    <2>3. Climb(0, bands)[0].left = 0 => Climb(0, bands)[0].height = Climb(0, bands)[n].height
      BY <1>1, <2>2, ClimbIsMonotone DEF n
    <2> QED BY <1>2, <1>8, <2>1, <2>3
  <1>10. HeightAt(moment + 1, growth) = height + RateAt(height, growth)
    <2>1. PICK k \in 1..n : /\ bands[k].from <= height /\ Above(bands, k, height)
                            /\ HeightAt(moment + 1, growth) = height + bands[k].rate
      BY <1>6, <1>8
    <2> DEFINE holds(i) == bands[i].from <= height /\ Above(bands, i, height)
               chosen == CHOOSE i \in 1..n : holds(i)
    <2>2. holds(k) BY <2>1
    <2> HIDE DEF holds
    <2>3. chosen \in 1..n /\ holds(chosen) BY <2>2
    <2>4. chosen = k
      <3> HIDE DEF chosen
      <3> QED BY <1>1, <1>8, <2>2, <2>3, OneBand DEF holds, n
    <2>5. RateAt(height, growth) = bands[chosen].rate BY <1>1, <1>4 DEF holds
    <2> QED BY <2>1, <2>4, <2>5
  <1>11. TimeTo(height, growth) = moment
    <2>1. CASE moment = 0 BY <1>3, <1>9, <2>1
    <2>2. CASE moment # 0
      <3>1. moment - 1 \in Nat /\ (moment - 1) + 1 = moment BY <2>2
      <3>2. PICK k \in 1..n : HeightAt((moment - 1) + 1, growth) = HeightAt(moment - 1, growth) + bands[k].rate
        BY <1>6, <3>1
      <3>3. bands[k].rate \in Nat /\ bands[k].rate > 0 BY <1>1 DEF AreBands, n
      <3>4. HeightAt(moment - 1, growth) \in Nat BY <1>7, <3>1
      <3>5. height = HeightAt(moment - 1, growth) + bands[k].rate BY <1>8, <3>1, <3>2
      <3>6. ~(height <= 0) BY <3>3, <3>4, <3>5
      <3>7. height = Climb(moment, bands)[n].height BY <1>2, <1>8
      <3>8. Spent(height, bands)[n] = moment BY <1>1, <3>7, TimeIsBack DEF n
      <3> QED BY <1>3, <3>6, <3>8
    <2> QED BY <2>1, <2>2
  <1> QED BY <1>8, <1>9, <1>10, <1>11 DEF CurveClimbs

-----------------------------------------------------------------------------
(* The table. *)

\* In flight the table has seen no more than takeoff and the highest tick, and that was
\* below the crash point.
FlightInv ==
  /\ DrawInv /\ airborne \in {"BETTING", "FLYING", "CRASHED"} /\ moment \in Nat /\ growth \in Curves
  /\ shown \in Nat /\ peak \in Nat
  /\ wagers \in [FlightBets -> [target : Targets, paid : Nat, source : {"-", "auto", "manual"}]]
  /\ airborne = "BETTING" => peak = 0 /\ shown = 100 /\ \A b \in FlightBets : wagers[b].paid = 0
  /\ airborne = "FLYING" => shown \in 100..Point /\ shown <= Greater(100, peak)
  /\ CashoutsAreHonest

\* A tick below the crash point shows a multiplier below it.
LEMMA TickBelowPoint ==
  ASSUME DrawInv, NEW height \in Nat, ~Reached(height)
  PROVE  Hundredths(height) \in Nat /\ Hundredths(height) >= 100 /\ Hundredths(height) < Point
  <1>1. Point \in 100..MaxPoint BY PointBounds DEF Point, DrawInv
  <1>2. LevelSize \in Nat \ {0} /\ Point - 100 \in Nat /\ Point \in Nat BY <1>1, FlightAssumption DEF FlightAssumption
  <1>3. ~(height >= (Point - 100) * LevelSize) BY DEF Reached
  <1>4. height \div LevelSize \in Nat /\ ~(height \div LevelSize >= Point - 100)
    BY <1>2, <1>3, Quotient
  <1> QED BY <1>2, <1>4 DEF Hundredths

LEMMA TickStep ==
  ASSUME FlightInv, Tick
  PROVE  FlightInv'
  <1>1. PICK step \in 1..MaxTick :
          /\ moment' = moment + step
          /\ LET height     == HeightAt(moment', growth)
                 multiplier == Hundredths(height)
             IN IF Reached(height)
                THEN airborne' = "CRASHED" /\ shown' = Point /\ UNCHANGED <<wagers, peak>>
                ELSE /\ shown' = multiplier
                     /\ wagers' = [b \in FlightBets |->
                          IF b \in Due(multiplier) THEN [wagers[b] EXCEPT !.paid = AutoPays(b, multiplier), !.source = "auto"]
                                                   ELSE wagers[b]]
                     /\ peak' = Greater(peak, multiplier) /\ UNCHANGED airborne
    BY DEF Tick
  <1>2. airborne = "FLYING" /\ UNCHANGED <<draw, growth, curveEdits>> BY DEF Tick
  <1> DEFINE height == HeightAt(moment', growth)
             multiplier == Hundredths(height)
  <1>3. moment' \in Nat
    <2>1. moment' = moment + step BY <1>1
    <2>2. moment \in Nat /\ step \in Nat BY FlightAssumption DEF FlightInv, FlightAssumption
    <2> QED BY <2>1, <2>2
  <1>4. height \in Nat
    <2>1. growth \in Curves BY DEF FlightInv
    <2> QED BY <1>2, <1>3, <2>1, HeightsAreNumbers
  <1>5. Point' = Point /\ Point \in 100..MaxPoint /\ Point \in Nat
    BY <1>2, PointBounds, FlightAssumption DEF Point, FlightInv, DrawInv, FlightAssumption
  <1>6. DrawInv' BY <1>2 DEF DrawInv, FlightInv
  <1>7. CASE Reached(height)
    <2>1. airborne' = "CRASHED" /\ shown' = Point /\ UNCHANGED <<wagers, peak>> BY <1>1, <1>7
    <2>2. CashoutsAreHonest' BY <1>2, <1>5, <2>1 DEF FlightInv, CashoutsAreHonest, OpenBet
    <2> QED BY <1>2, <1>3, <1>5, <1>6, <2>1, <2>2 DEF FlightInv
  <1>8. CASE ~Reached(height)
    <2>1. multiplier \in Nat /\ multiplier >= 100 /\ multiplier < Point
      BY <1>4, <1>8, TickBelowPoint DEF FlightInv
    <2>2. /\ shown' = multiplier /\ peak' = Greater(peak, multiplier) /\ UNCHANGED airborne
          /\ wagers' = [b \in FlightBets |->
               IF b \in Due(multiplier) THEN [wagers[b] EXCEPT !.paid = AutoPays(b, multiplier), !.source = "auto"]
                                        ELSE wagers[b]]
      BY <1>1, <1>8
    <2> HIDE DEF height, multiplier
    <2>3. peak' \in Nat /\ peak' >= multiplier /\ peak' >= peak /\ (peak' = peak \/ peak' = multiplier)
      <3>1. peak \in Nat BY DEF FlightInv
      <3>2. peak' = Greater(peak, multiplier) BY <2>2
      <3> QED BY ONLY <2>1, <3>1, <3>2 DEF Greater
    <2>4. ASSUME NEW b \in FlightBets
          PROVE  /\ wagers'[b] \in [target : Targets, paid : Nat, source : {"-", "auto", "manual"}]
                 /\ wagers'[b].target = wagers[b].target
                 /\ IF b \in Due(multiplier)
                    THEN wagers'[b].paid = wagers[b].target /\ wagers'[b].source = "auto"
                    ELSE wagers'[b] = wagers[b]
      <3>1. wagers[b] \in [target : Targets, paid : Nat, source : {"-", "auto", "manual"}] /\ wagers[b].target \in Nat
        BY ZenonT(60), FlightAssumption DEF FlightInv, FlightAssumption
      <3>2. wagers'[b] = IF b \in Due(multiplier) THEN [wagers[b] EXCEPT !.paid = wagers[b].target, !.source = "auto"]
                                                  ELSE wagers[b]
        BY <2>2 DEF AutoPays
      <3> QED BY <3>1, <3>2
    <2>5. CashoutsAreHonest'
      <3> SUFFICES ASSUME NEW b \in FlightBets
                   PROVE  /\ wagers'[b].paid # 0 =>
                               /\ wagers'[b].paid <= Point
                               /\ wagers'[b].paid <= Greater(100, peak')
                               /\ wagers'[b].source = "auto" => wagers'[b].paid = wagers'[b].target
                          /\ wagers'[b].paid = 0 /\ wagers'[b].target > 0 =>
                               peak' < wagers'[b].target \/ wagers'[b].target > Point
        BY <1>5 DEF CashoutsAreHonest, OpenBet
      <3>1. wagers[b].paid \in Nat /\ wagers[b].target \in Nat
        <4>1. wagers[b] \in [target : Targets, paid : Nat, source : {"-", "auto", "manual"}] BY DEF FlightInv
        <4> QED BY <4>1, FlightAssumption DEF FlightAssumption
      <3>2. CASE b \in Due(multiplier)
        <4>1. wagers[b].target > 0 /\ multiplier >= wagers[b].target /\ wagers[b].target <= Point BY <3>2 DEF Due
        <4> QED BY <1>5, <2>1, <2>3, <2>4, <3>1, <3>2, <4>1 DEF Greater
      <3>3. CASE b \notin Due(multiplier)
        <4>1. wagers'[b] = wagers[b] BY <2>4, <3>3
        <4>2. /\ wagers[b].paid # 0 => /\ wagers[b].paid <= Point /\ wagers[b].paid <= Greater(100, peak)
                                       /\ wagers[b].source = "auto" => wagers[b].paid = wagers[b].target
              /\ wagers[b].paid = 0 /\ wagers[b].target > 0 => peak < wagers[b].target \/ wagers[b].target > Point
          BY <1>2 DEF FlightInv, CashoutsAreHonest, OpenBet
        <4>3. wagers[b].paid = 0 /\ wagers[b].target > 0 => multiplier < wagers[b].target \/ wagers[b].target > Point
          BY <1>5, <2>1, <3>1, <3>3 DEF Due, OpenBet
        <4>4. peak \in Nat BY DEF FlightInv
        <4> QED BY <1>5, <2>1, <2>3, <3>1, <4>1, <4>2, <4>3, <4>4 DEF Greater
      <3> QED BY <3>2, <3>3
    <2>6. shown' \in 100..Point /\ shown' <= Greater(100, peak') /\ shown' \in Nat
      <3>1. shown' = multiplier BY <2>2
      <3> QED BY <1>5, <2>1, <2>3, <3>1 DEF Greater
    <2>7. wagers' \in [FlightBets -> [target : Targets, paid : Nat, source : {"-", "auto", "manual"}]]
      BY <2>2, <2>4
    <2> QED BY <1>2, <1>3, <1>5, <1>6, <2>2, <2>3, <2>5, <2>6, <2>7 DEF FlightInv
  <1> QED BY <1>7, <1>8

LEMMA OtherFlightSteps ==
  ASSUME FlightInv, TakeOff \/ GrowthEdited \/ (\E b \in FlightBets : CashOutNow(b)) \/ UNCHANGED flightVars
  PROVE  FlightInv'
  <1>0. draw' = draw BY DEF TakeOff, GrowthEdited, CashOutNow, flightVars
  <1>1. Point' = Point /\ Point \in 100..MaxPoint /\ Point \in Nat /\ DrawInv'
    BY <1>0, PointBounds, FlightAssumption DEF Point, FlightInv, DrawInv, FlightAssumption
  <1>2. CASE TakeOff
    <2>1. PICK choice \in [FlightBets -> Targets] :
            wagers' = [b \in FlightBets |-> [target |-> choice[b], paid |-> 0, source |-> "-"]]
      BY <1>2 DEF TakeOff
    <2>2. \A b \in FlightBets : /\ wagers'[b].paid = 0 /\ wagers'[b].target \in Targets
                                /\ wagers'[b] \in [target : Targets, paid : Nat, source : {"-", "auto", "manual"}]
      BY <2>1
    <2>3. airborne = "BETTING" /\ airborne' = "FLYING" /\ UNCHANGED <<draw, moment, shown, growth, peak, curveEdits>>
      BY <1>2 DEF TakeOff
    <2>4. peak = 0 /\ shown = 100 /\ moment \in Nat /\ growth \in Curves BY <2>3 DEF FlightInv
    <2>5. CashoutsAreHonest'
      BY <1>1, <2>2, <2>3, <2>4, FlightAssumption DEF CashoutsAreHonest, OpenBet, Greater, FlightAssumption
    <2>6. wagers' \in [FlightBets -> [target : Targets, paid : Nat, source : {"-", "auto", "manual"}]]
      BY <2>1, <2>2
    <2> QED BY <1>1, <2>3, <2>4, <2>5, <2>6 DEF FlightInv, Greater
  <1>3. CASE GrowthEdited
    BY <1>1, <1>3 DEF GrowthEdited, FlightInv, CashoutsAreHonest, OpenBet
  <1>4. ASSUME NEW b \in FlightBets, CashOutNow(b) PROVE FlightInv'
    <2>1. airborne = "FLYING" /\ wagers[b].paid = 0 /\ UNCHANGED <<draw, airborne, moment, shown, growth, peak, curveEdits>>
      BY <1>4 DEF CashOutNow, OpenBet
    <2>2. wagers \in [FlightBets -> [target : Targets, paid : Nat, source : {"-", "auto", "manual"}]] /\ shown \in Nat /\ shown >= 100
          /\ shown <= Point /\ shown <= Greater(100, peak)
      BY <2>1, <1>1 DEF FlightInv
    <2>3. /\ wagers'[b] = [wagers[b] EXCEPT !.paid = shown, !.source = "manual"]
          /\ \A c \in FlightBets \ {b} : wagers'[c] = wagers[c]
          /\ wagers' \in [FlightBets -> [target : Targets, paid : Nat, source : {"-", "auto", "manual"}]]
      BY <1>4, <2>2 DEF CashOutNow
    <2>4. wagers'[b].paid = shown /\ wagers'[b].source = "manual" BY <2>2, <2>3
    <2>5. CashoutsAreHonest'
      <3>1. Point' = Point /\ Point \in Nat /\ airborne' = "FLYING" /\ peak' = peak /\ shown # 0
        BY <1>1, <2>1, <2>2
      <3>2. CashoutsAreHonest BY DEF FlightInv
      <3> SUFFICES ASSUME NEW c \in FlightBets
                   PROVE  /\ wagers'[c].paid # 0 =>
                               /\ wagers'[c].paid <= Point
                               /\ wagers'[c].paid <= Greater(100, peak)
                               /\ wagers'[c].source = "auto" => wagers'[c].paid = wagers'[c].target
                          /\ wagers'[c].paid = 0 /\ wagers'[c].target > 0 =>
                               peak < wagers'[c].target \/ wagers'[c].target > Point
        BY <3>1 DEF CashoutsAreHonest, OpenBet
      <3>3. CASE c = b BY <3>1, <3>3, <2>2, <2>4
      <3>4. CASE c # b BY <2>1, <2>3, <3>2, <3>4 DEF CashoutsAreHonest, OpenBet
      <3> QED BY <3>3, <3>4
    <2> QED BY <1>1, <2>1, <2>3, <2>5 DEF FlightInv
  <1>5. CASE UNCHANGED flightVars
    BY <1>1, <1>5 DEF flightVars, FlightInv, CashoutsAreHonest, OpenBet
  <1> QED BY <1>2, <1>3, <1>4, <1>5

LEMMA InitFlightInv == FlightInit => FlightInv
  BY FlightAssumption, PointBounds
     DEF FlightAssumption, FlightInit, FlightInv, DrawInv, CashoutsAreHonest, OpenBet

\* Whatever the curve climbs to, however late the ticks come and whenever players cash
\* out: nobody is paid above the crash point or above what was shown, and a target that
\* a tick reached is paid.
THEOREM CashoutsOfFlight == FlightSpec => []CashoutsAreHonest
  <1>1. FlightInv /\ [FlightNext]_flightVars => FlightInv'
    BY TickStep, OtherFlightSteps DEF FlightNext
  <1>2. FlightInv => CashoutsAreHonest BY DEF FlightInv
  <1> QED BY <1>1, <1>2, InitFlightInv, PTL DEF FlightSpec

\* The draw keeps the edge, the curve climbs at the rates of its bands whatever order they were
\* given in, with the time to a height its inverse, and the table pays no more than was shown
\* (crashPointForMessage, multiplierAtMs, timeToMultiplierMs, the ticks of the engine).
THEOREM FlightFair ==
  ASSUME WholeTimes
  PROVE  FlightSpec => []FlightIsFair
  <1>1. FlightInv /\ [FlightNext]_flightVars => FlightInv'
    BY TickStep, OtherFlightSteps DEF FlightNext
  <1>2. FlightInv => CurveClimbs /\ CashoutsAreHonest BY CurveIsClimbed DEF FlightInv
  <1>3. FlightSpec => [](CurveClimbs /\ CashoutsAreHonest) BY <1>1, <1>2, InitFlightInv, PTL DEF FlightSpec
  <1>4. CurveClimbs /\ CashoutsAreHonest /\ EdgeIsKept => FlightIsFair BY DEF FlightIsFair
  <1> QED BY <1>3, <1>4, EdgeOfFlight, PTL
=============================================================================
