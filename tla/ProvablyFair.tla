----------------------------- MODULE ProvablyFair -----------------------------
(***************************************************************************)
(* Commit and reveal: each game's engine draws a round's crash point from a *)
(* seed, the round's number, the game and its return-to-player, publishes  *)
(* the hash of the seed before bets are taken and the seed after the crash; *)
(* /api/verify computes the point anew from what a player gives it.  Games *)
(* are edited, archived and activated again, and the process restarts.     *)
(* HMAC and SHA-256 are taken as injective: a draw is the tuple of what goes*)
(* into it, a hash is what it is of.                                       *)
(***************************************************************************)
EXTENDS Integers, FiniteSets

CONSTANTS
  FairGames,     \* game ids
  DefaultGame,   \* DEFAULT_GAME_ID
  FairRtps,      \* return-to-player fractions
  ConfigRtp,     \* CONFIG.rtp and DEFAULT_CONFIG.rtp
  MaxFairRounds, \* bound: rounds begun
  MaxFairEdits,  \* bound: edits of the catalogue
  MaxFairStarts  \* bound: starts of the process

ASSUME FairAssumption ==
  /\ DefaultGame \in FairGames /\ ConfigRtp \in FairRtps
  /\ MaxFairRounds \in Nat /\ MaxFairEdits \in Nat /\ MaxFairStarts \in Nat

VARIABLES
  listing,   \* games row of each: [rtp, active]
  engineOf,  \* running engines: [no, phase, seed, next, rtp, point], or NoEngine
  drawn,     \* seeds drawn for each so far
  published, \* what the frames told: [game, no, commit], before the flight
  revealed,  \* ... and after the crash: [game, no, seed, point]
  terms,     \* history: the return-to-player each seed's round was drawn with
  edits, starts

fairVars == <<listing, engineOf, drawn, published, revealed, terms, edits, starts>>

NoEngine == [phase |-> "stopped"]
Running(g) == engineOf[g].phase # "stopped"

-----------------------------------------------------------------------------
(* rng.ts *)

CommitTo(seed) == <<"sha256", seed>>

\* crashMessage: the default game keeps the bare number.
CrashMessage(no, g) == IF g = DefaultGame THEN <<no>> ELSE <<no, g>>

\* crashPointForMessage, and crashPointFor with the bare number.
CrashPointFor(seed, message, rtp) == [seed |-> seed, message |-> message, rtp |-> rtp]

-----------------------------------------------------------------------------
(* Faulty variant of ShownPoint. *)

\* The point is drawn when the flight ends.
PointAtCrash(g) == CrashPointFor(engineOf[g].seed, CrashMessage(engineOf[g].no, g), listing[g].rtp)

-----------------------------------------------------------------------------
(* The engine (engine.ts, round.ts). *)

\* crashPointForThisGame: the default game's comes from CONFIG.
DrawRtp(g, rtp) == IF g = DefaultGame THEN ConfigRtp ELSE rtp

SeedOf(e) == e.next

NewEngine(g) ==
  [phase |-> "new", no |-> 0, seed |-> <<g, drawn[g] + 1>>, next |-> <<g, drawn[g] + 2>>, rtp |-> listing[g].rtp, point |-> <<>>]

\* startBettingPhase of game g's engine e; "another" is the seed drawn for the round after.
InBetting(e, g, another) ==
  LET seed == SeedOf(e)
  IN [e EXCEPT !.phase = "BETTING", !.no = @ + 1, !.seed = seed, !.next = another,
               !.point = CrashPointFor(seed, CrashMessage(e.no + 1, g), DrawRtp(g, e.rtp))]

\* What the phase_change frame of these engines tells, and with which return they drew.
Announce(games, engines) ==
  /\ Cardinality(published) + Cardinality(games) <= MaxFairRounds
  /\ published' = published \cup {[game |-> g, no |-> engines[g].no, commit |-> CommitTo(engines[g].seed)] : g \in games}
  /\ terms' = terms \cup {<<engines[g].seed, DrawRtp(g, engines[g].rtp)>> : g \in games}

BettingBegins(g) ==
  /\ Running(g) /\ engineOf[g].phase = "CRASHED"
  /\ engineOf' = [engineOf EXCEPT ![g] = InBetting(@, g, <<g, drawn[g] + 1>>)]
  /\ Announce({g}, engineOf') /\ drawn' = [drawn EXCEPT ![g] = @ + 1]
  /\ UNCHANGED <<listing, revealed, edits, starts>>

TakesOff(g) ==
  /\ engineOf[g].phase = "BETTING" /\ engineOf' = [engineOf EXCEPT ![g].phase = "FLYING"]
  /\ UNCHANGED <<listing, drawn, published, revealed, terms, edits, starts>>

ShownPoint(g) == engineOf[g].point

\* crash: the frame and the history show the point, and the frame the seed.
Crashes(g) ==
  /\ engineOf[g].phase = "FLYING" /\ engineOf' = [engineOf EXCEPT ![g].phase = "CRASHED"]
  /\ revealed' = revealed \cup {[game |-> g, no |-> engineOf[g].no, seed |-> engineOf[g].seed, point |-> ShownPoint(g)]}
  /\ UNCHANGED <<listing, drawn, published, terms, edits, starts>>

\* startAllEngines, on boot and by the timer: every active game without an engine gets
\* one, a running one the row's return, and an archived game's is dropped in the middle
\* of its round.  The default game always runs.
Wanted == {g \in FairGames : g = DefaultGame \/ listing[g].active}

Refresh ==
  LET fresh == {g \in Wanted : ~Running(g)}
  IN /\ engineOf' = [g \in FairGames |->
            CASE g \notin Wanted -> NoEngine
              [] g \in fresh     -> InBetting(NewEngine(g), g, <<g, drawn[g] + 3>>)
              [] OTHER           -> [engineOf[g] EXCEPT !.rtp = listing[g].rtp]]
     /\ Announce(fresh, engineOf')
     /\ drawn' = [g \in FairGames |-> IF g \in fresh THEN drawn[g] + 3 ELSE drawn[g]]
  /\ UNCHANGED <<listing, revealed, edits, starts>>

\* PATCH /admin/v1/games.
EditGame(g) ==
  /\ edits < MaxFairEdits /\ edits' = edits + 1
  /\ \E rtp \in FairRtps, active \in BOOLEAN : listing' = [listing EXCEPT ![g] = [rtp |-> rtp, active |-> active]]
  /\ UNCHANGED <<engineOf, drawn, published, revealed, terms, starts>>

\* Round numbers begin at 1 again; what players recorded stays.
ProcessRestarts ==
  /\ starts < MaxFairStarts /\ starts' = starts + 1
  /\ engineOf' = [g \in FairGames |-> NoEngine]
  /\ UNCHANGED <<listing, drawn, published, revealed, terms, edits>>

-----------------------------------------------------------------------------
(* /api/verify (public.ts). *)

\* verifyConfigForGame: the row as it is now, archived or not.
VerifyRtp(g) == DrawRtp(g, listing[g].rtp)

\* GET, with ?game=.
GetVerify(seed, no, g) ==
  [commit |-> CommitTo(seed), point |-> CrashPointFor(seed, CrashMessage(no, g), VerifyRtp(g))]

\* verifyRound against the default configuration and the bare number.
VerifyRound(commit, seed, no, point) ==
  CommitTo(seed) = commit /\ CrashPointFor(seed, <<no>>, ConfigRtp) = point

\* POST: the commitment is made of the seed that is given.
PostVerify(seed, no, g) ==
  LET point == CrashPointFor(seed, CrashMessage(no, g), VerifyRtp(g))
  IN [ok |-> VerifyRound(CommitTo(seed), seed, no, point), point |-> point]

\* The drawer posts a seed and a number, whatever the game.
DrawerVerify(seed, no) == PostVerify(seed, no, DefaultGame)

-----------------------------------------------------------------------------
FairInit ==
  /\ listing = [g \in FairGames |-> [rtp |-> ConfigRtp, active |-> TRUE]]
  /\ engineOf = [g \in FairGames |-> NoEngine]
  /\ drawn = [g \in FairGames |-> 0] /\ published = {} /\ revealed = {} /\ terms = {} /\ edits = 0 /\ starts = 0

FairNext ==
  \/ \E g \in FairGames : BettingBegins(g) \/ TakesOff(g) \/ Crashes(g) \/ EditGame(g)
  \/ Refresh \/ ProcessRestarts

FairRoundsSpec == FairInit /\ [][FairNext]_fairVars

-----------------------------------------------------------------------------
(* Properties. *)

\* The seed of a round that is open, and of the next, are known to nobody: neither
\* was revealed, for this or any other game.  (engine.ts:86-88.)
SeedsAreSecret ==
  \A g \in FairGames : Running(g) =>
    \A r \in revealed : r.seed # engineOf[g].next /\ (engineOf[g].phase \in {"BETTING", "FLYING"} => r.seed # engineOf[g].seed)

\* A revealed seed was committed to before the flight, under the same game and number,
\* and no seed serves two rounds.
RevealsWereCommitted ==
  /\ \A r \in revealed : [game |-> r.game, no |-> r.no, commit |-> CommitTo(r.seed)] \in published
  /\ \A r, q \in published : r.commit = q.commit => r = q

\* The point shown is the one that followed from the commitment when it was made,
\* whatever was edited since; GET /api/verify computes it too, unless the game's
\* return has been edited.  (public.ts:189.)
PointsFollow ==
  \A r \in revealed : \A t \in terms : t[1] = r.seed =>
    /\ r.point = CrashPointFor(r.seed, CrashMessage(r.no, r.game), t[2])
    /\ t[2] = VerifyRtp(r.game) => GetVerify(r.seed, r.no, r.game).point = r.point

\* Commit and reveal keep their promise to players of every game.
RoundsAreFair == SeedsAreSecret /\ RevealsWereCommitted /\ PointsFollow

\* What README.md:378-382 promises: after the round anyone can verify it, with the
\* drawer of the game's own page, while the game's return stays as it was.
AnyoneCanVerify ==
  \A r \in revealed : \A t \in terms : t = <<r.seed, VerifyRtp(r.game)>> =>
    LET v == DrawerVerify(r.seed, r.no) IN v.ok /\ v.point = r.point
=============================================================================
