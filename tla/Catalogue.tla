------------------------------ MODULE Catalogue ------------------------------
(***************************************************************************)
(* The game catalogue: rows of games edited by requests that read, check   *)
(* and write in separate statements; the process's snapshot of the active  *)
(* ones, re-read after each edit and on a timer; the engines the timer     *)
(* starts and stops; and one operator's rights (operator_games).           *)
(***************************************************************************)
EXTENDS Integers, FiniteSets

CONSTANTS
  Games,       \* game ids
  Base,        \* DEFAULT_GAME_ID
  GameTypes,   \* kinds of game; a theme fits one kind
  Rtps,        \* return-to-player fractions
  Edits,       \* requests, each made once
  MaxRefreshes \* bound on runs of the timer

ASSUME CatalogueAssumption == Base \in Games /\ Rtps # {} /\ Rtps \subseteq Nat \ {0}

VARIABLES
  game,     \* rows: [status, type, theme, rtp], or NoGame; theme is the type it fits
  version,  \* writes to games so far
  link,     \* the operator's row of each game: [enabled, override], or NoLink
  wanted,   \* history: what the patches of each link, applied one after another, amount to
  edit,     \* [at, kind, game, patch, read, version] of each request
  refresh,  \* runs of the timer: [at, rows, version]
  snapshot, \* the active games of the process, as rows
  engine,   \* running engines: the rtp of each, or 0
  engineVersion, \* history: the writes the engines know of
  skewed    \* history: a request wrote over what it had not read
catalogueVars == <<game, version, link, wanted, edit, refresh, snapshot, engine, engineVersion, skewed>>

Nothing == "nothing"
NoGame == [status |-> "none", type |-> Nothing, theme |-> Nothing, rtp |-> 0]
NoLink == [enabled |-> FALSE, override |-> -1]
NoOverride == 0
NoPatch == [type |-> Nothing, theme |-> Nothing, status |-> Nothing, rtp |-> 0, enabled |-> Nothing, override |-> -1]
NewEdit == [at |-> "new", kind |-> "none", game |-> Base, patch |-> NoPatch, read |-> NoGame, link |-> NoLink]
NewRefresh == [at |-> "new", rows |-> [g \in Games |-> NoGame], version |-> 0]
Active == [g \in Games |-> IF game[g].status = "active" THEN game[g] ELSE NoGame]
DefaultRtp == CHOOSE r \in Rtps : TRUE

-----------------------------------------------------------------------------
(* Requests read first. *)

Given(value, otherwise) == IF value = Nothing THEN otherwise ELSE value

\* assertThemeMatchesType: a given theme against the type to be, a given type against
\* the theme that was read.
ChecksOut(patch, read) ==
  /\ patch.theme # Nothing => patch.theme = Given(patch.type, read.type)
  /\ (patch.theme = Nothing /\ patch.type # Nothing) => read.theme = patch.type

ReadsForUpdate(e) ==
  /\ edit[e].at = "new"
  /\ \E g \in Games, type, theme \in GameTypes \cup {Nothing}, status \in {Nothing, "active", "archived"}, rtp \in Rtps \cup {0} :
       LET patch == [NoPatch EXCEPT !.type = type, !.theme = theme, !.status = status, !.rtp = rtp] IN
       edit' = [edit EXCEPT ![e] = IF game[g] # NoGame /\ ChecksOut(patch, game[g])
         THEN [NewEdit EXCEPT !.at = "writing", !.kind = "update", !.game = g, !.patch = patch, !.read = game[g]]
         ELSE [NewEdit EXCEPT !.at = "ended"]]
  /\ UNCHANGED <<game, version, link, wanted, refresh, snapshot, engine, engineVersion, skewed>>

\* The base game is refused before anything is read.
ReadsForDelete(e) ==
  /\ edit[e].at = "new"
  /\ \E g \in Games \ {Base} :
       edit' = [edit EXCEPT ![e] = IF game[g] # NoGame THEN [NewEdit EXCEPT !.at = "writing", !.kind = "delete", !.game = g]
                                                       ELSE [NewEdit EXCEPT !.at = "ended"]]
  /\ UNCHANGED <<game, version, link, wanted, refresh, snapshot, engine, engineVersion, skewed>>

\* PATCH /operators/:id/games/:gameId checks the game, then reads the link.
ReadsForLink(e) ==
  /\ edit[e].at = "new"
  /\ \E g \in Games, enabled \in {Nothing, "yes", "no"}, override \in Rtps \cup {-1, NoOverride} :
       /\ game[g] # NoGame
       /\ edit' = [edit EXCEPT ![e] = [NewEdit EXCEPT !.at = "writing", !.kind = "link", !.game = g,
            !.patch = [NoPatch EXCEPT !.enabled = enabled, !.override = override], !.link = link[g]]]
  /\ UNCHANGED <<game, version, link, wanted, refresh, snapshot, engine, engineVersion, skewed>>

-----------------------------------------------------------------------------
(* ... and write later. *)

\* Every write to games is followed by re-reading the active ones.
Wrote(e) == edit' = [edit EXCEPT ![e] = [NewEdit EXCEPT !.at = "reloading"]] /\ version' = version + 1

Creates(e) ==
  /\ edit[e].at = "new"
  /\ \E g \in Games, type \in GameTypes, rtp \in Rtps :
       /\ game[g] = NoGame
       /\ game' = [game EXCEPT ![g] = [status |-> "active", type |-> type, theme |-> type, rtp |-> rtp]]
  /\ Wrote(e)
  /\ UNCHANGED <<link, wanted, refresh, snapshot, engine, engineVersion, skewed>>

Patched(row, patch) ==
  [status |-> Given(patch.status, row.status), type |-> Given(patch.type, row.type),
   theme |-> Given(patch.theme, row.theme), rtp |-> IF patch.rtp = 0 THEN row.rtp ELSE patch.rtp]

\* UPDATE sets only what was given; of a row deleted meanwhile it sets nothing, and the
\* route fails after the reload.
Updates(e) ==
  /\ edit[e].at = "writing" /\ edit[e].kind = "update"
  /\ LET g == edit[e].game IN
     /\ game' = IF game[g] = NoGame THEN game ELSE [game EXCEPT ![g] = Patched(game[g], edit[e].patch)]
     /\ skewed' = (skewed \/ (game[g].type # edit[e].read.type \/ game[g].theme # edit[e].read.theme))
  /\ Wrote(e)
  /\ UNCHANGED <<link, wanted, refresh, snapshot, engine, engineVersion>>

\* The operator's link goes with the game (ON DELETE CASCADE).
Deletes(e) ==
  /\ edit[e].at = "writing" /\ edit[e].kind = "delete"
  /\ game' = [game EXCEPT ![edit[e].game] = NoGame]
  /\ link' = [link EXCEPT ![edit[e].game] = NoLink] /\ wanted' = [wanted EXCEPT ![edit[e].game] = NoLink]
  /\ Wrote(e)
  /\ UNCHANGED <<refresh, snapshot, engine, engineVersion, skewed>>

MergedForgetting(patch, old) ==
  [enabled |-> patch.enabled # "no", override |-> IF patch.override = -1 THEN NoOverride ELSE patch.override]

\* What is not given is kept; a new link is enabled and inherits.
Merged(patch, old) ==
  [enabled |-> CASE patch.enabled = "yes" -> TRUE [] patch.enabled = "no" -> FALSE [] OTHER -> old = NoLink \/ old.enabled,
   override |-> IF patch.override # -1 THEN patch.override ELSE IF old = NoLink THEN NoOverride ELSE old.override]

\* What an admin means by a patch: the rest stays as it is.
Applied(patch, now) ==
  [enabled |-> patch.enabled = "yes" \/ (patch.enabled = Nothing /\ (now.enabled \/ now = NoLink)),
   override |-> IF patch.override # -1 THEN patch.override ELSE IF now = NoLink THEN NoOverride ELSE now.override]

\* The upsert writes both columns from what was read; a game deleted meanwhile breaks it.
Links(e) ==
  /\ edit[e].at = "writing" /\ edit[e].kind = "link"
  /\ LET g == edit[e].game IN
     IF game[g] = NoGame THEN UNCHANGED <<link, wanted, skewed>>
     ELSE /\ link' = [link EXCEPT ![g] = Merged(edit[e].patch, edit[e].link)]
          /\ wanted' = [wanted EXCEPT ![g] = Applied(edit[e].patch, wanted[g])]
          /\ skewed' = (skewed \/ link[g] # edit[e].link)
  /\ edit' = [edit EXCEPT ![e] = [NewEdit EXCEPT !.at = "ended"]]
  /\ UNCHANGED <<game, version, refresh, snapshot, engine, engineVersion>>

\* An edit's own reload (its SELECT and its assignment are told apart only for the timer).
Reloads(e) ==
  /\ edit[e].at = "reloading" /\ snapshot' = Active
  /\ edit' = [edit EXCEPT ![e].at = "ended"]
  /\ UNCHANGED <<game, version, link, wanted, refresh, engine, engineVersion, skewed>>

-----------------------------------------------------------------------------
(* The timer: runs may overlap. *)

TimerReads(t) ==
  /\ refresh[t].at = "new"
  /\ refresh' = [refresh EXCEPT ![t] = [at |-> "read", rows |-> Active, version |-> version]]
  /\ UNCHANGED <<game, version, link, wanted, edit, snapshot, engine, engineVersion, skewed>>

\* startAllEngines: one engine per active game and one for the base game, the rest stop.
\* With no active game at all, or the base game not among them, it runs with the default.
EnginesFor(rows, old) ==
  [g \in Games |-> IF rows[g] # NoGame THEN rows[g].rtp ELSE IF g = Base THEN DefaultRtp ELSE 0]

TimerInstalls(t) ==
  /\ refresh[t].at = "read"
  /\ snapshot' = refresh[t].rows
  /\ engine' = EnginesFor(refresh[t].rows, engine) /\ engineVersion' = refresh[t].version
  /\ refresh' = [refresh EXCEPT ![t] = [NewRefresh EXCEPT !.at = "done"]]
  /\ UNCHANGED <<game, version, link, wanted, edit, skewed>>

-----------------------------------------------------------------------------
\* Boot seeds the base game, reads the snapshot and starts the engines.
CatalogueInit ==
  /\ \E type \in GameTypes :
       game = [g \in Games |-> IF g = Base THEN [status |-> "active", type |-> type, theme |-> type, rtp |-> DefaultRtp] ELSE NoGame]
  /\ version = 0 /\ link = [g \in Games |-> NoLink] /\ wanted = [g \in Games |-> NoLink]
  /\ edit = [e \in Edits |-> NewEdit] /\ refresh = [t \in 1..MaxRefreshes |-> NewRefresh]
  /\ snapshot = Active /\ engine = [g \in Games |-> IF g = Base THEN DefaultRtp ELSE 0]
  /\ engineVersion = 0 /\ skewed = FALSE

CatalogueNext ==
  \/ \E e \in Edits : \/ ReadsForUpdate(e) \/ ReadsForDelete(e) \/ ReadsForLink(e)
                      \/ Creates(e) \/ Updates(e) \/ Deletes(e) \/ Links(e) \/ Reloads(e)
  \/ \E t \in 1..MaxRefreshes : TimerReads(t) \/ TimerInstalls(t)

CatalogueSpec == CatalogueInit /\ [][CatalogueNext]_catalogueVars

-----------------------------------------------------------------------------
(* Properties *)

\* If no request wrote over what it had not read, every theme fits its game's type and
\* every link is what the patches amount to: a game disabled for an operator stays so.
EditsAreKept ==
  ~skewed => /\ \A g \in Games : game[g].theme = game[g].type
             /\ link = wanted

\* Engines that know of every write run exactly the active games at their rtp, and the
\* base game; the base game's engine never stops.
EnginesFollow ==
  /\ engine[Base] # 0
  /\ engineVersion = version =>
       \A g \in Games : (g # Base \/ Active[g] # NoGame) => engine[g] = Active[g].rtp

\* What the catalogue promises of its rows, its rights and its engines.
CatalogueIsRight == EditsAreKept /\ EnginesFollow
=============================================================================
