--------------------------- MODULE OperatorSessions ---------------------------
(***************************************************************************)
(* The operator-backed sessions of one player: minted by GET /launch after *)
(* the operator authenticated the player, joined by sockets, used to place *)
(* bets, and ended by the operator, one by one (terminate) or all that     *)
(* ever bet (player lock).  What a bet does is OperatorBets' matter: here  *)
(* it is in the air, seated in a round, being voided, or over.             *)
(***************************************************************************)
EXTENDS Integers, FiniteSets

CONSTANTS
  Sessions,     \* sessions, each made by one launch
  Terminations, \* requests to terminate a session or lock the player
  MaxGateMoves  \* bound on the operator being paused, or its game disabled, and back

VARIABLES
  gateOpen,  \* the operator is active and the game enabled for it
  gateMoves,
  launch,    \* progress of the launch: "none", "checked", "authenticated", "refused", "minted"
  stored,    \* sessions whose row is in the store
  joining,   \* joins between reading the session and attaching the socket
  attached,  \* sessions with a socket
  seat,      \* the session's bet: "none", "inAir", "seated", "voiding", "over"
  logged,    \* sessions with a row in bet_log
  term,      \* [at, todo, current, scope] of each termination
  late       \* history: sessions something of which was under way when their row was deleted
sessionVars == <<gateOpen, gateMoves, launch, stored, joining, attached, seat, logged, term, late>>

NewTerm == [at |-> "new", todo |-> {}, current |-> {}, scope |-> {}]

-----------------------------------------------------------------------------
(* GET /launch *)

GateMoves ==
  /\ gateMoves < MaxGateMoves /\ gateMoves' = gateMoves + 1 /\ gateOpen' = ~gateOpen
  /\ UNCHANGED <<launch, stored, joining, attached, seat, logged, term, late>>

\* Wallet client, game and the operator's right to it, before the operator is asked.
LaunchChecks(s) ==
  /\ launch[s] = "none"
  /\ launch' = [launch EXCEPT ![s] = IF gateOpen THEN "checked" ELSE "refused"]
  /\ UNCHANGED <<gateOpen, gateMoves, stored, joining, attached, seat, logged, term, late>>

\* The token may be refused, and the currency must be the requested one.
LaunchAuthenticates(s) ==
  /\ launch[s] = "checked"
  /\ \E answer \in {"authenticated", "refused"} : launch' = [launch EXCEPT ![s] = answer]
  /\ UNCHANGED <<gateOpen, gateMoves, stored, joining, attached, seat, logged, term, late>>

LaunchMints(s) ==
  /\ launch[s] = "authenticated"
  /\ launch' = [launch EXCEPT ![s] = "minted"] /\ stored' = stored \cup {s}
  /\ UNCHANGED <<gateOpen, gateMoves, joining, attached, seat, logged, term, late>>

-----------------------------------------------------------------------------
(* The player: join, and place_bet. *)

KnownOnce(s) == launch[s] = "minted"
Known(s) == s \in stored

JoinReads(s) ==
  /\ Known(s) /\ s \notin joining /\ joining' = joining \cup {s}
  /\ UNCHANGED <<gateOpen, gateMoves, launch, stored, attached, seat, logged, term, late>>

JoinAttaches(s) ==
  /\ s \in joining /\ joining' = joining \ {s} /\ attached' = attached \cup {s}
  /\ UNCHANGED <<gateOpen, gateMoves, launch, stored, seat, logged, term, late>>

Disconnects(s) ==
  /\ s \in attached /\ attached' = attached \ {s}
  /\ UNCHANGED <<gateOpen, gateMoves, launch, stored, joining, seat, logged, term, late>>

\* The session is read, the row logged and /bet sent; the client must still be given out.
BetBegins(s) ==
  /\ Known(s) /\ seat[s] \in {"none", "over"} /\ gateOpen
  /\ seat' = [seat EXCEPT ![s] = "inAir"] /\ logged' = logged \cup {s}
  /\ UNCHANGED <<gateOpen, gateMoves, launch, stored, joining, attached, term, late>>

\* An accepted bet attaches its socket and takes its seat; the session is not read again.
BetAnswered(s) ==
  /\ seat[s] = "inAir"
  /\ \/ seat' = [seat EXCEPT ![s] = "seated"] /\ attached' = attached \cup {s}
     \/ seat' = [seat EXCEPT ![s] = "over"] /\ UNCHANGED attached
  /\ UNCHANGED <<gateOpen, gateMoves, launch, stored, joining, logged, term, late>>

\* Cashed out, or lost with the round.
BetPlayed(s) ==
  /\ seat[s] = "seated" /\ seat' = [seat EXCEPT ![s] = "over"]
  /\ UNCHANGED <<gateOpen, gateMoves, launch, stored, joining, attached, logged, term, late>>

-----------------------------------------------------------------------------
(* terminateOneSession, and the two routes around it. *)

\* 404 for a session that is not there.
TerminateBegins(t, s) ==
  /\ term[t].at = "new" /\ Known(s)
  /\ term' = [term EXCEPT ![t] = [at |-> "working", todo |-> {s}, current |-> {}, scope |-> {s}]]
  /\ UNCHANGED <<gateOpen, gateMoves, launch, stored, joining, attached, seat, logged, late>>

\* The sessions are found in bet_log: one that never bet is not among them.
LockBegins(t) ==
  /\ term[t].at = "new" /\ logged # {}
  /\ term' = [term EXCEPT ![t] = [at |-> "working", todo |-> logged, current |-> {}, scope |-> logged]]
  /\ UNCHANGED <<gateOpen, gateMoves, launch, stored, joining, attached, seat, logged, late>>

\* A live bet is marked and its rollback awaited; with none the sockets close at once.
ListsBets(t, s) ==
  /\ term[t].at = "working" /\ s \in term[t].todo
  /\ IF seat[s] = "seated"
     THEN /\ seat' = [seat EXCEPT ![s] = "voiding"] /\ UNCHANGED attached
          /\ term' = [term EXCEPT ![t].at = "voiding", ![t].todo = @ \ {s}, ![t].current = {s}]
     ELSE /\ attached' = attached \ {s} /\ UNCHANGED seat
          /\ term' = [term EXCEPT ![t].at = "deleting", ![t].todo = @ \ {s}, ![t].current = {s}]
  /\ UNCHANGED <<gateOpen, gateMoves, launch, stored, joining, logged, late>>

\* Whether the void succeeded or threw, the sockets are closed; another request may
\* be voiding nothing and closing the same sockets.
ClosesSockets(t) ==
  /\ term[t].at = "voiding"
  /\ seat' = [s \in Sessions |-> IF s \in term[t].current THEN "over" ELSE seat[s]]
  /\ attached' = attached \ term[t].current
  /\ term' = [term EXCEPT ![t].at = "deleting"]
  /\ UNCHANGED <<gateOpen, gateMoves, launch, stored, joining, logged, late>>

UnderWay(s) == s \in joining \/ s \in attached \/ seat[s] \in {"inAir", "seated"}

DeletesRow(t) ==
  /\ term[t].at = "deleting"
  /\ stored' = stored \ term[t].current
  /\ late' = late \cup {s \in term[t].current \cap stored : UnderWay(s)}
  /\ term' = [term EXCEPT ![t].at = IF term[t].todo = {} THEN "done" ELSE "working", ![t].current = {}]
  /\ UNCHANGED <<gateOpen, gateMoves, launch, joining, attached, seat, logged>>

-----------------------------------------------------------------------------
SessionsInit ==
  /\ gateOpen = TRUE /\ gateMoves = 0 /\ launch = [s \in Sessions |-> "none"]
  /\ stored = {} /\ joining = {} /\ attached = {} /\ seat = [s \in Sessions |-> "none"]
  /\ logged = {} /\ term = [t \in Terminations |-> NewTerm] /\ late = {}

SessionsNext ==
  \/ GateMoves
  \/ \E s \in Sessions :
       \/ LaunchChecks(s) \/ LaunchAuthenticates(s) \/ LaunchMints(s)
       \/ JoinReads(s) \/ JoinAttaches(s) \/ Disconnects(s) \/ BetBegins(s) \/ BetAnswered(s) \/ BetPlayed(s)
  \/ \E t \in Terminations :
       \/ LockBegins(t) \/ ClosesSockets(t) \/ DeletesRow(t)
       \/ \E s \in Sessions : TerminateBegins(t, s) \/ ListsBets(t, s)

SessionsSpec == SessionsInit /\ [][SessionsNext]_sessionVars

-----------------------------------------------------------------------------
(* Properties *)

\* Once the 204 is sent the session is out: its row is gone for good, no socket is
\* attached to it and no bet of it in play, unless one of these was already under
\* way when the row was deleted (a join that had read it, a /bet not yet answered).
TerminationHolds ==
  /\ \A t \in Terminations : term[t].at = "done" => term[t].scope \cap stored = {}
  /\ \A s \in Sessions :
       (launch[s] = "minted" /\ s \notin stored /\ s \notin late) => ~UnderWay(s)
=============================================================================
