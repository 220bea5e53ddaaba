------------------------------- MODULE Listings -------------------------------
(***************************************************************************)
(* Walking a listing page by page while rows are added.  Rows stand for    *)
(* what a route lists: bets, transactions, audit rows and reconciliation   *)
(* runs by a (time, id) cursor; rounds and sessions, which are groups of   *)
(* bets, by the time of their newest bet; a player's history, two tables   *)
(* merged, by page number.                                                 *)
(***************************************************************************)
EXTENDS Integers, FiniteSets, FiniteSetsExt

CONSTANTS
  Rows,        \* rows, natural numbers: ids are compared
  GroupOf,     \* the round or session of a row
  StreamOf,    \* the table of a history row: 1 for sim_bets, 2 for league members
  PageLimit,   \* rows of a page
  LastNow      \* bound on time

ASSUME ListingsAssumption ==
  Rows \subseteq Nat /\ GroupOf \in [Rows -> Int] /\ PageLimit \in Nat \ {0} /\ LastNow \in Nat

VARIABLES
  now,      \* time
  written,  \* created_at of each row, or Unwritten
  present,  \* rows in the table: a row gets its time before it is inserted
  walk      \* [kind, cursor, page, shown, twice, start, done] of the reader
listingVars == <<now, written, present, walk>>

Unwritten == -1
Top == [at |-> LastNow + 1, id |-> 0]
Walking(kind) == [kind |-> kind, cursor |-> Top, page |-> 1, shown |-> {}, twice |-> FALSE,
                  start |-> present, done |-> FALSE]
NoWalk == [kind |-> "none", cursor |-> Top, page |-> 0, shown |-> {}, twice |-> FALSE, start |-> {}, done |-> TRUE]

NowPasses == now < LastNow /\ now' = now + 1 /\ UNCHANGED <<written, present, walk>>

StampRow(r) ==
  /\ written[r] = Unwritten /\ written' = [written EXCEPT ![r] = now]
  /\ UNCHANGED <<now, present, walk>>

InsertRow(r) ==
  /\ written[r] # Unwritten /\ r \notin present /\ present' = present \cup {r}
  /\ UNCHANGED <<now, written, walk>>

StartWalk ==
  /\ walk = NoWalk /\ \E kind \in {"rows", "groups", "history"} : walk' = Walking(kind)
  /\ UNCHANGED <<now, written, present>>

-----------------------------------------------------------------------------
(* Keyset pages: ORDER BY time DESC, id DESC LIMIT n below the cursor. *)

Below(k, cursor) == k.at < cursor.at \/ (k.at = cursor.at /\ k.id < cursor.id)

RowKeys == {[at |-> written[r], id |-> r] : r \in present}
RowsOfGroup(g) == {r \in present : GroupOf[r] = g}
GroupKeys == {[at |-> Max({written[r] : r \in RowsOfGroup(g)}), id |-> g] : g \in {GroupOf[r] : r \in present}}

KeysetPage(keys) ==
  LET left == {k \in keys : Below(k, walk.cursor)}
  IN  {k \in left : Cardinality({j \in left : Below(k, j)}) < PageLimit}

\* A full page has a next cursor, its last key; a shorter one ends the walk.
KeysetNext(keys) ==
  LET page == KeysetPage(keys)
      ids == {k.id : k \in page}
  IN  walk' = [walk EXCEPT
        !.shown = @ \cup ids, !.twice = @ \/ ids \cap walk.shown # {},
        !.done = Cardinality(page) < PageLimit,
        !.cursor = IF Cardinality(page) < PageLimit THEN @ ELSE CHOOSE k \in page : \A j \in page : j = k \/ Below(k, j)]

NextRows   == walk.kind = "rows"   /\ ~walk.done /\ KeysetNext(RowKeys)   /\ UNCHANGED <<now, written, present>>
NextGroups == walk.kind = "groups" /\ ~walk.done /\ KeysetNext(GroupKeys) /\ UNCHANGED <<now, written, present>>

-----------------------------------------------------------------------------
(* Offset pages of the player's history. *)

\* The orders ORDER BY created_at DESC allows: equal times in any order, the
\* first table's rows before the second's when the two are merged.
Orders ==
  {f \in [present -> 1..Cardinality(present)] :
     \A r, s \in present : r # s =>
       /\ f[r] # f[s]
       /\ written[r] > written[s] => f[r] < f[s]
       /\ (written[r] = written[s] /\ StreamOf[r] < StreamOf[s]) => f[r] < f[s]}

Offset == (walk.page - 1) * PageLimit
InStream(f, r) == Cardinality({s \in present : StreamOf[s] = StreamOf[r] /\ f[s] <= f[r]})

FetchedLimit(f) == {r \in present : InStream(f, r) <= PageLimit}

\* Each table gives its newest limit + offset rows.
Fetched(f) == {r \in present : InStream(f, r) <= PageLimit + Offset}

\* The merged rows, sorted, from offset to offset + limit.
HistoryPage(f) ==
  {r \in Fetched(f) : Cardinality({s \in Fetched(f) : f[s] < f[r]}) \in Offset..(Offset + PageLimit - 1)}

NextHistory ==
  /\ walk.kind = "history" /\ ~walk.done
  /\ \E f \in Orders :
       walk' = [walk EXCEPT
         !.shown = @ \cup HistoryPage(f), !.twice = @ \/ HistoryPage(f) \cap walk.shown # {},
         !.page = @ + 1, !.done = walk.page * PageLimit >= Cardinality(present)]
  /\ UNCHANGED <<now, written, present>>

-----------------------------------------------------------------------------
ListingsInit == now = 0 /\ written = [r \in Rows |-> Unwritten] /\ present = {} /\ walk = NoWalk

ListingsNext ==
  \/ NowPasses \/ StartWalk \/ NextRows \/ NextGroups \/ NextHistory
  \/ \E r \in Rows : StampRow(r) \/ InsertRow(r)

ListingsSpec == ListingsInit /\ [][ListingsNext]_listingVars

-----------------------------------------------------------------------------
(* Properties *)

\* A walk by cursor shows no row twice and misses none that was there when it
\* began, whatever was inserted meanwhile.
RowsAreWalked == walk.kind = "rows" => ~walk.twice /\ (walk.done => walk.start \subseteq walk.shown)

\* The same of groups, if none of their bets arrived during the walk: a round that
\* gets a bet moves ahead of the cursor and may be missed, but is not shown twice.
GroupsAreWalked ==
  walk.kind = "groups" =>
    /\ ~walk.twice
    /\ walk.done => \A r \in walk.start : RowsOfGroup(GroupOf[r]) \subseteq walk.start => GroupOf[r] \in walk.shown

\* Pages by number are exact only while nothing is added and no two rows of the
\* player share a time; the singles of one slip do.
HistoryIsWalked ==
  (walk.kind = "history" /\ present = walk.start /\ \A r, s \in present : r # s => written[r] # written[s])
    => ~walk.twice /\ (walk.done => walk.start \subseteq walk.shown)

\* A reader who follows a listing to its end has seen all of it, once.
ListingsAreWhole == RowsAreWalked /\ GroupsAreWalked /\ HistoryIsWalked
=============================================================================
