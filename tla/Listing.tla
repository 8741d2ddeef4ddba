------------------------------ MODULE Listing -------------------------------
(***************************************************************************)
(* Walking through a table page by page while it changes: the session      *)
(* list, the session search and the audit log, in the API and in the       *)
(* dashboard, all page newest first with a cursor that holds the last      *)
(* row's (timestamp, id) and a hash of the filter.  One client walks;      *)
(* sessions are submitted, change status, and audit rows are pruned, at    *)
(* any moment between two of its requests.                                 *)
(***************************************************************************)
EXTENDS Integers, FiniteSets, Sequences, SequencesExt, Ranking

CONSTANTS
    RowIds,         \* a set of integers: ids order arbitrarily against timestamps
    OwnerOf,        \* the owner (or audit actor) of each row
    Walkers,        \* the labels that list rows
    Admins,         \* subset of Walkers
    Views,          \* the endpoints in use
    PageLimit,      \* limit
    MaxTime         \* bound on the clock

ASSUME ListingAssumption ==
    /\ RowIds \subseteq Int /\ IsFiniteSet(RowIds)
    /\ Admins \subseteq Walkers
    /\ Views \subseteq {"list", "board", "search", "dash_search", "dash_list", "audit"}
    /\ PageLimit \in Nat \ {0} /\ MaxTime \in Nat

VARIABLES
    kind,       \* the table walked: "sessions" or "audit_log"
    time,
    table,      \* its rows
    walk        \* the client's walk

listingVars == <<kind, time, table, walk>>

NoFilter == "*"
Statuses == {"queued", "running"}
Filters == [status : Statuses \cup {NoFilter}, owner : Walkers \cup {NoFilter}]
NoRow == [st |-> "none", ts |-> 0, status |-> "queued"]
NoCursor == [ts |-> -1, id |-> 0, fh |-> [status |-> NoFilter, owner |-> NoFilter]]
NoWalk == [phase |-> "idle", view |-> "list", who |-> "none", ask |-> [status |-> NoFilter, owner |-> NoFilter],
           cursor |-> NoCursor, seen |-> << >>, under |-> {}, stable |-> {}]

\* Rows and page walks have their shapes.
ListingTypeOK ==
    /\ kind \in {"sessions", "audit_log"}
    /\ time \in 0..MaxTime
    /\ table \in [RowIds -> [st : {"none", "draft", "row", "pruned"}, ts : 0..MaxTime,
                             status : Statuses]]
    /\ walk.phase \in {"idle", "walking", "done", "refused"}
    /\ walk.view \in Views \cup {"list"} /\ walk.ask \in Filters
    /\ walk.seen \in Seq(RowIds) /\ walk.under \subseteq Filters /\ walk.stable \subseteq RowIds

ListingInit ==
    /\ kind \in {"sessions", "audit_log"}
    /\ time = 0
    /\ table = [i \in RowIds |-> NoRow]
    /\ walk = NoWalk

-----------------------------------------------------------------------------
(* The queries                                                             *)

Stored == {i \in RowIds : table[i].st = "row"}

Newer(i, j) == \/ table[i].ts > table[j].ts
               \/ table[i].ts = table[j].ts /\ i > j

\* What each endpoint makes of a request: the filter it queries under, whether
\* it refuses the request, and what it does with a cursor of another filter.
Plain(f) == [filter |-> f, refuses |-> FALSE, mismatch |-> "400"]

\* GET /sessions knows no owner.
ListSessionsEndpoint(who, ask) == Plain([ask EXCEPT !.owner = NoFilter])

\* The kanban board knows no filter.
KanbanBoard(who, ask) == Plain([status |-> NoFilter, owner |-> NoFilter])

\* Callers who are no admins are held to their own label.
Own(who, ask) == IF who \in Admins THEN ask ELSE [ask EXCEPT !.owner = who]
AsksForOthers(who, ask) == who \notin Admins /\ ask.owner \notin {NoFilter, who}

SearchEndpoint(who, ask) == [Plain(Own(who, ask)) EXCEPT !.refuses = AsksForOthers(who, ask)]

AuditEndpoint(who, ask) == [Plain(Own(who, ask)) EXCEPT !.refuses = AsksForOthers(who, ask)]

\* The dashboard's search form.
SearchResults(who, ask) == Plain(Own(who, ask))

\* The dashboard's list, which renders an empty last page for a stale cursor.
SessionsListView(who, ask) == [Plain(Own(who, ask)) EXCEPT !.mismatch = "empty"]

Endpoint(view, who, ask) ==
    CASE view = "list" -> ListSessionsEndpoint(who, ask)
      [] view = "board" -> KanbanBoard(who, ask)
      [] view = "search" -> SearchEndpoint(who, ask)
      [] view = "dash_search" -> SearchResults(who, ask)
      [] view = "dash_list" -> SessionsListView(who, ask)
      [] view = "audit" -> AuditEndpoint(who, ask)

Matches(i, f) == /\ f.status \in {NoFilter, table[i].status}
                 /\ f.owner \in {NoFilter, OwnerOf[i]}

(* Mutant: rows with the anchor's timestamp count as returned.             *)
BeyondTiesDropped(i, c) == c = NoCursor \/ table[i].ts < c.ts

Beyond(i, c) == c = NoCursor \/ table[i].ts < c.ts \/ (table[i].ts = c.ts /\ i < c.id)

\* ORDER BY ts DESC, id DESC LIMIT limit + 1: the extra row only tells whether
\* there is more.
PageOf(hits, f) ==
    LET found == Ranked(hits, {xy \in hits \X hits : Newer(xy[1], xy[2])})
        rows == SubSeq(found, 1, IF Len(found) > PageLimit THEN PageLimit ELSE Len(found))
    IN [rows |-> rows,
        next |-> IF Len(found) > PageLimit
                 THEN [ts |-> table[Last(rows)].ts, id |-> Last(rows), fh |-> f]
                 ELSE NoCursor]

ListSessions(f, c) ==
    PageOf({i \in Stored : f.status \in {NoFilter, table[i].status} /\ Beyond(i, c)}, f)

SearchSessions(f, c) == PageOf({i \in Stored : Matches(i, f) /\ Beyond(i, c)}, f)

ListAudit(f, c) == PageOf({i \in Stored : Matches(i, f) /\ Beyond(i, c)}, f)

Page(view, f, c) ==
    CASE view \in {"list", "board"} -> ListSessions(f, c)
      [] view \in {"search", "dash_search", "dash_list"} -> SearchSessions(f, c)
      [] view = "audit" -> ListAudit(f, c)

Mismatch(c, f) == c # NoCursor /\ c.fh # f

-----------------------------------------------------------------------------
(* The client                                                              *)

\* One GET.
Request(view, who, ask, c, seen, under, stable) ==
    LET e == Endpoint(view, who, ask)
        wrong == Mismatch(c, e.filter)
        bad == e.refuses \/ (wrong /\ e.mismatch = "400")
        p == Page(view, e.filter, c)
        rows == IF wrong \/ bad THEN << >> ELSE p.rows
        next == IF wrong \/ bad THEN NoCursor ELSE p.next
    IN walk' = [phase |-> IF bad THEN "refused" ELSE IF next = NoCursor THEN "done" ELSE "walking",
                view |-> view, who |-> who, ask |-> ask, cursor |-> next,
                seen |-> seen \o rows,
                under |-> IF rows = << >> THEN under ELSE under \cup {e.filter},
                stable |-> stable]

FirstPage(view, who, ask) ==
    /\ walk.phase = "idle" /\ (view = "audit") = (kind = "audit_log")
    /\ Request(view, who, ask, NoCursor, << >>, {},
               {i \in Stored : Matches(i, Endpoint(view, who, ask).filter)})
    /\ UNCHANGED <<time, table>>

NextPage ==
    /\ walk.phase = "walking"
    /\ Request(walk.view, walk.who, walk.ask, walk.cursor, walk.seen, walk.under, walk.stable)
    /\ UNCHANGED <<time, table>>

\* The client changes a filter and keeps the cursor.
SwitchFilter(ask) ==
    /\ walk.phase = "walking" /\ ask # walk.ask
    /\ Request(walk.view, walk.who, ask, walk.cursor, walk.seen, walk.under, {})
    /\ UNCHANGED <<time, table>>

-----------------------------------------------------------------------------
(* The table changes                                                       *)

\* create_session and record_audit read the clock before the INSERT commits.
Stamp(i) ==
    /\ table[i].st = "none"
    /\ table' = [table EXCEPT ![i].st = "draft", ![i].ts = time]
    /\ UNCHANGED <<time, walk>>

CommitRow(i) ==
    /\ table[i].st = "draft"
    /\ table' = [table EXCEPT ![i].st = "row"]
    /\ UNCHANGED <<time, walk>>

\* A row that stops matching, or goes away, need no longer be returned.
StartRunning(i) ==
    /\ kind = "sessions"
    /\ table[i].st = "row" /\ table[i].status = "queued"
    /\ table' = [table EXCEPT ![i].status = "running"]
    /\ walk' = [walk EXCEPT !.stable = IF walk.ask.status = NoFilter \/ walk.view = "board"
                                       THEN @ ELSE @ \ {i}]
    /\ UNCHANGED time

Prune(i) ==
    /\ kind = "audit_log"
    /\ table[i].st = "row" /\ table[i].ts < time
    /\ table' = [table EXCEPT ![i].st = "pruned"]
    /\ walk' = [walk EXCEPT !.stable = @ \ {i}]
    /\ UNCHANGED time

PassTime ==
    /\ time < MaxTime
    /\ time' = time + 1
    /\ UNCHANGED <<table, walk>>

ListingNext ==
    /\ UNCHANGED kind
    /\ \/ \E v \in Views, w \in Walkers, f \in Filters : FirstPage(v, w, f)
       \/ NextPage
       \/ \E f \in Filters : SwitchFilter(f)
       \/ \E i \in RowIds : Stamp(i) \/ CommitRow(i) \/ StartRunning(i) \/ Prune(i)
       \/ PassTime

ListingSpec == ListingInit /\ [][ListingNext]_listingVars

-----------------------------------------------------------------------------
(* What holds                                                              *)

\* Whatever is inserted, updated or pruned between two pages, the rows come
\* newest first and no row comes twice: the (timestamp, id) anchor with its
\* tiebreak, against timestamps that are taken before the row is committed.
NoRowTwice ==
    \A m, n \in 1..Len(walk.seen) : m < n => Newer(walk.seen[m], walk.seen[n])

\* A walk that reaches its last page has returned every row that was stored
\* when it began and matched its filter all along ("the dashboard cannot drop
\* or duplicate rows when a new session lands between two scroll-loads").
NothingSkipped ==
    walk.phase = "done" => walk.stable \subseteq ToSet(walk.seen)

\* A walk never mixes the rows of two filters, so one that was let in under a
\* caller's own label stays there: the hash in the cursor.
OneFilterPerWalk ==
    Cardinality(walk.under) <= 1

\* Page walks are exact: no row twice, no row skipped, one filter.
PagesInv == ListingTypeOK /\ NoRowTwice /\ NothingSkipped /\ OneFilterPerWalk

=============================================================================
