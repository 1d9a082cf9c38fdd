------------------------------ MODULE Listings ------------------------------
(***************************************************************************)
(* The lists a client pages through while the system goes on: a user's     *)
(* orders, a user's trades, and the markets.  Orders and trades are named  *)
(* by IdGenerator when their request starts or matches, and their rows     *)
(* become visible when the transaction commits, in any order; an order     *)
(* leaves a list filtered by status when it is closed.  Every page is one  *)
(* query, and the client sends next_cursor back until has_more is false.   *)
(***************************************************************************)
EXTENDS IdGenerator, FiniteSets

CONSTANTS
  Markets,   \* the seeded markets, with at = created_at
  Limits     \* the page sizes asked for

\* What a list needs of its rows
Row == [id : Nat, at : 0 .. MaxTime, open : BOOLEAN]

ASSUME LimitsAssumption == Limits \subseteq Nat \ {0}
ASSUME MarketsAssumption ==
  /\ IsFiniteSet(Markets)
  /\ Markets \subseteq Row
  /\ \A m, n \in Markets : m.id = n.id => m = n

VARIABLES
  drawn,     \* rows of transactions that have not ended
  rows,      \* the committed rows of each list
  client     \* the client that pages through a list

listVars == <<drawn, rows, client>>

Lists == {"orders", "trades", "markets"}
NoCursor == [at |-> MaxTime + 1, id |-> 0]
NoClient == [list |-> "none", limit |-> 0, filter |-> FALSE, cursor |-> NoCursor,
             seen |-> <<>>, wanted |-> {}, more |-> FALSE]

ListInit ==
  /\ Init
  /\ drawn = [orders |-> {}, trades |-> {}]
  /\ rows = [orders |-> {}, trades |-> {}, markets |-> Markets]
  /\ client = NoClient

-----------------------------------------------------------------------------
(* The queries.                                                              *)

\* ORDER BY id DESC for orders; executed_at, created_at first for the others.
Newer(list, a, b) ==
  IF list = "orders" THEN a.id > b.id
  ELSE a.at > b.at \/ (a.at = b.at /\ a.id > b.id)

\* Faulty: rows of the cursor's own time are taken to have been listed.
BeyondTime(list, row, cursor) ==
  \/ cursor = NoCursor
  \/ list = "markets" /\ row.at < cursor.at
  \/ list # "markets" /\ row.id < cursor.id

\* Faulty: the row the cursor names is listed again.
BeyondInclusive(list, row, cursor) ==
  cursor = NoCursor \/ row.id = cursor.id \/ Newer(list, cursor, row)

\* The rows after the cursor: id < :cursor_id for orders and trades; the pair
\* (created_at, id) that cursor_encode and cursor_decode carry for markets.
Beyond(list, row, cursor) ==
  \/ cursor = NoCursor
  \/ list = "markets" /\ (row.at < cursor.at \/ (row.at = cursor.at /\ row.id < cursor.id))
  \/ list # "markets" /\ row.id < cursor.id

\* The status filter; the list of trades has none.
Listed(list, row, filter) == list = "trades" \/ ~filter \/ row.open

\* q has the rows of the set S, the newest first.
Ordered(list, q, S) ==
  /\ \A i, j \in DOMAIN q : i < j => Newer(list, q[i], q[j])
  /\ S = {q[i] : i \in DOMAIN q}

Query(c) ==
  LET found == {r \in rows[c.list] : Listed(c.list, r, c.filter) /\ Beyond(c.list, r, c.cursor)}
  IN CHOOSE q \in [1 .. Cardinality(found) -> found] : Ordered(c.list, q, found)

\* next_cursor: the last row of the page.
NextCursor(found, limit) == [at |-> found[limit].at, id |-> found[limit].id]

\* LIMIT limit + 1 tells whether there is more than a page.
Paged(c) ==
  LET found == Query(c)
      more == Len(found) > c.limit
  IN [c EXCEPT !.seen = @ \o (IF more THEN SubSeq(found, 1, c.limit) ELSE found),
               !.more = more,
               !.cursor = IF more THEN NextCursor(found, c.limit) ELSE NoCursor]

\* The first page of a list; the client will want what is in it now.
OpenList(list, limit, filter) ==
  /\ ~client.more
  /\ list = "trades" => ~filter
  /\ client' = Paged([NoClient EXCEPT !.list = list, !.limit = limit, !.filter = filter,
                                      !.wanted = {r.id : r \in {x \in rows[list] : Listed(list, x, filter)}}])
  /\ UNCHANGED <<idVars, drawn, rows>>

\* The page after next_cursor.
NextPage ==
  /\ client.more
  /\ client' = Paged(client)
  /\ UNCHANGED <<idVars, drawn, rows>>

-----------------------------------------------------------------------------
(* The writers.                                                              *)

\* generate_id for an order or a trade; a call that waits for the next
\* millisecond returns no id yet.
Draw(list) ==
  /\ NextId
  /\ drawn' = IF Len(issued') = Len(issued) THEN drawn
              ELSE [drawn EXCEPT ![list] = @ \cup {[id |-> issued'[Len(issued')], at |-> now, open |-> TRUE]}]
  /\ UNCHANGED <<rows, client>>

\* The transaction commits ...
CommitRow(list) ==
  /\ \E r \in drawn[list] :
       /\ drawn' = [drawn EXCEPT ![list] = @ \ {r}]
       /\ rows' = [rows EXCEPT ![list] = @ \cup {r}]
  /\ UNCHANGED <<idVars, client>>

\* ... or is rolled back.
DropRow(list) ==
  /\ \E r \in drawn[list] : drawn' = [drawn EXCEPT ![list] = @ \ {r}]
  /\ UNCHANGED <<idVars, rows, client>>

\* An order is filled or cancelled, a market is resolved.
CloseRow(list) ==
  /\ \E r \in rows[list] :
       /\ r.open
       /\ rows' = [rows EXCEPT ![list] = (@ \ {r}) \cup {[r EXCEPT !.open = FALSE]}]
       /\ client' = IF client.list = list /\ client.filter
                    THEN [client EXCEPT !.wanted = @ \ {r.id}] ELSE client
  /\ UNCHANGED <<idVars, drawn>>

\* The clock, and a restart of the server, which ends open transactions.
Elapse ==
  \/ Tick /\ UNCHANGED listVars
  \/ Restart /\ drawn' = [orders |-> {}, trades |-> {}] /\ UNCHANGED <<rows, client>>

ListNext ==
  \/ \E list \in {"orders", "trades"} : Draw(list) \/ CommitRow(list) \/ DropRow(list)
  \/ \E list \in {"orders", "markets"} : CloseRow(list)
  \/ \E list \in Lists, limit \in Limits, filter \in BOOLEAN : OpenList(list, limit, filter)
  \/ NextPage
  \/ Elapse

ListSpec == ListInit /\ [][ListNext]_<<idVars, listVars>>

-----------------------------------------------------------------------------
\* A client that has come to the end of a list has seen every row that was in
\* it when it began and has been in it since, whatever was committed, closed
\* or named meanwhile (pm_order/application/service.py:163).
NothingSkipped ==
  ~client.more => client.wanted \subseteq {client.seen[i].id : i \in 1 .. Len(client.seen)}

\* The client sees rows newest first across pages, so none twice.
NewestFirst ==
  \A i, j \in 1 .. Len(client.seen) :
    i < j => Newer(client.list, client.seen[i], client.seen[j])
=============================================================================
