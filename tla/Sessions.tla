------------------------------ MODULE Sessions ------------------------------
(* Requests to one market that run at the same time: the coroutines of the   *)
(* server take turns at every await, the market's asyncio.Lock orders what   *)
(* the matching engine does, and PostgreSQL (READ COMMITTED) orders writers  *)
(* of one row by row locks that last until the transaction ends.             *)
(*                                                                           *)
(* A resting order is a bid for NO shares of the user "maker", a taker is an *)
(* IOC bid of another user, named by its key, for one YES share; every fill  *)
(* is a MINT that takes one unit of frozen money from each side.  Prices and *)
(* fees are Exchange's.                                                      *)
(*                                                                           *)
(* tx[s].at is the statement session s executes next and tx[s].w what its    *)
(* transaction has written: DOMAIN tx[s].w are the rows it has locked.  A    *)
(* statement that writes several rows waits until it can have all of them.   *)
(* A read outside the lock and the wait for the lock that follows it are one *)
(* step: what happens between them can as well happen during the wait.       *)
EXTENDS Collections, Functions, Relation

CONSTANTS
  Sessions,    \* requests the server handles at the same time
  Endpoints,   \* of {"place", "cancel", "replace", "batch_cancel", "resolve"}
  SellKeys,    \* client_order_ids with which the maker places orders
  NewKeys,     \* client_order_ids with which it replaces them
  BuyKeys,     \* client_order_ids of the takers' orders
  Ids,         \* order ids; bounds the rows of orders
  Lot,         \* quantity of a resting order
  MakerCash,   \* money of the maker; every taker has one unit
  Elsewhere,   \* money of the maker that orders in other markets have frozen
  None

ASSUME SessionsAssumption ==
  /\ Lot \in Nat \ {0} /\ {MakerCash, Elsewhere} \subseteq Nat
  /\ (SellKeys \cup NewKeys) \cap BuyKeys = {}
  /\ None \notin Ids \cup SellKeys \cup NewKeys \cup BuyKeys
ASSUME IdsAssumption == IsFiniteSet(Ids)
\* Rows of different tables are different.
ASSUME RowsAssumption ==
  /\ Ids \cap BuyKeys = {}
  /\ {"market", "shares", "maker"} \cap (Ids \cup BuyKeys) = {}

VARIABLES
  db,       \* committed rows
  trades,   \* committed rows of trades, as pairs <<maker's order, taker's order>>
  tx,       \* the request of each session and its transaction
  book,     \* MatchingEngine._orderbooks[market]: the one price level, in time order
  queue     \* the market's asyncio.Lock: its holder, then those who wait for it

vars == <<db, trades, tx, book, queue>>

MakerKeys == SellKeys \cup NewKeys
Keys == MakerKeys \cup BuyKeys
Users == {"maker"} \cup BuyKeys
Rows == {"market", "shares"} \cup Users \cup Ids

User(key) == IF key \in MakerKeys THEN "maker" ELSE key
Quantity(key) == IF key \in MakerKeys THEN Lot ELSE 1

IsOrder(row) == row.status # "NONE"
Active(row) == row.status \in {"OPEN", "PARTIALLY_FILLED"}
Remaining(row) == Quantity(row.key) - row.filled

NoOrder == [key |-> None, filled |-> 0, status |-> "NONE"]
Empty == [x \in {} |-> x]

\* One row with what is written to it, and rows over those written before
Row(r, v) == [x \in {r} |-> v]
Over(new, old) ==
  [x \in DOMAIN new \cup DOMAIN old |-> IF x \in DOMAIN new THEN new[x] ELSE old[x]]

Idle == [at |-> "idle", key |-> None, id |-> None, fill |-> None,
         sets |-> 0, paid |-> 0, copy |-> Empty, w |-> Empty]

Init ==
  /\ db = [r \in Rows |->
             CASE r = "market" -> [status |-> "ACTIVE", sets |-> 0]
               [] r = "shares" -> 0
               [] r = "maker" -> [avail |-> MakerCash, frozen |-> Elsewhere]
               [] r \in BuyKeys -> [avail |-> 1, frozen |-> 0]
               [] OTHER -> NoOrder]
  /\ trades = {}
  /\ tx = [s \in Sessions |-> Idle]
  /\ book = <<>>
  /\ queue = <<>>

-----------------------------------------------------------------------------
(* PostgreSQL.                                                               *)

\* What a statement of s reads: its own writes, else what is committed.
Val(s, row) == IF row \in DOMAIN tx[s].w THEN tx[s].w[row] ELSE db[row]

\* The committed orders of the market that can still be matched.
OpenIds == {i \in Ids : Active(db[i])}

\* Faulty: the market row is read without FOR UPDATE.
MarketSelectPlain == {}

\* The rows that _GET_MARKET_SQL, a SELECT ... FOR UPDATE, locks.
MarketSelectLocks == {"market"}

\* The order resolve_market cancels next: its query has no ORDER BY.
NextOpen(copy) == IF DOMAIN copy = {} THEN {} ELSE {CHOOSE i \in DOMAIN copy : TRUE}

\* The rows the statement at which s stands writes or locks.
Wants(s) ==
  LET t == tx[s]
  IN CASE t.at = "freeze"        -> {User(t.key)}
       [] t.at = "save"          -> {t.id}
       [] t.at = "lock_market"   -> MarketSelectLocks
       [] t.at = "settle"        -> {"maker", t.key, "shares"}
       [] t.at = "write_maker"   -> {t.fill}
       [] t.at = "finalize"      -> {"market"}
       [] t.at = "unfreeze"      -> {"maker"}
       [] t.at = "write_back"    -> DOMAIN t.copy
       [] t.at = "bulk_unfreeze" -> {"maker"}
       [] t.at = "cancel_open"   -> NextOpen(t.copy) \cup {"maker"}
       [] t.at = "clear"         -> {"shares", "maker"}
       [] t.at = "settle_market" -> {"market"}
       [] OTHER                  -> {}

\* An INSERT waits for the end of a transaction that has inserted the same
\* (client_order_id, user_id): uq_orders_client_order_id.
SameKey(s, t) ==
  /\ tx[s].at = "save"
  /\ \E i \in Ids \cap DOMAIN tx[t].w : ~IsOrder(db[i]) /\ tx[t].w[i].key = tx[s].key

Locked(s, rows) == {t \in Sessions \ {s} : DOMAIN tx[t].w \cap rows # {}}
Blockers(s) == Locked(s, Wants(s)) \cup {t \in Sessions \ {s} : SameKey(s, t)}

\* tx[s] when a statement has written w and the next one is at.
Wrote(s, w, at) == [tx[s] EXCEPT !.w = Over(w, @), !.at = at]

\* A statement of s that stands at this label can run.
Runs(s, at) == tx[s].at = at /\ Blockers(s) = {}

Holds(s) == queue # <<>> /\ Head(queue) = s
Waits(s) == s \in Range(queue) /\ ~Holds(s)
Release(s) == queue' = IF Holds(s) THEN Tail(queue) ELSE queue

-----------------------------------------------------------------------------
(* An error: the transaction is rolled back, the market's lock released.     *)
(* place_order, cancel_order and replace_order also drop the book;           *)
(* batch_cancel and resolve_market leave it as it is.                        *)

EngineSteps == {"check", "freeze", "save", "lock_market", "settle", "read_maker",
                "write_maker", "finalize", "unfreeze", "write_back"}

\* Faulty: the book is kept when the transaction is rolled back.
FailKeepingBook(s) ==
  /\ tx' = [tx EXCEPT ![s] = Idle]
  /\ Release(s)
  /\ UNCHANGED <<db, trades, book>>

Fail(s) ==
  /\ book' = IF tx[s].at \in EngineSteps THEN <<>> ELSE book
  /\ tx' = [tx EXCEPT ![s] = Idle]
  /\ Release(s)
  /\ UNCHANGED <<db, trades>>

\* The request of s is a replacement of the order it has read.
Replacing(s) == tx[s].key # None /\ tx[s].copy # Empty

\* A risk rule refuses the order: place_order takes this like any exception,
\* replace_order raises the AppError again without dropping the book.
Refuse(s) ==
  /\ book' = IF Replacing(s) THEN book ELSE <<>>
  /\ tx' = [tx EXCEPT ![s] = Idle]
  /\ Release(s)
  /\ UNCHANGED <<db, trades>>

\* Faulty: nothing keeps frozen_balance from going below zero.
UnfreezableAlways(s, n) == TRUE

\* CHECK constraint ck_accounts_frozen_gte_0.
Unfreezable(s, n) == Val(s, "maker").frozen >= n
Unfrozen(row, n) == [avail |-> row.avail + n, frozen |-> row.frozen - n]

-----------------------------------------------------------------------------
(* place_order.                                                              *)

Fresh(i) ==
  /\ ~IsOrder(db[i])
  /\ \A s \in Sessions : tx[s].id # i
  /\ \A n \in 1 .. Len(book) : book[n].id # i

\* The lookup by client_order_id finds nothing (else the existing order is
\* the answer) and the request queues for the market's lock.
Place(s, key) ==
  /\ "place" \in Endpoints /\ tx[s].at = "idle"
  /\ \A i \in Ids : db[i].key # key
  /\ \E i \in Ids : Fresh(i)
  /\ tx' = [tx EXCEPT ![s] = [Idle EXCEPT !.at = "check", !.key = key,
                                          !.id = CHOOSE i \in Ids : Fresh(i)]]
  /\ queue' = Append(queue, s)
  /\ UNCHANGED <<db, trades, book>>

\* check_market_active: a plain read.
CheckMarket(s) ==
  /\ tx[s].at = "check" /\ Holds(s)
  /\ \/ /\ db["market"].status = "ACTIVE"
        /\ tx' = [tx EXCEPT ![s].at = "freeze"]
        /\ UNCHANGED <<db, trades, book, queue>>
     \/ db["market"].status # "ACTIVE" /\ Refuse(s)

\* check_and_freeze: UPDATE accounts ... WHERE available_balance >= amount.
Freeze(s) ==
  /\ Runs(s, "freeze")
  /\ LET u == User(tx[s].key)
         n == Quantity(tx[s].key)
         row == Val(s, u)
     IN \/ /\ row.avail >= n
           /\ tx' = [tx EXCEPT ![s] =
                       Wrote(s, Row(u, [avail |-> row.avail - n, frozen |-> row.frozen + n]), "save")]
           /\ UNCHANGED <<db, trades, book, queue>>
        \/ row.avail < n /\ Refuse(s)

NewRow(key) == [key |-> key, filled |-> 0, status |-> "OPEN"]

\* Faulty: the table has no unique index on the key.
SaveAnyway(s) ==
  /\ Runs(s, "save")
  /\ tx' = [tx EXCEPT ![s] =
       Wrote(s, Row(tx[s].id, NewRow(tx[s].key)), "lock_market")]
  /\ UNCHANGED <<db, trades, book, queue>>

\* repo.save: an INSERT that another row with the key makes fail.
Save(s) ==
  /\ Runs(s, "save")
  /\ \/ /\ \A i \in Ids : db[i].key # tx[s].key
        /\ tx' = [tx EXCEPT ![s] =
             Wrote(s, Row(tx[s].id, NewRow(tx[s].key)), "lock_market")]
        /\ UNCHANGED <<db, trades, book, queue>>
     \/ (\E i \in Ids : db[i].key = tx[s].key) /\ Fail(s)

\* The market row is read, and match_order runs before the next await.  The
\* row's status is not looked at again.
LockAndMatch(s) ==
  /\ Runs(s, "lock_market")
  /\ LET t == [Wrote(s, [r \in MarketSelectLocks |-> Val(s, r)], "finalize") EXCEPT
                  !.sets = Val(s, "market").sets]
     IN IF tx[s].key \in BuyKeys /\ book # <<>>
        THEN /\ tx' = [tx EXCEPT ![s] = [t EXCEPT !.at = "settle", !.fill = Head(book).id]]
             /\ book' = IF Head(book).qty = 1 THEN Tail(book)
                        ELSE [book EXCEPT ![1].qty = @ - 1]
        ELSE tx' = [tx EXCEPT ![s] = t] /\ UNCHANGED book
  /\ UNCHANGED <<db, trades, queue>>

\* clear_mint takes the frozen money of both sides and gives each a share;
\* the taker's row is written (update_status) and the trade recorded.
Settle(s) ==
  /\ Runs(s, "settle")
  /\ \/ /\ Unfreezable(s, 1)
        /\ LET paid == [u \in {"maker", tx[s].key} |-> [Val(s, u) EXCEPT !.frozen = @ - 1]]
               row == [Val(s, tx[s].id) EXCEPT !.filled = 1, !.status = "FILLED"]
               w == Over(paid, Over(Row("shares", Val(s, "shares") + 1), Row(tx[s].id, row)))
           IN tx' = [tx EXCEPT ![s] = [Wrote(s, w, "read_maker") EXCEPT !.sets = @ + 1]]
        /\ UNCHANGED <<db, trades, book, queue>>
     \/ ~Unfreezable(s, 1) /\ Fail(s)

\* _update_maker_status reads the maker's row ...
ReadMaker(s) ==
  /\ Runs(s, "read_maker")
  /\ tx' = [tx EXCEPT ![s] = [@ EXCEPT !.at = "write_maker",
                                        !.copy = Row(tx[s].fill, Val(s, tx[s].fill))]]
  /\ UNCHANGED <<db, trades, book, queue>>

\* ... and writes every column of it back.
WriteMaker(s) ==
  /\ Runs(s, "write_maker")
  /\ LET old == tx[s].copy[tx[s].fill]
         new == [old EXCEPT !.filled = @ + 1,
                            !.status = IF Remaining(old) <= 1 THEN "FILLED" ELSE "PARTIALLY_FILLED"]
     IN tx' = [tx EXCEPT ![s] = Wrote(s, Row(tx[s].fill, new), "finalize")]
  /\ UNCHANGED <<db, trades, book, queue>>

\* _finalize_order rests a GTC order in the book or cancels an IOC order that
\* found nothing; the market row is written from the copy in memory, all
\* columns but its status.  The market's lock is released before the commit.
Finalize(s) ==
  /\ Runs(s, "finalize")
  /\ LET t == tx[s]
         row == Val(s, t.id)
         market == Row("market", [Val(s, "market") EXCEPT !.sets = t.sets])
         expired == Over(Row(t.id, [row EXCEPT !.status = "CANCELLED"]),
                         Row(t.key, Unfrozen(Val(s, t.key), 1)))
     IN /\ book' = IF t.key \in MakerKeys THEN Append(book, [id |-> t.id, qty |-> Lot]) ELSE book
        /\ tx' = [tx EXCEPT ![s] =
             Wrote(s, IF t.key \in BuyKeys /\ Active(row) THEN Over(market, expired) ELSE market, "commit")]
  /\ Release(s)
  /\ UNCHANGED <<db, trades>>

\* db.commit(), of any request.
Commit(s) ==
  /\ tx[s].at = "commit"
  /\ db' = Over(tx[s].w, db)
  /\ trades' = IF tx[s].fill = None THEN trades ELSE trades \cup {<<tx[s].fill, tx[s].id>>}
  /\ tx' = [tx EXCEPT ![s] = Idle]
  /\ UNCHANGED <<book, queue>>

-----------------------------------------------------------------------------
(* cancel_order and replace_order of the maker.                              *)

\* The row is read and found cancellable; then the request queues for the
\* market's lock with what it has read.
Cancel(s, i) ==
  /\ "cancel" \in Endpoints /\ tx[s].at = "idle"
  /\ Active(db[i])
  /\ tx' = [tx EXCEPT ![s] = [Idle EXCEPT !.at = "unfreeze", !.copy = Row(i, db[i])]]
  /\ queue' = Append(queue, s)
  /\ UNCHANGED <<db, trades, book>>

\* replace_order does the same with a row that has no fill, even a cancelled
\* one, and goes on under the same lock with the steps of place_order for the
\* new order.  There is no lookup by client_order_id.
Replace(s, i, key) ==
  /\ "replace" \in Endpoints /\ tx[s].at = "idle"
  /\ db[i].key \in MakerKeys /\ db[i].status # "FILLED" /\ db[i].filled = 0
  /\ \E n \in Ids : Fresh(n)
  /\ tx' = [tx EXCEPT ![s] = [Idle EXCEPT !.at = "unfreeze", !.copy = Row(i, db[i]), !.key = key,
                                          !.id = CHOOSE n \in Ids : Fresh(n)]]
  /\ queue' = Append(queue, s)
  /\ UNCHANGED <<db, trades, book>>

\* Faulty: the order stays in the book.
UnfreezeOnly(s) ==
  /\ Runs(s, "unfreeze") /\ Holds(s)
  /\ \E i \in DOMAIN tx[s].copy :
       /\ Unfreezable(s, Remaining(tx[s].copy[i]))
       /\ tx' = [tx EXCEPT ![s] =
            Wrote(s, Row("maker", Unfrozen(Val(s, "maker"), Remaining(tx[s].copy[i]))), "write_back")]
  /\ UNCHANGED <<db, trades, book, queue>>

\* ob.cancel_order and _unfreeze_remainder, by the remainder that was read.
Unfreeze(s) ==
  /\ Runs(s, "unfreeze") /\ Holds(s)
  /\ \E i \in DOMAIN tx[s].copy :
       LET n == Remaining(tx[s].copy[i])
       IN \/ /\ Unfreezable(s, n)
             /\ book' = Dropped(book, {i})
             /\ tx' = [tx EXCEPT ![s] =
                         Wrote(s, Row("maker", Unfrozen(Val(s, "maker"), n)), "write_back")]
             /\ UNCHANGED <<db, trades, queue>>
          \/ ~Unfreezable(s, n) /\ Fail(s)

\* Faulty: the market's lock is not released.
WriteBackHolding(s) ==
  /\ Runs(s, "write_back")
  /\ tx' = [tx EXCEPT ![s].at = "commit"]
  /\ UNCHANGED <<db, trades, book, queue>>

\* update_status writes every column as it was read, with status CANCELLED.
\* cancel_order then leaves the lock, replace_order places the new order.
WriteBack(s) ==
  /\ Runs(s, "write_back")
  /\ \E i \in DOMAIN tx[s].copy :
       tx' = [tx EXCEPT ![s] = Wrote(s, Row(i, [tx[s].copy[i] EXCEPT !.status = "CANCELLED"]),
                                     IF Replacing(s) THEN "check" ELSE "commit")]
  /\ IF Replacing(s) THEN UNCHANGED queue ELSE Release(s)
  /\ UNCHANGED <<db, trades, book>>

-----------------------------------------------------------------------------
(* batch_cancel of the maker's orders.                                       *)

MakerOpen == {i \in OpenIds : db[i].key \in MakerKeys}

\* SELECT ... FOR UPDATE takes the locks of the rows before the request
\* queues for the market's lock.  Without a row there is nothing to do.
BatchCancel(s) ==
  /\ "batch_cancel" \in Endpoints /\ tx[s].at = "idle"
  /\ MakerOpen # {} /\ Locked(s, MakerOpen) = {}
  /\ LET rows == [i \in MakerOpen |-> db[i]]
     IN tx' = [tx EXCEPT ![s] = [Idle EXCEPT !.at = "bulk_cancel", !.copy = rows, !.w = rows]]
  /\ queue' = Append(queue, s)
  /\ UNCHANGED <<db, trades, book>>

\* Under the market's lock the orders leave the book and their rows become
\* CANCELLED ...
BulkCancel(s) ==
  /\ tx[s].at = "bulk_cancel" /\ Holds(s)
  /\ book' = Dropped(book, DOMAIN tx[s].copy)
  /\ LET rows == [i \in DOMAIN tx[s].copy |-> [tx[s].w[i] EXCEPT !.status = "CANCELLED"]]
     IN tx' = [tx EXCEPT ![s] = Wrote(s, rows, "bulk_unfreeze")]
  /\ UNCHANGED <<db, trades, queue>>

\* ... and what they had frozen is given back in one UPDATE.
BulkUnfreeze(s) ==
  /\ Runs(s, "bulk_unfreeze")
  /\ LET rows == tx[s].copy
         n == SumOver([i \in DOMAIN rows |-> Remaining(rows[i])], DOMAIN rows)
     IN \/ /\ Unfreezable(s, n)
           /\ tx' = [tx EXCEPT ![s] =
                       Wrote(s, Row("maker", Unfrozen(Val(s, "maker"), n)), "commit")]
           /\ Release(s)
           /\ UNCHANGED <<db, trades, book>>
        \/ ~Unfreezable(s, n) /\ Fail(s)

-----------------------------------------------------------------------------
(* resolve_market of an administrator: no lock of the market is taken and    *)
(* the book is not told.  NO wins: the maker is paid.                        *)

Resolve(s) ==
  /\ "resolve" \in Endpoints /\ tx[s].at = "idle"
  /\ db["market"].status = "ACTIVE"
  /\ tx' = [tx EXCEPT ![s] = [Idle EXCEPT !.at = "read_open"]]
  /\ UNCHANGED <<db, trades, book, queue>>

\* _GET_OPEN_ORDERS_SQL: a plain read.
ReadOpen(s) ==
  /\ tx[s].at = "read_open"
  /\ tx' = [tx EXCEPT ![s] = [@ EXCEPT !.at = "cancel_open", !.copy = [i \in OpenIds |-> db[i]]]]
  /\ UNCHANGED <<db, trades, book, queue>>

\* _CANCEL_ORDER_SQL and _UNFREEZE_FUNDS_SQL for one of the orders read: the
\* status is set whatever it is now, and frozen_amount as read is given back.
CancelOpen(s) ==
  /\ Runs(s, "cancel_open")
  /\ \E i \in NextOpen(tx[s].copy) :
       LET n == Remaining(tx[s].copy[i])
           w == Over(Row(i, [Val(s, i) EXCEPT !.status = "CANCELLED"]),
                     Row("maker", Unfrozen(Val(s, "maker"), n)))
       IN \/ /\ Unfreezable(s, n)
             /\ tx' = [tx EXCEPT ![s] = [Wrote(s, w, "cancel_open") EXCEPT
                                           !.copy = Restrict(@, DOMAIN @ \ {i})]]
             /\ UNCHANGED <<db, trades, book, queue>>
          \/ ~Unfreezable(s, n) /\ Fail(s)

\* settle_market reads the positions ...
ReadPositions(s) ==
  /\ tx[s].at = "cancel_open" /\ DOMAIN tx[s].copy = {}
  /\ tx' = [tx EXCEPT ![s] = [@ EXCEPT !.at = "clear", !.paid = Val(s, "shares")]]
  /\ UNCHANGED <<db, trades, book, queue>>

\* ... pays the winning ones (2 units a share) and clears each ...
ClearPositions(s) ==
  /\ Runs(s, "clear")
  /\ LET w == Over(Row("maker", [Val(s, "maker") EXCEPT !.avail = @ + 2 * tx[s].paid]),
                   Row("shares", 0))
     IN tx' = [tx EXCEPT ![s] = Wrote(s, w, "settle_market")]
  /\ UNCHANGED <<db, trades, book, queue>>

\* ... and zeroes the market.
SettleMarket(s) ==
  /\ Runs(s, "settle_market")
  /\ tx' = [tx EXCEPT ![s] = Wrote(s, Row("market", [status |-> "SETTLED", sets |-> 0]), "commit")]
  /\ UNCHANGED <<db, trades, book, queue>>

-----------------------------------------------------------------------------
(* Failures.                                                                 *)

\* A statement of a request fails (the connection is lost).
StatementFails(s) ==
  /\ tx[s].at \notin {"idle", "commit"} /\ ~Waits(s)
  /\ Fail(s)

\* PostgreSQL ends a transaction that waits for itself through row locks.
WaitsFor == [s, t \in Sessions |-> t \in Blockers(s)]

DeadlockDetected(s) ==
  /\ Blockers(s) # {} /\ ~Waits(s)
  /\ TransitiveClosure(WaitsFor, Sessions)[s, s]
  /\ Fail(s)

\* The server is restarted: open transactions are rolled back, the book and
\* the lock are those of a new MatchingEngine.
Restart ==
  /\ tx' = [s \in Sessions |-> Idle]
  /\ book' = <<>>
  /\ queue' = <<>>
  /\ UNCHANGED <<db, trades>>

-----------------------------------------------------------------------------
Arrive(s) ==
  \/ \E key \in SellKeys \cup BuyKeys : Place(s, key)
  \/ \E i \in Ids : Cancel(s, i)
  \/ \E i \in Ids, key \in NewKeys : Replace(s, i, key)
  \/ BatchCancel(s)
  \/ Resolve(s)

Proceed(s) ==
  \/ CheckMarket(s) \/ Freeze(s) \/ Save(s) \/ LockAndMatch(s) \/ Settle(s)
  \/ ReadMaker(s) \/ WriteMaker(s) \/ Finalize(s)
  \/ Unfreeze(s) \/ WriteBack(s)
  \/ BulkCancel(s) \/ BulkUnfreeze(s)
  \/ ReadOpen(s) \/ CancelOpen(s) \/ ReadPositions(s) \/ ClearPositions(s) \/ SettleMarket(s)
  \/ Commit(s)
  \/ DeadlockDetected(s)

Next ==
  \/ \E s \in Sessions : Arrive(s) \/ Proceed(s) \/ StatementFails(s)
  \/ Restart

\* The event loop runs every coroutine that can run, and PostgreSQL grants a
\* row's lock in the order of waiting: no request is passed over for ever.
Spec == Init /\ [][Next]_vars /\ \A s \in Sessions : SF_vars(Proceed(s))

-----------------------------------------------------------------------------
(* Properties.                                                               *)

Labels == EngineSteps \cup {"idle", "commit", "bulk_cancel", "bulk_unfreeze", "read_open",
                            "cancel_open", "clear", "settle_market"}
Account == [avail : Nat, frozen : Nat]
OrderRow == [key : Keys \cup {None}, filled : 0 .. Lot,
             status : {"NONE", "OPEN", "PARTIALLY_FILLED", "FILLED", "CANCELLED"}]
RowTypeOK(r, v) ==
  CASE r = "market"  -> v \in [status : {"ACTIVE", "SETTLED"}, sets : Nat]
    [] r = "shares"  -> v \in Nat
    [] r \in Users   -> v \in Account
    [] OTHER         -> v \in OrderRow

\* Committed rows and those of open transactions satisfy the schema's CHECK
\* constraints, and only sessions with a request wait for the market's lock.
SessionTypeOK ==
  /\ DOMAIN db = Rows /\ \A r \in Rows : RowTypeOK(r, db[r])
  /\ trades \subseteq Ids \X Ids
  /\ \A s \in Sessions :
       /\ tx[s].at \in Labels
       /\ DOMAIN tx[s].w \subseteq Rows
       /\ \A r \in DOMAIN tx[s].w : RowTypeOK(r, tx[s].w[r])
  /\ \A n \in 1 .. Len(book) : book[n] \in [id : Ids, qty : 1 .. Lot]
  /\ \A s \in Range(queue) : tx[s].at \in Labels \ {"idle", "commit"}

\* However often and however concurrently a client_order_id is delivered, one
\* order is made of it (pm_order/application/service.py:72).
OneRowPerKey ==
  \A i, j \in Ids : IsOrder(db[i]) /\ IsOrder(db[j]) /\ db[i].key = db[j].key => i = j

TradesOf(i) == {t \in trades : i \in {t[1], t[2]}}

\* While the market is active its totals, the positions and the orders that
\* were not cancelled count every committed trade once, although each request
\* writes absolute values that it has read before (engine.py:208, :624).
NoLostUpdate ==
  db["market"].status = "ACTIVE" =>
    /\ db["market"].sets = Cardinality(trades)
    /\ db["shares"] = Cardinality(trades)
    /\ \A i \in Ids : IsOrder(db[i]) /\ db[i].status # "CANCELLED" =>
                        db[i].filled = Cardinality(TradesOf(i))

\* The market's lock is released before the commit, so that a request may run
\* next to one that has changed the book and not committed; when match_order
\* looks at the book of an active market, every order in it is nevertheless
\* a committed active row with the same remainder (engine.py:117, :156).
MatchSeesCommitted ==
  \A s \in Sessions : Runs(s, "lock_market") /\ db["market"].status = "ACTIVE" =>
    \A n \in 1 .. Len(book) :
      Active(db[book[n].id]) /\ Remaining(db[book[n].id]) = book[n].qty

\* No trade of an active market is committed with a maker's order that has
\* been committed as cancelled or filled.
NoTradeAfterCancel ==
  [][db["market"].status = "ACTIVE" => \A t \in trades' \ trades : Active(db[t[1]])]_vars

InBatchCancel(s) == tx[s].at \in {"bulk_cancel", "bulk_unfreeze"}

\* Every request ends, whoever waits for the market's lock and for row locks,
\* unless a batch_cancel is in progress (BatchCancelEnds).
RequestsEnd ==
  \A s \in Sessions : tx[s].at # "idle" ~> tx[s].at = "idle" \/ \E t \in Sessions : InBatchCancel(t)

-----------------------------------------------------------------------------
(* What the repository says of the code and the code does not keep to.       *)

\* 03 (order states) "FILLED, CANCELLED" cannot be cancelled: a row committed
\* as FILLED or CANCELLED stays as it is and no row loses a fill.
ClosedRowsStay ==
  [][\A i \in Ids : IsOrder(db[i]) =>
       /\ Active(db[i]) \/ db'[i] = db[i]
       /\ db'[i].filled >= db[i].filled]_vars

\* batch_cancel withdraws all active orders at once in an emergency: a
\* batch_cancel that has begun ends.
BatchCancelEnds ==
  \A s \in Sessions : InBatchCancel(s) ~> tx[s].at = "idle"

\* 03 (settle_market) stops trading, cancels all active orders and pays the
\* holders: nothing is open and nobody holds shares in a settled market.
SettledIsFinal ==
  db["market"].status = "SETTLED" =>
    OpenIds = {} /\ db["shares"] = 0 /\ db["market"].sets = 0
=============================================================================
