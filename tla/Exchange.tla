------------------------------ MODULE Exchange ------------------------------
(***************************************************************************)
(* One market of the exchange: MatchingEngine (pm_matching/engine/         *)
(* engine.py) over the in-memory book of OrderBook and the ledger of       *)
(* Clearing, with the orders table, the transaction around each request    *)
(* and the admin's resolve_market.                                         *)
(*                                                                         *)
(* Requests run one after another, as they do under the market's lock.  A  *)
(* request that matches is spread over several steps: accept, the          *)
(* iterations of match_order, one step for each fill cleared, finalize.    *)
(* The transaction's snapshot is kept in saved; an exception restores it   *)
(* and drops the book.                                                     *)
(***************************************************************************)
EXTENDS OrderBook, Clearing

CONSTANTS
  Requests,      \* the orders that may be requested
  MaxQuantity,   \* MAX_ORDER_QUANTITY (10000)
  Cash,          \* Cash[u]: what u has deposited and not spent
  Holdings       \* Holdings[u][s]: vol and cost of what u has bought

ASSUME ParIsAboveMaxPrice == Par = MaxPrice + 1
ASSUME MaxQuantityAssumption == MaxQuantity \in Nat \ {0}
ASSUME FiniteUsers == IsFiniteSet(Users)
ASSUME PlatformAssumption == Platform \notin Users
ASSUME AllTypesAssumption == BookTypes = AllBookTypes
ASSUME AllSizesAssumption == 1 .. MaxQuantity \subseteq Quantities
ASSUME RequestsAssumption ==
  Requests \subseteq [user : Users, side : Outcomes, direction : Sides,
                     price : Int, qty : Int, tif : {"GTC", "IOC"}]
ASSUME CashAssumption == Cash \in [Users -> Nat]
ASSUME HoldingsAssumption == Holdings \in [Users -> [Outcomes -> [vol : Nat, cost : Nat]]]
\* The shares come in pairs, and each pair has been paid for.
ASSUME PairsAssumption ==
  LET held(s) == SumOver([u \in Users |-> Holdings[u][s].vol], Users)
      paid == SumOver([u \in Users |-> Holdings[u]["YES"].cost + Holdings[u]["NO"].cost], Users)
  IN held("YES") = held("NO") /\ paid = Par * held("YES")

VARIABLES
  ledger,    \* accounts, positions and the MarketState in memory
  orders,    \* the rows of orders: a function from ids
  status,    \* the status of the market
  saved,     \* [ledger, orders] at the start of the transaction, or NoTx
  cleared    \* how many fills of the match have been cleared

exchangeVars == <<ledger, orders, status, saved, cleared>>
allVars == <<vars, exchangeVars>>

NoTx == [none |-> TRUE]

-----------------------------------------------------------------------------
\* transform_order
BookType(side, direction) ==
  CASE side = "YES" /\ direction = "BUY" -> "NATIVE_BUY"
    [] side = "YES" /\ direction = "SELL" -> "NATIVE_SELL"
    [] side = "NO" /\ direction = "BUY" -> "SYNTHETIC_SELL"
    [] OTHER -> "SYNTHETIC_BUY"

\* The side of the market that an order of this type is about
OutcomeOf(type) == IF type \in {"NATIVE_BUY", "NATIVE_SELL"} THEN "YES" ELSE "NO"
TypeOf(r) == BookType(r.side, r.direction)
BookPrice(type, price) == PriceOf(OutcomeOf(type), price)

Active(row) == row.status \in {"OPEN", "PARTIALLY_FILLED"}
Remaining(row) == row.qty - row.filled

WithRow(rows, id, row) ==
  [i \in DOMAIN rows \union {id} |-> IF i = id THEN row ELSE rows[i]]
Cancelled(rows, ids) ==
  [i \in DOMAIN rows |->
     IF i \in ids THEN [rows[i] EXCEPT !.status = "CANCELLED"] ELSE rows[i]]

\* Faulty: frozen_amount is left as it was when the order was placed.
FilledByUnsynced(row, qty) ==
  LET filled == row.filled + qty
  IN [row EXCEPT !.filled = filled,
                 !.status = IF filled >= row.qty THEN "FILLED" ELSE "PARTIALLY_FILLED"]

\* _sync_frozen_amount, _apply_fill and _update_maker_status: a row of which
\* qty more has been filled.  The book price of a NATIVE_BUY is its original
\* price, so that both cases of _sync_frozen_amount read alike.
FilledBy(row, qty) ==
  LET filled == row.filled + qty
      left == row.qty - filled
  IN [row EXCEPT !.filled = filled,
                 !.frozen = FreezeAmount(row.type, row.price, left),
                 !.status = IF left <= 0 THEN "FILLED" ELSE "PARTIALLY_FILLED"]

\* The CHECK constraints of orders that an update may break
RowChecksHold(row) == row.filled \in 0 .. row.qty /\ row.frozen >= 0

\* Faulty: the shares of a cancelled sell order stay pending.
UnfreezeFundsOnly(L, row) ==
  Unfreeze(L, row.user, IF PaysFunds(row.type) THEN row.frozen ELSE 0, 0, 0)

\* _unfreeze_remainder
UnfreezeRemainder(L, row) ==
  IF PaysFunds(row.type)
  THEN Unfreeze(L, row.user, row.frozen, 0, 0)
  ELSE IF SoldOutcome(row.type) = "YES"
       THEN Unfreeze(L, row.user, 0, Remaining(row), 0)
       ELSE Unfreeze(L, row.user, 0, 0, Remaining(row))

\* The sums of batch_cancel and of the loop of resolve_market, taken over
\* the rows of u among ids; amount[i] is what is pending for a sell order i:
\* its frozen_amount or its remaining quantity
FrozenAmounts(rows) == [i \in DOMAIN rows |-> rows[i].frozen]
Remainders(rows) == [i \in DOMAIN rows |-> Remaining(rows[i])]
Frozen(rows, ids, u) ==
  SumOver(FrozenAmounts(rows), {i \in ids : rows[i].user = u /\ PaysFunds(rows[i].type)})
Pending(rows, ids, u, s, amount) ==
  SumOver(amount, {i \in ids : /\ rows[i].user = u
                               /\ ~PaysFunds(rows[i].type)
                               /\ SoldOutcome(rows[i].type) = s})
UnfreezeAll(L, rows, ids, amount) ==
  [L EXCEPT
     !.acc = [u \in DOMAIN L.acc |->
                [avail |-> L.acc[u].avail + Frozen(rows, ids, u),
                 frozen |-> L.acc[u].frozen - Frozen(rows, ids, u)]],
     !.pos = [u \in DOMAIN L.pos |-> [s \in Outcomes |->
                [L.pos[u][s] EXCEPT !.pend = @ - Pending(rows, ids, u, s, amount)]]]]

\* Faulty: best_bid and best_ask stay at a level that may have become empty.
CancelKeepingBest(id) ==
  \/ \E e \in index : e.id = id /\ RemoveKeepsBest(e)
  \/ (\A e \in index : e.id # id) /\ UNCHANGED book

\* ob.cancel_order: an id that does not rest in the book is ignored.
CancelInBook(id) ==
  \/ \E e \in index : e.id = id /\ RemoveOrder(e)
  \/ (\A e \in index : e.id # id) /\ UNCHANGED book

\* Faulty: the orders are cancelled in the database only.
RemoveNothing(ids) == UNCHANGED book

\* ob.cancel_order for each of ids
RemoveFromBook(ids) ==
  /\ queues' = [s \in Sides |-> [p \in Prices |-> Dropped(queues[s][p], ids)]]
  /\ best' = [s \in Sides |-> RefreshBest(queues', s)]
  /\ index' = {e \in index : e.id \notin ids}

-----------------------------------------------------------------------------
ExchangeInit ==
  /\ Init
  /\ ledger = [acc |-> [u \in Users \union {Platform} |->
                          [avail |-> IF u = Platform THEN 0 ELSE Cash[u], frozen |-> 0]],
               pos |-> [u \in Users |-> [s \in Outcomes |->
                          [vol |-> Holdings[u][s].vol, cost |-> Holdings[u][s].cost,
                           pend |-> 0]]],
               mkt |-> LET pairs == SumOver([u \in Users |-> Holdings[u]["YES"].vol], Users)
                       IN [reserve |-> Par * pairs, pnl |-> 0, yes |-> pairs, no |-> pairs]]
  /\ orders = <<>>
  /\ status = "ACTIVE"
  /\ saved = NoTx
  /\ cleared = 0

\* The risk checks of _place_order_inner, in their order, with the condition
\* of check_and_freeze
check_market_active == status = "ACTIVE"
check_price_range(price) == price \in 1 .. Par - 1
check_order_limit(qty) == qty \in 1 .. MaxQuantity

Acceptable(L, r) ==
  /\ check_market_active
  /\ check_price_range(r.price)
  /\ check_order_limit(r.qty)
  /\ CanFreeze(L, r.user, TypeOf(r), r.price, r.qty)

\* From the freeze to the call of match_order, with L and rows as they are in
\* the transaction so far
Submit(L, rows, r) ==
  LET type == TypeOf(r)
  IN /\ TakeOrder(r.user, type, BookPrice(type, r.price), r.qty, r.tif)
     /\ ledger' = Freeze(L, r.user, type, r.price, r.qty)
     /\ orders' = WithRow(rows, nextId,
          [user |-> r.user, type |-> type, price |-> r.price, qty |-> r.qty,
           filled |-> 0, frozen |-> FreezeAmount(type, r.price, r.qty),
           status |-> "OPEN", tif |-> r.tif])
     /\ saved' = [ledger |-> ledger, orders |-> orders]
     /\ cleared' = 0
     /\ UNCHANGED status

\* place_order of a request that passes the checks (one whose client_order_id
\* is known is answered from its row and changes nothing) ...
Place(r) ==
  /\ Acceptable(ledger, r)
  /\ Submit(ledger, orders, r)
  /\ UNCHANGED book

\* ... and of one that does not: the AppError drops the book.
Refuse(r) ==
  /\ pc = "idle"
  /\ ~Acceptable(ledger, r)
  /\ EvictBook
  /\ UNCHANGED <<match, nextId, exchangeVars>>

\* One iteration of match_order
Match ==
  /\ ScanLevel \/ StopMatch \/ SkipOwn \/ Fill \/ LeaveLevel
  /\ UNCHANGED exchangeVars

\* Faulty: the transaction is rolled back and the book kept.
AbortKeepsBook ==
  /\ ledger' = saved.ledger
  /\ orders' = saved.orders
  /\ saved' = NoTx
  /\ cleared' = 0
  /\ UNCHANGED book
  /\ ForgetMatch
  /\ UNCHANGED <<nextId, status>>

\* An exception after the match: the transaction is rolled back and the book
\* dropped.
Abort ==
  /\ ledger' = saved.ledger
  /\ orders' = saved.orders
  /\ saved' = NoTx
  /\ cleared' = 0
  /\ EvictBook
  /\ ForgetMatch
  /\ UNCHANGED <<nextId, status>>

\* The fill to be cleared next as a TradeResult, and the value its fee is
\* computed from.  _make_trade_sell_incoming sets buy_original_price to 0.
TakerBuys == SideOf(taker.type) = "BUY"
TradeResult(f) ==
  [buyUser |-> IF TakerBuys THEN taker.user ELSE f.makerUser,
   sellUser |-> IF TakerBuys THEN f.makerUser ELSE taker.user,
   buyType |-> IF TakerBuys THEN taker.type ELSE f.makerType,
   sellType |-> IF TakerBuys THEN f.makerType ELSE taker.type,
   price |-> f.price, qty |-> f.qty,
   buyOriginalPrice |-> IF TakerBuys THEN BookPrice(taker.type, taker.price) ELSE 0]

AfterFee(f) ==
  LET t == TradeResult(f)
  IN collect_fee(settle_trade(ledger, t), taker.user, taker.type,
                 FeeBase(taker.type, t.price, t.qty, t.buyOriginalPrice))

\* Both rows of a trade: the taker's shows the outcome of the whole match.
AfterFill(f) ==
  LET takerRow == [orders[taker.id] EXCEPT !.filled = 0]
      rows == WithRow(orders, taker.id, FilledBy(takerRow, taker.qty - taker.rem))
  IN IF f.maker \in DOMAIN rows
     THEN WithRow(rows, f.maker, FilledBy(rows[f.maker], f.qty))
     ELSE rows

\* A fill that the database refuses: a CHECK of accounts or positions, of
\* orders, or ck_trades_diff_users
FillRefused(f) ==
  \/ ~ChecksHold(AfterFee(f))
  \/ \E i \in DOMAIN AfterFill(f) : ~RowChecksHold(AfterFill(f)[i])
  \/ f.makerUser = taker.user

\* One iteration of the clearing loop of _place_order_inner
ClearFill ==
  /\ pc = "done"
  /\ cleared < Len(fills)
  /\ LET f == fills[cleared + 1]
     IN \/ /\ FillRefused(f)
           /\ Abort
        \/ /\ ~FillRefused(f)
           /\ ledger' = execute_netting(AfterFee(f), TradeResult(f).buyUser)
           /\ orders' = AfterFill(f)
           /\ cleared' = cleared + 1
           /\ UNCHANGED <<vars, status, saved>>

\* _finalize_order on the ledger and on the order's row: what is left of an
\* IOC order is cancelled.
Expires == taker.rem > 0 /\ taker.tif = "IOC"
FinalLedger == IF Expires THEN UnfreezeRemainder(ledger, orders[taker.id]) ELSE ledger
FinalOrders == IF Expires THEN Cancelled(orders, {taker.id}) ELSE orders

\* The unfreeze, verify_invariants_after_trade or the flush of the market row
\* fails.
FinalRefused ==
  \/ ~ChecksHold(FinalLedger)
  \/ fills # <<>> /\ ~verify_invariants(FinalLedger)
  \/ ~MarketChecksHold(FinalLedger.mkt)

\* The end of _place_order_inner and the commit
Finalize ==
  /\ pc = "done"
  /\ cleared = Len(fills)
  /\ \/ FinalRefused /\ Abort
     \/ /\ ~FinalRefused
        /\ ledger' = FinalLedger
        /\ orders' = FinalOrders
        /\ Finish
        /\ saved' = NoTx
        /\ cleared' = 0
        /\ UNCHANGED status

-----------------------------------------------------------------------------
\* Faulty: any order may be cancelled, whatever its status.
CancelAnyOrder(id) ==
  LET L == UnfreezeRemainder(ledger, orders[id])
  IN /\ pc = "idle"
     /\ ChecksHold(L)
     /\ CancelInBook(id)
     /\ ledger' = L
     /\ orders' = Cancelled(orders, {id})
     /\ UNCHANGED <<match, nextId, status, saved, cleared>>

\* cancel_order by the owner of a cancellable order; a CHECK that fails drops
\* the book.
CancelOrder(id) ==
  LET L == UnfreezeRemainder(ledger, orders[id])
  IN /\ pc = "idle"
     /\ Active(orders[id])
     /\ \/ /\ ChecksHold(L)
           /\ CancelInBook(id)
           /\ ledger' = L
           /\ orders' = Cancelled(orders, {id})
        \/ /\ ~ChecksHold(L)
           /\ EvictBook
           /\ UNCHANGED <<ledger, orders>>
     /\ UNCHANGED <<match, nextId, status, saved, cleared>>

\* The old order of a replacement: the AMM's own and not filled, in part or
\* in full.  Faulty first: a partly filled order may be replaced.
ReplacesPartlyFilled(id, r) ==
  /\ orders[id].user \in Exempt /\ r.user = orders[id].user

Replaceable(id, r) ==
  /\ orders[id].user \in Exempt /\ r.user = orders[id].user
  /\ orders[id].filled = 0 /\ orders[id].status # "FILLED"

\* replace_order.  An AppError of the new order rolls the transaction back and
\* leaves the book without the old order.
Replace(id, r) ==
  LET L == UnfreezeRemainder(ledger, orders[id])
  IN /\ pc = "idle"
     /\ Replaceable(id, r)
     /\ \/ /\ ~ChecksHold(L)
           /\ EvictBook
           /\ UNCHANGED <<match, nextId, exchangeVars>>
        \/ /\ ChecksHold(L) /\ ~Acceptable(L, r)
           /\ CancelInBook(id)
           /\ UNCHANGED <<match, nextId, exchangeVars>>
        \/ /\ ChecksHold(L) /\ Acceptable(L, r)
           /\ CancelInBook(id)
           /\ Submit(L, Cancelled(orders, {id}), r)

\* batch_cancel by the AMM; scope is the set of original directions.  A CHECK
\* that fails rolls back the transaction only.
InScope(row, scope) ==
  (IF row.type \in {"NATIVE_BUY", "SYNTHETIC_SELL"} THEN "BUY" ELSE "SELL") \in scope

BatchCancel(u, scope) ==
  LET ids == {i \in DOMAIN orders : /\ orders[i].user = u /\ Active(orders[i])
                                    /\ InScope(orders[i], scope)}
      L == UnfreezeAll(ledger, orders, ids, FrozenAmounts(orders))
  IN /\ pc = "idle"
     /\ ids # {}
     /\ RemoveFromBook(ids)
     /\ \/ /\ ChecksHold(L)
           /\ ledger' = L
           /\ orders' = Cancelled(orders, ids)
        \/ /\ ~ChecksHold(L)
           /\ UNCHANGED <<ledger, orders>>
     /\ UNCHANGED <<match, nextId, status, saved, cleared>>

\* resolve_market: cancel the active orders in the database and pay out.  The
\* book is not told.
Resolve(outcome) ==
  LET ids == {i \in DOMAIN orders : Active(orders[i])}
      L == UnfreezeAll(ledger, orders, ids, Remainders(orders))
  IN /\ pc = "idle"
     /\ status = "ACTIVE"
     /\ ChecksHold(L)
     /\ ledger' = settle_market(L, outcome)
     /\ orders' = Cancelled(orders, ids)
     /\ status' = "SETTLED"
     /\ UNCHANGED <<vars, saved, cleared>>

\* The process dies and starts again with an empty book; the database rolls
\* back what was not committed.
Restart ==
  /\ pc \in {"idle", "done"}
  /\ IF pc = "done"
     THEN Abort
     ELSE EvictBook /\ UNCHANGED <<match, nextId, exchangeVars>>

\* What users, the admin and the operating system do
UserNext ==
  \/ \E r \in Requests : Place(r) \/ Refuse(r)
  \/ Match \/ ClearFill \/ Finalize
  \/ \E id \in DOMAIN orders : CancelOrder(id)
  \/ \E outcome \in Outcomes : Resolve(outcome)
  \/ Restart

\* The endpoints of the AMM besides
AmmNext ==
  \/ \E id \in DOMAIN orders, r \in Requests : Replace(id, r)
  \/ \E u \in Exempt, scope \in {{"BUY"}, {"SELL"}, {"BUY", "SELL"}} : BatchCancel(u, scope)

UserSpec == ExchangeInit /\ [][UserNext]_allVars
AmmSpec == ExchangeInit /\ [][UserNext \/ AmmNext]_allVars

-----------------------------------------------------------------------------
Row == [user : Users, type : AllBookTypes, price : Prices, qty : Nat \ {0},
        filled : Nat, frozen : Nat, tif : {"GTC", "IOC"},
        status : {"OPEN", "PARTIALLY_FILLED", "FILLED", "CANCELLED"}]

\* The rows of orders and the ledger keep their types, in particular within
\* the CHECK constraints, in every state of a transaction.
ExchangeTypeOK ==
  /\ TypeOK
  /\ ChecksHold(ledger)
  /\ \A i \in DOMAIN orders : orders[i] \in Row /\ RowChecksHold(orders[i])
  /\ status \in {"ACTIVE", "SETTLED"}
  /\ cleared \in 0 .. Len(fills)
  /\ saved = NoTx <=> pc = "idle"

\* INV-G of verify_global_invariants, with taker_fee_bps at its default: at
\* every step of every request money only moves.
CashConserved ==
  TotalAssets(ledger) =
    SumOver([u \in Users |-> Cash[u] + Par * Holdings[u]["YES"].vol], Users)

\* The market's totals are those of the positions, and the reserve covers
\* every pair: what settle_market pays out is there whoever wins.
SharesMatch ==
  /\ \A s \in Outcomes :
       TotalShares(ledger, s) = IF s = "YES" THEN ledger.mkt.yes ELSE ledger.mkt.no
  /\ MarketChecksHold(ledger.mkt)

\* What the holders paid and have not got back, and the profits booked in
\* pnl_pool, make up the reserve.
CostIdentity ==
  TotalCost(ledger) + ledger.mkt.pnl = ledger.mkt.reserve

ActiveIds == {i \in DOMAIN orders : Active(orders[i])}

\* Between requests, the shares pending are those that the active sell orders
\* have left to sell.
PendingBacked ==
  pc = "idle" => \A u \in Users, s \in Outcomes :
    ledger.pos[u][s].pend = Pending(orders, ActiveIds, u, s, Remainders(orders))

\* Between requests, what the frozen_amounts of a user's active orders add up
\* to is frozen in the account, up to a cent for each share of the user's orders
\* that has been filled: _sync_frozen_amount rounds the allowance for fees up
\* for what is left of an order, the fees already paid were rounded up fill by
\* fill, and the sum of roundings may exceed the rounding of the sum.
ClaimsCovered ==
  pc = "idle" => \A u \in Users :
    Frozen(orders, ActiveIds, u) <=
      ledger.acc[u].frozen
        + SumOver([i \in DOMAIN orders |-> orders[i].filled],
                  {i \in DOMAIN orders : orders[i].user = u})

\* Between requests, every order that rests in the book of an active market
\* is an active row with the same user, type, price and remaining quantity.
BookBacked ==
  pc = "idle" /\ status = "ACTIVE" =>
    \A s \in Sides, p \in Prices : \A i \in 1 .. Len(queues[s][p]) :
      LET o == queues[s][p][i]
      IN /\ o.id \in ActiveIds
         /\ orders[o.id].user = o.user /\ orders[o.id].type = o.type
         /\ BookPrice(o.type, orders[o.id].price) = p
         /\ Remaining(orders[o.id]) = o.qty

CommittedOrders == IF pc = "idle" THEN orders ELSE saved.orders

\* A row that has been committed as filled or cancelled never changes again,
\* and no committed row loses a fill.
TerminalRowsStay ==
  [][\A i \in DOMAIN CommittedOrders :
       LET old == CommittedOrders[i]
           new == CommittedOrders'[i]
       IN /\ i \in DOMAIN CommittedOrders'
          /\ ~Active(old) => new = old
          /\ new.filled >= old.filled]_allVars

\* The book of the exchange is the book of OrderBook: whatever requests, errors
\* and restarts do, the book in memory only takes steps of that specification.
BookSpec == Init /\ [][Next]_vars

-----------------------------------------------------------------------------
(* What the repository says of the code and the code does not keep to.       *)

\* invariants.py:22 "INV-3: reserve_balance + pnl_pool == total cost_sum
\* across all positions", asserted whenever a request that traded ends.
InvThree ==
  pc = "done" /\ cleared = Len(fills) /\ fills # <<>> =>
    ledger.mkt.reserve + ledger.mkt.pnl = TotalCost(ledger)

\* engine.py:119 "Evict orderbook - will lazy-rebuild on next request": when
\* match_order starts, the book holds every active order of the database.
BookComplete ==
  pc = "outer" /\ fills = <<>> => ActiveIds \ {taker.id} \subseteq {e.id : e \in index}

\* engine.py:393 "Atomic Replace: cancel old order + place new order in a
\* single transaction": a replacement that leaves no trace in the database
\* leaves the book as it was, or drops it.
ReplaceAtomic ==
  [][\A id \in DOMAIN orders, r \in Requests :
       Replace(id, r) /\ UNCHANGED exchangeVars => index' \in {index, {}}]_allVars
=============================================================================
