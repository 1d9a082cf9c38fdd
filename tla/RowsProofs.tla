----------------------------- MODULE RowsProofs -----------------------------
(* Proofs about the orders table of Exchange: the rows that back the orders  *)
(* of the book, the shares that are pending for them, and what a transaction *)
(* may do to rows that were there before; and about MarketView: what a match *)
(* takes of the levels that were shown.                                      *)
EXTENDS ExchangeProofs, MarketView

(* The trades of the match that the clearing loop has not come to *)
Unapplied == cleared + 1 .. Len(fills)

(* The row of an order that rests on side s at price p *)
Backs(row, o, s, p) ==
  /\ Active(row) /\ row.user = o.user /\ row.type = o.type
  /\ SideOf(o.type) = s /\ BookPrice(o.type, row.price) = p

(* Every resting order has its row, which shows what is left of it and the
   quantity of a trade still to be cleared. *)
RestingBacked ==
  \A s \in Sides, p \in Prices : \A i \in 1 .. Len(queues[s][p]) :
    LET o == queues[s][p][i]
    IN /\ o.id \in DOMAIN orders /\ Backs(orders[o.id], o, s, p)
       /\ (\A k \in Unapplied : fills[k].maker # o.id) => Remaining(orders[o.id]) = o.qty
       /\ \A k \in Unapplied :
            fills[k].maker = o.id => Remaining(orders[o.id]) = o.qty + fills[k].qty

(* So has the maker of every trade still to be cleared; one that has left the
   book had nothing but this quantity left. *)
FillsBacked ==
  \A k \in Unapplied :
    LET m == fills[k].maker
    IN /\ m \in DOMAIN orders /\ m # taker.id /\ Active(orders[m])
       /\ orders[m].user = fills[k].makerUser /\ orders[m].type = fills[k].makerType
       /\ SideOf(fills[k].makerType) # SideOf(taker.type)
       /\ (\A e \in index : e.id # m) => Remaining(orders[m]) = fills[k].qty

(* The taker's row: untouched until the first trade is cleared, with the
   outcome of the whole match from then on. *)
TakerBacked ==
  pc # "idle" =>
    LET row == orders[taker.id]
    IN /\ status = "ACTIVE"
       /\ row.user = taker.user /\ row.type = taker.type /\ row.qty = taker.qty
       /\ BookPrice(taker.type, row.price) = taker.price
       /\ row.filled = IF cleared = 0 THEN 0 ELSE taker.qty - taker.rem
       /\ cleared = 0 \/ taker.rem > 0 => Active(row)
       /\ fills = <<>> => taker.rem = taker.qty

(* What a transaction has done to the rows it found. *)
CommittedKept ==
  pc # "idle" => \A i \in DOMAIN saved.orders :
    /\ i # taker.id /\ i \in DOMAIN orders
    /\ ~Active(saved.orders[i]) => orders[i] = saved.orders[i]
    /\ orders[i].filled >= saved.orders[i].filled

RInv ==
  /\ LInv
  /\ status = "ACTIVE" => RestingBacked /\ FillsBacked
  /\ TakerBacked /\ CommittedKept

-----------------------------------------------------------------------------
(* Resting orders have ids that were given out, and not the taker's. *)
LEMMA RestingIds ==
  ASSUME LInv, NEW s \in Sides, NEW p \in Prices, NEW i \in 1 .. Len(queues[s][p])
  PROVE  LET o == queues[s][p][i]
         IN /\ o \in BookOrder /\ o.id < nextId /\ (pc # "idle" => o.id # taker.id)
            /\ \E e \in index : e.id = o.id
<1>1. queues[s][p] \in Seq(BookOrder)
  BY DEF LInv, BInv, IInv, TypeOK
<1>2. [id |-> queues[s][p][i].id, side |-> s, price |-> p] \in index
  BY DEF LInv, BInv, IInv, IndexAgrees
<1>3. PICK e \in index : e.id = queues[s][p][i].id
  BY <1>2
<1> QED BY <1>1, <1>3 DEF LInv, BInv, IInv, FreshIds

(* A sequence of length 0 is empty. *)
LEMMA NoneLeft == \A q \in Seq(Trade) : Len(q) = 0 => q = <<>>
<1> TAKE q \in Seq(Trade)
<1> HAVE Len(q) = 0
<1> QED OBVIOUS

(* Between requests no trade is to be cleared. *)
LEMMA IdleUnapplied == ASSUME LInv, pc = "idle" PROVE Unapplied = {}
<1>1. fills = <<>> /\ cleared \in 0 .. Len(fills)
  BY DEF LInv, BInv, IdleMatch
<1> QED BY <1>1 DEF Unapplied

(* Orders leave the book and the rows of the others stay. *)
LEMMA FewerResting ==
  ASSUME RestingBacked, Unapplied = {}, Unapplied' = {},
         \A s \in Sides, p \in Prices : \A j \in 1 .. Len(queues'[s][p]) :
           \E i \in 1 .. Len(queues[s][p]) :
             LET o == queues[s][p][i]
             IN /\ queues'[s][p][j] = o
                /\ o.id \in DOMAIN orders => o.id \in DOMAIN orders' /\ orders'[o.id] = orders[o.id]
  PROVE  RestingBacked' /\ FillsBacked'
<1>1. FillsBacked'
  BY DEF FillsBacked
<1>2. ASSUME NEW s \in Sides, NEW p \in Prices, NEW j \in 1 .. Len(queues'[s][p])
      PROVE  LET o == queues'[s][p][j]
             IN /\ o.id \in DOMAIN orders' /\ Backs(orders'[o.id], o, s, p)
                /\ Remaining(orders'[o.id]) = o.qty
  <2>1. PICK i \in 1 .. Len(queues[s][p]) :
             LET o == queues[s][p][i]
             IN /\ queues'[s][p][j] = o
                /\ o.id \in DOMAIN orders => o.id \in DOMAIN orders' /\ orders'[o.id] = orders[o.id]
    OBVIOUS
  <2>2. LET o == queues[s][p][i]
        IN /\ o.id \in DOMAIN orders /\ Backs(orders[o.id], o, s, p)
           /\ Remaining(orders[o.id]) = o.qty
    BY DEF RestingBacked
  <2> QED BY <2>1, <2>2
<1>3. RestingBacked'
  BY <1>2 DEF RestingBacked
<1> QED BY <1>1, <1>3

(* A book that has been dropped backs nothing. *)
LEMMA EmptyResting == ASSUME EvictBook, Unapplied' = {} PROVE RestingBacked' /\ FillsBacked'
<1>1. \A s \in Sides, p \in Prices : queues'[s][p] = <<>>
  BY DEF EvictBook, EmptyQueues
<1>2. \A s \in Sides, p \in Prices : 1 .. Len(queues'[s][p]) = {}
  BY <1>1
<1> QED BY <1>2 DEF RestingBacked, FillsBacked

(* ob.cancel_order leaves the other orders where they are. *)
LEMMA CancelInBookRests ==
  ASSUME LInv, pc = "idle", NEW id, CancelInBook(id)
  PROVE  \A s \in Sides, p \in Prices : \A j \in 1 .. Len(queues'[s][p]) :
           \E i \in 1 .. Len(queues[s][p]) :
             queues'[s][p][j] = queues[s][p][i] /\ queues[s][p][i].id # id
<1> SUFFICES ASSUME NEW s \in Sides, NEW p \in Prices, NEW j \in 1 .. Len(queues'[s][p])
             PROVE  \E i \in 1 .. Len(queues[s][p]) :
                      queues'[s][p][j] = queues[s][p][i] /\ queues[s][p][i].id # id
  OBVIOUS
<1>1. IndexAgrees' /\ queues' \in [Sides -> [Prices -> Seq(BookOrder)]]
  BY CancelInBookInv DEF LInv, BInv, BookInv
<1>2. \A e \in index' : e.id # id
  BY DEF CancelInBook, RemoveOrder, book
<1>3. queues'[s][p][j].id # id
  <2>1. [id |-> queues'[s][p][j].id, side |-> s, price |-> p] \in index'
    BY <1>1 DEF IndexAgrees
  <2> QED BY <1>2, <2>1
<1>4. \E i \in 1 .. Len(queues[s][p]) : queues'[s][p][j] = queues[s][p][i]
  <2>1. CASE UNCHANGED book
    BY <2>1 DEF book
  <2>2. ASSUME NEW e \in index, RemoveOrder(e)
        PROVE  \E i \in 1 .. Len(queues[s][p]) : queues'[s][p][j] = queues[s][p][i]
    <3>1. e.side \in Sides /\ e.price \in Prices /\ queues \in [Sides -> [Prices -> Seq(BookOrder)]]
      BY DEF LInv, BInv, IInv, TypeOK, Entry
    <3>2. PICK q \in Seq(BookOrder) : q = queues[e.side][e.price]
      BY <3>1
    <3>3. PICK n \in 1 .. Len(q) : queues' = [queues EXCEPT ![e.side][e.price] = Without(q, n)]
      BY <2>2, <3>2 DEF RemoveOrder
    <3>4. CASE s = e.side /\ p = e.price
      <4>1. queues'[s][p] = Without(q, n)
        BY <3>1, <3>3, <3>4
      <4>2. Len(q) \in Nat /\ Len(Without(q, n)) = Len(q) - 1
        BY WithoutProperties
      <4>3. j \in 1 .. Len(q) - 1 /\ Without(q, n)[j] = IF j < n THEN q[j] ELSE q[j + 1]
        BY <4>1, <4>2 DEF Without
      <4>4. j \in 1 .. Len(q) /\ j + 1 \in 1 .. Len(q)
        BY <4>2, <4>3
      <4> QED BY <3>2, <3>4, <4>1, <4>3, <4>4
    <3>5. CASE ~(s = e.side /\ p = e.price)
      <4>1. queues'[s][p] = queues[s][p]
        BY <3>1, <3>3, <3>5
      <4> QED BY <4>1
    <3> QED BY <3>4, <3>5
  <2> QED BY <2>1, <2>2 DEF CancelInBook
<1> QED BY <1>3, <1>4

-----------------------------------------------------------------------------
(* An order is accepted, with rows as the transaction has left them. *)
LEMMA SubmitRows ==
  ASSUME RInv, LInv', pc = "idle", NEW L, NEW rows, RowsOK(rows, nextId), NEW r \in Requests,
         Acceptable(L, r), Submit(L, rows, r),
         \A i \in DOMAIN orders : /\ i \in DOMAIN rows
                                  /\ ~Active(orders[i]) => rows[i] = orders[i]
                                  /\ rows[i].filled >= orders[i].filled,
         \A s \in Sides, p \in Prices : \A j \in 1 .. Len(queues'[s][p]) :
           \E i \in 1 .. Len(queues[s][p]) :
             LET o == queues[s][p][i]
             IN /\ queues'[s][p][j] = o
                /\ o.id \in DOMAIN orders => rows[o.id] = orders[o.id]
  PROVE  RInv'
<1> DEFINE row == [user |-> r.user, type |-> TypeOf(r), price |-> r.price, qty |-> r.qty,
                   filled |-> 0, frozen |-> FreezeAmount(TypeOf(r), r.price, r.qty),
                   status |-> "OPEN", tif |-> r.tif]
<1>1. /\ nextId' = nextId + 1 /\ pc' = "outer" /\ fills' = <<>>
      /\ taker' = [id |-> nextId, user |-> r.user, type |-> TypeOf(r),
                   price |-> BookPrice(TypeOf(r), r.price), qty |-> r.qty, rem |-> r.qty,
                   tif |-> r.tif]
      /\ orders' = WithRow(rows, nextId, row)
      /\ saved' = [ledger |-> ledger, orders |-> orders] /\ cleared' = 0 /\ status' = status
  BY DEF Submit, TakeOrder
<1>2. DOMAIN orders \subseteq 1 .. nextId - 1 /\ DOMAIN rows \subseteq 1 .. nextId - 1 /\ nextId \in Nat
  BY DEF RInv, LInv, BInv, IInv, TypeOK, RowsOK
<1>3. nextId \notin DOMAIN orders /\ nextId \notin DOMAIN rows
  BY <1>2
<1>4. /\ DOMAIN orders' = DOMAIN rows \union {nextId} /\ orders'[nextId] = row
      /\ \A i \in DOMAIN rows : orders'[i] = rows[i]
  <2> HIDE DEF row
  <2> QED BY <1>1, <1>3 DEF WithRow
<1>5. status = "ACTIVE"
  BY DEF Acceptable, check_market_active
<1>6. Unapplied = {} /\ Unapplied' = {}
  BY <1>1, IdleUnapplied DEF RInv, Unapplied
<1>7. RestingBacked' /\ FillsBacked'
  <2>1. RestingBacked
    BY <1>5 DEF RInv
  <2>2. \A s \in Sides, p \in Prices : \A j \in 1 .. Len(queues'[s][p]) :
           \E i \in 1 .. Len(queues[s][p]) :
             LET o == queues[s][p][i]
             IN /\ queues'[s][p][j] = o
                /\ o.id \in DOMAIN orders => o.id \in DOMAIN orders' /\ orders'[o.id] = orders[o.id]
    <3> HIDE DEF row
    <3> TAKE s \in Sides, p \in Prices
    <3> TAKE j \in 1 .. Len(queues'[s][p])
    <3>1. PICK i \in 1 .. Len(queues[s][p]) :
               /\ queues'[s][p][j] = queues[s][p][i]
               /\ queues[s][p][i].id \in DOMAIN orders =>
                    rows[queues[s][p][i].id] = orders[queues[s][p][i].id]
      OBVIOUS
    <3> QED BY <1>4, <3>1
  <2> QED BY <1>6, <2>1, <2>2, FewerResting
<1>8. TakerBacked'
  BY <1>1, <1>4, <1>5 DEF TakerBacked, Active
<1>9. CommittedKept'
  <2>1. saved'.orders = orders /\ taker'.id = nextId
    BY <1>1
  <2> HIDE DEF row
  <2> QED BY <1>3, <1>4, <2>1 DEF CommittedKept
<1> QED BY <1>7, <1>8, <1>9 DEF RInv

(* place_order of an acceptable request *)
LEMMA PlaceRows == ASSUME RInv, LInv', NEW r \in Requests, Place(r) PROVE RInv'
<1>1. pc = "idle" /\ RowsOK(orders, nextId) /\ UNCHANGED book
  BY DEF Place, Submit, TakeOrder, RInv, LInv
<1>2. \A s \in Sides, p \in Prices : \A j \in 1 .. Len(queues'[s][p]) :
         \E i \in 1 .. Len(queues[s][p]) : queues'[s][p][j] = queues[s][p][i]
  BY <1>1 DEF book
<1>3. \A i \in DOMAIN orders : orders[i].filled \in Int
  BY <1>1 DEF RowsOK, Row
<1>4. \A i \in DOMAIN orders : orders[i].filled >= orders[i].filled
  BY <1>3
<1> QED BY <1>1, <1>2, <1>4, SubmitRows DEF Place

(* Cancelled rows keep what was filled; one that was not active and not
   filled was cancelled before. *)
LEMMA CancelledKeeps ==
  ASSUME NEW rows, NEW n, RowsOK(rows, n), NEW ids,
         \A i \in ids : i \in DOMAIN rows /\ ~Active(rows[i]) => rows[i].status # "FILLED"
  PROVE  \A i \in DOMAIN rows :
           LET c == Cancelled(rows, ids)[i]
           IN /\ ~Active(rows[i]) => c = rows[i]
              /\ c.filled >= rows[i].filled
<1> SUFFICES ASSUME NEW i \in DOMAIN rows
             PROVE  LET c == Cancelled(rows, ids)[i]
                    IN /\ ~Active(rows[i]) => c = rows[i]
                       /\ c.filled >= rows[i].filled
  OBVIOUS
<1>1. rows[i] \in Row
  BY DEF RowsOK
<1>2. rows[i].filled \in Int
  BY <1>1 DEF Row
<1>3. CASE i \notin ids
  <2>1. Cancelled(rows, ids)[i] = rows[i]
    BY <1>3 DEF Cancelled
  <2> QED BY <1>2, <2>1
<1>4. CASE i \in ids
  <2>1. Cancelled(rows, ids)[i] = [rows[i] EXCEPT !.status = "CANCELLED"]
    BY <1>4 DEF Cancelled
  <2>2. [rows[i] EXCEPT !.status = "CANCELLED"].filled = rows[i].filled
    BY <1>1 DEF Row
  <2>3. ASSUME ~Active(rows[i]) PROVE rows[i].status = "CANCELLED"
    BY <1>1, <1>4, <2>3 DEF Row, Active
  <2>4. ASSUME rows[i].status = "CANCELLED"
        PROVE  [rows[i] EXCEPT !.status = "CANCELLED"] = rows[i]
    BY <1>1, <2>4 DEF Row
  <2> QED BY <1>2, <2>1, <2>2, <2>3, <2>4
<1> QED BY <1>3, <1>4

(* replace_order *)
LEMMA ReplaceRows ==
  ASSUME RInv, LInv', NEW id \in DOMAIN orders, NEW r \in Requests, Replace(id, r)
  PROVE  RInv'
<1> DEFINE L == UnfreezeRemainder(ledger, orders[id])
<1>1. pc = "idle" /\ RowsOK(orders, nextId) /\ LInv
  BY DEF Replace, RInv, LInv
<1>2. CASE EvictBook /\ UNCHANGED <<match, nextId, exchangeVars>>
  <2>1. pc' = "idle" /\ Unapplied' = Unapplied
    BY <1>1, <1>2 DEF match, exchangeVars, Unapplied
  <2>2. Unapplied' = {}
    BY <1>1, <2>1, IdleUnapplied
  <2> QED BY <1>2, <2>1, <2>2, EmptyResting DEF RInv, TakerBacked, CommittedKept
<1>3. CASE CancelInBook(id) /\ UNCHANGED <<match, nextId, exchangeVars>>
  <2>1. pc' = "idle" /\ Unapplied' = Unapplied /\ orders' = orders /\ status' = status
    BY <1>1, <1>3 DEF match, exchangeVars, Unapplied
  <2>2. Unapplied = {}
    BY <1>1, IdleUnapplied
  <2>3. \A s \in Sides, p \in Prices : \A j \in 1 .. Len(queues'[s][p]) :
           \E i \in 1 .. Len(queues[s][p]) :
             queues'[s][p][j] = queues[s][p][i] /\ queues[s][p][i].id # id
    BY <1>1, <1>3, CancelInBookRests
  <2>4. ASSUME status = "ACTIVE" PROVE RestingBacked' /\ FillsBacked'
    <3>1. RestingBacked
      BY <2>4 DEF RInv
    <3> QED BY <2>1, <2>2, <2>3, <3>1, FewerResting
  <2> QED BY <2>1, <2>4 DEF RInv, TakerBacked, CommittedKept
<1>4. CASE CancelInBook(id) /\ Acceptable(L, r) /\ Submit(L, Cancelled(orders, {id}), r)
  <2> DEFINE rows == Cancelled(orders, {id})
  <2>1. RowsOK(rows, nextId) /\ DOMAIN rows = DOMAIN orders
        /\ \A i \in DOMAIN orders : i # id => rows[i] = orders[i]
    <3>1. RowsOK(rows, nextId)
      BY <1>1, CancelledOK
    <3> QED BY <3>1 DEF Cancelled
  <2>2. orders[id].status # "FILLED"
    BY DEF Replace, Replaceable
  <2>3. \A i \in DOMAIN orders : /\ ~Active(orders[i]) => rows[i] = orders[i]
                                 /\ rows[i].filled >= orders[i].filled
    BY <1>1, <2>2, CancelledKeeps
  <2>4. \A s \in Sides, p \in Prices : \A j \in 1 .. Len(queues'[s][p]) :
           \E i \in 1 .. Len(queues[s][p]) :
             queues'[s][p][j] = queues[s][p][i] /\ queues[s][p][i].id # id
    BY <1>1, <1>4, CancelInBookRests
  <2> HIDE DEF rows, L
  <2>5. \A s \in Sides, p \in Prices : \A j \in 1 .. Len(queues'[s][p]) :
           \E i \in 1 .. Len(queues[s][p]) :
             LET o == queues[s][p][i]
             IN /\ queues'[s][p][j] = o
                /\ o.id \in DOMAIN orders => rows[o.id] = orders[o.id]
    BY <2>1, <2>4
  <2>6. Submit(L, rows, r) /\ Acceptable(L, r)
    BY <1>4 DEF rows
  <2> QED BY <1>1, <2>1, <2>3, <2>5, <2>6, SubmitRows
<1> QED BY <1>2, <1>3, <1>4 DEF Replace

-----------------------------------------------------------------------------
(* cancel_order *)
LEMMA CancelRows ==
  ASSUME RInv, LInv', NEW id \in DOMAIN orders, CancelOrder(id)
  PROVE  RInv'
<1>1. pc = "idle" /\ LInv /\ pc' = "idle" /\ Unapplied' = Unapplied /\ status' = status
  BY DEF CancelOrder, RInv, match, Unapplied
<1>2. Unapplied = {}
  BY <1>1, IdleUnapplied
<1>3. CASE CancelInBook(id) /\ orders' = Cancelled(orders, {id})
  <2>1. \A s \in Sides, p \in Prices : \A j \in 1 .. Len(queues'[s][p]) :
           \E i \in 1 .. Len(queues[s][p]) :
             queues'[s][p][j] = queues[s][p][i] /\ queues[s][p][i].id # id
    BY <1>1, <1>3, CancelInBookRests
  <2>2. DOMAIN orders' = DOMAIN orders /\ \A i \in DOMAIN orders : i # id => orders'[i] = orders[i]
    BY <1>3 DEF Cancelled
  <2>3. ASSUME status = "ACTIVE" PROVE RestingBacked' /\ FillsBacked'
    <3>1. RestingBacked
      BY <2>3 DEF RInv
    <3> QED BY <1>1, <1>2, <2>1, <2>2, <3>1, FewerResting
  <2> QED BY <1>1, <2>3 DEF RInv, TakerBacked, CommittedKept
<1>4. CASE EvictBook
  BY <1>1, <1>2, <1>4, EmptyResting DEF RInv, TakerBacked, CommittedKept
<1> QED BY <1>3, <1>4 DEF CancelOrder

(* batch_cancel, whether or not the database accepts it *)
LEMMA BatchRows ==
  ASSUME RInv, LInv', NEW u, NEW scope, BatchCancel(u, scope)
  PROVE  RInv'
<1> DEFINE ids == {i \in DOMAIN orders : /\ orders[i].user = u /\ Active(orders[i])
                                         /\ InScope(orders[i], scope)}
<1>1. pc = "idle" /\ LInv /\ pc' = "idle" /\ Unapplied' = Unapplied /\ status' = status
  BY DEF BatchCancel, RInv, match, Unapplied
<1>2. Unapplied = {}
  BY <1>1, IdleUnapplied
<1>3. RemoveFromBook(ids) /\ orders' \in {Cancelled(orders, ids), orders}
  BY DEF BatchCancel
<1> HIDE DEF ids
<1>4. \A s \in Sides, p \in Prices : \A j \in 1 .. Len(queues'[s][p]) :
         \E i \in 1 .. Len(queues[s][p]) :
           queues'[s][p][j] = queues[s][p][i] /\ queues[s][p][i].id \notin ids
  <2> TAKE s \in Sides, p \in Prices
  <2> TAKE j \in 1 .. Len(queues'[s][p])
  <2>1. queues[s][p] \in Seq(BookOrder)
    BY <1>1 DEF LInv, BInv, IInv, TypeOK
  <2>2. queues'[s][p] = Dropped(queues[s][p], ids)
    BY <1>3 DEF RemoveFromBook
  <2>3. PICK f : Enumerates(queues'[s][p], queues[s][p], ids, Len(queues[s][p]), f)
    BY <2>1, <2>2, DroppedProperties
  <2> QED BY <2>3 DEF Enumerates
<1>5. DOMAIN orders' = DOMAIN orders /\ \A i \in DOMAIN orders : i \notin ids => orders'[i] = orders[i]
  BY <1>3 DEF Cancelled
<1>6. ASSUME status = "ACTIVE" PROVE RestingBacked' /\ FillsBacked'
  <2>1. RestingBacked
    BY <1>6 DEF RInv
  <2>2. \A s \in Sides, p \in Prices : \A j \in 1 .. Len(queues'[s][p]) :
           \E i \in 1 .. Len(queues[s][p]) :
             LET o == queues[s][p][i]
             IN /\ queues'[s][p][j] = o
                /\ o.id \in DOMAIN orders => o.id \in DOMAIN orders' /\ orders'[o.id] = orders[o.id]
    <3> TAKE s \in Sides, p \in Prices
    <3> TAKE j \in 1 .. Len(queues'[s][p])
    <3>1. PICK i \in 1 .. Len(queues[s][p]) :
             queues'[s][p][j] = queues[s][p][i] /\ queues[s][p][i].id \notin ids
      BY <1>4
    <3>2. ASSUME queues[s][p][i].id \in DOMAIN orders
          PROVE  /\ queues[s][p][i].id \in DOMAIN orders'
                 /\ orders'[queues[s][p][i].id] = orders[queues[s][p][i].id]
      BY <1>5, <3>1, <3>2
    <3> WITNESS i \in 1 .. Len(queues[s][p])
    <3> QED BY <3>1, <3>2
  <2>3. Unapplied' = {}
    BY <1>1, <1>2
  <2> QED BY <1>2, <2>1, <2>2, <2>3, FewerResting
<1> QED BY <1>1, <1>6 DEF RInv, TakerBacked, CommittedKept

(* A transaction is rolled back and the book dropped. *)
LEMMA AbortRows == ASSUME RInv, LInv', Abort PROVE RInv'
<1>1. EvictBook /\ pc' = "idle" /\ fills' = <<>> /\ cleared' = 0
  BY DEF Abort, ForgetMatch
<1>2. Unapplied' = {}
  BY <1>1 DEF Unapplied
<1> QED BY <1>1, <1>2, EmptyResting DEF RInv, TakerBacked, CommittedKept

(* A request that is refused, or a restart between requests. *)
LEMMA EvictRows ==
  ASSUME RInv, LInv', pc = "idle", EvictBook, UNCHANGED <<match, nextId, exchangeVars>>
  PROVE  RInv'
<1>1. pc' = "idle" /\ Unapplied' = Unapplied
  BY DEF match, exchangeVars, Unapplied
<1>2. Unapplied' = {}
  BY <1>1, IdleUnapplied DEF RInv
<1> QED BY <1>1, <1>2, EmptyResting DEF RInv, TakerBacked, CommittedKept

(* The steps of match_order that trade nothing: the same orders rest. *)
LEMMA SameResting ==
  ASSUME RInv, LInv', pc # "idle", pc' # "idle", UNCHANGED <<index, taker, fills, exchangeVars>>,
         \A s \in Sides, p \in Prices : \A j \in 1 .. Len(queues'[s][p]) :
           \E i \in 1 .. Len(queues[s][p]) : queues'[s][p][j] = queues[s][p][i]
  PROVE  RInv'
<1>1. UNCHANGED <<orders, status, saved, cleared>> /\ Unapplied' = Unapplied
  BY DEF exchangeVars, Unapplied
<1>2. status = "ACTIVE" /\ RestingBacked /\ FillsBacked
  BY DEF RInv, TakerBacked
<1>3. FillsBacked'
  BY <1>1, <1>2 DEF FillsBacked
<1>4. RestingBacked'
  <2> SUFFICES ASSUME NEW s \in Sides, NEW p \in Prices, NEW j \in 1 .. Len(queues'[s][p])
               PROVE  LET o == queues'[s][p][j]
                      IN /\ o.id \in DOMAIN orders /\ Backs(orders[o.id], o, s, p)
                         /\ (\A k \in Unapplied : fills[k].maker # o.id) => Remaining(orders[o.id]) = o.qty
                         /\ \A k \in Unapplied :
                              fills[k].maker = o.id => Remaining(orders[o.id]) = o.qty + fills[k].qty
    BY <1>1 DEF RestingBacked
  <2>1. PICK i \in 1 .. Len(queues[s][p]) : queues'[s][p][j] = queues[s][p][i]
    OBVIOUS
  <2> QED BY <1>2, <2>1 DEF RestingBacked
<1>5. TakerBacked' /\ CommittedKept'
  BY <1>1 DEF RInv, TakerBacked, CommittedKept
<1> QED BY <1>3, <1>4, <1>5 DEF RInv

(* What a fill of n against the order m at the head of level s, p does: every
   order that rests afterwards rested before, m with n less. *)
FillOf(m, s, p, n) ==
  /\ s \in Sides /\ p \in Prices /\ s # SideOf(taker.type)
  /\ 1 \in 1 .. Len(queues[s][p]) /\ m = queues[s][p][1]
  /\ n \in Nat \ {0} /\ n <= taker.rem /\ n <= m.qty
  /\ taker.rem > 0
  /\ taker' = [taker EXCEPT !.rem = @ - n]
  /\ fills' = Append(fills, [maker |-> m.id, makerUser |-> m.user, makerType |-> m.type,
                             taker |-> taker.id, price |-> p, qty |-> n])
  /\ IF n = m.qty THEN index' = {e \in index : e.id # m.id} ELSE index' = index
  /\ \A t \in Sides, r \in Prices : \A j \in 1 .. Len(queues'[t][r]) :
       LET o == queues'[t][r][j]
       IN \/ o.id # m.id /\ \E i \in 1 .. Len(queues[t][r]) : o = queues[t][r][i]
          \/ n # m.qty /\ t = s /\ r = p /\ o = [m EXCEPT !.qty = @ - n]

(* A fill of match_order is one. *)
LEMMA FillIsFillOf ==
  ASSUME LInv, LInv', Fill
  PROVE  \E m, s, p, n : FillOf(m, s, p, n)
<1> DEFINE s == MakerSide
           p == MakerPrice
           q == MakerQueue
           m == Head(MakerQueue)
           n == IF taker.rem < m.qty THEN taker.rem ELSE m.qty
<1>1. /\ taker \in Order /\ s \in Sides /\ p \in Prices
      /\ q = queues[s][p] /\ q \in Seq(BookOrder)
      /\ queues \in QueuesType
  BY InnerFacts DEF Fill, LInv, BInv
<1>2. q # <<>> /\ m = q[1] /\ m \in BookOrder /\ taker.rem > 0 /\ 1 \in 1 .. Len(q)
  BY <1>1 DEF Fill, InnerGuard
<1>3. m.qty \in Nat \ {0} /\ taker.rem \in Nat
  BY <1>1, <1>2 DEF BookOrder, Order
<1>4. n \in Nat \ {0} /\ n <= taker.rem /\ n <= m.qty
  BY <1>2, <1>3
<1>5. s # SideOf(taker.type)
  BY DEF MakerSide, Opposite, SideOf
<1>6. /\ taker' = [taker EXCEPT !.rem = @ - n]
      /\ fills' = Append(fills, [maker |-> m.id, makerUser |-> m.user, makerType |-> m.type,
                                 taker |-> taker.id, price |-> p, qty |-> n])
  BY DEF Fill, Record
<1>7. (n = m.qty /\ PopMaker(m)) \/ (n # m.qty /\ ReduceMaker(m, n))
  BY Zenon DEF Fill
<1> HIDE DEF n
<1>8. IF n = m.qty THEN index' = {e \in index : e.id # m.id} ELSE index' = index
  BY <1>7 DEF PopMaker, ReduceMaker
<1>9. ASSUME NEW t \in Sides, NEW r \in Prices, NEW i \in 1 .. Len(queues[t][r]),
             ~(t = s /\ r = p /\ i = 1)
      PROVE  queues[t][r][i].id # m.id
  <2>1. RestsOnce
    BY DEF LInv, BInv, IInv
  <2> HIDE DEF s, p, q, m
  <2>2. PICK a \in 1 .. Len(queues[s][p]) : a = 1 /\ queues[s][p][a] = m
    BY <1>1, <1>2
  <2> QED BY <1>1, <1>9, <2>1, <2>2 DEF RestsOnce
<1>10. ASSUME NEW t \in Sides, NEW r \in Prices, NEW j \in 1 .. Len(queues'[t][r]),
              ~(t = s /\ r = p), NEW new \in Seq(BookOrder), LevelBecomes(s, p, new)
       PROVE  /\ queues'[t][r][j].id # m.id
              /\ \E i \in 1 .. Len(queues[t][r]) : queues'[t][r][j] = queues[t][r][i]
  <2> HIDE DEF s, p, q, m
  <2>1. queues'[t][r] = queues[t][r]
    BY <1>1, <1>10, LevelUpdate DEF LInv, BInv, IInv
  <2> QED BY <1>9, <1>10, <2>1
<1>11. ASSUME NEW t \in Sides, NEW r \in Prices, NEW j \in 1 .. Len(queues'[t][r])
       PROVE  LET o == queues'[t][r][j]
              IN \/ o.id # m.id /\ \E i \in 1 .. Len(queues[t][r]) : o = queues[t][r][i]
                 \/ n # m.qty /\ t = s /\ r = p /\ o = [m EXCEPT !.qty = @ - n]
  <2>1. CASE n = m.qty /\ PopMaker(m)
    <3>1. /\ Tail(q) \in Seq(BookOrder) /\ Len(Tail(q)) = Len(q) - 1 /\ Len(q) \in Nat
          /\ \A x \in 1 .. Len(q) - 1 : Tail(q)[x] = q[x + 1]
      BY <1>1, <1>2
    <3>2. LevelBecomes(s, p, Tail(q))
      BY <1>1, <2>1 DEF PopMaker, LevelBecomes
    <3>3. CASE t = s /\ r = p
      <4> HIDE DEF s, p, q, m
      <4>1. queues'[t][r] = Tail(q)
        BY <1>1, <3>1, <3>2, <3>3, LevelUpdate DEF LInv, BInv, IInv
      <4>2. j \in 1 .. Len(q) - 1
        BY <3>1, <4>1
      <4>3. queues'[t][r][j] = q[j + 1] /\ j + 1 \in 1 .. Len(q) /\ j + 1 # 1
        BY <3>1, <4>1, <4>2
      <4>4. PICK i \in 1 .. Len(queues[t][r]) : i # 1 /\ queues'[t][r][j] = queues[t][r][i]
        BY <1>1, <3>3, <4>3
      <4> QED BY <1>9, <4>4
    <3> QED BY <1>10, <3>1, <3>2, <3>3
  <2>2. CASE n # m.qty /\ ReduceMaker(m, n)
    <3> DEFINE less == [m EXCEPT !.qty = @ - n]
               new == [q EXCEPT ![1] = less]
    <3>1. less \in BookOrder
      <4>1. m.qty - n \in Nat \ {0}
        BY <1>3, <1>4, <2>2
      <4> QED BY <1>2, <4>1 DEF BookOrder
    <3>2. LevelBecomes(s, p, new)
      BY <1>1, <2>2 DEF ReduceMaker, LevelBecomes
    <3> HIDE DEF less
    <3>3. /\ new \in Seq(BookOrder) /\ Len(new) = Len(q) /\ new[1] = less
          /\ \A x \in 1 .. Len(q) : x # 1 => new[x] = q[x]
      BY <1>1, <1>2, <3>1
    <3> HIDE DEF new
    <3>4. CASE t = s /\ r = p
      <4> HIDE DEF s, p, q, m
      <4>1. queues'[t][r] = new
        BY <1>1, <3>2, <3>3, <3>4, LevelUpdate DEF LInv, BInv, IInv
      <4>2. CASE j = 1
        BY <2>2, <3>3, <3>4, <4>1, <4>2 DEF less
      <4>3. CASE j # 1
        <5>1. j \in 1 .. Len(queues[t][r]) /\ queues'[t][r][j] = queues[t][r][j]
          BY <1>1, <3>3, <3>4, <4>1, <4>3
        <5>2. queues[t][r][j].id # m.id
          BY <1>9, <4>3, <5>1
        <5> QED BY <5>1, <5>2
      <4> QED BY <4>2, <4>3
    <3> QED BY <1>10, <3>2, <3>3, <3>4
  <2> QED BY <1>7, <2>1, <2>2
<1>12. FillOf(m, s, p, n)
  <2> HIDE DEF s, p, q, m
  <2> QED BY <1>1, <1>2, <1>4, <1>5, <1>6, <1>8, <1>11 DEF FillOf
<1> QED BY <1>12

(* A trade of match_order: the book is ahead of the rows by its quantity. *)
LEMMA FillRows ==
  ASSUME RInv, LInv', Fill, UNCHANGED exchangeVars
  PROVE  RInv'
<1>1. PICK m, s, p, n : FillOf(m, s, p, n)
  BY FillIsFillOf DEF RInv
<1>2. /\ pc = "inner" /\ pc' = "inner" /\ LInv /\ cleared = 0
      /\ UNCHANGED <<orders, status, saved, cleared>>
  BY DEF Fill, RInv, LInv, exchangeVars
<1>3. /\ taker \in Order /\ fills \in Seq(Trade) /\ Len(fills) \in Nat
  BY <1>2 DEF LInv, BInv, IInv, TypeOK
<1>4. status = "ACTIVE" /\ RestingBacked /\ FillsBacked /\ TakerBacked /\ CommittedKept
  BY <1>2 DEF RInv, TakerBacked
<1> DEFINE N == Len(fills)
           f == [maker |-> m.id, makerUser |-> m.user, makerType |-> m.type,
                 taker |-> taker.id, price |-> p, qty |-> n]
<1>5. /\ s \in Sides /\ p \in Prices /\ s # SideOf(taker.type)
      /\ 1 \in 1 .. Len(queues[s][p]) /\ m = queues[s][p][1]
      /\ n \in Nat \ {0} /\ n <= taker.rem /\ n <= m.qty /\ taker.rem > 0
      /\ taker' = [taker EXCEPT !.rem = @ - n] /\ fills' = Append(fills, f)
      /\ IF n = m.qty THEN index' = {e \in index : e.id # m.id} ELSE index' = index
  BY <1>1 DEF FillOf
<1>6. m \in BookOrder /\ m.id # taker.id /\ \E e \in index : e.id = m.id
  <2>1. PICK i \in 1 .. Len(queues[s][p]) : queues[s][p][i] = m
    BY <1>5
  <2> QED BY <1>2, <1>5, <2>1, RestingIds
<1>7. /\ Len(fills') = N + 1 /\ fills'[N + 1] = f
      /\ \A k \in 1 .. N : fills'[k] = fills[k]
  <2> HIDE DEF f
  <2>1. fills' = Append(fills, f)
    BY <1>5
  <2> QED BY <1>3, <2>1
<1>8. /\ f.maker = m.id /\ f.makerUser = m.user /\ f.makerType = m.type /\ f.qty = n
      /\ taker'.rem = taker.rem - n /\ taker'.id = taker.id /\ taker'.type = taker.type
      /\ taker'.user = taker.user /\ taker'.qty = taker.qty /\ taker'.price = taker.price
  BY <1>3, <1>5 DEF Order
<1> HIDE DEF f
<1>9. Unapplied = 1 .. N /\ Unapplied' = 1 .. N + 1
  BY <1>2, <1>7 DEF Unapplied
<1>10. \A k \in 1 .. N : \A e \in index : e.id # fills[k].maker
  BY <1>2, <1>5 DEF LInv, BInv, IInv, FillInv
(* Nothing that rests has traded in this match before. *)
<1>11. ASSUME NEW t \in Sides, NEW r \in Prices, NEW i \in 1 .. Len(queues[t][r])
       PROVE  LET o == queues[t][r][i]
              IN /\ o.id \in DOMAIN orders /\ Backs(orders[o.id], o, t, r)
                 /\ Remaining(orders[o.id]) = o.qty
                 /\ \A k \in 1 .. N : fills[k].maker # o.id
  <2>1. PICK e \in index : e.id = queues[t][r][i].id
    BY <1>2, RestingIds
  <2>2. \A k \in 1 .. N : fills[k].maker # queues[t][r][i].id
    BY <1>10, <2>1
  <2> QED BY <1>4, <1>9, <2>2 DEF RestingBacked
<1>12. /\ m.id \in DOMAIN orders /\ Backs(orders[m.id], m, s, p)
       /\ Remaining(orders[m.id]) = m.qty /\ \A k \in 1 .. N : fills[k].maker # m.id
  <2>1. PICK i \in 1 .. Len(queues[s][p]) : queues[s][p][i] = m
    BY <1>5
  <2> QED BY <1>5, <1>11, <2>1
<1>13. \A k \in 1 .. N + 1 : k \in 1 .. N \/ k = N + 1
  BY <1>3
<1>14. m.qty \in Nat
  BY <1>6 DEF BookOrder
<1> HIDE DEF N
<1>15. RestingBacked'
  <2> SUFFICES ASSUME NEW t \in Sides, NEW r \in Prices, NEW j \in 1 .. Len(queues'[t][r])
               PROVE  LET o == queues'[t][r][j]
                      IN /\ o.id \in DOMAIN orders /\ Backs(orders[o.id], o, t, r)
                         /\ (\A k \in 1 .. N + 1 : fills'[k].maker # o.id) =>
                              Remaining(orders[o.id]) = o.qty
                         /\ \A k \in 1 .. N + 1 : fills'[k].maker = o.id =>
                              Remaining(orders[o.id]) = o.qty + fills'[k].qty
    BY <1>2, <1>9 DEF RestingBacked
  <2> DEFINE o == queues'[t][r][j]
  <2>1. CASE o.id # m.id /\ \E i \in 1 .. Len(queues[t][r]) : o = queues[t][r][i]
    <3>1. PICK i \in 1 .. Len(queues[t][r]) : o = queues[t][r][i]
      BY <2>1
    <3>2. /\ o.id \in DOMAIN orders /\ Backs(orders[o.id], o, t, r)
          /\ Remaining(orders[o.id]) = o.qty /\ \A k \in 1 .. N : fills[k].maker # o.id
      BY <1>11, <3>1
    <3>3. \A k \in 1 .. N + 1 : fills'[k].maker # o.id
      BY <1>7, <1>8, <1>13, <2>1, <3>2
    <3> QED BY <3>2, <3>3
  <2>2. CASE n # m.qty /\ t = s /\ r = p /\ o = [m EXCEPT !.qty = @ - n]
    <3>1. o.id = m.id /\ o.qty = m.qty - n /\ o.user = m.user /\ o.type = m.type
      BY <1>6, <2>2 DEF BookOrder
    <3> HIDE DEF o
    <3>2. o.id \in DOMAIN orders /\ Backs(orders[o.id], o, t, r)
      BY <1>12, <2>2, <3>1 DEF Backs
    <3>3. Remaining(orders[o.id]) = o.qty + n
      BY <1>5, <1>12, <1>14, <3>1
    <3>4. \A k \in 1 .. N : fills'[k].maker # o.id
      BY <1>7, <1>12, <3>1
    <3>5. fills'[N + 1].maker = o.id /\ fills'[N + 1].qty = n /\ N + 1 \in 1 .. N + 1
      BY <1>3, <1>7, <1>8, <3>1 DEF N
    <3> QED BY <1>13, <3>2, <3>3, <3>4, <3>5 DEF o
  <2>3. \/ o.id # m.id /\ \E i \in 1 .. Len(queues[t][r]) : o = queues[t][r][i]
        \/ n # m.qty /\ t = s /\ r = p /\ o = [m EXCEPT !.qty = @ - n]
    BY <1>1 DEF FillOf
  <2> QED BY <2>1, <2>2, <2>3
<1>16. FillsBacked'
  <2> SUFFICES ASSUME NEW k \in 1 .. N + 1
               PROVE  LET g == fills'[k].maker
                      IN /\ g \in DOMAIN orders /\ g # taker'.id /\ Active(orders[g])
                         /\ orders[g].user = fills'[k].makerUser
                         /\ orders[g].type = fills'[k].makerType
                         /\ SideOf(fills'[k].makerType) # SideOf(taker'.type)
                         /\ (\A e \in index' : e.id # g) => Remaining(orders[g]) = fills'[k].qty
    BY <1>2, <1>9 DEF FillsBacked
  <2>1. CASE k \in 1 .. N
    <3>1. fills'[k] = fills[k] /\ \A e \in index : e.id # fills[k].maker
      BY <1>7, <1>10, <2>1
    <3> QED BY <1>4, <1>8, <1>9, <2>1, <3>1 DEF FillsBacked
  <2>2. CASE k = N + 1
    <3>1. fills'[k] = f
      BY <1>7, <2>2
    <3>2. n = m.qty \/ \E e \in index' : e.id = m.id
      BY <1>5, <1>6
    <3> QED BY <1>5, <1>6, <1>8, <1>12, <3>1, <3>2 DEF Backs
  <2> QED BY <1>13, <2>1, <2>2
<1>17. TakerBacked'
  <2>1. fills' # <<>>
    BY <1>3, <1>7 DEF N
  <2> QED BY <1>2, <1>4, <1>8, <2>1 DEF TakerBacked
<1>18. CommittedKept'
  BY <1>2, <1>4, <1>8 DEF CommittedKept
<1> QED BY <1>15, <1>16, <1>17, <1>18 DEF RInv

(* match_order *)
LEMMA MatchRows == ASSUME RInv, LInv', Match PROVE RInv'
<1>1. UNCHANGED exchangeVars
  BY DEF Match
<1>2. CASE Fill
  BY <1>1, <1>2, FillRows
<1>3. CASE SkipOwn
  <2> DEFINE s == MakerSide
             p == MakerPrice
             q == MakerQueue
  <2>1. s \in Sides /\ p \in Prices /\ q = queues[s][p] /\ q \in Seq(BookOrder)
    BY <1>3, InnerFacts DEF SkipOwn, RInv, LInv, BInv
  <2>2. q # <<>> /\ LevelBecomes(s, p, Rotate(q)) /\ pc = "inner" /\ pc' = "inner"
        /\ UNCHANGED <<index, taker, fills>>
    BY <1>3, <2>1 DEF SkipOwn, InnerGuard, LevelBecomes
  <2> HIDE DEF s, p, q
  <2>3. /\ Rotate(q) \in Seq(BookOrder) /\ Len(Rotate(q)) = Len(q) /\ Len(q) \in Nat
        /\ \A j \in 1 .. Len(q) : Rotate(q)[j] = IF j < Len(q) THEN q[j + 1] ELSE q[1]
    BY <2>1, <2>2, RotateProperties
  <2>4. \A j \in 1 .. Len(q) : \E i \in 1 .. Len(q) : Rotate(q)[j] = q[i]
    <3> TAKE j \in 1 .. Len(q)
    <3>1. CASE j < Len(q)
      <4>1. j + 1 \in 1 .. Len(q)
        BY <2>3, <3>1
      <4> QED BY <2>3, <3>1, <4>1
    <3>2. CASE ~(j < Len(q))
      <4>1. 1 \in 1 .. Len(q)
        BY <2>3
      <4> QED BY <2>3, <3>2, <4>1
    <3> QED BY <3>1, <3>2
  <2>5. \A t \in Sides, r \in Prices : \A j \in 1 .. Len(queues'[t][r]) :
           \E i \in 1 .. Len(queues[t][r]) : queues'[t][r][j] = queues[t][r][i]
    <3> TAKE t \in Sides, r \in Prices
    <3>1. queues'[s][p] = Rotate(q) /\ (~(t = s /\ r = p) => queues'[t][r] = queues[t][r])
      BY <2>1, <2>2, <2>3, LevelUpdate DEF RInv, LInv, BInv, IInv
    <3>2. CASE t = s /\ r = p
      <4>1. queues'[t][r] = Rotate(q) /\ queues[t][r] = q
        BY <2>1, <3>1, <3>2
      <4> QED BY <2>3, <2>4, <4>1
    <3>3. CASE ~(t = s /\ r = p)
      <4>1. queues'[t][r] = queues[t][r]
        BY <3>1, <3>3
      <4> QED BY <4>1
    <3> QED BY <3>2, <3>3
  <2> QED BY <1>1, <2>2, <2>5, SameResting
<1>4. CASE ScanLevel \/ StopMatch \/ LeaveLevel
  <2>1. pc # "idle" /\ pc' # "idle" /\ UNCHANGED <<queues, index, taker, fills>>
    BY <1>4 DEF ScanLevel, StopMatch, LeaveLevel, book
  <2>2. \A s \in Sides, p \in Prices : \A j \in 1 .. Len(queues'[s][p]) :
           \E i \in 1 .. Len(queues[s][p]) : queues'[s][p][j] = queues[s][p][i]
    BY <2>1
  <2> QED BY <1>1, <2>1, <2>2, SameResting
<1> QED BY <1>2, <1>3, <1>4 DEF Match

-----------------------------------------------------------------------------
(* One iteration of the clearing loop: the rows catch up with the book by one
   trade, and the taker's row with the whole match. *)
LEMMA ClearRows == ASSUME RInv, LInv', ClearFill PROVE RInv'
<1>1. CASE Abort
  BY <1>1, AbortRows
<1>2. CASE ~Abort
  <2> DEFINE c == cleared + 1
             f == fills[c]
  <2>1. /\ pc = "done" /\ cleared < Len(fills) /\ ~FillRefused(f) /\ orders' = AfterFill(f)
        /\ cleared' = c /\ UNCHANGED <<vars, status, saved>>
    BY <1>2 DEF ClearFill
  <2>2. LInv /\ status = "ACTIVE" /\ RestingBacked /\ FillsBacked /\ TakerBacked /\ CommittedKept
    BY <2>1 DEF RInv, TakerBacked
  <2>3. cleared \in Nat /\ Len(fills) \in Nat /\ taker \in Order /\ fills \in Seq(Trade)
    BY <2>1, <2>2 DEF LInv, BInv, IInv, TypeOK
  <2>4. c \in 1 .. Len(fills) /\ c \in Unapplied /\ c \in Nat \ {0}
    BY <2>1, <2>3 DEF Unapplied
  <2>5. Unapplied' = c + 1 .. Len(fills) /\ Unapplied = c .. Len(fills)
    BY <2>1 DEF Unapplied, vars
  <2>6. \A k \in Unapplied : k = c \/ k \in Unapplied'
    <3> HIDE DEF c
    <3> QED BY <2>3, <2>4, <2>5
  <2>7. \A k \in Unapplied' : k \in Unapplied /\ fills[k].maker # f.maker
    <3> TAKE k \in Unapplied'
    <3>1. k \in Unapplied /\ k \in 1 .. Len(fills) /\ c \in 1 .. k - 1
      <4> HIDE DEF c
      <4> QED BY <2>3, <2>4, <2>5
    <3>2. FillsInPriceOrder
      BY <2>2 DEF LInv, BInv, IInv
    <3> HIDE DEF c
    <3>3. f.maker # fills[k].maker
      BY <3>1, <3>2 DEF FillsInPriceOrder
    <3> QED BY <3>1, <3>3
  <2>8. UNCHANGED <<queues, index, taker, fills, pc, status, saved>>
    BY <2>1 DEF vars
  <2> HIDE DEF c
  <2>9. f \in Trade
    BY <2>3, <2>4
  <2>10. /\ f.maker \in DOMAIN orders /\ f.maker # taker.id /\ Active(orders[f.maker])
    BY <2>2, <2>4 DEF FillsBacked
  <2>11. /\ DOMAIN orders' = DOMAIN orders
         /\ orders'[taker.id] = TakerRow
         /\ orders'[f.maker] = FilledBy(orders[f.maker], f.qty)
         /\ \A i \in DOMAIN orders : i # taker.id /\ i # f.maker => orders'[i] = orders[i]
    BY <2>1, <2>2, <2>4, <2>10, AfterFillOK
  <2>12. \A i \in DOMAIN orders : orders[i] \in Row /\ orders[i] \in UncheckedRow
    BY <2>2, CheckedRow DEF LInv, RowsOK
  <2>13. f.qty \in Nat \ {0}
    BY <2>9 DEF Trade
  <2> DEFINE old == orders[f.maker]
             made == FilledBy(old, f.qty)
  <2>14. /\ made.user = old.user /\ made.type = old.type /\ made.price = old.price
         /\ made.qty = old.qty /\ made.filled = old.filled + f.qty
         /\ made.status = IF old.qty - (old.filled + f.qty) <= 0 THEN "FILLED" ELSE "PARTIALLY_FILLED"
    <3>1. old \in UncheckedRow /\ f.qty \in Int
      BY <2>10, <2>12, <2>13
    <3> HIDE DEF old, f
    <3> QED BY <3>1, FilledRow
  <2>15. old.qty \in Int /\ old.filled \in Int
    BY <2>10, <2>12 DEF Row
  <2> HIDE DEF old, made, f
  <2>16. Remaining(made) = Remaining(old) - f.qty /\ (Remaining(made) > 0 => Active(made))
    BY <2>13, <2>14, <2>15 DEF Remaining, Active
  <2>17. RestingBacked'
    <3> SUFFICES ASSUME NEW s \in Sides, NEW p \in Prices, NEW i \in 1 .. Len(queues[s][p])
                 PROVE  LET o == queues[s][p][i]
                        IN /\ o.id \in DOMAIN orders' /\ Backs(orders'[o.id], o, s, p)
                           /\ (\A k \in Unapplied' : fills[k].maker # o.id) =>
                                Remaining(orders'[o.id]) = o.qty
                           /\ \A k \in Unapplied' : fills[k].maker = o.id =>
                                Remaining(orders'[o.id]) = o.qty + fills[k].qty
      BY <2>8 DEF RestingBacked
    <3> DEFINE o == queues[s][p][i]
    <3>1. o \in BookOrder /\ o.id # taker.id
      BY <2>1, <2>2, RestingIds
    <3>2. /\ o.id \in DOMAIN orders /\ Backs(orders[o.id], o, s, p)
          /\ (\A k \in Unapplied : fills[k].maker # o.id) => Remaining(orders[o.id]) = o.qty
          /\ \A k \in Unapplied :
               fills[k].maker = o.id => Remaining(orders[o.id]) = o.qty + fills[k].qty
      BY <2>2 DEF RestingBacked
    <3> HIDE DEF o
    <3>3. CASE o.id = f.maker
      <4>1. orders'[o.id] = made /\ orders[o.id] = old
        BY <2>11, <3>3 DEF made, old
      <4>2. Remaining(old) = o.qty + f.qty
        BY <2>4, <3>2, <3>3, <4>1 DEF f
      <4>3. o.qty \in Nat \ {0}
        BY <3>1 DEF BookOrder
      <4>4. Remaining(made) = o.qty
        BY <2>13, <2>16, <4>2, <4>3
      <4>5. Active(made)
        BY <2>16, <4>3, <4>4
      <4>6. Backs(made, o, s, p)
        BY <2>14, <3>2, <4>1, <4>5 DEF Backs
      <4> QED BY <2>7, <2>11, <3>2, <3>3, <4>1, <4>4, <4>6 DEF o
    <3>4. CASE o.id # f.maker
      <4>1. orders'[o.id] = orders[o.id]
        BY <2>11, <3>1, <3>2, <3>4
      <4>2. fills[c].maker # o.id
        BY <3>4 DEF f
      <4> QED BY <2>6, <2>7, <2>11, <3>2, <4>1, <4>2 DEF o
    <3> QED BY <3>3, <3>4
  <2>18. FillsBacked'
    <3> SUFFICES ASSUME NEW k \in Unapplied'
                 PROVE  LET m == fills[k].maker
                        IN /\ m \in DOMAIN orders' /\ m # taker.id /\ Active(orders'[m])
                           /\ orders'[m].user = fills[k].makerUser
                           /\ orders'[m].type = fills[k].makerType
                           /\ SideOf(fills[k].makerType) # SideOf(taker.type)
                           /\ (\A e \in index : e.id # m) => Remaining(orders'[m]) = fills[k].qty
      BY <2>8 DEF FillsBacked
    <3>1. k \in Unapplied /\ fills[k].maker # f.maker
      BY <2>7
    <3>2. fills[k].maker \in DOMAIN orders /\ fills[k].maker # taker.id
      BY <2>2, <3>1 DEF FillsBacked
    <3>3. orders'[fills[k].maker] = orders[fills[k].maker]
      BY <2>11, <3>1, <3>2
    <3> QED BY <2>2, <2>11, <3>1, <3>3 DEF FillsBacked
  <2>19. TakerBacked'
    <3> DEFINE row == orders[taker.id]
               start == [row EXCEPT !.filled = 0]
    <3>1. /\ row.user = taker.user /\ row.type = taker.type /\ row.qty = taker.qty
          /\ BookPrice(taker.type, row.price) = taker.price
          /\ (fills = <<>> => taker.rem = taker.qty)
      BY <2>1, <2>2 DEF TakerBacked
    <3>2. row \in Row /\ taker.qty \in Int /\ taker.rem \in Int
      BY <2>1, <2>2, <2>3, <2>12 DEF LInv, Order
    <3> HIDE DEF row
    <3>3. /\ start \in UncheckedRow /\ start.filled = 0 /\ start.qty = row.qty
          /\ start.user = row.user /\ start.type = row.type /\ start.price = row.price
      BY <3>2 DEF Row, UncheckedRow
    <3> HIDE DEF start
    <3>4. TakerRow = FilledBy(start, taker.qty - taker.rem)
      BY DEF TakerRow, start, row
    <3>5. taker.qty - taker.rem \in Int
      BY <3>2
    <3>6. /\ TakerRow.user = row.user /\ TakerRow.type = row.type /\ TakerRow.price = row.price
          /\ TakerRow.qty = row.qty /\ TakerRow.filled = 0 + (taker.qty - taker.rem)
          /\ TakerRow.status = IF row.qty - (0 + (taker.qty - taker.rem)) <= 0
                               THEN "FILLED" ELSE "PARTIALLY_FILLED"
      BY <3>3, <3>4, <3>5, FilledRow
    <3>7. TakerRow.filled = taker.qty - taker.rem /\ (taker.rem > 0 => Active(TakerRow))
      BY <3>1, <3>2, <3>6 DEF Active
    <3>8. cleared' # 0 /\ orders'[taker.id] = TakerRow
      BY <2>1, <2>4, <2>11
    <3> QED BY <2>2, <2>8, <3>1, <3>6, <3>7, <3>8 DEF TakerBacked
  <2>20. CommittedKept'
    <3> SUFFICES ASSUME NEW i \in DOMAIN saved.orders
                 PROVE  /\ i # taker.id /\ i \in DOMAIN orders'
                        /\ ~Active(saved.orders[i]) => orders'[i] = saved.orders[i]
                        /\ orders'[i].filled >= saved.orders[i].filled
      BY <2>8 DEF CommittedKept
    <3>1. /\ i # taker.id /\ i \in DOMAIN orders
          /\ ~Active(saved.orders[i]) => orders[i] = saved.orders[i]
          /\ orders[i].filled >= saved.orders[i].filled
      BY <2>1, <2>2 DEF CommittedKept
    <3>2. saved.orders[i].filled \in Int
      BY <2>1, <2>2 DEF LInv, RowsOK, Row
    <3>3. CASE i = f.maker
      <4>1. orders'[i] = made /\ orders[i] = old
        BY <2>11, <3>3 DEF made, old
      <4>2. made.filled >= saved.orders[i].filled
        BY <2>13, <2>14, <2>15, <3>1, <3>2, <4>1
      <4> QED BY <2>10, <2>11, <3>1, <3>3, <4>1, <4>2
    <3>4. CASE i # f.maker
      BY <2>11, <3>1, <3>4
    <3> QED BY <3>3, <3>4
  <2> QED BY <2>8, <2>17, <2>18, <2>19, <2>20 DEF RInv
<1> QED BY <1>1, <1>2

(* _finalize_order: what is left of a GTC order rests with its row, the row of
   an IOC order is cancelled. *)
LEMMA FinalizeRows == ASSUME RInv, LInv', Finalize PROVE RInv'
<1>1. CASE Abort
  BY <1>1, AbortRows
<1>2. CASE ~Abort
  <2>1. /\ pc = "done" /\ cleared = Len(fills) /\ orders' = FinalOrders /\ Finish
        /\ cleared' = 0 /\ status' = status
    BY <1>2 DEF Finalize
  <2>2. LInv /\ status = "ACTIVE" /\ RestingBacked /\ TakerBacked
    BY <2>1 DEF RInv, TakerBacked
  <2>3. pc' = "idle" /\ fills' = <<>>
    BY <2>1 DEF Finish, ForgetMatch
  <2>4. /\ taker \in Order /\ fills \in Seq(Trade) /\ queues \in QueuesType
        /\ taker.id \in DOMAIN orders
    BY <2>1, <2>2 DEF LInv, BInv, IInv, TypeOK, QueuesType
  <2>5. Unapplied = {} /\ Unapplied' = {}
    BY <2>1, <2>3, <2>4 DEF Unapplied
  <2>6. /\ DOMAIN orders' = DOMAIN orders
        /\ \A i \in DOMAIN orders : i # taker.id => orders'[i] = orders[i]
        /\ ~Expires => orders' = orders
    BY <2>1 DEF FinalOrders, Cancelled
  <2>7. ASSUME NEW s \in Sides, NEW p \in Prices, NEW i \in 1 .. Len(queues[s][p])
        PROVE  LET o == queues[s][p][i]
               IN /\ o.id \in DOMAIN orders' /\ Backs(orders'[o.id], o, s, p)
                  /\ Remaining(orders'[o.id]) = o.qty
    <3>1. queues[s][p][i].id # taker.id
      BY <2>1, <2>2, RestingIds
    <3> QED BY <2>2, <2>5, <2>6, <3>1 DEF RestingBacked
  <2>8. ASSUME NEW s \in Sides, NEW p \in Prices, NEW j \in 1 .. Len(queues'[s][p])
        PROVE  LET o == queues'[s][p][j]
               IN /\ o.id \in DOMAIN orders' /\ Backs(orders'[o.id], o, s, p)
                  /\ Remaining(orders'[o.id]) = o.qty
    <3>1. CASE UNCHANGED book
      <4>1. queues'[s][p] = queues[s][p]
        BY <3>1 DEF book
      <4> QED BY <2>7, <4>1
    <3>2. CASE taker.rem > 0 /\ taker.tif = "GTC"
      <4> DEFINE t == SideOf(taker.type)
                 r == taker.price
                 bo == [id |-> taker.id, user |-> taker.user, type |-> taker.type, qty |-> taker.rem]
                 q == queues[t][r]
      <4>1. queues' = [queues EXCEPT ![t][r] = Append(q, bo)] /\ ~Expires
        BY <2>1, <3>2 DEF Finish, AddOrder, Expires
      <4>2. t \in Sides /\ r \in Prices /\ q \in Seq(BookOrder) /\ Len(q) \in Nat
        <5>1. t \in Sides /\ r \in Prices
          BY <2>4 DEF SideOf, Sides, Order
        <5>2. q \in Seq(BookOrder)
          BY <2>4, <5>1 DEF QueuesType
        <5> QED BY <5>1, <5>2
      <4>3. CASE s = t /\ p = r /\ j = Len(q) + 1
        <5>1. queues'[s][p] = Append(q, bo)
          <6> HIDE DEF bo, t, r
          <6> QED BY <2>4, <4>1, <4>2, <4>3 DEF QueuesType
        <5>2. queues'[s][p][j] = bo
          <6> HIDE DEF bo, q
          <6> QED BY <4>2, <4>3, <5>1
        <5>3. /\ orders'[taker.id] = orders[taker.id] /\ taker.id \in DOMAIN orders'
          BY <2>4, <2>6, <4>1
        <5>4. Backs(orders[taker.id], bo, s, p)
          BY <2>1, <2>2, <3>2, <4>3 DEF TakerBacked, Backs
        <5>5. Remaining(orders[taker.id]) = taker.rem
          <6>1. /\ orders[taker.id].qty = taker.qty
                /\ orders[taker.id].filled = IF cleared = 0 THEN 0 ELSE taker.qty - taker.rem
                /\ fills = <<>> => taker.rem = taker.qty
            BY <2>1, <2>2 DEF TakerBacked
          <6>2. cleared = 0 => fills = <<>>
            <7>1. fills \in Seq(Trade) /\ cleared = Len(fills)
              BY <2>1, <2>4
            <7> QED BY <7>1, NoneLeft
          <6>3. taker.qty \in Int /\ taker.rem \in Int
            BY <2>4 DEF Order
          <6> QED BY <6>1, <6>2, <6>3 DEF Remaining
        <5> QED BY <5>2, <5>3, <5>4, <5>5
      <4>4. CASE ~(s = t /\ p = r /\ j = Len(q) + 1)
        <5>1. PICK i \in 1 .. Len(queues[s][p]) : queues'[s][p][j] = queues[s][p][i]
          <6> HIDE DEF bo
          <6>1. CASE s = t /\ p = r
            <7>1. queues'[s][p] = Append(q, bo) /\ queues[s][p] = q
              <8> HIDE DEF t, r
              <8> QED BY <2>4, <4>1, <4>2, <6>1 DEF QueuesType
            <7> HIDE DEF q, t, r
            <7>2. Len(Append(q, bo)) = Len(q) + 1 /\ \A x \in 1 .. Len(q) : Append(q, bo)[x] = q[x]
              BY <4>2
            <7>3. j \in 1 .. Len(q)
              BY <4>2, <4>4, <6>1, <7>1, <7>2
            <7> QED BY <7>1, <7>2, <7>3
          <6>2. CASE ~(s = t /\ p = r)
            <7>1. queues'[s][p] = queues[s][p]
              <8> HIDE DEF t, r, q
              <8> QED BY <2>4, <4>1, <4>2, <6>2 DEF QueuesType
            <7> QED BY <7>1
          <6> QED BY <6>1, <6>2
        <5> QED BY <2>7, <5>1
      <4> QED BY <4>3, <4>4
    <3> QED BY <2>1, <3>1, <3>2 DEF Finish
  <2>9. RestingBacked' /\ FillsBacked'
    BY <2>5, <2>8 DEF RestingBacked, FillsBacked
  <2> QED BY <2>3, <2>9 DEF RInv, TakerBacked, CommittedKept
<1> QED BY <1>1, <1>2

(* The invariant of the rows is inductive. *)
LEMMA RowsInvariant ==
  /\ ExchangeInit => RInv
  /\ RInv /\ [UserNext \/ AmmNext]_allVars => RInv'
<1>1. ASSUME ExchangeInit PROVE RInv
  <2>1. LInv
    BY <1>1, LedgerInvariant
  <2>2. pc = "idle" /\ queues = EmptyQueues
    BY <1>1 DEF ExchangeInit, Init
  <2>3. Unapplied = {}
    BY <2>1, <2>2, IdleUnapplied
  <2>4. \A s \in Sides, p \in Prices : 1 .. Len(queues[s][p]) = {}
    BY <2>2 DEF EmptyQueues
  <2> QED BY <2>1, <2>2, <2>3, <2>4 DEF RInv, RestingBacked, FillsBacked, TakerBacked, CommittedKept
<1>2. ASSUME RInv, [UserNext \/ AmmNext]_allVars PROVE RInv'
  <2>1. LInv'
    BY <1>2, LedgerInvariant DEF RInv
  <2>2. ASSUME NEW r \in Requests, Refuse(r) PROVE RInv'
    BY <1>2, <2>1, <2>2, EvictRows DEF Refuse
  <2>3. ASSUME Restart PROVE RInv'
    BY <1>2, <2>1, <2>3, AbortRows, EvictRows DEF Restart
  <2>4. ASSUME NEW outcome \in Outcomes, Resolve(outcome) PROVE RInv'
    <3>1. status' = "SETTLED" /\ pc' = "idle"
      BY <2>4 DEF Resolve, vars
    <3> QED BY <2>1, <3>1 DEF RInv, TakerBacked, CommittedKept
  <2>5. CASE UserNext
    BY <1>2, <2>1, <2>2, <2>3, <2>4, <2>5, PlaceRows, MatchRows, ClearRows, FinalizeRows,
       CancelRows DEF UserNext
  <2>6. CASE AmmNext
    BY <1>2, <2>1, <2>6, ReplaceRows, BatchRows DEF AmmNext
  <2>7. CASE UNCHANGED allVars
    <3>1. UNCHANGED <<queues, index, taker, pc, fills, orders, status, saved, cleared>>
      BY <2>7 DEF allVars, vars, exchangeVars
    <3>2. Unapplied' = Unapplied
      BY <3>1 DEF Unapplied
    <3> QED BY <1>2, <2>1, <3>1, <3>2 DEF RInv, RestingBacked, FillsBacked, TakerBacked, CommittedKept
  <2> QED BY <1>2, <2>5, <2>6, <2>7
<1> QED BY <1>1, <1>2

(* The rows, the book and the trades in flight agree at every step of every
   request of the exchange with the AMM. *)
THEOREM RowsInductive == AmmSpec => []RInv
BY RowsInvariant, PTL DEF AmmSpec

(* Between requests every order in the book of an active market is an active
   row with the same user, type, price and remaining quantity, whatever was
   matched, rolled back, replaced or cancelled before. *)
THEOREM BookIsBacked == AmmSpec => []BookBacked
<1>1. ASSUME RInv PROVE BookBacked
  <2> SUFFICES ASSUME pc = "idle", status = "ACTIVE", NEW s \in Sides, NEW p \in Prices,
                      NEW i \in 1 .. Len(queues[s][p])
               PROVE  LET o == queues[s][p][i]
                      IN /\ o.id \in ActiveIds
                         /\ orders[o.id].user = o.user /\ orders[o.id].type = o.type
                         /\ BookPrice(o.type, orders[o.id].price) = p
                         /\ Remaining(orders[o.id]) = o.qty
    BY DEF BookBacked
  <2>1. RestingBacked /\ Unapplied = {}
    BY <1>1, IdleUnapplied DEF RInv
  <2> QED BY <2>1 DEF RestingBacked, Backs, ActiveIds
<1> QED BY <1>1, RowsInductive, PTL

-----------------------------------------------------------------------------
(* The step of TerminalRowsStay *)
RowsStay ==
  \A i \in DOMAIN CommittedOrders :
    LET old == CommittedOrders[i]
        new == CommittedOrders'[i]
    IN /\ i \in DOMAIN CommittedOrders'
       /\ ~Active(old) => new = old
       /\ new.filled >= old.filled

(* A transaction that goes on, begins or is rolled back commits nothing. *)
LEMMA SameCommitted == ASSUME LInv, CommittedOrders' = CommittedOrders PROVE RowsStay
<1>1. PICK rows : rows = CommittedOrders
  OBVIOUS
<1>2. \A i \in DOMAIN rows : rows[i] \in Row
  BY <1>1 DEF CommittedOrders, LInv, RowsOK
<1>3. \A i \in DOMAIN rows : rows[i].filled >= rows[i].filled
  BY <1>2 DEF Row
<1> QED BY <1>1, <1>3 DEF RowsStay

(* Between requests, a request that only cancels active rows. *)
LEMMA CancelStays ==
  ASSUME LInv, pc = "idle", pc' = "idle", NEW ids,
         \A i \in ids : i \in DOMAIN orders => Active(orders[i]),
         orders' \in {orders, Cancelled(orders, ids)}
  PROVE  RowsStay
<1>1. CommittedOrders = orders /\ CommittedOrders' = orders'
  BY DEF CommittedOrders
<1>2. CASE orders' = orders
  BY <1>1, <1>2, SameCommitted
<1>3. CASE orders' = Cancelled(orders, ids)
  <2>1. PICK rows : rows = orders /\ RowsOK(rows, nextId)
    BY DEF LInv
  <2>2. \A i \in DOMAIN rows : LET c == Cancelled(rows, ids)[i]
                               IN /\ ~Active(rows[i]) => c = rows[i]
                                  /\ c.filled >= rows[i].filled
    BY <2>1, CancelledKeeps
  <2>3. DOMAIN Cancelled(rows, ids) = DOMAIN rows
    BY DEF Cancelled
  <2> QED BY <1>1, <1>3, <2>1, <2>2, <2>3 DEF RowsStay
<1> QED BY <1>2, <1>3

(* The commit: what the transaction has done to the rows it found becomes
   visible, and the taker's row was not among them. *)
LEMMA FinalizeStays == ASSUME RInv, Finalize PROVE RowsStay
<1>1. pc = "done" /\ LInv /\ pc' = "idle" /\ CommittedOrders = saved.orders
  BY DEF Finalize, Abort, Finish, ForgetMatch, RInv, CommittedOrders
<1>2. CASE Abort
  <2>1. CommittedOrders' = CommittedOrders
    BY <1>1, <1>2 DEF Abort, CommittedOrders
  <2> QED BY <1>1, <2>1, SameCommitted
<1>3. CASE orders' = FinalOrders
  <2>1. CommittedOrders' = orders'
    BY <1>1 DEF CommittedOrders
  <2>2. \A i \in DOMAIN orders : i # taker.id => i \in DOMAIN orders' /\ orders'[i] = orders[i]
    BY <1>3 DEF FinalOrders, Cancelled
  <2> QED BY <1>1, <2>1, <2>2 DEF RowsStay, RInv, CommittedKept
<1> QED BY <1>2, <1>3 DEF Finalize

(* Whatever a request does, a row that was committed as filled or cancelled
   stays as it is, and no fill of a committed row is ever taken back. *)
THEOREM TerminalRowsKept == AmmSpec => TerminalRowsStay
<1>1. RInv /\ [UserNext \/ AmmNext]_allVars => [RowsStay]_allVars
  <2> SUFFICES ASSUME RInv, UserNext \/ AmmNext PROVE RowsStay
    OBVIOUS
  <2>1. LInv
    BY DEF RInv
  <2>2. ASSUME NEW r \in Requests, Place(r) \/ Refuse(r) PROVE RowsStay
    <3>1. CommittedOrders' = CommittedOrders
      BY <2>2 DEF Place, Submit, TakeOrder, Refuse, match, exchangeVars, CommittedOrders
    <3> QED BY <2>1, <3>1, SameCommitted
  <2>3. CASE Match
    <3>1. pc # "idle" /\ pc' # "idle" /\ saved' = saved
      BY <2>3 DEF Match, ScanLevel, StopMatch, SkipOwn, Fill, LeaveLevel, exchangeVars
    <3>2. CommittedOrders' = CommittedOrders
      BY <3>1 DEF CommittedOrders
    <3> QED BY <2>1, <3>2, SameCommitted
  <2>4. ASSUME pc = "done", Abort PROVE RowsStay
    <3>1. CommittedOrders' = CommittedOrders
      BY <2>4 DEF Abort, ForgetMatch, CommittedOrders
    <3> QED BY <2>1, <3>1, SameCommitted
  <2>5. CASE ClearFill
    <3>1. CASE ~Abort
      <4>1. pc = "done" /\ pc' = pc /\ saved' = saved
        BY <2>5, <3>1 DEF ClearFill, vars
      <4>2. CommittedOrders' = CommittedOrders
        BY <4>1 DEF CommittedOrders
      <4> QED BY <2>1, <4>2, SameCommitted
    <3> QED BY <2>4, <2>5, <3>1 DEF ClearFill
  <2>6. ASSUME NEW id \in DOMAIN orders, CancelOrder(id) PROVE RowsStay
    <3>1. /\ pc = "idle" /\ pc' = "idle" /\ Active(orders[id])
          /\ orders' \in {orders, Cancelled(orders, {id})}
      BY <2>6 DEF CancelOrder, match
    <3> QED BY <2>1, <3>1, CancelStays
  <2>7. ASSUME NEW outcome \in Outcomes, Resolve(outcome) PROVE RowsStay
    <3> DEFINE ids == {i \in DOMAIN orders : Active(orders[i])}
    <3>1. pc = "idle" /\ pc' = "idle" /\ orders' = Cancelled(orders, ids)
      BY <2>7 DEF Resolve, vars
    <3> QED BY <2>1, <3>1, CancelStays
  <2>8. CASE Restart
    <3>1. CASE pc # "done"
      <4>1. CommittedOrders' = CommittedOrders
        BY <2>8, <3>1 DEF Restart, match, exchangeVars, CommittedOrders
      <4> QED BY <2>1, <4>1, SameCommitted
    <3> QED BY <2>4, <2>8, <3>1 DEF Restart
  <2>9. ASSUME NEW id \in DOMAIN orders, NEW r \in Requests, Replace(id, r) PROVE RowsStay
    <3>1. CommittedOrders' = CommittedOrders
      BY <2>9 DEF Replace, Submit, TakeOrder, match, exchangeVars, CommittedOrders
    <3> QED BY <2>1, <3>1, SameCommitted
  <2>10. ASSUME NEW u, NEW scope, BatchCancel(u, scope) PROVE RowsStay
    <3> DEFINE ids == {i \in DOMAIN orders : /\ orders[i].user = u /\ Active(orders[i])
                                             /\ InScope(orders[i], scope)}
    <3>1. pc = "idle" /\ pc' = "idle" /\ orders' \in {orders, Cancelled(orders, ids)}
      BY <2>10 DEF BatchCancel, match
    <3> QED BY <2>1, <3>1, CancelStays
  <2>11. CASE UserNext
    BY <2>2, <2>3, <2>5, <2>6, <2>7, <2>8, <2>11, FinalizeStays DEF UserNext
  <2>12. CASE AmmNext
    BY <2>9, <2>10, <2>12 DEF AmmNext
  <2> QED BY <2>11, <2>12
<1> QED BY <1>1, RowsInductive, PTL DEF AmmSpec, TerminalRowsStay, RowsStay

-----------------------------------------------------------------------------
(* The shares of u on side s that are pending *)
Pend(L, u, s) == L.pos[u][s].pend

(* An order of this type and owner sells shares of u on side s; n of them, if
   it does. *)
Sells(type, owner, u, s) == owner = u /\ ~PaysFunds(type) /\ SoldOutcome(type) = s
SoldBy(type, owner, u, s, n) == IF Sells(type, owner, u, s) THEN n ELSE 0

(* Pending shares are integers. *)
LEMMA PendInt ==
  ASSUME NEW L \in Ledgers(Users), NEW u \in Users, NEW s \in Outcomes
  PROVE  Pend(L, u, s) \in Int
BY DEF Ledgers, PositionRow, Pend

(* UPDATEs of accounts leave them alone. *)
LEMMA CreditPend ==
  ASSUME NEW L \in Ledgers(Users), NEW v \in Users \union {Platform}, NEW x \in Int, NEW y \in Int
  PROVE  LET M == Credit(L, v, x, y)
         IN M \in Ledgers(Users) /\ \A u, s : Pend(M, u, s) = Pend(L, u, s)
<1>1. Credit(L, v, x, y) \in Ledgers(Users)
  BY CreditShifts, FiniteUsers
<1>2. \A u, s : Pend(Credit(L, v, x, y), u, s) = Pend(L, u, s)
  BY DEF Credit, Pend
<1> QED BY <1>1, <1>2

(* Those of positions add to them. *)
LEMMA HoldPend ==
  ASSUME NEW L \in Ledgers(Users), NEW v \in Users, NEW x \in Outcomes,
         NEW a \in Int, NEW b \in Int, NEW c \in Int
  PROVE  LET M == Hold(L, v, x, a, b, c)
         IN /\ M \in Ledgers(Users)
            /\ \A u \in Users, s \in Outcomes :
                 Pend(M, u, s) = IF v = u /\ x = s THEN Pend(L, u, s) + c ELSE Pend(L, u, s)
<1> DEFINE M == Hold(L, v, x, a, b, c)
<1>1. /\ M \in Ledgers(Users)
      /\ M.pos[v][x] = [vol |-> L.pos[v][x].vol + a, cost |-> L.pos[v][x].cost + b,
                        pend |-> L.pos[v][x].pend + c]
      /\ \A t \in Outcomes : t # x => M.pos[v][t] = L.pos[v][t]
      /\ \A w \in Users : w # v => M.pos[w] = L.pos[w]
  BY HoldRows, HoldShifts, FiniteUsers
<1> HIDE DEF M
<1>2. ASSUME NEW u \in Users, NEW s \in Outcomes
      PROVE  Pend(M, u, s) = IF v = u /\ x = s THEN Pend(L, u, s) + c ELSE Pend(L, u, s)
  BY <1>1 DEF Pend
<1> QED BY <1>1, <1>2 DEF M

(* The market's totals have none. *)
LEMMA TallyPend ==
  ASSUME NEW L, NEW x, NEW y, NEW z
  PROVE  \A u, s : Pend(Tally(L, x, y, z), u, s) = Pend(L, u, s)
BY DEF Tally, Pend

(* Who acquires shares has as many pending as before. *)
LEMMA AcquirePend ==
  ASSUME NEW L \in Ledgers(Users), NEW v \in Users, NEW x \in Outcomes,
         NEW price \in Int, NEW qty \in Int
  PROVE  LET M == Acquire(L, v, x, price, qty)
         IN /\ M \in Ledgers(Users)
            /\ \A u \in Users, s \in Outcomes : Pend(M, u, s) = Pend(L, u, s)
<1>1. PICK value \in Int : value = PriceOf(x, price) * qty
  BY AcquireShifts, FiniteUsers
<1>2. -value \in Int
  BY <1>1
<1>3. PICK K : K = Credit(L, v, 0, -value)
  OBVIOUS
<1>4. K \in Ledgers(Users) /\ \A u, s : Pend(K, u, s) = Pend(L, u, s)
  BY <1>2, <1>3, CreditPend
<1>5. Acquire(L, v, x, price, qty) = Hold(K, v, x, qty, value, 0)
  BY <1>1, <1>3 DEF Acquire
<1>6. \A u \in Users, s \in Outcomes : Pend(K, u, s) \in Int
  BY <1>4, PendInt
<1>7. LET M == Hold(K, v, x, qty, value, 0)
      IN /\ M \in Ledgers(Users)
         /\ \A u \in Users, s \in Outcomes :
              Pend(M, u, s) = IF v = u /\ x = s THEN Pend(K, u, s) + 0 ELSE Pend(K, u, s)
  BY <1>1, <1>4, HoldPend
<1> QED BY <1>4, <1>5, <1>6, <1>7

(* Who disposes of shares had them pending. *)
LEMMA DisposePend ==
  ASSUME NEW L \in Ledgers(Users), NEW v \in Users, NEW x \in Outcomes,
         NEW price \in Int, NEW qty \in Nat \ {0}
  PROVE  LET M == Dispose(L, v, x, price, qty)
         IN /\ M \in Ledgers(Users)
            /\ \A u \in Users, s \in Outcomes :
                 Pend(M, u, s) = Pend(L, u, s) - (IF v = u /\ x = s THEN qty ELSE 0)
<1>1. Dispose(L, v, x, price, qty) \in Ledgers(Users)
  BY DisposeShifts, FiniteUsers
<1>2. PICK value \in Int : value = PriceOf(x, price) * qty
  BY DisposeShifts, FiniteUsers
<1>3. PICK rel \in Int : rel = ReleasedCost(L.pos[v][x], qty)
  <2>1. L.pos[v][x] \in PositionRow
    BY DEF Ledgers
  <2> QED BY <2>1, ReleasedInt
<1>4. PICK K : K = Hold(L, v, x, -qty, -rel, -qty)
  OBVIOUS
<1>5. /\ K \in Ledgers(Users)
      /\ \A u \in Users, s \in Outcomes :
           Pend(K, u, s) = IF v = u /\ x = s THEN Pend(L, u, s) + (-qty) ELSE Pend(L, u, s)
  <2>1. -qty \in Int /\ -rel \in Int
    BY <1>3
  <2> QED BY <1>4, <2>1, HoldPend
<1>6. \A u, s : Pend(Credit(K, v, value, 0), u, s) = Pend(K, u, s)
  BY <1>2, <1>5, CreditPend
<1>7. Dispose(L, v, x, price, qty) = Tally(Credit(K, v, value, 0), 0, -(value - rel), 0)
  BY <1>2, <1>3, <1>4 DEF Dispose
<1>8. \A u, s : Pend(Dispose(L, v, x, price, qty), u, s) = Pend(K, u, s)
  BY <1>6, <1>7, TallyPend
<1>9. ASSUME NEW u \in Users, NEW s \in Outcomes
      PROVE  Pend(Dispose(L, v, x, price, qty), u, s)
               = Pend(L, u, s) - (IF v = u /\ x = s THEN qty ELSE 0)
  <2>1. Pend(L, u, s) \in Int /\ qty \in Int
    BY PendInt
  <2> QED BY <1>5, <1>8, <2>1
<1> QED BY <1>1, <1>9

(* A trade takes its quantity from what its sellers have pending. *)
LEMMA TradePend ==
  ASSUME NEW L \in Ledgers(Users), NEW t \in TradeOf(Users, AllBookTypes),
         t.buyType \in {"NATIVE_BUY", "SYNTHETIC_BUY"},
         t.sellType \in {"NATIVE_SELL", "SYNTHETIC_SELL"}
  PROVE  LET M == settle_trade(L, t)
         IN /\ M \in Ledgers(Users)
            /\ \A u \in Users, s \in Outcomes :
                 Pend(M, u, s) = Pend(L, u, s) - SoldBy(t.buyType, t.buyUser, u, s, t.qty)
                                               - SoldBy(t.sellType, t.sellUser, u, s, t.qty)
<1>1. /\ t.buyUser \in Users /\ t.sellUser \in Users /\ t.price \in Int
      /\ t.qty \in Nat \ {0} /\ t.qty \in Int
  BY DEF TradeOf
<1>2. "YES" \in Outcomes /\ "NO" \in Outcomes /\ "YES" # "NO"
  BY DEF Outcomes
<1>3. settle_trade(L, t) \in Ledgers(Users)
  BY TradeBalanced, FiniteUsers
<1> SUFFICES ASSUME NEW u \in Users, NEW s \in Outcomes
             PROVE  Pend(settle_trade(L, t), u, s)
                      = Pend(L, u, s) - SoldBy(t.buyType, t.buyUser, u, s, t.qty)
                                      - SoldBy(t.sellType, t.sellUser, u, s, t.qty)
  BY <1>3
<1>4. Pend(L, u, s) \in Int
  BY PendInt
<1>5. CASE t.buyType = "NATIVE_BUY" /\ t.sellType = "SYNTHETIC_SELL"
  <2>1. settle_trade(L, t) = clear_mint(L, t)
    BY <1>5 DEF settle_trade, determine_scenario
  <2>2. PICK K \in Ledgers(Users) : K = Acquire(L, t.buyUser, "YES", t.price, t.qty)
    BY <1>1, <1>2, AcquirePend
  <2>3. PICK J : J = Acquire(K, t.sellUser, "NO", t.price, t.qty)
    OBVIOUS
  <2>4. Pend(K, u, s) = Pend(L, u, s)
    BY <1>1, <1>2, <2>2, AcquirePend
  <2>5. Pend(J, u, s) = Pend(K, u, s)
    BY <1>1, <1>2, <2>3, AcquirePend
  <2>6. settle_trade(L, t) = Tally(J, Par * t.qty, 0, t.qty)
    BY <2>1, <2>2, <2>3 DEF clear_mint, Issue
  <2>7. ~Sells(t.buyType, t.buyUser, u, s) /\ ~Sells(t.sellType, t.sellUser, u, s)
    BY <1>5 DEF Sells, PaysFunds
  <2> QED BY <1>4, <2>4, <2>5, <2>6, <2>7, TallyPend DEF SoldBy
<1>6. CASE t.buyType = "NATIVE_BUY" /\ t.sellType = "NATIVE_SELL"
  <2>1. settle_trade(L, t) = clear_transfer_yes(L, t)
    BY <1>6 DEF settle_trade, determine_scenario
  <2>2. PICK K \in Ledgers(Users) : K = Acquire(L, t.buyUser, "YES", t.price, t.qty)
    BY <1>1, <1>2, AcquirePend
  <2>3. Pend(K, u, s) = Pend(L, u, s)
    BY <1>1, <1>2, <2>2, AcquirePend
  <2>4. settle_trade(L, t) = Dispose(K, t.sellUser, "YES", t.price, t.qty)
    BY <2>1, <2>2 DEF clear_transfer_yes
  <2>5. Pend(settle_trade(L, t), u, s)
          = Pend(K, u, s) - (IF t.sellUser = u /\ "YES" = s THEN t.qty ELSE 0)
    BY <1>1, <1>2, <2>4, DisposePend
  <2>6. /\ ~Sells(t.buyType, t.buyUser, u, s)
        /\ Sells(t.sellType, t.sellUser, u, s) <=> t.sellUser = u /\ "YES" = s
    BY <1>6 DEF Sells, PaysFunds, SoldOutcome
  <2> QED BY <1>1, <1>4, <2>3, <2>5, <2>6 DEF SoldBy
<1>7. CASE t.buyType = "SYNTHETIC_BUY" /\ t.sellType = "SYNTHETIC_SELL"
  <2>1. settle_trade(L, t) = clear_transfer_no(L, t)
    BY <1>7 DEF settle_trade, determine_scenario
  <2>2. PICK K \in Ledgers(Users) : K = Acquire(L, t.sellUser, "NO", t.price, t.qty)
    BY <1>1, <1>2, AcquirePend
  <2>3. Pend(K, u, s) = Pend(L, u, s)
    BY <1>1, <1>2, <2>2, AcquirePend
  <2>4. settle_trade(L, t) = Dispose(K, t.buyUser, "NO", t.price, t.qty)
    BY <2>1, <2>2 DEF clear_transfer_no
  <2>5. Pend(settle_trade(L, t), u, s)
          = Pend(K, u, s) - (IF t.buyUser = u /\ "NO" = s THEN t.qty ELSE 0)
    BY <1>1, <1>2, <2>4, DisposePend
  <2>6. /\ Sells(t.buyType, t.buyUser, u, s) <=> t.buyUser = u /\ "NO" = s
        /\ ~Sells(t.sellType, t.sellUser, u, s)
    BY <1>7 DEF Sells, PaysFunds, SoldOutcome
  <2> QED BY <1>1, <1>4, <2>3, <2>5, <2>6 DEF SoldBy
<1>8. CASE t.buyType = "SYNTHETIC_BUY" /\ t.sellType = "NATIVE_SELL"
  <2>1. settle_trade(L, t) = clear_burn(L, t)
    BY <1>8 DEF settle_trade, determine_scenario
  <2>2. PICK K \in Ledgers(Users) : K = Dispose(L, t.sellUser, "YES", t.price, t.qty)
    BY <1>1, <1>2, DisposePend
  <2>3. PICK J : J = Dispose(K, t.buyUser, "NO", t.price, t.qty)
    OBVIOUS
  <2>4. Pend(K, u, s) = Pend(L, u, s) - (IF t.sellUser = u /\ "YES" = s THEN t.qty ELSE 0)
    BY <1>1, <1>2, <2>2, DisposePend
  <2>5. Pend(J, u, s) = Pend(K, u, s) - (IF t.buyUser = u /\ "NO" = s THEN t.qty ELSE 0)
    BY <1>1, <1>2, <2>3, DisposePend
  <2>6. settle_trade(L, t) = Tally(J, Par * (-t.qty), 0, -t.qty)
    BY <2>1, <2>2, <2>3 DEF clear_burn, Issue
  <2>7. Pend(settle_trade(L, t), u, s) = Pend(J, u, s)
    BY <2>6, TallyPend
  <2>8. /\ Sells(t.buyType, t.buyUser, u, s) <=> t.buyUser = u /\ "NO" = s
        /\ Sells(t.sellType, t.sellUser, u, s) <=> t.sellUser = u /\ "YES" = s
    BY <1>8 DEF Sells, PaysFunds, SoldOutcome
  <2> QED BY <1>1, <1>4, <2>4, <2>5, <2>7, <2>8 DEF SoldBy
<1> QED BY <1>5, <1>6, <1>7, <1>8

(* Fees concern money only. *)
LEMMA FeePend ==
  ASSUME NEW L \in Ledgers(Users), NEW v \in Users, NEW type, NEW base \in Int
  PROVE  LET M == collect_fee(L, v, type, base)
         IN M \in Ledgers(Users) /\ \A u, s : Pend(M, u, s) = Pend(L, u, s)
<1>1. collect_fee(L, v, type, base) \in Ledgers(Users)
  BY FeeBalanced, FiniteUsers
<1>2. \A u, s : Pend(collect_fee(L, v, type, base), u, s) = Pend(L, u, s)
  BY DEF collect_fee, Credit, Pend
<1> QED BY <1>1, <1>2

(* Netting takes shares that are not pending. *)
LEMMA NettingPend ==
  ASSUME NEW L \in Ledgers(Users), NEW v \in Users
  PROVE  LET M == execute_netting(L, v)
         IN M \in Ledgers(Users) /\ \A u \in Users, s \in Outcomes : Pend(M, u, s) = Pend(L, u, s)
<1>1. execute_netting(L, v) \in Ledgers(Users)
  BY NettingBalanced, FiniteUsers
<1>2. "YES" \in Outcomes /\ "NO" \in Outcomes
  BY DEF Outcomes
<1>3. CASE v \in NoNetting \/ Nettable(L, v) <= 0
  BY <1>1, <1>3 DEF execute_netting
<1>4. CASE ~(v \in NoNetting \/ Nettable(L, v) <= 0)
  <2>1. L.pos[v]["YES"] \in PositionRow /\ L.pos[v]["NO"] \in PositionRow
    BY <1>2 DEF Ledgers
  <2>2. PICK n \in Nat \ {0} : n = Nettable(L, v)
    <3>1. Nettable(L, v) \in Int
      BY <2>1 DEF Nettable, PositionRow
    <3> QED BY <1>4, <3>1
  <2>3. PICK y \in Int, z \in Int : y = ReleasedCost(L.pos[v]["YES"], n)
                                    /\ z = ReleasedCost(L.pos[v]["NO"], n)
    BY <2>1, ReleasedInt
  <2>4. -n \in Int /\ -y \in Int /\ -z \in Int
    BY <2>2, <2>3
  <2>5. PICK K : K = Hold(L, v, "YES", -n, -y, 0)
    OBVIOUS
  <2>6. PICK J : J = Hold(K, v, "NO", -n, -z, 0)
    OBVIOUS
  <2>7. execute_netting(L, v) =
          Issue(Tally(Credit(J, v, Par * n, 0), 0, -(Par * n - (y + z)), 0), -n)
    BY <1>4, <2>2, <2>3, <2>5, <2>6 DEF execute_netting
  <2>8. \A u, s : Pend(execute_netting(L, v), u, s) = Pend(J, u, s)
    BY <2>7 DEF Issue, Tally, Credit, Pend
  <2>9. /\ K \in Ledgers(Users)
        /\ \A u \in Users, s \in Outcomes :
             Pend(K, u, s) = IF v = u /\ "YES" = s THEN Pend(L, u, s) + 0 ELSE Pend(L, u, s)
    BY <1>2, <2>4, <2>5, HoldPend
  <2>10. \A u \in Users, s \in Outcomes :
           Pend(J, u, s) = IF v = u /\ "NO" = s THEN Pend(K, u, s) + 0 ELSE Pend(K, u, s)
    BY <1>2, <2>4, <2>6, <2>9, HoldPend
  <2>11. \A u \in Users, s \in Outcomes : Pend(L, u, s) \in Int
    BY PendInt
  <2> QED BY <1>1, <2>8, <2>9, <2>10, <2>11
<1> QED BY <1>3, <1>4

(* A sell order has what it offers pending from its freeze on. *)
LEMMA FreezePend ==
  ASSUME NEW L \in Ledgers(Users), NEW v \in Users, NEW type, NEW price \in Int, NEW qty \in Int
  PROVE  LET M == Freeze(L, v, type, price, qty)
         IN \A u \in Users, s \in Outcomes :
              Pend(M, u, s) = Pend(L, u, s) + SoldBy(type, v, u, s, qty)
<1> SUFFICES ASSUME NEW u \in Users, NEW s \in Outcomes
             PROVE  Pend(Freeze(L, v, type, price, qty), u, s)
                      = Pend(L, u, s) + SoldBy(type, v, u, s, qty)
  OBVIOUS
<1>1. Pend(L, u, s) \in Int
  BY PendInt
<1>2. PICK a \in Int : a = FreezeAmount(type, price, qty)
  BY FreezeBalanced, FiniteUsers
<1>3. CASE PaysFunds(type)
  <2>1. -a \in Int
    BY <1>2
  <2>2. Freeze(L, v, type, price, qty) = Credit(L, v, -a, a)
    BY <1>2, <1>3 DEF Freeze
  <2>3. Pend(Credit(L, v, -a, a), u, s) = Pend(L, u, s)
    BY <1>2, <2>1, CreditPend
  <2> QED BY <1>1, <1>3, <2>2, <2>3 DEF SoldBy, Sells
<1>4. CASE ~PaysFunds(type)
  <2>1. PICK x \in Outcomes : x = SoldOutcome(type)
    BY DEF SoldOutcome, Outcomes
  <2>2. Freeze(L, v, type, price, qty) = Hold(L, v, x, 0, 0, qty)
    BY <1>4, <2>1 DEF Freeze, FreezeAmount
  <2>3. Pend(Hold(L, v, x, 0, 0, qty), u, s)
          = IF v = u /\ x = s THEN Pend(L, u, s) + qty ELSE Pend(L, u, s)
    BY <2>1, HoldPend
  <2> QED BY <1>1, <1>4, <2>1, <2>2, <2>3 DEF SoldBy, Sells
<1> QED BY <1>3, <1>4

(* _unfreeze_remainder gives back what a sell order has left. *)
LEMMA UnfreezePend ==
  ASSUME NEW L \in Ledgers(Users), NEW row \in Row
  PROVE  LET M == UnfreezeRemainder(L, row)
         IN \A u \in Users, s \in Outcomes :
              Pend(M, u, s) = Pend(L, u, s) - SoldBy(row.type, row.user, u, s, Remaining(row))
<1> SUFFICES ASSUME NEW u \in Users, NEW s \in Outcomes
             PROVE  Pend(UnfreezeRemainder(L, row), u, s)
                      = Pend(L, u, s) - SoldBy(row.type, row.user, u, s, Remaining(row))
  OBVIOUS
<1>1. Pend(L, u, s) \in Int /\ "YES" \in Outcomes /\ "NO" \in Outcomes /\ "YES" # "NO"
  BY PendInt DEF Outcomes
<1>2. row.user \in Users /\ row.frozen \in Int /\ Remaining(row) \in Int
  BY DEF Row, Remaining
<1>3. ASSUME NEW a \in Int, NEW y \in Int, NEW n \in Int
      PROVE  Pend(Unfreeze(L, row.user, a, y, n), u, s)
               = Pend(L, u, s) - (IF row.user = u /\ "YES" = s THEN y ELSE 0)
                               - (IF row.user = u /\ "NO" = s THEN n ELSE 0)
  <2>1. -a \in Int /\ -y \in Int /\ -n \in Int
    OBVIOUS
  <2>2. PICK K : K = Credit(L, row.user, a, -a)
    OBVIOUS
  <2>3. PICK J : J = Hold(K, row.user, "YES", 0, 0, -y)
    OBVIOUS
  <2>4. Unfreeze(L, row.user, a, y, n) = Hold(J, row.user, "NO", 0, 0, -n)
    BY <2>2, <2>3 DEF Unfreeze
  <2>5. K \in Ledgers(Users) /\ Pend(K, u, s) = Pend(L, u, s)
    BY <1>2, <2>1, <2>2, CreditPend
  <2>6. /\ J \in Ledgers(Users)
        /\ Pend(J, u, s) = IF row.user = u /\ "YES" = s THEN Pend(K, u, s) + (-y) ELSE Pend(K, u, s)
    BY <1>1, <1>2, <2>1, <2>3, <2>5, HoldPend
  <2>7. Pend(Hold(J, row.user, "NO", 0, 0, -n), u, s)
          = IF row.user = u /\ "NO" = s THEN Pend(J, u, s) + (-n) ELSE Pend(J, u, s)
    BY <1>1, <1>2, <2>1, <2>6, HoldPend
  <2> QED BY <1>1, <2>4, <2>5, <2>6, <2>7
<1>4. PICK z \in Int : z = 0
  OBVIOUS
<1>5. PICK k \in Int : k = Remaining(row)
  BY <1>2
<1>6. CASE PaysFunds(row.type)
  <2>1. UnfreezeRemainder(L, row) = Unfreeze(L, row.user, row.frozen, z, z)
    BY <1>4, <1>6 DEF UnfreezeRemainder
  <2>2. Pend(Unfreeze(L, row.user, row.frozen, z, z), u, s)
               = Pend(L, u, s) - (IF row.user = u /\ "YES" = s THEN z ELSE 0)
                               - (IF row.user = u /\ "NO" = s THEN z ELSE 0)
    BY <1>2, <1>3
  <2> QED BY <1>1, <1>4, <1>6, <2>1, <2>2 DEF SoldBy, Sells
<1>7. CASE ~PaysFunds(row.type) /\ SoldOutcome(row.type) = "YES"
  <2>1. UnfreezeRemainder(L, row) = Unfreeze(L, row.user, z, k, z)
    BY <1>4, <1>5, <1>7 DEF UnfreezeRemainder
  <2>2. Pend(Unfreeze(L, row.user, z, k, z), u, s)
               = Pend(L, u, s) - (IF row.user = u /\ "YES" = s THEN k ELSE 0)
                               - (IF row.user = u /\ "NO" = s THEN z ELSE 0)
    BY <1>3
  <2> QED BY <1>1, <1>4, <1>5, <1>7, <2>1, <2>2 DEF SoldBy, Sells
<1>8. CASE ~PaysFunds(row.type) /\ SoldOutcome(row.type) = "NO"
  <2>1. UnfreezeRemainder(L, row) = Unfreeze(L, row.user, z, z, k)
    BY <1>1, <1>4, <1>5, <1>8 DEF UnfreezeRemainder
  <2>2. Pend(Unfreeze(L, row.user, z, z, k), u, s)
               = Pend(L, u, s) - (IF row.user = u /\ "YES" = s THEN z ELSE 0)
                               - (IF row.user = u /\ "NO" = s THEN k ELSE 0)
    BY <1>3
  <2> QED BY <1>1, <1>4, <1>5, <1>8, <2>1, <2>2 DEF SoldBy, Sells
<1> QED BY <1>6, <1>7, <1>8 DEF SoldOutcome

-----------------------------------------------------------------------------
(* What the active sell orders of u have left to sell on side s, and the share
   of one row in it *)
Offered(rows, u, s) ==
  Pending(rows, {i \in DOMAIN rows : Active(rows[i])}, u, s, Remainders(rows))
Offer(row, u, s) ==
  IF Active(row) THEN SoldBy(row.type, row.user, u, s, Remaining(row)) ELSE 0

(* What is offered is an integer. *)
LEMMA OfferedInt ==
  ASSUME NEW rows, NEW n \in Int, RowsOK(rows, n), NEW u, NEW s
  PROVE  /\ Offered(rows, u, s) \in Int
         /\ \A i \in DOMAIN rows : Offer(rows[i], u, s) \in Int
<1>1. {i \in DOMAIN rows : Active(rows[i])} \subseteq DOMAIN rows
  OBVIOUS
<1>2. \A i \in DOMAIN rows : Remaining(rows[i]) \in Int
  BY DEF RowsOK, Row, Remaining
<1> QED BY <1>1, <1>2, RowSumsAreInts DEF Offered, Offer, SoldBy

(* It changes by the share of a row that is written. *)
LEMMA OneRow ==
  ASSUME NEW rows, NEW n \in Int, RowsOK(rows, n), NEW new, NEW m \in Int, RowsOK(new, m),
         NEW id, DOMAIN new = DOMAIN rows \union {id},
         \A i \in DOMAIN rows : i # id => new[i] = rows[i],
         NEW u, NEW s, NEW x, x = IF id \in DOMAIN rows THEN Offer(rows[id], u, s) ELSE 0
  PROVE  Offered(new, u, s) = Offered(rows, u, s) - x + Offer(new[id], u, s)
<1> DEFINE Sellers(r) == {i \in DOMAIN r : /\ Active(r[i])
                                          /\ Sells(r[i].type, r[i].user, u, s)}
           S == Sellers(rows)
           T == Sellers(new)
           F == Remainders(rows)
           G == Remainders(new)
           W == S \ {id}
<1>1. /\ Offered(rows, u, s) = SumOver(F, S) /\ Offered(new, u, s) = SumOver(G, T)
  <2>1. ASSUME NEW r
        PROVE  Offered(r, u, s) = SumOver(Remainders(r), Sellers(r))
    <3>1. Sellers(r) = {i \in {i \in DOMAIN r : Active(r[i])} : /\ r[i].user = u
                               /\ ~PaysFunds(r[i].type)
                               /\ SoldOutcome(r[i].type) = s}
      BY DEF Sells
    <3> QED BY <3>1 DEF Offered, Pending
  <2> QED BY <2>1
<1>2. IsFiniteSet(S) /\ IsFiniteSet(T) /\ IsFiniteSet(W)
  <2>1. IsFiniteSet(1 .. n - 1) /\ IsFiniteSet(1 .. m - 1)
    BY FS_Interval
  <2>2. S \subseteq 1 .. n - 1 /\ T \subseteq 1 .. m - 1 /\ W \subseteq S
    BY DEF RowsOK
  <2> HIDE DEF S, T, W
  <2> QED BY <2>1, <2>2, FS_Subset
<1>3. /\ \A i \in DOMAIN rows : F[i] = Remaining(rows[i]) /\ F[i] \in Int
      /\ \A i \in DOMAIN new : G[i] = Remaining(new[i]) /\ G[i] \in Int
  BY DEF RowsOK, Row, Remaining, Remainders
<1>4. W = T \ {id}
  OBVIOUS
<1>5. \A i \in W : i \in DOMAIN rows /\ i \in DOMAIN new /\ G[i] = F[i]
  BY <1>3
<1>6. /\ \A i \in S : F[i] \in Int
      /\ \A i \in T : G[i] \in Int
      /\ \A i \in W : F[i] \in Int
  BY <1>3
<1>7. id \in S <=> id \in DOMAIN rows /\ Active(rows[id]) /\ Sells(rows[id].type, rows[id].user, u, s)
  OBVIOUS
<1>8. id \in T <=> Active(new[id]) /\ Sells(new[id].type, new[id].user, u, s)
  OBVIOUS
<1>9. (id \notin S => W = S) /\ (id \notin T => W = T)
  BY <1>4
<1>10. PICK y \in Int : y = Offer(new[id], u, s)
  BY OfferedInt
<1>11. x \in Int
  <2>1. \A i \in DOMAIN rows : Offer(rows[i], u, s) \in Int
    BY OfferedInt
  <2> QED BY <2>1
<1>12. /\ id \in S => x = F[id]
       /\ id \notin S => x = 0
       /\ id \in T => y = G[id]
       /\ id \notin T => y = 0
  <2> HIDE DEF F, G, S, T
  <2> QED BY <1>3, <1>7, <1>8, <1>10 DEF Offer, SoldBy
<1> HIDE DEF S, T, F, G, W
<1>13. PICK w \in Int : w = SumOver(F, W)
  BY <1>2, <1>6, SumInt
<1>14. SumOver(G, W) = w
  BY <1>2, <1>5, <1>6, <1>13, SumSame
<1>15. SumOver(F, S) = x + w
  <2>1. CASE id \in S
    <3>1. SumOver(F, S) = F[id] + SumOver(F, S \ {id})
      BY <1>2, <1>6, <2>1, SumStep
    <3> QED BY <1>12, <1>13, <2>1, <3>1 DEF W
  <2>2. CASE id \notin S
    BY <1>9, <1>12, <1>13, <2>2
  <2> QED BY <2>1, <2>2
<1>16. SumOver(G, T) = y + w
  <2>1. CASE id \in T
    <3>1. SumOver(G, T) = G[id] + SumOver(G, T \ {id})
      BY <1>2, <1>6, <2>1, SumStep
    <3> QED BY <1>4, <1>12, <1>14, <2>1, <3>1
  <2>2. CASE id \notin T
    BY <1>9, <1>12, <1>14, <2>2
  <2> QED BY <2>1, <2>2
<1> QED BY <1>1, <1>10, <1>11, <1>13, <1>15, <1>16

(* Nothing is offered when no row is active. *)
LEMMA NothingOffered ==
  ASSUME NEW rows, \A i \in DOMAIN rows : ~Active(rows[i]), NEW u, NEW s
  PROVE  Offered(rows, u, s) = 0
<1>1. {i \in {j \in DOMAIN rows : Active(rows[j])} : /\ rows[i].user = u
                               /\ ~PaysFunds(rows[i].type)
                               /\ SoldOutcome(rows[i].type) = s} = {}
  OBVIOUS
<1> QED BY <1>1, SumEmpty DEF Offered, Pending

-----------------------------------------------------------------------------
(* The sizes of the trades of a match *)
Sizes(q) == [k \in 1 .. Len(q) |-> q[k].qty]

(* What the trades that have not been cleared come to *)
Left == SumOver(Sizes(fills), Unapplied)

(* The trades are what the taker no longer has to fill. *)
SizesAddUp == pc # "idle" => SumOver(Sizes(fills), 1 .. Len(fills)) = taker.qty - taker.rem

CommittedLedger == IF pc = "idle" THEN ledger ELSE saved.ledger

CommittedPend ==
  \A u \in Users, s \in Outcomes :
    Pend(CommittedLedger, u, s) = Offered(CommittedOrders, u, s)

(* Once its first trade is cleared the taker's row shows the outcome of the
   whole match, and its shares are pending still for the trades to come. *)
PendAhead ==
  pc # "idle" => \A u \in Users, s \in Outcomes :
    Pend(ledger, u, s) = Offered(orders, u, s)
      + SoldBy(taker.type, taker.user, u, s, IF cleared = 0 THEN 0 ELSE Left)

PInv == RInv /\ SizesAddUp /\ CommittedPend /\ PendAhead

(* The sizes of trades are integers. *)
LEMMA SizesInt ==
  ASSUME NEW q \in Seq(Trade)
  PROVE  \A k \in 1 .. Len(q) : Sizes(q)[k] = q[k].qty /\ Sizes(q)[k] \in Nat \ {0}
<1>1. ASSUME NEW k \in 1 .. Len(q)
      PROVE  q[k] \in Trade
  OBVIOUS
<1> QED BY <1>1 DEF Sizes, Trade

(* One trade more adds its size. *)
LEMMA SizesAppend ==
  ASSUME NEW q \in Seq(Trade), NEW f \in Trade
  PROVE  SumOver(Sizes(Append(q, f)), 1 .. Len(Append(q, f))) = SumOver(Sizes(q), 1 .. Len(q)) + f.qty
<1>1. PICK n \in Nat : n = Len(q)
  OBVIOUS
<1>2. PICK r \in Seq(Trade) : r = Append(q, f)
  <2>1. Append(q, f) \in Seq(Trade)
    OBVIOUS
  <2> QED BY <2>1
<1>3. Len(r) = n + 1 /\ r[n + 1] = f /\ \A k \in 1 .. n : r[k] = q[k]
  BY <1>1, <1>2
<1>4. IsFiniteSet(1 .. n + 1) /\ IsFiniteSet(1 .. n)
  BY FS_Interval
<1>5. \A k \in 1 .. n + 1 : Sizes(r)[k] = r[k].qty /\ Sizes(r)[k] \in Int
  BY <1>3, SizesInt
<1>6. \A k \in 1 .. n : Sizes(q)[k] = q[k].qty /\ Sizes(q)[k] \in Int
  BY <1>1, SizesInt
<1>7. n + 1 \in 1 .. n + 1 /\ (1 .. n + 1) \ {n + 1} = 1 .. n
  OBVIOUS
<1>8. SumOver(Sizes(r), 1 .. n + 1) = Sizes(r)[n + 1] + SumOver(Sizes(r), (1 .. n + 1) \ {n + 1})
  BY <1>4, <1>5, <1>7, SumStep
<1>9. \A k \in 1 .. n : Sizes(r)[k] = Sizes(q)[k]
  <2> TAKE k \in 1 .. n
  <2>1. k \in 1 .. n + 1
    OBVIOUS
  <2> QED BY <1>3, <1>5, <1>6, <2>1
<1>10. SumOver(Sizes(r), 1 .. n) = SumOver(Sizes(q), 1 .. n)
  BY <1>4, <1>6, <1>9, SumSame
<1>11. SumOver(Sizes(q), 1 .. n) \in Int
  BY <1>4, <1>6, SumInt
<1>12. f.qty \in Int /\ Sizes(r)[n + 1] = f.qty
  BY <1>3, <1>5, <1>7 DEF Trade
<1>13. SumOver(Sizes(r), 1 .. n + 1) = SumOver(Sizes(q), 1 .. n) + f.qty
  <2>1. SumOver(Sizes(r), 1 .. n + 1) = Sizes(r)[n + 1] + SumOver(Sizes(r), 1 .. n)
    BY <1>7, <1>8
  <2> QED BY <1>10, <1>11, <1>12, <2>1
<1> QED BY <1>1, <1>2, <1>3, <1>13, Zenon

(* The next trade to clear comes off what is left. *)
LEMMA LeftShrinks ==
  ASSUME NEW q \in Seq(Trade), NEW c \in 1 .. Len(q)
  PROVE  /\ SumOver(Sizes(q), c .. Len(q)) = q[c].qty + SumOver(Sizes(q), c + 1 .. Len(q))
         /\ SumOver(Sizes(q), c + 1 .. Len(q)) \in Int
<1>1. PICK n \in Nat : n = Len(q)
  OBVIOUS
<1>2. \A k \in 1 .. n : Sizes(q)[k] = q[k].qty /\ Sizes(q)[k] \in Int
  BY <1>1, SizesInt
<1>3. IsFiniteSet(c .. n) /\ IsFiniteSet(c + 1 .. n)
  BY FS_Interval
<1>4. /\ c \in c .. n /\ (c .. n) \ {c} = c + 1 .. n
      /\ \A k \in c .. n : k \in 1 .. n
      /\ \A k \in c + 1 .. n : k \in 1 .. n
  BY <1>1
<1>5. SumOver(Sizes(q), c .. n) = Sizes(q)[c] + SumOver(Sizes(q), (c .. n) \ {c})
  BY <1>2, <1>3, <1>4, SumStep
<1>6. SumOver(Sizes(q), c + 1 .. n) \in Int
  BY <1>2, <1>3, <1>4, SumInt
<1> QED BY <1>1, <1>2, <1>4, <1>5, <1>6

-----------------------------------------------------------------------------
(* A step that touches none of this. *)
LEMMA SamePend ==
  ASSUME PInv, RInv', UNCHANGED <<pc, taker, fills, ledger, orders, saved, cleared>>
  PROVE  PInv'
<1>1. Left' = Left
  BY DEF Left, Unapplied
<1>2. CommittedLedger' = CommittedLedger /\ CommittedOrders' = CommittedOrders
  BY DEF CommittedLedger, CommittedOrders
<1> QED BY <1>1, <1>2 DEF PInv, SizesAddUp, CommittedPend, PendAhead

(* A transaction is rolled back. *)
LEMMA AbortPend == ASSUME PInv, RInv', pc # "idle", Abort PROVE PInv'
<1>1. pc' = "idle" /\ ledger' = saved.ledger /\ orders' = saved.orders
  BY DEF Abort, ForgetMatch
<1>2. CommittedLedger' = CommittedLedger /\ CommittedOrders' = CommittedOrders
  BY <1>1 DEF CommittedLedger, CommittedOrders
<1> QED BY <1>1, <1>2 DEF PInv, SizesAddUp, CommittedPend, PendAhead

(* An order is accepted. *)
LEMMA PlacePend == ASSUME PInv, RInv', NEW r \in Requests, Place(r) PROVE PInv'
<1> DEFINE row == [user |-> r.user, type |-> TypeOf(r), price |-> r.price, qty |-> r.qty,
                   filled |-> 0, frozen |-> FreezeAmount(TypeOf(r), r.price, r.qty),
                   status |-> "OPEN", tif |-> r.tif]
<1>1. /\ pc = "idle" /\ pc' = "outer" /\ fills' = <<>> /\ cleared' = 0
      /\ taker' = [id |-> nextId, user |-> r.user, type |-> TypeOf(r),
                   price |-> BookPrice(TypeOf(r), r.price), qty |-> r.qty, rem |-> r.qty,
                   tif |-> r.tif]
      /\ orders' = WithRow(orders, nextId, row) /\ saved' = [ledger |-> ledger, orders |-> orders]
      /\ ledger' = Freeze(ledger, r.user, TypeOf(r), r.price, r.qty)
  BY DEF Place, Submit, TakeOrder
<1>2. /\ ledger \in Ledgers(Users) /\ RowsOK(orders, nextId) /\ RowsOK(orders', nextId')
      /\ nextId \in Int /\ nextId' \in Int
  BY DEF PInv, RInv, LInv, Kept, BInv, IInv, TypeOK
<1>3. r.user \in Users /\ r.price \in Int /\ r.qty \in Int
  BY RequestsAssumption
<1>4. /\ nextId \notin DOMAIN orders /\ DOMAIN orders' = DOMAIN orders \union {nextId}
      /\ orders'[nextId] = row /\ \A i \in DOMAIN orders : i # nextId => orders'[i] = orders[i]
  <2>1. nextId \notin DOMAIN orders
    BY <1>2 DEF RowsOK
  <2> HIDE DEF row
  <2> QED BY <1>1, <2>1 DEF WithRow
<1>5. CommittedLedger' = CommittedLedger /\ CommittedOrders' = CommittedOrders
  BY <1>1 DEF CommittedLedger, CommittedOrders
<1>6. SizesAddUp'
  <2>1. 1 .. Len(fills') = {}
    BY <1>1
  <2>2. SumOver(Sizes(fills'), {}) = 0 /\ taker'.qty - taker'.rem = 0
    BY <1>1, <1>3, SumEmpty
  <2> QED BY <2>1, <2>2 DEF SizesAddUp
<1>7. PendAhead'
  <2> SUFFICES ASSUME NEW u \in Users, NEW s \in Outcomes
               PROVE  Pend(ledger', u, s) = Offered(orders', u, s)
                        + SoldBy(taker'.type, taker'.user, u, s, 0)
    BY <1>1 DEF PendAhead
  <2>1. PICK x : x = IF nextId \in DOMAIN orders THEN Offer(orders[nextId], u, s) ELSE 0
    OBVIOUS
  <2>2. Offered(orders', u, s) = Offered(orders, u, s) - x + Offer(orders'[nextId], u, s)
    BY <1>2, <1>4, <2>1, OneRow
  <2>3. Offer(orders'[nextId], u, s) = SoldBy(TypeOf(r), r.user, u, s, r.qty)
    BY <1>3, <1>4 DEF Offer, Active, Remaining
  <2>4. Pend(ledger', u, s) = Pend(ledger, u, s) + SoldBy(TypeOf(r), r.user, u, s, r.qty)
    BY <1>1, <1>2, <1>3, FreezePend
  <2>5. Pend(ledger, u, s) = Offered(orders, u, s)
    BY <1>1 DEF PInv, CommittedPend, CommittedLedger, CommittedOrders
  <2>6. Pend(ledger, u, s) \in Int
    BY <1>2, PendInt
  <2>7. SoldBy(taker'.type, taker'.user, u, s, 0) = 0
    BY DEF SoldBy
  <2>8. SoldBy(TypeOf(r), r.user, u, s, r.qty) \in Int
    BY <1>3 DEF SoldBy
  <2> HIDE DEF row
  <2> QED BY <1>4, <2>1, <2>2, <2>3, <2>4, <2>5, <2>6, <2>7, <2>8
<1> QED BY <1>5, <1>6, <1>7 DEF PInv, CommittedPend

(* A step of match_order either trades nothing or adds one trade, at the price
   at which its maker's row stands in the book. *)
LEMMA MatchTrades ==
  ASSUME RInv, RInv', Match
  PROVE  /\ UNCHANGED <<ledger, orders, saved, cleared>>
         /\ pc # "idle" /\ pc' # "idle" /\ cleared = 0
         /\ taker \in Order /\ fills \in Seq(Trade)
         /\ taker'.id = taker.id /\ taker'.type = taker.type
         /\ taker'.user = taker.user /\ taker'.qty = taker.qty
         /\ \/ taker'.rem = taker.rem /\ fills' = fills
            \/ \E f \in Trade :
                 /\ fills' = Append(fills, f) /\ taker'.rem = taker.rem - f.qty
                 /\ f.price = BookPrice(f.makerType, orders[f.maker].price)
<1>1. UNCHANGED <<ledger, orders, saved, cleared>> /\ pc # "idle" /\ pc' # "idle" /\ pc # "done"
  BY DEF Match, ScanLevel, StopMatch, SkipOwn, Fill, LeaveLevel, exchangeVars
<1>2. cleared = 0 /\ status = "ACTIVE" /\ taker \in Order /\ fills \in Seq(Trade)
  BY <1>1 DEF RInv, LInv, BInv, IInv, TypeOK, TakerBacked
<1>3. CASE Fill
  <2>1. PICK m, s, p, n : FillOf(m, s, p, n)
    BY <1>3, FillIsFillOf DEF RInv
  <2> DEFINE f == [maker |-> m.id, makerUser |-> m.user, makerType |-> m.type,
                   taker |-> taker.id, price |-> p, qty |-> n]
  <2>2. /\ taker' = [taker EXCEPT !.rem = @ - n] /\ fills' = Append(fills, f)
        /\ m = queues[s][p][1] /\ 1 \in 1 .. Len(queues[s][p]) /\ s \in Sides /\ p \in Prices
        /\ n \in Nat \ {0}
    BY <2>1 DEF FillOf
  <2>3. m \in BookOrder
    BY <2>2, RestingIds DEF RInv
  <2>4. f \in Trade
    BY <1>2, <2>2, <2>3 DEF Trade, BookOrder, Order
  <2>5. /\ taker'.id = taker.id /\ taker'.type = taker.type /\ taker'.user = taker.user
        /\ taker'.qty = taker.qty /\ taker'.rem = taker.rem - n
    BY <1>2, <2>2 DEF Order
  <2>6. Backs(orders[m.id], m, s, p)
    BY <1>2, <2>2 DEF RInv, RestingBacked
  <2>7. f.maker = m.id /\ f.makerType = m.type /\ f.price = p /\ f.qty = n
    OBVIOUS
  <2> HIDE DEF f
  <2>8. f.price = BookPrice(f.makerType, orders[f.maker].price)
    BY <2>6, <2>7 DEF Backs
  <2> QED BY <1>1, <1>2, <2>2, <2>4, <2>5, <2>7, <2>8
<1>4. CASE ~Fill
  <2>1. taker' = taker /\ fills' = fills
    BY <1>4 DEF Match, ScanLevel, StopMatch, SkipOwn, LeaveLevel
  <2> QED BY <1>1, <1>2, <2>1
<1> QED BY <1>3, <1>4

(* The trades still are what the taker no longer has to fill. *)
LEMMA MatchSizes == ASSUME RInv, RInv', SizesAddUp, Match PROVE SizesAddUp'
<1>1. /\ pc # "idle" /\ pc' # "idle" /\ taker \in Order /\ fills \in Seq(Trade)
      /\ taker'.qty = taker.qty
  BY MatchTrades
<1>2. SumOver(Sizes(fills), 1 .. Len(fills)) = taker.qty - taker.rem
  BY <1>1 DEF SizesAddUp
<1>3. CASE taker'.rem = taker.rem /\ fills' = fills
  BY <1>1, <1>2, <1>3 DEF SizesAddUp
<1>4. ASSUME NEW f \in Trade, fills' = Append(fills, f), taker'.rem = taker.rem - f.qty
      PROVE  SizesAddUp'
  <2>1. SumOver(Sizes(fills'), 1 .. Len(fills')) = SumOver(Sizes(fills), 1 .. Len(fills)) + f.qty
    BY <1>1, <1>4, SizesAppend
  <2>2. taker.qty \in Int /\ taker.rem \in Int /\ f.qty \in Int
    BY <1>1, <1>4 DEF Order, Trade
  <2> QED BY <1>1, <1>2, <1>4, <2>1, <2>2 DEF SizesAddUp
<1> QED BY <1>3, <1>4, MatchTrades

(* match_order touches neither rows nor positions. *)
LEMMA MatchPend == ASSUME PInv, RInv', Match PROVE PInv'
<1>1. UNCHANGED <<ledger, orders, saved, cleared>> /\ pc # "idle" /\ pc' # "idle"
  BY MatchTrades DEF PInv
<1>2. cleared = 0 /\ cleared' = 0
  BY <1>1, MatchTrades DEF PInv
<1>3. CommittedLedger' = CommittedLedger /\ CommittedOrders' = CommittedOrders
  BY <1>1 DEF CommittedLedger, CommittedOrders
<1>4. taker'.type = taker.type /\ taker'.user = taker.user /\ SizesAddUp'
  BY MatchTrades, MatchSizes DEF PInv
<1>5. PendAhead'
  <2>1. PICK z : z = 0
    OBVIOUS
  <2>2. \A u \in Users, s \in Outcomes :
          Pend(ledger, u, s) = Offered(orders, u, s) + SoldBy(taker.type, taker.user, u, s, z)
    BY <1>1, <1>2, <2>1 DEF PInv, PendAhead
  <2>3. \A u \in Users, s \in Outcomes :
          Pend(ledger', u, s) = Offered(orders', u, s) + SoldBy(taker'.type, taker'.user, u, s, z)
    BY <1>1, <1>4, <2>2
  <2> QED BY <1>2, <2>1, <2>3 DEF PendAhead
<1> QED BY <1>3, <1>4, <1>5 DEF PInv, CommittedPend

-----------------------------------------------------------------------------
(* An active order is cancelled: what it offered is given back. *)
LEMMA CancelOne ==
  ASSUME LInv, NEW L \in Ledgers(Users), NEW id \in DOMAIN orders, Active(orders[id]),
         NEW u \in Users, NEW s \in Outcomes, Pend(L, u, s) = Offered(orders, u, s)
  PROVE  Pend(UnfreezeRemainder(L, orders[id]), u, s) = Offered(Cancelled(orders, {id}), u, s)
<1>1. PICK new : new = Cancelled(orders, {id})
  OBVIOUS
<1>2. RowsOK(orders, nextId) /\ RowsOK(new, nextId) /\ nextId \in Int
  BY <1>1, CancelledOK DEF LInv, BInv, IInv, TypeOK
<1>3. orders[id] \in Row
  BY <1>2 DEF RowsOK
<1>4. /\ DOMAIN new = DOMAIN orders \union {id} /\ new[id].status = "CANCELLED"
      /\ \A i \in DOMAIN orders : i # id => new[i] = orders[i]
  BY <1>1, <1>3 DEF Cancelled, Row
<1>5. PICK x : x = IF id \in DOMAIN orders THEN Offer(orders[id], u, s) ELSE 0
  OBVIOUS
<1>6. Offered(new, u, s) = Offered(orders, u, s) - x + Offer(new[id], u, s)
  BY <1>2, <1>4, <1>5, OneRow
<1>7. Offer(new[id], u, s) = 0
  BY <1>4 DEF Offer, Active
<1>8. x = SoldBy(orders[id].type, orders[id].user, u, s, Remaining(orders[id]))
  BY <1>5 DEF Offer
<1>9. Pend(UnfreezeRemainder(L, orders[id]), u, s) = Pend(L, u, s) - x
  BY <1>3, <1>8, UnfreezePend
<1>10. x \in Int /\ Offered(orders, u, s) \in Int
  <2>1. \A i \in DOMAIN orders : Offer(orders[i], u, s) \in Int
    BY <1>2, OfferedInt
  <2>2. Offered(orders, u, s) \in Int
    BY <1>2, OfferedInt
  <2> QED BY <1>5, <2>1, <2>2
<1> QED BY <1>1, <1>6, <1>7, <1>9, <1>10

(* cancel_order *)
LEMMA CancelPend == ASSUME PInv, RInv', NEW id \in DOMAIN orders, CancelOrder(id) PROVE PInv'
<1>1. /\ pc = "idle" /\ Active(orders[id]) /\ UNCHANGED <<pc, taker, fills, saved, cleared>>
      /\ LInv /\ ledger \in Ledgers(Users)
  BY DEF CancelOrder, match, PInv, RInv, LInv, Kept
<1>2. CASE UNCHANGED <<ledger, orders>>
  BY <1>1, <1>2, SamePend
<1>3. CASE ledger' = UnfreezeRemainder(ledger, orders[id]) /\ orders' = Cancelled(orders, {id})
  <2>1. \A u \in Users, s \in Outcomes : Pend(ledger, u, s) = Offered(orders, u, s)
    BY <1>1 DEF PInv, CommittedPend, CommittedLedger, CommittedOrders
  <2>2. \A u \in Users, s \in Outcomes : Pend(ledger', u, s) = Offered(orders', u, s)
    BY <1>1, <1>3, <2>1, CancelOne
  <2>3. pc' = "idle"
    BY <1>1
  <2> QED BY <2>2, <2>3 DEF PInv, SizesAddUp, PendAhead, CommittedPend, CommittedLedger, CommittedOrders
<1> QED BY <1>2, <1>3 DEF CancelOrder

(* resolve_market leaves nothing pending and no order active. *)
LEMMA ResolvePend == ASSUME PInv, RInv', NEW outcome \in Outcomes, Resolve(outcome) PROVE PInv'
<1> DEFINE ids == {i \in DOMAIN orders : Active(orders[i])}
           L == UnfreezeAll(ledger, orders, ids, Remainders(orders))
<1>1. pc = "idle" /\ pc' = "idle" /\ ledger' = settle_market(L, outcome) /\ orders' = Cancelled(orders, ids)
  BY DEF Resolve, vars
<1>2. DOMAIN L.pos = Users
  <2>1. ledger \in Ledgers(Users)
    BY DEF PInv, RInv, LInv, Kept
  <2> QED BY <2>1 DEF UnfreezeAll, Ledgers
<1>3. \A i \in DOMAIN orders : orders[i] \in Row
  BY DEF PInv, RInv, LInv, RowsOK
<1>4. \A i \in DOMAIN orders' : ~Active(orders'[i])
  <2> SUFFICES ASSUME NEW i \in DOMAIN orders' PROVE ~Active(orders'[i])
    OBVIOUS
  <2>1. i \in DOMAIN orders
    BY <1>1 DEF Cancelled
  <2>2. CASE i \in ids
    <3>1. orders'[i] = [orders[i] EXCEPT !.status = "CANCELLED"]
      BY <1>1, <2>1, <2>2 DEF Cancelled
    <3>2. orders'[i].status = "CANCELLED"
      BY <1>3, <2>1, <3>1 DEF Row
    <3> QED BY <3>2 DEF Active
  <2>3. CASE i \notin ids
    <3>1. orders'[i] = orders[i]
      BY <1>1, <2>1, <2>3 DEF Cancelled
    <3> QED BY <2>1, <2>3, <3>1
  <2> QED BY <2>2, <2>3
<1> HIDE DEF L, ids
<1>5. \A u \in Users, s \in Outcomes : Pend(ledger', u, s) = 0
  BY <1>1, <1>2 DEF settle_market, Pend
<1>6. \A u, s : Offered(orders', u, s) = 0
  BY <1>4, NothingOffered
<1> QED BY <1>1, <1>5, <1>6 DEF PInv, SizesAddUp, PendAhead, CommittedPend, CommittedLedger, CommittedOrders

(* The end of a transaction: no trade is left, and what is left of an order
   that expires is given back. *)
LEMMA FinalizePend == ASSUME PInv, RInv', Finalize PROVE PInv'
<1>1. pc = "done" /\ cleared = Len(fills) /\ LInv /\ TakerBacked
  BY DEF Finalize, PInv, RInv
<1>2. CASE Abort
  BY <1>1, <1>2, AbortPend
<1>3. CASE ledger' = FinalLedger /\ orders' = FinalOrders /\ Finish
  <2>1. pc' = "idle"
    BY <1>3 DEF Finish, ForgetMatch
  <2>2. /\ ledger \in Ledgers(Users) /\ taker.id \in DOMAIN orders /\ taker \in Order
        /\ Len(fills) \in Nat /\ nextId \in Int /\ RowsOK(orders, nextId)
    BY <1>1 DEF LInv, Kept, BInv, IInv, TypeOK
  <2>3. \A u \in Users, s \in Outcomes : Pend(ledger, u, s) = Offered(orders, u, s)
    <3>1. Unapplied = {}
      BY <1>1, <2>2 DEF Unapplied
    <3>2. PICK z : z = IF cleared = 0 THEN 0 ELSE Left
      OBVIOUS
    <3>3. z = 0
      BY <3>1, <3>2, SumEmpty DEF Left
    <3> TAKE u \in Users, s \in Outcomes
    <3>4. Pend(ledger, u, s) = Offered(orders, u, s) + SoldBy(taker.type, taker.user, u, s, z)
      BY <1>1, <3>2 DEF PInv, PendAhead
    <3>5. SoldBy(taker.type, taker.user, u, s, z) = 0
      BY <3>3 DEF SoldBy
    <3>6. Offered(orders, u, s) \in Int
      BY <2>2, OfferedInt
    <3> QED BY <3>4, <3>5, <3>6
  <2>4. \A u \in Users, s \in Outcomes : Pend(ledger', u, s) = Offered(orders', u, s)
    <3>1. CASE Expires
      <4>1. Active(orders[taker.id])
        BY <1>1, <3>1 DEF TakerBacked, Expires
      <4> QED BY <1>1, <1>3, <2>2, <2>3, <3>1, <4>1, CancelOne DEF FinalLedger, FinalOrders
    <3>2. CASE ~Expires
      BY <1>3, <2>3, <3>2 DEF FinalLedger, FinalOrders
    <3> QED BY <3>1, <3>2
  <2> QED BY <2>1, <2>4 DEF PInv, SizesAddUp, PendAhead, CommittedPend, CommittedLedger, CommittedOrders
<1> QED BY <1>2, <1>3 DEF Finalize

(* What a row offers after a fill *)
LEMMA OfferFilled ==
  ASSUME NEW row \in UncheckedRow, NEW q \in Int, RowChecksHold(FilledBy(row, q)), NEW u, NEW s
  PROVE  Offer(FilledBy(row, q), u, s)
           = SoldBy(row.type, row.user, u, s, row.qty - (row.filled + q))
<1>1. PICK g : g = FilledBy(row, q)
  OBVIOUS
<1>2. /\ g.user = row.user /\ g.type = row.type /\ g.qty = row.qty /\ g.filled = row.filled + q
      /\ g.status = IF row.qty - (row.filled + q) <= 0 THEN "FILLED" ELSE "PARTIALLY_FILLED"
  BY <1>1, FilledRow
<1>3. row.qty \in Int /\ row.filled \in Int
  BY DEF UncheckedRow
<1>4. PICK k \in Int : k = row.qty - (row.filled + q)
  BY <1>3
<1>5. k >= 0 /\ Remaining(g) = k
  BY <1>1, <1>2, <1>3, <1>4 DEF RowChecksHold, Remaining
<1>6. Active(g) <=> k # 0
  BY <1>2, <1>4, <1>5 DEF Active
<1>7. Offer(g, u, s) = SoldBy(row.type, row.user, u, s, k)
  BY <1>2, <1>5, <1>6 DEF Offer, SoldBy
<1> QED BY <1>1, <1>4, <1>7

(* A cleared trade takes its quantity from what taker and maker have pending;
   fee and netting take nothing. *)
LEMMA ClearedPend ==
  ASSUME RInv, pc = "done", NEW c \in Unapplied
  PROVE  LET f == fills[c]
         IN \A u \in Users, s \in Outcomes :
              Pend(execute_netting(AfterFee(f), TradeResult(f).buyUser), u, s)
                = Pend(ledger, u, s) - SoldBy(taker.type, taker.user, u, s, f.qty)
                                     - SoldBy(f.makerType, f.makerUser, u, s, f.qty)
<1> DEFINE f == fills[c]
<1>1. LInv /\ ledger \in Ledgers(Users) /\ status = "ACTIVE" /\ c \in 1 .. Len(fills)
  <2>1. LInv /\ ledger \in Ledgers(Users) /\ status = "ACTIVE"
    BY DEF RInv, LInv, Kept, TakerBacked
  <2>2. cleared \in Nat /\ Len(fills) \in Nat
    BY <2>1 DEF LInv, BInv, IInv, TypeOK
  <2> QED BY <2>1, <2>2 DEF Unapplied
<1>2. /\ taker \in Order /\ f \in Trade
      /\ SideOf(f.makerType) # SideOf(taker.type)
  BY <1>1 DEF RInv, FillsBacked, LInv, BInv, IInv, TypeOK
<1>3. PICK t \in TradeOf(Users, AllBookTypes) : t = TradeResult(f)
  BY <1>1, TradeResultType
<1>4. PICK base \in Int : base = FeeBase(taker.type, t.price, t.qty, t.buyOriginalPrice)
  BY <1>1, <1>3, TradeResultType
<1>5. /\ taker.type \in AllBookTypes /\ f.makerType \in AllBookTypes
      /\ taker.user \in Users /\ f.qty \in Int /\ f.qty = t.qty
  BY <1>2, <1>3 DEF Order, Trade, TradeResult
<1> HIDE DEF f
<1>6. \/ /\ SideOf(taker.type) = "BUY" /\ t.buyUser = taker.user /\ t.sellUser = f.makerUser
         /\ t.buyType = taker.type /\ t.sellType = f.makerType
      \/ /\ SideOf(taker.type) # "BUY" /\ t.buyUser = f.makerUser /\ t.sellUser = taker.user
         /\ t.buyType = f.makerType /\ t.sellType = taker.type
  BY <1>3 DEF TradeResult, TakerBuys
<1>7. /\ t.buyType \in {"NATIVE_BUY", "SYNTHETIC_BUY"}
      /\ t.sellType \in {"NATIVE_SELL", "SYNTHETIC_SELL"}
  BY <1>2, <1>5, <1>6 DEF SideOf, AllBookTypes
<1>8. PICK K : K = settle_trade(ledger, t)
  OBVIOUS
<1>9. PICK J : J = collect_fee(K, taker.user, taker.type, base)
  OBVIOUS
<1>10. J = AfterFee(f)
  BY <1>3, <1>4, <1>8, <1>9 DEF AfterFee
<1>11. /\ K \in Ledgers(Users)
       /\ \A u \in Users, s \in Outcomes :
            Pend(K, u, s) = Pend(ledger, u, s) - SoldBy(t.buyType, t.buyUser, u, s, t.qty)
                                               - SoldBy(t.sellType, t.sellUser, u, s, t.qty)
  BY <1>1, <1>7, <1>8, TradePend
<1>12. J \in Ledgers(Users) /\ \A u, s : Pend(J, u, s) = Pend(K, u, s)
  BY <1>5, <1>9, <1>11, FeePend
<1>13. t.buyUser \in Users
  BY DEF TradeOf
<1>14. \A u \in Users, s \in Outcomes : Pend(execute_netting(J, t.buyUser), u, s) = Pend(J, u, s)
  BY <1>12, <1>13, NettingPend
<1>15. ASSUME NEW u \in Users, NEW s \in Outcomes
       PROVE  Pend(execute_netting(J, t.buyUser), u, s)
                = Pend(ledger, u, s) - SoldBy(taker.type, taker.user, u, s, f.qty)
                                     - SoldBy(f.makerType, f.makerUser, u, s, f.qty)
  <2>1. Pend(ledger, u, s) \in Int
    BY <1>1, PendInt
  <2>2. PICK x \in Int : x = SoldBy(taker.type, taker.user, u, s, f.qty)
    BY <1>5 DEF SoldBy
  <2>3. PICK y \in Int : y = SoldBy(f.makerType, f.makerUser, u, s, f.qty)
    BY <1>5 DEF SoldBy
  <2>4. Pend(execute_netting(J, t.buyUser), u, s)
          = Pend(ledger, u, s) - SoldBy(t.buyType, t.buyUser, u, s, t.qty)
                               - SoldBy(t.sellType, t.sellUser, u, s, t.qty)
    BY <1>11, <1>12, <1>14
  <2>5. \/ /\ SoldBy(t.buyType, t.buyUser, u, s, t.qty) = x
           /\ SoldBy(t.sellType, t.sellUser, u, s, t.qty) = y
        \/ /\ SoldBy(t.buyType, t.buyUser, u, s, t.qty) = y
           /\ SoldBy(t.sellType, t.sellUser, u, s, t.qty) = x
    BY <1>5, <1>6, <2>2, <2>3, Zenon
  <2> QED BY <2>1, <2>2, <2>3, <2>4, <2>5
<1> QED BY <1>3, <1>10, <1>15 DEF f

(* One iteration of the clearing loop *)
LEMMA ClearPend == ASSUME PInv, RInv', ClearFill PROVE PInv'
<1>1. pc = "done" /\ RInv /\ LInv /\ TakerBacked /\ status = "ACTIVE"
  BY DEF ClearFill, PInv, RInv, TakerBacked
<1>2. CASE Abort
  BY <1>1, <1>2, AbortPend
<1>3. CASE ~Abort
  <2>1. PICK c : c = cleared + 1
    OBVIOUS
  <2>2. PICK f : f = fills[c]
    OBVIOUS
  <2>3. /\ ~FillRefused(f) /\ orders' = AfterFill(f)
        /\ ledger' = execute_netting(AfterFee(f), TradeResult(f).buyUser)
        /\ cleared < Len(fills) /\ cleared' = c
        /\ UNCHANGED <<pc, taker, fills, saved>>
    BY <1>3, <2>1, <2>2 DEF ClearFill, vars
  <2>4. cleared \in Nat /\ Len(fills) \in Nat /\ taker \in Order /\ fills \in Seq(Trade) /\ nextId \in Nat
    BY <1>1 DEF LInv, BInv, IInv, TypeOK
  <2>5. c \in 1 .. Len(fills) /\ c \in Unapplied /\ c # 0
    BY <2>1, <2>3, <2>4 DEF Unapplied
  <2>6. f \in Trade /\ f.qty \in Int
    <3>1. f \in Trade
      BY <2>2, <2>4, <2>5
    <3> QED BY <3>1 DEF Trade
  <2>7. /\ f.maker \in DOMAIN orders /\ f.maker # taker.id /\ Active(orders[f.maker])
        /\ orders[f.maker].user = f.makerUser /\ orders[f.maker].type = f.makerType
    BY <1>1, <2>2, <2>5 DEF RInv, FillsBacked
  <2>8. /\ RowsOK(orders', nextId) /\ DOMAIN orders' = DOMAIN orders
        /\ TakerRow \in UncheckedRow /\ orders'[taker.id] = TakerRow
        /\ orders'[f.maker] = FilledBy(orders[f.maker], f.qty)
        /\ \A i \in DOMAIN orders : i # taker.id /\ i # f.maker => orders'[i] = orders[i]
    BY <1>1, <2>2, <2>3, <2>5, <2>7, AfterFillOK
  <2>9. /\ RowsOK(orders, nextId) /\ taker.id \in DOMAIN orders
        /\ ledger \in Ledgers(Users)
    BY <1>1 DEF LInv, Kept
  <2>10. PICK old \in UncheckedRow : old = orders[taker.id]
    BY <2>9, CheckedRow DEF RowsOK
  <2>11. PICK made \in Row : made = orders[f.maker]
    BY <2>7, <2>9 DEF RowsOK
  <2>12. /\ old.user = taker.user /\ old.type = taker.type /\ old.qty = taker.qty
         /\ old.filled = IF cleared = 0 THEN 0 ELSE taker.qty - taker.rem
         /\ cleared = 0 \/ taker.rem > 0 => Active(old)
    BY <1>1, <2>10 DEF TakerBacked
  <2>13. taker.qty \in Int /\ taker.rem \in Int /\ taker.rem >= 0
    BY <2>4 DEF Order
  <2>14. /\ RowChecksHold(TakerRow) /\ TakerRow \in Row
         /\ RowChecksHold(FilledBy(made, f.qty))
    BY <2>7, <2>8, <2>9, <2>11 DEF RowsOK
  <2>15. PICK mid : mid = WithRow(orders, taker.id, TakerRow)
    OBVIOUS
  <2>16. /\ RowsOK(mid, nextId) /\ DOMAIN mid = DOMAIN orders \union {taker.id}
         /\ mid[taker.id] = TakerRow
         /\ \A i \in DOMAIN orders : i # taker.id => mid[i] = orders[i]
    <3>1. PICK id \in 1 .. nextId - 1 : id = taker.id
      BY <2>9 DEF RowsOK
    <3>2. PICK row \in Row : row = TakerRow /\ RowChecksHold(row)
      BY <2>14
    <3>3. PICK rows : rows = orders /\ RowsOK(rows, nextId)
      BY <2>9
    <3>4. mid = WithRow(rows, id, row)
      BY <2>15, <3>1, <3>2, <3>3
    <3>5. RowsOK(mid, nextId)
      BY <2>4, <3>2, <3>3, <3>4, WithRowOK
    <3>6. /\ DOMAIN mid = DOMAIN rows \union {id} /\ mid[id] = row
          /\ \A i \in DOMAIN rows : i # id => mid[i] = rows[i]
      BY <3>4 DEF WithRow
    <3> QED BY <3>1, <3>2, <3>3, <3>5, <3>6
  <2>17. /\ DOMAIN orders' = DOMAIN mid \union {f.maker}
         /\ \A i \in DOMAIN mid : i # f.maker => orders'[i] = mid[i]
         /\ f.maker \in DOMAIN mid /\ mid[f.maker] = made
    BY <2>7, <2>8, <2>9, <2>11, <2>16
  <2>18. CommittedLedger' = CommittedLedger /\ CommittedOrders' = CommittedOrders
    BY <1>1, <2>3 DEF CommittedLedger, CommittedOrders
  <2>19. SizesAddUp'
    BY <1>1, <2>3 DEF PInv, SizesAddUp
  <2>20. PICK rest \in Int : rest = SumOver(Sizes(fills), c + 1 .. Len(fills))
    BY <2>4, <2>5, LeftShrinks
  <2>21. Left' = rest
    BY <2>3, <2>20 DEF Left, Unapplied
  <2>22. Left = f.qty + rest
    <3>1. SumOver(Sizes(fills), c .. Len(fills)) = fills[c].qty + rest
      BY <2>4, <2>5, <2>20, LeftShrinks
    <3> QED BY <2>1, <2>2, <3>1 DEF Left, Unapplied
  <2>23. cleared = 0 => Left = taker.qty - taker.rem
    <3>1. cleared = 0 => Unapplied = 1 .. Len(fills)
      BY DEF Unapplied
    <3> QED BY <1>1, <3>1 DEF PInv, SizesAddUp, Left
  <2>24. ASSUME NEW u \in Users, NEW s \in Outcomes
         PROVE  Pend(ledger', u, s) = Offered(orders', u, s)
                  + SoldBy(taker.type, taker.user, u, s, rest)
    <3> DEFINE T(n) == SoldBy(taker.type, taker.user, u, s, n)
               M(n) == SoldBy(f.makerType, f.makerUser, u, s, n)
    <3>1. PICK x : x = IF taker.id \in DOMAIN orders THEN Offer(orders[taker.id], u, s) ELSE 0
      OBVIOUS
    <3>2. PICK y : y = IF f.maker \in DOMAIN mid THEN Offer(mid[f.maker], u, s) ELSE 0
      OBVIOUS
    <3>3. Offered(mid, u, s) = Offered(orders, u, s) - x + Offer(mid[taker.id], u, s)
      BY <2>4, <2>9, <2>16, <3>1, OneRow
    <3>4. Offered(orders', u, s) = Offered(mid, u, s) - y + Offer(orders'[f.maker], u, s)
      <4>1. PICK new : new = orders'
        OBVIOUS
      <4>2. /\ RowsOK(new, nextId) /\ DOMAIN new = DOMAIN mid \union {f.maker}
            /\ \A i \in DOMAIN mid : i # f.maker => new[i] = mid[i]
        BY <2>8, <2>17, <4>1
      <4>3. Offered(new, u, s) = Offered(mid, u, s) - y + Offer(new[f.maker], u, s)
        BY <2>4, <2>16, <3>2, <4>2, OneRow
      <4> QED BY <4>1, <4>3
    <3>5. PICK k \in Int : k = made.qty - made.filled
      BY DEF Row
    <3>6. y = M(k)
      BY <2>7, <2>11, <2>17, <3>2, <3>5 DEF Offer, Remaining
    <3>7. Offer(orders'[f.maker], u, s) = M(k - f.qty)
      <4>1. made \in UncheckedRow
        BY CheckedRow
      <4>2. Offer(FilledBy(made, f.qty), u, s)
              = SoldBy(made.type, made.user, u, s, made.qty - (made.filled + f.qty))
        BY <2>6, <2>14, <4>1, OfferFilled
      <4>3. made.qty - (made.filled + f.qty) = k - f.qty
        BY <2>6, <3>5 DEF Row
      <4> QED BY <2>7, <2>8, <2>11, <4>2, <4>3
    <3>21. PICK p \in Int : p = IF cleared = 0 THEN 0 ELSE Left
      BY <2>6, <2>20, <2>22
    <3>22. PICK q \in Int : q = IF cleared = 0 THEN taker.qty ELSE taker.rem
      BY <2>13
    <3>8. x = T(q)
      <4>1. x = Offer(old, u, s)
        BY <2>9, <2>10, <3>1
      <4>2. Remaining(old) = q
        BY <2>12, <2>13, <3>22 DEF Remaining
      <4>3. Active(old) \/ q = 0
        BY <2>12, <2>13, <3>22
      <4> QED BY <2>12, <4>1, <4>2, <4>3 DEF Offer, SoldBy
    <3>9. Offer(mid[taker.id], u, s) = T(taker.rem)
      <4>1. PICK blank : blank = [old EXCEPT !.filled = 0]
        OBVIOUS
      <4>2. /\ blank \in UncheckedRow /\ blank.filled = 0 /\ blank.qty = taker.qty
            /\ blank.type = taker.type /\ blank.user = taker.user
        BY <2>12, <4>1 DEF UncheckedRow
      <4>3. PICK d \in Int : d = taker.qty - taker.rem
        BY <2>13
      <4>4. TakerRow = FilledBy(blank, d)
        BY <2>10, <4>1, <4>3 DEF TakerRow
      <4>5. Offer(TakerRow, u, s) = SoldBy(blank.type, blank.user, u, s, blank.qty - (blank.filled + d))
        BY <2>14, <4>2, <4>4, OfferFilled
      <4>6. blank.qty - (blank.filled + d) = taker.rem
        BY <2>13, <4>2, <4>3
      <4> QED BY <2>16, <4>2, <4>5, <4>6
    <3>10. Pend(ledger', u, s) = Pend(ledger, u, s) - T(f.qty) - M(f.qty)
      BY <1>1, <2>2, <2>3, <2>5, ClearedPend
    <3>11. Pend(ledger, u, s) = Offered(orders, u, s) + T(p)
      BY <1>1, <3>21 DEF PInv, PendAhead
    <3>12. Offered(orders, u, s) \in Int
      BY <2>4, <2>9, OfferedInt
    <3>13. /\ M(k) = M(k - f.qty) + M(f.qty) /\ M(k - f.qty) \in Int /\ M(f.qty) \in Int
      BY <2>6, <3>5 DEF SoldBy
    <3>14. p - f.qty - (taker.rem - q) = rest
      BY <2>6, <2>13, <2>20, <2>22, <2>23, <3>21, <3>22
    <3>15. /\ T(p) - T(f.qty) - (T(taker.rem) - T(q)) = T(rest)
           /\ T(p) \in Int /\ T(f.qty) \in Int /\ T(taker.rem) \in Int /\ T(q) \in Int
      BY <2>6, <2>13, <2>20, <3>14 DEF SoldBy
    <3> HIDE DEF T, M
    <3>16. Pend(ledger', u, s) = Offered(orders, u, s) + T(p) - T(f.qty) - M(f.qty)
      <4>1. PICK l \in Int, o \in Int, a \in Int, b \in Int, e \in Int :
               /\ l = Pend(ledger, u, s) /\ o = Offered(orders, u, s)
               /\ a = T(p) /\ b = T(f.qty) /\ e = M(f.qty)
        BY <3>11, <3>12, <3>13, <3>15
      <4>2. Pend(ledger', u, s) = l - b - e
        BY <3>10, <4>1
      <4>3. l = o + a
        BY <3>11, <4>1
      <4> QED BY <4>1, <4>2, <4>3
    <3>17. Offered(mid, u, s) = Offered(orders, u, s) - T(q) + T(taker.rem)
      BY <3>3, <3>8, <3>9
    <3>18. Offered(orders', u, s) = Offered(mid, u, s) - M(k) + M(k - f.qty)
      BY <3>4, <3>6, <3>7
    <3>19. Pend(ledger', u, s) = Offered(orders', u, s) + T(rest)
      BY <3>12, <3>13, <3>15, <3>16, <3>17, <3>18
    <3> QED BY <3>19 DEF T
  <2>25. PendAhead'
    <3>1. cleared' # 0 /\ taker' = taker
      BY <2>3, <2>5
    <3> QED BY <2>21, <2>24, <3>1 DEF PendAhead
  <2> QED BY <2>18, <2>19, <2>25 DEF PInv, CommittedPend
<1> QED BY <1>2, <1>3

(* Nothing is pending and no order is there when the market opens. *)
LEMMA InitPend == ASSUME ExchangeInit PROVE PInv
<1>1. RInv /\ pc = "idle"
  BY RowsInvariant DEF ExchangeInit, Init
<1>2. \A u \in Users, s \in Outcomes : Pend(ledger, u, s) = 0
  BY DEF ExchangeInit, Pend
<1>3. \A u, s : Offered(orders, u, s) = 0
  <2>1. DOMAIN orders = {}
    BY DEF ExchangeInit
  <2> QED BY <2>1, NothingOffered
<1> QED BY <1>1, <1>2, <1>3 DEF PInv, SizesAddUp, CommittedPend, PendAhead, CommittedLedger, CommittedOrders

(* The shares pending are those offered, at every step of every request of the
   users' exchange. *)
THEOREM PendingInductive == UserSpec => []PInv
<1>1. PInv /\ [UserNext]_allVars => PInv'
  <2> SUFFICES ASSUME PInv, [UserNext]_allVars PROVE PInv'
    OBVIOUS
  <2>1. RInv'
    BY RowsInvariant DEF PInv
  <2>2. ASSUME NEW r \in Requests, Refuse(r) PROVE PInv'
    <3>1. UNCHANGED <<pc, taker, fills, ledger, orders, saved, cleared>>
      BY <2>2 DEF Refuse, match, exchangeVars
    <3> QED BY <2>1, <3>1, SamePend
  <2>3. CASE Restart
    <3>1. CASE pc = "done"
      BY <2>1, <2>3, <3>1, AbortPend DEF Restart
    <3>2. CASE pc # "done"
      <4>1. UNCHANGED <<pc, taker, fills, ledger, orders, saved, cleared>>
        BY <2>3, <3>2 DEF Restart, match, exchangeVars
      <4> QED BY <2>1, <4>1, SamePend
    <3> QED BY <3>1, <3>2
  <2>4. CASE UNCHANGED allVars
    <3>1. UNCHANGED <<pc, taker, fills, ledger, orders, saved, cleared>>
      BY <2>4 DEF allVars, vars, exchangeVars
    <3> QED BY <2>1, <3>1, SamePend
  <2>5. CASE UserNext
    BY <2>1, <2>2, <2>3, <2>5, PlacePend, MatchPend, ClearPend, FinalizePend, CancelPend,
       ResolvePend DEF UserNext
  <2> QED BY <2>4, <2>5
<1> QED BY <1>1, InitPend, PTL DEF UserSpec

(* Between requests exactly the shares that active sell orders have left to
   sell are pending: no fill, cancellation, rollback or resolution leaves a
   share locked for ever or free while it is still on offer. *)
THEOREM PendingIsBacked == UserSpec => []PendingBacked
<1>1. ASSUME PInv PROVE PendingBacked
  <2> SUFFICES ASSUME pc = "idle", NEW u \in Users, NEW s \in Outcomes
               PROVE  ledger.pos[u][s].pend = Pending(orders, ActiveIds, u, s, Remainders(orders))
    BY DEF PendingBacked
  <2>1. Pend(ledger, u, s) = Offered(orders, u, s)
    BY <1>1 DEF PInv, CommittedPend, CommittedLedger, CommittedOrders
  <2> QED BY <2>1 DEF Pend, Offered, ActiveIds
<1> QED BY <1>1, PendingInductive, PTL
-----------------------------------------------------------------------------
(* While a match goes on, and until its first trade is cleared, the active
   rows are those the transaction found, and every trade is at the price at
   which its maker's row stands in the book. *)
RowsAsFound ==
  pc # "idle" /\ cleared = 0 =>
    /\ \A i \in DOMAIN orders \ {taker.id} :
         i \in DOMAIN saved.orders /\ (Active(orders[i]) => saved.orders[i] = orders[i])
    /\ \A k \in 1 .. Len(fills) :
         fills[k].price = BookPrice(fills[k].makerType, orders[fills[k].maker].price)

VInv == RInv /\ SizesAddUp /\ RowsAsFound

(* Between requests there is nothing to show. *)
LEMMA IdleFound == ASSUME RInv', pc' = "idle" PROVE VInv'
BY DEF VInv, SizesAddUp, RowsAsFound

(* An order is accepted, with rows as the transaction has left them. *)
LEMMA SubmitFound ==
  ASSUME RInv, RInv', NEW L, NEW rows, RowsOK(rows, nextId), NEW r \in Requests, Submit(L, rows, r),
         \A i \in DOMAIN rows : i \in DOMAIN orders /\ (Active(rows[i]) => orders[i] = rows[i])
  PROVE  VInv'
<1> DEFINE row == [user |-> r.user, type |-> TypeOf(r), price |-> r.price, qty |-> r.qty,
                   filled |-> 0, frozen |-> FreezeAmount(TypeOf(r), r.price, r.qty),
                   status |-> "OPEN", tif |-> r.tif]
<1>1. /\ fills' = <<>> /\ taker'.id = nextId /\ taker'.qty = r.qty /\ taker'.rem = r.qty
      /\ orders' = WithRow(rows, nextId, row) /\ saved'.orders = orders
  BY DEF Submit, TakeOrder
<1>2. r.qty \in Int
  BY RequestsAssumption
<1>3. SizesAddUp'
  <2>1. 1 .. Len(fills') = {}
    BY <1>1
  <2>2. SumOver(Sizes(fills'), {}) = 0 /\ taker'.qty - taker'.rem = 0
    BY <1>1, <1>2, SumEmpty
  <2> QED BY <2>1, <2>2 DEF SizesAddUp
<1>4. RowsAsFound'
  <2> HIDE DEF row
  <2>1. nextId \notin DOMAIN rows
    BY DEF RowsOK, RInv, LInv, BInv, IInv, TypeOK
  <2>2. /\ DOMAIN orders' = DOMAIN rows \union {nextId}
        /\ \A i \in DOMAIN rows : orders'[i] = rows[i]
    BY <1>1, <2>1 DEF WithRow
  <2>3. 1 .. Len(fills') = {}
    BY <1>1
  <2> QED BY <1>1, <2>2, <2>3 DEF RowsAsFound
<1> QED BY <1>3, <1>4 DEF VInv

(* place_order of an acceptable request *)
LEMMA PlaceFound == ASSUME RInv, RInv', NEW r \in Requests, Place(r) PROVE VInv'
<1>1. RowsOK(orders, nextId)
  BY DEF RInv, LInv
<1> QED BY <1>1, SubmitFound DEF Place

(* replace_order: the old order is no longer active. *)
LEMMA ReplaceFound ==
  ASSUME RInv, RInv', NEW id \in DOMAIN orders, NEW r \in Requests, Replace(id, r)
  PROVE  VInv'
<1> DEFINE L == UnfreezeRemainder(ledger, orders[id])
           rows == Cancelled(orders, {id})
<1>1. pc = "idle" /\ RowsOK(orders, nextId)
  BY DEF Replace, RInv, LInv
<1>2. CASE UNCHANGED match
  BY <1>1, <1>2, IdleFound DEF match
<1>3. CASE Submit(L, rows, r)
  <2>1. RowsOK(rows, nextId) /\ DOMAIN rows = DOMAIN orders
    BY <1>1, CancelledOK
  <2>2. \A i \in DOMAIN orders : /\ i = id => rows[i] = [orders[i] EXCEPT !.status = "CANCELLED"]
                                 /\ i # id => rows[i] = orders[i]
    BY <1>1, CancelledOK
  <2>3. orders[id] \in Row
    BY <1>1 DEF RowsOK
  <2>4. ~Active([orders[id] EXCEPT !.status = "CANCELLED"])
    BY <2>3 DEF Active, Row
  <2>5. \A i \in DOMAIN rows : i \in DOMAIN orders /\ (Active(rows[i]) => orders[i] = rows[i])
    BY <2>1, <2>2, <2>4
  <2> HIDE DEF rows, L
  <2> QED BY <1>3, <2>1, <2>5, SubmitFound
<1> QED BY <1>2, <1>3 DEF Replace

(* match_order: a trade is recorded at the price of the level its maker rests
   on, which is that of its row. *)
LEMMA MatchFound == ASSUME VInv, RInv', Match PROVE VInv'
<1>1. /\ RInv /\ RowsAsFound /\ SizesAddUp
      /\ UNCHANGED <<orders, saved, cleared>> /\ pc # "idle" /\ cleared = 0
      /\ taker'.id = taker.id /\ fills \in Seq(Trade)
  BY MatchTrades DEF VInv
<1>2. SizesAddUp'
  BY <1>1, MatchSizes
<1>3. CASE fills' = fills
  BY <1>1, <1>2, <1>3 DEF VInv, RowsAsFound
<1>4. ASSUME NEW f \in Trade, fills' = Append(fills, f),
             f.price = BookPrice(f.makerType, orders[f.maker].price)
      PROVE  VInv'
  <2>1. ASSUME NEW k \in 1 .. Len(fills')
        PROVE  fills'[k].price = BookPrice(fills'[k].makerType, orders[fills'[k].maker].price)
    <3>1. CASE k \in 1 .. Len(fills)
      <4>1. fills'[k] = fills[k]
        BY <1>1, <1>4, <3>1
      <4> QED BY <1>1, <3>1, <4>1 DEF RowsAsFound
    <3>2. CASE k = Len(fills) + 1
      <4>1. fills'[k] = f
        BY <1>1, <1>4, <3>2
      <4> QED BY <1>4, <4>1
    <3>3. k \in 1 .. Len(fills) \/ k = Len(fills) + 1
      BY <1>1, <1>4
    <3> QED BY <3>1, <3>2, <3>3
  <2> QED BY <1>1, <1>2, <2>1 DEF VInv, RowsAsFound
<1> QED BY <1>1, <1>3, <1>4, MatchTrades

(* One iteration of the clearing loop: the rows are no longer those found. *)
LEMMA ClearFound == ASSUME VInv, RInv', ClearFill PROVE VInv'
<1>1. CASE Abort
  <2>1. pc' = "idle"
    BY <1>1 DEF Abort, ForgetMatch
  <2> QED BY <2>1, IdleFound
<1>2. CASE cleared' = cleared + 1 /\ UNCHANGED vars
  <2>1. cleared' # 0 /\ UNCHANGED <<pc, fills, taker>>
    BY <1>2 DEF vars, VInv, RInv, LInv
  <2> QED BY <2>1 DEF VInv, SizesAddUp, RowsAsFound
<1> QED BY <1>1, <1>2 DEF ClearFill

(* The invariant of the match is inductive. *)
LEMMA FoundInvariant ==
  /\ ExchangeInit => VInv
  /\ VInv /\ [UserNext \/ AmmNext]_allVars => VInv'
<1>1. ASSUME ExchangeInit PROVE VInv
  <2>1. RInv /\ pc = "idle"
    BY <1>1, RowsInvariant DEF ExchangeInit, Init
  <2> QED BY <2>1 DEF VInv, SizesAddUp, RowsAsFound
<1>2. ASSUME VInv, [UserNext \/ AmmNext]_allVars PROVE VInv'
  <2>1. RInv /\ RInv'
    BY <1>2, RowsInvariant DEF VInv
  <2>2. ASSUME NEW r \in Requests, Refuse(r) PROVE VInv'
    BY <2>1, <2>2, IdleFound DEF Refuse, match
  <2>3. ASSUME Restart PROVE VInv'
    BY <2>1, <2>3, IdleFound DEF Restart, Abort, ForgetMatch, match
  <2>4. ASSUME NEW outcome \in Outcomes, Resolve(outcome) PROVE VInv'
    BY <2>1, <2>4, IdleFound DEF Resolve, vars
  <2>5. ASSUME Finalize PROVE VInv'
    BY <2>1, <2>5, IdleFound DEF Finalize, Abort, Finish, ForgetMatch
  <2>6. ASSUME NEW id \in DOMAIN orders, CancelOrder(id) PROVE VInv'
    BY <2>1, <2>6, IdleFound DEF CancelOrder, match
  <2>7. ASSUME NEW u, NEW scope, BatchCancel(u, scope) PROVE VInv'
    BY <2>1, <2>7, IdleFound DEF BatchCancel, match
  <2>8. CASE UserNext
    BY <1>2, <2>1, <2>2, <2>3, <2>4, <2>5, <2>6, <2>8, PlaceFound, MatchFound, ClearFound DEF UserNext
  <2>9. CASE AmmNext
    BY <2>1, <2>7, <2>9, ReplaceFound DEF AmmNext
  <2>10. CASE UNCHANGED allVars
    <3>1. UNCHANGED <<taker, pc, fills, orders, saved, cleared>>
      BY <2>10 DEF allVars, vars, exchangeVars
    <3> QED BY <1>2, <2>1, <3>1 DEF VInv, SizesAddUp, RowsAsFound
  <2> QED BY <1>2, <2>8, <2>9, <2>10
<1> QED BY <1>1, <1>2
-----------------------------------------------------------------------------
\* The active orders that an order of side s at book price b may be matched with
Crossing(rows, s, b) ==
  {i \in DOMAIN rows : /\ Active(rows[i]) /\ SideOf(rows[i].type) = Opposite(s)
                       /\ ~Better(s, BookPrice(rows[i].type, rows[i].price), b)}

(* What rows have left is a natural number; a level has a quantity. *)
LEMMA LevelFacts ==
  ASSUME NEW rows, NEW n \in Int, RowsOK(rows, n)
  PROVE  /\ IsFiniteSet(DOMAIN rows)
         /\ \A i \in DOMAIN rows : /\ Remainders(rows)[i] = Remaining(rows[i])
                                   /\ Remainders(rows)[i] \in Nat
                                   /\ BookPrice(rows[i].type, rows[i].price) \in Prices
         /\ \A s, p : TotalQty(rows, s, p) \in Nat
<1>1. IsFiniteSet(DOMAIN rows)
  <2>1. IsFiniteSet(1 .. n - 1) /\ DOMAIN rows \in SUBSET (1 .. n - 1)
    BY FS_Interval DEF RowsOK
  <2> QED BY <2>1, FS_Subset
<1>2. ASSUME NEW i \in DOMAIN rows
      PROVE  /\ Remainders(rows)[i] = Remaining(rows[i]) /\ Remainders(rows)[i] \in Nat
             /\ BookPrice(rows[i].type, rows[i].price) \in Prices
  <2>1. rows[i] \in Row /\ rows[i].filled \in 0 .. rows[i].qty
    BY DEF RowsOK, RowChecksHold
  <2>2. rows[i].qty \in Nat /\ rows[i].filled \in Nat /\ rows[i].filled <= rows[i].qty
    BY <2>1 DEF Row
  <2>3. Remaining(rows[i]) \in Nat
    BY <2>2 DEF Remaining
  <2>4. rows[i].price \in 1 .. MaxPrice /\ MaxPrice \in Int /\ Par = MaxPrice + 1
    BY <2>1, MaxPriceAssumption, ParIsAboveMaxPrice DEF Row, Prices
  <2>5. BookPrice(rows[i].type, rows[i].price) \in Prices
    BY <2>4 DEF BookPrice, PriceOf, OutcomeOf, Prices
  <2> QED BY <2>3, <2>5 DEF Remainders
<1>3. ASSUME NEW s, NEW p PROVE TotalQty(rows, s, p) \in Nat
  <2> DEFINE A == AtLevel(rows, s, p)
  <2>1. A \in SUBSET DOMAIN rows
    BY DEF AtLevel
  <2>2. IsFiniteSet(A) /\ \A i \in A : Remainders(rows)[i] \in Nat /\ Remainders(rows)[i] \in Int
    BY <1>1, <1>2, <2>1, FS_Subset
  <2> HIDE DEF A
  <2>3. SumOver(Remainders(rows), A) \in Int /\ SumOver(Remainders(rows), A) >= 0
    BY <2>2, SumInt, SumNotNegative
  <2> QED BY <2>3 DEF A, TotalQty
<1> QED BY <1>1, <1>2, <1>3

(* The levels shown *)
Shows(rows, s) == Truncated(AllLevels(rows, s), s)

(* They show what their rows have left; when all are asked for, every level
   that has anything is among them. *)
LEMMA ShowsLevels ==
  ASSUME NEW rows, NEW s
  PROVE  /\ DOMAIN Shows(rows, s) \subseteq Prices
         /\ \A p \in DOMAIN Shows(rows, s) : Shows(rows, s)[p] = TotalQty(rows, s, p)
         /\ ShownLevels >= MaxPrice =>
              \A p \in Prices : TotalQty(rows, s, p) > 0 => p \in DOMAIN Shows(rows, s)
<1> DEFINE L == {p \in Prices : AtLevel(rows, s, p) # {}}
           better(p) == {q \in L : Better(s, q, p)}
<1>1. DOMAIN AllLevels(rows, s) = L /\ \A p \in L : AllLevels(rows, s)[p] = TotalQty(rows, s, p)
  BY DEF AllLevels
<1>2. /\ DOMAIN Shows(rows, s) = {p \in L : Cardinality(better(p)) < ShownLevels}
      /\ \A p \in DOMAIN Shows(rows, s) : Shows(rows, s)[p] = TotalQty(rows, s, p)
  BY <1>1 DEF Shows, Truncated
<1>3. ASSUME ShownLevels >= MaxPrice, NEW p \in L PROVE Cardinality(better(p)) < ShownLevels
  <2>1. MaxPrice \in Nat /\ MaxPrice > 0 /\ ShownLevels \in Nat
    BY MaxPriceAssumption, ShownLevelsAssumption
  <2>2. IsFiniteSet(Prices) /\ Cardinality(Prices) = MaxPrice
    BY <2>1, FS_Interval DEF Prices
  <2>3. IsFiniteSet(Prices \ {p}) /\ Cardinality(Prices \ {p}) = MaxPrice - 1
    BY <2>2, FS_RemoveElement
  <2>4. better(p) \in SUBSET (Prices \ {p})
    BY <2>1 DEF Better, Prices
  <2> HIDE DEF better
  <2>5. Cardinality(better(p)) <= MaxPrice - 1 /\ Cardinality(better(p)) \in Nat
    BY <2>3, <2>4, FS_Subset, FS_CardinalityType
  <2> QED BY <1>3, <2>1, <2>5
<1>4. \A p \in Prices : TotalQty(rows, s, p) > 0 => p \in L
  BY SumEmpty DEF TotalQty
<1> QED BY <1>2, <1>3, <1>4

(* A price below another in the book of NO is above it in that of YES. *)
LEMMA MirrorBetter ==
  ASSUME NEW s \in Sides, NEW p \in Int, NEW q \in Int
  PROVE  /\ Better(Opposite(s), Par - p, q) <=> Better(s, p, Par - q)
         /\ Par \in Int
BY MaxPriceAssumption, ParIsAboveMaxPrice DEF Better, Opposite, Sides

(* What a user is shown of either outcome is what the book's other side has
   at the prices that cross the order's book price. *)
LEMMA OffersAre ==
  ASSUME NEW rows, NEW n \in Int, RowsOK(rows, n), NEW row \in Row
  PROVE  LET s == SideOf(row.type)
             view == Shows(rows, Opposite(s))
         IN OffersFor(rows, row)
              = SumOver(view, {p \in DOMAIN view : ~Better(s, p, BookPrice(row.type, row.price))})
<1> DEFINE s == SideOf(row.type)
           view == Shows(rows, Opposite(s))
           b == BookPrice(row.type, row.price)
           D == {p \in DOMAIN view : ~Better(s, p, b)}
<1>1. /\ row.type \in AllBookTypes /\ row.price \in Prices /\ s \in Sides
      /\ row.price \in Int /\ Par \in Int /\ Prices \subseteq Int
  BY MaxPriceAssumption, ParIsAboveMaxPrice DEF Row, Sides, SideOf, Prices
<1>2. /\ DOMAIN view \subseteq Prices
      /\ \A p \in DOMAIN view : view[p] \in Int
  <2>1. \A p \in DOMAIN view : view[p] = TotalQty(rows, Opposite(s), p)
    BY ShowsLevels
  <2>2. \A p : TotalQty(rows, Opposite(s), p) \in Nat
    BY LevelFacts
  <2>3. DOMAIN view \subseteq Prices
    BY ShowsLevels
  <2> HIDE DEF view
  <2> QED BY <2>1, <2>2, <2>3
<1>3. CASE OutcomeOf(row.type) = "YES"
  <2>1. row.type \in {"NATIVE_BUY", "NATIVE_SELL"}
    BY <1>3 DEF OutcomeOf
  <2>2. Direction(row.type) = s /\ b = row.price
    BY <1>3, <2>1 DEF Direction, SideOf, BookPrice, PriceOf
  <2>3. (IF Direction(row.type) = "BUY" THEN OrderbookResponse(rows)["YES"].asks
                                        ELSE OrderbookResponse(rows)["YES"].bids) = view
    BY <1>1, <2>2 DEF OrderbookResponse, Shows, Opposite, Sides
  <2> HIDE DEF view, s, b
  <2> QED BY <1>3, <2>2, <2>3 DEF OffersFor, s, view, b
<1>4. CASE OutcomeOf(row.type) = "NO"
  <2>1. row.type \in {"SYNTHETIC_BUY", "SYNTHETIC_SELL"}
    BY <1>1, <1>4 DEF OutcomeOf, AllBookTypes
  <2>2. Direction(row.type) = Opposite(s) /\ b = Par - row.price
    BY <1>4, <2>1 DEF Direction, SideOf, BookPrice, PriceOf, Opposite
  <2>3. (IF Direction(row.type) = "BUY" THEN OrderbookResponse(rows)["NO"].asks
                                        ELSE OrderbookResponse(rows)["NO"].bids) = Mirrored(view)
    BY <1>1, <2>2 DEF OrderbookResponse, Shows, Opposite, Sides
  <2>4. PICK g : g = Mirrored(view)
    OBVIOUS
  <2> DEFINE E == {p \in DOMAIN g : ~Better(Opposite(s), p, row.price)}
  <2>5. OffersFor(rows, row) = SumOver(g, E)
    <3> HIDE DEF view, s, b
    <3> QED BY <1>4, <2>2, <2>3, <2>4 DEF OffersFor
  <2>6. /\ DOMAIN g = {Par - p : p \in DOMAIN view}
        /\ \A p \in DOMAIN g : g[p] = view[Par - p]
    BY <2>4 DEF Mirrored
  <2> HIDE DEF view, s
  <2>7. \A p \in Int : Better(Opposite(s), Par - p, row.price) <=> Better(s, p, b)
    BY <1>1, <2>2, MirrorBetter
  <2>8. \A p \in DOMAIN view : p \in Int /\ Par - p \in Int /\ Par - (Par - p) = p
    <3>1. \A p \in Int : Par - p \in Int /\ Par - (Par - p) = p
      BY <1>1
    <3>2. DOMAIN view \subseteq Int
      BY <1>1, <1>2
    <3> QED BY <3>1, <3>2
  <2>9. \A p \in D : Par - p \in E
    BY <2>6, <2>7, <2>8
  <2>10. \A q \in E : Par - q \in D /\ Par - (Par - q) = q /\ g[q] = view[Par - q]
    <3> TAKE q \in E
    <3>1. PICK p \in DOMAIN view : q = Par - p
      BY <2>6
    <3> QED BY <2>6, <2>7, <2>8, <3>1
  <2>11. IsFiniteSet(D) /\ \A p \in D : view[p] \in Int
    <3>1. IsFiniteSet(Prices) /\ D \in SUBSET Prices
      BY <1>2, MaxPriceAssumption, FS_Interval DEF Prices
    <3> QED BY <1>2, <3>1, FS_Subset
  <2> HIDE DEF D, E, b
  <2>12. PICK h : h = [p \in Int |-> Par - p]
    OBVIOUS
  <2>13. D \subseteq Int /\ E \subseteq Int
    BY <1>1, <1>2, <2>6, <2>8 DEF D, E
  <2>14. /\ \A p \in D : h[p] \in E /\ h[h[p]] = p
         /\ \A q \in E : h[q] \in D /\ h[h[q]] = q /\ g[q] = view[h[q]]
    BY <2>8, <2>9, <2>10, <2>12, <2>13 DEF D
  <2>15. SumOver(g, E) = SumOver(view, D)
    BY <2>11, <2>14, SumRenamed
  <2> QED BY <2>5, <2>15 DEF D, view, s, b
<1> QED BY <1>3, <1>4 DEF OutcomeOf

(* What a user is shown is at most what the orders its own may be matched with
   have left, and all of it when every level is shown. *)
LEMMA ShownSum ==
  ASSUME NEW rows, NEW n \in Int, RowsOK(rows, n), NEW row \in Row
  PROVE  LET all == SumOver(Remainders(rows),
                            Crossing(rows, SideOf(row.type), BookPrice(row.type, row.price)))
         IN /\ all \in Int
            /\ OffersFor(rows, row) <= all
            /\ ShownLevels >= MaxPrice => OffersFor(rows, row) = all
<1> DEFINE s == SideOf(row.type)
           b == BookPrice(row.type, row.price)
           C == Crossing(rows, s, b)
           view == Shows(rows, Opposite(s))
           D == {p \in DOMAIN view : ~Better(s, p, b)}
           T == {p \in Prices : ~Better(s, p, b)}
<1>1. PICK f : f = Remainders(rows)
  OBVIOUS
<1>2. PICK h : h = [i \in DOMAIN rows |-> BookPrice(rows[i].type, rows[i].price)]
  OBVIOUS
<1>3. PICK g : g = [p \in T |-> TotalQty(rows, Opposite(s), p)]
  OBVIOUS
<1>4. IsFiniteSet(C) /\ \A i \in C : f[i] \in Int
  <2>1. IsFiniteSet(DOMAIN rows) /\ \A i \in DOMAIN rows : f[i] \in Nat
    BY <1>1, LevelFacts
  <2>2. C \in SUBSET DOMAIN rows
    BY DEF Crossing
  <2> HIDE DEF C
  <2> QED BY <2>1, <2>2, FS_Subset
<1>5. IsFiniteSet(T)
  <2>1. IsFiniteSet(Prices)
    BY MaxPriceAssumption, FS_Interval DEF Prices
  <2>2. T \in SUBSET Prices
    OBVIOUS
  <2> QED BY <2>1, <2>2, FS_Subset
<1>6. \A i \in C : h[i] \in T
  <2>1. \A i \in DOMAIN rows : BookPrice(rows[i].type, rows[i].price) \in Prices
    BY LevelFacts
  <2> QED BY <1>2, <2>1 DEF Crossing
<1>7. \A p \in T : g[p] = SumOver(f, Fibre(C, h, p)) /\ g[p] \in Nat
  <2> TAKE p \in T
  <2>1. Fibre(C, h, p) = AtLevel(rows, Opposite(s), p)
    BY <1>2 DEF Fibre, Crossing, AtLevel
  <2>2. TotalQty(rows, Opposite(s), p) \in Nat
    BY LevelFacts
  <2> QED BY <1>1, <1>3, <2>1, <2>2 DEF TotalQty
<1>8. /\ D \subseteq T
      /\ \A p \in D : view[p] = g[p]
      /\ ShownLevels >= MaxPrice => \A p \in T : g[p] > 0 => p \in D
  <2>1. /\ DOMAIN view \subseteq Prices
        /\ \A p \in DOMAIN view : view[p] = TotalQty(rows, Opposite(s), p)
        /\ ShownLevels >= MaxPrice =>
             \A p \in Prices : TotalQty(rows, Opposite(s), p) > 0 => p \in DOMAIN view
    BY ShowsLevels
  <2> HIDE DEF view
  <2> QED BY <1>3, <2>1
<1>9. OffersFor(rows, row) = SumOver(view, D)
  BY OffersAre
<1> HIDE DEF C, D, T, s, b, view
<1>10. SumOver(f, C) = SumOver(g, T) /\ SumOver(f, C) \in Int
  <2>1. SumOver(f, C) = SumOver(g, T)
    BY <1>4, <1>5, <1>6, <1>7, SumFibres
  <2> QED BY <1>4, <2>1, SumInt
<1>11. SumOver(view, D) <= SumOver(g, T)
  <2>1. \A p \in D : view[p] \in Int /\ view[p] <= g[p]
    BY <1>7, <1>8
  <2> QED BY <1>5, <1>7, <1>8, <2>1, SumAtMost
<1>12. ASSUME ShownLevels >= MaxPrice PROVE SumOver(view, D) = SumOver(g, T)
  <2>1. \A p \in T : p \notin D => g[p] = 0
    BY <1>7, <1>8, <1>12
  <2>2. \A p \in T : g[p] \in Int
    BY <1>7
  <2>3. SumOver(g, D) = SumOver(g, T)
    BY <1>5, <1>8, <2>1, <2>2, SumSupport
  <2>4. IsFiniteSet(D) /\ (\A p \in D : g[p] \in Int) /\ \A p \in D : view[p] = g[p]
    BY <1>5, <1>8, <2>2, FS_Subset
  <2>5. SumOver(view, D) = SumOver(g, D)
    BY <2>4, SumSame
  <2> QED BY <2>3, <2>5
<1> QED BY <1>1, <1>9, <1>10, <1>11, <1>12 DEF C, s, b

\* How much of the order i the trades of a match have taken
Taken(i) == SumOver(Sizes(fills), Fibre(1 .. Len(fills), [k \in 1 .. Len(fills) |-> fills[k].maker], i))

(* A match trades with each order once. *)
LEMMA TakenOnce ==
  ASSUME LInv, pc # "idle", NEW i
  PROVE  /\ (\A k \in 1 .. Len(fills) : fills[k].maker # i) => Taken(i) = 0
         /\ \A k \in 1 .. Len(fills) : fills[k].maker = i => Taken(i) = fills[k].qty
<1> DEFINE N == 1 .. Len(fills)
           h == [k \in N |-> fills[k].maker]
           F == Fibre(N, h, i)
<1>1. fills \in Seq(Trade) /\ FillsInPriceOrder
  BY DEF LInv, BInv, IInv, TypeOK
<1>2. F = {k \in N : fills[k].maker = i}
  BY DEF Fibre
<1>3. Taken(i) = SumOver(Sizes(fills), F)
  BY DEF Taken
<1> HIDE DEF F
<1>4. ASSUME \A k \in N : fills[k].maker # i PROVE Taken(i) = 0
  <2>1. F = {}
    BY <1>2, <1>4
  <2> QED BY <1>3, <2>1, SumEmpty
<1>5. ASSUME NEW k \in N, fills[k].maker = i PROVE Taken(i) = fills[k].qty
  <2>1. \A j \in N : fills[j].maker = i => j = k
    <3> TAKE j \in N
    <3>1. j \in Nat /\ k \in Nat /\ j >= 1 /\ k >= 1
      BY <1>1
    <3>2. CASE j < k
      <4>1. j \in 1 .. k - 1
        BY <3>1, <3>2
      <4> QED BY <1>1, <1>5, <4>1 DEF FillsInPriceOrder
    <3>3. CASE k < j
      <4>1. k \in 1 .. j - 1
        BY <3>1, <3>3
      <4> QED BY <1>1, <1>5, <4>1 DEF FillsInPriceOrder
    <3> QED BY <3>1, <3>2, <3>3
  <2>2. k \in F /\ F \ {k} = {}
    BY <1>2, <1>5, <2>1
  <2>3. IsFiniteSet(F) /\ \A j \in F : Sizes(fills)[j] \in Int
    <3>1. IsFiniteSet({k}) /\ F = {k}
      BY <2>2, FS_Singleton
    <3>2. \A j \in N : Sizes(fills)[j] \in Nat \ {0}
      BY <1>1, SizesInt
    <3> QED BY <1>5, <3>1, <3>2
  <2>4. SumOver(Sizes(fills), F) = Sizes(fills)[k] + SumOver(Sizes(fills), F \ {k})
    BY <2>2, <2>3, SumStep
  <2>5. Sizes(fills)[k] = fills[k].qty /\ Sizes(fills)[k] \in Int
    BY <1>1, <1>5, SizesInt
  <2>6. SumOver(Sizes(fills), F \ {k}) = 0
    BY <2>2, SumEmpty
  <2> QED BY <1>3, <2>4, <2>5, <2>6
<1> QED BY <1>4, <1>5

(* The trades taken together, order by order. *)
LEMMA FilledSum ==
  ASSUME LInv, NEW C, IsFiniteSet(C), \A k \in 1 .. Len(fills) : fills[k].maker \in C
  PROVE  FilledQty = SumOver([i \in C |-> Taken(i)], C)
<1> DEFINE N == 1 .. Len(fills)
<1>1. fills \in Seq(Trade)
  BY DEF LInv, BInv, IInv, TypeOK
<1>2. PICK h : h = [k \in N |-> fills[k].maker]
  OBVIOUS
<1>3. PICK g : g = [i \in C |-> Taken(i)]
  OBVIOUS
<1>4. PICK f : f = Sizes(fills)
  OBVIOUS
<1>5. IsFiniteSet(N) /\ (\A k \in N : f[k] \in Int) /\ \A k \in N : h[k] \in C
  <2>1. IsFiniteSet(N)
    BY <1>1, FS_Interval
  <2>2. \A k \in N : f[k] \in Nat \ {0}
    BY <1>1, <1>4, SizesInt
  <2> QED BY <1>2, <2>1, <2>2
<1>6. \A i \in C : g[i] = SumOver(f, Fibre(N, h, i))
  BY <1>2, <1>3, <1>4 DEF Taken
<1>7. FilledQty = SumOver(f, N)
  BY <1>4 DEF FilledQty, Sizes
<1> HIDE DEF N
<1>8. SumOver(f, N) = SumOver(g, C)
  BY <1>5, <1>6, SumFibres
<1> QED BY <1>3, <1>7, <1>8
-----------------------------------------------------------------------------
(* The makers of a match are orders the taker could have seen, each of which
   gave at most what it had left, and all of it when the taker wants more. *)
LEMMA MakersCross ==
  ASSUME VInv, pc = "done", cleared = 0, NEW k \in 1 .. Len(fills)
  PROVE  LET i == fills[k].maker
         IN /\ i \in Crossing(saved.orders, SideOf(taker.type), taker.price)
            /\ fills[k].qty <= Remaining(saved.orders[i])
            /\ taker.rem > 0 => fills[k].qty = Remaining(saved.orders[i])
<1> DEFINE m == fills[k].maker
           t == SideOf(taker.type)
<1>1. /\ RInv /\ LInv /\ RowsAsFound /\ TakerBacked /\ status = "ACTIVE"
      /\ RestingBacked /\ FillsBacked
  BY DEF VInv, RInv, TakerBacked
<1>2. fills \in Seq(Trade) /\ IndexAgrees /\ FillsInPriceOrder /\ FillInv /\ index \in SUBSET Entry
  BY <1>1 DEF LInv, BInv, IInv, TypeOK
<1>3. k \in Unapplied
  BY DEF Unapplied
<1>4. /\ m \in DOMAIN orders /\ m # taker.id /\ Active(orders[m])
      /\ orders[m].type = fills[k].makerType /\ SideOf(fills[k].makerType) # t
      /\ (\A e \in index : e.id # m) => Remaining(orders[m]) = fills[k].qty
  BY <1>1, <1>3 DEF FillsBacked
<1>5. m \in DOMAIN saved.orders /\ saved.orders[m] = orders[m]
  BY <1>1, <1>4 DEF RowsAsFound
<1>6. fills[k].price = BookPrice(orders[m].type, orders[m].price)
  BY <1>1, <1>4 DEF RowsAsFound
<1>7. ~Better(t, fills[k].price, taker.price)
  BY <1>2 DEF FillsInPriceOrder
<1>8. SideOf(orders[m].type) = Opposite(t)
  BY <1>4 DEF SideOf, Opposite
<1>9. fills[k].qty \in Nat \ {0}
  BY <1>2, SizesInt
<1>10. fills[k].qty <= Remaining(orders[m])
  <2>1. CASE \A e \in index : e.id # m
    BY <1>4, <1>9, <2>1
  <2>2. CASE \E e \in index : e.id = m
    <3>1. PICK e \in index : e.id = m
      BY <2>2
    <3>2. e.side \in Sides /\ e.price \in Prices
      BY <1>2 DEF Entry
    <3>3. PICK i \in 1 .. Len(queues[e.side][e.price]) : queues[e.side][e.price][i].id = m
      BY <1>2, <3>1, <3>2 DEF IndexAgrees, RestsAt
    <3>4. PICK o : o = queues[e.side][e.price][i]
      OBVIOUS
    <3>5. Remaining(orders[m]) = o.qty + fills[k].qty
      BY <1>1, <1>3, <3>2, <3>3, <3>4 DEF RestingBacked
    <3>6. o.qty \in Nat
      BY <1>1, <3>2, <3>4, RestingIds DEF BookOrder
    <3> QED BY <1>9, <3>5, <3>6
  <2> QED BY <2>1, <2>2
<1>11. ASSUME taker.rem > 0 PROVE fills[k].qty = Remaining(orders[m])
  BY <1>2, <1>4, <1>11 DEF FillInv
<1> QED BY <1>4, <1>5, <1>6, <1>7, <1>8, <1>10, <1>11 DEF Crossing

(* An order that the taker could have been matched with is among its makers,
   if it was in the book, the taker wants more and none of its own is there. *)
LEMMA AllCrossingTaken ==
  ASSUME VInv, pc = "done", cleared = 0, taker.rem > 0, BookWasWhole, NothingOwn,
         NEW i \in Crossing(saved.orders, SideOf(taker.type), taker.price)
  PROVE  \E k \in 1 .. Len(fills) : fills[k].maker = i
<1> DEFINE t == SideOf(taker.type)
<1>1. /\ RInv /\ LInv /\ RowsAsFound /\ TakerBacked /\ status = "ACTIVE" /\ RestingBacked
  BY DEF VInv, RInv, TakerBacked
<1>2. /\ IndexAgrees /\ BestIsBest /\ StopsOnlyAtOwn /\ index \in SUBSET Entry
      /\ queues \in [Sides -> [Prices -> Seq(BookOrder)]]
  BY <1>1 DEF LInv, BInv, IInv, TypeOK
<1>3. /\ i \in DOMAIN saved.orders /\ Active(saved.orders[i])
      /\ SideOf(saved.orders[i].type) = Opposite(t)
      /\ ~Better(t, BookPrice(saved.orders[i].type, saved.orders[i].price), taker.price)
  BY DEF Crossing
(* An order that rests has the row the transaction found. *)
<1>4. ASSUME NEW s \in Sides, NEW p \in Prices, NEW j \in 1 .. Len(queues[s][p])
      PROVE  LET o == queues[s][p][j]
             IN /\ o.id \in DOMAIN saved.orders /\ Active(saved.orders[o.id])
                /\ saved.orders[o.id].user = o.user
                /\ SideOf(saved.orders[o.id].type) = s
                /\ BookPrice(saved.orders[o.id].type, saved.orders[o.id].price) = p
  <2>1. PICK o : o = queues[s][p][j]
    OBVIOUS
  <2>2. o.id \in DOMAIN orders /\ Backs(orders[o.id], o, s, p)
    BY <1>1, <2>1 DEF RestingBacked
  <2>3. o.id # taker.id
    BY <1>1, <2>1, RestingIds
  <2>4. o.id \in DOMAIN saved.orders /\ saved.orders[o.id] = orders[o.id]
    BY <1>1, <2>2, <2>3 DEF RowsAsFound, Backs
  <2> QED BY <2>1, <2>2, <2>4 DEF Backs
<1> SUFFICES ASSUME \A k \in 1 .. Len(fills) : fills[k].maker # i PROVE FALSE
  OBVIOUS
<1>5. PICK e \in index : e.id = i
  <2>1. i \in {f.id : f \in index} \union {fills[n].maker : n \in 1 .. Len(fills)}
    BY <1>3 DEF BookWasWhole
  <2> QED BY <2>1
<1>6. e.side \in Sides /\ e.price \in Prices
  BY <1>2 DEF Entry
<1>7. PICK j \in 1 .. Len(queues[e.side][e.price]) : queues[e.side][e.price][j].id = i
  BY <1>2, <1>5, <1>6 DEF IndexAgrees, RestsAt
<1>8. e.side = MakerSide /\ ~Better(t, e.price, taker.price)
  BY <1>3, <1>4, <1>6, <1>7 DEF MakerSide
<1>9. e.price \in Levels(queues, MakerSide)
  BY <1>2, <1>6, <1>7, <1>8 DEF Levels
<1>10. /\ MakerPrice \in Levels(queues, MakerSide)
       /\ e.price = MakerPrice \/ Better(MakerSide, MakerPrice, e.price)
  <2>1. IsBest(MakerSide)
    BY <1>2, <1>6, <1>8 DEF BestIsBest
  <2> QED BY <1>9, <2>1 DEF IsBest, MakerPrice
<1>11. MakerPrice \in Prices /\ MakerQueue # <<>> /\ MakerQueue = queues[MakerSide][MakerPrice]
  BY <1>10 DEF Levels, MakerQueue
<1>12. Crosses
  <2>1. MakerPrice \in Int /\ e.price \in Int /\ taker.price \in Int
    BY <1>1, <1>6, <1>11, MaxPriceAssumption DEF Prices, LInv, BInv, IInv, TypeOK, Order
  <2>2. MakerSide = Opposite(t) /\ t \in Sides
    BY DEF MakerSide, SideOf, Sides
  <2> QED BY <1>8, <1>10, <2>1, <2>2 DEF Crosses, Better, Opposite, Sides
<1>13. 1 \in 1 .. Len(MakerQueue)
  BY <1>2, <1>6, <1>8, <1>11
<1>14. IsSelfTrade(taker.user, MakerQueue[1].user)
  <2>1. taker.rem > 0 /\ StopsOnlyAtOwn
    BY <1>2
  <2> QED BY <1>12, <1>13, <2>1 DEF StopsOnlyAtOwn
<1>15. PICK o : o = queues[MakerSide][MakerPrice][1]
  OBVIOUS
<1>16. /\ o.id \in DOMAIN saved.orders /\ Active(saved.orders[o.id])
       /\ saved.orders[o.id].user = taker.user /\ SideOf(saved.orders[o.id].type) = MakerSide
  BY <1>4, <1>6, <1>8, <1>11, <1>13, <1>14, <1>15 DEF IsSelfTrade
<1>17. MakerSide # t
  BY DEF MakerSide, Opposite, SideOf
<1> QED BY <1>16, <1>17 DEF NothingOwn

(* What is shown can be had, at every end of a match. *)
LEMMA ShownStep == ASSUME VInv PROVE ShownCanBeHad
<1> SUFFICES ASSUME pc = "done", cleared = 0
             PROVE  LET row == orders[taker.id]
                        shown == OffersFor(saved.orders, row)
                    IN /\ BookWasWhole /\ NothingOwn => FilledQty >= row.qty \/ FilledQty >= shown
                       /\ ShownLevels >= MaxPrice => FilledQty <= shown
  BY DEF ShownCanBeHad
<1>1. /\ LInv /\ SizesAddUp /\ TakerBacked /\ RowsOK(orders, nextId) /\ RowsOK(saved.orders, nextId)
      /\ nextId \in Int /\ taker.id \in DOMAIN orders /\ taker \in Order
  BY DEF VInv, RInv, LInv, BInv, IInv, TypeOK
<1>2. PICK row : row = orders[taker.id]
  OBVIOUS
<1>3. PICK rows : rows = saved.orders
  OBVIOUS
<1> DEFINE C == Crossing(rows, SideOf(taker.type), taker.price)
           shown == OffersFor(rows, row)
<1>4. /\ row \in Row /\ row.type = taker.type /\ row.qty = taker.qty
      /\ BookPrice(row.type, row.price) = taker.price
  BY <1>1, <1>2 DEF RowsOK, TakerBacked
<1>5. /\ SumOver(Remainders(rows), C) \in Int /\ shown <= SumOver(Remainders(rows), C)
      /\ ShownLevels >= MaxPrice => shown = SumOver(Remainders(rows), C)
  <2>1. RowsOK(rows, nextId)
    BY <1>1, <1>3
  <2> QED BY <1>1, <1>4, <2>1, ShownSum
<1>6. /\ IsFiniteSet(C)
      /\ \A i \in C : Remainders(rows)[i] = Remaining(rows[i]) /\ Remainders(rows)[i] \in Nat
  <2>1. /\ IsFiniteSet(DOMAIN rows)
        /\ \A i \in DOMAIN rows : Remainders(rows)[i] = Remaining(rows[i]) /\ Remainders(rows)[i] \in Nat
    BY <1>1, <1>3, LevelFacts
  <2>2. C \in SUBSET DOMAIN rows
    BY DEF Crossing
  <2> HIDE DEF C
  <2> QED BY <2>1, <2>2, FS_Subset
<1>7. PICK f : f = Remainders(rows)
  OBVIOUS
<1>8. PICK g : g = [i \in C |-> Taken(i)]
  OBVIOUS
<1>9. \A k \in 1 .. Len(fills) :
        /\ fills[k].maker \in C
        /\ fills[k].qty \in Nat /\ fills[k].qty <= f[fills[k].maker]
        /\ taker.rem > 0 => fills[k].qty = f[fills[k].maker]
  <2> TAKE k \in 1 .. Len(fills)
  <2>1. fills[k].qty \in Nat \ {0}
    BY <1>1, SizesInt DEF LInv, BInv, IInv, TypeOK
  <2>2. fills[k].maker \in C
    BY <1>3, MakersCross
  <2>3. /\ fills[k].qty <= Remaining(rows[fills[k].maker])
        /\ taker.rem > 0 => fills[k].qty = Remaining(rows[fills[k].maker])
    BY <1>3, MakersCross
  <2> HIDE DEF C
  <2> QED BY <1>6, <1>7, <2>1, <2>2, <2>3
<1>10. FilledQty = SumOver(g, C)
  BY <1>1, <1>6, <1>8, <1>9, FilledSum
<1>11. \A i \in C : g[i] \in Int /\ g[i] <= f[i]
  <2> TAKE i \in C
  <2>1. CASE \E k \in 1 .. Len(fills) : fills[k].maker = i
    <3>1. PICK k \in 1 .. Len(fills) : fills[k].maker = i
      BY <2>1
    <3>2. Taken(i) = fills[k].qty
      BY <1>1, <3>1, TakenOnce
    <3> QED BY <1>8, <1>9, <3>1, <3>2
  <2>2. CASE \A k \in 1 .. Len(fills) : fills[k].maker # i
    <3>1. Taken(i) = 0
      BY <1>1, <2>2, TakenOnce
    <3> QED BY <1>6, <1>7, <1>8, <3>1
  <2> QED BY <2>1, <2>2
<1>12. FilledQty <= SumOver(f, C) /\ FilledQty \in Int
  <2> HIDE DEF C
  <2>1. SumOver(g, C) <= SumOver(f, C)
    BY <1>6, <1>7, <1>11, SumAtMost
  <2>2. SumOver(g, C) \in Int
    BY <1>6, <1>11, SumInt
  <2> QED BY <1>10, <2>1, <2>2
<1>13. ASSUME BookWasWhole, NothingOwn, ~(FilledQty >= row.qty) PROVE FilledQty >= shown
  <2>1. taker.rem > 0
    <3>1. FilledQty = taker.qty - taker.rem
      BY <1>1 DEF SizesAddUp, FilledQty, Sizes
    <3> QED BY <1>1, <1>4, <1>13, <3>1 DEF Order
  <2>2. \A i \in C : g[i] = f[i]
    <3> TAKE i \in C
    <3>1. PICK k \in 1 .. Len(fills) : fills[k].maker = i
      BY <1>3, <1>13, <2>1, AllCrossingTaken
    <3>2. Taken(i) = fills[k].qty
      BY <1>1, <3>1, TakenOnce
    <3> QED BY <1>8, <1>9, <2>1, <3>1, <3>2
  <2> HIDE DEF C, shown
  <2>3. \A i \in C : f[i] \in Int
    BY <1>6, <1>7
  <2>4. SumOver(g, C) = SumOver(f, C)
    BY <1>6, <2>2, <2>3, SumSame
  <2> QED BY <1>5, <1>7, <1>10, <1>12, <2>4
<1> HIDE DEF C
<1>14. ASSUME ShownLevels >= MaxPrice PROVE FilledQty <= shown
  BY <1>5, <1>7, <1>12, <1>14
<1> QED BY <1>2, <1>3, <1>13, <1>14

(* What GET /orderbook shows can be had: whatever was matched, cancelled,
   replaced or rolled back before, an order sent to an unchanged book that
   holds every active row is filled in full or from all the levels it was
   shown, YES or NO, unless orders of its own stand in the way; and when every
   level is shown it never gets more than that. *)
THEOREM ShownIsHad == AmmSpec => []ShownCanBeHad
<1>1. AmmSpec => []VInv
  BY FoundInvariant, PTL DEF AmmSpec
<1> QED BY <1>1, ShownStep, PTL
=============================================================================
