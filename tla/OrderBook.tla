------------------------------ MODULE OrderBook ------------------------------
(***************************************************************************)
(* The in-memory order book of one market and the matching loop that runs  *)
(* over it (pm_matching/engine/order_book.py and matching_algo.py).        *)
(*                                                                         *)
(* match_order contains no await, so nothing else runs between two of its  *)
(* iterations: the iterations are separate actions here, and every action  *)
(* that starts another operation waits for pc = "idle".                    *)
(*                                                                         *)
(* Order ids are the numbers 1, 2, ... in order of creation, so that an id *)
(* also stands for created_at.  Prices are 1 .. MaxPrice (99 in the code). *)
(***************************************************************************)
EXTENDS Integers, Sequences

CONSTANTS
  MaxPrice,     \* highest price level (99)
  Users,        \* the users who place orders
  Exempt,       \* SELF_TRADE_EXEMPT_USERS: the AMM account
  BookTypes,    \* the book types in use, a subset of AllBookTypes
  Quantities,   \* the order sizes placed
  MaxOrders     \* bound on the number of orders ever created

AllBookTypes == {"NATIVE_BUY", "NATIVE_SELL", "SYNTHETIC_BUY", "SYNTHETIC_SELL"}

ASSUME MaxPriceAssumption == MaxPrice \in Nat \ {0}
ASSUME UsersAssumption == Exempt \subseteq Users
ASSUME BookTypesAssumption == BookTypes \subseteq AllBookTypes
ASSUME QuantitiesAssumption == Quantities \subseteq Nat \ {0}
ASSUME MaxOrdersAssumption == MaxOrders \in Nat

VARIABLES
  queues,    \* queues[side][price]: the deque of resting orders of a level
  best,      \* best[side]: best_bid and best_ask
  index,     \* _order_index: the entries [id, side, price]
  taker,     \* the incoming order of the match in progress
  pc,        \* where match_order stands: "idle", "outer", "inner", "done"
  checked,   \* own orders rotated at the current level
  total,     \* orders of the level when its scan began, less those popped
  fills,     \* the TradeResults of the match in progress
  nextId     \* the id of the next order

book == <<queues, best, index>>
match == <<taker, pc, checked, total, fills>>
vars == <<queues, best, index, taker, pc, checked, total, fills, nextId>>

-----------------------------------------------------------------------------
Sides == {"BUY", "SELL"}
Prices == 1 .. MaxPrice

\* book_direction of a book type
SideOf(t) == IF t \in {"NATIVE_BUY", "SYNTHETIC_BUY"} THEN "BUY" ELSE "SELL"
Opposite(s) == IF s = "BUY" THEN "SELL" ELSE "BUY"

\* best_bid = 0 and best_ask = 100 stand for an empty side.
NoBest(s) == IF s = "BUY" THEN 0 ELSE MaxPrice + 1
Better(s, p, q) == IF s = "BUY" THEN p > q ELSE p < q

BookOrder == [id : Nat, user : Users, type : AllBookTypes, qty : Nat \ {0}]
Entry == [id : Nat, side : Sides, price : Prices]
Order == [id : Nat, user : Users, type : AllBookTypes, price : Prices,
          qty : Nat \ {0}, rem : Nat, tif : {"GTC", "IOC"}]
Trade == [maker : Nat, makerUser : Users, makerType : AllBookTypes,
          taker : Nat, price : Prices, qty : Nat \ {0}]

NoOrder == [id |-> 0]

EmptyQueues == [s \in Sides |-> [p \in Prices |-> <<>>]]
Levels(qs, s) == {p \in Prices : qs[s][p] # <<>>}

\* _refresh_best_bid, _refresh_best_ask: scan the levels from the best price
\* on and keep the first that holds an order.
RefreshBest(qs, s) ==
  IF Levels(qs, s) = {}
  THEN NoBest(s)
  ELSE CHOOSE p \in Levels(qs, s) :
         \A q \in Levels(qs, s) : q = p \/ Better(s, p, q)

\* is_self_trade
IsSelfTrade(u, v) == u \notin Exempt /\ v \notin Exempt /\ u = v

\* Faulty: the rotated order is put at the back and left at the front too.
RotateKeepsHead(q) == Append(q, Head(q))

\* deque operations: del queue[i], queue.rotate(-1)
Without(q, i) == [j \in 1 .. Len(q) - 1 |-> IF j < i THEN q[j] ELSE q[j + 1]]
Rotate(q) == Append(Tail(q), Head(q))

\* OrderBook.add_order
AddOrder(s, p, bo) ==
  /\ queues' = [queues EXCEPT ![s][p] = Append(@, bo)]
  /\ best' = [best EXCEPT ![s] = IF Better(s, p, @) THEN p ELSE @]
  /\ index' = index \union {[id |-> bo.id, side |-> s, price |-> p]}

\* Faulty: the best price is not refreshed when the best level is emptied.
RemoveKeepsBest(e) ==
  LET q == queues[e.side][e.price]
  IN \E i \in 1 .. Len(q) :
       /\ q[i].id = e.id
       /\ queues' = [queues EXCEPT ![e.side][e.price] = Without(q, i)]
       /\ index' = {f \in index : f.id # e.id}
       /\ UNCHANGED best

\* OrderBook.cancel_order, for an order that the index knows
RemoveOrder(e) ==
  LET q == queues[e.side][e.price]
  IN \E i \in 1 .. Len(q) :
       /\ q[i].id = e.id
       /\ queues' = [queues EXCEPT ![e.side][e.price] = Without(q, i)]
       /\ best' = IF e.price = best[e.side]
                  THEN [best EXCEPT ![e.side] = RefreshBest(queues', e.side)]
                  ELSE best
       /\ index' = {f \in index : f.id # e.id}

\* MatchingEngine drops the book of the market: the next request finds an
\* empty one (_orderbooks.pop, then _get_or_create_orderbook).
EvictBook ==
  /\ queues' = EmptyQueues
  /\ best' = [s \in Sides |-> NoBest(s)]
  /\ index' = {}

-----------------------------------------------------------------------------
Init ==
  /\ queues = EmptyQueues
  /\ best = [s \in Sides |-> NoBest(s)]
  /\ index = {}
  /\ taker = NoOrder /\ pc = "idle" /\ checked = 0 /\ total = 0
  /\ fills = <<>>
  /\ nextId = 1

\* A new order is created and match_order called with it.
TakeOrder(u, t, p, q, tif) ==
  /\ pc = "idle"
  /\ nextId <= MaxOrders
  /\ taker' = [id |-> nextId, user |-> u, type |-> t, price |-> p,
               qty |-> q, rem |-> q, tif |-> tif]
  /\ nextId' = nextId + 1
  /\ pc' = "outer"
  /\ fills' = <<>>
  /\ UNCHANGED <<checked, total>>

BeginMatch(u, t, p, q, tif) == TakeOrder(u, t, p, q, tif) /\ UNCHANGED book

MakerSide == Opposite(SideOf(taker.type))
MakerPrice == best[MakerSide]
MakerQueue == queues[MakerSide][MakerPrice]

\* Faulty: the limit is one cent too loose.
CrossesOneTooFar ==
  /\ MakerPrice \in Prices
  /\ ~Better(SideOf(taker.type), MakerPrice,
             IF SideOf(taker.type) = "BUY" THEN taker.price + 1 ELSE taker.price - 1)

\* best_ask <= incoming.book_price, best_bid >= incoming.book_price
Crosses == ~Better(SideOf(taker.type), MakerPrice, taker.price)

\* Faulty: the scan of a level leaves out its last order.
InnerGuardShort == MakerQueue # <<>> /\ taker.rem > 0 /\ checked < total - 1

\* The conditions of the outer and of the inner while loop.
OuterGuard == taker.rem > 0 /\ Crosses
InnerGuard == MakerQueue # <<>> /\ taker.rem > 0 /\ checked < total

\* The outer loop takes up the best level of the other side ...
ScanLevel ==
  /\ pc = "outer"
  /\ OuterGuard
  /\ checked' = 0
  /\ total' = Len(MakerQueue)
  /\ pc' = "inner"
  /\ UNCHANGED <<book, taker, fills, nextId>>

\* ... or ends.
StopMatch ==
  /\ pc = "outer"
  /\ ~OuterGuard
  /\ pc' = "done"
  /\ UNCHANGED <<book, taker, checked, total, fills, nextId>>

\* Faulty: the rotated order is not counted.
SkipOwnUncounted ==
  /\ pc = "inner"
  /\ InnerGuard
  /\ IsSelfTrade(taker.user, Head(MakerQueue).user)
  /\ queues' = [queues EXCEPT ![MakerSide][MakerPrice] = Rotate(@)]
  /\ UNCHANGED <<best, index, taker, pc, checked, total, fills, nextId>>

\* The inner loop meets an order of the taker's own: rotate it to the back.
SkipOwn ==
  /\ pc = "inner"
  /\ InnerGuard
  /\ IsSelfTrade(taker.user, Head(MakerQueue).user)
  /\ queues' = [queues EXCEPT ![MakerSide][MakerPrice] = Rotate(@)]
  /\ checked' = checked + 1
  /\ UNCHANGED <<best, index, taker, pc, total, fills, nextId>>

\* The effect of a fill of quantity q on the taker and on the trades.
Record(m, q) ==
  /\ taker' = [taker EXCEPT !.rem = @ - q]
  /\ fills' = Append(fills, [maker |-> m.id, makerUser |-> m.user,
                             makerType |-> m.type, taker |-> taker.id,
                             price |-> MakerPrice, qty |-> q])

\* Faulty: a used-up order leaves the queue but not the index.
PopKeepsIndex(m) ==
  /\ queues' = [queues EXCEPT ![MakerSide][MakerPrice] = Tail(@)]
  /\ total' = total - 1
  /\ UNCHANGED index

\* Faulty: a partly filled order goes to the back of its level.
ReduceToBack(m, q) ==
  /\ queues' = [queues EXCEPT ![MakerSide][MakerPrice] =
                  Append(Tail(@), [m EXCEPT !.qty = @ - q])]
  /\ UNCHANGED <<index, total>>

\* Faulty: a used-up order stays in the queue with quantity 0.
PopLeavesEmpty(m) ==
  /\ queues' = [queues EXCEPT ![MakerSide][MakerPrice] =
                  Append(Tail(@), [m EXCEPT !.qty = 0])]
  /\ index' = {e \in index : e.id # m.id}
  /\ total' = total - 1

\* queue.popleft() and _order_index.pop: the resting order is used up.
PopMaker(m) ==
  /\ queues' = [queues EXCEPT ![MakerSide][MakerPrice] = Tail(@)]
  /\ index' = {e \in index : e.id # m.id}
  /\ total' = total - 1

\* The resting order keeps its place with what is left of it.
ReduceMaker(m, q) ==
  /\ queues' = [queues EXCEPT ![MakerSide][MakerPrice] =
                  [@ EXCEPT ![1] = [m EXCEPT !.qty = @ - q]]]
  /\ UNCHANGED <<index, total>>

\* The inner loop fills against the head of the level, at the level's price;
\* a resting order that is used up leaves the queue and the index.
Fill ==
  LET m == Head(MakerQueue)
      q == IF taker.rem < m.qty THEN taker.rem ELSE m.qty
  IN /\ pc = "inner"
     /\ InnerGuard
     /\ ~IsSelfTrade(taker.user, m.user)
     /\ Record(m, q)
     /\ IF q = m.qty THEN PopMaker(m) ELSE ReduceMaker(m, q)
     /\ UNCHANGED <<best, pc, checked, nextId>>

\* Faulty: a level that still holds orders does not end the match.
LeaveLevelGoesOn ==
  /\ pc = "inner"
  /\ ~InnerGuard
  /\ best' = IF MakerQueue = <<>>
             THEN [best EXCEPT ![MakerSide] = RefreshBest(queues, MakerSide)]
             ELSE best
  /\ pc' = "outer"
  /\ UNCHANGED <<queues, index, taker, checked, total, fills, nextId>>

\* The scan of a level is over: an emptied level moves the best price on and
\* the outer loop goes on; a level that still holds orders ends the match.
LeaveLevel ==
  /\ pc = "inner"
  /\ ~InnerGuard
  /\ IF MakerQueue = <<>>
     THEN /\ best' = [best EXCEPT ![MakerSide] = RefreshBest(queues, MakerSide)]
          /\ pc' = "outer"
     ELSE UNCHANGED best /\ pc' = "done"
  /\ UNCHANGED <<queues, index, taker, checked, total, fills, nextId>>

\* The locals of match_order end with the operation.
ForgetMatch ==
  /\ taker' = NoOrder /\ pc' = "idle" /\ checked' = 0 /\ total' = 0
  /\ fills' = <<>>

\* _finalize_order: what is left of a GTC order rests in the book, what is
\* left of an IOC order is dropped.
Finish ==
  /\ pc = "done"
  /\ IF taker.rem > 0 /\ taker.tif = "GTC"
     THEN AddOrder(SideOf(taker.type), taker.price,
                   [id |-> taker.id, user |-> taker.user,
                    type |-> taker.type, qty |-> taker.rem])
     ELSE UNCHANGED book
  /\ ForgetMatch
  /\ UNCHANGED nextId

\* cancel_order of an id that rests in the book; other ids are ignored.
Cancel(e) ==
  /\ pc = "idle"
  /\ RemoveOrder(e)
  /\ UNCHANGED <<match, nextId>>

\* An exception drops the book: in place_order before the match or in the
\* clearing after it, or in cancel_order.
Evict ==
  /\ pc \in {"idle", "done"}
  /\ EvictBook
  /\ ForgetMatch
  /\ UNCHANGED nextId

MatchStep == ScanLevel \/ StopMatch \/ SkipOwn \/ Fill \/ LeaveLevel \/ Finish

Next ==
  \/ \E u \in Users, t \in BookTypes, p \in Prices, q \in Quantities,
        tif \in {"GTC", "IOC"} : BeginMatch(u, t, p, q, tif)
  \/ MatchStep
  \/ \E e \in index : Cancel(e)
  \/ Evict

\* The loop runs to its end once it has begun: it never yields.
Spec == Init /\ [][Next]_vars /\ WF_vars(MatchStep)

-----------------------------------------------------------------------------
\* Every variable keeps its type; in particular no order rests with quantity
\* 0 (matching_algo.py pops it) and the taker never overfills.
TypeOK ==
  /\ queues \in [Sides -> [Prices -> Seq(BookOrder)]]
  /\ best \in [Sides -> 0 .. MaxPrice + 1]
  /\ index \in SUBSET Entry
  /\ taker \in Order \union {NoOrder}
  /\ pc \in {"idle", "outer", "inner", "done"}
  /\ pc # "idle" => taker \in Order
  /\ checked \in Nat
  /\ total \in Int
  /\ fills \in Seq(Trade)
  /\ nextId \in Nat \ {0}

IsBest(s) ==
  IF Levels(queues, s) = {}
  THEN best[s] = NoBest(s)
  ELSE /\ best[s] \in Levels(queues, s)
       /\ \A q \in Levels(queues, s) : q = best[s] \/ Better(s, best[s], q)

\* best_bid and best_ask are the best non-empty levels whenever an operation
\* reads them: additions, cancellations, emptied levels and evictions all
\* keep the cached price current.  Only while a level is being scanned may
\* that level be empty.
BestIsBest ==
  \A s \in Sides : (pc = "inner" /\ s = MakerSide) \/ IsBest(s)

RestsAt(id, s, p) == \E i \in 1 .. Len(queues[s][p]) : queues[s][p][i].id = id

\* _order_index lists exactly the orders in the queues, each under its side
\* and price, so that a cancellation always finds its order.
IndexAgrees ==
  \A s \in Sides, p \in Prices :
    /\ \A i \in 1 .. Len(queues[s][p]) :
         [id |-> queues[s][p][i].id, side |-> s, price |-> p] \in index
    /\ \A e \in index : e.side = s /\ e.price = p => RestsAt(e.id, s, p)

\* No order rests twice: neither in two levels nor twice in one.
RestsOnce ==
  \A s, t \in Sides, p, q \in Prices :
    \A i \in 1 .. Len(queues[s][p]), j \in 1 .. Len(queues[t][q]) :
      queues[s][p][i].id = queues[t][q][j].id => s = t /\ p = q /\ i = j

\* The trades of one match come at prices that get no better for the taker
\* from one to the next, never beyond its limit, and each with another maker.
FillsInPriceOrder ==
  \A i \in 1 .. Len(fills) :
    /\ ~Better(SideOf(taker.type), fills[i].price, taker.price)
    /\ \A j \in 1 .. i - 1 :
         /\ ~Better(SideOf(taker.type), fills[j].price, fills[i].price)
         /\ fills[j].maker # fills[i].maker

\* A match that ends with quantity left has either run out of prices or met a
\* best level that holds nothing but the taker's own orders.
StopsOnlyAtOwn ==
  pc = "done" /\ taker.rem > 0 =>
    \/ ~Crosses
    \/ \A i \in 1 .. Len(MakerQueue) :
         IsSelfTrade(taker.user, MakerQueue[i].user)

Before(q, x, y) ==
  \E i, j \in 1 .. Len(q) : i < j /\ q[i].id = x /\ q[j].id = y
OwnerAt(q, x) == CHOOSE u \in Users : \E i \in 1 .. Len(q) : q[i].id = x /\ q[i].user = u

\* Within a level two orders change places only when the one that falls back
\* belongs to the taker: rotate(-1) costs nobody else their place.
OnlyOwnerLosesPlace ==
  [][\A s \in Sides, p \in Prices :
       \A x, y \in 1 .. MaxOrders :
         Before(queues[s][p], x, y) /\ Before(queues[s][p], y, x)'
           => pc = "inner" /\ OwnerAt(queues[s][p], x) = taker.user]_vars

\* What a match still has to do: the quantity it wants, how far its loops are
\* from their end (an emptied level sends it back to the outer loop), and the
\* orders of the level not yet looked at
LoopStage == CASE pc = "inner" -> IF MakerQueue = <<>> THEN 3 ELSE 1
               [] pc = "outer" -> 2
               [] OTHER -> 0
StillToDo == <<taker.rem, LoopStage, IF pc = "inner" THEN total - checked ELSE 0>>

\* a comes before b in the lexicographic order of triples of natural numbers,
\* in which nothing can fall for ever.
Lower(a, b) ==
  /\ a \in Nat \X Nat \X Nat
  /\ \E n \in 1 .. 3 : a[n] < b[n] /\ \A m \in 1 .. n - 1 : a[m] = b[m]

\* Every iteration of match_order brings the match nearer to its end: none is
\* spent without a fill, a level left or an own order counted, so that levels
\* cannot be taken up and left in turns for ever.
MatchAdvances == [][pc # "idle" => pc' = "idle" \/ Lower(StillToDo', StillToDo)]_vars

\* The matching loop ends, whatever mixture of own and foreign orders it
\* meets.
MatchTerminates == pc # "idle" ~> pc = "idle"
=============================================================================
