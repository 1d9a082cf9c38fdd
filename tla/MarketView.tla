----------------------------- MODULE MarketView -----------------------------
(***************************************************************************)
(* What pm_market shows of a market's book: get_orderbook_snapshot         *)
(* aggregates the active rows of orders, not the book in memory, into the  *)
(* YES levels, and _to_no_view mirrors them for the NO side.               *)
(***************************************************************************)
EXTENDS Exchange

CONSTANT ShownLevels   \* how many levels of each side are asked for

ASSUME ShownLevelsAssumption == ShownLevels \in Nat

\* _ORDERBOOK_AGGREGATE_SQL: the active rows of a side at a book price, and
\* what they have left together.
AtLevel(rows, side, price) ==
  {i \in DOMAIN rows : /\ Active(rows[i]) /\ SideOf(rows[i].type) = side
                       /\ BookPrice(rows[i].type, rows[i].price) = price}
TotalQty(rows, side, price) == SumOver(Remainders(rows), AtLevel(rows, side, price))

\* The levels of a side, a function from prices to quantities: the order in
\* which they are listed, best first, is that of the prices.
AllLevels(rows, side) ==
  [p \in {q \in Prices : AtLevel(rows, side, q) # {}} |-> TotalQty(rows, side, p)]

\* The best of them: bids from the highest price, asks from the lowest
Truncated(levels, side) ==
  [p \in {q \in DOMAIN levels :
            Cardinality({r \in DOMAIN levels : Better(side, r, q)}) < ShownLevels} |-> levels[p]]

\* Faulty: the prices are not mirrored.
SameLevels(levels) == levels

Mirrored(levels) == [p \in {Par - q : q \in DOMAIN levels} |-> levels[Par - p]]

\* OrderbookResponse.from_snapshot: the YES side as it is, the NO side from
\* the YES levels that are shown.
OrderbookResponse(rows) ==
  LET bids == Truncated(AllLevels(rows, "BUY"), "BUY")
      asks == Truncated(AllLevels(rows, "SELL"), "SELL")
  IN [YES |-> [bids |-> bids, asks |-> asks],
      NO |-> [bids |-> Mirrored(asks), asks |-> Mirrored(bids)]]

-----------------------------------------------------------------------------
Direction(type) == IF type \in {"NATIVE_BUY", "SYNTHETIC_SELL"} THEN "BUY" ELSE "SELL"

\* What the view shows a user who is about to send the order of this row: the
\* offers of its outcome at its price or better.
OffersFor(rows, row) ==
  LET view == OrderbookResponse(rows)[OutcomeOf(row.type)]
      offers == IF Direction(row.type) = "BUY" THEN view.asks ELSE view.bids
  IN SumOver(offers, {p \in DOMAIN offers : ~Better(Direction(row.type), p, row.price)})

FilledQty == SumOver([n \in 1 .. Len(fills) |-> fills[n].qty], 1 .. Len(fills))

\* When the match began the book in memory held every active row, and none
\* of the taker's own on the other side.
BookWasWhole ==
  {i \in DOMAIN saved.orders : Active(saved.orders[i])}
    \subseteq {e.id : e \in index} \union {fills[n].maker : n \in 1 .. Len(fills)}
NothingOwn ==
  \A i \in DOMAIN saved.orders :
    Active(saved.orders[i]) /\ saved.orders[i].user = taker.user =>
      SideOf(saved.orders[i].type) = SideOf(taker.type)

\* What GET /orderbook shows can be had: an order sent to an unchanged book is
\* filled from all the levels it was shown, YES or NO, unless orders of its
\* own stand in the way or the book has been dropped since.  And when every
\* level is shown, it gets no more than that.
ShownCanBeHad ==
  pc = "done" /\ cleared = 0 =>
    LET row == orders[taker.id]
        shown == OffersFor(saved.orders, row)
    IN /\ BookWasWhole /\ NothingOwn => FilledQty >= row.qty \/ FilledQty >= shown
       /\ ShownLevels >= MaxPrice => FilledQty <= shown
=============================================================================
