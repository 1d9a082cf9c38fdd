--------------------------- MODULE ExchangeProofs ---------------------------
(* Proofs about Exchange: the book of the exchange keeps the invariant of    *)
(* OrderBook, and the ledger its totals, through every request, error and    *)
(* restart.                                                                  *)
EXTENDS Exchange, OrderBookProofs, ClearingProofs

-----------------------------------------------------------------------------
(* batch_cancel takes several orders out of the book at once.                *)

(* The cancelled orders leave the book; the others rest where they did. *)
LEMMA RemoveFromBookInv ==
  ASSUME IInv, pc = "idle", NEW ids, RemoveFromBook(ids)
  PROVE  BookInv' /\ index' \subseteq index
<1>1. \A s \in Sides, p \in Prices : queues[s][p] \in Seq(BookOrder)
  BY DEF IInv, TypeOK
<1>2. \A s \in Sides, p \in Prices : queues'[s][p] = Dropped(queues[s][p], ids)
  BY DEF RemoveFromBook
<1>3. ASSUME NEW s \in Sides, NEW p \in Prices
      PROVE  /\ queues'[s][p] \in Seq(BookOrder)
             /\ \E f : Enumerates(queues'[s][p], queues[s][p], ids, Len(queues[s][p]), f)
  BY <1>1, <1>2, DroppedProperties
<1>4. queues' \in [Sides -> [Prices -> Seq(BookOrder)]]
  BY <1>3 DEF RemoveFromBook
<1>5. index' = {e \in index : e.id \notin ids} /\ index \in SUBSET Entry
  BY DEF RemoveFromBook, IInv, TypeOK
<1>6. best' \in [Sides -> 0 .. MaxPrice + 1] /\ \A s \in Sides : best'[s] = RefreshBest(queues', s)
  BY RefreshBestType DEF RemoveFromBook
<1>7. ASSUME NEW s \in Sides PROVE IsBest(s)'
  <2>1. Levels(queues', s) = Levels(queues, s)'
    BY DEF Levels
  <2> QED BY <1>6, <2>1, RefreshBestIsBest DEF IsBest
\* Every order of the new book stands for one of the old, another for each.
<1>8. ASSUME NEW s \in Sides, NEW p \in Prices, NEW j \in 1 .. Len(queues'[s][p])
      PROVE  \E i \in 1 .. Len(queues[s][p]) :
               queues'[s][p][j] = queues[s][p][i] /\ queues[s][p][i].id \notin ids
  <2>1. PICK f : Enumerates(queues'[s][p], queues[s][p], ids, Len(queues[s][p]), f)
    BY <1>3
  <2> QED BY <2>1 DEF Enumerates
<1>9. IndexAgrees'
  <2> SUFFICES ASSUME NEW s \in Sides, NEW p \in Prices
               PROVE  /\ \A j \in 1 .. Len(queues'[s][p]) :
                           [id |-> queues'[s][p][j].id, side |-> s, price |-> p] \in index'
                      /\ \A e \in index' : e.side = s /\ e.price = p => RestsAt(e.id, s, p)'
    BY DEF IndexAgrees
  <2>1. ASSUME NEW j \in 1 .. Len(queues'[s][p])
        PROVE  [id |-> queues'[s][p][j].id, side |-> s, price |-> p] \in index'
    <3>1. PICK i \in 1 .. Len(queues[s][p]) :
               queues'[s][p][j] = queues[s][p][i] /\ queues[s][p][i].id \notin ids
      BY <1>8
    <3>2. [id |-> queues[s][p][i].id, side |-> s, price |-> p] \in index
      BY DEF IInv, IndexAgrees
    <3> QED BY <1>5, <3>1, <3>2
  <2>2. ASSUME NEW e \in index', e.side = s, e.price = p PROVE RestsAt(e.id, s, p)'
    <3>1. e \in index /\ e.id \notin ids
      BY <1>5
    <3>2. PICK i \in 1 .. Len(queues[s][p]) : queues[s][p][i].id = e.id
      BY <2>2, <3>1 DEF IInv, IndexAgrees, RestsAt
    <3>3. PICK f : Enumerates(queues'[s][p], queues[s][p], ids, Len(queues[s][p]), f)
      BY <1>3
    <3>4. PICK j \in 1 .. Len(queues'[s][p]) : f[j] = i
      BY <3>1, <3>2, <3>3 DEF Enumerates
    <3>5. queues'[s][p][j].id = e.id
      BY <3>2, <3>3, <3>4 DEF Enumerates
    <3> QED BY <3>5 DEF RestsAt
  <2> QED BY <2>1, <2>2
<1>10. RestsOnce'
  <2> SUFFICES ASSUME NEW s \in Sides, NEW t \in Sides, NEW p \in Prices, NEW q \in Prices,
                      NEW i \in 1 .. Len(queues'[s][p]), NEW j \in 1 .. Len(queues'[t][q]),
                      queues'[s][p][i].id = queues'[t][q][j].id
               PROVE  s = t /\ p = q /\ i = j
    BY DEF RestsOnce
  <2>1. PICK f : Enumerates(queues'[s][p], queues[s][p], ids, Len(queues[s][p]), f)
    BY <1>3
  <2>2. PICK g : Enumerates(queues'[t][q], queues[t][q], ids, Len(queues[t][q]), g)
    BY <1>3
  <2>3. /\ f[i] \in 1 .. Len(queues[s][p]) /\ g[j] \in 1 .. Len(queues[t][q])
        /\ queues[s][p][f[i]].id = queues[t][q][g[j]].id
    BY <2>1, <2>2 DEF Enumerates
  <2>4. s = t /\ p = q
    <3>1. RestsOnce
      BY DEF IInv
    <3>2. PICK a \in 1 .. Len(queues[s][p]), b \in 1 .. Len(queues[t][q]) :
            queues[s][p][a].id = queues[t][q][b].id
      BY <2>3
    <3> QED BY <3>1, <3>2 DEF RestsOnce
  <2>5. j \in 1 .. Len(queues'[s][p]) /\ f[j] \in 1 .. Len(queues[s][p])
        /\ queues[s][p][f[i]].id = queues[s][p][f[j]].id
    BY <2>1, <2>4 DEF Enumerates
  <2>6. f[i] = f[j]
    BY <2>3, <2>5 DEF IInv, RestsOnce
  <2>7. ~(i < j) /\ ~(j < i)
    BY <2>1, <2>3, <2>5, <2>6 DEF Enumerates
  <2>8. i = j
    <3>1. Len(queues'[s][p]) \in Nat
      BY <1>3
    <3> QED BY <2>5, <2>7, <3>1
  <2> QED BY <2>4, <2>8
<1> QED BY <1>4, <1>5, <1>6, <1>7, <1>9, <1>10 DEF BookInv

(* ob.cancel_order of one id, whether it rests or not. *)
LEMMA CancelInBookInv ==
  ASSUME IInv, pc = "idle", NEW id, CancelInBook(id)
  PROVE  BookInv' /\ index' \subseteq index
<1>1. ASSUME NEW e \in index, RemoveOrder(e) PROVE BookInv' /\ index' \subseteq index
  BY <1>1, RemoveOrderBook
<1>2. CASE UNCHANGED book
  <2>1. BookInv
    BY DEF IInv, TypeOK, BestIsBest, BookInv
  <2> QED BY <1>2, <2>1, BookFrame DEF BookInv, book
<1> QED BY <1>1, <1>2 DEF CancelInBook

-----------------------------------------------------------------------------
(* The book of the exchange.                                                 *)

(* Between requests nothing is left of the last match. *)
IdleMatch ==
  pc = "idle" => taker = NoOrder /\ checked = 0 /\ total = 0 /\ fills = <<>>

BInv == IInv /\ IdleMatch

(* What transform_order makes of an accepted request is an order of the book. *)
LEMMA RequestType ==
  ASSUME NEW r \in Requests, NEW L, Acceptable(L, r)
  PROVE  /\ r.user \in Users /\ TypeOf(r) \in BookTypes /\ TypeOf(r) \in AllBookTypes
         /\ r.price \in Prices /\ BookPrice(TypeOf(r), r.price) \in Prices
         /\ r.qty \in Quantities /\ r.qty \in Nat \ {0} /\ r.tif \in {"GTC", "IOC"}
<1>1. /\ r.user \in Users /\ r.side \in Outcomes /\ r.direction \in Sides
      /\ r.price \in Int /\ r.qty \in Int /\ r.tif \in {"GTC", "IOC"}
  BY RequestsAssumption
<1>2. r.price \in 1 .. Par - 1 /\ r.qty \in 1 .. MaxQuantity
  BY DEF Acceptable, check_price_range, check_order_limit
<1>3. r.price \in Prices
  BY <1>2, ParIsAboveMaxPrice, MaxPriceAssumption DEF Prices
<1>4. TypeOf(r) \in AllBookTypes
  BY DEF TypeOf, BookType, AllBookTypes
<1>5. BookPrice(TypeOf(r), r.price) \in Prices
  BY <1>3, ParIsAboveMaxPrice, MaxPriceAssumption DEF BookPrice, PriceOf, Prices
<1>6. r.qty \in Quantities /\ r.qty \in Nat \ {0}
  BY <1>2, AllSizesAssumption, MaxQuantityAssumption
<1> QED BY <1>1, <1>3, <1>4, <1>5, <1>6, AllTypesAssumption

(* A rolled back transaction drops the book and the match. *)
LEMMA AbortIsEvict == ASSUME pc = "done", Abort PROVE Evict
BY DEF Abort, Evict

(* An error between requests drops the book. *)
LEMMA IdleEvict ==
  ASSUME IdleMatch, pc = "idle", EvictBook, UNCHANGED <<match, nextId>>
  PROVE  Evict
BY DEF IdleMatch, match, Evict, ForgetMatch

(* A cancellation is a step of the book, or none. *)
LEMMA CancelIsStep ==
  ASSUME pc = "idle", NEW id, CancelInBook(id), UNCHANGED <<match, nextId>>
  PROVE  [Next]_vars
<1>1. ASSUME NEW e \in index, RemoveOrder(e) PROVE Next
  BY <1>1 DEF Cancel, Next
<1>2. CASE UNCHANGED book
  BY <1>2 DEF book, match, vars
<1> QED BY <1>1, <1>2 DEF CancelInBook

(* Every request, error and restart of the users' exchange takes a step of
   the book or leaves it alone. *)
LEMMA UserStep == ASSUME BInv, UserNext PROVE [Next]_vars
<1>1. ASSUME NEW r \in Requests, Place(r) PROVE Next
  <2>1. BeginMatch(r.user, TypeOf(r), BookPrice(TypeOf(r), r.price), r.qty, r.tif)
    BY <1>1 DEF Place, Submit, BeginMatch
  <2>2. Acceptable(ledger, r)
    BY <1>1 DEF Place
  <2> QED BY <2>1, <2>2, RequestType DEF Next
<1>2. ASSUME NEW r \in Requests, Refuse(r) PROVE Next
  BY <1>2, IdleEvict DEF Refuse, Next, BInv
<1>3. CASE Match
  BY <1>3 DEF Match, Next, MatchStep
<1>4. CASE ClearFill
  <2>1. CASE Abort
    BY <1>4, <2>1, AbortIsEvict DEF ClearFill, Next
  <2>2. CASE UNCHANGED vars
    BY <2>2
  <2> QED BY <1>4, <2>1, <2>2 DEF ClearFill
<1>5. CASE Finalize
  <2>1. CASE Abort
    BY <1>5, <2>1, AbortIsEvict DEF Finalize, Next
  <2>2. CASE Finish
    BY <2>2 DEF Next, MatchStep
  <2> QED BY <1>5, <2>1, <2>2 DEF Finalize
<1>6. ASSUME NEW id \in DOMAIN orders, CancelOrder(id) PROVE [Next]_vars
  <2>1. pc = "idle" /\ UNCHANGED <<match, nextId>>
    BY <1>6 DEF CancelOrder
  <2>2. CASE CancelInBook(id)
    BY <2>1, <2>2, CancelIsStep
  <2>3. CASE EvictBook
    BY <2>1, <2>3, IdleEvict DEF Next, BInv
  <2> QED BY <1>6, <2>2, <2>3 DEF CancelOrder
<1>7. ASSUME NEW outcome \in Outcomes, Resolve(outcome) PROVE UNCHANGED vars
  BY <1>7 DEF Resolve
<1>8. CASE Restart
  <2>1. CASE pc = "done"
    BY <1>8, <2>1, AbortIsEvict DEF Restart, Next
  <2>2. CASE pc = "idle"
    BY <1>8, <2>2, IdleEvict DEF Restart, Next, BInv
  <2> QED BY <1>8, <2>1, <2>2 DEF Restart
<1> QED BY <1>1, <1>2, <1>3, <1>4, <1>5, <1>6, <1>7, <1>8 DEF UserNext

(* No step leaves part of a match behind. *)
LEMMA IdleMatchStep == ASSUME BInv, [Next]_vars PROVE IdleMatch'
<1> USE DEF IdleMatch
<1>1. ASSUME NEW u, NEW t, NEW p, NEW q, NEW tif, BeginMatch(u, t, p, q, tif)
      PROVE  IdleMatch'
  BY <1>1 DEF BeginMatch, TakeOrder
<1>2. CASE MatchStep
  BY <1>2 DEF MatchStep, ScanLevel, StopMatch, SkipOwn, Fill, LeaveLevel, Finish, ForgetMatch
<1>3. ASSUME NEW e \in index, Cancel(e) PROVE IdleMatch'
  BY <1>3 DEF Cancel, match, BInv
<1>4. CASE Evict
  BY <1>4 DEF Evict, ForgetMatch
<1>5. CASE UNCHANGED vars
  BY <1>5 DEF vars, BInv
<1> QED BY <1>1, <1>2, <1>3, <1>4, <1>5 DEF Next

(* The AMM's endpoints keep the invariant too: they remove several orders at
   once, or remove one and start a match. *)
LEMMA AmmStepInv == ASSUME BInv, AmmNext PROVE BInv'
<1>1. ASSUME NEW id \in DOMAIN orders, NEW r \in Requests, Replace(id, r) PROVE BInv'
  <2> DEFINE L == UnfreezeRemainder(ledger, orders[id])
  <2>1. pc = "idle"
    BY <1>1 DEF Replace
  <2>2. CASE EvictBook /\ UNCHANGED <<match, nextId>>
    <3>1. Evict
      BY <2>1, <2>2, IdleEvict DEF BInv
    <3> QED BY <3>1, EvictInv DEF BInv, Evict, ForgetMatch, IdleMatch
  <2>3. CASE CancelInBook(id) /\ UNCHANGED <<match, nextId>>
    <3>1. IInv'
      BY <2>1, <2>3, CancelInBookInv, IdleBookInv DEF BInv
    <3> QED BY <2>3, <3>1 DEF BInv, IdleMatch, match
  <2>4. CASE CancelInBook(id) /\ Acceptable(L, r) /\ Submit(L, Cancelled(orders, {id}), r)
    <3>1. TakeOrder(r.user, TypeOf(r), BookPrice(TypeOf(r), r.price), r.qty, r.tif)
      BY <2>4 DEF Submit
    <3>2. BookInv' /\ index' \subseteq index
      BY <2>1, <2>4, CancelInBookInv DEF BInv
    <3>3. /\ r.user \in Users /\ TypeOf(r) \in BookTypes
          /\ BookPrice(TypeOf(r), r.price) \in Prices
          /\ r.qty \in Quantities /\ r.tif \in {"GTC", "IOC"}
      <4> HIDE DEF L
      <4> QED BY <2>4, RequestType
    <3>4. IInv'
      BY <3>1, <3>2, <3>3, TakeOrderInv DEF BInv
    <3> QED BY <3>1, <3>4 DEF BInv, IdleMatch, TakeOrder
  <2> QED BY <1>1, <2>2, <2>3, <2>4 DEF Replace
<1>2. ASSUME NEW u \in Exempt, NEW scope, BatchCancel(u, scope) PROVE BInv'
  <2>1. PICK ids : RemoveFromBook(ids) /\ pc = "idle" /\ UNCHANGED <<match, nextId>>
    BY <1>2 DEF BatchCancel
  <2>2. IInv'
    BY <2>1, RemoveFromBookInv, IdleBookInv DEF BInv
  <2> QED BY <2>1, <2>2 DEF BInv, IdleMatch, match
<1> QED BY <1>1, <1>2 DEF AmmNext

(* The invariant of the book holds initially and in every step of the
   exchange with the AMM. *)
LEMMA BookInvariant ==
  /\ ExchangeInit => BInv
  /\ BInv /\ [UserNext \/ AmmNext]_allVars => BInv'
<1>1. ExchangeInit => BInv
  BY InitInv DEF ExchangeInit, BInv, IdleMatch, Init
<1>2. ASSUME BInv, UserNext PROVE BInv'
  <2>1. [Next]_vars
    BY <1>2, UserStep
  <2> QED BY <1>2, <2>1, NextInv, IdleMatchStep DEF BInv
<1>3. ASSUME BInv, AmmNext PROVE BInv'
  BY <1>3, AmmStepInv
<1>4. ASSUME BInv, UNCHANGED allVars PROVE BInv'
  <2>1. UNCHANGED vars
    BY <1>4 DEF allVars
  <2> QED BY <1>4, <2>1, NextInv, IdleMatchStep DEF BInv
<1> QED BY <1>1, <1>2, <1>3, <1>4

(* Whatever requests, errors and restarts do, the book of the users' exchange
   takes only steps of OrderBook: the exchange implements the book. *)
THEOREM ExchangeImplementsBook == UserSpec => BookSpec
<1>1. ExchangeInit => Init /\ BInv
  BY BookInvariant DEF ExchangeInit
<1>2. BInv /\ [UserNext]_allVars => BInv'
  BY BookInvariant
<1>3. BInv /\ [UserNext]_allVars => [Next]_vars
  <2>1. ASSUME BInv, UserNext PROVE [Next]_vars
    BY <2>1, UserStep
  <2>2. ASSUME UNCHANGED allVars PROVE UNCHANGED vars
    BY <2>2 DEF allVars
  <2> QED BY <2>1, <2>2
<1> QED BY <1>1, <1>2, <1>3, PTL DEF UserSpec, BookSpec

-----------------------------------------------------------------------------
(* The ledger of the exchange.                                               *)

Deposited == SumOver([u \in Users |-> Cash[u] + Par * Holdings[u]["YES"].vol], Users)

(* A ledger that the database accepts and whose books are balanced; at the
   default fee rate it also holds what has been deposited. *)
Kept(L) ==
  /\ L \in Ledgers(Users) /\ Books(L) /\ ChecksHold(L)
  /\ FeeBps = FreezeBps => TotalAssets(L) = Deposited

RowsOK(rows, n) ==
  /\ DOMAIN rows \subseteq 1 .. n - 1
  /\ rows \in [DOMAIN rows -> Row]
  /\ \A i \in DOMAIN rows : RowChecksHold(rows[i])

(* The invariant of the ledger and of the orders table, in a transaction and
   in what it would be rolled back to. *)
LInv ==
  /\ BInv
  /\ Kept(ledger) /\ RowsOK(orders, nextId)
  /\ status \in {"ACTIVE", "SETTLED"}
  /\ cleared \in 0 .. Len(fills) /\ (pc # "done" => cleared = 0)
  /\ saved = NoTx <=> pc = "idle"
  /\ pc # "idle" => /\ Kept(saved.ledger) /\ RowsOK(saved.orders, nextId)
                    /\ taker.id \in DOMAIN orders

(* A change that the database accepts and that shifts nothing but, at other
   fee rates, assets. *)
LEMMA ShiftKeeps ==
  ASSUME NEW L, Kept(L), NEW M \in Ledgers(Users), NEW a \in Int, Shifted(L, M, a, 0, 0, 0),
         FeeBps = FreezeBps => a = 0, ChecksHold(M)
  PROVE  Kept(M)
<1>1. L \in Ledgers(Users) /\ Books(L)
  BY DEF Kept
<1>2. Books(M)
  BY <1>1, UnshiftedBooks, FiniteUsers
<1>3. ASSUME FeeBps = FreezeBps PROVE TotalAssets(M) = Deposited
  <2>1. TotalAssets(L) = Deposited /\ TotalAssets(L) \in Int
    BY <1>1, <1>3, GapsAreInts, FiniteUsers DEF Kept
  <2>2. TotalAssets(M) = TotalAssets(L) + a
    BY DEF Shifted
  <2> QED BY <1>3, <2>1, <2>2
<1> QED BY <1>2, <1>3 DEF Kept

(* check_and_freeze *)
LEMMA FreezeKeeps ==
  ASSUME NEW L, Kept(L), NEW r \in Requests, Acceptable(L, r)
  PROVE  Kept(Freeze(L, r.user, TypeOf(r), r.price, r.qty))
<1>1. r.user \in Users /\ r.price \in Prices /\ r.qty \in Nat \ {0}
  BY RequestType
<1>2. r.price \in Nat /\ r.price \in Int /\ r.qty \in Nat /\ r.qty \in Int
  BY <1>1 DEF Prices
<1>3. CanFreeze(L, r.user, TypeOf(r), r.price, r.qty)
  BY DEF Acceptable
<1>4. L \in Ledgers(Users) /\ ChecksHold(L)
  BY DEF Kept
<1> DEFINE M == Freeze(L, r.user, TypeOf(r), r.price, r.qty)
<1>5. M \in Ledgers(Users) /\ Shifted(L, M, 0, 0, 0, 0)
  BY <1>1, <1>2, <1>4, FreezeBalanced, FiniteUsers
<1>6. ChecksHold(M)
  BY <1>1, <1>2, <1>3, <1>4, FreezeChecks
<1> HIDE DEF M
<1>7. Kept(M)
  BY <1>5, <1>6, ShiftKeeps
<1> QED BY <1>7 DEF M

(* _unfreeze_remainder *)
LEMMA UnfreezeKeeps ==
  ASSUME NEW L, Kept(L), NEW row \in Row, ChecksHold(UnfreezeRemainder(L, row))
  PROVE  Kept(UnfreezeRemainder(L, row))
<1>1. row.user \in Users /\ row.frozen \in Int /\ Remaining(row) \in Int
  BY DEF Row, Remaining
<1>2. L \in Ledgers(Users)
  BY DEF Kept
<1>3. ASSUME NEW a \in Int, NEW b \in Int, NEW c \in Int
      PROVE  LET M == Unfreeze(L, row.user, a, b, c)
             IN M \in Ledgers(Users) /\ Shifted(L, M, 0, 0, 0, 0)
  BY <1>1, <1>2, UnfreezeBalanced, FiniteUsers
<1>4. PICK a \in Int, b \in Int, c \in Int :
        UnfreezeRemainder(L, row) = Unfreeze(L, row.user, a, b, c)
  <2>1. PICK z \in Int : z = 0
    OBVIOUS
  <2>2. \/ UnfreezeRemainder(L, row) = Unfreeze(L, row.user, row.frozen, z, z)
        \/ UnfreezeRemainder(L, row) = Unfreeze(L, row.user, z, Remaining(row), z)
        \/ UnfreezeRemainder(L, row) = Unfreeze(L, row.user, z, z, Remaining(row))
    BY <2>1, Zenon DEF UnfreezeRemainder
  <2> QED BY <1>1, <2>1, <2>2, Zenon
<1> DEFINE M == Unfreeze(L, row.user, a, b, c)
<1>5. M \in Ledgers(Users) /\ Shifted(L, M, 0, 0, 0, 0) /\ ChecksHold(M)
  BY <1>3, <1>4
<1> HIDE DEF M
<1>6. Kept(M)
  BY <1>5, ShiftKeeps
<1> QED BY <1>4, <1>6 DEF M

(* The sums over rows are integers. *)
LEMMA RowSumsAreInts ==
  ASSUME NEW rows, NEW n \in Int, RowsOK(rows, n), NEW ids, ids \subseteq DOMAIN rows, NEW u
  PROVE  /\ Frozen(rows, ids, u) \in Int
         /\ \A s : /\ Pending(rows, ids, u, s, FrozenAmounts(rows)) \in Int
                   /\ Pending(rows, ids, u, s, Remainders(rows)) \in Int
<1>1. IsFiniteSet(ids)
  <2>1. IsFiniteSet(1 .. n - 1)
    BY FS_Interval
  <2> QED BY <2>1, FS_Subset DEF RowsOK
<1>2. \A i \in ids : FrozenAmounts(rows)[i] \in Int /\ Remainders(rows)[i] \in Int
  <2>1. \A i \in DOMAIN rows : rows[i] \in Row
    BY DEF RowsOK
  <2>2. \A i \in DOMAIN rows : rows[i].frozen \in Int /\ rows[i].qty - rows[i].filled \in Int
    BY <2>1 DEF Row
  <2> QED BY <2>2 DEF FrozenAmounts, Remainders, Remaining
<1>3. ASSUME NEW S, S \subseteq ids
      PROVE  SumOver(FrozenAmounts(rows), S) \in Int /\ SumOver(Remainders(rows), S) \in Int
  <2>1. IsFiniteSet(S)
    BY <1>1, <1>3, FS_Subset
  <2> QED BY <1>2, <1>3, <2>1, SumInt
<1> QED BY <1>3 DEF Frozen, Pending

(* What the loops of batch_cancel and resolve_market give back. *)
LEMMA UnfreezeAllKeeps ==
  ASSUME NEW L, Kept(L), NEW rows, NEW ids, NEW amount,
         \A u : /\ Frozen(rows, ids, u) \in Int
                /\ \A s : Pending(rows, ids, u, s, amount) \in Int,
         ChecksHold(UnfreezeAll(L, rows, ids, amount))
  PROVE  Kept(UnfreezeAll(L, rows, ids, amount))
<1> DEFINE S == Users \union {Platform}
           F(u) == Frozen(rows, ids, u)
           P(u, s) == Pending(rows, ids, u, s, amount)
           A == [u \in S |-> [avail |-> L.acc[u].avail + F(u), frozen |-> L.acc[u].frozen - F(u)]]
           Q == [u \in Users |-> [s \in Outcomes |->
                   [vol |-> L.pos[u][s].vol, cost |-> L.pos[u][s].cost,
                    pend |-> L.pos[u][s].pend - P(u, s)]]]
           M == UnfreezeAll(L, rows, ids, amount)
<1>1. L \in Ledgers(Users)
  BY DEF Kept
<1>2. /\ \A u \in S : L.acc[u] \in AccountRow
      /\ \A u \in Users, s \in Outcomes : L.pos[u][s] \in PositionRow
      /\ DOMAIN L.acc = S /\ DOMAIN L.pos = Users
  BY <1>1 DEF Ledgers
<1>3. \A u : F(u) \in Int /\ \A s : P(u, s) \in Int
  OBVIOUS
<1> HIDE DEF F, P
<1>4. ASSUME NEW u \in Users, NEW s \in Outcomes
      PROVE  [L.pos[u][s] EXCEPT !.pend = @ - P(u, s)]
               = [vol |-> L.pos[u][s].vol, cost |-> L.pos[u][s].cost, pend |-> L.pos[u][s].pend - P(u, s)]
  BY <1>2 DEF PositionRow
<1>5. M = [acc |-> A, pos |-> Q, mkt |-> L.mkt]
  <2>1. M = [L EXCEPT !.acc = A,
                      !.pos = [u \in Users |-> [s \in Outcomes |-> [L.pos[u][s] EXCEPT !.pend = @ - P(u, s)]]]]
    BY <1>2, Zenon DEF UnfreezeAll, F, P
  <2>2. [u \in Users |-> [s \in Outcomes |-> [L.pos[u][s] EXCEPT !.pend = @ - P(u, s)]]] = Q
    BY <1>4
  <2>3. M = [L EXCEPT !.acc = A, !.pos = Q]
    BY <2>1, <2>2
  <2> HIDE DEF M, A, Q
  <2> QED BY <1>1, <2>3 DEF Ledgers
<1>6. \A u \in S : A[u] \in AccountRow /\ A[u].avail + A[u].frozen = L.acc[u].avail + L.acc[u].frozen
  BY <1>2, <1>3 DEF AccountRow
<1>7. \A u \in Users, s \in Outcomes : /\ Q[u][s] \in PositionRow
                                       /\ Q[u][s].vol = L.pos[u][s].vol
                                       /\ Q[u][s].cost = L.pos[u][s].cost
  <2> TAKE u \in Users, s \in Outcomes
  <2>1. L.pos[u][s] \in PositionRow /\ P(u, s) \in Int
    BY <1>2, <1>3
  <2>2. Q[u][s] = [vol |-> L.pos[u][s].vol, cost |-> L.pos[u][s].cost,
                   pend |-> L.pos[u][s].pend - P(u, s)]
    OBVIOUS
  <2> HIDE DEF Q
  <2> QED BY <2>1, <2>2 DEF PositionRow
<1>8. A \in [S -> AccountRow] /\ Q \in [Users -> [Outcomes -> PositionRow]]
  BY <1>6, <1>7
<1> HIDE DEF A, Q, M
<1>9. M \in Ledgers(Users) /\ M.acc = A /\ M.pos = Q /\ M.mkt = L.mkt
  BY <1>1, <1>5, <1>8 DEF Ledgers
<1>10. IsFiniteSet(S)
  BY FiniteUsers, FS_AddElement
<1>11. TotalFunds(M) = TotalFunds(L)
  <2> DEFINE f == [u \in S |-> L.acc[u].avail + L.acc[u].frozen]
             g == [u \in S |-> A[u].avail + A[u].frozen]
  <2>1. \A u \in S : f[u] \in Int /\ g[u] = f[u]
    BY <1>2, <1>6 DEF AccountRow
  <2>2. TotalFunds(L) = SumOver(f, S) /\ TotalFunds(M) = SumOver(g, S)
    BY <1>2, <1>8, <1>9 DEF TotalFunds
  <2> HIDE DEF f, g
  <2> QED BY <1>10, <2>1, <2>2, SumSame
<1>12. TotalCost(M) = TotalCost(L)
  <2>1. [u \in Users |-> Q[u]["YES"].cost + Q[u]["NO"].cost]
          = [u \in Users |-> L.pos[u]["YES"].cost + L.pos[u]["NO"].cost]
    BY <1>7 DEF Outcomes
  <2> QED BY <1>2, <1>8, <1>9, <2>1 DEF TotalCost
<1>13. ASSUME NEW s \in Outcomes PROVE TotalShares(M, s) = TotalShares(L, s)
  <2>1. [u \in Users |-> Q[u][s].vol] = [u \in Users |-> L.pos[u][s].vol]
    BY <1>7
  <2> QED BY <1>2, <1>8, <1>9, <2>1 DEF TotalShares
<1>14. Books(M) /\ TotalAssets(M) = TotalAssets(L)
  BY <1>9, <1>11, <1>12, <1>13 DEF Kept, Books, Count, TotalAssets
<1>15. ChecksHold(M)
  BY DEF M
<1>16. Kept(M)
  BY <1>9, <1>14, <1>15 DEF Kept
<1> QED BY <1>16 DEF M

(* A fill is a trade between users, at a price of the book. *)
LEMMA TradeResultType ==
  ASSUME LInv, pc = "done", NEW k \in 1 .. Len(fills)
  PROVE  /\ TradeResult(fills[k]) \in TradeOf(Users, AllBookTypes) /\ taker \in Order
         /\ \A type : FeeBase(type, TradeResult(fills[k]).price, TradeResult(fills[k]).qty,
                              TradeResult(fills[k]).buyOriginalPrice) \in Int
<1>1. taker \in Order /\ fills[k] \in Trade
  BY DEF LInv, BInv, IInv, TypeOK
<1>2. /\ taker.user \in Users /\ taker.type \in AllBookTypes /\ taker.price \in Int
      /\ fills[k].makerUser \in Users /\ fills[k].makerType \in AllBookTypes
      /\ fills[k].price \in Int /\ fills[k].qty \in Nat \ {0}
  <2>1. /\ taker.user \in Users /\ taker.type \in AllBookTypes /\ taker.price \in Prices
        /\ fills[k].makerUser \in Users /\ fills[k].makerType \in AllBookTypes
        /\ fills[k].price \in Prices /\ fills[k].qty \in Nat \ {0}
    BY <1>1 DEF Order, Trade
  <2> QED BY <2>1 DEF Prices
<1>3. BookPrice(taker.type, taker.price) \in Int
  BY <1>2, ParAssumption DEF BookPrice, PriceOf
<1>4. TradeResult(fills[k]) \in TradeOf(Users, AllBookTypes)
  BY <1>2, <1>3 DEF TradeResult, TradeOf
<1> DEFINE t == TradeResult(fills[k])
<1>5. t.price \in Int /\ t.qty \in Int /\ t.buyOriginalPrice \in Int
  BY <1>4 DEF TradeOf
<1> HIDE DEF t
<1>6. \A type : FeeBase(type, t.price, t.qty, t.buyOriginalPrice) \in Int
  BY <1>5, ParAssumption DEF FeeBase
<1> QED BY <1>1, <1>4, <1>6 DEF t

(* One iteration of the clearing loop: trade, fee and netting. *)
LEMMA ClearKeeps ==
  ASSUME LInv, pc = "done", NEW k \in 1 .. Len(fills), ~FillRefused(fills[k])
  PROVE  Kept(execute_netting(AfterFee(fills[k]), TradeResult(fills[k]).buyUser))
<1> DEFINE t == TradeResult(fills[k])
           K == settle_trade(ledger, t)
           base == FeeBase(taker.type, t.price, t.qty, t.buyOriginalPrice)
           J == collect_fee(K, taker.user, taker.type, base)
           M == execute_netting(J, t.buyUser)
<1>1. t \in TradeOf(Users, AllBookTypes) /\ taker \in Order /\ base \in Int
  BY TradeResultType
<1>2. Kept(ledger) /\ ledger \in Ledgers(Users)
  BY DEF LInv, Kept
<1>3. J = AfterFee(fills[k]) /\ ChecksHold(J)
  BY DEF AfterFee, FillRefused
<1>4. taker.user \in Users /\ t.buyUser \in Users
  BY <1>1 DEF Order, TradeOf
<1> HIDE DEF t, base
<1>5. K \in Ledgers(Users) /\ Shifted(ledger, K, 0, 0, 0, 0)
  BY <1>1, <1>2, TradeBalanced, FiniteUsers
<1> HIDE DEF K
<1>6. J \in Ledgers(Users)
      /\ \E a \in Int : Shifted(K, J, a, 0, 0, 0) /\ (FeeBps = FreezeBps => a = 0)
  BY <1>1, <1>4, <1>5, FeeBalanced, FiniteUsers
<1>7. PICK a \in Int : Shifted(K, J, a, 0, 0, 0) /\ (FeeBps = FreezeBps => a = 0)
  BY <1>6
<1> HIDE DEF J
<1>8. M \in Ledgers(Users) /\ Shifted(J, M, 0, 0, 0, 0)
  BY <1>4, <1>6, NettingBalanced, FiniteUsers
<1>9. ChecksHold(M)
  BY <1>3, <1>4, <1>6, NettingChecks, FiniteUsers
<1> HIDE DEF M
<1>10. Shifted(ledger, J, 0 + a, 0 + 0, 0 + 0, 0 + 0)
  BY <1>2, <1>5, <1>7, ShiftsAddUp, FiniteUsers
<1>11. Shifted(ledger, J, a, 0, 0, 0)
  BY <1>10
<1>12. Shifted(ledger, M, a + 0, 0 + 0, 0 + 0, 0 + 0)
  BY <1>2, <1>8, <1>11, ShiftsAddUp, FiniteUsers
<1>13. Shifted(ledger, M, a, 0, 0, 0)
  BY <1>12
<1>14. Kept(M)
  BY <1>2, <1>7, <1>8, <1>9, <1>13, ShiftKeeps
<1> QED BY <1>3, <1>14 DEF M, t

-----------------------------------------------------------------------------
(* The orders table.                                                         *)

(* A row that is added or replaced. *)
LEMMA WithRowOK ==
  ASSUME NEW rows, NEW n \in Nat, RowsOK(rows, n), NEW id \in 1 .. n - 1,
         NEW row \in Row, RowChecksHold(row)
  PROVE  /\ RowsOK(WithRow(rows, id, row), n)
         /\ DOMAIN WithRow(rows, id, row) = DOMAIN rows \union {id}
         /\ WithRow(rows, id, row)[id] = row
         /\ \A i \in DOMAIN rows : i # id => WithRow(rows, id, row)[i] = rows[i]
<1> DEFINE W == WithRow(rows, id, row)
<1>1. /\ DOMAIN W = DOMAIN rows \union {id} /\ W[id] = row
      /\ \A i \in DOMAIN rows : i # id => W[i] = rows[i]
  BY DEF WithRow
<1>2. W = [i \in DOMAIN W |-> W[i]]
  BY DEF WithRow
<1> HIDE DEF W
<1>3. \A i \in DOMAIN W : W[i] \in Row /\ RowChecksHold(W[i])
  BY <1>1 DEF RowsOK
<1>4. W \in [DOMAIN W -> Row]
  BY <1>2, <1>3
<1>5. RowsOK(W, n)
  BY <1>1, <1>3, <1>4 DEF RowsOK
<1> QED BY <1>1, <1>5 DEF W

(* Rows that are cancelled. *)
LEMMA CancelledOK ==
  ASSUME NEW rows, NEW n, RowsOK(rows, n), NEW ids
  PROVE  /\ RowsOK(Cancelled(rows, ids), n) /\ DOMAIN Cancelled(rows, ids) = DOMAIN rows
         /\ \A i \in DOMAIN rows :
              /\ i \in ids => Cancelled(rows, ids)[i] = [rows[i] EXCEPT !.status = "CANCELLED"]
              /\ i \notin ids => Cancelled(rows, ids)[i] = rows[i]
<1> DEFINE W == Cancelled(rows, ids)
<1>1. /\ DOMAIN W = DOMAIN rows
      /\ \A i \in DOMAIN rows :
           /\ i \in ids => W[i] = [rows[i] EXCEPT !.status = "CANCELLED"]
           /\ i \notin ids => W[i] = rows[i]
  BY DEF Cancelled
<1>2. W = [i \in DOMAIN W |-> W[i]]
  BY DEF Cancelled
<1> HIDE DEF W
<1>3. \A i \in DOMAIN rows : rows[i] \in Row /\ RowChecksHold(rows[i])
  BY DEF RowsOK
<1>4. ASSUME NEW row \in Row, RowChecksHold(row)
      PROVE  LET c == [row EXCEPT !.status = "CANCELLED"] IN c \in Row /\ RowChecksHold(c)
  BY <1>4 DEF Row, RowChecksHold
<1>5. \A i \in DOMAIN W : W[i] \in Row /\ RowChecksHold(W[i])
  BY <1>1, <1>3, <1>4
<1>6. W \in [DOMAIN W -> Row]
  BY <1>2, <1>5
<1>7. RowsOK(W, n)
  BY <1>1, <1>5, <1>6 DEF RowsOK
<1> QED BY <1>1, <1>7 DEF W

(* The row of an accepted request. *)
LEMMA NewRowOK ==
  ASSUME NEW r \in Requests, NEW L, Acceptable(L, r)
  PROVE  LET row == [user |-> r.user, type |-> TypeOf(r), price |-> r.price, qty |-> r.qty,
                     filled |-> 0, frozen |-> FreezeAmount(TypeOf(r), r.price, r.qty),
                     status |-> "OPEN", tif |-> r.tif]
         IN row \in Row /\ RowChecksHold(row)
<1>1. /\ r.user \in Users /\ TypeOf(r) \in AllBookTypes
      /\ r.price \in Prices /\ r.qty \in Nat \ {0} /\ r.tif \in {"GTC", "IOC"}
  BY RequestType
<1>2. FreezeAmount(TypeOf(r), r.price, r.qty) \in Nat
  BY <1>1, FreezeAmountType DEF Prices
<1> QED BY <1>1, <1>2 DEF Row, RowChecksHold

(* A row before the database has checked it *)
UncheckedRow ==
  [user : Users, type : AllBookTypes, price : Prices, qty : Nat \ {0},
   filled : Int, frozen : Int, tif : {"GTC", "IOC"},
   status : {"OPEN", "PARTIALLY_FILLED", "FILLED", "CANCELLED"}]

(* What the CHECK constraints let pass is a row of the table. *)
LEMMA CheckedRow ==
  /\ Row \subseteq UncheckedRow
  /\ \A row \in UncheckedRow : RowChecksHold(row) => row \in Row
<1>1. Row \subseteq UncheckedRow
  BY DEF Row, UncheckedRow
<1>2. ASSUME NEW row \in UncheckedRow, RowChecksHold(row) PROVE row \in Row
  <2>1. row.filled \in Nat /\ row.frozen \in Nat
    BY <1>2 DEF UncheckedRow, RowChecksHold
  <2> QED BY <2>1 DEF UncheckedRow, Row
<1> QED BY <1>1, <1>2

(* What a fill does to a row. *)
LEMMA FilledRow ==
  ASSUME NEW row \in UncheckedRow, NEW qty \in Int
  PROVE  LET g == FilledBy(row, qty)
             left == row.qty - (row.filled + qty)
         IN /\ g \in UncheckedRow
            /\ g.user = row.user /\ g.type = row.type /\ g.price = row.price
            /\ g.qty = row.qty /\ g.tif = row.tif /\ g.filled = row.filled + qty
            /\ g.frozen = FreezeAmount(row.type, row.price, left)
            /\ g.status = IF left <= 0 THEN "FILLED" ELSE "PARTIALLY_FILLED"
<1> DEFINE filled == row.filled + qty
           left == row.qty - filled
           frozen == FreezeAmount(row.type, row.price, left)
           st == IF left <= 0 THEN "FILLED" ELSE "PARTIALLY_FILLED"
           g == FilledBy(row, qty)
<1>1. g = [row EXCEPT !.filled = filled, !.frozen = frozen, !.status = st]
  BY DEF FilledBy
<1>2. filled \in Int /\ left \in Int /\ row.price \in Nat
  BY DEF UncheckedRow, Prices
<1>3. st \in {"OPEN", "PARTIALLY_FILLED", "FILLED", "CANCELLED"}
  OBVIOUS
<1> HIDE DEF left, filled
<1>4. frozen \in Int
  BY <1>2, FreezeAmountType
<1> HIDE DEF frozen, st, g
<1>5. g = [user |-> row.user, type |-> row.type, price |-> row.price,
           qty |-> row.qty, filled |-> filled, frozen |-> frozen,
           tif |-> row.tif, status |-> st]
  BY <1>1 DEF UncheckedRow
<1>6. g \in UncheckedRow
  BY <1>2, <1>3, <1>4, <1>5 DEF UncheckedRow
<1>7. /\ g.user = row.user /\ g.type = row.type /\ g.price = row.price
      /\ g.qty = row.qty /\ g.tif = row.tif /\ g.filled = filled
      /\ g.frozen = frozen /\ g.status = st
  BY <1>5
<1> QED BY <1>6, <1>7 DEF g, filled, left, frozen, st

(* The taker's row after the first trade has been cleared *)
TakerRow == FilledBy([orders[taker.id] EXCEPT !.filled = 0], taker.qty - taker.rem)

(* The two rows of a cleared trade. *)
LEMMA AfterFillOK ==
  ASSUME LInv, pc = "done", NEW k \in 1 .. Len(fills), ~FillRefused(fills[k])
  PROVE  LET f == fills[k]
         IN /\ RowsOK(AfterFill(f), nextId) /\ DOMAIN AfterFill(f) = DOMAIN orders
            /\ TakerRow \in UncheckedRow
            /\ f.maker # taker.id => AfterFill(f)[taker.id] = TakerRow
            /\ f.maker \in DOMAIN orders /\ f.maker # taker.id =>
                 AfterFill(f)[f.maker] = FilledBy(orders[f.maker], f.qty)
            /\ \A i \in DOMAIN orders : i # taker.id /\ i # f.maker => AfterFill(f)[i] = orders[i]
<1> DEFINE f == fills[k]
           takerRow == [orders[taker.id] EXCEPT !.filled = 0]
           rows == WithRow(orders, taker.id, TakerRow)
           made == FilledBy(rows[f.maker], f.qty)
<1>1. taker \in Order /\ f \in Trade /\ nextId \in Nat
  BY DEF LInv, BInv, IInv, TypeOK
<1>2. /\ DOMAIN orders \subseteq 1 .. nextId - 1 /\ taker.id \in DOMAIN orders
      /\ \A i \in DOMAIN orders : orders[i] \in Row
  BY DEF LInv, RowsOK
<1>3. takerRow \in UncheckedRow
  <2>1. orders[taker.id] \in Row
    BY <1>2
  <2> QED BY <2>1 DEF Row, UncheckedRow
<1>4. taker.qty - taker.rem \in Int /\ f.qty \in Int
  BY <1>1 DEF Order, Trade
<1>5. /\ \A i \in DOMAIN AfterFill(f) : RowChecksHold(AfterFill(f)[i])
      /\ AfterFill(f) = IF f.maker \in DOMAIN rows THEN WithRow(rows, f.maker, made) ELSE rows
  BY DEF AfterFill, FillRefused, TakerRow
<1> HIDE DEF f
<1>6. TakerRow \in UncheckedRow
  BY <1>3, <1>4, FilledRow DEF TakerRow
<1> HIDE DEF takerRow
<1>7. /\ DOMAIN rows = DOMAIN orders /\ rows[taker.id] = TakerRow
      /\ \A i \in DOMAIN orders : i # taker.id => rows[i] = orders[i]
      /\ rows = [i \in DOMAIN rows |-> rows[i]]
  BY <1>2 DEF WithRow
<1> HIDE DEF rows
<1>8. \A i \in DOMAIN orders : rows[i] \in UncheckedRow
  BY <1>2, <1>6, <1>7, CheckedRow
<1>9. /\ DOMAIN AfterFill(f) = DOMAIN orders
      /\ f.maker \in DOMAIN orders => AfterFill(f)[f.maker] = made
      /\ \A i \in DOMAIN orders : i # f.maker => AfterFill(f)[i] = rows[i]
      /\ AfterFill(f) = [i \in DOMAIN AfterFill(f) |-> AfterFill(f)[i]]
  <2>1. CASE f.maker \in DOMAIN rows
    <3> HIDE DEF made
    <3>1. AfterFill(f) = WithRow(rows, f.maker, made)
      BY <1>5, <2>1
    <3> QED BY <1>7, <2>1, <3>1 DEF WithRow
  <2>2. CASE f.maker \notin DOMAIN rows
    BY <1>5, <1>7, <2>2
  <2> QED BY <2>1, <2>2
<1>10. f.maker \in DOMAIN orders => made \in UncheckedRow
  BY <1>4, <1>8, FilledRow
<1> HIDE DEF made
<1>11. \A i \in DOMAIN orders : AfterFill(f)[i] \in UncheckedRow
  BY <1>8, <1>9, <1>10
<1>12. \A i \in DOMAIN orders : AfterFill(f)[i] \in Row
  BY <1>5, <1>9, <1>11, CheckedRow
<1>13. AfterFill(f) \in [DOMAIN AfterFill(f) -> Row]
  BY <1>9, <1>12
<1>14. RowsOK(AfterFill(f), nextId)
  BY <1>2, <1>5, <1>9, <1>13 DEF RowsOK
<1>15. f.maker \in DOMAIN orders /\ f.maker # taker.id => made = FilledBy(orders[f.maker], f.qty)
  BY <1>7 DEF made
<1>16. f.maker # taker.id => AfterFill(f)[taker.id] = TakerRow
  BY <1>2, <1>7, <1>9
<1>17. \A i \in DOMAIN orders : i # taker.id /\ i # f.maker => AfterFill(f)[i] = orders[i]
  BY <1>7, <1>9
<1> QED BY <1>6, <1>9, <1>14, <1>15, <1>16, <1>17 DEF f

-----------------------------------------------------------------------------
(* The ledger of a market that opens: what the users have deposited and paid
   for. *)
LEMMA InitKept == ExchangeInit => Kept(ledger)
<1> SUFFICES ASSUME ExchangeInit PROVE Kept(ledger)
  OBVIOUS
<1> DEFINE S == Users \union {Platform}
           Y == [u \in Users |-> Holdings[u]["YES"].vol]
           N == [u \in Users |-> Holdings[u]["NO"].vol]
           C == [u \in Users |-> Holdings[u]["YES"].cost + Holdings[u]["NO"].cost]
           D == [u \in Users |-> Cash[u] + Par * Holdings[u]["YES"].vol]
           pairs == SumOver(Y, Users)
           A == [u \in S |-> [avail |-> IF u = Platform THEN 0 ELSE Cash[u], frozen |-> 0]]
           P == [u \in Users |-> [s \in Outcomes |->
                   [vol |-> Holdings[u][s].vol, cost |-> Holdings[u][s].cost, pend |-> 0]]]
           m == [reserve |-> Par * pairs, pnl |-> 0, yes |-> pairs, no |-> pairs]
<1>1. ledger = [acc |-> A, pos |-> P, mkt |-> m]
  BY DEF ExchangeInit
<1>2. \A u \in Users, s \in Outcomes : Holdings[u][s].vol \in Nat /\ Holdings[u][s].cost \in Nat
  BY HoldingsAssumption
<1>3. \A u \in Users : Y[u] \in Int /\ C[u] \in Int /\ Cash[u] \in Nat /\ D[u] = Cash[u] + Par * Y[u]
  BY <1>2, CashAssumption DEF Outcomes
<1>4. SumOver(N, Users) = pairs /\ SumOver(C, Users) = Par * pairs
  BY PairsAssumption
<1>5. A \in [S -> AccountRow] /\ \A u \in S : A[u].avail >= 0 /\ A[u].frozen >= 0
  BY <1>3 DEF AccountRow
<1>6. ASSUME NEW u \in Users, NEW s \in Outcomes
      PROVE  /\ P[u][s] \in PositionRow /\ P[u][s].vol = Holdings[u][s].vol
             /\ P[u][s].cost = Holdings[u][s].cost
             /\ P[u][s].vol >= 0 /\ P[u][s].cost >= 0 /\ P[u][s].pend \in 0 .. P[u][s].vol
  <2>1. P[u][s] = [vol |-> Holdings[u][s].vol, cost |-> Holdings[u][s].cost, pend |-> 0]
    OBVIOUS
  <2> HIDE DEF P
  <2> QED BY <1>2, <2>1 DEF PositionRow
<1>7. P \in [Users -> [Outcomes -> PositionRow]]
  BY <1>6
<1> HIDE DEF P
<1>8. pairs \in Int /\ Par * pairs \in Int
  <2> HIDE DEF Y
  <2>1. pairs \in Int
    BY <1>3, SumInt, FiniteUsers
  <2> HIDE DEF pairs
  <2> QED BY <2>1, ParAssumption
<1>9. /\ m \in MarketRow /\ m.reserve = Par * pairs /\ m.pnl = 0 /\ m.yes = pairs /\ m.no = pairs
  <2> HIDE DEF pairs
  <2> QED BY <1>8 DEF MarketRow
<1> HIDE DEF m
<1>10. TotalCost(ledger) = Par * pairs
  <2>1. TotalCost(ledger) = SumOver([u \in Users |-> P[u]["YES"].cost + P[u]["NO"].cost], Users)
    BY <1>1, <1>7 DEF TotalCost
  <2>2. [u \in Users |-> P[u]["YES"].cost + P[u]["NO"].cost] = C
    BY <1>6 DEF Outcomes
  <2> HIDE DEF C, pairs
  <2> QED BY <1>4, <2>1, <2>2
<1>11. TotalShares(ledger, "YES") = pairs /\ TotalShares(ledger, "NO") = pairs
  <2>1. ASSUME NEW s
        PROVE  TotalShares(ledger, s) = SumOver([u \in Users |-> P[u][s].vol], Users)
    BY <1>1, <1>7 DEF TotalShares
  <2>2. [u \in Users |-> P[u]["YES"].vol] = Y /\ [u \in Users |-> P[u]["NO"].vol] = N
    BY <1>6 DEF Outcomes
  <2> HIDE DEF Y, N
  <2> QED BY <1>4, <2>1, <2>2
<1>12. TotalFunds(ledger) + Par * pairs = Deposited
  <2> DEFINE f == [u \in S |-> A[u].avail + A[u].frozen]
  <2>1. TotalFunds(ledger) = SumOver(f, S)
    BY <1>1 DEF TotalFunds
  <2>2. /\ IsFiniteSet(S) /\ Platform \in S /\ S \ {Platform} = Users
    BY FiniteUsers, FS_AddElement, PlatformAssumption
  <2>3. f[Platform] = 0 /\ \A u \in Users : f[u] = Cash[u]
    BY <1>3, PlatformAssumption
  <2> HIDE DEF f, A, S
  <2>4. \A u \in S : f[u] \in Int
    BY <1>3, <2>2, <2>3
  <2>5. SumOver(f, S) = f[Platform] + SumOver(f, Users)
    BY <2>2, <2>4, SumStep
  <2>6. \A u \in Users : f[u] \in Int
    BY <1>3, <2>3
  <2>7. SumOver(f, Users) \in Int
    BY <2>6, SumInt, FiniteUsers
  <2>8. \A u \in Users : Y[u] \in Int /\ D[u] = f[u] + Par * Y[u]
    BY <1>3, <2>3
  <2> HIDE DEF Y, D
  <2>9. SumOver(D, Users) = SumOver(f, Users) + Par * SumOver(Y, Users)
    BY <2>6, <2>8, SumPlus, FiniteUsers, ParAssumption
  <2> QED BY <2>1, <2>3, <2>5, <2>7, <2>9 DEF Deposited, D, Y
<1> HIDE DEF pairs, A
<1>13. ledger \in Ledgers(Users)
  BY <1>1, <1>5, <1>7, <1>9 DEF Ledgers, S
<1>14. Books(ledger)
  BY <1>1, <1>8, <1>9, <1>10, <1>11 DEF Books, Count, Outcomes
<1>15. ChecksHold(ledger)
  <2>1. DOMAIN A = S /\ DOMAIN P = Users /\ ledger.acc = A /\ ledger.pos = P
    BY <1>1, <1>5, <1>7
  <2> QED BY <1>5, <1>6, <2>1 DEF ChecksHold
<1>16. TotalAssets(ledger) = Deposited
  BY <1>1, <1>9, <1>12 DEF TotalAssets
<1> QED BY <1>13, <1>14, <1>15, <1>16 DEF Kept

(* Rows stay rows as ids are given out. *)
LEMMA RowsLater ==
  ASSUME NEW rows, NEW n \in Nat, RowsOK(rows, n)
  PROVE  RowsOK(rows, n + 1)
<1>1. 1 .. n - 1 \subseteq 1 .. (n + 1) - 1
  OBVIOUS
<1> QED BY <1>1 DEF RowsOK

(* An order is accepted: a transaction is open. *)
LEMMA SubmitLedger ==
  ASSUME LInv, BInv', NEW L, Kept(L), NEW rows, RowsOK(rows, nextId), NEW r \in Requests,
         Acceptable(L, r), Submit(L, rows, r)
  PROVE  LInv'
<1> DEFINE row == [user |-> r.user, type |-> TypeOf(r), price |-> r.price, qty |-> r.qty,
                   filled |-> 0, frozen |-> FreezeAmount(TypeOf(r), r.price, r.qty),
                   status |-> "OPEN", tif |-> r.tif]
<1>1. nextId \in Nat \ {0}
  BY DEF LInv, BInv, IInv, TypeOK
<1>2. /\ taker'.id = nextId /\ nextId' = nextId + 1 /\ pc' = "outer" /\ fills' = <<>>
      /\ ledger' = Freeze(L, r.user, TypeOf(r), r.price, r.qty)
      /\ orders' = WithRow(rows, nextId, row)
      /\ saved' = [ledger |-> ledger, orders |-> orders] /\ cleared' = 0 /\ status' = status
  BY DEF Submit, TakeOrder
<1>3. row \in Row /\ RowChecksHold(row)
  BY NewRowOK
<1> HIDE DEF row
<1>4. RowsOK(rows, nextId + 1) /\ RowsOK(orders, nextId + 1)
  BY <1>1, RowsLater DEF LInv
<1>5. RowsOK(orders', nextId') /\ taker'.id \in DOMAIN orders'
  <2>1. PICK n \in Nat : n = nextId + 1 /\ nextId \in 1 .. n - 1
    BY <1>1
  <2>2. RowsOK(WithRow(rows, nextId, row), n) /\ nextId \in DOMAIN WithRow(rows, nextId, row)
    <3>1. RowsOK(rows, n)
      BY <1>4, <2>1
    <3>2. /\ RowsOK(WithRow(rows, nextId, row), n)
          /\ DOMAIN WithRow(rows, nextId, row) = DOMAIN rows \union {nextId}
      BY <1>3, <2>1, <3>1, WithRowOK
    <3> QED BY <3>2
  <2> QED BY <1>2, <2>1, <2>2
<1>6. Kept(ledger)'
  <2>1. Kept(ledger')
    BY <1>2, FreezeKeeps
  <2> QED BY <2>1 DEF Kept, Deposited
<1>7. saved' # NoTx
  <2>1. "ledger" \in DOMAIN saved' /\ "ledger" \notin DOMAIN NoTx
    BY <1>2 DEF NoTx
  <2> QED BY <2>1
<1>8. saved'.ledger = ledger /\ saved'.orders = orders
  BY <1>2
<1>9. Kept(saved.ledger)' /\ RowsOK(saved.orders, nextId)'
  BY <1>2, <1>4, <1>8 DEF LInv, Kept, Deposited, RowsOK
<1>10. cleared' \in 0 .. Len(fills')
  BY <1>2
<1> QED BY <1>2, <1>5, <1>6, <1>7, <1>9, <1>10 DEF LInv, RowsOK

(* A transaction is rolled back. *)
LEMMA AbortLedger ==
  ASSUME LInv, BInv', pc # "idle", Abort
  PROVE  LInv'
<1>1. /\ ledger' = saved.ledger /\ orders' = saved.orders /\ saved' = NoTx /\ cleared' = 0
      /\ pc' = "idle" /\ fills' = <<>> /\ nextId' = nextId /\ status' = status
  BY DEF Abort, ForgetMatch
<1>2. Kept(saved.ledger) /\ RowsOK(saved.orders, nextId)
  BY DEF LInv
<1>3. Kept(ledger)' /\ RowsOK(orders, nextId)'
  BY <1>1, <1>2 DEF Kept, Deposited, RowsOK
<1>4. cleared' \in 0 .. Len(fills')
  BY <1>1
<1> QED BY <1>1, <1>3, <1>4 DEF LInv

(* A request that is answered in one step. *)
LEMMA IdleLedger ==
  ASSUME LInv, BInv', pc = "idle", UNCHANGED <<match, nextId, saved, cleared>>,
         Kept(ledger'), RowsOK(orders', nextId), status' \in {"ACTIVE", "SETTLED"}
  PROVE  LInv'
<1>1. pc' = pc /\ fills' = fills /\ nextId' = nextId
  BY DEF match
<1>2. Kept(ledger)' /\ RowsOK(orders, nextId)'
  BY <1>1 DEF Kept, Deposited, RowsOK
<1> QED BY <1>1, <1>2 DEF LInv

(* match_order touches neither. *)
LEMMA MatchLedger == ASSUME LInv, BInv', Match PROVE LInv'
<1>1. pc # "idle" /\ pc # "done" /\ pc' # "idle" /\ taker'.id = taker.id /\ nextId' = nextId
  <2>1. CASE Fill
    <3>1. taker \in Order
      BY <2>1 DEF LInv, BInv, IInv, TypeOK, Fill
    <3>2. taker'.id = taker.id
      BY <2>1, <3>1 DEF Fill, Record, Order
    <3> QED BY <2>1, <3>2 DEF Fill
  <2> QED BY <2>1 DEF Match, ScanLevel, StopMatch, SkipOwn, LeaveLevel
<1>2. UNCHANGED exchangeVars
  BY DEF Match
<1>3. cleared' = 0 /\ Len(fills') \in Nat
  BY <1>1, <1>2 DEF LInv, exchangeVars, BInv, IInv, TypeOK
<1>4. cleared' \in 0 .. Len(fills')
  BY <1>3
<1>5. Kept(ledger)' /\ RowsOK(orders, nextId)' /\ Kept(saved.ledger)' /\ RowsOK(saved.orders, nextId)'
  BY <1>1, <1>2 DEF LInv, exchangeVars, Kept, Deposited, RowsOK
<1> QED BY <1>1, <1>2, <1>3, <1>4, <1>5 DEF LInv, exchangeVars

(* One iteration of the clearing loop. *)
LEMMA ClearLedger == ASSUME LInv, BInv', ClearFill PROVE LInv'
<1>1. CASE Abort
  BY <1>1, AbortLedger DEF ClearFill
<1>2. CASE ~Abort
  <2> DEFINE k == cleared + 1
             f == fills[k]
  <2>1. /\ pc = "done" /\ cleared < Len(fills) /\ ~FillRefused(f)
        /\ ledger' = execute_netting(AfterFee(f), TradeResult(f).buyUser)
        /\ orders' = AfterFill(f) /\ cleared' = k /\ UNCHANGED <<vars, status, saved>>
    BY <1>2 DEF ClearFill
  <2>2. cleared \in 0 .. Len(fills) /\ Len(fills) \in Nat
    BY DEF LInv, BInv, IInv, TypeOK
  <2>3. k \in 1 .. Len(fills) /\ k \in 0 .. Len(fills)
    BY <2>1, <2>2
  <2> HIDE DEF k
  <2>4. Kept(ledger')
    BY <2>1, <2>3, ClearKeeps
  <2>5. RowsOK(orders', nextId) /\ DOMAIN orders' = DOMAIN orders
    BY <2>1, <2>3, AfterFillOK
  <2>6. pc' = pc /\ fills' = fills /\ nextId' = nextId /\ taker' = taker
    BY <2>1 DEF vars
  <2>7. Kept(ledger)' /\ RowsOK(orders, nextId)' /\ Kept(saved.ledger)' /\ RowsOK(saved.orders, nextId)'
    BY <2>1, <2>4, <2>5, <2>6 DEF LInv, Kept, Deposited, RowsOK
  <2> QED BY <2>1, <2>3, <2>5, <2>6, <2>7 DEF LInv
<1> QED BY <1>1, <1>2

(* The end of a transaction. *)
LEMMA FinalizeLedger == ASSUME LInv, BInv', Finalize PROVE LInv'
<1>1. CASE Abort
  BY <1>1, AbortLedger DEF Finalize
<1>2. CASE ~Abort
  <2>1. /\ pc = "done" /\ ~FinalRefused /\ ledger' = FinalLedger /\ orders' = FinalOrders
        /\ Finish /\ saved' = NoTx /\ cleared' = 0 /\ status' = status
    BY <1>2 DEF Finalize
  <2>2. pc' = "idle" /\ fills' = <<>> /\ nextId' = nextId
    BY <2>1 DEF Finish, ForgetMatch
  <2>3. Kept(ledger) /\ RowsOK(orders, nextId) /\ taker.id \in DOMAIN orders
    BY <2>1 DEF LInv
  <2>4. orders[taker.id] \in Row
    BY <2>3 DEF RowsOK
  <2>5. ChecksHold(FinalLedger)
    BY <2>1 DEF FinalRefused
  <2>6. Kept(ledger')
    <3>1. CASE Expires
      <4>1. FinalLedger = UnfreezeRemainder(ledger, orders[taker.id])
        BY <3>1 DEF FinalLedger
      <4> QED BY <2>1, <2>3, <2>4, <2>5, <4>1, UnfreezeKeeps
    <3>2. CASE ~Expires
      BY <2>1, <2>3, <3>2 DEF FinalLedger
    <3> QED BY <3>1, <3>2
  <2>7. RowsOK(orders', nextId)
    BY <2>1, <2>3, CancelledOK DEF FinalOrders
  <2>8. Kept(ledger)' /\ RowsOK(orders, nextId)'
    BY <2>2, <2>6, <2>7 DEF Kept, Deposited, RowsOK
  <2>9. cleared' \in 0 .. Len(fills')
    BY <2>1, <2>2
  <2> QED BY <2>1, <2>2, <2>8, <2>9 DEF LInv
<1> QED BY <1>1, <1>2

(* cancel_order gives back what is left of the order. *)
LEMMA CancelLedger ==
  ASSUME LInv, BInv', NEW id \in DOMAIN orders, CancelOrder(id) PROVE LInv'
<1>1. /\ pc = "idle" /\ UNCHANGED <<match, nextId, saved, cleared>> /\ status' = status
      /\ status \in {"ACTIVE", "SETTLED"} /\ Kept(ledger) /\ RowsOK(orders, nextId)
  BY DEF CancelOrder, LInv
<1> DEFINE L == UnfreezeRemainder(ledger, orders[id])
<1>2. CASE ChecksHold(L) /\ ledger' = L /\ orders' = Cancelled(orders, {id})
  <2>1. orders[id] \in Row
    BY <1>1 DEF RowsOK
  <2>2. Kept(L)
    BY <1>1, <1>2, <2>1, UnfreezeKeeps
  <2>3. RowsOK(orders', nextId)
    BY <1>1, <1>2, CancelledOK
  <2> QED BY <1>1, <1>2, <2>2, <2>3, IdleLedger
<1>3. CASE UNCHANGED <<ledger, orders>>
  BY <1>1, <1>3, IdleLedger
<1> QED BY <1>2, <1>3 DEF CancelOrder

(* replace_order does, and opens the transaction of the new order. *)
LEMMA ReplaceLedger ==
  ASSUME LInv, BInv', NEW id \in DOMAIN orders, NEW r \in Requests, Replace(id, r) PROVE LInv'
<1>1. /\ pc = "idle" /\ status \in {"ACTIVE", "SETTLED"} /\ Kept(ledger) /\ RowsOK(orders, nextId)
  BY DEF Replace, LInv
<1> DEFINE L == UnfreezeRemainder(ledger, orders[id])
<1>2. CASE UNCHANGED <<match, nextId, exchangeVars>>
  BY <1>1, <1>2, IdleLedger DEF exchangeVars
<1>3. CASE ChecksHold(L) /\ Acceptable(L, r) /\ Submit(L, Cancelled(orders, {id}), r)
  <2>1. orders[id] \in Row
    BY <1>1 DEF RowsOK
  <2>2. Kept(L)
    BY <1>1, <1>3, <2>1, UnfreezeKeeps
  <2>3. RowsOK(Cancelled(orders, {id}), nextId)
    BY <1>1, CancelledOK
  <2> HIDE DEF L
  <2> QED BY <1>3, <2>2, <2>3, SubmitLedger
<1> QED BY <1>2, <1>3 DEF Replace

(* batch_cancel gives back what is left of all orders of one user. *)
LEMMA BatchLedger ==
  ASSUME LInv, BInv', NEW u, NEW scope, BatchCancel(u, scope) PROVE LInv'
<1> DEFINE ids == {i \in DOMAIN orders : /\ orders[i].user = u /\ Active(orders[i])
                                         /\ InScope(orders[i], scope)}
           L == UnfreezeAll(ledger, orders, ids, FrozenAmounts(orders))
<1>1. /\ pc = "idle" /\ UNCHANGED <<match, nextId, saved, cleared>> /\ status' = status
      /\ status \in {"ACTIVE", "SETTLED"} /\ Kept(ledger) /\ RowsOK(orders, nextId)
      /\ nextId \in Int
  BY DEF BatchCancel, LInv, BInv, IInv, TypeOK
<1>2. \/ ChecksHold(L) /\ ledger' = L /\ orders' = Cancelled(orders, ids)
      \/ UNCHANGED <<ledger, orders>>
  BY DEF BatchCancel
<1>3. ids \subseteq DOMAIN orders
  OBVIOUS
<1> HIDE DEF ids
<1>4. CASE ChecksHold(L) /\ ledger' = L /\ orders' = Cancelled(orders, ids)
  <2>1. \A v : /\ Frozen(orders, ids, v) \in Int
               /\ \A s : Pending(orders, ids, v, s, FrozenAmounts(orders)) \in Int
    BY <1>1, <1>3, RowSumsAreInts
  <2>2. Kept(L)
    BY <1>1, <1>4, <2>1, UnfreezeAllKeeps
  <2>3. RowsOK(orders', nextId)
    BY <1>1, <1>4, CancelledOK
  <2> QED BY <1>1, <1>4, <2>2, <2>3, IdleLedger
<1>5. CASE UNCHANGED <<ledger, orders>>
  BY <1>1, <1>5, IdleLedger
<1> QED BY <1>2, <1>4, <1>5

(* resolve_market does so for every user and pays the winners. *)
LEMMA ResolveLedger ==
  ASSUME LInv, BInv', NEW outcome \in Outcomes, Resolve(outcome) PROVE LInv'
<1> DEFINE ids == {i \in DOMAIN orders : Active(orders[i])}
           L == UnfreezeAll(ledger, orders, ids, Remainders(orders))
           M == settle_market(L, outcome)
<1>1. /\ pc = "idle" /\ UNCHANGED <<match, nextId, saved, cleared>> /\ status' = "SETTLED"
      /\ Kept(ledger) /\ RowsOK(orders, nextId) /\ nextId \in Int
  BY DEF Resolve, LInv, BInv, IInv, TypeOK, vars, match
<1>2. ChecksHold(L) /\ ledger' = M /\ orders' = Cancelled(orders, ids)
  BY DEF Resolve
<1>3. ids \subseteq DOMAIN orders
  OBVIOUS
<1> HIDE DEF ids
<1>4. \A v : /\ Frozen(orders, ids, v) \in Int
             /\ \A s : Pending(orders, ids, v, s, Remainders(orders)) \in Int
  BY <1>1, <1>3, RowSumsAreInts
<1>5. Kept(L)
  BY <1>1, <1>2, <1>4, UnfreezeAllKeeps
<1> HIDE DEF L
<1>6. M \in Ledgers(Users) /\ Books(M) /\ ChecksHold(M) /\ TotalAssets(M) = TotalAssets(L)
  BY <1>5, SettlementBalanced, FiniteUsers, PlatformAssumption DEF Kept
<1> HIDE DEF M
<1>7. Kept(M)
  BY <1>5, <1>6 DEF Kept
<1>8. RowsOK(orders', nextId)
  BY <1>1, <1>2, CancelledOK
<1> QED BY <1>1, <1>2, <1>7, <1>8, IdleLedger

(* The invariant of the ledger is inductive. *)
LEMMA LedgerInvariant ==
  /\ ExchangeInit => LInv
  /\ LInv /\ [UserNext \/ AmmNext]_allVars => LInv'
<1>1. ASSUME ExchangeInit PROVE LInv
  <2>1. BInv /\ Kept(ledger)
    BY <1>1, BookInvariant, InitKept
  <2>2. RowsOK(orders, nextId)
    <3>1. orders = <<>> /\ DOMAIN orders = {} /\ orders \in [{} -> Row]
      BY <1>1 DEF ExchangeInit
    <3> QED BY <3>1 DEF RowsOK
  <2>3. pc = "idle" /\ fills = <<>> /\ status = "ACTIVE" /\ saved = NoTx /\ cleared = 0
    BY <1>1 DEF ExchangeInit, Init
  <2> QED BY <2>1, <2>2, <2>3 DEF LInv
<1>2. ASSUME LInv, [UserNext \/ AmmNext]_allVars PROVE LInv'
  <2>1. BInv'
    BY <1>2, BookInvariant DEF LInv
  <2>2. ASSUME NEW r \in Requests, Place(r) PROVE LInv'
    BY <1>2, <2>1, <2>2, SubmitLedger DEF Place, LInv
  <2>3. ASSUME NEW r \in Requests, Refuse(r) PROVE LInv'
    BY <1>2, <2>1, <2>3, IdleLedger DEF Refuse, LInv, exchangeVars
  <2>4. ASSUME Restart PROVE LInv'
    <3>1. CASE pc = "done"
      BY <1>2, <2>1, <2>4, <3>1, AbortLedger DEF Restart
    <3>2. CASE pc = "idle"
      BY <1>2, <2>1, <2>4, <3>2, IdleLedger DEF Restart, LInv, exchangeVars
    <3> QED BY <2>4, <3>1, <3>2 DEF Restart
  <2>5. CASE UserNext
    BY <1>2, <2>1, <2>2, <2>3, <2>4, <2>5, MatchLedger, ClearLedger, FinalizeLedger,
       CancelLedger, ResolveLedger DEF UserNext
  <2>6. CASE AmmNext
    BY <1>2, <2>1, <2>6, ReplaceLedger, BatchLedger DEF AmmNext
  <2>7. CASE UNCHANGED allVars
    <3>1. UNCHANGED <<ledger, orders, status, saved, cleared, taker, pc, fills, nextId>>
      BY <2>7 DEF allVars, vars, exchangeVars
    <3> QED BY <1>2, <2>1, <3>1 DEF LInv, Kept, Deposited, RowsOK
  <2> QED BY <1>2, <2>5, <2>6, <2>7
<1> QED BY <1>1, <1>2

-----------------------------------------------------------------------------
(* The exchange with the AMM, at every taker fee rate, keeps the invariant;
   the users' exchange is part of it. *)
THEOREM LedgerInductive == AmmSpec => []LInv
BY LedgerInvariant, PTL DEF AmmSpec

(* A request, an error or a restart never leaves a row that the database's
   CHECK constraints would refuse, in no step of a transaction. *)
THEOREM ExchangeTypesCorrect == AmmSpec => []ExchangeTypeOK
<1>1. LInv => ExchangeTypeOK
  BY DEF LInv, BInv, IInv, Kept, RowsOK, ExchangeTypeOK
<1> QED BY <1>1, LedgerInductive, PTL

(* The positions add up to the market's totals, and the reserve covers every
   pair of shares. *)
THEOREM SharesCorrect == AmmSpec => []SharesMatch
<1>1. ASSUME LInv PROVE SharesMatch
  <2>1. ledger \in Ledgers(Users) /\ Books(ledger) /\ ChecksHold(ledger)
    BY <1>1 DEF LInv, Kept
  <2>2. /\ ledger.mkt.yes \in Int /\ DOMAIN ledger.pos = Users
        /\ \A u \in Users : ledger.pos[u]["YES"].vol \in Nat
    <3>1. ledger.mkt.yes \in Int /\ DOMAIN ledger.pos = Users
      BY <2>1 DEF Ledgers, MarketRow
    <3>2. \A u \in Users : ledger.pos[u]["YES"] \in PositionRow /\ ledger.pos[u]["YES"].vol >= 0
      BY <2>1, <3>1 DEF Ledgers, ChecksHold, Outcomes
    <3> QED BY <3>1, <3>2 DEF PositionRow
  <2>3. TotalShares(ledger, "YES") >= 0
    <3> DEFINE f == [u \in Users |-> ledger.pos[u]["YES"].vol]
    <3>1. \A u \in Users : f[u] \in Nat
      BY <2>2
    <3>2. TotalShares(ledger, "YES") = SumOver(f, Users)
      BY <2>2 DEF TotalShares
    <3> HIDE DEF f
    <3> QED BY <3>1, <3>2, SumNotNegative, FiniteUsers
  <2>4. ledger.mkt.yes >= 0
    BY <2>1, <2>3 DEF Books, Count, Outcomes
  <2>5. Par * ledger.mkt.yes >= 0
    BY <2>2, <2>4, ParAssumption
  <2> QED BY <2>1, <2>4, <2>5 DEF Books, Count, SharesMatch, MarketChecksHold
<1> QED BY <1>1, LedgerInductive, PTL

(* INV-3 in the form that the code keeps: costs and booked profits make up the
   reserve. *)
THEOREM CostsCorrect == AmmSpec => []CostIdentity
<1>1. LInv => CostIdentity
  BY DEF LInv, Kept, Books, CostIdentity
<1> QED BY <1>1, LedgerInductive, PTL

(* INV-G: at the default fee rate money only moves, whatever is requested,
   refused, rolled back or resolved. *)
THEOREM CashCorrect == ASSUME FeeBps = FreezeBps PROVE AmmSpec => []CashConserved
<1>1. LInv => CashConserved
  BY DEF LInv, Kept, Deposited, CashConserved
<1> QED BY <1>1, LedgerInductive, PTL
=============================================================================
