--------------------------- MODULE OrderBookProofs ---------------------------
(***************************************************************************)
(* Theorems about OrderBook, for every price range, set of users and set   *)
(* of order sizes.                                                         *)
(***************************************************************************)
EXTENDS OrderBook, CollectionProofs

USE MaxPriceAssumption, UsersAssumption, BookTypesAssumption,
    QuantitiesAssumption, MaxOrdersAssumption

QueuesType == [Sides -> [Prices -> Seq(BookOrder)]]

(* A non-empty set of prices has a best one for either side. *)
LEMMA HasBest ==
  ASSUME NEW L, L \subseteq Prices, L # {}, NEW s \in Sides
  PROVE  \E p \in L : \A q \in L : q = p \/ Better(s, p, q)
<1>1. CASE s = "SELL"
  <2>1. L \subseteq Nat
    BY DEF Prices
  <2>2. PICK p \in L : \A q \in L : p <= q
    BY <2>1, LeastNat
  <2>3. \A q \in L : q = p \/ p < q
    BY <2>1, <2>2
  <2> QED BY <1>1, <2>3 DEF Better
<1>2. CASE s = "BUY"
  <2> DEFINE T == {MaxPrice - q : q \in L}
  <2>1. T \subseteq Nat /\ T # {}
    <3>1. PICK q \in L : TRUE
      OBVIOUS
    <3>2. MaxPrice - q \in T
      BY <3>1
    <3>3. T \subseteq Nat
      BY DEF Prices
    <3> QED BY <3>2, <3>3
  <2> HIDE DEF T
  <2>2. PICK x \in T : \A y \in T : x <= y
    BY <2>1, LeastNat
  <2>3. PICK p \in L : x = MaxPrice - p
    BY <2>2 DEF T
  <2>4. \A q \in L : q = p \/ p > q
    <3> TAKE q \in L
    <3>1. MaxPrice - q \in T
      BY DEF T
    <3>2. MaxPrice - p <= MaxPrice - q
      BY <2>2, <2>3, <3>1
    <3> QED BY <3>2 DEF Prices
  <2> QED BY <1>2, <2>4 DEF Better
<1> QED BY <1>1, <1>2 DEF Sides

(* What _refresh_best_bid and _refresh_best_ask compute. *)
LEMMA RefreshBestIsBest ==
  ASSUME NEW qs, NEW s \in Sides
  PROVE  IF Levels(qs, s) = {}
         THEN RefreshBest(qs, s) = NoBest(s)
         ELSE /\ RefreshBest(qs, s) \in Levels(qs, s)
              /\ \A q \in Levels(qs, s) :
                   q = RefreshBest(qs, s) \/ Better(s, RefreshBest(qs, s), q)
<1>1. CASE Levels(qs, s) = {}
  BY <1>1 DEF RefreshBest
<1>2. CASE Levels(qs, s) # {}
  <2>1. Levels(qs, s) \subseteq Prices
    BY DEF Levels
  <2>2. \E p \in Levels(qs, s) :
          \A q \in Levels(qs, s) : q = p \/ Better(s, p, q)
    BY <1>2, <2>1, HasBest
  <2>3. RefreshBest(qs, s) = CHOOSE p \in Levels(qs, s) :
                               \A q \in Levels(qs, s) : q = p \/ Better(s, p, q)
    BY <1>2 DEF RefreshBest
  <2> HIDE DEF RefreshBest
  <2> QED BY <1>2, <2>2, <2>3
<1> QED BY <1>1, <1>2

(* _refresh_best_bid and _refresh_best_ask yield a price or none. *)
LEMMA RefreshBestType ==
  ASSUME NEW qs, NEW s \in Sides
  PROVE  RefreshBest(qs, s) \in 0 .. MaxPrice + 1
BY RefreshBestIsBest DEF Levels, Prices, NoBest

(* del queue[i] and rotate(-1) yield deques of book orders. *)
LEMMA WithoutProperties ==
  ASSUME NEW q \in Seq(BookOrder), NEW i \in 1 .. Len(q)
  PROVE  /\ Without(q, i) \in Seq(BookOrder)
         /\ Len(Without(q, i)) = Len(q) - 1
         /\ \A j \in 1 .. Len(q) - 1 :
              Without(q, i)[j] = IF j < i THEN q[j] ELSE q[j + 1]
BY DEF Without

(* rotate(-1) keeps the length, the orders and each order's presence. *)
LEMMA RotateProperties ==
  ASSUME NEW q \in Seq(BookOrder), q # <<>>
  PROVE  /\ Rotate(q) \in Seq(BookOrder)
         /\ Len(Rotate(q)) = Len(q)
         /\ \A j \in 1 .. Len(q) :
              Rotate(q)[j] = IF j < Len(q) THEN q[j + 1] ELSE q[1]
BY DEF Rotate

-----------------------------------------------------------------------------
(* What holds of the level that the inner loop scans: it is the best one and
   within the limit, and the orders already rotated, at its end, are the
   taker's own. *)
ScanInv ==
  pc = "inner" =>
    /\ MakerPrice \in Prices
    /\ Crosses
    /\ \A q \in Levels(queues, MakerSide) :
         q = MakerPrice \/ Better(MakerSide, MakerPrice, q)
    /\ total = Len(MakerQueue)
    /\ checked <= total
    /\ \A i \in 1 .. Len(MakerQueue) :
         i > total - checked => IsSelfTrade(taker.user, MakerQueue[i].user)

(* Ids come from a counter, and the incoming order does not rest yet. *)
FreshIds ==
  /\ \A e \in index : e.id < nextId
  /\ pc # "idle" => taker.id < nextId /\ \A e \in index : e.id # taker.id

(* The trades made so far are at prices no worse than the level to come, and
   while the taker has quantity left its makers have left the book. *)
FillInv ==
  /\ pc = "idle" => fills = <<>>
  /\ pc # "idle" => \A i \in 1 .. Len(fills) :
       /\ ~Better(SideOf(taker.type), fills[i].price, MakerPrice)
       /\ taker.rem > 0 => \A e \in index : e.id # fills[i].maker

IInv ==
  /\ TypeOK
  /\ BestIsBest /\ IndexAgrees /\ RestsOnce
  /\ FillsInPriceOrder /\ StopsOnlyAtOwn
  /\ ScanInv /\ FreshIds /\ FillInv

-----------------------------------------------------------------------------
(* Steps that leave the book alone. *)
LEMMA BookFrame ==
  ASSUME UNCHANGED book
  PROVE  /\ \A s \in Sides : IsBest(s)' = IsBest(s)
         /\ IndexAgrees' = IndexAgrees
         /\ RestsOnce' = RestsOnce
BY DEF book, IsBest, Levels, IndexAgrees, RestsAt, RestsOnce

(* A taker matches against one of the two sides. *)
LEMMA MakerSideType ==
  ASSUME taker \in Order
  PROVE  MakerSide \in Sides /\ SideOf(taker.type) \in Sides
BY DEF MakerSide, Opposite, SideOf, Sides

(* A best price within the limit is a level that holds orders. *)
LEMMA CrossingLevel ==
  ASSUME TypeOK, taker \in Order, IsBest(MakerSide), Crosses
  PROVE  MakerPrice \in Levels(queues, MakerSide) /\ MakerPrice \in Prices
BY MakerSideType DEF TypeOK, IsBest, Crosses, MakerPrice, MakerSide, Opposite,
   SideOf, Better, NoBest, Order, Prices, Levels

(* The empty book of a new engine satisfies the invariant. *)
LEMMA InitInv == Init => IInv
<1> SUFFICES ASSUME Init PROVE IInv
  OBVIOUS
<1>1. TypeOK
  BY DEF Init, TypeOK, EmptyQueues, NoBest, Prices, Entry
<1>2. \A s \in Sides, p \in Prices : queues[s][p] = <<>>
  BY DEF Init, EmptyQueues
<1>3. BestIsBest
  BY <1>2 DEF Init, BestIsBest, IsBest, Levels
<1>4. IndexAgrees /\ RestsOnce
  BY <1>2 DEF Init, IndexAgrees, RestsOnce
<1>5. FillsInPriceOrder /\ StopsOnlyAtOwn /\ ScanInv /\ FreshIds /\ FillInv
  BY DEF Init, FillsInPriceOrder, StopsOnlyAtOwn, ScanInv, FreshIds, FillInv
<1> QED BY <1>1, <1>3, <1>4, <1>5 DEF IInv

(* What IInv says of the book alone between operations. *)
BookInv ==
  /\ queues \in [Sides -> [Prices -> Seq(BookOrder)]]
  /\ best \in [Sides -> 0 .. MaxPrice + 1]
  /\ index \in SUBSET Entry
  /\ \A s \in Sides : IsBest(s)
  /\ IndexAgrees /\ RestsOnce

(* match_order may start on any such book with no orders but those known. *)
LEMMA TakeOrderInv ==
  ASSUME IInv, NEW u \in Users, NEW t \in BookTypes, NEW p \in Prices,
         NEW q \in Quantities, NEW tif \in {"GTC", "IOC"},
         TakeOrder(u, t, p, q, tif), BookInv', index' \subseteq index
  PROVE  IInv'
<1>1. taker' \in Order
  BY BookTypesAssumption, QuantitiesAssumption DEF IInv, TakeOrder, Order, TypeOK
<1>2. TypeOK'
  BY <1>1 DEF IInv, TakeOrder, TypeOK, BookInv
<1>3. BestIsBest' /\ IndexAgrees' /\ RestsOnce'
  BY DEF BookInv, BestIsBest
<1>4. FillsInPriceOrder' /\ StopsOnlyAtOwn' /\ ScanInv' /\ FillInv'
  BY DEF TakeOrder, FillsInPriceOrder, StopsOnlyAtOwn, ScanInv, FillInv
<1>5. FreshIds'
  BY DEF IInv, TakeOrder, FreshIds, TypeOK, Entry
<1> QED BY <1>2, <1>3, <1>4, <1>5 DEF IInv

(* Between operations, orders may leave the book. *)
LEMMA IdleBookInv ==
  ASSUME IInv, pc = "idle", UNCHANGED <<match, nextId>>, BookInv', index' \subseteq index
  PROVE  IInv'
<1>1. TypeOK'
  BY DEF IInv, TypeOK, BookInv, match
<1>2. BestIsBest' /\ IndexAgrees' /\ RestsOnce'
  BY DEF BookInv, BestIsBest
<1>3. FillsInPriceOrder' /\ StopsOnlyAtOwn' /\ ScanInv' /\ FillInv'
  BY DEF IInv, match, FillsInPriceOrder, StopsOnlyAtOwn, ScanInv, FillInv
<1>4. FreshIds'
  BY DEF IInv, match, FreshIds
<1> QED BY <1>1, <1>2, <1>3, <1>4 DEF IInv

(* match_order starts with no fills and the taker's whole quantity. *)
LEMMA BeginMatchInv ==
  ASSUME IInv, NEW u \in Users, NEW t \in BookTypes, NEW p \in Prices,
         NEW q \in Quantities, NEW tif \in {"GTC", "IOC"},
         BeginMatch(u, t, p, q, tif)
  PROVE  IInv'
<1> USE DEF IInv
<1>1. taker' \in Order
  BY DEF BeginMatch, TakeOrder, Order, TypeOK
<1>2. TypeOK'
  BY <1>1 DEF BeginMatch, TakeOrder, TypeOK, book
<1>3. BestIsBest' /\ IndexAgrees' /\ RestsOnce'
  BY BookFrame DEF BeginMatch, TakeOrder, BestIsBest
<1>4. FillsInPriceOrder' /\ StopsOnlyAtOwn' /\ ScanInv' /\ FillInv'
  BY DEF BeginMatch, TakeOrder, FillsInPriceOrder, StopsOnlyAtOwn, ScanInv, FillInv
<1>5. FreshIds'
  BY DEF BeginMatch, TakeOrder, FreshIds, book, TypeOK, Entry
<1> QED BY <1>2, <1>3, <1>4, <1>5

(* The outer loop enters the best level of the maker side. *)
LEMMA ScanLevelInv == ASSUME IInv, ScanLevel PROVE IInv'
<1> USE DEF IInv
<1>1. taker \in Order /\ IsBest(MakerSide)
  BY MakerSideType DEF ScanLevel, TypeOK, BestIsBest
<1>2. MakerPrice \in Levels(queues, MakerSide) /\ MakerPrice \in Prices
  BY <1>1, CrossingLevel DEF ScanLevel, OuterGuard
<1>3. /\ MakerSide' = MakerSide /\ MakerPrice' = MakerPrice
      /\ MakerQueue' = MakerQueue /\ Crosses' = Crosses
      /\ Levels(queues, MakerSide)' = Levels(queues, MakerSide)
  BY DEF ScanLevel, MakerSide, MakerPrice, MakerQueue, Crosses, Levels, book
<1>4. MakerQueue \in Seq(BookOrder)
  BY <1>1, <1>2, MakerSideType DEF TypeOK, MakerQueue
<1>5. TypeOK'
  BY <1>4 DEF ScanLevel, TypeOK, book
<1>6. BestIsBest' /\ IndexAgrees' /\ RestsOnce'
  BY BookFrame DEF ScanLevel, BestIsBest
<1>7. ScanInv'
  <2>1. \A q \in Levels(queues, MakerSide) :
          q = MakerPrice \/ Better(MakerSide, MakerPrice, q)
    BY <1>1, <1>2 DEF IsBest, MakerPrice
  <2>2. Crosses
    BY DEF ScanLevel, OuterGuard
  <2>3. total' = Len(MakerQueue) /\ checked' = 0 /\ Len(MakerQueue) \in Nat
    BY <1>4 DEF ScanLevel
  <2> QED BY <1>2, <1>3, <2>1, <2>2, <2>3 DEF ScanInv
<1>8. FillsInPriceOrder' /\ StopsOnlyAtOwn'
  BY DEF ScanLevel, FillsInPriceOrder, StopsOnlyAtOwn
<1>9. FreshIds' /\ FillInv'
  BY <1>3 DEF ScanLevel, FreshIds, FillInv, book
<1> QED BY <1>5, <1>6, <1>7, <1>8, <1>9

(* The outer loop ends: nothing crosses, or the taker is filled. *)
LEMMA StopMatchInv == ASSUME IInv, StopMatch PROVE IInv'
<1> USE DEF IInv
<1>1. /\ MakerSide' = MakerSide /\ MakerPrice' = MakerPrice
      /\ MakerQueue' = MakerQueue /\ Crosses' = Crosses
  BY DEF StopMatch, MakerSide, MakerPrice, MakerQueue, Crosses, book
<1>2. TypeOK'
  BY DEF StopMatch, TypeOK, book
<1>3. BestIsBest' /\ IndexAgrees' /\ RestsOnce'
  BY BookFrame DEF StopMatch, BestIsBest
<1>4. StopsOnlyAtOwn'
  BY <1>1 DEF StopMatch, StopsOnlyAtOwn, OuterGuard
<1>5. FillsInPriceOrder' /\ ScanInv'
  BY DEF StopMatch, FillsInPriceOrder, ScanInv
<1>6. FreshIds' /\ FillInv'
  BY <1>1 DEF StopMatch, FreshIds, FillInv, book
<1> QED BY <1>2, <1>3, <1>4, <1>5, <1>6

(* new is made of orders at different positions of old; every order of new
   has its id in old. *)
TakenFrom(new, old, f) ==
  /\ f \in [1 .. Len(new) -> 1 .. Len(old)]
  /\ \A i, j \in 1 .. Len(new) : f[i] = f[j] => i = j
  /\ \A j \in 1 .. Len(new) : new[j].id = old[f[j]].id

(* The ids of old are those of new. *)
SameIdsIn(new, old) ==
  /\ \A j \in 1 .. Len(new) : \E i \in 1 .. Len(old) : old[i].id = new[j].id
  /\ \A i \in 1 .. Len(old) : \E j \in 1 .. Len(new) : old[i].id = new[j].id

(* A step that replaces one level by new. *)
LevelBecomes(s, p, new) == queues' = [queues EXCEPT ![s][p] = new]

(* A step that rewrites one level leaves every other level alone. *)
LEMMA LevelUpdate ==
  ASSUME TypeOK, NEW s \in Sides, NEW p \in Prices, NEW new \in Seq(BookOrder),
         LevelBecomes(s, p, new)
  PROVE  /\ queues' \in QueuesType
         /\ queues'[s][p] = new
         /\ \A t \in Sides, q \in Prices :
              ~(t = s /\ q = p) => queues'[t][q] = queues[t][q]
BY DEF TypeOK, QueuesType, LevelBecomes

(* A level whose orders are taken from different positions of the old level
   keeps every order resting once. *)
LEMMA Reindex ==
  ASSUME TypeOK, RestsOnce, NEW s \in Sides, NEW p \in Prices,
         NEW new \in Seq(BookOrder),
         NEW f, TakenFrom(new, queues[s][p], f), LevelBecomes(s, p, new)
  PROVE  RestsOnce'
<1>1. queues'[s][p] = new
  BY LevelUpdate
<1>2. \A t \in Sides, q \in Prices : ~(t = s /\ q = p) => queues'[t][q] = queues[t][q]
  BY LevelUpdate
<1> SUFFICES ASSUME NEW t1 \in Sides, NEW t2 \in Sides,
                    NEW q1 \in Prices, NEW q2 \in Prices,
                    NEW i \in 1 .. Len(queues'[t1][q1]),
                    NEW j \in 1 .. Len(queues'[t2][q2]),
                    queues'[t1][q1][i].id = queues'[t2][q2][j].id
             PROVE  t1 = t2 /\ q1 = q2 /\ i = j
  BY DEF RestsOnce
<1>3. CASE t1 = s /\ q1 = p /\ t2 = s /\ q2 = p
  <2>1. i \in 1 .. Len(new) /\ j \in 1 .. Len(new) /\ new[i].id = new[j].id
    BY <1>1, <1>3
  <2>2. /\ queues[s][p][f[i]].id = queues[s][p][f[j]].id
        /\ f[i] \in 1 .. Len(queues[s][p]) /\ f[j] \in 1 .. Len(queues[s][p])
    BY <2>1 DEF TakenFrom
  <2>3. f[i] = f[j]
    BY <2>2 DEF RestsOnce
  <2> QED BY <1>3, <2>1, <2>3 DEF TakenFrom
<1>4. CASE t1 = s /\ q1 = p /\ ~(t2 = s /\ q2 = p)
  <2>1. i \in 1 .. Len(new) /\ new[i].id = queues[t2][q2][j].id
        /\ j \in 1 .. Len(queues[t2][q2])
    BY <1>1, <1>2, <1>4
  <2>2. queues[s][p][f[i]].id = queues[t2][q2][j].id /\ f[i] \in 1 .. Len(queues[s][p])
    BY <2>1 DEF TakenFrom
  <2> QED BY <1>4, <2>1, <2>2 DEF RestsOnce
<1>5. CASE ~(t1 = s /\ q1 = p) /\ t2 = s /\ q2 = p
  <2>1. j \in 1 .. Len(new) /\ new[j].id = queues[t1][q1][i].id
        /\ i \in 1 .. Len(queues[t1][q1])
    BY <1>1, <1>2, <1>5
  <2>2. queues[s][p][f[j]].id = queues[t1][q1][i].id /\ f[j] \in 1 .. Len(queues[s][p])
    BY <2>1 DEF TakenFrom
  <2> QED BY <1>5, <2>1, <2>2 DEF RestsOnce
<1>6. CASE ~(t1 = s /\ q1 = p) /\ ~(t2 = s /\ q2 = p)
  <2>1. /\ i \in 1 .. Len(queues[t1][q1]) /\ j \in 1 .. Len(queues[t2][q2])
        /\ queues[t1][q1][i].id = queues[t2][q2][j].id
    BY <1>2, <1>6
  <2> QED BY <2>1 DEF RestsOnce
<1> QED BY <1>3, <1>4, <1>5, <1>6

(* A level that keeps all its ids keeps the index in agreement. *)
LEMMA SameIds ==
  ASSUME TypeOK, IndexAgrees, NEW s \in Sides, NEW p \in Prices,
         NEW new \in Seq(BookOrder),
         SameIdsIn(new, queues[s][p]), LevelBecomes(s, p, new), index' = index
  PROVE  IndexAgrees'
<1>1. queues'[s][p] = new
  BY LevelUpdate
<1>2. \A t \in Sides, q \in Prices : ~(t = s /\ q = p) => queues'[t][q] = queues[t][q]
  BY LevelUpdate
<1> SUFFICES ASSUME NEW t \in Sides, NEW q \in Prices
             PROVE  /\ \A i \in 1 .. Len(queues'[t][q]) :
                         [id |-> queues'[t][q][i].id, side |-> t, price |-> q] \in index
                    /\ \A e \in index : e.side = t /\ e.price = q => RestsAt(e.id, t, q)'
  BY DEF IndexAgrees
<1>3. CASE t = s /\ q = p
  <2>1. \A i \in 1 .. Len(new) : [id |-> new[i].id, side |-> s, price |-> p] \in index
    BY DEF IndexAgrees, SameIdsIn
  <2>2. \A e \in index : e.side = s /\ e.price = p =>
          \E i \in 1 .. Len(new) : new[i].id = e.id
    BY DEF IndexAgrees, RestsAt, SameIdsIn
  <2>3. \A e \in index : e.side = s /\ e.price = p => RestsAt(e.id, s, p)'
    BY <1>1, <2>2 DEF RestsAt
  <2> QED BY <1>1, <1>3, <2>1, <2>3
<1>4. CASE ~(t = s /\ q = p)
  BY <1>2, <1>4 DEF IndexAgrees, RestsAt
<1> QED BY <1>3, <1>4

(* The facts about the scanned level that every step of the inner loop uses. *)
LEMMA InnerFacts ==
  ASSUME IInv, pc = "inner"
  PROVE  /\ taker \in Order /\ MakerSide \in Sides /\ MakerPrice \in Prices
         /\ MakerQueue = queues[MakerSide][MakerPrice]
         /\ MakerQueue \in Seq(BookOrder)
         /\ total = Len(MakerQueue) /\ checked \in Nat /\ checked <= total
         /\ queues \in QueuesType
<1>1. taker \in Order
  BY DEF IInv, TypeOK
<1>2. MakerSide \in Sides /\ MakerPrice \in Prices
  BY <1>1, MakerSideType DEF IInv, ScanInv
<1> QED BY <1>1, <1>2 DEF IInv, ScanInv, TypeOK, MakerQueue, QueuesType

(* Rotating past an own order moves ids within a level only. *)
LEMMA SkipOwnInv == ASSUME IInv, SkipOwn PROVE IInv'
<1> DEFINE s == MakerSide
           p == MakerPrice
           q == MakerQueue
           new == Rotate(MakerQueue)
<1>1. /\ taker \in Order /\ s \in Sides /\ p \in Prices
      /\ q = queues[s][p] /\ q \in Seq(BookOrder)
      /\ total = Len(q) /\ checked \in Nat /\ checked <= total
      /\ queues \in QueuesType
  BY InnerFacts DEF SkipOwn
<1>2. q # <<>> /\ checked < total /\ Head(q) = q[1]
  BY <1>1 DEF SkipOwn, InnerGuard
<1>3. /\ new \in Seq(BookOrder) /\ Len(new) = Len(q)
      /\ \A j \in 1 .. Len(q) : new[j] = IF j < Len(q) THEN q[j + 1] ELSE q[1]
  BY <1>1, <1>2, RotateProperties
<1>4. LevelBecomes(s, p, new)
  BY <1>1 DEF SkipOwn, LevelBecomes
<1>5. /\ MakerSide' = s /\ MakerPrice' = p
      /\ taker' = taker /\ pc' = pc /\ best' = best /\ index' = index
      /\ fills' = fills /\ nextId' = nextId /\ total' = total
      /\ checked' = checked + 1 /\ pc = "inner"
  BY DEF SkipOwn, MakerSide, MakerPrice
<1> HIDE DEF s, p, q, new
<1>6. queues' \in QueuesType /\ queues'[s][p] = new
      /\ \A t \in Sides, r \in Prices : ~(t = s /\ r = p) => queues'[t][r] = queues[t][r]
  BY <1>1, <1>3, <1>4, LevelUpdate DEF IInv
<1>7. \A t \in Sides : Levels(queues, t)' = Levels(queues, t)
  BY <1>1, <1>2, <1>3, <1>6 DEF Levels
<1>8. TypeOK'
  BY <1>1, <1>5, <1>6 DEF IInv, TypeOK, QueuesType
<1>9. BestIsBest'
  BY <1>5, <1>7 DEF IInv, BestIsBest, IsBest, s
<1>10. IndexAgrees'
  <2>1. \A j \in 1 .. Len(new) : \E i \in 1 .. Len(q) : q[i].id = new[j].id
    <3> TAKE j \in 1 .. Len(new)
    <3>1. CASE j < Len(q)
      <4>1. j + 1 \in 1 .. Len(q) /\ new[j] = q[j + 1]
        BY <1>1, <1>3, <3>1
      <4> QED BY <4>1
    <3>2. CASE j = Len(q)
      <4>1. 1 \in 1 .. Len(q) /\ new[j] = q[1]
        BY <1>1, <1>2, <1>3, <3>2
      <4> QED BY <4>1
    <3>3. j < Len(q) \/ j = Len(q)
      BY <1>1, <1>3
    <3> QED BY <3>1, <3>2, <3>3
  <2>2. \A i \in 1 .. Len(q) : \E j \in 1 .. Len(new) : q[i].id = new[j].id
    <3> TAKE i \in 1 .. Len(q)
    <3>1. CASE i = 1
      BY <1>1, <1>2, <1>3, <3>1
    <3>2. CASE i # 1
      <4>1. i - 1 \in 1 .. Len(q) /\ new[i - 1] = q[i]
        BY <1>1, <1>3, <3>2
      <4> QED BY <1>3, <4>1
    <3> QED BY <3>1, <3>2
  <2> QED BY <1>1, <1>3, <1>4, <1>5, <2>1, <2>2, SameIds DEF IInv, SameIdsIn
<1>11. RestsOnce'
  <2> DEFINE f == [j \in 1 .. Len(new) |-> IF j < Len(q) THEN j + 1 ELSE 1]
  <2>1. f \in [1 .. Len(new) -> 1 .. Len(queues[s][p])]
    BY <1>1, <1>2, <1>3
  <2>2. \A i, j \in 1 .. Len(new) : f[i] = f[j] => i = j
    BY <1>1, <1>2, <1>3
  <2>3. \A j \in 1 .. Len(new) : new[j].id = queues[s][p][f[j]].id
    BY <1>1, <1>2, <1>3
  <2> HIDE DEF f
  <2>4. TakenFrom(new, queues[s][p], f)
    BY <2>1, <2>2, <2>3 DEF TakenFrom
  <2> QED BY <1>1, <1>3, <1>4, <2>4, Reindex DEF IInv
<1>12. ScanInv'
  <2>1. MakerQueue' = new
    BY <1>1, <1>5, <1>6 DEF MakerQueue
  <2>2. Crosses' = Crosses
    BY <1>5 DEF Crosses, p
  <2>3. \A i \in 1 .. Len(new) :
          i > total - (checked + 1) => IsSelfTrade(taker.user, new[i].user)
    <3> TAKE i \in 1 .. Len(new)
    <3> HAVE i > total - (checked + 1)
    <3>1. CASE i = Len(q)
      <4>1. new[i] = q[1]
        BY <1>1, <1>3, <3>1
      <4>2. IsSelfTrade(taker.user, q[1].user)
        BY <1>2 DEF SkipOwn, q
      <4> QED BY <4>1, <4>2
    <3>2. CASE i # Len(q)
      <4>1. i + 1 \in 1 .. Len(q) /\ i + 1 > total - checked /\ new[i] = q[i + 1]
        BY <1>1, <1>3, <3>2
      <4> QED BY <1>5, <4>1 DEF IInv, ScanInv, q
    <3> QED BY <3>1, <3>2
  <2>4. \A r \in Levels(queues, s) : r = p \/ Better(s, p, r)
    BY <1>5 DEF IInv, ScanInv, s, p
  <2>5. Crosses
    BY <1>5 DEF IInv, ScanInv
  <2> QED BY <1>1, <1>2, <1>3, <1>5, <1>7, <2>1, <2>2, <2>3, <2>4, <2>5 DEF ScanInv
<1>13. FillsInPriceOrder' /\ StopsOnlyAtOwn' /\ FreshIds' /\ FillInv'
  BY <1>5 DEF IInv, FillsInPriceOrder, StopsOnlyAtOwn, FreshIds, FillInv, p
<1> QED BY <1>8, <1>9, <1>10, <1>11, <1>12, <1>13 DEF IInv

(* A used-up maker: its level loses its first order and the index its id. *)
LEMMA PopKeepsAgreement ==
  ASSUME TypeOK, IndexAgrees, RestsOnce, NEW s \in Sides, NEW p \in Prices,
         NEW i \in 1 .. Len(queues[s][p]),
         NEW new \in Seq(BookOrder), new = Without(queues[s][p], i),
         LevelBecomes(s, p, new),
         index' = {e \in index : e.id # queues[s][p][i].id}
  PROVE  IndexAgrees' /\ RestsOnce'
<1> DEFINE q == queues[s][p]
<1>1. q \in Seq(BookOrder) /\ i \in 1 .. Len(q)
  BY DEF TypeOK
<1>2. /\ Len(new) = Len(q) - 1
      /\ \A j \in 1 .. Len(q) - 1 : new[j] = IF j < i THEN q[j] ELSE q[j + 1]
  BY <1>1, WithoutProperties
<1>3. /\ queues'[s][p] = new
      /\ \A t \in Sides, r \in Prices :
           ~(t = s /\ r = p) => queues'[t][r] = queues[t][r]
  BY LevelUpdate
<1> DEFINE f == [j \in 1 .. Len(new) |-> IF j < i THEN j ELSE j + 1]
<1> HIDE DEF q
<1>4. /\ f \in [1 .. Len(new) -> 1 .. Len(q)]
      /\ \A j, k \in 1 .. Len(new) : f[j] = f[k] => j = k
      /\ \A j \in 1 .. Len(new) : new[j] = q[f[j]] /\ f[j] # i
  <2>1. Len(q) \in Nat /\ i \in 1 .. Len(q) /\ Len(new) = Len(q) - 1
    BY <1>1, <1>2
  <2>2. f \in [1 .. Len(new) -> 1 .. Len(q)]
    BY <2>1
  <2>3. \A j, k \in 1 .. Len(new) : f[j] = f[k] => j = k
    BY <2>1
  <2>4. \A j \in 1 .. Len(new) : new[j] = q[f[j]] /\ f[j] # i
    BY <1>2, <2>1
  <2> QED BY <2>2, <2>3, <2>4
<1>5. \A k \in 1 .. Len(q) : k # i => \E j \in 1 .. Len(new) : f[j] = k
  <2> TAKE k \in 1 .. Len(q)
  <2> HAVE k # i
  <2>1. CASE k < i
    <3>1. k \in 1 .. Len(new) /\ f[k] = k
      BY <1>1, <1>2, <2>1
    <3> QED BY <3>1
  <2>2. CASE k > i
    <3>1. k - 1 \in 1 .. Len(new) /\ f[k - 1] = k
      BY <1>1, <1>2, <2>2
    <3> QED BY <3>1
  <2>3. k < i \/ k > i
    BY <1>1
  <2> QED BY <2>1, <2>2, <2>3
<1> HIDE DEF f
<1> USE DEF q
<1>6. RestsOnce'
  <2>1. TakenFrom(new, q, f)
    BY <1>4 DEF TakenFrom
  <2> QED BY <2>1, Reindex
<1>7. IndexAgrees'
  <2> SUFFICES ASSUME NEW t \in Sides, NEW r \in Prices
               PROVE  /\ \A j \in 1 .. Len(queues'[t][r]) :
                           [id |-> queues'[t][r][j].id, side |-> t, price |-> r] \in index'
                      /\ \A e \in index' : e.side = t /\ e.price = r => RestsAt(e.id, t, r)'
    BY DEF IndexAgrees
  <2>1. CASE t = s /\ r = p
    <3>1. \A j \in 1 .. Len(new) : [id |-> new[j].id, side |-> s, price |-> p] \in index'
      <4> TAKE j \in 1 .. Len(new)
      <4>1. f[j] \in 1 .. Len(q) /\ new[j] = q[f[j]] /\ f[j] # i
        BY <1>4
      <4>2. [id |-> q[f[j]].id, side |-> s, price |-> p] \in index
        BY <4>1 DEF IndexAgrees
      <4>3. q[f[j]].id # q[i].id
        BY <1>1, <4>1 DEF RestsOnce
      <4> QED BY <4>1, <4>2, <4>3
    <3>2. ASSUME NEW e \in index', e.side = s, e.price = p
          PROVE  RestsAt(e.id, s, p)'
      <4>1. e \in index /\ e.id # q[i].id
        OBVIOUS
      <4>2. PICK k \in 1 .. Len(q) : q[k].id = e.id
        BY <3>2, <4>1 DEF IndexAgrees, RestsAt
      <4>3. PICK j \in 1 .. Len(new) : f[j] = k
        BY <1>5, <4>1, <4>2
      <4>4. new[j].id = e.id
        BY <1>4, <4>2, <4>3
      <4> QED BY <1>3, <4>4 DEF RestsAt
    <3> QED BY <1>3, <2>1, <3>1, <3>2
  <2>2. CASE ~(t = s /\ r = p)
    <3>1. queues'[t][r] = queues[t][r]
      BY <1>3, <2>2
    <3>2. \A j \in 1 .. Len(queues[t][r]) : queues[t][r][j].id # q[i].id
      BY <1>1, <2>2 DEF RestsOnce
    <3>3. \A j \in 1 .. Len(queues[t][r]) :
            [id |-> queues[t][r][j].id, side |-> t, price |-> r] \in index'
      BY <3>2 DEF IndexAgrees
    <3>4. \A e \in index' : e.side = t /\ e.price = r => RestsAt(e.id, t, r)'
      BY <3>1 DEF IndexAgrees, RestsAt
    <3> QED BY <3>1, <3>3, <3>4
  <2> QED BY <2>1, <2>2
<1> QED BY <1>6, <1>7

(* A fill reduces the maker in place, or pops it when used up. *)
LEMMA FillStepInv == ASSUME IInv, Fill PROVE IInv'
<1> DEFINE s == MakerSide
           p == MakerPrice
           q == MakerQueue
           m == Head(MakerQueue)
           n == IF taker.rem < m.qty THEN taker.rem ELSE m.qty
<1>1. /\ taker \in Order /\ s \in Sides /\ p \in Prices
      /\ q = queues[s][p] /\ q \in Seq(BookOrder)
      /\ total = Len(q) /\ checked \in Nat /\ checked <= total
      /\ queues \in QueuesType
  BY InnerFacts DEF Fill
<1>2. q # <<>> /\ checked < total /\ m = q[1] /\ m \in BookOrder /\ taker.rem > 0
      /\ 1 \in 1 .. Len(q)
  BY <1>1 DEF Fill, InnerGuard
<1>3. m.qty \in Nat \ {0} /\ m.id \in Nat /\ m.user \in Users /\ m.type \in AllBookTypes
  BY <1>2 DEF BookOrder
<1>a. taker.rem \in Nat
  BY <1>1 DEF Order
<1>b. n \in Nat \ {0} /\ n <= taker.rem /\ n <= m.qty /\ (n = taker.rem \/ n = m.qty)
  BY <1>2, <1>3, <1>a
<1>4. /\ taker' = [taker EXCEPT !.rem = @ - n]
      /\ fills' = Append(fills, [maker |-> m.id, makerUser |-> m.user,
                                 makerType |-> m.type, taker |-> taker.id,
                                 price |-> p, qty |-> n])
      /\ pc = "inner" /\ pc' = pc /\ best' = best /\ checked' = checked
      /\ nextId' = nextId
  BY DEF Fill, Record
<1>c. (n = m.qty /\ PopMaker(m)) \/ (n # m.qty /\ ReduceMaker(m, n))
  BY Zenon DEF Fill
<1> HIDE DEF n
<1>5. /\ taker' \in Order /\ taker'.rem = taker.rem - n
      /\ taker'.type = taker.type /\ taker'.id = taker.id
      /\ taker'.price = taker.price /\ taker'.user = taker.user
  <2>1. taker.rem - n \in Nat
    BY <1>a, <1>b
  <2> QED BY <1>1, <1>4, <2>1 DEF Order
<1>6. MakerSide' = s /\ MakerPrice' = p
  BY <1>4, <1>5 DEF MakerSide, MakerPrice
<1> DEFINE new == MakerQueue'
<1>7. /\ new \in Seq(BookOrder) /\ LevelBecomes(s, p, new)
      /\ IndexAgrees' /\ RestsOnce' /\ index' \subseteq index
      /\ n < taker.rem => \A e \in index' : e.id # m.id
      /\ total' = Len(new) /\ checked <= total'
      /\ \A i \in 1 .. Len(new) : i > total' - checked =>
           \E j \in 1 .. Len(q) : j > total - checked /\ new[i].user = q[j].user
  <2>1. CASE n = m.qty /\ PopMaker(m)
    <3>1. Tail(q) \in Seq(BookOrder) /\ Tail(q) = Without(q, 1) /\ Len(Tail(q)) = Len(q) - 1
      BY <1>1, <1>2 DEF Without
    <3>2. LevelBecomes(s, p, Tail(q))
      BY <1>1, <2>1 DEF PopMaker, LevelBecomes
    <3>3. total' = total - 1 /\ index' = {e \in index : e.id # m.id}
      BY <2>1 DEF PopMaker
    <3>4. new = Tail(q)
      BY <1>1, <1>6, <3>1, <3>2, LevelUpdate DEF MakerQueue, IInv
    <3> HIDE DEF s, p, q, m, new
    <3>5. IndexAgrees' /\ RestsOnce'
      BY <1>1, <1>2, <3>1, <3>2, <3>3, PopKeepsAgreement DEF IInv
    <3>6. total' = Len(new) /\ checked <= total'
      BY <1>1, <1>2, <3>1, <3>3, <3>4
    <3>7. ASSUME NEW i \in 1 .. Len(new), i > total' - checked
          PROVE  \E j \in 1 .. Len(q) : j > total - checked /\ new[i].user = q[j].user
      <4>1. i + 1 \in 1 .. Len(q) /\ i + 1 > total - checked /\ new[i] = q[i + 1]
        BY <1>1, <3>1, <3>3, <3>4, <3>7
      <4> QED BY <4>1
    <3> QED BY <3>1, <3>2, <3>3, <3>4, <3>5, <3>6, <3>7
  <2>2. CASE n # m.qty /\ ReduceMaker(m, n)
    <3> DEFINE r == [q EXCEPT ![1] = [m EXCEPT !.qty = @ - n]]
    <3>1. [m EXCEPT !.qty = @ - n] \in BookOrder /\ [m EXCEPT !.qty = @ - n].id = m.id
          /\ [m EXCEPT !.qty = @ - n].user = m.user
      <4>1. m.qty - n \in Nat \ {0}
        BY <1>3, <1>b, <2>2
      <4> QED BY <1>2, <4>1 DEF BookOrder
    <3>2. r \in Seq(BookOrder) /\ Len(r) = Len(q)
      BY <1>1, <1>2, <3>1
    <3>3. \A i \in 1 .. Len(q) : r[i].id = q[i].id /\ r[i].user = q[i].user
      BY <1>1, <1>2, <3>1
    <3>4. LevelBecomes(s, p, r) /\ index' = index /\ total' = total
      BY <1>1, <2>2 DEF ReduceMaker, LevelBecomes
    <3>5. new = r
      <4> HIDE DEF s, p, q, m, r
      <4>1. queues'[s][p] = r
        BY <1>1, <3>2, <3>4, LevelUpdate DEF IInv
      <4> QED BY <1>6, <4>1 DEF MakerQueue
    <3> HIDE DEF s, p, q, m, new, r
    <3>6. SameIdsIn(r, queues[s][p])
      BY <1>1, <3>2, <3>3 DEF SameIdsIn
    <3>7. IndexAgrees'
      BY <1>1, <3>2, <3>4, <3>6, SameIds DEF IInv
    <3>8. RestsOnce'
      <4> DEFINE f == [i \in 1 .. Len(r) |-> i]
      <4>1. TakenFrom(r, queues[s][p], f)
        BY <1>1, <3>2, <3>3 DEF TakenFrom
      <4> HIDE DEF f
      <4> QED BY <1>1, <3>2, <3>4, <4>1, Reindex DEF IInv
    <3>9. ~(n < taker.rem)
      BY <1>a, <1>b, <2>2
    <3> QED BY <1>1, <3>2, <3>3, <3>4, <3>5, <3>7, <3>8, <3>9
  <2> QED BY <1>c, <2>1, <2>2
<1>d. MakerQueue' = new
  OBVIOUS
<1> HIDE DEF s, p, q, m, new
<1>8. /\ queues' \in QueuesType /\ queues'[s][p] = new
      /\ \A t \in Sides, r \in Prices : ~(t = s /\ r = p) => queues'[t][r] = queues[t][r]
  BY <1>1, <1>7, LevelUpdate DEF IInv
<1>9. /\ \A t \in Sides : t # s => Levels(queues, t)' = Levels(queues, t)
      /\ \A t \in Sides : t = s => Levels(queues, t)' \subseteq Levels(queues, t)
  BY <1>1, <1>2, <1>8 DEF Levels
<1>10. fills \in Seq(Trade) /\ fills' \in Seq(Trade) /\ Len(fills') = Len(fills) + 1
       /\ fills'[Len(fills) + 1].price = p /\ fills'[Len(fills) + 1].maker = m.id
       /\ \A i \in 1 .. Len(fills) : fills'[i] = fills[i]
  <2>1. fills \in Seq(Trade)
    BY DEF IInv, TypeOK
  <2>2. [maker |-> m.id, makerUser |-> m.user, makerType |-> m.type,
         taker |-> taker.id, price |-> p, qty |-> n] \in Trade
    BY <1>1, <1>3, <1>b DEF Trade, Order
  <2> QED BY <1>4, <2>1, <2>2
<1>11. TypeOK'
  <2>1. index' \in SUBSET Entry /\ total' \in Int
    BY <1>1, <1>7 DEF IInv, TypeOK
  <2> QED BY <1>1, <1>4, <1>5, <1>8, <1>10, <2>1 DEF IInv, TypeOK, QueuesType
<1>12. BestIsBest'
  BY <1>4, <1>6, <1>9 DEF IInv, BestIsBest, IsBest, s
<1>13. ScanInv'
  <2>1. Crosses' = Crosses /\ Crosses
    BY <1>4, <1>5, <1>6 DEF IInv, ScanInv, Crosses, p
  <2>2. \A r \in Levels(queues, s) : r = p \/ Better(s, p, r)
    BY <1>4 DEF IInv, ScanInv, s, p
  <2>3. \A r \in Levels(queues, MakerSide)' : r = p \/ Better(s, p, r)
    BY <1>1, <1>6, <1>9, <2>2 DEF Levels
  <2>4. \A j \in 1 .. Len(q) : j > total - checked => IsSelfTrade(taker.user, q[j].user)
    BY <1>4 DEF IInv, ScanInv, q
  <2>5. \A i \in 1 .. Len(new) : i > total' - checked => IsSelfTrade(taker.user, new[i].user)
    BY <1>7, <2>4
  <2> QED BY <1>1, <1>4, <1>5, <1>6, <1>7, <1>d, <2>1, <2>3, <2>5 DEF ScanInv
<1>14. StopsOnlyAtOwn' /\ FreshIds'
  BY <1>4, <1>5, <1>7 DEF IInv, StopsOnlyAtOwn, FreshIds
<1>15. \A j \in 1 .. Len(fills) :
         /\ ~Better(SideOf(taker.type), fills[j].price, p)
         /\ \A e \in index : e.id # fills[j].maker
  BY <1>2, <1>4 DEF IInv, FillInv, p
<1>16. FillsInPriceOrder'
  <2>1. ~Better(SideOf(taker.type), p, taker.price)
    BY <1>4 DEF IInv, ScanInv, Crosses, p
  <2>2. \A j \in 1 .. Len(fills) : fills[j].maker # m.id
    <3>1. [id |-> m.id, side |-> s, price |-> p] \in index
      BY <1>1, <1>2 DEF IInv, IndexAgrees
    <3> QED BY <1>15, <3>1
  <2> SUFFICES ASSUME NEW i \in 1 .. Len(fills')
               PROVE  /\ ~Better(SideOf(taker.type), fills'[i].price, taker.price)
                      /\ \A j \in 1 .. i - 1 :
                           /\ ~Better(SideOf(taker.type), fills'[j].price, fills'[i].price)
                           /\ fills'[j].maker # fills'[i].maker
    BY <1>5 DEF FillsInPriceOrder
  <2>3. CASE i = Len(fills) + 1
    BY <1>10, <1>15, <2>1, <2>2, <2>3
  <2>4. CASE i \in 1 .. Len(fills)
    <3>1. \A j \in 1 .. i - 1 : fills'[j] = fills[j]
      BY <1>10, <2>4
    <3>2. fills'[i] = fills[i]
      BY <1>10, <2>4
    <3> QED BY <2>4, <3>1, <3>2 DEF IInv, FillsInPriceOrder
  <2>5. i = Len(fills) + 1 \/ i \in 1 .. Len(fills)
    BY <1>10
  <2> QED BY <2>3, <2>4, <2>5
<1>17. FillInv'
  <2> SUFFICES ASSUME NEW i \in 1 .. Len(fills')
               PROVE  /\ ~Better(SideOf(taker.type), fills'[i].price, p)
                      /\ taker'.rem > 0 => \A e \in index' : e.id # fills'[i].maker
    BY <1>4, <1>5, <1>6 DEF FillInv
  <2>1. CASE i = Len(fills) + 1
    <3>1. ~Better(SideOf(taker.type), p, p)
      BY <1>1 DEF Better, Prices
    <3>2. taker'.rem > 0 => n < taker.rem
      BY <1>5, <1>a, <1>b
    <3> QED BY <1>7, <1>10, <2>1, <3>1, <3>2
  <2>2. CASE i \in 1 .. Len(fills)
    BY <1>7, <1>10, <1>15, <2>2
  <2>3. i = Len(fills) + 1 \/ i \in 1 .. Len(fills)
    BY <1>10
  <2> QED BY <2>1, <2>2, <2>3
<1> QED BY <1>7, <1>11, <1>12, <1>13, <1>14, <1>16, <1>17 DEF IInv

(* After a level: best price refreshed, or a break at own orders. *)
LEMMA LeaveLevelInv == ASSUME IInv, LeaveLevel PROVE IInv'
<1> DEFINE s == MakerSide
           p == MakerPrice
           q == MakerQueue
<1>1. /\ taker \in Order /\ s \in Sides /\ p \in Prices
      /\ q = queues[s][p] /\ q \in Seq(BookOrder)
      /\ total = Len(q) /\ checked \in Nat /\ checked <= total
      /\ queues \in QueuesType
  BY InnerFacts DEF LeaveLevel
<1>2. /\ queues' = queues /\ index' = index /\ taker' = taker
      /\ checked' = checked /\ total' = total /\ fills' = fills
      /\ nextId' = nextId /\ pc = "inner" /\ ~InnerGuard
  BY DEF LeaveLevel
<1>3. MakerSide' = s /\ \A t \in Sides : Levels(queues, t)' = Levels(queues, t)
  BY <1>2 DEF MakerSide, Levels
<1>4. IndexAgrees' /\ RestsOnce'
  BY <1>2 DEF IInv, IndexAgrees, RestsAt, RestsOnce
<1>5. FillsInPriceOrder' /\ FreshIds'
  BY <1>2 DEF IInv, FillsInPriceOrder, FreshIds, LeaveLevel
<1>6. \A r \in Levels(queues, s) : r = p \/ Better(s, p, r)
  BY <1>2 DEF IInv, ScanInv
<1>7. \A t \in Sides : t # s => IsBest(t)
  BY <1>2 DEF IInv, BestIsBest
<1>8. best \in [Sides -> 0 .. MaxPrice + 1]
  BY DEF IInv, TypeOK
<1>9. CASE MakerQueue = <<>>
  <2>1. best' = [best EXCEPT ![s] = RefreshBest(queues, s)] /\ pc' = "outer"
    BY <1>9 DEF LeaveLevel
  <2>2. TypeOK'
    BY <1>1, <1>2, <1>8, <2>1, RefreshBestType DEF IInv, TypeOK
  <2>3. best'[s] = RefreshBest(queues, s) /\ \A t \in Sides : t # s => best'[t] = best[t]
    BY <1>1, <1>8, <2>1
  <2> HIDE DEF s, p, q
  <2>4. BestIsBest'
    <3>1. \A t \in Sides : t = s => IsBest(t)'
      BY <1>1, <1>3, <2>3, RefreshBestIsBest DEF IsBest
    <3>2. \A t \in Sides : t # s => IsBest(t)'
      BY <1>3, <1>7, <2>3 DEF IsBest
    <3> QED BY <3>1, <3>2 DEF BestIsBest
  <2>5. StopsOnlyAtOwn' /\ ScanInv'
    BY <2>1 DEF StopsOnlyAtOwn, ScanInv
  <2>6. MakerPrice' = RefreshBest(queues, s)
    BY <1>3, <2>3 DEF MakerPrice
  <2>7. p \notin Levels(queues, s)
    BY <1>1, <1>9 DEF Levels, q
  <2>8. RefreshBest(queues, s) = NoBest(s) \/ Better(s, p, RefreshBest(queues, s))
    BY <1>1, <1>6, <2>7, RefreshBestIsBest
  <2>9. SideOf(taker.type) \in Sides /\ s = Opposite(SideOf(taker.type))
    BY <1>1, MakerSideType DEF s, MakerSide
  <2>10. ASSUME NEW i \in 1 .. Len(fills)
         PROVE  ~Better(SideOf(taker.type), fills[i].price, RefreshBest(queues, s))
    <3>1. ~Better(SideOf(taker.type), fills[i].price, p)
      BY <1>2 DEF IInv, FillInv, p
    <3>2. fills[i].price \in Prices
      <4>1. fills \in Seq(Trade)
        BY DEF IInv, TypeOK
      <4>2. fills[i] \in Trade
        BY <4>1
      <4> QED BY <4>2 DEF Trade
    <3>3. RefreshBest(queues, s) \in 0 .. MaxPrice + 1
      BY <1>1, RefreshBestType
    <3> HIDE DEF s, p
    <3>4. CASE SideOf(taker.type) = "BUY"
      BY <1>1, <2>8, <2>9, <3>1, <3>2, <3>3, <3>4 DEF Better, NoBest, Opposite, Prices
    <3>5. CASE SideOf(taker.type) = "SELL"
      BY <1>1, <2>8, <2>9, <3>1, <3>2, <3>3, <3>5 DEF Better, NoBest, Opposite, Prices
    <3> QED BY <2>9, <3>4, <3>5 DEF Sides
  <2>11. FillInv'
    BY <1>2, <2>1, <2>6, <2>10 DEF IInv, FillInv
  <2> QED BY <1>4, <1>5, <2>2, <2>4, <2>5, <2>11 DEF IInv
<1>10. CASE MakerQueue # <<>>
  <2>1. best' = best /\ pc' = "done"
    BY <1>10 DEF LeaveLevel
  <2>2. TypeOK'
    BY <1>1, <1>2, <2>1 DEF IInv, TypeOK
  <2>3. MakerPrice' = p /\ MakerQueue' = q
    BY <1>2, <1>3, <2>1 DEF MakerPrice, MakerQueue
  <2>4. BestIsBest'
    <3>1. \A t \in Sides : t = s => IsBest(t)'
      <4>1. p \in Levels(queues, s)
        BY <1>1, <1>10 DEF Levels
      <4> QED BY <1>3, <1>6, <2>1, <4>1 DEF IsBest, MakerPrice
    <3>2. \A t \in Sides : t # s => IsBest(t)'
      BY <1>3, <1>7, <2>1 DEF IsBest
    <3> QED BY <3>1, <3>2 DEF BestIsBest
  <2>5. StopsOnlyAtOwn'
    <3> SUFFICES ASSUME taker.rem > 0
                 PROVE  \A i \in 1 .. Len(q) : IsSelfTrade(taker.user, q[i].user)
      BY <1>2, <2>3 DEF StopsOnlyAtOwn
    <3>1. checked = total
      BY <1>1, <1>2, <1>10 DEF InnerGuard
    <3>2. \A i \in 1 .. Len(q) : i > total - checked
      BY <1>1, <3>1
    <3> QED BY <1>2, <3>2 DEF IInv, ScanInv
  <2>6. ScanInv'
    BY <2>1 DEF ScanInv
  <2>7. FillInv'
    BY <1>2, <2>1, <2>3 DEF IInv, FillInv
  <2> QED BY <1>4, <1>5, <2>2, <2>4, <2>5, <2>6, <2>7 DEF IInv
<1> QED BY <1>9, <1>10

(* The remainder of a GTC order is appended to its own side. *)
LEMMA FinishInv == ASSUME IInv, Finish PROVE IInv'
<1>1. /\ taker \in Order /\ pc = "done" /\ pc' = "idle" /\ fills' = <<>>
      /\ taker' = NoOrder /\ checked' = 0 /\ total' = 0 /\ nextId' = nextId
  BY DEF IInv, TypeOK, Finish, ForgetMatch
<1>2. FillsInPriceOrder' /\ StopsOnlyAtOwn' /\ ScanInv' /\ FillInv'
  BY <1>1 DEF FillsInPriceOrder, StopsOnlyAtOwn, ScanInv, FillInv
<1>3. \A t \in Sides : IsBest(t)
  BY <1>1 DEF IInv, BestIsBest
<1>4. CASE UNCHANGED book
  <2>1. TypeOK'
    BY <1>1, <1>4 DEF IInv, TypeOK, book
  <2>2. BestIsBest' /\ IndexAgrees' /\ RestsOnce'
    BY <1>3, <1>4, BookFrame DEF IInv, BestIsBest
  <2>3. FreshIds'
    BY <1>1, <1>4 DEF IInv, FreshIds, book
  <2> QED BY <1>2, <2>1, <2>2, <2>3 DEF IInv
<1>5. CASE taker.rem > 0 /\ UNCHANGED nextId
           /\ AddOrder(SideOf(taker.type), taker.price,
                       [id |-> taker.id, user |-> taker.user,
                        type |-> taker.type, qty |-> taker.rem])
  <2>1. PICK s \in Sides : s = SideOf(taker.type)
    BY <1>1, MakerSideType
  <2>2. PICK p \in Prices : p = taker.price
    BY <1>1 DEF Order
  <2>3. PICK bo \in BookOrder :
          bo = [id |-> taker.id, user |-> taker.user, type |-> taker.type, qty |-> taker.rem]
    BY <1>1, <1>5 DEF Order, BookOrder
  <2>4. AddOrder(s, p, bo)
    BY <1>5, <2>1, <2>2, <2>3
  <2>5. bo.id = taker.id
    BY <2>3
  <2>6. PICK q \in Seq(BookOrder) : q = queues[s][p]
    BY DEF IInv, TypeOK
  <2>7. PICK new \in Seq(BookOrder) : new = Append(q, bo)
    <3>1. Append(q, bo) \in Seq(BookOrder)
      OBVIOUS
    <3> QED BY <3>1, Zenon
  <2>8. /\ Len(new) = Len(q) + 1 /\ new[Len(q) + 1] = bo
        /\ \A i \in 1 .. Len(q) : new[i] = q[i]
        /\ \A i \in 1 .. Len(new) : i \in 1 .. Len(q) \/ i = Len(q) + 1
        /\ Len(q) + 1 \in 1 .. Len(new) /\ Len(q) \in Nat
    BY <2>7
  <2>9. LevelBecomes(s, p, new)
    BY <2>4, <2>6, <2>7 DEF AddOrder, LevelBecomes
  <2>10. /\ queues' \in QueuesType /\ queues'[s][p] = new
         /\ \A t \in Sides, r \in Prices : ~(t = s /\ r = p) => queues'[t][r] = queues[t][r]
    BY <2>9, LevelUpdate DEF IInv
  <2>11. index' = index \union {[id |-> bo.id, side |-> s, price |-> p]}
    BY <2>4 DEF AddOrder
  <2>12. /\ best' \in [Sides -> 0 .. MaxPrice + 1]
         /\ best'[s] = IF Better(s, p, best[s]) THEN p ELSE best[s]
         /\ \A t \in Sides : t # s => best'[t] = best[t]
    BY <2>4 DEF AddOrder, IInv, TypeOK, Prices
  <2>13. TypeOK'
    <3>1. index' \in SUBSET Entry
      BY <2>11 DEF IInv, TypeOK, Entry, BookOrder
    <3> QED BY <1>1, <2>10, <2>12, <3>1 DEF IInv, TypeOK, QueuesType
  <2>14. \A e \in index : e.id # bo.id
    BY <1>1, <2>5 DEF IInv, FreshIds
  <2>15. \A t \in Sides, r \in Prices :
           \A i \in 1 .. Len(queues[t][r]) : queues[t][r][i].id # bo.id
    BY <2>14 DEF IInv, IndexAgrees
  <2>16. BestIsBest'
    <3>1. ASSUME NEW t \in Sides, t # s PROVE IsBest(t)'
      <4>1. Levels(queues, t)' = Levels(queues, t)
        BY <2>10, <3>1 DEF Levels
      <4> QED BY <1>3, <2>12, <3>1, <4>1 DEF IsBest
    <3>2. IsBest(s)'
      <4>1. Levels(queues, s)' = Levels(queues, s) \union {p}
        BY <2>8, <2>10 DEF Levels
      <4>2. Levels(queues, s) \subseteq Prices
        BY DEF Levels
      <4>3. best[s] \in 0 .. MaxPrice + 1
        BY DEF IInv, TypeOK
      <4>4. IsBest(s)
        BY <1>3
      <4> DEFINE L == Levels(queues, s)
      <4>5. IF L = {} THEN best[s] = NoBest(s)
            ELSE best[s] \in L /\ \A r \in L : r = best[s] \/ Better(s, best[s], r)
        BY <4>4 DEF IsBest
      <4>6. (L \union {p}) # {}
        OBVIOUS
      <4> HIDE DEF L
      <4>7. /\ best'[s] \in L \union {p}
            /\ \A r \in L \union {p} : r = best'[s] \/ Better(s, best'[s], r)
        <5>1. CASE s = "BUY"
          BY <2>12, <4>2, <4>3, <4>5, <5>1 DEF Better, NoBest, Prices, L
        <5>2. CASE s = "SELL"
          BY <2>12, <4>2, <4>3, <4>5, <5>2 DEF Better, NoBest, Prices, L
        <5> QED BY <5>1, <5>2 DEF Sides
      <4> QED BY <4>1, <4>6, <4>7 DEF IsBest, L
    <3> QED BY <3>1, <3>2 DEF BestIsBest
  <2>17. IndexAgrees'
    <3> SUFFICES ASSUME NEW t \in Sides, NEW r \in Prices
                 PROVE  /\ \A i \in 1 .. Len(queues'[t][r]) :
                             [id |-> queues'[t][r][i].id, side |-> t, price |-> r] \in index'
                        /\ \A e \in index' : e.side = t /\ e.price = r => RestsAt(e.id, t, r)'
      BY DEF IndexAgrees
    <3>1. CASE t = s /\ r = p
      <4>1. \A i \in 1 .. Len(new) : [id |-> new[i].id, side |-> s, price |-> p] \in index'
        BY <2>6, <2>8, <2>11 DEF IInv, IndexAgrees
      <4>2. ASSUME NEW e \in index', e.side = s, e.price = p
            PROVE  \E i \in 1 .. Len(new) : new[i].id = e.id
        <5>1. CASE e \in index
          <6>1. PICK i \in 1 .. Len(q) : q[i].id = e.id
            BY <2>6, <4>2, <5>1 DEF IInv, IndexAgrees, RestsAt
          <6>2. i \in 1 .. Len(new) /\ new[i].id = e.id
            BY <2>8, <6>1
          <6> QED BY <6>2
        <5>2. CASE e \notin index
          BY <2>8, <2>11, <5>2
        <5> QED BY <5>1, <5>2
      <4> QED BY <2>10, <3>1, <4>1, <4>2 DEF RestsAt
    <3>2. CASE ~(t = s /\ r = p)
      BY <2>10, <2>11, <3>2 DEF IInv, IndexAgrees, RestsAt
    <3> QED BY <3>1, <3>2
  <2>18. RestsOnce'
    <3> SUFFICES ASSUME NEW t1 \in Sides, NEW t2 \in Sides,
                        NEW q1 \in Prices, NEW q2 \in Prices,
                        NEW i \in 1 .. Len(queues'[t1][q1]),
                        NEW j \in 1 .. Len(queues'[t2][q2]),
                        queues'[t1][q1][i].id = queues'[t2][q2][j].id
                 PROVE  t1 = t2 /\ q1 = q2 /\ i = j
      BY DEF RestsOnce
    <3> DEFINE Old(t, r, k) == k \in 1 .. Len(queues[t][r]) /\ queues'[t][r][k] = queues[t][r][k]
               Added(t, r, k) == t = s /\ r = p /\ k = Len(q) + 1 /\ queues'[t][r][k].id = bo.id
    <3>1. \A t \in Sides, r \in Prices : \A k \in 1 .. Len(queues'[t][r]) :
            Old(t, r, k) \/ Added(t, r, k)
      <4> TAKE t \in Sides, r \in Prices
      <4> TAKE k \in 1 .. Len(queues'[t][r])
      <4>1. CASE t = s /\ r = p
        BY <2>6, <2>8, <2>10, <4>1
      <4>2. CASE ~(t = s /\ r = p)
        BY <2>10, <4>2
      <4> QED BY <4>1, <4>2
    <3>2. CASE Old(t1, q1, i) /\ Old(t2, q2, j)
      BY <3>2 DEF IInv, RestsOnce
    <3>3. CASE Old(t1, q1, i) /\ Added(t2, q2, j)
      BY <2>15, <3>3
    <3>4. CASE Added(t1, q1, i) /\ Old(t2, q2, j)
      BY <2>15, <3>4
    <3>5. CASE Added(t1, q1, i) /\ Added(t2, q2, j)
      BY <3>5
    <3> HIDE DEF Old, Added
    <3> QED BY <3>1, <3>2, <3>3, <3>4, <3>5
  <2>19. FreshIds'
    BY <1>1, <2>5, <2>11 DEF IInv, FreshIds
  <2> QED BY <1>2, <2>13, <2>16, <2>17, <2>18, <2>19 DEF IInv
<1> QED BY <1>4, <1>5 DEF Finish

(* cancel_order removes one order, its index entry and the stale best. *)
LEMMA RemoveOrderBook ==
  ASSUME IInv, pc = "idle", NEW e \in index, RemoveOrder(e)
  PROVE  BookInv' /\ index' \subseteq index
<1>2. PICK s \in Sides, p \in Prices : s = e.side /\ p = e.price
  BY DEF IInv, TypeOK, Entry
<1>3. PICK q \in Seq(BookOrder) : q = queues[s][p]
  BY DEF IInv, TypeOK
<1>4. PICK i \in 1 .. Len(q) :
        /\ q[i].id = e.id
        /\ queues' = [queues EXCEPT ![s][p] = Without(q, i)]
        /\ best' = IF p = best[s]
                   THEN [best EXCEPT ![s] = RefreshBest(queues', s)]
                   ELSE best
        /\ index' = {f \in index : f.id # e.id}
  BY <1>2, <1>3 DEF RemoveOrder
<1>5. PICK new \in Seq(BookOrder) : new = Without(q, i) /\ Len(new) = Len(q) - 1
  BY WithoutProperties
<1>6. LevelBecomes(s, p, new)
  BY <1>4, <1>5 DEF LevelBecomes
<1>7. /\ queues' \in QueuesType /\ queues'[s][p] = new
      /\ \A t \in Sides, r \in Prices : ~(t = s /\ r = p) => queues'[t][r] = queues[t][r]
  BY <1>6, LevelUpdate DEF IInv
<1>8. IndexAgrees' /\ RestsOnce'
  BY <1>3, <1>4, <1>5, <1>6, PopKeepsAgreement DEF IInv
<1>9. best \in [Sides -> 0 .. MaxPrice + 1]
  BY DEF IInv, TypeOK
<1>10. best' \in [Sides -> 0 .. MaxPrice + 1]
  BY <1>4, <1>9, RefreshBestType
<1>11. index' \subseteq index /\ index \in SUBSET Entry
  BY <1>4 DEF IInv, TypeOK
<1>12. \A t \in Sides : IsBest(t)
  BY DEF IInv, BestIsBest
<1>13. ASSUME NEW t \in Sides, t # s PROVE IsBest(t)'
  <2>1. Levels(queues, t)' = Levels(queues, t) /\ best'[t] = best[t]
    BY <1>4, <1>7, <1>9, <1>13 DEF Levels
  <2> QED BY <1>12, <2>1 DEF IsBest
<1>14. IsBest(s)'
  <2>1. CASE p = best[s]
    <3>1. best'[s] = RefreshBest(queues', s)
      BY <1>4, <1>9, <2>1
    <3>2. Levels(queues', s) = Levels(queues, s)'
      BY DEF Levels
    <3> QED BY <3>1, <3>2, RefreshBestIsBest DEF IsBest
  <2>2. CASE p # best[s]
    <3>1. best'[s] = best[s]
      BY <1>4, <2>2
    <3>2. p \in Levels(queues, s)
      BY <1>3, <1>4 DEF Levels
    <3>3. \A r \in Prices : r # p => (r \in Levels(queues, s)' <=> r \in Levels(queues, s))
      BY <1>7 DEF Levels
    <3>4. Levels(queues, s)' \subseteq Levels(queues, s)
      BY <3>2, <3>3 DEF Levels
    <3>5. best[s] \in Levels(queues, s)
      BY <1>12, <3>2 DEF IsBest
    <3>6. best[s] \in Levels(queues, s)'
      BY <2>2, <3>3, <3>5 DEF Levels
    <3> QED BY <1>12, <3>1, <3>2, <3>4, <3>6 DEF IsBest
  <2> QED BY <2>1, <2>2
<1>15. \A t \in Sides : IsBest(t)'
  BY <1>13, <1>14
<1> QED BY <1>7, <1>8, <1>10, <1>11, <1>15 DEF BookInv, QueuesType

(* So cancel_order keeps the invariant. *)
LEMMA CancelInv == ASSUME IInv, NEW e \in index, Cancel(e) PROVE IInv'
BY RemoveOrderBook, IdleBookInv DEF Cancel

(* An evicted market starts again from an empty book. *)
LEMMA EvictInv == ASSUME IInv, Evict PROVE IInv'
<1>1. \A s \in Sides, p \in Prices : queues'[s][p] = <<>>
  BY DEF Evict, EvictBook, EmptyQueues
<1>2. /\ pc' = "idle" /\ fills' = <<>> /\ index' = {} /\ nextId' = nextId
      /\ best' = [s \in Sides |-> NoBest(s)]
  BY DEF Evict, EvictBook, ForgetMatch
<1>3. TypeOK'
  BY DEF IInv, TypeOK, Evict, EvictBook, ForgetMatch, EmptyQueues, NoBest, Prices, Entry
<1>4. BestIsBest'
  BY <1>1, <1>2 DEF BestIsBest, IsBest, Levels
<1>5. IndexAgrees' /\ RestsOnce'
  BY <1>1, <1>2 DEF IndexAgrees, RestsOnce
<1>6. FillsInPriceOrder' /\ StopsOnlyAtOwn' /\ ScanInv' /\ FreshIds' /\ FillInv'
  BY <1>2 DEF FillsInPriceOrder, StopsOnlyAtOwn, ScanInv, FreshIds, FillInv
<1> QED BY <1>3, <1>4, <1>5, <1>6 DEF IInv

(* A step that changes no variable keeps the invariant. *)
LEMMA StutterInv == ASSUME IInv, UNCHANGED vars PROVE IInv'
<1>1. UNCHANGED book /\ UNCHANGED match /\ nextId' = nextId
  BY DEF vars, book, match
<1>2. TypeOK'
  BY DEF IInv, TypeOK, vars
<1>3. BestIsBest' /\ IndexAgrees' /\ RestsOnce'
  BY <1>1, BookFrame DEF IInv, BestIsBest, MakerSide, match
<1>4. FillsInPriceOrder' /\ FreshIds'
  BY DEF IInv, FillsInPriceOrder, FreshIds, vars
<1>5. StopsOnlyAtOwn' /\ ScanInv' /\ FillInv'
  BY DEF IInv, StopsOnlyAtOwn, ScanInv, FillInv, Crosses, MakerQueue, MakerPrice,
     MakerSide, Levels, vars
<1> QED BY <1>2, <1>3, <1>4, <1>5 DEF IInv

-----------------------------------------------------------------------------
(* Every step of the book or of the matching loop keeps IInv. *)
LEMMA NextInv == ASSUME IInv, [Next]_vars PROVE IInv'
<1>1. ASSUME NEW u \in Users, NEW t \in BookTypes, NEW p \in Prices,
             NEW q \in Quantities, NEW tif \in {"GTC", "IOC"},
             BeginMatch(u, t, p, q, tif)
      PROVE  IInv'
  BY <1>1, BeginMatchInv
<1>2. CASE MatchStep
  BY <1>2, ScanLevelInv, StopMatchInv, SkipOwnInv, FillStepInv, LeaveLevelInv,
     FinishInv DEF MatchStep
<1>3. ASSUME NEW e \in index, Cancel(e) PROVE IInv'
  BY <1>3, CancelInv
<1>4. CASE Evict
  BY <1>4, EvictInv
<1>5. CASE UNCHANGED vars
  BY <1>5, StutterInv
<1> QED BY <1>1, <1>2, <1>3, <1>4, <1>5 DEF Next

(* IInv is an inductive invariant of the book and of the matching loop. *)
THEOREM Inductive == Spec => []IInv
<1>1. Init => IInv
  BY InitInv
<1>2. IInv /\ [Next]_vars => IInv'
  BY NextInv
<1> QED BY <1>1, <1>2, PTL DEF Spec

(* Every variable keeps its type, whatever the prices, users and sizes: no
   order rests with quantity 0 and no taker overfills. *)
THEOREM TypeCorrect == Spec => []TypeOK
BY Inductive, PTL DEF IInv

(* The cached best_bid and best_ask are always the best non-empty levels. *)
THEOREM BestPriceCorrect == Spec => []BestIsBest
BY Inductive, PTL DEF IInv

(* _order_index always lists exactly the resting orders, each under its level. *)
THEOREM IndexCorrect == Spec => []IndexAgrees
BY Inductive, PTL DEF IInv

(* The trades of a match come in price order, within the limit, each with
   another maker. *)
THEOREM FillsCorrect == Spec => []FillsInPriceOrder
BY Inductive, PTL DEF IInv

(* match_order gives up quantity only when nothing crosses or when the best
   level holds the taker's own orders alone. *)
THEOREM MatchComplete == Spec => []StopsOnlyAtOwn
BY Inductive, PTL DEF IInv
(* Of two orders of old that are both in new, the first comes first. *)
OrderKept(old, new) ==
  \A i, j \in 1 .. Len(new) : i < j =>
    \A a, b \in 1 .. Len(old) :
      old[a].id = new[i].id /\ old[b].id = new[j].id => a < b

(* A level whose orders keep their places has no two that change places. *)
LEMMA NoSwap ==
  ASSUME RestsOnce, NEW s \in Sides, NEW p \in Prices,
         OrderKept(queues[s][p], queues'[s][p]), NEW x, NEW y,
         Before(queues[s][p], x, y), Before(queues[s][p], y, x)',
         queues[s][p] \in Seq(BookOrder)
  PROVE  FALSE
<1>1. PICK a, b \in 1 .. Len(queues[s][p]) :
        a < b /\ queues[s][p][a].id = x /\ queues[s][p][b].id = y
  BY DEF Before
<1>2. PICK i, j \in 1 .. Len(queues'[s][p]) :
        i < j /\ queues'[s][p][i].id = y /\ queues'[s][p][j].id = x
  BY DEF Before
<1>3. b < a
  BY <1>1, <1>2 DEF OrderKept
<1> QED BY <1>1, <1>3

(* A level that keeps its ids in their places keeps its order. *)
LEMMA UnchangedKeepsOrder ==
  ASSUME RestsOnce, NEW s \in Sides, NEW p \in Prices,
         NEW new \in Seq(BookOrder), Len(new) = Len(queues[s][p]),
         \A i \in 1 .. Len(new) : new[i].id = queues[s][p][i].id
  PROVE  OrderKept(queues[s][p], new)
<1> SUFFICES ASSUME NEW i \in 1 .. Len(new), NEW j \in 1 .. Len(new), i < j,
                    NEW a \in 1 .. Len(queues[s][p]), NEW b \in 1 .. Len(queues[s][p]),
                    queues[s][p][a].id = new[i].id, queues[s][p][b].id = new[j].id
             PROVE  a < b
  BY DEF OrderKept
<1>1. queues[s][p][a].id = queues[s][p][i].id /\ queues[s][p][b].id = queues[s][p][j].id
  OBVIOUS
<1>2. a = i /\ b = j
  BY <1>1 DEF RestsOnce
<1> QED BY <1>2

(* A level that loses an order keeps the others in theirs. *)
LEMMA WithoutKeepsOrder ==
  ASSUME RestsOnce, NEW s \in Sides, NEW p \in Prices,
         queues[s][p] \in Seq(BookOrder), NEW k \in 1 .. Len(queues[s][p])
  PROVE  OrderKept(queues[s][p], Without(queues[s][p], k))
<1> DEFINE q == queues[s][p]
           new == Without(q, k)
<1>1. /\ Len(new) = Len(q) - 1
      /\ \A j \in 1 .. Len(q) - 1 : new[j] = IF j < k THEN q[j] ELSE q[j + 1]
  BY WithoutProperties
<1> SUFFICES ASSUME NEW i \in 1 .. Len(new), NEW j \in 1 .. Len(new), i < j,
                    NEW a \in 1 .. Len(q), NEW b \in 1 .. Len(q),
                    q[a].id = new[i].id, q[b].id = new[j].id
             PROVE  a < b
  BY DEF OrderKept
<1> HIDE DEF new
<1>2. PICK c \in 1 .. Len(q) : c = (IF i < k THEN i ELSE i + 1) /\ new[i] = q[c]
  BY <1>1
<1>3. PICK d \in 1 .. Len(q) : d = (IF j < k THEN j ELSE j + 1) /\ new[j] = q[d]
  BY <1>1
<1>4. a = c /\ b = d
  BY <1>2, <1>3 DEF RestsOnce
<1> QED BY <1>2, <1>3, <1>4

(* A new order joins at the back. *)
LEMMA AppendKeepsOrder ==
  ASSUME RestsOnce, NEW s \in Sides, NEW p \in Prices,
         queues[s][p] \in Seq(BookOrder), NEW bo \in BookOrder,
         \A i \in 1 .. Len(queues[s][p]) : queues[s][p][i].id # bo.id
  PROVE  OrderKept(queues[s][p], Append(queues[s][p], bo))
<1> DEFINE q == queues[s][p]
           new == Append(q, bo)
<1>1. /\ Len(new) = Len(q) + 1 /\ new[Len(q) + 1] = bo
      /\ \A i \in 1 .. Len(q) : new[i] = q[i]
  OBVIOUS
<1> SUFFICES ASSUME NEW i \in 1 .. Len(new), NEW j \in 1 .. Len(new), i < j,
                    NEW a \in 1 .. Len(q), NEW b \in 1 .. Len(q),
                    q[a].id = new[i].id, q[b].id = new[j].id
             PROVE  a < b
  BY DEF OrderKept
<1> HIDE DEF new
<1>2. j # Len(q) + 1
  BY <1>1
<1>3. i \in 1 .. Len(q) /\ j \in 1 .. Len(q)
  BY <1>1, <1>2
<1>5. q[a].id = q[i].id /\ q[b].id = q[j].id
  BY <1>1, <1>3
<1>4. a = i /\ b = j
  BY <1>3, <1>5 DEF RestsOnce
<1> QED BY <1>4

(* No order rests twice, whatever is rotated, filled, cancelled or added. *)
THEOREM RestsOnceCorrect == Spec => []RestsOnce
BY Inductive, PTL DEF IInv
(* What a step may do to the order of a level. *)
NoOneElseFallsBack ==
  \A s \in Sides, p \in Prices :
    \A x, y \in 1 .. MaxOrders :
      Before(queues[s][p], x, y) /\ Before(queues[s][p], y, x)'
        => pc = "inner" /\ OwnerAt(queues[s][p], x) = taker.user

(* A step that keeps the order of every level lets no one fall back. *)
LEMMA KeptLevels ==
  ASSUME IInv, \A s \in Sides, p \in Prices : OrderKept(queues[s][p], queues'[s][p])
  PROVE  NoOneElseFallsBack
<1>1. \A s \in Sides, p \in Prices : queues[s][p] \in Seq(BookOrder)
  BY DEF IInv, TypeOK
<1> QED BY <1>1, NoSwap DEF NoOneElseFallsBack, IInv

(* A step that changes one level needs to keep the order of that one. *)
LEMMA OneLevelKept ==
  ASSUME IInv, NEW s \in Sides, NEW p \in Prices, NEW new \in Seq(BookOrder),
         LevelBecomes(s, p, new), OrderKept(queues[s][p], new)
  PROVE  NoOneElseFallsBack
<1>1. /\ queues'[s][p] = new
      /\ \A t \in Sides, r \in Prices : ~(t = s /\ r = p) => queues'[t][r] = queues[t][r]
  BY LevelUpdate DEF IInv
<1>2. ASSUME NEW t \in Sides, NEW r \in Prices
      PROVE  OrderKept(queues[t][r], queues'[t][r])
  <2>1. CASE t = s /\ r = p
    BY <1>1, <2>1
  <2>2. CASE ~(t = s /\ r = p)
    <3>1. queues'[t][r] = queues[t][r] /\ queues[t][r] \in Seq(BookOrder)
      BY <1>1, <2>2 DEF IInv, TypeOK
    <3> QED BY <3>1, UnchangedKeepsOrder DEF IInv
  <2> QED BY <2>1, <2>2
<1> QED BY <1>2, KeptLevels

(* Steps that leave the queues alone. *)
LEMMA SameQueuesKept == ASSUME IInv, queues' = queues PROVE NoOneElseFallsBack
<1>1. ASSUME NEW t \in Sides, NEW r \in Prices
      PROVE  OrderKept(queues[t][r], queues'[t][r])
  <2>1. queues'[t][r] = queues[t][r] /\ queues[t][r] \in Seq(BookOrder)
    BY DEF IInv, TypeOK
  <2> QED BY <2>1, UnchangedKeepsOrder DEF IInv
<1> QED BY <1>1, KeptLevels

(* rotate(-1): the order that falls back is the head of the level, and its
   owner is the taker. *)
LEMMA SkipOwnPlaces == ASSUME IInv, SkipOwn PROVE NoOneElseFallsBack
<1> DEFINE s == MakerSide
           p == MakerPrice
           q == MakerQueue
           new == Rotate(MakerQueue)
<1>1. /\ taker \in Order /\ s \in Sides /\ p \in Prices
      /\ q = queues[s][p] /\ q \in Seq(BookOrder) /\ pc = "inner"
  BY InnerFacts DEF SkipOwn
<1>2. q # <<>> /\ Head(q) = q[1] /\ 1 \in 1 .. Len(q) /\ IsSelfTrade(taker.user, q[1].user)
  BY <1>1 DEF SkipOwn, InnerGuard
<1>3. /\ new \in Seq(BookOrder) /\ Len(new) = Len(q)
      /\ \A j \in 1 .. Len(q) : new[j] = IF j < Len(q) THEN q[j + 1] ELSE q[1]
  BY <1>1, <1>2, RotateProperties
<1>4. LevelBecomes(s, p, new)
  BY <1>1 DEF SkipOwn, LevelBecomes
<1> HIDE DEF s, p, q, new
<1>5. /\ queues'[s][p] = new
      /\ \A t \in Sides, r \in Prices : ~(t = s /\ r = p) => queues'[t][r] = queues[t][r]
  BY <1>1, <1>3, <1>4, LevelUpdate DEF IInv
<1> SUFFICES ASSUME NEW t \in Sides, NEW r \in Prices, NEW x, NEW y,
                    Before(queues[t][r], x, y), Before(queues[t][r], y, x)'
             PROVE  OwnerAt(queues[t][r], x) = taker.user
  BY <1>1 DEF NoOneElseFallsBack
<1>6. CASE ~(t = s /\ r = p)
  <2>1. queues'[t][r] = queues[t][r] /\ queues[t][r] \in Seq(BookOrder)
    BY <1>5, <1>6 DEF IInv, TypeOK
  <2>2. OrderKept(queues[t][r], queues'[t][r])
    BY <2>1, UnchangedKeepsOrder DEF IInv
  <2> QED BY <2>1, <2>2, NoSwap DEF IInv
<1>7. CASE t = s /\ r = p
  <2>1. PICK a, b \in 1 .. Len(q) : a < b /\ q[a].id = x /\ q[b].id = y
    BY <1>1, <1>7 DEF Before
  <2>2. PICK i, j \in 1 .. Len(new) : i < j /\ new[i].id = y /\ new[j].id = x
    BY <1>5, <1>7 DEF Before
  <2>3. i + 1 \in 1 .. Len(q) /\ q[i + 1].id = y
    BY <1>1, <1>3, <2>2
  <2>4. b = i + 1
    BY <1>1, <2>1, <2>3 DEF IInv, RestsOnce
  <2>5. a = 1
    <3>1. CASE j < Len(q)
      <4>1. j + 1 \in 1 .. Len(q) /\ q[j + 1].id = x
        BY <1>1, <1>3, <2>2, <3>1
      <4>2. a = j + 1
        BY <1>1, <2>1, <4>1 DEF IInv, RestsOnce
      <4> QED BY <2>1, <2>2, <2>4, <4>2
    <3>2. CASE ~(j < Len(q))
      <4>1. q[1].id = x
        BY <1>1, <1>3, <2>2, <3>2
      <4> QED BY <1>1, <1>2, <2>1, <4>1 DEF IInv, RestsOnce
    <3> QED BY <3>1, <3>2
  <2>a. q[1] \in BookOrder
    BY <1>1, <1>2
  <2>6. q[1].user \in Users /\ q[1].id = x
    BY <2>1, <2>5, <2>a DEF BookOrder
  <2>7. \A k \in 1 .. Len(q) : q[k].id = x => k = 1
    BY <1>1, <1>2, <2>6 DEF IInv, RestsOnce
  <2>8. \A u \in Users : (\E k \in 1 .. Len(q) : q[k].id = x /\ q[k].user = u) <=> u = q[1].user
    BY <1>2, <2>6, <2>7
  <2>9. OwnerAt(q, x) = q[1].user
    BY <2>6, <2>8 DEF OwnerAt
  <2> QED BY <1>1, <1>2, <1>7, <2>9 DEF IsSelfTrade
<1> QED BY <1>6, <1>7

(* A fill takes the head of its level or leaves it in place. *)
LEMMA FillPlaces == ASSUME IInv, Fill PROVE NoOneElseFallsBack
<1> DEFINE s == MakerSide
           p == MakerPrice
           q == MakerQueue
           m == Head(MakerQueue)
           n == IF taker.rem < m.qty THEN taker.rem ELSE m.qty
<1>1. /\ taker \in Order /\ s \in Sides /\ p \in Prices
      /\ q = queues[s][p] /\ q \in Seq(BookOrder)
  BY InnerFacts DEF Fill
<1>a. q # <<>> /\ m = q[1] /\ m \in BookOrder /\ 1 \in 1 .. Len(q)
  BY <1>1 DEF Fill, InnerGuard
<1>2. m.qty \in Nat \ {0} /\ taker.rem \in Nat
  BY <1>1, <1>a DEF BookOrder, Order
<1>3. (n = m.qty /\ PopMaker(m)) \/ (n # m.qty /\ ReduceMaker(m, n))
  BY Zenon DEF Fill
<1>4. n \in Nat /\ n <= m.qty
  BY <1>2
<1> HIDE DEF n
<1>5. CASE PopMaker(m)
  <2>1. Tail(q) \in Seq(BookOrder) /\ Tail(q) = Without(q, 1)
    BY <1>1, <1>a DEF Without
  <2>2. LevelBecomes(s, p, Tail(q))
    BY <1>1, <1>5 DEF PopMaker, LevelBecomes
  <2> HIDE DEF s, p, q, m
  <2>3. OrderKept(queues[s][p], Tail(q))
    BY <1>1, <1>a, <2>1, WithoutKeepsOrder DEF IInv
  <2> QED BY <1>1, <2>1, <2>2, <2>3, OneLevelKept
<1>6. CASE n # m.qty /\ ReduceMaker(m, n)
  <2> DEFINE r == [q EXCEPT ![1] = [m EXCEPT !.qty = @ - n]]
  <2>1. [m EXCEPT !.qty = @ - n] \in BookOrder /\ [m EXCEPT !.qty = @ - n].id = m.id
    <3>1. m.qty - n \in Nat \ {0}
      BY <1>2, <1>4, <1>6
    <3> QED BY <1>a, <3>1 DEF BookOrder
  <2>2. r \in Seq(BookOrder) /\ Len(r) = Len(q) /\ \A i \in 1 .. Len(r) : r[i].id = q[i].id
    BY <1>1, <1>a, <2>1
  <2>3. LevelBecomes(s, p, r)
    BY <1>1, <1>6 DEF ReduceMaker, LevelBecomes
  <2> HIDE DEF s, p, q, m, r
  <2>4. OrderKept(queues[s][p], r)
    BY <1>1, <2>2, UnchangedKeepsOrder DEF IInv
  <2> QED BY <1>1, <2>2, <2>3, <2>4, OneLevelKept
<1> QED BY <1>3, <1>5, <1>6

(* The remainder of a new order joins the back of its level. *)
LEMMA FinishPlaces == ASSUME IInv, Finish PROVE NoOneElseFallsBack
<1>1. taker \in Order /\ pc = "done"
  BY DEF IInv, TypeOK, Finish
<1>2. CASE UNCHANGED book
  BY <1>2, SameQueuesKept DEF book
<1>3. CASE taker.rem > 0 /\ AddOrder(SideOf(taker.type), taker.price,
                       [id |-> taker.id, user |-> taker.user,
                        type |-> taker.type, qty |-> taker.rem])
  <2>1. PICK s \in Sides : s = SideOf(taker.type)
    BY <1>1, MakerSideType
  <2>2. PICK p \in Prices : p = taker.price
    BY <1>1 DEF Order
  <2>3. PICK bo \in BookOrder :
          bo = [id |-> taker.id, user |-> taker.user, type |-> taker.type, qty |-> taker.rem]
    BY <1>1, <1>3 DEF Order, BookOrder
  <2>4. queues[s][p] \in Seq(BookOrder) /\ Append(queues[s][p], bo) \in Seq(BookOrder)
    BY DEF IInv, TypeOK
  <2>5. LevelBecomes(s, p, Append(queues[s][p], bo))
    BY <1>3, <2>1, <2>2, <2>3 DEF AddOrder, LevelBecomes
  <2>6. \A i \in 1 .. Len(queues[s][p]) : queues[s][p][i].id # bo.id
    BY <1>1, <2>3 DEF IInv, FreshIds, IndexAgrees
  <2>7. OrderKept(queues[s][p], Append(queues[s][p], bo))
    BY <2>4, <2>6, AppendKeepsOrder DEF IInv
  <2> QED BY <2>4, <2>5, <2>7, OneLevelKept
<1> QED BY <1>2, <1>3 DEF Finish

(* cancel_order closes the gap. *)
LEMMA CancelPlaces == ASSUME IInv, NEW e \in index, Cancel(e) PROVE NoOneElseFallsBack
<1>1. PICK s \in Sides, p \in Prices : s = e.side /\ p = e.price
  BY DEF IInv, TypeOK, Entry
<1>2. queues[s][p] \in Seq(BookOrder)
  BY DEF IInv, TypeOK
<1>3. PICK i \in 1 .. Len(queues[s][p]) : LevelBecomes(s, p, Without(queues[s][p], i))
  BY <1>1 DEF Cancel, RemoveOrder, LevelBecomes
<1> QED BY <1>2, <1>3, WithoutProperties, WithoutKeepsOrder, OneLevelKept DEF IInv

(* rotate(-1) costs nobody but the taker a place in the queue, and nothing
   else does: price-time priority holds among the orders of all others. *)
THEOREM PlacesKept == Spec => OnlyOwnerLosesPlace
<1>1. IInv /\ [Next]_vars => [NoOneElseFallsBack]_vars
  <2> SUFFICES ASSUME IInv, Next PROVE NoOneElseFallsBack
    OBVIOUS
  <2>1. ASSUME NEW u \in Users, NEW t \in BookTypes, NEW p \in Prices,
               NEW q \in Quantities, NEW tif \in {"GTC", "IOC"},
               BeginMatch(u, t, p, q, tif)
        PROVE  NoOneElseFallsBack
    BY <2>1, SameQueuesKept DEF BeginMatch, book
  <2>2. CASE ScanLevel \/ StopMatch \/ LeaveLevel
    BY <2>2, SameQueuesKept DEF ScanLevel, StopMatch, LeaveLevel, book
  <2>3. CASE SkipOwn \/ Fill \/ Finish
    BY <2>3, SkipOwnPlaces, FillPlaces, FinishPlaces
  <2>4. ASSUME NEW e \in index, Cancel(e) PROVE NoOneElseFallsBack
    BY <2>4, CancelPlaces
  <2>5. CASE Evict
    <3>1. \A s \in Sides, p \in Prices : queues'[s][p] = <<>>
      BY <2>5 DEF Evict, EvictBook, EmptyQueues
    <3> QED BY <3>1, KeptLevels DEF OrderKept
  <2> QED BY <2>1, <2>2, <2>3, <2>4, <2>5 DEF Next, MatchStep
<1> QED BY <1>1, Inductive, PTL DEF Spec, OnlyOwnerLosesPlace, NoOneElseFallsBack

(* What a step of match_order brings. *)
Advance == pc # "idle" => pc' = "idle" \/ Lower(StillToDo', StillToDo)

(* What is left to do is three natural numbers while a match is under way. *)
LEMMA StillToDoType ==
  IInv /\ ~(pc = "idle") => StillToDo \in Nat \X Nat \X Nat
<1> SUFFICES ASSUME IInv, pc # "idle" PROVE StillToDo \in Nat \X Nat \X Nat
  OBVIOUS
<1>1. taker.rem \in Nat
  BY DEF IInv, TypeOK, Order
<1>2. LoopStage \in Nat
  BY DEF LoopStage
<1>3. (IF pc = "inner" THEN total - checked ELSE 0) \in Nat
  <2>1. CASE pc = "inner"
    <3>1. MakerQueue \in Seq(BookOrder) /\ total = Len(MakerQueue)
          /\ checked \in Nat /\ checked <= total
      BY <2>1, InnerFacts
    <3>2. Len(MakerQueue) \in Nat
      BY <3>1
    <3> QED BY <2>1, <3>1, <3>2
  <2> QED BY <2>1
<1> QED BY <1>1, <1>2, <1>3 DEF StillToDo

(* The three ways in which a triple falls. *)
LEMMA Lowered ==
  ASSUME NEW a \in Nat \X Nat \X Nat, NEW b \in Nat \X Nat \X Nat,
         \/ a[1] < b[1]
         \/ a[1] = b[1] /\ a[2] < b[2]
         \/ a[1] = b[1] /\ a[2] = b[2] /\ a[3] < b[3]
  PROVE  Lower(a, b)
<1>1. CASE a[1] < b[1]
  <2>1. 1 \in 1 .. 3 /\ \A m \in 1 .. 1 - 1 : a[m] = b[m]
    OBVIOUS
  <2> QED BY <1>1, <2>1 DEF Lower
<1>2. CASE a[1] = b[1] /\ a[2] < b[2]
  <2>1. 2 \in 1 .. 3 /\ \A m \in 1 .. 2 - 1 : a[m] = b[m]
    BY <1>2
  <2> QED BY <1>2, <2>1 DEF Lower
<1>3. CASE a[1] = b[1] /\ a[2] = b[2] /\ a[3] < b[3]
  <2>1. 3 \in 1 .. 3 /\ \A m \in 1 .. 3 - 1 : m = 1 \/ m = 2
    OBVIOUS
  <2>2. \A m \in 1 .. 3 - 1 : a[m] = b[m]
    BY <1>3, <2>1
  <2> QED BY <1>3, <2>1, <2>2 DEF Lower
<1> QED BY <1>1, <1>2, <1>3

(* The components of what is left to do. *)
LEMMA StillToDoParts ==
  /\ StillToDo[1] = taker.rem /\ StillToDo[2] = LoopStage
  /\ StillToDo[3] = IF pc = "inner" THEN total - checked ELSE 0
BY DEF StillToDo

(* The same after a step. *)
LEMMA StillToDoPartsNext ==
  /\ StillToDo'[1] = taker'.rem /\ StillToDo'[2] = LoopStage'
  /\ StillToDo'[3] = IF pc' = "inner" THEN total' - checked' ELSE 0
BY DEF StillToDo

(* A level is taken up only when it holds orders. *)
LEMMA ScanLevelAdvances ==
  ASSUME IInv, ScanLevel PROVE taker' = taker /\ LoopStage' < LoopStage
<1>1. taker \in Order /\ IsBest(MakerSide)
  BY MakerSideType DEF IInv, ScanLevel, TypeOK, BestIsBest
<1>2. MakerPrice \in Levels(queues, MakerSide)
  BY <1>1, CrossingLevel DEF ScanLevel, OuterGuard, IInv
<1>3. MakerQueue # <<>> /\ MakerQueue' = MakerQueue
  BY <1>2 DEF ScanLevel, MakerQueue, MakerPrice, MakerSide, Levels, book
<1>4. LoopStage = 2 /\ LoopStage' = 1
  BY <1>3 DEF ScanLevel, LoopStage
<1> QED BY <1>4 DEF ScanLevel

(* A level is left for the outer loop when it is empty, for the end otherwise. *)
LEMMA LeaveLevelAdvances ==
  ASSUME IInv, LeaveLevel PROVE taker' = taker /\ LoopStage' < LoopStage
<1>1. CASE MakerQueue = <<>>
  <2>1. LoopStage = 3 /\ LoopStage' = 2
    BY <1>1 DEF LeaveLevel, LoopStage
  <2> QED BY <2>1 DEF LeaveLevel
<1>2. CASE MakerQueue # <<>>
  <2>1. LoopStage = 1 /\ LoopStage' = 0
    BY <1>2 DEF LeaveLevel, LoopStage
  <2> QED BY <2>1 DEF LeaveLevel
<1> QED BY <1>1, <1>2

(* An own order that is rotated counts, and the level stays as long as it was. *)
LEMMA SkipOwnAdvances ==
  ASSUME IInv, SkipOwn
  PROVE  /\ taker' = taker /\ LoopStage' = LoopStage
         /\ pc = "inner" /\ pc' = "inner"
         /\ total' - checked' < total - checked
<1> DEFINE s == MakerSide
           p == MakerPrice
           q == MakerQueue
           new == Rotate(MakerQueue)
<1>1. /\ s \in Sides /\ p \in Prices /\ q = queues[s][p] /\ q \in Seq(BookOrder)
      /\ total = Len(q) /\ checked \in Nat
  BY InnerFacts DEF SkipOwn
<1>2. q # <<>>
  BY DEF SkipOwn, InnerGuard
<1>3. new \in Seq(BookOrder) /\ Len(new) = Len(q) /\ Len(q) \in Nat
  BY <1>1, <1>2, RotateProperties
<1>4. LevelBecomes(s, p, new)
  BY <1>1 DEF SkipOwn, LevelBecomes
<1>5. MakerSide' = s /\ MakerPrice' = p
  BY DEF SkipOwn, MakerSide, MakerPrice
<1>6. MakerQueue' = queues'[s][p]
  BY <1>5 DEF MakerQueue
<1> HIDE DEF s, p, q, new
<1>7. MakerQueue' = new
  BY <1>1, <1>3, <1>4, <1>6, LevelUpdate DEF IInv
<1>8. new # <<>>
  BY <1>1, <1>2, <1>3
<1>9. LoopStage = 1
  BY <1>2 DEF SkipOwn, LoopStage, q
<1>10. LoopStage' = 1
  BY <1>7, <1>8 DEF SkipOwn, LoopStage
<1> QED BY <1>1, <1>3, <1>9, <1>10 DEF SkipOwn

(* A fill takes something off what the taker wants. *)
LEMMA FillAdvances == ASSUME IInv, Fill PROVE taker'.rem < taker.rem
<1> DEFINE m == Head(MakerQueue)
           n == IF taker.rem < m.qty THEN taker.rem ELSE m.qty
<1>1. taker \in Order /\ MakerQueue \in Seq(BookOrder)
  BY InnerFacts DEF Fill
<1>2. m \in BookOrder /\ taker.rem > 0
  BY <1>1 DEF Fill, InnerGuard
<1>3. n \in Nat \ {0} /\ taker.rem \in Nat
  BY <1>1, <1>2 DEF BookOrder, Order
<1>4. taker' = [taker EXCEPT !.rem = @ - n]
  BY DEF Fill, Record
<1> HIDE DEF n
<1>5. taker'.rem = taker.rem - n
  BY <1>1, <1>4 DEF Order
<1> QED BY <1>3, <1>5

(* No iteration of match_order is idle: each makes a fill, counts an own
   order or leaves a level, so that no match runs through infinitely many. *)
THEOREM MatchDescends == Spec => MatchAdvances
<1>1. IInv /\ [Next]_vars => [Advance]_vars
  <2> SUFFICES ASSUME IInv, Next, pc # "idle", pc' # "idle"
               PROVE  Lower(StillToDo', StillToDo)
    BY DEF Advance
  <2>1. StillToDo \in Nat \X Nat \X Nat
    BY StillToDoType
  <2>2. IInv'
    BY NextInv
  <2>3. StillToDo' \in Nat \X Nat \X Nat
    <3>1. (IInv /\ ~(pc = "idle") => StillToDo \in Nat \X Nat \X Nat)'
      BY StillToDoType, PTL
    <3> QED BY <2>2, <3>1
  <2>4. ScanLevel \/ StopMatch \/ SkipOwn \/ Fill \/ LeaveLevel
    BY DEF Next, MatchStep, BeginMatch, TakeOrder, Cancel, Evict, Finish, ForgetMatch
  <2>5. CASE ScanLevel \/ LeaveLevel
    BY <2>1, <2>3, <2>5, ScanLevelAdvances, LeaveLevelAdvances, Lowered,
       StillToDoParts, StillToDoPartsNext
  <2>6. CASE StopMatch
    <3>1. taker' = taker /\ LoopStage = 2 /\ LoopStage' = 0
      BY <2>6 DEF StopMatch, LoopStage
    <3> QED BY <2>1, <2>3, <3>1, Lowered, StillToDoParts, StillToDoPartsNext
  <2>7. CASE SkipOwn
    BY <2>1, <2>3, <2>7, SkipOwnAdvances, Lowered, StillToDoParts, StillToDoPartsNext
  <2>8. CASE Fill
    BY <2>1, <2>3, <2>8, FillAdvances, Lowered, StillToDoParts, StillToDoPartsNext
  <2> QED BY <2>4, <2>5, <2>6, <2>7, <2>8
<1> QED BY <1>1, Inductive, PTL DEF Spec, MatchAdvances, Advance
=============================================================================
