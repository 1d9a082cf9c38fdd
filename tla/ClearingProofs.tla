--------------------------- MODULE ClearingProofs ---------------------------
(* What each operation of Clearing does to the totals of a ledger: the funds *)
(* of all accounts, the cost of all positions and the shares of each side.   *)
EXTENDS Clearing, CollectionProofs

AccountRow == [avail : Int, frozen : Int]
PositionRow == [vol : Int, cost : Int, pend : Int]
MarketRow == [reserve : Int, pnl : Int, yes : Int, no : Int]

\* The ledgers of the users U
Ledgers(U) ==
  [acc : [U \union {Platform} -> AccountRow],
   pos : [U -> [Outcomes -> PositionRow]],
   mkt : MarketRow]

(* How far a ledger is from what its totals must satisfy: the shares of each
   side against the market's count, the costs and pnl_pool against the
   reserve, the reserve against the pairs. *)
Count(L, s) == IF s = "YES" THEN L.mkt.yes ELSE L.mkt.no
ShareGap(L, s) == TotalShares(L, s) - Count(L, s)
CostGap(L) == TotalCost(L) + L.mkt.pnl - L.mkt.reserve
ReserveGap(L) == L.mkt.reserve - Par * L.mkt.yes
PairGap(L) == L.mkt.yes - L.mkt.no

Books(L) ==
  /\ \A s \in Outcomes : TotalShares(L, s) = Count(L, s)
  /\ TotalCost(L) + L.mkt.pnl = L.mkt.reserve
  /\ L.mkt.reserve = Par * L.mkt.yes
  /\ L.mkt.yes = L.mkt.no

\* M has the assets of L and these more, and its gaps have grown by as much.
Shifted(L, M, assets, cost, yes, no) ==
  /\ TotalAssets(M) = TotalAssets(L) + assets
  /\ CostGap(M) = CostGap(L) + cost
  /\ ShareGap(M, "YES") = ShareGap(L, "YES") + yes
  /\ ShareGap(M, "NO") = ShareGap(L, "NO") + no
  /\ ReserveGap(M) = ReserveGap(L)
  /\ PairGap(M) = PairGap(L)

(* The totals of a ledger are integers. *)
LEMMA TotalsAreInts ==
  ASSUME NEW U, IsFiniteSet(U), NEW L \in Ledgers(U)
  PROVE  /\ TotalFunds(L) \in Int /\ TotalCost(L) \in Int
         /\ \A s \in Outcomes : TotalShares(L, s) \in Int
<1>1. DOMAIN L.acc = U \union {Platform} /\ DOMAIN L.pos = U
  BY DEF Ledgers
<1>2. IsFiniteSet(U \union {Platform})
  BY FS_AddElement
<1>3. TotalFunds(L) \in Int
  <2> DEFINE f == [u \in DOMAIN L.acc |-> L.acc[u].avail + L.acc[u].frozen]
  <2>1. \A u \in U \union {Platform} : f[u] \in Int
    BY <1>1 DEF Ledgers, AccountRow
  <2> HIDE DEF f
  <2>2. SumOver(f, U \union {Platform}) \in Int
    BY <1>2, <2>1, SumInt
  <2> QED BY <1>1, <2>2 DEF TotalFunds, f
<1>4. TotalCost(L) \in Int
  <2> DEFINE f == [u \in DOMAIN L.pos |-> L.pos[u]["YES"].cost + L.pos[u]["NO"].cost]
  <2>1. \A u \in U : f[u] \in Int
    BY <1>1 DEF Ledgers, PositionRow, Outcomes
  <2> HIDE DEF f
  <2>2. SumOver(f, U) \in Int
    BY <2>1, SumInt
  <2> QED BY <1>1, <2>2 DEF TotalCost, f
<1>5. ASSUME NEW s \in Outcomes PROVE TotalShares(L, s) \in Int
  <2> DEFINE f == [u \in DOMAIN L.pos |-> L.pos[u][s].vol]
  <2>1. \A u \in U : f[u] \in Int
    BY <1>1 DEF Ledgers, PositionRow
  <2> HIDE DEF f
  <2>2. SumOver(f, U) \in Int
    BY <2>1, SumInt
  <2> QED BY <1>1, <2>2 DEF TotalShares, f
<1> QED BY <1>3, <1>4, <1>5

(* So are its assets and its gaps. *)
LEMMA GapsAreInts ==
  ASSUME NEW U, IsFiniteSet(U), NEW L \in Ledgers(U)
  PROVE  /\ TotalAssets(L) \in Int /\ CostGap(L) \in Int /\ ReserveGap(L) \in Int
         /\ PairGap(L) \in Int /\ ShareGap(L, "YES") \in Int /\ ShareGap(L, "NO") \in Int
<1>1. /\ L.mkt.reserve \in Int /\ L.mkt.pnl \in Int /\ L.mkt.yes \in Int /\ L.mkt.no \in Int
  BY DEF Ledgers, MarketRow
<1>2. /\ TotalFunds(L) \in Int /\ TotalCost(L) \in Int
      /\ TotalShares(L, "YES") \in Int /\ TotalShares(L, "NO") \in Int
  BY TotalsAreInts DEF Outcomes
<1>3. Par * L.mkt.yes \in Int
  BY <1>1, ParAssumption
<1> QED BY <1>1, <1>2, <1>3 DEF TotalAssets, CostGap, ReserveGap, PairGap, ShareGap, Count

(* A ledger without gaps is balanced, and the other way round. *)
LEMMA BooksAreGapless ==
  ASSUME NEW U, IsFiniteSet(U), NEW L \in Ledgers(U)
  PROVE  Books(L) <=> /\ CostGap(L) = 0 /\ ReserveGap(L) = 0 /\ PairGap(L) = 0
                      /\ ShareGap(L, "YES") = 0 /\ ShareGap(L, "NO") = 0
<1>1. /\ L.mkt.reserve \in Int /\ L.mkt.pnl \in Int /\ L.mkt.yes \in Int /\ L.mkt.no \in Int
  BY DEF Ledgers, MarketRow
<1>2. /\ TotalCost(L) \in Int
      /\ TotalShares(L, "YES") \in Int /\ TotalShares(L, "NO") \in Int
  BY TotalsAreInts DEF Outcomes
<1>3. Par * L.mkt.yes \in Int
  BY <1>1, ParAssumption
<1> QED BY <1>1, <1>2, <1>3 DEF Books, CostGap, ReserveGap, PairGap, ShareGap, Count, Outcomes

(* Two changes add up. *)
LEMMA ShiftsAddUp ==
  ASSUME NEW U, IsFiniteSet(U), NEW L \in Ledgers(U), NEW M, NEW N,
         NEW a \in Int, NEW b \in Int, NEW c \in Int, NEW d \in Int,
         NEW e \in Int, NEW f \in Int, NEW g \in Int, NEW h \in Int,
         Shifted(L, M, a, b, c, d), Shifted(M, N, e, f, g, h)
  PROVE  Shifted(L, N, a + e, b + f, c + g, d + h)
BY GapsAreInts DEF Shifted

(* A change that shifts nothing keeps the books and the assets. *)
LEMMA UnshiftedBooks ==
  ASSUME NEW U, IsFiniteSet(U), NEW L \in Ledgers(U), NEW M \in Ledgers(U),
         NEW a \in Int, Shifted(L, M, a, 0, 0, 0)
  PROVE  Books(L) => Books(M)
<1>1. /\ CostGap(M) = CostGap(L) /\ ReserveGap(M) = ReserveGap(L) /\ PairGap(M) = PairGap(L)
      /\ ShareGap(M, "YES") = ShareGap(L, "YES") /\ ShareGap(M, "NO") = ShareGap(L, "NO")
  BY GapsAreInts DEF Shifted
<1> QED BY <1>1, BooksAreGapless

-----------------------------------------------------------------------------
(* An UPDATE of accounts. *)
LEMMA CreditShifts ==
  ASSUME NEW U, IsFiniteSet(U), NEW L \in Ledgers(U), NEW u \in U \union {Platform},
         NEW x \in Int, NEW y \in Int
  PROVE  LET M == Credit(L, u, x, y)
         IN M \in Ledgers(U) /\ Shifted(L, M, x + y, 0, 0, 0)
<1> DEFINE M == Credit(L, u, x, y)
           S == U \union {Platform}
           row == [avail |-> L.acc[u].avail + x, frozen |-> L.acc[u].frozen + y]
           A == [L.acc EXCEPT ![u] = row]
           f == [v \in S |-> L.acc[v].avail + L.acc[v].frozen]
           g == [v \in S |-> A[v].avail + A[v].frozen]
<1>1. M = [acc |-> A, pos |-> L.pos, mkt |-> L.mkt]
  BY DEF Credit, Ledgers
<1>2. L.acc \in [S -> AccountRow] /\ DOMAIN L.acc = S /\ u \in S
  BY DEF Ledgers
<1>3. row \in AccountRow /\ L.acc[u].avail \in Int /\ L.acc[u].frozen \in Int
  BY <1>2 DEF AccountRow
<1>4. A \in [S -> AccountRow] /\ DOMAIN A = S
  BY <1>2, <1>3
<1>5. M \in Ledgers(U)
  <2> HIDE DEF M, A
  <2> QED BY <1>1, <1>4 DEF Ledgers
<1>6. IsFiniteSet(S)
  BY FS_AddElement
<1>7. \A v \in S : f[v] \in Int /\ g[v] \in Int
  BY <1>2, <1>4 DEF AccountRow
<1>8. \A v \in S : v # u => g[v] = f[v]
  BY <1>2
<1>9. f[u] = L.acc[u].avail + L.acc[u].frozen /\ g[u] = f[u] + (x + y)
  BY <1>2, <1>3
<1>10. TotalFunds(L) = SumOver(f, S) /\ TotalFunds(M) = SumOver(g, S)
  BY <1>1, <1>2, <1>4 DEF TotalFunds
<1>11. M.pos = L.pos /\ M.mkt = L.mkt
  BY <1>1
<1> HIDE DEF M, f, g, S, A
<1>12. SumOver(g, S) = SumOver(f, S) + g[u] - f[u] /\ SumOver(f, S) \in Int
  BY <1>2, <1>6, <1>7, <1>8, SumUpdate, SumInt
<1>13. TotalFunds(M) = TotalFunds(L) + (x + y)
  BY <1>2, <1>7, <1>9, <1>10, <1>12
<1>14. TotalCost(M) = TotalCost(L) /\ \A s : TotalShares(M, s) = TotalShares(L, s)
  BY <1>11 DEF TotalCost, TotalShares
<1>15. TotalFunds(L) \in Int /\ L.mkt.reserve \in Int
  BY TotalsAreInts DEF Ledgers, MarketRow
<1>16. Shifted(L, M, x + y, 0, 0, 0)
  BY <1>11, <1>13, <1>14, <1>15, GapsAreInts
     DEF Shifted, TotalAssets, CostGap, ShareGap, Count, ReserveGap, PairGap
<1> QED BY <1>5, <1>16 DEF M

(* An UPDATE of one side of positions. *)
LEMMA HoldShifts ==
  ASSUME NEW U, IsFiniteSet(U), NEW L \in Ledgers(U), NEW u \in U, NEW s \in Outcomes,
         NEW x \in Int, NEW y \in Int, NEW z \in Int
  PROVE  LET M == Hold(L, u, s, x, y, z)
         IN /\ M \in Ledgers(U)
            /\ Shifted(L, M, 0, y, IF s = "YES" THEN x ELSE 0, IF s = "NO" THEN x ELSE 0)
<1> DEFINE M == Hold(L, u, s, x, y, z)
           row == [vol |-> L.pos[u][s].vol + x, cost |-> L.pos[u][s].cost + y,
                   pend |-> L.pos[u][s].pend + z]
           P == [L.pos EXCEPT ![u][s] = row]
<1>1. M = [acc |-> L.acc, pos |-> P, mkt |-> L.mkt]
  <2>1. M = [L EXCEPT !.pos[u][s] = row]
    BY Zenon DEF Hold
  <2> HIDE DEF M, row
  <2> QED BY <2>1 DEF Ledgers
<1>2. L.pos \in [U -> [Outcomes -> PositionRow]] /\ DOMAIN L.pos = U /\ L.pos[u][s] \in PositionRow
  BY DEF Ledgers
<1>3. /\ row \in PositionRow
      /\ \A v \in U, t \in Outcomes : L.pos[v][t].vol \in Int /\ L.pos[v][t].cost \in Int
  BY <1>2 DEF PositionRow
<1>4. P \in [U -> [Outcomes -> PositionRow]] /\ DOMAIN P = U
  BY <1>2, <1>3
<1>5. /\ P[u][s] = row /\ \A t \in Outcomes : t # s => P[u][t] = L.pos[u][t]
      /\ \A v \in U : v # u => P[v] = L.pos[v]
  BY <1>2
<1>6. row.vol = L.pos[u][s].vol + x /\ row.cost = L.pos[u][s].cost + y
  OBVIOUS
<1>7. M \in Ledgers(U) /\ M.acc = L.acc /\ M.pos = P /\ M.mkt = L.mkt
  <2> HIDE DEF M, P
  <2> QED BY <1>1, <1>4 DEF Ledgers
<1> HIDE DEF M, P, row
<1>8. TotalCost(M) = TotalCost(L) + y
  <2> DEFINE f == [v \in U |-> L.pos[v]["YES"].cost + L.pos[v]["NO"].cost]
             g == [v \in U |-> P[v]["YES"].cost + P[v]["NO"].cost]
  <2>1. \A v \in U : f[v] \in Int
    BY <1>3 DEF Outcomes
  <2>2. \A v \in U : v # u => g[v] = f[v]
    BY <1>5
  <2>3. g[u] = f[u] + y
    BY <1>3, <1>5, <1>6 DEF Outcomes
  <2>4. TotalCost(L) = SumOver(f, U) /\ TotalCost(M) = SumOver(g, U)
    BY <1>2, <1>4, <1>7 DEF TotalCost
  <2> HIDE DEF f, g
  <2>5. SumOver(g, U) = SumOver(f, U) + g[u] - f[u] /\ SumOver(f, U) \in Int
    BY <2>1, <2>2, <2>3, SumUpdate, SumInt
  <2> QED BY <2>1, <2>3, <2>4, <2>5
<1>9. ASSUME NEW t \in Outcomes
      PROVE  TotalShares(M, t) = TotalShares(L, t) + (IF s = t THEN x ELSE 0)
  <2> DEFINE f == [v \in U |-> L.pos[v][t].vol]
             g == [v \in U |-> P[v][t].vol]
  <2>1. \A v \in U : f[v] \in Int
    BY <1>3
  <2>2. \A v \in U : v # u => g[v] = f[v]
    BY <1>5
  <2>3. g[u] = f[u] + (IF s = t THEN x ELSE 0)
    BY <1>3, <1>5, <1>6
  <2>4. TotalShares(L, t) = SumOver(f, U) /\ TotalShares(M, t) = SumOver(g, U)
    BY <1>2, <1>4, <1>7 DEF TotalShares
  <2> HIDE DEF f, g
  <2>5. SumOver(g, U) = SumOver(f, U) + g[u] - f[u] /\ SumOver(f, U) \in Int
    BY <2>1, <2>2, <2>3, SumUpdate, SumInt
  <2> QED BY <2>1, <2>3, <2>4, <2>5
<1>10. TotalFunds(M) = TotalFunds(L)
  BY <1>7 DEF TotalFunds
<1>11. /\ L.mkt.reserve \in Int /\ L.mkt.pnl \in Int /\ L.mkt.yes \in Int /\ L.mkt.no \in Int
  BY DEF Ledgers, MarketRow
<1>12. /\ TotalFunds(L) \in Int /\ TotalCost(L) \in Int
      /\ TotalShares(L, "YES") \in Int /\ TotalShares(L, "NO") \in Int
  BY TotalsAreInts DEF Outcomes
<1>13. /\ TotalShares(M, "YES") = TotalShares(L, "YES") + (IF s = "YES" THEN x ELSE 0)
       /\ TotalShares(M, "NO") = TotalShares(L, "NO") + (IF s = "NO" THEN x ELSE 0)
  BY <1>9 DEF Outcomes
<1>14. Shifted(L, M, 0, y, IF s = "YES" THEN x ELSE 0, IF s = "NO" THEN x ELSE 0)
  BY <1>7, <1>8, <1>10, <1>11, <1>12, <1>13
     DEF Shifted, TotalAssets, CostGap, ShareGap, Count, ReserveGap, PairGap
<1> QED BY <1>7, <1>14 DEF M

(* A change of the MarketState that keeps the reserve in step with the pairs. *)
LEMMA TallyShifts ==
  ASSUME NEW U, IsFiniteSet(U), NEW L \in Ledgers(U), NEW p \in Int, NEW k \in Int
  PROVE  LET M == Tally(L, Par * k, p, k)
         IN /\ M \in Ledgers(U) /\ Par * k \in Int
            /\ Shifted(L, M, Par * k, p - Par * k, -k, -k)
<1> DEFINE M == Tally(L, Par * k, p, k)
           m == [reserve |-> L.mkt.reserve + Par * k, pnl |-> L.mkt.pnl + p,
                 yes |-> L.mkt.yes + k, no |-> L.mkt.no + k]
<1>1. /\ L.mkt.reserve \in Int /\ L.mkt.pnl \in Int /\ L.mkt.yes \in Int /\ L.mkt.no \in Int
  BY DEF Ledgers, MarketRow
<1>2. Par * k \in Int /\ Par * L.mkt.yes \in Int
      /\ Par * (L.mkt.yes + k) = Par * L.mkt.yes + Par * k
  BY <1>1, ParAssumption
<1>3. M = [acc |-> L.acc, pos |-> L.pos, mkt |-> m]
  BY DEF Tally, Ledgers
<1>4. m \in MarketRow
  BY <1>1, <1>2 DEF MarketRow
<1>5. /\ m.reserve = L.mkt.reserve + Par * k /\ m.pnl = L.mkt.pnl + p
      /\ m.yes = L.mkt.yes + k /\ m.no = L.mkt.no + k
  OBVIOUS
<1> HIDE DEF M, m
<1>6. M \in Ledgers(U) /\ M.acc = L.acc /\ M.pos = L.pos /\ M.mkt = m
  BY <1>3, <1>4 DEF Ledgers
<1>7. /\ TotalFunds(M) = TotalFunds(L) /\ TotalCost(M) = TotalCost(L)
      /\ \A s : TotalShares(M, s) = TotalShares(L, s)
  BY <1>6 DEF TotalFunds, TotalCost, TotalShares
<1>8. /\ TotalFunds(L) \in Int /\ TotalCost(L) \in Int
      /\ TotalShares(L, "YES") \in Int /\ TotalShares(L, "NO") \in Int
  BY TotalsAreInts DEF Outcomes
<1>9. Shifted(L, M, Par * k, p - Par * k, -k, -k)
  <2> DEFINE r == Par * k
  <2>1. TotalAssets(M) = TotalAssets(L) + r /\ CostGap(M) = CostGap(L) + (p - r)
    <3> HIDE DEF r
    <3>1. m.reserve = L.mkt.reserve + r /\ r \in Int
      BY <1>2, <1>5 DEF r
    <3> QED BY <1>1, <1>5, <1>6, <1>7, <1>8, <3>1 DEF TotalAssets, CostGap
  <2>2. ReserveGap(M) = ReserveGap(L)
    BY <1>1, <1>2, <1>5, <1>6 DEF ReserveGap
  <2>3. /\ ShareGap(M, "YES") = ShareGap(L, "YES") + (-k) /\ ShareGap(M, "NO") = ShareGap(L, "NO") + (-k)
        /\ PairGap(M) = PairGap(L)
    BY <1>1, <1>5, <1>6, <1>7, <1>8 DEF ShareGap, Count, PairGap
  <2> QED BY <2>1, <2>2, <2>3 DEF Shifted
<1> QED BY <1>2, <1>6, <1>9 DEF M

(* A realised profit alone. *)
LEMMA ProfitShifts ==
  ASSUME NEW U, IsFiniteSet(U), NEW L \in Ledgers(U), NEW p \in Int
  PROVE  LET M == Tally(L, 0, p, 0)
         IN M \in Ledgers(U) /\ Shifted(L, M, 0, p, 0, 0)
<1>1. PICK k \in Int : k <= 0 /\ k >= 0
  OBVIOUS
<1> DEFINE M == Tally(L, Par * k, p, k)
<1>2. M \in Ledgers(U) /\ Shifted(L, M, Par * k, p - Par * k, -k, -k)
  BY TallyShifts
<1>3. k = 0 /\ -k = 0
  BY <1>1
<1>4. Par * k = 0
  BY <1>3, ParAssumption
<1>5. p - Par * k = p
  BY <1>4
<1> QED BY <1>2, <1>3, <1>4, <1>5

-----------------------------------------------------------------------------
(* One party pays for shares out of its frozen funds. *)
LEMMA AcquireShifts ==
  ASSUME NEW U, IsFiniteSet(U), NEW L \in Ledgers(U), NEW u \in U, NEW s \in Outcomes,
         NEW price \in Int, NEW qty \in Int
  PROVE  LET M == Acquire(L, u, s, price, qty)
             value == PriceOf(s, price) * qty
         IN /\ M \in Ledgers(U) /\ value \in Int
            /\ Shifted(L, M, -value, value,
                       IF s = "YES" THEN qty ELSE 0, IF s = "NO" THEN qty ELSE 0)
<1> DEFINE value == PriceOf(s, price) * qty
           K == Credit(L, u, 0, -value)
           M == Hold(K, u, s, qty, value, 0)
           y == IF s = "YES" THEN qty ELSE 0
           n == IF s = "NO" THEN qty ELSE 0
<1>1. value \in Int
  BY ParAssumption DEF PriceOf
<1>2. Acquire(L, u, s, price, qty) = M
  BY DEF Acquire
<1>3. y \in Int /\ n \in Int
  OBVIOUS
<1> HIDE DEF value
<1>4. K \in Ledgers(U) /\ Shifted(L, K, 0 + (-value), 0, 0, 0)
  BY <1>1, CreditShifts
<1> HIDE DEF K
<1>5. M \in Ledgers(U) /\ Shifted(K, M, 0, value, y, n)
  BY <1>1, <1>4, HoldShifts
<1> HIDE DEF M, y, n
<1>6. Shifted(L, M, (0 + (-value)) + 0, 0 + value, 0 + y, 0 + n)
  BY <1>1, <1>3, <1>4, <1>5, ShiftsAddUp
<1>7. Shifted(L, M, -value, value, y, n)
  BY <1>1, <1>3, <1>6
<1> QED BY <1>1, <1>2, <1>5, <1>7 DEF value, y, n

(* The part of a cost that leaves with a number of shares is an integer. *)
LEMMA ReleasedInt ==
  ASSUME NEW p \in PositionRow, NEW qty \in Nat \ {0}
  PROVE  ReleasedCost(p, qty) \in Int
<1>1. CASE qty >= p.vol
  BY <1>1 DEF ReleasedCost, PositionRow
<1>2. CASE ~(qty >= p.vol)
  <2>1. p.vol \in Nat \ {0} /\ p.cost * qty \in Int
    BY <1>2 DEF PositionRow
  <2>2. (p.cost * qty) \div p.vol \in Int
    BY <2>1
  <2> QED BY <1>2, <2>2 DEF ReleasedCost
<1> QED BY <1>1, <1>2

(* One party is paid for shares; what it gains on them leaves pnl_pool. *)
LEMMA DisposeShifts ==
  ASSUME NEW U, IsFiniteSet(U), NEW L \in Ledgers(U), NEW u \in U, NEW s \in Outcomes,
         NEW price \in Int, NEW qty \in Nat \ {0}
  PROVE  LET M == Dispose(L, u, s, price, qty)
             value == PriceOf(s, price) * qty
         IN /\ M \in Ledgers(U) /\ value \in Int
            /\ Shifted(L, M, value, -value,
                       IF s = "YES" THEN -qty ELSE 0, IF s = "NO" THEN -qty ELSE 0)
<1> DEFINE value == PriceOf(s, price) * qty
           released == ReleasedCost(L.pos[u][s], qty)
           K == Hold(L, u, s, -qty, -released, -qty)
           J == Credit(K, u, value, 0)
           M == Tally(J, 0, -(value - released), 0)
           y == IF s = "YES" THEN -qty ELSE 0
           n == IF s = "NO" THEN -qty ELSE 0
<1>1. value \in Int /\ released \in Int
  <2>1. L.pos[u][s] \in PositionRow
    BY DEF Ledgers
  <2> QED BY <2>1, ReleasedInt, ParAssumption DEF PriceOf
<1>2. Dispose(L, u, s, price, qty) = M
  BY DEF Dispose
<1>3. y \in Int /\ n \in Int
  OBVIOUS
<1> HIDE DEF value, released
<1>4. K \in Ledgers(U) /\ Shifted(L, K, 0, -released, y, n)
  BY <1>1, HoldShifts
<1> HIDE DEF K
<1>5. J \in Ledgers(U) /\ Shifted(K, J, value + 0, 0, 0, 0)
  BY <1>1, <1>4, CreditShifts
<1> HIDE DEF J
<1>7. M \in Ledgers(U) /\ Shifted(J, M, 0, -(value - released), 0, 0)
  BY <1>1, <1>5, ProfitShifts
<1> HIDE DEF M, y, n
<1>8. Shifted(L, J, 0 + (value + 0), -released + 0, y + 0, n + 0)
  BY <1>1, <1>3, <1>4, <1>5, ShiftsAddUp
<1>9. Shifted(L, J, value, -released, y, n)
  BY <1>1, <1>3, <1>8
<1>10. Shifted(L, M, value + 0, -released + (-(value - released)), y + 0, n + 0)
  BY <1>1, <1>3, <1>7, <1>9, ShiftsAddUp
<1>11. Shifted(L, M, value, -value, y, n)
  BY <1>1, <1>3, <1>10
<1> QED BY <1>1, <1>2, <1>7, <1>11 DEF value, y, n

(* Pairs that come into being are covered by the reserve. *)
LEMMA IssueShifts ==
  ASSUME NEW U, IsFiniteSet(U), NEW L \in Ledgers(U), NEW k \in Int
  PROVE  LET M == Issue(L, k)
         IN /\ M \in Ledgers(U) /\ Par * k \in Int
            /\ Shifted(L, M, Par * k, -(Par * k), -k, -k)
<1>1. LET M == Tally(L, Par * k, 0, k)
      IN M \in Ledgers(U) /\ Par * k \in Int /\ Shifted(L, M, Par * k, 0 - Par * k, -k, -k)
  BY TallyShifts
<1>2. 0 - Par * k = -(Par * k)
  BY <1>1
<1> QED BY <1>1, <1>2 DEF Issue

-----------------------------------------------------------------------------
TradeOf(U, T) ==
  [buyUser : U, sellUser : U, buyType : T, sellType : T,
   price : Int, qty : Nat \ {0}, buyOriginalPrice : Int]

(* The prices of the two sides of a pair add up to Par. *)
LEMMA PricesAddUp ==
  ASSUME NEW price \in Int, NEW qty \in Int
  PROVE  /\ PriceOf("YES", price) * qty \in Int /\ PriceOf("NO", price) * qty \in Int
         /\ Par * qty \in Int
         /\ PriceOf("YES", price) * qty + PriceOf("NO", price) * qty = Par * qty
<1>1. PriceOf("YES", price) = price /\ PriceOf("NO", price) = Par - price
  BY DEF PriceOf
<1>2. (Par - price) * qty = Par * qty - price * qty /\ price * qty \in Int /\ Par * qty \in Int
  BY ParAssumption
<1> QED BY <1>1, <1>2

(* A trade keeps the books and moves nothing in or out: the four scenarios. *)
LEMMA TradeBalanced ==
  ASSUME NEW U, IsFiniteSet(U), NEW L \in Ledgers(U), NEW T, NEW t \in TradeOf(U, T)
  PROVE  LET M == settle_trade(L, t)
         IN M \in Ledgers(U) /\ Shifted(L, M, 0, 0, 0, 0)
<1> DEFINE b == t.buyUser
           s == t.sellUser
           p == t.price
           q == t.qty
           Y == PriceOf("YES", p) * q
           N == PriceOf("NO", p) * q
           R == Par * q
<1>1. b \in U /\ s \in U /\ p \in Int /\ q \in Nat \ {0} /\ q \in Int /\ -q \in Int
  BY DEF TradeOf
<1>2. Y \in Int /\ N \in Int /\ R \in Int /\ Y + N = R
  BY <1>1, PricesAddUp
<1>3. "YES" \in Outcomes /\ "NO" \in Outcomes
  BY DEF Outcomes
<1>4. -(-q) = q /\ Par * (-q) = -R
  BY <1>1, ParAssumption
<1>5. ASSUME NEW K \in Ledgers(U), NEW u \in U
      PROVE  /\ Acquire(K, u, "YES", p, q) \in Ledgers(U)
             /\ Shifted(K, Acquire(K, u, "YES", p, q), -Y, Y, q, 0)
             /\ Acquire(K, u, "NO", p, q) \in Ledgers(U)
             /\ Shifted(K, Acquire(K, u, "NO", p, q), -N, N, 0, q)
             /\ Dispose(K, u, "YES", p, q) \in Ledgers(U)
             /\ Shifted(K, Dispose(K, u, "YES", p, q), Y, -Y, -q, 0)
             /\ Dispose(K, u, "NO", p, q) \in Ledgers(U)
             /\ Shifted(K, Dispose(K, u, "NO", p, q), N, -N, 0, -q)
  BY <1>1, <1>3, AcquireShifts, DisposeShifts
<1>6. ASSUME NEW K \in Ledgers(U), NEW k \in Int
      PROVE  Issue(K, k) \in Ledgers(U) /\ Shifted(K, Issue(K, k), Par * k, -(Par * k), -k, -k)
  BY IssueShifts
<1>7. clear_mint(L, t) \in Ledgers(U) /\ Shifted(L, clear_mint(L, t), 0, 0, 0, 0)
  <2> DEFINE K == Acquire(L, b, "YES", p, q)
             J == Acquire(K, s, "NO", p, q)
             M == Issue(J, q)
  <2>1. K \in Ledgers(U) /\ Shifted(L, K, -Y, Y, q, 0)
    BY <1>1, <1>5
  <2> HIDE DEF K
  <2>2. J \in Ledgers(U) /\ Shifted(K, J, -N, N, 0, q)
    BY <1>1, <1>5, <2>1
  <2> HIDE DEF J
  <2>3. M \in Ledgers(U) /\ Shifted(J, M, R, -R, -q, -q)
    BY <1>1, <1>6, <2>2
  <2> HIDE DEF M, Y, N, R
  <2>4. Shifted(L, J, -Y + (-N), Y + N, q + 0, 0 + q)
    BY <1>1, <1>2, <2>1, <2>2, ShiftsAddUp
  <2>5. Shifted(L, J, -R, R, q, q)
    BY <1>1, <1>2, <2>4
  <2>6. Shifted(L, M, -R + R, R + (-R), q + (-q), q + (-q))
    BY <1>1, <1>2, <2>3, <2>5, ShiftsAddUp
  <2>7. Shifted(L, M, 0, 0, 0, 0)
    BY <1>1, <1>2, <2>6
  <2> QED BY <2>3, <2>7 DEF clear_mint, K, J, M
<1>8. clear_transfer_yes(L, t) \in Ledgers(U) /\ Shifted(L, clear_transfer_yes(L, t), 0, 0, 0, 0)
  <2> DEFINE K == Acquire(L, b, "YES", p, q)
             M == Dispose(K, s, "YES", p, q)
  <2>1. K \in Ledgers(U) /\ Shifted(L, K, -Y, Y, q, 0)
    BY <1>1, <1>5
  <2> HIDE DEF K
  <2>2. M \in Ledgers(U) /\ Shifted(K, M, Y, -Y, -q, 0)
    BY <1>1, <1>5, <2>1
  <2> HIDE DEF M, Y, N, R
  <2>3. Shifted(L, M, -Y + Y, Y + (-Y), q + (-q), 0 + 0)
    BY <1>1, <1>2, <2>1, <2>2, ShiftsAddUp
  <2>4. Shifted(L, M, 0, 0, 0, 0)
    BY <1>1, <1>2, <2>3
  <2> QED BY <2>2, <2>4 DEF clear_transfer_yes, K, M
<1>9. clear_transfer_no(L, t) \in Ledgers(U) /\ Shifted(L, clear_transfer_no(L, t), 0, 0, 0, 0)
  <2> DEFINE K == Acquire(L, s, "NO", p, q)
             M == Dispose(K, b, "NO", p, q)
  <2>1. K \in Ledgers(U) /\ Shifted(L, K, -N, N, 0, q)
    BY <1>1, <1>5
  <2> HIDE DEF K
  <2>2. M \in Ledgers(U) /\ Shifted(K, M, N, -N, 0, -q)
    BY <1>1, <1>5, <2>1
  <2> HIDE DEF M, Y, N, R
  <2>3. Shifted(L, M, -N + N, N + (-N), 0 + 0, q + (-q))
    BY <1>1, <1>2, <2>1, <2>2, ShiftsAddUp
  <2>4. Shifted(L, M, 0, 0, 0, 0)
    BY <1>1, <1>2, <2>3
  <2> QED BY <2>2, <2>4 DEF clear_transfer_no, K, M
<1>10. clear_burn(L, t) \in Ledgers(U) /\ Shifted(L, clear_burn(L, t), 0, 0, 0, 0)
  <2> DEFINE K == Dispose(L, s, "YES", p, q)
             J == Dispose(K, b, "NO", p, q)
             M == Issue(J, -q)
  <2>1. K \in Ledgers(U) /\ Shifted(L, K, Y, -Y, -q, 0)
    BY <1>1, <1>5
  <2> HIDE DEF K
  <2>2. J \in Ledgers(U) /\ Shifted(K, J, N, -N, 0, -q)
    BY <1>1, <1>5, <2>1
  <2> HIDE DEF J
  <2>3. M \in Ledgers(U) /\ Shifted(J, M, -R, -(-R), q, q)
    BY <1>1, <1>4, <1>6, <2>2
  <2> HIDE DEF M, Y, N, R
  <2>4. Shifted(L, J, Y + N, -Y + (-N), -q + 0, 0 + (-q))
    BY <1>1, <1>2, <2>1, <2>2, ShiftsAddUp
  <2>5. Shifted(L, J, R, -R, -q, -q) /\ -(-R) = R
    BY <1>1, <1>2, <2>4
  <2>6. Shifted(L, M, R + (-R), -R + R, -q + q, -q + q)
    BY <1>1, <1>2, <2>3, <2>5, ShiftsAddUp
  <2>7. Shifted(L, M, 0, 0, 0, 0)
    BY <1>1, <1>2, <2>6
  <2> QED BY <2>3, <2>7 DEF clear_burn, K, J, M
<1>11. settle_trade(L, t) \in {clear_mint(L, t), clear_transfer_yes(L, t),
                              clear_transfer_no(L, t), clear_burn(L, t)}
  BY DEF settle_trade
<1> QED BY <1>7, <1>8, <1>9, <1>10, <1>11

-----------------------------------------------------------------------------
(* A fee rounds up to a natural number. *)
LEMMA FeeIsNat ==
  ASSUME NEW value \in Int, NEW bps \in Nat
  PROVE  BpsOf(value, bps) \in Int /\ (value >= 0 => BpsOf(value, bps) \in Nat)
<1>1. value * bps \in Int /\ (value >= 0 => value * bps >= 0)
  OBVIOUS
<1> DEFINE x == value * bps
<1> HIDE DEF x
<1>2. x \in Int => (x + 9999) \div 10000 \in Int /\ (x >= 0 => (x + 9999) \div 10000 \in Nat)
  OBVIOUS
<1> QED BY <1>1, <1>2 DEF BpsOf, x

(* A fee moves between accounts; at the default rate nothing is lost. *)
LEMMA FeeBalanced ==
  ASSUME NEW U, IsFiniteSet(U), NEW L \in Ledgers(U), NEW u \in U, NEW type,
         NEW base \in Int
  PROVE  LET M == collect_fee(L, u, type, base)
         IN /\ M \in Ledgers(U)
            /\ \E a \in Int : Shifted(L, M, a, 0, 0, 0) /\ (FeeBps = FreezeBps => a = 0)
<1> DEFINE fee == calc_fee(base)
           max == calc_max_fee(base)
           K == IF PaysFunds(type) THEN Credit(L, u, max - fee, -fee) ELSE Credit(L, u, -fee, 0)
           M == Credit(K, Platform, fee, 0)
<1>1. fee \in Int /\ max \in Int /\ (FeeBps = FreezeBps => max = fee)
  BY FeeIsNat, FeeBpsAssumption, FreezeBpsAssumption DEF calc_fee, calc_max_fee
<1>2. collect_fee(L, u, type, base) = M
  BY DEF collect_fee
<1> HIDE DEF fee, max
<1>3. PICK c \in Int : /\ K \in Ledgers(U) /\ Shifted(L, K, c, 0, 0, 0)
                       /\ (FeeBps = FreezeBps => c = -fee)
  <2>1. CASE PaysFunds(type)
    <3>1. K \in Ledgers(U) /\ Shifted(L, K, (max - fee) + (-fee), 0, 0, 0)
      BY <1>1, <2>1, CreditShifts
    <3>2. (max - fee) + (-fee) \in Int /\ (FeeBps = FreezeBps => (max - fee) + (-fee) = -fee)
      BY <1>1
    <3> QED BY <3>1, <3>2
  <2>2. CASE ~PaysFunds(type)
    <3>1. K \in Ledgers(U) /\ Shifted(L, K, -fee + 0, 0, 0, 0)
      BY <1>1, <2>2, CreditShifts
    <3>2. -fee + 0 = -fee /\ -fee \in Int
      BY <1>1
    <3> QED BY <3>1, <3>2
  <2> QED BY <2>1, <2>2
<1> HIDE DEF K
<1>4. M \in Ledgers(U) /\ Shifted(K, M, fee + 0, 0, 0, 0)
  <2>1. ASSUME NEW a \in U \union {Platform}
        PROVE  Credit(K, a, fee, 0) \in Ledgers(U) /\ Shifted(K, Credit(K, a, fee, 0), fee + 0, 0, 0, 0)
    BY <1>1, <1>3, CreditShifts
  <2>2. Platform \in U \union {Platform}
    OBVIOUS
  <2> QED BY <2>1, <2>2, Zenon
<1> HIDE DEF M
<1>5. Shifted(L, M, c + (fee + 0), 0 + 0, 0 + 0, 0 + 0)
  BY <1>1, <1>3, <1>4, ShiftsAddUp
<1>6. Shifted(L, M, c + fee, 0, 0, 0) /\ c + fee \in Int /\ (FeeBps = FreezeBps => c + fee = 0)
  BY <1>1, <1>3, <1>5
<1> QED BY <1>2, <1>4, <1>6

(* Netting turns a user's pairs into money. *)
LEMMA NettingBalanced ==
  ASSUME NEW U, IsFiniteSet(U), NEW L \in Ledgers(U), NEW u \in U
  PROVE  LET M == execute_netting(L, u)
         IN M \in Ledgers(U) /\ Shifted(L, M, 0, 0, 0, 0)
<1> DEFINE n == Nettable(L, u)
           y == ReleasedCost(L.pos[u]["YES"], n)
           o == ReleasedCost(L.pos[u]["NO"], n)
           G == Hold(L, u, "YES", -n, -y, 0)
           H == Hold(G, u, "NO", -n, -o, 0)
           I == Credit(H, u, Par * n, 0)
           J == Tally(I, 0, -(Par * n - (y + o)), 0)
           M == Issue(J, -n)
<1>1. L.pos[u]["YES"] \in PositionRow /\ L.pos[u]["NO"] \in PositionRow
  BY DEF Ledgers, Outcomes
<1>2. n \in Int
  BY <1>1 DEF Nettable, PositionRow
<1>3. execute_netting(L, u) = IF u \in NoNetting \/ n <= 0 THEN L ELSE M
  BY DEF execute_netting
<1>4. CASE u \in NoNetting \/ n <= 0
  BY <1>3, <1>4, GapsAreInts DEF Shifted
<1>5. CASE ~(u \in NoNetting \/ n <= 0)
  <2> HIDE DEF n
  <2>1. n \in Nat \ {0} /\ -n \in Int /\ -(-n) = n
    BY <1>2, <1>5
  <2>2. y \in Int /\ o \in Int
    BY <1>1, <2>1, ReleasedInt
  <2> HIDE DEF y, o
  <2> DEFINE R == Par * n
  <2>3. R \in Int /\ Par * (-n) = -R /\ -(-R) = R
    BY <2>1, ParAssumption
  <2>4. G \in Ledgers(U) /\ Shifted(L, G, 0, -y, -n, 0)
    BY <2>1, <2>2, HoldShifts DEF Outcomes
  <2> HIDE DEF G
  <2>5. H \in Ledgers(U) /\ Shifted(G, H, 0, -o, 0, -n)
    BY <2>1, <2>2, <2>4, HoldShifts DEF Outcomes
  <2> HIDE DEF H
  <2>6. I \in Ledgers(U) /\ Shifted(H, I, R + 0, 0, 0, 0)
    BY <2>3, <2>5, CreditShifts
  <2>7. -(R - (y + o)) \in Int
    BY <2>2, <2>3
  <2> HIDE DEF I
  <2>8. J \in Ledgers(U) /\ Shifted(I, J, 0, -(R - (y + o)), 0, 0)
    BY <2>6, <2>7, ProfitShifts
  <2> HIDE DEF J
  <2>9. M \in Ledgers(U) /\ Shifted(J, M, -R, R, n, n)
    <3>1. M \in Ledgers(U) /\ Shifted(J, M, Par * (-n), -(Par * (-n)), -(-n), -(-n))
      BY <2>1, <2>8, IssueShifts
    <3> QED BY <2>1, <2>3, <3>1
  <2> HIDE DEF M, R
  <2>10. Shifted(L, H, 0 + 0, -y + (-o), -n + 0, 0 + (-n))
    BY <2>1, <2>2, <2>4, <2>5, ShiftsAddUp
  <2>11. Shifted(L, H, 0, -(y + o), -n, -n)
    BY <2>1, <2>2, <2>10
  <2>12. Shifted(L, I, 0 + (R + 0), -(y + o) + 0, -n + 0, -n + 0)
    BY <2>1, <2>2, <2>3, <2>6, <2>11, ShiftsAddUp
  <2>13. Shifted(L, I, R, -(y + o), -n, -n)
    BY <2>1, <2>2, <2>3, <2>12
  <2>14. Shifted(L, J, R + 0, -(y + o) + (-(R - (y + o))), -n + 0, -n + 0)
    BY <2>1, <2>2, <2>3, <2>7, <2>8, <2>13, ShiftsAddUp
  <2>15. Shifted(L, J, R, -R, -n, -n)
    BY <2>1, <2>2, <2>3, <2>14
  <2>16. Shifted(L, M, R + (-R), -R + R, -n + n, -n + n)
    BY <2>1, <2>3, <2>9, <2>15, ShiftsAddUp
  <2>17. Shifted(L, M, 0, 0, 0, 0)
    BY <2>1, <2>3, <2>16
  <2> QED BY <1>3, <1>5, <2>9, <2>17
<1> QED BY <1>4, <1>5

(* A freeze moves funds within an account, or shares within a position. *)
LEMMA FreezeBalanced ==
  ASSUME NEW U, IsFiniteSet(U), NEW L \in Ledgers(U), NEW u \in U, NEW type,
         NEW price \in Int, NEW qty \in Int
  PROVE  LET M == Freeze(L, u, type, price, qty)
         IN /\ M \in Ledgers(U) /\ Shifted(L, M, 0, 0, 0, 0)
            /\ FreezeAmount(type, price, qty) \in Int
<1> DEFINE a == FreezeAmount(type, price, qty)
           s == SoldOutcome(type)
<1>1. a \in Int
  <2>1. price * qty \in Int /\ calc_max_fee(price * qty) \in Int
    BY FeeIsNat, FreezeBpsAssumption DEF calc_max_fee
  <2> QED BY <2>1 DEF FreezeAmount
<1>2. Freeze(L, u, type, price, qty) = IF PaysFunds(type) THEN Credit(L, u, -a, a) ELSE Hold(L, u, s, 0, 0, a)
  BY DEF Freeze
<1>3. s \in Outcomes
  BY DEF SoldOutcome, Outcomes
<1> HIDE DEF a, s
<1>4. Credit(L, u, -a, a) \in Ledgers(U) /\ Shifted(L, Credit(L, u, -a, a), -a + a, 0, 0, 0)
  BY <1>1, CreditShifts
<1>5. -a + a = 0
  BY <1>1
<1>6. Hold(L, u, s, 0, 0, a) \in Ledgers(U) /\ Shifted(L, Hold(L, u, s, 0, 0, a), 0, 0, 0, 0)
  BY <1>1, <1>3, HoldShifts
<1> QED BY <1>1, <1>2, <1>4, <1>5, <1>6 DEF a

(* So does what gives them back. *)
LEMMA UnfreezeBalanced ==
  ASSUME NEW U, IsFiniteSet(U), NEW L \in Ledgers(U), NEW u \in U,
         NEW funds \in Int, NEW yes \in Int, NEW no \in Int
  PROVE  LET M == Unfreeze(L, u, funds, yes, no)
         IN M \in Ledgers(U) /\ Shifted(L, M, 0, 0, 0, 0)
<1> DEFINE G == Credit(L, u, funds, -funds)
           H == Hold(G, u, "YES", 0, 0, -yes)
           M == Hold(H, u, "NO", 0, 0, -no)
<1>1. -funds \in Int /\ -yes \in Int /\ -no \in Int /\ funds + (-funds) = 0
  OBVIOUS
<1>2. "YES" \in Outcomes /\ "NO" \in Outcomes
  BY DEF Outcomes
<1>3. G \in Ledgers(U) /\ Shifted(L, G, 0, 0, 0, 0)
  BY <1>1, CreditShifts
<1> HIDE DEF G
<1>4. H \in Ledgers(U) /\ Shifted(G, H, 0, 0, 0, 0)
  BY <1>1, <1>2, <1>3, HoldShifts
<1> HIDE DEF H
<1>5. M \in Ledgers(U) /\ Shifted(H, M, 0, 0, 0, 0)
  BY <1>1, <1>2, <1>4, HoldShifts
<1>6. M = Unfreeze(L, u, funds, yes, no)
  BY DEF Unfreeze, G, H
<1> HIDE DEF M
<1>7. Shifted(L, H, 0 + 0, 0 + 0, 0 + 0, 0 + 0)
  BY <1>3, <1>4, ShiftsAddUp
<1>8. 0 + 0 = 0
  OBVIOUS
<1>9. Shifted(L, M, 0 + 0, 0 + 0, 0 + 0, 0 + 0)
  BY <1>5, <1>7, <1>8, ShiftsAddUp
<1> QED BY <1>5, <1>6, <1>8, <1>9

-----------------------------------------------------------------------------
(* The rows that the two UPDATE statements change. *)
LEMMA CreditRows ==
  ASSUME NEW U, NEW L \in Ledgers(U), NEW u \in U \union {Platform}, NEW x, NEW y
  PROVE  LET M == Credit(L, u, x, y)
         IN /\ M.pos = L.pos /\ M.mkt = L.mkt
            /\ M.acc[u] = [avail |-> L.acc[u].avail + x, frozen |-> L.acc[u].frozen + y]
            /\ \A v \in U \union {Platform} : v # u => M.acc[v] = L.acc[v]
BY DEF Credit, Ledgers

(* The row of positions keeps its other side. *)
LEMMA HoldRows ==
  ASSUME NEW U, NEW L \in Ledgers(U), NEW u \in U, NEW s \in Outcomes,
         NEW x, NEW y, NEW z
  PROVE  LET M == Hold(L, u, s, x, y, z)
         IN /\ M.acc = L.acc /\ M.mkt = L.mkt
            /\ M.pos[u][s] = [vol |-> L.pos[u][s].vol + x, cost |-> L.pos[u][s].cost + y,
                              pend |-> L.pos[u][s].pend + z]
            /\ \A t \in Outcomes : t # s => M.pos[u][t] = L.pos[u][t]
            /\ \A v \in U : v # u => M.pos[v] = L.pos[v]
<1> DEFINE row == [vol |-> L.pos[u][s].vol + x, cost |-> L.pos[u][s].cost + y,
                   pend |-> L.pos[u][s].pend + z]
           M == Hold(L, u, s, x, y, z)
<1>1. M = [L EXCEPT !.pos[u][s] = row]
  BY Zenon DEF Hold
<1> HIDE DEF M, row
<1>2. /\ M.acc = L.acc /\ M.mkt = L.mkt /\ M.pos[u][s] = row
      /\ \A t \in Outcomes : t # s => M.pos[u][t] = L.pos[u][t]
      /\ \A v \in U : v # u => M.pos[v] = L.pos[v]
  BY <1>1 DEF Ledgers
<1> QED BY <1>2, Zenon DEF M, row

(* No more cost leaves with some shares of a position than there is. *)
LEMMA ReleasedBounds ==
  ASSUME NEW p \in PositionRow, p.cost >= 0, NEW qty \in Nat \ {0}, qty <= p.vol
  PROVE  ReleasedCost(p, qty) \in 0 .. p.cost
<1> DEFINE c == p.cost
           v == p.vol
<1>1. c \in Nat /\ v \in Nat \ {0}
  BY DEF PositionRow
<1>2. CASE qty >= v
  BY <1>1, <1>2 DEF ReleasedCost
<1>3. CASE ~(qty >= v)
  <2>1. ReleasedCost(p, qty) = (c * qty) \div v
    BY <1>3 DEF ReleasedCost
  <2> HIDE DEF c, v
  <2>2. c * qty \in Nat /\ c * qty <= c * v /\ c * v \in Nat
    BY <1>1, <1>3
  <2> DEFINE x == c * qty
  <2> HIDE DEF x
  <2>3. x \in Nat /\ x <= c * v
    BY <2>2 DEF x
  <2>4. x \div v \in Nat /\ x \div v <= c
    BY <1>1, <2>3
  <2> QED BY <1>1, <2>1, <2>4 DEF x, c
<1> QED BY <1>2, <1>3

(* Netting never breaks a CHECK: it takes no share that is pending and no
   more cost than there is. *)
LEMMA NettingChecks ==
  ASSUME NEW U, IsFiniteSet(U), NEW L \in Ledgers(U), NEW u \in U, ChecksHold(L)
  PROVE  ChecksHold(execute_netting(L, u))
<1> DEFINE n == Nettable(L, u)
           yes == L.pos[u]["YES"]
           no == L.pos[u]["NO"]
           y == ReleasedCost(yes, n)
           o == ReleasedCost(no, n)
           G == Hold(L, u, "YES", -n, -y, 0)
           H == Hold(G, u, "NO", -n, -o, 0)
           I == Credit(H, u, Par * n, 0)
           J == Tally(I, 0, -(Par * n - (y + o)), 0)
           M == Issue(J, -n)
<1>0. /\ DOMAIN L.acc = U \union {Platform} /\ DOMAIN L.pos = U
      /\ L.acc \in [U \union {Platform} -> AccountRow]
      /\ "YES" \in Outcomes /\ "NO" \in Outcomes
      /\ \A s \in Outcomes : s = "YES" \/ s = "NO"
  BY DEF Ledgers, Outcomes
<1>1. yes \in PositionRow /\ no \in PositionRow
  BY DEF Ledgers, Outcomes
<1>2. /\ yes.vol \in Int /\ yes.cost \in Int /\ yes.pend \in Int /\ yes.cost >= 0 /\ yes.pend \in 0 .. yes.vol
      /\ no.vol \in Int /\ no.cost \in Int /\ no.pend \in Int /\ no.cost >= 0 /\ no.pend \in 0 .. no.vol
  BY <1>0, <1>1 DEF ChecksHold, PositionRow
<1>3. n \in Int /\ n <= yes.vol - yes.pend /\ n <= no.vol - no.pend
  BY <1>2 DEF Nettable
<1>4. execute_netting(L, u) = IF u \in NoNetting \/ n <= 0 THEN L ELSE M
  BY DEF execute_netting
<1>5. CASE u \in NoNetting \/ n <= 0
  BY <1>4, <1>5
<1>6. CASE ~(u \in NoNetting \/ n <= 0)
  <2> HIDE DEF n
  <2>1. n \in Nat \ {0} /\ n <= yes.vol /\ n <= no.vol
    BY <1>2, <1>3, <1>6
  <2>2. y \in 0 .. yes.cost /\ o \in 0 .. no.cost
    BY <1>1, <1>2, <2>1, ReleasedBounds
  <2>3. y \in Int /\ o \in Int /\ -n \in Int /\ Par * n \in Int /\ Par * n >= 0
    BY <1>2, <2>1, <2>2, ParAssumption
  <2> HIDE DEF y, o
  <2>4. G \in Ledgers(U)
    BY <1>0, <2>3, HoldShifts
  <2>5. /\ G.acc = L.acc /\ G.pos[u]["NO"] = no
        /\ G.pos[u]["YES"] = [vol |-> yes.vol + (-n), cost |-> yes.cost + (-y), pend |-> yes.pend + 0]
        /\ \A v \in U : v # u => G.pos[v] = L.pos[v]
    BY <1>0, HoldRows
  <2> HIDE DEF G
  <2>6. H \in Ledgers(U)
    BY <1>0, <2>3, <2>4, HoldShifts
  <2>7. /\ H.acc = L.acc /\ H.pos[u]["YES"] = G.pos[u]["YES"]
        /\ H.pos[u]["NO"] = [vol |-> no.vol + (-n), cost |-> no.cost + (-o), pend |-> no.pend + 0]
        /\ \A v \in U : v # u => H.pos[v] = L.pos[v]
    BY <1>0, <2>4, <2>5, HoldRows
  <2> HIDE DEF H
  <2>8. /\ I.pos = H.pos
        /\ I.acc[u] = [avail |-> L.acc[u].avail + Par * n, frozen |-> L.acc[u].frozen + 0]
        /\ \A v \in U \union {Platform} : v # u => I.acc[v] = L.acc[v]
    BY <2>6, <2>7, CreditRows
  <2>9. I \in Ledgers(U)
    BY <2>3, <2>6, CreditShifts
  <2> HIDE DEF I
  <2>10. /\ M.acc = I.acc /\ M.pos = H.pos
         /\ DOMAIN M.acc = U \union {Platform} /\ DOMAIN M.pos = U
    BY <2>8, <2>9 DEF Issue, Tally, Ledgers
  <2> HIDE DEF M
  <2>11. \A v \in U \union {Platform} : M.acc[v].avail >= 0 /\ M.acc[v].frozen >= 0
    <3> TAKE v \in U \union {Platform}
    <3>1. /\ L.acc[v].avail \in Int /\ L.acc[v].frozen \in Int
          /\ L.acc[v].avail >= 0 /\ L.acc[v].frozen >= 0
      BY <1>0 DEF ChecksHold, AccountRow
    <3> QED BY <2>3, <2>8, <2>10, <3>1
  <2>12. ASSUME NEW v \in U, NEW s \in Outcomes
         PROVE  /\ M.pos[v][s].vol >= 0 /\ M.pos[v][s].cost >= 0
                /\ M.pos[v][s].pend \in 0 .. M.pos[v][s].vol
    <3>1. CASE v # u
      BY <1>0, <2>7, <2>10, <3>1 DEF ChecksHold
    <3>2. CASE v = u /\ s = "YES"
      <4>1. M.pos[v][s] = [vol |-> yes.vol + (-n), cost |-> yes.cost + (-y), pend |-> yes.pend + 0]
        BY <2>5, <2>7, <2>10, <3>2
      <4> HIDE DEF yes
      <4> QED BY <1>2, <1>3, <2>1, <2>2, <4>1
    <3>3. CASE v = u /\ s = "NO"
      <4>1. M.pos[v][s] = [vol |-> no.vol + (-n), cost |-> no.cost + (-o), pend |-> no.pend + 0]
        BY <2>7, <2>10, <3>3
      <4> HIDE DEF no
      <4> QED BY <1>2, <1>3, <2>1, <2>2, <4>1
    <3> QED BY <1>0, <3>1, <3>2, <3>3
  <2> QED BY <1>4, <1>6, <2>10, <2>11, <2>12 DEF ChecksHold
<1> QED BY <1>5, <1>6

(* The reserve pays the winners in full: each share of the winning side is
   covered by a pair. *)
LEMMA SettlementBalanced ==
  ASSUME NEW U, IsFiniteSet(U), Platform \notin U, NEW L \in Ledgers(U), Books(L),
         ChecksHold(L), NEW outcome \in Outcomes
  PROVE  LET M == settle_market(L, outcome)
         IN /\ M \in Ledgers(U) /\ Books(M) /\ ChecksHold(M)
            /\ TotalAssets(M) = TotalAssets(L)
<1> DEFINE M == settle_market(L, outcome)
           S == U \union {Platform}
           Won(v) == IF v \in U THEN L.pos[v][outcome].vol ELSE 0
           A == [v \in S |-> [avail |-> L.acc[v].avail + Par * Won(v), frozen |-> L.acc[v].frozen]]
           Z == [v \in U |-> [s \in Outcomes |-> [vol |-> 0, cost |-> 0, pend |-> 0]]]
<1>1. /\ DOMAIN L.acc = S /\ DOMAIN L.pos = U
      /\ \A v \in S : L.acc[v] \in AccountRow
      /\ \A v \in U : L.pos[v][outcome].vol \in Int /\ L.pos[v][outcome].vol >= 0
  BY DEF Ledgers, PositionRow, ChecksHold
<1>2. \A v \in S : /\ Won(v) \in Int /\ Won(v) >= 0 /\ Par * Won(v) \in Int /\ Par * Won(v) >= 0
                   /\ L.acc[v].avail \in Int /\ L.acc[v].frozen \in Int
                   /\ L.acc[v].avail >= 0 /\ L.acc[v].frozen >= 0
  <2> TAKE v \in S
  <2>1. Won(v) \in Nat
    BY <1>1
  <2>2. Par * Won(v) \in Nat
    <3> HIDE DEF Won
    <3> QED BY <2>1, ParAssumption
  <2> QED BY <1>1, <2>1, <2>2 DEF AccountRow, ChecksHold
<1> HIDE DEF Won
<1>3. M.acc = A /\ M.pos = Z /\ M.mkt = [reserve |-> 0, pnl |-> 0, yes |-> 0, no |-> 0]
  <2>1. ASSUME NEW v \in S
        PROVE  (IF v \in DOMAIN L.pos
                THEN [L.acc[v] EXCEPT !.avail = @ + Par * L.pos[v][outcome].vol]
                ELSE L.acc[v]) = [avail |-> L.acc[v].avail + Par * Won(v), frozen |-> L.acc[v].frozen]
    <3>1. CASE v \in U
      BY <1>1, <3>1 DEF AccountRow, Won
    <3>2. CASE v \notin U
      <4>1. Won(v) = 0 /\ Par * Won(v) = 0
        BY <3>2, ParAssumption DEF Won
      <4> QED BY <1>1, <3>2, <4>1 DEF AccountRow
    <3> QED BY <3>1, <3>2
  <2> QED BY <1>1, <2>1 DEF settle_market
<1>4. M = [acc |-> A, pos |-> Z, mkt |-> M.mkt]
  BY <1>1, <1>3 DEF settle_market
<1>5. /\ A \in [S -> AccountRow] /\ Z \in [U -> [Outcomes -> PositionRow]] /\ M.mkt \in MarketRow
  BY <1>2, <1>3 DEF AccountRow, PositionRow, MarketRow
<1> HIDE DEF M
<1>6. M \in Ledgers(U)
  BY <1>4, <1>5 DEF Ledgers
<1>7. ChecksHold(M)
  BY <1>2, <1>3 DEF ChecksHold
<1>8. /\ M.mkt.reserve = 0 /\ M.mkt.pnl = 0 /\ M.mkt.yes = 0 /\ M.mkt.no = 0
  BY <1>3
<1>9. ASSUME NEW f, \A v \in U : f[v] = 0 PROVE SumOver(f, U) = 0
  BY <1>9, SumZero
<1>10. TotalCost(M) = 0 /\ \A s \in Outcomes : TotalShares(M, s) = 0
  <2>1. DOMAIN M.pos = U
    BY <1>3
  <2>2. TotalCost(M) = 0
    <3> DEFINE f == [v \in U |-> M.pos[v]["YES"].cost + M.pos[v]["NO"].cost]
    <3>1. \A v \in U : f[v] = 0
      BY <1>3 DEF Outcomes
    <3> HIDE DEF f
    <3>2. SumOver(f, U) = 0
      BY <1>9, <3>1
    <3> QED BY <2>1, <3>2 DEF TotalCost, f
  <2>3. ASSUME NEW s \in Outcomes PROVE TotalShares(M, s) = 0
    <3> DEFINE f == [v \in U |-> M.pos[v][s].vol]
    <3>1. \A v \in U : f[v] = 0
      BY <1>3
    <3> HIDE DEF f
    <3>2. SumOver(f, U) = 0
      BY <1>9, <3>1
    <3> QED BY <2>1, <3>2 DEF TotalShares, f
  <2> QED BY <2>2, <2>3
<1>11. Books(M)
  <2>1. Par * 0 = 0
    BY ParAssumption
  <2> QED BY <1>8, <1>10, <2>1 DEF Books, Count
<1>12. TotalFunds(M) = TotalFunds(L) + Par * TotalShares(L, outcome)
  <2> DEFINE f == [v \in S |-> L.acc[v].avail + L.acc[v].frozen]
             g == [v \in S |-> Won(v)]
             h == [v \in S |-> A[v].avail + A[v].frozen]
             k == [v \in U |-> L.pos[v][outcome].vol]
  <2>1. \A v \in S : f[v] \in Int /\ g[v] \in Int /\ h[v] = f[v] + Par * g[v]
    BY <1>2
  <2>2. IsFiniteSet(S) /\ Platform \in S /\ S \ {Platform} = U
    BY FS_AddElement
  <2>3. g[Platform] = 0 /\ \A v \in U : g[v] = k[v] /\ k[v] \in Int
    BY <1>1 DEF Won
  <2>4. /\ TotalFunds(L) = SumOver(f, S) /\ TotalFunds(M) = SumOver(h, S)
        /\ TotalShares(L, outcome) = SumOver(k, U)
    BY <1>1, <1>3 DEF TotalFunds, TotalShares
  <2> HIDE DEF f, g, h, k, S
  <2>5. SumOver(h, S) = SumOver(f, S) + Par * SumOver(g, S)
    BY <2>1, <2>2, SumPlus, ParAssumption
  <2>6. SumOver(g, S) = g[Platform] + SumOver(g, U)
    BY <2>1, <2>2, SumStep
  <2>7. SumOver(g, U) = SumOver(k, U) /\ SumOver(k, U) \in Int
    BY <2>3, SumSame, SumInt
  <2>8. SumOver(g, S) = SumOver(k, U)
    BY <2>3, <2>6, <2>7
  <2> QED BY <2>4, <2>5, <2>8
<1>13. TotalShares(L, outcome) = L.mkt.yes /\ L.mkt.reserve = Par * L.mkt.yes
  BY DEF Books, Count, Outcomes
<1>14. TotalAssets(M) = TotalAssets(L)
  <2>1. TotalFunds(L) \in Int /\ L.mkt.reserve \in Int
    BY TotalsAreInts DEF Ledgers, MarketRow
  <2> QED BY <1>8, <1>12, <1>13, <2>1 DEF TotalAssets
<1> QED BY <1>6, <1>7, <1>11, <1>14 DEF M

-----------------------------------------------------------------------------
(* What an order freezes is a natural number. *)
LEMMA FreezeAmountType ==
  ASSUME NEW type, NEW price \in Nat, NEW qty \in Int
  PROVE  /\ FreezeAmount(type, price, qty) \in Int
         /\ qty >= 0 => FreezeAmount(type, price, qty) \in Nat
<1> DEFINE value == price * qty
<1>1. value \in Int /\ (qty >= 0 => value >= 0)
  OBVIOUS
<1> HIDE DEF value
<1>2. calc_max_fee(value) \in Int /\ (qty >= 0 => calc_max_fee(value) \in Nat)
  BY <1>1, FeeIsNat, FreezeBpsAssumption DEF calc_max_fee
<1>3. FreezeAmount(type, price, qty) = IF PaysFunds(type) THEN value + calc_max_fee(value) ELSE qty
  BY DEF FreezeAmount, value
<1> HIDE DEF PaysFunds, FreezeAmount, calc_max_fee
<1> QED BY <1>1, <1>2, <1>3

(* A freeze that check_and_freeze allows breaks no CHECK. *)
LEMMA FreezeChecks ==
  ASSUME NEW U, NEW L \in Ledgers(U), NEW u \in U, NEW type, NEW price \in Nat, NEW qty \in Nat,
         ChecksHold(L), CanFreeze(L, u, type, price, qty)
  PROVE  ChecksHold(Freeze(L, u, type, price, qty))
<1> DEFINE M == Freeze(L, u, type, price, qty)
           a == FreezeAmount(type, price, qty)
           s == SoldOutcome(type)
<1>1. a \in Nat
  BY FreezeAmountType
<1>2. /\ DOMAIN L.acc = U \union {Platform} /\ DOMAIN L.pos = U
      /\ \A v \in U \union {Platform} : L.acc[v] \in AccountRow
      /\ \A v \in U, t \in Outcomes : L.pos[v][t] \in PositionRow
  BY DEF Ledgers
<1>3. s \in Outcomes /\ u \in U \union {Platform}
  BY DEF SoldOutcome, Outcomes
<1> HIDE DEF a, s
<1>4. CASE PaysFunds(type)
  <2>1. M = Credit(L, u, -a, a) /\ L.acc[u].avail >= a
    BY <1>4 DEF Freeze, CanFreeze, a
  <2>2. /\ M.pos = L.pos
        /\ M.acc[u] = [avail |-> L.acc[u].avail + (-a), frozen |-> L.acc[u].frozen + a]
        /\ \A v \in U \union {Platform} : v # u => M.acc[v] = L.acc[v]
    BY <1>3, <2>1, CreditRows
  <2>3. DOMAIN M.acc = U \union {Platform}
    BY <1>2, <2>1 DEF Credit, Ledgers
  <2> HIDE DEF M
  <2>4. /\ L.acc[u].avail >= 0 /\ L.acc[u].frozen >= 0
        /\ L.acc[u].avail \in Int /\ L.acc[u].frozen \in Int
    BY <1>2, <1>3 DEF ChecksHold, AccountRow
  <2>5. M.acc[u].avail >= 0 /\ M.acc[u].frozen >= 0
    BY <1>1, <2>1, <2>2, <2>4
  <2>6. \A v \in DOMAIN M.acc : M.acc[v].avail >= 0 /\ M.acc[v].frozen >= 0
    BY <1>2, <2>2, <2>3, <2>5 DEF ChecksHold
  <2> QED BY <1>2, <2>2, <2>6 DEF ChecksHold, M
<1>5. CASE ~PaysFunds(type)
  <2>1. M = Hold(L, u, s, 0, 0, a) /\ a = qty /\ L.pos[u][s].vol - L.pos[u][s].pend >= qty
    BY <1>5 DEF Freeze, CanFreeze, FreezeAmount, a, s
  <2>2. /\ M.acc = L.acc
        /\ M.pos[u][s] = [vol |-> L.pos[u][s].vol + 0, cost |-> L.pos[u][s].cost + 0,
                          pend |-> L.pos[u][s].pend + a]
        /\ \A t \in Outcomes : t # s => M.pos[u][t] = L.pos[u][t]
        /\ \A v \in U : v # u => M.pos[v] = L.pos[v]
    BY <1>3, <2>1, HoldRows
  <2>3. DOMAIN M.pos = U
    BY <1>2, <2>1 DEF Hold, Ledgers
  <2> HIDE DEF M
  <2>4. /\ L.pos[u][s].vol \in Int /\ L.pos[u][s].cost \in Int /\ L.pos[u][s].pend \in Int
        /\ L.pos[u][s].vol >= 0 /\ L.pos[u][s].cost >= 0 /\ L.pos[u][s].pend >= 0
    BY <1>2, <1>3 DEF ChecksHold, PositionRow
  <2>5. LET p == M.pos[u][s] IN p.vol >= 0 /\ p.cost >= 0 /\ p.pend \in 0 .. p.vol
    BY <1>1, <2>1, <2>2, <2>4
  <2>6. ASSUME NEW v \in U, NEW t \in Outcomes
        PROVE  LET p == M.pos[v][t] IN p.vol >= 0 /\ p.cost >= 0 /\ p.pend \in 0 .. p.vol
    <3>1. CASE v = u /\ t = s
      BY <2>5, <3>1
    <3>2. CASE ~(v = u /\ t = s)
      <4>1. M.pos[v][t] = L.pos[v][t]
        BY <2>2, <3>2
      <4> QED BY <1>2, <4>1 DEF ChecksHold
    <3> QED BY <3>1, <3>2
  <2> QED BY <2>2, <2>3, <2>6 DEF ChecksHold, M
<1> QED BY <1>4, <1>5
=============================================================================
