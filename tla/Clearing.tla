------------------------------ MODULE Clearing ------------------------------
(***************************************************************************)
(* What one trade does to money and shares: the pure arithmetic of         *)
(* pm_clearing (scenarios, fees, netting, settlement) and of the freeze    *)
(* that precedes it (pm_risk/rules/balance_check.py).                      *)
(*                                                                         *)
(* A ledger is a record                                                    *)
(*   acc[u] = [avail, frozen]              the row of u in accounts        *)
(*   pos[u][s] = [vol, cost, pend]         side s of the row in positions  *)
(*   mkt = [reserve, pnl, yes, no]         the market's running totals     *)
(* Every operator below maps a ledger to the ledger after it; whether the  *)
(* database accepts the result is the matter of ChecksHold.                *)
(***************************************************************************)
EXTENDS Collections

CONSTANTS
  Par,         \* cents paid for one share of the winning side (100)
  FreezeBps,   \* TAKER_FEE_BPS, the rate a freeze allows for (20)
  FeeBps,      \* taker_fee_bps of the market
  Platform,    \* the account PLATFORM_FEE
  NoNetting    \* users with auto_netting_enabled = false: the AMM

ASSUME ParAssumption == Par \in Nat \ {0, 1}
ASSUME FreezeBpsAssumption == FreezeBps \in Nat
ASSUME FeeBpsAssumption == FeeBps \in Nat

Outcomes == {"YES", "NO"}

-----------------------------------------------------------------------------
\* Ceiling of value * bps / 10000: calc_fee and _calc_max_fee
BpsOf(value, bps) == (value * bps + 9999) \div 10000
calc_fee(value) == BpsOf(value, FeeBps)
calc_max_fee(value) == BpsOf(value, FreezeBps)

\* calc_released_cost: the part of a position's cost that leaves with qty
ReleasedCost(p, qty) ==
  IF qty >= p.vol THEN p.cost ELSE (p.cost * qty) \div p.vol

\* What a share of side s costs when YES trades at price
PriceOf(s, price) == IF s = "YES" THEN price ELSE Par - price

\* get_fee_trade_value
FeeBase(type, price, qty, buyOriginalPrice) ==
  CASE type \in {"NATIVE_BUY", "NATIVE_SELL"} -> price * qty
    [] type = "SYNTHETIC_SELL" -> buyOriginalPrice * qty
    [] OTHER -> (Par - price) * qty

-----------------------------------------------------------------------------
\* The UPDATE statements on one row of accounts, on one side of a row of
\* positions, and the changes of the MarketState: each adds its arguments.
Credit(L, u, avail, frozen) ==
  [L EXCEPT !.acc[u] = [avail |-> @.avail + avail, frozen |-> @.frozen + frozen]]
Hold(L, u, s, vol, cost, pend) ==
  [L EXCEPT !.pos[u][s] = [vol |-> @.vol + vol, cost |-> @.cost + cost, pend |-> @.pend + pend]]
Tally(L, reserve, pnl, pairs) ==
  [L EXCEPT !.mkt = [reserve |-> @.reserve + reserve, pnl |-> @.pnl + pnl,
                     yes |-> @.yes + pairs, no |-> @.no + pairs]]

\* The two statements of each scenario that concern one party.
\* _UNFREEZE_DEBIT_SQL and _ADD_YES_VOLUME_SQL / _ADD_NO_VOLUME_SQL
Acquire(L, u, s, price, qty) ==
  LET value == PriceOf(s, price) * qty
  IN Hold(Credit(L, u, 0, -value), u, s, qty, value, 0)

\* Faulty: the proceeds are credited but the realised profit is not booked.
DisposeUnbooked(L, u, s, price, qty) ==
  Credit(Hold(L, u, s, -qty, -ReleasedCost(L.pos[u][s], qty), -qty),
         u, PriceOf(s, price) * qty, 0)

\* _REDUCE_YES_VOLUME_SQL / _REDUCE_NO_VOLUME_SQL and _ADD_BALANCE_SQL, with
\* the realised profit taken out of pnl_pool
Dispose(L, u, s, price, qty) ==
  LET value == PriceOf(s, price) * qty
      released == ReleasedCost(L.pos[u][s], qty)
  IN Tally(Credit(Hold(L, u, s, -qty, -released, -qty), u, value, 0),
           0, -(value - released), 0)

\* qty pairs of shares come into being, or go out of it for qty < 0.
Issue(L, qty) == Tally(L, Par * qty, 0, qty)

\* t = [buyUser, sellUser, buyType, sellType, price, qty]
clear_mint(L, t) ==
  Issue(Acquire(Acquire(L, t.buyUser, "YES", t.price, t.qty),
                t.sellUser, "NO", t.price, t.qty), t.qty)

clear_transfer_yes(L, t) ==
  Dispose(Acquire(L, t.buyUser, "YES", t.price, t.qty),
          t.sellUser, "YES", t.price, t.qty)

clear_transfer_no(L, t) ==
  Dispose(Acquire(L, t.sellUser, "NO", t.price, t.qty),
          t.buyUser, "NO", t.price, t.qty)

\* Faulty: the pair is destroyed in the books of the users only.
BurnKeepsReserve(L, t) ==
  Dispose(Dispose(L, t.sellUser, "YES", t.price, t.qty),
          t.buyUser, "NO", t.price, t.qty)

clear_burn(L, t) ==
  Issue(Dispose(Dispose(L, t.sellUser, "YES", t.price, t.qty),
                t.buyUser, "NO", t.price, t.qty), -t.qty)

\* determine_scenario and settle_trade
determine_scenario(buyType, sellType) ==
  CASE buyType = "NATIVE_BUY" /\ sellType # "NATIVE_SELL" -> "MINT"
    [] buyType = "NATIVE_BUY" /\ sellType = "NATIVE_SELL" -> "TRANSFER_YES"
    [] buyType # "NATIVE_BUY" /\ sellType # "NATIVE_SELL" -> "TRANSFER_NO"
    [] OTHER -> "BURN"

settle_trade(L, t) ==
  LET scenario == determine_scenario(t.buyType, t.sellType)
  IN CASE scenario = "MINT" -> clear_mint(L, t)
       [] scenario = "TRANSFER_YES" -> clear_transfer_yes(L, t)
       [] scenario = "TRANSFER_NO" -> clear_transfer_no(L, t)
       [] OTHER -> clear_burn(L, t)

-----------------------------------------------------------------------------
PaysFunds(type) == type \in {"NATIVE_BUY", "SYNTHETIC_SELL"}

\* Faulty: the whole allowance is refunded, the fee taken out of it included.
FeeRefundsAll(L, u, type, base) ==
  LET fee == calc_fee(base)
      charged == IF PaysFunds(type)
                 THEN Credit(L, u, calc_max_fee(base), -fee)
                 ELSE Credit(L, u, -fee, 0)
  IN Credit(charged, Platform, fee, 0)

\* collect_fee_from_frozen, collect_fee_from_proceeds
collect_fee(L, u, type, base) ==
  LET fee == calc_fee(base)
      charged == IF PaysFunds(type)
                 THEN Credit(L, u, calc_max_fee(base) - fee, -fee)
                 ELSE Credit(L, u, -fee, 0)
  IN Credit(charged, Platform, fee, 0)

\* Shares of u that are not pending on either side: what _do_netting nets
Nettable(L, u) ==
  LET free(s) == L.pos[u][s].vol - L.pos[u][s].pend
  IN IF free("YES") < free("NO") THEN free("YES") ELSE free("NO")

\* execute_netting_if_needed
execute_netting(L, u) ==
  LET n == Nettable(L, u)
      yesRel == ReleasedCost(L.pos[u]["YES"], n)
      noRel == ReleasedCost(L.pos[u]["NO"], n)
      reduced == Hold(Hold(L, u, "YES", -n, -yesRel, 0), u, "NO", -n, -noRel, 0)
      paid == Credit(reduced, u, Par * n, 0)
  IN IF u \in NoNetting \/ n <= 0
     THEN L
     ELSE Issue(Tally(paid, 0, -(Par * n - (yesRel + noRel)), 0), -n)

-----------------------------------------------------------------------------
\* The outcome whose shares an order of this type sells
SoldOutcome(type) == IF type = "NATIVE_SELL" THEN "YES" ELSE "NO"

\* check_and_freeze: what an order freezes, whether it may, and the freeze
FreezeAmount(type, price, qty) ==
  IF PaysFunds(type) THEN price * qty + calc_max_fee(price * qty) ELSE qty

\* Faulty: shares already pending may be offered once more.
CanFreezeTwice(L, u, type, price, qty) ==
  IF PaysFunds(type)
  THEN L.acc[u].avail >= FreezeAmount(type, price, qty)
  ELSE L.pos[u][SoldOutcome(type)].vol >= qty

CanFreeze(L, u, type, price, qty) ==
  IF PaysFunds(type)
  THEN L.acc[u].avail >= FreezeAmount(type, price, qty)
  ELSE LET p == L.pos[u][SoldOutcome(type)] IN p.vol - p.pend >= qty

Freeze(L, u, type, price, qty) ==
  LET amount == FreezeAmount(type, price, qty)
  IN IF PaysFunds(type)
     THEN Credit(L, u, -amount, amount)
     ELSE Hold(L, u, SoldOutcome(type), 0, 0, amount)

\* Gives back a sum of frozen funds and of pending shares.
Unfreeze(L, u, funds, yes, no) ==
  Hold(Hold(Credit(L, u, funds, -funds), u, "YES", 0, 0, -yes), u, "NO", 0, 0, -no)

\* settle_market: pay the winners, clear the positions, zero the market
settle_market(L, outcome) ==
  [acc |-> [u \in DOMAIN L.acc |->
              IF u \in DOMAIN L.pos
              THEN [L.acc[u] EXCEPT !.avail = @ + Par * L.pos[u][outcome].vol]
              ELSE L.acc[u]],
   pos |-> [u \in DOMAIN L.pos |->
              [s \in Outcomes |-> [vol |-> 0, cost |-> 0, pend |-> 0]]],
   mkt |-> [reserve |-> 0, pnl |-> 0, yes |-> 0, no |-> 0]]

-----------------------------------------------------------------------------
\* The CHECK constraints of accounts and positions
ChecksHold(L) ==
  /\ \A u \in DOMAIN L.acc : L.acc[u].avail >= 0 /\ L.acc[u].frozen >= 0
  /\ \A u \in DOMAIN L.pos, s \in Outcomes :
       LET p == L.pos[u][s]
       IN p.vol >= 0 /\ p.cost >= 0 /\ p.pend \in 0 .. p.vol

\* The CHECK constraints of markets
MarketChecksHold(m) ==
  m.reserve >= 0 /\ m.yes >= 0 /\ m.yes = m.no /\ m.reserve = Par * m.yes

\* What the positions of all users cost, and how many shares of s there are
TotalCost(L) ==
  SumOver([u \in DOMAIN L.pos |-> L.pos[u]["YES"].cost + L.pos[u]["NO"].cost], DOMAIN L.pos)
TotalShares(L, s) == SumOver([u \in DOMAIN L.pos |-> L.pos[u][s].vol], DOMAIN L.pos)

\* The left-hand side of INV-G (verify_global_invariants)
TotalFunds(L) ==
  SumOver([u \in DOMAIN L.acc |-> L.acc[u].avail + L.acc[u].frozen], DOMAIN L.acc)
TotalAssets(L) == TotalFunds(L) + L.mkt.reserve

\* verify_invariants_after_trade: INV-1, INV-2 and INV-3
verify_invariants(L) ==
  /\ L.mkt.yes = L.mkt.no
  /\ L.mkt.reserve = Par * L.mkt.yes
  /\ L.mkt.reserve + L.mkt.pnl = TotalCost(L)
=============================================================================
