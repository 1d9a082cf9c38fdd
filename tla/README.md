# A TLA+ model of the prediction-market backend

The repository is the backend of a prediction market: users trade YES and NO
shares of a market, a YES/NO pair is worth 100 cents, and all four kinds of
order (buy and sell, YES and NO) meet in one order book that is quoted in YES.
The order book lives in the memory of a single asyncio process; accounts,
positions, orders, trades and the ledger live in PostgreSQL. What is hard about
the system is that the two have to agree although a request may fail after it
has changed one of them, and although other requests run next to it.

This directory holds the specifications, their TLC configurations and the
TLAPS proofs. `PROJECT.json` lists the runs, the mutants, the theorems, the
hazards and, under `map`, the source lines of each definition. Paths below are
relative to `src/src/`.

## Inventory

| Component | State | Operations | What makes it correct |
|---|---|---|---|
| Order book, `pm_matching/engine/order_book.py` | a deque of orders per side and price, `best_bid`, `best_ask`, `_order_index` | `add_order`, `cancel_order`, `_refresh_best_*` | cached prices and index agree with the deques; no order rests twice |
| Matching, `matching_algo.py`, `pm_risk/rules/self_trade.py` | locals of the loops | `match_order` | fills in price order within the limit; ends; stops only for a reason |
| Engine, `engine.py` | books and locks per market | `place_order`, `cancel_order`, `replace_order`, `batch_cancel` | book and orders table agree; a request happens wholly or not at all |
| Clearing, `pm_clearing/` | accounts, positions, market totals | mint, transfer YES, transfer NO, burn, fees, netting, settlement | money and shares are conserved, the reserve covers every pair |
| Risk, `pm_risk/rules/` | none | market status, price range, order limit, freeze | nothing is sold or spent twice |
| Orders, `pm_order/` | rows of orders | save, update, lookup by `client_order_id`, transformation to the YES book, `list_orders` | a final row stays final; a `client_order_id` makes one order |
| Accounts, `pm_account/` | rows of accounts, the ledger | deposit, withdraw, `list_ledger`; orders, clearing and settlement write the rows too | balances never negative, no update lost, entry and change together, paging is complete |
| Admin, `pm_admin/` | status of a market | `resolve_market`, statistics, verification | every share is paid out once |
| Ids, `pm_common/id_generator.py` | last timestamp, sequence | `next_id` | ids increase |
| AMM mint and burn, `pm_clearing/domain/mint_service.py`, `burn_service.py` | as clearing | create and destroy pairs | as clearing, and idempotent |
| Market queries, `pm_market/` | none | listings, order book snapshot | a page loses and repeats nothing; what is shown can be had |
| Trades, `pm_clearing/infrastructure/trades_*` | rows of trades | written per fill, `list_trades` | one row per fill; paging as above |
| Gateway, `pm_gateway/` | users | registration, login, tokens, logging | an account exists for every user |

A router opens a database session and calls a service; `pm_order` hands the
request to the one `MatchingEngine`, which takes the market's `asyncio.Lock`,
opens a savepoint, calls the risk rules, saves the row, matches in memory
without an await, clears fill by fill through `pm_clearing`, finalizes, asserts
INV-1 to INV-3 and flushes the market row. The service then commits or rolls
back, after the market's lock has been released. An exception drops the
market's book. `cancel_order` and `batch_cancel` read (and `batch_cancel` locks)
rows before they take the lock, as does `replace_order`; `resolve_market` takes no lock of the process.

Hard in this code are: a failure at any fill after the book has been changed
for all fills; restarts, which empty the book; hand-maintained caches (best
prices, index) under rotation; sums that are rounded at several places; row
locks and the market's lock together; reads before the lock that are used
under it; clients that page while entries are written. `PROJECT.json` lists
these under `hazards`, each at its line.

## Modules

**OrderBook** is the book and the matching loop. `queues[side][price]` are the
`bids` and `asks` deques, `best` the cached prices, `index` the set of entries
of `_order_index`. Each iteration of `_match_buy` and `_match_sell` is an
action: `ScanLevel` (outer loop takes a level), `SkipOwn` (rotate past an own
order), `Fill`, `LeaveLevel` (refresh, or break), `StopMatch`; `Finish` rests
or drops the remainder. The two functions differ by the direction of the
comparison only, which `Better(side, p, q)` expresses. `match_order` has no
await, so that all other actions wait for `pc = "idle"`. `Evict` is the
exception path. An order's id is the order of its creation.

**Clearing** has no variables: it is the arithmetic that `pm_clearing` and
`check_and_freeze` do on a ledger `[acc, pos, mkt]`, one operator per function
of the code, and the CHECK constraints (`ChecksHold`, `MarketChecksHold`).
What both parties of the four scenarios do is either `Acquire` or `Dispose`,
and everything is done by three kinds of write: `Credit` (an UPDATE of a row of
accounts), `Hold` (of one side of a row of positions) and `Tally` (of the
MarketState in memory). **Collections** holds what several modules need of sets
and sequences: `SumOver(f, S)`, and `Dropped(q, ids)`, a queue without some of
its orders.

**Exchange** composes the two into one market, with the orders table and the
transaction. `Place` or `Refuse`, then the iterations of `Match`, then one
`ClearFill` per fill, then `Finalize`. `saved` is the state to which the
transaction rolls back; `Abort` restores it and drops the book. `CancelOrder`,
`Replace` and `BatchCancel` are whole requests up to the match of a
replacement; `Resolve` is the admin's; `Restart` ends the process in any state
between two steps. `Refuse` evicts the book because an `AppError` of a risk
rule leaves `place_order` through the same `except` as any other exception.
`BookSpec` states that Exchange implements OrderBook: the variables of the book
are those of OrderBook, and every step of a request, an error or a restart is a
step or a stutter of that specification. `UserSpec` is the exchange of the
users' endpoints, `AmmSpec` has the AMM's as well.
**MCExchange** gives it small sets of requests and initial holdings.

**MarketView** adds to Exchange what `GET /markets/{id}/orderbook` shows: the
active rows of `orders` aggregated by price, the best of them, and the NO side
derived from the YES side that is shown. A side is a function from prices to
quantities: the lists of the response are sorted by price, so their order says
nothing more. It changes nothing; its property compares the view with what the
match that follows delivers.

**Sessions** is one market under requests that overlap. `tx[s].at` names the
statement that session `s` executes next, `tx[s].w` what its transaction has
written and so the rows it has locked; `db` and `trades` are committed;
`queue` is the market's `asyncio.Lock`, holder first. `place_order`
(`Place`, `CheckMarket`, `Freeze`, `Save`, `LockAndMatch`, `Settle`,
`ReadMaker`, `WriteMaker`, `Finalize`, `Commit`), `cancel_order` (`Cancel`,
`Unfreeze`, `WriteBack`), `replace_order` (`Replace`, then the steps of the two
others under one lock), `batch_cancel` (`BatchCancel`, `BulkCancel`,
`BulkUnfreeze`) and `resolve_market` (`Resolve`, `ReadOpen`, `CancelOpen`,
`ReadPositions`, `ClearPositions`, `SettleMarket`) interleave at their awaits.
A statement of a request runs when no other transaction has locked a row it
writes (`Runs`, `Blockers`); what it writes are rows put over those written
before (`Over`, `Wrote`).
PostgreSQL is modelled from how the code uses it: READ COMMITTED, row locks
until the end of the transaction, an INSERT that waits for a rival with the
same unique key, deadlock detection among row locks. Statements fail, and the
process restarts. The data are much smaller than in Exchange: makers bid for
NO, takers are IOC bids for one YES share, a fill is a MINT for one unit from
each side.

**Accounts** is the rows of accounts under concurrent sessions, with all the
production code that changes them: deposits and withdrawals of
`AccountRepository`, the freeze of `check_and_freeze` and the unfreeze of the
engine, which enter something in the ledger; and what does not (`Silent`): the
cost of a filled order (`SPEND`), proceeds, net pairs and payouts (`RECEIVE`), fees
taken from proceeds (`CHARGE`), the unfreezes of `batch_cancel` and
`resolve_market` (`RELEASE`). An operation is an UPDATE, which takes the row's
lock and evaluates its condition and the CHECKs on the committed row, if it is
one of the ledger's an INSERT that draws an id from a sequence, and a commit or a
rollback. `Unlocked` stands for PostgreSQL's row lock. A transaction is one
operation: a request that changes an account several times keeps its row from
the first change to the commit, which leaves what as many transactions in a row
would have left. A reader pages through a ledger meanwhile. **SerialAccounts** is the
abstract specification: each operation is one step that changes one account and
adds its entry, if it has one. `Serializable` says that Accounts implements it, with the
committed rows as refinement mapping. **MCAccounts** adds the symmetry of users
and of sessions.

**IdGenerator** is `next_id`, with the wait for the next millisecond split into
two actions and restarts of the process between or within calls. **Listings**
composes it with the rows it names: ids of orders and trades are drawn when a
request starts or matches, rows become visible when its transaction commits, in
any order, orders and markets are closed, and a client pages through
`list_orders`, `list_trades` or `list_markets` with the cursor each of them
uses. **MCListings** gives it three markets, two with the same `created_at`.

**CollectionProofs**, **OrderBookProofs**, **ClearingProofs**,
**ExchangeProofs**, **RowsProofs**, **AccountsProofs**, **ListingsProofs** (with
the theorems about IdGenerator) and **SessionsProofs** hold the theorems. ExchangeProofs rests on
OrderBookProofs and ClearingProofs, RowsProofs on ExchangeProofs, and most of
them on CollectionProofs.

Abstractions. A price is `1 .. MaxPrice` and a pair is worth `Par = MaxPrice +
1`; the code has 99 and 100, the runs 2 and 3. In Exchange requests run one
after another, as they do while they hold the market's lock; Sessions has what
happens before the lock is taken and between its release and the commit. In
Sessions a statement that writes several rows waits until it can have all of
them, and a read outside the lock is one step with joining the queue for it.
Ids are numbers; the code compares their decimal strings, which is the same
while all have 18 digits (until 2031). Texts, timestamps other than the sort
keys, WAL events (written, never read) and the `version` columns are left out,
and the ledger is part of Accounts only. A request whose `client_order_id` is known
changes nothing. Platform revenue is the balance of `Platform`.

## Runs

Passing runs:

| Run | Instance | Shows |
|---|---|---|
| `book` | 2 prices, a user and the AMM, sizes 1 and 2, 4 orders; 327k states | at every iteration of every match: `BestIsBest`, `IndexAgrees`, `RestsOnce`, `FillsInPriceOrder`, `StopsOnlyAtOwn`, `OnlyOwnerLosesPlace`, `MatchAdvances`; `MatchTerminates` |
| `exchange` | two users who hold two pairs between them, 2 prices, all four kinds of order, sizes 1 and 2, GTC and IOC, 4 orders, 2 levels shown; 381k states | at every step of every request: `CashConserved`, `SharesMatch`, `CostIdentity`, `PendingBacked`, `ClaimsCovered`, `BookBacked`; `ShownCanBeHad`; `TerminalRowsStay`; `BookSpec`, the refinement of OrderBook |
| `exchange_amm` | a user and the AMM with replacement and batch cancellation; 243k states | the same agreements for the AMM's endpoints, with self-matches |
| `accounts` | 2 users, 2 sessions, amounts of 1, 3 ledger ids, pages of 1; 372k states up to symmetry | `PagesComplete`, no negative balance, and `Serializable`, the refinement of SerialAccounts |
| `listings` | 2 ids per millisecond, 3 ids, 3 markets, pages of 1 and 2; 875k states | `IdsIncrease`; `NothingSkipped` and `NewestFirst` for all three lists |
| `sessions` | 2 requests at a time of all kinds, a maker's order of 2, its replacement and two takers, 3 rows; 92k states | `OneRowPerKey`, `NoLostUpdate`, `MatchSeesCommitted`, `NoTradeAfterCancel`; `RequestsEnd` |

Why the bounds are enough. Two prices give a best and a worse level on each
side, so that levels are emptied, refreshed and left. Four orders allow two
makers at one level, one of them the taker's own, one at the next, and a taker
that sweeps them; in `Exchange` they allow positions to be built up by two
orders and sold by two more. Sizes 1 and 2 give partial fills of makers and
takers. The user and the AMM differ in being exempt from the self-trade rule:
the user's own orders are the ones skipped, the AMM's orders are the other
party's, and the AMM also meets its own. With 20 basis points and such small
values every positive fee is one cent, rounded up, which is the case in which
roundings hurt most. Two sessions suffice for every pairwise interleaving of
transactions on a row, and two users for ids of a ledger that have gaps; a
rollback makes gaps too. `MaxBalance` bounds what trades bring in, which nothing
in the ledger does: at 1 a user without money gets some, and deposits add to it. In `sessions` two requests at a time reach every
pairwise race, and with them every finding below; a maker's order of 2 with two
takers gives a partial fill followed by the last one, and the maker has money
frozen elsewhere, so that a wrong unfreeze is not always refused by the CHECK.
Larger instances hold too but are too long to keep as runs: 4 rows, so that a
replacement is filled by both takers (283k states), and three requests at a
time without replacements (1.9 million states, invariants only). In `listings`
a page of one row puts every pair of rows on both sides of a page boundary.

CHECK_DEADLOCK is left on: each model has a step in every state (an eviction,
a restart, a page or the clock).

Fairness. `MatchTerminates` needs weak fairness of the loop's steps. The loop
runs on the event loop's thread and never awaits, so that nothing but the end
of the process keeps it from taking its next step. `RequestsEnd` needs strong
fairness of each session's next step: a request that waits for a row's lock is
enabled again and again, whenever the lock is free, and PostgreSQL grants it in
the order of waiting; the market's `asyncio.Lock` is first come, first served,
which the model has in `queue`; the event loop runs every coroutine that can
run. No fairness is assumed of clients, failures or restarts.

What `RequestsEnd` shows is that only `batch_cancel` can make requests of a
market wait for ever: `place_order`, `cancel_order`, `replace_order`
and `resolve_market` together never do, since the cycles they can form lie
within PostgreSQL, which breaks them.

Runs that show a disagreement between the code and what the repository says
of it (quotations are in `PROJECT.json`, `findings`):

| Run | Property | What happens |
|---|---|---|
| `exchange_inv3` | `InvThree` | The asserted INV-3 has `pnl_pool` with the wrong sign: `Dispose` subtracts profits from it. The identity that the code does keep is `CostIdentity`. A trade with a realised profit or loss aborts. |
| `exchange_book_complete` | `BookComplete` | `rebuild_orderbook` has no caller; after an eviction or a restart active orders are no longer matched. |
| `exchange_replace_atomic` | `ReplaceAtomic` | A refused replacement is rolled back in the database, but the old order has left the book. |
| `sessions_stale_cancel` | `ClosedRowsStay` | `cancel_order` writes back the row it read before it waited for the market's lock: an order filled meanwhile becomes CANCELLED without its fill, and its money is unfrozen although it has been spent. |
| `sessions_batch_hang` | `BatchCancelEnds` | `batch_cancel` holds row locks and waits for the market's lock; a `place_order` that holds this lock waits for one of the rows. No one sees the cycle: the market stands still until the process is restarted. |
| `sessions_settled` | `SettledIsFinal` | `resolve_market` next to a `place_order` that has passed `check_market_active`: an order or a trade is committed into the settled market. |

`CashConserved`, `PendingBacked` and `ClaimsCovered` hold under stated conditions
only: the first with `taker_fee_bps` at its default of 20, the others without the AMM's
replacement, which can give a freeze back twice. `NoLostUpdate`, `MatchSeesCommitted` and `NoTradeAfterCancel` are
stated for a market that is still active, and leave out cancelled rows where
`ClosedRowsStay` fails: what holds of an active market in spite of the stale
cancellation is that totals and positions count every trade once and that
cancelled orders are not traded any more.

Other disagreements, which the models contain but no run is spent on: the
refund of a taker's fee is `max_fee - actual_fee` at 20 basis points, paid
without being taken out of the frozen balance, so that a market with another
`taker_fee_bps` makes or destroys money (`fee_collector.py:37`); a maker's
allowance for a fee it does not pay stays frozen (`mint.py:44`; the design says
at `03_撮合引擎与清算流程设计.md:2308` that the refund prevents this); an order
that was cancelled can be replaced, and its freeze is given back once more
(`engine.py:413`); of two deliveries of one `client_order_id` at the same time
the second ends in an IntegrityError and drops the book, where
`02_API接口契约.md:718` promises the existing order; a market cursor that cannot
be decoded gives the first page again (`pm_market/application/schemas.py:41`);
`rotate(-1)` costs a user's own orders their time priority (the header of
`matching_algo.py` speaks of price-time priority; `OnlyOwnerLosesPlace` is what
holds); a level of own orders ends a match although the design skips own orders
(`StopsOnlyAtOwn` is what holds); `_sync_frozen_amount` may leave rows that
claim more than is frozen, because the fee is rounded up per order and per
fill (`ClaimsCovered` bounds by how much); a taker who buys NO is charged a fee on 0 (`matching_algo.py:117`); only
the buyer of a trade is netted (`engine.py:187`); a trade of the AMM with
itself, which `self_trade.py` wants, is refused by `ck_trades_diff_users`; the
ledger does not replay an account's balance: `check_and_freeze` and the engine
write `balance_after` 0 (`balance_check.py:62`, `engine.py:271` and `:327`), where
`pm_account/domain/models.py:50` has "available_balance snapshot after op", and
clearing, fees, netting, settlement, `batch_cancel` and `resolve_market` change
`available_balance` without an entry, so that from a user's first buy order on only the
account's row says what the user has; and
`next_id` reissues ids when the wall clock is set back.

Each property has a mutant in `PROJECT.json`: a faulty form of one mapped
definition, defined before it and marked "Faulty", under which TLC finds the
property violated.

## Proofs

TLAPS proves the following for every value of the constants. What is assumed of
them are the ASSUMEs of the modules: prices, sizes and bounds are natural
numbers, sizes and amounts positive; exempt users are users; the machine id is
in range. The exchange adds that there are finitely many users and `Platform`
is none of them (`FiniteUsers`, `PlatformAssumption`), that its book has all
four kinds of order and every size up to the limit (`AllTypesAssumption`,
`AllSizesAssumption`), that requests are well-formed (`RequestsAssumption`; the
schema of the endpoint sees to it, and prices may still be out of range), and
that the shares with which users enter the model come in pairs that have been
paid for (`PairsAssumption`), as they do after any run of mints. Sessions adds
that ids are finitely many and that rows of different tables are different
(`IdsAssumption`, `RowsAssumption`).

**CollectionProofs.** Sums over finite sets are computed by a fold, and the
usual way to reason about one is an induction for which the provers at hand
lack the rule. Here a natural number that violates a fact is replaced by the
least one (`LeastNat`), which gives the facts of `SumOver` by contradiction: a
sum over a set is that over the rest plus one element's share, sums of equal
functions are equal, differences are sums of differences, and so on.
`SumFibres` adds a sum up by groups, such as the orders of each price or the
trades of each maker; `SumRenamed`, `SumSupport` and `SumAtMost` compare sums
over different sets. `DroppedProperties` says what `Dropped` leaves: the places of the orders that
stay are an increasing enumeration (`Enumerates`) of those not dropped.

**OrderBookProofs.** `Inductive` shows `Spec => []IInv`, where `IInv` is the
conjunction of the six invariants of the run `book` with three that they need:
`ScanInv`, what the loop knows while it scans a level (`total` is the length
of the queue, the last `checked` orders are the taker's own, no level is better
than the one scanned); `FreshIds`, that ids in the book and in the trades are
below the next one and the taker's is not in the book; `FillInv`, that the
level to come is no better for the taker than the fills made and that, while
the taker has quantity left, the makers of its fills have left the book.
`StopsOnlyAtOwn` follows from `ScanInv` when the scan ends with `checked =
total`; `FillsInPriceOrder` from `BestIsBest` and `FillInv`. The lemmas go
action by action; `Reindex`, `SameIds` and `PopKeepsAgreement` treat the three
ways in which a level changes. `TypeCorrect`, `BestPriceCorrect`,
`IndexCorrect`, `RestsOnceCorrect`, `FillsCorrect` and `MatchComplete` are its
consequences. `PlacesKept` proves the action property `OnlyOwnerLosesPlace`: in
a rotation the orders that change places are the ones in front of `checked`,
which `ScanInv` knows to be the taker's own. `MatchDescends` proves
`MatchAdvances`: each iteration lowers, in lexicographic order, the triple of
what the taker still wants, the place in the loops and the orders of the level
not yet looked at. Natural numbers they are by `ScanInv`, and a level is taken
up only when it holds orders, by `BestIsBest`. That no match runs through
infinitely many iterations follows from the order being well-founded; that it
gets to its end also needs every iteration to be possible and to be taken,
which is `MatchTerminates` and stays with TLC.

**ClearingProofs.** The books of a market are balanced when four differences
are zero: of YES shares and the market's YES total, of NO shares and theirs, of
the reserve and what the pairs are worth, of costs and booked profits and the
reserve. `Shifted` says by how much an operation moves each of them and the sum
of all money. The lemmas follow the code from one `Credit`, `Hold` or `Tally`
to `Acquire` and `Dispose`, of which each alone unbalances the books, to the
four scenarios, after which they are balanced again (`TradeBalanced`), to fees,
netting, freezing, unfreezing and the settlement, which pays the reserve out
exactly (`SettlementBalanced`). `NettingChecks` and `FreezeChecks` say that the
CHECK constraints that the code does not test itself cannot fail there.

**ExchangeProofs.** `ExchangeImplementsBook` is the refinement `BookSpec`, from
`BInv`: `IInv` of the order book and that nothing of the last match is left
between requests. The theorems of OrderBookProofs therefore hold of the
exchange. `LedgerInductive` has `LInv` in addition: `Kept` (the ledger passes
the CHECK constraints, its books are balanced and it holds what has been
deposited) and `RowsOK` (the rows of orders do) for the current state and for
the one to which the open transaction would be rolled back; without the second
part a rollback would not preserve the first. Its consequences are
`ExchangeTypesCorrect`, `SharesCorrect`, `CostsCorrect` and `CashCorrect`, with
the AMM's endpoints and for every fee rate except for `CashCorrect`, which
assumes `FeeBps = FreezeBps`: at other rates the refund of a taker's fee makes
or destroys money, as the findings say, and the hypothesis is the default of
the schema.

**RowsProofs.** Book and orders table differ while the trades of a match are
cleared: the book is ahead by the trades not yet cleared (`Unapplied`). `RInv`
says so for orders that rest (`RestingBacked`), for makers that have left the
book (`FillsBacked`) and for the taker, whose row shows the outcome of the
whole match from its first trade on (`TakerBacked`). Between requests no trade
is left and `RInv` is `BookBacked`: `BookIsBacked`. `CommittedKept` compares
the rows with those at the start of the transaction and gives the action
property `TerminalRowsStay` at the commit: `TerminalRowsKept`. `PInv` adds the
shares that sell orders have pending: `CommittedPend` (what is pending is what
active rows offer, at the last commit) and `PendAhead` (in a transaction: up to
the trades that are left, `Left`, for which `SizesAddUp` relates trades and
taker). `PendingIsBacked` is stated for `UserSpec` alone: the AMM can replace
an order that was cancelled, which gives its freeze back twice, and
`PendingBacked` does not hold there. `ShownIsHad` relates the view to the
match. `VInv` adds to `RInv` that, until the first trade is cleared, the active
rows are those the transaction found and each trade is at the book price of its
maker's row (`RowsAsFound`). What the view offers an order, on either side, is
the remainders of the active rows it crosses, grouped by level (`ShownSum`;
`OffersAre` and `MirrorBetter` see to the NO side); what the order gets is the
sum over its makers of what was taken from each (`FilledSum`, each maker once
by `FillsInPriceOrder`). Every maker crosses, and no more is taken from one
than it had left (`MakersCross`), which bounds the fills by the levels when
all are shown. If the order is not filled, each of its makers was used up, and
by `StopsOnlyAtOwn` no crossing row of somebody else is left in the book: all
were taken in full (`AllCrossingTaken`).

**SessionsProofs.** `SessionsInductive` is what every statement may rely on
while requests of all kinds interleave, fail and are cut off by a restart.
`SInv` has for each request (`Sound`) the types of what it has read and written
with `filled <= quantity` for every row (`Shape`), what must be there at each
statement (`Stage`), which rows are locked (`Locks`), that what a taker has
frozen is there to be spent (`Funds`), and that the orders it deals with are
committed except its own (`Knows`). Across requests it has `Apart` (no row, no
id and no key of a new order in common, which is the row lock and the unique
index), `Mutex` (whose turn it is, and who waits), `BookOK` (an order in the
book has a committed row, or its request stands before its commit) and `Room`:
neither the committed row of an order in the book, nor any copy that a request
has read, nor what a transaction has written counts more as filled than leaves
room for what the book has left. The last is what keeps `filled <= quantity`
although `cancel_order` writes stale rows back and `resolve_market` takes no
lock. `Committed` is about the committed rows and contains `OneRowPerKey`. The
proof has a lemma for each statement; those that touch neither book nor
committed rows are all cases of `StepKeeps`. `SessionsTypes` and
`KeysServeOnce` are its consequences.

`ActiveInductive` adds `AInv`, what requests know of totals and fills while the
market is active; once `resolve_market` has settled it, the findings say what
is lost. `NoLostUpdate` is part of it and not inductive by itself, since every
request writes back absolute values that it read before. `Totals` says that the
totals held by the request that has the market's row locked are those of the
committed trades plus its own; `Status`, that the write of the market's row
keeps the status; `Fills`, that the matched order is active, that the copy of
its row is the committed one and that what is written counts one fill more;
`Gone`, that any other order a request has written is cancelled, out of the
book and matched by nobody. `BookRows` relates book and rows: what the book has
left of an order is the remainder of its active committed row, except while one
trade is in progress (the book is one unit ahead) and for a new order whose
request stands before its commit. The request at `lock_market` rules both
exceptions out, since either would hold the row lock it has just got
(`SeesCommitted`): `CommittedRowsMatch`. `TradesCountOnce` is about
`NoLostUpdate`, for whose step at the commit `NewTrade` counts the trades of
each order. `TradesOfActiveOrders` is the action property `NoTradeAfterCancel`:
only a commit adds a trade (`TradesGrow`), and `Fills` holds before it.

**AccountsProofs.** `AccountInductive` adds to the type invariant: `OneWriter`,
that an account has at most one transaction in progress, which is the row lock;
and `IdsBelow`, that an id drawn is above those of the account's ledger, which
holds because the INSERT comes after the UPDATE and the row stays locked until
the commit. `BalancesLegal` follows. `AccountsSerializable` proves the refinement: `Computed` says which
operation, on the row still committed, a transaction has carried out, and
`CommitIsSerial` and `SilentIsSerial` that a commit is then a step of SerialAccounts; every other
step leaves the committed rows alone. `PagingInv` says that what the client has
seen, followed by what its cursor will still find, is what was there when it
began, and that the cursor is the id of a committed entry; commits, whose ids
are higher by `IdsBelow`, change nothing below it. A set of ids has only one
descending listing (`OneList`), so the pages cut from it add up: `PagesCorrect`.

**ListingsProofs.** Ids are ordered like the pairs of timestamp and sequence;
`IdInv` relates the last id to `last` and `sequence` and to a clock that is
never behind. `IdsAlwaysIncrease` and `IdTypesCorrect` follow, and hold under
everything that goes on in Listings (`ListsDraw`, `RowIdsIncrease`). With them
`RowsInv` knows every row of orders and trades by an id of the millisecond in
its `at`, so that ids and times order rows alike: what the cursor excludes by
id is what the ORDER BY puts before it by time (`BeyondIsOlder`). A finite set
of such rows can be listed in order (`OrderExists`), so the CHOOSE of `Query`
picks a listing. `ClientInv` says that what the client wants it has seen or will
find beyond its cursor, and that the cursor is the last row seen; `PageRead`
that a page keeps this, `StillReads` and `CloseKeepsClient` that commits and
closed rows between the pages do. `NothingIsSkipped` and `SeenInOrder` follow.
The seeded markets are assumed to have different ids, their primary key
(`MarketsAssumption`).

Only model-checked: `MatchTerminates` and `RequestsEnd`, since liveness is
beyond the prover, and `ClaimsCovered`, which rests on how sums of rounded fees
compare with fees on sums. Every other invariant and every other action property that
a run checks is proved.

## Plan

What is left: a proof of `ClaimsCovered`, from the costs and fees of the trades
that are not cleared yet, as `PInv` counts their shares; and the step of ids to
19 digits in `Listings`, with ids compared as strings.

## Not modelled

- AMM mint and burn (`mint_service.py`, `burn_service.py`, `amm_router.py` of
  `pm_clearing`). No request to them can take effect at this commit: the
  routers open a transaction with `db.begin()` on a session in which
  `get_current_user` has begun one already, which SQLAlchemy refuses; the
  statements name columns that migrations 006 and 008 do not create; and a burn
  leaves the totals as they were, which `ck_markets_reserve_consistency`
  refuses. A model would contain none of their effects.
- Registration, login, tokens and request logging: no state that trading
  depends on but the account row, with which `Accounts` starts.
- The repository's freezes of funds and of positions and
  `get_or_create_position`: no caller. Orders freeze through `check_and_freeze`.
- `rebuild_orderbook`: no caller (`exchange_book_complete`).
- A commit that fails after the engine has returned: nothing handles it.
- The connection pool (20 and 10 more), error classes, wiring, formatting of
  responses, `last_trade_price`, market statistics.
