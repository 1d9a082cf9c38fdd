----------------------------- MODULE MCExchange -----------------------------
(* Small instances of Exchange: who asks for what, and what they start with. *)
EXTENDS MarketView

CONSTANTS alice, bob, amm

Req(u, side, direction, price, qty, tif) ==
  [user |-> u, side |-> side, direction |-> direction, price |-> price,
   qty |-> qty, tif |-> tif]

MCCash == [u \in Users |-> 8]

\* alice has bought two YES at 1 and the other user the two NO of the pairs.
PairsHeld ==
  [u \in Users |-> [s \in Outcomes |->
     IF u = alice /\ s = "YES" THEN [vol |-> 2, cost |-> 2]
     ELSE IF u # alice /\ s = "NO" THEN [vol |-> 2, cost |-> 2 * Par - 2]
     ELSE [vol |-> 0, cost |-> 0]]]

\* Every kind of order of size one at every price
UnitRequests ==
  {Req(u, side, direction, price, 1, "GTC") :
     u \in {alice, bob}, side \in Outcomes, direction \in {"BUY", "SELL"},
     price \in Prices}

\* Orders of sizes one and two at both prices, one of them IOC: alice sells
\* what she holds, bob's orders may meet each other.
SizedRequests ==
  {Req(alice, "YES", "SELL", 1, 2, "GTC"), Req(alice, "YES", "SELL", 2, 1, "GTC")}
  \union {Req(bob, "YES", "BUY", price, 1, "GTC") : price \in Prices}
  \union {Req(bob, "YES", "BUY", 2, 2, "IOC")}
  \union {Req(alice, "NO", "BUY", 2, 1, "GTC"), Req(bob, "NO", "BUY", 1, 1, "GTC")}
  \union {Req(bob, "NO", "SELL", 2, 2, "GTC")}

\* The AMM bids and offers on both outcomes, its own orders crossing, and
\* alice trades with it.
AmmRequests ==
  {Req(amm, "YES", "BUY", 1, qty, "GTC") : qty \in {1, 2}}
  \union {Req(amm, "NO", direction, 2, 1, "GTC") : direction \in {"BUY", "SELL"}}
  \union {Req(alice, "YES", direction, 1, 1, "GTC") : direction \in {"BUY", "SELL"}}
=============================================================================
