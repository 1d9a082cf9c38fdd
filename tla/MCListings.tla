----------------------------- MODULE MCListings -----------------------------
(* Listings for TLC: three markets, two of them created at the same time.    *)
EXTENDS Listings

MCMarkets == {[id |-> 1, at |-> 0, open |-> TRUE], [id |-> 2, at |-> 1, open |-> TRUE],
              [id |-> 3, at |-> 1, open |-> TRUE]}
=============================================================================
