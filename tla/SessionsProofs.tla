--------------------------- MODULE SessionsProofs ---------------------------
(* Proofs about Sessions: what every statement of every request may rely on  *)
(* while other requests run next to it.                                      *)
EXTENDS Sessions, CollectionProofs

-----------------------------------------------------------------------------
(* The invariant: what a request has read, written and locked.               *)

Fields == {"at", "key", "id", "fill", "sets", "paid", "copy", "w"}

ClearingSteps == {"settle", "read_maker", "write_maker"}
MatchedSteps == ClearingSteps \cup {"finalize"}
SavedSteps == MatchedSteps \cup {"lock_market"}
FrozenSteps == SavedSteps \cup {"save"}
PlaceSteps == FrozenSteps \cup {"check", "freeze"}
CancelSteps == {"unfreeze", "write_back"}
BatchSteps == {"bulk_cancel", "bulk_unfreeze"}
ResolveSteps == {"read_open", "cancel_open", "clear", "settle_market"}

\* A row of orders; a row that does not exist yet has no key.
Whole(row) == row \in OrderRow /\ row.filled <= Quantity(row.key)

RowOK(r, v) == RowTypeOK(r, v) /\ (r \in Ids => Whole(v))

\* The request and its transaction t
Shape(t) ==
  /\ DOMAIN t = Fields
  /\ t.at \in Labels /\ t.key \in Keys \cup {None}
  /\ {t.id, t.fill} \subseteq Ids \cup {None} /\ {t.sets, t.paid} \subseteq Nat
  /\ DOMAIN t.copy \subseteq Ids /\ \A i \in DOMAIN t.copy : Whole(t.copy[i])
  /\ DOMAIN t.w \subseteq Rows /\ \A r \in DOMAIN t.w : RowOK(r, t.w[r])

\* What the statement at which t stands finds in t
Stage(t) ==
  /\ t.at = "idle" => t = Idle
  /\ t.key = None <=> t.id = None
  /\ t.key # None => t.at \in PlaceSteps \cup CancelSteps \cup {"commit"}
  /\ t.at \in PlaceSteps => t.key # None
  /\ t.at \in CancelSteps => t.key \notin BuyKeys /\ \E i \in Ids : DOMAIN t.copy = {i}
  /\ t.at = "unfreeze" => DOMAIN t.w = {}
  /\ t.at \in BatchSteps => DOMAIN t.copy \subseteq DOMAIN t.w
  /\ t.fill # None => t.key \in BuyKeys /\ t.at \in MatchedSteps \cup {"commit"}
  /\ t.at \in ClearingSteps => t.fill # None
  /\ t.at = "write_maker" => DOMAIN t.copy = {t.fill}

\* The rows t has locked
Locks(t) ==
  /\ t.at \in FrozenSteps => User(t.key) \in DOMAIN t.w
  /\ t.key # None => (t.id \in DOMAIN t.w <=> t.at \in SavedSteps \cup {"commit"})
  /\ t.key # None /\ t.at \in MatchedSteps \cup {"commit"} => "market" \in DOMAIN t.w
  /\ t.key \in BuyKeys /\ t.at \notin {"finalize", "commit"} =>
       DOMAIN t.w \cap Ids \subseteq {t.id}

\* What a taker has frozen it can spend once; a new order of the maker has no fill.
Funds(t) ==
  /\ t.key \in BuyKeys =>
       /\ t.at \in {"save", "lock_market", "settle"} => t.w[t.key].frozen >= 1
       /\ t.at \in {"read_maker", "write_maker"} => t.w[t.id].status = "FILLED"
       /\ t.at = "finalize" /\ Active(t.w[t.id]) => t.w[t.key].frozen >= 1
  /\ t.key \in MakerKeys /\ t.id \in DOMAIN t.w => t.w[t.id].filled = 0

\* The orders t has to do with are committed, except its own new one.
Knows(t) ==
  /\ \A i \in DOMAIN t.copy : IsOrder(db[i]) /\ IsOrder(t.copy[i]) /\ t.copy[i].key = db[i].key
  /\ \A i \in Ids \cap DOMAIN t.w :
       /\ IsOrder(t.w[i])
       /\ \/ IsOrder(db[i]) /\ t.w[i].key = db[i].key
          \/ i = t.id /\ t.w[i].key = t.key
  /\ t.fill # None => IsOrder(db[t.fill]) /\ db[t.fill].key \in MakerKeys
  /\ t.id # None => ~IsOrder(db[t.id])
  /\ t.id # None /\ t.id \in DOMAIN t.w => \A j \in Ids : db[j].key # t.key

\* Committed rows
Committed ==
  /\ DOMAIN db = Rows /\ \A r \in Rows : RowOK(r, db[r])
  /\ \A i \in Ids : (IsOrder(db[i]) <=> db[i].key # None) /\ (IsOrder(db[i]) \/ db[i].filled = 0)
  /\ OneRowPerKey
  /\ \A t \in trades : t \in Ids \X Ids /\ IsOrder(db[t[1]]) /\ IsOrder(db[t[2]])

\* Two requests have no row, no id and no key of a new order in common.
Apart ==
  \A s, t \in Sessions : s # t =>
    /\ DOMAIN tx[s].w \cap DOMAIN tx[t].w = {}
    /\ tx[s].id # None => tx[s].id # tx[t].id
    /\ tx[s].id # None /\ tx[t].id # None /\ tx[s].id \in DOMAIN tx[s].w /\ tx[t].id \in DOMAIN tx[t].w =>
         tx[s].key # tx[t].key

\* The statements of t that run under the market's lock, and those that wait for it
Inside(t) ==
  \/ t.at \in (PlaceSteps \ {"check"}) \cup {"write_back", "bulk_unfreeze"}
  \/ t.at = "check" /\ DOMAIN t.copy # {}
Queueing(t) == t.at \in {"check", "unfreeze", "bulk_cancel"}

Mutex ==
  /\ queue \in Seq(Sessions)
  /\ \A m, n \in 1 .. Len(queue) : m # n => queue[m] # queue[n]
  /\ \A n \in 1 .. Len(queue) : tx[queue[n]].at \notin {"idle", "commit"} \cup ResolveSteps
  /\ \A s \in Sessions : Inside(tx[s]) => Holds(s)
  /\ \A s \in Sessions : Queueing(tx[s]) => \E n \in 1 .. Len(queue) : queue[n] = s

\* Orders in the book are committed, or will be by a request that has ended
\* but for its commit.
BookOK ==
  /\ book \in Seq([id : Ids, qty : 1 .. Lot])
  /\ \A m, n \in 1 .. Len(book) : m # n => book[m].id # book[n].id
  /\ \A n \in 1 .. Len(book) :
       \/ IsOrder(db[book[n].id]) /\ db[book[n].id].key \in MakerKeys
       \/ \E s \in Sessions : /\ tx[s].at = "commit" /\ tx[s].id = book[n].id
                              /\ tx[s].key \in MakerKeys
  /\ \A n \in 1 .. Len(book), s \in Sessions : tx[s].id = book[n].id => tx[s].at = "commit"

\* No committed row of order i, no copy of it and nothing that the requests S
\* have written to it counts more than m as filled.
AtMost(i, S, m) ==
  /\ db[i].filled <= m
  /\ \A t \in Sessions : i \in DOMAIN tx[t].copy => tx[t].copy[i].filled <= m
  /\ \A t \in S : i \in DOMAIN tx[t].w => tx[t].w[i].filled <= m

\* What is in the book, or has just been taken from it, can still be filled.
Room ==
  /\ \A n \in 1 .. Len(book) : AtMost(book[n].id, Sessions, Lot - book[n].qty)
  /\ \A s \in Sessions : tx[s].fill # None =>
       /\ AtMost(tx[s].fill, Sessions \ {s}, Lot - 1)
       /\ \A n \in 1 .. Len(book) :
            book[n].id = tx[s].fill => AtMost(tx[s].fill, Sessions \ {s}, Lot - 1 - book[n].qty)

Sound(t) == Shape(t) /\ Stage(t) /\ Locks(t) /\ Funds(t) /\ Knows(t)
Requests == DOMAIN tx = Sessions /\ \A s \in Sessions : Sound(tx[s])

SInv == Requests /\ Committed /\ Apart /\ Mutex /\ BookOK /\ Room

-----------------------------------------------------------------------------
(* What a step of one request leaves alone.                                  *)

\* The book c is b without some of its orders.
Within(c, b) ==
  /\ c \in Seq([id : Ids, qty : 1 .. Lot])
  /\ \E f \in [1 .. Len(c) -> 1 .. Len(b)] :
       /\ \A m \in 1 .. Len(c) : c[m] = b[f[m]]
       /\ \A m, k \in 1 .. Len(c) : m # k => f[m] # f[k]

\* The orders of the book c are orders of b.
Among(c, b) ==
  /\ c \in Seq([id : Ids, qty : 1 .. Lot])
  /\ \E f \in [1 .. Len(c) -> 1 .. Len(b)] :
       /\ \A m \in 1 .. Len(c) : c[m].id = b[f[m]].id
       /\ \A m, k \in 1 .. Len(c) : m # k => f[m] # f[k]

\* What n says of a row's fills is what t or the database said, but for t's own
\* new order and the maker it has matched.
Grounded(t, n) ==
  /\ \A i \in DOMAIN n.copy :
       \/ n.copy[i].filled = db[i].filled
       \/ i \in DOMAIN t.copy /\ n.copy[i].filled = t.copy[i].filled
  /\ \A i \in Ids \cap DOMAIN n.w :
       \/ n.w[i].filled = db[i].filled
       \/ i \in DOMAIN t.copy /\ n.w[i].filled = t.copy[i].filled
       \/ i \in DOMAIN t.w /\ n.w[i].filled = t.w[i].filled
       \/ i \in DOMAIN t.copy /\ i = t.fill /\ n.w[i].filled = t.copy[i].filled + 1
       \/ i = t.id

\* The session s takes its request from tx[s] to n.
Moves(s, n) == tx' = [tx EXCEPT ![s] = n] /\ UNCHANGED <<db, trades>>

(* The other requests stay as they are. *)
LEMMA MoveFacts ==
  ASSUME Requests, NEW s \in Sessions, NEW n, Moves(s, n)
  PROVE  /\ DOMAIN tx' = Sessions /\ tx'[s] = n /\ db' = db /\ trades' = trades
         /\ \A t \in Sessions : t # s => tx'[t] = tx[t]
BY DEF Moves, Requests

(* If the new state of one request is sound, all are. *)
LEMMA RequestsKept ==
  ASSUME SInv, NEW s \in Sessions, NEW n, Moves(s, n), Sound(n)
  PROVE  Requests' /\ Committed'
<1>1. /\ DOMAIN tx' = Sessions /\ tx'[s] = n /\ db' = db /\ trades' = trades
      /\ \A t \in Sessions : t # s => tx'[t] = tx[t]
  BY MoveFacts DEF SInv
<1>2. ASSUME NEW t PROVE Knows(t)' <=> Knows(t)
  BY <1>1 DEF Knows
<1>3. ASSUME NEW t \in Sessions PROVE Sound(tx[t])'
  <2>1. PICK r : r = tx'[t]
    OBVIOUS
  <2>2. Sound(r)
    BY <1>1, <2>1 DEF SInv, Requests
  <2> QED BY <1>2, <2>1, <2>2 DEF Sound
<1>4. Committed'
  BY <1>1 DEF SInv, Committed, OneRowPerKey
<1> QED BY <1>1, <1>3, <1>4 DEF Requests

(* Requests stay apart if the rows that are added are free. *)
LEMMA ApartKept ==
  ASSUME SInv, NEW s \in Sessions, NEW n, Moves(s, n),
         \A t \in Sessions : t # s => DOMAIN n.w \cap DOMAIN tx[t].w = {},
         n.id # None => \A t \in Sessions : t # s => tx[t].id # n.id,
         n.id # None /\ n.id \in DOMAIN n.w =>
           \A t \in Sessions : t # s /\ tx[t].id # None /\ tx[t].id \in DOMAIN tx[t].w => tx[t].key # n.key
  PROVE  Apart'
<1>1. /\ DOMAIN tx' = Sessions /\ tx'[s] = n /\ \A t \in Sessions : t # s => tx'[t] = tx[t]
  BY MoveFacts DEF SInv
<1> QED BY <1>1 DEF SInv, Apart

(* No other request has the id of s. *)
LEMMA OwnId ==
  ASSUME SInv, NEW s \in Sessions, tx[s].id # None
  PROVE  \A t \in Sessions : t # s => tx[t].id # tx[s].id
BY DEF SInv, Apart

(* What the orders of the book are. *)
LEMMA BookFacts ==
  ASSUME SInv
  PROVE  /\ Len(book) \in Nat
         /\ \A k \in 1 .. Len(book) : /\ book[k].id \in Ids /\ book[k].id # None
                                      /\ book[k].qty \in 1 .. Lot
<1> DEFINE T == [id : Ids, qty : 1 .. Lot]
<1>1. book \in Seq(T)
  BY DEF SInv, BookOK
<1>2. \A o \in T : o.id \in Ids /\ o.id # None /\ o.qty \in 1 .. Lot
  BY SessionsAssumption
<1> HIDE DEF T
<1>3. Len(book) \in Nat /\ \A k \in 1 .. Len(book) : book[k] \in T
  BY <1>1
<1> QED BY <1>2, <1>3

(* Orders may leave the book. *)
LEMMA BookKept ==
  ASSUME SInv, NEW s \in Sessions, NEW n, Moves(s, n), tx[s].at # "commit", Among(book', book),
         n.id # None => \A k \in 1 .. Len(book) : book[k].id # n.id
  PROVE  BookOK'
<1>1. /\ DOMAIN tx' = Sessions /\ tx'[s] = n /\ db' = db
      /\ \A t \in Sessions : t # s => tx'[t] = tx[t]
  BY MoveFacts DEF SInv
<1>2. PICK c : c = book'
  OBVIOUS
<1>3. PICK f \in [1 .. Len(c) -> 1 .. Len(book)] :
        /\ \A m \in 1 .. Len(c) : c[m].id = book[f[m]].id
        /\ \A m, k \in 1 .. Len(c) : m # k => f[m] # f[k]
  BY <1>2, SMTT(60) DEF Among
<1>4. c \in Seq([id : Ids, qty : 1 .. Lot])
  BY <1>2 DEF Among
<1>5. \A m, k \in 1 .. Len(c) : m # k => c[m].id # c[k].id
  <2>1. \A m, k \in 1 .. Len(book) : m # k => book[m].id # book[k].id
    BY DEF SInv, BookOK
  <2> QED BY <1>3, <2>1
<1>6. ASSUME NEW m \in 1 .. Len(c)
      PROVE  \/ IsOrder(db[c[m].id]) /\ db[c[m].id].key \in MakerKeys
             \/ \E t \in Sessions : tx'[t].at = "commit" /\ tx'[t].id = c[m].id /\ tx'[t].key \in MakerKeys
  <2>1. PICK k \in 1 .. Len(book) : c[m].id = book[k].id
    BY <1>3
  <2>2. CASE IsOrder(db[book[k].id]) /\ db[book[k].id].key \in MakerKeys
    BY <2>1, <2>2
  <2>3. ASSUME NEW t \in Sessions, tx[t].at = "commit", tx[t].id = book[k].id, tx[t].key \in MakerKeys
        PROVE  tx'[t].at = "commit" /\ tx'[t].id = c[m].id /\ tx'[t].key \in MakerKeys
    BY <1>1, <2>1, <2>3
  <2> QED BY <2>2, <2>3 DEF SInv, BookOK
<1>7. ASSUME NEW m \in 1 .. Len(c), NEW t \in Sessions, tx'[t].id = c[m].id
      PROVE  tx'[t].at = "commit"
  <2>1. PICK k \in 1 .. Len(book) : c[m].id = book[k].id
    BY <1>3
  <2>2. book[k].id \in Ids /\ book[k].id # None
    BY BookFacts
  <2>3. CASE t = s
    BY <1>1, <1>7, <2>1, <2>2, <2>3
  <2>4. CASE t # s
    <3>1. tx'[t] = tx[t] /\ tx[t].id = book[k].id
      BY <1>1, <1>7, <2>1, <2>4
    <3>2. tx[t].id = book[k].id => tx[t].at = "commit"
      BY DEF SInv, BookOK
    <3> QED BY <3>1, <3>2
  <2> QED BY <2>3, <2>4
<1> QED BY <1>1, <1>2, <1>4, <1>5, <1>6, <1>7 DEF BookOK

(* Rows of orders are none of the other rows. *)
LEMMA RowsOfIds ==
  ASSUME SInv
  PROVE  /\ \A i \in Ids : i \in Rows /\ Whole(db[i]) /\ i \notin Users /\ i \notin {"market", "shares"}
         /\ \A t \in Sessions : \A i \in Ids \cap DOMAIN tx[t].w : Whole(tx[t].w[i])
<1>1. \A i \in Ids : i \in Rows /\ i \notin Users /\ i \notin {"market", "shares"}
  BY RowsAssumption DEF Rows, Users
<1> QED BY <1>1 DEF SInv, Committed, Requests, Sound, Shape, RowOK

(* A bound on the fills of a row holds for what is grounded in it. *)
LEMMA AtMostKept ==
  ASSUME SInv, NEW s \in Sessions, NEW n, Moves(s, n), tx[s].at # "commit", Sound(n),
         Grounded(tx[s], n), n.fill = tx[s].fill \/ DOMAIN n.w = {},
         NEW i \in Ids, i # tx[s].id, NEW S \in SUBSET Sessions, NEW m \in Int,
         AtMost(i, S, m), s \in S => i # tx[s].fill
  PROVE  AtMost(i, S, m)'
<1>1. /\ DOMAIN tx' = Sessions /\ tx'[s] = n /\ db' = db
      /\ \A t \in Sessions : t # s => tx'[t] = tx[t]
  BY MoveFacts DEF SInv
<1>2. PICK t : t = tx[s]
  OBVIOUS
<1>3. Shape(t) /\ Shape(n) /\ Whole(db[i])
  BY <1>2, RowsOfIds DEF SInv, Requests, Sound, Committed
<1>4. i \in DOMAIN n.copy => n.copy[i].filled <= m
  BY <1>2, <1>3 DEF AtMost, Grounded, Shape, Whole, OrderRow
<1>5. s \in S /\ i \in DOMAIN n.w => n.w[i].filled <= m
  BY <1>2, <1>3 DEF AtMost, Grounded, Shape, Whole, RowOK, OrderRow
<1> QED BY <1>1, <1>4, <1>5 DEF AtMost

(* At most one request has matched and not ended: it has locked the market. *)
LEMMA OneMatched ==
  ASSUME SInv, NEW s \in Sessions, NEW t \in Sessions, tx[s].fill # None, tx[t].fill # None
  PROVE  s = t
<1>1. "market" \in DOMAIN tx[s].w /\ "market" \in DOMAIN tx[t].w
  BY SessionsAssumption DEF SInv, Requests, Sound, Stage, Locks
<1> QED BY <1>1 DEF SInv, Apart

(* A matched order is committed. *)
LEMMA FillFacts ==
  ASSUME SInv, NEW t \in Sessions, tx[t].fill # None
  PROVE  /\ tx[t].fill \in Ids /\ IsOrder(db[tx[t].fill])
         /\ \A s \in Sessions : tx[s].id # tx[t].fill
<1>1. tx[t].fill \in Ids /\ IsOrder(db[tx[t].fill])
  BY DEF SInv, Requests, Sound, Shape, Knows
<1>2. \A s \in Sessions : tx[s].id # None => ~IsOrder(db[tx[s].id])
  BY DEF SInv, Requests, Sound, Knows
<1> QED BY <1>1, <1>2, SessionsAssumption

(* The fills of what is in the book or matched keep their bounds. *)
LEMMA RoomKept ==
  ASSUME SInv, NEW s \in Sessions, NEW n, Moves(s, n), tx[s].at # "commit", Sound(n),
         Grounded(tx[s], n), n.fill = tx[s].fill \/ (n.fill = None /\ DOMAIN n.w = {}),
         Within(book', book)
  PROVE  Room'
<1>1. /\ DOMAIN tx' = Sessions /\ tx'[s] = n /\ db' = db
      /\ \A t \in Sessions : t # s => tx'[t] = tx[t]
  BY MoveFacts DEF SInv
<1>2. PICK c : c = book'
  OBVIOUS
<1>3. PICK f \in [1 .. Len(c) -> 1 .. Len(book)] : \A m \in 1 .. Len(c) : c[m] = book[f[m]]
  BY <1>2 DEF Within
<1>4. Lot \in Int
  BY SessionsAssumption
<1>5. Lot - 1 \in Int /\ \A q \in Int : Lot - q \in Int /\ Lot - 1 - q \in Int
  BY <1>4
<1>6. Lot \in Int /\ (n.fill = tx[s].fill \/ (n.fill = None /\ DOMAIN n.w = {}))
  BY SessionsAssumption
<1>7. \A k \in 1 .. Len(book) : book[k].id # tx[s].id
  BY DEF SInv, BookOK
<1> DEFINE Stays(i, S, m) == AtMost(i, S, m) /\ (s \in S => i # tx[s].fill) => AtMost(i, S, m)'
<1>8. ASSUME NEW i \in Ids, i # tx[s].id, NEW S \in SUBSET Sessions, NEW m \in Int
       PROVE  Stays(i, S, m)
  BY <1>6, <1>8, AtMostKept
<1> HIDE DEF Stays
<1>9. ASSUME NEW k \in 1 .. Len(book), NEW i \in Ids, NEW q \in Int, i = book[k].id, q = book[k].qty
      PROVE  AtMost(i, Sessions, Lot - q)'
  <2>1. AtMost(i, Sessions, Lot - q) /\ i # tx[s].id
    BY <1>7, <1>9 DEF SInv, Room
  <2>2. CASE i # tx[s].fill
    <3>1. PICK m \in Int : m = Lot - q
      BY <1>5
    <3>2. Stays(i, Sessions, m)
      BY <1>8, <2>1
    <3> QED BY <2>1, <2>2, <3>1, <3>2 DEF Stays
  <2>3. CASE i = tx[s].fill
    <3>1. i # None
      BY SessionsAssumption
    <3>2. AtMost(i, Sessions \ {s}, Lot - 1 - q)
      BY <1>9, <2>3, <3>1 DEF SInv, Room
    <3>3. AtMost(i, Sessions \ {s}, Lot - 1 - q)'
      <4>1. PICK m \in Int : m = Lot - 1 - q
        BY <1>5
      <4>2. PICK S \in SUBSET Sessions : S = Sessions \ {s}
        OBVIOUS
      <4>3. Stays(i, S, m)
        BY <1>8, <2>1
      <4> QED BY <3>2, <4>1, <4>2, <4>3 DEF Stays
    <3>4. i \in DOMAIN n.w => n.w[i].filled <= Lot - q
      <4>1. PICK t : t = tx[s]
        OBVIOUS
      <4>2. Shape(t) /\ Shape(n) /\ Whole(db[i])
        BY <4>1, RowsOfIds DEF SInv, Requests, Sound
      <4>3. /\ db[i].filled <= Lot - 1 - q
            /\ i \in DOMAIN t.copy => t.copy[i].filled <= Lot - 1 - q
            /\ i \in DOMAIN t.w => t.w[i].filled <= Lot - q
        BY <2>1, <3>2, <4>1 DEF AtMost
      <4>4. ASSUME i \in DOMAIN n.w
            PROVE  \/ n.w[i].filled = db[i].filled
                   \/ i \in DOMAIN t.copy /\ n.w[i].filled = t.copy[i].filled
                   \/ i \in DOMAIN t.w /\ n.w[i].filled = t.w[i].filled
                   \/ i \in DOMAIN t.copy /\ n.w[i].filled = t.copy[i].filled + 1
        BY <2>1, <4>1, <4>4 DEF Grounded
      <4>5. /\ db[i].filled \in Int /\ (i \in DOMAIN n.w => n.w[i].filled \in Int)
            /\ (i \in DOMAIN t.copy => t.copy[i].filled \in Int)
            /\ (i \in DOMAIN t.w => t.w[i].filled \in Int)
        BY <4>2 DEF Shape, Whole, RowOK, OrderRow
      <4> QED BY <1>6, <4>3, <4>4, <4>5
    <3>5. /\ db[i].filled \in Int
          /\ \A t \in Sessions : i \in DOMAIN tx'[t].copy => tx'[t].copy[i].filled \in Int
          /\ \A t \in Sessions : i \in DOMAIN tx'[t].w => tx'[t].w[i].filled \in Int
      <4>1. \A t \in Sessions : Shape(tx'[t])
        BY <1>1 DEF SInv, Requests, Sound
      <4>2. db[i].filled \in Int
        BY RowsOfIds DEF Whole, OrderRow
      <4> QED BY <4>1, <4>2 DEF Shape, Whole, RowOK, OrderRow
    <3>6. /\ db[i].filled <= Lot - 1 - q
          /\ \A t \in Sessions : i \in DOMAIN tx'[t].copy => tx'[t].copy[i].filled <= Lot - 1 - q
          /\ \A t \in Sessions \ {s} : i \in DOMAIN tx'[t].w => tx'[t].w[i].filled <= Lot - 1 - q
      BY <1>1, <3>3 DEF AtMost
    <3>7. /\ db[i].filled <= Lot - q
          /\ \A t \in Sessions : i \in DOMAIN tx'[t].copy => tx'[t].copy[i].filled <= Lot - q
          /\ \A t \in Sessions : i \in DOMAIN tx'[t].w => tx'[t].w[i].filled <= Lot - q
      <4>1. \A x \in Int : x <= Lot - 1 - q => x <= Lot - q
        BY <1>4
      <4> QED BY <1>1, <3>4, <3>5, <3>6, <4>1
    <3> QED BY <1>1, <3>7 DEF AtMost
  <2> QED BY <2>2, <2>3
<1>10. ASSUME NEW t \in Sessions, NEW i, i = tx'[t].fill, i # None
      PROVE  /\ AtMost(i, Sessions \ {t}, Lot - 1)'
             /\ \A k \in 1 .. Len(book) :
                  book[k].id = i => \A q \in Int : q = book[k].qty => AtMost(i, Sessions \ {t}, Lot - 1 - q)'
  <2>1. i = tx[t].fill
    BY <1>1, <1>6, <1>10
  <2>2. i \in Ids /\ i # tx[s].id
    BY <1>10, <2>1, FillFacts
  <2>3. s \in Sessions \ {t} => i # tx[s].fill
    BY <1>10, <2>1, OneMatched
  <2>4. AtMost(i, Sessions \ {t}, Lot - 1)
    BY <1>10, <2>1 DEF SInv, Room
  <2>7. PICK S \in SUBSET Sessions : S = Sessions \ {t}
    OBVIOUS
  <2>5. AtMost(i, Sessions \ {t}, Lot - 1)'
    <3>1. PICK m \in Int : m = Lot - 1
      BY <1>5
    <3>2. Stays(i, S, m)
      BY <1>8, <2>2
    <3> QED BY <2>3, <2>4, <2>7, <3>1, <3>2 DEF Stays
  <2>6. ASSUME NEW k \in 1 .. Len(book), book[k].id = i, NEW q \in Int, q = book[k].qty
        PROVE  AtMost(i, Sessions \ {t}, Lot - 1 - q)'
    <3>1. AtMost(i, Sessions \ {t}, Lot - 1 - q)
      BY <1>10, <2>1, <2>6 DEF SInv, Room
    <3>2. PICK m \in Int : m = Lot - 1 - q
      BY <1>5
    <3>3. Stays(i, S, m)
      BY <1>8, <2>2
    <3> QED BY <2>3, <2>7, <3>1, <3>2, <3>3 DEF Stays
  <2> QED BY <2>5, <2>6
<1>11. ASSUME NEW m \in 1 .. Len(c)
      PROVE  \E k \in 1 .. Len(book) : c[m] = book[k] /\ book[k].id \in Ids /\ book[k].qty \in Int
  BY <1>3, BookFacts
<1>12. ASSUME NEW m \in 1 .. Len(c), NEW i, i = c[m].id, NEW q, q = c[m].qty
      PROVE  /\ AtMost(i, Sessions, Lot - q)'
             /\ \A t \in Sessions : tx'[t].fill # None /\ i = tx'[t].fill =>
                  AtMost(i, Sessions \ {t}, Lot - 1 - q)'
  <2>1. PICK k \in 1 .. Len(book) : c[m] = book[k] /\ i \in Ids /\ q \in Int
    BY <1>11, <1>12
  <2> QED BY <1>9, <1>10, <1>12, <2>1
<1>13. \A m \in 1 .. Len(book') : AtMost(book[m].id, Sessions, Lot - book[m].qty)'
  BY <1>2, <1>12
<1>14. ASSUME NEW t \in Sessions, tx'[t].fill # None
       PROVE  (/\ AtMost(tx[t].fill, Sessions \ {t}, Lot - 1)
               /\ \A m \in 1 .. Len(book) :
                    book[m].id = tx[t].fill => AtMost(tx[t].fill, Sessions \ {t}, Lot - 1 - book[m].qty))'
  BY <1>2, <1>10, <1>12, <1>14
<1> QED BY <1>13, <1>14 DEF Room

(* The empty book, the same book and a book without some orders. *)
LEMMA WithinFacts ==
  ASSUME SInv
  PROVE  Within(<<>>, book) /\ Within(book, book) /\ \A ids : Within(Dropped(book, ids), book)
<1> DEFINE T == [id : Ids, qty : 1 .. Lot]
<1>1. book \in Seq(T)
  BY DEF SInv, BookOK
<1> HIDE DEF T
<1>2. Within(<<>>, book)
  <2>5. <<>> \in Seq(T) /\ Len(<<>>) = 0
    OBVIOUS
  <2>1. PICK e : e = <<>> /\ e \in Seq(T) /\ Len(e) = 0
    BY <2>5, Zenon
  <2>2. 1 .. Len(e) = {}
    BY <2>1
  <2>3. PICK f : f \in [{} -> 1 .. Len(book)]
    <3>1. [m \in {} |-> 1] \in [{} -> 1 .. Len(book)]
      OBVIOUS
    <3> QED BY <3>1
  <2>4. Within(e, book)
    BY <2>1, <2>2, <2>3 DEF Within, T
  <2> QED BY <2>1, <2>4
<1>3. Within(book, book)
  <2> DEFINE f == [m \in 1 .. Len(book) |-> m]
  <2>1. f \in [1 .. Len(book) -> 1 .. Len(book)] /\ \A m \in 1 .. Len(book) : f[m] = m
    OBVIOUS
  <2> HIDE DEF f
  <2> QED BY <1>1, <2>1 DEF Within, T
<1>4. ASSUME NEW ids PROVE Within(Dropped(book, ids), book)
  <2>1. PICK d : d = Dropped(book, ids)
    OBVIOUS
  <2>2. d \in Seq(T) /\ \E f : Enumerates(d, book, ids, Len(book), f)
    BY <1>1, <2>1, DroppedProperties
  <2>3. PICK f : Enumerates(d, book, ids, Len(book), f)
    BY <2>2
  <2>4. Len(d) \in Nat
    BY <2>2
  <2>5. /\ f \in [1 .. Len(d) -> 1 .. Len(book)]
        /\ \A m \in 1 .. Len(d) : d[m] = book[f[m]]
    BY <2>3 DEF Enumerates
  <2>6. \A m, k \in 1 .. Len(d) : m # k => f[m] # f[k]
    <3> TAKE m, k \in 1 .. Len(d)
    <3>1. m < k \/ k < m \/ m = k
      BY <2>4
    <3>2. f[m] \in Int /\ f[k] \in Int
      BY <1>1, <2>5
    <3> QED BY <2>3, <3>1, <3>2 DEF Enumerates
  <2> QED BY <2>1, <2>2, <2>5, <2>6 DEF Within, T
<1> QED BY <1>2, <1>3, <1>4

InQueue(s) == \E k \in 1 .. Len(queue) : queue[k] = s

(* A request changes where it is in the market's queue, in whatever else. *)
LEMMA MutexTurns ==
  ASSUME SInv, NEW s \in Sessions, NEW n, DOMAIN tx' = Sessions, tx'[s] = n,
         \A t \in Sessions : t # s => tx'[t] = tx[t], UNCHANGED queue,
         Inside(n) => Holds(s), Queueing(n) => InQueue(s),
         InQueue(s) => n.at \notin {"idle", "commit"} \cup ResolveSteps
  PROVE  Mutex'
<1>1. /\ DOMAIN tx' = Sessions /\ tx'[s] = n /\ \A t \in Sessions : t # s => tx'[t] = tx[t]
  OBVIOUS
<1>2. queue' = queue /\ Mutex
  BY DEF SInv
<1>3. \A k \in 1 .. Len(queue) : tx'[queue[k]].at \notin {"idle", "commit"} \cup ResolveSteps
  <2> TAKE k \in 1 .. Len(queue)
  <2>1. queue[k] \in Sessions
    BY <1>2 DEF Mutex
  <2> QED BY <1>1, <1>2, <2>1 DEF Mutex, InQueue
<1>4. ASSUME NEW t \in Sessions PROVE (Inside(tx'[t]) => Holds(t)) /\ (Queueing(tx'[t]) => InQueue(t))
  BY <1>1, <1>2 DEF Mutex, InQueue
<1>5. \A t \in Sessions : Holds(t)' <=> Holds(t)
  BY <1>2 DEF Holds
<1>6. \A t \in Sessions : Inside(tx[t])' <=> Inside(tx'[t])
  BY DEF Inside
<1>7. \A t \in Sessions : Queueing(tx[t])' <=> Queueing(tx'[t])
  BY DEF Queueing
<1> QED BY <1>2, <1>3, <1>4, <1>5, <1>6, <1>7 DEF Mutex, InQueue

(* The request goes on where it is in the market's queue. *)
LEMMA MutexStays ==
  ASSUME SInv, NEW s \in Sessions, NEW n, Moves(s, n), UNCHANGED queue,
         Inside(n) => Holds(s), Queueing(n) => InQueue(s),
         InQueue(s) => n.at \notin {"idle", "commit"} \cup ResolveSteps
  PROVE  Mutex'
BY MoveFacts, MutexTurns DEF SInv

(* A new request queues for the market's lock. *)
LEMMA MutexJoins ==
  ASSUME SInv, NEW s \in Sessions, NEW n, Moves(s, n), queue' = Append(queue, s), tx[s].at = "idle",
         ~Inside(n), n.at \notin {"idle", "commit"} \cup ResolveSteps
  PROVE  Mutex'
<1>1. /\ DOMAIN tx' = Sessions /\ tx'[s] = n /\ \A t \in Sessions : t # s => tx'[t] = tx[t]
  BY MoveFacts DEF SInv
<1>2. Mutex /\ Len(queue) \in Nat
  BY DEF SInv, Mutex
<1>3. PICK q : q = queue'
  OBVIOUS
<1>4. /\ q \in Seq(Sessions) /\ Len(q) = Len(queue) + 1 /\ q[Len(queue) + 1] = s
      /\ \A k \in 1 .. Len(queue) : q[k] = queue[k]
  BY <1>2, <1>3 DEF Mutex
<1>5. \A k \in 1 .. Len(queue) : queue[k] \in Sessions /\ queue[k] # s
  BY <1>2 DEF Mutex
<1>6. \A k \in 1 .. Len(q) : k \in 1 .. Len(queue) \/ k = Len(queue) + 1
  BY <1>2, <1>4
<1>7. \A m, k \in 1 .. Len(q) : m # k => q[m] # q[k]
  BY <1>2, <1>4, <1>5, <1>6 DEF Mutex
<1>8. \A k \in 1 .. Len(q) : tx'[q[k]].at \notin {"idle", "commit"} \cup ResolveSteps
  <2> TAKE k \in 1 .. Len(q)
  <2>1. CASE k \in 1 .. Len(queue)
    BY <1>1, <1>2, <1>4, <1>5, <2>1 DEF Mutex
  <2>2. CASE k = Len(queue) + 1
    BY <1>1, <1>4, <2>2
  <2> QED BY <1>6, <2>1, <2>2
<1>9. ASSUME NEW t \in Sessions, Inside(tx'[t]) PROVE q # <<>> /\ Head(q) = t
  <2>1. t # s /\ Inside(tx[t])
    BY <1>1, <1>9
  <2>2. queue # <<>> /\ Head(queue) = t
    BY <1>2, <2>1 DEF Mutex, Holds
  <2>3. 1 \in 1 .. Len(queue) /\ queue[1] = t
    BY <1>2, <2>2 DEF Mutex
  <2> QED BY <1>2, <1>4, <2>3
<1>10. ASSUME NEW t \in Sessions, Queueing(tx'[t]) PROVE \E k \in 1 .. Len(q) : q[k] = t
  <2>1. CASE t = s
    BY <1>2, <1>4, <2>1
  <2>2. CASE t # s
    <3>1. PICK k \in 1 .. Len(queue) : queue[k] = t
      BY <1>1, <1>2, <1>10, <2>2 DEF Mutex
    <3> QED BY <1>2, <1>4, <3>1
  <2> QED BY <2>1, <2>2
<1>11. \A t \in Sessions : /\ Inside(tx[t])' <=> Inside(tx'[t])
                           /\ Queueing(tx[t])' <=> Queueing(tx'[t])
  BY DEF Inside, Queueing
<1> QED BY <1>3, <1>4, <1>7, <1>8, <1>9, <1>10, <1>11 DEF Mutex, Holds

(* A request that ends, or has only its commit to do, gives the lock on. *)
LEMMA MutexLeaves ==
  ASSUME SInv, NEW s \in Sessions, NEW n, Moves(s, n), Release(s), Holds(s) \/ ~InQueue(s),
         ~Inside(n), ~Queueing(n)
  PROVE  Mutex'
<1>1. /\ DOMAIN tx' = Sessions /\ tx'[s] = n /\ \A t \in Sessions : t # s => tx'[t] = tx[t]
  BY MoveFacts DEF SInv
<1>2. Mutex /\ Len(queue) \in Nat
  BY DEF SInv, Mutex
<1>3. \A t \in Sessions : /\ Inside(tx[t])' <=> Inside(tx'[t])
                          /\ Queueing(tx[t])' <=> Queueing(tx'[t])
  BY DEF Inside, Queueing
<1>4. CASE Holds(s)
  <2>1. PICK q : q = queue'
    OBVIOUS
  <2>2. q = Tail(queue) /\ queue # <<>> /\ queue[1] = s /\ queue \in Seq(Sessions)
    BY <1>2, <1>4, <2>1 DEF Mutex, Release, Holds
  <2>3. /\ q \in Seq(Sessions) /\ Len(q) = Len(queue) - 1
        /\ \A k \in 1 .. Len(q) : q[k] = queue[k + 1] /\ k + 1 \in 1 .. Len(queue)
    BY <2>2
  <2>4. Len(q) \in Nat /\ 1 \in 1 .. Len(queue)
    BY <1>2, <2>2, <2>3
  <2>5. \A m, k \in 1 .. Len(queue) : m # k => queue[m] # queue[k]
    BY <1>2 DEF Mutex
  <2>6. \A m, k \in 1 .. Len(q) : m # k => q[m] # q[k]
    <3> TAKE m, k \in 1 .. Len(q)
    <3>1. m # k => m + 1 # k + 1
      BY <2>4
    <3> QED BY <2>3, <2>5, <3>1
  <2>7. \A k \in 1 .. Len(q) : q[k] \in Sessions /\ q[k] # s
    <3> TAKE k \in 1 .. Len(q)
    <3>1. k + 1 # 1
      BY <2>4
    <3> QED BY <2>2, <2>3, <2>4, <2>5, <3>1
  <2>8. \A k \in 1 .. Len(q) : tx'[q[k]].at \notin {"idle", "commit"} \cup ResolveSteps
    BY <1>1, <1>2, <2>3, <2>7 DEF Mutex
  <2>9. ASSUME NEW t \in Sessions PROVE ~Inside(tx'[t])
    <3>1. CASE t = s
      BY <1>1, <3>1
    <3>2. CASE t # s
      BY <1>1, <1>2, <1>4, <3>2 DEF Mutex, Holds
    <3> QED BY <3>1, <3>2
  <2>10. ASSUME NEW t \in Sessions, Queueing(tx'[t]) PROVE \E k \in 1 .. Len(q) : q[k] = t
    <3>1. t # s /\ Queueing(tx[t])
      BY <1>1, <2>10
    <3>2. PICK k \in 1 .. Len(queue) : queue[k] = t
      BY <1>2, <3>1 DEF Mutex
    <3>3. k # 1
      BY <2>2, <3>1, <3>2
    <3>4. PICK m \in 1 .. Len(q) : m + 1 = k
      <4>1. k - 1 \in 1 .. Len(q) /\ (k - 1) + 1 = k
        BY <1>2, <2>3, <3>3
      <4> QED BY <4>1
    <3> QED BY <2>3, <3>2, <3>4
  <2> QED BY <1>3, <2>1, <2>3, <2>6, <2>8, <2>9, <2>10 DEF Mutex
<1>5. CASE ~Holds(s)
  <2>1. queue' = queue /\ ~InQueue(s)
    BY <1>5 DEF Release
  <2> QED BY <1>5, <2>1, MutexStays
<1> QED BY <1>4, <1>5

\* The orders that s inserts are its own, and so is its key.
Inserts(s, n) ==
  /\ n.id # None => \A t \in Sessions : t # s => tx[t].id # n.id
  /\ n.id # None => \A k \in 1 .. Len(book) : book[k].id # n.id
  /\ n.id # None /\ n.id \in DOMAIN n.w =>
       \A t \in Sessions : t # s /\ tx[t].id # None /\ tx[t].id \in DOMAIN tx[t].w => tx[t].key # n.key

(* A statement of one request that leaves the rest of the book alone. *)
LEMMA StepKeeps ==
  ASSUME SInv, NEW s \in Sessions, NEW n, Moves(s, n), tx[s].at # "commit", Sound(n),
         Grounded(tx[s], n), Inserts(s, n),
         \A t \in Sessions : t # s => DOMAIN n.w \cap DOMAIN tx[t].w = {},
         n.fill = tx[s].fill \/ (n.fill = None /\ DOMAIN n.w = {}),
         Within(book', book), Mutex'
  PROVE  SInv'
<1>1. Requests' /\ Committed'
  BY RequestsKept
<1>2. Apart'
  BY ApartKept DEF Inserts
<1>3. BookOK'
  BY BookKept DEF Inserts, Within, Among
<1>4. Room'
  BY RoomKept
<1> QED BY <1>1, <1>2, <1>3, <1>4 DEF SInv

(* An idle session has no request. *)
LEMMA IdleFacts ==
  /\ Sound(Idle) /\ Idle.at = "idle" /\ Idle.id = None /\ Idle.key = None /\ Idle.fill = None
  /\ DOMAIN Idle.w = {} /\ DOMAIN Idle.copy = {} /\ ~Inside(Idle) /\ ~Queueing(Idle)
<1>1. /\ Idle.at = "idle" /\ Idle.id = None /\ Idle.key = None /\ Idle.fill = None
      /\ DOMAIN Idle.w = {} /\ DOMAIN Idle.copy = {} /\ Idle.sets = 0 /\ Idle.paid = 0
      /\ DOMAIN Idle = Fields
  BY DEF Idle, Empty, Fields
<1>2. None \notin BuyKeys /\ None \notin Keys
  BY SessionsAssumption DEF Keys, MakerKeys
<1>3. Shape(Idle)
  BY <1>1 DEF Shape, Labels
<1>4. Stage(Idle)
  BY <1>1, <1>2 DEF Stage, PlaceSteps, FrozenSteps, SavedSteps, MatchedSteps, ClearingSteps, CancelSteps, BatchSteps
<1>5. Locks(Idle)
  BY <1>1, <1>2 DEF Locks, FrozenSteps, SavedSteps, MatchedSteps, ClearingSteps
<1>6. Funds(Idle) /\ Knows(Idle)
  BY <1>1, <1>2 DEF Funds, Knows
<1>7. ~Inside(Idle) /\ ~Queueing(Idle)
  BY <1>1 DEF Inside, Queueing, PlaceSteps, FrozenSteps, SavedSteps, MatchedSteps, ClearingSteps
<1> QED BY <1>1, <1>3, <1>4, <1>5, <1>6, <1>7 DEF Sound

(* A request ends with an error. *)
LEMMA EndKeeps ==
  ASSUME SInv, NEW s \in Sessions, tx[s].at # "commit", tx' = [tx EXCEPT ![s] = Idle],
         UNCHANGED <<db, trades>>, book' = <<>> \/ book' = book,
         Release(s), Holds(s) \/ ~InQueue(s)
  PROVE  SInv'
<1>1. PICK n : n = Idle
  OBVIOUS
<1>2. /\ Sound(n) /\ n.id = None /\ n.fill = None /\ DOMAIN n.w = {} /\ DOMAIN n.copy = {}
      /\ ~Inside(n) /\ ~Queueing(n)
  BY <1>1, IdleFacts
<1>3. Moves(s, n)
  BY <1>1 DEF Moves
<1>4. Mutex'
  BY <1>2, <1>3, MutexLeaves
<1>5. Within(book', book)
  BY WithinFacts
<1>6. Grounded(tx[s], n) /\ Inserts(s, n)
  BY <1>2 DEF Grounded, Inserts
<1> QED BY <1>2, <1>3, <1>4, <1>5, <1>6, StepKeeps

(* Requests that end are at the head of the market's queue or not in it. *)
LEMMA FailKeeps ==
  ASSUME SInv, NEW s \in Sessions, tx[s].at # "commit", Fail(s) \/ Refuse(s), Holds(s) \/ ~InQueue(s)
  PROVE  SInv'
BY EndKeeps DEF Fail, Refuse

(* The label of a request that has the market's lock. *)
LEMMA InsideHolds == ASSUME SInv, NEW s \in Sessions, Inside(tx[s]) PROVE Holds(s)
BY DEF SInv, Mutex

(* A request that runs outside the market's lock is not in its queue. *)
LEMMA ResolverRuns ==
  ASSUME SInv, NEW s \in Sessions, tx[s].at \in ResolveSteps PROVE ~InQueue(s)
BY DEF SInv, Mutex, InQueue

-----------------------------------------------------------------------------
(* The statements one by one.                                                *)

USE DEF Labels, EngineSteps, PlaceSteps, FrozenSteps, SavedSteps, MatchedSteps, ClearingSteps,
        CancelSteps, BatchSteps, ResolveSteps

(* A single row. *)
LEMMA RowFacts == ASSUME NEW r, NEW v PROVE DOMAIN Row(r, v) = {r} /\ Row(r, v)[r] = v
BY DEF Row

(* What a statement leaves of its request. *)
LEMMA WroteFacts ==
  ASSUME NEW s \in Sessions, DOMAIN tx[s] = Fields, NEW w, NEW a, NEW n, n = Wrote(s, w, a)
  PROVE  /\ DOMAIN n = Fields /\ n.at = a /\ n.w = Over(w, tx[s].w)
         /\ n.key = tx[s].key /\ n.id = tx[s].id /\ n.fill = tx[s].fill
         /\ n.sets = tx[s].sets /\ n.paid = tx[s].paid /\ n.copy = tx[s].copy
BY DEF Wrote, Fields

(* A statement that runs finds its rows free. *)
LEMMA FreeRows ==
  ASSUME NEW s \in Sessions, Blockers(s) = {}, NEW r \in Wants(s), NEW t \in Sessions, t # s
  PROVE  r \notin DOMAIN tx[t].w
BY DEF Blockers, Locked

(* What a statement reads is a row. *)
LEMMA ReadFacts ==
  ASSUME SInv, NEW s \in Sessions, NEW r \in Rows
  PROVE  RowOK(r, Val(s, r))
BY DEF SInv, Requests, Sound, Shape, Committed, Val

(* Every request is sound. *)
LEMMA SoundFacts ==
  ASSUME SInv, NEW s \in Sessions
  PROVE  /\ Shape(tx[s]) /\ Stage(tx[s]) /\ Locks(tx[s]) /\ Funds(tx[s]) /\ Knows(tx[s])
         /\ DOMAIN tx[s] = Fields
BY DEF SInv, Requests, Sound, Shape

(* Keys are of one kind. *)
LEMMA KeyFacts ==
  /\ None \notin Keys /\ None \notin BuyKeys /\ None \notin Ids /\ MakerKeys \cap BuyKeys = {}
  /\ \A k \in BuyKeys : k \in Keys /\ User(k) = k /\ Quantity(k) = 1
  /\ \A k \in MakerKeys : k \in Keys /\ User(k) = "maker" /\ Quantity(k) = Lot
  /\ \A k \in Keys : k \in MakerKeys \/ k \in BuyKeys
  /\ Quantity(None) = 1 /\ Lot \in Nat /\ Lot >= 1
BY SessionsAssumption DEF Keys, MakerKeys, User, Quantity

(* A request goes on to another of its statements. *)
LEMMA GoesOn ==
  ASSUME SInv, NEW s \in Sessions, NEW n, Moves(s, n), tx[s].at # "commit", Sound(n),
         n.key = tx[s].key, n.id = tx[s].id, n.fill = tx[s].fill,
         n.id # None /\ n.id \in DOMAIN n.w => n.id \in DOMAIN tx[s].w,
         \A t \in Sessions : t # s => DOMAIN n.w \cap DOMAIN tx[t].w = {},
         Grounded(tx[s], n), Within(book', book), Mutex'
  PROVE  SInv'
<1>1. ASSUME n.id # None, NEW k \in 1 .. Len(book) PROVE book[k].id # n.id
  BY DEF SInv, BookOK
<1>2. Inserts(s, n)
  BY <1>1, OwnId DEF Inserts, SInv, Apart
<1> QED BY <1>2, StepKeeps

(* It does so without writing or reading anything. *)
LEMMA GoesToNext ==
  ASSUME SInv, NEW s \in Sessions, NEW n, Moves(s, n), tx[s].at # "commit", Sound(n),
         n.key = tx[s].key, n.id = tx[s].id, n.fill = tx[s].fill,
         n.copy = tx[s].copy, n.w = tx[s].w, UNCHANGED book, Mutex'
  PROVE  SInv'
<1>1. \A t \in Sessions : t # s => DOMAIN n.w \cap DOMAIN tx[t].w = {}
  BY DEF SInv, Apart
<1>2. Grounded(tx[s], n)
  BY DEF Grounded
<1>3. Within(book', book)
  BY WithinFacts
<1> QED BY <1>1, <1>2, <1>3, GoesOn

(* A new request for place_order. *)
LEMMA PlaceKeeps ==
  ASSUME SInv, NEW s \in Sessions, NEW key \in SellKeys \cup BuyKeys, Place(s, key)
  PROVE  SInv'
<1>1. PICK i \in Ids : Fresh(i) /\ i = (CHOOSE j \in Ids : Fresh(j))
  BY DEF Place
<1>2. PICK n : n = [Idle EXCEPT !.at = "check", !.key = key, !.id = i]
  OBVIOUS
<1>3. /\ DOMAIN n = Fields /\ n.at = "check" /\ n.key = key /\ n.id = i /\ n.fill = None
      /\ n.sets = 0 /\ n.paid = 0 /\ DOMAIN n.copy = {} /\ DOMAIN n.w = {}
  BY <1>2 DEF Idle, Fields, Empty
<1>4. Moves(s, n) /\ queue' = Append(queue, s) /\ tx[s].at = "idle" /\ book' = book
  BY <1>1, <1>2 DEF Place, Moves
<1>5. key \in Keys /\ i # None /\ key # None
  BY KeyFacts DEF Keys, MakerKeys
<1>6. Shape(n) /\ Stage(n) /\ Locks(n) /\ Funds(n)
  BY <1>3, <1>5 DEF Shape, Stage, Locks, Funds
<1>7. Knows(n)
  BY <1>1, <1>3, <1>5 DEF Knows, Fresh
<1>8. tx[s] = Idle /\ tx[s].fill = None
  BY <1>4, SoundFacts, IdleFacts DEF Stage
<1>9. Grounded(tx[s], n) /\ Inserts(s, n)
  BY <1>1, <1>3 DEF Grounded, Inserts, Fresh
<1>10. Mutex'
  BY <1>3, <1>4, MutexJoins DEF Inside
<1>11. Within(book', book)
  BY <1>4, WithinFacts
<1> QED BY <1>3, <1>4, <1>6, <1>7, <1>8, <1>9, <1>10, <1>11, StepKeeps DEF Sound

(* check_market_active. *)
LEMMA CheckMarketKeeps == ASSUME SInv, NEW s \in Sessions, CheckMarket(s) PROVE SInv'
<1>1. tx[s].at = "check" /\ Holds(s)
  BY DEF CheckMarket
<1>2. CASE Refuse(s)
  BY <1>1, <1>2, FailKeeps
<1>3. CASE ~Refuse(s)
  <2>1. PICK n : n = [tx[s] EXCEPT !.at = "freeze"]
    OBVIOUS
  <2>2. PICK t : t = tx[s]
    OBVIOUS
  <2>3. Shape(t) /\ Stage(t) /\ Locks(t) /\ Funds(t) /\ Knows(t) /\ DOMAIN t = Fields
    BY <2>2, SoundFacts
  <2>4. /\ DOMAIN n = Fields /\ n.at = "freeze" /\ n.key = t.key /\ n.id = t.id /\ n.fill = t.fill
        /\ n.sets = t.sets /\ n.paid = t.paid /\ n.copy = t.copy /\ n.w = t.w
    BY <2>1, <2>2, <2>3 DEF Fields
  <2>5. Moves(s, n) /\ UNCHANGED <<book, queue>>
    BY <1>3, <2>1 DEF CheckMarket, Moves
  <2>6. Shape(n) /\ Stage(n) /\ Locks(n) /\ Funds(n)
    BY <1>1, <2>2, <2>3, <2>4 DEF Shape, Stage, Locks, Funds
  <2>7. Knows(n)
    BY <2>3, <2>4 DEF Knows
  <2>8. Mutex'
    BY <1>1, <2>4, <2>5, MutexStays DEF Inside, Queueing
  <2> QED BY <1>1, <2>2, <2>4, <2>5, <2>6, <2>7, <2>8, GoesToNext DEF Sound
<1> QED BY <1>2, <1>3

(* The types of the rows. *)
LEMMA RowTypes ==
  /\ \A u \in Users : \A v : RowOK(u, v) <=> v \in Account
  /\ \A i \in Ids : \A v : RowOK(i, v) <=> Whole(v)
  /\ \A v : RowOK("market", v) <=> v \in [status : {"ACTIVE", "SETTLED"}, sets : Nat]
  /\ \A v : RowOK("shares", v) <=> v \in Nat
  /\ Users \cup Ids \cup {"market", "shares"} \subseteq Rows
  /\ \A i \in Ids : i \notin Users /\ i \notin {"market", "shares"}
  /\ \A u \in Users : u \notin {"market", "shares"}
  /\ "maker" \in Users /\ BuyKeys \subseteq Users /\ "maker" \notin BuyKeys
BY RowsAssumption DEF RowOK, RowTypeOK, Whole, Users, Rows

(* What a statement writes are rows that are its own or free. *)
LEMMA WritesFree ==
  ASSUME SInv, NEW s \in Sessions, Blockers(s) = {}, NEW w, NEW n, n.w = Over(w, tx[s].w),
         DOMAIN w \subseteq Wants(s) \cup DOMAIN tx[s].w
  PROVE  \A t \in Sessions : t # s => DOMAIN n.w \cap DOMAIN tx[t].w = {}
<1> TAKE t \in Sessions
<1>1. SUFFICES ASSUME t # s PROVE DOMAIN n.w \cap DOMAIN tx[t].w = {}
  OBVIOUS
<1>2. DOMAIN n.w \subseteq Wants(s) \cup DOMAIN tx[s].w
  BY DEF Over
<1>3. DOMAIN tx[s].w \cap DOMAIN tx[t].w = {}
  BY <1>1 DEF SInv, Apart
<1>4. Wants(s) \cap DOMAIN tx[t].w = {}
  BY <1>1, FreeRows
<1> QED BY <1>2, <1>3, <1>4

(* Rows over rows are rows. *)
LEMMA OverShape ==
  ASSUME NEW f, NEW g, NEW o, o = Over(f, g), DOMAIN f \cup DOMAIN g \subseteq Rows,
         \A r \in DOMAIN f : RowOK(r, f[r]), \A r \in DOMAIN g : RowOK(r, g[r])
  PROVE  DOMAIN o \subseteq Rows /\ \A r \in DOMAIN o : RowOK(r, o[r])
<1>1. /\ DOMAIN o = DOMAIN f \cup DOMAIN g /\ \A x \in DOMAIN f : o[x] = f[x]
      /\ \A x \in DOMAIN g : x \notin DOMAIN f => o[x] = g[x]
  BY DEF Over
<1> QED BY <1>1

(* The same request has no more to know when it writes no other order and    *)
(* none with another key.                                                    *)
LEMMA KnowsKept ==
  ASSUME NEW t, Knows(t), t.id \in Ids \cup {None}, NEW n, n.key = t.key, n.id = t.id, n.fill = t.fill,
         n.copy = t.copy, DOMAIN n.w \cap Ids = DOMAIN t.w \cap Ids,
         \A i \in Ids \cap DOMAIN t.w :
           n.w[i] = t.w[i] \/ (IsOrder(n.w[i]) /\ n.w[i].key = t.w[i].key)
  PROVE  Knows(n)
<1>1. n.id # None /\ n.id \in DOMAIN n.w => t.id # None /\ t.id \in DOMAIN t.w
  OBVIOUS
<1>2. ASSUME NEW i \in Ids \cap DOMAIN n.w
      PROVE  i \in Ids \cap DOMAIN t.w /\ IsOrder(n.w[i]) /\ n.w[i].key = t.w[i].key
  BY DEF Knows
<1> QED BY <1>1, <1>2 DEF Knows

(* A statement that writes the rows w and, of the orders, no new one. *)
LEMMA WritesKeep ==
  ASSUME SInv, NEW s \in Sessions, NEW n, Moves(s, n), tx[s].at # "commit",
         NEW w, DOMAIN n = Fields, n.w = Over(w, tx[s].w),
         n.key = tx[s].key, n.id = tx[s].id, n.fill = tx[s].fill, n.at \in Labels,
         n.sets \in Nat, n.paid \in Nat, DOMAIN n.copy \subseteq Ids, \A i \in DOMAIN n.copy : Whole(n.copy[i]),
         DOMAIN w \subseteq DOMAIN tx[s].w \/ (Blockers(s) = {} /\ DOMAIN w \subseteq Wants(s) \cup DOMAIN tx[s].w),
         DOMAIN w \subseteq Rows, \A r \in DOMAIN w : RowOK(r, w[r]),
         n.id # None /\ n.id \in DOMAIN w => n.id \in DOMAIN tx[s].w,
         Stage(n), Locks(n), Funds(n), Knows(n), Grounded(tx[s], n), Within(book', book), Mutex'
  PROVE  SInv'
<1>1. Shape(tx[s])
  BY SoundFacts
<1>2. DOMAIN n.w \subseteq Rows /\ \A r \in DOMAIN n.w : RowOK(r, n.w[r])
  BY <1>1, OverShape DEF Shape
<1>3. Shape(n)
  BY <1>1, <1>2 DEF Shape
<1>4. \A t \in Sessions : t # s => DOMAIN n.w \cap DOMAIN tx[t].w = {}
  <2>1. CASE DOMAIN w \subseteq DOMAIN tx[s].w
    <3>1. DOMAIN n.w = DOMAIN tx[s].w
      BY <2>1 DEF Over
    <3> QED BY <3>1 DEF SInv, Apart
  <2>2. CASE Blockers(s) = {} /\ DOMAIN w \subseteq Wants(s) \cup DOMAIN tx[s].w
    BY <2>2, WritesFree
  <2> QED BY <2>1, <2>2
<1>5. n.id # None /\ n.id \in DOMAIN n.w => n.id \in DOMAIN tx[s].w
  BY DEF Over
<1> QED BY <1>3, <1>4, <1>5, GoesOn DEF Sound

(* A statement that writes no row of an order: its request knows what it    *)
(* knew, and no fill is counted.                                            *)
LEMMA NoOrderWritten ==
  ASSUME SInv, NEW s \in Sessions, NEW n, NEW w, n.w = Over(w, tx[s].w), DOMAIN w \cap Ids = {},
         n.key = tx[s].key, n.id = tx[s].id, n.fill = tx[s].fill, n.copy = tx[s].copy
  PROVE  /\ DOMAIN n.w = DOMAIN w \cup DOMAIN tx[s].w
         /\ \A r \in DOMAIN w : n.w[r] = w[r]
         /\ \A r \in DOMAIN tx[s].w : r \notin DOMAIN w => n.w[r] = tx[s].w[r]
         /\ \A i \in Ids : i \in DOMAIN n.w <=> i \in DOMAIN tx[s].w
         /\ Knows(n) /\ Grounded(tx[s], n)
<1>1. /\ DOMAIN n.w = DOMAIN w \cup DOMAIN tx[s].w
      /\ \A r \in DOMAIN w : n.w[r] = w[r]
      /\ \A r \in DOMAIN tx[s].w : r \notin DOMAIN w => n.w[r] = tx[s].w[r]
  BY DEF Over
<1>2. \A i \in Ids : i \in DOMAIN n.w <=> i \in DOMAIN tx[s].w
  BY <1>1
<1>3. \A i \in Ids \cap DOMAIN tx[s].w : n.w[i] = tx[s].w[i]
  BY <1>1
<1>4. PICK t : t = tx[s]
  OBVIOUS
<1>5. t.id \in Ids \cup {None} /\ Knows(t)
  BY <1>4, SoundFacts DEF Shape
<1>6. Knows(n)
  BY <1>2, <1>3, <1>4, <1>5, KnowsKept
<1>7. Grounded(tx[s], n)
  BY <1>2, <1>3 DEF Grounded
<1> QED BY <1>1, <1>2, <1>6, <1>7

(* A request that places an order has a key and an id, whose row is not     *)
(* committed.                                                               *)
LEMMA PlaceFacts ==
  ASSUME SInv, NEW s \in Sessions, tx[s].at \in PlaceSteps \/ tx[s].key # None
  PROVE  /\ tx[s].key \in Keys /\ tx[s].key # None /\ tx[s].id \in Ids /\ tx[s].id # None
         /\ ~IsOrder(db[tx[s].id])
         /\ User(tx[s].key) \in Users /\ User(tx[s].key) \notin Ids
         /\ User(tx[s].key) \notin {"market", "shares"} /\ tx[s].id \notin {"market", "shares", "maker"}
<1>1. tx[s].key # None
  BY SoundFacts DEF Stage
<1>2. tx[s].key \in Keys /\ tx[s].id \in Ids /\ tx[s].id # None
  BY <1>1, SoundFacts DEF Stage, Shape
<1>3. ~IsOrder(db[tx[s].id])
  BY <1>2, SoundFacts DEF Knows
<1>4. User(tx[s].key) \in Users
  BY <1>2, KeyFacts, RowTypes
<1> QED BY <1>1, <1>2, <1>3, <1>4, RowTypes

(* check_and_freeze. *)
LEMMA FreezeKeeps == ASSUME SInv, NEW s \in Sessions, Freeze(s) PROVE SInv'
<1>1. tx[s].at = "freeze" /\ Blockers(s) = {} /\ Holds(s)
  BY InsideHolds DEF Freeze, Runs, Inside
<1>2. CASE Refuse(s)
  BY <1>1, <1>2, FailKeeps
<1>3. CASE ~Refuse(s)
  <2>1. PICK t : t = tx[s]
    OBVIOUS
  <2>2. Shape(t) /\ Stage(t) /\ Locks(t) /\ Funds(t) /\ Knows(t) /\ DOMAIN t = Fields
    BY <2>1, SoundFacts
  <2>3. PICK u, q, row : u = User(t.key) /\ q = Quantity(t.key) /\ row = Val(s, u)
    OBVIOUS
  <2>4. PICK w : w = Row(u, [avail |-> row.avail - q, frozen |-> row.frozen + q])
    OBVIOUS
  <2>5. PICK n : n = Wrote(s, w, "save")
    OBVIOUS
  <2>6. row.avail >= q /\ Moves(s, n) /\ UNCHANGED <<book, queue>>
    BY <1>3, <2>1, <2>3, <2>4, <2>5 DEF Freeze, Moves
  <2>7. t.key \in Keys /\ u \in Users /\ u \in Rows /\ u \notin Ids /\ q \in Nat /\ q >= 1 /\ row \in Account
    <3>1. t.key \in Keys
      BY <1>1, <2>1, <2>2 DEF Shape, Stage
    <3>2. u \in Users /\ q \in Nat /\ q >= 1
      BY <2>3, <3>1, KeyFacts, RowTypes
    <3>3. u \in Rows /\ u \notin Ids
      BY <3>2, RowTypes
    <3>4. RowOK(u, row)
      BY <2>3, <3>3, ReadFacts
    <3> QED BY <3>1, <3>2, <3>3, <3>4, RowTypes
  <2>8. /\ DOMAIN n = Fields /\ n.at = "save" /\ n.w = Over(w, t.w) /\ n.key = t.key /\ n.id = t.id
        /\ n.fill = t.fill /\ n.sets = t.sets /\ n.paid = t.paid /\ n.copy = t.copy
    BY <2>1, <2>2, <2>5, WroteFacts
  <2>9. /\ DOMAIN w = {u} /\ w[u] \in Account /\ w[u].frozen >= 1 /\ RowOK(u, w[u])
    <3>1. w[u] = [avail |-> row.avail - q, frozen |-> row.frozen + q] /\ DOMAIN w = {u}
      BY <2>4, RowFacts
    <3>2. row.avail - q \in Nat /\ row.frozen + q \in Nat /\ row.frozen + q >= 1
      BY <2>6, <2>7 DEF Account
    <3>3. w[u] \in Account /\ w[u].frozen >= 1
      BY <3>1, <3>2 DEF Account
    <3> QED BY <2>7, <3>1, <3>3, RowTypes
  <2>10. /\ DOMAIN n.w = {u} \cup DOMAIN t.w /\ n.w[u] = w[u] 
         /\ \A i \in Ids : i \in DOMAIN n.w <=> i \in DOMAIN t.w
         /\ Knows(n) /\ Grounded(t, n)
    <3>1. DOMAIN w \cap Ids = {}
      BY <2>7, <2>9
    <3> QED BY <2>1, <2>8, <2>9, <3>1, NoOrderWritten, SMTT(60)
  <2>11. t.fill = None
    BY <1>1, <2>1, <2>2 DEF Stage
  <2>12. Stage(n)
    BY <1>1, <2>1, <2>2, <2>8, <2>11 DEF Stage
  <2>13. Locks(n) /\ n.id \notin DOMAIN n.w
    <3>1. t.id \in Ids /\ t.id \notin DOMAIN t.w /\ t.key # None
      BY <1>1, <2>1, PlaceFacts, SoundFacts DEF Locks
    <3>2. DOMAIN t.w \cap Ids \subseteq {t.id} \/ t.key \notin BuyKeys
      BY <1>1, <2>1, <2>2 DEF Locks
    <3>3. User(n.key) \in DOMAIN n.w /\ n.id \notin DOMAIN n.w
      BY <2>3, <2>7, <2>8, <2>10, <3>1
    <3>4. DOMAIN n.w \cap Ids \subseteq {n.id} \/ n.key \notin BuyKeys
      BY <2>7, <2>8, <2>10, <3>2
    <3> QED BY <2>8, <3>1, <3>3, <3>4, KeyFacts DEF Locks
  <2>14. Funds(n)
    <3>1. n.key \in BuyKeys => n.w[n.key].frozen >= 1
      BY <2>3, <2>8, <2>9, <2>10, KeyFacts
    <3> QED BY <2>8, <2>13, <3>1 DEF Funds
  <2>15. Mutex'
    BY <1>1, <2>6, <2>8, MutexStays DEF Queueing
  <2>16. u \in Wants(s)
    BY <1>1, <2>1, <2>3 DEF Wants
  <2>17. Within(book', book)
    BY <2>6, WithinFacts
  <2>18. /\ DOMAIN w \subseteq Wants(s) \cup DOMAIN tx[s].w /\ DOMAIN w \subseteq Rows
         /\ \A r \in DOMAIN w : RowOK(r, w[r]) /\ (n.id \in DOMAIN w => n.id \in DOMAIN tx[s].w)
    BY <2>1, <2>2, <2>7, <2>8, <2>9, <2>16, KeyFacts DEF Shape, Stage
  <2>19. n.sets \in Nat /\ n.paid \in Nat /\ DOMAIN n.copy \subseteq Ids /\ \A i \in DOMAIN n.copy : Whole(n.copy[i])
    BY <2>2, <2>8 DEF Shape
  <2> QED BY <1>1, <2>1, <2>6, <2>8, <2>10, <2>12, <2>13, <2>14, <2>15, <2>17, <2>18, <2>19, WritesKeep
<1> QED BY <1>2, <1>3

(* repo.save. *)
LEMMA SaveKeeps == ASSUME SInv, NEW s \in Sessions, Save(s) PROVE SInv'
<1>1. tx[s].at = "save" /\ Blockers(s) = {} /\ Holds(s)
  BY InsideHolds DEF Save, Runs, Inside
<1>2. CASE Fail(s)
  BY <1>1, <1>2, FailKeeps
<1>3. CASE ~Fail(s)
  <2>1. PICK t, i : t = tx[s] /\ i = t.id
    OBVIOUS
  <2>2. Shape(t) /\ Stage(t) /\ Locks(t) /\ Funds(t) /\ Knows(t) /\ DOMAIN t = Fields
    BY <2>1, SoundFacts
  <2>3. PICK w, row : w = Row(i, row) /\ row = NewRow(t.key)
    OBVIOUS
  <2>4. PICK n : n = Wrote(s, w, "lock_market")
    OBVIOUS
  <2>5. Moves(s, n) /\ UNCHANGED <<book, queue>> /\ \A j \in Ids : db[j].key # t.key
    BY <1>3, <2>1, <2>3, <2>4 DEF Save, Moves
  <2>6. t.key \in Keys /\ i \in Ids /\ i # None /\ ~IsOrder(db[i]) /\ i \notin Users /\ i \in Rows
    BY <1>1, <2>1, PlaceFacts, RowTypes
  <2>7. /\ DOMAIN n = Fields /\ n.at = "lock_market" /\ n.w = Over(w, t.w) /\ n.key = t.key /\ n.id = t.id
        /\ n.fill = t.fill /\ n.sets = t.sets /\ n.paid = t.paid /\ n.copy = t.copy
    BY <2>1, <2>2, <2>4, WroteFacts
  <2>8. row.key = t.key /\ row.filled = 0 /\ row.status = "OPEN" /\ Whole(row) /\ IsOrder(row)
    <3>1. row.key = t.key /\ row.filled = 0 /\ row.status = "OPEN" /\ 0 \in 0 .. Lot /\ 0 <= Quantity(t.key)
      BY <2>3, <2>6, KeyFacts DEF NewRow
    <3> QED BY <2>3, <2>6, <3>1 DEF Whole, OrderRow, NewRow, IsOrder
  <2>9. DOMAIN w = {i} /\ w[i] = row
    BY <2>3, RowFacts
  <2>10. /\ DOMAIN n.w = {i} \cup DOMAIN t.w /\ n.w[i] = row
         /\ \A r \in DOMAIN t.w : r # i => n.w[r] = t.w[r]
    BY <2>7, <2>9 DEF Over
  <2>11. t.fill = None /\ i \notin DOMAIN t.w
    BY <1>1, <2>1, <2>2, <2>6 DEF Stage, Locks
  <2>12. Shape(n)
    <3>1. DOMAIN n.w \subseteq Rows /\ \A r \in DOMAIN n.w : RowOK(r, n.w[r])
      BY <2>2, <2>6, <2>8, <2>10, RowTypes DEF Shape
    <3> QED BY <2>2, <2>7, <3>1 DEF Shape
  <2>13. Stage(n)
    BY <1>1, <2>1, <2>2, <2>7, <2>11 DEF Stage
  <2>14. Locks(n)
    <3>1. User(n.key) \in DOMAIN n.w /\ n.id \in DOMAIN n.w
      BY <1>1, <2>1, <2>2, <2>7, <2>10 DEF Locks
    <3>2. n.key \in BuyKeys => DOMAIN n.w \cap Ids \subseteq {n.id}
      BY <1>1, <2>1, <2>2, <2>7, <2>10 DEF Locks
    <3> QED BY <2>7, <3>1, <3>2 DEF Locks
  <2>15. Funds(n)
    <3>1. n.key \in BuyKeys => n.w[n.key].frozen >= 1
      <4>1. n.key \in BuyKeys => t.key # i /\ User(t.key) = t.key
        BY <2>6, <2>7, KeyFacts, RowTypes
      <4> QED BY <1>1, <2>1, <2>2, <2>7, <2>10, <4>1 DEF Funds, Locks
    <3>2. n.w[n.id].filled = 0
      BY <2>1, <2>7, <2>8, <2>10
    <3> QED BY <2>7, <3>1, <3>2 DEF Funds
  <2>16. Knows(n)
    <3>1. \A j \in Ids \cap DOMAIN n.w : j # i => j \in Ids \cap DOMAIN t.w /\ n.w[j] = t.w[j]
      BY <2>10
    <3> QED BY <2>1, <2>2, <2>5, <2>6, <2>7, <2>8, <2>10, <2>11, <3>1, SMTT(60) DEF Knows
  <2>17. Mutex'
    BY <1>1, <2>5, <2>7, MutexStays DEF Queueing
  <2>18. Within(book', book)
    BY <2>5, WithinFacts
  <2>19. \A r \in Sessions : r # s => DOMAIN n.w \cap DOMAIN tx[r].w = {}
    <3>1. i \in Wants(s)
      BY <1>1, <2>1 DEF Wants
    <3> QED BY <1>1, <2>1, <2>7, <2>9, <3>1, WritesFree
  <2>20. Grounded(t, n)
    BY <2>1, <2>7, <2>10 DEF Grounded
  <2>21. Inserts(s, n)
    <3>1. \A r \in Sessions : r # s => tx[r].id # n.id
      BY <2>1, <2>6, <2>7, OwnId
    <3>2. \A k \in 1 .. Len(book) : book[k].id # n.id
      BY <1>1, <2>1, <2>7 DEF SInv, BookOK
    <3>3. ASSUME NEW r \in Sessions, r # s, tx[r].id # None, tx[r].id \in DOMAIN tx[r].w, tx[r].key = n.key
          PROVE  FALSE
      <4>1. /\ tx[r].id \in Ids \cap DOMAIN tx[r].w /\ ~IsOrder(db[tx[r].id])
            /\ tx[r].w[tx[r].id].key = tx[r].key
        BY <3>3, SoundFacts DEF Shape, Knows
      <4>2. SameKey(s, r)
        BY <1>1, <2>1, <2>7, <3>3, <4>1 DEF SameKey
      <4> QED BY <1>1, <3>3, <4>2 DEF Blockers
    <3> QED BY <3>1, <3>2, <3>3 DEF Inserts
  <2> QED BY <1>1, <2>1, <2>5, <2>7, <2>12, <2>13, <2>14, <2>15, <2>16, <2>17, <2>18, <2>19, <2>20, <2>21,
             StepKeeps DEF Sound
<1> QED BY <1>2, <1>3

(* A statement that counts no fill. *)
LEMMA SameCounts ==
  ASSUME SInv, NEW s \in Sessions, NEW n, Moves(s, n), n.copy = tx[s].copy,
         DOMAIN n.w \cap Ids = DOMAIN tx[s].w \cap Ids,
         \A j \in Ids \cap DOMAIN n.w : n.w[j].filled = tx[s].w[j].filled,
         NEW i \in Ids, NEW S \in SUBSET Sessions, NEW m, AtMost(i, S, m)
  PROVE  AtMost(i, S, m)'
<1>1. /\ DOMAIN tx' = Sessions /\ tx'[s] = n /\ db' = db
      /\ \A t \in Sessions : t # s => tx'[t] = tx[t]
  BY MoveFacts DEF SInv
<1>2. ASSUME NEW t \in Sessions, i \in DOMAIN tx'[t].copy PROVE tx'[t].copy[i].filled <= m
  BY <1>1, <1>2 DEF AtMost
<1>3. ASSUME NEW t \in S, i \in DOMAIN tx'[t].w PROVE tx'[t].w[i].filled <= m
  <2>1. CASE t = s
    BY <1>1, <1>3, <2>1 DEF AtMost
  <2>2. CASE t # s
    BY <1>1, <1>3, <2>2 DEF AtMost
  <2> QED BY <2>1, <2>2
<1> QED BY <1>1, <1>2, <1>3 DEF AtMost

(* A bound may be raised, and asked of fewer requests. *)
LEMMA Weaker ==
  ASSUME SInv, NEW i \in Ids, NEW S \in SUBSET Sessions, NEW R \in SUBSET S, NEW m \in Int, NEW k \in Int,
         m <= k, AtMost(i, S, m)
  PROVE  AtMost(i, R, k)
<1>1. db[i].filled \in Int
  BY RowsOfIds DEF Whole, OrderRow
<1>2. ASSUME NEW t \in Sessions PROVE /\ i \in DOMAIN tx[t].copy => tx[t].copy[i].filled \in Int
                                      /\ i \in DOMAIN tx[t].w => tx[t].w[i].filled \in Int
  <2>1. Shape(tx[t])
    BY SoundFacts
  <2> QED BY <2>1, RowsOfIds DEF Shape, Whole, OrderRow
<1> QED BY <1>1, <1>2 DEF AtMost

(* Nobody else has matched while s has locked the market's row or may. *)
LEMMA NobodyMatched ==
  ASSUME SInv, NEW s \in Sessions, Blockers(s) = {}, "market" \in Wants(s), NEW t \in Sessions, t # s
  PROVE  "market" \notin DOMAIN tx[t].w /\ tx[t].fill = None /\ (tx[t].key # None => tx[t].at # "commit")
<1>1. "market" \notin DOMAIN tx[t].w
  BY FreeRows
<1> QED BY <1>1, SoundFacts, KeyFacts DEF Stage, Locks

(* The book after the first order of it has been matched. *)
LEMMA HeadTaken ==
  ASSUME SInv, book # <<>>, NEW c,
         c = IF Head(book).qty = 1 THEN Tail(book) ELSE [book EXCEPT ![1].qty = @ - 1]
  PROVE  /\ Head(book) = book[1] /\ 1 \in 1 .. Len(book) /\ Among(c, book)
         /\ \A m \in 1 .. Len(c) : \E k \in 1 .. Len(book) :
              /\ c[m].id = book[k].id
              /\ IF k = 1 THEN c[m].qty = book[k].qty - 1 ELSE c[m].qty = book[k].qty
<1> DEFINE T == [id : Ids, qty : 1 .. Lot]
<1>1. book \in Seq(T)
  BY DEF SInv, BookOK
<1>2. Lot \in Nat /\ \A o \in T : o.qty \in 1 .. Lot /\ o.id \in Ids
  BY KeyFacts
<1>3. \A o \in T : o.qty # 1 => [o EXCEPT !.qty = o.qty - 1] \in T
  BY <1>2
<1>4. \A o \in T : [o EXCEPT !.qty = o.qty - 1].id = o.id /\ [o EXCEPT !.qty = o.qty - 1].qty = o.qty - 1
  OBVIOUS
<1> HIDE DEF T
<1>5. Len(book) \in Nat /\ 1 \in 1 .. Len(book) /\ Head(book) = book[1] /\ book[1] \in T
  BY <1>1
<1>6. CASE book[1].qty = 1
  <2>1. c = Tail(book)
    BY <1>5, <1>6
  <2>2. /\ c \in Seq(T) /\ Len(c) = Len(book) - 1
        /\ \A m \in 1 .. Len(c) : c[m] = book[m + 1] /\ m + 1 \in 1 .. Len(book) /\ m + 1 # 1
    BY <1>1, <1>5, <2>1
  <2> DEFINE f == [m \in 1 .. Len(c) |-> m + 1]
  <2>3. f \in [1 .. Len(c) -> 1 .. Len(book)] /\ \A m \in 1 .. Len(c) : f[m] = m + 1
    BY <2>2
  <2>4. \A m, k \in 1 .. Len(c) : m # k => f[m] # f[k]
    BY <2>2, <2>3
  <2>5. \A m \in 1 .. Len(c) : c[m].id = book[f[m]].id
    BY <2>2, <2>3
  <2> HIDE DEF f
  <2>6. Among(c, book)
    BY <2>2, <2>3, <2>4, <2>5 DEF Among, T
  <2> QED BY <1>5, <2>2, <2>6
<1>7. CASE book[1].qty # 1
  <2>1. PICK o : o = [book[1] EXCEPT !.qty = book[1].qty - 1]
    OBVIOUS
  <2>2. c = [book EXCEPT ![1] = o]
    BY <1>5, <1>7, <2>1
  <2>3. o \in T /\ o.id = book[1].id /\ o.qty = book[1].qty - 1
    BY <1>3, <1>4, <1>5, <1>7, <2>1
  <2>4. /\ c \in Seq(T) /\ Len(c) = Len(book) /\ c[1] = o
        /\ \A m \in 1 .. Len(c) : m # 1 => c[m] = book[m]
    BY <1>1, <1>5, <2>2, <2>3
  <2> DEFINE f == [m \in 1 .. Len(c) |-> m]
  <2>5. f \in [1 .. Len(c) -> 1 .. Len(book)] /\ \A m \in 1 .. Len(c) : f[m] = m
    BY <2>4
  <2>6. \A m \in 1 .. Len(c) : c[m].id = book[m].id
    BY <2>3, <2>4
  <2> HIDE DEF f
  <2>7. Among(c, book)
    BY <2>4, <2>5, <2>6, SMTT(60) DEF Among, T
  <2> QED BY <1>5, <2>3, <2>4, <2>6, <2>7
<1> QED BY <1>6, <1>7

(* The market's row is read and locked: what both outcomes have in common.  *)
LEMMA LockFacts ==
  ASSUME SInv, NEW s \in Sessions, tx[s].at = "lock_market", Blockers(s) = {}, NEW n, NEW w,
         w = [r \in MarketSelectLocks |-> Val(s, r)], DOMAIN n = Fields, n.w = Over(w, tx[s].w),
         n.at \in {"settle", "finalize"}, n.key = tx[s].key, n.id = tx[s].id,
         n.sets = Val(s, "market").sets, n.paid = tx[s].paid, n.copy = tx[s].copy,
         \/ n.fill = None /\ n.at = "finalize"
         \/ /\ n.at = "settle" /\ n.fill \in Ids /\ n.key \in BuyKeys
            /\ IsOrder(db[n.fill]) /\ db[n.fill].key \in MakerKeys
  PROVE  /\ Sound(n) /\ Grounded(tx[s], n) /\ Inserts(s, n)
         /\ \A t \in Sessions : t # s => DOMAIN n.w \cap DOMAIN tx[t].w = {}
         /\ DOMAIN n.w \cap Ids = DOMAIN tx[s].w \cap Ids
         /\ \A j \in Ids \cap DOMAIN n.w : n.w[j].filled = tx[s].w[j].filled
<1>1. PICK t : t = tx[s]
  OBVIOUS
<1>2. Shape(t) /\ Stage(t) /\ Locks(t) /\ Funds(t) /\ Knows(t) /\ DOMAIN t = Fields
  BY <1>1, SoundFacts
<1>3. t.key \in Keys /\ t.key # None /\ t.id \in Ids /\ t.id # None /\ User(t.key) \in Users
  BY <1>1, PlaceFacts
<1>4. t.fill = None
  BY <1>1, <1>2 DEF Stage
<1>5. DOMAIN w = {"market"} /\ "market" \notin Ids \cup Users /\ "market" \in Rows
  BY RowTypes DEF MarketSelectLocks
<1>6. RowOK("market", w["market"]) /\ n.sets \in Nat
  <2>1. RowOK("market", Val(s, "market"))
    BY <1>5, ReadFacts
  <2>2. w["market"] = Val(s, "market")
    BY DEF MarketSelectLocks
  <2> QED BY <2>1, <2>2, RowTypes
<1>7. /\ DOMAIN n.w = {"market"} \cup DOMAIN t.w
      /\ \A r \in DOMAIN t.w : r # "market" => n.w[r] = t.w[r]
  BY <1>1, <1>5 DEF Over
<1>8. Shape(n)
  <2>1. DOMAIN n.w \subseteq Rows /\ \A r \in DOMAIN n.w : RowOK(r, n.w[r])
    BY <1>1, <1>2, <1>5, <1>6, OverShape DEF Shape
  <2> QED BY <1>1, <1>2, <1>6, <2>1 DEF Shape
<1>9. Stage(n)
  BY <1>1, <1>2, <1>3, KeyFacts DEF Stage
<1>10. /\ DOMAIN n.w \cap Ids = DOMAIN t.w \cap Ids
       /\ \A j \in Ids \cap DOMAIN n.w : n.w[j] = t.w[j] /\ j \in DOMAIN t.w
  BY <1>5, <1>7
<1>11. Locks(n)
  <2>1. User(n.key) \in DOMAIN n.w /\ "market" \in DOMAIN n.w /\ n.id \in DOMAIN n.w
    BY <1>1, <1>2, <1>3, <1>7 DEF Locks
  <2>2. n.key \in BuyKeys => DOMAIN n.w \cap Ids \subseteq {n.id}
    BY <1>1, <1>2, <1>10 DEF Locks
  <2> QED BY <2>1, <2>2 DEF Locks
<1>12. Funds(n)
  <2>1. n.key \in BuyKeys => n.w[n.key].frozen >= 1
    <3>1. n.key \in BuyKeys => t.key # "market" /\ t.key \in DOMAIN t.w
      BY <1>1, <1>2, KeyFacts, RowTypes DEF Locks
    <3> QED BY <1>1, <1>2, <1>7, <3>1 DEF Funds
  <2>2. n.key \in MakerKeys /\ n.id \in DOMAIN n.w => n.w[n.id].filled = 0
    BY <1>1, <1>2, <1>3, <1>10 DEF Funds
  <2> QED BY <2>1, <2>2 DEF Funds
<1>13. Knows(n)
  BY <1>1, <1>2, <1>3, <1>10 DEF Knows
<1>14. Grounded(t, n)
  BY <1>1, <1>10 DEF Grounded
<1>15. Inserts(s, n)
  <2>1. \A k \in 1 .. Len(book) : book[k].id # n.id
    BY DEF SInv, BookOK
  <2>2. n.id \in DOMAIN n.w => n.id \in DOMAIN tx[s].w
    BY <1>1, <1>3, <1>10
  <2> QED BY <1>1, <1>3, <2>1, <2>2, OwnId DEF Inserts, SInv, Apart
<1>16. \A r \in Sessions : r # s => DOMAIN n.w \cap DOMAIN tx[r].w = {}
  <2>1. DOMAIN w \subseteq Wants(s)
    BY <1>5 DEF Wants, MarketSelectLocks
  <2> QED BY <2>1, WritesFree
<1> QED BY <1>1, <1>8, <1>9, <1>10, <1>11, <1>12, <1>13, <1>14, <1>15, <1>16 DEF Sound

(* SELECT ... FOR UPDATE of the market and match_order. *)
LEMMA LockAndMatchKeeps == ASSUME SInv, NEW s \in Sessions, LockAndMatch(s) PROVE SInv'
<1>1. tx[s].at = "lock_market" /\ Blockers(s) = {} /\ Holds(s) /\ UNCHANGED <<db, trades, queue>>
  BY InsideHolds DEF LockAndMatch, Runs, Inside
<1>2. PICK t, w, m : t = tx[s] /\ w = [r \in MarketSelectLocks |-> Val(s, r)] /\ m = Val(s, "market").sets
  OBVIOUS
<1>3. PICK a : a = Wrote(s, w, "finalize")
  OBVIOUS
<1>4. PICK b : b = [a EXCEPT !.sets = m]
  OBVIOUS
<1>5. /\ DOMAIN a = Fields /\ a.at = "finalize" /\ a.w = Over(w, t.w) /\ a.key = t.key /\ a.id = t.id
      /\ a.fill = t.fill /\ a.paid = t.paid /\ a.copy = t.copy
  BY <1>2, <1>3, SoundFacts, WroteFacts
<1>6. /\ DOMAIN b = Fields /\ b.at = "finalize" /\ b.w = Over(w, t.w) /\ b.key = t.key /\ b.id = t.id
      /\ b.fill = t.fill /\ b.sets = m /\ b.paid = t.paid /\ b.copy = t.copy
  BY <1>4, <1>5 DEF Fields
<1>7. t.fill = None
  BY <1>1, <1>2, SoundFacts DEF Stage
<1>8. IF t.key \in BuyKeys /\ book # <<>>
      THEN /\ tx' = [tx EXCEPT ![s] = [b EXCEPT !.at = "settle", !.fill = Head(book).id]]
           /\ book' = IF Head(book).qty = 1 THEN Tail(book) ELSE [book EXCEPT ![1].qty = @ - 1]
      ELSE tx' = [tx EXCEPT ![s] = b] /\ UNCHANGED book
  BY <1>2, <1>3, <1>4 DEF LockAndMatch
<1>9. CASE ~(t.key \in BuyKeys /\ book # <<>>)
  <2>1. Moves(s, b) /\ book' = book
    BY <1>1, <1>8, <1>9 DEF Moves
  <2>2. /\ Sound(b) /\ Grounded(t, b) /\ Inserts(s, b)
        /\ \A r \in Sessions : r # s => DOMAIN b.w \cap DOMAIN tx[r].w = {}
    BY <1>1, <1>2, <1>6, <1>7, LockFacts
  <2>3. Mutex'
    BY <1>1, <1>6, <2>1, MutexStays DEF Queueing
  <2> QED BY <1>1, <1>2, <1>6, <2>1, <2>2, <2>3, StepKeeps, WithinFacts
<1>10. CASE t.key \in BuyKeys /\ book # <<>>
  <2>1. PICK h, q, c : h = book[1].id /\ q = book[1].qty /\ c = book'
    OBVIOUS
  <2>2. PICK n : n = [b EXCEPT !.at = "settle", !.fill = h]
    OBVIOUS
  <2>3. /\ DOMAIN n = Fields /\ n.at = "settle" /\ n.w = Over(w, t.w) /\ n.key = t.key /\ n.id = t.id
        /\ n.fill = h /\ n.sets = m /\ n.paid = t.paid /\ n.copy = t.copy
    BY <1>6, <2>2 DEF Fields
  <2>4. /\ Head(book) = book[1] /\ 1 \in 1 .. Len(book) /\ Among(c, book)
        /\ \A j \in 1 .. Len(c) : \E k \in 1 .. Len(book) :
             /\ c[j].id = book[k].id
             /\ IF k = 1 THEN c[j].qty = book[k].qty - 1 ELSE c[j].qty = book[k].qty
    BY <1>8, <1>10, <2>1, HeadTaken
  <2>5. Moves(s, n)
    BY <1>1, <1>8, <1>10, <2>1, <2>2, <2>4 DEF Moves
  <2>6. \A r \in Sessions : r # s => tx[r].fill = None /\ (tx[r].key # None => tx[r].at # "commit")
    BY <1>1, NobodyMatched DEF Wants, MarketSelectLocks
  <2>7. h \in Ids /\ q \in 1 .. Lot /\ h # None /\ Lot \in Nat
    BY <2>1, <2>4, BookFacts, KeyFacts
  <2>8. IsOrder(db[h]) /\ db[h].key \in MakerKeys
    <3>1. ASSUME NEW r \in Sessions, tx[r].at = "commit", tx[r].key \in MakerKeys PROVE FALSE
      BY <1>1, <2>6, <3>1, KeyFacts DEF MakerKeys, Keys
    <3> QED BY <2>1, <2>4, <3>1 DEF SInv, BookOK
  <2>9. /\ Sound(n) /\ Grounded(t, n) /\ Inserts(s, n)
        /\ \A r \in Sessions : r # s => DOMAIN n.w \cap DOMAIN tx[r].w = {}
        /\ DOMAIN n.w \cap Ids = DOMAIN t.w \cap Ids
        /\ \A j \in Ids \cap DOMAIN n.w : n.w[j].filled = t.w[j].filled
    <3>1. /\ n.w = Over(w, tx[s].w) /\ n.key = tx[s].key /\ n.id = tx[s].id
          /\ n.sets = Val(s, "market").sets /\ n.paid = tx[s].paid /\ n.copy = tx[s].copy
      BY <1>2, <2>3
    <3>2. n.at = "settle" /\ n.fill \in Ids /\ n.key \in BuyKeys /\ IsOrder(db[n.fill]) /\ db[n.fill].key \in MakerKeys
      BY <1>10, <2>3, <2>7, <2>8
    <3> QED BY <1>1, <1>2, <2>3, <3>1, <3>2, LockFacts
  <2>10. Mutex'
    BY <1>1, <2>3, <2>5, MutexStays DEF Queueing
  <2>11. Requests' /\ Committed'
    BY <2>5, <2>9, RequestsKept
  <2>12. Apart'
    BY <2>5, <2>9, ApartKept DEF Inserts
  <2>13. BookOK'
    BY <1>1, <2>1, <2>4, <2>5, <2>9, BookKept DEF Inserts
  <2>14. \A k \in 1 .. Len(book) : AtMost(book[k].id, Sessions, Lot - book[k].qty)
    BY DEF SInv, Room
  <2>15. ASSUME NEW i \in Ids, NEW S \in SUBSET Sessions, NEW k, AtMost(i, S, k)
         PROVE  AtMost(i, S, k)'
    BY <1>2, <2>3, <2>5, <2>9, <2>15, SameCounts
  <2>16. PICK x, y \in Int : x = Lot - q /\ y = Lot - 1
    BY <2>7
  <2>17. x <= y
    BY <2>7, <2>16
  <2>18. AtMost(h, Sessions, x)
    BY <2>1, <2>4, <2>14, <2>16
  <2>19. AtMost(h, Sessions \ {s}, y) /\ AtMost(h, Sessions \ {s}, x)
    <3>1. PICK S \in SUBSET Sessions : S = Sessions \ {s} /\ S \in SUBSET Sessions
      OBVIOUS
    <3>2. PICK A \in SUBSET Sessions : A = Sessions
      OBVIOUS
    <3>3. AtMost(h, S, y) /\ AtMost(h, S, x)
      BY <2>7, <2>17, <2>18, <3>1, <3>2, Weaker
    <3> QED BY <3>1, <3>3
  <2>20. ASSUME NEW j \in 1 .. Len(c), NEW i, i = c[j].id, NEW z, z = c[j].qty
         PROVE  /\ AtMost(i, Sessions, Lot - z)'
                /\ i = h => AtMost(i, Sessions \ {s}, Lot - 1 - z)'
    <3>1. PICK k \in 1 .. Len(book) : /\ i = book[k].id
                                      /\ IF k = 1 THEN z = book[k].qty - 1 ELSE z = book[k].qty
      BY <2>4, <2>20
    <3>2. CASE k = 1
      <4>1. i = h /\ Lot - 1 - z = x
        BY <2>1, <2>7, <2>16, <3>1, <3>2, SMTT(60)
      <4>2. PICK v \in Int : v = Lot - z
        BY <2>1, <2>7, <3>1, <3>2
      <4>3. x <= v
        BY <2>1, <2>7, <2>16, <3>1, <3>2, <4>2
      <4>4. AtMost(h, Sessions, v)
        BY <2>7, <2>18, <4>3, Weaker
      <4> QED BY <2>7, <2>15, <2>19, <4>1, <4>2, <4>4
    <3>3. CASE k # 1
      <4>1. i # h
        BY <2>1, <2>4, <3>1, <3>3 DEF SInv, BookOK
      <4>2. i \in Ids /\ AtMost(i, Sessions, Lot - z)
        BY <2>14, <3>1, <3>3, BookFacts
      <4> QED BY <2>15, <4>1, <4>2
    <3> QED BY <3>2, <3>3
  <2>21. /\ DOMAIN tx' = Sessions /\ tx'[s] = n /\ \A r \in Sessions : r # s => tx'[r] = tx[r]
    BY <2>5, MoveFacts DEF SInv
  <2>22. Room'
    <3>1. \A j \in 1 .. Len(book') : AtMost(book[j].id, Sessions, Lot - book[j].qty)'
      BY <2>1, <2>20
    <3>2. ASSUME NEW r \in Sessions, tx'[r].fill # None
          PROVE  (/\ AtMost(tx[r].fill, Sessions \ {r}, Lot - 1)
                  /\ \A j \in 1 .. Len(book) :
                       book[j].id = tx[r].fill => AtMost(tx[r].fill, Sessions \ {r}, Lot - 1 - book[j].qty))'
      <4>1. r = s /\ tx'[r].fill = h
        BY <2>3, <2>6, <2>21, <3>2
      <4>2. AtMost(h, Sessions \ {s}, Lot - 1)'
        BY <2>7, <2>15, <2>16, <2>19
      <4> QED BY <2>1, <2>20, <4>1, <4>2
    <3> QED BY <3>1, <3>2 DEF Room
  <2> QED BY <2>10, <2>11, <2>12, <2>13, <2>22 DEF SInv
<1> QED BY <1>9, <1>10

(* Money that is frozen can be paid or given back. *)
LEMMA AccountFacts ==
  ASSUME NEW a \in Account, NEW k \in Nat, a.frozen >= k
  PROVE  [a EXCEPT !.frozen = @ - k] \in Account /\ Unfrozen(a, k) \in Account
<1>1. a.frozen - k \in Nat /\ a.avail + k \in Nat
  BY DEF Account
<1> QED BY <1>1 DEF Account, Unfrozen

(* A request that has matched is a taker's; the order it has matched is     *)
(* another than its own.                                                    *)
LEMMA TakerFacts ==
  ASSUME SInv, NEW s \in Sessions, tx[s].fill # None
  PROVE  /\ tx[s].key \in BuyKeys /\ tx[s].key # "maker" /\ tx[s].key \in Users
         /\ User(tx[s].key) = tx[s].key /\ Quantity(tx[s].key) = 1
         /\ tx[s].fill \in Ids /\ tx[s].fill # tx[s].id
         /\ IsOrder(db[tx[s].fill]) /\ db[tx[s].fill].key \in MakerKeys
<1>1. tx[s].key \in BuyKeys
  BY SoundFacts DEF Stage
<1>2. IsOrder(db[tx[s].fill]) /\ db[tx[s].fill].key \in MakerKeys
  BY SoundFacts DEF Knows
<1> QED BY <1>1, <1>2, FillFacts, KeyFacts, RowTypes

(* clear_mint, update_status of the taker and the trade. *)
LEMMA SettleKeeps == ASSUME SInv, NEW s \in Sessions, Settle(s) PROVE SInv'
<1>1. tx[s].at = "settle" /\ Blockers(s) = {} /\ Holds(s)
  BY InsideHolds DEF Settle, Runs, Inside
<1>2. CASE Fail(s)
  BY <1>1, <1>2, FailKeeps
<1>3. CASE ~Fail(s)
  <2>1. PICK t, i, u : t = tx[s] /\ i = t.id /\ u = t.key
    OBVIOUS
  <2>2. Shape(t) /\ Stage(t) /\ Locks(t) /\ Funds(t) /\ Knows(t) /\ DOMAIN t = Fields
    BY <2>1, SoundFacts
  <2>3. t.fill # None
    BY <1>1, <2>1, <2>2 DEF Stage
  <2>4. /\ u \in BuyKeys /\ u # "maker" /\ u \in Users /\ "maker" \in Users /\ User(u) = u /\ Quantity(u) = 1
        /\ i \in Ids /\ i # None /\ ~IsOrder(db[i]) /\ u \notin Ids \cup {"shares", "market"}
        /\ "maker" \notin Ids \cup {"shares", "market"} /\ "shares" \notin Ids
    <3>1. u \in BuyKeys /\ u # "maker" /\ u \in Users /\ User(u) = u /\ Quantity(u) = 1
      BY <2>1, <2>3, TakerFacts
    <3>2. i \in Ids /\ i # None /\ ~IsOrder(db[i])
      BY <1>1, <2>1, PlaceFacts
    <3> QED BY <3>1, <3>2, RowTypes
  <2>5. i \in DOMAIN t.w /\ u \in DOMAIN t.w /\ DOMAIN t.w \cap Ids \subseteq {i}
    BY <1>1, <2>1, <2>2, <2>4, KeyFacts DEF Locks
  <2>6. Whole(t.w[i]) /\ IsOrder(t.w[i]) /\ t.w[i].key = u
    BY <2>1, <2>2, <2>4, <2>5, RowTypes DEF Shape, Knows
  <2>7. PICK paid : paid = [r \in {"maker", u} |-> [Val(s, r) EXCEPT !.frozen = @ - 1]]
    OBVIOUS
  <2>8. PICK row, h : row = [Val(s, i) EXCEPT !.filled = 1, !.status = "FILLED"] /\ h = Val(s, "shares") + 1
    OBVIOUS
  <2>9. PICK w : w = Over(paid, Over(Row("shares", h), Row(i, row)))
    OBVIOUS
  <2>10. PICK a : a = Wrote(s, w, "read_maker")
    OBVIOUS
  <2>11. PICK n : n = [a EXCEPT !.sets = @ + 1]
    OBVIOUS
  <2>12. Unfreezable(s, 1) /\ Moves(s, n) /\ UNCHANGED <<book, queue>>
    BY <1>3, <2>1, <2>7, <2>8, <2>9, <2>10, <2>11 DEF Settle, Moves
  <2>13. /\ DOMAIN a = Fields /\ a.at = "read_maker" /\ a.w = Over(w, t.w) /\ a.key = t.key /\ a.id = t.id
         /\ a.fill = t.fill /\ a.sets = t.sets /\ a.paid = t.paid /\ a.copy = t.copy
    BY <2>1, <2>2, <2>10, WroteFacts
  <2>14. /\ DOMAIN n = Fields /\ n.at = "read_maker" /\ n.w = Over(w, t.w) /\ n.key = t.key /\ n.id = t.id
         /\ n.fill = t.fill /\ n.sets = t.sets + 1 /\ n.paid = t.paid /\ n.copy = t.copy
    BY <2>11, <2>13 DEF Fields
  <2>15. /\ DOMAIN w = {"maker", u, "shares", i} /\ w[i] = row /\ w["shares"] = h
         /\ \A r \in {"maker", u} : w[r] = [Val(s, r) EXCEPT !.frozen = @ - 1]
    <3>1. PICK v : v = Over(Row("shares", h), Row(i, row))
      OBVIOUS
    <3>2. DOMAIN v = {"shares", i} /\ v["shares"] = h /\ v[i] = row
      BY <2>4, <3>1 DEF Over, Row
    <3> QED BY <2>4, <2>7, <2>9, <3>1, <3>2 DEF Over
  <2>16. /\ DOMAIN n.w = {"maker", u, "shares", i} \cup DOMAIN t.w /\ n.w[i] = row
         /\ \A r \in DOMAIN t.w : r \notin DOMAIN w => n.w[r] = t.w[r]
    BY <2>14, <2>15 DEF Over
  <2>17. Val(s, i) = t.w[i] /\ Val(s, u) = t.w[u] /\ t.w[u].frozen >= 1
    BY <1>1, <2>1, <2>2, <2>4, <2>5 DEF Val, Funds
  <2>18. Whole(row) /\ row.filled = 1 /\ row.status = "FILLED" /\ row.key = u
    <3>1. t.w[i] \in OrderRow /\ 1 \in 0 .. Lot /\ u \in Keys
      BY <2>4, <2>6, KeyFacts DEF Whole
    <3>2. row = [t.w[i] EXCEPT !.filled = 1, !.status = "FILLED"]
      BY <2>8, <2>17
    <3>3. row \in OrderRow /\ row.filled = 1 /\ row.status = "FILLED" /\ row.key = u
      BY <2>6, <3>1, <3>2 DEF OrderRow
    <3> QED BY <2>4, <3>3 DEF Whole
  <2>19. ASSUME NEW r \in {"maker", u} PROVE RowOK(r, w[r])
    <3>1. Val(s, r) \in Account
      BY <2>4, ReadFacts, RowTypes
    <3>2. Val(s, r).frozen >= 1
      BY <2>12, <2>17 DEF Unfreezable
    <3>3. PICK v, k : v = Val(s, r) /\ k = 1 /\ k \in Nat
      OBVIOUS
    <3>4. [v EXCEPT !.frozen = @ - k] \in Account
      BY <3>1, <3>2, <3>3, AccountFacts
    <3> QED BY <2>4, <2>15, <3>3, <3>4, RowTypes
  <2>20. h \in Nat
    BY <2>8, ReadFacts, RowTypes
  <2>21. \A r \in DOMAIN w : RowOK(r, w[r]) /\ r \in Rows
    BY <2>4, <2>15, <2>18, <2>19, <2>20, RowTypes
  <2>22. Stage(n)
    BY <1>1, <2>1, <2>2, <2>14 DEF Stage
  <2>23. Locks(n)
    <3>1. User(n.key) \in DOMAIN n.w /\ n.id \in DOMAIN n.w /\ "market" \in DOMAIN n.w
      BY <1>1, <2>1, <2>2, <2>4, <2>14, <2>16, KeyFacts DEF Locks
    <3>2. DOMAIN n.w \cap Ids \subseteq {n.id}
      BY <2>1, <2>4, <2>5, <2>14, <2>16
    <3> QED BY <2>14, <3>1, <3>2 DEF Locks
  <2>24. Funds(n)
    BY <2>1, <2>4, <2>14, <2>16, <2>18, KeyFacts DEF Funds
  <2>25. Knows(n)
    <3>1. \A j \in Ids \cap DOMAIN n.w : j = n.id /\ n.w[j].key = n.key /\ IsOrder(n.w[j])
      BY <2>1, <2>4, <2>5, <2>14, <2>16, <2>18 DEF IsOrder
    <3> QED BY <2>1, <2>2, <2>5, <2>14, <3>1 DEF Knows
  <2>26. Grounded(t, n)
    <3>1. \A j \in Ids \cap DOMAIN n.w : j = t.id
      BY <2>1, <2>4, <2>5, <2>16
    <3> QED BY <2>14, <3>1 DEF Grounded
  <2>27. Within(book', book)
    BY <2>12, WithinFacts
  <2>28. Mutex'
    BY <1>1, <2>12, <2>14, MutexStays DEF Queueing
  <2>29. DOMAIN w \subseteq Wants(s) \cup DOMAIN tx[s].w
    BY <1>1, <2>1, <2>5, <2>15 DEF Wants
  <2>30. /\ n.sets \in Nat /\ n.paid \in Nat /\ DOMAIN n.copy \subseteq Ids
         /\ \A j \in DOMAIN n.copy : Whole(n.copy[j])
    BY <2>2, <2>14 DEF Shape
  <2> QED BY <1>1, <2>1, <2>5, <2>12, <2>14, <2>21, <2>22, <2>23, <2>24, <2>25, <2>26, <2>27, <2>28, <2>29,
             <2>30, WritesKeep
<1> QED BY <1>2, <1>3

(* get_by_id of the matched order. *)
LEMMA ReadMakerKeeps == ASSUME SInv, NEW s \in Sessions, ReadMaker(s) PROVE SInv'
<1>1. tx[s].at = "read_maker" /\ Holds(s) /\ UNCHANGED <<db, trades, book, queue>>
  BY InsideHolds DEF ReadMaker, Runs, Inside
<1>2. PICK t, i, row : t = tx[s] /\ i = t.fill /\ row = Val(s, i)
  OBVIOUS
<1>3. Shape(t) /\ Stage(t) /\ Locks(t) /\ Funds(t) /\ Knows(t) /\ DOMAIN t = Fields
  BY <1>2, SoundFacts
<1>4. i # None /\ i \in Ids /\ i # t.id /\ t.key \in BuyKeys /\ IsOrder(db[i])
  <2>1. i # None
    BY <1>1, <1>2, <1>3 DEF Stage
  <2> QED BY <1>2, <2>1, TakerFacts
<1>5. row = db[i] /\ Whole(row)
  <2>1. i \notin DOMAIN t.w
    BY <1>1, <1>2, <1>3, <1>4 DEF Locks
  <2> QED BY <1>2, <1>4, <2>1, RowsOfIds DEF Val
<1>6. PICK n : n = [t EXCEPT !.at = "write_maker", !.copy = Row(i, row)]
  OBVIOUS
<1>7. /\ DOMAIN n = Fields /\ n.at = "write_maker" /\ n.key = t.key /\ n.id = t.id /\ n.fill = t.fill
      /\ n.sets = t.sets /\ n.paid = t.paid /\ n.copy = Row(i, row) /\ n.w = t.w
  BY <1>3, <1>6 DEF Fields
<1>8. DOMAIN n.copy = {i} /\ n.copy[i] = row
  BY <1>7 DEF Row
<1>9. Moves(s, n)
  BY <1>1, <1>2, <1>6 DEF ReadMaker, Moves
<1>10. Shape(n)
  BY <1>3, <1>4, <1>5, <1>7, <1>8 DEF Shape
<1>11. Stage(n)
  BY <1>1, <1>2, <1>3, <1>7, <1>8 DEF Stage
<1>12. Locks(n) /\ Funds(n)
  BY <1>1, <1>2, <1>3, <1>7 DEF Locks, Funds
<1>13. Knows(n)
  BY <1>3, <1>4, <1>5, <1>7, <1>8 DEF Knows
<1>14. \A r \in Sessions : r # s => DOMAIN n.w \cap DOMAIN tx[r].w = {}
  BY <1>2, <1>7 DEF SInv, Apart
<1>15. Grounded(t, n)
  BY <1>5, <1>7, <1>8 DEF Grounded
<1>16. Mutex'
  BY <1>1, <1>7, <1>9, MutexStays DEF Queueing
<1> QED BY <1>1, <1>2, <1>7, <1>9, <1>10, <1>11, <1>12, <1>13, <1>14, <1>15, <1>16, GoesOn, WithinFacts DEF Sound

(* _update_maker_status writes the row back with one more fill. *)
LEMMA WriteMakerKeeps == ASSUME SInv, NEW s \in Sessions, WriteMaker(s) PROVE SInv'
<1>1. tx[s].at = "write_maker" /\ Blockers(s) = {} /\ Holds(s) /\ UNCHANGED <<db, trades, book, queue>>
  BY InsideHolds DEF WriteMaker, Runs, Inside
<1>2. PICK t, i, old : t = tx[s] /\ i = t.fill /\ old = t.copy[i]
  OBVIOUS
<1>3. Shape(t) /\ Stage(t) /\ Locks(t) /\ Funds(t) /\ Knows(t) /\ DOMAIN t = Fields
  BY <1>2, SoundFacts
<1>4. i # None /\ i \in Ids /\ i \in Rows /\ i # t.id /\ t.key \in BuyKeys /\ t.key \in Users /\ i \notin Users
      /\ i # "market" /\ IsOrder(db[i]) /\ db[i].key \in MakerKeys
  <2>1. i # None
    BY <1>1, <1>2, <1>3 DEF Stage
  <2> QED BY <1>2, <2>1, TakerFacts, RowTypes
<1>5. DOMAIN t.copy = {i} /\ Whole(old) /\ IsOrder(old) /\ old.key = db[i].key
  BY <1>1, <1>2, <1>3 DEF Stage, Shape, Knows
<1>6. PICK st, q : /\ st = IF Remaining(old) <= 1 THEN "FILLED" ELSE "PARTIALLY_FILLED"
                   /\ q = old.filled + 1
  OBVIOUS
<1>7. PICK row : row = [old EXCEPT !.filled = q, !.status = st]
  OBVIOUS
<1>8. PICK w : w = Row(i, row)
  OBVIOUS
<1>9. PICK n : n = Wrote(s, w, "finalize")
  OBVIOUS
<1>10. Moves(s, n)
  BY <1>1, <1>2, <1>6, <1>7, <1>8, <1>9 DEF WriteMaker, Moves
<1>11. /\ DOMAIN n = Fields /\ n.at = "finalize" /\ n.w = Over(w, t.w) /\ n.key = t.key /\ n.id = t.id
       /\ n.fill = t.fill /\ n.sets = t.sets /\ n.paid = t.paid /\ n.copy = t.copy
  BY <1>2, <1>3, <1>9, WroteFacts
<1>12. q \in 0 .. Lot
  <2>1. old.filled <= Lot - 1
    BY <1>2, <1>4, <1>5 DEF SInv, Room, AtMost
  <2> QED BY <1>5, <1>6, <2>1, KeyFacts DEF Whole, OrderRow
<1>13. Whole(row) /\ row.key = db[i].key /\ row.filled = q /\ IsOrder(row)
  <2>1. st \in {"FILLED", "PARTIALLY_FILLED"}
    BY <1>6
  <2>2. row \in OrderRow /\ row.key = db[i].key /\ row.filled = q /\ row.status = st
    BY <1>5, <1>7, <1>12, <2>1 DEF Whole, OrderRow
  <2>3. q <= Quantity(row.key)
    BY <1>4, <1>12, <2>2, KeyFacts
  <2> QED BY <2>1, <2>2, <2>3 DEF Whole, IsOrder
<1>14. DOMAIN w = {i} /\ w[i] = row
  BY <1>8, RowFacts
<1>15. /\ DOMAIN n.w = {i} \cup DOMAIN t.w /\ n.w[i] = row
       /\ \A r \in DOMAIN t.w : r # i => n.w[r] = t.w[r]
  BY <1>11, <1>14 DEF Over
<1>16. Stage(n)
  BY <1>1, <1>2, <1>3, <1>4, <1>11 DEF Stage
<1>17. User(n.key) \in DOMAIN n.w /\ "market" \in DOMAIN n.w /\ n.id \in DOMAIN n.w
  BY <1>1, <1>2, <1>3, <1>4, <1>11, <1>15, KeyFacts DEF Locks
<1>18. Locks(n)
  BY <1>11, <1>17 DEF Locks
<1>19. Funds(n)
  <2>1. t.w[t.id].status = "FILLED" /\ t.id \in DOMAIN t.w
    BY <1>1, <1>2, <1>3, <1>4, KeyFacts DEF Funds, Locks
  <2>2. ~Active(n.w[n.id])
    BY <1>4, <1>11, <1>15, <2>1 DEF Active
  <2> QED BY <1>4, <1>11, <2>2, KeyFacts DEF Funds
<1>20. Knows(n)
  <2>1. \A j \in Ids \cap DOMAIN n.w : j # i => j \in Ids \cap DOMAIN t.w /\ n.w[j] = t.w[j]
    BY <1>15
  <2>2. n.id \in DOMAIN n.w => t.id \in DOMAIN t.w
    BY <1>4, <1>11, <1>15
  <2> QED BY <1>3, <1>4, <1>11, <1>13, <1>15, <2>1, <2>2 DEF Knows
<1>21. Grounded(t, n)
  BY <1>2, <1>5, <1>6, <1>11, <1>13, <1>15, SMTT(60) DEF Grounded
<1>22. Mutex'
  BY <1>1, <1>10, <1>11, MutexStays DEF Queueing
<1>23. /\ DOMAIN w \subseteq Wants(s) \cup DOMAIN tx[s].w /\ DOMAIN w \subseteq Rows
       /\ \A r \in DOMAIN w : RowOK(r, w[r])
       /\ n.id \in DOMAIN w => n.id \in DOMAIN tx[s].w
  BY <1>1, <1>2, <1>4, <1>11, <1>13, <1>14, RowTypes DEF Wants
<1>24. /\ n.sets \in Nat /\ n.paid \in Nat /\ DOMAIN n.copy \subseteq Ids
       /\ \A j \in DOMAIN n.copy : Whole(n.copy[j])
  BY <1>3, <1>11 DEF Shape
<1>25. n.at \in Labels /\ Within(book', book)
  BY <1>1, <1>11, WithinFacts
<1> QED BY <1>1, <1>2, <1>10, <1>11, <1>16, <1>18, <1>19, <1>20, <1>21, <1>22, <1>23, <1>24, <1>25, WritesKeep

\* o are the rows f over the rows g.
IsOver(o, f, g) ==
  /\ DOMAIN o = DOMAIN f \cup DOMAIN g
  /\ \A x \in DOMAIN f : o[x] = f[x]
  /\ \A x \in DOMAIN g : x \notin DOMAIN f => o[x] = g[x]

(* Rows over rows. *)
LEMMA OverIs == \A f, g : IsOver(Over(f, g), f, g)
BY DEF Over, IsOver

(* What _finalize_order writes are rows of the request, and no fill.        *)
LEMMA FinalizeFacts ==
  ASSUME SInv, NEW s \in Sessions, tx[s].at = "finalize", NEW n, NEW w, DOMAIN n = Fields, n.w = Over(w, tx[s].w),
         n.at = "commit", n.key = tx[s].key, n.id = tx[s].id, n.fill = tx[s].fill,
         n.sets = tx[s].sets, n.paid = tx[s].paid, n.copy = tx[s].copy,
         NEW market, NEW expired, market = Row("market", [Val(s, "market") EXCEPT !.sets = tx[s].sets]),
         expired = Over(Row(tx[s].id, [Val(s, tx[s].id) EXCEPT !.status = "CANCELLED"]),
                        Row(tx[s].key, Unfrozen(Val(s, tx[s].key), 1))),
         w = IF tx[s].key \in BuyKeys /\ Active(Val(s, tx[s].id)) THEN Over(market, expired) ELSE market
  PROVE  /\ Sound(n) /\ Grounded(tx[s], n) /\ DOMAIN n.w = DOMAIN tx[s].w
         /\ \A j \in Ids \cap DOMAIN n.w : n.w[j].filled = tx[s].w[j].filled
<1>1. PICK t, i, u : t = tx[s] /\ i = t.id /\ u = t.key
  OBVIOUS
<1>2. Shape(t) /\ Stage(t) /\ Locks(t) /\ Funds(t) /\ Knows(t) /\ DOMAIN t = Fields
  BY <1>1, SoundFacts
<1>3. u \in Keys /\ u # None /\ i \in Ids /\ i # None /\ ~IsOrder(db[i]) /\ i # "market" /\ i \notin Users
  BY <1>1, PlaceFacts, RowTypes
<1>4. i \in DOMAIN t.w /\ User(u) \in DOMAIN t.w /\ "market" \in DOMAIN t.w /\ "market" \notin Ids
  BY <1>1, <1>2, <1>3, RowTypes DEF Locks
<1>12. /\ DOMAIN n.w = DOMAIN w \cup DOMAIN t.w
       /\ \A x \in DOMAIN w : n.w[x] = w[x]
       /\ \A x \in DOMAIN t.w : x \notin DOMAIN w => n.w[x] = t.w[x]
  <2>1. IsOver(n.w, w, t.w)
    BY <1>1, OverIs
  <2> QED BY <2>1 DEF IsOver
<1>5. PICK row, cut, old : row = t.w[i] /\ cut = [row EXCEPT !.status = "CANCELLED"] /\ old = Val(s, u)
  OBVIOUS
<1>6. Val(s, i) = row
  BY <1>1, <1>4, <1>5 DEF Val
<1>7. Whole(row) /\ IsOrder(row) /\ row.key = u
  BY <1>1, <1>2, <1>3, <1>4, <1>5, RowTypes DEF Shape, Knows
<1>8. Whole(cut) /\ IsOrder(cut) /\ cut.key = u /\ cut.filled = row.filled
  <2>1. cut \in OrderRow /\ cut.key = row.key /\ cut.filled = row.filled /\ cut.status = "CANCELLED"
    BY <1>5, <1>7 DEF Whole, OrderRow
  <2> QED BY <1>7, <2>1 DEF Whole, IsOrder
<1>9. DOMAIN market = {"market"} /\ RowOK("market", market["market"])
  <2>1. PICK m, k : m = Val(s, "market") /\ k = t.sets
    OBVIOUS
  <2>2. m \in [status : {"ACTIVE", "SETTLED"}, sets : Nat] /\ k \in Nat
    BY <1>2, <2>1, ReadFacts, RowTypes DEF Shape
  <2>3. DOMAIN market = {"market"} /\ market["market"] = [m EXCEPT !.sets = k]
    BY <1>1, <2>1 DEF Row
  <2>4. market["market"] \in [status : {"ACTIVE", "SETTLED"}, sets : Nat]
    BY <2>2, <2>3
  <2> QED BY <2>3, <2>4, RowTypes
<1>10. CASE ~(u \in BuyKeys /\ Active(row))
  <2>1. w = market
    BY <1>1, <1>6, <1>10
  <2>2. /\ DOMAIN n.w = DOMAIN t.w /\ \A r \in DOMAIN t.w : r # "market" => n.w[r] = t.w[r]
        /\ n.w["market"] = market["market"]
    BY <1>4, <1>9, <1>12, <2>1, SMTT(60)
  <2>3. \A r \in DOMAIN n.w : RowOK(r, n.w[r])
    BY <1>2, <1>9, <2>2 DEF Shape
  <2>4. Shape(n)
    BY <1>1, <1>2, <2>2, <2>3, SMTT(60) DEF Shape
  <2>5. Stage(n)
    BY <1>1, <1>2 DEF Stage
  <2>6. Locks(n) /\ Funds(n)
    BY <1>1, <1>2, <1>3, <1>4, <2>2, KeyFacts, SMTT(60) DEF Locks, Funds
  <2>7. \A j \in Ids \cap DOMAIN n.w : n.w[j] = t.w[j] /\ j \in DOMAIN t.w
    BY <1>4, <2>2
  <2>8. Knows(n)
    <3>1. DOMAIN n.w \cap Ids = DOMAIN t.w \cap Ids
      BY <2>2
    <3> QED BY <1>1, <1>2, <1>3, <2>7, <3>1, KnowsKept
  <2>9. Grounded(t, n)
    BY <1>1, <2>7 DEF Grounded
  <2> QED BY <1>1, <2>2, <2>4, <2>5, <2>6, <2>7, <2>8, <2>9 DEF Sound
<1>11. CASE u \in BuyKeys /\ Active(row)
  <2>1. w = Over(market, expired)
    BY <1>1, <1>6, <1>11
  <2>2. u \in DOMAIN t.w /\ u \in Users /\ u \notin Ids \cup {"market", "shares"} /\ old = t.w[u] /\ old.frozen >= 1
    <3>1. u \in DOMAIN t.w /\ u \in Users /\ u \notin Ids \cup {"market", "shares"}
      BY <1>4, <1>11, KeyFacts, RowTypes
    <3>2. t.w[u].frozen >= 1
      BY <1>1, <1>2, <1>5, <1>11 DEF Funds
    <3> QED BY <1>1, <1>5, <3>1, <3>2 DEF Val
  <2>3. Unfrozen(old, 1) \in Account
    <3>1. PICK k \in Nat : k = 1
      OBVIOUS
    <3>2. old \in Account /\ old.frozen >= k
      BY <1>5, <2>2, <3>1, ReadFacts, RowTypes
    <3>3. Unfrozen(old, k) \in Account
      BY <3>2, AccountFacts
    <3> QED BY <3>1, <3>3
  <2>4. DOMAIN expired = {i, u} /\ expired[i] = cut /\ expired[u] = Unfrozen(old, 1)
    BY <1>1, <1>3, <1>5, <1>6, <2>2 DEF Over, Row
  <2>5. /\ DOMAIN w = {"market", i, u} /\ w["market"] = market["market"] /\ w[i] = cut /\ w[u] = Unfrozen(old, 1)
    BY <1>3, <1>9, <2>1, <2>2, <2>4, ZenonT(60) DEF Over
  <2>6. /\ DOMAIN n.w = DOMAIN t.w /\ n.w[i] = cut
        /\ \A r \in DOMAIN t.w : r \notin DOMAIN w => n.w[r] = t.w[r]
        /\ \A r \in DOMAIN w : n.w[r] = w[r]
    BY <1>4, <1>12, <2>2, <2>5
  <2>7. \A r \in DOMAIN w : RowOK(r, w[r])
    BY <1>3, <1>8, <1>9, <2>2, <2>3, <2>5, RowTypes
  <2>8. \A r \in DOMAIN n.w : RowOK(r, n.w[r])
    BY <1>2, <2>6, <2>7 DEF Shape
  <2>9. Shape(n)
    BY <1>1, <1>2, <2>6, <2>8, SMTT(60) DEF Shape
  <2>10. Stage(n)
    BY <1>1, <1>2 DEF Stage
  <2>11. Locks(n)
    BY <1>1, <1>2, <1>3, <1>4, <2>6, KeyFacts DEF Locks
  <2>12. Funds(n)
    BY <1>1, <1>11, KeyFacts DEF Funds
  <2>13. \A j \in Ids \cap DOMAIN n.w : j # i => n.w[j] = t.w[j] /\ j \in DOMAIN t.w
    BY <1>4, <2>2, <2>5, <2>6
  <2>14. Knows(n)
    <3>1. DOMAIN n.w \cap Ids = DOMAIN t.w \cap Ids
      BY <2>6
    <3>2. IsOrder(n.w[i]) /\ n.w[i].key = t.w[i].key
      BY <1>5, <1>7, <1>8, <2>6
    <3>3. \A j \in Ids \cap DOMAIN t.w :
            n.w[j] = t.w[j] \/ (IsOrder(n.w[j]) /\ n.w[j].key = t.w[j].key)
      BY <2>13, <3>1, <3>2
    <3>4. /\ t.id \in Ids \cup {None} /\ n.key = t.key /\ n.id = t.id /\ n.fill = t.fill
          /\ n.copy = t.copy /\ Knows(t)
      BY <1>1, <1>2, <1>3
    <3> QED BY <3>1, <3>3, <3>4, KnowsKept
  <2>15. Grounded(t, n)
    BY <1>1, <2>13 DEF Grounded
  <2>16. \A j \in Ids \cap DOMAIN n.w : n.w[j].filled = t.w[j].filled
    BY <1>5, <1>8, <2>6, <2>13, ZenonT(60)
  <2> QED BY <1>1, <2>6, <2>9, <2>10, <2>11, <2>12, <2>14, <2>15, <2>16 DEF Sound
<1> QED BY <1>10, <1>11

(* _finalize_order, update_market_state and the end of the lock. *)
LEMMA FinalizeKeeps == ASSUME SInv, NEW s \in Sessions, Finalize(s) PROVE SInv'
<1>1. tx[s].at = "finalize" /\ Holds(s) /\ Release(s) /\ UNCHANGED <<db, trades>>
  BY InsideHolds DEF Finalize, Runs, Inside
<1>2. PICK t, row : t = tx[s] /\ row = Val(s, t.id)
  OBVIOUS
<1>3. PICK market, expired :
        /\ market = Row("market", [Val(s, "market") EXCEPT !.sets = t.sets])
        /\ expired = Over(Row(t.id, [row EXCEPT !.status = "CANCELLED"]), Row(t.key, Unfrozen(Val(s, t.key), 1)))
  OBVIOUS
<1>4. PICK w : w = IF t.key \in BuyKeys /\ Active(row) THEN Over(market, expired) ELSE market
  OBVIOUS
<1>5. PICK n : n = Wrote(s, w, "commit")
  OBVIOUS
<1>6. /\ book' = IF t.key \in MakerKeys THEN Append(book, [id |-> t.id, qty |-> Lot]) ELSE book
      /\ Moves(s, n)
  BY <1>1, <1>2, <1>3, <1>4, <1>5 DEF Finalize, Moves
<1>7. /\ DOMAIN n = Fields /\ n.at = "commit" /\ n.w = Over(w, t.w) /\ n.key = t.key /\ n.id = t.id
      /\ n.fill = t.fill /\ n.sets = t.sets /\ n.paid = t.paid /\ n.copy = t.copy
  BY <1>2, <1>5, SoundFacts, WroteFacts
<1>8. /\ Sound(n) /\ Grounded(t, n) /\ DOMAIN n.w = DOMAIN t.w
      /\ \A j \in Ids \cap DOMAIN n.w : n.w[j].filled = t.w[j].filled
  <2>1. /\ market = Row("market", [Val(s, "market") EXCEPT !.sets = tx[s].sets])
        /\ expired = Over(Row(tx[s].id, [Val(s, tx[s].id) EXCEPT !.status = "CANCELLED"]),
                          Row(tx[s].key, Unfrozen(Val(s, tx[s].key), 1)))
        /\ w = IF tx[s].key \in BuyKeys /\ Active(Val(s, tx[s].id)) THEN Over(market, expired) ELSE market
    BY <1>2, <1>3, <1>4
  <2>2. /\ n.w = Over(w, tx[s].w) /\ n.key = tx[s].key /\ n.id = tx[s].id /\ n.fill = tx[s].fill
        /\ n.sets = tx[s].sets /\ n.paid = tx[s].paid /\ n.copy = tx[s].copy
    BY <1>2, <1>7
  <2> QED BY <1>1, <1>2, <1>7, <2>1, <2>2, FinalizeFacts
<1>9. Mutex'
  BY <1>1, <1>6, <1>7, MutexLeaves DEF Inside, Queueing
<1>10. CASE t.key \notin MakerKeys
  <2>1. Within(book', book)
    BY <1>6, <1>10, WithinFacts
  <2>2. \A r \in Sessions : r # s => DOMAIN n.w \cap DOMAIN tx[r].w = {}
    BY <1>2, <1>8 DEF SInv, Apart
  <2> QED BY <1>1, <1>2, <1>6, <1>7, <1>8, <1>9, <2>1, <2>2, GoesOn
<1>11. CASE t.key \in MakerKeys
  <2>1. PICK i, o, c : i = t.id /\ o = [id |-> i, qty |-> Lot] /\ c = book'
    OBVIOUS
  <2>2. i \in Ids /\ i # None /\ ~IsOrder(db[i]) /\ i \in DOMAIN t.w
    BY <1>1, <1>2, <2>1, PlaceFacts, SoundFacts DEF Locks
  <2>3. t.fill = None
    BY <1>2, <1>11, SoundFacts, KeyFacts DEF Stage
  <2>4. /\ DOMAIN tx' = Sessions /\ tx'[s] = n /\ db' = db /\ \A r \in Sessions : r # s => tx'[r] = tx[r]
    BY <1>6, MoveFacts DEF SInv
  <2>5. \A k \in 1 .. Len(book) : book[k].id # i
    BY <1>1, <1>2, <2>1 DEF SInv, BookOK
  <2>6. /\ c \in Seq([id : Ids, qty : 1 .. Lot]) /\ Len(c) = Len(book) + 1 /\ c[Len(c)] = o
        /\ \A k \in 1 .. Len(book) : c[k] = book[k]
    <3> DEFINE T == [id : Ids, qty : 1 .. Lot]
    <3>1. book \in Seq(T) /\ o \in T
      BY <2>1, <2>2, KeyFacts DEF SInv, BookOK
    <3> HIDE DEF T
    <3>2. c = Append(book, o)
      BY <1>6, <1>11, <2>1
    <3>3. c \in Seq(T) /\ Len(c) = Len(book) + 1 /\ c[Len(c)] = o /\ \A k \in 1 .. Len(book) : c[k] = book[k]
      BY <3>1, <3>2
    <3> QED BY <3>3 DEF T
  <2>7. \A k \in 1 .. Len(c) : (k \in 1 .. Len(book) /\ c[k] = book[k]) \/ (k = Len(c) /\ c[k] = o)
    BY <2>6, BookFacts
  <2>8. o.id = i /\ o.qty = Lot
    BY <2>1
  <2>9. Requests' /\ Committed'
    BY <1>6, <1>8, RequestsKept
  <2>10. \A r \in Sessions : r # s => tx[r].id # i
    BY <1>2, <2>1, <2>2, OwnId
  <2>11. Apart'
    BY <2>4, <1>2, <1>7, <1>8 DEF SInv, Apart
  <2>12. BookOK'
    <3>1. \A k, m \in 1 .. Len(c) : k # m => c[k].id # c[m].id
      BY <2>5, <2>7, <2>8 DEF SInv, BookOK
    <3>2. ASSUME NEW k \in 1 .. Len(c)
          PROVE  \/ IsOrder(db[c[k].id]) /\ db[c[k].id].key \in MakerKeys
                 \/ \E r \in Sessions : tx'[r].at = "commit" /\ tx'[r].id = c[k].id /\ tx'[r].key \in MakerKeys
      <4>1. CASE k = Len(c) /\ c[k] = o
        BY <1>2, <1>7, <1>11, <2>1, <2>4, <2>8, <4>1
      <4>2. CASE k \in 1 .. Len(book) /\ c[k] = book[k]
        <5>1. ASSUME NEW r \in Sessions, tx[r].at = "commit", tx[r].id = book[k].id, tx[r].key \in MakerKeys
              PROVE  tx'[r].at = "commit" /\ tx'[r].id = c[k].id /\ tx'[r].key \in MakerKeys
          BY <1>1, <2>4, <4>2, <5>1
        <5> QED BY <4>2, <5>1 DEF SInv, BookOK
      <4> QED BY <2>7, <4>1, <4>2
    <3>3. ASSUME NEW k \in 1 .. Len(c), NEW r \in Sessions, tx'[r].id = c[k].id PROVE tx'[r].at = "commit"
      <4>1. CASE r = s
        BY <1>7, <2>4, <4>1
      <4>2. CASE r # s
        BY <2>4, <2>7, <2>8, <2>10, <3>3, <4>2 DEF SInv, BookOK
      <4> QED BY <4>1, <4>2
    <3> QED BY <2>1, <2>4, <2>6, <3>1, <3>2, <3>3, SMTT(60) DEF BookOK
  <2>13. ASSUME NEW j \in Ids, NEW S \in SUBSET Sessions, NEW k, AtMost(j, S, k) PROVE AtMost(j, S, k)'
    BY <1>2, <1>6, <1>7, <1>8, <2>13, SameCounts
  <2>14. AtMost(i, Sessions, 0)'
    <3>1. db[i].filled = 0
      BY <2>2 DEF SInv, Committed
    <3>2. \A r \in Sessions : i \notin DOMAIN tx'[r].copy
      <4>1. \A r \in Sessions : i \notin DOMAIN tx[r].copy
        BY <2>2, SoundFacts DEF Knows
      <4> QED BY <1>2, <1>7, <2>4, <4>1
    <3>3. \A r \in Sessions : r # s => i \notin DOMAIN tx'[r].w
      BY <1>2, <2>2, <2>4 DEF SInv, Apart
    <3>4. n.w[i].filled = 0
      BY <1>2, <1>8, <1>11, <2>1, <2>2, SoundFacts DEF Funds
    <3> QED BY <2>4, <3>1, <3>2, <3>3, <3>4 DEF AtMost
  <2>15. Room'
    <3>1. ASSUME NEW k \in 1 .. Len(c) PROVE AtMost(c[k].id, Sessions, Lot - c[k].qty)'
      <4>1. CASE k = Len(c) /\ c[k] = o
        <5>1. Lot - Lot = 0
          BY KeyFacts
        <5> QED BY <2>8, <2>14, <4>1, <5>1
      <4>2. CASE k \in 1 .. Len(book) /\ c[k] = book[k]
        <5>1. AtMost(book[k].id, Sessions, Lot - book[k].qty) /\ book[k].id \in Ids
          BY <4>2, BookFacts DEF SInv, Room
        <5>2. PICK j, v : j = book[k].id /\ v = Lot - book[k].qty
          OBVIOUS
        <5>3. PICK S \in SUBSET Sessions : S = Sessions
          OBVIOUS
        <5>4. AtMost(j, S, v)'
          BY <2>13, <5>1, <5>2, <5>3
        <5> QED BY <4>2, <5>2, <5>3, <5>4
      <4> QED BY <2>7, <4>1, <4>2
    <3>2. ASSUME NEW r \in Sessions, tx'[r].fill # None, NEW j, j = tx'[r].fill
          PROVE  /\ AtMost(j, Sessions \ {r}, Lot - 1)'
                 /\ \A k \in 1 .. Len(c) : c[k].id = j => AtMost(j, Sessions \ {r}, Lot - 1 - c[k].qty)'
      <4>1. r # s /\ tx[r].fill # None /\ tx[r].fill = j
        BY <1>7, <2>3, <2>4, <3>2
      <4>2. j \in Ids /\ j # i
        BY <2>2, <4>1, FillFacts
      <4>3. PICK S \in SUBSET Sessions : S = Sessions \ {r}
        OBVIOUS
      <4>4. AtMost(j, S, Lot - 1)'
        BY <2>13, <4>1, <4>2, <4>3 DEF SInv, Room
      <4>5. ASSUME NEW k \in 1 .. Len(c), c[k].id = j PROVE AtMost(j, S, Lot - 1 - c[k].qty)'
        <5>1. k \in 1 .. Len(book) /\ c[k] = book[k]
          BY <2>7, <2>8, <4>2, <4>5
        <5>2. AtMost(j, S, Lot - 1 - book[k].qty)
          BY <4>1, <4>3, <4>5, <5>1 DEF SInv, Room
        <5>3. PICK v : v = Lot - 1 - book[k].qty
          OBVIOUS
        <5>4. AtMost(j, S, v)'
          BY <2>13, <4>2, <5>2, <5>3
        <5> QED BY <5>1, <5>3, <5>4
      <4> QED BY <4>3, <4>4, <4>5
    <3>3. \A k \in 1 .. Len(book') : AtMost(book[k].id, Sessions, Lot - book[k].qty)'
      BY <2>1, <3>1
    <3>4. ASSUME NEW r \in Sessions, tx'[r].fill # None
          PROVE  (/\ AtMost(tx[r].fill, Sessions \ {r}, Lot - 1)
                  /\ \A k \in 1 .. Len(book) :
                       book[k].id = tx[r].fill => AtMost(tx[r].fill, Sessions \ {r}, Lot - 1 - book[k].qty))'
      BY <2>1, <3>2, <3>4
    <3> QED BY <3>3, <3>4 DEF Room
  <2> QED BY <1>9, <2>9, <2>11, <2>12, <2>15 DEF SInv
<1> QED BY <1>10, <1>11

(* What is committed: rows that exist stay the same orders, and the new one *)
(* has a key of its own.                                                    *)
LEMMA CommitRows ==
  ASSUME SInv, NEW s \in Sessions, tx[s].at = "commit", NEW d, d = Over(tx[s].w, db)
  PROVE  /\ DOMAIN d = Rows /\ \A r \in DOMAIN tx[s].w : d[r] = tx[s].w[r]
         /\ \A r \in Rows : r \notin DOMAIN tx[s].w => d[r] = db[r]
         /\ \A r \in Rows : RowOK(r, d[r])
         /\ \A i \in Ids : IsOrder(db[i]) => IsOrder(d[i]) /\ d[i].key = db[i].key
         /\ \A i \in Ids : IsOrder(d[i]) => IsOrder(db[i]) \/ (i = tx[s].id /\ i \in DOMAIN tx[s].w /\ d[i].key = tx[s].key)
         /\ \A i \in Ids : ~IsOrder(d[i]) => ~IsOrder(db[i]) /\ d[i] = db[i]
<1>1. PICK t : t = tx[s]
  OBVIOUS
<1>2. Shape(t) /\ Stage(t) /\ Locks(t) /\ Knows(t)
  BY <1>1, SoundFacts
<1>3. DOMAIN db = Rows /\ \A r \in Rows : RowOK(r, db[r])
  BY DEF SInv, Committed
<1>4. /\ DOMAIN d = Rows /\ \A r \in DOMAIN t.w : d[r] = t.w[r]
      /\ \A r \in Rows : r \notin DOMAIN t.w => d[r] = db[r]
  <2>1. IsOver(d, t.w, db)
    BY <1>1, OverIs
  <2> QED BY <1>2, <1>3, <2>1 DEF IsOver, Shape
<1>5. \A r \in Rows : RowOK(r, d[r])
  BY <1>2, <1>3, <1>4 DEF Shape
<1>6. \A i \in Ids : i \in Rows
  BY RowsOfIds
<1>7. ASSUME NEW i \in Ids, i \in DOMAIN t.w
      PROVE  /\ IsOrder(d[i])
             /\ \/ IsOrder(db[i]) /\ d[i].key = db[i].key
                \/ i = t.id /\ d[i].key = t.key /\ ~IsOrder(db[i])
  <2>1. t.id = i => ~IsOrder(db[i])
    BY <1>2, <1>7, KeyFacts DEF Knows
  <2> QED BY <1>2, <1>4, <1>7, <2>1 DEF Knows
<1>8. ASSUME NEW i \in Ids, i \notin DOMAIN t.w PROVE d[i] = db[i]
  BY <1>4, <1>6, <1>8
<1> QED BY <1>1, <1>4, <1>5, <1>7, <1>8

(* db.commit(). *)
LEMMA CommitKeeps == ASSUME SInv, NEW s \in Sessions, Commit(s) PROVE SInv'
<1>1. /\ tx[s].at = "commit" /\ tx' = [tx EXCEPT ![s] = Idle] /\ UNCHANGED <<book, queue>>
      /\ trades' = IF tx[s].fill = None THEN trades ELSE trades \cup {<<tx[s].fill, tx[s].id>>}
  BY DEF Commit
<1>2. PICK t, n, d : t = tx[s] /\ n = Idle /\ d = Over(t.w, db)
  OBVIOUS
<1>3. db' = d
  BY <1>2 DEF Commit
<1>4. Shape(t) /\ Stage(t) /\ Locks(t) /\ Funds(t) /\ Knows(t)
  BY <1>2, SoundFacts
<1>5. /\ n.at = "idle" /\ n.id = None /\ n.key = None /\ n.fill = None
      /\ DOMAIN n.w = {} /\ DOMAIN n.copy = {} /\ ~Inside(n) /\ ~Queueing(n)
  BY <1>2, IdleFacts
<1>6. DOMAIN tx' = Sessions /\ tx'[s] = n /\ \A r \in Sessions : r # s => tx'[r] = tx[r]
  BY <1>1, <1>2 DEF SInv, Requests
<1>7. /\ DOMAIN d = Rows /\ \A r \in DOMAIN t.w : d[r] = t.w[r]
      /\ \A r \in Rows : r \notin DOMAIN t.w => d[r] = db[r]
      /\ \A r \in Rows : RowOK(r, d[r])
      /\ \A i \in Ids : IsOrder(db[i]) => IsOrder(d[i]) /\ d[i].key = db[i].key
      /\ \A i \in Ids : IsOrder(d[i]) => IsOrder(db[i]) \/ (i = t.id /\ i \in DOMAIN t.w /\ d[i].key = t.key)
      /\ \A i \in Ids : ~IsOrder(d[i]) => ~IsOrder(db[i]) /\ d[i] = db[i]
  BY <1>1, <1>2, CommitRows
<1>8. t.id # None => t.id \in DOMAIN t.w /\ t.id \in Ids /\ t.key # None /\ t.key \in Keys
  BY <1>1, <1>2, <1>4 DEF Locks, Stage, Shape
<1>9. t.id # None => \A j \in Ids : db[j].key # t.key
  BY <1>4, <1>8 DEF Knows
<1>10. Requests'
  <2>1. ASSUME NEW r \in Sessions, r # s PROVE Knows(tx[r])'
    <3>1. PICK x : x = tx[r]
      OBVIOUS
    <3>2. Shape(x) /\ Stage(x) /\ Knows(x)
      BY <3>1, SoundFacts
    <3>3. /\ \A i \in DOMAIN x.copy : i \in Ids /\ IsOrder(d[i]) /\ IsOrder(x.copy[i]) /\ x.copy[i].key = d[i].key
      BY <1>7, <3>2 DEF Knows, Shape
    <3>4. \A i \in Ids \cap DOMAIN x.w :
            /\ IsOrder(x.w[i])
            /\ (IsOrder(d[i]) /\ x.w[i].key = d[i].key) \/ (i = x.id /\ x.w[i].key = x.key)
      BY <1>7, <3>2 DEF Knows
    <3>5. x.fill # None => IsOrder(d[x.fill]) /\ d[x.fill].key \in MakerKeys
      BY <1>7, <3>1, <3>2, FillFacts DEF Knows
    <3>6. ASSUME x.id # None PROVE x.id \in Ids /\ ~IsOrder(d[x.id])
      <4>1. x.id \in Ids /\ ~IsOrder(db[x.id]) /\ x.id # t.id
        BY <1>2, <2>1, <3>1, <3>2, <3>6, OwnId DEF Shape, Knows
      <4> QED BY <1>7, <4>1
    <3>7. ASSUME x.id # None, x.id \in DOMAIN x.w, NEW j \in Ids PROVE d[j].key # x.key
      <4>1. db[j].key # x.key
        BY <3>2, <3>7 DEF Knows
      <4>2. CASE IsOrder(db[j]) \/ ~IsOrder(d[j])
        BY <1>7, <4>1, <4>2
      <4>3. CASE j = t.id /\ j \in DOMAIN t.w /\ d[j].key = t.key
        BY <1>2, <1>8, <2>1, <3>1, <3>7, <4>3, KeyFacts DEF SInv, Apart
      <4> QED BY <1>7, <4>2, <4>3
    <3> QED BY <1>3, <1>6, <2>1, <3>1, <3>3, <3>4, <3>5, <3>6, <3>7 DEF Knows
  <2>2. ASSUME NEW r \in Sessions PROVE Sound(tx[r])'
    <3>1. CASE r # s
      <4>1. PICK x : x = tx'[r]
        OBVIOUS
      <4>2. Shape(x) /\ Stage(x) /\ Locks(x) /\ Funds(x)
        BY <1>6, <3>1, <4>1, SoundFacts
      <4> QED BY <2>1, <3>1, <4>1, <4>2 DEF Sound
    <3>2. CASE r = s
      <4>1. PICK x : x = tx'[r]
        OBVIOUS
      <4>2. Shape(x) /\ Stage(x) /\ Locks(x) /\ Funds(x)
        BY <1>2, <1>6, <3>2, <4>1, IdleFacts DEF Sound
      <4>3. Knows(x)'
        BY <1>5, <1>6, <3>2, <4>1 DEF Knows
      <4> QED BY <4>1, <4>2, <4>3 DEF Sound
    <3> QED BY <3>1, <3>2
  <2> QED BY <1>6, <2>2 DEF Requests
<1>11. Committed'
  <2>1. \A i \in Ids : (IsOrder(db[i]) <=> db[i].key # None) /\ (IsOrder(db[i]) \/ db[i].filled = 0)
    BY DEF SInv, Committed
  <2>2. ASSUME NEW i \in Ids PROVE (IsOrder(d[i]) <=> d[i].key # None) /\ (IsOrder(d[i]) \/ d[i].filled = 0)
    BY <1>7, <1>8, <2>1, KeyFacts
  <2>3. ASSUME NEW i \in Ids, NEW j \in Ids, IsOrder(d[i]), IsOrder(d[j]), d[i].key = d[j].key PROVE i = j
    <3>1. CASE IsOrder(db[i]) /\ IsOrder(db[j])
      BY <1>7, <2>3, <3>1 DEF SInv, Committed, OneRowPerKey
    <3>2. CASE ~IsOrder(db[i]) \/ ~IsOrder(db[j])
      <4>1. ASSUME NEW x \in Ids, NEW y \in Ids, ~IsOrder(db[x]), IsOrder(d[x]), IsOrder(d[y]), d[x].key = d[y].key PROVE x = y
        <5>1. x = t.id /\ d[x].key = t.key
          BY <1>7, <4>1
        <5>2. IsOrder(db[y]) => db[y].key # t.key /\ d[y].key = db[y].key
          BY <1>7, <1>9, <5>1, KeyFacts
        <5> QED BY <1>7, <4>1, <5>1, <5>2
      <4> QED BY <2>3, <3>2, <4>1
    <3> QED BY <3>1, <3>2
  <2>4. ASSUME NEW x \in trades' PROVE x \in Ids \X Ids /\ IsOrder(d[x[1]]) /\ IsOrder(d[x[2]])
    <3>1. CASE x \in trades
      <4>1. x \in Ids \X Ids /\ IsOrder(db[x[1]]) /\ IsOrder(db[x[2]])
        BY <3>1 DEF SInv, Committed
      <4>2. x[1] \in Ids /\ x[2] \in Ids
        BY <4>1
      <4> QED BY <1>7, <4>1, <4>2
    <3>2. CASE t.fill # None /\ x = <<t.fill, t.id>>
      <4>1. t.fill \in Ids /\ IsOrder(db[t.fill])
        BY <1>2, <3>2, FillFacts
      <4>2. t.id # None
        BY <1>4, <3>2, KeyFacts DEF Stage
      <4>3. t.w[t.id].status # "NONE"
        BY <1>4, <1>8, <4>2 DEF Knows, IsOrder
      <4>4. IsOrder(d[t.id])
        BY <1>7, <1>8, <4>2, <4>3 DEF IsOrder
      <4> QED BY <1>7, <1>8, <3>2, <4>1, <4>2, <4>4
    <3> QED BY <1>1, <1>2, <3>1, <3>2
  <2> QED BY <1>3, <1>7, <2>2, <2>3, <2>4 DEF Committed, OneRowPerKey
<1>12. Apart'
  BY <1>5, <1>6 DEF SInv, Apart
<1>13. Mutex'
  <2>1. ~InQueue(s)
    BY <1>1 DEF SInv, Mutex, InQueue
  <2> QED BY <1>1, <1>5, <1>6, <2>1, MutexTurns
<1>14. BookOK'
  <2>1. ASSUME NEW k \in 1 .. Len(book)
        PROVE  \/ IsOrder(d[book[k].id]) /\ d[book[k].id].key \in MakerKeys
               \/ \E r \in Sessions : tx'[r].at = "commit" /\ tx'[r].id = book[k].id /\ tx'[r].key \in MakerKeys
    <3>1. book[k].id \in Ids /\ book[k].id # None
      BY BookFacts
    <3>2. CASE IsOrder(db[book[k].id]) /\ db[book[k].id].key \in MakerKeys
      BY <1>7, <3>1, <3>2
    <3>3. ASSUME NEW r \in Sessions, tx[r].at = "commit", tx[r].id = book[k].id, tx[r].key \in MakerKeys
          PROVE  \/ IsOrder(d[book[k].id]) /\ d[book[k].id].key \in MakerKeys
                 \/ tx'[r].at = "commit" /\ tx'[r].id = book[k].id /\ tx'[r].key \in MakerKeys
      <4>1. CASE r # s
        BY <1>6, <3>3, <4>1
      <4>2. CASE r = s
        <5>1. ~IsOrder(db[t.id]) /\ t.id = book[k].id /\ t.id \in DOMAIN t.w
          BY <1>2, <1>4, <1>8, <3>1, <3>3, <4>2 DEF Knows
        <5>2. IsOrder(d[t.id])
          BY <1>4, <1>7, <3>1, <5>1 DEF Knows
        <5> QED BY <1>2, <1>7, <3>1, <3>3, <4>2, <5>1, <5>2
      <4> QED BY <4>1, <4>2
    <3> QED BY <3>2, <3>3 DEF SInv, BookOK
  <2>2. ASSUME NEW k \in 1 .. Len(book), NEW r \in Sessions, tx'[r].id = book[k].id PROVE tx'[r].at = "commit"
    <3>1. book[k].id # None
      BY BookFacts
    <3> QED BY <1>5, <1>6, <2>2, <3>1 DEF SInv, BookOK
  <2> QED BY <1>1, <1>3, <1>6, <2>1, <2>2 DEF SInv, BookOK
<1>15. Room'
  <2>1. ASSUME NEW i \in Ids, NEW S \in SUBSET Sessions, s \in S, NEW m, AtMost(i, S, m) PROVE AtMost(i, S, m)'
    <3>1. d[i].filled <= m
      BY <1>2, <1>7, <2>1, RowsOfIds DEF AtMost
    <3>2. \A r \in Sessions : i \in DOMAIN tx'[r].copy => tx'[r].copy[i].filled <= m
      BY <1>5, <1>6, <2>1 DEF AtMost
    <3>3. \A r \in S : i \in DOMAIN tx'[r].w => tx'[r].w[i].filled <= m
      BY <1>5, <1>6, <2>1 DEF AtMost
    <3> QED BY <1>3, <3>1, <3>2, <3>3 DEF AtMost
  <2>2. \A k \in 1 .. Len(book) : AtMost(book[k].id, Sessions, Lot - book[k].qty)'
    <3> TAKE k \in 1 .. Len(book)
    <3>1. PICK i, m, S : i = book[k].id /\ m = Lot - book[k].qty /\ S = Sessions
      OBVIOUS
    <3>2. i \in Ids /\ AtMost(i, S, m) /\ book' = book
      BY <1>1, <3>1, BookFacts DEF SInv, Room
    <3>3. AtMost(i, S, m)'
      BY <2>1, <3>1, <3>2
    <3> QED BY <3>1, <3>2, <3>3
  <2>3. ASSUME NEW r \in Sessions, tx'[r].fill # None
        PROVE  (/\ AtMost(tx[r].fill, Sessions \ {r}, Lot - 1)
                /\ \A k \in 1 .. Len(book) :
                     book[k].id = tx[r].fill => AtMost(tx[r].fill, Sessions \ {r}, Lot - 1 - book[k].qty))'
    <3>1. r # s /\ tx'[r] = tx[r]
      BY <1>5, <1>6, <2>3
    <3>2. PICK i, S : i = tx[r].fill /\ S = Sessions \ {r} /\ S \in SUBSET Sessions
      OBVIOUS
    <3>3. i \in Ids /\ s \in S /\ tx'[r].fill = i
      BY <2>3, <3>1, <3>2, FillFacts
    <3>4. AtMost(i, S, Lot - 1)'
      <4>1. PICK m : m = Lot - 1
        OBVIOUS
      <4>2. AtMost(i, S, m)
        BY <2>3, <3>1, <3>2, <4>1 DEF SInv, Room
      <4>3. AtMost(i, S, m)'
        BY <2>1, <3>2, <3>3, <4>2
      <4> QED BY <4>1, <4>3
    <3>5. ASSUME NEW k \in 1 .. Len(book), book[k].id = i PROVE AtMost(i, S, Lot - 1 - book[k].qty)'
      <4>1. PICK m : m = Lot - 1 - book[k].qty
        OBVIOUS
      <4>2. AtMost(i, S, m) /\ book' = book
        BY <1>1, <2>3, <3>1, <3>2, <3>5, <4>1 DEF SInv, Room
      <4>3. AtMost(i, S, m)'
        BY <2>1, <3>2, <3>3, <4>2
      <4> QED BY <4>1, <4>2, <4>3
    <3> QED BY <1>1, <3>2, <3>3, <3>4, <3>5
  <2> QED BY <1>1, <2>2, <2>3 DEF Room
<1> QED BY <1>10, <1>11, <1>12, <1>13, <1>14, <1>15 DEF SInv

(* An idle session takes a request that queues for the market's lock.       *)
LEMMA JoinKeeps ==
  ASSUME SInv, NEW s \in Sessions, NEW n, Moves(s, n), tx[s].at = "idle", queue' = Append(queue, s), UNCHANGED book,
         Sound(n), n.fill = None, ~Inside(n), n.at \notin {"idle", "commit"} \cup ResolveSteps,
         \A i \in DOMAIN n.copy : n.copy[i].filled = db[i].filled,
         \A i \in Ids \cap DOMAIN n.w : n.w[i].filled = db[i].filled,
         \A t \in Sessions : t # s => DOMAIN n.w \cap DOMAIN tx[t].w = {},
         n.id # None => Fresh(n.id) /\ n.id \notin DOMAIN n.w
  PROVE  SInv'
<1>1. tx[s].fill = None
  BY SoundFacts, IdleFacts DEF Stage
<1>2. Grounded(tx[s], n) /\ Inserts(s, n)
  BY DEF Grounded, Inserts, Fresh
<1>3. Mutex'
  BY MutexJoins
<1> QED BY <1>1, <1>2, <1>3, StepKeeps, WithinFacts

(* A committed order. *)
LEMMA OrderFacts ==
  ASSUME SInv, NEW i \in Ids, IsOrder(db[i])
  PROVE  /\ Whole(db[i]) /\ db[i].key \in Keys /\ Remaining(db[i]) \in Nat
         /\ \A s \in Sessions : tx[s].id # i
<1>1. Whole(db[i]) /\ db[i].key # None
  BY RowsOfIds DEF SInv, Committed
<1>2. db[i].key \in Keys
  BY <1>1 DEF Whole, OrderRow
<1>3. Remaining(db[i]) \in Nat
  BY <1>1, <1>2, KeyFacts DEF Whole, OrderRow, Remaining
<1>4. ASSUME NEW s \in Sessions, tx[s].id = i PROVE FALSE
  BY <1>4, SoundFacts, KeyFacts DEF Knows
<1> QED BY <1>1, <1>2, <1>3, <1>4

(* A new request for cancel_order or replace_order, with the row it has     *)
(* read.                                                                    *)
LEMMA UnfreezeJoins ==
  ASSUME SInv, NEW s \in Sessions, NEW n, NEW i \in Ids, NEW key, NEW id, IsOrder(db[i]),
         DOMAIN n = Fields, n.at = "unfreeze", n.key = key, n.id = id, n.fill = None,
         n.sets = 0, n.paid = 0, n.copy = Row(i, db[i]), n.w = Empty, tx' = [tx EXCEPT ![s] = n], UNCHANGED <<db, trades, book>>,
         tx[s].at = "idle", queue' = Append(queue, s),
         (key = None /\ id = None) \/ (key \in NewKeys /\ id \in Ids /\ Fresh(id))
  PROVE  SInv'
<1>1. DOMAIN n.w = {}
  BY DEF Empty
<1>2. DOMAIN n.copy = {i} /\ n.copy[i] = db[i]
  BY DEF Row
<1>3. Moves(s, n)
  BY DEF Moves
<1>4. Whole(db[i])
  BY OrderFacts
<1>5. key \in MakerKeys \cup {None} /\ key \notin BuyKeys /\ (key = None <=> id = None) /\ id \in Ids \cup {None}
      /\ key \in Keys \cup {None}
  BY KeyFacts DEF Keys, MakerKeys
<1>6. Shape(n)
  BY <1>1, <1>2, <1>4, <1>5 DEF Shape
<1>7. Stage(n) /\ Locks(n) /\ Funds(n)
  BY <1>1, <1>2, <1>5 DEF Stage, Locks, Funds
<1>8. Knows(n)
  BY <1>1, <1>2, <1>5, KeyFacts DEF Knows, Fresh
<1>9. ~Inside(n) /\ (n.id # None => Fresh(n.id) /\ n.id \notin DOMAIN n.w)
  BY <1>1 DEF Inside
<1>10. /\ \A j \in DOMAIN n.copy : n.copy[j].filled = db[j].filled
       /\ \A j \in Ids \cap DOMAIN n.w : n.w[j].filled = db[j].filled
       /\ \A t \in Sessions : t # s => DOMAIN n.w \cap DOMAIN tx[t].w = {}
  BY <1>1, <1>2
<1> QED BY <1>3, <1>6, <1>7, <1>8, <1>9, <1>10, JoinKeeps DEF Sound

(* cancel_order. *)
LEMMA CancelKeeps == ASSUME SInv, NEW s \in Sessions, NEW i \in Ids, Cancel(s, i) PROVE SInv'
<1>1. PICK n : n = [Idle EXCEPT !.at = "unfreeze", !.copy = Row(i, db[i])]
  OBVIOUS
<1>2. /\ DOMAIN n = Fields /\ n.at = "unfreeze" /\ n.key = None /\ n.id = None /\ n.fill = None
      /\ n.sets = 0 /\ n.paid = 0 /\ n.copy = Row(i, db[i]) /\ n.w = Empty
  BY <1>1 DEF Idle, Fields
<1>3. tx' = [tx EXCEPT ![s] = n] /\ tx[s].at = "idle" /\ queue' = Append(queue, s) /\ UNCHANGED <<db, trades, book>>
  BY <1>1 DEF Cancel
<1>4. IsOrder(db[i])
  BY DEF Cancel, Active, IsOrder
<1> QED BY <1>2, <1>3, <1>4, UnfreezeJoins

(* replace_order. *)
LEMMA ReplaceKeeps ==
  ASSUME SInv, NEW s \in Sessions, NEW i \in Ids, NEW key \in NewKeys, Replace(s, i, key) PROVE SInv'
<1>1. PICK id \in Ids : Fresh(id) /\ id = (CHOOSE j \in Ids : Fresh(j))
  BY DEF Replace
<1>2. PICK n : n = [Idle EXCEPT !.at = "unfreeze", !.copy = Row(i, db[i]), !.key = key, !.id = id]
  OBVIOUS
<1>3. tx' = [tx EXCEPT ![s] = n] /\ tx[s].at = "idle" /\ queue' = Append(queue, s) /\ UNCHANGED <<db, trades, book>>
  BY <1>1, <1>2 DEF Replace
<1>4. IsOrder(db[i])
  BY KeyFacts DEF Replace, SInv, Committed, MakerKeys, Keys
<1>5. /\ DOMAIN n = Fields /\ n.at = "unfreeze" /\ n.key = key /\ n.id = id /\ n.fill = None
      /\ n.sets = 0 /\ n.paid = 0 /\ n.copy = Row(i, db[i]) /\ n.w = Empty
  BY <1>2 DEF Idle, Fields
<1> QED BY <1>1, <1>3, <1>4, <1>5, UnfreezeJoins

(* What the request has read of an order. *)
LEMMA CopyFacts ==
  ASSUME SInv, NEW s \in Sessions, NEW i \in DOMAIN tx[s].copy
  PROVE  /\ i \in Ids /\ Whole(tx[s].copy[i]) /\ IsOrder(tx[s].copy[i]) /\ IsOrder(db[i])
         /\ tx[s].copy[i].key = db[i].key /\ Remaining(tx[s].copy[i]) \in Nat /\ tx[s].id # i
<1>1. i \in Ids /\ Whole(tx[s].copy[i]) /\ IsOrder(tx[s].copy[i]) /\ IsOrder(db[i]) /\ tx[s].copy[i].key = db[i].key
  BY SoundFacts DEF Shape, Knows
<1>2. tx[s].copy[i].key \in Keys /\ tx[s].id # i
  BY <1>1, OrderFacts
<1>3. Remaining(tx[s].copy[i]) \in Nat
  BY <1>1, <1>2, KeyFacts DEF Whole, OrderRow, Remaining
<1> QED BY <1>1, <1>2, <1>3

(* Money of the maker that is given back in one statement.                  *)
LEMMA GiveBack ==
  ASSUME SInv, NEW s \in Sessions, NEW k \in Nat, Unfreezable(s, k), NEW w, w = Row("maker", Unfrozen(Val(s, "maker"), k))
  PROVE  DOMAIN w = {"maker"} /\ RowOK("maker", w["maker"]) /\ "maker" \in Rows /\ "maker" \notin Ids
<1>1. PICK a : a = Val(s, "maker")
  OBVIOUS
<1>2. a \in Account /\ a.frozen >= k /\ "maker" \in Rows /\ "maker" \notin Ids
  BY <1>1, ReadFacts, RowTypes DEF Unfreezable
<1>3. Unfrozen(a, k) \in Account
  BY <1>2, AccountFacts
<1>4. DOMAIN w = {"maker"} /\ w["maker"] = Unfrozen(a, k)
  BY <1>1, RowFacts
<1> QED BY <1>2, <1>3, <1>4, RowTypes

(* ob.cancel_order and _unfreeze_remainder. *)
LEMMA UnfreezeKeeps == ASSUME SInv, NEW s \in Sessions, Unfreeze(s) PROVE SInv'
<1>1. tx[s].at = "unfreeze" /\ Blockers(s) = {} /\ Holds(s)
  BY DEF Unfreeze, Runs
<1>2. CASE Fail(s)
  BY <1>1, <1>2, FailKeeps
<1>3. CASE ~Fail(s)
  <2>1. PICK i \in DOMAIN tx[s].copy :
          LET k == Remaining(tx[s].copy[i])
          IN /\ Unfreezable(s, k)
             /\ book' = Dropped(book, {i})
             /\ tx' = [tx EXCEPT ![s] = Wrote(s, Row("maker", Unfrozen(Val(s, "maker"), k)), "write_back")]
             /\ UNCHANGED <<db, trades, queue>>
    BY <1>3 DEF Unfreeze
  <2>2. PICK k, t : k = Remaining(tx[s].copy[i]) /\ t = tx[s]
    OBVIOUS
  <2>3. PICK w : w = Row("maker", Unfrozen(Val(s, "maker"), k))
    OBVIOUS
  <2>4. PICK n : n = Wrote(s, w, "write_back")
    OBVIOUS
  <2>5. Unfreezable(s, k) /\ k \in Nat /\ Moves(s, n) /\ UNCHANGED queue /\ book' = Dropped(book, {i})
    BY <2>1, <2>2, <2>3, <2>4, CopyFacts DEF Moves
  <2>6. Shape(t) /\ Stage(t) /\ Locks(t) /\ Funds(t) /\ Knows(t) /\ DOMAIN t = Fields
    BY <2>2, SoundFacts
  <2>7. /\ DOMAIN n = Fields /\ n.at = "write_back" /\ n.w = Over(w, t.w) /\ n.key = t.key /\ n.id = t.id
        /\ n.fill = t.fill /\ n.sets = t.sets /\ n.paid = t.paid /\ n.copy = t.copy
    BY <2>2, <2>4, <2>6, WroteFacts
  <2>8. DOMAIN w = {"maker"} /\ RowOK("maker", w["maker"]) /\ "maker" \in Rows /\ "maker" \notin Ids
    BY <2>3, <2>5, GiveBack
  <2>9. /\ \A j \in Ids : j \in DOMAIN n.w <=> j \in DOMAIN t.w
        /\ Knows(n) /\ Grounded(t, n)
    <3>1. DOMAIN w \cap Ids = {}
      BY <2>8
    <3> QED BY <2>2, <2>7, <3>1, NoOrderWritten, SMTT(60)
  <2>10. Stage(n)
    BY <1>1, <2>2, <2>6, <2>7 DEF Stage
  <2>11. t.key \notin BuyKeys /\ (t.key # None => t.id \in Ids /\ t.id \notin DOMAIN t.w)
    BY <1>1, <2>2, <2>6, PlaceFacts DEF Stage, Locks
  <2>12. Locks(n) /\ Funds(n)
    BY <2>7, <2>9, <2>11, KeyFacts DEF Locks, Funds
  <2>13. Mutex'
    BY <1>1, <2>5, <2>7, MutexStays DEF Queueing
  <2>14. Within(book', book)
    BY <2>5, WithinFacts
  <2>15. /\ DOMAIN w \subseteq Wants(s) \cup DOMAIN tx[s].w /\ DOMAIN w \subseteq Rows
         /\ \A r \in DOMAIN w : RowOK(r, w[r])
         /\ n.id # None /\ n.id \in DOMAIN w => n.id \in DOMAIN tx[s].w
    BY <1>1, <2>6, <2>7, <2>8 DEF Wants, Shape
  <2>16. /\ n.sets \in Nat /\ n.paid \in Nat /\ DOMAIN n.copy \subseteq Ids
         /\ \A j \in DOMAIN n.copy : Whole(n.copy[j])
    BY <2>6, <2>7 DEF Shape
  <2> QED BY <1>1, <2>2, <2>5, <2>7, <2>9, <2>10, <2>12, <2>13, <2>14, <2>15, <2>16, WritesKeep
<1> QED BY <1>2, <1>3

(* A row that is withdrawn stays the row of the same order. *)
LEMMA Withdraw ==
  ASSUME NEW row, Whole(row), NEW new, new = [row EXCEPT !.status = "CANCELLED"]
  PROVE  Whole(new) /\ IsOrder(new) /\ new.key = row.key /\ new.filled = row.filled /\ new.status = "CANCELLED"
<1>1. new \in OrderRow /\ new.key = row.key /\ new.filled = row.filled /\ new.status = "CANCELLED"
  BY DEF Whole, OrderRow
<1> QED BY <1>1 DEF Whole, IsOrder

(* update_status writes back what was read. *)
LEMMA WriteBackKeeps == ASSUME SInv, NEW s \in Sessions, WriteBack(s) PROVE SInv'
<1>1. tx[s].at = "write_back" /\ Blockers(s) = {} /\ Holds(s) /\ UNCHANGED <<db, trades, book>>
  BY InsideHolds DEF WriteBack, Runs, Inside
<1>2. PICK i \in DOMAIN tx[s].copy :
        tx' = [tx EXCEPT ![s] = Wrote(s, Row(i, [tx[s].copy[i] EXCEPT !.status = "CANCELLED"]),
                                      IF Replacing(s) THEN "check" ELSE "commit")]
  BY DEF WriteBack
<1>3. PICK t, row, at : /\ t = tx[s] /\ row = [t.copy[i] EXCEPT !.status = "CANCELLED"]
                        /\ at = IF Replacing(s) THEN "check" ELSE "commit"
  OBVIOUS
<1>4. PICK w : w = Row(i, row)
  OBVIOUS
<1>5. PICK n : n = Wrote(s, w, at)
  OBVIOUS
<1>6. Moves(s, n)
  BY <1>1, <1>2, <1>3, <1>4, <1>5 DEF Moves
<1>7. Shape(t) /\ Stage(t) /\ Locks(t) /\ Funds(t) /\ Knows(t) /\ DOMAIN t = Fields
  BY <1>3, SoundFacts
<1>8. /\ DOMAIN n = Fields /\ n.at = at /\ n.w = Over(w, t.w) /\ n.key = t.key /\ n.id = t.id
      /\ n.fill = t.fill /\ n.sets = t.sets /\ n.paid = t.paid /\ n.copy = t.copy
  BY <1>3, <1>5, <1>7, WroteFacts
<1>9. /\ i \in Ids /\ i \in Rows /\ Whole(row) /\ IsOrder(row) /\ IsOrder(db[i]) /\ row.key = db[i].key
      /\ row.filled = t.copy[i].filled /\ t.id # i
  <2>1. PICK old : old = t.copy[i]
    OBVIOUS
  <2>2. i \in Ids /\ Whole(old) /\ IsOrder(db[i]) /\ old.key = db[i].key /\ t.id # i
    BY <1>2, <1>3, <2>1, CopyFacts
  <2> QED BY <1>3, <2>1, <2>2, Withdraw, RowTypes
<1>10. DOMAIN w = {i} /\ w[i] = row
  BY <1>4, RowFacts
<1>11. DOMAIN n.w = {i} \cup DOMAIN t.w /\ n.w[i] = row /\ \A r \in DOMAIN t.w : r # i => n.w[r] = t.w[r]
  <2>1. IsOver(n.w, w, t.w)
    BY <1>8, OverIs
  <2> QED BY <1>10, <2>1 DEF IsOver
<1>12. /\ t.fill = None /\ t.key \notin BuyKeys
       /\ t.key # None => t.id \in Ids /\ t.id \notin DOMAIN t.w
  BY <1>1, <1>3, <1>7, PlaceFacts DEF Stage, Locks
<1>13. (t.key # None => at = "check") /\ (t.key = None => at = "commit")
  <2>1. t.copy # Empty
    BY <1>2, <1>3 DEF Empty
  <2> QED BY <1>3, <2>1 DEF Replacing
<1>14. Stage(n)
  BY <1>1, <1>3, <1>7, <1>8, <1>12, <1>13 DEF Stage
<1>15. Locks(n) /\ Funds(n)
  <2>1. n.key # None => n.id \notin DOMAIN n.w /\ n.at = "check"
    BY <1>8, <1>9, <1>11, <1>12, <1>13
  <2> QED BY <1>8, <1>12, <1>13, <2>1, KeyFacts DEF Locks, Funds
<1>16. Knows(n)
  <2>1. \A j \in Ids \cap DOMAIN n.w : j # i => j \in Ids \cap DOMAIN t.w /\ n.w[j] = t.w[j]
    BY <1>11
  <2>2. n.id # None => n.id \notin DOMAIN n.w
    BY <1>7, <1>8, <1>9, <1>11, <1>12 DEF Stage
  <2> QED BY <1>7, <1>8, <1>9, <1>11, <1>12, <2>1, <2>2 DEF Knows
<1>17. Grounded(t, n)
  BY <1>2, <1>3, <1>8, <1>9, <1>11, ZenonT(60) DEF Grounded
<1>18. Mutex'
  <2>1. CASE Replacing(s)
    <3>1. n.at = "check" /\ UNCHANGED queue
      BY <1>3, <1>8, <2>1 DEF WriteBack
    <3>2. InQueue(s)
      <4>1. 1 \in 1 .. Len(queue) /\ queue[1] = s
        BY <1>1 DEF Holds, SInv, Mutex
      <4> QED BY <4>1 DEF InQueue
    <3> QED BY <1>1, <1>6, <3>1, <3>2, MutexStays
  <2>2. CASE ~Replacing(s)
    <3>1. n.at = "commit" /\ Release(s)
      BY <1>3, <1>8, <2>2 DEF WriteBack
    <3> QED BY <1>1, <1>6, <3>1, MutexLeaves DEF Inside, Queueing
  <2> QED BY <2>1, <2>2
<1>19. /\ DOMAIN w \subseteq Wants(s) \cup DOMAIN tx[s].w /\ DOMAIN w \subseteq Rows
       /\ \A r \in DOMAIN w : RowOK(r, w[r])
       /\ n.id # None /\ n.id \in DOMAIN w => n.id \in DOMAIN tx[s].w
  BY <1>1, <1>2, <1>3, <1>8, <1>9, <1>10, RowTypes DEF Wants
<1>20. /\ n.sets \in Nat /\ n.paid \in Nat /\ DOMAIN n.copy \subseteq Ids
       /\ \A j \in DOMAIN n.copy : Whole(n.copy[j])
  BY <1>7, <1>8 DEF Shape
<1>21. n.at \in Labels /\ Within(book', book)
  BY <1>1, <1>8, <1>13, WithinFacts
<1> QED BY <1>1, <1>3, <1>6, <1>8, <1>14, <1>15, <1>16, <1>17, <1>18, <1>19, <1>20, <1>21, WritesKeep

(* SELECT ... FOR UPDATE of batch_cancel. *)
LEMMA BatchCancelKeeps == ASSUME SInv, NEW s \in Sessions, BatchCancel(s) PROVE SInv'
<1>1. PICK rows : rows = [i \in MakerOpen |-> db[i]]
  OBVIOUS
<1>2. PICK n : n = [Idle EXCEPT !.at = "bulk_cancel", !.copy = rows, !.w = rows]
  OBVIOUS
<1>3. /\ DOMAIN n = Fields /\ n.at = "bulk_cancel" /\ n.key = None /\ n.id = None /\ n.fill = None
      /\ n.sets = 0 /\ n.paid = 0 /\ n.copy = rows /\ n.w = rows
  BY <1>2 DEF Idle, Fields
<1>4. Moves(s, n) /\ tx[s].at = "idle" /\ queue' = Append(queue, s) /\ book' = book /\ Locked(s, MakerOpen) = {}
  BY <1>1, <1>2 DEF BatchCancel, Moves
<1>5. DOMAIN rows = MakerOpen /\ \A i \in MakerOpen : rows[i] = db[i] /\ i \in Ids /\ IsOrder(db[i]) /\ Whole(db[i])
  <2>1. \A i \in MakerOpen : i \in Ids /\ IsOrder(db[i])
    BY DEF MakerOpen, OpenIds, Active, IsOrder
  <2> QED BY <1>1, <2>1, RowsOfIds
<1>6. Shape(n)
  BY <1>3, <1>5, RowTypes DEF Shape
<1>7. Stage(n) /\ Locks(n) /\ Funds(n) /\ Knows(n)
  BY <1>3, <1>5, KeyFacts DEF Stage, Locks, Funds, Knows
<1>8. \A t \in Sessions : t # s => DOMAIN n.w \cap DOMAIN tx[t].w = {}
  BY <1>3, <1>4, <1>5 DEF Locked
<1>9. ~Inside(n)
  BY <1>3 DEF Inside
<1>10. /\ \A i \in DOMAIN n.copy : n.copy[i].filled = db[i].filled
       /\ \A i \in Ids \cap DOMAIN n.w : n.w[i].filled = db[i].filled
  BY <1>3, <1>5
<1> QED BY <1>3, <1>4, <1>6, <1>7, <1>8, <1>9, <1>10, JoinKeeps DEF Sound

(* The orders leave the book, their rows become CANCELLED. *)
LEMMA BulkCancelKeeps == ASSUME SInv, NEW s \in Sessions, BulkCancel(s) PROVE SInv'
<1>1. /\ tx[s].at = "bulk_cancel" /\ Holds(s) /\ UNCHANGED <<db, trades, queue>>
      /\ book' = Dropped(book, DOMAIN tx[s].copy)
  BY DEF BulkCancel
<1>2. PICK t : t = tx[s]
  OBVIOUS
<1>3. PICK w : w = [i \in DOMAIN t.copy |-> [t.w[i] EXCEPT !.status = "CANCELLED"]]
  OBVIOUS
<1>4. PICK n : n = Wrote(s, w, "bulk_unfreeze")
  OBVIOUS
<1>5. Moves(s, n)
  BY <1>1, <1>2, <1>3, <1>4 DEF BulkCancel, Moves
<1>6. Shape(t) /\ Stage(t) /\ Locks(t) /\ Funds(t) /\ Knows(t) /\ DOMAIN t = Fields
  BY <1>2, SoundFacts
<1>7. /\ DOMAIN n = Fields /\ n.at = "bulk_unfreeze" /\ n.w = Over(w, t.w) /\ n.key = t.key /\ n.id = t.id
      /\ n.fill = t.fill /\ n.sets = t.sets /\ n.paid = t.paid /\ n.copy = t.copy
  BY <1>2, <1>4, <1>6, WroteFacts
<1>8. t.key = None /\ t.id = None /\ t.fill = None /\ DOMAIN t.copy \subseteq DOMAIN t.w /\ DOMAIN t.copy \subseteq Ids
  BY <1>1, <1>2, <1>6, KeyFacts DEF Stage, Shape
<1>9. /\ DOMAIN w = DOMAIN t.copy
      /\ \A i \in DOMAIN w : /\ Whole(w[i]) /\ IsOrder(w[i]) /\ w[i].key = t.w[i].key /\ w[i].filled = t.w[i].filled
  <2>1. ASSUME NEW i \in DOMAIN t.copy
        PROVE  Whole(w[i]) /\ IsOrder(w[i]) /\ w[i].key = t.w[i].key /\ w[i].filled = t.w[i].filled
    <3>1. PICK old, new : old = t.w[i] /\ new = [old EXCEPT !.status = "CANCELLED"]
      OBVIOUS
    <3>2. Whole(old)
      BY <1>2, <1>8, <3>1, RowsOfIds
    <3>3. w[i] = new
      BY <1>3, <3>1
    <3> QED BY <3>1, <3>2, <3>3, Withdraw
  <2> QED BY <1>3, <2>1
<1>10. /\ DOMAIN n.w = DOMAIN t.w /\ \A i \in DOMAIN w : n.w[i] = w[i]
       /\ \A r \in DOMAIN t.w : r \notin DOMAIN w => n.w[r] = t.w[r]
  <2>1. IsOver(n.w, w, t.w)
    BY <1>7, OverIs
  <2> QED BY <1>8, <1>9, <2>1 DEF IsOver
<1>11. Stage(n)
  BY <1>1, <1>2, <1>6, <1>7, <1>8, <1>10 DEF Stage
<1>12. Locks(n) /\ Funds(n)
  BY <1>7, <1>8, KeyFacts DEF Locks, Funds
<1>13. Knows(n)
  <2>1. ASSUME NEW j \in Ids \cap DOMAIN n.w
        PROVE  IsOrder(n.w[j]) /\ IsOrder(db[j]) /\ n.w[j].key = db[j].key
    <3>1. j \in Ids \cap DOMAIN t.w /\ j # t.id
      BY <1>8, <1>10, KeyFacts
    <3>2. IsOrder(t.w[j]) /\ IsOrder(db[j]) /\ t.w[j].key = db[j].key
      BY <1>6, <3>1 DEF Knows
    <3> QED BY <1>9, <1>10, <3>1, <3>2
  <2> QED BY <1>6, <1>7, <1>8, <2>1 DEF Knows
<1>14. Grounded(t, n)
  BY <1>7, <1>9, <1>10 DEF Grounded
<1>15. Mutex'
  BY <1>1, <1>5, <1>7, MutexStays DEF Queueing
<1>16. /\ DOMAIN w \subseteq DOMAIN tx[s].w /\ DOMAIN w \subseteq Rows
       /\ \A r \in DOMAIN w : RowOK(r, w[r])
  BY <1>2, <1>8, <1>9, RowTypes
<1>17. /\ n.sets \in Nat /\ n.paid \in Nat /\ DOMAIN n.copy \subseteq Ids
       /\ \A j \in DOMAIN n.copy : Whole(n.copy[j])
  BY <1>6, <1>7 DEF Shape
<1>18. n.at \in Labels /\ Within(book', book)
  BY <1>1, <1>7, WithinFacts
<1> QED BY <1>1, <1>2, <1>5, <1>7, <1>8, <1>11, <1>12, <1>13, <1>14, <1>15, <1>16, <1>17, <1>18, WritesKeep

(* What the orders had frozen is given back. *)
LEMMA BulkUnfreezeKeeps == ASSUME SInv, NEW s \in Sessions, BulkUnfreeze(s) PROVE SInv'
<1>1. tx[s].at = "bulk_unfreeze" /\ Blockers(s) = {} /\ Holds(s)
  BY InsideHolds DEF BulkUnfreeze, Runs, Inside
<1>2. CASE Fail(s)
  BY <1>1, <1>2, FailKeeps
<1>3. CASE ~Fail(s)
  <2>1. PICK t, k : /\ t = tx[s]
                    /\ k = SumOver([i \in DOMAIN t.copy |-> Remaining(t.copy[i])], DOMAIN t.copy)
    OBVIOUS
  <2>2. PICK w : w = Row("maker", Unfrozen(Val(s, "maker"), k))
    OBVIOUS
  <2>3. PICK n : n = Wrote(s, w, "commit")
    OBVIOUS
  <2>4. Unfreezable(s, k) /\ Moves(s, n) /\ Release(s) /\ book' = book
    BY <1>3, <2>1, <2>2, <2>3 DEF BulkUnfreeze, Moves
  <2>5. Shape(t) /\ Stage(t) /\ Locks(t) /\ Funds(t) /\ Knows(t) /\ DOMAIN t = Fields
    BY <2>1, SoundFacts
  <2>6. k \in Nat
    <3> DEFINE f == [i \in DOMAIN t.copy |-> Remaining(t.copy[i])]
    <3>1. \A i \in DOMAIN t.copy : f[i] \in Nat
      BY <2>1, CopyFacts
    <3>2. IsFiniteSet(DOMAIN t.copy)
      BY <2>5, IdsAssumption, FS_Subset DEF Shape
    <3>3. k = SumOver(f, DOMAIN t.copy)
      BY <2>1
    <3> HIDE DEF f
    <3>4. PICK D : D = DOMAIN t.copy
      OBVIOUS
    <3>5. SumOver(f, D) \in Int /\ SumOver(f, D) >= 0
      BY <3>1, <3>2, <3>4, SumNotNegative, SumInt
    <3> QED BY <3>3, <3>4, <3>5
  <2>7. /\ DOMAIN n = Fields /\ n.at = "commit" /\ n.w = Over(w, t.w) /\ n.key = t.key /\ n.id = t.id
        /\ n.fill = t.fill /\ n.sets = t.sets /\ n.paid = t.paid /\ n.copy = t.copy
    BY <2>1, <2>3, <2>5, WroteFacts
  <2>8. DOMAIN w = {"maker"} /\ RowOK("maker", w["maker"]) /\ "maker" \in Rows /\ "maker" \notin Ids
    BY <2>2, <2>4, <2>6, GiveBack
  <2>9. t.key = None /\ t.id = None /\ t.fill = None
    BY <1>1, <2>1, <2>5, KeyFacts DEF Stage
  <2>10. Knows(n) /\ Grounded(t, n)
    <3>1. DOMAIN w \cap Ids = {}
      BY <2>8
    <3> QED BY <2>1, <2>7, <3>1, NoOrderWritten
  <2>11. Stage(n) /\ Locks(n) /\ Funds(n)
    BY <2>7, <2>9, KeyFacts DEF Stage, Locks, Funds
  <2>12. Mutex'
    BY <1>1, <2>4, <2>7, MutexLeaves DEF Inside, Queueing
  <2>13. /\ DOMAIN w \subseteq Wants(s) \cup DOMAIN tx[s].w /\ DOMAIN w \subseteq Rows
         /\ \A r \in DOMAIN w : RowOK(r, w[r])
    BY <1>1, <2>8 DEF Wants
  <2>14. /\ n.sets \in Nat /\ n.paid \in Nat /\ DOMAIN n.copy \subseteq Ids
         /\ \A j \in DOMAIN n.copy : Whole(n.copy[j])
    BY <2>5, <2>7 DEF Shape
  <2>15. n.at \in Labels /\ Within(book', book)
    BY <2>4, <2>7, WithinFacts
  <2> QED BY <1>1, <2>1, <2>4, <2>7, <2>9, <2>10, <2>11, <2>12, <2>13, <2>14, <2>15, WritesKeep
<1> QED BY <1>2, <1>3

(* A request of an administrator takes a step outside the market's lock.    *)
LEMMA MutexApart ==
  ASSUME SInv, NEW s \in Sessions, NEW n, Moves(s, n), UNCHANGED queue,
         tx[s].at \in ResolveSteps \cup {"idle"}, n.at \in ResolveSteps \cup {"commit"}
  PROVE  Mutex'
<1>1. ~InQueue(s)
  BY DEF SInv, Mutex, InQueue
<1> QED BY <1>1, MutexStays DEF Inside, Queueing

(* An administrator's request has no order of its own. *)
LEMMA ResolverFacts ==
  ASSUME SInv, NEW s \in Sessions, tx[s].at \in ResolveSteps
  PROVE  tx[s].key = None /\ tx[s].id = None /\ tx[s].fill = None
BY SoundFacts, KeyFacts DEF Stage

(* ... and keeps none. *)
LEMMA ResolverSound ==
  ASSUME NEW n, n.key = None, n.id = None, n.fill = None, n.at \in ResolveSteps \cup {"commit"}
  PROVE  Stage(n) /\ Locks(n) /\ Funds(n)
BY KeyFacts DEF Stage, Locks, Funds

(* resolve_market begins. *)
LEMMA ResolveKeeps == ASSUME SInv, NEW s \in Sessions, Resolve(s) PROVE SInv'
<1>1. PICK n : n = [Idle EXCEPT !.at = "read_open"]
  OBVIOUS
<1>2. /\ DOMAIN n = Fields /\ n.at = "read_open" /\ n.key = None /\ n.id = None /\ n.fill = None
      /\ n.sets = 0 /\ n.paid = 0 /\ DOMAIN n.copy = {} /\ DOMAIN n.w = {}
  BY <1>1 DEF Idle, Fields, Empty
<1>3. Moves(s, n) /\ tx[s].at = "idle" /\ UNCHANGED <<book, queue>>
  BY <1>1 DEF Resolve, Moves
<1>4. Shape(n) /\ Stage(n) /\ Locks(n) /\ Funds(n) /\ Knows(n)
  BY <1>2, ResolverSound DEF Shape, Knows
<1>5. tx[s].fill = None
  BY <1>3, SoundFacts, IdleFacts DEF Stage
<1>6. Grounded(tx[s], n) /\ Inserts(s, n)
  BY <1>2 DEF Grounded, Inserts
<1>7. Mutex'
  BY <1>2, <1>3, MutexApart
<1> QED BY <1>2, <1>3, <1>4, <1>5, <1>6, <1>7, StepKeeps, WithinFacts DEF Sound

(* _GET_OPEN_ORDERS_SQL. *)
LEMMA ReadOpenKeeps == ASSUME SInv, NEW s \in Sessions, ReadOpen(s) PROVE SInv'
<1>1. tx[s].at = "read_open" /\ UNCHANGED <<db, trades, book, queue>>
  BY DEF ReadOpen
<1>2. PICK t, rows : t = tx[s] /\ rows = [i \in OpenIds |-> db[i]]
  OBVIOUS
<1>3. PICK n : n = [t EXCEPT !.at = "cancel_open", !.copy = rows]
  OBVIOUS
<1>4. Shape(t) /\ Knows(t) /\ DOMAIN t = Fields /\ t.key = None /\ t.id = None /\ t.fill = None
  BY <1>1, <1>2, SoundFacts, ResolverFacts
<1>5. /\ DOMAIN n = Fields /\ n.at = "cancel_open" /\ n.key = t.key /\ n.id = t.id /\ n.fill = t.fill
      /\ n.sets = t.sets /\ n.paid = t.paid /\ n.copy = rows /\ n.w = t.w
  BY <1>3, <1>4 DEF Fields
<1>6. Moves(s, n)
  BY <1>1, <1>2, <1>3 DEF ReadOpen, Moves
<1>7. DOMAIN rows = OpenIds /\ \A i \in OpenIds : rows[i] = db[i] /\ i \in Ids /\ IsOrder(db[i]) /\ Whole(db[i])
  <2>1. \A i \in OpenIds : i \in Ids /\ IsOrder(db[i])
    BY DEF OpenIds, Active, IsOrder
  <2> QED BY <1>2, <2>1, RowsOfIds
<1>8. Shape(n) /\ Knows(n)
  BY <1>4, <1>5, <1>7 DEF Shape, Knows
<1>9. Stage(n) /\ Locks(n) /\ Funds(n)
  BY <1>4, <1>5, ResolverSound
<1>10. \A r \in Sessions : r # s => DOMAIN n.w \cap DOMAIN tx[r].w = {}
  BY <1>2, <1>5 DEF SInv, Apart
<1>11. Grounded(t, n)
  BY <1>5, <1>7 DEF Grounded
<1>12. Mutex'
  BY <1>1, <1>5, <1>6, MutexApart
<1> QED BY <1>1, <1>2, <1>4, <1>5, <1>6, <1>8, <1>9, <1>10, <1>11, <1>12, GoesOn, WithinFacts DEF Sound

(* One of the orders read is cancelled. *)
LEMMA CancelOpenKeeps == ASSUME SInv, NEW s \in Sessions, CancelOpen(s) PROVE SInv'
<1>1. tx[s].at = "cancel_open" /\ Blockers(s) = {} /\ ~InQueue(s)
  BY ResolverRuns DEF CancelOpen, Runs
<1>2. CASE Fail(s)
  BY <1>1, <1>2, FailKeeps
<1>3. CASE ~Fail(s)
  <2>1. PICK t : t = tx[s]
    OBVIOUS
  <2>2. PICK i \in NextOpen(t.copy) :
          LET k == Remaining(tx[s].copy[i])
              w == Over(Row(i, [Val(s, i) EXCEPT !.status = "CANCELLED"]), Row("maker", Unfrozen(Val(s, "maker"), k)))
          IN /\ Unfreezable(s, k)
             /\ tx' = [tx EXCEPT ![s] = [Wrote(s, w, "cancel_open") EXCEPT !.copy = Restrict(@, DOMAIN @ \ {i})]]
             /\ UNCHANGED <<db, trades, book, queue>>
    BY <1>3, <2>1 DEF CancelOpen
  <2>3. PICK k, row, back : /\ k = Remaining(tx[s].copy[i]) /\ row = [Val(s, i) EXCEPT !.status = "CANCELLED"]
                            /\ back = Row("maker", Unfrozen(Val(s, "maker"), k))
    OBVIOUS
  <2>4. PICK w : w = Over(Row(i, row), back)
    OBVIOUS
  <2>5. PICK a : a = Wrote(s, w, "cancel_open")
    OBVIOUS
  <2>6. PICK n : n = [a EXCEPT !.copy = Restrict(a.copy, DOMAIN a.copy \ {i})]
    OBVIOUS
  <2>7. Unfreezable(s, k) /\ Moves(s, n) /\ UNCHANGED <<book, queue>>
    BY <2>2, <2>3, <2>4, <2>5, <2>6 DEF Moves
  <2>8. /\ Shape(t) /\ Knows(t) /\ DOMAIN t = Fields /\ t.key = None /\ t.id = None /\ t.fill = None
    BY <1>1, <2>1, SoundFacts, ResolverFacts
  <2>9. /\ DOMAIN a = Fields /\ a.at = "cancel_open" /\ a.w = Over(w, t.w) /\ a.key = t.key /\ a.id = t.id
        /\ a.fill = t.fill /\ a.sets = t.sets /\ a.paid = t.paid /\ a.copy = t.copy
    BY <2>1, <2>5, <2>8, WroteFacts
  <2>10. /\ DOMAIN n = Fields /\ n.at = "cancel_open" /\ n.w = Over(w, t.w) /\ n.key = t.key /\ n.id = t.id
         /\ n.fill = t.fill /\ n.sets = t.sets /\ n.paid = t.paid
         /\ n.copy = Restrict(t.copy, DOMAIN t.copy \ {i})
    BY <2>6, <2>9 DEF Fields
  <2>11. DOMAIN n.copy = DOMAIN t.copy \ {i} /\ \A j \in DOMAIN n.copy : n.copy[j] = t.copy[j]
    BY <2>10 DEF Restrict
  <2>12. i \in DOMAIN t.copy
    BY <2>2 DEF NextOpen
  <2>13. i \in Ids /\ IsOrder(db[i]) /\ k \in Nat /\ i \in Rows /\ i # "maker" /\ i # None
    BY <2>1, <2>3, <2>12, CopyFacts, RowTypes, KeyFacts
  <2>14. /\ Whole(Val(s, i)) /\ Val(s, i).key = db[i].key
         /\ IF i \in DOMAIN t.w THEN Val(s, i) = t.w[i] ELSE Val(s, i) = db[i]
    BY <2>1, <2>8, <2>13, ReadFacts, RowTypes DEF Val, Knows
  <2>15. Whole(row) /\ IsOrder(row) /\ row.key = db[i].key /\ row.filled = Val(s, i).filled
    <3>1. PICK old : old = Val(s, i)
      OBVIOUS
    <3> QED BY <2>3, <2>14, <3>1, Withdraw
  <2>16. DOMAIN back = {"maker"} /\ RowOK("maker", back["maker"]) /\ "maker" \in Rows /\ "maker" \notin Ids
    BY <2>3, <2>7, <2>13, GiveBack
  <2>17. DOMAIN w = {i, "maker"} /\ w[i] = row /\ w["maker"] = back["maker"]
    <3>1. IsOver(w, Row(i, row), back)
      BY <2>4, OverIs
    <3>2. DOMAIN Row(i, row) = {i} /\ Row(i, row)[i] = row
      BY RowFacts
    <3> QED BY <2>13, <2>16, <3>1, <3>2 DEF IsOver
  <2>18. DOMAIN n.w = {i, "maker"} \cup DOMAIN t.w /\ n.w[i] = row /\ \A r \in DOMAIN t.w : r \notin {i, "maker"} => n.w[r] = t.w[r]
    <3>1. IsOver(n.w, w, t.w)
      BY <2>10, OverIs
    <3> QED BY <2>17, <3>1 DEF IsOver
  <2>19. Stage(n) /\ Locks(n) /\ Funds(n)
    BY <2>8, <2>10, ResolverSound
  <2>20. Knows(n)
    <3>1. \A j \in Ids \cap DOMAIN n.w : j # i => j \in Ids \cap DOMAIN t.w /\ n.w[j] = t.w[j]
      BY <2>16, <2>18
    <3> QED BY <2>8, <2>10, <2>11, <2>13, <2>15, <2>18, <3>1, ZenonT(60) DEF Knows
  <2>21. Grounded(t, n)
    <3>1. \A j \in Ids \cap DOMAIN n.w : j # i => j \in Ids \cap DOMAIN t.w /\ n.w[j] = t.w[j]
      BY <2>16, <2>18
    <3> QED BY <2>11, <2>14, <2>15, <2>18, <3>1 DEF Grounded
  <2>22. Mutex'
    BY <1>1, <2>7, <2>10, MutexApart
  <2>23. DOMAIN w \subseteq Wants(s)
    BY <1>1, <2>1, <2>2, <2>17 DEF Wants
  <2>24. DOMAIN w \subseteq Rows /\ \A r \in DOMAIN w : RowOK(r, w[r])
    BY <2>13, <2>15, <2>16, <2>17, RowTypes
  <2>25. /\ n.sets \in Nat /\ n.paid \in Nat /\ DOMAIN n.copy \subseteq Ids
         /\ \A j \in DOMAIN n.copy : Whole(n.copy[j])
    BY <2>8, <2>10, <2>11 DEF Shape
  <2>26. n.at \in Labels /\ Within(book', book)
    BY <2>7, <2>10, WithinFacts
  <2> QED BY <1>1, <2>1, <2>7, <2>8, <2>10, <2>19, <2>20, <2>21, <2>22, <2>23, <2>24, <2>25, <2>26, WritesKeep
<1> QED BY <1>2, <1>3

(* The positions are read. *)
LEMMA ReadPositionsKeeps == ASSUME SInv, NEW s \in Sessions, ReadPositions(s) PROVE SInv'
<1>1. tx[s].at = "cancel_open" /\ UNCHANGED <<db, trades, book, queue>>
  BY DEF ReadPositions
<1>2. PICK t, p : t = tx[s] /\ p = Val(s, "shares")
  OBVIOUS
<1>3. PICK n : n = [t EXCEPT !.at = "clear", !.paid = p]
  OBVIOUS
<1>4. Shape(t) /\ Knows(t) /\ DOMAIN t = Fields /\ t.key = None /\ t.id = None /\ t.fill = None /\ p \in Nat
  BY <1>1, <1>2, SoundFacts, ResolverFacts, ReadFacts, RowTypes
<1>5. /\ DOMAIN n = Fields /\ n.at = "clear" /\ n.key = t.key /\ n.id = t.id /\ n.fill = t.fill
      /\ n.sets = t.sets /\ n.paid = p /\ n.copy = t.copy /\ n.w = t.w
  BY <1>3, <1>4 DEF Fields
<1>6. Moves(s, n)
  BY <1>1, <1>2, <1>3 DEF ReadPositions, Moves
<1>7. Shape(n) /\ Knows(n)
  BY <1>4, <1>5 DEF Shape, Knows
<1>8. Stage(n) /\ Locks(n) /\ Funds(n)
  BY <1>4, <1>5, ResolverSound
<1>9. Mutex'
  BY <1>1, <1>5, <1>6, MutexApart
<1> QED BY <1>1, <1>2, <1>4, <1>5, <1>6, <1>7, <1>8, <1>9, GoesToNext DEF Sound

(* A statement of resolve_market that writes rows other than orders. *)
LEMMA ResolverWrites ==
  ASSUME SInv, NEW s \in Sessions, tx[s].at \in ResolveSteps, Blockers(s) = {},
         NEW w, NEW at \in ResolveSteps \cup {"commit"}, tx' = [tx EXCEPT ![s] = Wrote(s, w, at)],
         UNCHANGED <<db, trades, book, queue>>, DOMAIN w \subseteq Wants(s), DOMAIN w \cap Ids = {},
         DOMAIN w \subseteq Rows, \A r \in DOMAIN w : RowOK(r, w[r])
  PROVE  SInv'
<1>1. PICK t, n : t = tx[s] /\ n = Wrote(s, w, at)
  OBVIOUS
<1>2. /\ Shape(t) /\ DOMAIN t = Fields /\ t.key = None /\ t.id = None /\ t.fill = None
  BY <1>1, SoundFacts, ResolverFacts
<1>3. /\ DOMAIN n = Fields /\ n.at = at /\ n.w = Over(w, t.w) /\ n.key = t.key /\ n.id = t.id
      /\ n.fill = t.fill /\ n.sets = t.sets /\ n.paid = t.paid /\ n.copy = t.copy
  BY <1>1, <1>2, WroteFacts
<1>4. Moves(s, n)
  BY <1>1 DEF Moves
<1>5. Knows(n) /\ Grounded(t, n)
  BY <1>1, <1>3, NoOrderWritten
<1>6. Stage(n) /\ Locks(n) /\ Funds(n)
  BY <1>2, <1>3, ResolverSound
<1>7. Mutex'
  BY <1>3, <1>4, MutexApart
<1>8. /\ n.sets \in Nat /\ n.paid \in Nat /\ DOMAIN n.copy \subseteq Ids
      /\ \A j \in DOMAIN n.copy : Whole(n.copy[j])
  BY <1>2, <1>3 DEF Shape
<1>9. n.at \in Labels /\ Within(book', book)
  BY <1>3, WithinFacts
<1> QED BY <1>1, <1>2, <1>3, <1>4, <1>5, <1>6, <1>7, <1>8, <1>9, WritesKeep

(* The positions are paid and cleared. *)
LEMMA ClearPositionsKeeps == ASSUME SInv, NEW s \in Sessions, ClearPositions(s) PROVE SInv'
<1>1. tx[s].at = "clear" /\ Blockers(s) = {}
  BY DEF ClearPositions, Runs
<1>2. PICK a, p, z : a = Val(s, "maker") /\ p = tx[s].paid /\ z = 0
  OBVIOUS
<1>3. PICK m : m = [a EXCEPT !.avail = @ + 2 * p]
  OBVIOUS
<1>4. PICK w : w = Over(Row("maker", m), Row("shares", z))
  OBVIOUS
<1>5. tx' = [tx EXCEPT ![s] = Wrote(s, w, "settle_market")] /\ UNCHANGED <<db, trades, book, queue>>
  BY <1>2, <1>3, <1>4 DEF ClearPositions
<1>6. a \in Account /\ p \in Nat
  BY <1>2, ReadFacts, RowTypes, SoundFacts DEF Shape
<1>7. m \in Account
  <2>1. a.avail + 2 * p \in Nat
    BY <1>6 DEF Account
  <2> QED BY <1>3, <1>6, <2>1 DEF Account
<1>8. DOMAIN w = {"maker", "shares"} /\ w["maker"] = m /\ w["shares"] = z
  <2>1. IsOver(w, Row("maker", m), Row("shares", z))
    BY <1>4, OverIs
  <2>2. /\ DOMAIN Row("maker", m) = {"maker"} /\ Row("maker", m)["maker"] = m
        /\ DOMAIN Row("shares", z) = {"shares"} /\ Row("shares", z)["shares"] = z
    BY RowFacts
  <2> QED BY <2>1, <2>2 DEF IsOver
<1>9. /\ DOMAIN w \subseteq Rows /\ DOMAIN w \cap Ids = {} /\ \A r \in DOMAIN w : RowOK(r, w[r])
  BY <1>2, <1>7, <1>8, RowTypes
<1>10. DOMAIN w \subseteq Wants(s)
  BY <1>1, <1>8 DEF Wants
<1> QED BY <1>1, <1>5, <1>9, <1>10, ResolverWrites

(* The market is zeroed. *)
LEMMA SettleMarketKeeps == ASSUME SInv, NEW s \in Sessions, SettleMarket(s) PROVE SInv'
<1>1. tx[s].at = "settle_market" /\ Blockers(s) = {}
  BY DEF SettleMarket, Runs
<1>2. PICK m : m = [status |-> "SETTLED", sets |-> 0]
  OBVIOUS
<1>3. PICK w : w = Row("market", m)
  OBVIOUS
<1>4. tx' = [tx EXCEPT ![s] = Wrote(s, w, "commit")] /\ UNCHANGED <<db, trades, book, queue>>
  BY <1>2, <1>3 DEF SettleMarket
<1>5. DOMAIN w = {"market"} /\ w["market"] = m
  BY <1>3, RowFacts
<1>6. /\ DOMAIN w \subseteq Rows /\ DOMAIN w \cap Ids = {} /\ \A r \in DOMAIN w : RowOK(r, w[r])
  BY <1>2, <1>5, RowTypes
<1>7. DOMAIN w \subseteq Wants(s)
  BY <1>1, <1>5 DEF Wants
<1> QED BY <1>1, <1>4, <1>6, <1>7, ResolverWrites

(* A request that does not wait for the lock of the market. *)
LEMMA NotWaiting ==
  ASSUME SInv, NEW s \in Sessions, ~Waits(s) PROVE Holds(s) \/ ~InQueue(s)
<1>1. ASSUME InQueue(s) PROVE s \in Range(queue)
  <2>1. queue \in Seq(Sessions)
    BY DEF SInv, Mutex
  <2>2. DOMAIN queue = 1 .. Len(queue)
    BY <2>1
  <2> QED BY <1>1, <2>2 DEF InQueue, Range
<1> QED BY <1>1 DEF Waits

(* The connection is lost. *)
LEMMA StatementFailsKeeps == ASSUME SInv, NEW s \in Sessions, StatementFails(s) PROVE SInv'
BY NotWaiting, FailKeeps DEF StatementFails

(* PostgreSQL ends a transaction. *)
LEMMA DeadlockDetectedKeeps == ASSUME SInv, NEW s \in Sessions, DeadlockDetected(s) PROVE SInv'
<1>1. tx[s].at # "commit"
  <2>1. ASSUME tx[s].at = "commit" PROVE Blockers(s) = {}
    <3>1. Wants(s) = {}
      BY <2>1 DEF Wants
    <3> QED BY <2>1, <3>1 DEF Blockers, Locked, SameKey
  <2> QED BY <2>1 DEF DeadlockDetected
<1> QED BY <1>1, NotWaiting, FailKeeps DEF DeadlockDetected

(* An empty sequence. *)
LEMMA EmptySeq ==
  ASSUME NEW q, q = <<>>
  PROVE  Len(q) = 0 /\ 1 .. Len(q) = {} /\ \A T : q \in Seq(T)
<1>1. Len(q) = 0 /\ \A T : q \in Seq(T)
  OBVIOUS
<1> QED BY <1>1

(* A state without requests and orders in the book. *)
LEMMA Quiet ==
  ASSUME Committed, tx = [s \in Sessions |-> Idle], book = <<>>, queue = <<>>
  PROVE  SInv
<1>1. DOMAIN tx = Sessions /\ \A s \in Sessions : tx[s] = Idle
  OBVIOUS
<1>2. Requests
  BY <1>1, IdleFacts DEF Requests
<1>3. Apart
  BY <1>1, IdleFacts DEF Apart
<1>4. /\ 1 .. Len(queue) = {} /\ \A T : queue \in Seq(T)
      /\ 1 .. Len(book) = {} /\ \A T : book \in Seq(T)
  BY EmptySeq
<1>5. Mutex
  BY <1>1, <1>4, IdleFacts DEF Mutex
<1>6. book \in Seq([id : Ids, qty : 1 .. Lot])
  BY <1>4
<1>7. 1 .. Len(book) = {}
  BY <1>4
<1>8. BookOK
  BY <1>6, <1>7 DEF BookOK
<1>9. Room
  BY <1>1, <1>7, IdleFacts DEF Room
<1> QED BY <1>2, <1>3, <1>5, <1>8, <1>9 DEF SInv

(* The server is restarted. *)
LEMMA RestartKeeps == ASSUME SInv, Restart PROVE SInv'
<1>1. Committed'
  BY DEF Restart, SInv, Committed, OneRowPerKey
<1>2. DOMAIN tx' = Sessions /\ \A s \in Sessions : tx'[s] = Idle
  BY DEF Restart
<1>3. Requests'
  <2>1. ASSUME NEW t PROVE Knows(t)' <=> Knows(t)
    BY DEF Restart, Knows
  <2>3. \A s \in Sessions : Sound(tx[s])'
    BY <1>2, <2>1, IdleFacts DEF Sound
  <2> QED BY <1>2, <2>3 DEF Requests
<1>4. Apart'
  BY <1>2, IdleFacts DEF Apart
<1>5. PICK q, b : q = queue' /\ b = book'
  OBVIOUS
<1>6. q = <<>> /\ b = <<>>
  BY <1>5 DEF Restart
<1>12. /\ 1 .. Len(q) = {} /\ \A T : q \in Seq(T)
       /\ 1 .. Len(b) = {} /\ \A T : b \in Seq(T)
  BY <1>6, EmptySeq
<1>7. Mutex'
  BY <1>2, <1>5, <1>12, IdleFacts DEF Mutex, Inside, Queueing
<1>8. b \in Seq([id : Ids, qty : 1 .. Lot])
  BY <1>12
<1>9. 1 .. Len(book') = {}
  BY <1>5, <1>12
<1>10. BookOK'
  BY <1>5, <1>8, <1>9 DEF BookOK
<1>11. Room'
  BY <1>2, <1>9, IdleFacts DEF Room
<1> QED BY <1>1, <1>3, <1>4, <1>7, <1>10, <1>11 DEF SInv

(* At first nothing is there but the market and the money. *)
LEMMA InitSound == ASSUME Init PROVE SInv
<1>1. DOMAIN db = Rows /\ trades = {} /\ tx = [s \in Sessions |-> Idle] /\ book = <<>> /\ queue = <<>>
  BY DEF Init
<1>2. \A i \in Ids : db[i] = NoOrder
  BY RowTypes DEF Init
<1>3. /\ db["market"] = [status |-> "ACTIVE", sets |-> 0] /\ db["shares"] = 0
      /\ db["maker"] = [avail |-> MakerCash, frozen |-> Elsewhere]
      /\ \A u \in BuyKeys : db[u] = [avail |-> 1, frozen |-> 0]
  BY RowTypes DEF Init
<1>4. NoOrder.key = None /\ NoOrder.filled = 0 /\ ~IsOrder(NoOrder) /\ Whole(NoOrder)
  <2>1. NoOrder.key = None /\ NoOrder.filled = 0 /\ NoOrder.status = "NONE"
    BY DEF NoOrder
  <2>2. NoOrder \in OrderRow
    BY KeyFacts DEF NoOrder, OrderRow
  <2> QED BY <2>1, <2>2, KeyFacts DEF IsOrder, Whole
<1>5. ASSUME NEW r \in Rows PROVE RowOK(r, db[r])
  <2>1. CASE r = "market"
    BY <1>3, <2>1, RowTypes
  <2>2. CASE r = "shares"
    BY <1>3, <2>2, RowTypes
  <2>3. CASE r \in Users
    <3>1. MakerCash \in Nat /\ Elsewhere \in Nat
      BY SessionsAssumption
    <3>2. db[r] \in Account
      BY <1>3, <2>3, <3>1 DEF Account, Users
    <3> QED BY <2>3, <3>2, RowTypes
  <2>4. CASE r \in Ids
    BY <1>2, <1>4, <2>4, RowTypes
  <2> QED BY <2>1, <2>2, <2>3, <2>4 DEF Rows
<1>6. Committed
  BY <1>1, <1>2, <1>4, <1>5 DEF Committed, OneRowPerKey
<1> QED BY <1>1, <1>6, Quiet

(* Nothing happens. *)
LEMMA StutterKeeps == ASSUME SInv, UNCHANGED vars PROVE SInv'
<1>1. db' = db /\ trades' = trades /\ tx' = tx /\ book' = book /\ queue' = queue
  BY DEF vars
<1>2. ASSUME NEW t PROVE Sound(t)' <=> Sound(t)
  BY <1>1 DEF Sound, Knows
<1>3. Requests'
  BY <1>1, <1>2 DEF SInv, Requests, Sound, Knows
<1>4. Committed' /\ Apart'
  BY <1>1 DEF SInv, Committed, OneRowPerKey, Apart
<1>5. Mutex'
  BY <1>1 DEF SInv, Mutex, Inside, Queueing, Holds
<1>6. BookOK'
  BY <1>1 DEF SInv, BookOK
<1>7. Room'
  BY <1>1 DEF SInv, Room, AtMost
<1> QED BY <1>3, <1>4, <1>5, <1>6, <1>7 DEF SInv

(* Every step of every request keeps the invariant. *)
LEMMA NextKeeps == ASSUME SInv, [Next]_vars PROVE SInv'
<1>1. ASSUME NEW s \in Sessions, Arrive(s) PROVE SInv'
  BY <1>1, PlaceKeeps, CancelKeeps, ReplaceKeeps, BatchCancelKeeps, ResolveKeeps DEF Arrive
<1>2. ASSUME NEW s \in Sessions, Proceed(s) PROVE SInv'
  BY <1>2, CheckMarketKeeps, FreezeKeeps, SaveKeeps, LockAndMatchKeeps, SettleKeeps, ReadMakerKeeps,
     WriteMakerKeeps, FinalizeKeeps, UnfreezeKeeps, WriteBackKeeps, BulkCancelKeeps, BulkUnfreezeKeeps,
     ReadOpenKeeps, CancelOpenKeeps, ReadPositionsKeeps, ClearPositionsKeeps, SettleMarketKeeps,
     CommitKeeps, DeadlockDetectedKeeps DEF Proceed
<1>3. ASSUME NEW s \in Sessions, StatementFails(s) PROVE SInv'
  BY <1>3, StatementFailsKeeps
<1> QED BY <1>1, <1>2, <1>3, RestartKeeps, StutterKeeps DEF Next

(* What every statement may rely on, whatever requests run next to it.      *)
THEOREM SessionsInductive == Spec => []SInv
<1>1. Init => SInv
  BY InitSound
<1>2. SInv /\ [Next]_vars => SInv'
  BY NextKeeps
<1> QED BY <1>1, <1>2, PTL DEF Spec

(* Committed rows and those of open transactions satisfy the schema's CHECK *)
(* constraints, and only sessions with a request queue for the lock.        *)
THEOREM SessionsTypes == Spec => []SessionTypeOK
<1>1. ASSUME SInv PROVE SessionTypeOK
  <2>1. DOMAIN db = Rows /\ \A r \in Rows : RowTypeOK(r, db[r])
    BY <1>1 DEF SInv, Committed, RowOK
  <2>2. trades \subseteq Ids \X Ids
    BY <1>1 DEF SInv, Committed
  <2>3. ASSUME NEW s \in Sessions
        PROVE  /\ tx[s].at \in Labels /\ DOMAIN tx[s].w \subseteq Rows
               /\ \A r \in DOMAIN tx[s].w : RowTypeOK(r, tx[s].w[r])
    BY <1>1, SoundFacts DEF Shape, RowOK
  <2>4. \A n \in 1 .. Len(book) : book[n] \in [id : Ids, qty : 1 .. Lot]
    <3> DEFINE T == [id : Ids, qty : 1 .. Lot]
    <3>1. book \in Seq(T)
      BY <1>1 DEF SInv, BookOK
    <3> HIDE DEF T
    <3>2. \A n \in 1 .. Len(book) : book[n] \in T
      BY <3>1
    <3> QED BY <3>2 DEF T
  <2>5. ASSUME NEW s \in Range(queue) PROVE tx[s].at \in Labels \ {"idle", "commit"}
    <3>1. queue \in Seq(Sessions)
      BY <1>1 DEF SInv, Mutex
    <3>2. PICK k \in 1 .. Len(queue) : queue[k] = s
      BY <3>1 DEF Range
    <3>3. s \in Sessions
      BY <3>1, <3>2
    <3> QED BY <1>1, <2>3, <3>2, <3>3 DEF SInv, Mutex
  <2> QED BY <2>1, <2>2, <2>3, <2>4, <2>5 DEF SessionTypeOK
<1> QED BY <1>1, SessionsInductive, PTL

(* However often and however concurrently a client_order_id is delivered,   *)
(* one order is made of it.                                                 *)
THEOREM KeysServeOnce == Spec => []OneRowPerKey
<1>1. SInv => OneRowPerKey
  BY DEF SInv, Committed
<1> QED BY <1>1, SessionsInductive, PTL

-----------------------------------------------------------------------------
(* While the market is active.                                               *)

\* The last statements of resolve_market, which settle the market
Resolving(t) ==
  t.at \in ResolveSteps \/ (t.at = "commit" /\ t.key = None /\ "market" \in DOMAIN t.w)

\* The match of t has found a trade, and clear_mint has been done.
Cleared(t) == t.fill # None /\ t.at # "settle"

\* The trades of the market with those of t
Ahead(t) == IF Cleared(t) THEN Cardinality(trades) + 1 ELSE Cardinality(trades)

\* The status of a market is written back as it is, or as SETTLED.
Status(t) ==
  "market" \in DOMAIN t.w =>
    t.w["market"].status = IF t.key = None THEN "SETTLED" ELSE db["market"].status

\* The totals that t has read under the row lock, and what it makes of them
Totals(t) ==
  /\ ~Resolving(t) /\ (t.key = None \/ t.at \notin MatchedSteps \cup {"commit"}) =>
       {"market", "shares"} \cap DOMAIN t.w = {}
  /\ t.key # None =>
       /\ t.at \in MatchedSteps => t.sets = Ahead(t)
       /\ t.at = "commit" => t.w["market"].sets = Ahead(t)
       /\ "shares" \in DOMAIN t.w => Cleared(t)
  /\ Cleared(t) => "shares" \in DOMAIN t.w /\ t.w["shares"] = Ahead(t)

\* The two orders of the trade of t: its own and the one it has matched
Fills(t) ==
  /\ t.id # None /\ t.id \in DOMAIN t.w =>
       /\ t.w[t.id].filled = IF Cleared(t) THEN 1 ELSE 0
       /\ t.key \in MakerKeys => t.w[t.id].status = "OPEN"
  /\ t.fill # None => Active(db[t.fill])
  /\ t.at = "write_maker" => t.copy[t.fill] = db[t.fill]
  /\ t.fill # None /\ t.at \in {"finalize", "commit"} =>
       /\ t.fill \in DOMAIN t.w /\ t.w[t.fill].filled = db[t.fill].filled + 1
       /\ Active(t.w[t.fill]) <=> Remaining(t.w[t.fill]) > 0

NotIn(b, i) == \A k \in 1 .. Len(b) : b[k].id # i

\* The other orders that t has written are cancelled, and out of the book b.
Gone(t, b) ==
  /\ ~Resolving(t) /\ t.at # "bulk_cancel" =>
       \A i \in Ids \cap DOMAIN t.w : i \notin {t.id, t.fill} =>
         /\ t.w[i].status = "CANCELLED" /\ NotIn(b, i)
         /\ \A r \in Sessions : tx[r].fill # i
  /\ t.at = "bulk_cancel" => Ids \cap DOMAIN t.w \subseteq DOMAIN t.copy
  /\ t.at = "write_back" => \A i \in DOMAIN t.copy : NotIn(b, i)

\* What the book has left of an order its row has too, but for the one trade in
\* progress and for a row that is about to be committed.
BookRows ==
  \A k \in 1 .. Len(book) :
    LET i == book[k].id
        row == db[i]
    IN \/ book[k].qty = Lot /\ \E s \in Sessions : tx[s].at = "commit" /\ tx[s].id = i
       \/ Active(row) /\ Remaining(row) = book[k].qty + 1 /\ \E s \in Sessions : tx[s].fill = i
       \/ Active(row) /\ Remaining(row) = book[k].qty /\ \A s \in Sessions : tx[s].fill # i

AInv ==
  /\ NoLostUpdate
  /\ \A s \in Sessions : Status(tx[s])
  /\ db["market"].status = "ACTIVE" =>
       /\ \A s \in Sessions : Totals(tx[s]) /\ Fills(tx[s]) /\ Gone(tx[s], book)
       /\ BookRows

(* What is not in the book is not in what is left of it. *)
LEMMA StaysOut ==
  ASSUME NEW b, NEW c, Within(c, b), NEW i, NotIn(b, i)
  PROVE  NotIn(c, i)
<1>1. PICK f \in [1 .. Len(c) -> 1 .. Len(b)] : \A m \in 1 .. Len(c) : c[m] = b[f[m]]
  BY DEF Within
<1> QED BY <1>1 DEF NotIn

(* A statement that only takes orders from the book. *)
LEMMA MoveActive ==
  ASSUME SInv, AInv, NEW s \in Sessions, NEW n, Moves(s, n), tx[s].at # "commit",
         Within(book', book),
         n.fill = tx[s].fill \/ (n.fill = None /\ (tx[s].fill # None => book' = <<>>)),
         Status(n), db["market"].status = "ACTIVE" => Totals(n) /\ Fills(n) /\ Gone(n, book')
  PROVE  AInv'
<1>1. /\ DOMAIN tx' = Sessions /\ tx'[s] = n /\ db' = db /\ trades' = trades
      /\ \A t \in Sessions : t # s => tx'[t] = tx[t]
  BY MoveFacts DEF SInv
<1>2. NoLostUpdate'
  BY <1>1 DEF AInv, NoLostUpdate, TradesOf
<1>3. ASSUME NEW t
      PROVE  (Status(t)' <=> Status(t)) /\ (Totals(t)' <=> Totals(t)) /\ (Fills(t)' <=> Fills(t))
  BY <1>1 DEF Status, Totals, Fills, Ahead, Cleared, Resolving
<1>4. \A t \in Sessions : Status(tx[t])'
  <2> TAKE t \in Sessions
  <2>1. PICK r : r = tx'[t]
    OBVIOUS
  <2>2. Status(r)
    BY <1>1, <2>1 DEF AInv
  <2> QED BY <1>3, <2>1, <2>2
<1>5. ASSUME db["market"].status = "ACTIVE"
      PROVE  (\A t \in Sessions : Totals(tx[t])' /\ Fills(tx[t])' /\ Gone(tx[t], book)') /\ BookRows'
  <2>1. PICK f \in [1 .. Len(book') -> 1 .. Len(book)] : \A m \in 1 .. Len(book') : book'[m] = book[f[m]]
    BY DEF Within
  <2>2. ASSUME NEW i, NotIn(book, i) PROVE NotIn(book', i)
    BY <2>2, StaysOut
  <2>3. ASSUME NEW i \in Ids, \A r \in Sessions : tx[r].fill # i PROVE \A r \in Sessions : tx'[r].fill # i
    BY <1>1, <2>3, KeyFacts
  <2>4. ASSUME NEW t, Gone(t, book') PROVE Gone(t, book)'
    BY <2>3, <2>4 DEF Gone, Resolving
  <2>5. ASSUME NEW t \in Sessions PROVE Totals(tx[t])' /\ Fills(tx[t])' /\ Gone(tx[t], book)'
    <3>1. PICK r : r = tx'[t]
      OBVIOUS
    <3>2. CASE t = s
      BY <1>1, <1>3, <1>5, <2>4, <3>1, <3>2
    <3>3. CASE t # s
      <4>1. Totals(r) /\ Fills(r) /\ Gone(r, book)
        BY <1>1, <1>5, <3>1, <3>3 DEF AInv
      <4>2. Gone(r, book')
        BY <2>2, <4>1 DEF Gone
      <4> QED BY <1>3, <2>4, <3>1, <4>1, <4>2
    <3> QED BY <3>2, <3>3
  <2>6. BookRows'
    <3>1. SUFFICES ASSUME NEW k \in 1 .. Len(book'), NEW i, i = book'[k].id
                   PROVE  \/ book'[k].qty = Lot /\ \E r \in Sessions : tx'[r].at = "commit" /\ tx'[r].id = i
                          \/ /\ Active(db[i]) /\ Remaining(db[i]) = book'[k].qty + 1
                             /\ \E r \in Sessions : tx'[r].fill = i
                          \/ /\ Active(db[i]) /\ Remaining(db[i]) = book'[k].qty
                             /\ \A r \in Sessions : tx'[r].fill # i
      BY <1>1 DEF BookRows
    <3>2. PICK m \in 1 .. Len(book) : book'[k] = book[m]
      BY <2>1
    <3>3. i \in Ids /\ book[m].id = i
      BY <3>1, <3>2, BookFacts
    <3>4. CASE book[m].qty = Lot /\ \E r \in Sessions : tx[r].at = "commit" /\ tx[r].id = i
      BY <1>1, <3>2, <3>4
    <3>5. CASE /\ Active(db[i]) /\ Remaining(db[i]) = book[m].qty + 1
               /\ \E r \in Sessions : tx[r].fill = i
      <4>1. PICK r \in Sessions : tx[r].fill = i
        BY <3>5
      <4>2. tx'[r].fill = i
        <5>1. book' # <<>>
          BY <3>1
        <5> QED BY <1>1, <3>3, <4>1, <5>1, KeyFacts
      <4> QED BY <3>2, <3>5, <4>2
    <3>6. CASE /\ Active(db[i]) /\ Remaining(db[i]) = book[m].qty
               /\ \A r \in Sessions : tx[r].fill # i
      BY <2>3, <3>2, <3>3, <3>6
    <3> QED BY <1>5, <3>3, <3>4, <3>5, <3>6 DEF AInv, BookRows
  <2> QED BY <2>5, <2>6
<1> QED BY <1>1, <1>2, <1>4, <1>5 DEF AInv

(* A request that has written nothing has nothing to say of the totals.     *)
LEMMA NothingWritten ==
  ASSUME SInv, AInv, NEW s \in Sessions, NEW n, Moves(s, n), tx[s].at # "commit",
         DOMAIN n.w = {}, n.fill = None, n.at \notin MatchedSteps \cup {"commit", "write_back"},
         Within(book', book), tx[s].fill # None => book' = <<>>
  PROVE  AInv'
<1>1. Status(n) /\ Totals(n) /\ Fills(n) /\ Gone(n, book')
  BY DEF Status, Totals, Fills, Gone, Cleared
<1> QED BY <1>1, MoveActive

(* Nor does the administrator's request before it commits.                  *)
LEMMA ResolverMoves ==
  ASSUME SInv, AInv, NEW s \in Sessions, NEW n, Moves(s, n), tx[s].at \in ResolveSteps \cup {"idle"},
         Resolving(n), n.key = None, n.id = None, n.fill = None, Status(n), UNCHANGED book
  PROVE  AInv'
<1>1. Totals(n) /\ Fills(n) /\ Gone(n, book')
  BY DEF Totals, Fills, Gone, Cleared, Resolving
<1>2. tx[s].fill = None
  BY SoundFacts, IdleFacts DEF Stage
<1> QED BY <1>1, <1>2, MoveActive, WithinFacts

(* Statements that write rows of accounts only.                             *)
LEMMA AccountStep ==
  ASSUME SInv, AInv, NEW s \in Sessions, NEW n, Moves(s, n), Within(book', book),
         tx[s].at \notin MatchedSteps \cup ResolveSteps \cup {"commit", "bulk_cancel"},
         n.at \notin MatchedSteps \cup ResolveSteps \cup {"bulk_cancel"}, n.at = "commit" => n.key = None,
         n.key = tx[s].key, n.id = tx[s].id, n.fill = tx[s].fill,
         \A r \in DOMAIN n.w \ Users : r \in DOMAIN tx[s].w /\ n.w[r] = tx[s].w[r],
         n.at = "write_back" => \A i \in DOMAIN n.copy : NotIn(book', i)
  PROVE  AInv'
<1>1. PICK t : t = tx[s]
  OBVIOUS
<1>2. t.fill = None /\ n.fill = None /\ n.id = t.id /\ n.key = t.key
  BY <1>1, SoundFacts DEF Stage
<1>3. \A i \in Ids \cap DOMAIN n.w : i \in DOMAIN t.w /\ n.w[i] = t.w[i]
  BY <1>1, RowTypes
<1>4. \A r \in {"market", "shares"} \cap DOMAIN n.w : r \in DOMAIN t.w /\ n.w[r] = t.w[r]
  BY <1>1, RowTypes
<1>5. Status(n)
  BY <1>1, <1>2, <1>4 DEF AInv, Status
<1>6. ASSUME db["market"].status = "ACTIVE" PROVE Totals(n) /\ Fills(n) /\ Gone(n, book')
  <2>1. Totals(t) /\ Fills(t) /\ Gone(t, book) /\ ~Resolving(t)
    BY <1>1, <1>2, <1>6 DEF AInv, Resolving
  <2>2. {"market", "shares"} \cap DOMAIN t.w = {}
    BY <1>1, <2>1 DEF Totals
  <2>3. Totals(n) /\ ~Resolving(n)
    BY <1>2, <1>4, <2>2 DEF Totals, Cleared, Resolving
  <2>4. Fills(n)
    <3>1. n.id # None /\ n.id \in DOMAIN n.w => t.id \in DOMAIN t.w /\ n.w[n.id] = t.w[t.id]
      BY <1>1, <1>2, <1>3, SoundFacts DEF Shape
    <3> QED BY <1>2, <2>1, <3>1 DEF Fills, Cleared
  <2>5. ASSUME NEW i, NotIn(book, i) PROVE NotIn(book', i)
    BY <2>5, StaysOut
  <2>6. Gone(n, book')
    BY <1>1, <1>2, <1>3, <2>1, <2>3, <2>5 DEF Gone
  <2> QED BY <2>3, <2>4, <2>6
<1> QED BY <1>1, <1>2, <1>5, <1>6, MoveActive

(* A request ends with an error: a match is undone with the book.           *)
LEMMA EndActive ==
  ASSUME SInv, AInv, NEW s \in Sessions, tx[s].at # "commit",
         Fail(s) \/ (Refuse(s) /\ tx[s].at \in {"check", "freeze"})
  PROVE  AInv'
<1>1. PICK n : n = Idle
  OBVIOUS
<1>2. Moves(s, n)
  BY <1>1 DEF Moves, Fail, Refuse
<1>3. Within(book', book)
  BY WithinFacts DEF Fail, Refuse
<1>4. tx[s].fill # None => book' = <<>>
  BY SoundFacts DEF Stage, Fail
<1> QED BY <1>1, <1>2, <1>3, <1>4, IdleFacts, NothingWritten

(* A new request.                                                           *)
LEMMA ArriveActive == ASSUME SInv, AInv, NEW s \in Sessions, Arrive(s) PROVE AInv'
<1>1. tx[s].at = "idle" /\ book' = book
  BY DEF Arrive, Place, Cancel, Replace, BatchCancel, Resolve
<1>2. tx[s].fill = None /\ Within(book', book)
  BY <1>1, SoundFacts, IdleFacts, WithinFacts DEF Stage
<1>3. ASSUME NEW key, Place(s, key) PROVE AInv'
  <2>1. PICK n : n = [Idle EXCEPT !.at = "check", !.key = key, !.id = CHOOSE i \in Ids : Fresh(i)]
    OBVIOUS
  <2>2. Moves(s, n) /\ n.at = "check" /\ n.fill = None /\ DOMAIN n.w = {}
    BY <1>3, <2>1 DEF Place, Moves, Idle, Empty
  <2> QED BY <1>1, <1>2, <2>2, NothingWritten
<1>4. ASSUME NEW i \in Ids, Cancel(s, i) PROVE AInv'
  <2>1. PICK n : n = [Idle EXCEPT !.at = "unfreeze", !.copy = Row(i, db[i])]
    OBVIOUS
  <2>2. Moves(s, n) /\ n.at = "unfreeze" /\ n.fill = None /\ DOMAIN n.w = {}
    BY <1>4, <2>1 DEF Cancel, Moves, Idle, Empty
  <2> QED BY <1>1, <1>2, <2>2, NothingWritten
<1>5. ASSUME NEW i \in Ids, NEW key \in NewKeys, Replace(s, i, key) PROVE AInv'
  <2>1. PICK n : n = [Idle EXCEPT !.at = "unfreeze", !.copy = Row(i, db[i]), !.key = key,
                                  !.id = CHOOSE j \in Ids : Fresh(j)]
    OBVIOUS
  <2>2. Moves(s, n) /\ n.at = "unfreeze" /\ n.fill = None /\ DOMAIN n.w = {}
    BY <1>5, <2>1 DEF Replace, Moves, Idle, Empty
  <2> QED BY <1>1, <1>2, <2>2, NothingWritten
<1>6. CASE BatchCancel(s)
  <2>1. PICK rows : rows = [i \in MakerOpen |-> db[i]]
    OBVIOUS
  <2>2. PICK n : n = [Idle EXCEPT !.at = "bulk_cancel", !.copy = rows, !.w = rows]
    OBVIOUS
  <2>3. /\ Moves(s, n) /\ n.at = "bulk_cancel" /\ n.key = None /\ n.id = None /\ n.fill = None
        /\ n.copy = rows /\ n.w = rows
    BY <1>6, <2>1, <2>2 DEF BatchCancel, Moves, Idle
  <2>4. DOMAIN rows \subseteq Ids
    BY <2>1 DEF MakerOpen, OpenIds
  <2>5. {"market", "shares"} \cap DOMAIN n.w = {}
    BY <2>3, <2>4, RowTypes
  <2>6. Status(n) /\ Totals(n) /\ Fills(n) /\ Gone(n, book')
    BY <2>3, <2>5 DEF Status, Totals, Fills, Gone, Cleared
  <2> QED BY <1>1, <1>2, <2>3, <2>6, MoveActive
<1>7. CASE Resolve(s)
  <2>1. PICK n : n = [Idle EXCEPT !.at = "read_open"]
    OBVIOUS
  <2>2. Moves(s, n) /\ n.at = "read_open" /\ n.fill = None /\ DOMAIN n.w = {}
    BY <1>7, <2>1 DEF Resolve, Moves, Idle, Empty
  <2> QED BY <1>1, <1>2, <2>2, NothingWritten
<1> QED BY <1>3, <1>4, <1>5, <1>6, <1>7 DEF Arrive

(* A statement of resolve_market: no row of the market but a settled one.    *)
LEMMA ResolverWritesActive ==
  ASSUME SInv, AInv, NEW s \in Sessions, tx[s].at \in ResolveSteps, NEW w, NEW n, Moves(s, n),
         n.w = Over(w, tx[s].w), n.at \in ResolveSteps \/ (n.at = "commit" /\ "market" \in DOMAIN w),
         n.key = tx[s].key, n.id = tx[s].id, n.fill = tx[s].fill,
         "market" \in DOMAIN w => w["market"].status = "SETTLED", UNCHANGED book
  PROVE  AInv'
<1>1. tx[s].key = None /\ tx[s].id = None /\ tx[s].fill = None
  BY ResolverFacts
<1>2. IsOver(n.w, w, tx[s].w)
  BY OverIs
<1>3. Status(n)
  BY <1>1, <1>2 DEF AInv, Status, IsOver
<1>4. Resolving(n)
  BY <1>1, <1>2 DEF Resolving, IsOver
<1> QED BY <1>1, <1>3, <1>4, ResolverMoves

(* The statements of resolve_market. *)
LEMMA ResolveActive ==
  ASSUME SInv, AInv, NEW s \in Sessions,
         \/ ReadOpen(s) \/ CancelOpen(s) \/ ReadPositions(s) \/ ClearPositions(s) \/ SettleMarket(s)
  PROVE  AInv'
<1>1. tx[s].at \in ResolveSteps
  BY DEF ReadOpen, CancelOpen, ReadPositions, ClearPositions, SettleMarket, Runs
<1>2. PICK t : t = tx[s]
  OBVIOUS
<1>3. DOMAIN t = Fields /\ t.key = None /\ t.id = None /\ t.fill = None
  BY <1>1, <1>2, SoundFacts, ResolverFacts
<1>4. CASE ReadOpen(s)
  <2>1. PICK n : n = [t EXCEPT !.at = "cancel_open", !.copy = [i \in OpenIds |-> db[i]]]
    OBVIOUS
  <2>2. Moves(s, n) /\ UNCHANGED book
    BY <1>2, <1>4, <2>1 DEF ReadOpen, Moves
  <2>3. /\ n.at = "cancel_open" /\ n.key = None /\ n.id = None /\ n.fill = None /\ n.w = t.w
    BY <1>3, <2>1 DEF Fields
  <2>4. Status(n)
    BY <1>2, <1>3, <2>3 DEF AInv, Status
  <2> QED BY <1>1, <2>2, <2>3, <2>4, ResolverMoves DEF Resolving
<1>5. CASE ReadPositions(s)
  <2>1. PICK n : n = [t EXCEPT !.at = "clear", !.paid = Val(s, "shares")]
    OBVIOUS
  <2>2. Moves(s, n) /\ UNCHANGED book
    BY <1>2, <1>5, <2>1 DEF ReadPositions, Moves
  <2>3. n.at = "clear" /\ n.key = None /\ n.id = None /\ n.fill = None /\ n.w = t.w
    BY <1>3, <2>1 DEF Fields
  <2>4. Status(n)
    BY <1>2, <1>3, <2>3 DEF AInv, Status
  <2> QED BY <1>1, <2>2, <2>3, <2>4, ResolverMoves DEF Resolving
<1>6. CASE CancelOpen(s)
  <2>1. CASE Fail(s)
    BY <1>1, <2>1, EndActive
  <2>2. CASE ~Fail(s)
    <3>1. PICK i \in NextOpen(t.copy) :
            LET k == Remaining(tx[s].copy[i])
                w == Over(Row(i, [Val(s, i) EXCEPT !.status = "CANCELLED"]),
                          Row("maker", Unfrozen(Val(s, "maker"), k)))
            IN /\ tx' = [tx EXCEPT ![s] = [Wrote(s, w, "cancel_open") EXCEPT
                                             !.copy = Restrict(@, DOMAIN @ \ {i})]]
               /\ UNCHANGED <<db, trades, book>>
      BY <1>2, <1>6, <2>2 DEF CancelOpen
    <3>2. PICK f, g : /\ f = Row(i, [Val(s, i) EXCEPT !.status = "CANCELLED"])
                      /\ g = Row("maker", Unfrozen(Val(s, "maker"), Remaining(tx[s].copy[i])))
      OBVIOUS
    <3>3. PICK w : w = Over(f, g)
      OBVIOUS
    <3>4. PICK a : a = Wrote(s, w, "cancel_open")
      OBVIOUS
    <3>5. PICK n : n = [a EXCEPT !.copy = Restrict(a.copy, DOMAIN a.copy \ {i})]
      OBVIOUS
    <3>6. Moves(s, n) /\ UNCHANGED book
      BY <3>1, <3>2, <3>3, <3>4, <3>5 DEF Moves
    <3>7. /\ DOMAIN a = Fields /\ a.at = "cancel_open" /\ a.w = Over(w, t.w) /\ a.key = t.key
          /\ a.id = t.id /\ a.fill = t.fill
      BY <1>2, <1>3, <3>4, WroteFacts
    <3>8. n.at = "cancel_open" /\ n.w = Over(w, t.w) /\ n.key = t.key /\ n.id = t.id /\ n.fill = t.fill
      BY <3>5, <3>7 DEF Fields
    <3>9. "market" \notin DOMAIN w
      <4>1. i \in Ids /\ i # "market"
        BY <1>2, <3>1, CopyFacts, RowTypes DEF NextOpen
      <4>2. DOMAIN f = {i} /\ DOMAIN g = {"maker"}
        BY <3>2, RowFacts
      <4>3. IsOver(w, f, g)
        BY <3>3, OverIs
      <4> QED BY <4>1, <4>2, <4>3 DEF IsOver
    <3> QED BY <1>1, <1>2, <3>6, <3>8, <3>9, ResolverWritesActive
  <2> QED BY <2>1, <2>2
<1>7. CASE ClearPositions(s)
  <2>1. PICK f, g : /\ f = Row("maker", [Val(s, "maker") EXCEPT !.avail = @ + 2 * tx[s].paid])
                    /\ g = Row("shares", 0)
    OBVIOUS
  <2>2. PICK w : w = Over(f, g)
    OBVIOUS
  <2>3. PICK n : n = Wrote(s, w, "settle_market")
    OBVIOUS
  <2>4. Moves(s, n) /\ UNCHANGED book
    BY <1>7, <2>1, <2>2, <2>3 DEF ClearPositions, Moves
  <2>5. n.at = "settle_market" /\ n.w = Over(w, t.w) /\ n.key = t.key /\ n.id = t.id /\ n.fill = t.fill
    BY <1>2, <1>3, <2>3, WroteFacts
  <2>6. DOMAIN f = {"maker"} /\ DOMAIN g = {"shares"}
    BY <2>1, RowFacts
  <2>7. "market" \notin DOMAIN w
    <3>1. IsOver(w, f, g)
      BY <2>2, OverIs
    <3> QED BY <2>6, <3>1 DEF IsOver
  <2> QED BY <1>1, <1>2, <2>4, <2>5, <2>7, ResolverWritesActive
<1>8. CASE SettleMarket(s)
  <2>1. PICK m : m = [status |-> "SETTLED", sets |-> 0]
    OBVIOUS
  <2>2. PICK w : w = Row("market", m)
    OBVIOUS
  <2>3. PICK n : n = Wrote(s, w, "commit")
    OBVIOUS
  <2>4. Moves(s, n) /\ UNCHANGED book
    BY <1>8, <2>1, <2>2, <2>3 DEF SettleMarket, Moves
  <2>5. n.at = "commit" /\ n.w = Over(w, t.w) /\ n.key = t.key /\ n.id = t.id /\ n.fill = t.fill
    BY <1>2, <1>3, <2>3, WroteFacts
  <2>6. DOMAIN w = {"market"} /\ w["market"].status = "SETTLED"
    <3>1. m.status = "SETTLED"
      BY <2>1
    <3>2. DOMAIN w = {"market"} /\ w["market"] = m
      BY <2>2, RowFacts
    <3> QED BY <3>1, <3>2
  <2> QED BY <1>1, <1>2, <2>4, <2>5, <2>6, ResolverWritesActive
<1> QED BY <1>4, <1>5, <1>6, <1>7, <1>8

(* What a statement writes of accounts is of no other row.                  *)
LEMMA AccountWrites ==
  ASSUME NEW u \in Users, NEW v, NEW w, w = Row(u, v), NEW o, NEW old, o = Over(w, old)
  PROVE  \A r \in DOMAIN o \ Users : r \in DOMAIN old /\ o[r] = old[r]
<1>1. DOMAIN w = {u}
  BY RowFacts
<1>2. IsOver(o, w, old)
  BY OverIs
<1> QED BY <1>1, <1>2 DEF IsOver

(* check_market_active. *)
LEMMA CheckMarketActive == ASSUME SInv, AInv, NEW s \in Sessions, CheckMarket(s) PROVE AInv'
<1>1. tx[s].at = "check"
  BY DEF CheckMarket
<1>2. CASE Refuse(s)
  BY <1>1, <1>2, EndActive
<1>3. CASE ~Refuse(s)
  <2>1. PICK n : n = [tx[s] EXCEPT !.at = "freeze"]
    OBVIOUS
  <2>2. PICK t : t = tx[s]
    OBVIOUS
  <2>3. Moves(s, n) /\ UNCHANGED book
    BY <1>3, <2>1 DEF CheckMarket, Moves
  <2>4. n.at = "freeze" /\ n.key = t.key /\ n.id = t.id /\ n.fill = t.fill /\ n.w = t.w
    BY <2>1, <2>2, SoundFacts DEF Fields
  <2>5. Within(book', book)
    BY <2>3, WithinFacts
  <2> QED BY <1>1, <2>2, <2>3, <2>4, <2>5, AccountStep
<1> QED BY <1>2, <1>3

(* check_and_freeze. *)
LEMMA FreezeActive == ASSUME SInv, AInv, NEW s \in Sessions, Freeze(s) PROVE AInv'
<1>1. tx[s].at = "freeze"
  BY DEF Freeze, Runs
<1>2. CASE Refuse(s)
  BY <1>1, <1>2, EndActive
<1>3. CASE ~Refuse(s)
  <2>1. PICK t : t = tx[s]
    OBVIOUS
  <2>2. PICK u, q, row : u = User(t.key) /\ q = Quantity(t.key) /\ row = Val(s, u)
    OBVIOUS
  <2>3. PICK w : w = Row(u, [avail |-> row.avail - q, frozen |-> row.frozen + q])
    OBVIOUS
  <2>4. PICK n : n = Wrote(s, w, "save")
    OBVIOUS
  <2>5. Moves(s, n) /\ UNCHANGED book
    BY <1>3, <2>1, <2>2, <2>3, <2>4 DEF Freeze, Moves
  <2>6. n.at = "save" /\ n.w = Over(w, t.w) /\ n.key = t.key /\ n.id = t.id /\ n.fill = t.fill
    BY <2>1, <2>4, SoundFacts, WroteFacts
  <2>7. u \in Users
    BY <1>1, <2>1, <2>2, PlaceFacts
  <2>8. \A r \in DOMAIN n.w \ Users : r \in DOMAIN t.w /\ n.w[r] = t.w[r]
    BY <2>3, <2>6, <2>7, AccountWrites
  <2>9. Within(book', book)
    BY <2>5, WithinFacts
  <2> QED BY <1>1, <2>1, <2>5, <2>6, <2>8, <2>9, AccountStep
<1> QED BY <1>2, <1>3

(* What is left of the book has none of the orders taken from it.           *)
LEMMA DroppedOut ==
  ASSUME SInv, NEW ids, NEW i \in ids PROVE NotIn(Dropped(book, ids), i)
<1> DEFINE T == [id : Ids, qty : 1 .. Lot]
<1>1. book \in Seq(T)
  BY DEF SInv, BookOK
<1> HIDE DEF T
<1>2. PICK f : Enumerates(Dropped(book, ids), book, ids, Len(book), f)
  BY <1>1, DroppedProperties
<1> QED BY <1>2 DEF Enumerates, NotIn

(* cancel_order and replace_order take the order from the book. *)
LEMMA UnfreezeActive == ASSUME SInv, AInv, NEW s \in Sessions, Unfreeze(s) PROVE AInv'
<1>1. tx[s].at = "unfreeze"
  BY DEF Unfreeze, Runs
<1>2. CASE Fail(s)
  BY <1>1, <1>2, EndActive
<1>3. CASE ~Fail(s)
  <2>1. PICK i \in DOMAIN tx[s].copy :
          LET k == Remaining(tx[s].copy[i])
          IN /\ book' = Dropped(book, {i})
             /\ tx' = [tx EXCEPT ![s] = Wrote(s, Row("maker", Unfrozen(Val(s, "maker"), k)), "write_back")]
             /\ UNCHANGED <<db, trades, queue>>
    BY <1>3 DEF Unfreeze
  <2>2. PICK t, k : t = tx[s] /\ k = Remaining(t.copy[i])
    OBVIOUS
  <2>3. PICK w : w = Row("maker", Unfrozen(Val(s, "maker"), k))
    OBVIOUS
  <2>4. PICK n : n = Wrote(s, w, "write_back")
    OBVIOUS
  <2>5. Moves(s, n) /\ book' = Dropped(book, {i})
    BY <2>1, <2>2, <2>3, <2>4 DEF Moves
  <2>6. /\ n.at = "write_back" /\ n.w = Over(w, t.w) /\ n.key = t.key /\ n.id = t.id /\ n.fill = t.fill
        /\ n.copy = t.copy
    BY <2>2, <2>4, SoundFacts, WroteFacts
  <2>7. \A r \in DOMAIN n.w \ Users : r \in DOMAIN t.w /\ n.w[r] = t.w[r]
    BY <2>3, <2>6, AccountWrites, RowTypes
  <2>8. Within(book', book)
    BY <2>5, WithinFacts
  <2>9. DOMAIN n.copy = {i}
    BY <1>1, <2>1, <2>2, <2>6, SoundFacts DEF Stage
  <2>10. \A j \in DOMAIN n.copy : NotIn(book', j)
    BY <2>5, <2>9, DroppedOut
  <2> QED BY <1>1, <2>2, <2>5, <2>6, <2>7, <2>8, <2>10, AccountStep
<1> QED BY <1>2, <1>3

(* batch_cancel gives back what its orders had frozen. *)
LEMMA BulkUnfreezeActive == ASSUME SInv, AInv, NEW s \in Sessions, BulkUnfreeze(s) PROVE AInv'
<1>1. tx[s].at = "bulk_unfreeze"
  BY DEF BulkUnfreeze, Runs
<1>2. CASE Fail(s)
  BY <1>1, <1>2, EndActive
<1>3. CASE ~Fail(s)
  <2>1. PICK t, k : /\ t = tx[s]
                    /\ k = SumOver([i \in DOMAIN t.copy |-> Remaining(t.copy[i])], DOMAIN t.copy)
    OBVIOUS
  <2>2. PICK w : w = Row("maker", Unfrozen(Val(s, "maker"), k))
    OBVIOUS
  <2>3. PICK n : n = Wrote(s, w, "commit")
    OBVIOUS
  <2>4. Moves(s, n) /\ UNCHANGED book
    BY <1>3, <2>1, <2>2, <2>3 DEF BulkUnfreeze, Moves
  <2>5. n.at = "commit" /\ n.w = Over(w, t.w) /\ n.key = t.key /\ n.id = t.id /\ n.fill = t.fill
    BY <2>1, <2>3, SoundFacts, WroteFacts
  <2>6. t.key = None
    BY <1>1, <2>1, SoundFacts, KeyFacts DEF Stage
  <2>7. \A r \in DOMAIN n.w \ Users : r \in DOMAIN t.w /\ n.w[r] = t.w[r]
    BY <2>2, <2>5, AccountWrites, RowTypes
  <2>8. Within(book', book)
    BY <2>4, WithinFacts
  <2> QED BY <1>1, <2>1, <2>4, <2>5, <2>6, <2>7, <2>8, AccountStep
<1> QED BY <1>2, <1>3

(* repo.save. *)
LEMMA SaveActive == ASSUME SInv, AInv, NEW s \in Sessions, Save(s) PROVE AInv'
<1>1. tx[s].at = "save"
  BY DEF Save, Runs
<1>2. CASE Fail(s)
  BY <1>1, <1>2, EndActive
<1>3. CASE ~Fail(s)
  <2>1. PICK t, i, row : t = tx[s] /\ i = t.id /\ row = NewRow(t.key)
    OBVIOUS
  <2>2. PICK w : w = Row(i, row)
    OBVIOUS
  <2>3. PICK n : n = Wrote(s, w, "lock_market")
    OBVIOUS
  <2>4. Moves(s, n) /\ UNCHANGED book
    BY <1>3, <2>1, <2>2, <2>3 DEF Save, Moves
  <2>5. n.at = "lock_market" /\ n.w = Over(w, t.w) /\ n.key = t.key /\ n.id = t.id /\ n.fill = t.fill
    BY <2>1, <2>3, SoundFacts, WroteFacts
  <2>6. i \in Ids /\ i \notin {"market", "shares"} /\ t.key # None /\ t.fill = None
    BY <1>1, <2>1, PlaceFacts, SoundFacts DEF Stage
  <2>7. DOMAIN n.w = {i} \cup DOMAIN t.w /\ n.w[i] = row /\ \A r \in DOMAIN t.w : r # i => n.w[r] = t.w[r]
    <3>1. IsOver(n.w, w, t.w)
      BY <2>5, OverIs
    <3>2. DOMAIN w = {i} /\ w[i] = row
      BY <2>2, RowFacts
    <3> QED BY <3>1, <3>2 DEF IsOver
  <2>8. Status(n)
    BY <2>1, <2>5, <2>6, <2>7 DEF AInv, Status
  <2>9. ASSUME db["market"].status = "ACTIVE" PROVE Totals(n) /\ Fills(n) /\ Gone(n, book')
    <3>1. Totals(t) /\ Gone(t, book) /\ ~Resolving(t) /\ ~Resolving(n)
      BY <1>1, <2>1, <2>5, <2>9 DEF AInv, Resolving
    <3>2. Totals(n)
      BY <1>1, <2>1, <2>5, <2>6, <2>7, <3>1 DEF Totals, Cleared
    <3>3. row.filled = 0 /\ row.status = "OPEN"
      BY <2>1 DEF NewRow
    <3>4. Fills(n)
      BY <2>1, <2>5, <2>6, <2>7, <3>3 DEF Fills, Cleared
    <3>5. Gone(n, book')
      BY <1>1, <2>1, <2>4, <2>5, <2>6, <2>7, <3>1 DEF Gone
    <3> QED BY <3>2, <3>4, <3>5
  <2>10. Within(book', book)
    BY <2>4, WithinFacts
  <2> QED BY <1>1, <2>1, <2>4, <2>5, <2>6, <2>8, <2>9, <2>10, MoveActive
<1> QED BY <1>2, <1>3

(* An order whose row and whose market's lock s has is no part of a trade in *)
(* progress.                                                                *)
LEMMA NobodyFills ==
  ASSUME SInv, AInv, db["market"].status = "ACTIVE", NEW s \in Sessions, Holds(s), tx[s].fill = None,
         NEW i \in Ids, \A r \in Sessions : r # s => i \notin DOMAIN tx[r].w
  PROVE  \A r \in Sessions : tx[r].fill # i
<1> SUFFICES ASSUME NEW r \in Sessions, tx[r].fill = i PROVE FALSE
  OBVIOUS
<1>1. r # s /\ tx[r].fill # None
  BY KeyFacts
<1>2. CASE tx[r].at = "commit"
  BY <1>1, <1>2 DEF AInv, Fills
<1>3. CASE tx[r].at # "commit"
  <2>1. Inside(tx[r])
    BY <1>1, <1>3, SoundFacts DEF Stage, Inside
  <2> QED BY <1>1, <2>1, InsideHolds DEF Holds
<1> QED BY <1>2, <1>3

(* Neither a request that cancels nor a batch has counted anything.         *)
LEMMA CancelTotals ==
  ASSUME NEW t, Stage(t), t.at \in {"write_back", "bulk_cancel"}, Totals(t)
  PROVE  t.fill = None /\ {"market", "shares"} \cap DOMAIN t.w = {}
BY DEF Stage, Totals, Resolving

(* update_status writes CANCELLED. *)
LEMMA WriteBackActive == ASSUME SInv, AInv, NEW s \in Sessions, WriteBack(s) PROVE AInv'
<1>1. tx[s].at = "write_back" /\ Blockers(s) = {} /\ Holds(s) /\ UNCHANGED <<db, trades, book>>
  BY InsideHolds DEF WriteBack, Runs, Inside
<1>2. PICK i \in DOMAIN tx[s].copy :
        tx' = [tx EXCEPT ![s] = Wrote(s, Row(i, [tx[s].copy[i] EXCEPT !.status = "CANCELLED"]),
                                      IF Replacing(s) THEN "check" ELSE "commit")]
  BY DEF WriteBack
<1>3. PICK t, row, at : /\ t = tx[s] /\ row = [t.copy[i] EXCEPT !.status = "CANCELLED"]
                        /\ at = IF Replacing(s) THEN "check" ELSE "commit"
  OBVIOUS
<1>4. PICK w : w = Row(i, row)
  OBVIOUS
<1>5. PICK n : n = Wrote(s, w, at)
  OBVIOUS
<1>6. Moves(s, n)
  BY <1>1, <1>2, <1>3, <1>4, <1>5 DEF Moves
<1>7. n.at = at /\ n.w = Over(w, t.w) /\ n.key = t.key /\ n.id = t.id /\ n.fill = t.fill
  BY <1>3, <1>5, SoundFacts, WroteFacts
<1>8. i \in Ids /\ t.id # i /\ i \notin {"market", "shares"} /\ row.status = "CANCELLED"
  <2>1. PICK old : old = t.copy[i]
    OBVIOUS
  <2>2. i \in Ids /\ Whole(old) /\ t.id # i
    BY <1>2, <1>3, <2>1, CopyFacts
  <2> QED BY <1>3, <2>1, <2>2, Withdraw, RowTypes
<1>9. DOMAIN n.w = {i} \cup DOMAIN t.w /\ n.w[i] = row /\ \A r \in DOMAIN t.w : r # i => n.w[r] = t.w[r]
  <2>1. IsOver(n.w, w, t.w)
    BY <1>7, OverIs
  <2>2. DOMAIN w = {i} /\ w[i] = row
    BY <1>4, RowFacts
  <2> QED BY <2>1, <2>2 DEF IsOver
<1>10. /\ t.fill = None /\ n.fill = None
       /\ t.key # None => t.id \in Ids /\ t.id \notin DOMAIN t.w
       /\ (t.key # None => at = "check") /\ (t.key = None => at = "commit")
  <2>1. t.fill = None
    BY <1>1, <1>3, SoundFacts DEF Stage
  <2>2. t.key # None => t.id \in Ids /\ t.id \notin DOMAIN t.w
    BY <1>1, <1>3, SoundFacts, PlaceFacts DEF Locks
  <2>3. t.copy # Empty
    BY <1>2, <1>3 DEF Empty
  <2> QED BY <1>3, <1>7, <2>1, <2>2, <2>3 DEF Replacing
<1>11. Status(n)
  BY <1>3, <1>7, <1>8, <1>9 DEF AInv, Status
<1>12. ASSUME db["market"].status = "ACTIVE" PROVE Totals(n) /\ Fills(n) /\ Gone(n, book')
  <2>1. Totals(t) /\ Gone(t, book) /\ ~Resolving(t)
    BY <1>1, <1>3, <1>12 DEF AInv, Resolving
  <2>2. {"market", "shares"} \cap DOMAIN t.w = {}
    BY <1>1, <1>3, <2>1, SoundFacts, CancelTotals
  <2>3. {"market", "shares"} \cap DOMAIN n.w = {}
    BY <1>8, <1>9, <2>2
  <2>4. Totals(n)
    BY <1>7, <1>10, <2>3 DEF Totals, Cleared
  <2>5. n.id # None => n.id \notin DOMAIN n.w
    BY <1>3, <1>7, <1>8, <1>9, <1>10, SoundFacts DEF Stage
  <2>6. Fills(n)
    BY <1>3, <1>7, <1>10, <2>5 DEF Fills
  <2>7. \A r \in Sessions : r # s => i \notin DOMAIN tx[r].w
    BY <1>1, <1>2, FreeRows DEF Wants
  <2>8. NotIn(book, i) /\ \A r \in Sessions : tx[r].fill # i
    BY <1>1, <1>2, <1>3, <1>8, <1>10, <1>12, <2>1, <2>7, NobodyFills DEF Gone
  <2>9. ASSUME NEW j \in Ids \cap DOMAIN n.w, j # n.id
        PROVE  n.w[j].status = "CANCELLED" /\ NotIn(book, j) /\ \A r \in Sessions : tx[r].fill # j
    <3>1. CASE j = i
      BY <1>8, <1>9, <2>8, <3>1
    <3>2. CASE j # i
      <4>1. j \in Ids \cap DOMAIN t.w /\ n.w[j] = t.w[j] /\ j \notin {t.id, t.fill}
        BY <1>7, <1>9, <1>10, <2>9, <3>2, KeyFacts
      <4> QED BY <1>1, <1>3, <2>1, <4>1 DEF Gone
    <3> QED BY <3>1, <3>2
  <2>10. n.at \notin {"write_back", "bulk_cancel"} /\ book' = book
    BY <1>1, <1>7, <1>10
  <2>11. Gone(n, book')
    BY <2>9, <2>10 DEF Gone
  <2> QED BY <2>4, <2>6, <2>11
<1>13. Within(book', book)
  BY <1>1, WithinFacts
<1> QED BY <1>1, <1>3, <1>6, <1>7, <1>11, <1>12, <1>13, MoveActive

(* batch_cancel takes its orders from the book and writes CANCELLED. *)
LEMMA BulkCancelActive == ASSUME SInv, AInv, NEW s \in Sessions, BulkCancel(s) PROVE AInv'
<1>1. /\ tx[s].at = "bulk_cancel" /\ Holds(s) /\ UNCHANGED <<db, trades, queue>>
      /\ book' = Dropped(book, DOMAIN tx[s].copy)
  BY DEF BulkCancel
<1>2. PICK t : t = tx[s]
  OBVIOUS
<1>3. PICK w : w = [i \in DOMAIN t.copy |-> [t.w[i] EXCEPT !.status = "CANCELLED"]]
  OBVIOUS
<1>4. PICK n : n = Wrote(s, w, "bulk_unfreeze")
  OBVIOUS
<1>5. Moves(s, n)
  BY <1>1, <1>2, <1>3, <1>4 DEF BulkCancel, Moves
<1>6. n.at = "bulk_unfreeze" /\ n.w = Over(w, t.w) /\ n.key = t.key /\ n.id = t.id /\ n.fill = t.fill
  BY <1>2, <1>4, SoundFacts, WroteFacts
<1>7. t.key = None /\ t.id = None /\ t.fill = None /\ DOMAIN t.copy \subseteq DOMAIN t.w \cap Ids
  BY <1>1, <1>2, SoundFacts, KeyFacts DEF Stage, Shape
<1>8. DOMAIN w = DOMAIN t.copy /\ \A i \in DOMAIN w : w[i].status = "CANCELLED"
  <2>1. ASSUME NEW i \in DOMAIN t.copy PROVE w[i].status = "CANCELLED"
    <3>1. PICK old, new : old = t.w[i] /\ new = [old EXCEPT !.status = "CANCELLED"]
      OBVIOUS
    <3>2. Whole(old)
      BY <1>2, <1>7, <3>1, RowsOfIds
    <3>3. w[i] = new
      BY <1>3, <3>1
    <3> QED BY <3>1, <3>2, <3>3, Withdraw
  <2> QED BY <1>3, <2>1
<1>9. /\ DOMAIN n.w = DOMAIN t.w /\ \A i \in DOMAIN w : n.w[i] = w[i]
      /\ \A r \in DOMAIN t.w : r \notin DOMAIN w => n.w[r] = t.w[r]
  <2>1. IsOver(n.w, w, t.w)
    BY <1>6, OverIs
  <2> QED BY <1>7, <1>8, <2>1 DEF IsOver
<1>10. "market" \notin DOMAIN w
  BY <1>7, <1>8, RowTypes
<1>11. Status(n)
  BY <1>2, <1>6, <1>9, <1>10 DEF AInv, Status
<1>12. ASSUME db["market"].status = "ACTIVE" PROVE Totals(n) /\ Fills(n) /\ Gone(n, book')
  <2>1. Totals(t) /\ Gone(t, book)
    BY <1>2, <1>12 DEF AInv
  <2>2. {"market", "shares"} \cap DOMAIN n.w = {}
    BY <1>1, <1>2, <1>9, <2>1, SoundFacts, CancelTotals
  <2>3. Totals(n) /\ Fills(n)
    BY <1>6, <1>7, <2>2 DEF Totals, Fills, Cleared
  <2>4. ASSUME NEW i \in Ids \cap DOMAIN n.w
        PROVE  n.w[i].status = "CANCELLED" /\ NotIn(book', i) /\ \A r \in Sessions : tx[r].fill # i
    <3>1. i \in DOMAIN t.copy
      BY <1>1, <1>2, <1>9, <2>1 DEF Gone
    <3>2. n.w[i].status = "CANCELLED"
      BY <1>8, <1>9, <3>1
    <3>3. NotIn(book', i)
      BY <1>1, <1>2, <3>1, DroppedOut
    <3>4. \A r \in Sessions : r # s => i \notin DOMAIN tx[r].w
      BY <1>2, <1>9 DEF SInv, Apart
    <3> QED BY <1>1, <1>2, <1>7, <1>12, <3>2, <3>3, <3>4, NobodyFills
  <2>5. Gone(n, book')
    BY <1>6, <2>4 DEF Gone
  <2> QED BY <2>3, <2>5
<1>13. Within(book', book)
  BY <1>1, WithinFacts
<1> QED BY <1>1, <1>2, <1>5, <1>6, <1>11, <1>12, <1>13, MoveActive

(* clear_mint counts the trade and its pair of shares. *)
LEMMA SettleActive == ASSUME SInv, AInv, NEW s \in Sessions, Settle(s) PROVE AInv'
<1>1. tx[s].at = "settle"
  BY DEF Settle, Runs
<1>2. CASE Fail(s)
  BY <1>1, <1>2, EndActive
<1>3. CASE ~Fail(s)
  <2>1. PICK t, i, u : t = tx[s] /\ i = t.id /\ u = t.key
    OBVIOUS
  <2>2. Stage(t) /\ Locks(t) /\ DOMAIN t = Fields
    BY <2>1, SoundFacts
  <2>3. t.fill # None /\ u \in BuyKeys /\ u \notin MakerKeys /\ u # None /\ u \in Users
    <3>1. t.fill # None
      BY <1>1, <2>2, <2>1 DEF Stage
    <3> QED BY <2>1, <3>1, TakerFacts, KeyFacts
  <2>4. /\ i \in Ids /\ i # None /\ i \in DOMAIN t.w /\ DOMAIN t.w \cap Ids \subseteq {i}
        /\ u \notin Ids \cup {"shares", "market"}
        /\ "maker" \notin Ids \cup {"shares", "market"} /\ "shares" \notin Ids /\ "market" \notin Ids
    BY <1>1, <2>1, <2>2, <2>3, PlaceFacts, RowTypes DEF Locks
  <2>5. Whole(t.w[i]) /\ Val(s, i) = t.w[i]
    BY <2>1, <2>4, RowsOfIds DEF Val
  <2>6. PICK paid : paid = [r \in {"maker", u} |-> [Val(s, r) EXCEPT !.frozen = @ - 1]]
    OBVIOUS
  <2>7. PICK row, h : row = [Val(s, i) EXCEPT !.filled = 1, !.status = "FILLED"] /\ h = Val(s, "shares") + 1
    OBVIOUS
  <2>8. PICK w : w = Over(paid, Over(Row("shares", h), Row(i, row)))
    OBVIOUS
  <2>9. PICK a : a = Wrote(s, w, "read_maker")
    OBVIOUS
  <2>10. PICK n : n = [a EXCEPT !.sets = @ + 1]
    OBVIOUS
  <2>11. Moves(s, n) /\ UNCHANGED book
    BY <1>3, <2>1, <2>6, <2>7, <2>8, <2>9, <2>10 DEF Settle, Moves
  <2>12. /\ DOMAIN a = Fields /\ a.at = "read_maker" /\ a.w = Over(w, t.w) /\ a.key = t.key /\ a.id = t.id
         /\ a.fill = t.fill /\ a.sets = t.sets
    BY <2>1, <2>2, <2>9, WroteFacts
  <2>13. /\ n.at = "read_maker" /\ n.w = Over(w, t.w) /\ n.key = t.key /\ n.id = t.id
         /\ n.fill = t.fill /\ n.sets = t.sets + 1
    BY <2>10, <2>12 DEF Fields
  <2>14. DOMAIN w = {"maker", u, "shares", i} /\ w[i] = row /\ w["shares"] = h
    <3>1. PICK v : v = Over(Row("shares", h), Row(i, row))
      OBVIOUS
    <3>2. DOMAIN v = {"shares", i} /\ v["shares"] = h /\ v[i] = row
      BY <2>4, <3>1 DEF Over, Row
    <3> QED BY <2>4, <2>6, <2>8, <3>1, <3>2 DEF Over
  <2>15. /\ DOMAIN n.w = {"maker", u, "shares", i} \cup DOMAIN t.w /\ n.w[i] = row /\ n.w["shares"] = h
         /\ \A r \in DOMAIN t.w : r \notin DOMAIN w => n.w[r] = t.w[r]
    <3>1. IsOver(n.w, w, t.w)
      BY <2>13, OverIs
    <3> QED BY <2>14, <3>1 DEF IsOver
  <2>16. row.filled = 1
    BY <2>5, <2>7 DEF Whole, OrderRow
  <2>17. Status(n)
    <3>1. Status(t)
      BY <2>1 DEF AInv
    <3>2. "market" \in DOMAIN n.w => "market" \in DOMAIN t.w /\ n.w["market"] = t.w["market"]
      BY <2>4, <2>14, <2>15
    <3> QED BY <2>13, <3>1, <3>2 DEF Status
  <2>18. ASSUME db["market"].status = "ACTIVE" PROVE Totals(n) /\ Fills(n) /\ Gone(n, book')
    <3>1. Totals(t) /\ Fills(t) /\ ~Cleared(t) /\ Cleared(n)
      BY <1>1, <2>1, <2>3, <2>13, <2>18 DEF AInv, Cleared
    <3>2. t.sets = Cardinality(trades) /\ "shares" \notin DOMAIN t.w
      BY <1>1, <2>1, <2>3, <3>1 DEF Totals, Ahead
    <3>3. db["shares"] = Cardinality(trades)
      BY <2>18 DEF AInv, NoLostUpdate
    <3>4. h = Cardinality(trades) + 1
      BY <2>1, <2>7, <3>2, <3>3 DEF Val
    <3>5. Ahead(n) = Cardinality(trades) + 1
      BY <3>1 DEF Ahead
    <3>6. Totals(n)
      BY <2>1, <2>3, <2>13, <2>15, <3>1, <3>2, <3>4, <3>5 DEF Totals
    <3>7. Fills(n)
      BY <2>1, <2>3, <2>13, <2>15, <2>16, <3>1 DEF Fills
    <3>8. Ids \cap DOMAIN n.w \subseteq {n.id}
      BY <2>1, <2>4, <2>13, <2>15
    <3>9. Gone(n, book')
      BY <2>13, <3>8 DEF Gone
    <3> QED BY <3>6, <3>7, <3>9
  <2>19. Within(book', book)
    BY <2>11, WithinFacts
  <2> QED BY <1>1, <2>1, <2>11, <2>13, <2>17, <2>18, <2>19, MoveActive
<1> QED BY <1>2, <1>3

(* get_by_id of the matched order finds the committed row. *)
LEMMA ReadMakerActive == ASSUME SInv, AInv, NEW s \in Sessions, ReadMaker(s) PROVE AInv'
<1>1. tx[s].at = "read_maker" /\ UNCHANGED <<db, trades, book, queue>>
  BY DEF ReadMaker, Runs
<1>2. PICK t, i, row : t = tx[s] /\ i = t.fill /\ row = Val(s, i)
  OBVIOUS
<1>3. Stage(t) /\ Locks(t) /\ DOMAIN t = Fields
  BY <1>2, SoundFacts
<1>4. i # None /\ i \in Ids /\ i # t.id /\ t.key \in BuyKeys /\ t.key # None
  <2>1. i # None
    BY <1>1, <1>2, <1>3 DEF Stage
  <2> QED BY <1>2, <2>1, TakerFacts, KeyFacts
<1>5. row = db[i]
  <2>1. i \notin DOMAIN t.w
    BY <1>1, <1>2, <1>3, <1>4 DEF Locks
  <2> QED BY <1>2, <2>1 DEF Val
<1>6. PICK n : n = [t EXCEPT !.at = "write_maker", !.copy = Row(i, row)]
  OBVIOUS
<1>7. /\ n.at = "write_maker" /\ n.key = t.key /\ n.id = t.id /\ n.fill = t.fill
      /\ n.sets = t.sets /\ n.copy = Row(i, row) /\ n.w = t.w
  BY <1>3, <1>6 DEF Fields
<1>8. Moves(s, n)
  BY <1>1, <1>2, <1>6 DEF ReadMaker, Moves
<1>9. Status(n)
  BY <1>2, <1>7 DEF AInv, Status
<1>10. ASSUME db["market"].status = "ACTIVE" PROVE Totals(n) /\ Fills(n) /\ Gone(n, book')
  <2>1. Totals(t) /\ Fills(t) /\ Cleared(t) /\ Cleared(n)
    BY <1>1, <1>2, <1>4, <1>7, <1>10 DEF AInv, Cleared
  <2>2. Ahead(n) = Ahead(t)
    BY <2>1 DEF Ahead
  <2>3. Totals(n)
    BY <1>1, <1>2, <1>4, <1>7, <2>1, <2>2 DEF Totals
  <2>4. n.copy[i] = db[i]
    BY <1>5, <1>7 DEF Row
  <2>5. Fills(n)
    BY <1>2, <1>7, <2>1, <2>4 DEF Fills
  <2>6. Ids \cap DOMAIN n.w \subseteq {n.id}
    BY <1>1, <1>2, <1>3, <1>4, <1>7 DEF Locks
  <2>7. Gone(n, book')
    BY <1>7, <2>6 DEF Gone
  <2> QED BY <2>3, <2>5, <2>7
<1>11. Within(book', book)
  BY <1>1, WithinFacts
<1> QED BY <1>1, <1>2, <1>7, <1>8, <1>9, <1>10, <1>11, MoveActive

(* _update_maker_status counts the fill in the row it has read. *)
LEMMA WriteMakerActive == ASSUME SInv, AInv, NEW s \in Sessions, WriteMaker(s) PROVE AInv'
<1>1. tx[s].at = "write_maker" /\ UNCHANGED <<db, trades, book, queue>>
  BY DEF WriteMaker, Runs
<1>2. PICK t, i, old : t = tx[s] /\ i = t.fill /\ old = t.copy[i]
  OBVIOUS
<1>3. Stage(t) /\ Locks(t) /\ DOMAIN t = Fields
  BY <1>2, SoundFacts
<1>4. i # None /\ i \in Ids /\ i # t.id /\ t.key \in BuyKeys /\ t.key # None /\ i \notin {"market", "shares"}
  <2>1. i # None
    BY <1>1, <1>2, <1>3 DEF Stage
  <2> QED BY <1>2, <2>1, TakerFacts, KeyFacts, RowTypes
<1>5. Whole(old) /\ Remaining(old) \in Nat
  <2>1. i \in DOMAIN t.copy
    BY <1>1, <1>2, <1>3 DEF Stage
  <2> QED BY <1>2, <2>1, CopyFacts
<1>6. PICK st, q : /\ st = IF Remaining(old) <= 1 THEN "FILLED" ELSE "PARTIALLY_FILLED"
                   /\ q = old.filled + 1
  OBVIOUS
<1>7. PICK row : row = [old EXCEPT !.filled = q, !.status = st]
  OBVIOUS
<1>8. PICK w : w = Row(i, row)
  OBVIOUS
<1>9. PICK n : n = Wrote(s, w, "finalize")
  OBVIOUS
<1>10. Moves(s, n)
  BY <1>1, <1>2, <1>6, <1>7, <1>8, <1>9 DEF WriteMaker, Moves
<1>11. /\ n.at = "finalize" /\ n.w = Over(w, t.w) /\ n.key = t.key /\ n.id = t.id
       /\ n.fill = t.fill /\ n.sets = t.sets
  BY <1>2, <1>3, <1>9, WroteFacts
<1>12. row.filled = q /\ row.status = st /\ row.key = old.key
  BY <1>5, <1>7 DEF Whole, OrderRow
<1>13. Active(row) <=> Remaining(row) > 0
  <2>1. Remaining(row) = Remaining(old) - 1
    <3>1. PICK k : k = Quantity(old.key)
      OBVIOUS
    <3>2. Remaining(old) = k - old.filled /\ Remaining(row) = k - (old.filled + 1)
      BY <1>6, <1>12, <3>1 DEF Remaining
    <3>3. k \in Int /\ old.filled \in Int
      BY <1>5, <3>1, KeyFacts DEF Whole, OrderRow
    <3> QED BY <3>2, <3>3
  <2>2. Remaining(row) > 0 <=> ~(Remaining(old) <= 1)
    BY <1>5, <2>1
  <2> QED BY <1>6, <1>12, <2>2 DEF Active
<1>14. DOMAIN n.w = {i} \cup DOMAIN t.w /\ n.w[i] = row /\ \A r \in DOMAIN t.w : r # i => n.w[r] = t.w[r]
  <2>1. IsOver(n.w, w, t.w)
    BY <1>11, OverIs
  <2>2. DOMAIN w = {i} /\ w[i] = row
    BY <1>8, RowFacts
  <2> QED BY <2>1, <2>2 DEF IsOver
<1>15. Status(n)
  <2>1. Status(t)
    BY <1>2 DEF AInv
  <2>2. "market" \in DOMAIN n.w => "market" \in DOMAIN t.w /\ n.w["market"] = t.w["market"]
    BY <1>4, <1>14
  <2> QED BY <1>11, <2>1, <2>2 DEF Status
<1>16. ASSUME db["market"].status = "ACTIVE" PROVE Totals(n) /\ Fills(n) /\ Gone(n, book')
  <2>1. Totals(t) /\ Fills(t) /\ Cleared(t) /\ Cleared(n)
    BY <1>1, <1>2, <1>4, <1>11, <1>16 DEF AInv, Cleared
  <2>2. Ahead(n) = Ahead(t)
    BY <2>1 DEF Ahead
  <2>3. "shares" \in DOMAIN n.w <=> "shares" \in DOMAIN t.w
    BY <1>4, <1>14
  <2>4. "shares" \in DOMAIN t.w => n.w["shares"] = t.w["shares"]
    BY <1>4, <1>14
  <2>5. Totals(n)
    BY <1>1, <1>2, <1>4, <1>11, <2>1, <2>2, <2>3, <2>4 DEF Totals
  <2>6. t.id \in DOMAIN n.w => t.id \in DOMAIN t.w /\ n.w[t.id] = t.w[t.id]
    BY <1>4, <1>14
  <2>7. old = db[i] /\ Active(db[i])
    BY <1>1, <1>2, <1>4, <2>1 DEF Fills
  <2>8. n.w[i].filled = db[i].filled + 1 /\ i \in DOMAIN n.w
    BY <1>6, <1>12, <1>14, <2>7
  <2>9. Fills(n)
    BY <1>2, <1>11, <1>13, <1>14, <2>1, <2>6, <2>7, <2>8 DEF Fills
  <2>10. Ids \cap DOMAIN n.w \subseteq {n.id, n.fill}
    BY <1>1, <1>2, <1>3, <1>4, <1>11, <1>14 DEF Locks
  <2>11. Gone(n, book')
    BY <1>11, <2>10 DEF Gone
  <2> QED BY <2>5, <2>9, <2>11
<1>17. Within(book', book)
  BY <1>1, WithinFacts
<1> QED BY <1>1, <1>2, <1>10, <1>11, <1>15, <1>16, <1>17, MoveActive

(* A statement that may change the book and what is matched: what has to be *)
(* shown of it.                                                             *)
LEMMA StepActive ==
  ASSUME SInv, AInv, NEW s \in Sessions, NEW n, Moves(s, n), Status(n),
         db["market"].status = "ACTIVE" =>
           /\ Totals(n) /\ Fills(n) /\ Gone(n, book)' /\ BookRows'
           /\ \A t \in Sessions : t # s => Gone(tx[t], book)'
  PROVE  AInv'
<1>1. /\ DOMAIN tx' = Sessions /\ tx'[s] = n /\ db' = db /\ trades' = trades
      /\ \A t \in Sessions : t # s => tx'[t] = tx[t]
  BY MoveFacts DEF SInv
<1>2. NoLostUpdate'
  BY <1>1 DEF AInv, NoLostUpdate, TradesOf
<1>3. ASSUME NEW t
      PROVE  (Status(t)' <=> Status(t)) /\ (Totals(t)' <=> Totals(t)) /\ (Fills(t)' <=> Fills(t))
  BY <1>1 DEF Status, Totals, Fills, Ahead, Cleared, Resolving
<1>4. ASSUME NEW t \in Sessions
      PROVE  Status(tx[t])' /\ (db["market"].status = "ACTIVE" => Totals(tx[t])' /\ Fills(tx[t])')
  <2>1. PICK r : r = tx'[t]
    OBVIOUS
  <2>2. Status(r) /\ (db["market"].status = "ACTIVE" => Totals(r) /\ Fills(r))
    BY <1>1, <2>1 DEF AInv
  <2> QED BY <1>3, <2>1, <2>2
<1>5. ASSUME db["market"].status = "ACTIVE", NEW t \in Sessions PROVE Gone(tx[t], book)'
  <2>1. CASE t = s
    BY <1>1, <1>5, <2>1
  <2>2. CASE t # s
    BY <1>5, <2>2
  <2> QED BY <2>1, <2>2
<1> QED BY <1>1, <1>2, <1>4, <1>5 DEF AInv

(* When match_order looks at the book of an active market, what it finds is *)
(* committed.                                                               *)
LEMMA SeesCommitted ==
  ASSUME SInv, AInv, db["market"].status = "ACTIVE", NEW s \in Sessions, Runs(s, "lock_market"),
         NEW k \in 1 .. Len(book)
  PROVE  Active(db[book[k].id]) /\ Remaining(db[book[k].id]) = book[k].qty
<1>1. tx[s].at = "lock_market" /\ Blockers(s) = {} /\ "market" \in Wants(s)
  BY DEF Runs, Wants, MarketSelectLocks
<1>2. book[k].id \in Ids /\ book[k].id # None
  BY BookFacts
<1>3. \A r \in Sessions : tx[r].fill = None
  <2>1. tx[s].fill = None
    BY <1>1, SoundFacts DEF Stage
  <2> QED BY <1>1, <2>1, NobodyMatched
<1>4. ~\E r \in Sessions : tx[r].at = "commit" /\ tx[r].id = book[k].id
  <2> SUFFICES ASSUME NEW r \in Sessions, tx[r].at = "commit", tx[r].id # None PROVE FALSE
    BY <1>2
  <2>1. r # s /\ tx[r].key # None
    BY <1>1, SoundFacts DEF Stage
  <2> QED BY <1>1, <2>1, NobodyMatched
<1> QED BY <1>2, <1>3, <1>4 DEF AInv, BookRows

(* What the lock of the market's row gives: the totals as they are.         *)
LEMMA LockedTotals ==
  ASSUME SInv, AInv, NEW s \in Sessions, Runs(s, "lock_market"), NEW n, NEW w,
         w = [r \in MarketSelectLocks |-> Val(s, r)], n.w = Over(w, tx[s].w),
         n.at \in {"settle", "finalize"}, n.key = tx[s].key, n.id = tx[s].id,
         n.sets = Val(s, "market").sets, n.fill = None \/ n.at = "settle"
  PROVE  /\ DOMAIN n.w \cap Ids = DOMAIN tx[s].w \cap Ids
         /\ \A j \in Ids \cap DOMAIN n.w : n.w[j] = tx[s].w[j]
         /\ Status(n)
         /\ db["market"].status = "ACTIVE" /\ (n.fill # None => Active(db[n.fill])) => Totals(n) /\ Fills(n)
<1>1. PICK t : t = tx[s]
  OBVIOUS
<1>2. t.at = "lock_market" /\ t.key # None /\ t.fill = None /\ t.id \in Ids /\ t.id # None
  BY <1>1, SoundFacts, PlaceFacts DEF Runs, Stage
<1>3. DOMAIN w = {"market"} /\ w["market"] = Val(s, "market") /\ "market" \notin Ids
  BY RowTypes DEF MarketSelectLocks
<1>4. /\ DOMAIN n.w = {"market"} \cup DOMAIN t.w /\ n.w["market"] = Val(s, "market")
      /\ \A r \in DOMAIN t.w : r # "market" => n.w[r] = t.w[r]
  <2>1. IsOver(n.w, w, t.w)
    BY <1>1, OverIs
  <2> QED BY <1>3, <2>1 DEF IsOver
<1>5. DOMAIN n.w \cap Ids = DOMAIN t.w \cap Ids /\ \A j \in Ids \cap DOMAIN n.w : n.w[j] = t.w[j]
  BY <1>3, <1>4
<1>6. Status(n)
  <2>1. Status(t)
    BY <1>1 DEF AInv
  <2> QED BY <1>1, <1>2, <1>4, <2>1 DEF Status, Val
<1>7. ASSUME db["market"].status = "ACTIVE", n.fill # None => Active(db[n.fill]) PROVE Totals(n) /\ Fills(n)
  <2>1. Totals(t) /\ Fills(t) /\ ~Cleared(t) /\ ~Cleared(n) /\ ~Resolving(t)
    BY <1>1, <1>2, <1>7 DEF AInv, Cleared, Resolving
  <2>2. {"market", "shares"} \cap DOMAIN t.w = {}
    BY <1>2, <2>1 DEF Totals
  <2>3. n.sets = Cardinality(trades)
    BY <1>1, <1>7, <2>2 DEF AInv, NoLostUpdate, Val
  <2>4. Totals(n)
    BY <1>1, <1>2, <1>4, <2>1, <2>2, <2>3 DEF Totals, Ahead
  <2>5. n.id \in DOMAIN n.w => n.id \in DOMAIN t.w /\ n.w[n.id] = t.w[t.id]
    BY <1>1, <1>2, <1>5
  <2>6. Fills(n)
    BY <1>1, <1>2, <1>7, <2>1, <2>5 DEF Fills
  <2> QED BY <2>4, <2>6
<1> QED BY <1>1, <1>5, <1>6, <1>7

(* SELECT ... FOR UPDATE of the market and match_order. *)
LEMMA LockAndMatchActive == ASSUME SInv, AInv, NEW s \in Sessions, LockAndMatch(s) PROVE AInv'
<1>1. Runs(s, "lock_market") /\ tx[s].at = "lock_market" /\ UNCHANGED <<db, trades>>
  BY DEF LockAndMatch, Runs
<1>2. PICK t, w, m : t = tx[s] /\ w = [r \in MarketSelectLocks |-> Val(s, r)] /\ m = Val(s, "market").sets
  OBVIOUS
<1>3. PICK a : a = Wrote(s, w, "finalize")
  OBVIOUS
<1>4. PICK b : b = [a EXCEPT !.sets = m]
  OBVIOUS
<1>5. /\ DOMAIN a = Fields /\ a.at = "finalize" /\ a.w = Over(w, t.w) /\ a.key = t.key /\ a.id = t.id
      /\ a.fill = t.fill
  BY <1>2, <1>3, SoundFacts, WroteFacts
<1>6. /\ DOMAIN b = Fields /\ b.at = "finalize" /\ b.w = Over(w, t.w) /\ b.key = t.key /\ b.id = t.id
      /\ b.fill = t.fill /\ b.sets = m
  BY <1>4, <1>5 DEF Fields
<1>7. t.fill = None /\ Locks(t)
  BY <1>1, <1>2, SoundFacts DEF Stage
<1>8. IF t.key \in BuyKeys /\ book # <<>>
      THEN /\ tx' = [tx EXCEPT ![s] = [b EXCEPT !.at = "settle", !.fill = Head(book).id]]
           /\ book' = IF Head(book).qty = 1 THEN Tail(book) ELSE [book EXCEPT ![1].qty = @ - 1]
      ELSE tx' = [tx EXCEPT ![s] = b] /\ UNCHANGED book
  BY <1>2, <1>3, <1>4 DEF LockAndMatch
<1>9. CASE ~(t.key \in BuyKeys /\ book # <<>>)
  <2>1. Moves(s, b) /\ book' = book
    BY <1>1, <1>8, <1>9 DEF Moves
  <2>2. /\ DOMAIN b.w \cap Ids = DOMAIN t.w \cap Ids /\ \A j \in Ids \cap DOMAIN b.w : b.w[j] = t.w[j]
        /\ Status(b) /\ (db["market"].status = "ACTIVE" => Totals(b) /\ Fills(b))
    BY <1>1, <1>2, <1>6, <1>7, LockedTotals
  <2>3. ASSUME db["market"].status = "ACTIVE" PROVE Gone(b, book')
    <3>1. Gone(t, book) /\ ~Resolving(t)
      BY <1>1, <1>2, <2>3 DEF AInv, Resolving
    <3> QED BY <1>1, <1>2, <1>6, <2>1, <2>2, <3>1 DEF Gone
  <2>4. Within(book', book)
    BY <2>1, WithinFacts
  <2> QED BY <1>1, <1>2, <1>6, <2>1, <2>2, <2>3, <2>4, MoveActive
<1>10. CASE t.key \in BuyKeys /\ book # <<>>
  <2>1. PICK h, c : h = book[1].id /\ c = book'
    OBVIOUS
  <2>2. PICK n : n = [b EXCEPT !.at = "settle", !.fill = h]
    OBVIOUS
  <2>3. /\ n.at = "settle" /\ n.w = Over(w, t.w) /\ n.key = t.key /\ n.id = t.id /\ n.fill = h /\ n.sets = m
    BY <1>6, <2>2 DEF Fields
  <2>4. /\ Head(book) = book[1] /\ 1 \in 1 .. Len(book)
        /\ \A j \in 1 .. Len(c) : \E k \in 1 .. Len(book) :
             /\ c[j].id = book[k].id
             /\ IF k = 1 THEN c[j].qty = book[k].qty - 1 ELSE c[j].qty = book[k].qty
    BY <1>8, <1>10, <2>1, HeadTaken
  <2>5. Moves(s, n)
    BY <1>1, <1>8, <1>10, <2>1, <2>2, <2>4 DEF Moves
  <2>6. \A r \in Sessions : r # s => tx[r].fill = None
    BY <1>1, NobodyMatched DEF Runs, Wants, MarketSelectLocks
  <2>7. /\ DOMAIN tx' = Sessions /\ tx'[s] = n /\ db' = db /\ \A r \in Sessions : r # s => tx'[r] = tx[r]
    BY <2>5, MoveFacts DEF SInv
  <2>8. h \in Ids /\ h # None /\ \A k \in 1 .. Len(book) : book[k].id \in Ids /\ book[k].id # None
    BY <2>1, <2>4, BookFacts
  <2>9. /\ DOMAIN n.w \cap Ids = DOMAIN t.w \cap Ids
        /\ Status(n)
        /\ db["market"].status = "ACTIVE" /\ (n.fill # None => Active(db[n.fill])) => Totals(n) /\ Fills(n)
    BY <1>1, <1>2, <2>3, LockedTotals
  <2>10. ASSUME db["market"].status = "ACTIVE"
         PROVE  /\ Totals(n) /\ Fills(n) /\ Gone(n, book)' /\ BookRows'
                /\ \A r \in Sessions : r # s => Gone(tx[r], book)'
    <3>1. \A k \in 1 .. Len(book) : Active(db[book[k].id]) /\ Remaining(db[book[k].id]) = book[k].qty
      BY <1>1, <2>10, SeesCommitted
    <3>2. Totals(n) /\ Fills(n)
      BY <2>1, <2>3, <2>4, <2>9, <2>10, <3>1
    <3>3. Ids \cap DOMAIN n.w \subseteq {n.id}
      BY <1>1, <1>2, <1>7, <1>10, <2>3, <2>9 DEF Locks
    <3>4. Gone(n, book)'
      BY <2>3, <3>3 DEF Gone
    <3>5. ASSUME NEW i, NotIn(book, i) PROVE NotIn(c, i) /\ i # h
      BY <2>1, <2>4, <3>5 DEF NotIn
    <3>6. ASSUME NEW r \in Sessions, r # s PROVE Gone(tx[r], book)'
      <4>1. PICK x : x = tx[r]
        OBVIOUS
      <4>2. Gone(x, book)
        BY <2>10, <4>1 DEF AInv
      <4>3. ASSUME NEW i, NotIn(book, i) PROVE NotIn(book', i) /\ \A y \in Sessions : tx[y].fill # i => tx'[y].fill # i
        <5>1. NotIn(book', i) /\ i # h
          BY <2>1, <3>5, <4>3
        <5> QED BY <2>3, <2>7, <5>1
      <4>4. Gone(x, book)'
        BY <4>2, <4>3 DEF Gone, Resolving
      <4> QED BY <2>7, <3>6, <4>1, <4>4
    <3>7. BookRows'
      <4>1. ASSUME NEW j \in 1 .. Len(c), NEW i, i = c[j].id
            PROVE  \/ Active(db[i]) /\ Remaining(db[i]) = c[j].qty + 1 /\ \E r \in Sessions : tx'[r].fill = i
                   \/ Active(db[i]) /\ Remaining(db[i]) = c[j].qty /\ \A r \in Sessions : tx'[r].fill # i
        <5>1. PICK k \in 1 .. Len(book) :
                /\ i = book[k].id
                /\ IF k = 1 THEN c[j].qty = book[k].qty - 1 ELSE c[j].qty = book[k].qty
          BY <2>4, <4>1
        <5>2. Active(db[i]) /\ Remaining(db[i]) = book[k].qty /\ book[k].qty \in Int
          BY <3>1, <5>1, BookFacts
        <5>3. CASE k = 1
          BY <2>1, <2>3, <2>7, <5>1, <5>2, <5>3
        <5>4. CASE k # 1
          <6>1. i # h
            BY <2>1, <2>4, <5>1, <5>4 DEF SInv, BookOK
          <6>2. \A r \in Sessions : tx'[r].fill # i
            BY <2>3, <2>6, <2>7, <2>8, <5>1, <6>1
          <6> QED BY <5>1, <5>2, <5>4, <6>2
        <5> QED BY <5>3, <5>4
      <4> QED BY <2>1, <2>7, <4>1 DEF BookRows
    <3> QED BY <3>2, <3>4, <3>6, <3>7
  <2> QED BY <2>5, <2>9, <2>10, StepActive
<1> QED BY <1>9, <1>10

(* What _finalize_order writes: the total it has in memory, and CANCELLED   *)
(* for a taker that found nothing.                                          *)
LEMMA FinalizeWrites ==
  ASSUME SInv, NEW s \in Sessions, tx[s].at = "finalize", NEW n, NEW w, n.w = Over(w, tx[s].w),
         NEW market, NEW expired, market = Row("market", [Val(s, "market") EXCEPT !.sets = tx[s].sets]),
         expired = Over(Row(tx[s].id, [Val(s, tx[s].id) EXCEPT !.status = "CANCELLED"]),
                        Row(tx[s].key, Unfrozen(Val(s, tx[s].key), 1))),
         w = IF tx[s].key \in BuyKeys /\ Active(Val(s, tx[s].id)) THEN Over(market, expired) ELSE market
  PROVE  /\ "market" \in DOMAIN tx[s].w /\ "market" \in DOMAIN n.w
         /\ n.w["market"].sets = tx[s].sets /\ n.w["market"].status = tx[s].w["market"].status
         /\ "shares" \in DOMAIN tx[s].w => "shares" \in DOMAIN n.w /\ n.w["shares"] = tx[s].w["shares"]
         /\ \A j \in Ids \cap DOMAIN n.w : j # tx[s].id => j \in DOMAIN tx[s].w /\ n.w[j] = tx[s].w[j]
         /\ tx[s].key \in MakerKeys => n.w[tx[s].id] = tx[s].w[tx[s].id]
<1>1. PICK t, i, u : t = tx[s] /\ i = t.id /\ u = t.key
  OBVIOUS
<1>2. u \in Keys /\ u # None /\ i \in Ids /\ i \notin {"market", "shares"} /\ i \notin Users /\ "market" \in DOMAIN t.w
  BY <1>1, PlaceFacts, SoundFacts, RowTypes DEF Locks
<1>3. IsOver(n.w, w, t.w)
  BY <1>1, OverIs
<1>4. PICK m, k : m = Val(s, "market") /\ k = t.sets
  OBVIOUS
<1>5. m = t.w["market"] /\ m \in [status : {"ACTIVE", "SETTLED"}, sets : Nat]
  BY <1>1, <1>2, <1>4, ReadFacts, RowTypes DEF Val
<1>6. DOMAIN market = {"market"} /\ market["market"] = [m EXCEPT !.sets = k]
  BY <1>1, <1>4 DEF Row
<1>7. market["market"].sets = k /\ market["market"].status = m.status
  BY <1>5, <1>6
<1>8. CASE ~(u \in BuyKeys /\ Active(Val(s, i)))
  <2>1. w = market
    BY <1>1, <1>8
  <2>2. n.w["market"] = market["market"] /\ "market" \in DOMAIN n.w
    BY <1>3, <1>6, <2>1 DEF IsOver
  <2>3. DOMAIN n.w = DOMAIN t.w /\ \A r \in DOMAIN t.w : r # "market" => n.w[r] = t.w[r]
    <3>1. DOMAIN n.w = {"market"} \cup DOMAIN t.w
      BY <1>3, <1>6, <2>1 DEF IsOver
    <3>2. \A r \in DOMAIN t.w : r # "market" => n.w[r] = t.w[r]
      BY <1>3, <1>6, <2>1 DEF IsOver
    <3> QED BY <1>2, <3>1, <3>2
  <2>4. i \in DOMAIN t.w
    BY <1>1, <1>2, SoundFacts DEF Locks
  <2>5. \A j \in Ids : j # "market"
    BY RowTypes
  <2>6. \A j \in Ids \cap DOMAIN n.w : j \in DOMAIN t.w /\ n.w[j] = t.w[j]
    BY <2>3, <2>5
  <2> QED BY <1>1, <1>2, <1>4, <1>5, <1>7, <2>2, <2>3, <2>4, <2>6
<1>9. CASE u \in BuyKeys /\ Active(Val(s, i))
  <2>1. w = Over(market, expired)
    BY <1>1, <1>9
  <2>2. u \in Users /\ u \notin Ids \cup {"market", "shares"} /\ u \notin MakerKeys
    BY <1>9, KeyFacts, RowTypes
  <2>3. PICK f, g : /\ f = Row(i, [Val(s, i) EXCEPT !.status = "CANCELLED"])
                    /\ g = Row(u, Unfrozen(Val(s, u), 1))
    OBVIOUS
  <2>4. IsOver(expired, f, g) /\ IsOver(w, market, expired)
    BY <1>1, <2>1, <2>3, OverIs
  <2>5. DOMAIN f = {i} /\ DOMAIN g = {u}
    BY <2>3, RowFacts
  <2>6. DOMAIN w = {"market", i, u} /\ w["market"] = market["market"]
    BY <1>6, <2>4, <2>5 DEF IsOver
  <2>7. n.w["market"] = market["market"] /\ "market" \in DOMAIN n.w
    BY <1>3, <2>6 DEF IsOver
  <2>8. /\ DOMAIN n.w = {"market", i, u} \cup DOMAIN t.w
        /\ \A r \in DOMAIN t.w : r \notin {"market", i, u} => n.w[r] = t.w[r]
    BY <1>3, <2>6 DEF IsOver
  <2>9. \A j \in Ids \cap DOMAIN n.w : j # i => j \in DOMAIN t.w /\ n.w[j] = t.w[j]
    <3>1. \A j \in Ids : j # "market" /\ j # u
      BY <2>2, RowTypes
    <3> QED BY <2>8, <3>1
  <2>10. /\ "shares" \in DOMAIN n.w => "shares" \in DOMAIN t.w
         /\ "shares" \in DOMAIN t.w => "shares" \in DOMAIN n.w /\ n.w["shares"] = t.w["shares"]
    BY <1>2, <2>2, <2>8
  <2> QED BY <1>1, <1>2, <1>4, <1>5, <1>7, <2>2, <2>7, <2>8, <2>9, <2>10
<1> QED BY <1>8, <1>9

(* _finalize_order, update_market_state and the end of the lock. *)
LEMMA FinalizeActive == ASSUME SInv, AInv, NEW s \in Sessions, Finalize(s) PROVE AInv'
<1>1. tx[s].at = "finalize" /\ UNCHANGED <<db, trades>>
  BY DEF Finalize, Runs
<1>2. PICK t, row : t = tx[s] /\ row = Val(s, t.id)
  OBVIOUS
<1>3. PICK market, expired :
        /\ market = Row("market", [Val(s, "market") EXCEPT !.sets = t.sets])
        /\ expired = Over(Row(t.id, [row EXCEPT !.status = "CANCELLED"]), Row(t.key, Unfrozen(Val(s, t.key), 1)))
  OBVIOUS
<1>4. PICK w : w = IF t.key \in BuyKeys /\ Active(row) THEN Over(market, expired) ELSE market
  OBVIOUS
<1>5. PICK n : n = Wrote(s, w, "commit")
  OBVIOUS
<1>6. /\ book' = IF t.key \in MakerKeys THEN Append(book, [id |-> t.id, qty |-> Lot]) ELSE book
      /\ Moves(s, n)
  BY <1>1, <1>2, <1>3, <1>4, <1>5 DEF Finalize, Moves
<1>7. /\ DOMAIN n = Fields /\ n.at = "commit" /\ n.w = Over(w, t.w) /\ n.key = t.key /\ n.id = t.id
      /\ n.fill = t.fill /\ n.sets = t.sets /\ n.paid = t.paid /\ n.copy = t.copy
  BY <1>2, <1>5, SoundFacts, WroteFacts
<1>8. /\ DOMAIN n.w = DOMAIN t.w
      /\ \A j \in Ids \cap DOMAIN n.w : n.w[j].filled = t.w[j].filled
      /\ "market" \in DOMAIN t.w /\ "market" \in DOMAIN n.w
      /\ n.w["market"].sets = t.sets /\ n.w["market"].status = t.w["market"].status
      /\ "shares" \in DOMAIN t.w => n.w["shares"] = t.w["shares"]
      /\ \A j \in Ids \cap DOMAIN n.w : j # t.id => n.w[j] = t.w[j]
      /\ t.key \in MakerKeys => n.w[t.id] = t.w[t.id]
  <2>1. /\ market = Row("market", [Val(s, "market") EXCEPT !.sets = tx[s].sets])
        /\ expired = Over(Row(tx[s].id, [Val(s, tx[s].id) EXCEPT !.status = "CANCELLED"]),
                          Row(tx[s].key, Unfrozen(Val(s, tx[s].key), 1)))
        /\ w = IF tx[s].key \in BuyKeys /\ Active(Val(s, tx[s].id)) THEN Over(market, expired) ELSE market
    BY <1>2, <1>3, <1>4
  <2>2. /\ n.w = Over(w, tx[s].w) /\ n.key = tx[s].key /\ n.id = tx[s].id /\ n.fill = tx[s].fill
        /\ n.sets = tx[s].sets /\ n.paid = tx[s].paid /\ n.copy = tx[s].copy
    BY <1>2, <1>7
  <2>3. DOMAIN n.w = DOMAIN t.w /\ \A j \in Ids \cap DOMAIN n.w : n.w[j].filled = t.w[j].filled
    BY <1>1, <1>2, <1>7, <2>1, <2>2, FinalizeFacts
  <2>4. /\ "market" \in DOMAIN t.w /\ "market" \in DOMAIN n.w
        /\ n.w["market"].sets = t.sets /\ n.w["market"].status = t.w["market"].status
        /\ "shares" \in DOMAIN t.w => n.w["shares"] = t.w["shares"]
        /\ \A j \in Ids \cap DOMAIN n.w : j # t.id => n.w[j] = t.w[j]
        /\ t.key \in MakerKeys => n.w[t.id] = t.w[t.id]
    BY <1>1, <1>2, <2>1, <2>2, FinalizeWrites
  <2> QED BY <2>3, <2>4
<1>9. t.key # None /\ t.id \in Ids /\ t.id # None /\ t.id \in DOMAIN t.w /\ ~IsOrder(db[t.id])
      /\ (t.fill # None => t.fill # t.id)
  BY <1>1, <1>2, PlaceFacts, SoundFacts, TakerFacts DEF Locks
<1>10. Status(n)
  <2>1. Status(t)
    BY <1>2 DEF AInv
  <2> QED BY <1>7, <1>8, <2>1 DEF Status
<1>11. ASSUME db["market"].status = "ACTIVE"
       PROVE  /\ Totals(t) /\ Fills(t) /\ Gone(t, book) /\ ~Resolving(t) /\ Totals(n) /\ Fills(n)
  <2>1. Totals(t) /\ Fills(t) /\ Gone(t, book) /\ ~Resolving(t)
    BY <1>1, <1>2, <1>11 DEF AInv, Resolving
  <2>2. (Cleared(n) <=> Cleared(t)) /\ Ahead(n) = Ahead(t)
    BY <1>1, <1>2, <1>7 DEF Cleared, Ahead
  <2>3. Totals(n)
    <3>1. t.sets = Ahead(t) /\ ("shares" \in DOMAIN t.w => Cleared(t))
      BY <1>1, <1>2, <1>9, <2>1 DEF Totals
    <3>2. Cleared(t) => "shares" \in DOMAIN t.w /\ t.w["shares"] = Ahead(t)
      BY <2>1 DEF Totals
    <3> QED BY <1>7, <1>8, <1>9, <2>2, <3>1, <3>2 DEF Totals
  <2>4. Fills(n)
    <3>1. /\ n.w[n.id].filled = IF Cleared(n) THEN 1 ELSE 0
          /\ n.key \in MakerKeys => n.w[n.id].status = "OPEN"
      BY <1>7, <1>8, <1>9, <2>1, <2>2 DEF Fills
    <3>2. n.fill # None => Active(db[n.fill])
      BY <1>7, <2>1 DEF Fills
    <3>3. ASSUME n.fill # None
          PROVE  /\ n.fill \in DOMAIN n.w /\ n.w[n.fill].filled = db[n.fill].filled + 1
                 /\ Active(n.w[n.fill]) <=> Remaining(n.w[n.fill]) > 0
      <4>1. n.fill \in Ids /\ n.fill # t.id
        BY <1>2, <1>7, <1>9, <3>3, TakerFacts
      <4>2. /\ t.fill \in DOMAIN t.w /\ t.w[t.fill].filled = db[t.fill].filled + 1
            /\ Active(t.w[t.fill]) <=> Remaining(t.w[t.fill]) > 0
        BY <1>1, <1>2, <1>7, <2>1, <3>3 DEF Fills
      <4> QED BY <1>7, <1>8, <4>1, <4>2
    <3> QED BY <1>7, <3>1, <3>2, <3>3 DEF Fills
  <2> QED BY <2>1, <2>3, <2>4
<1>12. CASE t.key \notin MakerKeys
  <2>1. Within(book', book) /\ book' = book
    BY <1>6, <1>12, WithinFacts
  <2>2. ASSUME db["market"].status = "ACTIVE" PROVE Gone(n, book')
    <3>1. Gone(t, book) /\ ~Resolving(t)
      BY <1>11, <2>2
    <3>2. \A j \in Ids \cap DOMAIN n.w : j \notin {n.id, n.fill} =>
            j \in DOMAIN t.w /\ n.w[j] = t.w[j] /\ j \notin {t.id, t.fill}
      BY <1>7, <1>8
    <3> QED BY <1>1, <1>2, <1>7, <2>1, <3>1, <3>2 DEF Gone
  <2> QED BY <1>1, <1>2, <1>6, <1>7, <1>10, <1>11, <2>1, <2>2, MoveActive
<1>13. CASE t.key \in MakerKeys
  <2>1. PICK i, o, c : i = t.id /\ o = [id |-> i, qty |-> Lot] /\ c = book'
    OBVIOUS
  <2>2. t.fill = None
    BY <1>2, <1>13, SoundFacts, KeyFacts DEF Stage
  <2>3. /\ DOMAIN tx' = Sessions /\ tx'[s] = n /\ db' = db /\ \A r \in Sessions : r # s => tx'[r] = tx[r]
    BY <1>6, MoveFacts DEF SInv
  <2>4. \A k \in 1 .. Len(c) : (k \in 1 .. Len(book) /\ c[k] = book[k]) \/ c[k] = o
    <3> DEFINE T == [id : Ids, qty : 1 .. Lot]
    <3>1. book \in Seq(T) /\ o \in T
      BY <1>9, <2>1, KeyFacts DEF SInv, BookOK
    <3> HIDE DEF T
    <3>2. c = Append(book, o)
      BY <1>6, <1>13, <2>1
    <3> QED BY <3>1, <3>2
  <2>5. o.id = i /\ o.qty = Lot
    BY <2>1
  <2>6. \A r \in Sessions : tx'[r].fill = tx[r].fill
    BY <1>2, <1>7, <2>3
  <2>7. ASSUME NEW j, j # i, NotIn(book, j) PROVE NotIn(book', j)
    BY <2>1, <2>4, <2>5, <2>7 DEF NotIn
  <2>8. ASSUME db["market"].status = "ACTIVE"
        PROVE  Gone(n, book)' /\ BookRows' /\ \A r \in Sessions : r # s => Gone(tx[r], book)'
    <3>1. Gone(n, book)'
      <4>1. Gone(t, book) /\ ~Resolving(t)
        BY <1>11, <2>8
      <4>2. ASSUME NEW j \in Ids \cap DOMAIN n.w, j \notin {n.id, n.fill}
            PROVE  n.w[j].status = "CANCELLED" /\ NotIn(book', j) /\ \A r \in Sessions : tx'[r].fill # j
        <5>1. j \in Ids \cap DOMAIN t.w /\ n.w[j] = t.w[j] /\ j \notin {t.id, t.fill} /\ j # i
          BY <1>7, <1>8, <2>1, <4>2
        <5> QED BY <1>1, <1>2, <2>6, <2>7, <4>1, <5>1 DEF Gone
      <4> QED BY <1>7, <4>2 DEF Gone
    <3>2. ASSUME NEW r \in Sessions, r # s PROVE Gone(tx[r], book)'
      <4>1. PICK x : x = tx[r]
        OBVIOUS
      <4>2. Gone(x, book)
        BY <2>8, <4>1 DEF AInv
      <4>3. \A j \in Ids \cap DOMAIN x.w : j # i
        BY <1>2, <1>9, <2>1, <3>2, <4>1 DEF SInv, Apart
      <4>4. \A j \in DOMAIN x.copy : j # i
        BY <1>9, <2>1, <4>1, CopyFacts
      <4>5. Gone(x, book)'
        BY <2>6, <2>7, <4>2, <4>3, <4>4 DEF Gone, Resolving
      <4> QED BY <2>3, <3>2, <4>1, <4>5
    <3>3. BookRows'
      <4>1. ASSUME NEW k \in 1 .. Len(c), NEW j, j = c[k].id
            PROVE  \/ c[k].qty = Lot /\ \E r \in Sessions : tx'[r].at = "commit" /\ tx'[r].id = j
                   \/ Active(db[j]) /\ Remaining(db[j]) = c[k].qty + 1 /\ \E r \in Sessions : tx'[r].fill = j
                   \/ Active(db[j]) /\ Remaining(db[j]) = c[k].qty /\ \A r \in Sessions : tx'[r].fill # j
        <5>1. CASE c[k] = o
          BY <1>7, <2>1, <2>3, <2>5, <4>1, <5>1
        <5>2. CASE k \in 1 .. Len(book) /\ c[k] = book[k]
          <6>1. \/ c[k].qty = Lot /\ \E r \in Sessions : tx[r].at = "commit" /\ tx[r].id = j
                \/ Active(db[j]) /\ Remaining(db[j]) = c[k].qty + 1 /\ \E r \in Sessions : tx[r].fill = j
                \/ Active(db[j]) /\ Remaining(db[j]) = c[k].qty /\ \A r \in Sessions : tx[r].fill # j
            BY <2>8, <4>1, <5>2 DEF AInv, BookRows
          <6>2. ASSUME NEW r \in Sessions, tx[r].at = "commit", tx[r].id = j
                PROVE  tx'[r].at = "commit" /\ tx'[r].id = j
            BY <1>1, <2>3, <6>2
          <6> QED BY <2>6, <6>1, <6>2
        <5> QED BY <2>4, <5>1, <5>2
      <4> QED BY <2>1, <2>3, <4>1 DEF BookRows
    <3> QED BY <3>1, <3>2, <3>3
  <2> QED BY <1>6, <1>10, <1>11, <2>8, StepActive
<1> QED BY <1>12, <1>13

(* There are finitely many trades. *)
LEMMA FiniteTrades == ASSUME SInv PROVE IsFiniteSet(trades) /\ \A i : IsFiniteSet(TradesOf(i))
<1>1. IsFiniteSet(Ids \X Ids)
  BY IdsAssumption, FS_Product
<1>2. trades \in SUBSET (Ids \X Ids)
  BY DEF SInv, Committed
<1>3. IsFiniteSet(trades)
  BY <1>1, <1>2, FS_Subset
<1>4. \A i : TradesOf(i) \in SUBSET trades
  BY DEF TradesOf
<1> QED BY <1>3, <1>4, FS_Subset

(* A trade of a new order counts once, for it and for the order it took.    *)
LEMMA NewTrade ==
  ASSUME SInv, NEW f \in Ids, NEW i \in Ids, f # i, ~IsOrder(db[i]), trades' = trades \cup {<<f, i>>}
  PROVE  /\ Cardinality(trades') = Cardinality(trades) + 1
         /\ Cardinality(TradesOf(i)') = 1
         /\ Cardinality(TradesOf(f)') = Cardinality(TradesOf(f)) + 1
         /\ \A j : j \notin {f, i} => TradesOf(j)' = TradesOf(j)
<1>1. PICK x : x = <<f, i>>
  OBVIOUS
<1>2. x[1] = f /\ x[2] = i /\ trades' = trades \cup {x}
  BY <1>1
<1>3. \A t \in trades : i \notin {t[1], t[2]}
  BY DEF SInv, Committed
<1>4. x \notin trades /\ x \notin TradesOf(f)
  BY <1>2, <1>3 DEF TradesOf
<1>5. TradesOf(i)' = {x}
  BY <1>2, <1>3 DEF TradesOf
<1>6. TradesOf(f)' = TradesOf(f) \cup {x}
  BY <1>2 DEF TradesOf
<1>7. \A j : j \notin {f, i} => TradesOf(j)' = TradesOf(j)
  BY <1>2 DEF TradesOf
<1>8. Cardinality(trades') = Cardinality(trades) + 1
  BY <1>2, <1>4, FiniteTrades, FS_AddElement
<1>9. Cardinality(TradesOf(f)') = Cardinality(TradesOf(f)) + 1
  BY <1>4, <1>6, FiniteTrades, FS_AddElement
<1>10. Cardinality(TradesOf(i)') = 1
  BY <1>5, FS_Singleton
<1> QED BY <1>7, <1>8, <1>9, <1>10

(* A new order has no trades. *)
LEMMA NoTrades == ASSUME SInv, NEW i \in Ids, ~IsOrder(db[i]) PROVE Cardinality(TradesOf(i)) = 0
<1>1. TradesOf(i) = {}
  BY DEF SInv, Committed, TradesOf
<1> QED BY <1>1, FS_EmptySet

(* Whatever is committed, the market was active if it is.                   *)
LEMMA StillActive ==
  ASSUME SInv, AInv, NEW s \in Sessions, NEW d, d = Over(tx[s].w, db), d["market"].status = "ACTIVE",
         tx[s].at = "commit"
  PROVE  /\ db["market"].status = "ACTIVE" /\ ~Resolving(tx[s])
         /\ Totals(tx[s]) /\ Fills(tx[s]) /\ Gone(tx[s], book)
<1>1. PICK t : t = tx[s]
  OBVIOUS
<1>2. Status(t)
  BY <1>1 DEF AInv
<1>3. /\ "market" \in DOMAIN t.w => d["market"] = t.w["market"]
      /\ "market" \notin DOMAIN t.w => d["market"] = db["market"]
  BY <1>1, CommitRows, RowTypes
<1>4. db["market"].status = "ACTIVE" /\ ~Resolving(t)
  <2>1. CASE "market" \in DOMAIN t.w
    <3>1. d["market"].status = IF t.key = None THEN "SETTLED" ELSE db["market"].status
      BY <1>2, <1>3, <2>1 DEF Status
    <3>2. t.key # None
      BY <3>1
    <3> QED BY <1>1, <3>1, <3>2 DEF Resolving
  <2>2. CASE "market" \notin DOMAIN t.w
    BY <1>1, <1>3, <2>2 DEF Resolving
  <2> QED BY <2>1, <2>2
<1> QED BY <1>1, <1>4 DEF AInv

(* A commit counts the trade in every row that tells of it.                 *)
LEMMA CommitCounts ==
  ASSUME SInv, AInv, NEW s \in Sessions, Commit(s) PROVE NoLostUpdate'
<1>1. PICK t, d : t = tx[s] /\ d = Over(t.w, db)
  OBVIOUS
<1>2. t.at = "commit" /\ db' = d /\ trades' = IF t.fill = None THEN trades ELSE trades \cup {<<t.fill, t.id>>}
  BY <1>1 DEF Commit
<1>3. Shape(t) /\ Stage(t) /\ Locks(t) /\ Knows(t)
  BY <1>1, SoundFacts
<1>4. /\ \A r \in DOMAIN t.w : d[r] = t.w[r]
      /\ \A r \in Rows : r \notin DOMAIN t.w => d[r] = db[r]
      /\ \A i \in Ids : IsOrder(d[i]) => IsOrder(db[i]) \/ (i = t.id /\ i \in DOMAIN t.w)
  BY <1>1, <1>2, CommitRows
<1> SUFFICES ASSUME d["market"].status = "ACTIVE"
             PROVE  /\ d["market"].sets = Cardinality(trades') /\ d["shares"] = Cardinality(trades')
                    /\ \A i \in Ids : IsOrder(d[i]) /\ d[i].status # "CANCELLED" =>
                                        d[i].filled = Cardinality(TradesOf(i)')
  BY <1>2 DEF NoLostUpdate
<1>5. db["market"].status = "ACTIVE" /\ ~Resolving(t) /\ Totals(t) /\ Fills(t) /\ Gone(t, book)
  BY <1>1, <1>2, StillActive
<1>6. /\ db["market"].sets = Cardinality(trades) /\ db["shares"] = Cardinality(trades)
      /\ \A i \in Ids : IsOrder(db[i]) /\ db[i].status # "CANCELLED" =>
                          db[i].filled = Cardinality(TradesOf(i))
  BY <1>5 DEF AInv, NoLostUpdate
<1>7. "market" \in Rows /\ "shares" \in Rows /\ Ids \subseteq Rows
  BY RowTypes
<1>8. Cleared(t) <=> t.fill # None
  BY <1>2 DEF Cleared
<1>9. ASSUME t.fill # None
      PROVE  /\ t.fill \in Ids /\ t.id \in Ids /\ t.fill # t.id /\ t.key # None /\ IsOrder(db[t.fill])
             /\ trades' = trades \cup {<<t.fill, t.id>>} /\ ~IsOrder(db[t.id])
  BY <1>1, <1>2, <1>9, TakerFacts, PlaceFacts, KeyFacts
<1>10. Cardinality(trades') = Ahead(t)
  <2>1. CASE t.fill # None
    <3>1. Cardinality(trades') = Cardinality(trades) + 1
      BY <1>9, <2>1, NewTrade
    <3> QED BY <1>8, <2>1, <3>1 DEF Ahead
  <2>2. CASE t.fill = None
    BY <1>2, <1>8, <2>2 DEF Ahead
  <2> QED BY <2>1, <2>2
<1>11. d["market"].sets = Cardinality(trades') /\ d["shares"] = Cardinality(trades')
  <2>1. CASE t.key # None
    <3>1. "market" \in DOMAIN t.w /\ t.w["market"].sets = Ahead(t)
      BY <1>2, <1>3, <1>5, <2>1 DEF Locks, Totals
    <3>2. CASE t.fill # None
      <4>1. "shares" \in DOMAIN t.w /\ t.w["shares"] = Ahead(t)
        BY <1>5, <1>8, <3>2 DEF Totals
      <4> QED BY <1>4, <1>10, <3>1, <4>1
    <3>3. CASE t.fill = None
      <4>1. "shares" \notin DOMAIN t.w
        BY <1>5, <1>8, <2>1, <3>3 DEF Totals
      <4> QED BY <1>2, <1>4, <1>6, <1>7, <1>10, <3>1, <3>3, <4>1
    <3> QED BY <3>2, <3>3
  <2>2. CASE t.key = None
    <3>1. {"market", "shares"} \cap DOMAIN t.w = {}
      BY <1>5, <2>2 DEF Totals
    <3>2. trades' = trades
      BY <1>2, <1>9, <2>2
    <3> QED BY <1>4, <1>6, <1>7, <3>1, <3>2
  <2> QED BY <2>1, <2>2
<1>12. ASSUME NEW i \in Ids, IsOrder(d[i]), d[i].status # "CANCELLED"
       PROVE  d[i].filled = Cardinality(TradesOf(i)')
  <2>1. CASE i = t.id
    <3>1. i \in DOMAIN t.w /\ ~IsOrder(db[i]) /\ t.key # None
      BY <1>1, <1>2, <1>3, <2>1, PlaceFacts, KeyFacts DEF Stage, Locks
    <3>2. d[i].filled = IF Cleared(t) THEN 1 ELSE 0
      BY <1>4, <1>5, <2>1, <3>1, KeyFacts DEF Fills
    <3>3. CASE t.fill # None
      BY <1>8, <1>9, <2>1, <3>1, <3>2, <3>3, NewTrade
    <3>4. CASE t.fill = None
      <4>1. TradesOf(i)' = TradesOf(i)
        BY <1>2, <3>4 DEF TradesOf
      <4> QED BY <1>8, <3>1, <3>2, <3>4, <4>1, NoTrades
    <3> QED BY <3>3, <3>4
  <2>2. CASE i = t.fill
    <3>1. t.fill # None
      BY <2>2, KeyFacts
    <3>2. i \in DOMAIN t.w /\ t.w[i].filled = db[i].filled + 1 /\ Active(db[i])
      BY <1>2, <1>5, <2>2, <3>1 DEF Fills
    <3>3. db[i].filled = Cardinality(TradesOf(i))
      BY <1>6, <3>2 DEF Active, IsOrder
    <3>4. Cardinality(TradesOf(i)') = Cardinality(TradesOf(i)) + 1
      BY <1>9, <2>2, <3>1, NewTrade
    <3> QED BY <1>4, <3>2, <3>3, <3>4
  <2>3. CASE i \notin {t.id, t.fill}
    <3>1. i \notin DOMAIN t.w
      BY <1>2, <1>4, <1>5, <1>12, <2>3 DEF Gone
    <3>2. d[i] = db[i]
      BY <1>4, <1>7, <3>1
    <3>3. TradesOf(i)' = TradesOf(i)
      <4>1. CASE t.fill # None
        BY <1>9, <2>3, <4>1, NewTrade
      <4>2. CASE t.fill = None
        BY <1>2, <4>2 DEF TradesOf
      <4> QED BY <4>1, <4>2
    <3> QED BY <1>6, <1>12, <3>2, <3>3
  <2> QED BY <2>1, <2>2, <2>3
<1> QED BY <1>11, <1>12

(* db.commit(). *)
LEMMA CommitActive == ASSUME SInv, AInv, NEW s \in Sessions, Commit(s) PROVE AInv'
<1>1. PICK t, n, d : t = tx[s] /\ n = Idle /\ d = Over(t.w, db)
  OBVIOUS
<1>2. /\ t.at = "commit" /\ tx' = [tx EXCEPT ![s] = n] /\ book' = book /\ db' = d
      /\ trades' = IF t.fill = None THEN trades ELSE trades \cup {<<t.fill, t.id>>}
  BY <1>1 DEF Commit
<1>3. Shape(t) /\ Stage(t) /\ Locks(t) /\ Funds(t) /\ Knows(t)
  BY <1>1, SoundFacts
<1>4. /\ n.at = "idle" /\ n.id = None /\ n.key = None /\ n.fill = None
      /\ DOMAIN n.w = {} /\ DOMAIN n.copy = {}
  BY <1>1, IdleFacts
<1>5. DOMAIN tx' = Sessions /\ tx'[s] = n /\ \A r \in Sessions : r # s => tx'[r] = tx[r]
  BY <1>2 DEF SInv, Requests
<1>6. /\ \A r \in DOMAIN t.w : d[r] = t.w[r]
      /\ \A r \in Rows : r \notin DOMAIN t.w => d[r] = db[r]
  BY <1>1, <1>2, CommitRows
<1>7. "market" \in Rows /\ Ids \subseteq Rows
  BY RowTypes
<1>8. ASSUME NEW r \in Sessions PROVE Status(tx[r])'
  <2>1. CASE r = s
    BY <1>4, <1>5, <2>1 DEF Status
  <2>2. CASE r # s
    <3>1. PICK x : x = tx[r]
      OBVIOUS
    <3>2. Status(x) /\ DOMAIN x.w \cap DOMAIN t.w = {}
      BY <1>1, <2>2, <3>1 DEF AInv, SInv, Apart
    <3>3. "market" \in DOMAIN x.w => d["market"] = db["market"]
      BY <1>6, <1>7, <3>2
    <3>4. Status(x)'
      BY <1>2, <3>2, <3>3 DEF Status
    <3> QED BY <1>5, <2>2, <3>1, <3>4
  <2> QED BY <2>1, <2>2
<1>9. ASSUME d["market"].status = "ACTIVE"
      PROVE  (\A r \in Sessions : Totals(tx[r])' /\ Fills(tx[r])' /\ Gone(tx[r], book)') /\ BookRows'
  <2>1. db["market"].status = "ACTIVE" /\ ~Resolving(t) /\ Totals(t) /\ Fills(t) /\ Gone(t, book)
    BY <1>1, <1>2, <1>9, StillActive
  <2>2. ASSUME NEW i \in Ids \cap DOMAIN t.w, i \notin {t.id, t.fill}
        PROVE  NotIn(book, i) /\ \A r \in Sessions : tx[r].fill # i
    BY <1>2, <2>1, <2>2 DEF Gone
  <2>3. ASSUME NEW r \in Sessions, r # s, tx[r].fill # None
        PROVE  tx[r].fill \in Ids /\ t.fill = None /\ tx[r].fill # t.id /\ d[tx[r].fill] = db[tx[r].fill]
    <3>1. tx[r].fill \in Ids /\ t.fill = None /\ tx[r].fill # t.id
      BY <1>1, <2>3, FillFacts, OneMatched
    <3>2. tx[r].fill \notin DOMAIN t.w
      BY <2>2, <2>3, <3>1
    <3> QED BY <1>6, <1>7, <3>1, <3>2
  <2>4. ASSUME NEW r \in Sessions, r # s
        PROVE  Totals(tx[r])' /\ Fills(tx[r])' /\ Gone(tx[r], book)'
    <3>1. PICK x : x = tx[r]
      OBVIOUS
    <3>2. Totals(x) /\ Fills(x) /\ Gone(x, book) /\ Stage(x) /\ Locks(x)
      BY <2>1, <3>1, SoundFacts DEF AInv
    <3>3. ASSUME x.key # None, x.at \in MatchedSteps \cup {"commit"} PROVE trades' = trades
      <4>1. "market" \in DOMAIN x.w
        BY <3>2, <3>3 DEF Locks
      <4>2. "market" \notin DOMAIN t.w
        BY <1>1, <2>4, <3>1, <4>1 DEF SInv, Apart
      <4>3. t.key = None
        BY <1>2, <1>3, <4>2 DEF Locks
      <4> QED BY <1>2, <1>3, <4>3, KeyFacts DEF Stage
    <3>4. Cleared(x) => x.key # None /\ x.at \in MatchedSteps \cup {"commit"}
      BY <3>2, KeyFacts DEF Cleared, Stage
    <3>5. Totals(x)'
      BY <3>2, <3>3, <3>4 DEF Totals, Ahead, Cleared, Resolving
    <3>6. x.fill # None => d[x.fill] = db[x.fill]
      BY <2>3, <2>4, <3>1
    <3>7. Fills(x)'
      <4>1. x.at = "write_maker" => x.fill # None
        BY <3>2 DEF Stage
      <4>2. x.fill # None => db'[x.fill] = db[x.fill]
        BY <1>2, <3>6
      <4> QED BY <3>2, <4>1, <4>2 DEF Fills, Cleared
    <3>8. ASSUME NEW i \in Ids, \A y \in Sessions : tx[y].fill # i PROVE \A y \in Sessions : tx'[y].fill # i
      BY <1>4, <1>5, <3>8, KeyFacts
    <3>9. Gone(x, book)'
      BY <1>2, <3>2, <3>8 DEF Gone, Resolving
    <3> QED BY <1>5, <2>4, <3>1, <3>5, <3>7, <3>9
  <2>5. Totals(tx[s])' /\ Fills(tx[s])' /\ Gone(tx[s], book)'
    <3>1. Totals(n)' /\ Fills(n)' /\ Gone(n, book)'
      BY <1>4 DEF Totals, Fills, Gone, Cleared
    <3> QED BY <1>5, <3>1
  <2>6. BookRows'
    <3>1. ASSUME NEW k \in 1 .. Len(book), NEW i, i = book[k].id
          PROVE  \/ book[k].qty = Lot /\ \E r \in Sessions : tx'[r].at = "commit" /\ tx'[r].id = i
                 \/ Active(d[i]) /\ Remaining(d[i]) = book[k].qty + 1 /\ \E r \in Sessions : tx'[r].fill = i
                 \/ Active(d[i]) /\ Remaining(d[i]) = book[k].qty /\ \A r \in Sessions : tx'[r].fill # i
      <4>1. i \in Ids /\ i # None /\ book[k].qty \in Nat /\ book[k].qty >= 1
        BY <3>1, BookFacts
      <4>2. CASE book[k].qty = Lot /\ \E r \in Sessions : tx[r].at = "commit" /\ tx[r].id = i
        <5>1. PICK r \in Sessions : tx[r].at = "commit" /\ tx[r].id = i
          BY <4>2
        <5>2. CASE r # s
          BY <1>5, <4>2, <5>1, <5>2
        <5>3. CASE r = s
          <6>1. t.id = i /\ ~IsOrder(db[i])
            BY <1>1, <1>3, <4>1, <5>1, <5>3 DEF Knows
          <6>2. t.key \in MakerKeys
            <7>1. PICK y \in Sessions : tx[y].at = "commit" /\ tx[y].id = i /\ tx[y].key \in MakerKeys
              BY <3>1, <6>1 DEF SInv, BookOK
            <7>2. y = s
              BY <1>1, <4>1, <6>1, <7>1 DEF SInv, Apart
            <7> QED BY <1>1, <7>1, <7>2
          <6>3. t.fill = None /\ i \in DOMAIN t.w /\ t.w[i].key = t.key
            BY <1>2, <1>3, <4>1, <6>1, <6>2, KeyFacts DEF Stage, Locks, Knows
          <6>4. t.w[i].filled = 0 /\ t.w[i].status = "OPEN"
            BY <2>1, <4>1, <6>1, <6>2, <6>3 DEF Fills, Cleared
          <6>5. Active(d[i]) /\ Remaining(d[i]) = Lot
            BY <1>6, <6>2, <6>3, <6>4, KeyFacts DEF Active, Remaining
          <6>6. \A y \in Sessions : tx[y].fill # i
            BY <4>1, <6>1, FillFacts
          <6>7. \A y \in Sessions : tx'[y].fill # i
            BY <1>4, <1>5, <4>1, <6>6
          <6> QED BY <4>2, <6>5, <6>7
        <5> QED BY <5>2, <5>3
      <4>3. CASE /\ Active(db[i]) /\ Remaining(db[i]) = book[k].qty + 1
                 /\ \E r \in Sessions : tx[r].fill = i
        <5>1. PICK r \in Sessions : tx[r].fill = i
          BY <4>3
        <5>2. CASE r # s
          BY <1>5, <2>3, <4>1, <4>3, <5>1, <5>2
        <5>3. CASE r = s
          <6>1. t.fill = i /\ t.fill # None
            BY <1>1, <4>1, <5>1, <5>3
          <6>2. /\ i \in DOMAIN t.w /\ t.w[i].filled = db[i].filled + 1
                /\ Active(t.w[i]) <=> Remaining(t.w[i]) > 0
            BY <1>2, <2>1, <6>1 DEF Fills
          <6>3. t.w[i].key = db[i].key
            <7>1. IsOrder(db[i])
              BY <4>3 DEF Active, IsOrder
            <7>2. i # t.id
              BY <1>1, <4>1, <7>1, OrderFacts
            <7> QED BY <1>3, <4>1, <6>2, <7>2 DEF Knows
          <6>4. Remaining(t.w[i]) = Remaining(db[i]) - 1
            <7>1. PICK q : q = Quantity(db[i].key)
              OBVIOUS
            <7>2. Remaining(db[i]) = q - db[i].filled /\ Remaining(t.w[i]) = q - (db[i].filled + 1)
              BY <6>2, <6>3, <7>1 DEF Remaining
            <7>3. q \in Int /\ db[i].filled \in Int
              BY <4>1, <7>1, RowsOfIds, KeyFacts DEF Whole, OrderRow
            <7> QED BY <7>2, <7>3
          <6>5. Remaining(t.w[i]) = book[k].qty /\ Active(t.w[i])
            BY <4>1, <4>3, <6>2, <6>4
          <6>6. \A y \in Sessions : y # s => tx[y].fill # i
            BY <1>1, <6>1, OneMatched
          <6>7. \A y \in Sessions : tx'[y].fill # i
            BY <1>4, <1>5, <4>1, <6>6
          <6> QED BY <1>6, <6>2, <6>5, <6>7
        <5> QED BY <5>2, <5>3
      <4>4. CASE /\ Active(db[i]) /\ Remaining(db[i]) = book[k].qty
                 /\ \A r \in Sessions : tx[r].fill # i
        <5>1. t.fill # i /\ t.id # i
          <6>1. IsOrder(db[i])
            BY <4>4 DEF Active, IsOrder
          <6> QED BY <1>1, <4>1, <4>4, <6>1, OrderFacts
        <5>2. i \notin DOMAIN t.w
          BY <2>2, <3>1, <4>1, <5>1 DEF NotIn
        <5>3. \A y \in Sessions : tx'[y].fill # i
          BY <1>4, <1>5, <4>1, <4>4
        <5> QED BY <1>6, <1>7, <4>1, <4>4, <5>2, <5>3
      <4> QED BY <2>1, <3>1, <4>2, <4>3, <4>4 DEF AInv, BookRows
    <3> QED BY <1>2, <3>1 DEF BookRows
  <2> QED BY <2>4, <2>5, <2>6
<1> QED BY <1>2, <1>8, <1>9, CommitCounts DEF AInv

(* An idle session has nothing to say of the rows. *)
LEMMA IdleSays == ASSUME NEW b PROVE Status(Idle) /\ Totals(Idle) /\ Fills(Idle) /\ Gone(Idle, b)
BY IdleFacts DEF Status, Totals, Fills, Gone, Cleared

(* The server is restarted. *)
LEMMA RestartActive == ASSUME SInv, AInv, Restart PROVE AInv'
<1>1. db' = db /\ trades' = trades /\ \A s \in Sessions : tx'[s] = Idle
  BY DEF Restart
<1>2. NoLostUpdate'
  BY <1>1 DEF AInv, NoLostUpdate, TradesOf
<1>3. PICK n : n = Idle
  OBVIOUS
<1>4. /\ n.at = "idle" /\ n.id = None /\ n.key = None /\ n.fill = None
      /\ DOMAIN n.w = {} /\ DOMAIN n.copy = {}
  BY <1>3, IdleFacts
<1>5. Status(n)' /\ Totals(n)' /\ Fills(n)' /\ Gone(n, book)'
  BY <1>4 DEF Status, Totals, Fills, Gone, Cleared
<1>6. ASSUME NEW s \in Sessions
      PROVE  Status(tx[s])' /\ Totals(tx[s])' /\ Fills(tx[s])' /\ Gone(tx[s], book)'
  <2>1. tx'[s] = n
    BY <1>1, <1>3
  <2> QED BY <1>5, <2>1
<1>7. PICK b : b = book'
  OBVIOUS
<1>8. b = <<>>
  BY <1>7 DEF Restart
<1>9. 1 .. Len(book') = {}
  BY <1>7, <1>8, EmptySeq
<1>10. BookRows'
  BY <1>9 DEF BookRows
<1> QED BY <1>2, <1>6, <1>10 DEF AInv

(* At first there are no trades to count. *)
LEMMA InitActive == ASSUME Init PROVE AInv
<1>1. trades = {} /\ book = <<>> /\ \A s \in Sessions : tx[s] = Idle
  BY DEF Init
<1>2. db["market"].sets = 0 /\ db["shares"] = 0 /\ \A i \in Ids : ~IsOrder(db[i])
  <2>1. db["market"] = [status |-> "ACTIVE", sets |-> 0] /\ db["shares"] = 0
    BY RowTypes DEF Init
  <2>2. \A i \in Ids : db[i] = NoOrder
    BY RowTypes DEF Init
  <2> QED BY <2>1, <2>2 DEF NoOrder, IsOrder
<1>3. Cardinality(trades) = 0
  BY <1>1, FS_EmptySet
<1>4. NoLostUpdate
  BY <1>2, <1>3 DEF NoLostUpdate
<1>5. ASSUME NEW s \in Sessions PROVE Status(tx[s]) /\ Totals(tx[s]) /\ Fills(tx[s]) /\ Gone(tx[s], book)
  BY <1>1, IdleSays
<1>6. 1 .. Len(book) = {}
  BY <1>1, EmptySeq
<1>7. BookRows
  BY <1>6 DEF BookRows
<1> QED BY <1>4, <1>5, <1>7 DEF AInv

(* Nothing happens. *)
LEMMA StutterActive == ASSUME AInv, UNCHANGED vars PROVE AInv'
<1>1. db' = db /\ trades' = trades /\ tx' = tx /\ book' = book
  BY DEF vars
<1>2. (NoLostUpdate' <=> NoLostUpdate) /\ (BookRows' <=> BookRows)
  BY <1>1 DEF NoLostUpdate, TradesOf, BookRows
<1>3. ASSUME NEW t PROVE /\ Status(t)' <=> Status(t)
                         /\ Totals(t)' <=> Totals(t)
                         /\ Fills(t)' <=> Fills(t)
                         /\ Gone(t, book)' <=> Gone(t, book)
  BY <1>1 DEF Status, Totals, Fills, Gone, Ahead, Cleared, Resolving
<1>4. ASSUME NEW s \in Sessions
      PROVE  /\ Status(tx[s])' <=> Status(tx[s])
             /\ (Totals(tx[s]) /\ Fills(tx[s]) /\ Gone(tx[s], book))' <=>
                  Totals(tx[s]) /\ Fills(tx[s]) /\ Gone(tx[s], book)
  <2>1. PICK t : t = tx[s]
    OBVIOUS
  <2>2. t = tx'[s]
    BY <1>1, <2>1
  <2> QED BY <1>3, <2>1, <2>2
<1> QED BY <1>1, <1>2, <1>4 DEF AInv

(* Every step of every request keeps both invariants. *)
LEMMA NextActive == ASSUME SInv, AInv, [Next]_vars PROVE AInv'
<1>1. ASSUME NEW s \in Sessions, Proceed(s) PROVE AInv'
  <2>1. ASSUME DeadlockDetected(s) PROVE tx[s].at # "commit" /\ Fail(s)
    <3>1. ASSUME tx[s].at = "commit" PROVE Blockers(s) = {}
      <4>1. Wants(s) = {}
        BY <3>1 DEF Wants
      <4> QED BY <3>1, <4>1 DEF Blockers, Locked, SameKey
    <3> QED BY <2>1, <3>1 DEF DeadlockDetected
  <2> QED BY <1>1, <2>1, CheckMarketActive, FreezeActive, SaveActive, LockAndMatchActive, SettleActive,
             ReadMakerActive, WriteMakerActive, FinalizeActive, UnfreezeActive, WriteBackActive,
             BulkCancelActive, BulkUnfreezeActive, ResolveActive, CommitActive, EndActive DEF Proceed
<1>2. ASSUME NEW s \in Sessions, StatementFails(s) PROVE AInv'
  BY <1>2, EndActive DEF StatementFails
<1> QED BY <1>1, <1>2, ArriveActive, RestartActive, StutterActive DEF Next

(* While the market is active, what each request has read and written is    *)
(* what its commit will make true.                                          *)
THEOREM ActiveInductive == Spec => [](SInv /\ AInv)
<1>1. Init => SInv /\ AInv
  BY InitSound, InitActive
<1>2. SInv /\ AInv /\ [Next]_vars => (SInv /\ AInv)'
  BY NextKeeps, NextActive
<1> QED BY <1>1, <1>2, PTL DEF Spec

(* The totals of an active market, the positions and the orders that were   *)
(* not cancelled count every committed trade once.                          *)
THEOREM TradesCountOnce == Spec => []NoLostUpdate
<1>1. AInv => NoLostUpdate
  BY DEF AInv
<1> QED BY <1>1, ActiveInductive, PTL

(* What match_order finds in the book of an active market is committed,     *)
(* although the market's lock is released before the commit.                *)
THEOREM CommittedRowsMatch == Spec => []MatchSeesCommitted
<1>1. SInv /\ AInv => MatchSeesCommitted
  BY SeesCommitted DEF MatchSeesCommitted
<1> QED BY <1>1, ActiveInductive, PTL

(* Only a commit adds a trade. *)
LEMMA TradesGrow ==
  ASSUME [Next]_vars
  PROVE  trades' = trades \/ \E s \in Sessions : Commit(s)
<1>1. ASSUME NEW s \in Sessions, Arrive(s) PROVE trades' = trades
  BY <1>1 DEF Arrive, Place, Cancel, Replace, BatchCancel, Resolve
<1>2. ASSUME NEW s \in Sessions, Fail(s) \/ Refuse(s) PROVE trades' = trades
  BY <1>2 DEF Fail, Refuse
<1>3. ASSUME NEW s \in Sessions, Proceed(s) PROVE trades' = trades \/ Commit(s)
  <2>1. CASE CheckMarket(s) \/ Freeze(s) \/ Save(s) \/ LockAndMatch(s) \/ Settle(s)
    BY <1>2, <2>1 DEF CheckMarket, Freeze, Save, LockAndMatch, Settle
  <2>2. CASE ReadMaker(s) \/ WriteMaker(s) \/ Finalize(s) \/ WriteBack(s) \/ BulkCancel(s)
    BY <2>2 DEF ReadMaker, WriteMaker, Finalize, WriteBack, BulkCancel
  <2>3. CASE Unfreeze(s) \/ BulkUnfreeze(s) \/ CancelOpen(s) \/ DeadlockDetected(s)
    BY <1>2, <2>3 DEF Unfreeze, BulkUnfreeze, CancelOpen, DeadlockDetected
  <2>4. CASE ReadOpen(s) \/ ReadPositions(s) \/ ClearPositions(s) \/ SettleMarket(s)
    BY <2>4 DEF ReadOpen, ReadPositions, ClearPositions, SettleMarket
  <2> QED BY <1>3, <2>1, <2>2, <2>3, <2>4 DEF Proceed
<1>4. ASSUME NEW s \in Sessions, StatementFails(s) PROVE trades' = trades
  BY <1>2, <1>4 DEF StatementFails
<1>5. Restart \/ UNCHANGED vars => trades' = trades
  BY DEF Restart, vars
<1> QED BY <1>1, <1>3, <1>4, <1>5 DEF Next

(* No trade is committed with an order that has been committed as cancelled *)
(* or filled, while the market is active.                                   *)
THEOREM TradesOfActiveOrders == Spec => NoTradeAfterCancel
<1>1. ASSUME SInv, AInv, [Next]_vars, db["market"].status = "ACTIVE", NEW t \in trades' \ trades
      PROVE  Active(db[t[1]])
  <2>1. PICK s \in Sessions : Commit(s)
    BY <1>1, TradesGrow
  <2>2. PICK x : x = tx[s]
    OBVIOUS
  <2>3. x.fill # None /\ t = <<x.fill, x.id>>
    BY <1>1, <2>1, <2>2 DEF Commit
  <2>4. Active(db[x.fill])
    BY <1>1, <2>2, <2>3 DEF AInv, Fills
  <2>5. t[1] = x.fill
    BY <2>3
  <2> QED BY <2>4, <2>5
<1>2. SInv /\ AInv /\ [Next]_vars =>
        [db["market"].status = "ACTIVE" => \A t \in trades' \ trades : Active(db[t[1]])]_vars
  BY <1>1
<1> QED BY <1>2, ActiveInductive, PTL DEF Spec, NoTradeAfterCancel
=============================================================================
