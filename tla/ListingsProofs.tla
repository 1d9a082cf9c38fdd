---------------------------- MODULE ListingsProofs ----------------------------
(* Under a clock that never goes back, ids increase, whatever the widths of  *)
(* the fields and however many ids are drawn in a millisecond.  A client     *)
(* that pages through rows with such ids skips none and sees none twice, for *)
(* any number of rows and any page size.                                     *)
EXTENDS Listings, CollectionProofs, SequenceTheorems

-----------------------------------------------------------------------------
(* Ids increase.                                                             *)

\* Everything issued lies below what the state can still issue: at or below
\* the last id while its millisecond lasts, below the next millisecond while
\* the generator waits, below now after a restart.
Headroom ==
  \A i \in 1 .. Len(issued) :
    IF last = -1 THEN issued[i] < Id(now, 0)
    ELSE IF pc = "waiting" THEN issued[i] < Id(last + 1, 0)
    ELSE issued[i] <= Id(last, sequence)

IdInv ==
  /\ IdTypeOK
  /\ last <= now
  /\ pc = "waiting" => last # -1
  /\ Headroom
  /\ IdsIncrease

(* A later millisecond gives a greater id, whatever the sequence numbers. *)
LEMMA IdGrows ==
  ASSUME NEW t \in Int, NEW u \in Int, t < u,
         NEW r \in 0 .. MaxSequence, NEW s \in 0 .. MaxSequence
  PROVE  Id(t, r) \in Int /\ Id(u, s) \in Int /\ Id(t, r) < Id(u, s)
<1> DEFINE d == u - t
           off == MachineId * (MaxSequence + 1)
<1>1. MaxSequence \in Nat /\ Machines \in Nat \ {0} /\ MachineId \in Nat /\ off \in Int
  BY SequenceAssumption, MachinesAssumption
<1>2. Shift \in Int /\ Shift >= MaxSequence + 1
  BY <1>1 DEF Shift
<1>3. \E k \in Int : k = Shift
  BY <1>2
<1>4. PICK k \in Int : k = Shift
  BY <1>3
<1>5. t * k \in Int /\ u * k \in Int /\ d \in Int /\ d >= 1 /\ k >= 1
  BY <1>1, <1>2, <1>4
<1>6. u * k = t * k + d * k
  BY <1>4
<1>7. d * k >= k
  BY <1>5
<1>8. t * k + (off + r) < u * k + (off + s)
  <2> HIDE DEF d, off
  <2> QED BY <1>1, <1>2, <1>4, <1>5, <1>6, <1>7
<1> QED BY <1>1, <1>4, <1>5, <1>8 DEF Id

(* Within a millisecond the sequence number orders the ids. *)
LEMMA SequenceGrows ==
  ASSUME NEW t \in Int, NEW r \in 0 .. MaxSequence, NEW s \in 0 .. MaxSequence, r < s
  PROVE  Id(t, r) \in Int /\ Id(t, s) \in Int /\ Id(t, r) < Id(t, s)
<1>1. MaxSequence \in Nat /\ Machines \in Nat \ {0} /\ MachineId \in Nat
  BY SequenceAssumption, MachinesAssumption
<1>2. t * Shift \in Int /\ MachineId * (MaxSequence + 1) \in Int
  BY <1>1 DEF Shift
<1> QED BY <1>1, <1>2 DEF Id

(* An id above everything issued may be appended. *)
LEMMA IssueKeepsOrder ==
  ASSUME IdTypeOK, IdsIncrease, NEW x \in Int,
         issued' = Append(issued, x),
         \A i \in 1 .. Len(issued) : issued[i] < x
  PROVE  /\ IdsIncrease' /\ issued' \in Seq(Int)
         /\ \A i \in 1 .. Len(issued') : issued'[i] <= x
BY DEF IdTypeOK, IdsIncrease

(* A step that draws id (ts, seq), later than all before, keeps the invariant. *)
LEMMA IssueInv ==
  ASSUME IdInv, NEW ts \in Nat, NEW seq \in 0 .. MaxSequence, ts = now,
         Issue(ts, seq),
         \A i \in 1 .. Len(issued) : issued[i] < Id(ts, seq)
  PROVE  IdInv'
<1>1. Id(ts, seq) \in Int
  <2>1. ts < ts + 1 /\ ts \in Int /\ ts + 1 \in Int
    OBVIOUS
  <2> QED BY <2>1, IdGrows
<1>2. IdsIncrease' /\ issued' \in Seq(Int) /\ \A i \in 1 .. Len(issued') : issued'[i] <= Id(ts, seq)
  BY <1>1, IssueKeepsOrder DEF IdInv, Issue
<1>3. last' = ts /\ sequence' = seq /\ pc' = "ready" /\ now' = now
  BY DEF Issue
<1>4. IdTypeOK' /\ last' <= now' /\ (pc' = "waiting" => last' # -1)
  BY <1>2, <1>3 DEF IdInv, IdTypeOK
<1>5. Headroom'
  BY <1>2, <1>3 DEF Headroom
<1> QED BY <1>2, <1>4, <1>5 DEF IdInv

(* IdInv holds at the start and is kept by every step of Spec. *)
THEOREM IdInvariant == Spec => []IdInv
<1>1. Init => IdInv
  BY SequenceAssumption, BoundsAssumption DEF Init, IdInv, IdTypeOK, Headroom, IdsIncrease
<1>2. IdInv /\ [NextId \/ Tick \/ Restart]_idVars => IdInv'
  <2> SUFFICES ASSUME IdInv, [NextId \/ Tick \/ Restart]_idVars PROVE IdInv'
    OBVIOUS
  <2> USE SequenceAssumption
  <2>0. /\ now \in Nat /\ now \in Int /\ last \in Int /\ 0 \in 0 .. MaxSequence
        /\ now < now + 1 /\ last < now + 1 /\ now + 1 \in Int
        /\ sequence \in 0 .. MaxSequence /\ last <= now /\ now + 1 \in Nat
        /\ \A i \in 1 .. Len(issued) : issued[i] \in Int
    BY DEF IdInv, IdTypeOK
  <2>1. CASE FirstOfMs
    <3>1. last < now
      BY <2>0, <2>1 DEF FirstOfMs
    <3>2. Id(last, sequence) < Id(now, 0) /\ Id(last, sequence) \in Int /\ Id(now, 0) \in Int
      BY <2>0, <3>1, IdGrows, Zenon
    <3>3. \A i \in 1 .. Len(issued) : issued[i] < Id(now, 0)
      BY <2>0, <2>1, <3>2 DEF IdInv, Headroom, FirstOfMs
    <3> QED BY <2>0, <2>1, <3>3, IssueInv DEF FirstOfMs
  <2>2. CASE AnotherOfMs
    <3>1. NextSequence \in 0 .. MaxSequence /\ sequence < NextSequence
      BY <2>0, <2>2 DEF AnotherOfMs, NextSequence
    <3>2. Id(now, sequence) < Id(now, NextSequence)
          /\ Id(now, sequence) \in Int /\ Id(now, NextSequence) \in Int
      BY <2>0, <3>1, SequenceGrows, Zenon
    <3>3. \A i \in 1 .. Len(issued) : issued[i] < Id(now, NextSequence)
      BY <2>0, <2>2, <3>2 DEF IdInv, Headroom, AnotherOfMs
    <3> QED BY <2>0, <2>2, <3>1, <3>3, IssueInv DEF AnotherOfMs
  <2>3. CASE BeginWait
    <3>1. now = last /\ sequence' = 0 /\ pc' = "waiting" /\ pc = "ready"
          /\ UNCHANGED <<now, last, issued>> /\ last # -1
      BY <2>0, <2>3 DEF BeginWait
    <3>2. Id(last, sequence) < Id(last + 1, 0)
          /\ Id(last, sequence) \in Int /\ Id(last + 1, 0) \in Int
      BY <2>0, <3>1, IdGrows
    <3>3. Headroom'
      BY <2>0, <3>1, <3>2 DEF IdInv, Headroom
    <3>4. IdTypeOK' /\ IdsIncrease' /\ last' <= now'
      BY <2>0, <3>1 DEF IdInv, IdTypeOK, IdsIncrease
    <3> QED BY <3>1, <3>3, <3>4 DEF IdInv
  <2>4. CASE EndWait
    <3>1. last + 1 \in Int /\ last + 1 <= now /\ last # -1 /\ pc = "waiting"
      BY <2>0, <2>4 DEF EndWait, IdInv
    <3>2. Id(last + 1, 0) \in Int /\ Id(now, 0) \in Int /\ Id(last + 1, 0) <= Id(now, 0)
      <4>1. CASE last + 1 = now
        BY <2>0, <4>1, IdGrows
      <4>2. CASE last + 1 < now
        BY <2>0, <3>1, <4>2, IdGrows
      <4> QED BY <2>0, <3>1, <4>1, <4>2
    <3>3. \A i \in 1 .. Len(issued) : issued[i] < Id(now, 0)
      BY <2>0, <3>1, <3>2 DEF IdInv, Headroom
    <3> QED BY <2>0, <2>4, <3>3, IssueInv DEF EndWait
  <2>5. CASE Tick
    <3>1. now' \in {now, now + 1} /\ now' \in Nat /\ UNCHANGED <<last, sequence, pc, issued>>
      BY <2>0, <2>5 DEF Tick
    <3>2. Id(now, 0) \in Int /\ Id(now', 0) \in Int /\ Id(now, 0) <= Id(now', 0)
      <4>1. CASE now' = now
        BY <2>0, <4>1, IdGrows
      <4>2. CASE now' = now + 1
        BY <2>0, <4>2, IdGrows
      <4> QED BY <3>1, <4>1, <4>2
    <3>3. Headroom'
      BY <2>0, <3>1, <3>2 DEF IdInv, Headroom, Id
    <3>4. IdTypeOK' /\ IdsIncrease' /\ last' <= now' /\ (pc' = "waiting" => last' # -1)
      BY <2>0, <3>1 DEF IdInv, IdTypeOK, IdsIncrease
    <3> QED BY <3>3, <3>4 DEF IdInv
  <2>6. CASE Restart
    <3>1. now' = now + 1 /\ last' = -1 /\ sequence' = 0 /\ pc' = "ready" /\ issued' = issued
      BY <2>6 DEF Restart
    <3>2. /\ Id(last, sequence) < Id(now + 1, 0) /\ Id(now, 0) < Id(now + 1, 0)
          /\ Id(last, sequence) \in Int /\ Id(now, 0) \in Int /\ Id(now + 1, 0) \in Int
      BY <2>0, IdGrows, Zenon
    <3>3. Id(last + 1, 0) \in Int /\ Id(last + 1, 0) <= Id(now + 1, 0)
      <4>1. CASE last = now
        BY <2>0, <3>2, <4>1
      <4>2. CASE last < now
        BY <2>0, <4>2, IdGrows
      <4> QED BY <2>0, <4>1, <4>2
    <3>4. \A i \in 1 .. Len(issued) : issued[i] < Id(now + 1, 0)
      <4> SUFFICES ASSUME NEW i \in 1 .. Len(issued) PROVE issued[i] < Id(now + 1, 0)
        OBVIOUS
      <4>1. CASE last = -1
        BY <2>0, <3>2, <4>1 DEF IdInv, Headroom
      <4>2. CASE last # -1 /\ pc = "waiting"
        BY <2>0, <3>2, <3>3, <4>2 DEF IdInv, Headroom
      <4>3. CASE last # -1 /\ pc = "ready"
        BY <2>0, <3>2, <4>3 DEF IdInv, Headroom
      <4> QED BY <4>1, <4>2, <4>3 DEF IdInv, IdTypeOK
    <3>5. Headroom'
      BY <3>1, <3>4 DEF Headroom, Id
    <3>6. IdTypeOK' /\ IdsIncrease' /\ last' <= now'
      BY <2>0, <3>1 DEF IdInv, IdTypeOK, IdsIncrease
    <3> QED BY <3>1, <3>5, <3>6 DEF IdInv
  <2>7. CASE UNCHANGED idVars
    BY <2>7 DEF idVars, IdInv, IdTypeOK, Headroom, IdsIncrease, Id
  <2> QED BY <2>1, <2>2, <2>3, <2>4, <2>5, <2>6, <2>7 DEF NextId
<1> QED BY <1>1, <1>2, PTL DEF Spec

(* id_generator.py:3: the ids increase, and so are unique, as long as the
   clock never goes back. *)
THEOREM IdsAlwaysIncrease == Spec => []IdsIncrease
BY IdInvariant, PTL DEF IdInv

(* The sequence stays within its bits, however long a millisecond is used. *)
THEOREM IdTypesCorrect == Spec => []IdTypeOK
BY IdInvariant, PTL DEF IdInv
-----------------------------------------------------------------------------
(* The order of a list.                                                      *)

\* A row of orders or trades carries an id of the millisecond it was drawn in.
Named(list, r) ==
  list \in {"orders", "trades"} => \E seq \in 0 .. MaxSequence : r.id = Id(r.at, seq)

CursorOf(r) == [at |-> r.at, id |-> r.id]

(* Ids are natural numbers. *)
LEMMA IdIsNat ==
  ASSUME NEW t \in Nat, NEW s \in 0 .. MaxSequence
  PROVE  Id(t, s) \in Nat
<1>1. MaxSequence \in Nat /\ Machines \in Nat /\ MachineId \in Nat
  BY SequenceAssumption, MachinesAssumption
<1>2. PICK k, m : k = Shift /\ m = MachineId * (MaxSequence + 1)
  OBVIOUS
<1>3. k \in Nat
  BY <1>1, <1>2 DEF Shift
<1>4. m \in Nat
  BY <1>1, <1>2
<1>5. t * k \in Nat
  BY <1>3
<1> QED BY <1>1, <1>2, <1>4, <1>5 DEF Id

(* Newer is transitive ... *)
LEMMA NewerTransitive ==
  ASSUME NEW list, NEW a \in Row, NEW b \in Row, NEW c \in Row,
         Newer(list, a, b), Newer(list, b, c)
  PROVE  Newer(list, a, c)
BY BoundsAssumption DEF Newer, Row

(* ... and decides between rows with different ids. *)
LEMMA NewerTotal ==
  ASSUME NEW list, NEW a \in Row, NEW b \in Row, a.id # b.id
  PROVE  Newer(list, a, b) \/ Newer(list, b, a)
BY BoundsAssumption DEF Newer, Row

(* The rows after the cursor of a row are the older ones: ids order the rows *)
(* of a list as their times do.                                              *)
LEMMA BeyondIsOlder ==
  ASSUME NEW list \in Lists, NEW a \in Row, NEW r \in Row, Named(list, a), Named(list, r)
  PROVE  Beyond(list, r, CursorOf(a)) <=> Newer(list, a, r)
<1>1. /\ CursorOf(a) # NoCursor /\ CursorOf(a).at = a.at /\ CursorOf(a).id = a.id
      /\ a.at \in Nat /\ a.id \in Nat /\ r.at \in Nat /\ r.id \in Nat
  BY BoundsAssumption DEF CursorOf, NoCursor, Row
<1>2. CASE list = "markets"
  BY <1>1, <1>2 DEF Beyond, Newer
<1>3. CASE list = "orders"
  BY <1>1, <1>3 DEF Beyond, Newer
<1>4. CASE list = "trades"
  <2>1. PICK x \in 0 .. MaxSequence, y \in 0 .. MaxSequence : a.id = Id(a.at, x) /\ r.id = Id(r.at, y)
    BY <1>4 DEF Named
  <2>2. a.at < r.at => a.id < r.id
    BY <1>1, <2>1, IdGrows
  <2>3. r.at < a.at => r.id < a.id
    BY <1>1, <2>1, IdGrows
  <2>4. Beyond(list, r, CursorOf(a)) <=> r.id < a.id
    BY <1>1, <1>4 DEF Beyond
  <2>5. Newer(list, a, r) <=> a.at > r.at \/ (a.at = r.at /\ a.id > r.id)
    BY <1>4 DEF Newer
  <2> QED BY <1>1, <2>2, <2>3, <2>4, <2>5
<1> QED BY <1>2, <1>3, <1>4 DEF Lists

(* A set of rows has an oldest one. *)
LEMMA Oldest ==
  ASSUME NEW list, NEW S \in SUBSET Row, S # {}, \A r, s \in S : r.id = s.id => r = s
  PROVE  \E x \in S : \A y \in S : y # x => Newer(list, y, x)
<1>1. \A y \in S : y \in Row /\ y.at \in Nat /\ y.id \in Nat
  BY BoundsAssumption DEF Row
<1>2. CASE list = "orders"
  <2>1. PICK m \in {y.id : y \in S} : \A i \in {y.id : y \in S} : m <= i
    <3>1. {y.id : y \in S} \subseteq Nat /\ {y.id : y \in S} # {}
      BY <1>1
    <3> QED BY <3>1, LeastNat
  <2>2. PICK x \in S : x.id = m
    BY <2>1
  <2>3. ASSUME NEW y \in S, y # x PROVE y.id > x.id
    <3>1. m <= y.id
      BY <2>1
    <3>2. y.id # x.id
      BY <2>3
    <3> QED BY <1>1, <2>2, <3>1, <3>2
  <2> QED BY <1>2, <2>3 DEF Newer
<1>3. CASE list # "orders"
  <2>1. PICK t \in {y.at : y \in S} : \A i \in {y.at : y \in S} : t <= i
    <3>1. {y.at : y \in S} \subseteq Nat /\ {y.at : y \in S} # {}
      BY <1>1
    <3> QED BY <3>1, LeastNat
  <2>2. PICK T : T = {y \in S : y.at = t}
    OBVIOUS
  <2>3. PICK m \in {y.id : y \in T} : \A i \in {y.id : y \in T} : m <= i
    <3>1. {y.id : y \in T} \subseteq Nat /\ {y.id : y \in T} # {}
      BY <1>1, <2>1, <2>2
    <3> QED BY <3>1, LeastNat
  <2>4. PICK x \in T : x.id = m
    BY <2>3
  <2>5. \A y \in S : y # x => y.at > x.at \/ (y.at = x.at /\ y.id > x.id)
    <3> TAKE y \in S
    <3>1. x \in S /\ x.at = t /\ t <= y.at
      BY <2>1, <2>2
    <3>2. y.at = t => m <= y.id
      BY <2>2, <2>3
    <3>3. y.id = x.id => y = x
      BY <3>1
    <3> QED BY <1>1, <2>4, <3>1, <3>2, <3>3
  <2> QED BY <1>3, <2>2, <2>5 DEF Newer
<1> QED BY <1>2, <1>3

(* A finite set of rows can be listed in order. *)
LEMMA OrderExists ==
  ASSUME NEW list, NEW S \in SUBSET Row, IsFiniteSet(S), \A r, s \in S : r.id = s.id => r = s
  PROVE  \E q \in [1 .. Cardinality(S) -> S] : Ordered(list, q, S)
<1> DEFINE Listable(s) == \E q \in [1 .. Cardinality(s) -> s] : Ordered(list, q, s)
           B == {s \in SUBSET S : ~Listable(s)}
<1> SUFFICES ASSUME B # {} PROVE FALSE
  OBVIOUS
<1>1. PICK s \in B : \A t \in B : t \subseteq s => t = s
  <2>1. B \subseteq SUBSET S
    OBVIOUS
  <2> HIDE DEF B
  <2> QED BY <2>1, MinimalSubset
<1>2. s # {}
  <2> SUFFICES ASSUME s = {} PROVE FALSE
    OBVIOUS
  <2>1. Cardinality(s) = 0
    BY FS_EmptySet
  <2>2. PICK q : q = [i \in 1 .. 0 |-> {}]
    OBVIOUS
  <2>3. q \in [1 .. Cardinality(s) -> s] /\ DOMAIN q = {}
    BY <2>1, <2>2
  <2>4. Ordered(list, q, s)
    BY <2>3 DEF Ordered
  <2> QED BY <1>1, <2>3, <2>4
<1>3. PICK x \in s : \A y \in s : y # x => Newer(list, y, x)
  BY <1>1, <1>2, Oldest
<1>4. PICK t, n : t = s \ {x} /\ n = Cardinality(t)
  OBVIOUS
<1>5. IsFiniteSet(s) /\ IsFiniteSet(t) /\ n \in Nat /\ Cardinality(s) = n + 1
  <2>1. IsFiniteSet(s) /\ Cardinality(s) \in Nat
    BY <1>1, FS_Subset, FS_CardinalityType
  <2>2. IsFiniteSet(t) /\ Cardinality(t) = Cardinality(s) - 1
    BY <1>3, <1>4, <2>1, FS_RemoveElement
  <2>3. Cardinality(t) \in Nat
    BY <2>2, FS_CardinalityType
  <2> QED BY <1>4, <2>1, <2>2, <2>3
<1>6. Listable(t)
  <2>1. t \in SUBSET S /\ t \subseteq s /\ t # s
    BY <1>1, <1>3, <1>4
  <2>2. t \notin B
    BY <1>1, <2>1
  <2> HIDE DEF Listable
  <2> QED BY <2>1, <2>2
<1>7. PICK q \in [1 .. n -> t] :
        /\ \A i, j \in 1 .. n : i < j => Newer(list, q[i], q[j])
        /\ \A y \in t : \E i \in 1 .. n : q[i] = y
  <2>1. PICK q \in [1 .. n -> t] : Ordered(list, q, t)
    BY <1>4, <1>6
  <2>2. DOMAIN q = 1 .. n
    OBVIOUS
  <2> QED BY <2>1, <2>2 DEF Ordered
<1>8. PICK p : p = [i \in 1 .. n + 1 |-> IF i <= n THEN q[i] ELSE x]
  OBVIOUS
<1>9. /\ p \in [1 .. n + 1 -> s] /\ p[n + 1] = x
      /\ \A i \in 1 .. n : p[i] = q[i] /\ q[i] \in t
  <2>1. \A i \in 1 .. n + 1 : i <= n => i \in 1 .. n
    BY <1>5
  <2>2. ASSUME NEW i \in 1 .. n PROVE q[i] \in t /\ q[i] \in s /\ i \in 1 .. n + 1 /\ i <= n
    <3>1. q[i] \in t
      OBVIOUS
    <3>2. t \subseteq s
      BY <1>4
    <3>3. i \in 1 .. n + 1 /\ i <= n
      BY <1>5
    <3> QED BY <3>1, <3>2, <3>3
  <2>3. n + 1 \in 1 .. n + 1 /\ ~(n + 1 <= n)
    BY <1>5
  <2>4. p \in [1 .. n + 1 -> s]
    BY <1>8, <2>1, <2>2
  <2> QED BY <1>8, <2>2, <2>3, <2>4
<1>10. ASSUME NEW i \in 1 .. n + 1, NEW j \in 1 .. n + 1, i < j PROVE Newer(list, p[i], p[j])
  <2>1. i \in 1 .. n
    BY <1>5, <1>10
  <2>2. CASE j \in 1 .. n
    BY <1>7, <1>9, <1>10, <2>1, <2>2
  <2>3. CASE j = n + 1
    BY <1>3, <1>4, <1>9, <2>1, <2>3
  <2> QED BY <1>5, <2>2, <2>3
<1>11. s = {p[i] : i \in 1 .. n + 1}
  <2>1. ASSUME NEW y \in s PROVE \E i \in 1 .. n + 1 : p[i] = y
    <3>1. CASE y = x
      BY <1>5, <1>9, <3>1
    <3>2. CASE y # x
      <4>1. PICK i \in 1 .. n : q[i] = y
        BY <1>4, <1>7, <3>2
      <4> QED BY <1>5, <1>9, <4>1
    <3> QED BY <3>1, <3>2
  <2> QED BY <1>9, <2>1
<1>12. Ordered(list, p, s)
  BY <1>9, <1>10, <1>11 DEF Ordered
<1> QED BY <1>1, <1>5, <1>9, <1>12

-----------------------------------------------------------------------------
(* The rows.                                                                 *)

\* What is drawn or committed has been named by the generator, at the time of
\* the row, and names one row.
RowsInv ==
  /\ now <= MaxTime
  /\ drawn \in [{"orders", "trades"} -> SUBSET Row]
  /\ rows \in [Lists -> SUBSET Row]
  /\ \A list \in Lists : IsFiniteSet(rows[list])
  /\ \A list \in {"orders", "trades"} :
       /\ \A r \in drawn[list] \cup rows[list] :
            Named(list, r) /\ \E i \in 1 .. Len(issued) : issued[i] = r.id
       /\ \A r, s \in drawn[list] : r.id = s.id => r = s
       /\ \A r \in drawn[list], s \in rows[list] : r.id # s.id
  /\ \A list \in Lists : \A r, s \in rows[list] : r.id = s.id => r = s

(* A step of the lists is a step of the generator. *)
LEMMA ListsDraw == ListSpec => Spec
<1>1. ListInit => Init
  BY DEF ListInit
<1>2. [ListNext]_<<idVars, listVars>> => [NextId \/ Tick \/ Restart]_idVars
  BY DEF ListNext, Draw, CommitRow, DropRow, CloseRow, OpenList, NextPage, Elapse
<1> QED BY <1>1, <1>2, PTL DEF ListSpec, Spec

(* The generator returns at most one id, of the present millisecond and       *)
(* greater than all before.                                                  *)
LEMMA DrawnId ==
  ASSUME IdInv, IdInv', NextId
  PROVE  /\ now' = now
         /\ \/ issued' = issued
            \/ \E seq \in 0 .. MaxSequence :
                 /\ issued' = Append(issued, Id(now, seq))
                 /\ \A i \in 1 .. Len(issued) : issued[i] # Id(now, seq)
<1>1. issued \in Seq(Int) /\ now \in Nat /\ 0 \in 0 .. MaxSequence
  BY SequenceAssumption DEF IdInv, IdTypeOK
<1>2. ASSUME NEW seq \in 0 .. MaxSequence, Issue(now, seq)
      PROVE  /\ now' = now /\ issued' = Append(issued, Id(now, seq))
             /\ \A i \in 1 .. Len(issued) : issued[i] # Id(now, seq)
  <2>1. now' = now /\ issued' = Append(issued, Id(now, seq)) /\ Id(now, seq) \in Int
    BY <1>1, <1>2, IdIsNat DEF Issue
  <2>2. PICK n : n = Len(issued)
    OBVIOUS
  <2>3. /\ n \in Nat /\ Len(issued') = n + 1 /\ issued'[n + 1] = Id(now, seq)
        /\ \A i \in 1 .. n : issued'[i] = issued[i] /\ issued[i] \in Int
    BY <1>1, <2>1, <2>2
  <2>4. ASSUME NEW i \in 1 .. n PROVE issued[i] # Id(now, seq)
    <3>1. i \in 1 .. n + 1 /\ n + 1 \in 1 .. n + 1 /\ i < n + 1
      BY <2>3
    <3>2. issued'[i] < issued'[n + 1]
      BY <2>3, <3>1 DEF IdInv, IdsIncrease
    <3> QED BY <2>1, <2>3, <3>2
  <2> QED BY <2>1, <2>2, <2>4
<1>3. CASE FirstOfMs
  BY <1>1, <1>2, <1>3 DEF FirstOfMs
<1>4. CASE AnotherOfMs
  <2>1. NextSequence \in 0 .. MaxSequence
    BY SequenceAssumption DEF NextSequence, IdInv, IdTypeOK
  <2> QED BY <1>2, <1>4, <2>1 DEF AnotherOfMs
<1>5. CASE BeginWait
  BY <1>5 DEF BeginWait
<1>6. CASE EndWait
  BY <1>1, <1>2, <1>6 DEF EndWait
<1> QED BY <1>3, <1>4, <1>5, <1>6 DEF NextId

(* Naming a row keeps names unique. *)
LEMMA DrawKeepsRows ==
  ASSUME RowsInv, IdInv, IdInv', NEW list \in {"orders", "trades"}, Draw(list)
  PROVE  RowsInv'
<1>1. issued \in Seq(Int) /\ now \in Nat /\ now' = now /\ rows' = rows
  BY DrawnId DEF IdInv, IdTypeOK, Draw
<1>2. CASE issued' = issued
  <2>1. drawn' = drawn
    BY <1>2 DEF Draw
  <2> QED BY <1>1, <1>2, <2>1 DEF RowsInv
<1>3. ASSUME NEW seq \in 0 .. MaxSequence, issued' = Append(issued, Id(now, seq)),
             \A i \in 1 .. Len(issued) : issued[i] # Id(now, seq)
      PROVE  RowsInv'
  <2>1. PICK x, r, n : x = Id(now, seq) /\ r = [id |-> x, at |-> now, open |-> TRUE] /\ n = Len(issued)
    OBVIOUS
  <2>2. x \in Nat /\ r \in Row /\ r.id = x /\ r.at = now
    BY <1>1, <2>1, IdIsNat, BoundsAssumption DEF Row, RowsInv
  <2>3. /\ n \in Nat /\ Len(issued') = n + 1 /\ issued'[n + 1] = x
        /\ \A i \in 1 .. n : issued'[i] = issued[i] /\ i \in 1 .. n + 1
    BY <1>1, <1>3, <2>1, <2>2
  <2>4. drawn' = [drawn EXCEPT ![list] = @ \cup {r}]
    <3>1. Len(issued') # Len(issued) /\ issued'[Len(issued')] = x
      BY <2>1, <2>3
    <3> QED BY <2>1, <3>1 DEF Draw
  <2>5. drawn' \in [{"orders", "trades"} -> SUBSET Row]
    BY <2>2, <2>4 DEF RowsInv
  <2>6. \A l \in {"orders", "trades"} : drawn'[l] = IF l = list THEN drawn[l] \cup {r} ELSE drawn[l]
    BY <2>4 DEF RowsInv
  <2>7. Named(list, r)
    BY <2>1, <2>2 DEF Named
  <2>8. ASSUME NEW l \in {"orders", "trades"}
        PROVE  /\ \A q \in drawn'[l] \cup rows[l] :
                    Named(l, q) /\ \E i \in 1 .. n + 1 : issued'[i] = q.id
               /\ \A q, s \in drawn'[l] : q.id = s.id => q = s
               /\ \A q \in drawn'[l], s \in rows[l] : q.id # s.id
    <3>1. /\ \A q \in drawn[l] \cup rows[l] : Named(l, q) /\ \E i \in 1 .. n : issued[i] = q.id
          /\ \A q, s \in drawn[l] : q.id = s.id => q = s
          /\ \A q \in drawn[l], s \in rows[l] : q.id # s.id
      BY <2>1 DEF RowsInv
    <3>2. \A q \in drawn[l] \cup rows[l] : q.id # x
      BY <1>3, <2>1, <3>1
    <3>3. \A q \in drawn[l] \cup rows[l] : \E i \in 1 .. n + 1 : issued'[i] = q.id
      BY <2>3, <3>1
    <3>4. n + 1 \in 1 .. n + 1
      BY <2>3
    <3>5. \A q \in drawn'[l] : q \in drawn[l] \/ (l = list /\ q = r)
      BY <2>6
    <3> QED BY <2>2, <2>3, <2>7, <3>1, <3>2, <3>3, <3>4, <3>5
  <2> QED BY <1>1, <2>1, <2>3, <2>5, <2>8 DEF RowsInv
<1> QED BY <1>2, <1>3, DrawnId DEF Draw

(* So does a commit or a rollback ... *)
LEMMA CommitKeepsRows ==
  ASSUME RowsInv, NEW list \in {"orders", "trades"}, CommitRow(list) \/ DropRow(list)
  PROVE  RowsInv'
<1>1. PICK r \in drawn[list] :
        /\ drawn' = [drawn EXCEPT ![list] = @ \ {r}]
        /\ rows' = rows \/ rows' = [rows EXCEPT ![list] = @ \cup {r}]
        /\ UNCHANGED <<now, issued>>
  BY DEF CommitRow, DropRow, idVars
<1>2. list \in Lists /\ r \in Row
  BY <1>1 DEF Lists, RowsInv
<1>3. /\ drawn' \in [{"orders", "trades"} -> SUBSET Row]
      /\ \A l \in {"orders", "trades"} : drawn'[l] = IF l = list THEN drawn[l] \ {r} ELSE drawn[l]
  BY <1>1 DEF RowsInv
<1>4. /\ rows' \in [Lists -> SUBSET Row]
      /\ \A l \in Lists : rows'[l] = rows[l] \/ (l = list /\ rows'[l] = rows[l] \cup {r})
  <2>1. CASE rows' = rows
    BY <2>1 DEF RowsInv
  <2>2. CASE rows' = [rows EXCEPT ![list] = @ \cup {r}]
    BY <1>2, <2>2 DEF RowsInv
  <2> QED BY <1>1, <2>1, <2>2
<1>5. \A l \in Lists : IsFiniteSet(rows'[l])
  <2>1. IsFiniteSet(rows[list] \cup {r})
    BY <1>2, FS_AddElement DEF RowsInv
  <2> QED BY <1>4, <2>1 DEF RowsInv
<1>6. ASSUME NEW l \in {"orders", "trades"}
      PROVE  /\ \A q \in drawn'[l] \cup rows'[l] :
                  Named(l, q) /\ \E i \in 1 .. Len(issued) : issued[i] = q.id
             /\ \A q, s \in drawn'[l] : q.id = s.id => q = s
             /\ \A q \in drawn'[l], s \in rows'[l] : q.id # s.id
  <2>1. /\ \A q \in drawn[l] \cup rows[l] : Named(l, q) /\ \E i \in 1 .. Len(issued) : issued[i] = q.id
        /\ \A q, s \in drawn[l] : q.id = s.id => q = s
        /\ \A q \in drawn[l], s \in rows[l] : q.id # s.id
    BY DEF RowsInv
  <2>2. \A q \in drawn'[l] : q \in drawn[l] /\ (l = list => q # r)
    BY <1>3
  <2>3. \A q \in rows'[l] : q \in rows[l] \/ (l = list /\ q = r)
    BY <1>4 DEF Lists
  <2> QED BY <1>1, <2>1, <2>2, <2>3
<1>7. \A l \in Lists : \A q, s \in rows'[l] : q.id = s.id => q = s
  <2> SUFFICES ASSUME NEW l \in Lists, NEW q \in rows'[l], NEW s \in rows'[l], q.id = s.id
               PROVE  q = s
    OBVIOUS
  <2>1. \A p, w \in rows[l] : p.id = w.id => p = w
    BY DEF RowsInv
  <2>2. l = list => \A p \in rows[l] : p.id # r.id
    BY <1>1 DEF RowsInv
  <2> QED BY <1>4, <2>1, <2>2
<1> QED BY <1>1, <1>3, <1>4, <1>5, <1>6, <1>7 DEF RowsInv

(* ... and a row that is closed keeps its name. *)
LEMMA CloseKeepsRows ==
  ASSUME RowsInv, NEW list \in {"orders", "markets"}, CloseRow(list)
  PROVE  RowsInv'
<1>1. PICK r \in rows[list] :
        /\ rows' = [rows EXCEPT ![list] = (@ \ {r}) \cup {[r EXCEPT !.open = FALSE]}]
        /\ UNCHANGED <<now, issued, drawn>>
  BY DEF CloseRow, idVars
<1>2. PICK c : c = [r EXCEPT !.open = FALSE]
  OBVIOUS
<1>3. list \in Lists /\ r \in Row
  BY DEF Lists, RowsInv
<1>4. c \in Row /\ c.id = r.id /\ c.at = r.at
  BY <1>2, <1>3 DEF Row
<1>5. /\ rows' \in [Lists -> SUBSET Row]
      /\ \A l \in Lists : rows'[l] = IF l = list THEN (rows[l] \ {r}) \cup {c} ELSE rows[l]
  BY <1>1, <1>2, <1>3, <1>4 DEF RowsInv
<1>6. \A l \in Lists : IsFiniteSet(rows'[l])
  <2>1. IsFiniteSet((rows[list] \ {r}) \cup {c})
    BY <1>3, FS_AddElement, FS_RemoveElement DEF RowsInv
  <2> QED BY <1>5, <2>1 DEF RowsInv
<1>7. \A l : Named(l, r) => Named(l, c)
  BY <1>4 DEF Named
<1>8. ASSUME NEW l \in {"orders", "trades"}
      PROVE  /\ \A q \in drawn[l] \cup rows'[l] :
                  Named(l, q) /\ \E i \in 1 .. Len(issued) : issued[i] = q.id
             /\ \A q \in drawn[l], s \in rows'[l] : q.id # s.id
  <2>1. /\ \A q \in drawn[l] \cup rows[l] : Named(l, q) /\ \E i \in 1 .. Len(issued) : issued[i] = q.id
        /\ \A q \in drawn[l], s \in rows[l] : q.id # s.id
    BY DEF RowsInv
  <2>2. \A q \in rows'[l] : q \in rows[l] \/ (q = c /\ r \in rows[l])
    BY <1>1, <1>5 DEF Lists
  <2> QED BY <1>4, <1>7, <2>1, <2>2
<1>9. \A l \in Lists : \A q, s \in rows'[l] : q.id = s.id => q = s
  <2> SUFFICES ASSUME NEW l \in Lists, NEW q \in rows'[l], NEW s \in rows'[l], q.id = s.id
               PROVE  q = s
    OBVIOUS
  <2>1. \A p, w \in rows[l] : p.id = w.id => p = w
    BY DEF RowsInv
  <2>2. \A p \in rows'[l] : (p \in rows[l] /\ (l = list => p # r)) \/ (p = c /\ l = list)
    BY <1>5
  <2>3. l = list => \A p \in rows[l] : p # r => p.id # c.id
    BY <1>1, <1>4, <2>1
  <2> QED BY <2>1, <2>2, <2>3
<1> QED BY <1>1, <1>5, <1>6, <1>8, <1>9 DEF RowsInv

(* RowsInv is invariant. *)
LEMMA RowsInvariant == ListSpec => []RowsInv
<1>1. ListInit => RowsInv
  <2> SUFFICES ASSUME ListInit PROVE RowsInv
    OBVIOUS
  <2>1. now <= MaxTime /\ drawn \in [{"orders", "trades"} -> SUBSET Row]
    BY BoundsAssumption DEF ListInit, Init
  <2>2. /\ rows["orders"] = {} /\ rows["trades"] = {} /\ rows["markets"] = Markets
        /\ drawn["orders"] = {} /\ drawn["trades"] = {} /\ rows \in [Lists -> SUBSET Row]
    BY MarketsAssumption DEF ListInit, Lists
  <2>3. \A list \in Lists : IsFiniteSet(rows[list])
    BY <2>2, MarketsAssumption, FS_EmptySet DEF Lists
  <2>4. \A list \in Lists : \A r, s \in rows[list] : r.id = s.id => r = s
    BY <2>2, MarketsAssumption DEF Lists
  <2> QED BY <2>1, <2>2, <2>3, <2>4 DEF RowsInv
<1>2. RowsInv /\ IdInv /\ IdInv' /\ [ListNext]_<<idVars, listVars>> => RowsInv'
  <2> SUFFICES ASSUME RowsInv, IdInv, IdInv', [ListNext]_<<idVars, listVars>> PROVE RowsInv'
    OBVIOUS
  <2>1. CASE \E list \in {"orders", "trades"} : Draw(list)
    BY <2>1, DrawKeepsRows
  <2>2. CASE \E list \in {"orders", "trades"} : CommitRow(list) \/ DropRow(list)
    BY <2>2, CommitKeepsRows
  <2>3. CASE \E list \in {"orders", "markets"} : CloseRow(list)
    BY <2>3, CloseKeepsRows
  <2>4. CASE UNCHANGED <<now, issued, drawn, rows>>
    BY <2>4 DEF RowsInv
  <2>5. CASE Elapse
    <3>1. now' <= MaxTime
      BY <2>5, BoundsAssumption DEF Elapse, Tick, Restart, RowsInv, IdInv, IdTypeOK
    <3>2. issued' = issued /\ rows' = rows
      BY <2>5 DEF Elapse, Tick, Restart, listVars
    <3>3. CASE drawn' = drawn
      BY <3>1, <3>2, <3>3 DEF RowsInv
    <3>4. CASE drawn' = [orders |-> {}, trades |-> {}]
      <4>1. /\ drawn' \in [{"orders", "trades"} -> SUBSET Row]
            /\ \A l \in {"orders", "trades"} : drawn'[l] = {}
        BY <3>4
      <4> QED BY <3>1, <3>2, <4>1 DEF RowsInv
    <3> QED BY <2>5, <3>3, <3>4 DEF Elapse, listVars
  <2> QED BY <2>1, <2>2, <2>3, <2>4, <2>5 DEF ListNext, OpenList, NextPage, idVars, listVars
<1> QED BY <1>1, <1>2, ListsDraw, IdInvariant, PTL DEF ListSpec

-----------------------------------------------------------------------------
(* The client.                                                               *)

Client ==
  [list : Lists \cup {"none"}, limit : Nat, filter : BOOLEAN, cursor : [at : Nat, id : Nat],
   seen : Seq(Row), wanted : SUBSET Nat, more : BOOLEAN]

InOrder(list, q) == \A i, j \in 1 .. Len(q) : i < j => Newer(list, q[i], q[j])

Ids(q) == {q[i].id : i \in 1 .. Len(q)}

AllNamed(list, q) == \A i \in 1 .. Len(q) : Named(list, q[i])

\* Every row of page is older than every row of seen.
Follows(list, seen, page) ==
  \A i \in 1 .. Len(seen), j \in 1 .. Len(page) : Newer(list, seen[i], page[j])

\* c has a page to come: what it wants it has seen, or will find beyond its
\* cursor, which is the last row seen.
Reads(c, db) ==
  /\ c.list \in Lists /\ c.limit >= 1
  /\ AllNamed(c.list, c.seen)
  /\ InOrder(c.list, c.seen)
  /\ c.cursor = IF Len(c.seen) = 0 THEN NoCursor ELSE CursorOf(c.seen[Len(c.seen)])
  /\ \A x \in c.wanted :
       x \in Ids(c.seen) \/ \E r \in db[c.list] : r.id = x /\ Listed(c.list, r, c.filter)
                                                        /\ Beyond(c.list, r, c.cursor)

\* c has come to the end.
Done(c) == InOrder(c.list, c.seen) /\ c.wanted \subseteq Ids(c.seen)

ClientInv ==
  /\ client \in Client
  /\ IF client.more THEN Reads(client, rows) ELSE Done(client)

(* Older rows put after those seen keep the order. *)
LEMMA Extended ==
  ASSUME NEW list, NEW seen \in Seq(Row), NEW page \in Seq(Row),
         InOrder(list, seen), InOrder(list, page), Follows(list, seen, page),
         AllNamed(list, seen), AllNamed(list, page),
         NEW all, all = seen \o page
  PROVE  /\ all \in Seq(Row) /\ Len(all) = Len(seen) + Len(page)
         /\ InOrder(list, all) /\ AllNamed(list, all)
         /\ Ids(seen) \subseteq Ids(all) /\ Ids(page) \subseteq Ids(all)
         /\ Len(page) > 0 => all[Len(all)] = page[Len(page)]
<1>1. PICK n, m : n = Len(seen) /\ m = Len(page)
  OBVIOUS
<1>2. /\ n \in Nat /\ m \in Nat /\ all \in Seq(Row) /\ Len(all) = n + m
      /\ \A i \in 1 .. n + m : all[i] = IF i <= n THEN seen[i] ELSE page[i - n]
  BY <1>1, ConcatProperties
<1>3. \A i \in 1 .. n : i \in 1 .. n + m /\ all[i] = seen[i]
  BY <1>2
<1>4. \A i \in 1 .. m : n + i \in 1 .. n + m /\ all[n + i] = page[i]
  <2> TAKE i \in 1 .. m
  <2>1. n + i \in 1 .. n + m /\ ~(n + i <= n) /\ (n + i) - n = i
    BY <1>2
  <2> QED BY <1>2, <2>1
<1>5. \A i \in 1 .. n + m : i \in 1 .. n \/ \E j \in 1 .. m : i = n + j
  <2> TAKE i \in 1 .. n + m
  <2>1. CASE i <= n
    BY <1>2, <2>1
  <2>2. CASE n < i
    <3>1. i - n \in 1 .. m /\ i = n + (i - n)
      BY <1>2, <2>2
    <3> QED BY <3>1
  <2> QED BY <1>2, <2>1, <2>2
<1>6. ASSUME NEW i \in 1 .. n + m, NEW j \in 1 .. n + m, i < j PROVE Newer(list, all[i], all[j])
  <2>1. CASE i \in 1 .. n /\ j \in 1 .. n
    BY <1>1, <1>3, <1>6, <2>1 DEF InOrder
  <2>2. ASSUME NEW k \in 1 .. m, i \in 1 .. n, j = n + k PROVE Newer(list, all[i], all[j])
    BY <1>1, <1>3, <1>4, <2>2 DEF Follows
  <2>3. ASSUME NEW h \in 1 .. m, NEW k \in 1 .. m, i = n + h, j = n + k PROVE Newer(list, all[i], all[j])
    <3>1. h < k
      BY <1>2, <1>6, <2>3
    <3> QED BY <1>1, <1>4, <2>3, <3>1 DEF InOrder
  <2>4. ASSUME NEW h \in 1 .. m, i = n + h, j \in 1 .. n PROVE FALSE
    BY <1>2, <1>6, <2>4
  <2> QED BY <1>5, <2>1, <2>2, <2>3, <2>4
<1>7. \A i \in 1 .. n + m : Named(list, all[i])
  BY <1>1, <1>3, <1>4, <1>5 DEF AllNamed
<1>8. Ids(seen) \subseteq Ids(all) /\ Ids(page) \subseteq Ids(all)
  <2>1. Ids(all) = {all[i].id : i \in 1 .. n + m}
    BY <1>2 DEF Ids
  <2>2. \A i \in 1 .. n : seen[i].id \in Ids(all)
    BY <1>3, <2>1
  <2>3. \A i \in 1 .. m : page[i].id \in Ids(all)
    BY <1>4, <2>1
  <2> QED BY <1>1, <2>2, <2>3 DEF Ids
<1>9. m > 0 => all[n + m] = page[m]
  <2>1. m > 0 => m \in 1 .. m
    BY <1>2
  <2> QED BY <1>4, <2>1
<1> QED BY <1>1, <1>2, <1>6, <1>7, <1>8, <1>9 DEF InOrder, AllNamed

(* What a query finds: the rows beyond the cursor, the newest first. *)
LEMMA QueryFinds ==
  ASSUME RowsInv, NEW c, c.list \in Lists, NEW T,
         T = {r \in rows[c.list] : Listed(c.list, r, c.filter) /\ Beyond(c.list, r, c.cursor)},
         NEW q, q = Query(c)
  PROVE  /\ T \subseteq Row /\ \A r \in T : Named(c.list, r)
         /\ q \in Seq(Row) /\ InOrder(c.list, q) /\ T = {q[i] : i \in 1 .. Len(q)}
<1>1. T \subseteq rows[c.list] /\ rows[c.list] \subseteq Row /\ IsFiniteSet(rows[c.list])
  BY DEF RowsInv
<1>2. \A r, s \in T : r.id = s.id => r = s
  BY <1>1 DEF RowsInv
<1>3. \A r \in T : Named(c.list, r)
  BY <1>1 DEF RowsInv, Named
<1>4. IsFiniteSet(T) /\ Cardinality(T) \in Nat
  BY <1>1, FS_Subset, FS_CardinalityType
<1>5. \E p \in [1 .. Cardinality(T) -> T] : Ordered(c.list, p, T)
  BY <1>1, <1>2, <1>4, OrderExists
<1>6. q = CHOOSE p \in [1 .. Cardinality(T) -> T] : Ordered(c.list, p, T)
  BY DEF Query
<1>7. q \in [1 .. Cardinality(T) -> T] /\ Ordered(c.list, q, T)
  BY <1>5, <1>6
<1>8. PICK n \in Nat : n = Cardinality(T)
  BY <1>4
<1>9. q \in [1 .. n -> Row] /\ DOMAIN q = 1 .. n
  BY <1>1, <1>7, <1>8
<1>10. q \in Seq(Row) /\ Len(q) = n
  BY <1>9
<1> QED BY <1>1, <1>3, <1>7, <1>9, <1>10 DEF Ordered, InOrder

(* A page and its cursor: what has not been seen is still beyond the cursor. *)
LEMMA PageRead ==
  ASSUME RowsInv, NEW c \in Client, Reads(c, rows), NEW d, d = Paged(c)
  PROVE  d \in Client /\ IF d.more THEN Reads(d, rows) ELSE Done(d)
<1>1. PICK T, q : /\ T = {r \in rows[c.list] : Listed(c.list, r, c.filter) /\ Beyond(c.list, r, c.cursor)}
                  /\ q = Query(c)
  OBVIOUS
<1>2. PICK seen, n, m : seen = c.seen /\ n = Len(seen) /\ m = Len(q)
  OBVIOUS
<1>3. /\ c.list \in Lists /\ c.limit \in Nat /\ c.limit >= 1
      /\ seen \in Seq(Row) /\ n \in Nat /\ InOrder(c.list, seen) /\ AllNamed(c.list, seen)
      /\ \A i \in 1 .. n : seen[i] \in Row /\ Named(c.list, seen[i])
  BY <1>2 DEF Reads, Client, AllNamed
<1>4. /\ T \subseteq Row /\ \A r \in T : Named(c.list, r)
      /\ q \in Seq(Row) /\ InOrder(c.list, q) /\ T = {q[i] : i \in 1 .. m} /\ m \in Nat
  BY <1>1, <1>2, <1>3, QueryFinds
<1>5. ASSUME NEW i \in 1 .. n, NEW r \in T PROVE Newer(c.list, seen[i], r)
  <2>1. n \in 1 .. n /\ n # 0
    BY <1>3
  <2>2. Beyond(c.list, r, CursorOf(seen[n]))
    BY <1>1, <1>2, <2>1 DEF Reads
  <2>3. Newer(c.list, seen[n], r)
    BY <1>3, <1>4, <2>1, <2>2, BeyondIsOlder
  <2>4. CASE i = n
    BY <2>3, <2>4
  <2>5. CASE i < n
    <3>1. Newer(c.list, seen[i], seen[n])
      BY <1>2, <1>3, <2>1, <2>5 DEF InOrder
    <3> QED BY <1>3, <1>4, <2>1, <2>3, <3>1, NewerTransitive
  <2> QED BY <1>3, <2>4, <2>5
<1>6. ASSUME NEW x \in c.wanted, x \notin Ids(seen) PROVE \E k \in 1 .. m : q[k].id = x
  <2>1. PICK r \in T : r.id = x
    BY <1>1, <1>2, <1>6 DEF Reads
  <2> QED BY <1>4, <2>1
<1>7. CASE m <= c.limit
  <2>1. d = [c EXCEPT !.seen = seen \o q, !.more = FALSE, !.cursor = NoCursor]
    <3>1. (Len(q) > c.limit) = FALSE
      BY <1>2, <1>3, <1>4, <1>7
    <3> QED BY <1>1, <1>2, <3>1 DEF Paged
  <2>2. PICK all : all = seen \o q
    OBVIOUS
  <2>3. all \in Seq(Row) /\ InOrder(c.list, all) /\ Ids(seen) \subseteq Ids(all) /\ Ids(q) \subseteq Ids(all)
    <3>1. Follows(c.list, seen, q)
      BY <1>2, <1>4, <1>5 DEF Follows
    <3>2. AllNamed(c.list, q)
      BY <1>2, <1>4 DEF AllNamed
    <3> QED BY <1>3, <1>4, <2>2, <3>1, <3>2, Extended
  <2>4. NoCursor \in [at : Nat, id : Nat]
    BY BoundsAssumption DEF NoCursor
  <2>5. d \in Client
    BY <2>1, <2>2, <2>3, <2>4 DEF Client
  <2>6. d.list = c.list /\ d.seen = all /\ d.wanted = c.wanted /\ d.more = FALSE
    BY <2>1, <2>2 DEF Client
  <2>7. \A x \in c.wanted : x \in Ids(all)
    BY <1>2, <1>6, <2>3 DEF Ids
  <2> QED BY <2>3, <2>5, <2>6, <2>7 DEF Done
<1>8. CASE c.limit < m
  <2>1. PICK k, page : k = c.limit /\ page = SubSeq(q, 1, k)
    OBVIOUS
  <2>2. k \in 1 .. m /\ k \in 1 .. k /\ k \in Nat
    BY <1>3, <1>4, <1>8, <2>1
  <2>3. page \in Seq(Row) /\ Len(page) = k /\ \A i \in 1 .. k : page[i] = q[i] /\ i \in 1 .. m
    BY <1>2, <1>4, <2>1, <2>2
  <2>4. d = [c EXCEPT !.seen = seen \o page, !.more = TRUE, !.cursor = CursorOf(q[k])]
    <3>1. (Len(q) > c.limit) = TRUE
      BY <1>2, <1>3, <1>4, <1>8
    <3> QED BY <1>1, <1>2, <2>1, <3>1 DEF Paged, NextCursor, CursorOf
  <2>5. PICK all : all = seen \o page
    OBVIOUS
  <2>6. /\ all \in Seq(Row) /\ InOrder(c.list, all) /\ Ids(seen) \subseteq Ids(all) /\ Ids(page) \subseteq Ids(all)
        /\ Len(all) = n + k /\ all[n + k] = q[k]
        /\ AllNamed(c.list, all)
    <3>1. Follows(c.list, seen, page)
      BY <1>2, <1>4, <1>5, <2>3 DEF Follows
    <3>2. AllNamed(c.list, page)
      BY <1>4, <2>3 DEF AllNamed
    <3>3. InOrder(c.list, page)
      BY <1>2, <1>4, <2>3 DEF InOrder
    <3>4. /\ all \in Seq(Row) /\ Len(all) = Len(seen) + Len(page)
          /\ InOrder(c.list, all) /\ AllNamed(c.list, all)
          /\ Ids(seen) \subseteq Ids(all) /\ Ids(page) \subseteq Ids(all)
          /\ Len(page) > 0 => all[Len(all)] = page[Len(page)]
      <4>1. seen \in Seq(Row) /\ page \in Seq(Row) /\ InOrder(c.list, seen) /\ AllNamed(c.list, seen)
        BY <1>3, <2>3
      <4>2. all \in Seq(Row)
        BY <2>5, <3>1, <3>2, <3>3, <4>1, Extended
      <4>3. Len(all) = Len(seen) + Len(page)
        BY <2>5, <3>1, <3>2, <3>3, <4>1, Extended
      <4>4. InOrder(c.list, all) /\ AllNamed(c.list, all)
        BY <2>5, <3>1, <3>2, <3>3, <4>1, Extended
      <4>5. Ids(seen) \subseteq Ids(all) /\ Ids(page) \subseteq Ids(all)
        BY <2>5, <3>1, <3>2, <3>3, <4>1, Extended
      <4>6. Len(page) > 0 => all[Len(all)] = page[Len(page)]
        BY <2>5, <3>1, <3>2, <3>3, <4>1, Extended
      <4> QED BY <4>2, <4>3, <4>4, <4>5, <4>6
    <3>5. Len(all) = n + k
      BY <1>2, <2>3, <3>4
    <3>6. all[n + k] = q[k]
      BY <2>2, <2>3, <3>4, <3>5
    <3> QED BY <3>4, <3>5, <3>6
  <2>7. q[k] \in Row /\ q[k] \in T
    BY <1>4, <2>2
  <2>8. CursorOf(q[k]) \in [at : Nat, id : Nat]
    BY <2>7, BoundsAssumption DEF CursorOf, Row
  <2>9. d \in Client
    BY <2>4, <2>5, <2>6, <2>8 DEF Client
  <2>10. /\ d.list = c.list /\ d.filter = c.filter /\ d.limit = c.limit /\ d.seen = all
         /\ d.wanted = c.wanted /\ d.more = TRUE /\ d.cursor = CursorOf(q[k])
    BY <2>4, <2>5 DEF Client
  <2>11. ASSUME NEW x \in c.wanted, x \notin Ids(all)
         PROVE  \E r \in rows[c.list] : /\ r.id = x /\ Listed(c.list, r, c.filter)
                                        /\ Beyond(c.list, r, CursorOf(q[k]))
    <3>1. PICK j \in 1 .. m : q[j].id = x
      BY <1>6, <2>6, <2>11
    <3>2. ~(j <= k)
      <4> SUFFICES ASSUME j <= k PROVE FALSE
        OBVIOUS
      <4>1. j \in 1 .. k
        BY <1>4, <2>2
      <4>2. x \in Ids(page)
        BY <2>3, <3>1, <4>1 DEF Ids
      <4> QED BY <2>6, <2>11, <4>2
    <3>3. Newer(c.list, q[k], q[j])
      BY <1>2, <1>4, <2>2, <3>2 DEF InOrder
    <3>4. q[j] \in T /\ q[j] \in Row
      BY <1>4
    <3>5. Beyond(c.list, q[j], CursorOf(q[k]))
      BY <1>3, <1>4, <2>7, <3>3, <3>4, BeyondIsOlder
    <3> QED BY <1>1, <3>1, <3>4, <3>5
  <2>12. n + k # 0
    BY <1>3, <2>2
  <2> QED BY <1>3, <2>6, <2>9, <2>10, <2>11, <2>12 DEF Reads
<1> QED BY <1>3, <1>4, <1>7, <1>8

(* Rows that are added or kept leave the client what it waits for. *)
LEMMA StillReads ==
  ASSUME ClientInv, client' = client, rows \in [Lists -> SUBSET Row],
         \A list \in Lists : rows[list] \subseteq rows'[list]
  PROVE  ClientInv'
<1>1. ASSUME Reads(client, rows) PROVE Reads(client, rows')
  <2>1. client.list \in Lists
    BY <1>1 DEF Reads
  <2>2. \A r \in rows[client.list] : r \in rows'[client.list]
    BY <2>1
  <2> QED BY <1>1, <2>2 DEF Reads
<1>2. CASE client.more
  <2>1. Reads(client, rows')
    BY <1>1, <1>2 DEF ClientInv
  <2> QED BY <1>2, <2>1 DEF ClientInv
<1>3. CASE ~client.more
  BY <1>3 DEF ClientInv
<1> QED BY <1>2, <1>3

(* A row that is closed stays in the list, or is no longer wanted. *)
LEMMA CloseKeepsClient ==
  ASSUME RowsInv, ClientInv, NEW list \in {"orders", "markets"}, CloseRow(list)
  PROVE  ClientInv'
<1>1. PICK r \in rows[list] :
        /\ rows' = [rows EXCEPT ![list] = (@ \ {r}) \cup {[r EXCEPT !.open = FALSE]}]
        /\ client' = IF client.list = list /\ client.filter
                     THEN [client EXCEPT !.wanted = @ \ {r.id}] ELSE client
  BY DEF CloseRow
<1>2. PICK c, d : c = [r EXCEPT !.open = FALSE] /\ d = client'
  OBVIOUS
<1>3. list \in Lists /\ r \in Row /\ client \in Client
  BY DEF Lists, RowsInv, ClientInv
<1>4. c \in Row /\ c.id = r.id /\ c.at = r.at
  BY <1>2, <1>3 DEF Row
<1>5. \A l \in Lists : rows'[l] = IF l = list THEN (rows[l] \ {r}) \cup {c} ELSE rows[l]
  BY <1>1, <1>2, <1>3 DEF RowsInv
<1>6. /\ d \in Client /\ d.list = client.list /\ d.limit = client.limit /\ d.filter = client.filter
      /\ d.cursor = client.cursor /\ d.seen = client.seen /\ d.more = client.more
      /\ \A x \in d.wanted : x \in client.wanted /\ (client.list = list /\ client.filter => x # r.id)
  <2>1. CASE client.list = list /\ client.filter
    <3>1. d = [client EXCEPT !.wanted = @ \ {r.id}]
      BY <1>1, <1>2, <2>1
    <3> QED BY <1>3, <3>1 DEF Client
  <2>2. CASE ~(client.list = list /\ client.filter)
    BY <1>1, <1>2, <1>3, <2>2
  <2> QED BY <2>1, <2>2
<1>7. CASE client.more
  <2>1. Reads(client, rows)
    BY <1>7 DEF ClientInv
  <2>2. ASSUME NEW x \in d.wanted, x \notin Ids(d.seen)
        PROVE  \E q \in rows'[d.list] : q.id = x /\ Listed(d.list, q, d.filter) /\ Beyond(d.list, q, d.cursor)
    <3>1. PICK q \in rows[client.list] : /\ q.id = x /\ Listed(client.list, q, client.filter)
                                         /\ Beyond(client.list, q, client.cursor)
      BY <1>6, <2>1, <2>2 DEF Reads
    <3>2. client.list \in Lists
      BY <2>1 DEF Reads
    <3>3. CASE client.list = list /\ q = r
      <4>1. ~client.filter /\ c \in rows'[client.list]
        BY <1>5, <1>6, <3>1, <3>2, <3>3
      <4>2. Listed(client.list, c, client.filter)
        BY <4>1 DEF Listed
      <4>3. Beyond(client.list, c, client.cursor)
        BY <1>4, <3>1, <3>3 DEF Beyond
      <4> QED BY <1>4, <1>6, <3>1, <3>3, <4>1, <4>2, <4>3
    <3>4. CASE ~(client.list = list /\ q = r)
      BY <1>5, <1>6, <3>1, <3>2, <3>4
    <3> QED BY <3>3, <3>4
  <2>3. Reads(d, rows')
    BY <1>6, <2>1, <2>2 DEF Reads
  <2> QED BY <1>2, <1>6, <1>7, <2>3 DEF ClientInv
<1>8. CASE ~client.more
  <2>1. Done(client)
    BY <1>8 DEF ClientInv
  <2>2. Done(d)
    BY <1>6, <2>1 DEF Done
  <2> QED BY <1>2, <1>6, <1>8, <2>2 DEF ClientInv
<1> QED BY <1>7, <1>8

(* NoClient wants nothing and has seen nothing. *)
LEMMA Nobody ==
  ASSUME NEW none, none = NoClient
  PROVE  /\ none \in Client /\ none.cursor = NoCursor /\ none.more = FALSE
         /\ none.seen = <<>> /\ none.wanted = {}
<1>1. PICK null : null = <<>>
  OBVIOUS
<1>2. null \in Seq(Row)
  BY <1>1
<1>3. NoCursor \in [at : Nat, id : Nat]
  BY BoundsAssumption DEF NoCursor
<1>4. none = [list |-> "none", limit |-> 0, filter |-> FALSE, cursor |-> NoCursor,
              seen |-> null, wanted |-> {}, more |-> FALSE]
  BY <1>1 DEF NoClient
<1> QED BY <1>1, <1>2, <1>3, <1>4 DEF Client

(* ClientInv is invariant, whatever happens to the rows between the pages. *)
THEOREM ListingsInductive == ListSpec => [](RowsInv /\ ClientInv)
<1>1. ListInit => ClientInv
  <2> SUFFICES ASSUME ListInit PROVE ClientInv
    OBVIOUS
  <2>1. PICK none : none = NoClient
    OBVIOUS
  <2>2. none \in Client /\ ~none.more /\ none.seen = <<>> /\ none.wanted = {}
    BY <2>1, Nobody
  <2>3. Done(none)
    BY <2>2 DEF Done, InOrder
  <2> QED BY <2>1, <2>2, <2>3 DEF ListInit, ClientInv
<1>2. RowsInv /\ ClientInv /\ [ListNext]_<<idVars, listVars>> => ClientInv'
  <2> SUFFICES ASSUME RowsInv, ClientInv, [ListNext]_<<idVars, listVars>> PROVE ClientInv'
    OBVIOUS
  <2>1. rows \in [Lists -> SUBSET Row]
    BY DEF RowsInv
  <2>2. CASE UNCHANGED <<rows, client>>
    BY <2>1, <2>2, StillReads
  <2>3. ASSUME NEW list \in {"orders", "trades"}, CommitRow(list) PROVE ClientInv'
    <3>1. PICK r : rows' = [rows EXCEPT ![list] = @ \cup {r}]
      BY <2>3 DEF CommitRow
    <3>2. \A l \in Lists : rows[l] \subseteq rows'[l]
      BY <2>1, <3>1
    <3> QED BY <2>1, <2>3, <3>2, StillReads DEF CommitRow
  <2>4. CASE \E list \in {"orders", "markets"} : CloseRow(list)
    BY <2>4, CloseKeepsClient
  <2>5. ASSUME NEW c \in Client, Reads(c, rows), client' = Paged(c), rows' = rows PROVE ClientInv'
    BY <2>5, PageRead DEF ClientInv
  <2>6. CASE NextPage
    BY <2>5, <2>6 DEF NextPage, ClientInv
  <2>7. ASSUME NEW list \in Lists, NEW limit \in Limits, NEW filter \in BOOLEAN,
               OpenList(list, limit, filter)
        PROVE  ClientInv'
    <3>1. PICK wanted : wanted = {r.id : r \in {x \in rows[list] : Listed(list, x, filter)}}
      OBVIOUS
    <3>2. PICK none, c : /\ none = NoClient
                         /\ c = [none EXCEPT !.list = list, !.limit = limit, !.filter = filter, !.wanted = wanted]
      OBVIOUS
    <3>3. client' = Paged(c) /\ rows' = rows
      BY <2>7, <3>1, <3>2 DEF OpenList
    <3>4. none \in Client /\ none.cursor = NoCursor /\ none.seen = <<>>
      BY <3>2, Nobody
    <3>5. wanted \subseteq Nat
      BY <2>1, <3>1 DEF Row
    <3>6. limit \in Nat /\ limit >= 1
      BY LimitsAssumption
    <3>7. c \in Client
      BY <3>2, <3>4, <3>5, <3>6 DEF Client
    <3>8. /\ c.list = list /\ c.limit = limit /\ c.filter = filter /\ c.cursor = NoCursor
          /\ c.seen = <<>> /\ c.wanted = wanted
      BY <3>2, <3>4 DEF Client
    <3>9. \A x \in wanted : \E r \in rows[list] : r.id = x /\ Listed(list, r, filter) /\ Beyond(list, r, NoCursor)
      <4>1. \A r : Beyond(list, r, NoCursor)
        BY DEF Beyond
      <4> QED BY <3>1, <4>1
    <3>10. Reads(c, rows)
      BY <3>6, <3>8, <3>9 DEF Reads, InOrder, AllNamed
    <3> QED BY <2>5, <3>3, <3>7, <3>10
  <2> QED
    BY <2>2, <2>3, <2>4, <2>6, <2>7 DEF ListNext, Draw, DropRow, Elapse, listVars
<1> QED BY <1>1, <1>2, RowsInvariant, PTL DEF ListSpec

(* list_orders (pm_order/application/service.py:143), list_trades and
   list_markets: a client that follows next_cursor to the end has seen every
   row that was there when it began and has stayed. *)
THEOREM NothingIsSkipped == ListSpec => []NothingSkipped
<1>1. ClientInv => NothingSkipped
  BY DEF ClientInv, Done, Ids, NothingSkipped
<1> QED BY <1>1, ListingsInductive, PTL

(* It has seen them newest first, and none twice, across all pages. *)
THEOREM SeenInOrder == ListSpec => []NewestFirst
<1>1. ClientInv => NewestFirst
  BY DEF ClientInv, Done, Reads, InOrder, NewestFirst
<1> QED BY <1>1, ListingsInductive, PTL

(* The ids that name the rows increase, under everything else that goes on. *)
THEOREM RowIdsIncrease == ListSpec => [](IdsIncrease /\ IdTypeOK)
<1>1. IdInv => IdsIncrease /\ IdTypeOK
  BY DEF IdInv
<1> QED BY <1>1, ListsDraw, IdInvariant, PTL
=============================================================================
