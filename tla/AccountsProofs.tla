--------------------------- MODULE AccountsProofs ---------------------------
(* The row lock serialises the transactions of an account from the UPDATE to *)
(* the commit: balances stay legal, accounts and ledgers change as if        *)
(* operations ran one after another, and a client that pages through a       *)
(* ledger misses nothing, for any number of users, sessions and entries.     *)
EXTENDS Accounts, CollectionProofs, SequenceTheorems

\* At most one transaction holds the row of an account.
OneWriter ==
  \A s, t \in Sessions :
    tx[s].step # "idle" /\ tx[t].step # "idle" /\ tx[s].user = tx[t].user => s = t

\* Ids in use are below the sequence, those being written above those of the
\* account's ledger.
IdsBelow ==
  /\ \A u \in Users : \A i \in 1 .. Len(ledger[u]) : ledger[u][i].id < nextId
  /\ \A s \in Sessions : tx[s].step = "written" =>
       /\ tx[s].entry.id < nextId
       /\ \A i \in 1 .. Len(ledger[tx[s].user]) : ledger[tx[s].user][i].id < tx[s].entry.id

AccountInv == AccountTypeOK /\ OneWriter /\ IdsBelow

(* The row an UPDATE leaves behind is a legal row. *)
LEMMA UpdateLegal ==
  ASSUME NEW row \in Row, NEW type \in Operations, NEW n \in Nat, Enough(row, type, n)
  PROVE  AfterUpdate(row, type, n) \in Row
<1>1. row.avail \in Nat /\ row.frozen \in Nat /\ DOMAIN row = {"avail", "frozen"}
      /\ row = [avail |-> row.avail, frozen |-> row.frozen]
  BY DEF Row
<1>2. CASE type \in {"DEPOSIT", "RECEIVE"}
  BY <1>1, <1>2 DEF Row, AfterUpdate, Gained
<1>3. CASE type \in {"WITHDRAW", "CHARGE"}
  BY <1>1, <1>3 DEF Row, Enough, AfterUpdate, Charged
<1>4. CASE type = "ORDER_FREEZE"
  BY <1>1, <1>4 DEF Row, Enough, AfterUpdate, Frozen
<1>5. CASE type = "SPEND"
  BY <1>1, <1>5 DEF Row, Enough, AfterUpdate, Spent
<1>6. CASE type \in {"ORDER_UNFREEZE", "RELEASE"}
  BY <1>1, <1>6 DEF Row, Enough, AfterUpdate, Unfrozen
<1> QED BY <1>2, <1>3, <1>4, <1>5, <1>6 DEF Operations, EntryTypes, Silent

(* The step of a transaction determines the fields it has. *)
LEMMA TxShape ==
  ASSUME AccountTypeOK, NEW s \in Sessions
  PROVE  /\ tx[s].step \in {"idle", "updated", "written"}
         /\ tx[s].step = "updated" => tx[s] \in Updated
         /\ tx[s].step = "written" => tx[s] \in Written
BY DEF AccountTypeOK, Idle, Updated, Written

(* Before any operation every ledger is empty and every balance 0. *)
LEMMA AccountInit == Init => AccountInv
<1> SUFFICES ASSUME Init PROVE AccountInv
  OBVIOUS
<1>1. AccountTypeOK
  BY DEF Init, AccountTypeOK, Row, Idle, NoTx
<1>2. OneWriter /\ IdsBelow
  BY DEF Init, OneWriter, IdsBelow, NoTx
<1> QED BY <1>1, <1>2 DEF AccountInv

(* UPDATE takes the lock and computes the new row from the committed one. *)
LEMMA UpdateInv ==
  ASSUME AccountInv, NEW s \in Sessions, NEW u \in Users, NEW type \in Operations,
         NEW n \in Amounts, Update(s, u, type, n)
  PROVE  AccountInv'
<1> DEFINE new == [step |-> "updated", user |-> u, type |-> type,
                   amount |-> n, row |-> AfterUpdate(account[u], type, n)]
<1>1. n \in Nat \ {0} /\ account[u] \in Row
  BY AmountsAssumption DEF AccountInv, AccountTypeOK
<1>2. AfterUpdate(account[u], type, n) \in Row
  BY <1>1, UpdateLegal DEF Update
<1>3. new \in Updated
  BY <1>1, <1>2 DEF Updated
<1>4. /\ tx' = [tx EXCEPT ![s] = new] /\ Unlocked(u)
      /\ UNCHANGED <<account, ledger, nextId>>
  BY DEF Update
<1>5. AccountTypeOK'
  BY <1>3, <1>4 DEF AccountInv, AccountTypeOK
<1>6. \A t \in Sessions : tx'[t] = IF t = s THEN new ELSE tx[t]
  BY <1>4 DEF AccountInv, AccountTypeOK
<1>7. OneWriter'
  BY <1>4, <1>6 DEF AccountInv, OneWriter, Unlocked
<1>8. IdsBelow'
  BY <1>4, <1>6 DEF AccountInv, IdsBelow
<1> QED BY <1>5, <1>7, <1>8 DEF AccountInv

(* INSERT draws an id above all others. *)
LEMMA InsertInv ==
  ASSUME AccountInv, NEW s \in Sessions, InsertEntry(s)
  PROVE  AccountInv'
<1> DEFINE e == [id |-> nextId, type |-> tx[s].type,
                 amount |-> Signed(tx[s].type, tx[s].amount), after |-> BalanceEntered(tx[s].type, tx[s].row)]
           new == [step |-> "written", user |-> tx[s].user, row |-> tx[s].row, entry |-> e]
<1>1. tx[s].step = "updated" /\ tx[s] \in Updated
  BY TxShape DEF InsertEntry, AccountInv
<1>2. /\ tx' = [tx EXCEPT ![s] = new] /\ nextId' = nextId + 1
      /\ UNCHANGED <<account, ledger>>
  BY DEF InsertEntry
<1>3. tx[s].user \in Users /\ tx[s].row \in Row /\ tx[s].type \in EntryTypes
      /\ tx[s].amount \in Nat \ {0} /\ nextId \in Nat \ {0}
  BY <1>1 DEF Updated, AccountInv, AccountTypeOK, InsertEntry
<1>4. e \in LedgerEntry
  BY <1>3 DEF LedgerEntry, Row, Signed, BalanceEntered
<1>5. new \in Written
  BY <1>3, <1>4 DEF Written
<1>6. \A t \in Sessions : tx'[t] = IF t = s THEN new ELSE tx[t]
  BY <1>2 DEF AccountInv, AccountTypeOK
<1>7. AccountTypeOK'
  BY <1>2, <1>3, <1>5 DEF AccountInv, AccountTypeOK
<1>8. OneWriter'
  BY <1>1, <1>6 DEF AccountInv, OneWriter
<1>9. IdsBelow'
  <2>1. \A u \in Users : \A i \in 1 .. Len(ledger[u]) : ledger[u][i].id \in Nat /\ ledger[u][i].id < nextId
    <3> SUFFICES ASSUME NEW u \in Users, NEW i \in 1 .. Len(ledger[u])
                 PROVE  ledger[u][i].id \in Nat /\ ledger[u][i].id < nextId
      OBVIOUS
    <3>1. ledger[u] \in Seq(LedgerEntry)
      BY DEF AccountInv, AccountTypeOK
    <3>2. ledger[u][i] \in LedgerEntry
      BY <3>1
    <3> QED BY <3>2 DEF AccountInv, IdsBelow, LedgerEntry
  <2>2. \A t \in Sessions : tx[t].step = "written" =>
          tx[t].entry.id \in Nat /\ tx[t].entry.id < nextId
    BY TxShape DEF AccountInv, IdsBelow, Written, LedgerEntry
  <2> QED BY <1>2, <1>3, <1>6, <2>1, <2>2 DEF AccountInv, IdsBelow
<1> QED BY <1>7, <1>8, <1>9 DEF AccountInv

(* A commit appends an entry with an id above those of the ledger. *)
LEMMA CommitInv ==
  ASSUME AccountInv, NEW s \in Sessions, Commit(s)
  PROVE  AccountInv'
<1> DEFINE w == tx[s].user
           e == tx[s].entry
<1>1. tx[s].step = "written" /\ tx[s] \in Written
  BY TxShape DEF Commit, AccountInv
<1>2. w \in Users /\ e \in LedgerEntry /\ tx[s].row \in Row
  BY <1>1 DEF Written
<1>3. /\ account' = [account EXCEPT ![w] = tx[s].row]
      /\ ledger' = [ledger EXCEPT ![w] = Append(@, e)]
      /\ tx' = [tx EXCEPT ![s] = NoTx] /\ nextId' = nextId
  BY DEF Commit
<1>4. AccountTypeOK'
  BY <1>2, <1>3 DEF AccountInv, AccountTypeOK, Idle, NoTx
<1>5. \A t \in Sessions : tx'[t] = IF t = s THEN NoTx ELSE tx[t]
  BY <1>3 DEF AccountInv, AccountTypeOK
<1>6. \A t \in Sessions : t # s /\ tx[t].step # "idle" => tx[t].user # w
  BY <1>1 DEF AccountInv, OneWriter
<1>7. OneWriter'
  BY <1>5 DEF AccountInv, OneWriter, NoTx
<1>8. \A u \in Users : u # w => account'[u] = account[u] /\ ledger'[u] = ledger[u]
  BY <1>3 DEF AccountInv, AccountTypeOK
<1>9. account'[w] = tx[s].row /\ ledger'[w] = Append(ledger[w], e)
  BY <1>2, <1>3 DEF AccountInv, AccountTypeOK
<1>10. \A t \in Sessions : tx'[t].step # "idle" =>
         /\ t # s /\ tx'[t] = tx[t] /\ tx[t].user \in Users /\ tx[t].user # w
         /\ tx[t].step \in {"updated", "written"}
  BY <1>5, <1>6, TxShape DEF AccountInv, NoTx, Updated, Written
<1>11. ledger[w] \in Seq(LedgerEntry) /\ ledger'[w] \in Seq(LedgerEntry)
       /\ Len(ledger'[w]) = Len(ledger[w]) + 1 /\ Len(ledger[w]) \in Nat
       /\ ledger'[w][Len(ledger[w]) + 1] = e
       /\ \A i \in 1 .. Len(ledger[w]) : ledger'[w][i] = ledger[w][i]
  BY <1>2, <1>9 DEF AccountInv, AccountTypeOK
<1>12. IdsBelow'
  <2>1. \A i \in 1 .. Len(ledger'[w]) : ledger'[w][i].id < nextId
    <3> SUFFICES ASSUME NEW i \in 1 .. Len(ledger'[w]) PROVE ledger'[w][i].id < nextId
      OBVIOUS
    <3>1. CASE i = Len(ledger[w]) + 1
      BY <1>1, <1>11, <3>1 DEF AccountInv, IdsBelow
    <3>2. CASE i \in 1 .. Len(ledger[w])
      BY <1>2, <1>11, <3>2 DEF AccountInv, IdsBelow
    <3>3. Len(ledger'[w]) = Len(ledger[w]) + 1 /\ Len(ledger[w]) \in Nat
      BY <1>11
    <3>4. i = Len(ledger[w]) + 1 \/ i \in 1 .. Len(ledger[w])
      BY <3>3
    <3> QED BY <3>1, <3>2, <3>4
  <2>2. \A u \in Users : \A i \in 1 .. Len(ledger'[u]) : ledger'[u][i].id < nextId'
    BY <1>3, <1>8, <2>1 DEF AccountInv, IdsBelow
  <2>3. \A t \in Sessions : tx'[t].step = "written" =>
          /\ tx'[t].entry.id < nextId'
          /\ \A i \in 1 .. Len(ledger'[tx'[t].user]) : ledger'[tx'[t].user][i].id < tx'[t].entry.id
    BY <1>3, <1>8, <1>10 DEF AccountInv, IdsBelow
  <2> QED BY <2>2, <2>3 DEF IdsBelow
<1> QED BY <1>4, <1>7, <1>12 DEF AccountInv

(* A commit that enters nothing changes one account. *)
LEMMA CommitSilentInv ==
  ASSUME AccountInv, NEW s \in Sessions, CommitSilent(s)
  PROVE  AccountInv'
<1>1. tx[s].user \in Users /\ tx[s].row \in Row
  BY TxShape DEF CommitSilent, AccountInv, Updated
<1>2. /\ account' = [account EXCEPT ![tx[s].user] = tx[s].row]
      /\ tx' = [tx EXCEPT ![s] = NoTx] /\ UNCHANGED <<ledger, nextId>>
  BY DEF CommitSilent
<1>3. \A t \in Sessions : tx'[t] = IF t = s THEN NoTx ELSE tx[t]
  BY <1>2 DEF AccountInv, AccountTypeOK
<1>4. AccountTypeOK'
  BY <1>1, <1>2 DEF AccountInv, AccountTypeOK, Idle, NoTx
<1>5. OneWriter' /\ IdsBelow'
  BY <1>2, <1>3 DEF AccountInv, OneWriter, IdsBelow, NoTx
<1> QED BY <1>4, <1>5 DEF AccountInv

(* A rollback gives up the lock and changes no committed row. *)
LEMMA RollbackInv ==
  ASSUME AccountInv, NEW s \in Sessions, Rollback(s)
  PROVE  AccountInv'
<1>1. tx' = [tx EXCEPT ![s] = NoTx] /\ UNCHANGED <<account, ledger, nextId>>
  BY DEF Rollback
<1>2. \A t \in Sessions : tx'[t] = IF t = s THEN NoTx ELSE tx[t]
  BY <1>1 DEF AccountInv, AccountTypeOK
<1>3. AccountTypeOK'
  BY <1>1 DEF AccountInv, AccountTypeOK, Idle, NoTx
<1>4. OneWriter' /\ IdsBelow'
  BY <1>1, <1>2 DEF AccountInv, OneWriter, IdsBelow, NoTx
<1> QED BY <1>3, <1>4 DEF AccountInv

(* AccountInv is an inductive invariant of the account operations. *)
THEOREM AccountInductive == Spec => []AccountInv
<1>1. AccountInv /\ [Next]_accountVars => AccountInv'
  <2> SUFFICES ASSUME AccountInv, [Next]_accountVars PROVE AccountInv'
    OBVIOUS
  <2>1. CASE \E s \in Sessions, u \in Users, type \in Operations, n \in Amounts :
               Update(s, u, type, n)
    BY <2>1, UpdateInv
  <2>2. CASE \E s \in Sessions : InsertEntry(s)
    BY <2>2, InsertInv
  <2>3. CASE \E s \in Sessions : Commit(s)
    BY <2>3, CommitInv
  <2>4. CASE \E s \in Sessions : Rollback(s)
    BY <2>4, RollbackInv
  <2>5. CASE \E s \in Sessions : CommitSilent(s)
    BY <2>5, CommitSilentInv
  <2>6. CASE UNCHANGED <<account, ledger, tx, nextId>>
    BY <2>6 DEF AccountInv, AccountTypeOK, OneWriter, IdsBelow
  <2>7. CASE \/ \E u \in Users, kinds \in {EntryTypes} \union {{t} : t \in EntryTypes} :
                  FirstPage(u, kinds)
             \/ NextPage
             \/ UNCHANGED accountVars
    BY <2>6, <2>7 DEF FirstPage, NextPage, accountVars
  <2> QED BY <2>1, <2>2, <2>3, <2>4, <2>5, <2>7 DEF Next
<1> QED BY AccountInit, <1>1, PTL DEF Spec

(* No balance is ever negative, inside a transaction or after it. *)
THEOREM BalancesLegal == Spec => []AccountTypeOK
BY AccountInductive, PTL DEF AccountInv

-----------------------------------------------------------------------------
(* Accounts implements SerialAccounts.                                       *)

\* What a transaction is about to commit is one operation applied to the row
\* as it is committed now.
Computed ==
  \A s \in Sessions :
    /\ tx[s].step = "updated" =>
         /\ tx[s].amount \in Amounts
         /\ Enough(account[tx[s].user], tx[s].type, tx[s].amount)
         /\ tx[s].row = AfterUpdate(account[tx[s].user], tx[s].type, tx[s].amount)
    /\ tx[s].step = "written" =>
         /\ tx[s].entry.id \in 1 .. MaxEntries
         /\ \E n \in Amounts :
              /\ Enough(account[tx[s].user], tx[s].entry.type, n)
              /\ tx[s].row = AfterUpdate(account[tx[s].user], tx[s].entry.type, n)
              /\ tx[s].entry.amount = Signed(tx[s].entry.type, n)
         /\ tx[s].entry.after = BalanceEntered(tx[s].entry.type, tx[s].row)

(* The row lock keeps Computed: nobody else commits to a row that a
   transaction has updated. *)
LEMMA ComputedStep ==
  ASSUME AccountInv, Computed, [Next]_accountVars
  PROVE  Computed'
<1> USE DEF AccountInv
<1>1. ASSUME NEW s \in Sessions, NEW u \in Users, NEW type \in Operations, NEW n \in Amounts,
             Update(s, u, type, n)
      PROVE  Computed'
  <2>1. /\ tx' = [tx EXCEPT ![s] = [step |-> "updated", user |-> u, type |-> type, amount |-> n,
                                    row |-> AfterUpdate(account[u], type, n)]]
        /\ account' = account /\ Enough(account[u], type, n)
    BY <1>1 DEF Update
  <2>2. tx \in [Sessions -> Idle \union Updated \union Written]
    BY DEF AccountTypeOK
  <2> QED
    BY <2>1, <2>2 DEF Computed
<1>2. ASSUME NEW s \in Sessions, InsertEntry(s)
      PROVE  Computed'
  <2> DEFINE e == [id |-> nextId, type |-> tx[s].type,
                   amount |-> Signed(tx[s].type, tx[s].amount), after |-> BalanceEntered(tx[s].type, tx[s].row)]
             new == [step |-> "written", user |-> tx[s].user, row |-> tx[s].row, entry |-> e]
  <2>1. /\ tx' = [tx EXCEPT ![s] = new] /\ account' = account
        /\ tx[s].step = "updated" /\ nextId <= MaxEntries
    BY <1>2 DEF InsertEntry
  <2>2. tx \in [Sessions -> Idle \union Updated \union Written] /\ nextId \in Nat \ {0}
    BY DEF AccountTypeOK
  <2>3. nextId \in 1 .. MaxEntries
    BY <2>1, <2>2, MaxEntriesAssumption
  <2>4. /\ new.step = "written" /\ new.user = tx[s].user /\ new.row = tx[s].row
        /\ new.entry.id = nextId /\ new.entry.type = tx[s].type
        /\ new.entry.amount = Signed(tx[s].type, tx[s].amount)
        /\ new.entry.after = BalanceEntered(tx[s].type, tx[s].row)
    OBVIOUS
  <2>5. tx'[s] = new /\ \A t \in Sessions \ {s} : tx'[t] = tx[t]
    BY <2>1, <2>2
  <2> HIDE DEF new
  <2>6. /\ tx[s].amount \in Amounts
        /\ Enough(account[tx[s].user], tx[s].type, tx[s].amount)
        /\ tx[s].row = AfterUpdate(account[tx[s].user], tx[s].type, tx[s].amount)
    BY <2>1 DEF Computed
  <2> QED
    BY <2>1, <2>3, <2>4, <2>5, <2>6 DEF Computed
<1>3. ASSUME NEW s \in Sessions, Commit(s) \/ CommitSilent(s)
      PROVE  Computed'
  <2>1. /\ tx' = [tx EXCEPT ![s] = NoTx] /\ tx[s].step # "idle"
        /\ account' = [account EXCEPT ![tx[s].user] = tx[s].row]
    BY <1>3 DEF Commit, CommitSilent
  <2>2. /\ tx \in [Sessions -> Idle \union Updated \union Written]
        /\ account \in [Users -> Row]
    BY DEF AccountTypeOK
  <2>3. tx'[s].step = "idle" /\ \A t \in Sessions \ {s} : tx'[t] = tx[t]
    BY <2>1, <2>2 DEF NoTx
  <2>4. ASSUME NEW t \in Sessions \ {s}, tx[t].step # "idle"
        PROVE  account'[tx[t].user] = account[tx[t].user]
    <3>1. tx[t].user # tx[s].user
      BY <2>1, <2>4 DEF OneWriter
    <3>2. tx[t].user \in Users
      BY <2>4, TxShape DEF Updated, Written
    <3> QED
      BY <3>1, <3>2, <2>1, <2>2
  <2> QED
    BY <2>3, <2>4 DEF Computed
<1>4. ASSUME NEW s \in Sessions, Rollback(s)
      PROVE  Computed'
  <2>1. tx' = [tx EXCEPT ![s] = NoTx] /\ account' = account
    BY <1>4 DEF Rollback
  <2>2. tx \in [Sessions -> Idle \union Updated \union Written]
    BY DEF AccountTypeOK
  <2> QED
    BY <2>1, <2>2 DEF Computed, NoTx
<1>5. ASSUME UNCHANGED <<account, tx>>
      PROVE  Computed'
  BY <1>5 DEF Computed
<1> QED
  BY <1>1, <1>2, <1>3, <1>4, <1>5 DEF Next, FirstPage, NextPage, accountVars

(* A commit is one operation of SerialAccounts. *)
LEMMA CommitIsSerial ==
  ASSUME AccountInv, Computed, NEW s \in Sessions, Commit(s)
  PROVE  Serial!SerialNext
<1> DEFINE u == tx[s].user
           e == tx[s].entry
<1>1. /\ tx[s].step = "written" /\ tx[s] \in Written
      /\ account' = [account EXCEPT ![u] = tx[s].row]
      /\ ledger' = [ledger EXCEPT ![u] = Append(@, e)]
  BY TxShape DEF Commit, AccountInv
<1>2. /\ u \in Users /\ e \in LedgerEntry /\ e.after = BalanceEntered(e.type, tx[s].row)
      /\ account[u] \in Row /\ e.id \in 1 .. MaxEntries
      /\ \A i \in 1 .. Len(ledger[u]) : ledger[u][i].id < e.id
  BY <1>1 DEF Written, AccountInv, AccountTypeOK, IdsBelow, Computed
<1>3. PICK n \in Amounts : /\ Enough(account[u], e.type, n)
                           /\ tx[s].row = AfterUpdate(account[u], e.type, n)
                           /\ e.amount = Signed(e.type, n)
  BY <1>1 DEF Computed
<1>4. /\ account[u].avail \in Nat /\ account[u].frozen \in Nat /\ n \in Nat
      /\ account[u] = [avail |-> account[u].avail, frozen |-> account[u].frozen]
  BY <1>2, AmountsAssumption DEF Row
<1>5. /\ e = [id |-> e.id, type |-> e.type, amount |-> e.amount, after |-> e.after]
      /\ e.type \in EntryTypes
  BY <1>2 DEF LedgerEntry
<1> HIDE DEF u, e
<1>6. ASSUME NEW type, NEW m, NEW after, e.type = type, e.amount = m, e.after = after
      PROVE  Serial!Enter(u, type, m, after)
  <2>1. e = [id |-> e.id, type |-> type, amount |-> m, after |-> after]
    BY <1>5, <1>6
  <2>2. ledger' = [ledger EXCEPT ![u] =
                     Append(@, [id |-> e.id, type |-> type, amount |-> m, after |-> after])]
    BY <1>1, <2>1
  <2>3. \E id \in 1 .. MaxEntries :
          /\ \A i \in 1 .. Len(ledger[u]) : ledger[u][i].id < id
          /\ ledger' = [ledger EXCEPT ![u] =
               Append(@, [id |-> id, type |-> type, amount |-> m, after |-> after])]
    BY <1>2, <2>2
  <2> QED
    BY <2>3 DEF Serial!Enter
<1>7. CASE e.type = "DEPOSIT"
  <2>1. /\ tx[s].row = [avail |-> account[u].avail + n, frozen |-> account[u].frozen]
        /\ e.amount = n
    BY <1>3, <1>4, <1>7 DEF AfterUpdate, Gained, Signed
  <2>2. e.after = account[u].avail + n
    BY <1>2, <1>7, <2>1 DEF BalanceEntered
  <2>3. Serial!Deposit(u, n)
    BY <1>1, <1>6, <1>7, <2>1, <2>2 DEF Serial!Deposit, Serial!SetAccount
  <2> QED
    BY <1>2, <2>3 DEF Serial!SerialNext
<1>8. CASE e.type = "WITHDRAW"
  <2>1. /\ tx[s].row = [avail |-> account[u].avail - n, frozen |-> account[u].frozen]
        /\ e.amount = -n /\ account[u].avail >= n
    BY <1>3, <1>4, <1>8 DEF AfterUpdate, Charged, Signed, Enough
  <2>2. e.after = account[u].avail - n
    BY <1>2, <1>8, <2>1 DEF BalanceEntered
  <2>3. Serial!Withdraw(u, n)
    BY <1>1, <1>6, <1>8, <2>1, <2>2 DEF Serial!Withdraw, Serial!SetAccount
  <2> QED
    BY <1>2, <2>3 DEF Serial!SerialNext
<1>9. CASE e.type = "ORDER_FREEZE"
  <2>1. /\ tx[s].row = [avail |-> account[u].avail - n, frozen |-> account[u].frozen + n]
        /\ e.amount = -n /\ e.after = 0 /\ account[u].avail >= n
    BY <1>2, <1>3, <1>4, <1>9 DEF AfterUpdate, Frozen, Signed, Enough, BalanceEntered
  <2>2. Serial!FreezeFunds(u, n)
    BY <1>1, <1>6, <1>9, <2>1 DEF Serial!FreezeFunds, Serial!SetAccount
  <2> QED
    BY <1>2, <2>2 DEF Serial!SerialNext
<1>10. CASE e.type = "ORDER_UNFREEZE"
  <2>1. /\ tx[s].row = [avail |-> account[u].avail + n, frozen |-> account[u].frozen - n]
        /\ e.amount = n /\ e.after = 0 /\ account[u].frozen >= n
    BY <1>2, <1>3, <1>4, <1>10 DEF AfterUpdate, Unfrozen, Signed, Enough, BalanceEntered
  <2>2. Serial!UnfreezeFunds(u, n)
    BY <1>1, <1>6, <1>10, <2>1 DEF Serial!UnfreezeFunds, Serial!SetAccount
  <2> QED
    BY <1>2, <2>2 DEF Serial!SerialNext
<1> QED
  BY <1>5, <1>7, <1>8, <1>9, <1>10 DEF EntryTypes

(* So is the commit of an operation that enters nothing. *)
LEMMA SilentIsSerial ==
  ASSUME AccountInv, Computed, NEW s \in Sessions, CommitSilent(s)
  PROVE  Serial!SerialNext
<1> DEFINE u == tx[s].user
           n == tx[s].amount
           type == tx[s].type
<1>1. /\ tx[s].step = "updated" /\ tx[s] \in Updated /\ type \in Silent
      /\ account' = [account EXCEPT ![u] = tx[s].row] /\ UNCHANGED ledger
  BY TxShape DEF CommitSilent, AccountInv
<1>2. /\ u \in Users /\ n \in Amounts /\ account[u] \in Row
      /\ Enough(account[u], type, n) /\ tx[s].row = AfterUpdate(account[u], type, n)
  BY <1>1 DEF Updated, AccountInv, AccountTypeOK, Computed
<1>3. account[u] = [avail |-> account[u].avail, frozen |-> account[u].frozen]
  BY <1>2 DEF Row
<1> HIDE DEF u, n, type
<1>4. CASE type = "SPEND"
  <2>1. /\ tx[s].row = [avail |-> account[u].avail, frozen |-> account[u].frozen - n]
        /\ account[u].frozen >= n
    BY <1>2, <1>3, <1>4 DEF AfterUpdate, Spent, Enough
  <2>2. Serial!Spend(u, n)
    BY <1>1, <2>1 DEF Serial!Spend, Serial!SetAccount
  <2> QED
    BY <1>2, <2>2 DEF Serial!SerialNext
<1>5. CASE type = "RECEIVE"
  <2>1. tx[s].row = [avail |-> account[u].avail + n, frozen |-> account[u].frozen]
    BY <1>2, <1>3, <1>5 DEF AfterUpdate, Gained
  <2>2. Serial!Receive(u, n)
    BY <1>1, <2>1 DEF Serial!Receive, Serial!SetAccount
  <2> QED
    BY <1>2, <2>2 DEF Serial!SerialNext
<1>6. CASE type = "CHARGE"
  <2>1. /\ tx[s].row = [avail |-> account[u].avail - n, frozen |-> account[u].frozen]
        /\ account[u].avail >= n
    BY <1>2, <1>3, <1>6 DEF AfterUpdate, Charged, Enough
  <2>2. Serial!Charge(u, n)
    BY <1>1, <2>1 DEF Serial!Charge, Serial!SetAccount
  <2> QED
    BY <1>2, <2>2 DEF Serial!SerialNext
<1>7. CASE type = "RELEASE"
  <2>1. /\ tx[s].row = [avail |-> account[u].avail + n, frozen |-> account[u].frozen - n]
        /\ account[u].frozen >= n
    BY <1>2, <1>7 DEF AfterUpdate, Unfrozen, Enough
  <2>2. Serial!Release(u, n)
    BY <1>1, <2>1 DEF Serial!Release, Serial!SetAccount
  <2> QED
    BY <1>2, <2>2 DEF Serial!SerialNext
<1> QED
  BY <1>1, <1>4, <1>5, <1>6, <1>7 DEF Silent

(* Whatever sessions interleave, the committed accounts and ledgers change as
   if operations ran one after another: Accounts implements SerialAccounts. *)
THEOREM AccountsSerializable == Spec => Serializable
<1>1. Init => Serial!SerialInit
  BY DEF Init, Serial!SerialInit
<1>2. Init => Computed
  BY DEF Init, Computed, NoTx
<1>3. AccountInv /\ Computed /\ [Next]_accountVars => [Serial!SerialNext]_(Serial!serialVars)
  <2> SUFFICES ASSUME AccountInv, Computed, [Next]_accountVars
               PROVE  Serial!SerialNext \/ UNCHANGED <<account, ledger>>
    BY DEF Serial!serialVars
  <2>1. CASE \E s \in Sessions : Commit(s)
    BY <2>1, CommitIsSerial
  <2>2. CASE \E s \in Sessions : CommitSilent(s)
    BY <2>2, SilentIsSerial
  <2>3. CASE ~\E s \in Sessions : Commit(s) \/ CommitSilent(s)
    BY <2>3 DEF Next, Update, InsertEntry, Rollback, FirstPage, NextPage, accountVars
  <2> QED
    BY <2>1, <2>2, <2>3
<1>4. AccountInv /\ Computed /\ [Next]_accountVars => Computed'
  BY ComputedStep
<1> QED
  BY <1>1, <1>2, <1>3, <1>4, AccountInductive, PTL DEF Spec, Serializable, Serial!SerialSpec

-----------------------------------------------------------------------------
(* A client pages through a ledger.                                          *)

\* The ids that a query may return
Wanted(q, kinds, cursor) ==
  {q[i].id : i \in {j \in 1 .. Len(q) : q[j].id < cursor /\ q[j].type \in kinds}}

\* What a query without LIMIT returns
Found(q, kinds, cursor) ==
  LET found == Dropped(Descending(q), LeftOut(q, kinds, cursor))
  IN [i \in 1 .. Len(found) |-> found[i].id]

\* ids lists the set of numbers S, the greatest first.
Lists(ids, S) ==
  /\ ids \in Seq(Nat)
  /\ \A i, j \in 1 .. Len(ids) : i < j => ids[j] < ids[i]
  /\ \A i \in 1 .. Len(ids) : ids[i] \in S
  /\ \A x \in S : \E i \in 1 .. Len(ids) : ids[i] = x

Sorted(q) == \A i, j \in 1 .. Len(q) : i < j => q[i].id < q[j].id

\* What the client has seen with what it will find is what was there when it
\* began.  Its cursor is the id of an entry: what is committed from now on is
\* above it.
PagingInv ==
  /\ \A u \in Users : Sorted(ledger[u])
  /\ reader.open =>
       LET q == ledger[reader.user]
       IN /\ reader.user \in Users
          /\ \E i \in 1 .. Len(q) : q[i].id = reader.cursor
          /\ reader.seen \in Seq(Nat)
          /\ reader.wanted = reader.seen \o Found(q, reader.kinds, reader.cursor)
  /\ PagesComplete

(* The first of two lists of a set is the beginning of the second. *)
LEMMA ListsStart ==
  ASSUME NEW S, NEW a, NEW b, Lists(a, S), Lists(b, S)
  PROVE  \A i \in 1 .. Len(a) : i <= Len(b) /\ b[i] = a[i]
<1> DEFINE Bad == {i \in 1 .. Len(a) : ~(i <= Len(b) /\ b[i] = a[i])}
<1>1. /\ Len(a) \in Nat /\ Len(b) \in Nat
      /\ \A i \in 1 .. Len(a) : a[i] \in Nat
      /\ \A i \in 1 .. Len(b) : b[i] \in Nat
  BY DEF Lists
<1>2. Bad = {}
  <2> SUFFICES ASSUME Bad # {} PROVE FALSE
    OBVIOUS
  <2>1. PICK n \in Bad : \A m \in Bad : n <= m
    <3>1. Bad \subseteq Nat
      OBVIOUS
    <3> HIDE DEF Bad
    <3> QED BY <3>1, LeastNat
  <2>2. n \in 1 .. Len(a) /\ ~(n <= Len(b) /\ b[n] = a[n])
    OBVIOUS
  <2>3. ASSUME NEW i \in 1 .. Len(a), i < n PROVE i <= Len(b) /\ b[i] = a[i]
    <3>1. i \notin Bad
      <4> HIDE DEF Bad
      <4> QED BY <1>1, <2>1, <2>2, <2>3
    <3> QED BY <3>1
  <2> HIDE DEF Bad
  <2>4. PICK k \in 1 .. Len(b) : b[k] = a[n]
    BY <2>2 DEF Lists
  <2>5. ~(k < n)
    <3> SUFFICES ASSUME k < n PROVE FALSE
      OBVIOUS
    <3>1. k \in 1 .. Len(a)
      BY <1>1, <2>2
    <3>2. b[k] = a[k] /\ a[n] < a[k]
      BY <2>2, <2>3, <3>1 DEF Lists
    <3> QED BY <1>1, <2>2, <2>4, <3>1, <3>2
  <2>6. n < k /\ n \in 1 .. Len(b)
    BY <1>1, <2>2, <2>4, <2>5
  <2>7. a[n] < b[n]
    BY <2>4, <2>6 DEF Lists
  <2>8. PICK m \in 1 .. Len(a) : a[m] = b[n]
    BY <2>6 DEF Lists
  <2>9. m < n
    <3>1. n < m => a[m] < a[n]
      BY <2>2 DEF Lists
    <3>2. a[n] \in Nat /\ b[n] \in Nat /\ a[n] < b[n] /\ a[m] = b[n]
      BY <1>1, <2>2, <2>6, <2>7, <2>8
    <3>3. ~(n < m) /\ n # m
      BY <3>1, <3>2
    <3> QED BY <1>1, <2>2, <3>3
  <2>10. b[m] = b[n] /\ m \in 1 .. Len(b) /\ b[n] < b[m]
    BY <1>1, <2>3, <2>6, <2>8, <2>9 DEF Lists
  <2> QED BY <1>1, <2>6, <2>10
<1> QED BY <1>2

(* A set is listed in one way. *)
LEMMA OneList ==
  ASSUME NEW S, NEW a, NEW b, Lists(a, S), Lists(b, S)
  PROVE  a = b
<1>1. /\ \A i \in 1 .. Len(a) : i <= Len(b) /\ b[i] = a[i]
      /\ \A i \in 1 .. Len(b) : i <= Len(a) /\ a[i] = b[i]
  BY ListsStart
<1>2. a \in Seq(Nat) /\ b \in Seq(Nat) /\ Len(a) \in Nat /\ Len(b) \in Nat
  BY DEF Lists
<1>3. Len(a) = Len(b)
  <2>1. Len(a) # 0 => Len(a) <= Len(b)
    BY <1>1, <1>2
  <2>2. Len(b) # 0 => Len(b) <= Len(a)
    BY <1>1, <1>2
  <2> QED BY <1>2, <2>1, <2>2
<1> QED BY <1>1, <1>2, <1>3

(* A query finds the entries it asks for, the newest first. *)
LEMMA FoundLists ==
  ASSUME NEW q \in Seq(LedgerEntry), Sorted(q), NEW kinds, NEW cursor \in Nat
  PROVE  /\ Lists(Found(q, kinds, cursor), Wanted(q, kinds, cursor))
         /\ Len(Found(q, kinds, cursor)) <= Len(q)
<1> DEFINE r == Descending(q)
           out == LeftOut(q, kinds, cursor)
           d == Dropped(r, out)
           ids == Found(q, kinds, cursor)
<1>1. Len(q) \in Nat /\ \A i \in 1 .. Len(q) : q[i] \in LedgerEntry /\ q[i].id \in Nat
  <2>1. \A i \in 1 .. Len(q) : q[i] \in LedgerEntry
    OBVIOUS
  <2> QED BY <2>1 DEF LedgerEntry
<1>2. r \in Seq(LedgerEntry) /\ Len(r) = Len(q) /\ \A i \in 1 .. Len(q) : r[i] = q[Len(q) + 1 - i]
  BY <1>1 DEF Descending
<1>3. \A i \in 1 .. Len(q) : q[i].id \in out <=> ~(q[i].id < cursor /\ q[i].type \in kinds)
  <2> TAKE i \in 1 .. Len(q)
  <2>1. \A j \in 1 .. Len(q) : q[j].id = q[i].id => j = i
    BY <1>1 DEF Sorted
  <2>2. q[i].id \in out <=> q[i].id >= cursor \/ q[i].type \notin kinds
    BY <2>1 DEF LeftOut
  <2> QED BY <1>1, <2>2
<1> HIDE DEF r, out
<1>4. d \in Seq(LedgerEntry) /\ \E f : Enumerates(d, r, out, Len(r), f)
  BY <1>2, DroppedProperties
<1>5. PICK f : Enumerates(d, r, out, Len(r), f)
  BY <1>4
<1>6. ids = [i \in 1 .. Len(d) |-> d[i].id]
  BY DEF Found, r, out
<1> HIDE DEF d, ids
<1>7. Len(d) \in Nat /\ \A i \in 1 .. Len(d) : d[i] \in LedgerEntry /\ d[i].id \in Nat
  <2>1. \A i \in 1 .. Len(d) : d[i] \in LedgerEntry
    BY <1>4
  <2> QED BY <1>4, <2>1 DEF LedgerEntry
<1>8. ids \in Seq(Nat) /\ Len(ids) = Len(d) /\ \A i \in 1 .. Len(d) : ids[i] = d[i].id
  BY <1>6, <1>7
<1> DEFINE g == [i \in 1 .. Len(d) |-> Len(q) + 1 - f[i]]
<1>9. /\ \A i \in 1 .. Len(d) : g[i] \in 1 .. Len(q) /\ ids[i] = q[g[i]].id /\ q[g[i]].id \notin out
      /\ \A i, j \in 1 .. Len(d) : i < j => g[j] < g[i]
      /\ \A m \in 1 .. Len(q) : q[m].id \notin out => \E j \in 1 .. Len(d) : g[j] = m
  <2>1. ASSUME NEW i \in 1 .. Len(d)
        PROVE  f[i] \in 1 .. Len(q) /\ g[i] \in 1 .. Len(q) /\ r[f[i]] = q[g[i]]
    <3>1. PICK m : m = f[i]
      OBVIOUS
    <3>2. m \in 1 .. Len(q)
      BY <1>2, <1>5, <3>1 DEF Enumerates
    <3>3. g[i] = Len(q) + 1 - m
      BY <3>1
    <3> HIDE DEF g
    <3>4. Len(q) + 1 - m \in 1 .. Len(q)
      BY <1>1, <3>2
    <3>5. r[m] = q[Len(q) + 1 - m]
      BY <1>2, <3>2
    <3> QED BY <3>1, <3>2, <3>3, <3>4, <3>5
  <2>2. ASSUME NEW i \in 1 .. Len(d) PROVE ids[i] = q[g[i]].id /\ q[g[i]].id \notin out
    <3>1. d[i] = r[f[i]] /\ r[f[i]].id \notin out
      BY <1>5 DEF Enumerates
    <3> HIDE DEF g
    <3> QED BY <1>8, <2>1, <3>1
  <2>3. ASSUME NEW i \in 1 .. Len(d), NEW j \in 1 .. Len(d), i < j PROVE g[j] < g[i]
    <3>1. f[i] < f[j] /\ f[i] \in 1 .. Len(q) /\ f[j] \in 1 .. Len(q)
      BY <1>5, <2>1, <2>3 DEF Enumerates
    <3>2. g[i] = Len(q) + 1 - f[i] /\ g[j] = Len(q) + 1 - f[j]
      OBVIOUS
    <3> HIDE DEF g
    <3> QED BY <1>1, <3>1, <3>2
  <2>4. ASSUME NEW m \in 1 .. Len(q), q[m].id \notin out PROVE \E j \in 1 .. Len(d) : g[j] = m
    <3>1. PICK k : k = Len(q) + 1 - m
      OBVIOUS
    <3>2. k \in 1 .. Len(q) /\ r[k] = q[m]
      BY <1>1, <1>2, <3>1
    <3>3. PICK j \in 1 .. Len(d) : f[j] = k
      BY <1>2, <1>5, <2>4, <3>2 DEF Enumerates
    <3>4. g[j] = Len(q) + 1 - k
      BY <3>3
    <3>5. Len(q) + 1 - k = m
      BY <1>1, <3>1
    <3> QED BY <3>4, <3>5
  <2> QED BY <2>1, <2>2, <2>3, <2>4
<1> HIDE DEF g
<1>10. ASSUME NEW i \in 1 .. Len(ids), NEW j \in 1 .. Len(ids), i < j PROVE ids[j] < ids[i]
  <2>1. g[j] \in 1 .. Len(q) /\ g[i] \in 1 .. Len(q) /\ g[j] < g[i]
    BY <1>8, <1>9, <1>10
  <2>2. ids[i] = q[g[i]].id /\ ids[j] = q[g[j]].id
    BY <1>8, <1>9
  <2> QED BY <2>1, <2>2 DEF Sorted
<1>11. ASSUME NEW i \in 1 .. Len(ids) PROVE ids[i] \in Wanted(q, kinds, cursor)
  <2>1. PICK m \in 1 .. Len(q) : ids[i] = q[m].id /\ q[m].id \notin out
    BY <1>8, <1>9
  <2>2. q[m].id < cursor /\ q[m].type \in kinds
    BY <1>3, <2>1
  <2> QED BY <2>1, <2>2 DEF Wanted
<1>12. ASSUME NEW x \in Wanted(q, kinds, cursor) PROVE \E i \in 1 .. Len(ids) : ids[i] = x
  <2>1. PICK m \in 1 .. Len(q) : q[m].id = x /\ q[m].id < cursor /\ q[m].type \in kinds
    BY DEF Wanted
  <2>2. PICK j \in 1 .. Len(d) : g[j] = m
    BY <1>3, <1>9, <2>1
  <2> QED BY <1>8, <1>9, <2>1, <2>2
<1>13. Len(ids) <= Len(q)
  <2> SUFFICES ASSUME Len(q) < Len(ids) PROVE FALSE
    BY <1>1, <1>7, <1>8
  <2>1. /\ IsFiniteSet(1 .. Len(d)) /\ Cardinality(1 .. Len(d)) = Len(d)
        /\ IsFiniteSet(1 .. Len(q)) /\ Cardinality(1 .. Len(q)) = Len(q)
    <3>1. ASSUME NEW m \in Nat PROVE IsFiniteSet(1 .. m) /\ Cardinality(1 .. m) = m
      <4>1. PICK a \in Int : a = 1
        OBVIOUS
      <4>2. PICK b \in Int : b = m
        OBVIOUS
      <4>3. IsFiniteSet(a .. b) /\ Cardinality(a .. b) = IF a > b THEN 0 ELSE b - a + 1
        BY FS_Interval
      <4> QED BY <4>1, <4>2, <4>3
    <3> QED BY <1>1, <1>7, <3>1
  <2>2. Cardinality(1 .. Len(q)) < Cardinality(1 .. Len(d))
    BY <1>8, <2>1
  <2>3. f \in [1 .. Len(d) -> 1 .. Len(q)] /\ \A i, j \in 1 .. Len(d) : i < j => f[i] < f[j]
    BY <1>2, <1>5 DEF Enumerates
  <2>4. PICK i, j \in 1 .. Len(d) : i # j /\ f[i] = f[j]
    BY <2>1, <2>2, <2>3, FS_PigeonHole
  <2>5. f[i] \in 1 .. Len(q) /\ f[j] \in 1 .. Len(q) /\ (i < j \/ j < i)
    BY <2>3, <2>4
  <2> QED BY <1>1, <2>3, <2>4, <2>5
<1> QED BY <1>8, <1>10, <1>11, <1>12, <1>13 DEF Lists, ids

(* What follows an element of a list lists the smaller elements. *)
LEMMA CutList ==
  ASSUME NEW S, NEW ids, Lists(ids, S), NEW n \in 1 .. Len(ids),
         NEW T, \A x : x \in T <=> x \in S /\ x < ids[n]
  PROVE  Lists(SubSeq(ids, n + 1, Len(ids)), T)
<1> DEFINE c == SubSeq(ids, n + 1, Len(ids))
           m == Len(ids) - n
<1>1. ids \in Seq(Nat) /\ Len(ids) \in Nat /\ n \in Nat /\ n <= Len(ids)
  BY DEF Lists
<1>2. c \in Seq(Nat) /\ Len(c) = m /\ m \in Nat /\ \A i \in 1 .. m : c[i] = ids[n + i]
  BY <1>1
<1> HIDE DEF c
<1>3. \A i \in 1 .. m : n + i \in 1 .. Len(ids) /\ n < n + i
  BY <1>1
<1>4. ASSUME NEW i \in 1 .. m, NEW j \in 1 .. m, i < j PROVE c[j] < c[i]
  <2>1. n + i < n + j
    BY <1>1, <1>4
  <2> QED BY <1>2, <1>3, <2>1 DEF Lists
<1>5. \A i \in 1 .. m : c[i] \in T
  <2>1. \A i \in 1 .. m : c[i] \in S /\ c[i] < ids[n]
    BY <1>2, <1>3 DEF Lists
  <2> QED BY <2>1
<1>6. ASSUME NEW x \in T PROVE \E i \in 1 .. m : c[i] = x
  <2> x \in S /\ x < ids[n]
    OBVIOUS
  <2>1. PICK k \in 1 .. Len(ids) : ids[k] = x
    BY DEF Lists
  <2>2. ids[k] \in Nat /\ ids[n] \in Nat
    BY <1>1
  <2>3. n < k
    <3>1. k < n => ids[n] < ids[k]
      BY DEF Lists
    <3>2. ~(k < n) /\ k # n
      BY <1>6, <2>1, <2>2, <3>1
    <3> QED BY <1>1, <3>2
  <2>4. PICK i : i = k - n
    OBVIOUS
  <2>5. i \in 1 .. m /\ n + i = k
    BY <1>1, <2>3, <2>4
  <2> QED BY <1>2, <2>1, <2>5
<1> QED BY <1>2, <1>4, <1>5, <1>6 DEF Lists, c

(* LIMIT n leaves the first n of what is found. *)
LEMMA Limited ==
  ASSUME NEW u, NEW kinds, NEW cursor, NEW n \in Nat, NEW ids, ids = Found(ledger[u], kinds, cursor),
         ids \in Seq(Nat), NEW page, page = ListLedger(u, kinds, cursor, n)
  PROVE  /\ Len(ids) <= n => page = ids
         /\ n < Len(ids) => page \in Seq(Nat) /\ Len(page) = n /\ \A i \in 1 .. n : page[i] = ids[i]
<1> DEFINE d == Dropped(Descending(ledger[u]), LeftOut(ledger[u], kinds, cursor))
<1>1. ids = [i \in 1 .. Len(d) |-> d[i].id]
  BY DEF Found
<1>2. page = [i \in 1 .. (IF Len(d) < n THEN Len(d) ELSE n) |-> d[i].id]
  BY DEF ListLedger
<1> HIDE DEF d
<1>3. DOMAIN ids = 1 .. Len(d) /\ DOMAIN ids = 1 .. Len(ids) /\ Len(ids) \in Nat
  BY <1>1
<1> QED BY <1>1, <1>2, <1>3

(* Sequences of numbers are joined in any order. *)
LEMMA Joined ==
  ASSUME NEW a \in Seq(Nat), NEW b \in Seq(Nat), NEW c \in Seq(Nat)
  PROVE  (a \o b) \o c = a \o (b \o c)
<1>1. \A S : \A x, y, z \in Seq(S) : (x \o y) \o z = x \o (y \o z)
  BY ConcatAssociative
<1> QED BY <1>1

(* A sequence that is cut in two is joined again. *)
LEMMA Rejoined ==
  ASSUME NEW ids \in Seq(Nat), NEW n \in 1 .. Len(ids), NEW page \in Seq(Nat), Len(page) = n,
         \A i \in 1 .. n : page[i] = ids[i]
  PROVE  ids = page \o SubSeq(ids, n + 1, Len(ids))
<1> DEFINE rest == SubSeq(ids, n + 1, Len(ids))
           both == page \o rest
<1>1. Len(ids) \in Nat /\ n \in Nat
  OBVIOUS
<1>2. rest \in Seq(Nat) /\ Len(rest) = Len(ids) - n /\ \A i \in 1 .. Len(ids) - n : rest[i] = ids[n + i]
  BY <1>1
<1> HIDE DEF rest
<1>3. /\ both \in Seq(Nat) /\ Len(both) = Len(ids)
      /\ \A i \in 1 .. Len(ids) : both[i] = IF i <= n THEN page[i] ELSE rest[i - n]
  <2>1. /\ both \in Seq(Nat) /\ Len(both) = Len(page) + Len(rest)
        /\ \A i \in 1 .. Len(page) + Len(rest) : both[i] = IF i <= Len(page) THEN page[i] ELSE rest[i - Len(page)]
    BY <1>2, ConcatProperties
  <2>2. Len(page) + Len(rest) = Len(ids)
    BY <1>1, <1>2
  <2> HIDE DEF both
  <2> QED BY <2>1, <2>2
<1> HIDE DEF both
<1>4. ASSUME NEW i \in 1 .. Len(ids) PROVE both[i] = ids[i]
  <2>1. CASE i <= n
    BY <1>3, <2>1
  <2>2. CASE n < i
    <3>1. i - n \in 1 .. Len(ids) - n /\ n + (i - n) = i
      BY <1>1, <2>2
    <3> QED BY <1>1, <1>2, <1>3, <2>2, <3>1
  <2> QED BY <1>1, <2>1, <2>2
<1>5. both = ids
  BY <1>3, <1>4
<1> QED BY <1>5 DEF both, rest

(* A page is the beginning of what is left to see, and its cursor the id of  *)
(* an entry: what is below it is the rest.                                   *)
LEMMA PageRead ==
  ASSUME AccountInv, \A w \in Users : Sorted(ledger[w]), UNCHANGED ledger,
         NEW u \in Users, NEW kinds, NEW cursor \in Nat, NEW seen \in Seq(Nat), NEW wanted,
         NEW ids, ids = Found(ledger[u], kinds, cursor), wanted = seen \o ids,
         ReadPage(u, kinds, cursor, seen, wanted)
  PROVE  PagingInv'
<1>1. PICK q : q = ledger[u]
  OBVIOUS
<1>2. /\ q \in Seq(LedgerEntry) /\ Sorted(q) /\ Len(q) \in Nat
      /\ \A i \in 1 .. Len(q) : q[i].id \in Nat
  <2>1. q \in Seq(LedgerEntry) /\ Sorted(q)
    BY <1>1 DEF AccountInv, AccountTypeOK
  <2>2. \A i \in 1 .. Len(q) : q[i] \in LedgerEntry
    BY <2>1
  <2> QED BY <2>1, <2>2 DEF LedgerEntry
<1>3. Lists(ids, Wanted(q, kinds, cursor))
  BY <1>1, <1>2, FoundLists
<1>4. ids \in Seq(Nat) /\ Len(ids) \in Nat /\ Limit \in Nat /\ Limit >= 1 /\ Limit + 1 \in Nat
  BY <1>3, LimitAssumption DEF Lists
<1>5. PICK entries : entries = ListLedger(u, kinds, cursor, Limit + 1)
  OBVIOUS
<1>6. /\ Len(ids) <= Limit + 1 => entries = ids
      /\ Limit + 1 < Len(ids) =>
           entries \in Seq(Nat) /\ Len(entries) = Limit + 1 /\ \A i \in 1 .. Limit + 1 : entries[i] = ids[i]
  BY <1>4, <1>5, Limited
<1>7. \A w \in Users : Sorted(ledger'[w])
  OBVIOUS
<1>8. CASE Len(ids) <= Limit
  <2>1. entries = ids /\ ~(Len(entries) > Limit)
    BY <1>4, <1>6, <1>8
  <2>2. reader' = [open |-> FALSE, seen |-> seen \o entries, wanted |-> wanted]
    BY <1>5, <2>1 DEF ReadPage
  <2>3. ~reader'.open /\ reader'.seen = reader'.wanted
    BY <2>1, <2>2
  <2> QED BY <1>7, <2>3 DEF PagingInv, PagesComplete
<1>9. CASE Limit < Len(ids)
  <2>1. Len(entries) > Limit /\ entries \in Seq(Nat) /\ \A i \in 1 .. Limit : entries[i] = ids[i]
    BY <1>4, <1>6, <1>9
  <2>2. PICK page : page = SubSeq(entries, 1, Limit)
    OBVIOUS
  <2>3. page \in Seq(Nat) /\ Len(page) = Limit /\ \A i \in 1 .. Limit : page[i] = ids[i]
    BY <1>4, <2>1, <2>2
  <2>4. PICK c : c = ids[Limit]
    OBVIOUS
  <2>5. c = NextCursor(entries)
    <3>1. PICK n : n = Limit
      OBVIOUS
    <3>2. n \in 1 .. n /\ entries[n] = ids[n]
      BY <1>4, <2>1, <3>1
    <3> QED BY <2>4, <3>1, <3>2 DEF NextCursor
  <2>6. reader' = [open |-> TRUE, user |-> u, kinds |-> kinds, cursor |-> c,
                   seen |-> seen \o page, wanted |-> wanted]
    BY <1>5, <2>1, <2>2, <2>5 DEF ReadPage
  <2>7. Limit \in 1 .. Len(ids)
    BY <1>4, <1>9
  <2>8. c \in Wanted(q, kinds, cursor)
    BY <1>3, <2>4, <2>7 DEF Lists
  <2>9. PICK i \in 1 .. Len(q) : q[i].id = c /\ c < cursor
    BY <2>8 DEF Wanted
  <2>10. c \in Nat
    BY <1>2, <2>9
  <2>11. PICK rest : rest = SubSeq(ids, Limit + 1, Len(ids))
    OBVIOUS
  <2>12. \A x : x \in Wanted(q, kinds, c) <=> x \in Wanted(q, kinds, cursor) /\ x < c
    <3>1. \A x \in Nat : x < c => x < cursor
      BY <2>9, <2>10
    <3>2. \A j \in 1 .. Len(q) : q[j].id < c => q[j].id < cursor
      BY <1>2, <3>1
    <3>3. \A x \in Wanted(q, kinds, cursor) : x < c => x \in Wanted(q, kinds, c)
      BY DEF Wanted
    <3>4. \A x \in Wanted(q, kinds, c) : x < c /\ x \in Wanted(q, kinds, cursor)
      BY <3>2 DEF Wanted
    <3> QED BY <3>3, <3>4
  <2>13. Lists(rest, Wanted(q, kinds, c))
    <3>1. PICK W, T, n : W = Wanted(q, kinds, cursor) /\ T = Wanted(q, kinds, c) /\ n = Limit
      OBVIOUS
    <3>2. Lists(ids, W) /\ n \in 1 .. Len(ids) /\ \A x : x \in T <=> x \in W /\ x < ids[n]
      BY <1>3, <2>4, <2>7, <2>12, <3>1
    <3>3. Lists(SubSeq(ids, n + 1, Len(ids)), T)
      BY <3>2, CutList
    <3> QED BY <2>11, <3>1, <3>3
  <2>14. rest = Found(q, kinds, c)
    BY <1>2, <2>10, <2>13, FoundLists, OneList
  <2>15. wanted = (seen \o page) \o rest
    <3>1. ids = page \o rest
      BY <1>4, <2>3, <2>7, <2>11, Rejoined
    <3>2. rest \in Seq(Nat)
      BY <2>13 DEF Lists
    <3>3. (seen \o page) \o rest = seen \o (page \o rest)
      BY <2>3, <3>2, Joined
    <3> QED BY <3>1, <3>3
  <2>16. seen \o page \in Seq(Nat)
    BY <2>3
  <2>17. /\ reader'.open /\ reader'.user = u /\ reader'.kinds = kinds /\ reader'.cursor = c
         /\ reader'.seen = seen \o page /\ reader'.wanted = wanted /\ ledger'[u] = q
    BY <1>1, <2>6
  <2> QED BY <1>7, <2>9, <2>14, <2>15, <2>16, <2>17 DEF PagingInv, PagesComplete
<1> QED BY <1>4, <1>8, <1>9

(* What is committed has a higher id than a cursor. *)
LEMMA CommitPaging ==
  ASSUME AccountInv, PagingInv, NEW s \in Sessions, Commit(s)
  PROVE  PagingInv'
<1>1. PICK w, e : w = tx[s].user /\ e = tx[s].entry
  OBVIOUS
<1>2. tx[s].step = "written" /\ tx[s] \in Written
  BY TxShape DEF Commit, AccountInv
<1>3. w \in Users /\ e \in LedgerEntry
  BY <1>1, <1>2 DEF Written
<1>4. ledger' = [ledger EXCEPT ![w] = Append(@, e)] /\ reader' = reader
  BY <1>1 DEF Commit
<1>5. ledger \in [Users -> Seq(LedgerEntry)]
  BY DEF AccountInv, AccountTypeOK
<1>6. PICK q, r : q = ledger[w] /\ r = Append(q, e)
  OBVIOUS
<1>7. ledger'[w] = r /\ \A u \in Users : u # w => ledger'[u] = ledger[u]
  BY <1>3, <1>4, <1>5, <1>6
<1>8. /\ q \in Seq(LedgerEntry) /\ r \in Seq(LedgerEntry) /\ Len(q) \in Nat /\ Len(r) = Len(q) + 1
      /\ r[Len(q) + 1] = e /\ \A i \in 1 .. Len(q) : r[i] = q[i]
  BY <1>3, <1>5, <1>6
<1>9. Sorted(q) /\ \A i \in 1 .. Len(q) : q[i].id < e.id
  BY <1>1, <1>2, <1>3, <1>6 DEF AccountInv, IdsBelow, PagingInv
<1>10. \A i \in 1 .. Len(r) : i \in 1 .. Len(q) \/ i = Len(q) + 1
  BY <1>8
<1>11. Sorted(r)
  <2> SUFFICES ASSUME NEW i \in 1 .. Len(r), NEW j \in 1 .. Len(r), i < j PROVE r[i].id < r[j].id
    BY DEF Sorted
  <2>1. i \in 1 .. Len(q)
    BY <1>8
  <2> QED BY <1>8, <1>9, <1>10, <2>1 DEF Sorted
<1>12. \A u \in Users : Sorted(ledger'[u])
  BY <1>7, <1>11 DEF PagingInv
<1>13. CASE reader.open /\ reader.user = w
  <2>1. PICK k, c : k = reader.kinds /\ c = reader.cursor
    OBVIOUS
  <2>2. PICK i \in 1 .. Len(q) : q[i].id = c
    BY <1>6, <1>13, <2>1 DEF PagingInv
  <2>3. c < e.id /\ c \in Nat /\ e.id \in Nat
    <3>1. q[i] \in LedgerEntry
      BY <1>8
    <3> QED BY <1>3, <1>9, <2>2, <3>1 DEF LedgerEntry
  <2>4. Wanted(r, k, c) = Wanted(q, k, c)
    <3>1. \A j \in 1 .. Len(q) : j \in 1 .. Len(r)
      BY <1>8
    <3>2. ~(e.id < c)
      BY <2>3
    <3> QED BY <1>8, <1>10, <3>1, <3>2 DEF Wanted
  <2>5. Lists(Found(r, k, c), Wanted(q, k, c)) /\ Lists(Found(q, k, c), Wanted(q, k, c))
    BY <1>8, <1>9, <1>11, <2>3, <2>4, FoundLists
  <2>6. Found(r, k, c) = Found(q, k, c)
    BY <2>5, OneList
  <2>7. reader.seen \in Seq(Nat) /\ reader.wanted = reader.seen \o Found(q, k, c)
    BY <1>6, <1>13, <2>1 DEF PagingInv
  <2>8. i \in 1 .. Len(r) /\ r[i].id = c
    BY <1>8, <2>2
  <2> QED BY <1>3, <1>4, <1>7, <1>12, <1>13, <2>1, <2>6, <2>7, <2>8 DEF PagingInv, PagesComplete
<1>14. CASE reader.open /\ reader.user # w
  <2>1. ledger'[reader.user] = ledger[reader.user]
    BY <1>7, <1>14 DEF PagingInv
  <2> QED BY <1>4, <1>12, <1>14, <2>1 DEF PagingInv, PagesComplete
<1>15. CASE ~reader.open
  BY <1>4, <1>12, <1>15 DEF PagingInv, PagesComplete
<1> QED BY <1>13, <1>14, <1>15

(* A client that has paged to the end of a ledger has seen every entry that  *)
(* was there when it began, once and newest first, whatever was committed    *)
(* meanwhile.                                                                *)
THEOREM PagesCorrect == Spec => []PagesComplete
<1>1. Init => PagingInv
  <2> SUFFICES ASSUME Init PROVE PagingInv
    OBVIOUS
  <2>1. ASSUME NEW u \in Users PROVE Sorted(ledger[u])
    <3>1. ledger[u] = <<>>
      BY DEF Init
    <3> QED BY <3>1 DEF Sorted
  <2>2. ~reader.open /\ reader.seen = reader.wanted
    BY DEF Init, NoReader
  <2> QED BY <2>1, <2>2 DEF PagingInv, PagesComplete
<1>2. AccountInv /\ PagingInv /\ [Next]_accountVars => PagingInv'
  <2> SUFFICES ASSUME AccountInv, PagingInv, [Next]_accountVars PROVE PagingInv'
    OBVIOUS
  <2>1. CASE \E s \in Sessions : Commit(s)
    BY <2>1, CommitPaging
  <2>2. CASE UNCHANGED <<ledger, reader>>
    BY <2>2 DEF PagingInv, PagesComplete
  <2>3. ASSUME NEW u \in Users, NEW kinds, FirstPage(u, kinds) PROVE PagingInv'
    <3>1. PICK q, ids : q = ledger[u] /\ ids = Found(q, kinds, nextId)
      OBVIOUS
    <3>2. q \in Seq(LedgerEntry) /\ Sorted(q) /\ nextId \in Nat /\ Len(q) \in Nat
      BY <3>1 DEF AccountInv, AccountTypeOK, PagingInv
    <3>3. ids \in Seq(Nat) /\ Len(ids) <= Len(q)
      BY <3>1, <3>2, FoundLists DEF Lists
    <3>4. PICK wanted : wanted = ListLedger(u, kinds, nextId, Len(q))
      OBVIOUS
    <3>5. wanted = ids
      BY <3>1, <3>2, <3>3, <3>4, Limited
    <3>6. PICK none : none = <<>>
      OBVIOUS
    <3>7. none \in Seq(Nat) /\ wanted = none \o ids
      BY <3>3, <3>5, <3>6
    <3>8. ReadPage(u, kinds, nextId, none, wanted) /\ UNCHANGED ledger
      BY <2>3, <3>1, <3>4, <3>6 DEF FirstPage
    <3> QED BY <3>1, <3>2, <3>7, <3>8, PageRead DEF PagingInv
  <2>4. CASE NextPage
    <3>1. PICK u, kinds, c, seen, wanted, q : /\ u = reader.user /\ kinds = reader.kinds /\ c = reader.cursor
                                              /\ seen = reader.seen /\ wanted = reader.wanted
                                              /\ q = ledger[u]
      OBVIOUS
    <3>2. PICK ids : ids = Found(q, kinds, c)
      OBVIOUS
    <3>3. /\ u \in Users /\ seen \in Seq(Nat) /\ wanted = seen \o ids
          /\ ReadPage(u, kinds, c, seen, wanted) /\ UNCHANGED ledger
      BY <2>4, <3>1, <3>2 DEF NextPage, PagingInv
    <3>4. c \in Nat
      <4>1. PICK i \in 1 .. Len(q) : q[i].id = c
        BY <2>4, <3>1 DEF NextPage, PagingInv
      <4>2. q \in Seq(LedgerEntry)
        BY <3>1, <3>3 DEF AccountInv, AccountTypeOK
      <4>3. q[i] \in LedgerEntry
        BY <4>2
      <4> QED BY <4>1, <4>3 DEF LedgerEntry
    <3> QED BY <3>1, <3>2, <3>3, <3>4, PageRead DEF PagingInv
  <2> QED
    BY <2>1, <2>2, <2>3, <2>4 DEF Next, Update, InsertEntry, CommitSilent, Rollback, accountVars
<1>3. PagingInv => PagesComplete
  BY DEF PagingInv
<1> QED BY <1>1, <1>2, <1>3, AccountInductive, PTL DEF Spec
=============================================================================
