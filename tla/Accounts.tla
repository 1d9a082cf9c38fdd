------------------------------ MODULE Accounts ------------------------------
(***************************************************************************)
(* The rows of accounts, the ledger of what changed them, and everything   *)
(* that changes them: deposits and withdrawals (AccountRepository), orders *)
(* that freeze and unfreeze money (check_and_freeze and the engine), and   *)
(* clearing, batch_cancel and resolve_market, which enter nothing in the   *)
(* ledger.                                                                 *)
(*                                                                         *)
(* An operation on an account is an UPDATE, which takes the row's lock,    *)
(* and, if its type is one of the ledger's, an INSERT into ledger_entries. *)
(* Sessions run concurrently: a second UPDATE of the row waits for the     *)
(* first transaction to end and then evaluates its WHERE on the committed  *)
(* row.  The ledger's ids come from a sequence, which a rollback does not  *)
(* wind back.                                                              *)
(*                                                                         *)
(* A transaction here is one operation.  A request of the exchange that    *)
(* changes an account several times keeps its row from the first change to *)
(* the commit; others see what as many transactions in a row would have    *)
(* left.  Its changes of several accounts are transactions of their own:   *)
(* nothing below relates two accounts, which is what Exchange is about.    *)
(***************************************************************************)
EXTENDS Collections

CONSTANTS
  Users,
  Sessions,
  Amounts,      \* the amounts in cents that are asked for
  Limit,        \* the page size of list_ledger
  MaxEntries,   \* bound on the ids drawn from the ledger's sequence
  MaxBalance    \* bound on what an account comes to hold

ASSUME AmountsAssumption == Amounts \subseteq Nat \ {0}
ASSUME LimitAssumption == Limit \in Nat \ {0}
ASSUME MaxEntriesAssumption == MaxEntries \in Nat
ASSUME MaxBalanceAssumption == MaxBalance \in Nat

VARIABLES
  account,   \* account[u] = [avail, frozen]: the committed row of u
  ledger,    \* ledger[u]: the committed ledger entries of u
  tx,        \* tx[s]: the transaction of session s
  nextId,    \* the ledger's sequence
  reader     \* a client that pages through a ledger with list_ledger

accountVars == <<account, ledger, tx, nextId, reader>>

\* The operations that enter something in the ledger, and those of clearing,
\* batch_cancel and resolve_market, which do not
EntryTypes == {"DEPOSIT", "WITHDRAW", "ORDER_FREEZE", "ORDER_UNFREEZE"}
Silent == {"SPEND", "RECEIVE", "CHARGE", "RELEASE"}
Operations == EntryTypes \union Silent

Row == [avail : Nat, frozen : Nat]
LedgerEntry == [id : Nat, type : EntryTypes, amount : Int, after : Nat]

NoTx == [step |-> "idle"]
NoReader == [open |-> FALSE, seen |-> <<>>, wanted |-> <<>>]

-----------------------------------------------------------------------------
\* What an UPDATE does to the columns: proceeds of a trade, a net pair or a
\* payout come in, a fee is taken from them, ...
Gained(row, n) == [row EXCEPT !.avail = @ + n]
Charged(row, n) == [row EXCEPT !.avail = @ - n]

\* ... an order freezes money, ends, ...
Frozen(row, n) == [avail |-> row.avail - n, frozen |-> row.frozen + n]
Unfrozen(row, n) == [avail |-> row.avail + n, frozen |-> row.frozen - n]

\* ... or is filled.  (At the default rate no part of a fee is refunded.)
Spent(row, n) == [row EXCEPT !.frozen = @ - n]

\* The row that an operation leaves behind
AfterUpdate(row, type, n) ==
  CASE type \in {"DEPOSIT", "RECEIVE"} -> Gained(row, n)
    [] type \in {"WITHDRAW", "CHARGE"} -> Charged(row, n)
    [] type = "ORDER_FREEZE" -> Frozen(row, n)
    [] type = "SPEND" -> Spent(row, n)
    [] OTHER -> Unfrozen(row, n)

\* The sign with which an operation is entered in the ledger
Signed(type, n) == IF type \in {"DEPOSIT", "ORDER_UNFREEZE"} THEN n ELSE -n

\* The balance_after that is entered: the repository has the balance that its
\* UPDATE returned, check_and_freeze and the engine write 0.
BalanceEntered(type, row) == IF type \in {"DEPOSIT", "WITHDRAW"} THEN row.avail ELSE 0

\* Faulty: an UPDATE has no condition and its columns no CHECK.
EnoughUnchecked(row, type, n) == TRUE

\* The condition of the UPDATE or, where it has none, the CHECK constraints of
\* the table, which refuse a negative balance
Enough(row, type, n) ==
  CASE type \in {"DEPOSIT", "RECEIVE"} -> TRUE
    [] type \in {"WITHDRAW", "CHARGE", "ORDER_FREEZE"} -> row.avail >= n
    [] OTHER -> row.frozen >= n

\* Faulty: the row is read and written back without a lock.
NeverLocked(u) == TRUE

\* No transaction in progress has updated the row of u.
Unlocked(u) == \A s \in Sessions : tx[s].step # "idle" => tx[s].user # u

-----------------------------------------------------------------------------
Init ==
  /\ account = [u \in Users |-> [avail |-> 0, frozen |-> 0]]
  /\ ledger = [u \in Users |-> <<>>]
  /\ tx = [s \in Sessions |-> NoTx]
  /\ nextId = 1
  /\ reader = NoReader

\* The UPDATE of an operation.  When its condition or a CHECK fails, the
\* operation raises and nothing has changed.
Update(s, u, type, n) ==
  /\ tx[s].step = "idle"
  /\ Unlocked(u)
  /\ Enough(account[u], type, n)
  /\ type = "RECEIVE" => account[u].avail + account[u].frozen + n <= MaxBalance
  /\ tx' = [tx EXCEPT ![s] = [step |-> "updated", user |-> u, type |-> type,
                              amount |-> n, row |-> AfterUpdate(account[u], type, n)]]
  /\ UNCHANGED <<account, ledger, nextId, reader>>

\* The INSERT into the ledger, after the UPDATE and with its row still locked
InsertEntry(s) ==
  /\ tx[s].step = "updated"
  /\ tx[s].type \in EntryTypes
  /\ nextId <= MaxEntries
  /\ tx' = [tx EXCEPT ![s] =
              [step |-> "written", user |-> tx[s].user, row |-> tx[s].row,
               entry |-> [id |-> nextId, type |-> tx[s].type,
                          amount |-> Signed(tx[s].type, tx[s].amount),
                          after |-> BalanceEntered(tx[s].type, tx[s].row)]]]
  /\ nextId' = nextId + 1
  /\ UNCHANGED <<account, ledger, reader>>

\* The commit of an operation with its entry, ...
Commit(s) ==
  /\ tx[s].step = "written"
  /\ account' = [account EXCEPT ![tx[s].user] = tx[s].row]
  /\ ledger' = [ledger EXCEPT ![tx[s].user] = Append(@, tx[s].entry)]
  /\ tx' = [tx EXCEPT ![s] = NoTx]
  /\ UNCHANGED <<nextId, reader>>

\* ... and of one that enters nothing
CommitSilent(s) ==
  /\ tx[s].step = "updated"
  /\ tx[s].type \in Silent
  /\ account' = [account EXCEPT ![tx[s].user] = tx[s].row]
  /\ tx' = [tx EXCEPT ![s] = NoTx]
  /\ UNCHANGED <<ledger, nextId, reader>>

\* An exception, a lost connection or the end of the process
Rollback(s) ==
  /\ tx[s].step # "idle"
  /\ tx' = [tx EXCEPT ![s] = NoTx]
  /\ UNCHANGED <<account, ledger, nextId, reader>>

\* Reverse of a sequence: ORDER BY id DESC, ids being entered in their order
Descending(q) == [i \in 1 .. Len(q) |-> q[Len(q) + 1 - i]]

\* The ids of the entries that are not below the cursor or not of a type in kinds
LeftOut(q, kinds, cursor) ==
  {q[i].id : i \in {j \in 1 .. Len(q) : q[j].id >= cursor \/ q[j].type \notin kinds}}

\* _LIST_LEDGER_SQL: the ids of u below the cursor and of one of the types in
\* kinds, newest first, at most n of them.  The cursor nextId stands for none.
ListLedger(u, kinds, cursor, n) ==
  LET found == Dropped(Descending(ledger[u]), LeftOut(ledger[u], kinds, cursor))
  IN [i \in 1 .. (IF Len(found) < n THEN Len(found) ELSE n) |-> found[i].id]

\* Faulty: the cursor is the id of the entry that showed that there is more.
CursorAfterExtra(entries) == entries[Len(entries)]

\* The cursor of the next page: the last id of this one
NextCursor(entries) == entries[Limit]

\* list_ledger: one entry more than the page shows whether there is another.
ReadPage(u, kinds, cursor, seen, wanted) ==
  LET entries == ListLedger(u, kinds, cursor, Limit + 1)
      more == Len(entries) > Limit
      page == SubSeq(entries, 1, Limit)
  IN reader' = IF more
               THEN [open |-> TRUE, user |-> u, kinds |-> kinds,
                     cursor |-> NextCursor(entries), seen |-> seen \o page, wanted |-> wanted]
               ELSE [open |-> FALSE, seen |-> seen \o entries, wanted |-> wanted]

\* The client asks for the first page, with all types or with one, ...
FirstPage(u, kinds) ==
  /\ ~reader.open
  /\ ReadPage(u, kinds, nextId, <<>>, ListLedger(u, kinds, nextId, Len(ledger[u])))
  /\ UNCHANGED <<account, ledger, tx, nextId>>

\* ... and for the next with the cursor it was given.
NextPage ==
  /\ reader.open
  /\ ReadPage(reader.user, reader.kinds, reader.cursor, reader.seen, reader.wanted)
  /\ UNCHANGED <<account, ledger, tx, nextId>>

Next ==
  \/ \E s \in Sessions, u \in Users, type \in Operations, n \in Amounts : Update(s, u, type, n)
  \/ \E s \in Sessions : InsertEntry(s) \/ Commit(s) \/ CommitSilent(s) \/ Rollback(s)
  \/ \E u \in Users, kinds \in {EntryTypes} \union {{t} : t \in EntryTypes} : FirstPage(u, kinds)
  \/ NextPage

Spec == Init /\ [][Next]_accountVars

-----------------------------------------------------------------------------
Idle == [step : {"idle"}]
Updated == [step : {"updated"}, user : Users, type : Operations, amount : Nat \ {0}, row : Row]
Written == [step : {"written"}, user : Users, row : Row, entry : LedgerEntry]

\* Rows, entries and transactions keep their types: no balance is negative,
\* not even before the commit.
AccountTypeOK ==
  /\ account \in [Users -> Row]
  /\ ledger \in [Users -> Seq(LedgerEntry)]
  /\ tx \in [Sessions -> Idle \union Updated \union Written]
  /\ nextId \in Nat \ {0}

\* A client that has paged to the end has seen every entry that was there
\* when it began, once, newest first, whatever was committed meanwhile.
PagesComplete == ~reader.open => reader.seen = reader.wanted

Serial == INSTANCE SerialAccounts WITH account <- account, ledger <- ledger, Ids <- 1 .. MaxEntries

\* Whatever the sessions interleave, what is committed is what operations one
\* after another would have left: each commit is one operation of
\* SerialAccounts on the row as it is then, and nothing else shows.
Serializable == Serial!SerialSpec
=============================================================================
