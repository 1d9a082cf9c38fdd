--------------------------- MODULE SerialAccounts ---------------------------
(***************************************************************************)
(* What users may rely on for their accounts: each operation changes one   *)
(* account and, if it is one of those that the ledger records, adds one    *)
(* entry, both or neither, as if operations ran one after another.         *)
(* Accounts implements it with two statements and a commit.                *)
(***************************************************************************)
EXTENDS Integers, Sequences

CONSTANTS
  Users,
  Amounts,
  Ids        \* the ids of ledger entries

VARIABLES account, ledger

serialVars == <<account, ledger>>

SerialInit ==
  /\ account = [u \in Users |-> [avail |-> 0, frozen |-> 0]]
  /\ ledger = [u \in Users |-> <<>>]

\* The account gets its new balances, ...
SetAccount(u, avail, frozen) ==
  account' = [account EXCEPT ![u] = [avail |-> avail, frozen |-> frozen]]

\* ... and the ledger an entry with an id above all others of the ledger, ...
Enter(u, type, amount, after) ==
  \E id \in Ids :
    /\ \A i \in 1 .. Len(ledger[u]) : ledger[u][i].id < id
    /\ ledger' = [ledger EXCEPT ![u] =
         Append(@, [id |-> id, type |-> type, amount |-> amount, after |-> after])]

\* ... which has the new balance for money paid in and out, ...
Deposit(u, n) ==
  /\ SetAccount(u, account[u].avail + n, account[u].frozen)
  /\ Enter(u, "DEPOSIT", n, account[u].avail + n)

Withdraw(u, n) ==
  /\ account[u].avail >= n
  /\ SetAccount(u, account[u].avail - n, account[u].frozen)
  /\ Enter(u, "WITHDRAW", -n, account[u].avail - n)

\* ... 0 for money that an order freezes and gives back, ...
FreezeFunds(u, n) ==
  /\ account[u].avail >= n
  /\ SetAccount(u, account[u].avail - n, account[u].frozen + n)
  /\ Enter(u, "ORDER_FREEZE", -n, 0)

UnfreezeFunds(u, n) ==
  /\ account[u].frozen >= n
  /\ SetAccount(u, account[u].avail + n, account[u].frozen - n)
  /\ Enter(u, "ORDER_UNFREEZE", n, 0)

\* ... and no entry for what a trade costs or yields, for fees, netted pairs
\* and payouts, and for what batch_cancel and resolve_market give back.
Spend(u, n) ==
  /\ account[u].frozen >= n
  /\ SetAccount(u, account[u].avail, account[u].frozen - n)
  /\ UNCHANGED ledger

Receive(u, n) ==
  /\ SetAccount(u, account[u].avail + n, account[u].frozen)
  /\ UNCHANGED ledger

Charge(u, n) ==
  /\ account[u].avail >= n
  /\ SetAccount(u, account[u].avail - n, account[u].frozen)
  /\ UNCHANGED ledger

Release(u, n) ==
  /\ account[u].frozen >= n
  /\ SetAccount(u, account[u].avail + n, account[u].frozen - n)
  /\ UNCHANGED ledger

SerialNext ==
  \E u \in Users, n \in Amounts :
    \/ Deposit(u, n) \/ Withdraw(u, n) \/ FreezeFunds(u, n) \/ UnfreezeFunds(u, n)
    \/ Spend(u, n) \/ Receive(u, n) \/ Charge(u, n) \/ Release(u, n)

SerialSpec == SerialInit /\ [][SerialNext]_serialVars
=============================================================================
