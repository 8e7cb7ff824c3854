------------------------------ MODULE VaultLedger ------------------------------
(***************************************************************************)
(* The rows of perp_vault and what one internal_transfer does to them.     *)
(*                                                                         *)
(* perp_vault keeps one AccountBalance account per trader, with two        *)
(* columns: balance (USDC, withdrawable) and collateral_balance (credit    *)
(* for yield tokens held elsewhere, usable as margin only).  Every other   *)
(* program moves money by calling internal_transfer, so the effect of that *)
(* call is defined here once, as operators on a ledger value: PerpVault    *)
(* applies them to its variable, and the programs that call the vault      *)
(* apply them inside their own atomic steps.                               *)
(***************************************************************************)
EXTENDS Integers, Sums

CONSTANTS
    NumAccounts,    \* number of trader accounts; account i is the i-th one
    MaxU64          \* the largest value of the program's u64 (2^64 - 1)

ASSUME LedgerAssumption == NumAccounts \in Nat /\ MaxU64 \in Nat \ {0}

Accounts == 1 .. NumAccounts
U64 == 0 .. MaxU64

Ledgers == [balance : [Accounts -> U64], collateral_balance : [Accounts -> U64]]

EmptyLedger == [balance |-> [a \in Accounts |-> 0],
                collateral_balance |-> [a \in Accounts |-> 0]]

TotalBalance(led) == SumTo(led.balance, NumAccounts)
TotalCollateral(led) == SumTo(led.collateral_balance, NumAccounts)

\* What an account can spend on margin and fees.
Spendable(led, a) == led.balance[a] + led.collateral_balance[a]

\* Take x out of one row of a column and add it to another.
Move(column, from, to, x) == [column EXCEPT ![from] = @ - x, ![to] = @ + x]

\* The part of an amount that comes out of the deposit column: all of it if
\* the deposit covers it, else the whole deposit, the rest being collateral.
DepositPart(led, from, amount) ==
    IF amount <= led.balance[from] THEN amount ELSE led.balance[from]

\* The conditions of internal_transfer on the two rows and the amount.  The
\* operator check and the pause check are the caller's.
TransferAllowed(led, from, to, amount, max_per_tx) ==
    LET fd == DepositPart(led, from, amount)
    IN  /\ amount > 0
        /\ from # to
        /\ max_per_tx > 0 => amount <= max_per_tx
        /\ Spendable(led, from) <= MaxU64
        /\ amount <= Spendable(led, from)
        /\ led.balance[to] + fd <= MaxU64
        /\ led.collateral_balance[to] + (amount - fd) <= MaxU64

TransferredIntoBalance(led, from, to, amount) ==    \* a mutant: all of it lands as deposit
    LET fd == DepositPart(led, from, amount)
    IN  [balance |-> [led.balance EXCEPT ![from] = @ - fd, ![to] = @ + amount],
         collateral_balance |-> [led.collateral_balance EXCEPT ![from] = @ - (amount - fd)]]

\* The ledger after the transfer: each part lands in the column it came from.
Transferred(led, from, to, amount) ==
    LET fd == DepositPart(led, from, amount)
    IN  [balance |-> Move(led.balance, from, to, fd),
         collateral_balance |-> Move(led.collateral_balance, from, to, amount - fd)]
================================================================================
