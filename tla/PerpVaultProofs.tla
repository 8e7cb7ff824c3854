---------------------------- MODULE PerpVaultProofs ----------------------------
(***************************************************************************)
(* The vault's books balance, for every number of traders, every integer   *)
(* width and every set of keys and limits; and the collateral manager's    *)
(* agree with them, for every price, haircut and rounding.                 *)
(***************************************************************************)
EXTENDS CollateralManager, VaultLedgerProofs

\* The inductive invariant.  Conservation alone is not inductive: that a
\* withdrawal leaves total_deposits a natural number needs the row to be part
\* of the total, which is Conservation together with the rows' types.
IInv == TypeOK /\ Conservation /\ Solvent

--------------------------------------------------------------------------------
\* Adding to or taking from one row of a column.
LEMMA RowChange ==
    ASSUME NEW column \in [Accounts -> U64], NEW a \in Accounts,
           NEW v \in U64
    PROVE  /\ [column EXCEPT ![a] = v] \in [Accounts -> U64]
           /\ SumTo([column EXCEPT ![a] = v], NumAccounts)
                  = SumTo(column, NumAccounts) - column[a] + v
           /\ SumTo(column, NumAccounts) \in Int
<1>1. /\ NumAccounts \in Nat
      /\ column \in [1 .. NumAccounts -> Int]
      /\ a \in 1 .. NumAccounts /\ v \in Int
    BY LedgerAssumption DEF Accounts, U64
<1>2. QED
    BY <1>1, SumUpdate, SumType

\* A row never exceeds the sum of its column.
LEMMA RowBound ==
    ASSUME NEW column \in [Accounts -> U64], NEW a \in Accounts
    PROVE  column[a] <= SumTo(column, NumAccounts)
<1>1. NumAccounts \in Nat /\ column \in [1 .. NumAccounts -> Nat] /\ a \in 1 .. NumAccounts
    BY LedgerAssumption DEF Accounts, U64
<1>2. QED
    BY <1>1, SumBound

\* A column of zeros sums to zero.
LEMMA EmptyTotals == TotalBalance(EmptyLedger) = 0 /\ TotalCollateral(EmptyLedger) = 0
<1> DEFINE zero == [a \in Accounts |-> 0]
<1>1. /\ NumAccounts \in Nat
      /\ zero \in [1 .. NumAccounts -> Int]
      /\ \A i \in 1 .. NumAccounts : zero[i] = 0
    BY LedgerAssumption DEF Accounts
<1> HIDE DEF zero
<1>2. SumTo(zero, NumAccounts) = 0
    BY <1>1, SumZero
<1>3. EmptyLedger.balance = zero /\ EmptyLedger.collateral_balance = zero
    BY DEF EmptyLedger, zero
<1>4. QED
    BY <1>2, <1>3 DEF TotalBalance, TotalCollateral

--------------------------------------------------------------------------------
LEMMA InitIInv == Init => IInv
<1> SUFFICES ASSUME Init PROVE IInv
    OBVIOUS
<1>1. EmptyLedger \in Ledgers
    BY LedgerAssumption DEF EmptyLedger, Ledgers, U64
<1>2. TypeOK
    <2>1. 0 \in U64 /\ LimitValues \subseteq U64 /\ InitialWallet \in [Accounts -> Nat]
        BY VaultAssumption, LedgerAssumption DEF U64
    <2>2. QED
        BY <1>1, <2>1 DEF Init, TypeOK
<1>3. Conservation /\ Solvent
    BY EmptyTotals DEF Init, Conservation, Solvent
<1>4. QED
    BY <1>2, <1>3 DEF IInv

\* Owner instructions leave the money alone and keep the types.
LEMMA OwnerStepFacts ==
    ASSUME TypeOK, OwnerStep
    PROVE  TypeOK' /\ UNCHANGED money
<1>1. PICK key \in Keys :
        \/ Pause(key)
        \/ Unpause(key)
        \/ \E limit \in LimitValues :
              \/ SetDepositCap(key, limit)
              \/ SetMaxWithdrawalPerTx(key, limit)
              \/ SetMaxOperatorTransferPerTx(key, limit)
        \/ \E op \in Keys, status \in BOOLEAN : SetOperator(key, op, status)
        \/ \E new_owner \in Keys : TransferOwnership(key, new_owner)
        \/ AcceptOwnership(key)
    BY DEF OwnerStep
<1> USE DEF TypeOK, money, totals, tokens
<1>2. CASE Pause(key) \/ Unpause(key)
    BY <1>2 DEF Pause, Unpause, limits
<1>3. CASE \E limit \in LimitValues :
              \/ SetDepositCap(key, limit)
              \/ SetMaxWithdrawalPerTx(key, limit)
              \/ SetMaxOperatorTransferPerTx(key, limit)
    BY <1>3, VaultAssumption
       DEF SetDepositCap, SetMaxWithdrawalPerTx, SetMaxOperatorTransferPerTx
<1>4. CASE \E op \in Keys, status \in BOOLEAN : SetOperator(key, op, status)
    BY <1>4 DEF SetOperator, limits
<1>5. CASE \E new_owner \in Keys : TransferOwnership(key, new_owner)
    BY <1>5 DEF TransferOwnership, limits
<1>6. CASE AcceptOwnership(key)
    BY <1>6 DEF AcceptOwnership, limits
<1>7. QED
    BY <1>1, <1>2, <1>3, <1>4, <1>5, <1>6

--------------------------------------------------------------------------------
\* The columns and rows of a well-typed ledger.
LEMMA Columns ==
    ASSUME TypeOK
    PROVE  /\ ledger.balance \in [Accounts -> U64]
           /\ ledger.collateral_balance \in [Accounts -> U64]
           /\ ledger = [balance |-> ledger.balance,
                        collateral_balance |-> ledger.collateral_balance]
BY DEF TypeOK, Ledgers

LEMMA DepositIInv ==
    ASSUME IInv, NEW a \in Accounts, NEW amount \in U64, Deposit(a, amount)
    PROVE  IInv'
<1> DEFINE v == ledger.balance[a] + amount
<1>1. /\ ledger.balance \in [Accounts -> U64]
      /\ ledger.collateral_balance \in [Accounts -> U64]
    BY Columns DEF IInv
<1>2. v \in U64
    BY <1>1, LedgerAssumption DEF Deposit, U64
<1>3. ledger' = [balance |-> [ledger.balance EXCEPT ![a] = v],
                 collateral_balance |-> ledger.collateral_balance]
    BY Columns DEF Deposit, IInv
<1>4. /\ [ledger.balance EXCEPT ![a] = v] \in [Accounts -> U64]
      /\ SumTo([ledger.balance EXCEPT ![a] = v], NumAccounts)
             = SumTo(ledger.balance, NumAccounts) - ledger.balance[a] + v
    <2> HIDE DEF v
    <2>1. QED
        BY <1>1, <1>2, RowChange
<1>5. ledger' \in Ledgers
    BY <1>1, <1>3, <1>4 DEF Ledgers
<1>6. TypeOK'
    BY <1>5, LedgerAssumption DEF IInv, TypeOK, Deposit, admin, limits, U64
<1>7. Conservation'
    <2>1. TotalBalance(ledger') = TotalBalance(ledger) + amount
        <3>1. ledger.balance[a] \in Int /\ SumTo(ledger.balance, NumAccounts) \in Int
              /\ amount \in Int
            BY <1>1, <1>2, RowChange, LedgerAssumption DEF U64
        <3>2. QED
            BY <1>3, <1>4, <3>1 DEF TotalBalance
    <2>2. TotalCollateral(ledger') = TotalCollateral(ledger)
        BY <1>3 DEF TotalCollateral
    <2>3. QED
        BY <2>1, <2>2 DEF IInv, Conservation, Deposit
<1>8. Solvent'
    BY LedgerAssumption DEF IInv, Solvent, TypeOK, Deposit, U64
<1>9. QED
    BY <1>6, <1>7, <1>8 DEF IInv

LEMMA WithdrawIInv ==
    ASSUME IInv, NEW a \in Accounts, NEW amount \in U64, Withdraw(a, amount)
    PROVE  IInv'
<1> DEFINE v == ledger.balance[a] - amount
<1>1. /\ ledger.balance \in [Accounts -> U64]
      /\ ledger.collateral_balance \in [Accounts -> U64]
    BY Columns DEF IInv
<1>2. v \in U64
    BY <1>1, LedgerAssumption DEF Withdraw, U64
<1>3. ledger' = [balance |-> [ledger.balance EXCEPT ![a] = v],
                 collateral_balance |-> ledger.collateral_balance]
    BY Columns DEF Withdraw, IInv
<1>4. /\ [ledger.balance EXCEPT ![a] = v] \in [Accounts -> U64]
      /\ SumTo([ledger.balance EXCEPT ![a] = v], NumAccounts)
             = SumTo(ledger.balance, NumAccounts) - ledger.balance[a] + v
    <2> HIDE DEF v
    <2>1. QED
        BY <1>1, <1>2, RowChange
<1>5. ledger' \in Ledgers
    BY <1>1, <1>3, <1>4 DEF Ledgers
<1>6. TypeOK'
    BY <1>5, LedgerAssumption DEF IInv, TypeOK, Withdraw, admin, limits, U64
<1>7. Conservation'
    <2>1. TotalBalance(ledger') = TotalBalance(ledger) - amount
        <3>1. ledger.balance[a] \in Int /\ SumTo(ledger.balance, NumAccounts) \in Int
              /\ amount \in Int
            BY <1>1, <1>2, RowChange, LedgerAssumption DEF U64
        <3>2. QED
            BY <1>3, <1>4, <3>1 DEF TotalBalance
    <2>2. TotalCollateral(ledger') = TotalCollateral(ledger)
        BY <1>3 DEF TotalCollateral
    <2>3. QED
        BY <2>1, <2>2 DEF IInv, Conservation, Withdraw
<1>8. Solvent'
    BY LedgerAssumption DEF IInv, Solvent, TypeOK, Withdraw, U64
<1>9. QED
    BY <1>6, <1>7, <1>8 DEF IInv

LEMMA DonateIInv ==
    ASSUME IInv, NEW a \in Accounts, NEW amount \in U64, Donate(a, amount)
    PROVE  IInv'
<1>1. TypeOK'
    BY LedgerAssumption DEF IInv, TypeOK, Donate, admin, limits, totals, U64
<1>2. Conservation' /\ Solvent'
    BY LedgerAssumption DEF IInv, TypeOK, Conservation, Solvent, Donate, totals, U64
<1>3. QED
    BY <1>1, <1>2 DEF IInv

LEMMA InternalTransferIInv ==
    ASSUME IInv, NEW op \in Keys, NEW from \in Accounts, NEW to \in Accounts,
           NEW amount \in U64, InternalTransfer(op, from, to, amount)
    PROVE  IInv'
<1>1. /\ ledger \in Ledgers /\ max_operator_transfer_per_tx \in U64 /\ amount \in Nat
      /\ TransferAllowed(ledger, from, to, amount, max_operator_transfer_per_tx)
      /\ ledger' = Transferred(ledger, from, to, amount)
    BY LedgerAssumption DEF IInv, TypeOK, InternalTransfer, U64
<1>2. /\ ledger' \in Ledgers
      /\ TotalBalance(ledger') = TotalBalance(ledger)
      /\ TotalCollateral(ledger') = TotalCollateral(ledger)
    BY <1>1, TransferFacts
<1>3. TypeOK'
    BY <1>2 DEF IInv, TypeOK, InternalTransfer, admin, limits, totals, tokens
<1>4. Conservation' /\ Solvent'
    BY <1>2 DEF IInv, Conservation, Solvent, InternalTransfer, totals, tokens
<1>5. QED
    BY <1>3, <1>4 DEF IInv

LEMMA CreditCollateralIInv ==
    ASSUME IInv, NEW op \in Keys, NEW a \in Accounts, NEW amount \in U64,
           CreditCollateral(op, a, amount)
    PROVE  IInv'
<1> DEFINE v == ledger.collateral_balance[a] + amount
<1>1. /\ ledger.balance \in [Accounts -> U64]
      /\ ledger.collateral_balance \in [Accounts -> U64]
    BY Columns DEF IInv
<1>2. v \in U64
    BY <1>1, LedgerAssumption DEF CreditCollateral, U64
<1>3. ledger' = [balance |-> ledger.balance,
                 collateral_balance |-> [ledger.collateral_balance EXCEPT ![a] = v]]
    BY Columns DEF CreditCollateral, IInv
<1>4. /\ [ledger.collateral_balance EXCEPT ![a] = v] \in [Accounts -> U64]
      /\ SumTo([ledger.collateral_balance EXCEPT ![a] = v], NumAccounts)
             = SumTo(ledger.collateral_balance, NumAccounts) - ledger.collateral_balance[a] + v
    <2> HIDE DEF v
    <2>1. QED
        BY <1>1, <1>2, RowChange
<1>5. ledger' \in Ledgers
    BY <1>1, <1>3, <1>4 DEF Ledgers
<1>6. TypeOK'
    BY <1>5, LedgerAssumption
       DEF IInv, TypeOK, CreditCollateral, admin, limits, tokens, U64
<1>7. Conservation'
    <2>1. TotalCollateral(ledger') = TotalCollateral(ledger) + amount
        <3>1. /\ ledger.collateral_balance[a] \in Int
              /\ SumTo(ledger.collateral_balance, NumAccounts) \in Int
              /\ amount \in Int
            BY <1>1, <1>2, RowChange, LedgerAssumption DEF U64
        <3>2. QED
            BY <1>3, <1>4, <3>1 DEF TotalCollateral
    <2>2. TotalBalance(ledger') = TotalBalance(ledger)
        BY <1>3 DEF TotalBalance
    <2>3. QED
        BY <2>1, <2>2 DEF IInv, Conservation, CreditCollateral
<1>8. Solvent'
    BY DEF IInv, Solvent, CreditCollateral, tokens
<1>9. QED
    BY <1>6, <1>7, <1>8 DEF IInv

LEMMA DebitCollateralIInv ==
    ASSUME IInv, NEW op \in Keys, NEW a \in Accounts, NEW amount \in U64,
           DebitCollateral(op, a, amount)
    PROVE  IInv'
<1> DEFINE v == ledger.collateral_balance[a] - amount
<1>1. /\ ledger.balance \in [Accounts -> U64]
      /\ ledger.collateral_balance \in [Accounts -> U64]
    BY Columns DEF IInv
<1>2. v \in U64
    BY <1>1, LedgerAssumption DEF DebitCollateral, DebitAllowed, U64
<1>3. ledger' = [balance |-> ledger.balance,
                 collateral_balance |-> [ledger.collateral_balance EXCEPT ![a] = v]]
    BY Columns DEF DebitCollateral, IInv
<1>4. /\ [ledger.collateral_balance EXCEPT ![a] = v] \in [Accounts -> U64]
      /\ SumTo([ledger.collateral_balance EXCEPT ![a] = v], NumAccounts)
             = SumTo(ledger.collateral_balance, NumAccounts) - ledger.collateral_balance[a] + v
    <2> HIDE DEF v
    <2>1. QED
        BY <1>1, <1>2, RowChange
<1>5. ledger' \in Ledgers
    BY <1>1, <1>3, <1>4 DEF Ledgers
<1>6. TypeOK'
    BY <1>5, LedgerAssumption
       DEF IInv, TypeOK, DebitCollateral, DebitAllowed, admin, limits, tokens, U64
<1>7. Conservation'
    <2>1. TotalCollateral(ledger') = TotalCollateral(ledger) - amount
        <3>1. /\ ledger.collateral_balance[a] \in Int
              /\ SumTo(ledger.collateral_balance, NumAccounts) \in Int
              /\ amount \in Int
            BY <1>1, <1>2, RowChange, LedgerAssumption DEF U64
        <3>2. QED
            BY <1>3, <1>4, <3>1 DEF TotalCollateral
    <2>2. TotalBalance(ledger') = TotalBalance(ledger)
        BY <1>3 DEF TotalBalance
    <2>3. QED
        BY <2>1, <2>2 DEF IInv, Conservation, DebitCollateral
<1>8. Solvent'
    BY DEF IInv, Solvent, DebitCollateral, tokens
<1>9. QED
    BY <1>6, <1>7, <1>8 DEF IInv

LEMMA NextIInv == IInv /\ [Next]_vars => IInv'
<1> SUFFICES ASSUME IInv, [Next]_vars PROVE IInv'
    OBVIOUS
<1>1. CASE TraderStep
    BY <1>1, DepositIInv, WithdrawIInv, DonateIInv DEF TraderStep
<1>2. CASE OperatorStep
    BY <1>2, InternalTransferIInv, CreditCollateralIInv, DebitCollateralIInv DEF OperatorStep
<1>3. CASE OwnerStep
    <2>1. TypeOK' /\ UNCHANGED money
        BY <1>3, OwnerStepFacts DEF IInv
    <2>2. QED
        BY <2>1 DEF IInv, Conservation, Solvent, money, totals, tokens
<1>4. CASE UNCHANGED vars
    BY <1>4 DEF vars, admin, limits, money, totals, tokens, IInv, TypeOK, Conservation, Solvent
<1>5. QED
    BY <1>1, <1>2, <1>3, <1>4 DEF Next

LEMMA SpecIInv == Spec => []IInv
BY InitIInv, NextIInv, PTL DEF Spec

--------------------------------------------------------------------------------
\* Every variable keeps its type: in particular the u64 counters stay within
\* their width.
THEOREM VaultTypes == Spec => []TypeOK
BY SpecIInv, PTL DEF IInv

\* The totals are the sums of the columns.
THEOREM VaultConserves == Spec => []Conservation
BY SpecIInv, PTL DEF IInv

\* The token account covers total_deposits.
THEOREM VaultSolvent == Spec => []Solvent
BY SpecIInv, PTL DEF IInv

\* The three together: the books stay typed, totalled and covered.
THEOREM VaultBooks == Spec => []VaultInv
BY SpecIInv, PTL DEF IInv, VaultInv

\* No checked subtraction and no payout can fail for a covered amount.
THEOREM VaultPays == Spec => []EveryClaimPayable
<1>1. IInv => EveryClaimPayable
    <2> SUFFICES ASSUME IInv, NEW a \in Accounts
                 PROVE  /\ ledger.balance[a] <= total_deposits
                        /\ ledger.balance[a] <= usdc_vault
                        /\ ledger.collateral_balance[a] <= total_collateral_credits
        BY DEF EveryClaimPayable
    <2>1. /\ ledger.balance \in [Accounts -> U64]
          /\ ledger.collateral_balance \in [Accounts -> U64]
        BY Columns DEF IInv
    <2>2. /\ ledger.balance[a] <= total_deposits
          /\ ledger.collateral_balance[a] <= total_collateral_credits
        BY <2>1, RowBound DEF IInv, Conservation, TotalBalance, TotalCollateral
    <2>3. /\ total_deposits <= usdc_vault
          /\ total_deposits \in Int /\ usdc_vault \in Int /\ ledger.balance[a] \in Int
        BY <2>1, LedgerAssumption DEF IInv, Solvent, TypeOK, U64
    <2>4. QED
        BY <2>2, <2>3
<1>2. QED
    BY <1>1, SpecIInv, PTL

--------------------------------------------------------------------------------
\* No instruction of anybody changes the books while the vault is paused.
THEOREM PauseFreezes == Spec => FrozenWhenPaused
<1> DEFINE Frozen == paused => UNCHANGED <<ledger, totals, opened>>
<1>1. ASSUME IInv, Next PROVE Frozen
    <2>1. ASSUME NEW a \in Accounts, NEW amount \in U64,
                 Deposit(a, amount) \/ Withdraw(a, amount) \/ Donate(a, amount)
          PROVE  Frozen
        BY <2>1 DEF Deposit, Withdraw, Donate
    <2>2. ASSUME NEW op \in Keys, NEW from \in Accounts, NEW to \in Accounts,
                 NEW amount \in U64, InternalTransfer(op, from, to, amount)
          PROVE  Frozen
        BY <2>2 DEF InternalTransfer
    <2>3. ASSUME NEW op \in Keys, NEW a \in Accounts, NEW amount \in U64,
                 CreditCollateral(op, a, amount) \/ DebitCollateral(op, a, amount)
          PROVE  Frozen
        BY <2>3 DEF CreditCollateral, DebitCollateral, DebitAllowed
    <2>4. ASSUME OwnerStep PROVE Frozen
        BY <1>1, <2>4, OwnerStepFacts DEF IInv, money
    <2>5. QED
        BY <1>1, <2>1, <2>2, <2>3, <2>4 DEF Next, TraderStep, OperatorStep
<1>2. IInv /\ [Next]_vars => [Frozen]_vars
    BY <1>1
<1>3. QED
    BY <1>2, SpecIInv, PTL DEF Spec, FrozenWhenPaused

\* With every operator revoked, value leaves a row only as USDC in its own
\* trader's hands.
THEOREM RevocationProtects == Spec => OperatorsOnly
<1> DEFINE Kept(a) == Spendable(ledger', a) < Spendable(ledger, a) =>
                          wallet'[a] - wallet[a] = Spendable(ledger, a) - Spendable(ledger', a)
           Safe == authorized = {} => \A a \in Accounts : Kept(a)
<1>1. ASSUME IInv, Next PROVE Safe
    <2> SUFFICES ASSUME authorized = {}, NEW p \in Accounts PROVE Kept(p)
        OBVIOUS
    <2>1. /\ ledger.balance \in [Accounts -> Int]
          /\ ledger.collateral_balance \in [Accounts -> Int]
          /\ wallet \in [Accounts -> Int]
        BY <1>1, Columns, LedgerAssumption DEF IInv, TypeOK, U64
    <2>2. ASSUME NEW a \in Accounts, NEW amount \in U64, Deposit(a, amount)
          PROVE  Kept(p)
        <3>1. /\ ledger'.balance = [ledger.balance EXCEPT ![a] = @ + amount]
              /\ ledger'.collateral_balance = ledger.collateral_balance
            BY <1>1, <2>2, Columns DEF Deposit, IInv
        <3>2. amount \in Nat
            BY LedgerAssumption DEF U64
        <3>3. QED
            BY <2>1, <3>1, <3>2 DEF Spendable
    <2>3. ASSUME NEW a \in Accounts, NEW amount \in U64, Withdraw(a, amount)
          PROVE  Kept(p)
        <3>1. /\ ledger'.balance = [ledger.balance EXCEPT ![a] = @ - amount]
              /\ ledger'.collateral_balance = ledger.collateral_balance
              /\ wallet' = [wallet EXCEPT ![a] = @ + amount]
            BY <1>1, <2>3, Columns DEF Withdraw, IInv
        <3>2. amount \in Nat
            BY LedgerAssumption DEF U64
        <3>3. QED
            BY <2>1, <3>1, <3>2 DEF Spendable
    <2>4. ASSUME UNCHANGED ledger PROVE Kept(p)
        BY <2>1, <2>4 DEF Spendable
    <2>5. CASE TraderStep
        BY <2>2, <2>3, <2>4, <2>5 DEF TraderStep, Donate
    <2>6. CASE OperatorStep
        BY <2>6 DEF OperatorStep, InternalTransfer, CreditCollateral, DebitCollateral, DebitAllowed
    <2>7. CASE OwnerStep
        BY <1>1, <2>4, <2>7, OwnerStepFacts DEF IInv, money
    <2>8. QED
        BY <1>1, <2>5, <2>6, <2>7 DEF Next
<1>2. IInv /\ [Next]_vars => [Safe]_vars
    BY <1>1
<1>3. QED
    BY <1>2, SpecIInv, PTL DEF Spec, OperatorsOnly

\* The owner changes only to the key nominated last.
THEOREM OwnershipTwoSteps == Spec => HandOver
<1> DEFINE Moved == owner' # owner => owner' = pending_owner /\ pending_owner' = NoKey
<1>1. ASSUME Next PROVE Moved
    <2>1. CASE TraderStep
        BY <2>1 DEF TraderStep, Deposit, Withdraw, Donate, admin
    <2>2. CASE OperatorStep
        BY <2>2 DEF OperatorStep, InternalTransfer, CreditCollateral, DebitCollateral, admin
    <2>3. CASE OwnerStep
        BY <2>3 DEF OwnerStep, Pause, Unpause, SetDepositCap, SetMaxWithdrawalPerTx,
           SetMaxOperatorTransferPerTx, SetOperator, TransferOwnership, AcceptOwnership
    <2>4. QED
        BY <1>1, <2>1, <2>2, <2>3 DEF Next
<1>2. [Next]_vars => [Moved]_vars
    BY <1>1
<1>3. QED
    BY <1>2, PTL DEF Spec, HandOver

\* A pause, a revocation and a nomination of the owner hold for everybody.
THEOREM OwnersWordHolds == Spec => AuthorityKept
BY PauseFreezes, RevocationProtects, OwnershipTwoSteps DEF AuthorityKept

--------------------------------------------------------------------------------
\* Every instruction is a step of the abstract custodian or invisible to it.
THEOREM VaultImplementsCustody == Spec => ImplementsCustody
<1> USE DEF Abstract!Parties, Accounts
<1>1. Init => Abstract!Init
    BY DEF Init, EmptyLedger, Abstract!Init
<1>2. ASSUME IInv, Next PROVE Abstract!Next \/ UNCHANGED Abstract!vars
    <2>1. ASSUME NEW a \in Accounts, NEW amount \in U64,
                 Deposit(a, amount) \/ Withdraw(a, amount) \/ Donate(a, amount)
          PROVE  Abstract!Next
        <3>1. Abstract!TakeIn(a, amount) \/ Abstract!PayOut(a, amount) \/ Abstract!Gift(amount)
            BY <1>2, <2>1, Columns
               DEF IInv, Deposit, Withdraw, Donate, Abstract!TakeIn, Abstract!PayOut, Abstract!Gift
        <3>2. QED
            BY <3>1 DEF Abstract!Next
    <2>2. ASSUME NEW op \in Keys, NEW a \in Accounts, NEW amount \in U64,
                 CreditCollateral(op, a, amount) \/ DebitCollateral(op, a, amount)
          PROVE  Abstract!Next
        <3>1. Abstract!Grant(a, amount) \/ Abstract!Revoke(a, amount)
            BY <1>2, <2>2, Columns
               DEF IInv, CreditCollateral, DebitCollateral, DebitAllowed, tokens,
                   Abstract!Grant, Abstract!Revoke
        <3>2. QED
            BY <3>1 DEF Abstract!Next
    <2>3. ASSUME NEW op \in Keys, NEW from \in Accounts, NEW to \in Accounts,
                 NEW amount \in U64, InternalTransfer(op, from, to, amount)
          PROVE  Abstract!Next
        <3> DEFINE d == DepositPart(ledger, from, amount)
        <3>1. /\ ledger \in Ledgers /\ max_operator_transfer_per_tx \in U64 /\ amount \in Nat
              /\ TransferAllowed(ledger, from, to, amount, max_operator_transfer_per_tx)
            BY <1>2, <2>3, LedgerAssumption DEF IInv, TypeOK, InternalTransfer, U64
        <3>2. /\ d \in U64 /\ amount - d \in U64
              /\ d <= ledger.balance[from]
              /\ amount - d <= ledger.collateral_balance[from]
            BY <3>1, TransferFacts
        <3>3. Abstract!Reassign(from, to, d, amount - d)
            BY <2>3, <3>1, <3>2
               DEF InternalTransfer, TransferAllowed, Transferred, Move, tokens, Abstract!Reassign
        <3> HIDE DEF d
        <3>4. QED
            BY <3>2, <3>3 DEF Abstract!Next
    <2>4. CASE OwnerStep
        BY <1>2, <2>4, OwnerStepFacts DEF IInv, money, tokens, Abstract!vars
    <2>5. QED
        BY <1>2, <2>1, <2>2, <2>3, <2>4 DEF Next, TraderStep, OperatorStep
<1>3. UNCHANGED vars => UNCHANGED Abstract!vars
    BY DEF vars, money, tokens, Abstract!vars
<1>4. IInv /\ [Next]_vars => [Abstract!Next]_(Abstract!vars)
    BY <1>2, <1>3
<1>5. QED
    BY <1>1, <1>4, SpecIInv, PTL DEF Spec, ImplementsCustody, Abstract!Spec

--------------------------------------------------------------------------------
(* The collateral manager.  The argument rides on the vault's own: the     *)
(* instructions that both programs share preserve the vault's inductive    *)
(* invariant by its lemmas, and move both programs' totals by one amount.  *)

Records == [amount : U64, credited_usdc : U64, haircut_at_deposit : U64,
            liquidation_threshold_at_deposit : U64]

\* Listing a token starts its total at zero, which loses nothing.
UnlistedEmpty == ~ token.listed => token.total_deposited = 0

\* The inductive invariant: both programs' books at once.  Neither half is
\* inductive for the composition: a withdrawal debits the vault's total only
\* because it is the sum of what the records say, and the subtractions of
\* both programs are exact only because the records are part of that sum.
MIInv == IInv /\ ManagerInv /\ UnlistedEmpty

--------------------------------------------------------------------------------
(* Arithmetic and sums *)

\* What a withdrawal of x out of n tokens takes back of a credit k: never more
\* than all of it, all of it only with the last token.
LEMMA DebitBounds ==
    ASSUME NEW k \in Nat, NEW n \in Nat, NEW x \in 1 .. n
    PROVE  /\ (k * x) \div n \in 0 .. k
           /\ x = n => (k * x) \div n = k
           /\ x < n /\ k > 0 => (k * x) \div n < k
<1> DEFINE q == (k * x) \div n
<1>1. n > 0 /\ x \in Nat /\ k * x \in Nat
    OBVIOUS
<1>2. q \in Int /\ q * n <= k * x /\ k * x < (q + 1) * n
    BY <1>1
<1>3. q >= 0
    BY <1>1
<1>4. k * x <= k * n /\ (x < n /\ k > 0 => k * x < k * n)
    BY <1>1
<1> HIDE DEF q
<1>5. q > k => q * n > k * n
    BY <1>1, <1>2
<1>6. q = k => q * n = k * n
    OBVIOUS
<1>7. q <= k
    BY <1>1, <1>2, <1>4, <1>5
<1>8. x < n /\ k > 0 => q < k
    BY <1>1, <1>2, <1>4, <1>6, <1>7
<1>9. ASSUME x = n PROVE q = k
    <2>1. k * n < (q + 1) * n
        BY <1>2, <1>9
    <2>2. k >= q + 1 => k * n >= (q + 1) * n
        BY <1>1, <1>2
    <2>3. k < q + 1
        BY <1>1, <1>2, <2>1, <2>2
    <2>4. QED
        BY <1>2, <1>7, <2>3
<1>10. QED
    BY <1>2, <1>3, <1>7, <1>8, <1>9 DEF q

\* A table s that differs from f in one row has the sum of f, moved by the difference.
LEMMA TableChange ==
    ASSUME NEW f \in [Accounts -> U64], NEW a \in Accounts, NEW v \in U64,
           NEW s, s = [f EXCEPT ![a] = v]
    PROVE  /\ SumTo(s, NumAccounts) = SumTo(f, NumAccounts) - f[a] + v
           /\ SumTo(f, NumAccounts) \in Nat /\ f[a] <= SumTo(f, NumAccounts)
<1>1. SumTo([f EXCEPT ![a] = v], NumAccounts) = SumTo(f, NumAccounts) - f[a] + v
    BY RowChange, ZenonT(60)
<1>2. /\ NumAccounts \in Nat /\ a \in 1 .. NumAccounts
      /\ f \in [1 .. NumAccounts -> Nat]
    BY LedgerAssumption DEF Accounts, U64
<1>3. SumTo(f, NumAccounts) \in Nat /\ f[a] <= SumTo(f, NumAccounts)
    BY <1>2, SumBound
<1>4. QED
    BY <1>1, <1>3

\* Replacing one trader's record moves the two totals by the difference.
LEMMA RecordChange ==
    ASSUME NEW c \in [Accounts -> Records], NEW a \in Accounts, NEW r \in Records
    PROVE  /\ TotalAmount([c EXCEPT ![a] = r]) = TotalAmount(c) - c[a].amount + r.amount
           /\ TotalCredited([c EXCEPT ![a] = r])
                  = TotalCredited(c) - c[a].credited_usdc + r.credited_usdc
           /\ TotalAmount(c) \in Nat /\ c[a].amount <= TotalAmount(c)
           /\ TotalCredited(c) \in Nat /\ c[a].credited_usdc <= TotalCredited(c)
<1> DEFINE d == [c EXCEPT ![a] = r]
           f == [x \in Accounts |-> c[x].amount]
           g == [x \in Accounts |-> c[x].credited_usdc]
           f1 == [x \in Accounts |-> d[x].amount]
           g1 == [x \in Accounts |-> d[x].credited_usdc]
           v == r.amount
           w == r.credited_usdc
<1>1. f \in [Accounts -> U64] /\ g \in [Accounts -> U64] /\ v \in U64 /\ w \in U64
    BY DEF Records
<1>2. f1 = [f EXCEPT ![a] = v] /\ g1 = [g EXCEPT ![a] = w]
    OBVIOUS
<1>3. f[a] = c[a].amount /\ g[a] = c[a].credited_usdc
    OBVIOUS
<1>4. /\ TotalAmount(c) = SumTo(f, NumAccounts) /\ TotalCredited(c) = SumTo(g, NumAccounts)
      /\ TotalAmount(d) = SumTo(f1, NumAccounts) /\ TotalCredited(d) = SumTo(g1, NumAccounts)
    BY DEF TotalAmount, TotalCredited
<1> HIDE DEF d, f, g, f1, g1, v, w
<1>5. /\ SumTo(f1, NumAccounts) = SumTo(f, NumAccounts) - f[a] + v
      /\ SumTo(f, NumAccounts) \in Nat /\ f[a] <= SumTo(f, NumAccounts)
    BY <1>1, <1>2, TableChange
<1>6. /\ SumTo(g1, NumAccounts) = SumTo(g, NumAccounts) - g[a] + w
      /\ SumTo(g, NumAccounts) \in Nat /\ g[a] <= SumTo(g, NumAccounts)
    BY <1>1, <1>2, TableChange
<1>7. QED
    BY <1>3, <1>4, <1>5, <1>6 DEF d, v, w

\* Without any record both totals are zero.
LEMMA NoRecords ==
    ASSUME NEW c, c = [a \in Accounts |-> NoCollateral]
    PROVE  TotalAmount(c) = 0 /\ TotalCredited(c) = 0
<1> DEFINE zero == [a \in Accounts |-> 0]
<1>1. /\ NumAccounts \in Nat
      /\ zero \in [1 .. NumAccounts -> Int]
      /\ \A i \in 1 .. NumAccounts : zero[i] = 0
    BY LedgerAssumption DEF Accounts
<1>2. /\ [a \in Accounts |-> c[a].amount] = zero
      /\ [a \in Accounts |-> c[a].credited_usdc] = zero
    BY DEF NoCollateral
<1> HIDE DEF zero
<1>3. SumTo(zero, NumAccounts) = 0
    BY <1>1, SumZero
<1>4. QED
    BY <1>2, <1>3 DEF TotalAmount, TotalCredited

--------------------------------------------------------------------------------
(* The instructions *)

LEMMA InitMIInv == ManagerInit => MIInv
<1> SUFFICES ASSUME ManagerInit PROVE MIInv
    OBVIOUS
<1>1. IInv
    BY InitIInv DEF ManagerInit
<1>2. 0 \in U64 /\ TokensEach \in Nat /\ Thresholds \subseteq U64 /\ Deviations \subseteq U64
    BY LedgerAssumption, CollateralAssumption DEF U64
<1>3. ManagerTypeOK
    BY <1>1, <1>2 DEF ManagerInit, ManagerTypeOK, IInv, NoCollateral
<1>4. TotalAmount(tc) = 0 /\ TotalCredited(tc) = 0
    BY NoRecords DEF ManagerInit
<1>5. EscrowExact /\ CreditsBacked /\ TokensCarryCredit
    BY <1>4 DEF ManagerInit, Init, EscrowExact, CreditsBacked, TokensCarryCredit, NoCollateral
<1>6. UnlistedEmpty
    BY DEF ManagerInit, UnlistedEmpty
<1>7. QED
    BY <1>1, <1>3, <1>5, <1>6 DEF MIInv, ManagerInv

\* The types of what the instructions read.
LEMMA Reads ==
    ASSUME MIInv
    PROVE  /\ tc \in [Accounts -> Records]
           /\ token.haircut_bps \in U64 /\ token.total_deposited \in U64
           /\ config.liquidation_threshold_bps \in U64
           /\ escrow \in Nat /\ purse \in [Accounts -> Nat]
           /\ total_collateral_credits \in U64
           /\ MaxU64 \in Nat
BY LedgerAssumption DEF MIInv, ManagerInv, ManagerTypeOK, IInv, TypeOK, Records

\* When one record and the two programs' totals move by the same amounts the
\* books stay exact.  x tokens enter and k units of credit are granted; both
\* are negative in a withdrawal.
LEMMA BooksMove ==
    ASSUME MIInv, NEW a \in Accounts, NEW x \in Int, NEW k \in Int, NEW r \in Records,
           r.amount = tc[a].amount + x, r.credited_usdc = tc[a].credited_usdc + k,
           r.amount > 0 <=> r.credited_usdc > 0,
           tc' = [tc EXCEPT ![a] = r],
           token'.total_deposited = token.total_deposited + x,
           escrow' = escrow + x,
           total_collateral_credits' = total_collateral_credits + k
    PROVE  /\ tc' \in [Accounts -> Records]
           /\ EscrowExact' /\ CreditsBacked' /\ TokensCarryCredit'
<1>1. /\ tc \in [Accounts -> Records] /\ escrow \in Nat
      /\ total_collateral_credits \in U64 /\ MaxU64 \in Nat
    BY Reads
<1>2. /\ escrow = token.total_deposited /\ escrow = TotalAmount(tc)
      /\ total_collateral_credits = TotalCredited(tc)
      /\ \A p \in Accounts : tc[p].amount > 0 <=> tc[p].credited_usdc > 0
    BY DEF MIInv, ManagerInv, EscrowExact, CreditsBacked, TokensCarryCredit
<1>3. /\ TotalAmount(tc') = TotalAmount(tc) - tc[a].amount + r.amount
      /\ TotalCredited(tc') = TotalCredited(tc) - tc[a].credited_usdc + r.credited_usdc
    BY <1>1, RecordChange
<1>4. tc[a].amount \in Int /\ tc[a].credited_usdc \in Int
    BY <1>1 DEF Records, U64
<1>5. TotalAmount(tc) \in Int /\ TotalCredited(tc) \in Int
    BY <1>1, <1>2 DEF U64
<1>6. EscrowExact' /\ CreditsBacked'
    BY <1>2, <1>3, <1>4, <1>5 DEF EscrowExact, CreditsBacked
<1>7. TokensCarryCredit'
    BY <1>1, <1>2 DEF TokensCarryCredit
<1>8. QED
    BY <1>1, <1>6, <1>7

LEMMA DepositTokenFacts ==
    ASSUME MIInv, NEW a \in Accounts, NEW amount \in U64, DepositToken(a, amount)
    PROVE  /\ MIInv'
           /\ tc' = [tc EXCEPT ![a] = Deposited(tc[a], amount, Credit(amount))]
           /\ Deposited(tc[a], amount, Credit(amount)).amount >= tc[a].amount
           /\ tc[a].amount > 0 =>
                 /\ Deposited(tc[a], amount, Credit(amount)).haircut_at_deposit
                        = tc[a].haircut_at_deposit
                 /\ Deposited(tc[a], amount, Credit(amount)).liquidation_threshold_at_deposit
                        = tc[a].liquidation_threshold_at_deposit
<1> DEFINE k == Credit(amount)
           r == Deposited(tc[a], amount, k)
<1>1. /\ k \in U64 \ {0} /\ amount > 0
      /\ tc[a].amount + amount <= MaxU64 /\ tc[a].credited_usdc + k <= MaxU64
      /\ token.total_deposited + amount <= MaxU64
      /\ amount <= purse[a]
      /\ tc' = [tc EXCEPT ![a] = r]
      /\ token' = [token EXCEPT !.total_deposited = @ + amount]
      /\ escrow' = escrow + amount
      /\ purse' = [purse EXCEPT ![a] = @ - amount]
      /\ CreditCollateral(cm, a, k)
      /\ UNCHANGED managing
    BY DEF DepositToken
<1> HIDE DEF k
<1>2. /\ tc[a] \in Records
      /\ token.haircut_bps \in U64 /\ token.total_deposited \in U64
      /\ config.liquidation_threshold_bps \in U64
      /\ escrow \in Nat /\ purse \in [Accounts -> Nat] /\ MaxU64 \in Nat
    BY Reads
<1>3. /\ k \in Nat /\ k > 0 /\ amount \in Nat
      /\ tc[a].amount \in Nat /\ tc[a].credited_usdc \in Nat
    BY <1>1, <1>2 DEF U64, Records
<1>4. /\ r \in Records
      /\ r.amount = tc[a].amount + amount /\ r.credited_usdc = tc[a].credited_usdc + k
      /\ tc[a].amount > 0 => /\ r.haircut_at_deposit = tc[a].haircut_at_deposit
                             /\ r.liquidation_threshold_at_deposit
                                    = tc[a].liquidation_threshold_at_deposit
    <2>1. tc[a].amount + amount \in U64 /\ tc[a].credited_usdc + k \in U64
        BY <1>1, <1>2, <1>3 DEF U64
    <2>2. r.haircut_at_deposit \in U64 /\ r.liquidation_threshold_at_deposit \in U64
        BY <1>2 DEF Deposited, Records
    <2>3. QED
        BY <1>3, <2>1, <2>2 DEF Deposited, Records
<1> HIDE DEF r
<1>5. IInv'
    BY <1>1, CreditCollateralIInv, CollateralAssumption DEF MIInv
<1>6. token \in [listed : BOOLEAN, active : BOOLEAN, fresh : BOOLEAN, haircut_bps : U64,
                 price : U64, total_deposited : U64, deposit_cap : U64]
    BY DEF MIInv, ManagerInv, ManagerTypeOK
<1>7. /\ token'.total_deposited = token.total_deposited + amount
      /\ total_collateral_credits' = total_collateral_credits + k
    BY <1>1, <1>6 DEF CreditCollateral
<1>8. /\ tc' \in [Accounts -> Records]
      /\ EscrowExact' /\ CreditsBacked' /\ TokensCarryCredit'
    <2>1. amount \in Int /\ k \in Int /\ r.amount > 0 /\ r.credited_usdc > 0
        BY <1>1, <1>3, <1>4
    <2>2. QED
        BY <1>1, <1>4, <1>7, <2>1, BooksMove
<1>9. ManagerTypeOK'
    <2>1. token' \in [listed : BOOLEAN, active : BOOLEAN, fresh : BOOLEAN, haircut_bps : U64,
                      price : U64, total_deposited : U64, deposit_cap : U64]
        BY <1>1, <1>2, <1>3, <1>6 DEF U64
    <2>2. escrow' \in Nat /\ purse' \in [Accounts -> Nat]
        BY <1>1, <1>2, <1>3
    <2>3. QED
        BY <1>1, <1>5, <1>8, <2>1, <2>2
           DEF MIInv, ManagerInv, ManagerTypeOK, IInv, managing, Records
<1>10. MIInv'
    <2>1. token.listed /\ token'.listed = token.listed
        BY <1>1, <1>6 DEF DepositToken
    <2>2. QED
        BY <1>5, <1>8, <1>9, <2>1 DEF MIInv, ManagerInv, UnlistedEmpty
<1>11. QED
    BY <1>1, <1>3, <1>4, <1>10 DEF k, r

LEMMA WithdrawTokenFacts ==
    ASSUME MIInv, NEW a \in Accounts, NEW amount \in U64, WithdrawToken(a, amount)
    PROVE  /\ MIInv'
           /\ tc' = [tc EXCEPT ![a].amount = tc[a].amount - amount,
                               ![a].credited_usdc = tc[a].credited_usdc - Debit(tc[a], amount)]
           /\ ledger'.collateral_balance[a]
                  = ledger.collateral_balance[a] - Debit(tc[a], amount)
           /\ Debit(tc[a], amount) \in Nat /\ Debit(tc[a], amount) \in U64
<1> DEFINE k == Debit(tc[a], amount)
           r == [tc[a] EXCEPT !.amount = tc[a].amount - amount,
                              !.credited_usdc = tc[a].credited_usdc - k]
<1>1. /\ amount > 0 /\ amount <= tc[a].amount /\ amount <= escrow
      /\ DebitVault(a, k)
      /\ tc' = [tc EXCEPT ![a].amount = Minus(@, amount), ![a].credited_usdc = Minus(@, k)]
      /\ token' = [token EXCEPT !.total_deposited = Minus(@, amount)]
      /\ escrow' = escrow - amount
      /\ purse' = [purse EXCEPT ![a] = @ + amount]
      /\ UNCHANGED managing
    BY DEF WithdrawToken, Withdrawable
<1>2. /\ tc \in [Accounts -> Records] /\ tc[a] \in Records
      /\ token.total_deposited \in U64
      /\ escrow \in Nat /\ purse \in [Accounts -> Nat] /\ MaxU64 \in Nat
      /\ total_collateral_credits \in U64
    BY Reads
<1>3. /\ amount \in Nat /\ tc[a].amount \in Nat /\ tc[a].credited_usdc \in Nat
      /\ tc[a].amount <= MaxU64 /\ tc[a].credited_usdc <= MaxU64
      /\ amount \in 1 .. tc[a].amount
    BY <1>1, <1>2 DEF U64, Records
<1>4. tc[a].amount > 0 <=> tc[a].credited_usdc > 0
    BY DEF MIInv, ManagerInv, TokensCarryCredit
<1>5. /\ k \in 0 .. tc[a].credited_usdc
      /\ amount = tc[a].amount => k = tc[a].credited_usdc
      /\ amount < tc[a].amount => k < tc[a].credited_usdc
    BY <1>3, <1>4, DebitBounds DEF Debit
<1> HIDE DEF k
<1>6. k \in Nat /\ k \in U64
    BY <1>2, <1>3, <1>5 DEF U64
<1>7. /\ Minus(tc[a].amount, amount) = tc[a].amount - amount
      /\ Minus(tc[a].credited_usdc, k) = tc[a].credited_usdc - k
    BY <1>1, <1>3, <1>5 DEF Minus
<1>8. tc' = [tc EXCEPT ![a] = r]
    BY <1>1, <1>2, <1>7
<1>9. /\ r \in Records
      /\ r.amount = tc[a].amount + (0 - amount)
      /\ r.credited_usdc = tc[a].credited_usdc + (0 - k)
      /\ r.amount > 0 <=> r.credited_usdc > 0
    <2>1. /\ r.amount = tc[a].amount - amount
          /\ r.credited_usdc = tc[a].credited_usdc - k
        BY <1>2 DEF Records
    <2>2. tc[a].amount - amount \in U64 /\ tc[a].credited_usdc - k \in U64
        BY <1>2, <1>3, <1>5, <1>6 DEF U64
    <2>3. r \in Records
        BY <1>2, <2>2 DEF Records
    <2>4. tc[a].amount - amount > 0 <=> tc[a].credited_usdc - k > 0
        BY <1>3, <1>5, <1>6
    <2>5. QED
        BY <1>3, <1>6, <2>1, <2>3, <2>4
<1>10. /\ IInv'
       /\ total_collateral_credits' = total_collateral_credits + (0 - k)
       /\ ledger'.collateral_balance[a] = ledger.collateral_balance[a] - k
    <2>1. /\ ledger.collateral_balance \in [Accounts -> U64]
          /\ ledger \in [balance : [Accounts -> U64], collateral_balance : [Accounts -> U64]]
        BY DEF MIInv, IInv, TypeOK, Ledgers
    <2>2. CASE k > 0
        <3>1. DebitCollateral(cm, a, k)
            BY <1>1, <2>2 DEF DebitVault
        <3>2. IInv'
            BY <1>6, <3>1, DebitCollateralIInv, CollateralAssumption DEF MIInv
        <3>3. QED
            BY <1>2, <1>6, <2>1, <3>1, <3>2 DEF DebitCollateral, U64
    <2>3. CASE k = 0
        <3>1. UNCHANGED vars
            BY <1>1, <2>3 DEF DebitVault
        <3>2. IInv'
            BY <3>1, NextIInv DEF MIInv
        <3>3. /\ total_collateral_credits' = total_collateral_credits
              /\ ledger' = ledger
            BY <3>1 DEF vars, money, totals
        <3>4. QED
            BY <1>2, <2>1, <2>3, <3>2, <3>3 DEF U64
    <2>4. QED
        BY <1>6, <2>2, <2>3
<1>11. /\ token \in [listed : BOOLEAN, active : BOOLEAN, fresh : BOOLEAN, haircut_bps : U64,
                     price : U64, total_deposited : U64, deposit_cap : U64]
       /\ escrow = token.total_deposited
    BY DEF MIInv, ManagerInv, ManagerTypeOK, EscrowExact
<1>12. token'.total_deposited = token.total_deposited + (0 - amount)
    BY <1>1, <1>2, <1>3, <1>11 DEF Minus, U64
<1> HIDE DEF r
<1>13. escrow' = escrow + (0 - amount) /\ 0 - amount \in Int /\ 0 - k \in Int
    BY <1>1, <1>2, <1>3, <1>6
<1>14. /\ tc' \in [Accounts -> Records]
       /\ EscrowExact' /\ CreditsBacked' /\ TokensCarryCredit'
    BY <1>8, <1>9, <1>10, <1>12, <1>13, BooksMove
<1>15. ManagerTypeOK'
    <2>1. escrow' \in Nat /\ purse' \in [Accounts -> Nat]
        BY <1>1, <1>2, <1>3
    <2>2. token' \in [listed : BOOLEAN, active : BOOLEAN, fresh : BOOLEAN, haircut_bps : U64,
                      price : U64, total_deposited : U64, deposit_cap : U64]
        BY <1>1, <1>2, <1>3, <1>11 DEF Minus, U64
    <2>3. QED
        BY <1>1, <1>10, <1>14, <2>1, <2>2
           DEF MIInv, ManagerInv, ManagerTypeOK, IInv, managing, Records
<1>16. MIInv'
    <2>1. token.listed /\ token'.listed = token.listed
        BY <1>1, <1>11 DEF WithdrawToken, Withdrawable
    <2>2. QED
        BY <1>10, <1>14, <1>15, <2>1 DEF MIInv, ManagerInv, UnlistedEmpty
<1>17. QED
    BY <1>1, <1>6, <1>7, <1>10, <1>16 DEF k

\* What a report of the price, a passing hour or a change of settings leaves:
\* no tokens and no credit move, and the deposit total stands.
Settled ==
    /\ UNCHANGED <<vars, tokens_held>>
    /\ token' \in [listed : BOOLEAN, active : BOOLEAN, fresh : BOOLEAN, haircut_bps : U64,
                   price : U64, total_deposited : U64, deposit_cap : U64]
    /\ token'.total_deposited = token.total_deposited
    /\ ~ token'.listed => ~ token.listed
    /\ config' \in [owner : Keys, pending_owner : Keys \cup {NoKey}, paused : BOOLEAN,
                    liquidation_threshold_bps : U64, max_price_deviation_bps : U64]
    /\ price_operators' \subseteq Keys

LEMMA SettingsSettled ==
    ASSUME MIInv, PriceStep \/ ManagerOwnerStep
    PROVE  Settled
<1>1. /\ token \in [listed : BOOLEAN, active : BOOLEAN, fresh : BOOLEAN, haircut_bps : U64,
                    price : U64, total_deposited : U64, deposit_cap : U64]
      /\ config \in [owner : Keys, pending_owner : Keys \cup {NoKey}, paused : BOOLEAN,
                     liquidation_threshold_bps : U64, max_price_deviation_bps : U64]
      /\ price_operators \subseteq Keys
    BY DEF MIInv, ManagerInv, ManagerTypeOK
<1>2. /\ TokenPrices \subseteq U64 /\ Haircuts \subseteq U64 /\ Thresholds \subseteq U64
      /\ Deviations \subseteq U64 /\ TokenCaps \subseteq U64 /\ 0 \in U64
    BY CollateralAssumption, LedgerAssumption DEF U64
<1>3. ~ token.listed => token.total_deposited = 0
    BY DEF MIInv, UnlistedEmpty
<1>4. ASSUME PriceAges PROVE Settled
    BY <1>1, <1>4 DEF PriceAges, Settled, managing
<1>5. ASSUME NEW key \in Keys, NEW price \in TokenPrices, UpdatePrice(key, price)
      PROVE  Settled
    BY <1>1, <1>2, <1>5 DEF UpdatePrice, Settled, managing
<1>6. ASSUME NEW key \in Keys, NEW haircut \in Haircuts, UpdateHaircut(key, haircut)
      PROVE  Settled
    BY <1>1, <1>2, <1>6 DEF UpdateHaircut, Settled, managing
<1>7. ASSUME NEW key \in Keys, NEW haircut \in Haircuts, NEW price \in TokenPrices,
             NEW cap \in TokenCaps, AddCollateral(key, haircut, price, cap)
      PROVE  Settled
    BY <1>1, <1>2, <1>3, <1>7 DEF AddCollateral, Settled, managing
<1>8. ASSUME NEW key \in Keys, NEW flag \in BOOLEAN, SetActive(key, flag)
      PROVE  Settled
    BY <1>1, <1>8 DEF SetActive, Settled, managing
<1>9. ASSUME NEW key \in Keys, NEW op \in Keys, NEW flag \in BOOLEAN,
             SetPriceOperator(key, op, flag)
      PROVE  Settled
    BY <1>1, <1>9 DEF SetPriceOperator, Settled
<1>10. ASSUME NEW key \in Keys, NEW flag \in BOOLEAN, SetManagerPaused(key, flag)
       PROVE  Settled
    BY <1>1, <1>10 DEF SetManagerPaused, Configured, Settled
<1>11. ASSUME NEW key \in Keys, NEW threshold \in Thresholds,
              SetLiquidationThreshold(key, threshold)
       PROVE  Settled
    BY <1>1, <1>2, <1>11 DEF SetLiquidationThreshold, Configured, Settled
<1>12. ASSUME NEW key \in Keys, NEW bps \in Deviations, SetMaxPriceDeviation(key, bps)
       PROVE  Settled
    BY <1>1, <1>2, <1>12 DEF SetMaxPriceDeviation, Configured, Settled
<1>13. ASSUME NEW key \in Keys, NEW new_owner \in Keys, TransferManager(key, new_owner)
       PROVE  Settled
    BY <1>1, <1>13 DEF TransferManager, Configured, Settled
<1>14. ASSUME NEW key \in Keys, AcceptManager(key) PROVE Settled
    BY <1>1, <1>14 DEF AcceptManager, Settled
<1>15. CASE PriceStep
    BY <1>4, <1>5, <1>15 DEF PriceStep
<1>16. CASE ManagerOwnerStep
    BY <1>6, <1>7, <1>8, <1>9, <1>10, <1>11, <1>12, <1>13, <1>14, <1>16 DEF ManagerOwnerStep
<1>17. QED
    BY <1>15, <1>16

LEMMA SettledMIInv == ASSUME MIInv, Settled PROVE MIInv'
<1>1. IInv'
    <2>1. UNCHANGED vars
        BY DEF Settled
    <2>2. QED
        BY <2>1, NextIInv DEF MIInv
<1>2. tc' = tc /\ escrow' = escrow /\ purse' = purse
    BY DEF Settled, tokens_held
<1>3. total_collateral_credits' = total_collateral_credits
    BY DEF Settled, vars, money, totals
<1>4. ManagerTypeOK'
    BY <1>1, <1>2 DEF MIInv, ManagerInv, ManagerTypeOK, IInv, Settled
<1>5. EscrowExact' /\ CreditsBacked' /\ TokensCarryCredit' /\ UnlistedEmpty'
    BY <1>2, <1>3 DEF MIInv, ManagerInv, EscrowExact, CreditsBacked, TokensCarryCredit,
                      UnlistedEmpty, Settled
<1>6. QED
    BY <1>1, <1>4, <1>5 DEF MIInv, ManagerInv

\* The other programs' transfers and the vault's owner leave the manager and
\* the total of credit alone.
LEMMA VaultSideFacts ==
    ASSUME MIInv, VaultSide
    PROVE  MIInv' /\ UNCHANGED manager
<1>1. IInv' /\ total_collateral_credits' = total_collateral_credits
    <2>1. ASSUME NEW op \in Keys, NEW from \in Accounts, NEW to \in Accounts,
                 NEW amount \in U64, InternalTransfer(op, from, to, amount)
          PROVE  IInv' /\ total_collateral_credits' = total_collateral_credits
        BY <2>1, InternalTransferIInv DEF MIInv, InternalTransfer, totals
    <2>2. ASSUME OwnerStep
          PROVE  IInv' /\ total_collateral_credits' = total_collateral_credits
        <3>1. Next
            BY <2>2 DEF Next
        <3>2. UNCHANGED money
            BY <2>2, OwnerStepFacts DEF MIInv, IInv
        <3>3. QED
            BY <3>1, <3>2, NextIInv DEF MIInv, money, totals
    <2>3. owner \in Keys
        BY DEF MIInv, IInv, TypeOK
    <2>4. OwnerStep \/ \E op \in Keys \ {cm}, from, to \in Accounts, amount \in U64 :
                           InternalTransfer(op, from, to, amount)
        BY <2>3 DEF VaultSide, OwnerStep
    <2>5. QED
        BY <2>1, <2>2, <2>4
<1>2. UNCHANGED manager
    BY DEF VaultSide
<1>3. /\ config' = config /\ price_operators' = price_operators /\ token' = token
      /\ tc' = tc /\ escrow' = escrow /\ purse' = purse
    BY <1>2 DEF manager, managing, tokens_held
<1>4. ManagerTypeOK'
    BY <1>1, <1>3 DEF MIInv, ManagerInv, ManagerTypeOK, IInv
<1>5. EscrowExact' /\ CreditsBacked' /\ TokensCarryCredit' /\ UnlistedEmpty'
    BY <1>1, <1>3 DEF MIInv, ManagerInv, EscrowExact, CreditsBacked, TokensCarryCredit,
                      UnlistedEmpty
<1>6. QED
    BY <1>1, <1>2, <1>4, <1>5 DEF MIInv, ManagerInv

LEMMA NextMIInv == MIInv /\ [ManagerNext]_cvars => MIInv'
<1> SUFFICES ASSUME MIInv, [ManagerNext]_cvars PROVE MIInv'
    OBVIOUS
<1>1. CASE TokenStep
    BY <1>1, DepositTokenFacts, WithdrawTokenFacts DEF TokenStep
<1>2. CASE PriceStep \/ ManagerOwnerStep
    BY <1>2, SettingsSettled, SettledMIInv
<1>3. CASE VaultSide
    BY <1>3, VaultSideFacts
<1>4. CASE UNCHANGED cvars
    <2>1. UNCHANGED vars /\ UNCHANGED manager
        BY <1>4 DEF cvars
    <2>2. IInv'
        BY <2>1, NextIInv DEF MIInv
    <2>3. Settled
        BY <2>1 DEF Settled, manager, managing, MIInv, ManagerInv, ManagerTypeOK
    <2>4. QED
        BY <2>3, SettledMIInv
<1>5. QED
    BY <1>1, <1>2, <1>3, <1>4 DEF ManagerNext

LEMMA SpecMIInv == ManagerSpec => []MIInv
BY InitMIInv, NextMIInv, PTL DEF ManagerSpec

--------------------------------------------------------------------------------
\* Tokens in escrow, the manager's records and the credit outstanding at the
\* vault agree, and rounding never parts tokens from credit.
THEOREM ManagerBooks == ManagerSpec => []ManagerInv
BY SpecMIInv, PTL DEF MIInv

\* No trader gets tokens back without giving back its own credit for them.
THEOREM CreditComesBack == ManagerSpec => NoTokensWithoutCredit
<1> DEFINE Paid ==
        \A a \in Accounts :
            tc'[a].amount < tc[a].amount =>
                ledger.collateral_balance[a] - ledger'.collateral_balance[a]
                    = tc[a].credited_usdc - tc'[a].credited_usdc
<1>1. ASSUME MIInv, ManagerNext PROVE Paid
    <2> SUFFICES ASSUME NEW p \in Accounts, tc'[p].amount < tc[p].amount
                 PROVE  ledger.collateral_balance[p] - ledger'.collateral_balance[p]
                            = tc[p].credited_usdc - tc'[p].credited_usdc
        OBVIOUS
    <2>1. tc \in [Accounts -> Records]
        BY <1>1, Reads
    <2>2. tc[p].amount \in Int /\ tc[p].credited_usdc \in Int
        BY <2>1, LedgerAssumption DEF Records, U64
    <2>3. ASSUME NEW a \in Accounts, NEW amount \in U64, DepositToken(a, amount)
          PROVE  FALSE
        <3>1. /\ tc' = [tc EXCEPT ![a] = Deposited(tc[a], amount, Credit(amount))]
              /\ Deposited(tc[a], amount, Credit(amount)).amount >= tc[a].amount
            BY <1>1, <2>3, DepositTokenFacts
        <3>2. tc'[p].amount >= tc[p].amount
            BY <2>1, <2>2, <3>1
        <3>3. tc'[p].amount \in Int
            BY <1>1, <2>3, DepositTokenFacts, Reads, LedgerAssumption
               DEF MIInv, ManagerInv, ManagerTypeOK, U64
        <3>4. QED
            BY <2>2, <3>2, <3>3
    <2>4. ASSUME NEW a \in Accounts, NEW amount \in U64, WithdrawToken(a, amount)
          PROVE  ledger.collateral_balance[p] - ledger'.collateral_balance[p]
                     = tc[p].credited_usdc - tc'[p].credited_usdc
        <3> DEFINE k == Debit(tc[a], amount)
        <3>1. /\ tc' = [tc EXCEPT ![a].amount = tc[a].amount - amount,
                                  ![a].credited_usdc = tc[a].credited_usdc - k]
              /\ ledger'.collateral_balance[a] = ledger.collateral_balance[a] - k
              /\ k \in Nat
            BY <1>1, <2>4, WithdrawTokenFacts
        <3> HIDE DEF k
        <3>2. p = a
            BY <2>1, <2>2, <3>1
        <3>3. ledger.collateral_balance[a] \in Int
            BY <1>1, LedgerAssumption DEF MIInv, IInv, TypeOK, Ledgers, U64
        <3>4. tc'[a].credited_usdc = tc[a].credited_usdc - k
            BY <2>1, <3>1 DEF Records
        <3>5. QED
            BY <2>2, <3>1, <3>2, <3>3, <3>4
    <2>5. ASSUME tc' = tc PROVE FALSE
        BY <2>2, <2>5
    <2>6. CASE PriceStep \/ ManagerOwnerStep
        BY <1>1, <2>5, <2>6, SettingsSettled DEF Settled, tokens_held
    <2>7. CASE VaultSide
        BY <1>1, <2>5, <2>7, VaultSideFacts DEF manager, tokens_held
    <2>8. QED
        BY <1>1, <2>3, <2>4, <2>6, <2>7 DEF ManagerNext, TokenStep
<1>2. MIInv /\ [ManagerNext]_cvars => [Paid]_cvars
    BY <1>1
<1>3. QED
    BY <1>2, SpecMIInv, PTL DEF ManagerSpec, NoTokensWithoutCredit

\* Changing a haircut or a threshold changes nobody's terms in retrospect.
THEOREM TermsStand == ManagerSpec => SnapshotsHold
<1> DEFINE Held ==
        \A a \in Accounts :
            (/\ tc[a].amount > 0
             /\ tc'[a].amount > 0) =>
                /\ tc'[a].haircut_at_deposit = tc[a].haircut_at_deposit
                /\ tc'[a].liquidation_threshold_at_deposit
                       = tc[a].liquidation_threshold_at_deposit
<1>1. ASSUME MIInv, ManagerNext PROVE Held
    <2> SUFFICES ASSUME NEW p \in Accounts, tc[p].amount > 0
                 PROVE  /\ tc'[p].haircut_at_deposit = tc[p].haircut_at_deposit
                        /\ tc'[p].liquidation_threshold_at_deposit
                               = tc[p].liquidation_threshold_at_deposit
        OBVIOUS
    <2>1. tc \in [Accounts -> Records]
        BY <1>1, Reads
    <2>2. ASSUME NEW a \in Accounts, NEW amount \in U64, DepositToken(a, amount)
          PROVE  /\ tc'[p].haircut_at_deposit = tc[p].haircut_at_deposit
                 /\ tc'[p].liquidation_threshold_at_deposit
                        = tc[p].liquidation_threshold_at_deposit
        BY <1>1, <2>1, <2>2, DepositTokenFacts
    <2>3. ASSUME NEW a \in Accounts, NEW amount \in U64, WithdrawToken(a, amount)
          PROVE  /\ tc'[p].haircut_at_deposit = tc[p].haircut_at_deposit
                 /\ tc'[p].liquidation_threshold_at_deposit
                        = tc[p].liquidation_threshold_at_deposit
        <3>1. tc' = [tc EXCEPT ![a].amount = tc[a].amount - amount,
                               ![a].credited_usdc = tc[a].credited_usdc - Debit(tc[a], amount)]
            BY <1>1, <2>3, WithdrawTokenFacts
        <3>2. tc[a] \in Records
            BY <2>1
        <3>3. tc'[p] = IF p = a
                       THEN [tc[a] EXCEPT !.amount = tc[a].amount - amount,
                                          !.credited_usdc = tc[a].credited_usdc
                                                                - Debit(tc[a], amount)]
                       ELSE tc[p]
            BY <2>1, <3>1
        <3>4. QED
            BY <3>2, <3>3 DEF Records
    <2>4. CASE PriceStep \/ ManagerOwnerStep
        BY <1>1, <2>4, SettingsSettled DEF Settled, tokens_held
    <2>5. CASE VaultSide
        BY <1>1, <2>5, VaultSideFacts DEF manager, tokens_held
    <2>6. QED
        BY <1>1, <2>2, <2>3, <2>4, <2>5 DEF ManagerNext, TokenStep
<1>2. MIInv /\ [ManagerNext]_cvars => [Held]_cvars
    BY <1>1
<1>3. QED
    BY <1>2, SpecMIInv, PTL DEF ManagerSpec, SnapshotsHold

\* In every reachable state of the books a trader who still has the credit
\* passes every check of a withdrawal of all its tokens: the token is listed
\* because something is deposited, the escrow covers each record, and the debit
\* is the record's whole credit, which the vault counts as outstanding.
LEMMA CoveredIsRedeemable == MIInv => RedeemableWhenCovered
<1> SUFFICES ASSUME MIInv, NEW a \in Accounts,
                    tc[a].amount > 0,
                    tc[a].credited_usdc <= ledger.collateral_balance[a],
                    ~ config.paused, ~ paused, cm \in authorized, token.fresh
             PROVE  Withdrawable(a, tc[a].amount)
    BY DEF RedeemableWhenCovered
<1> DEFINE k == Debit(tc[a], tc[a].amount)
<1>1. /\ tc \in [Accounts -> Records] /\ tc[a] \in Records
      /\ tc[a].amount \in Nat /\ tc[a].credited_usdc \in Nat
      /\ token.total_deposited \in U64
    BY Reads, LedgerAssumption DEF Records, U64
<1>2. /\ escrow = token.total_deposited /\ escrow = TotalAmount(tc)
      /\ total_collateral_credits = TotalCredited(tc)
    BY DEF MIInv, ManagerInv, EscrowExact, CreditsBacked
<1>3. /\ TotalAmount(tc) \in Nat /\ tc[a].amount <= TotalAmount(tc)
      /\ TotalCredited(tc) \in Nat /\ tc[a].credited_usdc <= TotalCredited(tc)
    BY <1>1, RecordChange
<1>4. tc[a].amount <= escrow /\ token.listed
    BY <1>1, <1>2, <1>3 DEF MIInv, UnlistedEmpty
<1>5. k = tc[a].credited_usdc
    <2>1. tc[a].amount \in 1 .. tc[a].amount
        BY <1>1
    <2>2. QED
        BY <1>1, <2>1, DebitBounds DEF Debit
<1> HIDE DEF k
<1>6. k > 0 => DebitAllowed(cm, a, k)
    BY <1>2, <1>3, <1>5 DEF DebitAllowed
<1>7. QED
    BY <1>1, <1>4, <1>6 DEF Withdrawable, k

\* For any number of traders and all prices, haircuts and amounts a trader
\* whose row still covers the credit of its record can take all its tokens
\* out in one withdrawal, whether the token is delisted or not.
THEOREM CoveredTradersLeave == ManagerSpec => []RedeemableWhenCovered
BY SpecMIInv, CoveredIsRedeemable, PTL

\* The vault under the manager is the vault: an instruction of the manager is
\* an instruction of the vault or invisible to it, so that whatever holds of
\* the vault's specification holds here.
THEOREM ManagerUsesTheVault == ManagerSpec => Spec
<1>1. ManagerInit => Init
    BY DEF ManagerInit
<1>2. ASSUME MIInv, ManagerNext PROVE [Next]_vars
    <2>1. ASSUME NEW a \in Accounts, NEW amount \in U64, DepositToken(a, amount)
          PROVE  Next
        <3>1. Credit(amount) \in U64 /\ CreditCollateral(cm, a, Credit(amount))
            BY <2>1 DEF DepositToken
        <3>2. QED
            BY <3>1, CollateralAssumption DEF Next, OperatorStep
    <2>2. ASSUME NEW a \in Accounts, NEW amount \in U64, WithdrawToken(a, amount)
          PROVE  [Next]_vars
        <3> DEFINE k == Debit(tc[a], amount)
        <3>1. k \in U64
            BY <1>2, <2>2, WithdrawTokenFacts
        <3>2. DebitVault(a, k)
            BY <2>2 DEF WithdrawToken
        <3> HIDE DEF k
        <3>3. DebitCollateral(cm, a, k) \/ UNCHANGED vars
            BY <3>2 DEF DebitVault
        <3>4. QED
            BY <3>1, <3>3, CollateralAssumption DEF Next, OperatorStep
    <2>3. CASE PriceStep \/ ManagerOwnerStep
        BY <1>2, <2>3, SettingsSettled DEF Settled
    <2>4. CASE VaultSide
        <3>1. owner \in Keys
            BY <1>2 DEF MIInv, IInv, TypeOK
        <3>2. OwnerStep \/ OperatorStep
            BY <2>4, <3>1 DEF VaultSide, OwnerStep, OperatorStep
        <3>3. QED
            BY <3>2 DEF Next
    <2>5. QED
        BY <1>2, <2>1, <2>2, <2>3, <2>4 DEF ManagerNext, TokenStep
<1>3. UNCHANGED cvars => UNCHANGED vars
    BY DEF cvars
<1>4. MIInv /\ [ManagerNext]_cvars => [Next]_vars
    BY <1>2, <1>3
<1>5. QED
    BY <1>1, <1>4, SpecMIInv, PTL DEF ManagerSpec, Spec
================================================================================
