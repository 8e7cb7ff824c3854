------------------------------- MODULE PerpVault -------------------------------
(***************************************************************************)
(* perp_vault: custody of USDC.  Traders deposit and withdraw; authorized  *)
(* operators (the other programs' authority accounts) move value between   *)
(* rows and credit or debit yield-token collateral; the owner pauses, sets *)
(* limits, authorizes operators and hands ownership over in two steps.     *)
(*                                                                         *)
(* Every instruction is one atomic Solana transaction, so it is one action *)
(* here; an instruction that returns an error changes nothing and is not a *)
(* step.  Checked u64 arithmetic is a guard against MaxU64.                *)
(***************************************************************************)
EXTENDS VaultLedger

CONSTANTS
    Keys,           \* signing keys: owners and operators
    NoKey,          \* Pubkey::default(), which nobody can sign for
    LimitValues,    \* values an owner may set for a cap (0 means unlimited)
    InitialWallet   \* USDC each trader holds outside the vault at the start

ASSUME VaultAssumption ==
    /\ NoKey \notin Keys
    /\ LimitValues \subseteq U64
    /\ InitialWallet \in [Accounts -> Nat]

VARIABLES
    owner, pending_owner, paused,
    deposit_cap, max_withdrawal_per_tx, max_operator_transfer_per_tx,
    total_deposits, total_collateral_credits,
    ledger,         \* the AccountBalance rows
    opened,         \* accounts whose AccountBalance exists
    operator_pdas,  \* keys whose Operator account exists
    authorized,     \* keys whose Operator account says authorized
    usdc_vault,     \* USDC in the vault's token account
    wallet          \* USDC in the traders' own token accounts

limits == <<deposit_cap, max_withdrawal_per_tx, max_operator_transfer_per_tx>>
admin == <<owner, pending_owner, paused, limits, operator_pdas, authorized>>
totals == <<total_deposits, total_collateral_credits>>
tokens == <<usdc_vault, wallet>>
money == <<ledger, opened, totals, tokens>>
vars == <<admin, money>>

TypeOK ==
    /\ owner \in Keys
    /\ pending_owner \in Keys \cup {NoKey}
    /\ paused \in BOOLEAN
    /\ deposit_cap \in U64
    /\ max_withdrawal_per_tx \in U64
    /\ max_operator_transfer_per_tx \in U64
    /\ total_deposits \in U64
    /\ total_collateral_credits \in U64
    /\ ledger \in Ledgers
    /\ opened \subseteq Accounts
    /\ operator_pdas \subseteq Keys
    /\ authorized \subseteq operator_pdas
    /\ usdc_vault \in Nat
    /\ wallet \in [Accounts -> Nat]

\* The state initialize leaves behind.
Init ==
    /\ owner \in Keys
    /\ pending_owner = NoKey
    /\ paused = FALSE
    /\ deposit_cap \in LimitValues
    /\ max_withdrawal_per_tx \in LimitValues
    /\ max_operator_transfer_per_tx \in LimitValues
    /\ total_deposits = 0
    /\ total_collateral_credits = 0
    /\ ledger = EmptyLedger
    /\ opened = {}
    /\ operator_pdas = {}
    /\ authorized = {}
    /\ usdc_vault = 0
    /\ wallet = InitialWallet

--------------------------------------------------------------------------------
\* Traders

Deposit(a, amount) ==
    /\ ~ paused
    /\ amount > 0
    /\ deposit_cap > 0 => total_deposits + amount <= deposit_cap
    /\ amount <= wallet[a]
    /\ ledger.balance[a] + amount <= MaxU64
    /\ total_deposits + amount <= MaxU64
    /\ ledger' = [ledger EXCEPT !.balance[a] = @ + amount]
    /\ opened' = opened \cup {a}
    /\ total_deposits' = total_deposits + amount
    /\ usdc_vault' = usdc_vault + amount
    /\ wallet' = [wallet EXCEPT ![a] = @ - amount]
    /\ UNCHANGED <<admin, total_collateral_credits>>

WithdrawKeepsTotal(a, amount) ==        \* a mutant: total_deposits is not reduced
    /\ ~ paused
    /\ amount > 0
    /\ amount <= ledger.balance[a]
    /\ amount <= usdc_vault
    /\ ledger' = [ledger EXCEPT !.balance[a] = @ - amount]
    /\ usdc_vault' = usdc_vault - amount
    /\ wallet' = [wallet EXCEPT ![a] = @ + amount]
    /\ UNCHANGED <<admin, opened, totals>>

Withdraw(a, amount) ==
    /\ ~ paused
    /\ amount > 0
    /\ a \in opened
    /\ amount <= ledger.balance[a]
    /\ max_withdrawal_per_tx > 0 => amount <= max_withdrawal_per_tx
    /\ amount <= total_deposits
    /\ amount <= usdc_vault
    /\ ledger' = [ledger EXCEPT !.balance[a] = @ - amount]
    /\ total_deposits' = total_deposits - amount
    /\ usdc_vault' = usdc_vault - amount
    /\ wallet' = [wallet EXCEPT ![a] = @ + amount]
    /\ UNCHANGED <<admin, opened, total_collateral_credits>>

\* Anyone may send USDC straight to the vault's token account; the vault's
\* books do not see it.
Donate(a, amount) ==
    /\ amount > 0
    /\ amount <= wallet[a]
    /\ usdc_vault' = usdc_vault + amount
    /\ wallet' = [wallet EXCEPT ![a] = @ - amount]
    /\ UNCHANGED <<admin, ledger, opened, totals>>

--------------------------------------------------------------------------------
\* Operators

InternalTransferByPda(op, from, to, amount) ==      \* a mutant: existence is authorization
    /\ op \in operator_pdas
    /\ ~ paused
    /\ {from, to} \subseteq opened
    /\ TransferAllowed(ledger, from, to, amount, max_operator_transfer_per_tx)
    /\ ledger' = Transferred(ledger, from, to, amount)
    /\ UNCHANGED <<admin, opened, totals, tokens>>

InternalTransfer(op, from, to, amount) ==
    /\ op \in authorized
    /\ ~ paused
    /\ {from, to} \subseteq opened
    /\ TransferAllowed(ledger, from, to, amount, max_operator_transfer_per_tx)
    /\ ledger' = Transferred(ledger, from, to, amount)
    /\ UNCHANGED <<admin, opened, totals, tokens>>

CreditCollateral(op, a, amount) ==
    /\ op \in authorized
    /\ ~ paused
    /\ amount > 0
    /\ ledger.collateral_balance[a] + amount <= MaxU64
    /\ total_collateral_credits + amount <= MaxU64
    /\ ledger' = [ledger EXCEPT !.collateral_balance[a] = @ + amount]
    /\ opened' = opened \cup {a}
    /\ total_collateral_credits' = total_collateral_credits + amount
    /\ UNCHANGED <<admin, total_deposits, tokens>>

DebitAllowed(op, a, amount) ==
    /\ op \in authorized
    /\ ~ paused
    /\ amount > 0
    /\ amount <= ledger.collateral_balance[a]
    /\ amount <= total_collateral_credits

DebitCollateral(op, a, amount) ==
    /\ DebitAllowed(op, a, amount)
    /\ ledger' = [ledger EXCEPT !.collateral_balance[a] = @ - amount]
    /\ total_collateral_credits' = total_collateral_credits - amount
    /\ UNCHANGED <<admin, opened, total_deposits, tokens>>

--------------------------------------------------------------------------------
\* The owner.  AdminUpdate's has_one check is the conjunct key = owner.

Pause(key) ==
    /\ key = owner
    /\ ~ paused
    /\ paused' = TRUE
    /\ UNCHANGED <<owner, pending_owner, limits, operator_pdas, authorized, money>>

Unpause(key) ==
    /\ key = owner
    /\ paused
    /\ paused' = FALSE
    /\ UNCHANGED <<owner, pending_owner, limits, operator_pdas, authorized, money>>

SetDepositCap(key, new_cap) ==
    /\ key = owner
    /\ deposit_cap' = new_cap
    /\ UNCHANGED <<owner, pending_owner, paused, max_withdrawal_per_tx,
                   max_operator_transfer_per_tx, operator_pdas, authorized, money>>

SetMaxWithdrawalPerTx(key, new_max) ==
    /\ key = owner
    /\ max_withdrawal_per_tx' = new_max
    /\ UNCHANGED <<owner, pending_owner, paused, deposit_cap,
                   max_operator_transfer_per_tx, operator_pdas, authorized, money>>

SetMaxOperatorTransferPerTx(key, new_max) ==
    /\ key = owner
    /\ max_operator_transfer_per_tx' = new_max
    /\ UNCHANGED <<owner, pending_owner, paused, deposit_cap,
                   max_withdrawal_per_tx, operator_pdas, authorized, money>>

SetOperator(key, op, status) ==
    /\ key = owner
    /\ operator_pdas' = operator_pdas \cup {op}
    /\ authorized' = IF status THEN authorized \cup {op} ELSE authorized \ {op}
    /\ UNCHANGED <<owner, pending_owner, paused, limits, money>>

TransferOwnership(key, new_owner) ==
    /\ key = owner
    /\ pending_owner' = new_owner
    /\ UNCHANGED <<owner, paused, limits, operator_pdas, authorized, money>>

AcceptOwnership(key) ==
    /\ key = pending_owner
    /\ owner' = key
    /\ pending_owner' = NoKey
    /\ UNCHANGED <<paused, limits, operator_pdas, authorized, money>>

--------------------------------------------------------------------------------
TraderStep ==
    \E a \in Accounts, amount \in U64 :
        \/ Deposit(a, amount)
        \/ Withdraw(a, amount)
        \/ Donate(a, amount)

OperatorStep ==
    \E op \in Keys, amount \in U64 :
        \/ \E from, to \in Accounts : InternalTransfer(op, from, to, amount)
        \/ \E a \in Accounts : CreditCollateral(op, a, amount)
        \/ \E a \in Accounts : DebitCollateral(op, a, amount)

OwnerStep ==
    \E key \in Keys :
        \/ Pause(key)
        \/ Unpause(key)
        \/ \E limit \in LimitValues :
              \/ SetDepositCap(key, limit)
              \/ SetMaxWithdrawalPerTx(key, limit)
              \/ SetMaxOperatorTransferPerTx(key, limit)
        \/ \E op \in Keys, status \in BOOLEAN : SetOperator(key, op, status)
        \/ \E new_owner \in Keys : TransferOwnership(key, new_owner)
        \/ AcceptOwnership(key)

Next == TraderStep \/ OperatorStep \/ OwnerStep

Spec == Init /\ [][Next]_vars

--------------------------------------------------------------------------------
(* Properties *)

\* The two running totals, which every handler adjusts by deltas and none
\* recomputes, are the sums of the two columns.  internal_transfer touches
\* neither total and must therefore conserve each column separately.
Conservation ==
    /\ total_deposits = TotalBalance(ledger)
    /\ total_collateral_credits = TotalCollateral(ledger)

\* The token account holds at least what the books promise.
Solvent == usdc_vault >= total_deposits

\* The books of the vault: typed, totalled and covered by tokens, however the
\* deltas of deposits, withdrawals, credits and transfers interleave.
VaultInv == TypeOK /\ Conservation /\ Solvent

\* The checked subtractions of withdraw and debit_collateral and the token
\* transfer of withdraw cannot fail once the row covers the amount: an
\* account can always be paid what its own row says.
EveryClaimPayable ==
    \A a \in Accounts :
        /\ ledger.balance[a] <= total_deposits
        /\ ledger.balance[a] <= usdc_vault
        /\ ledger.collateral_balance[a] <= total_collateral_credits

\* While the vault is paused no instruction of anybody, the unpausing one
\* included, changes a row, a total or the operators' view of them.
FrozenWhenPaused == [][paused => UNCHANGED <<ledger, totals, opened>>]_vars

\* Without an authorized operator the only way an account's spendable value
\* falls is that its own trader withdraws exactly that much USDC: revoking
\* every operator really stops the other programs.
OperatorsOnly ==
    [][authorized = {} =>
        \A a \in Accounts :
            Spendable(ledger', a) < Spendable(ledger, a) =>
                wallet'[a] - wallet[a] = Spendable(ledger, a) - Spendable(ledger', a)]_vars

\* Ownership moves only to the key the then owner last nominated, and a
\* nomination is spent by being accepted.
HandOver ==
    [][owner' # owner => owner' = pending_owner /\ pending_owner' = NoKey]_vars

\* What an owner decides holds for everybody at once: a pause, the revocation
\* of the operators, and the choice of the next owner.
AuthorityKept == FrozenWhenPaused /\ OperatorsOnly /\ HandOver

\* The books implement Custody: rows are claims and credits, the token
\* account is the custody.
Abstract == INSTANCE Custody WITH
    NumParties <- NumAccounts,
    Amounts <- U64,
    custody <- usdc_vault,
    claims <- ledger.balance,
    credits <- ledger.collateral_balance

ImplementsCustody == Abstract!Spec
================================================================================
