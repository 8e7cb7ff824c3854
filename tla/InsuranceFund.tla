----------------------------- MODULE InsuranceFund -----------------------------
(***************************************************************************)
(* insurance_fund: keeper rewards under a per-call and a daily cap, and a  *)
(* record of bad debt per market.                                          *)
(*                                                                         *)
(* The fund's money is a row of perp_vault.  A reward is one               *)
(* internal_transfer made inside the instruction; if it fails the whole    *)
(* instruction fails, the reset of the daily window included.  Time passes *)
(* between instructions, and anybody else may change the vault's rows.     *)
(***************************************************************************)
EXTENDS VaultLedger, Sequences

CONSTANTS
    NumMarkets,
    Fund,               \* the fund authority's row in the vault
    Keys, NoKey,
    ONE_DAY_SECS,
    Genesis,            \* the clock when the program is initialized
    MaxNow,             \* bound on the clock
    Amounts, Caps,      \* inputs: amounts, and values an owner may set a cap to
    MaxPayments,        \* bound on the number of rewards
    MaxFunds,           \* bound on the value in the vault
    MaxTxTransfer       \* perp_vault's max_operator_transfer_per_tx

ASSUME FundAssumption ==
    /\ NumMarkets \in Nat
    /\ Fund \in Accounts
    /\ NoKey \notin Keys
    /\ ONE_DAY_SECS \in Nat \ {0}
    /\ Genesis \in Nat /\ Genesis >= ONE_DAY_SECS
    /\ MaxNow \in Nat /\ MaxPayments \in Nat /\ MaxFunds \in Nat
    /\ Amounts \subseteq U64 /\ Caps \subseteq U64 /\ MaxTxTransfer \in U64

Markets == 1 .. NumMarkets

VARIABLES
    owner, pending_owner, paused, operators,
    total_bad_debt, total_keeper_rewards_paid, total_liquidations,
    max_keeper_reward_per_call, max_daily_keeper_rewards,   \* 0 means unlimited
    daily_keeper_rewards_paid, daily_reward_reset_timestamp,
    cumulative_bad_debt,    \* per market
    ledger, vault_open,     \* the vault's rows; not paused and the fund an operator of it
    now,
    payments                \* history: every reward with its time and the daily cap then

roles == <<owner, pending_owner, paused, operators>>
caps == <<max_keeper_reward_per_call, max_daily_keeper_rewards>>
debts == <<total_bad_debt, total_liquidations, cumulative_bad_debt>>
rewards == <<total_keeper_rewards_paid, daily_keeper_rewards_paid,
             daily_reward_reset_timestamp, payments>>
vars == <<roles, caps, debts, rewards, ledger, vault_open, now>>

TypeOK ==
    /\ owner \in Keys /\ pending_owner \in Keys \cup {NoKey}
    /\ paused \in BOOLEAN /\ operators \subseteq Keys
    /\ {total_bad_debt, total_keeper_rewards_paid, total_liquidations,
        max_keeper_reward_per_call, max_daily_keeper_rewards,
        daily_keeper_rewards_paid} \subseteq U64
    /\ daily_reward_reset_timestamp \in 0 .. now
    /\ cumulative_bad_debt \in [Markets -> U64]
    /\ ledger \in Ledgers /\ vault_open \in BOOLEAN
    /\ now \in Nat
    /\ payments \in Seq([at : Nat, amount : U64, cap : U64])

Init ==
    /\ owner \in Keys /\ pending_owner = NoKey
    /\ paused = FALSE /\ operators = {}
    /\ total_bad_debt = 0 /\ total_keeper_rewards_paid = 0 /\ total_liquidations = 0
    /\ max_keeper_reward_per_call \in Caps
    /\ max_daily_keeper_rewards \in Caps
    /\ daily_keeper_rewards_paid = 0
    /\ daily_reward_reset_timestamp = 0
    /\ cumulative_bad_debt = [m \in Markets |-> 0]
    /\ ledger = EmptyLedger
    /\ vault_open \in BOOLEAN
    /\ now = Genesis
    /\ payments = <<>>

--------------------------------------------------------------------------------
(* Rewards *)

WindowIsOver == now >= daily_reward_reset_timestamp + ONE_DAY_SECS

WindowStart == IF WindowIsOver THEN now ELSE daily_reward_reset_timestamp

PaidInWindowForgotten == 0  \* a mutant: the counter is overwritten, not added to
PaidInWindow == IF WindowIsOver THEN 0 ELSE daily_keeper_rewards_paid

\* Both rows are named by the operator; the vault's own checks apply to them.
\* An amount of zero returns before anything is read or reset.
PayKeeperReward(op, from, to, amount) ==
    /\ op \in operators
    /\ ~ paused
    /\ amount > 0
    /\ max_keeper_reward_per_call > 0 => amount <= max_keeper_reward_per_call
    /\ max_daily_keeper_rewards > 0 => PaidInWindow + amount <= max_daily_keeper_rewards
    /\ vault_open
    /\ TransferAllowed(ledger, from, to, amount, MaxTxTransfer)
    /\ total_keeper_rewards_paid + amount <= MaxU64
    /\ PaidInWindow + amount <= MaxU64
    /\ ledger' = Transferred(ledger, from, to, amount)
    /\ daily_reward_reset_timestamp' = WindowStart
    /\ daily_keeper_rewards_paid' = PaidInWindow + amount
    /\ total_keeper_rewards_paid' = total_keeper_rewards_paid + amount
    /\ payments' = Append(payments,
           [at |-> now, amount |-> amount, cap |-> max_daily_keeper_rewards])
    /\ UNCHANGED <<roles, caps, debts, vault_open, now>>

\* Put USDC of the owner's into the fund's row.
BootstrapInsurancePool(key, amount) ==
    /\ key = owner
    /\ amount > 0
    /\ vault_open
    /\ ledger.balance[Fund] + amount <= MaxU64
    /\ TotalBalance(ledger) + amount <= MaxFunds
    /\ ledger' = [ledger EXCEPT !.balance[Fund] = @ + amount]
    /\ UNCHANGED <<roles, caps, debts, rewards, vault_open, now>>

--------------------------------------------------------------------------------
(* Bad debt *)

RecordBadDebtPerMarketOnly(op, m, amount) ==    \* a mutant: the total is forgotten
    /\ op \in operators /\ ~ paused /\ amount > 0
    /\ cumulative_bad_debt[m] + amount <= MaxU64 /\ total_liquidations + 1 <= MaxU64
    /\ cumulative_bad_debt' = [cumulative_bad_debt EXCEPT ![m] = @ + amount]
    /\ total_liquidations' = total_liquidations + 1
    /\ UNCHANGED <<roles, caps, rewards, ledger, vault_open, now, total_bad_debt>>

RecordBadDebt(op, m, amount) ==
    /\ op \in operators
    /\ ~ paused
    /\ amount > 0
    /\ cumulative_bad_debt[m] + amount <= MaxU64
    /\ total_bad_debt + amount <= MaxU64
    /\ total_liquidations + 1 <= MaxU64
    /\ cumulative_bad_debt' = [cumulative_bad_debt EXCEPT ![m] = @ + amount]
    /\ total_bad_debt' = total_bad_debt + amount
    /\ total_liquidations' = total_liquidations + 1
    /\ UNCHANGED <<roles, caps, rewards, ledger, vault_open, now>>

--------------------------------------------------------------------------------
(* The owner *)

Pause(key) ==
    /\ key = owner
    /\ paused' = TRUE
    /\ UNCHANGED <<owner, pending_owner, operators, caps, debts, rewards, ledger, vault_open, now>>

Unpause(key) ==
    /\ key = owner
    /\ paused' = FALSE
    /\ UNCHANGED <<owner, pending_owner, operators, caps, debts, rewards, ledger, vault_open, now>>

SetMaxKeeperRewardPerCall(key, new_cap) ==
    /\ key = owner
    /\ max_keeper_reward_per_call' = new_cap
    /\ UNCHANGED <<roles, max_daily_keeper_rewards, debts, rewards, ledger, vault_open, now>>

\* A new daily cap leaves the running window as it is.
SetMaxDailyKeeperRewards(key, new_cap) ==
    /\ key = owner
    /\ max_daily_keeper_rewards' = new_cap
    /\ UNCHANGED <<roles, max_keeper_reward_per_call, debts, rewards, ledger, vault_open, now>>

SetOperator(key, op, status) ==
    /\ key = owner
    /\ operators' = IF status THEN operators \cup {op} ELSE operators \ {op}
    /\ UNCHANGED <<owner, pending_owner, paused, caps, debts, rewards, ledger, vault_open, now>>

TransferOwnership(key, new_owner) ==
    /\ key = owner
    /\ pending_owner' = new_owner
    /\ UNCHANGED <<owner, paused, operators, caps, debts, rewards, ledger, vault_open, now>>

AcceptOwnership(key) ==
    /\ key = pending_owner
    /\ owner' = key
    /\ pending_owner' = NoKey
    /\ UNCHANGED <<paused, operators, caps, debts, rewards, ledger, vault_open, now>>

--------------------------------------------------------------------------------
(* Around the program: the clock, and the vault's owner *)

Tick ==
    /\ now < MaxNow
    /\ now' = now + 1
    /\ UNCHANGED <<roles, caps, debts, rewards, ledger, vault_open>>

SetVaultOpen(open) ==
    /\ vault_open' = open
    /\ UNCHANGED <<roles, caps, debts, rewards, ledger, now>>

RewardStep ==
    /\ Len(payments) < MaxPayments
    /\ \E op \in Keys, from, to \in Accounts, amount \in Amounts :
          PayKeeperReward(op, from, to, amount)

DebtStep == \E op \in Keys, m \in Markets, amount \in Amounts : RecordBadDebt(op, m, amount)

OwnerStep ==
    \E key \in Keys :
        \/ \E amount \in Amounts : BootstrapInsurancePool(key, amount)
        \/ Pause(key)
        \/ Unpause(key)
        \/ \E new_cap \in Caps :
              \/ SetMaxKeeperRewardPerCall(key, new_cap)
              \/ SetMaxDailyKeeperRewards(key, new_cap)
        \/ \E op \in Keys, status \in BOOLEAN : SetOperator(key, op, status)
        \/ \E new_owner \in Keys : TransferOwnership(key, new_owner)
        \/ AcceptOwnership(key)

Next == RewardStep \/ DebtStep \/ OwnerStep \/ Tick \/ \E open \in BOOLEAN : SetVaultOpen(open)

Spec == Init /\ [][Next]_vars

--------------------------------------------------------------------------------
(* Properties *)

\* What the rewards number i to j came to.
PaidBetween(i, j) ==
    SumTo([k \in 1 .. Len(payments) |-> IF k \in i .. j THEN payments[k].amount ELSE 0],
          Len(payments))

WithinOneDay(i, j) == i <= j /\ payments[j].at - payments[i].at < ONE_DAY_SECS

\* No reward from i to j was paid without a daily cap or over this one.
CappedBy(i, j, cap) == \A k \in i .. j : payments[k].cap \in 1 .. cap

\* The total of the bad debt is the sum of what the markets recorded.
BadDebtAddsUp == total_bad_debt = SumTo(cumulative_bad_debt, NumMarkets)

\* The daily counter is exactly what was paid since the window began, however
\* resets, refused calls, lifted and lowered caps interleave with the clock.
DailyCounterExact ==
    daily_keeper_rewards_paid =
        SumTo([k \in 1 .. Len(payments) |->
                  IF payments[k].at >= daily_reward_reset_timestamp THEN payments[k].amount ELSE 0],
              Len(payments))

\* The fund's records: typed, the debt added up and the day's counter exact.
FundInv == TypeOK /\ BadDebtAddsUp /\ DailyCounterExact

\* In any 24 hours the fund pays at most twice the largest daily cap that was
\* in force: such a span meets at most two windows of the counter.
TwiceTheCap ==
    \A i, j \in 1 .. Len(payments), cap \in Caps :
        WithinOneDay(i, j) /\ CappedBy(i, j, cap) => PaidBetween(i, j) <= 2 * cap
================================================================================
