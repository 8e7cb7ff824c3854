------------------------------- MODULE Liquidator ------------------------------
(***************************************************************************)
(* liquidator: anybody may have a position liquidated, and is counted.     *)
(*                                                                         *)
(* The program signs the engine's liquidate_position as its own authority, *)
(* an operator of the engine, and counts the call once it has succeeded.   *)
(* The keeper names the vault row its reward goes to.  config.perp_engine  *)
(* is stored and never compared with the program that is called; callers   *)
(* are modelled as passing the engine.                                     *)
(***************************************************************************)
EXTENDS PerpEngine

CONSTANTS
    LiquidatorAuthority,    \* the program's key among the engine's operators
    Keepers,                \* keys that call liquidate; they need no permission
    MaxLiquidations         \* where the program's u64 counters end

ASSUME LiquidatorAssumption == LiquidatorAuthority \in Keys /\ MaxLiquidations \in Nat

VARIABLES
    liquidator_owner, liquidator_pending_owner, liquidator_paused,
    total_liquidations, keeper_liquidations

liquidator_roles == <<liquidator_owner, liquidator_pending_owner>>
liquidator_vars == <<liquidator_roles, liquidator_paused, total_liquidations, keeper_liquidations>>

LiquidatorTypeOK ==
    /\ liquidator_owner \in Keys /\ liquidator_pending_owner \in Keys \cup {NoKey}
    /\ liquidator_paused \in BOOLEAN
    /\ total_liquidations \in 0 .. MaxLiquidations
    /\ keeper_liquidations \in [Keepers -> 0 .. MaxLiquidations]

LiquidatorInit ==
    /\ liquidator_owner \in Keys /\ liquidator_pending_owner = NoKey
    /\ liquidator_paused = FALSE
    /\ total_liquidations = 0
    /\ keeper_liquidations = [k \in Keepers |-> 0]

KnownKeeperMayLiquidate(keeper, m, t, reward_row, insurance) ==  \* a mutant: stats must exist
    /\ keeper_liquidations[keeper] > 0
    /\ ~ liquidator_paused
    /\ LiquidationAllowed(LiquidatorAuthority, m, t, reward_row, insurance)
    /\ total_liquidations < MaxLiquidations

\* Every check of the instruction, the engine's included.
KeeperMayLiquidate(keeper, m, t, reward_row, insurance) ==
    /\ ~ liquidator_paused
    /\ LiquidationAllowed(LiquidatorAuthority, m, t, reward_row, insurance)
    /\ total_liquidations < MaxLiquidations
    /\ keeper_liquidations[keeper] < MaxLiquidations

\* A keeper's first liquidation creates its stats account.
Liquidate(keeper, m, t, reward_row, insurance) ==
    /\ KeeperMayLiquidate(keeper, m, t, reward_row, insurance)
    /\ LiquidatePosition(LiquidatorAuthority, m, t, reward_row, insurance)
    /\ total_liquidations' = total_liquidations + 1
    /\ keeper_liquidations' = [keeper_liquidations EXCEPT ![keeper] = @ + 1]
    /\ UNCHANGED <<liquidator_roles, liquidator_paused>>

PauseLiquidator(key) ==
    /\ key = liquidator_owner
    /\ liquidator_paused' = TRUE
    /\ UNCHANGED <<vars, liquidator_roles, total_liquidations, keeper_liquidations>>

UnpauseLiquidator(key) ==
    /\ key = liquidator_owner
    /\ liquidator_paused' = FALSE
    /\ UNCHANGED <<vars, liquidator_roles, total_liquidations, keeper_liquidations>>

TransferLiquidator(key, new_owner) ==
    /\ key = liquidator_owner
    /\ liquidator_pending_owner' = new_owner
    /\ UNCHANGED <<vars, liquidator_owner, liquidator_paused, total_liquidations,
                   keeper_liquidations>>

AcceptLiquidator(key) ==
    /\ key = liquidator_pending_owner
    /\ liquidator_owner' = key
    /\ liquidator_pending_owner' = NoKey
    /\ UNCHANGED <<vars, liquidator_paused, total_liquidations, keeper_liquidations>>

LiquidatorStep ==
    \/ \E keeper \in Keepers, m \in Markets, t \in Traders, row, insurance \in Accounts :
          Liquidate(keeper, m, t, row, insurance)
    \/ \E key \in Keys :
          \/ PauseLiquidator(key)
          \/ UnpauseLiquidator(key)
          \/ \E new_owner \in Keys : TransferLiquidator(key, new_owner)
          \/ AcceptLiquidator(key)

--------------------------------------------------------------------------------
(* Properties *)

\* Nothing but the funds named here stands between a position under its
\* maintenance margin and a keeper, new or not: while engine, vault and
\* liquidator run, the liquidation goes through whenever the pool covers the
\* margins entrusted to it and the insurance row a keeper's bounty.
CanAlwaysLiquidate ==
    \A m \in Markets, t \in Traders, keeper \in Keepers, row \in Accounts \ {Pool, Insurance} :
        LET pos == position[m][t]
        IN  /\ pos.size # 0 /\ Liquidatable(market[m], pos) /\ market[m].mark_price > 0
            /\ ~ paused /\ ~ liquidator_paused /\ LiquidatorAuthority \in operators
            /\ PoolIsSet /\ insurance_fund_balance = Insurance
            /\ vault_gate = [paused |-> FALSE, max_per_tx |-> 0, engine_authorized |-> TRUE]
            /\ Spendable(ledger, Pool) >= TotalMargin(position)
            /\ Spendable(ledger, Insurance) >= KeeperBounty(market[m], pos)
            /\ total_liquidations < MaxLiquidations
            /\ 2 * market[m].maintenance_margin_bps <= BPS
            => KeeperMayLiquidate(keeper, m, t, row, Insurance)
================================================================================
